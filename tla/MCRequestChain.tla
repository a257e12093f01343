--------------------------- MODULE MCRequestChain ---------------------------
(* One request through every wiring of the chain, with two panics.         *)
EXTENDS RequestChain
=============================================================================
