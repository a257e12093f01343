---------------------------- MODULE MCWatchReaders ----------------------------
(* Instances of WatchReaders for TLC.                                      *)
EXTENDS WatchReaders

CONSTANTS k1, k2

ReaderSlices == {<<k1>>, <<k2>>}

SharedIdentity == [k \in Keys |-> "tenant"]
=============================================================================
