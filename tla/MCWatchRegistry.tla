--------------------------- MODULE MCWatchRegistry ---------------------------
(* Instances of WatchRegistry for TLC.                                     *)
EXTENDS WatchRegistryInvariant

CONSTANTS k1, k2, c1, c2, i1, i2, i3, h1, h2, h3, h4

\* Request slices of one or two keys, a duplicated key included.
MCSlices == {<<k1>>, <<k2>>, <<k1, k1>>, <<k1, k2>>, <<k2, k1>>}

\* Both keys under one identity, or each under its own.
SharedIdentity == [k \in Keys |-> "tenant"]
OwnIdentity == [k \in Keys |-> IF k = k1 THEN "a" ELSE "b"]
=============================================================================
