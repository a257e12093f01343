--------------------------- MODULE MCEventDelivery ---------------------------
(* Instances of EventDelivery for TLC.                                     *)
EXTENDS EventDelivery

CONSTANTS o1, o2

\* One content for one request, one for both; the selector matches the second, the
\* owner annotations are on the first only.
MCMapFunc == [v \in Contents |-> IF v = "one" THEN <<"a">> ELSE <<"a", "b">>]
MCOwnerOf == [v \in Contents |-> IF v = "one" THEN "a" ELSE None]

\* Every object takes every shape.
MCShapes == [o \in Objects |-> Contents]

\* Every object has one shape for good, and maps to a request of its own: it is
\* only created and deleted.
MCOneShape == [o \in Objects |-> IF o = o1 THEN {"one"} ELSE {"both"}]
MCSingleMapFunc == [v \in Contents |-> IF v = "one" THEN <<"a">> ELSE <<"b">>]

\* A walk puts either object first.
MCWalks ==
    {[S \in SUBSET Objects |-> SelectSeq(order, LAMBDA o : o \in S)] :
        order \in {<<o1, o2>>, <<o2, o1>>}}
=============================================================================
