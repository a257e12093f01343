------------------------- MODULE UncachedInstruments -------------------------
(***************************************************************************)
(* What instruments that follow the global MeterProvider promise those who *)
(* call for them: that the cache, its mutex and the rebuilds make no       *)
(* difference.  Every call works for the provider that was global at the   *)
(* moment it began, as if it had built instruments of its own from it      *)
(* there and then, and counts its request up and down on that provider     *)
(* alone, whatever is made global in the meantime.                         *)
(***************************************************************************)
EXTENDS Integers

CONSTANTS Providers, First, Calls, None

VARIABLES
    global,   \* the global provider
    chosen,   \* the provider each call works for, or None
    serving,  \* the calls counted as active requests
    active    \* active requests, per provider

vars == <<global, chosen, serving, active>>

Init ==
    /\ global = First
    /\ chosen = [c \in Calls |-> None]
    /\ serving = {}
    /\ active = [p \in Providers |-> 0]

Swap(p) ==
    /\ p # global
    /\ global' = p
    /\ UNCHANGED <<chosen, serving, active>>

\* A call begins: from here on its provider is settled.
Begin(c) ==
    /\ chosen[c] = None
    /\ chosen' = [chosen EXCEPT ![c] = global]
    /\ UNCHANGED <<global, serving, active>>

Serve(c) ==
    /\ chosen[c] # None /\ c \notin serving
    /\ serving' = serving \cup {c}
    /\ active' = [active EXCEPT ![chosen[c]] = @ + 1]
    /\ UNCHANGED <<global, chosen>>

End(c) ==
    /\ c \in serving
    /\ serving' = serving \ {c}
    /\ active' = [active EXCEPT ![chosen[c]] = @ - 1]
    /\ chosen' = [chosen EXCEPT ![c] = None]
    /\ UNCHANGED global

Next ==
    \/ \E p \in Providers : Swap(p)
    \/ \E c \in Calls : Begin(c) \/ Serve(c) \/ End(c)

Spec == Init /\ [][Next]_vars
=============================================================================
