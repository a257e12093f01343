----------------------------- MODULE FamilySources -----------------------------
(***************************************************************************)
(* What the reservations, the probes and the claim are for: a family on    *)
(* controller-runtime's registry is taken at one instant, by one           *)
(* registration or by another component, only while it is free, and is     *)
(* served only by who has taken it.  A registration gives it back only     *)
(* unserved; whoever is served, or is another component, keeps it.         *)
(***************************************************************************)
CONSTANTS Calls, Families

VARIABLES
    held,   \* the families registrations have taken, with who has
    served, \* the registrations that are served
    others  \* the families other components have taken

vars == <<held, served, others>>

Free(f) == f \notin others /\ \A c \in Calls : <<f, c>> \notin held

Init == held = {} /\ served = {} /\ others = {}

Take(c, f) ==
    /\ Free(f) /\ \A g \in Families : <<g, c>> \notin held
    /\ held' = held \cup {<<f, c>>}
    /\ UNCHANGED <<served, others>>

Serve(c, f) ==
    /\ <<f, c>> \in held /\ c \notin served
    /\ served' = served \cup {c}
    /\ UNCHANGED <<held, others>>

GiveBack(c, f) ==
    /\ <<f, c>> \in held /\ c \notin served
    /\ held' = held \ {<<f, c>>}
    /\ UNCHANGED <<served, others>>

OtherTakes(f) ==
    /\ Free(f)
    /\ others' = others \cup {f}
    /\ UNCHANGED <<held, served>>

Next ==
    \E f \in Families :
        OtherTakes(f) \/ \E c \in Calls : Take(c, f) \/ Serve(c, f) \/ GiveBack(c, f)

Spec == Init /\ [][Next]_vars
=============================================================================
