--------------------------- MODULE ConsumerWatches ---------------------------
(***************************************************************************)
(* What the WatchRegistry promises its consumers, without informers,       *)
(* clients or locks: every consumer owns a set of watches, each with a     *)
(* registration of its own.  A call either replaces the caller's whole set *)
(* at one instant or leaves it exactly as it was, and never touches what   *)
(* another consumer holds.  A registration once given up never comes back. *)
(***************************************************************************)
CONSTANTS Keys, Consumers, Handles, None

VARIABLES
    registered,  \* consumer -> key -> the registration it holds, or None
    wanted,      \* consumer -> the set its running call asks for, {} if none
    retired      \* registrations that are dead for good

vars == <<registered, wanted, retired>>

Held(c) == {k \in Keys : registered[c][k] # None}
HandlesHeld == {registered[c][k] : c \in Consumers, k \in Keys} \ {None}

Init ==
    /\ registered = [c \in Consumers |-> [k \in Keys |-> None]]
    /\ wanted = [c \in Consumers |-> {}]
    /\ retired = {}

\* A registration is retired only when nobody holds it any more.
Retire ==
    /\ retired \subseteq retired' /\ retired' \subseteq Handles
    /\ retired' \cap HandlesHeld' = {}

\* The consumer asks for a set of keys, one request at a time.
Ask(c) ==
    /\ wanted = [d \in Consumers |-> {}]
    /\ \E W \in (SUBSET Keys) \ {{}} : wanted' = [wanted EXCEPT ![c] = W]
    /\ UNCHANGED <<registered, retired>>

\* The set becomes the one asked for: keys already held keep their registration,
\* keys dropped retire theirs, new keys get one that nobody has ever held.
Succeed(c) ==
    /\ wanted[c] # {}
    /\ wanted' = [wanted EXCEPT ![c] = {}]
    /\ \A d \in Consumers \ {c} : registered'[d] = registered[d]
    /\ Held(c)' = wanted[c]
    /\ \A k \in Held(c) \cap wanted[c] : registered'[c][k] = registered[c][k]
    /\ \A k \in wanted[c] \ Held(c) :
          registered'[c][k] \in Handles \ (HandlesHeld \cup retired)
    /\ \A k, l \in wanted[c] : registered'[c][k] = registered'[c][l] => k = l
    /\ \A k \in Held(c) \ wanted[c] : registered[c][k] \in retired'
    /\ Retire

\* The call fails: nothing changes for anybody, though registrations that were
\* prepared for it may be thrown away.
Fail(c) ==
    /\ wanted[c] # {}
    /\ wanted' = [wanted EXCEPT ![c] = {}]
    /\ UNCHANGED registered
    /\ Retire

\* The consumer gives up everything.
Release(c) ==
    /\ wanted = [d \in Consumers |-> {}]
    /\ registered' = [registered EXCEPT ![c] = [k \in Keys |-> None]]
    /\ \A k \in Held(c) : registered[c][k] \in retired'
    /\ Retire
    /\ UNCHANGED wanted

Next == \E c \in Consumers : Ask(c) \/ Succeed(c) \/ Fail(c) \/ Release(c)

Spec == Init /\ [][Next]_vars
=============================================================================
