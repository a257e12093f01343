---------------------------- MODULE WatchReaders ----------------------------
(***************************************************************************)
(* WatchRegistration.GetIndexer, called by consumers' goroutines without   *)
(* the registry's mutex, against the registry of WatchRegistry.tla.  The   *)
(* two channels are looked at one after the other, and a release, a        *)
(* rollback, the drop of the informer or the cancellation of a parent      *)
(* context may fall between the two looks.                                 *)
(***************************************************************************)
EXTENDS WatchRegistry

CONSTANT Readers

VARIABLES
    handed,  \* registrations EnsureWatchSet has returned
    reader   \* the GetIndexer call of each goroutine

readVars == <<handed, reader>>
allVars == <<vars, readVars>>

InformerOf(h) == registration[h].informer

\* Either channel of the registration is closed.
Stopped(h) == h \in released \/ Done(InformerOf(h))

NoRead == [phase |-> "idle", handle |-> None, wasStopped |-> FALSE]

\* What was handed out are registrations, and each read is of one.
ReadersTypeOK ==
    /\ handed \subseteq Handles
    /\ reader \in [Readers -> [phase : {"idle", "reading", "served", "refused"},
                               handle : Handles \cup {None},
                               wasStopped : BOOLEAN]]

ReadersInit ==
    /\ Init
    /\ handed = {}
    /\ reader = [r \in Readers |-> NoRead]

\* A step of the registry; a call that commits returns its registrations.
RegistryStep ==
    /\ Next
    /\ handed' = IF pc = "ensure" /\ pc' = "idle"
                 THEN handed \cup {regs[n] : n \in 1..Len(regs)}
                 ELSE handed
    /\ UNCHANGED reader

\* GetIndexer looks at the released channel ...
CheckReleased(r, h) ==
    /\ reader[r].phase = "idle"
    /\ h \in handed
    /\ reader' = [reader EXCEPT ![r] =
          [phase |-> IF h \in released THEN "refused" ELSE "reading",
           handle |-> h,
           wasStopped |-> Stopped(h)]]
    /\ UNCHANGED <<vars, handed>>

\* (slip) Only the released channel is looked at.
CheckDoneSkipped(r) ==
    /\ reader[r].phase = "reading"
    /\ reader' = [reader EXCEPT ![r].phase = "served"]
    /\ UNCHANGED <<vars, handed>>

\* ... then at the informer's done channel, and answers.
CheckDone(r) ==
    /\ reader[r].phase = "reading"
    /\ reader' = [reader EXCEPT ![r].phase =
          IF Done(InformerOf(reader[r].handle)) THEN "refused" ELSE "served"]
    /\ UNCHANGED <<vars, handed>>

\* The caller is done with the answer and may call again.
ReadReturns(r) ==
    /\ reader[r].phase \in {"served", "refused"}
    /\ reader' = [reader EXCEPT ![r] = NoRead]
    /\ UNCHANGED <<vars, handed>>

ReadersNext ==
    \/ RegistryStep
    \/ \E r \in Readers :
          \/ \E h \in Handles : CheckReleased(r, h)
          \/ CheckDone(r)
          \/ ReadReturns(r)

ReadersSpec == ReadersInit /\ [][ReadersNext]_allVars

-----------------------------------------------------------------------------
\* A cache is served only if the watch was alive when the call began: the two
\* separate looks at the channels act like one.
ServedWasLive ==
    \A r \in Readers : reader[r].phase = "served" => ~reader[r].wasStopped

\* ErrWatchStopped is for good, and for a reason the consumer can know of: it
\* released the key itself, or the context the informer was started under is
\* cancelled.  What other consumers release is no reason.
RefusalIsJustified ==
    \A r \in Readers : reader[r].phase = "refused" =>
        LET h == reader[r].handle
        IN h \in released \/ ctxOf[InformerOf(h)] \in doneCtx

\* A registration whose channels are both open reads a cache that is being fed:
\* its informer is the one watched for the key, and its Run goroutine is on.
LiveRegistrationIsFed ==
    \A h \in handed : ~Stopped(h) =>
        /\ watches[registration[h].key] = InformerOf(h)
        /\ run[InformerOf(h)] = "running"
=============================================================================
