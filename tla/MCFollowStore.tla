--------------------------- MODULE MCFollowStore ---------------------------
(* The instances of FollowStore and FollowReport that TLC checks: the      *)
(* requests to the daemon, and what it writes into the report of a job. The*)
(* two share no state; a behaviour takes the steps of one of them.         *)
EXTENDS FollowStore, FollowReport, TLC

CONSTANTS r1, r2, r3, f1, f2, f3

VARIABLE part

Symmetric == Permutations(Trace) \union Permutations(Caller) \union
             Permutations(Payload) \union Permutations(Launch)

\* Which of the tasks is spawned first, and which of the callers other than
\* the arm begins first, makes no difference. Other jobs leave the lock of the
\* reports alone here and no write fails (MCFollowReport has both): its own
\* tasks wait for the lock.
InOrder ==
    /\ writeLock # "other" /\ failed = 0
    /\ flush[f2].pc # "new" => flush[f1].pc # "new"
    /\ flush[f3].pc # "new" => flush[f2].pc # "new"
    /\ caller[r3].pc # "idle" => caller[r2].pc # "idle"

\* The report when nobody has anything to write.
ReportIdle ==
    /\ version = 0 /\ lost = {} /\ failed = 0 /\ path = FALSE
    /\ file = [host |-> "none", job |-> 0] /\ host = [pc |-> "sending", job |-> 0]
    /\ caller = [c \in Reporter |->
                    [pc |-> "idle", snapshot |-> 0, urgent |-> TRUE, had |-> "none"]]
    /\ pending = NoPending /\ registered = "none" /\ writeLock = "free"
    /\ flush = [t \in Task |-> [Ended EXCEPT !.pc = "new"]]

DaemonInit ==
    \/ part = "store" /\ StoreInit /\ ReportIdle
    \/ part = "report" /\ StoreInit /\ ReportInit

\* The host, the callers and the flush tasks are done; a job that was never
\* armed has nothing to report for the arm.
Rest ==
    /\ part = "report" /\ host.pc = "done" /\ writeLock = "free"
    /\ \A c \in Reporter : caller[c].pc = "done" \/ (c = Arming /\ caller[c].pc = "idle")
    /\ \A t \in Task : ~Alive(t)
    /\ UNCHANGED <<storeVars, reportVars, part>>

DaemonNext ==
    \/ part = "store" /\ StoreNext /\ UNCHANGED <<reportVars, part>>
    \/ part = "report" /\ ReportNext /\ InOrder' /\ UNCHANGED <<storeVars, part>>
    \/ Rest

DaemonSpec == DaemonInit /\ [][DaemonNext]_<<storeVars, reportVars, part>>
=============================================================================
