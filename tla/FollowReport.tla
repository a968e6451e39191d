---------------------------- MODULE FollowReport ----------------------------
(***************************************************************************)
(* How the state of a follow job comes into the report file of its launch: *)
(* queue_follow_job_report_sync and the flush task it spawns (src/rust/    *)
(* launchdeck-engine/src/bin/launchdeck-follow-daemon.rs), against other   *)
(* callers of the same job, other jobs that hold the lock of the reports,  *)
(* and the host, which writes the whole file from what it has in memory:   *)
(* when the launch is submitted and, after it has told the daemon where the*)
(* file is, when the launch is over.                                       *)
(*                                                                         *)
(* A version of the job is the number of its changes. abort() of a task    *)
(* takes effect where the task has to wait; one that need not wait goes on.*)
(***************************************************************************)
EXTENDS Naturals, FiniteSets

CONSTANTS
    Reporter, \* the callers of sync_follow_job_report and its two variants
    Arming,   \* the one of them that arm_job spawns
    Task      \* flush tasks, as many as callers

ASSUME ReportAssumption ==
    /\ Arming \in Reporter
    /\ IsFiniteSet(Reporter) /\ Cardinality(Task) >= Cardinality(Reporter)
    /\ Task \intersect {"none", "free", "other"} = {}

VARIABLES
    version,   \* the job's state; every caller has changed it before it calls
    caller,    \* [Reporter -> [pc, snapshot, urgent]]
    pending,   \* follow_report_flushes[trace]: version and delay, or none
    registered,\* follow_report_flush_tasks[trace]: a task or "none"
    flush,     \* [Task -> [pc, holds, aborted]]
    writeLock, \* report_write_lock: free, other (another job) or a task
    file,      \* the report: what it has of the host, and the job's version
    host,      \* [pc, job]: the host, and the version its daemon client got
    path,      \* reportPath of the job is set
    lost,      \* history: how a version may have been lost
    failed     \* history: the newest version whose write failed

hostVars == <<host, path>>
reportVars == <<version, caller, pending, registered, flush, writeLock, file, hostVars, lost,
                failed>>

Version == 0..Cardinality(Reporter)
HostPart == {"none", "initial", "final"}
NoPending == [v |-> 0, delayed |-> FALSE]

ReportTypeOK ==
    /\ version \in Version
    /\ caller \in [Reporter -> [pc: {"idle", "armed", "read", "queued", "taken", "spawn", "done"},
                              snapshot: Version, urgent: BOOLEAN, had: Task \union {"none"}]]
    /\ pending \in [v: Version, delayed: BOOLEAN]
    /\ registered \in Task \union {"none"}
    /\ flush \in [Task -> [pc: {"new", "look", "sleep", "take", "lock", "read", "write",
                                "leave", "gone"},
                           holds: Version, existing: HostPart, aborted: BOOLEAN]]
    /\ writeLock \in Task \union {"free", "other"}
    /\ file \in [host: HostPart, job: Version]
    /\ host \in [pc: {"sending", "sent", "finish", "done"}, job: Version]
    /\ path \in BOOLEAN
    /\ lost \subseteq {"older", "aborted", "late", "overtaken", "gap", "host"}
    /\ failed \in Version

ReportInit ==
    /\ version = 0
    /\ caller \in [Reporter -> [pc: {"idle"}, snapshot: {0}, urgent: BOOLEAN, had: {"none"}]]
    /\ caller[Arming].urgent
    /\ pending = NoPending
    /\ registered = "none"
    /\ flush = [t \in Task |-> [pc |-> "new", holds |-> 0, existing |-> "none", aborted |-> FALSE]]
    /\ writeLock = "free" /\ lost = {} /\ failed = 0
    /\ file = [host |-> "none", job |-> 0]
    /\ host = [pc |-> "sending", job |-> 0] /\ path = FALSE

-----------------------------------------------------------------------------
(* queue_follow_job_report_sync *)

\* The caller has changed the job and takes its snapshot, or goes without one
\* if the job does not know its report yet.
Snapshot(c) ==
    /\ caller[c].pc = IF c = Arming THEN "armed" ELSE "idle"
    /\ version' = IF caller[c].pc = "idle" THEN version + 1 ELSE version
    /\ caller' = [caller EXCEPT ![c].pc = IF path THEN "read" ELSE "done",
                                ![c].snapshot = IF path THEN version' ELSE @]
    /\ UNCHANGED <<pending, registered, flush, writeLock, file, hostVars, lost, failed>>

\* After two awaits it replaces what is pending, be it newer.
Queue(c) ==
    /\ caller[c].pc = "read"
    /\ pending' = [v |-> caller[c].snapshot, delayed |-> ~caller[c].urgent]
    /\ lost' = IF \E d \in Reporter : caller[d].snapshot > caller[c].snapshot
                                         /\ caller[d].pc \notin {"idle", "armed", "read"}
               THEN lost \union {"older"} ELSE lost
    /\ caller' = [caller EXCEPT ![c].pc = IF caller[c].urgent THEN "queued" ELSE "spawn"]
    /\ UNCHANGED <<version, registered, flush, writeLock, file, hostVars, failed>>

Unregister(c) ==
    /\ caller[c].pc = "queued"
    /\ registered' = "none"
    /\ caller' = [caller EXCEPT ![c].pc = "taken", ![c].had = registered]
    /\ UNCHANGED <<version, pending, flush, writeLock, file, hostVars, lost, failed>>

Ended == [pc |-> "gone", holds |-> 0, existing |-> "none", aborted |-> FALSE]

Alive(t) == flush[t].pc \notin {"new", "gone"}

\* abort(): a task that waits for its delay, or for a lock somebody has, ends;
\* with it goes the snapshot it had taken.
Abort(c) ==
    /\ caller[c].pc = "taken"
    /\ LET t == caller[c].had IN
       IF t = "none" \/ ~Alive(t)
       THEN UNCHANGED <<flush, lost>>
       ELSE IF flush[t].pc = "sleep" \/ (flush[t].pc = "lock" /\ writeLock # "free")
       THEN /\ flush' = [flush EXCEPT ![t] = Ended]
            /\ lost' = IF flush[t].pc = "lock" THEN lost \union {"aborted"} ELSE lost
       ELSE /\ flush' = [flush EXCEPT ![t].aborted = TRUE]
            /\ UNCHANGED lost
    /\ caller' = [caller EXCEPT ![c].pc = "spawn", ![c].had = "none"]
    /\ UNCHANGED <<version, pending, registered, writeLock, file, hostVars, failed>>

\* spawn_follow_report_flush_task: not while a task is registered, though it
\* may have made up its mind to leave.
SpawnFlush(c) ==
    /\ caller[c].pc = "spawn"
    /\ caller' = [caller EXCEPT ![c].pc = "done"]
    /\ IF registered = "none"
       THEN /\ \E t \in Task :
                /\ flush[t].pc = "new"
                /\ flush' = [flush EXCEPT ![t].pc = "look"]
                /\ registered' = t
            /\ UNCHANGED lost
       ELSE /\ lost' = IF flush[registered].pc \in {"leave", "gone"} \/ flush[registered].aborted
                       THEN lost \union {"gap"} ELSE lost
            /\ UNCHANGED <<flush, registered>>
    /\ UNCHANGED <<version, pending, writeLock, file, hostVars, failed>>

-----------------------------------------------------------------------------
(* The flush task *)

FlushGoes(t, pc) == flush' = [flush EXCEPT ![t].pc = pc]

\* An aborted task ends at the next await that makes it wait; there is none
\* between the reading of the report and the writing.
Dies(t) ==
    /\ Alive(t) /\ flush[t].aborted /\ flush[t].pc # "read"
    /\ flush' = [flush EXCEPT ![t] = Ended]
    /\ writeLock' = IF writeLock = t THEN "free" ELSE writeLock
    /\ lost' = IF flush[t].pc = "lock" THEN lost \union {"aborted"}
               ELSE lost
    /\ UNCHANGED <<version, caller, pending, registered, file, hostVars, failed>>

LookPending(t) ==
    /\ flush[t].pc = "look"
    /\ FlushGoes(t, IF pending = NoPending THEN "leave"
                    ELSE IF pending.delayed THEN "sleep" ELSE "take")
    /\ UNCHANGED <<version, caller, pending, registered, writeLock, file, hostVars, lost, failed>>

TakePending(t) ==
    /\ flush[t].pc = "take" \/ (flush[t].pc = "sleep" /\ ~flush[t].aborted)
    /\ pending' = NoPending
    /\ flush' = [flush EXCEPT ![t].pc = IF pending = NoPending THEN "leave" ELSE "lock",
                              ![t].holds = pending.v]
    /\ UNCHANGED <<version, caller, registered, writeLock, file, hostVars, lost, failed>>

\* A task with an older snapshot is left behind: it is registered no more, or a
\* task that is registered no more overtakes it. The lock is a fair queue, so the
\* slower one has yet to ask for it; who has asked is not told apart.
Overtakes(t) ==
    \E u \in Task : /\ flush[u].pc = "lock" /\ ~flush[u].aborted
                    /\ flush[u].holds < flush[t].holds

\* Mutant of ReadReport: without the lock of the reports.
ReadReportUnlocked(t) ==
    /\ flush[t].pc = "lock"
    /\ flush' = [flush EXCEPT ![t].pc = "read", ![t].existing = file.host]
    /\ lost' = IF Overtakes(t) THEN lost \union {"overtaken"} ELSE lost
    /\ UNCHANGED <<version, caller, pending, registered, writeLock, file, hostVars, failed>>

\* update_persisted_follow_daemon_snapshot under the lock of the reports, which
\* the host does not know.
ReadReport(t) ==
    /\ flush[t].pc = "lock"
    /\ writeLock = "free"
    /\ writeLock' = t
    /\ flush' = [flush EXCEPT ![t].pc = "read", ![t].existing = file.host]
    /\ lost' = IF Overtakes(t) THEN lost \union {"overtaken"} ELSE lost
    /\ UNCHANGED <<version, caller, pending, registered, file, hostVars, failed>>

\* What was read, with the job replaced. An aborted task that comes here late
\* may overwrite a newer snapshot.
WriteReport(t) ==
    /\ flush[t].pc = "read"
    /\ file' = [host |-> flush[t].existing, job |-> flush[t].holds]
    /\ lost' = IF file.job > flush[t].holds /\ flush[t].aborted
               THEN lost \union {"late"} ELSE lost
    /\ flush' = [flush EXCEPT ![t].pc = "write", ![t].holds = 0, ![t].existing = "none"]
    /\ UNCHANGED <<version, caller, pending, registered, writeLock, hostVars, failed>>

\* The report cannot be read, parsed or written: the snapshot is gone, and
\* nobody is told to try it again.
WriteFails(t) ==
    /\ flush[t].pc = "read"
    /\ failed' = IF flush[t].holds > failed THEN flush[t].holds ELSE failed
    /\ flush' = [flush EXCEPT ![t].pc = "write", ![t].holds = 0, ![t].existing = "none"]
    /\ UNCHANGED <<version, caller, pending, registered, writeLock, file, hostVars, lost>>

\* Mutant of LookAgain: it leaves without looking for more.
LeaveAtOnce(t) ==
    /\ flush[t].pc = "write"
    /\ writeLock' = "free"
    /\ FlushGoes(t, "leave")
    /\ UNCHANGED <<version, caller, pending, registered, file, hostVars, lost, failed>>

LookAgain(t) ==
    /\ flush[t].pc = "write"
    /\ writeLock' = "free"
    /\ FlushGoes(t, IF pending = NoPending THEN "leave" ELSE "look")
    /\ UNCHANGED <<version, caller, pending, registered, file, hostVars, lost, failed>>

\* Whatever is registered goes, also a task that is not its own.
Leave(t) ==
    /\ flush[t].pc = "leave"
    /\ registered' = "none"
    /\ flush' = [flush EXCEPT ![t] = Ended]
    /\ UNCHANGED <<version, caller, pending, writeLock, file, hostVars, lost, failed>>

-----------------------------------------------------------------------------
(* Others *)

\* The flush of another job, as long as this one has something to report.
OtherJob ==
    /\ \/ /\ path /\ \E c \in Reporter : caller[c].pc # "done"
          /\ writeLock = "free" /\ writeLock' = "other"
       \/ writeLock = "other" /\ writeLock' = "free"
    /\ UNCHANGED <<version, caller, pending, registered, flush, file, hostVars, lost, failed>>

\* The launch is submitted: persist_launch_report, which may fail.
HostPersists ==
    /\ host.pc = "sending"
    /\ host' = [host EXCEPT !.pc = "sent"]
    /\ file' \in {file, [host |-> "initial", job |-> host.job]}
    /\ UNCHANGED <<version, caller, pending, registered, flush, writeLock, path, lost, failed>>

\* The launch is confirmed: arm_job learns the path of the report and spawns a
\* sync of it. The answer may not come back. Or the job is not armed at all.
HostArms ==
    /\ host.pc = "sent"
    /\ \/ /\ version' = version + 1
          /\ path' = (file.host # "none")
          /\ host' \in [pc : {"finish"}, job : {host.job, version'}]
          /\ caller' = [caller EXCEPT ![Arming].pc = "armed"]
       \/ /\ host' = [host EXCEPT !.pc = "finish"]
          /\ UNCHANGED <<version, path, caller>>
    /\ UNCHANGED <<pending, registered, flush, writeLock, file, lost, failed>>

\* update_persisted_launch_report, in another process: the whole report, with
\* the job as the last answer of the daemon had it.
HostWrites ==
    /\ host.pc = "finish"
    /\ host' = [host EXCEPT !.pc = "done"]
    /\ \/ /\ file.host # "none"
          /\ file' = [host |-> "final", job |-> host.job]
          /\ lost' = IF file.job > host.job THEN lost \union {"host"} ELSE lost
       \/ UNCHANGED <<file, lost>>
    /\ UNCHANGED <<version, caller, pending, registered, flush, writeLock, path, failed>>

CallerStep(c) == Snapshot(c) \/ Queue(c) \/ Unregister(c) \/ Abort(c) \/ SpawnFlush(c)
FlushStep(t) == LookPending(t) \/ TakePending(t) \/ ReadReport(t) \/ WriteReport(t)
                  \/ WriteFails(t) \/ LookAgain(t) \/ Leave(t)

ReportNext ==
    \/ \E c \in Reporter : CallerStep(c)
    \/ \E t \in Task : FlushStep(t) \/ Dies(t)
    \/ OtherJob \/ HostPersists \/ HostArms \/ HostWrites

ReportSpec == ReportInit /\ [][ReportNext]_reportVars

\* Tasks are run, the lock comes free again and again.
ReportFairness ==
    /\ \A c \in Reporter : WF_reportVars(CallerStep(c))
    /\ \A t \in Task : SF_reportVars(FlushStep(t))
    /\ WF_reportVars(writeLock = "other" /\ OtherJob)
    /\ WF_reportVars(HostPersists \/ HostArms \/ HostWrites)

-----------------------------------------------------------------------------
(* Properties *)

(***************************************************************************)
(* The last state of the job comes into the report, and stays, unless the  *)
(* write of that very state failed, which nothing repeats, or it was lost: *)
(* an older snapshot replaced it, the task that had taken it was aborted,  *)
(* an aborted or an overtaken task wrote late, the task that was to write  *)
(* it was leaving or being aborted, or the host wrote over it. A job that  *)
(* was never told its report has none.                                     *)
(***************************************************************************)
LastStateReported == <>[](file.job = version \/ failed = version \/ lost # {} \/ ~path)

(***************************************************************************)
(* The report never goes back to an older state of the job, but by a task  *)
(* that was aborted or overtaken, by an older snapshot that came in late or*)
(* by the host.                                                            *)
(***************************************************************************)
NeverBack ==
    [][file'.job >= file.job
         \/ {"late", "overtaken", "older", "host"} \intersect lost' # {}]_reportVars

\* Said of no run: the final report of the host is kept. A flush that has read
\* the report before the host wrote it writes the initial one back, and with it
\* goes what the launch sent (observability.rs:193, main.rs:6549).
FinalKept == [][file.host = "final" => file'.host = "final"]_reportVars
=============================================================================
