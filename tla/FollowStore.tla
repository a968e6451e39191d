---------------------------- MODULE FollowStore ----------------------------
(***************************************************************************)
(* The table of follow jobs of the follow daemon and the handlers that     *)
(* change it: FollowDaemonStore in src/rust/launchdeck-engine/src/follow.rs*)
(* and reserve_job, arm_job, cancel_job, stop_all_jobs, spawn_job_if_needed*)
(* and the frame of run_job in src/bin/launchdeck-follow-daemon.rs.        *)
(*                                                                         *)
(* A handler runs from one await to the next. Each of its stages is a value*)
(* of call[c].pc, so that other handlers, the runners of the jobs, a client*)
(* that hangs up and the end of the process come between any two of them.  *)
(* What a runner does with the actions of its job is FollowRunner; here it *)
(* is the three writes run_job makes to the state of the job.              *)
(*                                                                         *)
(* The state file is left out: main clears the jobs it loads from it before*)
(* the listener is bound, so only the failure of a write to it is seen.    *)
(***************************************************************************)
EXTENDS FollowJobs, Naturals, FiniteSets

CONSTANTS
    Trace,          \* the trace ids of launches
    Payload,        \* what a reserve request asks for
    Launch,         \* mint, creator and signature of an arm request
    Caller,         \* the connections of clients
    MaxActiveJobs,  \* LAUNCHDECK_FOLLOW_MAX_ACTIVE_JOBS
    NoJob, NoLaunch, NoRequest, NoVerdict,
    MaxStops,       \* bound: ends of the process
    MaxFailures     \* bound: failed writes of the state file

ASSUME StoreAssumption ==
    /\ MaxActiveJobs \in Nat \ {0}
    /\ IsFiniteSet(Trace)
    /\ NoLaunch \notin Launch
    /\ MaxStops \in Nat /\ MaxFailures \in Nat

VARIABLES
    jobs,       \* FollowDaemonStateFile.jobs, by trace
    activeJobs, \* FollowDaemonHealth.activeJobs
    up,         \* the daemon listens
    call,       \* the handler each connection has under way
    runner,     \* AppState.active_jobs: the stage of the runner of a trace
    verdict,    \* final_state in run_job
    stops, failures,
    cut         \* history: traces with an arm that ended before it spawned

storeVars == <<jobs, activeJobs, up, call, runner, verdict, stops, failures, cut>>

Job == [state: JobState, cancelled: BOOLEAN, payload: Payload,
        launch: Launch \union {NoLaunch}]

Request ==
    [op: {"reserve"}, trace: Trace, item: Payload] \union
    [op: {"arm"}, trace: Trace, item: Launch] \union
    [op: {"cancel"}, trace: Trace] \union
    [op: {"stopAll"}]

\* arrived: before the first look at the store; admitted: a reservation past
\* the capacity check; save: in persist; spawn: an arm before its runner.
Underway == {"arrived", "looked", "admitted", "save", "spawn"}

\* unknown: no such trace; refused: capacity or a conflict; failed: persist.
Answered == {"ok", "unknown", "refused", "failed"}

Idle == [pc |-> "idle", request |-> NoRequest, fresh |-> FALSE, heard |-> TRUE]
Call == [pc: Underway \union Answered, request: Request, fresh: BOOLEAN,
         heard: BOOLEAN]

RunnerStage == {"none", "start", "claim", "work", "finish", "leave"}

TypeOK ==
    /\ jobs \in [Trace -> Job \union {NoJob}]
    /\ activeJobs \in Nat
    /\ up \in BOOLEAN
    /\ call \in [Caller -> Call \union {Idle}]
    /\ runner \in [Trace -> RunnerStage]
    /\ verdict \in [Trace -> TerminalJob \union {NoVerdict}]
    /\ stops \in 0..MaxStops
    /\ failures \in 0..MaxFailures
    /\ cut \subseteq Trace

ASSUME NoJobAssumption == NoJob \notin Job

NoJobs == [t \in Trace |-> NoJob]

StoreInit ==
    /\ jobs = NoJobs
    /\ activeJobs = 0
    /\ up = TRUE
    /\ call = [c \in Caller |-> Idle]
    /\ runner = [t \in Trace |-> "none"]
    /\ verdict = [t \in Trace |-> NoVerdict]
    /\ stops = 0 /\ failures = 0
    /\ cut = {}

-----------------------------------------------------------------------------
(* Helpers *)

\* active_job_count
Active(table) == {t \in Trace : table[t] # NoJob /\ table[t].state \in ActiveJob}

\* Every write to the table counts the active jobs again: refresh_counts.
Store(table) ==
    /\ jobs' = table
    /\ activeJobs' = Cardinality(Active(table))

KeepStore == UNCHANGED <<jobs, activeJobs>>

\* Mutant of CancelledJob: only the request is noted.
CancelledJobLater(job) == [job EXCEPT !.cancelled = TRUE]

CancelledJob(job) == [job EXCEPT !.state = "Cancelled", !.cancelled = TRUE]

At(c, stage, op) ==
    /\ call[c].pc = stage
    /\ call[c].request.op = op

Goto(c, stage) == call' = [call EXCEPT ![c].pc = stage]

-----------------------------------------------------------------------------
(* Clients *)

\* A request reaches the daemon.
Ask(c, request) ==
    /\ up
    /\ call[c] = Idle
    /\ call' = [call EXCEPT ![c] = [pc |-> "arrived", request |-> request,
                                    fresh |-> FALSE, heard |-> TRUE]]

\* The client reads the answer.
Read(c) ==
    /\ call[c].pc \in Answered
    /\ call[c].heard
    /\ call' = [call EXCEPT ![c] = Idle]

\* The client hangs up: its task is aborted, or the connection breaks.
HangUp(c) ==
    /\ call[c].pc # "idle"
    /\ call[c].heard
    /\ call' = [call EXCEPT ![c].heard = FALSE]

\* A handler whose client is gone is dropped at its next await, or ends.
Drop(c) ==
    /\ ~call[c].heard
    /\ cut' = IF call[c].pc \in {"save", "spawn"} /\ call[c].request.op = "arm"
              THEN cut \union {call[c].request.trace}
              ELSE cut
    /\ call' = [call EXCEPT ![c] = Idle]
    /\ UNCHANGED <<jobs, activeJobs, up, runner, verdict, stops, failures>>

-----------------------------------------------------------------------------
(* POST /jobs/reserve *)

\* ensure_follow_request_prerequisites: a websocket or a warmed cache is missing.
ReserveUnready(c) ==
    /\ At(c, "arrived", "reserve")
    /\ Goto(c, "failed")
    /\ UNCHANGED <<jobs, activeJobs, up, runner, verdict, stops, failures, cut>>

\* The look at the trace that precedes the capacity check.
ReserveLook(c) ==
    /\ At(c, "arrived", "reserve")
    /\ call' = [call EXCEPT ![c].pc = "looked",
                            ![c].fresh = jobs[call[c].request.trace] = NoJob]
    /\ UNCHANGED <<jobs, activeJobs, up, runner, verdict, stops, failures, cut>>

\* build_health, has_capacity_for_new_job
ReserveAdmit(c) ==
    /\ At(c, "looked", "reserve")
    /\ Goto(c, IF call[c].fresh /\ activeJobs >= MaxActiveJobs
               THEN "refused" ELSE "admitted")
    /\ UNCHANGED <<jobs, activeJobs, up, runner, verdict, stops, failures, cut>>

\* Mutant of Conflicts: a reservation not armed yet may be asked for anew.
ConflictsOnceArmed(job, payload) ==
    job.payload # payload /\ job.state # "Reserved"

\* A repeated trace must ask for what was reserved.
Conflicts(job, payload) == job.payload # payload

\* FollowDaemonStore::reserve_job, up to its persist.
ReserveStore(c) ==
    LET t == call[c].request.trace
        p == call[c].request.item
        newJob == [state |-> "Reserved", cancelled |-> FALSE,
                   payload |-> p, launch |-> NoLaunch]
    IN /\ At(c, "admitted", "reserve")
       /\ \/ /\ jobs[t] = NoJob
             /\ Store([jobs EXCEPT ![t] = newJob])
             /\ Goto(c, "save")
          \/ /\ jobs[t] # NoJob
             /\ ~Conflicts(jobs[t], p)
             /\ Store(jobs)
             /\ Goto(c, "save")
          \/ /\ jobs[t] # NoJob
             /\ Conflicts(jobs[t], p)
             /\ KeepStore
             /\ Goto(c, "refused")
       /\ UNCHANGED <<up, runner, verdict, stops, failures, cut>>

-----------------------------------------------------------------------------
(* POST /jobs/arm *)

ArmConflicts(job, launch) == job.launch \notin {NoLaunch, launch}

\* Mutant of ArmsJob: a cancelled job is armed like any other.
ArmsCancelledJob(job) == job.state \in ActiveJob \union {"Cancelled"}

\* A terminal job is answered with as it is.
ArmsJob(job) == job.state \in ActiveJob

\* FollowDaemonStore::arm_job, up to its persist.
ArmStore(c) ==
    LET t == call[c].request.trace
        l == call[c].request.item
        armed == [jobs[t] EXCEPT !.state = ArmedJobState(@), !.launch = l]
    IN /\ At(c, "arrived", "arm")
       /\ \/ /\ jobs[t] = NoJob
             /\ KeepStore
             /\ Goto(c, "unknown")
          \/ /\ jobs[t] # NoJob
             /\ ArmConflicts(jobs[t], l)
             /\ KeepStore
             /\ Goto(c, "refused")
          \/ /\ jobs[t] # NoJob
             /\ ~ArmConflicts(jobs[t], l)
             /\ ~ArmsJob(jobs[t])
             /\ KeepStore
             /\ Goto(c, "spawn")
          \/ /\ jobs[t] # NoJob
             /\ ~ArmConflicts(jobs[t], l)
             /\ ArmsJob(jobs[t])
             /\ Store([jobs EXCEPT ![t] = armed])
             /\ Goto(c, "save")
       /\ UNCHANGED <<up, runner, verdict, stops, failures, cut>>

\* Mutant of ArmSpawn: the trace is taken for spawned by an arm that was not.
ArmSpawnOnce(c) ==
    LET t == call[c].request.trace
    IN /\ At(c, "spawn", "arm")
       /\ runner' = IF runner[t] = "none" /\ t \notin cut
                    THEN [runner EXCEPT ![t] = "start"] ELSE runner
       /\ cut' = cut \ {t}
       /\ Goto(c, "ok")
       /\ UNCHANGED <<jobs, activeJobs, up, verdict, stops, failures>>

\* spawn_job_if_needed: one runner for a trace, under the lock of active_jobs.
ArmSpawn(c) ==
    LET t == call[c].request.trace
    IN /\ At(c, "spawn", "arm")
       /\ runner' = IF runner[t] = "none" THEN [runner EXCEPT ![t] = "start"]
                                          ELSE runner
       /\ cut' = cut \ {t}
       /\ Goto(c, "ok")
       /\ UNCHANGED <<jobs, activeJobs, up, verdict, stops, failures>>

-----------------------------------------------------------------------------
(* POST /jobs/cancel of a whole job, POST /jobs/stop-all *)

CancelStore(c) ==
    LET t == call[c].request.trace
    IN /\ At(c, "arrived", "cancel")
       /\ \/ /\ jobs[t] = NoJob
             /\ KeepStore
             /\ Goto(c, "unknown")
          \/ /\ jobs[t] # NoJob
             /\ Store([jobs EXCEPT ![t] = CancelledJob(@)])
             /\ Goto(c, "save")
       /\ UNCHANGED <<up, runner, verdict, stops, failures, cut>>

\* cancel_all_jobs leaves the jobs that have ended.
StopAllStore(c) ==
    /\ At(c, "arrived", "stopAll")
    /\ Store([t \in Trace |-> IF t \in Active(jobs) THEN CancelledJob(jobs[t])
                                                    ELSE jobs[t]])
    /\ Goto(c, "save")
    /\ UNCHANGED <<up, runner, verdict, stops, failures, cut>>

-----------------------------------------------------------------------------
(* persist: the table has changed whether the file is written or not *)

Saved(c) ==
    /\ call[c].pc = "save"
    /\ Goto(c, IF call[c].request.op = "arm" THEN "spawn" ELSE "ok")
    /\ UNCHANGED <<jobs, activeJobs, up, runner, verdict, stops, failures, cut>>

SaveFails(c) ==
    /\ call[c].pc = "save"
    /\ failures < MaxFailures
    /\ failures' = failures + 1
    /\ cut' = IF call[c].request.op = "arm" THEN cut \union {call[c].request.trace}
                                            ELSE cut
    /\ Goto(c, "failed")
    /\ UNCHANGED <<jobs, activeJobs, up, runner, verdict, stops>>

-----------------------------------------------------------------------------
(* The runner of a job *)

\* run_job reads the job: only an armed or a running one is run.
RunnerStart(t) ==
    /\ runner[t] = "start"
    /\ runner' = [runner EXCEPT
         ![t] = IF jobs[t] # NoJob /\ jobs[t].state \in {"Armed", "Running"}
                THEN "claim" ELSE "leave"]
    /\ UNCHANGED <<jobs, activeJobs, up, call, verdict, stops, failures, cut>>

\* finalize_job_state(Running), whatever the job has become since.
RunnerClaim(t) ==
    /\ runner[t] = "claim"
    /\ Store([jobs EXCEPT ![t].state = "Running"])
    /\ runner' = [runner EXCEPT ![t] = "work"]
    /\ UNCHANGED <<up, call, verdict, stops, failures, cut>>

\* All tasks have been joined: the final state is worked out from the job as
\* it is now. How the actions and the tasks ended is open.
RunnerVerdict(t) ==
    /\ runner[t] = "work"
    /\ \E failed, confirmed, taskError \in BOOLEAN :
         verdict' = [verdict EXCEPT
            ![t] = FinalJobState(jobs[t].cancelled \/ jobs[t].state = "Cancelled",
                                 failed, confirmed, taskError)]
    /\ runner' = [runner EXCEPT ![t] = "finish"]
    /\ UNCHANGED <<jobs, activeJobs, up, call, stops, failures, cut>>

\* finalize_job_state(final_state), over what was stored in between.
RunnerFinish(t) ==
    /\ runner[t] = "finish"
    /\ Store([jobs EXCEPT ![t].state = verdict[t]])
    /\ verdict' = [verdict EXCEPT ![t] = NoVerdict]
    /\ runner' = [runner EXCEPT ![t] = "leave"]
    /\ UNCHANGED <<up, call, stops, failures, cut>>

\* active_jobs.remove
RunnerLeave(t) ==
    /\ runner[t] = "leave"
    /\ runner' = [runner EXCEPT ![t] = "none"]
    /\ UNCHANGED <<jobs, activeJobs, up, call, verdict, stops, failures, cut>>

-----------------------------------------------------------------------------
(* The process *)

\* The daemon ends: its memory and its connections are gone.
Stop ==
    /\ up
    /\ stops < MaxStops
    /\ stops' = stops + 1
    /\ up' = FALSE
    /\ jobs' = NoJobs /\ activeJobs' = 0
    /\ call' = [c \in Caller |-> Idle]
    /\ runner' = [t \in Trace |-> "none"]
    /\ verdict' = [t \in Trace |-> NoVerdict]
    /\ cut' = {}
    /\ UNCHANGED failures

\* main clears the jobs of the state file before it listens.
Start ==
    /\ ~up
    /\ up' = TRUE
    /\ UNCHANGED <<jobs, activeJobs, call, runner, verdict, stops, failures, cut>>

-----------------------------------------------------------------------------

HandlerStep(c) ==
    \/ ReserveUnready(c) \/ ReserveLook(c) \/ ReserveAdmit(c) \/ ReserveStore(c)
    \/ ArmStore(c) \/ ArmSpawn(c)
    \/ CancelStore(c) \/ StopAllStore(c)
    \/ Saved(c) \/ SaveFails(c)

RunnerStep(t) ==
    \/ RunnerStart(t) \/ RunnerClaim(t) \/ RunnerVerdict(t)
    \/ RunnerFinish(t) \/ RunnerLeave(t)

DaemonStep ==
    \/ \E c \in Caller : HandlerStep(c) \/ Drop(c)
    \/ \E t \in Trace : RunnerStep(t)
    \/ Stop \/ Start

\* Any client may ask for anything, read its answer or hang up.
ClientStep ==
    /\ \E c \in Caller :
         \/ \E request \in Request : Ask(c, request)
         \/ Read(c)
         \/ HangUp(c)
    /\ UNCHANGED <<jobs, activeJobs, up, runner, verdict, stops, failures, cut>>

StoreNext == DaemonStep \/ ClientStep

StoreSpec == StoreInit /\ [][StoreNext]_storeVars

-----------------------------------------------------------------------------
(* Properties *)

(***************************************************************************)
(* Two clients never hold a yes for different payloads of one trace: from  *)
(* the moment a reservation is stored until its client has read the answer *)
(* the job carries what that client asked for, whatever else is reserved,  *)
(* armed or cancelled in between (the conflict check of reserve_job).      *)
(***************************************************************************)
AnswersAgree ==
    \A c \in Caller :
        /\ call[c].pc \in {"save", "ok"}
        /\ call[c].request.op = "reserve"
        => /\ jobs[call[c].request.trace] # NoJob
           /\ jobs[call[c].request.trace].payload = call[c].request.item

(***************************************************************************)
(* A job that is armed or running has a runner, or the arm that will spawn *)
(* one is under way, or that arm was cut off by a client that hung up or by*)
(* a failed write. The runner must not leave active_jobs before the job has*)
(* its final state: an arm in between would find it there and spawn none.  *)
(***************************************************************************)
ArmedIsRun ==
    \A t \in Trace :
        jobs[t] # NoJob /\ jobs[t].state \in {"Armed", "Running"} =>
            \/ runner[t] \in {"start", "claim", "work", "finish"}
            \/ t \in cut
            \/ \E c \in Caller : /\ call[c].pc \in {"save", "spawn"}
                                 /\ call[c].request.op = "arm"
                                 /\ call[c].request.trace = t

(***************************************************************************)
(* A job that has ended comes back to life in one way only: its runner was *)
(* between its first look at the job and the write of Running when the     *)
(* cancellation came (run_job). A late or repeated arm never revives it.   *)
(***************************************************************************)
OnlyClaimRevives ==
    [][\A t \in Trace :
         /\ jobs[t] # NoJob /\ jobs[t].state \in TerminalJob
         /\ jobs'[t] # NoJob /\ jobs'[t].state \notin TerminalJob
         => runner[t] = "claim" /\ runner'[t] = "work"]_storeVars

(***************************************************************************)
(* A job whose cancellation was stored is not left open: once no runner has*)
(* it, it is in a final state and holds no place, although the runner may  *)
(* have written Running or its own verdict over Cancelled.                 *)
(***************************************************************************)
CancelSettles ==
    \A t \in Trace :
        jobs[t] # NoJob /\ jobs[t].cancelled /\ runner[t] \in {"none", "leave"}
            => jobs[t].state \in TerminalJob

(***************************************************************************)
(* docs/ENV_REFERENCE.md:127, "Max active follow jobs": no more jobs are   *)
(* active than LAUNCHDECK_FOLLOW_MAX_ACTIVE_JOBS allows.                   *)
(***************************************************************************)
CapacityHolds == Cardinality(Active(jobs)) <= MaxActiveJobs

=============================================================================
