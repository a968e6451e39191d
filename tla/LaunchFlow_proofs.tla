------------------------- MODULE LaunchFlow_proofs -------------------------
(***************************************************************************)
(* Theorems about FollowStore, for any set of clients, any finite set of   *)
(* traces and any number of failed writes and ends of the process; and     *)
(* about LaunchFlow, whose daemon it is, for any set of launches and       *)
(* connections, any number of attempts at a cancellation, of lost answers, *)
(* failed writes and ends of the daemon, and any use of the Jobs window: a *)
(* launch that has been answered leaves no job behind without a runner.    *)
(***************************************************************************)
EXTENDS LaunchFlow, FiniteSetTheorems, TLAPS

-----------------------------------------------------------------------------
(* Types *)

LEMMA VerdictType ==
    ASSUME NEW c \in BOOLEAN, NEW f \in BOOLEAN, NEW s \in BOOLEAN, NEW e \in BOOLEAN
    PROVE  FinalJobState(c, f, s, e) \in TerminalJob
BY DEF FinalJobState, TerminalJob

LEMMA StoreType ==
    ASSUME NEW table \in [Trace -> Job \union {NoJob}], Store(table)
    PROVE  /\ jobs' \in [Trace -> Job \union {NoJob}]
           /\ activeJobs' \in Nat
<1>1. Active(table) \subseteq Trace
  BY DEF Active
<1>2. Cardinality(Active(table)) \in Nat
  BY <1>1, StoreAssumption, FS_Subset, FS_CardinalityType
<1> QED BY <1>2 DEF Store

LEMMA TableUpdate ==
    ASSUME NEW table \in [Trace -> Job \union {NoJob}], NEW t \in Trace,
           NEW j \in Job \union {NoJob}
    PROVE  [table EXCEPT ![t] = j] \in [Trace -> Job \union {NoJob}]
OBVIOUS

\* What the handlers and the runner make of a job.
LEMMA JobUpdate ==
    ASSUME NEW j \in Job, NEW l \in Launch, NEW s \in JobState
    PROVE  /\ [j EXCEPT !.state = ArmedJobState(@), !.launch = l] \in Job
           /\ [j EXCEPT !.state = s] \in Job
BY DEF Job, ArmedJobState, JobState, ActiveJob

LEMMA UnderwayCall ==
    ASSUME TypeOK, NEW c \in Caller, call[c].pc # "idle"
    PROVE  call[c] \in Call
BY DEF TypeOK, Idle

LEMMA AtRequest ==
    ASSUME TypeOK, NEW c \in Caller, NEW s, s # "idle", NEW o, At(c, s, o)
    PROVE  /\ call[c] \in Call
           /\ o \in {"reserve", "arm", "cancel"} => call[c].request.trace \in Trace
           /\ o = "reserve" => call[c].request.item \in Payload
           /\ o = "arm" => call[c].request.item \in Launch
<1>1. call[c] \in Call
  BY UnderwayCall DEF At
<1>2. call[c].request \in Request /\ call[c].request.op = o
  BY <1>1 DEF At, Call
<1> QED BY <1>1, <1>2 DEF Request

LEMMA ReserveTrace ==
    ASSUME TypeOK
    PROVE  \A c \in Caller : call[c].pc # "idle" /\ call[c].request.op = "reserve" =>
             call[c].request.trace \in Trace
BY UnderwayCall DEF Call, Request

LEMMA CancelledJobType ==
    ASSUME NEW j \in Job
    PROVE  /\ CancelledJob(j) \in Job
           /\ CancelledJob(j).state = "Cancelled"
           /\ CancelledJob(j).payload = j.payload
BY DEF CancelledJob, Job, JobState, TerminalJob

LEMMA GotoType ==
    ASSUME TypeOK, NEW c \in Caller, call[c] \in Call,
           NEW s \in Underway \union Answered, Goto(c, s)
    PROVE  call' \in [Caller -> Call \union {Idle}]
<1> DEFINE next == [call[c] EXCEPT !.pc = s]
<1>1. next \in Call
  BY DEF Call
<1>2. call' = [call EXCEPT ![c] = next]
  BY DEF Goto
<1> HIDE DEF next
<1> QED BY <1>1, <1>2 DEF TypeOK

LEMMA HandlerTypeOK ==
    ASSUME TypeOK, NEW c \in Caller, HandlerStep(c)
    PROVE  TypeOK'
<1> USE DEF KeepStore
<1>s. {"looked", "admitted", "save", "spawn", "ok", "unknown", "refused", "failed"}
        \subseteq Underway \union Answered
  BY DEF Underway, Answered
<1>0. CASE ReserveUnready(c)
  <2>1. call[c] \in Call
    BY <1>0, AtRequest DEF ReserveUnready
  <2>2. call' \in [Caller -> Call \union {Idle}]
    BY <1>0, <1>s, <2>1, GotoType DEF ReserveUnready
  <2> QED BY <1>0, <2>2 DEF ReserveUnready, TypeOK
<1>1. CASE ReserveLook(c)
  <2>1. call[c] \in Call
    BY <1>1, AtRequest DEF ReserveLook
  <2> DEFINE next == [call[c] EXCEPT !.pc = "looked",
                        !.fresh = jobs[call[c].request.trace] = NoJob]
  <2>2. next \in Call
    BY <2>1 DEF Call, Underway
  <2>3. call' = [call EXCEPT ![c] = next]
    BY <1>1 DEF ReserveLook
  <2>4. UNCHANGED <<jobs, activeJobs, up, runner, verdict, stops, failures, cut>>
    BY <1>1 DEF ReserveLook
  <2> HIDE DEF next
  <2>5. call' \in [Caller -> Call \union {Idle}]
    BY <2>2, <2>3 DEF TypeOK
  <2> QED BY <2>4, <2>5 DEF TypeOK
<1>2. CASE ReserveAdmit(c)
  <2>1. call[c] \in Call
    BY <1>2, AtRequest DEF ReserveAdmit
  <2>2. call' \in [Caller -> Call \union {Idle}]
    BY <1>2, <1>s, <2>1, GotoType DEF ReserveAdmit
  <2> QED BY <1>2, <2>2 DEF ReserveAdmit, TypeOK
<1>3. CASE ReserveStore(c)
  <2> DEFINE t == call[c].request.trace
             j == [state |-> "Reserved", cancelled |-> FALSE,
                   payload |-> call[c].request.item, launch |-> NoLaunch]
  <2>1. call[c] \in Call /\ t \in Trace /\ call[c].request.item \in Payload
    BY <1>3, AtRequest DEF ReserveStore
  <2>2. j \in Job
    BY <2>1 DEF Job, JobState, ActiveJob
  <2>3. call' \in [Caller -> Call \union {Idle}]
    BY <1>3, <1>s, <2>1, GotoType DEF ReserveStore
  <2>4. \/ Store([jobs EXCEPT ![t] = j]) \/ Store(jobs) \/ KeepStore
    BY <1>3 DEF ReserveStore
  <2> HIDE DEF j, t
  <2>5. jobs' \in [Trace -> Job \union {NoJob}] /\ activeJobs' \in Nat
    BY <2>1, <2>2, <2>4, StoreType, TableUpdate DEF TypeOK
  <2> QED BY <1>3, <2>3, <2>5 DEF ReserveStore, TypeOK
<1>4. CASE ArmStore(c)
  <2> DEFINE t == call[c].request.trace
             l == call[c].request.item
             j == [jobs[t] EXCEPT !.state = ArmedJobState(@), !.launch = l]
  <2>1. call[c] \in Call /\ t \in Trace /\ l \in Launch
    BY <1>4, AtRequest DEF ArmStore
  <2>2. call' \in [Caller -> Call \union {Idle}]
    BY <1>4, <1>s, <2>1, GotoType DEF ArmStore
  <2>3. \/ jobs[t] # NoJob /\ Store([jobs EXCEPT ![t] = j])
        \/ KeepStore
    BY <1>4 DEF ArmStore
  <2>4. ASSUME jobs[t] # NoJob PROVE j \in Job
    <3>1. jobs[t] \in Job
      BY <2>1, <2>4 DEF TypeOK
    <3>2. "Armed" \in JobState
      BY DEF JobState, ActiveJob
    <3> QED BY <2>1, <3>1, <3>2, JobUpdate
  <2> HIDE DEF j, t, l
  <2>5. jobs' \in [Trace -> Job \union {NoJob}] /\ activeJobs' \in Nat
    BY <2>1, <2>3, <2>4, StoreType, TableUpdate DEF TypeOK
  <2> QED BY <1>4, <2>2, <2>5 DEF ArmStore, TypeOK
<1>5. CASE ArmSpawn(c)
  <2>1. call[c] \in Call /\ call[c].request.trace \in Trace
    BY <1>5, AtRequest DEF ArmSpawn
  <2>2. call' \in [Caller -> Call \union {Idle}]
    BY <1>5, <1>s, <2>1, GotoType DEF ArmSpawn
  <2>3. runner' \in [Trace -> RunnerStage]
    BY <1>5, <2>1 DEF ArmSpawn, RunnerStage, TypeOK
  <2> QED BY <1>5, <2>2, <2>3 DEF ArmSpawn, TypeOK
<1>6. CASE CancelStore(c)
  <2> DEFINE t == call[c].request.trace
  <2>1. call[c] \in Call /\ t \in Trace
    BY <1>6, AtRequest DEF CancelStore
  <2>2. call' \in [Caller -> Call \union {Idle}]
    BY <1>6, <1>s, <2>1, GotoType DEF CancelStore
  <2>3. \/ jobs[t] # NoJob /\ Store([jobs EXCEPT ![t] = CancelledJob(jobs[t])])
        \/ KeepStore
    BY <1>6 DEF CancelStore
  <2>4. ASSUME jobs[t] # NoJob PROVE CancelledJob(jobs[t]) \in Job
    <3>1. jobs[t] \in Job
      BY <2>1, <2>4 DEF TypeOK
    <3> QED BY <3>1, CancelledJobType
  <2> HIDE DEF t
  <2>5. jobs' \in [Trace -> Job \union {NoJob}] /\ activeJobs' \in Nat
    BY <2>1, <2>3, <2>4, StoreType, TableUpdate DEF TypeOK
  <2> QED BY <1>6, <2>2, <2>5 DEF CancelStore, TypeOK
<1>7. CASE StopAllStore(c)
  <2> DEFINE table == [t \in Trace |-> IF t \in Active(jobs) THEN CancelledJob(jobs[t])
                                                             ELSE jobs[t]]
  <2>1. call[c] \in Call
    BY <1>7, AtRequest DEF StopAllStore
  <2>2. call' \in [Caller -> Call \union {Idle}]
    BY <1>7, <1>s, <2>1, GotoType DEF StopAllStore
  <2>3. ASSUME NEW t \in Active(jobs) PROVE CancelledJob(jobs[t]) \in Job
    <3>1. jobs[t] \in Job
      BY DEF TypeOK, Active
    <3> QED BY <3>1, CancelledJobType
  <2>4. table \in [Trace -> Job \union {NoJob}]
    BY <2>3 DEF TypeOK
  <2>5. Store(table)
    BY <1>7 DEF StopAllStore
  <2> HIDE DEF table
  <2>6. jobs' \in [Trace -> Job \union {NoJob}] /\ activeJobs' \in Nat
    BY <2>4, <2>5, StoreType
  <2> QED BY <1>7, <2>2, <2>6 DEF StopAllStore, TypeOK
<1>8. CASE Saved(c)
  <2>1. call[c] \in Call
    BY <1>8, UnderwayCall DEF Saved
  <2>2. call' \in [Caller -> Call \union {Idle}]
    BY <1>8, <1>s, <2>1, GotoType DEF Saved
  <2> QED BY <1>8, <2>2 DEF Saved, TypeOK
<1>9. CASE SaveFails(c)
  <2>1. call[c] \in Call /\ call[c].request \in Request
    BY <1>9, UnderwayCall DEF SaveFails, Call
  <2>2. call' \in [Caller -> Call \union {Idle}]
    BY <1>9, <1>s, <2>1, GotoType DEF SaveFails
  <2>3. cut' \subseteq Trace
    BY <1>9, <2>1 DEF SaveFails, Request, TypeOK
  <2>4. failures' \in 0..MaxFailures
    BY <1>9, StoreAssumption DEF SaveFails, TypeOK
  <2> QED BY <1>9, <2>2, <2>3, <2>4 DEF SaveFails, TypeOK
<1> QED BY <1>0, <1>1, <1>2, <1>3, <1>4, <1>5, <1>6, <1>7, <1>8, <1>9 DEF HandlerStep

LEMMA RunnerTypeOK ==
    ASSUME TypeOK, NEW t \in Trace, RunnerStep(t),
           runner[t] \in {"claim", "work", "finish"} => jobs[t] # NoJob,
           runner[t] = "finish" => verdict[t] \in TerminalJob
    PROVE  TypeOK'
<1>1. CASE RunnerStart(t)
  BY <1>1 DEF RunnerStart, RunnerStage, TypeOK
<1>2. CASE RunnerClaim(t)
  <2> DEFINE j == [jobs[t] EXCEPT !.state = "Running"]
  <2>1. jobs[t] \in Job
    BY <1>2 DEF RunnerClaim, TypeOK
  <2>2. j \in Job
    BY <2>1 DEF Job, JobState, ActiveJob
  <2>3. Store([jobs EXCEPT ![t] = j])
    BY <1>2 DEF RunnerClaim
  <2> HIDE DEF j
  <2>4. jobs' \in [Trace -> Job \union {NoJob}] /\ activeJobs' \in Nat
    BY <2>2, <2>3, StoreType, TableUpdate DEF TypeOK
  <2>5. runner' \in [Trace -> RunnerStage]
    BY <1>2 DEF RunnerClaim, RunnerStage, TypeOK
  <2> QED BY <1>2, <2>4, <2>5 DEF RunnerClaim, TypeOK
<1>3. CASE RunnerVerdict(t)
  <2>1. jobs[t] \in Job
    BY <1>3 DEF RunnerVerdict, TypeOK
  <2>2. (jobs[t].cancelled \/ jobs[t].state = "Cancelled") \in BOOLEAN
    BY <2>1 DEF Job
  <2>3. verdict' \in [Trace -> TerminalJob \union {NoVerdict}]
    <3>1. PICK f \in BOOLEAN, s \in BOOLEAN, e \in BOOLEAN :
            verdict' = [verdict EXCEPT
              ![t] = FinalJobState(jobs[t].cancelled \/ jobs[t].state = "Cancelled",
                                   f, s, e)]
      BY <1>3 DEF RunnerVerdict
    <3> DEFINE v == FinalJobState(jobs[t].cancelled \/ jobs[t].state = "Cancelled", f, s, e)
    <3>2. v \in TerminalJob
      BY <2>2, VerdictType
    <3>3. verdict' = [verdict EXCEPT ![t] = v]
      BY <3>1
    <3> HIDE DEF v
    <3> QED BY <3>2, <3>3 DEF TypeOK
  <2>4. runner' \in [Trace -> RunnerStage]
    BY <1>3 DEF RunnerVerdict, RunnerStage, TypeOK
  <2>5. UNCHANGED <<jobs, activeJobs, up, call, stops, failures, cut>>
    BY <1>3 DEF RunnerVerdict
  <2> QED BY <2>3, <2>4, <2>5 DEF TypeOK
<1>4. CASE RunnerFinish(t)
  <2> DEFINE j == [jobs[t] EXCEPT !.state = verdict[t]]
  <2>1. jobs[t] \in Job /\ verdict[t] \in JobState
    BY <1>4 DEF RunnerFinish, TypeOK, JobState
  <2>2. j \in Job
    BY <2>1 DEF Job
  <2>3. Store([jobs EXCEPT ![t] = j])
    BY <1>4 DEF RunnerFinish
  <2> HIDE DEF j
  <2>4. jobs' \in [Trace -> Job \union {NoJob}] /\ activeJobs' \in Nat
    BY <2>2, <2>3, StoreType, TableUpdate DEF TypeOK
  <2>5. /\ runner' \in [Trace -> RunnerStage]
        /\ verdict' \in [Trace -> TerminalJob \union {NoVerdict}]
    BY <1>4 DEF RunnerFinish, RunnerStage, TypeOK
  <2> QED BY <1>4, <2>4, <2>5 DEF RunnerFinish, TypeOK
<1>5. CASE RunnerLeave(t)
  BY <1>5 DEF RunnerLeave, RunnerStage, TypeOK
<1> QED BY <1>1, <1>2, <1>3, <1>4, <1>5 DEF RunnerStep

LEMMA ClientTypeOK ==
    ASSUME TypeOK, ClientStep \/ Stop \/ Start \/ \E c \in Caller : Drop(c)
    PROVE  TypeOK'
<1>1. CASE ClientStep
  <2>1. PICK c \in Caller : \/ \E request \in Request : Ask(c, request)
                            \/ Read(c) \/ HangUp(c)
    BY <1>1 DEF ClientStep
  <2>2. UNCHANGED <<jobs, activeJobs, up, runner, verdict, stops, failures, cut>>
    BY <1>1 DEF ClientStep
  <2>3. call' \in [Caller -> Call \union {Idle}]
    <3>1. CASE \E request \in Request : Ask(c, request)
      <4>1. PICK request \in Request : Ask(c, request)
        BY <3>1
      <4> QED BY <4>1 DEF Ask, TypeOK, Call, Underway
    <3>2. CASE Read(c)
      BY <3>2 DEF Read, TypeOK
    <3>3. CASE HangUp(c)
      <4>1. [call[c] EXCEPT !.heard = FALSE] \in Call
        BY <3>3, UnderwayCall DEF HangUp, Call
      <4> QED BY <3>3, <4>1 DEF HangUp, TypeOK
    <3> QED BY <2>1, <3>1, <3>2, <3>3
  <2> QED BY <2>2, <2>3 DEF TypeOK
<1>2. CASE Stop
  <2>1. stops' \in 0..MaxStops
    BY <1>2, StoreAssumption DEF Stop, TypeOK
  <2> QED BY <1>2, <2>1 DEF Stop, TypeOK, NoJobs, RunnerStage
<1>3. CASE Start
  BY <1>3 DEF Start, TypeOK
<1>4. ASSUME NEW c \in Caller, Drop(c) PROVE TypeOK'
  <2>1. call[c] \in Call
    BY <1>4 DEF Drop, TypeOK, Idle
  <2>2. call[c].request \in Request
    BY <2>1 DEF Call
  <2>3. cut' \subseteq Trace
    BY <1>4, <2>2 DEF Drop, Request, TypeOK
  <2> QED BY <1>4, <2>3 DEF Drop, TypeOK
<1> QED BY <1>1, <1>2, <1>3, <1>4

-----------------------------------------------------------------------------
(* What makes the properties inductive *)

\* A runner exists for a job that has been armed, and has its verdict when it
\* writes it; one that leaves has ended its job.
RunnerHasJob ==
    \A t \in Trace :
        /\ runner[t] # "none" => jobs[t] # NoJob /\ jobs[t].state # "Reserved"
        /\ runner[t] = "finish" => verdict[t] \in TerminalJob
        /\ runner[t] = "leave" => jobs[t].state \in TerminalJob

\* An arm that has been stored, and is not answered yet.
Arming(t) == \E c \in Caller : /\ call[c].pc \in {"save", "spawn"}
                             /\ call[c].request.op = "arm"
                             /\ call[c].request.trace = t

ArmingHasJob ==
    \A t \in Trace : Arming(t) => jobs[t] # NoJob /\ jobs[t].state # "Reserved"

StoreInv == /\ TypeOK
            /\ RunnerHasJob /\ ArmingHasJob
            /\ AnswersAgree /\ ArmedIsRun /\ CancelSettles

\* A handler at work changes its own call only, and not what was asked.
LEMMA GotoEffect ==
    ASSUME TypeOK, NEW c \in Caller, call[c] \in Call, NEW s, Goto(c, s)
    PROVE  \A d \in Caller : /\ call'[d].request = call[d].request
                             /\ call'[d].pc = IF d = c THEN s ELSE call[d].pc
<1>1. call' = [call EXCEPT ![c] = [call[c] EXCEPT !.pc = s]]
  BY DEF Goto
<1>2. [call[c] EXCEPT !.pc = s].request = call[c].request
  BY DEF Call
<1>3. [call[c] EXCEPT !.pc = s].pc = s
  BY DEF Call
<1> QED BY <1>1, <1>2, <1>3 DEF TypeOK

\* A step that leaves the table and the runners, and brings no reservation to
\* an answer and no arm to an end.
LEMMA QuietInv ==
    ASSUME StoreInv, TypeOK', UNCHANGED <<jobs, runner, verdict>>,
           cut \subseteq cut',
           \A d \in Caller :
             call'[d].request = call[d].request \/ call'[d].pc \in {"idle", "arrived"},
           \A d \in Caller :
             call'[d].pc \in {"save", "ok", "spawn"} =>
               \/ call'[d].pc = call[d].pc
               \/ call'[d].pc = "ok" /\ call[d].request.op # "reserve"
               \/ call'[d].pc \in {"ok", "spawn"} /\ call[d].pc = "save",
           \A d \in Caller :
             call[d].pc \in {"save", "spawn"} /\ call[d].request.op = "arm" =>
               \/ call'[d].pc \in {"save", "spawn"}
               \/ call[d].request.trace \in cut'
    PROVE  StoreInv'
<1>1. \A t \in Trace : Arming(t)' => Arming(t)
  BY DEF Arming
<1>2. \A t \in Trace : Arming(t) => Arming(t)' \/ t \in cut'
  BY DEF Arming
<1>3. RunnerHasJob' /\ ArmingHasJob' /\ CancelSettles'
  BY <1>1 DEF StoreInv, RunnerHasJob, ArmingHasJob, CancelSettles
<1>4. ArmedIsRun'
  BY <1>2 DEF StoreInv, ArmedIsRun, Arming
<1>5. AnswersAgree'
  BY DEF StoreInv, AnswersAgree
<1> QED BY <1>3, <1>4, <1>5 DEF StoreInv

\* A reservation is stored where there was no job, and leaves a job alone.
LEMMA ReserveStoreInv ==
    ASSUME StoreInv, TypeOK', NEW c \in Caller, ReserveStore(c)
    PROVE  StoreInv'
<1> DEFINE t == call[c].request.trace
           p == call[c].request.item
<1>1. call[c] \in Call /\ t \in Trace /\ call[c].request.op = "reserve"
  BY AtRequest DEF StoreInv, ReserveStore, At
<1>2. UNCHANGED <<runner, verdict, cut>>
  BY DEF ReserveStore
<1>3. CASE jobs[t] # NoJob /\ Conflicts(jobs[t], p)
  <2>1. Goto(c, "refused") /\ UNCHANGED jobs
    BY <1>3 DEF ReserveStore, KeepStore
  <2> QED BY <1>1, <1>2, <2>1, GotoEffect, QuietInv DEF StoreInv
<1>4. CASE jobs[t] # NoJob /\ ~Conflicts(jobs[t], p)
  <2>1. Goto(c, "save") /\ UNCHANGED jobs
    BY <1>4 DEF ReserveStore, Store
  <2>2. \A d \in Caller : /\ call'[d].request = call[d].request
                          /\ call'[d].pc = IF d = c THEN "save" ELSE call[d].pc
    BY <1>1, <2>1, GotoEffect DEF StoreInv
  <2>3. \A x \in Trace : Arming(x)' <=> Arming(x)
    BY <1>1, <2>2 DEF Arming, ReserveStore, At
  <2>4. RunnerHasJob' /\ ArmingHasJob' /\ CancelSettles' /\ ArmedIsRun'
    BY <1>2, <2>1, <2>3 DEF StoreInv, RunnerHasJob, ArmingHasJob, CancelSettles,
                            ArmedIsRun, Arming
  <2>5. AnswersAgree'
    BY <1>4, <2>1, <2>2 DEF StoreInv, AnswersAgree, Conflicts
  <2> QED BY <2>4, <2>5 DEF StoreInv
<1>5. CASE jobs[t] = NoJob
  <2> DEFINE j == [state |-> "Reserved", cancelled |-> FALSE,
                   payload |-> p, launch |-> NoLaunch]
  <2>1. Goto(c, "save") /\ jobs' = [jobs EXCEPT ![t] = j]
    BY <1>5 DEF ReserveStore, Store
  <2>2. \A d \in Caller : /\ call'[d].request = call[d].request
                          /\ call'[d].pc = IF d = c THEN "save" ELSE call[d].pc
    BY <1>1, <2>1, GotoEffect DEF StoreInv
  <2>3. \A x \in Trace : Arming(x)' <=> Arming(x)
    BY <1>1, <2>2 DEF Arming, ReserveStore, At
  <2>4. /\ \A x \in Trace : x # t => jobs'[x] = jobs[x]
        /\ jobs'[t] = j
    BY <1>1, <2>1 DEF StoreInv, TypeOK
  <2>5. j # NoJob /\ j.state = "Reserved" /\ ~j.cancelled /\ j.payload = p
    <3>1. j \in Job
      BY <1>1, AtRequest DEF StoreInv, ReserveStore, Job, JobState, ActiveJob
    <3> QED BY <3>1, NoJobAssumption
  <2> HIDE DEF j
  <2>6. runner[t] = "none" /\ ~Arming(t)
    BY <1>1, <1>5 DEF StoreInv, RunnerHasJob, ArmingHasJob
  <2>7. RunnerHasJob' /\ ArmingHasJob'
    BY <1>2, <2>3, <2>4, <2>6 DEF StoreInv, RunnerHasJob, ArmingHasJob
  <2>8. CancelSettles'
    BY <1>2, <2>4, <2>5 DEF StoreInv, CancelSettles
  <2>9. ArmedIsRun'
    BY <1>2, <2>3, <2>4, <2>5 DEF StoreInv, ArmedIsRun, Arming
  <2>10. AnswersAgree'
    BY <1>5, <2>2, <2>4, <2>5, ReserveTrace DEF StoreInv, AnswersAgree
  <2> QED BY <2>7, <2>8, <2>9, <2>10 DEF StoreInv
<1> QED BY <1>3, <1>4, <1>5

\* An arm changes the job only if it has not ended; its runner may be there.
LEMMA ArmStoreInv ==
    ASSUME StoreInv, TypeOK', NEW c \in Caller, ArmStore(c)
    PROVE  StoreInv'
<1> DEFINE t == call[c].request.trace
           l == call[c].request.item
<1>1. call[c] \in Call /\ t \in Trace /\ call[c].request.op = "arm"
  BY AtRequest DEF StoreInv, ArmStore, At
<1>2. UNCHANGED <<runner, verdict, cut>>
  BY DEF ArmStore
<1>3. CASE jobs[t] = NoJob \/ ArmConflicts(jobs[t], l)
  <2>1. UNCHANGED jobs /\ (Goto(c, "unknown") \/ Goto(c, "refused"))
    BY <1>3 DEF ArmStore, KeepStore
  <2>2. \A d \in Caller : /\ call'[d].request = call[d].request
                          /\ d # c => call'[d].pc = call[d].pc
    BY <1>1, <2>1, GotoEffect DEF StoreInv
  <2>3. call'[c].pc \in {"unknown", "refused"} /\ call[c].pc = "arrived"
    BY <1>1, <2>1, GotoEffect DEF StoreInv, ArmStore, At
  <2> QED BY <1>2, <2>1, <2>2, <2>3, QuietInv
<1>4. CASE jobs[t] # NoJob /\ ~ArmConflicts(jobs[t], l) /\ ~ArmsJob(jobs[t])
  <2>1. Goto(c, "spawn") /\ UNCHANGED jobs
    BY <1>4 DEF ArmStore, KeepStore
  <2>2. \A d \in Caller : /\ call'[d].request = call[d].request
                          /\ call'[d].pc = IF d = c THEN "spawn" ELSE call[d].pc
    BY <1>1, <2>1, GotoEffect DEF StoreInv
  <2>3. \A x \in Trace : Arming(x)' <=> Arming(x) \/ x = t
    BY <1>1, <2>2 DEF Arming, ArmStore, At
  <2>4. jobs[t].state # "Reserved"
    BY <1>4 DEF ArmsJob, ActiveJob
  <2>5. RunnerHasJob' /\ ArmingHasJob' /\ CancelSettles' /\ ArmedIsRun'
    BY <1>2, <1>4, <2>1, <2>3, <2>4 DEF StoreInv, RunnerHasJob, ArmingHasJob,
                                        CancelSettles, ArmedIsRun, Arming
  <2>6. AnswersAgree'
    BY <2>1, <2>2 DEF StoreInv, AnswersAgree
  <2> QED BY <2>5, <2>6 DEF StoreInv
<1>5. CASE jobs[t] # NoJob /\ ~ArmConflicts(jobs[t], l) /\ ArmsJob(jobs[t])
  <2> DEFINE j == [jobs[t] EXCEPT !.state = ArmedJobState(@), !.launch = l]
  <2>1. Goto(c, "save") /\ jobs' = [jobs EXCEPT ![t] = j]
    BY <1>5 DEF ArmStore, Store
  <2>2. \A d \in Caller : /\ call'[d].request = call[d].request
                          /\ call'[d].pc = IF d = c THEN "save" ELSE call[d].pc
    BY <1>1, <2>1, GotoEffect DEF StoreInv
  <2>3. \A x \in Trace : Arming(x)' <=> Arming(x) \/ x = t
    BY <1>1, <2>2 DEF Arming, ArmStore, At
  <2>4. /\ \A x \in Trace : x # t => jobs'[x] = jobs[x]
        /\ jobs'[t] = j
    BY <1>1, <2>1 DEF StoreInv, TypeOK
  <2>5. jobs[t] \in Job /\ jobs[t].state \in ActiveJob
    BY <1>1, <1>5 DEF StoreInv, TypeOK, ArmsJob
  <2>6. /\ j # NoJob /\ j.state \in {"Armed", "Running"}
        /\ j.cancelled = jobs[t].cancelled /\ j.payload = jobs[t].payload
    <3>1. j.state = ArmedJobState(jobs[t].state)
      BY <2>5 DEF Job
    <3>2. j \in Job
      BY <1>1, <2>5, AtRequest DEF StoreInv, ArmStore, Job, ArmedJobState, JobState, ActiveJob
    <3> QED BY <2>5, <3>1, <3>2, NoJobAssumption DEF Job, ArmedJobState
  <2>7. jobs[t].state \notin TerminalJob
    BY <2>5 DEF ActiveJob, TerminalJob
  <2> HIDE DEF j
  <2>8. RunnerHasJob' /\ ArmingHasJob'
    BY <1>1, <1>2, <1>5, <2>3, <2>4, <2>6, <2>7 DEF StoreInv, RunnerHasJob, ArmingHasJob
  <2>9. CancelSettles'
    BY <1>2, <1>5, <2>4, <2>6, <2>7 DEF StoreInv, CancelSettles
  <2>10. ArmedIsRun'
    BY <1>2, <2>3, <2>4 DEF StoreInv, ArmedIsRun, Arming
  <2>11. AnswersAgree'
    BY <1>1, <1>5, <2>2, <2>4, <2>6, ReserveTrace DEF StoreInv, AnswersAgree, ArmStore, At
  <2> QED BY <2>8, <2>9, <2>10, <2>11 DEF StoreInv
<1> QED BY <1>3, <1>4, <1>5

\* A cancellation leaves a job that has ended, or marks one as cancelled.
LEMMA CancelInv ==
    ASSUME StoreInv, TypeOK', NEW c \in Caller, CancelStore(c) \/ StopAllStore(c)
    PROVE  StoreInv'
<1>1. /\ call[c] \in Call
      /\ call[c].pc = "arrived"
      /\ call[c].request.op \in {"cancel", "stopAll"}
  BY UnderwayCall DEF StoreInv, CancelStore, StopAllStore, At
<1>2. UNCHANGED <<runner, verdict, cut>>
  BY DEF CancelStore, StopAllStore
<1>3. \A t \in Trace : jobs[t] # NoJob => /\ jobs[t] \in Job
                                          /\ CancelledJob(jobs[t]) \in Job
                                          /\ CancelledJob(jobs[t]).state = "Cancelled"
                                          /\ CancelledJob(jobs[t]).payload = jobs[t].payload
  BY CancelledJobType DEF StoreInv, TypeOK
<1>4. \A t \in Trace :
        \/ jobs'[t] = jobs[t]
        \/ jobs[t] # NoJob /\ jobs'[t] = CancelledJob(jobs[t])
  <2>1. CASE CancelStore(c)
    <3>1. call[c].request.trace \in Trace
      BY <2>1, AtRequest DEF StoreInv, CancelStore
    <3> QED BY <2>1, <3>1 DEF CancelStore, KeepStore, Store, StoreInv, TypeOK
  <2>2. CASE StopAllStore(c)
    BY <2>2 DEF StopAllStore, Store, Active
  <2> QED BY <2>1, <2>2
<1>5. Goto(c, "unknown") \/ Goto(c, "save")
  BY DEF CancelStore, StopAllStore
<1>6. /\ \A d \in Caller : /\ call'[d].request = call[d].request
                           /\ d # c => call'[d].pc = call[d].pc
      /\ call'[c].pc \in {"unknown", "save"}
  BY <1>1, <1>5, GotoEffect DEF StoreInv
<1>7. \A t \in Trace : Arming(t)' <=> Arming(t)
  BY <1>1, <1>6 DEF Arming
<1>8. \A t \in Trace : \/ jobs'[t] = jobs[t]
                       \/ /\ jobs[t] # NoJob /\ jobs'[t] # NoJob
                          /\ jobs'[t].state = "Cancelled"
                          /\ jobs'[t].payload = jobs[t].payload
  BY <1>3, <1>4, NoJobAssumption
<1>9. RunnerHasJob' /\ ArmingHasJob' /\ CancelSettles' /\ ArmedIsRun'
  BY <1>2, <1>7, <1>8 DEF StoreInv, RunnerHasJob, ArmingHasJob, CancelSettles,
                          ArmedIsRun, Arming, TerminalJob
<1>10. AnswersAgree'
  <2>1. \A d \in Caller :
          call'[d].pc \in {"save", "ok"} /\ call'[d].request.op = "reserve" =>
            /\ call[d].pc \in {"save", "ok"}
            /\ call'[d].request = call[d].request
    BY <1>1, <1>6
  <2>2. \A d \in Caller :
          call[d].pc \in {"save", "ok"} /\ call[d].request.op = "reserve" =>
            call[d].request.trace \in Trace
    BY ReserveTrace DEF StoreInv
  <2> QED BY <1>8, <2>1, <2>2 DEF StoreInv, AnswersAgree
<1> QED BY <1>9, <1>10 DEF StoreInv

\* The arm takes its trace out of the arms under way, and puts in a runner.
LEMMA ArmSpawnInv ==
    ASSUME StoreInv, TypeOK', NEW c \in Caller, ArmSpawn(c)
    PROVE  StoreInv'
<1> DEFINE t == call[c].request.trace
<1>1. /\ call[c] \in Call /\ t \in Trace
      /\ call[c].request.op = "arm" /\ call[c].pc = "spawn"
  BY AtRequest DEF StoreInv, ArmSpawn, At
<1>2. UNCHANGED <<jobs, verdict>> /\ cut' = cut \ {t}
  BY DEF ArmSpawn
<1>3. Goto(c, "ok")
  BY DEF ArmSpawn
<1>4. \A d \in Caller : /\ call'[d].request = call[d].request
                        /\ call'[d].pc = IF d = c THEN "ok" ELSE call[d].pc
  BY <1>1, <1>3, GotoEffect DEF StoreInv
<1>5. /\ \A x \in Trace : Arming(x)' => Arming(x)
      /\ \A x \in Trace : Arming(x) => Arming(x)' \/ x = t
      /\ Arming(t)
  BY <1>1, <1>4 DEF Arming
<1>6. jobs[t] # NoJob /\ jobs[t].state # "Reserved"
  BY <1>1, <1>5 DEF StoreInv, ArmingHasJob
<1>7. /\ \A x \in Trace : x # t => runner'[x] = runner[x]
      /\ runner'[t] = IF runner[t] = "none" THEN "start" ELSE runner[t]
  BY <1>1 DEF ArmSpawn, StoreInv, TypeOK
<1> HIDE DEF t
<1>8. RunnerHasJob' /\ ArmingHasJob'
  BY <1>1, <1>2, <1>5, <1>6, <1>7 DEF StoreInv, RunnerHasJob, ArmingHasJob
<1>9. CancelSettles'
  BY <1>2, <1>7 DEF StoreInv, CancelSettles
<1>10. ArmedIsRun'
  <2>1. runner'[t] \in {"start", "claim", "work", "finish"} \/ jobs[t].state \in TerminalJob
    BY <1>1, <1>7 DEF StoreInv, RunnerHasJob, TypeOK, RunnerStage
  <2>2. ASSUME NEW x \in Trace, x # t, jobs[x] # NoJob, jobs[x].state \in {"Armed", "Running"}
        PROVE  \/ runner'[x] \in {"start", "claim", "work", "finish"}
               \/ x \in cut'
               \/ Arming(x)'
    BY <2>2, <1>2, <1>5, <1>7 DEF StoreInv, ArmedIsRun, Arming
  <2> QED BY <1>2, <2>1, <2>2 DEF ArmedIsRun, Arming, TerminalJob
<1>11. AnswersAgree'
  BY <1>1, <1>2, <1>4 DEF StoreInv, AnswersAgree
<1> QED BY <1>8, <1>9, <1>10, <1>11 DEF StoreInv

LEMMA HandlerInv ==
    ASSUME StoreInv, NEW c \in Caller, HandlerStep(c)
    PROVE  StoreInv'
<1>t. TypeOK'
  BY HandlerTypeOK DEF StoreInv
<1>0. CASE ReserveUnready(c)
  <2>1. call[c] \in Call /\ call[c].pc = "arrived"
    BY <1>0, UnderwayCall DEF StoreInv, ReserveUnready, At
  <2>2. UNCHANGED <<jobs, runner, verdict, cut>>
    BY <1>0 DEF ReserveUnready
  <2>3. Goto(c, "failed")
    BY <1>0 DEF ReserveUnready
  <2>4. /\ \A d \in Caller : /\ call'[d].request = call[d].request
                             /\ d # c => call'[d].pc = call[d].pc
        /\ call'[c].pc = "failed"
    BY <2>1, <2>3, GotoEffect DEF StoreInv
  <2> QED BY <1>t, <2>1, <2>2, <2>4, QuietInv
<1>1. CASE ReserveLook(c)
  <2>1. call[c] \in Call /\ call[c].pc = "arrived"
    BY <1>1, UnderwayCall DEF StoreInv, ReserveLook, At
  <2> DEFINE next == [call[c] EXCEPT !.pc = "looked",
                        !.fresh = jobs[call[c].request.trace] = NoJob]
  <2>2. next.request = call[c].request /\ next.pc = "looked"
    BY <2>1 DEF Call
  <2>3. call' = [call EXCEPT ![c] = next]
    BY <1>1 DEF ReserveLook
  <2>4. UNCHANGED <<jobs, runner, verdict, cut>>
    BY <1>1 DEF ReserveLook
  <2> HIDE DEF next
  <2>5. \A d \in Caller : /\ call'[d].request = call[d].request
                          /\ call'[d].pc = IF d = c THEN "looked" ELSE call[d].pc
    BY <2>2, <2>3 DEF StoreInv, TypeOK
  <2> QED BY <1>t, <2>1, <2>4, <2>5, QuietInv
<1>2. CASE ReserveAdmit(c)
  <2>1. call[c] \in Call /\ call[c].pc = "looked"
    BY <1>2, UnderwayCall DEF StoreInv, ReserveAdmit, At
  <2>2. UNCHANGED <<jobs, runner, verdict, cut>>
    BY <1>2 DEF ReserveAdmit
  <2>3. Goto(c, "refused") \/ Goto(c, "admitted")
    BY <1>2 DEF ReserveAdmit
  <2>4. /\ \A d \in Caller : /\ call'[d].request = call[d].request
                             /\ d # c => call'[d].pc = call[d].pc
        /\ call'[c].pc \in {"refused", "admitted"}
    BY <2>1, <2>3, GotoEffect DEF StoreInv
  <2> QED BY <1>t, <2>1, <2>2, <2>4, QuietInv
<1>3. CASE Saved(c)
  <2>1. call[c] \in Call /\ call[c].pc = "save"
    BY <1>3, UnderwayCall DEF StoreInv, Saved
  <2>2. UNCHANGED <<jobs, runner, verdict, cut>>
    BY <1>3 DEF Saved
  <2>3. Goto(c, IF call[c].request.op = "arm" THEN "spawn" ELSE "ok")
    BY <1>3 DEF Saved
  <2>4. \A d \in Caller :
          /\ call'[d].request = call[d].request
          /\ call'[d].pc = IF d = c THEN IF call[c].request.op = "arm" THEN "spawn" ELSE "ok"
                                    ELSE call[d].pc
    BY <2>1, <2>3, GotoEffect DEF StoreInv
  <2> QED BY <1>t, <2>1, <2>2, <2>4, QuietInv
<1>4. CASE SaveFails(c)
  <2>1. call[c] \in Call /\ call[c].pc = "save"
    BY <1>4, UnderwayCall DEF StoreInv, SaveFails
  <2>2. /\ UNCHANGED <<jobs, runner, verdict>>
        /\ cut \subseteq cut'
        /\ call[c].request.op = "arm" => call[c].request.trace \in cut'
    BY <1>4 DEF SaveFails
  <2>3. \A d \in Caller : /\ call'[d].request = call[d].request
                          /\ call'[d].pc = IF d = c THEN "failed" ELSE call[d].pc
    BY <1>4, <2>1, GotoEffect DEF StoreInv, SaveFails
  <2> QED BY <1>t, <2>1, <2>2, <2>3, QuietInv
<1> QED BY <1>t, <1>0, <1>1, <1>2, <1>3, <1>4, ReserveStoreInv, ArmStoreInv, ArmSpawnInv,
           CancelInv DEF HandlerStep

\* Clients, a handler that is dropped, and the end and the start of the process.
LEMMA ClientInv ==
    ASSUME StoreInv, ClientStep \/ Stop \/ Start \/ \E c \in Caller : Drop(c)
    PROVE  StoreInv'
<1>t. TypeOK'
  BY ClientTypeOK DEF StoreInv
<1>1. CASE ClientStep
  <2>1. PICK c \in Caller : \/ \E request \in Request : Ask(c, request)
                            \/ Read(c) \/ HangUp(c)
    BY <1>1 DEF ClientStep
  <2>2. UNCHANGED <<jobs, runner, verdict, cut>>
    BY <1>1 DEF ClientStep
  <2>3. CASE \E request \in Request : Ask(c, request)
    <3>1. PICK request \in Request : Ask(c, request)
      BY <2>3
    <3>2. /\ \A d \in Caller : d # c => call'[d] = call[d]
          /\ call'[c].pc = "arrived" /\ call[c].pc = "idle"
      BY <3>1 DEF Ask, Idle, StoreInv, TypeOK
    <3> QED BY <1>t, <2>2, <3>2, QuietInv
  <2>4. CASE Read(c)
    <3>1. /\ \A d \in Caller : d # c => call'[d] = call[d]
          /\ call'[c].pc = "idle" /\ call[c].pc \notin {"save", "spawn"}
      BY <2>4 DEF Read, Idle, Answered, StoreInv, TypeOK
    <3> QED BY <1>t, <2>2, <3>1, QuietInv
  <2>5. CASE HangUp(c)
    <3>1. call[c] \in Call
      BY <2>5, UnderwayCall DEF StoreInv, HangUp
    <3> DEFINE next == [call[c] EXCEPT !.heard = FALSE]
    <3>2. next.request = call[c].request /\ next.pc = call[c].pc
      BY <3>1 DEF Call
    <3>3. call' = [call EXCEPT ![c] = next]
      BY <2>5 DEF HangUp
    <3> HIDE DEF next
    <3>4. \A d \in Caller : call'[d].request = call[d].request /\ call'[d].pc = call[d].pc
      BY <3>2, <3>3 DEF StoreInv, TypeOK
    <3> QED BY <1>t, <2>2, <3>4, QuietInv
  <2> QED BY <2>1, <2>3, <2>4, <2>5
<1>2. CASE Stop
  <2>1. /\ \A t \in Trace : jobs'[t] = NoJob /\ runner'[t] = "none"
        /\ \A c \in Caller : call'[c].pc = "idle"
    BY <1>2 DEF Stop, NoJobs, Idle
  <2> QED BY <1>t, <2>1 DEF StoreInv, RunnerHasJob, ArmingHasJob, Arming, AnswersAgree,
                            ArmedIsRun, CancelSettles
<1>3. CASE Start
  BY <1>t, <1>3, QuietInv DEF Start
<1>4. ASSUME NEW c \in Caller, Drop(c) PROVE StoreInv'
  <2>1. /\ \A d \in Caller : d # c => call'[d] = call[d]
        /\ call'[c].pc = "idle"
    BY <1>4 DEF Drop, Idle, StoreInv, TypeOK
  <2>2. /\ UNCHANGED <<jobs, runner, verdict>>
        /\ cut \subseteq cut'
        /\ call[c].pc \in {"save", "spawn"} /\ call[c].request.op = "arm" =>
             call[c].request.trace \in cut'
    BY <1>4 DEF Drop
  <2> QED BY <1>t, <2>1, <2>2, QuietInv
<1> QED BY <1>1, <1>2, <1>3, <1>4

\* The runner ends its job before it leaves.
LEMMA RunnerInv ==
    ASSUME StoreInv, NEW t \in Trace, RunnerStep(t)
    PROVE  StoreInv'
<1>t. TypeOK'
  BY RunnerTypeOK DEF StoreInv, RunnerHasJob
<1>c. UNCHANGED <<call, cut>>
  BY DEF RunnerStep, RunnerStart, RunnerClaim, RunnerVerdict, RunnerFinish, RunnerLeave
<1>a. \A x \in Trace : Arming(x)' <=> Arming(x)
  BY <1>c DEF Arming
<1>1. /\ runner[t] # "none"
      /\ runner[t] # "leave" => jobs[t] \in Job
      /\ runner[t] # "none" => jobs[t] # NoJob /\ jobs[t].state # "Reserved"
  BY DEF StoreInv, RunnerHasJob, TypeOK, RunnerStep, RunnerStart, RunnerClaim,
         RunnerVerdict, RunnerFinish, RunnerLeave
<1>2. CASE RunnerStart(t)
  <2>1. UNCHANGED <<jobs, verdict>>
    BY <1>2 DEF RunnerStart
  <2>2. /\ \A x \in Trace : x # t => runner'[x] = runner[x]
        /\ runner'[t] = IF jobs[t].state \in {"Armed", "Running"} THEN "claim" ELSE "leave"
        /\ runner[t] = "start"
    BY <1>1, <1>2 DEF RunnerStart, StoreInv, TypeOK
  <2>3. runner'[t] = "leave" => jobs[t].state \in TerminalJob
    BY <1>1, <2>2 DEF Job, JobState, ActiveJob, TerminalJob
  <2>4. RunnerHasJob' /\ ArmingHasJob'
    BY <1>1, <1>a, <2>1, <2>2, <2>3 DEF StoreInv, RunnerHasJob, ArmingHasJob
  <2>5. CancelSettles'
    BY <2>1, <2>2, <2>3 DEF StoreInv, CancelSettles
  <2>6. ArmedIsRun'
    BY <1>c, <2>1, <2>2 DEF StoreInv, ArmedIsRun
  <2>7. AnswersAgree'
    BY <1>c, <2>1 DEF StoreInv, AnswersAgree
  <2> QED BY <1>t, <2>4, <2>5, <2>6, <2>7 DEF StoreInv
<1>3. CASE RunnerClaim(t) \/ RunnerFinish(t)
  <2> DEFINE v == IF runner[t] = "claim" THEN "Running" ELSE verdict[t]
             j == [jobs[t] EXCEPT !.state = v]
  <2>1. runner[t] \in {"claim", "finish"} /\ jobs[t] \in Job
    BY <1>1, <1>3 DEF RunnerClaim, RunnerFinish
  <2>2. jobs' = [jobs EXCEPT ![t] = j]
    BY <1>3 DEF RunnerClaim, RunnerFinish, Store
  <2>3. v \in JobState /\ (v = "Running" \/ v \in TerminalJob)
    BY <2>1 DEF StoreInv, RunnerHasJob, JobState, ActiveJob
  <2>4. /\ j # NoJob /\ j.state = v /\ j.payload = jobs[t].payload
    <3>1. j \in Job /\ j.state = v /\ j.payload = jobs[t].payload
      BY <2>1, <2>3 DEF Job
    <3> QED BY <3>1, NoJobAssumption
  <2>5. /\ \A x \in Trace : x # t => jobs'[x] = jobs[x]
        /\ jobs'[t] = j
    BY <2>2 DEF StoreInv, TypeOK
  <2>6. /\ \A x \in Trace : x # t => runner'[x] = runner[x] /\ verdict'[x] = verdict[x]
        /\ runner'[t] = "work" \/ (runner'[t] = "leave" /\ v \in TerminalJob)
    BY <1>3 DEF RunnerClaim, RunnerFinish, StoreInv, TypeOK, RunnerHasJob
  <2>7. v # "Reserved" /\ v # "Armed"
    BY <2>3 DEF TerminalJob
  <2> HIDE DEF j, v
  <2>8. RunnerHasJob' /\ ArmingHasJob'
    BY <1>a, <2>4, <2>5, <2>6, <2>7 DEF StoreInv, RunnerHasJob, ArmingHasJob
  <2>9. CancelSettles'
    BY <2>4, <2>5, <2>6 DEF StoreInv, CancelSettles
  <2>10. ArmedIsRun'
    <3>1. jobs'[t].state \in {"Armed", "Running"} => runner'[t] = "work"
      BY <2>4, <2>5, <2>6, <2>7 DEF TerminalJob
    <3> QED BY <1>c, <2>5, <2>6, <3>1 DEF StoreInv, ArmedIsRun
  <2>11. AnswersAgree'
    BY <1>1, <1>c, <2>4, <2>5, ReserveTrace DEF StoreInv, AnswersAgree
  <2> QED BY <1>t, <2>8, <2>9, <2>10, <2>11 DEF StoreInv
<1>4. CASE RunnerVerdict(t)
  <2>1. UNCHANGED jobs
    BY <1>4 DEF RunnerVerdict
  <2>2. /\ \A x \in Trace : x # t => runner'[x] = runner[x] /\ verdict'[x] = verdict[x]
        /\ runner'[t] = "finish" /\ runner[t] = "work"
    BY <1>4 DEF RunnerVerdict, StoreInv, TypeOK
  <2>3. verdict'[t] \in TerminalJob
    <3>1. PICK f \in BOOLEAN, s \in BOOLEAN, e \in BOOLEAN :
            verdict' = [verdict EXCEPT
              ![t] = FinalJobState(jobs[t].cancelled \/ jobs[t].state = "Cancelled",
                                   f, s, e)]
      BY <1>4 DEF RunnerVerdict
    <3>2. (jobs[t].cancelled \/ jobs[t].state = "Cancelled") \in BOOLEAN
      BY <1>1, <2>2 DEF Job
    <3>3. verdict'[t] = FinalJobState(jobs[t].cancelled \/ jobs[t].state = "Cancelled",
                                      f, s, e)
      BY <3>1 DEF StoreInv, TypeOK
    <3> QED BY <3>2, <3>3, VerdictType
  <2>4. RunnerHasJob' /\ ArmingHasJob'
    BY <1>1, <1>a, <2>1, <2>2, <2>3 DEF StoreInv, RunnerHasJob, ArmingHasJob
  <2>5. CancelSettles' /\ ArmedIsRun' /\ AnswersAgree'
    BY <1>c, <2>1, <2>2 DEF StoreInv, CancelSettles, ArmedIsRun, AnswersAgree
  <2> QED BY <1>t, <2>4, <2>5 DEF StoreInv
<1>5. CASE RunnerLeave(t)
  <2>1. UNCHANGED <<jobs, verdict>>
    BY <1>5 DEF RunnerLeave
  <2>2. /\ \A x \in Trace : x # t => runner'[x] = runner[x]
        /\ runner'[t] = "none" /\ runner[t] = "leave"
    BY <1>5 DEF RunnerLeave, StoreInv, TypeOK
  <2>3. jobs[t].state \in TerminalJob
    BY <2>2 DEF StoreInv, RunnerHasJob
  <2>4. RunnerHasJob' /\ ArmingHasJob' /\ CancelSettles'
    BY <1>a, <2>1, <2>2, <2>3 DEF StoreInv, RunnerHasJob, ArmingHasJob, CancelSettles
  <2>5. ArmedIsRun' /\ AnswersAgree'
    BY <1>c, <2>1, <2>2, <2>3 DEF StoreInv, ArmedIsRun, AnswersAgree, TerminalJob
  <2> QED BY <1>t, <2>4, <2>5 DEF StoreInv
<1> QED BY <1>2, <1>3, <1>4, <1>5 DEF RunnerStep

LEMMA InitInv == StoreInit => StoreInv
<1> SUFFICES ASSUME StoreInit PROVE StoreInv
  OBVIOUS
<1>1. TypeOK
  BY StoreAssumption DEF StoreInit, TypeOK, NoJobs, RunnerStage
<1>2. /\ \A t \in Trace : jobs[t] = NoJob /\ runner[t] = "none"
      /\ \A c \in Caller : call[c].pc = "idle"
  BY DEF StoreInit, NoJobs, Idle
<1> QED BY <1>1, <1>2 DEF StoreInv, RunnerHasJob, ArmingHasJob, Arming, AnswersAgree,
                          ArmedIsRun, CancelSettles

LEMMA StepInv == StoreInv /\ [StoreNext]_storeVars => StoreInv'
<1> SUFFICES ASSUME StoreInv, [StoreNext]_storeVars PROVE StoreInv'
  OBVIOUS
<1>1. CASE UNCHANGED storeVars
  <2>1. TypeOK'
    BY <1>1 DEF storeVars, StoreInv, TypeOK
  <2> QED BY <1>1, <2>1, QuietInv DEF storeVars
<1>2. CASE StoreNext
  BY <1>2, HandlerInv, RunnerInv, ClientInv DEF StoreNext, DaemonStep
<1> QED BY <1>1, <1>2

THEOREM InvHolds == StoreSpec => []StoreInv
BY InitInv, StepInv, PTL DEF StoreSpec

-----------------------------------------------------------------------------
(* Theorems *)

(***************************************************************************)
(* The table, the handlers and the runners are well typed: in particular a *)
(* runner never writes a state that is not final as its verdict.           *)
(***************************************************************************)
THEOREM TypeCorrect == StoreSpec => []TypeOK
<1>1. StoreInv => TypeOK
  BY DEF StoreInv
<1> QED BY <1>1, InvHolds, PTL

\* However many clients reserve one trace at once, those that are answered
\* with yes asked for the same.
THEOREM AnswersAgreeHolds == StoreSpec => []AnswersAgree
<1>1. StoreInv => AnswersAgree
  BY DEF StoreInv
<1> QED BY <1>1, InvHolds, PTL

\* No armed or running job is without a runner, unless its arm was cut off.
THEOREM ArmedIsRunHolds == StoreSpec => []ArmedIsRun
<1>1. StoreInv => ArmedIsRun
  BY DEF StoreInv
<1> QED BY <1>1, InvHolds, PTL

\* A cancelled job that no runner has is in a final state.
THEOREM CancelSettlesHolds == StoreSpec => []CancelSettles
<1>1. StoreInv => CancelSettles
  BY DEF StoreInv
<1> QED BY <1>1, InvHolds, PTL

(***************************************************************************)
(* Of all the writes to the table only the claim of the runner can take a  *)
(* job out of a final state: the handlers look at the state first or write *)
(* Cancelled, and the runner's last write is a verdict.                    *)
(***************************************************************************)
THEOREM OnlyClaimRevivesHolds == StoreSpec => OnlyClaimRevives
<1> DEFINE Revives(t) == /\ jobs[t] # NoJob /\ jobs[t].state \in TerminalJob
                         /\ jobs'[t] # NoJob /\ jobs'[t].state \notin TerminalJob
           Kept == \A t \in Trace : Revives(t) => runner[t] = "claim" /\ runner'[t] = "work"
<1>1. StoreInv /\ [StoreNext]_storeVars => [Kept]_storeVars
  <2> SUFFICES ASSUME StoreInv, StoreNext PROVE Kept
    OBVIOUS
  <2>1. ASSUME UNCHANGED jobs PROVE Kept
    BY <2>1
  <2>2. ASSUME NEW t \in Trace, NEW j, jobs' = [jobs EXCEPT ![t] = j],
               jobs[t] = NoJob \/ jobs[t].state \notin TerminalJob \/ j.state \in TerminalJob
        PROVE  Kept
    BY <2>2 DEF StoreInv, TypeOK
  <2>3. CASE ClientStep \/ Start
    BY <2>1, <2>3 DEF ClientStep, Start
  <2>4. CASE Stop
    BY <2>4 DEF Stop, NoJobs
  <2>5. ASSUME NEW c \in Caller, HandlerStep(c) PROVE Kept
    <3>1. CASE ReserveStore(c)
      <4>1. call[c].request.trace \in Trace
        BY <3>1, AtRequest DEF StoreInv, ReserveStore
      <4> QED BY <2>1, <2>2, <3>1, <4>1 DEF ReserveStore, Store, KeepStore
    <3>2. CASE ArmStore(c)
      <4>1. call[c].request.trace \in Trace
        BY <3>2, AtRequest DEF StoreInv, ArmStore
      <4>2. \A job : ArmsJob(job) => job.state \notin TerminalJob
        BY DEF ArmsJob, ActiveJob, TerminalJob
      <4> QED BY <2>1, <2>2, <3>2, <4>1, <4>2 DEF ArmStore, Store, KeepStore
    <3>3. CASE CancelStore(c)
      <4> DEFINE t == call[c].request.trace
      <4>1. t \in Trace
        BY <3>3, AtRequest DEF StoreInv, CancelStore
      <4>2. CASE UNCHANGED jobs
        BY <2>1, <4>2
      <4>3. CASE jobs[t] # NoJob /\ Store([jobs EXCEPT ![t] = CancelledJob(@)])
        <5>1. jobs' = [jobs EXCEPT ![t] = CancelledJob(jobs[t])] /\ jobs[t] \in Job
          BY <4>1, <4>3 DEF Store, StoreInv, TypeOK
        <5>2. CancelledJob(jobs[t]).state \in TerminalJob
          BY <5>1, CancelledJobType DEF TerminalJob
        <5> QED BY <2>2, <4>1, <5>1, <5>2
      <4> QED BY <3>3, <4>2, <4>3 DEF CancelStore, KeepStore
    <3>4. CASE StopAllStore(c)
      <4> SUFFICES ASSUME NEW t \in Trace, jobs[t] # NoJob, jobs[t].state \in TerminalJob
                   PROVE  jobs'[t] = jobs[t]
        OBVIOUS
      <4>1. t \notin Active(jobs)
        BY DEF Active, ActiveJob, TerminalJob
      <4> QED BY <3>4, <4>1 DEF StopAllStore, Store
    <3>5. CASE UNCHANGED jobs
      BY <2>1, <3>5
    <3> QED BY <2>5, <3>1, <3>2, <3>3, <3>4, <3>5
            DEF HandlerStep, ReserveUnready, ReserveLook, ReserveAdmit, ArmSpawn,
                Saved, SaveFails
  <2>6. ASSUME NEW c \in Caller, Drop(c) PROVE Kept
    BY <2>1, <2>6 DEF Drop
  <2>7. ASSUME NEW t \in Trace, RunnerStep(t) PROVE Kept
    <3>1. CASE RunnerClaim(t)
      <4>1. runner[t] = "claim" /\ runner'[t] = "work"
        BY <3>1 DEF RunnerClaim, StoreInv, TypeOK
      <4>2. \A x \in Trace : x # t => jobs'[x] = jobs[x]
        BY <3>1 DEF RunnerClaim, Store, StoreInv, TypeOK
      <4> QED BY <4>1, <4>2
    <3>2. CASE RunnerFinish(t)
      <4> DEFINE j == [jobs[t] EXCEPT !.state = verdict[t]]
      <4>1. runner[t] = "finish" /\ jobs' = [jobs EXCEPT ![t] = j]
        BY <3>2 DEF RunnerFinish, Store
      <4>2. jobs[t] \in Job /\ verdict[t] \in TerminalJob
        BY <4>1 DEF StoreInv, TypeOK, RunnerHasJob
      <4>3. j.state \in TerminalJob
        BY <4>2 DEF Job
      <4> HIDE DEF j
      <4> QED BY <2>2, <4>1, <4>3
    <3>3. CASE UNCHANGED jobs
      BY <2>1, <3>3
    <3> QED BY <2>7, <3>1, <3>2, <3>3
            DEF RunnerStep, RunnerStart, RunnerVerdict, RunnerLeave
  <2> HIDE DEF Kept
  <2> QED BY <2>3, <2>4, <2>5, <2>6, <2>7 DEF StoreNext, DaemonStep
<1> QED BY <1>1, InvHolds, PTL DEF StoreSpec, OnlyClaimRevives


-----------------------------------------------------------------------------
(* What can have become of the job of a launch *)

Asks(c, op, t) == /\ call[c].pc # "idle"
                  /\ call[c].request.op = op
                  /\ call[c].request.trace = t

NoReserve(t) == \A c \in Caller : ~Asks(c, "reserve", t)

\* There is no job, and no request that could still store one.
Gone(t) == jobs[t] = NoJob /\ NoReserve(t)

\* A cancellation was stored; the flag outlives what the runner writes.
Marked(t) == jobs[t] # NoJob /\ jobs[t].cancelled

\* The job has ended or its runner will end it.
Run(t) == /\ jobs[t] # NoJob
          /\ jobs[t].state \in TerminalJob \/ runner[t] \in {"start", "claim", "work", "finish"}

Dead(t)  == Gone(t) \/ Marked(t)
Alive(t) == Gone(t) \/ Run(t)

-----------------------------------------------------------------------------
(* The invariant *)

\* A daemon that is down has neither jobs nor requests; a cancellation that
\* found the job has marked it; an arm answered with a yes has its runner.
CallsInv ==
    /\ ~up => jobs = NoJobs /\ \A c \in Caller : call[c] = Idle
    /\ \A c \in Caller, t \in Trace :
         /\ Asks(c, "cancel", t) =>
              /\ call[c].pc \in {"arrived", "save", "ok", "unknown", "failed"}
              /\ call[c].pc \in {"save", "ok", "failed"} => Marked(t)
         /\ Asks(c, "arm", t) /\ call[c].pc = "ok" => Run(t)

\* The stages at which the reservation task may be under way.
Ahead == {"build", "prereserve", "submit", "abort", "await"}

StageInv(t) ==
    /\ flow[t].pc \in Ahead => (flow[t].task = "none" <=> flow[t].reserved)
    /\ flow[t].pc \notin Ahead => flow[t].task = "none"
    /\ flow[t].pc = "begin" => ~flow[t].reserved
    /\ flow[t].pc \in Ahead \union {"begin"} => ~flow[t].armed
    /\ flow[t].pc \in {"arm", "rearm"} => flow[t].reserved
    /\ flow[t].pc = "cancelling" => /\ flow[t].next \in {"failed", "confirm", "late"}
                                    /\ flow[t].tries < CancelTries
    /\ flow[t].pc = "cancelOnce" => flow[t].next \in {"late", "done"}
    /\ flow[t].refuted => flow[t].pc \in {"cancelOnce", "late", "done"}
    /\ flow[t].taskLine # NoLine <=> flow[t].task = "asked"
    /\ flow[t].line # NoLine => flow[t].pc \in {"arm", "rearm", "cancelling", "cancelOnce"}

\* The answer to the cancellation under way is final.
LastTry(t) ==
    /\ flow[t].line # NoLine
    /\ \/ flow[t].pc = "cancelOnce"
       \/ flow[t].pc = "cancelling" /\ flow[t].tries + 1 = CancelTries

\* A reservation whose task was aborted may outlive the task, not the last try.
Aborted(t) ==
    \/ flow[t].pc = "failed"
    \/ flow[t].pc = "cancelling" /\ flow[t].next = "failed" /\ ~LastTry(t)

\* What is on the lines of a launch, and where else its requests can be.
LineInv(t) ==
    /\ flow[t].line # NoLine /\ call[flow[t].line].pc # "idle" =>
         /\ call[flow[t].line].heard
         /\ Asks(flow[t].line, IF flow[t].pc \in {"arm", "rearm"} THEN "arm" ELSE "cancel", t)
    /\ \A c \in Caller : Asks(c, "arm", t) => flow[t].line = c
    /\ \A c \in Caller : Asks(c, "reserve", t) =>
         \/ flow[t].taskLine = c
         \/ ~call[c].heard /\ Aborted(t)

\* No connection carries two requests of launches.
OwnLines ==
    \A t, u \in Trace :
        /\ flow[t].line # NoLine /\ flow[t].line = flow[u].line => t = u
        /\ flow[t].taskLine # NoLine /\ flow[t].taskLine = flow[u].taskLine => t = u
        /\ flow[t].line # NoLine => flow[t].line # flow[u].taskLine

\* What each stage knows of the job.
FateInv(t) ==
    /\ flow[t].line # NoLine /\ call[flow[t].line].pc = "idle" => Gone(t)
    /\ LastTry(t) /\ call[flow[t].line].pc = "unknown" => Gone(t)
    /\ flow[t].armed => Alive(t)
    /\ flow[t].pc = "confirm" => flow[t].reserved \/ Dead(t)
    /\ flow[t].pc \in {"late", "done"} => /\ flow[t].refuted => Dead(t)
                                          /\ flow[t].armed \/ Dead(t)
    /\ flow[t].pc = "failed" => Dead(t)

TraceInv(t) == StageInv(t) /\ LineInv(t) /\ FateInv(t)

FlowInv == /\ StoreInv /\ CallsInv
           /\ FlowTypeOK /\ OwnLines
           /\ \A t \in Trace : TraceInv(t)

-----------------------------------------------------------------------------
(* What a step of the daemon does to calls and jobs *)

\* A call that is not idle is one of the calls a handler can have.
LEMMA CallShape ==
    ASSUME TypeOK, NEW c \in Caller
    PROVE  /\ call[c].pc = "idle" <=> call[c] = Idle
           /\ call[c].pc # "idle" => call[c] \in Call
BY DEF TypeOK, Idle, Call, Underway, Answered

\* The handler at work is the one call that changes, and only in its stage.
LEMMA HandlerFrame ==
    ASSUME StoreInv, NEW c \in Caller, HandlerStep(c)
    PROVE  /\ call[c].pc # "idle" /\ call'[c].pc # "idle"
           /\ \A d \in Caller : /\ call'[d].request = call[d].request
                                /\ call'[d].heard = call[d].heard
                                /\ d # c => call'[d] = call[d]
           /\ up' = up
<1> USE DEF At
<1>1. call[c].pc # "idle"
  BY DEF HandlerStep, ReserveUnready, ReserveLook, ReserveAdmit, ReserveStore,
         ArmStore, ArmSpawn, CancelStore, StopAllStore, Saved, SaveFails
<1>2. call[c] \in Call
  BY <1>1, CallShape DEF StoreInv
<1>3. ASSUME NEW s, s # "idle", Goto(c, s)
      PROVE  /\ call'[c].pc # "idle"
             /\ \A d \in Caller : /\ call'[d].request = call[d].request
                                  /\ call'[d].heard = call[d].heard
                                  /\ d # c => call'[d] = call[d]
  BY <1>2, <1>3 DEF Goto, StoreInv, TypeOK, Call
<1>4. CASE ReserveLook(c)
  <2> DEFINE f == jobs[call[c].request.trace] = NoJob
  <2>1. call' = [call EXCEPT ![c].pc = "looked", ![c].fresh = f]
    BY <1>4 DEF ReserveLook
  <2> HIDE DEF f
  <2>2. /\ call'[c].pc # "idle"
        /\ \A d \in Caller : /\ call'[d].request = call[d].request
                             /\ call'[d].heard = call[d].heard
                             /\ d # c => call'[d] = call[d]
    BY <1>2, <2>1 DEF StoreInv, TypeOK, Call
  <2> QED BY <1>1, <1>4, <2>2 DEF ReserveLook
<1>5. CASE ReserveUnready(c) \/ Saved(c) \/ SaveFails(c)
  BY <1>1, <1>3, <1>5 DEF ReserveUnready, Saved, SaveFails
<1>6. CASE ReserveAdmit(c) \/ ReserveStore(c)
  BY <1>1, <1>3, <1>6 DEF ReserveAdmit, ReserveStore
<1>7. CASE ArmStore(c) \/ ArmSpawn(c)
  BY <1>1, <1>3, <1>7 DEF ArmStore, ArmSpawn
<1>8. CASE CancelStore(c) \/ StopAllStore(c)
  BY <1>1, <1>3, <1>8 DEF CancelStore, StopAllStore
<1> QED BY <1>4, <1>5, <1>6, <1>7, <1>8 DEF HandlerStep

\* What a handler makes of a job of any trace: it keeps the mark of a stored
\* cancellation and whoever ends the job, and only a reservation stores a job
\* where there was none.
LEMMA HandlerFate ==
    ASSUME StoreInv, TypeOK', NEW c \in Caller, HandlerStep(c), NEW t \in Trace
    PROVE  /\ jobs[t] = NoJob => jobs'[t] = NoJob \/ Asks(c, "reserve", t)
           /\ Marked(t) => Marked(t)'
           /\ Run(t) => Run(t)'
<1> DEFINE u == call[c].request.trace
<1>0. jobs \in [Trace -> Job \union {NoJob}] /\ runner \in [Trace -> RunnerStage]
  BY DEF StoreInv, TypeOK
<1>1. CASE ReserveStore(c)
  <2> DEFINE j == [state |-> "Reserved", cancelled |-> FALSE,
                   payload |-> call[c].request.item, launch |-> NoLaunch]
  <2>0. \/ jobs[u] = NoJob /\ Store([jobs EXCEPT ![u] = j])
        \/ Store(jobs)
        \/ KeepStore
    BY <1>1 DEF ReserveStore
  <2>1. \/ jobs' = jobs
        \/ jobs[u] = NoJob /\ jobs' = [jobs EXCEPT ![u] = j]
    BY <2>0 DEF Store, KeepStore
  <2>r. runner' = runner
    BY <1>1 DEF ReserveStore
  <2>a. Asks(c, "reserve", u)
    BY <1>1 DEF ReserveStore, At, Asks
  <2>2. u \in Trace
    BY <1>1, AtRequest DEF StoreInv, ReserveStore
  <2> HIDE DEF u, j
  <2>3. t # u => jobs'[t] = jobs[t]
    BY <1>0, <2>1, <2>2
  <2> QED BY <2>1, <2>a, <2>r, <2>3 DEF Marked, Run
<1>2. CASE ArmStore(c)
  <2> DEFINE j == [jobs[u] EXCEPT !.state = ArmedJobState(@),
                                  !.launch = call[c].request.item]
  <2>1. /\ \/ jobs' = jobs
           \/ /\ jobs[u] # NoJob /\ jobs[u].state \in ActiveJob
              /\ jobs' = [jobs EXCEPT ![u] = j]
        /\ runner' = runner
    BY <1>2 DEF ArmStore, Store, KeepStore, ArmsJob
  <2>2. u \in Trace /\ call[c].request.item \in Launch
    BY <1>2, AtRequest DEF StoreInv, ArmStore
  <2>3. CASE jobs' = jobs
    BY <2>1, <2>3 DEF Marked, Run
  <2>4. CASE jobs' # jobs
    <3>1. jobs[u] \in Job /\ jobs[u].state \in ActiveJob
      BY <1>0, <2>1, <2>2, <2>4
    <3>s. "Armed" \in JobState
      BY DEF JobState, ActiveJob
    <3>2. j \in Job /\ j.cancelled = jobs[u].cancelled
      BY <2>2, <3>s, <3>1, JobUpdate DEF Job
    <3>3. jobs'[u] = j /\ \A x \in Trace \ {u} : jobs'[x] = jobs[x]
      BY <1>0, <2>1, <2>2, <2>4
    <3>4. jobs[u].state \notin TerminalJob
      BY <3>1 DEF ActiveJob, TerminalJob
    <3> HIDE DEF u, j
    <3> QED BY <2>1, <2>2, <3>1, <3>2, <3>3, <3>4, NoJobAssumption DEF Marked, Run
  <2> QED BY <2>3, <2>4
<1>3. CASE ArmSpawn(c)
  <2>1. jobs' = jobs /\ (runner' = runner \/ runner' = [runner EXCEPT ![u] = "start"])
    BY <1>3 DEF ArmSpawn
  <2> HIDE DEF u
  <2> QED BY <1>0, <2>1 DEF Marked, Run
<1>4. CASE CancelStore(c)
  <2>1. /\ \/ jobs' = jobs
           \/ jobs[u] # NoJob /\ jobs' = [jobs EXCEPT ![u] = CancelledJob(jobs[u])]
        /\ runner' = runner
    BY <1>4 DEF CancelStore, Store, KeepStore
  <2>2. u \in Trace
    BY <1>4, AtRequest DEF StoreInv, CancelStore
  <2> HIDE DEF u
  <2>3. CASE jobs' = jobs
    BY <2>1, <2>3 DEF Marked, Run
  <2>4. CASE jobs' # jobs
    <3>1. jobs[u] \in Job
      BY <1>0, <2>1, <2>2, <2>4
    <3>2. /\ CancelledJob(jobs[u]) \in Job
          /\ CancelledJob(jobs[u]).cancelled
          /\ CancelledJob(jobs[u]).state \in TerminalJob
      BY <3>1, CancelledJobType DEF CancelledJob, Job, TerminalJob
    <3>3. jobs'[u] = CancelledJob(jobs[u]) /\ \A x \in Trace \ {u} : jobs'[x] = jobs[x]
      BY <1>0, <2>1, <2>2, <2>4
    <3> QED BY <2>1, <3>1, <3>2, <3>3, NoJobAssumption DEF Marked, Run
  <2> QED BY <2>3, <2>4
<1>5. CASE StopAllStore(c)
  <2>1. /\ jobs'[t] = IF t \in Active(jobs) THEN CancelledJob(jobs[t]) ELSE jobs[t]
        /\ runner' = runner
    BY <1>5 DEF StopAllStore, Store
  <2>2. CASE t \in Active(jobs)
    <3>1. jobs[t] \in Job
      BY <1>0, <2>2 DEF Active
    <3>2. /\ CancelledJob(jobs[t]) \in Job
          /\ CancelledJob(jobs[t]).cancelled
          /\ CancelledJob(jobs[t]).state \in TerminalJob
      BY <3>1, CancelledJobType DEF CancelledJob, Job, TerminalJob
    <3> QED BY <2>1, <2>2, <3>1, <3>2, NoJobAssumption DEF Marked, Run
  <2>3. CASE t \notin Active(jobs)
    BY <2>1, <2>3 DEF Marked, Run
  <2> QED BY <2>2, <2>3
<1>6. CASE ReserveUnready(c) \/ ReserveLook(c) \/ ReserveAdmit(c) \/ Saved(c) \/ SaveFails(c)
  <2>1. jobs' = jobs /\ runner' = runner
    BY <1>6 DEF ReserveUnready, ReserveLook, ReserveAdmit, Saved, SaveFails
  <2> QED BY <2>1 DEF Marked, Run
<1> QED BY <1>1, <1>2, <1>3, <1>4, <1>5, <1>6 DEF HandlerStep

\* The stages of a cancellation and of an arm: the mark is on the job before
\* the cancellation is answered, the runner is there before the arm is.
LEMMA HandlerCalls ==
    ASSUME StoreInv, CallsInv, TypeOK', NEW c \in Caller, HandlerStep(c), NEW t \in Trace
    PROVE  /\ Asks(c, "cancel", t) =>
                /\ call'[c].pc \in {"save", "ok", "unknown", "failed"}
                /\ call'[c].pc \in {"save", "ok", "failed"} => Marked(t)'
                /\ call'[c].pc = "unknown" => jobs'[t] = NoJob
           /\ Asks(c, "arm", t) /\ call'[c].pc = "ok" => Run(t)'
<1>0. call[c] \in Call /\ jobs \in [Trace -> Job \union {NoJob}]
  BY HandlerFrame, CallShape DEF StoreInv, TypeOK
<1>1. ASSUME Asks(c, "cancel", t)
      PROVE  /\ call'[c].pc \in {"save", "ok", "unknown", "failed"}
             /\ call'[c].pc \in {"save", "ok", "failed"} => Marked(t)'
             /\ call'[c].pc = "unknown" => jobs'[t] = NoJob
  <2>1. CancelStore(c) \/ Saved(c) \/ SaveFails(c)
    BY <1>1 DEF HandlerStep, Asks, At, ReserveUnready, ReserveLook, ReserveAdmit,
                ReserveStore, ArmStore, ArmSpawn, StopAllStore
  <2>2. CASE CancelStore(c)
    <3>0. call[c].request.trace = t
      BY <1>1 DEF Asks
    <3>1. CASE jobs[t] = NoJob
      <4>1. jobs' = jobs /\ Goto(c, "unknown")
        BY <2>2, <3>0, <3>1 DEF CancelStore, KeepStore
      <4>2. call'[c].pc = "unknown"
        BY <1>0, <4>1, GotoEffect DEF StoreInv
      <4> QED BY <3>1, <4>1, <4>2
    <3>2. CASE jobs[t] # NoJob
      <4>1. jobs' = [jobs EXCEPT ![t] = CancelledJob(jobs[t])] /\ Goto(c, "save")
        BY <2>2, <3>0, <3>2 DEF CancelStore, Store
      <4>2. call'[c].pc = "save"
        BY <1>0, <4>1, GotoEffect DEF StoreInv
      <4>3. jobs'[t] = CancelledJob(jobs[t]) /\ jobs[t] \in Job
        BY <1>0, <3>2, <4>1
      <4>4. CancelledJob(jobs[t]) \in Job /\ CancelledJob(jobs[t]).cancelled
        BY <4>3, CancelledJobType DEF CancelledJob, Job
      <4> QED BY <4>2, <4>3, <4>4, NoJobAssumption DEF Marked
    <3> QED BY <3>1, <3>2
  <2>3. CASE Saved(c) \/ SaveFails(c)
    <3>1. call[c].pc = "save"
      BY <2>3 DEF Saved, SaveFails
    <3>2. Goto(c, "ok") \/ Goto(c, "failed")
      BY <1>1, <2>3 DEF Saved, SaveFails, Asks
    <3>3. call'[c].pc \in {"ok", "failed"}
      BY <1>0, <3>2, GotoEffect DEF StoreInv
    <3>4. Marked(t)
      BY <1>1, <3>1 DEF CallsInv
    <3> QED BY <3>3, <3>4, HandlerFate
  <2> QED BY <2>1, <2>2, <2>3
<1>2. ASSUME Asks(c, "arm", t), call'[c].pc = "ok"
      PROVE  Run(t)'
  <2>1. ArmSpawn(c)
    <3>1. ArmStore(c) \/ ArmSpawn(c) \/ Saved(c) \/ SaveFails(c)
      BY <1>2 DEF HandlerStep, Asks, At, ReserveUnready, ReserveLook, ReserveAdmit,
                  ReserveStore, CancelStore, StopAllStore
    <3>2. CASE ArmStore(c)
      <4>1. \E s \in {"unknown", "refused", "spawn", "save"} : Goto(c, s)
        BY <3>2 DEF ArmStore
      <4> QED BY <1>0, <1>2, <4>1, GotoEffect DEF StoreInv
    <3>3. CASE Saved(c) \/ SaveFails(c)
      <4>1. Goto(c, "spawn") \/ Goto(c, "failed")
        BY <1>2, <3>3 DEF Saved, SaveFails, Asks
      <4> QED BY <1>0, <1>2, <4>1, GotoEffect DEF StoreInv
    <3> QED BY <3>1, <3>2, <3>3
  <2>2. /\ call[c].request.trace = t /\ call[c].pc = "spawn" /\ call[c].request.op = "arm"
    BY <1>2, <2>1 DEF ArmSpawn, At, Asks
  <2>3. Arming(t)
    BY <2>2 DEF Arming
  <2>4. jobs[t] \in Job /\ jobs[t].state # "Reserved"
    BY <1>0, <2>3 DEF StoreInv, ArmingHasJob
  <2>5. /\ jobs' = jobs
        /\ runner' = IF runner[t] = "none" THEN [runner EXCEPT ![t] = "start"] ELSE runner
    BY <2>1, <2>2 DEF ArmSpawn
  <2>6. runner \in [Trace -> RunnerStage] /\ (runner[t] = "leave" => jobs[t].state \in TerminalJob)
    BY DEF StoreInv, TypeOK, RunnerHasJob
  <2> QED BY <2>4, <2>5, <2>6, NoJobAssumption DEF Run, RunnerStage
<1> QED BY <1>1, <1>2

\* The runner of a job keeps the mark of its cancellation and ends the job.
LEMMA RunnerFate ==
    ASSUME StoreInv, TypeOK', NEW x \in Trace, RunnerStep(x), NEW t \in Trace
    PROVE  /\ call' = call /\ up' = up /\ runner[x] # "none" /\ jobs[x] # NoJob
           /\ jobs[t] = NoJob => jobs'[t] = NoJob
           /\ Marked(t) => Marked(t)'
           /\ Run(t) => Run(t)'
<1>0. /\ jobs \in [Trace -> Job \union {NoJob}] /\ runner \in [Trace -> RunnerStage]
      /\ jobs' \in [Trace -> Job \union {NoJob}]
  BY DEF StoreInv, TypeOK
<1>1. call' = call /\ up' = up /\ runner[x] # "none"
  BY DEF RunnerStep, RunnerStart, RunnerClaim, RunnerVerdict, RunnerFinish, RunnerLeave
<1>2. jobs[x] \in Job /\ jobs[x].state # "Reserved"
  BY <1>0, <1>1 DEF StoreInv, RunnerHasJob
<1>3. CASE RunnerStart(x)
  <2>1. /\ jobs' = jobs
        /\ \A y \in Trace \ {x} : runner'[y] = runner[y]
        /\ jobs[x].state \in {"Armed", "Running"} => runner'[x] = "claim"
    BY <1>0, <1>2, <1>3, NoJobAssumption DEF RunnerStart
  <2>2. jobs[x].state \in {"Armed", "Running"} \union TerminalJob
    BY <1>2 DEF Job, JobState, ActiveJob
  <2> QED BY <1>1, <1>2, <2>1, <2>2, NoJobAssumption DEF Marked, Run
<1>4. CASE RunnerClaim(x) \/ RunnerFinish(x)
  <2>1. PICK s \in JobState :
          /\ jobs' = [jobs EXCEPT ![x].state = s]
          /\ \/ s \in TerminalJob
             \/ runner' = [runner EXCEPT ![x] = "work"]
          /\ \A y \in Trace \ {x} : runner'[y] = runner[y]
    <3>1. CASE RunnerClaim(x)
      <4>1. "Running" \in JobState
        BY DEF JobState, ActiveJob
      <4>2. /\ jobs' = [jobs EXCEPT ![x].state = "Running"]
            /\ runner' = [runner EXCEPT ![x] = "work"]
        BY <3>1 DEF RunnerClaim, Store
      <4> QED BY <1>0, <4>1, <4>2
    <3>2. CASE RunnerFinish(x)
      <4>1. verdict[x] \in TerminalJob
        BY <3>2 DEF RunnerFinish, StoreInv, RunnerHasJob
      <4>2. /\ jobs' = [jobs EXCEPT ![x].state = verdict[x]]
            /\ runner' = [runner EXCEPT ![x] = "leave"]
        BY <3>2 DEF RunnerFinish, Store
      <4> QED BY <1>0, <4>1, <4>2 DEF JobState
    <3> QED BY <1>4, <3>1, <3>2
  <2> DEFINE j == [jobs[x] EXCEPT !.state = s]
  <2>2. j \in Job /\ j.state = s /\ j.cancelled = jobs[x].cancelled
    BY <1>2 DEF Job
  <2>3. jobs'[x] = j /\ \A y \in Trace \ {x} : jobs'[y] = jobs[y]
    BY <1>0, <2>1
  <2> HIDE DEF j
  <2> QED BY <1>0, <1>1, <1>2, <2>1, <2>2, <2>3, NoJobAssumption DEF Marked, Run
<1>5. CASE RunnerVerdict(x)
  <2>1. jobs' = jobs /\ runner' = [runner EXCEPT ![x] = "finish"]
    BY <1>5 DEF RunnerVerdict
  <2> QED BY <1>0, <1>1, <1>2, <2>1, NoJobAssumption DEF Marked, Run
<1>6. CASE RunnerLeave(x)
  <2>1. /\ jobs' = jobs /\ runner' = [runner EXCEPT ![x] = "none"]
        /\ jobs[x].state \in TerminalJob
    BY <1>6 DEF RunnerLeave, StoreInv, RunnerHasJob
  <2> QED BY <1>0, <1>1, <1>2, <2>1, NoJobAssumption DEF Marked, Run
<1> QED BY <1>3, <1>4, <1>5, <1>6 DEF RunnerStep

-----------------------------------------------------------------------------
(* A step of the daemon: either it ends, or it carries on *)

CutOff == jobs' = NoJobs /\ \A d \in Caller : call'[d] = Idle

\* No request comes, none that its client waits for goes, and jobs keep what
\* has become of them.
Carried ==
    /\ \A d \in Caller :
         /\ call'[d].pc # "idle" => /\ call[d].pc # "idle"
                                    /\ call'[d].request = call[d].request
                                    /\ call'[d].heard = call[d].heard
         /\ call[d].pc # "idle" /\ call[d].heard => call'[d].pc # "idle"
    /\ \A t \in Trace :
         /\ jobs[t] = NoJob => jobs'[t] = NoJob \/ ~NoReserve(t)
         /\ Marked(t) => Marked(t)'
         /\ Run(t) => Run(t)'
         /\ \A d \in Caller : Asks(d, "cancel", t) /\ call'[d].pc = "unknown" =>
              call[d].pc = "unknown" \/ jobs'[t] = NoJob

\* An idle line has nobody's request.
LEMMA IdleShape == Idle.pc = "idle" /\ Idle.heard
BY DEF Idle

\* Whatever the daemon does alone, it ends, or it keeps what a launch relies on.
LEMMA DaemonEffect ==
    ASSUME StoreInv, CallsInv, TypeOK', DaemonStep
    PROVE  (CutOff \/ Carried) /\ CallsInv'
<1>1. ASSUME NEW c \in Caller, HandlerStep(c) PROVE Carried /\ CallsInv'
  <2>1. /\ call[c].pc # "idle" /\ call'[c].pc # "idle" /\ up' = up
        /\ \A d \in Caller : /\ call'[d].request = call[d].request
                             /\ call'[d].heard = call[d].heard
                             /\ d # c => call'[d] = call[d]
    BY <1>1, HandlerFrame
  <2>2. \A t \in Trace : /\ jobs[t] = NoJob => jobs'[t] = NoJob \/ Asks(c, "reserve", t)
                         /\ Marked(t) => Marked(t)'
                         /\ Run(t) => Run(t)'
    BY <1>1, HandlerFate
  <2>3. \A t \in Trace :
           /\ Asks(c, "cancel", t) =>
                /\ call'[c].pc \in {"save", "ok", "unknown", "failed"}
                /\ call'[c].pc \in {"save", "ok", "failed"} => Marked(t)'
                /\ call'[c].pc = "unknown" => jobs'[t] = NoJob
           /\ Asks(c, "arm", t) /\ call'[c].pc = "ok" => Run(t)'
    BY <1>1, HandlerCalls
  <2>4. up
    BY <2>1, IdleShape DEF CallsInv
  <2>5. Carried
    BY <2>1, <2>2, <2>3 DEF Carried, NoReserve
  <2>6. CallsInv'
    <3>1. ASSUME NEW d \in Caller, NEW t \in Trace
          PROVE  /\ Asks(d, "cancel", t)' =>
                      /\ call'[d].pc \in {"arrived", "save", "ok", "unknown", "failed"}
                      /\ call'[d].pc \in {"save", "ok", "failed"} => Marked(t)'
                 /\ Asks(d, "arm", t)' /\ call'[d].pc = "ok" => Run(t)'
      <4>1. CASE d = c
        <5>1. \A o \in {"cancel", "arm"} : Asks(c, o, t)' => Asks(c, o, t)
          BY <2>1 DEF Asks
        <5> QED BY <2>3, <4>1, <5>1
      <4>2. CASE d # c
        <5>1. call'[d] = call[d]
          BY <2>1, <4>2
        <5>2. \A o \in {"cancel", "arm"} : Asks(d, o, t)' => Asks(d, o, t)
          BY <5>1 DEF Asks
        <5> QED BY <2>2, <5>1, <5>2 DEF CallsInv
      <4> QED BY <4>1, <4>2
    <3> QED BY <2>1, <2>4, <3>1 DEF CallsInv
  <2> QED BY <2>5, <2>6
<1>2. ASSUME NEW c \in Caller, Drop(c) PROVE Carried /\ CallsInv'
  <2>1. /\ ~call[c].heard /\ call' = [call EXCEPT ![c] = Idle]
        /\ jobs' = jobs /\ up' = up /\ runner' = runner
    BY <1>2 DEF Drop
  <2>2. call'[c] = Idle /\ \A d \in Caller \ {c} : call'[d] = call[d]
    BY <2>1 DEF StoreInv, TypeOK
  <2>3. \A d \in Caller : call'[d].pc # "idle" => call'[d] = call[d] /\ d # c
    BY <2>2, IdleShape
  <2>4. \A t \in Trace : (Marked(t) <=> Marked(t)') /\ (Run(t) <=> Run(t)')
    BY <2>1 DEF Marked, Run
  <2>5. Carried
    BY <2>1, <2>2, <2>3, <2>4 DEF Carried, Asks
  <2>6. CallsInv'
    <3>1. \A d \in Caller, t \in Trace, o \in {"cancel", "arm"} :
            Asks(d, o, t)' => Asks(d, o, t) /\ call'[d] = call[d]
      BY <2>3 DEF Asks
    <3> QED BY <2>1, <2>2, <2>4, <3>1 DEF CallsInv
  <2> QED BY <2>5, <2>6
<1>3. ASSUME NEW x \in Trace, RunnerStep(x) PROVE Carried /\ CallsInv'
  <2>1. /\ call' = call /\ up' = up /\ jobs[x] # NoJob
        /\ \A t \in Trace : /\ jobs[t] = NoJob => jobs'[t] = NoJob
                            /\ Marked(t) => Marked(t)'
                            /\ Run(t) => Run(t)'
    BY <1>3, RunnerFate
  <2>2. up
    BY <2>1 DEF CallsInv, NoJobs
  <2>3. Carried
    BY <2>1 DEF Carried
  <2>4. CallsInv'
    <3>1. \A d \in Caller, t \in Trace, o \in {"cancel", "arm"} :
            Asks(d, o, t)' => Asks(d, o, t)
      BY <2>1 DEF Asks
    <3> QED BY <2>1, <2>2, <3>1 DEF CallsInv
  <2> QED BY <2>3, <2>4
<1>4. ASSUME Stop PROVE CutOff /\ CallsInv'
  <2>1. /\ jobs' = NoJobs /\ up' = FALSE
        /\ \A d \in Caller : call'[d] = Idle
    BY <1>4 DEF Stop
  <2>2. \A d \in Caller, t \in Trace, o \in {"cancel", "arm"} : ~Asks(d, o, t)'
    BY <2>1, IdleShape DEF Asks
  <2> QED BY <2>1, <2>2 DEF CutOff, CallsInv
<1>5. ASSUME Start PROVE Carried /\ CallsInv'
  <2>1. UNCHANGED <<jobs, call, runner>> /\ up' = TRUE
    BY <1>5 DEF Start
  <2>2. \A t \in Trace : (Marked(t) <=> Marked(t)') /\ (Run(t) <=> Run(t)')
    BY <2>1 DEF Marked, Run
  <2>3. \A d \in Caller, t \in Trace, o \in {"cancel", "arm"} :
            Asks(d, o, t)' => Asks(d, o, t)
    BY <2>1 DEF Asks
  <2> QED BY <2>1, <2>2, <2>3 DEF Carried, CallsInv
<1> QED BY <1>1, <1>2, <1>3, <1>4, <1>5 DEF DaemonStep

-----------------------------------------------------------------------------
(* Steps that leave a launch as it is *)

\* The lines of a launch are connections of the daemon.
LEMMA FlowShape ==
    ASSUME FlowTypeOK, NEW t \in Trace
    PROVE  /\ flow[t] \in Flow
           /\ flow[t].line # NoLine => flow[t].line \in Caller
           /\ flow[t].taskLine # NoLine => flow[t].taskLine \in Caller
BY DEF FlowTypeOK, Flow

\* Past its stages a reservation is only left over from an aborted task.
LEMMA NoReserveLeft ==
    ASSUME FlowTypeOK, NEW t \in Trace, StageInv(t), LineInv(t),
           flow[t].task # "asked", ~Aborted(t)
    PROVE  NoReserve(t)
<1>1. flow[t].taskLine = NoLine
  BY DEF StageInv
<1>2. \A c \in Caller : flow[t].taskLine # c
  BY <1>1, FlowAssumption
<1> QED BY <1>2 DEF LineInv, NoReserve

\* What is known of a launch stays true whatever the daemon does.
LEMMA DaemonTrace ==
    ASSUME FlowInv, CutOff \/ Carried, flow' = flow, NEW t \in Trace
    PROVE  TraceInv(t)'
<1>1. TraceInv(t) /\ FlowTypeOK
  BY DEF FlowInv
<1>2. StageInv(t)' /\ (LastTry(t)' <=> LastTry(t)) /\ (Aborted(t)' <=> Aborted(t))
  BY <1>1 DEF TraceInv, StageInv, LastTry, Aborted
<1>3. CASE CutOff
  <2>1. \A d \in Caller, o \in {"reserve", "arm", "cancel"} : ~Asks(d, o, t)'
    BY <1>3, IdleShape DEF CutOff, Asks
  <2>2. Gone(t)'
    BY <1>3, <2>1 DEF CutOff, Gone, NoReserve, NoJobs
  <2>3. flow[t].line # NoLine => call'[flow[t].line].pc = "idle"
    BY <1>1, <1>3, FlowShape, IdleShape DEF CutOff
  <2>4. LineInv(t)'
    BY <2>1, <2>3 DEF LineInv
  <2>5. FateInv(t)'
    BY <2>2 DEF FateInv, Dead, Alive
  <2> QED BY <1>2, <2>4, <2>5 DEF TraceInv
<1>4. CASE Carried
  <2>1. \A d \in Caller, o \in {"reserve", "arm", "cancel"} :
          Asks(d, o, t)' => Asks(d, o, t) /\ call'[d].heard = call[d].heard
    BY <1>4 DEF Carried, Asks
  <2>2. NoReserve(t) => NoReserve(t)'
    BY <2>1 DEF NoReserve
  <2>3. /\ Gone(t) => Gone(t)'
        /\ Dead(t) => Dead(t)'
        /\ Alive(t) => Alive(t)'
    BY <1>4, <2>2 DEF Carried, Gone, Dead, Alive
  <2>4. LineInv(t)'
    <3>1. ASSUME flow[t].line # NoLine, call'[flow[t].line].pc # "idle"
          PROVE  /\ call'[flow[t].line].heard
                 /\ Asks(flow[t].line, IF flow[t].pc \in {"arm", "rearm"} THEN "arm" ELSE "cancel", t)'
      <4> DEFINE c == flow[t].line
                 o == IF flow[t].pc \in {"arm", "rearm"} THEN "arm" ELSE "cancel"
      <4>1. c \in Caller
        BY <1>1, <3>1, FlowShape
      <4>2. /\ call[c].pc # "idle" /\ call'[c].heard = call[c].heard
            /\ call'[c].request = call[c].request
        BY <1>4, <3>1, <4>1 DEF Carried
      <4>3. call[c].heard /\ Asks(c, o, t)
        BY <1>1, <3>1, <4>2 DEF TraceInv, LineInv
      <4>4. Asks(c, o, t)'
        BY <3>1, <4>2, <4>3 DEF Asks
      <4> QED BY <4>2, <4>3, <4>4
    <3>2. \A c \in Caller : Asks(c, "arm", t)' => flow[t].line = c
      BY <1>1, <2>1 DEF TraceInv, LineInv
    <3>3. ASSUME NEW c \in Caller, Asks(c, "reserve", t)'
          PROVE  flow[t].taskLine = c \/ (~call'[c].heard /\ Aborted(t))
      <4>1. Asks(c, "reserve", t) /\ call'[c].heard = call[c].heard
        BY <2>1, <3>3
      <4>2. flow[t].taskLine = c \/ (~call[c].heard /\ Aborted(t))
        BY <1>1, <4>1 DEF TraceInv, LineInv
      <4> QED BY <4>1, <4>2
    <3> QED BY <1>2, <3>1, <3>2, <3>3 DEF LineInv
  <2>5. ASSUME flow[t].line # NoLine, call'[flow[t].line].pc = "idle"
        PROVE  Gone(t)'
    <3>1. flow[t].line \in Caller
      BY <1>1, <2>5, FlowShape
    <3>2. call[flow[t].line].pc = "idle"
      BY <1>1, <1>4, <2>5, <3>1 DEF Carried, TraceInv, LineInv
    <3> QED BY <1>1, <2>3, <2>5, <3>2 DEF TraceInv, FateInv
  <2>6. ASSUME LastTry(t), call'[flow[t].line].pc = "unknown"
        PROVE  Gone(t)'
    <3> DEFINE c == flow[t].line
    <3>1. c # NoLine /\ c \in Caller /\ flow[t].pc \in {"cancelOnce", "cancelling"}
      BY <1>1, <2>6, FlowShape DEF LastTry
    <3>2. call[c].pc # "idle" /\ Asks(c, "cancel", t)
      BY <1>1, <1>4, <2>6, <3>1 DEF Carried, TraceInv, LineInv
    <3>3. call[c].pc = "unknown" \/ jobs'[t] = NoJob
      BY <1>4, <2>6, <3>1, <3>2 DEF Carried
    <3>4. flow[t].task # "asked" /\ ~Aborted(t)
      BY <1>1, <2>6, <3>1 DEF TraceInv, StageInv, Ahead, Aborted
    <3>5. NoReserve(t)
      BY <1>1, <3>4, NoReserveLeft DEF TraceInv
    <3>6. call[c].pc = "unknown" => Gone(t)
      BY <1>1, <2>6 DEF TraceInv, FateInv
    <3> QED BY <2>2, <2>3, <3>3, <3>5, <3>6 DEF Gone
  <2>7. FateInv(t)'
    BY <1>1, <1>2, <2>3, <2>5, <2>6 DEF TraceInv, FateInv
  <2> QED BY <1>2, <2>4, <2>7 DEF TraceInv
<1> QED BY <1>3, <1>4

\* A connection that is not one of the launch changes hands, and carries no
\* reservation and no arm of it.
LEMMA OtherTrace ==
    ASSUME FlowInv, UNCHANGED <<jobs, runner>>, NEW c \in Caller,
           \A d \in Caller : d # c => call'[d] = call[d],
           NEW u \in Trace, flow'[u] = flow[u],
           flow[u].line # c, flow[u].taskLine # c,
           ~Asks(c, "reserve", u)', ~Asks(c, "arm", u)'
    PROVE  TraceInv(u)'
<1>1. TraceInv(u) /\ FlowTypeOK
  BY DEF FlowInv
<1>2. StageInv(u)' /\ (LastTry(u)' <=> LastTry(u)) /\ (Aborted(u)' <=> Aborted(u))
  BY <1>1 DEF TraceInv, StageInv, LastTry, Aborted
<1>3. \A d \in Caller, o \in {"reserve", "arm"} :
        Asks(d, o, u)' => Asks(d, o, u) /\ call'[d] = call[d]
  BY DEF Asks
<1>4. /\ NoReserve(u) => NoReserve(u)'
      /\ (Marked(u) => Marked(u)') /\ (Run(u) => Run(u)')
  BY <1>3 DEF NoReserve, Marked, Run
<1>5. /\ Gone(u) => Gone(u)'
      /\ Dead(u) => Dead(u)'
      /\ Alive(u) => Alive(u)'
  BY <1>4 DEF Gone, Dead, Alive
<1>6. flow[u].line # NoLine => /\ call'[flow[u].line] = call[flow[u].line]
                               /\ flow[u].line \in Caller
  BY <1>1, FlowShape
<1>7. flow[u].line # NoLine =>
        \A o \in {"arm", "cancel"} : Asks(flow[u].line, o, u) => Asks(flow[u].line, o, u)'
  BY <1>6 DEF Asks
<1>8. LineInv(u)'
  BY <1>1, <1>2, <1>3, <1>6, <1>7 DEF TraceInv, LineInv
<1>9. FateInv(u)'
  BY <1>1, <1>2, <1>5, <1>6 DEF TraceInv, FateInv, LastTry
<1> QED BY <1>2, <1>8, <1>9 DEF TraceInv

-----------------------------------------------------------------------------
(* What a step of a launch does to calls and lines *)

\* Only the call on one connection changes.
OnlyCall(c) == \A d \in Caller : d # c => call'[d] = call[d]

\* A request that is sent fills a free line.
LEMMA AskEffect ==
    ASSUME TypeOK, NEW c \in Caller, NEW r, Ask(c, r)
    PROVE  /\ OnlyCall(c) /\ up
           /\ call[c].pc = "idle"
           /\ call'[c].pc = "arrived" /\ call'[c].request = r /\ call'[c].heard
BY IdleShape DEF Ask, OnlyCall, TypeOK

\* An answer that is read frees its line.
LEMMA ReadEffect ==
    ASSUME TypeOK, NEW c \in Caller, Read(c)
    PROVE  OnlyCall(c) /\ call'[c] = Idle
BY DEF Read, OnlyCall, TypeOK

\* After a reply the line is idle; an error may hide a yes, or nothing at all.
LEMMA ReplyEffect ==
    ASSUME TypeOK, NEW c \in Caller, NEW answer \in Answered, Reply(c, answer)
    PROVE  /\ OnlyCall(c) /\ call'[c] = Idle
           /\ \/ call[c].pc = answer
              \/ answer = "failed" /\ call[c].pc \in {"idle", "ok"}
<1>1. CASE Read(c)
  BY <1>1, ReadEffect, IdleShape DEF Reply, Answered, Read
<1>2. CASE ~Read(c)
  <2>1. call[c] = Idle /\ answer = "failed" /\ call' = call
    BY <1>2 DEF Reply
  <2> QED BY <2>1, IdleShape DEF OnlyCall
<1> QED BY <1>1, <1>2

\* A client that hangs up leaves the handler where it is.
LEMMA HangUpEffect ==
    ASSUME TypeOK, NEW c \in Caller, HangUp(c)
    PROVE  /\ OnlyCall(c)
           /\ call[c].pc # "idle" /\ call'[c].pc = call[c].pc
           /\ call'[c].request = call[c].request /\ ~call'[c].heard
<1>1. call[c] \in Call
  BY UnderwayCall DEF HangUp
<1> QED BY <1>1 DEF HangUp, OnlyCall, TypeOK, Call

\* The requests of a launch and of the Jobs window are steps of a client.
LEMMA ClientStepInv ==
    ASSUME StoreInv, NEW c \in Caller, KeepTable,
           Read(c) \/ HangUp(c) \/ \E r \in Request : Ask(c, r)
    PROVE  StoreInv'
<1>1. ClientStep
  BY DEF ClientStep, KeepTable
<1> QED BY <1>1, StepInv DEF StoreNext

\* A step of the host that touches no line keeps what holds of the store.
LEMMA SameStoreInv ==
    ASSUME StoreInv, KeepTable, call' = call
    PROVE  StoreInv'
<1>1. UNCHANGED storeVars
  BY DEF KeepTable, storeVars
<1> QED BY <1>1, StepInv

\* A request that comes, goes or is given up changes no stage of a call.
LEMMA ClientCalls ==
    ASSUME CallsInv, NEW c \in Caller, KeepTable, OnlyCall(c),
           \/ call'[c] = Idle
           \/ up /\ call'[c].pc = "arrived"
           \/ /\ call[c].pc # "idle" /\ call'[c].pc = call[c].pc
              /\ call'[c].request = call[c].request
    PROVE  CallsInv'
<1>1. UNCHANGED <<jobs, up, runner>>
  BY DEF KeepTable
<1>2. \A t \in Trace : (Marked(t) => Marked(t)') /\ (Run(t) => Run(t)')
  BY <1>1 DEF Marked, Run
<1>3. ASSUME NEW d \in Caller, NEW t \in Trace
      PROVE  /\ Asks(d, "cancel", t)' =>
                  /\ call'[d].pc \in {"arrived", "save", "ok", "unknown", "failed"}
                  /\ call'[d].pc \in {"save", "ok", "failed"} => Marked(t)'
             /\ Asks(d, "arm", t)' /\ call'[d].pc = "ok" => Run(t)'
  <2>1. CASE call'[d] = Idle \/ call'[d].pc = "arrived"
    BY <2>1, IdleShape DEF Asks
  <2>2. CASE call'[d].pc = call[d].pc /\ call'[d].request = call[d].request
    <3>1. \A o \in {"cancel", "arm"} : Asks(d, o, t)' => Asks(d, o, t)
      BY <2>2 DEF Asks
    <3> QED BY <1>2, <2>2, <3>1 DEF CallsInv
  <2>3. CASE d # c
    BY <2>2, <2>3 DEF OnlyCall
  <2> QED BY <2>1, <2>2, <2>3
<1>4. ~up' => jobs' = NoJobs /\ \A d \in Caller : call'[d] = Idle
  BY <1>1, IdleShape DEF CallsInv, OnlyCall
<1> QED BY <1>3, <1>4 DEF CallsInv

\* The same of the calls under way.
LEMMA SameCalls ==
    ASSUME CallsInv, KeepTable, call' = call
    PROVE  CallsInv'
<1>1. UNCHANGED <<jobs, up, runner>>
  BY DEF KeepTable
<1>2. \A t \in Trace : (Marked(t) => Marked(t)') /\ (Run(t) => Run(t)')
  BY <1>1 DEF Marked, Run
<1>3. \A d \in Caller, t \in Trace, o \in {"cancel", "arm"} :
        Asks(d, o, t)' => Asks(d, o, t)
  BY DEF Asks
<1> QED BY <1>1, <1>2, <1>3 DEF CallsInv

\* A free line is on no launch.
LEMMA FreeLine ==
    ASSUME NEW c, Free(c), NEW u \in Trace
    PROVE  flow[u].line # c /\ flow[u].taskLine # c
BY DEF Free, Lines

\* Lines are handed back, or taken while they are free.
LEMMA OwnLinesKept ==
    ASSUME OwnLines, NEW t \in Trace, \A u \in Trace \ {t} : flow'[u] = flow[u],
           flow'[t].line \in {NoLine, flow[t].line} \/ Free(flow'[t].line),
           flow'[t].taskLine \in {NoLine, flow[t].taskLine} \/ Free(flow'[t].taskLine),
           flow'[t].line # NoLine => flow'[t].line # flow'[t].taskLine
    PROVE  OwnLines'
<1>1. ASSUME NEW u \in Trace \ {t}
      PROVE  /\ flow'[t].line # NoLine =>
                  flow'[t].line # flow[u].line /\ flow'[t].line # flow[u].taskLine
             /\ flow'[t].taskLine # NoLine =>
                  flow'[t].taskLine # flow[u].line /\ flow'[t].taskLine # flow[u].taskLine
  BY FreeLine DEF OwnLines
<1> QED BY <1>1 DEF OwnLines

\* A launch that changes alone.
LEMMA FlowTypeKept ==
    ASSUME FlowTypeOK, NEW t \in Trace, NEW f \in Flow, flow' = [flow EXCEPT ![t] = f],
           lost' \in 0..MaxLost, desk' \in 0..MaxDesk
    PROVE  FlowTypeOK' /\ flow'[t] = f /\ \A u \in Trace \ {t} : flow'[u] = flow[u]
BY DEF FlowTypeOK

-----------------------------------------------------------------------------
(* Steps of a launch that make no request *)

\* What became of a job is told by the table, its runner and the calls.
LEMMA SameFate ==
    ASSUME UNCHANGED <<jobs, runner, call>>, NEW t \in Trace
    PROVE  /\ \A c \in Caller, o \in {"arm", "cancel", "reserve"} :
                Asks(c, o, t)' <=> Asks(c, o, t)
           /\ Gone(t)' <=> Gone(t)
           /\ Dead(t)' <=> Dead(t)
           /\ Alive(t)' <=> Alive(t)
<1>1. \A c \in Caller, o \in {"arm", "cancel", "reserve"} :
        Asks(c, o, t)' <=> Asks(c, o, t)
  BY DEF Asks
<1>2. (NoReserve(t)' <=> NoReserve(t)) /\ (Marked(t)' <=> Marked(t)) /\ (Run(t)' <=> Run(t))
  BY <1>1 DEF NoReserve, Marked, Run
<1> QED BY <1>1, <1>2 DEF Gone, Dead, Alive

\* A launch that is left alone keeps its invariant.
LEMMA SameTrace ==
    ASSUME FlowInv, UNCHANGED <<jobs, runner, call>>, NEW u \in Trace, flow'[u] = flow[u]
    PROVE  TraceInv(u)'
<1>1. TraceInv(u) /\ FlowTypeOK
  BY DEF FlowInv
<1>2. StageInv(u)' /\ (LastTry(u)' <=> LastTry(u)) /\ (Aborted(u)' <=> Aborted(u))
  BY <1>1 DEF TraceInv, StageInv, LastTry, Aborted
<1>3. LineInv(u)'
  <2>1. flow[u].line # NoLine => flow[u].line \in Caller
    BY <1>1, FlowShape
  <2>2. \A c \in Caller, o \in {"arm", "cancel", "reserve"} :
          Asks(c, o, u)' <=> Asks(c, o, u)
    BY SameFate
  <2> QED BY <1>1, <1>2, <2>1, <2>2 DEF TraceInv, LineInv
<1>4. FateInv(u)'
  BY <1>1, <1>2, SameFate DEF TraceInv, FateInv
<1> QED BY <1>2, <1>3, <1>4 DEF TraceInv

\* Its lines stay what they were.
LEMMA OwnLinesSame ==
    ASSUME FlowInv, UNCHANGED <<jobs, runner, call>>, NEW t \in Trace,
           flow[t].line = NoLine, ~Aborted(t),
           flow'[t].line = NoLine, flow'[t].taskLine = flow[t].taskLine
    PROVE  LineInv(t)'
<1>1. LineInv(t)
  BY DEF FlowInv, TraceInv
<1>2. \A c \in Caller : flow[t].line # c
  BY FlowAssumption
<1> QED BY <1>1, <1>2, SameFate DEF LineInv

InnerStep(t) == \/ Begin(t) \/ Build(t) \/ PreReserve(t) \/ Submit(t)
                \/ AwaitReserve(t) \/ Confirm(t) \/ Late(t)

\* The steps of a launch that send nothing.
LEMMA InnerInv ==
    ASSUME FlowInv, NEW t \in Trace, InnerStep(t)
    PROVE  FlowInv'
<1>0. /\ FlowTypeOK /\ flow[t] \in Flow /\ StageInv(t) /\ FateInv(t)
      /\ UNCHANGED <<jobs, runner, call, lost, desk>>
      /\ KeepTable
  BY FlowShape DEF FlowInv, TraceInv, InnerStep, Begin, Build, PreReserve, Submit,
     AwaitReserve, Confirm, Late, storeVars, KeepTable
<1>1. StoreInv' /\ CallsInv'
  BY <1>0, SameStoreInv, SameCalls DEF FlowInv
<1>2. ASSUME NEW f \in Flow, flow' = [flow EXCEPT ![t] = f],
             f.line = flow[t].line, f.taskLine = flow[t].taskLine,
             flow[t].line = NoLine, ~Aborted(t), StageInv(t)', FateInv(t)'
      PROVE  FlowInv'
  <2>1. lost' \in 0..MaxLost /\ desk' \in 0..MaxDesk
    BY <1>0 DEF FlowTypeOK
  <2>2. FlowTypeOK' /\ flow'[t] = f /\ \A u \in Trace \ {t} : flow'[u] = flow[u]
    BY <1>0, <1>2, <2>1, FlowTypeKept
  <2>3. LineInv(t)'
    BY <1>0, <1>2, <2>2, OwnLinesSame
  <2>4. OwnLines'
    BY <1>2, <2>2, OwnLinesKept DEF FlowInv
  <2>5. \A u \in Trace \ {t} : TraceInv(u)'
    BY <1>0, <2>2, SameTrace
  <2> QED BY <1>1, <1>2, <2>2, <2>3, <2>4, <2>5 DEF FlowInv, TraceInv
<1>3. CASE Begin(t)
  <2> DEFINE f == [flow[t] EXCEPT !.pc = "build", !.task = "spawned"]
  <2>1. flow[t].pc = "begin" /\ flow' = [flow EXCEPT ![t] = f]
    BY <1>3 DEF Begin
  <2>2. /\ f \in Flow /\ flow'[t] = f
        /\ f.line = flow[t].line /\ f.taskLine = flow[t].taskLine
    BY <1>0, <2>1 DEF FlowTypeOK, Flow, Stage, TaskStage
  <2>3. flow[t].line = NoLine /\ ~Aborted(t)
    BY <1>0, <2>1 DEF StageInv, Aborted
  <2>4. StageInv(t)'
    BY <1>0, <2>1, <2>2 DEF StageInv, Flow, Ahead
  <2>5. FateInv(t)'
    BY <1>0, <2>1, <2>2, <2>3 DEF FateInv, Flow, LastTry, StageInv, Ahead
  <2> HIDE DEF f
  <2> QED BY <1>2, <2>1, <2>2, <2>3, <2>4, <2>5
<1>4. CASE Build(t)
  <2>1. PICK s \in {"prereserve", "submit", "abort"} :
          flow' = [flow EXCEPT ![t] = [flow[t] EXCEPT !.pc = s]]
    BY <1>4 DEF Build
  <2> DEFINE f == [flow[t] EXCEPT !.pc = s]
  <2>2. /\ f \in Flow /\ flow'[t] = f /\ flow[t].pc = "build"
        /\ f.line = flow[t].line /\ f.taskLine = flow[t].taskLine
    BY <1>0, <1>4, <2>1 DEF Build, FlowTypeOK, Flow, Stage
  <2>3. flow[t].line = NoLine /\ ~Aborted(t)
    BY <1>0, <2>2 DEF StageInv, Aborted
  <2>4. StageInv(t)'
    BY <1>0, <2>2 DEF StageInv, Flow, Ahead
  <2>5. FateInv(t)'
    BY <1>0, <2>2, <2>3 DEF FateInv, Flow, LastTry, StageInv, Ahead
  <2> HIDE DEF f
  <2> QED BY <1>2, <2>1, <2>2, <2>3, <2>4, <2>5 DEF f
<1>5. CASE PreReserve(t)
  <2>1. PICK r \in BOOLEAN :
          /\ flow' = [flow EXCEPT ![t] = [flow[t] EXCEPT !.task = "none", !.reserved = r,
                                            !.pc = IF r THEN "submit" ELSE "abandoned"]]
    <3>1. CASE flow[t].task = "yes"
      <4>1. flow' = [flow EXCEPT ![t] = [flow[t] EXCEPT !.task = "none", !.reserved = TRUE,
                                           !.pc = "submit"]]
        BY <1>5, <3>1 DEF PreReserve
      <4> QED BY <4>1
    <3>2. CASE flow[t].task # "yes"
      <4>1. flow' = [flow EXCEPT ![t] = [flow[t] EXCEPT !.task = "none", !.reserved = FALSE,
                                           !.pc = "abandoned"]]
        BY <1>5, <3>2 DEF PreReserve
      <4> QED BY <4>1
    <3> QED BY <3>1, <3>2
  <2> DEFINE f == [flow[t] EXCEPT !.task = "none", !.reserved = r,
                                  !.pc = IF r THEN "submit" ELSE "abandoned"]
  <2>2. /\ f \in Flow /\ flow'[t] = f
        /\ flow[t].pc = "prereserve" /\ flow[t].task \in {"yes", "no"}
        /\ f.line = flow[t].line /\ f.taskLine = flow[t].taskLine
    BY <1>0, <1>5, <2>1 DEF PreReserve, FlowTypeOK, Flow, Stage, TaskStage
  <2>3. flow[t].line = NoLine /\ ~Aborted(t)
    BY <1>0, <2>2 DEF StageInv, Aborted
  <2>4. StageInv(t)'
    BY <1>0, <2>2 DEF StageInv, Flow, Ahead
  <2>5. FateInv(t)'
    BY <1>0, <2>2, <2>3 DEF FateInv, Flow, LastTry, StageInv, Ahead
  <2> HIDE DEF f
  <2> QED BY <1>2, <2>1, <2>2, <2>3, <2>4, <2>5 DEF f
<1>6. CASE Submit(t)
  <2>1. PICK s \in {"await", "abort"} :
          flow' = [flow EXCEPT ![t] = [flow[t] EXCEPT !.pc = s]]
    BY <1>6 DEF Submit
  <2> DEFINE f == [flow[t] EXCEPT !.pc = s]
  <2>2. /\ f \in Flow /\ flow'[t] = f /\ flow[t].pc = "submit"
        /\ f.line = flow[t].line /\ f.taskLine = flow[t].taskLine
    BY <1>0, <1>6, <2>1 DEF Submit, FlowTypeOK, Flow, Stage
  <2>3. flow[t].line = NoLine /\ ~Aborted(t)
    BY <1>0, <2>2 DEF StageInv, Aborted
  <2>4. StageInv(t)'
    BY <1>0, <2>2 DEF StageInv, Flow, Ahead
  <2>5. FateInv(t)'
    BY <1>0, <2>2, <2>3 DEF FateInv, Flow, LastTry, StageInv, Ahead
  <2> HIDE DEF f
  <2> QED BY <1>2, <2>1, <2>2, <2>3, <2>4, <2>5 DEF f
<1>7. CASE AwaitReserve(t)
  <2>1. /\ flow[t].pc = "await"
        /\ flow[t].line = NoLine /\ ~Aborted(t)
    BY <1>0, <1>7 DEF AwaitReserve, StageInv, Aborted
  <2>2. CASE flow[t].reserved /\ flow' = [flow EXCEPT ![t].pc = "arm"]
    <3> DEFINE f == [flow[t] EXCEPT !.pc = "arm"]
    <3>1. /\ f \in Flow /\ flow' = [flow EXCEPT ![t] = f] /\ flow'[t] = f
          /\ f.line = flow[t].line /\ f.taskLine = flow[t].taskLine
      BY <1>0, <2>2 DEF FlowTypeOK, Flow, Stage
    <3>2. StageInv(t)'
      BY <1>0, <2>1, <2>2, <3>1 DEF StageInv, Flow, Ahead
    <3>3. FateInv(t)'
      BY <1>0, <2>1, <3>1 DEF FateInv, Flow, LastTry, StageInv, Ahead
    <3> HIDE DEF f
    <3> QED BY <1>2, <2>1, <3>1, <3>2, <3>3
  <2>3. CASE /\ flow[t].task = "yes"
             /\ flow' = [flow EXCEPT ![t].pc = "arm", ![t].task = "none",
                                     ![t].reserved = TRUE]
    <3> DEFINE f == [flow[t] EXCEPT !.pc = "arm", !.task = "none", !.reserved = TRUE]
    <3>1. /\ f \in Flow /\ flow' = [flow EXCEPT ![t] = f] /\ flow'[t] = f
          /\ f.line = flow[t].line /\ f.taskLine = flow[t].taskLine
      BY <1>0, <2>3 DEF FlowTypeOK, Flow, Stage, TaskStage
    <3>2. StageInv(t)'
      BY <1>0, <2>1, <2>3, <3>1 DEF StageInv, Flow, Ahead
    <3>3. FateInv(t)'
      BY <1>0, <2>1, <3>1 DEF FateInv, Flow, LastTry, StageInv, Ahead
    <3> HIDE DEF f
    <3> QED BY <1>2, <2>1, <3>1, <3>2, <3>3
  <2>4. CASE /\ flow[t].task = "no"
             /\ flow' = [ToCancel(t, "confirm") EXCEPT ![t].task = "none"]
    <3> DEFINE f == [flow[t] EXCEPT !.pc = "cancelling", !.tries = 0, !.next = "confirm",
                                    !.line = NoLine, !.task = "none"]
    <3>0. 0 \in 0..CancelTries /\ 0 < CancelTries
      BY FlowAssumption
    <3>1. /\ f \in Flow /\ flow' = [flow EXCEPT ![t] = f] /\ flow'[t] = f
          /\ f.line = flow[t].line /\ f.taskLine = flow[t].taskLine
      BY <1>0, <2>1, <2>4, <3>0 DEF ToCancel, FlowTypeOK, Flow, Stage, TaskStage
    <3>2. StageInv(t)'
      BY <1>0, <2>1, <2>4, <3>0, <3>1 DEF StageInv, Flow, Ahead
    <3>3. FateInv(t)'
      BY <1>0, <2>1, <3>1 DEF FateInv, Flow, LastTry, StageInv, Ahead
    <3> HIDE DEF f
    <3> QED BY <1>2, <2>1, <3>1, <3>2, <3>3
  <2> QED BY <1>7, <2>2, <2>3, <2>4 DEF AwaitReserve
<1>8. CASE Confirm(t)
  <2>1. PICK s \in {"rearm", "late", "cancelOnce"}, n \in {"late", flow[t].next},
             r \in {TRUE, flow[t].refuted} :
          /\ flow' = [flow EXCEPT ![t] = [flow[t] EXCEPT !.pc = s, !.next = n, !.refuted = r]]
          /\ s = "cancelOnce" => n = "late" /\ r
          /\ s = "rearm" => flow[t].reserved
          /\ s = "late" => ~flow[t].reserved
          /\ s # "cancelOnce" => r = flow[t].refuted
    <3>0. flow[t] = [flow[t] EXCEPT !.next = @, !.refuted = @]
      BY <1>0 DEF Flow
    <3>1. CASE flow' = [flow EXCEPT ![t].pc = IF flow[t].reserved THEN "rearm" ELSE "late"]
      <4>1. flow' = [flow EXCEPT ![t] = [flow[t] EXCEPT
               !.pc = IF flow[t].reserved THEN "rearm" ELSE "late",
               !.next = flow[t].next, !.refuted = flow[t].refuted]]
        BY <1>0, <3>1 DEF Flow
      <4> QED BY <4>1
    <3>2. CASE flow' = [ToCancelOnce(t, "late") EXCEPT ![t].refuted = TRUE]
      <4>1. flow' = [flow EXCEPT ![t] = [flow[t] EXCEPT
               !.pc = "cancelOnce", !.next = "late", !.refuted = TRUE]]
        BY <1>0, <3>2 DEF ToCancelOnce, FlowTypeOK, Flow
      <4> QED BY <4>1
    <3> QED BY <1>8, <3>1, <3>2 DEF Confirm
  <2> DEFINE f == [flow[t] EXCEPT !.pc = s, !.next = n, !.refuted = r]
  <2>2. /\ f \in Flow /\ flow'[t] = f /\ flow[t].pc = "confirm"
        /\ f.line = flow[t].line /\ f.taskLine = flow[t].taskLine
    BY <1>0, <1>8, <2>1 DEF Confirm, FlowTypeOK, Flow, Stage
  <2>3. flow[t].line = NoLine /\ ~Aborted(t) /\ ~flow[t].refuted
    BY <1>0, <2>2 DEF StageInv, Aborted
  <2>4. StageInv(t)'
    BY <1>0, <2>1, <2>2, <2>3 DEF StageInv, Flow, Ahead
  <2>5. FateInv(t)'
    BY <1>0, <2>1, <2>2, <2>3, SameFate DEF FateInv, Flow, LastTry
  <2> HIDE DEF f
  <2> QED BY <1>2, <2>1, <2>2, <2>3, <2>4, <2>5 DEF f
<1>9. CASE Late(t)
  <2>0. flow[t].pc = "late" /\ flow[t].line = NoLine /\ ~Aborted(t)
    BY <1>0, <1>9 DEF Late, StageInv, Aborted
  <2>1. CASE flow' = [flow EXCEPT ![t].pc = "done"]
    <3> DEFINE f == [flow[t] EXCEPT !.pc = "done"]
    <3>1. /\ f \in Flow /\ flow' = [flow EXCEPT ![t] = f] /\ flow'[t] = f
          /\ f.line = flow[t].line /\ f.taskLine = flow[t].taskLine
      BY <1>0, <2>1 DEF FlowTypeOK, Flow, Stage
    <3>2. StageInv(t)'
      BY <1>0, <2>0, <3>1 DEF StageInv, Flow, Ahead
    <3>3. FateInv(t)'
      BY <1>0, <2>0, <3>1, SameFate DEF FateInv, Flow, LastTry
    <3> HIDE DEF f
    <3> QED BY <1>2, <2>0, <3>1, <3>2, <3>3
  <2>2. CASE flow' = [ToCancelOnce(t, "done") EXCEPT ![t].refuted = TRUE]
    <3> DEFINE f == [flow[t] EXCEPT !.pc = "cancelOnce", !.next = "done", !.refuted = TRUE]
    <3>1. /\ f \in Flow /\ flow' = [flow EXCEPT ![t] = f] /\ flow'[t] = f
          /\ f.line = flow[t].line /\ f.taskLine = flow[t].taskLine
      BY <1>0, <2>2 DEF ToCancelOnce, FlowTypeOK, Flow, Stage
    <3>2. StageInv(t)'
      BY <1>0, <2>0, <3>1 DEF StageInv, Flow, Ahead
    <3>3. FateInv(t)'
      BY <1>0, <2>0, <3>1, SameFate DEF FateInv, Flow, LastTry
    <3> HIDE DEF f
    <3> QED BY <1>2, <2>0, <3>1, <3>2, <3>3
  <2> QED BY <1>9, <2>1, <2>2 DEF Late
<1> QED BY <1>3, <1>4, <1>5, <1>6, <1>7, <1>8, <1>9 DEF InnerStep

-----------------------------------------------------------------------------
(* Steps of a launch that ask, hear an answer or hang up *)

\* The other launches see another connection than theirs change.
LEMMA CallStepInv ==
    ASSUME FlowInv, NEW t \in Trace, NEW c \in Caller, OnlyCall(c), KeepTable,
           StoreInv', CallsInv', FlowTypeOK', OwnLines', TraceInv(t)',
           \A u \in Trace \ {t} : /\ flow'[u] = flow[u]
                                  /\ flow[u].line # c /\ flow[u].taskLine # c
                                  /\ ~Asks(c, "reserve", u)' /\ ~Asks(c, "arm", u)'
    PROVE  FlowInv'
<1>1. UNCHANGED <<jobs, runner>>
  BY DEF KeepTable
<1>2. ASSUME NEW u \in Trace \ {t} PROVE TraceInv(u)'
  BY <1>1, OtherTrace DEF OnlyCall
<1> QED BY <1>2 DEF FlowInv

\* A step of one launch that touches no line needs only be looked at there.
LEMMA SameCallStepInv ==
    ASSUME FlowInv, NEW t \in Trace, call' = call, KeepTable,
           FlowTypeOK', OwnLines', TraceInv(t)',
           \A u \in Trace \ {t} : flow'[u] = flow[u]
    PROVE  FlowInv'
<1>1. UNCHANGED <<jobs, runner>>
  BY DEF KeepTable
<1>2. ASSUME NEW u \in Trace \ {t} PROVE TraceInv(u)'
  BY <1>1, <1>2, SameTrace
<1> QED BY <1>2, SameStoreInv, SameCalls DEF FlowInv

\* A daemon that is down has nothing of any launch.
LEMMA DownGone ==
    ASSUME CallsInv, ~up, NEW t \in Trace
    PROVE  Gone(t)
BY IdleShape DEF CallsInv, Gone, NoReserve, Asks, NoJobs

\* The calls of a connection that is released carried nothing that counts.
Released(t) ==
    \/ /\ flow[t].line # NoLine
       /\ Read(flow[t].line) \/ call' = call
       /\ OnlyCall(flow[t].line)
       /\ call'[flow[t].line] = Idle
    \/ flow[t].line = NoLine /\ call' = call

\* A launch that hands its line back loses nothing it knew of its job.
LEMMA ReleasedFate ==
    ASSUME KeepTable, NEW t \in Trace, Released(t), FlowTypeOK
    PROVE  /\ \A d \in Caller, o \in {"arm", "reserve", "cancel"} :
                Asks(d, o, t)' => Asks(d, o, t) /\ call'[d] = call[d] /\ d # flow[t].line
           /\ Gone(t) => Gone(t)'
           /\ Dead(t) => Dead(t)'
           /\ Alive(t) => Alive(t)'
<1>1. \A d \in Caller, o \in {"arm", "reserve", "cancel"} :
        Asks(d, o, t)' => Asks(d, o, t) /\ call'[d] = call[d] /\ d # flow[t].line
  BY IdleShape, FlowAssumption DEF Released, OnlyCall, Asks
<1>2. UNCHANGED <<jobs, runner>>
  BY DEF KeepTable
<1>3. NoReserve(t) => NoReserve(t)'
  BY <1>1 DEF NoReserve
<1>4. (Marked(t) => Marked(t)') /\ (Run(t) => Run(t)')
  BY <1>2 DEF Marked, Run
<1> QED BY <1>1, <1>2, <1>3, <1>4 DEF Gone, Dead, Alive

\* A launch hands its line back and goes on.
LEMMA ReleaseInv ==
    ASSUME FlowInv, NEW t \in Trace, KeepTable, Released(t),
           flow[t].pc \in {"arm", "rearm", "cancelling", "cancelOnce"},
           NEW f \in Flow, flow' = [flow EXCEPT ![t] = f],
           lost' \in 0..MaxLost, desk' = desk,
           f.line = NoLine, f.taskLine = flow[t].taskLine,
           Aborted(t) => Aborted(t)', StageInv(t)', FateInv(t)'
    PROVE  FlowInv'
<1>1. FlowTypeOK /\ desk' \in 0..MaxDesk /\ TypeOK /\ TraceInv(t)
  BY DEF FlowInv, FlowTypeOK, StoreInv
<1>2. FlowTypeOK' /\ flow'[t] = f /\ \A u \in Trace \ {t} : flow'[u] = flow[u]
  BY <1>1, FlowTypeKept
<1>3. OwnLines'
  BY <1>2, OwnLinesKept DEF FlowInv
<1>4. LineInv(t)'
  <2>1. \A d \in Caller : ~Asks(d, "arm", t)'
    BY <1>1, ReleasedFate DEF TraceInv, LineInv
  <2>2. ASSUME NEW d \in Caller, Asks(d, "reserve", t)'
        PROVE  f.taskLine = d \/ (~call'[d].heard /\ Aborted(t)')
    <3>1. Asks(d, "reserve", t) /\ call'[d] = call[d]
      BY <1>1, <2>2, ReleasedFate
    <3>2. flow[t].taskLine = d \/ (~call[d].heard /\ Aborted(t))
      BY <1>1, <3>1 DEF TraceInv, LineInv
    <3> QED BY <3>1, <3>2
  <2> QED BY <1>2, <2>1, <2>2 DEF LineInv
<1>5. TraceInv(t)'
  BY <1>4 DEF TraceInv
<1>6. CASE flow[t].line # NoLine
  <2>0. PICK c \in Caller : c = flow[t].line
    BY <1>1, <1>6, FlowShape
  <2>1. /\ OnlyCall(c) /\ call'[c] = Idle
        /\ Read(c) \/ call' = call
    BY <1>6, <2>0 DEF Released
  <2>2. CallsInv'
    BY <2>1, ClientCalls DEF FlowInv
  <2>3. StoreInv'
    BY <2>1, ClientStepInv, SameStoreInv DEF FlowInv
  <2>4. ASSUME NEW u \in Trace \ {t}
        PROVE  /\ flow[u].line # c /\ flow[u].taskLine # c
               /\ ~Asks(c, "reserve", u)' /\ ~Asks(c, "arm", u)'
    <3>1. flow[u].line # c /\ flow[u].taskLine # c
      BY <1>6, <2>0 DEF FlowInv, OwnLines
    <3> QED BY <2>1, <3>1, IdleShape DEF Asks
  <2> QED BY <1>2, <1>3, <1>5, <2>1, <2>2, <2>3, <2>4, CallStepInv
<1>7. CASE flow[t].line = NoLine
  BY <1>2, <1>3, <1>5, <1>7, SameCallStepInv DEF Released
<1> QED BY <1>6, <1>7

\* Any answer, also an error of the line, hands the line back.
LEMMA ReplyReleases ==
    ASSUME FlowInv, NEW t \in Trace, flow[t].line # NoLine,
           NEW answer \in Answered, Reply(flow[t].line, answer)
    PROVE  Released(t) /\ lost' \in 0..MaxLost
<1>1. TypeOK /\ FlowTypeOK /\ lost \in 0..MaxLost /\ flow[t].line \in Caller
  BY FlowShape DEF FlowInv, StoreInv, FlowTypeOK
<1>2. OnlyCall(flow[t].line) /\ call'[flow[t].line] = Idle
  BY <1>1, ReplyEffect
<1>3. Read(flow[t].line) \/ call' = call
  BY DEF Reply
<1>4. lost' \in 0..MaxLost
  BY <1>1, FlowAssumption DEF Reply
<1> QED BY <1>2, <1>3, <1>4 DEF Released

\* Whatever the answer to a cancellation is: the job is marked, or it is gone
\* for good. Only an unknown trace may still be reserved, before the last try.
LEMMA CancelDead ==
    ASSUME FlowInv, NEW t \in Trace, flow[t].line # NoLine,
           flow[t].pc \in {"cancelling", "cancelOnce"},
           NEW answer \in Answered, Reply(flow[t].line, answer),
           answer = "unknown" => LastTry(t)
    PROVE  Dead(t)
<1> DEFINE c == flow[t].line
<1>1. TypeOK /\ FlowTypeOK /\ c \in Caller /\ LineInv(t) /\ FateInv(t)
  BY FlowShape DEF FlowInv, StoreInv, TraceInv
<1>2. call[c].pc = answer \/ (answer = "failed" /\ call[c].pc \in {"idle", "ok"})
  BY <1>1, ReplyEffect
<1>3. CASE call[c].pc = "idle"
  BY <1>1, <1>3 DEF FateInv, Dead
<1>4. CASE call[c].pc # "idle"
  <2>1. Asks(c, "cancel", t)
    BY <1>1, <1>4 DEF LineInv
  <2>2. /\ call[c].pc \in {"arrived", "save", "ok", "unknown", "failed"}
        /\ call[c].pc \in {"save", "ok", "failed"} => Marked(t)
    BY <1>1, <2>1 DEF FlowInv, CallsInv
  <2>3. CASE call[c].pc = "unknown"
    <3>1. LastTry(t)
      BY <1>2, <2>3
    <3> QED BY <1>1, <2>3, <3>1 DEF FateInv, Dead
  <2>4. CASE call[c].pc # "unknown"
    <3>1. call[c].pc \in {"ok", "failed"}
      BY <1>2, <2>2, <2>4 DEF Answered
    <3> QED BY <2>2, <3>1 DEF Dead
  <2> QED BY <2>3, <2>4
<1> QED BY <1>3, <1>4

\* A yes to an arm means that the job has its runner.
LEMMA ArmAlive ==
    ASSUME FlowInv, NEW t \in Trace, flow[t].line # NoLine,
           flow[t].pc \in {"arm", "rearm"}, Reply(flow[t].line, "ok")
    PROVE  Alive(t)
<1> DEFINE c == flow[t].line
<1>1. TypeOK /\ FlowTypeOK /\ c \in Caller /\ LineInv(t)
  BY FlowShape DEF FlowInv, StoreInv, TraceInv
<1>2. call[c].pc = "ok"
  BY <1>1, ReplyEffect DEF Answered
<1>3. Asks(c, "arm", t)
  BY <1>1, <1>2 DEF LineInv
<1> QED BY <1>1, <1>2, <1>3 DEF FlowInv, CallsInv, Alive

AnsweredStep(t) == CancelAnswered(t) \/ ArmAnswered(t) \/ CancelOnceAnswered(t)
                       \/ RearmAnswered(t)

\* The launch reads the answers of its arms and cancellations.
LEMMA AnsweredInv ==
    ASSUME FlowInv, NEW t \in Trace, AnsweredStep(t)
    PROVE  FlowInv'
<1>0. /\ FlowTypeOK /\ flow[t] \in Flow /\ StageInv(t) /\ LineInv(t) /\ FateInv(t)
      /\ KeepTable /\ desk' = desk /\ flow[t].line # NoLine
      /\ flow[t].pc \in {"arm", "rearm", "cancelling", "cancelOnce"}
      /\ flow[t].task = "none" /\ 0 \in 0..CancelTries
  BY FlowShape, FlowAssumption DEF FlowInv, TraceInv, StageInv, Ahead, AnsweredStep,
     CancelAnswered, ArmAnswered, CancelOnceAnswered, RearmAnswered
<1>1. ASSUME NEW answer \in Answered, Reply(flow[t].line, answer)
      PROVE  /\ Released(t) /\ lost' \in 0..MaxLost
             /\ Dead(t) => Dead(t)'
             /\ Alive(t) => Alive(t)'
  BY <1>0, <1>1, ReplyReleases, ReleasedFate
<1>2. CASE CancelAnswered(t)
  <2>0. flow[t].pc = "cancelling"
    BY <1>2 DEF CancelAnswered
  <2>1. PICK answer \in Answered :
          /\ Reply(flow[t].line, answer)
          /\ \/ /\ TriesAgain(t, answer)
                /\ flow' = [flow EXCEPT ![t].line = NoLine, ![t].tries = @ + 1]
             \/ /\ ~TriesAgain(t, answer)
                /\ flow' = [flow EXCEPT ![t].line = NoLine, ![t].tries = 0,
                                        ![t].pc = flow[t].next]
    BY <1>2 DEF CancelAnswered
  <2>2. /\ Released(t) /\ lost' \in 0..MaxLost
        /\ Dead(t) => Dead(t)'
        /\ Alive(t) => Alive(t)'
    BY <1>1, <2>1
  <2>3. CASE TriesAgain(t, answer)
    <3> DEFINE f == [flow[t] EXCEPT !.line = NoLine, !.tries = @ + 1]
    <3>0. flow[t].tries \in 0..CancelTries /\ flow[t].tries + 1 < CancelTries
      BY <1>0, <2>3 DEF Flow, TriesAgain
    <3>1. flow[t].tries + 1 \in 0..CancelTries
      BY <3>0, FlowAssumption
    <3>2. /\ f \in Flow /\ flow' = [flow EXCEPT ![t] = f] /\ flow'[t] = f
          /\ f.line = NoLine /\ f.taskLine = flow[t].taskLine
      BY <1>0, <2>1, <2>3, <3>1 DEF FlowTypeOK, Flow
    <3>3. StageInv(t)'
      BY <1>0, <2>0, <3>0, <3>2 DEF StageInv, Flow, Ahead
    <3>4. Aborted(t) => Aborted(t)'
      BY <1>0, <2>0, <3>2 DEF Aborted, LastTry, Flow
    <3>5. FateInv(t)'
      BY <1>0, <2>0, <2>2, <3>2 DEF FateInv, LastTry, Flow
    <3> HIDE DEF f
    <3> QED BY <1>0, <2>2, <3>2, <3>3, <3>4, <3>5, ReleaseInv
  <2>4. CASE ~TriesAgain(t, answer)
    <3> DEFINE f == [flow[t] EXCEPT !.line = NoLine, !.tries = 0, !.pc = flow[t].next]
    <3>1. /\ f \in Flow /\ flow' = [flow EXCEPT ![t] = f] /\ flow'[t] = f
          /\ f.line = NoLine /\ f.taskLine = flow[t].taskLine
      BY <1>0, <2>1, <2>4 DEF FlowTypeOK, Flow
    <3>2. answer = "unknown" => LastTry(t)
      <4>1. flow[t].tries \in Nat /\ flow[t].tries < CancelTries
        BY <1>0, <2>0 DEF Flow, StageInv
      <4> QED BY <1>0, <2>0, <2>4, <4>1, FlowAssumption DEF TriesAgain, LastTry
    <3>3. Dead(t)'
      BY <1>0, <2>0, <2>1, <2>2, <3>2, CancelDead
    <3>4. StageInv(t)'
      BY <1>0, <2>0, <3>1 DEF StageInv, Flow, Ahead
    <3>5. Aborted(t) => Aborted(t)'
      BY <1>0, <2>0, <3>1 DEF Aborted, Flow
    <3>6. FateInv(t)'
      BY <1>0, <2>0, <2>2, <3>1, <3>3 DEF FateInv, LastTry, Flow
    <3> HIDE DEF f
    <3> QED BY <1>0, <2>2, <3>1, <3>4, <3>5, <3>6, ReleaseInv
  <2> QED BY <2>3, <2>4
<1>3. CASE CancelOnceAnswered(t)
  <2>0. /\ flow[t].pc = "cancelOnce"
        /\ flow' = [flow EXCEPT ![t].line = NoLine, ![t].pc = flow[t].next]
    BY <1>3 DEF CancelOnceAnswered
  <2>1. PICK answer \in Answered : Reply(flow[t].line, answer)
    BY <1>3 DEF CancelOnceAnswered
  <2>2. /\ Released(t) /\ lost' \in 0..MaxLost
        /\ Dead(t) => Dead(t)'
        /\ Alive(t) => Alive(t)'
    BY <1>1, <2>1
  <2> DEFINE f == [flow[t] EXCEPT !.line = NoLine, !.pc = flow[t].next]
  <2>3. /\ f \in Flow /\ flow' = [flow EXCEPT ![t] = f] /\ flow'[t] = f
        /\ f.line = NoLine /\ f.taskLine = flow[t].taskLine
    BY <1>0, <2>0 DEF FlowTypeOK, Flow
  <2>4. Dead(t)'
    BY <1>0, <2>0, <2>1, <2>2, CancelDead DEF LastTry
  <2>5. StageInv(t)'
    BY <1>0, <2>0, <2>3 DEF StageInv, Flow, Ahead
  <2>6. ~Aborted(t)
    BY <2>0 DEF Aborted
  <2>7. FateInv(t)'
    BY <1>0, <2>0, <2>2, <2>3, <2>4 DEF FateInv, LastTry, Flow, StageInv
  <2> HIDE DEF f
  <2> QED BY <1>0, <2>2, <2>3, <2>5, <2>6, <2>7, ReleaseInv
<1>4. CASE ArmAnswered(t)
  <2>0. flow[t].pc = "arm"
    BY <1>4 DEF ArmAnswered
  <2>1. PICK answer \in Answered :
          /\ Reply(flow[t].line, answer)
          /\ flow' = [flow EXCEPT ![t].line = NoLine, ![t].pc = "confirm",
                                  ![t].armed = answer = "ok"]
    BY <1>4 DEF ArmAnswered
  <2>2. /\ Released(t) /\ lost' \in 0..MaxLost
        /\ Dead(t) => Dead(t)'
        /\ Alive(t) => Alive(t)'
    BY <1>1, <2>1
  <2>a. PICK a \in BOOLEAN : a <=> answer = "ok"
    OBVIOUS
  <2> DEFINE f == [flow[t] EXCEPT !.line = NoLine, !.pc = "confirm", !.armed = a]
  <2>3. /\ f \in Flow /\ flow' = [flow EXCEPT ![t] = f] /\ flow'[t] = f
        /\ f.line = NoLine /\ f.taskLine = flow[t].taskLine
    <3>1. flow' = [flow EXCEPT ![t].line = NoLine, ![t].pc = "confirm", ![t].armed = a]
      BY <2>1, <2>a
    <3> QED BY <1>0, <3>1 DEF FlowTypeOK, Flow, Stage
  <2>4. a => Alive(t)'
    BY <1>0, <2>0, <2>1, <2>2, <2>a, ArmAlive
  <2>5. StageInv(t)'
    BY <1>0, <2>0, <2>3 DEF StageInv, Flow, Ahead
  <2>6. ~Aborted(t)
    BY <2>0 DEF Aborted
  <2>7. FateInv(t)'
    <3>1. /\ flow'[t].line = NoLine /\ flow'[t].pc = "confirm"
          /\ flow'[t].armed = a /\ flow'[t].reserved = flow[t].reserved
      <4>1. flow[t] \in Flow /\ flow'[t] = f
        BY <1>0, <2>3
      <4> QED BY <4>1 DEF Flow
    <3>2. flow[t].reserved
      BY <1>0, <2>0 DEF StageInv
    <3> QED BY <2>4, <3>1, <3>2 DEF FateInv, LastTry
  <2> HIDE DEF f
  <2> QED BY <1>0, <2>2, <2>3, <2>5, <2>6, <2>7, ReleaseInv
<1>5. CASE RearmAnswered(t)
  <2>0. flow[t].pc = "rearm"
    BY <1>5 DEF RearmAnswered
  <2>1. PICK answer \in Answered :
          Reply(flow[t].line, answer) /\ flow' = AfterRearm(t, answer = "ok")
    BY <1>5 DEF RearmAnswered
  <2>2. /\ Released(t) /\ lost' \in 0..MaxLost
        /\ Dead(t) => Dead(t)'
        /\ Alive(t) => Alive(t)'
    BY <1>1, <2>1
  <2>3. CASE answer = "ok" \/ flow[t].armed
    <3> DEFINE f == [flow[t] EXCEPT !.line = NoLine, !.pc = "late", !.armed = TRUE]
    <3>1. /\ f \in Flow /\ flow' = [flow EXCEPT ![t] = f] /\ flow'[t] = f
          /\ f.line = NoLine /\ f.taskLine = flow[t].taskLine
      BY <1>0, <2>1, <2>3 DEF AfterRearm, FlowTypeOK, Flow, Stage
    <3>2. Alive(t)'
      BY <1>0, <2>0, <2>1, <2>2, <2>3, ArmAlive DEF FateInv
    <3>3. StageInv(t)'
      BY <1>0, <2>0, <3>1 DEF StageInv, Flow, Ahead
    <3>4. ~Aborted(t)
      BY <2>0 DEF Aborted
    <3>5. FateInv(t)'
      <4>1. /\ flow'[t].line = NoLine /\ flow'[t].pc = "late"
            /\ flow'[t].armed /\ flow'[t].refuted = flow[t].refuted
        <5>1. flow[t] \in Flow /\ flow'[t] = f
          BY <1>0, <3>1
        <5> QED BY <5>1 DEF Flow
      <4>2. ~flow[t].refuted
        BY <1>0, <2>0 DEF StageInv
      <4> QED BY <3>2, <4>1, <4>2 DEF FateInv, LastTry
    <3> HIDE DEF f
    <3> QED BY <1>0, <2>2, <3>1, <3>3, <3>4, <3>5, ReleaseInv
  <2>4. CASE ~(answer = "ok" \/ flow[t].armed)
    <3> DEFINE f == [flow[t] EXCEPT !.pc = "cancelling", !.tries = 0, !.next = "late",
                                    !.line = NoLine]
    <3>1. /\ f \in Flow /\ flow' = [flow EXCEPT ![t] = f] /\ flow'[t] = f
          /\ f.line = NoLine /\ f.taskLine = flow[t].taskLine
      BY <1>0, <2>1, <2>4 DEF AfterRearm, ToCancel, FlowTypeOK, Flow, Stage
    <3>2. StageInv(t)'
      BY <1>0, <2>0, <2>4, <3>1, FlowAssumption DEF StageInv, Flow, Ahead
    <3>3. ~Aborted(t)
      BY <2>0 DEF Aborted
    <3>4. FateInv(t)'
      <4>1. /\ flow'[t].line = NoLine /\ flow'[t].pc = "cancelling"
            /\ flow'[t].armed = flow[t].armed
        <5>1. flow[t] \in Flow /\ flow'[t] = f
          BY <1>0, <3>1
        <5> QED BY <5>1 DEF Flow
      <4> QED BY <2>4, <4>1 DEF FateInv, LastTry
    <3> HIDE DEF f
    <3> QED BY <1>0, <2>2, <3>1, <3>2, <3>3, <3>4, ReleaseInv
  <2> QED BY <2>3, <2>4
<1> QED BY <1>2, <1>3, <1>4, <1>5 DEF AnsweredStep

\* A request of the launch goes out on a free connection.
LEMMA AskInv ==
    ASSUME FlowInv, NEW t \in Trace, KeepTable, lost' = lost, desk' = desk,
           flow[t].line = NoLine,
           flow[t].pc \in {"arm", "rearm", "cancelling", "cancelOnce"},
           flow[t].pc = "cancelling" /\ flow[t].tries + 1 = CancelTries => Noticed(t),
           NEW r \in Request,
           r.op = IF flow[t].pc \in {"arm", "rearm"} THEN "arm" ELSE "cancel",
           r.trace = t,
           NEW c \in Caller, Free(c), Ask(c, r),
           flow' = [flow EXCEPT ![t].line = c]
    PROVE  FlowInv'
<1> DEFINE f == [flow[t] EXCEPT !.line = c]
<1>0. /\ FlowTypeOK /\ flow[t] \in Flow /\ TypeOK /\ CallsInv
      /\ StageInv(t) /\ LineInv(t) /\ FateInv(t)
      /\ lost' \in 0..MaxLost /\ desk' \in 0..MaxDesk /\ c # NoLine
  BY FlowShape, FlowAssumption DEF FlowInv, FlowTypeOK, StoreInv, TraceInv
<1>1. /\ OnlyCall(c) /\ up /\ call[c].pc = "idle"
      /\ call'[c].pc = "arrived" /\ call'[c].request = r /\ call'[c].heard
  BY <1>0, AskEffect
<1>2. f \in Flow /\ flow' = [flow EXCEPT ![t] = f]
  BY <1>0 DEF Flow
<1>3. FlowTypeOK' /\ flow'[t] = f /\ \A u \in Trace \ {t} : flow'[u] = flow[u]
  BY <1>0, <1>2, FlowTypeKept
<1>4. /\ flow'[t].line = c /\ flow'[t].taskLine = flow[t].taskLine
      /\ flow'[t].pc = flow[t].pc /\ flow'[t].tries = flow[t].tries
      /\ flow'[t].next = flow[t].next /\ flow'[t].armed = flow[t].armed
      /\ flow'[t].task = flow[t].task /\ flow'[t].reserved = flow[t].reserved
      /\ flow'[t].refuted = flow[t].refuted
  <2>1. flow[t] \in Flow /\ flow'[t] = f
    BY <1>0, <1>3
  <2> QED BY <2>1 DEF Flow
<1> HIDE DEF f
<1>5. StoreInv'
  BY ClientStepInv DEF FlowInv
<1>6. CallsInv'
  BY <1>0, <1>1, ClientCalls
<1>7. OwnLines'
  <2>1. flow'[t].line # flow'[t].taskLine
    BY <1>4, FreeLine
  <2> QED BY <1>3, <1>4, <2>1, OwnLinesKept DEF FlowInv
<1>8. \A d \in Caller, o \in {"arm", "reserve", "cancel"}, u \in Trace :
        Asks(d, o, u)' => \/ Asks(d, o, u) /\ call'[d] = call[d] /\ d # c
                          \/ d = c /\ o = r.op /\ u = t
  BY <1>1 DEF Asks, OnlyCall
<1>9. r.op # "reserve" /\ Asks(c, r.op, t)'
  BY <1>1 DEF Asks
<1>10. StageInv(t)'
  BY <1>0, <1>4 DEF StageInv
<1>11. LineInv(t)'
  <2>1. \A d \in Caller : Asks(d, "arm", t)' => d = c
    BY <1>0, <1>8, FlowAssumption DEF LineInv
  <2>2. ASSUME NEW d \in Caller, Asks(d, "reserve", t)'
        PROVE  flow[t].taskLine = d \/ (~call'[d].heard /\ Aborted(t)')
    <3>1. Asks(d, "reserve", t) /\ call'[d] = call[d]
      BY <1>8, <1>9, <2>2
    <3>2. flow[t].taskLine = NoLine
      BY <1>0 DEF StageInv, Ahead
    <3>3. ~call[d].heard /\ Aborted(t)
      BY <1>0, <3>1, <3>2, FlowAssumption DEF LineInv
    <3>4. flow[t].pc = "cancelling" /\ flow[t].next = "failed"
      BY <3>3 DEF Aborted
    <3>5. ~Noticed(t)
      BY <3>1, <3>3, IdleShape DEF Noticed, Asks
    <3>6. Aborted(t)'
      BY <1>4, <3>4, <3>5 DEF Aborted, LastTry
    <3> QED BY <3>1, <3>3, <3>6
  <2>3. call'[c].heard /\ Asks(c, IF flow[t].pc \in {"arm", "rearm"} THEN "arm" ELSE "cancel", t)'
    BY <1>1, <1>9
  <2> QED BY <1>4, <2>1, <2>2, <2>3 DEF LineInv
<1>12. UNCHANGED <<jobs, runner>>
  BY DEF KeepTable
<1>13. Alive(t) => Alive(t)'
  <2>1. NoReserve(t) => NoReserve(t)'
    BY <1>8, <1>9 DEF NoReserve
  <2> QED BY <1>12, <2>1 DEF Alive, Gone, Run
<1>14. FateInv(t)'
  BY <1>0, <1>1, <1>4, <1>13 DEF FateInv
<1>15. ASSUME NEW u \in Trace \ {t}
       PROVE  /\ flow[u].line # c /\ flow[u].taskLine # c
              /\ ~Asks(c, "reserve", u)' /\ ~Asks(c, "arm", u)'
  BY <1>8, FreeLine
<1> QED BY <1>1, <1>3, <1>5, <1>6, <1>7, <1>10, <1>11, <1>14, <1>15, CallStepInv DEF TraceInv

AskingStep(t) == CancelAsks(t) \/ ArmAsks(t) \/ CancelOnceAsks(t) \/ RearmAsks(t)

\* The requests of a launch are about its own trace.
LEMMA RequestsTyped ==
    ASSUME NEW t \in Trace
    PROVE  /\ CancelRequest(t) \in Request /\ CancelRequest(t).op = "cancel"
           /\ CancelRequest(t).trace = t
           /\ \A l \in Launch : /\ ArmRequest(t, l) \in Request
                                /\ ArmRequest(t, l).op = "arm"
                                /\ ArmRequest(t, l).trace = t
BY DEF CancelRequest, ArmRequest, Request

\* When the daemon is down the request is refused, and there is nothing left
\* that it could have changed.
LEMMA AskingInv ==
    ASSUME FlowInv, NEW t \in Trace, AskingStep(t)
    PROVE  FlowInv'
<1>0. /\ FlowTypeOK /\ flow[t] \in Flow /\ CallsInv /\ StageInv(t) /\ FateInv(t)
      /\ KeepTable /\ lost' = lost /\ desk' = desk
      /\ lost' \in 0..MaxLost
      /\ flow[t].line = NoLine
      /\ flow[t].pc \in {"arm", "rearm", "cancelling", "cancelOnce"}
  BY FlowShape DEF FlowInv, FlowTypeOK, TraceInv, AskingStep,
     CancelAsks, ArmAsks, CancelOnceAsks, RearmAsks, Send
<1>1. ASSUME ~up, call' = call,
             NEW f \in Flow, flow' = [flow EXCEPT ![t] = f],
             f.line = NoLine, f.taskLine = flow[t].taskLine,
             Aborted(t) => Aborted(t)', StageInv(t)',
             f.pc \in {"late", "done", "failed", "confirm", "cancelling"}
      PROVE  FlowInv'
  <2>1. Released(t)
    BY <1>0, <1>1 DEF Released
  <2>2. Gone(t)'
    BY <1>0, <1>1, <2>1, DownGone, ReleasedFate
  <2>3. flow'[t] = f
    BY <1>0, <1>1 DEF FlowTypeOK
  <2>4. FateInv(t)'
    BY <1>1, <2>2, <2>3 DEF FateInv, Dead, Alive, LastTry
  <2> QED BY <1>0, <1>1, <2>1, <2>4, ReleaseInv
<1>2. CASE CancelAsks(t)
  <2>0. flow[t].pc = "cancelling" /\ (flow[t].tries + 1 = CancelTries => Noticed(t))
    BY <1>2 DEF CancelAsks
  <2>1. CASE \E c \in Caller : /\ Free(c) /\ Ask(c, CancelRequest(t))
                               /\ flow' = [flow EXCEPT ![t].line = c]
    BY <1>0, <2>0, <2>1, RequestsTyped, AskInv
  <2>2. CASE ~up /\ flow' = [flow EXCEPT ![t].pc = flow[t].next] /\ call' = call
    <3> DEFINE f == [flow[t] EXCEPT !.pc = flow[t].next]
    <3>1. /\ f \in Flow /\ flow' = [flow EXCEPT ![t] = f] /\ flow'[t] = f
          /\ f.line = NoLine /\ f.taskLine = flow[t].taskLine
          /\ f.pc = flow[t].next
      BY <1>0, <2>2 DEF FlowTypeOK, Flow
    <3>2. StageInv(t)'
      BY <1>0, <2>0, <3>1 DEF StageInv, Flow, Ahead
    <3>3. Aborted(t) => Aborted(t)'
      BY <1>0, <2>0, <3>1 DEF Aborted, Flow
    <3>4. f.pc \in {"failed", "confirm", "late"}
      BY <1>0, <2>0, <3>1 DEF StageInv
    <3> HIDE DEF f
    <3> QED BY <1>1, <2>2, <3>1, <3>2, <3>3, <3>4
  <2> QED BY <1>2, <2>1, <2>2 DEF CancelAsks, Send
<1>3. CASE CancelOnceAsks(t)
  <2>0. flow[t].pc = "cancelOnce"
    BY <1>3 DEF CancelOnceAsks
  <2>1. CASE \E c \in Caller : /\ Free(c) /\ Ask(c, CancelRequest(t))
                               /\ flow' = [flow EXCEPT ![t].line = c]
    BY <1>0, <2>0, <2>1, RequestsTyped, AskInv
  <2>2. CASE ~up /\ flow' = [flow EXCEPT ![t].pc = flow[t].next] /\ call' = call
    <3> DEFINE f == [flow[t] EXCEPT !.pc = flow[t].next]
    <3>1. /\ f \in Flow /\ flow' = [flow EXCEPT ![t] = f] /\ flow'[t] = f
          /\ f.line = NoLine /\ f.taskLine = flow[t].taskLine
          /\ f.pc = flow[t].next
      BY <1>0, <2>2 DEF FlowTypeOK, Flow
    <3>2. StageInv(t)'
      BY <1>0, <2>0, <3>1 DEF StageInv, Flow, Ahead
    <3>3. ~Aborted(t)
      BY <2>0 DEF Aborted
    <3>4. f.pc \in {"late", "done"}
      BY <1>0, <2>0, <3>1 DEF StageInv
    <3> HIDE DEF f
    <3> QED BY <1>1, <2>2, <3>1, <3>2, <3>3, <3>4
  <2> QED BY <1>3, <2>1, <2>2 DEF CancelOnceAsks, Send
<1>4. CASE ArmAsks(t)
  <2>0. flow[t].pc = "arm"
    BY <1>4 DEF ArmAsks
  <2>1. CASE \E l \in Launch, c \in Caller :
               /\ Free(c) /\ Ask(c, ArmRequest(t, l))
               /\ flow' = [flow EXCEPT ![t].line = c]
    BY <1>0, <2>0, <2>1, RequestsTyped, AskInv
  <2>2. CASE ~up /\ flow' = [flow EXCEPT ![t].pc = "confirm"] /\ call' = call
    <3> DEFINE f == [flow[t] EXCEPT !.pc = "confirm"]
    <3>1. /\ f \in Flow /\ flow' = [flow EXCEPT ![t] = f] /\ flow'[t] = f
          /\ f.line = NoLine /\ f.taskLine = flow[t].taskLine
          /\ f.pc = "confirm"
      BY <1>0, <2>2 DEF FlowTypeOK, Flow, Stage
    <3>2. StageInv(t)'
      BY <1>0, <2>0, <3>1 DEF StageInv, Flow, Ahead
    <3>3. ~Aborted(t)
      BY <2>0 DEF Aborted
    <3> HIDE DEF f
    <3> QED BY <1>1, <2>2, <3>1, <3>2, <3>3
  <2> QED BY <1>4, <2>1, <2>2 DEF ArmAsks, Send
<1>5. CASE RearmAsks(t)
  <2>0. flow[t].pc = "rearm"
    BY <1>5 DEF RearmAsks
  <2>1. CASE \E l \in Launch, c \in Caller :
               /\ Free(c) /\ Ask(c, ArmRequest(t, l))
               /\ flow' = [flow EXCEPT ![t].line = c]
    BY <1>0, <2>0, <2>1, RequestsTyped, AskInv
  <2>2. CASE ~up /\ flow' = AfterRearm(t, FALSE) /\ call' = call
    <3>1. CASE flow[t].armed
      <4> DEFINE f == [flow[t] EXCEPT !.line = NoLine, !.pc = "late", !.armed = TRUE]
      <4>1. /\ f \in Flow /\ flow' = [flow EXCEPT ![t] = f] /\ flow'[t] = f
            /\ f.line = NoLine /\ f.taskLine = flow[t].taskLine
            /\ f.pc = "late"
        BY <1>0, <2>2, <3>1 DEF AfterRearm, FlowTypeOK, Flow, Stage
      <4>2. StageInv(t)'
        BY <1>0, <2>0, <4>1 DEF StageInv, Flow, Ahead
      <4>3. ~Aborted(t)
        BY <2>0 DEF Aborted
      <4> HIDE DEF f
      <4> QED BY <1>1, <2>2, <4>1, <4>2, <4>3
    <3>2. CASE ~flow[t].armed
      <4> DEFINE f == [flow[t] EXCEPT !.pc = "cancelling", !.tries = 0, !.next = "late",
                                      !.line = NoLine]
      <4>0. 0 \in 0..CancelTries /\ 0 < CancelTries
        BY FlowAssumption
      <4>1. /\ f \in Flow /\ flow' = [flow EXCEPT ![t] = f] /\ flow'[t] = f
            /\ f.line = NoLine /\ f.taskLine = flow[t].taskLine
            /\ f.pc = "cancelling"
        BY <1>0, <2>2, <3>2, <4>0 DEF AfterRearm, ToCancel, FlowTypeOK, Flow, Stage
      <4>2. StageInv(t)'
        BY <1>0, <2>0, <4>0, <4>1 DEF StageInv, Flow, Ahead
      <4>3. ~Aborted(t)
        BY <2>0 DEF Aborted
      <4> HIDE DEF f
      <4> QED BY <1>1, <2>2, <4>1, <4>2, <4>3
    <3> QED BY <3>1, <3>2
  <2> QED BY <1>5, <2>1, <2>2 DEF RearmAsks, Send
<1> QED BY <1>2, <1>3, <1>4, <1>5 DEF AskingStep

-----------------------------------------------------------------------------
(* Steps of the reservation task, and its end before its answer *)

\* While the task is under way the launch has no other line.
LEMMA TaskStageShape ==
    ASSUME FlowInv, NEW t \in Trace, flow[t].pc \in Ahead
    PROVE  /\ flow[t].line = NoLine /\ ~flow[t].armed /\ ~Aborted(t)
           /\ \A c \in Caller : ~Asks(c, "arm", t)
           /\ \A c \in Caller : Asks(c, "reserve", t) => flow[t].taskLine = c
<1>1. StageInv(t) /\ LineInv(t)
  BY DEF FlowInv, TraceInv
<1>2. flow[t].line = NoLine /\ ~flow[t].armed /\ ~Aborted(t)
  BY <1>1 DEF StageInv, Ahead, Aborted
<1> QED BY <1>1, <1>2, FlowAssumption DEF LineInv

\* The reservation task asks for the reservation.
LEMMA TaskAsksInv ==
    ASSUME FlowInv, NEW t \in Trace, TaskAsks(t)
    PROVE  FlowInv'
<1>0. /\ FlowTypeOK /\ flow[t] \in Flow /\ TypeOK /\ CallsInv /\ StageInv(t)
      /\ KeepTable /\ lost' \in 0..MaxLost /\ desk' \in 0..MaxDesk
      /\ flow[t].task = "spawned"
  BY FlowShape DEF FlowInv, FlowTypeOK, StoreInv, TraceInv, TaskAsks
<1>1. flow[t].pc \in Ahead /\ flow[t].taskLine = NoLine
  BY <1>0 DEF StageInv
<1>2. /\ flow[t].line = NoLine /\ ~flow[t].armed
      /\ \A c \in Caller : ~Asks(c, "arm", t)
      /\ \A c \in Caller : ~Asks(c, "reserve", t)
  BY <1>1, TaskStageShape, FlowAssumption
<1>3. CASE \E c \in Caller, p \in Payload :
             /\ Free(c)
             /\ Ask(c, [op |-> "reserve", trace |-> t, item |-> p])
             /\ flow' = [flow EXCEPT ![t].task = "asked", ![t].taskLine = c]
  <2>1. PICK c \in Caller, p \in Payload :
             /\ Free(c)
             /\ Ask(c, [op |-> "reserve", trace |-> t, item |-> p])
             /\ flow' = [flow EXCEPT ![t].task = "asked", ![t].taskLine = c]
    BY <1>3
  <2> DEFINE r == [op |-> "reserve", trace |-> t, item |-> p]
             f == [flow[t] EXCEPT !.task = "asked", !.taskLine = c]
  <2>2. r \in Request /\ r.op = "reserve" /\ r.trace = t /\ c # NoLine
    BY FlowAssumption DEF Request
  <2>3. /\ OnlyCall(c) /\ up /\ call[c].pc = "idle"
        /\ call'[c].pc = "arrived" /\ call'[c].request = r /\ call'[c].heard
    BY <1>0, <2>1, AskEffect
  <2>4. /\ f \in Flow /\ flow' = [flow EXCEPT ![t] = f]
        /\ f.line = flow[t].line /\ f.taskLine = c /\ f.task = "asked"
        /\ f.pc = flow[t].pc /\ f.armed = flow[t].armed
    BY <1>0, <2>1 DEF Flow, TaskStage
  <2>5. FlowTypeOK' /\ flow'[t] = f /\ \A u \in Trace \ {t} : flow'[u] = flow[u]
    BY <1>0, <2>4, FlowTypeKept
  <2>6. StageInv(t)'
    BY <1>0, <1>1, <1>2, <2>2, <2>5 DEF StageInv, Flow, Ahead
  <2> HIDE DEF f, r
  <2>7. StoreInv'
    BY <1>0, <2>1, <2>2, ClientStepInv DEF FlowInv, r
  <2>8. CallsInv'
    BY <1>0, <2>3, ClientCalls
  <2>9. OwnLines'
    BY <1>2, <2>1, <2>4, <2>5, OwnLinesKept DEF FlowInv
  <2>10. \A d \in Caller, o \in {"arm", "reserve"}, u \in Trace :
           Asks(d, o, u)' => \/ Asks(d, o, u) /\ d # c
                             \/ d = c /\ o = "reserve" /\ u = t
    BY <2>2, <2>3 DEF Asks, OnlyCall
  <2>11. LineInv(t)'
    BY <1>2, <2>4, <2>5, <2>10 DEF LineInv
  <2>12. FateInv(t)'
    BY <1>1, <1>2, <2>4, <2>5 DEF FateInv, LastTry, Ahead
  <2>13. ASSUME NEW u \in Trace \ {t}
         PROVE  /\ flow[u].line # c /\ flow[u].taskLine # c
                /\ ~Asks(c, "reserve", u)' /\ ~Asks(c, "arm", u)'
    BY <2>1, <2>10, FreeLine
  <2> QED BY <1>0, <2>3, <2>5, <2>6, <2>7, <2>8, <2>9, <2>11, <2>12, <2>13, CallStepInv
          DEF TraceInv
<1>4. CASE ~up /\ flow' = [flow EXCEPT ![t].task = "no"] /\ call' = call
  <2> DEFINE f == [flow[t] EXCEPT !.task = "no"]
  <2>1. /\ f \in Flow /\ flow' = [flow EXCEPT ![t] = f]
        /\ f.line = flow[t].line /\ f.taskLine = NoLine
        /\ f.pc = flow[t].pc /\ f.armed = flow[t].armed
    BY <1>0, <1>1, <1>4 DEF Flow, TaskStage
  <2>2. FlowTypeOK' /\ flow'[t] = f /\ \A u \in Trace \ {t} : flow'[u] = flow[u]
    BY <1>0, <2>1, FlowTypeKept
  <2>3. StageInv(t)'
    BY <1>0, <1>1, <1>2, <2>2 DEF StageInv, Flow, Ahead
  <2> HIDE DEF f
  <2>4. OwnLines'
    BY <1>2, <2>1, <2>2, OwnLinesKept DEF FlowInv
  <2>5. \A d \in Caller, o \in {"arm", "reserve"} : Asks(d, o, t)' => Asks(d, o, t)
    BY <1>4 DEF Asks
  <2>6. LineInv(t)'
    BY <1>2, <2>1, <2>2, <2>5 DEF LineInv
  <2>7. FateInv(t)'
    BY <1>1, <1>2, <2>1, <2>2 DEF FateInv, LastTry, Ahead
  <2> QED BY <1>0, <1>4, <2>2, <2>3, <2>4, <2>6, <2>7, SameCallStepInv DEF TraceInv
<1> QED BY <1>3, <1>4 DEF TaskAsks

\* The reservation task reads its answer.
LEMMA TaskAnsweredInv ==
    ASSUME FlowInv, NEW t \in Trace, TaskAnswered(t)
    PROVE  FlowInv'
<1>0. /\ FlowTypeOK /\ flow[t] \in Flow /\ TypeOK /\ CallsInv /\ StageInv(t)
      /\ KeepTable /\ lost \in 0..MaxLost /\ desk' \in 0..MaxDesk
      /\ flow[t].task = "asked"
  BY FlowShape DEF FlowInv, FlowTypeOK, StoreInv, TraceInv, TaskAnswered
<1>1. flow[t].pc \in Ahead /\ flow[t].taskLine # NoLine
  BY <1>0 DEF StageInv
<1>2. PICK c \in Caller : c = flow[t].taskLine
  BY <1>0, <1>1, FlowShape
<1>3. /\ flow[t].line = NoLine /\ ~flow[t].armed
      /\ \A d \in Caller : ~Asks(d, "arm", t)
      /\ \A d \in Caller : Asks(d, "reserve", t) => d = c
  BY <1>1, <1>2, TaskStageShape
<1>4. PICK answer \in Answered, y \in {"yes", "no"} :
        /\ Reply(c, answer)
        /\ flow' = [flow EXCEPT ![t].task = y, ![t].taskLine = NoLine]
  BY <1>2 DEF TaskAnswered
<1>5. OnlyCall(c) /\ call'[c] = Idle
  BY <1>0, <1>4, ReplyEffect
<1>6. lost' \in 0..MaxLost /\ (Read(c) \/ call' = call)
  BY <1>0, <1>4, FlowAssumption DEF Reply
<1> DEFINE f == [flow[t] EXCEPT !.task = y, !.taskLine = NoLine]
<1>7. /\ f \in Flow /\ flow' = [flow EXCEPT ![t] = f]
      /\ f.line = flow[t].line /\ f.taskLine = NoLine
      /\ f.pc = flow[t].pc /\ f.armed = flow[t].armed
  BY <1>0, <1>4 DEF Flow, TaskStage
<1>8. FlowTypeOK' /\ flow'[t] = f /\ \A u \in Trace \ {t} : flow'[u] = flow[u]
  BY <1>0, <1>6, <1>7, FlowTypeKept
<1>9. StageInv(t)'
  BY <1>0, <1>1, <1>3, <1>8 DEF StageInv, Flow, Ahead
<1> HIDE DEF f
<1>10. StoreInv'
  BY <1>0, <1>6, ClientStepInv, SameStoreInv DEF FlowInv
<1>11. CallsInv'
  BY <1>0, <1>5, ClientCalls
<1>12. OwnLines'
  BY <1>3, <1>7, <1>8, OwnLinesKept DEF FlowInv
<1>13. \A d \in Caller, o \in {"arm", "reserve"}, u \in Trace :
         Asks(d, o, u)' => Asks(d, o, u) /\ d # c
  BY <1>5, IdleShape DEF Asks, OnlyCall
<1>14. LineInv(t)'
  BY <1>3, <1>7, <1>8, <1>13 DEF LineInv
<1>15. FateInv(t)'
  BY <1>1, <1>3, <1>7, <1>8 DEF FateInv, LastTry, Ahead
<1>16. ASSUME NEW u \in Trace \ {t}
       PROVE  /\ flow[u].line # c /\ flow[u].taskLine # c
              /\ ~Asks(c, "reserve", u)' /\ ~Asks(c, "arm", u)'
  <2>1. flow[u].line # c /\ flow[u].taskLine # c
    BY <1>1, <1>2 DEF FlowInv, OwnLines
  <2> QED BY <1>13, <2>1
<1> QED BY <1>0, <1>5, <1>8, <1>9, <1>10, <1>11, <1>12, <1>14, <1>15, <1>16, CallStepInv
        DEF TraceInv

\* The task is aborted: its request, if it had one, is left on a line of its own.
LEMMA AbortInv ==
    ASSUME FlowInv, NEW t \in Trace, Abort(t)
    PROVE  FlowInv'
<1>0. /\ FlowTypeOK /\ flow[t] \in Flow /\ TypeOK /\ CallsInv /\ StageInv(t)
      /\ KeepTable /\ lost' \in 0..MaxLost /\ desk' \in 0..MaxDesk
      /\ flow[t].pc = "abort" /\ flow[t].pc \in Ahead
      /\ 0 \in 0..CancelTries /\ 0 < CancelTries
  BY FlowShape, FlowAssumption DEF FlowInv, FlowTypeOK, StoreInv, TraceInv, Abort, Ahead
<1>1. /\ flow[t].line = NoLine /\ ~flow[t].armed
      /\ \A d \in Caller : ~Asks(d, "arm", t)
      /\ \A d \in Caller : Asks(d, "reserve", t) => flow[t].taskLine = d
  BY <1>0, TaskStageShape
<1> DEFINE f == [flow[t] EXCEPT !.pc = "cancelling", !.tries = 0, !.next = "failed",
                                !.line = NoLine, !.task = "none", !.taskLine = NoLine]
<1>2. /\ f \in Flow /\ flow' = [flow EXCEPT ![t] = f]
      /\ f.line = NoLine /\ f.taskLine = NoLine
      /\ f.pc = "cancelling" /\ f.next = "failed" /\ f.armed = flow[t].armed
  BY <1>0 DEF Abort, ToCancel, Flow, FlowTypeOK, TaskStage, Stage
<1>3. FlowTypeOK' /\ flow'[t] = f /\ \A u \in Trace \ {t} : flow'[u] = flow[u]
  BY <1>0, <1>2, FlowTypeKept
<1>4. StageInv(t)'
  <2>1. flow[t] \in Flow /\ flow'[t] = f /\ StageInv(t) /\ flow[t].pc = "abort" /\ 0 < CancelTries
    BY <1>0, <1>3
  <2> QED BY <2>1 DEF StageInv, Flow, Ahead
<1> HIDE DEF f
<1>5. OwnLines'
  BY <1>2, <1>3, OwnLinesKept DEF FlowInv
<1>6. Aborted(t)' /\ FateInv(t)'
  BY <1>1, <1>2, <1>3 DEF Aborted, FateInv, LastTry
<1>7. CASE flow[t].task = "asked"
  <2>1. PICK c \in Caller : c = flow[t].taskLine
    BY <1>0, <1>7, FlowShape DEF StageInv
  <2>2. /\ OnlyCall(c) /\ call[c].heard
        /\ call[c].pc # "idle" /\ call'[c].pc = call[c].pc
        /\ call'[c].request = call[c].request /\ ~call'[c].heard
    BY <1>0, <1>7, <2>1, HangUpEffect DEF Abort, HangUp
  <2>3. StoreInv'
    BY <1>0, <1>7, <2>1, ClientStepInv DEF Abort, FlowInv
  <2>4. CallsInv'
    BY <1>0, <2>2, ClientCalls
  <2>5. \A d \in Caller, o \in {"arm", "reserve"}, u \in Trace :
          Asks(d, o, u)' => Asks(d, o, u)
    BY <2>2 DEF Asks, OnlyCall
  <2>6. LineInv(t)'
    BY <1>1, <1>2, <1>3, <1>6, <2>1, <2>2, <2>5 DEF LineInv
  <2>7. ASSUME NEW u \in Trace \ {t}
        PROVE  /\ flow[u].line # c /\ flow[u].taskLine # c
               /\ ~Asks(c, "reserve", u)' /\ ~Asks(c, "arm", u)'
    <3>1. flow[u].line # c /\ flow[u].taskLine # c
      BY <2>1, FlowAssumption DEF FlowInv, OwnLines
    <3>2. LineInv(u)
      BY DEF FlowInv, TraceInv
    <3> QED BY <2>2, <2>5, <3>1, <3>2 DEF LineInv
  <2> QED BY <1>0, <1>3, <1>4, <1>5, <1>6, <2>2, <2>3, <2>4, <2>6, <2>7, CallStepInv
          DEF TraceInv
<1>8. CASE flow[t].task # "asked"
  <2>1. call' = call /\ flow[t].taskLine = NoLine
    BY <1>0, <1>8 DEF Abort, StageInv
  <2>2. \A d \in Caller, o \in {"arm", "reserve"} : Asks(d, o, t)' => Asks(d, o, t)
    BY <2>1 DEF Asks
  <2>3. LineInv(t)'
    BY <1>1, <1>2, <1>3, <2>1, <2>2, FlowAssumption DEF LineInv
  <2> QED BY <1>0, <1>3, <1>4, <1>5, <1>6, <2>1, <2>3, SameCallStepInv DEF TraceInv
<1> QED BY <1>7, <1>8

-----------------------------------------------------------------------------
(* The Jobs window and the daemon *)

\* The user at the Jobs window.
LEMMA DeskInv ==
    ASSUME FlowInv, DeskAsks \/ DeskReads
    PROVE  FlowInv'
<1>0. /\ FlowTypeOK /\ TypeOK /\ CallsInv /\ KeepTable /\ flow' = flow /\ lost' = lost
      /\ UNCHANGED <<jobs, runner>>
  BY DEF FlowInv, StoreInv, DeskAsks, DeskReads, flowVars, KeepTable
<1>1. FlowTypeOK'
  <2>1. desk' \in 0..MaxDesk
    BY <1>0, FlowAssumption DEF FlowTypeOK, DeskAsks, DeskReads, flowVars
  <2> QED BY <1>0, <2>1 DEF FlowTypeOK
<1>2. OwnLines'
  BY <1>0 DEF FlowInv, OwnLines
<1>3. ASSUME NEW c \in Caller, Free(c), OnlyCall(c), StoreInv', CallsInv',
             \A u \in Trace : ~Asks(c, "reserve", u)' /\ ~Asks(c, "arm", u)'
      PROVE  FlowInv'
  <2>1. ASSUME NEW u \in Trace PROVE TraceInv(u)'
    BY <1>0, <1>3, FreeLine, OtherTrace DEF OnlyCall
  <2> QED BY <1>1, <1>2, <1>3, <2>1 DEF FlowInv
<1>4. CASE DeskAsks
  <2>1. PICK c \in Caller, r \in {[op |-> "stopAll"]} \union {CancelRequest(t) : t \in Trace} :
          Free(c) /\ Ask(c, r)
    BY <1>4 DEF DeskAsks
  <2>2. r \in Request /\ r.op \in {"stopAll", "cancel"}
    BY RequestsTyped DEF Request
  <2>3. /\ OnlyCall(c) /\ up
        /\ call'[c].pc = "arrived" /\ call'[c].request = r
    BY <1>0, <2>1, AskEffect
  <2>4. StoreInv' /\ CallsInv'
    BY <1>0, <2>1, <2>2, <2>3, ClientStepInv, ClientCalls DEF FlowInv
  <2>5. \A u \in Trace : ~Asks(c, "reserve", u)' /\ ~Asks(c, "arm", u)'
    BY <2>2, <2>3 DEF Asks
  <2> QED BY <1>3, <2>1, <2>3, <2>4, <2>5
<1>5. CASE DeskReads
  <2>1. PICK c \in Caller : Free(c) /\ Read(c)
    BY <1>5 DEF DeskReads
  <2>2. OnlyCall(c) /\ call'[c] = Idle
    BY <1>0, <2>1, ReadEffect
  <2>3. StoreInv' /\ CallsInv'
    BY <1>0, <2>1, <2>2, ClientStepInv, ClientCalls DEF FlowInv
  <2>4. \A u \in Trace : ~Asks(c, "reserve", u)' /\ ~Asks(c, "arm", u)'
    BY <2>2, IdleShape DEF Asks
  <2> QED BY <1>3, <2>1, <2>2, <2>3, <2>4
<1> QED BY <1>4, <1>5

\* The daemon, also as it ends and starts.
LEMMA DaemonInv ==
    ASSUME FlowInv, DaemonStep, UNCHANGED flowVars
    PROVE  FlowInv'
<1>1. StoreInv'
  BY StepInv DEF FlowInv, StoreNext
<1>2. (CutOff \/ Carried) /\ CallsInv'
  BY <1>1, DaemonEffect DEF FlowInv, StoreInv
<1>3. flow' = flow /\ lost' = lost /\ desk' = desk
  BY DEF flowVars
<1>4. FlowTypeOK' /\ OwnLines'
  BY <1>3 DEF FlowInv, FlowTypeOK, OwnLines
<1>5. \A t \in Trace : TraceInv(t)'
  BY <1>2, <1>3, DaemonTrace
<1> QED BY <1>1, <1>2, <1>4, <1>5 DEF FlowInv

-----------------------------------------------------------------------------
(* The theorems *)

\* No launch has begun, no line is taken.
LEMMA FlowInitInv == FlowInit => FlowInv
<1> SUFFICES ASSUME FlowInit PROVE FlowInv
  OBVIOUS
<1>1. StoreInv
  BY InitInv DEF FlowInit
<1>2. /\ jobs = NoJobs /\ up = TRUE
      /\ \A c \in Caller : call[c] = Idle
  BY DEF FlowInit, StoreInit
<1>3. \A c \in Caller, o \in {"arm", "reserve", "cancel"}, t \in Trace : ~Asks(c, o, t)
  BY <1>2, IdleShape DEF Asks
<1>4. CallsInv
  BY <1>2, <1>3 DEF CallsInv
<1>5. 0 \in 0..CancelTries /\ 0 \in 0..MaxLost /\ 0 \in 0..MaxDesk
  BY FlowAssumption
<1>6. \A t \in Trace : /\ flow[t] \in Flow
                       /\ flow[t].pc = "begin" /\ flow[t].task = "none"
                       /\ flow[t].line = NoLine /\ flow[t].taskLine = NoLine
                       /\ ~flow[t].reserved /\ ~flow[t].armed /\ ~flow[t].refuted
  BY <1>5 DEF FlowInit, Flow, Stage, TaskStage
<1>7. FlowTypeOK
  BY <1>5, <1>6 DEF FlowInit, FlowTypeOK
<1>8. OwnLines
  BY <1>6 DEF OwnLines
<1>9. ASSUME NEW t \in Trace PROVE TraceInv(t)
  <2>1. StageInv(t)
    BY <1>6 DEF StageInv, Ahead
  <2>2. LineInv(t)
    BY <1>3, <1>6 DEF LineInv
  <2>3. FateInv(t)
    BY <1>6 DEF FateInv, LastTry
  <2> QED BY <2>1, <2>2, <2>3 DEF TraceInv
<1> QED BY <1>1, <1>4, <1>7, <1>8, <1>9 DEF FlowInv

\* Every step of a launch, of the daemon and of the user.
LEMMA FlowStepInv == FlowInv /\ [FlowNext]_allVars => FlowInv'
<1> SUFFICES ASSUME FlowInv, [FlowNext]_allVars PROVE FlowInv'
  OBVIOUS
<1>1. ASSUME NEW t \in Trace, FlowStep(t) PROVE FlowInv'
  <2>1. InnerStep(t) \/ AskingStep(t) \/ AnsweredStep(t)
        \/ TaskAsks(t) \/ TaskAnswered(t) \/ Abort(t)
    BY <1>1 DEF FlowStep, InnerStep, AskingStep, AnsweredStep
  <2> QED BY <2>1, InnerInv, AskingInv, AnsweredInv, TaskAsksInv, TaskAnsweredInv, AbortInv
<1>2. CASE UNCHANGED allVars
  <2>1. UNCHANGED <<jobs, runner, call, flow, lost, desk>> /\ KeepTable
    BY <1>2 DEF allVars, storeVars, flowVars, KeepTable
  <2>2. StoreInv' /\ CallsInv' /\ \A t \in Trace : TraceInv(t)'
    BY <2>1, SameStoreInv, SameCalls, SameTrace DEF FlowInv
  <2>3. FlowTypeOK' /\ OwnLines'
    BY <2>1 DEF FlowInv, FlowTypeOK, OwnLines
  <2> QED BY <2>2, <2>3 DEF FlowInv
<1> QED BY <1>1, <1>2, DaemonInv, DeskInv DEF FlowNext, Settled

(***************************************************************************)
(* Every launch is at a stage of execute_engine_action_payload, its lines  *)
(* carry its own requests and nobody else's, and it knows of its job what  *)
(* that stage needs.                                                       *)
(***************************************************************************)
THEOREM FlowInvHolds == FlowSpec => []FlowInv
<1>1. FlowInit => FlowInv
  BY FlowInitInv
<1>2. FlowInv /\ [FlowNext]_allVars => FlowInv'
  BY FlowStepInv
<1> QED BY <1>1, <1>2, PTL DEF FlowSpec

(***************************************************************************)
(* A launch that has been answered leaves no job that holds a place without*)
(* a runner, and none that is not marked when it could not be confirmed.   *)
(***************************************************************************)
THEOREM NoOrphanHolds == FlowSpec => []NoOrphan
<1>1. FlowInv => NoOrphan
  <2> SUFFICES ASSUME FlowInv, NEW t \in Trace, Quiet(t), Holds(t)
               PROVE  /\ flow[t].pc # "abandoned" => runner[t] # "none"
                      /\ flow[t].refuted => jobs[t].cancelled
    BY DEF NoOrphan
  <2>1. StageInv(t) /\ FateInv(t) /\ CancelSettles
    BY DEF FlowInv, TraceInv, StoreInv
  <2>2. jobs[t] # NoJob /\ jobs[t].state \notin TerminalJob /\ flow[t].pc \in Ended
    BY DEF Quiet, Holds, ActiveJob, TerminalJob
  <2>3. Dead(t) => jobs[t].cancelled /\ runner[t] # "none"
    BY <2>1, <2>2 DEF Dead, Gone, Marked, CancelSettles
  <2>4. Alive(t) => runner[t] # "none"
    BY <2>2 DEF Alive, Gone, Run
  <2>5. flow[t].pc # "abandoned" => Dead(t) \/ Alive(t)
    BY <2>1, <2>2 DEF FateInv, Ended
  <2>6. flow[t].refuted => Dead(t)
    BY <2>1, <2>2 DEF StageInv, FateInv, Ended
  <2> QED BY <2>3, <2>4, <2>5, <2>6
<1> QED BY <1>1, FlowInvHolds, PTL

=============================================================================
