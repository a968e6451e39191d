----------------------------- MODULE LaunchFlow -----------------------------
(***************************************************************************)
(* A launch with follow actions on the main host, and the follow daemon it *)
(* reserves, arms and cancels a job with: the send branch of the launch    *)
(* endpoint in src/rust/launchdeck-engine/src/main.rs on top of FollowStore*)
(*                                                                         *)
(* The reservation is a task of its own that runs beside the building and  *)
(* the submission of the launch; every way the launch can fail from there  *)
(* on meets it at some stage. The requests of one launch go over any free  *)
(* connection. Each launch has a fresh trace id (new_trace_context).       *)
(***************************************************************************)
EXTENDS FollowStore

CONSTANTS
    NoLine,
    CancelTries,  \* attempts of cancel_follow_job_best_effort: 5 in the code
    MaxLost,      \* bound: answers that are lost while the daemon lives
    MaxDesk       \* bound: requests made in the Jobs window

ASSUME FlowAssumption ==
    /\ NoLine \notin Caller
    /\ CancelTries \in Nat \ {0} /\ MaxLost \in Nat /\ MaxDesk \in Nat

VARIABLES
    flow,   \* the launch request of each trace
    lost, desk

flowVars == <<flow, lost, desk>>
allVars  == <<storeVars, flowVars>>

\* begin: the transactions are compiled; build: the setup of Bags;
\* failed: answered with an error after a cancellation; abandoned: answered
\* with an error without one; done: answered with what was submitted.
Stage == {"begin", "build", "prereserve", "submit", "abort", "cancelling",
          "cancelOnce", "await", "arm", "confirm", "rearm", "late",
          "done", "failed", "abandoned"}
Ended == {"done", "failed", "abandoned"}

TaskStage == {"none", "spawned", "asked", "yes", "no"}

Flow == [pc: Stage,
         sameTime: BOOLEAN,      \* snipes sent along with the launch
         reserveFirst: BOOLEAN,  \* must_complete_follow_reserve_before_send
         task: TaskStage, taskLine: Caller \union {NoLine},
         line: Caller \union {NoLine},
         reserved: BOOLEAN, armed: BOOLEAN, refuted: BOOLEAN,
         tries: 0..CancelTries, next: Stage]

FlowTypeOK ==
    /\ flow \in [Trace -> Flow]
    /\ lost \in 0..MaxLost
    /\ desk \in 0..MaxDesk

FlowInit ==
    /\ StoreInit
    /\ flow \in [Trace -> [pc: {"begin"}, sameTime: BOOLEAN, reserveFirst: BOOLEAN,
                           task: {"none"}, taskLine: {NoLine}, line: {NoLine},
                           reserved: {FALSE}, armed: {FALSE}, refuted: {FALSE},
                           tries: {0}, next: {"done"}]]
    /\ lost = 0 /\ desk = 0

-----------------------------------------------------------------------------
(* Requests *)

KeepTable == UNCHANGED <<jobs, activeJobs, up, runner, verdict, stops, failures, cut>>

Lines == UNION {{flow[t].line, flow[t].taskLine} : t \in Trace}
Free(c) == c \notin Lines

\* The answer a client gets on its line: that of the handler, or an error if
\* the daemon has ended or the answer does not come through or cannot be read.
Reply(c, answer) ==
    \/ /\ call[c].pc \in Answered
       /\ answer = call[c].pc
       /\ Read(c)
       /\ UNCHANGED lost
    \/ /\ call[c] = Idle
       /\ answer = "failed"
       /\ UNCHANGED <<call, lost>>
    \/ /\ lost < MaxLost
       /\ lost' = lost + 1
       /\ call[c].pc = "ok" /\ answer = "failed"
       /\ Read(c)

\* A request of the launch itself goes out; refused when the daemon is down.
Send(t, request, ifDown) ==
    /\ flow[t].line = NoLine
    /\ \/ \E c \in Caller : /\ Free(c)
                            /\ Ask(c, request)
                            /\ flow' = [flow EXCEPT ![t].line = c]
       \/ /\ ~up
          /\ flow' = ifDown
          /\ UNCHANGED call
    /\ KeepTable
    /\ UNCHANGED <<lost, desk>>

ArmRequest(t, l)  == [op |-> "arm", trace |-> t, item |-> l]
CancelRequest(t)  == [op |-> "cancel", trace |-> t]

-----------------------------------------------------------------------------
(* The reservation task *)

Begin(t) ==
    /\ flow[t].pc = "begin"
    /\ flow' = [flow EXCEPT ![t].pc = "build", ![t].task = "spawned"]
    /\ UNCHANGED <<storeVars, lost, desk>>

TaskAsks(t) ==
    /\ flow[t].task = "spawned"
    /\ \/ \E c \in Caller, p \in Payload :
             /\ Free(c)
             /\ Ask(c, [op |-> "reserve", trace |-> t, item |-> p])
             /\ flow' = [flow EXCEPT ![t].task = "asked", ![t].taskLine = c]
       \/ /\ ~up
          /\ flow' = [flow EXCEPT ![t].task = "no"]
          /\ UNCHANGED call
    /\ KeepTable
    /\ UNCHANGED <<lost, desk>>

TaskAnswered(t) ==
    /\ flow[t].task = "asked"
    /\ \E answer \in Answered :
         /\ Reply(flow[t].taskLine, answer)
         /\ flow' = [flow EXCEPT ![t].task = IF answer = "ok" THEN "yes" ELSE "no",
                                 ![t].taskLine = NoLine]
    /\ KeepTable
    /\ UNCHANGED desk

-----------------------------------------------------------------------------
(* Up to the submission *)

\* Bags setup and build. (Same-time snipes are only compiled here for a
\* launchpad that is neither pump, bonk nor bagsapp: there is none.)
Build(t) ==
    /\ flow[t].pc = "build"
    /\ \/ flow' = [flow EXCEPT ![t].pc = IF flow[t].reserveFirst THEN "prereserve"
                                                                ELSE "submit"]
       \/ flow' = [flow EXCEPT ![t].pc = "abort"]
    /\ UNCHANGED <<storeVars, lost, desk>>

\* A sell at a market cap waits for the reservation before the launch is sent;
\* its error is returned with ? and nothing is cancelled.
PreReserve(t) ==
    /\ flow[t].pc = "prereserve"
    /\ flow[t].task \in {"yes", "no"}
    /\ flow' = [flow EXCEPT ![t].task = "none",
                            ![t].reserved = flow[t].task = "yes",
                            ![t].pc = IF flow[t].task = "yes" THEN "submit"
                                                              ELSE "abandoned"]
    /\ UNCHANGED <<storeVars, lost, desk>>

\* The launch is submitted, or fails, or comes back without a signature.
Submit(t) ==
    /\ flow[t].pc = "submit"
    /\ \/ flow' = [flow EXCEPT ![t].pc = "await"]
       \/ flow' = [flow EXCEPT ![t].pc = "abort"]
    /\ UNCHANGED <<storeVars, lost, desk>>

-----------------------------------------------------------------------------
(* cancel_reserved_follow_job_on_launch_failure *)

ToCancel(t, after) ==
    [flow EXCEPT ![t].pc = "cancelling", ![t].tries = 0, ![t].next = after,
                 ![t].line = NoLine]

\* The task is given some time to end and is aborted otherwise.
Abort(t) ==
    /\ flow[t].pc = "abort"
    /\ IF flow[t].task = "asked" THEN HangUp(flow[t].taskLine) ELSE UNCHANGED call
    /\ flow' = [ToCancel(t, "failed") EXCEPT ![t].task = "none",
                                             ![t].taskLine = NoLine]
    /\ KeepTable
    /\ UNCHANGED <<lost, desk>>

\* Assumed of the server: a reservation whose client hung up before the first
\* attempt has been dropped when the last one is made, a second later.
Noticed(t) ==
    \A c \in Caller : call[c] # Idle /\ call[c].request.op = "reserve" =>
        call[c].heard \/ call[c].request.trace # t

CancelAsks(t) ==
    /\ flow[t].pc = "cancelling"
    /\ flow[t].tries + 1 = CancelTries => Noticed(t)
    /\ Send(t, CancelRequest(t), [flow EXCEPT ![t].pc = flow[t].next])

\* The reservation may still be on its way.
TriesAgain(t, answer) == answer = "unknown" /\ flow[t].tries + 1 < CancelTries

\* Mutant of CancelAnswered: an unknown trace is asked for again and again.
CancelAnsweredForever(t) ==
    /\ flow[t].pc = "cancelling"
    /\ flow[t].line # NoLine
    /\ \E answer \in Answered :
         /\ Reply(flow[t].line, answer)
         /\ flow' = [flow EXCEPT ![t].line = NoLine,
                                 ![t].pc = IF answer = "unknown" THEN @ ELSE flow[t].next]
    /\ KeepTable
    /\ UNCHANGED desk

CancelAnswered(t) ==
    /\ flow[t].pc = "cancelling"
    /\ flow[t].line # NoLine
    /\ \E answer \in Answered :
         /\ Reply(flow[t].line, answer)
         /\ \/ /\ TriesAgain(t, answer)
               /\ flow' = [flow EXCEPT ![t].line = NoLine, ![t].tries = @ + 1]
            \/ /\ ~TriesAgain(t, answer)
               /\ flow' = [flow EXCEPT ![t].line = NoLine, ![t].tries = 0,
                                       ![t].pc = flow[t].next]
    /\ KeepTable
    /\ UNCHANGED desk

-----------------------------------------------------------------------------
(* After the submission *)

\* Mutant of AwaitReserve: an error of the reservation needs no cancellation.
AwaitReserveUncancelled(t) ==
    /\ flow[t].pc = "await"
    /\ \/ /\ flow[t].reserved
          /\ flow' = [flow EXCEPT ![t].pc = "arm"]
       \/ /\ flow[t].task = "yes"
          /\ flow' = [flow EXCEPT ![t].pc = "arm", ![t].task = "none",
                                  ![t].reserved = TRUE]
       \/ /\ flow[t].task = "no"
          /\ flow' = [flow EXCEPT ![t].pc = "confirm", ![t].task = "none"]
    /\ UNCHANGED <<storeVars, lost, desk>>

\* A reservation that failed is cancelled all the same: it may be stored.
AwaitReserve(t) ==
    /\ flow[t].pc = "await"
    /\ \/ /\ flow[t].reserved
          /\ flow' = [flow EXCEPT ![t].pc = "arm"]
       \/ /\ flow[t].task = "yes"
          /\ flow' = [flow EXCEPT ![t].pc = "arm", ![t].task = "none",
                                  ![t].reserved = TRUE]
       \/ /\ flow[t].task = "no"
          /\ flow' = [ToCancel(t, "confirm") EXCEPT ![t].task = "none"]
    /\ UNCHANGED <<storeVars, lost, desk>>

\* The early arm, before the launch is confirmed.
ArmAsks(t) ==
    /\ flow[t].pc = "arm"
    /\ \E l \in Launch : Send(t, ArmRequest(t, l), [flow EXCEPT ![t].pc = "confirm"])

ArmAnswered(t) ==
    /\ flow[t].pc = "arm"
    /\ flow[t].line # NoLine
    /\ \E answer \in Answered :
         /\ Reply(flow[t].line, answer)
         /\ flow' = [flow EXCEPT ![t].line = NoLine, ![t].pc = "confirm",
                                 ![t].armed = answer = "ok"]
    /\ KeepTable
    /\ UNCHANGED desk

ToCancelOnce(t, after) == [flow EXCEPT ![t].pc = "cancelOnce", ![t].next = after]

\* A launch that is not confirmed takes its follow job with it.
Confirm(t) ==
    /\ flow[t].pc = "confirm"
    /\ \/ flow' = [flow EXCEPT ![t].pc = IF flow[t].reserved THEN "rearm" ELSE "late"]
       \/ flow' = [ToCancelOnce(t, "late") EXCEPT ![t].refuted = TRUE]
    /\ UNCHANGED <<storeVars, lost, desk>>

CancelOnceAsks(t) ==
    /\ flow[t].pc = "cancelOnce"
    /\ Send(t, CancelRequest(t), [flow EXCEPT ![t].pc = flow[t].next])

CancelOnceAnswered(t) ==
    /\ flow[t].pc = "cancelOnce"
    /\ flow[t].line # NoLine
    /\ \E answer \in Answered : Reply(flow[t].line, answer)
    /\ flow' = [flow EXCEPT ![t].line = NoLine, ![t].pc = flow[t].next]
    /\ KeepTable
    /\ UNCHANGED desk

\* The arm that brings the confirmed slot; when neither arm was answered with
\* a yes the job is cancelled.
AfterRearm(t, armed) ==
    IF armed \/ flow[t].armed
    THEN [flow EXCEPT ![t].line = NoLine, ![t].pc = "late", ![t].armed = TRUE]
    ELSE ToCancel(t, "late")

RearmAsks(t) ==
    /\ flow[t].pc = "rearm"
    /\ \E l \in Launch : Send(t, ArmRequest(t, l), AfterRearm(t, FALSE))

RearmAnswered(t) ==
    /\ flow[t].pc = "rearm"
    /\ flow[t].line # NoLine
    /\ \E answer \in Answered :
         /\ Reply(flow[t].line, answer)
         /\ flow' = AfterRearm(t, answer = "ok")
    /\ KeepTable
    /\ UNCHANGED desk

\* The same-time snipes are confirmed last; if they are not, the job goes.
Late(t) ==
    /\ flow[t].pc = "late"
    /\ \/ flow' = [flow EXCEPT ![t].pc = "done"]
       \/ /\ flow[t].sameTime
          /\ flow' = [ToCancelOnce(t, "done") EXCEPT ![t].refuted = TRUE]
    /\ UNCHANGED <<storeVars, lost, desk>>

-----------------------------------------------------------------------------
(* The Jobs window: api_follow_cancel and api_follow_stop_all *)

DeskAsks ==
    /\ desk < MaxDesk
    /\ desk' = desk + 1
    /\ \E c \in Caller, request \in {[op |-> "stopAll"]} \union {CancelRequest(t) : t \in Trace} :
         Free(c) /\ Ask(c, request)
    /\ KeepTable
    /\ UNCHANGED <<flow, lost>>

DeskReads ==
    /\ \E c \in Caller : Free(c) /\ Read(c)
    /\ KeepTable
    /\ UNCHANGED flowVars

-----------------------------------------------------------------------------

FlowStep(t) ==
    \/ Begin(t) \/ TaskAsks(t) \/ TaskAnswered(t)
    \/ Build(t) \/ PreReserve(t) \/ Submit(t)
    \/ Abort(t) \/ CancelAsks(t) \/ CancelAnswered(t)
    \/ AwaitReserve(t) \/ ArmAsks(t) \/ ArmAnswered(t)
    \/ Confirm(t) \/ CancelOnceAsks(t) \/ CancelOnceAnswered(t)
    \/ RearmAsks(t) \/ RearmAnswered(t) \/ Late(t)

\* Everything has ended: launches, handlers and runners.
Settled ==
    /\ \A t \in Trace : /\ flow[t].pc \in Ended
                        /\ flow[t].task \in {"none", "yes", "no"}
                        /\ runner[t] = "none"
    /\ \A c \in Caller : call[c] = Idle
    /\ UNCHANGED allVars

FlowNext ==
    \/ \E t \in Trace : FlowStep(t)
    \/ DaemonStep /\ UNCHANGED flowVars
    \/ DeskAsks \/ DeskReads
    \/ Settled

FlowSpec == FlowInit /\ [][FlowNext]_allVars

\* confirm_submitted_transactions_for_transport has no time limit here: on the
\* path of transactionSubscribe it may wait for ever (TxSend).
Awaits(t) == flow[t].pc = "confirm" \/ (flow[t].pc = "late" /\ flow[t].sameTime)

\* The runtimes of both processes poll what is ready; a stopped daemon is
\* started again; nothing has to fail, break or be asked for, and nothing
\* makes the wait for a confirmation end.
FlowFairness ==
    /\ \A t \in Trace : /\ WF_allVars(FlowStep(t) /\ ~Awaits(t))
                         /\ WF_allVars(RunnerStep(t) /\ UNCHANGED flowVars)
    /\ \A c \in Caller : WF_allVars((HandlerStep(c) \/ Drop(c)) /\ UNCHANGED flowVars)
    /\ WF_allVars(DeskReads)
    /\ WF_allVars(Start /\ UNCHANGED flowVars)

FairFlowSpec == FlowSpec /\ FlowFairness

-----------------------------------------------------------------------------
(* Properties *)

\* The launch has been answered and no request about it is under way.
Quiet(t) ==
    /\ flow[t].pc \in Ended
    /\ flow[t].task \notin {"spawned", "asked"}
    /\ \A c \in Caller : call[c] # Idle =>
         call[c].request.op # "stopAll" /\ call[c].request.trace # t

Holds(t) == jobs[t] # NoJob /\ jobs[t].state \in ActiveJob

(***************************************************************************)
(* A launch leaves no job behind that holds a place without a runner: when *)
(* all is quiet the job is gone, ended or being run, whatever failed on the*)
(* way: the reservation, either arm, a write of the state file, an answer  *)
(* that was lost, the daemon itself. Left out is the early return of       *)
(* execute_engine_action_payload that cancels nothing (see EndedReleases). *)
(* And when the launch, or its same-time snipes, could not be confirmed,   *)
(* the one cancellation that follows is enough: it meets the job at every  *)
(* stage of both arms and of its runner, and marks it.                     *)
(***************************************************************************)
NoOrphan ==
    \A t \in Trace : Quiet(t) /\ Holds(t) =>
        /\ flow[t].pc # "abandoned" => runner[t] # "none"
        /\ flow[t].refuted => jobs[t].cancelled

\* Every launch is answered, and its requests come to an end, unless the wait
\* for a confirmation never does: no cancellation, lost answer, failed write or
\* restart of the daemon keeps a launch from its answer.
LaunchEnds == \A t \in Trace : <>Quiet(t) \/ <>[]Awaits(t)

(***************************************************************************)
(* docs/REPORTING.md:36: "Use Jobs when you want the current active follow *)
(* jobs": a launch that was answered with an error has no active job.      *)
(***************************************************************************)
EndedReleases ==
    \A t \in Trace : flow[t].pc \in {"failed", "abandoned"} /\ Quiet(t) => ~Holds(t)

=============================================================================
