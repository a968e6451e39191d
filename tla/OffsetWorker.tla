---------------------------- MODULE OffsetWorker ----------------------------
(***************************************************************************)
(* The worker all jobs share to wait for a block height, src/rust/         *)
(* launchdeck-engine/src/bin/launchdeck-follow-daemon.rs (register_offset_ *)
(* consumer, run_offset_worker). It lives while there are consumers; a flag*)
(* under a lock of its own says whether it runs, the table of consumers is *)
(* under another. All of it is marked as dead code: nothing in the daemon  *)
(* registers a consumer today, and one is registered here once.            *)
(*                                                                         *)
(* approximate: heights are estimated from the time since the confirmation,*)
(* counted here in ticks of the worker, and not asked for.                 *)
(***************************************************************************)
EXTENDS Naturals

CONSTANTS
    Consumer,  \* actions that wait for a height
    Worker,    \* worker tasks that may exist at once
    MaxHeight  \* the last height the cluster reaches; every target is 1

VARIABLES
    approximate,
    height,    \* the cluster's, and the one last observed
    observed,
    entered,   \* the table of consumers
    running,
    place,     \* [Consumer -> where its registration or wait is]
    offWorker, \* [Worker -> where the task is]
    found      \* [Worker -> the consumers it has found to be complete]

offVars == <<approximate, height, observed, entered, running, place, offWorker, found>>

OffsetTypeOK ==
    /\ approximate \in BOOLEAN /\ running \in BOOLEAN
    /\ height \in 0..MaxHeight /\ observed \in 0..MaxHeight
    /\ entered \subseteq Consumer
    /\ place \in [Consumer -> {"out", "insert", "flag", "flagDone", "wait", "done", "left"}]
    /\ offWorker \in [Worker -> {"none", "look", "stop", "lookAgain", "go", "poll",
                             "remove"}]
    /\ found \in [Worker -> SUBSET Consumer]

OffsetInit ==
    /\ approximate \in BOOLEAN /\ running = FALSE
    /\ height = 0 /\ observed = 0 /\ entered = {}
    /\ place = [c \in Consumer |-> "out"]
    /\ offWorker = [w \in Worker |-> "none"]
    /\ found = [w \in Worker |-> {}]

\* The target was observed before: done at once.
Register(c) ==
    /\ place[c] = "out"
    /\ place' = [place EXCEPT ![c] = IF observed >= 1 THEN "done" ELSE "insert"]
    /\ UNCHANGED <<approximate, height, observed, entered, running, offWorker, found>>

Insert(c) ==
    /\ place[c] = "insert"
    /\ entered' = entered \union {c}
    /\ place' = [place EXCEPT ![c] = "flag"]
    /\ UNCHANGED <<approximate, height, observed, running, offWorker, found>>

SpawnWorker(c) ==
    /\ place[c] \in {"flag", "flagDone"}
    /\ place' = [place EXCEPT ![c] = IF @ = "flag" THEN "wait" ELSE "done"]
    /\ IF running THEN UNCHANGED <<running, offWorker>>
       ELSE /\ running' = TRUE
            /\ \E w \in Worker : /\ offWorker[w] = "none"
                                 /\ offWorker' = [offWorker EXCEPT ![w] = "look"]
    /\ UNCHANGED <<approximate, height, observed, entered, found>>

\* The wait of the consumer is dropped.
LeaveOffset(c) ==
    /\ place[c] = "wait"
    /\ place' = [place EXCEPT ![c] = "left"]
    /\ entered' = entered \ {c}
    /\ UNCHANGED <<approximate, height, observed, running, offWorker, found>>

WorkerGoes(w, pc) == offWorker' = [offWorker EXCEPT ![w] = pc]

LookEmpty(w) ==
    /\ offWorker[w] = "look"
    /\ WorkerGoes(w, IF entered = {} THEN "stop" ELSE "poll")
    /\ UNCHANGED <<approximate, height, observed, entered, running, place, found>>

\* Mutant of ClearRunning: it ends and leaves the flag as it is.
EndAtOnce(w) ==
    /\ offWorker[w] = "stop"
    /\ WorkerGoes(w, "none")
    /\ UNCHANGED <<approximate, height, observed, entered, running, place, found>>

ClearRunning(w) ==
    /\ offWorker[w] = "stop"
    /\ running' = FALSE
    /\ WorkerGoes(w, "lookAgain")
    /\ UNCHANGED <<approximate, height, observed, entered, place, found>>

LookEmptyAgain(w) ==
    /\ offWorker[w] = "lookAgain"
    /\ WorkerGoes(w, IF entered = {} THEN "none" ELSE "go")
    /\ UNCHANGED <<approximate, height, observed, entered, running, place, found>>

GoOn(w) ==
    /\ offWorker[w] = "go"
    /\ running' = TRUE
    /\ WorkerGoes(w, "poll")
    /\ UNCHANGED <<approximate, height, observed, entered, place, found>>

\* A poll fails, or tells the height and finds those whose target it is; the
\* local timer finds some without asking. The table is unlocked again.
PollHeight(w) ==
    /\ offWorker[w] = "poll"
    /\ \/ /\ ~approximate
          /\ observed' = height
          /\ found' = [found EXCEPT ![w] = IF height >= 1 THEN entered ELSE {}]
       \/ /\ ~approximate
          /\ UNCHANGED <<observed, found>>
       \/ /\ approximate
          /\ UNCHANGED observed
          /\ \E S \in SUBSET entered : found' = [found EXCEPT ![w] = S]
    /\ WorkerGoes(w, IF found'[w] = {} THEN "look" ELSE "remove")
    /\ UNCHANGED <<approximate, height, entered, running, place>>

\* They are taken off the table, whoever left it meanwhile, and told.
Complete(w) ==
    /\ offWorker[w] = "remove"
    /\ entered' = entered \ found[w]
    /\ place' = [c \in Consumer |->
                    CASE c \in found[w] /\ place[c] = "flag" -> "flagDone"
                      [] c \in found[w] /\ place[c] = "wait" -> "done"
                      [] OTHER -> place[c]]
    /\ found' = [found EXCEPT ![w] = {}]
    /\ WorkerGoes(w, "look")
    /\ UNCHANGED <<approximate, height, observed, running>>

NewBlock ==
    /\ height < MaxHeight
    /\ height' = height + 1
    /\ UNCHANGED <<approximate, observed, entered, running, place, offWorker, found>>

ConsumerStep(c) == Register(c) \/ Insert(c) \/ SpawnWorker(c)
WorkerStep(w) == LookEmpty(w) \/ ClearRunning(w) \/ LookEmptyAgain(w) \/ GoOn(w)
                   \/ PollHeight(w) \/ Complete(w)

OffsetNext ==
    \/ \E c \in Consumer : ConsumerStep(c) \/ LeaveOffset(c)
    \/ \E w \in Worker : WorkerStep(w)
    \/ NewBlock

OffsetSpec == OffsetInit /\ [][OffsetNext]_offVars

\* Polls are made and some succeed after the block has come.
OffsetFairness ==
    /\ \A c \in Consumer : WF_offVars(ConsumerStep(c))
    /\ \A w \in Worker : WF_offVars(WorkerStep(w))
    /\ \A w \in Worker : SF_offVars(PollHeight(w) /\ found'[w] = entered)
    /\ WF_offVars(NewBlock)

(***************************************************************************)
(* A consumer that registered is completed, unless it left: registering    *)
(* while the worker finds its table empty and ends loses no consumer.      *)
(***************************************************************************)
OffsetCompletes == \A c \in Consumer : place[c] = "flag" ~> place[c] \in {"done", "left"}

=============================================================================
