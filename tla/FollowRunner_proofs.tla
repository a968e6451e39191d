------------------------ MODULE FollowRunner_proofs ------------------------
(***************************************************************************)
(* FollowRunner for any job and any number of faults: its types, locks and *)
(* permits, and then what it never sends: a sell before its buy has        *)
(* brought tokens, an action of after the deferred setup before that has, anything *)
(* after a transaction whose confirmation ended without an answer, the     *)
(* setup a second time, an attempt beyond the budget or after a            *)
(* cancellation.  The last depend on where a task may go next: what a step *)
(* of a task does to its own action and to no other one, and what the      *)
(* steps of nobody's task leave alone.                                     *)
(***************************************************************************)
EXTENDS FollowRunner, FiniteSetTheorems, TLAPS

(***************************************************************************)
(* Types                                                                   *)
(***************************************************************************)

\* run_job ends a job in a terminal state.
LEMMA FinalJobStateType ==
    ASSUME NEW c \in BOOLEAN, NEW f \in BOOLEAN, NEW s \in BOOLEAN, NEW e \in BOOLEAN
    PROVE  FinalJobState(c, f, s, e) \in TerminalJob
BY DEF FinalJobState, TerminalJob

\* What an update of a transaction's fate, of its generation and of an action
\* record leaves well typed.
LEMMA ChainUpdate ==
    ASSUME NEW f \in [Actions -> ChainRecord], NEW a \in Actions,
           NEW o \in SUBSET Nat, NEW l \in SUBSET Nat, NEW q \in BOOLEAN
    PROVE  /\ [f EXCEPT ![a].open = o, ![a].landed = l] \in [Actions -> ChainRecord]
           /\ [f EXCEPT ![a].open = o, ![a].asked = q] \in [Actions -> ChainRecord]
           /\ [f EXCEPT ![a].open = o, ![a].held = q] \in [Actions -> ChainRecord]
           /\ [f EXCEPT ![a].open = o] \in [Actions -> ChainRecord]
BY DEF ChainRecord

LEMMA GenUpdate ==
    ASSUME NEW f \in [Actions -> ChainRecord], NEW a \in Actions, NEW n \in Nat
    PROVE  [f EXCEPT ![a].gen = n] \in [Actions -> ChainRecord]
BY DEF ChainRecord

LEMMA StateUpdate ==
    ASSUME NEW f \in [Actions -> ActionRecord], NEW a \in Actions, NEW s \in ActionState
    PROVE  [f EXCEPT ![a].state = s] \in [Actions -> ActionRecord]
BY DEF ActionRecord

LEMMA ActionUpdate ==
    ASSUME NEW f \in [Actions -> ActionRecord], NEW a \in Actions,
           NEW s \in ActionState, NEW n \in Nat, NEW p \in BOOLEAN, NEW r \in BOOLEAN
    PROVE  /\ [f EXCEPT ![a].state = s, ![a].attempts = n] \in [Actions -> ActionRecord]
           /\ [f EXCEPT ![a].state = s, ![a].rebuilding = r] \in [Actions -> ActionRecord]
BY DEF ActionRecord

LEMMA SlotUpdate ==
    ASSUME NEW f \in [Actions -> ActionRecord], NEW a \in Actions,
           NEW s \in ActionState, NEW k \in BOOLEAN
    PROVE  [f EXCEPT ![a].state = s, ![a].slotKnown = k] \in [Actions -> ActionRecord]
BY DEF ActionRecord

LEMMA RecordUpdate ==
    ASSUME NEW f \in ActionRecord, NEW s \in ActionState, NEW r \in BOOLEAN
    PROVE  [f EXCEPT !.state = s, !.rebuilding = r] \in ActionRecord
BY DEF ActionRecord

LEMMA SetupUpdate ==
    ASSUME NEW s \in SetupRecord, NEW o \in SUBSET Nat, NEW l \in SUBSET Nat
    PROVE  [s EXCEPT !.open = o, !.landed = l] \in SetupRecord
BY DEF SetupRecord

\* Every step of an operator, a watcher, the chain or run_job keeps the types.
LEMMA AroundTypeOK ==
    ASSUME TypeOK,
           \/ Arm \/ CancelJob \/ \E a \in Actions : CancelAction(a)
           \/ LaunchConfirmed \/ \E w \in {"launch", "slot", "market"} : WatcherFails(w)
           \/ \E a \in Actions : FallsDue(a)
           \/ \E a \in Actions : Settle(a)
           \/ SettleSetup \/ RunStep
    PROVE  TypeOK'
<1> USE ParameterTypes DEF TypeOK
<1>1. CASE Arm
  <2>1. act' \in [Actions -> ActionRecord]
    <3>1. \A a \in Actions : [act[a] EXCEPT !.state = ArmedActionState(@)] \in ActionRecord
      <4> TAKE a \in Actions
      <4>1. act[a] \in ActionRecord
        OBVIOUS
      <4>2. ArmedActionState(act[a].state) \in ActionState
        BY <4>1 DEF ActionRecord, ArmedActionState, ActionState, PendingAction
      <4> QED BY <4>1, <4>2 DEF ActionRecord
    <3>2. CASE act' = [a \in Actions |-> [act[a] EXCEPT !.state = ArmedActionState(@)]]
      BY <3>1, <3>2
    <3> QED BY <1>1, <3>2 DEF Arm
  <2>2. job' \in JobRecord
    <3>1. ASSUME NEW slot \in BOOLEAN,
                 job' = [job EXCEPT !.state = ArmedJobState(@), !.slotKnown = @ \/ slot]
          PROVE  job' \in JobRecord
      BY <3>1 DEF JobRecord, ArmedJobState, JobState, ActiveJob
    <3> QED BY <1>1, <3>1 DEF Arm
  <2>3. runner' \in RunnerRecord
    BY <1>1 DEF Arm, RunnerRecord, RunnerPlace
  <2> QED BY <1>1, <2>1, <2>2, <2>3 DEF Arm
<1>2. CASE CancelJob
  <2>1. act' \in [Actions -> ActionRecord]
    <3>1. \A a \in Actions :
            [act[a] EXCEPT !.state = CancelledActionState(@),
                           !.rebuilding = @ /\ act[a].state \in KeptByCancel] \in ActionRecord
      <4> TAKE a \in Actions
      <4> DEFINE s == CancelledActionState(act[a].state)
                 r == act[a].rebuilding /\ act[a].state \in KeptByCancel
      <4>1. s \in ActionState
        BY DEF ActionRecord, CancelledActionState, ActionState, SettledAction
      <4>2. r \in BOOLEAN
        OBVIOUS
      <4>3. [act[a] EXCEPT !.state = s, !.rebuilding = r] \in ActionRecord
        <5> HIDE DEF s, r
        <5>1. act[a] \in ActionRecord
          OBVIOUS
        <5> QED BY <4>1, <4>2, <5>1, RecordUpdate
      <4> QED BY <4>3
    <3> QED BY <1>2, <3>1 DEF CancelJob
  <2>2. job' \in JobRecord
    BY <1>2 DEF CancelJob, JobRecord, JobState, TerminalJob
  <2> QED BY <1>2, <2>1, <2>2 DEF CancelJob
<1>3. ASSUME NEW a \in Actions, CancelAction(a) PROVE TypeOK'
  BY <1>3 DEF CancelAction, ActionRecord, ActionState, SettledAction
<1>4. CASE LaunchConfirmed
  BY <1>4 DEF LaunchConfirmed, WatchRecord, WatchValue
<1>5. ASSUME NEW w \in {"launch", "slot", "market"}, WatcherFails(w) PROVE TypeOK'
  BY <1>5 DEF WatcherFails, WatchRecord, WatchValue, Fault
<1>6. ASSUME NEW a \in Actions, Settle(a) PROVE TypeOK'
  <2>1. PICK g \in chain[a].open, lands \in BOOLEAN :
          chain' = [chain EXCEPT ![a].open = @ \ {g},
                                 ![a].landed = IF lands THEN @ \union {g} ELSE @]
    BY <1>6 DEF Settle
  <2> DEFINE o == chain[a].open \ {g}
             l == IF lands THEN chain[a].landed \union {g} ELSE chain[a].landed
  <2>2. o \in SUBSET Nat /\ l \in SUBSET Nat
    BY DEF ChainRecord
  <2>3. chain' = [chain EXCEPT ![a].open = o, ![a].landed = l]
    BY <2>1
  <2> HIDE DEF o, l
  <2>4. chain' \in [Actions -> ChainRecord]
    BY <2>2, <2>3, ChainUpdate
  <2> QED BY <1>6, <2>4 DEF Settle
<1>7. CASE SettleSetup
  <2>1. PICK g \in setup.open, lands \in BOOLEAN :
          setup' = [setup EXCEPT !.open = @ \ {g},
                                 !.landed = IF lands THEN @ \union {g} ELSE @]
    BY <1>7 DEF SettleSetup
  <2> DEFINE o == setup.open \ {g}
             l == IF lands THEN setup.landed \union {g} ELSE setup.landed
  <2>2. o \in SUBSET Nat /\ l \in SUBSET Nat
    BY DEF SetupRecord
  <2>3. setup' = [setup EXCEPT !.open = o, !.landed = l]
    BY <2>1
  <2> HIDE DEF o, l
  <2>4. setup' \in SetupRecord
    BY <2>2, <2>3, SetupUpdate
  <2> QED BY <1>7, <2>4 DEF SettleSetup
<1>8. CASE RunStart
  BY <1>8 DEF RunStart, RunnerRecord, RunnerPlace
<1>9. CASE RunSpawn
  BY <1>9 DEF RunSpawn, RunnerRecord, JobRecord, SetupRecord, RunnerPlace, JobState, ActiveJob, Place, FirstWait, Waiting, SetupPlace
<1>10. CASE RunJoined
  <2>1. runner'.final \in TerminalJob
    BY <1>10, FinalJobStateType DEF RunJoined, RunnerRecord, JobRecord, JobCancelled, SomeFailed, SomeConfirmed
  <2> QED BY <1>10, <2>1 DEF RunJoined, RunnerRecord, RunnerPlace
<1>11. CASE RunFinish
  BY <1>11 DEF RunFinish, JobRecord, RunnerRecord, RunnerPlace, JobState
<1>12. ASSUME NEW a \in Actions, FallsDue(a) PROVE TypeOK'
  BY <1>12 DEF FallsDue
<1> QED BY <1>1, <1>2, <1>3, <1>4, <1>5, <1>6, <1>7, <1>8, <1>9, <1>10, <1>11, <1>12 DEF RunStep

\* The error of a task is in err, its place in pc, and its guards are gone.
LEMMA FailWithTypeOK ==
    ASSUME TypeOK, NEW a \in Actions, NEW e \in ErrClass, FailWith(a, e)
    PROVE  /\ pc' \in [Actions -> Place]
           /\ err' \in [Actions -> ErrClass]
           /\ walletLock' \in [Wallets -> Actions \union {None}]
           /\ permits' \subseteq Actions \union {SetupTask}
BY DEF FailWith, Goto, Release, TypeOK, Place

\* Every step of the task of an action before it works keeps the types.
LEMMA WaitTypeOK ==
    ASSUME TypeOK, NEW a \in Actions, Loop(a) \/ Wait(a) \/ Mark(a)
    PROVE  TypeOK'
<1> USE DEF around, rest
<1>1. CASE Loop(a)
  <2>1. pc' \in [Actions -> Place]
    BY <1>1 DEF TypeOK, Loop, Goto, FirstWait, Place, Waiting
  <2>2. act' \in [Actions -> ActionRecord]
    <3>1. "Armed" \in ActionState
      BY DEF ActionState, PendingAction
    <3>2. UNCHANGED act \/ act' = [act EXCEPT ![a].state = "Armed"]
      BY <1>1 DEF Loop, SetAct
    <3> QED BY <3>1, <3>2, StateUpdate DEF TypeOK
  <2> QED BY <1>1, <2>1, <2>2 DEF TypeOK, Loop
<1>2. CASE AnchorAtLaunch(a)
  <2>1. CASE FailWith(a, watch.launch) /\ watch.launch \in {"retryable", "fatal"}
    BY <1>2, <2>1, FailWithTypeOK DEF TypeOK, AnchorAtLaunch, ErrClass
  <2>2. CASE Goto(a, "trigger") /\ UNCHANGED <<err, walletLock, permits>>
    BY <1>2, <2>2 DEF TypeOK, AnchorAtLaunch, Goto, Place, Waiting
  <2> QED BY <1>2, <2>1, <2>2 DEF AnchorAtLaunch
<1>3. CASE AnchorAtBuy(a)
  <2>1. CASE FailWith(a, "stopped") \/ FailWith(a, "fatal")
    BY <1>3, <2>1, FailWithTypeOK DEF TypeOK, AnchorAtBuy, ErrClass
  <2>2. CASE Goto(a, "trigger") /\ UNCHANGED <<err, walletLock, permits>>
    BY <1>3, <2>2 DEF TypeOK, AnchorAtBuy, Goto, Place, Waiting
  <2> QED BY <1>3, <2>1, <2>2 DEF AnchorAtBuy
<1>4. CASE TriggerMet(a)
  BY <1>4 DEF TypeOK, TriggerMet, Goto, Place, Waiting
<1>5. CASE TriggerFails(a)
  <2>1. PICK e \in ErrClass : FailWith(a, e)
    <3>1. /\ watch.slot \in {"live", "retryable", "fatal"}
          /\ watch.market \in {"live", "retryable", "fatal"}
      BY DEF TypeOK, WatchRecord, WatchValue
    <3>2. \E e \in {"stopped", "retryable", "fatal"} : FailWith(a, e)
      BY <1>5, <3>1 DEF TriggerFails
    <3> QED BY <3>2 DEF ErrClass
  <2>2. faults' \in 0..MaxFaults
    BY <1>5, ParameterTypes DEF TriggerFails, Fault, TypeOK
  <2> QED BY <1>5, <2>1, <2>2, FailWithTypeOK DEF TriggerFails, TypeOK
<1>6. CASE SetupAwaited(a)
  <2>1. CASE FailWith(a, setup.error)
    <3>1. setup.error \in ErrClass
      BY DEF TypeOK, SetupRecord, ErrClass
    <3> QED BY <1>6, <2>1, <3>1, FailWithTypeOK DEF TypeOK, SetupAwaited
  <2>2. CASE Goto(a, "mark") /\ UNCHANGED <<err, walletLock, permits>>
    BY <1>6, <2>2 DEF TypeOK, SetupAwaited, Goto, Place
  <2> QED BY <1>6, <2>1, <2>2 DEF SetupAwaited
<1>7. CASE WaitAborts(a)
  BY <1>7, FailWithTypeOK DEF TypeOK, WaitAborts, ErrClass
<1>8. CASE Mark(a)
  <2>1. CASE FailWith(a, "fatal") /\ UNCHANGED act
    BY <1>8, <2>1, FailWithTypeOK DEF TypeOK, Mark, ErrClass
  <2>2. CASE Goto(a, "precheck") /\ SetAct(a, "Eligible") /\ UNCHANGED <<err, walletLock, permits>>
    <3>1. act' \in [Actions -> ActionRecord]
      BY <2>2, StateUpdate DEF TypeOK, SetAct, ActionState, PendingAction
    <3> QED BY <1>8, <2>2, <3>1 DEF TypeOK, Mark, Goto, Place
  <2> QED BY <1>8, <2>1, <2>2 DEF Mark
<1> QED BY <1>1, <1>2, <1>3, <1>4, <1>5, <1>6, <1>7, <1>8 DEF Wait

\* Every step of the task of an action at work keeps the types.
LEMMA ExecuteTypeOK ==
    ASSUME TypeOK, NEW a \in Actions, Lock(a) \/ AcquireSend(a) \/ Execute(a) \/ Confirm(a)
    PROVE  TypeOK'
<1> USE DEF around
<1>t. /\ act \in [Actions -> ActionRecord]
      /\ chain \in [Actions -> ChainRecord]
      /\ {"Sent", "Running", "Cancelled", "Confirmed"} \subseteq ActionState
      /\ {"fatal", "retryable", "expired", "vault", "slippage"} \subseteq ErrClass
  BY DEF TypeOK, ActionState, PendingAction, SettledAction, ErrClass
<1>g. /\ chain[a].gen + 1 \in Nat
      /\ chain[a].open \union {chain[a].gen} \in SUBSET Nat
      /\ chain[a].open \ {chain[a].gen} \in SUBSET Nat
      /\ chain[a].landed \union {chain[a].gen} \in SUBSET Nat
  BY <1>t DEF ChainRecord
<1>f. ASSUME NEW f \in FaultKind, Fault(f) PROVE faults' \in 0..MaxFaults
  BY <1>f, ParameterTypes DEF Fault, TypeOK
<1>c. ASSUME Compiled(a) PROVE chain' \in [Actions -> ChainRecord]
  <2> DEFINE n == chain[a].gen + 1
  <2>1. chain' = [chain EXCEPT ![a].gen = n]
    BY <1>c DEF Compiled
  <2>2. n \in Nat
    BY <1>g
  <2> HIDE DEF n
  <2> QED BY <1>t, <2>1, <2>2, GenUpdate
<1>1. CASE Precheck(a)
  <2>1. CASE ~ActionCancelled(a) /\ Goto(a, "lock") /\ UNCHANGED <<err, walletLock, permits, faults>>
    BY <1>1, <2>1 DEF TypeOK, Precheck, Goto, Place
  <2>2. CASE FailWith(a, "fatal") /\ UNCHANGED faults
    BY <1>1, <1>t, <2>2, FailWithTypeOK DEF TypeOK, Precheck
  <2>3. CASE (\E e \in {"retryable", "fatal"} : FailWith(a, e)) /\ Fault("precheck")
    BY <1>1, <1>t, <1>f, <2>3, FailWithTypeOK DEF TypeOK, Precheck, FaultKind
  <2> QED BY <1>1, <2>1, <2>2, <2>3 DEF Precheck
<1>2. CASE Lock(a)
  <2> DEFINE n == act[a].attempts + 1
  <2>1. n \in Nat
    BY <1>t DEF ActionRecord
  <2>2. act' = [act EXCEPT ![a].state = "Running", ![a].attempts = n]
    BY <1>2 DEF Lock
  <2> HIDE DEF n
  <2>3. act' \in [Actions -> ActionRecord]
    BY <1>t, <2>1, <2>2, ActionUpdate
  <2> QED BY <1>2, <2>3 DEF TypeOK, Lock, Goto, Place, Locked
<1>3. CASE SkipHeld(a)
  <2>1. act' \in [Actions -> ActionRecord]
    BY <1>3, <1>t, StateUpdate DEF SkipHeld, SetAct
  <2> QED BY <1>3, <2>1 DEF TypeOK, SkipHeld, Goto, Release, Place
<1>4. CASE Compile(a)
  <2>1. CASE /\ Goto(a, "send")
             /\ IF act[a].preSigned THEN UNCHANGED chain ELSE Compiled(a)
             /\ UNCHANGED <<err, walletLock, permits, faults>>
    <3>1. chain' \in [Actions -> ChainRecord]
      BY <1>t, <1>c, <2>1
    <3> QED BY <1>4, <2>1, <3>1 DEF TypeOK, Compile, Goto, Place, Locked
  <2>2. CASE FailWith(a, "fatal") /\ UNCHANGED <<chain, faults>>
    BY <1>4, <1>t, <2>2, FailWithTypeOK DEF TypeOK, Compile
  <2>3. CASE FailWith(a, "expired") /\ Fault("expiry") /\ UNCHANGED chain
    BY <1>4, <1>t, <1>f, <2>3, FailWithTypeOK DEF TypeOK, Compile, FaultKind
  <2>4. CASE (\E e \in {"retryable", "fatal"} : FailWith(a, e)) /\ Fault("compile") /\ UNCHANGED chain
    BY <1>4, <1>t, <1>f, <2>4, FailWithTypeOK DEF TypeOK, Compile, FaultKind
  <2> QED BY <1>4, <2>1, <2>2, <2>3, <2>4 DEF Compile
<1>5. CASE AcquireSend(a)
  BY <1>5 DEF TypeOK, AcquireSend, Goto, Place, Locked, Sending
<1>6. CASE SendTimesOut(a)
  BY <1>6, <1>t, FailWithTypeOK DEF TypeOK, SendTimesOut
<1>7. CASE SubmitAccepted(a)
  <2>1. act' \in [Actions -> ActionRecord]
    BY <1>7, <1>t, ActionUpdate DEF SubmitAccepted
  <2> QED BY <1>7, <2>1 DEF TypeOK, SubmitAccepted, Goto, Place, Locked, Sending
<1>8. CASE SubmitRejected(a)
  <2>1. CASE /\ Goto(a, "resubmit")
             /\ Compiled(a)
             /\ UNCHANGED <<err, walletLock, permits>>
    BY <1>8, <1>c, <1>f, <2>1 DEF TypeOK, SubmitRejected, Goto, Place, Locked, Sending, FaultKind
  <2>2. CASE (\E e \in {"retryable", "fatal", "vault"} : FailWith(a, e)) /\ UNCHANGED chain
    BY <1>8, <1>t, <1>f, <2>2, FailWithTypeOK DEF TypeOK, SubmitRejected, FaultKind
  <2> QED BY <1>8, <2>1, <2>2 DEF SubmitRejected
<1>9. CASE SubmitUnacknowledged(a)
  <2> DEFINE o == chain[a].open \union {chain[a].gen}
  <2>1. chain' = [chain EXCEPT ![a].open = o]
    BY <1>9 DEF SubmitUnacknowledged
  <2>2. o \in SUBSET Nat
    BY <1>g
  <2> HIDE DEF o
  <2>3. chain' \in [Actions -> ChainRecord]
    BY <1>t, <2>1, <2>2, ChainUpdate
  <2> QED BY <1>9, <1>t, <1>f, <2>3, FailWithTypeOK DEF TypeOK, SubmitUnacknowledged, FaultKind
<1>10. CASE Confirmed(a)
  <2> DEFINE o == chain[a].open \ {chain[a].gen}
             l == chain[a].landed \union {chain[a].gen}
  <2>1. chain' = [chain EXCEPT ![a].open = o, ![a].landed = l]
    BY <1>10 DEF Confirmed
  <2>2. o \in SUBSET Nat /\ l \in SUBSET Nat
    BY <1>g
  <2> HIDE DEF o, l
  <2>3. chain' \in [Actions -> ChainRecord]
    BY <1>t, <2>1, <2>2, ChainUpdate
  <2>4. act' \in [Actions -> ActionRecord]
    <3>1. PICK k \in BOOLEAN : act' = [act EXCEPT ![a].state = "Confirmed", ![a].slotKnown = k]
      BY <1>10 DEF Confirmed
    <3> QED BY <1>t, <3>1, SlotUpdate
  <2>5. faults' \in 0..MaxFaults
    BY <1>10, <1>f DEF Confirmed, FaultKind, TypeOK
  <2> QED BY <1>10, <2>3, <2>4, <2>5 DEF TypeOK, Confirmed, Goto, Release, Place
<1>11. CASE FailedOnChain(a)
  <2> DEFINE o == chain[a].open \ {chain[a].gen}
  <2>1. chain' = [chain EXCEPT ![a].open = o]
    BY <1>11 DEF FailedOnChain
  <2>2. o \in SUBSET Nat
    BY <1>g
  <2> HIDE DEF o
  <2>3. chain' \in [Actions -> ChainRecord]
    BY <1>t, <2>1, <2>2, ChainUpdate
  <2> QED BY <1>11, <1>t, <1>f, <2>3, FailWithTypeOK DEF TypeOK, FailedOnChain, FaultKind
<1>12. CASE Unconfirmed(a)
  <2> DEFINE o == chain[a].open \union {chain[a].gen}
  <2>1. chain' = [chain EXCEPT ![a].open = o, ![a].asked = TRUE]
    BY <1>12 DEF Unconfirmed
  <2>2. o \in SUBSET Nat
    BY <1>g
  <2> HIDE DEF o
  <2>3. chain' \in [Actions -> ChainRecord]
    BY <1>t, <2>1, <2>2, ChainUpdate
  <2> QED BY <1>12, <1>t, <1>f, <2>3, FailWithTypeOK DEF TypeOK, Unconfirmed, FaultKind
<1>13. CASE ConfirmedByAccount(a)
  <2> DEFINE o == chain[a].open \union {chain[a].gen}
  <2>1. chain' = [chain EXCEPT ![a].open = o, ![a].held = TRUE]
    BY <1>13 DEF ConfirmedByAccount
  <2>2. o \in SUBSET Nat
    BY <1>g
  <2> HIDE DEF o
  <2>3. chain' \in [Actions -> ChainRecord]
    BY <1>t, <2>1, <2>2, ChainUpdate
  <2>4. act' \in [Actions -> ActionRecord]
    <3>1. act' = [act EXCEPT ![a].state = "Confirmed", ![a].slotKnown = TRUE]
      BY <1>13 DEF ConfirmedByAccount
    <3> QED BY <1>t, <3>1, SlotUpdate
  <2>5. faults' \in 0..MaxFaults
    BY <1>13, <1>f DEF ConfirmedByAccount, FaultKind
  <2> QED BY <1>13, <2>3, <2>4, <2>5 DEF TypeOK, ConfirmedByAccount, Goto, Release, Place
<1> QED BY <1>1, <1>2, <1>3, <1>4, <1>5, <1>6, <1>7, <1>8, <1>9, <1>10, <1>11, <1>12, <1>13
    DEF Execute, Confirm

\* Every step of a task that decides what to do with an error keeps the types.
LEMMA VerdictTypeOK ==
    ASSUME TypeOK, NEW a \in Actions, Judge(a) \/ Retry(a) \/ GiveUp(a)
    PROVE  TypeOK'
<1> USE DEF around, rest
<1>1. CASE Judge(a)
  <2>1. VerdictOf(a) \in Place
    BY DEF VerdictOf, Place, Verdict
  <2> QED BY <1>1, <2>1 DEF TypeOK, Judge, Goto
<1>2. CASE Retry(a)
  <2> DEFINE p == act[a].preSigned /\ pc[a] = "rearm"
             r == pc[a] = "reset"
             k == act[a].slotKnown /\ pc[a] = "rearm"
  <2>1. act' = [act EXCEPT ![a].state = "Armed", ![a].preSigned = p, ![a].rebuilding = r,
                           ![a].slotKnown = k]
    BY <1>2 DEF Retry
  <2>2. p \in BOOLEAN /\ r \in BOOLEAN /\ k \in BOOLEAN
    OBVIOUS
  <2>3. act \in [Actions -> ActionRecord]
    BY DEF TypeOK
  <2> HIDE DEF p, r, k
  <2> DEFINE x == [act[a] EXCEPT !.state = "Armed", !.preSigned = p]
             y == [x EXCEPT !.rebuilding = r, !.slotKnown = k]
  <2>5. x \in ActionRecord
    BY <2>2, <2>3 DEF ActionRecord, ActionState, PendingAction
  <2>6. act' = [act EXCEPT ![a] = y]
    BY <2>1, <2>3
  <2> HIDE DEF x
  <2>7. y \in ActionRecord
    BY <2>2, <2>5 DEF ActionRecord
  <2> HIDE DEF y
  <2>4. act' \in [Actions -> ActionRecord]
    BY <2>3, <2>6, <2>7
  <2> QED BY <1>2, <2>4 DEF TypeOK, Retry, Goto, Place, ErrClass
<1>3. CASE GiveUp(a)
  <2>1. PICK s \in {"Stopped", "Expired", "Failed"} : act' = [act EXCEPT ![a].state = s]
    BY <1>3 DEF GiveUp, SetAct
  <2>2. act' \in [Actions -> ActionRecord]
    BY <2>1, StateUpdate DEF TypeOK, ActionState, SettledAction
  <2> DEFINE e == runner.taskError \/ (pc[a] = "fail" /\ ~InBatch(a))
  <2>3. runner' = [runner EXCEPT !.taskError = e]
    BY <1>3 DEF GiveUp
  <2>4. e \in BOOLEAN
    BY DEF TypeOK, RunnerRecord
  <2> HIDE DEF e
  <2>5. runner' \in RunnerRecord
    BY <2>3, <2>4 DEF TypeOK, RunnerRecord
  <2> QED BY <1>3, <2>2, <2>5 DEF TypeOK, GiveUp, Goto, Place, ErrClass
<1> QED BY <1>1, <1>2, <1>3

\* Every step of a batch task keeps the types.
LEMMA BatchTypeOK ==
    ASSUME TypeOK, NEW k \in Keys, BatchStep(k)
    PROVE  TypeOK'
<1> USE DEF around
<1>1. \A s \in {"Eligible", "Failed"}, a \in Actions :
        [act[a] EXCEPT !.state = s] \in ActionRecord
  BY DEF TypeOK, ActionRecord, ActionState, PendingAction, SettledAction
<1>2. CASE MarkBatch(k)
  BY <1>1, <1>2 DEF TypeOK, MarkBatch, Place
<1>3. CASE FailBatch(k)
  BY <1>1, <1>3 DEF TypeOK, FailBatch, Place, RunnerRecord
<1> QED BY <1>2, <1>3 DEF BatchStep

\* The ways the setup task ends or starts again keep the types of what they
\* write.
LEMMA SetupOutcomeType ==
    ASSUME TypeOK, NEW o \in SUBSET Nat,
           \/ \E s \in SetupState, e \in {"none", "retryable", "fatal"} : SetupEnds(s, e, o)
           \/ \E g \in Nat : SetupAgain(g, o)
           \/ SetupRetries(o)
    PROVE  /\ setup' \in SetupRecord
           /\ runner' \in RunnerRecord
           /\ permits' \subseteq Actions \union {SetupTask}
<1>1. ASSUME NEW s \in SetupState, NEW e \in {"none", "retryable", "fatal"}, SetupEnds(s, e, o)
      PROVE  setup' \in SetupRecord /\ runner' \in RunnerRecord
  BY <1>1 DEF TypeOK, SetupEnds, SetupRecord, SetupPlace, RunnerRecord
<1>n. ASSUME setup.tries < MaxSetupTries PROVE setup.tries + 1 \in 0..MaxSetupTries
  <2>1. setup.tries \in 0..MaxSetupTries
    BY DEF TypeOK, SetupRecord
  <2> QED BY <1>n, <2>1 DEF MaxSetupTries
<1>2. ASSUME NEW g \in Nat, SetupAgain(g, o)
      PROVE  setup' \in SetupRecord /\ runner' \in RunnerRecord
  <2> DEFINE n == setup.tries + 1
  <2>1. n \in 0..MaxSetupTries
    BY <1>2, <1>n DEF SetupAgain
  <2>2. setup' = [setup EXCEPT !.state = "Queued", !.pc = "mark", !.tries = n, !.gen = g, !.open = o]
    BY <1>2 DEF SetupAgain
  <2> HIDE DEF n
  <2> QED BY <1>2, <2>1, <2>2 DEF TypeOK, SetupAgain, SetupRecord, SetupPlace, SetupState
<1>3. ASSUME setup.tries < MaxSetupTries,
             setup' = [setup EXCEPT !.state = "Queued", !.pc = "backoff", !.tries = @ + 1,
                                    !.open = o]
      PROVE  setup' \in SetupRecord
  <2> DEFINE n == setup.tries + 1
  <2>1. n \in 0..MaxSetupTries
    BY <1>3, <1>n
  <2>2. setup' = [setup EXCEPT !.state = "Queued", !.pc = "backoff", !.tries = n, !.open = o]
    BY <1>3
  <2> HIDE DEF n
  <2> QED BY <2>1, <2>2 DEF TypeOK, SetupRecord, SetupPlace, SetupState
<1>4. ASSUME SetupRetries(o)
      PROVE  /\ setup' \in SetupRecord
             /\ runner' \in RunnerRecord
             /\ permits' \subseteq Actions \union {SetupTask}
  <2>1. CASE SetupEnds("Failed", "retryable", o)
    BY <1>1, <2>1 DEF TypeOK, SetupEnds, SetupState
  <2>2. CASE ~SetupEnds("Failed", "retryable", o)
    BY <1>3, <1>4, <2>2 DEF TypeOK, SetupRetries
  <2> QED BY <2>1, <2>2
<1> QED BY <1>1, <1>2, <1>4 DEF TypeOK, SetupEnds, SetupAgain

\* Every step of the deferred setup task keeps the types.
LEMMA SetupTypeOK ==
    ASSUME TypeOK, SetupStep
    PROVE  TypeOK'
<1> USE DEF beside
<1>t. /\ setup.gen \in Nat
      /\ setup.gen + 1 \in Nat
      /\ setup.open \in SUBSET Nat
      /\ setup.open \union {setup.gen} \in SUBSET Nat
      /\ setup.open \ {setup.gen} \in SUBSET Nat
      /\ setup.landed \union {setup.gen} \in SUBSET Nat
      /\ {"Running", "Sent", "Confirmed", "Failed"} \subseteq SetupState
  BY DEF TypeOK, SetupRecord, SetupState
<1>f. ASSUME NEW f \in FaultKind, Fault(f) PROVE faults' \in 0..MaxFaults
  BY <1>f, ParameterTypes DEF Fault, TypeOK
<1>1. CASE SetupRead
  <2>1. (\E a \in Actions : BlocksSetup(a)) \in BOOLEAN
    OBVIOUS
  <2> QED BY <1>1, <2>1 DEF TypeOK, SetupRead, SetupRecord, SetupPlace
<1>2. CASE SetupLaunch
  BY <1>2 DEF TypeOK, SetupLaunch, SetupRecord, SetupPlace, RunnerRecord
<1>3. CASE SetupMark
  BY <1>3 DEF TypeOK, SetupMark, SetupRecord, SetupPlace, SetupState
<1>4. CASE SetupAcquire
  BY <1>4 DEF TypeOK, SetupAcquire, SetupRecord, SetupPlace
<1>5. CASE SetupTimesOut
  BY <1>5, <1>t, SetupOutcomeType DEF TypeOK, SetupTimesOut
<1>6. CASE SetupAccepted
  BY <1>6 DEF TypeOK, SetupAccepted, SetupRecord, SetupPlace, SetupState
<1>7. CASE SetupRejected
  BY <1>7, <1>t, <1>f, SetupOutcomeType DEF TypeOK, SetupRejected, FaultKind
<1>8. CASE SetupUnacknowledged
  BY <1>8, <1>t, <1>f, SetupOutcomeType DEF TypeOK, SetupUnacknowledged, FaultKind
<1>9. CASE SetupConfirmed
  <2> DEFINE o == setup.open \ {setup.gen}
             l == setup.landed \union {setup.gen}
  <2>1. setup' = [setup EXCEPT !.state = "Confirmed", !.pc = "done", !.open = o, !.landed = l]
    BY <1>9 DEF SetupConfirmed
  <2>2. o \in SUBSET Nat /\ l \in SUBSET Nat
    BY <1>t
  <2> HIDE DEF o, l
  <2>3. setup' \in SetupRecord
    BY <1>t, <2>1, <2>2 DEF TypeOK, SetupRecord, SetupPlace
  <2> QED BY <1>9, <2>3 DEF TypeOK, SetupConfirmed
<1>10. CASE SetupUnconfirmed
  <2> DEFINE o == setup.open \union {setup.gen}
  <2>1. \/ SetupAgain(setup.gen, o)
        \/ \E e \in {"retryable", "fatal"} : SetupEnds("Failed", e, o)
    BY <1>10 DEF SetupUnconfirmed
  <2>2. o \in SUBSET Nat
    BY <1>t
  <2> HIDE DEF o
  <2>3. /\ setup' \in SetupRecord
        /\ runner' \in RunnerRecord
        /\ permits' \subseteq Actions \union {SetupTask}
    BY <1>t, <2>1, <2>2, SetupOutcomeType
  <2> QED BY <1>10, <1>f, <2>3 DEF TypeOK, SetupUnconfirmed, FaultKind
<1>11. CASE SetupFailedOnChain
  BY <1>11, <1>t, <1>f, SetupOutcomeType DEF TypeOK, SetupFailedOnChain, FaultKind
<1>12. CASE SetupBacksOff
  BY <1>12 DEF TypeOK, SetupBacksOff, SetupRecord, SetupPlace
<1> QED BY <1>1, <1>2, <1>3, <1>4, <1>5, <1>6, <1>7, <1>8, <1>9, <1>10, <1>11, <1>12 DEF SetupStep

\* The store and the tasks only ever hold what the records of follow.rs and
\* the places of the daemon's tasks allow, for every job, every number of
\* actions and wallets and every number of faults.
THEOREM TypeCorrect == Spec => []TypeOK
<1>1. Init => TypeOK
  BY ParameterTypes DEF Init, TypeOK, JobRecord, JobState, ActiveJob, ActionRecord, ActionState,
     PendingAction, SetupRecord, SetupState, SetupPlace, MaxSetupTries, RunnerRecord, RunnerPlace,
     TerminalJob, Place, ErrClass, WatchRecord, WatchValue, ChainRecord
<1>2. TypeOK /\ [Next]_vars => TypeOK'
  <2> SUFFICES ASSUME TypeOK, [Next]_vars PROVE TypeOK'
    OBVIOUS
  <2>1. ASSUME NEW a \in Actions, TaskStep(a) PROVE TypeOK'
    BY <2>1, WaitTypeOK, ExecuteTypeOK, VerdictTypeOK DEF TaskStep, RunsOn
  <2>2. ASSUME NEW k \in Keys, BatchStep(k) PROVE TypeOK'
    BY <2>2, BatchTypeOK
  <2>3. CASE SetupStep
    BY <2>3, SetupTypeOK
  <2>4. CASE Finished \/ UNCHANGED vars
    BY <2>4 DEF Finished, vars, TypeOK
  <2> QED BY <2>1, <2>2, <2>3, <2>4, AroundTypeOK DEF Next
<1> QED BY <1>1, <1>2, PTL DEF Spec

-----------------------------------------------------------------------------
(***************************************************************************)
(* Invariants. Each section states what a property needs to be inductive,  *)
(* shows it is kept by every step, and ends with the theorem.              *)
(***************************************************************************)

\* The steps of the task of an action one by one.
LEMMA TaskSteps ==
    ASSUME NEW a \in Actions, TaskStep(a)
    PROVE  \/ Loop(a) \/ AnchorAtLaunch(a) \/ AnchorAtBuy(a) \/ TriggerMet(a)
           \/ TriggerFails(a) \/ SetupAwaited(a) \/ WaitAborts(a) \/ Mark(a)
           \/ Precheck(a) \/ Lock(a) \/ SkipHeld(a) \/ Compile(a) \/ AcquireSend(a)
           \/ SendTimesOut(a) \/ SubmitAccepted(a) \/ SubmitRejected(a)
           \/ SubmitUnacknowledged(a) \/ Confirmed(a) \/ ConfirmedByAccount(a)
           \/ FailedOnChain(a) \/ Unconfirmed(a) \/ Judge(a) \/ Retry(a) \/ GiveUp(a)
BY DEF TaskStep, RunsOn, Wait, Execute, Confirm

-----------------------------------------------------------------------------
(* One action at a time with a wallet                                      *)

\* WalletMutex follows from the lock itself: who is past Lock holds it.
HoldsLock == \A a \in Actions : pc[a] \in Locked => walletLock[WalletOf[a]] = a

\* A task that drops its guards leaves the locks of the others alone.
LEMMA ReleaseHoldsLock ==
    ASSUME TypeOK, HoldsLock, NEW a \in Actions, NEW p \in Place \ Locked,
           Goto(a, p), Release(a)
    PROVE  HoldsLock'
BY ParameterTypes DEF HoldsLock, Goto, Release, TypeOK

\* No step but Lock takes a task to where the lock is needed.
LEMMA StayHoldsLock ==
    ASSUME TypeOK, HoldsLock, UNCHANGED walletLock,
           \A a \in Actions : pc'[a] \in Locked => pc[a] \in Locked
    PROVE  HoldsLock'
BY DEF HoldsLock

LEMMA FailHoldsLock ==
    ASSUME TypeOK, HoldsLock, NEW a \in Actions, NEW e, FailWith(a, e)
    PROVE  HoldsLock'
<1>1. "judge" \in Place \ Locked
  BY DEF Place, Locked, Sending
<1> QED BY <1>1, ReleaseHoldsLock DEF FailWith

LEMMA GotoHoldsLock ==
    ASSUME TypeOK, HoldsLock, NEW a \in Actions, NEW p \in Place, Goto(a, p),
           UNCHANGED walletLock, p \in Locked => pc[a] \in Locked
    PROVE  HoldsLock'
BY StayHoldsLock DEF Goto, TypeOK

LEMMA TaskHoldsLock ==
    ASSUME TypeOK, HoldsLock, NEW a \in Actions, TaskStep(a)
    PROVE  HoldsLock'
<1> USE DEF rest
<1>p. /\ {"loop", "anchor", "trigger", "setup", "mark", "precheck", "lock", "judge",
          "rearm", "reset", "rebuild", "stop", "expire", "fail", "done"} \subseteq Place \ Locked
      /\ {"compile", "send", "submit", "resubmit", "confirm"} \subseteq Place \intersect Locked
  BY DEF Place, Waiting, Locked, Sending, Verdict
<1>1. CASE Loop(a)
  BY <1>1, <1>p, GotoHoldsLock DEF Loop, FirstWait
<1>2. CASE AnchorAtLaunch(a)
  BY <1>2, <1>p, GotoHoldsLock, FailHoldsLock DEF AnchorAtLaunch
<1>3. CASE AnchorAtBuy(a)
  BY <1>3, <1>p, GotoHoldsLock, FailHoldsLock DEF AnchorAtBuy
<1>4. CASE TriggerMet(a)
  BY <1>4, <1>p, GotoHoldsLock DEF TriggerMet
<1>5. CASE TriggerFails(a)
  BY <1>5, FailHoldsLock DEF TriggerFails
<1>6. CASE SetupAwaited(a)
  BY <1>6, <1>p, GotoHoldsLock, FailHoldsLock DEF SetupAwaited
<1>7. CASE WaitAborts(a)
  BY <1>7, FailHoldsLock DEF WaitAborts
<1>8. CASE Mark(a)
  BY <1>8, <1>p, GotoHoldsLock, FailHoldsLock DEF Mark
<1>9. CASE Precheck(a)
  BY <1>9, <1>p, GotoHoldsLock, FailHoldsLock DEF Precheck
<1>10. CASE Lock(a)
  <2>1. walletLock[WalletOf[a]] = None
    BY <1>10 DEF Lock
  <2>2. walletLock' = [walletLock EXCEPT ![WalletOf[a]] = a]
    BY <1>10 DEF Lock
  <2>3. pc' = [pc EXCEPT ![a] = "compile"]
    BY <1>10 DEF Lock, Goto
  <2>4. ASSUME NEW b \in Actions, pc'[b] \in Locked PROVE walletLock'[WalletOf[b]] = b
    <3>1. CASE b = a
      BY <2>2, <3>1, ParameterTypes DEF TypeOK
    <3>2. CASE b # a
      <4>1. walletLock[WalletOf[b]] = b
        BY <2>3, <2>4, <3>2 DEF HoldsLock, TypeOK
      <4>2. WalletOf[b] # WalletOf[a]
        BY <2>1, <4>1, ParameterTypes
      <4> QED BY <2>2, <4>1, <4>2, ParameterTypes DEF TypeOK
    <3> QED BY <3>1, <3>2
  <2> QED BY <2>4 DEF HoldsLock
<1>11. CASE SkipHeld(a)
  BY <1>11, <1>p, ReleaseHoldsLock DEF SkipHeld
<1>12. CASE Compile(a)
  BY <1>12, <1>p, GotoHoldsLock, FailHoldsLock DEF Compile
<1>13. CASE AcquireSend(a)
  BY <1>13, <1>p, GotoHoldsLock DEF AcquireSend
<1>14. CASE SendTimesOut(a)
  BY <1>14, FailHoldsLock DEF SendTimesOut
<1>15. CASE SubmitAccepted(a)
  BY <1>15, <1>p, GotoHoldsLock DEF SubmitAccepted
<1>16. CASE SubmitRejected(a)
  BY <1>16, <1>p, GotoHoldsLock, FailHoldsLock DEF SubmitRejected
<1>17. CASE SubmitUnacknowledged(a)
  BY <1>17, FailHoldsLock DEF SubmitUnacknowledged
<1>18. CASE Confirmed(a)
  BY <1>18, <1>p, ReleaseHoldsLock DEF Confirmed
<1>19. CASE FailedOnChain(a)
  BY <1>19, FailHoldsLock DEF FailedOnChain
<1>20. CASE Unconfirmed(a)
  BY <1>20, FailHoldsLock DEF Unconfirmed
<1>21. CASE Judge(a)
  BY <1>21, <1>p, GotoHoldsLock DEF Judge, VerdictOf
<1>22. CASE Retry(a)
  BY <1>22, <1>p, GotoHoldsLock DEF Retry
<1>23. CASE GiveUp(a)
  BY <1>23, <1>p, GotoHoldsLock DEF GiveUp
<1>24. CASE ConfirmedByAccount(a)
  BY <1>24, <1>p, ReleaseHoldsLock DEF ConfirmedByAccount
<1> QED BY <1>1, <1>2, <1>3, <1>4, <1>5, <1>6, <1>7, <1>8, <1>9, <1>10, <1>11, <1>12, <1>13,
       <1>14, <1>15, <1>16, <1>17, <1>18, <1>19, <1>20, <1>21, <1>22, <1>23, <1>24, TaskSteps

LEMMA NextHoldsLock ==
    ASSUME TypeOK, HoldsLock, [Next]_vars
    PROVE  HoldsLock'
<1>1. ASSUME NEW a \in Actions, TaskStep(a) PROVE HoldsLock'
  BY <1>1, TaskHoldsLock
<1>2. CASE RunSpawn
  <2>1. \A a \in Actions : pc'[a] \in {"loop", "held", "anchor", "trigger"}
    BY <1>2 DEF RunSpawn, FirstWait
  <2>2. \A a \in Actions : pc'[a] \notin Locked
    BY <2>1 DEF Locked, Sending
  <2> QED BY <1>2, <2>2, StayHoldsLock DEF RunSpawn
<1>3. ASSUME NEW k \in Keys, BatchStep(k) PROVE HoldsLock'
  <2>1. /\ UNCHANGED walletLock
        /\ \A a \in Actions : pc'[a] \in {pc[a], "loop", "done"}
    BY <1>3 DEF BatchStep, MarkBatch, FailBatch, TypeOK
  <2>2. \A a \in Actions : pc'[a] \in Locked => pc[a] \in Locked
    BY <2>1 DEF Locked, Sending
  <2> QED BY <2>1, <2>2, StayHoldsLock
<1>4. CASE UNCHANGED <<pc, walletLock>>
  BY <1>4 DEF HoldsLock
<1>5. CASE SetupStep
  BY <1>5, <1>4 DEF SetupStep, SetupRead, SetupLaunch, SetupMark, SetupAcquire, SetupTimesOut,
     SetupAccepted, SetupRejected, SetupUnacknowledged, SetupBacksOff, SetupConfirmed,
     SetupUnconfirmed, SetupFailedOnChain, beside
<1>6. CASE \/ Arm \/ CancelJob \/ \E a \in Actions : CancelAction(a)
           \/ LaunchConfirmed \/ \E w \in {"launch", "slot", "market"} : WatcherFails(w)
           \/ \E a \in Actions : FallsDue(a)
           \/ \E a \in Actions : Settle(a)
           \/ SettleSetup \/ RunStart \/ RunJoined \/ RunFinish \/ Finished \/ UNCHANGED vars
  BY <1>6, <1>4 DEF Arm, CancelJob, CancelAction, LaunchConfirmed, WatcherFails,
     FallsDue, Settle, SettleSetup, RunStart, RunJoined, RunFinish, Finished, vars
<1> QED BY <1>1, <1>2, <1>3, <1>5, <1>6 DEF Next, RunStep

\* Whatever fails, is retried, reset or cancelled, two actions of one wallet
\* are never compiled, sent or confirmed together: the guard of the wallet's
\* lock is dropped on every way out of execute_action.
THEOREM WalletMutexHolds == Spec => []WalletMutex
<1>1. Init => HoldsLock
  BY DEF Init, HoldsLock, Locked, Sending
<1>2. HoldsLock => WalletMutex
  BY DEF HoldsLock, WalletMutex
<1> QED BY <1>1, <1>2, TypeCorrect, NextHoldsLock, PTL DEF Spec

-----------------------------------------------------------------------------
(* No more senders than send slots                                         *)

\* Who submits or confirms holds a permit, and there are only so many.
HoldsPermit ==
    /\ \A a \in Actions : pc[a] \in Sending => a \in permits
    /\ setup.pc \in {"submit", "confirm"} => SetupTask \in permits
    /\ IsFiniteSet(permits)
    /\ Cardinality(permits) <= SendSlots

\* No task comes to send, and nobody gives up a permit it needs.
LEMMA KeepHoldsPermit ==
    ASSUME HoldsPermit, UNCHANGED permits,
           \A a \in Actions : pc'[a] \in Sending => pc[a] \in Sending,
           setup'.pc \in {"submit", "confirm"} => setup.pc \in {"submit", "confirm"}
    PROVE  HoldsPermit'
BY DEF HoldsPermit

LEMMA DropHoldsPermit ==
    ASSUME HoldsPermit, NEW x, permits' = permits \ {x},
           \A a \in Actions : pc'[a] \in Sending => pc[a] \in Sending /\ a # x,
           setup'.pc \in {"submit", "confirm"} =>
               setup.pc \in {"submit", "confirm"} /\ x # SetupTask
    PROVE  HoldsPermit'
<1>1. IsFiniteSet(permits') /\ Cardinality(permits') <= Cardinality(permits)
  BY FS_Subset DEF HoldsPermit
<1>2. Cardinality(permits) \in Nat /\ Cardinality(permits') \in Nat
  BY <1>1, FS_CardinalityType DEF HoldsPermit
<1>3. Cardinality(permits') <= SendSlots
  BY <1>1, <1>2, ParameterTypes DEF HoldsPermit
<1> QED BY <1>1, <1>3 DEF HoldsPermit

LEMMA TakeHoldsPermit ==
    ASSUME HoldsPermit, PermitFree, NEW x, permits' = permits \union {x},
           \A a \in Actions : pc'[a] \in Sending => pc[a] \in Sending \/ a = x,
           setup'.pc \in {"submit", "confirm"} =>
               setup.pc \in {"submit", "confirm"} \/ x = SetupTask
    PROVE  HoldsPermit'
<1>1. Cardinality(permits) \in Nat
  BY FS_CardinalityType DEF HoldsPermit
<1>2. /\ IsFiniteSet(permits')
      /\ Cardinality(permits') = IF x \in permits THEN Cardinality(permits)
                                                  ELSE Cardinality(permits) + 1
  BY FS_AddElement DEF HoldsPermit
<1>3. Cardinality(permits') <= SendSlots
  BY <1>1, <1>2, ParameterTypes DEF HoldsPermit, PermitFree
<1> QED BY <1>2, <1>3 DEF HoldsPermit

\* A task that drops its guards, as it does whenever it fails.
LEMMA ReleaseHoldsPermit ==
    ASSUME TypeOK, HoldsPermit, NEW a \in Actions, NEW p \in Place \ Sending,
           Goto(a, p), Release(a), UNCHANGED setup
    PROVE  HoldsPermit'
<1>1. \A b \in Actions : pc'[b] = IF b = a THEN p ELSE pc[b]
  BY DEF Goto, TypeOK
<1> QED BY <1>1, SetupIsNoAction, DropHoldsPermit DEF Release

LEMMA FailHoldsPermit ==
    ASSUME TypeOK, HoldsPermit, NEW a \in Actions, NEW e, FailWith(a, e), UNCHANGED setup
    PROVE  HoldsPermit'
<1>1. "judge" \in Place \ Sending
  BY DEF Place, Sending
<1> QED BY <1>1, ReleaseHoldsPermit DEF FailWith

LEMMA GotoHoldsPermit ==
    ASSUME TypeOK, HoldsPermit, NEW a \in Actions, NEW p \in Place, Goto(a, p),
           UNCHANGED <<permits, setup>>, p \in Sending => pc[a] \in Sending
    PROVE  HoldsPermit'
BY KeepHoldsPermit DEF Goto, TypeOK

LEMMA TaskHoldsPermit ==
    ASSUME TypeOK, HoldsPermit, NEW a \in Actions, TaskStep(a)
    PROVE  HoldsPermit'
<1> USE DEF rest, around
<1>p. /\ {"loop", "anchor", "trigger", "setup", "mark", "precheck", "lock", "compile",
          "send", "judge", "rearm", "reset", "rebuild", "stop", "expire", "fail", "done"}
            \subseteq Place \ Sending
      /\ {"submit", "resubmit", "confirm"} \subseteq Place \intersect Sending
  BY DEF Place, Waiting, Locked, Sending, Verdict
<1>1. CASE Loop(a)
  BY <1>1, <1>p, GotoHoldsPermit DEF Loop, FirstWait
<1>2. CASE AnchorAtLaunch(a)
  BY <1>2, <1>p, GotoHoldsPermit, FailHoldsPermit DEF AnchorAtLaunch
<1>3. CASE AnchorAtBuy(a)
  BY <1>3, <1>p, GotoHoldsPermit, FailHoldsPermit DEF AnchorAtBuy
<1>4. CASE TriggerMet(a)
  BY <1>4, <1>p, GotoHoldsPermit DEF TriggerMet
<1>5. CASE TriggerFails(a)
  BY <1>5, FailHoldsPermit DEF TriggerFails
<1>6. CASE SetupAwaited(a)
  BY <1>6, <1>p, GotoHoldsPermit, FailHoldsPermit DEF SetupAwaited
<1>7. CASE WaitAborts(a)
  BY <1>7, FailHoldsPermit DEF WaitAborts
<1>8. CASE Mark(a)
  BY <1>8, <1>p, GotoHoldsPermit, FailHoldsPermit DEF Mark
<1>9. CASE Precheck(a)
  BY <1>9, <1>p, GotoHoldsPermit, FailHoldsPermit DEF Precheck
<1>10. CASE Lock(a)
  BY <1>10, <1>p, GotoHoldsPermit DEF Lock
<1>11. CASE SkipHeld(a)
  BY <1>11, <1>p, ReleaseHoldsPermit DEF SkipHeld
<1>12. CASE Compile(a)
  BY <1>12, <1>p, GotoHoldsPermit, FailHoldsPermit DEF Compile
<1>13. CASE AcquireSend(a)
  BY <1>13, TakeHoldsPermit DEF AcquireSend, Goto, TypeOK
<1>14. CASE SendTimesOut(a)
  BY <1>14, FailHoldsPermit DEF SendTimesOut
<1>15. CASE SubmitAccepted(a)
  BY <1>15, <1>p, GotoHoldsPermit DEF SubmitAccepted
<1>16. CASE SubmitRejected(a)
  BY <1>16, <1>p, GotoHoldsPermit, FailHoldsPermit DEF SubmitRejected
<1>17. CASE SubmitUnacknowledged(a)
  BY <1>17, FailHoldsPermit DEF SubmitUnacknowledged
<1>18. CASE Confirmed(a)
  BY <1>18, <1>p, ReleaseHoldsPermit DEF Confirmed
<1>19. CASE FailedOnChain(a)
  BY <1>19, FailHoldsPermit DEF FailedOnChain
<1>20. CASE Unconfirmed(a)
  BY <1>20, FailHoldsPermit DEF Unconfirmed
<1>21. CASE Judge(a)
  BY <1>21, <1>p, GotoHoldsPermit DEF Judge, VerdictOf
<1>22. CASE Retry(a)
  BY <1>22, <1>p, GotoHoldsPermit DEF Retry
<1>23. CASE GiveUp(a)
  BY <1>23, <1>p, GotoHoldsPermit DEF GiveUp
<1>24. CASE ConfirmedByAccount(a)
  BY <1>24, <1>p, ReleaseHoldsPermit DEF ConfirmedByAccount
<1> QED BY <1>1, <1>2, <1>3, <1>4, <1>5, <1>6, <1>7, <1>8, <1>9, <1>10, <1>11, <1>12, <1>13,
       <1>14, <1>15, <1>16, <1>17, <1>18, <1>19, <1>20, <1>21, <1>22, <1>23, <1>24, TaskSteps

\* The setup task takes its permit when it comes to submit, and gives it up
\* with every outcome.
LEMMA SetupHoldsPermit ==
    ASSUME TypeOK, HoldsPermit, SetupStep
    PROVE  HoldsPermit'
<1> USE DEF beside
<1>1. ASSUME UNCHANGED <<pc, permits>>,
             setup'.pc \in {"submit", "confirm"} => setup.pc \in {"submit", "confirm"}
      PROVE  HoldsPermit'
  BY <1>1, KeepHoldsPermit
<1>2. ASSUME UNCHANGED pc, permits' = permits \ {SetupTask},
             setup'.pc \in {"mark", "done"}
      PROVE  HoldsPermit'
  BY <1>2, SetupIsNoAction, DropHoldsPermit
<1>3. ASSUME NEW s, NEW e, NEW open, UNCHANGED pc, SetupEnds(s, e, open)
      PROVE  HoldsPermit'
  BY <1>2, <1>3 DEF SetupEnds, TypeOK, SetupRecord
<1>4. ASSUME NEW gen, NEW open, UNCHANGED pc, SetupAgain(gen, open)
      PROVE  HoldsPermit'
  BY <1>2, <1>4 DEF SetupAgain, TypeOK, SetupRecord
<1>5. CASE SetupRead \/ SetupLaunch \/ SetupMark \/ SetupAccepted
  BY <1>1, <1>5 DEF SetupRead, SetupLaunch, SetupMark, SetupAccepted, TypeOK, SetupRecord
<1>6. CASE SetupAcquire
  BY <1>6, TakeHoldsPermit DEF SetupAcquire
<1>7. CASE SetupConfirmed
  BY <1>2, <1>7 DEF SetupConfirmed, TypeOK, SetupRecord
<1>8. CASE SetupTimesOut
  BY <1>3, <1>8 DEF SetupTimesOut
<1>r. ASSUME NEW open, UNCHANGED pc, SetupRetries(open) PROVE HoldsPermit'
  <2>1. CASE SetupEnds("Failed", "retryable", open)
    BY <1>3, <1>r, <2>1
  <2>2. CASE ~SetupEnds("Failed", "retryable", open)
    BY <1>1, <1>r, <2>2 DEF SetupRetries, TypeOK, SetupRecord
  <2> QED BY <2>1, <2>2
<1>9. CASE SetupRejected \/ SetupUnacknowledged
  BY <1>3, <1>r, <1>9 DEF SetupRejected, SetupUnacknowledged
<1>10. CASE SetupFailedOnChain \/ SetupUnconfirmed
  BY <1>3, <1>4, <1>10 DEF SetupFailedOnChain, SetupUnconfirmed
<1>11. CASE SetupBacksOff
  BY <1>2, <1>11 DEF SetupBacksOff, TypeOK, SetupRecord
<1> QED BY <1>5, <1>6, <1>7, <1>8, <1>9, <1>10, <1>11 DEF SetupStep

LEMMA NextHoldsPermit ==
    ASSUME TypeOK, HoldsPermit, [Next]_vars
    PROVE  HoldsPermit'
<1>1. ASSUME NEW a \in Actions, TaskStep(a) PROVE HoldsPermit'
  BY <1>1, TaskHoldsPermit
<1>2. CASE SetupStep
  BY <1>2, SetupHoldsPermit
<1>3. CASE RunSpawn
  <2>1. \A a \in Actions : pc'[a] \in {"loop", "held", "anchor", "trigger"}
    BY <1>3 DEF RunSpawn, FirstWait
  <2>2. setup'.pc \in {"read", "off"}
    BY <1>3 DEF RunSpawn, TypeOK, SetupRecord
  <2> QED BY <1>3, <2>1, <2>2, KeepHoldsPermit DEF RunSpawn, Sending
<1>4. ASSUME NEW k \in Keys, BatchStep(k) PROVE HoldsPermit'
  <2>1. /\ UNCHANGED <<permits, setup>>
        /\ \A a \in Actions : pc'[a] \in {pc[a], "loop", "done"}
    BY <1>4 DEF BatchStep, MarkBatch, FailBatch, TypeOK, around
  <2>2. \A a \in Actions : pc'[a] \in Sending => pc[a] \in Sending
    BY <2>1 DEF Sending
  <2> QED BY <2>1, <2>2, KeepHoldsPermit
<1>5. CASE UNCHANGED <<pc, permits, setup>>
  BY <1>5, KeepHoldsPermit
<1>6. CASE SettleSetup
  <2>1. UNCHANGED <<pc, permits>> /\ setup'.pc = setup.pc
    BY <1>6 DEF SettleSetup, TypeOK, SetupRecord
  <2> QED BY <2>1, KeepHoldsPermit
<1>7. CASE \/ Arm \/ CancelJob \/ \E a \in Actions : CancelAction(a)
           \/ LaunchConfirmed \/ \E w \in {"launch", "slot", "market"} : WatcherFails(w)
           \/ \E a \in Actions : FallsDue(a)
           \/ \E a \in Actions : Settle(a)
           \/ RunStart \/ RunJoined \/ RunFinish \/ Finished \/ UNCHANGED vars
  BY <1>5, <1>7 DEF Arm, CancelJob, CancelAction, LaunchConfirmed, WatcherFails, FallsDue,
     Settle, RunStart, RunJoined, RunFinish, Finished, vars
<1> QED BY <1>1, <1>2, <1>3, <1>4, <1>6, <1>7 DEF Next, RunStep

\* Submissions and confirmations, that of the deferred setup among them, never
\* outnumber LAUNCHDECK_FOLLOW_MAX_CONCURRENT_SENDS: a permit is given up only
\* by who no longer sends, and on every way out.
THEOREM SendBoundHolds == Spec => []SendBound
<1>1. Init => HoldsPermit
  BY FS_EmptySet, ParameterTypes DEF Init, HoldsPermit, Sending
<1>2. HoldsPermit => SendBound
  <2> SUFFICES ASSUME HoldsPermit PROVE SendBound
    OBVIOUS
  <2>1. Senders \subseteq permits
    BY DEF HoldsPermit, Senders
  <2>2. Cardinality(Senders) <= Cardinality(permits) /\ IsFiniteSet(Senders)
    BY <2>1, FS_Subset DEF HoldsPermit
  <2>3. Cardinality(permits) \in Nat /\ Cardinality(Senders) \in Nat
    BY <2>2, FS_CardinalityType DEF HoldsPermit
  <2> QED BY <2>2, <2>3, ParameterTypes DEF HoldsPermit, SendBound
<1> QED BY <1>1, <1>2, TypeCorrect, NextHoldsPermit, PTL DEF Spec

-----------------------------------------------------------------------------
(* A step of the task of an action *)

\* Past the wait for the buy, and not yet at the verdict.
PastAnchor == {"trigger", "setup", "mark", "precheck", "lock"} \union Locked

\* Ended, or sent: should_retry_action leaves it alone.
Rested == SettledAction \union {"Sent"}

Effect(a) ==
    /\ chain[a].landed \subseteq chain'[a].landed
    /\ chain[a].held => chain'[a].held
    \* Only a confirmation without an answer is asked in vain.
    /\ chain'[a].asked =>
         \/ chain[a].asked
         \/ pc[a] = "confirm" /\ pc'[a] = "judge" /\ err'[a] = "retryable" /\ act'[a] = act[a]
    /\ pc'[a] = "confirm" => act'[a].state = "Sent"
    \* A batch waits with the task of its first action.
    /\ pc[a] \in {"held", "mark", "judge"} \union Waiting /\ batch[TriggerKey[a]]
         => pc'[a] \in {"mark", "judge"} \union Waiting
    /\ pc[a] = "judge" => pc'[a] = VerdictOf(a)
    /\ pc[a] = "fail" => pc'[a] = "done"
    /\ pc[a] \notin {"none", "held", "done"}
    /\ act'[a].state = "Confirmed" => act[a].state = "Confirmed" \/ HasTokens(a)'
    /\ Kind[a] = "SniperSell" /\ pc'[a] \in PastAnchor =>
         \/ pc[a] \in PastAnchor
         \/ act[MatchingBuy(a)].state = "Confirmed"
         \/ act[a].state = "Eligible"
    /\ act'[a].state = "Eligible" => act[a].state = "Eligible" \/ pc[a] = "mark"

Others(a) ==
    /\ \A b \in Actions : b # a => /\ pc'[b] = pc[b] /\ act'[b] = act[b]
                                   /\ err'[b] = err[b] /\ chain'[b] = chain[b]
    /\ batch' = batch /\ runner'.pc = runner.pc

LEMMA TaskOthers ==
    ASSUME TypeOK, NEW a \in Actions, TaskStep(a)
    PROVE  Others(a)
<1> USE DEF Others, around, rest, Goto, FailWith, SetAct, Compiled
<1>1. CASE Loop(a) \/ AnchorAtLaunch(a) \/ AnchorAtBuy(a) \/ TriggerMet(a)
           \/ TriggerFails(a) \/ SetupAwaited(a) \/ WaitAborts(a) \/ Mark(a)
  BY <1>1 DEF TypeOK, Loop, AnchorAtLaunch, AnchorAtBuy, TriggerMet, TriggerFails,
              SetupAwaited, WaitAborts, Mark
<1>2. CASE Precheck(a) \/ Lock(a) \/ SkipHeld(a) \/ Compile(a) \/ AcquireSend(a)
           \/ SendTimesOut(a)
  BY <1>2 DEF TypeOK, Precheck, Lock, SkipHeld, Compile, AcquireSend, SendTimesOut
<1>3. CASE SubmitAccepted(a) \/ SubmitRejected(a) \/ SubmitUnacknowledged(a)
           \/ Confirmed(a) \/ ConfirmedByAccount(a) \/ FailedOnChain(a)
           \/ Unconfirmed(a)
  BY <1>3 DEF TypeOK, SubmitAccepted, SubmitRejected, SubmitUnacknowledged, Confirmed,
              ConfirmedByAccount, FailedOnChain, Unconfirmed
<1>4. CASE Judge(a) \/ Retry(a) \/ GiveUp(a)
  BY <1>4 DEF TypeOK, Judge, Retry, GiveUp, RunnerRecord
<1> QED BY <1>1, <1>2, <1>3, <1>4, TaskSteps

LEMMA TaskEffect ==
    ASSUME TypeOK, NEW a \in Actions, TaskStep(a)
    PROVE  Effect(a)
<1> USE DEF Effect, around, rest, Goto, FailWith, SetAct, Waiting, Locked, Sending, PastAnchor
<1>t. /\ act[a] \in ActionRecord /\ chain[a] \in ChainRecord
      /\ pc \in [Actions -> Place] /\ act \in [Actions -> ActionRecord]
      /\ err \in [Actions -> ErrClass] /\ chain \in [Actions -> ChainRecord]
  BY DEF TypeOK
<1>1. CASE Loop(a)
  BY <1>1, <1>t DEF Loop, FirstWait, ActionRecord
<1>2. CASE AnchorAtLaunch(a)
  BY <1>2, <1>t DEF AnchorAtLaunch, AwaitsLaunch
<1>3. CASE AnchorAtBuy(a)
  BY <1>3, <1>t DEF AnchorAtBuy
<1>4. CASE TriggerMet(a)
  BY <1>4, <1>t DEF TriggerMet
<1>5. CASE TriggerFails(a)
  BY <1>5, <1>t DEF TriggerFails
<1>6. CASE SetupAwaited(a)
  BY <1>6, <1>t DEF SetupAwaited
<1>7. CASE WaitAborts(a)
  BY <1>7, <1>t DEF WaitAborts
<1>8. CASE Mark(a)
  BY <1>8, <1>t DEF Mark, ActionRecord
<1>9. CASE Precheck(a) \/ SendTimesOut(a)
  BY <1>9, <1>t DEF Precheck, SendTimesOut
<1>10. CASE Lock(a)
  BY <1>10, <1>t DEF Lock, ActionRecord
<1>11. CASE SkipHeld(a)
  BY <1>11, <1>t DEF SkipHeld, ActionRecord
<1>12. CASE Compile(a)
  BY <1>12, <1>t DEF Compile, Compiled, ChainRecord
<1>13. CASE AcquireSend(a)
  BY <1>13, <1>t DEF AcquireSend
<1>14. CASE SubmitAccepted(a)
  BY <1>14, <1>t DEF SubmitAccepted, ActionRecord
<1>15. CASE SubmitRejected(a)
  BY <1>15, <1>t DEF SubmitRejected, Compiled, ChainRecord
<1>16. CASE SubmitUnacknowledged(a)
  BY <1>16, <1>t DEF SubmitUnacknowledged, ChainRecord
<1>17. CASE Confirmed(a)
  BY <1>17, <1>t DEF Confirmed, ChainRecord, ActionRecord, HasTokens
<1>18. CASE FailedOnChain(a)
  BY <1>18, <1>t DEF FailedOnChain, ChainRecord
<1>19. CASE Unconfirmed(a)
  BY <1>19, <1>t DEF Unconfirmed, ChainRecord
<1>20. CASE Judge(a)
  BY <1>20, <1>t DEF Judge, VerdictOf
<1>21. CASE Retry(a)
  BY <1>21, <1>t DEF Retry, ActionRecord
<1>22. CASE GiveUp(a)
  BY <1>22, <1>t DEF GiveUp, ActionRecord
<1>23. CASE ConfirmedByAccount(a)
  BY <1>23, <1>t DEF ConfirmedByAccount, ChainRecord, ActionRecord, HasTokens
<1> QED BY <1>1, <1>2, <1>3, <1>4, <1>5, <1>6, <1>7, <1>8, <1>9, <1>10, <1>11, <1>12, <1>13,
       <1>14, <1>15, <1>16, <1>17, <1>18, <1>19, <1>20, <1>21, <1>22, <1>23, TaskSteps

-----------------------------------------------------------------------------
(* The steps of nobody's task *)

Calm ==
    /\ pc' = pc /\ err' = err /\ batch' = batch
    /\ runner'.pc \in {"idle", "start", "spawn"} => runner.pc \in {"idle", "start", "spawn"}
    /\ \A a \in Actions :
         /\ chain'[a].asked = chain[a].asked
         /\ chain[a].landed \subseteq chain'[a].landed
         /\ chain[a].held => chain'[a].held
         /\ act[a].state \in Rested => act'[a].state \in Rested
         /\ act'[a].state = "Confirmed" => act[a].state = "Confirmed"
         /\ act'[a].state = "Eligible" => act[a].state = "Eligible"

LEMMA AroundCalm ==
    ASSUME TypeOK,
           \/ Arm \/ CancelJob \/ \E a \in Actions : CancelAction(a)
           \/ LaunchConfirmed \/ \E w \in {"launch", "slot", "market"} : WatcherFails(w)
           \/ \E a \in Actions : FallsDue(a)
           \/ \E a \in Actions : Settle(a)
           \/ SettleSetup \/ RunStart \/ RunJoined \/ RunFinish \/ SetupStep
           \/ Finished \/ UNCHANGED vars
    PROVE  Calm
<1> USE DEF Calm
<1>t. /\ act \in [Actions -> ActionRecord] /\ chain \in [Actions -> ChainRecord]
      /\ runner \in RunnerRecord
  BY DEF TypeOK
<1>1. ASSUME UNCHANGED <<pc, err, batch, act, chain>>, runner'.pc = runner.pc
      PROVE  Calm
  BY <1>1
<1>2. CASE Arm
  <2>1. runner'.pc \in {"idle", "start", "spawn"} => runner.pc \in {"idle", "start", "spawn"}
    BY <1>2, <1>t DEF Arm, RunnerRecord
  <2>2. CASE UNCHANGED act
    BY <1>2, <2>1, <2>2 DEF Arm
  <2>3. CASE act' = [a \in Actions |-> [act[a] EXCEPT !.state = ArmedActionState(@)]]
    <3>1. \A a \in Actions : act'[a].state = ArmedActionState(act[a].state)
      BY <1>t, <2>3 DEF ActionRecord
    <3> QED BY <1>2, <2>1, <3>1 DEF Arm, ArmedActionState, Rested, SettledAction
  <2> QED BY <1>2, <2>2, <2>3 DEF Arm
<1>3. CASE CancelJob
  <2>1. \A a \in Actions : act'[a].state = CancelledActionState(act[a].state)
    BY <1>3, <1>t DEF CancelJob, ActionRecord
  <2>2. \A s : /\ CancelledActionState(s) \in Rested
               /\ CancelledActionState(s) = "Confirmed" => s = "Confirmed"
               /\ CancelledActionState(s) # "Eligible"
    BY DEF CancelledActionState, KeptByCancel, Rested, SettledAction
  <2>3. ASSUME NEW a \in Actions
        PROVE  /\ act'[a].state \in Rested
               /\ act'[a].state = "Confirmed" => act[a].state = "Confirmed"
               /\ act'[a].state # "Eligible"
    BY <2>1, <2>2
  <2> QED BY <1>3, <2>3 DEF CancelJob
<1>4. ASSUME NEW a \in Actions, CancelAction(a) PROVE Calm
  BY <1>4, <1>t DEF CancelAction, ActionRecord, Rested, SettledAction
<1>5. ASSUME NEW a \in Actions, Settle(a) PROVE Calm
  <2>1. \A b \in Actions : chain'[b].asked = chain[b].asked
    BY <1>5, <1>t DEF Settle, ChainRecord
  <2>2. \A b \in Actions : chain[b].landed \subseteq chain'[b].landed
    BY <1>5, <1>t DEF Settle, ChainRecord
  <2>3. \A b \in Actions : chain'[b].held = chain[b].held
    BY <1>5, <1>t DEF Settle, ChainRecord
  <2> QED BY <1>5, <2>1, <2>2, <2>3 DEF Settle
<1>6. CASE RunStart \/ RunJoined \/ RunFinish
  BY <1>6, <1>t DEF RunStart, RunJoined, RunFinish, RunnerRecord
<1>7. CASE SetupStep
  <2>1. CASE \/ SetupRead \/ SetupLaunch \/ SetupMark \/ SetupAcquire \/ SetupAccepted
             \/ SetupBacksOff \/ SetupConfirmed
    BY <1>1, <1>t, <2>1 DEF SetupRead, SetupLaunch, SetupMark, SetupAcquire, SetupAccepted,
       SetupBacksOff, SetupConfirmed, beside, RunnerRecord
  <2>2. ASSUME NEW s, NEW e, NEW open, UNCHANGED beside, SetupEnds(s, e, open) PROVE Calm
    BY <1>1, <1>t, <2>2 DEF beside, SetupEnds, RunnerRecord
  <2>3. ASSUME NEW gen, NEW open, UNCHANGED beside, SetupAgain(gen, open) PROVE Calm
    BY <1>1, <1>t, <2>3 DEF beside, SetupAgain, RunnerRecord
  <2>4. CASE SetupTimesOut \/ SetupFailedOnChain \/ SetupUnconfirmed
    BY <2>2, <2>3, <2>4 DEF SetupTimesOut, SetupFailedOnChain, SetupUnconfirmed
  <2>r. ASSUME NEW open, UNCHANGED beside, SetupRetries(open) PROVE Calm
    <3>1. CASE SetupEnds("Failed", "retryable", open)
      BY <2>2, <2>r, <3>1
    <3>2. CASE ~SetupEnds("Failed", "retryable", open)
      BY <1>1, <1>t, <2>r, <3>2 DEF beside, SetupRetries
    <3> QED BY <3>1, <3>2
  <2>5. CASE SetupRejected \/ SetupUnacknowledged
    BY <2>2, <2>r, <2>5 DEF SetupRejected, SetupUnacknowledged
  <2> QED BY <1>7, <2>1, <2>4, <2>5 DEF SetupStep
<1>8. CASE \/ LaunchConfirmed \/ \E w \in {"launch", "slot", "market"} : WatcherFails(w)
           \/ \E a \in Actions : FallsDue(a)
           \/ SettleSetup \/ Finished \/ UNCHANGED vars
  BY <1>8, <1>1 DEF LaunchConfirmed, WatcherFails, FallsDue, SettleSetup, Finished, vars
<1> QED BY <1>2, <1>3, <1>4, <1>5, <1>6, <1>7, <1>8

-----------------------------------------------------------------------------
(* Nothing after a confirmation without an answer                          *)

\* Before run_job has started the tasks, none has done anything.
QuietBefore ==
    runner.pc \in {"idle", "start", "spawn"} =>
        \A a \in Actions : pc[a] = "none" /\ ~chain[a].asked

\* While a batch waits for its trigger its actions do nothing but wait.
BatchWaits ==
    \A a \in Actions : batch[TriggerKey[a]] =>
        /\ InBatch(a)
        /\ ~chain[a].asked
        /\ pc[a] \in {"held", "mark", "judge"} \union Waiting

\* A task that awaits its confirmation has stored that it is Sent, and nobody
\* makes the record of it one that could be retried.
SentStays == \A a \in Actions : pc[a] = "confirm" => act[a].state \in Rested

\* A task whose confirmation was not answered is on its way to a failure.
AskedFails ==
    \A a \in Actions : chain[a].asked =>
        \/ pc[a] \in {"fail", "done"}
        \/ pc[a] = "judge" /\ err[a] = "retryable" /\ act[a].state \in Rested

AskedInv == QuietBefore /\ BatchWaits /\ SentStays /\ AskedFails

LEMMA TaskAskedInv ==
    ASSUME TypeOK, AskedInv, NEW a \in Actions, TaskStep(a)
    PROVE  AskedInv'
<1>1. Others(a) /\ Effect(a)
  BY TaskOthers, TaskEffect
<1>2. QuietBefore'
  BY <1>1 DEF AskedInv, QuietBefore, Others, Effect
<1>3. BatchWaits'
  BY <1>1 DEF AskedInv, BatchWaits, Others, Effect, InBatch, Waiting
<1>4. SentStays'
  BY <1>1 DEF AskedInv, SentStays, Others, Effect, Rested
<1>5. ASSUME NEW b \in Actions, chain'[b].asked
      PROVE  \/ pc'[b] \in {"fail", "done"}
             \/ pc'[b] = "judge" /\ err'[b] = "retryable" /\ act'[b].state \in Rested
  <2>1. CASE b # a
    BY <1>1, <1>5, <2>1 DEF AskedInv, AskedFails, Others
  <2>2. CASE b = a /\ ~chain[a].asked
    BY <1>1, <1>5, <2>2 DEF AskedInv, SentStays, Effect
  <2>3. CASE b = a /\ chain[a].asked /\ pc[a] = "judge"
    <3>1. VerdictOf(a) = "fail"
      BY <2>3 DEF AskedInv, AskedFails, VerdictOf, ResetsForRebuild, RetriesAction, Rested
    <3> QED BY <1>1, <2>3, <3>1 DEF Effect
  <2>4. CASE b = a /\ chain[a].asked /\ pc[a] # "judge"
    BY <1>1, <2>4 DEF AskedInv, AskedFails, Effect
  <2> QED BY <2>1, <2>2, <2>3, <2>4
<1> QED BY <1>2, <1>3, <1>4, <1>5 DEF AskedInv, AskedFails

LEMMA NextAskedInv ==
    ASSUME TypeOK, AskedInv, [Next]_vars
    PROVE  AskedInv'
<1>1. ASSUME NEW a \in Actions, TaskStep(a) PROVE AskedInv'
  BY <1>1, TaskAskedInv
<1>2. ASSUME Calm PROVE AskedInv'
  <2>1. QuietBefore'
    BY <1>2 DEF Calm, AskedInv, QuietBefore
  <2>2. BatchWaits'
    BY <1>2 DEF Calm, AskedInv, BatchWaits, InBatch
  <2>3. SentStays' /\ AskedFails'
    BY <1>2 DEF Calm, AskedInv, SentStays, AskedFails
  <2> QED BY <2>1, <2>2, <2>3 DEF AskedInv
<1>3. CASE RunSpawn
  <2>1. \A a \in Actions : ~chain'[a].asked
    BY <1>3 DEF RunSpawn, AskedInv, QuietBefore
  <2>2. runner'.pc = "join"
    BY <1>3 DEF RunSpawn, TypeOK, RunnerRecord
  <2>3. \A a \in Actions : /\ pc'[a] # "confirm"
                           /\ InBatch(a) => pc'[a] \in {"held", "anchor", "trigger"}
    BY <1>3 DEF RunSpawn, FirstWait
  <2>4. ASSUME NEW a \in Actions, batch'[TriggerKey[a]] PROVE InBatch(a)
    <3>1. PICK b \in Members(TriggerKey[a]) : InBatch(b)
      BY <1>3, <2>4 DEF RunSpawn, Keys
    <3> QED BY <3>1, <2>4 DEF Members, InBatch
  <2> QED BY <2>1, <2>2, <2>3, <2>4 DEF AskedInv, QuietBefore, BatchWaits, SentStays, AskedFails, Waiting,
             InBatch
<1>4. ASSUME NEW k \in Keys, BatchStep(k) PROVE AskedInv'
  <2>1. /\ batch[k] /\ batch' = [batch EXCEPT ![k] = FALSE]
        /\ UNCHANGED <<err, chain>> /\ runner'.pc = runner.pc
        /\ \A a \in Actions : IF TriggerKey[a] = k THEN pc'[a] \in {"loop", "done"}
                              ELSE pc'[a] = pc[a] /\ act'[a] = act[a]
    BY <1>4 DEF BatchStep, MarkBatch, FailBatch, Members, around, TypeOK, RunnerRecord
  <2>2. \A a \in Actions : TriggerKey[a] = k => ~chain[a].asked /\ pc[a] # "none"
    BY <2>1 DEF AskedInv, BatchWaits, Waiting
  <2>3. \A a \in Actions : batch'[TriggerKey[a]] => batch[TriggerKey[a]] /\ TriggerKey[a] # k
    BY <2>1 DEF TypeOK, Keys
  <2>4. QuietBefore'
    <3>1. \E a \in Actions : TriggerKey[a] = k
      BY DEF Keys
    <3> QED BY <2>1, <2>2, <3>1 DEF AskedInv, QuietBefore
  <2>5. BatchWaits'
    BY <2>1, <2>3 DEF AskedInv, BatchWaits, InBatch
  <2>6. SentStays' /\ AskedFails'
    BY <2>1, <2>2 DEF AskedInv, SentStays, AskedFails
  <2> QED BY <2>4, <2>5, <2>6 DEF AskedInv
<1> QED BY <1>1, <1>2, <1>3, <1>4, AroundCalm DEF Next, RunStep

LEMMA InitAskedInv ==
    ASSUME Init
    PROVE  AskedInv
BY DEF Init, AskedInv, QuietBefore, BatchWaits, SentStays, AskedFails, Keys

\* Whatever is retried, rebuilt, reset or cancelled, a task whose confirmation
\* ended without an answer never compiles or sends again: execute_action_with_
\* retry finds the record Sent or ended, which it does not retry.
THEOREM NoBlindResendHolds == Spec => []NoBlindResend
<1>1. Init => AskedInv
  BY InitAskedInv
<1>2. AskedInv => NoBlindResend
  BY DEF AskedInv, AskedFails, NoBlindResend
<1> QED BY <1>1, <1>2, TypeCorrect, NextAskedInv, PTL DEF Spec

-----------------------------------------------------------------------------
(* No sell before its buy                                                  *)

Bought(a) == HasTokens(MatchingBuy(a))

\* An action is recorded as Confirmed only when a transaction of it landed, or
\* its wallet was seen to hold the token.
TokensFirst == \A a \in Actions : act[a].state = "Confirmed" => HasTokens(a)

\* A sell has passed the wait for its buy, or is Eligible because it has.
SellWaits ==
    \A a \in Actions : Kind[a] = "SniperSell" =>
        /\ pc[a] \in PastAnchor => Bought(a)
        /\ act[a].state = "Eligible" => Bought(a)

SellInv == TokensFirst /\ SellWaits

LEMMA MatchingBuyType ==
    ASSUME NEW a \in Actions, Kind[a] = "SniperSell"
    PROVE  MatchingBuy(a) \in Actions
BY SellsHaveBuys DEF MatchingBuy

\* A sell's trigger key is its own.
LEMMA SellsAreAlone ==
    ASSUME NEW a \in Actions, Kind[a] = "SniperSell"
    PROVE  ~InBatch(a)
BY KeysFollowTriggers DEF InBatch

LEMMA NextSellInv ==
    ASSUME TypeOK, BatchWaits, SellInv, [Next]_vars
    PROVE  SellInv'
<1> USE DEF SellInv
<1>1. ASSUME NEW a \in Actions, TaskStep(a) PROVE SellInv'
  <2>1. Others(a) /\ Effect(a)
    BY <1>1, TaskOthers, TaskEffect
  <2>2. \A b \in Actions : HasTokens(b) => HasTokens(b)'
    BY <2>1 DEF Others, Effect, HasTokens
  <2>3. TokensFirst'
    BY <2>1, <2>2 DEF TokensFirst, Others, Effect
  <2>4. ASSUME NEW b \in Actions, Kind[b] = "SniperSell", Bought(b) PROVE Bought(b)'
    BY <2>2, <2>4, MatchingBuyType DEF Bought
  <2>5. ASSUME NEW b \in Actions, Kind[b] = "SniperSell",
               pc'[b] \in PastAnchor \/ act'[b].state = "Eligible"
        PROVE  Bought(b)
    <3>1. CASE b # a
      BY <2>1, <2>5, <3>1 DEF SellWaits, Others
    <3>2. CASE b = a
      <4>1. \/ pc[a] \in PastAnchor \/ act[a].state = "Eligible"
            \/ act[MatchingBuy(a)].state = "Confirmed"
        BY <2>1, <2>5, <3>2 DEF Effect, PastAnchor
      <4>2. act[MatchingBuy(a)].state = "Confirmed" => Bought(a)
        BY <2>5, <3>2, MatchingBuyType DEF TokensFirst, Bought
      <4> QED BY <2>5, <3>2, <4>1, <4>2 DEF SellWaits
    <3> QED BY <3>1, <3>2
  <2> QED BY <2>3, <2>4, <2>5 DEF SellWaits, PastAnchor
<1>2. ASSUME Calm PROVE SellInv'
  <2>1. TokensFirst'
    BY <1>2 DEF Calm, TokensFirst, HasTokens
  <2>2. ASSUME NEW a \in Actions, Kind[a] = "SniperSell", Bought(a) PROVE Bought(a)'
    BY <1>2, <2>2, MatchingBuyType DEF Calm, Bought, HasTokens
  <2>3. SellWaits'
    BY <1>2, <2>2 DEF Calm, SellWaits, PastAnchor
  <2> QED BY <2>1, <2>3
<1>3. CASE RunSpawn
  <2>1. \A a \in Actions : ~InBatch(a) => pc'[a] \notin PastAnchor
    BY <1>3 DEF RunSpawn, PastAnchor, Locked, Sending
  <2> QED BY <1>3, <2>1, SellsAreAlone DEF RunSpawn, TokensFirst, SellWaits, Bought, HasTokens
<1>4. ASSUME NEW k \in Keys, BatchStep(k) PROVE SellInv'
  <2>1. /\ batch[k] /\ UNCHANGED chain
        /\ \A a \in Actions : IF TriggerKey[a] = k THEN act'[a].state \in {"Eligible", "Failed"}
                              ELSE pc'[a] = pc[a] /\ act'[a] = act[a]
    BY <1>4 DEF BatchStep, MarkBatch, FailBatch, Members, TypeOK, ActionRecord
  <2>2. \A a \in Actions : Kind[a] = "SniperSell" => TriggerKey[a] # k
    BY <2>1, SellsAreAlone DEF BatchWaits
  <2> QED BY <2>1, <2>2 DEF TokensFirst, SellWaits, Bought, HasTokens
<1> QED BY <1>1, <1>2, <1>3, <1>4, AroundCalm DEF Next, RunStep

\* A sniper sell is never compiled or sent before a transaction of its buy has
\* landed or its wallet was seen to hold the token, whatever the operator, a retry or a rebuild writes over the records
\* wait_for_matching_sniper_buy_confirmation reads.
THEOREM SellAfterBuyHolds == Spec => []SellAfterBuy
<1>1. Init => AskedInv /\ SellInv
  BY InitAskedInv DEF Init, SellInv, TokensFirst, SellWaits, PastAnchor, Locked, Sending
<1>2. AskedInv => BatchWaits
  BY DEF AskedInv
<1>3. SellInv => SellAfterBuy
  BY DEF SellInv, SellWaits, SellAfterBuy, PastAnchor, Bought
<1> QED BY <1>1, <1>2, <1>3, TypeCorrect, NextAskedInv, NextSellInv, PTL DEF Spec

-----------------------------------------------------------------------------
(* No send before the deferred setup                                       *)

\* Past the wait for the deferred setup, and not yet at the verdict.
PastSetup == {"mark", "precheck", "lock"} \union Locked

\* The setup is recorded as Confirmed only when it landed, and who waits for
\* it has found it so, or is Eligible because it, or the first action of its
\* batch, has.
SetupWaits ==
    /\ setup.state = "Confirmed" => setup.landed # {}
    /\ \A a \in Actions :
         HasSetup /\ AfterSetup(a) /\ (pc[a] \in PastSetup \/ act[a].state = "Eligible") =>
             setup.landed # {}

LEMMA TaskAwaitsSetup ==
    ASSUME TypeOK, NEW a \in Actions, TaskStep(a), HasSetup, AfterSetup(a),
           pc'[a] \in PastSetup \/ act'[a].state = "Eligible"
    PROVE  \/ pc[a] \in PastSetup \/ act[a].state = "Eligible"
           \/ setup.state = "Confirmed"
<1> USE DEF rest, around, Goto, FailWith, SetAct, PastSetup, Locked, Sending
<1>t. /\ pc \in [Actions -> Place] /\ act \in [Actions -> ActionRecord]
  BY DEF TypeOK
<1>1. CASE Loop(a)
  BY <1>1, <1>t DEF Loop, FirstWait, ActionRecord
<1>2. CASE AnchorAtLaunch(a) \/ AnchorAtBuy(a) \/ TriggerMet(a)
  BY <1>2, <1>t DEF AnchorAtLaunch, AnchorAtBuy, TriggerMet
<1>3. CASE TriggerFails(a)
  BY <1>3, <1>t DEF TriggerFails
<1>4. CASE SetupAwaited(a) \/ WaitAborts(a)
  BY <1>4, <1>t DEF SetupAwaited, WaitAborts
<1>5. CASE Mark(a) \/ Precheck(a) \/ Lock(a) \/ SkipHeld(a) \/ Compile(a) \/ AcquireSend(a)
           \/ SendTimesOut(a) \/ SubmitAccepted(a) \/ SubmitRejected(a)
           \/ SubmitUnacknowledged(a) \/ Confirmed(a) \/ ConfirmedByAccount(a) \/ FailedOnChain(a)
           \/ Unconfirmed(a)
  BY <1>5 DEF Mark, Precheck, Lock, SkipHeld, Compile, AcquireSend, SendTimesOut,
     SubmitAccepted, SubmitRejected, SubmitUnacknowledged, Confirmed, ConfirmedByAccount,
           FailedOnChain, Unconfirmed
<1>6. CASE Judge(a)
  BY <1>6, <1>t DEF Judge, VerdictOf
<1>7. CASE Retry(a)
  BY <1>7, <1>t DEF Retry, ActionRecord
<1>8. CASE GiveUp(a)
  BY <1>8, <1>t DEF GiveUp, ActionRecord
<1> QED BY <1>1, <1>2, <1>3, <1>4, <1>5, <1>6, <1>7, <1>8, TaskSteps

\* The record of the setup is changed by its own task, by the chain that
\* decides the fate of its transaction, and when run_job starts the tasks.
LEMMA SetupAlone ==
    ASSUME TypeOK, [Next]_vars
    PROVE  SetupStep \/ SettleSetup \/ RunSpawn \/ UNCHANGED setup
<1>1. ASSUME NEW a \in Actions, TaskStep(a) PROVE UNCHANGED setup
  BY <1>1, TaskSteps DEF rest, around, Loop, AnchorAtLaunch, AnchorAtBuy, TriggerMet,
     TriggerFails, SetupAwaited, WaitAborts, Mark, Precheck, Lock, SkipHeld, Compile,
     AcquireSend, SendTimesOut, SubmitAccepted, SubmitRejected, SubmitUnacknowledged,
     Confirmed, ConfirmedByAccount, FailedOnChain, Unconfirmed, Judge, Retry, GiveUp
<1>2. CASE \/ Arm \/ CancelJob \/ \E a \in Actions : CancelAction(a)
           \/ LaunchConfirmed \/ \E w \in {"launch", "slot", "market"} : WatcherFails(w)
           \/ \E a \in Actions : FallsDue(a)
           \/ \E a \in Actions : Settle(a)
           \/ RunStart \/ RunJoined \/ RunFinish \/ \E k \in Keys : BatchStep(k)
           \/ Finished \/ UNCHANGED vars
  BY <1>2 DEF Arm, CancelJob, CancelAction, LaunchConfirmed, WatcherFails, FallsDue,
     Settle, RunStart, RunJoined, RunFinish, BatchStep, MarkBatch, FailBatch, around, Finished, vars
<1> QED BY <1>1, <1>2 DEF Next, RunStep

\* What has landed stays landed, and what lands does so before it is recorded.
LEMMA SetupLanding ==
    ASSUME TypeOK, [Next]_vars
    PROVE  /\ setup.landed \subseteq setup'.landed
           /\ setup'.state = "Confirmed" => setup.state = "Confirmed" \/ setup'.landed # {}
<1> DEFINE Lands == /\ setup.landed \subseteq setup'.landed
                    /\ setup'.state = "Confirmed" =>
                         setup.state = "Confirmed" \/ setup'.landed # {}
<1>t. setup \in SetupRecord
  BY DEF TypeOK
<1>1. CASE UNCHANGED setup
  BY <1>1
<1>2. CASE SetupStep
  <2>1. CASE \/ SetupRead \/ SetupLaunch \/ SetupMark \/ SetupAcquire \/ SetupAccepted
             \/ SetupBacksOff
    <3>1. setup'.landed = setup.landed
      BY <1>t, <2>1 DEF SetupRead, SetupLaunch, SetupMark, SetupAcquire, SetupAccepted,
         SetupBacksOff, SetupRecord
    <3>2. setup'.state = "Confirmed" => setup.state = "Confirmed"
      BY <1>t, <2>1 DEF SetupRead, SetupLaunch, SetupMark, SetupAcquire, SetupAccepted,
         SetupBacksOff, SetupRecord
    <3> QED BY <3>1, <3>2
  <2>2. CASE SetupConfirmed
    <3>1. setup'.landed = setup.landed \union {setup.gen}
      BY <1>t, <2>2 DEF SetupConfirmed, SetupRecord
    <3> QED BY <3>1
  <2>3. ASSUME NEW s \in {"Running", "Failed", "Sent"}, NEW e, NEW open, SetupEnds(s, e, open)
        PROVE  Lands
    BY <1>t, <2>3 DEF SetupEnds, SetupRecord
  <2>4. ASSUME NEW gen, NEW open, SetupAgain(gen, open) PROVE Lands
    BY <1>t, <2>4 DEF SetupAgain, SetupRecord
  <2>5. CASE SetupTimesOut \/ SetupFailedOnChain \/ SetupUnconfirmed
    BY <2>3, <2>4, <2>5 DEF SetupTimesOut, SetupFailedOnChain, SetupUnconfirmed
  <2>r. ASSUME NEW open, SetupRetries(open) PROVE Lands
    <3>1. CASE SetupEnds("Failed", "retryable", open)
      BY <2>3, <3>1
    <3>2. CASE ~SetupEnds("Failed", "retryable", open)
      BY <1>t, <2>r, <3>2 DEF SetupRetries, SetupRecord
    <3> QED BY <3>1, <3>2
  <2>6. CASE SetupRejected \/ SetupUnacknowledged
    BY <2>3, <2>r, <2>6 DEF SetupRejected, SetupUnacknowledged
  <2> QED BY <1>2, <2>1, <2>2, <2>5, <2>6 DEF SetupStep
<1>3. CASE SettleSetup \/ RunSpawn
  <2>1. setup.landed \subseteq setup'.landed
    <3>1. CASE RunSpawn
      BY <3>1, <1>t DEF RunSpawn, SetupRecord
    <3>2. CASE SettleSetup
      <4>1. PICK g \in setup.open, lands \in BOOLEAN :
              setup' = [setup EXCEPT !.open = @ \ {g},
                                     !.landed = IF lands THEN @ \union {g} ELSE @]
        BY <3>2 DEF SettleSetup
      <4>2. setup'.landed = IF lands THEN setup.landed \union {g} ELSE setup.landed
        BY <4>1, <1>t DEF SetupRecord
      <4> QED BY <4>2
    <3> QED BY <1>3, <3>1, <3>2
  <2>2. setup'.state = setup.state
    BY <1>3, <1>t DEF SettleSetup, RunSpawn, SetupRecord
  <2> QED BY <2>1, <2>2
<1> QED BY <1>1, <1>2, <1>3, SetupAlone

LEMMA NextSetupWaits ==
    ASSUME TypeOK, SetupWaits, [Next]_vars
    PROVE  SetupWaits'
<1>1. setup'.state = "Confirmed" => setup'.landed # {}
  BY SetupLanding DEF SetupWaits
<1>2. ASSUME NEW a \in Actions, HasSetup, AfterSetup(a),
             \/ pc[a] \in PastSetup \/ act[a].state = "Eligible"
             \/ setup.state = "Confirmed"
      PROVE  setup'.landed # {}
  BY <1>2, SetupLanding DEF SetupWaits
<1>3. ASSUME NEW a \in Actions, HasSetup, AfterSetup(a),
             pc'[a] \in PastSetup \/ act'[a].state = "Eligible"
      PROVE  setup'.landed # {}
  <2>1. ASSUME NEW b \in Actions, TaskStep(b) PROVE setup'.landed # {}
    <3>1. CASE a = b
      BY <1>2, <1>3, <2>1, <3>1, TaskAwaitsSetup
    <3>2. CASE a # b
      BY <1>2, <1>3, <2>1, <3>2, TaskOthers DEF Others
    <3> QED BY <3>1, <3>2
  <2>2. CASE Calm
    BY <1>2, <1>3, <2>2 DEF Calm
  <2>3. CASE RunSpawn
    <3>1. pc'[a] \notin PastSetup /\ act' = act
      BY <2>3 DEF RunSpawn, FirstWait, PastSetup, Locked, Sending
    <3> QED BY <1>2, <1>3, <3>1
  <2>4. ASSUME NEW k \in Keys, MarkBatch(k) PROVE setup'.landed # {}
    <3>1. CASE TriggerKey[a] = k
      <4>1. Lead[k] \in Actions /\ TriggerKey[Lead[k]] = TriggerKey[a]
        BY <3>1, ParameterTypes DEF Members
      <4>2. AfterSetup(Lead[k])
        BY <1>3, <4>1, KeysFollowTriggers DEF AfterSetup
      <4>3. pc[Lead[k]] \in PastSetup
        BY <2>4 DEF MarkBatch, PastSetup
      <4> QED BY <1>2, <1>3, <4>1, <4>2, <4>3
    <3>2. CASE TriggerKey[a] # k
      BY <1>2, <1>3, <2>4, <3>2 DEF MarkBatch, Members
    <3> QED BY <3>1, <3>2
  <2>5. ASSUME NEW k \in Keys, FailBatch(k) PROVE setup'.landed # {}
    <3>1. TriggerKey[a] # k
      BY <1>3, <2>5 DEF FailBatch, Members, PastSetup, Locked, Sending, TypeOK, ActionRecord
    <3> QED BY <1>2, <1>3, <2>5, <3>1 DEF FailBatch, Members
  <2> QED BY <2>1, <2>2, <2>3, <2>4, <2>5, AroundCalm DEF Next, RunStep, BatchStep
<1> QED BY <1>1, <1>3 DEF SetupWaits, AfterSetup

\* An action that waits for a delay, a later block, a confirmation or a market
\* cap is never compiled or sent before the deferred setup has landed, in a
\* batch as well as alone, over any retries of the action and of the setup.
THEOREM SendsAfterSetupHolds == Spec => []SendsAfterSetup
<1>1. Init => SetupWaits
  BY DEF Init, SetupWaits, PastSetup, Locked, Sending
<1>2. SetupWaits => SendsAfterSetup
  BY DEF SetupWaits, SendsAfterSetup, PastSetup
<1>3. TypeOK /\ SetupWaits /\ [Next]_vars => SetupWaits'
  BY NextSetupWaits
<1> QED BY <1>1, <1>2, <1>3, TypeCorrect, PTL DEF Spec

-----------------------------------------------------------------------------
(* One transaction of the deferred setup *)

\* Only the last generation can be undecided or have landed: a generation is
\* made when the one before has failed in a block, by when it has not landed
\* and is no longer undecided.
SetupFate == setup.open \union setup.landed \subseteq {setup.gen}

\* What the setup task does with the fate of its transaction: the same
\* transaction again leaves it undecided at most, a new one has nothing
\* behind it.
LEMMA SetupStepFate ==
    ASSUME TypeOK, SetupFate, SetupStep
    PROVE  SetupFate'
<1> USE DEF SetupFate
<1>t. setup \in SetupRecord
  BY DEF TypeOK
<1>1. ASSUME NEW s, NEW e, NEW open, open \subseteq {setup.gen}, SetupEnds(s, e, open)
      PROVE  SetupFate'
  BY <1>t, <1>1 DEF SetupEnds, SetupRecord
<1>2. ASSUME NEW open, open \subseteq {setup.gen}, SetupAgain(setup.gen, open)
      PROVE  SetupFate'
  BY <1>t, <1>2 DEF SetupAgain, SetupRecord
<1>r. ASSUME NEW open, open \subseteq {setup.gen}, SetupRetries(open)
      PROVE  SetupFate'
  <2>1. CASE SetupEnds("Failed", "retryable", open)
    BY <1>1, <1>r, <2>1
  <2>2. CASE ~SetupEnds("Failed", "retryable", open)
    BY <1>t, <1>r, <2>2 DEF SetupRetries, SetupRecord
  <2> QED BY <2>1, <2>2
<1>3. CASE \/ SetupRead \/ SetupLaunch \/ SetupMark \/ SetupAcquire \/ SetupAccepted
           \/ SetupBacksOff
  <2>1. setup'.open = setup.open /\ setup'.landed = setup.landed /\ setup'.gen = setup.gen
    BY <1>t, <1>3 DEF SetupRead, SetupLaunch, SetupMark, SetupAcquire, SetupAccepted,
       SetupBacksOff, SetupRecord
  <2> QED BY <2>1
<1>4. CASE SetupConfirmed
  BY <1>t, <1>4 DEF SetupConfirmed, SetupRecord
<1>5. CASE SetupTimesOut \/ SetupRejected \/ SetupUnacknowledged \/ SetupUnconfirmed
  <2>1. /\ setup.open \subseteq {setup.gen}
        /\ setup.open \union {setup.gen} \subseteq {setup.gen}
    OBVIOUS
  <2>2. CASE SetupTimesOut \/ SetupUnconfirmed
    BY <1>1, <1>2, <2>1, <2>2 DEF SetupTimesOut, SetupUnconfirmed
  <2>3. CASE SetupRejected \/ SetupUnacknowledged
    BY <1>1, <1>r, <2>1, <2>3 DEF SetupRejected, SetupUnacknowledged
  <2> QED BY <1>5, <2>2, <2>3
<1>6. CASE SetupFailedOnChain
  <2>1. setup.landed = {} /\ setup.open \ {setup.gen} = {}
    BY <1>6 DEF SetupFailedOnChain
  <2>2. ASSUME SetupAgain(setup.gen + 1, {}) PROVE SetupFate'
    BY <1>t, <2>1, <2>2 DEF SetupAgain, SetupRecord
  <2> QED BY <1>1, <1>6, <2>1, <2>2 DEF SetupFailedOnChain
<1> QED BY <1>3, <1>4, <1>5, <1>6 DEF SetupStep

\* Over any number of tries, answers that are lost, confirmations that run
\* out of time and transactions signed again, and whatever the chain does
\* with those nobody waits for any more, the deferred setup lands once.
THEOREM SetupLandsOnceHolds == Spec => []SetupLandsOnce
<1>1. Init => SetupFate
  BY DEF Init, SetupFate
<1>2. TypeOK /\ SetupFate /\ [Next]_vars => SetupFate'
  <2> SUFFICES ASSUME TypeOK, SetupFate, [Next]_vars PROVE SetupFate'
    OBVIOUS
  <2>t. setup \in SetupRecord
    BY DEF TypeOK
  <2>1. CASE SettleSetup
    <3>1. PICK g \in setup.open, lands \in BOOLEAN :
            setup' = [setup EXCEPT !.open = @ \ {g},
                                   !.landed = IF lands THEN @ \union {g} ELSE @]
      BY <2>1 DEF SettleSetup
    <3>2. /\ setup'.gen = setup.gen
          /\ setup'.open \subseteq setup.open
          /\ setup'.landed \subseteq setup.landed \union setup.open
      BY <2>t, <3>1 DEF SetupRecord
    <3> QED BY <3>2 DEF SetupFate
  <2>2. CASE RunSpawn
    BY <2>t, <2>2 DEF RunSpawn, SetupRecord, SetupFate
  <2> QED BY <2>1, <2>2, SetupStepFate, SetupAlone DEF SetupFate
<1>3. TypeOK /\ SetupFate => SetupLandsOnce
  <2> SUFFICES ASSUME TypeOK, SetupFate PROVE Cardinality(setup.landed) <= 1
    BY DEF SetupLandsOnce
  <2>1. setup.landed = {} \/ setup.landed = {setup.gen}
    BY DEF SetupFate
  <2>2. Cardinality({}) = 0 /\ Cardinality({setup.gen}) = 1
    BY FS_EmptySet, FS_Singleton
  <2>3. CASE setup.landed = {}
    BY <2>2, <2>3
  <2>4. CASE setup.landed = {setup.gen}
    BY <2>2, <2>4
  <2> QED BY <2>1, <2>3, <2>4
<1> QED BY <1>1, <1>2, <1>3, TypeCorrect, PTL DEF Spec

-----------------------------------------------------------------------------
(* No attempt beyond the budget                                            *)

\* The attempt a dev auto sell signed in advance has won: it gets one more
\* when the transaction it was signed with is given up.
Bonus(a) == IF Kind[a] = "DevAutoSell" /\ a \in PreSigned /\ ~act[a].preSigned THEN 1 ELSE 0

BeforeLock == {"none", "held", "loop", "mark", "precheck", "lock"} \union Waiting

\* What the attempts counted so far allow a task to do next. Nothing looks at
\* the budget between the verdict and the lock, so the bound of the verdict
\* must last until then.
AttemptsAt(a) ==
    /\ act[a].preSigned => a \in PreSigned
    /\ act[a].attempts <= RetryBudget + 1 + Bonus(a)
    /\ pc[a] \in BeforeLock => act[a].attempts <= RetryBudget + Bonus(a)
    /\ pc[a] \in {"rearm", "reset"} => act[a].attempts <= RetryBudget
    /\ pc[a] = "rebuild" => Kind[a] = "DevAutoSell" /\ act[a].attempts <= RetryBudget + 1
                              /\ a \in PreSigned

AttemptsInv ==
    /\ runner.pc \in {"idle", "start", "spawn"} => \A a \in Actions : act[a].attempts = 0
    /\ \A a \in Actions : batch[TriggerKey[a]] => act[a].attempts = 0
    /\ \A a \in Actions : ~RetriesVault(a) => AttemptsAt(a)

LEMMA TaskAttempts ==
    ASSUME TypeOK, NEW a \in Actions, TaskStep(a), ~RetriesVault(a), AttemptsAt(a)
    PROVE  AttemptsAt(a)'
<1> USE DEF AttemptsAt, Bonus, BeforeLock, Waiting, rest, around, Goto, FailWith, SetAct
<1>t. /\ act \in [Actions -> ActionRecord] /\ pc \in [Actions -> Place]
      /\ RetryBudget \in Nat /\ act[a].attempts \in Nat
  BY ParameterTypes DEF TypeOK, ActionRecord
<1>1. ASSUME act'[a].attempts = act[a].attempts, act'[a].preSigned = act[a].preSigned,
             pc'[a] \in BeforeLock => pc[a] \in BeforeLock,
             pc'[a] \notin {"rearm", "reset", "rebuild"}
      PROVE  AttemptsAt(a)'
  BY <1>1, <1>t
<1>2. CASE Loop(a)
  BY <1>2, <1>1, <1>t DEF Loop, FirstWait, ActionRecord
<1>3. CASE AnchorAtLaunch(a) \/ AnchorAtBuy(a) \/ TriggerMet(a) \/ SetupAwaited(a)
           \/ WaitAborts(a)
  BY <1>3, <1>1, <1>t DEF AnchorAtLaunch, AnchorAtBuy, TriggerMet, SetupAwaited, WaitAborts
<1>4. CASE TriggerFails(a)
  BY <1>4, <1>1, <1>t DEF TriggerFails
<1>5. CASE Mark(a)
  BY <1>5, <1>1, <1>t DEF Mark, ActionRecord
<1>6. CASE Precheck(a)
  BY <1>6, <1>1, <1>t DEF Precheck
<1>7. CASE Lock(a)
  <2>1. act'[a].attempts = act[a].attempts + 1 /\ act'[a].preSigned = act[a].preSigned
    BY <1>7, <1>t DEF Lock, ActionRecord
  <2>2. pc[a] = "lock" /\ pc'[a] = "compile"
    BY <1>7, <1>t DEF Lock
  <2> QED BY <1>t, <2>1, <2>2
<1>8. CASE SkipHeld(a) \/ AcquireSend(a) \/ SendTimesOut(a) \/ SubmitAccepted(a)
           \/ Confirmed(a) \/ ConfirmedByAccount(a)
  BY <1>8, <1>1, <1>t DEF SkipHeld, AcquireSend, SendTimesOut, SubmitAccepted, Confirmed,
     ConfirmedByAccount, ActionRecord
<1>9. CASE Compile(a)
  BY <1>9, <1>1, <1>t DEF Compile
<1>10. CASE SubmitRejected(a) \/ SubmitUnacknowledged(a)
  BY <1>10, <1>1, <1>t DEF SubmitRejected, SubmitUnacknowledged
<1>11. CASE FailedOnChain(a) \/ Unconfirmed(a)
  BY <1>11, <1>1, <1>t DEF FailedOnChain, Unconfirmed
<1>12. CASE Judge(a)
  <2>1. pc'[a] = VerdictOf(a) /\ UNCHANGED act
    BY <1>12, <1>t DEF Judge
  <2>2. VerdictOf(a) \in {"rearm", "reset"} => act[a].attempts <= RetryBudget
    BY DEF VerdictOf, ResetsForRebuild, RetriesAction, WithinBudget
  <2>3. VerdictOf(a) = "rebuild" => Kind[a] = "DevAutoSell" /\ act[a].preSigned
    BY DEF VerdictOf
  <2>4. VerdictOf(a) \in Verdict
    BY DEF VerdictOf, Verdict
  <2> QED BY <1>t, <2>1, <2>2, <2>3, <2>4 DEF Verdict
<1>13. CASE Retry(a)
  <2>1. /\ act'[a].attempts = act[a].attempts /\ pc'[a] = "loop"
        /\ act'[a].preSigned <=> (act[a].preSigned /\ pc[a] = "rearm")
        /\ pc[a] \in {"rearm", "reset", "rebuild"}
    BY <1>13, <1>t DEF Retry, ActionRecord
  <2>2. CASE pc[a] \in {"rearm", "reset"}
    BY <1>t, <2>1, <2>2
  <2>3. CASE pc[a] = "rebuild"
    BY <1>t, <2>1, <2>3
  <2> QED BY <2>1, <2>2, <2>3
<1>14. CASE GiveUp(a)
  BY <1>14, <1>1, <1>t DEF GiveUp, ActionRecord
<1> QED BY <1>2, <1>3, <1>4, <1>5, <1>6, <1>7, <1>8, <1>9, <1>10, <1>11, <1>12, <1>13, <1>14,
       TaskSteps

\* Nobody but a task counts attempts or drops a transaction signed in advance.
LEMMA AroundCounts ==
    ASSUME TypeOK, Calm, NEW a \in Actions,
           \/ Arm \/ CancelJob \/ \E b \in Actions : CancelAction(b)
           \/ UNCHANGED act
    PROVE  act'[a].attempts = act[a].attempts /\ act'[a].preSigned = act[a].preSigned
<1>t. act \in [Actions -> ActionRecord]
  BY DEF TypeOK
<1>1. CASE Arm
  <2>1. UNCHANGED act \/ act' = [b \in Actions |-> [act[b] EXCEPT !.state = ArmedActionState(@)]]
    BY <1>1 DEF Arm
  <2> QED BY <2>1, <1>t DEF ActionRecord
<1>2. CASE CancelJob
  BY <1>2, <1>t DEF CancelJob, ActionRecord
<1>3. ASSUME NEW b \in Actions, CancelAction(b)
      PROVE  act'[a].attempts = act[a].attempts /\ act'[a].preSigned = act[a].preSigned
  BY <1>3, <1>t DEF CancelAction, ActionRecord
<1> QED BY <1>1, <1>2, <1>3

\* An attempt begins with the wallet's lock.
LEMMA TaskCounts ==
    ASSUME TypeOK, NEW a \in Actions, TaskStep(a), pc[a] # "lock"
    PROVE  act'[a].attempts = act[a].attempts
<1> USE DEF rest, around, SetAct
<1>t. act \in [Actions -> ActionRecord]
  BY DEF TypeOK
<1>1. CASE \/ Loop(a) \/ AnchorAtLaunch(a) \/ AnchorAtBuy(a) \/ TriggerMet(a)
           \/ TriggerFails(a) \/ SetupAwaited(a) \/ WaitAborts(a) \/ Mark(a)
           \/ Precheck(a) \/ Lock(a) \/ Judge(a) \/ Retry(a) \/ GiveUp(a)
  BY <1>t, <1>1 DEF Loop, AnchorAtLaunch, AnchorAtBuy, TriggerMet, TriggerFails,
     SetupAwaited, WaitAborts, Mark, Precheck, Lock, Judge, Retry, GiveUp, ActionRecord
<1>2. CASE \/ SkipHeld(a) \/ Compile(a) \/ AcquireSend(a) \/ SendTimesOut(a)
           \/ SubmitAccepted(a) \/ SubmitRejected(a) \/ SubmitUnacknowledged(a)
           \/ Confirmed(a) \/ ConfirmedByAccount(a) \/ FailedOnChain(a)
           \/ Unconfirmed(a)
  BY <1>t, <1>2 DEF SkipHeld, Compile, AcquireSend, SendTimesOut, SubmitAccepted,
     SubmitRejected, SubmitUnacknowledged, Confirmed, ConfirmedByAccount,
     FailedOnChain, Unconfirmed, ActionRecord
<1> QED BY <1>1, <1>2, TaskSteps

LEMMA NextAttemptsInv ==
    ASSUME TypeOK, AskedInv, AttemptsInv, [Next]_vars
    PROVE  AttemptsInv'
<1>t. /\ act \in [Actions -> ActionRecord] /\ RetryBudget \in Nat
      /\ \A a \in Actions : act[a].attempts \in Nat
  BY ParameterTypes DEF TypeOK, ActionRecord
<1>k. \A a \in Actions : RetriesVault(a)' <=> RetriesVault(a)
  BY DEF RetriesVault, IsSell
<1>1. ASSUME NEW a \in Actions, TaskStep(a) PROVE AttemptsInv'
  <2>1. Others(a) /\ pc[a] # "none" /\ (batch[TriggerKey[a]] => pc[a] # "lock")
    BY <1>1, TaskOthers, TaskEffect DEF Effect, AskedInv, BatchWaits, Waiting
  <2>2. runner'.pc \notin {"idle", "start", "spawn"}
    BY <2>1 DEF AskedInv, QuietBefore, Others
  <2>3. \A b \in Actions : batch'[TriggerKey[b]] => act'[b].attempts = 0
    BY <1>1, <2>1, TaskCounts DEF AttemptsInv, Others
  <2>4. ASSUME NEW b \in Actions, ~RetriesVault(b) PROVE AttemptsAt(b)'
    <3>1. CASE b = a
      BY <1>1, <2>4, <3>1, TaskAttempts DEF AttemptsInv
    <3>2. CASE b # a
      BY <2>1, <2>4, <3>2 DEF AttemptsInv, AttemptsAt, Bonus, Others
    <3> QED BY <3>1, <3>2
  <2> QED BY <1>k, <2>2, <2>3, <2>4 DEF AttemptsInv
<1>2. ASSUME Calm, \/ Arm \/ CancelJob \/ \E b \in Actions : CancelAction(b)
                   \/ UNCHANGED act
      PROVE  AttemptsInv'
  <2>1. \A a \in Actions : /\ act'[a].attempts = act[a].attempts
                           /\ act'[a].preSigned = act[a].preSigned
    BY <1>2, AroundCounts
  <2>2. \A a \in Actions : ~RetriesVault(a) => AttemptsAt(a)'
    BY <1>2, <2>1 DEF AttemptsInv, AttemptsAt, Bonus, Calm
  <2> QED BY <1>2, <1>k, <2>1, <2>2 DEF AttemptsInv, Calm
<1>3. CASE RunSpawn
  <2>1. runner'.pc = "join" /\ act' = act
    BY <1>3 DEF RunSpawn, TypeOK, RunnerRecord
  <2>2. \A a \in Actions : act[a].attempts = 0
    BY <1>3 DEF RunSpawn, AttemptsInv
  <2>3. \A a \in Actions : pc'[a] \notin {"rearm", "reset", "rebuild"}
    BY <1>3 DEF RunSpawn, FirstWait
  <2>4. \A a \in Actions : ~RetriesVault(a) => AttemptsAt(a)'
    BY <1>t, <2>1, <2>2, <2>3 DEF AttemptsInv, AttemptsAt, Bonus
  <2> QED BY <1>k, <2>1, <2>2, <2>4 DEF AttemptsInv
<1>4. ASSUME NEW k \in Keys, BatchStep(k) PROVE AttemptsInv'
  <2>1. /\ batch[k] /\ runner'.pc = runner.pc
        /\ \A a \in Actions : /\ act'[a].attempts = act[a].attempts
                              /\ act'[a].preSigned = act[a].preSigned
                              /\ batch'[TriggerKey[a]] => batch[TriggerKey[a]]
                              /\ TriggerKey[a] # k => pc'[a] = pc[a]
                              /\ TriggerKey[a] = k => pc'[a] \in {"loop", "done"}
    <3>1. CASE MarkBatch(k)
      BY <1>t, <3>1 DEF MarkBatch, Members, around, TypeOK, ActionRecord, Keys
    <3>2. CASE FailBatch(k)
      BY <1>t, <3>2 DEF FailBatch, Members, TypeOK, RunnerRecord, ActionRecord, Keys
    <3> QED BY <1>4, <3>1, <3>2 DEF BatchStep
  <2>2. ASSUME NEW a \in Actions, ~RetriesVault(a) PROVE AttemptsAt(a)'
    <3>1. CASE TriggerKey[a] = k
      <4>1. act[a].attempts = 0
        BY <2>1, <3>1 DEF AttemptsInv
      <4> QED BY <1>t, <2>1, <2>2, <3>1, <4>1 DEF AttemptsInv, AttemptsAt, Bonus
    <3>2. CASE TriggerKey[a] # k
      BY <2>1, <2>2, <3>2 DEF AttemptsInv, AttemptsAt, Bonus
    <3> QED BY <3>1, <3>2
  <2> QED BY <1>k, <2>1, <2>2 DEF AttemptsInv
<1>5. ASSUME \/ LaunchConfirmed \/ \E w \in {"launch", "slot", "market"} : WatcherFails(w)
             \/ \E a \in Actions : FallsDue(a)
             \/ \E a \in Actions : Settle(a)
             \/ SettleSetup \/ RunStart \/ RunJoined \/ RunFinish \/ SetupStep
             \/ Finished \/ UNCHANGED vars
      PROVE  UNCHANGED act
  BY <1>5 DEF LaunchConfirmed, WatcherFails, FallsDue, Settle, SettleSetup, RunStart,
     RunJoined, RunFinish, SetupStep, SetupRead, SetupLaunch, SetupMark, SetupAcquire, SetupTimesOut,
     SetupAccepted, SetupRejected, SetupUnacknowledged, SetupBacksOff, SetupConfirmed,
     SetupUnconfirmed, SetupFailedOnChain, beside, Finished, vars
<1> QED BY <1>1, <1>2, <1>3, <1>4, <1>5, AroundCalm DEF Next, RunStep

\* Over retries, rebuilds and resets, and whatever the operator writes over
\* the records, an action is compiled at most retryBudget + 1 times, and a
\* dev auto sell whose presigned transaction expired once more: the budget that
\* execute_action_with_retry looks at before it rearms an action is not spent
\* by the time the action takes its wallet's lock.
THEOREM AttemptsBoundedHolds == Spec => []AttemptsBounded
<1>1. Init => AttemptsInv
  <2> SUFFICES ASSUME Init PROVE AttemptsInv
    OBVIOUS
  <2>1. \A a \in Actions : act[a].attempts = 0
    BY DEF Init
  <2>2. ASSUME NEW a \in Actions PROVE AttemptsAt(a)
    <3>1. RetryBudget \in Nat /\ Bonus(a) \in {0, 1}
      BY ParameterTypes DEF Bonus
    <3>2. 0 <= RetryBudget + Bonus(a) /\ 0 <= RetryBudget + 1 + Bonus(a)
      BY <3>1
    <3>3. act[a].attempts = 0 /\ pc[a] = "none"
      BY DEF Init
    <3>4. act[a].preSigned => a \in PreSigned
      BY DEF Init
    <3> HIDE DEF Bonus
    <3> QED BY <3>2, <3>3, <3>4 DEF AttemptsAt
  <2>3. \A a \in Actions : ~RetriesVault(a) => AttemptsAt(a)
    BY <2>2
  <2>4. \A a \in Actions : batch[TriggerKey[a]] => act[a].attempts = 0
    BY <2>1
  <2> QED BY <2>1, <2>3, <2>4 DEF AttemptsInv
<1>2. TypeOK /\ AttemptsInv => AttemptsBounded
  BY ParameterTypes DEF AttemptsInv, AttemptsAt, Bonus, AttemptsBounded, TypeOK, ActionRecord
<1>3. Init => AskedInv
  BY InitAskedInv
<1> QED BY <1>1, <1>2, <1>3, TypeCorrect, NextAskedInv, NextAttemptsInv, PTL DEF Spec

-----------------------------------------------------------------------------
(* No send begins after a cancellation                                     *)

\* A stored cancellation of the job stops every action that has not passed
\* the last look at it, after execute_action has compiled: whoever would be at
\* the send slots or beyond in the next step was there already.
THEOREM NoSendBeginsAfterCancelHolds == Spec => NoSendBeginsAfterCancel
<1> DEFINE Begins(a) == job.cancelRequested /\ pc[a] \notin {"send"} \union Sending =>
                          /\ pc'[a] \notin {"send"} \union Sending
                          /\ chain'[a].gen = chain[a].gen
<1>1. ASSUME TypeOK, Next, NEW a \in Actions PROVE Begins(a)
  <2> USE DEF Sending
  <2>1. ASSUME NEW b \in Actions, TaskStep(b) PROVE Begins(a)
    <3>1. CASE a # b
      BY <2>1, <3>1, <1>1, TaskOthers DEF Others
    <3>2. CASE a = b
      <4> USE DEF rest, around, Goto, FailWith
      <4>t. pc \in [Actions -> Place]
        BY <1>1 DEF TypeOK
      <4>1. CASE \/ Loop(a) \/ AnchorAtLaunch(a) \/ AnchorAtBuy(a) \/ TriggerMet(a)
                 \/ SetupAwaited(a) \/ WaitAborts(a) \/ Mark(a)
        BY <4>1, <4>t DEF Loop, FirstWait, AnchorAtLaunch, AnchorAtBuy, TriggerMet,
           SetupAwaited, WaitAborts, Mark
      <4>2. CASE TriggerFails(a)
        BY <4>2, <4>t DEF TriggerFails
      <4>3. CASE Precheck(a) \/ Lock(a) \/ SkipHeld(a)
        BY <4>3, <4>t DEF Precheck, Lock, SkipHeld
      <4>4. CASE Compile(a)
        BY <4>4, <4>t DEF Compile, ActionCancelled, JobCancelled
      <4>5. CASE \/ AcquireSend(a) \/ SendTimesOut(a) \/ SubmitAccepted(a)
                 \/ SubmitRejected(a) \/ SubmitUnacknowledged(a) \/ Confirmed(a)
                 \/ ConfirmedByAccount(a) \/ FailedOnChain(a) \/ Unconfirmed(a)
        BY <4>5 DEF AcquireSend, SendTimesOut, SubmitAccepted, SubmitRejected,
           SubmitUnacknowledged, Confirmed, ConfirmedByAccount,
           FailedOnChain, Unconfirmed
      <4>6. CASE Judge(a) \/ Retry(a) \/ GiveUp(a)
        BY <4>6, <4>t DEF Judge, VerdictOf, Retry, GiveUp
      <4> QED BY <2>1, <3>2, <4>1, <4>2, <4>3, <4>4, <4>5, <4>6, TaskSteps
    <3> QED BY <3>1, <3>2
  <2>2. CASE RunSpawn
    BY <2>2 DEF RunSpawn, FirstWait
  <2>3. ASSUME NEW k \in Keys, BatchStep(k) PROVE Begins(a)
    BY <2>3, <1>1 DEF BatchStep, MarkBatch, FailBatch, around, TypeOK
  <2>4. ASSUME NEW b \in Actions, Settle(b) PROVE Begins(a)
    BY <2>4, <1>1 DEF Settle, TypeOK, ChainRecord
  <2>5. CASE UNCHANGED <<pc, chain>>
    BY <2>5
  <2>6. CASE \/ Arm \/ CancelJob \/ \E b \in Actions : CancelAction(b)
             \/ LaunchConfirmed \/ \E w \in {"launch", "slot", "market"} : WatcherFails(w)
             \/ \E b \in Actions : FallsDue(b)
             \/ SettleSetup \/ RunStart \/ RunJoined \/ RunFinish \/ SetupStep \/ Finished
    BY <2>5, <2>6 DEF Arm, CancelJob, CancelAction, LaunchConfirmed, WatcherFails,
       FallsDue, SettleSetup, RunStart, RunJoined, RunFinish, SetupStep, SetupRead, SetupLaunch,
       SetupMark, SetupAcquire, SetupTimesOut, SetupAccepted, SetupRejected,
       SetupUnacknowledged, SetupBacksOff, SetupConfirmed, SetupUnconfirmed, SetupFailedOnChain, beside,
       Finished, vars
  <2> QED BY <1>1, <2>1, <2>2, <2>3, <2>4, <2>6 DEF Next, RunStep
<1>2. TypeOK /\ [Next]_vars =>
        [\A a \in Actions : Begins(a)]_vars
  BY <1>1
<1> QED BY <1>2, TypeCorrect, PTL DEF Spec, NoSendBeginsAfterCancel

=============================================================================
