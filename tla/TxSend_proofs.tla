---------------------------- MODULE TxSend_proofs ----------------------------
(***************************************************************************)
(* Proofs about TxSend: what a caller is told about a batch is true, a     *)
(* failure leaves a prefix on the cluster, and the whole call, over every  *)
(* provider and every path of the wait, implements SendContract. For every *)
(* number of endpoints and transactions, every bundle limit and number of  *)
(* polls.                                                                  *)
(*                                                                         *)
(* The inductive invariant SendInv says which requests may be open in      *)
(* which stage (a late answer never falls into another turn), what a       *)
(* confirmation of the present stage rests on, and what the turns passed   *)
(* have left behind.                                                       *)
(***************************************************************************)
EXTENDS TxSend, TLAPS

Open == {"out", "again", "noId"}

\* A request is open only while its own submission waits for answers.
RequestsInv ==
    \A p \in Tx, e \in Endpoint : req[p][e] \in Open =>
        /\ e \in plan.ends
        /\ pc \in {"post", "done"}
        /\ pc = "post" => p \in Parcels /\ Fit(p)

\* Only the batch reaches the cluster; what is executed has been seen to be;
\* others pay only into what is watched.
ChainInv ==
    /\ \A t \in Tx \ Batch : chain[t] = "unsent"
    /\ \A t \in Tx : chain[t] \in {"processed", "final"} => t \in seen
    /\ paid \subseteq plan.capture

\* What a confirmation rests on.
ConfInv ==
    \A t \in Tx :
        /\ conf[t] \in {"notified", "status"} => chain[t] = "final"
        /\ conf[t] = "account" => HasBalance(t) /\ t \in plan.capture

\* What the turns passed have left behind, and the turns to come not begun.
TurnInv ==
    /\ turn \in Batch
    /\ plan.mode = "gated" => \A u \in Batch :
          (u < turn => chain[u] = "final") /\ (turn < u => chain[u] = "unsent")
    /\ OneByOne => \A u \in Batch :
          (u < turn => Accepted(u)) /\ (turn < u => chain[u] = "unsent")

\* A call is done when, and only when, it has its answer.
AnswerInv == pc = "done" <=> answer # "none"

SendInv ==
    /\ SendTypeOK /\ PlanOK
    /\ AnswerInv
    /\ RequestsInv
    /\ ChainInv
    /\ ConfInv
    /\ TurnInv
    /\ OkMeansLanded

-----------------------------------------------------------------------------
(* The parts of a plan, and the transactions of a request *)

(***************************************************************************)
(* The fields of a plan the code can be called with.                       *)
(***************************************************************************)
LEMMA PlanFields ==
    ASSUME PlanOK
    PROVE  /\ plan.size \in Nat /\ 1 <= plan.size /\ plan.size <= Size
           /\ Batch \subseteq Tx
           /\ plan.ends \subseteq Endpoint
           /\ plan.path \in Stage \ {"bundleStatus"}
           /\ plan.mode \in {"ordered", "independent", "gated"}
           /\ plan.capture \subseteq Batch
           /\ plan.capture # {} => plan.size = 1
           /\ plan.route = "jito" => \A t \in Batch : Fit(t)
  BY SendAssumption DEF PlanOK, Plan, Tx, Batch, Fit, Route, Bundle

(***************************************************************************)
(* The transactions at hand, and those of one request, are of the batch;   *)
(* when each is gated by the one before, a request carries the one whose   *)
(* turn it is, and so it does when an endpoint has to accept each one.     *)
(***************************************************************************)
LEMMA CarriedOfBatch ==
    ASSUME PlanOK, turn \in Batch
    PROVE  /\ Now \subseteq Batch /\ Parcels \subseteq Batch
           /\ \A p \in Parcels : Carried(p) \subseteq Batch
           /\ plan.mode = "gated" => Now = {turn} /\ Parcels = {turn}
           /\ OneByOne /\ pc \in {"begin", "post"} => Now = {turn} /\ Parcels = {turn}
           /\ plan.mode # "gated" /\ pc \in Stage => Now = Batch
  BY DEF Now, Parcels, Carried, Batch, OneByOne, Stage

-----------------------------------------------------------------------------
(* Type correctness *)

(***************************************************************************)
(* Giving transactions to the cluster keeps the type of chain.             *)
(***************************************************************************)
LEMMA TakeType ==
    ASSUME SendTypeOK, NEW S, Take(S) \/ UNCHANGED chain
    PROVE  chain' \in [Tx -> ChainState]
  BY DEF SendTypeOK, Take, ChainState

(***************************************************************************)
(* Every step keeps the types, and the plan is the one of the call.        *)
(***************************************************************************)
LEMMA TypeStep ==
    ASSUME SendTypeOK, PlanOK, [SendNext]_sendVars
    PROVE  SendTypeOK' /\ PlanOK' /\ plan' = plan
  <1> USE SendAssumption DEF SendTypeOK
  <1>0. UNCHANGED plan => PlanOK'
    BY DEF PlanOK, Plan, Batch
  <1>1. plan.size \in Nat /\ plan.size <= Size /\ plan.path \in Stage
    BY PlanFields
  <1> DEFINE Typed ==
        /\ plan' = plan
        /\ pc' \in {"begin", "post", "done"} \union Stage
        /\ turn' \in Tx
        /\ req' \in [Tx -> [Endpoint -> ReqState]]
        /\ chain' \in [Tx -> ChainState]
        /\ seen' \subseteq Tx /\ paid' \subseteq Tx
        /\ link' \in BOOLEAN /\ watching' \in BOOLEAN
        /\ conf' \in [Tx -> Conf]
        /\ rounds' \in 0..MaxRounds
        /\ answer' \in {"none", "ok", "failed", "terminal"}
  <1>2. Typed
    <2>1. ASSUME NEW stage \in Stage, Enter(stage)
          PROVE  /\ pc' \in {"begin", "post", "done"} \union Stage
                 /\ link' \in BOOLEAN /\ watching' \in BOOLEAN
                 /\ conf' \in [Tx -> Conf]
                 /\ rounds' \in 0..MaxRounds
      <3>1. conf' = [t \in Tx |-> "no"] /\ rounds' = 0
        BY <2>1 DEF Enter
      <3>2. conf' \in [Tx -> Conf]
        BY <3>1 DEF Conf
      <3>3. rounds' \in 0..MaxRounds
        BY <3>1
      <3>4. QED
        BY <2>1, <3>2, <3>3 DEF Enter
    <2>2. ASSUME NEW how \in Conf, NEW S, Confirm(S, how)
          PROVE  /\ conf' \in [Tx -> Conf]
                 /\ pc' \in {"begin", "post", "done"} \union Stage
                 /\ turn' \in Tx
                 /\ answer' \in {"none", "ok", "failed", "terminal"}
      BY <1>1, <2>2 DEF Confirm, Done, Conclude, Tx
    <2>3. ASSUME TellsError
          PROVE  Typed
      BY <2>3 DEF TellsError, Conclude, waiting, cluster
    <2>4. CASE Post
      BY <2>4 DEF Post, cluster, waiting, ReqState
    <2>5. CASE Refuse
      BY <2>5 DEF Refuse, Conclude, cluster, waiting
    <2>6. CASE Gather
      <3>1. FirstStage \in Stage
        BY <1>1 DEF FirstStage, Stage
      <3>2. QED
        BY <1>1, <2>1, <2>6, <3>1 DEF Gather, Conclude, cluster, waiting, Tx
    <2>7. ASSUME NEW e \in Endpoint, PostBundle(e) \/ BundleWithoutId(e)
          PROVE  Typed
      BY <2>7 DEF PostBundle, BundleWithoutId, Conclude, cluster, waiting, ReqState
    <2>8. ASSUME NEW p \in Tx, NEW e \in Endpoint, EndpointAnswers(p, e)
          PROVE  Typed
      <3>1. chain' \in [Tx -> ChainState]
        BY <2>8, TakeType DEF EndpointAnswers, AnswersError, AnswersWithoutId
      <3>2. req' \in [Tx -> [Endpoint -> ReqState]]
        <4>1. \E state \in ReqState : req' = [req EXCEPT ![p][e] = state]
          BY <2>8 DEF EndpointAnswers, AnswersError, AnswersWithoutId, ReqState
        <4>2. QED
          BY <4>1
      <3>3. QED
        BY <2>8, <3>1, <3>2 DEF EndpointAnswers, waiting
    <2>9. CASE Subscribe
      BY <2>9 DEF Subscribe, cluster
    <2>10. CASE StageFails
      BY <2>1, <2>10 DEF StageFails, Fallback, cluster, Stage
    <2>11. CASE NotifiedError
      BY <2>3, <2>11 DEF NotifiedError, cluster
    <2>12. CASE Reconcile
      <3>1. CASE TellsError
        BY <2>3, <3>1
      <3>2. CASE ~TellsError
        BY <2>2, <2>12, <3>2 DEF Reconcile, Conf, cluster
      <3>3. QED
        BY <3>1, <3>2
    <2>13. ASSUME NEW t \in Tx, Notified(t) \/ AccountNotified(t)
           PROVE  Typed
      BY <2>2, <2>13 DEF Notified, AccountNotified, Conf, cluster
    <2>14. CASE Poll
      BY <2>2, <2>14 DEF Poll, Conclude, Conf, cluster
    <2>15. CASE PollBundle
      BY <2>2, <2>15 DEF PollBundle, Conf, cluster
    <2>16. CASE PollFails \/ BudgetSpent
      BY <2>16 DEF PollFails, BudgetSpent, Conclude, cluster, waiting
    <2>17. ASSUME NEW t \in Tx, ClusterStep(t)
           PROVE  Typed
      <3>1. Together(t) \subseteq Tx
        BY PlanFields DEF Together
      <3>2. QED
        BY <2>17, <3>1 DEF ClusterStep, Move, ChainState, waiting
    <2>18. ASSUME NEW t \in Tx, PayIn(t)
           PROVE  Typed
      BY <2>18 DEF PayIn, waiting
    <2>19. CASE UNCHANGED sendVars
      BY <2>19 DEF sendVars
    <2>20. QED
      BY <2>4, <2>5, <2>6, <2>7, <2>8, <2>9, <2>10, <2>11, <2>12, <2>13, <2>14,
         <2>15, <2>16, <2>17, <2>18, <2>19
      DEF SendNext, SubmitStep, WaitStep, Answered
  <1>3. QED
    BY <1>0, <1>2

-----------------------------------------------------------------------------
(* The shapes of a step: what the many actions of the wait come down to *)

\* The call is given its answer, "terminal" only for a failure on chain.
Concludes ==
    /\ pc # "done"
    /\ \/ Conclude("failed")
       \/ Conclude("terminal") /\ \E t \in Batch : chain[t] = "reverted"
    /\ UNCHANGED <<plan, turn, req, cluster, conf>>

\* A stage of the wait begins.
Enters ==
    /\ pc # "done"
    /\ \E stage \in Stage : Enter(stage)
    /\ pc = "post" => AllAnswered /\ AllAccepted
    /\ UNCHANGED <<plan, turn, req, cluster, answer>>

\* The turn of the next transaction, the one before having been accepted.
NextTurn ==
    /\ pc = "post" /\ AllAnswered /\ AllAccepted
    /\ OneByOne /\ turn < plan.size
    /\ turn' = turn + 1 /\ pc' = "begin"
    /\ UNCHANGED <<plan, req, cluster, conf, answer>>

\* Each transaction of S is what it is confirmed as.
Rests(S, how) ==
    \/ how \in {"notified", "status"} /\ \A t \in S : chain[t] = "final"
    \/ how = "account" /\ \A t \in S : HasBalance(t) /\ t \in plan.capture

Confirms ==
    /\ pc \in Stage
    /\ \E S \in SUBSET Tx, how \in Conf : Rests(S, how) /\ Confirm(S, how)
    /\ UNCHANGED <<plan, req, cluster>>

Idles == UNCHANGED <<plan, pc, turn, req, cluster, conf, answer>>

(***************************************************************************)
(* Whatever stage it is in, a step of the wait concludes the call, begins  *)
(* the next stage, confirms transactions that are what they are confirmed  *)
(* as, or changes none of what the properties speak of.                    *)
(***************************************************************************)
LEMMA WaitShape ==
    ASSUME SendTypeOK, PlanOK, turn \in Batch, WaitStep
    PROVE  Concludes \/ Enters \/ Confirms \/ Idles
  <1> USE DEF Stage
  <1>1. Pending \subseteq Batch /\ Batch \subseteq Tx /\ Now \subseteq Tx
    BY CarriedOfBatch, PlanFields DEF Pending
  <1>2. ASSUME TellsError, pc \in Stage
        PROVE  Concludes
    BY <1>1, <1>2 DEF TellsError, Concludes, waiting, cluster
  <1>3. ASSUME NEW S \in SUBSET Tx, NEW how \in {"notified", "status"},
               \A t \in S : chain[t] = "final",
               pc \in Stage, Confirm(S, how), UNCHANGED <<plan, req, cluster>>
        PROVE  Confirms
    BY <1>3 DEF Confirms, Rests, Conf
  <1>4. CASE Subscribe
    BY <1>4 DEF Subscribe, Idles, cluster
  <1>5. CASE StageFails
    BY <1>5 DEF StageFails, Fallback, Enters, cluster
  <1>6. CASE NotifiedError
    BY <1>2, <1>6 DEF NotifiedError
  <1>7. CASE Reconcile
    <2>1. CASE TellsError
      BY <1>2, <1>7, <2>1 DEF Reconcile
    <2>2. CASE ~TellsError
      <3>1. {t \in Pending \ plan.capture : chain[t] = "final"} \in SUBSET Tx
        BY <1>1
      <3>2. QED
        BY <1>3, <1>7, <2>2, <3>1 DEF Reconcile, cluster
    <2>3. QED
      BY <2>1, <2>2
  <1>8. ASSUME NEW t \in Tx, Notified(t)
        PROVE  Confirms
    BY <1>3, <1>8 DEF Notified, cluster
  <1>9. ASSUME NEW t \in Tx, AccountNotified(t)
        PROVE  Confirms
    <2>1. HasBalance(t) /\ t \in plan.capture
      BY <1>9 DEF AccountNotified, Watchable
    <2>2. Rests({t}, "account") /\ "account" \in Conf /\ {t} \in SUBSET Tx
      BY <2>1 DEF Rests, Conf
    <2>3. QED
      BY <1>9, <2>2 DEF AccountNotified, Confirms, cluster
  <1>10. CASE Poll
    <2>1. CASE Conclude("terminal")
      <3>1. \E t \in Batch : chain[t] = "reverted"
        BY <1>1, <1>10, <2>1 DEF Poll, Conclude, Confirm, Done
      <3>2. QED
        BY <1>10, <2>1, <3>1 DEF Poll, Concludes, Conclude, Confirm, Done, cluster
    <2>2. CASE Confirm({t \in Pending : chain[t] = "final"}, "status")
      <3>1. {t \in Pending : chain[t] = "final"} \in SUBSET Tx
        BY <1>1
      <3>2. QED
        BY <1>3, <1>10, <2>2, <3>1 DEF Poll, cluster
    <2>3. QED
      BY <1>10, <2>1, <2>2 DEF Poll
  <1>11. CASE PollBundle
    <2>1. CASE (\A t \in Now : chain[t] = "final") /\ Confirm(Now, "status")
      BY <1>1, <1>3, <1>11, <2>1 DEF PollBundle, cluster
    <2>2. CASE UNCHANGED <<pc, turn, conf, answer>>
      BY <1>11, <2>2 DEF PollBundle, Idles, cluster
    <2>3. QED
      BY <1>11, <2>1, <2>2 DEF PollBundle
  <1>12. CASE PollFails \/ BudgetSpent
    BY <1>12 DEF PollFails, BudgetSpent, Concludes, waiting, cluster
  <1>13. QED
    BY <1>4, <1>5, <1>6, <1>7, <1>8, <1>9, <1>10, <1>11, <1>12, <1>2 DEF WaitStep

(***************************************************************************)
(* The same for the whole system: the submission, the wait, the cluster.   *)
(***************************************************************************)
LEMMA StepShape ==
    ASSUME SendTypeOK, PlanOK, turn \in Batch, [SendNext]_sendVars
    PROVE  \/ Post
           \/ \E e \in Endpoint : PostBundle(e)
           \/ \E p \in Tx, e \in Endpoint : EndpointAnswers(p, e)
           \/ NextTurn
           \/ Concludes \/ Enters \/ Confirms \/ Idles
           \/ \E t \in Tx : ClusterStep(t) \/ PayIn(t)
  <1>1. CASE Refuse
    BY <1>1 DEF Refuse, Concludes, waiting, cluster
  <1>2. ASSUME NEW e \in Endpoint, BundleWithoutId(e)
        PROVE  Concludes
    BY <1>2 DEF BundleWithoutId, Concludes, waiting, cluster
  <1>3. CASE Gather
    <2>1. CASE ~AllAccepted /\ Conclude("failed") /\ UNCHANGED <<turn, waiting>>
      BY <1>3, <2>1 DEF Gather, Concludes, waiting, cluster
    <2>2. CASE /\ AllAccepted
               /\ OneByOne /\ turn < plan.size
               /\ turn' = turn + 1 /\ pc' = "begin"
               /\ UNCHANGED <<waiting, answer>>
      BY <1>3, <2>2 DEF Gather, NextTurn, waiting, cluster
    <2>3. CASE AllAccepted /\ Enter(FirstStage) /\ UNCHANGED <<turn, answer>>
      <3>1. FirstStage \in Stage
        BY PlanFields DEF FirstStage, Stage
      <3>2. QED
        BY <1>3, <2>3, <3>1 DEF Gather, Enters, cluster
    <2>4. QED
      BY <1>3, <2>1, <2>2, <2>3 DEF Gather
  <1>4. CASE UNCHANGED sendVars
    BY <1>4 DEF sendVars, Idles, cluster
  <1>5. QED
    BY <1>1, <1>2, <1>3, <1>4, WaitShape DEF SendNext, SubmitStep, Answered

-----------------------------------------------------------------------------
(* The inductive invariant, part by part *)

(***************************************************************************)
(* What the cluster does to a transaction: an unsent one stays so, a final *)
(* one stays so, and what is executed has been seen to be.                 *)
(***************************************************************************)
LEMMA ClusterEffect ==
    ASSUME SendTypeOK, PlanOK, ChainInv, NEW t \in Tx, ClusterStep(t)
    PROVE  /\ UNCHANGED <<plan, pc, turn, req, paid, conf, answer>>
           /\ seen \subseteq seen'
           /\ \A u \in Tx : /\ chain[u] \in {"unsent", "final"} => chain'[u] = chain[u]
                            /\ chain[u] # "unsent" => chain'[u] # "unsent"
                            /\ chain'[u] \in {"processed", "final"} => u \in seen'
                            /\ chain[u] = "reverted" => chain'[u] = "reverted"
  <1> USE DEF SendTypeOK
  <1>1. UNCHANGED <<plan, pc, turn, req, paid, conf, answer>> /\ seen \subseteq seen'
    BY DEF ClusterStep, waiting
  <1>2. PICK from \in {"pending", "processed"},
             to \in {"processed", "final", "pending", "reverted", "dropped"} :
          /\ Move(Together(t), from, to)
          /\ to = "processed" => seen' = seen \union Together(t)
          /\ to = "final" => from = "processed"
    BY DEF ClusterStep
  <1>3. \A u \in Tx : chain'[u] = IF u \in Together(t) THEN to ELSE chain[u]
    BY <1>2 DEF Move
  <1>4. \A u \in Together(t) : chain[u] = from
    BY <1>2 DEF Move
  <1>5. QED
    BY <1>1, <1>2, <1>3, <1>4 DEF ChainInv

(***************************************************************************)
(* Tokens that others put into an account change nothing else.             *)
(***************************************************************************)
LEMMA PayInEffect ==
    ASSUME NEW t \in Tx, PayIn(t)
    PROVE  /\ UNCHANGED <<plan, pc, turn, req, chain, seen, conf, answer>>
           /\ paid \subseteq paid' /\ paid' \subseteq paid \union plan.capture
  BY DEF PayIn, waiting

(***************************************************************************)
(* An answer of an endpoint to one of its requests: the cluster has been   *)
(* given what the request carries, or nothing, and nothing else changes.   *)
(***************************************************************************)
LEMMA AnswerEffect ==
    ASSUME SendTypeOK, PlanOK, TurnInv, RequestsInv,
           NEW p \in Tx, NEW e \in Endpoint, EndpointAnswers(p, e)
    PROVE  /\ pc = "post" /\ p \in Parcels /\ Carried(p) \subseteq Batch
           /\ UNCHANGED <<plan, pc, turn, seen, paid, waiting, answer>>
           /\ Take(Carried(p)) \/ UNCHANGED chain
           /\ \E state \in ReqState \ {"idle"} : req' = [req EXCEPT ![p][e] = state]
           /\ req[p][e] # "ok"
           /\ e \in plan.ends /\ Fit(p)
  <1>1. pc = "post" /\ p \in Parcels /\ e \in plan.ends /\ Fit(p)
    BY DEF EndpointAnswers, RequestsInv, Open
  <1>2. Carried(p) \subseteq Batch
    BY <1>1, CarriedOfBatch DEF TurnInv
  <1>3. QED
    BY <1>1, <1>2
    DEF EndpointAnswers, AnswersError, AnswersWithoutId, waiting, ReqState

(***************************************************************************)
(* Where the turn and the confirmations are after a confirmation.          *)
(***************************************************************************)
LEMMA ConfirmEffect ==
    ASSUME SendTypeOK, PlanOK, TurnInv, Confirms
    PROVE  /\ UNCHANGED <<plan, req, cluster>>
           /\ \/ UNCHANGED <<pc, turn, answer>>
              \/ /\ \A t \in Now : conf'[t] # "no"
                 /\ \/ /\ plan.mode = "gated" /\ turn < plan.size
                       /\ turn' = turn + 1 /\ pc' = "begin"
                       /\ UNCHANGED answer
                    \/ /\ ~(plan.mode = "gated" /\ turn < plan.size)
                       /\ Conclude("ok")
                       /\ UNCHANGED turn
           /\ \E how \in Conf, S \in SUBSET Tx :
                 /\ Rests(S, how)
                 /\ conf' = [t \in Tx |-> IF t \in S THEN how ELSE conf[t]]
  <1>1. PICK S \in SUBSET Tx, how \in Conf : Rests(S, how) /\ Confirm(S, how)
    BY DEF Confirms
  <1>2. Now \subseteq Tx
    BY CarriedOfBatch, PlanFields DEF TurnInv
  <1>3. ASSUME Pending \subseteq S
        PROVE  \A t \in Now : conf'[t] # "no"
    BY <1>1, <1>2, <1>3 DEF Confirm, Pending, Rests
  <1>4. QED
    BY <1>1, <1>3 DEF Confirm, Confirms, Done

(***************************************************************************)
(* A call is done when, and only when, it has its answer.                  *)
(***************************************************************************)
LEMMA AnswerStep ==
    ASSUME SendTypeOK, PlanOK, TurnInv, RequestsInv, ChainInv, AnswerInv,
           [SendNext]_sendVars
    PROVE  AnswerInv'
  <1> USE DEF AnswerInv
  <1>1. CASE Post
    BY <1>1 DEF Post
  <1>2. CASE \E e \in Endpoint : PostBundle(e)
    BY <1>2 DEF PostBundle
  <1>3. CASE \E p \in Tx, e \in Endpoint : EndpointAnswers(p, e)
    BY <1>3 DEF EndpointAnswers
  <1>4. CASE NextTurn
    BY <1>4 DEF NextTurn
  <1>5. CASE Concludes
    BY <1>5 DEF Concludes, Conclude
  <1>6. CASE Enters
    BY <1>6 DEF Enters, Enter, Stage
  <1>7. CASE Confirms
    BY <1>7, ConfirmEffect DEF Confirms, Conclude, Stage
  <1>8. CASE Idles
    BY <1>8 DEF Idles
  <1>9. CASE \E t \in Tx : ClusterStep(t) \/ PayIn(t)
    BY <1>9, ClusterEffect, PayInEffect
  <1>10. QED
    BY <1>1, <1>2, <1>3, <1>4, <1>5, <1>6, <1>7, <1>8, <1>9, StepShape DEF TurnInv

(***************************************************************************)
(* The batch alone reaches the cluster.                                    *)
(***************************************************************************)
LEMMA ChainStep ==
    ASSUME SendTypeOK, PlanOK, TurnInv, RequestsInv, ChainInv, [SendNext]_sendVars
    PROVE  ChainInv'
  <1>1. CASE UNCHANGED <<plan, chain, seen, paid>>
    BY <1>1 DEF ChainInv, Batch
  <1>2. ASSUME NEW p \in Tx, NEW e \in Endpoint, EndpointAnswers(p, e)
        PROVE  ChainInv'
    <2>1. /\ UNCHANGED <<plan, seen, paid>>
          /\ Take(Carried(p)) \/ UNCHANGED chain
          /\ Carried(p) \subseteq Batch
      BY <1>2, AnswerEffect
    <2>2. CASE Take(Carried(p))
      BY <2>1, <2>2 DEF ChainInv, Batch, Take
    <2>3. QED
      BY <1>1, <2>1, <2>2
  <1>3. ASSUME NEW t \in Tx, ClusterStep(t)
        PROVE  ChainInv'
    <2>1. Batch' = Batch
      BY <1>3, ClusterEffect DEF Batch
    <2>2. QED
      BY <1>3, <2>1, ClusterEffect DEF ChainInv
  <1>4. ASSUME NEW t \in Tx, PayIn(t)
        PROVE  ChainInv'
    BY <1>4, PayInEffect DEF ChainInv, Batch
  <1>5. QED
    BY <1>1, <1>2, <1>3, <1>4, StepShape
    DEF TurnInv, Post, PostBundle, NextTurn, Concludes, Enters, Confirms, Idles, cluster

(***************************************************************************)
(* A confirmation of the present stage rests on what the cluster did.      *)
(***************************************************************************)
LEMMA ConfStep ==
    ASSUME SendTypeOK, PlanOK, TurnInv, RequestsInv, ChainInv, ConfInv,
           [SendNext]_sendVars
    PROVE  ConfInv'
  <1> USE DEF HasBalance
  <1>1. CASE UNCHANGED <<plan, chain, seen, paid, conf>>
    BY <1>1 DEF ConfInv
  <1>2. ASSUME NEW p \in Tx, NEW e \in Endpoint, EndpointAnswers(p, e)
        PROVE  ConfInv'
    <2>1. UNCHANGED <<plan, seen, paid, conf>> /\ (Take(Carried(p)) \/ UNCHANGED chain)
      BY <1>2, AnswerEffect DEF waiting
    <2>2. \A t \in Tx : chain[t] = "final" => chain'[t] = "final"
      BY <2>1 DEF Take
    <2>3. QED
      BY <2>1, <2>2 DEF ConfInv
  <1>3. ASSUME NEW t \in Tx, ClusterStep(t)
        PROVE  ConfInv'
    BY <1>3, ClusterEffect DEF ConfInv
  <1>4. CASE Enters
    BY <1>4 DEF Enters, Enter, ConfInv
  <1>5. CASE Confirms
    BY <1>5, ConfirmEffect DEF ConfInv, Rests, cluster, Conf
  <1>6. ASSUME NEW t \in Tx, PayIn(t)
        PROVE  ConfInv'
    BY <1>6, PayInEffect DEF ConfInv
  <1>7. QED
    BY <1>1, <1>2, <1>3, <1>4, <1>5, <1>6, StepShape
    DEF TurnInv, Post, PostBundle, NextTurn, Concludes, Idles, cluster, waiting

(***************************************************************************)
(* No request of an earlier turn or stage is open: an answer that comes    *)
(* late belongs to a call that has been answered.                          *)
(***************************************************************************)
LEMMA RequestsStep ==
    ASSUME SendTypeOK, PlanOK, TurnInv, RequestsInv, ChainInv, [SendNext]_sendVars
    PROVE  RequestsInv'
  <1> USE DEF RequestsInv
  <1>1. ASSUME UNCHANGED <<plan, turn, req>>,
               pc' = pc \/ pc' = "done" \/
               \A p \in Tx, e \in Endpoint : req[p][e] \notin Open
        PROVE  RequestsInv'
    BY <1>1 DEF Parcels, Fit, Now, OneByOne, Batch
  <1>2. CASE Post
    <2>1. Parcels' = Parcels /\ \A p \in Tx : Fit(p)' = Fit(p)
      BY <1>2 DEF Post, Parcels, Now, OneByOne, Fit, Batch
    <2>2. \A p \in Tx, e \in Endpoint : req[p][e] \notin Open
      BY <1>2 DEF Post
    <2>3. \A p \in Tx, e \in Endpoint : req'[p][e] \in Open =>
             p \in Parcels /\ Fit(p) /\ e \in plan.ends
      BY <1>2, <2>2 DEF Post, Open
    <2>4. QED
      BY <1>2, <2>1, <2>3 DEF Post
  <1>3. ASSUME NEW e \in Endpoint, PostBundle(e)
        PROVE  RequestsInv'
    <2>1. plan.route = "jito" /\ UNCHANGED <<plan, turn>> /\ pc' = "post"
      BY <1>3 DEF PostBundle
    <2>2. Parcels = {turn} /\ Parcels' = {turn} /\ \A p \in Tx : Fit(p)'
      BY <2>1 DEF Parcels, Bundle, Fit
    <2>3. \A p \in Tx, f \in Endpoint : req'[p][f] \in Open =>
             p = turn /\ f \in plan.ends
      BY <1>3, <2>2 DEF PostBundle, SendTypeOK
    <2>4. QED
      BY <2>1, <2>2, <2>3
  <1>4. ASSUME NEW p \in Tx, NEW e \in Endpoint, EndpointAnswers(p, e)
        PROVE  RequestsInv'
    <2>1. UNCHANGED <<plan, turn, pc>> /\ Parcels' = Parcels /\ \A q \in Tx : Fit(q)' = Fit(q)
      BY <1>4, AnswerEffect DEF Parcels, Now, OneByOne, Fit, Batch
    <2>2. /\ pc = "post" /\ p \in Parcels /\ Fit(p) /\ e \in plan.ends
          /\ \A q \in Tx, f \in Endpoint : q # p \/ f # e => req'[q][f] = req[q][f]
      BY <1>4, AnswerEffect DEF SendTypeOK
    <2>3. QED
      BY <2>1, <2>2
  <1>5. CASE NextTurn
    <2>1. \A p \in Tx, e \in Endpoint : req[p][e] \notin Open
      BY <1>5 DEF NextTurn, AllAnswered, Settled, Open
    <2>2. QED
      BY <1>5, <2>1 DEF NextTurn
  <1>6. CASE Concludes
    BY <1>1, <1>6 DEF Concludes, Conclude
  <1>7. CASE Enters
    <2>1. \A p \in Tx, e \in Endpoint : req[p][e] \notin Open
      BY <1>7 DEF Enters, AllAnswered, Settled, Open
    <2>2. QED
      BY <1>1, <1>7, <2>1 DEF Enters
  <1>8. CASE Confirms
    <2>1. \A p \in Tx, e \in Endpoint : req[p][e] \notin Open
      BY <1>8 DEF Confirms, Stage
    <2>2. QED
      BY <1>8, <2>1, ConfirmEffect
  <1>9. CASE Idles
    BY <1>1, <1>9 DEF Idles
  <1>10. ASSUME NEW t \in Tx, ClusterStep(t) \/ PayIn(t)
         PROVE  RequestsInv'
    BY <1>1, <1>10, ClusterEffect, PayInEffect
  <1>11. QED
    BY <1>2, <1>3, <1>4, <1>5, <1>6, <1>7, <1>8, <1>9, <1>10, StepShape DEF TurnInv

(***************************************************************************)
(* A turn is passed only when its transaction was accepted, in an ordered  *)
(* batch, or is final, in a gated one; the turns to come have not begun.   *)
(***************************************************************************)
LEMMA TurnStep ==
    ASSUME SendTypeOK, PlanOK, TurnInv, RequestsInv, ChainInv, ConfInv,
           [SendNext]_sendVars
    PROVE  TurnInv'
  <1>0. /\ plan.size \in Nat /\ turn \in Batch /\ turn \in Nat
        /\ Batch \subseteq Tx /\ plan' = plan /\ Batch' = Batch /\ OneByOne' = OneByOne
    BY TypeStep, PlanFields DEF TurnInv, Batch, OneByOne
  <1>1. ASSUME UNCHANGED <<turn, chain>>,
               OneByOne => \A u \in Batch : u < turn /\ Accepted(u) => Accepted(u)'
        PROVE  TurnInv'
    BY <1>0, <1>1 DEF TurnInv, Accepted
  <1>2. CASE UNCHANGED <<turn, req, chain>>
    BY <1>0, <1>1, <1>2 DEF Accepted
  <1>3. CASE Post
    <2>1. OneByOne => \A u \in Batch : u < turn => req'[u] = req[u]
      BY <1>0, <1>3, CarriedOfBatch DEF Post
    <2>2. QED
      BY <1>0, <1>1, <1>3, <2>1 DEF Post, Accepted, cluster
  <1>4. ASSUME NEW e \in Endpoint, PostBundle(e)
        PROVE  TurnInv'
    BY <1>0, <1>1, <1>4 DEF PostBundle, OneByOne, Bundle, cluster
  <1>5. ASSUME NEW p \in Tx, NEW e \in Endpoint, EndpointAnswers(p, e)
        PROVE  TurnInv'
    <2>1. /\ turn' = turn /\ pc = "post" /\ p \in Parcels
          /\ Take(Carried(p)) \/ UNCHANGED chain
          /\ \A q \in Tx : q # p => req'[q] = req[q]
      BY <1>5, AnswerEffect DEF SendTypeOK
    <2>2. plan.mode = "gated" \/ OneByOne => p = turn /\ Carried(p) = {turn}
      BY <1>0, <2>1, CarriedOfBatch DEF Carried, OneByOne
    <2>3. \A u \in Tx : (chain[u] = "final" => chain'[u] = "final")
      BY <2>1 DEF Take
    <2>4. plan.mode = "gated" \/ OneByOne =>
             \A u \in Batch : turn < u /\ chain[u] = "unsent" => chain'[u] = "unsent"
      BY <1>0, <2>1, <2>2 DEF Take, Batch
    <2>5. OneByOne => \A u \in Batch : u < turn /\ Accepted(u) => Accepted(u)'
      BY <1>0, <2>1, <2>2 DEF Accepted, Batch
    <2>6. QED
      BY <1>0, <2>1, <2>3, <2>4, <2>5 DEF TurnInv, Accepted
  <1>6. CASE NextTurn
    <2>1. Accepted(turn)
      BY <1>0, <1>6, CarriedOfBatch DEF NextTurn, AllAccepted
    <2>2. \A u \in Batch : u < turn' => u < turn \/ u = turn
      BY <1>0, <1>6 DEF NextTurn, Batch
    <2>3. \A u \in Batch : turn' < u => turn < u
      BY <1>0, <1>6 DEF NextTurn, Batch
    <2>4. turn' \in Batch /\ plan.mode # "gated"
      BY <1>0, <1>6 DEF NextTurn, Batch, OneByOne
    <2>5. QED
      BY <1>0, <1>6, <2>1, <2>2, <2>3, <2>4 DEF TurnInv, NextTurn, Accepted, cluster
  <1>7. CASE Confirms
    <2>1. CASE UNCHANGED turn
      BY <1>2, <1>7, <2>1, ConfirmEffect DEF cluster
    <2>2. CASE plan.mode = "gated" /\ turn < plan.size /\ turn' = turn + 1
      <3>1. conf'[turn] # "no"
        BY <1>0, <1>7, <2>2, ConfirmEffect, CarriedOfBatch
      <3>2. conf' \in [Tx -> Conf] /\ ConfInv'
        BY TypeStep, ConfStep DEF SendTypeOK
      <3>3. turn \notin plan'.capture
        BY <1>0, <2>2, PlanFields DEF Batch
      <3>4. chain[turn] = "final"
        BY <1>0, <1>7, <3>1, <3>2, <3>3, ConfirmEffect DEF ConfInv, Conf, cluster
      <3>5. \A u \in Batch : (u < turn' => u < turn \/ u = turn) /\ (turn' < u => turn < u)
        BY <1>0, <2>2 DEF Batch
      <3>6. turn' \in Batch /\ ~OneByOne
        BY <1>0, <2>2 DEF Batch, OneByOne
      <3>7. QED
        BY <1>0, <1>7, <2>2, <3>4, <3>5, <3>6, ConfirmEffect DEF TurnInv, cluster
    <2>3. QED
      BY <1>7, <2>1, <2>2, ConfirmEffect
  <1>8. ASSUME NEW t \in Tx, ClusterStep(t)
        PROVE  TurnInv'
    <2>1. UNCHANGED <<turn, req>> /\ \A u \in Batch : Accepted(u) => Accepted(u)'
      BY <1>0, <1>8, ClusterEffect DEF Accepted
    <2>2. QED
      BY <1>0, <1>8, <2>1, ClusterEffect DEF TurnInv
  <1>9. ASSUME NEW t \in Tx, PayIn(t)
        PROVE  TurnInv'
    BY <1>2, <1>9, PayInEffect
  <1>10. QED
    BY <1>0, <1>2, <1>3, <1>4, <1>5, <1>6, <1>7, <1>8, <1>9, StepShape
    DEF Concludes, Enters, Idles, cluster

(***************************************************************************)
(* "ok" is answered when the last transaction of the batch is confirmed,   *)
(* and what was final then stays final.                                    *)
(***************************************************************************)
LEMMA LandedStep ==
    ASSUME SendInv, [SendNext]_sendVars
    PROVE  OkMeansLanded'
  <1> USE DEF SendInv
  <1>0. plan' = plan /\ Batch' = Batch /\ Batch \subseteq Tx /\ turn \in Batch
    BY TypeStep, PlanFields DEF TurnInv, Batch
  <1>1. CASE UNCHANGED <<answer, chain, seen, paid, conf>>
    BY <1>0, <1>1 DEF OkMeansLanded, HasBalance
  <1>2. CASE answer' # "ok"
    BY <1>2 DEF OkMeansLanded
  <1>3. CASE Confirms
    <2>1. CASE answer' = answer
      BY <1>2, <1>3, <2>1 DEF AnswerInv, Confirms, Stage
    <2>2. CASE /\ \A t \in Now : conf'[t] # "no"
               /\ ~(plan.mode = "gated" /\ turn < plan.size)
      <3>1. \A t \in Batch : t \in Now \/ chain[t] = "final"
        <4>1. CASE plan.mode = "gated"
          <5>1. turn = plan.size
            BY <1>0, <2>2, <4>1, PlanFields DEF Batch
          <5>2. QED
            BY <1>0, <4>1, <5>1, CarriedOfBatch, PlanFields DEF TurnInv, Batch
        <4>2. CASE plan.mode # "gated"
          BY <1>0, <1>3, <4>2, CarriedOfBatch DEF Confirms
        <4>3. QED
          BY <4>1, <4>2
      <3>2. conf' \in [Tx -> Conf] /\ ConfInv'
        BY TypeStep, ConfStep DEF SendTypeOK
      <3>3. UNCHANGED chain
        BY <1>3, ConfirmEffect DEF cluster
      <3>4. QED
        BY <1>0, <2>2, <3>1, <3>2, <3>3 DEF OkMeansLanded, ConfInv, Conf
    <2>3. QED
      BY <1>3, <2>1, <2>2, ConfirmEffect DEF Conclude
  <1>4. ASSUME NEW t \in Tx, ClusterStep(t) \/ PayIn(t)
        PROVE  OkMeansLanded'
    BY <1>0, <1>4, ClusterEffect, PayInEffect DEF OkMeansLanded, HasBalance
  <1>5. ASSUME NEW p \in Tx, NEW e \in Endpoint, EndpointAnswers(p, e)
        PROVE  answer' # "ok"
    BY <1>5, AnswerEffect DEF AnswerInv
  <1>6. CASE Concludes \/ Enters
    BY <1>2, <1>6 DEF Concludes, Conclude, Enters, AnswerInv
  <1>7. QED
    BY <1>0, <1>1, <1>2, <1>3, <1>4, <1>5, <1>6, StepShape
    DEF Post, PostBundle, NextTurn, Idles, cluster, waiting

-----------------------------------------------------------------------------
(* The theorems *)

(***************************************************************************)
(* SendInv holds in the initial states and every step keeps it.            *)
(***************************************************************************)
LEMMA Invariance ==
    SendSpec => []SendInv
  <1>1. ASSUME SendInit
        PROVE  SendInv
    <2> USE <1>1, SendAssumption
    <2>1. PlanOK /\ plan \in Plan /\ 1 \in Batch /\ Batch \subseteq Tx
      BY PlanFields DEF SendInit, PlanOK, Batch
    <2>2. SendTypeOK
      <3>1. /\ req \in [Tx -> [Endpoint -> ReqState]]
            /\ chain \in [Tx -> ChainState]
            /\ conf \in [Tx -> Conf]
        BY DEF SendInit, ReqState, ChainState, Conf
      <3>2. rounds \in 0..MaxRounds
        BY DEF SendInit
      <3>3. QED
        BY <2>1, <3>1, <3>2 DEF SendInit, SendTypeOK
    <2>3. AnswerInv /\ RequestsInv /\ ChainInv /\ ConfInv /\ OkMeansLanded
      BY DEF SendInit, AnswerInv, RequestsInv, Open, ChainInv, ConfInv, OkMeansLanded
    <2>4. TurnInv
      <3>1. \A u \in Batch : ~(u < turn) /\ chain[u] = "unsent"
        BY <2>1 DEF SendInit, Batch
      <3>2. QED
        BY <2>1, <3>1 DEF SendInit, TurnInv
    <2>5. QED
      BY <2>1, <2>2, <2>3, <2>4 DEF SendInv
  <1>2. ASSUME SendInv, [SendNext]_sendVars
        PROVE  SendInv'
    BY <1>2, TypeStep, AnswerStep, RequestsStep, ChainStep, ConfStep, TurnStep,
       LandedStep
    DEF SendInv
  <1>3. QED
    BY <1>1, <1>2, PTL DEF SendSpec

(***************************************************************************)
(* Every variable of a call keeps its type, and the plan of the call is one*)
(* the code can make.                                                      *)
(***************************************************************************)
THEOREM SendTypeCorrect ==
    SendSpec => [](SendTypeOK /\ PlanOK)
  <1>1. SendInv => SendTypeOK /\ PlanOK
    BY DEF SendInv
  <1>2. QED
    BY <1>1, Invariance, PTL

(***************************************************************************)
(* A caller that is told "ok" has every transaction of its batch at the    *)
(* commitment asked for, over all stages of the wait and their fallbacks;  *)
(* only a buy confirmed by its token account may have been executed and    *)
(* rolled back, or have found tokens there that came from elsewhere.       *)
(***************************************************************************)
THEOREM OkIsTrue ==
    SendSpec => []OkMeansLanded
  <1>1. SendInv => OkMeansLanded
    BY DEF SendInv
  <1>2. QED
    BY <1>1, Invariance, PTL

(***************************************************************************)
(* No transaction of an ordered batch reaches the cluster before an        *)
(* endpoint accepted each one before it, and none of a gated batch before  *)
(* the one before it is final, however the waits end.                      *)
(***************************************************************************)
THEOREM PrefixOnly ==
    SendSpec => []GateHolds
  <1>1. ASSUME SendInv
        PROVE  GateHolds
    <2> USE DEF SendInv
    <2>1. ASSUME NEW t \in Batch, NEW u \in Batch, u < t, chain[t] # "unsent"
          PROVE  /\ plan.mode = "ordered" /\ plan.route \notin Bundle => Accepted(u)
                 /\ plan.mode = "gated" => chain[u] = "final"
      <3>1. ~(turn < t) => u < turn
        BY <1>1, <2>1, PlanFields DEF Batch, TurnInv
      <3>2. QED
        BY <1>1, <2>1, <3>1 DEF TurnInv, OneByOne
    <2>2. QED
      BY <2>1 DEF GateHolds, Accepted
  <1>2. QED
    BY <1>1, Invariance, PTL

-----------------------------------------------------------------------------
(* TxSend implements SendContract *)

(***************************************************************************)
(* Every step of a call is a step of the contract, or changes nothing the  *)
(* contract speaks of.                                                     *)
(***************************************************************************)
LEMMA ContractStep ==
    ASSUME SendInv, SendInv', [SendNext]_sendVars
    PROVE  [Contract!ContractNext]_(Contract!contractVars)
  <1> USE DEF SendInv
  <1>0. plan' = plan /\ Batch' = Batch /\ Batch \subseteq Tx /\ turn \in Batch
    BY TypeStep, PlanFields DEF TurnInv, Batch
  <1>1. CASE UNCHANGED <<chain, seen, paid, answer>>
    BY <1>0, <1>1 DEF Contract!contractVars, Given, Failed
  <1>2. ASSUME NEW p \in Tx, NEW e \in Endpoint, EndpointAnswers(p, e)
        PROVE  Contract!ContractNext \/ UNCHANGED <<chain, seen, paid, answer>>
    <2>1. /\ Carried(p) \subseteq Batch /\ UNCHANGED <<seen, paid, answer>>
          /\ Take(Carried(p)) \/ UNCHANGED chain
          /\ answer = "none"
      BY <1>2, AnswerEffect DEF AnswerInv
    <2>2. CASE Take(Carried(p))
      <3>1. Given' = Given \union Carried(p) /\ Failed' = Failed
        BY <1>0, <2>1, <2>2 DEF Given, Failed, Take
      <3>2. Contract!Give
        BY <1>0, <2>1, <3>1 DEF Contract!Give
      <3>3. QED
        BY <3>2 DEF Contract!ContractNext
    <2>3. QED
      BY <2>1, <2>2
  <1>3. ASSUME NEW t \in Tx, ClusterStep(t)
        PROVE  [Contract!ContractNext]_(Contract!contractVars)
    <2>1. /\ \A u \in Together(t) : chain[u] \in {"pending", "processed"}
          /\ Together(t) \subseteq Batch /\ UNCHANGED <<paid, answer>>
      BY <1>0, <1>3 DEF ClusterStep, Move, Together, ChainInv
    <2>2. Together(t) \subseteq Given
      BY <2>1 DEF Given
    <2>3. Given' = Given
      BY <1>0, <1>3, <2>1, ClusterEffect DEF Given
    <2>4. CASE /\ Move(Together(t), "pending", "processed")
               /\ seen' = seen \union Together(t)
      <3>1. Failed' = Failed
        BY <1>0, <2>4 DEF Failed, Move
      <3>2. Contract!Execute
        BY <1>0, <2>1, <2>2, <2>3, <2>4, <3>1 DEF Contract!Execute
      <3>3. QED
        BY <3>2 DEF Contract!ContractNext
    <2>5. ASSUME NEW from, NEW to \in {"final", "pending", "dropped"},
                 from \in {"pending", "processed"},
                 Move(Together(t), from, to), UNCHANGED seen
          PROVE  UNCHANGED Contract!contractVars
      <3>1. Failed' = Failed
        BY <1>0, <2>5 DEF Failed, Move
      <3>2. QED
        BY <1>0, <2>1, <2>3, <2>5, <3>1 DEF Contract!contractVars
    <2>6. CASE Move(Together(t), "pending", "reverted") /\ UNCHANGED seen
      <3>1. Failed' = Failed \union Together(t)
        BY <1>0, <2>1, <2>6 DEF Failed, Move
      <3>2. Contract!Revert
        BY <1>0, <2>1, <2>2, <2>3, <2>6, <3>1 DEF Contract!Revert
      <3>3. QED
        BY <3>2 DEF Contract!ContractNext
    <2>7. QED
      BY <1>3, <2>4, <2>5, <2>6 DEF ClusterStep
  <1>4. ASSUME Concludes \/ (Confirms /\ answer' # answer)
        PROVE  Contract!ContractNext
    <2>1. UNCHANGED <<chain, seen, paid>> /\ answer = "none"
      BY <1>4 DEF Concludes, Confirms, cluster, AnswerInv, Stage
    <2>2. answer' \in {"ok", "failed", "terminal"}
      BY <1>4, ConfirmEffect DEF Concludes, Conclude
    <2>3. answer' = "terminal" => Failed # {}
      BY <1>4, ConfirmEffect DEF Concludes, Conclude, Failed
    <2>4. answer' = "ok" => Batch \subseteq seen \union paid
      BY <1>0, <2>1 DEF OkMeansLanded, ChainInv, HasBalance
    <2>5. Contract!Conclude
      BY <1>0, <2>1, <2>2, <2>3, <2>4
      DEF Contract!Conclude, Contract!Answer, Given, Failed
    <2>6. QED
      BY <2>5 DEF Contract!ContractNext
  <1>5. CASE Confirms /\ answer' = answer
    BY <1>1, <1>5 DEF Confirms, cluster
  <1>6. ASSUME \/ Post \/ NextTurn \/ Enters \/ Idles
               \/ \E e \in Endpoint : PostBundle(e)
        PROVE  UNCHANGED <<chain, seen, paid, answer>>
    BY <1>6 DEF Post, PostBundle, NextTurn, Enters, Idles, cluster
  <1>7. ASSUME NEW t \in Tx, PayIn(t)
        PROVE  Contract!ContractNext
    <2>1. Given' = Given /\ Failed' = Failed
      BY <1>0, <1>7, PayInEffect DEF Given, Failed
    <2>2. {t} \in SUBSET plan.capture /\ paid' = paid \union {t}
      BY <1>7 DEF PayIn
    <2>3. Contract!PayIn
      BY <1>0, <1>7, <2>1, <2>2, PayInEffect DEF Contract!PayIn
    <2>4. QED
      BY <2>3 DEF Contract!ContractNext
  <1>8. QED
    BY <1>0, <1>1, <1>2, <1>3, <1>4, <1>5, <1>6, <1>7, StepShape

(***************************************************************************)
(* A call of any provider, ordered, independent or gated, bundled or not,  *)
(* keeps the contract its callers rely on: nothing is handed to the network*)
(* after the answer, "ok" means that every transaction was executed or, for*)
(* a watched one, that others put tokens into its account, and an error    *)
(* that names a failure on chain names a real one.                         *)
(***************************************************************************)
THEOREM ImplementsContract ==
    SendSpec => KeepsContract
  <1>1. ASSUME SendInit
        PROVE  Contract!ContractInit
    <2>1. Batch \subseteq Tx /\ plan.capture \subseteq Batch
      BY <1>1, PlanFields DEF SendInit
    <2>2. QED
      BY <1>1, <2>1 DEF SendInit, Contract!ContractInit, Given, Failed
  <1>2. SendInv /\ SendInv' /\ [SendNext]_sendVars
           => [Contract!ContractNext]_(Contract!contractVars)
    BY ContractStep
  <1>3. QED
    BY <1>1, <1>2, Invariance, PTL DEF SendSpec, KeepsContract, Contract!ContractSpec

=============================================================================
