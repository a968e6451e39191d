------------------------------- MODULE TxSend -------------------------------
(***************************************************************************)
(* Sending a batch of transactions: the submission to the endpoints of a   *)
(* provider and the wait for the confirmation, src/rust/launchdeck-engine/ *)
(* src/rpc.rs (submit_..._for_transport, confirm_..._for_transport) and    *)
(* send_transactions_sequential_for_transport of src/main.rs, against a    *)
(* cluster that executes, rolls back, reverts or drops what it was given,  *)
(* endpoints that take a transaction and answer with an error, and sockets *)
(* that break, are silent or tell only a part.                             *)
(*                                                                         *)
(* plan is one call: its provider (route), whether the transactions go one *)
(* after the other (ordered), all at once (independent) or each after the  *)
(* confirmation of the one before (gated), and how it is confirmed (path). *)
(* The sampled slots, timings and warnings of the results are left out.    *)
(***************************************************************************)
EXTENDS Naturals

CONSTANTS
    Endpoint,   \* the endpoints of the provider
    Size,       \* the largest number of transactions of a batch
    BundleMost, \* most transactions of a bundle (5 for Jito, 4 for Hello Moon)
    MaxRounds   \* polls of the status before the wait is given up

ASSUME SendAssumption ==
    Size \in Nat \ {0} /\ BundleMost \in Nat /\ MaxRounds \in Nat

Tx == 1..Size

VARIABLES
    plan,   \* the call; never changes
    pc,     \* begin, post (requests are out), a stage of the wait, or done
    turn,   \* the transaction whose turn it is, when not independent
    req,    \* [Tx -> [Endpoint -> state of the request]]; a bundle uses req[1]
    chain,  \* what the cluster has made of a transaction
    seen,   \* history: transactions that were executed without an error
    paid,   \* history: watched accounts others have put tokens into
    link,   \* the websocket is subscribed; watching: to token accounts too
    watching,
    conf,   \* how a transaction was confirmed in the present stage
    rounds, \* polls made
    answer

cluster == <<chain, seen, paid>>
waiting == <<link, watching, conf, rounds>>
sendVars == <<plan, pc, turn, req, chain, seen, paid, link, watching, conf, rounds,
              answer>>

Bundle == {"jito", "hellomoonBundle"}
Route == {"fanout", "sender", "quic"} \union Bundle
Stage == {"helius", "websocket", "polling", "bundleStatus"}
ChainState == {"unsent", "pending", "processed", "final", "reverted", "dropped"}
ReqState == {"idle", "out", "again", "ok", "err", "noId"}
Conf == {"no", "account", "notified", "status"}

(* priced, tipped: transactions that carry the compute unit price and the  *)
(* tip the provider asks for; capture: those whose token balance is wanted,*)
(* which only the follow daemon asks for, and it sends one at a time;      *)
(* budget: the caller gives the wait a limit of its own.                   *)
Plan ==
    [route: Route, mode: {"ordered", "independent", "gated"}, size: Tx,
     ends: SUBSET Endpoint, path: Stage \ {"bundleStatus"},
     priced: SUBSET Tx, tipped: SUBSET Tx, capture: SUBSET Tx,
     budget: BOOLEAN]

Batch == 1..plan.size

SendTypeOK ==
    /\ plan \in Plan
    /\ pc \in {"begin", "post", "done"} \union Stage
    /\ turn \in Tx
    /\ req \in [Tx -> [Endpoint -> ReqState]]
    /\ chain \in [Tx -> ChainState]
    /\ seen \subseteq Tx /\ paid \subseteq Tx
    /\ link \in BOOLEAN /\ watching \in BOOLEAN
    /\ conf \in [Tx -> Conf]
    /\ rounds \in 0..MaxRounds
    /\ answer \in {"none", "ok", "failed", "terminal"}

PlanOK ==
    /\ plan \in Plan
    /\ plan.capture \union plan.priced \union plan.tipped \subseteq Batch
    /\ plan.capture # {} => plan.size = 1
    /\ plan.budget => plan.mode # "independent"
    /\ plan.route \in {"fanout", "jito"} => plan.priced = Batch /\ plan.tipped = Batch
    /\ plan.route \in Bundle => plan.mode # "independent"
    /\ plan.route = "fanout" => plan.ends # {}

SendInit ==
    /\ PlanOK
    /\ pc = "begin" /\ turn = 1
    /\ req = [t \in Tx |-> [e \in Endpoint |-> "idle"]]
    /\ chain = [t \in Tx |-> "unsent"] /\ seen = {} /\ paid = {}
    /\ link = FALSE /\ watching = FALSE
    /\ conf = [t \in Tx |-> "no"] /\ rounds = 0
    /\ answer = "none"

-----------------------------------------------------------------------------
(* Helpers *)

\* Each transaction waits for an endpoint to accept the one before it.
OneByOne == plan.mode = "ordered" /\ plan.route \notin Bundle

\* The transactions submitted, and confirmed, together.
Now == IF plan.mode = "gated" \/ (pc \in {"begin", "post"} /\ OneByOne)
       THEN {turn} ELSE Batch

\* One request carries one transaction, or the whole bundle.
Parcels == IF plan.route \in Bundle THEN {turn} ELSE Now
Carried(p) == IF plan.route \in Bundle THEN Now ELSE {p}

\* validate_helius_sender_transaction, validate_hellomoon_transaction
Fit(t) == plan.route \in {"sender", "quic"} => t \in plan.priced /\ t \in plan.tipped

\* The batch is refused before anything is sent: no endpoint, too many
\* transactions for a bundle, or a bundle without price or tip.
Refused ==
    \/ plan.ends = {}
    \/ plan.route \in Bundle /\ plan.mode # "gated" /\ plan.size > BundleMost
    \/ plan.route = "hellomoonBundle" /\ ~(Now \subseteq plan.priced)
    \/ plan.route = "hellomoonBundle" /\ plan.tipped \intersect Now = {}

\* At least one endpoint answered with a success.
Accepted(p) == \E e \in plan.ends : req[p][e] = "ok"

Settled(p) == \A e \in plan.ends : req[p][e] \in {"ok", "err"}

\* The cluster has been given these.
Take(S) == chain' = [t \in Tx |-> IF t \in S /\ chain[t] = "unsent" THEN "pending"
                                                                 ELSE chain[t]]

Conclude(verdict) == pc' = "done" /\ answer' = verdict

\* Every stage of the wait starts over with all transactions pending.
Enter(stage) ==
    /\ pc' = stage
    /\ link' = FALSE /\ watching' = FALSE
    /\ conf' = [t \in Tx |-> "no"] /\ rounds' = 0

FirstStage == IF plan.route = "jito" THEN "bundleStatus" ELSE plan.path

Pending == {t \in Now : conf[t] = "no"}

\* Transactions whose token account is watched: no two may share one.
Watchable == IF pc = "websocket" THEN plan.capture ELSE {}

\* The watched account has a balance, or had one that was rolled back: of the
\* transaction that is waited for, or of anything else the wallet received.
HasBalance(t) == t \in seen \union paid

-----------------------------------------------------------------------------
(* Submission *)

\* The requests of the transactions at hand go out to all endpoints. A
\* transaction that fails its validation is not sent; the others are.
Post ==
    /\ pc = "begin"
    /\ plan.route # "jito"
    /\ ~Refused
    /\ pc' = "post"
    /\ req' = [p \in Tx |-> IF p \in Parcels /\ Fit(p)
                THEN [e \in Endpoint |-> IF e \in plan.ends THEN "out" ELSE "idle"]
                ELSE req[p]]
    /\ UNCHANGED <<plan, turn, cluster, waiting, answer>>

Refuse ==
    /\ pc = "begin"
    /\ Refused
    /\ Conclude("failed")
    /\ UNCHANGED <<plan, turn, req, cluster, waiting>>

\* sendBundle goes to one endpoint after the other.
PostBundle(e) ==
    /\ pc \in {"begin", "post"}
    /\ plan.route = "jito"
    /\ ~Refused
    /\ e \in plan.ends
    /\ req[turn][e] = "idle"
    /\ \A f \in Endpoint : req[turn][f] \notin {"out", "noId"}
    /\ pc' = "post"
    /\ req' = [req EXCEPT ![turn][e] = "out"]
    /\ UNCHANGED <<plan, turn, cluster, waiting, answer>>

\* An endpoint that answers with an error, or whose answer is lost or cannot
\* be read, may have taken what it was sent.
AnswersError(p, e, state) ==
    /\ req' = [req EXCEPT ![p][e] = state]
    /\ Take(Carried(p)) \/ UNCHANGED chain

\* A QUIC send that fails is made once more on a new connection.
SentAgain(p, e) == plan.route = "quic" /\ req[p][e] = "out"

\* jito_request hands on whatever result a successful answer has.
AnswersWithoutId(p, e) ==
    /\ plan.route = "jito"
    /\ req' = [req EXCEPT ![p][e] = "noId"]
    /\ Take(Carried(p))

EndpointAnswers(p, e) ==
    /\ pc = "post"
    /\ req[p][e] \in {"out", "again"}
    /\ \/ req' = [req EXCEPT ![p][e] = "ok"] /\ Take(Carried(p))
       \/ AnswersError(p, e, IF SentAgain(p, e) THEN "again" ELSE "err")
       \/ AnswersWithoutId(p, e)
    /\ UNCHANGED <<plan, pc, turn, seen, paid, waiting, answer>>

\* sendBundle was accepted but the answer holds no bundle id: an error at
\* once, whatever the endpoints before it said.
BundleWithoutId(e) ==
    /\ pc = "post"
    /\ req[turn][e] = "noId"
    /\ Conclude("failed")
    /\ UNCHANGED <<plan, turn, req, cluster, waiting>>

AllAnswered == \A p \in Parcels : ~Fit(p) \/ Settled(p)
AllAccepted == \A p \in Parcels : Fit(p) /\ Accepted(p)

\* All requests have been answered: to the next transaction, to the wait, or
\* back with an error.
Gather ==
    /\ pc = "post"
    /\ AllAnswered
    /\ \/ /\ ~AllAccepted
          /\ Conclude("failed")
          /\ UNCHANGED <<turn, waiting>>
       \/ /\ AllAccepted
          /\ OneByOne /\ turn < plan.size
          /\ turn' = turn + 1 /\ pc' = "begin"
          /\ UNCHANGED <<waiting, answer>>
       \/ /\ AllAccepted
          /\ ~(OneByOne /\ turn < plan.size)
          /\ Enter(FirstStage)
          /\ UNCHANGED <<turn, answer>>
    /\ UNCHANGED <<plan, req, cluster>>

-----------------------------------------------------------------------------
(* The wait *)

\* The transactions of the wait are confirmed.
Done ==
    IF plan.mode = "gated" /\ turn < plan.size
    THEN /\ turn' = turn + 1 /\ pc' = "begin"
         /\ UNCHANGED answer
    ELSE /\ Conclude("ok")
         /\ UNCHANGED turn

\* Mutant of Confirm: the wait is over with the first look.
ConfirmAny(S, how) ==
    /\ conf' = [t \in Tx |-> IF t \in S THEN how ELSE conf[t]]
    /\ Done

\* Mutant of Confirm: the first confirmation of the batch is enough.
ConfirmFirst(S, how) ==
    /\ conf' = [t \in Tx |-> IF t \in S THEN how ELSE conf[t]]
    /\ IF S # {} THEN Done ELSE UNCHANGED <<pc, turn, answer>>

\* S is confirmed; with the last one the wait is over.
Confirm(S, how) ==
    /\ conf' = [t \in Tx |-> IF t \in S THEN how ELSE conf[t]]
    /\ IF Pending \subseteq S THEN Done ELSE UNCHANGED <<pc, turn, answer>>

\* A stage ends with an error that is not about the transactions.
Fallback ==
    \/ /\ pc = "helius"
       /\ Enter("websocket")
    \/ /\ pc = "websocket"
       /\ Enter("polling")

Subscribe ==
    /\ pc \in {"helius", "websocket"}
    /\ ~link
    /\ link' = TRUE
    /\ watching' \in {FALSE, Watchable # {}}
    /\ UNCHANGED <<plan, pc, turn, req, cluster, conf, rounds, answer>>

\* The socket does not open, a subscription is refused, the socket breaks, a
\* status request on the way fails, or, on the standard websocket, 60 s pass.
StageFails ==
    /\ Fallback
    /\ UNCHANGED <<plan, turn, req, cluster, answer>>

\* An error that is_terminal_confirmation_error recognises ends the wait.
TellsError ==
    /\ \E t \in Pending : chain[t] = "reverted"
    /\ Conclude("terminal")
    /\ UNCHANGED <<plan, turn, req, cluster, waiting>>

\* A notification of transactionSubscribe. On the standard websocket
\* extract_account_notification takes whatever has a subscription, those of
\* signatureSubscribe and their errors too, and the loop goes on: nothing but
\* an account, an error of the socket or the 60 s ends that stage.
Notified(t) ==
    /\ pc = "helius" /\ link
    /\ t \in Pending
    /\ chain[t] = "final"
    /\ Confirm({t}, "notified")
    /\ UNCHANGED <<plan, req, cluster, link, watching, rounds>>

NotifiedError ==
    /\ pc = "helius" /\ link
    /\ TellsError

\* The token account of a buy has a balance, whoever it is from: the buy is
\* confirmed as processed.
AccountNotified(t) ==
    /\ pc = "websocket" /\ link /\ watching
    /\ t \in Pending \intersect Watchable
    /\ HasBalance(t)
    /\ Confirm({t}, "account")
    /\ UNCHANGED <<plan, req, cluster, link, watching, rounds>>

\* reconcile_signature_statuses_once, after 550 ms of silence: not for a
\* transaction whose balances are wanted.
Reconcile ==
    /\ pc = "helius" /\ link
    /\ \/ TellsError
       \/ /\ \A t \in Pending : chain[t] # "reverted"
          /\ Confirm({t \in Pending \ plan.capture : chain[t] = "final"}, "status")
          /\ UNCHANGED <<plan, req, cluster, link, watching, rounds>>

\* Mutant of Poll: a transaction the cluster does not know has failed.
PollImpatient ==
    /\ pc = "polling"
    /\ rounds < MaxRounds
    /\ rounds' = rounds + 1
    /\ \/ /\ \E t \in Pending : chain[t] \in {"reverted", "dropped"}
          /\ Conclude("terminal")
          /\ UNCHANGED <<turn, conf>>
       \/ /\ \A t \in Pending : chain[t] # "reverted"
          /\ Confirm({t \in Pending : chain[t] = "final"}, "status")
    /\ UNCHANGED <<plan, req, cluster, link, watching>>

\* wait_for_confirmations_polling_batch
Poll ==
    /\ pc = "polling"
    /\ rounds < MaxRounds
    /\ rounds' = rounds + 1
    /\ \/ /\ \E t \in Pending : chain[t] = "reverted"
          /\ Conclude("terminal")
          /\ UNCHANGED <<turn, conf>>
       \/ /\ \A t \in Pending : chain[t] # "reverted"
          /\ Confirm({t \in Pending : chain[t] = "final"}, "status")
    /\ UNCHANGED <<plan, req, cluster, link, watching>>

\* confirm_transactions_bundle: the status of each accepted bundle, in 20
\* rounds. An error of the bundle does not end the wait.
PollBundle ==
    /\ pc = "bundleStatus"
    /\ rounds < MaxRounds
    /\ rounds' = rounds + 1
    /\ \/ /\ \A t \in Now : chain[t] = "final"
          /\ Confirm(Now, "status")
       \/ UNCHANGED <<pc, turn, conf, answer>>
    /\ UNCHANGED <<plan, req, cluster, link, watching>>

\* Mutant of PollFails: only the wait for a bundle is given up.
PollFailsBundle ==
    /\ pc = "bundleStatus" /\ rounds = MaxRounds
    /\ Conclude("failed")
    /\ UNCHANGED <<plan, turn, req, cluster, waiting>>

\* The rounds are used up, or the request for the statuses fails.
PollFails ==
    /\ pc = "polling" \/ (pc = "bundleStatus" /\ rounds = MaxRounds)
    /\ Conclude("failed")
    /\ UNCHANGED <<plan, turn, req, cluster, waiting>>

\* The limit the caller set: the wait is dropped.
BudgetSpent ==
    /\ pc \in Stage
    /\ plan.budget
    /\ Conclude("failed")
    /\ UNCHANGED <<plan, turn, req, cluster, waiting>>

-----------------------------------------------------------------------------
(* The cluster. A bundle is executed as a whole. *)

Together(t) == IF plan.route \in Bundle /\ plan.mode # "gated" THEN Batch ELSE {t}

Move(S, from, to) ==
    /\ \A t \in S : chain[t] = from
    /\ chain' = [t \in Tx |-> IF t \in S THEN to ELSE chain[t]]

ClusterStep(t) ==
    /\ \/ /\ Move(Together(t), "pending", "processed")
          /\ seen' = seen \union Together(t)
       \/ /\ \/ Move(Together(t), "processed", "final")
             \/ Move(Together(t), "processed", "pending")
             \/ Move(Together(t), "pending", "reverted")
             \/ Move(Together(t), "pending", "dropped")
          /\ UNCHANGED seen
    /\ UNCHANGED <<plan, pc, turn, req, paid, waiting, answer>>

\* Tokens of another transaction arrive at an account that is watched.
PayIn(t) ==
    /\ t \in plan.capture
    /\ paid' = paid \union {t}
    /\ UNCHANGED <<plan, pc, turn, req, chain, seen, waiting, answer>>

-----------------------------------------------------------------------------

SubmitStep ==
    \/ Post \/ Refuse \/ Gather
    \/ \E e \in Endpoint : PostBundle(e) \/ BundleWithoutId(e)
    \/ \E p \in Tx, e \in Endpoint : EndpointAnswers(p, e)

WaitStep ==
    \/ Subscribe \/ StageFails \/ NotifiedError \/ Reconcile
    \/ \E t \in Tx : Notified(t) \/ AccountNotified(t)
    \/ Poll \/ PollBundle \/ PollFails \/ BudgetSpent

\* The caller has its answer.
Answered == pc = "done" /\ UNCHANGED sendVars

SendNext == SubmitStep \/ WaitStep \/ (\E t \in Tx : ClusterStep(t) \/ PayIn(t)) \/ Answered

SendSpec == SendInit /\ [][SendNext]_sendVars
\* Requests are answered or their connections break, statuses can be asked for
\* and the clock runs: the 60 s of the websocket, the polls, the caller's limit.
SendFairness ==
    /\ WF_sendVars(SubmitStep)
    /\ WF_sendVars(pc = "websocket" /\ StageFails)
    /\ WF_sendVars(Poll \/ PollBundle \/ PollFails)
    /\ WF_sendVars(BudgetSpent)
    /\ WF_sendVars(Reconcile)

FairSendSpec == SendSpec /\ SendFairness

-----------------------------------------------------------------------------
(* Properties *)

(***************************************************************************)
(* "ok" is answered only when every transaction of the batch has reached   *)
(* the commitment asked for, whatever stage of the wait, whatever mixture  *)
(* of notifications, statuses and fallbacks brought the answer about. The  *)
(* one exception is a buy confirmed by its token account on the standard   *)
(* websocket: it was executed at least once, or its account got tokens     *)
(* from elsewhere, which is all that is known then: it need not land.      *)
(***************************************************************************)
OkMeansLanded ==
    answer = "ok" => \A t \in Batch :
        \/ chain[t] = "final"
        \/ conf[t] = "account" /\ t \in plan.capture /\ HasBalance(t)

(***************************************************************************)
(* In an ordered batch no transaction reaches the cluster before some      *)
(* endpoint has accepted each one before it: a failure leaves a prefix.    *)
(* When each transaction is gated by the one before (the setup of a Bags   *)
(* launch), none reaches the cluster before the one before it is final,    *)
(* also when a wait falls back, breaks off or runs into the caller's limit.*)
(***************************************************************************)
GateHolds ==
    \A t, u \in Batch : u < t /\ chain[t] # "unsent" =>
        /\ plan.mode = "ordered" /\ plan.route \notin Bundle =>
              \E e \in plan.ends : req[u][e] = "ok"
        /\ plan.mode = "gated" => chain[u] = "final"

(***************************************************************************)
(* Every call is answered, if it does not wait on transactionSubscribe     *)
(* without a limit of its own: that wait has no end when the transaction is*)
(* dropped by the cluster, or when its notification came before the        *)
(* subscription and its balances are wanted, which no status tells.        *)
(***************************************************************************)
SendEnds == (plan.path = "helius" /\ ~plan.budget) \/ <>(answer # "none")

Given == {t \in Batch : chain[t] # "unsent"}
Failed == {t \in Batch : chain[t] = "reverted"}

Contract == INSTANCE SendContract WITH
    batch <- Batch, watched <- plan.capture, given <- Given, executed <- seen,
    paid <- paid, reverted <- Failed

\* Whatever the provider, a call keeps what its callers rely on.
KeepsContract == Contract!ContractSpec

=============================================================================
