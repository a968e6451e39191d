---------------------------- MODULE SendContract ----------------------------
(***************************************************************************)
(* What the callers of the transports rely on when they send a batch of    *)
(* transactions: submit_transactions_for_transport followed by             *)
(* confirm_submitted_transactions_for_transport in                         *)
(* src/rust/launchdeck-engine/src/rpc.rs, whatever the provider. TxSend is *)
(* shown to implement it. The runner of a follow job (FollowRunner), the   *)
(* deferred setup and the launch itself only use these facts:              *)
(*   - nothing is handed to the network once the caller has its answer;    *)
(*   - "ok" is answered only after every transaction was executed, but for *)
(*     one whose token account was asked for: tokens that others put there *)
(*     pass for its execution;                                             *)
(*   - an error that names a failure on chain names a real one.            *)
(***************************************************************************)
CONSTANT Tx

VARIABLES
    batch,    \* the transactions of the call
    watched,  \* those whose token account is asked for
    given,    \* those that some endpoint took
    executed, \* those the cluster has executed without an error
    paid,     \* the watched ones whose account others put tokens into
    reverted, \* those the cluster has executed with an error
    answer    \* what the caller was told

contractVars == <<batch, watched, given, executed, paid, reverted, answer>>

Answer == {"none", "ok", "failed", "terminal"}

ContractInit ==
    /\ batch \in SUBSET Tx /\ watched \in SUBSET batch
    /\ given = {} /\ executed = {} /\ paid = {} /\ reverted = {}
    /\ answer = "none"

\* An endpoint takes transactions of the batch.
Give ==
    /\ answer = "none"
    /\ \E S \in SUBSET batch : given' = given \union S
    /\ UNCHANGED <<batch, watched, executed, paid, reverted, answer>>

\* The cluster executes what it was given, at any time, also after the answer.
Execute ==
    /\ \E S \in SUBSET given : executed' = executed \union S
    /\ UNCHANGED <<batch, watched, given, paid, reverted, answer>>

\* Others put tokens into watched accounts.
PayIn ==
    /\ \E S \in SUBSET watched : paid' = paid \union S
    /\ UNCHANGED <<batch, watched, given, executed, reverted, answer>>

Revert ==
    /\ \E S \in SUBSET given : reverted' = reverted \union S
    /\ UNCHANGED <<batch, watched, given, executed, paid, answer>>

Conclude ==
    /\ answer = "none"
    /\ answer' \in Answer \ {"none"}
    /\ answer' = "ok" => batch \subseteq executed \union paid
    /\ answer' = "terminal" => reverted # {}
    /\ UNCHANGED <<batch, watched, given, executed, paid, reverted>>

ContractNext == Give \/ Execute \/ PayIn \/ Revert \/ Conclude

ContractSpec == ContractInit /\ [][ContractNext]_contractVars

=============================================================================
