---------------------------- MODULE FollowRunner ----------------------------
(***************************************************************************)
(* One armed follow job in the follow daemon (bin/launchdeck-follow-       *)
(* daemon.rs): run_job, the task of every action, the task that runs a     *)
(* batch of actions with one trigger, the deferred setup task, and the     *)
(* operator and the chain around them.                                     *)
(*                                                                         *)
(* A step runs from one await to the next. Two awaits are taken as one     *)
(* step only where nothing another process does between them can be told   *)
(* apart from the same thing done before or after both. A remote call and  *)
(* the unconditional store write recording its result are one step.        *)
(*                                                                         *)
(* A definition under "Mutant:" is part of no behaviour. It is the next    *)
(* definition with a plausible mistake in it, which the properties must    *)
(* tell from the original.                                                 *)
(***************************************************************************)
EXTENDS Integers, FiniteSets, FollowJobs

CONSTANTS
    Actions,        \* the actions of the job
    Wallets,
    None,           \* no action: the value of a free wallet lock
    Kind,           \* Kind[a]: what the action does
    WalletOf,       \* WalletOf[a]: the wallet that signs it
    Trigger,        \* Trigger[a]: what it waits for
    Delayed,        \* actions for the launch's block that have a delay as well
    TriggerKey,     \* actions with equal keys run as one batch
    OrderIndex,     \* OrderIndex[a]: the snipe row it was made for
    Lead,           \* Lead[k]: first action of the batch k in sort order
    PreSigned,      \* actions reserved with a transaction signed in advance
    SkipIfHeld,     \* buys skipped when the wallet holds the token already
    HasSetup,       \* the job carries a deferred setup transaction
    Pump,           \* the launchpad is pump
    VaultRetry,     \* kinds whose creator-vault auto retry is on
    RetryBudget,    \* followLaunch.constraints.retryBudget
    SendSlots,      \* LAUNCHDECK_FOLLOW_MAX_CONCURRENT_SENDS
    Operator,       \* what the user of the model does
    Faults,         \* what may go wrong in the model
    MaxFaults       \* bound on how often it does

TriggerKind == {"submit", "delay", "block0", "blockN", "confirm", "market"}
OperatorAct == {"cancelJob", "cancelAction"}
FaultKind   == {"launch", "slot", "market", "precheck", "compile", "submit",
                "unacknowledged", "onchain", "unconfirmed", "refresh", "expiry",
                "account", "slotless"}

\* matching_sniper_buy_action: the buy whose tokens a sniper sell sells.
IsMatchingBuy(b, a) ==
    /\ Kind[a] = "SniperSell"
    /\ Kind[b] = "SniperBuy"
    /\ OrderIndex[b] = OrderIndex[a]
    /\ WalletOf[b] = WalletOf[a]

Members(k) == {a \in Actions : TriggerKey[a] = k}
Keys       == {TriggerKey[a] : a \in Actions}
\* A group of one action is run by run_action_task, a larger one as a batch.
InBatch(a) == \E b \in Actions \ {a} : TriggerKey[b] = TriggerKey[a]
IsLead(a)  == Lead[TriggerKey[a]] = a

ASSUME ParameterTypes ==
    /\ None \notin Actions
    /\ Kind \in [Actions -> ActionKind]
    /\ WalletOf \in [Actions -> Wallets]
    /\ Trigger \in [Actions -> TriggerKind]
    \* submitDelayMs or delayMs beside targetBlockOffset 0; a sniper's sell may
    \* have neither.
    /\ Delayed \subseteq {a \in Actions : Trigger[a] = "block0" /\ Kind[a] # "SniperSell"}
    /\ Lead \in [Keys -> Actions]
    /\ \A k \in Keys : Lead[k] \in Members(k)
    \* build_presigned_follow_actions: a sell of a sniper, or what waits for a
    \* later block or a market cap, is never signed in advance.
    /\ PreSigned \subseteq {a \in Actions : /\ Kind[a] # "SniperSell"
                                           /\ Trigger[a] \notin {"blockN", "market"}}
    /\ SkipIfHeld \subseteq {a \in Actions : Kind[a] = "SniperBuy"}
    /\ HasSetup \in BOOLEAN
    /\ Pump \in BOOLEAN
    \* LAUNCHDECK_ENABLE_PUMP_{BUY,SELL}_CREATOR_VAULT_AUTO_RETRY.
    /\ VaultRetry \subseteq ActionKind
    /\ "DevAutoSell" \in VaultRetry <=> "SniperSell" \in VaultRetry
    /\ RetryBudget \in Nat
    /\ SendSlots \in Nat \ {0}
    /\ Operator \subseteq OperatorAct
    /\ Faults \subseteq FaultKind
    /\ MaxFaults \in Nat

\* trigger_key_for_action: the key spells out the trigger, and a sniper
\* sell's key holds its own id, so a sell is never part of a batch.
ASSUME KeysFollowTriggers ==
    \A a, b \in Actions : TriggerKey[a] = TriggerKey[b] =>
        /\ Trigger[a] = Trigger[b]
        /\ Kind[a] = "SniperSell" => a = b

\* build_action_records: a sell is only made for an enabled buy of its row.
ASSUME SellsHaveBuys ==
    \A a \in Actions : Kind[a] = "SniperSell" =>
        \E b \in Actions : /\ IsMatchingBuy(b, a)
                           /\ \A c \in Actions : IsMatchingBuy(c, a) => c = b

MatchingBuy(a) == CHOOSE b \in Actions : IsMatchingBuy(b, a)
IsSell(a)      == Kind[a] \in {"DevAutoSell", "SniperSell"}

\* action_runs_before_deferred_setup, negated.
AfterSetup(a) == Trigger[a] \in {"delay", "blockN", "confirm", "market"}
\* A sniper sell is anchored at its buy, the others at the launch.
AwaitsLaunch(a) ==
    Kind[a] # "SniperSell" /\ Trigger[a] \in {"block0", "blockN", "confirm"}

VARIABLES
    job,        \* state, cancelRequested, confirmedObservedSlot known or not
    act,        \* the action records of the job
    setup,      \* the deferred setup record and the task that runs it
    runner,     \* where run_job is
    batch,      \* batch[k]: is the batch task still waiting for its trigger
    pc,         \* pc[a]: where the task of a is
    err,        \* err[a]: class of the error the task is handling
    walletLock, \* walletLock[w]: the action that holds the lock
    permits,    \* who holds a send permit
    watch,      \* what the watchers of the job have published
    due,        \* the actions whose time is less than 1.5 s away, or that have none
    chain,      \* chain[a]: the transactions made for a
    faults      \* how many faults have happened

vars == <<job, act, setup, runner, batch, pc, err, walletLock, permits,
          watch, due, chain, faults>>

\* The task that is not an action's, as a holder of a send permit.
SetupTask == "setup"

ASSUME SetupIsNoAction == SetupTask \notin Actions

(***************************************************************************)
(* The places a task stops at. Waiting is inside wait_for_action_          *)
(* eligibility; Locked is where the wallet's lock is held; the last three  *)
(* of Locked also hold a send permit.                                      *)
(***************************************************************************)
Waiting == {"anchor", "trigger", "setup"}
Sending == {"submit", "resubmit", "confirm"}
Locked  == {"compile", "send"} \union Sending
Verdict == {"rearm", "reset", "rebuild", "stop", "expire", "fail"}
Place   == {"none", "held", "loop"} \union Waiting \union {"mark", "precheck", "lock"}
             \union Locked \union {"judge"} \union Verdict \union {"done"}

ErrClass == {"none", "fatal", "retryable", "stopped", "expired", "vault", "slippage"}

SetupPlace == {"off", "read", "launch", "mark", "permit", "submit", "backoff", "confirm", "done"}

RunnerPlace == {"idle", "start", "spawn", "join", "final", "gone"}

WatchValue == {"live", "confirmed", "retryable", "fatal"}

Init ==
    /\ job = [state |-> "Reserved", cancelRequested |-> FALSE, slotKnown |-> FALSE]
    /\ act = [a \in Actions |-> [state |-> "Queued", attempts |-> 0,
                                 preSigned |-> a \in PreSigned, rebuilding |-> FALSE,
                                 slotKnown |-> FALSE]]
    /\ setup = [state |-> "Queued", pc |-> "off", tries |-> 0, blocked |-> FALSE,
                error |-> "none", gen |-> 0, open |-> {}, landed |-> {}]
    /\ runner = [pc |-> "idle", taskError |-> FALSE, final |-> "Completed"]
    /\ batch = [k \in Keys |-> FALSE]
    /\ pc = [a \in Actions |-> "none"]
    /\ err = [a \in Actions |-> "none"]
    /\ walletLock = [w \in Wallets |-> None]
    /\ permits = {}
    /\ watch = [launch |-> "live", slot |-> "live", market |-> "live"]
    /\ due = Actions \ Delayed
    /\ chain = [a \in Actions |-> [gen |-> 0, open |-> {}, landed |-> {}, asked |-> FALSE,
                                   held |-> FALSE]]
    /\ faults = 0

-----------------------------------------------------------------------------
(* Helpers                                                                 *)

Goto(a, place)  == pc' = [pc EXCEPT ![a] = place]
SetAct(a, s)    == act' = [act EXCEPT ![a].state = s]
Fault(f)        == f \in Faults /\ faults < MaxFaults /\ faults' = faults + 1

\* ensure_job_not_cancelled and ensure_action_not_cancelled, negated.
JobCancelled       == job.cancelRequested \/ job.state = "Cancelled"
ActionCancelled(a) == JobCancelled \/ act[a].state = "Cancelled"

\* Mutant: the wallet's lock survives.
ReleaseKeepsWallet(a) ==
    /\ walletLock' = walletLock
    /\ permits' = permits \ {a}

\* execute_action returns: its guards are dropped, which frees the wallet
\* and the send permit; execute_action_with_retry looks at the error next.
Release(a) ==
    /\ walletLock' = [w \in Wallets |-> IF walletLock[w] = a THEN None ELSE walletLock[w]]
    /\ permits' = permits \ {a}

FailWith(a, e) ==
    /\ Goto(a, "judge")
    /\ err' = [err EXCEPT ![a] = e]
    /\ Release(a)

\* Mutant: one sender too many.
PermitFreeOneMore == Cardinality(permits) <= SendSlots

PermitFree == Cardinality(permits) < SendSlots

-----------------------------------------------------------------------------
(* The operator and the main host                                          *)

\* arm_job and spawn_job_if_needed. A second arm, after the launch was
\* confirmed, carries the confirmed slot; a job that has ended is left as it is.
Arm ==
    /\ IF job.state \in TerminalJob THEN UNCHANGED <<job, act>>
       ELSE /\ \E slot \in BOOLEAN :
                 job' = [job EXCEPT !.state = ArmedJobState(@), !.slotKnown = @ \/ slot]
            /\ act' = [a \in Actions |-> [act[a] EXCEPT !.state = ArmedActionState(@)]]
    /\ runner' = [runner EXCEPT !.pc = IF @ = "idle" THEN "start" ELSE @]
    /\ UNCHANGED <<setup, batch, pc, err, walletLock, permits, watch, due, chain, faults>>

\* cancel_job without an action id.
CancelJob ==
    /\ "cancelJob" \in Operator
    /\ job' = [job EXCEPT !.state = "Cancelled", !.cancelRequested = TRUE]
    /\ act' = [a \in Actions |-> [act[a] EXCEPT !.state = CancelledActionState(@),
                                     !.rebuilding = @ /\ act[a].state \in KeptByCancel]]
    /\ UNCHANGED <<setup, runner, batch, pc, err, walletLock, permits, watch, due, chain, faults>>

\* cancel_job with an action id: whatever state the action is in.
CancelAction(a) ==
    /\ "cancelAction" \in Operator
    /\ act' = [act EXCEPT ![a].state = "Cancelled", ![a].rebuilding = FALSE]
    /\ UNCHANGED <<job, setup, runner, batch, pc, err, walletLock, permits, watch, due, chain, faults>>

-----------------------------------------------------------------------------
(* The watchers and the chain                                              *)

\* run_signature_watcher publishes one value and ends; run_slot_watcher and
\* run_market_watcher publish an error only when they give up. The hub keeps
\* the value, so every later wait reads it again.
LaunchConfirmed ==
    /\ runner.pc = "join"
    /\ watch.launch = "live"
    /\ watch' = [watch EXCEPT !.launch = "confirmed"]
    /\ UNCHANGED <<job, act, setup, runner, batch, pc, err, walletLock, permits, due, chain, faults>>

WatcherFails(w) ==
    /\ runner.pc = "join"
    /\ watch[w] = "live"
    /\ \E e \in {"retryable", "fatal"} : watch' = [watch EXCEPT ![w] = e]
    /\ Fault(w)
    /\ UNCHANGED <<job, act, setup, runner, batch, pc, err, walletLock, permits, due, chain>>

\* The time an action is scheduled for comes near.
FallsDue(a) ==
    /\ due' = due \union {a}
    /\ a \notin due
    /\ UNCHANGED <<job, act, setup, runner, batch, pc, err, walletLock, permits, watch, chain, faults>>

\* A transaction whose fate nobody waits for lands, or its blockhash expires.
Settle(a) ==
    \E g \in chain[a].open, lands \in BOOLEAN :
        /\ chain' = [chain EXCEPT ![a].open = @ \ {g},
                                  ![a].landed = IF lands THEN @ \union {g} ELSE @]
        /\ UNCHANGED <<job, act, setup, runner, batch, pc, err, walletLock, permits, watch, due, faults>>

SettleSetup ==
    \E g \in setup.open, lands \in BOOLEAN :
        /\ setup' = [setup EXCEPT !.open = @ \ {g},
                                  !.landed = IF lands THEN @ \union {g} ELSE @]
        /\ UNCHANGED <<job, act, runner, batch, pc, err, walletLock, permits, watch, due, chain, faults>>

-----------------------------------------------------------------------------
(* run_job                                                                 *)

\* The job is read; a state other than Armed or Running ends the runner.
RunStart ==
    /\ runner.pc = "start"
    /\ runner' = [runner EXCEPT !.pc =
                    IF job.state \in {"Armed", "Running"} THEN "spawn" ELSE "gone"]
    /\ UNCHANGED <<job, act, setup, batch, pc, err, walletLock, permits, watch, due, chain, faults>>

\* Where wait_for_action_eligibility starts.
FirstWait(a) == IF Kind[a] = "SniperSell" \/ AwaitsLaunch(a) THEN "anchor" ELSE "trigger"

\* finalize_job_state(Running), whatever the state has become since it was
\* read, then one task per group of actions and one for the deferred setup.
\* A batch task waits on behalf of the group with the group's first action.
RunSpawn ==
    /\ runner.pc = "spawn"
    /\ job' = [job EXCEPT !.state = "Running"]
    /\ runner' = [runner EXCEPT !.pc = "join"]
    /\ batch' = [k \in Keys |-> \E a \in Members(k) : InBatch(a)]
    /\ pc' = [a \in Actions |-> IF ~InBatch(a) THEN "loop"
                                ELSE IF IsLead(a) THEN FirstWait(a) ELSE "held"]
    /\ setup' = [setup EXCEPT !.pc = IF HasSetup THEN "read" ELSE "off"]
    /\ UNCHANGED <<act, err, walletLock, permits, watch, due, chain, faults>>

SomeFailed ==
    \/ \E a \in Actions : act[a].state \in {"Failed", "Expired"}
    \/ HasSetup /\ setup.state = "Failed"
SomeConfirmed ==
    \/ \E a \in Actions : act[a].state = "Confirmed"
    \/ HasSetup /\ setup.state = "Confirmed"

\* All tasks joined: the job is read and its final state worked out ...
RunJoined ==
    /\ runner.pc = "join"
    /\ \A a \in Actions : pc[a] = "done"
    /\ setup.pc \in {"off", "done"}
    /\ runner' = [runner EXCEPT !.pc = "final",
                    !.final = FinalJobState(JobCancelled, SomeFailed, SomeConfirmed, runner.taskError)]
    /\ UNCHANGED <<job, act, setup, batch, pc, err, walletLock, permits, watch, due, chain, faults>>

\* ... and written, whatever happened to the job in between.
RunFinish ==
    /\ runner.pc = "final"
    /\ job' = [job EXCEPT !.state = runner.final]
    /\ runner' = [runner EXCEPT !.pc = "gone"]
    /\ UNCHANGED <<act, setup, batch, pc, err, walletLock, permits, watch, due, chain, faults>>

-----------------------------------------------------------------------------
(* The task of an action: wait_for_action_eligibility                      *)

\* What the task of an action leaves alone while it waits.
around == <<job, setup, runner, watch, due>>
rest   == <<around, batch, walletLock, permits, chain>>

\* The top of execute_action_with_retry, and the top of execute_action when
\* the action has not been made Eligible by its batch.
Loop(a) ==
    /\ pc[a] = "loop"
    /\ \/ /\ JobCancelled \/ act[a].state \in SettledAction \union {"Sent", "Running"}
          /\ Goto(a, "done")
          /\ UNCHANGED act
       \/ /\ ~JobCancelled
          /\ act[a].state = "Eligible"
          /\ Goto(a, "precheck")
          /\ UNCHANGED act
       \/ /\ ~JobCancelled
          /\ act[a].state \in {"Queued", "Armed"}
          /\ Goto(a, FirstWait(a))
          /\ SetAct(a, "Armed")
    /\ UNCHANGED <<rest, err, faults>>

\* wait_for_signature_confirmation. A known slot is taken without a look at
\* the cancellation; an error of the watcher is the error of the wait.
AnchorAtLaunch(a) ==
    /\ pc[a] = "anchor"
    /\ AwaitsLaunch(a)
    /\ \/ /\ job.slotKnown \/ (watch.launch = "confirmed" /\ ~ActionCancelled(a))
          /\ Goto(a, "trigger")
          /\ UNCHANGED <<err, walletLock, permits>>
       \/ /\ ~job.slotKnown
          /\ ~ActionCancelled(a)
          /\ watch.launch \in {"retryable", "fatal"}
          /\ FailWith(a, watch.launch)
    /\ UNCHANGED <<around, act, batch, chain, faults>>

\* Mutant: a buy that is Sent is taken for bought.
AnchorAtSentBuy(a) ==
    /\ pc[a] = "anchor"
    /\ Kind[a] = "SniperSell"
    /\ ~ActionCancelled(a)
    /\ \/ /\ act[MatchingBuy(a)].state \in {"Sent", "Confirmed"}
          /\ act[MatchingBuy(a)].state = "Confirmed" => act[MatchingBuy(a)].slotKnown
          /\ Goto(a, "trigger")
          /\ UNCHANGED <<err, walletLock, permits>>
       \/ /\ act[MatchingBuy(a)].state = "Confirmed"
          /\ ~act[MatchingBuy(a)].slotKnown
          /\ FailWith(a, "fatal")
       \/ /\ act[MatchingBuy(a)].state \in SettledAction \ {"Confirmed"}
          /\ FailWith(a, "stopped")
    /\ UNCHANGED <<around, act, batch, chain, faults>>

\* wait_for_matching_sniper_buy_confirmation. A buy that was confirmed without
\* a slot is an error that is never retried.
AnchorAtBuy(a) ==
    /\ pc[a] = "anchor"
    /\ Kind[a] = "SniperSell"
    /\ ~ActionCancelled(a)
    /\ \/ /\ act[MatchingBuy(a)].state = "Confirmed"
          /\ act[MatchingBuy(a)].slotKnown
          /\ Goto(a, "trigger")
          /\ UNCHANGED <<err, walletLock, permits>>
       \/ /\ act[MatchingBuy(a)].state = "Confirmed"
          /\ ~act[MatchingBuy(a)].slotKnown
          /\ FailWith(a, "fatal")
       \/ /\ act[MatchingBuy(a)].state \in SettledAction \ {"Confirmed"}
          /\ FailWith(a, "stopped")
    /\ UNCHANGED <<around, act, batch, chain, faults>>

\* wait_until_ms, wait_for_slot_offset_from_anchor and wait_for_market_cap_
\* trigger. A buy always passes wait_until_ms, which looks at the
\* cancellation; the other waits can end before they look. The market is
\* looked at before its watcher is.
LooksAtCancel(a) == Kind[a] = "SniperBuy" \/ Trigger[a] = "delay" \/ a \in Delayed

TriggerMet(a) ==
    /\ pc[a] = "trigger"
    /\ a \in due
    /\ LooksAtCancel(a) => ~ActionCancelled(a)
    /\ Trigger[a] = "blockN" => watch.slot = "live"
    /\ Goto(a, IF HasSetup /\ AfterSetup(a) THEN "setup" ELSE "mark")
    /\ UNCHANGED <<rest, act, err, faults>>

\* The watcher has given up, the market scan has run into its time limit, or
\* its first look at the market failed.
TriggerFails(a) ==
    /\ pc[a] = "trigger"
    /\ \/ /\ Trigger[a] = "blockN"
          /\ watch.slot # "live"
          /\ FailWith(a, watch.slot)
          /\ UNCHANGED faults
       \/ /\ Trigger[a] = "market"
          /\ \E e \in {"stopped", watch.market} \ {"live"} : FailWith(a, e)
          /\ UNCHANGED faults
       \/ /\ Trigger[a] = "market"
          /\ \E e \in {"retryable", "fatal"} : FailWith(a, e)
          /\ Fault("market")
    /\ UNCHANGED <<around, act, batch, chain>>

\* Mutant: a setup that is Sent will do.
SetupSentAwaited(a) ==
    /\ pc[a] = "setup"
    /\ ~ActionCancelled(a)
    /\ \/ /\ setup.state \in {"Sent", "Confirmed"}
          /\ Goto(a, "mark")
          /\ UNCHANGED <<err, walletLock, permits>>
       \/ /\ setup.state = "Failed"
          /\ FailWith(a, setup.error)
    /\ UNCHANGED <<around, act, batch, chain, faults>>

\* wait_for_deferred_setup_confirmation.
SetupAwaited(a) ==
    /\ pc[a] = "setup"
    /\ ~ActionCancelled(a)
    /\ \/ /\ setup.state = "Confirmed"
          /\ Goto(a, "mark")
          /\ UNCHANGED <<err, walletLock, permits>>
       \/ /\ setup.state = "Failed"
          /\ FailWith(a, setup.error)
    /\ UNCHANGED <<around, act, batch, chain, faults>>

\* Mutant: the wait for the setup does not look at the cancellation.
WaitAbortsEarly(a) ==
    /\ \/ pc[a] = "anchor"
       \/ pc[a] = "trigger" /\ (LooksAtCancel(a) \/ Trigger[a] \in {"blockN", "market"})
    /\ ActionCancelled(a)
    /\ FailWith(a, "fatal")
    /\ UNCHANGED <<around, act, batch, chain, faults>>

\* ensure_action_not_cancelled inside the waits: "was cancelled" is an error
\* that is never retried.
WaitAborts(a) ==
    /\ \/ pc[a] \in {"anchor", "setup"}
       \/ pc[a] = "trigger" /\ (LooksAtCancel(a) \/ Trigger[a] \in {"blockN", "market"})
    /\ ActionCancelled(a)
    /\ FailWith(a, "fatal")
    /\ UNCHANGED <<around, act, batch, chain, faults>>

Wait(a) == AnchorAtLaunch(a) \/ AnchorAtBuy(a) \/ TriggerMet(a) \/ TriggerFails(a)
             \/ SetupAwaited(a) \/ WaitAborts(a)

\* An action alone in its group becomes Eligible unless it was cancelled.
Mark(a) ==
    /\ pc[a] = "mark"
    /\ ~batch[TriggerKey[a]]
    /\ IF ActionCancelled(a)
         THEN FailWith(a, "fatal") /\ UNCHANGED act
         ELSE /\ Goto(a, "precheck")
              /\ SetAct(a, "Eligible")
              /\ UNCHANGED <<err, walletLock, permits>>
    /\ UNCHANGED <<around, batch, chain, faults>>

-----------------------------------------------------------------------------
(* run_action_batch_task                                                   *)

\* The wait of the first action is over: every action of the batch becomes
\* Eligible, whatever it was, and gets a task of its own.
MarkBatch(k) ==
    /\ batch[k]
    /\ pc[Lead[k]] = "mark"
    /\ batch' = [batch EXCEPT ![k] = FALSE]
    /\ act' = [a \in Actions |-> IF a \in Members(k) THEN [act[a] EXCEPT !.state = "Eligible"]
                                 ELSE act[a]]
    /\ pc' = [a \in Actions |-> IF a \in Members(k) THEN "loop" ELSE pc[a]]
    /\ UNCHANGED <<around, err, walletLock, permits, chain, faults>>

\* The wait of the first action failed: every action of the batch fails.
FailBatch(k) ==
    /\ batch[k]
    /\ pc[Lead[k]] = "judge"
    /\ batch' = [batch EXCEPT ![k] = FALSE]
    /\ act' = [a \in Actions |-> IF a \in Members(k) THEN [act[a] EXCEPT !.state = "Failed"]
                                 ELSE act[a]]
    /\ pc' = [a \in Actions |-> IF a \in Members(k) THEN "done" ELSE pc[a]]
    /\ runner' = [runner EXCEPT !.taskError = TRUE]
    /\ UNCHANGED <<job, setup, watch, due, err, walletLock, permits, chain, faults>>

-----------------------------------------------------------------------------
(* The task of an action: execute_action                                   *)

\* required_action_precheck reads the wallet balance; the cancellation is
\* looked at once it is back.
Precheck(a) ==
    /\ pc[a] = "precheck"
    /\ \/ /\ ~ActionCancelled(a)
          /\ Goto(a, "lock")
          /\ UNCHANGED <<err, walletLock, permits, faults>>
       \/ ActionCancelled(a) /\ FailWith(a, "fatal") /\ UNCHANGED faults
       \/ /\ \E e \in {"retryable", "fatal"} : FailWith(a, e)
          /\ Fault("precheck")
    /\ UNCHANGED <<around, act, batch, chain>>

\* Mutant: the lock is not waited for.
LockUnlocked(a) ==
    /\ pc[a] = "lock"
    /\ walletLock' = [walletLock EXCEPT ![WalletOf[a]] = a]
    /\ act' = [act EXCEPT ![a].state = "Running", ![a].attempts = @ + 1]
    /\ Goto(a, "compile")
    /\ UNCHANGED <<around, batch, err, permits, chain, faults>>

\* The wallet's lock is taken; the action is Running, whatever it was.
Lock(a) ==
    /\ pc[a] = "lock"
    /\ walletLock[WalletOf[a]] = None
    /\ walletLock' = [walletLock EXCEPT ![WalletOf[a]] = a]
    /\ act' = [act EXCEPT ![a].state = "Running", ![a].attempts = @ + 1]
    /\ Goto(a, "compile")
    /\ UNCHANGED <<around, batch, err, permits, chain, faults>>

\* A transaction of a new generation is made for a.
Compiled(a) == chain' = [chain EXCEPT ![a].gen = @ + 1]

\* skip_retry_if_wallet_already_holds_token: the token may also have come
\* from the buy this one repeats, which the main host sent with the launch.
SkipHeld(a) ==
    /\ pc[a] = "compile"
    /\ a \in SkipIfHeld
    /\ SetAct(a, "Cancelled")
    /\ Goto(a, "done")
    /\ Release(a)
    /\ UNCHANGED <<around, batch, err, chain, faults>>

\* Mutant: the last look at the cancellation is missing.
CompileUnchecked(a) ==
    /\ pc[a] = "compile"
    /\ a \in SkipIfHeld => chain[a].landed = {}
    /\ \/ /\ IF act[a].preSigned THEN UNCHANGED chain ELSE Compiled(a)
          /\ Goto(a, "send")
          /\ UNCHANGED <<err, walletLock, permits, faults>>
       \/ /\ ActionCancelled(a)
          /\ FailWith(a, "fatal")
          /\ UNCHANGED <<chain, faults>>
       \/ /\ act[a].preSigned
          /\ FailWith(a, "expired")
          /\ Fault("expiry")
          /\ UNCHANGED chain
       \/ /\ \E e \in {"retryable", "fatal"} : FailWith(a, e)
          /\ Fault("compile")
          /\ UNCHANGED chain
    /\ UNCHANGED <<around, act, batch>>

\* A transaction signed in advance is used if its blockhash is still valid,
\* otherwise one is compiled. The cancellation is looked at afterwards. Waiting
\* in vain for a compile slot is one of the ways to fail with a retryable error.
Compile(a) ==
    /\ pc[a] = "compile"
    /\ a \in SkipIfHeld => chain[a].landed = {}
    /\ \/ /\ ~ActionCancelled(a)
          /\ IF act[a].preSigned THEN UNCHANGED chain ELSE Compiled(a)
          /\ Goto(a, "send")
          /\ UNCHANGED <<err, walletLock, permits, faults>>
       \/ /\ ActionCancelled(a)
          /\ FailWith(a, "fatal")
          /\ UNCHANGED <<chain, faults>>
       \/ /\ act[a].preSigned
          /\ FailWith(a, "expired")
          /\ Fault("expiry")
          /\ UNCHANGED chain
       \/ /\ \E e \in {"retryable", "fatal"} : FailWith(a, e)
          /\ Fault("compile")
          /\ UNCHANGED chain
    /\ UNCHANGED <<around, act, batch>>

\* acquire_capacity_slot on the send slots, or its timeout.
AcquireSend(a) ==
    /\ pc[a] = "send"
    /\ PermitFree
    /\ permits' = permits \union {a}
    /\ Goto(a, "submit")
    /\ UNCHANGED <<around, act, batch, err, walletLock, chain, faults>>

SendTimesOut(a) ==
    /\ pc[a] = "send"
    /\ ~PermitFree
    /\ FailWith(a, "retryable")
    /\ UNCHANGED <<around, act, batch, chain, faults>>

\* submit_transactions_for_transport was answered: the action is Sent,
\* whatever it was.
SubmitAccepted(a) ==
    /\ pc[a] \in {"submit", "resubmit"}
    /\ act' = [act EXCEPT ![a].state = "Sent", ![a].rebuilding = FALSE]
    /\ Goto(a, "confirm")
    /\ UNCHANGED <<around, batch, err, walletLock, permits, chain, faults>>

\* should_retry_pump_sell_creator_vault_mismatch, but for the error.
RetriesVault(a) == Pump /\ IsSell(a) /\ Kind[a] \in VaultRetry

\* The provider refused the transaction; a sell with a stale creator vault is
\* compiled and sent once more on the spot.
SubmitRejected(a) ==
    /\ pc[a] \in {"submit", "resubmit"}
    /\ \E e \in {"retryable", "fatal", "vault"} :
         IF e = "vault" /\ RetriesVault(a) /\ pc[a] = "submit"
           THEN /\ Goto(a, "resubmit")
                /\ Compiled(a)
                /\ UNCHANGED <<err, walletLock, permits>>
           ELSE FailWith(a, e) /\ UNCHANGED chain
    /\ Fault("submit")
    /\ UNCHANGED <<around, act, batch>>

\* The answer of the provider is lost; the transaction may be on its way.
SubmitUnacknowledged(a) ==
    /\ pc[a] \in {"submit", "resubmit"}
    /\ FailWith(a, "retryable")
    /\ chain' = [chain EXCEPT ![a].open = @ \union {chain[a].gen}]
    /\ Fault("unacknowledged")
    /\ UNCHANGED <<around, act, batch>>

\* confirm_submitted_transactions_for_transport: the transaction landed and
\* the action is Confirmed, whatever it was, as a rule with the slot ...
Confirmed(a) ==
    /\ pc[a] = "confirm"
    /\ \/ act' = [act EXCEPT ![a].state = "Confirmed", ![a].slotKnown = TRUE] /\ UNCHANGED faults
       \/ act' = [act EXCEPT ![a].state = "Confirmed", ![a].slotKnown = FALSE] /\ Fault("slotless")
    /\ chain' = [chain EXCEPT ![a].open = @ \ {chain[a].gen},
                              ![a].landed = @ \union {chain[a].gen}]
    /\ Goto(a, "done")
    /\ Release(a)
    /\ UNCHANGED <<around, batch, err>>

\* ... or, for a buy whose tokens are to be sold, the token account of its
\* wallet was seen to hold some, wherever they came from: the fate of the
\* transaction is open ...
ConfirmedByAccount(a) ==
    /\ pc[a] = "confirm"
    /\ \E s \in Actions : IsMatchingBuy(a, s)
    /\ act' = [act EXCEPT ![a].state = "Confirmed", ![a].slotKnown = TRUE]
    /\ chain' = [chain EXCEPT ![a].open = @ \union {chain[a].gen}, ![a].held = TRUE]
    /\ Goto(a, "done")
    /\ Release(a)
    /\ Fault("account")
    /\ UNCHANGED <<around, batch, err>>

\* ... or it is in a block and failed there ...
FailedOnChain(a) ==
    /\ pc[a] = "confirm"
    /\ chain[a].gen \notin chain[a].landed
    /\ \E e \in {"vault", "slippage", "fatal"} : FailWith(a, e)
    /\ chain' = [chain EXCEPT ![a].open = @ \ {chain[a].gen}]
    /\ Fault("onchain")
    /\ UNCHANGED <<around, act, batch>>

\* ... or nobody knows within the time given.
Unconfirmed(a) ==
    /\ pc[a] = "confirm"
    /\ FailWith(a, "retryable")
    /\ chain' = [chain EXCEPT ![a].open = @ \union {chain[a].gen}, ![a].asked = TRUE]
    /\ Fault("unconfirmed")
    /\ UNCHANGED <<around, act, batch>>

Execute(a) == Precheck(a) \/ SkipHeld(a) \/ Compile(a) \/ SendTimesOut(a)
                \/ SubmitAccepted(a) \/ SubmitRejected(a) \/ SubmitUnacknowledged(a)

\* How the wait for the confirmation ends, if it does: on its default path it
\* has no time limit and does not look at the cancellation.
Confirm(a) == Confirmed(a) \/ ConfirmedByAccount(a) \/ FailedOnChain(a) \/ Unconfirmed(a)

-----------------------------------------------------------------------------
(* The task of an action: what execute_action_with_retry does with an error *)

\* Mutant: one retry too many.
WithinBudgetOneMore(a) == act[a].attempts <= RetryBudget + 1

WithinBudget(a) == act[a].attempts <= RetryBudget

\* should_rebuild_presigned_pump_buy_creator_vault_mismatch,
\* should_retry_pump_sell_creator_vault_mismatch and
\* should_rebuild_presigned_pump_sell_onchain_slippage.
ResetsForRebuild(a) ==
    \/ err[a] = "vault" /\ RetriesVault(a)
    \/ /\ Pump /\ act[a].preSigned /\ WithinBudget(a)
       /\ \/ err[a] = "vault" /\ ~IsSell(a) /\ Kind[a] \in VaultRetry
          \/ err[a] = "slippage" /\ IsSell(a)

\* Mutant: the state of the record is not looked at.
RetriesSentAction(a) ==
    /\ WithinBudget(a)
    /\ err[a] = "retryable"

\* should_retry_action.
RetriesAction(a) ==
    /\ WithinBudget(a)
    /\ act[a].state \notin SettledAction \union {"Sent"}
    /\ err[a] = "retryable"

VerdictOf(a) ==
    IF err[a] = "expired" /\ Kind[a] = "DevAutoSell" /\ act[a].preSigned THEN "rebuild"
    ELSE IF err[a] = "stopped" THEN "stop"
    ELSE IF err[a] = "expired" THEN "expire"
    ELSE IF ResetsForRebuild(a) THEN "reset"
    ELSE IF RetriesAction(a) THEN "rearm"
    ELSE "fail"

\* The latest record is read ...
Judge(a) ==
    /\ pc[a] = "judge"
    /\ ~batch[TriggerKey[a]]
    /\ Goto(a, VerdictOf(a))
    /\ UNCHANGED <<rest, act, err, faults>>

\* ... and the verdict written, whatever the record has become: Armed again
\* after a backoff, by update_action or reset_action_for_presigned_rebuild,
Retry(a) ==
    /\ pc[a] \in {"rearm", "reset", "rebuild"}
    /\ act' = [act EXCEPT ![a].state = "Armed",
                          ![a].preSigned = @ /\ pc[a] = "rearm",
                          ![a].rebuilding = (pc[a] = "reset"),
                          ![a].slotKnown = @ /\ pc[a] = "rearm"]
    /\ err' = [err EXCEPT ![a] = "none"]
    /\ Goto(a, "loop")
    /\ UNCHANGED <<rest, faults>>

\* or record_action_stopped, record_action_expired or record_action_failure.
\* Only a failure is an error of the task, and a batch drops those of its
\* members.
GiveUp(a) ==
    /\ pc[a] \in {"stop", "expire", "fail"}
    /\ SetAct(a, CASE pc[a] = "stop"   -> "Stopped"
                   [] pc[a] = "expire" -> "Expired"
                   [] pc[a] = "fail"   -> "Failed")
    /\ runner' = [runner EXCEPT !.taskError = @ \/ (pc[a] = "fail" /\ ~InBatch(a))]
    /\ err' = [err EXCEPT ![a] = "none"]
    /\ Goto(a, "done")
    /\ UNCHANGED <<job, setup, watch, due, batch, walletLock, permits, chain, faults>>

-----------------------------------------------------------------------------
(* The deferred setup task                                                 *)

\* What the setup task leaves alone.
beside == <<job, act, batch, pc, err, walletLock, watch, due, chain>>

MaxSetupTries == 2

\* should_block_deferred_setup_for_action: an action that runs before the
\* setup is still to be sent, not for a second time, and soon.
BlocksSetup(a) ==
    /\ act[a].state \in PendingAction
    /\ ~(~act[a].preSigned /\ act[a].rebuilding)
    /\ ~AfterSetup(a)
    /\ a \in due

\* run_deferred_setup_task reads the job ...
SetupRead ==
    /\ setup.pc = "read"
    /\ setup' = IF setup.state \in {"Confirmed", "Failed"}
                  THEN [setup EXCEPT !.pc = "done"]
                  ELSE [setup EXCEPT !.pc = "launch",
                                     !.blocked = \E a \in Actions : BlocksSetup(a)]
    /\ UNCHANGED <<beside, runner, permits, faults>>

\* ... waits for the launch, and starts again if an action was in the way
\* when it read. A cancellation is noticed here and not later.
SetupLaunch ==
    /\ setup.pc = "launch"
    /\ \/ /\ job.slotKnown \/ (watch.launch = "confirmed" /\ ~JobCancelled)
          /\ setup' = [setup EXCEPT !.pc = IF setup.blocked THEN "read" ELSE "mark",
                                    !.blocked = FALSE]
          /\ UNCHANGED runner
       \/ /\ ~job.slotKnown
          /\ JobCancelled \/ watch.launch \in {"retryable", "fatal"}
          /\ setup' = [setup EXCEPT !.pc = "done", !.blocked = FALSE]
          /\ runner' = [runner EXCEPT !.taskError = TRUE]
    /\ UNCHANGED <<beside, permits, faults>>

SetupMark ==
    /\ setup.pc = "mark"
    /\ setup' = [setup EXCEPT !.state = "Running", !.pc = "permit"]
    /\ UNCHANGED <<beside, runner, permits, faults>>

SetupAcquire ==
    /\ setup.pc = "permit"
    /\ PermitFree
    /\ permits' = permits \union {SetupTask}
    /\ setup' = [setup EXCEPT !.pc = "submit"]
    /\ UNCHANGED <<beside, runner, faults>>

\* The task ends with an error and leaves the setup in the given state, with
\* the generations in open undecided.
SetupEnds(state, e, open) ==
    /\ setup' = [setup EXCEPT !.state = state, !.error = e, !.pc = "done", !.open = open]
    /\ runner' = [runner EXCEPT !.taskError = TRUE]
    /\ permits' = permits \ {SetupTask}

\* The setup is queued again, as generation gen, with open still undecided.
SetupAgain(gen, open) ==
    /\ setup.tries < MaxSetupTries
    /\ setup' = [setup EXCEPT !.state = "Queued", !.pc = "mark", !.tries = @ + 1,
                              !.gen = gen, !.open = open]
    /\ permits' = permits \ {SetupTask}
    /\ UNCHANGED runner

SetupTimesOut ==
    /\ setup.pc = "permit"
    /\ ~PermitFree
    /\ SetupEnds("Running", "none", setup.open)
    /\ UNCHANGED <<beside, faults>>

SetupAccepted ==
    /\ setup.pc = "submit"
    /\ setup' = [setup EXCEPT !.state = "Sent", !.pc = "confirm"]
    /\ UNCHANGED <<beside, runner, permits, faults>>

\* A retryable error of the submission: queued again, the permit still held
\* while the task sleeps, or the end of the tries.
SetupRetries(open) ==
    \/ /\ setup.tries < MaxSetupTries
       /\ setup' = [setup EXCEPT !.state = "Queued", !.pc = "backoff", !.tries = @ + 1,
                                 !.open = open]
       /\ UNCHANGED <<runner, permits>>
    \/ setup.tries = MaxSetupTries /\ SetupEnds("Failed", "retryable", open)

SetupBacksOff ==
    /\ setup.pc = "backoff"
    /\ setup' = [setup EXCEPT !.pc = "mark"]
    /\ permits' = permits \ {SetupTask}
    /\ UNCHANGED <<beside, runner, faults>>

SetupRejected ==
    /\ setup.pc = "submit"
    /\ SetupRetries(setup.open) \/ SetupEnds("Failed", "fatal", setup.open)
    /\ Fault("submit")
    /\ UNCHANGED beside

SetupUnacknowledged ==
    /\ setup.pc = "submit"
    /\ SetupRetries(setup.open \union {setup.gen})
    /\ Fault("unacknowledged")
    /\ UNCHANGED beside

SetupConfirmed ==
    /\ setup.pc = "confirm"
    /\ setup' = [setup EXCEPT !.state = "Confirmed", !.pc = "done", !.open = @ \ {setup.gen},
                              !.landed = @ \union {setup.gen}]
    /\ permits' = permits \ {SetupTask}
    /\ UNCHANGED <<beside, runner, faults>>

\* Mutant: it is signed again with a fresh blockhash.
SetupUnconfirmedFresh ==
    /\ setup.pc = "confirm"
    /\ LET open == setup.open \union {setup.gen} IN
         SetupAgain(setup.gen + 1, open) \/ (setup.tries = MaxSetupTries /\ SetupEnds("Failed", "fatal", open))
    /\ Fault("unconfirmed")
    /\ UNCHANGED beside

\* Not confirmed in time: the same transaction is sent again.
SetupUnconfirmed ==
    /\ setup.pc = "confirm"
    /\ LET open == setup.open \union {setup.gen} IN
         \/ SetupAgain(setup.gen, open)
         \/ /\ setup.tries = MaxSetupTries
            /\ \E e \in {"retryable", "fatal"} : SetupEnds("Failed", e, open)
    /\ Fault("unconfirmed")
    /\ UNCHANGED beside

\* Failed on chain: it is signed again with a fresh blockhash, or that fails
\* and the task ends with the setup still Sent.
SetupFailedOnChain ==
    /\ setup.pc = "confirm"
    /\ setup.gen \notin setup.landed
    /\ LET open == setup.open \ {setup.gen} IN
         \/ SetupAgain(setup.gen + 1, open)
         \/ setup.tries = MaxSetupTries /\ SetupEnds("Failed", "fatal", open)
         \/ "refresh" \in Faults /\ setup.tries < MaxSetupTries /\ SetupEnds("Sent", "none", open)
    /\ Fault("onchain")
    /\ UNCHANGED beside

SetupStep == SetupRead \/ SetupLaunch \/ SetupMark \/ SetupAcquire \/ SetupTimesOut
               \/ SetupAccepted \/ SetupRejected \/ SetupUnacknowledged \/ SetupBacksOff
               \/ SetupConfirmed \/ SetupUnconfirmed \/ SetupFailedOnChain

-----------------------------------------------------------------------------
(* The specification                                                       *)

Finished == runner.pc = "gone" /\ UNCHANGED vars

RunsOn(a) == Loop(a) \/ Wait(a) \/ Mark(a) \/ Lock(a) \/ AcquireSend(a) \/ Execute(a)
               \/ Judge(a) \/ Retry(a) \/ GiveUp(a)
TaskStep(a) == RunsOn(a) \/ Confirm(a)
BatchStep(k) == MarkBatch(k) \/ FailBatch(k)
RunStep      == RunStart \/ RunSpawn \/ RunJoined \/ RunFinish

Next ==
    \/ Arm \/ CancelJob \/ \E a \in Actions : CancelAction(a)
    \/ LaunchConfirmed \/ \E w \in {"launch", "slot", "market"} : WatcherFails(w)
    \/ \E a \in Actions : FallsDue(a)
    \/ \E a \in Actions : Settle(a)
    \/ SettleSetup
    \/ RunStep
    \/ \E a \in Actions : TaskStep(a)
    \/ \E k \in Keys : BatchStep(k)
    \/ SetupStep
    \/ Finished

Spec == Init /\ [][Next]_vars

(***************************************************************************)
(* The executor runs every task that can move. tokio hands its mutexes and *)
(* semaphores out in order of arrival, so a task that waits for one gets   *)
(* it. A launch that was sent is confirmed, or the watcher gives up, and   *)
(* time passes. Nothing makes the operator act, and nothing makes the wait *)
(* for the confirmation of an action end; that of the setup has a limit.   *)
(***************************************************************************)
Fairness ==
    /\ WF_vars(RunStep)
    /\ WF_vars(LaunchConfirmed)
    /\ \A a \in Actions : /\ WF_vars(FallsDue(a))
                          /\ WF_vars(RunsOn(a))
                          /\ SF_vars(Lock(a))
                          /\ SF_vars(AcquireSend(a))
    /\ \A k \in Keys : WF_vars(BatchStep(k))
    /\ WF_vars(SetupStep)
    /\ SF_vars(SetupAcquire)

FairSpec == Spec /\ Fairness

-----------------------------------------------------------------------------
(* What the runner promises                                                *)

JobRecord    == [state : JobState, cancelRequested : BOOLEAN, slotKnown : BOOLEAN]
ActionRecord == [state : ActionState, attempts : Nat, preSigned : BOOLEAN,
                 rebuilding : BOOLEAN, slotKnown : BOOLEAN]
SetupRecord  == [state : SetupState, pc : SetupPlace, tries : 0..MaxSetupTries,
                 blocked : BOOLEAN, error : {"none", "retryable", "fatal"},
                 gen : Nat, open : SUBSET Nat, landed : SUBSET Nat]
RunnerRecord == [pc : RunnerPlace, taskError : BOOLEAN, final : TerminalJob]
WatchRecord  == [launch : WatchValue, slot : WatchValue \ {"confirmed"},
                 market : WatchValue \ {"confirmed"}]
ChainRecord  == [gen : Nat, open : SUBSET Nat, landed : SUBSET Nat, asked : BOOLEAN,
                 held : BOOLEAN]

TypeOK ==
    /\ job \in JobRecord
    /\ act \in [Actions -> ActionRecord]
    /\ setup \in SetupRecord
    /\ runner \in RunnerRecord
    /\ batch \in [Keys -> BOOLEAN]
    /\ pc \in [Actions -> Place]
    /\ err \in [Actions -> ErrClass]
    /\ walletLock \in [Wallets -> Actions \union {None}]
    /\ permits \subseteq Actions \union {SetupTask}
    /\ watch \in WatchRecord
    /\ due \subseteq Actions
    /\ chain \in [Actions -> ChainRecord]
    /\ faults \in 0..MaxFaults

\* Two actions never compile, send or confirm with one wallet at a time: the
\* wallet's lock is held from compilation to the end of the confirmation.
WalletMutex ==
    \A a, b \in Actions :
        a # b /\ WalletOf[a] = WalletOf[b] => ~(pc[a] \in Locked /\ pc[b] \in Locked)

\* No more than LAUNCHDECK_FOLLOW_MAX_CONCURRENT_SENDS transactions are being
\* submitted or confirmed, the deferred setup among them.
Senders == {a \in Actions : pc[a] \in Sending}
             \union {x \in {SetupTask} : setup.pc \in {"submit", "confirm"}}
SendBound == Cardinality(Senders) <= SendSlots

\* A sniper sell is not compiled, let alone sent, before a transaction of its
\* buy has landed or the token account of the wallet was seen to hold tokens,
\* over any retries and rebuilds of the two.
HasTokens(b) == chain[b].landed # {} \/ chain[b].held
SellAfterBuy ==
    \A a \in Actions : Kind[a] = "SniperSell" /\ pc[a] \in Locked => HasTokens(MatchingBuy(a))

\* Once the confirmation of a transaction has ended without an answer, nothing
\* more is compiled or sent for its action: the transaction may still land.
NoBlindResend ==
    \A a \in Actions : chain[a].asked => pc[a] \in {"judge", "fail", "done"}

\* Once a cancellation of the job is stored, no action that has not passed its
\* last look at it gets a transaction or comes to send one.
NoSendBeginsAfterCancel ==
    [][\A a \in Actions :
          job.cancelRequested /\ pc[a] \notin {"send"} \union Sending =>
            /\ pc'[a] \notin {"send"} \union Sending
            /\ chain'[a].gen = chain[a].gen]_vars

\* An action takes its wallet's lock at most retryBudget + 1 times, and once
\* more when a dev auto sell signed in advance expires; only the creator vault
\* retry of sells is outside the budget.
AttemptsBounded ==
    \A a \in Actions : ~RetriesVault(a) =>
        act[a].attempts <=
            RetryBudget + (IF Kind[a] = "DevAutoSell" /\ a \in PreSigned THEN 2 ELSE 1)

\* An action that runs after the deferred setup is sent only once it landed.
SendsAfterSetup ==
    \A a \in Actions :
        HasSetup /\ AfterSetup(a) /\ pc[a] \in Locked => setup.landed # {}

\* Over all its retries the deferred setup lands once: it is only signed again
\* when the transaction before has failed in a block.
SetupLandsOnce == Cardinality(setup.landed) <= 1

\* The wait for the confirmation of a transaction of an action never ends:
\* on the path of transactionSubscribe it has no time limit, and no wait for a
\* confirmation looks at the cancellation.
ConfirmHangs == \E a \in Actions : <>[](pc[a] = "confirm")

\* Unless a confirmation hangs, a job that is not cancelled ends, or a watcher
\* gives up or the deferred setup ends unconfirmed: actions may retry or wait
\* forever for those.
GivenUp == \/ \E w \in {"launch", "slot", "market"} : watch[w] \in {"retryable", "fatal"}
           \/ setup.pc = "done" /\ setup.state # "Confirmed"
JobEnds ==
    \/ ConfirmHangs
    \/ (runner.pc = "join") ~> (runner.pc = "gone" \/ GivenUp \/ job.cancelRequested)

\* Unless a confirmation hangs, the actions of a cancelled job all come to
\* rest, whatever went wrong before or goes wrong after: no other wait, no
\* retry and no lock outlives a cancellation.
CancelEndsActions ==
    \/ ConfirmHangs
    \/ (runner.pc = "join" /\ job.cancelRequested) ~> (\A a \in Actions : pc[a] = "done")

-----------------------------------------------------------------------------
(* What the documentation promises and the code does not keep              *)

\* docs/FOLLOW_DAEMON.md:59, "the daemon compiles, sends, confirms, and
\* records each action independently": an action waiting for its batch does
\* not fail with another one.
FailsOnItsOwn ==
    [][\A a \in Actions : pc[a] = "held" => act'[a].state # "Failed"]_vars

\* docs/EXECUTION_DOS_AND_DONTS.md:94, "Never blindly blast duplicate
\* transactions with fresh signatures while the original blockhash is still
\* live": a new transaction is made when no older one can still land.
FreshOnlyWhenDead ==
    [][\A a \in Actions : chain'[a].gen # chain[a].gen => chain[a].open = {}]_vars

\* docs/FOLLOW_DAEMON.md:59 again: each action of a running job is brought to
\* an end and recorded.
EachActionRecorded ==
    \A a \in Actions : (runner.pc = "join") ~> (act[a].state \in SettledAction)

\* docs/EXECUTION_DOS_AND_DONTS.md:91, "Retry until blockhash expiry, not
\* forever".
RetriesEnd == \A a \in Actions : ~[]<>(pc[a] = "rearm")

\* docs/USAGE.md:272, "watch active follow launches and cancel them if needed":
\* the runner of a cancelled job ends.
CancelEnds == (runner.pc = "join" /\ job.cancelRequested) ~> (runner.pc = "gone")

=============================================================================
