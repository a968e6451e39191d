# Formal model of LaunchDeck

LaunchDeck sends a token launch and then runs *follow actions* on it: sniper buys,
autosells of those buys, an automatic sell of the developer's tokens, and a deferred
setup transaction. The **main host** takes a form, resolves fees, compiles and sends
the launch. A second process, the **follow daemon**, waits for each action's
trigger, compiles, sends, confirms and records it. Both use the same compilers
(Pump, Bonk, Bags) and the same transports. What can go wrong is in four places: the
daemon's tasks, which share jobs, locks and permits and retry what may already have
happened; the two processes, which talk over HTTP; the transports, which tell only a
part of what the cluster did; and the arithmetic and assembly of what is sent.

The project has TLA+ modules for each of them, TLC configurations for small
instances, and proofs for every value of the constants about the daemon's job table,
the runner of a job, the launch on top of both, the watchers, the reports, the
transports and the top-up of a purchase.

Abbreviations for files below `src/rust/launchdeck-engine/src/`: **D** is
`bin/launchdeck-follow-daemon.rs`, **F** `follow.rs`, **M** `main.rs`, **RPC**
`rpc.rs`, **Pu**, **Bo**, **Ba** `pump_native.rs`, `bonk_native.rs`,
`bags_native.rs`.

## 1. Inventory

| Part | State it keeps | Operations | Modelled in |
| --- | --- | --- | --- |
| Job store (F `FollowDaemonStore`) | job, action and setup records, health counts, state file | `reserve_job`, `arm_job`, `cancel_job`, `cancel_all_jobs`, `update_action`, `update_job`, `finalize_job_state`, `clear_jobs_for_restart`, `persist` | `FollowJobs`, `FollowStore` |
| Daemon HTTP handlers (D) | `active_jobs` | reserve with the capacity check, arm and spawn, cancel, stop all, restore at startup; the others only read | `FollowStore` |
| Job runner (D `run_job`) | one task per action, wallet locks, compile and send slots, watch hub | waits, batch task, `execute_action_with_retry`, `execute_action`, deferred setup | `FollowRunner` |
| Watchers (D) | one channel per watcher of a job | signature, slot, market: websocket, polling, reconnect, giving up | `FollowWatch`; their outcome in `FollowRunner` |
| Report flushing (D, `observability.rs`) | pending flush, flush task, report file | queue, coalesce, abort, write; the host writes the same file | `FollowReport` |
| Offset worker (D) | table of consumers, running flag | register, run, leave | `OffsetWorker` |
| Compilation of follow trades (D, Pu, Bo, Ba) | hot copies of the market, cached balances, transactions signed before the launch | read, compile, land or revert | `FollowTrade` |
| Follow client (F) | - | one HTTP request per call | `LaunchFlow` (`Send`, `Reply`) |
| Launch flow (M `execute_engine_action_payload`) | reservation task, reserved/armed flags, results | reserve, build, send, arm, confirm, arm again, cancel | `LaunchFlow` |
| Jobs window (M `api_follow_cancel`, `api_follow_stop_all`) | - | cancel, stop all | `LaunchFlow` |
| Configuration, transport planning, fees of a launch | normalized configuration, plan | check, plan, resolve, raise, compile, submit | `LaunchBuild` |
| Fee market cache (M) | one entry with one stamp, two refreshers | refresh, read | `FeeMarket` |
| Launchpad compilers (Pu, Bo, Ba) | pool copies, lookup tables | quotes; top-up search; instructions, split, combination, signatures | `CurveQuotes`, `DbcQuotes`, `ClmmQuote`, `Trades`, `Usd1TopUp`, `Instructions`, `Assemble` |
| RPC client (RPC) | - | submit and confirm for each transport | `TxSend`, `SendContract` |
| Warm manager and warm loop (M, `warm_manager.rs`) | activity, routes, in-flight flag, targets | touch, pass, suspend, startup pass | `Warm` |
| Runtime worker registry, helper worker | heartbeats, a process pool | start, stop, restart | no (section 7) |
| Rendering of reports, settings, vamp, wallets, images, logs, UI, scripts | files, caches | sequential, pass-through | no (section 7) |

How they interact: the host starts a *reservation task* that posts `/jobs/reserve`
while it builds and sends the launch; it then posts `/jobs/arm` (without, later with
the confirmed slot), or `/jobs/cancel` when something failed. `arm` stores the job
and spawns the runner unless the trace has one. The runner shares the job record
with the handlers through the store: both read it, wait, and write it. Its tasks
share wallet locks and send slots, the watch hub of the job, and the record of the
deferred setup; each compiles from a copy of the market that others refresh, sends
through the transports and queues a flush of the job's report, a file that the host
writes too. While somebody uses the host or a job runs, the warm loop probes the
routes in use and the fee market is refreshed.

Hard behaviours: a record read before an await and written after it; retries after
an answer that was lost; cancellation at any await; a batch whose members depend on
one wait; tasks that wait for each other through records (setup, autosell, buy);
handlers, warm passes and flush tasks dropped or aborted; the end of the daemon; a
launch that fails while its reservation is under way; reconnecting watchers; a
confirmation pieced together from notifications and polls; trades compiled from
accounts read one after the other while the market and the wallet move; rounding;
and the limits of a packet.

What makes each part correct:

* store and handlers: a yes is kept, an armed job has a runner, a cancelled job
  ends, an ended job stays ended;
* runner: one action per wallet, bounded senders and attempts, a sell only
  after its buy, nothing sent twice while it may still land, order around the
  setup, an end for every task whose confirmation has one;
* watchers: a wait is ended only by what it waits for, and by a cancellation;
* reports: the last state is written unless its write fails, and none goes back;
* trades: a transaction reverts only for a reason that came after its accounts
  were read, and what a sale brings is in the wallet as SOL;
* launch flow: no job left behind by a failed or unconfirmed launch, and an end
  for every launch whose confirmation has one;
* building: fees within what was asked and allowed, the setup delivered once, no
  instruction lost, no signature missing, no profit from rounding, a top-up that
  pays for its purchase;
* transports: a yes is true, but for a buy that is confirmed by its token account;
  a failure leaves a prefix, a call ends where its wait has a limit;
* warming: what is used is probed, and nothing is when nobody is there.

## 2. Plan

Written in this order: the daemon's runner and store with the launch flow on top
(`FollowJobs`, `FollowRunner`, `FollowStore`, `LaunchFlow` and their proofs); then
what the runner took as an outcome (`FollowWatch`, `TxSend` under the abstract
`SendContract`, `FollowReport`, `OffsetWorker`, `FollowTrade`); then what is
computed before sending (`LaunchBuild`, the quotes, `Usd1TopUp`, `Instructions`,
`Assemble`); then what runs beside it (`Warm`, `FeeMarket`).

Worth doing next:

1. Proofs: `FitsIfItCan` of `Assemble`, which needs lemmas on the folds that find the
   smallest message and an assumption on the size of a trade; the area under the pieces
   of a DBC curve.
2. An abstract contract of one follow job which `FollowRunner` implements, and
   which replaces the runner's frame in `FollowStore`.
3. Launches of two traces that compete for one place of the daemon.
4. The waits of `FollowWatch` in place of the outcomes in `FollowRunner`.

Every run asks a question of its own; a property that a deeper one makes redundant
is replaced by it.

## 3. Modules and the code

### FollowJobs

Constant definitions only: the states of jobs, actions and setups (F 120-195) and
the maps from one state to the next made by `arm_job`, `cancel_job` and the verdict
of `run_job`. Both `FollowRunner` and `FollowStore` use them, so they cannot
disagree.

### FollowRunner

One armed job. A *place* `pc[a]` is where the task of action `a` stands between two
awaits; `setup.pc`, `runner.pc` and `batch[k]` do the same for the setup task,
`run_job` and the task of a batch.

| Variable | In the code |
| --- | --- |
| `job`, `act`, `setup` | the fields of `FollowJobRecord`, `FollowActionRecord`, `DeferredSetupRecord` that steer control |
| `pc`, `err`, `batch`, `runner` | the tasks and the error in their hands |
| `walletLock`, `permits` | `wallet_locks`, `send_slots` |
| `watch` | what the hub's channels hold: a value that every later wait reads again |
| `due` | actions whose `scheduledForMs` is near enough, or that have none (`Delayed` starts outside) |
| `chain` | the transactions made for an action: which can still land, which have, and whether its token account was seen to hold tokens (`held`) |
| `faults` | how many faults have happened, bounded by `MaxFaults` |

`Loop`, `Wait` (five waits), `Mark`, `Precheck`, `Lock`, `Compile`, `AcquireSend`,
`Submit...`, `Confirmed`, `ConfirmedByAccount`, `FailedOnChain`, `Unconfirmed`,
`Judge`, `Retry`, `GiveUp` follow `execute_action_with_retry` and `execute_action`
from await to await; `MarkBatch` and `FailBatch` are `run_action_batch_task`;
`Setup...` are `run_deferred_setup_task` and `execute_deferred_setup`; `Arm`,
`CancelJob`, `CancelAction` are what the outside does to the record. A remote call
and the write of its result are one step: nothing else reads what is in between. The
read of a record and the write that follows it are two steps wherever another writer
can come between.

Three things a reader may not expect. The wait for the confirmation of an action
(`Confirm`; D 3927-3934) has no time limit on its default path and looks at no
cancellation, while the task holds the wallet's lock and a permit: `Confirm` can
happen and never has to. A buy that is confirmed by its token account
(`ConfirmedByAccount`, RPC 2184-2207) need not have landed, so its transaction stays
open. And a setup whose submission failed sleeps with its permit (`SetupBacksOff`, D
4173), while one that was not confirmed gives it back. `slotKnown` says whether a
confirmed buy recorded its block; without it the wait of its autosell fails
(`AnchorAtBuy`, D 2971-2978).

### FollowStore

The table `jobs` by trace, the count `activeJobs`, the handlers under way (`call[c]`
for each connection) and the frame of the runners (`runner`, `verdict`). The stages
of a handler are its awaits: `ReserveUnready`, `ReserveLook`, `ReserveAdmit`,
`ReserveStore`, `ArmStore`, `ArmSpawn`, `CancelStore`, `StopAllStore`, then `Saved`
or `SaveFails` for `persist`. A client can hang up at any stage and the handler is
then dropped at its next await (`HangUp`, `Drop`). `RunnerStart`, `RunnerClaim`,
`RunnerVerdict`, `RunnerFinish`, `RunnerLeave` are the reads and writes of `run_job`
itself; what the actions do in between is any outcome. `Stop` and `Start` are the
end and the start of the process. `cut` is a history variable: traces with an arm
that was stored and ended before it spawned.

The contents of the state file are not modelled: `main` clears the jobs it loads
before it listens, so the only visible effect of the file is that a write to it
fails. The uncapped setting of `LAUNCHDECK_FOLLOW_MAX_ACTIVE_JOBS` is
`MaxActiveJobs` at least the number of traces.

### LaunchFlow

Extends `FollowStore`. `flow[t].pc` is the stage of the launch request,
`flow[t].task` that of the reservation task; both use free connections of the
same daemon model. A request goes out unless the daemon is down (`Send`); its
answer is that of the handler, an error because the daemon ended, or an error
because a yes was lost or could not be read (`Reply`, bounded by `MaxLost`).
`Build`, `PreReserve`, `Submit`, `Confirm` and `Late` have every outcome the
code handles; `Abort`, `CancelAsks` and `CancelAnswered` are
`cancel_reserved_follow_job_on_launch_failure` with its repeated attempts on an
unknown trace, `CancelOnce...` the single cancellations after a confirmation
that failed. `Awaits` is a launch in one of its two waits for a confirmation (M
6312-6319, 6413-6420), which have no time limit of their own and nothing makes end.
`Desk...` is a user at the Jobs window.

### FollowWatch

The three watchers of a job and the waits on their channels. `watcher[k]` is the
session of a kind (websocket, polling, over) with its rounds; `told[k]` is the last
value of the `watch` channel, which a wait that begins later reads too.
`SignatureSession`, `SlotSession`, `MarketSession` and `SessionFails` are a
session's steps; `WaitStep` starts the watchers an action needs, waits for the first
of its triggers (`tokio::select!`, so two at once are here), for the confirmation
when it is required, or looks at the job every 50 ms. Slots count from the launch; a
market cap is below (0) or at (1) the threshold.

### FollowReport and OffsetWorker

`FollowReport`: a caller of `sync_follow_job_report` takes its snapshot
(`version` counts the changes of the job), puts it into
`follow_report_flushes`, aborts the registered task where it must, and spawns
one; a flush task takes what is pending, sleeps, takes the lock of the reports,
reads the file and writes it. `abort()` acts at the next point where the task
has to wait. The host writes the whole file twice without that lock. A read or
write that fails drops what the task holds, and nothing repeats it (`WriteFails`, D
2556-2572). Two history variables: `lost` has the ways in which a version can be
lost, `failed` is the newest version whose write failed.

`OffsetWorker`: `register_offset_consumer` and `run_offset_worker`, with the table
of consumers and the running flag under two locks. A worker notes who is complete
(`PollHeight`) and removes them later (`Complete`). All of it is marked
`#[allow(dead_code)]`: nothing registers a consumer today. The code is kept, so the
model is too, but it counts as no hazard of the running program.

### FollowTrade

Trades of one wallet on each launchpad: `Begin` decides what to read, one `Read...`
action per account (the daemon's hot copy, the curve, the DBC and DAMM pools, the
balances, the accounts that exist), `Send` compiles instructions from what was read,
and `Land` or `Revert` runs them on the wallet, all or none, as the programs would
(external). A trade may also be signed before the launch (`PresignedBuys`,
`PresignedSells`: the atomic buy and the dev auto sell). `Refresh`, `Prime`,
`Others`, `Completed`, `Migrated`, `SetupLands`, `SetupSeen` and `OwnerWraps` are
what changes meanwhile. A buy asks for one unit of the quote; how much that brings
is the business of `Trades`. Accounts that matter are the token account, the shared
WSOL account, the USD1 account and the temporary one that an instruction sequence
opens and closes.

### LaunchBuild

From a form to submissions: `Validate` (`normalize_raw_config`), `PlanTransport`,
`ResolveFees` (what is left to the engine, from the market, within a maximum split
between price and tip; a blank maximum is told from 0), `Guard` (the raise above
same-time buys), one `Compile...` per launchpad (the parts of a launch with price
and tip), then `Simulate` or the submissions by host and daemon in their order. A
leg is one of creation, buys, sells; a transaction keeps its part, price and tip.

### Rounding, CurveQuotes, ClmmQuote, DbcQuotes, Trades

Pure operators for the quotes: Pump's constant product of virtual reserves; Bonk's
constant product, fixed and linear price; the concentrated liquidity route from SOL
to USD1, from tick to tick; Bags' piecewise curve with its fee schedulers and rate
limiter, and its DAMM pool. `None` is the code's error where a subtraction would be
negative. `Trades` is a wallet that buys and sells along the quotes, the pool being
advanced by each trade; for what is compiled before the launch the code advances it
itself. A Pump launch that asks for tokens is quoted with its cost capped at what is
for sale and its tokens not (Pu 1394, 1495-1500): what the program sells then is the
rest or nothing (`ProgramSells`, external), and after a refusal the quotes go on
from a curve that never was (`LaunchRefused`). Two assumptions are checked by TLC for
every market: `QuotesAgree` (the two ways to quote a purchase) and
`LimiterAsDefined` (the closed form of the rate limiter is the sum it stands for).

### Usd1TopUp

`LookUsd`, `ReadUsd`, `ReadSol`, `LoadAndGuess`, `Double`, `Halve`, `Found`,
`AddBuffer`, `Requote`: the search for the least SOL that covers the USD1 a purchase
lacks, on a cached copy of the pool, then quoted on a copy that may be another;
`SwapLands` and `Purchase` on the chain; `PoolMoves`, `CacheExpires` and
`WalletUsed` beside it.

### Instructions and Assemble

An instruction keeps its accounts in order, its signers, the bytes of its data and
the amount that is looked at; a message's size follows from the keys it has, those
it finds in tables and its signatures (`Size`, against `PacketLimit`). `Assemble` is
the split of a Bonk launch, the top-up in front of it or the two taken apart and
combined (`Combine`, `CombineBuy`), the single trades, Pump's launch, setup and
separate tip with its choice of format, and the changes made to what the Bags
service built.

### TxSend and SendContract

One call of a transport: `plan` is its provider, whether the batch is ordered,
independent or gated by confirmations, and how it is confirmed. Requests go to each
endpoint (`Post`, answers, errors after the transaction was taken, resubmission);
the wait goes from a Helius subscription or a websocket to polling and bundle
status, with notifications of signatures or token accounts; the cluster executes,
rolls back, reverts or drops, and others pay into the token accounts that are
watched (`PayIn`). A message on the standard websocket is read as an account's
first, so that of a signature may be swallowed (`Notified`, `NotifiedError`; RPC
1457-1471). `SendContract` is what callers rely on: nothing is handed over after the
answer, "ok" means every transaction was executed or its watched token account paid
into by somebody (`paid`), an error that names a failure on chain names a real one.
`TxSend` implements it with `batch <- Batch, watched <- plan.capture, given <- Given,
executed <- seen, paid <- paid, reverted <- Failed` (`KeepsContract`). `FollowRunner` takes the outcome of a send in
the same three ways.

### Warm and FeeMarket

`Warm`: `WarmControlState` (`warm`), the targets shown as active, the passes of the
loop and of requests (`pass[p]`: count the jobs, claim the flag, probe, finish), the
routes effective by settings, requests and jobs, the gate of the background
requests, and the startup pass. A dropped request leaves the flag; a later pass
finds it stale. Times are abstract ("recent", "fresh").

`FeeMarket`: the one cached entry, the two tasks that refresh half of it each, and a
launch that takes it when its stamp is fresh.

### MC modules

They give constants their values. `MCFollowStore` (store and reports),
`MCFollowReport` (reports under fairness and `FollowTrade`), `MCFollowWaits`
(watchers and offset worker) and `MCCompile` (`Trades`, top-up, building, assembly)
each put together parts that share no state: a behaviour takes the steps of one of
them and the others are over from the start. That changes nothing about the parts
and keeps one question in one run.

## 4. Runs

| Run | Question | Instance | Result |
| --- | --- | --- | --- |
| `rows` | Do actions that share a wallet keep apart, keep their order, and never repeat what may land? | a batch of a dev auto sell and a buy, the buy's autosell at a market cap, one wallet; both cancellations; any one of 11 faults, among them a confirmation by the token account and one without a slot; pre-signed transactions | holds |
| `setup` | Is the order around the deferred setup kept, and the retry budget, and the send slots, and does the setup land once? | a buy with a delay before and a dev auto sell after the setup, one slot, any two of 9 faults | holds |
| `live` | Do jobs and cancelled actions end, unless a confirmation hangs? | a buy and a dev auto sell at a later block with a setup, any one of 7 faults, the cancellation of the job | holds |
| `requests` | Does the table keep its promises under every interleaving of requests? Does a report never go back but in the ways named? | one trace, two connections, two payloads, two launches, one end of the process, one failed write; beside it a report with three callers and three flush tasks, whose writes succeed | holds |
| `launch` | Does a launch leave anything behind, and does it end, unless the wait for its confirmation does not? | one launch, two connections, each kind of fault once, one request of the user | holds |
| `send` | Is the answer of a transport true, does a failure leave a prefix, does the call end, and does it implement the contract? | batches of one and two, two endpoints, every provider and way of confirming, two rounds of polls, payments of others | holds |
| `watch` | Does a wait end only for its reason, and always when the job is cancelled? Is a consumer of the offset worker served? | one waiting action with every combination of triggers, two rounds per watcher, one slot; two consumers, three workers, one block | holds |
| `report` | Is the last state of a job written in the end, unless its own write fails? Does a trade compiled from what was read do what it is for? | two callers (one of them the arm), two flush tasks, the host and another job; trades see below | holds |
| `compile` | Is what is computed before sending right: quotes, the top-up, fees and parts, transactions? | see below | holds |
| `warm` | Are the routes in use probed, and does probing stop? | two routes, three targets, one client, one change of jobs or settings | holds |
| `circle` | each action is recorded (docs/FOLLOW_DAEMON.md:59) | delayed buy, its autosell at offset 0, a setup | violated |
| `fees` | no stale fee recommendations (docs/EXECUTION_DOS_AND_DONTS.md:668) | two refreshers and a launch over four ticks, age limit one | violated |

The type invariants (`TypeOK`, `FlowTypeOK`, `SendTypeOK` and so on) say what values
the variables take; they hold on the same instances and take no place in the runs.
What each property says is in the comment above it; which code hazard it is for is
listed in PROJECT.json.

`compile` has four parts. *Trades*: 17 small markets (Pump with three fee settings,
Bonk with its three curves, Bags with each fee scheduler before and after the
migration), three trades of up to 12 units, fee base 100, so that each rounding
happens in each direction. *Top-up*: three states of the pool (deep, crossing two
ticks, thin) computed by `ClmmQuote`, two moves of others, four search steps, so
that the search can run out of them. *Building*: every provider, the flags of a
launch, fees given and automatic, maxima of none, too little and enough. *Assembly*:
strings short enough to fit, to need a table and to fit in no single transaction,
against the real limit of 1232 bytes; every format, plan and combination of fees.
The trades in `report`: two of one wallet on Pump, Bonk (SOL and USD1) and Bags,
shares of 50 and 100 percent, two moves of others.

The two violated runs are findings, explained with their lines under `findings` in
PROJECT.json: a delayed buy, its autosell and the setup wait for each other forever;
and a refresh of one half of the fee market makes the other half look fresh.

Why the bounds are enough. Interleavings in the runner are pairwise (two actions on
a lock, an action and the setup, an action and the operator), so two or three
actions of different kinds with one or two faults reach each pair in each stage; a
second fault is needed only for the setup's own retries, hence `setup` has two.
`MaxSetupTries` is the code's own number. In the store every property is about one
trace, and what another trace adds, the count that the capacity check reads, only
turns a reservation away; two connections give every pair of concurrent requests.
The proofs are for any number of traces. In `LaunchFlow` the code makes 5 attempts
to cancel an unknown trace, the model 2: only the first, where the reservation may
come later, and the last differ. Two trades are enough for one to land late between
the reads and the landing of another. In a batch of two, each transaction is the
first or has one before it; two endpoints can disagree. A watcher's rounds count (5
in the code) only to be reached; two give a round that is followed by another and
the last. Two callers of the report give an older and a newer snapshot, with the
host as a third writer; with three, as in `requests`, one takes a task off the
table, one starts the next and one gives it a newer snapshot, so that a task which
was not aborted is overtaken. Two do not reach that: `NeverBack` held on them
without naming it, and the attempt to prove it for any number found it. Other jobs
do not hold the lock of the reports in `requests`, and no write fails there: its own
three tasks already wait for the lock, and `report` has both; the proof of
`NeverBack` has them for any number of callers. Three workers give one that leaves,
one that starts and one more. One client of the warm loop can be dropped and come
back, and the loop is the second pass.

Deadlock is checked where something must always be possible; `Finished`, `Settled`
and `Rest` are the states in which the runner, the daemon and the reports may rest.
It is off in `watch`, `report`, `compile`, `warm` and `fees`, whose behaviours end
when the last wait, caller, trade or tick is over.

### Stated, and not so

Some definitions state what documents or names promise and the code does not do. No
run lists them; each fails when it is added to the configuration that extends its
module (`CapacityHolds` needs a second trace).

| Property | What the code does |
| --- | --- |
| `FollowRunner!FailsOnItsOwn` | a batch waits with its first action only, so that one's failure or cancellation fails the others (docs/FOLLOW_DAEMON.md:59) |
| `FollowRunner!FreshOnlyWhenDead` | after a send without an answer a retry signs anew while the first may land (docs/EXECUTION_DOS_AND_DONTS.md:94) |
| `FollowRunner!RetriesEnd` | the budget counts wallet locks, so the error of a watcher that gave up is retried without end (docs/EXECUTION_DOS_AND_DONTS.md:91) |
| `FollowRunner!CancelEnds` | a retry writes over a cancellation, and the setup then waits forever (docs/USAGE.md:272) |
| `FollowStore!CapacityHolds` | the capacity check and the reservation are two awaits (docs/ENV_REFERENCE.md:127) |
| `LaunchFlow!EndedReleases` | a launch that must be reserved first and gets no answer returns early and takes nothing back (docs/REPORTING.md:36) |
| `FollowReport!FinalKept` | a flush that has read the file before the host's final write writes the initial one back |
| `FollowTrade!NothingToSendIsTrue` | an error of Bags' balance read is taken for an empty wallet |
| `LaunchBuild!HardCap` | the raise above same-time buys compares price and tip with their maxima one by one (docs/CONFIG.md:262) |
| `LaunchBuild!NoneTipless` | a setup that the daemon sends over Jito has no tip, and the fees of a sell after a snipe are never looked at (docs/EXECUTION_DOS_AND_DONTS.md:63) |
| `LaunchBuild!TipIgnored` | the raise gives a creation over standard RPC a tip and the Pump compiler refuses it (docs/ARCHITECTURE.md:164) |
| `Warm!RewarmedAtOnce` | while another pass is in flight, changed routes wait for the next one (docs/CONFIG.md:135) |

Smaller things seen while translating, which no property is about: a Bonk launch
that is combined with its top-up keeps the launch's compute limit alone, a
follow buy adds up both; Pump follow trades refuse the format `v0-alt`; a
transaction of the Bags service with a foreign signature keeps the service's
fees while its record states the configured ones; the record of Pump's separate
tip states a compute limit that its transaction does not set; same-time snipes
are confirmed with the transport of the launch (M 6413), also when they went over
another. An action confirmed by its token account (RPC 2184-2207) need not have
landed: any tokens on the account will do. While such an account is watched, the
standard websocket may swallow the notification of a signature (RPC 1457-1471),
though the code warns that it continues with "exact signature confirmation" (RPC
2147). A report whose write fails is dropped with a line in the log. An action whose
confirmation hangs keeps its wallet's lock and its permit for good. A Pump launch
for more tokens than are for sale is quoted with all of them. The wait for a market
cap reads the channel's last value first, which may be one that an earlier watcher
left there.

## 5. Fairness

`live` and `circle` assume that the executor runs each task that can move (weak
fairness of each task), that a lock and a send slot are handed out in order of
arrival (strong fairness of `Lock`, `AcquireSend`, `SetupAcquire`: tokio's mutex
and semaphore are fair queues), that time passes (`FallsDue`), and that a launch is
confirmed or its watcher gives up. The operator is never obliged to act, and faults
never have to happen. Nor is the wait for the confirmation of an action obliged to
end (`Confirm` has no fairness): on the default Helius path it has no limit (RPC
2263-2348). That of the setup has one (`DEFERRED_SETUP_CONFIRMATION_TIMEOUT_SECS`).
`JobEnds` therefore has four exceptions: a confirmation that hangs, which also keeps
the lock and the permit that others wait for; a watcher that gave up; a setup that
ended unconfirmed; a cancellation. `CancelEndsActions` has the first of them only:
all other waits look at the cancellation.

`launch`: weak fairness of each launch, handler and runner, but not of a launch's
two waits for a confirmation (`Awaits`), so `LaunchEnds` leaves out the launch that
stays in one; a client that hung up is noticed; the daemon is started again after it
ended. The user is not obliged to act. `send`: requests are answered or break, polls
are made, the limits of the websocket (60 s) and of the caller run out; nothing is
assumed of notifications, nor that a transaction lands. `SendEnds` excludes the wait
on `transactionSubscribe` without a limit, which has no end when the transaction is
dropped or was notified before the subscription. `watch`: the looks every 50 ms and
the polls are made, the launch is decided, slots go on; nothing is assumed of the
sockets. `report`: callers, flush tasks and the host run; the lock of the reports
comes free again and again and is a fair queue (strong fairness of a flush task); a
write may fail, and `LastStateReported` leaves out a last state whose own write did.
`OffsetCompletes`: workers poll and some poll succeeds after the block has come.
`warm`: the loop, the copying task and each request run, and every await of theirs
ends by its timeout; operators need not come or go.

Assumptions about what is not in the repository: a handler whose client hung up is
dropped before the last attempt to cancel is made, a second later (`Noticed`); while
the daemon is up, answers can be lost but requests cannot (they go over the loopback
interface); a transaction lands at most once and not after its blockhash expired;
the launchpads' programs take and give what the code expects of them (`FollowTrade`,
`Trades`), except that nothing is assumed of a Pump launch that asks for more tokens
than there are but that it is given no more than those (`ProgramSells`).

## 6. Proofs

Proved with TLAPS, for every value of the constants:

| Theorem | Property |
| --- | --- |
| `FollowRunner_proofs!TypeCorrect` | `TypeOK` of the runner |
| `FollowRunner_proofs!WalletMutexHolds` | `WalletMutex` |
| `FollowRunner_proofs!SendBoundHolds` | `SendBound` |
| `FollowRunner_proofs!NoBlindResendHolds` | `NoBlindResend` |
| `FollowRunner_proofs!SellAfterBuyHolds` | `SellAfterBuy` |
| `FollowRunner_proofs!SendsAfterSetupHolds` | `SendsAfterSetup` |
| `FollowRunner_proofs!AttemptsBoundedHolds` | `AttemptsBounded` |
| `FollowRunner_proofs!NoSendBeginsAfterCancelHolds` | `NoSendBeginsAfterCancel` |
| `FollowRunner_proofs!SetupLandsOnceHolds` | `SetupLandsOnce` |
| `LaunchFlow_proofs!TypeCorrect` | `TypeOK` of the store |
| `LaunchFlow_proofs!AnswersAgreeHolds` | `AnswersAgree` |
| `LaunchFlow_proofs!ArmedIsRunHolds` | `ArmedIsRun` |
| `LaunchFlow_proofs!CancelSettlesHolds` | `CancelSettles` |
| `LaunchFlow_proofs!OnlyClaimRevivesHolds` | `OnlyClaimRevives` |
| `LaunchFlow_proofs!FlowInvHolds` | the invariant `FlowInv`, types included |
| `LaunchFlow_proofs!NoOrphanHolds` | `NoOrphan` |
| `FollowReport_proofs!WatchTypeCorrect` | `WatchTypeOK` |
| `FollowReport_proofs!OnlyByItsTrigger` | `WaitsTruthful` |
| `FollowReport_proofs!ReportInvHolds`, `ReportTypeCorrect` | the invariant `ReportInv`, `ReportTypeOK` |
| `FollowReport_proofs!NeverBackHolds` | `NeverBack` |
| `TxSend_proofs!SendTypeCorrect` | `SendTypeOK` |
| `TxSend_proofs!OkIsTrue` | `OkMeansLanded` |
| `TxSend_proofs!PrefixOnly` | `GateHolds` |
| `TxSend_proofs!ImplementsContract` | `KeepsContract`: `TxSend` implements `SendContract` |
| `Trades_proofs!TradesInvHolds` | the invariant `TradesInv` |
| `Trades_proofs!ReservesHoldHolds` | `ReservesHold` |
| `Trades_proofs!SpendsWithinRequestHolds` | `SpendsWithinRequest` |
| `Trades_proofs!NoProfitOnCurves` | `NoProfitFromRounding`, on Pump, Bonk and DAMM |
| `Trades_proofs!TopUpInvHolds` | the invariant `TopUpInv` of `Usd1TopUp`, types included |
| `Trades_proofs!LandedIsFundedHolds` | `LandedIsFunded` |
| `LaunchBuild_proofs!BuildInvHolds` | the invariant `BuildInv`, types included |
| `LaunchBuild_proofs!FeesInBoundsHolds` | `FeesInBounds` |
| `LaunchBuild_proofs!SetupDeliveredOnceHolds` | `SetupDeliveredOnce` |
| `Assemble_proofs!NeverMissignedHolds` | `NeverMissigned` |
| `Assemble_proofs!FeesOnceHolds` | `FeesOnce` |
| `Assemble_proofs!InstructionsKeptHolds` | `InstructionsKept` |
| `FollowTrade_proofs!TradeInvHolds` | the invariant `TradeInv`, types included |
| `FollowTrade_proofs!RevertsExplainedHolds` | `RevertsExplained` |
| `FollowTrade_proofs!ProceedsArriveHolds` | `ProceedsArrive` |

Assumptions: `ParameterTypes`, `KeysFollowTriggers`, `SellsHaveBuys` and
`SetupIsNoAction` (what `build_action_records` and the trigger keys guarantee
of a job, and that the setup task is told apart from actions); `StoreAssumption`
(a finite set of traces, a positive capacity) and `NoJobAssumption`;
`FlowAssumption`, `WatchAssumption`, `SendAssumption`, `ReportAssumption` and
`TopUpAssumption` (bounds are numbers, at least one try where the code makes one,
markers such as `"none"` are not members of the sets they are told apart from);
`QuoteAssumption` and `MarketAssumption` (reserves and fees are numbers, a fee is
less than the whole, a price and a liquidity are positive, the virtual reserves of
Pump exceed what is for sale, and Bonk's are what `bonk_curve_init_virtuals`
computes without an error); `TradingAssumption` (the launches are of the three
launchpads, and shares are 0 to 100, as `parse_int` bounds them, `config.rs` 1435 and
1544); `LaunchBuildAssumption` (fees and least tips are
numbers, standard RPC has no least tip, and a creation whose fees are given has the
same tip as its transaction: the form has one field for both, `ui_bridge.rs` copies
it. A `rawConfig` posted in place of a form could name two, and is not covered); and
`AssembleAssumption` (a request is of one of the six kinds; fees and the accounts an
instruction takes along are counted in numbers; a launch of Bonk is quoted in SOL or
USD1; a Pump request has one of the four formats of
`NativeTxFormat` and a number of missing accounts, and its bundle that is tipped once
is the one of Hello Moon, `pump_native.rs` 260; what the Bags service returns tips as
it was asked to or not at all: it is asked for the request's tip where there is one,
`bags_native.rs` 4504 and 4613, and a service that tipped another amount is not
covered). TLC evaluates all of them in the runs. `QuotesAgree` and
`LimiterAsDefined` are checks of the quotes and no proof uses them.

*WalletMutex* is not inductive: it says nothing about who holds the lock. The
invariant is `HoldsLock`, a task in `Locked` is the owner of its wallet's lock. Each
way out of `execute_action` goes to a place outside `Locked` and releases; only
`Lock` enters, and only when the lock is free.

*SendBound* follows from `HoldsPermit`: who submits or confirms is in `permits`, and
`permits` is a finite set of at most `SendSlots` members. Three lemmas say when a
step that keeps, drops or takes a permit preserves it.

What a task may do next is stated once: `TaskEffect` says how a step of a task moves
its own action, `TaskOthers` that it moves no other, `AroundCalm` what the operator,
the watchers, the chain, `run_job` and the setup leave alone. The invariants of the
next three paragraphs are shown with these lemmas, and the starts of tasks
(`RunSpawn`, `MarkBatch`, `FailBatch`) by themselves.

*NoBlindResend* needs `AskedInv`. After an unanswered confirmation the verdict is a
failure because the record is `Sent` or ended (`AskedFails`), which no operator
undoes while the confirmation is awaited (`SentStays`). A batch puts its members
back to the loop, so it must not be waiting any more when one of them has sent
(`BatchWaits`), nor may `RunSpawn` come late (`QuietBefore`).

*SellAfterBuy* needs `SellInv`: a record is `Confirmed` only after a landing or
after tokens were seen on its account, and who is past the wait for the buy, *or is
Eligible*, has seen one of the two. The second half is there because `Loop` sends an
Eligible action past all waits. A batch makes actions Eligible without a wait of
their own, and a sell is in none. *SendsAfterSetup* is shown the same way from
`SetupWaits`; here batches do occur, and their members share the trigger of the
first action, which has waited.

*AttemptsBounded* needs `AttemptsInv`: the budget is looked at when the verdict is
found, so the bound it gives is carried through `rearm`, the loop and the waits up
to the lock. The extra attempt of a dev auto sell is `Bonus`, which becomes 1 in the
step that drops the presigned transaction. A batch does not restart anybody who has
tried, because its members have no attempt yet.

*StoreInv* strengthens the store's properties with two facts: a trace that has a
runner has a job that was armed, with a final verdict when it is about to be written
(`RunnerHasJob`), and an arm under way has such a job (`ArmingHasJob`). The first is
needed for `CancelSettles`: the runner may write `Running` over `Cancelled`, and the
property survives because the runner then still exists and its last write is a final
state. The second makes `ArmedIsRun` survive `ArmSpawn` finding a runner that is
leaving: by `RunnerHasJob` its job has ended. `OnlyClaimRevives` uses the same
invariant step by step.

*SetupLandsOnce* follows from `SetupFate`: only the last generation of the setup can
be undecided or have landed, because a new one is signed only after the one before
has failed in a block. Whatever the chain does later with a transaction nobody waits
for any more, it is that generation.

*NoOrphan* needs an invariant of the host and the daemon together, `FlowInv`. A
launch knows things of its job that only stay true because of what the daemon may
do: after a yes to its arm the job has ended or its runner will end it (`Run`);
after a final answer to a cancellation it is marked, or gone with no reservation
that could still store it (`Dead`). `CallsInv` says what a request under way at the
daemon has done so far; `StageInv`, `LineInv` and `OwnLines` that only the requests
of the present stage are on the way, with one exception: a reservation whose task
was aborted may outlive it, but not the last attempt of the cancellation (`Aborted`,
by `Noticed`). `DaemonEffect` then says that whatever the daemon does alone it keeps
these facts (`Carried`), or it ends and has neither jobs nor requests (`CutOff`);
the proofs of `FollowStore` are used for the rest.

*WaitsTruthful* needs that each value in a channel was true when it was published
and still can be relied on (`ChannelsInv`), since a wait that begins later reads it,
and that a wait past its first stage has the confirmation (`PastConfirmInv`).

*OkMeansLanded* and *GateHolds* need `SendInv`: which requests may still be open in
which stage, so that a late answer never falls into another turn (`RequestsInv`);
what a confirmation of the present stage rests on (`ConfInv`); that what is executed
has been seen to be (`ChainInv`), and that a confirmation by the token account has a
transaction seen or a payment by somebody behind it; and what the turns passed have
left behind and the turns to come not begun (`TurnInv`). *KeepsContract* is shown
from it step by step: a step that answers is the contract's answer, a step of the
cluster is its execution or revert, every other is a stutter.

*LandedIsFunded* needs `TopUpInv`. That the purchase is funded rests on the second
quote alone, since the copy of the pool it is made with may be another one than that
of the search (`CoverInv`); that the SOL which must remain does so rests on the
search never leaving what may be spent (`SearchInv`), for which its lower end must
be positive. The pool is any function of the SOL put in: that `ClmmQuote` is one is
checked on the instances.

*NeverBack* needs that the versions on their way are ordered: what is pending is not
older than what any task has taken, which is not older than what the report or the
host has (`NewerInv`), and a task that was not aborted has nothing older than the
one before it at the lock (`OrderInv`). Without the last the invariant is not
inductive, and with it the step of `ReadReport` failed: that is how the overtaken
task was found, which needs three callers and no test would meet. It is a seventh
thing that can happen to a snapshot, so the model names it in `lost`. The invariants
hold as long as none of the ways named in `NeverBack` was taken (`Clean`); the
types, the count of versions (`CountInv`) and what is untouched before the arm
(`PathInv`) always.

*NoProfitFromRounding* and *ReservesHold* are not inductive: they say nothing of
what a curve has been paid for what it gave. `TradesInv` says it for each kind of
market (`PumpInv`, `BonkInv`, `DammInv`): what is in the pool was paid and not taken
out; the tokens held are those that left; and the product of the reserves has not
fallen, or, on Bonk's fixed price, the pool holds what the tokens cost, or, on DAMM,
the price is at least where the tokens held have brought it. Since nobody sells what
he does not hold, the pool then always covers what it pays. On Pump there are two
cases: what was sold is what was paid for (`PumpKept`), or the launch was refused,
nobody holds anything, and the pool is one the code made up (`PumpRefused`). The
sections of `Trades_proofs` show in turn what the divisions leave (`Quotient`,
`CeilQuotient`), what each quote takes and gives at most, and that a trade keeps the
invariant. `LastTokensCost` is the one that a reader might doubt: what ends a curve
of Bonk costs no more than an amount that would have bought more than there is, also
on the linear curve, where one direction rounds a root to the nearest and the other
a square up. Two facts need induction: that a root exists (`SqrtExists`), and that
the recursion of `PowQ` defines numbers (`PowExists`, `PowTyped`). The induction
theorems of the library take an operator, so `SetInduction` states induction for a
set of numbers, from the existence of a least element.

*FeesInBounds* and *SetupDeliveredOnce* need `BuildInv`, which has three parts.
`ConfigInv` follows the fees through the stages: a leg with given fees pays before
the market's are resolved (`GivenInv`), every leg pays after (`PricedInv`), and the
raise above same-time buys only adds. It starts from the tip of the *leg* and writes
the *transaction*, which is why the two must be the same until then (`SameTipInv`):
without it a raise could lower the tip of the transaction below the least one.
`ResolvedLeg` and `TipBudgetFits` show that the tenths into which a maximum is split
leave each part enough. `BuiltOK` says what each compiler leaves in its lists, and
`SentOK` that each submission pays (`SentPays`) and whether the follow-up is on its
way (`Delivered`): in the bundle of the launch, in the simulation, or once the
deferred setup is submitted. `AllPay` reduces what four transports ask of a list of
transactions to the fees of one leg.

*NeverMissigned* relates two things that are computed apart: the keys a compiler has
come from its request, the keys a message asks for from its instructions. Lemmas
follow who signs a list through settings, marks, joining, reading back, filtering
and renaming (`SettingsSame`, `DecompiledIs`, `TakenList`, `RewrittenIs`), and a
lemma each says who signs the lists of a launchpad. A group of a split launch needs
the mint's key only if the instruction that makes the mint is in it, which
`KeysNeeded` decides (`GroupSigned`). A combination offers the mint's key always, so
it needs the invariant `SignInv`: wherever the instructions of a launch are while it
is split, that instruction is among them, so that a launch of one group has it, and
what is read back and kept of it is still signed by the mint (`MintKept`). `Taken`,
which the filters use, is a recursive function; that it exists needs induction
(`TakingExists`), for which `SetInduction` is stated here again.

*FeesOnce* goes the same way with another question, what a list sets and pays.
`Plain` lists (those of a launchpad) set no fee; settings, atomic settings and what
is made of a Bags transaction set each at most once (`SettingsOnce`, `AtomicOnce`,
`RebuiltOnce`). It is not inductive. A combination reads back two transactions that
have fees of their own and puts new ones around the rest, so `Sources` keeps that
these are `Sealed`: every instruction is plain, of the compute budget, or the very
transfer that `filter_atomic_bonk_instructions` looks for. A tip of any other amount
would stay and be paid with the new one. The same comparison is made in
`is_inline_tip_instruction`, which is why the tip of the Bags service has to be the
one it was asked for. That a bundle's one tip is in its last transaction needs
`BundleInv`: before the end of a launch, which of its transactions has the tip so
far and which has none yet, so that a top-up put in front, a combination and a setup
behind leave it last and alone.

*InstructionsKept* goes this way a third time. A list *conveys* what is asked for if
its instructions that are no fees, without the mark against sandwiches, tell the
programs the same one by one (`Conveys`), and each pass over a list keeps that:
settings, marks, reading back, filtering, rebuilding, and renaming, after which
another temporary account is told in place of the first. What is asked for is a
proper list on every launchpad (`Proper`): a fee in it would be filtered, a mark
dropped. The invariant `KeptInv` says where the whole request is in each stage:
while a launch is split, the groups, the queue and the rest joined are the launch
(`Joined`); then all transactions together send it (`Sends`), with a top-up, a setup
or the next transaction of the Bags service in front or behind. A top-up and an
action that are combined must each convey their own part (`TopUpKept`,
`ActionKept`), and no key but those of the owner, the mint and the temporary account
may be asked for by them: otherwise another account would be renamed. `Taken` and
`FlattenSeq` are recursive functions, so that what they do to a list that grows by
one is shown from their definitions (`TakenAppend`, `FlatAppend`), and from it, by
`SetInduction`, what they do to joined lists and to lists of one length
(`Together`).

*RevertsExplained* and *ProceedsArrive* are about what a transaction does later to
what was read before. `TradeInv` relates the two through `clean`, which falls when
anything of the market or the wallet changes: as long as it holds, what a trade has
read so far, a kept copy, and the balance a buy was confirmed with are what would be
read now (`UpToDate`, `CopiesOK`). Which reads are over is what `Ahead` has left of
the stages; without `Done` the invariant is not inductive, since a Bags trade turns
to the migrated pool in the middle of its stages. What is spoiled claims nothing,
and *ProceedsArrive* holds for it all the same, because it rests only on the shape
of the instructions. What these do to a wallet is shown one launchpad at a time: a
wallet that offers what an instruction needs is brought to one that offers what the
next one needs, and a transaction run from a wallet that is `Ready` does not fail
(`PumpLands`, `BonkSolLands`, `BonkUsd1Lands`, `BagsLands`). `After` is a recursive
function of the position, so that `IsRun` can say of any function that it is the run
of a transaction; that there is one needs induction, by `SetInduction` once more.
The proof found that two guards of the CASE in `Step` could hold at once, a wallet
in which an instruction has failed and the kind of the next one. TLC takes the first
of them, but the definition did not say so; now it does.

Only model-checked: `LastStateReported`, `OffsetCompletes` and all other liveness,
which needs fairness and is beyond the prover; `NoProfitFromRounding` on the pieces
of a DBC curve, which needs the area under them; and `FitsIfItCan` of `Assemble`,
which compares sizes that are sums over a transaction, and the smallest of several,
found by a fold. Of a buy or a sell in the legacy format nothing checks the size:
that it fits depends on what its instructions measure against `PacketLimit`, and not
on the program.

## 7. Not modelled, and why

Components:

* **Runtime worker registry** (`runtime.rs`): workers are started, stopped and
  reported over HTTP by an external caller; nothing of the launch or follow path
  reads the registry.
* **Helper worker** (`helper_worker.rs`) and the JavaScript compilers it would
  run: nothing calls them any more.
* **Reports** (`report.rs`, `reports_browser.rs`): text from records. What is
  written when is in `FollowReport`.
* **Settings and UI bridge, vamp import, wallets, image library, logs and paths,
  command lines, web UI, scripts**: forms, files and single requests without
  concurrency of their own.

Inside the modelled parts:

* Two triggers in one action are modelled in `FollowWatch`; `FollowRunner` takes
  its waits one at a time.
* Compile slots as a resource: waiting for one in vain is one of the retryable
  compile faults. They are released before the send and bound nothing else.
* Caches and timings that only make a compilation or a send faster: prefetched
  blockhashes, block heights, sampled slots, the preparation an arm starts beside
  itself, the warm-up of compilers.
* Endpoints, regions, tip accounts, names and addresses; the bytes of
  instructions and the decoding of accounts; which of several pools is chosen;
  what a simulation or a priority fee estimate contains.
* The remote Bags service and what it proposes, except that it may propose it.
* Building and sending are outcomes in `LaunchFlow`; that they have no others is
  what `LaunchBuild`, `Assemble` and `TxSend` are for, but the three are not
  composed: each has the caller's inputs as constants.
* `recover_jobs_for_restart`, which nothing calls.
