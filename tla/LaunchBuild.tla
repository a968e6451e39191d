---------------------------- MODULE LaunchBuild -----------------------------
(***************************************************************************)
(* From a form to transactions, src/rust/launchdeck-engine/src: the        *)
(* configuration is checked (config.rs), the transport planned             *)
(* (transport.rs), fees left to the engine are resolved from the market    *)
(* and raised above those of same-time buys (main.rs), the launchpad's     *)
(* compiler writes price and tip into each transaction (pump_native.rs,    *)
(* bonk_native.rs, bags_native.rs), and host and daemon submit them, each  *)
(* over the transport of its leg.                                          *)
(*                                                                         *)
(* A leg is one of creation, buys and sells, with its provider and fees in *)
(* units of lamports; a blank field is 0, but for the maximum of the fees, *)
(* of which a 0 means something else than a blank.  A transaction keeps    *)
(* what the transports look at: its part, its priority price and its tip.  *)
(* Whether it lands is the business of TxSend and FollowRunner.            *)
(***************************************************************************)
EXTENDS Rounding, Sequences, FiniteSets

CONSTANTS
    Configs,            \* the configurations a form can give
    Estimates,          \* [priority, tip] of the fee market, 0 where none is known
    MinTip,             \* provider_required_tip_lamports, 0 where there is none
    SetupTip            \* tip the Bags service proposes for its setup

Providers == {"standard-rpc", "helius-sender", "hellomoon", "jito-bundle"}

AgentModes == {"agent-custom", "agent-unlocked", "agent-locked"}

Blank == -1

\* What the fees of one leg are asked to be and where they go.
LegType ==
    [provider : Providers, secure : BOOLEAN, auto : BOOLEAN, price : Nat, tip : Nat,
     max : Nat \union {Blank}, maxTip : Nat]

\* The normalized configuration, as far as fees and the parts of a launch
\* depend on it.  "bonkers" of Bonk is a regular mode, "bags" the three of Bags.
ConfigType ==
    [action : {"build", "simulate", "send"}, launchpad : {"pump", "bonk", "bagsapp"},
     mode : {"regular", "cashback", "bags"} \union AgentModes,
     laterSetup : BOOLEAN, recipients : BOOLEAN, splitAgentInit : BOOLEAN,
     agentRecipients : BOOLEAN, buyback : BOOLEAN, deployerFee : BOOLEAN,
     creation : LegType, buy : LegType, sell : LegType,
     tx : [price : Nat, tip : Nat, account : BOOLEAN],
     snipes : {"none", "delayed", "same-time", "retried"}, devSell : BOOLEAN, snipeSell : BOOLEAN]

\* A form names the tip of the creation once: ui_bridge.rs:1031 and :1483 copy
\* it into the transaction and the leg.
ASSUME LaunchBuildAssumption ==
    /\ MinTip \in [Providers -> Nat] /\ SetupTip \in Nat
    /\ MinTip["standard-rpc"] = 0
    /\ \A e \in Estimates : e.priority \in Nat /\ e.tip \in Nat
    /\ \A c \in Configs : c \in ConfigType /\ (~c.creation.auto => c.tx.tip = c.creation.tip)

VARIABLES
    stage,
    config,             \* NormalizedConfig
    plan,               \* TransportPlan of the creation
    built,              \* [creation, compiled, deferred, setup]: lists of transactions
    sent                \* submissions so far, in order

buildVars == <<stage, config, plan, built, sent>>

Nothing == [creation |-> <<>>, compiled |-> <<>>, deferred |-> <<>>, setup |-> <<>>]

NoPlan == [transport |-> "none", class |-> "none", inlineTip |-> FALSE, separateTip |-> FALSE]

BuildInit ==
    /\ config \in Configs
    /\ stage = "form" /\ plan = NoPlan /\ built = Nothing /\ sent = <<>>

-----------------------------------------------------------------------------
(* The configuration *)

RequiresTipAndPriority(provider) == provider # "standard-rpc"

\* The agent's data that the mode has no use for.
Normalized(c) ==
    [c EXCEPT !.agentRecipients = @ /\ c.mode \notin {"regular", "cashback", "agent-unlocked",
                                                      "agent-locked"},
              !.splitAgentInit = @ /\ c.mode \notin {"regular", "cashback"}]

ModeAgrees(c) ==
    /\ c.mode \in AgentModes => c.buyback
    /\ c.laterSetup => c.mode = "regular" /\ c.deployerFee /\ c.recipients
    /\ c.launchpad = "bonk" => c.mode = "regular" /\ ~c.laterSetup /\ ~c.recipients
    /\ c.launchpad = "bagsapp" => c.mode = "bags" /\ c.deployerFee
    /\ c.launchpad = "pump" => c.mode # "bags"

CreationFeesAgree(c) ==
    /\ c.tx.tip > 0 => c.tx.account
    /\ RequiresTipAndPriority(c.creation.provider)
        => c.tx.price > 0 /\ c.tx.tip >= MinTip[c.creation.provider]

ManualFeesAgree(leg) ==
    ~leg.auto /\ RequiresTipAndPriority(leg.provider)
        => leg.price > 0 /\ leg.tip >= MinTip[leg.provider]

\* Only sells of the creator are looked at, not those after a snipe.
Accepts(c) ==
    /\ ModeAgrees(c) /\ CreationFeesAgree(c)
    /\ c.snipes # "none" => ManualFeesAgree(c.buy)
    /\ c.devSell => ManualFeesAgree(c.sell)

HasFollowUp(c) ==
    \/ c.mode \in {"regular", "cashback"} /\ c.laterSetup /\ c.recipients
    \/ c.mode = "agent-custom" /\ c.splitAgentInit /\ c.agentRecipients
    \/ c.mode = "agent-locked"

Validate ==
    /\ stage = "form"
    /\ config' = Normalized(config)
    /\ stage' = IF Accepts(config') THEN "valid" ELSE "refused"
    /\ UNCHANGED <<plan, built, sent>>

-----------------------------------------------------------------------------
(* The transport *)

Secure(leg) == leg.provider = "hellomoon" /\ leg.secure

Transport(leg) ==
    CASE leg.provider = "standard-rpc" -> "standard-rpc-fanout"
      [] leg.provider = "hellomoon" -> IF leg.secure THEN "hellomoon-bundle" ELSE "hellomoon-quic"
      [] OTHER -> leg.provider

Class(leg, count) ==
    IF leg.provider = "jito-bundle" \/ Secure(leg) THEN "bundle"
    ELSE IF count <= 1 THEN "single" ELSE "sequential"

EstimatedCount(c) ==
    1 + (IF HasFollowUp(c) THEN 1 ELSE 0)
      + (IF c.creation.provider = "jito-bundle" /\ c.tx.tip > 0 THEN 1 ELSE 0)

PlanOf(leg, count) ==
    LET transport == Transport(leg)
    IN  [transport |-> transport, class |-> Class(leg, count),
         inlineTip |-> transport \in {"helius-sender", "hellomoon-quic", "hellomoon-bundle"},
         separateTip |-> transport = "jito-bundle"]

PlanTransport ==
    /\ stage = "valid"
    /\ plan' = PlanOf(config.creation, EstimatedCount(config))
    /\ stage' = "planned"
    /\ UNCHANGED <<config, built, sent>>

-----------------------------------------------------------------------------
(* Fees left to the engine *)

UsesPriority(leg, action) ==
    ~(leg.provider = "jito-bundle" /\ action = "creation" /\ plan.class = "bundle")

UsesTip(leg) == leg.provider # "standard-rpc"

\* The maximum for priority and tip together, 0 for none.  The units of the
\* price are lamports too: the base limit of a transaction is 1,000,000 compute
\* units, so price in micro-lamports and fee in lamports are one number.
CapOf(leg) == IF leg.max # Blank THEN leg.max ELSE leg.maxTip

CapTooLow(leg, action) ==
    /\ UsesTip(leg) /\ CapOf(leg) > 0
    /\ IF UsesPriority(leg, action) THEN CapOf(leg) <= MinTip[leg.provider]
                                    ELSE CapOf(leg) < MinTip[leg.provider]

Capped(n, cap) == IF cap = 0 THEN n ELSE Least(n, cap)

\* Mutant of TipBudget: the least tip is forgotten.
TipBudgetRatio(cap, minimum) == Least((cap * 7) \div 10, cap - 1)

\* Seven tenths of the maximum are the tip's, at least its minimum; what one
\* of the two leaves the other may use.
TipBudget(cap, minimum) == Least(Most((cap * 7) \div 10, minimum), cap - 1)

Shared(price, tip, cap, minimum) ==
    LET tipBudget == TipBudget(cap, minimum)
        p == Least(price, cap - tipBudget)
        t == Least(tip, tipBudget)
        left == cap - p - t
    IN  IF price + tip <= cap THEN [price |-> price, tip |-> tip]
        ELSE IF t < tipBudget THEN [price |-> p + Least(price - p, left), tip |-> t]
        ELSE IF p < cap - tipBudget THEN [price |-> p, tip |-> t + Least(tip - t, left)]
        ELSE [price |-> p, tip |-> t]

\* resolve_auto_fee_components_with_total_cap
Components(leg, action, e) ==
    LET cap == CapOf(leg)
        minimum == MinTip[leg.provider]
        price == Most(e.priority, 1)
    IN  CASE ~UsesTip(leg) -> [price |-> Capped(price, cap), tip |-> 0]
          [] ~UsesPriority(leg, action)
                -> [price |-> 0, tip |-> Most(Capped(e.tip, cap), minimum)]
          [] OTHER -> IF cap = 0 THEN [price |-> price, tip |-> Most(e.tip, minimum)]
                      ELSE Shared(price, Most(e.tip, minimum), cap, minimum)

Resolvable(leg, action, e) ==
    /\ UsesPriority(leg, action) => e.priority > 0
    /\ UsesTip(leg) => e.tip > 0
    /\ ~CapTooLow(leg, action)

Resolved(leg, action, e) ==
    IF ~leg.auto THEN leg
    ELSE LET fees == Components(leg, action, e)
         IN  [leg EXCEPT !.price = fees.price, !.tip = fees.tip]

\* The estimates of the three legs may differ.
ResolveFees ==
    /\ stage = "planned"
    /\ \E e \in [{"creation", "buy", "sell"} -> Estimates] :
        /\ \A a \in DOMAIN e : config[a].auto => Resolvable(config[a], a, e[a])
        /\ LET creation == Resolved(config.creation, "creation", e.creation)
           IN  config' = [config EXCEPT
                    !.creation = creation,
                    !.buy = Resolved(@, "buy", e.buy),
                    !.sell = Resolved(@, "sell", e.sell),
                    !.tx = IF creation.auto
                           THEN [price |-> creation.price, tip |-> creation.tip,
                                 account |-> UsesTip(creation)]
                           ELSE @]
    /\ stage' = "priced"
    /\ UNCHANGED <<plan, built, sent>>

\* No snapshot of the market, no estimate where one is needed, or a maximum
\* that does not leave room for the least tip.
FeesRefused ==
    /\ stage = "planned"
    /\ \E a \in {"creation", "buy", "sell"} : config[a].auto
    /\ stage' = "refused"
    /\ UNCHANGED <<config, plan, built, sent>>

-----------------------------------------------------------------------------
(* The launch is to outbid buys that are sent with it *)

SameTime(c) == c.snipes \in {"same-time", "retried"}

Raised(own, others) == IF own <= others THEN others + 1 ELSE own

\* The two maxima are compared and overwritten one by one.
RaiseRefused(c) ==
    /\ c.creation.auto
    /\ \/ /\ c.creation.price <= c.buy.price
          /\ c.creation.max > 0 /\ c.buy.price + 1 > c.creation.max
       \/ /\ c.creation.tip <= c.buy.tip
          /\ c.creation.maxTip > 0 /\ c.buy.tip + 1 > c.creation.maxTip

RaisedAbove(c) ==
    LET price == Raised(c.creation.price, c.buy.price)
        tip == Raised(c.creation.tip, c.buy.tip)
    IN  [c EXCEPT !.creation.price = price, !.creation.tip = tip,
                  !.creation.max = IF price # c.creation.price THEN price ELSE @,
                  !.creation.maxTip = IF tip # c.creation.tip THEN tip ELSE @,
                  !.tx.price = IF price # c.creation.price THEN price ELSE @,
                  !.tx.tip = IF tip # c.creation.tip THEN tip ELSE @]

Guard ==
    /\ stage = "priced"
    /\ IF ~SameTime(config) THEN stage' = "guarded" /\ UNCHANGED config
       ELSE IF RaiseRefused(config) THEN stage' = "refused" /\ UNCHANGED config
       ELSE stage' = "guarded" /\ config' = RaisedAbove(config)
    /\ UNCHANGED <<plan, built, sent>>

-----------------------------------------------------------------------------
(* Compilation *)

Tx(part, price, tip) == [part |-> part, price |-> price, tip |-> tip]

\* What the launchpad's compiler made is taken over, or its error answered.
Compiled(next, made) ==
    /\ stage = "guarded" /\ config.action # "build"
    /\ stage' = next /\ built' = made
    /\ UNCHANGED <<config, plan, sent>>

\* Pump: a tip on Jito is a transaction of its own, in a Hello Moon bundle the
\* last transaction has it; on Jito the price is dropped beside a follow-up.
SeparateTip == plan.separateTip /\ config.tx.tip > 0

PumpLaunch ==
    Tx("launch",
       IF plan.transport = "jito-bundle" /\ HasFollowUp(config) THEN 0 ELSE config.tx.price,
       IF SeparateTip \/ (plan.transport = "hellomoon-bundle" /\ HasFollowUp(config))
       THEN 0 ELSE config.tx.tip)

PumpFollowUp ==
    IF ~HasFollowUp(config) THEN <<>>
    ELSE <<Tx("follow-up",
              IF plan.transport = "jito-bundle" THEN 0 ELSE config.tx.price,
              IF plan.inlineTip THEN config.tx.tip ELSE 0)>>

PumpTip == IF SeparateTip THEN <<Tx("jito-tip", 0, config.tx.tip)>> ELSE <<>>

CompilePump ==
    /\ config.launchpad = "pump"
    /\ IF config.tx.tip > 0 /\ ~config.tx.account
       THEN Compiled("refused", built)
       ELSE Compiled("compiled", [Nothing EXCEPT
                !.creation = <<PumpLaunch>> \o PumpTip,
                !.compiled = <<PumpLaunch>> \o PumpFollowUp \o PumpTip,
                !.deferred = PumpFollowUp])

\* Bonk: all parts tip, but only the last in a Hello Moon bundle.
BonkParts(parts) ==
    [i \in DOMAIN parts |->
        Tx(parts[i], config.tx.price,
           IF Secure(config.creation) /\ i # Len(parts) THEN 0 ELSE config.tx.tip)]

\* One or two parts of the launch, with the USD1 top-up before or within them.
CompileBonk ==
    /\ config.launchpad = "bonk"
    /\ \E parts \in {<<"launch">>, <<"topup", "launch">>, <<"launch", "launch-2">>,
                     <<"topup", "launch", "launch-2">>} :
        Compiled("compiled", [Nothing EXCEPT !.creation = BonkParts(parts),
                                             !.compiled = BonkParts(parts)])

\* Bags: only the setup, as the service wants it; the launch comes later.
BagsSetupTip == Most(SetupTip, Most(config.tx.tip, MinTip[config.creation.provider]))

CompileBags ==
    /\ config.launchpad = "bagsapp"
    /\ \E bundled, direct \in 0..1 :
        LET bundle == [i \in 1..bundled |->
                        Tx("setup", config.tx.price,
                           IF Secure(config.creation) THEN 0 ELSE BagsSetupTip)]
            setup == bundle \o [i \in 1..direct |->
                        Tx("setup", config.tx.price, BagsSetupTip)]
        IN  Compiled("compiled", [Nothing EXCEPT !.setup = setup, !.compiled = setup])

BagsLaunch == <<Tx("launch", config.tx.price, config.tx.tip)>>

-----------------------------------------------------------------------------
(* Submission *)

\* What the transports of rpc.rs refuse.
Pays(t, provider) == t.tip >= MinTip[provider] /\ t.price > 0

Takes(transport, txs) ==
    CASE transport = "helius-sender"
            -> \A i \in DOMAIN txs : Pays(txs[i], "helius-sender")
      [] transport = "hellomoon-quic" -> \A i \in DOMAIN txs : Pays(txs[i], "hellomoon")
      [] transport = "hellomoon-bundle"
            -> /\ \A i \in DOMAIN txs : txs[i].price > 0
               /\ \E i \in DOMAIN txs : txs[i].tip >= MinTip["hellomoon"]
      [] OTHER -> TRUE

Submission(by, what, transport, txs) ==
    [by |-> by, what |-> what, transport |-> transport, txs |-> txs]

Submit(s, next) ==
    /\ config.action = "send"
    /\ sent' = Append(sent, s)
    /\ stage' = IF Takes(s.transport, s.txs) THEN next ELSE "failed"

\* Mutant of DeferredSetup: the daemon gets it whatever the transport.
DeferredAlways == built.deferred

\* In a Hello Moon bundle the follow-up goes with the launch.
DeferredSetup == IF plan.transport = "hellomoon-bundle" THEN <<>> ELSE built.deferred

\* Bags: the host sends the same-time buys, and leaves a retry to the daemon.
BuysLeft(c) ==
    IF c.launchpad = "bagsapp" THEN c.snipes \in {"delayed", "retried"} ELSE c.snipes # "none"

\* Whether the daemon has a job of this launch.
Reserved == BuysLeft(config) \/ config.devSell \/ DeferredSetup # <<>>

\* The setup of Bags, one transaction after the other and over RPC whatever
\* the provider, each confirmed before the next.
SubmitSetup ==
    /\ stage = "compiled" /\ built.setup # <<>>
    /\ Submit(Submission("host", "setup", "standard-rpc-fanout", built.setup), "set up")
    /\ UNCHANGED <<config, plan, built>>

CompileBagsLaunch ==
    /\ stage = "set up"
    /\ built' = [built EXCEPT !.compiled = BagsLaunch]
    /\ stage' = "launchable"
    /\ UNCHANGED <<config, plan, sent>>

\* Without a setup there is no launch of Bags and nothing to submit.
NoLaunch ==
    /\ stage = "compiled" /\ config.action = "send"
    /\ config.launchpad = "bagsapp" /\ built.setup = <<>>
    /\ stage' = "failed"
    /\ UNCHANGED <<config, plan, built, sent>>

LaunchTxs ==
    IF config.launchpad = "bagsapp" \/ plan.transport = "hellomoon-bundle"
    THEN built.compiled ELSE built.creation

SubmitLaunch ==
    /\ \/ stage = "compiled" /\ config.launchpad # "bagsapp"
       \/ stage = "launchable"
    /\ Submit(Submission("host", "launch", plan.transport, LaunchTxs), "launched")
    /\ UNCHANGED <<config, plan, built>>

Done(what) == \E i \in DOMAIN sent : sent[i].what = what

\* The compilers refuse a buy or sell over Hello Moon whose tip is too small,
\* and leave the tip out where its provider has none.
FollowCompiles(leg) == leg.provider = "hellomoon" => leg.tip >= MinTip["hellomoon"]

FollowTx(part, leg) ==
    <<Tx(part, leg.price, IF leg.provider = "standard-rpc" THEN 0 ELSE leg.tip)>>

\* compile_same_time_snipes: one stands for all, which are compiled at once,
\* and dropped when one of them is refused.
SameTimeTxs == FollowTx("buy", config.buy)

\* Bags: compiled when the launch is confirmed, refused or not.
SubmitSameTime ==
    /\ stage = "launched" /\ config.launchpad = "bagsapp"
    /\ SameTime(config) /\ ~Done("same-time") /\ FollowCompiles(config.buy)
    /\ sent' = Append(sent, Submission("host", "same-time", Transport(config.buy), SameTimeTxs))
    /\ UNCHANGED <<stage, config, plan, built>>

\* The daemon's submissions; a refused one ends its action, not the job.
Follow(what, transport, txs) ==
    /\ stage = "launched" /\ Reserved /\ ~Done(what)
    /\ sent' = Append(sent, Submission("daemon", what, transport, txs))
    /\ UNCHANGED <<stage, config, plan, built>>

SubmitDeferred ==
    /\ DeferredSetup # <<>>
    /\ Follow("deferred", plan.transport, DeferredSetup)

SubmitBuy ==
    /\ BuysLeft(config) /\ FollowCompiles(config.buy)
    /\ Follow("buy", Transport(config.buy), FollowTx("buy", config.buy))

SubmitDevSell ==
    /\ config.devSell /\ FollowCompiles(config.sell)
    /\ Follow("dev-sell", Transport(config.sell), FollowTx("sell", config.sell))

SubmitSnipeSell ==
    /\ config.snipeSell /\ BuysLeft(config) /\ Done("buy") /\ FollowCompiles(config.sell)
    /\ Follow("snipe-sell", Transport(config.sell), FollowTx("sell", config.sell))

\* The action "build" ends with a report of the plan and the fees, which may
\* fail to be written.
Report ==
    /\ stage = "guarded" /\ config.action = "build"
    /\ stage' \in {"reported", "failed"}
    /\ UNCHANGED <<config, plan, built, sent>>

\* A launch of Bags is simulated with its setup, which has not been sent.
Simulated ==
    built.compiled \o (IF built.setup # <<>> THEN BagsLaunch ELSE <<>>)

\* The action "simulate" asks the RPC for the outcome of each transaction.
Simulate ==
    /\ stage = "compiled" /\ config.action = "simulate"
    /\ \/ /\ sent' = <<Submission("host", "simulation", "simulate", Simulated)>>
          /\ stage' = "simulated"
       \/ stage' = "failed" /\ UNCHANGED sent
    /\ UNCHANGED <<config, plan, built>>

BuildNext ==
    \/ Validate \/ PlanTransport \/ ResolveFees \/ FeesRefused \/ Guard
    \/ CompilePump \/ CompileBonk \/ CompileBags \/ Report \/ Simulate
    \/ SubmitSetup \/ CompileBagsLaunch \/ NoLaunch \/ SubmitLaunch \/ SubmitSameTime
    \/ SubmitDeferred \/ SubmitBuy \/ SubmitDevSell \/ SubmitSnipeSell

BuildSpec == BuildInit /\ [][BuildNext]_buildVars

-----------------------------------------------------------------------------
(* Properties *)

Legs == {"creation", "buy", "sell"}

\* What is submitted pays what its transport asks for, bundles of Jito (which
\* nobody checks) included, through maxima and minima, the resolution of some
\* legs and not of others, and the raise above same-time buys.  The deferred
\* setup on Jito and the sell after a snipe are left out: see below.
PaysEnough(s) ==
    /\ Takes(s.transport, s.txs)
    /\ s.transport = "jito-bundle"
        => \E i \in DOMAIN s.txs : s.txs[i].tip >= MinTip["jito-bundle"]

\* And a leg left to the engine costs at most its maximum, unless the launch
\* had to outbid its own buys.
PaysNoMore ==
    \A a \in Legs :
        /\ config[a].auto /\ CapOf(config[a]) > 0
        /\ stage \notin {"form", "valid", "planned", "refused"}
        /\ ~(SameTime(config) /\ a = "creation" /\ stage # "priced")
        => config[a].price + config[a].tip <= CapOf(config[a])

\* Fees stay between what the transports ask for and what the user allows
\* (main.rs:2948, rpc.rs:3543), whatever the market says.
FeesInBounds ==
    /\ PaysNoMore
    /\ \A i \in DOMAIN sent :
        ~(sent[i].what = "deferred" /\ sent[i].transport = "jito-bundle")
        /\ sent[i].what # "snipe-sell" => PaysEnough(sent[i])

\* Where the follow-up is in a list of submissions.
FollowUpsIn(list) ==
    UNION {{i} \X {j \in DOMAIN list[i].txs : list[i].txs[j].part = "follow-up"} :
            i \in DOMAIN list}

\* Submissions of the follow-up so far, plus the one the daemon will make.
FollowUps ==
    Cardinality(FollowUpsIn(sent))
    + (IF config.action = "send" /\ Reserved /\ DeferredSetup # <<>> /\ ~Done("deferred")
       THEN 1 ELSE 0)

\* A launch that needs a second transaction gets it once: in the bundle of the
\* launch or from the daemon, never from both, and not without a job to send
\* it (main.rs:5338, :5718); a launch without one never gets it.  A
\* simulation has it once too.
SetupDeliveredOnce ==
    stage \in {"launched", "simulated"} => FollowUps = IF HasFollowUp(config) THEN 1 ELSE 0

-----------------------------------------------------------------------------
(* Said of the program, and not so: no run lists these *)

\* "use a Max Auto Fee in the UI if you want a hard cost cap"
\* (docs/CONFIG.md:262): the raise above same-time buys compares price and tip
\* with their maxima one by one, and the two may pass the maximum of both.
HardCap ==
    [][stage = "priced" /\ stage' = "guarded" /\ config.creation.auto
        /\ CapOf(config.creation) > 0 /\ UsesTip(config.creation)
       => config'.creation.price + config'.creation.tip <= CapOf(config.creation)]_buildVars

\* "Do not let the app emit transactions with missing tip or missing priority
\* fee when the selected provider requires them"
\* (docs/EXECUTION_DOS_AND_DONTS.md:63): a setup that the daemon sends over
\* Jito has neither, and the fees of a sell after a snipe are never looked at.
NoneTipless == \A i \in DOMAIN sent : PaysEnough(sent[i])

\* "`standard-rpc` ignores tip" (docs/ARCHITECTURE.md:164): the raise gives a
\* creation over standard RPC a tip of one unit and no account for it, and the
\* Pump compiler refuses the launch.
TipIgnored ==
    [][stage = "guarded" /\ plan.transport = "standard-rpc-fanout"
       => stage' = "compiled"]_buildVars
=============================================================================
