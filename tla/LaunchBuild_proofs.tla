------------------------- MODULE LaunchBuild_proofs -------------------------
(***************************************************************************)
(* What is submitted pays what its transport asks for and costs no more    *)
(* than its maximum, and the second transaction of a launch is delivered   *)
(* once: for any configurations the form can give, any estimates of the    *)
(* market and any least tips of the providers.                             *)
(***************************************************************************)
EXTENDS LaunchBuild, FiniteSetTheorems, SequenceTheorems, TLAPS

-----------------------------------------------------------------------------
(* The inductive invariant                                                 *)

Stages ==
    {"form", "valid", "refused", "planned", "priced", "guarded", "compiled", "set up",
     "launchable", "launched", "failed", "simulated", "reported"}

TxType ==
    [part : {"launch", "launch-2", "topup", "follow-up", "jito-tip", "setup", "buy", "sell"},
     price : Nat, tip : Nat]

BuiltType ==
    [creation : Seq(TxType), compiled : Seq(TxType), deferred : Seq(TxType), setup : Seq(TxType)]

Transports ==
    {"standard-rpc-fanout", "helius-sender", "hellomoon-quic", "hellomoon-bundle", "jito-bundle",
     "simulate"}

SubmissionType ==
    [by : {"host", "daemon"},
     what : {"setup", "launch", "same-time", "deferred", "buy", "dev-sell", "snipe-sell",
             "simulation"},
     transport : Transports, txs : Seq(TxType)]

\* Those after the configuration has got its last change.
LateStages ==
    {"guarded", "compiled", "set up", "launchable", "launched", "failed", "simulated", "reported"}

\* Stages in which there is a plan, and in which every leg has its fees.
Planned == stage \notin {"form", "valid", "refused"}
Priced == Planned /\ stage # "planned"

PlanInv == Planned => \E count \in Nat : plan = PlanOf(config.creation, count)

\* The fees of a leg are enough for its provider.
LegPays(leg) ==
    RequiresTipAndPriority(leg.provider) => leg.price > 0 /\ leg.tip >= MinTip[leg.provider]

\* And those in the transactions of the creation: a bundle of Jito needs no price.
CreationPays(c) ==
    /\ c.creation.provider \in {"helius-sender", "hellomoon"} => c.tx.price > 0
    /\ c.tx.tip >= MinTip[c.creation.provider]

\* Before fees are resolved only those given are enough; the raise starts from
\* the tip of the leg, which is that of the transaction.
GivenInv ==
    stage \in {"valid", "planned"} =>
        /\ ~config.creation.auto => CreationPays(config)
        /\ config.snipes # "none" /\ ~config.buy.auto => LegPays(config.buy)
        /\ config.devSell /\ ~config.sell.auto => LegPays(config.sell)

SameTipInv ==
    /\ stage \in {"form", "valid", "planned"} /\ ~config.creation.auto
        => config.tx.tip = config.creation.tip
    /\ stage = "priced" => config.tx.tip = config.creation.tip

PricedInv ==
    Priced =>
        /\ CreationPays(config)
        /\ config.snipes # "none" => LegPays(config.buy)
        /\ config.devSell => LegPays(config.sell)

AgreesInv == stage \notin {"form", "refused"} => ModeAgrees(config)

\* What is known of the configuration and the plan.
ConfigInv ==
    /\ stage \in Stages /\ config \in ConfigType
    /\ PlanInv /\ GivenInv /\ SameTipInv /\ PricedInv /\ PaysNoMore /\ AgreesInv

BonkLists ==
    {<<"launch">>, <<"topup", "launch">>, <<"launch", "launch-2">>,
     <<"topup", "launch", "launch-2">>}

\* What the compilers have left.
BuiltInv ==
    /\ stage = "compiled" /\ config.launchpad = "pump" =>
        /\ built.creation = <<PumpLaunch>> \o PumpTip
        /\ built.compiled = <<PumpLaunch>> \o PumpFollowUp \o PumpTip
    /\ stage = "compiled" /\ config.launchpad = "bonk" =>
        \E parts \in BonkLists :
            built.creation = BonkParts(parts) /\ built.compiled = BonkParts(parts)
    /\ stage = "compiled" /\ config.launchpad = "bagsapp" =>
        \A i \in DOMAIN built.setup : built.setup[i].part = "setup"
    /\ stage = "compiled" /\ config.launchpad = "bagsapp" => built.compiled = built.setup
    /\ stage = "compiled" /\ config.launchpad # "bagsapp" => built.setup = <<>>
    /\ stage \in {"set up", "launchable"} => config.launchpad = "bagsapp"
    /\ stage = "launchable" => built.compiled = BagsLaunch
    /\ stage \in {"compiled", "set up", "launchable", "launched"}
        => built.deferred = IF config.launchpad = "pump" THEN PumpFollowUp ELSE <<>>

\* What is left of the compilation, typed.
BuiltOK == built \in BuiltType /\ BuiltInv

\* A submission whose fees are looked at pays.
SentPays ==
    \A i \in DOMAIN sent :
        ~(sent[i].what = "deferred" /\ sent[i].transport = "jito-bundle")
        /\ sent[i].what # "snipe-sell" => PaysEnough(sent[i])

\* Whether the follow-up has been submitted.
Delivered ==
    HasFollowUp(config)
    /\ (stage = "simulated" \/ plan.transport = "hellomoon-bundle" \/ Done("deferred"))

DeliveryInv ==
    /\ stage \in {"form", "valid", "planned", "priced", "guarded", "compiled", "set up",
                   "launchable"}
        => FollowUpsIn(sent) = {} /\ ~Done("deferred")
    /\ stage = "launched" => config.action = "send"
    /\ stage = "simulated" => config.action = "simulate"
    /\ stage \in {"launched", "simulated"} =>
        IF Delivered THEN \E x : FollowUpsIn(sent) = {x} ELSE FollowUpsIn(sent) = {}

\* What is known of the submissions.
SentOK == sent \in Seq(SubmissionType) /\ SentPays /\ DeliveryInv

BuildInv == ConfigInv /\ BuiltOK /\ SentOK

-----------------------------------------------------------------------------
(* The resolution of fees                                                  *)

\* What is assumed of the least tips and of the configurations.
LEMMA Parameters ==
    /\ \A p \in Providers : MinTip[p] \in Nat
    /\ MinTip["standard-rpc"] = 0
    /\ SetupTip \in Nat
    /\ \A e \in Estimates : e.priority \in Nat /\ e.tip \in Nat
    /\ \A c \in Configs : c \in ConfigType /\ (~c.creation.auto => c.tx.tip = c.creation.tip)
BY LaunchBuildAssumption DEF Providers

\* The least tip is within the tip's share, and one unit is left to the price.
LEMMA TipBudgetFits ==
    ASSUME NEW cap \in Nat, NEW minimum \in Nat, cap > minimum
    PROVE  /\ TipBudget(cap, minimum) \in Nat
           /\ minimum <= TipBudget(cap, minimum)
           /\ TipBudget(cap, minimum) < cap
BY DEF TipBudget, Least, Most

\* Price and tip that share a maximum stay within it, above their minima.
LEMMA SharedFits ==
    ASSUME NEW cap \in Nat, NEW minimum \in Nat, cap > minimum,
           NEW price \in Nat, price > 0, NEW tip \in Nat, tip >= minimum
    PROVE  /\ Shared(price, tip, cap, minimum) \in [price : Nat, tip : Nat]
           /\ Shared(price, tip, cap, minimum).price > 0
           /\ Shared(price, tip, cap, minimum).tip >= minimum
           /\ Shared(price, tip, cap, minimum).price + Shared(price, tip, cap, minimum).tip <= cap
<1> DEFINE budget == TipBudget(cap, minimum)
           p == Least(price, cap - budget)
           t == Least(tip, budget)
           left == cap - p - t
<1>1. budget \in Nat /\ minimum <= budget /\ budget < cap
  BY TipBudgetFits
<1>2. /\ p \in Nat /\ p > 0 /\ p <= cap - budget /\ p <= price
      /\ t \in Nat /\ t >= minimum /\ t <= budget /\ t <= tip
  <2> HIDE DEF budget
  <2> QED BY <1>1 DEF Least
<1>3. left \in Nat
  <2> HIDE DEF budget, p, t
  <2> QED BY <1>1, <1>2
<1>4. /\ Least(price - p, left) \in Nat /\ Least(price - p, left) <= left
      /\ Least(tip - t, left) \in Nat /\ Least(tip - t, left) <= left
  <2> HIDE DEF budget, p, t, left
  <2> QED BY <1>2, <1>3 DEF Least
<1>5. Shared(price, tip, cap, minimum) =
        IF price + tip <= cap THEN [price |-> price, tip |-> tip]
        ELSE IF t < budget THEN [price |-> p + Least(price - p, left), tip |-> t]
        ELSE IF p < cap - budget THEN [price |-> p, tip |-> t + Least(tip - t, left)]
        ELSE [price |-> p, tip |-> t]
  BY DEF Shared
<1>6. left + p + t = cap
  <2> HIDE DEF budget, p, t
  <2> QED BY <1>1, <1>2
<1> HIDE DEF budget, p, t, left
<1> QED BY <1>1, <1>2, <1>3, <1>4, <1>5, <1>6

\* Fees left to the engine are enough for the provider, and within the maximum.
LEMMA ComponentsFit ==
    ASSUME NEW leg \in LegType, NEW action, NEW e \in Estimates, Resolvable(leg, action, e)
    PROVE  /\ Components(leg, action, e) \in [price : Nat, tip : Nat]
           /\ UsesPriority(leg, action) => Components(leg, action, e).price > 0
           /\ Components(leg, action, e).tip >= MinTip[leg.provider]
           /\ CapOf(leg) > 0
                => Components(leg, action, e).price + Components(leg, action, e).tip <= CapOf(leg)
<1> DEFINE cap == CapOf(leg)
           minimum == MinTip[leg.provider]
           price == Most(e.priority, 1)
           fees == Components(leg, action, e)
<1>1. leg.provider \in Providers /\ leg.max \in Nat \union {Blank} /\ leg.maxTip \in Nat
  BY DEF LegType
<1>2. cap \in Nat /\ minimum \in Nat
  BY <1>1, Parameters DEF CapOf
<1>3. e.priority \in Nat /\ e.tip \in Nat
  BY Parameters
<1>4. price \in Nat /\ price > 0
  BY <1>3 DEF Most
<1>5. CASE ~UsesTip(leg)
  <2>1. UsesPriority(leg, action)
    BY <1>5 DEF UsesTip, UsesPriority
  <2>2. fees = [price |-> Capped(price, cap), tip |-> 0]
    BY <1>5, <2>1, Zenon DEF Components
  <2>3. minimum = 0
    BY <1>5, Parameters DEF UsesTip
  <2>4. /\ Capped(price, cap) \in Nat /\ Capped(price, cap) > 0
        /\ cap > 0 => Capped(price, cap) <= cap
    <3> HIDE DEF cap, price
    <3> QED BY <1>2, <1>4 DEF Capped, Least
  <2> HIDE DEF cap, minimum, price, fees
  <2>5. /\ fees \in [price : Nat, tip : Nat] /\ fees.price > 0 /\ fees.tip >= minimum
        /\ cap > 0 => fees.price + fees.tip <= cap
    BY <1>2, <2>2, <2>3, <2>4
  <2> QED BY <2>5 DEF fees, cap, minimum
<1>6. CASE UsesTip(leg) /\ ~UsesPriority(leg, action)
  <2>1. fees = [price |-> 0, tip |-> Most(Capped(e.tip, cap), minimum)]
    BY <1>6 DEF Components
  <2>2. cap > 0 => cap >= minimum
    BY <1>1, <1>2, <1>6 DEF Resolvable, CapTooLow
  <2> HIDE DEF cap, minimum, price, fees
  <2>3. /\ Most(Capped(e.tip, cap), minimum) \in Nat
        /\ Most(Capped(e.tip, cap), minimum) >= minimum
        /\ cap > 0 => Most(Capped(e.tip, cap), minimum) <= cap
    BY <1>2, <1>3, <2>2 DEF Capped, Least, Most
  <2>4. /\ fees \in [price : Nat, tip : Nat] /\ fees.tip >= minimum
        /\ cap > 0 => fees.price + fees.tip <= cap
    BY <1>2, <2>1, <2>3
  <2> QED BY <1>6, <2>4 DEF fees, cap, minimum
<1>7. CASE UsesTip(leg) /\ UsesPriority(leg, action)
  <2>1. fees = IF cap = 0 THEN [price |-> price, tip |-> Most(e.tip, minimum)]
               ELSE Shared(price, Most(e.tip, minimum), cap, minimum)
    BY <1>7 DEF Components
  <2>2. cap > 0 => cap > minimum
    BY <1>1, <1>2, <1>7 DEF Resolvable, CapTooLow
  <2> HIDE DEF cap, minimum, price, fees
  <2>3. Most(e.tip, minimum) \in Nat /\ Most(e.tip, minimum) >= minimum
    BY <1>2, <1>3 DEF Most
  <2>4. /\ fees \in [price : Nat, tip : Nat] /\ fees.price > 0 /\ fees.tip >= minimum
        /\ cap > 0 => fees.price + fees.tip <= cap
    <3>1. CASE cap = 0
      BY <1>4, <2>1, <2>3, <3>1
    <3>2. CASE cap # 0
      <4>1. cap > minimum
        BY <1>2, <2>2, <3>2
      <4>2. fees = Shared(price, Most(e.tip, minimum), cap, minimum)
        BY <2>1, <3>2
      <4> QED BY <1>2, <1>4, <2>3, <4>1, <4>2, SharedFits
    <3> QED BY <3>1, <3>2
  <2> QED BY <2>4 DEF fees, cap, minimum
<1> QED BY <1>5, <1>6, <1>7

\* A leg keeps its provider, its maxima and who gives its fees.
LEMMA ResolvedLeg ==
    ASSUME NEW leg \in LegType, NEW action, NEW e \in Estimates,
           leg.auto => Resolvable(leg, action, e)
    PROVE  /\ Resolved(leg, action, e) \in LegType
           /\ Resolved(leg, action, e).provider = leg.provider
           /\ Resolved(leg, action, e).secure = leg.secure
           /\ Resolved(leg, action, e).auto = leg.auto
           /\ CapOf(Resolved(leg, action, e)) = CapOf(leg)
           /\ ~leg.auto => Resolved(leg, action, e) = leg
           /\ leg.auto =>
                /\ UsesPriority(leg, action) => Resolved(leg, action, e).price > 0
                /\ Resolved(leg, action, e).tip >= MinTip[leg.provider]
                /\ CapOf(leg) > 0
                    => Resolved(leg, action, e).price + Resolved(leg, action, e).tip <= CapOf(leg)
<1> DEFINE fees == Components(leg, action, e)
<1>1. CASE ~leg.auto
  BY <1>1 DEF Resolved
<1>2. CASE leg.auto
  <2>1. Resolved(leg, action, e) = [leg EXCEPT !.price = fees.price, !.tip = fees.tip]
    BY <1>2 DEF Resolved
  <2>2. /\ fees \in [price : Nat, tip : Nat]
        /\ UsesPriority(leg, action) => fees.price > 0
        /\ fees.tip >= MinTip[leg.provider]
        /\ CapOf(leg) > 0 => fees.price + fees.tip <= CapOf(leg)
    BY <1>2, ComponentsFit
  <2> HIDE DEF fees
  <2>3. /\ Resolved(leg, action, e) \in LegType
        /\ Resolved(leg, action, e).provider = leg.provider
        /\ Resolved(leg, action, e).secure = leg.secure
        /\ Resolved(leg, action, e).auto = leg.auto
        /\ Resolved(leg, action, e).price = fees.price
        /\ Resolved(leg, action, e).tip = fees.tip
        /\ Resolved(leg, action, e).max = leg.max
        /\ Resolved(leg, action, e).maxTip = leg.maxTip
    BY <2>1, <2>2 DEF LegType
  <2>4. CapOf(Resolved(leg, action, e)) = CapOf(leg)
    BY <2>3 DEF CapOf
  <2> QED BY <1>2, <2>2, <2>3, <2>4
<1> QED BY <1>1, <1>2

-----------------------------------------------------------------------------
(* The configuration                                                       *)

\* Only the first steps change it.
LEMMA LateStep ==
    ASSUME BuildNext
    PROVE  \/ Validate \/ PlanTransport \/ ResolveFees \/ FeesRefused \/ Guard
           \/ /\ stage \in LateStages /\ stage' \in LateStages \union {"refused"}
              /\ UNCHANGED <<config, plan>>
<1>1. CASE CompilePump
  BY <1>1 DEF CompilePump, Compiled, LateStages
<1>2. CASE CompileBonk
  BY <1>2 DEF CompileBonk, Compiled, LateStages
<1>3. CASE CompileBags
  BY <1>3 DEF CompileBags, Compiled, LateStages
<1>4. CASE Report \/ Simulate \/ CompileBagsLaunch \/ NoLaunch
  BY <1>4 DEF Report, Simulate, CompileBagsLaunch, NoLaunch, LateStages
<1>5. CASE SubmitSetup \/ SubmitLaunch
  BY <1>5 DEF SubmitSetup, SubmitLaunch, Submit, LateStages
<1>6. CASE SubmitSameTime \/ SubmitDeferred \/ SubmitBuy \/ SubmitDevSell \/ SubmitSnipeSell
  BY <1>6 DEF SubmitSameTime, SubmitDeferred, SubmitBuy, SubmitDevSell, SubmitSnipeSell, Follow,
              LateStages
<1> QED BY <1>1, <1>2, <1>3, <1>4, <1>5, <1>6 DEF BuildNext

\* A step that leaves it alone keeps what is known of it.
LEMMA LateConfig ==
    ASSUME ConfigInv, UNCHANGED <<config, plan>>,
           \/ stage \in LateStages /\ stage' \in LateStages
           \/ stage' = "refused"
           \/ stage' = stage
    PROVE  ConfigInv'
<1>1. stage' \in Stages /\ config' \in ConfigType
  BY DEF ConfigInv, Stages, LateStages
<1>2. PlanInv'
  BY DEF ConfigInv, PlanInv, Planned, LateStages
<1>3. GivenInv' /\ SameTipInv'
  BY DEF ConfigInv, GivenInv, SameTipInv, LateStages
<1>4. PricedInv'
  BY DEF ConfigInv, PricedInv, Priced, Planned, LateStages
<1>5. PaysNoMore'
  BY DEF ConfigInv, PaysNoMore, LateStages
<1>6. AgreesInv'
  BY DEF ConfigInv, AgreesInv, LateStages
<1> QED BY <1>1, <1>2, <1>3, <1>4, <1>5, <1>6 DEF ConfigInv

\* The fees stay when the data without a use is dropped.
LEMMA NormalizedTyped ==
    ASSUME NEW c \in ConfigType
    PROVE  /\ Normalized(c) \in ConfigType
           /\ Normalized(c).creation = c.creation /\ Normalized(c).buy = c.buy
           /\ Normalized(c).sell = c.sell /\ Normalized(c).tx = c.tx
           /\ Normalized(c).snipes = c.snipes /\ Normalized(c).devSell = c.devSell
<1> DEFINE recipients == c.agentRecipients
                          /\ c.mode \notin {"regular", "cashback", "agent-unlocked", "agent-locked"}
           split == c.splitAgentInit /\ c.mode \notin {"regular", "cashback"}
<1>1. Normalized(c) = [c EXCEPT !.agentRecipients = recipients, !.splitAgentInit = split]
  BY DEF Normalized
<1>2. recipients \in BOOLEAN /\ split \in BOOLEAN
  OBVIOUS
<1> HIDE DEF recipients, split
<1> QED BY <1>1, <1>2 DEF ConfigType

\* The legs and the transaction of a configuration.
LEMMA LegTyped ==
    ASSUME NEW c \in ConfigType
    PROVE  /\ c.creation \in LegType /\ c.buy \in LegType /\ c.sell \in LegType
           /\ \A a \in Legs : c[a] \in LegType
           /\ c.tx \in [price : Nat, tip : Nat, account : BOOLEAN]
BY DEF ConfigType, Legs

\* A configuration that is accepted pays as far as fees are given.
LEMMA AcceptedPays ==
    ASSUME NEW c \in ConfigType, Accepts(c)
    PROVE  /\ CreationPays(c)
           /\ c.snipes # "none" /\ ~c.buy.auto => LegPays(c.buy)
           /\ c.devSell /\ ~c.sell.auto => LegPays(c.sell)
<1>1. c.creation.provider \in Providers /\ c.tx.tip \in Nat
  BY LegTyped DEF LegType
<1>2. CreationPays(c)
  BY <1>1, Parameters DEF Accepts, CreationFeesAgree, CreationPays, RequiresTipAndPriority
<1>3. /\ c.snipes # "none" /\ ~c.buy.auto => LegPays(c.buy)
      /\ c.devSell /\ ~c.sell.auto => LegPays(c.sell)
  BY DEF Accepts, ManualFeesAgree, LegPays
<1> QED BY <1>2, <1>3

\* The checks of the form leave fees that are enough where they are given.
LEMMA ValidateConfig ==
    ASSUME ConfigInv, Validate
    PROVE  ConfigInv'
<1>1. /\ config \in ConfigType /\ stage = "form" /\ config' = Normalized(config)
      /\ stage' = IF Accepts(config') THEN "valid" ELSE "refused"
  BY DEF ConfigInv, Validate
<1>2. /\ config' \in ConfigType
      /\ config'.creation = config.creation /\ config'.tx = config.tx
  BY <1>1, NormalizedTyped
<1>3. stage' \in {"valid", "refused"}
  BY <1>1
<1>4. stage' \in Stages /\ PlanInv' /\ PricedInv' /\ PaysNoMore'
  BY <1>3 DEF Stages, PlanInv, PricedInv, Priced, Planned, PaysNoMore
<1>5. GivenInv'
  <2>1. SUFFICES ASSUME Accepts(config')
                 PROVE  /\ CreationPays(config')
                        /\ config'.snipes # "none" /\ ~config'.buy.auto => LegPays(config'.buy)
                        /\ config'.devSell /\ ~config'.sell.auto => LegPays(config'.sell)
    BY <1>1, <1>3 DEF GivenInv, CreationPays, LegPays
  <2> QED BY <1>2, <2>1, AcceptedPays
<1>6. SameTipInv'
  BY <1>1, <1>2, <1>3 DEF ConfigInv, SameTipInv
<1>7. AgreesInv'
  BY <1>1, <1>3 DEF AgreesInv, Accepts
<1> QED BY <1>2, <1>4, <1>5, <1>6, <1>7 DEF ConfigInv

\* A plan is one of the creation.
LEMMA PlanConfig ==
    ASSUME ConfigInv, PlanTransport
    PROVE  ConfigInv'
<1>1. /\ stage = "valid" /\ stage' = "planned" /\ config' = config
      /\ plan' = PlanOf(config.creation, EstimatedCount(config))
  BY DEF PlanTransport
<1>2. EstimatedCount(config) \in Nat
  BY DEF EstimatedCount
<1>3. PlanInv'
  BY <1>1, <1>2 DEF PlanInv
<1>4. GivenInv' /\ SameTipInv' /\ PricedInv'
  BY <1>1 DEF ConfigInv, GivenInv, SameTipInv, PricedInv, Priced
<1>5. stage' \in Stages /\ config' \in ConfigType /\ AgreesInv' /\ PaysNoMore'
  BY <1>1 DEF ConfigInv, Stages, AgreesInv, PaysNoMore
<1> QED BY <1>3, <1>4, <1>5 DEF ConfigInv

\* What fees resolved for a leg are worth to it.
LEMMA ResolvedPays ==
    ASSUME NEW leg \in LegType, NEW action, NEW e \in Estimates,
           leg.auto => Resolvable(leg, action, e),
           action # "creation",
           ~leg.auto => LegPays(leg)
    PROVE  LegPays(Resolved(leg, action, e))
<1>1. UsesPriority(leg, action)
  BY DEF UsesPriority
<1>2. CASE ~leg.auto
  BY <1>2, ResolvedLeg
<1>3. CASE leg.auto
  BY <1>1, <1>3, ResolvedLeg DEF LegPays
<1> QED BY <1>2, <1>3

\* With the market's fees every leg pays, and none more than its maximum.
LEMMA ResolveConfig ==
    ASSUME ConfigInv, ResolveFees
    PROVE  ConfigInv'
<1> DEFINE As == {"creation", "buy", "sell"}
<1>1. PICK e \in [As -> Estimates] :
        /\ \A a \in DOMAIN e : config[a].auto => Resolvable(config[a], a, e[a])
        /\ LET creation == Resolved(config.creation, "creation", e.creation)
           IN  config' = [config EXCEPT
                    !.creation = creation,
                    !.buy = Resolved(@, "buy", e.buy),
                    !.sell = Resolved(@, "sell", e.sell),
                    !.tx = IF creation.auto
                           THEN [price |-> creation.price, tip |-> creation.tip,
                                 account |-> UsesTip(creation)]
                           ELSE @]
  BY DEF ResolveFees
<1> DEFINE creation == Resolved(config.creation, "creation", e.creation)
           buy == Resolved(config.buy, "buy", e.buy)
           sell == Resolved(config.sell, "sell", e.sell)
           tx == IF creation.auto
                 THEN [price |-> creation.price, tip |-> creation.tip,
                       account |-> UsesTip(creation)]
                 ELSE config.tx
<1>2. /\ stage = "planned" /\ stage' = "priced" /\ plan' = plan
      /\ config \in ConfigType
  BY DEF ResolveFees, ConfigInv
<1>3. /\ config.creation \in LegType /\ config.buy \in LegType /\ config.sell \in LegType
      /\ config.tx \in [price : Nat, tip : Nat, account : BOOLEAN]
  BY <1>2, LegTyped
<1>4. e.creation \in Estimates /\ e.buy \in Estimates /\ e.sell \in Estimates
  BY <1>1
<1>5. /\ config.creation.auto => Resolvable(config.creation, "creation", e.creation)
      /\ config.buy.auto => Resolvable(config.buy, "buy", e.buy)
      /\ config.sell.auto => Resolvable(config.sell, "sell", e.sell)
  BY <1>1
<1>6. config' = [config EXCEPT !.creation = creation, !.buy = buy, !.sell = sell, !.tx = tx]
  BY <1>1
<1>7. /\ creation \in LegType /\ creation.provider = config.creation.provider
      /\ creation.secure = config.creation.secure /\ creation.auto = config.creation.auto
      /\ CapOf(creation) = CapOf(config.creation)
      /\ ~config.creation.auto => creation = config.creation
      /\ config.creation.auto =>
            /\ UsesPriority(config.creation, "creation") => creation.price > 0
            /\ creation.tip >= MinTip[config.creation.provider]
            /\ CapOf(config.creation) > 0 => creation.price + creation.tip <= CapOf(creation)
  BY <1>3, <1>4, <1>5, ResolvedLeg
<1>8. /\ buy \in LegType /\ sell \in LegType
      /\ buy.auto /\ CapOf(buy) > 0 => buy.price + buy.tip <= CapOf(buy)
      /\ sell.auto /\ CapOf(sell) > 0 => sell.price + sell.tip <= CapOf(sell)
  BY <1>3, <1>4, <1>5, ResolvedLeg
<1>9. tx \in [price : Nat, tip : Nat, account : BOOLEAN]
  <2>1. UsesTip(creation) \in BOOLEAN
    BY DEF UsesTip
  <2>2. creation.price \in Nat /\ creation.tip \in Nat
    BY <1>7 DEF LegType
  <2> QED BY <1>3, <2>1, <2>2
<1>10. /\ config' \in ConfigType
       /\ config'.creation = creation /\ config'.buy = buy /\ config'.sell = sell
       /\ config'.tx = tx /\ config'.snipes = config.snipes /\ config'.devSell = config.devSell
  <2> HIDE DEF creation, buy, sell, tx
  <2> QED BY <1>2, <1>6, <1>7, <1>8, <1>9 DEF ConfigType
<1>11. /\ config.snipes # "none" => LegPays(buy)
       /\ config.devSell => LegPays(sell)
  <2>1. /\ config.snipes # "none" /\ ~config.buy.auto => LegPays(config.buy)
        /\ config.devSell /\ ~config.sell.auto => LegPays(config.sell)
    BY <1>2 DEF ConfigInv, GivenInv
  <2>2. ASSUME config.snipes # "none" PROVE LegPays(buy)
    BY <1>3, <1>4, <1>5, <2>1, <2>2, ResolvedPays
  <2>3. ASSUME config.devSell PROVE LegPays(sell)
    BY <1>3, <1>4, <1>5, <2>1, <2>3, ResolvedPays
  <2> QED BY <2>2, <2>3
<1>12. CreationPays(config')
  <2>1. CASE ~config.creation.auto
    <3>1. CreationPays(config)
      BY <1>2, <2>1 DEF ConfigInv, GivenInv
    <3>2. creation = config.creation /\ tx = config.tx
      BY <1>7, <2>1
    <3> HIDE DEF creation, tx
    <3> QED BY <1>10, <3>1, <3>2 DEF CreationPays
  <2>2. CASE config.creation.auto
    <3>1. tx.price = creation.price /\ tx.tip = creation.tip
      BY <1>7, <2>2
    <3>2. config.creation.provider \in {"helius-sender", "hellomoon"}
            => UsesPriority(config.creation, "creation")
      BY DEF UsesPriority
    <3> HIDE DEF creation, tx
    <3> QED BY <1>7, <1>10, <2>2, <3>1, <3>2 DEF CreationPays
  <2> QED BY <2>1, <2>2
<1>13. config'.tx.tip = config'.creation.tip
  <2>1. CASE ~config.creation.auto
    BY <1>2, <1>7, <1>10, <2>1 DEF ConfigInv, SameTipInv
  <2>2. CASE config.creation.auto
    <3>1. tx.tip = creation.tip
      BY <1>7, <2>2
    <3> HIDE DEF creation, tx
    <3> QED BY <1>10, <3>1
  <2> QED BY <2>1, <2>2
<1> HIDE DEF creation, buy, sell, tx
<1>14. PlanInv'
  <2>1. PICK count \in Nat : plan = PlanOf(config.creation, count)
    BY <1>2 DEF ConfigInv, PlanInv, Planned
  <2>2. PlanOf(config'.creation, count) = PlanOf(config.creation, count)
    BY <1>7, <1>10, Zenon DEF PlanOf, Transport, Class, Secure
  <2> QED BY <1>2, <2>1, <2>2 DEF PlanInv
<1>15. PricedInv'
  BY <1>10, <1>11, <1>12 DEF PricedInv, CreationPays, LegPays
<1>16. PaysNoMore'
  <2>1. \A a \in Legs : config'[a].auto /\ CapOf(config'[a]) > 0
            => config'[a].price + config'[a].tip <= CapOf(config'[a])
    BY <1>7, <1>8, <1>10 DEF Legs
  <2> QED BY <2>1 DEF PaysNoMore, CapOf
<1>17. GivenInv' /\ SameTipInv'
  BY <1>2, <1>13 DEF GivenInv, SameTipInv
<1>18. AgreesInv'
  <2>1. ModeAgrees(config)
    BY <1>2 DEF ConfigInv, AgreesInv
  <2>2. /\ config'.mode = config.mode /\ config'.launchpad = config.launchpad
        /\ config'.buyback = config.buyback /\ config'.laterSetup = config.laterSetup
        /\ config'.deployerFee = config.deployerFee /\ config'.recipients = config.recipients
    BY <1>2, <1>6 DEF ConfigType
  <2> QED BY <2>1, <2>2 DEF AgreesInv, ModeAgrees
<1>19. stage' \in Stages
  BY <1>2 DEF Stages
<1> QED BY <1>10, <1>14, <1>15, <1>16, <1>17, <1>18, <1>19 DEF ConfigInv

\* The raise changes the fees and maxima of the creation, never downwards.
LEMMA RaisedTyped ==
    ASSUME NEW c \in ConfigType
    PROVE  /\ RaisedAbove(c) \in ConfigType
           /\ \A f \in DOMAIN c \ {"creation", "tx"} : RaisedAbove(c)[f] = c[f]
           /\ RaisedAbove(c).creation.provider = c.creation.provider
           /\ RaisedAbove(c).creation.secure = c.creation.secure
           /\ c.tx.price > 0 => RaisedAbove(c).tx.price > 0
           /\ c.tx.tip = c.creation.tip => RaisedAbove(c).tx.tip >= c.tx.tip
<1> DEFINE price == Raised(c.creation.price, c.buy.price)
           tip == Raised(c.creation.tip, c.buy.tip)
           max == IF price # c.creation.price THEN price ELSE c.creation.max
           maxTip == IF tip # c.creation.tip THEN tip ELSE c.creation.maxTip
           txPrice == IF price # c.creation.price THEN price ELSE c.tx.price
           txTip == IF tip # c.creation.tip THEN tip ELSE c.tx.tip
           leg == [c.creation EXCEPT !.price = price, !.tip = tip, !.max = max, !.maxTip = maxTip]
           tx == [c.tx EXCEPT !.price = txPrice, !.tip = txTip]
<1>1. /\ c.creation \in LegType /\ c.buy \in LegType
      /\ c.tx \in [price : Nat, tip : Nat, account : BOOLEAN]
  BY LegTyped
<1>2. /\ c.creation.price \in Nat /\ c.creation.tip \in Nat
      /\ c.creation.max \in Nat \union {Blank}
      /\ c.creation.maxTip \in Nat /\ c.buy.price \in Nat /\ c.buy.tip \in Nat
      /\ c.tx.price \in Nat /\ c.tx.tip \in Nat
  BY <1>1 DEF LegType
<1>3. /\ price \in Nat /\ price >= c.creation.price
      /\ price # c.creation.price => price > 0
      /\ tip \in Nat /\ tip >= c.creation.tip
  BY <1>2 DEF Raised
<1>4. /\ max \in Nat \union {Blank} /\ maxTip \in Nat /\ txPrice \in Nat /\ txTip \in Nat
      /\ c.tx.price > 0 => txPrice > 0
      /\ c.tx.tip = c.creation.tip => txTip >= c.tx.tip
  <2> HIDE DEF price, tip
  <2> QED BY <1>2, <1>3
<1>5. RaisedAbove(c) = [c EXCEPT !.creation = leg, !.tx = tx]
  <2>1. RaisedAbove(c) =
        [c EXCEPT !.creation.price = price, !.creation.tip = tip, !.creation.max = max,
                  !.creation.maxTip = maxTip, !.tx.price = txPrice, !.tx.tip = txTip]
    BY <1>1 DEF RaisedAbove, ConfigType, LegType
  <2> HIDE DEF price, tip, max, maxTip, txPrice, txTip
  <2> QED BY <1>1, <2>1 DEF ConfigType, LegType
<1>6. /\ leg \in LegType /\ leg.provider = c.creation.provider /\ leg.secure = c.creation.secure
      /\ tx \in [price : Nat, tip : Nat, account : BOOLEAN]
      /\ tx.price = txPrice /\ tx.tip = txTip
  <2> HIDE DEF price, tip, max, maxTip, txPrice, txTip
  <2> QED BY <1>1, <1>3, <1>4 DEF LegType
<1> HIDE DEF price, tip, max, maxTip, txPrice, txTip, leg, tx
<1>7. /\ RaisedAbove(c) \in ConfigType
      /\ \A f \in DOMAIN c \ {"creation", "tx"} : RaisedAbove(c)[f] = c[f]
      /\ RaisedAbove(c).creation = leg /\ RaisedAbove(c).tx = tx
  BY <1>5, <1>6 DEF ConfigType
<1> QED BY <1>4, <1>6, <1>7

\* The raise above same-time buys keeps what the creation pays.
LEMMA GuardConfig ==
    ASSUME ConfigInv, Guard
    PROVE  ConfigInv'
<1>1. /\ stage = "priced" /\ plan' = plan /\ config \in ConfigType
      /\ CreationPays(config) /\ config.tx.tip = config.creation.tip
  BY DEF Guard, ConfigInv, PricedInv, Priced, Planned, SameTipInv
<1>2. CASE stage' = "refused" /\ config' = config
  BY <1>1, <1>2, LateConfig
<1>3. CASE ~SameTime(config) /\ stage' = "guarded" /\ config' = config
  <2>1. stage' \in Stages /\ config' \in ConfigType
    BY <1>1, <1>3 DEF Stages
  <2>2. PlanInv' /\ GivenInv' /\ SameTipInv' /\ PricedInv' /\ AgreesInv'
    BY <1>1, <1>3 DEF ConfigInv, PlanInv, GivenInv, SameTipInv, PricedInv, AgreesInv, Priced,
                      Planned
  <2>3. PaysNoMore'
    BY <1>1, <1>3 DEF ConfigInv, PaysNoMore
  <2> QED BY <2>1, <2>2, <2>3 DEF ConfigInv
<1>4. CASE SameTime(config) /\ stage' = "guarded" /\ config' = RaisedAbove(config)
  <2>1. /\ config' \in ConfigType
        /\ config'.creation.provider = config.creation.provider
        /\ config'.creation.secure = config.creation.secure
        /\ config.tx.price > 0 => config'.tx.price > 0
        /\ config'.tx.tip >= config.tx.tip
    BY <1>1, <1>4, RaisedTyped
  <2>2. /\ config'.buy = config.buy /\ config'.sell = config.sell
        /\ config'.snipes = config.snipes /\ config'.devSell = config.devSell
        /\ config'.mode = config.mode /\ config'.launchpad = config.launchpad
        /\ config'.buyback = config.buyback /\ config'.laterSetup = config.laterSetup
        /\ config'.deployerFee = config.deployerFee /\ config'.recipients = config.recipients
    <3>1. {"buy", "sell", "snipes", "devSell", "mode", "launchpad", "buyback", "laterSetup",
           "deployerFee", "recipients"} \subseteq DOMAIN config \ {"creation", "tx"}
      BY <1>1 DEF ConfigType
    <3> QED BY <1>1, <1>4, <3>1, RaisedTyped
  <2>3. stage' \in Stages
    BY <1>4 DEF Stages
  <2>4. PlanInv'
    <3>1. PICK count \in Nat : plan = PlanOf(config.creation, count)
      BY <1>1 DEF ConfigInv, PlanInv, Planned
    <3>2. PlanOf(config'.creation, count) = PlanOf(config.creation, count)
      BY <2>1, Zenon DEF PlanOf, Transport, Class, Secure
    <3> QED BY <1>1, <3>1, <3>2 DEF PlanInv
  <2>5. CreationPays(config')
    <3>1. /\ config.tx.tip \in Nat /\ config'.tx.tip \in Nat
          /\ MinTip[config.creation.provider] \in Nat
      BY <1>1, <2>1, LegTyped, Parameters DEF LegType
    <3> QED BY <1>1, <2>1, <3>1 DEF CreationPays
  <2>6. PricedInv'
    <3>1. /\ config.snipes # "none" => LegPays(config.buy)
          /\ config.devSell => LegPays(config.sell)
      BY <1>1 DEF ConfigInv, PricedInv, Priced, Planned
    <3> QED BY <2>2, <2>5, <3>1 DEF PricedInv, LegPays, CreationPays
  <2>7. PaysNoMore'
    <3>1. SameTime(config') /\ stage' # "priced"
      BY <1>4, <2>2 DEF SameTime
    <3>2. \A a \in {"buy", "sell"} : config'[a] = config[a]
      BY <2>2
    <3>3. \A a \in {"buy", "sell"} :
            config[a].auto /\ CapOf(config[a]) > 0
                => config[a].price + config[a].tip <= CapOf(config[a])
      BY <1>1 DEF ConfigInv, PaysNoMore, Legs
    <3> QED BY <3>1, <3>2, <3>3 DEF PaysNoMore, Legs, SameTime, CapOf
  <2>8. GivenInv' /\ SameTipInv'
    BY <1>4 DEF GivenInv, SameTipInv
  <2>9. AgreesInv'
    BY <1>1, <2>2 DEF ConfigInv, AgreesInv, ModeAgrees
  <2> QED BY <2>1, <2>3, <2>4, <2>6, <2>7, <2>8, <2>9 DEF ConfigInv
<1> QED BY <1>2, <1>3, <1>4 DEF Guard

\* The first part of the invariant is kept.
LEMMA ConfigStep ==
    ASSUME ConfigInv, [BuildNext]_buildVars
    PROVE  ConfigInv'
<1>1. CASE Validate
  BY <1>1, ValidateConfig
<1>2. CASE PlanTransport
  BY <1>2, PlanConfig
<1>3. CASE ResolveFees
  BY <1>3, ResolveConfig
<1>4. CASE FeesRefused
  BY <1>4, LateConfig DEF FeesRefused
<1>5. CASE Guard
  BY <1>5, GuardConfig
<1>6. CASE UNCHANGED buildVars
  BY <1>6, LateConfig DEF buildVars
<1>7. CASE /\ stage \in LateStages /\ stage' \in LateStages \union {"refused"}
           /\ UNCHANGED <<config, plan>>
  BY <1>7, LateConfig
<1> QED BY <1>1, <1>2, <1>3, <1>4, <1>5, <1>6, <1>7, LateStep

\* A form that is submitted satisfies it.
LEMMA ConfigStart ==
    ASSUME BuildInit
    PROVE  ConfigInv
<1>1. /\ stage = "form" /\ config \in ConfigType
      /\ ~config.creation.auto => config.tx.tip = config.creation.tip
  BY Parameters DEF BuildInit
<1> QED BY <1>1 DEF ConfigInv, Stages, PlanInv, GivenInv, SameTipInv, PricedInv, Priced, Planned,
                    PaysNoMore, AgreesInv

-----------------------------------------------------------------------------
(* Transports                                                              *)

\* The transport of a leg is that of its provider.
LEMMA TransportIs ==
    ASSUME NEW leg \in LegType
    PROVE  \/ leg.provider = "standard-rpc" /\ Transport(leg) = "standard-rpc-fanout"
           \/ leg.provider = "helius-sender" /\ Transport(leg) = "helius-sender"
           \/ leg.provider = "jito-bundle" /\ Transport(leg) = "jito-bundle"
           \/ leg.provider = "hellomoon" /\ leg.secure /\ Transport(leg) = "hellomoon-bundle"
           \/ leg.provider = "hellomoon" /\ ~leg.secure /\ Transport(leg) = "hellomoon-quic"
<1>1. leg.provider \in Providers
  BY DEF LegType
<1>2. CASE leg.provider = "standard-rpc"
  BY <1>2, Zenon DEF Transport
<1>3. CASE leg.provider = "helius-sender"
  BY <1>3, Zenon DEF Transport
<1>4. CASE leg.provider = "jito-bundle"
  BY <1>4, Zenon DEF Transport
<1>5. CASE leg.provider = "hellomoon"
  <2>1. Transport(leg) = IF leg.secure THEN "hellomoon-bundle" ELSE "hellomoon-quic"
    BY <1>5, Zenon DEF Transport
  <2> QED BY <1>5, <2>1
<1> QED BY <1>1, <1>2, <1>3, <1>4, <1>5 DEF Providers

\* What is submitted over a transport that looks at fees.
LEMMA TakesIs ==
    ASSUME NEW txs
    PROVE  /\ Takes("standard-rpc-fanout", txs) /\ Takes("jito-bundle", txs)
           /\ Takes("simulate", txs)
           /\ (\A i \in DOMAIN txs : Pays(txs[i], "helius-sender")) => Takes("helius-sender", txs)
           /\ (\A i \in DOMAIN txs : Pays(txs[i], "hellomoon")) => Takes("hellomoon-quic", txs)
           /\ /\ \A i \in DOMAIN txs : txs[i].price > 0
              /\ \E i \in DOMAIN txs : txs[i].tip >= MinTip["hellomoon"]
              => Takes("hellomoon-bundle", txs)
<1>1. Takes("standard-rpc-fanout", txs)
  BY Zenon DEF Takes
<1>2. Takes("jito-bundle", txs)
  BY Zenon DEF Takes
<1>3. Takes("simulate", txs)
  BY Zenon DEF Takes
<1>4. (\A i \in DOMAIN txs : Pays(txs[i], "helius-sender")) => Takes("helius-sender", txs)
  BY Zenon DEF Takes
<1>5. (\A i \in DOMAIN txs : Pays(txs[i], "hellomoon")) => Takes("hellomoon-quic", txs)
  BY Zenon DEF Takes
<1>6. /\ \A i \in DOMAIN txs : txs[i].price > 0
      /\ \E i \in DOMAIN txs : txs[i].tip >= MinTip["hellomoon"]
      => Takes("hellomoon-bundle", txs)
  BY Zenon DEF Takes
<1> QED BY <1>1, <1>2, <1>3, <1>4, <1>5, <1>6

\* What a plan says follows from its transport.
LEMMA PlanIs ==
    ASSUME ConfigInv, Planned
    PROVE  /\ plan.transport = Transport(config.creation)
           /\ plan.inlineTip <=>
                plan.transport \in {"helius-sender", "hellomoon-quic", "hellomoon-bundle"}
           /\ plan.separateTip <=> plan.transport = "jito-bundle"
<1>1. PICK count \in Nat : plan = PlanOf(config.creation, count)
  BY DEF ConfigInv, PlanInv
<1> QED BY <1>1 DEF PlanOf

\* Transactions that all pay are taken, whatever the transport of their leg.
LEMMA AllPay ==
    ASSUME NEW leg \in LegType, NEW txs, NEW n \in DOMAIN txs, NEW by, NEW what,
           leg.provider \in {"helius-sender", "hellomoon"} =>
                \A i \in DOMAIN txs : txs[i].price > 0,
           leg.provider = "helius-sender" \/ (leg.provider = "hellomoon" /\ ~leg.secure)
                => \A i \in DOMAIN txs : txs[i].tip >= MinTip[leg.provider],
           leg.provider # "standard-rpc" => txs[n].tip >= MinTip[leg.provider]
    PROVE  PaysEnough(Submission(by, what, Transport(leg), txs))
<1> DEFINE s == Submission(by, what, Transport(leg), txs)
<1>1. s.transport = Transport(leg) /\ s.txs = txs
  BY DEF Submission
<1>2. Takes(Transport(leg), txs)
  BY TransportIs, TakesIs DEF Pays
<1>3. Transport(leg) = "jito-bundle" => \E i \in DOMAIN txs : txs[i].tip >= MinTip["jito-bundle"]
  BY TransportIs
<1> QED BY <1>1, <1>2, <1>3 DEF PaysEnough

\* The transaction of a buy or a sell whose leg pays.
LEMMA FollowPays ==
    ASSUME NEW leg \in LegType, LegPays(leg), NEW part, NEW by, NEW what
    PROVE  PaysEnough(Submission(by, what, Transport(leg), FollowTx(part, leg)))
<1> DEFINE txs == FollowTx(part, leg)
<1>1. /\ DOMAIN txs = {1}
      /\ txs[1].price = leg.price
      /\ leg.provider # "standard-rpc" => txs[1].tip = leg.tip
  BY DEF FollowTx, Tx
<1> HIDE DEF txs
<1>2. PaysEnough(Submission(by, what, Transport(leg), txs))
  BY <1>1, AllPay DEF LegPays, RequiresTipAndPriority
<1> QED BY <1>2 DEF txs

-----------------------------------------------------------------------------
(* What is compiled                                                        *)

\* The transactions of Pump, one by one.
FollowUpTx ==
    Tx("follow-up",
       IF plan.transport = "jito-bundle" THEN 0 ELSE config.tx.price,
       IF plan.inlineTip THEN config.tx.tip ELSE 0)

TipTx == Tx("jito-tip", 0, config.tx.tip)

\* Short lists of transactions, put together.
LEMMA Joined ==
    ASSUME NEW a \in TxType, NEW b \in TxType, NEW c \in TxType
    PROVE  /\ <<a>> \o <<>> = <<a>> /\ <<a>> \o <<b>> = <<a, b>>
           /\ <<a, b>> \o <<>> = <<a, b>> /\ <<a, b>> \o <<c>> = <<a, b, c>>
           /\ <<>> \in Seq(TxType) /\ <<a>> \in Seq(TxType)
           /\ <<a, b>> \in Seq(TxType) /\ <<a, b, c>> \in Seq(TxType)
<1>1. /\ <<>> \in Seq(TxType) /\ <<a>> \in Seq(TxType)
      /\ <<a, b>> \in Seq(TxType) /\ <<a, b, c>> \in Seq(TxType)
  OBVIOUS
<1>2. <<a>> \o <<>> = <<a>> /\ <<a, b>> \o <<>> = <<a, b>>
  BY <1>1, ConcatEmptySeq
<1>3. <<a>> \o <<b>> = <<a, b>>
  <2> DEFINE s == <<a>>
             t == <<b>>
             u == <<a, b>>
  <2>1. /\ s \in Seq(TxType) /\ t \in Seq(TxType) /\ u \in Seq(TxType)
        /\ Len(s) = 1 /\ Len(t) = 1 /\ Len(u) = 2
        /\ s[1] = a /\ t[1] = b /\ u[1] = a /\ u[2] = b
    BY <1>1
  <2> HIDE DEF s, t, u
  <2>2. /\ s \o t \in Seq(TxType) /\ Len(s \o t) = 2
        /\ \A i \in 1..2 : (s \o t)[i] = IF i <= 1 THEN s[i] ELSE t[i - 1]
    BY <2>1, ConcatProperties
  <2>3. \A i \in 1..Len(s \o t) : (s \o t)[i] = u[i]
    BY <2>1, <2>2
  <2>4. s \o t = u
    BY <2>1, <2>2, <2>3, SeqEqual
  <2> QED BY <2>4 DEF s, t, u
<1>4. <<a, b>> \o <<c>> = <<a, b, c>>
  <2> DEFINE s == <<a, b>>
             t == <<c>>
             u == <<a, b, c>>
  <2>1. /\ s \in Seq(TxType) /\ t \in Seq(TxType) /\ u \in Seq(TxType)
        /\ Len(s) = 2 /\ Len(t) = 1 /\ Len(u) = 3
        /\ s[1] = a /\ s[2] = b /\ t[1] = c /\ u[1] = a /\ u[2] = b /\ u[3] = c
    BY <1>1
  <2> HIDE DEF s, t, u
  <2>2. /\ s \o t \in Seq(TxType) /\ Len(s \o t) = Len(s) + Len(t)
        /\ \A i \in 1..Len(s) + Len(t) :
                (s \o t)[i] = IF i <= Len(s) THEN s[i] ELSE t[i - Len(s)]
    BY <2>1, ConcatProperties
  <2>3. \A i \in 1..Len(s \o t) : (s \o t)[i] = u[i]
    BY <2>1, <2>2
  <2>4. s \o t = u
    BY <2>1, <2>2, <2>3, SeqEqual
  <2> QED BY <2>4 DEF s, t, u
<1> QED BY <1>1, <1>2, <1>3, <1>4

\* Before the compilation there is nothing.
LEMMA NothingTyped ==
    /\ Nothing \in BuiltType
    /\ Nothing.deferred = <<>> /\ Nothing.setup = <<>>
<1>1. <<>> \in Seq(TxType)
  OBVIOUS
<1> QED BY <1>1 DEF Nothing, BuiltType

\* What the Pump compiler builds.
LEMMA PumpTyped ==
    ASSUME ConfigInv
    PROVE  PumpLaunch \in TxType /\ FollowUpTx \in TxType /\ TipTx \in TxType
<1>1. config.tx.price \in Nat /\ config.tx.tip \in Nat
  BY LegTyped DEF ConfigInv
<1> QED BY <1>1 DEF PumpLaunch, FollowUpTx, TipTx, Tx, TxType

\* The lists of the Pump compiler, by what they hold.
LEMMA PumpLists ==
    ASSUME ConfigInv
    PROVE  /\ PumpFollowUp = IF HasFollowUp(config) THEN <<FollowUpTx>> ELSE <<>>
           /\ <<PumpLaunch>> \o PumpTip =
                IF SeparateTip THEN <<PumpLaunch, TipTx>> ELSE <<PumpLaunch>>
           /\ <<PumpLaunch>> \o PumpFollowUp \o PumpTip =
                IF HasFollowUp(config)
                THEN IF SeparateTip THEN <<PumpLaunch, FollowUpTx, TipTx>>
                                    ELSE <<PumpLaunch, FollowUpTx>>
                ELSE IF SeparateTip THEN <<PumpLaunch, TipTx>> ELSE <<PumpLaunch>>
<1>1. PumpFollowUp = IF HasFollowUp(config) THEN <<FollowUpTx>> ELSE <<>>
  BY DEF PumpFollowUp, FollowUpTx
<1>2. PumpTip = IF SeparateTip THEN <<TipTx>> ELSE <<>>
  BY DEF PumpTip, TipTx
<1>3. PumpLaunch \in TxType /\ FollowUpTx \in TxType /\ TipTx \in TxType
  BY PumpTyped
<1>4. <<PumpLaunch>> \o PumpTip = IF SeparateTip THEN <<PumpLaunch, TipTx>> ELSE <<PumpLaunch>>
  <2>1. /\ <<PumpLaunch>> \o <<>> = <<PumpLaunch>>
        /\ <<PumpLaunch>> \o <<TipTx>> = <<PumpLaunch, TipTx>>
    BY <1>3, Joined
  <2> QED BY <1>2, <2>1
<1>5. <<PumpLaunch>> \o PumpFollowUp =
        IF HasFollowUp(config) THEN <<PumpLaunch, FollowUpTx>> ELSE <<PumpLaunch>>
  <2>1. /\ <<PumpLaunch>> \o <<>> = <<PumpLaunch>>
        /\ <<PumpLaunch>> \o <<FollowUpTx>> = <<PumpLaunch, FollowUpTx>>
    BY <1>3, Joined
  <2> QED BY <1>1, <2>1
<1>6. CASE HasFollowUp(config)
  <2>1. <<PumpLaunch, FollowUpTx>> \o PumpTip =
            IF SeparateTip THEN <<PumpLaunch, FollowUpTx, TipTx>> ELSE <<PumpLaunch, FollowUpTx>>
    <3>1. /\ <<PumpLaunch, FollowUpTx>> \o <<>> = <<PumpLaunch, FollowUpTx>>
          /\ <<PumpLaunch, FollowUpTx>> \o <<TipTx>> = <<PumpLaunch, FollowUpTx, TipTx>>
      BY <1>3, Joined
    <3> QED BY <1>2, <3>1
  <2> QED BY <1>1, <1>4, <1>5, <1>6, <2>1
<1>7. CASE ~HasFollowUp(config)
  BY <1>1, <1>4, <1>5, <1>7
<1> QED BY <1>6, <1>7

\* A list of the Bonk compiler: no follow-up, and each part pays.
LEMMA BonkTyped ==
    ASSUME ConfigInv, NEW parts \in BonkLists
    PROVE  /\ BonkParts(parts) \in Seq(TxType)
           /\ DOMAIN BonkParts(parts) = 1..Len(parts)
           /\ Len(parts) \in 1..3
           /\ \A i \in 1..Len(parts) :
                /\ BonkParts(parts)[i].part # "follow-up"
                /\ BonkParts(parts)[i].price = config.tx.price
                /\ ~Secure(config.creation) \/ i = Len(parts)
                    => BonkParts(parts)[i].tip = config.tx.tip
<1>1. config.tx.price \in Nat /\ config.tx.tip \in Nat
  BY LegTyped DEF ConfigInv
<1>2. /\ Len(parts) \in 1..3 /\ DOMAIN parts = 1..Len(parts)
      /\ \A i \in 1..Len(parts) : parts[i] \in {"launch", "topup", "launch-2"}
  BY DEF BonkLists
<1> DEFINE T(i) == Tx(parts[i], config.tx.price,
                      IF Secure(config.creation) /\ i # Len(parts) THEN 0 ELSE config.tx.tip)
<1>3. BonkParts(parts) = [i \in 1..Len(parts) |-> T(i)]
  BY <1>2 DEF BonkParts
<1>4. \A i \in 1..Len(parts) :
        /\ T(i) \in TxType /\ T(i).part # "follow-up" /\ T(i).price = config.tx.price
        /\ ~Secure(config.creation) \/ i = Len(parts) => T(i).tip = config.tx.tip
  BY <1>1, <1>2 DEF Tx, TxType
<1> HIDE DEF T
<1>5. BonkParts(parts) \in Seq(TxType)
  <2> DEFINE n == Len(parts)
  <2>1. n \in Nat
    BY <1>2
  <2>2. \A i \in 1..n : T(i) \in TxType
    BY <1>4
  <2> HIDE DEF n
  <2>3. [i \in 1..n |-> T(i)] \in Seq(TxType)
    BY <2>1, <2>2
  <2> QED BY <1>3, <2>3 DEF n
<1>6. /\ DOMAIN BonkParts(parts) = 1..Len(parts)
      /\ \A i \in 1..Len(parts) : BonkParts(parts)[i] = T(i)
  BY <1>3
<1> QED BY <1>2, <1>4, <1>5, <1>6

\* What the Bags service builds.
LEMMA BagsTyped ==
    ASSUME ConfigInv
    PROVE  BagsSetupTip \in Nat /\ BagsLaunch \in Seq(TxType)
<1>1. config.tx.price \in Nat /\ config.tx.tip \in Nat /\ config.creation.provider \in Providers
  BY LegTyped DEF ConfigInv, LegType
<1>2. BagsSetupTip \in Nat
  BY <1>1, Parameters DEF BagsSetupTip, Most
<1>3. Tx("launch", config.tx.price, config.tx.tip) \in TxType
  BY <1>1 DEF Tx, TxType
<1> QED BY <1>2, <1>3 DEF BagsLaunch

\* The Pump compiler.
LEMMA PumpBuilt ==
    ASSUME ConfigInv, BuiltOK, CompilePump
    PROVE  BuiltOK'
<1>1. CASE stage' = "refused" /\ built' = built
  BY <1>1 DEF BuiltOK, BuiltInv
<1>2. CASE stage' = "compiled" /\ built' = [Nothing EXCEPT
                !.creation = <<PumpLaunch>> \o PumpTip,
                !.compiled = <<PumpLaunch>> \o PumpFollowUp \o PumpTip,
                !.deferred = PumpFollowUp]
  <2>1. /\ config' = config /\ plan' = plan /\ config.launchpad = "pump"
    BY DEF CompilePump, Compiled
  <2>2. /\ built'.creation = <<PumpLaunch>> \o PumpTip
        /\ built'.compiled = <<PumpLaunch>> \o PumpFollowUp \o PumpTip
        /\ built'.deferred = PumpFollowUp /\ built'.setup = <<>>
    BY <1>2 DEF Nothing
  <2>3. /\ <<PumpLaunch>> \o PumpTip \in Seq(TxType) /\ PumpFollowUp \in Seq(TxType)
        /\ <<PumpLaunch>> \o PumpFollowUp \o PumpTip \in Seq(TxType)
    BY PumpLists, PumpTyped, Joined
  <2>4. built' \in BuiltType
    BY <1>2, <2>3, NothingTyped DEF BuiltType
  <2>5. PumpLaunch' = PumpLaunch /\ PumpTip' = PumpTip /\ PumpFollowUp' = PumpFollowUp
    BY <2>1 DEF PumpLaunch, PumpTip, PumpFollowUp, SeparateTip
  <2>6. BuiltInv'
    BY <1>2, <2>1, <2>2, <2>5 DEF BuiltInv
  <2> QED BY <2>4, <2>6 DEF BuiltOK
<1> QED BY <1>1, <1>2 DEF CompilePump, Compiled

\* The Bonk compiler.
LEMMA BonkBuilt ==
    ASSUME ConfigInv, BuiltOK, CompileBonk
    PROVE  BuiltOK'
<1>1. PICK parts \in BonkLists :
        Compiled("compiled", [Nothing EXCEPT !.creation = BonkParts(parts),
                                             !.compiled = BonkParts(parts)])
  BY DEF CompileBonk, BonkLists
<1>2. /\ stage' = "compiled" /\ config' = config /\ plan' = plan /\ config.launchpad = "bonk"
      /\ built' = [Nothing EXCEPT !.creation = BonkParts(parts), !.compiled = BonkParts(parts)]
  BY <1>1 DEF CompileBonk, Compiled
<1>3. BonkParts(parts) \in Seq(TxType)
  BY BonkTyped
<1>4. /\ built' \in BuiltType
      /\ built'.creation = BonkParts(parts) /\ built'.compiled = BonkParts(parts)
      /\ built'.deferred = <<>> /\ built'.setup = <<>>
  BY <1>2, <1>3, NothingTyped DEF BuiltType
<1>5. BonkParts(parts)' = BonkParts(parts)
  BY <1>2 DEF BonkParts
<1> QED BY <1>2, <1>4, <1>5 DEF BuiltOK, BuiltInv

\* The setup of Bags.
LEMMA BagsBuilt ==
    ASSUME ConfigInv, BuiltOK, CompileBags
    PROVE  BuiltOK'
<1>1. PICK bundled \in 0..1, direct \in 0..1 :
        LET bundle == [i \in 1..bundled |->
                        Tx("setup", config.tx.price,
                           IF Secure(config.creation) THEN 0 ELSE BagsSetupTip)]
            setup == bundle \o [i \in 1..direct |->
                        Tx("setup", config.tx.price, BagsSetupTip)]
        IN  Compiled("compiled", [Nothing EXCEPT !.setup = setup, !.compiled = setup])
  BY DEF CompileBags
<1> DEFINE S == {t \in TxType : t.part = "setup"}
           bundle == [i \in 1..bundled |->
                        Tx("setup", config.tx.price,
                           IF Secure(config.creation) THEN 0 ELSE BagsSetupTip)]
           rest == [i \in 1..direct |-> Tx("setup", config.tx.price, BagsSetupTip)]
           setup == bundle \o rest
<1>2. /\ stage' = "compiled" /\ config' = config /\ plan' = plan /\ config.launchpad = "bagsapp"
      /\ built' = [Nothing EXCEPT !.setup = setup, !.compiled = setup]
  BY <1>1 DEF CompileBags, Compiled
<1>3. config.tx.price \in Nat /\ BagsSetupTip \in Nat
  BY LegTyped, BagsTyped DEF ConfigInv
<1>4. /\ Tx("setup", config.tx.price, BagsSetupTip) \in S
      /\ Tx("setup", config.tx.price, IF Secure(config.creation) THEN 0 ELSE BagsSetupTip) \in S
  BY <1>3 DEF Tx, TxType
<1>5. bundle \in Seq(S) /\ rest \in Seq(S)
  <2> HIDE DEF S
  <2> QED BY <1>4
<1>6. setup \in Seq(S)
  <2> HIDE DEF S, bundle, rest
  <2> QED BY <1>5
<1>7. setup \in Seq(TxType) /\ \A i \in DOMAIN setup : setup[i].part = "setup"
  <2>1. \A i \in DOMAIN setup : setup[i] \in S
    <3> HIDE DEF S, setup
    <3> QED BY <1>6
  <2>2. Seq(S) \subseteq Seq(TxType)
    <3> SUFFICES ASSUME NEW q \in Seq(S) PROVE q \in Seq(TxType)
      OBVIOUS
    <3>1. q \in [1..Len(q) -> S] /\ Len(q) \in Nat
      OBVIOUS
    <3>2. q \in [1..Len(q) -> TxType]
      BY <3>1
    <3> QED BY <3>1, <3>2
  <2> QED BY <1>6, <2>1, <2>2
<1> HIDE DEF setup
<1>8. /\ built' \in BuiltType /\ built'.setup = setup
      /\ built'.compiled = setup /\ built'.deferred = <<>>
  BY <1>2, <1>7, NothingTyped DEF BuiltType
<1> QED BY <1>2, <1>7, <1>8 DEF BuiltOK, BuiltInv

\* The second part of the invariant is kept.
LEMMA BuiltStep ==
    ASSUME ConfigInv, BuiltOK, [BuildNext]_buildVars
    PROVE  BuiltOK'
<1>1. CASE CompilePump
  BY <1>1, PumpBuilt
<1>2. CASE CompileBonk
  BY <1>2, BonkBuilt
<1>3. CASE CompileBags
  BY <1>3, BagsBuilt
<1>4. CASE UNCHANGED buildVars
  BY <1>4 DEF buildVars, BuiltOK, BuiltInv, PumpLaunch, PumpTip, PumpFollowUp, SeparateTip,
              BonkParts, BagsLaunch
<1>5. CASE Validate \/ PlanTransport \/ ResolveFees \/ FeesRefused \/ Guard
  <2>1. /\ stage' \in {"valid", "refused", "planned", "priced", "guarded"}
        /\ built' = built
    BY <1>5 DEF Validate, PlanTransport, ResolveFees, FeesRefused, Guard
  <2> QED BY <2>1 DEF BuiltOK, BuiltInv
<1>6. CASE Report \/ Simulate \/ NoLaunch
  BY <1>6 DEF Report, Simulate, NoLaunch, BuiltOK, BuiltInv
<1>7. CASE CompileBagsLaunch
  <2>1. /\ stage = "set up" /\ stage' = "launchable" /\ config' = config /\ plan' = plan
        /\ built' = [built EXCEPT !.compiled = BagsLaunch]
    BY <1>7 DEF CompileBagsLaunch
  <2>2. config.launchpad = "bagsapp" /\ built.deferred = <<>>
    BY <2>1 DEF BuiltOK, BuiltInv
  <2>3. /\ built' \in BuiltType /\ built'.compiled = BagsLaunch
        /\ built'.deferred = built.deferred
    BY <2>1, BagsTyped DEF BuiltOK, BuiltType
  <2>4. BagsLaunch' = BagsLaunch
    BY <2>1 DEF BagsLaunch
  <2> QED BY <2>1, <2>2, <2>3, <2>4 DEF BuiltOK, BuiltInv
<1>8. CASE SubmitSetup
  <2>1. /\ stage = "compiled" /\ stage' \in {"set up", "failed"} /\ built.setup # <<>>
        /\ UNCHANGED <<config, plan, built>>
    BY <1>8 DEF SubmitSetup, Submit
  <2>2. config.launchpad = "bagsapp" /\ built.deferred = <<>>
    BY <2>1 DEF BuiltOK, BuiltInv
  <2> QED BY <2>1, <2>2 DEF BuiltOK, BuiltInv
<1>9. CASE SubmitLaunch
  <2>1. /\ stage \in {"compiled", "launchable"} /\ stage' \in {"launched", "failed"}
        /\ UNCHANGED <<config, plan, built>>
    BY <1>9 DEF SubmitLaunch, Submit
  <2>2. PumpFollowUp' = PumpFollowUp
    BY <2>1 DEF PumpFollowUp
  <2> QED BY <2>1, <2>2 DEF BuiltOK, BuiltInv
<1>10. CASE SubmitSameTime \/ SubmitDeferred \/ SubmitBuy \/ SubmitDevSell \/ SubmitSnipeSell
  <2>1. /\ stage = "launched" /\ stage' = "launched" /\ UNCHANGED <<config, plan, built>>
    BY <1>10 DEF SubmitSameTime, SubmitDeferred, SubmitBuy, SubmitDevSell, SubmitSnipeSell, Follow
  <2>2. PumpFollowUp' = PumpFollowUp
    BY <2>1 DEF PumpFollowUp
  <2> QED BY <2>1, <2>2 DEF BuiltOK, BuiltInv
<1> QED BY <1>1, <1>2, <1>3, <1>4, <1>5, <1>6, <1>7, <1>8, <1>9, <1>10 DEF BuildNext

-----------------------------------------------------------------------------
(* What is submitted pays                                                  *)

\* The fees of the creation, as far as transports look at them.
LEMMA CreationFees ==
    ASSUME ConfigInv, Priced
    PROVE  /\ config.creation \in LegType
           /\ config.tx.price \in Nat /\ config.tx.tip \in Nat
           /\ config.creation.provider \in {"helius-sender", "hellomoon"} => config.tx.price > 0
           /\ config.tx.tip >= MinTip[config.creation.provider]
BY LegTyped DEF ConfigInv, PricedInv, CreationPays

\* A launch on Pump pays.
LEMMA PumpLaunchPays ==
    ASSUME ConfigInv, BuiltOK, stage = "compiled", config.launchpad = "pump"
    PROVE  PaysEnough(Submission("host", "launch", plan.transport, LaunchTxs))
<1> DEFINE leg == config.creation
<1>1. Priced /\ Planned
  BY DEF Priced, Planned
<1>2. /\ leg \in LegType /\ config.tx.price \in Nat /\ config.tx.tip \in Nat
      /\ leg.provider \in {"helius-sender", "hellomoon"} => config.tx.price > 0
      /\ config.tx.tip >= MinTip[leg.provider]
  BY <1>1, CreationFees
<1>3. /\ plan.transport = Transport(leg)
      /\ plan.inlineTip <=>
            plan.transport \in {"helius-sender", "hellomoon-quic", "hellomoon-bundle"}
      /\ plan.separateTip <=> plan.transport = "jito-bundle"
  BY <1>1, PlanIs
<1>4. /\ built.creation = IF SeparateTip THEN <<PumpLaunch, TipTx>> ELSE <<PumpLaunch>>
      /\ ~SeparateTip => built.compiled = IF HasFollowUp(config) THEN <<PumpLaunch, FollowUpTx>>
                                                                 ELSE <<PumpLaunch>>
  BY PumpLists DEF BuiltOK, BuiltInv
<1>5. LaunchTxs = IF plan.transport = "hellomoon-bundle" THEN built.compiled ELSE built.creation
  BY DEF LaunchTxs
<1>6. SeparateTip <=> plan.transport = "jito-bundle" /\ config.tx.tip > 0
  BY <1>3 DEF SeparateTip
<1>7. plan.transport # "jito-bundle"
        => PumpLaunch.price = config.tx.price /\ FollowUpTx.price = config.tx.price
  BY DEF PumpLaunch, FollowUpTx, Tx
<1>8. /\ ~SeparateTip /\ ~(plan.transport = "hellomoon-bundle" /\ HasFollowUp(config))
            => PumpLaunch.tip = config.tx.tip
      /\ plan.transport = "hellomoon-bundle" => FollowUpTx.tip = config.tx.tip
      /\ TipTx.tip = config.tx.tip
  BY <1>3 DEF PumpLaunch, FollowUpTx, TipTx, Tx
<1> HIDE DEF leg
<1>9. CASE plan.transport = "hellomoon-bundle"
  <2>1. leg.provider = "hellomoon" /\ leg.secure
    BY <1>2, <1>3, <1>9, TransportIs
  <2>2. CASE HasFollowUp(config)
    <3>1. LaunchTxs = <<PumpLaunch, FollowUpTx>>
      BY <1>4, <1>5, <1>6, <1>9, <2>2
    <3>2. /\ 2 \in DOMAIN LaunchTxs /\ LaunchTxs[2].tip = config.tx.tip
          /\ \A i \in DOMAIN LaunchTxs : LaunchTxs[i].price = config.tx.price
      BY <1>7, <1>8, <1>9, <3>1
    <3> HIDE DEF LaunchTxs
    <3> QED BY <1>2, <1>3, <2>1, <3>2, AllPay
  <2>3. CASE ~HasFollowUp(config)
    <3>1. LaunchTxs = <<PumpLaunch>>
      BY <1>4, <1>5, <1>6, <1>9, <2>3
    <3>2. /\ 1 \in DOMAIN LaunchTxs /\ LaunchTxs[1].tip = config.tx.tip
          /\ \A i \in DOMAIN LaunchTxs : LaunchTxs[i].price = config.tx.price
      BY <1>6, <1>7, <1>8, <1>9, <2>3, <3>1
    <3> QED BY <1>2, <1>3, <2>1, <3>2, AllPay
  <2> QED BY <2>2, <2>3
<1>10. CASE plan.transport # "hellomoon-bundle" /\ ~SeparateTip
  <2>1. LaunchTxs = <<PumpLaunch>>
    BY <1>4, <1>5, <1>10
  <2>2. /\ 1 \in DOMAIN LaunchTxs
        /\ \A i \in DOMAIN LaunchTxs :
            /\ LaunchTxs[i].tip = config.tx.tip
            /\ plan.transport # "jito-bundle" => LaunchTxs[i].price = config.tx.price
    BY <1>7, <1>8, <1>10, <2>1
  <2>3. leg.provider \in {"helius-sender", "hellomoon"} => plan.transport # "jito-bundle"
    BY <1>2, <1>3, TransportIs
  <2> QED BY <1>2, <1>3, <2>2, <2>3, AllPay
<1>11. CASE SeparateTip
  <2>1. leg.provider = "jito-bundle"
    BY <1>2, <1>3, <1>6, <1>11, TransportIs
  <2>2. LaunchTxs = <<PumpLaunch, TipTx>>
    BY <1>4, <1>5, <1>6, <1>11
  <2>3. 2 \in DOMAIN LaunchTxs /\ LaunchTxs[2].tip = config.tx.tip
    BY <1>8, <2>2
  <2> QED BY <1>2, <1>3, <2>1, <2>3, AllPay
<1> QED BY <1>6, <1>9, <1>10, <1>11

\* A launch on Bonk pays.
LEMMA BonkLaunchPays ==
    ASSUME ConfigInv, BuiltOK, stage = "compiled", config.launchpad = "bonk"
    PROVE  PaysEnough(Submission("host", "launch", plan.transport, LaunchTxs))
<1>1. Priced /\ Planned
  BY DEF Priced, Planned
<1>2. PICK parts \in BonkLists : LaunchTxs = BonkParts(parts)
  BY DEF BuiltOK, BuiltInv, LaunchTxs
<1> DEFINE n == Len(parts)
<1>3. /\ DOMAIN LaunchTxs = 1..n /\ n \in 1..3
      /\ \A i \in 1..n :
            /\ LaunchTxs[i].price = config.tx.price
            /\ ~Secure(config.creation) \/ i = n => LaunchTxs[i].tip = config.tx.tip
  BY <1>2, BonkTyped
<1> HIDE DEF n
<1>4. n \in DOMAIN LaunchTxs
  BY <1>3
<1>5. /\ \A i \in DOMAIN LaunchTxs :
            /\ LaunchTxs[i].price = config.tx.price
            /\ ~(config.creation.provider = "hellomoon" /\ config.creation.secure)
                => LaunchTxs[i].tip = config.tx.tip
      /\ LaunchTxs[n].tip = config.tx.tip
  BY <1>3, <1>4 DEF Secure
<1>6. plan.transport = Transport(config.creation)
  BY <1>1, PlanIs
<1> QED BY <1>1, <1>4, <1>5, <1>6, CreationFees, AllPay

\* A launch on Bags pays.
LEMMA BagsLaunchPays ==
    ASSUME ConfigInv, BuiltOK, stage = "launchable"
    PROVE  PaysEnough(Submission("host", "launch", plan.transport, LaunchTxs))
<1>1. Priced /\ Planned
  BY DEF Priced, Planned
<1>2. LaunchTxs = BagsLaunch
  BY DEF BuiltOK, BuiltInv, LaunchTxs
<1>3. /\ DOMAIN LaunchTxs = {1} /\ LaunchTxs[1].price = config.tx.price
      /\ LaunchTxs[1].tip = config.tx.tip
  BY <1>2 DEF BagsLaunch, Tx
<1>4. plan.transport = Transport(config.creation)
  BY <1>1, PlanIs
<1> QED BY <1>1, <1>3, <1>4, CreationFees, AllPay

\* The deferred setup is the follow-up of Pump, outside a Hello Moon bundle.
LEMMA DeferredIs ==
    ASSUME ConfigInv, BuiltOK, stage = "launched"
    PROVE  DeferredSetup = IF HasFollowUp(config) /\ plan.transport # "hellomoon-bundle"
                           THEN <<FollowUpTx>> ELSE <<>>
<1>1. ModeAgrees(config)
  BY DEF ConfigInv, AgreesInv
<1>2. HasFollowUp(config) => config.launchpad = "pump"
  <2>1. config.launchpad \in {"pump", "bonk", "bagsapp"}
    BY DEF ConfigInv, ConfigType
  <2> QED BY <1>1, <2>1 DEF ModeAgrees, HasFollowUp
<1>3. built.deferred = IF config.launchpad = "pump" THEN PumpFollowUp ELSE <<>>
  BY DEF BuiltOK, BuiltInv
<1> QED BY <1>2, <1>3, PumpLists DEF DeferredSetup

\* So does the second transaction when the daemon sends it, unless over Jito.
LEMMA DeferredPays ==
    ASSUME ConfigInv, BuiltOK, stage = "launched", DeferredSetup # <<>>,
           plan.transport # "jito-bundle"
    PROVE  PaysEnough(Submission("daemon", "deferred", plan.transport, DeferredSetup))
<1>1. Priced /\ Planned
  BY DEF Priced, Planned
<1>2. DeferredSetup = <<FollowUpTx>> /\ plan.transport # "hellomoon-bundle"
  BY DeferredIs
<1>3. /\ plan.transport = Transport(config.creation)
      /\ plan.inlineTip <=>
            plan.transport \in {"helius-sender", "hellomoon-quic", "hellomoon-bundle"}
  BY <1>1, PlanIs
<1>4. /\ DOMAIN DeferredSetup = {1} /\ DeferredSetup[1].price = config.tx.price
      /\ plan.inlineTip => DeferredSetup[1].tip = config.tx.tip
  BY <1>2 DEF FollowUpTx, Tx
<1>5. config.creation.provider # "standard-rpc" => DeferredSetup[1].tip = config.tx.tip
  BY <1>1, <1>3, <1>4, CreationFees, TransportIs
<1> HIDE DEF DeferredSetup
<1> QED BY <1>1, <1>3, <1>4, <1>5, CreationFees, AllPay

-----------------------------------------------------------------------------
(* Submissions                                                             *)

\* What one more submission adds to a list.
LEMMA Appended ==
    ASSUME NEW list \in Seq(SubmissionType), NEW s \in SubmissionType
    PROVE  /\ Append(list, s) \in Seq(SubmissionType)
           /\ DOMAIN Append(list, s) = DOMAIN list \union {Len(list) + 1}
           /\ Len(list) + 1 \notin DOMAIN list
           /\ Append(list, s)[Len(list) + 1] = s
           /\ \A i \in DOMAIN list : Append(list, s)[i] = list[i]
BY AppendProperties, LenProperties

\* And the follow-ups in it.
LEMMA AppendedFollowUps ==
    ASSUME NEW list \in Seq(SubmissionType), NEW s \in SubmissionType
    PROVE  FollowUpsIn(Append(list, s)) =
              FollowUpsIn(list)
              \union {Len(list) + 1} \X {j \in DOMAIN s.txs : s.txs[j].part = "follow-up"}
<1> DEFINE longer == Append(list, s)
           new == Len(list) + 1
           At(l, i) == {i} \X {j \in DOMAIN l[i].txs : l[i].txs[j].part = "follow-up"}
<1>1. /\ DOMAIN longer = DOMAIN list \union {new} /\ longer[new] = s
      /\ \A i \in DOMAIN list : longer[i] = list[i]
  BY Appended
<1>2. /\ FollowUpsIn(longer) = UNION {At(longer, i) : i \in DOMAIN longer}
      /\ FollowUpsIn(list) = UNION {At(list, i) : i \in DOMAIN list}
  BY DEF FollowUpsIn
<1>3. /\ At(longer, new) = {new} \X {j \in DOMAIN s.txs : s.txs[j].part = "follow-up"}
      /\ \A i \in DOMAIN list : At(longer, i) = At(list, i)
  <2> HIDE DEF longer, new
  <2> QED BY <1>1
<1> HIDE DEF longer, new, At
<1>4. FollowUpsIn(longer) = FollowUpsIn(list) \union At(longer, new)
  BY <1>1, <1>2, <1>3
<1> QED BY <1>3, <1>4 DEF longer, new

\* A submission without the follow-up leaves them as they are, one with it adds one.
LEMMA FollowUpsAfter ==
    ASSUME NEW list \in Seq(SubmissionType), NEW s \in SubmissionType
    PROVE  /\ (\A j \in DOMAIN s.txs : s.txs[j].part # "follow-up")
                => FollowUpsIn(Append(list, s)) = FollowUpsIn(list)
           /\ \A k \in DOMAIN s.txs :
                (\A j \in DOMAIN s.txs : s.txs[j].part = "follow-up" <=> j = k)
                /\ FollowUpsIn(list) = {}
                => FollowUpsIn(Append(list, s)) = {<<Len(list) + 1, k>>}
<1> DEFINE new == Len(list) + 1
           J == {j \in DOMAIN s.txs : s.txs[j].part = "follow-up"}
<1>1. FollowUpsIn(Append(list, s)) = FollowUpsIn(list) \union {new} \X J
  BY AppendedFollowUps
<1>2. ASSUME \A j \in DOMAIN s.txs : s.txs[j].part # "follow-up"
      PROVE  FollowUpsIn(Append(list, s)) = FollowUpsIn(list)
  <2>1. J = {}
    BY <1>2
  <2> HIDE DEF J, new
  <2>2. {new} \X J = {}
    BY <2>1
  <2> QED BY <1>1, <2>2
<1>3. ASSUME NEW k \in DOMAIN s.txs,
             \A j \in DOMAIN s.txs : s.txs[j].part = "follow-up" <=> j = k,
             FollowUpsIn(list) = {}
      PROVE  FollowUpsIn(Append(list, s)) = {<<new, k>>}
  <2>1. J = {k}
    BY <1>3
  <2> HIDE DEF J, new
  <2>2. {new} \X {k} = {<<new, k>>}
    OBVIOUS
  <2> QED BY <1>1, <1>3, <2>1, <2>2
<1> QED BY <1>2, <1>3

\* Follow-ups are counted in the list of submissions alone.
LEMMA SentFollowUps ==
    ASSUME NEW longer, sent' = longer
    PROVE  FollowUpsIn(sent)' = FollowUpsIn(longer)
BY DEF FollowUpsIn

\* One more submission, in the state.
LEMMA Sent ==
    ASSUME sent \in Seq(SubmissionType), SentPays, NEW s \in SubmissionType,
           sent' = Append(sent, s),
           ~(s.what = "deferred" /\ s.transport = "jito-bundle") /\ s.what # "snipe-sell"
                => PaysEnough(s)
    PROVE  /\ (sent \in Seq(SubmissionType))' /\ SentPays'
           /\ \A what : Done(what)' <=> Done(what) \/ s.what = what
<1> DEFINE longer == Append(sent, s)
           new == Len(sent) + 1
<1>1. /\ longer \in Seq(SubmissionType)
      /\ DOMAIN longer = DOMAIN sent \union {new} /\ longer[new] = s
      /\ \A i \in DOMAIN sent : longer[i] = sent[i]
  BY Appended
<1>2. sent' = longer
  OBVIOUS
<1> HIDE DEF longer, new
<1>3. SentPays'
  BY <1>1, <1>2 DEF SentPays
<1>4. ASSUME NEW what PROVE Done(what)' <=> Done(what) \/ s.what = what
  <2>1. Done(what)' <=> \E i \in DOMAIN longer : longer[i].what = what
    BY <1>2 DEF Done
  <2> QED BY <1>1, <2>1 DEF Done
<1> QED BY <1>1, <1>2, <1>3, <1>4

\* The setup of Bags is sent.
LEMMA SetupSent ==
    ASSUME ConfigInv, BuiltOK, SentOK, SubmitSetup
    PROVE  SentOK'
<1> DEFINE s == Submission("host", "setup", "standard-rpc-fanout", built.setup)
<1>1. /\ stage = "compiled" /\ stage' \in {"set up", "failed"} /\ built.setup # <<>>
      /\ sent' = Append(sent, s) /\ UNCHANGED <<config, plan, built>>
  BY DEF SubmitSetup, Submit
<1>2. \A i \in DOMAIN built.setup : built.setup[i].part = "setup"
  <2>1. config.launchpad \in {"pump", "bonk", "bagsapp"}
    BY DEF ConfigInv, ConfigType
  <2> QED BY <1>1, <2>1 DEF BuiltOK, BuiltInv
<1>3. /\ s \in SubmissionType /\ s.what = "setup"
      /\ \A j \in DOMAIN s.txs : s.txs[j].part # "follow-up"
      /\ PaysEnough(s)
  <2>1. built.setup \in Seq(TxType)
    BY DEF BuiltOK, BuiltType
  <2>2. s.txs = built.setup /\ s.transport = "standard-rpc-fanout" /\ s.what = "setup"
    BY DEF Submission
  <2>3. s \in SubmissionType
    BY <2>1 DEF Submission, SubmissionType, Transports
  <2> QED BY <1>2, <2>2, <2>3, TakesIs DEF PaysEnough
<1> HIDE DEF s
<1>4. /\ (sent \in Seq(SubmissionType))' /\ SentPays'
      /\ Done("deferred")' <=> Done("deferred")
  BY <1>1, <1>3, Sent DEF SentOK
<1>5. FollowUpsIn(sent)' = FollowUpsIn(sent)
  <2>1. FollowUpsIn(Append(sent, s)) = FollowUpsIn(sent)
    BY <1>3, FollowUpsAfter DEF SentOK
  <2>2. FollowUpsIn(sent)' = FollowUpsIn(Append(sent, s))
    BY <1>1, SentFollowUps
  <2> QED BY <2>1, <2>2
<1>6. DeliveryInv'
  BY <1>1, <1>4, <1>5 DEF SentOK, DeliveryInv
<1> QED BY <1>4, <1>6 DEF SentOK

\* The follow-up is in the launch if that is a bundle of Hello Moon.
LEMMA LaunchFollowUps ==
    ASSUME ConfigInv, BuiltOK,
           \/ stage = "compiled" /\ config.launchpad # "bagsapp"
           \/ stage = "launchable"
    PROVE  /\ LaunchTxs \in Seq(TxType)
           /\ HasFollowUp(config) /\ plan.transport = "hellomoon-bundle" =>
                \E k \in DOMAIN LaunchTxs :
                    \A j \in DOMAIN LaunchTxs : LaunchTxs[j].part = "follow-up" <=> j = k
           /\ ~(HasFollowUp(config) /\ plan.transport = "hellomoon-bundle") =>
                \A j \in DOMAIN LaunchTxs : LaunchTxs[j].part # "follow-up"
<1>1. LaunchTxs \in Seq(TxType)
  BY DEF LaunchTxs, BuiltOK, BuiltType
<1>2. HasFollowUp(config) => config.launchpad = "pump"
  <2>1. config.launchpad \in {"pump", "bonk", "bagsapp"}
    BY DEF ConfigInv, ConfigType
  <2>2. ModeAgrees(config)
    BY DEF ConfigInv, AgreesInv
  <2> QED BY <2>1, <2>2 DEF ModeAgrees, HasFollowUp
<1>3. CASE stage = "launchable"
  <2>1. config.launchpad = "bagsapp" /\ LaunchTxs = BagsLaunch
    BY <1>3 DEF BuiltOK, BuiltInv, LaunchTxs
  <2>2. \A j \in DOMAIN LaunchTxs : LaunchTxs[j].part # "follow-up"
    BY <2>1 DEF BagsLaunch, Tx
  <2> QED BY <1>1, <1>2, <2>1, <2>2
<1>4. CASE stage = "compiled" /\ config.launchpad = "bonk"
  <2>1. PICK parts \in BonkLists : LaunchTxs = BonkParts(parts)
    BY <1>4 DEF BuiltOK, BuiltInv, LaunchTxs
  <2>2. \A j \in DOMAIN LaunchTxs : LaunchTxs[j].part # "follow-up"
    BY <2>1, BonkTyped
  <2> QED BY <1>1, <1>2, <1>4, <2>2
<1>5. CASE stage = "compiled" /\ config.launchpad = "pump"
  <2>1. /\ PumpLaunch.part # "follow-up" /\ FollowUpTx.part = "follow-up"
        /\ TipTx.part # "follow-up"
    BY DEF PumpLaunch, FollowUpTx, TipTx, Tx
  <2>2. SeparateTip => plan.transport = "jito-bundle"
    BY PlanIs, <1>5 DEF SeparateTip, Planned
  <2>3. LaunchTxs = IF plan.transport = "hellomoon-bundle" THEN built.compiled ELSE built.creation
    BY <1>5 DEF LaunchTxs
  <2>4. CASE plan.transport = "hellomoon-bundle"
    <3>1. LaunchTxs = IF HasFollowUp(config) THEN <<PumpLaunch, FollowUpTx>> ELSE <<PumpLaunch>>
      BY <1>5, <2>2, <2>3, <2>4, PumpLists DEF BuiltOK, BuiltInv
    <3>2. HasFollowUp(config) =>
            \A j \in DOMAIN LaunchTxs : LaunchTxs[j].part = "follow-up" <=> j = 2
      BY <2>1, <3>1
    <3>3. HasFollowUp(config) => 2 \in DOMAIN LaunchTxs
      BY <3>1
    <3>4. ~HasFollowUp(config) => \A j \in DOMAIN LaunchTxs : LaunchTxs[j].part # "follow-up"
      BY <2>1, <3>1
    <3> QED BY <1>1, <2>4, <3>2, <3>3, <3>4
  <2>5. CASE plan.transport # "hellomoon-bundle"
    <3>1. LaunchTxs = IF SeparateTip THEN <<PumpLaunch, TipTx>> ELSE <<PumpLaunch>>
      BY <1>5, <2>3, <2>5, PumpLists DEF BuiltOK, BuiltInv
    <3>2. \A j \in DOMAIN LaunchTxs : LaunchTxs[j].part # "follow-up"
      BY <2>1, <3>1
    <3> QED BY <1>1, <2>5, <3>2
  <2> QED BY <2>4, <2>5
<1>6. config.launchpad \in {"pump", "bonk", "bagsapp"}
  BY DEF ConfigInv, ConfigType
<1> QED BY <1>3, <1>4, <1>5, <1>6

\* The launch is sent, with its follow-up in a bundle of Hello Moon.
LEMMA LaunchSent ==
    ASSUME ConfigInv, BuiltOK, SentOK, SubmitLaunch
    PROVE  SentOK'
<1> DEFINE s == Submission("host", "launch", plan.transport, LaunchTxs)
<1>1. /\ stage \in {"compiled", "launchable"} /\ config.action = "send"
      /\ stage = "compiled" => config.launchpad # "bagsapp"
      /\ stage' = IF Takes(s.transport, s.txs) THEN "launched" ELSE "failed"
      /\ sent' = Append(sent, s) /\ UNCHANGED <<config, plan, built>>
  BY DEF SubmitLaunch, Submit
<1>2. PaysEnough(s)
  <2>1. config.launchpad \in {"pump", "bonk", "bagsapp"}
    BY DEF ConfigInv, ConfigType
  <2> QED BY <1>1, <2>1, PumpLaunchPays, BonkLaunchPays, BagsLaunchPays
<1>3. /\ s \in SubmissionType /\ s.what = "launch" /\ s.txs = LaunchTxs
  <2>1. LaunchTxs \in Seq(TxType)
    BY <1>1, LaunchFollowUps
  <2>2. plan.transport \in Transports
    BY <1>1, PlanIs, TransportIs, LegTyped DEF ConfigInv, Planned, Transports
  <2> QED BY <2>1, <2>2 DEF Submission, SubmissionType
<1> HIDE DEF s
<1>4. /\ HasFollowUp(config) /\ plan.transport = "hellomoon-bundle" =>
            \E k \in DOMAIN s.txs :
                \A j \in DOMAIN s.txs : s.txs[j].part = "follow-up" <=> j = k
      /\ ~(HasFollowUp(config) /\ plan.transport = "hellomoon-bundle") =>
            \A j \in DOMAIN s.txs : s.txs[j].part # "follow-up"
  BY <1>1, <1>3, LaunchFollowUps
<1>5. /\ (sent \in Seq(SubmissionType))' /\ SentPays'
      /\ Done("deferred")' <=> Done("deferred")
  BY <1>1, <1>2, <1>3, Sent DEF SentOK
<1>6. FollowUpsIn(sent) = {} /\ ~Done("deferred")
  BY <1>1 DEF SentOK, DeliveryInv
<1>7. stage' = "launched"
  BY <1>1, <1>2 DEF PaysEnough
<1>8. IF HasFollowUp(config) /\ plan.transport = "hellomoon-bundle"
      THEN \E x : FollowUpsIn(Append(sent, s)) = {x} ELSE FollowUpsIn(Append(sent, s)) = {}
  BY <1>3, <1>4, <1>6, FollowUpsAfter DEF SentOK
<1>9. FollowUpsIn(sent)' = FollowUpsIn(Append(sent, s))
  BY <1>1, SentFollowUps
<1>10. Delivered' <=> HasFollowUp(config) /\ plan.transport = "hellomoon-bundle"
  BY <1>1, <1>5, <1>6, <1>7 DEF Delivered
<1>11. DeliveryInv'
  BY <1>1, <1>7, <1>8, <1>9, <1>10 DEF DeliveryInv
<1> QED BY <1>5, <1>11 DEF SentOK

\* What is sent after the launch has the follow-up if it is the deferred setup.
LEMMA FollowSent ==
    ASSUME ConfigInv, BuiltOK, SentOK, stage = "launched", UNCHANGED <<stage, config, plan, built>>,
           NEW s \in SubmissionType, sent' = Append(sent, s),
           ~(s.what = "deferred" /\ s.transport = "jito-bundle") /\ s.what # "snipe-sell"
                => PaysEnough(s),
           \/ s.what # "deferred" /\ \A j \in DOMAIN s.txs : s.txs[j].part # "follow-up"
           \/ /\ s.what = "deferred" /\ ~Done("deferred") /\ s.txs = <<FollowUpTx>>
              /\ HasFollowUp(config) /\ plan.transport # "hellomoon-bundle"
    PROVE  SentOK'
<1>1. /\ (sent \in Seq(SubmissionType))' /\ SentPays'
      /\ Done("deferred")' <=> Done("deferred") \/ s.what = "deferred"
  BY Sent DEF SentOK
<1>2. FollowUpsIn(sent)' = FollowUpsIn(Append(sent, s))
  BY SentFollowUps
<1>3. CASE s.what # "deferred" /\ \A j \in DOMAIN s.txs : s.txs[j].part # "follow-up"
  <2>1. FollowUpsIn(sent)' = FollowUpsIn(sent)
    BY <1>2, <1>3, FollowUpsAfter DEF SentOK
  <2>2. Delivered' <=> Delivered
    BY <1>1, <1>3 DEF Delivered
  <2> QED BY <1>1, <2>1, <2>2 DEF SentOK, DeliveryInv
<1>4. CASE /\ s.what = "deferred" /\ ~Done("deferred") /\ s.txs = <<FollowUpTx>>
           /\ HasFollowUp(config) /\ plan.transport # "hellomoon-bundle"
  <2>1. ~Delivered /\ Delivered'
    BY <1>1, <1>4 DEF Delivered
  <2>2. FollowUpsIn(sent) = {}
    BY <2>1 DEF SentOK, DeliveryInv
  <2>3. 1 \in DOMAIN s.txs /\ \A j \in DOMAIN s.txs : s.txs[j].part = "follow-up" <=> j = 1
    BY <1>4 DEF FollowUpTx, Tx
  <2>4. FollowUpsIn(sent)' = {<<Len(sent) + 1, 1>>}
    BY <1>2, <2>2, <2>3, FollowUpsAfter DEF SentOK
  <2> QED BY <1>1, <2>1, <2>4 DEF SentOK, DeliveryInv
<1> QED BY <1>3, <1>4

\* The transaction of a buy or a sell.
LEMMA FollowTyped ==
    ASSUME NEW leg \in LegType, NEW by \in {"host", "daemon"}, NEW part \in {"buy", "sell"},
           NEW what \in {"same-time", "buy", "dev-sell", "snipe-sell"}
    PROVE  LET s == Submission(by, what, Transport(leg), FollowTx(part, leg)) IN
           /\ s \in SubmissionType /\ s.what = what
           /\ \A j \in DOMAIN s.txs : s.txs[j].part # "follow-up"
<1> DEFINE s == Submission(by, what, Transport(leg), FollowTx(part, leg))
           t == Tx(part, leg.price, IF leg.provider = "standard-rpc" THEN 0 ELSE leg.tip)
<1>1. leg.price \in Nat /\ leg.tip \in Nat
  BY DEF LegType
<1>2. t \in TxType /\ t.part # "follow-up"
  BY <1>1 DEF Tx, TxType
<1>3. Transport(leg) \in Transports
  BY TransportIs DEF Transports
<1>4. FollowTx(part, leg) = <<t>>
  BY DEF FollowTx
<1> HIDE DEF t
<1>5. FollowTx(part, leg) \in Seq(TxType)
  BY <1>2, <1>4
<1>6. s \in SubmissionType /\ s.what = what /\ s.txs = <<t>>
  BY <1>3, <1>4, <1>5 DEF Submission, SubmissionType
<1> QED BY <1>2, <1>6

\* Host and daemon send what follows a launch.
LEMMA FollowStep ==
    ASSUME ConfigInv, BuiltOK, SentOK,
           SubmitSameTime \/ SubmitDeferred \/ SubmitBuy \/ SubmitDevSell \/ SubmitSnipeSell
    PROVE  SentOK'
<1>1. config.buy \in LegType /\ config.sell \in LegType
  BY LegTyped DEF ConfigInv
<1>2. stage = "launched" /\ UNCHANGED <<stage, config, plan, built>>
  BY DEF SubmitSameTime, SubmitDeferred, SubmitBuy, SubmitDevSell, SubmitSnipeSell, Follow
<1>3. /\ config.snipes # "none" => LegPays(config.buy)
      /\ config.devSell => LegPays(config.sell)
  BY <1>2 DEF ConfigInv, PricedInv, Priced, Planned
<1>4. CASE SubmitSameTime
  <2> DEFINE s == Submission("host", "same-time", Transport(config.buy),
                             FollowTx("buy", config.buy))
  <2>1. sent' = Append(sent, s) /\ config.snipes # "none"
    BY <1>4 DEF SubmitSameTime, SameTimeTxs, SameTime
  <2>2. /\ s \in SubmissionType /\ s.what = "same-time"
        /\ \A j \in DOMAIN s.txs : s.txs[j].part # "follow-up"
    BY <1>1, FollowTyped
  <2>3. PaysEnough(s)
    BY <1>1, <1>3, <2>1, FollowPays
  <2> HIDE DEF s
  <2> QED BY <1>2, <2>1, <2>2, <2>3, FollowSent
<1>5. CASE SubmitBuy
  <2> DEFINE s == Submission("daemon", "buy", Transport(config.buy), FollowTx("buy", config.buy))
  <2>1. sent' = Append(sent, s) /\ config.snipes # "none"
    BY <1>5 DEF SubmitBuy, Follow, BuysLeft
  <2>2. /\ s \in SubmissionType /\ s.what = "buy"
        /\ \A j \in DOMAIN s.txs : s.txs[j].part # "follow-up"
    BY <1>1, FollowTyped
  <2>3. PaysEnough(s)
    BY <1>1, <1>3, <2>1, FollowPays
  <2> HIDE DEF s
  <2> QED BY <1>2, <2>1, <2>2, <2>3, FollowSent
<1>6. CASE SubmitDevSell
  <2> DEFINE s == Submission("daemon", "dev-sell", Transport(config.sell),
                             FollowTx("sell", config.sell))
  <2>1. sent' = Append(sent, s) /\ config.devSell
    BY <1>6 DEF SubmitDevSell, Follow
  <2>2. /\ s \in SubmissionType /\ s.what = "dev-sell"
        /\ \A j \in DOMAIN s.txs : s.txs[j].part # "follow-up"
    BY <1>1, FollowTyped
  <2>3. PaysEnough(s)
    BY <1>1, <1>3, <2>1, FollowPays
  <2> HIDE DEF s
  <2> QED BY <1>2, <2>1, <2>2, <2>3, FollowSent
<1>7. CASE SubmitSnipeSell
  <2> DEFINE s == Submission("daemon", "snipe-sell", Transport(config.sell),
                             FollowTx("sell", config.sell))
  <2>1. sent' = Append(sent, s)
    BY <1>7 DEF SubmitSnipeSell, Follow
  <2>2. /\ s \in SubmissionType /\ s.what = "snipe-sell"
        /\ \A j \in DOMAIN s.txs : s.txs[j].part # "follow-up"
    BY <1>1, FollowTyped
  <2> HIDE DEF s
  <2> QED BY <1>2, <2>1, <2>2, FollowSent
<1>8. CASE SubmitDeferred
  <2> DEFINE s == Submission("daemon", "deferred", plan.transport, DeferredSetup)
  <2>1. sent' = Append(sent, s) /\ DeferredSetup # <<>> /\ ~Done("deferred")
    BY <1>8 DEF SubmitDeferred, Follow
  <2>2. /\ DeferredSetup = <<FollowUpTx>> /\ HasFollowUp(config)
        /\ plan.transport # "hellomoon-bundle"
    BY <1>2, <2>1, DeferredIs
  <2>3. /\ s \in SubmissionType /\ s.what = "deferred" /\ s.txs = <<FollowUpTx>>
        /\ s.transport = plan.transport
    <3>1. plan.transport \in Transports
      BY <1>2, PlanIs, TransportIs, LegTyped DEF ConfigInv, Planned, Transports
    <3>2. <<FollowUpTx>> \in Seq(TxType)
      BY PumpTyped
    <3> HIDE DEF DeferredSetup
    <3> QED BY <2>2, <3>1, <3>2 DEF Submission, SubmissionType
  <2>4. plan.transport # "jito-bundle" => PaysEnough(s)
    BY <1>2, <2>1, DeferredPays
  <2> HIDE DEF s
  <2> QED BY <1>2, <2>1, <2>2, <2>3, <2>4, FollowSent
<1> QED BY <1>4, <1>5, <1>6, <1>7, <1>8

\* A simulation has the follow-up with the launch, whatever the transport.
LEMMA SimulatedFollowUps ==
    ASSUME ConfigInv, BuiltOK, stage = "compiled"
    PROVE  /\ Simulated \in Seq(TxType)
           /\ HasFollowUp(config) =>
                \E k \in DOMAIN Simulated :
                    \A j \in DOMAIN Simulated : Simulated[j].part = "follow-up" <=> j = k
           /\ ~HasFollowUp(config) =>
                \A j \in DOMAIN Simulated : Simulated[j].part # "follow-up"
<1>1. built.compiled \in Seq(TxType) /\ built.setup \in Seq(TxType) /\ BagsLaunch \in Seq(TxType)
  BY BagsTyped DEF BuiltOK, BuiltType
<1>2. config.launchpad \in {"pump", "bonk", "bagsapp"} /\ ModeAgrees(config)
  BY DEF ConfigInv, ConfigType, AgreesInv
<1>3. HasFollowUp(config) => config.launchpad = "pump"
  BY <1>2 DEF ModeAgrees, HasFollowUp
<1>4. config.launchpad # "bagsapp" => Simulated = built.compiled
  BY <1>1, ConcatEmptySeq DEF BuiltOK, BuiltInv, Simulated
<1>5. CASE config.launchpad = "pump"
  <2>1. /\ PumpLaunch.part # "follow-up" /\ FollowUpTx.part = "follow-up"
        /\ TipTx.part # "follow-up"
    BY DEF PumpLaunch, FollowUpTx, TipTx, Tx
  <2>2. Simulated =
            IF HasFollowUp(config)
            THEN IF SeparateTip THEN <<PumpLaunch, FollowUpTx, TipTx>>
                                ELSE <<PumpLaunch, FollowUpTx>>
            ELSE IF SeparateTip THEN <<PumpLaunch, TipTx>> ELSE <<PumpLaunch>>
    BY <1>4, <1>5, PumpLists DEF BuiltOK, BuiltInv
  <2>3. Simulated \in Seq(TxType)
    BY <1>1, <1>4, <1>5
  <2> HIDE DEF Simulated
  <2>4. CASE HasFollowUp(config)
    <3>1. Simulated = <<PumpLaunch, FollowUpTx, TipTx>> \/ Simulated = <<PumpLaunch, FollowUpTx>>
      BY <2>2, <2>4
    <3>2. \A j \in DOMAIN Simulated : Simulated[j].part = "follow-up" <=> j = 2
      BY <2>1, <3>1
    <3>3. 2 \in DOMAIN Simulated
      BY <3>1
    <3> QED BY <2>3, <2>4, <3>2, <3>3
  <2>5. CASE ~HasFollowUp(config)
    <3>1. Simulated = <<PumpLaunch, TipTx>> \/ Simulated = <<PumpLaunch>>
      BY <2>2, <2>5
    <3>2. \A j \in DOMAIN Simulated : Simulated[j].part # "follow-up"
      BY <2>1, <3>1
    <3> QED BY <2>3, <2>5, <3>2
  <2> QED BY <2>4, <2>5
<1>6. CASE config.launchpad = "bonk"
  <2>1. PICK parts \in BonkLists : Simulated = BonkParts(parts)
    BY <1>4, <1>6 DEF BuiltOK, BuiltInv
  <2> HIDE DEF Simulated
  <2>2. Simulated \in Seq(TxType) /\ \A j \in DOMAIN Simulated : Simulated[j].part # "follow-up"
    BY <2>1, BonkTyped
  <2> QED BY <1>3, <1>6, <2>2
<1>7. CASE config.launchpad = "bagsapp"
  <2> DEFINE rest == IF built.setup # <<>> THEN BagsLaunch ELSE <<>>
             n == Len(built.setup)
  <2>1. /\ built.compiled = built.setup
        /\ \A i \in DOMAIN built.setup : built.setup[i].part = "setup"
    BY <1>7 DEF BuiltOK, BuiltInv
  <2>2. rest \in Seq(TxType) /\ \A i \in DOMAIN rest : rest[i].part # "follow-up"
    <3>1. BagsLaunch[1].part # "follow-up" /\ DOMAIN BagsLaunch = {1}
      BY DEF BagsLaunch, Tx
    <3>2. <<>> \in Seq(TxType) /\ DOMAIN <<>> = {}
      OBVIOUS
    <3> QED BY <1>1, <3>1, <3>2
  <2>3. Simulated = built.setup \o rest
    BY <2>1 DEF Simulated
  <2> HIDE DEF rest, Simulated
  <2>4. /\ Simulated \in Seq(TxType) /\ Len(Simulated) = n + Len(rest)
        /\ \A i \in 1..n + Len(rest) :
                Simulated[i] = IF i <= n THEN built.setup[i] ELSE rest[i - n]
    BY <1>1, <2>2, <2>3, ConcatProperties
  <2>5. /\ DOMAIN Simulated = 1..n + Len(rest) /\ DOMAIN built.setup = 1..n
        /\ DOMAIN rest = 1..Len(rest) /\ n \in Nat /\ Len(rest) \in Nat
    BY <1>1, <2>2, <2>4, LenProperties
  <2> HIDE DEF n
  <2>6. ASSUME NEW j \in DOMAIN Simulated PROVE Simulated[j].part # "follow-up"
    <3>1. CASE j <= n
      BY <2>1, <2>4, <2>5, <3>1
    <3>2. CASE ~(j <= n)
      <4>1. j - n \in DOMAIN rest
        BY <2>5, <3>2
      <4> QED BY <2>2, <2>4, <2>5, <3>2, <4>1
    <3> QED BY <3>1, <3>2
  <2> QED BY <1>3, <1>7, <2>4, <2>6
<1> QED BY <1>2, <1>5, <1>6, <1>7

\* A launch is simulated.
LEMMA SimulateSent ==
    ASSUME ConfigInv, BuiltOK, SentOK, Simulate
    PROVE  SentOK'
<1>1. /\ stage = "compiled" /\ config.action = "simulate" /\ UNCHANGED <<config, plan, built>>
      /\ \/ /\ sent' = <<Submission("host", "simulation", "simulate", Simulated)>>
            /\ stage' = "simulated"
         \/ stage' = "failed" /\ UNCHANGED sent
  BY DEF Simulate
<1>2. CASE stage' = "failed" /\ UNCHANGED sent
  BY <1>2 DEF SentOK, SentPays, DeliveryInv
<1>3. CASE /\ sent' = <<Submission("host", "simulation", "simulate", Simulated)>>
           /\ stage' = "simulated"
  <2> DEFINE s == Submission("host", "simulation", "simulate", Simulated)
  <2>1. Simulated \in Seq(TxType)
    BY <1>1, SimulatedFollowUps
  <2>2. /\ s \in SubmissionType /\ s.txs = Simulated /\ s.what = "simulation"
        /\ s.transport = "simulate"
    BY <2>1 DEF Submission, SubmissionType, Transports
  <2>3. PaysEnough(s)
    BY <2>2, TakesIs DEF PaysEnough
  <2>4. /\ HasFollowUp(config) =>
            \E k \in DOMAIN s.txs :
                \A j \in DOMAIN s.txs : s.txs[j].part = "follow-up" <=> j = k
        /\ ~HasFollowUp(config) => \A j \in DOMAIN s.txs : s.txs[j].part # "follow-up"
    <3> HIDE DEF s, Simulated
    <3> QED BY <1>1, <2>2, SimulatedFollowUps
  <2> HIDE DEF s
  <2>5. sent' = <<s>>
    BY <1>3 DEF s
  <2>6. /\ <<>> \in Seq(SubmissionType) /\ Append(<<>>, s) = <<s>>
        /\ <<s>> \in Seq(SubmissionType) /\ DOMAIN <<s>> = {1} /\ <<s>>[1] = s
    BY <2>2
  <2>7. (sent \in Seq(SubmissionType))' /\ SentPays'
    BY <2>3, <2>5, <2>6 DEF SentPays
  <2>8. FollowUpsIn(<<>>) = {}
    BY DEF FollowUpsIn
  <2>9. IF HasFollowUp(config) THEN \E x : FollowUpsIn(<<s>>) = {x} ELSE FollowUpsIn(<<s>>) = {}
    <3> DEFINE none == <<>>
    <3>1. none \in Seq(SubmissionType) /\ Append(none, s) = <<s>> /\ FollowUpsIn(none) = {}
      BY <2>6, <2>8
    <3> HIDE DEF none
    <3>2. FollowUpsIn(Append(none, s)) = FollowUpsIn(<<s>>)
      BY <3>1
    <3>3. s \in SubmissionType
      BY <2>2
    <3>4. CASE HasFollowUp(config)
      <4>1. PICK k \in DOMAIN s.txs : \A j \in DOMAIN s.txs : s.txs[j].part = "follow-up" <=> j = k
        BY <2>4, <3>4
      <4>2. FollowUpsIn(Append(none, s)) = {<<Len(none) + 1, k>>}
        BY <3>1, <3>3, <4>1, FollowUpsAfter
      <4> QED BY <3>2, <3>4, <4>2
    <3>5. CASE ~HasFollowUp(config)
      <4>1. \A j \in DOMAIN s.txs : s.txs[j].part # "follow-up"
        BY <2>4, <3>5
      <4>2. FollowUpsIn(Append(none, s)) = FollowUpsIn(none)
        BY <3>1, <3>3, <4>1, FollowUpsAfter
      <4> QED BY <3>1, <3>2, <3>5, <4>2
    <3> QED BY <3>4, <3>5
  <2>10. FollowUpsIn(sent)' = FollowUpsIn(<<s>>)
    BY <2>5, SentFollowUps
  <2>11. Delivered' <=> HasFollowUp(config)
    BY <1>1, <1>3 DEF Delivered
  <2> QED BY <1>1, <1>3, <2>7, <2>9, <2>10, <2>11 DEF SentOK, DeliveryInv
<1> QED BY <1>1, <1>2, <1>3

\* The third part of the invariant is kept.
LEMMA SentStep ==
    ASSUME ConfigInv, BuiltOK, SentOK, [BuildNext]_buildVars
    PROVE  SentOK'
<1>1. CASE SubmitSetup
  BY <1>1, SetupSent
<1>2. CASE SubmitLaunch
  BY <1>2, LaunchSent
<1>3. CASE SubmitSameTime \/ SubmitDeferred \/ SubmitBuy \/ SubmitDevSell \/ SubmitSnipeSell
  BY <1>3, FollowStep
<1>4. CASE Simulate
  BY <1>4, SimulateSent
<1>5. CASE UNCHANGED buildVars
  BY <1>5 DEF buildVars, SentOK, SentPays, DeliveryInv, Delivered, Done
<1>6. CASE /\ sent' = sent
           /\ stage' \notin {"launched", "simulated"}
           /\ \/ stage' \in {"refused", "failed", "reported"}
              \/ stage \in {"form", "valid", "planned", "priced", "guarded", "compiled", "set up",
                            "launchable"}
  BY <1>6 DEF SentOK, SentPays, DeliveryInv, Done
<1>7. CASE Validate \/ PlanTransport \/ ResolveFees \/ FeesRefused \/ Guard
  BY <1>6, <1>7 DEF Validate, PlanTransport, ResolveFees, FeesRefused, Guard
<1>8. CASE CompilePump \/ CompileBonk \/ CompileBags
  BY <1>6, <1>8 DEF CompilePump, CompileBonk, CompileBags, Compiled
<1>9. CASE Report \/ NoLaunch \/ CompileBagsLaunch
  BY <1>6, <1>9 DEF Report, NoLaunch, CompileBagsLaunch
<1> QED BY <1>1, <1>2, <1>3, <1>4, <1>5, <1>7, <1>8, <1>9 DEF BuildNext

-----------------------------------------------------------------------------
(* Theorems                                                                *)

\* The invariant holds: configuration and plan, what is compiled, what is sent.
THEOREM BuildInvHolds == BuildSpec => []BuildInv
<1>1. BuildInit => BuildInv
  <2> SUFFICES ASSUME BuildInit PROVE BuildInv
    OBVIOUS
  <2>1. stage = "form" /\ built = Nothing /\ sent = <<>>
    BY DEF BuildInit
  <2>2. BuiltOK
    BY <2>1, NothingTyped DEF BuiltOK, BuiltInv
  <2>3. SentOK
    BY <2>1 DEF SentOK, SentPays, DeliveryInv, FollowUpsIn, Done
  <2> QED BY <2>2, <2>3, ConfigStart DEF BuildInv
<1>2. BuildInv /\ [BuildNext]_buildVars => BuildInv'
  BY ConfigStep, BuiltStep, SentStep DEF BuildInv
<1> QED BY <1>1, <1>2, PTL DEF BuildSpec

\* Whatever is submitted pays its transport, and a leg left to the engine
\* costs at most its maximum.
THEOREM FeesInBoundsHolds == BuildSpec => []FeesInBounds
<1>1. BuildInv => FeesInBounds
  BY DEF BuildInv, ConfigInv, SentOK, SentPays, FeesInBounds
<1> QED BY <1>1, BuildInvHolds, PTL

\* A launch that needs a second transaction gets it once.
THEOREM SetupDeliveredOnceHolds == BuildSpec => []SetupDeliveredOnce
<1>1. ASSUME BuildInv
      PROVE  SetupDeliveredOnce
  <2> ConfigInv /\ BuiltOK /\ SentOK
    BY <1>1 DEF BuildInv
  <2>0. SUFFICES ASSUME stage \in {"launched", "simulated"}
                 PROVE  FollowUps = IF HasFollowUp(config) THEN 1 ELSE 0
    BY DEF SetupDeliveredOnce
  <2> DEFINE owed == config.action = "send" /\ Reserved /\ DeferredSetup # <<>> /\ ~Done("deferred")
  <2>1. FollowUps = Cardinality(FollowUpsIn(sent)) + (IF owed THEN 1 ELSE 0)
    BY DEF FollowUps
  <2>2. Cardinality(FollowUpsIn(sent)) = IF Delivered THEN 1 ELSE 0
    BY <1>1, <2>0, FS_EmptySet, FS_Singleton DEF SentOK, DeliveryInv
  <2>3. owed <=> HasFollowUp(config) /\ ~Delivered
    <3>1. CASE stage = "simulated"
      BY <1>1, <3>1 DEF SentOK, DeliveryInv, Delivered
    <3>2. CASE stage = "launched"
      <4>1. config.action = "send"
        BY <1>1, <3>2 DEF SentOK, DeliveryInv
      <4>2. DeferredSetup # <<>> <=> HasFollowUp(config) /\ plan.transport # "hellomoon-bundle"
        BY <1>1, <3>2, DeferredIs
      <4>3. DeferredSetup # <<>> => Reserved
        BY DEF Reserved
      <4> HIDE DEF DeferredSetup
      <4> QED BY <3>2, <4>1, <4>2, <4>3 DEF Delivered
    <3> QED BY <2>0, <3>1, <3>2
  <2>4. Delivered => HasFollowUp(config)
    BY DEF Delivered
  <2> HIDE DEF owed
  <2> QED BY <2>1, <2>2, <2>3, <2>4
<1> QED BY <1>1, BuildInvHolds, PTL
=============================================================================
