----------------------------- MODULE MCCompile ------------------------------
(* What is computed before anything is sent, for TLC: quotes, the USD1      *)
(* top-up, the fees and the parts of a launch, and the transactions.  The   *)
(* parts share no state: in a behaviour of one the others are over.         *)
EXTENDS Trades, Usd1TopUp, LaunchBuild, Assemble, TLC

-----------------------------------------------------------------------------
(* Trades *)

Pump(vt, vs, rt, fee, creatorFee) ==
    [kind |-> "pump", vt |-> vt, vs |-> vs, rt |-> rt, fee |-> fee, creatorFee |-> creatorFee]

Bonk(curve, supply, sell, locked, raise, migrateFee, fee) ==
    [kind |-> "bonk", curve |-> curve, supply |-> supply, sell |-> sell, locked |-> locked,
     raise |-> raise, migrateFee |-> migrateFee, fee |-> fee]

\* Two pieces with less liquidity in the second, and a fee of every kind.
Bags(kind, mode, cliff, step, quoteFees, volatility) ==
    [kind |-> kind, price |-> 3, points |-> <<[price |-> 5, liquidity |-> 90],
                                              [price |-> 9, liquidity |-> 60]>>,
     liquidity |-> 90, feeMode |-> mode, cliff |-> cliff, step |-> step, reference |-> 3,
     start |-> 1, every |-> 1, periods |-> 2, quoteFees |-> quoteFees,
     volatility |-> volatility]

MCMarkets ==
    {Pump(20, 6, 15, 1, 0), Pump(9, 11, 8, 0, 0), Pump(30, 4, 12, 5, 10)}
    \union {Bonk(0, 30, 20, 2, 9, 1, fee) : fee \in {0, 25}}
    \union {Bonk(1, 17, 12, 0, 8, 1, fee) : fee \in {0, 10}}
    \union {Bonk(2, 20, 6, 1, 40, 1, fee) : fee \in {0, 10}}
    \union {Bags("dbc", "limiter", 5, 10, TRUE, 0),
            [Bags("dbc", "limiter", 5, 10, FALSE, 12) EXCEPT !.reference = 20],
            Bags("dbc", "linear", 20, 5, FALSE, 0),
            Bags("dbc", "exponential", 20, 30, TRUE, 12), Bags("dbc", "flat", 0, 0, TRUE, 0)}
    \union {Bags("damm", "linear", 20, 5, FALSE, 0), Bags("damm", "exponential", 20, 30, TRUE, 12),
            Bags("damm", "flat", 0, 0, TRUE, 0)}

TradesOver ==
    /\ venue = Pump(20, 6, 15, 1, 0) /\ pool = NewPool(venue)
    /\ paid = 0 /\ got = 0 /\ held = 0 /\ request = 0 /\ now = 0 /\ trades = MaxTrades

-----------------------------------------------------------------------------
(* Usd1TopUp *)

Clmm == INSTANCE ClmmQuote WITH
    FeeBase <- 20, Q <- 16, ArraySize <- 2, MinPrice <- 4,
    TickPrice <- [t \in -6..6 |-> 20 + 2 * t]

\* The pinned pool in three states: deep, crossing two ticks, thin.
Setup(price, tick, liquidity) ==
    [price |-> price, tick |-> tick, liquidity |-> liquidity, rate |-> 1,
     arrays |-> {-6, -4, -2, 0}, net |-> (-5 :> 0 @@ -4 :> 4 @@ -1 :> 3)]

\* A tenth of the output is left to slippage.
Guaranteed(of) ==
    [n \in 0..MaxSol |-> Clmm!MinFromBps(Clmm!ClmmOut(of, n), 1, 10)]

MCOut == [p \in {"deep", "crossing", "thin"} |->
            Guaranteed(CASE p = "deep" -> Setup(21, 0, 90)
                         [] p = "crossing" -> Setup(19, -1, 60)
                         [] p = "thin" -> Setup(17, -2, 40))]

MCTolerance(n) == IF n \div 8 > 1 THEN n \div 8 ELSE 1
MCBuffer(n) == IF n \div 16 > 1 THEN n \div 16 ELSE 1

TopUpOver ==
    /\ follow = FALSE /\ pc = "failed" /\ usd = 0 /\ sol = 0
    /\ route = "deep" /\ cache = {} /\ setup = "deep" /\ usdRead = 0 /\ most = 0
    /\ low = 0 /\ high = 0 /\ quote = 0 /\ tries = 0 /\ minOut = 0
    /\ touched = FALSE /\ others = MaxOthers

-----------------------------------------------------------------------------
(* LaunchBuild *)

MCMinTip == "standard-rpc" :> 0 @@ "helius-sender" :> 2 @@ "jito-bundle" :> 2 @@ "hellomoon" :> 3

MCEstimates == [priority : {1, 5}, tip : {1, 5}]

Routes == [provider : Providers \ {"hellomoon"}, secure : {FALSE}]
            \cup [provider : {"hellomoon"}, secure : BOOLEAN]

Leg(r, auto, price, tip, max, maxTip) ==
    [provider |-> r.provider, secure |-> r.secure, auto |-> auto,
     price |-> price, tip |-> tip, max |-> max, maxTip |-> maxTip]

Tips(r) == IF r.provider = "standard-rpc" THEN {0} ELSE {0, 2, 3}

\* Fees given, of which the form keeps copies as maxima, or left to the engine.
Given(r) == {Leg(r, FALSE, p, t, p, t) : p \in {0, 2}, t \in Tips(r)}
Auto(r) == {Leg(r, TRUE, 0, 0, m, n) : m \in {Blank, 0, 4, 9}, n \in {0, 4}}

Good(provider, secure) ==
    LET t == MCMinTip[provider]
    IN  Leg([provider |-> provider, secure |-> secure], FALSE, 2, t, 2, t)

\* What ui_bridge.rs puts into the transaction: the least fees where the
\* engine is to find them.
TxOf(leg) ==
    LET minimum == MCMinTip[leg.provider]
        tip == IF leg.auto THEN minimum ELSE leg.tip
    IN  [price |-> IF leg.auto /\ minimum > 0 THEN 1 ELSE leg.price,
         tip |-> tip, account |-> tip > 0]

Token(launchpad, mode) ==
    [launchpad |-> launchpad, mode |-> mode, laterSetup |-> FALSE, recipients |-> FALSE,
     splitAgentInit |-> FALSE, agentRecipients |-> FALSE, buyback |-> FALSE,
     deployerFee |-> TRUE]

Plain == Token("pump", "regular")
Later == [Plain EXCEPT !.laterSetup = TRUE, !.recipients = TRUE]
BonkToken == Token("bonk", "regular")
\* All the flags of a launch, whatever they are worth together.
Tokens ==
    [launchpad : {"pump", "bonk", "bagsapp"}, mode : {"regular", "cashback", "bags"} \cup AgentModes,
     laterSetup : BOOLEAN, recipients : BOOLEAN, splitAgentInit : BOOLEAN,
     agentRecipients : BOOLEAN, buyback : BOOLEAN, deployerFee : BOOLEAN]

Config(token, creation, buy, sell, snipes, devSell, snipeSell) ==
    token @@ [action |-> "send", creation |-> creation, buy |-> buy, sell |-> sell,
              tx |-> TxOf(creation), snipes |-> snipes, devSell |-> devSell,
              snipeSell |-> snipeSell]

Rpc == Good("standard-rpc", FALSE)

GivenLegs == UNION {Given(r) : r \in Routes}
AutoLegs == UNION {Auto(r) : r \in Routes}
Jito == [provider |-> "jito-bundle", secure |-> FALSE]

\* Every token with every action; the fees of every creation with those of a
\* few same-time buys; every buy; every sell.
MCConfigs ==
    {[Config(t, Good("jito-bundle", FALSE), Rpc, Rpc, "delayed", FALSE, FALSE) EXCEPT !.action = a] :
            t \in Tokens, a \in {"build", "simulate"}}
    \cup {Config(t, Good("helius-sender", FALSE), Rpc, Rpc, "delayed", FALSE, FALSE) : t \in Tokens}
    \cup {Config(t, c, b, Rpc, s, FALSE, FALSE) :
            t \in {Later, BonkToken}, s \in {"same-time", "retried"},
            c \in GivenLegs \cup AutoLegs,
            b \in {Rpc, Good("helius-sender", FALSE), Good("hellomoon", TRUE)} \cup Auto(Jito)}
    \cup {Config(t, Good(r.provider, r.secure), b, Rpc, s, FALSE, FALSE) :
            t \in {Later, BonkToken}, r \in Routes, b \in GivenLegs \cup AutoLegs,
            s \in {"none", "delayed"}}
    \cup {Config(t, Good(r.provider, r.secure), Rpc, l, "delayed", d, p) :
            t \in {Later}, r \in Routes, l \in GivenLegs \cup AutoLegs,
            d \in BOOLEAN, p \in BOOLEAN}

BuildOver ==
    /\ config = Config(Plain, Rpc, Rpc, Rpc, "none", FALSE, FALSE)
    /\ stage = "refused" /\ plan = NoPlan /\ built = Nothing /\ sent = <<>>

-----------------------------------------------------------------------------
(* Assemble *)

MCListed ==
    LET K(names) == {Key(n) : n \in names}
    IN  "usd1" :> K({"clmm-config", "clmm-pool", "clmm-sol", "clmm-usd1", "clmm-observation",
                     "clmm-bitmap", "token", "token-2022", "memo", "sol", "usd1", "system",
                     "rent", "auth", "event", "config", "platform", "platform-fees",
                     "metadata-program"}) \union {<<"tick-array", 1>>}
        @@ "A" :> K({"system", "global", "mint-authority", "event", "pump", "ata", "token-2022",
                     "mayhem", "mayhem-params", "mayhem-sol", "fees", "fee-config"})
        @@ "B" :> K({"system", "global", "event", "pump", "fees", "fees-event", "fees-global",
                     "amm", "amm-event", "sol", "token", "ata"})
        @@ "C" :> K({"tip", "system"})
        @@ "bags" :> {<<"config", i>> : i \in 1..6}

MCLimits == [launch |-> 9, topup |-> 4, buy |-> 3, sell |-> 3, followUp |-> 5]

FeesOf(limit, price, tip) == [limit |-> limit, price |-> price, tip |-> tip]

LegFees(limit) == {FeesOf(limit, 1, 0), FeesOf(limit, 0, 2), FeesOf(limit, 1, 2)}

BonkLaunches ==
    [kind : {"bonk-launch"}, quote : {"sol"}, strings : {20, 285, 460}, devBuy : BOOLEAN,
     short : {FALSE}, createAta : BOOLEAN, arrays : {1}, format : {"legacy", "v0"},
     dontfront : BOOLEAN, secure : {FALSE}, fees : LegFees(9)]
    \union
    [kind : {"bonk-launch"}, quote : {"usd1"}, strings : {20, 285, 460}, devBuy : BOOLEAN,
     short : BOOLEAN, createAta : BOOLEAN, arrays : {1, 3}, format : {"v0"},
     dontfront : BOOLEAN, secure : BOOLEAN, fees : LegFees(9)]

BonkTrades ==
    [kind : {"buy", "same-time-buy", "sell"}, quote : {"sol", "usd1"}, short : BOOLEAN,
     createAta : BOOLEAN, arrays : {1, 3}, format : {"legacy", "v0"}, dontfront : BOOLEAN,
     secure : {FALSE}, fees : LegFees(3)]

PumpLaunches ==
    [kind : {"pump"}, mode : {"regular", "agent-locked"}, strings : {20, 240, 460},
     devBuy : BOOLEAN, creatorMissing : BOOLEAN, followUp : BOOLEAN, recipients : {2},
     missing : {0, 2}, plan : {"none", "inline", "jito-bundle", "hellomoon-bundle"},
     format : {"auto"}, defaults : BOOLEAN, explicit : {<<>>, <<"C">>},
     dontfront : BOOLEAN, fees : LegFees(9), secure : {FALSE}]

\* Every plan, and formats that take no table or need one.
MCPump ==
    {[r EXCEPT !.secure = r.plan = "hellomoon-bundle"] :
        r \in {r \in PumpLaunches : r.plan # "none" => r.fees.price > 0 /\ r.fees.tip > 0}}
    \union
    [kind : {"pump"}, mode : {"regular"}, strings : {20, 460}, devBuy : {TRUE},
     creatorMissing : {FALSE}, followUp : {TRUE}, recipients : {10}, missing : {10},
     plan : {"none"}, format : {"legacy", "v0", "v0-alt"}, defaults : BOOLEAN, explicit : {<<>>},
     dontfront : {FALSE}, fees : {FeesOf(9, 1, 0)}, secure : {FALSE}]

ServiceTx(name, bundled, foreign, limit, price, tip) ==
    [name |-> name, accounts |-> 8, bundled |-> bundled, foreign |-> foreign, limit |-> limit,
     price |-> price, tip |-> tip, heap |-> tip > 0, pays |-> 2, table |-> TRUE]

MCBags ==
    {[kind |-> "bags", secure |-> s, dontfront |-> d, fees |-> f,
      service |-> <<ServiceTx("direct", FALSE, FALSE, l, p, t),
                    ServiceTx("config", TRUE, FALSE, 0, 0, t),
                    ServiceTx("last", TRUE, g, l, 0, 0)>>] :
        s \in BOOLEAN, d \in BOOLEAN, f \in LegFees(9), l \in {0, 20}, p \in {0, 3},
        t \in {0, 2}, g \in BOOLEAN}

MCRequests == BonkLaunches \union BonkTrades \union MCPump \union MCBags

AssemblyOver ==
    /\ order = [kind |-> "bags", secure |-> FALSE, dontfront |-> FALSE, fees |-> FeesOf(9, 1, 0),
                service |-> <<>>]
    /\ progress = "refused" /\ todo = <<>> /\ queue = <<>> /\ groups = <<>> /\ tables = <<>>
    /\ topUp = NoTopUp /\ txs = <<>> /\ why = "none"

-----------------------------------------------------------------------------
CompileInit ==
    \/ TradesInit /\ TopUpOver /\ BuildOver /\ AssemblyOver
    \/ TradesOver /\ TopUpInit /\ BuildOver /\ AssemblyOver
    \/ TradesOver /\ TopUpOver /\ BuildInit /\ AssemblyOver
    \/ TradesOver /\ TopUpOver /\ BuildOver /\ AssembleInit

CompileNext ==
    \/ TradesNext /\ UNCHANGED <<topUpVars, buildVars, assembleVars>>
    \/ TopUpNext /\ UNCHANGED <<tradeVars, buildVars, assembleVars>>
    \/ BuildNext /\ UNCHANGED <<tradeVars, topUpVars, assembleVars>>
    \/ AssembleNext /\ UNCHANGED <<tradeVars, topUpVars, buildVars>>

CompileSpec ==
    CompileInit /\ [][CompileNext]_<<tradeVars, topUpVars, buildVars, assembleVars>>
=============================================================================
