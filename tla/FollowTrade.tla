---------------------------- MODULE FollowTrade -----------------------------
(***************************************************************************)
(* How the follow daemon compiles a buy or a sell of a launched token and  *)
(* what becomes of it on the chain, src/rust/launchdeck-engine/src: the    *)
(* market, the balance and the accounts of the wallet are read one after   *)
(* the other (pump_native.rs, bonk_native.rs, bags_native.rs), pump and    *)
(* bonk buys from a copy the daemon keeps (launchdeck-follow-daemon.rs),   *)
(* and the instructions that follow from them run later, all or none.      *)
(* Meanwhile others trade, the curve is completed and migrated, the setup  *)
(* of the launch lands, and the owner uses the wallet; a transaction that  *)
(* nobody waits for any more may still land, after the next of the wallet  *)
(* was compiled.                                                           *)
(*                                                                         *)
(* A buy asks for one unit of the quote and gets two tokens, a token sells *)
(* for one unit.  How much it really is, is the business of Trades and     *)
(* Usd1TopUp; SOL for a buy and its fees is prechecked.                    *)
(***************************************************************************)
EXTENDS Integers, Sequences, SequencesExt

CONSTANTS
    Trade,      \* actions of one wallet
    Launches,   \* [launchpad, quote]
    Percents,   \* shares of a balance that a sell may ask for
    MaxMoves    \* moves of others in a behaviour

\* A share is parsed as 0 to 100 (config.rs 1435, 1544).
ASSUME TradingAssumption ==
    /\ Launches \subseteq [launchpad : {"pump", "bonk", "bagsapp"}, quote : {"sol", "usd1"}]
    /\ Percents \subseteq 0..100

Closed == -1

Accounts == {"token", "wsol", "usd1", "fresh"}

VARIABLES
    market,     \* the launch, the phase of its curve, the creator vault it pays to
    wallet,     \* [Accounts -> balance, or Closed]
    hot,        \* copies of the market for buys, by the vault that is preferred
    kept,       \* the balance that the last buy was confirmed with
    trade,
    moves

tradingVars == <<market, wallet, hot, kept, trade, moves>>

NoPool == [on |-> "none", vault |-> "none"]

IdleTrade ==
    [todo |-> <<>>, state |-> "idle", side |-> "none", percent |-> 0, prefer |-> FALSE,
     known |-> Closed, pool |-> NoPool, amount |-> 0, seen |-> {}, clean |-> TRUE, tx |-> <<>>]

-----------------------------------------------------------------------------
(* Instructions, and what the programs make of them (external)             *)

Ix(op, from, to, n) == [op |-> op, from |-> from, to |-> to, n |-> n, pool |-> NoPool]
Create(a) == Ix("create", "none", a, 0)     \* idempotent
Open(a, n) == Ix("open", "none", a, n)      \* create, initialize and sync
Wrap(a, n) == Ix("wrap", "none", a, n)      \* transfer and sync
Close(a) == Ix("close", a, "none", 0)
Swap(pool, from, to, n) == [Ix("swap", from, to, n) EXCEPT !.pool = pool]

Trading(pool) ==
    CASE pool.on = "curve" -> market.phase = "curve" /\ pool.vault = market.vault
      [] pool.on = "damm" -> market.phase = "migrated"
      [] pool.on = "clmm" -> TRUE

Output(i) == IF i.to = "token" THEN 2 * i.n ELSE i.n

Failed == [a \in Accounts |-> Closed - 1]

\* One instruction in the wallet w.  Native SOL is no account of the tokens.
Step(w, i) ==
    IF w = Failed THEN Failed
    ELSE CASE i.op = "create" -> IF w[i.to] = Closed THEN [w EXCEPT ![i.to] = 0] ELSE w
           [] i.op = "open" -> IF w[i.to] # Closed THEN Failed ELSE [w EXCEPT ![i.to] = i.n]
           [] i.op = "wrap" -> IF w[i.to] = Closed THEN Failed ELSE [w EXCEPT ![i.to] = @ + i.n]
           [] i.op = "close" -> IF w[i.from] = Closed THEN Failed
                                ELSE [w EXCEPT ![i.from] = Closed]
           [] i.op = "swap" ->
                IF \/ ~Trading(i.pool)
                   \/ i.from # "sol" /\ w[i.from] < i.n
                   \/ i.to # "sol" /\ w[i.to] = Closed
                THEN Failed
                ELSE [a \in Accounts |-> IF a = i.from THEN w[a] - i.n
                                         ELSE IF a = i.to THEN w[a] + Output(i) ELSE w[a]]

\* A transaction in the wallet w, instruction by instruction.
After(w, tx) ==
    LET upTo[n \in 0..Len(tx)] == IF n = 0 THEN w ELSE Step(upTo[n - 1], tx[n])
    IN  upTo[Len(tx)]

-----------------------------------------------------------------------------
(* Compiling: what is read, in the order of the code                       *)

Buying(t) == trade[t].side = "buy"

Stages(side) ==
    CASE market.launchpad = "pump" -> IF side = "buy" THEN <<"market">> ELSE <<"market", "amount">>
      [] market.launchpad = "bonk" ->
            IF side = "sell" THEN <<"amount", "market">>
            ELSE IF market.quote = "usd1" THEN <<"market", "amount">> ELSE <<"market">>
      [] market.launchpad = "bagsapp" ->
            IF side = "buy" THEN <<"market", "input", "output">>
            ELSE <<"market", "amount", "input", "output">>

Due(t, stage) == trade[t].state = "reading" /\ trade[t].todo # <<>> /\ Head(trade[t].todo) = stage

Becomes(t, r) == trade' = [trade EXCEPT ![t] = r]
Over(state) == [IdleTrade EXCEPT !.state = state]
Ends(t, state) == Becomes(t, Over(state))
Reads(t, r) == Becomes(t, [r EXCEPT !.todo = Tail(@)])

\* prefers_post_setup_creator_vault_for_follow: in these modes, if a setup is
\* to land that late; a sell does, too, when it is sent securely.
Preferences == IF market.launchpad = "pump" THEN BOOLEAN ELSE {FALSE}

(* One action of a wallet is compiled and sent at a time, and the next when*)
(* its wait is over, which may be before it landed.  A sell of a snipe     *)
(* takes the balance its buy was confirmed with, but not on Bags.          *)
Begin(t) ==
    /\ trade[t].state = "idle"
    /\ \A u \in Trade : trade[u].state # "reading"
    /\ \E side \in {"buy", "sell"}, percent \in Percents, prefer \in Preferences,
         known \in {Closed, kept.n} :
        /\ known # Closed => side = "sell" /\ market.launchpad # "bagsapp"
        /\ Becomes(t, [IdleTrade EXCEPT !.state = "reading", !.todo = Stages(side), !.side = side,
                                        !.percent = percent, !.prefer = prefer, !.known = known,
                                        !.clean = known = Closed \/ kept.clean])
    /\ UNCHANGED <<market, wallet, hot, kept, moves>>

CurveWith(vault) == [on |-> "curve", vault |-> vault]

\* resolve_follow_creator_vault_authority.  Whether the curve is completed is
\* not looked at, of pump and of bonk.
CurveSeen(prefer) ==
    IF market.launchpad # "pump" THEN CurveWith("none")
    ELSE CurveWith(IF prefer \/ market.shared THEN "sharing" ELSE "creator")

Copy(prefer) == [pool |-> CurveSeen(prefer), clean |-> TRUE]

\* Copies that are made anew would not be the same.
Stale(prefer) == hot[prefer].pool = NoPool \/ ~hot[prefer].clean

(* spawn_hot_follow_buy_refresh_if_needed: every 250 ms on pump.           *)
Refresh ==
    /\ market.launchpad = "pump"
    /\ \E prefer \in BOOLEAN :
        /\ Stale(prefer)
        /\ hot' = [hot EXCEPT ![prefer] = Copy(prefer)]
    /\ UNCHANGED <<market, wallet, kept, trade, moves>>

(* prepare_trigger_time_buy_compile_batch: for the actions of a slot.  Bags*)
(* keeps a copy too, whose buys read the chain anyway.                     *)
Prime ==
    /\ \E read \in SUBSET (CASE market.launchpad = "pump" -> BOOLEAN
                            [] market.launchpad = "bonk" -> {FALSE}
                            [] market.launchpad = "bagsapp" -> {}) :
        /\ \E prefer \in read : Stale(prefer)
        /\ hot' = [prefer \in BOOLEAN |-> IF prefer \in read THEN Copy(prefer) ELSE hot[prefer]]
    /\ UNCHANGED <<market, wallet, kept, trade, moves>>

\* The copies are kept by job (and slot) and preference.
Cached(t) == hot[trade[t].prefer]

(* A buy takes the copy while it is no older than 900 ms,                  *)
ReadHot(t) ==
    LET copy == Cached(t) IN
    /\ Due(t, "market") /\ Buying(t) /\ copy.pool # NoPool
    /\ Reads(t, [trade[t] EXCEPT !.pool = copy.pool, !.clean = @ /\ copy.clean])
    /\ UNCHANGED <<market, wallet, hot, kept, moves>>

(* and reads the chain otherwise; on pump that makes a copy.               *)
ReadCurve(t) ==
    /\ Due(t, "market") /\ market.launchpad \in {"pump", "bonk"}
    /\ Reads(t, [trade[t] EXCEPT !.pool = CurveSeen(trade[t].prefer)])
    /\ hot' = IF Buying(t) /\ market.launchpad = "pump"
              THEN [hot EXCEPT ![trade[t].prefer] = Copy(trade[t].prefer)] ELSE hot
    /\ UNCHANGED <<market, wallet, kept, moves>>

\* A missing account, an answer that is not the pool of the launch.
Unusable(t) ==
    Becomes(t, [trade[t] EXCEPT !.todo = <<"damm">> \o Tail(@)])

(* load_canonical_dbc_market, is_completed_dbc_pool                        *)
ReadDbc(t) ==
    /\ Due(t, "market") /\ market.launchpad = "bagsapp"
    /\ \/ /\ market.phase = "curve"
          /\ Reads(t, [trade[t] EXCEPT !.pool = CurveWith("none")])
       \/ Unusable(t)
    /\ UNCHANGED <<market, wallet, hot, kept, moves>>

(* load_local_damm_market; without a pool the trade is refused, since the  *)
(* curve is completed and not migrated yet, or nothing usable was found.   *)
ReadDamm(t) ==
    /\ Due(t, "damm")
    /\ \/ /\ market.phase = "migrated"
          /\ Reads(t, [trade[t] EXCEPT !.pool = [on |-> "damm", vault |-> "none"]])
       \/ Ends(t, "refused")
    /\ UNCHANGED <<market, wallet, hot, kept, moves>>

Share(balance, percent) == (balance * percent) \div 100

Known(t) == trade[t].known # Closed

SellAmount(t) == Share(IF Known(t) THEN trade[t].known ELSE wallet["token"], trade[t].percent)

Lacking == IF wallet["usd1"] < 1 THEN 1 ELSE 0

(* The tokens a sell has, or the USD1 a buy still lacks.  Pump gives up on *)
(* a missing account after 15 looks, the others have nothing to sell then; *)
(* Bags takes any error for an empty wallet.                               *)
ReadAmount(t) ==
    /\ Due(t, "amount")
    /\ IF Buying(t) THEN Reads(t, [trade[t] EXCEPT !.amount = Lacking])
       ELSE \/ /\ Known(t) \/ wallet["token"] # Closed
               /\ IF SellAmount(t) = 0 THEN Ends(t, "nothing")
                  ELSE Reads(t, [trade[t] EXCEPT !.amount = SellAmount(t)])
            \/ /\ ~Known(t)
               /\ wallet["token"] = Closed \/ market.launchpad = "bagsapp"
               /\ Ends(t, IF market.launchpad = "pump" THEN "refused" ELSE "nothing")
    /\ UNCHANGED <<market, wallet, hot, kept, moves>>

Input(t) == IF Buying(t) THEN "wsol" ELSE "token"
Target(t) == IF Buying(t) THEN "token" ELSE "wsol"

\* maybe_create_ata_instruction
Look(t, a) ==
    /\ Reads(t, [trade[t] EXCEPT !.seen = IF wallet[a] = Closed THEN @ ELSE @ \union {a}])
    /\ UNCHANGED <<market, wallet, hot, kept, moves>>

(* Any other error of a read is one of the action, which the runner may    *)
(* retry (module FollowRunner).                                            *)
RpcFails(t) ==
    /\ trade[t].state = "reading" /\ trade[t].todo # <<>>
    /\ ~(market.launchpad = "bagsapp" /\ Due(t, "amount"))
    /\ Ends(t, "refused")
    /\ UNCHANGED <<market, wallet, hot, kept, moves>>

ReadInput(t) == Due(t, "input") /\ Look(t, Input(t))
ReadOutput(t) == Due(t, "output") /\ Look(t, Target(t))

-----------------------------------------------------------------------------
(* Compiling: the instructions                                             *)

PumpBuyIxs(r) == <<Create("token"), Swap(r.pool, "sol", "token", 1)>>
PumpSellIxs(r) == <<Swap(r.pool, "token", "sol", r.amount)>>

\* native_compile_bonk_usd1_topup_from_prepared, combined with the buy
TopUp(n) ==
    IF n = 0 THEN <<>>
    ELSE <<Create("usd1"), Open("fresh", n),
           Swap([on |-> "clmm", vault |-> "none"], "fresh", "usd1", n), Close("fresh")>>

BonkBuyIxs(r) ==
    IF market.quote = "sol"
    THEN <<Create("token"), Open("fresh", 1), Swap(r.pool, "fresh", "token", 1), Close("fresh")>>
    ELSE TopUp(r.amount) \o <<Create("token"), Create("usd1"), Swap(r.pool, "usd1", "token", 1)>>

BonkSellIxs(r) ==
    IF market.quote = "sol"
    THEN <<Open("fresh", 0), Swap(r.pool, "token", "fresh", r.amount), Close("fresh")>>
    ELSE <<Create("usd1"), Swap(r.pool, "token", "usd1", r.amount)>>

\* Mutant of Missing: accounts are made for buys only.
MissingOfBuys(r, a) == IF r.side = "sell" \/ a \in r.seen THEN <<>> ELSE <<Create(a)>>

Missing(r, a) == IF a \in r.seen THEN <<>> ELSE <<Create(a)>>

\* Mutant of Unwrap: what a sell brings stays wrapped.
UnwrapOfBuys(r) == IF r.side = "buy" THEN <<Close("wsol")>> ELSE <<>>

\* build_unwrap_sol_instruction
Unwrap(r) == IF r.side \in {"buy", "sell"} THEN <<Close("wsol")>> ELSE <<>>

BagsBuyIxs(r) ==
    Missing(r, "wsol") \o Missing(r, "token")
        \o <<Wrap("wsol", 1), Swap(r.pool, "wsol", "token", 1)>> \o Unwrap(r)

BagsSellIxs(r) ==
    Missing(r, "token") \o Missing(r, "wsol")
        \o <<Swap(r.pool, "token", "wsol", r.amount)>> \o Unwrap(r)

Transaction(r) ==
    CASE market.launchpad = "pump" -> IF r.side = "buy" THEN PumpBuyIxs(r) ELSE PumpSellIxs(r)
      [] market.launchpad = "bonk" -> IF r.side = "buy" THEN BonkBuyIxs(r) ELSE BonkSellIxs(r)
      [] market.launchpad = "bagsapp" -> IF r.side = "buy" THEN BagsBuyIxs(r) ELSE BagsSellIxs(r)

Send(t) ==
    /\ trade[t].state = "reading" /\ trade[t].todo = <<>>
    /\ Becomes(t, [trade[t] EXCEPT !.state = "sent", !.tx = Transaction(trade[t])])
    /\ UNCHANGED <<market, wallet, hot, kept, moves>>

-----------------------------------------------------------------------------
(* What the host compiled before the launch                                *)

\* resolve_predicted_creator_dev_buy_effect: what the launch itself bought.
PredictedTokens == IF wallet["token"] = Closed THEN 0 ELSE wallet["token"]

\* compile_atomic_follow_buy_transaction: for the curve as the launch leaves it,
\* of which nothing can be read yet, with the vault of the launch.
AtomicBuy(lack) ==
    [IdleTrade EXCEPT !.side = "buy", !.amount = lack,
                      !.pool = CurveWith(IF market.launchpad = "pump" THEN "creator" ELSE "none")]

\* The launch may spend the USD1 that the wallet had when its lack was read.
PresignedBuys ==
    IF market.quote = "usd1"
    THEN {[AtomicBuy(lack) EXCEPT !.clean = lack = Lacking] : lack \in {0, 1}}
    ELSE {AtomicBuy(0)}

\* The sell of the wallet that launches.
PresignedSell(percent, prefer) ==
    [IdleTrade EXCEPT !.side = "sell", !.percent = percent, !.prefer = prefer,
                      !.pool = CurveSeen(prefer), !.amount = Share(PredictedTokens, percent)]

PresignedSells ==
    {r \in {PresignedSell(percent, prefer) : percent \in Percents, prefer \in Preferences} :
        r.amount > 0}

(* compile_presigned_follow_actions: the daemon sends these as they are.    *)
Presigned ==
    IF market.launchpad = "bagsapp" THEN {}
    ELSE {[r EXCEPT !.state = "sent", !.tx = Transaction(r)] : r \in PresignedBuys \union PresignedSells}

TradingInit ==
    /\ \E l \in Launches :
        market = [launchpad |-> l.launchpad, quote |-> l.quote, phase |-> "curve",
                  vault |-> IF l.launchpad = "pump" THEN "creator" ELSE "none",
                  shared |-> FALSE]
    /\ \E token \in {Closed, 1}, wsol \in {Closed, 1}, usd1 \in {Closed, 0, 1} :
        /\ wsol # Closed => market.launchpad = "bagsapp"
        /\ usd1 # Closed => market.quote = "usd1"
        /\ wallet = [a \in Accounts |-> CASE a = "token" -> token [] a = "wsol" -> wsol
                                          [] a = "usd1" -> usd1 [] a = "fresh" -> Closed]
    /\ hot = [prefer \in BOOLEAN |-> [pool |-> NoPool, clean |-> TRUE]]
    /\ kept = [n |-> Closed, clean |-> TRUE]
    /\ trade \in [Trade -> {IdleTrade} \union Presigned]
    /\ \A t, u \in Trade : trade[t].side = "sell" /\ trade[u].side = "sell" => t = u
    /\ moves = 0

-----------------------------------------------------------------------------
(* The chain                                                               *)

\* What was read before is no longer so.
Spoiled(trades) ==
    [t \in Trade |-> IF trades[t].state \in {"reading", "sent"}
                     THEN [trades[t] EXCEPT !.clean = FALSE] ELSE trades[t]]
SpoiledHot == [prefer \in BOOLEAN |-> [hot[prefer] EXCEPT !.clean = FALSE]]
SpoiledKept == [kept EXCEPT !.clean = FALSE]

(* A transaction runs as a whole; on another market than it was quoted for *)
(* it may also fail for its least output.                                  *)
Land(t) ==
    /\ trade[t].state = "sent"
    /\ After(wallet, trade[t].tx) # Failed
    /\ wallet' = After(wallet, trade[t].tx)
    /\ trade' = Spoiled([trade EXCEPT ![t] = Over("landed")])
    /\ hot' = SpoiledHot
    /\ kept' = IF Buying(t) THEN [n |-> wallet'["token"], clean |-> TRUE] ELSE SpoiledKept
    /\ UNCHANGED <<market, moves>>

Revert(t) ==
    /\ trade[t].state = "sent"
    /\ After(wallet, trade[t].tx) = Failed \/ ~trade[t].clean
    /\ Ends(t, "reverted")
    /\ UNCHANGED <<market, wallet, hot, kept, moves>>

(* Its blockhash expires.                                                  *)
Lost(t) ==
    /\ trade[t].state = "sent"
    /\ Ends(t, "lost")
    /\ UNCHANGED <<market, wallet, hot, kept, moves>>

Moves ==
    /\ moves < MaxMoves /\ moves' = moves + 1
    /\ trade' = Spoiled(trade) /\ hot' = SpoiledHot /\ kept' = SpoiledKept

Others == Moves /\ UNCHANGED <<market, wallet>>

Completed == Moves /\ market.phase = "curve" /\ market' = [market EXCEPT !.phase = "complete"]
                   /\ UNCHANGED wallet

Migrated == Moves /\ market.phase = "complete" /\ market' = [market EXCEPT !.phase = "migrated"]
                  /\ UNCHANGED wallet

(* The deferred setup makes the sharing config the creator; the daemon sees*)
(* the config when it is confirmed.                                        *)
SetupLands == Moves /\ market.vault = "creator" /\ market' = [market EXCEPT !.vault = "sharing"]
                    /\ UNCHANGED wallet

SetupSeen ==
    /\ market.vault = "sharing" /\ ~market.shared
    /\ market' = [market EXCEPT !.shared = TRUE]
    /\ trade' = Spoiled(trade) /\ hot' = SpoiledHot /\ kept' = SpoiledKept
    /\ UNCHANGED <<wallet, moves>>

(* The owner wraps SOL, or unwraps it, in the account that Bags trades use.*)
OwnerWraps ==
    /\ Moves /\ market.launchpad = "bagsapp"
    /\ wallet' = [wallet EXCEPT !["wsol"] = IF @ = Closed THEN 1 ELSE Closed]
    /\ UNCHANGED market

TradingNext ==
    \/ \E t \in Trade :
        \/ Begin(t) \/ ReadHot(t) \/ ReadCurve(t) \/ ReadDbc(t) \/ ReadDamm(t) \/ ReadAmount(t)
        \/ ReadInput(t) \/ ReadOutput(t) \/ RpcFails(t) \/ Send(t) \/ Land(t) \/ Revert(t) \/ Lost(t)
    \/ Refresh \/ Prime \/ Others \/ Completed \/ Migrated \/ SetupLands \/ SetupSeen \/ OwnerWraps

TradingSpec == TradingInit /\ [][TradingNext]_tradingVars

-----------------------------------------------------------------------------
(* Properties *)

\* The code trades on the curve of pump and bonk also when it is over, and on
\* pump with the vault it prefers, landed or not, or has not seen yet.
KnownToFail(r) ==
    \/ market.launchpad # "bagsapp" /\ market.phase # "curve"
    \/ market.launchpad = "pump" /\ (IF r.prefer THEN market.vault = "creator"
                                                ELSE market.vault = "sharing" /\ ~market.shared)

(* A transaction is complete: compiled from a wallet and a market that have*)
(* not changed until it runs, it does not fail, whichever accounts the     *)
(* wallet had, on every launchpad and both sides of the migration          *)
(* (native_try_build_local_..., native_compile_..., finalize_...): accounts*)
(* are there before they are used, funded, and used on a pool that trades. *)
RevertsExplained ==
    [][\A t \in Trade :
        trade[t].clean /\ trade[t].state = "sent" /\ trade'[t].state = "reverted"
            => KnownToFail(trade[t])]_tradingVars

(* A trade leaves the wallet as its owner expects, also when it lands late *)
(* among others: the SOL it wrapped or was paid is unwrapped, a buy adds   *)
(* tokens and a sell takes no more of them than its share was.             *)
ProceedsArrive ==
    [][\A t \in Trade :
        trade[t].state = "sent" /\ trade'[t].state = "landed" =>
            /\ wallet'["fresh"] = Closed
            /\ wallet'["wsol"] \in {Closed, wallet["wsol"]}
            /\ IF Buying(t) THEN wallet'["token"] > wallet["token"]
               ELSE wallet'["token"] = wallet["token"] - trade[t].amount]_tradingVars

(* "Action had nothing to send for the current wallet state" (daemon 3824) *)
(* is not retried.  On Bags an error of the balance read is taken for it   *)
(* (bags_native.rs 5728, 5929), so the wallet may have all of its tokens:  *)
(* no run lists this.                                                      *)
NothingToSendIsTrue ==
    [][\A t \in Trade :
        trade[t].state = "reading" /\ trade'[t].state = "nothing"
            => Share(wallet["token"], trade[t].percent) <= 0]_tradingVars
=============================================================================
