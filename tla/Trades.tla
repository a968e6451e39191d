------------------------------ MODULE Trades -------------------------------
(***************************************************************************)
(* A wallet that trades one launched token along the quotes: the purchase  *)
(* with the launch, the purchases and sales that follow it, each quoted    *)
(* from the pool the previous one left.  The code advances the pool itself *)
(* for what it compiles ahead of the launch (synthetic_curve_after_buy_    *)
(* tokens, advance_prelaunch_bonk_pool_context_after_buy); a later trade   *)
(* is quoted from the accounts the launchpad program has left, so what the *)
(* program does to them is external here.                                  *)
(***************************************************************************)
EXTENDS DbcQuotes

CONSTANTS
    Markets,    \* the markets traded on
    MaxPay,     \* largest amount of one purchase
    MaxTrades,  \* trades of a behaviour
    MaxNow      \* the last point (slot or second) of the fee schedule

\* What a launchpad's configuration and a pool of it can be.  A token that is
\* sold out leaves virtual reserves on Pump, and no quote divides by zero.
ASSUME MarketAssumption ==
    /\ MaxPay \in Nat /\ MaxTrades \in Nat /\ MaxNow \in Nat
    /\ \A m \in Markets : m.kind \in {"pump", "bonk", "dbc", "damm"}
    /\ \A m \in Markets : m.kind = "pump" =>
        /\ m \in [kind: {"pump"}, vt: Nat, vs: Nat, rt: Nat, fee: Nat, creatorFee: Nat]
        /\ m.rt < m.vt
    /\ \A m \in Markets : m.kind = "bonk" =>
        /\ m \in [kind: {"bonk"}, curve: 0..2, supply: Nat, sell: Nat, locked: Nat, raise: Nat,
                  migrateFee: Nat, fee: 0..(FeeBase - 1)]
        /\ BonkVirtuals(m).va > 0 /\ (m.curve # 2 => BonkVirtuals(m).vb > 0)
    /\ \A m \in Markets : m.kind = "damm" =>
        /\ m.price \in Nat \ {0} /\ m.liquidity \in Nat \ {0} /\ m.volatility \in Nat
        /\ m.feeMode \in {"flat", "linear", "exponential"} /\ m.quoteFees \in BOOLEAN
        /\ m.cliff \in Nat /\ m.step \in Nat /\ m.start \in Nat /\ m.periods \in Nat
        /\ m.feeMode # "flat" => m.every \in Nat \ {0}

VARIABLES
    venue, pool,
    paid, got,  \* what the wallet was quoted to pay and to receive, in all
    held,       \* the tokens it holds
    request,    \* what the last purchase was asked to spend
    now, trades

tradeVars == <<venue, pool, paid, got, held, request, now, trades>>

NewPool(m) ==
    CASE m.kind = "pump" -> [vt |-> m.vt, vs |-> m.vs, rt |-> m.rt, rs |-> 0]
      [] m.kind = "bonk" -> [va |-> BonkVirtuals(m).va, vb |-> BonkVirtuals(m).vb, ra |-> 0, rb |-> 0]
      [] OTHER -> [price |-> m.price]

TradesInit ==
    /\ venue \in Markets
    /\ pool = NewPool(venue)
    /\ paid = 0 /\ got = 0 /\ held = 0 /\ request = 0 /\ now = 0 /\ trades = 0

Bought(cost, tokens, after) ==
    /\ cost >= 0 /\ tokens > 0
    /\ paid' = paid + cost /\ held' = held + tokens /\ pool' = after
    /\ trades' = trades + 1
    /\ UNCHANGED <<venue, got, now>>

Sold(tokens, sol, after) ==
    /\ sol >= 0
    /\ got' = got + sol /\ held' = held - tokens /\ pool' = after
    /\ trades' = trades + 1
    /\ UNCHANGED <<venue, paid, request, now>>

More == trades < MaxTrades

-----------------------------------------------------------------------------
(* resolve_dev_buy_quote: the purchase with the launch, for an amount of   *)
(* SOL or for an amount of tokens, which the form may ask beyond what the  *)
(* curve has for sale.                                                     *)

PumpDevBuy(spend) ==
    /\ venue.kind = "pump" /\ trades = 0
    /\ request' = spend
    /\ LET tokens == PumpBuyTokens(venue, pool, spend)
       IN  Bought(spend, tokens, PumpAfterBuy(pool, tokens))

\* External: what the program sells of the tokens a launch asks for.  Beyond
\* what its curve has, that is either the rest or nothing: the launch fails.
ProgramSells(p, tokens) == IF tokens <= p.rt THEN {tokens} ELSE {p.rt, 0}

\* A launch that has failed.  What was compiled ahead for after it is quoted
\* from the curve that the quote has made up all the same.
LaunchRefused(after) ==
    /\ pool' = after
    /\ trades' = trades + 1
    /\ UNCHANGED <<venue, paid, got, held, now>>

\* Only the cost is capped at what is for sale, not the tokens.
PumpDevBuyTokens(tokens) ==
    /\ venue.kind = "pump" /\ trades = 0
    /\ request' = PumpBuyCost(venue, pool, tokens)
    /\ \E sold \in ProgramSells(pool, tokens) :
          IF sold = 0 THEN LaunchRefused(PumpAfterBuy(pool, tokens))
          ELSE Bought(PumpBuyCost(venue, pool, tokens), sold, PumpAfterBuy(pool, sold))

\* quote_buy_tokens_from_curve
PumpBuy(spend) ==
    /\ venue.kind = "pump" /\ More
    /\ request' = spend
    /\ LET tokens == PumpBuyTokens(venue, pool, spend)
       IN  Bought(spend, tokens, PumpAfterBuy(pool, tokens))

\* quote_sell_sol_from_curve
PumpSell(tokens) ==
    /\ venue.kind = "pump" /\ More
    /\ Sold(tokens, PumpSellSol(venue, pool, tokens),
            [vt |-> pool.vt + tokens, vs |-> pool.vs - PumpSellGross(pool, tokens),
             rt |-> pool.rt + tokens, rs |-> pool.rs - PumpSellGross(pool, tokens)])

BonkBuy(spend) ==
    /\ venue.kind = "bonk" /\ More
    /\ request' = spend
    /\ LET details == BonkFollowBuy(venue, pool, spend)
       IN  Bought(details.gross, details.tokens, BonkAfterBuy(pool, details))

\* native_predict_dev_buy_effect of a purchase for tokens
BonkDevBuyTokens(tokens) ==
    /\ venue.kind = "bonk" /\ trades = 0
    /\ LET cost == BonkExactOut(venue, pool, tokens)
           details == BonkFollowBuy(venue, pool, cost)
       IN  /\ cost # None
           /\ request' = cost
           /\ Bought(details.gross, details.tokens, BonkAfterBuy(pool, details))

BonkSell(tokens) ==
    /\ venue.kind = "bonk" /\ More
    /\ BonkSellIn(venue, pool, tokens) >= 0
    /\ Sold(tokens, BonkSellNet(venue, pool, tokens),
            [pool EXCEPT !.ra = @ - tokens,
                         !.rb = @ - BonkSellIn(venue, pool, tokens)])

\* The quote of a trade on the DBC curve, or on the DAMM pool.
BagsSwap(buying, amount) ==
    IF venue.kind = "dbc" THEN DbcSwap(venue, pool, now, buying, amount)
                           ELSE DammSwap(venue, pool, now, buying, amount)

BagsBuy(spend) ==
    /\ venue.kind \in {"dbc", "damm"} /\ More
    /\ request' = spend
    /\ Bought(spend, BagsSwap(TRUE, spend).out, [price |-> BagsSwap(TRUE, spend).price])

BagsSell(tokens) ==
    /\ venue.kind \in {"dbc", "damm"} /\ More
    /\ Sold(tokens, BagsSwap(FALSE, tokens).out, [price |-> BagsSwap(FALSE, tokens).price])

Passes ==
    /\ venue.kind \in {"dbc", "damm"} /\ More /\ now < MaxNow
    /\ now' = now + 1
    /\ UNCHANGED <<venue, pool, paid, got, held, request, trades>>

TradesNext ==
    \/ \E spend \in 1..MaxPay : PumpDevBuy(spend) \/ PumpBuy(spend) \/ BonkBuy(spend)
                                \/ BagsBuy(spend)
    \/ \E tokens \in 1..MaxPay : PumpDevBuyTokens(tokens) \/ BonkDevBuyTokens(tokens)
    \/ \E tokens \in 1..held : PumpSell(tokens) \/ BonkSell(tokens) \/ BagsSell(tokens)
    \/ Passes

TradesSpec == TradesInit /\ [][TradesNext]_tradeVars

-----------------------------------------------------------------------------
(* Properties *)

(* However a wallet buys and sells along its quotes, it is never promised  *)
(* more than it was quoted to pay: every rounding of quote_buy_...,        *)
(* bonk_curve_..., bags_dbc_swap_... and cpamm_swap_amount_out goes the    *)
(* same way, so a sale after a purchase is not quoted at a profit that the *)
(* program will not pay (and that slippage would then refuse).             *)
NoProfitFromRounding == got <= paid

(* A purchase is never quoted to cost more than it was asked to spend,     *)
(* also when the curve ends within it (bonk_follow_buy_quote_details).     *)
SpendsWithinRequest == [][paid' - paid <= request']_<<paid, trades>>

(* What is bought is for sale: no chain of purchases and sales sells more  *)
(* than the curve has, so that the reserves stay those of a curve, also    *)
(* after resolve_dev_buy_quote has quoted more tokens than there are.      *)
ReservesHold ==
    /\ venue.kind = "pump" => pool.rt >= 0 /\ pool.rs >= 0 /\ held <= venue.rt
    /\ venue.kind = "bonk" => pool.ra <= venue.sell /\ pool.rb >= 0

-----------------------------------------------------------------------------
(* What the quotes are, checked for every market before anything is traded *)

(* The quote for an amount of tokens and the quote for an amount of money  *)
(* agree: what the first asks for (and one lamport more on Pump, whose     *)
(* second quote holds one back) buys the tokens by the second.             *)
ASSUME QuotesAgree ==
    \A m \in Markets :
      /\ m.kind = "pump" =>
            \A t \in 1..m.rt :
               PumpBuyTokens(m, NewPool(m), PumpBuyCost(m, NewPool(m), t) + 1) >= t
      /\ m.kind = "bonk" =>
            \A t \in 1..m.sell :
               LET cost == BonkExactOut(m, NewPool(m), t)
               IN  cost # None => BonkExactIn(m, NewPool(m), cost) >= t

(* The fee of the rate limiter is what its rule says, unit by unit: of      *)
(* every further reference amount one step more, up to the largest fee, the *)
(* sum rounded up and taken as a rate of the whole, rounded up.  The closed *)
(* form of bags_dbc_rate_limiter_fee_numerator has a case for the steps it  *)
(* has room for and one for the rest.                                       *)
ASSUME LimiterAsDefined ==
    \A m \in {m \in Markets : m.kind = "dbc" /\ m.feeMode = "limiter"} :
      \A amount \in (m.reference + 1)..(8 * m.reference) :
        LET rate(unit) == Least(m.cliff + m.step * ((unit - 1) \div m.reference), MaxFee)
            Owed[u \in 0..amount] == IF u = 0 THEN 0 ELSE Owed[u - 1] + rate(u)
            fee == CeilDiv(CeilDiv(Owed[amount], FeeBase) * FeeBase, amount)
        IN  RateLimiterFee(m.cliff, m.reference, m.step, amount) = Least(fee, MaxFee)
=============================================================================
