---------------------------- MODULE CurveQuotes ----------------------------
(***************************************************************************)
(* The quotes of the three launchpads: what a purchase or a sale on the    *)
(* curve of a token brings, src/rust/launchdeck-engine/src/pump_native.rs, *)
(* bonk_native.rs (constant product, fixed and linear price) and           *)
(* bags_native.rs (the piecewise curve of the Meteora DBC program and the  *)
(* DAMM pool after the migration).  A market is a record that does not     *)
(* change, a pool a record of what trades change.                          *)
(***************************************************************************)
EXTENDS Rounding, Sequences

CONSTANTS
    FeeBase,    \* 10_000 (Pump), 1_000_000 (Bonk), 10^9 (Bags): all of an amount
    Q,          \* fixed point one, 2^64 in the code
    MaxFee      \* DBC_MAX_FEE_NUMERATOR, CPAMM_MAX_FEE_NUMERATOR

ASSUME QuoteAssumption ==
    /\ FeeBase \in Nat \ {0} /\ Q \in Nat \ {0}
    /\ MaxFee \in 0..(FeeBase - 1)

-----------------------------------------------------------------------------
(* Pump: a constant product of virtual reserves *)

\* What of the lamports spent reaches the curve.
PumpInput(m, spend) ==
    (Most(spend - 1, 0) * FeeBase) \div (FeeBase + m.fee + m.creatorFee)

\* Mutant of PumpBuyTokens: what is left for sale is not looked at.
PumpBuyTokensUncapped(m, p, spend) ==
    LET in == PumpInput(m, spend) IN (in * p.vt) \div (p.vs + in)

PumpBuyTokens(m, p, spend) ==
    LET in == PumpInput(m, spend)
    IN  IF in = 0 THEN 0 ELSE Least((in * p.vt) \div (p.vs + in), p.rt)

PumpCurveInput(p, tokens) ==
    LET amount == Least(tokens, p.rt)
    IN  IF amount = 0 THEN 0 ELSE (amount * p.vs) \div (p.vt - amount) + 1

PumpBuyCost(m, p, tokens) ==
    LET cost == PumpCurveInput(p, tokens)
    IN  cost + CeilDiv(cost * m.fee, FeeBase) + CeilDiv(cost * m.creatorFee, FeeBase)

PumpSellGross(p, tokens) == (tokens * p.vs) \div (p.vt + tokens)

PumpSellSol(m, p, tokens) ==
    LET gross == PumpSellGross(p, tokens)
        net == Most(gross - CeilDiv(gross * m.fee, FeeBase), 0)
    IN  Least(Most(net - CeilDiv(gross * m.creatorFee, FeeBase), 0), p.rs)

\* synthetic_curve_after_buy_tokens: the tokens may be more than the curve has.
PumpAfterBuy(p, tokens) ==
    LET in == PumpCurveInput(p, tokens)
    IN  [vt |-> Most(p.vt - tokens, 0), vs |-> p.vs + in,
         rt |-> Most(p.rt - tokens, 0), rs |-> p.rs + in]

-----------------------------------------------------------------------------
(* Bonk: three curves; a is the token, b what it is paid with *)

BonkFeeOf(m, amount) == CeilDiv(amount * m.fee, FeeBase)

BonkPreFee(m, net) ==
    IF m.fee = 0 THEN net ELSE CeilDiv(net * FeeBase, FeeBase - m.fee)

\* The error of bonk_curve_init_virtuals: no quote can divide by these.
NoVirtuals == [va |-> 0, vb |-> 0]

\* bonk_curve_init_virtuals: the virtual reserves of a new pool.
BonkVirtuals(m) ==
    LET unlocked == m.supply - m.locked
        raised == m.raise - m.migrateFee
        rest == unlocked - m.sell
        slope == (raised * m.sell) \div rest - m.raise
        expect == (2 * m.raise * unlocked) \div (3 * m.raise - m.migrateFee)
    IN  CASE m.curve = 0 ->
                IF m.supply <= m.sell \/ rest <= 0 \/ raised <= 0 THEN NoVirtuals
                ELSE IF slope <= 0 THEN NoVirtuals
                ELSE [va |-> ((raised * m.sell * m.sell) \div rest) \div slope,
                      vb |-> (m.raise * m.raise) \div slope]
          [] m.curve = 1 ->
                IF unlocked <= 0 \/ 2 * m.raise <= m.migrateFee THEN NoVirtuals
                ELSE [va |-> (m.raise * unlocked) \div (2 * m.raise - m.migrateFee),
                      vb |-> m.raise]
          [] m.curve = 2 ->
                IF unlocked <= 0 \/ 3 * m.raise <= m.migrateFee \/ expect = 0 THEN NoVirtuals
                ELSE IF (2 * m.raise * Q) \div (expect * expect) = 0 THEN NoVirtuals
                ELSE [va |-> (2 * m.raise * Q) \div (expect * expect), vb |-> 0]

\* The prices of the linear curve: what has been paid when a tokens are out.
LinearPaid(p, a) == CeilDiv(p.va * a * a, 2 * Q)

\* Mutant of BonkBuyIn: the tokens are rounded up.
BonkBuyInUp(m, p, amount) ==
    CASE m.curve = 0 -> CeilDiv(amount * (p.va - p.ra), p.vb + p.rb + amount)
      [] m.curve = 1 -> CeilDiv(p.va * amount, p.vb)
      [] m.curve = 2 -> SqrtRound((2 * (p.rb + amount) * Q) \div p.va) - p.ra

BonkBuyIn(m, p, amount) ==
    CASE m.curve = 0 -> (amount * (p.va - p.ra)) \div (p.vb + p.rb + amount)
      [] m.curve = 1 -> (p.va * amount) \div p.vb
      [] m.curve = 2 -> SqrtRound((2 * (p.rb + amount) * Q) \div p.va) - p.ra

BonkBuyOut(m, p, tokens) ==
    CASE m.curve = 0 -> IF tokens >= p.va - p.ra THEN None
                        ELSE CeilDiv((p.vb + p.rb) * tokens, p.va - p.ra - tokens)
      [] m.curve = 1 -> CeilDiv(p.vb * tokens, p.va)
      [] m.curve = 2 -> LinearPaid(p, p.ra + tokens) - p.rb

BonkSellIn(m, p, tokens) ==
    CASE m.curve = 0 -> (tokens * (p.vb + p.rb)) \div (p.va - p.ra + tokens)
      [] m.curve = 1 -> (p.vb * tokens) \div p.va
      [] m.curve = 2 -> p.rb - LinearPaid(p, p.ra - tokens)

BonkLeft(m, p) == m.sell - p.ra

\* Mutant of BonkFollowBuy: the whole request is spent when the curve ends.
BonkFollowBuyAll(m, p, request) ==
    LET net == request - BonkFeeOf(m, request)
        tokens == BonkBuyIn(m, p, net)
    IN  [gross |-> BonkPreFee(m, request),
         net |-> net, tokens |-> Least(tokens, BonkLeft(m, p))]

\* bonk_follow_buy_quote_details
BonkFollowBuy(m, p, request) ==
    LET net == request - BonkFeeOf(m, request)
        tokens == BonkBuyIn(m, p, net)
        capped == BonkBuyOut(m, p, BonkLeft(m, p))
    IN  IF tokens > BonkLeft(m, p)
        THEN [gross |-> IF capped = None THEN None ELSE BonkPreFee(m, capped),
              net |-> capped, tokens |-> BonkLeft(m, p)]
        ELSE [gross |-> request, net |-> net, tokens |-> tokens]

\* bonk_quote_buy_exact_out_amount_b
BonkExactOut(m, p, tokens) ==
    LET net == BonkBuyOut(m, p, Least(tokens, BonkLeft(m, p)))
    IN  IF net = None THEN None ELSE BonkPreFee(m, net)

\* bonk_quote_buy_exact_in_amount_a
BonkExactIn(m, p, amount) ==
    Least(BonkBuyIn(m, p, amount - BonkFeeOf(m, amount)), BonkLeft(m, p))

BonkSellNet(m, p, tokens) ==
    LET gross == BonkSellIn(m, p, tokens) IN gross - BonkFeeOf(m, gross)

\* advance_prelaunch_bonk_pool_context_after_buy
BonkAfterBuy(p, details) ==
    [p EXCEPT !.ra = @ + details.tokens, !.rb = @ + details.net]
=============================================================================
