----------------------------- MODULE DbcQuotes -----------------------------
(***************************************************************************)
(* Bags quotes, src/rust/launchdeck-engine/src/bags_native.rs: the fee of  *)
(* a trade by its size and its time, the walk along the pieces of the DBC  *)
(* curve (a sequence of [price, liquidity], price being a square root in   *)
(* fixed point), and the DAMM pool after the migration.                    *)
(***************************************************************************)
EXTENDS CurveQuotes

Resolution == Q * Q     \* 1 << (DBC_RESOLUTION_BITS * 2)

\* big_pow_q64: by squaring, every product truncated to the fixed point.
PowQ(base, exp) ==
    LET Pow[e \in Nat] ==   \* of <<what base has been squared to, the result so far>>
            [x \in Nat \X Nat |->
                IF e = 0 THEN x[2]
                ELSE Pow[e \div 2][<<(x[1] * x[1]) \div Q,
                                     IF e % 2 = 1 THEN (x[2] * x[1]) \div Q ELSE x[2]>>]]
    IN  Pow[exp][<<base, Q>>]

\* bags_dbc_rate_limiter_fee_numerator: every further reference amount of one
\* trade pays one step more.
RateLimiterFee(cliff, reference, step, amount) ==
    LET a == (amount - reference) \div reference
        b == (amount - reference) % reference
        most == (MaxFee - cliff) \div step
        upTo(n) == reference * (cliff + cliff * n + (step * n * (n + 1)) \div 2)
        total == IF a < most
                 THEN upTo(a) + b * (cliff + step * (a + 1))
                 ELSE upTo(most) + ((a - most) * reference + b) * MaxFee
    IN  IF reference = 0 \/ amount <= reference THEN Least(cliff, MaxFee)
        ELSE Least(CeilDiv(CeilDiv(total, FeeBase) * FeeBase, amount), MaxFee)

\* How much of the schedule has gone by.  Before the activation the DBC fee is
\* that of the end of the schedule and the DAMM fee that of its beginning.
Periods(m, now) ==
    IF now >= m.start THEN Least((now - m.start) \div m.every, m.periods)
    ELSE IF m.kind = "dbc" THEN m.periods ELSE 0

\* The dynamic fee, rounded up.
DynamicFee(m) == CeilDiv(m.volatility * m.volatility, 100)

BaseFee(m, now, buying, amount) ==
    CASE m.feeMode = "limiter" ->
            IF buying /\ now >= m.start /\ now <= m.start + m.every
            THEN RateLimiterFee(m.cliff, m.reference, m.step, amount) ELSE m.cliff
      [] m.feeMode = "linear" -> Most(m.cliff - Periods(m, now) * m.step, 0)
      [] m.feeMode = "exponential" ->
            (m.cliff * PowQ(Most(Q - (m.step * Q) \div FeeBase, 0), Periods(m, now))) \div Q
      [] OTHER -> m.cliff

\* bags_dbc_trade_fee_numerator_for_amount, cpamm_trade_fee_numerator
TradeFee(m, now, buying, amount) ==
    Least(BaseFee(m, now, buying, amount) + DynamicFee(m), MaxFee)

\* bags_get_fee_amount_excluded
LessFee(amount, fee) == amount - CeilDiv(amount * fee, FeeBase)

-----------------------------------------------------------------------------
(* The pieces of the curve *)

BaseBetween(lower, upper, liquidity, up) ==
    LET n == liquidity * (upper - lower)
    IN  IF up THEN CeilDiv(n, lower * upper) ELSE n \div (lower * upper)

QuoteBetween(lower, upper, liquidity, up) ==
    LET n == liquidity * (upper - lower)
    IN  IF up THEN CeilDiv(n, Resolution) ELSE n \div Resolution

\* One call of a walk: the price it starts from, what is left of the input,
\* what has come out.  bags_dbc_swap_amount_from_quote_to_base; an input that
\* the curve does not take is an error.
QuoteToBase(curve, from, amount) ==
    LET Walk[i \in Nat, price \in Nat, left \in Nat, out \in Nat] ==
            IF i > Len(curve) THEN [out |-> IF left = 0 THEN out ELSE None, price |-> price]
            ELSE LET point == curve[i]
                     most == QuoteBetween(price, point.price, point.liquidity, TRUE)
                     next == price + (left * Resolution) \div point.liquidity
                 IN  IF point.price <= price THEN Walk[i + 1, price, left, out]
                     ELSE IF left < most
                     THEN [out |-> out + BaseBetween(price, next, point.liquidity, FALSE),
                           price |-> next]
                     ELSE Walk[i + 1, point.price, left - most,
                               out + BaseBetween(price, point.price, point.liquidity, FALSE)]
    IN  Walk[1, from, amount, 0]

\* bags_dbc_swap_amount_from_base_to_quote: downwards, and on below the first
\* point with the liquidity of the first piece.
BaseToQuote(curve, from, amount) ==
    LET down(price, liquidity, left) == CeilDiv(liquidity * price, liquidity + left * price)
        Walk[i \in Nat, price \in Nat, left \in Nat, out \in Nat] ==
            IF left = 0 THEN [out |-> out, price |-> price]
            ELSE IF i = 0
            THEN LET next == down(price, curve[1].liquidity, left)
                 IN  [out |-> out + QuoteBetween(next, price, curve[1].liquidity, FALSE),
                      price |-> next]
            ELSE LET point == curve[i]
                     liquidity == IF i < Len(curve) THEN curve[i + 1].liquidity
                                  ELSE point.liquidity
                     most == BaseBetween(point.price, price, liquidity, TRUE)
                     next == down(price, liquidity, left)
                 IN  IF point.price >= price THEN Walk[i - 1, price, left, out]
                     ELSE IF left < most
                     THEN [out |-> out + QuoteBetween(next, price, liquidity, FALSE),
                           price |-> next]
                     ELSE Walk[i - 1, point.price, left - most,
                               out + QuoteBetween(point.price, price, liquidity, FALSE)]
    IN  Walk[Len(curve), from, amount, 0]

\* bags_dbc_swap_quote_exact_in: the fee is taken from what is paid in only
\* for a purchase on a market that collects it in the quote currency.
DbcSwap(m, p, now, buying, amount) ==
    LET onInput == buying /\ m.quoteFees
        in == IF onInput THEN LessFee(amount, TradeFee(m, now, buying, amount)) ELSE amount
        swap == IF buying THEN QuoteToBase(m.points, p.price, in)
                          ELSE BaseToQuote(m.points, p.price, in)
    IN  IF swap.out = None \/ onInput THEN swap
        ELSE [swap EXCEPT !.out = LessFee(@, TradeFee(m, now, buying, @))]

-----------------------------------------------------------------------------
(* DAMM: one piece without ends; token a is the launched one *)

\* cpamm_swap_amount_out
DammSwap(m, p, now, buying, amount) ==
    LET fee == TradeFee(m, now, buying, amount)
        in == IF buying /\ m.quoteFees THEN LessFee(amount, fee) ELSE amount
        next == IF buying THEN p.price + (in * Resolution) \div m.liquidity
                ELSE CeilDiv(m.liquidity * p.price, m.liquidity + in * p.price)
        raw == IF buying THEN BaseBetween(p.price, next, m.liquidity, FALSE)
                         ELSE QuoteBetween(next, p.price, m.liquidity, FALSE)
    IN  [out |-> IF buying /\ m.quoteFees THEN raw ELSE LessFee(raw, fee), price |-> next]
=============================================================================
