----------------------------- MODULE ClmmQuote ------------------------------
(***************************************************************************)
(* What SOL brings in USD1 on the pinned concentrated liquidity pool,      *)
(* bonk_quote_usd1_from_exact_sol_input of src/rust/launchdeck-engine/src/ *)
(* bonk_native.rs: the price falls from tick to tick, each step with the   *)
(* liquidity of its piece, until the input is spent.                       *)
(***************************************************************************)
EXTENDS Rounding, FiniteSets, FiniteSetsExt

\* All naturals, but for TickPrice, [Int -> Nat]; FeeBase, Q and ArraySize not 0.
CONSTANTS
    FeeBase,    \* BONK_FEE_RATE_DENOMINATOR
    Q,          \* fixed point one, 2^64 in the code
    TickPrice,  \* the square root price of a tick; rises with the tick
    ArraySize,  \* ticks of a tick array
    MinPrice    \* BONK_CLMM_MIN_SQRT_PRICE_X64_PLUS_ONE

ArrayStart(tick) == (tick \div ArraySize) * ArraySize

\* bonk_find_next_initialized_tick_zero_for_one: setup.net has the initialized
\* ticks, setup.arrays the tick arrays the bitmap knows.  A current tick in an
\* array that is not there is an error, also when lower arrays exist.
NextTick(setup, tick) ==
    LET below == {t \in DOMAIN setup.net : t <= tick /\ ArrayStart(t) \in setup.arrays}
    IN  IF ArrayStart(tick) \notin setup.arrays \/ below = {} THEN {}
        ELSE {Max(below)}

AmountA(lower, upper, liquidity, up) ==
    LET n == liquidity * Q * (upper - lower)
    IN  IF up THEN CeilDiv(CeilDiv(n, upper), lower) ELSE (n \div upper) \div lower

AmountB(lower, upper, liquidity) == (liquidity * (upper - lower)) \div Q

\* bonk_get_next_sqrt_price_from_token_amount_a_rounding_up
NextPrice(price, liquidity, amount) ==
    IF amount = 0 THEN price
    ELSE CeilDiv(liquidity * Q * price, liquidity * Q + amount * price)

\* bonk_clmm_swap_step_exact_in_zero_for_one
SwapStep(price, target, liquidity, remaining, rate) ==
    LET lessFee == (remaining * (FeeBase - rate)) \div FeeBase
        toTarget == AmountA(target, price, liquidity, TRUE)
        next == IF lessFee >= toTarget THEN target ELSE NextPrice(price, liquidity, lessFee)
        in == IF next = target THEN toTarget ELSE AmountA(next, price, liquidity, TRUE)
    IN  [price |-> next, in |-> in, out |-> AmountB(next, price, liquidity),
         fee |-> IF next # target THEN remaining - in
                 ELSE CeilDiv(in * rate, FeeBase - rate)]

\* The walk; an input beyond the liquidity, or one the rounding of a step
\* makes the pool ask more than is left of, is an error (None).
ClmmOut(setup, input) ==
    LET Walk[price \in Nat, liquidity \in Nat, tick \in Int, left \in Int, out \in Nat] ==
            IF left < 0 THEN None
            ELSE IF left = 0 \/ price <= MinPrice THEN out
            ELSE LET next == NextTick(setup, tick)
                 IN  IF next = {} THEN None
                     ELSE LET stop == CHOOSE t \in next : TRUE
                              target == Most(TickPrice[stop], MinPrice)
                              step == SwapStep(price, target, liquidity, left, setup.rate)
                              crossed == step.price = target
                          IN  Walk[step.price,
                                   IF crossed THEN liquidity - setup.net[stop] ELSE liquidity,
                                   IF crossed THEN stop - 1 ELSE tick,
                                   left - step.in - step.fee, out + step.out]
    IN  Walk[setup.price, setup.liquidity, setup.tick, input, 0]
=============================================================================
