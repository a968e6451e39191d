------------------------------ MODULE Rounding ------------------------------
(***************************************************************************)
(* Integer arithmetic of the quotes of src/rust/launchdeck-engine/src/     *)
(* pump_native.rs, bonk_native.rs and bags_native.rs.  The code computes   *)
(* with u128 and big integers, so nothing wraps; a subtraction that would  *)
(* be negative is an error, which is None here.                            *)
(***************************************************************************)
EXTENDS Integers

None == -1

CeilDiv(a, b) == (a + b - 1) \div b

Least(a, b) == IF a < b THEN a ELSE b
Most(a, b)  == IF a > b THEN a ELSE b

\* The largest number whose square is at most n.
SqrtFloor(n) == CHOOSE r \in 0..n : r * r <= n /\ n < (r + 1) * (r + 1)

\* bonk_biguint_sqrt_round: to the nearest.
SqrtRound(n) == LET r == SqrtFloor(n) IN IF n - r * r > r THEN r + 1 ELSE r

\* The part of an amount that a slippage of bps out of base leaves.
MinFromBps(amount, bps, base) == (amount * (base - Least(bps, base))) \div base
=============================================================================
