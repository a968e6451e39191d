--------------------------- MODULE Trades_proofs ----------------------------
(***************************************************************************)
(* What is computed before sending, for every market, balance and amount.  *)
(* What Pump, Bonk and the DAMM pool round goes against the wallet that    *)
(* trades, and never against the curve: each kind of market has an         *)
(* invariant of what it has been paid for what it gave (DBC's curve of     *)
(* pieces has none here).  And a purchase that follows a landed top-up of  *)
(* USD1 is funded, whatever others did to the pool while its input was     *)
(* searched.                                                               *)
(***************************************************************************)
EXTENDS Trades, Usd1TopUp, WellFoundedInduction, TLAPS

-----------------------------------------------------------------------------
(* Numbers                                                                 *)

\* What is left of a division that rounds down.
LEMMA Quotient ==
    ASSUME NEW a \in Int, NEW b \in Nat \ {0}
    PROVE  /\ a \div b \in Int /\ (a \in Nat => a \div b \in Nat)
           /\ b * (a \div b) <= a
           /\ a < b * (a \div b) + b
OBVIOUS

\* A product that is less than one factor above another.
LEMMA CancelTimes ==
    ASSUME NEW a \in Int, NEW b \in Int, NEW c \in Nat \ {0}, c * a < c * b + c
    PROVE  a <= b
OBVIOUS

\* What is left of a division that rounds up (CeilDiv).
LEMMA CeilQuotient ==
    ASSUME NEW a \in Int, NEW b \in Nat \ {0}
    PROVE  /\ CeilDiv(a, b) \in Int /\ (a \in Nat => CeilDiv(a, b) \in Nat)
           /\ a <= b * CeilDiv(a, b)
           /\ b * CeilDiv(a, b) < a + b
<1> DEFINE n == a + b - 1
           c == n \div b
<1>1. n \in Int /\ (a \in Nat => n \in Nat)
  OBVIOUS
<1>2. c \in Int /\ (n \in Nat => c \in Nat) /\ b * c <= n /\ n < b * c + b
  <2> HIDE DEF n
  <2> QED BY <1>1, Quotient
<1> HIDE DEF c
<1>3. c \in Int /\ (a \in Nat => c \in Nat) /\ a <= b * c /\ b * c < a + b
  BY <1>1, <1>2
<1> QED BY <1>3 DEF c, CeilDiv

\* Rounded up, it is the least number of times that is enough.
LEMMA QuotientLeast ==
    ASSUME NEW a \in Int, NEW b \in Nat \ {0}, NEW n \in Int, a <= b * n
    PROVE  CeilDiv(a, b) <= n
<1> DEFINE c == CeilDiv(a, b)
<1>1. c \in Int /\ b * c < a + b
  BY CeilQuotient
<1> HIDE DEF c
<1>2. b * c < b * n + b
  BY <1>1
<1>3. c <= n
  BY <1>1, <1>2, CancelTimes
<1> QED BY <1>3 DEF c

\* Rounded down, it is at most any number of times that is enough.
LEMMA QuotientMost ==
    ASSUME NEW a \in Int, NEW b \in Nat \ {0}, NEW n \in Int, a <= b * n
    PROVE  a \div b <= n
<1> DEFINE c == a \div b
<1>1. c \in Int /\ b * c <= a
  BY Quotient
<1> HIDE DEF c
<1>2. b * c < b * n + b
  BY <1>1
<1>3. c <= n
  BY <1>1, <1>2, CancelTimes
<1> QED BY <1>3 DEF c

\* Rounded down, it is at least any number of times that fits.
LEMMA QuotientAtLeast ==
    ASSUME NEW a \in Nat, NEW b \in Nat \ {0}, NEW n \in Nat, b * n <= a
    PROVE  n <= a \div b
<1> DEFINE c == a \div b
<1>1. c \in Nat /\ a < b * c + b
  BY Quotient
<1> HIDE DEF c
<1>2. b * n < b * c + b
  BY <1>1
<1>3. n <= c
  BY <1>1, <1>2, CancelTimes
<1> QED BY <1>3 DEF c

\* The order of the numbers as the library's relation.
LEMMA LessRel == OpToRel(<,Nat) = {ss \in Nat \X Nat : ss[1] < ss[2]}
BY DEF OpToRel

\* Induction, for a set of numbers: one that is not in it would have a least.
LEMMA SetInduction ==
    ASSUME NEW T \in SUBSET Nat, 0 \in T, \A n \in T : n + 1 \in T
    PROVE  T = Nat
<1> DEFINE Less == {ss \in Nat \X Nat : ss[1] < ss[2]}
           U == Nat \ T
<1> SUFFICES ASSUME U # {} PROVE FALSE
  OBVIOUS
<1>1. IsWellFoundedOn(Less, Nat)
  BY ONLY NatLessThanWellFounded, LessRel, Zenon
<1>2. PICK x \in U : \A y \in U : ~(<<y, x>> \in Less)
  <2>1. U \subseteq Nat
    OBVIOUS
  <2> HIDE DEF U, Less
  <2> QED BY <1>1, <2>1, WFMin
<1>3. x \in Nat /\ x # 0 /\ x - 1 \in Nat
  OBVIOUS
<1>4. <<x - 1, x>> \in Less
  BY <1>3
<1>5. x - 1 \in T
  BY <1>2, <1>3, <1>4
<1> QED BY <1>3, <1>5

\* Every number has the root that SqrtFloor chooses.
LEMMA SqrtExists ==
    ASSUME NEW n \in Nat
    PROVE  \E r \in 0..n : r * r <= n /\ n < (r + 1) * (r + 1)
<1> DEFINE T == {k \in Nat : \E r \in 0..k : r * r <= k /\ k < (r + 1) * (r + 1)}
<1>1. 0 \in T
  OBVIOUS
<1>2. ASSUME NEW k \in T PROVE k + 1 \in T
  <2>1. PICK r \in 0..k : r * r <= k /\ k < (r + 1) * (r + 1)
    OBVIOUS
  <2>2. CASE k + 1 < (r + 1) * (r + 1)
    BY <2>1, <2>2
  <2>3. CASE k + 1 = (r + 1) * (r + 1)
    <3> DEFINE s == r + 1
    <3>1. s \in 0..(k + 1) /\ s * s <= k + 1
      BY <2>3
    <3>2. k + 1 < (s + 1) * (s + 1)
      <4>1. s \in Nat /\ k + 1 = s * s
        BY <2>3
      <4>2. (s + 1) * (s + 1) = s * s + 2 * s + 1
        BY <4>1
      <4> HIDE DEF s
      <4> QED BY <4>1, <4>2
    <3>3. \E x \in 0..(k + 1) : x * x <= k + 1 /\ k + 1 < (x + 1) * (x + 1)
      <4> HIDE DEF s
      <4> QED BY <3>1, <3>2
    <3> QED BY <3>3
  <2> QED BY <2>1, <2>2, <2>3
<1>3. T = Nat
  <2>1. T \in SUBSET Nat
    OBVIOUS
  <2> HIDE DEF T
  <2> QED BY <1>1, <1>2, <2>1, SetInduction
<1> QED BY <1>3

\* The root that is nearest is at most one half too large.
LEMMA SqrtRoundBound ==
    ASSUME NEW n \in Nat
    PROVE  SqrtRound(n) \in Nat /\ SqrtRound(n) * SqrtRound(n) <= n + SqrtRound(n)
<1> DEFINE f == SqrtFloor(n)
           r == SqrtRound(n)
<1>1. f \in Nat /\ f * f <= n
  <2>1. f \in 0..n /\ f * f <= n
    <3>1. \E x \in 0..n : x * x <= n /\ n < (x + 1) * (x + 1)
      BY SqrtExists
    <3>2. f = CHOOSE x \in 0..n : x * x <= n /\ n < (x + 1) * (x + 1)
      BY DEF SqrtFloor
    <3> HIDE DEF f
    <3> QED BY <3>1, <3>2, Zenon
  <2> QED BY <2>1
<1>2. r = IF n - f * f > f THEN f + 1 ELSE f
  BY DEF SqrtRound
<1> HIDE DEF f, r
<1>3. r \in Nat
  BY <1>1, <1>2
<1>4. CASE n - f * f > f
  <2>1. r = f + 1 /\ r * r = f * f + f + r
    BY <1>1, <1>2, <1>4
  <2> QED BY <2>1, <1>1, <1>3, <1>4 DEF r
<1>5. CASE ~(n - f * f > f)
  BY <1>1, <1>2, <1>5 DEF r
<1> QED BY <1>4, <1>5

\* A purchase of t for n from the reserves A and B of a constant product.
LEMMA ProductAfterBuy ==
    ASSUME NEW A \in Nat, NEW B \in Nat, NEW n \in Nat, NEW t \in Nat,
           (B + n) * t <= n * A
    PROVE  (B + n) * (A - t) >= B * A
<1>1. (B + n) * (A - t) = (B+n) * A - (B+n) * t
  OBVIOUS
<1>2. (B + n) * A = B * A + n * A
  OBVIOUS
<1> QED BY <1>1, <1>2

\* The same for the n that t tokens cost.
LEMMA ProductAfterCappedBuy ==
    ASSUME NEW A \in Nat, NEW B \in Nat, NEW n \in Nat, NEW t \in Nat,
           B * t <= (A - t) * n
    PROVE  (B + n) * (A - t) >= B * A
<1>1. (B + n) * (A - t) = B * A - B * t + (A - t) * n
  OBVIOUS
<1> QED BY <1>1

\* A sale of t for n.
LEMMA ProductAfterSell ==
    ASSUME NEW A \in Nat, NEW B \in Nat, NEW n \in Nat, NEW t \in Nat,
           (A + t) * n <= t * B
    PROVE  (B - n) * (A + t) >= B * A
<1>1. (B - n) * (A + t) = B * A + t * B - (A + t) * n
  OBVIOUS
<1> QED BY <1>1

\* what a sale pays out was paid in
LEMMA ProductBacks ==
    ASSUME NEW A \in Nat, NEW B \in Int, NEW a0 \in Nat, NEW b0 \in Nat,
           B * A >= b0 * a0, A <= a0, A > 0
    PROVE  B >= b0
<1>1. SUFFICES ASSUME B <= b0 - 1 PROVE FALSE
  OBVIOUS
<1>2. B * A <= (b0 - 1) * A
  BY <1>1
<1>3. (b0 - 1) * A = b0 * A - A
  OBVIOUS
<1>4. b0 * A <= b0 * a0
  OBVIOUS
<1> QED BY <1>2, <1>3, <1>4

-----------------------------------------------------------------------------
(* Pump                                                                    *)

\* What MarketAssumption says of Pump's markets, and their pools.
PumpMarket == [kind: {"pump"}, vt: Nat, vs: Nat, rt: Nat, fee: Nat, creatorFee: Nat]
PumpPool == [vt: Nat, vs: Nat, rt: Nat, rs: Nat]

\* What reaches the curve is less than what is spent: a lamport is held back.
LEMMA PumpInputBound ==
    ASSUME NEW m \in PumpMarket, NEW spend \in Nat \ {0}
    PROVE  PumpInput(m, spend) \in Nat /\ PumpInput(m, spend) + 1 <= spend
<1> DEFINE s == spend - 1
           d == FeeBase + m.fee + m.creatorFee
<1>1. s \in Nat /\ d \in Nat \ {0} /\ FeeBase \in Nat \ {0} /\ FeeBase <= d
  BY QuoteAssumption DEF PumpMarket
<1>2. PumpInput(m, spend) = (s * FeeBase) \div d
  BY <1>1 DEF PumpInput, Most
<1> HIDE DEF s, d
<1>3. s * FeeBase \in Nat /\ s * FeeBase <= d * s
  BY <1>1
<1>4. (s * FeeBase) \div d <= s /\ (s * FeeBase) \div d \in Nat
  BY <1>1, <1>3, QuotientMost, Quotient
<1> QED BY <1>2, <1>4, <1>1 DEF s

\* The tokens for an amount: on the curve, and no more than are for sale.
LEMMA PumpBuyBound ==
    ASSUME NEW m \in PumpMarket, NEW p \in PumpPool, NEW spend \in Nat \ {0}
    PROVE  LET in == PumpInput(m, spend)
               t == PumpBuyTokens(m, p, spend)
           IN  t \in Nat /\ t <= p.rt /\ (p.vs + in) * t <= in * p.vt
<1> DEFINE in == PumpInput(m, spend)
           t == PumpBuyTokens(m, p, spend)
<1>1. in \in Nat
  BY PumpInputBound
<1>2. p.vs \in Nat /\ p.vt \in Nat /\ p.rt \in Nat
  BY DEF PumpPool
<1>3. t = IF in = 0 THEN 0 ELSE Least((in * p.vt) \div (p.vs + in), p.rt)
  BY DEF PumpBuyTokens
<1> HIDE DEF in, t
<1>4. CASE in = 0
  BY <1>1, <1>2, <1>3, <1>4 DEF in, t
<1>5. CASE in # 0
  <2> DEFINE n == in * p.vt
             d == p.vs + in
             q == n \div d
  <2>1. n \in Nat /\ d \in Nat \ {0}
    BY <1>1, <1>2, <1>5
  <2>2. q \in Nat /\ d * q <= n
    <3> HIDE DEF n, d
    <3> QED BY <2>1, Quotient
  <2>3. t = Least(q, p.rt)
    BY <1>3, <1>5
  <2> HIDE DEF n, d, q
  <2>4. t \in Nat /\ t <= p.rt /\ t <= q
    BY <2>2, <2>3, <1>2 DEF Least
  <2>5. d * t <= d * q
    BY <2>4, <2>1, <2>2
  <2>6. d * t <= n
    BY <2>5, <2>2, <2>1, <2>4
  <2> QED BY <2>4, <2>6 DEF n, d, in, t
<1> QED BY <1>4, <1>5

\* What reaches the curve for tokens that it has.
LEMMA PumpCurveInputBound ==
    ASSUME NEW p \in PumpPool, p.rt < p.vt, NEW t \in Nat, t <= p.rt
    PROVE  LET n == PumpCurveInput(p, t)
           IN  /\ n \in Nat /\ p.vs * t <= (p.vt - t) * n
               /\ \A in \in Nat : (p.vs + in) * t <= in * p.vt => n <= in + 1
<1> DEFINE n == PumpCurveInput(p, t)
           d == p.vt - t
           b == p.vs * t
<1>1. p.vs \in Nat /\ p.vt \in Nat /\ p.rt \in Nat /\ d \in Nat \ {0} /\ b \in Nat
  BY DEF PumpPool
<1>2. n = IF t = 0 THEN 0 ELSE b \div d + 1
  <2>1. Least(t, p.rt) = t
    <3>1. p.rt \in Nat
      BY <1>1
    <3> QED BY <3>1, SMT DEF Least
  <2>2. t * p.vs = b
    BY <1>1
  <2> QED BY <2>1, <2>2, Zenon DEF PumpCurveInput
<1> HIDE DEF n, b
<1>3. CASE t = 0
  <2>1. n = 0 /\ b = 0
    BY <1>1, <1>2, <1>3 DEF b
  <2>2. n \in Nat /\ b <= d * n /\ \A in \in Nat : n <= in + 1
    <3> HIDE DEF d
    <3> QED BY <2>1, <1>1
  <2> QED BY <2>2 DEF n, b
<1>4. CASE t # 0
  <2> DEFINE q == b \div d
  <2>1. q \in Nat /\ b < d * q + d
    <3> HIDE DEF d
    <3> QED BY <1>1, Quotient
  <2>2. n = q + 1
    BY <1>2, <1>4
  <2> HIDE DEF q, d
  <2>3. d * n = d * q + d
    BY <2>1, <2>2, <1>1
  <2>4. n \in Nat /\ b <= d * n
    BY <2>1, <2>2, <2>3, <1>1
  <2>5. ASSUME NEW in \in Nat, (p.vs + in) * t <= in * p.vt
        PROVE  n <= in + 1
    <3>1. (p.vs + in) * t = b + in * t /\ in * p.vt = d * in + in * t
      BY <1>1 DEF b, d
    <3>2. b <= d * in
      BY <2>5, <3>1, <1>1
    <3>3. q <= in
      BY <3>2, <1>1, QuotientMost DEF q
    <3> QED BY <3>3, <2>1, <2>2
  <2> QED BY <2>4, <2>5 DEF n, b, d
<1> QED BY <1>3, <1>4

\* The cost of a number of tokens is what the curve takes and the fees.
LEMMA PumpCostBound ==
    ASSUME NEW m \in PumpMarket, NEW p \in PumpPool, p.rt < p.vt, NEW t \in Nat, t <= p.rt
    PROVE  PumpBuyCost(m, p, t) \in Nat /\ PumpCurveInput(p, t) <= PumpBuyCost(m, p, t)
<1> DEFINE n == PumpCurveInput(p, t)
           x == n * m.fee
           y == n * m.creatorFee
           c == CeilDiv(x, FeeBase)
           d == CeilDiv(y, FeeBase)
<1>1. n \in Nat
  BY PumpCurveInputBound
<1>2. PumpBuyCost(m, p, t) = n + c + d
  BY DEF PumpBuyCost
<1> HIDE DEF n
<1>3. x \in Nat /\ x \in Int /\ y \in Nat /\ y \in Int /\ FeeBase \in Nat \ {0}
  BY <1>1, QuoteAssumption DEF PumpMarket
<1> HIDE DEF x, y
<1>4. c \in Nat /\ d \in Nat
  BY ONLY <1>3, CeilQuotient
<1> HIDE DEF c, d
<1> QED BY <1>1, <1>2, <1>4 DEF n

\* The state that all kinds of market share.
PaidInv == venue \in Markets /\ paid \in Nat /\ request \in Nat /\ trades \in Nat /\ now \in Nat

\* Pump: the tokens held are those that have left the curve, the product of the
\* reserves has not fallen, and what is in the curve has been paid and not taken out.
PumpKept ==
    /\ held \in Nat /\ got \in Int /\ pool \in PumpPool
    /\ pool.rt = venue.rt - held /\ pool.vt = venue.vt - held
    /\ pool.vs = venue.vs + pool.rs
    /\ pool.vs * pool.vt >= venue.vs * venue.vt
    /\ pool.rs <= paid - got
    /\ trades = 0 => held = 0

\* The curve made up after a launch that was refused: nothing for sale, nothing held.
PumpRefused ==
    /\ trades # 0 /\ held = 0 /\ got \in Int /\ got <= paid
    /\ pool \in PumpPool /\ pool.rt = 0

PumpInv == venue.kind = "pump" => PumpKept \/ PumpRefused

\* A market of Pump is typed.
LEMMA PumpMarkets ==
    ASSUME NEW m \in Markets, m.kind = "pump"
    PROVE  m \in PumpMarket /\ m.rt < m.vt
BY MarketAssumption DEF PumpMarket

\* Whoever pays at least what the curve takes for tokens it has, keeps it.
LEMMA PumpBought ==
    ASSUME PaidInv, PumpKept, venue.kind = "pump", NEW cost \in Nat, NEW tokens \in Nat,
           tokens <= pool.rt, PumpCurveInput(pool, tokens) <= cost,
           Bought(cost, tokens, PumpAfterBuy(pool, tokens))
    PROVE  PumpKept'
<1> DEFINE n == PumpCurveInput(pool, tokens)
<1>1. venue \in PumpMarket /\ venue.rt < venue.vt
  BY PumpMarkets DEF PaidInv
<1>2. /\ venue.vt \in Nat /\ venue.vs \in Nat /\ venue.rt \in Nat
      /\ pool.vt \in Nat /\ pool.vs \in Nat /\ pool.rt \in Nat /\ pool.rs \in Nat
      /\ held \in Nat /\ got \in Int /\ paid \in Nat
  BY <1>1 DEF PumpKept, PumpMarket, PumpPool, PaidInv
<1>3. pool \in PumpPool /\ pool.rt < pool.vt
  BY <1>1, <1>2 DEF PumpKept
<1>4. n \in Nat /\ pool.vs * tokens <= (pool.vt - tokens) * n
  BY <1>3, PumpCurveInputBound
<1>t. Most(pool.vt - tokens, 0) = pool.vt - tokens /\ Most(pool.rt - tokens, 0) = pool.rt - tokens
  BY <1>2, <1>3 DEF Most
<1>5. /\ pool' = [vt |-> pool.vt - tokens, vs |-> pool.vs + n, rt |-> pool.rt - tokens,
                 rs |-> pool.rs + n]
      /\ held' = held + tokens /\ paid' = paid + cost /\ got' = got /\ venue' = venue
      /\ trades' # 0
  BY <1>t DEF Bought, PumpAfterBuy, PaidInv
<1>6. (pool.vs + n) * (pool.vt - tokens) >= pool.vs * pool.vt
  BY <1>2, <1>4, ProductAfterCappedBuy
<1> HIDE DEF n
<1>7. pool'.vs * pool'.vt >= venue.vs * venue.vt
  <2>1. pool.vs * pool.vt >= venue.vs * venue.vt
    BY DEF PumpKept
  <2>2. pool'.vs * pool'.vt = (pool.vs + n) * (pool.vt - tokens)
    BY <1>5
  <2> QED BY <2>1, <2>2, <1>6, <1>2, <1>4
<1>8. pool' \in PumpPool
  BY <1>2, <1>3, <1>4, <1>5 DEF PumpPool
<1>9. n <= cost
  BY DEF n
<1> QED BY <1>2, <1>4, <1>5, <1>7, <1>8, <1>9 DEF PumpKept

\* What is asked of Pump covers what its curve takes for the tokens.
LEMMA PumpSpent ==
    ASSUME PaidInv, PumpInv, venue.kind = "pump", NEW spend \in Nat \ {0},
           LET tokens == PumpBuyTokens(venue, pool, spend)
           IN  Bought(spend, tokens, PumpAfterBuy(pool, tokens))
    PROVE  PumpInv'
<1> DEFINE tokens == PumpBuyTokens(venue, pool, spend)
           in == PumpInput(venue, spend)
<1>1. venue \in PumpMarket /\ venue.rt < venue.vt
  BY PumpMarkets DEF PaidInv
<1>0. PumpKept
  <2> SUFFICES ASSUME PumpRefused PROVE FALSE
    BY DEF PumpInv
  <2>1. pool \in PumpPool /\ pool.rt = 0
    BY DEF PumpRefused
  <2>2. tokens \in Nat /\ tokens <= pool.rt
    BY <1>1, <2>1, PumpBuyBound
  <2>3. tokens > 0
    BY DEF Bought
  <2> HIDE DEF tokens
  <2> QED BY <2>1, <2>2, <2>3
<1>2. pool \in PumpPool /\ pool.rt < pool.vt
  <2>1. /\ pool \in PumpPool /\ pool.rt = venue.rt - held /\ pool.vt = venue.vt - held
        /\ held \in Nat
    BY <1>0 DEF PumpKept
  <2>2. venue.rt \in Nat /\ venue.vt \in Nat
    BY <1>1 DEF PumpMarket
  <2> QED BY <1>1, <2>1, <2>2
<1>3. in \in Nat /\ in + 1 <= spend
  BY <1>1, PumpInputBound
<1>4. tokens \in Nat /\ tokens <= pool.rt /\ (pool.vs + in) * tokens <= in * pool.vt
  BY <1>1, <1>2, PumpBuyBound
<1>5. Bought(spend, tokens, PumpAfterBuy(pool, tokens))
  OBVIOUS
<1> HIDE DEF tokens, in
<1>6. PumpCurveInput(pool, tokens) \in Nat /\ PumpCurveInput(pool, tokens) <= in + 1
  BY <1>2, <1>3, <1>4, PumpCurveInputBound
<1>7. PumpCurveInput(pool, tokens) <= spend
  BY <1>3, <1>6
<1> QED BY <1>0, <1>4, <1>5, <1>7, PumpBought DEF PumpInv

\* Beyond what is for sale, tokens cost what is for sale costs.
LEMMA PumpCapped ==
    ASSUME NEW m \in PumpMarket, NEW p \in PumpPool, NEW t \in Nat, p.rt <= t
    PROVE  /\ PumpCurveInput(p, t) = PumpCurveInput(p, p.rt)
           /\ PumpBuyCost(m, p, t) = PumpBuyCost(m, p, p.rt)
<1>1. p.rt \in Nat
  BY DEF PumpPool
<1>2. Least(t, p.rt) = p.rt /\ Least(p.rt, p.rt) = p.rt
  BY <1>1 DEF Least
<1>3. PumpCurveInput(p, t) = PumpCurveInput(p, p.rt)
  BY <1>2, Zenon DEF PumpCurveInput
<1> QED BY <1>3, Zenon DEF PumpBuyCost

\* The purchase of a number of tokens with the launch, whatever the program sells.
LEMMA PumpTokensBought ==
    ASSUME PaidInv, PumpInv, NEW tokens \in Nat \ {0}, PumpDevBuyTokens(tokens)
    PROVE  /\ PumpInv' /\ PumpBuyCost(venue, pool, tokens) \in Nat
           /\ paid' \in {paid, paid + PumpBuyCost(venue, pool, tokens)}
<1> DEFINE cost == PumpBuyCost(venue, pool, tokens)
           in == PumpCurveInput(pool, tokens)
<1>1. venue \in PumpMarket /\ venue.rt < venue.vt /\ venue.kind = "pump" /\ trades = 0
  BY PumpMarkets DEF PaidInv, PumpDevBuyTokens
<1>0. PumpKept
  BY <1>1 DEF PumpInv, PumpRefused
<1>2. pool \in PumpPool /\ pool.rt < pool.vt /\ held = 0 /\ got \in Int /\ pool.rs <= paid - got
  <2>1. /\ pool \in PumpPool /\ pool.rt = venue.rt - held /\ pool.vt = venue.vt - held
        /\ held = 0 /\ got \in Int /\ pool.rs <= paid - got
    BY <1>0, <1>1 DEF PumpKept
  <2>2. venue.rt \in Nat /\ venue.vt \in Nat
    BY <1>1 DEF PumpMarket
  <2> QED BY <1>1, <2>1, <2>2
<1>3. PICK sold \in ProgramSells(pool, tokens) :
         IF sold = 0 THEN LaunchRefused(PumpAfterBuy(pool, tokens))
                     ELSE Bought(cost, sold, PumpAfterBuy(pool, sold))
  BY DEF PumpDevBuyTokens
<1>r. pool.rt \in Nat
  BY <1>2 DEF PumpPool
<1>4. sold \in Nat /\ sold <= pool.rt /\ (sold # 0 => sold = tokens \/ (sold = pool.rt /\ pool.rt <= tokens))
  BY <1>3, <1>r DEF ProgramSells
<1>5. cost \in Nat /\ in \in Nat /\ in <= cost
  <2>1. CASE tokens <= pool.rt
    BY <1>1, <1>2, <2>1, PumpCostBound, PumpCurveInputBound
  <2>2. CASE pool.rt <= tokens
    <3>1. PumpCurveInput(pool, pool.rt) \in Nat /\ PumpBuyCost(venue, pool, pool.rt) \in Nat
          /\ PumpCurveInput(pool, pool.rt) <= PumpBuyCost(venue, pool, pool.rt)
      BY <1>1, <1>2, <1>r, PumpCostBound, PumpCurveInputBound
    <3> QED BY <1>1, <1>2, <2>2, <3>1, PumpCapped
  <2> QED BY <1>r, <2>1, <2>2
<1>6. sold # 0 => PumpCurveInput(pool, sold) = in
  BY <1>1, <1>2, <1>4, PumpCapped
<1> HIDE DEF cost, in
<1>7. CASE sold = 0
  <2>1. /\ pool' = PumpAfterBuy(pool, tokens) /\ trades' = trades + 1
        /\ UNCHANGED <<venue, paid, got, held, now>>
    BY <1>3, <1>7 DEF LaunchRefused
  <2>2. pool.rt <= tokens
    BY <1>3, <1>7, <1>r DEF ProgramSells
  <2>3. PumpRefused'
    <3>1. pool.vt \in Nat /\ pool.vs \in Nat /\ pool.rs \in Nat
      BY <1>2 DEF PumpPool
    <3>2. /\ Most(pool.vt - tokens, 0) \in Nat
          /\ Most(pool.rt - tokens, 0) = 0
      BY <3>1, <2>2, <1>r DEF Most
    <3>3. pool' = [vt |-> Most(pool.vt - tokens, 0), vs |-> pool.vs + in, rt |-> 0,
                   rs |-> pool.rs + in]
      BY <2>1, <3>2 DEF PumpAfterBuy, in
    <3>4. pool' \in PumpPool /\ pool'.rt = 0
      BY <3>1, <3>2, <3>3, <1>5 DEF PumpPool
    <3>5. got \in Int /\ got <= paid
      BY <1>2, <3>1 DEF PaidInv
    <3> QED BY <1>1, <1>2, <2>1, <3>4, <3>5 DEF PumpRefused
  <2> QED BY <2>1, <2>3, <1>5 DEF cost, PumpInv
<1>8. CASE sold # 0
  <2>1. Bought(cost, sold, PumpAfterBuy(pool, sold))
    BY <1>3, <1>8
  <2>2. PumpKept'
    BY <1>0, <1>1, <1>4, <1>5, <1>6, <1>8, <2>1, PumpBought
  <2> QED BY <2>1, <2>2, <1>5 DEF cost, PumpInv, Bought
<1> QED BY <1>7, <1>8

\* A sale keeps the invariant, and the curve has what it pays.
LEMMA PumpSold ==
    ASSUME PaidInv, PumpInv, NEW tokens \in 1..held, PumpSell(tokens)
    PROVE  PumpInv'
<1> DEFINE n == PumpSellGross(pool, tokens)
           a == pool.vt + tokens
           gained == PumpSellSol(venue, pool, tokens)
<1>0. venue.kind = "pump"
  BY DEF PumpSell
<1>k. PumpKept
  BY <1>0 DEF PumpInv, PumpRefused
<1>1. venue \in PumpMarket /\ venue.rt < venue.vt
  BY <1>0, PumpMarkets DEF PaidInv
<1>2. /\ venue.vt \in Nat /\ venue.vs \in Nat /\ venue.rt \in Nat
      /\ venue.fee \in Nat /\ venue.creatorFee \in Nat
      /\ pool.vt \in Nat /\ pool.vs \in Nat /\ pool.rt \in Nat /\ pool.rs \in Nat
      /\ held \in Nat /\ got \in Int /\ paid \in Nat /\ tokens \in Nat \ {0}
  BY <1>k, <1>1 DEF PumpKept, PumpMarket, PumpPool, PaidInv
<1>3. n \in Nat /\ a * n <= tokens * pool.vs
  <2>1. a \in Nat \ {0} /\ tokens * pool.vs \in Nat
    BY <1>2
  <2> HIDE DEF a
  <2>2. n = (tokens * pool.vs) \div a
    BY DEF PumpSellGross, a
  <2> QED BY <2>1, <2>2, Quotient
<1>4. (pool.vs - n) * a >= pool.vs * pool.vt
  BY <1>2, <1>3, ProductAfterSell
<1>5. /\ pool' = [vt |-> a, vs |-> pool.vs - n, rt |-> pool.rt + tokens, rs |-> pool.rs - n]
      /\ held' = held - tokens /\ paid' = paid /\ got' = got + gained /\ venue' = venue
      /\ trades' # 0
  BY DEF PumpSell, Sold, PaidInv
<1>6. gained \in Int /\ gained <= n
  <2> DEFINE c == CeilDiv(n * venue.fee, FeeBase)
             d == CeilDiv(n * venue.creatorFee, FeeBase)
  <2>1. FeeBase \in Nat \ {0}
    BY QuoteAssumption
  <2>2. n * venue.fee \in Nat /\ n * venue.creatorFee \in Nat
    BY <1>2, <1>3
  <2>3. c \in Nat /\ d \in Nat
    <3> DEFINE x == n * venue.fee
               y == n * venue.creatorFee
    <3>1. x \in Nat /\ x \in Int /\ y \in Nat /\ y \in Int
      BY <2>2
    <3> HIDE DEF x, y
    <3>2. CeilDiv(x, FeeBase) \in Nat
      BY ONLY <3>1, <2>1, CeilQuotient
    <3>3. CeilDiv(y, FeeBase) \in Nat
      BY ONLY <3>1, <2>1, CeilQuotient
    <3> QED BY <3>2, <3>3 DEF x, y
  <2>4. gained = Least(Most(Most(n - c, 0) - d, 0), pool.rs)
    BY DEF PumpSellSol
  <2> HIDE DEF c, d, n, gained
  <2> QED BY <1>2, <1>3, <2>3, <2>4 DEF Least, Most
<1> HIDE DEF n, gained
<1>7. (pool.vs - n) * a >= venue.vs * venue.vt
  <2>1. pool.vs * pool.vt >= venue.vs * venue.vt
    BY <1>k DEF PumpKept
  <2> QED BY <2>1, <1>2, <1>3, <1>4
<1>8. pool.vs - n >= venue.vs
  <2>1. a \in Nat \ {0} /\ a <= venue.vt /\ pool.vs - n \in Int
    BY <1>k, <1>2, <1>3 DEF PumpKept
  <2> HIDE DEF a
  <2> QED BY <2>1, <1>2, <1>7, ProductBacks
<1>9. pool.rs >= n /\ pool' \in PumpPool
  <2>1. pool.rs >= n
    BY <1>k, <1>8, <1>2, <1>3 DEF PumpKept
  <2> QED BY <2>1, <1>2, <1>3, <1>5, <1>8 DEF PumpPool
<1>10. pool'.vs * pool'.vt >= venue.vs * venue.vt
  BY <1>7, <1>5
<1> QED BY <1>k, <1>2, <1>3, <1>5, <1>6, <1>9, <1>10 DEF PumpInv, PumpKept

-----------------------------------------------------------------------------
(* Bonk                                                                    *)

\* What MarketAssumption says of Bonk's markets, and their pools.
BonkMarket ==
    [kind: {"bonk"}, curve: 0..2, supply: Nat, sell: Nat, locked: Nat, raise: Nat,
     migrateFee: Nat, fee: 0..(FeeBase - 1)]
BonkPool == [va: Nat, vb: Nat, ra: Nat, rb: Nat]

\* The curve of the constant product keeps the product, that of the fixed price
\* has been paid for what it gave.
CurveInv(m, p) ==
    /\ p.va > 0 /\ (m.curve # 2 => p.vb > 0)
    /\ m.curve = 0 => m.sell <= p.va /\ (p.vb + p.rb) * (p.va - p.ra) >= p.vb * p.va
    /\ m.curve = 1 => p.ra * p.vb <= p.rb * p.va

\* A market of Bonk is typed, and has virtual reserves.
LEMMA BonkMarkets ==
    ASSUME NEW m \in Markets, m.kind = "bonk"
    PROVE  /\ m \in BonkMarket
           /\ BonkVirtuals(m).va > 0 /\ (m.curve # 2 => BonkVirtuals(m).vb > 0)
BY MarketAssumption DEF BonkMarket

\* On the curve of the constant product there are at least as many virtual
\* tokens as tokens for sale, whatever is rounded.
LEMMA VirtualsCover ==
    ASSUME NEW raised \in Nat, NEW sell \in Nat, NEW rest \in Nat \ {0}, NEW raise \in Nat,
           (raised * sell) \div rest - raise > 0
    PROVE  /\ ((raised * sell * sell) \div rest) \div ((raised * sell) \div rest - raise) \in Nat
           /\ sell <= ((raised * sell * sell) \div rest) \div ((raised * sell) \div rest - raise)
<1> DEFINE w == raised * sell
           x == w \div rest
           v == w * sell
           y == v \div rest
           d == x - raise
<1>1. w \in Nat /\ v \in Nat
  <2>1. w \in Nat
    OBVIOUS
  <2> HIDE DEF w
  <2> QED BY <2>1
<1>2. x \in Nat /\ rest * x <= w
  <2> HIDE DEF w
  <2> QED BY <1>1, Quotient
<1>3. d \in Nat \ {0} /\ d <= x
  BY <1>2
<1> HIDE DEF w, d
<1>4. rest * (x * sell) <= v
  <2>1. rest * (x * sell) = (rest * x) * sell
    BY <1>2
  <2>2. (rest * x) * sell <= w * sell
    BY <1>1, <1>2
  <2> QED BY <2>1, <2>2
<1> HIDE DEF v
<1>5. y \in Nat /\ x * sell <= y
  <2>1. x * sell \in Nat
    BY <1>2
  <2> HIDE DEF x
  <2> QED BY <2>1, <1>1, <1>4, Quotient, QuotientAtLeast
<1>6. d * sell <= x * sell
  BY <1>2, <1>3
<1>7. d * sell <= y
  BY <1>2, <1>3, <1>5, <1>6
<1>8. y \div d \in Nat /\ sell <= y \div d
  <2> HIDE DEF y
  <2> QED BY <1>3, <1>5, <1>7, Quotient, QuotientAtLeast
<1> QED BY <1>8 DEF y, d, v, w

\* The virtual reserves are numbers, and cover what is for sale.
LEMMA BonkVirtualsTyped ==
    ASSUME NEW m \in Markets, m.kind = "bonk"
    PROVE  LET v == BonkVirtuals(m)
           IN  /\ v = [va |-> v.va, vb |-> v.vb] /\ v.va \in Nat /\ v.vb \in Nat
               /\ m.curve = 0 => m.sell <= v.va
<1>1. m \in BonkMarket /\ BonkVirtuals(m) # NoVirtuals
  <2>1. BonkVirtuals(m).va > 0
    BY BonkMarkets
  <2>2. NoVirtuals.va = 0
    BY DEF NoVirtuals
  <2> QED BY <2>1, <2>2, BonkMarkets
<1>2. /\ m.curve \in 0..2 /\ m.supply \in Nat /\ m.sell \in Nat /\ m.locked \in Nat
      /\ m.raise \in Nat /\ m.migrateFee \in Nat /\ Q \in Nat \ {0}
  BY <1>1, QuoteAssumption DEF BonkMarket
<1> DEFINE unlocked == m.supply - m.locked
           raised == m.raise - m.migrateFee
           rest == unlocked - m.sell
           slope == (raised * m.sell) \div rest - m.raise
           va == ((raised * m.sell * m.sell) \div rest) \div slope
           vb == (m.raise * m.raise) \div slope
<1>3. CASE m.curve = 0
  <2>1. rest > 0 /\ raised > 0 /\ slope > 0 /\ BonkVirtuals(m) = [va |-> va, vb |-> vb]
    BY <1>1, <1>2, <1>3 DEF BonkVirtuals
  <2>2. rest \in Nat \ {0} /\ raised \in Nat
    BY <2>1, <1>2
  <2> HIDE DEF raised, rest
  <2>3. va \in Nat /\ m.sell <= va
    BY <2>1, <2>2, <1>2, VirtualsCover
  <2>4. slope \in Nat \ {0} /\ m.raise * m.raise \in Nat
    <3>1. raised * m.sell \in Nat
      BY <2>2, <1>2
    <3>2. (raised * m.sell) \div rest \in Nat
      BY <3>1, <2>2, Quotient
    <3> QED BY <3>2, <2>1, <1>2
  <2> HIDE DEF slope
  <2>5. vb \in Nat
    BY <2>4, Quotient
  <2> HIDE DEF va, vb
  <2> QED BY <2>1, <2>3, <2>5
<1>4. CASE m.curve = 1
  <2> DEFINE a == m.raise * unlocked
             d == 2 * m.raise - m.migrateFee
  <2>1. unlocked > 0 /\ d > 0 /\ BonkVirtuals(m) = [va |-> a \div d, vb |-> m.raise]
    BY <1>1, <1>2, <1>4 DEF BonkVirtuals
  <2>2. a \in Nat /\ d \in Nat \ {0}
    BY <2>1, <1>2
  <2> HIDE DEF a, d
  <2>3. a \div d \in Nat
    BY <2>2, Quotient
  <2> QED BY <2>1, <2>3, <1>2, <1>4
<1>5. CASE m.curve = 2
  <2> DEFINE expect == (2 * m.raise * unlocked) \div (3 * m.raise - m.migrateFee)
             a == 2 * m.raise * Q
             d == expect * expect
  <2>1. /\ unlocked > 0 /\ 3 * m.raise - m.migrateFee > 0 /\ expect # 0
        /\ BonkVirtuals(m) = [va |-> a \div d, vb |-> 0]
    BY <1>1, <1>2, <1>5 DEF BonkVirtuals
  <2>2. expect \in Nat \ {0}
    <3> DEFINE n == 2 * m.raise * unlocked
               e == 3 * m.raise - m.migrateFee
    <3>1. n \in Nat /\ e \in Nat \ {0}
      <4>1. unlocked \in Nat /\ e \in Nat \ {0}
        BY <2>1, <1>2
      <4> HIDE DEF unlocked
      <4>2. n \in Nat
        BY <4>1, <1>2
      <4> QED BY <4>1, <4>2
    <3>2. n \div e \in Nat
      <4> HIDE DEF n, e
      <4> QED BY <3>1, Quotient
    <3> QED BY <3>2, <2>1
  <2> HIDE DEF expect
  <2>3. a \in Nat /\ d \in Nat \ {0}
    BY <2>2, <1>2
  <2> HIDE DEF a, d
  <2>4. a \div d \in Nat
    BY <2>3, Quotient
  <2> QED BY <2>1, <2>4, <1>5
<1> QED BY <1>2, <1>3, <1>4, <1>5

\* A new pool is one of a curve that has given nothing.
LEMMA BonkNewPool ==
    ASSUME NEW m \in Markets, m.kind = "bonk"
    PROVE  /\ NewPool(m) \in BonkPool /\ CurveInv(m, NewPool(m))
           /\ NewPool(m).ra = 0 /\ NewPool(m).rb = 0
<1> DEFINE v == BonkVirtuals(m)
<1>1. /\ v = [va |-> v.va, vb |-> v.vb] /\ v.va \in Nat /\ v.vb \in Nat
      /\ m.curve = 0 => m.sell <= v.va
      /\ v.va > 0 /\ (m.curve # 2 => v.vb > 0)
  BY BonkVirtualsTyped, BonkMarkets
<1>3. NewPool(m) = [va |-> v.va, vb |-> v.vb, ra |-> 0, rb |-> 0]
  BY DEF NewPool
<1> HIDE DEF v
<1>4. m \in BonkMarket
  BY BonkMarkets
<1> QED BY <1>1, <1>3 DEF BonkPool, CurveInv

\* A fee, and what is left after it.
LEMMA BonkFeeBound ==
    ASSUME NEW m \in BonkMarket, NEW amount \in Nat
    PROVE  LET net == amount - BonkFeeOf(m, amount)
           IN  /\ BonkFeeOf(m, amount) \in Nat /\ net \in Nat
               /\ net * FeeBase <= amount * (FeeBase - m.fee)
<1> DEFINE c == BonkFeeOf(m, amount)
           a == amount * m.fee
<1>1. m.fee \in Nat /\ m.fee <= FeeBase /\ FeeBase \in Nat \ {0}
  BY QuoteAssumption DEF BonkMarket
<1>2. a \in Nat /\ a <= FeeBase * amount
  BY <1>1
<1>3. c = CeilDiv(a, FeeBase)
  BY DEF BonkFeeOf
<1> HIDE DEF a
<1>4. c \in Nat /\ a <= FeeBase * c /\ c <= amount
  BY <1>1, <1>2, <1>3, CeilQuotient, QuotientLeast
<1> HIDE DEF c
<1>5. (amount - c) * FeeBase = amount * FeeBase - FeeBase * c
  BY <1>1, <1>4
<1>6. amount * (FeeBase - m.fee) = amount * FeeBase - a
  BY <1>1 DEF a
<1> QED BY <1>1, <1>2, <1>4, <1>5, <1>6 DEF c

\* What must be paid for a net amount covers it, and is no more than any amount
\* of which as much is left.
LEMMA BonkPreFeeBound ==
    ASSUME NEW m \in BonkMarket, NEW net \in Int
    PROVE  /\ BonkPreFee(m, net) \in Int
           /\ BonkPreFee(m, net) >= 0 => BonkPreFee(m, net) >= net
           /\ net \in Nat => BonkPreFee(m, net) \in Nat
           /\ \A amount \in Nat : net <= amount - BonkFeeOf(m, amount)
                                    => BonkPreFee(m, net) <= amount
<1> DEFINE d == FeeBase - m.fee
           a == net * FeeBase
           g == BonkPreFee(m, net)
<1>1. m.fee \in Nat /\ FeeBase \in Nat \ {0} /\ d \in Nat \ {0} /\ d <= FeeBase /\ a \in Int
  BY QuoteAssumption DEF BonkMarket
<1>2. g = IF m.fee = 0 THEN net ELSE CeilDiv(a, d)
  BY DEF BonkPreFee
<1>3. ASSUME NEW amount \in Nat, net <= amount - BonkFeeOf(m, amount)
      PROVE  a <= d * amount /\ net <= amount
  <2> DEFINE l == amount - BonkFeeOf(m, amount)
  <2>1. l \in Nat /\ l <= amount /\ l * FeeBase <= amount * d
    BY BonkFeeBound
  <2>2. net <= l
    BY <1>3
  <2> HIDE DEF l, d
  <2>3. net * FeeBase <= l * FeeBase
    BY <2>1, <2>2, <1>1
  <2> QED BY <2>1, <2>2, <2>3, <1>1
<1>4. a \in Nat <=> net \in Nat
  BY <1>1
<1> HIDE DEF a, d, g
<1>5. CASE m.fee = 0
  BY <1>2, <1>3, <1>5 DEF g
<1>6. CASE m.fee # 0
  <2> DEFINE c == CeilDiv(a, d)
  <2>1. c \in Int /\ (a \in Nat => c \in Nat) /\ a <= d * c
    BY <1>1, CeilQuotient
  <2>2. \A amount \in Nat : net <= amount - BonkFeeOf(m, amount) => c <= amount
    BY <1>1, <1>3, QuotientLeast
  <2>3. g = c
    BY <1>2, <1>6
  <2> HIDE DEF c
  <2>4. ASSUME c >= 0 PROVE c >= net
    <3>1. d * c <= FeeBase * c
      BY <2>1, <2>4, <1>1
    <3>2. FeeBase * net <= FeeBase * c
      BY <3>1, <2>1, <1>1 DEF a
    <3>3. FeeBase * net < FeeBase * c + FeeBase
      BY <3>2, <1>1, <2>1
    <3> QED BY <3>3, <2>1, <1>1, CancelTimes
  <2> QED BY <2>1, <2>2, <2>3, <2>4, <1>4 DEF g
<1> QED BY <1>5, <1>6

\* The tokens for an amount, on each curve.
LEMMA BonkBuyInBound ==
    ASSUME NEW m \in BonkMarket, NEW p \in BonkPool, CurveInv(m, p), NEW n \in Nat,
           p.ra <= m.sell
    PROVE  LET t == BonkBuyIn(m, p, n)
           IN  /\ t \in Int
               /\ m.curve = 0 => t \in Nat /\ (p.vb + p.rb + n) * t <= n * (p.va - p.ra)
               /\ m.curve = 1 => t \in Nat /\ p.vb * t <= p.va * n
               /\ m.curve = 2 => LET r == p.ra + t IN
                    r \in Nat /\ p.va * (r * r - r) <= 2 * (p.rb + n) * Q
<1> DEFINE t == BonkBuyIn(m, p, n)
<1>1. /\ p.va \in Nat \ {0} /\ p.vb \in Nat /\ p.ra \in Nat /\ p.rb \in Nat
      /\ m.curve \in 0..2 /\ Q \in Nat \ {0}
  BY QuoteAssumption DEF BonkMarket, BonkPool, CurveInv
<1>2. CASE m.curve = 0
  <2> DEFINE a == n * (p.va - p.ra)
             d == p.vb + p.rb + n
  <2>1. p.va - p.ra \in Nat
    BY <1>1, <1>2 DEF CurveInv, BonkMarket
  <2>2. a \in Nat /\ d \in Nat \ {0}
    BY <2>1, <1>1, <1>2 DEF CurveInv
  <2>3. t = a \div d
    BY <1>2 DEF BonkBuyIn
  <2> HIDE DEF a, d
  <2>4. t \in Nat /\ d * t <= a
    BY <2>2, <2>3, Quotient
  <2> QED BY <2>4, <1>2 DEF a, d, t
<1>3. CASE m.curve = 1
  <2> DEFINE a == p.va * n
  <2>1. a \in Nat /\ p.vb \in Nat \ {0}
    BY <1>1, <1>3 DEF CurveInv
  <2>2. t = a \div p.vb
    BY <1>3 DEF BonkBuyIn
  <2> HIDE DEF a
  <2>3. t \in Nat /\ p.vb * t <= a
    BY <2>1, <2>2, Quotient
  <2> QED BY <2>3, <1>3 DEF a, t
<1>4. CASE m.curve = 2
  <2> DEFINE y == 2 * (p.rb + n) * Q
             x == y \div p.va
             r == SqrtRound(x)
  <2>1. y \in Nat
    BY <1>1
  <2>2. x \in Nat /\ p.va * x <= y
    <3> HIDE DEF y
    <3> QED BY <2>1, <1>1, Quotient
  <2>3. r \in Nat /\ r * r <= x + r
    <3> HIDE DEF x
    <3> QED BY <2>2, SqrtRoundBound
  <2>4. t = r - p.ra
    BY <1>4 DEF BonkBuyIn
  <2> HIDE DEF y, x, r
  <2>5. p.va * (r * r - r) <= y
    <3>1. r * r - r \in Int /\ r * r - r <= x
      BY <2>2, <2>3
    <3>2. p.va * (r * r - r) <= p.va * x
      BY <3>1, <2>2, <1>1
    <3> QED BY <3>1, <3>2, <2>1, <2>2, <1>1
  <2>6. p.ra + t = r /\ t \in Int
    BY <2>3, <2>4, <1>1
  <2> QED BY <2>3, <2>5, <2>6, <1>4 DEF y, t
<1> QED BY <1>1, <1>2, <1>3, <1>4

\* The amount for tokens that the curve has, on each curve.
LEMMA BonkBuyOutBound ==
    ASSUME NEW m \in BonkMarket, NEW p \in BonkPool, CurveInv(m, p), NEW t \in Nat
    PROVE  LET n == BonkBuyOut(m, p, t)
           IN  /\ n \in Int
               /\ m.curve = 0 => n = None \/ /\ t < p.va - p.ra /\ n \in Nat
                                             /\ (p.vb + p.rb) * t <= (p.va - p.ra - t) * n
               /\ m.curve = 1 => n \in Nat /\ p.vb * t <= p.va * n
               /\ m.curve = 2 => p.rb + n \in Nat
               /\ p.ra = 0 /\ p.rb = 0 => n = None \/ n \in Nat
<1> DEFINE n == BonkBuyOut(m, p, t)
<1>1. /\ p.va \in Nat \ {0} /\ p.vb \in Nat /\ p.ra \in Nat /\ p.rb \in Nat
      /\ m.curve \in 0..2 /\ Q \in Nat \ {0}
  BY QuoteAssumption DEF BonkMarket, BonkPool, CurveInv
<1>2. CASE m.curve = 0
  <2> DEFINE a == (p.vb + p.rb) * t
             d == p.va - p.ra - t
  <2>1. CASE t >= p.va - p.ra
    BY <2>1, <1>1, <1>2 DEF BonkBuyOut, None
  <2>2. CASE t < p.va - p.ra
    <3>1. a \in Nat /\ d \in Nat \ {0}
      BY <1>1, <2>2
    <3>2. n = CeilDiv(a, d)
      BY <1>1, <1>2, <2>2 DEF BonkBuyOut
    <3> HIDE DEF a, d
    <3>3. n \in Nat /\ a <= d * n
      BY <3>1, <3>2, CeilQuotient
    <3> QED BY <3>3, <1>2, <2>2 DEF a, d, n
  <2> QED BY <2>1, <2>2, <1>1
<1>3. CASE m.curve = 1
  <2> DEFINE a == p.vb * t
  <2>1. a \in Nat
    BY <1>1
  <2>2. n = CeilDiv(a, p.va)
    BY <1>3 DEF BonkBuyOut
  <2> HIDE DEF a
  <2>3. n \in Nat /\ a <= p.va * n
    BY <2>1, <2>2, <1>1, CeilQuotient
  <2> QED BY <2>3, <1>3 DEF a, n
<1>4. CASE m.curve = 2
  <2>1. p.ra + t \in Nat
    BY <1>1
  <2> DEFINE k == LinearPaid(p, p.ra + t)
  <2>2. k \in Nat
    <3> DEFINE r == p.ra + t
               a == p.va * r * r
               d == 2 * Q
    <3>1. a \in Nat /\ d \in Nat \ {0}
      <4> HIDE DEF r
      <4> QED BY <2>1, <1>1 DEF r
    <3>2. k = CeilDiv(a, d)
      BY DEF LinearPaid
    <3> HIDE DEF a, d, k
    <3> QED BY <3>1, <3>2, CeilQuotient
  <2>3. n = k - p.rb
    BY <1>4 DEF BonkBuyOut
  <2> HIDE DEF k
  <2> QED BY <2>2, <2>3, <1>1, <1>4 DEF n
<1> QED BY <1>1, <1>2, <1>3, <1>4

\* Bonk: the tokens held are those that have left the curve, which has been paid
\* for them, and what is in the pool has been paid and not taken out.
BonkInv ==
    venue.kind = "bonk" =>
        /\ held \in Nat /\ got \in Int /\ pool \in BonkPool /\ CurveInv(venue, pool)
        /\ pool.ra = held /\ held <= venue.sell
        /\ pool.rb <= paid - got
        /\ trades = 0 => pool.rb = 0 /\ held = 0

\* The invariant of a curve does not say where it has come from.
LEMMA CurveMoved ==
    ASSUME NEW m, NEW p \in BonkPool, CurveInv(m, p), NEW a \in Int, NEW b \in Int,
           m.curve = 0 => (p.vb + b) * (p.va - a) >= p.vb * p.va,
           m.curve = 1 => a * p.vb <= b * p.va
    PROVE  CurveInv(m, [p EXCEPT !.ra = a, !.rb = b])
<1> DEFINE q == [p EXCEPT !.ra = a, !.rb = b]
<1>1. q.va = p.va /\ q.vb = p.vb /\ q.ra = a /\ q.rb = b
  BY DEF BonkPool
<1> HIDE DEF q
<1>2. CurveInv(m, q)
  BY <1>1, Zenon DEF CurveInv
<1> QED BY <1>2 DEF q

\* A purchase leaves a curve that has been paid for.
LEMMA CurveAfterBuy ==
    ASSUME NEW m \in BonkMarket, NEW p \in BonkPool, CurveInv(m, p), NEW n \in Nat,
           p.ra <= m.sell, BonkBuyIn(m, p, n) \in Nat, BonkBuyIn(m, p, n) <= BonkLeft(m, p)
    PROVE  CurveInv(m, [p EXCEPT !.ra = p.ra + BonkBuyIn(m, p, n), !.rb = p.rb + n])
<1> DEFINE t == BonkBuyIn(m, p, n)
<1>1. /\ p.va \in Nat \ {0} /\ p.vb \in Nat /\ p.ra \in Nat /\ p.rb \in Nat
      /\ m.curve \in 0..2 /\ m.sell \in Nat
  BY DEF BonkMarket, BonkPool, CurveInv
<1>2. /\ t \in Nat /\ p.ra + t <= m.sell
      /\ m.curve = 0 => (p.vb + p.rb + n) * t <= n * (p.va - p.ra)
      /\ m.curve = 1 => p.vb * t <= p.va * n
  BY <1>1, BonkBuyInBound DEF BonkLeft
<1> HIDE DEF t
<1>3. ASSUME m.curve = 0
      PROVE  (p.vb + (p.rb + n)) * (p.va - (p.ra + t)) >= p.vb * p.va
  <2> DEFINE A == p.va - p.ra
             B == p.vb + p.rb
  <2>1. A \in Nat /\ B \in Nat /\ A - t \in Nat
    BY <1>1, <1>2, <1>3 DEF CurveInv
  <2>2. (B + n) * (A - t) >= B * A /\ B * A >= p.vb * p.va
    <3>1. B * A >= p.vb * p.va /\ (B + n) * t <= n * A
      BY <1>2, <1>3 DEF CurveInv
    <3> HIDE DEF A, B
    <3> QED BY <2>1, <3>1, <1>2, ProductAfterBuy
  <2>3. p.vb + (p.rb + n) = B + n /\ p.va - (p.ra + t) = A - t
    BY <1>1, <1>2
  <2> HIDE DEF A, B
  <2>4. (B + n) * (A - t) >= p.vb * p.va
    BY <2>1, <2>2, <1>1, <1>2
  <2> QED BY <2>3, <2>4
<1>4. ASSUME m.curve = 1
      PROVE  (p.ra + t) * p.vb <= (p.rb + n) * p.va
  <2>1. (p.ra + t) * p.vb = p.ra * p.vb + p.vb * t /\ (p.rb + n) * p.va = p.rb * p.va + p.va * n
    BY <1>1, <1>2
  <2>2. p.ra * p.vb <= p.rb * p.va
    BY <1>4 DEF CurveInv
  <2> QED BY <2>1, <2>2, <1>1, <1>2, <1>4
<1>5. p.ra + t \in Int /\ p.rb + n \in Int
  BY <1>1, <1>2
<1>6. CurveInv(m, [p EXCEPT !.ra = p.ra + t, !.rb = p.rb + n])
  BY <1>3, <1>4, <1>5, CurveMoved
<1> QED BY <1>6 DEF t

\* So does the purchase of a number of tokens, as the one that ends the curve.
LEMMA CurveAfterLastBuy ==
    ASSUME NEW m \in BonkMarket, NEW p \in BonkPool, CurveInv(m, p), NEW t \in Nat,
           p.ra + t <= m.sell, BonkBuyOut(m, p, t) # None
    PROVE  /\ CurveInv(m, [p EXCEPT !.ra = p.ra + t, !.rb = p.rb + BonkBuyOut(m, p, t)])
           /\ p.rb + BonkBuyOut(m, p, t) \in Nat
<1> DEFINE n == BonkBuyOut(m, p, t)
<1>1. /\ p.va \in Nat \ {0} /\ p.vb \in Nat /\ p.ra \in Nat /\ p.rb \in Nat
      /\ m.curve \in 0..2 /\ m.sell \in Nat
  BY DEF BonkMarket, BonkPool, CurveInv
<1>2. /\ n \in Int
      /\ m.curve = 0 => /\ t < p.va - p.ra /\ n \in Nat
                        /\ (p.vb + p.rb) * t <= (p.va - p.ra - t) * n
      /\ m.curve = 1 => n \in Nat /\ p.vb * t <= p.va * n
      /\ m.curve = 2 => p.rb + n \in Nat
  BY BonkBuyOutBound
<1> HIDE DEF n
<1>3. ASSUME m.curve = 0
      PROVE  (p.vb + (p.rb + n)) * (p.va - (p.ra + t)) >= p.vb * p.va
  <2> DEFINE A == p.va - p.ra
             B == p.vb + p.rb
  <2>1. A \in Nat /\ B \in Nat /\ A - t \in Nat /\ n \in Nat
    BY <1>1, <1>2, <1>3 DEF CurveInv
  <2>2. (B + n) * (A - t) >= B * A /\ B * A >= p.vb * p.va
    <3>1. B * A >= p.vb * p.va /\ B * t <= (A - t) * n
      BY <1>2, <1>3 DEF CurveInv
    <3> HIDE DEF A, B
    <3> QED BY <2>1, <3>1, <1>2, ProductAfterCappedBuy
  <2>3. p.vb + (p.rb + n) = B + n /\ p.va - (p.ra + t) = A - t
    BY <1>1, <1>2
  <2> HIDE DEF A, B
  <2>4. (B + n) * (A - t) >= p.vb * p.va
    BY <2>1, <2>2, <1>1, <1>2
  <2> QED BY <2>3, <2>4
<1>4. ASSUME m.curve = 1
      PROVE  (p.ra + t) * p.vb <= (p.rb + n) * p.va
  <2>1. n \in Nat
    BY <1>2, <1>4
  <2>2. (p.ra + t) * p.vb = p.ra * p.vb + p.vb * t /\ (p.rb + n) * p.va = p.rb * p.va + p.va * n
    BY <1>1, <2>1
  <2>3. p.ra * p.vb <= p.rb * p.va
    BY <1>4 DEF CurveInv
  <2> QED BY <2>1, <2>2, <2>3, <1>1, <1>2, <1>4
<1>5. p.ra + t \in Int /\ p.rb + n \in Int /\ p.rb + n \in Nat
  BY <1>1, <1>2
<1>6. CurveInv(m, [p EXCEPT !.ra = p.ra + t, !.rb = p.rb + n])
  BY <1>3, <1>4, <1>5, CurveMoved
<1> QED BY <1>5, <1>6 DEF n

\* The last tokens cost no more than an amount that would buy more than those.
LEMMA LastTokensCost ==
    ASSUME NEW m \in BonkMarket, NEW p \in BonkPool, CurveInv(m, p), NEW n \in Nat,
           p.ra <= m.sell, BonkBuyIn(m, p, n) > BonkLeft(m, p),
           BonkBuyOut(m, p, BonkLeft(m, p)) # None
    PROVE  BonkBuyOut(m, p, BonkLeft(m, p)) <= n
<1> DEFINE k == BonkLeft(m, p)
           t == BonkBuyIn(m, p, n)
           c == BonkBuyOut(m, p, k)
<1>1. /\ p.va \in Nat \ {0} /\ p.vb \in Nat /\ p.ra \in Nat /\ p.rb \in Nat
      /\ m.curve \in 0..2 /\ m.sell \in Nat /\ k \in Nat /\ k = m.sell - p.ra /\ Q \in Nat \ {0}
  BY QuoteAssumption DEF BonkMarket, BonkPool, CurveInv, BonkLeft
<1>2. /\ t \in Int /\ k + 1 <= t
      /\ m.curve = 0 => t \in Nat /\ (p.vb + p.rb + n) * t <= n * (p.va - p.ra)
      /\ m.curve = 1 => t \in Nat /\ p.vb * t <= p.va * n
      /\ m.curve = 2 => LET r == p.ra + t IN
                          r \in Nat /\ p.va * (r * r - r) <= 2 * (p.rb + n) * Q
  BY <1>1, BonkBuyInBound
<1>3. c # None
  OBVIOUS
<1> HIDE DEF k, t
<1>4. CASE m.curve = 0
  <2> DEFINE A == p.va - p.ra
             B == p.vb + p.rb
  <2>1. A \in Nat /\ B \in Nat
    BY <1>1, <1>4 DEF CurveInv
  <2>2. k < A /\ c = CeilDiv(B * k, A - k)
    BY <1>1, <1>3, <1>4 DEF BonkBuyOut
  <2>3. (B + n) * t <= n * A
    BY <1>2, <1>4
  <2> HIDE DEF A, B, c
  <2>4. (B + n) * k <= n * A
    <3>1. (B + n) * k <= (B + n) * t
      BY <2>1, <1>1, <1>2
    <3> QED BY <3>1, <2>1, <2>3, <1>1, <1>2
  <2>5. B * k <= (A - k) * n
    BY <2>1, <2>4, <1>1
  <2>6. B * k \in Int /\ A - k \in Nat \ {0}
    BY <2>1, <2>2, <1>1
  <2>7. c <= n
    BY <2>2, <2>5, <2>6, QuotientLeast
  <2> QED BY <2>7 DEF c, k
<1>5. CASE m.curve = 1
  <2>1. c = CeilDiv(p.vb * k, p.va)
    BY <1>5 DEF BonkBuyOut
  <2> HIDE DEF c
  <2>2. p.vb * k <= p.va * n
    <3>1. p.vb * k <= p.vb * t
      BY <1>1, <1>2
    <3> QED BY <3>1, <1>1, <1>2, <1>5
  <2>3. p.vb * k \in Int
    BY <1>1
  <2>4. c <= n
    BY <2>1, <2>2, <2>3, <1>1, QuotientLeast
  <2> QED BY <2>4 DEF c, k
<1>6. CASE m.curve = 2
  <2> DEFINE s == m.sell
             r == p.ra + t
             y == p.rb + n
             l == CeilDiv(p.va * s * s, 2 * Q)
  <2>1. c = l - p.rb
    <3>1. p.ra + k = s
      BY <1>1
    <3> QED BY <3>1, <1>6 DEF BonkBuyOut, LinearPaid
  <2>2. r \in Nat /\ s + 1 <= r /\ p.va * (r * r - r) <= 2 * y * Q
    BY <1>1, <1>2, <1>6
  <2>3. y \in Nat /\ s \in Nat
    BY <1>1
  <2> HIDE DEF r, s, y, c
  <2>4. s * s <= r * r - r
    <3>1. r * r - r = r * (r - 1)
      BY <2>2
    <3>2. s * s <= r * s /\ r * s <= r * (r - 1)
      BY <2>2, <2>3
    <3> QED BY <3>1, <3>2, <2>2, <2>3
  <2>5. p.va * (s * s) <= p.va * (r * r - r)
    BY <2>2, <2>3, <2>4, <1>1
  <2>6. p.va * s * s = p.va * (s * s) /\ 2 * y * Q = (2 * Q) * y
    BY <2>3, <1>1
  <2>7. p.va * s * s <= (2 * Q) * y
    BY <2>2, <2>3, <2>5, <2>6, <1>1
  <2>8. p.va * s * s \in Int /\ 2 * Q \in Nat \ {0}
    BY <2>3, <1>1
  <2>9. l <= y /\ l \in Int
    <3> DEFINE a == p.va * s * s
               d == 2 * Q
    <3>1. a \in Int /\ d \in Nat \ {0} /\ y \in Int /\ a <= d * y
      BY <2>3, <2>7, <2>8
    <3> HIDE DEF a, d
    <3>2. CeilDiv(a, d) <= y /\ CeilDiv(a, d) \in Int
      BY ONLY <3>1, QuotientLeast, CeilQuotient
    <3> QED BY <3>2 DEF a, d
  <2> HIDE DEF l
  <2>10. c <= n
    BY <2>1, <2>9, <1>1 DEF y
  <2> QED BY <2>10 DEF c, k
<1> QED BY <1>1, <1>4, <1>5, <1>6

\* A quote of a purchase: it costs no more than asked, what reaches the pool is
\* paid for, and the curve has the tokens.
LEMMA BonkQuoted ==
    ASSUME NEW m \in BonkMarket, NEW p \in BonkPool, CurveInv(m, p), p.ra <= m.sell,
           NEW spend \in Nat, BonkFollowBuy(m, p, spend).gross >= 0,
           BonkFollowBuy(m, p, spend).tokens > 0
    PROVE  LET d == BonkFollowBuy(m, p, spend)
           IN  /\ d.gross \in Nat /\ d.gross <= spend /\ d.net \in Int /\ d.net <= d.gross
               /\ d.tokens \in Nat /\ p.ra + d.tokens <= m.sell /\ p.rb + d.net \in Nat
               /\ CurveInv(m, [p EXCEPT !.ra = p.ra + d.tokens, !.rb = p.rb + d.net])
<1> DEFINE d == BonkFollowBuy(m, p, spend)
           net == spend - BonkFeeOf(m, spend)
           t == BonkBuyIn(m, p, net)
           left == BonkLeft(m, p)
           c == BonkBuyOut(m, p, left)
<1>1. p.ra \in Nat /\ p.rb \in Nat /\ m.sell \in Nat /\ left \in Nat /\ left = m.sell - p.ra
  BY DEF BonkMarket, BonkPool, BonkLeft
<1>2. net \in Nat /\ net <= spend
  BY BonkFeeBound
<1>3. d = IF t > left
          THEN [gross |-> IF c = None THEN None ELSE BonkPreFee(m, c), net |-> c, tokens |-> left]
          ELSE [gross |-> spend, net |-> net, tokens |-> t]
  BY DEF BonkFollowBuy
<1>4. d.gross >= 0 /\ d.tokens > 0
  OBVIOUS
<1>5. CASE t > left
  <2>1. d.tokens = left /\ d.net = c /\ d.gross = IF c = None THEN None ELSE BonkPreFee(m, c)
    BY <1>3, <1>5
  <2>2. c # None /\ d.gross = BonkPreFee(m, c)
    BY <2>1, <1>4 DEF None
  <2>3. c \in Int
    <3> HIDE DEF left
    <3> QED BY <1>1, BonkBuyOutBound
  <2>4. c <= net
    BY <1>2, <1>5, <2>2, LastTokensCost
  <2>5. BonkPreFee(m, c) \in Int /\ BonkPreFee(m, c) >= c /\ BonkPreFee(m, c) <= spend
    <3> HIDE DEF c
    <3>1. c <= spend - BonkFeeOf(m, spend)
      BY <2>4
    <3> QED BY <2>2, <2>3, <3>1, <1>4, BonkPreFeeBound
  <2>6. p.ra + left <= m.sell
    BY <1>1
  <2>7. /\ CurveInv(m, [p EXCEPT !.ra = p.ra + left, !.rb = p.rb + c])
        /\ p.rb + c \in Nat
    <3> HIDE DEF left
    <3> QED BY <1>1, <2>2, <2>6, CurveAfterLastBuy
  <2> HIDE DEF d, left, c
  <2>8. /\ d.gross \in Nat /\ d.gross <= spend /\ d.net \in Int /\ d.net <= d.gross
        /\ d.tokens \in Nat /\ p.ra + d.tokens <= m.sell /\ p.rb + d.net \in Nat
    BY <2>1, <2>2, <2>3, <2>5, <2>6, <2>7, <1>1, <1>4
  <2>9. CurveInv(m, [p EXCEPT !.ra = p.ra + d.tokens, !.rb = p.rb + d.net])
    BY <2>1, <2>7
  <2> QED BY <2>8, <2>9 DEF d
<1>6. CASE ~(t > left)
  <2>1. d.tokens = t /\ d.net = net /\ d.gross = spend
    BY <1>3, <1>6
  <2>2. t \in Int
    <3> HIDE DEF net
    <3> QED BY <1>2, BonkBuyInBound
  <2>3. t \in Nat /\ t <= left
    <3> HIDE DEF t, left
    <3> QED BY <2>1, <2>2, <1>1, <1>4, <1>6
  <2>4. CurveInv(m, [p EXCEPT !.ra = p.ra + t, !.rb = p.rb + net])
    <3> HIDE DEF net
    <3> QED BY <1>2, <2>3, CurveAfterBuy
  <2> HIDE DEF d, t, net, left
  <2>5. /\ d.gross \in Nat /\ d.gross <= spend /\ d.net \in Int /\ d.net <= d.gross
        /\ d.tokens \in Nat /\ p.ra + d.tokens <= m.sell /\ p.rb + d.net \in Nat
    BY <2>1, <2>3, <1>1, <1>2
  <2>6. CurveInv(m, [p EXCEPT !.ra = p.ra + d.tokens, !.rb = p.rb + d.net])
    BY <2>1, <2>4
  <2> QED BY <2>5, <2>6 DEF d
<1> QED BY <1>5, <1>6

\* What a sale pays out has been paid in.
LEMMA BonkSoldBound ==
    ASSUME NEW m \in BonkMarket, NEW p \in BonkPool, CurveInv(m, p), p.ra <= m.sell,
           NEW t \in Nat \ {0}, t <= p.ra, BonkSellIn(m, p, t) >= 0
    PROVE  LET n == BonkSellIn(m, p, t)
           IN  /\ n \in Nat /\ n <= p.rb
               /\ CurveInv(m, [p EXCEPT !.ra = p.ra - t, !.rb = p.rb - n])
<1> DEFINE n == BonkSellIn(m, p, t)
<1>1. /\ p.va \in Nat \ {0} /\ p.vb \in Nat /\ p.ra \in Nat /\ p.rb \in Nat
      /\ m.curve \in 0..2 /\ m.sell \in Nat /\ Q \in Nat \ {0}
  BY QuoteAssumption DEF BonkMarket, BonkPool, CurveInv
<1>2. n >= 0
  OBVIOUS
<1>3. CASE m.curve = 0
  <2> DEFINE A == p.va - p.ra
             B == p.vb + p.rb
  <2>1. A \in Nat /\ B \in Nat /\ A + t \in Nat \ {0} /\ A + t <= p.va /\ t * B \in Nat
    BY <1>1, <1>3 DEF CurveInv
  <2>2. n = (t * B) \div (A + t) /\ B * A >= p.vb * p.va
    BY <1>3 DEF BonkSellIn, CurveInv
  <2>3. n \in Nat /\ (A + t) * n <= t * B
    <3> DEFINE x == t * B
               y == A + t
    <3>1. x \in Nat /\ y \in Nat \ {0} /\ n = x \div y
      BY <2>1, <2>2
    <3> HIDE DEF x, y, n
    <3>2. n \in Nat /\ y * n <= x
      BY <3>1, Quotient
    <3> QED BY <3>2 DEF x, y
  <2>4. p.vb + (p.rb - n) = B - n /\ p.va - (p.ra - t) = A + t
    BY <1>1, <2>3
  <2> HIDE DEF A, B, n
  <2>5. (B - n) * (A + t) >= B * A
    BY <2>1, <2>3, ProductAfterSell
  <2>6. (B - n) * (A + t) >= p.vb * p.va
    BY <2>1, <2>2, <2>3, <2>5, <1>1
  <2>7. B - n >= p.vb
    <3> DEFINE x == B - n
               y == A + t
    <3>1. x \in Int /\ y \in Nat /\ y > 0 /\ y <= p.va /\ x * y >= p.vb * p.va
      BY <2>1, <2>3, <2>6
    <3> HIDE DEF x, y
    <3>2. x >= p.vb
      BY <3>1, <1>1, ProductBacks
    <3> QED BY <3>2 DEF x
  <2>8. n <= p.rb
    BY <2>7, <2>3, <1>1 DEF B
  <2>9. p.ra - t \in Int /\ p.rb - n \in Int
    BY <1>1, <2>3
  <2>10. CurveInv(m, [p EXCEPT !.ra = p.ra - t, !.rb = p.rb - n])
    <3>1. /\ m.curve = 0 => (p.vb + (p.rb - n)) * (p.va - (p.ra - t)) >= p.vb * p.va
          /\ m.curve = 1 => (p.ra - t) * p.vb <= (p.rb - n) * p.va
      BY <1>3, <2>4, <2>6
    <3> QED BY <2>9, <3>1, CurveMoved
  <2> QED BY <2>3, <2>8, <2>10 DEF n
<1>4. CASE m.curve = 1
  <2> DEFINE a == p.vb * t
  <2>1. a \in Nat /\ n = a \div p.va
    BY <1>1, <1>4 DEF BonkSellIn
  <2> HIDE DEF a, n
  <2>2. n \in Nat /\ p.va * n <= a
    <3> DEFINE v == p.va
    <3>1. v \in Nat \ {0} /\ n = a \div v /\ a \in Nat
      BY <1>1, <2>1
    <3> HIDE DEF v
    <3>2. n \in Nat /\ v * n <= a
      BY ONLY <3>1, Quotient
    <3> QED BY <3>2 DEF v
  <2>3. p.ra * p.vb <= p.rb * p.va
    BY <1>4 DEF CurveInv
  <2>4. (p.ra - t) * p.vb = p.ra * p.vb - a /\ (p.rb - n) * p.va = p.rb * p.va - p.va * n
    BY <1>1, <2>2 DEF a
  <2>5. (p.ra - t) * p.vb <= (p.rb - n) * p.va
    BY <2>1, <2>2, <2>3, <2>4, <1>1
  <2>6. (p.ra - t) * p.vb >= 0
    BY <1>1
  <2>7. n <= p.rb
    <3>1. SUFFICES ASSUME p.rb - n <= -1 PROVE FALSE
      BY <1>1, <2>2
    <3> DEFINE v == p.va
               z == p.rb - n
    <3>2. v \in Nat \ {0} /\ z \in Int /\ z <= -1 /\ z * v >= 0
      BY <3>1, <1>1, <2>2, <2>5, <2>6
    <3> HIDE DEF v, z
    <3>3. z * v <= -v
      BY ONLY <3>2
    <3> QED BY <3>2, <3>3
  <2>8. p.ra - t \in Int /\ p.rb - n \in Int
    BY <1>1, <2>2
  <2>9. CurveInv(m, [p EXCEPT !.ra = p.ra - t, !.rb = p.rb - n])
    <3>1. /\ m.curve = 0 => (p.vb + (p.rb - n)) * (p.va - (p.ra - t)) >= p.vb * p.va
          /\ m.curve = 1 => (p.ra - t) * p.vb <= (p.rb - n) * p.va
      BY <1>4, <2>5
    <3> QED BY <2>8, <3>1, CurveMoved
  <2> QED BY <2>2, <2>7, <2>9 DEF n
<1>5. CASE m.curve = 2
  <2> DEFINE r == p.ra - t
             a == p.va * r * r
             k == LinearPaid(p, r)
  <2>1. r \in Nat
    BY <1>1
  <2>2. k \in Nat
    <3> DEFINE e == 2 * Q
    <3> HIDE DEF r
    <3>1. a \in Nat /\ e \in Nat \ {0}
      BY <1>1, <2>1
    <3>2. k = CeilDiv(a, e)
      BY DEF LinearPaid
    <3> HIDE DEF a, e, k
    <3> QED BY <3>1, <3>2, CeilQuotient
  <2>3. n = p.rb - k
    BY <1>5 DEF BonkSellIn
  <2> HIDE DEF k, n
  <2>4. n \in Nat /\ n <= p.rb /\ p.rb - n \in Int /\ r \in Int
    BY <1>1, <1>2, <2>1, <2>2, <2>3
  <2>5. CurveInv(m, [p EXCEPT !.ra = r, !.rb = p.rb - n])
    <3> HIDE DEF r
    <3>1. /\ m.curve = 0 => (p.vb + (p.rb - n)) * (p.va - r) >= p.vb * p.va
          /\ m.curve = 1 => r * p.vb <= (p.rb - n) * p.va
      BY <1>5
    <3> QED BY <2>4, <3>1, CurveMoved
  <2> QED BY <2>4, <2>5 DEF n
<1> QED BY <1>1, <1>3, <1>4, <1>5

\* The curve as BonkInv has it.
LEMMA BonkState ==
    ASSUME PaidInv, BonkInv, venue.kind = "bonk"
    PROVE  /\ venue \in BonkMarket /\ pool \in BonkPool /\ CurveInv(venue, pool)
           /\ pool.ra <= venue.sell /\ pool.ra = held /\ held \in Nat /\ got \in Int
           /\ venue.sell \in Nat /\ pool.ra \in Nat /\ pool.rb \in Nat
           /\ pool.rb <= paid - got /\ paid \in Nat
           /\ trades = 0 => pool.ra = 0 /\ pool.rb = 0
<1>1. venue \in BonkMarket
  BY BonkMarkets DEF PaidInv
<1> QED BY <1>1 DEF BonkInv, PaidInv, BonkMarket, BonkPool

\* A purchase by bonk_follow_buy_quote_details keeps the invariant and costs no more
\* than asked.
LEMMA BonkBought ==
    ASSUME PaidInv, BonkInv, venue.kind = "bonk", NEW spend \in Nat,
           LET details == BonkFollowBuy(venue, pool, spend)
           IN  Bought(details.gross, details.tokens, BonkAfterBuy(pool, details))
    PROVE  /\ BonkInv'
           /\ BonkFollowBuy(venue, pool, spend).gross \in Nat
           /\ BonkFollowBuy(venue, pool, spend).gross <= spend
<1> DEFINE d == BonkFollowBuy(venue, pool, spend)
<1>1. /\ venue \in BonkMarket /\ pool \in BonkPool /\ CurveInv(venue, pool)
      /\ pool.ra <= venue.sell /\ pool.ra = held /\ held \in Nat /\ got \in Int
      /\ venue.sell \in Nat /\ pool.ra \in Nat /\ pool.rb \in Nat
      /\ pool.rb <= paid - got /\ paid \in Nat
  BY BonkState
<1>2. /\ d.gross >= 0 /\ d.tokens > 0 /\ paid' = paid + d.gross /\ held' = held + d.tokens
      /\ pool' = BonkAfterBuy(pool, d) /\ trades' = trades + 1 /\ venue' = venue /\ got' = got
  BY DEF Bought
<1>3. /\ d.gross \in Nat /\ d.gross <= spend /\ d.net \in Int /\ d.net <= d.gross
      /\ d.tokens \in Nat /\ pool.ra + d.tokens <= venue.sell /\ pool.rb + d.net \in Nat
      /\ CurveInv(venue, [pool EXCEPT !.ra = pool.ra + d.tokens, !.rb = pool.rb + d.net])
  BY <1>1, <1>2, BonkQuoted
<1>4. pool' = [pool EXCEPT !.ra = pool.ra + d.tokens, !.rb = pool.rb + d.net]
  BY <1>2, <1>1 DEF BonkAfterBuy, BonkPool
<1>5. trades' # 0
  BY <1>2 DEF PaidInv
<1> HIDE DEF d
<1>6. /\ pool' \in BonkPool /\ pool'.ra = pool.ra + d.tokens /\ pool'.rb = pool.rb + d.net
  <2>1. pool.ra + d.tokens \in Nat /\ pool.rb + d.net \in Nat
    BY <1>1, <1>3
  <2> QED BY <1>1, <1>4, <2>1 DEF BonkPool
<1>7. CurveInv(venue', pool')
  BY <1>2, <1>3, <1>4
<1>8. /\ held' \in Nat /\ got' \in Int /\ pool'.ra = held' /\ held' <= venue'.sell
      /\ pool'.rb <= paid' - got'
  BY <1>1, <1>2, <1>3, <1>6
<1>9. BonkInv'
  BY <1>5, <1>6, <1>7, <1>8 DEF BonkInv
<1> QED BY <1>3, <1>9 DEF d

\* So does a sale.
LEMMA BonkSold ==
    ASSUME PaidInv, BonkInv, NEW tokens \in 1..held, BonkSell(tokens)
    PROVE  BonkInv'
<1> DEFINE n == BonkSellIn(venue, pool, tokens)
           gained == BonkSellNet(venue, pool, tokens)
<1>1. /\ venue.kind = "bonk" /\ n >= 0
      /\ pool' = [pool EXCEPT !.ra = @ - tokens, !.rb = @ - n]
      /\ held' = held - tokens /\ got' = got + gained /\ paid' = paid /\ venue' = venue
      /\ trades' = trades + 1
  BY DEF BonkSell, Sold
<1>2. /\ venue \in BonkMarket /\ pool \in BonkPool /\ CurveInv(venue, pool)
      /\ pool.ra <= venue.sell /\ pool.ra = held /\ held \in Nat /\ got \in Int
      /\ venue.sell \in Nat /\ pool.ra \in Nat /\ pool.rb \in Nat
      /\ pool.rb <= paid - got /\ paid \in Nat
  BY <1>1, BonkState
<1>3. tokens \in Nat \ {0} /\ tokens <= pool.ra
  BY <1>2
<1>4. /\ n \in Nat /\ n <= pool.rb
      /\ CurveInv(venue, [pool EXCEPT !.ra = pool.ra - tokens, !.rb = pool.rb - n])
  BY <1>1, <1>2, <1>3, BonkSoldBound
<1>5. gained \in Nat /\ gained <= n
  <2>1. gained = n - BonkFeeOf(venue, n)
    BY DEF BonkSellNet
  <2> HIDE DEF n, gained
  <2>2. BonkFeeOf(venue, n) \in Nat /\ n - BonkFeeOf(venue, n) \in Nat
    BY <1>2, <1>4, BonkFeeBound
  <2> QED BY <2>1, <2>2, <1>4
<1> HIDE DEF n, gained
<1>6. pool' = [pool EXCEPT !.ra = pool.ra - tokens, !.rb = pool.rb - n]
  BY <1>1, <1>2 DEF BonkPool
<1>7. pool' \in BonkPool /\ pool'.ra = pool.ra - tokens /\ pool'.rb = pool.rb - n
  <2>1. pool.ra - tokens \in Nat /\ pool.rb - n \in Nat
    BY <1>2, <1>3, <1>4
  <2> QED BY <1>2, <1>6, <2>1 DEF BonkPool
<1>8. CurveInv(venue', pool')
  BY <1>1, <1>4, <1>6
<1>9. trades' # 0
  BY <1>1 DEF PaidInv
<1>10. /\ held' \in Nat /\ got' \in Int /\ pool'.ra = held' /\ held' <= venue'.sell
       /\ pool'.rb <= paid' - got'
  BY <1>1, <1>2, <1>3, <1>4, <1>5, <1>7
<1> QED BY <1>7, <1>8, <1>9, <1>10 DEF BonkInv

-----------------------------------------------------------------------------
(* The fixed-point power of the exponential fee schedule                   *)

\* One step of PowQ, of pairs <<what the base has been squared to, the result>>.
Pairs == Nat \X Nat
Squared(e, x) == <<(x[1] * x[1]) \div Q, IF e % 2 = 1 THEN (x[2] * x[1]) \div Q ELSE x[2]>>
PowBy(f, e) == [x \in Nat \X Nat |-> IF e = 0 THEN x[2] ELSE f[e \div 2][Squared(e, x)]]
\* The recursion of PowQ.
IsPow(f) == f = [e \in Nat |-> PowBy(f, e)]

\* PowQ as far as an exponent.
PowUpTo(n) == {f \in [0..n -> [Pairs -> Nat]] : \A e \in 0..n : f[e] = PowBy(f, e)}

\* The exponent falls.
LEMMA Halved ==
    ASSUME NEW e \in Nat, e # 0
    PROVE  e \div 2 \in Nat /\ e \div 2 <= e - 1
OBVIOUS

\* One step of PowQ gives numbers.
LEMMA PowByTyped ==
    ASSUME NEW f, NEW e \in Nat, e # 0 => f[e \div 2] \in [Pairs -> Nat]
    PROVE  PowBy(f, e) \in [Pairs -> Nat]
<1>1. ASSUME NEW x \in Pairs
      PROVE  Squared(e, x) \in Pairs /\ x[2] \in Nat
  <2> DEFINE a == x[1]
             b == x[2]
             c == a * a
             d == b * a
  <2>1. a \in Nat /\ b \in Nat
    BY DEF Pairs
  <2>2. c \in Nat /\ d \in Nat /\ Q \in Nat \ {0}
    BY <2>1, QuoteAssumption
  <2> HIDE DEF c, d
  <2>3. c \div Q \in Nat /\ d \div Q \in Nat
    BY <2>2, Quotient
  <2>4. Squared(e, x) = <<c \div Q, IF e % 2 = 1 THEN d \div Q ELSE b>>
    BY DEF Squared, c, d
  <2> HIDE DEF a, b
  <2> QED BY <2>1, <2>3, <2>4 DEF Pairs, b
<1>2. ASSUME NEW x \in Pairs
      PROVE  (IF e = 0 THEN x[2] ELSE f[e \div 2][Squared(e, x)]) \in Nat
  BY <1>1
<1> HIDE DEF Pairs
<1>3. PowBy(f, e) = [x \in Pairs |-> IF e = 0 THEN x[2] ELSE f[e \div 2][Squared(e, x)]]
  BY DEF PowBy, Pairs
<1> QED BY <1>2, <1>3

\* One step depends on nothing else than the exponent it goes back to.
LEMMA PowBySame ==
    ASSUME NEW f, NEW g, NEW e \in Nat, e # 0 => f[e \div 2] = g[e \div 2]
    PROVE  PowBy(f, e) = PowBy(g, e)
BY DEF PowBy

\* PowQ is defined as far as any exponent.
LEMMA PowUpToExists == \A n \in Nat : PowUpTo(n) # {}
<1> DEFINE T == {n \in Nat : PowUpTo(n) # {}}
<1>1. 0 \in T
  <2> DEFINE f == [e \in 0..0 |-> PowBy(0, 0)]
  <2>1. PowBy(0, 0) \in [Pairs -> Nat]
    BY PowByTyped
  <2>2. PowBy(f, 0) = PowBy(0, 0)
    BY PowBySame
  <2> HIDE DEF f
  <2>3. f = [e \in 0..0 |-> PowBy(0, 0)]
    BY DEF f
  <2>4. f \in [0..0 -> [Pairs -> Nat]] /\ \A e \in 0..0 : f[e] = PowBy(f, e)
    BY <2>1, <2>2, <2>3
  <2>5. f \in PowUpTo(0)
    BY <2>4 DEF PowUpTo
  <2> QED BY <2>5
<1>2. ASSUME NEW n \in T PROVE n + 1 \in T
  <2>1. PICK f \in PowUpTo(n) : TRUE
    OBVIOUS
  <2>2. f \in [0..n -> [Pairs -> Nat]] /\ \A e \in 0..n : f[e] = PowBy(f, e)
    BY DEF PowUpTo
  <2> DEFINE g == [e \in 0..(n + 1) |-> IF e <= n THEN f[e] ELSE PowBy(f, n + 1)]
  <2>3. PowBy(f, n + 1) \in [Pairs -> Nat]
    <3>1. n + 1 \in Nat /\ n + 1 # 0 /\ (n + 1) \div 2 \in 0..n
      BY Halved
    <3> QED BY <3>1, <2>2, PowByTyped
  <2>4. g \in [0..(n + 1) -> [Pairs -> Nat]]
    BY <2>2, <2>3
  <2>5. ASSUME NEW e \in 0..(n + 1) PROVE g[e] = PowBy(g, e)
    <3>1. e \in Nat /\ (e # 0 => e \div 2 \in 0..n)
      BY Halved
    <3>2. e # 0 => g[e \div 2] = f[e \div 2]
      BY <3>1
    <3> HIDE DEF g
    <3>3. PowBy(g, e) = PowBy(f, e)
      BY <3>1, <3>2, PowBySame
    <3>4. g[e] = PowBy(f, e)
      <4>1. CASE e <= n
        <5>1. e \in 0..n /\ g[e] = f[e]
          BY <4>1 DEF g
        <5> QED BY <5>1, <2>2
      <4>2. CASE ~(e <= n)
        <5>1. e = n + 1 /\ g[e] = PowBy(f, n + 1)
          BY <4>2 DEF g
        <5> QED BY <5>1
      <4> QED BY <4>1, <4>2
    <3> QED BY <3>3, <3>4
  <2> HIDE DEF g
  <2>6. g \in PowUpTo(n + 1)
    BY <2>4, <2>5 DEF PowUpTo
  <2> QED BY <2>6
<1>3. T = Nat
  <2>1. T \in SUBSET Nat
    OBVIOUS
  <2> HIDE DEF T
  <2> QED BY <1>1, <1>2, <2>1, SetInduction
<1> QED BY <1>3

\* What defines it further agrees with what defines it less far.
LEMMA PowUpToSame ==
    ASSUME NEW n \in Nat, NEW m \in Nat, NEW f \in PowUpTo(n), NEW g \in PowUpTo(m),
           NEW e \in 0..n, e <= m
    PROVE  f[e] = g[e]
<1> DEFINE T == {k \in Nat : \A i \in 0..k : i <= n /\ i <= m => f[i] = g[i]}
<1>1. /\ \A i \in 0..n : f[i] = PowBy(f, i)
      /\ \A i \in 0..m : g[i] = PowBy(g, i)
  BY DEF PowUpTo
<1>2. 0 \in T
  <2>1. PowBy(f, 0) = PowBy(g, 0)
    BY PowBySame
  <2>2. f[0] = g[0]
    BY <1>1, <2>1
  <2> QED BY <2>2
<1>3. ASSUME NEW k \in T PROVE k + 1 \in T
  <2>1. ASSUME k + 1 <= n, k + 1 <= m PROVE f[k + 1] = g[k + 1]
    <3>1. k + 1 \in Nat /\ k + 1 # 0 /\ (k + 1) \div 2 \in 0..k
      BY Halved
    <3>2. f[(k + 1) \div 2] = g[(k + 1) \div 2]
      BY <2>1, <3>1
    <3>3. PowBy(f, k + 1) = PowBy(g, k + 1)
      BY <3>1, <3>2, PowBySame
    <3> QED BY <1>1, <2>1, <3>1, <3>3
  <2>2. ASSUME NEW i \in 0..(k + 1), i <= n, i <= m PROVE f[i] = g[i]
    <3>1. i \in 0..k \/ i = k + 1
      OBVIOUS
    <3> QED BY <2>1, <2>2, <3>1
  <2> QED BY <2>2
<1>4. T = Nat
  <2>1. T \in SUBSET Nat
    OBVIOUS
  <2> HIDE DEF T
  <2> QED BY <1>2, <1>3, <2>1, SetInduction
<1>5. e \in T /\ e \in 0..e
  BY <1>4
<1> QED BY <1>5

\* The recursion of PowQ defines a function.
LEMMA PowExists == \E f : IsPow(f)
<1> DEFINE F == [n \in Nat |-> CHOOSE f : f \in PowUpTo(n)]
           p == [e \in Nat |-> F[e][e]]
<1>1. \A n \in Nat : F[n] \in PowUpTo(n)
  BY PowUpToExists
<1> HIDE DEF F
<1>2. ASSUME NEW e \in Nat PROVE p[e] = PowBy(p, e)
  <2>1. F[e][e] = PowBy(F[e], e)
    BY <1>1 DEF PowUpTo
  <2>2. ASSUME e # 0 PROVE F[e][e \div 2] = p[e \div 2]
    <3> DEFINE h == e \div 2
    <3>1. h \in Nat /\ h <= e
      BY <2>2, Halved
    <3> HIDE DEF h
    <3>2. F[e] \in PowUpTo(e) /\ F[h] \in PowUpTo(h) /\ h \in 0..e /\ h <= h
      BY <1>1, <3>1
    <3>3. F[e][h] = F[h][h]
      BY <3>1, <3>2, PowUpToSame
    <3>4. p[h] = F[h][h]
      BY <3>1
    <3> QED BY <3>3, <3>4 DEF h
  <2> HIDE DEF p
  <2>3. PowBy(F[e], e) = PowBy(p, e)
    BY <2>2, PowBySame
  <2>4. p[e] = F[e][e]
    BY DEF p
  <2> QED BY <2>1, <2>3, <2>4
<1>3. p = [e \in Nat |-> p[e]]
  OBVIOUS
<1> HIDE DEF p
<1>4. p = [e \in Nat |-> PowBy(p, e)]
  BY <1>2, <1>3
<1> QED BY <1>4 DEF IsPow

\* What the recursion gives are numbers.
LEMMA PowTyped ==
    ASSUME NEW f, IsPow(f), NEW n \in Nat
    PROVE  f[n] \in [Pairs -> Nat]
<1> DEFINE T == {k \in Nat : \A i \in 0..k : f[i] \in [Pairs -> Nat]}
<1>1. \A i \in Nat : f[i] = PowBy(f, i)
  BY DEF IsPow
<1>2. 0 \in T
  <2>1. f[0] \in [Pairs -> Nat]
    BY <1>1, PowByTyped
  <2> QED BY <2>1
<1>3. ASSUME NEW k \in T PROVE k + 1 \in T
  <2>1. k + 1 \in Nat /\ k + 1 # 0 /\ (k + 1) \div 2 \in 0..k
    BY Halved
  <2>2. PowBy(f, k + 1) \in [Pairs -> Nat]
    BY <2>1, PowByTyped
  <2>3. f[k + 1] \in [Pairs -> Nat]
    BY <1>1, <2>1, <2>2
  <2>4. ASSUME NEW i \in 0..(k + 1) PROVE f[i] \in [Pairs -> Nat]
    <3>1. i \in 0..k \/ i = k + 1
      OBVIOUS
    <3> QED BY <2>3, <3>1
  <2> QED BY <2>4
<1>4. T = Nat
  <2>1. T \in SUBSET Nat
    OBVIOUS
  <2> HIDE DEF T
  <2> QED BY <1>2, <1>3, <2>1, SetInduction
<1>5. n \in T /\ n \in 0..n
  BY <1>4
<1> QED BY <1>5

\* The fixed-point power is a number.
LEMMA PowQTyped ==
    ASSUME NEW base \in Nat, NEW exp \in Nat
    PROVE  PowQ(base, exp) \in Nat
<1> DEFINE f == CHOOSE f : IsPow(f)
<1>1. IsPow(f)
  BY PowExists, Zenon
<1>2. PowQ(base, exp) = f[exp][<<base, Q>>]
  BY Zenon DEF PowQ, IsPow, PowBy, Squared
<1> HIDE DEF f
<1>3. f[exp] \in [Pairs -> Nat]
  BY <1>1, PowTyped
<1>4. <<base, Q>> \in Pairs
  BY QuoteAssumption DEF Pairs
<1> HIDE DEF Pairs
<1> QED BY <1>2, <1>3, <1>4

-----------------------------------------------------------------------------
(* DAMM                                                                    *)

\* What MarketAssumption says of a DAMM market.
DammMarket(m) ==
    /\ m.price \in Nat \ {0} /\ m.liquidity \in Nat \ {0} /\ m.volatility \in Nat
    /\ m.feeMode \in {"flat", "linear", "exponential"} /\ m.quoteFees \in BOOLEAN
    /\ m.cliff \in Nat /\ m.step \in Nat /\ m.start \in Nat /\ m.periods \in Nat
    /\ m.feeMode # "flat" => m.every \in Nat \ {0}

\* Every DAMM market is one.
LEMMA DammMarkets ==
    ASSUME NEW m \in Markets, m.kind = "damm"
    PROVE  DammMarket(m)
BY MarketAssumption, Zenon DEF DammMarket

\* The fee of a trade is a rate below the whole, on every schedule.
LEMMA DammFeeBound ==
    ASSUME NEW m, DammMarket(m), m.kind = "damm", NEW at \in Nat, NEW buying, NEW amount
    PROVE  TradeFee(m, at, buying, amount) \in 0..MaxFee
<1>1. /\ m.volatility \in Nat /\ m.feeMode \in {"flat", "linear", "exponential"}
      /\ m.cliff \in Nat /\ m.step \in Nat /\ m.start \in Nat /\ m.periods \in Nat
      /\ m.feeMode # "flat" => m.every \in Nat \ {0}
      /\ Q \in Nat \ {0} /\ FeeBase \in Nat \ {0} /\ MaxFee \in Nat
  BY QuoteAssumption DEF DammMarket
<1>2. ASSUME m.feeMode # "flat" PROVE Periods(m, at) \in Nat
  <2>1. CASE at >= m.start
    <3> DEFINE a == at - m.start
               d == m.every
    <3>1. a \in Nat /\ d \in Nat \ {0}
      BY <1>1, <1>2, <2>1
    <3>2. Periods(m, at) = Least(a \div d, m.periods)
      BY <2>1 DEF Periods
    <3> HIDE DEF a, d
    <3>3. a \div d \in Nat
      BY <3>1, Quotient
    <3> QED BY <3>2, <3>3, <1>1 DEF Least
  <2>2. CASE ~(at >= m.start)
    <3>1. Periods(m, at) = 0
      BY <2>2 DEF Periods
    <3> QED BY <3>1
  <2> QED BY <2>1, <2>2
<1>3. BaseFee(m, at, buying, amount) \in Nat
  <2>1. CASE m.feeMode = "flat"
    BY <2>1, <1>1 DEF BaseFee
  <2>2. CASE m.feeMode = "linear"
    <3> DEFINE a == Periods(m, at) * m.step
    <3>1. a \in Nat
      BY <1>1, <1>2, <2>2
    <3>2. BaseFee(m, at, buying, amount) = Most(m.cliff - a, 0)
      BY <2>2 DEF BaseFee
    <3> HIDE DEF a
    <3> QED BY <3>1, <3>2, <1>1 DEF Most
  <2>3. CASE m.feeMode = "exponential"
    <3> DEFINE e == Periods(m, at)
               z == m.step * Q
               base == Most(Q - z \div FeeBase, 0)
               w == PowQ(base, e)
               y == m.cliff * w
    <3>1. e \in Nat /\ z \in Nat
      BY <1>1, <1>2, <2>3
    <3>2. z \div FeeBase \in Nat
      <4> HIDE DEF z
      <4> QED BY <3>1, <1>1, Quotient
    <3>3. base \in Nat
      <4> DEFINE k == z \div FeeBase
      <4>1. k \in Nat /\ base = Most(Q - k, 0)
        BY <3>2
      <4> HIDE DEF k, base
      <4> QED BY <4>1, <1>1 DEF Most
    <3>4. BaseFee(m, at, buying, amount) = y \div Q
      BY <2>3 DEF BaseFee
    <3> HIDE DEF e, base
    <3>5. w \in Nat
      BY <3>1, <3>3, PowQTyped
    <3> HIDE DEF w
    <3>6. y \in Nat
      BY <3>5, <1>1
    <3> HIDE DEF y
    <3>7. y \div Q \in Nat
      BY <3>6, <1>1, Quotient
    <3> QED BY <3>4, <3>7
  <2> QED BY <1>1, <2>1, <2>2, <2>3
<1>4. DynamicFee(m) \in Nat
  <2> DEFINE a == m.volatility * m.volatility
  <2>1. a \in Nat
    BY <1>1
  <2>2. DynamicFee(m) = CeilDiv(a, 100)
    BY DEF DynamicFee
  <2> HIDE DEF a
  <2>3. a \in Int /\ 100 \in Nat \ {0}
    BY <2>1
  <2>4. CeilDiv(a, 100) \in Nat
    BY ONLY <2>1, <2>3, CeilQuotient
  <2> QED BY <2>2, <2>4
<1> DEFINE x == BaseFee(m, at, buying, amount) + DynamicFee(m)
<1>5. x \in Nat /\ TradeFee(m, at, buying, amount) = Least(x, MaxFee)
  BY <1>3, <1>4 DEF TradeFee
<1> HIDE DEF x
<1> QED BY <1>1, <1>5 DEF Least

\* What a fee leaves is a part of the amount.
LEMMA LessFeeBound ==
    ASSUME NEW amount \in Nat, NEW fee \in 0..MaxFee
    PROVE  LessFee(amount, fee) \in 0..amount
<1> DEFINE a == amount * fee
           c == CeilDiv(a, FeeBase)
<1>1. FeeBase \in Nat \ {0} /\ fee \in Nat /\ fee <= FeeBase
  BY QuoteAssumption
<1>2. a \in Nat /\ a \in Int /\ a <= FeeBase * amount
  BY <1>1
<1> HIDE DEF a
<1>3. c \in Nat /\ c <= amount
  BY <1>1, <1>2, CeilQuotient, QuotientLeast
<1>4. LessFee(amount, fee) = amount - c
  BY DEF LessFee, a
<1> HIDE DEF c
<1> QED BY <1>3, <1>4

\* A purchase from the liquidity L at the price P, for an input n.
LEMMA DammBuyBound ==
    ASSUME NEW L \in Nat \ {0}, NEW P \in Nat \ {0}, NEW n \in Nat
    PROVE  LET next == P + (n * Resolution) \div L
               raw == BaseBetween(P, next, L, FALSE)
           IN  /\ next \in Nat \ {0} /\ L * (next - P) <= n * Resolution
               /\ raw \in Nat /\ (P * next) * raw <= L * (next - P)
<1> DEFINE w == n * Resolution
           q == w \div L
           next == P + q
           y == P * next
           x == L * (next - P)
<1>1. w \in Nat
  BY QuoteAssumption DEF Resolution
<1>2. q \in Nat /\ L * q <= w
  <2> HIDE DEF w
  <2> QED BY <1>1, Quotient
<1>3. next \in Nat \ {0} /\ next - P = q /\ x = L * q
  <2> HIDE DEF q
  <2> QED BY <1>2
<1>4. BaseBetween(P, next, L, FALSE) = x \div y
  BY DEF BaseBetween
<1>5. x \in Nat /\ y \in Nat \ {0}
  <2>1. x \in Nat
    BY <1>2, <1>3
  <2> HIDE DEF next, x
  <2> QED BY <1>3, <2>1
<1> HIDE DEF w, x, y
<1>6. x \div y \in Nat /\ y * (x \div y) <= x
  BY <1>5, Quotient
<1> HIDE DEF q
<1>7. x <= w
  BY <1>2, <1>3
<1> QED BY <1>3, <1>4, <1>6, <1>7 DEF w, x, y, q

\* A sale of n tokens.
LEMMA DammSellBound ==
    ASSUME NEW L \in Nat \ {0}, NEW P \in Nat \ {0}, NEW n \in Nat
    PROVE  LET next == CeilDiv(L * P, L + n * P)
               raw == QuoteBetween(next, P, L, FALSE)
           IN  /\ next \in Nat \ {0} /\ next <= P /\ L * P <= (L + n * P) * next
               /\ raw \in Nat /\ Resolution * raw <= L * (P - next)
<1> DEFINE a == L * P
           d == L + n * P
           next == CeilDiv(a, d)
           x == L * (P - next)
<1>1. a \in Nat \ {0} /\ d \in Nat \ {0} /\ a <= d * P
  <2>1. n * P \in Nat /\ a \in Nat \ {0}
    OBVIOUS
  <2>2. d * P = a + (n * P) * P
    OBVIOUS
  <2>3. (n * P) * P \in Nat
    BY <2>1
  <2> QED BY <2>1, <2>2, <2>3
<1> HIDE DEF a, d
<1>2. next \in Nat /\ a <= d * next /\ next <= P
  BY <1>1, CeilQuotient, QuotientLeast
<1> HIDE DEF next
<1>3. next # 0
  BY <1>1, <1>2
<1>4. x \in Nat
  BY <1>2
<1>5. QuoteBetween(next, P, L, FALSE) = x \div Resolution
  BY DEF QuoteBetween
<1>6. Resolution \in Nat \ {0}
  BY QuoteAssumption DEF Resolution
<1> HIDE DEF x
<1>7. x \div Resolution \in Nat /\ Resolution * (x \div Resolution) <= x
  BY <1>4, <1>6, Quotient
<1> QED BY <1>2, <1>3, <1>5, <1>7 DEF a, d, x, next

\* The tokens out and the price, in the terms of the first price.
LEMMA DammHeldAfterBuy ==
    ASSUME NEW L \in Nat \ {0}, NEW P \in Nat \ {0}, NEW P0 \in Nat \ {0}, NEW next \in Nat \ {0},
           NEW h \in Nat, NEW t \in Nat,
           h * (P * P0) <= L * (P - P0), (P * next) * t <= L * (next - P)
    PROVE  (h + t) * (next * P0) <= L * (next - P0)
<1> DEFINE l == (h + t) * (next * P0)
           r == L * (next - P0)
<1>1. P * l = (h * (P * P0)) * next + ((P * next) * t) * P0
  OBVIOUS
<1>2. P * r = (L * (P - P0)) * next + (L * (next - P)) * P0
  OBVIOUS
<1>3. (h * (P * P0)) * next <= (L * (P - P0)) * next
  <2> DEFINE x == h * (P * P0)
             y == L * (P - P0)
  <2>1. x \in Int /\ y \in Int /\ x <= y
    OBVIOUS
  <2> HIDE DEF x, y
  <2>2. x * next <= y * next
    BY <2>1
  <2> QED BY <2>2 DEF x, y
<1>4. ((P * next) * t) * P0 <= (L * (next - P)) * P0
  <2> DEFINE x == (P * next) * t
             y == L * (next - P)
  <2>1. x \in Int /\ y \in Int /\ x <= y
    OBVIOUS
  <2> HIDE DEF x, y
  <2>2. x * P0 <= y * P0
    BY <2>1
  <2> QED BY <2>2 DEF x, y
<1>5. l \in Int /\ r \in Int
  OBVIOUS
<1>6. P * l < P * r + P
  <2> HIDE DEF l, r
  <2> DEFINE a == (h * (P * P0)) * next
             b == ((P * next) * t) * P0
             c == (L * (P - P0)) * next
             d == (L * (next - P)) * P0
  <2>1. a \in Int /\ b \in Int /\ c \in Int /\ d \in Int
    OBVIOUS
  <2>2. P * l = a + b /\ P * r = c + d /\ a <= c /\ b <= d
    BY <1>1, <1>2, <1>3, <1>4
  <2> HIDE DEF a, b, c, d
  <2> QED BY <2>1, <2>2
<1> HIDE DEF l, r
<1>7. l <= r
  BY <1>5, <1>6, CancelTimes
<1> QED BY <1>7 DEF l, r

\* The same for a sale.
LEMMA DammHeldAfterSell ==
    ASSUME NEW L \in Nat \ {0}, NEW P \in Nat \ {0}, NEW P0 \in Nat \ {0}, NEW next \in Nat \ {0},
           NEW h \in Nat, NEW t \in Nat, t <= h,
           h * (P * P0) <= L * (P - P0), L * P <= (L + t * P) * next
    PROVE  (h - t) * (next * P0) <= L * (next - P0)
<1> DEFINE l == (h - t) * (next * P0)
           r == L * (next - P0)
           x == h * (P * P0)
           y == L * (P - P0)
           v == L * P
           w == (L + t * P) * next
<1>1. x \in Int /\ y \in Int /\ v \in Int /\ w \in Int /\ x <= y /\ v <= w /\ l \in Int /\ r \in Int
  OBVIOUS
<1>2. P * l = x * next + (L * next) * P0 - w * P0
  OBVIOUS
<1>3. P * r = y * next + (L * next) * P0 - v * P0
  OBVIOUS
<1>4. x * next <= y * next /\ v * P0 <= w * P0
  <2> HIDE DEF x, y, v, w
  <2> QED BY <1>1
<1>5. P * l < P * r + P
  <2> HIDE DEF l, r, x, y, v, w
  <2> DEFINE a == x * next
             b == (L * next) * P0
             c == w * P0
             d == y * next
             e == v * P0
  <2>1. a \in Int /\ b \in Int /\ c \in Int /\ d \in Int /\ e \in Int
    BY <1>1
  <2>2. P * l = a + b - c /\ P * r = d + b - e /\ a <= d /\ e <= c
    BY <1>2, <1>3, <1>4
  <2> HIDE DEF a, b, c, d, e
  <2> QED BY <2>1, <2>2
<1> HIDE DEF l, r
<1>6. l <= r
  BY <1>1, <1>5, CancelTimes
<1> QED BY <1>6 DEF l, r

\* The price has been paid for, and is where the tokens held took it.
DammInv ==
    venue.kind = "damm" =>
        /\ held \in Nat /\ got \in Int /\ pool = [price |-> pool.price] /\ pool.price \in Nat \ {0}
        /\ held * (pool.price * venue.price) <= venue.liquidity * (pool.price - venue.price)
        /\ venue.liquidity * (pool.price - venue.price) <= (paid - got) * Resolution

\* A purchase from the DAMM pool keeps the invariant.
LEMMA DammBought ==
    ASSUME PaidInv, DammInv, venue.kind = "damm", NEW spend \in Nat, BagsBuy(spend)
    PROVE  DammInv'
<1> DEFINE L == venue.liquidity
           P == pool.price
           P0 == venue.price
           swap == DammSwap(venue, pool, now, TRUE, spend)
           fee == TradeFee(venue, now, TRUE, spend)
           in == IF venue.quoteFees THEN LessFee(spend, fee) ELSE spend
           next == P + (in * Resolution) \div L
           raw == BaseBetween(P, next, L, FALSE)
           out == IF venue.quoteFees THEN raw ELSE LessFee(raw, fee)
<1>1. DammMarket(venue) /\ now \in Nat /\ paid \in Nat
  BY DammMarkets DEF PaidInv
<1>2. /\ L \in Nat \ {0} /\ P \in Nat \ {0} /\ P0 \in Nat \ {0} /\ venue.quoteFees \in BOOLEAN
      /\ held \in Nat /\ got \in Int /\ Resolution \in Nat
      /\ held * (P * P0) <= L * (P - P0) /\ L * (P - P0) <= (paid - got) * Resolution
  BY <1>1, QuoteAssumption DEF DammMarket, DammInv, Resolution
<1>3. fee \in 0..MaxFee
  BY <1>1, DammFeeBound
<1>4. in \in Nat /\ in <= spend
  <2> HIDE DEF fee
  <2>1. LessFee(spend, fee) \in 0..spend
    BY <1>3, LessFeeBound
  <2> QED BY <2>1
<1>5. swap.out = out /\ swap.price = next
  BY Zenon DEF DammSwap
<1>6. /\ held' = held + swap.out /\ pool' = [price |-> swap.price] /\ paid' = paid + spend
      /\ got' = got /\ venue' = venue
  BY DEF BagsBuy, BagsSwap, Bought
<1> HIDE DEF in, L, P, P0, fee, swap
<1>7. /\ next \in Nat \ {0} /\ L * (next - P) <= in * Resolution
      /\ raw \in Nat /\ (P * next) * raw <= L * (next - P)
  BY <1>2, <1>4, DammBuyBound
<1> HIDE DEF next, raw
<1>8. out \in Nat /\ out <= raw
  <2>1. LessFee(raw, fee) \in 0..raw
    BY <1>3, <1>7, LessFeeBound
  <2> QED BY <2>1, <1>7
<1> HIDE DEF out
<1>9. (P * next) * out <= L * (next - P)
  <2> DEFINE y == P * next
             x == L * (next - P)
  <2>1. y \in Nat /\ x \in Int /\ y * raw <= x
    BY <1>2, <1>7
  <2> HIDE DEF x, y
  <2>2. y * out <= y * raw
    BY <2>1, <1>7, <1>8
  <2>3. y * out \in Int /\ y * raw \in Int
    BY <2>1, <1>7, <1>8
  <2>4. y * out <= x
    BY ONLY <2>1, <2>2, <2>3
  <2> QED BY <2>4 DEF x, y
<1>10. (held + out) * (next * P0) <= L * (next - P0)
  BY <1>2, <1>7, <1>8, <1>9, DammHeldAfterBuy
<1>11. L * (next - P0) <= (paid + spend - got) * Resolution
  <2>1. L * (next - P0) = L * (P - P0) + L * (next - P)
    BY <1>2, <1>7
  <2>2. (paid + spend - got) * Resolution = (paid - got) * Resolution + spend * Resolution
    BY <1>1, <1>2
  <2>3. in * Resolution <= spend * Resolution
    BY <1>2, <1>4
  <2> DEFINE a == L * (P - P0)
             b == L * (next - P)
             c == (paid - got) * Resolution
             d == in * Resolution
             e == spend * Resolution
  <2>4. a \in Int /\ b \in Int /\ c \in Int /\ d \in Int /\ e \in Int /\ a <= c /\ b <= d /\ d <= e
    BY <2>3, <1>1, <1>2, <1>4, <1>7
  <2>5. L * (next - P0) = a + b /\ (paid + spend - got) * Resolution = c + e
    BY <2>1, <2>2
  <2> HIDE DEF a, b, c, d, e
  <2>6. a + b <= c + e
    BY ONLY <2>4
  <2> QED BY <2>5, <2>6
<1>12. pool' = [price |-> next] /\ pool'.price = next /\ held' = held + out
  BY <1>5, <1>6
<1>13. /\ held' \in Nat /\ got' \in Int /\ pool' = [price |-> pool'.price]
       /\ pool'.price \in Nat \ {0}
  BY <1>2, <1>6, <1>7, <1>8, <1>12
<1>14. venue'.liquidity = L /\ venue'.price = P0
  BY <1>6 DEF L, P0
<1>15. held' * (pool'.price * P0) <= L * (pool'.price - P0)
  BY <1>10, <1>12, Zenon
<1>16. L * (pool'.price - P0) <= (paid' - got') * Resolution
  <2>1. pool'.price = next
    BY <1>12
  <2>2. paid' - got' = paid + spend - got
    BY <1>1, <1>2, <1>6
  <2> DEFINE w == L * (next - P0)
             v == (paid + spend - got) * Resolution
  <2>3. w <= v
    BY <1>11
  <2>4. L * (pool'.price - P0) = w
    BY <2>1
  <2>5. (paid' - got') * Resolution = v
    BY <2>2
  <2> HIDE DEF w, v
  <2> QED BY <2>3, <2>4, <2>5, Zenon
<1> QED BY <1>13, <1>14, <1>15, <1>16, Zenon DEF DammInv

\* So does a sale.
LEMMA DammSold ==
    ASSUME PaidInv, DammInv, venue.kind = "damm", NEW tokens \in 1..held, BagsSell(tokens)
    PROVE  DammInv'
<1> DEFINE L == venue.liquidity
           P == pool.price
           P0 == venue.price
           swap == DammSwap(venue, pool, now, FALSE, tokens)
           fee == TradeFee(venue, now, FALSE, tokens)
           next == CeilDiv(L * P, L + tokens * P)
           raw == QuoteBetween(next, P, L, FALSE)
           out == LessFee(raw, fee)
<1>1. DammMarket(venue) /\ now \in Nat /\ paid \in Nat
  BY DammMarkets DEF PaidInv
<1>2. /\ L \in Nat \ {0} /\ P \in Nat \ {0} /\ P0 \in Nat \ {0}
      /\ held \in Nat /\ got \in Int /\ Resolution \in Nat
      /\ held * (P * P0) <= L * (P - P0) /\ L * (P - P0) <= (paid - got) * Resolution
  BY <1>1, QuoteAssumption DEF DammMarket, DammInv, Resolution
<1>3. fee \in 0..MaxFee
  BY <1>1, DammFeeBound
<1>4. tokens \in Nat /\ tokens <= held
  BY <1>2
<1>5. swap.out = out /\ swap.price = next
  BY Zenon DEF DammSwap
<1>6. /\ held' = held - tokens /\ pool' = [price |-> swap.price] /\ got' = got + swap.out
      /\ paid' = paid /\ venue' = venue
  BY DEF BagsSell, BagsSwap, Sold
<1> HIDE DEF L, P, P0, fee, swap
<1>7. /\ next \in Nat \ {0} /\ next <= P /\ L * P <= (L + tokens * P) * next
      /\ raw \in Nat /\ Resolution * raw <= L * (P - next)
  BY <1>2, <1>4, DammSellBound
<1> HIDE DEF next, raw
<1>8. out \in Nat /\ out <= raw
  <2>1. LessFee(raw, fee) \in 0..raw
    BY <1>3, <1>7, LessFeeBound
  <2> QED BY <2>1, <1>7
<1> HIDE DEF out
<1>9. (held - tokens) * (next * P0) <= L * (next - P0)
  BY <1>2, <1>4, <1>7, DammHeldAfterSell
<1>10. L * (next - P0) <= (paid - (got + out)) * Resolution
  <2>1. L * (next - P0) = L * (P - P0) - L * (P - next)
    BY <1>2, <1>7
  <2>2. (paid - (got + out)) * Resolution = (paid - got) * Resolution - Resolution * out
    BY <1>1, <1>2, <1>8
  <2>3. Resolution * out <= Resolution * raw
    BY <1>2, <1>7, <1>8
  <2> DEFINE a == L * (P - P0)
             b == L * (P - next)
             c == (paid - got) * Resolution
             d == Resolution * out
             e == Resolution * raw
  <2>4. a \in Int /\ b \in Int /\ c \in Int /\ d \in Int /\ e \in Int /\ a <= c /\ d <= e /\ e <= b
    BY <2>3, <1>1, <1>2, <1>7, <1>8
  <2>5. L * (next - P0) = a - b /\ (paid - (got + out)) * Resolution = c - d
    BY <2>1, <2>2
  <2> HIDE DEF a, b, c, d, e
  <2>6. a - b <= c - d
    BY ONLY <2>4
  <2> QED BY <2>5, <2>6
<1>11. pool' = [price |-> next] /\ pool'.price = next /\ got' = got + out
  BY <1>5, <1>6
<1>12. held - tokens \in Nat /\ got + out \in Int
  BY <1>2, <1>4, <1>8
<1> QED BY <1>6, <1>7, <1>9, <1>10, <1>11, <1>12 DEF DammInv, L, P0

\* The price is never below the first one, so more has been paid than got.
LEMMA DammPaid ==
    ASSUME PaidInv, DammInv, venue.kind = "damm"
    PROVE  got <= paid
<1> DEFINE L == venue.liquidity
           z == L * (pool.price - venue.price)
           h == held * (pool.price * venue.price)
<1>1. DammMarket(venue) /\ paid \in Nat
  BY DammMarkets DEF PaidInv
<1>2. /\ L \in Nat \ {0} /\ venue.price \in Nat \ {0} /\ pool.price \in Nat \ {0}
      /\ held \in Nat /\ got \in Int /\ Resolution \in Nat \ {0}
      /\ h <= z /\ z <= (paid - got) * Resolution
  BY <1>1, QuoteAssumption DEF DammMarket, DammInv, Resolution
<1>3. h >= 0 /\ h \in Int /\ z \in Int
  <2> HIDE DEF L
  <2> QED BY <1>2
<1> HIDE DEF h, z
<1> DEFINE d == paid - got
<1>4. d \in Int /\ d * Resolution >= 0
  BY <1>1, <1>2, <1>3
<1> HIDE DEF d
<1>5. d >= 0
  <2>1. SUFFICES ASSUME d <= -1 PROVE FALSE
    BY <1>4
  <2>2. d * Resolution <= -Resolution
    BY <2>1, <1>2, <1>4
  <2> QED BY <2>2, <1>2, <1>4
<1> QED BY <1>1, <1>2, <1>5 DEF d

-----------------------------------------------------------------------------
(* The trades                                                              *)

\* The inductive invariant.  NoProfitFromRounding and ReservesHold say nothing of what
\* the pool has been paid for what it gave, which is what keeps a later sale in bounds.
TradesInv == PaidInv /\ PumpInv /\ BonkInv /\ DammInv

\* A new pool has been paid nothing and has given nothing.
LEMMA TradesStart == TradesInit => TradesInv
<1> SUFFICES ASSUME TradesInit PROVE TradesInv
  OBVIOUS
<1>1. /\ venue \in Markets /\ pool = NewPool(venue) /\ paid = 0 /\ got = 0 /\ held = 0
      /\ request = 0 /\ now = 0 /\ trades = 0
  BY DEF TradesInit
<1>2. PaidInv
  BY <1>1 DEF PaidInv
<1>3. PumpInv
  <2> SUFFICES ASSUME venue.kind = "pump" PROVE PumpInv
    BY DEF PumpInv
  <2>1. venue \in PumpMarket
    BY <1>1, PumpMarkets
  <2>2. pool = [vt |-> venue.vt, vs |-> venue.vs, rt |-> venue.rt, rs |-> 0]
    BY <1>1 DEF NewPool
  <2>3. venue.vt \in Nat /\ venue.vs \in Nat /\ venue.rt \in Nat
    BY <2>1 DEF PumpMarket
  <2> QED BY <1>1, <2>2, <2>3 DEF PumpInv, PumpKept, PumpPool
<1>4. BonkInv
  <2> SUFFICES ASSUME venue.kind = "bonk" PROVE BonkInv
    BY DEF BonkInv
  <2>1. venue.sell \in Nat
    BY <1>1, BonkMarkets DEF BonkMarket
  <2>2. pool \in BonkPool /\ CurveInv(venue, pool) /\ pool.ra = 0 /\ pool.rb = 0
    BY <1>1, BonkNewPool
  <2> QED BY <1>1, <2>1, <2>2 DEF BonkInv
<1>5. DammInv
  <2> SUFFICES ASSUME venue.kind = "damm" PROVE DammInv
    BY DEF DammInv
  <2>1. venue.price \in Nat \ {0} /\ venue.liquidity \in Nat \ {0}
    BY <1>1, DammMarkets DEF DammMarket
  <2>2. pool = [price |-> venue.price]
    BY <1>1 DEF NewPool
  <2>3. Resolution \in Nat
    BY QuoteAssumption DEF Resolution
  <2>4. pool.price - venue.price = 0
    BY <2>1, <2>2
  <2> QED BY <1>1, <2>1, <2>2, <2>3, <2>4 DEF DammInv
<1> QED BY <1>2, <1>3, <1>4, <1>5 DEF TradesInv

\* The kinds of market do not share an invariant.
LEMMA OtherKinds ==
    ASSUME venue' = venue
    PROVE  /\ venue.kind # "pump" => PumpInv'
           /\ venue.kind # "bonk" => BonkInv'
           /\ venue.kind # "damm" => DammInv'
BY DEF PumpInv, BonkInv, DammInv

\* What one step does: it keeps the invariant and stays within its request.
LEMMA TradesStep ==
    TradesInv /\ [TradesNext]_tradeVars => TradesInv' /\ [paid' - paid <= request']_<<paid, trades>>
<1> SUFFICES ASSUME TradesInv, [TradesNext]_tradeVars
             PROVE  TradesInv' /\ [paid' - paid <= request']_<<paid, trades>>
  OBVIOUS
<1> DEFINE Goal == TradesInv' /\ [paid' - paid <= request']_<<paid, trades>>
<1>1. /\ PaidInv /\ PumpInv /\ BonkInv /\ DammInv
      /\ venue \in Markets /\ paid \in Nat /\ request \in Nat /\ trades \in Nat /\ now \in Nat
  BY DEF TradesInv, PaidInv
<1>2. MaxPay \in Nat
  BY MarketAssumption
<1>3. ASSUME venue' = venue, now' = now, trades' = trades + 1, paid' \in Nat, request' \in Nat,
             paid' - paid <= request', PumpInv', BonkInv', DammInv'
      PROVE  Goal
  <2>1. PaidInv'
    BY <1>1, <1>3 DEF PaidInv
  <2>2. TradesInv'
    BY <1>3, <2>1 DEF TradesInv
  <2>3. [paid' - paid <= request']_<<paid, trades>>
    BY <1>3
  <2> QED BY <2>2, <2>3
<1> HIDE DEF Goal
<1>4. ASSUME NEW spend \in 1..MaxPay, PumpDevBuy(spend) \/ PumpBuy(spend)
      PROVE  Goal
  <2> DEFINE tokens == PumpBuyTokens(venue, pool, spend)
  <2>1. /\ venue.kind = "pump" /\ request' = spend
        /\ Bought(spend, tokens, PumpAfterBuy(pool, tokens))
    BY <1>4 DEF PumpDevBuy, PumpBuy
  <2>2. spend \in Nat \ {0}
    BY <1>2
  <2>3. PumpInv'
    BY <1>1, <2>1, <2>2, PumpSpent
  <2> HIDE DEF tokens
  <2>4. paid' = paid + spend /\ venue' = venue /\ now' = now /\ trades' = trades + 1
    BY <2>1 DEF Bought
  <2> QED BY <1>1, <1>3, <2>1, <2>2, <2>3, <2>4, OtherKinds
<1>5. ASSUME NEW tokens \in 1..MaxPay, PumpDevBuyTokens(tokens)
      PROVE  Goal
  <2> DEFINE cost == PumpBuyCost(venue, pool, tokens)
  <2>1. /\ venue.kind = "pump" /\ request' = cost /\ venue' = venue
        /\ now' = now /\ trades' = trades + 1
    BY <1>5 DEF PumpDevBuyTokens, Bought, LaunchRefused
  <2>2. PumpInv' /\ cost \in Nat /\ paid' \in {paid, paid + cost}
    BY <1>1, <1>2, <1>5, PumpTokensBought
  <2> HIDE DEF cost
  <2>3. paid \in Nat /\ cost \in Nat /\ request' = cost /\ (paid' = paid \/ paid' = paid + cost)
    BY ONLY <1>1, <2>1, <2>2, Zenon
  <2>4. paid' \in Nat /\ paid' - paid <= request'
    BY ONLY <2>3, SMT
  <2> QED BY <1>1, <1>3, <2>1, <2>2, <2>4, OtherKinds
<1>6. ASSUME NEW spend \in Nat, venue.kind = "bonk", request' = spend,
             LET details == BonkFollowBuy(venue, pool, spend)
             IN  Bought(details.gross, details.tokens, BonkAfterBuy(pool, details))
      PROVE  Goal
  <2> DEFINE gross == BonkFollowBuy(venue, pool, spend).gross
  <2>1. paid' = paid + gross /\ venue' = venue /\ now' = now /\ trades' = trades + 1
    BY <1>6 DEF Bought
  <2>2. BonkInv' /\ gross \in Nat /\ gross <= spend
    BY <1>1, <1>6, BonkBought
  <2> HIDE DEF gross
  <2> QED BY <1>1, <1>3, <1>6, <2>1, <2>2, OtherKinds
<1>7. ASSUME NEW spend \in 1..MaxPay, BonkBuy(spend)
      PROVE  Goal
  BY <1>2, <1>6, <1>7 DEF BonkBuy
<1>8. ASSUME NEW tokens \in 1..MaxPay, BonkDevBuyTokens(tokens)
      PROVE  Goal
  <2> DEFINE cost == BonkExactOut(venue, pool, tokens)
             t == Least(tokens, BonkLeft(venue, pool))
             n == BonkBuyOut(venue, pool, t)
  <2>1. /\ venue.kind = "bonk" /\ trades = 0 /\ cost # None /\ request' = cost
        /\ LET details == BonkFollowBuy(venue, pool, cost)
           IN  Bought(details.gross, details.tokens, BonkAfterBuy(pool, details))
    BY <1>8 DEF BonkDevBuyTokens
  <2>2. /\ venue \in BonkMarket /\ pool \in BonkPool /\ CurveInv(venue, pool)
        /\ pool.ra <= venue.sell /\ venue.sell \in Nat /\ pool.ra = 0 /\ pool.rb = 0
    BY <1>1, <2>1, BonkState
  <2>3. t \in Nat
    <3>1. tokens \in Nat /\ BonkLeft(venue, pool) \in Nat
      BY <1>2, <2>2 DEF BonkLeft
    <3> QED BY <3>1 DEF Least
  <2>4. cost = IF n = None THEN None ELSE BonkPreFee(venue, n)
    BY DEF BonkExactOut
  <2>5. n # None /\ cost = BonkPreFee(venue, n)
    BY <2>1, <2>4
  <2> HIDE DEF t
  <2>6. n \in Nat
    BY <2>2, <2>3, <2>5, BonkBuyOutBound
  <2> HIDE DEF n
  <2>7. cost \in Nat
    <3>1. n \in Int
      BY <2>6
    <3>2. BonkPreFee(venue, n) \in Nat
      BY <2>2, <2>6, <3>1, BonkPreFeeBound
    <3> QED BY <2>5, <3>2
  <2> HIDE DEF cost
  <2> QED BY <1>6, <2>1, <2>7
<1>9. ASSUME venue' = venue, now' = now, trades' = trades + 1, paid' = paid, request' = request,
             PumpInv', BonkInv', DammInv'
      PROVE  Goal
  BY <1>1, <1>3, <1>9
<1>10. ASSUME NEW tokens \in 1..held, PumpSell(tokens)
       PROVE  Goal
  <2>1. /\ venue.kind = "pump" /\ venue' = venue /\ now' = now /\ trades' = trades + 1
        /\ paid' = paid /\ request' = request
    BY <1>10 DEF PumpSell, Sold
  <2>2. PumpInv'
    BY <1>1, <1>10, PumpSold
  <2> QED BY <1>9, <2>1, <2>2, OtherKinds
<1>11. ASSUME NEW tokens \in 1..held, BonkSell(tokens)
       PROVE  Goal
  <2>1. /\ venue.kind = "bonk" /\ venue' = venue /\ now' = now /\ trades' = trades + 1
        /\ paid' = paid /\ request' = request
    BY <1>11 DEF BonkSell, Sold
  <2>2. BonkInv'
    BY <1>1, <1>11, BonkSold
  <2> QED BY <1>9, <2>1, <2>2, OtherKinds
<1>12. ASSUME NEW spend \in 1..MaxPay, BagsBuy(spend)
       PROVE  Goal
  <2>1. /\ venue.kind \in {"dbc", "damm"} /\ venue' = venue /\ now' = now
        /\ trades' = trades + 1 /\ paid' = paid + spend /\ request' = spend
    BY <1>12 DEF BagsBuy, Bought
  <2>2. spend \in Nat
    BY <1>2
  <2>3. venue.kind = "damm" => DammInv'
    BY <1>1, <1>12, <2>2, DammBought
  <2> QED BY <1>1, <1>3, <2>1, <2>2, <2>3, OtherKinds
<1>13. ASSUME NEW tokens \in 1..held, BagsSell(tokens)
       PROVE  Goal
  <2>1. /\ venue.kind \in {"dbc", "damm"} /\ venue' = venue /\ now' = now
        /\ trades' = trades + 1 /\ paid' = paid /\ request' = request
    BY <1>13 DEF BagsSell, Sold
  <2>2. venue.kind = "damm" => DammInv'
    BY <1>1, <1>13, DammSold
  <2> QED BY <1>9, <2>1, <2>2, OtherKinds
<1>14. ASSUME Passes PROVE Goal
  <2>1. /\ now' = now + 1
        /\ UNCHANGED <<venue, pool, paid, got, held, request, trades>>
    BY <1>14 DEF Passes
  <2>2. TradesInv'
    BY <1>1, <2>1 DEF TradesInv, PaidInv, PumpInv, PumpKept, PumpRefused, BonkInv, DammInv
  <2> QED BY <2>1, <2>2 DEF Goal
<1>15. ASSUME UNCHANGED tradeVars PROVE Goal
  <2>1. UNCHANGED <<venue, pool, paid, got, held, request, now, trades>>
    BY <1>15 DEF tradeVars
  <2>2. TradesInv'
    BY <1>1, <2>1 DEF TradesInv, PaidInv, PumpInv, PumpKept, PumpRefused, BonkInv, DammInv
  <2> QED BY <2>1, <2>2 DEF Goal
<1>16. Goal
  <2>1. CASE TradesNext
    BY <2>1, <1>4, <1>5, <1>7, <1>8, <1>10, <1>11, <1>12, <1>13, <1>14, Zenon DEF TradesNext
  <2>2. TradesNext \/ UNCHANGED tradeVars
    OBVIOUS
  <2> QED BY <2>1, <2>2, <1>15, Zenon
<1> QED BY <1>16 DEF Goal

(* The invariant of the trades, for every set of markets and every number  *)
(* and order of purchases and sales.                                       *)
THEOREM TradesInvHolds == TradesSpec => []TradesInv
<1>1. TradesInv /\ [TradesNext]_tradeVars => TradesInv'
  BY TradesStep
<1> QED BY <1>1, TradesStart, PTL DEF TradesSpec

(* No chain of purchases and sales sells more than the curve has or takes  *)
(* out what has not been paid: the reserves of quote_buy_tokens_from_curve *)
(* and bonk_follow_buy_quote_details stay those of a curve.                *)
THEOREM ReservesHoldHolds == TradesSpec => []ReservesHold
<1>1. TradesInv => ReservesHold
  <2> SUFFICES ASSUME TradesInv PROVE ReservesHold
    OBVIOUS
  <2>1. ASSUME venue.kind = "pump" PROVE pool.rt >= 0 /\ pool.rs >= 0 /\ held <= venue.rt
    <3>1. venue.rt \in Nat
      BY <2>1, PumpMarkets DEF TradesInv, PaidInv, PumpMarket
    <3>2. pool.rt \in Nat /\ pool.rs \in Nat /\ held \in Nat
          /\ (held = 0 \/ pool.rt = venue.rt - held)
      BY <2>1 DEF TradesInv, PumpInv, PumpKept, PumpRefused, PumpPool
    <3> QED BY <3>1, <3>2
  <2>2. ASSUME venue.kind = "bonk" PROVE pool.ra <= venue.sell /\ pool.rb >= 0
    BY <2>2, BonkState DEF TradesInv
  <2> QED BY <2>1, <2>2 DEF ReservesHold
<1> QED BY <1>1, TradesInvHolds, PTL

(* No purchase is quoted to cost more than it was asked to spend, on any   *)
(* curve, and also when the curve ends within it.                          *)
THEOREM SpendsWithinRequestHolds == TradesSpec => SpendsWithinRequest
<1>1. TradesInv /\ [TradesNext]_tradeVars => [paid' - paid <= request']_<<paid, trades>>
  BY TradesStep
<1> QED BY <1>1, TradesInvHolds, PTL DEF TradesSpec, SpendsWithinRequest

(* On Pump, on the three curves of Bonk and on the DAMM pool no chain of   *)
(* trades is quoted more than it was quoted to pay.  The walk along the    *)
(* pieces of a DBC curve is left to the runs.                              *)
THEOREM NoProfitOnCurves ==
    TradesSpec => [](venue.kind \in {"pump", "bonk", "damm"} => NoProfitFromRounding)
<1>1. TradesInv => (venue.kind \in {"pump", "bonk", "damm"} => NoProfitFromRounding)
  <2> SUFFICES ASSUME TradesInv, venue.kind \in {"pump", "bonk", "damm"} PROVE got <= paid
    BY DEF NoProfitFromRounding
  <2>1. paid \in Nat
    BY DEF TradesInv, PaidInv
  <2>2. CASE venue.kind = "pump"
    <3>1. pool.rs \in Nat /\ got \in Int /\ (got <= paid \/ pool.rs <= paid - got)
      BY <2>2 DEF TradesInv, PumpInv, PumpKept, PumpRefused, PumpPool
    <3> QED BY <2>1, <3>1
  <2>3. CASE venue.kind = "bonk"
    <3>1. pool.rb \in Nat /\ pool.rb <= paid - got /\ got \in Int
      BY <2>3, BonkState DEF TradesInv
    <3> QED BY <2>1, <3>1
  <2>4. CASE venue.kind = "damm"
    BY <2>4, DammPaid DEF TradesInv
  <2> QED BY <2>2, <2>3, <2>4
<1> QED BY <1>1, TradesInvHolds, PTL

-----------------------------------------------------------------------------
(* The top-up: its inductive invariant                                     *)

Searching == {"expand", "narrow", "requote", "compiled"}

\* The search stays within what may be spent. That the lower end is positive
\* is what keeps its middle from being 0.
SearchInv ==
    /\ pc \in Searching => high \in 1..most
    /\ pc \in {"expand", "narrow"} => low >= 1

\* While nobody else uses the wallet, what was read of it is what it holds.
ReadInv ==
    /\ pc \in {"sol", "setup"} \union Searching /\ ~touched => usd = usdRead
    /\ pc \in {"setup"} \union Searching /\ ~touched => sol = most + Reserve
    /\ pc = "alone" /\ ~touched => usd >= Required

\* What the swap must pay covers what is lacking, so the balance it leaves is
\* enough. The second quote guarantees it: the copy of the pool it was made
\* with may be another one than that of the search.
CoverInv ==
    /\ pc = "compiled" => minOut >= Short
    /\ pc = "swapped" /\ ~touched => usd >= Required /\ sol >= Reserve
    /\ pc = "unfunded" => touched

TopUpInv == TopUpTypeOK /\ SearchInv /\ ReadInv /\ CoverInv

-----------------------------------------------------------------------------
(* The top-up: arithmetic of the search                                    *)

\* The middle of two ends lies between them, and below the upper one.
LEMMA MiddleWithin ==
    ASSUME NEW l \in Nat, NEW h \in Nat, 1 <= l, l < h
    PROVE  (l + h) \div 2 \in l..(h - 1)
OBVIOUS

\* What is assumed of the amounts and bounds.
LEMMA Parameters ==
    /\ MaxSol \in Nat /\ Required \in Nat /\ Reserve \in Nat
    /\ Iterations \in Nat /\ MaxOthers \in Nat
    /\ UsdHeld \subseteq Nat /\ SolHeld \subseteq 0..MaxSol
BY TopUpAssumption

\* The pool gives a natural number for whatever may be put in.
LEMMA OutIsNat ==
    ASSUME NEW p \in Pools, NEW n \in 0..MaxSol
    PROVE  Out[p][n] \in Nat
BY TopUpAssumption

\* Loading gives a state of the pool, and leaves one copy in the cache.
LEMMA LoadTyped ==
    ASSUME TopUpTypeOK, Load
    PROVE  /\ setup' \in Pools
           /\ cache' = {} \/ \E p \in Pools : cache' = {p}
<1>1. CASE cache = {}
  BY <1>1 DEF Load, TopUpTypeOK
<1>2. CASE cache # {}
  BY <1>2 DEF Load, TopUpTypeOK
<1> QED BY <1>1, <1>2

-----------------------------------------------------------------------------
(* The steps                                                               *)

\* Nothing is read, searched or bought yet.
LEMMA TopUpInitInv == TopUpInit => TopUpInv
<1> SUFFICES ASSUME TopUpInit PROVE TopUpInv
  OBVIOUS
<1>1. TopUpTypeOK
  <2>1. usd \in Nat /\ sol \in 0..MaxSol
    BY Parameters DEF TopUpInit
  <2>2. cache = {} \/ \E p \in Pools : cache = {p}
    BY DEF TopUpInit
  <2>3. pc \in {"usd", "prepare"} /\ setup \in Pools
    BY DEF TopUpInit
  <2>4. /\ usdRead \in Nat /\ most \in 0..MaxSol /\ low \in Nat /\ high \in 0..MaxSol
        /\ quote \in Nat /\ tries \in 0..Iterations /\ minOut \in Nat
        /\ others \in 0..MaxOthers
    BY Parameters DEF TopUpInit
  <2> QED BY <2>1, <2>2, <2>3, <2>4 DEF TopUpInit, TopUpTypeOK
<1>2. SearchInv /\ ReadInv /\ CoverInv
  BY DEF TopUpInit, SearchInv, ReadInv, CoverInv, Searching
<1> QED BY <1>1, <1>2 DEF TopUpInv

\* The balances are read.
LEMMA ReadingInv ==
    ASSUME TopUpInv, LookUsd \/ ReadUsd \/ ReadSol
    PROVE  TopUpInv'
<1> USE DEF TopUpInv, TopUpTypeOK, SearchInv, ReadInv, CoverInv, Searching,
                            Short, balances, search
<1>1. CASE LookUsd
  <2>1. CASE usd >= Required
    BY <1>1, <2>1, Parameters DEF LookUsd
  <2>2. CASE ~(usd >= Required)
    <3>1. pc' = "prepare" /\ usdRead' = usd /\ touched' = FALSE
      BY <1>1, <2>2 DEF LookUsd
    <3> QED BY <1>1, <3>1 DEF LookUsd
  <2> QED BY <2>1, <2>2
<1>2. CASE ReadUsd
  <2>1. /\ usdRead' = usd /\ touched' = FALSE
        /\ pc' \in {"sol", "failed", "alone"} /\ (pc' = "alone" => ~(usd < Required))
    BY <1>2 DEF ReadUsd
  <2>2. TopUpTypeOK'
    BY <1>2, <2>1 DEF ReadUsd
  <2>3. pc' = "alone" => usd' >= Required
    BY <1>2, <2>1, Parameters DEF ReadUsd
  <2> QED BY <1>2, <2>1, <2>2, <2>3 DEF ReadUsd
<1>3. CASE ReadSol
  BY <1>3, Parameters DEF ReadSol
<1> QED BY <1>1, <1>2, <1>3

\* The search, from the first guess to the buffer: the input stays within what
\* may be spent, and the balances are left alone.
LEMMA SearchingInv ==
    ASSUME TopUpInv,
           LoadAndGuess \/ Double \/ CannotSatisfy \/ Found \/ Halve \/ AddBuffer
    PROVE  TopUpInv'
<1>t. TopUpTypeOK /\ SearchInv /\ ReadInv /\ CoverInv
  BY DEF TopUpInv
<1>n. most \in Nat /\ low \in Nat /\ high \in Nat /\ MaxSol \in Nat /\ most <= MaxSol
  BY <1>t, Parameters DEF TopUpTypeOK
<1> DEFINE Kept == /\ UNCHANGED <<follow, balances, route, usdRead, most, minOut, touched, others>>
                   /\ TopUpTypeOK' /\ SearchInv'
                   /\ pc \in {"setup", "expand", "narrow"}
                   /\ pc' \in {"expand", "narrow", "requote", "failed"}
<1>1. Kept => TopUpInv'
  BY <1>t DEF TopUpInv, ReadInv, CoverInv, Searching, balances
<1>2. CASE LoadAndGuess
  <2>1. PICK guess \in 1..most : high' = guess /\ quote' = Out[setup'][guess]
    BY <1>2 DEF LoadAndGuess
  <2>2. setup' \in Pools /\ (cache' = {} \/ \E p \in Pools : cache' = {p})
    BY <1>2, <1>t, LoadTyped DEF LoadAndGuess
  <2>3. quote' \in Nat
    BY <2>1, <2>2, <1>n, OutIsNat
  <2> QED BY <1>1, <1>2, <1>t, <1>n, <2>1, <2>2, <2>3, Parameters
          DEF LoadAndGuess, TopUpTypeOK, SearchInv, Searching, balances
<1>3. CASE Double
  <2>1. high' \in 1..most
    BY <1>3, <1>t, <1>n DEF Double, SearchInv, Searching
  <2>2. quote' \in Nat
    BY <1>3, <1>t, <1>n, <2>1, OutIsNat DEF Double, TopUpTypeOK
  <2> QED BY <1>1, <1>3, <1>t, <1>n, <2>1, <2>2
          DEF Double, TopUpTypeOK, SearchInv, Searching, balances
<1>4. CASE CannotSatisfy
  BY <1>1, <1>4, <1>t DEF CannotSatisfy, Fail, TopUpTypeOK, SearchInv, Searching, balances, search
<1>5. CASE Found
  BY <1>1, <1>5, <1>t DEF Found, TopUpTypeOK, SearchInv, Searching, balances, search
<1>6. CASE Halve
  <2> DEFINE mid == (low + high) \div 2
  <2>0. tries # Iterations /\ ~(low >= high)
    BY <1>6 DEF Halve, Narrowed
  <2>1. mid \in low..(high - 1) /\ mid \in 1..most /\ 1 <= low
    BY <1>6, <1>t, <1>n, <2>0, MiddleWithin DEF Halve, SearchInv, Searching
  <2>2. Out[setup][mid] \in Nat
    BY <1>t, <1>n, <2>1, OutIsNat DEF TopUpTypeOK
  <2>3. /\ high' \in 1..most /\ low' \in Nat /\ low' >= 1 /\ quote' \in Nat
    <3> HIDE DEF mid
    <3>1. \/ high' = mid /\ quote' = Out[setup][mid] /\ low' = low
          \/ low' = mid + 1 /\ high' = high /\ quote' = quote
      BY <1>6 DEF Halve, mid
    <3> QED BY <1>6, <1>t, <1>n, <2>1, <2>2, <3>1 DEF Halve, TopUpTypeOK, SearchInv, Searching
  <2>4. tries' \in 0..Iterations
    BY <1>6, <1>t, <2>0, Parameters DEF Halve, TopUpTypeOK
  <2> HIDE DEF mid
  <2> QED BY <1>1, <1>6, <1>t, <1>n, <2>3, <2>4
          DEF Halve, TopUpTypeOK, SearchInv, Searching, balances
<1>7. CASE AddBuffer
  <2>1. Buffer(high) \in Nat
    BY <1>t, TopUpAssumption DEF TopUpTypeOK
  <2>2. Buffered \in 1..most
    BY <1>7, <1>t, <1>n, <2>1 DEF AddBuffer, Buffered, SearchInv, Searching
  <2>3. Out[setup][Buffered] \in Nat
    BY <1>t, <1>n, <2>2, OutIsNat DEF TopUpTypeOK
  <2> QED BY <1>1, <1>7, <1>t, <1>n, <2>2, <2>3
          DEF AddBuffer, TopUpTypeOK, SearchInv, Searching, balances
<1> QED BY <1>2, <1>3, <1>4, <1>5, <1>6, <1>7

\* The second quote covers what is lacking, or there is no swap.
LEMMA RequoteInv ==
    ASSUME TopUpInv, Requote
    PROVE  TopUpInv'
<1>t. TopUpTypeOK /\ SearchInv /\ ReadInv /\ CoverInv
  BY DEF TopUpInv
<1>1. setup' \in Pools /\ (cache' = {} \/ \E p \in Pools : cache' = {p})
  BY <1>t, LoadTyped DEF Requote
<1>2. minOut' \in Nat
  BY <1>1, <1>t, OutIsNat DEF Requote, TopUpTypeOK
<1>3. pc' \in {"failed", "compiled"} /\ (pc' = "compiled" => minOut' >= Short)
  BY <1>2, <1>t, Parameters DEF Requote, TopUpTypeOK, Short
<1> QED BY <1>1, <1>2, <1>3, <1>t
        DEF Requote, TopUpInv, TopUpTypeOK, SearchInv, ReadInv, CoverInv, Searching, Short,
            balances, search

\* A swap that lands pays the minimum at least.
LEMMA SwapInv ==
    ASSUME TopUpInv, SwapLands
    PROVE  TopUpInv'
<1>t. TopUpTypeOK /\ SearchInv /\ ReadInv /\ CoverInv
  BY DEF TopUpInv
<1>1. Out[route][high] \in Nat
  BY <1>t, OutIsNat DEF TopUpTypeOK
<1>2. CASE pc' = "swapped"
  <2>1. /\ Out[route][high] >= minOut /\ sol >= high
        /\ usd' = usd + Out[route][high] /\ sol' = sol - high
    BY <1>2 DEF SwapLands
  <2>2. ~touched => usd' >= Required /\ sol' >= Reserve
    BY <2>1, <1>1, <1>t, Parameters
       DEF SwapLands, TopUpTypeOK, SearchInv, ReadInv, CoverInv, Searching, Short
  <2>3. usd' \in Nat /\ sol' \in 0..MaxSol
    BY <2>1, <1>1, <1>t, Parameters DEF TopUpTypeOK
  <2> QED BY <1>2, <1>t, <2>2, <2>3
          DEF SwapLands, TopUpInv, TopUpTypeOK, SearchInv, ReadInv, CoverInv, Searching, search
<1>3. CASE pc' = "failed" /\ UNCHANGED balances
  BY <1>3, <1>t DEF SwapLands, TopUpInv, TopUpTypeOK, SearchInv, ReadInv, CoverInv, Searching,
                    balances, search
<1> QED BY <1>2, <1>3 DEF SwapLands

\* The purchase takes what it finds and ends the top-up.
LEMMA PurchaseInv ==
    ASSUME TopUpInv, Purchase
    PROVE  TopUpInv'
BY Parameters
   DEF Purchase, TopUpInv, TopUpTypeOK, SearchInv, ReadInv, CoverInv, Searching, search

\* What others do, at any moment.
LEMMA OthersInv ==
    ASSUME TopUpInv, PoolMoves \/ CacheExpires \/ WalletUsed
    PROVE  TopUpInv'
<1> USE DEF TopUpInv, TopUpTypeOK, SearchInv, ReadInv, CoverInv, Searching,
                            Short, balances, search, Busy
<1>1. CASE PoolMoves
  BY <1>1, Parameters DEF PoolMoves
<1>2. CASE CacheExpires
  BY <1>2, Parameters DEF CacheExpires
<1>3. CASE WalletUsed
  BY <1>3, Parameters DEF WalletUsed
<1> QED BY <1>1, <1>2, <1>3

-----------------------------------------------------------------------------
(* The theorems of the top-up                                             *)

\* In every behaviour of the top-up the search stays within what may be spent,
\* what was read of an untouched wallet is what it holds, and what the compiled
\* swap must pay covers the shortfall.
THEOREM TopUpInvHolds == TopUpSpec => []TopUpInv
<1>1. TopUpInit => TopUpInv
  BY TopUpInitInv
<1>2. TopUpInv /\ [TopUpNext]_topUpVars => TopUpInv'
  <2>1. TopUpInv /\ TopUpNext => TopUpInv'
    BY ReadingInv, SearchingInv, RequoteInv, SwapInv, PurchaseInv, OthersInv DEF TopUpNext
  <2>2. TopUpInv /\ UNCHANGED topUpVars => TopUpInv'
    BY DEF topUpVars, balances, search, TopUpInv, TopUpTypeOK, SearchInv, ReadInv, CoverInv,
           Searching, Short
  <2> QED BY <2>1, <2>2
<1> QED BY <1>1, <1>2, PTL DEF TopUpSpec

\* Every purchase whose top-up has landed is funded, and every swap leaves the
\* SOL that must remain (native_prepare_bonk_usd1_topup), unless others have
\* used the wallet since its balance was read.
THEOREM LandedIsFundedHolds == TopUpSpec => []LandedIsFunded
<1>1. TopUpInv => LandedIsFunded
  BY DEF TopUpInv, CoverInv, LandedIsFunded
<1> QED BY <1>1, TopUpInvHolds, PTL

=============================================================================
