------------------------- MODULE FollowTrade_proofs -------------------------
(***************************************************************************)
(* What the follow daemon compiles runs when nothing has changed, and      *)
(* leaves the wallet as its owner expects, proved for any number of        *)
(* actions of the wallet, of moves of others on the chain, and shares of a *)
(* balance.  First what the transactions of each launchpad do to a wallet, *)
(* instruction by instruction; then the inductive invariant: what has been *)
(* read so far, the kept copies and the compiled transaction are what they *)
(* would be now, as long as nothing has changed since.                     *)
(***************************************************************************)
EXTENDS FollowTrade, WellFoundedInduction, TLAPS

-----------------------------------------------------------------------------
(* The inductive invariant                                                 *)

Wallets == {w \in [Accounts -> Int] : \A a \in Accounts : w[a] >= Closed}

Pools ==
    [on : {"none", "curve", "damm"}, vault : {"none", "creator", "sharing"}]

StageNames == {"market", "damm", "amount", "input", "output"}

States == {"idle", "reading", "nothing", "refused", "sent", "landed", "reverted", "lost"}

\* The transaction aside, of which RecordOK says what it is.
IsRecord(r) ==
    /\ r = [todo |-> r.todo, state |-> r.state, side |-> r.side, percent |-> r.percent,
            prefer |-> r.prefer, known |-> r.known, pool |-> r.pool, amount |-> r.amount,
            seen |-> r.seen, clean |-> r.clean, tx |-> r.tx]
    /\ r.todo \in Seq(StageNames) /\ r.state \in States /\ r.side \in {"none", "buy", "sell"}
    /\ r.percent \in 0..100 /\ r.prefer \in BOOLEAN /\ r.known \in Int /\ r.known >= Closed
    /\ r.pool \in Pools /\ r.amount \in Nat /\ r.seen \subseteq Accounts /\ r.clean \in BOOLEAN

Markets ==
    [launchpad : {"pump", "bonk", "bagsapp"}, quote : {"sol", "usd1"},
     phase : {"curve", "complete", "migrated"}, vault : {"none", "creator", "sharing"},
     shared : BOOLEAN]

TradesTyped == trade = [t \in Trade |-> trade[t]] /\ \A t \in Trade : IsRecord(trade[t])

TradeTypes ==
    /\ market \in Markets
    /\ wallet \in Wallets /\ wallet["fresh"] = Closed
    /\ hot \in [BOOLEAN -> [pool : Pools, clean : BOOLEAN]]
    /\ kept \in [n : {i \in Int : i >= Closed}, clean : BOOLEAN]
    /\ TradesTyped

MarketOK ==
    /\ market.launchpad # "pump" => market.vault = "none" /\ ~market.shared
    /\ market.launchpad = "pump" => market.vault # "none"
    /\ market.shared => market.vault = "sharing"

\* What is kept and not spoiled is what would be read now.
CopiesOK ==
    /\ \A p \in BOOLEAN : hot[p].pool # NoPool =>
         /\ market.launchpad # "bagsapp"
         /\ hot[p].clean => hot[p].pool = CurveSeen(p)
    /\ kept.clean => kept.n \in {Closed, wallet["token"]}

Ahead(r) == IF r.state = "sent" THEN {} ELSE ToSet(r.todo)

\* A stage that is over has left what the transaction needs,
Done(r) ==
    /\ r.side \in {"buy", "sell"}
    /\ r.side = "sell" /\ "amount" \notin Ahead(r) => r.amount > 0
    /\ "damm" \in Ahead(r) => market.launchpad = "bagsapp"

\* and what would be read now.
UpToDate(r) ==
    /\ r.known \in {Closed, wallet["token"]}
    /\ Ahead(r) \intersect {"market", "damm"} = {} =>
         IF market.launchpad = "bagsapp"
         THEN \/ r.pool = CurveWith("none") /\ market.phase = "curve"
              \/ r.pool.on = "damm" /\ market.phase = "migrated"
         ELSE r.pool = CurveSeen(r.prefer)
    /\ "amount" \notin Ahead(r) =>
         /\ r.side = "sell" => r.amount <= wallet["token"]
         /\ r.side = "buy" /\ market.launchpad = "bonk" /\ market.quote = "usd1" =>
              r.amount = Lacking
    /\ market.launchpad = "bagsapp" =>
         LET input == IF r.side = "buy" THEN "wsol" ELSE "token"
             target == IF r.side = "buy" THEN "token" ELSE "wsol"
         IN  /\ "input" \notin Ahead(r) => (input \in r.seen <=> wallet[input] # Closed)
             /\ "output" \notin Ahead(r) => (target \in r.seen <=> wallet[target] # Closed)
             /\ input \in r.seen => wallet[input] # Closed
             /\ target \in r.seen => wallet[target] # Closed

\* What is compiled is complete, and as of now when nothing has changed.
RecordOK(r) ==
    r.state \in {"reading", "sent"} =>
        /\ Done(r)
        /\ r.state = "sent" => r.tx = Transaction(r)
        /\ r.clean => UpToDate(r)

ReadingOK == \A t \in Trade : RecordOK(trade[t])

TradeInv == TradeTypes /\ MarketOK /\ CopiesOK /\ ReadingOK

-----------------------------------------------------------------------------
(* Induction over positions                                                *)

LEMMA LessRel == OpToRel(<,Nat) = {ss \in Nat \X Nat : ss[1] < ss[2]}
BY DEF OpToRel

LEMMA SetInduction ==
    ASSUME NEW T \in SUBSET Nat, 0 \in T, \A n \in T : n + 1 \in T
    PROVE  T = Nat
<1> DEFINE Less == {ss \in Nat \X Nat : ss[1] < ss[2]}
           U == Nat \ T
<1> SUFFICES ASSUME U # {} PROVE FALSE
  OBVIOUS
<1>1. IsWellFoundedOn(Less, Nat)
  BY ONLY NatLessThanWellFounded, LessRel, Zenon
<1>2. PICK x \in U : \A y \in U : ~(<<y, x>> \in Less)
  <2>1. U \subseteq Nat
    OBVIOUS
  <2> HIDE DEF U, Less
  <2> QED BY <1>1, <2>1, WFMin
<1>3. x \in Nat /\ x # 0 /\ x - 1 \in Nat
  OBVIOUS
<1>4. <<x - 1, x>> \in Less
  BY <1>3
<1>5. x - 1 \in T
  BY <1>2, <1>3, <1>4
<1> QED BY <1>3, <1>5

-----------------------------------------------------------------------------
(* A transaction in a wallet                                               *)

IsRun(f, w, tx) ==
    f = [n \in 0..Len(tx) |-> IF n = 0 THEN w ELSE Step(f[n - 1], tx[n])]

\* The recursion of After defines a function.
LEMMA RunExists ==
    ASSUME NEW w, NEW tx, Len(tx) \in Nat
    PROVE  \E f : IsRun(f, w, tx)
<1> DEFINE Runs(n, f) == /\ f = [k \in 0..n |-> f[k]] /\ f[0] = w
                         /\ \A k \in 1..n : f[k] = Step(f[k - 1], tx[k])
           T == {n \in Nat : \E f : Runs(n, f)}
<1>1. 0 \in T
  <2> DEFINE f == [k \in 0..0 |-> w]
  <2>1. Runs(0, f)
    OBVIOUS
  <2> HIDE DEF Runs
  <2> QED BY <2>1
<1>2. ASSUME NEW n \in T PROVE n + 1 \in T
  <2>1. n \in Nat
    OBVIOUS
  <2>2. PICK f : Runs(n, f)
    <3> HIDE DEF Runs
    <3> QED OBVIOUS
  <2> DEFINE g == [k \in 0..(n + 1) |-> IF k <= n THEN f[k] ELSE Step(f[n], tx[n + 1])]
  <2>3. g = [k \in 0..(n + 1) |-> g[k]] /\ g[0] = w
    BY <2>1, <2>2
  <2>4. ASSUME NEW k \in 1..(n + 1) PROVE g[k] = Step(g[k - 1], tx[k])
    <3>1. k - 1 \in 0..n /\ g[k - 1] = f[k - 1]
      BY <2>1
    <3>2. CASE k <= n
      <4>1. k \in 1..n /\ g[k] = f[k]
        BY <2>1, <3>2
      <4>2. f[k] = Step(f[k - 1], tx[k])
        BY <2>2, <4>1
      <4> HIDE DEF g
      <4> QED BY <3>1, <4>1, <4>2
    <3>3. CASE ~(k <= n)
      <4>1. k = n + 1 /\ g[k] = Step(f[n], tx[n + 1]) /\ k - 1 = n
        BY <2>1, <3>3
      <4> HIDE DEF g
      <4> QED BY <3>1, <4>1
    <3> QED BY <3>2, <3>3
  <2> HIDE DEF g
  <2>5. Runs(n + 1, g)
    BY <2>3, <2>4
  <2> HIDE DEF Runs
  <2> QED BY <2>1, <2>5
<1>3. T = Nat
  <2>1. T \in SUBSET Nat
    OBVIOUS
  <2> HIDE DEF T
  <2> QED BY <1>1, <1>2, <2>1, SetInduction
<1>4. PICK f : Runs(Len(tx), f)
  <2> HIDE DEF Runs
  <2> QED BY <1>3
<1>5. f = [n \in 0..Len(tx) |-> f[n]]
  BY <1>4
<1>6. \A n \in 0..Len(tx) : f[n] = IF n = 0 THEN w ELSE Step(f[n - 1], tx[n])
  BY <1>4
<1>7. IsRun(f, w, tx)
  BY <1>5, <1>6 DEF IsRun
<1> QED BY <1>7

\* After is the last state of a run.
LEMMA AfterIs ==
    ASSUME NEW w, NEW tx, Len(tx) \in Nat
    PROVE  \E f : /\ f[0] = w /\ After(w, tx) = f[Len(tx)]
                  /\ \A n \in 1..Len(tx) : f[n] = Step(f[n - 1], tx[n])
<1> DEFINE f == CHOOSE f : IsRun(f, w, tx)
<1>1. IsRun(f, w, tx)
  BY RunExists, Zenon
<1>2. After(w, tx) = f[Len(tx)]
  BY Zenon DEF After, IsRun
<1> HIDE DEF f
<1>3. f[0] = w /\ \A n \in 1..Len(tx) : f[n] = Step(f[n - 1], tx[n])
  BY <1>1 DEF IsRun
<1> QED BY <1>2, <1>3

-----------------------------------------------------------------------------
(* One instruction                                                         *)

LEMMA FailedIs == Failed \notin Wallets /\ \A i : Step(Failed, i) = Failed
<1>1. \A i : Step(Failed, i) = Failed
  BY DEF Step
<1>2. Failed \notin Wallets
  BY DEF Failed, Wallets, Accounts, Closed
<1> QED BY <1>1, <1>2

LEMMA StepCreate ==
    ASSUME NEW w \in Wallets, NEW a \in Accounts
    PROVE  Step(w, Create(a)) = [w EXCEPT ![a] = IF w[a] = Closed THEN 0 ELSE w[a]]
           /\ Step(w, Create(a)) \in Wallets
<1> DEFINE i == Create(a)
<1>1. i.op = "create" /\ i.to = a
  BY DEF Create, Ix
<1>2. w # Failed
  BY FailedIs
<1> HIDE DEF i
<1>3. Step(w, i) = IF w[i.to] = Closed THEN [w EXCEPT ![i.to] = 0] ELSE w
  BY <1>1, <1>2, Zenon DEF Step
<1>4. [w EXCEPT ![a] = IF w[a] = Closed THEN 0 ELSE w[a]] =
        IF w[a] = Closed THEN [w EXCEPT ![a] = 0] ELSE w
  BY DEF Wallets
<1>5. [w EXCEPT ![a] = IF w[a] = Closed THEN 0 ELSE w[a]] \in Wallets
  BY DEF Wallets, Closed
<1> QED BY <1>1, <1>3, <1>4, <1>5 DEF i

LEMMA StepOpen ==
    ASSUME NEW w \in Wallets, NEW a \in Accounts, NEW n \in Nat
    PROVE  IF w[a] # Closed THEN Step(w, Open(a, n)) = Failed
           ELSE Step(w, Open(a, n)) = [w EXCEPT ![a] = n] /\ Step(w, Open(a, n)) \in Wallets
<1> DEFINE i == Open(a, n)
<1>1. i.op = "open" /\ i.to = a /\ i.n = n
  BY DEF Open, Ix
<1>2. w # Failed
  BY FailedIs
<1> HIDE DEF i
<1>3. Step(w, i) = IF w[i.to] # Closed THEN Failed ELSE [w EXCEPT ![i.to] = i.n]
  BY <1>1, <1>2, Zenon DEF Step
<1> QED BY <1>1, <1>3 DEF Wallets, Closed, i

LEMMA StepWrap ==
    ASSUME NEW w \in Wallets, NEW a \in Accounts, NEW n \in Nat
    PROVE  IF w[a] = Closed THEN Step(w, Wrap(a, n)) = Failed
           ELSE Step(w, Wrap(a, n)) = [w EXCEPT ![a] = w[a] + n] /\ Step(w, Wrap(a, n)) \in Wallets
<1> DEFINE i == Wrap(a, n)
<1>1. i.op = "wrap" /\ i.to = a /\ i.n = n
  BY DEF Wrap, Ix
<1>2. w # Failed
  BY FailedIs
<1> HIDE DEF i
<1>3. Step(w, i) = IF w[i.to] = Closed THEN Failed ELSE [w EXCEPT ![i.to] = @ + i.n]
  BY <1>1, <1>2, Zenon DEF Step
<1> QED BY <1>1, <1>3 DEF Wallets, Closed, i

LEMMA StepClose ==
    ASSUME NEW w \in Wallets, NEW a \in Accounts
    PROVE  IF w[a] = Closed THEN Step(w, Close(a)) = Failed
           ELSE Step(w, Close(a)) = [w EXCEPT ![a] = Closed] /\ Step(w, Close(a)) \in Wallets
<1> DEFINE i == Close(a)
<1>1. i.op = "close" /\ i.from = a
  BY DEF Close, Ix
<1>2. w # Failed
  BY FailedIs
<1> HIDE DEF i
<1>3. Step(w, i) = IF w[i.from] = Closed THEN Failed ELSE [w EXCEPT ![i.from] = Closed]
  BY <1>1, <1>2, Zenon DEF Step
<1> QED BY <1>1, <1>3 DEF Wallets, Closed, i

\* What comes out of a swap.
Brings(to, n) == IF to = "token" THEN 2 * n ELSE n

\* What a swap makes of the wallet w.
SwapMakes(w, v, pool, from, to, n) ==
    IF \/ ~Trading(pool)
       \/ from # "sol" /\ w[from] < n
       \/ to # "sol" /\ w[to] = Closed
    THEN v = Failed
    ELSE /\ v = [a \in Accounts |-> IF a = from THEN w[a] - n
                                    ELSE IF a = to THEN w[a] + Brings(to, n) ELSE w[a]]
         /\ v \in Wallets

LEMMA StepSwap ==
    ASSUME NEW w \in Wallets, NEW pool, NEW from \in Accounts \union {"sol"},
           NEW to \in Accounts \union {"sol"}, NEW n \in Nat, n > 0, from # to
    PROVE  SwapMakes(w, Step(w, Swap(pool, from, to, n)), pool, from, to, n)
<1> DEFINE i == Swap(pool, from, to, n)
           bad == \/ ~Trading(pool)
                  \/ from # "sol" /\ w[from] < n
                  \/ to # "sol" /\ w[to] = Closed
           next == [a \in Accounts |-> IF a = i.from THEN w[a] - i.n
                                       ELSE IF a = i.to THEN w[a] + Output(i) ELSE w[a]]
           plain == [a \in Accounts |-> IF a = from THEN w[a] - n
                                        ELSE IF a = to THEN w[a] + Brings(to, n) ELSE w[a]]
<1>1. i.op = "swap" /\ i.from = from /\ i.to = to /\ i.n = n /\ i.pool = pool
  BY DEF Swap, Ix
<1>2. w # Failed
  BY FailedIs
<1>3. Output(i) = Brings(to, n)
  BY <1>1 DEF Output, Brings
<1> HIDE DEF i
<1>4. Step(w, i) = IF \/ ~Trading(i.pool)
                      \/ i.from # "sol" /\ w[i.from] < i.n
                      \/ i.to # "sol" /\ w[i.to] = Closed
                   THEN Failed ELSE next
  BY <1>1, <1>2, Zenon DEF Step
<1>6. next = plain
  BY <1>1, <1>3
<1> HIDE DEF next
<1>7. ~bad => plain \in Wallets
  BY DEF Wallets, Accounts, Brings, Closed
<1> HIDE DEF plain
<1>8. Step(w, i) = IF bad THEN Failed ELSE plain
  BY <1>1, <1>4, <1>6
<1> QED BY <1>7, <1>8 DEF i, plain, SwapMakes

-----------------------------------------------------------------------------
(* Several instructions                                                    *)

LEMMA AfterNone ==
    ASSUME NEW w
    PROVE  After(w, <<>>) = w
<1>1. Len(<<>>) = 0
  OBVIOUS
<1> QED BY <1>1, AfterIs

LEMMA AfterOne ==
    ASSUME NEW w, NEW x
    PROVE  After(w, <<x>>) = Step(w, x)
<1> DEFINE tx == <<x>>
<1>1. Len(tx) = 1 /\ tx[1] = x
  OBVIOUS
<1> HIDE DEF tx
<1>2. PICK f : /\ f[0] = w /\ After(w, tx) = f[Len(tx)]
               /\ \A n \in 1..Len(tx) : f[n] = Step(f[n - 1], tx[n])
  <2>1. Len(tx) \in Nat
    BY <1>1
  <2> QED BY <2>1, AfterIs
<1>3. f[1] = Step(f[0], tx[1])
  BY <1>1, <1>2
<1> QED BY <1>1, <1>2, <1>3 DEF tx

LEMMA AfterTwo ==
    ASSUME NEW w, NEW x, NEW y
    PROVE  After(w, <<x, y>>) = Step(Step(w, x), y)
<1> DEFINE tx == <<x, y>>
<1>1. Len(tx) = 2 /\ tx[1] = x /\ tx[2] = y
  OBVIOUS
<1> HIDE DEF tx
<1>2. PICK f : /\ f[0] = w /\ After(w, tx) = f[Len(tx)]
               /\ \A n \in 1..Len(tx) : f[n] = Step(f[n - 1], tx[n])
  <2>1. Len(tx) \in Nat
    BY <1>1
  <2> QED BY <2>1, AfterIs
<1>3. f[1] = Step(f[0], tx[1]) /\ f[2] = Step(f[1], tx[2])
  BY <1>1, <1>2
<1> QED BY <1>1, <1>2, <1>3 DEF tx

LEMMA AfterThree ==
    ASSUME NEW w, NEW x, NEW y, NEW z
    PROVE  After(w, <<x, y, z>>) = Step(Step(Step(w, x), y), z)
<1> DEFINE tx == <<x, y, z>>
<1>1. Len(tx) = 3 /\ tx[1] = x /\ tx[2] = y /\ tx[3] = z
  OBVIOUS
<1> HIDE DEF tx
<1>2. PICK f : /\ f[0] = w /\ After(w, tx) = f[Len(tx)]
               /\ \A n \in 1..Len(tx) : f[n] = Step(f[n - 1], tx[n])
  <2>1. Len(tx) \in Nat
    BY <1>1
  <2> QED BY <2>1, AfterIs
<1>3. f[1] = Step(f[0], tx[1]) /\ f[2] = Step(f[1], tx[2]) /\ f[3] = Step(f[2], tx[3])
  BY <1>1, <1>2
<1> QED BY <1>1, <1>2, <1>3 DEF tx

LEMMA AfterFour ==
    ASSUME NEW w, NEW x, NEW y, NEW z, NEW u
    PROVE  After(w, <<x, y, z, u>>) = Step(Step(Step(Step(w, x), y), z), u)
<1> DEFINE tx == <<x, y, z, u>>
<1>1. Len(tx) = 4 /\ tx[1] = x /\ tx[2] = y /\ tx[3] = z /\ tx[4] = u
  OBVIOUS
<1> HIDE DEF tx
<1>2. PICK f : /\ f[0] = w /\ After(w, tx) = f[Len(tx)]
               /\ \A n \in 1..Len(tx) : f[n] = Step(f[n - 1], tx[n])
  <2>1. Len(tx) \in Nat
    BY <1>1
  <2> QED BY <2>1, AfterIs
<1>3. /\ f[1] = Step(f[0], tx[1]) /\ f[2] = Step(f[1], tx[2])
      /\ f[3] = Step(f[2], tx[3]) /\ f[4] = Step(f[3], tx[4])
  BY <1>1, <1>2
<1> QED BY <1>1, <1>2, <1>3 DEF tx

\* A transaction is run part by part.
LEMMA AfterJoined ==
    ASSUME NEW w, NEW S, NEW a \in Seq(S), NEW b \in Seq(S)
    PROVE  After(w, a \o b) = After(After(w, a), b)
<1> DEFINE m == Len(a)
           n == Len(b)
           tx == a \o b
<1>1. m \in Nat /\ n \in Nat /\ Len(tx) = m + n /\ Len(tx) \in Nat
  OBVIOUS
<1>2. (\A k \in 1..m : tx[k] = a[k]) /\ (\A k \in 1..n : tx[m + k] = b[k])
  OBVIOUS
<1> HIDE DEF m, n, tx
<1>3. PICK f : /\ f[0] = w /\ After(w, tx) = f[m + n]
               /\ \A k \in 1..(m + n) : f[k] = Step(f[k - 1], tx[k])
  BY <1>1, AfterIs
<1>4. PICK g : /\ g[0] = w /\ After(w, a) = g[m]
               /\ \A k \in 1..m : g[k] = Step(g[k - 1], a[k])
  BY <1>1, AfterIs DEF m
<1>5. PICK h : /\ h[0] = g[m] /\ After(g[m], b) = h[n]
               /\ \A k \in 1..n : h[k] = Step(h[k - 1], b[k])
  BY <1>1, AfterIs DEF n
<1> DEFINE T == {k \in Nat : k <= m => f[k] = g[k]}
           U == {k \in Nat : k <= n => f[m + k] = h[k]}
<1>6. 0 \in T
  BY <1>3, <1>4
<1>7. ASSUME NEW k \in T PROVE k + 1 \in T
  <2> SUFFICES ASSUME k + 1 <= m PROVE f[k + 1] = g[k + 1]
    OBVIOUS
  <2>1. k \in Nat /\ k + 1 \in 1..m /\ k + 1 \in 1..(m + n) /\ (k + 1) - 1 = k /\ f[k] = g[k]
    BY <1>1
  <2> QED BY <1>2, <1>3, <1>4, <2>1
<1>8. f[m] = g[m]
  <2>1. T \in SUBSET Nat /\ m \in Nat
    BY <1>1
  <2> HIDE DEF T
  <2>2. m \in T
    BY <1>6, <1>7, <2>1, SetInduction
  <2> QED BY <2>1, <2>2 DEF T
<1>9. 0 \in U
  BY <1>1, <1>5, <1>8
<1>10. ASSUME NEW k \in U PROVE k + 1 \in U
  <2> SUFFICES ASSUME k + 1 <= n PROVE f[m + (k + 1)] = h[k + 1]
    OBVIOUS
  <2>1. /\ k \in Nat /\ k + 1 \in 1..n /\ m + (k + 1) \in 1..(m + n) /\ (k + 1) - 1 = k
        /\ (m + (k + 1)) - 1 = m + k /\ f[m + k] = h[k]
    BY <1>1
  <2> QED BY <1>2, <1>3, <1>5, <2>1
<1>11. f[m + n] = h[n]
  <2>1. U \in SUBSET Nat /\ n \in Nat
    BY <1>1
  <2> HIDE DEF U
  <2>2. n \in U
    BY <1>9, <1>10, <2>1, SetInduction
  <2> QED BY <2>1, <2>2 DEF U
<1> QED BY <1>3, <1>4, <1>5, <1>11 DEF tx

\* A swap between two accounts of a wallet w leaves v.
Swaps(w, v, pool, from, to, n) ==
    /\ Trading(pool) /\ w[from] >= n /\ w[to] # Closed => v # Failed
    /\ v # Failed =>
         /\ v \in Wallets
         /\ v[from] = w[from] - n /\ v[to] = w[to] + Brings(to, n)
         /\ \A a \in Accounts : a # from /\ a # to => v[a] = w[a]

LEMMA Swapped ==
    ASSUME NEW w \in Wallets, NEW pool, NEW from \in Accounts, NEW to \in Accounts,
           NEW n \in Nat, n > 0, from # to
    PROVE  Swaps(w, Step(w, Swap(pool, from, to, n)), pool, from, to, n)
<1> DEFINE after == Step(w, Swap(pool, from, to, n))
<1>1. /\ from # "sol" /\ to # "sol"
      /\ from \in Accounts \union {"sol"} /\ to \in Accounts \union {"sol"}
  BY DEF Accounts
<1>2. SwapMakes(w, after, pool, from, to, n)
  BY <1>1, StepSwap
<1> HIDE DEF after
<1>3. ~Trading(pool) \/ w[from] < n \/ w[to] = Closed => after = Failed
  BY <1>1, <1>2 DEF SwapMakes
<1>4. ~(~Trading(pool) \/ w[from] < n \/ w[to] = Closed) =>
        /\ after \in Wallets /\ after # Failed
        /\ after[from] = w[from] - n /\ after[to] = w[to] + Brings(to, n)
        /\ \A a \in Accounts : a # from /\ a # to => after[a] = w[a]
  BY <1>1, <1>2, FailedIs DEF SwapMakes
<1>5. w[from] >= n => ~(w[from] < n)
  BY DEF Wallets
<1> QED BY <1>3, <1>4, <1>5 DEF after, Swaps

-----------------------------------------------------------------------------
(* What the transactions of the launchpads leave                           *)

\* As ProceedsArrive says of a wallet w before and v after.
Arrives(w, v, side, amount) ==
    /\ v \in Wallets /\ v["fresh"] = Closed /\ v["wsol"] \in {Closed, w["wsol"]}
    /\ v["token"] = IF side = "buy" THEN (IF w["token"] = Closed THEN 0 ELSE w["token"]) + 2
                    ELSE w["token"] - amount

LEMMA PumpLands ==
    ASSUME NEW w \in Wallets, w["fresh"] = Closed, NEW r, r.side \in {"buy", "sell"},
           r.side = "sell" => r.amount \in Nat /\ r.amount > 0
    PROVE  LET v == After(w, IF r.side = "buy" THEN PumpBuyIxs(r) ELSE PumpSellIxs(r)) IN
           /\ v = Failed \/ Arrives(w, v, r.side, r.amount)
           /\ Trading(r.pool) /\ (r.side = "sell" => r.amount <= w["token"]) => v # Failed
<1> USE DEF Accounts
<1>1. CASE r.side = "buy"
  <2> DEFINE w1 == Step(w, Create("token"))
             v == Step(w1, Swap(r.pool, "sol", "token", 1))
  <2>1. After(w, PumpBuyIxs(r)) = v
    BY AfterTwo DEF PumpBuyIxs
  <2>2. /\ w1 = [w EXCEPT !["token"] = IF w["token"] = Closed THEN 0 ELSE w["token"]]
        /\ w1 \in Wallets
    BY StepCreate
  <2>3. IF ~Trading(r.pool) \/ w1["token"] = Closed THEN v = Failed
        ELSE /\ v = [a \in Accounts |->
                      IF a = "sol" THEN w1[a] - 1
                      ELSE IF a = "token" THEN w1[a] + Brings("token", 1) ELSE w1[a]]
             /\ v \in Wallets
    BY <2>2, StepSwap DEF SwapMakes
  <2> HIDE DEF w1, v
  <2>4. w1["token"] # Closed /\ w1["token"] = (IF w["token"] = Closed THEN 0 ELSE w["token"])
        /\ w1["fresh"] = Closed /\ w1["wsol"] = w["wsol"] /\ w1["token"] \in Int
    BY <2>2 DEF Wallets, Closed
  <2>5. v # Failed => Arrives(w, v, "buy", r.amount)
    BY <2>3, <2>4 DEF Arrives, Brings
  <2>6. v # Failed <=> Trading(r.pool)
    BY <2>3, <2>4, FailedIs
  <2> QED BY <1>1, <2>1, <2>5, <2>6
<1>2. CASE r.side = "sell"
  <2> DEFINE v == Step(w, Swap(r.pool, "token", "sol", r.amount))
  <2>1. After(w, PumpSellIxs(r)) = v
    BY AfterOne DEF PumpSellIxs
  <2>3. IF ~Trading(r.pool) \/ w["token"] < r.amount THEN v = Failed
        ELSE /\ v = [a \in Accounts |->
                      IF a = "token" THEN w[a] - r.amount
                      ELSE IF a = "sol" THEN w[a] + Brings("sol", r.amount) ELSE w[a]]
             /\ v \in Wallets
    BY <1>2, StepSwap DEF SwapMakes
  <2> HIDE DEF v
  <2>5. v # Failed => Arrives(w, v, "sell", r.amount)
    BY <2>3 DEF Arrives
  <2>6. Trading(r.pool) /\ r.amount <= w["token"] => v # Failed
    BY <1>2, <2>3, FailedIs DEF Wallets
  <2> QED BY <1>2, <2>1, <2>5, <2>6
<1> QED BY <1>1, <1>2

LEMMA BonkSolLands ==
    ASSUME NEW w \in Wallets, w["fresh"] = Closed, NEW r, r.side \in {"buy", "sell"},
           r.side = "sell" => r.amount \in Nat /\ r.amount > 0, market.quote = "sol"
    PROVE  LET v == After(w, IF r.side = "buy" THEN BonkBuyIxs(r) ELSE BonkSellIxs(r)) IN
           /\ v = Failed \/ Arrives(w, v, r.side, r.amount)
           /\ Trading(r.pool) /\ (r.side = "sell" => r.amount <= w["token"]) => v # Failed
<1> USE DEF Accounts
<1>1. CASE r.side = "buy"
  <2> DEFINE w1 == Step(w, Create("token"))
             w2 == Step(w1, Open("fresh", 1))
             w3 == Step(w2, Swap(r.pool, "fresh", "token", 1))
             v == Step(w3, Close("fresh"))
  <2>1. After(w, BonkBuyIxs(r)) = v
    BY AfterFour DEF BonkBuyIxs
  <2>2. /\ w1 = [w EXCEPT !["token"] = IF w["token"] = Closed THEN 0 ELSE w["token"]]
        /\ w1 \in Wallets
    BY StepCreate
  <2>3. IF w1["fresh"] # Closed THEN w2 = Failed
        ELSE w2 = [w1 EXCEPT !["fresh"] = 1] /\ w2 \in Wallets
    BY <2>2, StepOpen
  <2> HIDE DEF w1
  <2>4. /\ w1["token"] # Closed /\ w1["token"] = (IF w["token"] = Closed THEN 0 ELSE w["token"])
        /\ w1["fresh"] = Closed /\ w1["wsol"] = w["wsol"] /\ w1["token"] \in Int
    BY <2>2 DEF Wallets, Closed
  <2>5. w2 = [w1 EXCEPT !["fresh"] = 1] /\ w2 \in Wallets
    BY <2>3, <2>4
  <2> HIDE DEF w2
  <2>6. /\ w2["fresh"] = 1 /\ w2["token"] = w1["token"] /\ w2["wsol"] = w1["wsol"]
    BY <2>2, <2>5 DEF Wallets
  <2>7. Swaps(w2, w3, r.pool, "fresh", "token", 1)
    BY <2>5, Swapped
  <2> HIDE DEF w3
  <2>8. w3 = Failed => v = Failed
    BY FailedIs
  <2>9. w3 # Failed =>
        /\ w3 \in Wallets /\ w3["fresh"] = 0 /\ w3["token"] = w2["token"] + 2
        /\ w3["wsol"] = w2["wsol"]
    BY <2>6, <2>7 DEF Brings, Swaps
  <2>10. w3 # Failed => v = [w3 EXCEPT !["fresh"] = Closed] /\ v \in Wallets
    BY <2>9, StepClose DEF Closed
  <2> HIDE DEF v
  <2>11. w3 # Failed => Arrives(w, v, "buy", r.amount)
    BY <2>4, <2>6, <2>9, <2>10 DEF Arrives, Wallets
  <2>12. Trading(r.pool) => v # Failed
    BY <2>4, <2>6, <2>7, <2>10, FailedIs DEF Swaps
  <2> QED BY <1>1, <2>1, <2>8, <2>11, <2>12
<1>2. CASE r.side = "sell"
  <2> DEFINE w1 == Step(w, Open("fresh", 0))
             w2 == Step(w1, Swap(r.pool, "token", "fresh", r.amount))
             v == Step(w2, Close("fresh"))
  <2>1. After(w, BonkSellIxs(r)) = v
    BY AfterThree DEF BonkSellIxs
  <2>2. w1 = [w EXCEPT !["fresh"] = 0] /\ w1 \in Wallets
    BY StepOpen
  <2> HIDE DEF w1
  <2>3. w1["fresh"] = 0 /\ w1["token"] = w["token"] /\ w1["wsol"] = w["wsol"]
    BY <2>2 DEF Wallets
  <2>4. Swaps(w1, w2, r.pool, "token", "fresh", r.amount)
    BY <1>2, <2>2, Swapped
  <2> HIDE DEF w2
  <2>5. w2 = Failed => v = Failed
    BY FailedIs
  <2>6. w2 # Failed =>
        /\ w2 \in Wallets /\ w2["fresh"] = r.amount /\ w2["token"] = w["token"] - r.amount
        /\ w2["wsol"] = w["wsol"]
    BY <1>2, <2>3, <2>4 DEF Brings, Swaps
  <2>7. w2 # Failed => v = [w2 EXCEPT !["fresh"] = Closed] /\ v \in Wallets
    BY <1>2, <2>6, StepClose DEF Closed
  <2> HIDE DEF v
  <2>8. w2 # Failed => Arrives(w, v, "sell", r.amount)
    BY <2>6, <2>7 DEF Arrives, Wallets
  <2>9. Trading(r.pool) /\ r.amount <= w["token"] => v # Failed
    BY <1>2, <2>3, <2>4, <2>7, FailedIs DEF Wallets, Closed, Swaps
  <2> QED BY <1>2, <2>1, <2>5, <2>8, <2>9
<1> QED BY <1>1, <1>2

\* A top-up does not fail: its pool trades and its account is made for it.
LEMMA TopUpLands ==
    ASSUME NEW w \in Wallets, w["fresh"] = Closed, NEW n \in Nat
    PROVE  LET v == After(w, TopUp(n)) IN
           /\ v \in Wallets /\ v["fresh"] = Closed
           /\ v["token"] = w["token"] /\ v["wsol"] = w["wsol"]
           /\ v["usd1"] = IF n = 0 THEN w["usd1"]
                          ELSE (IF w["usd1"] = Closed THEN 0 ELSE w["usd1"]) + n
<1> USE DEF Accounts
<1>1. CASE n = 0
  BY <1>1, AfterNone DEF TopUp
<1>2. CASE n # 0
  <2> DEFINE pool == [on |-> "clmm", vault |-> "none"]
             w1 == Step(w, Create("usd1"))
             w2 == Step(w1, Open("fresh", n))
             w3 == Step(w2, Swap(pool, "fresh", "usd1", n))
             v == Step(w3, Close("fresh"))
  <2>1. After(w, TopUp(n)) = v
    BY <1>2, AfterFour DEF TopUp
  <2>2. /\ w1 = [w EXCEPT !["usd1"] = IF w["usd1"] = Closed THEN 0 ELSE w["usd1"]]
        /\ w1 \in Wallets
    BY StepCreate
  <2> HIDE DEF w1
  <2>3. /\ w1["usd1"] # Closed /\ w1["usd1"] = (IF w["usd1"] = Closed THEN 0 ELSE w["usd1"])
        /\ w1["fresh"] = Closed /\ w1["wsol"] = w["wsol"] /\ w1["token"] = w["token"]
        /\ w1["usd1"] \in Int
    BY <2>2 DEF Wallets, Closed
  <2>4. w2 = [w1 EXCEPT !["fresh"] = n] /\ w2 \in Wallets
    BY <2>2, <2>3, StepOpen
  <2> HIDE DEF w2
  <2>5. /\ w2["fresh"] = n /\ w2["usd1"] = w1["usd1"] /\ w2["wsol"] = w["wsol"]
        /\ w2["token"] = w["token"]
    BY <2>2, <2>3, <2>4 DEF Wallets
  <2>6. Trading(pool)
    <3>1. pool.on = "clmm"
      OBVIOUS
    <3> HIDE DEF pool
    <3> QED BY <3>1, Zenon DEF Trading
  <2> HIDE DEF pool
  <2>7. Swaps(w2, w3, pool, "fresh", "usd1", n)
    BY <1>2, <2>4, Swapped
  <2> HIDE DEF w3
  <2>8. /\ w3["fresh"] = 0 /\ w3["usd1"] = w2["usd1"] + n /\ w3["wsol"] = w["wsol"]
        /\ w3["token"] = w["token"] /\ w3 \in Wallets
    <3>1. w3 # Failed
      BY <2>3, <2>5, <2>6, <2>7 DEF Swaps
    <3> QED BY <2>5, <2>7, <3>1 DEF Brings, Swaps
  <2>9. v = [w3 EXCEPT !["fresh"] = Closed] /\ v \in Wallets
    BY <2>7, <2>8, StepClose DEF Closed
  <2> HIDE DEF v
  <2> QED BY <1>2, <2>1, <2>3, <2>5, <2>7, <2>8, <2>9 DEF Wallets
<1> QED BY <1>1, <1>2

LEMMA BonkUsd1Lands ==
    ASSUME NEW w \in Wallets, w["fresh"] = Closed, NEW r, r.side \in {"buy", "sell"},
           r.amount \in Nat, r.side = "sell" => r.amount > 0, market.quote # "sol"
    PROVE  LET v == After(w, IF r.side = "buy" THEN BonkBuyIxs(r) ELSE BonkSellIxs(r)) IN
           /\ v = Failed \/ Arrives(w, v, r.side, r.amount)
           /\ /\ Trading(r.pool)
              /\ r.side = "sell" => r.amount <= w["token"]
              /\ r.side = "buy" => r.amount = IF w["usd1"] < 1 THEN 1 ELSE 0
              => v # Failed
<1> USE DEF Accounts
<1>1. CASE r.side = "buy"
  <2> DEFINE w0 == After(w, TopUp(r.amount))
             w1 == Step(w0, Create("token"))
             w2 == Step(w1, Create("usd1"))
             v == Step(w2, Swap(r.pool, "usd1", "token", 1))
             rest == <<Create("token"), Create("usd1"), Swap(r.pool, "usd1", "token", 1)>>
  <2>1. After(w, BonkBuyIxs(r)) = v
    <3>1. BonkBuyIxs(r) = TopUp(r.amount) \o rest
      BY DEF BonkBuyIxs
    <3> DEFINE S == {Create("usd1"), Open("fresh", r.amount), Close("fresh"), Create("token"),
                     Swap([on |-> "clmm", vault |-> "none"], "fresh", "usd1", r.amount),
                     Swap(r.pool, "usd1", "token", 1)}
    <3>2. rest \in Seq(S)
      OBVIOUS
    <3>3. TopUp(r.amount) \in Seq(S)
      <4>1. <<>> \in Seq(S)
        OBVIOUS
      <4>2. <<Create("usd1"), Open("fresh", r.amount),
              Swap([on |-> "clmm", vault |-> "none"], "fresh", "usd1", r.amount),
              Close("fresh")>> \in Seq(S)
        OBVIOUS
      <4> HIDE DEF S
      <4> QED BY <4>1, <4>2 DEF TopUp
    <3> HIDE DEF S, rest
    <3>4. After(w, TopUp(r.amount) \o rest) = After(After(w, TopUp(r.amount)), rest)
      BY <3>2, <3>3, AfterJoined
    <3>5. After(w0, rest) = v
      BY AfterThree DEF rest
    <3> HIDE DEF v
    <3> QED BY <3>1, <3>4, <3>5
  <2>2. /\ w0 \in Wallets /\ w0["fresh"] = Closed
        /\ w0["token"] = w["token"] /\ w0["wsol"] = w["wsol"]
        /\ w0["usd1"] = IF r.amount = 0 THEN w["usd1"]
                        ELSE (IF w["usd1"] = Closed THEN 0 ELSE w["usd1"]) + r.amount
    BY TopUpLands
  <2> HIDE DEF w0
  <2>3. /\ w1 = [w0 EXCEPT !["token"] = IF w0["token"] = Closed THEN 0 ELSE w0["token"]]
        /\ w1 \in Wallets
    BY <2>2, StepCreate
  <2> HIDE DEF w1
  <2>4. /\ w2 = [w1 EXCEPT !["usd1"] = IF w1["usd1"] = Closed THEN 0 ELSE w1["usd1"]]
        /\ w2 \in Wallets
    BY <2>3, StepCreate
  <2> HIDE DEF w2
  <2>5. /\ w2["token"] # Closed /\ w2["token"] = (IF w["token"] = Closed THEN 0 ELSE w["token"])
        /\ w2["fresh"] = Closed /\ w2["wsol"] = w["wsol"] /\ w2["token"] \in Int
        /\ w2["usd1"] = (IF w0["usd1"] = Closed THEN 0 ELSE w0["usd1"])
    BY <2>2, <2>3, <2>4 DEF Wallets, Closed
  <2>6. Swaps(w2, v, r.pool, "usd1", "token", 1)
    BY <2>4, Swapped
  <2> HIDE DEF v
  <2>7. v # Failed => Arrives(w, v, "buy", r.amount)
    BY <2>5, <2>6 DEF Arrives, Brings, Swaps
  <2>8. r.amount = (IF w["usd1"] < 1 THEN 1 ELSE 0) => w2["usd1"] >= 1
    BY <2>2, <2>5 DEF Wallets, Closed
  <2>9. Trading(r.pool) /\ r.amount = (IF w["usd1"] < 1 THEN 1 ELSE 0) => v # Failed
    <3>1. w2["usd1"] \in Int
      BY <2>4 DEF Wallets
    <3> QED BY <2>5, <2>6, <2>8, <3>1, FailedIs DEF Swaps
  <2> QED BY <1>1, <2>1, <2>7, <2>9
<1>2. CASE r.side = "sell"
  <2> DEFINE w1 == Step(w, Create("usd1"))
             v == Step(w1, Swap(r.pool, "token", "usd1", r.amount))
  <2>1. After(w, BonkSellIxs(r)) = v
    BY AfterTwo DEF BonkSellIxs
  <2>2. /\ w1 = [w EXCEPT !["usd1"] = IF w["usd1"] = Closed THEN 0 ELSE w["usd1"]]
        /\ w1 \in Wallets
    BY StepCreate
  <2> HIDE DEF w1
  <2>3. /\ w1["usd1"] # Closed /\ w1["token"] = w["token"] /\ w1["wsol"] = w["wsol"]
        /\ w1["fresh"] = Closed
    BY <2>2 DEF Wallets, Closed
  <2>4. Swaps(w1, v, r.pool, "token", "usd1", r.amount)
    BY <1>2, <2>2, Swapped
  <2> HIDE DEF v
  <2>5. v # Failed => Arrives(w, v, "sell", r.amount)
    BY <2>3, <2>4 DEF Arrives, Swaps
  <2>6. Trading(r.pool) /\ r.amount <= w["token"] => v # Failed
    BY <2>3, <2>4, FailedIs DEF Wallets, Swaps
  <2> QED BY <1>2, <2>1, <2>5, <2>6
<1> QED BY <1>1, <1>2

\* An account that was seen is open now, or was closed since.
Opens(w, v, r, a) ==
    /\ v = [w EXCEPT ![a] = IF a \in r.seen THEN w[a] ELSE IF w[a] = Closed THEN 0 ELSE w[a]]
    /\ v \in Wallets

LEMMA MissingLands ==
    ASSUME NEW w \in Wallets, NEW r, NEW a \in Accounts
    PROVE  Opens(w, After(w, Missing(r, a)), r, a)
<1>1. CASE a \in r.seen
  <2>1. After(w, Missing(r, a)) = w
    BY <1>1, AfterNone DEF Missing
  <2>2. w = [w EXCEPT ![a] = w[a]]
    BY DEF Wallets
  <2> QED BY <1>1, <2>1, <2>2 DEF Opens
<1>2. CASE a \notin r.seen
  <2>1. After(w, Missing(r, a)) = Step(w, Create(a))
    BY <1>2, AfterOne DEF Missing
  <2> QED BY <1>2, <2>1, StepCreate DEF Opens
<1> QED BY <1>1, <1>2

LEMMA AfterParts ==
    ASSUME NEW w, NEW S, NEW a \in Seq(S), NEW b \in Seq(S), NEW c \in Seq(S), NEW d \in Seq(S)
    PROVE  After(w, a \o b \o c \o d) = After(After(After(After(w, a), b), c), d)
<1>1. a \o b \in Seq(S) /\ a \o b \o c \in Seq(S)
  OBVIOUS
<1> DEFINE ab == a \o b
           abc == ab \o c
<1>2. After(w, ab) = After(After(w, a), b)
  BY AfterJoined
<1>3. ab \in Seq(S)
  BY <1>1
<1> HIDE DEF ab
<1>4. After(w, abc) = After(After(w, ab), c)
  BY <1>3, AfterJoined
<1>5. abc \in Seq(S)
  BY <1>1 DEF ab
<1> HIDE DEF abc
<1>6. After(w, abc \o d) = After(After(w, abc), d)
  BY <1>5, AfterJoined
<1>7. After(w, abc \o d) = After(After(After(After(w, a), b), c), d)
  BY <1>2, <1>4, <1>6
<1> QED BY <1>7 DEF ab, abc

\* Accounts that are made if they are missing, in between the parts of a trade.
LEMMA BagsParts ==
    ASSUME NEW w, NEW r, NEW a, NEW b, NEW S, NEW c \in Seq(S), NEW d \in Seq(S)
    PROVE  After(w, Missing(r, a) \o Missing(r, b) \o c \o d)
             = After(After(After(After(w, Missing(r, a)), Missing(r, b)), c), d)
<1> DEFINE U == S \union {Create(a), Create(b)}
<1>1. c \in Seq(U) /\ d \in Seq(U)
  OBVIOUS
<1>2. <<>> \in Seq(U) /\ <<Create(a)>> \in Seq(U) /\ <<Create(b)>> \in Seq(U)
  OBVIOUS
<1> HIDE DEF U
<1>3. Missing(r, a) \in Seq(U) /\ Missing(r, b) \in Seq(U)
  BY <1>2 DEF Missing
<1> QED BY <1>1, <1>3, AfterParts

LEMMA BagsLands ==
    ASSUME NEW w \in Wallets, w["fresh"] = Closed, NEW r, r.side \in {"buy", "sell"},
           r.side = "sell" => r.amount \in Nat /\ r.amount > 0
    PROVE  LET v == After(w, IF r.side = "buy" THEN BagsBuyIxs(r) ELSE BagsSellIxs(r)) IN
           /\ v = Failed \/ Arrives(w, v, r.side, r.amount)
           /\ /\ Trading(r.pool)
              /\ r.side = "sell" => r.amount <= w["token"]
              /\ \A a \in {"token", "wsol"} : a \in r.seen => w[a] # Closed
              => v # Failed
<1> USE DEF Accounts
<1>0. Unwrap(r) = <<Close("wsol")>>
  BY DEF Unwrap
<1>1. CASE r.side = "buy"
  <2> DEFINE swap == Swap(r.pool, "wsol", "token", 1)
             w1 == After(w, Missing(r, "wsol"))
             w2 == After(w1, Missing(r, "token"))
             w3 == Step(w2, Wrap("wsol", 1))
             w4 == Step(w3, swap)
             v == Step(w4, Close("wsol"))
             trades == <<Wrap("wsol", 1), swap>>
             closes == <<Close("wsol")>>
             S == {Wrap("wsol", 1), swap, Close("wsol")}
  <2>1. After(w, BagsBuyIxs(r)) = v
    <3>1. BagsBuyIxs(r) = Missing(r, "wsol") \o Missing(r, "token") \o trades \o closes
      BY <1>0 DEF BagsBuyIxs
    <3>2. trades \in Seq(S) /\ closes \in Seq(S)
      OBVIOUS
    <3>3. After(w2, trades) = w4 /\ After(w4, closes) = v
      BY AfterTwo, AfterOne
    <3> HIDE DEF S, trades, closes, v, w4
    <3>4. After(w, Missing(r, "wsol") \o Missing(r, "token") \o trades \o closes)
            = After(After(w2, trades), closes)
      BY <3>2, BagsParts
    <3> QED BY <3>1, <3>3, <3>4
  <2> HIDE DEF swap
  <2>2. Opens(w, w1, r, "wsol")
    BY MissingLands
  <2> HIDE DEF w1
  <2>3. Opens(w1, w2, r, "token")
    BY <2>2, MissingLands DEF Opens
  <2> HIDE DEF w2
  <2>4. w1 \in Wallets /\ w2 \in Wallets /\ w2["fresh"] = Closed
    BY <2>2, <2>3 DEF Opens, Wallets
  <2>5. /\ w2["wsol"] \in {w["wsol"], 0}
        /\ w2["token"] = IF "token" \in r.seen THEN w["token"]
                         ELSE IF w["token"] = Closed THEN 0 ELSE w["token"]
        /\ w2["wsol"] = IF "wsol" \in r.seen THEN w["wsol"]
                        ELSE IF w["wsol"] = Closed THEN 0 ELSE w["wsol"]
    BY <2>2, <2>3, <2>4 DEF Opens, Wallets
  <2>6. IF w2["wsol"] = Closed THEN w3 = Failed
        ELSE w3 = [w2 EXCEPT !["wsol"] = w2["wsol"] + 1] /\ w3 \in Wallets
    BY <2>4, StepWrap
  <2> HIDE DEF w3
  <2>7. w3 = Failed => v = Failed
    BY FailedIs
  <2>8. w3 # Failed =>
        /\ w3 \in Wallets /\ w3["fresh"] = Closed /\ w3["token"] = w2["token"]
        /\ w3["wsol"] = w2["wsol"] + 1 /\ w2["wsol"] \in Nat
    BY <2>4, <2>6 DEF Wallets, Closed
  <2>9. w3 # Failed => Swaps(w3, w4, r.pool, "wsol", "token", 1)
    <3> SUFFICES ASSUME w3 # Failed PROVE Swaps(w3, w4, r.pool, "wsol", "token", 1)
      OBVIOUS
    <3>1. w3 \in Wallets
      BY <2>8
    <3> QED BY <3>1, Swapped DEF swap
  <2>16. w3 # Failed /\ w3["token"] = Closed => w4 = Failed
    <3> SUFFICES ASSUME w3 # Failed, w3["token"] = Closed PROVE w4 = Failed
      OBVIOUS
    <3>1. /\ "token" \in Accounts \union {"sol"} /\ "wsol" \in Accounts \union {"sol"}
          /\ w3 \in Wallets
      BY <2>8
    <3>2. SwapMakes(w3, w4, r.pool, "wsol", "token", 1)
      BY <3>1, StepSwap DEF swap
    <3> QED BY <3>2 DEF SwapMakes
  <2> HIDE DEF w4
  <2>10. w4 = Failed => v = Failed
    BY FailedIs
  <2>11. w3 # Failed /\ w4 # Failed =>
        /\ w4 \in Wallets /\ w4["fresh"] = Closed /\ w4["wsol"] \in Nat
        /\ w4["token"] = w2["token"] + 2
    BY <2>8, <2>9 DEF Brings, Swaps
  <2>12. w3 # Failed /\ w4 # Failed => v = [w4 EXCEPT !["wsol"] = Closed] /\ v \in Wallets
    BY <2>11, StepClose DEF Closed
  <2> HIDE DEF v
  <2>13. w3 # Failed /\ w4 # Failed /\ w2["token"] # Closed => Arrives(w, v, "buy", r.amount)
    BY <2>5, <2>11, <2>12 DEF Arrives, Wallets
  <2>14. w3 # Failed /\ w4 # Failed => w2["token"] # Closed
    BY <2>8, <2>16
  <2>15. Trading(r.pool) /\ (\A a \in {"token", "wsol"} : a \in r.seen => w[a] # Closed)
            => v # Failed
    <3> SUFFICES ASSUME Trading(r.pool), \A a \in {"token", "wsol"} : a \in r.seen => w[a] # Closed
                 PROVE  v # Failed
      OBVIOUS
    <3>1. w2["wsol"] # Closed /\ w2["token"] # Closed
      BY <2>5 DEF Closed
    <3>2. w3 # Failed
      BY <2>6, <3>1, FailedIs
    <3>3. w4 # Failed
      BY <2>8, <2>9, <3>1, <3>2 DEF Swaps
    <3> QED BY <2>12, <3>2, <3>3, FailedIs
  <2> QED BY <1>1, <2>1, <2>7, <2>10, <2>13, <2>14, <2>15
<1>2. CASE r.side = "sell"
  <2> DEFINE swap == Swap(r.pool, "token", "wsol", r.amount)
             w1 == After(w, Missing(r, "token"))
             w2 == After(w1, Missing(r, "wsol"))
             w3 == Step(w2, swap)
             v == Step(w3, Close("wsol"))
             trades == <<swap>>
             closes == <<Close("wsol")>>
             S == {swap, Close("wsol")}
  <2>1. After(w, BagsSellIxs(r)) = v
    <3>1. BagsSellIxs(r) = Missing(r, "token") \o Missing(r, "wsol") \o trades \o closes
      BY <1>0 DEF BagsSellIxs
    <3>2. trades \in Seq(S) /\ closes \in Seq(S)
      OBVIOUS
    <3>3. After(w2, trades) = w3 /\ After(w3, closes) = v
      BY AfterOne
    <3> HIDE DEF S, trades, closes, v, w3
    <3>4. After(w, Missing(r, "token") \o Missing(r, "wsol") \o trades \o closes)
            = After(After(w2, trades), closes)
      BY <3>2, BagsParts
    <3> QED BY <3>1, <3>3, <3>4
  <2>2. Opens(w, w1, r, "token")
    BY MissingLands
  <2> HIDE DEF w1
  <2>3. Opens(w1, w2, r, "wsol")
    BY <2>2, MissingLands DEF Opens
  <2> HIDE DEF w2
  <2>4. w1 \in Wallets /\ w2 \in Wallets /\ w2["fresh"] = Closed
    BY <2>2, <2>3 DEF Opens, Wallets
  <2>5. /\ w2["token"] = IF "token" \in r.seen THEN w["token"]
                         ELSE IF w["token"] = Closed THEN 0 ELSE w["token"]
        /\ w2["wsol"] = IF "wsol" \in r.seen THEN w["wsol"]
                        ELSE IF w["wsol"] = Closed THEN 0 ELSE w["wsol"]
    BY <2>2, <2>3, <2>4 DEF Opens, Wallets
  <2>6. SwapMakes(w2, w3, r.pool, "token", "wsol", r.amount)
    <3>1. /\ "token" \in Accounts \union {"sol"} /\ "wsol" \in Accounts \union {"sol"}
          /\ r.amount \in Nat /\ r.amount > 0
      BY <1>2
    <3> QED BY <2>4, <3>1, StepSwap
  <2> HIDE DEF w3
  <2>7. w3 = Failed => v = Failed
    BY FailedIs
  <2>8. w3 # Failed =>
        /\ w3 \in Wallets /\ w3["fresh"] = Closed /\ w3["wsol"] = w2["wsol"] + r.amount
        /\ w3["token"] = w2["token"] - r.amount /\ w2["wsol"] # Closed /\ ~(w2["token"] < r.amount)
    BY <2>4, <2>6 DEF Brings, SwapMakes
  <2>9. w3 # Failed => w3["wsol"] # Closed /\ w2["token"] = w["token"]
    BY <1>2, <2>4, <2>5, <2>8 DEF Wallets, Closed
  <2>10. w3 # Failed => v = [w3 EXCEPT !["wsol"] = Closed] /\ v \in Wallets
    BY <2>8, <2>9, StepClose
  <2> HIDE DEF v
  <2>11. w3 # Failed => Arrives(w, v, "sell", r.amount)
    BY <2>8, <2>9, <2>10 DEF Arrives, Wallets
  <2>12. /\ Trading(r.pool) /\ r.amount <= w["token"]
         /\ \A a \in {"token", "wsol"} : a \in r.seen => w[a] # Closed
         => v # Failed
    <3> SUFFICES ASSUME Trading(r.pool), r.amount <= w["token"],
                        \A a \in {"token", "wsol"} : a \in r.seen => w[a] # Closed
                 PROVE  v # Failed
      OBVIOUS
    <3>1. w2["wsol"] # Closed /\ ~(w2["token"] < r.amount)
      BY <1>2, <2>5 DEF Closed, Wallets
    <3>2. w3 \in Wallets
      BY <2>6, <3>1 DEF SwapMakes
    <3> QED BY <2>10, <3>2, FailedIs
  <2> QED BY <1>2, <2>1, <2>7, <2>11, <2>12
<1> QED BY <1>1, <1>2

-----------------------------------------------------------------------------
(* A transaction of each launchpad                                         *)

LEMMA TransactionOf ==
    ASSUME NEW r
    PROVE  /\ market.launchpad = "pump" =>
                Transaction(r) = IF r.side = "buy" THEN PumpBuyIxs(r) ELSE PumpSellIxs(r)
           /\ market.launchpad = "bonk" =>
                Transaction(r) = IF r.side = "buy" THEN BonkBuyIxs(r) ELSE BonkSellIxs(r)
           /\ market.launchpad = "bagsapp" =>
                Transaction(r) = IF r.side = "buy" THEN BagsBuyIxs(r) ELSE BagsSellIxs(r)
<1>1. market.launchpad = "pump" =>
        Transaction(r) = IF r.side = "buy" THEN PumpBuyIxs(r) ELSE PumpSellIxs(r)
  BY Zenon DEF Transaction
<1>2. market.launchpad = "bonk" =>
        Transaction(r) = IF r.side = "buy" THEN BonkBuyIxs(r) ELSE BonkSellIxs(r)
  BY Zenon DEF Transaction
<1>3. market.launchpad = "bagsapp" =>
        Transaction(r) = IF r.side = "buy" THEN BagsBuyIxs(r) ELSE BagsSellIxs(r)
  BY Zenon DEF Transaction
<1> QED BY <1>1, <1>2, <1>3

\* What a trade needs to run in the wallet w.
Ready(w, r) ==
    /\ Trading(r.pool)
    /\ r.side = "sell" => r.amount <= w["token"]
    /\ r.side = "buy" /\ market.launchpad = "bonk" /\ market.quote = "usd1" =>
         r.amount = IF w["usd1"] < 1 THEN 1 ELSE 0
    /\ market.launchpad = "bagsapp" =>
         \A a \in {"token", "wsol"} : a \in r.seen => w[a] # Closed

LEMMA Lands ==
    ASSUME TradeTypes, NEW w \in Wallets, w["fresh"] = Closed, NEW r, r.side \in {"buy", "sell"},
           r.amount \in Nat, r.side = "sell" => r.amount > 0
    PROVE  LET v == After(w, Transaction(r)) IN
           /\ v = Failed \/ Arrives(w, v, r.side, r.amount)
           /\ Ready(w, r) => v # Failed
<1>1. CASE market.launchpad = "pump"
  BY <1>1, TransactionOf, PumpLands DEF Ready
<1>2. CASE market.launchpad = "bonk" /\ market.quote = "sol"
  BY <1>2, TransactionOf, BonkSolLands DEF Ready
<1>3. CASE market.launchpad = "bonk" /\ market.quote = "usd1"
  BY <1>3, TransactionOf, BonkUsd1Lands DEF Ready
<1>4. CASE market.launchpad = "bagsapp"
  BY <1>4, TransactionOf, BagsLands DEF Ready
<1> QED BY <1>1, <1>2, <1>3, <1>4 DEF TradeTypes, Markets

LEMMA TradingOn ==
    ASSUME NEW pool
    PROVE  /\ pool.on = "curve" =>
                Trading(pool) = (market.phase = "curve" /\ pool.vault = market.vault)
           /\ pool.on = "damm" => Trading(pool) = (market.phase = "migrated")
<1>1. pool.on = "curve" => Trading(pool) = (market.phase = "curve" /\ pool.vault = market.vault)
  BY Zenon DEF Trading
<1>2. pool.on = "damm" => Trading(pool) = (market.phase = "migrated")
  BY Zenon DEF Trading
<1> QED BY <1>1, <1>2

\* A trade that is as of now fails where the code is known to.
LEMMA UpToDateIsReady ==
    ASSUME TradeTypes, MarketOK, NEW r, IsRecord(r), r.state = "sent", Done(r), UpToDate(r),
           ~KnownToFail(r)
    PROVE  Ready(wallet, r)
<1>0. Ahead(r) = {} /\ r.side \in {"buy", "sell"}
  BY DEF Ahead, Done
<1>1. Trading(r.pool)
  <2>1. CASE market.launchpad = "bagsapp"
    <3>1. \/ r.pool = CurveWith("none") /\ market.phase = "curve"
          \/ r.pool.on = "damm" /\ market.phase = "migrated"
      BY <1>0, <2>1 DEF UpToDate
    <3>2. market.vault = "none"
      BY <2>1 DEF MarketOK
    <3>3. CurveWith("none").on = "curve" /\ CurveWith("none").vault = "none"
      BY DEF CurveWith
    <3> QED BY <3>1, <3>2, <3>3, TradingOn
  <2>2. CASE market.launchpad = "bonk"
    <3>1. r.pool = CurveWith("none")
      BY <1>0, <2>2 DEF UpToDate, CurveSeen
    <3>2. r.pool.on = "curve" /\ r.pool.vault = "none"
      BY <3>1 DEF CurveWith
    <3>3. market.vault = "none" /\ market.phase = "curve"
      BY <2>2 DEF MarketOK, KnownToFail
    <3> QED BY <3>2, <3>3, TradingOn
  <2>3. CASE market.launchpad = "pump"
    <3>1. r.pool = CurveWith(IF r.prefer \/ market.shared THEN "sharing" ELSE "creator")
      BY <1>0, <2>3 DEF UpToDate, CurveSeen
    <3>2. /\ r.pool.on = "curve"
          /\ r.pool.vault = IF r.prefer \/ market.shared THEN "sharing" ELSE "creator"
      BY <3>1 DEF CurveWith
    <3>3. /\ market.phase = "curve" /\ market.vault # "none"
          /\ ~(IF r.prefer THEN market.vault = "creator"
                           ELSE market.vault = "sharing" /\ ~market.shared)
          /\ market.shared => market.vault = "sharing"
      BY <2>3 DEF MarketOK, KnownToFail
    <3>4. market.vault \in {"creator", "sharing"}
      BY <3>3 DEF TradeTypes, Markets
    <3> QED BY <3>2, <3>3, <3>4, TradingOn
  <2> QED BY <2>1, <2>2, <2>3 DEF TradeTypes, Markets
<1>2. r.side = "sell" => r.amount <= wallet["token"]
  BY <1>0 DEF UpToDate
<1>3. r.side = "buy" /\ market.launchpad = "bonk" /\ market.quote = "usd1" =>
         r.amount = IF wallet["usd1"] < 1 THEN 1 ELSE 0
  BY <1>0 DEF UpToDate, Lacking
<1>4. market.launchpad = "bagsapp" =>
         \A a \in {"token", "wsol"} : a \in r.seen => wallet[a] # Closed
  BY <1>0 DEF UpToDate
<1> QED BY <1>1, <1>2, <1>3, <1>4 DEF Ready

-----------------------------------------------------------------------------
(* Stages, shares, transactions of equal trades                            *)

\* What the stages of a trade always contain.
LEMMA StagesAre ==
    ASSUME TradeTypes, NEW side \in {"buy", "sell"}
    PROVE  /\ Stages(side) \in Seq(StageNames)
           /\ "market" \in ToSet(Stages(side)) /\ "damm" \notin ToSet(Stages(side))
           /\ side = "sell" => "amount" \in ToSet(Stages(side))
           /\ market.launchpad = "bonk" /\ market.quote = "usd1" => "amount" \in ToSet(Stages(side))
           /\ market.launchpad = "bagsapp" => {"input", "output"} \subseteq ToSet(Stages(side))
<1>1. market.launchpad = "pump" =>
        Stages(side) = IF side = "buy" THEN <<"market">> ELSE <<"market", "amount">>
  BY Zenon DEF Stages
<1>2. market.launchpad = "bonk" =>
        Stages(side) = IF side = "sell" THEN <<"amount", "market">>
                       ELSE IF market.quote = "usd1" THEN <<"market", "amount">> ELSE <<"market">>
  BY Zenon DEF Stages
<1>3. market.launchpad = "bagsapp" =>
        Stages(side) = IF side = "buy" THEN <<"market", "input", "output">>
                       ELSE <<"market", "amount", "input", "output">>
  BY Zenon DEF Stages
<1>4. /\ ToSet(<<"market">>) = {"market"} /\ ToSet(<<"market", "amount">>) = {"market", "amount"}
      /\ ToSet(<<"amount", "market">>) = {"market", "amount"}
      /\ ToSet(<<"market", "input", "output">>) = {"market", "input", "output"}
      /\ ToSet(<<"market", "amount", "input", "output">>) = {"market", "amount", "input", "output"}
  BY DEF ToSet
<1>5. /\ <<"market">> \in Seq(StageNames) /\ <<"market", "amount">> \in Seq(StageNames)
      /\ <<"amount", "market">> \in Seq(StageNames)
      /\ <<"market", "input", "output">> \in Seq(StageNames)
      /\ <<"market", "amount", "input", "output">> \in Seq(StageNames)
  BY DEF StageNames
<1>6. market.launchpad \in {"pump", "bonk", "bagsapp"}
  BY DEF TradeTypes, Markets
<1>7. CASE market.launchpad = "pump"
  BY <1>1, <1>4, <1>5, <1>7
<1>8. CASE market.launchpad = "bonk"
  BY <1>2, <1>4, <1>5, <1>8
<1>9. CASE market.launchpad = "bagsapp"
  <2>1. CASE side = "buy"
    <3> DEFINE st == <<"market", "input", "output">>
    <3>1. Stages(side) = st /\ st \in Seq(StageNames) /\ ToSet(st) = {"market", "input", "output"}
      BY <1>3, <1>4, <1>5, <1>9, <2>1
    <3> HIDE DEF st
    <3> QED BY <1>9, <2>1, <3>1
  <2>2. CASE side = "sell"
    <3> DEFINE st == <<"market", "amount", "input", "output">>
    <3>1. /\ Stages(side) = st /\ st \in Seq(StageNames)
          /\ ToSet(st) = {"market", "amount", "input", "output"}
      BY <1>3, <1>4, <1>5, <1>9, <2>2
    <3> HIDE DEF st
    <3> QED BY <1>9, <2>2, <3>1
  <2> QED BY <2>1, <2>2
<1> QED BY <1>6, <1>7, <1>8, <1>9

\* A stage that is taken is the only one that is not due any more.
LEMMA TailSet ==
    ASSUME NEW s \in Seq(StageNames), s # <<>>
    PROVE  /\ Tail(s) \in Seq(StageNames) /\ Head(s) \in StageNames
           /\ ToSet(s) = {Head(s)} \union ToSet(Tail(s))
<1>1. Tail(s) \in Seq(StageNames) /\ Head(s) \in StageNames /\ Len(s) > 0
  OBVIOUS
<1>2. ToSet(s) \subseteq {Head(s)} \union ToSet(Tail(s))
  <2> SUFFICES ASSUME NEW i \in 1..Len(s), s[i] # Head(s)
               PROVE  s[i] \in ToSet(Tail(s))
    BY DEF ToSet
  <2>1. i # 1 /\ i - 1 \in 1..Len(Tail(s)) /\ Tail(s)[i - 1] = s[i]
    OBVIOUS
  <2> DEFINE t == Tail(s)
  <2>2. i - 1 \in DOMAIN t /\ t[i - 1] = s[i]
    BY <1>1, <2>1
  <2> HIDE DEF t
  <2>3. s[i] \in ToSet(t)
    BY <2>2 DEF ToSet
  <2> QED BY <2>3 DEF t
<1>3. {Head(s)} \union ToSet(Tail(s)) \subseteq ToSet(s)
  <2>1. Head(s) \in ToSet(s)
    BY <1>1 DEF ToSet
  <2>2. ASSUME NEW i \in 1..Len(Tail(s)) PROVE Tail(s)[i] \in ToSet(s)
    <3>1. i + 1 \in 1..Len(s) /\ Tail(s)[i] = s[i + 1]
      OBVIOUS
    <3> QED BY <3>1 DEF ToSet
  <2> QED BY <2>1, <2>2 DEF ToSet
<1> QED BY <1>1, <1>2, <1>3

LEMMA JoinSet ==
    ASSUME NEW S, NEW a \in Seq(S), NEW b \in Seq(S)
    PROVE  a \o b \in Seq(S) /\ ToSet(a \o b) = ToSet(a) \union ToSet(b)
<1> DEFINE m == Len(a)
           n == Len(b)
           u == a \o b
<1>1. m \in Nat /\ n \in Nat /\ Len(u) = m + n /\ u \in Seq(S)
  OBVIOUS
<1>2. (\A k \in 1..m : u[k] = a[k]) /\ (\A k \in 1..n : u[m + k] = b[k])
  OBVIOUS
<1>3. DOMAIN u = 1..(m + n) /\ DOMAIN a = 1..m /\ DOMAIN b = 1..n
  OBVIOUS
<1> HIDE DEF m, n, u
<1>4. ToSet(u) \subseteq ToSet(a) \union ToSet(b)
  <2> SUFFICES ASSUME NEW i \in 1..(m + n) PROVE u[i] \in ToSet(a) \union ToSet(b)
    BY <1>3 DEF ToSet
  <2>1. CASE i <= m
    <3>1. i \in 1..m
      BY <1>1, <2>1
    <3> QED BY <1>2, <1>3, <3>1 DEF ToSet
  <2>2. CASE ~(i <= m)
    <3>1. i - m \in 1..n /\ m + (i - m) = i
      BY <1>1, <2>2
    <3>2. u[i] = b[i - m]
      BY <1>2, <3>1
    <3> QED BY <1>3, <3>1, <3>2 DEF ToSet
  <2> QED BY <2>1, <2>2
<1>5. ToSet(a) \subseteq ToSet(u)
  <2>1. \A k \in 1..m : k \in 1..(m + n)
    BY <1>1
  <2> QED BY <1>2, <1>3, <2>1 DEF ToSet
<1>6. ToSet(b) \subseteq ToSet(u)
  <2>1. \A k \in 1..n : m + k \in 1..(m + n)
    BY <1>1
  <2> QED BY <1>2, <1>3, <2>1 DEF ToSet
<1> QED BY <1>1, <1>4, <1>5, <1>6 DEF u

LEMMA DammFirst ==
    ASSUME NEW s \in Seq(StageNames)
    PROVE  /\ <<"damm">> \o s \in Seq(StageNames)
           /\ ToSet(<<"damm">> \o s) = {"damm"} \union ToSet(s)
<1> DEFINE d == <<"damm">>
<1>1. d \in Seq(StageNames) /\ ToSet(d) = {"damm"}
  BY DEF StageNames, ToSet
<1> HIDE DEF d
<1>2. d \o s \in Seq(StageNames) /\ ToSet(d \o s) = {"damm"} \union ToSet(s)
  BY <1>1, JoinSet
<1> QED BY <1>2 DEF d

\* A share is no more than the whole.
LEMMA ShareBounds ==
    ASSUME NEW b \in Nat, NEW p \in 0..100
    PROVE  Share(b, p) \in 0..b
<1>1. b * p \in Nat /\ b * p <= 100 * b
  <2>1. p \in Nat /\ 100 - p \in Nat
    OBVIOUS
  <2>2. b * p \in Nat /\ b * (100 - p) \in Nat
    BY <2>1
  <2>3. b * p + b * (100 - p) = 100 * b
    BY <2>1
  <2> QED BY <2>2, <2>3
<1> DEFINE x == b * p
           q == x \div 100
<1>2. x \in Nat /\ x <= 100 * b
  BY <1>1
<1> HIDE DEF x
<1>3. q \in Int /\ 100 * q <= x /\ x < 100 * q + 100
  BY <1>2
<1>4. q = Share(b, p)
  BY DEF Share, x
<1> HIDE DEF q
<1> QED BY <1>2, <1>3, <1>4

\* Transactions are the same for trades that read the same.
LEMMA SameTransaction ==
    ASSUME market \in Markets, NEW r, NEW s,
           r.side = s.side, r.pool = s.pool, r.amount = s.amount, r.seen = s.seen
    PROVE  Transaction(r) = Transaction(s)
<1> USE DEF PumpBuyIxs, PumpSellIxs, BonkBuyIxs, BonkSellIxs, BagsBuyIxs, BagsSellIxs, Missing,
            Unwrap
<1>1. CASE market.launchpad = "pump"
  BY <1>1, TransactionOf
<1>2. CASE market.launchpad = "bonk"
  BY <1>2, TransactionOf
<1>3. CASE market.launchpad = "bagsapp"
  BY <1>3, TransactionOf
<1> QED BY <1>1, <1>2, <1>3 DEF Markets

LEMMA TransactionKept ==
    ASSUME TradeTypes, market'.launchpad = market.launchpad, market'.quote = market.quote, NEW r
    PROVE  Transaction(r)' = Transaction(r)
<1> USE DEF PumpBuyIxs, PumpSellIxs, BonkBuyIxs, BonkSellIxs, BagsBuyIxs, BagsSellIxs, Missing,
            Unwrap, TopUp
<1>1. market.launchpad = "pump" => Transaction(r)' = Transaction(r)
  BY Zenon DEF Transaction
<1>2. market.launchpad = "bonk" => Transaction(r)' = Transaction(r)
  BY Zenon DEF Transaction
<1>3. market.launchpad = "bagsapp" => Transaction(r)' = Transaction(r)
  BY Zenon DEF Transaction
<1> QED BY <1>1, <1>2, <1>3 DEF TradeTypes, Markets

-----------------------------------------------------------------------------
(* The trades keep what is said of them                                    *)

LEMMA TransactionThen ==
    ASSUME TradeTypes, market'.launchpad = market.launchpad, market'.quote = market.quote, NEW u
    PROVE  Transaction(trade[u])' = Transaction(trade'[u])
<1> USE DEF PumpBuyIxs, PumpSellIxs, BonkBuyIxs, BonkSellIxs, BagsBuyIxs, BagsSellIxs, Missing,
            Unwrap, TopUp
<1>1. market.launchpad = "pump" => Transaction(trade[u])' = Transaction(trade'[u])
  BY Zenon DEF Transaction
<1>2. market.launchpad = "bonk" => Transaction(trade[u])' = Transaction(trade'[u])
  BY Zenon DEF Transaction
<1>3. market.launchpad = "bagsapp" => Transaction(trade[u])' = Transaction(trade'[u])
  BY Zenon DEF Transaction
<1> QED BY <1>1, <1>2, <1>3 DEF TradeTypes, Markets

\* A record is as good afterwards while market and wallet stay.
LEMMA RecordStays ==
    ASSUME TradeTypes, UNCHANGED <<market, wallet>>, NEW u, RecordOK(trade'[u])
    PROVE  RecordOK(trade[u])'
<1>1. Transaction(trade[u])' = Transaction(trade'[u])
  BY TransactionThen
<1>2. Done(trade[u])' = Done(trade'[u])
  BY DEF Done, Ahead
<1>3. UpToDate(trade[u])' = UpToDate(trade'[u])
  BY DEF UpToDate, Ahead, CurveSeen, Lacking
<1> QED BY <1>1, <1>2, <1>3 DEF RecordOK

LEMMA BecomesKeeps ==
    ASSUME TradeTypes, ReadingOK, UNCHANGED <<market, wallet>>, NEW t \in Trade, NEW r,
           IsRecord(r), RecordOK(r), Becomes(t, r)
    PROVE  TradesTyped' /\ ReadingOK'
<1>1. /\ trade' = [u \in Trade |-> trade'[u]] /\ trade'[t] = r
      /\ \A u \in Trade : u # t => trade'[u] = trade[u]
  BY DEF TradeTypes, TradesTyped, Becomes
<1>2. \A u \in Trade : IsRecord(trade'[u])
  BY <1>1 DEF TradeTypes, TradesTyped
<1>3. \A u \in Trade : RecordOK(trade'[u])
  BY <1>1 DEF ReadingOK
<1> QED BY <1>1, <1>2, <1>3, RecordStays DEF TradesTyped, ReadingOK

\* Trades that nothing happened to.
LEMMA TradesKept ==
    ASSUME TradeTypes, ReadingOK, UNCHANGED <<market, wallet, trade>>
    PROVE  TradesTyped' /\ ReadingOK'
<1>1. \A u \in Trade : RecordOK(trade'[u])
  BY DEF ReadingOK
<1> QED BY <1>1, RecordStays DEF TradeTypes, TradesTyped, ReadingOK

\* When what was read is no longer so, a trade keeps all but its cleanness.
LEMMA SpoiledKeeps ==
    ASSUME TradeTypes, ReadingOK, market'.launchpad = market.launchpad,
           market'.quote = market.quote, NEW f,
           \A u \in Trade : /\ IsRecord(f[u])
                            /\ f[u].state \in {"reading", "sent"} => f[u] = trade[u],
           trade' = Spoiled(f)
    PROVE  TradesTyped' /\ ReadingOK'
<1>1. trade' = [u \in Trade |-> trade'[u]]
  BY DEF Spoiled
<1>2. \A u \in Trade : trade'[u] = IF f[u].state \in {"reading", "sent"}
                                   THEN [f[u] EXCEPT !.clean = FALSE] ELSE f[u]
  BY DEF Spoiled
<1>3. ASSUME NEW u \in Trade, f[u].state \in {"reading", "sent"}
      PROVE  /\ IsRecord(trade'[u]) /\ trade'[u].clean = FALSE
             /\ trade'[u].todo = trade[u].todo /\ trade'[u].state = trade[u].state
             /\ trade'[u].side = trade[u].side /\ trade'[u].amount = trade[u].amount
             /\ trade'[u].pool = trade[u].pool /\ trade'[u].seen = trade[u].seen
             /\ trade'[u].tx = trade[u].tx
  <2> DEFINE r == f[u]
             s == [r EXCEPT !.clean = FALSE]
  <2>1. IsRecord(r) /\ r = trade[u] /\ trade'[u] = s
    BY <1>2, <1>3
  <2> HIDE DEF r
  <2>2. /\ IsRecord(s) /\ s.clean = FALSE /\ s.todo = r.todo /\ s.state = r.state
        /\ s.side = r.side /\ s.amount = r.amount /\ s.pool = r.pool /\ s.seen = r.seen
        /\ s.tx = r.tx
    BY <2>1 DEF IsRecord
  <2> HIDE DEF s
  <2> QED BY <2>1, <2>2
<1>4. \A u \in Trade : IsRecord(trade'[u])
  BY <1>2, <1>3
<1>5. ASSUME NEW u \in Trade PROVE RecordOK(trade[u])'
  <2>1. CASE f[u].state \in {"reading", "sent"}
    <3>1. RecordOK(trade[u])
      BY DEF ReadingOK
    <3>2. Transaction(trade'[u]) = Transaction(trade[u])
      BY <1>3, <2>1, SameTransaction DEF TradeTypes
    <3>3. Transaction(trade[u])' = Transaction(trade[u])
      BY <3>2, TransactionThen
    <3>4. trade[u].state \in {"reading", "sent"}
      BY <2>1
    <3>5. Done(trade[u]) => Done(trade[u])'
      BY <1>3, <2>1 DEF Done, Ahead
    <3> QED BY <1>3, <2>1, <3>1, <3>3, <3>4, <3>5 DEF RecordOK
  <2>2. CASE f[u].state \notin {"reading", "sent"}
    BY <1>2, <2>2 DEF RecordOK
  <2> QED BY <2>1, <2>2
<1> QED BY <1>1, <1>4, <1>5 DEF TradesTyped, ReadingOK

LEMMA IdleIs ==
    /\ IsRecord(IdleTrade) /\ IdleTrade.state = "idle" /\ IdleTrade.side = "none"
    /\ IdleTrade.clean = TRUE /\ IdleTrade.known = Closed /\ IdleTrade.seen = {}
    /\ IdleTrade.amount = 0 /\ IdleTrade.prefer = FALSE
<1>1. <<>> \in Seq(StageNames)
  OBVIOUS
<1>2. NoPool \in Pools /\ Closed \in Int
  BY DEF NoPool, Pools, Closed
<1> QED BY <1>1, <1>2 DEF IdleTrade, IsRecord, States

\* The record of a trade that is over.
LEMMA OverIs ==
    ASSUME NEW state \in States
    PROVE  /\ IsRecord(Over(state)) /\ Over(state).state = state /\ Over(state).side = "none"
           /\ state \notin {"reading", "sent"} => RecordOK(Over(state))
<1>1. IsRecord(Over(state)) /\ Over(state).state = state /\ Over(state).side = "none"
  <2> DEFINE r == IdleTrade
  <2>1. IsRecord(r) /\ r.side = "none"
    BY IdleIs
  <2>2. Over(state) = [r EXCEPT !.state = state]
    BY DEF Over
  <2> HIDE DEF r
  <2> QED BY <2>1, <2>2 DEF IsRecord
<1> QED BY <1>1 DEF RecordOK

LEMMA EndsKeeps ==
    ASSUME TradeTypes, ReadingOK, UNCHANGED <<market, wallet>>, NEW t \in Trade,
           NEW state \in States, state \notin {"reading", "sent"}, Ends(t, state)
    PROVE  TradesTyped' /\ ReadingOK'
BY OverIs, BecomesKeeps DEF Ends

-----------------------------------------------------------------------------
(* Reading the market                                                      *)

\* A trade whose next stage is due.
LEMMA WhenDue ==
    ASSUME TradeTypes, ReadingOK, NEW t \in Trade, NEW stage, Due(t, stage)
    PROVE  /\ IsRecord(trade[t]) /\ trade[t].state = "reading" /\ trade[t].todo # <<>>
           /\ Done(trade[t]) /\ (trade[t].clean => UpToDate(trade[t]))
           /\ Ahead(trade[t]) = {stage} \union ToSet(Tail(trade[t].todo))
           /\ Tail(trade[t].todo) \in Seq(StageNames)
<1>1. IsRecord(trade[t]) /\ trade[t].state = "reading" /\ trade[t].todo # <<>>
      /\ Head(trade[t].todo) = stage /\ RecordOK(trade[t])
  BY DEF Due, TradeTypes, TradesTyped, ReadingOK
<1>2. trade[t].todo \in Seq(StageNames)
  BY <1>1 DEF IsRecord
<1> QED BY <1>1, <1>2, TailSet DEF RecordOK, Ahead

\* The stage taken, r has the rest to do and is otherwise old but for what was read.
Took(r, old, pool, amount, seen, clean) ==
    /\ IsRecord(r) /\ r.state = "reading" /\ r.todo = Tail(old.todo) /\ r.side = old.side
    /\ r.prefer = old.prefer /\ r.known = old.known /\ r.pool = pool /\ r.amount = amount
    /\ r.seen = seen /\ r.clean = clean

LEMMA TailTaken ==
    ASSUME NEW s, IsRecord(s), s.state = "reading", Tail(s.todo) \in Seq(StageNames)
    PROVE  Took([s EXCEPT !.todo = Tail(@)], s, s.pool, s.amount, s.seen, s.clean)
<1> DEFINE todo == Tail(s.todo)
<1>1. todo \in Seq(StageNames)
  OBVIOUS
<1> HIDE DEF todo
<1>2. Took([s EXCEPT !.todo = todo], s, s.pool, s.amount, s.seen, s.clean)
        \/ todo # Tail(s.todo)
  BY <1>1 DEF IsRecord, Took
<1> QED BY <1>2 DEF todo

LEMMA CopyTaken ==
    ASSUME NEW old, IsRecord(old), old.state = "reading", Tail(old.todo) \in Seq(StageNames),
           NEW pool \in Pools, NEW clean, clean \in BOOLEAN
    PROVE  Took([[old EXCEPT !.pool = pool, !.clean = clean] EXCEPT !.todo = Tail(@)],
                old, pool, old.amount, old.seen, clean)
<1> DEFINE q == [old EXCEPT !.pool = pool]
           s == [old EXCEPT !.pool = pool, !.clean = clean]
<1>0. /\ IsRecord(q) /\ q.state = "reading" /\ q.todo = old.todo /\ q.side = old.side
      /\ q.prefer = old.prefer /\ q.known = old.known /\ q.pool = pool /\ q.amount = old.amount
      /\ q.seen = old.seen
  BY DEF IsRecord
<1>4. s = [q EXCEPT !.clean = clean]
  OBVIOUS
<1> HIDE DEF q, s
<1>1. /\ IsRecord(s) /\ s.state = "reading" /\ s.todo = old.todo /\ s.side = old.side
      /\ s.prefer = old.prefer /\ s.known = old.known /\ s.pool = pool /\ s.amount = old.amount
      /\ s.seen = old.seen /\ s.clean = clean
  BY <1>0, <1>4 DEF IsRecord
<1> HIDE DEF s
<1>2. Took([s EXCEPT !.todo = Tail(@)], s, s.pool, s.amount, s.seen, s.clean)
  BY <1>1, TailTaken
<1>3. Took([s EXCEPT !.todo = Tail(@)], old, pool, old.amount, old.seen, clean)
  BY <1>1, <1>2 DEF Took
<1> QED BY <1>3 DEF s

LEMMA PoolTaken ==
    ASSUME NEW old, IsRecord(old), old.state = "reading", Tail(old.todo) \in Seq(StageNames),
           NEW pool \in Pools
    PROVE  Took([[old EXCEPT !.pool = pool] EXCEPT !.todo = Tail(@)],
                old, pool, old.amount, old.seen, old.clean)
<1> DEFINE s == [old EXCEPT !.pool = pool]
<1>1. /\ IsRecord(s) /\ s.state = "reading" /\ s.todo = old.todo /\ s.side = old.side
      /\ s.prefer = old.prefer /\ s.known = old.known /\ s.pool = pool /\ s.amount = old.amount
      /\ s.seen = old.seen /\ s.clean = old.clean
  BY DEF IsRecord
<1> HIDE DEF s
<1>2. Took([s EXCEPT !.todo = Tail(@)], s, s.pool, s.amount, s.seen, s.clean)
  BY <1>1, TailTaken
<1>3. Took([s EXCEPT !.todo = Tail(@)], old, pool, old.amount, old.seen, old.clean)
  BY <1>1, <1>2 DEF Took
<1> QED BY <1>3 DEF s

LEMMA CurveSeenIs ==
    ASSUME NEW p
    PROVE  CurveSeen(p) \in Pools /\ CurveSeen(p) # NoPool /\ CurveSeen(p).on = "curve"
BY DEF CurveSeen, CurveWith, Pools, NoPool

LEMMA HotKeeps ==
    ASSUME TradeInv, NEW t \in Trade, ReadHot(t)
    PROVE  TradesTyped' /\ ReadingOK'
<1> DEFINE old == trade[t]
           copy == hot[trade[t].prefer]
           r == [[old EXCEPT !.pool = copy.pool, !.clean = @ /\ copy.clean] EXCEPT !.todo = Tail(@)]
<1>0. TradeTypes /\ ReadingOK /\ UNCHANGED <<market, wallet>> /\ Due(t, "market")
  BY DEF TradeInv, ReadHot
<1>1. /\ IsRecord(old) /\ old.state = "reading" /\ Done(old) /\ (old.clean => UpToDate(old))
      /\ Ahead(old) = {"market"} \union ToSet(Tail(old.todo)) /\ Tail(old.todo) \in Seq(StageNames)
  BY <1>0, WhenDue
<1>2. Becomes(t, r)
  BY DEF ReadHot, Reads, Cached
<1>3. old.prefer \in BOOLEAN /\ copy.pool # NoPool
  BY <1>1 DEF ReadHot, Cached, IsRecord
<1>4. /\ copy.pool \in Pools /\ copy.clean \in BOOLEAN /\ market.launchpad # "bagsapp"
      /\ copy.clean => copy.pool = CurveSeen(old.prefer)
  BY <1>3 DEF TradeInv, TradeTypes, CopiesOK
<1> HIDE DEF old, copy
<1>5. /\ Took(r, old, copy.pool, old.amount, old.seen, r.clean)
      /\ r.clean => old.clean /\ copy.clean
  <2> DEFINE clean == old.clean /\ copy.clean
  <2>1. clean \in BOOLEAN /\ (clean => old.clean /\ copy.clean)
    BY <1>1, <1>4
  <2>2. r = [[old EXCEPT !.pool = copy.pool, !.clean = clean] EXCEPT !.todo = Tail(@)]
    OBVIOUS
  <2> HIDE DEF clean, r
  <2>3. Took(r, old, copy.pool, old.amount, old.seen, clean)
    BY <1>1, <1>4, <2>1, <2>2, CopyTaken
  <2> QED BY <2>1, <2>3 DEF Took
<1> HIDE DEF r
<1>6. Ahead(r) = ToSet(Tail(old.todo))
  BY <1>5 DEF Took, Ahead
<1>7. Done(r)
  BY <1>1, <1>5, <1>6 DEF Took, Done
<1>8. r.clean => UpToDate(r)
  BY <1>1, <1>4, <1>5, <1>6 DEF Took, UpToDate
<1>9. RecordOK(r) /\ IsRecord(r)
  BY <1>5, <1>7, <1>8 DEF Took, RecordOK
<1> QED BY <1>0, <1>2, <1>9, BecomesKeeps

LEMMA CurveKeeps ==
    ASSUME TradeInv, NEW t \in Trade, ReadCurve(t)
    PROVE  TradesTyped' /\ ReadingOK'
<1> DEFINE old == trade[t]
           pool == CurveSeen(trade[t].prefer)
           r == [[old EXCEPT !.pool = pool] EXCEPT !.todo = Tail(@)]
<1>0. TradeTypes /\ ReadingOK /\ UNCHANGED <<market, wallet>> /\ Due(t, "market")
  BY DEF TradeInv, ReadCurve
<1>1. /\ IsRecord(old) /\ old.state = "reading" /\ Done(old) /\ (old.clean => UpToDate(old))
      /\ Ahead(old) = {"market"} \union ToSet(Tail(old.todo)) /\ Tail(old.todo) \in Seq(StageNames)
  BY <1>0, WhenDue
<1>2. Becomes(t, r) /\ market.launchpad # "bagsapp"
  BY DEF ReadCurve, Reads
<1>3. pool \in Pools /\ pool = CurveSeen(old.prefer)
  BY CurveSeenIs
<1> HIDE DEF old, pool
<1>5. Took(r, old, pool, old.amount, old.seen, old.clean)
  BY <1>1, <1>3, PoolTaken
<1> HIDE DEF r
<1>6. Ahead(r) = ToSet(Tail(old.todo))
  BY <1>5 DEF Took, Ahead
<1>7. Done(r)
  BY <1>1, <1>5, <1>6 DEF Took, Done
<1>8. r.clean => UpToDate(r)
  BY <1>1, <1>2, <1>3, <1>5, <1>6 DEF Took, UpToDate
<1>9. RecordOK(r) /\ IsRecord(r)
  BY <1>5, <1>7, <1>8 DEF Took, RecordOK
<1> QED BY <1>0, <1>2, <1>9, BecomesKeeps

LEMMA UnusableKeeps ==
    ASSUME TradeInv, NEW t \in Trade, Due(t, "market"), market.launchpad = "bagsapp",
           Unusable(t), UNCHANGED <<market, wallet>>
    PROVE  TradesTyped' /\ ReadingOK'
<1> DEFINE old == trade[t]
           todo == <<"damm">> \o Tail(old.todo)
           r == [old EXCEPT !.todo = <<"damm">> \o Tail(@)]
<1>0. TradeTypes /\ ReadingOK
  BY DEF TradeInv
<1>1. /\ IsRecord(old) /\ old.state = "reading" /\ Done(old) /\ (old.clean => UpToDate(old))
      /\ Ahead(old) = {"market"} \union ToSet(Tail(old.todo)) /\ Tail(old.todo) \in Seq(StageNames)
  BY <1>0, WhenDue
<1>2. Becomes(t, r)
  BY DEF Unusable
<1>3. todo \in Seq(StageNames) /\ ToSet(todo) = {"damm"} \union ToSet(Tail(old.todo))
  BY <1>1, DammFirst
<1>4. r = [old EXCEPT !.todo = todo]
  OBVIOUS
<1> HIDE DEF old, todo, r
<1>5. /\ IsRecord(r) /\ r.state = "reading" /\ r.side = old.side /\ r.prefer = old.prefer
      /\ r.known = old.known /\ r.amount = old.amount /\ r.seen = old.seen /\ r.clean = old.clean
      /\ r.todo = todo
  BY <1>1, <1>3, <1>4 DEF IsRecord
<1>6. Ahead(r) = {"damm"} \union ToSet(Tail(old.todo))
  BY <1>3, <1>5 DEF Ahead
<1>7. Done(r)
  BY <1>1, <1>5, <1>6 DEF Done
<1>8. r.clean => UpToDate(r)
  BY <1>1, <1>5, <1>6 DEF UpToDate
<1>9. RecordOK(r)
  BY <1>5, <1>7, <1>8 DEF RecordOK
<1> QED BY <1>0, <1>2, <1>5, <1>9, BecomesKeeps

LEMMA DbcKeeps ==
    ASSUME TradeInv, NEW t \in Trade, ReadDbc(t)
    PROVE  TradesTyped' /\ ReadingOK'
<1> DEFINE old == trade[t]
           pool == CurveWith("none")
           r == [[old EXCEPT !.pool = pool] EXCEPT !.todo = Tail(@)]
<1>0. /\ TradeTypes /\ ReadingOK /\ UNCHANGED <<market, wallet>> /\ Due(t, "market")
      /\ market.launchpad = "bagsapp"
  BY DEF TradeInv, ReadDbc
<1>1. /\ IsRecord(old) /\ old.state = "reading" /\ Done(old) /\ (old.clean => UpToDate(old))
      /\ Ahead(old) = {"market"} \union ToSet(Tail(old.todo)) /\ Tail(old.todo) \in Seq(StageNames)
  BY <1>0, WhenDue
<1>2. CASE Unusable(t)
  BY <1>0, <1>2, UnusableKeeps
<1>3. CASE market.phase = "curve" /\ Becomes(t, r)
  <2>1. pool \in Pools
    BY DEF CurveWith, Pools
  <2> HIDE DEF old
  <2>2. Took(r, old, pool, old.amount, old.seen, old.clean)
    <3> HIDE DEF pool
    <3> QED BY <1>1, <2>1, PoolTaken
  <2> HIDE DEF r
  <2>3. Ahead(r) = ToSet(Tail(old.todo))
    BY <2>2 DEF Took, Ahead
  <2>4. Done(r)
    BY <1>1, <2>2, <2>3 DEF Took, Done
  <2>5. r.clean => UpToDate(r)
    BY <1>0, <1>1, <1>3, <2>2, <2>3 DEF Took, UpToDate
  <2>6. RecordOK(r) /\ IsRecord(r)
    BY <2>2, <2>4, <2>5 DEF Took, RecordOK
  <2> QED BY <1>0, <1>3, <2>6, BecomesKeeps
<1> QED BY <1>2, <1>3 DEF ReadDbc, Reads

LEMMA DammKeeps ==
    ASSUME TradeInv, NEW t \in Trade, ReadDamm(t)
    PROVE  TradesTyped' /\ ReadingOK'
<1> DEFINE old == trade[t]
           pool == [on |-> "damm", vault |-> "none"]
           r == [[old EXCEPT !.pool = pool] EXCEPT !.todo = Tail(@)]
<1>0. TradeTypes /\ ReadingOK /\ UNCHANGED <<market, wallet>> /\ Due(t, "damm")
  BY DEF TradeInv, ReadDamm
<1>1. /\ IsRecord(old) /\ old.state = "reading" /\ Done(old) /\ (old.clean => UpToDate(old))
      /\ Ahead(old) = {"damm"} \union ToSet(Tail(old.todo)) /\ Tail(old.todo) \in Seq(StageNames)
  BY <1>0, WhenDue
<1>2. CASE Ends(t, "refused")
  BY <1>0, <1>2, EndsKeeps DEF States
<1>3. CASE market.phase = "migrated" /\ Becomes(t, r)
  <2>1. pool \in Pools /\ pool.on = "damm"
    BY DEF Pools
  <2>2. market.launchpad = "bagsapp"
    BY <1>1 DEF Done
  <2> HIDE DEF old, pool
  <2>3. Took(r, old, pool, old.amount, old.seen, old.clean)
    BY <1>1, <2>1, PoolTaken
  <2> HIDE DEF r
  <2>4. Ahead(r) = ToSet(Tail(old.todo))
    BY <2>3 DEF Took, Ahead
  <2>5. Done(r)
    BY <1>1, <2>3, <2>4 DEF Took, Done
  <2>6. r.clean => UpToDate(r)
    BY <1>1, <1>3, <2>1, <2>2, <2>3, <2>4 DEF Took, UpToDate
  <2>7. RecordOK(r) /\ IsRecord(r)
    BY <2>3, <2>5, <2>6 DEF Took, RecordOK
  <2> QED BY <1>0, <1>3, <2>7, BecomesKeeps
<1> QED BY <1>2, <1>3 DEF ReadDamm, Reads

-----------------------------------------------------------------------------
(* Reading amounts and accounts                                            *)

LEMMA AmountTaken ==
    ASSUME NEW old, IsRecord(old), old.state = "reading", Tail(old.todo) \in Seq(StageNames),
           NEW amount \in Nat
    PROVE  Took([[old EXCEPT !.amount = amount] EXCEPT !.todo = Tail(@)],
                old, old.pool, amount, old.seen, old.clean)
<1> DEFINE s == [old EXCEPT !.amount = amount]
<1>1. /\ IsRecord(s) /\ s.state = "reading" /\ s.todo = old.todo /\ s.side = old.side
      /\ s.prefer = old.prefer /\ s.known = old.known /\ s.pool = old.pool /\ s.amount = amount
      /\ s.seen = old.seen /\ s.clean = old.clean
  BY DEF IsRecord
<1> HIDE DEF s
<1>2. Took([s EXCEPT !.todo = Tail(@)], s, s.pool, s.amount, s.seen, s.clean)
  BY <1>1, TailTaken
<1>3. Took([s EXCEPT !.todo = Tail(@)], old, old.pool, amount, old.seen, old.clean)
  BY <1>1, <1>2 DEF Took
<1> QED BY <1>3 DEF s

LEMMA SeenTaken ==
    ASSUME NEW old, IsRecord(old), old.state = "reading", Tail(old.todo) \in Seq(StageNames),
           NEW seen \in SUBSET Accounts
    PROVE  Took([[old EXCEPT !.seen = seen] EXCEPT !.todo = Tail(@)],
                old, old.pool, old.amount, seen, old.clean)
<1> DEFINE s == [old EXCEPT !.seen = seen]
<1>1. /\ IsRecord(s) /\ s.state = "reading" /\ s.todo = old.todo /\ s.side = old.side
      /\ s.prefer = old.prefer /\ s.known = old.known /\ s.pool = old.pool
      /\ s.amount = old.amount /\ s.seen = seen /\ s.clean = old.clean
  BY DEF IsRecord
<1> HIDE DEF s
<1>2. Took([s EXCEPT !.todo = Tail(@)], s, s.pool, s.amount, s.seen, s.clean)
  BY <1>1, TailTaken
<1>3. Took([s EXCEPT !.todo = Tail(@)], old, old.pool, old.amount, seen, old.clean)
  BY <1>1, <1>2 DEF Took
<1> QED BY <1>3 DEF s

\* An amount that is bought or sold.
LEMMA AmountIs ==
    ASSUME TradeTypes, NEW t \in Trade, IsRecord(trade[t]), NEW amount \in Nat,
           Done(trade[t]), trade[t].clean => UpToDate(trade[t]), Due(t, "amount"),
           trade[t].state = "reading",
           Ahead(trade[t]) = {"amount"} \union ToSet(Tail(trade[t].todo)),
           Tail(trade[t].todo) \in Seq(StageNames),
           trade[t].side = "sell" => amount > 0,
           trade[t].side = "sell" /\ trade[t].known \in {Closed, wallet["token"]}
               => amount <= wallet["token"],
           trade[t].side = "buy" => amount = Lacking
    PROVE  LET r == [[trade[t] EXCEPT !.amount = amount] EXCEPT !.todo = Tail(@)] IN
           IsRecord(r) /\ RecordOK(r)
<1> DEFINE old == trade[t]
           r == [[old EXCEPT !.amount = amount] EXCEPT !.todo = Tail(@)]
<1>1. Took(r, old, old.pool, amount, old.seen, old.clean)
  BY AmountTaken
<1> HIDE DEF r
<1>2. Ahead(r) = ToSet(Tail(old.todo))
  BY <1>1 DEF Took, Ahead
<1>3. Done(r)
  BY <1>1, <1>2 DEF Took, Done
<1>4. r.clean => UpToDate(r)
  BY <1>1, <1>2 DEF Took, UpToDate
<1> QED BY <1>1, <1>3, <1>4 DEF Took, RecordOK, r

LEMMA AmountKeeps ==
    ASSUME TradeInv, NEW t \in Trade, ReadAmount(t)
    PROVE  TradesTyped' /\ ReadingOK'
<1> DEFINE old == trade[t]
<1>0. TradeTypes /\ ReadingOK /\ UNCHANGED <<market, wallet>> /\ Due(t, "amount")
  BY DEF TradeInv, ReadAmount
<1>1. /\ IsRecord(old) /\ old.state = "reading" /\ Done(old) /\ (old.clean => UpToDate(old))
      /\ Ahead(old) = {"amount"} \union ToSet(Tail(old.todo)) /\ Tail(old.todo) \in Seq(StageNames)
  BY <1>0, WhenDue
<1>2. ASSUME NEW state \in {"nothing", "refused"}, Ends(t, state)
      PROVE  TradesTyped' /\ ReadingOK'
  BY <1>0, <1>2, EndsKeeps DEF States
<1>3. CASE Buying(t) /\ Reads(t, [trade[t] EXCEPT !.amount = Lacking])
  <2>1. Lacking \in Nat /\ old.side = "buy"
    BY <1>3 DEF Lacking, Buying
  <2> DEFINE r == [[trade[t] EXCEPT !.amount = Lacking] EXCEPT !.todo = Tail(@)]
  <2>2. IsRecord(r) /\ RecordOK(r)
    BY <1>0, <1>1, <2>1, AmountIs
  <2>3. Becomes(t, r)
    BY <1>3 DEF Reads
  <2> HIDE DEF r
  <2> QED BY <1>0, <2>2, <2>3, BecomesKeeps
<1>4. CASE /\ ~Buying(t)
           /\ Known(t) \/ wallet["token"] # Closed
           /\ SellAmount(t) # 0 /\ Reads(t, [trade[t] EXCEPT !.amount = SellAmount(t)])
  <2>1. old.side = "sell"
    BY <1>1, <1>4 DEF Buying, Done
  <2>2. PICK b \in Nat : /\ SellAmount(t) = Share(b, old.percent)
                         /\ old.known \in {Closed, wallet["token"]} => b = wallet["token"]
    <3>1. wallet["token"] \in Int /\ wallet["token"] >= Closed
      BY <1>0 DEF TradeTypes, Wallets, Accounts
    <3>2. CASE Known(t)
      <4>1. old.known \in Nat
        BY <1>1, <3>2 DEF Known, IsRecord, Closed
      <4> QED BY <3>2, <4>1 DEF SellAmount, Known
    <3>3. CASE ~Known(t)
      <4>1. wallet["token"] \in Nat
        BY <1>4, <3>1, <3>3 DEF Closed
      <4> QED BY <3>3, <4>1 DEF SellAmount
    <3> QED BY <3>2, <3>3
  <2>3. SellAmount(t) \in 0..b
    BY <1>1, <2>2, ShareBounds DEF IsRecord
  <2>4. /\ SellAmount(t) \in Nat /\ SellAmount(t) > 0
        /\ old.known \in {Closed, wallet["token"]} => SellAmount(t) <= wallet["token"]
    BY <1>4, <2>2, <2>3
  <2> DEFINE r == [[trade[t] EXCEPT !.amount = SellAmount(t)] EXCEPT !.todo = Tail(@)]
  <2>5. IsRecord(r) /\ RecordOK(r)
    BY <1>0, <1>1, <2>1, <2>4, AmountIs
  <2>6. Becomes(t, r)
    BY <1>4 DEF Reads
  <2> HIDE DEF r
  <2> QED BY <1>0, <2>5, <2>6, BecomesKeeps
<1> QED BY <1>2, <1>3, <1>4 DEF ReadAmount

LEMMA LookKeeps ==
    ASSUME TradeInv, NEW t \in Trade, NEW stage \in {"input", "output"}, Due(t, stage),
           Look(t, IF stage = "input" THEN Input(t) ELSE Target(t))
    PROVE  TradesTyped' /\ ReadingOK'
<1> DEFINE old == trade[t]
           a == IF stage = "input" THEN Input(t) ELSE Target(t)
           seen == IF wallet[a] = Closed THEN old.seen ELSE old.seen \union {a}
           r == [[old EXCEPT !.seen = seen] EXCEPT !.todo = Tail(@)]
<1>0. TradeTypes /\ ReadingOK /\ UNCHANGED <<market, wallet>>
  BY DEF TradeInv, Look
<1>1. /\ IsRecord(old) /\ old.state = "reading" /\ Done(old) /\ (old.clean => UpToDate(old))
      /\ Ahead(old) = {stage} \union ToSet(Tail(old.todo)) /\ Tail(old.todo) \in Seq(StageNames)
  BY <1>0, WhenDue
<1>2. Becomes(t, r)
  BY DEF Look, Reads
<1>3. /\ a = IF (stage = "input") = (old.side = "buy") THEN "wsol" ELSE "token"
      /\ a \in Accounts
  BY DEF Input, Target, Buying, Accounts
<1>4. seen \in SUBSET Accounts
  BY <1>1, <1>3 DEF IsRecord
<1> HIDE DEF old
<1>5. Took(r, old, old.pool, old.amount, seen, old.clean)
  <2> HIDE DEF seen
  <2> QED BY <1>1, <1>4, SeenTaken
<1> HIDE DEF r, a
<1>6. Ahead(r) = ToSet(Tail(old.todo))
  BY <1>5 DEF Took, Ahead
<1>7. Done(r)
  BY <1>1, <1>5, <1>6 DEF Took, Done
<1>8. r.clean => UpToDate(r)
  <2> SUFFICES ASSUME r.clean PROVE UpToDate(r)
    OBVIOUS
  <2>1. UpToDate(old) /\ old.side \in {"buy", "sell"}
    BY <1>1, <1>5 DEF Took, Done
  <2>2. CASE market.launchpad # "bagsapp"
    BY <1>1, <1>5, <1>6, <2>1, <2>2 DEF Took, UpToDate
  <2>3. CASE market.launchpad = "bagsapp" /\ old.side = "buy"
    BY <1>1, <1>3, <1>5, <1>6, <2>1, <2>3 DEF Took, UpToDate
  <2>4. CASE market.launchpad = "bagsapp" /\ old.side = "sell"
    BY <1>1, <1>3, <1>5, <1>6, <2>1, <2>4 DEF Took, UpToDate
  <2> QED BY <2>1, <2>2, <2>3, <2>4
<1>9. RecordOK(r) /\ IsRecord(r)
  BY <1>5, <1>7, <1>8 DEF Took, RecordOK
<1> QED BY <1>0, <1>2, <1>9, BecomesKeeps DEF r, old

-----------------------------------------------------------------------------
(* Beginning, sending and ending                                           *)

LEMMA RpcKeeps ==
    ASSUME TradeInv, NEW t \in Trade, RpcFails(t)
    PROVE  TradesTyped' /\ ReadingOK'
<1>1. TradeTypes /\ ReadingOK /\ UNCHANGED <<market, wallet>> /\ Ends(t, "refused")
  BY DEF TradeInv, RpcFails
<1> QED BY <1>1, EndsKeeps DEF States

LEMMA RevertKeeps ==
    ASSUME TradeInv, NEW t \in Trade, Revert(t)
    PROVE  TradesTyped' /\ ReadingOK'
<1>1. TradeTypes /\ ReadingOK /\ UNCHANGED <<market, wallet>> /\ Ends(t, "reverted")
  BY DEF TradeInv, Revert
<1> QED BY <1>1, EndsKeeps DEF States

LEMMA LostKeeps ==
    ASSUME TradeInv, NEW t \in Trade, Lost(t)
    PROVE  TradesTyped' /\ ReadingOK'
<1>1. TradeTypes /\ ReadingOK /\ UNCHANGED <<market, wallet>> /\ Ends(t, "lost")
  BY DEF TradeInv, Lost
<1> QED BY <1>1, EndsKeeps DEF States

\* r is old, compiled.
CompiledOf(r, old, tx) ==
    /\ IsRecord(r) /\ r.state = "sent" /\ r.tx = tx /\ r.side = old.side
    /\ r.prefer = old.prefer /\ r.known = old.known /\ r.pool = old.pool
    /\ r.amount = old.amount /\ r.seen = old.seen /\ r.clean = old.clean

LEMMA SentIs ==
    ASSUME NEW old, IsRecord(old), NEW tx
    PROVE  CompiledOf([old EXCEPT !.state = "sent", !.tx = tx], old, tx)
<1> DEFINE q == [old EXCEPT !.state = "sent"]
           r == [old EXCEPT !.state = "sent", !.tx = tx]
<1>1. r = [q EXCEPT !.tx = tx]
  OBVIOUS
<1>2. /\ IsRecord(q) /\ q.state = "sent" /\ q.side = old.side
      /\ q.prefer = old.prefer /\ q.known = old.known /\ q.pool = old.pool
      /\ q.amount = old.amount /\ q.seen = old.seen /\ q.clean = old.clean
  BY DEF IsRecord, States
<1> HIDE DEF q, r
<1>3. /\ IsRecord(r) /\ r.state = "sent" /\ r.tx = tx /\ r.side = q.side
      /\ r.prefer = q.prefer /\ r.known = q.known /\ r.pool = q.pool
      /\ r.amount = q.amount /\ r.seen = q.seen /\ r.clean = q.clean
  BY <1>1, <1>2 DEF IsRecord
<1> QED BY <1>2, <1>3 DEF r, CompiledOf

LEMMA SendKeeps ==
    ASSUME TradeInv, NEW t \in Trade, Send(t)
    PROVE  TradesTyped' /\ ReadingOK'
<1> DEFINE old == trade[t]
           r == [old EXCEPT !.state = "sent", !.tx = Transaction(old)]
<1>0. TradeTypes /\ ReadingOK /\ UNCHANGED <<market, wallet>> /\ Becomes(t, r)
  BY DEF TradeInv, Send
<1>1. /\ IsRecord(old) /\ old.state = "reading" /\ Done(old) /\ (old.clean => UpToDate(old))
      /\ old.todo = <<>>
  BY <1>0 DEF TradeTypes, TradesTyped, ReadingOK, RecordOK, Send
<1>2. Ahead(old) = {}
  BY <1>1 DEF Ahead, ToSet
<1> HIDE DEF old
<1>3. /\ IsRecord(r) /\ r.state = "sent" /\ r.tx = Transaction(old) /\ r.side = old.side
      /\ r.prefer = old.prefer /\ r.known = old.known /\ r.pool = old.pool
      /\ r.amount = old.amount /\ r.seen = old.seen /\ r.clean = old.clean
  <2> DEFINE tx == Transaction(old)
  <2> HIDE DEF tx
  <2>1. r = [old EXCEPT !.state = "sent", !.tx = tx]
    BY DEF tx
  <2> HIDE DEF r
  <2>2. CompiledOf(r, old, tx)
    BY <1>1, <2>1, SentIs
  <2> QED BY <2>2 DEF tx, CompiledOf
<1> HIDE DEF r
<1>4. Transaction(r) = Transaction(old)
  BY <1>0, <1>3, SameTransaction DEF TradeTypes
<1>5. Ahead(r) = {}
  BY <1>3 DEF Ahead
<1>6. Done(r)
  BY <1>1, <1>2, <1>3, <1>5 DEF Done
<1>7. r.clean => UpToDate(r)
  BY <1>1, <1>2, <1>3, <1>5 DEF UpToDate
<1>8. RecordOK(r)
  BY <1>3, <1>4, <1>6, <1>7 DEF RecordOK
<1> QED BY <1>0, <1>3, <1>8, BecomesKeeps

\* The record of a trade that begins.
Begun(r, todo, side, known, clean) ==
    /\ IsRecord(r) /\ r.state = "reading" /\ r.todo = todo /\ r.side = side
    /\ r.known = known /\ r.seen = {} /\ r.clean = clean

LEMMA BegunIs ==
    ASSUME NEW todo \in Seq(StageNames), NEW side \in {"buy", "sell"}, NEW percent \in 0..100,
           NEW prefer, prefer \in BOOLEAN, NEW known \in Int, known >= Closed,
           NEW clean, clean \in BOOLEAN,
           NEW r, r = [IdleTrade EXCEPT !.state = "reading", !.todo = todo, !.side = side,
                                        !.percent = percent, !.prefer = prefer, !.known = known,
                                        !.clean = clean]
    PROVE  Begun(r, todo, side, known, clean)
<1> DEFINE q1 == [IdleTrade EXCEPT !.state = "reading"]
           q2 == [q1 EXCEPT !.todo = todo]
           q3 == [q2 EXCEPT !.side = side]
           q4 == [q3 EXCEPT !.percent = percent]
           q5 == [q4 EXCEPT !.prefer = prefer]
           q6 == [q5 EXCEPT !.known = known]
           q7 == [q6 EXCEPT !.clean = clean]
<1>0. r = q7
  OBVIOUS
<1>1. IsRecord(q1) /\ q1.state = "reading" /\ q1.seen = {}
  <2> DEFINE q0 == IdleTrade
  <2>1. IsRecord(q0) /\ q0.seen = {}
    BY IdleIs
  <2> HIDE DEF q0
  <2>2. LET q == [q0 EXCEPT !.state = "reading"] IN
        IsRecord(q) /\ q.state = "reading" /\ q.seen = {}
    BY <2>1 DEF IsRecord, States
  <2> QED BY <2>2 DEF q0
<1> HIDE DEF q1
<1>2. IsRecord(q2) /\ q2.state = "reading" /\ q2.seen = {} /\ q2.todo = todo
  BY <1>1 DEF IsRecord
<1> HIDE DEF q2
<1>3. IsRecord(q3) /\ q3.state = "reading" /\ q3.seen = {} /\ q3.todo = todo /\ q3.side = side
  BY <1>2 DEF IsRecord
<1> HIDE DEF q3
<1>4. IsRecord(q4) /\ q4.state = "reading" /\ q4.seen = {} /\ q4.todo = todo /\ q4.side = side
  BY <1>3 DEF IsRecord
<1> HIDE DEF q4
<1>5. IsRecord(q5) /\ q5.state = "reading" /\ q5.seen = {} /\ q5.todo = todo /\ q5.side = side
  BY <1>4 DEF IsRecord
<1> HIDE DEF q5
<1>6. /\ IsRecord(q6) /\ q6.state = "reading" /\ q6.seen = {} /\ q6.todo = todo
      /\ q6.side = side /\ q6.known = known
  BY <1>5 DEF IsRecord
<1> HIDE DEF q6
<1>7. /\ IsRecord(q7) /\ q7.state = "reading" /\ q7.seen = {} /\ q7.todo = todo
      /\ q7.side = side /\ q7.known = known /\ q7.clean = clean
  BY <1>6 DEF IsRecord
<1> HIDE DEF q7
<1> QED BY <1>0, <1>7 DEF Begun

LEMMA BeginKeeps ==
    ASSUME TradeInv, NEW t \in Trade, Begin(t)
    PROVE  TradesTyped' /\ ReadingOK'
<1>0. TradeTypes /\ ReadingOK /\ UNCHANGED <<market, wallet>>
  BY DEF TradeInv, Begin
<1>1. PICK side \in {"buy", "sell"}, percent \in Percents, prefer \in Preferences,
           known \in {Closed, kept.n} :
        Becomes(t, [IdleTrade EXCEPT !.state = "reading", !.todo = Stages(side), !.side = side,
                                     !.percent = percent, !.prefer = prefer, !.known = known,
                                     !.clean = known = Closed \/ kept.clean])
  BY Zenon DEF Begin
<1>2. /\ percent \in 0..100 /\ prefer \in BOOLEAN /\ known \in Int /\ known >= Closed
      /\ kept.clean \in BOOLEAN
      /\ known = Closed \/ kept.clean => known \in {Closed, wallet["token"]}
  <2>1. percent \in 0..100 /\ prefer \in BOOLEAN
    BY TradingAssumption DEF Preferences
  <2>2. kept.n \in Int /\ kept.n >= Closed /\ kept.clean \in BOOLEAN
    BY DEF TradeInv, TradeTypes
  <2>3. kept.clean => kept.n \in {Closed, wallet["token"]}
    BY DEF TradeInv, CopiesOK
  <2> QED BY <2>1, <2>2, <2>3 DEF Closed
<1> DEFINE todo == Stages(side)
           clean == known = Closed \/ kept.clean
           r == [IdleTrade EXCEPT !.state = "reading", !.todo = todo, !.side = side,
                                  !.percent = percent, !.prefer = prefer, !.known = known,
                                  !.clean = clean]
<1>3. clean \in BOOLEAN /\ (clean => known \in {Closed, wallet["token"]})
  BY <1>2
<1>4. /\ todo \in Seq(StageNames) /\ "market" \in ToSet(todo) /\ "damm" \notin ToSet(todo)
      /\ side = "sell" => "amount" \in ToSet(todo)
      /\ market.launchpad = "bonk" /\ market.quote = "usd1" => "amount" \in ToSet(todo)
      /\ market.launchpad = "bagsapp" => {"input", "output"} \subseteq ToSet(todo)
  BY <1>0, StagesAre
<1> HIDE DEF todo, clean
<1>5. /\ IsRecord(r) /\ r.state = "reading" /\ r.todo = todo /\ r.side = side
      /\ r.known = known /\ r.seen = {} /\ r.clean = clean
  <2>1. Begun(r, todo, side, known, clean)
    <3>1. r = [IdleTrade EXCEPT !.state = "reading", !.todo = todo, !.side = side,
                                !.percent = percent, !.prefer = prefer, !.known = known,
                                !.clean = clean]
      OBVIOUS
    <3> HIDE DEF r
    <3> QED BY <1>2, <1>3, <1>4, <3>1, BegunIs
  <2> QED BY <2>1 DEF Begun
<1> HIDE DEF r
<1>6. Ahead(r) = ToSet(todo)
  BY <1>5 DEF Ahead
<1>7. Done(r)
  BY <1>4, <1>5, <1>6 DEF Done
<1>8. r.clean => UpToDate(r)
  BY <1>3, <1>4, <1>5, <1>6 DEF UpToDate
<1>9. RecordOK(r)
  BY <1>5, <1>7, <1>8 DEF RecordOK
<1> QED BY <1>0, <1>1, <1>5, <1>9, BecomesKeeps DEF r, todo, clean

-----------------------------------------------------------------------------
(* The copies and the market                                               *)

\* What is said of all but the trades.
Surroundings ==
    /\ market \in Markets
    /\ wallet \in Wallets /\ wallet["fresh"] = Closed
    /\ hot \in [BOOLEAN -> [pool : Pools, clean : BOOLEAN]]
    /\ kept \in [n : {i \in Int : i >= Closed}, clean : BOOLEAN]
    /\ MarketOK /\ CopiesOK

LEMMA Parts == TradeInv <=> Surroundings /\ TradesTyped /\ ReadingOK
BY DEF TradeInv, TradeTypes, Surroundings

LEMMA SurroundingsKept ==
    ASSUME Surroundings, UNCHANGED <<market, wallet, hot, kept>>
    PROVE  Surroundings'
BY DEF Surroundings, MarketOK, CopiesOK, CurveSeen

LEMMA CopyIs ==
    ASSUME NEW p \in BOOLEAN
    PROVE  /\ Copy(p) \in [pool : Pools, clean : BOOLEAN]
           /\ Copy(p).pool = CurveSeen(p) /\ Copy(p).clean = TRUE
BY CurveSeenIs DEF Copy

\* Copies that are made anew are as of now.
LEMMA CopiesRenewed ==
    ASSUME Surroundings, market.launchpad # "bagsapp", UNCHANGED <<market, wallet, kept>>,
           hot' \in [BOOLEAN -> [pool : Pools, clean : BOOLEAN]],
           \A p \in BOOLEAN : hot'[p] \in {hot[p], Copy(p)}
    PROVE  Surroundings'
<1>1. ASSUME NEW p \in BOOLEAN, hot'[p].clean, hot'[p].pool # NoPool
      PROVE  hot'[p].pool = CurveSeen(p)
  BY <1>1, CopyIs DEF Surroundings, CopiesOK
<1>2. \A p \in BOOLEAN : CurveSeen(p)' = CurveSeen(p)
  BY DEF CurveSeen
<1>3. CopiesOK'
  BY <1>1, <1>2 DEF CopiesOK, Surroundings
<1>4. MarketOK'
  BY DEF MarketOK, Surroundings
<1> QED BY <1>3, <1>4 DEF Surroundings

\* Copies that are spoiled say nothing any more.
LEMMA CopiesSpoiled ==
    ASSUME Surroundings, hot' = SpoiledHot, market'.launchpad = market.launchpad,
           \/ kept' = SpoiledKept
           \/ kept' = [n |-> wallet'["token"], clean |-> TRUE] /\ wallet' \in Wallets
    PROVE  /\ hot' \in [BOOLEAN -> [pool : Pools, clean : BOOLEAN]]
           /\ kept' \in [n : {i \in Int : i >= Closed}, clean : BOOLEAN]
           /\ CopiesOK'
<1>1. \A p \in BOOLEAN : /\ hot'[p] \in [pool : Pools, clean : BOOLEAN]
                         /\ hot'[p].pool = hot[p].pool /\ hot'[p].clean = FALSE
  BY DEF SpoiledHot, Surroundings
<1>2. hot' \in [BOOLEAN -> [pool : Pools, clean : BOOLEAN]]
  BY <1>1 DEF SpoiledHot
<1>3. /\ kept' \in [n : {i \in Int : i >= Closed}, clean : BOOLEAN]
      /\ kept'.clean => kept'.n = wallet'["token"]
  <2>1. CASE kept' = SpoiledKept
    BY <2>1 DEF SpoiledKept, Surroundings
  <2>2. CASE kept' = [n |-> wallet'["token"], clean |-> TRUE] /\ wallet' \in Wallets
    BY <2>2 DEF Wallets, Accounts
  <2> QED BY <2>1, <2>2
<1>4. CopiesOK'
  BY <1>1, <1>3 DEF CopiesOK, Surroundings
<1> QED BY <1>2, <1>3, <1>4

-----------------------------------------------------------------------------
(* The chain moves                                                         *)

LEMMA MovesKeep ==
    ASSUME TradeInv, trade' = Spoiled(trade), hot' = SpoiledHot, kept' = SpoiledKept,
           market' \in Markets,
           market'.launchpad = market.launchpad, market'.quote = market.quote, MarketOK',
           wallet' \in Wallets, wallet'["fresh"] = Closed
    PROVE  TradeInv'
<1>1. TradeTypes /\ ReadingOK /\ Surroundings
  BY Parts DEF TradeInv
<1>2. \A u \in Trade : /\ IsRecord(trade[u])
                       /\ trade[u].state \in {"reading", "sent"} => trade[u] = trade[u]
  BY <1>1 DEF TradeTypes, TradesTyped
<1>3. TradesTyped' /\ ReadingOK'
  BY <1>1, <1>2, SpoiledKeeps
<1>4. /\ hot' \in [BOOLEAN -> [pool : Pools, clean : BOOLEAN]]
      /\ kept' \in [n : {i \in Int : i >= Closed}, clean : BOOLEAN]
      /\ CopiesOK'
  BY <1>1, CopiesSpoiled
<1> QED BY <1>3, <1>4 DEF TradeInv, TradeTypes

LEMMA OthersKeeps ==
    ASSUME TradeInv, Others \/ OwnerWraps
    PROVE  TradeInv'
<1>1. /\ trade' = Spoiled(trade) /\ hot' = SpoiledHot /\ kept' = SpoiledKept /\ market' = market
      /\ \/ wallet' = wallet
         \/ wallet' = [wallet EXCEPT !["wsol"] = IF @ = Closed THEN 1 ELSE Closed]
  BY DEF Others, OwnerWraps, Moves
<1>2. wallet' \in Wallets /\ wallet'["fresh"] = Closed
  BY <1>1 DEF TradeInv, TradeTypes, Wallets, Accounts, Closed
<1>3. MarketOK'
  BY <1>1 DEF TradeInv, MarketOK
<1>4. market' \in Markets
  BY <1>1 DEF TradeInv, TradeTypes
<1> QED BY <1>1, <1>2, <1>3, <1>4, MovesKeep

LEMMA MarketMovesKeep ==
    ASSUME TradeInv, Completed \/ Migrated \/ SetupLands \/ SetupSeen
    PROVE  TradeInv'
<1>1. /\ trade' = Spoiled(trade) /\ hot' = SpoiledHot /\ kept' = SpoiledKept /\ wallet' = wallet
      /\ \/ market' = [market EXCEPT !.phase = "complete"]
         \/ market' = [market EXCEPT !.phase = "migrated"]
         \/ market.vault = "creator" /\ market' = [market EXCEPT !.vault = "sharing"]
         \/ market.vault = "sharing" /\ market' = [market EXCEPT !.shared = TRUE]
  BY DEF Completed, Migrated, SetupLands, SetupSeen, Moves
<1>2. wallet' \in Wallets /\ wallet'["fresh"] = Closed
  BY <1>1 DEF TradeInv, TradeTypes
<1>3. market \in Markets
  BY DEF TradeInv, TradeTypes
<1>4. /\ market' \in Markets
      /\ market'.launchpad = market.launchpad /\ market'.quote = market.quote
  BY <1>1, <1>3 DEF Markets
<1>5. MarketOK'
  BY <1>1, <1>3 DEF TradeInv, MarketOK, Markets
<1> QED BY <1>1, <1>2, <1>4, <1>5, MovesKeep

-----------------------------------------------------------------------------
(* A transaction runs                                                      *)

\* What a transaction that was sent does to the wallet.
LEMMA SentLands ==
    ASSUME TradeInv, NEW t \in Trade, trade[t].state = "sent"
    PROVE  LET v == After(wallet, trade[t].tx) IN
           /\ trade[t].side \in {"buy", "sell"}
           /\ v = Failed \/ Arrives(wallet, v, trade[t].side, trade[t].amount)
           /\ trade[t].clean /\ ~KnownToFail(trade[t]) => v # Failed
<1> DEFINE r == trade[t]
<1>1. /\ IsRecord(r) /\ r.state = "sent" /\ Done(r) /\ r.tx = Transaction(r)
      /\ r.clean => UpToDate(r)
  BY DEF TradeInv, TradeTypes, TradesTyped, ReadingOK, RecordOK
<1>2. TradeTypes /\ MarketOK /\ wallet \in Wallets /\ wallet["fresh"] = Closed
  BY DEF TradeInv, TradeTypes
<1> HIDE DEF r
<1>3. /\ r.side \in {"buy", "sell"} /\ r.amount \in Nat
      /\ r.side = "sell" => r.amount > 0
  BY <1>1 DEF Done, Ahead, IsRecord
<1>4. LET v == After(wallet, Transaction(r)) IN
      /\ v = Failed \/ Arrives(wallet, v, r.side, r.amount)
      /\ Ready(wallet, r) => v # Failed
  BY <1>2, <1>3, Lands
<1>5. r.clean /\ ~KnownToFail(r) => Ready(wallet, r)
  BY <1>1, <1>2, UpToDateIsReady
<1> QED BY <1>1, <1>3, <1>4, <1>5 DEF r

LEMMA LandKeeps ==
    ASSUME TradeInv, NEW t \in Trade, Land(t)
    PROVE  TradeInv'
<1> DEFINE f == [trade EXCEPT ![t] = Over("landed")]
<1>1. /\ trade[t].state = "sent" /\ wallet' = After(wallet, trade[t].tx) /\ wallet' # Failed
      /\ trade' = Spoiled(f) /\ hot' = SpoiledHot /\ market' = market
      /\ kept' = SpoiledKept \/ kept' = [n |-> wallet'["token"], clean |-> TRUE]
  BY DEF Land
<1>2. TradeTypes /\ ReadingOK /\ Surroundings /\ TradesTyped
  BY Parts DEF TradeInv
<1>3. wallet' \in Wallets /\ wallet'["fresh"] = Closed
  BY <1>1, SentLands DEF Arrives
<1>4. \A u \in Trade : f[u] = IF u = t THEN Over("landed") ELSE trade[u]
  BY <1>2 DEF TradesTyped
<1> HIDE DEF f
<1>5. \A u \in Trade : /\ IsRecord(f[u])
                       /\ f[u].state \in {"reading", "sent"} => f[u] = trade[u]
  <2>1. IsRecord(Over("landed")) /\ Over("landed").state = "landed"
    BY OverIs DEF States
  <2> QED BY <1>2, <1>4, <2>1 DEF TradesTyped
<1>6. TradesTyped' /\ ReadingOK'
  BY <1>1, <1>2, <1>5, SpoiledKeeps
<1>7. /\ hot' \in [BOOLEAN -> [pool : Pools, clean : BOOLEAN]]
      /\ kept' \in [n : {i \in Int : i >= Closed}, clean : BOOLEAN]
      /\ CopiesOK'
  BY <1>1, <1>2, <1>3, CopiesSpoiled
<1>8. MarketOK' /\ market' \in Markets
  BY <1>1, <1>2 DEF Surroundings, MarketOK
<1> QED BY <1>3, <1>6, <1>7, <1>8 DEF TradeInv, TradeTypes

-----------------------------------------------------------------------------
(* Every step                                                              *)

LEMMA KeepsAlone ==
    ASSUME TradeInv, UNCHANGED <<market, wallet, hot, kept>>, TradesTyped' /\ ReadingOK'
    PROVE  TradeInv'
<1>1. Surroundings
  BY Parts
<1>2. Surroundings'
  BY <1>1, SurroundingsKept
<1> QED BY <1>2 DEF TradeInv, TradeTypes, Surroundings

LEMMA CurveReadKeeps ==
    ASSUME TradeInv, NEW t \in Trade, ReadCurve(t)
    PROVE  TradeInv'
<1> DEFINE p == trade[t].prefer
<1>1. TradesTyped' /\ ReadingOK'
  BY CurveKeeps
<1>2. /\ UNCHANGED <<market, wallet, kept>> /\ market.launchpad # "bagsapp"
      /\ hot' = [hot EXCEPT ![p] = Copy(p)] \/ hot' = hot
  BY DEF ReadCurve
<1>3. p \in BOOLEAN /\ hot \in [BOOLEAN -> [pool : Pools, clean : BOOLEAN]] /\ Surroundings
  BY Parts DEF TradeInv, TradeTypes, TradesTyped, IsRecord
<1> HIDE DEF p
<1>4. /\ hot' \in [BOOLEAN -> [pool : Pools, clean : BOOLEAN]]
      /\ \A q \in BOOLEAN : hot'[q] \in {hot[q], Copy(q)}
  BY <1>2, <1>3, CopyIs
<1>5. Surroundings'
  BY <1>2, <1>3, <1>4, CopiesRenewed
<1> QED BY <1>1, <1>5 DEF TradeInv, TradeTypes, Surroundings

LEMMA CopyingKeeps ==
    ASSUME TradeInv, Refresh \/ Prime
    PROVE  TradeInv'
<1>1. TradeTypes /\ ReadingOK /\ Surroundings
  BY Parts DEF TradeInv
<1>2. market.launchpad # "bagsapp"
  <2> DEFINE copied == CASE market.launchpad = "pump" -> BOOLEAN
                         [] market.launchpad = "bonk" -> {FALSE}
                         [] market.launchpad = "bagsapp" -> {}
  <2>2. Prime => \E read \in SUBSET copied : \E prefer \in read : TRUE
    BY Zenon DEF Prime
  <2>3. market.launchpad = "bagsapp" => copied = {}
    BY Zenon
  <2> HIDE DEF copied
  <2>1. market.launchpad = "bagsapp" => ~Prime
    BY <2>2, <2>3
  <2> QED BY <2>1 DEF Refresh
<1>3. UNCHANGED <<market, wallet, kept, trade>>
  BY DEF Refresh, Prime
<1>4. /\ hot' \in [BOOLEAN -> [pool : Pools, clean : BOOLEAN]]
      /\ \A q \in BOOLEAN : hot'[q] \in {hot[q], Copy(q)}
  <2>1. CASE Refresh
    <3>1. PICK p \in BOOLEAN : hot' = [hot EXCEPT ![p] = Copy(p)]
      BY <2>1, Zenon DEF Refresh
    <3> QED BY <1>1, <3>1, CopyIs DEF Surroundings
  <2>2. CASE Prime
    <3>1. \E read : hot' = [q \in BOOLEAN |-> IF q \in read THEN Copy(q) ELSE hot[q]]
      BY <2>2, Zenon DEF Prime
    <3>2. PICK read : hot' = [q \in BOOLEAN |-> IF q \in read THEN Copy(q) ELSE hot[q]]
      BY <3>1
    <3> QED BY <1>1, <3>2, CopyIs DEF Surroundings
  <2> QED BY <2>1, <2>2
<1>5. TradesTyped' /\ ReadingOK'
  BY <1>1, <1>3, TradesKept
<1>6. Surroundings'
  BY <1>1, <1>2, <1>3, <1>4, CopiesRenewed
<1> QED BY <1>5, <1>6 DEF TradeInv, TradeTypes, Surroundings

LEMMA TradeStepKeeps ==
    ASSUME TradeInv, [TradingNext]_tradingVars
    PROVE  TradeInv'
<1>1. ASSUME NEW t \in Trade, Begin(t) PROVE TradeInv'
  BY <1>1, BeginKeeps, KeepsAlone DEF Begin
<1>2. ASSUME NEW t \in Trade, ReadHot(t) PROVE TradeInv'
  BY <1>2, HotKeeps, KeepsAlone DEF ReadHot
<1>3. ASSUME NEW t \in Trade, ReadCurve(t) PROVE TradeInv'
  BY <1>3, CurveReadKeeps
<1>4. ASSUME NEW t \in Trade, ReadDbc(t) PROVE TradeInv'
  BY <1>4, DbcKeeps, KeepsAlone DEF ReadDbc
<1>5. ASSUME NEW t \in Trade, ReadDamm(t) PROVE TradeInv'
  BY <1>5, DammKeeps, KeepsAlone DEF ReadDamm
<1>6. ASSUME NEW t \in Trade, ReadAmount(t) PROVE TradeInv'
  BY <1>6, AmountKeeps, KeepsAlone DEF ReadAmount
<1>7. ASSUME NEW t \in Trade, ReadInput(t) PROVE TradeInv'
  <2>1. TradesTyped' /\ ReadingOK'
    <3>1. /\ "input" \in {"input", "output"} /\ Due(t, "input")
          /\ Look(t, IF "input" = "input" THEN Input(t) ELSE Target(t))
      BY <1>7 DEF ReadInput
    <3> QED BY <3>1, LookKeeps
  <2> QED BY <1>7, <2>1, KeepsAlone DEF ReadInput, Look
<1>8. ASSUME NEW t \in Trade, ReadOutput(t) PROVE TradeInv'
  <2>1. TradesTyped' /\ ReadingOK'
    <3>1. /\ "output" \in {"input", "output"} /\ Due(t, "output")
          /\ Look(t, IF "output" = "input" THEN Input(t) ELSE Target(t))
      BY <1>8 DEF ReadOutput
    <3> QED BY <3>1, LookKeeps
  <2> QED BY <1>8, <2>1, KeepsAlone DEF ReadOutput, Look
<1>9. ASSUME NEW t \in Trade, RpcFails(t) PROVE TradeInv'
  BY <1>9, RpcKeeps, KeepsAlone DEF RpcFails
<1>10. ASSUME NEW t \in Trade, Send(t) PROVE TradeInv'
  BY <1>10, SendKeeps, KeepsAlone DEF Send
<1>11. ASSUME NEW t \in Trade, Land(t) PROVE TradeInv'
  BY <1>11, LandKeeps
<1>12. ASSUME NEW t \in Trade, Revert(t) PROVE TradeInv'
  BY <1>12, RevertKeeps, KeepsAlone DEF Revert
<1>13. ASSUME NEW t \in Trade, Lost(t) PROVE TradeInv'
  BY <1>13, LostKeeps, KeepsAlone DEF Lost
<1>14. CASE UNCHANGED tradingVars
  <2>1. UNCHANGED <<market, wallet, hot, kept>> /\ trade' = trade
    BY <1>14 DEF tradingVars
  <2>2. TradesTyped' /\ ReadingOK'
    BY <2>1, TradesKept DEF TradeInv
  <2> QED BY <2>1, <2>2, KeepsAlone
<1> QED BY <1>1, <1>2, <1>3, <1>4, <1>5, <1>6, <1>7, <1>8, <1>9, <1>10, <1>11, <1>12, <1>13, <1>14,
           CopyingKeeps, OthersKeeps, MarketMovesKeep DEF TradingNext

-----------------------------------------------------------------------------
(* The beginning                                                           *)

LEMMA WalletBegins ==
    ASSUME TradingInit
    PROVE  wallet \in Wallets /\ wallet["fresh"] = Closed
<1>1. PICK token \in {Closed, 1}, wsol \in {Closed, 1}, usd1 \in {Closed, 0, 1} :
        wallet = [a \in Accounts |-> CASE a = "token" -> token [] a = "wsol" -> wsol
                                       [] a = "usd1" -> usd1 [] a = "fresh" -> Closed]
  BY Zenon DEF TradingInit
<1> DEFINE value(a) == CASE a = "token" -> token [] a = "wsol" -> wsol
                         [] a = "usd1" -> usd1 [] a = "fresh" -> Closed
<1>2. /\ value("token") = token /\ value("wsol") = wsol /\ value("usd1") = usd1
      /\ value("fresh") = Closed
  BY Zenon
<1>3. wallet = [a \in Accounts |-> value(a)]
  BY <1>1, Zenon
<1> HIDE DEF value
<1> QED BY <1>2, <1>3 DEF Wallets, Accounts, Closed

\* A buy that the host compiles.
LEMMA AtomicIs ==
    ASSUME NEW lack \in {0, 1}
    PROVE  /\ IsRecord(AtomicBuy(lack)) /\ AtomicBuy(lack).side = "buy"
           /\ AtomicBuy(lack).amount = lack /\ AtomicBuy(lack).prefer = FALSE
           /\ AtomicBuy(lack).known = Closed /\ AtomicBuy(lack).clean = TRUE
           /\ AtomicBuy(lack).pool
                = CurveWith(IF market.launchpad = "pump" THEN "creator" ELSE "none")
<1> DEFINE pool == CurveWith(IF market.launchpad = "pump" THEN "creator" ELSE "none")
           q0 == IdleTrade
           q1 == [q0 EXCEPT !.side = "buy"]
           q2 == [q1 EXCEPT !.amount = lack]
           q3 == [q2 EXCEPT !.pool = pool]
<1>1. AtomicBuy(lack) = q3
  BY DEF AtomicBuy
<1>2. pool \in Pools
  BY DEF CurveWith, Pools
<1>3. IsRecord(q0) /\ q0.prefer = FALSE /\ q0.known = Closed /\ q0.clean = TRUE
  BY IdleIs
<1> HIDE DEF q0, pool
<1>4. IsRecord(q1) /\ q1.prefer = FALSE /\ q1.known = Closed /\ q1.clean = TRUE /\ q1.side = "buy"
  BY <1>3 DEF IsRecord
<1> HIDE DEF q1
<1>5. /\ IsRecord(q2) /\ q2.prefer = FALSE /\ q2.known = Closed /\ q2.clean = TRUE
      /\ q2.side = "buy" /\ q2.amount = lack
  BY <1>4 DEF IsRecord
<1> HIDE DEF q2
<1>6. /\ IsRecord(q3) /\ q3.prefer = FALSE /\ q3.known = Closed /\ q3.clean = TRUE
      /\ q3.side = "buy" /\ q3.amount = lack /\ q3.pool = pool
  BY <1>2, <1>5 DEF IsRecord
<1> HIDE DEF q3
<1> QED BY <1>1, <1>6 DEF pool

LEMMA PresignedBuyIs ==
    ASSUME market \in Markets, market.shared = FALSE, NEW r \in PresignedBuys
    PROVE  /\ IsRecord(r) /\ r.side = "buy" /\ r.known = Closed /\ r.prefer = FALSE
           /\ r.pool = CurveWith(IF market.launchpad = "pump" THEN "creator" ELSE "none")
           /\ market.quote = "usd1" /\ r.clean => r.amount = Lacking
<1> DEFINE pool == CurveWith(IF market.launchpad = "pump" THEN "creator" ELSE "none")
<1>1. CASE market.quote = "usd1"
  <2>1. PICK lack \in {0, 1} : r = [AtomicBuy(lack) EXCEPT !.clean = lack = Lacking]
    BY <1>1, Zenon DEF PresignedBuys
  <2> DEFINE b == AtomicBuy(lack)
             clean == lack = Lacking
  <2>2. /\ IsRecord(b) /\ b.side = "buy" /\ b.known = Closed /\ b.prefer = FALSE
        /\ b.pool = pool /\ b.amount = lack
    BY AtomicIs
  <2>3. r = [b EXCEPT !.clean = clean]
    BY <2>1, Zenon
  <2>4. clean \in BOOLEAN /\ (clean => lack = Lacking)
    OBVIOUS
  <2> HIDE DEF b, clean, pool
  <2>5. /\ IsRecord(r) /\ r.side = "buy" /\ r.known = Closed /\ r.prefer = FALSE
        /\ r.pool = pool /\ r.amount = lack /\ r.clean = clean
    BY <2>2, <2>3, <2>4 DEF IsRecord
  <2> QED BY <2>4, <2>5 DEF pool
<1>2. CASE market.quote # "usd1"
  <2>1. r = AtomicBuy(0)
    BY <1>2 DEF PresignedBuys
  <2> QED BY <1>2, <2>1, AtomicIs
<1> QED BY <1>1, <1>2

LEMMA PresignedSellIs ==
    ASSUME market \in Markets, wallet \in Wallets, NEW r \in PresignedSells
    PROVE  /\ IsRecord(r) /\ r.side = "sell" /\ r.known = Closed /\ r.amount > 0
           /\ r.pool = CurveSeen(r.prefer) /\ r.amount <= wallet["token"]
<1>1. PICK percent \in Percents, prefer \in Preferences : r = PresignedSell(percent, prefer)
  BY DEF PresignedSells
<1>2. r.amount > 0
  BY DEF PresignedSells
<1>3. percent \in 0..100 /\ prefer \in BOOLEAN
  BY TradingAssumption DEF Preferences
<1>4. PredictedTokens \in Nat /\ (PredictedTokens # 0 => PredictedTokens = wallet["token"])
  BY DEF PredictedTokens, Wallets, Accounts, Closed
<1> DEFINE amount == Share(PredictedTokens, percent)
           pool == CurveSeen(prefer)
<1>5. amount \in 0..PredictedTokens
  BY <1>3, <1>4, ShareBounds
<1>6. pool \in Pools
  BY CurveSeenIs
<1> DEFINE q0 == IdleTrade
           q1 == [q0 EXCEPT !.side = "sell"]
           q2 == [q1 EXCEPT !.percent = percent]
           q3 == [q2 EXCEPT !.prefer = prefer]
           q4 == [q3 EXCEPT !.pool = pool]
           q5 == [q4 EXCEPT !.amount = amount]
<1>7. r = q5
  BY <1>1 DEF PresignedSell
<1>8. IsRecord(q0) /\ q0.known = Closed
  BY IdleIs
<1> HIDE DEF q0, pool, amount
<1>9. IsRecord(q1) /\ q1.known = Closed /\ q1.side = "sell"
  BY <1>8 DEF IsRecord
<1> HIDE DEF q1
<1>10. IsRecord(q2) /\ q2.known = Closed /\ q2.side = "sell"
  BY <1>3, <1>9 DEF IsRecord
<1> HIDE DEF q2
<1>11. IsRecord(q3) /\ q3.known = Closed /\ q3.side = "sell" /\ q3.prefer = prefer
  BY <1>3, <1>10 DEF IsRecord
<1> HIDE DEF q3
<1>12. /\ IsRecord(q4) /\ q4.known = Closed /\ q4.side = "sell" /\ q4.prefer = prefer
       /\ q4.pool = pool
  BY <1>6, <1>11 DEF IsRecord
<1> HIDE DEF q4
<1>13. amount \in Nat
  BY <1>4, <1>5
<1>14. /\ IsRecord(q5) /\ q5.known = Closed /\ q5.side = "sell" /\ q5.prefer = prefer
       /\ q5.pool = pool /\ q5.amount = amount
  BY <1>12, <1>13 DEF IsRecord
<1> HIDE DEF q5
<1>15. amount > 0 => amount <= wallet["token"]
  BY <1>4, <1>5
<1> QED BY <1>2, <1>7, <1>14, <1>15 DEF pool

LEMMA PresignedIs ==
    ASSUME market \in Markets, wallet \in Wallets, market.shared = FALSE, NEW s \in Presigned
    PROVE  IsRecord(s) /\ RecordOK(s)
<1>1. market.launchpad \in {"pump", "bonk"}
  BY DEF Presigned, Markets
<1>2. PICK r \in PresignedBuys \union PresignedSells :
        s = [r EXCEPT !.state = "sent", !.tx = Transaction(r)]
  BY <1>1 DEF Presigned
<1>3. /\ IsRecord(r) /\ r.side \in {"buy", "sell"} /\ r.known = Closed
      /\ r.side = "sell" => r.amount > 0 /\ r.amount <= wallet["token"]
      /\ r.pool = CurveSeen(r.prefer)
      /\ r.side = "buy" /\ market.quote = "usd1" /\ r.clean => r.amount = Lacking
  <2>1. CASE r \in PresignedBuys
    BY <1>1, <2>1, PresignedBuyIs DEF CurveSeen
  <2>2. CASE r \in PresignedSells
    BY <2>2, PresignedSellIs
  <2> QED BY <2>1, <2>2
<1>4. CompiledOf(s, r, Transaction(r))
  BY <1>2, <1>3, SentIs
<1>5. Transaction(s) = Transaction(r)
  BY <1>4, SameTransaction DEF CompiledOf
<1>6. Ahead(s) = {}
  BY <1>4 DEF Ahead, CompiledOf
<1>7. Done(s)
  BY <1>3, <1>4, <1>6 DEF Done, CompiledOf
<1>8. s.clean => UpToDate(s)
  BY <1>1, <1>3, <1>4, <1>6 DEF UpToDate, CompiledOf
<1> QED BY <1>4, <1>5, <1>7, <1>8 DEF RecordOK, CompiledOf

LEMMA TradeBegins ==
    ASSUME TradingInit
    PROVE  TradeInv
<1>1. PICK l \in Launches :
        market = [launchpad |-> l.launchpad, quote |-> l.quote, phase |-> "curve",
                  vault |-> IF l.launchpad = "pump" THEN "creator" ELSE "none",
                  shared |-> FALSE]
  BY DEF TradingInit
<1>2. l \in [launchpad : {"pump", "bonk", "bagsapp"}, quote : {"sol", "usd1"}]
  BY TradingAssumption
<1>3. market \in Markets /\ market.shared = FALSE /\ MarketOK
  BY <1>1, <1>2 DEF Markets, MarketOK
<1>4. wallet \in Wallets /\ wallet["fresh"] = Closed
  BY WalletBegins
<1>5. /\ hot \in [BOOLEAN -> [pool : Pools, clean : BOOLEAN]]
      /\ \A p \in BOOLEAN : hot[p].pool = NoPool
  BY DEF TradingInit, Pools, NoPool
<1>6. kept \in [n : {i \in Int : i >= Closed}, clean : BOOLEAN] /\ kept.n = Closed
  BY DEF TradingInit, Closed
<1>7. CopiesOK
  BY <1>5, <1>6 DEF CopiesOK
<1>8. /\ trade = [t \in Trade |-> trade[t]]
      /\ \A t \in Trade : trade[t] \in {IdleTrade} \union Presigned
  BY DEF TradingInit
<1>9. ASSUME NEW s \in Presigned PROVE IsRecord(s) /\ RecordOK(s)
  BY <1>3, <1>4, PresignedIs
<1>10. IsRecord(IdleTrade) /\ RecordOK(IdleTrade)
  BY IdleIs DEF RecordOK
<1>11. \A t \in Trade : IsRecord(trade[t]) /\ RecordOK(trade[t])
  BY <1>8, <1>9, <1>10
<1> QED BY <1>3, <1>4, <1>5, <1>6, <1>7, <1>8, <1>11
        DEF TradeInv, TradeTypes, TradesTyped, ReadingOK

-----------------------------------------------------------------------------
(* The theorems                                                            *)

\* What becomes of a trade that was sent.
LEMMA SentStays ==
    ASSUME TradeInv, TradingNext, NEW t \in Trade, trade[t].state = "sent"
    PROVE  \/ trade'[t].state = "sent"
           \/ Land(t) /\ trade'[t].state = "landed"
           \/ Revert(t) /\ trade'[t].state = "reverted"
           \/ trade'[t].state = "lost"
<1>0. trade = [u \in Trade |-> trade[u]]
  BY DEF TradeInv, TradeTypes, TradesTyped
<1>1. ASSUME NEW u \in Trade, NEW r, Becomes(u, r)
      PROVE  trade'[t] = IF u = t THEN r ELSE trade[t]
  BY <1>0, <1>1 DEF Becomes
<1>2. \A state \in States : Over(state).state = state
  BY OverIs
<1>3. ASSUME NEW u \in Trade, trade[u].state # "sent", NEW r, Becomes(u, r)
      PROVE  trade'[t].state = "sent"
  BY <1>1, <1>3
<1>4. ASSUME NEW u \in Trade,
             Begin(u) \/ ReadHot(u) \/ ReadCurve(u) \/ ReadDbc(u) \/ ReadDamm(u) \/ ReadAmount(u)
               \/ ReadInput(u) \/ ReadOutput(u) \/ RpcFails(u) \/ Send(u)
      PROVE  trade'[t].state = "sent"
  <2>1. trade[u].state # "sent"
    BY <1>4 DEF Begin, ReadHot, ReadCurve, ReadDbc, ReadDamm, ReadAmount, ReadInput, ReadOutput,
                RpcFails, Send, Due
  <2>2. \E r : Becomes(u, r)
    <3>1. Begin(u) \/ Send(u) => \E r : Becomes(u, r)
      BY Zenon DEF Begin, Send
    <3>2. ReadHot(u) \/ ReadCurve(u) \/ ReadDbc(u) \/ ReadDamm(u) => \E r : Becomes(u, r)
      BY Zenon DEF ReadHot, ReadCurve, ReadDbc, ReadDamm, Reads, Ends, Unusable
    <3>3. ReadAmount(u) \/ ReadInput(u) \/ ReadOutput(u) \/ RpcFails(u) => \E r : Becomes(u, r)
      BY Zenon DEF ReadAmount, ReadInput, ReadOutput, Look, Reads, Ends, RpcFails
    <3> QED BY <1>4, <3>1, <3>2, <3>3
  <2> QED BY <1>3, <2>1, <2>2
<1>5. ASSUME NEW u \in Trade, Land(u)
      PROVE  trade'[t].state = "sent" \/ (Land(t) /\ trade'[t].state = "landed")
  <2> DEFINE f == [trade EXCEPT ![u] = Over("landed")]
  <2>1. f[t] = IF u = t THEN Over("landed") ELSE trade[t]
    BY <1>0
  <2>2. trade' = Spoiled(f)
    BY <1>5 DEF Land
  <2> HIDE DEF f
  <2>3. trade'[t] = IF f[t].state \in {"reading", "sent"}
                    THEN [f[t] EXCEPT !.clean = FALSE] ELSE f[t]
    BY <2>2 DEF Spoiled
  <2>4. CASE u = t
    BY <1>2, <1>5, <2>1, <2>3, <2>4 DEF States
  <2>5. CASE u # t
    <3>1. f[t] = trade[t] /\ IsRecord(trade[t])
      BY <2>1, <2>5 DEF TradeInv, TradeTypes, TradesTyped
    <3> QED BY <2>3, <3>1 DEF IsRecord
  <2> QED BY <2>4, <2>5
<1>6. ASSUME NEW u \in Trade, Revert(u)
      PROVE  trade'[t].state = "sent" \/ (Revert(t) /\ trade'[t].state = "reverted")
  <2>1. Becomes(u, Over("reverted"))
    BY <1>6 DEF Revert, Ends
  <2> QED BY <1>1, <1>2, <1>6, <2>1 DEF States
<1>7. ASSUME NEW u \in Trade, Lost(u)
      PROVE  trade'[t].state = "sent" \/ trade'[t].state = "lost"
  <2>1. Becomes(u, Over("lost"))
    BY <1>7 DEF Lost, Ends
  <2> QED BY <1>1, <1>2, <1>7, <2>1 DEF States
<1>8. CASE Refresh \/ Prime
  BY <1>8 DEF Refresh, Prime
<1>9. CASE Others \/ Completed \/ Migrated \/ SetupLands \/ SetupSeen \/ OwnerWraps
  <2>1. trade' = Spoiled(trade)
    BY <1>9 DEF Others, Completed, Migrated, SetupLands, SetupSeen, OwnerWraps, Moves
  <2>2. trade'[t] = [trade[t] EXCEPT !.clean = FALSE]
    BY <2>1 DEF Spoiled
  <2>3. IsRecord(trade[t])
    BY DEF TradeInv, TradeTypes, TradesTyped
  <2> QED BY <2>2, <2>3 DEF IsRecord
<1> QED BY <1>4, <1>5, <1>6, <1>7, <1>8, <1>9 DEF TradingNext

\* What is known of the trades, the copies and the market: see above.
THEOREM TradeInvHolds == TradingSpec => []TradeInv
<1>1. TradingInit => TradeInv
  BY TradeBegins
<1>2. TradeInv /\ [TradingNext]_tradingVars => TradeInv'
  BY TradeStepKeeps
<1> QED BY <1>1, <1>2, PTL DEF TradingSpec

(* A transaction compiled from a wallet and a market that have not changed *)
(* until it runs reverts only where the code is known to trade on a curve  *)
(* that is over, or with another vault than the curve pays: the            *)
(* instructions of the three compilers make what they need, whichever      *)
(* accounts were there.                                                    *)
THEOREM RevertsExplainedHolds == TradingSpec => RevertsExplained
<1> DEFINE Explained == \A t \in Trade :
             trade[t].clean /\ trade[t].state = "sent" /\ trade'[t].state = "reverted"
                 => KnownToFail(trade[t])
<1>1. TradeInv /\ [TradingNext]_tradingVars => [Explained]_tradingVars
  <2> SUFFICES ASSUME TradeInv, TradingNext, NEW t \in Trade, trade[t].clean,
                      trade[t].state = "sent", trade'[t].state = "reverted"
               PROVE  KnownToFail(trade[t])
    OBVIOUS
  <2>1. Revert(t)
    BY SentStays
  <2>2. After(wallet, trade[t].tx) = Failed
    BY <2>1 DEF Revert
  <2> QED BY <2>2, SentLands
<1> QED BY <1>1, TradeInvHolds, PTL DEF TradingSpec, RevertsExplained

(* Whenever a transaction lands, also late and among others: nothing it    *)
(* wrapped stays wrapped, a buy adds tokens, a sell takes exactly what was *)
(* read and shared (finalize_..., build_unwrap_sol_instruction).           *)
THEOREM ProceedsArriveHolds == TradingSpec => ProceedsArrive
<1> DEFINE Arrived == \A t \in Trade :
             trade[t].state = "sent" /\ trade'[t].state = "landed" =>
                 /\ wallet'["fresh"] = Closed
                 /\ wallet'["wsol"] \in {Closed, wallet["wsol"]}
                 /\ IF Buying(t) THEN wallet'["token"] > wallet["token"]
                    ELSE wallet'["token"] = wallet["token"] - trade[t].amount
<1>1. TradeInv /\ [TradingNext]_tradingVars => [Arrived]_tradingVars
  <2> SUFFICES ASSUME TradeInv, TradingNext, NEW t \in Trade,
                      trade[t].state = "sent", trade'[t].state = "landed"
               PROVE  /\ wallet'["fresh"] = Closed
                      /\ wallet'["wsol"] \in {Closed, wallet["wsol"]}
                      /\ IF Buying(t) THEN wallet'["token"] > wallet["token"]
                         ELSE wallet'["token"] = wallet["token"] - trade[t].amount
    OBVIOUS
  <2>1. wallet' = After(wallet, trade[t].tx) /\ wallet' # Failed
    BY SentStays DEF Land
  <2>2. Arrives(wallet, wallet', trade[t].side, trade[t].amount)
    BY <2>1, SentLands
  <2>3. wallet["token"] \in Int /\ wallet["token"] >= Closed
    BY DEF TradeInv, TradeTypes, Wallets, Accounts
  <2> QED BY <2>2, <2>3 DEF Arrives, Buying, Closed
<1> QED BY <1>1, TradeInvHolds, PTL DEF TradingSpec, ProceedsArrive
=============================================================================
