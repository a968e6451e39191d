-------------------------- MODULE Assemble_proofs ---------------------------
(***************************************************************************)
(* Three theorems on the compilers, for any requests, tables and limits.   *)
(*                                                                         *)
(* No transaction is refused, and no combination given up, for a missing   *)
(* or a needless signature.  The keys a compiler signs with come from its  *)
(* request, those a message asks for from its instructions; the lemmas     *)
(* follow who signs a list through settings, marks, joining, reading back, *)
(* filtering and renaming, and SignInv keeps in which part of a split      *)
(* launch the mint is.                                                     *)
(*                                                                         *)
(* No transaction sets or pays a fee twice.  The lemmas follow what a list *)
(* sets and pays along the same way; FeesInv keeps that what is combined   *)
(* later holds no fee but the request's, and where a bundle's tip is.      *)
(*                                                                         *)
(* No instruction is lost, added, moved or told anything else.  What is    *)
(* asked for is proper: no fee among it, no mark on it.  The lemmas follow *)
(* what a list tells (its instructions that are no fees, without the mark) *)
(* along the same way once more; KeptInv keeps that what is in the parts,  *)
(* before and after they are compiled, is the whole request, in its order. *)
(***************************************************************************)
EXTENDS Assemble, WellFoundedInduction, SequenceTheorems, TLAPS

-----------------------------------------------------------------------------
(* Induction over a set of numbers                                         *)

LEMMA LessRel == OpToRel(<,Nat) = {ss \in Nat \X Nat : ss[1] < ss[2]}
BY DEF OpToRel

LEMMA SetInduction ==
    ASSUME NEW T \in SUBSET Nat, 0 \in T, \A n \in T : n + 1 \in T
    PROVE  T = Nat
<1> DEFINE Less == {ss \in Nat \X Nat : ss[1] < ss[2]}
           U == Nat \ T
<1> SUFFICES ASSUME U # {} PROVE FALSE
  OBVIOUS
<1>1. IsWellFoundedOn(Less, Nat)
  BY ONLY NatLessThanWellFounded, LessRel, Zenon
<1>2. PICK x \in U : \A y \in U : ~(<<y, x>> \in Less)
  <2>1. U \subseteq Nat
    OBVIOUS
  <2> HIDE DEF U, Less
  <2> QED BY <1>1, <2>1, WFMin
<1>3. x \in Nat /\ x # 0 /\ x - 1 \in Nat
  OBVIOUS
<1>4. <<x - 1, x>> \in Less
  BY <1>3
<1>5. x - 1 \in T
  BY <1>2, <1>3, <1>4
<1> QED BY <1>3, <1>5

-----------------------------------------------------------------------------
(* Instructions taken from a list                                          *)

\* One instruction more.
TakeNext(places, s, q, n) == IF n \in places THEN Append(q, s[n]) ELSE q

\* The recursion of Taken.
IsTaking(f, s, places) ==
    f = [n \in 0..Len(s) |-> IF n = 0 THEN <<>> ELSE TakeNext(places, s, f[n - 1], n)]

\* It defines a function, as far as any place.
LEMMA TakingExists ==
    ASSUME NEW S, NEW s \in Seq(S), NEW places
    PROVE  \E f : IsTaking(f, s, places)
<1> DEFINE UpTo(n) == {f \in [0..n -> Seq(S)] :
                        f[0] = <<>> /\ \A k \in 1..n : f[k] = TakeNext(places, s, f[k - 1], k)}
           T == {n \in Nat : n <= Len(s) => UpTo(n) # {}}
<1>1. 0 \in T
  <2> DEFINE f == [k \in 0..0 |-> <<>>]
  <2>1. f \in UpTo(0)
    OBVIOUS
  <2> HIDE DEF UpTo
  <2> QED BY <2>1
<1>2. ASSUME NEW n \in T PROVE n + 1 \in T
  <2> SUFFICES ASSUME n + 1 <= Len(s) PROVE UpTo(n + 1) # {}
    <3> HIDE DEF UpTo
    <3> QED OBVIOUS
  <2>1. Len(s) \in Nat /\ n \in Nat /\ n <= Len(s)
    OBVIOUS
  <2>2. PICK f \in UpTo(n) : TRUE
    <3> HIDE DEF UpTo
    <3> QED BY <2>1
  <2>3. /\ f \in [0..n -> Seq(S)] /\ f[0] = <<>>
        /\ \A k \in 1..n : f[k] = TakeNext(places, s, f[k - 1], k)
    BY <2>2
  <2> DEFINE g == [k \in 0..(n + 1) |-> IF k <= n THEN f[k] ELSE TakeNext(places, s, f[n], n + 1)]
  <2>4. TakeNext(places, s, f[n], n + 1) \in Seq(S)
    <3>1. s[n + 1] \in S /\ f[n] \in Seq(S)
      BY <2>1, <2>3
    <3> QED BY <3>1 DEF TakeNext
  <2>5. g \in [0..(n + 1) -> Seq(S)] /\ g[0] = <<>>
    BY <2>1, <2>3, <2>4
  <2>6. ASSUME NEW k \in 1..(n + 1) PROVE g[k] = TakeNext(places, s, g[k - 1], k)
    <3>1. k - 1 \in 0..n /\ g[k - 1] = f[k - 1]
      BY <2>1
    <3>2. CASE k <= n
      <4>1. k \in 1..n /\ g[k] = f[k]
        BY <2>1, <3>2
      <4> HIDE DEF g
      <4> QED BY <2>3, <3>1, <4>1
    <3>3. CASE ~(k <= n)
      <4>1. k = n + 1 /\ g[k] = TakeNext(places, s, f[n], n + 1) /\ k - 1 = n
        BY <2>1, <3>3
      <4> HIDE DEF g
      <4> QED BY <3>1, <4>1
    <3> QED BY <3>2, <3>3
  <2> HIDE DEF g
  <2>7. g \in UpTo(n + 1)
    BY <2>5, <2>6
  <2> QED BY <2>7
<1>3. T = Nat
  <2>1. T \in SUBSET Nat
    OBVIOUS
  <2> HIDE DEF T
  <2> QED BY <1>1, <1>2, <2>1, SetInduction
<1>4. Len(s) \in Nat
  OBVIOUS
<1>5. PICK f \in UpTo(Len(s)) : TRUE
  <2> HIDE DEF UpTo
  <2>1. Len(s) \in T
    BY <1>3, <1>4
  <2> QED BY <1>4, <2>1
<1>6. /\ f \in [0..Len(s) -> Seq(S)] /\ f[0] = <<>>
      /\ \A k \in 1..Len(s) : f[k] = TakeNext(places, s, f[k - 1], k)
  BY <1>5
<1>7. f = [n \in 0..Len(s) |-> f[n]]
  BY <1>6
<1>8. \A n \in 0..Len(s) : f[n] = IF n = 0 THEN <<>> ELSE TakeNext(places, s, f[n - 1], n)
  BY <1>4, <1>6
<1>9. IsTaking(f, s, places)
  BY <1>7, <1>8 DEF IsTaking
<1> QED BY <1>9

\* What is appended is the only thing that comes to a list.
LEMMA AppendedSet ==
    ASSUME NEW S, NEW q \in Seq(S), NEW x \in S
    PROVE  Append(q, x) \in Seq(S) /\ ToSet(Append(q, x)) = ToSet(q) \union {x}
<1>1. Append(q, x) \in Seq(S) /\ Len(q) \in Nat /\ DOMAIN q = 1..Len(q)
  OBVIOUS
<1>2. DOMAIN Append(q, x) = 1..(Len(q) + 1)
  OBVIOUS
<1>3. \A i \in 1..Len(q) : Append(q, x)[i] = q[i]
  OBVIOUS
<1>4. Append(q, x)[Len(q) + 1] = x
  OBVIOUS
<1>5. ASSUME NEW y \in ToSet(Append(q, x)) PROVE y \in ToSet(q) \union {x}
  <2>1. PICK i \in 1..(Len(q) + 1) : y = Append(q, x)[i]
    BY <1>2 DEF ToSet
  <2>2. i \in 1..Len(q) \/ i = Len(q) + 1
    BY <1>1
  <2> QED BY <1>1, <1>3, <1>4, <2>1, <2>2 DEF ToSet
<1>6. ASSUME NEW y \in ToSet(q) \union {x} PROVE y \in ToSet(Append(q, x))
  <2>1. CASE y = x
    <3>1. Len(q) + 1 \in DOMAIN Append(q, x)
      BY <1>1, <1>2
    <3> QED BY <1>4, <2>1, <3>1 DEF ToSet
  <2>2. CASE y \in ToSet(q)
    <3>1. PICK i \in 1..Len(q) : y = q[i]
      BY <1>1, <2>2 DEF ToSet
    <3>2. i \in DOMAIN Append(q, x)
      BY <1>1, <1>2
    <3> QED BY <1>3, <3>1, <3>2 DEF ToSet
  <2> QED BY <2>1, <2>2
<1> QED BY <1>1, <1>5, <1>6

\* What is taken are the instructions at the places and no others.
LEMMA TakenSome ==
    ASSUME NEW S, NEW s \in Seq(S), NEW places
    PROVE  /\ Taken(s, places) \in Seq(S)
           /\ ToSet(Taken(s, places)) = {s[i] : i \in {k \in DOMAIN s : k \in places}}
<1> DEFINE f == CHOOSE f : IsTaking(f, s, places)
           At(n) == {k \in 1..n : k \in places}
           From(n) == {s[i] : i \in At(n)}
           T == {n \in Nat : n <= Len(s) => f[n] \in Seq(S) /\ ToSet(f[n]) = From(n)}
<1>1. IsTaking(f, s, places)
  BY TakingExists, Zenon
<1>2. Taken(s, places) = f[Len(s)]
  BY Zenon DEF Taken, IsTaking, TakeNext
<1> HIDE DEF f
<1>3. Len(s) \in Nat
  OBVIOUS
<1>4. f[0] = <<>> /\ \A n \in 1..Len(s) : f[n] = TakeNext(places, s, f[n - 1], n)
  BY <1>1, <1>3 DEF IsTaking
<1>5. 0 \in T
  <2>1. ToSet(<<>>) = {} /\ From(0) = {} /\ <<>> \in Seq(S)
    BY DEF ToSet
  <2> HIDE DEF From
  <2> QED BY <1>4, <2>1
<1>6. ASSUME NEW n \in T PROVE n + 1 \in T
  <2> SUFFICES ASSUME n + 1 <= Len(s)
               PROVE  f[n + 1] \in Seq(S) /\ ToSet(f[n + 1]) = From(n + 1)
    OBVIOUS
  <2>1. n \in Nat /\ n + 1 \in 1..Len(s) /\ (n + 1) - 1 = n /\ n <= Len(s)
    BY <1>3
  <2>2. f[n] \in Seq(S) /\ ToSet(f[n]) = From(n)
    BY <1>3, <2>1
  <2>3. f[n + 1] = TakeNext(places, s, f[n], n + 1)
    BY <1>4, <2>1
  <2>4. s[n + 1] \in S
    BY <2>1
  <2>5. From(n + 1) = IF n + 1 \in places THEN From(n) \union {s[n + 1]} ELSE From(n)
    <3>1. At(n + 1) = IF n + 1 \in places THEN At(n) \union {n + 1} ELSE At(n)
      BY <2>1
    <3> HIDE DEF At
    <3> QED BY <3>1
  <2> HIDE DEF From
  <2>6. Append(f[n], s[n + 1]) \in Seq(S)
        /\ ToSet(Append(f[n], s[n + 1])) = ToSet(f[n]) \union {s[n + 1]}
    BY <2>2, <2>4, AppendedSet
  <2> QED BY <2>2, <2>3, <2>5, <2>6 DEF TakeNext
<1>7. T = Nat
  <2>1. T \in SUBSET Nat
    OBVIOUS
  <2> HIDE DEF T
  <2> QED BY <1>5, <1>6, <2>1, SetInduction
<1>8. f[Len(s)] \in Seq(S) /\ ToSet(f[Len(s)]) = From(Len(s))
  <2>1. Len(s) \in T
    BY <1>3, <1>7
  <2> HIDE DEF From
  <2> QED BY <1>3, <2>1
<1>9. DOMAIN s = 1..Len(s)
  OBVIOUS
<1> QED BY <1>2, <1>8, <1>9

-----------------------------------------------------------------------------
(* Who signs a list of instructions                                        *)

Fields == {"op", "program", "signs", "uses", "data", "n"}
IsIx(ix) == ix = [f \in Fields |-> ix[f]]

\* A list of instructions, whatever their accounts are.
IsList(a) == a \in Seq(ToSet(a)) /\ \A x \in ToSet(a) : IsIx(x)

LEMMA SignersBySet ==
    ASSUME NEW a
    PROVE  SignersOf(a) = {Owner} \union UNION {x.signs : x \in ToSet(a)}
BY DEF SignersOf, ToSet

LEMMA InstrIs ==
    ASSUME NEW op, NEW program, NEW signs, NEW uses, NEW data, NEW k
    PROVE  LET ix == Instr(op, program, signs, uses, data) IN
           /\ IsIx(ix) /\ ix.signs = signs /\ ix.uses = uses /\ ix.program = Key(program)
           /\ IsIx([ix EXCEPT !.n = k]) /\ [ix EXCEPT !.n = k].signs = signs
<1> DEFINE ix == Instr(op, program, signs, uses, data)
<1>1. IsIx(ix)
  BY DEF IsIx, Instr, Fields
<1>2. ix.signs = signs /\ ix.uses = uses /\ ix.program = Key(program)
  BY DEF Instr
<1> HIDE DEF ix
<1>3. IsIx([ix EXCEPT !.n = k]) /\ [ix EXCEPT !.n = k].signs = signs
  BY <1>1, <1>2 DEF IsIx, Fields
<1> QED BY <1>1, <1>2, <1>3 DEF ix

\* Limits, prices and transfers are signed by the owner at most.
LEMMA SettingsAre ==
    ASSUME NEW k, NEW to, NEW op, NEW data
    PROVE  /\ IsIx(LimitOf(k)) /\ LimitOf(k).signs = {}
           /\ IsIx(PriceOf(k)) /\ PriceOf(k).signs = {}
           /\ IsIx(Budget(op, k, data)) /\ Budget(op, k, data).signs = {}
           /\ IsIx(Transfer(to, k)) /\ Transfer(to, k).signs = {Owner}
<1>1. \A o, d, m : IsIx(Budget(o, m, d)) /\ Budget(o, m, d).signs = {}
  BY DEF Budget, Instr, IsIx, Fields
<1>2. IsIx(Transfer(to, k)) /\ Transfer(to, k).signs = {Owner}
  BY DEF Transfer, Instr, IsIx, Fields
<1> QED BY <1>1, <1>2 DEF LimitOf, PriceOf

LEMMA Nobody ==
    /\ IsList(<<>>) /\ ToSet(<<>>) = {} /\ SignersOf(<<>>) = {Owner}
<1>1. ToSet(<<>>) = {}
  BY DEF ToSet
<1>2. <<>> \in Seq({})
  OBVIOUS
<1> QED BY <1>1, <1>2, SignersBySet DEF IsList

LEMMA Single ==
    ASSUME NEW x, IsIx(x)
    PROVE  /\ IsList(<<x>>) /\ ToSet(<<x>>) = {x}
           /\ SignersOf(<<x>>) = {Owner} \union x.signs
<1>1. ToSet(<<x>>) = {x}
  <2>1. DOMAIN <<x>> = {1} /\ <<x>>[1] = x
    OBVIOUS
  <2> HIDE DEF IsIx
  <2> QED BY <2>1 DEF ToSet
<1>2. <<x>> \in Seq({x})
  OBVIOUS
<1> QED BY <1>1, <1>2, SignersBySet DEF IsList

LEMMA Perhaps ==
    ASSUME NEW x, IsIx(x), NEW condition
    PROVE  /\ IsList(If(condition, x))
           /\ SignersOf(If(condition, x)) \subseteq {Owner} \union x.signs
BY Single, Nobody DEF If

LEMMA ConcatenatedSet ==
    ASSUME NEW S, NEW a \in Seq(S), NEW b \in Seq(S)
    PROVE  a \o b \in Seq(S) /\ ToSet(a \o b) = ToSet(a) \union ToSet(b)
<1>1. /\ a \o b \in Seq(S) /\ Len(a) \in Nat /\ Len(b) \in Nat
      /\ DOMAIN a = 1..Len(a) /\ DOMAIN b = 1..Len(b)
  OBVIOUS
<1>2. DOMAIN (a \o b) = 1..(Len(a) + Len(b))
  OBVIOUS
<1>3. \A i \in 1..Len(a) : (a \o b)[i] = a[i]
  OBVIOUS
<1>4. \A i \in 1..Len(b) : (a \o b)[Len(a) + i] = b[i]
  OBVIOUS
<1>5. ASSUME NEW x \in ToSet(a \o b) PROVE x \in ToSet(a) \union ToSet(b)
  <2>1. PICK i \in 1..(Len(a) + Len(b)) : x = (a \o b)[i]
    BY <1>2 DEF ToSet
  <2>2. CASE i \in 1..Len(a)
    BY <1>1, <1>3, <2>1, <2>2 DEF ToSet
  <2>3. CASE i \notin 1..Len(a)
    <3>1. i - Len(a) \in 1..Len(b) /\ Len(a) + (i - Len(a)) = i
      BY <1>1, <2>3
    <3>2. x = b[i - Len(a)]
      BY <1>4, <2>1, <3>1
    <3> QED BY <1>1, <3>1, <3>2 DEF ToSet
  <2> QED BY <2>2, <2>3
<1>6. ASSUME NEW x \in ToSet(a) \union ToSet(b) PROVE x \in ToSet(a \o b)
  <2>1. CASE x \in ToSet(a)
    <3>1. PICK i \in 1..Len(a) : x = a[i]
      BY <1>1, <2>1 DEF ToSet
    <3>2. i \in 1..(Len(a) + Len(b))
      BY <1>1
    <3> QED BY <1>2, <1>3, <3>1, <3>2 DEF ToSet
  <2>2. CASE x \in ToSet(b)
    <3>1. PICK i \in 1..Len(b) : x = b[i]
      BY <1>1, <2>2 DEF ToSet
    <3>2. Len(a) + i \in 1..(Len(a) + Len(b))
      BY <1>1
    <3> QED BY <1>2, <1>4, <3>1, <3>2 DEF ToSet
  <2> QED BY <2>1, <2>2
<1> QED BY <1>1, <1>5, <1>6

LEMMA Concatenated ==
    ASSUME NEW a, NEW b, IsList(a), IsList(b)
    PROVE  /\ IsList(a \o b) /\ ToSet(a \o b) = ToSet(a) \union ToSet(b)
           /\ SignersOf(a \o b) = SignersOf(a) \union SignersOf(b)
<1> DEFINE S == ToSet(a) \union ToSet(b)
<1>1. a \in Seq(S) /\ b \in Seq(S)
  BY DEF IsList
<1> HIDE DEF S
<1>2. a \o b \in Seq(S) /\ ToSet(a \o b) = S
  BY <1>1, ConcatenatedSet DEF S
<1>3. IsList(a \o b)
  BY <1>2 DEF S, IsList
<1>4. SignersOf(a \o b) = SignersOf(a) \union SignersOf(b)
  BY <1>2, SignersBySet DEF S
<1> QED BY <1>2, <1>3, <1>4 DEF S

\* A list made place by place.
LEMMA Tabled ==
    ASSUME NEW a, NEW n \in Nat, a = [i \in 1..n |-> a[i]], \A i \in 1..n : IsIx(a[i])
    PROVE  IsList(a)
<1> DEFINE S == {a[i] : i \in 1..n}
<1>1. DOMAIN a = 1..n
  OBVIOUS
<1>2. ToSet(a) = S
  BY <1>1 DEF ToSet
<1>3. a \in [1..n -> S]
  OBVIOUS
<1>4. a \in Seq(S)
  <2> HIDE DEF S
  <2> QED BY <1>3
<1> QED BY <1>2, <1>4 DEF IsList

LEMMA ListIs ==
    ASSUME NEW a, IsList(a)
    PROVE  /\ Len(a) \in Nat /\ DOMAIN a = 1..Len(a) /\ a = [i \in 1..Len(a) |-> a[i]]
           /\ \A i \in 1..Len(a) : IsIx(a[i]) /\ a[i] \in ToSet(a)
<1>1. a \in Seq(ToSet(a))
  BY DEF IsList
<1>2. Len(a) \in Nat /\ DOMAIN a = 1..Len(a) /\ a = [i \in 1..Len(a) |-> a[i]]
  BY <1>1
<1>3. \A i \in 1..Len(a) : a[i] \in ToSet(a)
  BY <1>2 DEF ToSet
<1> QED BY <1>2, <1>3 DEF IsList

\* The mark against sandwiches changes no signer.
LEMMA MarkedSame ==
    ASSUME NEW ix, IsIx(ix), NEW on
    PROVE  LET marked == IF on THEN DontfrontOn(ix) ELSE ix IN
           /\ IsIx(marked) /\ marked.signs = ix.signs /\ marked.program = ix.program
           /\ marked.uses \in {ix.uses, Append(ix.uses, Dontfront)}
BY DEF DontfrontOn, IsIx, Fields

LEMMA ProtectedSame ==
    ASSUME NEW core, IsList(core), NEW on
    PROVE  /\ IsList(Protected(core, on)) /\ SignersOf(Protected(core, on)) = SignersOf(core)
           /\ DOMAIN Protected(core, on) = DOMAIN core
           /\ \A i \in DOMAIN core :
                Protected(core, on)[i] = IF on THEN DontfrontOn(core[i]) ELSE core[i]
<1> DEFINE p == Protected(core, on)
           n == Len(core)
<1>1. n \in Nat /\ DOMAIN core = 1..n /\ \A i \in 1..n : IsIx(core[i])
  BY ListIs
<1>2. /\ p = [i \in 1..n |-> p[i]] /\ DOMAIN p = 1..n
      /\ \A i \in 1..n : p[i] = IF on THEN DontfrontOn(core[i]) ELSE core[i]
  BY <1>1 DEF Protected
<1> HIDE DEF p, n
<1>3. \A i \in 1..n : IsIx(p[i]) /\ p[i].signs = core[i].signs
  BY <1>1, <1>2, MarkedSame
<1>4. IsList(p)
  BY <1>1, <1>2, <1>3, Tabled
<1>5. SignersOf(p) = SignersOf(core)
  BY <1>1, <1>2, <1>3 DEF SignersOf
<1> QED BY <1>1, <1>2, <1>4, <1>5 DEF p

\* Nor do limit, price and tip, which the owner signs.
LEMMA SettingsSame ==
    ASSUME NEW core, IsList(core), NEW fees, NEW on
    PROVE  /\ IsList(Settings(core, fees, on))
           /\ SignersOf(Settings(core, fees, on)) = SignersOf(core)
           /\ ToSet(Protected(core, on)) \subseteq ToSet(Settings(core, fees, on))
<1> DEFINE a == <<LimitOf(fees.limit)>>
           b == If(fees.price > 0, PriceOf(fees.price))
           c == Protected(core, on)
           d == If(fees.tip > 0, Transfer(TipAccount, fees.tip))
<1>1. /\ IsList(a) /\ SignersOf(a) \subseteq {Owner}
      /\ IsList(b) /\ SignersOf(b) \subseteq {Owner}
      /\ IsList(d) /\ SignersOf(d) \subseteq {Owner}
  BY SettingsAre, Single, Perhaps
<1>2. IsList(c) /\ SignersOf(c) = SignersOf(core)
  BY ProtectedSame
<1>3. Settings(core, fees, on) = a \o b \o c \o d
  BY DEF Settings
<1>4. Owner \in SignersOf(core)
  BY DEF SignersOf
<1> HIDE DEF a, b, c, d
<1>5. IsList(a \o b) /\ SignersOf(a \o b) \subseteq {Owner}
  BY <1>1, Concatenated
<1>6. /\ IsList(a \o b \o c) /\ SignersOf(a \o b \o c) = SignersOf(core)
      /\ ToSet(c) \subseteq ToSet(a \o b \o c)
  BY <1>2, <1>4, <1>5, Concatenated
<1>7. /\ IsList(a \o b \o c \o d) /\ SignersOf(a \o b \o c \o d) = SignersOf(core)
      /\ ToSet(c) \subseteq ToSet(a \o b \o c \o d)
  BY <1>1, <1>4, <1>6, Concatenated
<1> QED BY <1>3, <1>7 DEF c

-----------------------------------------------------------------------------
(* Signing                                                                 *)

\* A message that can be signed is.
LEMMA SignedIs ==
    ASSUME NEW format, NEW keys, NEW ixs, NEW tbls, CanSign(keys, ixs)
    PROVE  /\ Signed(format, keys, ixs, tbls).error = "none"
           /\ Signed(format, keys, ixs, tbls).ixs = ixs
BY DEF Signed, Message

\* Whatever tables are chosen.
LEMMA BonkCompiledIs ==
    ASSUME NEW format, NEW keys, NEW ixs, NEW base, NEW preferred, CanSign(keys, ixs)
    PROVE  LET tx == BonkCompiled(format, keys, ixs, base, preferred) IN
           /\ tx.error \in {"none", "size"}
           /\ tx.ixs \in {<<>>, ixs} /\ (tx.error = "none" => tx.ixs = ixs)
<1>1. \E tbls : BonkCompiled(format, keys, ixs, base, preferred) \in
                    {Signed("legacy", keys, ixs, tbls), Signed("v0", keys, ixs, tbls), NoTx("size")}
  BY Zenon DEF BonkCompiled
<1>2. PICK tbls : BonkCompiled(format, keys, ixs, base, preferred) \in
                    {Signed("legacy", keys, ixs, tbls), Signed("v0", keys, ixs, tbls), NoTx("size")}
  BY <1>1
<1>3. NoTx("size").error = "size" /\ NoTx("size").ixs = <<>>
  BY DEF NoTx
<1> QED BY <1>2, <1>3, SignedIs

LEMMA PumpCompiledIs ==
    ASSUME NEW r, r.format \in {"legacy", "v0", "v0-alt", "auto"}, NEW keys, NEW ixs, NEW variants,
           CanSign(keys, ixs)
    PROVE  /\ PumpCompiled(r, keys, ixs, variants).error = "none"
           /\ PumpCompiled(r, keys, ixs, variants).ixs = ixs
<1>1. \E format, tbls : PumpCompiled(r, keys, ixs, variants) = Signed(format, keys, ixs, tbls)
  <2>1. CASE r.format = "legacy"
    BY <2>1, Zenon DEF PumpCompiled
  <2>2. CASE r.format = "v0"
    BY <2>2, Zenon DEF PumpCompiled
  <2>3. CASE r.format = "v0-alt"
    BY <2>3, Zenon DEF PumpCompiled
  <2>4. CASE r.format = "auto"
    BY <2>4, Zenon DEF PumpCompiled
  <2> QED BY <2>1, <2>2, <2>3, <2>4
<1> QED BY <1>1, SignedIs

-----------------------------------------------------------------------------
(* What is read back, taken out and renamed                                *)

LEMMA TakenList ==
    ASSUME NEW ixs, IsList(ixs), NEW places
    PROVE  /\ IsList(Taken(ixs, places))
           /\ ToSet(Taken(ixs, places)) = {ixs[i] : i \in {k \in DOMAIN ixs : k \in places}}
           /\ SignersOf(Taken(ixs, places)) \subseteq SignersOf(ixs)
<1> DEFINE t == Taken(ixs, places)
<1>1. /\ t \in Seq(ToSet(ixs))
      /\ ToSet(t) = {ixs[i] : i \in {k \in DOMAIN ixs : k \in places}}
  BY TakenSome DEF IsList
<1> HIDE DEF t
<1>2. ToSet(t) \subseteq ToSet(ixs)
  BY <1>1 DEF ToSet
<1>3. t \in Seq(ToSet(t))
  BY <1>1 DEF ToSet
<1>4. IsList(t)
  BY <1>2, <1>3 DEF IsList
<1>5. SignersOf(t) \subseteq SignersOf(ixs)
  BY <1>2, SignersBySet
<1> QED BY <1>1, <1>4, <1>5 DEF t

LEMMA DecompiledIs ==
    ASSUME NEW tx, IsList(tx.ixs)
    PROVE  /\ IsList(Decompiled(tx)) /\ DOMAIN Decompiled(tx) = DOMAIN tx.ixs
           /\ \A i \in DOMAIN tx.ixs :
                /\ Decompiled(tx)[i].signs = ToSet(tx.ixs[i].uses) \intersect SignersOf(tx.ixs)
                /\ Decompiled(tx)[i].program = tx.ixs[i].program
                /\ Decompiled(tx)[i].uses = tx.ixs[i].uses
           /\ SignersOf(Decompiled(tx)) \subseteq SignersOf(tx.ixs)
<1> DEFINE ixs == tx.ixs
           d == Decompiled(tx)
           n == Len(ixs)
           S(i) == ToSet(ixs[i].uses) \intersect SignersOf(ixs)
<1>1. n \in Nat /\ DOMAIN ixs = 1..n /\ \A i \in 1..n : IsIx(ixs[i])
  BY ListIs
<1> HIDE DEF n
<1>2. /\ d = [i \in 1..n |-> d[i]] /\ DOMAIN d = 1..n
      /\ \A i \in 1..n : d[i] = [ixs[i] EXCEPT !.signs = S(i)]
  BY <1>1 DEF Decompiled
<1> HIDE DEF d, S, ixs
<1>3. \A i \in 1..n : /\ IsIx(d[i]) /\ d[i].signs = S(i)
                      /\ d[i].program = ixs[i].program /\ d[i].uses = ixs[i].uses
  BY <1>1, <1>2 DEF IsIx, Fields
<1>4. IsList(d)
  BY <1>1, <1>2, <1>3, Tabled
<1>5. Owner \in SignersOf(ixs)
  BY DEF SignersOf
<1>6. SignersOf(d) \subseteq SignersOf(ixs)
  <2>1. \A i \in 1..n : d[i].signs \subseteq SignersOf(ixs)
    BY <1>3 DEF S
  <2>2. SignersOf(d) = {Owner} \union UNION {d[i].signs : i \in 1..n}
    BY <1>2 DEF SignersOf
  <2> QED BY <1>5, <2>1, <2>2
<1> QED BY <1>1, <1>2, <1>3, <1>4, <1>6 DEF d, S, ixs

\* Renaming renames those who sign.
LEMMA RewrittenIs ==
    ASSUME NEW ixs, IsList(ixs), NEW missing, Owner \notin missing
    PROVE  SignersOf(Rewritten(ixs, missing)) =
                {IF a \in missing THEN Anew(a) ELSE a : a \in SignersOf(ixs)}
<1> DEFINE New(a) == IF a \in missing THEN Anew(a) ELSE a
           r == Rewritten(ixs, missing)
           n == Len(ixs)
<1>1. n \in Nat /\ DOMAIN ixs = 1..n /\ \A i \in 1..n : IsIx(ixs[i])
  BY ListIs
<1> HIDE DEF n
<1>2. DOMAIN r = 1..n
  BY <1>1 DEF Rewritten
<1>3. ASSUME NEW i \in 1..n
      PROVE  r[i].signs = {New(a) : a \in ixs[i].signs}
  <2>1. PICK u, q : /\ r[i] = [ixs[i] EXCEPT !.uses = u, !.signs = q]
                    /\ q = {New(a) : a \in ixs[i].signs}
    BY <1>1 DEF Rewritten
  <2> HIDE DEF r, New
  <2> QED BY <1>1, <2>1 DEF IsIx, Fields
<1> HIDE DEF r
<1>4. SignersOf(r) = {Owner} \union UNION {r[i].signs : i \in 1..n}
  BY <1>2 DEF SignersOf
<1>5. SignersOf(ixs) = {Owner} \union UNION {ixs[i].signs : i \in 1..n}
  BY <1>1 DEF SignersOf
<1>6. New(Owner) = Owner
  OBVIOUS
<1> HIDE DEF New
<1>7. SignersOf(r) = {New(a) : a \in SignersOf(ixs)}
  BY <1>3, <1>4, <1>5, <1>6
<1> QED BY <1>7 DEF New, r

\* The keys at hand and the new ones are those a combination asks for.
LEMMA CanSignRewritten ==
    ASSUME NEW ixs, IsList(ixs), NEW known, known \subseteq SignersOf(ixs)
    PROVE  LET missing == MissingSigners(ixs, known) IN
           CanSign(known \union {Anew(a) : a \in missing}, Rewritten(ixs, missing))
<1> DEFINE missing == MissingSigners(ixs, known)
           S == SignersOf(ixs)
<1>1. missing = S \ (known \union {Owner}) /\ Owner \in S
  BY DEF MissingSigners, SignersOf
<1> HIDE DEF missing
<1>2. SignersOf(Rewritten(ixs, missing)) = {IF a \in missing THEN Anew(a) ELSE a : a \in S}
  BY <1>1, RewrittenIs
<1> HIDE DEF S
<1>3. known \subseteq S
  BY DEF S
<1>4. {IF a \in missing THEN Anew(a) ELSE a : a \in S}
        = (known \union {Anew(a) : a \in missing}) \union {Owner}
  BY <1>1, <1>3
<1> QED BY <1>2, <1>4 DEF CanSign, missing

LEMMA AtomicSame ==
    ASSUME NEW core, IsList(core), NEW fees, NEW on
    PROVE  /\ IsList(AtomicSettings(core, fees, on))
           /\ SignersOf(AtomicSettings(core, fees, on)) = SignersOf(core)
<1> DEFINE a == If(fees.price > 0, PriceOf(fees.price))
           b == If(fees.limit > 0, LimitOf(fees.limit))
           c == Protected(core, on)
           d == If(fees.tip > 0, Transfer(TipAccount, fees.tip))
<1>1. /\ IsList(a) /\ SignersOf(a) \subseteq {Owner}
      /\ IsList(b) /\ SignersOf(b) \subseteq {Owner}
      /\ IsList(d) /\ SignersOf(d) \subseteq {Owner}
  BY SettingsAre, Perhaps
<1>2. IsList(c) /\ SignersOf(c) = SignersOf(core)
  BY ProtectedSame
<1>3. AtomicSettings(core, fees, on) = a \o b \o c \o d
  BY DEF AtomicSettings
<1>4. Owner \in SignersOf(core)
  BY DEF SignersOf
<1> HIDE DEF a, b, c, d
<1>5. IsList(a \o b) /\ SignersOf(a \o b) \subseteq {Owner}
  BY <1>1, Concatenated
<1>6. IsList(a \o b \o c) /\ SignersOf(a \o b \o c) = SignersOf(core)
  BY <1>2, <1>4, <1>5, Concatenated
<1>7. IsList(a \o b \o c \o d) /\ SignersOf(a \o b \o c \o d) = SignersOf(core)
  BY <1>1, <1>4, <1>6, Concatenated
<1> QED BY <1>3, <1>7

LEMMA CoreIs ==
    ASSUME NEW tx, IsList(tx.ixs), NEW fees
    PROVE  /\ IsList(CoreOf(tx, fees))
           /\ ToSet(CoreOf(tx, fees)) =
                {Decompiled(tx)[i] : i \in {k \in DOMAIN tx.ixs : IsKept(Decompiled(tx)[k], fees)}}
<1> DEFINE d == Decompiled(tx)
           P == {i \in DOMAIN d : IsKept(d[i], fees)}
<1>1. IsList(d) /\ DOMAIN d = DOMAIN tx.ixs
  BY DecompiledIs
<1>2. CoreOf(tx, fees) = Taken(d, P)
  BY DEF CoreOf
<1> HIDE DEF d
<1>3. {k \in DOMAIN d : k \in P} = P
  OBVIOUS
<1> HIDE DEF P
<1>4. IsList(Taken(d, P)) /\ ToSet(Taken(d, P)) = {d[i] : i \in P}
  BY <1>1, <1>3, TakenList
<1> QED BY <1>1, <1>2, <1>4 DEF P, d

\* A combination gets every signature it asks for.
LEMMA CombinedIs ==
    ASSUME NEW r, NEW action, NEW loaded, IsList(topUp.ixs), IsList(action.ixs),
           r.kind = "bonk-launch" => Mint \in SignersOf(CoreOf(action, CombinedFees(r)))
    PROVE  LET fees == CombinedFees(r)
               known == IF r.kind = "bonk-launch" THEN {Mint} ELSE {}
               core == CoreOf(topUp, fees) \o CoreOf(action, fees)
               ixs == AtomicSettings(core, fees, r.dontfront)
               tx == Combined(r, action, loaded)
           IN  /\ tx.error \in {"none", "size"}
               /\ tx.error = "none" => tx.ixs = Rewritten(ixs, MissingSigners(ixs, known))
<1> DEFINE fees == CombinedFees(r)
           known == IF r.kind = "bonk-launch" THEN {Mint} ELSE {}
           core == CoreOf(topUp, fees) \o CoreOf(action, fees)
           ixs == AtomicSettings(core, fees, r.dontfront)
           missing == MissingSigners(ixs, known)
           keys == known \union {Anew(a) : a \in missing}
<1>1. IsList(core) /\ SignersOf(CoreOf(action, fees)) \subseteq SignersOf(core)
  BY CoreIs, Concatenated
<1> HIDE DEF core
<1>2. IsList(ixs) /\ SignersOf(ixs) = SignersOf(core)
  BY <1>1, AtomicSame
<1>3. known \subseteq SignersOf(ixs)
  BY <1>1, <1>2
<1>4. Combined(r, action, loaded) =
        BonkCompiled("v0", keys, Rewritten(ixs, missing), Merged(topUp.tables, action.tables), loaded)
  BY Zenon DEF Combined, core
<1> HIDE DEF ixs, known
<1>5. CanSign(keys, Rewritten(ixs, missing))
  BY <1>2, <1>3, CanSignRewritten
<1> HIDE DEF keys
<1> DEFINE renamed == Rewritten(ixs, missing)
           tx == Combined(r, action, loaded)
<1> HIDE DEF missing, renamed, tx
<1>6. tx.error \in {"none", "size"} /\ (tx.error = "none" => tx.ixs = renamed)
  BY <1>4, <1>5, BonkCompiledIs DEF renamed, tx
<1> QED BY <1>6 DEF ixs, known, core, missing, renamed, tx

-----------------------------------------------------------------------------
(* The lists the launchpads build                                          *)

LEMMA NamedSet ==
    ASSUME NEW names, NEW T, names \in Seq(T), NEW k \in 1..Len(names)
    PROVE  Named(names) \in Seq(ToSet(Named(names))) /\ Key(names[k]) \in ToSet(Named(names))
<1> DEFINE N == Named(names)
<1>1. N = [i \in 1..Len(names) |-> Key(names[i])] /\ Len(names) \in Nat
  BY DEF Named
<1>2. DOMAIN N = 1..Len(names) /\ N[k] = Key(names[k])
  BY <1>1
<1>3. N \in [1..Len(names) -> ToSet(N)]
  <2>1. \A i \in 1..Len(names) : N[i] \in ToSet(N)
    BY <1>2 DEF ToSet
  <2>2. N = [i \in 1..Len(names) |-> N[i]]
    BY <1>1
  <2> HIDE DEF N
  <2> QED BY <2>1, <2>2
<1> HIDE DEF N
<1>4. N \in Seq(ToSet(N))
  BY <1>1, <1>3
<1>5. Key(names[k]) \in ToSet(N)
  BY <1>2 DEF ToSet
<1> QED BY <1>4, <1>5 DEF N

\* The mint is among the accounts of the instruction that makes it, and signs it.
LEMMA InitializeIs ==
    ASSUME NEW quote, NEW strings
    PROVE  LET ix == BonkInitialize(quote, strings) IN
           /\ IsIx(ix) /\ ix.signs = {Owner, Mint} /\ ix.program = Key("launchpad")
           /\ ix.uses \in Seq(ToSet(ix.uses)) /\ Mint \in ToSet(ix.uses)
<1> DEFINE names == <<"config", "platform", "auth", "pool", "mint", quote, "vault-a", "vault-b",
                    "metadata", "token", "token", "metadata-program", "system", "rent", "event",
                    "launchpad">>
           T == {"config", "platform", "auth", "pool", "mint", quote, "vault-a", "vault-b",
                    "metadata", "token", "metadata-program", "system", "rent", "event",
                    "launchpad"}
           a == <<Owner, Owner>>
           b == Named(names)
           S == {Owner} \union ToSet(b)
<1>1. names \in Seq(T) /\ 5 \in 1..Len(names) /\ names[5] = "mint"
  OBVIOUS
<1>2. BonkInitialize(quote, strings) =
        Instr("initialize", "launchpad", {Owner, Mint}, a \o b, 72 + strings)
  BY DEF BonkInitialize
<1> HIDE DEF names
<1>3. b \in Seq(ToSet(b)) /\ Mint \in ToSet(b)
  BY <1>1, NamedSet DEF Mint
<1> HIDE DEF b
<1>4. a \in Seq(S) /\ b \in Seq(S)
  BY <1>3
<1> HIDE DEF a, S
<1>5. a \o b \in Seq(S) /\ ToSet(a \o b) = ToSet(a) \union ToSet(b)
  BY <1>4, ConcatenatedSet
<1>6. a \o b \in Seq(ToSet(a \o b))
  <2> DEFINE c == a \o b
  <2>1. c \in Seq(S)
    BY <1>5
  <2> HIDE DEF c
  <2>2. c \in [1..Len(c) -> ToSet(c)] /\ Len(c) \in Nat
    BY <2>1 DEF ToSet
  <2>3. c \in Seq(ToSet(c))
    BY <2>2
  <2> QED BY <2>3 DEF c
<1> DEFINE c == a \o b
<1>7. Mint \in ToSet(c) /\ c \in Seq(ToSet(c))
  BY <1>3, <1>5, <1>6
<1>8. BonkInitialize(quote, strings) =
        Instr("initialize", "launchpad", {Owner, Mint}, c, 72 + strings)
  BY <1>2
<1> HIDE DEF c
<1> DEFINE ix == Instr("initialize", "launchpad", {Owner, Mint}, c, 72 + strings)
<1>9. IsIx(ix) /\ ix.signs = {Owner, Mint} /\ ix.uses = c /\ ix.program = Key("launchpad")
  BY DEF Instr, IsIx, Fields
<1> HIDE DEF ix
<1> QED BY <1>7, <1>8, <1>9 DEF ix

\* The mint keeps signing what is read back from the launch and kept.
LEMMA MintKept ==
    ASSUME NEW tx, NEW core, IsList(core), NEW quote, NEW strings, NEW fees, NEW on, NEW charged,
           tx.ixs = Settings(core, charged, on), BonkInitialize(quote, strings) \in ToSet(core)
    PROVE  IsList(tx.ixs) /\ Mint \in SignersOf(CoreOf(tx, fees))
<1> DEFINE ix == BonkInitialize(quote, strings)
           marked == IF on THEN DontfrontOn(ix) ELSE ix
           d == Decompiled(tx)
<1>1. IsIx(ix) /\ ix.signs = {Owner, Mint} /\ ix.program = Key("launchpad")
      /\ ix.uses \in Seq(ToSet(ix.uses)) /\ Mint \in ToSet(ix.uses)
  BY InitializeIs
<1>2. PICK k \in DOMAIN core : core[k] = ix
  BY DEF ToSet
<1> HIDE DEF ix
<1>3. IsIx(marked) /\ marked.signs = {Owner, Mint} /\ marked.program = Key("launchpad")
      /\ marked.uses \in {ix.uses, Append(ix.uses, Dontfront)}
  BY <1>1, MarkedSame
<1>4. Mint \in ToSet(marked.uses)
  <2>1. ix.uses \in Seq(ToSet(ix.uses) \union {Dontfront})
    BY <1>1
  <2>2. ToSet(Append(ix.uses, Dontfront)) = ToSet(ix.uses) \union {Dontfront}
    BY <2>1, AppendedSet
  <2>3. marked.uses = ix.uses \/ marked.uses = Append(ix.uses, Dontfront)
    BY <1>3
  <2> HIDE DEF marked
  <2> QED BY <1>1, <2>2, <2>3
<1>5. marked \in ToSet(Protected(core, on))
  <2>1. k \in DOMAIN Protected(core, on) /\ Protected(core, on)[k] = marked
    BY <1>2, ProtectedSame
  <2> HIDE DEF marked
  <2> QED BY <2>1 DEF ToSet
<1> HIDE DEF marked
<1>6. IsList(tx.ixs) /\ marked \in ToSet(tx.ixs)
  BY <1>5, SettingsSame
<1>7. PICK i \in DOMAIN tx.ixs : tx.ixs[i] = marked
  BY <1>6 DEF ToSet
<1>8. Mint \in SignersOf(tx.ixs)
  BY <1>3, <1>6, SignersBySet
<1>9. Mint \in d[i].signs /\ d[i].program = Key("launchpad")
  BY <1>3, <1>4, <1>6, <1>7, <1>8, DecompiledIs
<1> HIDE DEF d
<1>10. IsKept(d[i], fees)
  BY <1>9 DEF IsKept, IsBudget, IsTip, Key
<1>11. d[i] \in ToSet(CoreOf(tx, fees))
  BY <1>6, <1>10, CoreIs DEF d
<1>12. Mint \in SignersOf(CoreOf(tx, fees))
  BY <1>9, <1>11, SignersBySet
<1> QED BY <1>6, <1>12

-----------------------------------------------------------------------------
(* Who signs the lists of a launch, a buy, a sell                          *)

\* A list whose signers are among some keys.
By(a, S) == IsList(a) /\ SignersOf(a) \subseteq {Owner} \union S

LEMMA Pair ==
    ASSUME NEW x, NEW y, IsIx(x), IsIx(y)
    PROVE  /\ IsList(<<x, y>>) /\ ToSet(<<x, y>>) = {x, y}
           /\ SignersOf(<<x, y>>) = {Owner} \union x.signs \union y.signs
<1> HIDE DEF IsIx
<1>1. <<x, y>> \in Seq({x, y})
  OBVIOUS
<1>2. DOMAIN <<x, y>> = {1, 2} /\ <<x, y>>[1] = x /\ <<x, y>>[2] = y
  OBVIOUS
<1>3. ToSet(<<x, y>>) = {x, y}
  BY <1>2 DEF ToSet
<1> QED BY <1>1, <1>3, SignersBySet DEF IsList

LEMMA Triple ==
    ASSUME NEW x, NEW y, NEW z, IsIx(x), IsIx(y), IsIx(z)
    PROVE  /\ IsList(<<x, y, z>>) /\ ToSet(<<x, y, z>>) = {x, y, z}
           /\ SignersOf(<<x, y, z>>) = {Owner} \union x.signs \union y.signs \union z.signs
<1> HIDE DEF IsIx
<1>1. <<x, y, z>> \in Seq({x, y, z})
  OBVIOUS
<1>2. DOMAIN <<x, y, z>> = {1, 2, 3}
      /\ <<x, y, z>>[1] = x /\ <<x, y, z>>[2] = y /\ <<x, y, z>>[3] = z
  OBVIOUS
<1>3. ToSet(<<x, y, z>>) = {x, y, z}
  BY <1>2 DEF ToSet
<1> QED BY <1>1, <1>3, SignersBySet DEF IsList

LEMMA JoinedBy ==
    ASSUME NEW a, NEW b, NEW S, By(a, S), By(b, S)
    PROVE  By(a \o b, S)
BY Concatenated DEF By

\* What the owner alone signs.
LEMMA OwnersAre ==
    ASSUME NEW account, NEW mint, NEW token, NEW op, NEW quote, NEW from, NEW to, NEW arrays
    PROVE  /\ IsIx(CreateAta(account, mint, token))
           /\ CreateAta(account, mint, token).signs = {Owner}
           /\ IsIx(BonkSwap(op, quote, from, to)) /\ BonkSwap(op, quote, from, to).signs = {Owner}
           /\ IsIx(ClmmSwap(arrays)) /\ ClmmSwap(arrays).signs = {Owner}
           /\ IsIx(CloseWrapped) /\ CloseWrapped.signs = {Owner}
<1>1. \A o, pr, si, us, da : IsIx(Instr(o, pr, si, us, da)) /\ Instr(o, pr, si, us, da).signs = si
  BY DEF Instr, IsIx, Fields
<1> HIDE DEF IsIx
<1> QED BY <1>1 DEF CreateAta, BonkSwap, ClmmSwap, CloseWrapped

\* The temporary account signs the list it is opened in.
LEMMA OpenWrappedIs ==
    IsList(OpenWrapped) /\ SignersOf(OpenWrapped) = {Owner, Wrapped}
<1> DEFINE x == Instr("create-account", "system", {Owner, Wrapped}, <<Owner, Wrapped>>, 52)
           y == Instr("initialize-account", "token", {}, <<Wrapped, Key("sol")>>, 33)
           z == Instr("sync", "token", {}, <<Wrapped>>, 1)
<1>1. IsIx(x) /\ x.signs = {Owner, Wrapped} /\ IsIx(y) /\ y.signs = {} /\ IsIx(z) /\ z.signs = {}
  BY DEF Instr, IsIx, Fields
<1>2. OpenWrapped = <<x, y, z>>
  BY DEF OpenWrapped
<1> HIDE DEF x, y, z
<1> QED BY <1>1, <1>2, Triple

LEMMA TopUpCoreIs ==
    ASSUME NEW r
    PROVE  IsList(TopUpCore(r)) /\ SignersOf(TopUpCore(r)) = {Owner, Wrapped}
<1> DEFINE a == If(r.createAta \/ r.kind = "same-time-buy", MyUsd1)
           c == <<ClmmSwap(r.arrays), CloseWrapped>>
<1>1. IsList(a) /\ SignersOf(a) \subseteq {Owner}
  BY OwnersAre, Perhaps DEF MyUsd1
<1>2. IsList(c) /\ SignersOf(c) = {Owner}
  BY OwnersAre, Pair
<1>3. TopUpCore(r) = a \o OpenWrapped \o c
  BY DEF TopUpCore
<1> HIDE DEF a, c
<1>4. IsList(a \o OpenWrapped) /\ SignersOf(a \o OpenWrapped) = {Owner, Wrapped}
  BY <1>1, OpenWrappedIs, Concatenated
<1>5. IsList(a \o OpenWrapped \o c) /\ SignersOf(a \o OpenWrapped \o c) = {Owner, Wrapped}
  BY <1>2, <1>4, Concatenated
<1> QED BY <1>3, <1>5

LEMMA BonkLaunchIs ==
    ASSUME NEW r
    PROVE  /\ IsList(BonkLaunch(r)) /\ SignersOf(BonkLaunch(r)) \subseteq {Owner, Mint}
           /\ BonkInitialize(r.quote, r.strings) \in ToSet(BonkLaunch(r))
<1> DEFINE ix == BonkInitialize(r.quote, r.strings)
           a == <<MyTokens>>
           b == IF r.quote = "sol" THEN WrapInOwn ELSE If(r.createAta, MyUsd1)
           c == <<BonkSwap("buy", r.quote, Key("my-tokens"), OwnQuote(r))>>
           d == IF r.devBuy THEN DevBuy(r) ELSE <<>>
<1>1. IsIx(ix) /\ ix.signs = {Owner, Mint}
  BY InitializeIs
<1>2. By(a, {})
  BY OwnersAre, Single DEF By, MyTokens
<1>3. By(b, {})
  <2>1. By(If(r.createAta, MyUsd1), {})
    BY OwnersAre, Perhaps DEF By, MyUsd1
  <2>2. By(WrapInOwn, {})
    <3> DEFINE x == CreateAta(Key("my-sol"), Key("sol"), "token")
               y == Transfer(Key("my-sol"), 9)
               z == Instr("sync", "token", {}, <<Key("my-sol")>>, 1)
    <3>1. /\ IsIx(x) /\ x.signs = {Owner} /\ IsIx(y) /\ y.signs = {Owner}
      BY OwnersAre, SettingsAre
    <3>2. IsIx(z) /\ z.signs = {}
      BY DEF Instr, IsIx, Fields
    <3>3. WrapInOwn = <<x, y, z>>
      BY DEF WrapInOwn
    <3> HIDE DEF x, y, z
    <3> QED BY <3>1, <3>2, <3>3, Triple DEF By
  <2> QED BY <2>1, <2>2
<1>4. By(c, {})
  BY OwnersAre, Single DEF By
<1>5. DevBuy(r) = a \o b \o c
  BY DEF DevBuy
<1>6. By(d, {})
  <2> HIDE DEF a, b, c
  <2>1. By(a \o b \o c, {})
    BY <1>2, <1>3, <1>4, JoinedBy
  <2>2. By(<<>>, {})
    BY Nobody DEF By
  <2> QED BY <1>5, <2>1, <2>2
<1>7. BonkLaunch(r) = <<ix>> \o d
  BY DEF BonkLaunch
<1> HIDE DEF ix, d
<1>8. IsList(<<ix>>) /\ ToSet(<<ix>>) = {ix} /\ SignersOf(<<ix>>) = {Owner, Mint}
  BY <1>1, Single
<1>9. /\ IsList(<<ix>> \o d) /\ SignersOf(<<ix>> \o d) \subseteq {Owner, Mint}
      /\ ix \in ToSet(<<ix>> \o d)
  BY <1>6, <1>8, Concatenated DEF By
<1> QED BY <1>7, <1>9 DEF ix

\* A buy, a sell: the temporary account signs those with SOL.
LEMMA TradeCoreIs ==
    ASSUME NEW r
    PROVE  /\ IsList(TradeCore(r))
           /\ SignersOf(TradeCore(r)) = {Owner} \union IF r.quote = "sol" THEN {Wrapped} ELSE {}
<1> DEFINE a == <<MyTokens>>
           b(op) == <<BonkSwap(op, "sol", Key("my-tokens"), Wrapped), CloseWrapped>>
           u == If(r.createAta, MyUsd1)
           c == <<BonkSwap("buy", "usd1", Key("my-tokens"), Key("my-usd1"))>>
           d == <<MyUsd1, BonkSwap("sell", "usd1", Key("my-tokens"), Key("my-usd1"))>>
<1>1. IsList(a) /\ SignersOf(a) = {Owner}
  BY OwnersAre, Single DEF MyTokens
<1>2. \A op : IsList(b(op)) /\ SignersOf(b(op)) = {Owner}
  BY OwnersAre, Pair
<1>3. IsList(u) /\ SignersOf(u) \subseteq {Owner}
  BY OwnersAre, Perhaps DEF MyUsd1
<1>4. IsList(c) /\ SignersOf(c) = {Owner}
  BY OwnersAre, Single
<1>5. IsList(d) /\ SignersOf(d) = {Owner}
  BY OwnersAre, Pair DEF MyUsd1
<1>6. TradeCore(r) \in IF r.quote = "sol"
                       THEN {a \o OpenWrapped \o b("buy"), OpenWrapped \o b("sell")}
                       ELSE {a \o u \o c, d}
  BY DEF TradeCore, BuyCore, SellCore
<1> HIDE DEF a, b, u, c, d
<1>7. IsList(a \o OpenWrapped) /\ SignersOf(a \o OpenWrapped) = {Owner, Wrapped}
  BY <1>1, OpenWrappedIs, Concatenated
<1>8. /\ IsList(a \o OpenWrapped \o b("buy"))
      /\ SignersOf(a \o OpenWrapped \o b("buy")) = {Owner, Wrapped}
  BY <1>2, <1>7, Concatenated
<1>9. IsList(OpenWrapped \o b("sell")) /\ SignersOf(OpenWrapped \o b("sell")) = {Owner, Wrapped}
  BY <1>2, OpenWrappedIs, Concatenated
<1>10. IsList(a \o u) /\ SignersOf(a \o u) = {Owner}
  BY <1>1, <1>3, Concatenated
<1>11. IsList(a \o u \o c) /\ SignersOf(a \o u \o c) = {Owner}
  BY <1>4, <1>10, Concatenated
<1> QED BY <1>5, <1>6, <1>8, <1>9, <1>11

-----------------------------------------------------------------------------
(* Who signs a launch on Pump, and what Bags returns                       *)

LEMMA PumpOnesAre ==
    ASSUME NEW k
    PROVE  /\ IsIx(PumpCreate(k)) /\ PumpCreate(k).signs = {Mint, Owner}
           /\ IsIx(PumpExtend) /\ PumpExtend.signs = {Owner}
           /\ IsIx(BuyOnCurve) /\ BuyOnCurve.signs = {Owner}
           /\ IsIx(AgentInitialize) /\ AgentInitialize.signs = {Owner}
           /\ IsIx(SocialFee(k)) /\ SocialFee(k).signs = {Owner}
           /\ IsIx(ShareConfig) /\ ShareConfig.signs = {Owner}
           /\ IsIx(UpdateShares(k)) /\ UpdateShares(k).signs = {Owner}
<1>1. \A o, pr, si, us, da : IsIx(Instr(o, pr, si, us, da)) /\ Instr(o, pr, si, us, da).signs = si
  BY DEF Instr, IsIx, Fields
<1> HIDE DEF IsIx
<1> QED BY <1>1 DEF PumpCreate, PumpExtend, BuyOnCurve, AgentInitialize, SocialFee, ShareConfig,
                    UpdateShares

LEMMA PumpLaunchIs ==
    ASSUME NEW r
    PROVE  IsList(PumpLaunchOf(r)) /\ SignersOf(PumpLaunchOf(r)) = {Owner, Mint}
<1> DEFINE a == If(r.creatorMissing, SocialFee(Key("creator-fee")))
           b == <<PumpCreate(r.strings)>>
           c == IF r.devBuy
                THEN <<PumpExtend, CreateAta(Key("my-tokens"), Mint, "token-2022"), BuyOnCurve>>
                ELSE <<>>
           d == If(IsAgent(r), AgentInitialize)
<1>1. By(a, {}) /\ By(d, {})
  BY PumpOnesAre, Perhaps DEF By
<1>2. IsList(b) /\ SignersOf(b) = {Owner, Mint}
  BY PumpOnesAre, Single
<1>3. By(c, {})
  BY PumpOnesAre, OwnersAre, Triple, Nobody DEF By
<1>4. PumpLaunchOf(r) = a \o b \o c \o d
  BY DEF PumpLaunchOf
<1> HIDE DEF a, b, c, d
<1>5. IsList(a \o b) /\ SignersOf(a \o b) = {Owner, Mint}
  BY <1>1, <1>2, Concatenated DEF By
<1>6. IsList(a \o b \o c) /\ SignersOf(a \o b \o c) = {Owner, Mint}
  BY <1>3, <1>5, Concatenated DEF By
<1>7. IsList(a \o b \o c \o d) /\ SignersOf(a \o b \o c \o d) = {Owner, Mint}
  BY <1>1, <1>6, Concatenated DEF By
<1> QED BY <1>4, <1>7

LEMMA PumpSetupIs ==
    ASSUME NEW r, r.missing \in Nat
    PROVE  IsList(PumpSetup(r)) /\ SignersOf(PumpSetup(r)) = {Owner}
<1> DEFINE a == <<ShareConfig>>
           b == [i \in 1..r.missing |-> SocialFee(<<"github", i>>)]
           c == <<UpdateShares(IF r.mode = "agent-locked" THEN 1 ELSE r.recipients)>>
<1>1. IsList(a) /\ SignersOf(a) = {Owner} /\ IsList(c) /\ SignersOf(c) = {Owner}
  BY PumpOnesAre, Single
<1>2. /\ b = [i \in 1..r.missing |-> b[i]] /\ DOMAIN b = 1..r.missing
      /\ \A i \in 1..r.missing : IsIx(b[i]) /\ b[i].signs = {Owner}
  BY PumpOnesAre
<1>3. PumpSetup(r) = a \o b \o c
  BY DEF PumpSetup
<1> HIDE DEF a, b, c
<1>4. IsList(b)
  BY <1>2, Tabled
<1>5. SignersOf(b) = {Owner}
  BY <1>2 DEF SignersOf
<1>6. IsList(a \o b) /\ SignersOf(a \o b) = {Owner}
  BY <1>1, <1>4, <1>5, Concatenated
<1>7. IsList(a \o b \o c) /\ SignersOf(a \o b \o c) = {Owner}
  BY <1>1, <1>6, Concatenated
<1> QED BY <1>3, <1>7

LEMMA ServiceIs ==
    ASSUME NEW s
    PROVE  IsList(ServiceIxs(s))
<1> DEFINE a == If(s.limit > 0, LimitOf(s.limit))
           b == If(s.price > 0, PriceOf(s.price))
           c == If(s.heap, Budget("heap", 0, 5))
           x == Instr("service", "bags", IF s.foreign THEN {Owner, Mint} ELSE {Owner},
                      <<Owner, Mint>> \o Own(s.name, s.accounts), 60)
           d == <<x, Transfer(Key("bags-fees"), s.pays)>>
           e == If(s.tip > 0, Transfer(TipAccount, s.tip))
<1>1. IsList(a) /\ IsList(b) /\ IsList(c) /\ IsList(e)
  BY SettingsAre, Perhaps
<1>2. IsList(d)
  <2>1. IsIx(x)
    BY DEF IsIx, Instr, Fields
  <2> HIDE DEF x
  <2> QED BY <2>1, SettingsAre, Pair
<1>3. ServiceIxs(s) = a \o b \o c \o d \o e
  BY DEF ServiceIxs, ServiceCore
<1> HIDE DEF a, b, c, d, e
<1>4. IsList(a \o b)
  BY <1>1, Concatenated
<1>5. IsList(a \o b \o c)
  BY <1>1, <1>4, Concatenated
<1>6. IsList(a \o b \o c \o d)
  BY <1>2, <1>5, Concatenated
<1>7. IsList(a \o b \o c \o d \o e)
  BY <1>1, <1>6, Concatenated
<1> QED BY <1>3, <1>7

\* What the owner alone signed is, rebuilt, signed by the owner alone.
LEMMA RebuiltIs ==
    ASSUME NEW ixs, IsList(ixs), SignersOf(ixs) = {Owner}, NEW fees, NEW on
    PROVE  SignersOf(Rebuilt(ixs, fees, on)) = {Owner}
<1> DEFINE limit == Max({AmountOf("limit", ixs), fees.limit})
           price == Max({AmountOf("price", ixs), fees.price})
           P == {i \in DOMAIN ixs : IsBudget(ixs[i]) /\ ixs[i].op \notin {"limit", "price"}}
           R == {i \in DOMAIN ixs : ~IsBudget(ixs[i])}
           core == Protected(Taken(ixs, R), on)
           a == If(limit > 0, LimitOf(limit))
           b == If(price > 0, PriceOf(price))
           c == Taken(ixs, P)
           d == TipToAdd(core, fees)
<1>1. Rebuilt(ixs, fees, on) = a \o b \o c \o core \o d
  BY DEF Rebuilt
<1>2. By(a, {}) /\ By(b, {})
  BY SettingsAre, Perhaps DEF By
<1> HIDE DEF a, b, P, R
<1>3. By(c, {})
  BY TakenList DEF By
<1>4. By(core, {})
  <2>1. IsList(Taken(ixs, R)) /\ SignersOf(Taken(ixs, R)) \subseteq {Owner}
    BY TakenList
  <2> QED BY <2>1, ProtectedSame DEF By
<1> HIDE DEF core
<1>5. By(d, {})
  BY SettingsAre, Perhaps DEF By, TipToAdd
<1> HIDE DEF c, d
<1>6. By(a \o b, {})
  BY <1>2, JoinedBy
<1>7. By(a \o b \o c, {})
  BY <1>3, <1>6, JoinedBy
<1>8. By(a \o b \o c \o core, {})
  BY <1>4, <1>7, JoinedBy
<1>9. By(a \o b \o c \o core \o d, {})
  BY <1>5, <1>8, JoinedBy
<1>10. Owner \in SignersOf(Rebuilt(ixs, fees, on))
  BY DEF SignersOf
<1> QED BY <1>1, <1>9, <1>10 DEF By

LEMMA EnsuredIs ==
    ASSUME NEW r, NEW s
    PROVE  LET tx == Ensured(r, s)
               fees == IF s.bundled /\ r.secure THEN [r.fees EXCEPT !.tip = 0] ELSE r.fees
           IN  /\ tx.error = "none"
               /\ \/ tx.ixs = ServiceIxs(s)
                  \/ \E given : /\ given.ixs = ServiceIxs(s)
                                /\ tx.ixs = Rebuilt(Decompiled(given), fees, r.dontfront)
<1> DEFINE ixs == ServiceIxs(s)
           given == Signed("v0", SignersOf(ixs), ixs, ServiceTables(s))
           fees == IF s.bundled /\ r.secure THEN [r.fees EXCEPT !.tip = 0] ELSE r.fees
           tx == Ensured(r, s)
<1>1. IsList(ixs) /\ CanSign(SignersOf(ixs), ixs)
  BY ServiceIs DEF CanSign, SignersOf
<1>2. tx = IF SignersOf(given.ixs) # {Owner} THEN given
           ELSE Signed("v0", {}, Rebuilt(Decompiled(given), fees, r.dontfront), given.tables)
  BY Zenon DEF Ensured
<1> HIDE DEF ixs, fees, tx
<1>3. given.error = "none" /\ given.ixs = ixs
  BY <1>1, SignedIs
<1> HIDE DEF given
<1>4. CASE SignersOf(given.ixs) # {Owner}
  BY <1>2, <1>3, <1>4 DEF ixs, tx
<1>5. CASE SignersOf(given.ixs) = {Owner}
  <2> DEFINE d == Decompiled(given)
             rebuilt == Rebuilt(d, fees, r.dontfront)
  <2>1. IsList(d) /\ SignersOf(d) = {Owner}
    BY <1>1, <1>3, <1>5, DecompiledIs DEF SignersOf
  <2> HIDE DEF d
  <2>2. CanSign({}, rebuilt)
    BY <2>1, RebuiltIs DEF CanSign
  <2>3. tx = Signed("v0", {}, rebuilt, given.tables)
    BY <1>2, <1>5 DEF d
  <2> HIDE DEF rebuilt
  <2>4. tx.error = "none" /\ tx.ixs = rebuilt
    BY <2>2, <2>3, SignedIs
  <2> QED BY <1>3, <2>4 DEF ixs, fees, tx, rebuilt, d
<1> QED BY <1>4, <1>5

-----------------------------------------------------------------------------
(* The invariant                                                           *)

\* Instructions of a launch, signed by the owner and the mint.
OfLaunch(a) == IsList(a) /\ SignersOf(a) \subseteq {Owner, Mint}

\* The instructions a launch is split into, wherever they are.
Left == ToSet(todo) \union ToSet(queue) \union UNION {ToSet(g) : g \in ToSet(groups)}

SplitInv ==
    /\ order.kind = "bonk-launch"
    /\ OfLaunch(todo) /\ OfLaunch(queue)
    /\ groups \in Seq(ToSet(groups)) /\ \A g \in ToSet(groups) : OfLaunch(g)
    /\ BonkInitialize(order.quote, order.strings) \in Left

\* The transaction a top-up is combined with: of a launch, the mint signs it.
Combinable ==
    /\ IsList(txs[1].ixs)
    /\ order.kind = "bonk-launch" => Mint \in SignersOf(CoreOf(txs[1], order.fees))

SignInv ==
    /\ order \in Requests
    /\ why # "signers"
    /\ IsList(topUp.ixs)
    /\ progress = "start" =>
         queue = <<>> /\ groups = <<>> /\ (order.kind # "bags" => txs = <<>>)
    /\ progress = "split" => SplitInv
    /\ progress = "topup" =>
         IF order.kind = "bonk-launch" THEN Len(txs) > 1 \/ Combinable ELSE txs = <<>>
    /\ progress = "action" => order.kind # "bonk-launch" /\ txs = <<>>
    /\ progress = "combine" => Combinable
    /\ progress \in {"launch", "follow-up", "tip"} => order.kind = "pump"

LEMMA OfLaunchIs ==
    ASSUME NEW a
    PROVE  OfLaunch(a) <=> /\ a \in Seq(ToSet(a))
                           /\ \A x \in ToSet(a) : IsIx(x) /\ x.signs \subseteq {Owner, Mint}
BY SignersBySet DEF OfLaunch, IsList

\* The first instruction and the others.
LEMMA HeadAndTail ==
    ASSUME NEW a, OfLaunch(a), a # <<>>
    PROVE  /\ OfLaunch(<<Head(a)>>) /\ ToSet(<<Head(a)>>) = {Head(a)}
           /\ OfLaunch(Tail(a)) /\ ToSet(a) = {Head(a)} \union ToSet(Tail(a))
<1> DEFINE n == Len(a)
           t == Tail(a)
<1>1. a \in Seq(ToSet(a))
  BY OfLaunchIs
<1>2. n \in Nat /\ n >= 1 /\ DOMAIN a = 1..n /\ Head(a) = a[1]
  BY <1>1
<1>3. t \in Seq(ToSet(a)) /\ Len(t) = n - 1 /\ DOMAIN t = 1..(n - 1)
      /\ \A i \in 1..(n - 1) : t[i] = a[i + 1]
  BY <1>1, <1>2
<1> HIDE DEF n, t
<1>4. ToSet(a) = {a[1]} \union ToSet(t)
  <2>1. ASSUME NEW x \in ToSet(a) PROVE x \in {a[1]} \union ToSet(t)
    <3>1. PICK i \in 1..n : x = a[i]
      BY <1>2 DEF ToSet
    <3>2. CASE i = 1
      BY <3>1, <3>2
    <3>3. CASE i # 1
      <4>1. i - 1 \in 1..(n - 1) /\ t[i - 1] = a[i]
        BY <1>2, <1>3, <3>3
      <4> QED BY <1>3, <3>1, <4>1 DEF ToSet
    <3> QED BY <3>2, <3>3
  <2>2. ASSUME NEW x \in ToSet(t) PROVE x \in ToSet(a)
    <3>1. PICK i \in 1..(n - 1) : x = t[i]
      BY <1>3 DEF ToSet
    <3>2. i + 1 \in 1..n /\ x = a[i + 1]
      BY <1>2, <1>3, <3>1
    <3> QED BY <1>2, <3>2 DEF ToSet
  <2>3. a[1] \in ToSet(a)
    BY <1>2 DEF ToSet
  <2> QED BY <2>1, <2>2, <2>3
<1>5. t \in Seq(ToSet(t))
  <2>1. t \in [1..Len(t) -> ToSet(t)] /\ Len(t) \in Nat
    BY <1>3 DEF ToSet
  <2> QED BY <2>1
<1>6. \A x \in ToSet(a) : IsIx(x) /\ x.signs \subseteq {Owner, Mint}
  BY OfLaunchIs
<1>7. OfLaunch(t)
  BY <1>4, <1>5, <1>6, OfLaunchIs
<1>8. OfLaunch(<<a[1]>>) /\ ToSet(<<a[1]>>) = {a[1]}
  BY <1>4, <1>6, Single DEF OfLaunch
<1> QED BY <1>2, <1>4, <1>7, <1>8 DEF t

LEMMA OneMore ==
    ASSUME NEW a, OfLaunch(a), NEW x, OfLaunch(<<x>>), ToSet(<<x>>) = {x}
    PROVE  OfLaunch(Append(a, x)) /\ ToSet(Append(a, x)) = ToSet(a) \union {x}
<1> DEFINE S == ToSet(a) \union {x}
           b == Append(a, x)
<1>1. a \in Seq(S) /\ x \in S
  BY OfLaunchIs
<1>2. \A y \in S : IsIx(y) /\ y.signs \subseteq {Owner, Mint}
  BY OfLaunchIs
<1> HIDE DEF S
<1>3. b \in Seq(S) /\ ToSet(b) = ToSet(a) \union {x}
  BY <1>1, AppendedSet
<1> HIDE DEF b
<1>4. ToSet(b) = S
  BY <1>3 DEF S
<1>5. OfLaunch(b)
  BY <1>2, <1>3, <1>4, OfLaunchIs
<1> QED BY <1>3, <1>5 DEF b

\* A group of a launch is signed with the keys it needs.
LEMMA GroupSigned ==
    ASSUME NEW core, OfLaunch(core), NEW fees, NEW on
    PROVE  /\ IsList(Settings(core, fees, on))
           /\ CanSign(KeysNeeded(core, {Mint}), Settings(core, fees, on))
<1>1. IsList(Settings(core, fees, on)) /\ SignersOf(Settings(core, fees, on)) = SignersOf(core)
  BY SettingsSame DEF OfLaunch
<1>2. Owner \in SignersOf(core) /\ SignersOf(core) \subseteq {Owner, Mint}
  BY DEF SignersOf, OfLaunch
<1>3. Mint # Owner
  BY DEF Mint, Owner, Key
<1>4. KeysNeeded(core, {Mint}) \union {Owner} = SignersOf(core)
  BY <1>2, <1>3 DEF KeysNeeded
<1> QED BY <1>1, <1>4 DEF CanSign

\* A top-up is signed with the temporary account.
LEMMA TopUpSigned ==
    ASSUME NEW r, NEW loaded
    PROVE  /\ TopUpTx(r, loaded).error \in {"none", "size"}
           /\ TopUpTx(r, loaded).error = "none" => IsList(TopUpTx(r, loaded).ixs)
<1> DEFINE ixs == Settings(TopUpCore(r), TopUpFees(r), r.dontfront)
<1>1. IsList(ixs) /\ CanSign({Wrapped}, ixs)
  BY TopUpCoreIs, SettingsSame DEF CanSign
<1>2. TopUpTx(r, loaded) = BonkCompiled("v0", {Wrapped}, ixs, <<>>, loaded)
  BY Zenon DEF TopUpTx
<1> HIDE DEF ixs
<1> QED BY <1>1, <1>2, BonkCompiledIs

-----------------------------------------------------------------------------
(* Every step keeps it                                                     *)

LEMMA RefusedKeeps ==
    ASSUME SignInv, NEW error, error # "signers", Refused(error)
    PROVE  SignInv'
BY DEF SignInv, Refused

LEMMA SignInit ==
    ASSUME AssembleInit
    PROVE  SignInv
<1>1. topUp.ixs = <<>>
  BY DEF AssembleInit, NoTopUp, NoTx
<1> QED BY <1>1, Nobody DEF AssembleInit, SignInv

LEMMA BonkStartKeeps ==
    ASSUME SignInv, BonkStart
    PROVE  SignInv'
<1>1. /\ order.kind = "bonk-launch" /\ order' = order /\ todo' = BonkLaunch(order)
      /\ queue' = <<>> /\ groups' = <<>> /\ progress' = "split"
      /\ topUp' = topUp /\ why' = why
  BY DEF BonkStart, SignInv
<1>2. OfLaunch(todo') /\ BonkInitialize(order.quote, order.strings) \in ToSet(todo')
  BY <1>1, BonkLaunchIs DEF OfLaunch
<1>3. OfLaunch(queue')
  BY <1>1, Nobody DEF OfLaunch
<1>4. ToSet(groups') = {} /\ groups' \in Seq(ToSet(groups'))
  BY <1>1, Nobody DEF IsList
<1>5. SplitInv'
  BY <1>1, <1>2, <1>3, <1>4 DEF SplitInv, Left
<1> QED BY <1>1, <1>5 DEF SignInv

LEMMA SplitKeeps ==
    ASSUME SignInv, Split
    PROVE  SignInv' /\ Left' = Left
<1>1. /\ order' = order /\ progress = "split" /\ progress' = "split"
      /\ topUp' = topUp /\ why' = why /\ todo # <<>> /\ todo' = Tail(todo)
  BY DEF Split
<1>2. SplitInv
  BY <1>1 DEF SignInv
<1> DEFINE x == Head(todo)
<1>3. OfLaunch(<<x>>) /\ ToSet(<<x>>) = {x} /\ OfLaunch(todo')
      /\ ToSet(todo) = {x} \union ToSet(todo')
  BY <1>1, <1>2, HeadAndTail DEF SplitInv
<1>4. \/ queue' = Append(queue, x) /\ groups' = groups
      \/ queue' = <<x>> /\ groups' = Append(groups, queue)
  BY DEF Split
<1> HIDE DEF x
<1>5. CASE queue' = Append(queue, x) /\ groups' = groups
  <2>1. OfLaunch(queue') /\ ToSet(queue') = ToSet(queue) \union {x}
    BY <1>2, <1>3, <1>5, OneMore DEF SplitInv
  <2>2. Left' = Left
    BY <1>3, <1>5, <2>1 DEF Left
  <2>3. SplitInv'
    BY <1>1, <1>2, <1>3, <1>5, <2>1, <2>2 DEF SplitInv
  <2> QED BY <1>1, <2>2, <2>3 DEF SignInv
<1>6. CASE queue' = <<x>> /\ groups' = Append(groups, queue)
  <2> DEFINE S == ToSet(groups) \union {queue}
  <2>1. groups \in Seq(S) /\ queue \in S
    BY <1>2 DEF SplitInv
  <2>2. groups' \in Seq(S) /\ ToSet(groups') = S
    <3>1. ToSet(Append(groups, queue)) = ToSet(groups) \union {queue}
      BY <2>1, AppendedSet
    <3> QED BY <1>6, <2>1, <3>1
  <2>3. \A g \in S : OfLaunch(g)
    BY <1>2 DEF SplitInv
  <2>4. Left' = Left
    BY <1>3, <1>6, <2>2 DEF Left
  <2> HIDE DEF S
  <2>5. SplitInv'
    BY <1>1, <1>2, <1>3, <1>6, <2>2, <2>3, <2>4 DEF SplitInv
  <2> QED BY <1>1, <2>4, <2>5 DEF SignInv
<1> QED BY <1>4, <1>5, <1>6

\* What the groups of a split launch become, unless one is too large.
LEMMA GroupsCompiled ==
    ASSUME SignInv, CompileGroups
    PROVE  \/ Refused("size")
           \/ \E all, n :
                /\ n \in Nat /\ n >= 1 /\ Len(txs') = n /\ DOMAIN txs' = 1..n
                /\ txs' \in Seq(ToSet(txs'))
                /\ \A i \in 1..n :
                     /\ OfLaunch(all[i]) /\ ToSet(all[i]) \subseteq Left
                     /\ txs'[i].ixs = Settings(all[i], BundleFees(order, i, n), order.dontfront)
                /\ n = 1 => BonkInitialize(order.quote, order.strings) \in ToSet(all[1])
                /\ progress' \in {"topup", "done"}
                /\ order' = order /\ topUp' = topUp /\ why' = why
                /\ all = Append(groups, queue) /\ n = Len(all)
                /\ progress' = IF order.devBuy /\ order.short THEN "topup" ELSE "done"
<1> DEFINE all == Append(groups, queue)
           n == Len(all)
           compiled(i) == BonkCompiled(BonkFormat(order), KeysNeeded(all[i], {Mint}),
                            Settings(all[i], BundleFees(order, i, n), order.dontfront),
                            <<>>, tables)
           made == [i \in DOMAIN all |-> compiled(i)]
<1>1. progress = "split" /\ todo = <<>> /\ SplitInv
  BY DEF CompileGroups, SignInv
<1>2. /\ n \in Nat /\ n >= 1 /\ DOMAIN all = 1..n
      /\ \A i \in 1..n : OfLaunch(all[i]) /\ ToSet(all[i]) \subseteq Left
      /\ n = 1 => BonkInitialize(order.quote, order.strings) \in ToSet(all[1])
  <2> DEFINE S == ToSet(groups) \union {queue}
  <2>1. groups \in Seq(S) /\ queue \in S
    BY <1>1 DEF SplitInv
  <2>2. \A g \in S : OfLaunch(g) /\ ToSet(g) \subseteq Left
    BY <1>1 DEF SplitInv, Left
  <2> HIDE DEF S
  <2>3. /\ Len(groups) \in Nat /\ n = Len(groups) + 1 /\ DOMAIN all = 1..n
        /\ \A i \in 1..n : all[i] \in S
        /\ all[n] = queue
    BY <2>1
  <2>4. ASSUME n = 1 PROVE BonkInitialize(order.quote, order.strings) \in ToSet(all[1])
    <3>1. groups = <<>> /\ all[1] = queue
      BY <2>1, <2>3, <2>4
    <3>2. ToSet(groups) = {} /\ ToSet(todo) = {}
      BY <1>1, <3>1, Nobody
    <3>3. Left = ToSet(queue)
      BY <3>2 DEF Left
    <3> QED BY <1>1, <3>1, <3>3 DEF SplitInv
  <2> QED BY <2>2, <2>3, <2>4
<1>3. \/ \E i \in DOMAIN made : made[i].error # "none" /\ Refused(made[i].error)
      \/ /\ \A i \in DOMAIN made : made[i].error = "none"
         /\ txs' = made /\ progress' \in {"topup", "done"}
         /\ progress' = IF order.devBuy /\ order.short THEN "topup" ELSE "done"
         /\ order' = order /\ topUp' = topUp /\ why' = why
  BY Zenon DEF CompileGroups
<1>4. DOMAIN made = 1..n /\ \A i \in 1..n : made[i] = compiled(i)
  BY <1>2
<1>5. Len(made) = n /\ made \in Seq(ToSet(made))
  <2>1. made \in [1..n -> ToSet(made)]
    <3>1. made = [i \in 1..n |-> made[i]]
      <4> HIDE DEF all, n, compiled
      <4> QED BY <1>2
    <3> HIDE DEF made, n
    <3> QED BY <1>4, <3>1 DEF ToSet
  <2> HIDE DEF made, n
  <2> QED BY <1>2, <2>1
<1> HIDE DEF made, n, all
<1>6. \A i \in 1..n :
        /\ made[i].error \in {"none", "size"}
        /\ made[i].error = "none" =>
             made[i].ixs = Settings(all[i], BundleFees(order, i, n), order.dontfront)
  <2> TAKE i \in 1..n
  <2> DEFINE ixs == Settings(all[i], BundleFees(order, i, n), order.dontfront)
             keys == KeysNeeded(all[i], {Mint})
  <2>1. made[i] = BonkCompiled(BonkFormat(order), keys, ixs, <<>>, tables)
    BY <1>4
  <2>2. CanSign(keys, ixs)
    BY <1>2, GroupSigned
  <2> HIDE DEF keys, ixs
  <2>3. /\ made[i].error \in {"none", "size"}
        /\ made[i].error = "none" => made[i].ixs = ixs
    BY <2>1, <2>2, BonkCompiledIs
  <2> QED BY <2>3 DEF ixs
<1>7. CASE \E i \in DOMAIN made : made[i].error # "none" /\ Refused(made[i].error)
  <2>1. PICK i \in 1..n : made[i].error # "none" /\ Refused(made[i].error)
    BY <1>4, <1>7
  <2>2. made[i].error = "size"
    BY <1>6, <2>1
  <2> QED BY <2>1, <2>2
<1>8. CASE /\ \A i \in DOMAIN made : made[i].error = "none"
           /\ txs' = made /\ progress' \in {"topup", "done"}
           /\ progress' = IF order.devBuy /\ order.short THEN "topup" ELSE "done"
           /\ order' = order /\ topUp' = topUp /\ why' = why
  <2>1. \A i \in 1..n :
          /\ OfLaunch(all[i]) /\ ToSet(all[i]) \subseteq Left
          /\ txs'[i].ixs = Settings(all[i], BundleFees(order, i, n), order.dontfront)
    BY <1>2, <1>4, <1>6, <1>8
  <2>2. all = Append(groups, queue) /\ n = Len(all)
    BY DEF all, n
  <2> QED BY <1>2, <1>4, <1>5, <1>8, <2>1, <2>2
<1> QED BY <1>3, <1>7, <1>8

LEMMA CompileGroupsKeeps ==
    ASSUME SignInv, CompileGroups
    PROVE  SignInv'
<1>1. CASE Refused("size")
  BY <1>1, RefusedKeeps
<1>2. ASSUME ~Refused("size") PROVE SignInv'
  <2>1. PICK all, n :
          /\ n \in Nat /\ n >= 1 /\ Len(txs') = n
          /\ \A i \in 1..n :
               /\ OfLaunch(all[i])
               /\ txs'[i].ixs = Settings(all[i], BundleFees(order, i, n), order.dontfront)
          /\ n = 1 => BonkInitialize(order.quote, order.strings) \in ToSet(all[1])
          /\ progress' \in {"topup", "done"}
          /\ order' = order /\ topUp' = topUp /\ why' = why
    BY <1>2, GroupsCompiled
  <2>2. ASSUME ~(Len(txs') > 1) PROVE Combinable'
    <3>1. n = 1 /\ 1 \in 1..n
      BY <2>1, <2>2
    <3>2. IsList(txs'[1].ixs) /\ Mint \in SignersOf(CoreOf(txs'[1], order.fees))
      BY <2>1, <3>1, MintKept DEF OfLaunch
    <3> QED BY <2>1, <3>2 DEF Combinable
  <2>3. order.kind = "bonk-launch"
    BY DEF SignInv, SplitInv, CompileGroups
  <2> QED BY <2>1, <2>2, <2>3 DEF SignInv
<1> QED BY <1>1, <1>2

LEMMA CompileTopUpKeeps ==
    ASSUME SignInv, CompileTopUp
    PROVE  SignInv'
<1>1. progress = "topup"
  BY DEF CompileTopUp
<1>2. PICK loaded :
        LET tx == TopUpTx(order, loaded) IN
        IF tx.error # "none" THEN Refused(tx.error)
        ELSE /\ topUp' = tx
             /\ IF Len(txs) > 1
                THEN txs' = <<tx>> \o txs /\ why' = "several" /\ progress' = "done"
                ELSE txs' = txs /\ why' = why
                     /\ progress' = IF order.kind = "bonk-launch" THEN "combine" ELSE "action"
             /\ UNCHANGED <<order, todo, queue, groups, tables>>
  BY DEF CompileTopUp
<1> DEFINE tx == TopUpTx(order, loaded)
<1>3. tx.error \in {"none", "size"} /\ (tx.error = "none" => IsList(tx.ixs))
  BY TopUpSigned
<1>4. CASE tx.error # "none"
  BY <1>2, <1>3, <1>4, RefusedKeeps
<1>5. CASE tx.error = "none"
  <2>1. topUp' = tx /\ order' = order
    BY <1>2, <1>5
  <2>2. IsList(topUp'.ixs)
    BY <1>3, <1>5, <2>1
  <2>3. CASE Len(txs) > 1
    <3>1. why' = "several" /\ progress' = "done"
      BY <1>2, <1>5, <2>3
    <3> HIDE DEF tx
    <3> QED BY <2>1, <2>2, <3>1 DEF SignInv
  <2>4. CASE ~(Len(txs) > 1)
    <3>1. /\ txs' = txs /\ why' = why
          /\ progress' = IF order.kind = "bonk-launch" THEN "combine" ELSE "action"
      BY <1>2, <1>5, <2>4
    <3> HIDE DEF tx
    <3>2. IF order.kind = "bonk-launch" THEN Combinable ELSE txs = <<>>
      BY <1>1, <2>4 DEF SignInv
    <3>3. order.kind = "bonk-launch" => Combinable'
      BY <2>1, <3>1, <3>2 DEF Combinable
    <3> QED BY <2>1, <2>2, <3>1, <3>2, <3>3 DEF SignInv
  <2> QED BY <2>3, <2>4
<1> QED BY <1>4, <1>5

\* A combination fails for its size or a table that cannot be read.
LEMMA NotForSigners ==
    ASSUME SignInv, progress = "combine", NEW tx \in CombinedOrError(order, txs[1])
    PROVE  tx.error \in {"none", "size", "rpc"}
<1>1. Combinable /\ IsList(topUp.ixs)
  BY DEF SignInv
<1>2. tx = NoTx("rpc") \/ \E loaded : tx = Combined(order, txs[1], loaded)
  BY DEF CombinedOrError
<1>3. order.kind = "bonk-launch" => Mint \in SignersOf(CoreOf(txs[1], CombinedFees(order)))
  BY <1>1 DEF Combinable, CombinedFees
<1>4. \A loaded : Combined(order, txs[1], loaded).error \in {"none", "size"}
  BY <1>1, <1>3, CombinedIs DEF Combinable
<1>5. NoTx("rpc").error = "rpc"
  BY DEF NoTx
<1> QED BY <1>2, <1>4, <1>5

LEMMA CombineKeeps ==
    ASSUME SignInv, Combine
    PROVE  SignInv'
<1>1. PICK tx \in CombinedOrError(order, txs[1]) : why' = tx.error
  BY DEF Combine
<1>2. progress = "combine" /\ progress' = "done" /\ order' = order /\ topUp' = topUp
  BY DEF Combine
<1>3. why' # "signers"
  BY <1>1, <1>2, NotForSigners
<1> QED BY <1>2, <1>3 DEF SignInv

LEMMA CombineBuyKeeps ==
    ASSUME SignInv, CombineBuy
    PROVE  SignInv'
<1>1. PICK tx \in CombinedOrError(order, txs[1]) :
        IF tx.error # "none" THEN Refused(tx.error)
        ELSE /\ txs' = <<tx>> /\ progress' = "done"
             /\ UNCHANGED <<order, todo, queue, groups, tables, topUp, why>>
  BY DEF CombineBuy
<1>2. tx.error \in {"none", "size", "rpc"}
  BY NotForSigners DEF CombineBuy
<1>3. CASE tx.error # "none"
  BY <1>1, <1>2, <1>3, RefusedKeeps
<1>4. CASE tx.error = "none"
  BY <1>1, <1>4 DEF SignInv
<1> QED BY <1>3, <1>4

LEMMA TradeStartKeeps ==
    ASSUME SignInv, TradeStart
    PROVE  SignInv'
<1>1. /\ progress = "start" /\ order.kind \in {"buy", "same-time-buy", "sell"}
      /\ progress' \in {"topup", "action"}
      /\ order' = order /\ topUp' = topUp /\ txs' = txs /\ why' = why
  BY DEF TradeStart
<1>2. txs = <<>>
  BY <1>1 DEF SignInv
<1> QED BY <1>1, <1>2 DEF SignInv

LEMMA CompileTradeKeeps ==
    ASSUME SignInv, CompileTrade
    PROVE  SignInv'
<1> DEFINE keys == IF order.quote = "sol" THEN {Wrapped} ELSE {}
           ixs == Settings(TradeCore(order), order.fees, order.dontfront)
           next == IF topUp = NoTopUp THEN "done" ELSE "combine"
<1>1. progress = "action" /\ order.kind # "bonk-launch" /\ txs = <<>>
  BY DEF CompileTrade, SignInv
<1>2. PICK loaded : Adds(BonkCompiled(TradeFormat(order), keys, ixs, <<>>, loaded), next)
  BY DEF CompileTrade
<1>3. IsList(ixs) /\ CanSign(keys, ixs)
  BY TradeCoreIs, SettingsSame DEF CanSign
<1>4. next \in {"done", "combine"}
  OBVIOUS
<1> HIDE DEF keys, ixs, next
<1> DEFINE tx == BonkCompiled(TradeFormat(order), keys, ixs, <<>>, loaded)
<1>5. tx.error \in {"none", "size"} /\ (tx.error = "none" => tx.ixs = ixs)
  BY <1>3, BonkCompiledIs
<1>6. Adds(tx, next)
  BY <1>2
<1> HIDE DEF tx
<1>7. CASE tx.error # "none"
  BY <1>5, <1>6, <1>7, RefusedKeeps DEF Adds
<1>8. CASE tx.error = "none"
  <2>1. /\ txs' = Append(txs, tx) /\ progress' = next
        /\ order' = order /\ topUp' = topUp /\ why' = why
    BY <1>6, <1>8 DEF Adds
  <2>2. txs'[1] = tx
    BY <1>1, <2>1
  <2>3. Combinable'
    BY <1>1, <1>3, <1>5, <1>8, <2>1, <2>2 DEF Combinable
  <2> QED BY <1>4, <2>1, <2>3 DEF SignInv
<1> QED BY <1>7, <1>8

LEMMA PumpStartKeeps ==
    ASSUME SignInv, PumpStart
    PROVE  SignInv'
<1>1. \/ Refused("tables")
      \/ /\ progress' = "launch" /\ order.kind = "pump" /\ order' = order
         /\ topUp' = topUp /\ why' = why
  BY DEF PumpStart
<1>2. CASE Refused("tables")
  BY <1>2, RefusedKeeps
<1>3. CASE /\ progress' = "launch" /\ order.kind = "pump" /\ order' = order
           /\ topUp' = topUp /\ why' = why
  BY <1>3 DEF SignInv
<1> QED BY <1>1, <1>2, <1>3

\* A signed transaction of Pump or Bags is added.
LEMMA AddsKeeps ==
    ASSUME SignInv, NEW tx, NEW next, Adds(tx, next), tx.error = "none",
           \/ order.kind = "pump" /\ next \in {"follow-up", "tip", "done"}
           \/ order.kind = "bags" /\ progress = "start" /\ next = "start"
    PROVE  SignInv'
<1>1. /\ progress' = next /\ order' = order /\ topUp' = topUp /\ why' = why
      /\ queue' = queue /\ groups' = groups
  BY DEF Adds
<1> QED BY <1>1 DEF SignInv

LEMMA PumpSigned ==
    ASSUME order \in Requests, order.kind = "pump", NEW core, IsList(core), NEW keys,
           NEW fees, NEW variants, keys \union {Owner} = SignersOf(core)
    PROVE  LET ixs == Settings(core, fees, order.dontfront)
               tx == PumpCompiled(order, keys, ixs, variants)
           IN  tx.error = "none" /\ tx.ixs = ixs
<1> DEFINE ixs == Settings(core, fees, order.dontfront)
<1>1. CanSign(keys, ixs)
  BY SettingsSame DEF CanSign
<1>2. order.format \in {"legacy", "v0", "v0-alt", "auto"}
  BY AssembleAssumption
<1> HIDE DEF ixs
<1>3. /\ PumpCompiled(order, keys, ixs, variants).error = "none"
      /\ PumpCompiled(order, keys, ixs, variants).ixs = ixs
  BY <1>1, <1>2, PumpCompiledIs
<1> QED BY <1>3 DEF ixs

LEMMA PumpCompileLaunchKeeps ==
    ASSUME SignInv, PumpCompileLaunch
    PROVE  SignInv'
<1> DEFINE tx == PumpCompiled(order, {Mint},
                   Settings(PumpLaunchOf(order), LaunchFees(order), order.dontfront),
                   Variants(order, "launch"))
           next == IF order.followUp THEN "follow-up" ELSE AfterSetup(order)
<1>1. order \in Requests /\ order.kind = "pump"
  BY DEF SignInv, PumpCompileLaunch
<1>2. Adds(tx, next)
  BY DEF PumpCompileLaunch
<1>3. tx.error = "none"
  BY <1>1, PumpLaunchIs, PumpSigned
<1>4. next \in {"follow-up", "tip", "done"}
  BY DEF AfterSetup
<1> HIDE DEF tx, next
<1> QED BY <1>1, <1>2, <1>3, <1>4, AddsKeeps

LEMMA PumpCompileSetupKeeps ==
    ASSUME SignInv, PumpCompileSetup
    PROVE  SignInv'
<1> DEFINE tx == PumpCompiled(order, {},
                   Settings(PumpSetup(order), SetupFees(order), order.dontfront),
                   Variants(order, "follow-up"))
<1>1. order \in Requests /\ order.kind = "pump" /\ order.missing \in Nat
  BY AssembleAssumption DEF SignInv, PumpCompileSetup
<1>2. Adds(tx, AfterSetup(order))
  BY DEF PumpCompileSetup
<1>3. tx.error = "none"
  BY <1>1, PumpSetupIs, PumpSigned
<1>4. AfterSetup(order) \in {"follow-up", "tip", "done"}
  BY DEF AfterSetup
<1> HIDE DEF tx
<1> QED BY <1>1, <1>2, <1>3, <1>4, AddsKeeps

LEMMA PumpCompileTipKeeps ==
    ASSUME SignInv, PumpCompileTip
    PROVE  SignInv'
<1> DEFINE ixs == <<Transfer(TipAccount, order.fees.tip)>>
           tx == PumpCompiled(order, {}, ixs, Variants(order, "jito-tip"))
<1>1. order \in Requests /\ order.kind = "pump"
  BY DEF SignInv, PumpCompileTip
<1>2. Adds(tx, "done")
  BY DEF PumpCompileTip
<1>3. CanSign({}, ixs)
  <2>1. SignersOf(ixs) = {Owner}
    BY SettingsAre, Single
  <2> HIDE DEF ixs
  <2> QED BY <2>1 DEF CanSign
<1>4. order.format \in {"legacy", "v0", "v0-alt", "auto"}
  BY <1>1, AssembleAssumption
<1>5. tx.error = "none"
  <2> HIDE DEF ixs
  <2> QED BY <1>3, <1>4, PumpCompiledIs
<1> HIDE DEF tx
<1> QED BY <1>1, <1>2, <1>5, AddsKeeps

LEMMA BagsEnsureKeeps ==
    ASSUME SignInv, BagsEnsure
    PROVE  SignInv'
<1> DEFINE tx == Ensured(order, order.service[Len(txs) + 1])
<1>1. progress = "start" /\ order.kind = "bags" /\ Adds(tx, "start")
  BY DEF BagsEnsure
<1>2. tx.error = "none"
  BY EnsuredIs
<1> HIDE DEF tx
<1> QED BY <1>1, <1>2, AddsKeeps

LEMMA SignStep ==
    ASSUME SignInv, [AssembleNext]_assembleVars
    PROVE  SignInv'
<1>1. CASE BonkStart
  BY <1>1, BonkStartKeeps
<1>2. CASE Split
  BY <1>2, SplitKeeps
<1>3. CASE CompileGroups
  BY <1>3, CompileGroupsKeeps
<1>4. CASE CompileTopUp
  BY <1>4, CompileTopUpKeeps
<1>5. CASE Combine
  BY <1>5, CombineKeeps
<1>6. CASE CombineBuy
  BY <1>6, CombineBuyKeeps
<1>7. CASE TradeStart
  BY <1>7, TradeStartKeeps
<1>8. CASE CompileTrade
  BY <1>8, CompileTradeKeeps
<1>9. CASE PumpStart
  BY <1>9, PumpStartKeeps
<1>10. CASE PumpCompileLaunch
  BY <1>10, PumpCompileLaunchKeeps
<1>11. CASE PumpCompileSetup
  BY <1>11, PumpCompileSetupKeeps
<1>12. CASE PumpCompileTip
  BY <1>12, PumpCompileTipKeeps
<1>13. CASE BagsEnsure
  BY <1>13, BagsEnsureKeeps
<1>14. CASE BagsDone
  BY <1>14 DEF BagsDone, SignInv
<1>15. CASE ReadFails
  BY <1>15, RefusedKeeps DEF ReadFails
<1>16. CASE UNCHANGED assembleVars
  BY <1>16 DEF assembleVars, SignInv, SplitInv, Left, Combinable
<1> QED BY <1>1, <1>2, <1>3, <1>4, <1>5, <1>6, <1>7, <1>8, <1>9, <1>10, <1>11, <1>12, <1>13,
           <1>14, <1>15, <1>16 DEF AssembleNext

(* NeverMissigned: in whatever parts a launch is split and whatever tables *)
(* can be read, every list of instructions is signed with the keys it asks *)
(* for; a top-up that is combined with a launch finds the mint's signature *)
(* among what it keeps, and any other that is missing is made anew.        *)
THEOREM NeverMissignedHolds == AssembleSpec => []NeverMissigned
<1>1. AssembleInit => SignInv
  BY SignInit
<1>2. SignInv /\ [AssembleNext]_assembleVars => SignInv'
  BY SignStep
<1>3. SignInv => NeverMissigned
  BY DEF SignInv, NeverMissigned
<1> QED BY <1>1, <1>2, <1>3, PTL DEF AssembleSpec

-----------------------------------------------------------------------------
(* What a list of instructions sets and pays                               *)

FeeKinds == {"limit", "price", "tip"}

\* An instruction that sets no fee, whatever signs it and is added to its accounts.
IsPlain(x) ==
    /\ IsIx(x) /\ x.op \notin FeeKinds
    /\ x.op = "transfer" =>
         x.uses \in Seq(ToSet(x.uses)) /\ Len(x.uses) >= 2 /\ x.uses[2] # TipAccount

Plain(a) == IsList(a) /\ \A x \in ToSet(a) : IsPlain(x)

Has(a, fee) == \E x \in ToSet(a) : FeeOf(x) = fee

Once(a) ==
    /\ IsList(a)
    /\ \A fee \in FeeKinds : \A j, k \in DOMAIN a :
         FeeOf(a[j]) = fee /\ FeeOf(a[k]) = fee => j = k

\* What may be read back from a transaction that pays some tip.
Sealed(a, tip) ==
    /\ IsList(a) /\ SignersOf(a) \subseteq {Owner, Mint, Wrapped}
    /\ \A x \in ToSet(a) :
         \/ IsPlain(x)
         \/ x.program = Key("budget") /\ x.op # "transfer"
         \/ tip > 0 /\ x = Transfer(TipAccount, tip)

LEMMA PlainHasNone ==
    ASSUME NEW a, Plain(a)
    PROVE  Once(a) /\ \A fee \in FeeKinds : ~Has(a, fee)
<1>1. IsList(a) /\ \A x \in ToSet(a) : FeeOf(x) \notin FeeKinds
  <2>1. ASSUME NEW x \in ToSet(a) PROVE FeeOf(x) \notin FeeKinds
    <3>1. IsPlain(x)
      BY DEF Plain
    <3> QED BY <3>1 DEF IsPlain, FeeOf
  <2> QED BY <2>1 DEF Plain
<1>2. \A j \in DOMAIN a : a[j] \in ToSet(a)
  BY DEF ToSet
<1> QED BY <1>1, <1>2 DEF Once, Has

LEMMA OnceAlone ==
    ASSUME NEW x, IsIx(x)
    PROVE  Once(<<x>>) /\ \A fee : Has(<<x>>, fee) <=> FeeOf(x) = fee
<1>1. IsList(<<x>>) /\ ToSet(<<x>>) = {x}
  BY Single
<1>2. DOMAIN <<x>> = {1}
  OBVIOUS
<1>3. Once(<<x>>)
  BY <1>1, <1>2 DEF Once
<1> QED BY <1>1, <1>3 DEF Has

LEMMA OnceIf ==
    ASSUME NEW x, IsIx(x), NEW condition
    PROVE  /\ Once(If(condition, x))
           /\ \A fee : Has(If(condition, x), fee) <=> condition /\ FeeOf(x) = fee
<1>1. CASE condition
  BY <1>1, OnceAlone DEF If
<1>2. CASE ~condition
  <2>1. Once(<<>>)
    BY Nobody DEF Once
  <2>2. \A fee : ~Has(<<>>, fee)
    BY Nobody DEF Has
  <2> QED BY <1>2, <2>1, <2>2 DEF If
<1> QED BY <1>1, <1>2

\* Two lists joined set a fee once that only one of them sets.
LEMMA OnceJoined ==
    ASSUME NEW a, NEW b, Once(a), Once(b), \A fee \in FeeKinds : ~(Has(a, fee) /\ Has(b, fee))
    PROVE  Once(a \o b) /\ \A fee : Has(a \o b, fee) <=> Has(a, fee) \/ Has(b, fee)
<1>1. IsList(a) /\ IsList(b)
  BY DEF Once
<1>2. IsList(a \o b) /\ ToSet(a \o b) = ToSet(a) \union ToSet(b)
  BY <1>1, Concatenated
<1>3. /\ Len(a) \in Nat /\ DOMAIN a = 1..Len(a) /\ Len(b) \in Nat /\ DOMAIN b = 1..Len(b)
      /\ \A i \in 1..Len(a) : a[i] \in ToSet(a)
      /\ \A i \in 1..Len(b) : b[i] \in ToSet(b)
  BY <1>1, ListIs
<1>4. /\ DOMAIN (a \o b) = 1..(Len(a) + Len(b))
      /\ \A i \in 1..Len(a) : (a \o b)[i] = a[i]
      /\ \A i \in (Len(a) + 1)..(Len(a) + Len(b)) : (a \o b)[i] = b[i - Len(a)]
  <2> DEFINE S == ToSet(a) \union ToSet(b)
  <2>1. a \in Seq(S) /\ b \in Seq(S)
    BY <1>1 DEF IsList
  <2> HIDE DEF S
  <2> QED BY <2>1
<1> DEFINE c == a \o b
           n == Len(a)
           m == Len(b)
<1> HIDE DEF c, n, m
<1>5. ASSUME NEW fee \in FeeKinds, NEW j \in 1..(n + m), NEW k \in 1..(n + m),
             FeeOf(c[j]) = fee, FeeOf(c[k]) = fee
      PROVE  j = k
  <2>1. \A i \in 1..n : c[i] = a[i] /\ (FeeOf(c[i]) = fee => Has(a, fee))
    BY <1>3, <1>4 DEF c, n, m, Has
  <2>2. \A i \in (n + 1)..(n + m) :
            i - n \in 1..m /\ c[i] = b[i - n] /\ (FeeOf(c[i]) = fee => Has(b, fee))
    <3>1. \A i \in (n + 1)..(n + m) : i - n \in 1..m
      BY <1>3 DEF n, m
    <3> QED BY <1>3, <1>4, <3>1 DEF c, n, m, Has
  <2>3. \A i \in 1..(n + m) : i \in 1..n \/ i \in (n + 1)..(n + m)
    BY <1>3 DEF n, m
  <2>4. CASE j \in 1..n /\ k \in 1..n
    <3>1. FeeOf(a[j]) = fee /\ FeeOf(a[k]) = fee /\ j \in DOMAIN a /\ k \in DOMAIN a
      BY <1>3, <1>5, <2>1, <2>4 DEF n
    <3> QED BY <3>1 DEF Once
  <2>5. CASE j \in (n + 1)..(n + m) /\ k \in (n + 1)..(n + m)
    <3>1. FeeOf(b[j - n]) = fee /\ FeeOf(b[k - n]) = fee /\ j - n \in DOMAIN b /\ k - n \in DOMAIN b
      BY <1>3, <1>5, <2>2, <2>5 DEF m
    <3>2. j - n = k - n
      BY <3>1 DEF Once
    <3> QED BY <1>3, <3>2 DEF n, m
  <2>6. ~(j \in 1..n /\ k \in (n + 1)..(n + m)) /\ ~(k \in 1..n /\ j \in (n + 1)..(n + m))
    BY <1>5, <2>1, <2>2
  <2> QED BY <2>3, <2>4, <2>5, <2>6
<1>6. Once(c)
  BY <1>2, <1>4, <1>5 DEF Once, c, n, m
<1>7. \A fee : Has(c, fee) <=> Has(a, fee) \/ Has(b, fee)
  BY <1>2 DEF Has, c
<1> QED BY <1>6, <1>7 DEF c

-----------------------------------------------------------------------------
(* Fees around plain instructions                                          *)

LEMMA FeesAre ==
    ASSUME NEW k
    PROVE  /\ IsIx(LimitOf(k)) /\ FeeOf(LimitOf(k)) = "limit"
           /\ LimitOf(k).program = Key("budget") /\ LimitOf(k).op # "transfer"
           /\ IsIx(PriceOf(k)) /\ FeeOf(PriceOf(k)) = "price"
           /\ PriceOf(k).program = Key("budget") /\ PriceOf(k).op # "transfer"
           /\ IsIx(Transfer(TipAccount, k)) /\ FeeOf(Transfer(TipAccount, k)) = "tip"
<1>1. /\ LimitOf(k).op = "limit" /\ LimitOf(k).program = Key("budget")
      /\ PriceOf(k).op = "price" /\ PriceOf(k).program = Key("budget")
  BY DEF LimitOf, PriceOf, Budget, Instr
<1>2. Transfer(TipAccount, k).op = "transfer" /\ Transfer(TipAccount, k).uses[2] = TipAccount
  BY DEF Transfer, Instr
<1> QED BY <1>1, <1>2, SettingsAre DEF FeeOf

LEMMA MarkedPlain ==
    ASSUME NEW x, IsPlain(x), NEW on
    PROVE  IsPlain(IF on THEN DontfrontOn(x) ELSE x)
<1> DEFINE y == IF on THEN DontfrontOn(x) ELSE x
<1>1. IsIx(x)
  BY DEF IsPlain
<1>2. y = x \/ y = [x EXCEPT !.uses = Append(x.uses, Dontfront)]
  BY DEF DontfrontOn
<1> HIDE DEF y
<1>3. CASE y = x
  BY <1>3 DEF y
<1>4. CASE y = [x EXCEPT !.uses = Append(x.uses, Dontfront)]
  <2>1. IsIx(y) /\ y.op = x.op /\ y.uses = Append(x.uses, Dontfront)
    BY <1>1, <1>4 DEF IsIx, Fields
  <2>2. ASSUME x.op = "transfer"
        PROVE  y.uses \in Seq(ToSet(y.uses)) /\ Len(y.uses) >= 2 /\ y.uses[2] # TipAccount
    <3>1. x.uses \in Seq(ToSet(x.uses)) /\ Len(x.uses) >= 2 /\ x.uses[2] # TipAccount
      BY <2>2 DEF IsPlain
    <3> DEFINE u == x.uses
               S == ToSet(u) \union {Dontfront}
    <3>2. u \in Seq(S) /\ Dontfront \in S
      BY <3>1
    <3> HIDE DEF u, S
    <3>3. /\ Append(u, Dontfront) \in Seq(S) /\ Len(Append(u, Dontfront)) = Len(u) + 1
          /\ Len(u) \in Nat /\ \A i \in 1..Len(u) : Append(u, Dontfront)[i] = u[i]
      BY <3>2
    <3>4. ToSet(Append(u, Dontfront)) = S
      BY <3>2, AppendedSet DEF S
    <3>5. Append(u, Dontfront)[2] = u[2] /\ Len(Append(u, Dontfront)) >= 2
      BY <3>1, <3>3 DEF u
    <3> QED BY <2>1, <3>1, <3>3, <3>4, <3>5 DEF u
  <2> QED BY <2>1, <2>2 DEF IsPlain, y
<1> QED BY <1>2, <1>3, <1>4

LEMMA ProtectedPlain ==
    ASSUME NEW core, Plain(core), NEW on
    PROVE  Plain(Protected(core, on))
<1>1. IsList(core)
  BY DEF Plain
<1>2. /\ IsList(Protected(core, on)) /\ DOMAIN Protected(core, on) = DOMAIN core
      /\ \A i \in DOMAIN core :
            Protected(core, on)[i] = IF on THEN DontfrontOn(core[i]) ELSE core[i]
  BY <1>1, ProtectedSame
<1>3. \A i \in DOMAIN core : IsPlain(core[i])
  BY DEF Plain, ToSet
<1>4. \A i \in DOMAIN core : IsPlain(Protected(core, on)[i])
  BY <1>2, <1>3, MarkedPlain
<1> QED BY <1>2, <1>4 DEF Plain, ToSet

LEMMA PlainJoined ==
    ASSUME NEW a, NEW b, Plain(a), Plain(b)
    PROVE  Plain(a \o b)
BY Concatenated DEF Plain

\* What can be read back of some lists joined.
LEMMA SealedJoined ==
    ASSUME NEW a, NEW b, NEW tip, Sealed(a, tip), Sealed(b, tip)
    PROVE  Sealed(a \o b, tip)
BY Concatenated DEF Sealed

LEMMA SealedPlain ==
    ASSUME NEW a, NEW tip, Plain(a), SignersOf(a) \subseteq {Owner, Mint, Wrapped}
    PROVE  Sealed(a, tip)
BY DEF Sealed, Plain

\* A limit, a price, a tip that may be there.
LEMMA SealedFees ==
    ASSUME NEW k, NEW condition, NEW tip, NEW paid, paid \in {0, tip}, tip \in Nat
    PROVE  /\ Sealed(<<LimitOf(k)>>, tip)
           /\ Sealed(If(condition, LimitOf(k)), tip) /\ Sealed(If(condition, PriceOf(k)), tip)
           /\ Sealed(If(paid > 0, Transfer(TipAccount, paid)), tip)
<1>1. /\ IsIx(LimitOf(k)) /\ LimitOf(k).program = Key("budget") /\ LimitOf(k).op # "transfer"
      /\ IsIx(PriceOf(k)) /\ PriceOf(k).program = Key("budget") /\ PriceOf(k).op # "transfer"
      /\ \A t : IsIx(Transfer(TipAccount, t))
  BY FeesAre
<1>2. /\ LimitOf(k).signs = {} /\ PriceOf(k).signs = {}
      /\ \A t : Transfer(TipAccount, t).signs = {Owner}
  BY SettingsAre
<1>3. Sealed(<<LimitOf(k)>>, tip) /\ Sealed(<<PriceOf(k)>>, tip)
  BY <1>1, <1>2, Single DEF Sealed
<1>4. Sealed(<<>>, tip)
  BY Nobody DEF Sealed
<1>5. tip > 0 => Sealed(<<Transfer(TipAccount, tip)>>, tip)
  <2> DEFINE x == Transfer(TipAccount, tip)
  <2>1. IsIx(x) /\ x.signs = {Owner}
    BY <1>1, <1>2
  <2> SUFFICES ASSUME tip > 0 PROVE Sealed(<<x>>, tip)
    OBVIOUS
  <2>2. \A y \in {x} : tip > 0 /\ y = Transfer(TipAccount, tip)
    OBVIOUS
  <2> HIDE DEF x
  <2> QED BY <2>1, <2>2, Single DEF Sealed
<1> QED BY <1>3, <1>4, <1>5 DEF If

LEMMA SettingsOnce ==
    ASSUME NEW core, Plain(core), NEW fees, NEW on
    PROVE  /\ Once(Settings(core, fees, on))
           /\ Has(Settings(core, fees, on), "tip") <=> fees.tip > 0
<1> DEFINE a == <<LimitOf(fees.limit)>>
           b == If(fees.price > 0, PriceOf(fees.price))
           c == Protected(core, on)
           d == If(fees.tip > 0, Transfer(TipAccount, fees.tip))
<1>1. Once(a) /\ \A fee : Has(a, fee) <=> fee = "limit"
  BY FeesAre, OnceAlone
<1>2. Once(b) /\ \A fee : Has(b, fee) <=> fees.price > 0 /\ fee = "price"
  BY FeesAre, OnceIf
<1>3. Once(c) /\ \A fee \in FeeKinds : ~Has(c, fee)
  BY ProtectedPlain, PlainHasNone
<1>4. Once(d) /\ \A fee : Has(d, fee) <=> fees.tip > 0 /\ fee = "tip"
  BY FeesAre, OnceIf
<1>5. Settings(core, fees, on) = a \o b \o c \o d
  BY DEF Settings
<1> HIDE DEF a, b, c, d
<1>6. Once(a \o b) /\ \A fee : Has(a \o b, fee) <=> Has(a, fee) \/ Has(b, fee)
  BY <1>1, <1>2, OnceJoined
<1>7. Once(a \o b \o c) /\ \A fee : Has(a \o b \o c, fee) <=> Has(a \o b, fee) \/ Has(c, fee)
  BY <1>3, <1>6, OnceJoined
<1>8. /\ Once(a \o b \o c \o d)
      /\ \A fee : Has(a \o b \o c \o d, fee) <=> Has(a \o b \o c, fee) \/ Has(d, fee)
  <2>1. \A fee \in FeeKinds : ~(Has(a \o b \o c, fee) /\ Has(d, fee))
    BY <1>1, <1>2, <1>3, <1>4, <1>6, <1>7
  <2> QED BY <1>4, <1>7, <2>1, OnceJoined
<1>9. "tip" \in FeeKinds
  BY DEF FeeKinds
<1> QED BY <1>1, <1>2, <1>3, <1>4, <1>5, <1>6, <1>7, <1>8, <1>9

LEMMA SettingsSealed ==
    ASSUME NEW core, Plain(core), SignersOf(core) \subseteq {Owner, Mint, Wrapped},
           NEW fees, NEW on, NEW tip \in Nat, fees.tip \in {0, tip}
    PROVE  Sealed(Settings(core, fees, on), tip)
<1> DEFINE a == <<LimitOf(fees.limit)>>
           b == If(fees.price > 0, PriceOf(fees.price))
           c == Protected(core, on)
           d == If(fees.tip > 0, Transfer(TipAccount, fees.tip))
<1>1. Sealed(a, tip) /\ Sealed(b, tip) /\ Sealed(d, tip)
  BY SealedFees
<1>2. Sealed(c, tip)
  <2>1. SignersOf(c) = SignersOf(core)
    BY ProtectedSame DEF Plain
  <2>2. Plain(c)
    BY ProtectedPlain
  <2> QED BY <2>1, <2>2, SealedPlain
<1>3. Settings(core, fees, on) = a \o b \o c \o d
  BY DEF Settings
<1> HIDE DEF a, b, c, d
<1>4. Sealed(a \o b, tip)
  BY <1>1, SealedJoined
<1>5. Sealed(a \o b \o c, tip)
  BY <1>2, <1>4, SealedJoined
<1>6. Sealed(a \o b \o c \o d, tip)
  BY <1>1, <1>5, SealedJoined
<1> QED BY <1>3, <1>6

LEMMA AtomicOnce ==
    ASSUME NEW core, Plain(core), NEW fees, NEW on
    PROVE  /\ Once(AtomicSettings(core, fees, on))
           /\ Has(AtomicSettings(core, fees, on), "tip") <=> fees.tip > 0
<1> DEFINE a == If(fees.price > 0, PriceOf(fees.price))
           b == If(fees.limit > 0, LimitOf(fees.limit))
           c == Protected(core, on)
           d == If(fees.tip > 0, Transfer(TipAccount, fees.tip))
<1>1. Once(a) /\ \A fee : Has(a, fee) <=> fees.price > 0 /\ fee = "price"
  BY FeesAre, OnceIf
<1>2. Once(b) /\ \A fee : Has(b, fee) <=> fees.limit > 0 /\ fee = "limit"
  BY FeesAre, OnceIf
<1>3. Once(c) /\ \A fee \in FeeKinds : ~Has(c, fee)
  BY ProtectedPlain, PlainHasNone
<1>4. Once(d) /\ \A fee : Has(d, fee) <=> fees.tip > 0 /\ fee = "tip"
  BY FeesAre, OnceIf
<1>5. AtomicSettings(core, fees, on) = a \o b \o c \o d
  BY DEF AtomicSettings
<1> HIDE DEF a, b, c, d
<1>6. Once(a \o b) /\ \A fee : Has(a \o b, fee) <=> Has(a, fee) \/ Has(b, fee)
  BY <1>1, <1>2, OnceJoined
<1>7. Once(a \o b \o c) /\ \A fee : Has(a \o b \o c, fee) <=> Has(a \o b, fee) \/ Has(c, fee)
  BY <1>3, <1>6, OnceJoined
<1>8. /\ Once(a \o b \o c \o d)
      /\ \A fee : Has(a \o b \o c \o d, fee) <=> Has(a \o b \o c, fee) \/ Has(d, fee)
  <2>1. \A fee \in FeeKinds : ~(Has(a \o b \o c, fee) /\ Has(d, fee))
    BY <1>1, <1>2, <1>3, <1>4, <1>6, <1>7
  <2> QED BY <1>4, <1>7, <2>1, OnceJoined
<1>9. "tip" \in FeeKinds
  BY DEF FeeKinds
<1> QED BY <1>1, <1>2, <1>3, <1>4, <1>5, <1>6, <1>7, <1>8, <1>9

\* What is kept of what is read back sets no fee.
LEMMA KeptPlain ==
    ASSUME NEW tx, NEW fees, NEW tip, Sealed(tx.ixs, tip), fees.tip = tip
    PROVE  /\ Plain(CoreOf(tx, fees))
           /\ SignersOf(CoreOf(tx, fees)) \subseteq {Owner, Mint, Wrapped}
<1> DEFINE d == Decompiled(tx)
<1>1. IsList(tx.ixs) /\ Owner \in SignersOf(tx.ixs)
  BY DEF Sealed, SignersOf
<1>2. /\ IsList(d) /\ DOMAIN d = DOMAIN tx.ixs
      /\ \A i \in DOMAIN tx.ixs :
            /\ d[i].signs = ToSet(tx.ixs[i].uses) \intersect SignersOf(tx.ixs)
            /\ d[i].program = tx.ixs[i].program /\ d[i].uses = tx.ixs[i].uses
      /\ SignersOf(d) \subseteq SignersOf(tx.ixs)
  BY <1>1, DecompiledIs
<1>3. \A i \in DOMAIN tx.ixs : IsIx(d[i]) /\ IsIx(tx.ixs[i]) /\ tx.ixs[i] \in ToSet(tx.ixs)
  BY <1>1, <1>2, ListIs
<1>4. \A i \in DOMAIN tx.ixs : d[i] = [tx.ixs[i] EXCEPT !.signs = d[i].signs]
  BY <1>2 DEF Decompiled
<1> HIDE DEF d
<1>5. \A i \in DOMAIN tx.ixs : d[i].op = tx.ixs[i].op /\ d[i].n = tx.ixs[i].n
  BY <1>3, <1>4 DEF IsIx, Fields
<1>6. ASSUME NEW i \in DOMAIN tx.ixs, IsKept(d[i], fees) PROVE IsPlain(d[i])
  <2> DEFINE x == tx.ixs[i]
  <2>1. \/ IsPlain(x)
        \/ x.program = Key("budget")
        \/ tip > 0 /\ x = Transfer(TipAccount, tip)
    BY <1>3 DEF Sealed
  <2>2. d[i].program = x.program /\ d[i].uses = x.uses /\ d[i].op = x.op /\ d[i].n = x.n
        /\ d[i].signs = ToSet(x.uses) \intersect SignersOf(tx.ixs) /\ IsIx(d[i])
    BY <1>2, <1>3, <1>5
  <2> HIDE DEF x
  <2>3. CASE IsPlain(x)
    BY <2>2, <2>3 DEF IsPlain
  <2>4. x.program # Key("budget")
    BY <1>6, <2>2 DEF IsKept, IsBudget
  <2>5. CASE tip > 0 /\ x = Transfer(TipAccount, tip)
    <3>1. x.op = "transfer" /\ x.program = Key("system") /\ x.uses = <<Owner, TipAccount>> /\ x.n = tip
      BY <2>5 DEF Transfer, Instr
    <3>2. Owner \in ToSet(x.uses)
      BY <3>1 DEF ToSet
    <3>3. IsTip(d[i], fees)
      BY <1>1, <2>2, <2>5, <3>1, <3>2 DEF IsTip
    <3> QED BY <1>6, <3>3 DEF IsKept
  <2> QED BY <2>1, <2>3, <2>4, <2>5
<1>7. /\ IsList(CoreOf(tx, fees))
      /\ ToSet(CoreOf(tx, fees)) = {d[i] : i \in {k \in DOMAIN tx.ixs : IsKept(d[k], fees)}}
  BY <1>1, CoreIs DEF d
<1>8. Plain(CoreOf(tx, fees))
  BY <1>6, <1>7 DEF Plain
<1>9. \A x \in ToSet(CoreOf(tx, fees)) : x.signs \subseteq SignersOf(tx.ixs)
  BY <1>2, <1>7
<1>10. SignersOf(CoreOf(tx, fees)) \subseteq SignersOf(tx.ixs)
  BY <1>1, <1>9, SignersBySet
<1> QED BY <1>8, <1>10 DEF Sealed

LEMMA AtomicSealed ==
    ASSUME NEW core, Plain(core), SignersOf(core) \subseteq {Owner, Mint, Wrapped},
           NEW fees, NEW on, fees.tip \in Nat
    PROVE  Sealed(AtomicSettings(core, fees, on), fees.tip)
<1> DEFINE a == If(fees.price > 0, PriceOf(fees.price))
           b == If(fees.limit > 0, LimitOf(fees.limit))
           c == Protected(core, on)
           d == If(fees.tip > 0, Transfer(TipAccount, fees.tip))
<1>1. Sealed(a, fees.tip) /\ Sealed(b, fees.tip) /\ Sealed(d, fees.tip)
  BY SealedFees
<1>2. Sealed(c, fees.tip)
  <2>1. SignersOf(c) = SignersOf(core)
    BY ProtectedSame DEF Plain
  <2>2. Plain(c)
    BY ProtectedPlain
  <2> QED BY <2>1, <2>2, SealedPlain
<1>3. AtomicSettings(core, fees, on) = a \o b \o c \o d
  BY DEF AtomicSettings
<1> HIDE DEF a, b, c, d
<1>4. Sealed(a \o b, fees.tip)
  BY <1>1, SealedJoined
<1>5. Sealed(a \o b \o c, fees.tip)
  BY <1>2, <1>4, SealedJoined
<1>6. Sealed(a \o b \o c \o d, fees.tip)
  BY <1>1, <1>5, SealedJoined
<1> QED BY <1>3, <1>6

\* A key made anew is no tip account: what a list pays is paid after renaming.
LEMMA RewrittenOnce ==
    ASSUME NEW ixs, NEW tip, Sealed(ixs, tip), Once(ixs),
           NEW missing, missing \subseteq {Mint, Wrapped}
    PROVE  /\ Once(Rewritten(ixs, missing))
           /\ Has(Rewritten(ixs, missing), "tip") <=> Has(ixs, "tip")
<1> DEFINE New(a) == IF a \in missing THEN Anew(a) ELSE a
           r == Rewritten(ixs, missing)
           n == Len(ixs)
<1>1. n \in Nat /\ DOMAIN ixs = 1..n /\ \A i \in 1..n : IsIx(ixs[i]) /\ ixs[i] \in ToSet(ixs)
  BY ListIs DEF Sealed
<1>2. \A i \in 1..n : ixs[i].op = "transfer" => 2 \in DOMAIN ixs[i].uses
  <2> TAKE i \in 1..n
  <2> SUFFICES ASSUME ixs[i].op = "transfer" PROVE 2 \in DOMAIN ixs[i].uses
    OBVIOUS
  <2>1. IsPlain(ixs[i]) \/ ixs[i] = Transfer(TipAccount, tip)
    BY <1>1 DEF Sealed
  <2>2. CASE IsPlain(ixs[i])
    <3>1. ixs[i].uses \in Seq(ToSet(ixs[i].uses)) /\ Len(ixs[i].uses) >= 2
      BY <2>2 DEF IsPlain
    <3> QED BY <3>1
  <2>3. CASE ixs[i] = Transfer(TipAccount, tip)
    <3>1. ixs[i].uses = <<Owner, TipAccount>>
      BY <2>3 DEF Transfer, Instr
    <3> QED BY <3>1
  <2> QED BY <2>1, <2>2, <2>3
<1> HIDE DEF n
<1>3. DOMAIN r = 1..n /\ r = [i \in 1..n |-> r[i]]
  BY <1>1 DEF Rewritten
<1>4. \A i \in 1..n :
        r[i] = [ixs[i] EXCEPT !.uses = [k \in DOMAIN ixs[i].uses |-> New(ixs[i].uses[k])],
                              !.signs = {New(a) : a \in ixs[i].signs}]
  BY <1>1 DEF Rewritten
<1> HIDE DEF r
<1>5. \A a : New(a) = TipAccount <=> a = TipAccount
  BY DEF Anew, TipAccount, Mint, Wrapped, Key
<1> HIDE DEF New
<1>6. ASSUME NEW i \in 1..n PROVE IsIx(r[i]) /\ FeeOf(r[i]) = FeeOf(ixs[i])
  <2>1. PICK u, q : /\ r[i] = [ixs[i] EXCEPT !.uses = u, !.signs = q]
                    /\ u = [k \in DOMAIN ixs[i].uses |-> New(ixs[i].uses[k])]
    BY <1>4
  <2>2. IsIx(r[i]) /\ r[i].op = ixs[i].op /\ r[i].uses = u
    BY <1>1, <2>1 DEF IsIx, Fields
  <2>3. ixs[i].op = "transfer" => u[2] = New(ixs[i].uses[2])
    BY <1>2, <2>1
  <2> QED BY <1>5, <2>2, <2>3 DEF FeeOf
<1>7. IsList(r)
  BY <1>1, <1>3, <1>6, Tabled
<1>8. Once(r)
  BY <1>1, <1>3, <1>6, <1>7 DEF Once
<1>9. Has(r, "tip") <=> Has(ixs, "tip")
  <2>1. Has(r, "tip") <=> \E i \in 1..n : FeeOf(r[i]) = "tip"
    BY <1>3 DEF Has, ToSet
  <2>2. Has(ixs, "tip") <=> \E i \in 1..n : FeeOf(ixs[i]) = "tip"
    BY <1>1 DEF Has, ToSet
  <2> QED BY <1>6, <2>1, <2>2
<1> QED BY <1>8, <1>9 DEF r

-----------------------------------------------------------------------------
(* The lists of the launchpads are plain                                   *)

LEMMA PlainInstr ==
    ASSUME NEW op, op \notin FeeKinds, op # "transfer",
           NEW program, NEW signs, NEW uses, NEW data
    PROVE  IsPlain(Instr(op, program, signs, uses, data))
BY DEF IsPlain, Instr, IsIx, Fields

LEMMA PlainOnes ==
    /\ \A account, mint, token : IsPlain(CreateAta(account, mint, token))
    /\ \A quote, from, to, strings : /\ IsPlain(BonkSwap("buy", quote, from, to))
                                    /\ IsPlain(BonkSwap("sell", quote, from, to))
                                    /\ IsPlain(BonkInitialize(quote, strings))
    /\ \A k : /\ IsPlain(ClmmSwap(k)) /\ IsPlain(PumpCreate(k)) /\ IsPlain(SocialFee(k))
              /\ IsPlain(UpdateShares(k))
    /\ IsPlain(CloseWrapped) /\ IsPlain(PumpExtend) /\ IsPlain(BuyOnCurve)
    /\ IsPlain(AgentInitialize) /\ IsPlain(ShareConfig)
BY PlainInstr
   DEF FeeKinds, CreateAta, BonkSwap, BonkInitialize, ClmmSwap, CloseWrapped, PumpCreate,
       PumpExtend, BuyOnCurve, AgentInitialize, SocialFee, ShareConfig, UpdateShares

LEMMA PlainAlone ==
    ASSUME NEW x, IsPlain(x), NEW condition
    PROVE  Plain(<<x>>) /\ Plain(If(condition, x))
<1>1. IsIx(x)
  BY DEF IsPlain
<1>2. Plain(<<x>>)
  BY <1>1, Single DEF Plain
<1>3. Plain(<<>>)
  BY Nobody DEF Plain
<1> QED BY <1>2, <1>3 DEF If

LEMMA PlainThree ==
    ASSUME NEW x, NEW y, NEW z, IsPlain(x), IsPlain(y), IsPlain(z)
    PROVE  Plain(<<x, y>>) /\ Plain(<<x, y, z>>)
<1>1. IsIx(x) /\ IsIx(y) /\ IsIx(z)
  BY DEF IsPlain
<1>2. IsList(<<x, y>>) /\ \A v \in ToSet(<<x, y>>) : IsPlain(v)
  BY <1>1, Pair
<1>3. IsList(<<x, y, z>>) /\ \A v \in ToSet(<<x, y, z>>) : IsPlain(v)
  BY <1>1, Triple
<1> QED BY <1>2, <1>3 DEF Plain

LEMMA PlainOpen == Plain(OpenWrapped)
<1> DEFINE x == Instr("create-account", "system", {Owner, Wrapped}, <<Owner, Wrapped>>, 52)
           y == Instr("initialize-account", "token", {}, <<Wrapped, Key("sol")>>, 33)
           z == Instr("sync", "token", {}, <<Wrapped>>, 1)
<1>1. IsPlain(x) /\ IsPlain(y) /\ IsPlain(z)
  BY PlainInstr DEF FeeKinds
<1>2. OpenWrapped = <<x, y, z>>
  BY DEF OpenWrapped
<1> HIDE DEF x, y, z
<1> QED BY <1>1, <1>2, PlainThree

LEMMA PlainTopUp ==
    ASSUME NEW r
    PROVE  Plain(TopUpCore(r))
<1> DEFINE a == If(r.createAta \/ r.kind = "same-time-buy", MyUsd1)
           c == <<ClmmSwap(r.arrays), CloseWrapped>>
<1>1. Plain(a)
  BY PlainOnes, PlainAlone DEF MyUsd1
<1>2. Plain(c)
  BY PlainOnes, PlainThree
<1>3. TopUpCore(r) = a \o OpenWrapped \o c
  BY DEF TopUpCore
<1> HIDE DEF a, c
<1>4. Plain(a \o OpenWrapped)
  BY <1>1, PlainOpen, PlainJoined
<1>5. Plain(a \o OpenWrapped \o c)
  BY <1>2, <1>4, PlainJoined
<1> QED BY <1>3, <1>5

LEMMA PlainLaunch ==
    ASSUME NEW r
    PROVE  Plain(BonkLaunch(r))
<1> DEFINE a == <<MyTokens>>
           b == IF r.quote = "sol" THEN WrapInOwn ELSE If(r.createAta, MyUsd1)
           c == <<BonkSwap("buy", r.quote, Key("my-tokens"), OwnQuote(r))>>
           d == IF r.devBuy THEN DevBuy(r) ELSE <<>>
           e == <<BonkInitialize(r.quote, r.strings)>>
<1>1. Plain(a) /\ Plain(c) /\ Plain(e)
  BY PlainOnes, PlainAlone DEF MyTokens
<1>2. Plain(b)
  <2>1. Plain(If(r.createAta, MyUsd1))
    BY PlainOnes, PlainAlone DEF MyUsd1
  <2>2. Plain(WrapInOwn)
    <3> DEFINE x == CreateAta(Key("my-sol"), Key("sol"), "token")
               y == Transfer(Key("my-sol"), 9)
               z == Instr("sync", "token", {}, <<Key("my-sol")>>, 1)
    <3>1. IsPlain(x)
      BY PlainOnes
    <3>2. IsPlain(y)
      <4>1. IsIx(y)
        BY SettingsAre
      <4>2. y.op = "transfer" /\ y.uses = <<Owner, Key("my-sol")>>
        BY DEF Transfer, Instr
      <4> HIDE DEF y
      <4>3. DOMAIN y.uses = {1, 2} /\ y.uses[1] = Owner /\ y.uses[2] = Key("my-sol")
        BY <4>2
      <4>4. ToSet(y.uses) = {Owner, Key("my-sol")}
        BY <4>3 DEF ToSet
      <4>5. y.uses \in Seq({Owner, Key("my-sol")}) /\ Len(y.uses) = 2
        BY <4>2
      <4>6. Key("my-sol") # TipAccount
        BY DEF Key, TipAccount
      <4> QED BY <4>1, <4>2, <4>3, <4>4, <4>5, <4>6 DEF IsPlain, FeeKinds
    <3>3. IsPlain(z)
      BY PlainInstr DEF FeeKinds
    <3>4. WrapInOwn = <<x, y, z>>
      BY DEF WrapInOwn
    <3> HIDE DEF x, y, z
    <3> QED BY <3>1, <3>2, <3>3, <3>4, PlainThree
  <2> QED BY <2>1, <2>2
<1>3. DevBuy(r) = a \o b \o c
  BY DEF DevBuy
<1>4. Plain(d)
  <2> HIDE DEF a, b, c
  <2>1. Plain(a \o b)
    BY <1>1, <1>2, PlainJoined
  <2>2. Plain(a \o b \o c)
    BY <1>1, <2>1, PlainJoined
  <2>3. Plain(<<>>)
    BY Nobody DEF Plain
  <2> QED BY <1>3, <2>2, <2>3
<1>5. BonkLaunch(r) = e \o d
  BY DEF BonkLaunch
<1> HIDE DEF d, e
<1> QED BY <1>1, <1>4, <1>5, PlainJoined

LEMMA PlainTrade ==
    ASSUME NEW r
    PROVE  Plain(TradeCore(r))
<1> DEFINE a == <<MyTokens>>
           b == <<BonkSwap("buy", "sol", Key("my-tokens"), Wrapped), CloseWrapped>>
           c == <<BonkSwap("sell", "sol", Key("my-tokens"), Wrapped), CloseWrapped>>
           u == If(r.createAta, MyUsd1)
           d == <<BonkSwap("buy", "usd1", Key("my-tokens"), Key("my-usd1"))>>
           e == <<MyUsd1, BonkSwap("sell", "usd1", Key("my-tokens"), Key("my-usd1"))>>
<1>1. Plain(a) /\ Plain(u) /\ Plain(d)
  BY PlainOnes, PlainAlone DEF MyTokens, MyUsd1
<1>2. Plain(b) /\ Plain(c) /\ Plain(e)
  BY PlainOnes, PlainThree DEF MyUsd1
<1>3. TradeCore(r) \in {a \o OpenWrapped \o b, OpenWrapped \o c, a \o u \o d, e}
  BY DEF TradeCore, BuyCore, SellCore
<1> HIDE DEF a, b, c, u, d, e
<1>4. Plain(a \o OpenWrapped) /\ Plain(OpenWrapped \o c) /\ Plain(a \o u)
  BY <1>1, <1>2, PlainOpen, PlainJoined
<1>5. Plain(a \o OpenWrapped \o b) /\ Plain(a \o u \o d)
  BY <1>1, <1>2, <1>4, PlainJoined
<1> QED BY <1>2, <1>3, <1>4, <1>5

LEMMA PlainPumpLaunch ==
    ASSUME NEW r
    PROVE  Plain(PumpLaunchOf(r))
<1> DEFINE a == If(r.creatorMissing, SocialFee(Key("creator-fee")))
           b == <<PumpCreate(r.strings)>>
           c == IF r.devBuy
                THEN <<PumpExtend, CreateAta(Key("my-tokens"), Mint, "token-2022"), BuyOnCurve>>
                ELSE <<>>
           d == If(IsAgent(r), AgentInitialize)
<1>1. Plain(a) /\ Plain(b) /\ Plain(d)
  BY PlainOnes, PlainAlone
<1>2. Plain(c)
  <2>1. Plain(<<>>)
    BY Nobody DEF Plain
  <2> QED BY <2>1, PlainOnes, PlainThree
<1>3. PumpLaunchOf(r) = a \o b \o c \o d
  BY DEF PumpLaunchOf
<1> HIDE DEF a, b, c, d
<1>4. Plain(a \o b)
  BY <1>1, PlainJoined
<1>5. Plain(a \o b \o c)
  BY <1>2, <1>4, PlainJoined
<1>6. Plain(a \o b \o c \o d)
  BY <1>1, <1>5, PlainJoined
<1> QED BY <1>3, <1>6

LEMMA PlainPumpSetup ==
    ASSUME NEW r, r.missing \in Nat
    PROVE  Plain(PumpSetup(r))
<1> DEFINE a == <<ShareConfig>>
           b == [i \in 1..r.missing |-> SocialFee(<<"github", i>>)]
           c == <<UpdateShares(IF r.mode = "agent-locked" THEN 1 ELSE r.recipients)>>
<1>1. Plain(a) /\ Plain(c)
  BY PlainOnes, PlainAlone
<1>2. /\ b = [i \in 1..r.missing |-> b[i]] /\ DOMAIN b = 1..r.missing
      /\ \A i \in 1..r.missing : IsPlain(b[i])
  BY PlainOnes
<1>3. PumpSetup(r) = a \o b \o c
  BY DEF PumpSetup
<1> HIDE DEF a, b, c
<1>4. \A i \in 1..r.missing : IsIx(b[i])
  BY <1>2 DEF IsPlain
<1>5. Plain(b)
  BY <1>2, <1>4, Tabled DEF Plain, ToSet
<1>6. Plain(a \o b)
  BY <1>1, <1>5, PlainJoined
<1>7. Plain(a \o b \o c)
  BY <1>1, <1>6, PlainJoined
<1> QED BY <1>3, <1>7

-----------------------------------------------------------------------------
(* The invariant of the fees                                               *)

\* What later steps take apart or add to: it sets no fee twice, and what is
\* combined pays the request's tip or none.
Sources ==
    /\ Once(topUp.ixs) /\ Sealed(topUp.ixs, order.fees.tip)
    /\ txs \in Seq(ToSet(txs)) /\ \A tx \in ToSet(txs) : Once(tx.ixs)
    /\ progress = "split" => \A x \in Left : IsPlain(x)
    /\ progress = "topup" => order.kind \in {"bonk-launch", "buy", "same-time-buy"}
    /\ progress \in {"topup", "combine"} => \A tx \in ToSet(txs) : Sealed(tx.ixs, order.fees.tip)
    /\ progress = "combine" \/ (progress = "topup" /\ order.kind = "bonk-launch") => txs # <<>>
    /\ progress = "launch" => txs = <<>>

TippedLast ==
    \A i \in DOMAIN txs : IsTipped(txs[i]) <=> i = Len(txs) /\ order.fees.tip > 0

\* Where a bundle that is tipped once is tipped, and where not yet.
BundleInv ==
    /\ progress = "done" => TippedLast
    /\ order.kind = "bonk-launch" =>
         /\ progress \in {"topup", "combine"} => TippedLast
         /\ progress = "combine" => ~Has(topUp.ixs, "tip")
    /\ order.kind = "pump" =>
         /\ progress # "tip"
         /\ progress = "follow-up" => order.followUp /\ Len(txs) = 1 /\ ~IsTipped(txs[1])

IsBundle == order.kind \in {"bonk-launch", "pump"} /\ order.secure

FeesInv == Sources /\ (IsBundle => BundleInv)

LEMMA TippedIs ==
    ASSUME NEW tx
    PROVE  IsTipped(tx) <=> Has(tx.ixs, "tip")
BY DEF IsTipped, Has, ToSet

LEMMA NothingIs ==
    ASSUME NEW tip
    PROVE  Once(<<>>) /\ Sealed(<<>>, tip) /\ ToSet(<<>>) = {} /\ <<>> \in Seq(ToSet(<<>>))
BY Nobody DEF Once, Sealed, IsList

\* What leaves everything but the progress alone.
LEMMA SourcesKept ==
    ASSUME Sources, order' = order, topUp' = topUp, txs' = txs,
           progress' \notin {"split", "topup", "combine", "launch"}
    PROVE  Sources'
BY DEF Sources

\* A number is a tip or none whatever limit goes with it.
LEMMA TipOf ==
    ASSUME NEW r \in Requests, NEW k
    PROVE  /\ r.fees.tip \in Nat /\ [r.fees EXCEPT !.limit = k].tip = r.fees.tip
           /\ [r.fees EXCEPT !.tip = 0].tip = 0
BY AssembleAssumption

LEMMA CombinedOnce ==
    ASSUME NEW r \in Requests, NEW action, NEW loaded,
           Sealed(topUp.ixs, r.fees.tip), Sealed(action.ixs, r.fees.tip),
           r.kind = "bonk-launch" => Mint \in SignersOf(CoreOf(action, CombinedFees(r))),
           Combined(r, action, loaded).error = "none"
    PROVE  /\ Once(Combined(r, action, loaded).ixs)
           /\ Has(Combined(r, action, loaded).ixs, "tip") <=> r.fees.tip > 0
<1> DEFINE fees == CombinedFees(r)
           known == IF r.kind = "bonk-launch" THEN {Mint} ELSE {}
           a == CoreOf(topUp, fees)
           b == CoreOf(action, fees)
           core == a \o b
           ixs == AtomicSettings(core, fees, r.dontfront)
           missing == MissingSigners(ixs, known)
           tx == Combined(r, action, loaded)
<1>1. fees.tip = r.fees.tip /\ r.fees.tip \in Nat
  BY TipOf DEF CombinedFees
<1>2. tx.ixs = Rewritten(ixs, missing)
  BY CombinedIs DEF Sealed
<1> HIDE DEF fees, known, tx
<1>3. /\ Plain(a) /\ SignersOf(a) \subseteq {Owner, Mint, Wrapped}
      /\ Plain(b) /\ SignersOf(b) \subseteq {Owner, Mint, Wrapped}
  BY <1>1, KeptPlain
<1> HIDE DEF a, b
<1>4. Plain(core) /\ SignersOf(core) \subseteq {Owner, Mint, Wrapped}
  BY <1>3, PlainJoined, Concatenated DEF Plain
<1> HIDE DEF core
<1>5. Once(ixs) /\ (Has(ixs, "tip") <=> fees.tip > 0) /\ Sealed(ixs, fees.tip)
  BY <1>1, <1>4, AtomicOnce, AtomicSealed
<1> HIDE DEF ixs
<1>6. missing \subseteq {Mint, Wrapped}
  BY <1>5 DEF Sealed, MissingSigners
<1> HIDE DEF missing
<1>7. Once(tx.ixs) /\ (Has(tx.ixs, "tip") <=> Has(ixs, "tip"))
  BY <1>2, <1>5, <1>6, RewrittenOnce
<1> QED BY <1>1, <1>5, <1>7 DEF tx

-----------------------------------------------------------------------------
(* The fees of Bonk's transactions: a launch that is split                 *)

LEMMA FeesInit ==
    ASSUME AssembleInit
    PROVE  FeesInv
<1>1. progress = "start" /\ txs = <<>> /\ topUp.ixs = <<>>
  BY DEF AssembleInit, NoTopUp, NoTx
<1> QED BY <1>1, NothingIs DEF FeesInv, Sources, BundleInv

LEMMA RefusedFees ==
    ASSUME FeesInv, NEW error, Refused(error)
    PROVE  FeesInv'
<1>1. /\ progress' = "refused" /\ order' = order /\ topUp' = topUp /\ txs' = txs
  BY DEF Refused
<1>2. Sources'
  BY <1>1, SourcesKept DEF FeesInv
<1> QED BY <1>1, <1>2 DEF FeesInv, BundleInv

LEMMA BonkStartFees ==
    ASSUME SignInv, FeesInv, BonkStart
    PROVE  FeesInv'
<1>1. /\ order.kind = "bonk-launch" /\ order' = order /\ todo' = BonkLaunch(order)
      /\ queue' = <<>> /\ groups' = <<>> /\ progress' = "split"
      /\ topUp' = topUp /\ txs' = txs
  BY DEF BonkStart, SignInv
<1>2. \A x \in Left' : IsPlain(x)
  <2>1. ToSet(queue') = {} /\ ToSet(groups') = {}
    BY <1>1, Nobody
  <2>2. Left' = ToSet(todo')
    BY <2>1 DEF Left
  <2> QED BY <1>1, <2>2, PlainLaunch DEF Plain
<1>3. Sources'
  BY <1>1, <1>2 DEF FeesInv, Sources
<1> QED BY <1>1, <1>3 DEF FeesInv, BundleInv

LEMMA SplitFees ==
    ASSUME SignInv, FeesInv, Split
    PROVE  FeesInv'
<1>1. /\ progress = "split" /\ progress' = "split"
      /\ order' = order /\ topUp' = topUp /\ txs' = txs
  BY DEF Split
<1>2. Left' = Left
  BY SplitKeeps
<1>3. Sources'
  BY <1>1, <1>2 DEF FeesInv, Sources
<1>4. order.kind = "bonk-launch"
  BY <1>1 DEF SignInv, SplitInv
<1> QED BY <1>1, <1>3, <1>4 DEF FeesInv, BundleInv

\* Of a secure bundle only the last transaction has the tip.
LEMMA BundleTip ==
    ASSUME NEW r \in Requests, NEW n \in Nat, NEW i \in 1..n
    PROVE  /\ BundleFees(r, i, n).tip \in {0, r.fees.tip}
           /\ r.secure => (BundleFees(r, i, n).tip > 0 <=> i = n /\ r.fees.tip > 0)
<1>1. r.fees.tip \in Nat /\ [r.fees EXCEPT !.tip = 0].tip = 0
  BY TipOf
<1> QED BY <1>1 DEF BundleFees

LEMMA CompileGroupsFees ==
    ASSUME SignInv, FeesInv, CompileGroups
    PROVE  FeesInv'
<1>1. CASE Refused("size")
  BY <1>1, RefusedFees
<1>2. ASSUME ~Refused("size") PROVE FeesInv'
  <2>1. PICK all, n :
          /\ n \in Nat /\ n >= 1 /\ Len(txs') = n /\ DOMAIN txs' = 1..n
          /\ txs' \in Seq(ToSet(txs'))
          /\ \A i \in 1..n :
               /\ OfLaunch(all[i]) /\ ToSet(all[i]) \subseteq Left
               /\ txs'[i].ixs = Settings(all[i], BundleFees(order, i, n), order.dontfront)
          /\ progress' \in {"topup", "done"}
          /\ order' = order /\ topUp' = topUp
    BY <1>2, GroupsCompiled
  <2>2. /\ progress = "split" /\ order \in Requests /\ order.kind = "bonk-launch"
        /\ order.fees.tip \in Nat
    BY TipOf DEF SignInv, SplitInv, CompileGroups
  <2>3. ASSUME NEW i \in 1..n
        PROVE  /\ Once(txs'[i].ixs) /\ Sealed(txs'[i].ixs, order.fees.tip)
               /\ order.secure => (IsTipped(txs'[i]) <=> i = n /\ order.fees.tip > 0)
    <3> DEFINE core == all[i]
               fees == BundleFees(order, i, n)
               tx == txs'[i]
    <3>1. tx.ixs = Settings(core, fees, order.dontfront)
      BY <2>1
    <3>2. Plain(core) /\ SignersOf(core) \subseteq {Owner, Mint, Wrapped}
      BY <2>1, <2>2 DEF Plain, OfLaunch, FeesInv, Sources
    <3>3. /\ fees.tip \in {0, order.fees.tip}
          /\ order.secure => (fees.tip > 0 <=> i = n /\ order.fees.tip > 0)
      BY <2>1, <2>2, BundleTip
    <3> HIDE DEF core, fees, tx
    <3>4. Once(tx.ixs) /\ (Has(tx.ixs, "tip") <=> fees.tip > 0)
      BY <3>1, <3>2, SettingsOnce
    <3>5. Sealed(tx.ixs, order.fees.tip)
      BY <2>2, <3>1, <3>2, <3>3, SettingsSealed
    <3> QED BY <3>3, <3>4, <3>5, TippedIs DEF tx
  <2>4. \A tx \in ToSet(txs') : Once(tx.ixs) /\ Sealed(tx.ixs, order.fees.tip)
    BY <2>1, <2>3 DEF ToSet
  <2>5. Sources'
    BY <2>1, <2>2, <2>4 DEF FeesInv, Sources
  <2>6. order.secure => TippedLast'
    BY <2>1, <2>3 DEF TippedLast
  <2>7. txs' # <<>>
    BY <2>1
  <2> QED BY <2>1, <2>2, <2>5, <2>6, <2>7 DEF FeesInv, BundleInv, IsBundle
<1> QED BY <1>1, <1>2

-----------------------------------------------------------------------------
(* A top-up in front                                                       *)

\* A transaction put in front of the others.
LEMMA InFront ==
    ASSUME NEW tx, NEW s, s \in Seq(ToSet(s))
    PROVE  LET all == <<tx>> \o s IN
           /\ all \in Seq(ToSet(all)) /\ ToSet(all) = {tx} \union ToSet(s)
           /\ Len(s) \in Nat /\ DOMAIN s = 1..Len(s)
           /\ DOMAIN all = 1..(Len(s) + 1) /\ Len(all) = Len(s) + 1 /\ all[1] = tx
           /\ \A i \in 2..(Len(s) + 1) : all[i] = s[i - 1]
<1> DEFINE S == {tx} \union ToSet(s)
           all == <<tx>> \o s
<1>1. s \in Seq(S) /\ <<tx>> \in Seq(S) /\ ToSet(<<tx>>) = {tx}
  BY DEF ToSet
<1> HIDE DEF S
<1>2. all \in Seq(S) /\ ToSet(all) = {tx} \union ToSet(s)
  <2> DEFINE one == <<tx>>
  <2>1. one \in Seq(S) /\ ToSet(one) = {tx} /\ all = one \o s
    BY <1>1
  <2> HIDE DEF one, all
  <2> QED BY <1>1, <2>1, ConcatenatedSet
<1>3. /\ Len(s) \in Nat /\ DOMAIN s = 1..Len(s)
      /\ DOMAIN all = 1..(Len(s) + 1) /\ Len(all) = Len(s) + 1 /\ all[1] = tx
      /\ \A i \in 2..(Len(s) + 1) : all[i] = s[i - 1]
  BY <1>1
<1> HIDE DEF all
<1>4. all \in Seq(ToSet(all))
  BY <1>2 DEF S
<1> QED BY <1>2, <1>3, <1>4 DEF all

\* A top-up in front of transactions that are tipped last, without a tip.
LEMMA StillTippedLast ==
    ASSUME NEW tx, TippedLast, txs \in Seq(ToSet(txs)), txs # <<>>, ~Has(tx.ixs, "tip"),
           order' = order, txs' = <<tx>> \o txs
    PROVE  TippedLast'
<1>1. /\ Len(txs) \in Nat /\ DOMAIN txs = 1..Len(txs)
      /\ DOMAIN txs' = 1..(Len(txs) + 1) /\ Len(txs') = Len(txs) + 1 /\ txs'[1] = tx
      /\ \A i \in 2..(Len(txs) + 1) : txs'[i] = txs[i - 1]
  BY InFront
<1>2. Len(txs) > 0
  BY <1>1
<1>3. ~IsTipped(tx)
  BY TippedIs
<1>4. ASSUME NEW i \in DOMAIN txs'
      PROVE  IsTipped(txs'[i]) <=> i = Len(txs') /\ order.fees.tip > 0
  <2>1. CASE i = 1
    BY <1>1, <1>2, <1>3, <2>1
  <2>2. CASE i # 1
    <3>1. i \in 2..(Len(txs) + 1) /\ i - 1 \in DOMAIN txs
      BY <1>1, <1>4, <2>2
    <3>2. IsTipped(txs[i - 1]) <=> i - 1 = Len(txs) /\ order.fees.tip > 0
      BY <3>1 DEF TippedLast
    <3>3. txs'[i] = txs[i - 1] /\ (i - 1 = Len(txs) <=> i = Len(txs'))
      BY <1>1, <3>1
    <3> QED BY <3>2, <3>3
  <2> QED BY <2>1, <2>2
<1> QED BY <1>4 DEF TippedLast

\* A top-up pays the request's tip, or none.
LEMMA TopUpOnce ==
    ASSUME order \in Requests, order.kind \in {"bonk-launch", "buy", "same-time-buy"},
           txs \in Seq(ToSet(txs)), NEW loaded, TopUpTx(order, loaded).error = "none"
    PROVE  LET tx == TopUpTx(order, loaded) IN
           /\ Once(tx.ixs) /\ Sealed(tx.ixs, order.fees.tip)
           /\ order.kind = "bonk-launch" /\ order.secure /\ txs # <<>> => ~Has(tx.ixs, "tip")
<1> DEFINE core == TopUpCore(order)
           fees == TopUpFees(order)
           ixs == Settings(core, fees, order.dontfront)
           tx == TopUpTx(order, loaded)
<1>1. Len(txs) \in Nat /\ (txs # <<>> => Len(txs) > 0)
  BY TipOf
<1>2. order.fees.tip \in Nat /\ [order.fees EXCEPT !.limit = Limits.topup].tip = order.fees.tip
  BY TipOf
<1>3. /\ fees.tip \in {0, order.fees.tip}
      /\ order.kind = "bonk-launch" /\ order.secure /\ txs # <<>> => fees.tip = 0
  <2>1. CASE order.kind = "bonk-launch"
    <3>1. fees = BundleFees(order, 1, Len(txs) + 1)
      BY <2>1, Zenon DEF TopUpFees
    <3>2. Len(txs) + 1 \in Nat /\ 1 \in 1..(Len(txs) + 1)
      BY <1>1
    <3>3. /\ fees.tip \in {0, order.fees.tip}
          /\ order.secure => (fees.tip > 0 <=> 1 = Len(txs) + 1 /\ order.fees.tip > 0)
      BY <3>1, <3>2, BundleTip
    <3> HIDE DEF fees
    <3> QED BY <1>1, <1>2, <3>3
  <2>2. CASE order.kind = "buy"
    <3>1. fees = order.fees
      BY <2>2, Zenon DEF TopUpFees
    <3> QED BY <2>2, <3>1
  <2>3. CASE order.kind = "same-time-buy"
    <3>1. fees = [order.fees EXCEPT !.limit = Limits.topup]
      BY <2>3, Zenon DEF TopUpFees
    <3> QED BY <1>2, <2>3, <3>1
  <2> QED BY <2>1, <2>2, <2>3
<1>4. Plain(core) /\ IsList(core) /\ SignersOf(core) \subseteq {Owner, Mint, Wrapped}
  BY PlainTopUp, TopUpCoreIs
<1> HIDE DEF core, fees
<1>5. /\ Once(ixs) /\ Sealed(ixs, order.fees.tip) /\ (Has(ixs, "tip") <=> fees.tip > 0)
  BY <1>2, <1>3, <1>4, SettingsOnce, SettingsSealed
<1>6. CanSign({Wrapped}, ixs)
  BY TopUpCoreIs, SettingsSame DEF CanSign, core
<1>7. tx = BonkCompiled("v0", {Wrapped}, ixs, <<>>, loaded)
  BY Zenon DEF TopUpTx, core, fees
<1> HIDE DEF ixs, tx
<1>8. tx.ixs = ixs
  BY <1>6, <1>7, BonkCompiledIs DEF tx
<1> QED BY <1>2, <1>3, <1>5, <1>8 DEF tx

LEMMA CompileTopUpFees ==
    ASSUME SignInv, FeesInv, CompileTopUp
    PROVE  FeesInv'
<1>1. progress = "topup"
  BY DEF CompileTopUp
<1>2. PICK loaded :
        LET tx == TopUpTx(order, loaded) IN
        IF tx.error # "none" THEN Refused(tx.error)
        ELSE /\ topUp' = tx
             /\ IF Len(txs) > 1
                THEN txs' = <<tx>> \o txs /\ why' = "several" /\ progress' = "done"
                ELSE txs' = txs /\ why' = why
                     /\ progress' = IF order.kind = "bonk-launch" THEN "combine" ELSE "action"
             /\ UNCHANGED <<order, todo, queue, groups, tables>>
  BY DEF CompileTopUp
<1> DEFINE tx == TopUpTx(order, loaded)
<1>3. /\ order \in Requests /\ order.kind \in {"bonk-launch", "buy", "same-time-buy"}
      /\ txs \in Seq(ToSet(txs)) /\ \A t \in ToSet(txs) : Once(t.ixs) /\ Sealed(t.ixs, order.fees.tip)
      /\ order.kind = "bonk-launch" => txs # <<>>
      /\ order.kind = "bonk-launch" /\ order.secure => TippedLast
  BY <1>1 DEF SignInv, FeesInv, Sources, IsBundle, BundleInv
<1>4. CASE tx.error # "none"
  BY <1>2, <1>4, RefusedFees
<1>5. CASE tx.error = "none"
  <2>1. /\ Once(tx.ixs) /\ Sealed(tx.ixs, order.fees.tip)
        /\ order.kind = "bonk-launch" /\ order.secure /\ txs # <<>> => ~Has(tx.ixs, "tip")
    BY <1>3, <1>5, TopUpOnce
  <2>2. /\ topUp' = tx /\ order' = order
        /\ \/ txs' = <<tx>> \o txs /\ progress' = "done"
           \/ /\ txs' = txs
              /\ progress' = IF order.kind = "bonk-launch" THEN "combine" ELSE "action"
    BY <1>2, <1>5
  <2> HIDE DEF tx
  <2>3. CASE txs' = <<tx>> \o txs /\ progress' = "done"
    <3>1. txs' \in Seq(ToSet(txs')) /\ ToSet(txs') = {tx} \union ToSet(txs)
      BY <1>3, <2>3, InFront
    <3>2. \A t \in ToSet(txs') : Once(t.ixs)
      BY <1>3, <2>1, <3>1
    <3>3. Sources'
      BY <2>1, <2>2, <2>3, <3>1, <3>2 DEF Sources
    <3>4. order.kind = "bonk-launch" /\ order.secure => TippedLast'
      BY <1>3, <2>1, <2>2, <2>3, StillTippedLast
    <3> QED BY <1>3, <2>2, <2>3, <3>3, <3>4 DEF FeesInv, IsBundle, BundleInv
  <2>4. CASE /\ txs' = txs
             /\ progress' = IF order.kind = "bonk-launch" THEN "combine" ELSE "action"
    <3>1. Sources'
      BY <1>3, <2>1, <2>2, <2>4 DEF Sources
    <3>2. order.kind = "bonk-launch" /\ order.secure => TippedLast'
      BY <1>3, <2>2, <2>4 DEF TippedLast
    <3> QED BY <1>3, <2>1, <2>2, <2>4, <3>1, <3>2 DEF FeesInv, IsBundle, BundleInv
  <2> QED BY <2>2, <2>3, <2>4
<1> QED BY <1>4, <1>5

-----------------------------------------------------------------------------
(* Combinations, a buy, a sell                                             *)

LEMMA OneTx ==
    ASSUME NEW tx, txs' = <<tx>>, order' = order, Has(tx.ixs, "tip") <=> order.fees.tip > 0
    PROVE  txs' \in Seq(ToSet(txs')) /\ ToSet(txs') = {tx} /\ txs' # <<>> /\ TippedLast'
<1>1. /\ txs' \in Seq(ToSet(txs')) /\ ToSet(txs') = {tx} /\ txs' # <<>>
      /\ DOMAIN txs' = {1} /\ txs'[1] = tx /\ Len(txs') = 1
  <2>1. ToSet(<<tx>>) = {tx} /\ <<tx>> \in Seq({tx}) /\ DOMAIN <<tx>> = {1} /\ <<tx>> # <<>>
        /\ <<tx>>[1] = tx /\ Len(<<tx>>) = 1
    BY DEF ToSet
  <2> QED BY <2>1
<1> QED BY <1>1, TippedIs DEF TippedLast

LEMMA CombineFees ==
    ASSUME SignInv, FeesInv, Combine
    PROVE  FeesInv'
<1>1. /\ progress = "combine" /\ order.kind = "bonk-launch" /\ progress' = "done"
      /\ order' = order /\ topUp' = topUp
  BY DEF Combine
<1>2. PICK tx \in CombinedOrError(order, txs[1]) :
        txs' = IF tx.error = "none" THEN <<tx>> ELSE <<topUp>> \o txs
  BY DEF Combine
<1>3. /\ order \in Requests /\ Mint \in SignersOf(CoreOf(txs[1], CombinedFees(order)))
      /\ txs \in Seq(ToSet(txs)) /\ txs # <<>>
      /\ \A t \in ToSet(txs) : Once(t.ixs) /\ Sealed(t.ixs, order.fees.tip)
      /\ Once(topUp.ixs) /\ Sealed(topUp.ixs, order.fees.tip)
      /\ order.secure => TippedLast /\ ~Has(topUp.ixs, "tip")
  BY <1>1 DEF SignInv, Combinable, CombinedFees, FeesInv, Sources, IsBundle, BundleInv
<1>4. CASE tx.error = "none"
  <2>1. NoTx("rpc").error # "none"
    BY DEF NoTx
  <2>2. PICK loaded : tx = Combined(order, txs[1], loaded)
    BY <1>4, <2>1 DEF CombinedOrError
  <2>3. txs[1] \in ToSet(txs)
    <3>1. 1 \in DOMAIN txs
      BY <1>3
    <3> QED BY <3>1 DEF ToSet
  <2>4. Once(tx.ixs) /\ (Has(tx.ixs, "tip") <=> order.fees.tip > 0)
    BY <1>3, <1>4, <2>2, <2>3, CombinedOnce
  <2>5. txs' = <<tx>>
    BY <1>2, <1>4
  <2>6. txs' \in Seq(ToSet(txs')) /\ ToSet(txs') = {tx} /\ TippedLast'
    BY <1>1, <2>4, <2>5, OneTx
  <2>7. Sources'
    BY <1>1, <1>3, <2>4, <2>6 DEF Sources
  <2> QED BY <1>1, <2>6, <2>7 DEF FeesInv, IsBundle, BundleInv
<1>5. CASE tx.error # "none"
  <2>1. txs' = <<topUp>> \o txs
    BY <1>2, <1>5
  <2>2. txs' \in Seq(ToSet(txs')) /\ ToSet(txs') = {topUp} \union ToSet(txs)
    BY <1>3, <2>1, InFront
  <2>3. \A t \in ToSet(txs') : Once(t.ixs)
    BY <1>3, <2>2
  <2>4. Sources'
    BY <1>1, <1>3, <2>2, <2>3 DEF Sources
  <2>5. order.secure => TippedLast'
    BY <1>1, <1>3, <2>1, StillTippedLast
  <2> QED BY <1>1, <2>4, <2>5 DEF FeesInv, IsBundle, BundleInv
<1> QED BY <1>4, <1>5

LEMMA CombineBuyFees ==
    ASSUME SignInv, FeesInv, CombineBuy
    PROVE  FeesInv'
<1>1. progress = "combine" /\ order.kind # "bonk-launch"
  BY DEF CombineBuy
<1>2. PICK tx \in CombinedOrError(order, txs[1]) :
        IF tx.error # "none" THEN Refused(tx.error)
        ELSE /\ txs' = <<tx>> /\ progress' = "done"
             /\ UNCHANGED <<order, todo, queue, groups, tables, topUp, why>>
  BY DEF CombineBuy
<1>3. CASE tx.error # "none"
  BY <1>2, <1>3, RefusedFees
<1>4. CASE tx.error = "none"
  <2>1. NoTx("rpc").error # "none"
    BY DEF NoTx
  <2>2. PICK loaded : tx = Combined(order, txs[1], loaded)
    BY <1>4, <2>1 DEF CombinedOrError
  <2>3. /\ order \in Requests /\ txs \in Seq(ToSet(txs)) /\ txs # <<>>
        /\ \A t \in ToSet(txs) : Sealed(t.ixs, order.fees.tip)
        /\ Once(topUp.ixs) /\ Sealed(topUp.ixs, order.fees.tip)
    BY <1>1 DEF SignInv, FeesInv, Sources
  <2>4. txs[1] \in ToSet(txs)
    <3>1. 1 \in DOMAIN txs
      BY <2>3
    <3> QED BY <3>1 DEF ToSet
  <2>5. Once(tx.ixs) /\ (Has(tx.ixs, "tip") <=> order.fees.tip > 0)
    BY <1>1, <1>4, <2>2, <2>3, <2>4, CombinedOnce
  <2>6. txs' = <<tx>> /\ progress' = "done" /\ order' = order /\ topUp' = topUp
    BY <1>2, <1>4
  <2>7. txs' \in Seq(ToSet(txs')) /\ ToSet(txs') = {tx} /\ TippedLast'
    BY <2>5, <2>6, OneTx
  <2>8. Sources'
    BY <2>3, <2>5, <2>6, <2>7 DEF Sources
  <2> QED BY <2>6, <2>7, <2>8 DEF FeesInv, BundleInv
<1> QED BY <1>3, <1>4

LEMMA TradeStartFees ==
    ASSUME SignInv, FeesInv, TradeStart
    PROVE  FeesInv'
<1>1. /\ progress = "start" /\ order.kind \in {"buy", "same-time-buy", "sell"}
      /\ order' = order /\ topUp' = topUp /\ txs' = txs
      /\ progress' = "action" \/ (progress' = "topup" /\ order.kind # "sell")
  BY DEF TradeStart
<1>2. txs = <<>> /\ ToSet(txs) = {}
  BY <1>1, Nobody DEF SignInv
<1>3. Sources'
  BY <1>1, <1>2 DEF FeesInv, Sources
<1> QED BY <1>1, <1>3 DEF FeesInv, IsBundle

LEMMA CompileTradeFees ==
    ASSUME SignInv, FeesInv, CompileTrade
    PROVE  FeesInv'
<1> DEFINE keys == IF order.quote = "sol" THEN {Wrapped} ELSE {}
           core == TradeCore(order)
           ixs == Settings(core, order.fees, order.dontfront)
           next == IF topUp = NoTopUp THEN "done" ELSE "combine"
<1>1. /\ progress = "action" /\ order.kind # "bonk-launch" /\ txs = <<>>
      /\ order \in Requests /\ order.fees.tip \in Nat
  BY TipOf DEF CompileTrade, SignInv
<1>2. PICK loaded : Adds(BonkCompiled(TradeFormat(order), keys, ixs, <<>>, loaded), next)
  BY DEF CompileTrade
<1>3. CanSign(keys, ixs)
  BY TradeCoreIs, SettingsSame DEF CanSign
<1>4. Plain(core) /\ SignersOf(core) \subseteq {Owner, Mint, Wrapped}
  BY PlainTrade, TradeCoreIs
<1>5. next \in {"done", "combine"}
  OBVIOUS
<1> HIDE DEF keys, next, core
<1>6. Once(ixs) /\ (Has(ixs, "tip") <=> order.fees.tip > 0) /\ Sealed(ixs, order.fees.tip)
  BY <1>1, <1>4, SettingsOnce, SettingsSealed
<1> HIDE DEF ixs
<1> DEFINE tx == BonkCompiled(TradeFormat(order), keys, ixs, <<>>, loaded)
<1>7. tx.error = "none" => tx.ixs = ixs
  BY <1>3, BonkCompiledIs
<1>8. Adds(tx, next)
  BY <1>2
<1> HIDE DEF tx
<1>9. CASE tx.error # "none"
  BY <1>8, <1>9, RefusedFees DEF Adds
<1>10. CASE tx.error = "none"
  <2>1. txs' = Append(txs, tx) /\ progress' = next /\ order' = order /\ topUp' = topUp
    BY <1>8, <1>10 DEF Adds
  <2>2. txs' = <<tx>>
    BY <1>1, <2>1
  <2>3. txs' \in Seq(ToSet(txs')) /\ ToSet(txs') = {tx} /\ txs' # <<>> /\ TippedLast'
    BY <1>6, <1>7, <1>10, <2>1, <2>2, OneTx
  <2>4. Sources'
    BY <1>5, <1>6, <1>7, <1>10, <2>1, <2>3 DEF FeesInv, Sources
  <2> QED BY <1>1, <1>5, <2>1, <2>3, <2>4 DEF FeesInv, BundleInv
<1> QED BY <1>9, <1>10

-----------------------------------------------------------------------------
(* The fees of Pump's transactions                                         *)

LEMMA PumpStartFees ==
    ASSUME SignInv, FeesInv, PumpStart
    PROVE  FeesInv'
<1>1. \/ Refused("tables")
      \/ /\ progress' = "launch" /\ order.kind = "pump" /\ progress = "start"
         /\ order' = order /\ topUp' = topUp /\ txs' = txs
  BY DEF PumpStart
<1>2. CASE Refused("tables")
  BY <1>2, RefusedFees
<1>3. CASE /\ progress' = "launch" /\ order.kind = "pump" /\ progress = "start"
           /\ order' = order /\ topUp' = topUp /\ txs' = txs
  <2>1. txs = <<>>
    BY <1>3 DEF SignInv
  <2>2. Sources'
    BY <1>3, <2>1 DEF FeesInv, Sources
  <2> QED BY <1>3, <2>2 DEF FeesInv, BundleInv
<1> QED BY <1>1, <1>2, <1>3

\* A transaction of Pump is added.
LEMMA AddedOnce ==
    ASSUME Sources, NEW tx, Once(tx.ixs), NEW next \in {"follow-up", "tip", "done", "start"},
           tx.error = "none", Adds(tx, next)
    PROVE  /\ Sources' /\ progress' = next /\ order' = order
           /\ txs' = Append(txs, tx) /\ Len(txs) \in Nat /\ DOMAIN txs = 1..Len(txs)
           /\ Len(txs') = Len(txs) + 1 /\ DOMAIN txs' = 1..(Len(txs) + 1)
           /\ txs'[Len(txs) + 1] = tx /\ \A i \in 1..Len(txs) : txs'[i] = txs[i]
<1>1. txs' = Append(txs, tx) /\ progress' = next /\ order' = order /\ topUp' = topUp
  BY DEF Adds
<1> DEFINE S == ToSet(txs) \union {tx}
<1>2. txs \in Seq(S) /\ tx \in S
  BY DEF Sources
<1> HIDE DEF S
<1>3. txs' \in Seq(S) /\ ToSet(txs') = ToSet(txs) \union {tx}
  BY <1>1, <1>2, AppendedSet
<1>4. /\ Len(txs) \in Nat /\ DOMAIN txs = 1..Len(txs)
      /\ Len(txs') = Len(txs) + 1 /\ DOMAIN txs' = 1..(Len(txs) + 1)
      /\ txs'[Len(txs) + 1] = tx /\ \A i \in 1..Len(txs) : txs'[i] = txs[i]
  BY <1>1, <1>2
<1>5. txs' \in Seq(ToSet(txs'))
  BY <1>3 DEF S
<1>6. \A t \in ToSet(txs') : Once(t.ixs)
  BY <1>3 DEF Sources
<1>7. Sources'
  BY <1>1, <1>5, <1>6 DEF Sources
<1> QED BY <1>1, <1>4, <1>7

\* Pump's one bundle that is tipped once is tipped with the setup, if there is one.
LEMMA PumpTips ==
    ASSUME NEW r \in Requests, r.kind = "pump", r.secure
    PROVE  /\ r.fees.tip \in Nat /\ ~Separate(r)
           /\ LaunchFees(r).tip = IF r.followUp THEN 0 ELSE r.fees.tip
           /\ SetupFees(r).tip = r.fees.tip
<1>1. r.plan = "hellomoon-bundle" /\ r.fees \in [limit : Nat, price : Nat, tip : Nat]
  BY AssembleAssumption
<1>2. ~Separate(r)
  BY <1>1 DEF Separate
<1>3. LaunchFees(r).tip = IF r.followUp THEN 0 ELSE r.fees.tip
  BY <1>1, <1>2 DEF LaunchFees
<1> QED BY <1>1, <1>2, <1>3 DEF SetupFees

LEMMA PumpCompileLaunchFees ==
    ASSUME SignInv, FeesInv, PumpCompileLaunch
    PROVE  FeesInv'
<1> DEFINE core == PumpLaunchOf(order)
           ixs == Settings(core, LaunchFees(order), order.dontfront)
           tx == PumpCompiled(order, {Mint}, ixs, Variants(order, "launch"))
           next == IF order.followUp THEN "follow-up" ELSE AfterSetup(order)
<1>1. order \in Requests /\ order.kind = "pump" /\ progress = "launch" /\ txs = <<>> /\ Sources
  BY DEF SignInv, PumpCompileLaunch, FeesInv, Sources
<1>2. Adds(tx, next)
  BY DEF PumpCompileLaunch
<1>3. tx.error = "none" /\ tx.ixs = ixs
  BY <1>1, PumpLaunchIs, PumpSigned
<1>4. next \in {"follow-up", "tip", "done"}
      /\ (order.secure => next = IF order.followUp THEN "follow-up" ELSE "done")
  BY <1>1, PumpTips DEF AfterSetup
<1>5. Once(ixs) /\ (Has(ixs, "tip") <=> LaunchFees(order).tip > 0)
  BY PlainPumpLaunch, SettingsOnce
<1> HIDE DEF core, ixs, tx, next
<1>6. /\ Sources' /\ progress' = next /\ order' = order
      /\ Len(txs') = 1 /\ DOMAIN txs' = {1} /\ txs'[1] = tx
  <2>1. /\ Sources' /\ progress' = next /\ order' = order
        /\ Len(txs') = Len(txs) + 1 /\ DOMAIN txs' = 1..(Len(txs) + 1)
        /\ txs'[Len(txs) + 1] = tx
    BY <1>1, <1>2, <1>3, <1>4, <1>5, AddedOnce
  <2>2. Len(txs) = 0
    BY <1>1
  <2> QED BY <2>1, <2>2
<1>7. IsTipped(tx) <=> LaunchFees(order).tip > 0
  BY <1>3, <1>5, TippedIs
<1>8. ASSUME order.secure PROVE BundleInv'
  <2>1. /\ order.fees.tip \in Nat
        /\ LaunchFees(order).tip = IF order.followUp THEN 0 ELSE order.fees.tip
    BY <1>1, <1>8, PumpTips
  <2>2. ~order.followUp => TippedLast'
    BY <1>6, <1>7, <2>1 DEF TippedLast
  <2>3. order.followUp => ~IsTipped(tx)
    BY <1>7, <2>1
  <2> QED BY <1>1, <1>4, <1>6, <1>8, <2>2, <2>3 DEF BundleInv
<1> QED BY <1>6, <1>8 DEF FeesInv, IsBundle

LEMMA PumpCompileSetupFees ==
    ASSUME SignInv, FeesInv, PumpCompileSetup
    PROVE  FeesInv'
<1> DEFINE core == PumpSetup(order)
           ixs == Settings(core, SetupFees(order), order.dontfront)
           tx == PumpCompiled(order, {}, ixs, Variants(order, "follow-up"))
           next == AfterSetup(order)
<1>1. /\ order \in Requests /\ order.kind = "pump" /\ order.missing \in Nat
      /\ progress = "follow-up" /\ Sources
  BY AssembleAssumption DEF SignInv, PumpCompileSetup, FeesInv
<1>2. Adds(tx, next)
  BY DEF PumpCompileSetup
<1>3. tx.error = "none" /\ tx.ixs = ixs
  BY <1>1, PumpSetupIs, PumpSigned
<1>4. next \in {"follow-up", "tip", "done"} /\ (order.secure => next = "done")
  BY <1>1, PumpTips DEF AfterSetup
<1>5. Once(ixs) /\ (Has(ixs, "tip") <=> SetupFees(order).tip > 0)
  BY <1>1, PlainPumpSetup, SettingsOnce
<1> HIDE DEF core, ixs, tx, next
<1>6. /\ Sources' /\ progress' = next /\ order' = order
      /\ Len(txs) \in Nat /\ Len(txs') = Len(txs) + 1 /\ DOMAIN txs' = 1..(Len(txs) + 1)
      /\ txs'[Len(txs) + 1] = tx /\ \A i \in 1..Len(txs) : txs'[i] = txs[i]
  BY <1>1, <1>2, <1>3, <1>4, <1>5, AddedOnce
<1>7. IsTipped(tx) <=> SetupFees(order).tip > 0
  BY <1>3, <1>5, TippedIs
<1>8. ASSUME order.secure PROVE BundleInv'
  <2>1. Len(txs) = 1 /\ ~IsTipped(txs[1])
    BY <1>1, <1>8 DEF FeesInv, IsBundle, BundleInv
  <2>2. SetupFees(order).tip = order.fees.tip
    BY <1>1, <1>8, PumpTips
  <2>3. DOMAIN txs' = {1, 2} /\ Len(txs') = 2 /\ txs'[1] = txs[1] /\ txs'[2] = tx
    BY <1>6, <2>1
  <2>4. TippedLast'
    BY <1>6, <1>7, <2>1, <2>2, <2>3 DEF TippedLast
  <2> QED BY <1>1, <1>4, <1>6, <1>8, <2>4 DEF BundleInv
<1> QED BY <1>6, <1>8 DEF FeesInv, IsBundle

LEMMA PumpCompileTipFees ==
    ASSUME SignInv, FeesInv, PumpCompileTip
    PROVE  FeesInv'
<1> DEFINE ixs == <<Transfer(TipAccount, order.fees.tip)>>
           tx == PumpCompiled(order, {}, ixs, Variants(order, "jito-tip"))
<1>1. order \in Requests /\ order.kind = "pump" /\ progress = "tip" /\ Sources
  BY DEF SignInv, PumpCompileTip, FeesInv
<1>2. Adds(tx, "done")
  BY DEF PumpCompileTip
<1>3. Once(ixs) /\ SignersOf(ixs) = {Owner}
  BY SettingsAre, Single, FeesAre, OnceAlone
<1>4. order.format \in {"legacy", "v0", "v0-alt", "auto"}
  BY <1>1, AssembleAssumption
<1> HIDE DEF ixs
<1>5. tx.error = "none" /\ tx.ixs = ixs
  BY <1>3, <1>4, PumpCompiledIs DEF CanSign
<1> HIDE DEF tx
<1>6. Sources' /\ order' = order
  BY <1>1, <1>2, <1>3, <1>5, AddedOnce
<1>7. ~order.secure
  BY <1>1 DEF FeesInv, IsBundle, BundleInv
<1> QED BY <1>6, <1>7 DEF FeesInv, IsBundle

-----------------------------------------------------------------------------
(* What the Bags service returns and what is made of it                    *)

\* What is taken from a list sets a fee once that the list sets once.
LEMMA TakenOnce ==
    ASSUME NEW s, Once(s), NEW places
    PROVE  Once(Taken(s, places))
<1> DEFINE f == CHOOSE f : IsTaking(f, s, places)
           Of(q, n) == \A x \in ToSet(q) : \E i \in 1..n : x = s[i]
           T == {n \in Nat : n <= Len(s) => Once(f[n]) /\ Of(f[n], n)}
<1>1. IsList(s) /\ s \in Seq(ToSet(s)) /\ Len(s) \in Nat /\ DOMAIN s = 1..Len(s)
      /\ \A i \in 1..Len(s) : IsIx(s[i])
  BY ListIs DEF Once, IsList
<1>2. IsTaking(f, s, places)
  BY <1>1, TakingExists, Zenon
<1>3. Taken(s, places) = f[Len(s)]
  BY Zenon DEF Taken, IsTaking, TakeNext
<1> HIDE DEF f
<1>4. f[0] = <<>> /\ \A n \in 1..Len(s) : f[n] = TakeNext(places, s, f[n - 1], n)
  BY <1>1, <1>2 DEF IsTaking
<1>5. 0 \in T
  <2>1. Once(<<>>) /\ Of(<<>>, 0)
    BY NothingIs
  <2> HIDE DEF Of
  <2> QED BY <1>4, <2>1
<1>6. ASSUME NEW n \in T PROVE n + 1 \in T
  <2> SUFFICES ASSUME n + 1 <= Len(s) PROVE Once(f[n + 1]) /\ Of(f[n + 1], n + 1)
    <3> HIDE DEF Of
    <3> QED OBVIOUS
  <2>1. n \in Nat /\ n + 1 \in 1..Len(s) /\ (n + 1) - 1 = n /\ n <= Len(s)
    BY <1>1
  <2>2. Once(f[n]) /\ Of(f[n], n)
    <3> HIDE DEF Of
    <3> QED BY <1>1, <2>1
  <2>3. f[n + 1] = TakeNext(places, s, f[n], n + 1)
    BY <1>4, <2>1
  <2>4. \A i \in 1..n : i \in 1..(n + 1) /\ i \in DOMAIN s /\ i # n + 1
    BY <1>1, <2>1
  <2>5. CASE n + 1 \notin places
    <3>1. f[n + 1] = f[n]
      BY <2>3, <2>5 DEF TakeNext
    <3>2. Of(f[n], n + 1)
      BY <2>2, <2>4
    <3> HIDE DEF Of
    <3> QED BY <2>2, <3>1, <3>2
  <2>6. CASE n + 1 \in places
    <3> DEFINE x == s[n + 1]
               q == f[n]
    <3>1. IsIx(x)
      BY <1>1, <2>1
    <3>2. Once(<<x>>) /\ (\A fee : Has(<<x>>, fee) <=> FeeOf(x) = fee) /\ ToSet(<<x>>) = {x}
      BY <3>1, OnceAlone, Single
    <3>3. ASSUME NEW fee \in FeeKinds, Has(q, fee), FeeOf(x) = fee PROVE FALSE
      <4>1. PICK i \in 1..n : FeeOf(s[i]) = fee
        BY <2>2, <3>3 DEF Has
      <4>2. i = n + 1
        BY <1>1, <2>1, <2>4, <3>3, <4>1 DEF Once
      <4> QED BY <2>4, <4>2
    <3>4. IsList(q) /\ q \in Seq(ToSet(q))
      BY <2>2 DEF Once, IsList
    <3>5. f[n + 1] = q \o <<x>>
      <4>1. f[n + 1] = Append(q, x)
        BY <2>3, <2>6 DEF TakeNext
      <4> HIDE DEF q, x
      <4>2. Append(q, x) = q \o <<x>>
        <5> DEFINE S == ToSet(q) \union {x}
        <5>1. q \in Seq(S) /\ x \in S
          BY <3>4
        <5> HIDE DEF S
        <5> QED BY <5>1
      <4> QED BY <4>1, <4>2
    <3>6. ToSet(q \o <<x>>) = ToSet(q) \union {x}
      BY <3>1, <3>2, <3>4, Single, Concatenated
    <3>7. Once(q \o <<x>>)
      BY <2>2, <3>2, <3>3, OnceJoined
    <3>8. Of(q \o <<x>>, n + 1)
      BY <2>1, <2>2, <2>4, <3>6
    <3> HIDE DEF Of, q, x
    <3> QED BY <3>5, <3>7, <3>8
  <2> QED BY <2>5, <2>6
<1>7. T = Nat
  <2>1. T \in SUBSET Nat
    OBVIOUS
  <2> HIDE DEF T
  <2> QED BY <1>5, <1>6, <2>1, SetInduction
<1>8. Once(f[Len(s)])
  <2>1. Len(s) \in T
    BY <1>1, <1>7
  <2> HIDE DEF Of
  <2> QED BY <1>1, <2>1
<1> QED BY <1>3, <1>8

\* An instruction that shows what it sets or pays: a limit and a price are
\* budget instructions, a transfer is the owner's.
Shown(x) ==
    /\ IsIx(x) /\ x.op # "tip"
    /\ x.op \in {"limit", "price"} => IsBudget(x)
    /\ x.op = "transfer" =>
         /\ ~IsBudget(x) /\ x.program = Key("system") /\ Owner \in x.signs
         /\ \E to : x.uses = <<Owner, to>>

LEMMA DecompiledOnce ==
    ASSUME NEW tx, Once(tx.ixs), \A x \in ToSet(tx.ixs) : Shown(x)
    PROVE  /\ Once(Decompiled(tx)) /\ DOMAIN Decompiled(tx) = DOMAIN tx.ixs
           /\ \A i \in DOMAIN tx.ixs :
                /\ Shown(Decompiled(tx)[i])
                /\ FeeOf(Decompiled(tx)[i]) = FeeOf(tx.ixs[i])
                /\ Decompiled(tx)[i].n = tx.ixs[i].n
<1> DEFINE d == Decompiled(tx)
<1>1. IsList(tx.ixs) /\ Owner \in SignersOf(tx.ixs)
  BY DEF Once, SignersOf
<1>2. /\ IsList(d) /\ DOMAIN d = DOMAIN tx.ixs
      /\ \A i \in DOMAIN tx.ixs :
            /\ d[i].signs = ToSet(tx.ixs[i].uses) \intersect SignersOf(tx.ixs)
            /\ d[i].program = tx.ixs[i].program /\ d[i].uses = tx.ixs[i].uses
  BY <1>1, DecompiledIs
<1>3. \A i \in DOMAIN tx.ixs : IsIx(d[i]) /\ IsIx(tx.ixs[i]) /\ tx.ixs[i] \in ToSet(tx.ixs)
  BY <1>1, <1>2, ListIs
<1>4. \A i \in DOMAIN tx.ixs : d[i] = [tx.ixs[i] EXCEPT !.signs = d[i].signs]
  BY <1>2 DEF Decompiled
<1> HIDE DEF d
<1>5. \A i \in DOMAIN tx.ixs : d[i].op = tx.ixs[i].op /\ d[i].n = tx.ixs[i].n
  BY <1>3, <1>4 DEF IsIx, Fields
<1>6. \A i \in DOMAIN tx.ixs : FeeOf(d[i]) = FeeOf(tx.ixs[i])
  BY <1>2, <1>5 DEF FeeOf
<1>7. ASSUME NEW i \in DOMAIN tx.ixs PROVE Shown(d[i])
  <2>1. Shown(tx.ixs[i]) /\ IsIx(d[i]) /\ d[i].op = tx.ixs[i].op
        /\ d[i].program = tx.ixs[i].program /\ d[i].uses = tx.ixs[i].uses
        /\ d[i].signs = ToSet(tx.ixs[i].uses) \intersect SignersOf(tx.ixs)
    BY <1>2, <1>3, <1>5
  <2>2. ASSUME d[i].op = "transfer" PROVE Owner \in d[i].signs
    <3>1. PICK to : tx.ixs[i].uses = <<Owner, to>>
      BY <2>1, <2>2 DEF Shown
    <3>2. Owner \in ToSet(tx.ixs[i].uses)
      BY <3>1 DEF ToSet
    <3> QED BY <1>1, <2>1, <3>2
  <2> QED BY <2>1, <2>2 DEF Shown, IsBudget
<1>8. Once(d)
  BY <1>2, <1>6 DEF Once
<1> QED BY <1>2, <1>5, <1>6, <1>7, <1>8 DEF d

\* The mark changes neither what is paid nor what is seen as a tip.
LEMMA MarkedFee ==
    ASSUME NEW x, Shown(x), NEW on, NEW fees
    PROVE  LET y == IF on THEN DontfrontOn(x) ELSE x IN
           FeeOf(y) = FeeOf(x) /\ (IsTip(x, fees) => IsTip(y, fees))
<1> DEFINE y == IF on THEN DontfrontOn(x) ELSE x
<1>1. IsIx(x)
  BY DEF Shown
<1>2. y = x \/ y = [x EXCEPT !.uses = Append(x.uses, Dontfront)]
  BY DEF DontfrontOn
<1> HIDE DEF y
<1>3. CASE y = x
  BY <1>3 DEF y
<1>4. CASE y = [x EXCEPT !.uses = Append(x.uses, Dontfront)]
  <2>1. /\ y.op = x.op /\ y.uses = Append(x.uses, Dontfront) /\ y.program = x.program
        /\ y.signs = x.signs /\ y.n = x.n
    BY <1>1, <1>4 DEF IsIx, Fields
  <2>2. CASE x.op # "transfer"
    BY <2>1, <2>2 DEF FeeOf, IsTip, y
  <2>3. CASE x.op = "transfer"
    <3>1. PICK to : x.uses = <<Owner, to>>
      BY <2>3 DEF Shown
    <3>2. y.uses[1] = x.uses[1] /\ y.uses[2] = x.uses[2]
      BY <2>1, <3>1
    <3> QED BY <2>1, <2>3, <3>2 DEF FeeOf, IsTip, y
  <2> QED BY <2>2, <2>3
<1> QED BY <1>2, <1>3, <1>4

\* A rebuilt transaction takes the limit and the price that it merges, and a
\* tip only if none like it is there.
LEMMA RebuiltOnce ==
    ASSUME NEW ixs, Once(ixs), \A x \in ToSet(ixs) : Shown(x), NEW fees, NEW on,
           fees.tip > 0 => \A x \in ToSet(ixs) : FeeOf(x) = "tip" => x.n = fees.tip
    PROVE  Once(Rebuilt(ixs, fees, on))
<1> DEFINE limit == Max({AmountOf("limit", ixs), fees.limit})
           price == Max({AmountOf("price", ixs), fees.price})
           P == {i \in DOMAIN ixs : IsBudget(ixs[i]) /\ ixs[i].op \notin {"limit", "price"}}
           R == {i \in DOMAIN ixs : ~IsBudget(ixs[i])}
           rest == Taken(ixs, R)
           core == Protected(rest, on)
           a == If(limit > 0, LimitOf(limit))
           b == If(price > 0, PriceOf(price))
           c == Taken(ixs, P)
           d == TipToAdd(core, fees)
<1>1. Rebuilt(ixs, fees, on) = a \o b \o c \o core \o d
  BY DEF Rebuilt
<1>2. IsList(ixs) /\ \A i \in DOMAIN ixs : Shown(ixs[i])
  BY DEF Once, ToSet
<1>3. Once(a) /\ \A fee : Has(a, fee) => fee = "limit"
  BY FeesAre, OnceIf
<1>4. Once(b) /\ \A fee : Has(b, fee) => fee = "price"
  BY FeesAre, OnceIf
<1>5. Once(c) /\ \A fee \in FeeKinds : ~Has(c, fee)
  <2>1. Once(c) /\ ToSet(c) = {ixs[i] : i \in {k \in DOMAIN ixs : k \in P}}
    BY <1>2, TakenOnce, TakenList
  <2>2. \A i \in P : FeeOf(ixs[i]) \notin FeeKinds
    BY <1>2 DEF Shown, FeeOf, FeeKinds
  <2> HIDE DEF c, P
  <2> QED BY <2>1, <2>2 DEF Has
<1>6. Once(rest) /\ ToSet(rest) = {ixs[i] : i \in {k \in DOMAIN ixs : k \in R}}
  BY <1>2, TakenOnce, TakenList
<1>7. \A x \in ToSet(rest) : Shown(x) /\ FeeOf(x) \notin {"limit", "price"} /\ x \in ToSet(ixs)
  <2>1. \A i \in R : Shown(ixs[i]) /\ FeeOf(ixs[i]) \notin {"limit", "price"}
    BY <1>2 DEF Shown, FeeOf
  <2>2. \A i \in DOMAIN ixs : ixs[i] \in ToSet(ixs)
    BY DEF ToSet
  <2> HIDE DEF rest
  <2> QED BY <1>6, <2>1, <2>2
<1> HIDE DEF a, b, c, rest, limit, price, P, R
<1>8. /\ IsList(core) /\ DOMAIN core = DOMAIN rest
      /\ \A i \in DOMAIN rest : core[i] = IF on THEN DontfrontOn(rest[i]) ELSE rest[i]
  BY <1>6, ProtectedSame DEF Once
<1>9. \A i \in DOMAIN rest : rest[i] \in ToSet(rest)
  BY DEF ToSet
<1> HIDE DEF core
<1>10. \A i \in DOMAIN rest :
        FeeOf(core[i]) = FeeOf(rest[i]) /\ (IsTip(rest[i], fees) => IsTip(core[i], fees))
  BY <1>7, <1>8, <1>9, MarkedFee
<1>11. Once(core) /\ ~Has(core, "limit") /\ ~Has(core, "price")
  <2>1. Once(core)
    BY <1>6, <1>8, <1>10 DEF Once
  <2>2. \A i \in DOMAIN core : FeeOf(core[i]) \notin {"limit", "price"}
    BY <1>7, <1>8, <1>9, <1>10
  <2> QED BY <2>1, <2>2 DEF Has, ToSet
<1>12. Once(d) /\ \A fee : Has(d, fee) => fee = "tip" /\ ~Has(core, "tip")
  <2> DEFINE condition == fees.tip > 0 /\ ~\E i \in DOMAIN core : IsTip(core[i], fees)
  <2>1. d = If(condition, Transfer(TipAccount, fees.tip))
    BY DEF TipToAdd
  <2>2. ASSUME condition, Has(core, "tip") PROVE FALSE
    <3>1. PICK i \in DOMAIN rest : FeeOf(rest[i]) = "tip"
      BY <1>8, <1>10, <2>2 DEF Has, ToSet
    <3>2. Shown(rest[i]) /\ rest[i] \in ToSet(ixs)
      BY <1>7, <1>9
    <3>3. rest[i].op = "transfer" /\ rest[i].uses[2] = TipAccount
      BY <3>1, <3>2 DEF Shown, FeeOf
    <3>4. rest[i].n = fees.tip
      BY <2>2, <3>1, <3>2
    <3>5. rest[i].program = Key("system") /\ Owner \in rest[i].signs /\ rest[i].uses[1] = Owner
      BY <3>2, <3>3 DEF Shown
    <3>6. IsTip(rest[i], fees)
      BY <2>2, <3>3, <3>4, <3>5 DEF IsTip
    <3> QED BY <1>8, <1>10, <2>2, <3>6
  <2> HIDE DEF condition, d
  <2>3. Once(d) /\ \A fee : Has(d, fee) <=> condition /\ fee = "tip"
    BY <2>1, FeesAre, OnceIf
  <2> QED BY <2>2, <2>3
<1> HIDE DEF d
<1>13. Once(a \o b) /\ \A fee : Has(a \o b, fee) <=> Has(a, fee) \/ Has(b, fee)
  BY <1>3, <1>4, OnceJoined
<1>14. Once(a \o b \o c) /\ \A fee : Has(a \o b \o c, fee) <=> Has(a \o b, fee) \/ Has(c, fee)
  BY <1>5, <1>13, OnceJoined
<1>15. /\ Once(a \o b \o c \o core)
       /\ \A fee : Has(a \o b \o c \o core, fee) <=> Has(a \o b \o c, fee) \/ Has(core, fee)
  <2>1. \A fee \in FeeKinds : ~(Has(a \o b \o c, fee) /\ Has(core, fee))
    BY <1>3, <1>4, <1>5, <1>11, <1>13, <1>14
  <2> QED BY <1>11, <1>14, <2>1, OnceJoined
<1>16. Once(a \o b \o c \o core \o d)
  <2>1. \A fee \in FeeKinds : ~(Has(a \o b \o c \o core, fee) /\ Has(d, fee))
    BY <1>3, <1>4, <1>5, <1>12, <1>13, <1>14, <1>15 DEF FeeKinds
  <2> QED BY <1>12, <1>15, <2>1, OnceJoined
<1> QED BY <1>1, <1>16

\* What the service returns.
LEMMA ServiceOnce ==
    ASSUME NEW s
    PROVE  /\ Once(ServiceIxs(s)) /\ \A x \in ToSet(ServiceIxs(s)) : Shown(x)
           /\ \A x \in ToSet(ServiceIxs(s)) : FeeOf(x) = "tip" => s.tip > 0 /\ x.n = s.tip
<1> DEFINE x == Instr("service", "bags", IF s.foreign THEN {Owner, Mint} ELSE {Owner},
                      <<Owner, Mint>> \o Own(s.name, s.accounts), 60)
           y == Transfer(Key("bags-fees"), s.pays)
           z == Transfer(TipAccount, s.tip)
           h == Budget("heap", 0, 5)
           a == If(s.limit > 0, LimitOf(s.limit))
           b == If(s.price > 0, PriceOf(s.price))
           c == If(s.heap, h)
           d == <<x, y>>
           e == If(s.tip > 0, z)
           Good(l) == \A i \in ToSet(l) : Shown(i) /\ (FeeOf(i) = "tip" => s.tip > 0 /\ i.n = s.tip)
<1>1. ServiceIxs(s) = a \o b \o c \o d \o e
  BY DEF ServiceIxs, ServiceCore
<1>2. Shown(x) /\ IsIx(x) /\ FeeOf(x) \notin FeeKinds
  BY DEF Shown, Instr, IsIx, Fields, FeeOf, FeeKinds
<1>3. \A to, k : LET t == Transfer(to, k) IN
        /\ Shown(t) /\ t.n = k /\ IsIx(t) /\ FeeOf(t) = IF to = TipAccount THEN "tip" ELSE "transfer"
  <2> TAKE to, k
  <2> DEFINE t == Transfer(to, k)
  <2>1. IsIx(t) /\ t.signs = {Owner}
    BY SettingsAre
  <2>2. t.op = "transfer" /\ t.program = Key("system") /\ t.uses = <<Owner, to>> /\ t.n = k
    BY DEF Transfer, Instr
  <2>3. Key("system") # Key("budget") /\ t.uses[2] = to
    BY <2>2 DEF Key
  <2> HIDE DEF t
  <2>4. Shown(t) /\ FeeOf(t) = IF to = TipAccount THEN "tip" ELSE "transfer"
    BY <2>1, <2>2, <2>3 DEF Shown, IsBudget, FeeOf
  <2> QED BY <2>1, <2>2, <2>4 DEF t
<1>4. \A op, k, data : op # "tip" /\ op # "transfer" =>
        Shown(Budget(op, k, data)) /\ FeeOf(Budget(op, k, data)) = op
  <2> SUFFICES ASSUME NEW op, NEW k, NEW data, op # "tip", op # "transfer"
               PROVE  Shown(Budget(op, k, data)) /\ FeeOf(Budget(op, k, data)) = op
    OBVIOUS
  <2>1. IsIx(Budget(op, k, data))
    BY SettingsAre
  <2>2. Budget(op, k, data).op = op /\ Budget(op, k, data).program = Key("budget")
    BY DEF Budget, Instr
  <2> QED BY <2>1, <2>2 DEF Shown, IsBudget, FeeOf
<1>5. /\ Shown(h) /\ FeeOf(h) = "heap" /\ IsIx(h)
      /\ Shown(LimitOf(s.limit)) /\ FeeOf(LimitOf(s.limit)) = "limit"
      /\ Shown(PriceOf(s.price)) /\ FeeOf(PriceOf(s.price)) = "price"
  BY <1>4, SettingsAre DEF LimitOf, PriceOf
<1>6. /\ Shown(y) /\ IsIx(y) /\ FeeOf(y) = "transfer"
      /\ Shown(z) /\ IsIx(z) /\ FeeOf(z) = "tip" /\ z.n = s.tip
  <2>1. Key("bags-fees") # TipAccount
    BY DEF Key, TipAccount
  <2> QED BY <1>3, <2>1
<1> HIDE DEF x, y, z, h
<1>7. /\ ToSet(a) \subseteq {LimitOf(s.limit)} /\ ToSet(b) \subseteq {PriceOf(s.price)}
      /\ ToSet(c) \subseteq {h} /\ ToSet(d) = {x, y}
      /\ ToSet(e) = IF s.tip > 0 THEN {z} ELSE {}
  <2>1. ToSet(<<>>) = {} /\ ToSet(<<x, y>>) = {x, y} /\ \A i : ToSet(<<i>>) = {i}
    BY DEF ToSet
  <2> QED BY <2>1 DEF If
<1>8. Good(a) /\ Good(b) /\ Good(c) /\ Good(d) /\ Good(e)
  BY <1>2, <1>5, <1>6, <1>7 DEF FeeKinds
<1>9. Once(a) /\ \A fee : Has(a, fee) => fee = "limit"
  BY FeesAre, OnceIf
<1>10. Once(b) /\ \A fee : Has(b, fee) => fee = "price"
  BY FeesAre, OnceIf
<1>11. Once(c) /\ \A fee \in FeeKinds : ~Has(c, fee)
  BY <1>5, OnceIf DEF FeeKinds
<1>12. Once(d) /\ \A fee \in FeeKinds : ~Has(d, fee)
  <2>1. d = <<x, y>> /\ d \in Seq({x, y}) /\ DOMAIN d = {1, 2} /\ d[1] = x /\ d[2] = y
    BY DEF d
  <2>2. FeeOf(d[1]) \notin FeeKinds /\ FeeOf(d[2]) \notin FeeKinds
    BY <1>2, <1>6, <2>1 DEF FeeKinds
  <2> HIDE DEF d
  <2>3. \A i \in DOMAIN d : FeeOf(d[i]) \notin FeeKinds
    BY <2>1, <2>2
  <2>4. IsList(d)
    BY <1>2, <1>6, <1>7, <2>1 DEF IsList
  <2> QED BY <2>3, <2>4 DEF Once, Has, ToSet
<1>13. Once(e) /\ \A fee : Has(e, fee) => fee = "tip"
  BY <1>6, OnceIf
<1> HIDE DEF a, b, c, d, e
<1>14. Once(a \o b) /\ \A fee : Has(a \o b, fee) <=> Has(a, fee) \/ Has(b, fee)
  BY <1>9, <1>10, OnceJoined
<1>15. Once(a \o b \o c) /\ \A fee : Has(a \o b \o c, fee) <=> Has(a \o b, fee) \/ Has(c, fee)
  BY <1>11, <1>14, OnceJoined
<1>16. /\ Once(a \o b \o c \o d)
       /\ \A fee : Has(a \o b \o c \o d, fee) <=> Has(a \o b \o c, fee) \/ Has(d, fee)
  BY <1>12, <1>15, OnceJoined
<1>17. Once(a \o b \o c \o d \o e)
  <2>1. \A fee \in FeeKinds : ~(Has(a \o b \o c \o d, fee) /\ Has(e, fee))
    BY <1>9, <1>10, <1>11, <1>12, <1>13, <1>14, <1>15, <1>16
  <2> QED BY <1>13, <1>16, <2>1, OnceJoined
<1>18. Good(a \o b \o c \o d \o e)
  <2>1. ASSUME NEW l, NEW m, Once(l), Once(m), Good(l), Good(m) PROVE Good(l \o m)
    BY <2>1, Concatenated DEF Once
  <2> HIDE DEF Good
  <2>2. Good(a \o b)
    BY <1>8, <1>9, <1>10, <2>1
  <2>3. Good(a \o b \o c)
    BY <1>8, <1>11, <1>14, <2>1, <2>2
  <2>4. Good(a \o b \o c \o d)
    BY <1>8, <1>12, <1>15, <2>1, <2>3
  <2> QED BY <1>8, <1>13, <1>16, <2>1, <2>4
<1> QED BY <1>1, <1>17, <1>18

LEMMA EnsuredOnce ==
    ASSUME NEW r \in Requests, NEW s, r.fees.tip > 0 => s.tip \in {0, r.fees.tip}
    PROVE  Once(Ensured(r, s).ixs)
<1> DEFINE fees == IF s.bundled /\ r.secure THEN [r.fees EXCEPT !.tip = 0] ELSE r.fees
           tx == Ensured(r, s)
<1>1. CASE tx.ixs = ServiceIxs(s)
  BY <1>1, ServiceOnce
<1>2. ASSUME NEW given, given.ixs = ServiceIxs(s),
             tx.ixs = Rebuilt(Decompiled(given), fees, r.dontfront)
      PROVE  Once(tx.ixs)
  <2> DEFINE d == Decompiled(given)
  <2>1. /\ Once(given.ixs) /\ \A x \in ToSet(given.ixs) : Shown(x)
        /\ \A x \in ToSet(given.ixs) : FeeOf(x) = "tip" => s.tip > 0 /\ x.n = s.tip
    BY <1>2, ServiceOnce
  <2>2. /\ Once(d) /\ DOMAIN d = DOMAIN given.ixs
        /\ \A i \in DOMAIN d : /\ Shown(d[i]) /\ FeeOf(d[i]) = FeeOf(given.ixs[i])
                               /\ d[i].n = given.ixs[i].n
    BY <2>1, DecompiledOnce
  <2>3. fees.tip > 0 => r.fees.tip > 0 /\ fees.tip = r.fees.tip
    BY TipOf
  <2> HIDE DEF fees, d
  <2>4. \A i \in DOMAIN d : given.ixs[i] \in ToSet(given.ixs)
    BY <2>2 DEF ToSet
  <2>5. \A i \in DOMAIN d : FeeOf(d[i]) = "tip" => s.tip > 0 /\ d[i].n = s.tip
    BY <2>1, <2>2, <2>4
  <2>6. \A x \in ToSet(d) : Shown(x) /\ (FeeOf(x) = "tip" => s.tip > 0 /\ x.n = s.tip)
    BY <2>2, <2>5 DEF ToSet
  <2>7. fees.tip > 0 => \A x \in ToSet(d) : FeeOf(x) = "tip" => x.n = fees.tip
    BY <2>3, <2>6
  <2>8. Once(Rebuilt(d, fees, r.dontfront))
    BY <2>2, <2>6, <2>7, RebuiltOnce
  <2> QED BY <1>2, <2>8 DEF d, fees
<1> QED BY <1>1, <1>2, EnsuredIs

-----------------------------------------------------------------------------
(* The steps of Bags, and all of them                                      *)

LEMMA BagsEnsureFees ==
    ASSUME SignInv, FeesInv, BagsEnsure
    PROVE  FeesInv'
<1> DEFINE s == order.service[Len(txs) + 1]
           tx == Ensured(order, s)
<1>1. /\ order \in Requests /\ order.kind = "bags" /\ Sources
      /\ Len(txs) < Len(order.service) /\ Adds(tx, "start")
  BY DEF SignInv, BagsEnsure, FeesInv
<1>2. Len(txs) \in Nat /\ Len(order.service) \in Nat
  <2>1. txs \in Seq(ToSet(txs))
    BY <1>1 DEF Sources
  <2> HIDE DEF tx
  <2> QED BY <1>1, <2>1, AssembleAssumption
<1>3. order.fees.tip > 0 => s.tip \in {0, order.fees.tip}
  <2>1. Len(txs) + 1 \in 1..Len(order.service)
    BY <1>1, <1>2
  <2> QED BY <1>1, <2>1, AssembleAssumption
<1> HIDE DEF s
<1>4. Once(tx.ixs)
  BY <1>1, <1>3, EnsuredOnce
<1>5. tx.error = "none"
  BY EnsuredIs
<1> HIDE DEF tx
<1>6. Sources' /\ order' = order
  BY <1>1, <1>4, <1>5, AddedOnce
<1> QED BY <1>1, <1>6 DEF FeesInv, IsBundle

LEMMA BagsDoneFees ==
    ASSUME SignInv, FeesInv, BagsDone
    PROVE  FeesInv'
<1>1. /\ order.kind = "bags" /\ progress' = "done"
      /\ order' = order /\ topUp' = topUp /\ txs' = txs
  BY DEF BagsDone
<1>2. Sources'
  BY <1>1, SourcesKept DEF FeesInv
<1> QED BY <1>1, <1>2 DEF FeesInv, IsBundle

LEMMA FeesStep ==
    ASSUME SignInv, FeesInv, [AssembleNext]_assembleVars
    PROVE  FeesInv'
<1>1. CASE BonkStart
  BY <1>1, BonkStartFees
<1>2. CASE Split
  BY <1>2, SplitFees
<1>3. CASE CompileGroups
  BY <1>3, CompileGroupsFees
<1>4. CASE CompileTopUp
  BY <1>4, CompileTopUpFees
<1>5. CASE Combine
  BY <1>5, CombineFees
<1>6. CASE CombineBuy
  BY <1>6, CombineBuyFees
<1>7. CASE TradeStart
  BY <1>7, TradeStartFees
<1>8. CASE CompileTrade
  BY <1>8, CompileTradeFees
<1>9. CASE PumpStart
  BY <1>9, PumpStartFees
<1>10. CASE PumpCompileLaunch
  BY <1>10, PumpCompileLaunchFees
<1>11. CASE PumpCompileSetup
  BY <1>11, PumpCompileSetupFees
<1>12. CASE PumpCompileTip
  BY <1>12, PumpCompileTipFees
<1>13. CASE BagsEnsure
  BY <1>13, BagsEnsureFees
<1>14. CASE BagsDone
  BY <1>14, BagsDoneFees
<1>15. CASE ReadFails
  BY <1>15, RefusedFees DEF ReadFails
<1>16. CASE UNCHANGED assembleVars
  <2>1. Left' = Left
    BY <1>16 DEF assembleVars, Left
  <2> QED BY <1>16, <2>1 DEF assembleVars, FeesInv, Sources, IsBundle, BundleInv, TippedLast
<1> QED BY <1>1, <1>2, <1>3, <1>4, <1>5, <1>6, <1>7, <1>8, <1>9, <1>10, <1>11, <1>12, <1>13,
           <1>14, <1>15, <1>16 DEF AssembleNext

(* FeesOnce: no transaction that is delivered sets its limit or its price  *)
(* twice or pays two tips, whatever was split, combined, taken apart or    *)
(* rebuilt, and a bundle that is tipped once is tipped in its last         *)
(* transaction.  bonk_bundle_tx_config_for_index and LaunchFees leave tips *)
(* out, filter_atomic_bonk_instructions takes them away,                   *)
(* is_inline_tip_instruction finds the one that is there.  bonk_native.rs  *)
(* 3450, 4299, bags_native.rs 1695, 1953.                                  *)
THEOREM FeesOnceHolds == AssembleSpec => []FeesOnce
<1> DEFINE Inv == SignInv /\ FeesInv
<1>1. AssembleInit => Inv
  BY SignInit, FeesInit
<1>2. Inv /\ [AssembleNext]_assembleVars => Inv'
  BY SignStep, FeesStep
<1>3. Inv => FeesOnce
  <2> SUFFICES ASSUME FeesInv, Delivered PROVE FeesOnce
    BY DEF FeesOnce
  <2>1. ASSUME NEW i \in DOMAIN txs PROVE Once(txs[i].ixs)
    BY DEF FeesInv, Sources, ToSet
  <2>2. IsBundle => TippedLast
    BY DEF FeesInv, BundleInv, Delivered
  <2> QED BY <2>1, <2>2 DEF FeesOnce, Once, FeeKinds, IsBundle, TippedLast
<1> QED BY <1>1, <1>2, <1>3, PTL DEF AssembleSpec

-----------------------------------------------------------------------------
(* Lists taken from joined lists                                           *)

\* The recursion of Taken, and its end.
LEMMA TakingIs ==
    ASSUME NEW S, NEW s \in Seq(S), NEW places
    PROVE  \E f : /\ Taken(s, places) = f[Len(s)] /\ f[0] = <<>>
                  /\ \A n \in 1..Len(s) : f[n] = TakeNext(places, s, f[n - 1], n)
                  /\ \A n \in 0..Len(s) : f[n] \in Seq(S)
<1> DEFINE f == CHOOSE f : IsTaking(f, s, places)
           T == {n \in Nat : n <= Len(s) => f[n] \in Seq(S)}
<1>1. IsTaking(f, s, places)
  BY TakingExists, Zenon
<1>2. Taken(s, places) = f[Len(s)]
  BY Zenon DEF Taken, IsTaking, TakeNext
<1> HIDE DEF f
<1>3. Len(s) \in Nat
  OBVIOUS
<1>4. f[0] = <<>> /\ \A n \in 1..Len(s) : f[n] = TakeNext(places, s, f[n - 1], n)
  BY <1>1, <1>3 DEF IsTaking
<1>5. 0 \in T
  <2>1. f[0] \in Seq(S)
    BY <1>4
  <2> QED BY <2>1
<1>6. ASSUME NEW n \in T PROVE n + 1 \in T
  <2> SUFFICES ASSUME n + 1 <= Len(s) PROVE f[n + 1] \in Seq(S)
    OBVIOUS
  <2>1. n \in Nat /\ n + 1 \in 1..Len(s) /\ (n + 1) - 1 = n /\ n <= Len(s)
    BY <1>3
  <2>3. f[n] \in Seq(S)
    BY <2>1
  <2>2. f[n + 1] = TakeNext(places, s, f[n], n + 1) /\ s[n + 1] \in S
    BY <1>4, <2>1
  <2> QED BY <2>2, <2>3 DEF TakeNext
<1>7. T = Nat
  <2>1. T \in SUBSET Nat
    OBVIOUS
  <2> HIDE DEF T
  <2> QED BY <1>5, <1>6, <2>1, SetInduction
<1>8. \A n \in 0..Len(s) : f[n] \in Seq(S)
  BY <1>3, <1>7
<1> QED BY <1>2, <1>4, <1>8

\* What the recursion says of any function is what it says of that one.
LEMMA TakingOnly ==
    ASSUME NEW S, NEW s \in Seq(S), NEW places, NEW g, g[0] = <<>>,
           \A n \in 1..Len(s) : g[n] = TakeNext(places, s, g[n - 1], n)
    PROVE  Taken(s, places) = g[Len(s)]
<1>1. PICK f : /\ Taken(s, places) = f[Len(s)] /\ f[0] = <<>>
               /\ \A n \in 1..Len(s) : f[n] = TakeNext(places, s, f[n - 1], n)
  BY TakingIs
<1> DEFINE T == {n \in Nat : n <= Len(s) => f[n] = g[n]}
<1>2. Len(s) \in Nat
  OBVIOUS
<1>3. 0 \in T
  BY <1>1
<1>4. ASSUME NEW n \in T PROVE n + 1 \in T
  <2> SUFFICES ASSUME n + 1 <= Len(s) PROVE f[n + 1] = g[n + 1]
    OBVIOUS
  <2>1. n \in Nat /\ n + 1 \in 1..Len(s) /\ (n + 1) - 1 = n /\ n <= Len(s)
    BY <1>2
  <2>3. f[n] = g[n]
    BY <2>1
  <2>2. f[n + 1] = TakeNext(places, s, f[n], n + 1) /\ g[n + 1] = TakeNext(places, s, g[n], n + 1)
    BY <1>1, <2>1
  <2> QED BY <2>2, <2>3
<1>5. T = Nat
  <2>1. T \in SUBSET Nat
    OBVIOUS
  <2> HIDE DEF T
  <2> QED BY <1>3, <1>4, <2>1, SetInduction
<1>6. f[Len(s)] = g[Len(s)]
  BY <1>2, <1>5
<1> QED BY <1>1, <1>6

\* One instruction more is looked at.
LEMMA TakenAppend ==
    ASSUME NEW S, NEW s \in Seq(S), NEW x \in S, NEW places
    PROVE  Taken(Append(s, x), places) =
             IF Len(s) + 1 \in places THEN Append(Taken(s, places), x) ELSE Taken(s, places)
<1> DEFINE n == Len(s)
           u == Append(s, x)
<1>1. PICK f : /\ Taken(s, places) = f[n] /\ f[0] = <<>>
               /\ \A k \in 1..n : f[k] = TakeNext(places, s, f[k - 1], k)
  BY TakingIs
<1>2. n \in Nat /\ u \in Seq(S) /\ Len(u) = n + 1 /\ u[n + 1] = x /\ \A k \in 1..n : u[k] = s[k]
  OBVIOUS
<1> HIDE DEF n, u
<1> DEFINE last == IF n + 1 \in places THEN Append(f[n], x) ELSE f[n]
           g == [k \in 0..(n + 1) |-> IF k <= n THEN f[k] ELSE last]
<1>3. g[n + 1] = last /\ \A k \in 0..n : g[k] = f[k]
  BY <1>2
<1> HIDE DEF g
<1>4. ASSUME NEW k \in 1..(n + 1) PROVE g[k] = TakeNext(places, u, g[k - 1], k)
  <2>1. k - 1 \in 0..n /\ g[k - 1] = f[k - 1]
    BY <1>2, <1>3
  <2>2. CASE k \in 1..n
    <3>1. g[k] = f[k] /\ u[k] = s[k]
      BY <1>2, <1>3, <2>2
    <3> QED BY <1>1, <2>1, <2>2, <3>1 DEF TakeNext
  <2>3. CASE k = n + 1
    BY <1>2, <1>3, <2>1, <2>3 DEF TakeNext
  <2> QED BY <1>2, <2>2, <2>3
<1>5. g[0] = <<>>
  BY <1>1, <1>2, <1>3
<1> HIDE DEF last
<1>6. Taken(u, places) = g[Len(u)]
  BY <1>2, <1>4, <1>5, TakingOnly
<1> QED BY <1>1, <1>2, <1>3, <1>6 DEF last, n, u

\* Only places in the list matter.
LEMMA TakenPlaces ==
    ASSUME NEW S, NEW s \in Seq(S), NEW P, NEW Q, \A i \in 1..Len(s) : i \in P <=> i \in Q
    PROVE  Taken(s, P) = Taken(s, Q)
<1>1. PICK f : /\ Taken(s, P) = f[Len(s)] /\ f[0] = <<>>
               /\ \A n \in 1..Len(s) : f[n] = TakeNext(P, s, f[n - 1], n)
  BY TakingIs
<1>2. \A n \in 1..Len(s) : f[n] = TakeNext(Q, s, f[n - 1], n)
  BY <1>1 DEF TakeNext
<1>3. Taken(s, Q) = f[Len(s)]
  BY <1>1, <1>2, TakingOnly
<1> QED BY <1>1, <1>3

LEMMA TakenNothing ==
    ASSUME NEW S, NEW e \in Seq(S), NEW places
    PROVE  Len(e) = 0 => Taken(e, places) = <<>>
<1>1. PICK f : Taken(e, places) = f[Len(e)] /\ f[0] = <<>>
  BY TakingIs, Zenon
<1> QED BY <1>1

\* A list that is not empty is a shorter one and an instruction.
LEMMA LastOf ==
    ASSUME NEW S, NEW n \in Nat, NEW s \in Seq(S), Len(s) = n + 1
    PROVE  \E t \in Seq(S), x \in S : s = Append(t, x) /\ Len(t) = n
<1>1. s # <<>>
  OBVIOUS
<1>2. PICK t \in Seq(S), x \in S : s = Append(t, x)
  BY <1>1, SequenceEmptyOrAppend
<1>3. Len(t) = n
  BY <1>2
<1> QED BY <1>2, <1>3

\* t is what is found in u at the places.
Found(u, at, t) ==
    at \in Seq(1..Len(u)) /\ Len(t) = Len(at) /\ \A k \in 1..Len(at) : t[k] = u[at[k]]

LEMMA FoundMore ==
    ASSUME NEW S, NEW u \in Seq(S), NEW x \in S, NEW at, NEW t \in Seq(S), Found(u, at, t)
    PROVE  /\ Found(Append(u, x), at, t)
           /\ Found(Append(u, x), Append(at, Len(u) + 1), Append(t, x))
<1> DEFINE n == Len(u)
           v == Append(u, x)
           m == Len(at)
           more == Append(at, n + 1)
<1>1. n \in Nat /\ at \in Seq(1..n) /\ m \in Nat /\ \A k \in 1..m : at[k] \in 1..n
  BY DEF Found
<1>2. Len(v) = n + 1 /\ v[n + 1] = x /\ \A i \in 1..n : v[i] = u[i]
  OBVIOUS
<1>3. at \in Seq(1..(n + 1))
  <2>1. 1..n \subseteq 1..(n + 1)
    BY <1>1
  <2> HIDE DEF n
  <2> QED BY <1>1, <2>1, SeqMonotonic
<1>4. n + 1 \in 1..(n + 1)
  BY <1>1
<1>5. /\ more \in Seq(1..(n + 1)) /\ Len(more) = m + 1 /\ more[m + 1] = n + 1
      /\ \A k \in 1..m : more[k] = at[k]
  <2> HIDE DEF n
  <2> QED BY <1>3, <1>4, AppendProperties
<1>6. Len(t) = m /\ \A k \in 1..m : t[k] = u[at[k]]
  BY DEF Found
<1>7. /\ Len(Append(t, x)) = m + 1 /\ Append(t, x)[m + 1] = x
      /\ \A k \in 1..m : Append(t, x)[k] = t[k]
  BY <1>6, AppendProperties
<1> HIDE DEF n, v, more, m
<1>8. \A k \in 1..m : t[k] = v[at[k]]
  BY <1>1, <1>2, <1>6
<1>9. Found(v, at, t)
  BY <1>2, <1>3, <1>6, <1>8 DEF Found, m
<1>10. ASSUME NEW k \in 1..(m + 1) PROVE Append(t, x)[k] = v[more[k]]
  <2>1. CASE k \in 1..m
    BY <1>5, <1>7, <1>8, <2>1
  <2>2. CASE k = m + 1
    BY <1>2, <1>5, <1>7, <2>2
  <2>3. m \in Nat
    BY <1>1
  <2>4. k \in 1..m \/ k = m + 1
    BY <2>3
  <2> QED BY <2>1, <2>2, <2>4
<1>11. Found(v, more, Append(t, x))
  BY <1>2, <1>5, <1>7, <1>10 DEF Found
<1> QED BY <1>9, <1>11 DEF v, more, n

Numbers(n) == [i \in 1..n |-> i]

LEMMA NumbersMore ==
    ASSUME NEW n \in Nat
    PROVE  /\ Numbers(n) \in Seq(Nat) /\ Len(Numbers(n)) = n
           /\ Numbers(n + 1) = Append(Numbers(n), n + 1)
BY DEF Numbers

\* What is taken from lists of one length is found at the same places in all.
LEMMA TakenAt ==
    ASSUME NEW S, NEW s \in Seq(S), NEW places
    PROVE  Found(s, Taken(Numbers(Len(s)), places), Taken(s, places))
<1> DEFINE Right(n) == \A u \in Seq(S) :
                         Len(u) = n => Found(u, Taken(Numbers(n), places), Taken(u, places))
           T == {n \in Nat : Right(n)}
<1>1. Right(0)
  <2> SUFFICES ASSUME NEW u \in Seq(S), Len(u) = 0
               PROVE  Found(u, Taken(Numbers(0), places), Taken(u, places))
    OBVIOUS
  <2>1. u = <<>> /\ Numbers(0) = <<>>
    BY DEF Numbers
  <2>2. Taken(u, places) = <<>> /\ Taken(Numbers(0), places) = <<>>
    <3>1. Numbers(0) \in Seq(Nat) /\ Len(Numbers(0)) = 0
      BY DEF Numbers
    <3> QED BY <3>1, TakenNothing
  <2>3. <<>> \in Seq(1..Len(u)) /\ Len(<<>>) = 0
    BY EmptySeq
  <2>4. Found(u, <<>>, <<>>)
    BY <2>3 DEF Found
  <2> QED BY <2>2, <2>4
<1>2. ASSUME NEW n \in Nat, Right(n) PROVE Right(n + 1)
  <2> SUFFICES ASSUME NEW v \in Seq(S), Len(v) = n + 1
               PROVE  Found(v, Taken(Numbers(n + 1), places), Taken(v, places))
    OBVIOUS
  <2>1. PICK u \in Seq(S), x \in S : v = Append(u, x) /\ Len(u) = n
    BY LastOf
  <2> DEFINE at == Taken(Numbers(n), places)
             t == Taken(u, places)
  <2>2. Found(u, at, t)
    BY <1>2, <2>1
  <2> HIDE DEF Right, T
  <2>3. t \in Seq(S)
    BY TakenSome
  <2>4. Taken(v, places) = IF n + 1 \in places THEN Append(t, x) ELSE t
    BY <2>1, TakenAppend
  <2>5. Taken(Numbers(n + 1), places) = IF n + 1 \in places THEN Append(at, n + 1) ELSE at
    <3> DEFINE I == Numbers(n)
               J == Numbers(n + 1)
               M == Nat
    <3>1. I \in Seq(M)
      BY NumbersMore
    <3>4. Len(I) = n /\ J = Append(I, n + 1)
      BY NumbersMore
    <3>2. n + 1 \in M
      OBVIOUS
    <3> HIDE DEF I, J, M
    <3>3. Taken(Append(I, n + 1), places) =
            IF Len(I) + 1 \in places THEN Append(Taken(I, places), n + 1) ELSE Taken(I, places)
      BY <3>1, <3>2, TakenAppend
    <3> QED BY <3>3, <3>4 DEF I, J
  <2> HIDE DEF at, t
  <2>6. Found(v, at, t) /\ Found(v, Append(at, n + 1), Append(t, x))
    BY <2>1, <2>2, <2>3, FoundMore
  <2> QED BY <2>4, <2>5, <2>6
<1> HIDE DEF Right
<1>3. T = Nat
  <2>1. T \in SUBSET Nat /\ 0 \in T /\ \A n \in T : n + 1 \in T
    BY <1>1, <1>2
  <2> HIDE DEF T
  <2> QED BY <2>1, SetInduction
<1>4. Right(Len(s))
  BY <1>3
<1> QED BY <1>4 DEF Right

LEMMA Together ==
    ASSUME NEW S, NEW u \in Seq(S), NEW v \in Seq(S), Len(u) = Len(v), NEW places
    PROVE  /\ Len(Taken(u, places)) = Len(Taken(v, places))
           /\ \A k \in 1..Len(Taken(u, places)) : \E i \in 1..Len(u) :
                i \in places /\ Taken(u, places)[k] = u[i] /\ Taken(v, places)[k] = v[i]
<1> DEFINE at == Taken(Numbers(Len(u)), places)
           t == Taken(u, places)
           w == Taken(v, places)
<1>1. Found(u, at, t) /\ Found(v, at, w)
  <2>1. Found(u, at, t)
    BY TakenAt
  <2>2. Found(v, Taken(Numbers(Len(v)), places), w)
    BY TakenAt
  <2> QED BY <2>1, <2>2
<1>2. \A x \in ToSet(at) : x \in places
  <2> DEFINE I == Numbers(Len(u))
  <2>1. I \in Seq(Nat) /\ DOMAIN I = 1..Len(u) /\ \A i \in 1..Len(u) : I[i] = i
    BY DEF Numbers
  <2> HIDE DEF I
  <2>2. ToSet(Taken(I, places)) = {I[i] : i \in {k \in DOMAIN I : k \in places}}
    BY <2>1, TakenSome
  <2> QED BY <2>1, <2>2 DEF I
<1> HIDE DEF at, t, w
<1>3. ASSUME NEW k \in 1..Len(t)
      PROVE  \E i \in 1..Len(u) : i \in places /\ t[k] = u[i] /\ w[k] = v[i]
  <2>1. at \in Seq(1..Len(u)) /\ k \in 1..Len(at) /\ t[k] = u[at[k]] /\ w[k] = v[at[k]]
    BY <1>1 DEF Found
  <2>2. at[k] \in 1..Len(u) /\ at[k] \in ToSet(at)
    BY <2>1 DEF ToSet
  <2> QED BY <1>2, <2>1, <2>2
<1>4. Len(t) = Len(w)
  BY <1>1 DEF Found
<1> QED BY <1>3, <1>4 DEF t, w

-----------------------------------------------------------------------------
(* The instructions of a list that are no fees                             *)

\* Induction over the lists that grow by one.
LEMMA ListInduction ==
    ASSUME NEW S, NEW G, <<>> \in G, \A s \in Seq(S), x \in S : s \in G => Append(s, x) \in G
    PROVE  \A s \in Seq(S) : s \in G
<1> DEFINE Right(n) == \A s \in Seq(S) : Len(s) = n => s \in G
           T == {n \in Nat : Right(n)}
<1>1. Right(0)
  OBVIOUS
<1>2. ASSUME NEW n \in Nat, Right(n) PROVE Right(n + 1)
  <2> SUFFICES ASSUME NEW s \in Seq(S), Len(s) = n + 1 PROVE s \in G
    OBVIOUS
  <2>1. PICK t \in Seq(S), x \in S : s = Append(t, x) /\ Len(t) = n
    BY LastOf
  <2> QED BY <1>2, <2>1
<1> HIDE DEF Right
<1>3. T = Nat
  <2>1. T \in SUBSET Nat /\ 0 \in T /\ \A n \in T : n + 1 \in T
    BY <1>1, <1>2
  <2> HIDE DEF T
  <2> QED BY <2>1, SetInduction
<1>4. ASSUME NEW s \in Seq(S) PROVE s \in G
  <2>1. Len(s) \in Nat
    OBVIOUS
  <2>2. Right(Len(s))
    BY <1>3, <2>1
  <2> QED BY <2>2 DEF Right
<1> QED BY <1>4

LEMMA JoinAppend ==
    ASSUME NEW S, NEW s \in Seq(S), NEW t \in Seq(S), NEW x \in S
    PROVE  s \o Append(t, x) = Append(s \o t, x) /\ s \o t \in Seq(S)
<1> DEFINE e == <<x>>
<1>1. e \in Seq(S) /\ s \o t \in Seq(S)
  OBVIOUS
<1>2. Append(t, x) = t \o e /\ Append(s \o t, x) = (s \o t) \o e
  BY <1>1, AppendIsConcat
<1> HIDE DEF e
<1>3. (s \o t) \o e = s \o (t \o e)
  BY <1>1, ConcatAssociative
<1> QED BY <1>1, <1>2, <1>3

LEMMA CoreNothing == Core(<<>>) = <<>>
<1> DEFINE e == <<>>
           P == {i \in DOMAIN e : IsCore(e[i])}
<1>1. e \in Seq({}) /\ Len(e) = 0
  BY EmptySeq
<1>2. Core(e) = Taken(e, P)
  BY DEF Core
<1> HIDE DEF e, P
<1>3. Core(e) = <<>>
  BY <1>1, <1>2, TakenNothing
<1> QED BY <1>3 DEF e

LEMMA CoreAppend ==
    ASSUME NEW S, NEW s \in Seq(S), NEW x \in S
    PROVE  Core(Append(s, x)) = IF IsCore(x) THEN Append(Core(s), x) ELSE Core(s)
<1> DEFINE u == Append(s, x)
           n == Len(s)
           P == {i \in DOMAIN s : IsCore(s[i])}
           Q == {i \in DOMAIN u : IsCore(u[i])}
<1>1. n \in Nat /\ DOMAIN s = 1..n /\ DOMAIN u = 1..(n + 1)
  OBVIOUS
<1>5. u[n + 1] = x /\ \A i \in 1..n : u[i] = s[i]
  OBVIOUS
<1>2. Core(s) = Taken(s, P) /\ Core(u) = Taken(u, Q)
  BY DEF Core
<1>3. Taken(u, Q) = IF n + 1 \in Q THEN Append(Taken(s, Q), x) ELSE Taken(s, Q)
  <2> HIDE DEF Q
  <2> QED BY TakenAppend
<1> HIDE DEF u, n
<1>4. (n + 1 \in Q <=> IsCore(x)) /\ \A i \in 1..n : i \in P <=> i \in Q
  BY <1>1, <1>5
<1> HIDE DEF P, Q
<1>6. Taken(s, P) = Taken(s, Q)
  BY <1>4, TakenPlaces DEF n
<1> QED BY <1>2, <1>3, <1>4, <1>6 DEF u

LEMMA CoreIn ==
    ASSUME NEW S, NEW s \in Seq(S)
    PROVE  Core(s) \in Seq(S) /\ ToSet(Core(s)) = {x \in ToSet(s) : IsCore(x)}
<1> DEFINE P == {i \in DOMAIN s : IsCore(s[i])}
<1>1. Core(s) = Taken(s, P)
  BY DEF Core
<1>2. Taken(s, P) \in Seq(S) /\ ToSet(Taken(s, P)) = {s[i] : i \in {k \in DOMAIN s : k \in P}}
  <2> HIDE DEF P
  <2> QED BY TakenSome
<1>3. {s[i] : i \in {k \in DOMAIN s : k \in P}} = {x \in ToSet(s) : IsCore(x)}
  BY DEF ToSet
<1> QED BY <1>1, <1>2, <1>3

LEMMA CoreJoin ==
    ASSUME NEW S, NEW a \in Seq(S), NEW b \in Seq(S)
    PROVE  Core(a \o b) = Core(a) \o Core(b)
<1> DEFINE G == {s \in Seq(S) : Core(a \o s) = Core(a) \o Core(s)}
<1>1. Core(a) \in Seq(S)
  BY CoreIn
<1>2. <<>> \in G
  <2>1. a \o <<>> = a /\ Core(a) \o <<>> = Core(a)
    BY <1>1, ConcatEmptySeq
  <2>2. Core(a \o <<>>) = Core(a) \o Core(<<>>)
    BY <2>1, CoreNothing, Zenon
  <2>3. <<>> \in Seq(S)
    BY EmptySeq
  <2> QED BY <2>2, <2>3, Zenon
<1>3. ASSUME NEW s \in Seq(S), NEW x \in S, s \in G PROVE Append(s, x) \in G
  <2> DEFINE c == Core(a)
             d == Core(s)
  <2>1. Core(a \o s) = c \o d /\ d \in Seq(S)
    BY <1>3, CoreIn
  <2>2. a \o s \in Seq(S) /\ a \o Append(s, x) = Append(a \o s, x)
    BY JoinAppend
  <2>3. Core(Append(s, x)) = IF IsCore(x) THEN Append(d, x) ELSE d
    BY CoreAppend
  <2>4. Core(Append(a \o s, x)) = IF IsCore(x) THEN Append(c \o d, x) ELSE c \o d
    BY <2>1, <2>2, CoreAppend
  <2>5. c \in Seq(S)
    BY <1>1
  <2> HIDE DEF c, d
  <2>6. Append(c \o d, x) = c \o Append(d, x)
    <3>1. \A p, q \in Seq(S) : p \o Append(q, x) = Append(p \o q, x)
      BY JoinAppend
    <3>2. d \in Seq(S)
      BY <2>1
    <3> QED BY <2>5, <3>1, <3>2
  <2>7. Core(a \o Append(s, x)) = c \o Core(Append(s, x))
    BY <2>2, <2>3, <2>4, <2>6
  <2>8. Append(s, x) \in Seq(S)
    OBVIOUS
  <2> QED BY <2>7, <2>8 DEF c
<1> HIDE DEF G
<1>4. b \in G
  BY <1>2, <1>3, ListInduction
<1> QED BY <1>4 DEF G

\* All of a list that has no fees, nothing of one that has fees only.
LEMMA CoreAll ==
    ASSUME NEW S, NEW s \in Seq(S), \A x \in S : IsCore(x)
    PROVE  Core(s) = s
<1> DEFINE G == {u \in Seq(S) : Core(u) = u}
<1>1. <<>> \in G
  BY CoreNothing
<1>2. ASSUME NEW u \in Seq(S), NEW x \in S, u \in G PROVE Append(u, x) \in G
  BY <1>2, CoreAppend
<1> HIDE DEF G
<1>3. s \in G
  BY <1>1, <1>2, ListInduction
<1> QED BY <1>3 DEF G

LEMMA CoreNone ==
    ASSUME NEW S, NEW s \in Seq(S), \A x \in S : ~IsCore(x)
    PROVE  Core(s) = <<>>
<1> DEFINE G == {u \in Seq(S) : Core(u) = <<>>}
<1>1. <<>> \in G
  BY CoreNothing
<1>2. ASSUME NEW u \in Seq(S), NEW x \in S, u \in G PROVE Append(u, x) \in G
  BY <1>2, CoreAppend
<1> HIDE DEF G
<1>3. s \in G
  BY <1>1, <1>2, ListInduction
<1> QED BY <1>3 DEF G

\* Leaving fees out leaves the core.
LEMMA CoreTaken ==
    ASSUME NEW S, NEW s \in Seq(S), NEW places, \A i \in DOMAIN s : IsCore(s[i]) => i \in places
    PROVE  Core(Taken(s, places)) = Core(s)
<1> DEFINE Kept(u) == \A i \in DOMAIN u : IsCore(u[i]) => i \in places
           G == {u \in Seq(S) : Kept(u) => Core(Taken(u, places)) = Core(u)}
<1>1. <<>> \in G
  <2>1. Taken(<<>>, places) = <<>>
    <3>1. <<>> \in Seq(S) /\ Len(<<>>) = 0
      BY EmptySeq
    <3> QED BY <3>1, TakenNothing, Zenon
  <2>2. <<>> \in Seq(S)
    BY EmptySeq
  <2>3. Core(Taken(<<>>, places)) = Core(<<>>)
    BY <2>1, Zenon
  <2> HIDE DEF Kept
  <2> QED BY <2>2, <2>3, Zenon
<1>2. ASSUME NEW u \in Seq(S), NEW x \in S, u \in G PROVE Append(u, x) \in G
  <2> DEFINE n == Len(u)
             t == Taken(u, places)
             v == Append(u, x)
  <2> SUFFICES ASSUME Kept(v) PROVE Core(Taken(v, places)) = Core(v)
    <3> HIDE DEF Kept
    <3> QED OBVIOUS
  <2>1. n \in Nat /\ DOMAIN u = 1..n /\ DOMAIN v = 1..(n + 1)
    OBVIOUS
  <2>2. v[n + 1] = x /\ \A i \in 1..n : v[i] = u[i]
    OBVIOUS
  <2>3. Taken(v, places) = IF n + 1 \in places THEN Append(t, x) ELSE t
    BY TakenAppend
  <2>4. t \in Seq(S)
    BY TakenSome
  <2> HIDE DEF n, t, v
  <2>5. Kept(u) /\ (IsCore(x) => n + 1 \in places)
    BY <2>1, <2>2
  <2>6. Core(t) = Core(u)
    BY <1>2, <2>5 DEF t
  <2>7. Core(Append(t, x)) = IF IsCore(x) THEN Append(Core(t), x) ELSE Core(t)
    BY <2>4, CoreAppend
  <2>8. Core(v) = IF IsCore(x) THEN Append(Core(u), x) ELSE Core(u)
    BY CoreAppend DEF v
  <2>9. CASE n + 1 \in places
    <3>1. Core(Taken(v, places)) = Core(Append(t, x))
      BY <2>3, <2>9, Zenon
    <3> QED BY <2>6, <2>7, <2>8, <3>1, Zenon
  <2>10. CASE n + 1 \notin places
    <3>1. Core(Taken(v, places)) = Core(t)
      BY <2>3, <2>10, Zenon
    <3> QED BY <2>5, <2>6, <2>8, <2>10, <3>1, Zenon
  <2> QED BY <2>9, <2>10
<1> HIDE DEF G
<1>3. s \in G
  BY <1>1, <1>2, ListInduction
<1> QED BY <1>3 DEF G

-----------------------------------------------------------------------------
(* What the programs are told                                              *)

\* An instruction that is no fee and is not marked.
Proper(x) ==
    /\ IsPlain(x) /\ x.program # Key("budget")
    /\ x.uses \in Seq(ToSet(x.uses)) /\ Dontfront \notin ToSet(x.uses)

ProperList(a) == IsList(a) /\ \A x \in ToSet(a) : Proper(x)

\* An instruction as it is in a message: marked, signed or renamed.
Formed(x) ==
    /\ IsIx(x) /\ x.uses \in Seq(ToSet(x.uses))
    /\ x.op = "transfer" => Len(x.uses) >= 2

FormedList(a) == IsList(a) /\ \A x \in ToSet(a) : Formed(x)

Unmarked(uses) == Taken(uses, {k \in DOMAIN uses : uses[k] # Dontfront})

\* What is told is looked at without the mark.
View(x) == Told(Without(x, Dontfront), Wrapped)

\* Instructions c tell what a asks for, and b does without its fees.
Shows(c, a, t) == Len(c) = Len(a) /\ \A i \in 1..Len(a) : View(c[i]) = Told(a[i], t)

Conveys(b, a, t) == Shows(Core(b), a, t)

LEMMA TakenAll ==
    ASSUME NEW S, NEW s \in Seq(S), NEW places, \A i \in DOMAIN s : i \in places
    PROVE  Taken(s, places) = s
<1> DEFINE In(u) == \A i \in DOMAIN u : i \in places
           G == {u \in Seq(S) : In(u) => Taken(u, places) = u}
<1>1. <<>> \in G
  <2>1. <<>> \in Seq(S) /\ Len(<<>>) = 0
    BY EmptySeq
  <2>2. Taken(<<>>, places) = <<>>
    BY <2>1, TakenNothing, Zenon
  <2> HIDE DEF In
  <2> QED BY <2>1, <2>2, Zenon
<1>2. ASSUME NEW u \in Seq(S), NEW x \in S, u \in G PROVE Append(u, x) \in G
  <2> DEFINE n == Len(u)
             v == Append(u, x)
  <2> SUFFICES ASSUME In(v) PROVE Taken(v, places) = v
    <3> HIDE DEF In
    <3> QED OBVIOUS
  <2>1. n \in Nat /\ DOMAIN u = 1..n /\ DOMAIN v = 1..(n + 1)
    OBVIOUS
  <2>2. Taken(v, places) = IF n + 1 \in places THEN Append(Taken(u, places), x)
                           ELSE Taken(u, places)
    BY TakenAppend
  <2> HIDE DEF n
  <2>3. In(u) /\ n + 1 \in places
    BY <2>1
  <2>4. Taken(u, places) = u
    BY <1>2, <2>3
  <2> QED BY <2>2, <2>3, <2>4
<1>3. In(s)
  OBVIOUS
<1> HIDE DEF In
<1>5. \A u \in Seq(S), x \in S : u \in G => Append(u, x) \in G
  BY <1>2
<1> HIDE DEF G
<1>4. s \in G
  BY <1>1, <1>5, ListInduction
<1> QED BY <1>3, <1>4 DEF G

LEMMA UnmarkedIn ==
    ASSUME NEW uses, uses \in Seq(ToSet(uses))
    PROVE  Unmarked(uses) \in Seq(ToSet(uses))
BY TakenSome DEF Unmarked

LEMMA ToldIs ==
    ASSUME NEW x, NEW S, x.uses \in Seq(S)
    PROVE  Told(x, Wrapped) = <<x.op, x.program, x.n, x.uses>>
<1> DEFINE w == x.uses
           u == [k \in DOMAIN w |-> IF w[k] = Wrapped THEN Wrapped ELSE w[k]]
<1>1. Told(x, Wrapped) = <<x.op, x.program, x.n, u>>
  BY DEF Told
<1>2. w = [k \in DOMAIN w |-> w[k]]
  OBVIOUS
<1>3. u = w
  <2> HIDE DEF w
  <2> QED BY <1>2
<1> QED BY <1>1, <1>3

LEMMA ViewIs ==
    ASSUME NEW x, IsIx(x), x.uses \in Seq(ToSet(x.uses))
    PROVE  View(x) = <<x.op, x.program, x.n, Unmarked(x.uses)>>
<1> DEFINE y == Without(x, Dontfront)
           u == Unmarked(x.uses)
           S == ToSet(x.uses)
<1>1. y = [x EXCEPT !.uses = u]
  BY DEF Without, Unmarked
<1>2. u \in Seq(S)
  BY UnmarkedIn
<1> HIDE DEF y, u, S
<1>3. y.op = x.op /\ y.program = x.program /\ y.n = x.n /\ y.uses = u
  BY <1>1 DEF IsIx, Fields
<1>4. Told(y, Wrapped) = <<y.op, y.program, y.n, y.uses>>
  BY <1>2, <1>3, ToldIs
<1> QED BY <1>3, <1>4 DEF View, y, u

LEMMA ProperIs ==
    ASSUME NEW x, Proper(x)
    PROVE  Formed(x) /\ IsCore(x) /\ View(x) = Told(x, Wrapped)
<1> DEFINE u == x.uses
<1>1. IsIx(x) /\ u \in Seq(ToSet(u)) /\ Formed(x)
  BY DEF Proper, IsPlain, Formed
<1>2. IsCore(x)
  BY DEF Proper, IsPlain, IsCore, IsBudget
<1>3. \A k \in DOMAIN u : u[k] # Dontfront
  BY DEF Proper, ToSet
<1> HIDE DEF u
<1>4. Unmarked(u) = u
  <2> DEFINE P == {k \in DOMAIN u : u[k] # Dontfront}
  <2>1. \A k \in DOMAIN u : k \in P
    BY <1>3
  <2> HIDE DEF P
  <2>2. Taken(u, P) = u
    BY <1>1, <2>1, TakenAll
  <2> QED BY <2>2 DEF Unmarked, P
<1>5. View(x) = <<x.op, x.program, x.n, u>>
  BY <1>1, <1>4, ViewIs DEF u
<1>6. Told(x, Wrapped) = <<x.op, x.program, x.n, u>>
  BY <1>1, ToldIs DEF u
<1> QED BY <1>1, <1>2, <1>5, <1>6

LEMMA ListIn ==
    ASSUME NEW a, IsList(a)
    PROVE  /\ a \in Seq(ToSet(a)) /\ IsList(Core(a)) /\ ToSet(Core(a)) \subseteq ToSet(a)
           /\ \A i \in 1..Len(Core(a)) : Core(a)[i] \in ToSet(a) /\ IsCore(Core(a)[i])
<1> DEFINE c == Core(a)
<1>1. a \in Seq(ToSet(a))
  BY DEF IsList
<1>2. c \in Seq(ToSet(a)) /\ ToSet(c) = {x \in ToSet(a) : IsCore(x)}
  BY <1>1, CoreIn
<1> HIDE DEF c
<1>3. c \in Seq(ToSet(c))
  BY <1>2 DEF ToSet
<1>4. \A i \in 1..Len(c) : c[i] \in ToSet(c)
  BY <1>2 DEF ToSet
<1> QED BY <1>1, <1>2, <1>3, <1>4 DEF IsList, c

\* What is asked for is conveyed by itself.
LEMMA ProperConveys ==
    ASSUME NEW a, ProperList(a)
    PROVE  FormedList(a) /\ Conveys(a, a, Wrapped)
<1>1. a \in Seq(ToSet(a)) /\ \A x \in ToSet(a) : Proper(x)
  BY DEF ProperList, IsList
<1>2. \A x \in ToSet(a) : Formed(x) /\ IsCore(x) /\ View(x) = Told(x, Wrapped)
  BY <1>1, ProperIs
<1>3. Core(a) = a
  BY <1>1, <1>2, CoreAll
<1>4. \A i \in 1..Len(a) : a[i] \in ToSet(a)
  BY <1>1 DEF ToSet
<1> QED BY <1>1, <1>2, <1>3, <1>4 DEF Conveys, Shows, FormedList, ProperList

\* Lists whose instructions tell the same, place by place.
LEMMA SameConveys ==
    ASSUME NEW u, NEW v, NEW a, NEW t, IsList(u), IsList(v), Len(u) = Len(v), Conveys(u, a, t),
           \A i \in 1..Len(u) : /\ IsCore(u[i]) <=> IsCore(v[i])
                                /\ IsCore(u[i]) => View(u[i]) = View(v[i])
    PROVE  Conveys(v, a, t)
<1> DEFINE P == {i \in DOMAIN u : IsCore(u[i])}
           Q == {i \in DOMAIN v : IsCore(v[i])}
           S == ToSet(u) \union ToSet(v)
           c == Taken(u, P)
           d == Taken(v, P)
<1>1. u \in Seq(S) /\ v \in Seq(S)
  BY DEF IsList
<1>2. DOMAIN u = 1..Len(u) /\ DOMAIN v = 1..Len(u)
  BY <1>1
<1>3. Core(u) = c /\ Core(v) = Taken(v, Q)
  BY DEF Core
<1>4. \A i \in 1..Len(v) : i \in P <=> i \in Q
  BY <1>2
<1>5. \A i \in P : View(u[i]) = View(v[i])
  BY <1>2
<1> HIDE DEF P, Q, S
<1>6. Core(v) = d
  BY <1>1, <1>3, <1>4, TakenPlaces
<1>7. Len(c) = Len(d) /\ \A k \in 1..Len(c) : \E i \in 1..Len(u) :
                              i \in P /\ c[k] = u[i] /\ d[k] = v[i]
  BY <1>1, Together
<1>8. Shows(c, a, t)
  BY <1>3 DEF Conveys
<1> HIDE DEF c, d
<1>9. ASSUME NEW k \in 1..Len(a) PROVE View(d[k]) = Told(a[k], t)
  <2>1. k \in 1..Len(c) /\ View(c[k]) = Told(a[k], t)
    BY <1>8 DEF Shows
  <2>2. PICK i \in 1..Len(u) : i \in P /\ c[k] = u[i] /\ d[k] = v[i]
    BY <1>7, <2>1
  <2> QED BY <1>5, <2>1, <2>2
<1>10. Len(d) = Len(a)
  BY <1>7, <1>8 DEF Shows
<1> QED BY <1>6, <1>9, <1>10 DEF Conveys, Shows

LEMMA JoinedAt ==
    ASSUME NEW S, NEW R, NEW c \in Seq(S), NEW d \in Seq(R)
    PROVE  /\ Len(c \o d) = Len(c) + Len(d)
           /\ \A i \in 1..(Len(c) + Len(d)) :
                (c \o d)[i] = IF i <= Len(c) THEN c[i] ELSE d[i - Len(c)]
OBVIOUS

LEMMA JoinShows ==
    ASSUME NEW c, NEW d, NEW a, NEW b, NEW t, IsList(c), IsList(d), IsList(a), IsList(b),
           Shows(c, a, t), Shows(d, b, t)
    PROVE  Shows(c \o d, a \o b, t)
<1> DEFINE m == Len(a)
           n == Len(b)
           e == c \o d
           g == a \o b
<1>1. /\ m \in Nat /\ n \in Nat /\ Len(c) = m /\ Len(d) = n
  BY ListIs DEF Shows
<1>2. c \in Seq(ToSet(c)) /\ d \in Seq(ToSet(d)) /\ a \in Seq(ToSet(a)) /\ b \in Seq(ToSet(b))
  BY DEF IsList
<1>3. Len(e) = m + n /\ \A i \in 1..(m + n) : e[i] = IF i <= m THEN c[i] ELSE d[i - m]
  <2>1. /\ Len(c \o d) = Len(c) + Len(d)
        /\ \A i \in 1..(Len(c) + Len(d)) :
             (c \o d)[i] = IF i <= Len(c) THEN c[i] ELSE d[i - Len(c)]
    BY <1>2, JoinedAt
  <2> HIDE DEF m, n
  <2> QED BY <1>1, <2>1
<1>4. Len(g) = m + n /\ \A i \in 1..(m + n) : g[i] = IF i <= m THEN a[i] ELSE b[i - m]
  BY <1>2, JoinedAt
<1>5. /\ \A i \in 1..m : View(c[i]) = Told(a[i], t)
      /\ \A i \in 1..n : View(d[i]) = Told(b[i], t)
  BY DEF Shows
<1> HIDE DEF m, n, e, g
<1>6. ASSUME NEW i \in 1..(m + n) PROVE View(e[i]) = Told(g[i], t)
  <2>1. CASE i <= m
    <3>1. i \in 1..m
      BY <1>1, <2>1
    <3> QED BY <1>3, <1>4, <1>5, <2>1, <3>1
  <2>2. CASE ~(i <= m)
    <3>1. i - m \in 1..n
      BY <1>1, <2>2
    <3> QED BY <1>3, <1>4, <1>5, <2>2, <3>1
  <2> QED BY <2>1, <2>2
<1> QED BY <1>3, <1>4, <1>6 DEF Shows, e, g

LEMMA JoinConveys ==
    ASSUME NEW c, NEW d, NEW a, NEW b, NEW t, FormedList(c), FormedList(d), IsList(a), IsList(b),
           Conveys(c, a, t), Conveys(d, b, t)
    PROVE  FormedList(c \o d) /\ Conveys(c \o d, a \o b, t)
<1>1. IsList(c) /\ IsList(d) /\ IsList(Core(c)) /\ IsList(Core(d))
  BY ListIn DEF FormedList
<1>2. IsList(c \o d) /\ ToSet(c \o d) = ToSet(c) \union ToSet(d)
  BY <1>1, Concatenated
<1>3. FormedList(c \o d)
  BY <1>2 DEF FormedList
<1>4. Core(c \o d) = Core(c) \o Core(d)
  <2> DEFINE S == ToSet(c) \union ToSet(d)
  <2>1. c \in Seq(S) /\ d \in Seq(S)
    BY <1>1 DEF IsList
  <2> HIDE DEF S
  <2> QED BY <2>1, CoreJoin
<1>5. Shows(Core(c) \o Core(d), a \o b, t)
  BY <1>1, JoinShows DEF Conveys
<1> QED BY <1>3, <1>4, <1>5 DEF Conveys

\* The mark is not looked at.
LEMMA MarkedTells ==
    ASSUME NEW x, Formed(x), NEW on
    PROVE  LET y == IF on THEN DontfrontOn(x) ELSE x IN
           Formed(y) /\ (IsCore(y) <=> IsCore(x)) /\ View(y) = View(x)
<1> DEFINE u == x.uses
           v == Append(u, Dontfront)
           y == [x EXCEPT !.uses = v]
           S == ToSet(u) \union {Dontfront}
           n == Len(u)
<1>1. IsIx(x) /\ u \in Seq(ToSet(u)) /\ (x.op = "transfer" => n >= 2)
  BY DEF Formed
<1>2. (IF on THEN DontfrontOn(x) ELSE x) \in {x, y}
  BY DEF DontfrontOn
<1>3. /\ IsIx(y) /\ y.uses = v /\ y.op = x.op /\ y.program = x.program /\ y.n = x.n
  BY <1>1 DEF IsIx, Fields
<1>4. u \in Seq(S) /\ Dontfront \in S
  BY <1>1
<1>5. v \in Seq(S) /\ ToSet(v) = S
  <2> HIDE DEF S
  <2> QED BY <1>4, AppendedSet DEF S
<1>6. n \in Nat /\ Len(v) = n + 1 /\ DOMAIN u = 1..n /\ DOMAIN v = 1..(n + 1)
  BY <1>4
<1>7. v[n + 1] = Dontfront /\ \A i \in 1..n : v[i] = u[i]
  BY <1>4
<1>8. Unmarked(v) = Unmarked(u)
  <2> DEFINE P == {k \in DOMAIN u : u[k] # Dontfront}
             Q == {k \in DOMAIN v : v[k] # Dontfront}
  <2>1. n + 1 \notin Q /\ \A i \in 1..n : i \in P <=> i \in Q
    BY <1>6, <1>7
  <2> HIDE DEF P, Q, S
  <2>2. Taken(v, Q) = IF n + 1 \in Q THEN Append(Taken(u, Q), Dontfront) ELSE Taken(u, Q)
    BY <1>4, TakenAppend
  <2>3. Taken(u, P) = Taken(u, Q)
    BY <1>4, <2>1, TakenPlaces
  <2>4. Taken(v, Q) = Taken(u, P)
    BY <2>1, <2>2, <2>3
  <2> QED BY <2>4 DEF Unmarked, P, Q
<1> HIDE DEF y, v, u, n
<1>9. Formed(y)
  BY <1>1, <1>3, <1>5, <1>6 DEF Formed
<1>10. x.op = "transfer" => v[2] = u[2]
  BY <1>1, <1>6, <1>7
<1>11. IsCore(y) <=> IsCore(x)
  BY <1>3, <1>10 DEF IsCore, IsBudget, u
<1>12. View(x) = <<x.op, x.program, x.n, Unmarked(u)>>
  BY <1>1, ViewIs DEF u
<1>13. View(y) = <<y.op, y.program, y.n, Unmarked(v)>>
  BY <1>3, <1>9, ViewIs DEF Formed
<1>14. View(y) = View(x)
  BY <1>3, <1>8, <1>12, <1>13
<1> QED BY <1>2, <1>9, <1>11, <1>14

LEMMA ProtectedTells ==
    ASSUME NEW core, FormedList(core), NEW on, NEW a, NEW t, Conveys(core, a, t)
    PROVE  FormedList(Protected(core, on)) /\ Conveys(Protected(core, on), a, t)
<1> DEFINE p == Protected(core, on)
           n == Len(core)
<1>1. n \in Nat /\ DOMAIN core = 1..n /\ IsList(core) /\ \A i \in 1..n : Formed(core[i])
  BY ListIs DEF FormedList
<1>2. IsList(p) /\ DOMAIN p = 1..n
      /\ \A i \in 1..n : p[i] = IF on THEN DontfrontOn(core[i]) ELSE core[i]
  BY <1>1, ProtectedSame
<1> HIDE DEF p
<1>3. Len(p) = n
  BY <1>1, <1>2, ListIs
<1>4. \A i \in 1..n : /\ Formed(p[i]) /\ (IsCore(core[i]) <=> IsCore(p[i]))
                      /\ View(core[i]) = View(p[i])
  <2> TAKE i \in 1..n
  <2> DEFINE y == IF on THEN DontfrontOn(core[i]) ELSE core[i]
  <2>1. Formed(y) /\ (IsCore(y) <=> IsCore(core[i])) /\ View(y) = View(core[i])
    BY <1>1, MarkedTells
  <2>2. p[i] = y
    BY <1>2
  <2> HIDE DEF y
  <2> QED BY <2>1, <2>2
<1>5. FormedList(p)
  BY <1>2, <1>4 DEF FormedList, ToSet
<1>6. Conveys(p, a, t)
  BY <1>1, <1>2, <1>3, <1>4, SameConveys
<1> QED BY <1>5, <1>6 DEF p

\* Instructions that are fees and nothing else.
Silent(a) == FormedList(a) /\ Core(a) = <<>>

LEMMA SilentOne ==
    ASSUME NEW x, Formed(x), ~IsCore(x), NEW condition
    PROVE  Silent(<<x>>) /\ Silent(If(condition, x))
<1> DEFINE a == <<x>>
<1>1. IsList(a) /\ ToSet(a) = {x}
  BY Single DEF Formed
<1> HIDE DEF a
<1>2. Core(a) = <<>>
  BY <1>1, CoreNone DEF IsList
<1>3. Silent(a)
  BY <1>1, <1>2 DEF Silent, FormedList
<1>4. Silent(<<>>)
  BY Nobody, CoreNothing DEF Silent, FormedList
<1> QED BY <1>3, <1>4 DEF a, If

LEMMA FeesSilent ==
    ASSUME NEW k, NEW condition, NEW op, NEW data
    PROVE  /\ Silent(<<LimitOf(k)>>) /\ Silent(If(condition, LimitOf(k)))
           /\ Silent(If(condition, PriceOf(k))) /\ Silent(If(condition, Transfer(TipAccount, k)))
           /\ op # "transfer" => Silent(If(condition, Budget(op, k, data)))
<1>1. ASSUME NEW o, o # "transfer", NEW d PROVE Formed(Budget(o, k, d)) /\ ~IsCore(Budget(o, k, d))
  <2> DEFINE x == Budget(o, k, d)
  <2>1. IsIx(x)
    BY SettingsAre
  <2>2. x.op = o /\ x.program = Key("budget") /\ x.uses = <<>>
    BY DEF Budget, Instr
  <2> HIDE DEF x
  <2>3. <<>> \in Seq(ToSet(<<>>))
    BY Nobody DEF IsList
  <2>4. Formed(x)
    BY <1>1, <2>1, <2>2, <2>3 DEF Formed
  <2> QED BY <2>2, <2>4 DEF IsCore, IsBudget, x
<1>2. Formed(Transfer(TipAccount, k)) /\ ~IsCore(Transfer(TipAccount, k))
  <2> DEFINE x == Transfer(TipAccount, k)
             u == <<Owner, TipAccount>>
  <2>1. IsIx(x)
    BY SettingsAre
  <2>2. x.op = "transfer" /\ x.uses = u
    BY DEF Transfer, Instr
  <2>3. Len(u) = 2 /\ DOMAIN u = {1, 2} /\ u[1] = Owner /\ u[2] = TipAccount
    OBVIOUS
  <2>5. u \in Seq({Owner, TipAccount})
    OBVIOUS
  <2> HIDE DEF x, u
  <2>6. ToSet(u) = {Owner, TipAccount}
    BY <2>3 DEF ToSet
  <2>4. Formed(x)
    BY <2>1, <2>2, <2>3, <2>5, <2>6 DEF Formed
  <2> QED BY <2>2, <2>3, <2>4 DEF IsCore, x
<1>3. /\ Formed(LimitOf(k)) /\ ~IsCore(LimitOf(k)) /\ Formed(PriceOf(k)) /\ ~IsCore(PriceOf(k))
  BY <1>1 DEF LimitOf, PriceOf
<1>4. /\ Silent(<<LimitOf(k)>>) /\ Silent(If(condition, LimitOf(k)))
      /\ Silent(If(condition, PriceOf(k))) /\ Silent(If(condition, Transfer(TipAccount, k)))
  BY <1>2, <1>3, SilentOne
<1>5. op # "transfer" => Silent(If(condition, Budget(op, k, data)))
  BY <1>1, SilentOne
<1> QED BY <1>4, <1>5

\* Fees around a list change nothing that is told.
LEMMA SilentJoin ==
    ASSUME NEW a, NEW b, FormedList(a), Silent(b)
    PROVE  /\ FormedList(a \o b) /\ Core(a \o b) = Core(a)
           /\ FormedList(b \o a) /\ Core(b \o a) = Core(a)
<1> DEFINE S == ToSet(a) \union ToSet(b)
<1>1. a \in Seq(S) /\ b \in Seq(S) /\ IsList(a) /\ IsList(b)
  BY DEF FormedList, Silent, IsList
<1>2. /\ IsList(a \o b) /\ ToSet(a \o b) = S
      /\ IsList(b \o a) /\ ToSet(b \o a) = S
  BY <1>1, Concatenated
<1>3. \A x \in S : Formed(x)
  BY DEF FormedList, Silent
<1> HIDE DEF S
<1>4. FormedList(a \o b) /\ FormedList(b \o a)
  BY <1>2, <1>3 DEF FormedList
<1>5. Core(a \o b) = Core(a) \o Core(b) /\ Core(b \o a) = Core(b) \o Core(a)
  BY <1>1, CoreJoin
<1>6. Core(a) \in Seq(S) /\ Core(b) = <<>>
  BY <1>1, CoreIn DEF Silent
<1>7. Core(a) \o <<>> = Core(a) /\ <<>> \o Core(a) = Core(a)
  BY <1>6, ConcatEmptySeq
<1> QED BY <1>4, <1>5, <1>6, <1>7

LEMMA SettingsTell ==
    ASSUME NEW core, FormedList(core), NEW fees, NEW on, NEW a, NEW t, Conveys(core, a, t)
    PROVE  FormedList(Settings(core, fees, on)) /\ Conveys(Settings(core, fees, on), a, t)
<1> DEFINE b == <<LimitOf(fees.limit)>>
           c == If(fees.price > 0, PriceOf(fees.price))
           d == Protected(core, on)
           e == If(fees.tip > 0, Transfer(TipAccount, fees.tip))
<1>1. Silent(b) /\ Silent(c) /\ Silent(e)
  BY FeesSilent
<1>2. FormedList(d) /\ Conveys(d, a, t)
  BY ProtectedTells
<1>3. Settings(core, fees, on) = b \o c \o d \o e
  BY DEF Settings
<1> HIDE DEF b, c, d, e
<1>4. Silent(b \o c)
  BY <1>1, SilentJoin DEF Silent
<1>5. FormedList((b \o c) \o d) /\ Core((b \o c) \o d) = Core(d)
  BY <1>2, <1>4, SilentJoin
<1>6. FormedList(b \o c \o d \o e) /\ Core(b \o c \o d \o e) = Core(d)
  BY <1>1, <1>5, SilentJoin
<1> QED BY <1>2, <1>3, <1>6 DEF Conveys

LEMMA AtomicTell ==
    ASSUME NEW core, FormedList(core), NEW fees, NEW on, NEW a, NEW t, Conveys(core, a, t)
    PROVE  /\ FormedList(AtomicSettings(core, fees, on))
           /\ Conveys(AtomicSettings(core, fees, on), a, t)
<1> DEFINE b == If(fees.price > 0, PriceOf(fees.price))
           c == If(fees.limit > 0, LimitOf(fees.limit))
           d == Protected(core, on)
           e == If(fees.tip > 0, Transfer(TipAccount, fees.tip))
<1>1. Silent(b) /\ Silent(c) /\ Silent(e)
  BY FeesSilent
<1>2. FormedList(d) /\ Conveys(d, a, t)
  BY ProtectedTells
<1>3. AtomicSettings(core, fees, on) = b \o c \o d \o e
  BY DEF AtomicSettings
<1> HIDE DEF b, c, d, e
<1>4. Silent(b \o c)
  BY <1>1, SilentJoin DEF Silent
<1>5. FormedList((b \o c) \o d) /\ Core((b \o c) \o d) = Core(d)
  BY <1>2, <1>4, SilentJoin
<1>6. FormedList(b \o c \o d \o e) /\ Core(b \o c \o d \o e) = Core(d)
  BY <1>1, <1>5, SilentJoin
<1> QED BY <1>2, <1>3, <1>6 DEF Conveys

\* Who signs is not told.
LEMMA DecompiledTells ==
    ASSUME NEW tx, FormedList(tx.ixs), NEW a, NEW t, Conveys(tx.ixs, a, t)
    PROVE  FormedList(Decompiled(tx)) /\ Conveys(Decompiled(tx), a, t)
<1> DEFINE ixs == tx.ixs
           d == Decompiled(tx)
           n == Len(ixs)
<1>1. n \in Nat /\ DOMAIN ixs = 1..n /\ IsList(ixs) /\ \A i \in 1..n : Formed(ixs[i])
  BY ListIs DEF FormedList
<1>2. IsList(d) /\ DOMAIN d = 1..n
      /\ \A i \in 1..n : d[i].program = ixs[i].program /\ d[i].uses = ixs[i].uses
  BY <1>1, DecompiledIs
<1>3. \A i \in 1..n : d[i] = [ixs[i] EXCEPT !.signs = ToSet(ixs[i].uses) \intersect SignersOf(ixs)]
  BY <1>1 DEF Decompiled
<1> HIDE DEF d, ixs
<1>4. Len(d) = n /\ \A i \in 1..n : IsIx(d[i])
  BY <1>1, <1>2, ListIs
<1>5. \A i \in 1..n : /\ Formed(d[i]) /\ (IsCore(ixs[i]) <=> IsCore(d[i]))
                      /\ View(ixs[i]) = View(d[i])
  <2> TAKE i \in 1..n
  <2>1. PICK q : d[i] = [ixs[i] EXCEPT !.signs = q]
    BY <1>3
  <2>2. Formed(ixs[i]) /\ IsIx(ixs[i])
    BY <1>1 DEF Formed
  <2>3. d[i].op = ixs[i].op /\ d[i].n = ixs[i].n
    BY <2>1, <2>2 DEF IsIx, Fields
  <2>4. Formed(d[i])
    BY <1>2, <1>4, <2>2, <2>3 DEF Formed
  <2>5. IsCore(ixs[i]) <=> IsCore(d[i])
    BY <1>2, <2>3 DEF IsCore, IsBudget
  <2>6. View(ixs[i]) = <<ixs[i].op, ixs[i].program, ixs[i].n, Unmarked(ixs[i].uses)>>
    BY <2>2, ViewIs DEF Formed
  <2>7. View(d[i]) = <<d[i].op, d[i].program, d[i].n, Unmarked(d[i].uses)>>
    BY <2>4, ViewIs DEF Formed
  <2>8. View(ixs[i]) = View(d[i])
    BY <1>2, <2>3, <2>6, <2>7
  <2> QED BY <2>4, <2>5, <2>8
<1>6. FormedList(d)
  BY <1>2, <1>5 DEF FormedList, ToSet
<1>7. Conveys(d, a, t)
  BY <1>1, <1>2, <1>4, <1>5, SameConveys DEF ixs
<1> QED BY <1>6, <1>7 DEF d

\* What is filtered out are fees.
LEMMA CoreOfTells ==
    ASSUME NEW tx, FormedList(tx.ixs), NEW fees, NEW a, NEW t, Conveys(tx.ixs, a, t)
    PROVE  FormedList(CoreOf(tx, fees)) /\ Conveys(CoreOf(tx, fees), a, t)
<1> DEFINE d == Decompiled(tx)
           P == {i \in DOMAIN d : IsKept(d[i], fees)}
           c == Taken(d, P)
<1>1. FormedList(d) /\ Conveys(d, a, t)
  BY DecompiledTells
<1>2. CoreOf(tx, fees) = c
  BY DEF CoreOf
<1> HIDE DEF d
<1>3. \A i \in DOMAIN d : IsCore(d[i]) => i \in P
  BY DEF IsCore, IsKept, IsTip
<1>4. IsList(d) /\ d \in Seq(ToSet(d)) /\ \A x \in ToSet(d) : Formed(x)
  BY <1>1 DEF FormedList, IsList
<1> HIDE DEF P
<1>5. Core(c) = Core(d)
  BY <1>3, <1>4, CoreTaken
<1>6. IsList(c) /\ ToSet(c) = {d[i] : i \in {k \in DOMAIN d : k \in P}}
  BY <1>4, TakenList
<1> HIDE DEF c
<1>7. ToSet(c) \subseteq ToSet(d)
  BY <1>6 DEF ToSet
<1>8. FormedList(c)
  BY <1>4, <1>6, <1>7 DEF FormedList
<1> QED BY <1>1, <1>2, <1>5, <1>8 DEF Conveys

-----------------------------------------------------------------------------
(* An account that is made anew                                            *)

Renamed(uses, t) == [k \in DOMAIN uses |-> IF uses[k] = Wrapped THEN t ELSE uses[k]]

LEMMA RenamedIn ==
    ASSUME NEW S, NEW u \in Seq(S), NEW t
    PROVE  /\ Renamed(u, t) \in Seq(S \union {t}) /\ Len(Renamed(u, t)) = Len(u)
           /\ \A k \in 1..Len(u) : Renamed(u, t)[k] = IF u[k] = Wrapped THEN t ELSE u[k]
<1> DEFINE v == Renamed(u, t)
<1>1. Len(u) \in Nat /\ DOMAIN u = 1..Len(u) /\ \A k \in 1..Len(u) : u[k] \in S
  OBVIOUS
<1>2. v = [k \in 1..Len(u) |-> IF u[k] = Wrapped THEN t ELSE u[k]]
  BY <1>1 DEF Renamed
<1> HIDE DEF v
<1>3. v \in [1..Len(u) -> S \union {t}]
  BY <1>1, <1>2
<1>4. v \in Seq(S \union {t}) /\ Len(v) = Len(u)
  BY <1>1, <1>3
<1> QED BY <1>2, <1>4 DEF v

\* The mark is not the account, so that it does not matter which is done first.
LEMMA UnmarkedRenamed ==
    ASSUME NEW u, u \in Seq(ToSet(u)), NEW t, t # Dontfront
    PROVE  Unmarked(Renamed(u, t)) = Renamed(Unmarked(u), t)
<1> DEFINE v == Renamed(u, t)
           S == ToSet(u) \union {t}
           P == {k \in DOMAIN u : u[k] # Dontfront}
           Q == {k \in DOMAIN v : v[k] # Dontfront}
           n == Len(u)
           c == Taken(u, P)
           d == Taken(v, P)
           e == Renamed(c, t)
<1>1. /\ v \in Seq(S) /\ Len(v) = n /\ u \in Seq(S) /\ n \in Nat
      /\ \A k \in 1..n : v[k] = IF u[k] = Wrapped THEN t ELSE u[k]
  <2> DEFINE R == ToSet(u)
  <2>1. u \in Seq(R)
    OBVIOUS
  <2> HIDE DEF R, n, S, v
  <2>2. /\ Renamed(u, t) \in Seq(R \union {t}) /\ Len(Renamed(u, t)) = Len(u)
        /\ \A k \in 1..Len(u) : Renamed(u, t)[k] = IF u[k] = Wrapped THEN t ELSE u[k]
    BY <2>1, RenamedIn
  <2>3. S = R \union {t} /\ v = Renamed(u, t) /\ n = Len(u)
    BY DEF S, R, v, n
  <2>4. u \in Seq(R \union {t}) /\ Len(u) \in Nat
    BY <2>1
  <2> QED BY <2>2, <2>3, <2>4
<1>2. DOMAIN u = 1..n /\ DOMAIN v = 1..n
  BY <1>1
<1>3. Wrapped # Dontfront
  BY DEF Wrapped, Dontfront, Key
<1> HIDE DEF v, S, n
<1>4. \A k \in 1..n : k \in P <=> k \in Q
  BY <1>1, <1>2, <1>3
<1> HIDE DEF P, Q
<1>5. Taken(v, Q) = d
  BY <1>1, <1>4, TakenPlaces
<1>6. Len(c) = Len(d) /\ \A k \in 1..Len(c) : \E i \in 1..n : i \in P /\ c[k] = u[i] /\ d[k] = v[i]
  BY <1>1, Together DEF n
<1>7. c \in Seq(S) /\ d \in Seq(S)
  BY <1>1, TakenSome
<1> HIDE DEF c, d
<1>8. e \in Seq(S \union {t}) /\ Len(e) = Len(c)
      /\ \A k \in 1..Len(c) : e[k] = IF c[k] = Wrapped THEN t ELSE c[k]
  BY <1>7, RenamedIn
<1> HIDE DEF e
<1>9. \A k \in 1..Len(c) : d[k] = e[k]
  BY <1>1, <1>6, <1>8
<1>10. d = e
  <2>1. /\ d = [k \in 1..Len(d) |-> d[k]] /\ e = [k \in 1..Len(e) |-> e[k]]
    BY <1>7, <1>8
  <2> QED BY <1>6, <1>8, <1>9, <2>1
<1>11. Unmarked(v) = Taken(v, Q) /\ Unmarked(u) = c
  BY DEF Unmarked, Q, P, c
<1> QED BY <1>5, <1>10, <1>11 DEF e, v

\* What a list with renamed keys tells is renamed, and nothing else.
LEMMA RewrittenTells ==
    ASSUME NEW ixs, FormedList(ixs), NEW a, ProperList(a), Conveys(ixs, a, Wrapped),
           NEW missing, missing \subseteq {Wrapped}
    PROVE  LET t == IF Wrapped \in missing THEN Anew(Wrapped) ELSE Wrapped IN
           IsList(Rewritten(ixs, missing)) /\ Conveys(Rewritten(ixs, missing), a, t)
<1> DEFINE New(x) == IF x \in missing THEN Anew(x) ELSE x
           t == IF Wrapped \in missing THEN Anew(Wrapped) ELSE Wrapped
           r == Rewritten(ixs, missing)
           n == Len(ixs)
<1>1. n \in Nat /\ DOMAIN ixs = 1..n /\ IsList(ixs)
      /\ \A i \in 1..n : IsIx(ixs[i]) /\ Formed(ixs[i])
  BY ListIs DEF FormedList, Formed
<1> HIDE DEF n
<1>2. DOMAIN r = 1..n /\ r = [i \in 1..n |-> r[i]]
  BY <1>1 DEF Rewritten
<1>3. \A i \in 1..n :
        r[i] = [ixs[i] EXCEPT !.uses = [k \in DOMAIN ixs[i].uses |-> New(ixs[i].uses[k])],
                              !.signs = {New(x) : x \in ixs[i].signs}]
  BY <1>1 DEF Rewritten
<1>4. \A x : New(x) = IF x = Wrapped THEN t ELSE x
  OBVIOUS
<1>5. t # Dontfront /\ t # TipAccount /\ Wrapped # TipAccount
  BY DEF Anew, Dontfront, TipAccount, Wrapped, Key
<1> HIDE DEF New, t, r
<1>6. ASSUME NEW i \in 1..n
      PROVE  /\ IsIx(r[i]) /\ r[i].op = ixs[i].op /\ r[i].program = ixs[i].program
             /\ r[i].n = ixs[i].n /\ r[i].uses = Renamed(ixs[i].uses, t)
  <2>1. PICK u, q : /\ r[i] = [ixs[i] EXCEPT !.uses = u, !.signs = q]
                    /\ u = [k \in DOMAIN ixs[i].uses |-> New(ixs[i].uses[k])]
    BY <1>3
  <2>2. u = Renamed(ixs[i].uses, t)
    BY <1>4, <2>1 DEF Renamed
  <2>3. IsIx(ixs[i])
    BY <1>1
  <2> HIDE DEF Renamed
  <2>4. /\ IsIx(r[i]) /\ r[i].op = ixs[i].op /\ r[i].program = ixs[i].program
        /\ r[i].n = ixs[i].n /\ r[i].uses = u
    BY <2>1, <2>3 DEF IsIx, Fields
  <2> QED BY <2>2, <2>4
<1>7. IsList(r)
  BY <1>1, <1>2, <1>6, Tabled
<1>8. ASSUME NEW i \in 1..n
      PROVE  /\ IsCore(ixs[i]) <=> IsCore(r[i])
             /\ View(ixs[i]) = <<ixs[i].op, ixs[i].program, ixs[i].n, Unmarked(ixs[i].uses)>>
             /\ View(r[i]) = <<ixs[i].op, ixs[i].program, ixs[i].n,
                               Renamed(Unmarked(ixs[i].uses), t)>>
  <2> DEFINE u == ixs[i].uses
             v == Renamed(u, t)
             S == ToSet(u)
  <2>1. u \in Seq(S) /\ (ixs[i].op = "transfer" => Len(u) >= 2)
    BY <1>1 DEF Formed
  <2>2. /\ v \in Seq(S \union {t}) /\ Len(v) = Len(u)
        /\ \A k \in 1..Len(u) : v[k] = IF u[k] = Wrapped THEN t ELSE u[k]
    <3> HIDE DEF S, u
    <3> QED BY <2>1, RenamedIn
  <2>3. Unmarked(v) = Renamed(Unmarked(u), t)
    BY <1>5, <2>1, UnmarkedRenamed
  <2>4. IsIx(ixs[i]) /\ View(ixs[i]) = <<ixs[i].op, ixs[i].program, ixs[i].n, Unmarked(u)>>
    BY <1>1, ViewIs DEF Formed
  <2>5. IsIx(r[i]) /\ r[i].op = ixs[i].op /\ r[i].program = ixs[i].program
        /\ r[i].n = ixs[i].n /\ r[i].uses = v
    BY <1>6
  <2> HIDE DEF u, v, S
  <2>6. ixs[i].op = "transfer" => (v[2] = TipAccount <=> u[2] = TipAccount)
    BY <1>5, <2>1, <2>2
  <2>7. IsCore(ixs[i]) <=> IsCore(r[i])
    BY <2>5, <2>6 DEF IsCore, IsBudget, u
  <2>8. v \in Seq(ToSet(v))
    <3>1. v \in [1..Len(v) -> ToSet(v)] /\ Len(v) \in Nat
      BY <2>2 DEF ToSet
    <3> QED BY <3>1
  <2>9. View(r[i]) = <<r[i].op, r[i].program, r[i].n, Unmarked(v)>>
    BY <2>5, <2>8, ViewIs
  <2> QED BY <2>3, <2>4, <2>5, <2>7, <2>9 DEF u
<1> DEFINE P == {i \in DOMAIN ixs : IsCore(ixs[i])}
           Q == {i \in DOMAIN r : IsCore(r[i])}
           S == ToSet(ixs) \union ToSet(r)
           c == Taken(ixs, P)
           d == Taken(r, P)
<1>9. Core(ixs) = c /\ Core(r) = Taken(r, Q)
  BY DEF Core
<1>10. ixs \in Seq(S) /\ r \in Seq(S) /\ Len(r) = n /\ n = Len(ixs)
  BY <1>1, <1>2, <1>7 DEF IsList, n
<1>11. \A i \in 1..n : i \in P <=> i \in Q
  BY <1>1, <1>2, <1>8
<1> HIDE DEF P, Q, S
<1>12. Core(r) = d
  BY <1>9, <1>10, <1>11, TakenPlaces
<1>13. Len(c) = Len(d) /\ \A k \in 1..Len(c) : \E i \in 1..n : c[k] = ixs[i] /\ d[k] = r[i]
  BY <1>10, Together
<1> HIDE DEF c, d
<1>14. Len(c) = Len(a) /\ \A k \in 1..Len(a) : View(c[k]) = Told(a[k], Wrapped)
  BY <1>9 DEF Conveys, Shows
<1>15. ASSUME NEW k \in 1..Len(a) PROVE View(d[k]) = Told(a[k], t)
  <2>1. PICK i \in 1..n : c[k] = ixs[i] /\ d[k] = r[i]
    BY <1>13, <1>14
  <2> DEFINE w == a[k].uses
  <2>2. w \in Seq(ToSet(w))
    <3>1. Proper(a[k])
      BY ListIs DEF ProperList
    <3> QED BY <3>1 DEF Proper
  <2>3. Told(a[k], Wrapped) = <<a[k].op, a[k].program, a[k].n, w>>
    BY <2>2, ToldIs
  <2>4. Told(a[k], t) = <<a[k].op, a[k].program, a[k].n, Renamed(w, t)>>
    BY DEF Told, Renamed
  <2>5. /\ ixs[i].op = a[k].op /\ ixs[i].program = a[k].program /\ ixs[i].n = a[k].n
        /\ Unmarked(ixs[i].uses) = w
    BY <1>8, <1>14, <2>1, <2>3
  <2>6. View(r[i]) = <<ixs[i].op, ixs[i].program, ixs[i].n, Renamed(Unmarked(ixs[i].uses), t)>>
    BY <1>8
  <2> QED BY <2>1, <2>4, <2>5, <2>6
<1>16. Conveys(r, a, t)
  BY <1>12, <1>13, <1>14, <1>15 DEF Conveys, Shows
<1> QED BY <1>7, <1>16 DEF r, t

-----------------------------------------------------------------------------
(* The lists of the launchpads are proper                                  *)

\* Accounts among which the mark is not.
Clean(u) == u \in Seq(ToSet(u)) /\ Dontfront \notin ToSet(u)

LEMMA CleanIn ==
    ASSUME NEW S, NEW u \in Seq(S), Dontfront \notin S
    PROVE  Clean(u)
<1>1. u \in [1..Len(u) -> ToSet(u)] /\ Len(u) \in Nat /\ ToSet(u) \subseteq S
  BY DEF ToSet
<1>2. u \in Seq(ToSet(u))
  BY <1>1
<1> QED BY <1>1, <1>2 DEF Clean

LEMMA CleanJoin ==
    ASSUME NEW u, NEW v, Clean(u), Clean(v)
    PROVE  Clean(u \o v)
<1> DEFINE S == ToSet(u) \union ToSet(v)
<1>1. u \in Seq(S) /\ v \in Seq(S) /\ Dontfront \notin S
  BY DEF Clean
<1> HIDE DEF S
<1>2. u \o v \in Seq(S)
  BY <1>1
<1> QED BY <1>1, <1>2, CleanIn

LEMMA CleanNamed ==
    ASSUME NEW T, NEW names \in Seq(T), "dontfront" \notin T
    PROVE  Clean(Named(names))
<1> DEFINE u == Named(names)
           S == {Key(k) : k \in T}
<1>1. u = [i \in 1..Len(names) |-> Key(names[i])] /\ Len(names) \in Nat
      /\ \A i \in 1..Len(names) : names[i] \in T
  BY DEF Named
<1> HIDE DEF u
<1>2. u \in [1..Len(names) -> S]
  BY <1>1
<1>3. u \in Seq(S)
  <2> HIDE DEF S
  <2> QED BY <1>1, <1>2
<1>4. Dontfront \notin S
  BY DEF Dontfront, Key
<1> HIDE DEF S
<1>5. Clean(u)
  BY <1>3, <1>4, CleanIn
<1> QED BY <1>5 DEF u

LEMMA CleanOwn ==
    ASSUME NEW name, NEW n \in Nat
    PROVE  Clean(Own(name, n))
<1> DEFINE u == Own(name, n)
           S == {<<name, i>> : i \in 1..n}
<1>1. u \in [1..n -> S]
  BY DEF Own
<1>2. u \in Seq(S)
  <2> HIDE DEF u, S
  <2> QED BY <1>1
<1>3. Dontfront \notin S
  BY DEF Dontfront, Key
<1> HIDE DEF u, S
<1>4. Clean(u)
  BY <1>2, <1>3, CleanIn
<1> QED BY <1>4 DEF u

LEMMA CleanFew ==
    ASSUME NEW x, NEW y, NEW z, x # Dontfront, y # Dontfront, z # Dontfront
    PROVE  Clean(<<x>>) /\ Clean(<<x, y>>) /\ Clean(<<x, y, z>>)
<1> DEFINE S == {x, y, z}
<1>1. <<x>> \in Seq(S) /\ <<x, y>> \in Seq(S) /\ <<x, y, z>> \in Seq(S) /\ Dontfront \notin S
  OBVIOUS
<1> HIDE DEF S
<1> QED BY <1>1, CleanIn

LEMMA CleanOne ==
    ASSUME NEW x, x # Dontfront
    PROVE  Clean(<<x>>)
<1>1. <<x>> \in Seq({x}) /\ Dontfront \notin {x}
  OBVIOUS
<1> QED BY <1>1, CleanIn

LEMMA KeysAre ==
    /\ Owner # Dontfront /\ Mint # Dontfront /\ Wrapped # Dontfront
    /\ \A name : name # "dontfront" => Key(name) # Dontfront
    /\ \A name, n : n # 0 => <<name, n>> # Dontfront
BY DEF Owner, Mint, Wrapped, Dontfront, Key

LEMMA ProperInstr ==
    ASSUME NEW op, op \notin FeeKinds, op # "transfer", NEW program, program # "budget",
           NEW signs, NEW uses, Clean(uses), NEW data
    PROVE  Proper(Instr(op, program, signs, uses, data))
<1> DEFINE x == Instr(op, program, signs, uses, data)
<1>1. IsPlain(x)
  BY PlainInstr
<1>2. x.program = Key(program) /\ x.uses = uses
  BY DEF Instr
<1> HIDE DEF x
<1>3. Key(program) # Key("budget")
  BY DEF Key
<1>4. Proper(x)
  BY <1>1, <1>2, <1>3 DEF Proper, Clean
<1> QED BY <1>4 DEF x

LEMMA ProperTransfer ==
    ASSUME NEW name, name \notin {"dontfront", "tip"}, NEW n
    PROVE  Proper(Transfer(Key(name), n))
<1> DEFINE x == Transfer(Key(name), n)
           u == <<Owner, Key(name)>>
<1>1. IsIx(x)
  BY SettingsAre
<1>2. x.op = "transfer" /\ x.program = Key("system") /\ x.uses = u
  BY DEF Transfer, Instr
<1>3. Len(u) = 2 /\ u[2] = Key(name)
  OBVIOUS
<1>4. Clean(u)
  BY KeysAre, CleanFew
<1> HIDE DEF x, u
<1>5. Key(name) # TipAccount /\ Key("system") # Key("budget")
  BY DEF TipAccount, Key
<1>6. Proper(x)
  BY <1>1, <1>2, <1>3, <1>4, <1>5 DEF Proper, IsPlain, Clean, FeeKinds
<1> QED BY <1>6 DEF x

LEMMA ProperFew ==
    ASSUME NEW x, NEW y, NEW z, Proper(x), Proper(y), Proper(z), NEW condition
    PROVE  /\ ProperList(<<>>) /\ ProperList(<<x>>) /\ ProperList(<<x, y>>)
           /\ ProperList(<<x, y, z>>) /\ ProperList(If(condition, x))
<1>1. IsIx(x) /\ IsIx(y) /\ IsIx(z)
  BY DEF Proper, IsPlain
<1>2. ProperList(<<>>)
  BY Nobody DEF ProperList
<1>3. ProperList(<<x>>)
  BY <1>1, Single DEF ProperList
<1>4. ProperList(<<x, y>>)
  <2>1. IsList(<<x, y>>) /\ \A v \in ToSet(<<x, y>>) : Proper(v)
    BY <1>1, Pair
  <2> QED BY <2>1 DEF ProperList
<1>5. ProperList(<<x, y, z>>)
  <2>1. IsList(<<x, y, z>>) /\ \A v \in ToSet(<<x, y, z>>) : Proper(v)
    BY <1>1, Triple
  <2> QED BY <2>1 DEF ProperList
<1> QED BY <1>2, <1>3, <1>4, <1>5 DEF If

LEMMA ProperOne ==
    ASSUME NEW x, Proper(x)
    PROVE  ProperList(<<x>>)
BY ProperFew, Zenon

LEMMA ProperJoin ==
    ASSUME NEW a, NEW b, ProperList(a), ProperList(b)
    PROVE  ProperList(a \o b)
BY Concatenated DEF ProperList

LEMMA ProperAtas ==
    /\ Proper(MyTokens) /\ Proper(MyUsd1)
    /\ Proper(CreateAta(Key("my-sol"), Key("sol"), "token"))
    /\ Proper(CreateAta(Key("my-tokens"), Mint, "token-2022"))
<1>1. ASSUME NEW account, account # Dontfront, NEW mint, mint # Dontfront,
             NEW token, token # "dontfront"
      PROVE  Proper(CreateAta(account, mint, token))
  <2> DEFINE u == <<Owner, account, Owner>>
             v == <<mint, Key("system"), Key(token)>>
             w == <<Owner, account, Owner, mint, Key("system"), Key(token)>>
  <2>1. Clean(u) /\ Clean(v)
    BY <1>1, KeysAre, CleanFew
  <2>2. w = u \o v
    OBVIOUS
  <2>3. Clean(w)
    <3> HIDE DEF u, v, w
    <3> QED BY <2>1, <2>2, CleanJoin
  <2>4. CreateAta(account, mint, token) = Instr("create-ata", "ata", {Owner}, w, 1)
    BY DEF CreateAta
  <2> HIDE DEF w
  <2> QED BY <2>3, <2>4, ProperInstr DEF FeeKinds
<1> QED BY <1>1, KeysAre DEF MyTokens, MyUsd1

LEMMA ProperSwap ==
    ASSUME NEW op \in {"buy", "sell"}, NEW quote \in {"sol", "usd1"},
           NEW from, from # Dontfront, NEW to, to # Dontfront
    PROVE  Proper(BonkSwap(op, quote, from, to))
<1> DEFINE names1 == <<"auth", "config", "platform", "pool">>
           names2 == <<"vault-a", "vault-b", "mint", quote, "token", "token", "event",
                       "launchpad", "system", "platform-fees", "creator-fees">>
           T == {"auth", "config", "platform", "pool", "vault-a", "vault-b", "mint", "sol",
                 "usd1", "token", "event", "launchpad", "system", "platform-fees",
                 "creator-fees"}
           a == <<Owner>>
           b == Named(names1)
           c == <<from, to>>
           d == Named(names2)
<1>1. names1 \in Seq(T) /\ names2 \in Seq(T) /\ "dontfront" \notin T
  OBVIOUS
<1>2. Clean(a) /\ Clean(c)
  BY KeysAre, CleanFew
<1>3. Clean(b) /\ Clean(d)
  <2> HIDE DEF names1, names2, T
  <2> QED BY <1>1, CleanNamed
<1>4. BonkSwap(op, quote, from, to) = Instr(op, "launchpad", {Owner}, a \o b \o c \o d, 32)
  BY DEF BonkSwap
<1> HIDE DEF a, b, c, d
<1>5. Clean(a \o b)
  BY <1>2, <1>3, CleanJoin
<1>6. Clean(a \o b \o c)
  BY <1>2, <1>5, CleanJoin
<1>7. Clean(a \o b \o c \o d)
  BY <1>3, <1>6, CleanJoin
<1>8. op \notin FeeKinds /\ op # "transfer"
  BY DEF FeeKinds
<1> QED BY <1>4, <1>7, <1>8, ProperInstr

LEMMA ProperInitialize ==
    ASSUME NEW quote \in {"sol", "usd1"}, NEW strings
    PROVE  Proper(BonkInitialize(quote, strings))
<1> DEFINE names == <<"config", "platform", "auth", "pool", "mint", quote, "vault-a", "vault-b",
                      "metadata", "token", "token", "metadata-program", "system", "rent",
                      "event", "launchpad">>
           T == {"config", "platform", "auth", "pool", "mint", "sol", "usd1", "vault-a",
                 "vault-b", "metadata", "token", "metadata-program", "system", "rent", "event",
                 "launchpad"}
           a == <<Owner, Owner>>
           b == Named(names)
<1>1. names \in Seq(T) /\ "dontfront" \notin T
  OBVIOUS
<1>2. Clean(a)
  BY KeysAre, CleanFew
<1>3. Clean(b)
  <2> HIDE DEF names, T
  <2> QED BY <1>1, CleanNamed
<1>4. BonkInitialize(quote, strings) =
        Instr("initialize", "launchpad", {Owner, Mint}, a \o b, 72 + strings)
  BY DEF BonkInitialize
<1> HIDE DEF a, b
<1>5. Clean(a \o b)
  BY <1>2, <1>3, CleanJoin
<1> QED BY <1>4, <1>5, ProperInstr DEF FeeKinds

LEMMA ProperClmm ==
    ASSUME NEW arrays \in Nat
    PROVE  Proper(ClmmSwap(arrays))
<1> DEFINE names1 == <<"clmm-config", "clmm-pool">>
           names2 == <<"clmm-sol", "clmm-usd1", "clmm-observation", "token", "token-2022",
                       "memo", "sol", "usd1", "clmm-bitmap">>
           T == {"clmm-config", "clmm-pool", "clmm-sol", "clmm-usd1", "clmm-observation",
                 "token", "token-2022", "memo", "sol", "usd1", "clmm-bitmap"}
           a == <<Owner>>
           b == Named(names1)
           c == <<Wrapped, Key("my-usd1")>>
           d == Named(names2)
           e == Own("tick-array", arrays)
<1>1. names1 \in Seq(T) /\ names2 \in Seq(T) /\ "dontfront" \notin T
  OBVIOUS
<1>2. Clean(a) /\ Clean(c)
  BY KeysAre, CleanFew
<1>3. Clean(b) /\ Clean(d)
  <2> HIDE DEF names1, names2, T
  <2> QED BY <1>1, CleanNamed
<1>4. Clean(e)
  BY CleanOwn
<1>5. ClmmSwap(arrays) = Instr("clmm-swap", "clmm", {Owner}, a \o b \o c \o d \o e, 41)
  BY DEF ClmmSwap
<1> HIDE DEF a, b, c, d, e
<1>6. Clean(a \o b)
  BY <1>2, <1>3, CleanJoin
<1>7. Clean(a \o b \o c)
  BY <1>2, <1>6, CleanJoin
<1>8. Clean(a \o b \o c \o d)
  BY <1>3, <1>7, CleanJoin
<1>9. Clean(a \o b \o c \o d \o e)
  BY <1>4, <1>8, CleanJoin
<1> QED BY <1>5, <1>9, ProperInstr DEF FeeKinds

LEMMA ProperOpen == ProperList(OpenWrapped) /\ Proper(CloseWrapped)
<1> DEFINE x == Instr("create-account", "system", {Owner, Wrapped}, <<Owner, Wrapped>>, 52)
           y == Instr("initialize-account", "token", {}, <<Wrapped, Key("sol")>>, 33)
           z == Instr("sync", "token", {}, <<Wrapped>>, 1)
<1>1. Clean(<<Owner, Wrapped>>) /\ Clean(<<Wrapped, Key("sol")>>) /\ Clean(<<Wrapped>>)
      /\ Clean(<<Wrapped, Owner, Owner>>)
  BY KeysAre, CleanFew
<1>2. Proper(x) /\ Proper(y) /\ Proper(z) /\ Proper(CloseWrapped)
  BY <1>1, ProperInstr DEF FeeKinds, CloseWrapped
<1>3. OpenWrapped = <<x, y, z>>
  BY DEF OpenWrapped
<1> HIDE DEF x, y, z
<1> QED BY <1>2, <1>3, ProperFew

LEMMA ProperTopUp ==
    ASSUME NEW r, r.arrays \in Nat
    PROVE  ProperList(TopUpCore(r))
<1> DEFINE a == If(r.createAta \/ r.kind = "same-time-buy", MyUsd1)
           c == <<ClmmSwap(r.arrays), CloseWrapped>>
<1>1. ProperList(a)
  BY ProperAtas, ProperFew
<1>2. ProperList(c)
  BY ProperClmm, ProperOpen, ProperFew
<1>3. TopUpCore(r) = a \o OpenWrapped \o c
  BY DEF TopUpCore
<1> HIDE DEF a, c
<1>4. ProperList(a \o OpenWrapped)
  BY <1>1, ProperOpen, ProperJoin
<1>5. ProperList(a \o OpenWrapped \o c)
  BY <1>2, <1>4, ProperJoin
<1> QED BY <1>3, <1>5

LEMMA ProperLaunch ==
    ASSUME NEW r, r.quote \in {"sol", "usd1"}
    PROVE  ProperList(BonkLaunch(r))
<1> DEFINE a == <<MyTokens>>
           b == IF r.quote = "sol" THEN WrapInOwn ELSE If(r.createAta, MyUsd1)
           c == <<BonkSwap("buy", r.quote, Key("my-tokens"), OwnQuote(r))>>
           d == IF r.devBuy THEN DevBuy(r) ELSE <<>>
           e == <<BonkInitialize(r.quote, r.strings)>>
<1>1. ProperList(a) /\ ProperList(e)
  BY ProperAtas, ProperInitialize, ProperFew
<1>2. ProperList(b)
  <2>1. ProperList(If(r.createAta, MyUsd1))
    BY ProperAtas, ProperFew
  <2>2. ProperList(WrapInOwn)
    <3> DEFINE x == CreateAta(Key("my-sol"), Key("sol"), "token")
               y == Transfer(Key("my-sol"), 9)
               z == Instr("sync", "token", {}, <<Key("my-sol")>>, 1)
    <3>1. Proper(x) /\ Proper(y)
      BY ProperAtas, ProperTransfer
    <3>2. Proper(z)
      <4>1. Clean(<<Key("my-sol")>>)
        BY KeysAre, CleanFew
      <4> QED BY <4>1, ProperInstr DEF FeeKinds
    <3>3. WrapInOwn = <<x, y, z>>
      BY DEF WrapInOwn
    <3> HIDE DEF x, y, z
    <3> QED BY <3>1, <3>2, <3>3, ProperFew
  <2> QED BY <2>1, <2>2
<1>3. ProperList(c)
  <2> DEFINE x == BonkSwap("buy", r.quote, Key("my-tokens"), OwnQuote(r))
  <2>1. Key("my-tokens") # Dontfront /\ OwnQuote(r) # Dontfront
    BY DEF OwnQuote, Key, Dontfront
  <2>2. Proper(x)
    BY <2>1, ProperSwap
  <2> QED BY <2>2, ProperOne
<1>4. DevBuy(r) = a \o b \o c
  BY DEF DevBuy
<1>5. ProperList(d)
  <2>1. ProperList(<<>>)
    BY ProperAtas, ProperFew
  <2> HIDE DEF a, b, c
  <2>2. ProperList(a \o b)
    BY <1>1, <1>2, ProperJoin
  <2>3. ProperList(a \o b \o c)
    BY <1>3, <2>2, ProperJoin
  <2> QED BY <1>4, <2>1, <2>3
<1>6. BonkLaunch(r) = e \o d
  BY DEF BonkLaunch
<1> HIDE DEF d, e
<1> QED BY <1>1, <1>5, <1>6, ProperJoin

LEMMA ProperTrade ==
    ASSUME NEW r
    PROVE  ProperList(BuyCore(r)) /\ ProperList(SellCore(r))
<1> DEFINE a == <<MyTokens>>
           b == <<BonkSwap("buy", "sol", Key("my-tokens"), Wrapped), CloseWrapped>>
           c == <<BonkSwap("sell", "sol", Key("my-tokens"), Wrapped), CloseWrapped>>
           u == If(r.createAta, MyUsd1)
           d == <<BonkSwap("buy", "usd1", Key("my-tokens"), Key("my-usd1"))>>
           e == <<MyUsd1, BonkSwap("sell", "usd1", Key("my-tokens"), Key("my-usd1"))>>
<1>1. \A op \in {"buy", "sell"} :
        /\ Proper(BonkSwap(op, "sol", Key("my-tokens"), Wrapped))
        /\ Proper(BonkSwap(op, "usd1", Key("my-tokens"), Key("my-usd1")))
  BY KeysAre, ProperSwap
<1>2. ProperList(a) /\ ProperList(u) /\ ProperList(d)
  BY <1>1, ProperAtas, ProperFew
<1>3. ProperList(b) /\ ProperList(c) /\ ProperList(e)
  BY <1>1, ProperAtas, ProperOpen, ProperFew
<1>4. BuyCore(r) \in {a \o OpenWrapped \o b, a \o u \o d}
  BY DEF BuyCore
<1>5. SellCore(r) \in {OpenWrapped \o c, e}
  BY DEF SellCore
<1> HIDE DEF a, b, c, u, d, e
<1>6. ProperList(a \o OpenWrapped) /\ ProperList(OpenWrapped \o c) /\ ProperList(a \o u)
  BY <1>2, <1>3, ProperOpen, ProperJoin
<1>7. ProperList(a \o OpenWrapped \o b) /\ ProperList(a \o u \o d)
  BY <1>2, <1>3, <1>6, ProperJoin
<1> QED BY <1>3, <1>4, <1>5, <1>6, <1>7

LEMMA ProperPumpOnes ==
    ASSUME NEW k, NEW user, user # Dontfront
    PROVE  /\ Proper(PumpCreate(k)) /\ Proper(PumpExtend) /\ Proper(BuyOnCurve)
           /\ Proper(AgentInitialize) /\ Proper(SocialFee(user)) /\ Proper(ShareConfig)
           /\ Proper(UpdateShares(k))
<1> DEFINE T == {"mint", "mint-authority", "curve", "curve-tokens", "global", "owner", "system",
                 "token-2022", "ata", "mayhem", "mayhem-params", "mayhem-sol", "mayhem-state",
                 "mayhem-tokens", "event", "pump", "fee-recipient", "my-tokens",
                 "creator-vault", "volume", "my-volume", "fee-config", "fees", "curve-v2",
                 "agents-config", "agent", "agents-event", "agents", "fees-global",
                 "fees-event", "shares", "amm", "share-vault", "amm-event", "sol", "token",
                 "share-authority", "share-sol"}
<1>1. "dontfront" \notin T
  OBVIOUS
<1>2. \A names \in Seq(T) : Clean(Named(names))
  <2> HIDE DEF T
  <2> QED BY <1>1, CleanNamed
<1>3. ASSUME NEW op, op \notin FeeKinds, op # "transfer", NEW program, program # "budget",
             NEW names \in Seq(T), NEW signs, NEW data
      PROVE  Proper(Instr(op, program, signs, Named(names), data))
  <2>1. Clean(Named(names))
    BY <1>2
  <2> HIDE DEF T
  <2> QED BY <1>3, <2>1, ProperInstr
<1>4. Proper(PumpCreate(k))
  <2> DEFINE names == <<"mint", "mint-authority", "curve", "curve-tokens", "global", "owner",
                        "system", "token-2022", "ata", "mayhem", "mayhem-params", "mayhem-sol",
                        "mayhem-state", "mayhem-tokens", "event", "pump">>
  <2>1. names \in Seq(T)
    OBVIOUS
  <2>2. PumpCreate(k) = Instr("create", "pump", {Mint, Owner}, Named(names), 54 + k)
    BY DEF PumpCreate
  <2> HIDE DEF names, T
  <2> QED BY <1>3, <2>1, <2>2 DEF FeeKinds
<1>5. Proper(PumpExtend)
  <2> DEFINE names == <<"curve", "owner", "system", "event", "pump">>
  <2>1. names \in Seq(T)
    OBVIOUS
  <2>2. PumpExtend = Instr("extend", "pump", {Owner}, Named(names), 8)
    BY DEF PumpExtend
  <2> HIDE DEF names, T
  <2> QED BY <1>3, <2>1, <2>2 DEF FeeKinds
<1>6. Proper(BuyOnCurve)
  <2> DEFINE names == <<"global", "fee-recipient", "mint", "curve", "curve-tokens", "my-tokens",
                        "owner", "system", "token-2022", "creator-vault", "event", "pump",
                        "volume", "my-volume", "fee-config", "fees", "curve-v2">>
  <2>1. names \in Seq(T)
    OBVIOUS
  <2>2. BuyOnCurve = Instr("buy", "pump", {Owner}, Named(names), 25)
    BY DEF BuyOnCurve
  <2> HIDE DEF names, T
  <2> QED BY <1>3, <2>1, <2>2 DEF FeeKinds
<1>7. Proper(AgentInitialize)
  <2> DEFINE names == <<"owner", "curve", "agents-config", "mint", "agent", "system",
                        "agents-event", "agents">>
  <2>1. names \in Seq(T)
    OBVIOUS
  <2>2. AgentInitialize = Instr("agent", "agents", {Owner}, Named(names), 42)
    BY DEF AgentInitialize
  <2> HIDE DEF names, T
  <2> QED BY <1>3, <2>1, <2>2 DEF FeeKinds
<1>8. Proper(SocialFee(user))
  <2> DEFINE names1 == <<"owner">>
             names2 == <<"system", "fees-global", "fees-event", "fees">>
             a == Named(names1)
             b == <<user>>
             c == Named(names2)
  <2>1. names1 \in Seq(T) /\ names2 \in Seq(T)
    OBVIOUS
  <2>2. Clean(a) /\ Clean(c)
    <3> HIDE DEF names1, names2, T
    <3> QED BY <1>2, <2>1
  <2>3. Clean(b)
    BY CleanOne
  <2>4. SocialFee(user) = Instr("social-fee", "fees", {Owner}, a \o b \o c, 21)
    BY DEF SocialFee
  <2> HIDE DEF a, b, c
  <2>5. Clean(a \o b)
    BY <2>2, <2>3, CleanJoin
  <2>6. Clean(a \o b \o c)
    BY <2>2, <2>5, CleanJoin
  <2> QED BY <2>4, <2>6, ProperInstr DEF FeeKinds
<1>9. Proper(ShareConfig)
  <2> DEFINE names == <<"fees-event", "fees", "owner", "global", "mint", "shares", "system",
                        "curve", "pump", "event", "fees", "amm", "fees">>
  <2>1. names \in Seq(T)
    OBVIOUS
  <2>2. ShareConfig = Instr("share-config", "fees", {Owner}, Named(names), 8)
    BY DEF ShareConfig
  <2> HIDE DEF names, T
  <2> QED BY <1>3, <2>1, <2>2 DEF FeeKinds
<1>10. Proper(UpdateShares(k))
  <2> DEFINE names == <<"fees-event", "fees", "owner", "global", "mint", "shares", "curve",
                        "share-vault", "system", "pump", "event", "amm", "amm-event", "sol",
                        "token", "ata", "share-authority", "share-sol", "owner">>
  <2>1. names \in Seq(T)
    OBVIOUS
  <2>2. UpdateShares(k) =
          Instr("update-shares", "fees", {Owner}, Named(names), 12 + 34 * k)
    BY DEF UpdateShares
  <2> HIDE DEF names, T
  <2> QED BY <1>3, <2>1, <2>2 DEF FeeKinds
<1> QED BY <1>4, <1>5, <1>6, <1>7, <1>8, <1>9, <1>10

LEMMA ProperPumpLaunch ==
    ASSUME NEW r
    PROVE  ProperList(PumpLaunchOf(r))
<1> DEFINE a == If(r.creatorMissing, SocialFee(Key("creator-fee")))
           b == <<PumpCreate(r.strings)>>
           x == CreateAta(Key("my-tokens"), Mint, "token-2022")
           c == IF r.devBuy THEN <<PumpExtend, x, BuyOnCurve>> ELSE <<>>
           d == If(IsAgent(r), AgentInitialize)
<1>1. ProperList(a) /\ ProperList(b) /\ ProperList(d)
  BY KeysAre, ProperPumpOnes, ProperFew
<1>2. ProperList(c)
  <2>1. Proper(PumpExtend) /\ Proper(x) /\ Proper(BuyOnCurve)
    BY KeysAre, ProperPumpOnes, ProperAtas
  <2> HIDE DEF x
  <2> QED BY <2>1, ProperFew
<1>3. PumpLaunchOf(r) = a \o b \o c \o d
  BY DEF PumpLaunchOf
<1> HIDE DEF a, b, c, d
<1>4. ProperList(a \o b)
  BY <1>1, ProperJoin
<1>5. ProperList(a \o b \o c)
  BY <1>2, <1>4, ProperJoin
<1>6. ProperList(a \o b \o c \o d)
  BY <1>1, <1>5, ProperJoin
<1> QED BY <1>3, <1>6

LEMMA ProperPumpSetup ==
    ASSUME NEW r, r.missing \in Nat
    PROVE  ProperList(PumpSetup(r))
<1> DEFINE a == <<ShareConfig>>
           b == [i \in 1..r.missing |-> SocialFee(<<"github", i>>)]
           c == <<UpdateShares(IF r.mode = "agent-locked" THEN 1 ELSE r.recipients)>>
<1>1. ProperList(a) /\ ProperList(c)
  BY KeysAre, ProperPumpOnes, ProperFew
<1>2. /\ b = [i \in 1..r.missing |-> b[i]] /\ DOMAIN b = 1..r.missing
      /\ \A i \in 1..r.missing : Proper(b[i])
  <2>1. \A i \in 1..r.missing : Proper(SocialFee(<<"github", i>>))
    BY KeysAre, ProperPumpOnes
  <2> QED BY <2>1
<1>3. PumpSetup(r) = a \o b \o c
  BY DEF PumpSetup
<1> HIDE DEF a, b, c
<1>4. \A i \in 1..r.missing : IsIx(b[i])
  BY <1>2 DEF Proper, IsPlain
<1>5. ProperList(b)
  BY <1>2, <1>4, Tabled DEF ProperList, ToSet
<1>6. ProperList(a \o b)
  BY <1>1, <1>5, ProperJoin
<1>7. ProperList(a \o b \o c)
  BY <1>1, <1>6, ProperJoin
<1> QED BY <1>3, <1>7

LEMMA ProperService ==
    ASSUME NEW s, s.accounts \in Nat
    PROVE  ProperList(ServiceCore(s))
<1> DEFINE u == <<Owner, Mint>>
           v == Own(s.name, s.accounts)
           x == Instr("service", "bags", IF s.foreign THEN {Owner, Mint} ELSE {Owner}, u \o v, 60)
           y == Transfer(Key("bags-fees"), s.pays)
<1>1. Clean(u) /\ Clean(v)
  BY KeysAre, CleanFew, CleanOwn
<1>2. ServiceCore(s) = <<x, y>>
  BY DEF ServiceCore
<1> HIDE DEF u, v
<1>3. Proper(x)
  BY <1>1, CleanJoin, ProperInstr DEF FeeKinds
<1>4. Proper(y)
  BY ProperTransfer
<1> HIDE DEF x, y
<1> QED BY <1>2, <1>3, <1>4, ProperFew

-----------------------------------------------------------------------------
(* Lists joined                                                            *)

FlatNext(ss, q, n) == IF n = 1 THEN ss[n] ELSE q \o ss[n]

\* The recursion of FlattenSeq.
IsFlattening(f, ss) == f = [i \in 1..Len(ss) |-> FlatNext(ss, f[i - 1], i)]

LEMMA FlatteningExists ==
    ASSUME NEW S, NEW ss \in Seq(Seq(S))
    PROVE  \E f : IsFlattening(f, ss)
<1> DEFINE UpTo(n) == {f \in [1..n -> Seq(S)] :
                        \A k \in 1..n : f[k] = FlatNext(ss, f[k - 1], k)}
           T == {n \in Nat : n <= Len(ss) => UpTo(n) # {}}
<1>1. 0 \in T
  <2> DEFINE f == [k \in 1..0 |-> <<>>]
  <2>1. f \in UpTo(0)
    OBVIOUS
  <2> HIDE DEF UpTo
  <2> QED BY <2>1
<1>2. ASSUME NEW n \in T PROVE n + 1 \in T
  <2> SUFFICES ASSUME n + 1 <= Len(ss) PROVE UpTo(n + 1) # {}
    <3> HIDE DEF UpTo
    <3> QED OBVIOUS
  <2>1. Len(ss) \in Nat /\ n \in Nat /\ n <= Len(ss)
    OBVIOUS
  <2>2. PICK f \in UpTo(n) : TRUE
    <3> HIDE DEF UpTo
    <3> QED BY <2>1
  <2>3. /\ f \in [1..n -> Seq(S)] /\ \A k \in 1..n : f[k] = FlatNext(ss, f[k - 1], k)
    BY <2>2
  <2> DEFINE new == FlatNext(ss, f[n], n + 1)
             g == [k \in 1..(n + 1) |-> IF k <= n THEN f[k] ELSE new]
  <2>4. new \in Seq(S)
    <3>1. ss[n + 1] \in Seq(S)
      BY <2>1
    <3>2. CASE n = 0
      BY <3>1, <3>2 DEF FlatNext
    <3>3. CASE n # 0
      <4>1. f[n] \in Seq(S)
        BY <2>1, <2>3, <3>3
      <4> QED BY <3>1, <4>1 DEF FlatNext
    <3> QED BY <3>2, <3>3
  <2> HIDE DEF new
  <2>5. g \in [1..(n + 1) -> Seq(S)]
    BY <2>1, <2>3, <2>4
  <2>6. ASSUME NEW k \in 1..(n + 1) PROVE g[k] = FlatNext(ss, g[k - 1], k)
    <3>1. k # 1 => k - 1 \in 1..n /\ g[k - 1] = f[k - 1]
      BY <2>1
    <3>2. CASE k <= n
      <4>1. k \in 1..n /\ g[k] = f[k]
        BY <2>1, <3>2
      <4> HIDE DEF g
      <4> QED BY <2>3, <3>1, <4>1 DEF FlatNext
    <3>3. CASE ~(k <= n)
      <4>1. k = n + 1 /\ g[k] = new /\ k - 1 = n
        BY <2>1, <3>3
      <4> HIDE DEF g
      <4> QED BY <3>1, <4>1 DEF FlatNext, new
    <3> QED BY <3>2, <3>3
  <2> HIDE DEF g
  <2>7. g \in UpTo(n + 1)
    BY <2>5, <2>6
  <2> QED BY <2>7
<1>3. T = Nat
  <2>1. T \in SUBSET Nat
    OBVIOUS
  <2> HIDE DEF T
  <2> QED BY <1>1, <1>2, <2>1, SetInduction
<1>4. Len(ss) \in Nat
  OBVIOUS
<1>5. PICK f \in UpTo(Len(ss)) : TRUE
  <2> HIDE DEF UpTo
  <2>1. Len(ss) \in T
    BY <1>3, <1>4
  <2> QED BY <1>4, <2>1
<1>6. f \in [1..Len(ss) -> Seq(S)] /\ \A k \in 1..Len(ss) : f[k] = FlatNext(ss, f[k - 1], k)
  BY <1>5
<1>7. f = [n \in 1..Len(ss) |-> f[n]]
  BY <1>6
<1>8. IsFlattening(f, ss)
  BY <1>6, <1>7 DEF IsFlattening
<1> QED BY <1>8

LEMMA FlatteningIs ==
    ASSUME NEW S, NEW ss \in Seq(Seq(S)), Len(ss) # 0
    PROVE  \E f : FlattenSeq(ss) = f[Len(ss)]
                  /\ \A n \in 1..Len(ss) : f[n] = FlatNext(ss, f[n - 1], n)
<1> DEFINE f == CHOOSE f : IsFlattening(f, ss)
<1>1. IsFlattening(f, ss)
  BY FlatteningExists, Zenon
<1>2. FlattenSeq(ss) = f[Len(ss)]
  BY Zenon DEF FlattenSeq, IsFlattening, FlatNext
<1> HIDE DEF f
<1>3. \A n \in 1..Len(ss) : f[n] = FlatNext(ss, f[n - 1], n)
  BY <1>1 DEF IsFlattening
<1> QED BY <1>2, <1>3

\* What the recursion says of any function is what it says of that one.
LEMMA FlatteningOnly ==
    ASSUME NEW S, NEW ss \in Seq(Seq(S)), Len(ss) # 0, NEW g,
           \A n \in 1..Len(ss) : g[n] = FlatNext(ss, g[n - 1], n)
    PROVE  FlattenSeq(ss) = g[Len(ss)]
<1>1. PICK f : FlattenSeq(ss) = f[Len(ss)]
               /\ \A n \in 1..Len(ss) : f[n] = FlatNext(ss, f[n - 1], n)
  BY FlatteningIs
<1> DEFINE T == {n \in Nat : n \in 1..Len(ss) => f[n] = g[n]}
<1>2. Len(ss) \in Nat
  OBVIOUS
<1>3. 0 \in T
  OBVIOUS
<1>4. ASSUME NEW n \in T PROVE n + 1 \in T
  <2> SUFFICES ASSUME n + 1 \in 1..Len(ss) PROVE f[n + 1] = g[n + 1]
    OBVIOUS
  <2>1. n \in Nat /\ (n + 1) - 1 = n /\ (n # 0 => n \in 1..Len(ss))
    BY <1>2
  <2>2. f[n + 1] = FlatNext(ss, f[n], n + 1) /\ g[n + 1] = FlatNext(ss, g[n], n + 1)
    BY <1>1, <2>1
  <2>3. CASE n = 0
    BY <2>2, <2>3 DEF FlatNext
  <2>4. CASE n # 0
    <3>1. n \in 1..Len(ss)
      BY <2>1, <2>4
    <3>2. f[n] = g[n]
      BY <3>1
    <3> QED BY <2>2, <3>2
  <2> QED BY <2>3, <2>4
<1>5. T = Nat
  <2>1. T \in SUBSET Nat
    OBVIOUS
  <2> HIDE DEF T
  <2> QED BY <1>3, <1>4, <2>1, SetInduction
<1>6. Len(ss) \in 1..Len(ss)
  BY <1>2
<1>7. f[Len(ss)] = g[Len(ss)]
  BY <1>2, <1>5, <1>6
<1> QED BY <1>1, <1>7

LEMMA FlatNothing ==
    ASSUME NEW ss, Len(ss) = 0
    PROVE  FlattenSeq(ss) = ss
BY Zenon DEF FlattenSeq

LEMMA FlatOne ==
    ASSUME NEW S, NEW s \in Seq(S)
    PROVE  FlattenSeq(<<s>>) = s
<1> DEFINE ss == <<s>>
           g == [n \in 1..1 |-> s]
<1>1. ss \in Seq(Seq(S)) /\ Len(ss) = 1 /\ ss[1] = s
  OBVIOUS
<1>2. g[1] = s
  OBVIOUS
<1> HIDE DEF ss, g
<1>3. \A n \in 1..1 : g[n] = FlatNext(ss, g[n - 1], n)
  BY <1>1, <1>2 DEF FlatNext
<1>4. FlattenSeq(ss) = g[Len(ss)]
  <2>1. \A n \in 1..Len(ss) : g[n] = FlatNext(ss, g[n - 1], n)
    BY <1>1, <1>3
  <2>2. Len(ss) # 0
    BY <1>1
  <2>3. ss \in Seq(Seq(S))
    BY <1>1
  <2> QED BY <2>1, <2>2, <2>3, FlatteningOnly
<1> QED BY <1>1, <1>2, <1>4 DEF ss

LEMMA FlatAppend ==
    ASSUME NEW S, NEW ss \in Seq(Seq(S)), NEW s \in Seq(S)
    PROVE  FlattenSeq(Append(ss, s)) = FlattenSeq(ss) \o s
<1> DEFINE n == Len(ss)
           u == Append(ss, s)
<1>1. n \in Nat /\ u \in Seq(Seq(S)) /\ Len(u) = n + 1 /\ u[n + 1] = s
      /\ \A k \in 1..n : u[k] = ss[k]
  OBVIOUS
<1>2. CASE n = 0
  <2>1. ss = <<>> /\ u = <<s>>
    BY <1>2
  <2>2. FlattenSeq(ss) = ss
    BY <1>2, FlatNothing
  <2>3. FlattenSeq(<<s>>) = s
    BY FlatOne
  <2>4. <<>> \o s = s
    BY ConcatEmptySeq
  <2> HIDE DEF u
  <2> QED BY <2>1, <2>2, <2>3, <2>4 DEF u
<1>3. CASE n # 0
  <2>1. PICK f : FlattenSeq(ss) = f[n] /\ \A k \in 1..n : f[k] = FlatNext(ss, f[k - 1], k)
    BY <1>3, FlatteningIs
  <2> DEFINE last == f[n] \o s
             g == [k \in 1..(n + 1) |-> IF k <= n THEN f[k] ELSE last]
  <2> HIDE DEF n, u, last
  <2>2. g[n + 1] = last /\ \A k \in 1..n : g[k] = f[k]
    BY <1>1
  <2> HIDE DEF g
  <2>3. ASSUME NEW k \in 1..(n + 1) PROVE g[k] = FlatNext(u, g[k - 1], k)
    <3>1. CASE k \in 1..n
      <4>1. g[k] = f[k] /\ u[k] = ss[k] /\ f[k] = FlatNext(ss, f[k - 1], k)
        BY <1>1, <2>1, <2>2, <3>1
      <4>2. k # 1 => g[k - 1] = f[k - 1]
        <5>1. k # 1 => k - 1 \in 1..n
          BY <1>1, <3>1
        <5> QED BY <2>2, <5>1
      <4> QED BY <4>1, <4>2 DEF FlatNext
    <3>2. CASE k = n + 1
      <4>1. k # 1 /\ k - 1 = n /\ n \in 1..n
        BY <1>1, <1>3, <3>2
      <4>2. g[k] = last /\ u[k] = s /\ g[k - 1] = f[n]
        BY <1>1, <2>2, <3>2, <4>1
      <4> QED BY <4>1, <4>2 DEF FlatNext, last
    <3> QED BY <1>1, <3>1, <3>2
  <2>4. FlattenSeq(u) = g[Len(u)]
    <3>1. Len(u) # 0 /\ u \in Seq(Seq(S))
      BY <1>1
    <3>2. \A k \in 1..Len(u) : g[k] = FlatNext(u, g[k - 1], k)
      BY <1>1, <2>3
    <3> QED BY <3>1, <3>2, FlatteningOnly
  <2> QED BY <1>1, <2>1, <2>2, <2>4 DEF last, u
<1> QED BY <1>2, <1>3

LEMMA FlatIn ==
    ASSUME NEW S, NEW ss \in Seq(Seq(S))
    PROVE  FlattenSeq(ss) \in Seq(S)
<1> DEFINE G == {u \in Seq(Seq(S)) : FlattenSeq(u) \in Seq(S)}
           R == Seq(S)
<1>1. <<>> \in G
  <2>1. FlattenSeq(<<>>) = <<>>
    BY FlatNothing
  <2>2. <<>> \in Seq(S) /\ <<>> \in Seq(Seq(S))
    BY EmptySeq
  <2> QED BY <2>1, <2>2, Zenon
<1>2. ASSUME NEW u \in Seq(R), NEW x \in R, u \in G PROVE Append(u, x) \in G
  <2>1. FlattenSeq(Append(u, x)) = FlattenSeq(u) \o x
    BY FlatAppend
  <2>2. FlattenSeq(u) \o x \in Seq(S)
    BY <1>2
  <2>3. Append(u, x) \in Seq(Seq(S))
    OBVIOUS
  <2> QED BY <2>1, <2>2, <2>3
<1>3. ss \in Seq(R)
  OBVIOUS
<1> HIDE DEF G, R
<1>4. ss \in G
  BY <1>1, <1>2, <1>3, ListInduction
<1> QED BY <1>4 DEF G

LEMMA FlatInFront ==
    ASSUME NEW S, NEW ss \in Seq(Seq(S)), NEW s \in Seq(S)
    PROVE  FlattenSeq(<<s>> \o ss) = s \o FlattenSeq(ss)
<1> DEFINE R == Seq(S)
           e == <<s>>
           G == {u \in Seq(R) : FlattenSeq(e \o u) = s \o FlattenSeq(u)}
<1>1. e \in Seq(R) /\ ss \in Seq(R)
  OBVIOUS
<1>2. <<>> \in G
  <2>1. FlattenSeq(<<>>) = <<>>
    BY FlatNothing
  <2>2. e \o <<>> = e /\ s \o <<>> = s
    BY <1>1, ConcatEmptySeq
  <2>3. FlattenSeq(e) = s
    BY FlatOne
  <2>4. <<>> \in Seq(R)
    BY EmptySeq
  <2> HIDE DEF e, R
  <2> QED BY <2>1, <2>2, <2>3, <2>4, Zenon
<1>3. ASSUME NEW u \in Seq(R), NEW x \in R, u \in G PROVE Append(u, x) \in G
  <2> DEFINE f == FlattenSeq(u)
  <2> HIDE DEF e
  <2>1. e \o Append(u, x) = Append(e \o u, x) /\ e \o u \in Seq(R)
    BY <1>1, JoinAppend
  <2>2. FlattenSeq(Append(e \o u, x)) = FlattenSeq(e \o u) \o x
    BY <2>1, FlatAppend
  <2>3. FlattenSeq(e \o u) = s \o f
    BY <1>3
  <2>4. FlattenSeq(Append(u, x)) = f \o x
    BY FlatAppend
  <2>5. f \in Seq(S) /\ x \in Seq(S)
    BY FlatIn
  <2> HIDE DEF f
  <2>6. (s \o f) \o x = s \o (f \o x)
    BY <2>5, ConcatAssociative
  <2>7. Append(u, x) \in Seq(R)
    OBVIOUS
  <2> QED BY <2>1, <2>2, <2>3, <2>4, <2>6, <2>7
<1> HIDE DEF G, R, e
<1>4. ss \in G
  BY <1>1, <1>2, <1>3, ListInduction
<1> QED BY <1>4 DEF G, e

-----------------------------------------------------------------------------
(* What transactions tell                                                  *)

Sent(ts) == [i \in DOMAIN ts |-> Core(ts[i].ixs)]

\* Transactions ts tell what a asks for.
Sends(ts, a, t) ==
    /\ ts \in Seq(ToSet(ts)) /\ \A x \in ToSet(ts) : IsList(x.ixs)
    /\ Shows(FlattenSeq(Sent(ts)), a, t)

LEMMA ListFrom ==
    ASSUME NEW S, \A x \in S : IsIx(x), NEW a \in Seq(S)
    PROVE  IsList(a)
<1>1. ToSet(a) \subseteq S
  BY DEF ToSet
<1>2. Len(a) \in Nat /\ DOMAIN a = 1..Len(a) /\ a = [i \in 1..Len(a) |-> a[i]]
  OBVIOUS
<1>3. a \in Seq(ToSet(a))
  <2>1. \A i \in 1..Len(a) : a[i] \in ToSet(a)
    BY <1>2 DEF ToSet
  <2>2. a \in [1..Len(a) -> ToSet(a)]
    BY <1>2, <2>1
  <2> QED BY <1>2, <2>2
<1> QED BY <1>1, <1>3 DEF IsList

\* The instructions of some transactions are of one set.
LEMMA SentIn ==
    ASSUME NEW ts, ts \in Seq(ToSet(ts)), \A x \in ToSet(ts) : IsList(x.ixs)
    PROVE  LET S == UNION {ToSet(x.ixs) : x \in ToSet(ts)} IN
           /\ \A x \in S : IsIx(x)
           /\ \A x \in ToSet(ts) : Core(x.ixs) \in Seq(S)
           /\ Sent(ts) \in Seq(Seq(S)) /\ Len(Sent(ts)) = Len(ts)
<1> DEFINE S == UNION {ToSet(x.ixs) : x \in ToSet(ts)}
           v == Sent(ts)
<1>1. \A x \in S : IsIx(x)
  BY DEF IsList
<1>2. ASSUME NEW x \in ToSet(ts) PROVE Core(x.ixs) \in Seq(S)
  <2>1. ToSet(x.ixs) \subseteq S
    OBVIOUS
  <2> HIDE DEF S
  <2>2. x.ixs \in Seq(ToSet(x.ixs))
    BY DEF IsList
  <2>3. x.ixs \in Seq(S)
    BY <2>1, <2>2
  <2> QED BY <2>3, CoreIn
<1>3. Len(ts) \in Nat /\ DOMAIN ts = 1..Len(ts) /\ \A i \in 1..Len(ts) : ts[i] \in ToSet(ts)
  BY DEF ToSet
<1> HIDE DEF S
<1>4. v = [i \in 1..Len(ts) |-> v[i]] /\ \A i \in 1..Len(ts) : v[i] = Core(ts[i].ixs)
  BY <1>3 DEF Sent
<1>5. \A i \in 1..Len(ts) : v[i] \in Seq(S)
  BY <1>2, <1>3, <1>4
<1> HIDE DEF v
<1>6. v \in Seq(Seq(S)) /\ Len(v) = Len(ts)
  <2> DEFINE R == Seq(S)
  <2>1. \A i \in 1..Len(ts) : v[i] \in R
    BY <1>5
  <2> HIDE DEF R
  <2>2. v \in [1..Len(ts) -> R]
    BY <1>4, <2>1
  <2>3. v \in Seq(R) /\ Len(v) = Len(ts)
    BY <1>3, <2>2
  <2> QED BY <2>3 DEF R
<1> QED BY <1>1, <1>2, <1>6 DEF S, v

LEMMA SendsNothing ==
    ASSUME NEW t
    PROVE  Sends(<<>>, <<>>, t)
<1>1. <<>> \in Seq(ToSet(<<>>)) /\ ToSet(<<>>) = {}
  BY Nobody DEF IsList
<1>2. Sent(<<>>) = <<>>
  <2>1. DOMAIN <<>> = {}
    OBVIOUS
  <2>2. DOMAIN Sent(<<>>) = {} /\ Sent(<<>>) = [i \in {} |-> Sent(<<>>)[i]]
    BY <2>1 DEF Sent
  <2>3. <<>> = [i \in {} |-> <<>>[i]]
    OBVIOUS
  <2> QED BY <2>2, <2>3
<1>3. FlattenSeq(<<>>) = <<>>
  BY FlatNothing
<1>4. Shows(<<>>, <<>>, t)
  BY DEF Shows
<1> QED BY <1>1, <1>2, <1>3, <1>4 DEF Sends

\* The places of a list with one more at the end, or in front.
LEMMA OneMoreAt ==
    ASSUME NEW R, NEW v \in Seq(R), NEW x \in R
    PROVE  LET w == Append(v, x) IN
           /\ DOMAIN w = 1..(Len(v) + 1) /\ w = [i \in 1..(Len(v) + 1) |-> w[i]]
           /\ w[Len(v) + 1] = x /\ \A i \in 1..Len(v) : w[i] = v[i]
<1> DEFINE w == Append(v, x)
<1>1. Len(v) \in Nat /\ w \in Seq(R) /\ Len(w) = Len(v) + 1
      /\ w[Len(v) + 1] = x /\ \A i \in 1..Len(v) : w[i] = v[i]
  BY AppendProperties
<1> HIDE DEF w
<1>2. DOMAIN w = 1..(Len(v) + 1) /\ w = [i \in 1..(Len(v) + 1) |-> w[i]]
  BY <1>1
<1> QED BY <1>1, <1>2 DEF w

LEMMA OneInFrontAt ==
    ASSUME NEW R, NEW v \in Seq(R), NEW d \in Seq(R), Len(d) = 1
    PROVE  /\ Len(d \o v) = Len(v) + 1 /\ d \o v \in Seq(R)
           /\ (d \o v)[1] = d[1] /\ \A i \in 1..Len(v) : (d \o v)[i + 1] = v[i]
<1> DEFINE w == d \o v
<1>1. Len(v) \in Nat /\ w \in Seq(R)
  OBVIOUS
<1>2. /\ Len(w) = Len(d) + Len(v)
      /\ \A i \in 1..(Len(d) + Len(v)) : w[i] = IF i <= Len(d) THEN d[i] ELSE v[i - Len(d)]
  <2>1. \A p, q \in Seq(R) :
          /\ Len(p \o q) = Len(p) + Len(q)
          /\ \A i \in 1..(Len(p) + Len(q)) :
               (p \o q)[i] = IF i <= Len(p) THEN p[i] ELSE q[i - Len(p)]
    BY JoinedAt
  <2> QED BY <2>1, Zenon
<1> HIDE DEF w
<1>3. w[1] = d[1]
  BY <1>1, <1>2
<1>4. \A i \in 1..Len(v) : w[i + 1] = v[i]
  <2> TAKE i \in 1..Len(v)
  <2>1. i + 1 \in 1..(1 + Len(v)) /\ ~(i + 1 <= 1) /\ (i + 1) - 1 = i
    BY <1>1
  <2> QED BY <1>2, <2>1
<1>5. Len(w) = Len(v) + 1
  BY <1>1, <1>2
<1> QED BY <1>1, <1>3, <1>4, <1>5 DEF w

LEMMA SendsMore ==
    ASSUME NEW ts, NEW a, NEW t, Sends(ts, a, t), IsList(a),
           NEW tx, IsList(tx.ixs), NEW b, IsList(b), Conveys(tx.ixs, b, t)
    PROVE  Sends(Append(ts, tx), a \o b, t)
<1> DEFINE u == Append(ts, tx)
           c == Core(tx.ixs)
           S == UNION {ToSet(x.ixs) : x \in ToSet(u)}
           R == UNION {ToSet(x.ixs) : x \in ToSet(ts)}
           T == ToSet(ts) \union {tx}
<1>1. /\ ts \in Seq(ToSet(ts)) /\ \A x \in ToSet(ts) : IsList(x.ixs)
      /\ Shows(FlattenSeq(Sent(ts)), a, t)
  BY DEF Sends
<1>2. u \in Seq(T) /\ ToSet(u) = T
  <2>1. ts \in Seq(T) /\ tx \in T
    BY <1>1
  <2> QED BY <2>1, AppendedSet
<1> HIDE DEF u
<1>3. u \in Seq(ToSet(u)) /\ \A x \in ToSet(u) : IsList(x.ixs)
  BY <1>1, <1>2
<1>4. tx \in ToSet(u)
  BY <1>2
<1>5. (\A x \in S : IsIx(x)) /\ c \in Seq(S)
  BY <1>3, <1>4, SentIn
<1>6. (\A x \in R : IsIx(x)) /\ Sent(ts) \in Seq(Seq(R))
  BY <1>1, SentIn
<1>7. R \subseteq S
  BY <1>2
<1> HIDE DEF S, R, c
<1>8. Sent(ts) \in Seq(Seq(S))
  <2>1. Seq(R) \subseteq Seq(S)
    BY <1>7
  <2> DEFINE A == Seq(R)
             B == Seq(S)
  <2>2. A \subseteq B /\ Sent(ts) \in Seq(A)
    BY <1>6, <2>1
  <2> HIDE DEF A, B
  <2>3. Sent(ts) \in Seq(B)
    BY <2>2
  <2> QED BY <2>3 DEF B
<1>9. Sent(u) = Append(Sent(ts), c)
  <2> DEFINE n == Len(ts)
  <2>1. n \in Nat /\ DOMAIN ts = 1..n /\ DOMAIN u = 1..(n + 1) /\ u[n + 1] = tx
        /\ \A i \in 1..n : u[i] = ts[i]
    BY <1>1 DEF u
  <2>2. /\ DOMAIN Sent(ts) = 1..n /\ DOMAIN Sent(u) = 1..(n + 1)
        /\ \A i \in 1..n : Sent(ts)[i] = Core(ts[i].ixs)
        /\ \A i \in 1..(n + 1) : Sent(u)[i] = Core(u[i].ixs)
        /\ Sent(u) = [i \in 1..(n + 1) |-> Sent(u)[i]]
    BY <2>1 DEF Sent
  <2> DEFINE v == Sent(ts)
             w == Append(v, c)
  <2>3. Len(v) = n
    BY <1>1, SentIn
  <2>4. v \in Seq(Seq(S))
    BY <1>8
  <2> DEFINE R2 == Seq(S)
  <2> HIDE DEF n, v
  <2>5. /\ DOMAIN w = 1..(n + 1) /\ w = [i \in 1..(n + 1) |-> w[i]]
        /\ w[n + 1] = c /\ \A i \in 1..n : w[i] = v[i]
    <3>1. v \in Seq(R2) /\ c \in R2
      BY <1>5, <2>4
    <3> HIDE DEF R2, w
    <3>2. /\ DOMAIN w = 1..(Len(v) + 1) /\ w = [i \in 1..(Len(v) + 1) |-> w[i]]
          /\ w[Len(v) + 1] = c /\ \A i \in 1..Len(v) : w[i] = v[i]
      BY ONLY <3>1, OneMoreAt DEF w
    <3> QED BY <2>3, <3>2
  <2> HIDE DEF w
  <2>6. ASSUME NEW i \in 1..(n + 1) PROVE Sent(u)[i] = w[i]
    <3>1. CASE i \in 1..n
      BY <2>1, <2>2, <2>5, <3>1 DEF v
    <3>2. CASE i = n + 1
      BY <2>1, <2>2, <2>5, <3>2 DEF c
    <3> QED BY <2>1, <3>1, <3>2
  <2>7. Sent(u) = w
    BY <2>2, <2>5, <2>6
  <2> QED BY <2>7 DEF w, v
<1> DEFINE f == FlattenSeq(Sent(ts))
<1>10. FlattenSeq(Append(Sent(ts), c)) = f \o c
  BY <1>5, <1>8, FlatAppend
<1>11. f \in Seq(S)
  BY <1>8, FlatIn
<1> HIDE DEF f
<1>12. IsList(f) /\ IsList(c)
  BY <1>5, <1>11, ListFrom
<1>13. Shows(f, a, t) /\ Shows(c, b, t)
  BY <1>1 DEF f, c, Conveys
<1>14. Shows(f \o c, a \o b, t)
  BY <1>12, <1>13, JoinShows
<1> QED BY <1>3, <1>9, <1>10, <1>14 DEF Sends, u

\* A single transaction.
LEMMA SendsOne ==
    ASSUME NEW tx, IsList(tx.ixs)
    PROVE  \A a, t : Sends(<<tx>>, a, t) <=> Conveys(tx.ixs, a, t)
<1> DEFINE ts == <<tx>>
           c == Core(tx.ixs)
<1>1. ts \in Seq({tx}) /\ DOMAIN ts = {1} /\ ts[1] = tx /\ ToSet(ts) = {tx}
  <2>1. ts \in Seq({tx}) /\ DOMAIN ts = {1} /\ ts[1] = tx
    OBVIOUS
  <2> HIDE DEF ts
  <2>2. ToSet(ts) = {tx}
    BY <2>1 DEF ToSet
  <2> QED BY <2>1, <2>2
<1>2. Sent(ts) = [i \in {1} |-> c]
  <2> HIDE DEF ts
  <2> QED BY <1>1 DEF Sent
<1>3. [i \in {1} |-> c] = <<c>>
  <2> HIDE DEF c
  <2> QED OBVIOUS
<1>4. c \in Seq(ToSet(tx.ixs))
  BY CoreIn DEF IsList
<1> HIDE DEF ts, c
<1>5. FlattenSeq(<<c>>) = c
  BY <1>4, FlatOne
<1>6. FlattenSeq(Sent(ts)) = c
  BY <1>2, <1>3, <1>5
<1> QED BY <1>1, <1>6 DEF Sends, Conveys, ts, c

LEMMA SendsInFront ==
    ASSUME NEW ts, NEW a, NEW t, Sends(ts, a, t), IsList(a),
           NEW tx, IsList(tx.ixs), NEW b, IsList(b), Conveys(tx.ixs, b, t)
    PROVE  Sends(<<tx>> \o ts, b \o a, t)
<1> DEFINE e == <<tx>>
           u == e \o ts
           c == Core(tx.ixs)
           S == UNION {ToSet(x.ixs) : x \in ToSet(u)}
           R == UNION {ToSet(x.ixs) : x \in ToSet(ts)}
           T == ToSet(ts) \union {tx}
<1>1. /\ ts \in Seq(ToSet(ts)) /\ \A x \in ToSet(ts) : IsList(x.ixs)
      /\ Shows(FlattenSeq(Sent(ts)), a, t)
  BY DEF Sends
<1>2. u \in Seq(T) /\ ToSet(u) = T
  <2>1. e \in Seq(T) /\ ts \in Seq(T)
    BY <1>1
  <2>2. DOMAIN e = {1} /\ e[1] = tx
    OBVIOUS
  <2> HIDE DEF e, T
  <2>3. ToSet(e) = {tx}
    BY <2>2 DEF ToSet
  <2>4. u \in Seq(T) /\ ToSet(u) = ToSet(e) \union ToSet(ts)
    BY <2>1, ConcatenatedSet
  <2> QED BY <2>3, <2>4 DEF T
<1> HIDE DEF u
<1>3. u \in Seq(ToSet(u)) /\ \A x \in ToSet(u) : IsList(x.ixs)
  BY <1>1, <1>2
<1>4. tx \in ToSet(u)
  BY <1>2
<1>5. (\A x \in S : IsIx(x)) /\ c \in Seq(S)
  BY <1>3, <1>4, SentIn
<1>6. (\A x \in R : IsIx(x)) /\ Sent(ts) \in Seq(Seq(R))
  BY <1>1, SentIn
<1>7. R \subseteq S
  BY <1>2
<1> HIDE DEF S, R, c
<1>8. Sent(ts) \in Seq(Seq(S))
  <2>1. Seq(R) \subseteq Seq(S)
    BY <1>7
  <2> DEFINE A == Seq(R)
             B == Seq(S)
  <2>2. A \subseteq B /\ Sent(ts) \in Seq(A)
    BY <1>6, <2>1
  <2> HIDE DEF A, B
  <2>3. Sent(ts) \in Seq(B)
    BY <2>2
  <2> QED BY <2>3 DEF B
<1>9. Sent(u) = <<c>> \o Sent(ts)
  <2> DEFINE n == Len(ts)
             v == Sent(ts)
             d == <<c>>
             w == d \o v
  <2>1. n \in Nat /\ DOMAIN ts = 1..n /\ DOMAIN u = 1..(n + 1) /\ u[1] = tx
        /\ \A i \in 1..n : u[i + 1] = ts[i]
    BY <1>1 DEF u
  <2>2. /\ \A i \in 1..n : v[i] = Core(ts[i].ixs)
        /\ \A i \in 1..(n + 1) : Sent(u)[i] = Core(u[i].ixs)
        /\ Sent(u) = [i \in 1..(n + 1) |-> Sent(u)[i]]
    BY <2>1 DEF Sent
  <2>3. Len(v) = n
    BY <1>1, SentIn
  <2>4. v \in Seq(Seq(S))
    BY <1>8
  <2> DEFINE R2 == Seq(S)
  <2> HIDE DEF n, v
  <2>6. /\ DOMAIN w = 1..(n + 1) /\ w = [i \in 1..(n + 1) |-> w[i]]
        /\ w[1] = c /\ \A i \in 1..n : w[i + 1] = v[i]
    <3>1. v \in Seq(R2) /\ c \in R2
      BY <1>5, <2>4
    <3>2. d \in Seq(R2) /\ Len(d) = 1 /\ d[1] = c
      <4> HIDE DEF R2
      <4> QED BY <3>1
    <3> HIDE DEF R2, d
    <3>3. /\ Len(w) = Len(v) + 1 /\ w \in Seq(R2)
          /\ w[1] = d[1] /\ \A i \in 1..Len(v) : w[i + 1] = v[i]
      BY ONLY <3>1, <3>2, OneInFrontAt DEF w
    <3> HIDE DEF w
    <3>4. DOMAIN w = 1..(n + 1) /\ w = [i \in 1..(n + 1) |-> w[i]]
      BY <2>1, <2>3, <3>3
    <3> QED BY <2>3, <3>2, <3>3, <3>4
  <2> HIDE DEF w
  <2>7. ASSUME NEW i \in 1..(n + 1) PROVE Sent(u)[i] = w[i]
    <3>1. CASE i = 1
      BY <2>1, <2>2, <2>6, <3>1 DEF c
    <3>2. CASE i # 1
      <4> DEFINE k == i - 1
      <4>1. k \in 1..n /\ k + 1 = i
        BY <2>1, <3>2
      <4> HIDE DEF k
      <4>2. w[k + 1] = v[k] /\ v[k] = Core(ts[k].ixs)
        BY <2>2, <2>6, <4>1
      <4>3. Sent(u)[i] = Core(u[i].ixs) /\ u[k + 1] = ts[k]
        BY <2>1, <2>2, <4>1
      <4> QED BY <4>1, <4>2, <4>3
    <3> QED BY <3>1, <3>2
  <2>8. Sent(u) = w
    BY <2>2, <2>6, <2>7
  <2> QED BY <2>8 DEF w, v, d
<1> DEFINE f == FlattenSeq(Sent(ts))
<1>10. FlattenSeq(<<c>> \o Sent(ts)) = c \o f
  BY <1>5, <1>8, FlatInFront
<1>11. f \in Seq(S)
  BY <1>8, FlatIn
<1> HIDE DEF f
<1>12. IsList(f) /\ IsList(c)
  BY <1>5, <1>11, ListFrom
<1>13. Shows(f, a, t) /\ Shows(c, b, t)
  BY <1>1 DEF f, c, Conveys
<1>14. Shows(c \o f, b \o a, t)
  BY <1>12, <1>13, JoinShows
<1> QED BY <1>3, <1>9, <1>10, <1>14 DEF Sends, u, e

-----------------------------------------------------------------------------
(* Transactions taken apart                                                *)

LEMMA FormedTaken ==
    ASSUME NEW ixs, FormedList(ixs), NEW places
    PROVE  FormedList(Taken(ixs, places))
<1> DEFINE c == Taken(ixs, places)
<1>1. IsList(c) /\ ToSet(c) = {ixs[i] : i \in {k \in DOMAIN ixs : k \in places}}
  BY TakenList DEF FormedList
<1> HIDE DEF c
<1>2. ToSet(c) \subseteq ToSet(ixs)
  BY <1>1 DEF ToSet
<1> QED BY <1>1, <1>2 DEF FormedList, c

LEMMA RebuiltTells ==
    ASSUME NEW ixs, FormedList(ixs), NEW fees, NEW on, NEW a, NEW t, Conveys(ixs, a, t)
    PROVE  FormedList(Rebuilt(ixs, fees, on)) /\ Conveys(Rebuilt(ixs, fees, on), a, t)
<1> DEFINE limit == Max({AmountOf("limit", ixs), fees.limit})
           price == Max({AmountOf("price", ixs), fees.price})
           P == {i \in DOMAIN ixs : IsBudget(ixs[i]) /\ ixs[i].op \notin {"limit", "price"}}
           R == {i \in DOMAIN ixs : ~IsBudget(ixs[i])}
           kept == Taken(ixs, R)
           core == Protected(kept, on)
           b == If(limit > 0, LimitOf(limit))
           c == If(price > 0, PriceOf(price))
           d == Taken(ixs, P)
           e == TipToAdd(core, fees)
<1>1. Rebuilt(ixs, fees, on) = b \o c \o d \o core \o e
  BY DEF Rebuilt
<1>2. Silent(b) /\ Silent(c)
  BY FeesSilent
<1>3. Silent(e)
  BY FeesSilent DEF TipToAdd
<1>4. IsList(ixs) /\ ixs \in Seq(ToSet(ixs))
  BY DEF FormedList, IsList
<1>5. Silent(d)
  <2>1. \A i \in P : ~IsCore(ixs[i])
    BY DEF IsCore
  <2>2. P \subseteq DOMAIN ixs
    OBVIOUS
  <2> HIDE DEF P
  <2>3. FormedList(d)
    BY FormedTaken
  <2>4. ToSet(d) = {ixs[i] : i \in {k \in DOMAIN ixs : k \in P}}
    BY <1>4, TakenList
  <2> HIDE DEF d
  <2>5. \A x \in ToSet(d) : ~IsCore(x)
    BY <2>1, <2>4
  <2>6. d \in Seq(ToSet(d))
    BY <2>3 DEF FormedList, IsList
  <2>7. Core(d) = <<>>
    BY <2>5, <2>6, CoreNone
  <2> QED BY <2>3, <2>7 DEF Silent
<1>6. FormedList(kept) /\ Conveys(kept, a, t)
  <2>1. \A i \in DOMAIN ixs : IsCore(ixs[i]) => i \in R
    BY DEF IsCore
  <2> HIDE DEF R
  <2>2. Core(kept) = Core(ixs)
    BY <1>4, <2>1, CoreTaken
  <2>3. FormedList(kept)
    BY FormedTaken
  <2> QED BY <2>2, <2>3 DEF Conveys
<1> HIDE DEF b, c, d, e, kept
<1>7. FormedList(core) /\ Conveys(core, a, t)
  BY <1>6, ProtectedTells
<1> HIDE DEF core
<1>8. Silent(b \o c)
  BY <1>2, SilentJoin DEF Silent
<1>9. Silent((b \o c) \o d)
  BY <1>5, <1>8, SilentJoin DEF Silent
<1>10. FormedList(((b \o c) \o d) \o core) /\ Core(((b \o c) \o d) \o core) = Core(core)
  BY <1>7, <1>9, SilentJoin
<1>11. /\ FormedList(b \o c \o d \o core \o e)
       /\ Core(b \o c \o d \o core \o e) = Core(core)
  BY <1>3, <1>10, SilentJoin
<1> QED BY <1>1, <1>7, <1>11 DEF Conveys

LEMMA ServiceTells ==
    ASSUME NEW s, s.accounts \in Nat
    PROVE  FormedList(ServiceIxs(s)) /\ Conveys(ServiceIxs(s), ServiceCore(s), Wrapped)
<1> DEFINE a == If(s.limit > 0, LimitOf(s.limit))
           b == If(s.price > 0, PriceOf(s.price))
           c == If(s.heap, Budget("heap", 0, 5))
           d == ServiceCore(s)
           e == If(s.tip > 0, Transfer(TipAccount, s.tip))
<1>1. Silent(a) /\ Silent(b) /\ Silent(e)
  BY FeesSilent
<1>2. Silent(c)
  BY FeesSilent
<1>3. FormedList(d) /\ Conveys(d, d, Wrapped)
  BY ProperService, ProperConveys
<1>4. ServiceIxs(s) = a \o b \o c \o d \o e
  BY DEF ServiceIxs
<1> HIDE DEF a, b, c, d, e
<1>5. Silent(a \o b)
  BY <1>1, SilentJoin DEF Silent
<1>6. Silent((a \o b) \o c)
  BY <1>2, <1>5, SilentJoin DEF Silent
<1>7. FormedList(((a \o b) \o c) \o d) /\ Core(((a \o b) \o c) \o d) = Core(d)
  BY <1>3, <1>6, SilentJoin
<1>8. FormedList(a \o b \o c \o d \o e) /\ Core(a \o b \o c \o d \o e) = Core(d)
  BY <1>1, <1>7, SilentJoin
<1> QED BY <1>3, <1>4, <1>8 DEF Conveys, d

\* Rebuilt or not, a transaction of the service does what it did.
LEMMA EnsuredTells ==
    ASSUME NEW r, NEW s, s.accounts \in Nat
    PROVE  LET tx == Ensured(r, s) IN
           /\ tx.error = "none" /\ IsList(tx.ixs) /\ Conveys(tx.ixs, ServiceCore(s), Wrapped)
<1> DEFINE tx == Ensured(r, s)
           fees == IF s.bundled /\ r.secure THEN [r.fees EXCEPT !.tip = 0] ELSE r.fees
           ixs == ServiceIxs(s)
<1>1. FormedList(ixs) /\ Conveys(ixs, ServiceCore(s), Wrapped)
  BY ServiceTells
<1>2. /\ tx.error = "none"
      /\ \/ tx.ixs = ixs
         \/ \E given : /\ given.ixs = ixs
                       /\ tx.ixs = Rebuilt(Decompiled(given), fees, r.dontfront)
  BY EnsuredIs
<1> HIDE DEF tx, fees, ixs
<1>3. CASE tx.ixs = ixs
  BY <1>1, <1>2, <1>3 DEF FormedList, tx
<1>4. ASSUME NEW given, given.ixs = ixs, tx.ixs = Rebuilt(Decompiled(given), fees, r.dontfront)
      PROVE  IsList(tx.ixs) /\ Conveys(tx.ixs, ServiceCore(s), Wrapped)
  <2>1. FormedList(Decompiled(given)) /\ Conveys(Decompiled(given), ServiceCore(s), Wrapped)
    BY <1>1, <1>4, DecompiledTells
  <2>2. FormedList(tx.ixs) /\ Conveys(tx.ixs, ServiceCore(s), Wrapped)
    BY <1>4, <2>1, RebuiltTells
  <2> QED BY <2>2 DEF FormedList
<1> QED BY <1>2, <1>3, <1>4 DEF tx

-----------------------------------------------------------------------------
(* Two transactions made one                                               *)

LEMMA CoreOfSigners ==
    ASSUME NEW tx, IsList(tx.ixs), NEW fees
    PROVE  SignersOf(CoreOf(tx, fees)) \subseteq SignersOf(tx.ixs)
<1> DEFINE d == Decompiled(tx)
<1>1. IsList(d) /\ SignersOf(d) \subseteq SignersOf(tx.ixs)
  BY DecompiledIs
<1> HIDE DEF d
<1>2. \A places : SignersOf(Taken(d, places)) \subseteq SignersOf(d)
  BY <1>1, TakenList
<1> QED BY <1>1, <1>2 DEF CoreOf, d

\* A combination tells what the two tell, of one temporary account.
LEMMA CombinedTells ==
    ASSUME NEW r, NEW action, NEW loaded, NEW a, NEW b, ProperList(a), ProperList(b),
           FormedList(topUp.ixs), Conveys(topUp.ixs, a, Wrapped),
           FormedList(action.ixs), Conveys(action.ixs, b, Wrapped),
           SignersOf(topUp.ixs) \subseteq {Owner, Wrapped},
           SignersOf(action.ixs) \subseteq {Owner} \union IF r.kind = "bonk-launch" THEN {Mint} ELSE {},
           r.kind = "bonk-launch" => Mint \in SignersOf(CoreOf(action, CombinedFees(r)))
    PROVE  LET tx == Combined(r, action, loaded) IN
           tx.error = "none" =>
             /\ IsList(tx.ixs)
             /\ \E t \in {Wrapped, Anew(Wrapped)} : Conveys(tx.ixs, a \o b, t)
<1> DEFINE fees == CombinedFees(r)
           known == IF r.kind = "bonk-launch" THEN {Mint} ELSE {}
           c == CoreOf(topUp, fees)
           d == CoreOf(action, fees)
           core == c \o d
           ixs == AtomicSettings(core, fees, r.dontfront)
           missing == MissingSigners(ixs, known)
           tx == Combined(r, action, loaded)
<1>1. IsList(topUp.ixs) /\ IsList(action.ixs)
  BY DEF FormedList
<1>2. tx.error = "none" => tx.ixs = Rewritten(ixs, missing)
  BY <1>1, CombinedIs
<1> HIDE DEF fees
<1>3. /\ FormedList(c) /\ Conveys(c, a, Wrapped)
      /\ FormedList(d) /\ Conveys(d, b, Wrapped)
  BY CoreOfTells
<1>4. SignersOf(c) \subseteq {Owner, Wrapped} /\ SignersOf(d) \subseteq {Owner} \union known
  BY <1>1, CoreOfSigners
<1> HIDE DEF c, d, tx
<1>5. IsList(a) /\ IsList(b)
  BY DEF ProperList
<1>6. FormedList(core) /\ Conveys(core, a \o b, Wrapped)
  BY <1>3, <1>5, JoinConveys
<1>7. IsList(core) /\ SignersOf(core) = SignersOf(c) \union SignersOf(d)
  BY <1>3, Concatenated DEF FormedList
<1> HIDE DEF core
<1>8. SignersOf(ixs) = SignersOf(core)
  BY <1>7, AtomicSame
<1>9. FormedList(ixs) /\ Conveys(ixs, a \o b, Wrapped)
  BY <1>6, AtomicTell
<1> HIDE DEF ixs
<1>10. missing \subseteq {Wrapped}
  BY <1>4, <1>7, <1>8 DEF MissingSigners
<1> HIDE DEF missing
<1>11. ProperList(a \o b)
  BY ProperJoin
<1> DEFINE t == IF Wrapped \in missing THEN Anew(Wrapped) ELSE Wrapped
<1>12. IsList(Rewritten(ixs, missing)) /\ Conveys(Rewritten(ixs, missing), a \o b, t)
  BY <1>9, <1>10, <1>11, RewrittenTells
<1>13. t \in {Wrapped, Anew(Wrapped)}
  OBVIOUS
<1> HIDE DEF t
<1> QED BY <1>2, <1>12, <1>13 DEF tx

-----------------------------------------------------------------------------
(* The parts of a launch                                                   *)

\* Each tells its part, and together they tell all parts.
LEMMA SendsAll ==
    ASSUME NEW X, NEW ts \in Seq(X), NEW S, NEW vs \in Seq(Seq(S)), Len(vs) = Len(ts), NEW t,
           \A x \in S : IsIx(x),
           \A i \in 1..Len(ts) : IsList(ts[i].ixs) /\ Conveys(ts[i].ixs, vs[i], t)
    PROVE  Sends(ts, FlattenSeq(vs), t)
<1> DEFINE R == Seq(S)
           Told1(u, v) == \A i \in 1..Len(u) : IsList(u[i].ixs) /\ Conveys(u[i].ixs, v[i], t)
           Right(n) == \A u \in Seq(X), v \in Seq(R) :
                         Len(u) = n /\ Len(v) = n /\ Told1(u, v) => Sends(u, FlattenSeq(v), t)
           T == {n \in Nat : Right(n)}
<1>1. Right(0)
  <2> SUFFICES ASSUME NEW u \in Seq(X), NEW v \in Seq(R), Len(u) = 0, Len(v) = 0
               PROVE  Sends(u, FlattenSeq(v), t)
    BY DEF Right
  <2>1. u = <<>> /\ v = <<>>
    <3> HIDE DEF R
    <3> QED OBVIOUS
  <2>2. FlattenSeq(<<>>) = <<>>
    BY FlatNothing
  <2>3. Sends(<<>>, <<>>, t)
    BY SendsNothing
  <2> QED BY <2>1, <2>2, <2>3, Zenon
<1>2. ASSUME NEW n \in Nat, Right(n) PROVE Right(n + 1)
  <2> SUFFICES ASSUME NEW u \in Seq(X), NEW v \in Seq(R), Len(u) = n + 1, Len(v) = n + 1,
                      Told1(u, v)
               PROVE  Sends(u, FlattenSeq(v), t)
    BY DEF Right
  <2>1. PICK p \in Seq(X), x \in X : u = Append(p, x) /\ Len(p) = n
    BY LastOf
  <2>2. PICK q \in Seq(R), y \in R : v = Append(q, y) /\ Len(q) = n
    <3> HIDE DEF R
    <3> QED BY LastOf
  <2>3. u[n + 1] = x /\ \A i \in 1..n : u[i] = p[i]
    BY <2>1
  <2>4. v[n + 1] = y /\ \A i \in 1..n : v[i] = q[i]
    <3> HIDE DEF R
    <3> QED BY <2>2
  <2>5. Told1(p, q)
    <3>1. \A i \in 1..n : i \in 1..Len(u)
      OBVIOUS
    <3> QED BY <2>1, <2>3, <2>4, <3>1
  <2>6. IsList(x.ixs) /\ Conveys(x.ixs, y, t)
    <3>1. n + 1 \in 1..Len(u)
      OBVIOUS
    <3> QED BY <2>3, <2>4, <3>1
  <2> HIDE DEF Told1
  <2>7. Sends(p, FlattenSeq(q), t)
    BY <1>2, <2>1, <2>2, <2>5 DEF Right
  <2>8. y \in Seq(S) /\ FlattenSeq(q) \in Seq(S)
    BY FlatIn
  <2>9. IsList(y) /\ IsList(FlattenSeq(q))
    BY <2>8, ListFrom
  <2>10. Sends(Append(p, x), FlattenSeq(q) \o y, t)
    BY <2>6, <2>7, <2>9, SendsMore
  <2>11. FlattenSeq(Append(q, y)) = FlattenSeq(q) \o y
    BY <2>8, FlatAppend
  <2> QED BY <2>1, <2>2, <2>10, <2>11, Zenon
<1>3. T = Nat
  <2>1. T \in SUBSET Nat /\ 0 \in T
    <3> HIDE DEF Right
    <3> QED BY <1>1
  <2>2. \A n \in T : n + 1 \in T
    <3> HIDE DEF Right
    <3> QED BY <1>2
  <2> HIDE DEF T
  <2> QED BY <2>1, <2>2, SetInduction
<1>4. Len(ts) \in Nat
  OBVIOUS
<1>5. Right(Len(ts))
  <2> HIDE DEF Right
  <2> QED BY <1>3, <1>4
<1>6. Told1(ts, vs)
  OBVIOUS
<1> HIDE DEF Told1
<1>7. vs \in Seq(R)
  OBVIOUS
<1> HIDE DEF R
<1> QED BY <1>5, <1>6, <1>7 DEF Right

LEMMA HeadInFront ==
    ASSUME NEW S, NEW s \in Seq(S), s # <<>>
    PROVE  Head(s) \in S /\ Tail(s) \in Seq(S) /\ s = <<Head(s)>> \o Tail(s)
<1> DEFINE x == Head(s)
           d == <<x>>
           w == Tail(s)
           v == d \o w
<1>1. /\ Len(s) \in Nat /\ s[1] = x /\ x \in S /\ w \in Seq(S) /\ Len(w) = Len(s) - 1
      /\ \A i \in 1..(Len(s) - 1) : w[i] = s[i + 1]
  BY HeadTailProperties
<1>2. d \in Seq(S) /\ Len(d) = 1 /\ d[1] = x
  <2> HIDE DEF x
  <2> QED BY <1>1
<1> HIDE DEF x, d, w
<1>3. /\ Len(v) = Len(w) + 1 /\ v \in Seq(S)
      /\ v[1] = d[1] /\ \A i \in 1..Len(w) : v[i + 1] = w[i]
  BY <1>1, <1>2, OneInFrontAt, Zenon
<1> HIDE DEF v
<1>4. Len(v) = Len(s)
  BY <1>1, <1>3
<1>5. ASSUME NEW i \in 1..Len(s) PROVE s[i] = v[i]
  <2>1. CASE i = 1
    BY <1>1, <1>2, <1>3, <2>1
  <2>2. CASE i # 1
    <3>1. i - 1 \in 1..(Len(s) - 1) /\ (i - 1) + 1 = i
      BY <1>1, <2>2
    <3>2. i - 1 \in 1..Len(w)
      BY <1>1, <3>1
    <3>3. v[(i - 1) + 1] = w[i - 1] /\ w[i - 1] = s[(i - 1) + 1]
      BY <1>1, <1>3, <3>1, <3>2
    <3> QED BY <3>1, <3>3
  <2> QED BY <2>1, <2>2
<1>6. s = v
  <2>1. s \in Seq(S) /\ v \in Seq(S)
    BY <1>3
  <2> QED BY <1>4, <1>5, <2>1, SeqEqual
<1> QED BY <1>1, <1>6 DEF x, w, v, d

\* The instructions of a launch, in parts g and q, with s to come.
Joined(g, q, s) == FlattenSeq(Append(g, q)) \o s

\* An instruction is put at the end of the transaction being filled, or of one
\* more: what was split stays what it was.
LEMMA PartsKept ==
    ASSUME NEW S, NEW g \in Seq(Seq(S)), NEW q \in Seq(S), NEW s \in Seq(S), s # <<>>
    PROVE  /\ Joined(g, Append(q, Head(s)), Tail(s)) = Joined(g, q, s)
           /\ Joined(Append(g, q), <<Head(s)>>, Tail(s)) = Joined(g, q, s)
<1> DEFINE x == Head(s)
           d == <<x>>
           w == Tail(s)
           f == FlattenSeq(g)
           p == Append(q, x)
           h == Append(g, q)
<1>1. x \in S /\ w \in Seq(S) /\ s = d \o w
  BY HeadInFront
<1> HIDE DEF x, w
<1>2. d \in Seq(S) /\ p \in Seq(S) /\ p = q \o d
  BY <1>1, AppendIsConcat
<1> HIDE DEF d, p
<1>3. f \in Seq(S)
  BY FlatIn
<1>4. FlattenSeq(h) = f \o q
  BY FlatAppend
<1>5. FlattenSeq(Append(g, p)) = f \o p
  BY <1>2, FlatAppend
<1>6. h \in Seq(Seq(S))
  <2> DEFINE R == Seq(S)
  <2>1. g \in Seq(R) /\ q \in R
    OBVIOUS
  <2> HIDE DEF R
  <2>2. h \in Seq(R)
    BY <2>1
  <2> QED BY <2>2 DEF R
<1> HIDE DEF h
<1>7. FlattenSeq(Append(h, d)) = FlattenSeq(h) \o d
  BY <1>2, <1>6, FlatAppend
<1> HIDE DEF f
<1> DEFINE fq == f \o q
<1>8. fq \in Seq(S)
  BY <1>3
<1>9. fq \o d = f \o p
  <2>1. d \in Seq(S)
    BY <1>2
  <2>2. (f \o q) \o d = f \o (q \o d)
    BY <1>3, <2>1, ConcatAssociative
  <2> QED BY <1>2, <2>2
<1> HIDE DEF fq
<1>10. (fq \o d) \o w = fq \o s
  BY <1>1, <1>2, <1>8, ConcatAssociative
<1>11. FlattenSeq(Append(g, p)) \o w = FlattenSeq(h) \o s
  BY <1>4, <1>5, <1>9, <1>10 DEF fq
<1>12. FlattenSeq(Append(h, d)) \o w = FlattenSeq(h) \o s
  BY <1>4, <1>7, <1>10 DEF fq
<1> QED BY <1>11, <1>12 DEF p, x, w, h, d, Joined

-----------------------------------------------------------------------------
(* The invariant                                                           *)

IsBuy(r) == r.kind \in {"buy", "same-time-buy"}

\* A top-up goes in front.
Topped(r) == r.short /\ IF r.kind = "bonk-launch" THEN r.devBuy ELSE r.quote = "usd1"

\* What it goes in front of, and who else signs that.
ActionCore(r) == IF r.kind = "bonk-launch" THEN BonkLaunch(r) ELSE BuyCore(r)

CoSigners(r) == IF r.kind = "bonk-launch" THEN {Mint} ELSE {}

TopUpKept ==
    /\ FormedList(topUp.ixs) /\ Conveys(topUp.ixs, TopUpCore(order), Wrapped)
    /\ SignersOf(topUp.ixs) = {Owner, Wrapped}

ActionKept ==
    /\ txs = <<txs[1]>> /\ FormedList(txs[1].ixs)
    /\ Conveys(txs[1].ixs, ActionCore(order), Wrapped)
    /\ SignersOf(txs[1].ixs) \subseteq {Owner} \union CoSigners(order)

ServiceUpTo(r, n) == [i \in 1..n |-> ServiceCore(r.service[i])]

KeptInv ==
    /\ progress = "start" =>
         /\ topUp = NoTopUp
         /\ order.kind = "bags" =>
              /\ Len(txs) <= Len(order.service)
              /\ Sends(txs, FlattenSeq(ServiceUpTo(order, Len(txs))), Wrapped)
    /\ progress = "split" =>
         /\ Joined(groups, queue, todo) = BonkLaunch(order)
         /\ Left \subseteq ToSet(BonkLaunch(order))
    /\ progress = "topup" =>
         /\ Topped(order) /\ (order.kind = "bonk-launch" \/ IsBuy(order))
         /\ order.kind = "bonk-launch" =>
              Sends(txs, BonkLaunch(order), Wrapped) /\ (Len(txs) > 1 \/ ActionKept)
    /\ progress = "action" =>
         IF topUp = NoTopUp THEN order.kind = "sell" \/ (IsBuy(order) /\ ~Topped(order))
         ELSE IsBuy(order) /\ Topped(order) /\ TopUpKept
    /\ progress = "combine" =>
         /\ Topped(order) /\ (order.kind = "bonk-launch" \/ IsBuy(order))
         /\ TopUpKept /\ ActionKept
    /\ progress = "launch" => txs = <<>>
    /\ progress = "follow-up" => order.followUp /\ Sends(txs, PumpLaunchOf(order), Wrapped)
    /\ progress = "tip" => Sends(txs, Asked(order), Wrapped)
    /\ progress = "done" => \E t \in {Wrapped, Anew(Wrapped)} : Sends(txs, Asked(order), t)

-----------------------------------------------------------------------------
(* Every step keeps it                                                     *)

\* What is asked for, kind by kind.
LEMMA AskedIs ==
    ASSUME NEW r
    PROVE  /\ r.kind = "bonk-launch" =>
                Asked(r) = (IF r.devBuy /\ r.short THEN TopUpCore(r) ELSE <<>>) \o BonkLaunch(r)
           /\ IsBuy(r) =>
                Asked(r) = (IF r.quote = "usd1" /\ r.short THEN TopUpCore(r) ELSE <<>>) \o BuyCore(r)
           /\ r.kind = "sell" => Asked(r) = SellCore(r)
           /\ r.kind = "pump" =>
                Asked(r) = PumpLaunchOf(r) \o (IF r.followUp THEN PumpSetup(r) ELSE <<>>)
           /\ r.kind = "bags" =>
                Asked(r) = FlattenSeq([i \in DOMAIN r.service |-> ServiceCore(r.service[i])])
<1>1. ASSUME r.kind = "bonk-launch"
      PROVE  Asked(r) = (IF r.devBuy /\ r.short THEN TopUpCore(r) ELSE <<>>) \o BonkLaunch(r)
  BY <1>1, Zenon DEF Asked
<1>2. ASSUME IsBuy(r)
      PROVE  Asked(r) = (IF r.quote = "usd1" /\ r.short THEN TopUpCore(r) ELSE <<>>) \o BuyCore(r)
  <2>1. r.kind \in {"buy", "same-time-buy"} /\ r.kind # "bonk-launch"
    BY <1>2 DEF IsBuy
  <2> QED BY <2>1, Zenon DEF Asked
<1>3. ASSUME r.kind = "sell" PROVE Asked(r) = SellCore(r)
  <2>1. r.kind \notin {"buy", "same-time-buy"} /\ r.kind # "bonk-launch"
    BY <1>3
  <2> QED BY <1>3, <2>1, Zenon DEF Asked
<1>4. ASSUME r.kind = "pump"
      PROVE  Asked(r) = PumpLaunchOf(r) \o (IF r.followUp THEN PumpSetup(r) ELSE <<>>)
  <2>1. r.kind \notin {"buy", "same-time-buy"} /\ r.kind # "bonk-launch" /\ r.kind # "sell"
    BY <1>4
  <2> QED BY <1>4, <2>1, Zenon DEF Asked
<1>5. ASSUME r.kind = "bags"
      PROVE  Asked(r) = FlattenSeq([i \in DOMAIN r.service |-> ServiceCore(r.service[i])])
  <2>1. r.kind \notin {"buy", "same-time-buy"} /\ r.kind # "bonk-launch" /\ r.kind # "sell"
        /\ r.kind # "pump"
    BY <1>5
  <2> QED BY <1>5, <2>1, Zenon DEF Asked
<1> QED BY <1>1, <1>2, <1>3, <1>4, <1>5

\* With a top-up and without.
LEMMA AskedTopped ==
    ASSUME NEW r, r.kind = "bonk-launch" \/ IsBuy(r)
    PROVE  /\ Topped(r) => Asked(r) = TopUpCore(r) \o ActionCore(r)
           /\ ~Topped(r) => Asked(r) = ActionCore(r)
<1>1. CASE r.kind = "bonk-launch"
  <2>1. ActionCore(r) = BonkLaunch(r) /\ (Topped(r) <=> r.devBuy /\ r.short)
    BY <1>1 DEF ActionCore, Topped
  <2>2. Asked(r) = (IF r.devBuy /\ r.short THEN TopUpCore(r) ELSE <<>>) \o BonkLaunch(r)
    BY <1>1, AskedIs
  <2>3. <<>> \o BonkLaunch(r) = BonkLaunch(r)
    BY BonkLaunchIs, ConcatEmptySeq DEF IsList
  <2> QED BY <2>1, <2>2, <2>3
<1>2. CASE IsBuy(r)
  <2>1. r.kind # "bonk-launch"
    BY <1>2 DEF IsBuy
  <2>2. ActionCore(r) = BuyCore(r) /\ (Topped(r) <=> r.quote = "usd1" /\ r.short)
    BY <2>1 DEF ActionCore, Topped
  <2>3. Asked(r) = (IF r.quote = "usd1" /\ r.short THEN TopUpCore(r) ELSE <<>>) \o BuyCore(r)
    BY <1>2, AskedIs
  <2>4. BuyCore(r) \in Seq(ToSet(BuyCore(r)))
    BY ProperTrade DEF ProperList, IsList
  <2>5. <<>> \o BuyCore(r) = BuyCore(r)
    BY <2>4, ConcatEmptySeq
  <2> QED BY <2>2, <2>3, <2>5
<1> QED BY <1>1, <1>2

\* The assumptions on a request make its lists proper.
LEMMA ActionProper ==
    ASSUME NEW r \in Requests, r.kind = "bonk-launch" \/ IsBuy(r)
    PROVE  ProperList(TopUpCore(r)) /\ ProperList(ActionCore(r))
<1>1. r.arrays \in Nat
  BY AssembleAssumption DEF IsBuy
<1>2. ProperList(TopUpCore(r))
  BY <1>1, ProperTopUp
<1>3. CASE r.kind = "bonk-launch"
  <2>1. r.quote \in {"sol", "usd1"}
    BY <1>3, AssembleAssumption
  <2>2. ProperList(BonkLaunch(r))
    BY <2>1, ProperLaunch
  <2> QED BY <1>2, <1>3, <2>2 DEF ActionCore
<1>4. CASE r.kind # "bonk-launch"
  BY <1>2, <1>4, ProperTrade DEF ActionCore
<1> QED BY <1>3, <1>4

\* Compiled with settings, a proper list is told.
LEMMA CompiledTells ==
    ASSUME NEW core, ProperList(core), NEW fees, NEW on
    PROVE  /\ FormedList(Settings(core, fees, on)) /\ IsList(Settings(core, fees, on))
           /\ Conveys(Settings(core, fees, on), core, Wrapped)
           /\ SignersOf(Settings(core, fees, on)) = SignersOf(core)
<1>1. FormedList(core) /\ Conveys(core, core, Wrapped)
  BY ProperConveys
<1>2. FormedList(Settings(core, fees, on)) /\ Conveys(Settings(core, fees, on), core, Wrapped)
  BY <1>1, SettingsTell
<1> QED BY <1>2, SettingsSame DEF FormedList, ProperList

LEMMA KeptRefused ==
    ASSUME NEW error, Refused(error)
    PROVE  KeptInv'
BY DEF KeptInv, Refused

LEMMA KeptDone ==
    ASSUME progress' = "done", order' = order, NEW t \in {Wrapped, Anew(Wrapped)},
           Sends(txs', Asked(order), t)
    PROVE  KeptInv'
BY DEF KeptInv

LEMMA KeptInit ==
    ASSUME AssembleInit
    PROVE  KeptInv
<1>1. progress = "start" /\ topUp = NoTopUp /\ txs = <<>> /\ order \in Requests
  BY DEF AssembleInit
<1>2. ASSUME order.kind = "bags"
      PROVE  /\ Len(txs) <= Len(order.service)
             /\ Sends(txs, FlattenSeq(ServiceUpTo(order, Len(txs))), Wrapped)
  <2>1. Len(order.service) \in Nat /\ Len(txs) = 0
    BY <1>1, <1>2, AssembleAssumption
  <2>2. ServiceUpTo(order, 0) = <<>>
    BY DEF ServiceUpTo
  <2>3. FlattenSeq(<<>>) = <<>>
    BY FlatNothing
  <2>4. Sends(<<>>, <<>>, Wrapped)
    BY SendsNothing
  <2>5. Sends(txs, FlattenSeq(ServiceUpTo(order, Len(txs))), Wrapped)
    BY <1>1, <2>1, <2>2, <2>3, <2>4, Zenon
  <2> QED BY <2>1, <2>5
<1> QED BY <1>1, <1>2 DEF KeptInv

LEMMA KeptBonkStart ==
    ASSUME SignInv, KeptInv, BonkStart
    PROVE  KeptInv'
<1> DEFINE all == BonkLaunch(order)
<1>1. /\ order' = order /\ todo' = all /\ queue' = <<>> /\ groups' = <<>> /\ progress' = "split"
  BY DEF BonkStart, SignInv
<1>2. all \in Seq(ToSet(all))
  BY BonkLaunchIs DEF IsList
<1> HIDE DEF all
<1>3. FlattenSeq(Append(<<>>, <<>>)) \o all = all
  <2>1. Append(<<>>, <<>>) = <<<<>>>>
    OBVIOUS
  <2>2. <<>> \in Seq(ToSet(all))
    BY EmptySeq
  <2>3. FlattenSeq(<<<<>>>>) = <<>>
    BY <2>2, FlatOne
  <2>4. <<>> \o all = all
    BY <1>2, ConcatEmptySeq
  <2> QED BY <2>1, <2>3, <2>4, Zenon
<1>4. Left' = ToSet(all)
  <2>1. ToSet(<<>>) = {}
    BY Nobody
  <2> QED BY <1>1, <2>1 DEF Left
<1>5. Joined(groups', queue', todo') = BonkLaunch(order')
  BY <1>1, <1>3, Zenon DEF all, Joined
<1>6. Left' \subseteq ToSet(BonkLaunch(order'))
  BY <1>1, <1>4 DEF all
<1> QED BY <1>1, <1>5, <1>6 DEF KeptInv

\* The lists that are not compiled yet, of one set.
LEMMA PartsIn ==
    ASSUME SplitInv
    PROVE  /\ groups \in Seq(Seq(Left)) /\ queue \in Seq(Left) /\ todo \in Seq(Left)
           /\ \A x \in Left : IsIx(x)
<1> DEFINE S == Left
           R == Seq(S)
<1>1. /\ OfLaunch(todo) /\ OfLaunch(queue)
      /\ groups \in Seq(ToSet(groups)) /\ \A g \in ToSet(groups) : OfLaunch(g)
  BY DEF SplitInv
<1>2. /\ ToSet(todo) \subseteq S /\ ToSet(queue) \subseteq S
      /\ \A g \in ToSet(groups) : ToSet(g) \subseteq S
  BY DEF Left
<1>3. \A a : OfLaunch(a) => a \in Seq(ToSet(a)) /\ \A x \in ToSet(a) : IsIx(x)
  BY DEF OfLaunch, IsList
<1>4. \A x \in S : IsIx(x)
  BY <1>1, <1>3 DEF Left
<1> HIDE DEF S
<1>5. \A a : OfLaunch(a) /\ ToSet(a) \subseteq S => a \in R
  <2> SUFFICES ASSUME NEW a, OfLaunch(a), ToSet(a) \subseteq S PROVE a \in Seq(S)
    OBVIOUS
  <2>1. a \in Seq(ToSet(a))
    BY <1>3
  <2> QED BY <2>1, SeqMonotonic
<1>6. queue \in R /\ todo \in R
  BY <1>1, <1>2, <1>5
<1>7. ToSet(groups) \subseteq R
  BY <1>1, <1>2, <1>5
<1> HIDE DEF R
<1>8. groups \in Seq(R)
  BY <1>1, <1>7, SeqMonotonic
<1> QED BY <1>4, <1>6, <1>8 DEF R, S

LEMMA KeptSplit ==
    ASSUME SignInv, KeptInv, Split
    PROVE  KeptInv'
<1>1. /\ order' = order /\ progress = "split" /\ progress' = "split"
      /\ todo # <<>> /\ todo' = Tail(todo)
      /\ \/ queue' = Append(queue, Head(todo)) /\ groups' = groups
         \/ queue' = <<Head(todo)>> /\ groups' = Append(groups, queue)
  BY DEF Split
<1>2. Left' = Left
  BY SplitKeeps
<1>3. /\ Joined(groups, queue, todo) = BonkLaunch(order)
      /\ Left \subseteq ToSet(BonkLaunch(order)) /\ SplitInv
  BY <1>1 DEF KeptInv, SignInv
<1>4. groups \in Seq(Seq(Left)) /\ queue \in Seq(Left) /\ todo \in Seq(Left)
  BY <1>3, PartsIn
<1>5. /\ Joined(groups, Append(queue, Head(todo)), Tail(todo)) = Joined(groups, queue, todo)
      /\ Joined(Append(groups, queue), <<Head(todo)>>, Tail(todo)) = Joined(groups, queue, todo)
  <2> DEFINE S == Left
  <2>1. groups \in Seq(Seq(S)) /\ queue \in Seq(S) /\ todo \in Seq(S) /\ todo # <<>>
    BY <1>1, <1>4
  <2> HIDE DEF S
  <2> QED BY <2>1, PartsKept
<1>6. Joined(groups', queue', todo') = BonkLaunch(order)
  BY <1>1, <1>3, <1>5
<1> QED BY <1>1, <1>2, <1>3, <1>6 DEF KeptInv

LEMMA KeptGroups ==
    ASSUME SignInv, KeptInv, CompileGroups
    PROVE  KeptInv'
<1>1. CASE Refused("size")
  BY <1>1, KeptRefused
<1>2. ASSUME ~Refused("size") PROVE KeptInv'
  <2>1. PICK all, n :
          /\ n \in Nat /\ n >= 1 /\ Len(txs') = n /\ DOMAIN txs' = 1..n
          /\ txs' \in Seq(ToSet(txs'))
          /\ \A i \in 1..n :
               /\ OfLaunch(all[i]) /\ ToSet(all[i]) \subseteq Left
               /\ txs'[i].ixs = Settings(all[i], BundleFees(order, i, n), order.dontfront)
          /\ n = 1 => BonkInitialize(order.quote, order.strings) \in ToSet(all[1])
          /\ progress' \in {"topup", "done"}
          /\ order' = order /\ topUp' = topUp /\ why' = why
          /\ all = Append(groups, queue) /\ n = Len(all)
          /\ progress' = IF order.devBuy /\ order.short THEN "topup" ELSE "done"
    BY <1>2, GroupsCompiled
  <2>2. progress = "split" /\ todo = <<>> /\ SplitInv /\ order \in Requests
    BY DEF CompileGroups, SignInv
  <2>3. /\ Joined(groups, queue, todo) = BonkLaunch(order)
        /\ Left \subseteq ToSet(BonkLaunch(order)) /\ order.kind = "bonk-launch"
    BY <2>2 DEF KeptInv, SplitInv
  <2>4. ProperList(BonkLaunch(order)) /\ ActionCore(order) = BonkLaunch(order)
    BY <2>2, <2>3, ActionProper DEF ActionCore
  <2>5. ASSUME NEW i \in 1..n
        PROVE  /\ FormedList(txs'[i].ixs) /\ IsList(txs'[i].ixs)
               /\ Conveys(txs'[i].ixs, all[i], Wrapped)
               /\ SignersOf(txs'[i].ixs) \subseteq {Owner, Mint}
    <3>1. ToSet(all[i]) \subseteq ToSet(BonkLaunch(order)) /\ OfLaunch(all[i])
      BY <2>1, <2>3
    <3>2. ProperList(all[i])
      BY <2>4, <3>1 DEF ProperList, OfLaunch
    <3>3. txs'[i].ixs = Settings(all[i], BundleFees(order, i, n), order.dontfront)
      BY <2>1
    <3>4. /\ FormedList(txs'[i].ixs) /\ IsList(txs'[i].ixs)
          /\ Conveys(txs'[i].ixs, all[i], Wrapped)
          /\ SignersOf(txs'[i].ixs) = SignersOf(all[i])
      BY <3>2, <3>3, CompiledTells
    <3> QED BY <3>1, <3>4 DEF OfLaunch
  <2> DEFINE S == Left
             R == Seq(S)
             X == ToSet(txs')
  <2>6. groups \in Seq(R) /\ queue \in R /\ \A x \in S : IsIx(x)
    BY <2>2, PartsIn
  <2>7. all \in Seq(Seq(S)) /\ Len(all) = n
    <3>1. Len(all) = n
      BY <2>1
    <3>2. all \in Seq(R)
      <4> HIDE DEF R
      <4> QED BY <2>1, <2>6
    <3> QED BY <3>1, <3>2
  <2>8. txs' \in Seq(X)
    BY <2>1
  <2> HIDE DEF S, X
  <2>9. Sends(txs', FlattenSeq(all), Wrapped)
    BY <2>1, <2>5, <2>6, <2>7, <2>8, SendsAll
  <2>10. FlattenSeq(all) = BonkLaunch(order)
    <3> DEFINE f == FlattenSeq(all)
    <3>1. f \in Seq(S)
      BY <2>7, FlatIn
    <3>2. f \o todo = BonkLaunch(order)
      BY <2>1, <2>3 DEF Joined
    <3> HIDE DEF f
    <3>3. f \o <<>> = f
      BY <3>1, ConcatEmptySeq
    <3> QED BY <2>2, <3>2, <3>3 DEF f
  <2>11. Sends(txs', BonkLaunch(order), Wrapped)
    BY <2>9, <2>10
  <2>12. CASE order.devBuy /\ order.short
    <3>1. Topped(order) /\ progress' = "topup"
      BY <2>1, <2>3, <2>12 DEF Topped
    <3>2. ASSUME ~(Len(txs') > 1) PROVE ActionKept'
      <4>1. n = 1 /\ 1 \in 1..n
        BY <2>1, <3>2
      <4>2. txs' = <<txs'[1]>>
        BY <2>1, <4>1
      <4>3. Sends(<<txs'[1]>>, BonkLaunch(order), Wrapped)
        BY <2>11, <4>2
      <4>4. Conveys(txs'[1].ixs, BonkLaunch(order), Wrapped)
        BY <2>5, <4>1, <4>3, SendsOne
      <4>5. CoSigners(order) = {Mint}
        BY <2>3 DEF CoSigners
      <4> QED BY <2>1, <2>4, <2>5, <4>1, <4>2, <4>4, <4>5 DEF ActionKept
    <3> QED BY <2>1, <2>3, <2>11, <3>1, <3>2 DEF KeptInv
  <2>13. CASE ~(order.devBuy /\ order.short)
    <3>1. ~Topped(order) /\ progress' = "done"
      BY <2>1, <2>3, <2>13 DEF Topped
    <3>2. Asked(order) = BonkLaunch(order)
      BY <2>3, <2>4, <3>1, AskedTopped
    <3> QED BY <2>1, <2>11, <3>1, <3>2, KeptDone
  <2> QED BY <2>12, <2>13
<1> QED BY <1>1, <1>2

LEMMA TopUpTold ==
    ASSUME NEW r, NEW loaded, ProperList(TopUpCore(r)), TopUpTx(r, loaded).error = "none"
    PROVE  LET ixs == TopUpTx(r, loaded).ixs IN
           /\ FormedList(ixs) /\ IsList(ixs) /\ Conveys(ixs, TopUpCore(r), Wrapped)
           /\ SignersOf(ixs) = {Owner, Wrapped}
<1> DEFINE ixs == Settings(TopUpCore(r), TopUpFees(r), r.dontfront)
<1>1. CanSign({Wrapped}, ixs)
  BY TopUpCoreIs, SettingsSame DEF CanSign
<1>2. TopUpTx(r, loaded) = BonkCompiled("v0", {Wrapped}, ixs, <<>>, loaded)
  BY Zenon DEF TopUpTx
<1>3. /\ FormedList(ixs) /\ IsList(ixs) /\ Conveys(ixs, TopUpCore(r), Wrapped)
      /\ SignersOf(ixs) = {Owner, Wrapped}
  BY CompiledTells, TopUpCoreIs
<1> HIDE DEF ixs
<1>4. TopUpTx(r, loaded).ixs = ixs
  BY <1>1, <1>2, BonkCompiledIs
<1> QED BY <1>3, <1>4

LEMMA KeptTopUp ==
    ASSUME SignInv, KeptInv, CompileTopUp
    PROVE  KeptInv'
<1>1. progress = "topup" /\ order \in Requests
  BY DEF CompileTopUp, SignInv
<1>2. PICK loaded :
        LET tx == TopUpTx(order, loaded) IN
        IF tx.error # "none" THEN Refused(tx.error)
        ELSE /\ topUp' = tx
             /\ IF Len(txs) > 1
                THEN txs' = <<tx>> \o txs /\ why' = "several" /\ progress' = "done"
                ELSE txs' = txs /\ why' = why
                     /\ progress' = IF order.kind = "bonk-launch" THEN "combine" ELSE "action"
             /\ UNCHANGED <<order, todo, queue, groups, tables>>
  BY DEF CompileTopUp
<1> DEFINE tx == TopUpTx(order, loaded)
<1>3. /\ Topped(order) /\ (order.kind = "bonk-launch" \/ IsBuy(order))
      /\ order.kind = "bonk-launch" =>
           Sends(txs, BonkLaunch(order), Wrapped) /\ (Len(txs) > 1 \/ ActionKept)
      /\ order.kind # "bonk-launch" => txs = <<>>
  BY <1>1 DEF KeptInv, SignInv
<1>4. ProperList(TopUpCore(order)) /\ ProperList(ActionCore(order))
  BY <1>1, <1>3, ActionProper
<1>5. CASE tx.error # "none"
  BY <1>2, <1>5, KeptRefused
<1>6. CASE tx.error = "none"
  <2>1. topUp' = tx /\ order' = order
    BY <1>2, <1>6
  <2>2. /\ FormedList(tx.ixs) /\ IsList(tx.ixs) /\ Conveys(tx.ixs, TopUpCore(order), Wrapped)
        /\ SignersOf(tx.ixs) = {Owner, Wrapped}
    BY <1>4, <1>6, TopUpTold
  <2>3. TopUpKept'
    <3> HIDE DEF tx
    <3> QED BY <2>1, <2>2 DEF TopUpKept
  <2>4. CASE Len(txs) > 1
    <3>1. txs' = <<tx>> \o txs /\ progress' = "done"
      BY <1>2, <1>6, <2>4
    <3> HIDE DEF tx
    <3>2. order.kind = "bonk-launch"
      <4>1. Len(<<>>) = 0
        OBVIOUS
      <4> QED BY <1>3, <2>4, <4>1
    <3>3. ActionCore(order) = BonkLaunch(order)
      BY <3>2 DEF ActionCore
    <3>4. IsList(TopUpCore(order)) /\ IsList(BonkLaunch(order))
      BY <1>4, <3>3 DEF ProperList
    <3>5. Sends(txs', TopUpCore(order) \o BonkLaunch(order), Wrapped)
      BY <1>3, <2>2, <3>1, <3>2, <3>4, SendsInFront
    <3>6. Asked(order) = TopUpCore(order) \o BonkLaunch(order)
      BY <1>3, <3>3, AskedTopped
    <3>7. Sends(txs', Asked(order), Wrapped)
      BY <3>5, <3>6
    <3> QED BY <2>1, <3>1, <3>7, KeptDone
  <2>5. CASE ~(Len(txs) > 1)
    <3>1. txs' = txs /\ progress' = IF order.kind = "bonk-launch" THEN "combine" ELSE "action"
      BY <1>2, <1>6, <2>5
    <3> HIDE DEF tx
    <3>2. CASE order.kind = "bonk-launch"
      <4>1. ActionKept'
        BY <1>3, <2>1, <2>5, <3>1, <3>2 DEF ActionKept
      <4>2. progress' = "combine"
        BY <3>1, <3>2
      <4> QED BY <1>3, <2>1, <2>3, <4>1, <4>2 DEF KeptInv
    <3>3. CASE order.kind # "bonk-launch"
      <4>1. IsBuy(order) /\ progress' = "action"
        BY <1>3, <3>1, <3>3
      <4>2. tx # NoTopUp
        <5>1. NoTopUp.ixs = <<>>
          BY DEF NoTopUp, NoTx
        <5>2. SignersOf(NoTopUp.ixs) = {Owner}
          BY <5>1, Nobody
        <5>3. Owner # Wrapped
          BY DEF Owner, Wrapped, Key
        <5> QED BY <2>2, <5>2, <5>3
      <4> QED BY <1>3, <2>1, <2>3, <4>1, <4>2 DEF KeptInv
    <3> QED BY <3>2, <3>3
  <2> QED BY <2>4, <2>5
<1> QED BY <1>5, <1>6

\* What a combination is made of, and that it tells all of it.
LEMMA CombinationTells ==
    ASSUME SignInv, KeptInv, progress = "combine",
           NEW tx \in CombinedOrError(order, txs[1]), tx.error = "none"
    PROVE  \E t \in {Wrapped, Anew(Wrapped)} : Sends(<<tx>>, Asked(order), t)
<1> DEFINE a == TopUpCore(order)
           b == ActionCore(order)
           one == txs[1]
<1>1. /\ Topped(order) /\ (order.kind = "bonk-launch" \/ IsBuy(order))
      /\ TopUpKept /\ ActionKept /\ Combinable /\ order \in Requests
  BY DEF KeptInv, SignInv
<1>2. ProperList(a) /\ ProperList(b)
  BY <1>1, ActionProper
<1>3. Asked(order) = a \o b
  BY <1>1, AskedTopped
<1>4. NoTx("rpc").error = "rpc"
  BY DEF NoTx
<1>5. PICK loaded : tx = Combined(order, one, loaded)
  BY <1>4 DEF CombinedOrError
<1>6. order.kind = "bonk-launch" => Mint \in SignersOf(CoreOf(one, CombinedFees(order)))
  BY <1>1 DEF Combinable, CombinedFees
<1> HIDE DEF a, b, one
<1>7. /\ FormedList(topUp.ixs) /\ Conveys(topUp.ixs, a, Wrapped)
      /\ SignersOf(topUp.ixs) \subseteq {Owner, Wrapped}
  BY <1>1 DEF TopUpKept, a
<1>8. /\ FormedList(one.ixs) /\ Conveys(one.ixs, b, Wrapped)
      /\ SignersOf(one.ixs) \subseteq
           {Owner} \union IF order.kind = "bonk-launch" THEN {Mint} ELSE {}
  BY <1>1 DEF ActionKept, CoSigners, b, one
<1>9. /\ IsList(tx.ixs)
      /\ \E t \in {Wrapped, Anew(Wrapped)} : Conveys(tx.ixs, a \o b, t)
  BY <1>2, <1>5, <1>6, <1>7, <1>8, CombinedTells
<1> QED BY <1>3, <1>9, SendsOne

LEMMA KeptCombine ==
    ASSUME SignInv, KeptInv, Combine
    PROVE  KeptInv'
<1>1. PICK tx \in CombinedOrError(order, txs[1]) :
        txs' = IF tx.error = "none" THEN <<tx>> ELSE <<topUp>> \o txs
  BY DEF Combine
<1>2. /\ progress = "combine" /\ order.kind = "bonk-launch"
      /\ progress' = "done" /\ order' = order
  BY DEF Combine
<1>3. CASE tx.error = "none"
  <2>1. PICK t \in {Wrapped, Anew(Wrapped)} : Sends(<<tx>>, Asked(order), t)
    BY <1>2, <1>3, CombinationTells
  <2>2. Sends(txs', Asked(order), t)
    BY <1>1, <1>3, <2>1
  <2> QED BY <1>2, <2>2, KeptDone
<1>4. CASE tx.error # "none"
  <2>1. Topped(order) /\ TopUpKept /\ ActionKept /\ order \in Requests
    BY <1>2 DEF KeptInv, SignInv
  <2>2. ProperList(TopUpCore(order)) /\ ProperList(ActionCore(order))
    BY <1>2, <2>1, ActionProper
  <2> DEFINE a == TopUpCore(order)
             b == ActionCore(order)
             x == txs[1]
  <2>3. IsList(a) /\ IsList(b)
    BY <2>2 DEF ProperList
  <2>4. /\ IsList(topUp.ixs) /\ Conveys(topUp.ixs, a, Wrapped)
        /\ IsList(x.ixs) /\ Conveys(x.ixs, b, Wrapped) /\ txs = <<x>>
    BY <2>1 DEF TopUpKept, ActionKept, FormedList
  <2>5. Asked(order) = a \o b
    BY <1>2, <2>1, AskedTopped
  <2> HIDE DEF a, b, x
  <2>6. Sends(<<x>>, b, Wrapped)
    BY <2>4, SendsOne
  <2>7. Sends(txs, b, Wrapped)
    BY <2>4, <2>6
  <2>8. Sends(<<topUp>> \o txs, a \o b, Wrapped)
    BY <2>3, <2>4, <2>7, SendsInFront
  <2>9. Sends(txs', Asked(order), Wrapped)
    BY <1>1, <1>4, <2>5, <2>8
  <2> QED BY <1>2, <2>9, KeptDone
<1> QED BY <1>3, <1>4

LEMMA KeptCombineBuy ==
    ASSUME SignInv, KeptInv, CombineBuy
    PROVE  KeptInv'
<1>1. PICK tx \in CombinedOrError(order, txs[1]) :
        IF tx.error # "none" THEN Refused(tx.error)
        ELSE /\ txs' = <<tx>> /\ progress' = "done"
             /\ UNCHANGED <<order, todo, queue, groups, tables, topUp, why>>
  BY DEF CombineBuy
<1>2. progress = "combine"
  BY DEF CombineBuy
<1>3. CASE tx.error # "none"
  BY <1>1, <1>3, KeptRefused
<1>4. CASE tx.error = "none"
  <2>1. PICK t \in {Wrapped, Anew(Wrapped)} : Sends(<<tx>>, Asked(order), t)
    BY <1>2, <1>4, CombinationTells
  <2>2. progress' = "done" /\ order' = order /\ txs' = <<tx>>
    BY <1>1, <1>4
  <2>3. Sends(txs', Asked(order), t)
    BY <2>1, <2>2
  <2> QED BY <2>2, <2>3, KeptDone
<1> QED BY <1>3, <1>4

LEMMA KeptTradeStart ==
    ASSUME SignInv, KeptInv, TradeStart
    PROVE  KeptInv'
<1>1. /\ progress = "start" /\ order.kind \in {"buy", "same-time-buy", "sell"}
      /\ progress' = IF order.kind # "sell" /\ order.quote = "usd1" /\ order.short
                     THEN "topup" ELSE "action"
      /\ order' = order /\ topUp' = topUp
  BY DEF TradeStart
<1>2. topUp = NoTopUp
  BY <1>1 DEF KeptInv
<1>3. CASE order.kind # "sell" /\ order.quote = "usd1" /\ order.short
  <2>1. progress' = "topup" /\ IsBuy(order) /\ Topped(order) /\ order.kind # "bonk-launch"
    BY <1>1, <1>3 DEF IsBuy, Topped
  <2> QED BY <1>1, <2>1 DEF KeptInv
<1>4. CASE ~(order.kind # "sell" /\ order.quote = "usd1" /\ order.short)
  <2>1. progress' = "action" /\ (order.kind = "sell" \/ (IsBuy(order) /\ ~Topped(order)))
    BY <1>1, <1>4 DEF IsBuy, Topped
  <2> QED BY <1>1, <1>2, <2>1 DEF KeptInv
<1> QED BY <1>3, <1>4

LEMMA KeptTrade ==
    ASSUME SignInv, KeptInv, CompileTrade
    PROVE  KeptInv'
<1> DEFINE keys == IF order.quote = "sol" THEN {Wrapped} ELSE {}
           core == TradeCore(order)
           ixs == Settings(core, order.fees, order.dontfront)
           next == IF topUp = NoTopUp THEN "done" ELSE "combine"
<1>1. progress = "action" /\ order.kind # "bonk-launch" /\ txs = <<>> /\ order \in Requests
  BY DEF CompileTrade, SignInv
<1>2. PICK loaded : Adds(BonkCompiled(TradeFormat(order), keys, ixs, <<>>, loaded), next)
  BY DEF CompileTrade
<1>3. SignersOf(core) = {Owner} \union keys
  BY TradeCoreIs
<1>4. ProperList(core)
  BY ProperTrade DEF TradeCore
<1> HIDE DEF core
<1>5. /\ FormedList(ixs) /\ IsList(ixs) /\ Conveys(ixs, core, Wrapped)
      /\ SignersOf(ixs) = SignersOf(core)
  BY <1>4, CompiledTells
<1> HIDE DEF keys, ixs
<1>6. CanSign(keys, ixs)
  BY <1>3, <1>5 DEF CanSign
<1> DEFINE tx == BonkCompiled(TradeFormat(order), keys, ixs, <<>>, loaded)
<1>7. tx.error = "none" => tx.ixs = ixs
  BY <1>6, BonkCompiledIs
<1> HIDE DEF next
<1>8. Adds(tx, next)
  BY <1>2
<1> HIDE DEF tx
<1>9. CASE tx.error # "none"
  BY <1>8, <1>9, KeptRefused DEF Adds
<1>10. CASE tx.error = "none"
  <2>1. txs' = <<tx>> /\ progress' = next /\ order' = order /\ topUp' = topUp
    <3>1. txs' = Append(txs, tx) /\ progress' = next /\ order' = order /\ topUp' = topUp
      BY <1>8, <1>10 DEF Adds
    <3>2. Append(<<>>, tx) = <<tx>>
      OBVIOUS
    <3> QED BY <1>1, <3>1, <3>2
  <2>2. FormedList(tx.ixs) /\ IsList(tx.ixs) /\ Conveys(tx.ixs, core, Wrapped)
        /\ SignersOf(tx.ixs) = {Owner} \union keys
    BY <1>3, <1>5, <1>7, <1>10
  <2>3. Sends(txs', core, Wrapped)
    BY <2>1, <2>2, SendsOne
  <2>4. IF topUp = NoTopUp THEN order.kind = "sell" \/ (IsBuy(order) /\ ~Topped(order))
        ELSE IsBuy(order) /\ Topped(order) /\ TopUpKept
    BY <1>1 DEF KeptInv
  <2>5. CASE topUp = NoTopUp
    <3>1. next = "done"
      BY <2>5 DEF next
    <3>2. Asked(order) = core
      <4>1. CASE order.kind = "sell"
        BY <4>1, AskedIs DEF core, TradeCore
      <4>2. CASE order.kind # "sell"
        <5>1. IsBuy(order) /\ ~Topped(order)
          BY <2>4, <2>5, <4>2
        <5> QED BY <1>1, <4>2, <5>1, AskedTopped DEF ActionCore, core, TradeCore
      <4> QED BY <4>1, <4>2
    <3>3. Sends(txs', Asked(order), Wrapped)
      BY <2>3, <3>2
    <3> QED BY <2>1, <3>1, <3>3, KeptDone
  <2>6. CASE topUp # NoTopUp
    <3>1. IsBuy(order) /\ Topped(order) /\ TopUpKept /\ next = "combine"
      BY <2>4, <2>6 DEF next
    <3>2. core = ActionCore(order)
      BY <1>1, <3>1 DEF core, TradeCore, ActionCore, IsBuy
    <3>3. keys = {}
      BY <1>1, <3>1 DEF keys, Topped
    <3>4. txs'[1] = tx
      BY <2>1
    <3>5. ActionKept'
      BY <2>1, <2>2, <3>2, <3>3, <3>4 DEF ActionKept
    <3>6. TopUpKept'
      BY <2>1, <3>1 DEF TopUpKept
    <3> QED BY <2>1, <3>1, <3>5, <3>6 DEF KeptInv
  <2> QED BY <2>5, <2>6
<1> QED BY <1>9, <1>10

LEMMA KeptPumpStart ==
    ASSUME SignInv, KeptInv, PumpStart
    PROVE  KeptInv'
<1>1. txs = <<>>
  BY DEF SignInv, PumpStart
<1>2. Refused("tables") \/ (progress' = "launch" /\ txs' = txs)
  BY DEF PumpStart
<1>3. CASE Refused("tables")
  BY <1>3, KeptRefused
<1>4. CASE progress' = "launch" /\ txs' = txs
  BY <1>1, <1>4 DEF KeptInv
<1> QED BY <1>2, <1>3, <1>4

\* The setup was added, or there is none: a separate tip may follow.
LEMMA KeptAfterSetup ==
    ASSUME order' = order, progress' = AfterSetup(order), Sends(txs', Asked(order), Wrapped)
    PROVE  KeptInv'
<1>1. CASE progress' = "done"
  BY <1>1, KeptDone
<1>2. CASE progress' = "tip"
  BY <1>2 DEF KeptInv
<1> QED BY <1>1, <1>2 DEF AfterSetup

LEMMA KeptPumpLaunch ==
    ASSUME SignInv, KeptInv, PumpCompileLaunch
    PROVE  KeptInv'
<1> DEFINE core == PumpLaunchOf(order)
           ixs == Settings(core, LaunchFees(order), order.dontfront)
           tx == PumpCompiled(order, {Mint}, ixs, Variants(order, "launch"))
           next == IF order.followUp THEN "follow-up" ELSE AfterSetup(order)
<1>1. order \in Requests /\ order.kind = "pump" /\ txs = <<>>
  BY DEF SignInv, KeptInv, PumpCompileLaunch
<1>2. Adds(tx, next)
  BY DEF PumpCompileLaunch
<1>3. tx.error = "none" /\ tx.ixs = ixs
  BY <1>1, PumpLaunchIs, PumpSigned
<1> HIDE DEF tx, next
<1>4. ProperList(core)
  BY ProperPumpLaunch
<1> HIDE DEF core
<1>5. IsList(ixs) /\ Conveys(ixs, core, Wrapped)
  BY <1>4, CompiledTells
<1> HIDE DEF ixs
<1>6. txs' = <<tx>> /\ progress' = next /\ order' = order
  <2>1. txs' = Append(txs, tx) /\ progress' = next /\ order' = order
    BY <1>2, <1>3 DEF Adds
  <2>2. Append(<<>>, tx) = <<tx>>
    OBVIOUS
  <2> QED BY <1>1, <2>1, <2>2
<1>7. Sends(txs', core, Wrapped)
  BY <1>3, <1>5, <1>6, SendsOne
<1>8. CASE order.followUp
  <2>1. progress' = "follow-up"
    BY <1>6, <1>8 DEF next
  <2> QED BY <1>6, <1>7, <1>8, <2>1 DEF KeptInv, core
<1>9. CASE ~order.followUp
  <2>1. progress' = AfterSetup(order)
    BY <1>6, <1>9 DEF next
  <2>2. core \in Seq(ToSet(core))
    BY <1>4 DEF ProperList, IsList
  <2>3. core \o <<>> = core
    BY <2>2, ConcatEmptySeq
  <2>4. Asked(order) = core \o <<>>
    BY <1>1, <1>9, AskedIs DEF core
  <2>5. Sends(txs', Asked(order), Wrapped)
    BY <1>7, <2>3, <2>4
  <2> QED BY <1>6, <2>1, <2>5, KeptAfterSetup
<1> QED BY <1>8, <1>9

LEMMA KeptPumpSetup ==
    ASSUME SignInv, KeptInv, PumpCompileSetup
    PROVE  KeptInv'
<1> DEFINE core == PumpSetup(order)
           ixs == Settings(core, SetupFees(order), order.dontfront)
           tx == PumpCompiled(order, {}, ixs, Variants(order, "follow-up"))
<1>1. /\ order \in Requests /\ order.kind = "pump" /\ order.missing \in Nat
      /\ order.followUp /\ Sends(txs, PumpLaunchOf(order), Wrapped)
  BY AssembleAssumption DEF SignInv, KeptInv, PumpCompileSetup
<1>2. Adds(tx, AfterSetup(order))
  BY DEF PumpCompileSetup
<1>3. tx.error = "none" /\ tx.ixs = ixs
  BY <1>1, PumpSetupIs, PumpSigned
<1> HIDE DEF tx
<1>4. ProperList(core) /\ IsList(core)
  BY <1>1, ProperPumpSetup DEF ProperList
<1> HIDE DEF core
<1>5. IsList(ixs) /\ Conveys(ixs, core, Wrapped)
  BY <1>4, CompiledTells
<1> HIDE DEF ixs
<1>6. txs' = Append(txs, tx) /\ progress' = AfterSetup(order) /\ order' = order
  BY <1>2, <1>3 DEF Adds
<1>7. IsList(PumpLaunchOf(order))
  BY PumpLaunchIs
<1>8. Sends(Append(txs, tx), PumpLaunchOf(order) \o core, Wrapped)
  BY <1>1, <1>3, <1>4, <1>5, <1>7, SendsMore
<1>9. Asked(order) = PumpLaunchOf(order) \o core
  BY <1>1, AskedIs DEF core
<1>10. Sends(txs', Asked(order), Wrapped)
  BY <1>6, <1>8, <1>9
<1> QED BY <1>6, <1>10, KeptAfterSetup

\* What a launch on Pump asks for is a list.
LEMMA PumpAsksList ==
    ASSUME NEW r \in Requests, r.kind = "pump"
    PROVE  IsList(Asked(r))
<1>1. r.missing \in Nat
  BY AssembleAssumption
<1>2. IsList(PumpLaunchOf(r)) /\ IsList(PumpSetup(r)) /\ IsList(<<>>)
  BY <1>1, PumpLaunchIs, PumpSetupIs, Nobody
<1>3. Asked(r) = PumpLaunchOf(r) \o (IF r.followUp THEN PumpSetup(r) ELSE <<>>)
  BY AskedIs
<1>4. IsList(IF r.followUp THEN PumpSetup(r) ELSE <<>>)
  BY <1>2
<1> QED BY <1>2, <1>3, <1>4, Concatenated

LEMMA KeptPumpTip ==
    ASSUME SignInv, KeptInv, PumpCompileTip
    PROVE  KeptInv'
<1> DEFINE ixs == <<Transfer(TipAccount, order.fees.tip)>>
           tx == PumpCompiled(order, {}, ixs, Variants(order, "jito-tip"))
           a == Asked(order)
<1>1. order \in Requests /\ order.kind = "pump" /\ Sends(txs, a, Wrapped)
  BY DEF SignInv, KeptInv, PumpCompileTip
<1>2. Adds(tx, "done")
  BY DEF PumpCompileTip
<1>3. CanSign({}, ixs) /\ IsList(ixs)
  <2> DEFINE x == Transfer(TipAccount, order.fees.tip)
             u == <<x>>
  <2>1. IsIx(x) /\ x.signs = {Owner}
    BY SettingsAre
  <2> HIDE DEF x
  <2>2. SignersOf(u) = {Owner} /\ IsList(u)
    BY <2>1, Single
  <2> QED BY <2>2 DEF CanSign, u, x
<1>4. order.format \in {"legacy", "v0", "v0-alt", "auto"}
  BY <1>1, AssembleAssumption
<1>5. Core(ixs) = <<>>
  <2>1. ixs = If(TRUE, Transfer(TipAccount, order.fees.tip))
    BY DEF If
  <2>2. Silent(If(TRUE, Transfer(TipAccount, order.fees.tip)))
    BY FeesSilent
  <2> QED BY <2>1, <2>2 DEF Silent
<1> HIDE DEF ixs
<1>6. tx.error = "none" /\ tx.ixs = ixs
  BY <1>3, <1>4, PumpCompiledIs
<1> HIDE DEF tx
<1>7. Conveys(tx.ixs, <<>>, Wrapped)
  <2>1. Shows(<<>>, <<>>, Wrapped)
    BY DEF Shows
  <2> QED BY <1>5, <1>6, <2>1 DEF Conveys
<1>8. IsList(a) /\ IsList(<<>>)
  BY <1>1, PumpAsksList, Nobody
<1> HIDE DEF a
<1>9. Sends(Append(txs, tx), a \o <<>>, Wrapped)
  BY <1>1, <1>3, <1>6, <1>7, <1>8, SendsMore
<1>10. a \o <<>> = a
  BY <1>8, ConcatEmptySeq DEF IsList
<1>11. txs' = Append(txs, tx) /\ progress' = "done" /\ order' = order
  BY <1>2, <1>6 DEF Adds
<1>12. Sends(txs', Asked(order), Wrapped)
  BY <1>9, <1>10, <1>11 DEF a
<1> QED BY <1>11, <1>12, KeptDone

\* One more of the service's transactions.
LEMMA ServiceMore ==
    ASSUME NEW r \in Requests, r.kind = "bags", NEW n \in Nat, n < Len(r.service)
    PROVE  LET core == ServiceCore(r.service[n + 1]) IN
           /\ r.service[n + 1].accounts \in Nat /\ IsList(core)
           /\ IsList(FlattenSeq(ServiceUpTo(r, n)))
           /\ FlattenSeq(ServiceUpTo(r, n + 1)) = FlattenSeq(ServiceUpTo(r, n)) \o core
<1> DEFINE m == Len(r.service)
           C(i) == ServiceCore(r.service[i])
           S == UNION {ToSet(C(i)) : i \in 1..m}
           R == Seq(S)
           u == ServiceUpTo(r, n)
           v == ServiceUpTo(r, n + 1)
           core == ServiceCore(r.service[n + 1])
<1>1. m \in Nat /\ \A i \in 1..m : r.service[i].accounts \in Nat
  BY AssembleAssumption
<1>2. \A i \in 1..m : IsList(C(i))
  BY <1>1, ProperService DEF ProperList
<1> HIDE DEF C
<1>3. \A i \in 1..m : ToSet(C(i)) \subseteq S
  OBVIOUS
<1>4. \A x \in S : IsIx(x)
  BY <1>2 DEF IsList
<1> HIDE DEF S
<1>5. \A i \in 1..m : C(i) \in R
  <2> TAKE i \in 1..m
  <2>1. C(i) \in Seq(ToSet(C(i))) /\ ToSet(C(i)) \subseteq S
    BY <1>2, <1>3 DEF IsList
  <2> QED BY <2>1, SeqMonotonic
<1>6. n + 1 \in 1..m /\ core = C(n + 1)
  BY <1>1 DEF C
<1>7. u = [i \in 1..n |-> C(i)] /\ v = [i \in 1..(n + 1) |-> C(i)]
  BY DEF ServiceUpTo, C
<1> HIDE DEF R, u, v, core, m
<1>8. n < m
  BY DEF m
<1>9. u \in Seq(R)
  <2>1. \A i \in 1..n : C(i) \in R
    BY <1>1, <1>5, <1>8
  <2> QED BY <1>7, <2>1
<1>10. core \in R
  BY <1>5, <1>6
<1>11. v = Append(u, core)
  <2> DEFINE w == Append(u, core)
  <2>1. Len(u) = n
    BY <1>7
  <2>2. /\ DOMAIN w = 1..(Len(u) + 1) /\ w = [i \in 1..(Len(u) + 1) |-> w[i]]
        /\ w[Len(u) + 1] = core /\ \A i \in 1..Len(u) : w[i] = u[i]
    BY <1>9, <1>10, OneMoreAt
  <2> HIDE DEF w
  <2>3. \A i \in 1..(n + 1) : w[i] = C(i)
    <3> TAKE i \in 1..(n + 1)
    <3>1. CASE i \in 1..n
      BY <1>7, <2>1, <2>2, <3>1
    <3>2. CASE i = n + 1
      BY <1>6, <2>1, <2>2, <3>2
    <3> QED BY <3>1, <3>2
  <2>4. v = w
    BY <1>7, <2>1, <2>2, <2>3
  <2> QED BY <2>4 DEF w
<1>12. u \in Seq(Seq(S)) /\ core \in Seq(S)
  BY <1>9, <1>10 DEF R
<1>13. FlattenSeq(Append(u, core)) = FlattenSeq(u) \o core /\ FlattenSeq(u) \in Seq(S)
  BY <1>12, FlatAppend, FlatIn
<1>14. IsList(core) /\ IsList(FlattenSeq(u))
  BY <1>4, <1>12, <1>13, ListFrom
<1>15. r.service[n + 1].accounts \in Nat
  BY <1>1, <1>6
<1> QED BY <1>11, <1>13, <1>14, <1>15 DEF core, u, v

LEMMA KeptBagsEnsure ==
    ASSUME SignInv, KeptInv, BagsEnsure
    PROVE  KeptInv'
<1> DEFINE n == Len(txs)
           s == order.service[n + 1]
           core == ServiceCore(s)
           f == FlattenSeq(ServiceUpTo(order, n))
           tx == Ensured(order, s)
<1>1. /\ progress = "start" /\ order.kind = "bags" /\ n < Len(order.service)
      /\ Adds(tx, "start") /\ order \in Requests
  BY DEF BagsEnsure, SignInv
<1>2. topUp = NoTopUp /\ Sends(txs, f, Wrapped)
  BY <1>1 DEF KeptInv
<1>3. txs \in Seq(ToSet(txs)) /\ n \in Nat
  <2>1. txs \in Seq(ToSet(txs))
    BY <1>2 DEF Sends
  <2> QED BY <2>1
<1>4. /\ s.accounts \in Nat /\ IsList(core) /\ IsList(f)
      /\ FlattenSeq(ServiceUpTo(order, n + 1)) = f \o core
  BY <1>1, <1>3, ServiceMore
<1>5. tx.error = "none" /\ IsList(tx.ixs) /\ Conveys(tx.ixs, core, Wrapped)
  BY <1>4, EnsuredTells
<1> HIDE DEF tx, f, core, s
<1>6. txs' = Append(txs, tx) /\ progress' = "start" /\ order' = order /\ topUp' = topUp
  BY <1>1, <1>5 DEF Adds
<1>7. Sends(Append(txs, tx), f \o core, Wrapped)
  BY <1>2, <1>4, <1>5, SendsMore
<1>8. Len(txs') = n + 1
  BY <1>3, <1>6
<1>9. Sends(txs', FlattenSeq(ServiceUpTo(order, Len(txs'))), Wrapped)
  BY <1>4, <1>6, <1>7, <1>8
<1>10. Len(txs') <= Len(order.service)
  <2>1. Len(order.service) \in Nat
    BY <1>1, AssembleAssumption
  <2> QED BY <1>1, <1>3, <1>8, <2>1
<1> QED BY <1>2, <1>6, <1>9, <1>10 DEF KeptInv

LEMMA KeptBagsDone ==
    ASSUME SignInv, KeptInv, BagsDone
    PROVE  KeptInv'
<1>1. /\ progress = "start" /\ order.kind = "bags" /\ order \in Requests
      /\ Len(txs) = Len(order.service)
      /\ progress' = "done" /\ order' = order /\ txs' = txs
  BY DEF BagsDone, SignInv
<1>2. Sends(txs, FlattenSeq(ServiceUpTo(order, Len(txs))), Wrapped)
  BY <1>1 DEF KeptInv
<1>3. DOMAIN order.service = 1..Len(order.service)
  BY <1>1, AssembleAssumption
<1>4. Asked(order) = FlattenSeq([i \in DOMAIN order.service |-> ServiceCore(order.service[i])])
  BY <1>1, AskedIs
<1>5. Asked(order) = FlattenSeq(ServiceUpTo(order, Len(txs)))
  BY <1>1, <1>3, <1>4 DEF ServiceUpTo
<1>6. Sends(txs', Asked(order), Wrapped)
  BY <1>1, <1>2, <1>5
<1> QED BY <1>1, <1>6, KeptDone

LEMMA KeptStep ==
    ASSUME SignInv, KeptInv, [AssembleNext]_assembleVars
    PROVE  KeptInv'
<1>1. CASE BonkStart
  BY <1>1, KeptBonkStart
<1>2. CASE Split
  BY <1>2, KeptSplit
<1>3. CASE CompileGroups
  BY <1>3, KeptGroups
<1>4. CASE CompileTopUp
  BY <1>4, KeptTopUp
<1>5. CASE Combine
  BY <1>5, KeptCombine
<1>6. CASE CombineBuy
  BY <1>6, KeptCombineBuy
<1>7. CASE TradeStart
  BY <1>7, KeptTradeStart
<1>8. CASE CompileTrade
  BY <1>8, KeptTrade
<1>9. CASE PumpStart
  BY <1>9, KeptPumpStart
<1>10. CASE PumpCompileLaunch
  BY <1>10, KeptPumpLaunch
<1>11. CASE PumpCompileSetup
  BY <1>11, KeptPumpSetup
<1>12. CASE PumpCompileTip
  BY <1>12, KeptPumpTip
<1>13. CASE BagsEnsure
  BY <1>13, KeptBagsEnsure
<1>14. CASE BagsDone
  BY <1>14, KeptBagsDone
<1>15. CASE ReadFails
  BY <1>15, KeptRefused DEF ReadFails
<1>16. CASE UNCHANGED assembleVars
  BY <1>16 DEF assembleVars, KeptInv, Left, TopUpKept, ActionKept
<1> QED BY <1>1, <1>2, <1>3, <1>4, <1>5, <1>6, <1>7, <1>8, <1>9, <1>10, <1>11, <1>12, <1>13,
           <1>14, <1>15, <1>16 DEF AssembleNext

\* What is asked for is a list.
LEMMA AskedList ==
    ASSUME NEW r \in Requests
    PROVE  IsList(Asked(r))
<1>1. CASE r.kind = "bonk-launch" \/ IsBuy(r)
  <2>1. IsList(TopUpCore(r)) /\ IsList(ActionCore(r))
    BY <1>1, ActionProper DEF ProperList
  <2>2. CASE Topped(r)
    <3>1. Asked(r) = TopUpCore(r) \o ActionCore(r)
      BY <1>1, <2>2, AskedTopped
    <3> QED BY <2>1, <3>1, Concatenated
  <2>3. CASE ~Topped(r)
    BY <1>1, <2>1, <2>3, AskedTopped
  <2> QED BY <2>2, <2>3
<1>2. CASE r.kind = "sell"
  BY <1>2, AskedIs, ProperTrade DEF ProperList
<1>3. CASE r.kind = "pump"
  BY <1>3, PumpAsksList
<1>4. CASE r.kind = "bags"
  <2> DEFINE m == Len(r.service)
  <2>1. m \in Nat /\ DOMAIN r.service = 1..m
    BY <1>4, AssembleAssumption
  <2>2. Asked(r) = FlattenSeq([i \in DOMAIN r.service |-> ServiceCore(r.service[i])])
    BY <1>4, AskedIs
  <2>3. Asked(r) = FlattenSeq(ServiceUpTo(r, m))
    BY <2>1, <2>2 DEF ServiceUpTo
  <2>4. CASE m = 0
    <3> DEFINE v == ServiceUpTo(r, 0)
    <3>1. v = <<>>
      BY DEF ServiceUpTo
    <3>2. Len(v) = 0
      BY <3>1
    <3>3. FlattenSeq(v) = v
      BY <3>2, FlatNothing
    <3> HIDE DEF v
    <3>4. IsList(v)
      BY <3>1, Nobody
    <3> QED BY <2>3, <2>4, <3>3, <3>4 DEF v
  <2>5. CASE m # 0
    <3> DEFINE n == m - 1
    <3>1. n \in Nat /\ n < m /\ n + 1 = m
      BY <2>1, <2>5
    <3> HIDE DEF n
    <3>2. LET core == ServiceCore(r.service[n + 1]) IN
          /\ IsList(core) /\ IsList(FlattenSeq(ServiceUpTo(r, n)))
          /\ FlattenSeq(ServiceUpTo(r, n + 1)) = FlattenSeq(ServiceUpTo(r, n)) \o core
      BY <1>4, <3>1, ServiceMore
    <3>3. IsList(FlattenSeq(ServiceUpTo(r, n + 1)))
      BY <3>2, Concatenated
    <3> QED BY <2>3, <3>1, <3>3
  <2> QED BY <2>4, <2>5
<1> QED BY <1>1, <1>2, <1>3, <1>4, AssembleAssumption DEF IsBuy

\* The instructions that are delivered are those asked for, one by one.
LEMMA KeptTells ==
    ASSUME SignInv, KeptInv
    PROVE  InstructionsKept
<1> SUFFICES ASSUME Delivered
             PROVE  \E temporary \in {Wrapped, Anew(Wrapped)} :
                      [i \in DOMAIN Asked(order) |-> Told(Asked(order)[i], temporary)]
                        = [i \in DOMAIN Result |-> Told(Without(Result[i], Dontfront), Wrapped)]
  BY DEF InstructionsKept
<1> DEFINE a == Asked(order)
           c == Result
<1>1. PICK t \in {Wrapped, Anew(Wrapped)} : Sends(txs, a, t)
  BY DEF KeptInv, Delivered
<1>2. Shows(c, a, t)
  BY <1>1 DEF Sends, Sent, Result
<1>3. DOMAIN a = 1..Len(a) /\ DOMAIN c = 1..Len(c)
  <2> DEFINE S == UNION {ToSet(x.ixs) : x \in ToSet(txs)}
             T == ToSet(a)
  <2>1. order \in Requests
    BY DEF SignInv
  <2>2. IsList(a)
    BY <2>1, AskedList
  <2>3. Sent(txs) \in Seq(Seq(S)) /\ c = FlattenSeq(Sent(txs))
    <3>1. txs \in Seq(ToSet(txs)) /\ \A x \in ToSet(txs) : IsList(x.ixs)
      BY <1>1 DEF Sends
    <3> QED BY <3>1, SentIn DEF Result, Sent
  <2> HIDE DEF S, a, c
  <2>4. c \in Seq(S)
    BY <2>3, FlatIn
  <2>5. a \in Seq(T)
    BY <2>2 DEF IsList
  <2> HIDE DEF T
  <2> QED BY <2>4, <2>5
<1> HIDE DEF a, c
<1>4. \A i \in 1..Len(a) : Told(Without(c[i], Dontfront), Wrapped) = Told(a[i], t)
  BY <1>2 DEF Shows, View
<1>5. [i \in DOMAIN a |-> Told(a[i], t)]
        = [i \in DOMAIN c |-> Told(Without(c[i], Dontfront), Wrapped)]
  BY <1>2, <1>3, <1>4 DEF Shows
<1> QED BY <1>5 DEF a, c

(* InstructionsKept: what is delivered tells the programs what the request *)
(* asks for, one by one: wherever a launch is split, when its transaction  *)
(* or a buy's is taken apart and put behind a top-up, with a temporary     *)
(* account that is made anew, when what the Bags service returned is       *)
(* rebuilt, and with the mark of a protected launch.  bonk_native.rs 3704, *)
(* 4011, 6052, bags_native.rs 1907.                                        *)
THEOREM InstructionsKeptHolds == AssembleSpec => []InstructionsKept
<1>1. AssembleInit => SignInv /\ KeptInv
  BY SignInit, KeptInit
<1>2. SignInv /\ KeptInv /\ [AssembleNext]_assembleVars => SignInv' /\ KeptInv'
  BY SignStep, KeptStep
<1>3. SignInv /\ KeptInv => InstructionsKept
  BY KeptTells
<1> QED BY <1>1, <1>2, <1>3, PTL DEF AssembleSpec
=============================================================================
