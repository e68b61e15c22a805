------------------------- MODULE DarkPoolMathProofs -------------------------
(***************************************************************************)
(* Facts about the dark pool's arithmetic, for every Scale and all         *)
(* amounts, and about sums over finite sets.  The other proofs cite them   *)
(* by name.                                                                *)
(***************************************************************************)
EXTENDS DarkPoolMath, FiniteSetTheorems, WellFoundedInduction, TLAPS

LEMMA DivMod ==
  ASSUME NEW x \in Nat
  PROVE  /\ x \div Scale \in Nat
         /\ x = Scale * (x \div Scale) + (x % Scale)
         /\ (x % Scale) \in 0 .. (Scale - 1)
  BY ScaleAssumption, SMT

LEMMA HalfScale == \E half \in Nat \ {0} : Scale = 2 * half
<1>1. (Scale \div 2) \in Nat \ {0} /\ Scale = 2 * (Scale \div 2)
  BY ScaleAssumption, SMT
<1> QED
  BY <1>1

\* Rounding half-even and stepping down on overshoot, as floorTo10 does, is
\* the exact floor: the result in ticks is never above the exact value and
\* less than one tick below it.
THEOREM FloorTo10IsFloor ==
  ASSUME NEW x \in Nat
  PROVE  /\ FloorTo10(x) \in Nat
         /\ FloorTo10(x) * Scale <= x
         /\ x < (FloorTo10(x) + 1) * Scale
  BY DivMod, ScaleAssumption, SMT DEF FloorTo10, HalfEven

\* The floor is the only tick count with that property.
LEMMA FloorUnique ==
  ASSUME NEW x \in Nat, NEW k \in Nat, k * Scale <= x, x < (k + 1) * Scale
  PROVE  FloorTo10(x) = k
<1> DEFINE f == FloorTo10(x)
<1>1. f \in Nat /\ f * Scale <= x /\ x < (f + 1) * Scale
  BY FloorTo10IsFloor
<1>2. ~(f + 1 <= k)
  BY <1>1, ScaleAssumption, SMT
<1>3. ~(k + 1 <= f)
  BY <1>1, ScaleAssumption, SMT
<1> QED
  BY <1>1, <1>2, <1>3, SMT

\* floorTo10(exact) agrees with the integer division of the backend's
\* decimal.ts, whose amounts are the same non-negative tick counts.
THEOREM FloorTo10IsDivision ==
  ASSUME NEW x \in Nat
  PROVE  FloorTo10(x) = x \div Scale
<1>1. /\ (x \div Scale) \in Nat
      /\ (x \div Scale) * Scale <= x
      /\ x < ((x \div Scale) + 1) * Scale
  BY DivMod, ScaleAssumption, SMT
<1> QED
  BY <1>1, FloorUnique

LEMMA FloorMonotone ==
  ASSUME NEW x \in Nat, NEW y \in Nat, x <= y
  PROVE  FloorTo10(x) <= FloorTo10(y)
<1> DEFINE f == FloorTo10(x)
           g == FloorTo10(y)
<1>1. f \in Nat /\ f * Scale <= x
  BY FloorTo10IsFloor
<1>2. g \in Nat /\ y < (g + 1) * Scale
  BY FloorTo10IsFloor
<1>3. ~(g + 1 <= f)
  BY <1>1, <1>2, ScaleAssumption, SMT
<1> QED
  BY <1>1, <1>2, <1>3, SMT

\* Rounding two parts down separately never exceeds rounding their sum down.
LEMMA FloorSuperadditive ==
  ASSUME NEW x \in Nat, NEW y \in Nat
  PROVE  FloorTo10(x) + FloorTo10(y) <= FloorTo10(x + y)
<1> DEFINE f == FloorTo10(x)
           g == FloorTo10(y)
           h == FloorTo10(x + y)
<1>1. f \in Nat /\ f * Scale <= x
  BY FloorTo10IsFloor
<1>2. g \in Nat /\ g * Scale <= y
  BY FloorTo10IsFloor
<1>3. h \in Nat /\ x + y < (h + 1) * Scale
  BY FloorTo10IsFloor
<1>4. ~(h + 1 <= f + g)
  <2>1. SUFFICES ASSUME h + 1 <= f + g PROVE FALSE
    OBVIOUS
  <2>2. (h + 1) * Scale <= (f + g) * Scale
    BY <1>1, <1>2, <1>3, <2>1, ScaleAssumption, SMT
  <2>3. (f + g) * Scale = f * Scale + g * Scale
    BY <1>1, <1>2, ScaleAssumption, SMT
  <2>4. f * Scale \in Nat /\ g * Scale \in Nat /\ (h + 1) * Scale \in Nat
    BY <1>1, <1>2, <1>3, ScaleAssumption, SMT
  <2> HIDE DEF f, g, h
  <2> QED
    BY <1>1, <1>2, <1>3, <2>2, <2>3, <2>4, SMT
<1> QED
  BY <1>1, <1>2, <1>3, <1>4, SMT

\* The midpoint of crossing limits lies within both of them: neither side ever
\* trades outside its own limit, rounding included, and never at price zero.
THEOREM MidpointWithinLimits ==
  ASSUME NEW buy \in Nat \ {0}, NEW sell \in Nat \ {0}, Crosses(buy, sell)
  PROVE  /\ MidpointPrice(buy, sell) \in Nat \ {0}
         /\ PriceWithinLimit("Buy", MidpointPrice(buy, sell), buy)
         /\ PriceWithinLimit("Sell", MidpointPrice(buy, sell), sell)
<1> DEFINE x == ((buy + sell) * Scale) \div 2
           m == FloorTo10(x)
<1>1. PICK half \in Nat \ {0} : Scale = 2 * half
  BY HalfScale
<1>2. x = (buy + sell) * half
  BY <1>1, SMT
<1>3. x \in Nat /\ sell * Scale <= x /\ x <= buy * Scale
  BY <1>1, <1>2, SMT DEF Crosses
<1>4. m \in Nat /\ m * Scale <= x /\ x < (m + 1) * Scale
  BY <1>3, FloorTo10IsFloor
<1>5. ~(buy + 1 <= m)
  BY <1>3, <1>4, ScaleAssumption, SMT
<1>6. ~(m + 1 <= sell)
  BY <1>3, <1>4, ScaleAssumption, SMT
<1> QED
  BY <1>4, <1>5, <1>6, SMT DEF PriceWithinLimit, MidpointPrice

\* The midpoint the contract floors at 10 decimals is the backend's
\* (buyLimit + sellLimit) / 2 on tick counts.
THEOREM MidpointIsDivision ==
  ASSUME NEW buy \in Nat, NEW sell \in Nat
  PROVE  MidpointPrice(buy, sell) = (buy + sell) \div 2
<1> DEFINE x == ((buy + sell) * Scale) \div 2
           k == (buy + sell) \div 2
<1>1. PICK half \in Nat \ {0} : Scale = 2 * half
  BY HalfScale
<1>2. x = (buy + sell) * half
  BY <1>1, SMT
<1>3. k \in Nat /\ (2 * k = buy + sell \/ 2 * k + 1 = buy + sell)
  BY SMT
<1>4. x \in Nat /\ k * Scale <= x /\ x < (k + 1) * Scale
  BY <1>1, <1>2, <1>3, SMT
<1> QED
  BY <1>3, <1>4, FloorUnique DEF MidpointPrice

LEMMA QuoteType ==
  ASSUME NEW q \in Nat, NEW p \in Nat
  PROVE  /\ QuoteAmount(q, p) \in Nat
         /\ QuoteAmount(q, p) * Scale <= q * p
         /\ q * p < (QuoteAmount(q, p) + 1) * Scale
<1>1. q * p \in Nat
  BY SMT
<1> QED
  BY <1>1, FloorTo10IsFloor DEF QuoteAmount

\* The worst-case funding bound carries through a partial fill: what a buy
\* sends for f at a price within its limit, and what the rest can still need,
\* together never exceed what the whole order could need.
THEOREM FundingCarriesThrough ==
  ASSUME NEW q \in Nat, NEW f \in Nat, f <= q,
         NEW limit \in Nat, NEW price \in Nat, price <= limit
  PROVE  QuoteAmount(f, price) + QuoteAmount(q - f, limit)
           <= QuoteAmount(q, limit)
<1>1. /\ f * price \in Nat /\ f * limit \in Nat
      /\ (q - f) \in Nat /\ (q - f) * limit \in Nat
      /\ f * price <= f * limit
  BY SMT
<1>2. f * limit + (q - f) * limit = q * limit
  BY SMT
<1>3. FloorTo10(f * price) <= FloorTo10(f * limit)
  BY <1>1, FloorMonotone
<1>4. FloorTo10(f * limit) + FloorTo10((q - f) * limit) <= FloorTo10(q * limit)
  BY <1>1, <1>2, FloorSuperadditive
<1>5. /\ FloorTo10(f * price) \in Nat /\ FloorTo10(f * limit) \in Nat
      /\ FloorTo10((q - f) * limit) \in Nat /\ FloorTo10(q * limit) \in Nat
  BY <1>1, <1>2, FloorTo10IsFloor
<1> HIDE DEF QuoteAmount
<1> QED
  BY <1>3, <1>4, <1>5, SMT DEF QuoteAmount

\* The same for either side, in the terms of the ledger's proofs.
LEMMA RequiredCarries ==
  ASSUME NEW side \in Side, NEW q \in Nat, NEW f \in Nat, f <= q,
         NEW limit \in Nat, NEW price \in Nat,
         PriceWithinLimit(side, price, limit)
  PROVE  /\ SentAmount(side, f, price) \in Nat
         /\ Required(side, q - f, limit) \in Nat
         /\ Required(side, q, limit) \in Nat
         /\ SentAmount(side, f, price) + Required(side, q - f, limit)
              <= Required(side, q, limit)
<1>1. (q - f) \in Nat /\ f + (q - f) = q
  BY SMT
<1>2. CASE side = "Buy"
  BY <1>1, <1>2, QuoteType, FundingCarriesThrough
     DEF SentAmount, Required, BuyFundingTarget, PriceWithinLimit
<1>3. CASE side = "Sell"
  BY <1>1, <1>3, SMT DEF SentAmount, Required
<1> QED
  BY <1>2, <1>3 DEF Side

-----------------------------------------------------------------------------
\* Induction and finite sums

\* The least-number principle for a set of naturals.
LEMMA LeastNatural ==
  ASSUME NEW T, T \subseteq Nat, T # {}
  PROVE  \E n \in T : \A m \in T : ~(m < n)
<1>1. IsWellFoundedOn({ss \in Nat \X Nat : ss[1] < ss[2]}, Nat)
  BY NatLessThanWellFounded DEF OpToRel
<1>2. \E n \in T : \A m \in T :
        ~(<<m, n>> \in {ss \in Nat \X Nat : ss[1] < ss[2]})
  BY <1>1, WFMin
<1> QED
  BY <1>2

\* Induction on the naturals for a property given as a set.
LEMMA SetInduction ==
  ASSUME NEW S, 0 \in S, \A n \in Nat : n \in S => n + 1 \in S
  PROVE  Nat \subseteq S
<1> DEFINE T == Nat \ S
<1>1. SUFFICES ASSUME T # {} PROVE FALSE
  BY Zenon
<1>2. PICK n \in T : \A m \in T : ~(m < n)
  BY <1>1, LeastNatural
<1>3. n \in Nat /\ n # 0
  BY <1>2
<1>4. (n - 1) \in Nat /\ (n - 1) + 1 = n /\ n - 1 < n
  BY <1>3, SMT
<1>5. (n - 1) \in S
  BY <1>2, <1>4
<1>6. n \in S
  BY <1>4, <1>5
<1> QED
  BY <1>2, <1>6

\* Steps that stay in V can be taken one after another, N times.
Stepping(step, N, V) == \A n \in 1 .. N : \A v \in V : step[n][v] \in V

Walks(f, step, N, V, first) ==
  /\ f \in [0 .. N -> V] /\ f[0] = first
  /\ \A n \in 1 .. N : f[n] = step[n][f[n - 1]]

LEMMA StepsExist ==
  ASSUME NEW V, NEW N \in Nat, NEW first \in V, NEW step, Stepping(step, N, V)
  PROVE  \E f : Walks(f, step, N, V, first)
<1> DEFINE Up(m, f) == /\ f \in [0 .. m -> V]
                       /\ \A n \in 0 .. m :
                            f[n] = IF n = 0 THEN first ELSE step[n][f[n - 1]]
           T == {m \in Nat : m <= N => \E f : Up(m, f)}
<1>1. 0 \in T
  <2>1. Up(0, [n \in 0 .. 0 |-> first])
    OBVIOUS
  <2> HIDE DEF Up
  <2> QED
    BY <2>1
<1>2. ASSUME NEW m \in Nat, m \in T PROVE m + 1 \in T
  <2>1. SUFFICES ASSUME m + 1 <= N PROVE \E f : Up(m + 1, f)
    <3> HIDE DEF Up
    <3> QED
      OBVIOUS
  <2>2. PICK f : Up(m, f)
    BY <1>2, <2>1
  <2> DEFINE h == [n \in 0 .. (m + 1) |-> IF n = m + 1 THEN step[m + 1][f[m]] ELSE f[n]]
  <2>3. step[m + 1][f[m]] \in V
    <3>1. m + 1 \in 1 .. N /\ f[m] \in V
      BY <2>1, <2>2
    <3> QED
      BY <3>1 DEF Stepping
  <2>4. h \in [0 .. (m + 1) -> V]
    BY <2>2, <2>3
  <2>5. ASSUME NEW n \in 0 .. (m + 1)
        PROVE  h[n] = IF n = 0 THEN first ELSE step[n][h[n - 1]]
    <3>1. CASE n = m + 1
      <4>1. n # 0 /\ n - 1 = m /\ m \in 0 .. (m + 1) /\ m # m + 1
        BY <3>1
      <4> QED
        BY <3>1, <4>1
    <3>2. CASE n # m + 1
      <4>1. n \in 0 .. m
        BY <3>2
      <4>2. n # 0 => n - 1 \in 0 .. (m + 1) /\ n - 1 # m + 1
        BY <4>1
      <4> QED
        BY <2>2, <3>2, <4>1, <4>2
    <3> QED
      BY <3>1, <3>2
  <2>6. Up(m + 1, h)
    BY <2>4, <2>5
  <2> HIDE DEF h, Up
  <2> QED
    BY <2>6
<1>3. Nat \subseteq T
  <2> HIDE DEF T
  <2> QED
    BY <1>1, <1>2, SetInduction
<1>4. \E f : Up(N, f)
  <2> HIDE DEF Up
  <2> QED
    BY <1>3
<1>5. ASSUME NEW f, Up(N, f) PROVE Walks(f, step, N, V, first)
  <2>1. 0 \in 0 .. N /\ \A n \in 1 .. N : n \in 0 .. N /\ n # 0
    OBVIOUS
  <2> QED
    BY <1>5, <2>1 DEF Walks
<1> HIDE DEF Up
<1> QED
  BY <1>4, <1>5

\* Induction on the subsets of a finite set, for a property given as a set.
LEMMA SubsetInduction ==
  ASSUME NEW S, IsFiniteSet(S), NEW P, {} \in P,
         \A T \in SUBSET S : \A x \in S \ T : T \in P => T \cup {x} \in P
  PROVE  S \in P
<1> DEFINE N == {n \in Nat : \A T \in SUBSET S : Cardinality(T) = n => T \in P}
<1>1. \A T \in SUBSET S : IsFiniteSet(T)
  BY FS_Subset
<1>2. 0 \in N
  BY <1>1, FS_EmptySet
<1>3. ASSUME NEW n \in Nat, n \in N PROVE n + 1 \in N
  <2>1. SUFFICES ASSUME NEW T \in SUBSET S, Cardinality(T) = n + 1 PROVE T \in P
    OBVIOUS
  <2>2. T # {}
    BY <1>1, <2>1, FS_EmptySet
  <2>3. PICK x \in T : TRUE
    BY <2>2
  <2>4. Cardinality(T \ {x}) = n
    <3>1. IsFiniteSet(T)
      BY <1>1
    <3>2. Cardinality(T \ {x}) = Cardinality(T) - 1
      BY <3>1, FS_RemoveElement
    <3> QED BY <2>1, <3>2
  <2>5. T \ {x} \in P
    BY <1>3, <2>4
  <2>6. (T \ {x}) \cup {x} = T
    OBVIOUS
  <2> QED
    BY <2>5, <2>6
<1>4. Nat \subseteq N
  <2> HIDE DEF N
  <2> QED BY <1>2, <1>3, SetInduction
<1> QED
  BY <1>4, FS_CardinalityType

\* g is the sum of the weights w of every subset of S, its elements taken in the
\* order in which CHOOSE gives them: what a fold over a set unfolds to.
AddsUp(w, S, g) ==
  g = [T \in SUBSET S |->
         IF T = {} THEN 0
         ELSE w[CHOOSE x \in T : TRUE] + g[T \ {CHOOSE x \in T : TRUE}]]

\* There is such a g, built up from the smaller subsets.
LEMMA AddsUpExists ==
  ASSUME NEW S, IsFiniteSet(S), NEW w
  PROVE  \E g : AddsUp(w, S, g)
<1> DEFINE Small(n) == {T \in SUBSET S : Cardinality(T) <= n}
           Up(n, g) == g = [T \in Small(n) |->
             IF T = {} THEN 0
             ELSE w[CHOOSE x \in T : TRUE] + g[T \ {CHOOSE x \in T : TRUE}]]
           N == {n \in Nat : \E g : Up(n, g)}
<1>1. /\ \A T \in SUBSET S : IsFiniteSet(T) /\ Cardinality(T) \in Nat
      /\ \A T \in SUBSET S : Cardinality(T) = 0 <=> T = {}
  BY FS_Subset, FS_CardinalityType, FS_EmptySet
<1>2. \A T \in SUBSET S : T # {} =>
        LET x == CHOOSE x \in T : TRUE
        IN  x \in T /\ T \ {x} \in SUBSET S /\ Cardinality(T \ {x}) = Cardinality(T) - 1
  BY <1>1, FS_RemoveElement
<1>3. 0 \in N
  <2>1. \A T \in Small(0) : T = {}
    BY <1>1
  <2>2. Up(0, [T \in Small(0) |-> 0])
    BY <2>1
  <2> QED BY <2>2
<1>4. ASSUME NEW n \in Nat, n \in N PROVE n + 1 \in N
  <2>1. PICK g : Up(n, g)
    BY <1>4
  <2> DEFINE h == [T \in Small(n + 1) |->
                     IF Cardinality(T) <= n THEN g[T]
                     ELSE w[CHOOSE x \in T : TRUE] + g[T \ {CHOOSE x \in T : TRUE}]]
  <2>2. ASSUME NEW T \in Small(n + 1)
        PROVE  h[T] = IF T = {} THEN 0
                      ELSE w[CHOOSE x \in T : TRUE] + h[T \ {CHOOSE x \in T : TRUE}]
    <3> DEFINE p == CHOOSE x \in T : TRUE
    <3>1. CASE T = {}
      <4>1. T \in Small(n) /\ Cardinality(T) <= n
        BY <1>1, <3>1
      <4>2. g[T] = 0
        BY <2>1, <3>1, <4>1
      <4> QED BY <3>1, <4>1, <4>2
    <3>2. CASE T # {}
      <4>1. /\ T \ {p} \in SUBSET S /\ Cardinality(T \ {p}) = Cardinality(T) - 1
        BY <1>2, <3>2
      <4>2. /\ T \ {p} \in Small(n + 1) /\ Cardinality(T \ {p}) <= n
        BY <1>1, <4>1
      <4>3. h[T \ {p}] = g[T \ {p}]
        BY <4>2
      <4>4. CASE Cardinality(T) <= n
        <5>1. h[T] = g[T] /\ T \in Small(n)
          BY <4>4
        <5>2. g[T] = w[p] + g[T \ {p}]
          <6> HIDE DEF h
          <6> QED BY <2>1, <3>2, <5>1
        <5> QED BY <3>2, <4>3, <5>1, <5>2
      <4>5. CASE ~(Cardinality(T) <= n)
        <5>1. h[T] = w[p] + g[T \ {p}]
          BY <4>5
        <5> QED BY <3>2, <4>3, <5>1
      <4> QED BY <4>4, <4>5
    <3> QED BY <3>1, <3>2
  <2>3. Up(n + 1, h)
    <3>1. h = [T \in Small(n + 1) |-> h[T]]
      <4> HIDE DEF Small
      <4> QED OBVIOUS
    <3>2. [T \in Small(n + 1) |-> h[T]]
          = [T \in Small(n + 1) |->
               IF T = {} THEN 0
               ELSE w[CHOOSE x \in T : TRUE] + h[T \ {CHOOSE x \in T : TRUE}]]
      <4> HIDE DEF h, Small
      <4> QED BY <2>2, Zenon
    <3> HIDE DEF h, Small
    <3> QED BY <3>1, <3>2
  <2>4. \E k : Up(n + 1, k)
    <3> HIDE DEF h, Up
    <3> QED BY <2>3
  <2> HIDE DEF Up
  <2> QED BY <2>4
<1>5. Nat \subseteq N
  <2> HIDE DEF N
  <2> QED BY <1>3, <1>4, SetInduction
<1>6. Small(Cardinality(S)) = SUBSET S
  BY FS_Subset
<1>7. Cardinality(S) \in N
  BY <1>5, FS_CardinalityType
<1> QED
  BY <1>6, <1>7 DEF AddsUp

\* Whatever the order of choice, each element adds its own weight.
LEMMA AddsUpTakes ==
  ASSUME NEW S, IsFiniteSet(S), NEW w, \A x \in S : w[x] \in Int,
         NEW g, AddsUp(w, S, g)
  PROVE  /\ g[{}] = 0
         /\ \A T \in SUBSET S : g[T] \in Int /\ \A x \in T : g[T] = w[x] + g[T \ {x}]
<1> DEFINE N == {n \in Nat : \A U \in SUBSET S : Cardinality(U) <= n =>
                   g[U] \in Int /\ \A x \in U : g[U] = w[x] + g[U \ {x}]}
<1>1. /\ \A U \in SUBSET S : IsFiniteSet(U) /\ Cardinality(U) \in Nat
      /\ \A U \in SUBSET S : Cardinality(U) = 0 <=> U = {}
      /\ \A U \in SUBSET S : \A x \in U : Cardinality(U \ {x}) = Cardinality(U) - 1
  BY FS_Subset, FS_CardinalityType, FS_EmptySet, FS_RemoveElement
<1>2. g[{}] = 0
  BY DEF AddsUp
<1>3. 0 \in N
  <2>1. ASSUME NEW U \in SUBSET S, Cardinality(U) <= 0
        PROVE  g[U] \in Int /\ \A x \in U : g[U] = w[x] + g[U \ {x}]
    <3>1. Cardinality(U) = 0
      BY <1>1, <2>1
    <3>2. U = {}
      BY <1>1, <3>1
    <3> QED BY <1>2, <3>2
  <2> QED BY <2>1
<1>4. ASSUME NEW n \in Nat, n \in N PROVE n + 1 \in N
  <2>1. SUFFICES ASSUME NEW U \in SUBSET S, Cardinality(U) <= n + 1, U # {}
                 PROVE  g[U] \in Int /\ \A x \in U : g[U] = w[x] + g[U \ {x}]
    <3>1. ASSUME NEW U \in SUBSET S, Cardinality(U) <= n + 1
          PROVE  g[U] \in Int /\ \A x \in U : g[U] = w[x] + g[U \ {x}]
      <4>1. CASE U = {}
        BY <1>2, <4>1
      <4>2. CASE U # {}
        BY <2>1, <3>1, <4>2
      <4> QED BY <4>1, <4>2
    <3> QED BY <3>1
  <2>2. PICK p : p = CHOOSE x \in U : TRUE
    OBVIOUS
  <2>3. p \in U
    BY <2>1, <2>2
  <2>4. g[U] = w[p] + g[U \ {p}]
    BY <2>1, <2>2 DEF AddsUp
  <2>5. \A x \in U : Cardinality(U \ {x}) <= n /\ U \ {x} \in SUBSET S
    BY <1>1, <2>1
  <2>6. \A x \in U : /\ w[x] \in Int /\ g[U \ {x}] \in Int
                     /\ \A y \in U \ {x} : g[U \ {x}] = w[y] + g[(U \ {x}) \ {y}]
    BY <1>4, <2>5
  <2>7. w[p] \in Int /\ g[U \ {p}] \in Int
    BY <2>3, <2>6
  <2>8. ASSUME NEW x \in U, x # p PROVE g[U] = w[x] + g[U \ {x}]
    <3>1. (U \ {x}) \ {p} = (U \ {p}) \ {x} /\ x \in U \ {p} /\ p \in U \ {x}
      BY <2>3, <2>8
    <3>2. /\ g[U \ {p}] = w[x] + g[(U \ {p}) \ {x}]
          /\ g[U \ {x}] = w[p] + g[(U \ {p}) \ {x}]
      BY <2>3, <2>6, <3>1
    <3>3. g[(U \ {p}) \ {x}] \in Int
      <4>1. Cardinality((U \ {p}) \ {x}) <= n /\ (U \ {p}) \ {x} \in SUBSET S
        <5>1. /\ U \ {p} \in SUBSET S /\ Cardinality(U \ {p}) <= n
              /\ Cardinality(U \ {p}) \in Nat
          BY <1>1, <2>3, <2>5
        <5>2. Cardinality((U \ {p}) \ {x}) = Cardinality(U \ {p}) - 1
          BY <1>1, <3>1, <5>1
        <5> QED BY <5>1, <5>2
      <4> QED BY <1>4, <4>1
    <3>4. w[x] \in Int
      BY <2>6
    <3> QED BY <2>4, <2>7, <3>2, <3>3, <3>4
  <2>9. g[U] \in Int
    BY <2>4, <2>7
  <2> QED BY <2>4, <2>8, <2>9
<1>5. Nat \subseteq N
  <2> HIDE DEF N
  <2> QED BY <1>3, <1>4, SetInduction
<1>6. \A T \in SUBSET S : Cardinality(T) \in N /\ Cardinality(T) <= Cardinality(T)
  BY <1>1, <1>5
<1> QED
  BY <1>2, <1>6

\* The sum of the weights of a finite set.
Sum(w, S) == (CHOOSE g : AddsUp(w, S, g))[S]

\* Two such sums, of weights that agree on a part of S, agree on that part.
LEMMA AddsUpAgree ==
  ASSUME NEW S, IsFiniteSet(S), NEW w, \A x \in S : w[x] \in Int,
         NEW g, AddsUp(w, S, g), NEW v, NEW h, NEW T \in SUBSET S, AddsUp(v, T, h),
         \A x \in T : v[x] = w[x]
  PROVE  g[T] = h[T]
<1> DEFINE P == {U \in SUBSET T : g[U] = h[U]}
<1>1. IsFiniteSet(T) /\ \A x \in T : v[x] \in Int
  BY FS_Subset
<1>5. \A U \in SUBSET T : h[U] \in Int /\ \A x \in U : h[U] = v[x] + h[U \ {x}]
  <2>1. IsFiniteSet(T) /\ (\A x \in T : v[x] \in Int) /\ AddsUp(v, T, h)
    BY <1>1
  <2>2. SUFFICES ASSUME NEW U \in SUBSET T
                 PROVE  h[U] \in Int /\ \A x \in U : h[U] = v[x] + h[U \ {x}]
    OBVIOUS
  <2> QED BY ONLY U \in SUBSET T, <2>1, AddsUpTakes
<1>2. {} \in P
  <2>1. g[{}] = 0
    BY AddsUpTakes
  <2>2. h[{}] = 0
    BY <1>1, AddsUpTakes
  <2> QED BY <2>1, <2>2
<1>3. ASSUME NEW U \in SUBSET T, NEW x \in T \ U, U \in P PROVE U \cup {x} \in P
  <2>1. (U \cup {x}) \ {x} = U /\ U \cup {x} \in SUBSET T /\ U \cup {x} \in SUBSET S
    OBVIOUS
  <2>2. g[U \cup {x}] = w[x] + g[U]
    BY <2>1, AddsUpTakes
  <2>3. h[U \cup {x}] = v[x] + h[U]
    BY <1>5, <2>1
  <2> QED BY <1>3, <2>1, <2>2, <2>3
<1>4. T \in P
  <2> HIDE DEF P
  <2> QED BY <1>1, <1>2, <1>3, SubsetInduction
<1> QED BY <1>4

LEMMA SumIs ==
  ASSUME NEW S, IsFiniteSet(S), NEW w
  PROVE  \E g : AddsUp(w, S, g) /\ Sum(w, S) = g[S]
<1> DEFINE G == CHOOSE g : AddsUp(w, S, g)
<1>1. AddsUp(w, S, G)
  BY AddsUpExists
<1> QED BY <1>1 DEF Sum

\* Two weights that agree on a set have the same sum over it.
LEMMA SumSame ==
  ASSUME NEW S, IsFiniteSet(S), NEW w, NEW v, \A x \in S : w[x] \in Int /\ v[x] = w[x]
  PROVE  Sum(v, S) = Sum(w, S)
<1>1. PICK g : AddsUp(w, S, g) /\ Sum(w, S) = g[S]
  BY SumIs
<1>2. PICK h : AddsUp(v, S, h) /\ Sum(v, S) = h[S]
  BY SumIs
<1> QED BY <1>1, <1>2, AddsUpAgree

LEMMA SumEmpty ==
  ASSUME NEW w
  PROVE  Sum(w, {}) = 0
<1>1. IsFiniteSet({})
  BY FS_EmptySet
<1>2. PICK g : AddsUp(w, {}, g) /\ Sum(w, {}) = g[{}]
  BY <1>1, SumIs
<1> QED BY <1>2 DEF AddsUp

\* Taking an element out takes its weight off the sum.
LEMMA SumTake ==
  ASSUME NEW S, IsFiniteSet(S), NEW w, \A x \in S : w[x] \in Int
  PROVE  /\ Sum(w, S) \in Int
         /\ \A x \in S : Sum(w, S) = w[x] + Sum(w, S \ {x})
<1>1. PICK g : AddsUp(w, S, g) /\ Sum(w, S) = g[S]
  BY SumIs
<1>3. S \in SUBSET S
  OBVIOUS
<1>4. g[S] \in Int /\ \A x \in S : g[S] = w[x] + g[S \ {x}]
  BY <1>1, <1>3, AddsUpTakes
<1>2. ASSUME NEW x \in S PROVE Sum(w, S) = w[x] + Sum(w, S \ {x})
  <2>1. S \ {x} \in SUBSET S /\ IsFiniteSet(S \ {x})
    BY FS_RemoveElement
  <2>2. PICK h : AddsUp(w, S \ {x}, h) /\ Sum(w, S \ {x}) = h[S \ {x}]
    BY <2>1, SumIs
  <2>3. g[S \ {x}] = h[S \ {x}]
    BY <1>1, <2>1, <2>2, AddsUpAgree
  <2>4. g[S] = w[x] + g[S \ {x}]
    BY <1>4
  <2> QED BY <1>1, <2>2, <2>3, <2>4
<1> QED BY <1>1, <1>2, <1>4

LEMMA SumAdd ==
  ASSUME NEW S, IsFiniteSet(S), NEW w, \A x \in S : w[x] \in Int,
         NEW y, y \notin S, w[y] \in Int
  PROVE  Sum(w, S \cup {y}) = Sum(w, S) + w[y]
<1>1. IsFiniteSet(S \cup {y}) /\ (S \cup {y}) \ {y} = S
  BY FS_AddElement
<1>2. \A x \in S \cup {y} : w[x] \in Int
  OBVIOUS
<1>3. Sum(w, S \cup {y}) = w[y] + Sum(w, S)
  BY <1>1, <1>2, SumTake
<1>4. Sum(w, S) \in Int
  BY SumTake
<1> QED BY <1>3, <1>4

\* A set that is put together of two without a common element.
LEMMA SumUnion ==
  ASSUME NEW S, IsFiniteSet(S), NEW R, IsFiniteSet(R), S \cap R = {},
         NEW w, \A x \in S \cup R : w[x] \in Int
  PROVE  Sum(w, S \cup R) = Sum(w, S) + Sum(w, R)
<1> DEFINE P == {T \in SUBSET R : Sum(w, S \cup T) = Sum(w, S) + Sum(w, T)}
<1>1. {} \in P
  <2>1. S \cup {} = S /\ Sum(w, {}) = 0 /\ Sum(w, S) \in Int
    BY SumEmpty, SumTake
  <2> QED BY <2>1
<1>2. ASSUME NEW T \in SUBSET R, NEW y \in R \ T, T \in P PROVE T \cup {y} \in P
  <2>1. /\ IsFiniteSet(T) /\ IsFiniteSet(S \cup T) /\ y \notin S \cup T
        /\ S \cup (T \cup {y}) = (S \cup T) \cup {y}
    BY FS_Subset, FS_Union
  <2>2. Sum(w, (S \cup T) \cup {y}) = Sum(w, S \cup T) + w[y]
    BY <2>1, SumAdd
  <2>3. Sum(w, T \cup {y}) = Sum(w, T) + w[y]
    BY <2>1, SumAdd
  <2>4. Sum(w, S) \in Int /\ Sum(w, T) \in Int /\ w[y] \in Int
    BY <2>1, SumTake
  <2>5. Sum(w, S \cup T) = Sum(w, S) + Sum(w, T)
    BY <1>2
  <2>6. Sum(w, S \cup (T \cup {y})) = Sum(w, S) + Sum(w, T \cup {y})
    <3>1. Sum(w, S \cup (T \cup {y})) = Sum(w, S \cup T) + w[y]
      BY <2>1, <2>2
    <3>2. Sum(w, S \cup (T \cup {y})) = (Sum(w, S) + Sum(w, T)) + w[y]
      BY <2>5, <3>1
    <3> QED BY <2>3, <2>4, <3>2
  <2> QED BY <2>6
<1>3. R \in P
  <2> HIDE DEF P
  <2> QED BY <1>1, <1>2, SubsetInduction
<1> QED BY <1>3

\* A sum of naturals is one, and not less than that of a part.
LEMMA SumNat ==
  ASSUME NEW S, IsFiniteSet(S), NEW w, \A x \in S : w[x] \in Nat
  PROVE  Sum(w, S) \in Nat
<1> DEFINE P == {T \in SUBSET S : Sum(w, T) \in Nat}
<1>1. {} \in P
  BY SumEmpty
<1>2. ASSUME NEW T \in SUBSET S, NEW y \in S \ T, T \in P PROVE T \cup {y} \in P
  <2>1. IsFiniteSet(T)
    BY FS_Subset
  <2>2. Sum(w, T \cup {y}) = Sum(w, T) + w[y]
    BY <2>1, SumAdd
  <2> QED BY <1>2, <2>2
<1>3. S \in P
  <2> HIDE DEF P
  <2> QED BY <1>1, <1>2, SubsetInduction
<1> QED BY <1>3

\* A sum changes by as much as one of its weights.
LEMMA SumMoves ==
  ASSUME NEW S, IsFiniteSet(S), NEW w, NEW v, NEW x \in S, NEW d \in Int,
         \A y \in S : w[y] \in Int, v[x] = w[x] + d,
         \A y \in S : y # x => v[y] = w[y]
  PROVE  Sum(v, S) = Sum(w, S) + d
<1>1. IsFiniteSet(S \ {x})
  BY FS_RemoveElement
<1>2. \A y \in S : v[y] \in Int
  OBVIOUS
<1>3. Sum(w, S) = w[x] + Sum(w, S \ {x})
  BY SumTake
<1>4. Sum(v, S) = v[x] + Sum(v, S \ {x})
  BY <1>2, SumTake
<1>5. \A y \in S \ {x} : w[y] \in Int /\ v[y] = w[y]
  OBVIOUS
<1>6. Sum(v, S \ {x}) = Sum(w, S \ {x})
  BY <1>1, <1>5, SumSame
<1>7. Sum(w, S \ {x}) \in Int
  BY <1>1, <1>5, SumTake
<1> QED BY <1>3, <1>4, <1>6, <1>7

\* The sum of a constant.
LEMMA SumConstant ==
  ASSUME NEW S, IsFiniteSet(S), NEW c \in Int, NEW w, \A x \in S : w[x] = c
  PROVE  Sum(w, S) = c * Cardinality(S)
<1> DEFINE P == {T \in SUBSET S : Sum(w, T) = c * Cardinality(T)}
<1>1. {} \in P
  <2>1. c * 0 = 0
    BY SMT
  <2> QED BY <2>1, SumEmpty, FS_EmptySet
<1>2. ASSUME NEW T \in SUBSET S, NEW y \in S \ T, T \in P PROVE T \cup {y} \in P
  <2>1. IsFiniteSet(T)
    BY FS_Subset
  <2>2. Sum(w, T \cup {y}) = Sum(w, T) + w[y]
    BY <2>1, SumAdd
  <2>3. Cardinality(T) \in Nat /\ Cardinality(T \cup {y}) = Cardinality(T) + 1
    BY <2>1, FS_AddElement, FS_CardinalityType
  <2>4. Sum(w, T \cup {y}) = c * Cardinality(T) + c
    BY <1>2, <2>2
  <2>5. c * Cardinality(T) + c = c * (Cardinality(T) + 1)
    BY <2>3, SMT
  <2> QED BY <2>3, <2>4, <2>5
<1>3. S \in P
  <2> HIDE DEF P
  <2> QED BY <1>1, <1>2, SubsetInduction
<1> QED BY <1>3

=============================================================================
