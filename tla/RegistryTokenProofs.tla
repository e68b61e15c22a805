------------------------- MODULE RegistryTokenProofs -------------------------
(***************************************************************************)
(* The registry, for any parties, instruments and amounts: what a list and *)
(* a set of holdings are worth, what a spend leaves, and that no step      *)
(* makes value or moves it but as it says.                                 *)
(***************************************************************************)
EXTENDS RegistryToken, DarkPoolMathProofs

\* The running sums of a list of holdings.
Sums(list, g) ==
  g = [i \in 0 .. Len(list) |->
         IF i = 0 THEN 0 ELSE g[i - 1] + list[i].amount]

LEMMA SumsExist ==
  ASSUME NEW list \in Seq(Holding)
  PROVE  \E g : Sums(list, g)
<1> DEFINE Up(n, g) == g = [i \in 0 .. n |->
                              IF i = 0 THEN 0 ELSE g[i - 1] + list[i].amount]
           S == {n \in Nat : \E g : Up(n, g)}
<1>1. 0 \in S
  <2> DEFINE g == [i \in 0 .. 0 |-> 0]
  <2>1. Up(0, g)
    OBVIOUS
  <2> QED
    BY <2>1
<1>2. ASSUME NEW n \in Nat, n \in S PROVE n + 1 \in S
  <2>1. PICK g : Up(n, g)
    BY <1>2
  <2> DEFINE h == [i \in 0 .. (n + 1) |->
                     IF i = n + 1 THEN g[n] + list[n + 1].amount ELSE g[i]]
  <2>2. \A i \in 0 .. n : g[i] = IF i = 0 THEN 0
                                 ELSE g[i - 1] + list[i].amount
    BY <2>1
  <2>3. \A i \in 0 .. (n + 1) :
          h[i] = IF i = 0 THEN 0 ELSE h[i - 1] + list[i].amount
    <3> TAKE i \in 0 .. (n + 1)
    <3>1. CASE i = n + 1
      <4>1. i - 1 = n /\ i # 0 /\ n \in 0 .. (n + 1) /\ n # n + 1
        BY <3>1, SMT
      <4>2. h[i - 1] = g[n]
        BY <4>1
      <4> QED
        BY <3>1, <4>1, <4>2
    <3>2. CASE i # n + 1
      <4>1. i \in 0 .. n
        BY <3>2, SMT
      <4>2. i # 0 => i - 1 \in 0 .. (n + 1) /\ i - 1 # n + 1
        BY <4>1, SMT
      <4> QED
        BY <2>2, <3>2, <4>1, <4>2
    <3> QED
      BY <3>1, <3>2
  <2>4. Up(n + 1, h)
    BY <2>3
  <2>5. \E k : Up(n + 1, k)
    <3> HIDE DEF h, Up
    <3> QED
      BY <2>4
  <2>6. n + 1 \in Nat
    OBVIOUS
  <2> HIDE DEF Up
  <2> QED
    BY <2>5, <2>6
<1>3. Nat \subseteq S
  <2> HIDE DEF S
  <2> QED
    BY <1>1, <1>2, SetInduction
<1>4. Len(list) \in S
  BY <1>3
<1> QED
  BY <1>4 DEF Sums

LEMMA TotalIsLastSum ==
  ASSUME NEW list \in Seq(Holding)
  PROVE  \E g : Sums(list, g) /\ Total(list) = g[Len(list)]
<1> DEFINE G == CHOOSE g : Sums(list, g)
<1>1. Sums(list, G)
  BY SumsExist
<1>2. Total(list) = G[Len(list)]
  BY DEF Total, Sums
<1> QED
  BY <1>1, <1>2

\* The total of a list of holdings is a natural number.
LEMMA TotalType ==
  ASSUME NEW list \in Seq(Holding)
  PROVE  Total(list) \in Nat
<1>1. PICK g : Sums(list, g) /\ Total(list) = g[Len(list)]
  BY TotalIsLastSum
<1> DEFINE S == {n \in Nat : n <= Len(list) => g[n] \in Nat}
<1>2. 0 \in S
  BY <1>1 DEF Sums
<1>3. ASSUME NEW n \in Nat, n \in S PROVE n + 1 \in S
  <2>1. SUFFICES ASSUME n + 1 <= Len(list) PROVE g[n + 1] \in Nat
    BY SMT
  <2>2. /\ n + 1 \in 1 .. Len(list) /\ n + 1 \in 0 .. Len(list)
        /\ n + 1 # 0 /\ (n + 1) - 1 = n
    BY <2>1, SMT
  <2>3. g[n + 1] = g[n] + list[n + 1].amount
    BY <1>1, <2>2 DEF Sums
  <2>4. list[n + 1] \in Holding
    BY <2>2
  <2>5. list[n + 1].amount \in Nat
    BY <2>4 DEF Holding
  <2>6. g[n] \in Nat
    BY <1>3, <2>2, <2>1, SMT
  <2> QED
    BY <2>3, <2>5, <2>6
<1>4. Nat \subseteq S
  <2> HIDE DEF S
  <2> QED
    BY <1>2, <1>3, SetInduction
<1> QED
  BY <1>1, <1>4

LEMMA TotalEmpty == Total(<< >>) = 0
<1>1. << >> \in Seq(Holding)
  OBVIOUS
<1>2. PICK g : Sums(<< >>, g) /\ Total(<< >>) = g[Len(<< >>)]
  BY <1>1, TotalIsLastSum
<1> QED
  BY <1>2 DEF Sums

LEMMA TotalOne ==
  ASSUME NEW h \in Holding
  PROVE  Total(<<h>>) = h.amount
<1>1. <<h>> \in Seq(Holding) /\ Len(<<h>>) = 1
  OBVIOUS
<1>2. PICK g : Sums(<<h>>, g) /\ Total(<<h>>) = g[1]
  BY <1>1, TotalIsLastSum
<1>3. g[0] = 0 /\ g[1] = g[0] + <<h>>[1].amount
  BY <1>1, <1>2 DEF Sums
<1>4. h.amount \in Nat
  BY DEF Holding
<1> QED
  BY <1>2, <1>3, <1>4

-----------------------------------------------------------------------------
\* The value of a set of contracts

AmountOf(S) == [c \in S |-> c.amount]

\* The fold of the community modules is the sum of the amounts.
LEMMA ValueIsSum ==
  ASSUME NEW S, IsFiniteSet(S), \A c \in S : c.amount \in Int
  PROVE  Value(S) = Sum(AmountOf(S), S)
<1> DEFINE Adds(g) == g = [T \in SUBSET S |->
             IF T = {} THEN 0
             ELSE (CHOOSE x \in T : TRUE).amount + g[T \ {CHOOSE x \in T : TRUE}]]
           w == AmountOf(S)
<1>1. PICK g : AddsUp(w, S, g) /\ Sum(w, S) = g[S]
  BY SumIs
<1>2. ASSUME NEW h PROVE Adds(h) <=> AddsUp(w, S, h)
  <2>1. \A T \in SUBSET S : T # {} =>
          (CHOOSE x \in T : TRUE).amount = w[CHOOSE x \in T : TRUE]
    BY DEF AmountOf
  <2>2. [T \in SUBSET S |->
             IF T = {} THEN 0
             ELSE (CHOOSE x \in T : TRUE).amount + h[T \ {CHOOSE x \in T : TRUE}]]
        = [T \in SUBSET S |->
             IF T = {} THEN 0
             ELSE w[CHOOSE x \in T : TRUE] + h[T \ {CHOOSE x \in T : TRUE}]]
    <3> HIDE DEF w
    <3> QED BY <2>1
  <2> HIDE DEF w
  <2> QED BY <2>2, Zenon DEF AddsUp
<1>3. Value(S) = (CHOOSE h : Adds(h))[S]
  BY DEF Value, MapThenSumSet, MapThenFoldSet
<1>4. Adds(CHOOSE h : Adds(h))
  <2> HIDE DEF Adds
  <2> QED BY <1>1, <1>2
<1>5. PICK h : AddsUp(w, S, h) /\ Value(S) = h[S]
  <2> HIDE DEF Adds
  <2> QED BY <1>2, <1>3, <1>4
<1>6. \A x \in S : w[x] \in Int
  BY DEF AmountOf
<1>7. g[S] = h[S]
  <2> HIDE DEF w
  <2> QED BY <1>1, <1>5, <1>6, AddsUpAgree
<1> QED BY <1>1, <1>5, <1>7

LEMMA ValueEmpty == Value({}) = 0
<1>1. IsFiniteSet({})
  BY FS_EmptySet
<1>2. Value({}) = Sum(AmountOf({}), {})
  BY <1>1, ValueIsSum
<1> QED BY <1>2, SumEmpty

\* Amounts are naturals, and then so is their sum.
LEMMA ValueNat ==
  ASSUME NEW S, IsFiniteSet(S), \A c \in S : c.amount \in Nat
  PROVE  Value(S) \in Nat
<1>1. \A c \in S : AmountOf(S)[c] \in Nat
  BY DEF AmountOf
<1>2. Sum(AmountOf(S), S) \in Nat
  BY <1>1, SumNat
<1> QED BY <1>2, ValueIsSum

LEMMA ValueAdd ==
  ASSUME NEW S, IsFiniteSet(S), \A c \in S : c.amount \in Nat,
         NEW y, y \notin S, y.amount \in Nat
  PROVE  Value(S \cup {y}) = Value(S) + y.amount
<1> DEFINE w == AmountOf(S \cup {y})
<1>1. IsFiniteSet(S \cup {y})
  BY FS_AddElement
<1>2. \A c \in S : w[c] \in Int /\ w[c] = c.amount /\ AmountOf(S)[c] = w[c]
  BY DEF AmountOf
<1>3. w[y] \in Int /\ w[y] = y.amount
  BY DEF AmountOf
<1>4. Value(S \cup {y}) = Sum(w, S \cup {y})
  BY <1>1, ValueIsSum
<1>5. Sum(AmountOf(S), S) = Sum(w, S)
  <2> HIDE DEF w
  <2> QED BY <1>2, SumSame
<1>6. Sum(w, S \cup {y}) = Sum(w, S) + w[y]
  <2> HIDE DEF w
  <2> QED BY <1>2, <1>3, SumAdd
<1>7. Value(S) = Sum(AmountOf(S), S)
  BY ValueIsSum
<1> QED BY <1>3, <1>4, <1>5, <1>6, <1>7

LEMMA ValueTake ==
  ASSUME NEW S, IsFiniteSet(S), \A c \in S : c.amount \in Nat, NEW y \in S
  PROVE  Value(S \ {y}) = Value(S) - y.amount
<1>1. IsFiniteSet(S \ {y}) /\ y \notin S \ {y} /\ (S \ {y}) \cup {y} = S
  BY FS_RemoveElement
<1>2. Value(S) = Value(S \ {y}) + y.amount
  BY <1>1, ValueAdd
<1>3. Value(S \ {y}) \in Nat
  BY <1>1, ValueNat
<1> QED BY <1>2, <1>3

LEMMA ValueOne ==
  ASSUME NEW y, y.amount \in Nat
  PROVE  Value({y}) = y.amount
<1>1. IsFiniteSet({}) /\ {} \cup {y} = {y} /\ y \notin {}
  BY FS_EmptySet
<1>2. Value({} \cup {y}) = Value({}) + y.amount
  BY <1>1, ValueAdd
<1> QED BY <1>1, <1>2, ValueEmpty

LEMMA ValueUnion ==
  ASSUME NEW S, IsFiniteSet(S), NEW R, IsFiniteSet(R), S \cap R = {},
         \A c \in S \cup R : c.amount \in Nat
  PROVE  Value(S \cup R) = Value(S) + Value(R)
<1> DEFINE w == AmountOf(S \cup R)
<1>1. IsFiniteSet(S \cup R)
  BY FS_Union
<1>2. /\ \A c \in S \cup R : w[c] \in Int
      /\ \A c \in S : AmountOf(S)[c] = w[c]
      /\ \A c \in R : AmountOf(R)[c] = w[c]
  BY DEF AmountOf
<1>3. /\ Value(S \cup R) = Sum(w, S \cup R)
      /\ Value(S) = Sum(AmountOf(S), S) /\ Value(R) = Sum(AmountOf(R), R)
  BY <1>1, ValueIsSum
<1>4. Sum(AmountOf(S), S) = Sum(w, S) /\ Sum(AmountOf(R), R) = Sum(w, R)
  <2> HIDE DEF w
  <2> QED BY <1>2, SumSame
<1>5. Sum(w, S \cup R) = Sum(w, S) + Sum(w, R)
  <2> HIDE DEF w
  <2> QED BY <1>2, SumUnion
<1> QED BY <1>3, <1>4, <1>5

\* Without a part of it a set is worth that much less.
LEMMA ValueDiff ==
  ASSUME NEW S, IsFiniteSet(S), NEW R \in SUBSET S, \A c \in S : c.amount \in Nat
  PROVE  Value(S \ R) = Value(S) - Value(R) /\ Value(R) <= Value(S)
<1>1. IsFiniteSet(R) /\ IsFiniteSet(S \ R) /\ (S \ R) \cap R = {} /\ (S \ R) \cup R = S
  BY FS_Subset, FS_Difference
<1>2. Value((S \ R) \cup R) = Value(S \ R) + Value(R)
  <2>1. \A c \in (S \ R) \cup R : c.amount \in Nat
    OBVIOUS
  <2> QED BY <1>1, <2>1, ValueUnion
<1>3. Value(S \ R) \in Nat /\ Value(R) \in Nat
  BY <1>1, ValueNat
<1>4. Value(S) = Value(S \ R) + Value(R)
  BY <1>1, <1>2, Zenon
<1> QED BY <1>3, <1>4

\* A list that repeats nothing adds up to the value of the set it lists.
LEMMA TotalIsValue ==
  ASSUME NEW list \in Seq(Holding), IsInjective(list)
  PROVE  IsFiniteSet(Range(list)) /\ Total(list) = Value(Range(list))
<1> DEFINE First(n) == {list[i] : i \in 1 .. n}
<1>1. PICK g : Sums(list, g) /\ Total(list) = g[Len(list)]
  BY TotalIsLastSum
<1> DEFINE S == {n \in Nat : n <= Len(list) =>
                   IsFiniteSet(First(n)) /\ g[n] = Value(First(n))}
<1>2. 0 \in S
  <2>1. First(0) = {} /\ g[0] = 0
    BY <1>1 DEF Sums
  <2> QED BY <2>1, FS_EmptySet, ValueEmpty
<1>3. ASSUME NEW n \in Nat, n \in S PROVE n + 1 \in S
  <2>1. SUFFICES ASSUME n + 1 <= Len(list)
                 PROVE  IsFiniteSet(First(n + 1)) /\ g[n + 1] = Value(First(n + 1))
    BY SMT
  <2>2. /\ n + 1 \in 1 .. Len(list) /\ n + 1 \in 0 .. Len(list)
        /\ n + 1 # 0 /\ (n + 1) - 1 = n /\ n <= Len(list)
    BY <2>1, SMT
  <2>3. g[n + 1] = g[n] + list[n + 1].amount
    BY <1>1, <2>2 DEF Sums
  <2>4. First(n + 1) = First(n) \cup {list[n + 1]}
    <3>1. 1 .. (n + 1) = (1 .. n) \cup {n + 1}
      BY SMT
    <3> QED BY <3>1
  <2>5. list[n + 1] \notin First(n)
    BY <2>2 DEF IsInjective
  <2>6. \A i \in 1 .. Len(list) : list[i].amount \in Nat
    <3>1. \A i \in 1 .. Len(list) : list[i] \in Holding
      OBVIOUS
    <3> QED BY <3>1 DEF Holding
  <2>7. \A c \in First(n) : c.amount \in Nat
    BY <2>2, <2>6
  <2>8. IsFiniteSet(First(n)) /\ g[n] = Value(First(n))
    BY <1>3, <2>2
  <2>9. IsFiniteSet(First(n) \cup {list[n + 1]})
    BY <2>8, FS_AddElement
  <2>10. Value(First(n) \cup {list[n + 1]}) = Value(First(n)) + list[n + 1].amount
    <3> HIDE DEF First
    <3>1. list[n + 1].amount \in Nat
      BY <2>2, <2>6
    <3> QED BY <2>5, <2>7, <2>8, <3>1, ValueAdd
  <2> HIDE DEF First
  <2> QED BY <2>3, <2>4, <2>8, <2>9, <2>10
<1>4. Nat \subseteq S
  <2> HIDE DEF S
  <2> QED BY <1>2, <1>3, SetInduction
<1>5. First(Len(list)) = Range(list)
  BY DEF Range
<1>6. Len(list) \in S /\ Len(list) <= Len(list)
  BY <1>4
<1>7. IsFiniteSet(First(Len(list))) /\ g[Len(list)] = Value(First(Len(list)))
  <2> HIDE DEF First
  <2> QED BY <1>6
<1> QED
  BY <1>1, <1>5, <1>7, Zenon

-----------------------------------------------------------------------------
\* What a set Q of parties has of an instrument, in holdings H and escrow A

HeldBy(H, Q, j) == {h \in H : h.owner \in Q /\ h.instrument = j}
EscrowedBy(A, Q, j) == {a \in A : a.sender \in Q /\ a.instrument = j}

Worth(H, A, Q, j) == Value(HeldBy(H, Q, j)) + Value(EscrowedBy(A, Q, j))

\* What of an amount that party p has of instrument i counts for Q and j.
Share(p, i, n, Q, j) == IF p \in Q /\ i = j THEN n ELSE 0

\* Sets of contracts whose ids are all below the next one.
SomeHoldings(H, id) ==
  H \subseteq Holding /\ IsFiniteSet(H) /\ \A h \in H : h.id < id
SomeAllocs(A, id) ==
  A \subseteq Allocation /\ IsFiniteSet(A) /\ \A a \in A : a.id < id

LEMMA WorthNat ==
  ASSUME NEW H, NEW m, SomeHoldings(H, m), NEW A, NEW n, SomeAllocs(A, n), NEW Q, NEW j
  PROVE  /\ IsFiniteSet(HeldBy(H, Q, j)) /\ IsFiniteSet(EscrowedBy(A, Q, j))
         /\ \A h \in HeldBy(H, Q, j) : h.amount \in Nat
         /\ \A a \in EscrowedBy(A, Q, j) : a.amount \in Nat
         /\ Value(HeldBy(H, Q, j)) \in Nat /\ Value(EscrowedBy(A, Q, j)) \in Nat
         /\ Worth(H, A, Q, j) \in Nat
<1>1. IsFiniteSet(HeldBy(H, Q, j)) /\ IsFiniteSet(EscrowedBy(A, Q, j))
  BY FS_Subset DEF SomeHoldings, SomeAllocs, HeldBy, EscrowedBy
<1>2. /\ \A h \in HeldBy(H, Q, j) : h.amount \in Nat
      /\ \A a \in EscrowedBy(A, Q, j) : a.amount \in Nat
  BY DEF SomeHoldings, SomeAllocs, HeldBy, EscrowedBy, Holding, Allocation
<1>3. Value(HeldBy(H, Q, j)) \in Nat /\ Value(EscrowedBy(A, Q, j)) \in Nat
  BY <1>1, <1>2, ValueNat
<1> QED BY <1>1, <1>2, <1>3 DEF Worth

\* A contract with the next id is a new one.
LEMMA NewHoldingFits ==
  ASSUME NEW H, NEW m \in Nat, SomeHoldings(H, m)
  PROVE  \A h \in Holding : h.id = m => h \notin H /\ SomeHoldings(H \cup {h}, m + 1)
<1> SUFFICES ASSUME NEW h \in Holding, h.id = m
             PROVE  h \notin H /\ SomeHoldings(H \cup {h}, m + 1)
  OBVIOUS
<1>1. IsFiniteSet(H \cup {h})
  BY FS_AddElement DEF SomeHoldings
<1>2. \A x \in H \cup {h} : x.id < m + 1
  BY DEF SomeHoldings, Holding, Ids
<1>3. ~(h.id < m)
  OBVIOUS
<1> QED BY <1>1, <1>2, <1>3 DEF SomeHoldings

LEMMA NewAllocFits ==
  ASSUME NEW A, NEW m \in Nat, SomeAllocs(A, m)
  PROVE  \A a \in Allocation : a.id = m => a \notin A /\ SomeAllocs(A \cup {a}, m + 1)
<1> SUFFICES ASSUME NEW a \in Allocation, a.id = m
             PROVE  a \notin A /\ SomeAllocs(A \cup {a}, m + 1)
  OBVIOUS
<1>1. IsFiniteSet(A \cup {a})
  BY FS_AddElement DEF SomeAllocs
<1>2. \A x \in A \cup {a} : x.id < m + 1
  BY DEF SomeAllocs, Allocation, Ids
<1>3. ~(a.id < m)
  OBVIOUS
<1> QED BY <1>1, <1>2, <1>3 DEF SomeAllocs

\* Ids below one bound are below a higher one.
LEMMA StillSome ==
  ASSUME NEW m \in Nat, NEW k \in Nat, m <= k
  PROVE  /\ \A H : SomeHoldings(H, m) => SomeHoldings(H, k)
         /\ \A A : SomeAllocs(A, m) => SomeAllocs(A, k)
<1>1. ASSUME NEW H, SomeHoldings(H, m) PROVE SomeHoldings(H, k)
  <2>1. \A h \in H : h.id \in Nat /\ h.id < m
    BY <1>1 DEF SomeHoldings, Holding, Ids
  <2>2. \A h \in H : h.id < k
    BY <2>1
  <2> QED BY <1>1, <2>2 DEF SomeHoldings
<1>2. ASSUME NEW A, SomeAllocs(A, m) PROVE SomeAllocs(A, k)
  <2>1. \A a \in A : a.id \in Nat /\ a.id < m
    BY <1>2 DEF SomeAllocs, Allocation, Ids
  <2>2. \A a \in A : a.id < k
    BY <2>1
  <2> QED BY <1>2, <2>2 DEF SomeAllocs
<1> QED BY <1>1, <1>2

\* A holding is added.
LEMMA GainWorth ==
  ASSUME NEW H, NEW m, SomeHoldings(H, m), NEW A, NEW n, SomeAllocs(A, n)
  PROVE  \A h \in Holding : h \notin H =>
           \A Q, j : Worth(H \cup {h}, A, Q, j)
             = Worth(H, A, Q, j) + Share(h.owner, h.instrument, h.amount, Q, j)
<1> SUFFICES ASSUME NEW h \in Holding, h \notin H, NEW Q, NEW j
             PROVE  Worth(H \cup {h}, A, Q, j)
               = Worth(H, A, Q, j) + Share(h.owner, h.instrument, h.amount, Q, j)
  OBVIOUS
<1>1. h.amount \in Nat
  BY DEF Holding
<1>2. /\ IsFiniteSet(HeldBy(H, Q, j)) /\ \A x \in HeldBy(H, Q, j) : x.amount \in Nat
      /\ Value(HeldBy(H, Q, j)) \in Nat /\ Value(EscrowedBy(A, Q, j)) \in Nat
  BY WorthNat
<1>3. CASE h.owner \in Q /\ h.instrument = j
  <2>1. HeldBy(H \cup {h}, Q, j) = HeldBy(H, Q, j) \cup {h} /\ h \notin HeldBy(H, Q, j)
    BY <1>3 DEF HeldBy
  <2>2. Value(HeldBy(H, Q, j) \cup {h}) = Value(HeldBy(H, Q, j)) + h.amount
    BY <1>1, <1>2, <2>1, ValueAdd
  <2>3. Value(HeldBy(H \cup {h}, Q, j)) = Value(HeldBy(H, Q, j)) + h.amount
    BY <2>1, <2>2, Zenon
  <2> QED BY <1>1, <1>2, <1>3, <2>3 DEF Share, Worth
<1>4. CASE ~(h.owner \in Q /\ h.instrument = j)
  <2>1. HeldBy(H \cup {h}, Q, j) = HeldBy(H, Q, j)
    BY <1>4 DEF HeldBy
  <2> QED BY <1>2, <1>4, <2>1 DEF Share, Worth
<1> QED BY <1>3, <1>4

\* An allocation is added.
LEMMA EscrowWorth ==
  ASSUME NEW H, NEW m, SomeHoldings(H, m), NEW A, NEW n, SomeAllocs(A, n)
  PROVE  \A a \in Allocation : a \notin A =>
           \A Q, j : Worth(H, A \cup {a}, Q, j)
             = Worth(H, A, Q, j) + Share(a.sender, a.instrument, a.amount, Q, j)
<1> SUFFICES ASSUME NEW a \in Allocation, a \notin A, NEW Q, NEW j
             PROVE  Worth(H, A \cup {a}, Q, j)
               = Worth(H, A, Q, j) + Share(a.sender, a.instrument, a.amount, Q, j)
  OBVIOUS
<1>1. a.amount \in Nat
  BY DEF Allocation
<1>2. /\ IsFiniteSet(EscrowedBy(A, Q, j))
      /\ \A x \in EscrowedBy(A, Q, j) : x.amount \in Nat
      /\ Value(HeldBy(H, Q, j)) \in Nat /\ Value(EscrowedBy(A, Q, j)) \in Nat
  BY WorthNat
<1>3. CASE a.sender \in Q /\ a.instrument = j
  <2>1. /\ EscrowedBy(A \cup {a}, Q, j) = EscrowedBy(A, Q, j) \cup {a}
        /\ a \notin EscrowedBy(A, Q, j)
    BY <1>3 DEF EscrowedBy
  <2>2. Value(EscrowedBy(A, Q, j) \cup {a}) = Value(EscrowedBy(A, Q, j)) + a.amount
    BY <1>1, <1>2, <2>1, ValueAdd
  <2>3. Value(EscrowedBy(A \cup {a}, Q, j)) = Value(EscrowedBy(A, Q, j)) + a.amount
    BY <2>1, <2>2, Zenon
  <2> QED BY <1>1, <1>2, <1>3, <2>3 DEF Share, Worth
<1>4. CASE ~(a.sender \in Q /\ a.instrument = j)
  <2>1. EscrowedBy(A \cup {a}, Q, j) = EscrowedBy(A, Q, j)
    BY <1>4 DEF EscrowedBy
  <2> QED BY <1>2, <1>4, <2>1 DEF Share, Worth
<1> QED BY <1>3, <1>4

\* An allocation is archived.
LEMMA ReleaseWorth ==
  ASSUME NEW H, NEW m, SomeHoldings(H, m), NEW A, NEW n, SomeAllocs(A, n), NEW a \in A
  PROVE  /\ SomeAllocs(A \ {a}, n)
         /\ \A Q, j : Worth(H, A \ {a}, Q, j)
              = Worth(H, A, Q, j) - Share(a.sender, a.instrument, a.amount, Q, j)
<1>1. SomeAllocs(A \ {a}, n)
  <2>1. IsFiniteSet(A \ {a})
    BY FS_RemoveElement DEF SomeAllocs
  <2> QED BY <2>1 DEF SomeAllocs
<1>2. a.amount \in Nat
  BY DEF SomeAllocs, Allocation
<1>3. ASSUME NEW Q, NEW j
      PROVE  Worth(H, A \ {a}, Q, j)
               = Worth(H, A, Q, j) - Share(a.sender, a.instrument, a.amount, Q, j)
  <2>1. /\ IsFiniteSet(EscrowedBy(A, Q, j))
        /\ \A x \in EscrowedBy(A, Q, j) : x.amount \in Nat
        /\ Value(HeldBy(H, Q, j)) \in Nat /\ Value(EscrowedBy(A, Q, j)) \in Nat
    BY WorthNat
  <2>2. CASE a.sender \in Q /\ a.instrument = j
    <3>1. /\ EscrowedBy(A \ {a}, Q, j) = EscrowedBy(A, Q, j) \ {a}
          /\ a \in EscrowedBy(A, Q, j)
      BY <2>2 DEF EscrowedBy
    <3>2. Value(EscrowedBy(A, Q, j) \ {a}) = Value(EscrowedBy(A, Q, j)) - a.amount
      BY <2>1, <3>1, ValueTake
    <3>3. Value(EscrowedBy(A \ {a}, Q, j)) = Value(EscrowedBy(A, Q, j)) - a.amount
      BY <3>1, <3>2, Zenon
    <3> QED BY <1>2, <2>1, <2>2, <3>3 DEF Share, Worth
  <2>3. CASE ~(a.sender \in Q /\ a.instrument = j)
    <3>1. EscrowedBy(A \ {a}, Q, j) = EscrowedBy(A, Q, j)
      BY <2>3 DEF EscrowedBy
    <3> QED BY <2>1, <2>3, <3>1 DEF Share, Worth
  <2> QED BY <2>2, <2>3
<1> QED BY <1>1, <1>3

AllOf(R, p, i) == \A h \in R : h.owner = p /\ h.instrument = i

\* Holdings of one party and instrument are archived.
LEMMA ArchiveWorth ==
  ASSUME NEW H, NEW m, SomeHoldings(H, m), NEW A, NEW n, SomeAllocs(A, n),
         NEW R, R \subseteq H, NEW p, NEW i, AllOf(R, p, i)
  PROVE  /\ SomeHoldings(H \ R, m)
         /\ Value(R) \in Nat
         /\ \A Q, j : Worth(H \ R, A, Q, j)
              = Worth(H, A, Q, j) - Share(p, i, Value(R), Q, j)
<1>1. SomeHoldings(H \ R, m)
  <2>1. IsFiniteSet(H \ R)
    BY FS_Difference DEF SomeHoldings
  <2> QED BY <2>1 DEF SomeHoldings
<1>2. Value(R) \in Nat
  <2>1. IsFiniteSet(R)
    BY FS_Subset DEF SomeHoldings
  <2>2. \A h \in R : h.amount \in Nat
    BY DEF SomeHoldings, Holding
  <2> QED BY <2>1, <2>2, ValueNat
<1>3. ASSUME NEW Q, NEW j
      PROVE  Worth(H \ R, A, Q, j) = Worth(H, A, Q, j) - Share(p, i, Value(R), Q, j)
  <2>1. /\ IsFiniteSet(HeldBy(H, Q, j)) /\ \A x \in HeldBy(H, Q, j) : x.amount \in Nat
        /\ Value(HeldBy(H, Q, j)) \in Nat /\ Value(EscrowedBy(A, Q, j)) \in Nat
    BY WorthNat
  <2>2. CASE p \in Q /\ i = j
    <3>1. /\ HeldBy(H \ R, Q, j) = HeldBy(H, Q, j) \ R
          /\ R \in SUBSET HeldBy(H, Q, j)
      BY <2>2 DEF HeldBy, AllOf
    <3>2. Value(HeldBy(H, Q, j) \ R) = Value(HeldBy(H, Q, j)) - Value(R)
      BY <2>1, <3>1, ValueDiff
    <3>3. Value(HeldBy(H \ R, Q, j)) = Value(HeldBy(H, Q, j)) - Value(R)
      BY <3>1, <3>2, Zenon
    <3> QED BY <1>2, <2>1, <2>2, <3>3 DEF Share, Worth
  <2>3. CASE ~(p \in Q /\ i = j)
    <3>1. HeldBy(H \ R, Q, j) = HeldBy(H, Q, j)
      BY <2>3 DEF HeldBy, AllOf
    <3> QED BY <2>1, <2>3, <3>1 DEF Share, Worth
  <2> QED BY <2>2, <2>3
<1> QED BY <1>1, <1>2, <1>3

\* What CanSpend asks, of any set of holdings.
Spendable(H, inputs, i, p, amount) ==
  /\ inputs \in Seq(Holding)
  /\ \A k \in DOMAIN inputs : /\ inputs[k] \in H
                              /\ inputs[k].instrument = i
                              /\ inputs[k].owner = p
  /\ IsInjective(inputs)
  /\ Total(inputs) >= amount

\* What is left of them when the inputs are archived and the change is minted.
Spent(H, inputs, i, p, amount, id) ==
  (H \ Range(inputs)) \cup Range(Change(inputs, i, p, amount, id))

LEMMA SpendWorth ==
  ASSUME NEW H, NEW m \in Ids, SomeHoldings(H, m), NEW A, NEW n, SomeAllocs(A, n),
         NEW i \in Instruments, NEW p \in Parties, NEW amount \in Nat,
         NEW inputs, Spendable(H, inputs, i, p, amount)
  PROVE  /\ SomeHoldings(Spent(H, inputs, i, p, amount, m), m + 1)
         /\ \A Q, j : Worth(Spent(H, inputs, i, p, amount, m), A, Q, j)
                        = Worth(H, A, Q, j) - Share(p, i, amount, Q, j)
<1> DEFINE R == Range(inputs)
           K == Spent(H, inputs, i, p, amount, m)
<1>9. K = (H \ R) \cup Range(Change(inputs, i, p, amount, m))
  BY DEF Spent
<1>0. Total(inputs) >= amount /\ inputs \in Seq(Holding) /\ IsInjective(inputs)
  BY DEF Spendable
<1>1. R \subseteq H /\ AllOf(R, p, i)
  BY DEF Range, Spendable, AllOf
<1>2. Total(inputs) = Value(R) /\ Total(inputs) \in Nat
  BY <1>0, TotalIsValue, TotalType
<1>3. /\ SomeHoldings(H \ R, m)
      /\ \A Q, j : Worth(H \ R, A, Q, j)
           = Worth(H, A, Q, j) - Share(p, i, Total(inputs), Q, j)
  <2> HIDE DEF R
  <2>1. /\ SomeHoldings(H \ R, m)
        /\ \A Q, j : Worth(H \ R, A, Q, j)
             = Worth(H, A, Q, j) - Share(p, i, Value(R), Q, j)
    BY <1>1, ArchiveWorth
  <2> QED BY <1>2, <2>1, Zenon
<1>4. m \in Nat /\ \A Q, j : Worth(H, A, Q, j) \in Nat
  BY WorthNat DEF Ids
<1>5. CASE Total(inputs) > amount
  <2> DEFINE h == NewHolding(m, p, i, Total(inputs) - amount)
  <2>1. /\ h \in Holding /\ h.id = m /\ h.owner = p /\ h.instrument = i
        /\ h.amount = Total(inputs) - amount
    BY <1>2, <1>5 DEF NewHolding, Holding
  <2>2. K = (H \ R) \cup {h}
    <3>1. Range(Change(inputs, i, p, amount, m)) = {h}
      BY <1>5 DEF Change, Range
    <3> QED BY <1>9, <3>1, Zenon
  <2>3. /\ SomeHoldings((H \ R) \cup {h}, m + 1)
        /\ \A Q, j : Worth((H \ R) \cup {h}, A, Q, j)
             = Worth(H \ R, A, Q, j) + Share(p, i, Total(inputs) - amount, Q, j)
    <3> HIDE DEF h, R
    <3>1. h \notin H \ R /\ SomeHoldings((H \ R) \cup {h}, m + 1)
      BY <1>3, <1>4, <2>1, NewHoldingFits
    <3>2. \A Q, j : Worth((H \ R) \cup {h}, A, Q, j)
               = Worth(H \ R, A, Q, j) + Share(h.owner, h.instrument, h.amount, Q, j)
      BY <1>3, <2>1, <3>1, GainWorth
    <3> QED BY <2>1, <3>1, <3>2
  <2>4. ASSUME NEW Q, NEW j
        PROVE  Worth((H \ R) \cup {h}, A, Q, j)
                 = Worth(H, A, Q, j) - Share(p, i, amount, Q, j)
    <3>1. /\ Worth(H \ R, A, Q, j)
               = Worth(H, A, Q, j) - Share(p, i, Total(inputs), Q, j)
          /\ Worth((H \ R) \cup {h}, A, Q, j)
               = Worth(H \ R, A, Q, j) + Share(p, i, Total(inputs) - amount, Q, j)
          /\ Worth(H, A, Q, j) \in Nat
      BY <1>3, <1>4, <2>3
    <3> HIDE DEF h, R
    <3> QED BY <1>2, <3>1 DEF Share
  <2> HIDE DEF h, R, K
  <2>5. /\ SomeHoldings(K, m + 1)
        /\ \A Q, j : Worth(K, A, Q, j) = Worth(H, A, Q, j) - Share(p, i, amount, Q, j)
    BY <2>2, <2>3, <2>4
  <2> QED BY <2>5 DEF K
<1>6. CASE Total(inputs) = amount
  <2>1. K = H \ R
    <3>1. Change(inputs, i, p, amount, m) = << >>
      BY <1>2, <1>6 DEF Change
    <3>2. Range(<< >>) = {}
      BY DEF Range
    <3> QED BY <1>9, <3>1, <3>2
  <2>2. SomeHoldings(H \ R, m + 1)
    <3>1. m + 1 \in Nat /\ m <= m + 1
      BY <1>4
    <3> QED BY <1>3, <1>4, <3>1, StillSome
  <2> HIDE DEF R, K
  <2>3. /\ SomeHoldings(K, m + 1)
        /\ \A Q, j : Worth(K, A, Q, j) = Worth(H, A, Q, j) - Share(p, i, amount, Q, j)
    BY <1>3, <1>6, <2>1, <2>2
  <2> QED BY <2>3 DEF K
<1>7. Total(inputs) > amount \/ Total(inputs) = amount
  BY <1>0, <1>2
<1> HIDE DEF K
<1> QED BY <1>5, <1>6, <1>7

-----------------------------------------------------------------------------
\* The transactions of the registry

\* The inductive invariant: contracts are what they should be, finitely many,
\* and no active contract has an id that is yet to be given.
LedgerInv ==
  /\ RegistryTypeOK
  /\ SomeHoldings(holdings, nextId)
  /\ SomeAllocs(allocs, nextId)

Worths(Q, j) == Worth(holdings, allocs, Q, j)

LEMMA SeqElement ==
  ASSUME NEW S, NEW s \in Seq(S), NEW k \in 1 .. Len(s)
  PROVE  s[k] \in S
OBVIOUS

LEMMA InputsAreHoldings ==
  ASSUME NEW S, S \subseteq Holding, NEW inputs \in InputLists(S)
  PROVE  inputs \in Seq(Holding)
<1>1. PICK n \in 0 .. MaxInputs : inputs \in [1 .. n -> S]
  BY DEF InputLists
<1>2. n \in Nat
  BY <1>1, RegistryAssumption
<1>3. inputs \in [1 .. n -> Holding]
  BY <1>1
<1> QED
  BY <1>2, <1>3

LEMMA MintWorth ==
  ASSUME LedgerInv, NEW p \in Parties, NEW i \in Instruments, NEW amt \in Nat \ {0},
         Mint(p, i, amt)
  PROVE  /\ LedgerInv'
         /\ \A Q, j : Worths(Q, j)' = Worths(Q, j) + Share(p, i, amt, Q, j)
<1> DEFINE h == NewHolding(nextId, p, i, amt)
<1>1. nextId \in Ids /\ nextId \in Nat /\ nextId' = nextId + 1
  BY DEF LedgerInv, RegistryTypeOK, Mint, Ids
<1>2. /\ h \in Holding /\ h.id = nextId /\ h.owner = p /\ h.instrument = i
      /\ h.amount = amt
  BY <1>1 DEF NewHolding, Holding
<1>3. /\ SomeHoldings(holdings \cup {h}, nextId + 1)
      /\ \A Q, j : Worth(holdings \cup {h}, allocs, Q, j)
           = Worth(holdings, allocs, Q, j) + Share(p, i, amt, Q, j)
  <2> HIDE DEF h
  <2>1. h \notin holdings /\ SomeHoldings(holdings \cup {h}, nextId + 1)
    BY <1>1, <1>2, NewHoldingFits DEF LedgerInv
  <2>2. \A Q, j : Worth(holdings \cup {h}, allocs, Q, j)
             = Worth(holdings, allocs, Q, j) + Share(h.owner, h.instrument, h.amount, Q, j)
    BY <1>2, <2>1, GainWorth DEF LedgerInv
  <2> QED BY <1>2, <2>1, <2>2
<1>4. SomeAllocs(allocs, nextId + 1)
  <2>1. nextId + 1 \in Nat /\ nextId <= nextId + 1
    BY <1>1
  <2> QED BY <1>1, <2>1, StillSome DEF LedgerInv
<1>5. minted' \in [Instruments -> Nat]
  <2>1. minted[i] \in Nat /\ minted[i] + amt \in Nat
    BY DEF LedgerInv, RegistryTypeOK
  <2> QED BY <2>1 DEF LedgerInv, RegistryTypeOK, Mint
<1>6. /\ holdings' = holdings \cup {h} /\ UNCHANGED <<allocs, now>>
  BY DEF Mint
<1>7. LedgerInv'
  BY <1>1, <1>3, <1>4, <1>5, <1>6 DEF LedgerInv, RegistryTypeOK, SomeHoldings
<1> HIDE DEF h
<1> QED BY <1>3, <1>6, <1>7 DEF Worths

LEMMA TransferWorth ==
  ASSUME LedgerInv, NEW p \in Parties, NEW q \in Parties, NEW i \in Instruments,
         NEW amt \in Nat \ {0}, NEW inputs \in Seq(Holding), Transfer(p, inputs, i, q, amt)
  PROVE  /\ LedgerInv'
         /\ \A Q, j : Worths(Q, j)'
              = (Worths(Q, j) - Share(p, i, amt, Q, j)) + Share(q, i, amt, Q, j)
<1> DEFINE K == Spent(holdings, inputs, i, p, amt, nextId)
           h == NewHolding(nextId + 1, q, i, amt)
<1>1. /\ nextId \in Ids /\ nextId \in Nat /\ nextId + 1 \in Ids /\ nextId + 1 \in Nat
      /\ nextId' = (nextId + 1) + 1 /\ nextId <= nextId'
  BY RegistryAssumption DEF LedgerInv, RegistryTypeOK, Transfer, Ids
<1>2. /\ SomeHoldings(K, nextId + 1)
      /\ \A Q, j : Worth(K, allocs, Q, j)
                     = Worth(holdings, allocs, Q, j) - Share(p, i, amt, Q, j)
  <2>1. Spendable(holdings, inputs, i, p, amt)
    BY DEF Transfer, CanSpend, Spendable
  <2>2. SomeHoldings(holdings, nextId) /\ SomeAllocs(allocs, nextId)
    BY DEF LedgerInv
  <2> QED BY <1>1, <2>1, <2>2, SpendWorth
<1>3. h \in Holding /\ h.id = nextId + 1 /\ h.owner = q /\ h.instrument = i /\ h.amount = amt
  BY <1>1 DEF NewHolding, Holding
<1>4. /\ holdings' = K \cup {h} /\ UNCHANGED <<allocs, minted, now>>
  BY DEF Transfer, Spent
<1> HIDE DEF h, K
<1>5. h \notin K /\ SomeHoldings(holdings', nextId')
  BY <1>1, <1>2, <1>3, <1>4, NewHoldingFits
<1>6. \A Q, j : Worth(K \cup {h}, allocs, Q, j)
        = Worth(K, allocs, Q, j) + Share(h.owner, h.instrument, h.amount, Q, j)
  BY <1>2, <1>3, <1>5, GainWorth DEF LedgerInv
<1>7. SomeAllocs(allocs, nextId')
  BY <1>1, StillSome DEF LedgerInv
<1>8. LedgerInv'
  BY <1>1, <1>4, <1>5, <1>7 DEF LedgerInv, RegistryTypeOK, SomeHoldings
<1> QED BY <1>2, <1>3, <1>4, <1>6, <1>8 DEF Worths

\* What a party's allocation escrows is still its own.
LEMMA EscrowedWorth ==
  ASSUME LedgerInv, NEW p \in Parties, NEW q \in Parties, NEW i \in Instruments,
         NEW amt \in Nat \ {0}, NEW inputs, NEW leg \in Legs, NEW d \in Nat,
         nextId <= MaxId,
         Spendable(holdings, inputs, i, p, amt),
         holdings' = Spent(holdings, inputs, i, p, amt, nextId),
         allocs' = allocs \cup
           {[id |-> nextId, sender |-> p, receiver |-> q, instrument |-> i,
             amount |-> amt, leg |-> leg, settleBefore |-> d]},
         nextId' \in Nat, nextId + 1 <= nextId', UNCHANGED <<minted, now>>
  PROVE  /\ LedgerInv'
         /\ \A Q, j : Worths(Q, j)' = Worths(Q, j)
<1> DEFINE K == Spent(holdings, inputs, i, p, amt, nextId)
           a == [id |-> nextId, sender |-> p, receiver |-> q, instrument |-> i,
                 amount |-> amt, leg |-> leg, settleBefore |-> d]
<1>1. nextId \in Ids /\ nextId \in Nat /\ nextId + 1 \in Nat /\ nextId' \in Nat \ {0}
  BY DEF LedgerInv, RegistryTypeOK, Ids
<1>2. /\ SomeHoldings(K, nextId + 1)
      /\ \A Q, j : Worth(K, allocs, Q, j)
                     = Worth(holdings, allocs, Q, j) - Share(p, i, amt, Q, j)
  <2>1. SomeHoldings(holdings, nextId) /\ SomeAllocs(allocs, nextId)
    BY DEF LedgerInv
  <2> QED BY <1>1, <2>1, SpendWorth
<1>3. /\ a \in Allocation /\ a.id = nextId /\ a.sender = p /\ a.instrument = i
      /\ a.amount = amt
  BY <1>1 DEF Allocation
<1>4. /\ holdings' = K /\ allocs' = allocs \cup {a} /\ UNCHANGED <<minted, now>>
  OBVIOUS
<1> HIDE DEF a, K
<1>5. a \notin allocs /\ SomeAllocs(allocs \cup {a}, nextId + 1)
  BY <1>1, <1>3, NewAllocFits DEF LedgerInv
<1>9. SomeHoldings(holdings', nextId') /\ SomeAllocs(allocs', nextId')
  BY <1>1, <1>2, <1>4, <1>5, StillSome
<1>6. \A Q, j : Worth(K, allocs \cup {a}, Q, j)
        = Worth(K, allocs, Q, j) + Share(a.sender, a.instrument, a.amount, Q, j)
  BY <1>2, <1>3, <1>5, EscrowWorth DEF LedgerInv
<1>7. LedgerInv'
  BY <1>1, <1>4, <1>9 DEF LedgerInv, RegistryTypeOK, SomeHoldings, SomeAllocs
<1>8. ASSUME NEW Q, NEW j PROVE Worth(K, allocs \cup {a}, Q, j) = Worth(holdings, allocs, Q, j)
  <2>1. Worth(holdings, allocs, Q, j) \in Nat /\ Share(p, i, amt, Q, j) \in Nat
    BY WorthNat DEF LedgerInv, Share
  <2>2. /\ Worth(K, allocs, Q, j) = Worth(holdings, allocs, Q, j) - Share(p, i, amt, Q, j)
        /\ Worth(K, allocs \cup {a}, Q, j)
             = Worth(K, allocs, Q, j) + Share(p, i, amt, Q, j)
    BY <1>2, <1>3, <1>6
  <2> QED BY <2>1, <2>2
<1> QED BY <1>4, <1>7, <1>8 DEF Worths

LEMMA AllocateWorth ==
  ASSUME LedgerInv, NEW p \in Parties, NEW q \in Parties, NEW i \in Instruments,
         NEW amt \in Nat \ {0}, NEW inputs \in Seq(Holding), NEW leg \in Legs,
         NEW d \in Nat, Allocate(p, inputs, i, q, amt, leg, d)
  PROVE  /\ LedgerInv'
         /\ \A Q, j : Worths(Q, j)' = Worths(Q, j)
<1>1. nextId \in Nat /\ nextId <= MaxId /\ nextId' \in Nat /\ nextId + 1 <= nextId'
  BY DEF LedgerInv, RegistryTypeOK, Allocate
<1>2. Spendable(holdings, inputs, i, p, amt)
  BY DEF Allocate, CanAllocate, CanSpend, Spendable
<1>3. holdings' = Spent(holdings, inputs, i, p, amt, nextId)
  BY DEF Allocate, Spent
<1>4. /\ allocs' = allocs \cup
           {[id |-> nextId, sender |-> p, receiver |-> q, instrument |-> i,
             amount |-> amt, leg |-> leg, settleBefore |-> d]}
      /\ UNCHANGED <<minted, now>>
  BY DEF Allocate
<1> QED BY <1>1, <1>2, <1>3, <1>4, EscrowedWorth

\* An allocation is archived and one party gets a holding of its amount.
LEMMA PaidOutWorth ==
  ASSUME LedgerInv, NEW a \in allocs, NEW q \in Parties, nextId <= MaxId,
         allocs' = allocs \ {a},
         holdings' = holdings \cup {NewHolding(nextId, q, a.instrument, a.amount)},
         nextId' = nextId + 1, UNCHANGED <<minted, now>>
  PROVE  /\ LedgerInv'
         /\ \A Q, j : Worths(Q, j)'
              = (Worths(Q, j) - Share(a.sender, a.instrument, a.amount, Q, j))
                  + Share(q, a.instrument, a.amount, Q, j)
<1> DEFINE h == NewHolding(nextId, q, a.instrument, a.amount)
           B == allocs \ {a}
<1>1. nextId \in Ids /\ nextId \in Nat /\ nextId' \in Nat \ {0} /\ nextId <= nextId'
  BY DEF LedgerInv, RegistryTypeOK, Ids
<1>2. /\ SomeAllocs(B, nextId)
      /\ \A Q, j : Worth(holdings, B, Q, j)
           = Worth(holdings, allocs, Q, j) - Share(a.sender, a.instrument, a.amount, Q, j)
  BY ReleaseWorth DEF LedgerInv
<1>3. a \in Allocation
  BY DEF LedgerInv, RegistryTypeOK
<1>4. /\ h \in Holding /\ h.id = nextId /\ h.owner = q /\ h.instrument = a.instrument
      /\ h.amount = a.amount
  BY <1>1, <1>3 DEF NewHolding, Holding, Allocation
<1>5. holdings' = holdings \cup {h} /\ allocs' = B
  OBVIOUS
<1> HIDE DEF h, B
<1>6. h \notin holdings /\ SomeHoldings(holdings', nextId')
  BY <1>1, <1>4, <1>5, NewHoldingFits DEF LedgerInv
<1>7. \A Q, j : Worth(holdings \cup {h}, B, Q, j)
        = Worth(holdings, B, Q, j) + Share(h.owner, h.instrument, h.amount, Q, j)
  BY <1>2, <1>4, <1>6, GainWorth DEF LedgerInv
<1>8. SomeAllocs(B, nextId')
  BY <1>1, <1>2, StillSome
<1>9. LedgerInv'
  BY <1>1, <1>5, <1>6, <1>8 DEF LedgerInv, RegistryTypeOK, SomeHoldings, SomeAllocs
<1> QED BY <1>2, <1>4, <1>5, <1>7, <1>9 DEF Worths

\* Cancelling and withdrawing give the sender its own back.
LEMMA RecoverWorth ==
  ASSUME LedgerInv, NEW a \in allocs, Recover(a)
  PROVE  LedgerInv' /\ \A Q, j : Worths(Q, j)' = Worths(Q, j)
<1>1. a \in Allocation
  BY DEF LedgerInv, RegistryTypeOK
<1>2. a.sender \in Parties /\ a.amount \in Nat
  BY <1>1 DEF Allocation
<1>3. /\ LedgerInv'
      /\ \A Q, j : Worths(Q, j)'
           = (Worths(Q, j) - Share(a.sender, a.instrument, a.amount, Q, j))
               + Share(a.sender, a.instrument, a.amount, Q, j)
  BY <1>2, PaidOutWorth DEF Recover
<1>4. \A Q, j : /\ Worths(Q, j) \in Nat
                /\ Share(a.sender, a.instrument, a.amount, Q, j) \in Nat
  BY <1>2, WorthNat DEF LedgerInv, Worths, Share
<1> QED BY <1>3, <1>4

\* Executing it pays the receiver.
LEMMA ExecuteWorth ==
  ASSUME LedgerInv, NEW a \in allocs, ExecuteTransfer(a)
  PROVE  /\ LedgerInv'
         /\ \A Q, j : Worths(Q, j)'
              = (Worths(Q, j) - Share(a.sender, a.instrument, a.amount, Q, j))
                  + Share(a.receiver, a.instrument, a.amount, Q, j)
<1>1. a.receiver \in Parties
  BY DEF LedgerInv, RegistryTypeOK, Allocation
<1> QED BY <1>1, PaidOutWorth DEF ExecuteTransfer

LEMMA GenesisFacts ==
  /\ Len(Genesis) \in Nat
  /\ SomeHoldings(GenesisHoldings, Len(Genesis) + 1)
<1>1. Len(Genesis) \in Nat
  BY RegistryAssumption
<1> DEFINE f == [k \in 1 .. Len(Genesis) |->
                   NewHolding(k, Genesis[k].owner, Genesis[k].instrument, Genesis[k].amount)]
<1>2. ASSUME NEW k \in 1 .. Len(Genesis)
      PROVE  f[k] \in Holding /\ f[k].id = k
  <2>1. Genesis[k] \in [owner : Parties, instrument : Instruments, amount : Nat \ {0}]
    BY RegistryAssumption, SeqElement
  <2>2. k \in Ids
    BY <1>1, RegistryAssumption, SMT DEF Ids
  <2> QED
    BY <2>1, <2>2 DEF NewHolding, Holding
<1>3. f \in Surjection(1 .. Len(Genesis), GenesisHoldings)
  BY DEF GenesisHoldings, Surjection
<1>4. IsFiniteSet(1 .. Len(Genesis))
  BY <1>1, FS_Interval
<1>5. IsFiniteSet(GenesisHoldings)
  <2> HIDE DEF f
  <2> QED BY <1>3, <1>4, FS_Surjection
<1>6. GenesisHoldings = {f[k] : k \in 1 .. Len(Genesis)}
  BY DEF GenesisHoldings
<1>7. \A h \in GenesisHoldings : h \in Holding /\ h.id < Len(Genesis) + 1
  <2> HIDE DEF f
  <2> QED BY <1>1, <1>2, <1>6
<1> QED BY <1>1, <1>5, <1>7 DEF SomeHoldings

LEMMA LedgerInit ==
  ASSUME RegistryInit
  PROVE  LedgerInv
<1>1. RegistryTypeOK
  BY GenesisFacts, RegistryAssumption DEF RegistryInit, RegistryTypeOK, SomeHoldings
<1>2. IsFiniteSet({})
  BY FS_EmptySet
<1> QED BY <1>1, <1>2, GenesisFacts DEF RegistryInit, LedgerInv, SomeAllocs

\* What a step did to everybody's worth, whoever is asked about: nothing, an
\* issue to one party, or a payment of one party to another.
Keeps == \A Q, j : Worths(Q, j)' = Worths(Q, j)
Issues(p, i, n) == \A Q, j : Worths(Q, j)' = Worths(Q, j) + Share(p, i, n, Q, j)
Pays(p, q, i, n) ==
  \A Q, j : Worths(Q, j)' = (Worths(Q, j) - Share(p, i, n, Q, j)) + Share(q, i, n, Q, j)

LEMMA HoldingStepWorth ==
  ASSUME LedgerInv, HoldingStep
  PROVE  /\ LedgerInv'
         /\ \/ Keeps /\ UNCHANGED minted
            \/ \E p \in Parties, i \in Instruments, n \in Nat \ {0} :
                 Issues(p, i, n) /\ minted' = [minted EXCEPT ![i] = @ + n] /\ UNCHANGED allocs
            \/ \E p, q \in Parties, i \in Instruments, n \in Nat \ {0} :
                 Pays(p, q, i, n) /\ UNCHANGED <<minted, allocs>>
<1>1. CASE \E p \in Parties, i \in Instruments, amt \in Amounts : Mint(p, i, amt)
  <2>1. PICK p \in Parties, i \in Instruments, amt \in Amounts : Mint(p, i, amt)
    BY <1>1
  <2>2. amt \in Nat \ {0}
    BY RegistryAssumption
  <2>3. LedgerInv' /\ Issues(p, i, amt)
    BY <2>1, <2>2, MintWorth DEF Issues
  <2>4. minted' = [minted EXCEPT ![i] = @ + amt] /\ UNCHANGED allocs
    BY <2>1 DEF Mint
  <2> QED BY <2>2, <2>3, <2>4
<1>2. CASE \E p, q \in Parties, i \in Instruments, amt \in Amounts :
             \E inputs \in InputLists({h \in holdings : h.owner = p}) :
               Transfer(p, inputs, i, q, amt)
  <2>1. PICK p \in Parties, q \in Parties, i \in Instruments, amt \in Amounts :
          \E inputs \in InputLists({h \in holdings : h.owner = p}) :
            Transfer(p, inputs, i, q, amt)
    BY <1>2
  <2>2. PICK inputs \in InputLists({h \in holdings : h.owner = p}) :
          Transfer(p, inputs, i, q, amt)
    BY <2>1
  <2>3. amt \in Nat \ {0}
    BY RegistryAssumption
  <2>4. inputs \in Seq(Holding)
    BY InputsAreHoldings DEF LedgerInv, RegistryTypeOK
  <2>5. LedgerInv' /\ Pays(p, q, i, amt)
    BY <2>2, <2>3, <2>4, TransferWorth DEF Pays
  <2>6. UNCHANGED <<minted, allocs>>
    BY <2>2 DEF Transfer
  <2> QED BY <2>3, <2>5, <2>6
<1>3. CASE \E a \in allocs : Recover(a)
  BY <1>3, RecoverWorth DEF Recover, Keeps
<1> QED BY <1>1, <1>2, <1>3 DEF HoldingStep

LEMMA TickWorth ==
  ASSUME LedgerInv, Tick
  PROVE  LedgerInv' /\ Keeps
<1>1. now' \in 0 .. MaxTime
  BY RegistryAssumption DEF LedgerInv, RegistryTypeOK, Tick
<1> QED
  BY <1>1 DEF LedgerInv, RegistryTypeOK, SomeHoldings, SomeAllocs, Tick, Keeps, Worths

\* What is issued is all there is, and a payment leaves it there.
Supplied ==
  \A i \in Instruments :
    Value({h \in GenesisHoldings : h.instrument = i}) + minted[i] = Worths(Parties, i)

LEMMA SuppliedInit ==
  ASSUME RegistryInit
  PROVE  Supplied
<1> SUFFICES ASSUME NEW i \in Instruments
             PROVE  Value({h \in GenesisHoldings : h.instrument = i}) + minted[i]
                      = Worths(Parties, i)
  BY DEF Supplied
<1>1. HeldBy(holdings, Parties, i) = {h \in GenesisHoldings : h.instrument = i}
  BY GenesisFacts DEF HeldBy, RegistryInit, SomeHoldings, Holding
<1>2. EscrowedBy(allocs, Parties, i) = {}
  BY DEF EscrowedBy, RegistryInit
<1>3. minted[i] = 0
  BY DEF RegistryInit
<1> QED BY <1>1, <1>2, <1>3, ValueEmpty DEF Worths, Worth

LEMMA SuppliedNext ==
  ASSUME LedgerInv, Supplied,
         \/ Keeps /\ UNCHANGED minted
         \/ \E p \in Parties, i \in Instruments, n \in Nat \ {0} :
              Issues(p, i, n) /\ minted' = [minted EXCEPT ![i] = @ + n]
         \/ \E p, q \in Parties, i \in Instruments, n \in Nat \ {0} :
              Pays(p, q, i, n) /\ UNCHANGED minted
  PROVE  Supplied'
<1> DEFINE G(j) == Value({h \in GenesisHoldings : h.instrument = j})
<1>1. \A j \in Instruments : /\ G(j) + minted[j] = Worths(Parties, j)
                             /\ Worths(Parties, j) \in Nat /\ minted[j] \in Nat
  BY WorthNat DEF Supplied, LedgerInv, RegistryTypeOK, Worths
<1>6. ASSUME NEW j \in Instruments PROVE G(j) \in Nat
  <2>1. /\ IsFiniteSet({h \in GenesisHoldings : h.instrument = j})
        /\ \A h \in {h \in GenesisHoldings : h.instrument = j} : h.amount \in Nat
    BY GenesisFacts, FS_Subset DEF SomeHoldings, Holding
  <2> QED BY <2>1, ValueNat
<1>2. SUFFICES ASSUME NEW j \in Instruments
               PROVE  G(j) + minted'[j] = Worths(Parties, j)'
  BY DEF Supplied
<1> HIDE DEF G
<1>3. CASE Keeps /\ UNCHANGED minted
  BY <1>1, <1>3 DEF Keeps
<1>4. CASE \E p \in Parties, i \in Instruments, n \in Nat \ {0} :
             Issues(p, i, n) /\ minted' = [minted EXCEPT ![i] = @ + n]
  <2>1. PICK p \in Parties, i \in Instruments, n \in Nat \ {0} :
          Issues(p, i, n) /\ minted' = [minted EXCEPT ![i] = @ + n]
    BY <1>4
  <2>2. /\ Worths(Parties, j)' = Worths(Parties, j) + (IF i = j THEN n ELSE 0)
        /\ minted'[j] = minted[j] + (IF i = j THEN n ELSE 0)
    BY <1>1, <2>1 DEF Issues, Share, LedgerInv, RegistryTypeOK
  <2> QED BY <1>1, <1>6, <2>2
<1>5. CASE \E p, q \in Parties, i \in Instruments, n \in Nat \ {0} :
             Pays(p, q, i, n) /\ UNCHANGED minted
  <2>1. PICK p \in Parties, q \in Parties, i \in Instruments, n \in Nat \ {0} :
          Pays(p, q, i, n) /\ UNCHANGED minted
    BY <1>5
  <2>2. Worths(Parties, j)' = (Worths(Parties, j) - (IF i = j THEN n ELSE 0))
                                + (IF i = j THEN n ELSE 0)
    BY <2>1 DEF Pays, Share
  <2> QED BY <1>1, <2>1, <2>2
<1> QED BY <1>3, <1>4, <1>5

\* Holdings have owners and allocations senders among the parties.
LEMMA SupplyIsWorth ==
  ASSUME LedgerInv
  PROVE  Conservation <=> Supplied
<1>1. \A i : /\ HeldBy(holdings, Parties, i) = {h \in holdings : h.instrument = i}
             /\ EscrowedBy(allocs, Parties, i) = {a \in allocs : a.instrument = i}
  BY DEF LedgerInv, RegistryTypeOK, HeldBy, EscrowedBy, Holding, Allocation
<1> QED BY <1>1, Zenon DEF Conservation, Supplied, Worths, Worth

LEMMA WealthIsWorth ==
  \A p, i : /\ Wealth(p, i) = Worths({p}, i)
            /\ Wealth(p, i)' = Worths({p}, i)'
<1> SUFFICES ASSUME NEW p, NEW i
             PROVE  /\ Wealth(p, i) = Worths({p}, i)
                    /\ Wealth(p, i)' = Worths({p}, i)'
  OBVIOUS
<1>1. /\ {h \in holdings : h.owner = p /\ h.instrument = i} = HeldBy(holdings, {p}, i)
      /\ {a \in allocs : a.sender = p /\ a.instrument = i} = EscrowedBy(allocs, {p}, i)
  BY DEF HeldBy, EscrowedBy
<1>2. /\ {h \in holdings' : h.owner = p /\ h.instrument = i} = HeldBy(holdings', {p}, i)
      /\ {a \in allocs' : a.sender = p /\ a.instrument = i} = EscrowedBy(allocs', {p}, i)
  BY DEF HeldBy, EscrowedBy
<1>3. Wealth(p, i) = Worths({p}, i)
  BY <1>1, Zenon DEF Wealth, Worths, Worth
<1>4. Wealth(p, i)' = Worths({p}, i)'
  BY <1>2, Zenon DEF Wealth, Worths, Worth
<1> QED BY <1>3, <1>4

LEMMA RegistryStep ==
  ASSUME LedgerInv, [RegistryNext]_registryVars
  PROVE  /\ LedgerInv'
         /\ \/ Keeps /\ UNCHANGED minted
            \/ \E p \in Parties, i \in Instruments, n \in Nat \ {0} :
                 Issues(p, i, n) /\ minted' = [minted EXCEPT ![i] = @ + n]
            \/ \E p, q \in Parties, i \in Instruments, n \in Nat \ {0} :
                 /\ Pays(p, q, i, n) /\ UNCHANGED minted
                 /\ \/ UNCHANGED allocs
                    \/ \E a \in allocs \ allocs' :
                         /\ a.sender = p /\ a.receiver = q /\ a.instrument = i
                         /\ a.amount = n /\ now < a.settleBefore
<1>1. CASE HoldingStep
  BY <1>1, HoldingStepWorth
<1>2. CASE \E p, q \in Parties, i \in Instruments, amt \in Amounts :
             \E inputs \in InputLists(holdings), d \in 1 .. MaxTime :
               Allocate(p, inputs, i, q, amt, "base", d)
  <2>1. PICK p \in Parties, q \in Parties, i \in Instruments, amt \in Amounts :
          \E inputs \in InputLists(holdings), d \in 1 .. MaxTime :
            Allocate(p, inputs, i, q, amt, "base", d)
    BY <1>2
  <2>2. PICK inputs \in InputLists(holdings), d \in 1 .. MaxTime :
          Allocate(p, inputs, i, q, amt, "base", d)
    BY <2>1
  <2>3. amt \in Nat \ {0} /\ d \in Nat /\ "base" \in Legs
    BY RegistryAssumption DEF Legs
  <2>4. inputs \in Seq(Holding)
    BY InputsAreHoldings DEF LedgerInv, RegistryTypeOK
  <2>5. LedgerInv' /\ Keeps
    BY <2>2, <2>3, <2>4, AllocateWorth DEF Keeps
  <2> QED BY <2>2, <2>5 DEF Allocate
<1>3. CASE \E a \in allocs : ExecuteTransfer(a)
  <2>1. PICK a \in allocs : ExecuteTransfer(a)
    BY <1>3
  <2>2. LedgerInv' /\ Pays(a.sender, a.receiver, a.instrument, a.amount)
    BY <2>1, ExecuteWorth DEF Pays
  <2>3. /\ a.sender \in Parties /\ a.receiver \in Parties /\ a.instrument \in Instruments
        /\ a.amount \in Nat \ {0}
    BY DEF LedgerInv, RegistryTypeOK, Allocation
  <2>4. a \in allocs \ allocs' /\ now < a.settleBefore /\ UNCHANGED minted
    BY <2>1 DEF ExecuteTransfer
  <2> QED BY <2>2, <2>3, <2>4
<1>4. CASE Tick
  BY <1>4, TickWorth DEF Tick
<1>5. CASE UNCHANGED registryVars
  BY <1>5 DEF registryVars, LedgerInv, RegistryTypeOK, SomeHoldings, SomeAllocs, Keeps, Worths
<1> QED BY <1>1, <1>2, <1>3, <1>4, <1>5 DEF RegistryNext

THEOREM LedgerInvariance == RegistrySpec => [](LedgerInv /\ Supplied)
<1>1. RegistryInit => LedgerInv /\ Supplied
  BY LedgerInit, SuppliedInit
<1>2. LedgerInv /\ Supplied /\ [RegistryNext]_registryVars => (LedgerInv /\ Supplied)'
  <2> SUFFICES ASSUME LedgerInv, Supplied, [RegistryNext]_registryVars
               PROVE  LedgerInv' /\ Supplied'
    OBVIOUS
  <2>1. LedgerInv'
    BY RegistryStep
  <2>2. \/ Keeps /\ UNCHANGED minted
        \/ \E p \in Parties, i \in Instruments, n \in Nat \ {0} :
             Issues(p, i, n) /\ minted' = [minted EXCEPT ![i] = @ + n]
        \/ \E p, q \in Parties, i \in Instruments, n \in Nat \ {0} :
             Pays(p, q, i, n) /\ UNCHANGED minted
    BY RegistryStep
  <2> QED BY <2>1, <2>2, SuppliedNext
<1> QED BY <1>1, <1>2, PTL DEF RegistrySpec

\* The registry's contracts are well-formed in every reachable state.
THEOREM RegistryTypeCorrect == RegistrySpec => []RegistryTypeOK
<1>1. LedgerInv => RegistryTypeOK
  BY DEF LedgerInv
<1> QED BY <1>1, LedgerInvariance, PTL

\* For any parties, instruments and amounts, and however the holdings are split
\* and put together, the registry never creates nor destroys value: what is
\* held and what is escrowed add up to what the admin issued.
THEOREM ValueIsConserved == RegistrySpec => []Conservation
<1>1. LedgerInv /\ Supplied => Conservation
  BY SupplyIsWorth
<1> QED BY <1>1, LedgerInvariance, PTL

LEMMA PaysWhole ==
  ASSUME LedgerInv, LedgerInv', NEW p0 \in Parties, NEW q0 \in Parties,
         NEW i0 \in Instruments, NEW n \in Nat \ {0}, Pays(p0, q0, i0, n),
         NEW p \in Parties, NEW i \in Instruments, Wealth(p, i)' < Wealth(p, i)
  PROVE  /\ p = p0 /\ i = i0 /\ q0 # p
         /\ Wealth(p, i) - Wealth(p, i)' = n
         /\ Wealth(q0, i)' - Wealth(q0, i) = n
         /\ \A r \in Parties \ {p, q0} : Wealth(r, i)' = Wealth(r, i)
<1>1. \A r, j : /\ Wealth(r, j) = Worths({r}, j)
                /\ Wealth(r, j)' = Worths({r}, j)'
  BY WealthIsWorth
<1>2. \A r, j : Wealth(r, j) \in Nat
  BY <1>1, WorthNat DEF LedgerInv, Worths
<1>3. \A r, j : Wealth(r, j)'
        = (Wealth(r, j) - (IF p0 = r /\ i0 = j THEN n ELSE 0))
            + (IF q0 = r /\ i0 = j THEN n ELSE 0)
  BY <1>1 DEF Pays, Share
<1>4. p = p0 /\ i = i0 /\ q0 # p
  BY <1>2, <1>3
<1>5. Wealth(p, i)' = Wealth(p, i) - n /\ Wealth(q0, i)' = Wealth(q0, i) + n
  BY <1>2, <1>3, <1>4
<1>6. \A r \in Parties \ {p, q0} : Wealth(r, i)' = Wealth(r, i)
  BY <1>2, <1>3, <1>4
<1> QED BY <1>2, <1>4, <1>5, <1>6

\* No step takes from a party a part of what it holds or has escrowed without
\* giving exactly that to one other party; an allocation that goes with it is
\* one from the one to the other, of just that, in time.
THEOREM ValueLeavesWhole == RegistrySpec => LeavesWhole
<1> DEFINE Whole(p, i) ==
      Wealth(p, i)' < Wealth(p, i) =>
         \E q \in Parties \ {p} :
           /\ Wealth(q, i)' - Wealth(q, i) = Wealth(p, i) - Wealth(p, i)'
           /\ \A r \in Parties \ {p, q} : Wealth(r, i)' = Wealth(r, i)
           /\ allocs' # allocs =>
                \E a \in allocs \ allocs' :
                  /\ a.sender = p /\ a.receiver = q /\ a.instrument = i
                  /\ a.amount = Wealth(p, i) - Wealth(p, i)'
                  /\ now < a.settleBefore
<1>1. LedgerInv /\ [RegistryNext]_registryVars
        => [\A p \in Parties, i \in Instruments : Whole(p, i)]_registryVars
  <2> SUFFICES ASSUME LedgerInv, [RegistryNext]_registryVars,
                      NEW p \in Parties, NEW i \in Instruments
               PROVE  Whole(p, i)
    BY Zenon
  <2>1. /\ Wealth(p, i) = Worths({p}, i) /\ Wealth(p, i)' = Worths({p}, i)'
        /\ Wealth(p, i) \in Nat
    <3>1. Worths({p}, i) \in Nat
      BY WorthNat DEF LedgerInv, Worths
    <3> QED BY <3>1, WealthIsWorth
  <2>2. LedgerInv'
    BY RegistryStep
  <2>3. CASE Keeps
    BY <2>1, <2>3 DEF Keeps
  <2>4. CASE \E p0 \in Parties, i0 \in Instruments, n \in Nat \ {0} : Issues(p0, i0, n)
    BY <2>1, <2>4 DEF Issues, Share
  <2>5. ASSUME NEW p0 \in Parties, NEW q0 \in Parties, NEW i0 \in Instruments,
               NEW n \in Nat \ {0}, Pays(p0, q0, i0, n),
               \/ UNCHANGED allocs
               \/ \E a \in allocs \ allocs' :
                    /\ a.sender = p0 /\ a.receiver = q0 /\ a.instrument = i0
                    /\ a.amount = n /\ now < a.settleBefore
        PROVE  Whole(p, i)
    <3>1. SUFFICES ASSUME Wealth(p, i)' < Wealth(p, i)
                   PROVE  \E q \in Parties \ {p} :
           /\ Wealth(q, i)' - Wealth(q, i) = Wealth(p, i) - Wealth(p, i)'
           /\ \A r \in Parties \ {p, q} : Wealth(r, i)' = Wealth(r, i)
           /\ allocs' # allocs =>
                \E a \in allocs \ allocs' :
                  /\ a.sender = p /\ a.receiver = q /\ a.instrument = i
                  /\ a.amount = Wealth(p, i) - Wealth(p, i)'
                  /\ now < a.settleBefore
      OBVIOUS
    <3>2. /\ p = p0 /\ i = i0 /\ q0 # p
          /\ Wealth(p, i) - Wealth(p, i)' = n
          /\ Wealth(q0, i)' - Wealth(q0, i) = n
          /\ \A r \in Parties \ {p, q0} : Wealth(r, i)' = Wealth(r, i)
      BY <2>2, <2>5, <3>1, PaysWhole
    <3>3. q0 \in Parties \ {p}
      BY <3>2
    <3> WITNESS q0 \in Parties \ {p}
    <3> QED BY <2>5, <3>2
  <2> QED BY <2>3, <2>4, <2>5, RegistryStep
<1> QED BY <1>1, LedgerInvariance, PTL DEF RegistrySpec, LeavesWhole

=============================================================================
