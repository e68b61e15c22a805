---------------------------- MODULE MatcherProofs ----------------------------
(***************************************************************************)
(* The matcher and the funding selection, on every book the traders and    *)
(* the venue can make: the service's decimals are the contracts'; a pass   *)
(* plans pairs the contract accepts, each order once, in price-time        *)
(* priority; and the holdings picked for an order are enough and minimal.  *)
(* The greedy loops are followed by induction on the position in the book  *)
(* and on the number of holdings.                                          *)
(***************************************************************************)
EXTENDS Matcher, DarkPoolProofs

\* decimal.ts:1: "so matching and funding agree bit-for-bit": BigInt division by
\* 10^10 gives the quote that floorTo10 gives, and halving the sum the midpoint
\* it gives, so a plan and the contract never differ by a tick.
THEOREM DecimalsAgree ==
  ASSUME NEW x \in Nat, NEW y \in Nat
  PROVE  /\ DecQuoteAmount(x, y) = QuoteAmount(x, y)
         /\ DecMidpointPrice(x, y) = MidpointPrice(x, y)
<1>1. x * y \in Nat
  OBVIOUS
<1>2. DecQuoteAmount(x, y) = QuoteAmount(x, y)
  BY <1>1, FloorTo10IsDivision DEF DecQuoteAmount, QuoteAmount
<1>3. DecMidpointPrice(x, y) = MidpointPrice(x, y)
  BY MidpointIsDivision DEF DecMidpointPrice
<1> QED
  BY <1>2, <1>3

\* requiredFunding is what DarkPool_PlaceOrder requires of the declared list: a
\* selection that covers the one covers the other.
THEOREM FundingTargetsAgree ==
  ASSUME NEW side \in Side, NEW quantity \in Nat, NEW limitPrice \in Nat
  PROVE  DecRequiredFunding(side, quantity, limitPrice)
           = Required(side, quantity, limitPrice)
  BY DecimalsAgree DEF DecRequiredFunding, Required, BuyFundingTarget, Side

\* An order the service takes for live is one the contract fills, and the other
\* way round, when their clocks agree: the boundary is on the same side.
THEOREM LivenessAgrees ==
  ASSUME NEW o, o.expiresAt \in Nat \cup {NoExpiry}, now \in Nat
  PROVE  IsLive(o, now) <=> ~Expired(o)
  BY DEF IsLive, Expired, NoExpiry

-----------------------------------------------------------------------------
\* Sorting.  A finite set that R puts in order is listed by the ranks of its
\* elements.

Orders(R, S) ==
  /\ \A x \in S : <<x, x>> \notin R
  /\ \A x, y \in S : x # y => <<x, y>> \in R \/ <<y, x>> \in R
  /\ \A x, y, z \in S : <<x, y>> \in R /\ <<y, z>> \in R => <<x, z>> \in R

Below(R, S, x) == {y \in S : <<y, x>> \in R}

\* list has every element of S, the earlier in R first.
Lists(list, S, R) ==
  /\ list \in [1 .. Cardinality(S) -> S]
  /\ \A x \in S : \E n \in 1 .. Cardinality(S) : list[n] = x
  /\ \A m, n \in 1 .. Cardinality(S) : m < n => <<list[m], list[n]>> \in R

\* Ranks follow the order and start at 0.
LEMMA RanksFollow ==
  ASSUME NEW S, IsFiniteSet(S), NEW R, Orders(R, S)
  PROVE  /\ \A x \in S : Cardinality(Below(R, S, x)) \in 0 .. Cardinality(S) - 1
         /\ \A x, y \in S : <<x, y>> \in R =>
              Cardinality(Below(R, S, x)) < Cardinality(Below(R, S, y))
<1>1. ASSUME NEW x \in S
      PROVE  Cardinality(Below(R, S, x)) \in 0 .. Cardinality(S) - 1
  <2>1. Below(R, S, x) \subseteq S \ {x}
    BY DEF Below, Orders
  <2>2. IsFiniteSet(S \ {x}) /\ Cardinality(S \ {x}) = Cardinality(S) - 1
    BY FS_RemoveElement
  <2>3. /\ IsFiniteSet(Below(R, S, x))
        /\ Cardinality(Below(R, S, x)) <= Cardinality(S \ {x})
    BY <2>1, <2>2, FS_Subset
  <2>4. Cardinality(Below(R, S, x)) \in Nat /\ Cardinality(S) \in Nat
    BY <2>3, FS_CardinalityType
  <2> QED
    BY <2>2, <2>3, <2>4
<1>2. ASSUME NEW x \in S, NEW y \in S, <<x, y>> \in R
      PROVE  Cardinality(Below(R, S, x)) < Cardinality(Below(R, S, y))
  <2>1. /\ Below(R, S, x) \subseteq Below(R, S, y)
        /\ x \in Below(R, S, y) /\ x \notin Below(R, S, x)
    BY <1>2 DEF Below, Orders
  <2>2. IsFiniteSet(Below(R, S, y))
    BY FS_Subset DEF Below
  <2>3. Below(R, S, x) # Below(R, S, y)
    BY <2>1
  <2>4. /\ Cardinality(Below(R, S, x)) <= Cardinality(Below(R, S, y))
        /\ Cardinality(Below(R, S, x)) # Cardinality(Below(R, S, y))
    BY <2>1, <2>2, <2>3, FS_Subset
  <2>5. Cardinality(Below(R, S, x)) \in Nat /\ Cardinality(Below(R, S, y)) \in Nat
    BY <1>1
  <2> QED
    BY <2>4, <2>5
<1> QED
  BY <1>1, <1>2

\* So they are all taken, each once, and the list of them is in order.
LEMMA RanksList ==
  ASSUME NEW S, IsFiniteSet(S), NEW R, Orders(R, S), NEW list,
         list = [n \in 1 .. Cardinality(S) |->
                   CHOOSE x \in S : Cardinality(Below(R, S, x)) = n - 1]
  PROVE  Lists(list, S, R)
<1> DEFINE N == Cardinality(S)
           rank == [x \in S |-> Cardinality(Below(R, S, x)) + 1]
<1>0. N \in Nat
  BY FS_CardinalityType
<1>1. rank \in [S -> 1 .. N]
  BY <1>0, RanksFollow
<1>2. \A x, y \in S : <<x, y>> \in R => rank[x] < rank[y]
  BY RanksFollow
<1>3. \A x \in S : rank[x] \in Nat
  BY <1>0, <1>1
<1>4. ASSUME NEW x \in S, NEW y \in S, rank[x] = rank[y] PROVE x = y
  <2>1. ~(rank[x] < rank[y]) /\ ~(rank[y] < rank[x])
    <3> HIDE DEF rank
    <3> QED
      BY <1>3, <1>4
  <2>2. <<x, y>> \notin R /\ <<y, x>> \notin R
    BY <1>2, <2>1, Zenon
  <2> QED
    BY <2>2 DEF Orders
<1>5. rank \in Injection(S, 1 .. N)
  BY <1>1, <1>4 DEF Injection, IsInjective
<1>6. IsFiniteSet(1 .. N) /\ Cardinality(1 .. N) = N
  BY <1>0, FS_Interval
<1>7. rank \in Surjection(S, 1 .. N)
  BY <1>5, <1>6, FS_Injection
<1>8. \A n \in 1 .. N : \E x \in S : rank[x] = n
  BY <1>7 DEF Surjection
<1>9. ASSUME NEW n \in 1 .. N PROVE list[n] \in S /\ rank[list[n]] = n
  <2>1. PICK x \in S : rank[x] = n
    BY <1>8
  <2>2. Cardinality(Below(R, S, x)) = n - 1
    BY <1>3, <2>1, RanksFollow
  <2>3. list[n] \in S /\ Cardinality(Below(R, S, list[n])) = n - 1
    BY <2>2
  <2> QED
    BY <2>3
<1> HIDE DEF N, rank
<1>10. list \in [1 .. N -> S]
  BY <1>9 DEF N
<1>11. \A x \in S : \E n \in 1 .. N : list[n] = x
  BY <1>1, <1>4, <1>9
<1>12. ASSUME NEW m \in 1 .. N, NEW n \in 1 .. N, m < n
       PROVE  <<list[m], list[n]>> \in R
  <2>1. /\ list[m] \in S /\ rank[list[m]] = m
        /\ list[n] \in S /\ rank[list[n]] = n
    BY <1>9
  <2>2. list[m] # list[n] /\ ~(rank[list[n]] < rank[list[m]])
    BY <1>12, <2>1
  <2> QED
    BY <1>2, <2>1, <2>2 DEF Orders
<1> QED
  BY <1>10, <1>11, <1>12 DEF Lists, N

\* No element is listed twice.
LEMMA ListsOnce ==
  ASSUME NEW S, IsFiniteSet(S), NEW R, Orders(R, S), NEW list, Lists(list, S, R)
  PROVE  /\ list \in Seq(S) /\ Len(list) = Cardinality(S) /\ Cardinality(S) \in Nat
         /\ DOMAIN list = 1 .. Cardinality(S)
         /\ \A m, n \in 1 .. Cardinality(S) : list[m] = list[n] => m = n
         /\ \A m, n \in 1 .. Cardinality(S) : <<list[m], list[n]>> \in R => m < n
<1>0. Cardinality(S) \in Nat
  BY FS_CardinalityType
<1>1. list \in Seq(S) /\ Len(list) = Cardinality(S) /\ DOMAIN list = 1 .. Cardinality(S)
  BY <1>0 DEF Lists
<1>2. ASSUME NEW m \in 1 .. Cardinality(S), NEW n \in 1 .. Cardinality(S), ~(m < n),
             \/ list[m] = list[n] /\ m # n
             \/ <<list[m], list[n]>> \in R
      PROVE  FALSE
  <2>1. list[m] \in S /\ list[n] \in S /\ m \in Int /\ n \in Int
    BY DEF Lists
  <2>2. m = n \/ n < m
    BY <1>2, <2>1
  <2>3. m = n \/ <<list[n], list[m]>> \in R
    BY <2>2 DEF Lists
  <2>4. <<list[m], list[m]>> \notin R /\ <<list[n], list[n]>> \notin R
    BY <2>1 DEF Orders
  <2>5. <<list[m], list[n]>> \in R
    BY <1>2, <2>3, <2>4
  <2> QED
    BY <2>1, <2>3, <2>4, <2>5 DEF Orders
<1>3. \A m, n \in 1 .. Cardinality(S) : <<list[m], list[n]>> \in R => m < n
  BY <1>2
<1>4. ASSUME NEW m \in 1 .. Cardinality(S), NEW n \in 1 .. Cardinality(S),
             list[m] = list[n], m # n
      PROVE  FALSE
  <2>1. ~(m < n) \/ ~(n < m)
    BY <1>0
  <2> QED
    BY <1>2, <1>4, <2>1
<1> QED
  BY <1>0, <1>1, <1>3, <1>4

-----------------------------------------------------------------------------
\* A pass: the plans after each buy, from those before it.

\* What the matcher reads of an order: its number, and whole amounts.
Quoted(O) ==
  \A o \in O : o.id \in Ids /\ o.quantity \in PosNat /\ o.limitPrice \in PosNat

LEMMA OrdersAreQuoted == Quoted(Order)
BY DEF Quoted, Order

PlanOf(O) == [buy : O, sell : O, fillQty : Nat]

\* The sells that plans leave to b.
Free(plans, b, sells) ==
  Counterparties(b, sells, {plans[i].sell : i \in DOMAIN plans})

\* The sell b is offered, when there is one.
Offered(plans, b, sells) == sells[Min(Free(plans, b, sells))]

Accepts(plans, b, sells, floor) ==
  LET s == Offered(plans, b, sells)
  IN  /\ Free(plans, b, sells) # {}
      /\ Eligible(FillQuantity(b.quantity, s.quantity), b, s, floor)

PlanFor(plans, b, sells) ==
  LET s == Offered(plans, b, sells)
  IN  [buy |-> b, sell |-> s, fillQty |-> FillQuantity(b.quantity, s.quantity)]

LEMMA Considered ==
  ASSUME NEW plans, NEW b, NEW sells, NEW floor
  PROVE  ConsiderBuy(plans, b, sells, floor)
           = IF Accepts(plans, b, sells, floor)
             THEN Append(plans, PlanFor(plans, b, sells)) ELSE plans
  BY DEF ConsiderBuy, Accepts, PlanFor, Offered, Free

\* The offered sell is the first of the free ones.
LEMMA OfferedIsFirst ==
  ASSUME NEW O, Quoted(O),
         NEW plans, NEW b, NEW sells \in Seq(O), Free(plans, b, sells) # {}
  PROVE  /\ Min(Free(plans, b, sells)) \in Free(plans, b, sells)
         /\ Free(plans, b, sells) \subseteq 1 .. Len(sells)
         /\ \A i \in Free(plans, b, sells) : Min(Free(plans, b, sells)) <= i
         /\ Offered(plans, b, sells) \in O
<1> DEFINE F == Free(plans, b, sells)
<1>1. F \subseteq 1 .. Len(sells)
  BY DEF Free, Counterparties
<1>2. F \subseteq Nat
  BY <1>1
<1>3. \E n \in F : \A m \in F : ~(m < n)
  BY <1>2, LeastNatural
<1>4. \E n \in F : \A m \in F : n <= m
  BY <1>2, <1>3
<1>5. Min(F) \in F /\ \A m \in F : Min(F) <= m
  BY <1>4 DEF Min
<1>6. Offered(plans, b, sells) \in O
  BY <1>1, <1>5 DEF Offered
<1> QED
  BY <1>1, <1>5, <1>6

Runs(g, buys, sells, floor) ==
  g = [n \in 0 .. Len(buys) |->
         IF n = 0 THEN << >> ELSE ConsiderBuy(g[n - 1], buys[n], sells, floor)]

\* A buy that accepts adds its plan to those before it.
LEMMA ConsiderType ==
  ASSUME NEW O, Quoted(O),
         NEW plans \in Seq(PlanOf(O)), NEW b \in O, NEW sells \in Seq(O), NEW floor
  PROVE  ConsiderBuy(plans, b, sells, floor) \in Seq(PlanOf(O))
<1>1. CASE Accepts(plans, b, sells, floor)
  <2>1. Offered(plans, b, sells) \in O
    BY <1>1, OfferedIsFirst DEF Accepts
  <2>2. b.quantity \in Nat /\ Offered(plans, b, sells).quantity \in Nat
    BY <2>1 DEF Quoted, PosNat
  <2>3. FillQuantity(b.quantity, Offered(plans, b, sells).quantity) \in Nat
    BY <2>2 DEF FillQuantity, Min2
  <2>4. PlanFor(plans, b, sells) \in PlanOf(O)
    BY <2>1, <2>3 DEF PlanFor, PlanOf
  <2> QED
    BY <1>1, <2>4, Considered
<1>2. CASE ~Accepts(plans, b, sells, floor)
  BY <1>2, Considered
<1> QED
  BY <1>1, <1>2

LEMMA RunsExist ==
  ASSUME NEW O, Quoted(O),
         NEW buys \in Seq(O), NEW sells \in Seq(O), NEW floor
  PROVE  \E g : Runs(g, buys, sells, floor)
<1> DEFINE V == Seq(PlanOf(O))
           N == Len(buys)
           step == [n \in 1 .. N |-> [v \in V |-> ConsiderBuy(v, buys[n], sells, floor)]]
<1>1. N \in Nat /\ << >> \in V
  OBVIOUS
<1>2. Stepping(step, N, V)
  BY ConsiderType DEF Stepping
<1>3. \E f : Walks(f, step, N, V, << >>)
  <2> HIDE DEF V, N, step
  <2> QED
    BY <1>1, <1>2, StepsExist
<1>4. PICK f \in [0 .. N -> V] :
        f[0] = << >> /\ \A n \in 1 .. N : f[n] = step[n][f[n - 1]]
  <2> HIDE DEF V, N, step
  <2> QED
    BY <1>3 DEF Walks
<1>5. /\ \A n \in 0 .. N : n # 0 => n \in 1 .. N
      /\ \A n \in 1 .. N : n - 1 \in 0 .. N
  BY <1>1
<1>6. ASSUME NEW n \in 1 .. N
      PROVE  f[n] = ConsiderBuy(f[n - 1], buys[n], sells, floor)
  <2>1. f[n - 1] \in V
    BY <1>4, <1>5
  <2>2. step[n][f[n - 1]] = ConsiderBuy(f[n - 1], buys[n], sells, floor)
    BY <2>1
  <2> HIDE DEF step, V, N
  <2> QED
    BY <1>4, <2>2
<1>7. f = [n \in 0 .. N |-> IF n = 0 THEN << >>
                            ELSE ConsiderBuy(f[n - 1], buys[n], sells, floor)]
  <2> HIDE DEF step, V, N
  <2> QED
    BY <1>4, <1>5, <1>6
<1> QED
  BY <1>7 DEF Runs

\* In a run g, the k-th buy accepts, and the plan it then makes.
Takes(g, k, buys, sells, floor) == Accepts(g[k - 1], buys[k], sells, floor)

Makes(g, k, buys, sells) == PlanFor(g[k - 1], buys[k], sells)

RunGives(O, g, n, buys, sells, floor) ==
  /\ g[n] \in Seq(PlanOf(O))
  /\ \A i \in 1 .. Len(g[n]) : \E k \in 1 .. n :
       Takes(g, k, buys, sells, floor) /\ g[n][i] = Makes(g, k, buys, sells)
  /\ \A k \in 1 .. n : Takes(g, k, buys, sells, floor) =>
       \E i \in 1 .. Len(g[n]) : g[n][i] = Makes(g, k, buys, sells)
  /\ \A i, j \in 1 .. Len(g[n]) :
       g[n][i].buy = g[n][j].buy \/ g[n][i].sell = g[n][j].sell => i = j

\* The elements of a list with one more at its end.
LEMMA Appended ==
  ASSUME NEW S, NEW list \in Seq(S), NEW e
  PROVE  LET L == Len(list)
         IN  /\ L \in Nat /\ Len(Append(list, e)) = L + 1 /\ Append(list, e)[L + 1] = e
             /\ DOMAIN list = 1 .. L
             /\ \A i \in 1 .. L : Append(list, e)[i] = list[i]
             /\ \A i \in 1 .. (L + 1) : i = L + 1 \/ i \in 1 .. L
             /\ L + 1 \in 1 .. (L + 1) /\ \A i \in 1 .. L : i \in 1 .. (L + 1)
  OBVIOUS

\* Every plan of a run was accepted by a buy of its own, from what the buys
\* before it had left; and every buy that accepts has its plan.
LEMMA RunFacts ==
  ASSUME NEW O, Quoted(O),
         NEW buys \in Seq(O), NEW sells \in Seq(O), NEW floor,
         NEW g, Runs(g, buys, sells, floor),
         \A m, n \in 1 .. Len(buys) : buys[m] = buys[n] => m = n
  PROVE  \A n \in 0 .. Len(buys) : RunGives(O, g, n, buys, sells, floor)
<1> DEFINE N == Len(buys)
           A(k) == Accepts(g[k - 1], buys[k], sells, floor)
           P(k) == PlanFor(g[k - 1], buys[k], sells)
           From(n) == \A i \in 1 .. Len(g[n]) : \E k \in 1 .. n : A(k) /\ g[n][i] = P(k)
           To(n) == \A k \in 1 .. n : A(k) => \E i \in 1 .. Len(g[n]) : g[n][i] = P(k)
           Once(n) == \A i, j \in 1 .. Len(g[n]) :
                g[n][i].buy = g[n][j].buy \/ g[n][i].sell = g[n][j].sell => i = j
           T == {n \in Nat : n <= N => g[n] \in Seq(PlanOf(O)) /\ From(n) /\ To(n) /\ Once(n)}
<1> HIDE DEF Takes, Makes, RunGives
<1>0. /\ N \in Nat /\ g[0] = << >>
      /\ \A n \in 1 .. N : g[n] = IF A(n) THEN Append(g[n - 1], P(n)) ELSE g[n - 1]
  <2>1. \A n \in 0 .. N : g[n] = IF n = 0 THEN << >>
                                 ELSE ConsiderBuy(g[n - 1], buys[n], sells, floor)
    BY DEF Runs
  <2>2. N \in Nat /\ 0 \in 0 .. N /\ \A n \in 1 .. N : n \in 0 .. N /\ n # 0
    OBVIOUS
  <2>3. \A n \in 1 .. N : g[n] = ConsiderBuy(g[n - 1], buys[n], sells, floor)
    BY <2>1, <2>2
  <2>4. \A n \in 1 .. N : ConsiderBuy(g[n - 1], buys[n], sells, floor)
          = IF A(n) THEN Append(g[n - 1], P(n)) ELSE g[n - 1]
    BY Considered
  <2> HIDE DEF A, P
  <2> QED
    BY <2>1, <2>2, <2>3, <2>4
<1>1. 0 \in T
  <2>1. g[0] \in Seq(PlanOf(O)) /\ Len(g[0]) = 0 /\ 1 .. 0 = {}
    BY <1>0
  <2> HIDE DEF A, P
  <2> QED
    BY <2>1
<1>2. ASSUME NEW n \in Nat, n \in T PROVE n + 1 \in T
  <2>1. SUFFICES ASSUME n + 1 <= N
                 PROVE  g[n + 1] \in Seq(PlanOf(O)) /\ From(n + 1) /\ To(n + 1) /\ Once(n + 1)
    <3> HIDE DEF From, To, Once
    <3> QED
      OBVIOUS
  <2>2. g[n] \in Seq(PlanOf(O)) /\ From(n) /\ To(n) /\ Once(n)
    BY <1>0, <1>2, <2>1
  <2>3. /\ n + 1 \in 1 .. N /\ (n + 1) - 1 = n
        /\ \A k \in 1 .. (n + 1) : k = n + 1 \/ k \in 1 .. n
        /\ \A k \in 1 .. n : k \in 1 .. (n + 1) /\ k \in 1 .. N /\ k # n + 1
    BY <1>0, <2>1
  <2>4. g[n + 1] = IF A(n + 1) THEN Append(g[n], P(n + 1)) ELSE g[n]
    BY <1>0, <2>3
  <2>5. CASE ~A(n + 1)
    <3>1. g[n + 1] = g[n]
      BY <2>4, <2>5
    <3> HIDE DEF A, P
    <3> QED
      BY <2>2, <2>3, <2>5, <3>1
  <2>6. CASE A(n + 1)
    <3> DEFINE p == P(n + 1)
               L == Len(g[n])
    <3>1. buys[n + 1] \in O
      BY <2>3
    <3>2. Free(g[n], buys[n + 1], sells) # {}
      BY <2>3, <2>6 DEF Accepts
    <3>3. /\ p.buy = buys[n + 1] /\ p.sell \in O
          /\ p.sell = sells[Min(Free(g[n], buys[n + 1], sells))]
      BY <2>3, <3>2, OfferedIsFirst DEF PlanFor, Offered
    <3>4. p.sell \notin {g[n][i].sell : i \in DOMAIN g[n]}
      <4>1. Min(Free(g[n], buys[n + 1], sells)) \in Free(g[n], buys[n + 1], sells)
        BY <3>2, OfferedIsFirst
      <4>2. \A i \in Free(g[n], buys[n + 1], sells) :
              sells[i] \notin {g[n][x].sell : x \in DOMAIN g[n]}
        BY DEF Free, Counterparties
      <4> HIDE DEF p
      <4> QED
        BY <3>3, <4>1, <4>2
    <3>5. \A i \in 1 .. L : g[n][i].buy # p.buy
      <4>1. \A k \in 1 .. n : P(k).buy = buys[k] /\ buys[k] # buys[n + 1]
        BY <2>3 DEF PlanFor
      <4> HIDE DEF A, P
      <4> QED
        BY <2>2, <3>3, <4>1
    <3>6. ConsiderBuy(g[n], buys[n + 1], sells, floor) \in Seq(PlanOf(O))
      BY <2>2, <3>1, ConsiderType
    <3>7. g[n + 1] = ConsiderBuy(g[n], buys[n + 1], sells, floor)
      BY <2>3, <2>4, Considered
    <3>8. /\ L \in Nat /\ Len(g[n + 1]) = L + 1 /\ g[n + 1][L + 1] = p
          /\ DOMAIN g[n] = 1 .. L
          /\ \A i \in 1 .. L : g[n + 1][i] = g[n][i]
          /\ \A i \in 1 .. (L + 1) : i = L + 1 \/ i \in 1 .. L
          /\ L + 1 \in 1 .. (L + 1) /\ \A i \in 1 .. L : i \in 1 .. (L + 1)
      <4>1. g[n] \in Seq(PlanOf(O))
        BY <2>2
      <4>2. g[n + 1] = Append(g[n], p)
        BY <2>4, <2>6
      <4> HIDE DEF A, P, p
      <4> QED
        BY <4>1, <4>2, Appended
    <3> HIDE DEF A, P
    <3>9. From(n + 1)
      <4> SUFFICES ASSUME NEW i \in 1 .. Len(g[n + 1])
                   PROVE  \E k \in 1 .. (n + 1) : A(k) /\ g[n + 1][i] = P(k)
        OBVIOUS
      <4>1. CASE i = L + 1
        <5>1. n + 1 \in 1 .. (n + 1)
          OBVIOUS
        <5> QED
          BY <2>6, <3>8, <4>1, <5>1
      <4>2. CASE i # L + 1
        <5>1. i \in 1 .. L /\ g[n + 1][i] = g[n][i]
          BY <3>8, <4>2
        <5>2. PICK k \in 1 .. n : A(k) /\ g[n][i] = P(k)
          BY <2>2, <5>1
        <5> QED
          BY <2>3, <5>1, <5>2
      <4> QED
        BY <4>1, <4>2
    <3>10. To(n + 1)
      BY <2>2, <2>3, <3>8
    <3>11. Once(n + 1)
      <4> SUFFICES ASSUME NEW i \in 1 .. Len(g[n + 1]), NEW j \in 1 .. Len(g[n + 1]),
                          \/ g[n + 1][i].buy = g[n + 1][j].buy
                          \/ g[n + 1][i].sell = g[n + 1][j].sell
                   PROVE  i = j
        OBVIOUS
      <4>1. \A x \in 1 .. L : /\ g[n + 1][x].buy # g[n + 1][L + 1].buy
                              /\ g[n + 1][x].sell # g[n + 1][L + 1].sell
        <5> SUFFICES ASSUME NEW x \in 1 .. L
                     PROVE  g[n][x].buy # P(n + 1).buy /\ g[n][x].sell # P(n + 1).sell
          BY <3>8
        <5>1. x \in DOMAIN g[n]
          BY <3>8
        <5> QED
          BY <3>4, <3>5, <5>1
      <4>2. i \in 1 .. L /\ j \in 1 .. L => i = j
        BY <2>2, <3>8
      <4> QED
        BY <3>8, <4>1, <4>2
    <3> QED
      BY <3>6, <3>7, <3>9, <3>10, <3>11
  <2> QED
    BY <2>5, <2>6
<1>3. Nat \subseteq T
  <2> HIDE DEF T
  <2> QED
    BY <1>1, <1>2, SetInduction
<1>4. ASSUME NEW n \in 0 .. N
      PROVE  g[n] \in Seq(PlanOf(O)) /\ From(n) /\ To(n) /\ Once(n)
  <2>1. n \in Nat /\ n <= N /\ n \in T
    BY <1>0, <1>3
  <2> HIDE DEF From, To, Once
  <2> QED
    BY <2>1
<1>5. ASSUME NEW n \in 0 .. N PROVE RunGives(O, g, n, buys, sells, floor)
  <2>1. g[n] \in Seq(PlanOf(O)) /\ From(n) /\ To(n) /\ Once(n)
    BY <1>4
  <2>2. \A k : A(k) = Takes(g, k, buys, sells, floor) /\ P(k) = Makes(g, k, buys, sells)
    BY DEF Takes, Makes
  <2> HIDE DEF A, P
  <2> QED
    BY <2>1, <2>2 DEF RunGives
<1> QED
  BY <1>5

-----------------------------------------------------------------------------
\* The book the matcher reads: orders have numbers of their own, and those
\* placed through the pool are in its market.

Numbered(book) == \A a, b \in book : a.id = b.id => a = b

BookInv ==
  /\ \A o \in orders : o.id < nextId /\ (o.placed => o.market = Market)
  /\ Numbered(orders)

\* What a step may add to the book.
LEMMA BookGrows ==
  ASSUME IInv, BookInv, nextId' \in Nat, nextId <= nextId',
         NEW new, orders' \subseteq orders \cup new,
         \A r \in new : /\ r.id \in Nat /\ nextId <= r.id /\ r.id < nextId'
                        /\ r.placed => r.market = Market,
         Numbered(new)
  PROVE  BookInv'
<1>1. \A o \in orders : o.id \in Nat /\ o.id < nextId
  BY DEF BookInv, IInv, TypeOK, Order, Ids
<1>2. nextId \in Nat
  BY DEF IInv, TypeOK, RegistryTypeOK
<1>3. \A o \in orders' : o.id < nextId' /\ (o.placed => o.market = Market)
  BY <1>1, <1>2 DEF BookInv
<1>4. \A a \in orders : \A b \in new : a.id # b.id
  BY <1>1, <1>2
<1>5. Numbered(orders')
  BY <1>4 DEF BookInv, Numbered
<1> QED
  BY <1>3, <1>5 DEF BookInv, Numbered

\* The remainder of a fill is one order, numbered as the fill says.
LEMMA RemainderNumber ==
  ASSUME IInv, BookInv, NEW o \in orders, NEW f \in Nat, NEW price \in Nat, NEW d,
         CanFill(o, f, price, d), NEW id \in Ids, NEW id2 \in Ids,
         NEW r \in Remainder(o, f, FillChange(o, f, price, id), id2)
  PROVE  r.id = id2 /\ (r.placed => r.market = Market)
<1>1. o \in Order
  BY DEF IInv, TypeOK
<1>2. r.id = id2 /\ r.placed = o.placed /\ r.market = o.market
  BY <1>1, RemainderFacts
<1> QED
  BY <1>2 DEF BookInv

LEMMA RemainderAlone ==
  ASSUME NEW o, NEW f, NEW change, NEW id
  PROVE  \A q, r \in Remainder(o, f, change, id) : q = r
  BY DEF Remainder

LEMMA BookInductive == IInv /\ BookInv /\ [Next]_vars => BookInv'
<1> SUFFICES ASSUME IInv, BookInv, [Next]_vars PROVE BookInv'
  OBVIOUS
<1>0. /\ TypeOK /\ RegistryTypeOK /\ nextId \in Nat /\ nextId' \in Nat
      /\ nextId <= nextId' /\ MaxId \in Nat
  BY NextPreserves, NewIds, RegistryAssumption DEF IInv, TypeOK, RegistryTypeOK
<1>1. ASSUME orders' \subseteq orders PROVE BookInv'
  <2>1. Numbered({}) /\ orders' \subseteq orders \cup {}
    BY <1>1 DEF Numbered
  <2> QED
    BY <1>0, <2>1, BookGrows
<1>2. ASSUME NEW p, NEW m, NEW t, NEW declared, NEW placed,
             Rest(p, m, t, declared, placed), placed => m = Market
      PROVE  BookInv'
  <2> DEFINE new == {NewOrder(p, m, t, declared, placed)}
  <2>1. orders' \subseteq orders \cup new /\ nextId' = nextId + 1
    BY <1>2 DEF Rest
  <2>2. \A r \in new : r.id = nextId /\ (r.placed => r.market = Market)
    BY <1>2 DEF NewOrder
  <2>3. Numbered(new)
    BY DEF Numbered
  <2> HIDE DEF new
  <2> QED
    BY <1>0, <2>1, <2>2, <2>3, BookGrows
<1>3. ASSUME NEW o \in orders, NEW price \in LonePrices, NEW cp \in Parties,
             NEW qty \in o.minFill .. o.quantity, Order_Fill(o, qty, price, cp, now + 1)
      PROVE  BookInv'
  <2> DEFINE new == Remainder(o, qty, FillChange(o, qty, price, nextId), nextId + 1)
  <2>1. o.minFill \in Nat /\ o.quantity \in Nat
    BY <1>0 DEF TypeOK, Order, PosNat
  <2>2. qty \in Nat /\ price \in Nat
    BY <2>1, DarkPoolAssumption DEF PosNat
  <2>3. /\ CanFill(o, qty, price, now + 1) /\ nextId + 1 <= MaxId /\ nextId' = nextId + 2
        /\ orders' \subseteq orders \cup new
    BY <1>3 DEF Order_Fill
  <2>4. nextId \in Ids /\ nextId + 1 \in Ids
    BY <1>0, <2>3 DEF Ids, RegistryTypeOK
  <2>5. \A r \in new : r.id = nextId + 1 /\ (r.placed => r.market = Market)
    BY <2>2, <2>3, <2>4, RemainderNumber
  <2>6. Numbered(new)
    BY RemainderAlone DEF Numbered
  <2> HIDE DEF new
  <2> QED
    BY <1>0, <2>3, <2>5, <2>6, BookGrows
<1>4. ASSUME NEW b \in orders, NEW s \in orders, DarkPool_Match(b, s)
      PROVE  BookInv'
  <2> DEFINE qty == MatchQty(b, s)
             price == MatchPrice(b, s)
             bRem == Remainder(b, qty, FillChange(b, qty, price, nextId), nextId)
             sRem == Remainder(s, qty, FillChange(s, qty, price, nextId + 1), nextId + 1)
  <2>1. CanPair(b, s) /\ CanFill(b, qty, price, now + 1) /\ CanFill(s, qty, price, now + 1)
    BY <1>4 DEF DarkPool_Match, CanMatch
  <2>2. b \in Order /\ s \in Order /\ qty \in Nat /\ price \in Nat
    BY <1>4, <2>1, PairFacts DEF PosNat
  <2>3. nextId \in Ids /\ nextId + 1 \in Ids /\ nextId' = nextId + 4
    BY <1>0, <1>4 DEF DarkPool_Match, RegistryTypeOK, Ids
  <2>4. orders' \subseteq orders \cup (bRem \cup sRem)
    BY <1>4 DEF DarkPool_Match
  <2>5. /\ \A r \in bRem : r.id = nextId /\ (r.placed => r.market = Market)
        /\ \A r \in sRem : r.id = nextId + 1 /\ (r.placed => r.market = Market)
    <3> HIDE DEF qty, price
    <3> QED
      BY <2>1, <2>2, <2>3, RemainderNumber
  <2>6. (\A q, r \in bRem : q = r) /\ (\A q, r \in sRem : q = r)
    BY RemainderAlone
  <2> DEFINE new == bRem \cup sRem
  <2> HIDE DEF bRem, sRem
  <2>7. Numbered(new)
    BY <1>0, <2>5, <2>6 DEF Numbered
  <2>8. \A r \in new : /\ r.id \in Nat /\ nextId <= r.id /\ r.id < nextId'
                       /\ r.placed => r.market = Market
    BY <1>0, <2>3, <2>5
  <2> HIDE DEF new
  <2> QED
    BY <1>0, <2>4, <2>7, <2>8, BookGrows DEF new
<1>5. pool # NoPool => pool.market = Market
  BY <1>0 DEF TypeOK
<1>6. CASE \E p \in Parties, t \in OrderTerms :
             \E declared \in InputLists(Own(p)) : DarkPool_PlaceOrder(p, t, declared)
  BY <1>2, <1>5, <1>6 DEF DarkPool_PlaceOrder
<1>7. CASE \E p \in Parties, m \in Markets, t \in DirectTerms :
             \E declared \in InputLists(holdings) : CreateOrder(p, m, t, declared)
  BY <1>2, <1>7 DEF CreateOrder
<1>8. CASE \/ HoldingStep /\ UNCHANGED poolVars
           \/ Tick /\ UNCHANGED poolVars
           \/ \E o \in orders : ArchiveOrder(o)
           \/ PoolStep
           \/ \E x, y \in allocs : FillAuthority_Settle(x, y)
           \/ UNCHANGED vars
  BY <1>1, <1>8 DEF poolVars, vars, ArchiveOrder, PoolStep, ArchivePool, CreatePool,
                    FillAuthority_Settle
<1> QED
  BY <1>3, <1>4, <1>6, <1>7, <1>8 DEF Next, TraderStep

\* The inductive invariant of the book, whoever fills, cancels or places orders.
LEMMA BookInvariance == Spec => []BookInv
<1>1. Init => BookInv
  BY DEF Init, BookInv, Numbered
<1> QED
  BY <1>1, BookInductive, Invariance, PTL DEF Spec

\* Numbers are bounded, so a book is finite.
LEMMA BookFinite ==
  ASSUME NEW O, Quoted(O),
         NEW book \in SUBSET O, Numbered(book)
  PROVE  IsFiniteSet(book)
<1> DEFINE num == [o \in book |-> o.id]
<1>1. IsFiniteSet(Ids)
  BY RegistryAssumption, FS_Interval DEF Ids
<1>2. num \in [book -> Ids]
  BY DEF Quoted
<1>3. num \in Injection(book, Ids)
  BY <1>2 DEF Injection, IsInjective, Numbered
<1> QED
  BY <1>1, <1>3, FS_Injection

-----------------------------------------------------------------------------
\* FindMatches

InPool(p, book, t) == {o \in book : o.market.name = p.market.name /\ IsLive(o, t)}
SideIn(p, book, t, side) == {o \in InPool(p, book, t) : o.side = side}

BuyOrder(S) == {q \in S \X S : BuyBefore(q[1], q[2])}
SellOrder(S) == {q \in S \X S : SellBefore(q[1], q[2])}

\* Price-time priority orders any book totally.
LEMMA PriorityOrders ==
  ASSUME NEW O, Quoted(O),
         NEW S \in SUBSET O, Numbered(S)
  PROVE  Orders(BuyOrder(S), S) /\ Orders(SellOrder(S), S)
<1>1. \A o \in S : o.limitPrice \in Nat /\ o.id \in Nat
  BY DEF Quoted, PosNat, Ids
<1>2. /\ \A x, y \in S : <<x, y>> \in BuyOrder(S) <=> BuyBefore(x, y)
      /\ \A x, y \in S : <<x, y>> \in SellOrder(S) <=> SellBefore(x, y)
  BY DEF BuyOrder, SellOrder
<1>3. /\ \A x \in S : ~BuyBefore(x, x)
      /\ \A x, y \in S : x # y => BuyBefore(x, y) \/ BuyBefore(y, x)
      /\ \A x, y, z \in S : BuyBefore(x, y) /\ BuyBefore(y, z) => BuyBefore(x, z)
  BY <1>1 DEF BuyBefore, Numbered
<1>4. /\ \A x \in S : ~SellBefore(x, x)
      /\ \A x, y \in S : x # y => SellBefore(x, y) \/ SellBefore(y, x)
      /\ \A x, y, z \in S : SellBefore(x, y) /\ SellBefore(y, z) => SellBefore(x, z)
  BY <1>1 DEF SellBefore, Numbered
<1> QED
  BY <1>2, <1>3, <1>4 DEF Orders

\* So both sides of the book are sorted into lists of all their orders.
LEMMA SidesSorted ==
  ASSUME NEW O, Quoted(O),
         NEW S \in SUBSET O, Numbered(S)
  PROVE  /\ Lists(Sorted(S, BuyBefore), S, BuyOrder(S))
         /\ Lists(Sorted(S, SellBefore), S, SellOrder(S))
<1>1. IsFiniteSet(S)
  BY BookFinite
<1>2. /\ \A x \in S : {y \in S : BuyBefore(y, x)} = Below(BuyOrder(S), S, x)
      /\ \A x \in S : {y \in S : SellBefore(y, x)} = Below(SellOrder(S), S, x)
  BY DEF BuyOrder, SellOrder, Below
<1>3. Sorted(S, BuyBefore) = [n \in 1 .. Cardinality(S) |->
        CHOOSE x \in S : Cardinality(Below(BuyOrder(S), S, x)) = n - 1]
  <2> DEFINE F(n) == CHOOSE x \in S : Cardinality({y \in S : BuyBefore(y, x)}) = n - 1
             G(n) == CHOOSE x \in S : Cardinality(Below(BuyOrder(S), S, x)) = n - 1
  <2>1. \A n : F(n) = G(n)
    BY <1>2
  <2>2. Sorted(S, BuyBefore) = [n \in 1 .. Cardinality(S) |-> F(n)]
    BY DEF Sorted
  <2> HIDE DEF F, G
  <2>3. [n \in 1 .. Cardinality(S) |-> F(n)] = [n \in 1 .. Cardinality(S) |-> G(n)]
    BY <2>1
  <2> QED
    BY <2>2, <2>3 DEF G
<1>4. Sorted(S, SellBefore) = [n \in 1 .. Cardinality(S) |->
        CHOOSE x \in S : Cardinality(Below(SellOrder(S), S, x)) = n - 1]
  <2> DEFINE F(n) == CHOOSE x \in S : Cardinality({y \in S : SellBefore(y, x)}) = n - 1
             G(n) == CHOOSE x \in S : Cardinality(Below(SellOrder(S), S, x)) = n - 1
  <2>1. \A n : F(n) = G(n)
    BY <1>2
  <2>2. Sorted(S, SellBefore) = [n \in 1 .. Cardinality(S) |-> F(n)]
    BY DEF Sorted
  <2> HIDE DEF F, G
  <2>3. [n \in 1 .. Cardinality(S) |-> F(n)] = [n \in 1 .. Cardinality(S) |-> G(n)]
    BY <2>1
  <2> QED
    BY <2>2, <2>3 DEF G
<1> QED
  BY <1>1, <1>3, <1>4, PriorityOrders, RanksList

Buys(p, book, t) == Sorted(SideIn(p, book, t, "Buy"), BuyBefore)
Sells(p, book, t) == Sorted(SideIn(p, book, t, "Sell"), SellBefore)

\* The two sides are lists, and a pass over the buys gives the plans.
LEMMA FindsByRuns ==
  ASSUME NEW O, Quoted(O),
         NEW p, NEW book \in SUBSET O, Numbered(book), NEW t
  PROVE  /\ Buys(p, book, t) \in Seq(O) /\ Sells(p, book, t) \in Seq(O)
         /\ Lists(Buys(p, book, t), SideIn(p, book, t, "Buy"),
                  BuyOrder(SideIn(p, book, t, "Buy")))
         /\ Lists(Sells(p, book, t), SideIn(p, book, t, "Sell"),
                  SellOrder(SideIn(p, book, t, "Sell")))
         /\ \A m, n \in 1 .. Len(Buys(p, book, t)) :
              Buys(p, book, t)[m] = Buys(p, book, t)[n] => m = n
         /\ \E g : /\ Runs(g, Buys(p, book, t), Sells(p, book, t), p.minFillFloor)
                   /\ FindMatches(p, book, t) = g[Len(Buys(p, book, t))]
<1> DEFINE B == SideIn(p, book, t, "Buy")
           S == SideIn(p, book, t, "Sell")
           buys == Buys(p, book, t)
           sells == Sells(p, book, t)
           floor == p.minFillFloor
<1>1. /\ B \in SUBSET O /\ Numbered(B) /\ S \in SUBSET O /\ Numbered(S)
  BY DEF SideIn, InPool, Numbered
<1>2. Lists(buys, B, BuyOrder(B)) /\ Lists(sells, S, SellOrder(S))
  BY <1>1, SidesSorted DEF Buys, Sells
<1>3. /\ IsFiniteSet(B) /\ IsFiniteSet(S)
      /\ Orders(BuyOrder(B), B) /\ Orders(SellOrder(S), S)
  BY <1>1, BookFinite, PriorityOrders
<1>4. /\ buys \in Seq(B) /\ Len(buys) = Cardinality(B)
      /\ \A m, n \in 1 .. Cardinality(B) : buys[m] = buys[n] => m = n
  <2> HIDE DEF B, buys
  <2> QED
    BY <1>2, <1>3, ListsOnce
<1>5. sells \in Seq(S)
  <2> HIDE DEF S, sells
  <2> QED
    BY <1>2, <1>3, ListsOnce
<1>6. buys \in Seq(O) /\ sells \in Seq(O)
  <2> HIDE DEF B, S, buys, sells
  <2> QED
    BY <1>1, <1>4, <1>5
<1>7. \E g : Runs(g, buys, sells, floor)
  <2> HIDE DEF buys, sells, floor
  <2> QED
    BY <1>6, RunsExist
<1> DEFINE G == CHOOSE g : Runs(g, buys, sells, floor)
<1>8. Runs(G, buys, sells, floor)
  BY <1>7
<1>9. FindMatches(p, book, t) = G[Len(buys)]
  BY DEF FindMatches, Runs, Buys, Sells, SideIn, InPool
<1> QED
  BY <1>2, <1>4, <1>6, <1>8, <1>9

\* What a plan names: a live buy and a live sell of the pool's market, of two
\* traders, crossing, whose whole fill both accept; and no order twice.
PlanFits(plan, p, book, t) ==
  LET b == plan.buy
      s == plan.sell
  IN  /\ b \in SideIn(p, book, t, "Buy") /\ s \in SideIn(p, book, t, "Sell")
      /\ b.trader # s.trader /\ Crosses(b.limitPrice, s.limitPrice)
      /\ plan.fillQty = MatchQty(b, s)
      /\ Eligible(plan.fillQty, b, s, p.minFillFloor)

LEMMA AcceptedFits ==
  ASSUME NEW O, Quoted(O),
         NEW p, NEW book \in SUBSET O, Numbered(book), NEW t, NEW plans,
         NEW b \in SideIn(p, book, t, "Buy"),
         NEW sells \in Seq(O), Lists(sells, SideIn(p, book, t, "Sell"),
                                         SellOrder(SideIn(p, book, t, "Sell"))),
         Accepts(plans, b, sells, p.minFillFloor)
  PROVE  PlanFits(PlanFor(plans, b, sells), p, book, t)
<1> DEFINE S == SideIn(p, book, t, "Sell")
           F == Free(plans, b, sells)
           s == Offered(plans, b, sells)
<1>1. F # {} /\ Eligible(FillQuantity(b.quantity, s.quantity), b, s, p.minFillFloor)
  BY DEF Accepts
<1>2. Min(F) \in F
  BY <1>1, OfferedIsFirst
<1>3. \A i \in F : /\ i \in DOMAIN sells
                   /\ sells[i].trader # b.trader
                   /\ Crosses(b.limitPrice, sells[i].limitPrice)
  BY DEF Free, Counterparties
<1>4. \A i \in DOMAIN sells : sells[i] \in S
  BY DEF Lists
<1>5. s = sells[Min(F)]
  BY DEF Offered
<1>6. s \in S /\ s.trader # b.trader /\ Crosses(b.limitPrice, s.limitPrice)
  <2> HIDE DEF s, F, S
  <2> QED
    BY <1>2, <1>3, <1>4, <1>5
<1>7. /\ PlanFor(plans, b, sells).buy = b /\ PlanFor(plans, b, sells).sell = s
      /\ PlanFor(plans, b, sells).fillQty = MatchQty(b, s)
  BY DEF PlanFor, MatchQty
<1>8. Eligible(MatchQty(b, s), b, s, p.minFillFloor)
  BY <1>1 DEF MatchQty
<1> HIDE DEF s, F, S
<1> QED
  BY <1>6, <1>7, <1>8 DEF PlanFits, S

LEMMA PlansFacts ==
  ASSUME NEW O, Quoted(O),
         NEW p, NEW book \in SUBSET O, Numbered(book), NEW t
  PROVE  LET plans == FindMatches(p, book, t)
         IN  /\ plans \in Seq(PlanOf(O))
             /\ \A i \in DOMAIN plans : PlanFits(plans[i], p, book, t)
             /\ \A i, j \in DOMAIN plans :
                  plans[i].buy = plans[j].buy \/ plans[i].sell = plans[j].sell => i = j
<1> DEFINE buys == Buys(p, book, t)
           sells == Sells(p, book, t)
           plans == FindMatches(p, book, t)
<1>1. PICK g : Runs(g, buys, sells, p.minFillFloor) /\ plans = g[Len(buys)]
  BY FindsByRuns
<1>2. /\ buys \in Seq(O) /\ sells \in Seq(O)
      /\ Lists(buys, SideIn(p, book, t, "Buy"), BuyOrder(SideIn(p, book, t, "Buy")))
      /\ Lists(sells, SideIn(p, book, t, "Sell"), SellOrder(SideIn(p, book, t, "Sell")))
      /\ \A m, n \in 1 .. Len(buys) : buys[m] = buys[n] => m = n
  BY FindsByRuns
<1>3. Len(buys) \in 0 .. Len(buys)
  BY <1>2
<1> HIDE DEF buys, sells, plans
<1>4. /\ plans \in Seq(PlanOf(O))
      /\ \A i \in 1 .. Len(plans) : \E k \in 1 .. Len(buys) :
           /\ Takes(g, k, buys, sells, p.minFillFloor)
           /\ plans[i] = Makes(g, k, buys, sells)
      /\ \A i, j \in 1 .. Len(plans) :
           plans[i].buy = plans[j].buy \/ plans[i].sell = plans[j].sell => i = j
  <2>1. RunGives(O, g, Len(buys), buys, sells, p.minFillFloor)
    BY <1>1, <1>2, <1>3, RunFacts
  <2> QED
    BY <1>1, <2>1 DEF RunGives
<1>5. \A k \in 1 .. Len(buys) : buys[k] \in SideIn(p, book, t, "Buy")
  <2>1. DOMAIN buys = 1 .. Len(buys)
    BY <1>2
  <2> QED
    BY <1>2, <2>1 DEF Lists
<1>6. ASSUME NEW i \in DOMAIN plans PROVE PlanFits(plans[i], p, book, t)
  <2>0. DOMAIN plans = 1 .. Len(plans)
    BY <1>4
  <2>1. PICK k \in 1 .. Len(buys) :
           /\ Accepts(g[k - 1], buys[k], sells, p.minFillFloor)
           /\ plans[i] = PlanFor(g[k - 1], buys[k], sells)
    BY <1>4, <2>0 DEF Takes, Makes
  <2> QED
    BY <1>2, <1>5, <2>1, AcceptedFits
<1>7. DOMAIN plans = 1 .. Len(plans)
  BY <1>4
<1> QED
  BY <1>4, <1>6, <1>7 DEF plans

\* matcher.ts decides from the book alone what the pool will check: for two
\* orders placed through the pool a plan passes every check of the pair, for the
\* quantity the contract fills, and no order is in two plans of one pass, in
\* every state the traders and the venue can reach.
THEOREM MatcherPlansPairs == Spec => []PlansArePairs
<1>1. ASSUME IInv, BookInv PROVE PlansArePairs
  <2>1. orders \in SUBSET Order /\ Numbered(orders) /\ now \in Nat
    BY <1>1 DEF IInv, TypeOK, RegistryTypeOK, BookInv
  <2>2. CASE pool = NoPool
    <3>1. Plans = << >>
      BY <2>2 DEF Plans
    <3> QED
      BY <3>1 DEF PlansArePairs
  <2>3. CASE pool # NoPool
    <3>1. pool.market = Market
      BY <1>1, <2>3 DEF IInv, TypeOK
    <3>2. Plans = FindMatches(pool, orders, now)
      BY <2>3 DEF Plans
    <3>3. /\ \A i \in DOMAIN Plans : PlanFits(Plans[i], pool, orders, now)
          /\ \A i, j \in DOMAIN Plans :
               Plans[i].buy = Plans[j].buy \/ Plans[i].sell = Plans[j].sell => i = j
      BY <2>1, <3>2, PlansFacts, OrdersAreQuoted
    <3>4. ASSUME NEW plan, PlanFits(plan, pool, orders, now),
                 plan.buy.placed, plan.sell.placed
          PROVE  /\ CanPair(plan.buy, plan.sell)
                 /\ ~Expired(plan.buy) /\ ~Expired(plan.sell)
                 /\ plan.fillQty = MatchQty(plan.buy, plan.sell)
      <4> DEFINE b == plan.buy
                 s == plan.sell
      <4>1. /\ b \in orders /\ b.side = "Buy" /\ IsLive(b, now)
            /\ s \in orders /\ s.side = "Sell" /\ IsLive(s, now)
        BY <3>4 DEF PlanFits, SideIn, InPool
      <4>2. b.market = Market /\ s.market = Market
        BY <1>1, <3>4, <4>1 DEF BookInv
      <4>3. ~Expired(b) /\ ~Expired(s)
        BY <2>1, <4>1, LivenessAgrees DEF Order
      <4>4. CanPair(b, s)
        BY <2>3, <3>1, <3>4, <4>1, <4>2 DEF PlanFits, Eligible, CanPair
      <4> QED
        BY <3>4, <4>3, <4>4 DEF PlanFits
    <3> QED
      BY <3>3, <3>4 DEF PlansArePairs
  <2> QED
    BY <2>2, <2>3
<1> QED
  BY <1>1, Invariance, BookInvariance, PTL

-----------------------------------------------------------------------------
\* Price-time priority

Paired(plans) == {<<plans[i].buy, plans[i].sell>> : i \in DOMAIN plans}

SoldBefore(pairs, b) == {q[2] : q \in {r \in pairs : BuyBefore(r[1], b)}}

Sold(plans) == {plans[i].sell : i \in DOMAIN plans}

HeadOf(open, s) == s \in open /\ \A r \in open \ {s} : SellBefore(s, r)

\* What went to the buys before the k-th is what the pass had taken by then.
LEMMA SoldIsTaken ==
  ASSUME NEW O, Quoted(O),
         NEW B \in SUBSET O, Numbered(B),
         NEW buys \in Seq(O), Lists(buys, B, BuyOrder(B)),
         NEW sells \in Seq(O), NEW floor, NEW g, Runs(g, buys, sells, floor),
         NEW k \in 1 .. Len(buys)
  PROVE  SoldBefore(Paired(g[Len(buys)]), buys[k]) = Sold(g[k - 1])
<1> DEFINE N == Len(buys)
           A(j) == Takes(g, j, buys, sells, floor)
           P(j) == Makes(g, j, buys, sells)
<1>0. IsFiniteSet(B) /\ Orders(BuyOrder(B), B)
  BY BookFinite, PriorityOrders
<1>1. /\ N = Cardinality(B) /\ DOMAIN buys = 1 .. N
      /\ \A m, n \in 1 .. N : buys[m] = buys[n] => m = n
      /\ \A m, n \in 1 .. N : <<buys[m], buys[n]>> \in BuyOrder(B) <=> m < n
  BY <1>0, ListsOnce DEF Lists
<1>2. \A m, n \in 1 .. N : BuyBefore(buys[m], buys[n]) <=> m < n
  <2>1. \A m \in 1 .. N : buys[m] \in B
    BY <1>1 DEF Lists
  <2> QED
    BY <1>1, <2>1 DEF BuyOrder
<1>3. N \in 0 .. N /\ k - 1 \in 0 .. N
  OBVIOUS
<1>4. \A n \in {N, k - 1} :
        /\ g[n] \in Seq(PlanOf(O)) /\ DOMAIN g[n] = 1 .. Len(g[n])
        /\ \A i \in DOMAIN g[n] : \E j \in 1 .. n : A(j) /\ g[n][i] = P(j)
        /\ \A j \in 1 .. n : A(j) => \E i \in DOMAIN g[n] : g[n][i] = P(j)
  <2> SUFFICES ASSUME NEW n \in {N, k - 1}
               PROVE  /\ g[n] \in Seq(PlanOf(O)) /\ DOMAIN g[n] = 1 .. Len(g[n])
                      /\ \A i \in DOMAIN g[n] : \E j \in 1 .. n : A(j) /\ g[n][i] = P(j)
                      /\ \A j \in 1 .. n : A(j) => \E i \in DOMAIN g[n] : g[n][i] = P(j)
    OBVIOUS
  <2>1. n \in 0 .. N
    BY <1>3
  <2>4. RunGives(O, g, n, buys, sells, floor)
    BY <1>1, <2>1, RunFacts
  <2>2. /\ g[n] \in Seq(PlanOf(O))
        /\ \A i \in 1 .. Len(g[n]) : \E j \in 1 .. n : A(j) /\ g[n][i] = P(j)
        /\ \A j \in 1 .. n : A(j) => \E i \in 1 .. Len(g[n]) : g[n][i] = P(j)
    BY <2>4 DEF RunGives
  <2>3. DOMAIN g[n] = 1 .. Len(g[n])
    BY <2>2
  <2> HIDE DEF A, P
  <2> QED
    BY <2>2, <2>3
<1>5. \A j \in 1 .. N : P(j).buy = buys[j]
  BY DEF PlanFor, Makes
<1> HIDE DEF A, P
<1>6. ASSUME NEW s \in SoldBefore(Paired(g[N]), buys[k])
      PROVE  s \in {g[k - 1][i].sell : i \in DOMAIN g[k - 1]}
  <2>1. PICK i \in DOMAIN g[N] : BuyBefore(g[N][i].buy, buys[k]) /\ s = g[N][i].sell
    BY <1>6 DEF SoldBefore, Paired
  <2>2. PICK j \in 1 .. N : A(j) /\ g[N][i] = P(j)
    BY <1>4, <2>1
  <2>3. j \in 1 .. (k - 1)
    BY <1>2, <1>5, <2>1, <2>2
  <2>4. PICK x \in DOMAIN g[k - 1] : g[k - 1][x] = P(j)
    BY <1>4, <2>2, <2>3
  <2> QED
    BY <2>1, <2>2, <2>4
<1>7. ASSUME NEW i \in DOMAIN g[k - 1]
      PROVE  g[k - 1][i].sell \in SoldBefore(Paired(g[N]), buys[k])
  <2>1. PICK j \in 1 .. (k - 1) : A(j) /\ g[k - 1][i] = P(j)
    BY <1>4
  <2>2. j \in 1 .. N /\ j < k
    OBVIOUS
  <2>3. PICK x \in DOMAIN g[N] : g[N][x] = P(j)
    BY <1>4, <2>1, <2>2
  <2>4. BuyBefore(g[N][x].buy, buys[k])
    BY <1>2, <1>5, <2>2, <2>3
  <2>5. <<g[N][x].buy, g[N][x].sell>> \in {r \in Paired(g[N]) : BuyBefore(r[1], buys[k])}
    BY <2>4 DEF Paired
  <2> QED
    BY <2>1, <2>3, <2>5 DEF SoldBefore
<1>8. SoldBefore(Paired(g[N]), buys[k]) = {g[k - 1][i].sell : i \in DOMAIN g[k - 1]}
  BY <1>6, <1>7
<1> QED
  BY <1>8 DEF Sold

\* The offered sell is the head of those still open.
LEMMA OfferedIsHead ==
  ASSUME NEW O, Quoted(O),
         NEW S \in SUBSET O, Numbered(S),
         NEW sells \in Seq(O), Lists(sells, S, SellOrder(S)),
         NEW plans, NEW b, NEW s
  PROVE  HeadOf({sells[i] : i \in Free(plans, b, sells)}, s)
           <=> Free(plans, b, sells) # {} /\ s = Offered(plans, b, sells)
<1> DEFINE F == Free(plans, b, sells)
           N == Cardinality(S)
<1>0. IsFiniteSet(S) /\ Orders(SellOrder(S), S)
  BY BookFinite, PriorityOrders
<1>1. /\ Len(sells) = N /\ DOMAIN sells = 1 .. N
      /\ \A m, n \in 1 .. N : sells[m] = sells[n] => m = n
      /\ \A m, n \in 1 .. N : <<sells[m], sells[n]>> \in SellOrder(S) <=> m < n
  BY <1>0, ListsOnce DEF Lists
<1>2. \A m, n \in 1 .. N : SellBefore(sells[m], sells[n]) <=> m < n
  <2>1. \A m \in 1 .. N : sells[m] \in S
    BY <1>1 DEF Lists
  <2> QED
    BY <1>1, <2>1 DEF SellOrder
<1>3. F \subseteq 1 .. N
  BY <1>1 DEF Free, Counterparties
<1> HIDE DEF F, N
<1>4. ASSUME HeadOf({sells[i] : i \in F}, s) PROVE F # {} /\ s = Offered(plans, b, sells)
  <2>1. PICK i \in F : s = sells[i]
    BY <1>4 DEF HeadOf
  <2>2. F # {}
    BY <2>1
  <2>3. Min(F) \in F /\ Min(F) <= i
    BY <2>1, <2>2, OfferedIsFirst DEF F
  <2>4. i \in 1 .. N /\ Min(F) \in 1 .. N
    BY <1>3, <2>3
  <2>5. sells[Min(F)] = s \/ SellBefore(s, sells[Min(F)])
    BY <1>4, <2>3 DEF HeadOf
  <2>6. i = Min(F)
    BY <1>1, <1>2, <2>1, <2>3, <2>4, <2>5
  <2> QED
    BY <2>1, <2>2, <2>6 DEF Offered, F
<1>5. ASSUME F # {}, s = Offered(plans, b, sells) PROVE HeadOf({sells[i] : i \in F}, s)
  <2>1. Min(F) \in F /\ \A i \in F : Min(F) <= i
    BY <1>5, OfferedIsFirst DEF F
  <2>2. s = sells[Min(F)]
    BY <1>5 DEF Offered, F
  <2>3. ASSUME NEW i \in F, sells[i] # s PROVE SellBefore(s, sells[i])
    <3>1. i \in 1 .. N /\ Min(F) \in 1 .. N /\ Min(F) <= i /\ Min(F) # i
      BY <1>3, <2>1, <2>2, <2>3
    <3>2. Min(F) < i
      BY <3>1
    <3> QED
      BY <1>2, <2>2, <3>1, <3>2
  <2> QED
    BY <2>1, <2>2, <2>3 DEF HeadOf
<1> QED
  BY <1>4, <1>5 DEF F

\* matcher.ts keeps price-time priority, for any book the traders can make: the
\* plans of a pass are exactly the pairs of a live buy and the sell at the head
\* of what the buys before it leave over, where both accept the whole fill.
THEOREM MatcherKeepsPriority == Spec => []PriceTimePriority
<1>1. ASSUME IInv, BookInv PROVE PriceTimePriority
  <2>0. CASE pool = NoPool
    BY <2>0 DEF PriceTimePriority
  <2>1. CASE pool # NoPool
    <3> DEFINE live == {o \in orders : o.market.name = Market.name /\ ~Expired(o)}
               B == SideIn(pool, orders, now, "Buy")
               S == SideIn(pool, orders, now, "Sell")
               buys == Buys(pool, orders, now)
               sells == Sells(pool, orders, now)
               floor == pool.minFillFloor
               pairs == Paired(Plans)
               Open(b) == {s \in live \ SoldBefore(pairs, b) :
                             /\ s.side = "Sell" /\ s.trader # b.trader
                             /\ Crosses(b.limitPrice, s.limitPrice)}
               Fits(b, s) == /\ MatchQty(b, s) >= b.minFill /\ MatchQty(b, s) >= s.minFill
                             /\ b.minFill >= floor /\ s.minFill >= floor
    <3>1. orders \in SUBSET Order /\ Numbered(orders) /\ now \in Nat
      BY <1>1 DEF IInv, TypeOK, RegistryTypeOK, BookInv
    <3>2. pool.market = Market
      BY <1>1, <2>1 DEF IInv, TypeOK
    <3>3. Plans = FindMatches(pool, orders, now)
      BY <2>1 DEF Plans
    <3>4. live = InPool(pool, orders, now)
      <4>1. \A o \in orders : IsLive(o, now) <=> ~Expired(o)
        BY <3>1, LivenessAgrees DEF Order
      <4> QED
        BY <3>2, <4>1 DEF InPool
    <3>5. /\ B = {o \in live : o.side = "Buy"} /\ S = {o \in live : o.side = "Sell"}
          /\ B \in SUBSET Order /\ Numbered(B) /\ S \in SUBSET Order /\ Numbered(S)
      BY <3>1, <3>4 DEF SideIn, InPool, Numbered
    <3>6. /\ buys \in Seq(Order) /\ sells \in Seq(Order)
          /\ Lists(buys, B, BuyOrder(B)) /\ Lists(sells, S, SellOrder(S))
          /\ \A m, n \in 1 .. Len(buys) : buys[m] = buys[n] => m = n
      BY <3>1, FindsByRuns, OrdersAreQuoted
    <3>7. PICK g : Runs(g, buys, sells, floor) /\ Plans = g[Len(buys)]
      BY <3>1, <3>3, FindsByRuns, OrdersAreQuoted
    <3> DEFINE A(k) == Takes(g, k, buys, sells, floor)
               O(k) == Offered(g[k - 1], buys[k], sells)
    <3>8. DOMAIN buys = 1 .. Len(buys) /\ DOMAIN sells = 1 .. Len(sells)
          /\ Len(buys) \in 0 .. Len(buys)
      BY <3>6
    <3>9. /\ \A k \in 1 .. Len(buys) : buys[k] \in B
          /\ \A b \in B : \E k \in 1 .. Len(buys) : buys[k] = b
          /\ \A i \in 1 .. Len(sells) : sells[i] \in S
          /\ \A s \in S : \E i \in 1 .. Len(sells) : sells[i] = s
      BY <3>6, <3>8 DEF Lists
    <3> HIDE DEF live, B, S, buys, sells, floor
    <3>10. pairs = {<<buys[k], O(k)>> : k \in {j \in 1 .. Len(buys) : A(j)}}
      <4>1. /\ Plans \in Seq(PlanOf(Order))
            /\ \A i \in 1 .. Len(Plans) : \E k \in 1 .. Len(buys) :
                 A(k) /\ Plans[i] = Makes(g, k, buys, sells)
            /\ \A k \in 1 .. Len(buys) : A(k) =>
                 \E i \in 1 .. Len(Plans) : Plans[i] = Makes(g, k, buys, sells)
        <5>1. RunGives(Order, g, Len(buys), buys, sells, floor)
          BY <3>6, <3>7, <3>8, RunFacts, OrdersAreQuoted
        <5> QED
          BY <3>7, <5>1 DEF RunGives
      <4>2. DOMAIN Plans = 1 .. Len(Plans)
        BY <4>1
      <4>3. \A k : /\ Makes(g, k, buys, sells).buy = buys[k]
                   /\ Makes(g, k, buys, sells).sell = O(k)
        BY DEF PlanFor, Makes
      <4> HIDE DEF A, O
      <4>4. ASSUME NEW q \in pairs
            PROVE  q \in {<<buys[k], O(k)>> : k \in {j \in 1 .. Len(buys) : A(j)}}
        <5>1. PICK i \in 1 .. Len(Plans) : q = <<Plans[i].buy, Plans[i].sell>>
          BY <4>2, <4>4 DEF Paired
        <5>2. PICK k \in 1 .. Len(buys) : A(k) /\ Plans[i] = Makes(g, k, buys, sells)
          BY <4>1, <5>1
        <5> QED
          BY <4>3, <5>1, <5>2
      <4>5. ASSUME NEW k \in 1 .. Len(buys), A(k) PROVE <<buys[k], O(k)>> \in pairs
        <5>1. PICK i \in 1 .. Len(Plans) : Plans[i] = Makes(g, k, buys, sells)
          BY <4>1, <4>5
        <5> QED
          BY <4>2, <4>3, <5>1 DEF Paired
      <4> HIDE DEF pairs
      <4> QED
        BY <4>4, <4>5
    <3>11. ASSUME NEW k \in 1 .. Len(buys)
           PROVE  Open(buys[k]) = {sells[i] : i \in Free(g[k - 1], buys[k], sells)}
      <4> DEFINE sold == Sold(g[k - 1])
                 F == Free(g[k - 1], buys[k], sells)
      <4>1. SoldBefore(Paired(g[Len(buys)]), buys[k]) = sold
        BY <3>5, <3>6, <3>7, SoldIsTaken, OrdersAreQuoted
      <4>2. SoldBefore(pairs, buys[k]) = sold
        BY <3>7, <4>1
      <4>3. F = {i \in 1 .. Len(sells) : /\ sells[i] \notin sold
                                         /\ sells[i].trader # buys[k].trader
                                         /\ Crosses(buys[k].limitPrice, sells[i].limitPrice)}
        BY <3>8 DEF Free, Counterparties, Sold
      <4> HIDE DEF sold, F, pairs
      <4>4. ASSUME NEW s \in Open(buys[k]) PROVE s \in {sells[i] : i \in F}
        <5>1. /\ s \in S /\ s \notin sold /\ s.trader # buys[k].trader
              /\ Crosses(buys[k].limitPrice, s.limitPrice)
          BY <3>5, <4>2, <4>4
        <5>2. PICK i \in 1 .. Len(sells) : sells[i] = s
          BY <3>9, <5>1
        <5> QED
          BY <4>3, <5>1, <5>2
      <4>5. ASSUME NEW i \in F PROVE sells[i] \in Open(buys[k])
        <5>1. /\ i \in 1 .. Len(sells) /\ sells[i] \notin sold
              /\ sells[i].trader # buys[k].trader
              /\ Crosses(buys[k].limitPrice, sells[i].limitPrice)
          BY <4>3
        <5>2. sells[i] \in S
          BY <3>9, <5>1
        <5> QED
          BY <3>5, <4>2, <5>1, <5>2
      <4> HIDE DEF Open
      <4> QED
        BY <4>4, <4>5 DEF F
    <3>12. ASSUME NEW k \in 1 .. Len(buys), NEW s
           PROVE  HeadOf(Open(buys[k]), s) /\ Fits(buys[k], s) <=> A(k) /\ s = O(k)
      <4>1. HeadOf(Open(buys[k]), s)
              <=> Free(g[k - 1], buys[k], sells) # {} /\ s = O(k)
        <5> HIDE DEF Open
        <5>1. HeadOf({sells[i] : i \in Free(g[k - 1], buys[k], sells)}, s)
                <=> Free(g[k - 1], buys[k], sells) # {} /\ s = O(k)
          BY <3>5, <3>6, OfferedIsHead, OrdersAreQuoted
        <5> QED
          BY <3>11, <5>1, Zenon
      <4>2. Fits(buys[k], s) <=>
              Eligible(FillQuantity(buys[k].quantity, s.quantity), buys[k], s, floor)
        BY DEF Eligible, MatchQty
      <4> HIDE DEF Fits, Open
      <4> QED
        BY <4>1, <4>2 DEF Accepts, Takes
    <3>13. \A b, s : HeadOf(Open(b), s) => s \in live
      BY DEF HeadOf
    <3>14. pairs = {q \in live \X live :
                      q[1].side = "Buy" /\ HeadOf(Open(q[1]), q[2]) /\ Fits(q[1], q[2])}
      <4> HIDE DEF pairs, Open, Fits, A, O
      <4>1. ASSUME NEW k \in 1 .. Len(buys), A(k)
            PROVE  <<buys[k], O(k)>> \in {q \in live \X live :
                      q[1].side = "Buy" /\ HeadOf(Open(q[1]), q[2]) /\ Fits(q[1], q[2])}
        <5>1. buys[k] \in live /\ buys[k].side = "Buy"
          BY <3>5, <3>9
        <5>2. HeadOf(Open(buys[k]), O(k)) /\ Fits(buys[k], O(k))
          BY <3>12, <4>1
        <5> QED
          BY <3>13, <5>1, <5>2
      <4>2. ASSUME NEW b \in live, NEW s \in live, b.side = "Buy", HeadOf(Open(b), s),
                   Fits(b, s)
            PROVE  <<b, s>> \in pairs
        <5>1. b \in B
          BY <3>5, <4>2
        <5>2. PICK k \in 1 .. Len(buys) : buys[k] = b
          BY <3>9, <5>1
        <5>3. A(k) /\ s = O(k)
          BY <3>12, <4>2, <5>2
        <5> QED
          BY <3>10, <5>2, <5>3
      <4> QED
        BY <3>10, <4>1, <4>2
    <3> QED
      BY <3>14 DEF PriceTimePriority, Paired, SoldBefore, HeadOf, live, floor
  <2> QED
    BY <2>0, <2>1
<1> QED
  BY <1>1, Invariance, BookInvariance, PTL

-----------------------------------------------------------------------------
\* Funding.  Holdings have numbers of their own, so a trader's are listed with
\* the largest first, and what comes first adds up to the most.

\* What a step may add to the holdings.
LEMMA HoldingsGrow ==
  ASSUME IInv, FreshIds, Numbered(holdings),
         NEW new, holdings' \subseteq holdings \cup new, Numbered(new),
         \A h \in new : h.id \in Nat /\ nextId <= h.id
  PROVE  Numbered(holdings')
<1>1. \A h \in holdings : h.id \in Nat /\ h.id < nextId
  BY DEF IInv, TypeOK, RegistryTypeOK, FreshIds, Holding, Ids
<1>2. nextId \in Nat
  BY DEF IInv, TypeOK, RegistryTypeOK
<1>3. ASSUME NEW g \in holdings, NEW h \in new PROVE g.id # h.id
  BY <1>1, <1>2
<1> QED
  BY <1>3 DEF Numbered

\* The change of a spend is at most one holding, with the number it is given.
LEMMA ChangeNumber ==
  ASSUME NEW inputs, NEW i, NEW p, NEW amount, NEW id
  PROVE  /\ \A h \in Range(Change(inputs, i, p, amount, id)) : h.id = id
         /\ \A g, h \in Range(Change(inputs, i, p, amount, id)) : g = h
  BY DEF Change, Range, NewHolding

LEMMA HoldingsNumbered ==
  IInv /\ FreshIds /\ Numbered(holdings) /\ [Next]_vars => Numbered(holdings')
<1> SUFFICES ASSUME IInv, FreshIds, Numbered(holdings), [Next]_vars
             PROVE  Numbered(holdings')
  OBVIOUS
<1>0. nextId \in Nat
  BY DEF IInv, TypeOK, RegistryTypeOK
<1>1. ASSUME holdings' \subseteq holdings PROVE Numbered(holdings')
  BY <1>1 DEF Numbered
<1>2. ASSUME NEW id, NEW p, NEW i, NEW amt,
             holdings' \subseteq holdings \cup {NewHolding(id, p, i, amt)}, id = nextId
      PROVE  Numbered(holdings')
  <2> DEFINE new == {NewHolding(id, p, i, amt)}
  <2>1. Numbered(new) /\ \A h \in new : h.id = nextId
    BY <1>2 DEF Numbered, NewHolding
  <2> HIDE DEF new
  <2> QED
    BY <1>0, <1>2, <2>1, HoldingsGrow DEF new
<1>3. ASSUME NEW p, NEW q, NEW i, NEW amt, NEW inputs, Transfer(p, inputs, i, q, amt)
      PROVE  Numbered(holdings')
  <2> DEFINE change == Range(Change(inputs, i, p, amt, nextId))
             new == change \cup {NewHolding(nextId + 1, q, i, amt)}
  <2>1. holdings' \subseteq holdings \cup new
    BY <1>3 DEF Transfer
  <2>2. (\A h \in change : h.id = nextId) /\ \A g, h \in change : g = h
    BY ChangeNumber
  <2> HIDE DEF change
  <2>3. Numbered(new) /\ \A h \in new : h.id \in Nat /\ nextId <= h.id
    BY <1>0, <2>2 DEF Numbered, NewHolding
  <2> HIDE DEF new
  <2> QED
    BY <2>1, <2>3, HoldingsGrow
<1>4. ASSUME NEW o \in orders, NEW f, NEW price, NEW cp, NEW d, Order_Fill(o, f, price, cp, d)
      PROVE  Numbered(holdings')
  <2> DEFINE new == Range(FillChange(o, f, price, nextId))
  <2>1. holdings' \subseteq holdings \cup new
    BY <1>4 DEF Order_Fill
  <2>2. (\A h \in new : h.id = nextId) /\ \A g, h \in new : g = h
    BY ChangeNumber DEF FillChange
  <2>3. Numbered(new)
    BY <2>2 DEF Numbered
  <2> HIDE DEF new
  <2> QED
    BY <1>0, <2>1, <2>2, <2>3, HoldingsGrow
<1>5. ASSUME NEW a \in allocs, NEW b \in allocs, FillAuthority_Settle(a, b)
      PROVE  Numbered(holdings')
  <2> DEFINE new == {NewHolding(nextId, b.receiver, b.instrument, b.amount),
                     NewHolding(nextId + 1, a.receiver, a.instrument, a.amount)}
  <2>1. holdings' \subseteq holdings \cup new
    BY <1>5 DEF FillAuthority_Settle
  <2>2. Numbered(new) /\ \A h \in new : h.id \in Nat /\ nextId <= h.id
    BY <1>0 DEF Numbered, NewHolding
  <2> HIDE DEF new
  <2> QED
    BY <2>1, <2>2, HoldingsGrow
<1>6. ASSUME NEW b \in orders, NEW s \in orders, DarkPool_Match(b, s)
      PROVE  Numbered(holdings')
  <2> DEFINE qty == MatchQty(b, s)
             price == MatchPrice(b, s)
             bNew == Range(FillChange(b, qty, price, nextId))
             sNew == Range(FillChange(s, qty, price, nextId + 1))
             pays == {NewHolding(nextId + 2, s.trader, pool.market.quote, QuoteAmount(qty, price)),
                      NewHolding(nextId + 3, b.trader, pool.market.base, qty)}
             new == bNew \cup sNew \cup pays
  <2>1. holdings' \subseteq holdings \cup new
    BY <1>6 DEF DarkPool_Match
  <2>2. /\ (\A h \in bNew : h.id = nextId) /\ \A g, h \in bNew : g = h
        /\ (\A h \in sNew : h.id = nextId + 1) /\ \A g, h \in sNew : g = h
    BY ChangeNumber DEF FillChange
  <2>3. /\ \A h \in pays : h.id = nextId + 2 \/ h.id = nextId + 3
        /\ \A g, h \in pays : g.id = h.id => g = h
    BY <1>0 DEF NewHolding
  <2> HIDE DEF bNew, sNew, pays
  <2>4. Numbered(new) /\ \A h \in new : h.id \in Nat /\ nextId <= h.id
    BY <1>0, <2>2, <2>3 DEF Numbered
  <2> HIDE DEF new
  <2> QED
    BY <2>1, <2>4, HoldingsGrow
<1>7. ASSUME NEW p, NEW i, NEW amt, Mint(p, i, amt) PROVE Numbered(holdings')
  BY <1>2, <1>7 DEF Mint
<1>8. ASSUME NEW a \in allocs, Recover(a) PROVE Numbered(holdings')
  BY <1>2, <1>8 DEF Recover
<1>9. HoldingStep => Numbered(holdings')
  BY <1>3, <1>7, <1>8 DEF HoldingStep
<1>10. ASSUME UNCHANGED holdings PROVE Numbered(holdings')
  BY <1>1, <1>10
<1> QED
  BY <1>4, <1>5, <1>6, <1>9, <1>10
  DEF Next, TraderStep, PoolStep, Tick, DarkPool_PlaceOrder, CreateOrder, ArchiveOrder,
      ArchivePool, CreatePool, Rest, registryVars, vars

OwnNumbers == Numbered(holdings)

\* The holdings keep numbers of their own, whatever is spent and paid out.
LEMMA HoldingsHaveNumbers == Spec => []OwnNumbers
<1>1. Init => OwnNumbers
  BY DEF Init, RegistryInit, GenesisHoldings, NewHolding, Numbered, OwnNumbers
<1>2. IInv /\ FreshIds /\ OwnNumbers /\ [Next]_vars => OwnNumbers'
  BY HoldingsNumbered DEF OwnNumbers
<1> QED
  BY <1>1, <1>2, Invariance, IdsAreFresh, PTL DEF Spec

\* The largest first, and of equals the older.
SizeOrder(S) == {q \in S \X S : LargestFirst(q[1], q[2])}

LEMMA SizesOrder ==
  ASSUME NEW S \in SUBSET Holding, Numbered(S)
  PROVE  Orders(SizeOrder(S), S)
<1>1. \A h \in S : h.amount \in Nat /\ h.id \in Nat
  BY DEF Holding, Ids
<1>2. \A x, y \in S : <<x, y>> \in SizeOrder(S) <=> LargestFirst(x, y)
  BY DEF SizeOrder
<1>3. /\ \A x \in S : ~LargestFirst(x, x)
      /\ \A x, y \in S : x # y => LargestFirst(x, y) \/ LargestFirst(y, x)
      /\ \A x, y, z \in S : LargestFirst(x, y) /\ LargestFirst(y, z) => LargestFirst(x, z)
  BY <1>1 DEF LargestFirst, Numbered
<1> QED
  BY <1>2, <1>3 DEF Orders

\* The first m elements of a list.
First(list, m) == {list[i] : i \in 1 .. m}

\* No m holdings are worth more than the first m.
LEMMA FirstAreWorthMost ==
  ASSUME NEW S \in SUBSET Holding, Numbered(S), IsFiniteSet(S),
         NEW list, Lists(list, S, SizeOrder(S)), NEW m \in 0 .. Cardinality(S)
  PROVE  \A T \in SUBSET S : Cardinality(T) <= m => Value(T) <= Value(First(list, m))
<1> DEFINE N == Cardinality(S)
           F(n) == First(list, n)
           Good(n) == /\ F(n) \in SUBSET S /\ Cardinality(F(n)) = n
                      /\ \A T \in SUBSET S : Cardinality(T) <= n => Value(T) <= Value(F(n))
           P == {n \in Nat : n <= N => Good(n)}
<1>0. Orders(SizeOrder(S), S)
  BY SizesOrder
<1>1. /\ N \in Nat
      /\ \A i \in 1 .. N : list[i] \in S
      /\ \A x \in S : \E n \in 1 .. N : list[n] = x
      /\ \A i, j \in 1 .. N : list[i] = list[j] => i = j
      /\ \A i, j \in 1 .. N : i < j => list[j].amount <= list[i].amount
  <2>1. /\ N \in Nat
        /\ \A i, j \in 1 .. N : list[i] = list[j] => i = j
    BY <1>0, ListsOnce
  <2>2. /\ \A i \in 1 .. N : list[i] \in S
        /\ \A x \in S : \E n \in 1 .. N : list[n] = x
        /\ \A i, j \in 1 .. N : i < j => <<list[i], list[j]>> \in SizeOrder(S)
    BY DEF Lists
  <2>3. \A i, j \in 1 .. N : i < j => list[j].amount <= list[i].amount
    <3> SUFFICES ASSUME NEW i \in 1 .. N, NEW j \in 1 .. N, i < j
                 PROVE  list[j].amount <= list[i].amount
      OBVIOUS
    <3>1. LargestFirst(list[i], list[j])
      BY <2>2 DEF SizeOrder
    <3>2. list[i].amount \in Nat /\ list[j].amount \in Nat
      BY <2>2 DEF Holding
    <3> QED
      BY <3>1, <3>2 DEF LargestFirst
  <2> QED
    BY <2>1, <2>2, <2>3
<1>2. /\ \A T \in SUBSET S : IsFiniteSet(T) /\ Cardinality(T) \in Nat
      /\ \A T \in SUBSET S : Value(T) \in Nat
      /\ \A x \in S : x.amount \in Nat
  <2>1. \A T \in SUBSET S : IsFiniteSet(T) /\ Cardinality(T) \in Nat
    BY FS_Subset, FS_CardinalityType
  <2>2. \A x \in S : x.amount \in Nat
    BY DEF Holding
  <2> QED
    BY <2>1, <2>2, ValueNat
<1>3. 0 \in P
  <2>1. F(0) = {}
    BY DEF First
  <2>2. Cardinality({}) = 0 /\ Value({}) = 0
    BY FS_EmptySet, ValueEmpty
  <2>3. ASSUME NEW T \in SUBSET S, Cardinality(T) <= 0 PROVE T = {}
    <3>1. Cardinality(T) = 0
      BY <1>2, <2>3
    <3> QED
      BY <1>2, <3>1, FS_EmptySet
  <2> HIDE DEF F
  <2>4. Good(0)
    BY <2>1, <2>2, <2>3
  <2> HIDE DEF Good
  <2> QED
    BY <2>4
<1>4. ASSUME NEW n \in Nat, n \in P PROVE n + 1 \in P
  <2>1. SUFFICES ASSUME n + 1 <= N PROVE Good(n + 1)
    <3> HIDE DEF Good
    <3> QED
      OBVIOUS
  <2>2. Good(n)
    <3>1. n <= N
      BY <1>1, <2>1
    <3> HIDE DEF Good
    <3> QED
      BY <1>4, <3>1
  <2> DEFINE y == list[n + 1]
  <2>3. n + 1 \in 1 .. N /\ y \in S
    BY <1>1, <2>1
  <2>4. y \notin F(n)
    <3>1. \A i \in 1 .. n : i \in 1 .. N /\ i # n + 1
      BY <1>1, <2>1
    <3> QED
      BY <1>1, <2>3, <3>1 DEF First
  <2>5. F(n + 1) = F(n) \cup {y}
    <3>1. \A i : i \in 1 .. (n + 1) <=> i \in 1 .. n \/ i = n + 1
      OBVIOUS
    <3> QED
      BY <3>1 DEF First
  <2> HIDE DEF F
  <2>6. F(n + 1) \in SUBSET S /\ Cardinality(F(n + 1)) = n + 1
    BY <1>2, <2>2, <2>3, <2>4, <2>5, FS_AddElement
  <2>7. Value(F(n + 1)) = Value(F(n)) + y.amount
    <3>1. \A c \in F(n) : c.amount \in Nat
      BY <1>2, <2>2
    <3>2. IsFiniteSet(F(n)) /\ y.amount \in Nat
      BY <1>2, <2>2, <2>3
    <3> HIDE DEF y
    <3> QED
      BY <2>4, <2>5, <3>1, <3>2, ValueAdd
  <2>8. Value(F(n)) \in Nat /\ y.amount \in Nat
    BY <1>2, <2>2, <2>3
  <2>9. ASSUME NEW T \in SUBSET S, Cardinality(T) <= n + 1
        PROVE  Value(T) <= Value(F(n + 1))
    <3>1. CASE Cardinality(T) <= n
      <4>1. Value(T) <= Value(F(n)) /\ Value(T) \in Nat
        BY <1>2, <2>2, <3>1
      <4> HIDE DEF y
      <4> QED
        BY <2>7, <2>8, <4>1
    <3>2. CASE ~(Cardinality(T) <= n)
      <4>1. Cardinality(T) = n + 1
        BY <1>2, <2>9, <3>2
      <4>2. PICK x \in T : x \notin F(n)
        <5>1. SUFFICES ASSUME T \subseteq F(n) PROVE FALSE
          BY Zenon
        <5>2. Cardinality(T) <= Cardinality(F(n))
          BY <1>2, <2>2, <5>1, FS_Subset
        <5> QED
          BY <2>2, <4>1, <5>2
      <4>3. PICK i \in 1 .. N : list[i] = x
        BY <1>1
      <4>4. i = n + 1 \/ n + 1 < i
        <5>1. ~(i \in 1 .. n)
          BY <4>2, <4>3 DEF F, First
        <5> QED
          BY <1>1, <5>1
      <4>5. x.amount <= y.amount
        BY <1>1, <1>2, <2>3, <4>3, <4>4
      <4>6. Cardinality(T \ {x}) = n /\ Value(T \ {x}) = Value(T) - x.amount
        <5>1. \A c \in T : c.amount \in Nat
          BY <1>2
        <5>2. Cardinality(T \ {x}) = Cardinality(T) - 1
          BY <1>2, FS_RemoveElement
        <5> QED
          BY <1>2, <4>1, <5>1, <5>2, ValueTake
      <4>7. Value(T \ {x}) <= Value(F(n))
        BY <2>2, <4>6
      <4>8. Value(T) \in Nat /\ x.amount \in Nat
        BY <1>2
      <4> HIDE DEF y
      <4> QED
        BY <2>7, <2>8, <4>5, <4>6, <4>7, <4>8
    <3> QED
      BY <3>1, <3>2
  <2> QED
    BY <2>6, <2>9
<1>5. Nat \subseteq P
  <2> HIDE DEF P
  <2> QED
    BY <1>3, <1>4, SetInduction
<1>6. Good(m)
  <2>1. m \in Nat /\ m <= N /\ m \in P
    BY <1>1, <1>5
  <2> HIDE DEF Good
  <2> QED
    BY <2>1
<1> QED
  BY <1>6

\* The holdings a party funds an order with.
OwnFunds(p, side) ==
  {h \in holdings : h.owner = p /\ h.instrument = FundingInstrument(Market, side)}

Largest(S) == Sorted(S, LargestFirst)

\* They are listed, and a part of the list from its start is worth what it holds.
LEMMA LargestList ==
  ASSUME NEW S \in SUBSET Holding, Numbered(S), IsFiniteSet(S)
  PROVE  /\ Lists(Largest(S), S, SizeOrder(S))
         /\ Largest(S) \in Seq(Holding) /\ Len(Largest(S)) = Cardinality(S)
         /\ Cardinality(S) \in Nat
         /\ First(Largest(S), Cardinality(S)) = S
         /\ \A m \in 0 .. Cardinality(S) :
              LET front == SubSeq(Largest(S), 1, m)
              IN  /\ front \in Seq(Holding) /\ Len(front) = m
                  /\ IsInjective(front) /\ Range(front) \subseteq S
                  /\ Total(front) = Value(First(Largest(S), m))
<1> DEFINE N == Cardinality(S)
           list == Largest(S)
<1>1. Lists(list, S, SizeOrder(S))
  <2> DEFINE G(n) == CHOOSE x \in S : Cardinality(Below(SizeOrder(S), S, x)) = n - 1
             K(n) == CHOOSE x \in S : Cardinality({y \in S : LargestFirst(y, x)}) = n - 1
  <2>1. \A x \in S : {y \in S : LargestFirst(y, x)} = Below(SizeOrder(S), S, x)
    BY DEF Below, SizeOrder
  <2>2. \A n : K(n) = G(n)
    BY <2>1
  <2>3. list = [n \in 1 .. N |-> K(n)]
    BY DEF Sorted, Largest
  <2> HIDE DEF K, G
  <2>4. [n \in 1 .. N |-> K(n)] = [n \in 1 .. N |-> G(n)]
    BY <2>2
  <2>5. list = [n \in 1 .. N |-> G(n)]
    BY <2>3, <2>4
  <2> HIDE DEF list
  <2> QED
    BY <2>5, SizesOrder, RanksList DEF G
<1> HIDE DEF list
<1>2. /\ list \in Seq(S) /\ Len(list) = N /\ N \in Nat
      /\ \A i, j \in 1 .. N : list[i] = list[j] => i = j
  BY <1>1, SizesOrder, ListsOnce
<1>3. list \in Seq(Holding) /\ \A i \in 1 .. N : list[i] \in S
  BY <1>2
<1>4. First(list, N) = S
  BY <1>1, <1>3 DEF First, Lists
<1>5. ASSUME NEW m \in 0 .. N
      PROVE  LET front == SubSeq(list, 1, m)
             IN  /\ front \in Seq(Holding) /\ Len(front) = m
                 /\ IsInjective(front) /\ Range(front) \subseteq S
                 /\ Total(front) = Value(First(list, m))
  <2> DEFINE front == SubSeq(list, 1, m)
  <2>0. \A i \in 1 .. m : i \in 1 .. N
    BY <1>2
  <2>1. front \in Seq(S) /\ Len(front) = m /\ \A i \in 1 .. m : front[i] = list[i]
    BY <1>2, <1>3, <2>0
  <2> HIDE DEF front
  <2>2. front \in Seq(Holding) /\ DOMAIN front = 1 .. m
    BY <2>1
  <2>3. \A i \in 1 .. m : front[i] = list[i] /\ front[i] \in S
    BY <1>3, <2>0, <2>1
  <2>4. IsInjective(front)
    BY <1>2, <2>0, <2>2, <2>3 DEF IsInjective
  <2>5. Range(front) = First(list, m)
    BY <2>2, <2>3 DEF Range, First
  <2>6. Range(front) \subseteq S
    BY <2>2, <2>3 DEF Range
  <2>7. Total(front) = Value(Range(front))
    BY <2>2, <2>4, TotalIsValue
  <2> QED
    BY <2>1, <2>2, <2>4, <2>5, <2>6, <2>7 DEF front
<1> QED
  BY <1>1, <1>2, <1>3, <1>4, <1>5 DEF list

\* The list picked, if any, is the shortest front that covers.
LEMMA SelectsFront ==
  ASSUME NEW S \in SUBSET Holding, Numbered(S), IsFiniteSet(S), NEW r \in Nat
  PROVE  /\ SelectFunding(S, r) = {} => Total(SubSeq(Largest(S), 1, Cardinality(S))) < r
         /\ \A picked \in SelectFunding(S, r) : \E m \in 0 .. Cardinality(S) :
              /\ picked = SubSeq(Largest(S), 1, m) /\ Total(picked) >= r
              /\ \A n \in 0 .. (m - 1) : Total(SubSeq(Largest(S), 1, n)) < r
<1> DEFINE N == Cardinality(S)
           T(n) == Total(SubSeq(Largest(S), 1, n))
           covering == {n \in 0 .. Len(Largest(S)) : T(n) >= r}
<1>1. /\ N \in Nat /\ Len(Largest(S)) = N
      /\ \A m \in 0 .. N : SubSeq(Largest(S), 1, m) \in Seq(Holding)
  BY LargestList
<1>2. \A m \in 0 .. N : T(m) \in Nat
  BY <1>1, TotalType
<1>3. SelectFunding(S, r)
        = {SubSeq(Largest(S), 1, n) : n \in {m \in covering : m = Min(covering)}}
  BY DEF SelectFunding, Largest
<1>4. covering \subseteq 0 .. N
  BY <1>1
<1> HIDE DEF covering, T
<1>5. ASSUME covering # {}
      PROVE  Min(covering) \in covering /\ \A n \in covering : Min(covering) <= n
  <2>1. covering \subseteq Nat
    BY <1>1, <1>4
  <2>2. PICK n \in covering : \A m \in covering : ~(m < n)
    BY <1>5, <2>1, LeastNatural
  <2>3. \A m \in covering : n <= m
    BY <2>1, <2>2
  <2> QED
    BY <2>2, <2>3 DEF Min
<1>6. ASSUME SelectFunding(S, r) = {} PROVE T(N) < r
  <2>1. covering = {}
    <3>1. SUFFICES ASSUME covering # {} PROVE FALSE
      OBVIOUS
    <3> QED
      BY <1>3, <1>5, <1>6, <3>1
  <2>2. N \in 0 .. Len(Largest(S)) /\ T(N) \in Nat
    BY <1>1, <1>2
  <2> QED
    BY <2>1, <2>2 DEF covering
<1>7. ASSUME NEW picked \in SelectFunding(S, r)
      PROVE  \E m \in 0 .. N : /\ picked = SubSeq(Largest(S), 1, m) /\ Total(picked) >= r
                               /\ \A n \in 0 .. (m - 1) : T(n) < r
  <2>1. PICK m \in covering : m = Min(covering) /\ picked = SubSeq(Largest(S), 1, m)
    BY <1>3
  <2>2. m \in 0 .. N /\ Total(picked) >= r
    BY <1>4, <2>1 DEF covering, T
  <2>3. ASSUME NEW n \in 0 .. (m - 1) PROVE T(n) < r
    <3>1. n \in 0 .. N /\ n < m /\ n \in Nat
      BY <1>1, <2>2
    <3>2. n \notin covering
      BY <1>4, <1>5, <2>1, <2>2, <3>1
    <3> QED
      BY <1>1, <1>2, <3>1, <3>2 DEF covering
  <2> QED
    BY <2>1, <2>2, <2>3
<1> QED
  BY <1>6, <1>7 DEF T

\* funding.ts picks well, whatever the trader owns and orders: the contract
\* accepts the list, no shorter list would be enough, and one is found whenever
\* all that the trader owns is.
THEOREM FundingIsCovered == Spec => []FundingCovers
<1>1. ASSUME IInv, LedgerInv, OwnNumbers PROVE FundingCovers
  <2> SUFFICES ASSUME NEW p \in Parties, NEW t \in OrderTerms
               PROVE  LET own == OwnFunds(p, t.side)
                          worst == Required(t.side, t.quantity, t.limitPrice)
                          picks == SelectFunding(own, DecRequiredFunding(t.side, t.quantity,
                                                                         t.limitPrice))
                      IN  /\ picks = {} => Value(own) < worst
                          /\ \A picked \in picks :
                               /\ IsInjective(picked) /\ Range(picked) \subseteq own
                               /\ Total(picked) >= worst
                               /\ \A S \in SUBSET own :
                                    Cardinality(S) < Len(picked) => Value(S) < worst
    BY DEF FundingCovers, OwnFunds
  <2> DEFINE own == OwnFunds(p, t.side)
             worst == Required(t.side, t.quantity, t.limitPrice)
             picks == SelectFunding(own, worst)
             N == Cardinality(own)
             list == Largest(own)
  <2>1. own \in SUBSET Holding /\ Numbered(own) /\ IsFiniteSet(own)
    <3>1. own \subseteq holdings
      BY DEF OwnFunds
    <3>2. IsFiniteSet(holdings) /\ holdings \subseteq Holding /\ Numbered(holdings)
      BY <1>1 DEF LedgerInv, SomeHoldings, OwnNumbers
    <3> QED
      BY <3>1, <3>2, FS_Subset DEF Numbered
  <2>2. t.side \in Side /\ t.quantity \in Nat /\ t.limitPrice \in Nat
    BY DarkPoolAssumption DEF Terms, PosNat
  <2>3. /\ DecRequiredFunding(t.side, t.quantity, t.limitPrice) = worst
        /\ worst \in Nat
    <3>1. QuoteAmount(t.quantity, t.limitPrice) \in Nat
      BY <2>2, QuoteType
    <3> QED
      BY <2>2, <3>1, FundingTargetsAgree DEF Required, BuyFundingTarget, Side
  <2> HIDE DEF own, worst
  <2>4. /\ Lists(list, own, SizeOrder(own)) /\ N \in Nat
        /\ First(list, N) = own
    BY <2>1, LargestList
  <2>5. \A m \in 0 .. N :
           LET front == SubSeq(list, 1, m)
           IN  /\ front \in Seq(Holding) /\ Len(front) = m
               /\ IsInjective(front) /\ Range(front) \subseteq own
               /\ Total(front) = Value(First(list, m))
    BY <2>1, LargestList
  <2>6. /\ picks = {} => Total(SubSeq(list, 1, N)) < worst
        /\ \A picked \in picks : \E m \in 0 .. N :
             /\ picked = SubSeq(list, 1, m) /\ Total(picked) >= worst
             /\ \A n \in 0 .. (m - 1) : Total(SubSeq(list, 1, n)) < worst
    BY <2>1, <2>3, SelectsFront
  <2>7. picks = {} => Value(own) < worst
    <3>1. N \in 0 .. N
      BY <2>4
    <3> QED
      BY <2>4, <2>5, <2>6, <3>1
  <2> HIDE DEF list, picks
  <2>8. ASSUME NEW picked \in picks
        PROVE  /\ IsInjective(picked) /\ Range(picked) \subseteq own
               /\ Total(picked) >= worst
               /\ \A S \in SUBSET own : Cardinality(S) < Len(picked) => Value(S) < worst
    <3>1. PICK m \in 0 .. N :
             /\ picked = SubSeq(list, 1, m) /\ Total(picked) >= worst
             /\ \A n \in 0 .. (m - 1) : Total(SubSeq(list, 1, n)) < worst
      BY <2>6
    <3>2. Len(picked) = m /\ IsInjective(picked) /\ Range(picked) \subseteq own
      BY <2>5, <3>1
    <3>3. ASSUME NEW S \in SUBSET own, Cardinality(S) < m PROVE Value(S) < worst
      <4>1. IsFiniteSet(S) /\ Cardinality(S) \in Nat
        BY <2>1, FS_Subset, FS_CardinalityType
      <4>2. m - 1 \in 0 .. N /\ m - 1 \in 0 .. (m - 1) /\ Cardinality(S) <= m - 1
        BY <2>4, <3>3, <4>1
      <4>3. Value(S) <= Value(First(list, m - 1))
        BY <2>1, <2>4, <3>3, <4>2, FirstAreWorthMost
      <4>4. Total(SubSeq(list, 1, m - 1)) < worst
        BY <3>1, <4>2
      <4>5. /\ Total(SubSeq(list, 1, m - 1)) = Value(First(list, m - 1))
            /\ Total(SubSeq(list, 1, m - 1)) \in Nat
        BY <2>5, <4>2, TotalType
      <4>6. Value(S) \in Nat
        BY <2>1, <4>1, ValueNat DEF Holding
      <4> QED
        BY <2>3, <4>3, <4>4, <4>5, <4>6
    <3> QED
      BY <3>1, <3>2, <3>3
  <2> QED
    BY <2>3, <2>7, <2>8 DEF own, worst, picks
<1> QED
  BY <1>1, Invariance, PoolLedgerInvariance, HoldingsHaveNumbers, PTL

==============================================================================
