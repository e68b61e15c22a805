----------------------------- MODULE MockMarket -----------------------------
(***************************************************************************)
(* The browser's own market, used when no service is configured            *)
(* (MockDarkPoolClient, simEngine, darkpoolMath, seed): orders rest, match *)
(* and settle in memory against declared balances, and simulated           *)
(* counterparties keep it moving.  Every call runs to its end before the   *)
(* next event of the page, a matching pass with its awaits included.       *)
(*                                                                         *)
(* One pool.  Amounts, balances and prices are doubles and every operation *)
(* on them rounds (Doubles); the code keeps ten digits after the point,    *)
(* its ticks.  The histories of trades and fills are left out.  A memo is  *)
(* valid until the version moves, which is when notify() is called.        *)
(***************************************************************************)
EXTENDS Doubles

CONSTANTS
  Factor,       \* ticks of 1: 10^10
  Human,        \* the connected trader
  Sims,         \* the simulated counterparties
  SeedTotal,    \* what everyone holds of each instrument at first
  SeedOrders,   \* orders that rest from the start, declared by nobody
  DemoTerms,    \* the terms of the two orders a new trader is shown
  HumanTerms, SimTerms,
  MinFillFloor,
  MaxTicks,     \* bound: the ticks of the largest quantity
  MaxPrice,     \* bound: the highest price
  MaxSeq        \* bound: an action starts only below this many ids

VARIABLES
  market,       \* orders, balances and the id counter; how often a balance
                \* was adjusted and a pair filled, for the properties
  seeded,       \* whether the trader has been given the demo orders
  memo          \* what the panels keep: the own rows and the book, each a set
                \* of one snapshot or, when it has to be computed again, empty

mockVars == <<market, seeded, memo>>

Labels == {"base", "quote"}
Everyone == Sims \cup {Human}

\* What a form's decimal of k ticks is read as: the double nearest to it.
Decimal(k) == Amount(k * One, Factor)
Decimals == {Decimal(k) : k \in 0 .. MaxTicks}

MockTerms == [side : {"Buy", "Sell"}, quantity : Decimals, limitPrice : 0 .. MaxPrice,
              minFill : Nat]
MockOrders == [id : Nat, trader : Everyone, side : {"Buy", "Sell"}, quantity : Decimals,
               limitPrice : 0 .. MaxPrice, minFill : Nat]

ASSUME MockAssumption ==
  /\ Factor \in Nat \ {0} /\ MaxTicks \in Nat /\ MaxPrice \in Nat
  /\ SeedTotal \in Nat /\ MinFillFloor \in Nat /\ MaxSeq \in Nat
  /\ IsFiniteSet(Sims) /\ Human \notin Sims
  /\ IsFiniteSet(SeedOrders) /\ SeedOrders \subseteq MockOrders
  /\ \A o \in SeedOrders : o.trader \in Sims /\ o.id <= Cardinality(SeedOrders)
  /\ HumanTerms \subseteq MockTerms /\ SimTerms \subseteq MockTerms

\* Ticks are coarse next to what an operation on amounts and on counts of ticks
\* may be off by, and so they are at the prices traded: with doubles, for
\* amounts below 2^15 and prices up to 15.
ASSUME RoundingAssumption ==
  LET a == Factor * Max(AmountSpacings)
      w == Max(CountSpacings)
  IN  /\ 3 * a + w < One
      /\ 3 * (w * One + a * One + a * MaxPrice) <= 2 * One * One

Stale == {}

-----------------------------------------------------------------------------
\* darkpoolMath.ts

MockFloorTo10(x) == Amount((Count(x * Factor) \div One) * One, Factor)

MockMidpoint(buyLimit, sellLimit) == MockFloorTo10(Amount(Amount(buyLimit + sellLimit, 1), 2))

\* Rounded to the nearest tick, halves up: Math.round.
MockRemainder(quantity, fillQty) ==
  LET rest == Count(Amount(quantity - fillQty, 1) * Factor)
  IN  Amount(((2 * rest + One) \div (2 * One)) * One, Factor)

MockQuoteAmount(qty, price) == MockFloorTo10(Amount(qty * price, One))

MockPriceWithin(side, price, limit) == IF side = "Buy" THEN price <= limit ELSE price >= limit

Funds(side) == IF side = "Buy" THEN "quote" ELSE "base"

MockRequired(side, qty, limit) ==
  IF side = "Buy" THEN MockQuoteAmount(qty, limit) ELSE qty

\* The two demo orders, a buy and a sell, are placed without a look at the
\* balances: seedBalances has enough of each.
ASSUME DemoAssumption ==
  /\ DemoTerms[1] \in MockTerms /\ DemoTerms[1].side = "Buy"
  /\ DemoTerms[2] \in MockTerms /\ DemoTerms[2].side = "Sell"
  /\ \A k \in 1 .. 2 :
       MockRequired(DemoTerms[k].side, DemoTerms[k].quantity, DemoTerms[k].limitPrice) <= SeedTotal

Free(bal, p, i) == Amount(bal[p][i].total - bal[p][i].declared, 1)

ValidOrder(bal, p, t) ==
  /\ t.quantity > 0 /\ t.limitPrice > 0 /\ t.minFill > 0
  /\ MinFillFloor <= t.minFill /\ t.minFill <= t.quantity
  /\ MockRequired(t.side, t.quantity, t.limitPrice) <= Free(bal, p, Funds(t.side))

-----------------------------------------------------------------------------
\* MockDarkPoolClient, as functions of the market

Adjust(bal, p, i, dTotal, dDeclared) ==
  [bal EXCEPT ![p][i] = [total |-> Amount(@.total + dTotal, 1),
                         declared |-> Amount(@.declared + dDeclared, 1)]]

Declare(bal, o, sign) ==
  Adjust(bal, o.trader, Funds(o.side), 0,
         sign * MockRequired(o.side, o.quantity, o.limitPrice))

MockOrder(m, p, t) ==
  [id |-> m.seq, trader |-> p, side |-> t.side, quantity |-> t.quantity,
   limitPrice |-> t.limitPrice, minFill |-> t.minFill]

Push(m, p, t) == LET o == MockOrder(m, p, t)
                 IN  [m EXCEPT !.orders = @ \cup {o}, !.bal = Declare(@, o, 1),
                               !.seq = @ + 1, !.adjusts = @ + 1]

\* Mutant: the buyer pays at its limit.
SettledAtLimit(bal, b, s, fill, price) ==
  LET notional == MockQuoteAmount(fill, price)
      paid == Adjust(bal, b.trader, "quote", -MockQuoteAmount(fill, b.limitPrice),
                     -MockQuoteAmount(fill, b.limitPrice))
      got == Adjust(paid, b.trader, "base", fill, 0)
  IN  Adjust(Adjust(got, s.trader, "base", -fill, -fill),
             s.trader, "quote", notional, 0)

\* Mutant: the buyer's whole order is un-declared, its remainder too.
SettledWhole(bal, b, s, fill, price) ==
  LET notional == MockQuoteAmount(fill, price)
      paid == Adjust(bal, b.trader, "quote", -notional,
                     -MockQuoteAmount(b.quantity, b.limitPrice))
      got == Adjust(paid, b.trader, "base", fill, 0)
  IN  Adjust(Adjust(got, s.trader, "base", -fill, -fill),
             s.trader, "quote", notional, 0)

Settled(bal, b, s, fill, price) ==
  LET notional == MockQuoteAmount(fill, price)
      paid == Adjust(bal, b.trader, "quote", -notional,
                     -MockQuoteAmount(fill, b.limitPrice))
      got == Adjust(paid, b.trader, "base", fill, 0)
  IN  Adjust(Adjust(got, s.trader, "base", -fill, -fill),
             s.trader, "quote", notional, 0)

\* A remainder below its minFill is dropped: the order is gone, and what was
\* declared for the remainder stays declared.
ReRest(o, fill, id) ==
  LET rest == MockRemainder(o.quantity, fill)
  IN  IF rest >= o.minFill THEN {[o EXCEPT !.id = id, !.quantity = rest]} ELSE {}

\* matchOrders, by a pass: both orders rest and cross, their traders differ.  A
\* rounded midpoint may lie outside a limit, of two equal limits too.
MatchOrders(m, b, s) ==
  LET fill == IF b.quantity < s.quantity THEN b.quantity ELSE s.quantity
      price == MockMidpoint(b.limitPrice, s.limitPrice)
  IN  IF \/ fill < b.minFill \/ fill < s.minFill
         \/ ~MockPriceWithin("Buy", price, b.limitPrice)
         \/ ~MockPriceWithin("Sell", price, s.limitPrice)
      THEN m
      ELSE [orders |-> (m.orders \ {b, s}) \cup ReRest(b, fill, m.seq)
                         \cup ReRest(s, fill, m.seq + 1),
            bal |-> Settled(m.bal, b, s, fill, price), seq |-> m.seq + 2,
            adjusts |-> m.adjusts + 4, fills |-> m.fills + 1]

\* The first of S in the order of the sort: by limit, then by age.
HighestFirst(S) == CHOOSE o \in S : \A q \in S :
                     \/ o.limitPrice > q.limitPrice
                     \/ o.limitPrice = q.limitPrice /\ o.id <= q.id

CheapestFirst(S) == CHOOSE o \in S : \A q \in S :
                      \/ o.limitPrice < q.limitPrice
                      \/ o.limitPrice = q.limitPrice /\ o.id <= q.id

\* One buy of a pass, with the cheapest sell that those before it left for it; a
\* pair that fails uses its sell up.
NextBuy(was) ==
  LET b == HighestFirst(was.buys)
      open == {o \in was.sells : o.trader # b.trader /\ b.limitPrice >= o.limitPrice}
      s == CheapestFirst(open)
  IN  IF open = {} THEN [was EXCEPT !.buys = @ \ {b}]
      ELSE [m |-> MatchOrders(was.m, b, s),
            buys |-> was.buys \ {b}, sells |-> was.sells \ {s}]

OnSide(m, side) == {o \in m.orders : o.side = side}

\* runMatchPass: every buy, the highest limit first.
MatchPass(m) ==
  LET pass[n \in 0 .. Cardinality(OnSide(m, "Buy"))] ==
        IF n = 0 THEN [m |-> m, buys |-> OnSide(m, "Buy"), sells |-> OnSide(m, "Sell")]
        ELSE NextBuy(pass[n - 1])
  IN  pass[Cardinality(OnSide(m, "Buy"))].m

-----------------------------------------------------------------------------
\* What the page and the simulation do

MockInit ==
  /\ market = [orders |-> SeedOrders,
               bal |-> [p \in Everyone |->
                          [i \in Labels |-> [total |-> SeedTotal, declared |-> 0]]],
               seq |-> 1 + Cardinality(SeedOrders), adjusts |-> 0, fills |-> 0]
  /\ seeded = FALSE
  /\ memo = [own |-> Stale, book |-> Stale]

\* ensureParty: no notify(), since it runs before the own memos are computed.
Ensured == IF seeded THEN market
           ELSE Push(Push(market, Human, DemoTerms[1]), Human, DemoTerms[2])

Own(m) == [orders |-> {o \in m.orders : o.trader = Human}, bal |-> m.bal[Human]]

Notify == memo' = [own |-> Stale, book |-> Stale]

ReadOwn ==
  /\ market' = Ensured /\ seeded' = TRUE
  /\ memo' = [memo EXCEPT !.own = IF @ = Stale THEN {Own(market')} ELSE @]

ReadBook ==
  /\ memo' = [memo EXCEPT !.book = IF @ = Stale THEN {market.orders} ELSE @]
  /\ UNCHANGED <<market, seeded>>

PlaceMock(t) ==
  /\ Ensured.seq <= MaxSeq /\ seeded' = TRUE
  /\ IF ValidOrder(Ensured.bal, Human, t)
     THEN market' = Push(Ensured, Human, t) /\ Notify
     ELSE market' = Ensured /\ UNCHANGED memo

\* Mutant: nobody is notified.
CancelMockQuietly(o) ==
  /\ o \in market.orders /\ o.trader = Human
  /\ market' = [market EXCEPT !.orders = @ \ {o}, !.bal = Declare(@, o, -1),
                               !.adjusts = @ + 1]
  /\ UNCHANGED <<memo, seeded>>

CancelMock(o) ==
  /\ o \in market.orders /\ o.trader = Human
  /\ market' = [market EXCEPT !.orders = @ \ {o}, !.bal = Declare(@, o, -1),
                               !.adjusts = @ + 1]
  /\ Notify /\ UNCHANGED seeded

NotifyIf(changed) == IF changed THEN Notify ELSE UNCHANGED memo

RunMatchPass ==
  /\ market.seq <= MaxSeq
  /\ market' = MatchPass(market)
  /\ NotifyIf(market' # market) /\ UNCHANGED seeded

\* simEngine's tick: a counterparty's order, if it is accepted, then a pass.
SimTick(p, t) ==
  /\ market.seq <= MaxSeq
  /\ LET placed == IF ValidOrder(market.bal, p, t) THEN Push(market, p, t) ELSE market
     IN  market' = MatchPass(placed)
  /\ NotifyIf(market' # market) /\ UNCHANGED seeded

MockNext ==
  \/ ReadOwn \/ ReadBook \/ RunMatchPass
  \/ \E t \in HumanTerms : PlaceMock(t)
  \/ \E o \in market.orders : CancelMock(o)
  \/ \E p \in Sims, t \in SimTerms : SimTick(p, t)

-----------------------------------------------------------------------------
\* Properties

Totals(bal, i) == MapThenSumSet(LAMBDA p : bal[p][i].total, Everyone)
Needs(S) == MapThenSumSet(LAMBDA o : MockRequired(o.side, o.quantity, o.limitPrice), S)
\* Matches move value between traders and make none, to within half a spacing
\* of the doubles for each change of a balance.
MockConserves ==
  \A i \in Labels :
    2 * Size(Totals(market.bal, i) - SeedTotal * Cardinality(Everyone))
      <= market.adjusts * Max(AmountSpacings)

\* How far a balance may have drifted, in units for each tick: two spacings for
\* each adjustment, one tick for each fill, whose floors the parts of an order
\* and the whole do not share.
Drift(m) == m.fills * One + m.adjusts * (2 * Factor * Max(AmountSpacings))

\* What the trader has declared covers every order it has resting, after any
\* partial matches, and is never more than it holds, but for the drift: the
\* code's doubles do fall short of the exact claim (27 - 21.6 < 5.4).
DeclaredCovers ==
  \A i \in Labels :
    LET b == market.bal[Human][i]
        resting == {o \in market.orders : o.trader = Human /\ Funds(o.side) = i}
    IN  /\ Factor * (Needs(resting) - b.declared) <= Drift(market)
        /\ Factor * (b.declared - b.total) <= Drift(market)

\* The trader's panels show its current orders and balances.
FreshPanels == memo.own \subseteq {Own(market)}

=============================================================================
