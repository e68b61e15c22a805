------------------------------- MODULE Matcher -------------------------------
(***************************************************************************)
(* The venue service's off-ledger decisions (backend/src): which resting   *)
(* orders to pair (matcher.ts) and which holdings fund a new order         *)
(* (funding.ts), in the service's own arithmetic (decimal.ts).  All pure   *)
(* functions of a snapshot of the ledger; here the snapshot is the state   *)
(* of DarkPool itself, and VenueService applies them to a cached one.      *)
(*                                                                         *)
(* A createdOffset orders the contracts as their ids do.                   *)
(***************************************************************************)
EXTENDS DarkPool

-----------------------------------------------------------------------------
\* decimal.ts: BigInt ticks, division truncating (the operands are positive)

DecQuoteAmount(qty, price) == (qty * price) \div Scale

DecMidpointPrice(buyLimit, sellLimit) == (buyLimit + sellLimit) \div 2

-----------------------------------------------------------------------------
\* matcher.ts

Sorted(S, Before(_, _)) ==
  [n \in 1 .. Cardinality(S) |->
     CHOOSE x \in S : Cardinality({y \in S : Before(y, x)}) = n - 1]

\* Mutants: the boundary is taken for live; one unit early for expired.
IsLiveAtExpiry(o, t) == o.expiresAt = NoExpiry \/ t <= o.expiresAt

IsLiveUntilLast(o, t) == o.expiresAt = NoExpiry \/ t + 1 < o.expiresAt

IsLive(o, t) == o.expiresAt = NoExpiry \/ t < o.expiresAt

\* Price-time priority: the better price, then the older contract.
BuyBefore(a, b) ==
  a.limitPrice > b.limitPrice \/ (a.limitPrice = b.limitPrice /\ a.id < b.id)

SellBefore(a, b) ==
  a.limitPrice < b.limitPrice \/ (a.limitPrice = b.limitPrice /\ a.id < b.id)

\* Mutant: a sell may be used twice.
CounterpartiesReused(b, sells, used) ==
  {i \in DOMAIN sells : /\ sells[i].trader # b.trader
                        /\ Crosses(b.limitPrice, sells[i].limitPrice)}

\* The sells still open to this buy: unused, another trader's, crossing.
Counterparties(b, sells, used) ==
  {i \in DOMAIN sells : /\ sells[i] \notin used
                        /\ sells[i].trader # b.trader
                        /\ Crosses(b.limitPrice, sells[i].limitPrice)}

Eligible(fill, b, s, floor) ==
  /\ fill >= b.minFill /\ fill >= s.minFill
  /\ b.minFill >= floor /\ s.minFill >= floor

\* The buy is paired with the first such sell or, if those two are not
\* eligible, with none.
ConsiderBuy(plans, b, sells, floor) ==
  LET open == Counterparties(b, sells, {plans[i].sell : i \in DOMAIN plans})
      s == sells[Min(open)]
      fill == FillQuantity(b.quantity, s.quantity)
  IN  IF open # {} /\ Eligible(fill, b, s, floor)
      THEN Append(plans, [buy |-> b, sell |-> s, fillQty |-> fill])
      ELSE plans

\* Mutant: both sides of the book sorted as sells are.
FindMatchesCheapBuys(p, book, t) ==
  LET inPool == {o \in book : o.market.name = p.market.name /\ IsLive(o, t)}
      buys == Sorted({o \in inPool : o.side = "Buy"}, SellBefore)
      sells == Sorted({o \in inPool : o.side = "Sell"}, SellBefore)
      pass[n \in 0 .. Len(buys)] ==
        IF n = 0 THEN << >>
        ELSE ConsiderBuy(pass[n - 1], buys[n], sells, p.minFillFloor)
  IN  pass[Len(buys)]

\* Orders are selected by poolId, which is the market's name here.
FindMatches(p, book, t) ==
  LET inPool == {o \in book : o.market.name = p.market.name /\ IsLive(o, t)}
      buys == Sorted({o \in inPool : o.side = "Buy"}, BuyBefore)
      sells == Sorted({o \in inPool : o.side = "Sell"}, SellBefore)
      pass[n \in 0 .. Len(buys)] ==
        IF n = 0 THEN << >>
        ELSE ConsiderBuy(pass[n - 1], buys[n], sells, p.minFillFloor)
  IN  pass[Len(buys)]

-----------------------------------------------------------------------------
\* funding.ts

DecRequiredFunding(side, quantity, limitPrice) ==
  IF side = "Buy" THEN DecQuoteAmount(quantity, limitPrice) ELSE quantity

\* Mutant: smallest first.
SmallestFirst(g, h) == g.amount < h.amount \/ (g.amount = h.amount /\ g.id < h.id)

LargestFirst(g, h) == g.amount > h.amount \/ (g.amount = h.amount /\ g.id < h.id)

\* Largest holdings first, until what is required is covered: the list picked,
\* in a set, which is empty when even all of them fall short (null).
SelectFunding(own, required) ==
  LET sorted == Sorted(own, LargestFirst)
      covering == {n \in 0 .. Len(sorted) :
                     Total(SubSeq(sorted, 1, n)) >= required}
  IN  {SubSeq(sorted, 1, n) : n \in {m \in covering : m = Min(covering)}}

-----------------------------------------------------------------------------
\* Properties

Plans == IF pool = NoPool THEN << >> ELSE FindMatches(pool, orders, now)

\* A plan for two orders placed through the pool satisfies every check the
\* contract makes of the pair, and names the quantity the contract will fill; and
\* no order is in two plans of one pass, whose second settlement would find it
\* archived.
PlansArePairs ==
  /\ \A i \in DOMAIN Plans :
       LET b == Plans[i].buy
           s == Plans[i].sell
       IN  b.placed /\ s.placed =>
             /\ CanPair(b, s) /\ ~Expired(b) /\ ~Expired(s)
             /\ Plans[i].fillQty = MatchQty(b, s)
  /\ \A i, j \in DOMAIN Plans :
       Plans[i].buy = Plans[j].buy \/ Plans[i].sell = Plans[j].sell => i = j

\* A sell that a buy could have had, and that is better than the sell it got,
\* went to a buy before it; a live buy that got none was left no eligible pair
\* at the head of what the buys before it left over.
PriceTimePriority ==
  LET live == {o \in orders : o.market.name = Market.name /\ ~Expired(o)}
      pairs == {<<Plans[i].buy, Plans[i].sell>> : i \in DOMAIN Plans}
      taken(b) == {q[2] : q \in {r \in pairs : BuyBefore(r[1], b)}}
      open(b) == {s \in live \ taken(b) :
                    /\ s.side = "Sell" /\ s.trader # b.trader
                    /\ Crosses(b.limitPrice, s.limitPrice)}
      head(b, s) == s \in open(b) /\ \A r \in open(b) \ {s} : SellBefore(s, r)
      fits(b, s) == MatchQty(b, s) >= b.minFill /\ MatchQty(b, s) >= s.minFill
                      /\ b.minFill >= pool.minFillFloor
                      /\ s.minFill >= pool.minFillFloor
  IN  pool # NoPool =>
        pairs = {q \in live \X live :
                   q[1].side = "Buy" /\ head(q[1], q[2]) /\ fits(q[1], q[2])}

\* The funding the service picks is accepted by the contract, no shorter list
\* would be, and it finds one whenever the trader owns enough.
FundingCovers ==
  \A p \in Parties, t \in OrderTerms :
    LET own == {h \in holdings : /\ h.owner = p
                                 /\ h.instrument = FundingInstrument(Market, t.side)}
        worst == Required(t.side, t.quantity, t.limitPrice)
        picks == SelectFunding(own, DecRequiredFunding(t.side, t.quantity,
                                                       t.limitPrice))
    IN  /\ picks = {} => Value(own) < worst
        /\ \A list \in picks :
             /\ IsInjective(list) /\ Range(list) \subseteq own
             /\ Total(list) >= worst
             /\ \A S \in SUBSET own :
                  Cardinality(S) < Len(list) => Value(S) < worst

=============================================================================
