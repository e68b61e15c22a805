----------------------------- MODULE MockLedger -----------------------------
(***************************************************************************)
(* The service on its in-memory ledger (mockLedger.ts, DARK_POOL_MOCK=1):  *)
(* the requests that write to it (http.ts) and the matching pass           *)
(* (scheduler.ts, settlement.ts).  Its promises are settled when they are  *)
(* made, so a request or a whole pass runs before the next one begins, and *)
(* each reads the projection it has just refreshed.                        *)
(*                                                                         *)
(* The store's active contracts are `holdings' and `orders', nextId is its *)
(* id and offset counter.  It interprets the contracts' commands but none  *)
(* of their checks, and it undoes nothing when a command throws half-way.  *)
(***************************************************************************)
EXTENDS Matcher

CONSTANT MaxMinted     \* bound: what the faucet gives of an instrument

VARIABLES
  trades,       \* projection.ts: the recorded trades
  faucet        \* history: what each party was minted

mockLedgerVars == <<vars, trades, faucet>>

\* createMockLedger seeds the pool and the factory, and no holdings.
ASSUME MockLedgerAssumption == Genesis = << >>

MockLedgerInit ==
  /\ Init
  /\ trades = {}
  /\ faucet = [p \in Parties |-> [i \in Instruments |-> 0]]

-----------------------------------------------------------------------------
\* http.ts

PostFaucet(p, i, amount) ==
  /\ minted[i] + amount <= MaxMinted
  /\ Mint(p, i, amount)
  /\ faucet' = [faucet EXCEPT ![p][i] = @ + amount]
  /\ UNCHANGED <<poolVars, trades>>

HoldingsOf(p, instrument) == {h \in holdings : h.owner = p /\ h.instrument = instrument}

\* The ledger's part of a placement: it checks nothing.
MockPlaceOrder(p, t, declared) ==
  /\ orders' = orders \cup {NewOrder(p, Market, t, declared, TRUE)}
  /\ nextId' = nextId + 1

\* Funded by the largest holdings, those declared before included; refused
\* when they fall short.
PostOrders(p, t) ==
  /\ nextId <= MaxId
  /\ \E declared \in SelectFunding(HoldingsOf(p, FundingInstrument(Market, t.side)),
                                   DecRequiredFunding(t.side, t.quantity, t.limitPrice)) :
       MockPlaceOrder(p, t, declared)
  /\ UNCHANGED <<holdings, allocs, minted, now, pool, chain, trades, faucet>>

DeleteOrder(o) == ArchiveOrder(o) /\ UNCHANGED <<trades, faucet>>

-----------------------------------------------------------------------------
\* The pass, on a store m = [holdings, orders, id, trades]

\* Mutant: no change.
MovedShort(m, instrument, from, to, amount) ==
  LET sources == {h \in m.holdings : h.owner = from /\ h.instrument = instrument}
      change == Value(sources) - amount
  IN  {[m EXCEPT !.holdings = (@ \ sources) \cup {NewHolding(m.id + 1, to, instrument, amount)},
                 !.id = @ + 2] : covered \in {c \in {TRUE} : change >= 0}}

\* transfer(): out of all the sender holds, declared or not; the result, in a
\* set, or nothing when it throws.
Moved(m, instrument, from, to, amount) ==
  LET sources == {h \in m.holdings : h.owner = from /\ h.instrument = instrument}
      change == Value(sources) - amount
  IN  {[m EXCEPT
          !.holdings = (@ \ sources)
             \cup {h \in {NewHolding(m.id, from, instrument, change)} : change > 0}
             \cup {NewHolding(m.id + 1, to, instrument, amount)},
          !.id = @ + 2] : covered \in {c \in {TRUE} : change >= 0}}

Archived(m, plan) == [m EXCEPT !.orders = @ \ {plan.buy, plan.sell}]

QuoteOwed(plan) ==
  DecQuoteAmount(plan.fillQty, DecMidpointPrice(plan.buy.limitPrice, plan.sell.limitPrice))

\* Mutant: recorded when it is submitted.
SettleRecordedEarly(m, plan) ==
  LET trade == [buy |-> plan.buy, sell |-> plan.sell, qty |-> plan.fillQty,
                paid |-> QuoteOwed(plan)]
      based == Moved([Archived(m, plan) EXCEPT !.trades = @ \cup {trade}],
                     Market.base, plan.sell.trader, plan.buy.trader, plan.fillQty)
      paid == UNION {Moved(n, Market.quote, plan.buy.trader, plan.sell.trader,
                           QuoteOwed(plan)) : n \in based}
  IN  IF paid # {} THEN CHOOSE n \in paid : TRUE
      ELSE IF based # {} THEN CHOOSE n \in based : TRUE ELSE Archived(m, plan)

\* settle() of one plan: both orders are archived, the base moves, the quote
\* moves, the trade is recorded; what throws leaves what was done before it.
Settle(m, plan) ==
  LET based == Moved(Archived(m, plan), Market.base, plan.sell.trader, plan.buy.trader,
                     plan.fillQty)
      paid == UNION {Moved(n, Market.quote, plan.buy.trader, plan.sell.trader,
                           QuoteOwed(plan)) : n \in based}
      trade == [buy |-> plan.buy, sell |-> plan.sell, qty |-> plan.fillQty,
                paid |-> QuoteOwed(plan)]
  IN  IF paid # {} THEN [(CHOOSE n \in paid : TRUE) EXCEPT !.trades = @ \cup {trade}]
      ELSE IF based # {} THEN CHOOSE n \in based : TRUE ELSE Archived(m, plan)

\* Every plan in turn, then the sweep.  (An archived order is never matched, so
\* the cache the sweep reads, that of the start, has all the expired ones.)
MockPass ==
  LET plans == FindMatches(pool, orders, now)
      store == [holdings |-> holdings, orders |-> orders, id |-> nextId, trades |-> trades]
      after[n \in 0 .. Len(plans)] ==
        IF n = 0 THEN store ELSE Settle(after[n - 1], plans[n])
      done == after[Len(plans)]
  IN  /\ holdings' = done.holdings /\ nextId' = done.id /\ trades' = done.trades
      /\ orders' = {o \in done.orders : ~Expired(o)}
      /\ UNCHANGED <<allocs, minted, now, pool, chain, faucet>>

MockLedgerNext ==
  \/ \E p \in Parties, i \in Instruments, n \in Amounts : PostFaucet(p, i, n)
  \/ \E p \in Parties, t \in OrderTerms : PostOrders(p, t)
  \/ \E o \in orders : DeleteOrder(o)
  \/ MockPass
  \/ Tick /\ UNCHANGED <<poolVars, trades, faucet>>

-----------------------------------------------------------------------------
\* Properties

\* Whatever is settled, and wherever a settlement throws, nobody is paid or
\* pays except in a recorded trade: what a party holds of the quote is what
\* the faucet gave it and what its trades brought and cost.  (Of the base it
\* is not so: a settlement that throws at the quote leg has moved the base.)
PaidAsRecorded ==
  LET brought(p) == {[id |-> t.buy.id, amount |-> t.paid] : t \in {u \in trades : u.sell.trader = p}}
      cost(p) == {[id |-> t.buy.id, amount |-> t.paid] : t \in {u \in trades : u.buy.trader = p}}
  IN  \A p \in Parties :
        Wealth(p, Market.quote) + Value(cost(p))
          = faucet[p][Market.quote] + Value(brought(p))

=============================================================================
