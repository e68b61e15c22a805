------------------------------ MODULE DarkPool ------------------------------
(***************************************************************************)
(* The on-ledger dark pool (contracts/daml/dark-pool): the venue's pool    *)
(* anchor, the traders' resting orders and the venue's atomic match, over  *)
(* the registry-token contracts that fund and settle it.                   *)
(*                                                                         *)
(* Each action is one choice exercised by one submission, so one ledger    *)
(* transaction.  DarkPool_Match is therefore a single step although it     *)
(* exercises two Order_Fills, two AllocationFactory_Allocates and the      *)
(* FillAuthority chain; their guards are conjuncts of its guard and their  *)
(* effects add up.  `history' marks what is not on the ledger.             *)
(***************************************************************************)
EXTENDS RegistryToken, FiniteSets

CONSTANTS
  Market,       \* what a pool and its orders agree on: venue and poolId
                \* (together its name), base and quote instrument
  Markets,      \* the markets an order may name when it is created directly
  Floors,       \* the minFillFloors the venue gives its pool
  OrderTerms,   \* the terms a trader may place an order with
  DirectTerms,  \* the terms of orders created without the pool
  MaxPlaced,    \* bound: orders ever placed or created
  LonePrices    \* prices at which the venue fills an order outside a match

VARIABLES
  pool,         \* the active DarkPool contract, or NoPool
  orders,       \* the active Order contracts
  chain         \* history: what became of the order first placed with this
                \* id and of its remainders, added up

poolVars == <<pool, orders, chain>>
vars == <<holdings, allocs, nextId, minted, now, pool, orders, chain>>

NoPool == [market |-> "none"]
NoExpiry == -1            \* expiresAt = None

PosNat == Nat \ {0}

Terms == [side : Side, quantity : PosNat, limitPrice : PosNat,
          minFill : PosNat, expiresAt : Nat \cup {NoExpiry}]

Order == [id : Ids, trader : Parties, market : Markets, side : Side,
          quantity : PosNat, limitPrice : PosNat, minFill : PosNat,
          expiresAt : Nat \cup {NoExpiry}, holdings : Seq(Holding),
          origin : Ids,        \* history: the order this is a remainder of
          placed : BOOLEAN]    \* history: through DarkPool_PlaceOrder

Chain == [side : Side, limit : Nat, quantity : Nat, required : Nat,
          sent : Nat,          \* by the trader, escrowed or settled
          filled : Nat,        \* base quantity of all fills
          settled : Nat,       \* base quantity of the matched fills
          got : Nat,           \* received by the trader in matches
          matches : Nat]

EmptyChain == [side |-> "Buy", limit |-> 0, quantity |-> 0, required |-> 0,
               sent |-> 0, filled |-> 0, settled |-> 0, got |-> 0,
               matches |-> 0]

ASSUME DarkPoolAssumption ==
  /\ Market \in Markets
  /\ \A m \in Markets : /\ m.base \in Instruments
                        /\ m.quote \in Instruments
                        /\ m.base # m.quote
  /\ Floors \subseteq PosNat
  /\ MaxPlaced \in Nat
  /\ \A t \in OrderTerms \cup DirectTerms : t \in Terms /\ t.minFill <= t.quantity
  /\ LonePrices \subseteq PosNat

-----------------------------------------------------------------------------
\* Orders

LegOf(side) == IF side = "Buy" THEN "quote" ELSE "base"

FundingInstrument(market, side) ==
  IF side = "Buy" THEN market.quote ELSE market.base

RequiredFunding(o) == Required(o.side, o.quantity, o.limitPrice)

NewOrder(trader, market, t, declared, placed) ==
  [id |-> nextId, trader |-> trader, market |-> market, side |-> t.side,
   quantity |-> t.quantity, limitPrice |-> t.limitPrice,
   minFill |-> t.minFill, expiresAt |-> t.expiresAt, holdings |-> declared,
   origin |-> nextId, placed |-> placed]

NewChain(t) ==
  [EmptyChain EXCEPT !.side = t.side, !.limit = t.limitPrice,
                     !.quantity = t.quantity,
                     !.required = Required(t.side, t.quantity, t.limitPrice)]

Rest(trader, market, t, declared, placed) ==
  /\ nextId <= MaxId
  /\ Cardinality({i \in Ids : chain[i] # EmptyChain}) < MaxPlaced
  /\ orders' = orders \cup {NewOrder(trader, market, t, declared, placed)}
  /\ chain' = [chain EXCEPT ![nextId] = NewChain(t)]
  /\ nextId' = nextId + 1
  /\ UNCHANGED <<holdings, allocs, minted, now, pool>>

\* Mutant: the instrument is not checked.
PlaceOrderAnyInstrument(trader, t, declared) ==
  /\ pool # NoPool
  /\ t.minFill >= pool.minFillFloor
  /\ \A i \in DOMAIN declared : declared[i] \in holdings /\ declared[i].owner = trader
  /\ Total(declared) >= Required(t.side, t.quantity, t.limitPrice)
  /\ Rest(trader, pool.market, t, declared, TRUE)

\* The declared list is summed as given: a holding listed twice passes.
DarkPool_PlaceOrder(trader, t, declared) ==
  /\ pool # NoPool
  /\ t.minFill >= pool.minFillFloor
  /\ \A i \in DOMAIN declared :
       /\ declared[i] \in holdings
       /\ declared[i].owner = trader
       /\ declared[i].instrument = FundingInstrument(pool.market, t.side)
  /\ Total(declared) >= Required(t.side, t.quantity, t.limitPrice)
  /\ Rest(trader, pool.market, t, declared, TRUE)

\* The trader is the only signatory of an Order, so it may create one without
\* the pool, with any market and any holdings in it.
CreateOrder(trader, market, t, declared) ==
  Rest(trader, market, t, declared, FALSE)

\* Order_Cancel by the trader, Order_Reject by the venue: at any time.
ArchiveOrder(o) ==
  /\ orders' = orders \ {o}
  /\ UNCHANGED <<holdings, allocs, nextId, minted, now, pool, chain>>

-----------------------------------------------------------------------------
\* Fills

Expired(o) == o.expiresAt # NoExpiry /\ now >= o.expiresAt

\* What Order_Fill and the allocation it exercises check.  The counterparty is
\* another party and the settlement's executor is the venue.
CanFill(o, fillQty, execPrice, settleBefore) ==
  /\ ~Expired(o)
  /\ o.minFill <= fillQty /\ fillQty <= o.quantity
  /\ PriceWithinLimit(o.side, execPrice, o.limitPrice)
  /\ execPrice > 0
  /\ CanAllocate(o.holdings, FundingInstrument(o.market, o.side), o.trader,
                 SentAmount(o.side, fillQty, execPrice), settleBefore)

\* Mutant: the change left if the fill had been at the limit.
FillChangeAtLimit(o, fillQty, execPrice, id) ==
  Change(o.holdings, FundingInstrument(o.market, o.side), o.trader,
         SentAmount(o.side, fillQty, o.limitPrice), id)

\* The change of spending the whole declared list.
FillChange(o, fillQty, execPrice, id) ==
  Change(o.holdings, FundingInstrument(o.market, o.side), o.trader,
         SentAmount(o.side, fillQty, execPrice), id)

\* Mutants: the remainder keeps the quantity; it keeps the declared holdings.
RemainderWhole(o, fillQty, change, id) ==
  IF RemainderQuantity(o.quantity, fillQty, o.minFill) = 0 THEN {}
  ELSE {[o EXCEPT !.id = id, !.holdings = change]}

RemainderDeclares(o, fillQty, change, id) ==
  LET rest == RemainderQuantity(o.quantity, fillQty, o.minFill)
  IN  IF rest = 0 THEN {} ELSE {[o EXCEPT !.id = id, !.quantity = rest]}

\* The order re-created for the tail, funded by the change alone; or no order.
Remainder(o, fillQty, change, id) ==
  LET rest == RemainderQuantity(o.quantity, fillQty, o.minFill)
  IN  IF rest = 0 THEN {}
      ELSE {[o EXCEPT !.id = id, !.quantity = rest, !.holdings = change]}

\* Order_Fill exercised by the venue on its own: the leg stays escrowed, with a
\* FillAuthority for it, until it is settled, cancelled or withdrawn (Recover).
Order_Fill(o, fillQty, execPrice, counterparty, settleBefore) ==
  /\ nextId + 1 <= MaxId
  /\ counterparty # o.trader
  /\ CanFill(o, fillQty, execPrice, settleBefore)
  /\ LET sent == SentAmount(o.side, fillQty, execPrice)
         change == FillChange(o, fillQty, execPrice, nextId)
     IN  /\ holdings' = (holdings \ Range(o.holdings)) \cup Range(change)
         /\ allocs' = allocs \cup
              {[id |-> nextId, sender |-> o.trader, receiver |-> counterparty,
                instrument |-> FundingInstrument(o.market, o.side),
                amount |-> sent, leg |-> LegOf(o.side),
                settleBefore |-> settleBefore]}
         /\ orders' = (orders \ {o})
                        \cup Remainder(o, fillQty, change, nextId + 1)
         /\ chain' = [chain EXCEPT ![o.origin].sent = @ + sent,
                                   ![o.origin].filled = @ + fillQty]
  /\ nextId' = nextId + 2
  /\ UNCHANGED <<minted, now, pool>>

-----------------------------------------------------------------------------
\* Matches

MatchPrice(b, s) == MidpointPrice(b.limitPrice, s.limitPrice)
MatchQty(b, s) == FillQuantity(b.quantity, s.quantity)

\* Mutant: the fill may be below an order's minFill.
CanPairAnyFill(b, s) ==
  /\ pool # NoPool
  /\ b.market = pool.market /\ s.market = pool.market
  /\ b.side = "Buy" /\ s.side = "Sell"
  /\ b.trader # s.trader
  /\ b.minFill >= pool.minFillFloor /\ s.minFill >= pool.minFillFloor
  /\ Crosses(b.limitPrice, s.limitPrice)

\* The pool's own checks.
CanPair(b, s) ==
  /\ pool # NoPool
  /\ b.market = pool.market /\ s.market = pool.market
  /\ b.side = "Buy" /\ s.side = "Sell"
  /\ b.trader # s.trader
  /\ b.minFill >= pool.minFillFloor /\ s.minFill >= pool.minFillFloor
  /\ Crosses(b.limitPrice, s.limitPrice)
  /\ MatchQty(b, s) >= b.minFill /\ MatchQty(b, s) >= s.minFill

\* Those, and everything the two fills and the settlement check: the venue
\* gives deadlines that are still ahead, and the two legs mirror each other.
CanMatch(b, s) ==
  /\ CanPair(b, s)
  /\ CanFill(b, MatchQty(b, s), MatchPrice(b, s), now + 1)
  /\ CanFill(s, MatchQty(b, s), MatchPrice(b, s), now + 1)

AddMatch(c, sent, got, qty) ==
  [c EXCEPT !.sent = @ + sent, !.got = @ + got, !.filled = @ + qty,
            !.settled = @ + qty, !.matches = @ + 1]

DarkPool_Match(b, s) ==
  /\ nextId + 3 <= MaxId
  /\ CanMatch(b, s)
  /\ LET qty == MatchQty(b, s)
         price == MatchPrice(b, s)
         paid == QuoteAmount(qty, price)
         bChange == FillChange(b, qty, price, nextId)
         sChange == FillChange(s, qty, price, nextId + 1)
     IN  /\ holdings' =
              (holdings \ (Range(b.holdings) \cup Range(s.holdings)))
                \cup Range(bChange) \cup Range(sChange)
                \cup {NewHolding(nextId + 2, s.trader, pool.market.quote, paid),
                      NewHolding(nextId + 3, b.trader, pool.market.base, qty)}
         /\ orders' = (orders \ {b, s})
                        \cup Remainder(b, qty, bChange, nextId)
                        \cup Remainder(s, qty, sChange, nextId + 1)
         /\ chain' =
              [chain EXCEPT ![b.origin] = AddMatch(@, paid, qty, qty),
                            ![s.origin] = AddMatch(@, qty, paid, qty)]
  /\ nextId' = nextId + 4
  /\ UNCHANGED <<allocs, minted, now, pool>>

\* The two legs mirror each other.
Mirrored(a, b) ==
  /\ b.sender = a.receiver /\ b.receiver = a.sender
  /\ a.sender # b.sender /\ a.leg # b.leg

\* Mutant: any two fills of one settlement.
SettleAnyTwo(a, b) ==
  /\ nextId + 1 <= MaxId
  /\ a # b /\ a.settleBefore = b.settleBefore /\ now < a.settleBefore
  /\ allocs' = allocs \ {a, b}
  /\ holdings' = holdings \cup
       {NewHolding(nextId, b.receiver, b.instrument, b.amount),
        NewHolding(nextId + 1, a.receiver, a.instrument, a.amount)}
  /\ nextId' = nextId + 2
  /\ UNCHANGED <<minted, now, poolVars>>

\* FillAuthority_Settle of one lone fill and _SettleWith of another, which the
\* venue filled for the same settlement, of whatever name.  Neither quantities
\* nor prices are compared: outside a match only each order's own limit binds.
FillAuthority_Settle(a, b) ==
  /\ nextId + 1 <= MaxId
  /\ Mirrored(a, b) /\ a.settleBefore = b.settleBefore /\ now < a.settleBefore
  /\ allocs' = allocs \ {a, b}
  /\ holdings' = holdings \cup
       {NewHolding(nextId, b.receiver, b.instrument, b.amount),
        NewHolding(nextId + 1, a.receiver, a.instrument, a.amount)}
  /\ nextId' = nextId + 2
  /\ UNCHANGED <<minted, now, poolVars>>

-----------------------------------------------------------------------------
\* The pool: archival pauses it, re-creation resumes it, maybe with another
\* floor; resting orders are untouched.

ArchivePool ==
  /\ pool # NoPool
  /\ pool' = NoPool
  /\ UNCHANGED <<registryVars, orders, chain>>

CreatePool(floor) ==
  /\ pool = NoPool
  /\ pool' = [market |-> Market, minFillFloor |-> floor]
  /\ UNCHANGED <<registryVars, orders, chain>>

Init ==
  /\ RegistryInit
  /\ pool \in {[market |-> Market, minFillFloor |-> f] : f \in Floors}
  /\ orders = {}
  /\ chain = [i \in Ids |-> EmptyChain]

Own(p) == {h \in holdings : h.owner = p}

\* What the traders do with their holdings and their orders, and time.
TraderStep ==
  \/ HoldingStep /\ UNCHANGED poolVars
  \/ Tick /\ UNCHANGED poolVars
  \/ \E p \in Parties, t \in OrderTerms :
       \E declared \in InputLists(Own(p)) : DarkPool_PlaceOrder(p, t, declared)
  \/ \E p \in Parties, m \in Markets, t \in DirectTerms :
       \E declared \in InputLists(holdings) : CreateOrder(p, m, t, declared)
  \/ \E o \in orders : ArchiveOrder(o)

PoolStep ==
  \/ ArchivePool
  \/ \E f \in Floors : CreatePool(f)

Next ==
  \/ TraderStep
  \/ PoolStep
  \/ \E o \in orders, price \in LonePrices, cp \in Parties :
       \E qty \in o.minFill .. o.quantity : Order_Fill(o, qty, price, cp, now + 1)
  \/ \E a, b \in allocs : FillAuthority_Settle(a, b)
  \/ \E b, s \in orders : DarkPool_Match(b, s)

Spec == Init /\ [][Next]_vars

-----------------------------------------------------------------------------
\* Properties

TypeOK ==
  /\ RegistryTypeOK
  /\ \/ pool = NoPool
     \/ pool \in [market : {Market}, minFillFloor : PosNat]
  /\ orders \subseteq Order
  /\ chain \in [Ids -> Chain]

\* "The worst-case bound validated at placement carries through every partial
\* fill, floor rounding included": an order placed through the pool, and every
\* remainder of it, declares holdings that add up to all it can still send,
\* whatever midpoints its earlier fills executed at.
FundedThroughout ==
  \A o \in orders : o.placed => Total(o.holdings) >= RequiredFunding(o)

\* However often an order is split, filled and re-created, at whatever prices,
\* its trader sends in total at most the worst case of the order as first
\* signed, and fills at most its quantity, whether the fills were matches or
\* were exercised by the venue on their own.
NeverOverspent ==
  \A i \in Ids : /\ chain[i].sent <= chain[i].required
                 /\ chain[i].filled <= chain[i].quantity

\* Over all its matches a buyer gets exactly the base it was filled and pays no
\* more than its limit for it; a seller sends exactly the base it was filled
\* and gets its limit for it, short of at most one tick a match (the floor of
\* quoteAmount, the only rounding there is).
WithinLimit ==
  \A i \in Ids :
    LET c == chain[i]
    IN  IF c.side = "Buy"
        THEN c.got = c.settled /\ c.sent * Scale <= c.limit * c.filled
        ELSE /\ c.sent = c.filled
             /\ c.limit * c.settled <= (c.got + c.matches) * Scale

\* Its declared holdings are all still there, and each is listed once.
Intact(o) == Range(o.holdings) \subseteq holdings /\ IsInjective(o.holdings)

\* A match of two orders placed through the pool that the pool can pair fails
\* only for a reason a trader or the clock gave: a declared holding was spent
\* or listed twice, an order expired, or the quote to pay rounds to nothing.
\* No sequence of partial fills leaves an order that crosses and cannot settle.
Settleable ==
  \A b, s \in orders :
    /\ b.placed /\ s.placed
    /\ CanPair(b, s)
    /\ ~Expired(b) /\ ~Expired(s)
    /\ Intact(b) /\ Intact(s)
    /\ QuoteAmount(MatchQty(b, s), MatchPrice(b, s)) > 0
    => CanMatch(b, s)

\* The inductive strengthening: a pool-placed order declares its own trader's
\* holdings of the instrument it sends; an order and its remainders are never
\* active together; and what an order can still send and fill fits in what
\* its chain has left.
DeclaredOwn ==
  \A o \in orders : o.placed =>
    \A i \in DOMAIN o.holdings :
      /\ o.holdings[i].owner = o.trader
      /\ o.holdings[i].instrument = FundingInstrument(o.market, o.side)

OneActive ==
  /\ \A o \in orders : o.origin < nextId
  /\ \A o, p \in orders : o.origin = p.origin => o = p

Budget ==
  \A o \in orders :
    LET c == chain[o.origin]
    IN  /\ c.side = o.side /\ c.limit = o.limitPrice
        /\ c.sent + RequiredFunding(o) <= c.required
        /\ c.filled + o.quantity <= c.quantity

IInv == /\ TypeOK /\ DeclaredOwn /\ OneActive /\ Budget
        /\ FundedThroughout /\ NeverOverspent /\ WithinLimit

\* In a step that consumes orders, a holding is spent only when an order of its
\* owner's, consumed in that step, declared it: a fill never reaches for other
\* holdings of the trader, nor for those of a later order or a third party.
OnlyDeclaredSpent ==
  [][orders' # orders =>
       \A h \in holdings \ holdings' :
         \E o \in orders \ orders' :
           o.trader = h.owner /\ h \in Range(o.holdings)]_vars

\* An order that appears with an earlier origin replaces one active order of
\* that origin, on the trader's signed terms and for what the fill left, at
\* least minFill, and it declares only holdings that this step created: two
\* remainders never claim the same change, nor change spent elsewhere.
RemainderInherits ==
  [][\A r \in orders' \ orders :
       r.origin # r.id =>
         \E o \in orders \ orders' :
           /\ r = [o EXCEPT !.id = r.id, !.quantity = r.quantity,
                            !.holdings = r.holdings]
           /\ r.minFill <= r.quantity
           /\ r.quantity + chain'[o.origin].filled
                = o.quantity + chain[o.origin].filled
           /\ Range(r.holdings) \subseteq holdings' \ holdings]_vars

\* What an order of a trader escrowed in a fill outside a match leaves the escrow
\* back to its trader, or to the counterparty when in the same step the trader
\* is paid the whole of the counterparty's mirrored leg: never one leg alone,
\* and never two legs that do not answer each other.
EscrowReturnsOrSettles ==
  [][\A a \in allocs \ allocs' :
       LET paid(p, x) == \E h \in holdings' :
             /\ h.id >= nextId /\ h.owner = p
             /\ h.instrument = x.instrument /\ h.amount = x.amount
       IN  \/ paid(a.sender, a)
           \/ /\ paid(a.receiver, a)
              /\ \E b \in allocs \ allocs' : Mirrored(a, b) /\ paid(a.sender, b)]_vars

\* Delivery against payment: seen as balances (holdings and escrow together)
\* and intents (an order and its remainders are one), every transaction is a
\* payment by the owner, an intent that comes or goes, or the settlement of two
\* crossing intents, both legs at once and within both limits.
Ideal ==
  INSTANCE IdealMarket WITH
    balance <- [p \in Parties |-> [i \in Instruments |-> Wealth(p, i)]],
    intents <- {[id |-> o.origin, trader |-> o.trader, market |-> o.market,
                 side |-> o.side, limit |-> o.limitPrice,
                 quantity |-> o.quantity] : o \in orders}

DeliveryVersusPayment == Ideal!Spec

=============================================================================
