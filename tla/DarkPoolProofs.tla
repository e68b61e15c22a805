--------------------------- MODULE DarkPoolProofs ---------------------------
(***************************************************************************)
(* The dark pool's safety theorems.  IInv (in DarkPool) is inductive; each *)
(* theorem at the end reads one of its conjuncts off, or a consequence.    *)
(***************************************************************************)
EXTENDS DarkPool, RegistryTokenProofs

-----------------------------------------------------------------------------
\* Spending

\* The change of a successful spend is a list of at most one holding, the
\* sender's and of the instrument spent, worth what the inputs exceed the
\* amount by.
LEMMA ChangeFacts ==
  ASSUME NEW inputs \in Seq(Holding), NEW instrument \in Instruments,
         NEW sender \in Parties, NEW amount \in Nat, NEW id \in Ids,
         Total(inputs) >= amount
  PROVE  LET change == Change(inputs, instrument, sender, amount, id)
         IN  /\ change \in Seq(Holding)
             /\ Range(change) \subseteq Holding
             /\ Range(change) \subseteq
                  {h \in Holding : /\ h.id = id /\ h.owner = sender
                                   /\ h.instrument = instrument}
             /\ Total(change) = Total(inputs) - amount
             /\ \A i \in DOMAIN change : /\ change[i].owner = sender
                                         /\ change[i].instrument = instrument
<1>1. Total(inputs) \in Nat
  BY TotalType
<1>2. CASE Total(inputs) > amount
  <2> DEFINE rest == Total(inputs) - amount
             h == NewHolding(id, sender, instrument, rest)
  <2>1. rest \in Nat \ {0}
    BY <1>1, <1>2, SMT
  <2>2. /\ h \in Holding /\ h.id = id /\ h.owner = sender
        /\ h.instrument = instrument /\ h.amount = rest
    BY <2>1 DEF NewHolding, Holding
  <2>3. Change(inputs, instrument, sender, amount, id) = <<h>>
    BY <1>2 DEF Change
  <2>4. <<h>> \in Seq(Holding) /\ Range(<<h>>) = {h}
    BY <2>2 DEF Range
  <2>5. Total(<<h>>) = rest
    BY <2>2, TotalOne
  <2>6. \A i \in DOMAIN <<h>> : <<h>>[i] = h
    OBVIOUS
  <2> HIDE DEF h, rest
  <2>7. Total(<<h>>) = Total(inputs) - amount
    BY <2>5 DEF rest
  <2> QED
    BY <2>2, <2>3, <2>4, <2>6, <2>7
<1>3. CASE Total(inputs) = amount
  <2>1. Change(inputs, instrument, sender, amount, id) = << >>
    BY <1>1, <1>3 DEF Change
  <2>2. << >> \in Seq(Holding) /\ Range(<< >>) = {} /\ DOMAIN << >> = {}
    BY DEF Range
  <2> QED
    BY <1>1, <1>3, <2>1, <2>2, TotalEmpty
<1> QED
  BY <1>1, <1>2, <1>3, SMT

-----------------------------------------------------------------------------
\* Fills

LEMMA MarketFacts ==
  ASSUME NEW o \in Order
  PROVE  FundingInstrument(o.market, o.side) \in Instruments
  BY DarkPoolAssumption DEF Order, FundingInstrument

LEMMA RequiredFundingType ==
  ASSUME NEW o \in Order
  PROVE  RequiredFunding(o) \in Nat
<1>1. o.side \in Side /\ o.quantity \in Nat /\ o.limitPrice \in Nat
  BY DEF Order, PosNat
<1>2. QuoteAmount(o.quantity, o.limitPrice) \in Nat
  BY <1>1, QuoteType
<1> QED
  BY <1>1, <1>2 DEF RequiredFunding, Required, BuyFundingTarget, Side

\* A fill the order accepts sends a positive amount, and that plus what the
\* unfilled rest can still need is within what the order could need before.
LEMMA FillSends ==
  ASSUME NEW o \in Order, NEW f \in Nat, NEW price \in Nat, NEW d,
         CanFill(o, f, price, d)
  PROVE  LET sent == SentAmount(o.side, f, price)
         IN  /\ sent \in PosNat
             /\ f \in PosNat /\ f <= o.quantity /\ o.minFill <= f
             /\ PriceWithinLimit(o.side, price, o.limitPrice)
             /\ o.quantity - f \in Nat
             /\ Required(o.side, o.quantity - f, o.limitPrice) \in Nat
             /\ sent + Required(o.side, o.quantity - f, o.limitPrice)
                  <= RequiredFunding(o)
             /\ Total(o.holdings) >= sent
             /\ Range(o.holdings) \subseteq holdings
<1>1. /\ o.side \in Side /\ o.quantity \in PosNat /\ o.limitPrice \in PosNat
      /\ o.minFill \in PosNat
  BY DEF Order
<1>2. /\ f <= o.quantity /\ o.minFill <= f /\ f \in PosNat
      /\ PriceWithinLimit(o.side, price, o.limitPrice)
      /\ SentAmount(o.side, f, price) > 0
      /\ Total(o.holdings) >= SentAmount(o.side, f, price)
      /\ \A i \in DOMAIN o.holdings : o.holdings[i] \in holdings
  BY <1>1, SMT DEF CanFill, CanAllocate, CanSpend, PosNat
<1>3. /\ SentAmount(o.side, f, price) \in Nat
      /\ Required(o.side, o.quantity - f, o.limitPrice) \in Nat
      /\ SentAmount(o.side, f, price)
           + Required(o.side, o.quantity - f, o.limitPrice)
             <= Required(o.side, o.quantity, o.limitPrice)
  BY <1>1, <1>2, RequiredCarries DEF PosNat
<1>4. o.quantity - f \in Nat
  BY <1>1, <1>2, SMT DEF PosNat
<1> QED
  BY <1>2, <1>3, <1>4 DEF RequiredFunding, PosNat, Range

\* The change of a fill is a list of holdings.
LEMMA FillChangeType ==
  ASSUME NEW o \in Order, NEW f \in Nat, NEW price \in Nat, NEW d,
         CanFill(o, f, price, d), NEW id \in Ids
  PROVE  Range(FillChange(o, f, price, id)) \subseteq Holding
<1>1. o.trader \in Parties /\ o.holdings \in Seq(Holding)
  BY DEF Order
<1>2. SentAmount(o.side, f, price) \in Nat
  BY FillSends DEF PosNat
<1>3. Total(o.holdings) >= SentAmount(o.side, f, price)
  BY FillSends
<1> QED
  BY <1>1, <1>2, <1>3, ChangeFacts, MarketFacts DEF FillChange

\* A remainder differs from its order in three fields.
LEMMA RemainderShape ==
  ASSUME NEW o \in Order, NEW f \in Nat, f <= o.quantity, NEW change, NEW id,
         NEW r \in Remainder(o, f, change, id)
  PROVE  r = [o EXCEPT !.id = id, !.quantity = o.quantity - f,
                       !.holdings = change]
<1>1. o.minFill \in PosNat /\ o.quantity \in PosNat
  BY DEF Order
<1>2. o.quantity - f \in Nat /\ o.quantity - f >= o.minFill
  BY <1>1, SMT DEF Remainder, RemainderQuantity, PosNat
<1> QED
  BY <1>2 DEF Remainder, RemainderQuantity

\* What a fill leaves resting is the same order for the rest, declaring the
\* change; the change covers all the rest can need if the declared total
\* covered all the order could.
LEMMA RemainderFacts ==
  ASSUME NEW o \in Order, NEW f \in Nat, NEW price \in Nat, NEW d,
         CanFill(o, f, price, d), NEW id \in Ids, NEW id2 \in Ids,
         NEW r \in Remainder(o, f, FillChange(o, f, price, id), id2)
  PROVE  LET change == FillChange(o, f, price, id)
         IN  /\ r \in Order
             /\ r.id = id2 /\ r.origin = o.origin /\ r.side = o.side
             /\ r.limitPrice = o.limitPrice /\ r.placed = o.placed
             /\ r.trader = o.trader /\ r.market = o.market
             /\ r.holdings = change
             /\ r.quantity = o.quantity - f /\ r.minFill = o.minFill
             /\ r.minFill <= r.quantity
             /\ RequiredFunding(r) = Required(o.side, o.quantity - f, o.limitPrice)
             /\ Total(r.holdings) = Total(o.holdings) - SentAmount(o.side, f, price)
             /\ \A i \in DOMAIN r.holdings :
                  /\ r.holdings[i].owner = o.trader
                  /\ r.holdings[i].instrument = FundingInstrument(o.market, o.side)
<1> DEFINE sent == SentAmount(o.side, f, price)
           change == FillChange(o, f, price, id)
           rest == o.quantity - f
<1>1. /\ sent \in PosNat /\ rest \in Nat /\ Total(o.holdings) >= sent
  BY FillSends
<1>2. /\ o.trader \in Parties /\ o.holdings \in Seq(Holding)
      /\ o.minFill \in PosNat
  BY DEF Order
<1>3. /\ change \in Seq(Holding)
      /\ Total(change) = Total(o.holdings) - sent
      /\ \A i \in DOMAIN change :
           /\ change[i].owner = o.trader
           /\ change[i].instrument = FundingInstrument(o.market, o.side)
  BY <1>1, <1>2, ChangeFacts, MarketFacts DEF FillChange, PosNat
<1>4. rest >= o.minFill /\ rest # 0
  BY <1>1, <1>2, SMT DEF Remainder, RemainderQuantity, PosNat
<1>5. r = [o EXCEPT !.id = id2, !.quantity = rest, !.holdings = change]
  BY <1>4 DEF Remainder, RemainderQuantity
<1>6. rest \in PosNat
  BY <1>1, <1>4 DEF PosNat
<1> HIDE DEF rest, change, sent
<1>7. /\ r \in Order
      /\ r.id = id2 /\ r.origin = o.origin /\ r.side = o.side
      /\ r.limitPrice = o.limitPrice /\ r.placed = o.placed
      /\ r.trader = o.trader /\ r.market = o.market
      /\ r.holdings = change
      /\ r.quantity = rest /\ r.minFill = o.minFill
  BY <1>3, <1>5, <1>6 DEF Order
<1>8. RequiredFunding(r) = Required(o.side, rest, o.limitPrice)
  BY <1>7 DEF RequiredFunding
<1> QED
  BY <1>3, <1>4, <1>5, <1>7, <1>8 DEF rest, change, sent

-----------------------------------------------------------------------------
\* The steps that leave orders and chains alone

LEMMA RegistryStepPreserves ==
  ASSUME IInv, RegistryTypeOK', nextId' >= nextId,
         UNCHANGED <<orders, chain>>,
         pool' = NoPool \/ pool' \in [market : {Market}, minFillFloor : PosNat]
  PROVE  IInv'
<1>1. TypeOK'
  BY DEF IInv, TypeOK
<1>2. OneActive'
  <2>1. nextId \in Nat /\ nextId' \in Nat
    BY DEF IInv, TypeOK, RegistryTypeOK
  <2>2. \A o \in orders : o.origin \in Nat /\ o.origin < nextId
    BY DEF IInv, TypeOK, OneActive, Order, Ids
  <2> QED
    BY <2>1, <2>2 DEF IInv, OneActive
<1>3. DeclaredOwn' /\ Budget' /\ FundedThroughout' /\ NeverOverspent' /\ WithinLimit'
  BY DEF IInv, DeclaredOwn, Budget, FundedThroughout, NeverOverspent, WithinLimit
<1> QED
  BY <1>1, <1>2, <1>3 DEF IInv

LEMMA HoldingStepPreserves ==
  ASSUME IInv, HoldingStep, UNCHANGED poolVars
  PROVE  IInv'
<1>1. RegistryTypeOK
  BY DEF IInv, TypeOK
<1>2. RegistryTypeOK' /\ nextId' >= nextId
  <2>1. CASE \E p \in Parties, i \in Instruments, amt \in Amounts : Mint(p, i, amt)
    <3>1. PICK p \in Parties, i \in Instruments, amt \in Amounts : Mint(p, i, amt)
      BY <2>1
    <3>2. amt \in Nat \ {0} /\ nextId \in Ids
      BY <1>1, <3>1, RegistryAssumption, SMT DEF Mint, RegistryTypeOK, Ids
    <3>3. NewHolding(nextId, p, i, amt) \in Holding
      BY <3>2 DEF NewHolding, Holding
    <3>4. minted[i] \in Nat /\ minted[i] + amt \in Nat
      BY <1>1, <3>2 DEF RegistryTypeOK
    <3>5. minted' \in [Instruments -> Nat]
      BY <1>1, <3>1, <3>4 DEF Mint, RegistryTypeOK
    <3>6. nextId' \in Nat \ {0} /\ nextId' >= nextId
      BY <1>1, <3>1, SMT DEF Mint, RegistryTypeOK
    <3> QED
      BY <1>1, <3>1, <3>3, <3>5, <3>6 DEF Mint, RegistryTypeOK
  <2>2. CASE \E p, q \in Parties, i \in Instruments, amt \in Amounts :
               \E inputs \in InputLists({h \in holdings : h.owner = p}) :
                 Transfer(p, inputs, i, q, amt)
    <3>0. PICK p \in Parties, q \in Parties, i \in Instruments, amt \in Amounts :
            \E inputs \in InputLists({h \in holdings : h.owner = p}) :
              Transfer(p, inputs, i, q, amt)
      BY <2>2
    <3>1. PICK inputs \in InputLists({h \in holdings : h.owner = p}) :
            Transfer(p, inputs, i, q, amt)
      BY <3>0
    <3>2. /\ amt \in Nat \ {0} /\ nextId \in Ids /\ nextId + 1 \in Ids
          /\ nextId' \in Nat \ {0} /\ nextId' >= nextId
      BY <1>1, <3>1, RegistryAssumption, SMT DEF Transfer, RegistryTypeOK, Ids
    <3>3. inputs \in Seq(Holding)
      BY <1>1, InputsAreHoldings DEF RegistryTypeOK
    <3>4. Range(Change(inputs, i, p, amt, nextId)) \subseteq Holding
      BY <3>1, <3>2, <3>3, ChangeFacts DEF Transfer, CanSpend
    <3>5. NewHolding(nextId + 1, q, i, amt) \in Holding
      BY <3>2 DEF NewHolding, Holding
    <3>6. holdings' \subseteq Holding
      BY <1>1, <3>1, <3>4, <3>5 DEF Transfer, RegistryTypeOK
    <3> QED
      BY <1>1, <3>1, <3>2, <3>6 DEF Transfer, RegistryTypeOK
  <2>3. CASE \E a \in allocs : Recover(a)
    <3>1. PICK a \in allocs : Recover(a)
      BY <2>3
    <3>2. a \in Allocation
      BY <1>1 DEF RegistryTypeOK
    <3>3. nextId \in Ids /\ nextId' \in Nat \ {0} /\ nextId' >= nextId
      BY <1>1, <3>1, SMT DEF Recover, RegistryTypeOK, Ids
    <3>4. NewHolding(nextId, a.sender, a.instrument, a.amount) \in Holding
      BY <3>2, <3>3 DEF NewHolding, Holding, Allocation
    <3> QED
      BY <1>1, <3>1, <3>3, <3>4 DEF Recover, RegistryTypeOK
  <2> QED
    BY <2>1, <2>2, <2>3 DEF HoldingStep
<1>3. pool' = NoPool \/ pool' \in [market : {Market}, minFillFloor : PosNat]
  BY DEF IInv, TypeOK, poolVars
<1> QED
  BY <1>2, <1>3, RegistryStepPreserves DEF poolVars

\* Two lone fills settled with each other.
LEMMA SettlePreserves ==
  ASSUME IInv, NEW a \in allocs, NEW b \in allocs, FillAuthority_Settle(a, b)
  PROVE  IInv'
<1>1. TypeOK /\ RegistryTypeOK
  BY DEF IInv, TypeOK
<1>2. a \in Allocation /\ b \in Allocation
  BY <1>1 DEF RegistryTypeOK
<1>3. /\ nextId \in Ids /\ nextId + 1 \in Ids
      /\ nextId' \in Nat \ {0} /\ nextId' >= nextId
  BY <1>1, RegistryAssumption, SMT DEF FillAuthority_Settle, RegistryTypeOK, Ids
<1>4. /\ NewHolding(nextId, b.receiver, b.instrument, b.amount) \in Holding
      /\ NewHolding(nextId + 1, a.receiver, a.instrument, a.amount) \in Holding
  BY <1>2, <1>3 DEF NewHolding, Holding, Allocation
<1>5. RegistryTypeOK'
  BY <1>1, <1>3, <1>4 DEF FillAuthority_Settle, RegistryTypeOK
<1> QED
  BY <1>1, <1>3, <1>5, RegistryStepPreserves DEF FillAuthority_Settle, poolVars, TypeOK

-----------------------------------------------------------------------------
\* New orders

LEMMA RestPreserves ==
  ASSUME IInv,
         NEW trader \in Parties, NEW market \in Markets, NEW t \in Terms,
         NEW declared \in Seq(Holding), NEW placed \in BOOLEAN,
         Rest(trader, market, t, declared, placed),
         placed =>
           /\ Total(declared) >= Required(t.side, t.quantity, t.limitPrice)
           /\ \A i \in DOMAIN declared :
                /\ declared[i].owner = trader
                /\ declared[i].instrument = FundingInstrument(market, t.side)
  PROVE  IInv'
<1> DEFINE o == NewOrder(trader, market, t, declared, placed)
           c == NewChain(t)
<1>1. TypeOK
  BY DEF IInv
<1>2. nextId \in Ids /\ nextId' = nextId + 1 /\ nextId' \in Nat \ {0}
  BY <1>1, SMT DEF Rest, TypeOK, RegistryTypeOK, Ids
<1>3. /\ t.side \in Side /\ t.quantity \in PosNat /\ t.limitPrice \in PosNat
      /\ t.minFill \in PosNat /\ t.expiresAt \in Nat \cup {NoExpiry}
  BY DEF Terms
<1>4. /\ o \in Order /\ o.id = nextId /\ o.origin = nextId /\ o.side = t.side
      /\ o.quantity = t.quantity /\ o.limitPrice = t.limitPrice
      /\ o.trader = trader /\ o.market = market /\ o.holdings = declared
      /\ o.placed = placed
  BY <1>2, <1>3 DEF NewOrder, Order
<1>5. RequiredFunding(o) = Required(t.side, t.quantity, t.limitPrice)
  BY <1>4 DEF RequiredFunding
<1>6. RequiredFunding(o) \in Nat
  BY <1>4, RequiredFundingType
<1>7. /\ c.side = t.side /\ c.limit = t.limitPrice /\ c.quantity = t.quantity
      /\ c.required = RequiredFunding(o)
      /\ c.sent = 0 /\ c.filled = 0 /\ c.settled = 0 /\ c.got = 0
      /\ c.matches = 0 /\ c \in Chain
  BY <1>3, <1>5, <1>6 DEF NewChain, EmptyChain, Chain, PosNat
<1> HIDE DEF o, c
<1>8. /\ orders' = orders \cup {o}
      /\ chain' = [chain EXCEPT ![nextId] = c]
      /\ UNCHANGED <<holdings, allocs, minted, now, pool>>
  BY DEF Rest, o, c
<1>9. chain' \in [Ids -> Chain] /\ chain'[nextId] = c
      /\ \A i \in Ids : i # nextId => chain'[i] = chain[i]
  BY <1>1, <1>2, <1>7, <1>8 DEF TypeOK
<1>10. \A p \in orders : p \in Order /\ p.origin \in Ids /\ p.origin < nextId
  BY <1>1 DEF IInv, OneActive, TypeOK, Order
<1>11. \A p \in orders : chain'[p.origin] = chain[p.origin] /\ p.origin # nextId
  <2> TAKE p \in orders
  <2>1. p.origin \in Ids /\ p.origin < nextId
    BY <1>10
  <2>2. p.origin # nextId
    BY <2>1, <1>2, SMT DEF Ids
  <2> QED
    BY <1>9, <2>1, <2>2
<1>12. TypeOK'
  BY <1>1, <1>2, <1>4, <1>8, <1>9 DEF TypeOK, RegistryTypeOK
<1>13. DeclaredOwn'
  BY <1>4, <1>8 DEF IInv, DeclaredOwn
<1>14. OneActive'
  <2>1. \A p \in orders' : p.origin < nextId'
    <3> TAKE p \in orders'
    <3>1. CASE p = o
      BY <3>1, <1>2, <1>4, SMT DEF Ids
    <3>2. CASE p \in orders
      BY <3>2, <1>2, <1>10, SMT DEF Ids
    <3> QED
      BY <1>8, <3>1, <3>2
  <2>2. \A p, q \in orders' : p.origin = q.origin => p = q
    BY <1>4, <1>8, <1>11 DEF IInv, OneActive
  <2> QED
    BY <2>1, <2>2 DEF OneActive
<1>15. Budget'
  <2> SUFFICES ASSUME NEW p \in orders'
               PROVE  /\ chain'[p.origin].side = p.side
                      /\ chain'[p.origin].limit = p.limitPrice
                      /\ chain'[p.origin].sent + RequiredFunding(p)
                           <= chain'[p.origin].required
                      /\ chain'[p.origin].filled + p.quantity
                           <= chain'[p.origin].quantity
    BY DEF Budget
  <2>1. CASE p = o
    <3>1. chain'[p.origin] = c /\ o.quantity \in Nat
      BY <2>1, <1>4, <1>9 DEF Order, PosNat
    <3> QED
      BY <2>1, <3>1, <1>4, <1>6, <1>7, SMT
  <2>2. CASE p \in orders
    BY <2>2, <1>11 DEF IInv, Budget
  <2> QED
    BY <1>8, <2>1, <2>2
<1>16. FundedThroughout'
  BY <1>4, <1>5, <1>8 DEF IInv, FundedThroughout
<1>17. NeverOverspent' /\ WithinLimit'
  <2>1. c.required \in Nat /\ c.quantity \in Nat /\ c.limit \in Nat
    BY <1>7 DEF Chain
  <2>2. 0 <= c.required /\ 0 <= c.quantity
    BY <2>1, SMT
  <2>3. 0 * Scale <= c.limit * 0 /\ c.limit * 0 <= (0 + 0) * Scale
    BY <2>1, ScaleAssumption, SMT
  <2>4. \A i \in Ids : chain'[i] = chain[i] \/ chain'[i] = c
    BY <1>9
  <2>5. NeverOverspent'
    BY <1>7, <2>2, <2>4 DEF IInv, NeverOverspent
  <2>6. WithinLimit'
    BY <1>7, <2>3, <2>4 DEF IInv, WithinLimit
  <2> QED
    BY <2>5, <2>6
<1> QED
  BY <1>12, <1>13, <1>14, <1>15, <1>16, <1>17 DEF IInv

-----------------------------------------------------------------------------
\* Chains

\* What a fill adds to its chain keeps the chain within its budget, and leaves
\* room for the rest of the order.
LEMMA FillKeepsBudget ==
  ASSUME IInv, NEW o \in orders, NEW f \in Nat, NEW price \in Nat, NEW d,
         CanFill(o, f, price, d)
  PROVE  LET c == chain[o.origin]
             sent == SentAmount(o.side, f, price)
         IN  /\ c \in Chain /\ c.side = o.side /\ c.limit = o.limitPrice
             /\ c.sent + sent \in Nat /\ c.filled + f \in Nat
             /\ c.sent + sent
                  + Required(o.side, o.quantity - f, o.limitPrice) <= c.required
             /\ c.filled + f + (o.quantity - f) <= c.quantity
             /\ c.sent + sent <= c.required
             /\ c.filled + f <= c.quantity
<1> DEFINE c == chain[o.origin]
           sent == SentAmount(o.side, f, price)
           req == Required(o.side, o.quantity - f, o.limitPrice)
           all == RequiredFunding(o)
<1>1. o \in Order /\ o.origin \in Ids /\ o.quantity \in Nat
  BY DEF IInv, TypeOK, Order, PosNat
<1>2. /\ c \in Chain
      /\ c.sent \in Nat /\ c.filled \in Nat
      /\ c.required \in Nat /\ c.quantity \in Nat
  BY <1>1 DEF IInv, TypeOK, Chain
<1>3. /\ c.side = o.side /\ c.limit = o.limitPrice
      /\ c.sent + all <= c.required /\ c.filled + o.quantity <= c.quantity
  BY DEF IInv, Budget
<1>4. /\ sent \in Nat /\ req \in Nat /\ sent + req <= all
      /\ f <= o.quantity
  BY <1>1, FillSends DEF PosNat
<1>5. all \in Nat
  BY <1>1, RequiredFundingType
<1> HIDE DEF c, sent, req, all
<1>6. /\ c.sent + sent \in Nat /\ c.filled + f \in Nat
      /\ c.sent + sent + req <= c.required
      /\ c.sent + sent <= c.required
  BY <1>2, <1>3, <1>4, <1>5, SMT
<1>7. /\ c.filled + f + (o.quantity - f) <= c.quantity
      /\ c.filled + f <= c.quantity
  BY <1>1, <1>2, <1>3, <1>4, SMT
<1> QED
  BY <1>2, <1>3, <1>6, <1>7 DEF c, sent, req

LEMMA FillWithinLimit ==
  ASSUME NEW o \in Order, NEW f \in Nat, NEW price \in Nat, NEW d,
         CanFill(o, f, price, d)
  PROVE  LET sent == SentAmount(o.side, f, price)
         IN  /\ o.side = "Buy"  => sent * Scale <= o.limitPrice * f
             /\ o.side = "Sell" => sent = f
<1>1. o.limitPrice \in Nat
  BY DEF Order, PosNat
<1>2. ASSUME o.side = "Buy"
      PROVE  SentAmount(o.side, f, price) * Scale <= o.limitPrice * f
  <2>1. price <= o.limitPrice
    BY <1>2 DEF CanFill, PriceWithinLimit
  <2>2. SentAmount(o.side, f, price) = QuoteAmount(f, price)
    BY <1>2 DEF SentAmount
  <2>3. QuoteAmount(f, price) \in Nat /\ QuoteAmount(f, price) * Scale <= f * price
    BY QuoteType
  <2>4. f * price <= o.limitPrice * f /\ f * price \in Nat /\ o.limitPrice * f \in Nat
    BY <1>1, <2>1, SMT
  <2>5. QuoteAmount(f, price) * Scale \in Nat
    BY <2>3, ScaleAssumption, SMT
  <2> QED
    BY <2>2, <2>3, <2>4, <2>5, SMT
<1>3. ASSUME o.side = "Sell" PROVE SentAmount(o.side, f, price) = f
  BY <1>3 DEF SentAmount
<1> QED
  BY <1>2, <1>3

\* Sums of two fills stay within a limit each of them respects.
LEMMA AddWithinBuy ==
  ASSUME NEW a \in Nat, NEW b \in Nat, NEW limit \in Nat, NEW x \in Nat, NEW y \in Nat,
         a * Scale <= limit * x, b * Scale <= limit * y
  PROVE  (a + b) * Scale <= limit * (x + y)
<1>1. (a + b) * Scale = a * Scale + b * Scale /\ limit * (x + y) = limit * x + limit * y
  BY ScaleAssumption, SMT
<1>2. a * Scale \in Nat /\ b * Scale \in Nat /\ limit * x \in Nat /\ limit * y \in Nat
  BY ScaleAssumption, SMT
<1> QED
  BY <1>1, <1>2, SMT

LEMMA AddWithinSell ==
  ASSUME NEW a \in Nat, NEW n \in Nat, NEW b \in Nat, NEW limit \in Nat,
         NEW x \in Nat, NEW y \in Nat,
         limit * x <= (a + n) * Scale, limit * y <= (b + 1) * Scale
  PROVE  limit * (x + y) <= ((a + b) + (n + 1)) * Scale
<1>1. /\ ((a + b) + (n + 1)) * Scale = (a + n) * Scale + (b + 1) * Scale
      /\ limit * (x + y) = limit * x + limit * y
  BY ScaleAssumption, SMT
<1>2. /\ (a + n) * Scale \in Nat /\ (b + 1) * Scale \in Nat
      /\ limit * x \in Nat /\ limit * y \in Nat
  BY ScaleAssumption, SMT
<1> QED
  BY <1>1, <1>2, SMT

-----------------------------------------------------------------------------
\* A lone fill

LEMMA OrderFillPreserves ==
  ASSUME IInv, NEW o \in orders, NEW f \in Nat, NEW price \in Nat,
         NEW cp \in Parties, NEW d \in Nat, Order_Fill(o, f, price, cp, d)
  PROVE  IInv'
<1> DEFINE sent == SentAmount(o.side, f, price)
           change == FillChange(o, f, price, nextId)
           rem == Remainder(o, f, change, nextId + 1)
           c == chain[o.origin]
           c2 == chain'[o.origin]
           a == [id |-> nextId, sender |-> o.trader, receiver |-> cp,
                 instrument |-> FundingInstrument(o.market, o.side),
                 amount |-> sent, leg |-> LegOf(o.side), settleBefore |-> d]
<1>1. TypeOK /\ RegistryTypeOK
  BY DEF IInv, TypeOK
<1>2. /\ nextId \in Ids /\ nextId + 1 \in Ids /\ nextId' = nextId + 2
      /\ nextId' \in Nat \ {0}
  BY <1>1, RegistryAssumption, SMT DEF Order_Fill, RegistryTypeOK, Ids
<1>3. /\ o \in Order /\ o.origin \in Ids /\ o.trader \in Parties
      /\ o.side \in Side /\ o.holdings \in Seq(Holding) /\ o.quantity \in PosNat
  BY <1>1 DEF TypeOK, Order
<1>4. CanFill(o, f, price, d)
  BY DEF Order_Fill
<1>5. /\ sent \in PosNat /\ Total(o.holdings) >= sent
  BY <1>3, <1>4, FillSends
<1>6. change \in Seq(Holding) /\ Range(change) \subseteq Holding
  BY <1>2, <1>3, <1>5, ChangeFacts, MarketFacts DEF FillChange, PosNat
<1>7. a \in Allocation
  BY <1>2, <1>3, <1>5, MarketFacts DEF Allocation, PosNat, LegOf, Legs
<1>8. /\ holdings' = (holdings \ Range(o.holdings)) \cup Range(change)
      /\ allocs' = allocs \cup {a}
      /\ orders' = (orders \ {o}) \cup rem
      /\ chain' = [chain EXCEPT ![o.origin] =
                     [c EXCEPT !.sent = @ + sent, !.filled = @ + f]]
      /\ UNCHANGED <<minted, now, pool>>
  BY <1>1, <1>3 DEF Order_Fill, TypeOK, Chain
<1>9. \A r \in rem : /\ r \in Order /\ r.origin = o.origin /\ r.side = o.side
                     /\ r.limitPrice = o.limitPrice /\ r.placed = o.placed
                     /\ r.trader = o.trader /\ r.market = o.market
                     /\ r.quantity = o.quantity - f
                     /\ RequiredFunding(r)
                          = Required(o.side, o.quantity - f, o.limitPrice)
                     /\ Total(r.holdings) = Total(o.holdings) - sent
                     /\ \A i \in DOMAIN r.holdings :
                          /\ r.holdings[i].owner = o.trader
                          /\ r.holdings[i].instrument
                               = FundingInstrument(o.market, o.side)
  <2> SUFFICES ASSUME NEW r \in rem
               PROVE  /\ r \in Order /\ r.origin = o.origin /\ r.side = o.side
                      /\ r.limitPrice = o.limitPrice /\ r.placed = o.placed
                      /\ r.trader = o.trader /\ r.market = o.market
                      /\ r.quantity = o.quantity - f
                      /\ RequiredFunding(r)
                           = Required(o.side, o.quantity - f, o.limitPrice)
                      /\ Total(r.holdings) = Total(o.holdings) - sent
                      /\ \A i \in DOMAIN r.holdings :
                           /\ r.holdings[i].owner = o.trader
                           /\ r.holdings[i].instrument
                                = FundingInstrument(o.market, o.side)
    OBVIOUS
  <2>1. r \in Remainder(o, f, FillChange(o, f, price, nextId), nextId + 1)
    OBVIOUS
  <2> QED
    BY <1>2, <1>3, <1>4, <2>1, RemainderFacts
<1>10. \A r, t \in rem : r = t
  BY DEF Remainder
<1>11. /\ c \in Chain /\ c.side = o.side /\ c.limit = o.limitPrice
       /\ c.sent + sent \in Nat /\ c.filled + f \in Nat
       /\ c.sent + sent
            + Required(o.side, o.quantity - f, o.limitPrice) <= c.required
       /\ c.filled + f + (o.quantity - f) <= c.quantity
       /\ c.sent + sent <= c.required /\ c.filled + f <= c.quantity
  BY <1>4, FillKeepsBudget
<1>12. /\ c2 = [c EXCEPT !.sent = c.sent + sent, !.filled = c.filled + f]
       /\ chain' \in [Ids -> Chain]
       /\ \A i \in Ids : i # o.origin => chain'[i] = chain[i]
  <2>1. o.origin \in Ids /\ chain \in [Ids -> Chain]
    BY <1>1, <1>3 DEF TypeOK
  <2>2. chain' = [chain EXCEPT ![o.origin] =
                    [c EXCEPT !.sent = c.sent + sent, !.filled = c.filled + f]]
    BY <1>8
  <2>3. [c EXCEPT !.sent = c.sent + sent, !.filled = c.filled + f] \in Chain
    BY <1>11 DEF Chain
  <2> HIDE DEF c
  <2> QED
    BY <2>1, <2>2, <2>3
<1>13. /\ c2.side = o.side /\ c2.limit = o.limitPrice
       /\ c2.sent = c.sent + sent /\ c2.filled = c.filled + f
       /\ c2.required = c.required /\ c2.quantity = c.quantity
       /\ c2.settled = c.settled /\ c2.got = c.got /\ c2.matches = c.matches
  BY <1>11, <1>12 DEF Chain
<1>14. \A p \in orders \ {o} : chain'[p.origin] = chain[p.origin]
  BY <1>1, <1>12 DEF IInv, OneActive, TypeOK, Order
<1>15. Required(o.side, o.quantity - f, o.limitPrice) \in Nat
  BY <1>3, <1>4, FillSends
<1> HIDE DEF sent, change, rem, c, c2, a
<1>16. TypeOK'
  BY <1>1, <1>2, <1>6, <1>7, <1>8, <1>9, <1>12 DEF TypeOK, RegistryTypeOK
<1>17. DeclaredOwn'
  BY <1>8, <1>9 DEF IInv, DeclaredOwn
<1>18. OneActive'
  <2>1. \A p \in orders : p.origin \in Ids /\ p.origin < nextId
    BY <1>1 DEF IInv, OneActive, TypeOK, Order
  <2>2. \A p \in orders : p.origin < nextId'
    BY <2>1, <1>2, SMT DEF Ids
  <2> QED
    BY <1>8, <1>9, <1>10, <2>2 DEF IInv, OneActive
<1>19. Budget'
  <2> SUFFICES ASSUME NEW p \in orders'
               PROVE  /\ chain'[p.origin].side = p.side
                      /\ chain'[p.origin].limit = p.limitPrice
                      /\ chain'[p.origin].sent + RequiredFunding(p)
                           <= chain'[p.origin].required
                      /\ chain'[p.origin].filled + p.quantity
                           <= chain'[p.origin].quantity
    BY DEF Budget
  <2>1. CASE p \in rem
    <3>1. chain'[p.origin] = c2
      BY <2>1, <1>9 DEF c2
    <3> QED
      BY <2>1, <3>1, <1>9, <1>11, <1>13
  <2>2. CASE p \in orders \ {o}
    BY <2>2, <1>14 DEF IInv, Budget
  <2> QED
    BY <1>8, <2>1, <2>2
<1>20. FundedThroughout'
  <2> SUFFICES ASSUME NEW p \in orders', p.placed
               PROVE  Total(p.holdings) >= RequiredFunding(p)
    BY DEF FundedThroughout
  <2>1. CASE p \in rem
    <3>1. o.placed
      BY <2>1, <1>9
    <3>2. Total(o.holdings) >= RequiredFunding(o)
      BY <3>1 DEF IInv, FundedThroughout
    <3>3. sent + Required(o.side, o.quantity - f, o.limitPrice) <= RequiredFunding(o)
      BY <1>3, <1>4, FillSends DEF sent
    <3>4. Total(o.holdings) \in Nat /\ RequiredFunding(o) \in Nat /\ sent \in Nat
      BY <1>3, <1>5, TotalType, RequiredFundingType DEF PosNat
    <3>5. Total(o.holdings) - sent >= Required(o.side, o.quantity - f, o.limitPrice)
      BY <1>15, <3>2, <3>3, <3>4, SMT
    <3> QED
      BY <2>1, <1>9, <3>5
  <2>2. CASE p \in orders
    BY <2>2 DEF IInv, FundedThroughout
  <2> QED
    BY <1>8, <2>1, <2>2
<1>21. NeverOverspent'
  <2> SUFFICES ASSUME NEW i \in Ids
               PROVE  /\ chain'[i].sent <= chain'[i].required
                      /\ chain'[i].filled <= chain'[i].quantity
    BY DEF NeverOverspent
  <2>1. CASE i = o.origin
    BY <2>1, <1>11, <1>13 DEF c2
  <2>2. CASE i # o.origin
    BY <2>2, <1>12 DEF IInv, NeverOverspent
  <2> QED
    BY <2>1, <2>2
<1>22. WithinLimit'
  <2> SUFFICES ASSUME NEW i \in Ids
               PROVE  LET k == chain'[i]
                      IN  IF k.side = "Buy"
                          THEN k.got = k.settled /\ k.sent * Scale <= k.limit * k.filled
                          ELSE /\ k.sent = k.filled
                               /\ k.limit * k.settled <= (k.got + k.matches) * Scale
    BY DEF WithinLimit
  <2>1. CASE i = o.origin
    <3>1. chain'[i] = c2 /\ c = chain[i]
      BY <2>1 DEF c2, c
    <3>2. /\ c.sent \in Nat /\ c.filled \in Nat /\ c.limit \in Nat
      BY <1>11 DEF Chain
    <3>3. CASE o.side = "Buy"
      <4>1. c.got = c.settled /\ c.sent * Scale <= c.limit * c.filled
        BY <3>1, <3>3, <1>11 DEF IInv, WithinLimit
      <4>2. sent * Scale <= c.limit * f
        BY <1>3, <1>4, <1>11, <3>3, FillWithinLimit DEF sent
      <4>3. (c.sent + sent) * Scale <= c.limit * (c.filled + f)
        BY <4>1, <4>2, <3>2, <1>5, AddWithinBuy DEF PosNat
      <4> QED
        BY <3>1, <3>3, <4>1, <4>3, <1>11, <1>13
    <3>4. CASE o.side = "Sell"
      <4>1. c.sent = c.filled /\ c.limit * c.settled <= (c.got + c.matches) * Scale
        BY <3>1, <3>4, <1>11 DEF IInv, WithinLimit
      <4>2. sent = f
        BY <1>3, <1>4, <3>4, FillWithinLimit DEF sent
      <4> QED
        BY <3>1, <3>4, <4>1, <4>2, <1>11, <1>13
    <3> QED
      BY <1>3, <3>3, <3>4 DEF Side
  <2>2. CASE i # o.origin
    BY <2>2, <1>12 DEF IInv, WithinLimit
  <2> QED
    BY <2>1, <2>2
<1> QED
  BY <1>16, <1>17, <1>18, <1>19, <1>20, <1>21, <1>22 DEF IInv

-----------------------------------------------------------------------------
\* A match: two fills and their settlement

LEMMA AddMatchFields ==
  ASSUME NEW c \in Chain, NEW sent \in Nat, NEW got \in Nat, NEW qty \in Nat
  PROVE  LET c2 == AddMatch(c, sent, got, qty)
         IN  /\ c2.side = c.side /\ c2.limit = c.limit
             /\ c2.quantity = c.quantity /\ c2.required = c.required
             /\ c2.sent = c.sent + sent /\ c2.filled = c.filled + qty
             /\ c2.settled = c.settled + qty /\ c2.got = c.got + got
             /\ c2.matches = c.matches + 1 /\ c2 \in Chain
<1> DEFINE d1 == [c EXCEPT !.sent = c.sent + sent]
           d2 == [d1 EXCEPT !.got = d1.got + got]
           d3 == [d2 EXCEPT !.filled = d2.filled + qty]
           d4 == [d3 EXCEPT !.settled = d3.settled + qty]
           d5 == [d4 EXCEPT !.matches = d4.matches + 1]
<1>0. AddMatch(c, sent, got, qty) = d5
  BY DEF AddMatch
<1>1. /\ d1 \in Chain /\ d1.sent = c.sent + sent
      /\ \A k \in {"side", "limit", "quantity", "required", "filled",
                   "settled", "got", "matches"} : d1[k] = c[k]
  BY DEF Chain
<1> HIDE DEF d1
<1>2. /\ d2 \in Chain /\ d2.got = d1.got + got
      /\ \A k \in {"side", "limit", "quantity", "required", "filled",
                   "settled", "sent", "matches"} : d2[k] = d1[k]
  BY <1>1 DEF Chain
<1> HIDE DEF d2
<1>3. /\ d3 \in Chain /\ d3.filled = d2.filled + qty
      /\ \A k \in {"side", "limit", "quantity", "required", "got",
                   "settled", "sent", "matches"} : d3[k] = d2[k]
  BY <1>2 DEF Chain
<1> HIDE DEF d3
<1>4. /\ d4 \in Chain /\ d4.settled = d3.settled + qty
      /\ \A k \in {"side", "limit", "quantity", "required", "got",
                   "filled", "sent", "matches"} : d4[k] = d3[k]
  BY <1>3 DEF Chain
<1> HIDE DEF d4
<1>5. /\ d5 \in Chain /\ d5.matches = d4.matches + 1
      /\ \A k \in {"side", "limit", "quantity", "required", "got",
                   "filled", "sent", "settled"} : d5[k] = d4[k]
  BY <1>4 DEF Chain
<1> HIDE DEF d5
<1> QED
  BY <1>0, <1>1, <1>2, <1>3, <1>4, <1>5

\* A chain that a match was added to is still within budget and limits.
LEMMA MatchedChain ==
  ASSUME IInv, NEW o \in orders, NEW qty \in Nat, NEW price \in Nat, NEW d,
         CanFill(o, qty, price, d), NEW got \in Nat,
         o.side = "Buy"  => got = qty,
         o.side = "Sell" => o.limitPrice * qty <= (got + 1) * Scale
  PROVE  LET c  == chain[o.origin]
             c2 == AddMatch(c, SentAmount(o.side, qty, price), got, qty)
         IN  /\ c2 \in Chain /\ c2.side = o.side /\ c2.limit = o.limitPrice
             /\ c2.sent + Required(o.side, o.quantity - qty, o.limitPrice)
                  <= c2.required
             /\ c2.filled + (o.quantity - qty) <= c2.quantity
             /\ c2.sent <= c2.required /\ c2.filled <= c2.quantity
             /\ IF c2.side = "Buy"
                THEN c2.got = c2.settled /\ c2.sent * Scale <= c2.limit * c2.filled
                ELSE /\ c2.sent = c2.filled
                     /\ c2.limit * c2.settled <= (c2.got + c2.matches) * Scale
<1> DEFINE c == chain[o.origin]
           sent == SentAmount(o.side, qty, price)
           c2 == AddMatch(c, sent, got, qty)
<1>1. /\ o \in Order /\ o.origin \in Ids /\ o.side \in Side
  BY DEF IInv, TypeOK, Order
<1>2. /\ c \in Chain /\ c.side = o.side /\ c.limit = o.limitPrice
      /\ c.sent + sent \in Nat /\ c.filled + qty \in Nat
      /\ c.sent + sent
           + Required(o.side, o.quantity - qty, o.limitPrice) <= c.required
      /\ c.filled + qty + (o.quantity - qty) <= c.quantity
      /\ c.sent + sent <= c.required /\ c.filled + qty <= c.quantity
  BY FillKeepsBudget
<1>3. sent \in Nat
  BY <1>1, FillSends DEF PosNat
<1>4. /\ c.sent \in Nat /\ c.filled \in Nat /\ c.settled \in Nat /\ c.got \in Nat
      /\ c.matches \in Nat /\ c.limit \in Nat
  BY <1>2 DEF Chain
<1> HIDE DEF c, sent
<1>5. /\ c2.side = c.side /\ c2.limit = c.limit /\ c2.quantity = c.quantity
      /\ c2.required = c.required /\ c2.sent = c.sent + sent
      /\ c2.filled = c.filled + qty /\ c2.settled = c.settled + qty
      /\ c2.got = c.got + got /\ c2.matches = c.matches + 1
      /\ c2 \in Chain
  <2>1. c \in Chain /\ sent \in Nat /\ got \in Nat /\ qty \in Nat
    BY <1>2, <1>3
  <2> QED
    BY <2>1, AddMatchFields
<1> HIDE DEF c2
<1>6. IF c.side = "Buy"
      THEN c.got = c.settled /\ c.sent * Scale <= c.limit * c.filled
      ELSE c.sent = c.filled /\ c.limit * c.settled <= (c.got + c.matches) * Scale
  BY <1>1 DEF IInv, WithinLimit, c
<1>7. CASE o.side = "Buy"
  <2>1. sent * Scale <= c.limit * qty
    BY <1>1, <1>2, <1>7, FillWithinLimit DEF sent
  <2>2. (c.sent + sent) * Scale <= c.limit * (c.filled + qty)
    BY <1>2, <1>3, <1>4, <1>6, <1>7, <2>1, AddWithinBuy
  <2>3. c2.got = c2.settled /\ c2.sent * Scale <= c2.limit * c2.filled
    BY <1>2, <1>5, <1>6, <1>7, <2>2
  <2> QED
    BY <1>2, <1>5, <1>7, <2>3 DEF c, sent, c2
<1>8. CASE o.side = "Sell"
  <2>1. sent = qty /\ c.limit * qty <= (got + 1) * Scale
    BY <1>1, <1>2, <1>8, FillWithinLimit DEF sent
  <2>2. c.sent = c.filled /\ c.limit * c.settled <= (c.got + c.matches) * Scale
    BY <1>2, <1>6, <1>8
  <2>3. c.limit * (c.settled + qty) <= ((c.got + got) + (c.matches + 1)) * Scale
    BY <1>4, <2>1, <2>2, AddWithinSell
  <2>4. /\ c2.sent = c2.filled
        /\ c2.limit * c2.settled <= (c2.got + c2.matches) * Scale
    BY <1>5, <2>1, <2>2, <2>3
  <2> QED
    BY <1>2, <1>5, <1>8, <2>4 DEF c, sent, c2
<1> QED
  BY <1>1, <1>7, <1>8 DEF Side

LEMMA PairFacts ==
  ASSUME IInv, NEW b \in orders, NEW s \in orders, CanPair(b, s)
  PROVE  /\ b \in Order /\ s \in Order
         /\ b.side = "Buy" /\ s.side = "Sell" /\ b # s /\ b.origin # s.origin
         /\ b.market = pool.market /\ s.market = pool.market
         /\ pool.market \in Markets
         /\ pool.market.base \in Instruments /\ pool.market.quote \in Instruments
         /\ MatchQty(b, s) \in PosNat /\ MatchPrice(b, s) \in PosNat
         /\ MatchQty(b, s) <= b.quantity /\ MatchQty(b, s) <= s.quantity
         /\ PriceWithinLimit("Buy", MatchPrice(b, s), b.limitPrice)
         /\ PriceWithinLimit("Sell", MatchPrice(b, s), s.limitPrice)
         /\ SentAmount(b.side, MatchQty(b, s), MatchPrice(b, s))
              = QuoteAmount(MatchQty(b, s), MatchPrice(b, s))
         /\ SentAmount(s.side, MatchQty(b, s), MatchPrice(b, s)) = MatchQty(b, s)
         /\ QuoteAmount(MatchQty(b, s), MatchPrice(b, s)) \in Nat
<1>1. /\ b \in Order /\ s \in Order /\ b.side = "Buy" /\ s.side = "Sell"
      /\ b.market = pool.market /\ s.market = pool.market
      /\ Crosses(b.limitPrice, s.limitPrice)
  BY DEF IInv, TypeOK, CanPair
<1>2. b # s /\ b.origin # s.origin
  BY <1>1 DEF IInv, OneActive
<1>3. /\ b.quantity \in PosNat /\ s.quantity \in PosNat
      /\ b.limitPrice \in PosNat /\ s.limitPrice \in PosNat
      /\ b.market \in Markets
  BY <1>1 DEF Order
<1>4. /\ MatchQty(b, s) \in PosNat
      /\ MatchQty(b, s) <= b.quantity /\ MatchQty(b, s) <= s.quantity
  BY <1>3, SMT DEF MatchQty, FillQuantity, Min2, PosNat
<1>5. /\ MatchPrice(b, s) \in PosNat
      /\ PriceWithinLimit("Buy", MatchPrice(b, s), b.limitPrice)
      /\ PriceWithinLimit("Sell", MatchPrice(b, s), s.limitPrice)
  BY <1>1, <1>3, MidpointWithinLimits DEF MatchPrice, PosNat
<1>6. QuoteAmount(MatchQty(b, s), MatchPrice(b, s)) \in Nat
  BY <1>4, <1>5, QuoteType DEF PosNat
<1> QED
  BY <1>1, <1>2, <1>3, <1>4, <1>5, <1>6, DarkPoolAssumption DEF SentAmount

LEMMA MatchPreserves ==
  ASSUME IInv, NEW b \in orders, NEW s \in orders, DarkPool_Match(b, s)
  PROVE  IInv'
<1> DEFINE qty == MatchQty(b, s)
           price == MatchPrice(b, s)
           paid == QuoteAmount(qty, price)
           bChange == FillChange(b, qty, price, nextId)
           sChange == FillChange(s, qty, price, nextId + 1)
           bRem == Remainder(b, qty, bChange, nextId)
           sRem == Remainder(s, qty, sChange, nextId + 1)
           bChain == AddMatch(chain[b.origin], paid, qty, qty)
           sChain == AddMatch(chain[s.origin], qty, paid, qty)
           hQuote == NewHolding(nextId + 2, s.trader, pool.market.quote, paid)
           hBase == NewHolding(nextId + 3, b.trader, pool.market.base, qty)
<1>1. TypeOK /\ RegistryTypeOK
  BY DEF IInv, TypeOK
<1>2. /\ nextId \in Ids /\ nextId + 1 \in Ids /\ nextId + 2 \in Ids
      /\ nextId + 3 \in Ids /\ nextId' = nextId + 4 /\ nextId' \in Nat \ {0}
  BY <1>1, RegistryAssumption, SMT DEF DarkPool_Match, RegistryTypeOK, Ids
<1>3. CanPair(b, s) /\ CanFill(b, qty, price, now + 1) /\ CanFill(s, qty, price, now + 1)
  BY DEF DarkPool_Match, CanMatch
<1>4. /\ b \in Order /\ s \in Order
      /\ b.side = "Buy" /\ s.side = "Sell" /\ b # s /\ b.origin # s.origin
      /\ b.origin \in Ids /\ s.origin \in Ids
      /\ b.trader \in Parties /\ s.trader \in Parties
      /\ b.holdings \in Seq(Holding) /\ s.holdings \in Seq(Holding)
      /\ b.quantity \in PosNat /\ s.quantity \in PosNat
      /\ pool.market.base \in Instruments /\ pool.market.quote \in Instruments
      /\ qty \in PosNat /\ price \in PosNat
      /\ SentAmount(b.side, qty, price) = paid /\ SentAmount(s.side, qty, price) = qty
  BY <1>3, PairFacts DEF Order
<1>5. /\ paid \in PosNat /\ Total(b.holdings) >= paid /\ Total(s.holdings) >= qty
  BY <1>3, <1>4, FillSends DEF PosNat
<1>6. /\ Range(bChange) \subseteq Holding /\ Range(sChange) \subseteq Holding
  BY <1>2, <1>3, <1>4, FillChangeType DEF PosNat
<1>7. hQuote \in Holding /\ hBase \in Holding
  BY <1>2, <1>4, <1>5 DEF NewHolding, Holding, PosNat
<1>8. /\ holdings' = (holdings \ (Range(b.holdings) \cup Range(s.holdings)))
                       \cup Range(bChange) \cup Range(sChange)
                       \cup {hQuote, hBase}
      /\ orders' = (orders \ {b, s}) \cup bRem \cup sRem
      /\ chain' = [chain EXCEPT ![b.origin] = AddMatch(@, paid, qty, qty),
                                ![s.origin] = AddMatch(@, qty, paid, qty)]
      /\ UNCHANGED <<allocs, minted, now, pool>>
  BY DEF DarkPool_Match
<1>9. chain \in [Ids -> Chain]
  BY <1>1 DEF TypeOK
<1>10. /\ chain'[b.origin] = bChain /\ chain'[s.origin] = sChain
       /\ \A i \in Ids \ {b.origin, s.origin} : chain'[i] = chain[i]
       /\ DOMAIN chain' = Ids
       /\ chain' = [i \in Ids |-> IF i = s.origin THEN sChain
                                  ELSE IF i = b.origin THEN bChain ELSE chain[i]]
  BY <1>4, <1>8, <1>9
<1>11. \A r \in bRem : /\ r \in Order /\ r.origin = b.origin /\ r.side = b.side
                       /\ r.limitPrice = b.limitPrice /\ r.placed = b.placed
                       /\ r.trader = b.trader /\ r.market = b.market
                       /\ r.quantity = b.quantity - qty
                       /\ RequiredFunding(r)
                            = Required(b.side, b.quantity - qty, b.limitPrice)
                       /\ Total(r.holdings)
                            = Total(b.holdings) - SentAmount(b.side, qty, price)
                       /\ \A i \in DOMAIN r.holdings :
                            /\ r.holdings[i].owner = b.trader
                            /\ r.holdings[i].instrument
                                 = FundingInstrument(b.market, b.side)
  BY <1>2, <1>3, <1>4, RemainderFacts DEF PosNat
<1>12. \A r \in sRem : /\ r \in Order /\ r.origin = s.origin /\ r.side = s.side
                       /\ r.limitPrice = s.limitPrice /\ r.placed = s.placed
                       /\ r.trader = s.trader /\ r.market = s.market
                       /\ r.quantity = s.quantity - qty
                       /\ RequiredFunding(r)
                            = Required(s.side, s.quantity - qty, s.limitPrice)
                       /\ Total(r.holdings)
                            = Total(s.holdings) - SentAmount(s.side, qty, price)
                       /\ \A i \in DOMAIN r.holdings :
                            /\ r.holdings[i].owner = s.trader
                            /\ r.holdings[i].instrument
                                 = FundingInstrument(s.market, s.side)
  BY <1>2, <1>3, <1>4, RemainderFacts DEF PosNat
<1>13. (\A r, t \in bRem : r = t) /\ (\A r, t \in sRem : r = t)
  BY DEF Remainder
<1>14. /\ bChain \in Chain /\ bChain.side = b.side /\ bChain.limit = b.limitPrice
       /\ bChain.sent + Required(b.side, b.quantity - qty, b.limitPrice)
            <= bChain.required
       /\ bChain.filled + (b.quantity - qty) <= bChain.quantity
       /\ bChain.sent <= bChain.required /\ bChain.filled <= bChain.quantity
       /\ bChain.got = bChain.settled
       /\ bChain.sent * Scale <= bChain.limit * bChain.filled
  BY <1>3, <1>4, MatchedChain DEF PosNat
<1>15. /\ sChain \in Chain /\ sChain.side = s.side /\ sChain.limit = s.limitPrice
       /\ sChain.sent + Required(s.side, s.quantity - qty, s.limitPrice)
            <= sChain.required
       /\ sChain.filled + (s.quantity - qty) <= sChain.quantity
       /\ sChain.sent <= sChain.required /\ sChain.filled <= sChain.quantity
       /\ sChain.sent = sChain.filled
       /\ sChain.limit * sChain.settled <= (sChain.got + sChain.matches) * Scale
  <2>1. s.limitPrice * qty <= (paid + 1) * Scale
    <3>1. s.limitPrice \in Nat /\ s.limitPrice <= price
      BY <1>3, <1>4 DEF Order, PosNat, CanFill, PriceWithinLimit
    <3>2. qty * price < (paid + 1) * Scale /\ qty * price \in Nat
      <4>1. qty \in Nat /\ price \in Nat
        BY <1>4 DEF PosNat
      <4>2. qty * price \in Nat
        BY <4>1, SMT
      <4> HIDE DEF qty, price
      <4> QED
        BY <4>1, <4>2, QuoteType
    <3>3. s.limitPrice * qty <= qty * price /\ s.limitPrice * qty \in Nat
      BY <3>1, <1>4, SMT DEF PosNat
    <3>4. (paid + 1) * Scale \in Nat
      BY <1>5, ScaleAssumption, SMT DEF PosNat
    <3> QED
      BY <3>2, <3>3, <3>4, SMT
  <2> QED
    BY <1>3, <1>4, <1>5, <2>1, MatchedChain DEF PosNat
<1>16. \A p \in orders \ {b, s} : chain'[p.origin] = chain[p.origin]
  BY <1>1, <1>10 DEF IInv, OneActive, TypeOK, Order
<1>17. /\ sChain.side # "Buy"
  BY <1>4, <1>15
<1> HIDE DEF qty, price, paid, bChange, sChange, bRem, sRem, bChain, sChain,
             hQuote, hBase
<1>18. TypeOK'
  <2>1. chain' \in [Ids -> Chain]
    BY <1>9, <1>10, <1>14, <1>15
  <2>2. orders' \subseteq Order
    BY <1>1, <1>8, <1>11, <1>12 DEF TypeOK
  <2>3. holdings' \subseteq Holding
    BY <1>1, <1>6, <1>7, <1>8 DEF RegistryTypeOK
  <2> QED
    BY <1>1, <1>2, <1>8, <2>1, <2>2, <2>3 DEF TypeOK, RegistryTypeOK
<1>19. DeclaredOwn'
  BY <1>8, <1>11, <1>12 DEF IInv, DeclaredOwn
<1>20. OneActive'
  <2>1. \A p \in orders : p.origin \in Ids /\ p.origin < nextId
    BY <1>1 DEF IInv, OneActive, TypeOK, Order
  <2>2. \A p \in orders : p.origin < nextId'
    BY <2>1, <1>2, SMT DEF Ids
  <2>3. \A p \in orders' : p.origin < nextId'
    BY <1>8, <1>11, <1>12, <2>2
  <2>4. \A p \in orders' : \/ p \in orders \ {b, s}
                           \/ p \in bRem /\ p.origin = b.origin
                           \/ p \in sRem /\ p.origin = s.origin
    BY <1>8, <1>11, <1>12
  <2>5. \A p \in orders \ {b, s} : p.origin # b.origin /\ p.origin # s.origin
    BY DEF IInv, OneActive
  <2>6. \A p, q \in orders' : p.origin = q.origin => p = q
    BY <1>4, <1>13, <2>4, <2>5 DEF IInv, OneActive
  <2> QED
    BY <2>3, <2>6 DEF OneActive
<1>21. Budget'
  <2> SUFFICES ASSUME NEW p \in orders'
               PROVE  /\ chain'[p.origin].side = p.side
                      /\ chain'[p.origin].limit = p.limitPrice
                      /\ chain'[p.origin].sent + RequiredFunding(p)
                           <= chain'[p.origin].required
                      /\ chain'[p.origin].filled + p.quantity
                           <= chain'[p.origin].quantity
    BY DEF Budget
  <2>1. CASE p \in bRem
    BY <2>1, <1>10, <1>11, <1>14
  <2>2. CASE p \in sRem
    BY <2>2, <1>10, <1>12, <1>15
  <2>3. CASE p \in orders \ {b, s}
    BY <2>3, <1>16 DEF IInv, Budget
  <2> QED
    BY <1>8, <2>1, <2>2, <2>3
<1>22. FundedThroughout'
  <2> SUFFICES ASSUME NEW p \in orders', p.placed
               PROVE  Total(p.holdings) >= RequiredFunding(p)
    BY DEF FundedThroughout
  <2>1. ASSUME NEW o \in {b, s}, o.placed
        PROVE  Total(o.holdings) - SentAmount(o.side, qty, price)
                 >= Required(o.side, o.quantity - qty, o.limitPrice)
    <3>1. o \in Order /\ o \in orders /\ o.holdings \in Seq(Holding)
      BY <1>4
    <3>2. Total(o.holdings) >= RequiredFunding(o)
      BY <2>1, <3>1 DEF IInv, FundedThroughout
    <3>3. /\ SentAmount(o.side, qty, price) \in Nat
          /\ Required(o.side, o.quantity - qty, o.limitPrice) \in Nat
          /\ SentAmount(o.side, qty, price)
               + Required(o.side, o.quantity - qty, o.limitPrice)
                 <= RequiredFunding(o)
      BY <1>3, <1>4, <3>1, FillSends DEF PosNat
    <3>4. Total(o.holdings) \in Nat /\ RequiredFunding(o) \in Nat
      BY <3>1, TotalType, RequiredFundingType
    <3> QED
      BY <3>2, <3>3, <3>4, SMT
  <2>2. CASE p \in bRem
    BY <2>1, <2>2, <1>11
  <2>3. CASE p \in sRem
    BY <2>1, <2>3, <1>12
  <2>4. CASE p \in orders
    BY <2>4 DEF IInv, FundedThroughout
  <2> QED
    BY <1>8, <2>2, <2>3, <2>4
<1>23. NeverOverspent'
  <2>1. \A i \in Ids : \/ chain'[i] = chain[i]
                       \/ chain'[i] = bChain
                       \/ chain'[i] = sChain
    BY <1>10
  <2> QED
    BY <2>1, <1>14, <1>15 DEF IInv, NeverOverspent
<1>24. WithinLimit'
  <2>1. \A i \in Ids : \/ chain'[i] = chain[i]
                       \/ chain'[i] = bChain
                       \/ chain'[i] = sChain
    BY <1>10
  <2>2. bChain.side = "Buy"
    BY <1>4, <1>14
  <2> QED
    BY <2>1, <2>2, <1>14, <1>15, <1>17 DEF IInv, WithinLimit
<1> QED
  BY <1>18, <1>19, <1>20, <1>21, <1>22, <1>23, <1>24 DEF IInv

-----------------------------------------------------------------------------
\* The invariant is inductive

LEMMA InitHolds == Init => IInv
<1> SUFFICES ASSUME Init PROVE IInv
  OBVIOUS
<1>1. /\ holdings = GenesisHoldings /\ allocs = {} /\ nextId = Len(Genesis) + 1
      /\ minted = [i \in Instruments |-> 0] /\ now = 0
      /\ pool \in {[market |-> Market, minFillFloor |-> f] : f \in Floors}
      /\ orders = {} /\ chain = [i \in Ids |-> EmptyChain]
  BY DEF Init, RegistryInit
<1>2. GenesisHoldings \subseteq Holding
  <2> SUFFICES ASSUME NEW k \in 1 .. Len(Genesis)
               PROVE  NewHolding(k, Genesis[k].owner, Genesis[k].instrument,
                                 Genesis[k].amount) \in Holding
    BY DEF GenesisHoldings
  <2>1. Genesis[k] \in [owner : Parties, instrument : Instruments,
                        amount : Nat \ {0}]
    BY RegistryAssumption, SeqElement
  <2>2. Len(Genesis) \in Nat
    BY RegistryAssumption
  <2>3. k \in Ids
    BY <2>2, RegistryAssumption, SMT DEF Ids
  <2> QED
    BY <2>1, <2>3 DEF NewHolding, Holding
<1>3. nextId \in Nat \ {0}
  <2>1. Len(Genesis) \in Nat
    BY RegistryAssumption
  <2> QED
    BY <1>1, <2>1
<1>4. pool \in [market : {Market}, minFillFloor : PosNat]
  BY <1>1, DarkPoolAssumption
<1>5. EmptyChain \in Chain
  BY DEF EmptyChain, Chain, Side
<1>6. TypeOK
  <2>1. RegistryTypeOK
    BY <1>1, <1>2, <1>3, RegistryAssumption DEF RegistryTypeOK
  <2> QED
    BY <2>1, <1>1, <1>4, <1>5 DEF TypeOK
<1>7. NeverOverspent
  BY <1>1, SMT DEF NeverOverspent, EmptyChain
<1>8. WithinLimit
  <2>1. 0 * Scale <= 0 * 0
    BY ScaleAssumption, SMT
  <2> QED
    BY <1>1, <2>1 DEF WithinLimit, EmptyChain
<1> QED
  BY <1>1, <1>6, <1>7, <1>8
     DEF IInv, DeclaredOwn, OneActive, Budget, FundedThroughout

LEMMA NextPreserves == IInv /\ [Next]_vars => IInv'
<1> SUFFICES ASSUME IInv, [Next]_vars PROVE IInv'
  OBVIOUS
<1>1. TypeOK /\ RegistryTypeOK
  BY DEF IInv, TypeOK
<1>2. CASE HoldingStep /\ UNCHANGED poolVars
  BY <1>2, HoldingStepPreserves
<1>3. CASE Tick /\ UNCHANGED poolVars
  <2>1. RegistryTypeOK' /\ nextId' >= nextId
    BY <1>1, <1>3, RegistryAssumption, SMT DEF Tick, RegistryTypeOK
  <2> QED
    BY <1>1, <1>3, <2>1, RegistryStepPreserves DEF poolVars, TypeOK
<1>4. CASE \E p \in Parties, t \in OrderTerms :
             \E declared \in InputLists(Own(p)) :
               DarkPool_PlaceOrder(p, t, declared)
  <2>1. PICK p \in Parties, t \in OrderTerms :
               \E declared \in InputLists(Own(p)) :
                 DarkPool_PlaceOrder(p, t, declared)
    BY <1>4
  <2>2. PICK declared \in InputLists(Own(p)) : DarkPool_PlaceOrder(p, t, declared)
    BY <2>1
  <2>3. declared \in Seq(Holding)
    BY <1>1, InputsAreHoldings DEF RegistryTypeOK, Own
  <2>4. t \in Terms /\ pool.market \in Markets
    BY <1>1, <2>2, DarkPoolAssumption DEF TypeOK, DarkPool_PlaceOrder
  <2> QED
    BY <2>2, <2>3, <2>4, RestPreserves DEF DarkPool_PlaceOrder
<1>5. CASE \E p \in Parties, m \in Markets, t \in DirectTerms :
             \E declared \in InputLists(holdings) : CreateOrder(p, m, t, declared)
  <2>1. PICK p \in Parties, m \in Markets, t \in DirectTerms :
               \E declared \in InputLists(holdings) : CreateOrder(p, m, t, declared)
    BY <1>5
  <2>2. PICK declared \in InputLists(holdings) : CreateOrder(p, m, t, declared)
    BY <2>1
  <2>3. declared \in Seq(Holding)
    BY <1>1, InputsAreHoldings DEF RegistryTypeOK
  <2>4. t \in Terms
    BY DarkPoolAssumption
  <2> QED
    BY <2>2, <2>3, <2>4, RestPreserves DEF CreateOrder
<1>6. CASE \E o \in orders : ArchiveOrder(o)
  <2>1. PICK o \in orders : ArchiveOrder(o)
    BY <1>6
  <2>2. TypeOK'
    BY <1>1, <2>1 DEF ArchiveOrder, TypeOK, RegistryTypeOK
  <2> QED
    BY <2>1, <2>2 DEF ArchiveOrder, IInv, DeclaredOwn, OneActive, Budget,
                      FundedThroughout, NeverOverspent, WithinLimit
<1>7. CASE \E o \in orders, price \in LonePrices, cp \in Parties :
             \E qty \in o.minFill .. o.quantity :
               Order_Fill(o, qty, price, cp, now + 1)
  <2>1. PICK o \in orders, price \in LonePrices, cp \in Parties :
               \E qty \in o.minFill .. o.quantity :
                 Order_Fill(o, qty, price, cp, now + 1)
    BY <1>7
  <2>2. PICK qty \in o.minFill .. o.quantity :
               Order_Fill(o, qty, price, cp, now + 1)
    BY <2>1
  <2>3. o.minFill \in Nat /\ o.quantity \in Nat
    BY <1>1 DEF TypeOK, Order, PosNat
  <2>4. qty \in Nat /\ price \in Nat /\ now + 1 \in Nat
    BY <1>1, <2>3, RegistryAssumption, DarkPoolAssumption, SMT
       DEF RegistryTypeOK, PosNat
  <2> QED
    BY <2>2, <2>4, OrderFillPreserves
<1>8. CASE \E b, s \in orders : DarkPool_Match(b, s)
  BY <1>8, MatchPreserves
<1>9. CASE ArchivePool \/ \E f \in Floors : CreatePool(f)
  <2>1. /\ UNCHANGED <<registryVars, orders, chain>>
        /\ pool' = NoPool \/ pool' \in [market : {Market}, minFillFloor : PosNat]
    BY <1>9, DarkPoolAssumption DEF ArchivePool, CreatePool
  <2>2. RegistryTypeOK' /\ nextId' >= nextId
    BY <1>1, <2>1, SMT DEF RegistryTypeOK, registryVars
  <2> QED
    BY <2>1, <2>2, RegistryStepPreserves
<1>10. CASE \E a, b \in allocs : FillAuthority_Settle(a, b)
  BY <1>10, SettlePreserves
<1>11. CASE UNCHANGED vars
  <2>1. RegistryTypeOK' /\ nextId' >= nextId
    BY <1>1, <1>11, SMT DEF RegistryTypeOK, vars
  <2> QED
    BY <1>1, <1>11, <2>1, RegistryStepPreserves DEF vars, TypeOK
<1> QED
  BY <1>2, <1>3, <1>4, <1>5, <1>6, <1>7, <1>8, <1>9, <1>10, <1>11
     DEF Next, TraderStep, PoolStep

THEOREM Invariance == Spec => []IInv
  BY InitHolds, NextPreserves, PTL DEF Spec

-----------------------------------------------------------------------------
\* The theorems

\* Every reachable state is well typed.
THEOREM TypeCorrect == Spec => []TypeOK
<1>1. IInv => TypeOK
  BY DEF IInv
<1> QED
  BY <1>1, Invariance, PTL

\* The funding an order declared at placement covers, through any number of
\* partial fills at any midpoints, all that its remainder can still send.
THEOREM FundingNeverRunsOut == Spec => []FundedThroughout
<1>1. IInv => FundedThroughout
  BY DEF IInv
<1> QED
  BY <1>1, Invariance, PTL

\* No sequence of fills makes a trader send more than the worst case, or fill
\* more than the quantity, of the order the trader signed.
THEOREM SpendingIsBounded == Spec => []NeverOverspent
<1>1. IInv => NeverOverspent
  BY DEF IInv
<1> QED
  BY <1>1, Invariance, PTL

\* Over all its matches every order trades within its limit, up to one tick a
\* match for a seller.
THEOREM LimitsAreRespected == Spec => []WithinLimit
<1>1. IInv => WithinLimit
  BY DEF IInv
<1> QED
  BY <1>1, Invariance, PTL

\* Nothing else takes from the escrow.
LEMMA EscrowStays ==
  ASSUME [Next]_vars, ~(\E a \in allocs : Recover(a)),
         ~(\E a, b \in allocs : FillAuthority_Settle(a, b))
  PROVE  allocs \subseteq allocs'
<1>1. CASE HoldingStep \/ Tick
  BY <1>1 DEF HoldingStep, Mint, Transfer, Tick
<1>2. CASE \E p \in Parties, t \in OrderTerms :
             \E declared \in InputLists(Own(p)) : DarkPool_PlaceOrder(p, t, declared)
  BY <1>2 DEF DarkPool_PlaceOrder, Rest
<1>3. CASE \E p \in Parties, m \in Markets, t \in DirectTerms :
             \E declared \in InputLists(holdings) : CreateOrder(p, m, t, declared)
  BY <1>3 DEF CreateOrder, Rest
<1>4. CASE \E o \in orders : ArchiveOrder(o)
  BY <1>4 DEF ArchiveOrder
<1>5. CASE PoolStep
  BY <1>5 DEF PoolStep, ArchivePool, CreatePool, registryVars
<1>6. CASE \E o \in orders, price \in LonePrices, cp \in Parties :
             \E qty \in o.minFill .. o.quantity : Order_Fill(o, qty, price, cp, now + 1)
  BY <1>6 DEF Order_Fill
<1>7. CASE \E b, s \in orders : DarkPool_Match(b, s)
  BY <1>7 DEF DarkPool_Match
<1>8. CASE UNCHANGED vars
  BY <1>8 DEF vars
<1> QED
  BY <1>1, <1>2, <1>3, <1>4, <1>5, <1>6, <1>7, <1>8 DEF Next, TraderStep

\* What a fill outside a match escrowed goes back to its trader, or against the
\* counterparty's mirrored leg: never one leg alone.
THEOREM EscrowNeverLeaksAlone == Spec => EscrowReturnsOrSettles
<1> DEFINE Paid(p, x) == \E h \in holdings' :
                           /\ h.id >= nextId /\ h.owner = p
                           /\ h.instrument = x.instrument /\ h.amount = x.amount
           Leaves(a) == \/ Paid(a.sender, a)
                        \/ /\ Paid(a.receiver, a)
                           /\ \E b \in allocs \ allocs' : Mirrored(a, b) /\ Paid(a.sender, b)
<1>1. ASSUME IInv, [Next]_vars, NEW a \in allocs \ allocs'
      PROVE  Leaves(a)
  <2>1. nextId \in Nat
    BY <1>1 DEF IInv, TypeOK, RegistryTypeOK
  <2>2. CASE \E x \in allocs : Recover(x)
    <3>1. Recover(a)
      BY <1>1, <2>2 DEF Recover
    <3>2. NewHolding(nextId, a.sender, a.instrument, a.amount) \in holdings'
      BY <3>1 DEF Recover
    <3> QED
      BY <2>1, <3>2 DEF NewHolding
  <2>3. CASE \E x, y \in allocs : FillAuthority_Settle(x, y)
    <3>1. PICK x \in allocs, y \in allocs : FillAuthority_Settle(x, y)
      BY <2>3
    <3>2. /\ Mirrored(x, y) /\ Mirrored(y, x) /\ a \in {x, y}
          /\ x \in allocs \ allocs' /\ y \in allocs \ allocs'
      BY <1>1, <3>1 DEF FillAuthority_Settle, Mirrored
    <3>3. Paid(y.receiver, y) /\ Paid(x.receiver, x)
      <4>1. /\ NewHolding(nextId, y.receiver, y.instrument, y.amount) \in holdings'
            /\ NewHolding(nextId + 1, x.receiver, x.instrument, x.amount) \in holdings'
        BY <3>1 DEF FillAuthority_Settle
      <4>2. Paid(y.receiver, y)
        BY <2>1, <4>1 DEF NewHolding
      <4>3. Paid(x.receiver, x)
        BY <2>1, <4>1 DEF NewHolding
      <4> QED
        BY <4>2, <4>3
    <3>4. x.sender = y.receiver /\ y.sender = x.receiver
      BY <3>2 DEF Mirrored
    <3> HIDE DEF Paid
    <3> QED
      BY <3>2, <3>3, <3>4
  <2>4. \/ \E x \in allocs : Recover(x)
        \/ \E x, y \in allocs : FillAuthority_Settle(x, y)
    BY <1>1, EscrowStays
  <2> QED
    BY <2>2, <2>3, <2>4
<1>2. IInv /\ [Next]_vars =>
        [\A a \in allocs \ allocs' : Leaves(a)]_vars
  BY <1>1
<1> QED
  BY <1>2, Invariance, PTL DEF EscrowReturnsOrSettles, Spec

LEMMA IntactFills ==
  ASSUME IInv, NEW o \in orders, o.placed, ~Expired(o), Intact(o),
         NEW f \in PosNat, NEW price \in PosNat,
         o.minFill <= f, f <= o.quantity,
         PriceWithinLimit(o.side, price, o.limitPrice),
         SentAmount(o.side, f, price) > 0
  PROVE  CanFill(o, f, price, now + 1)
<1> DEFINE sent == SentAmount(o.side, f, price)
<1>1. /\ o \in Order /\ o.holdings \in Seq(Holding) /\ o.side \in Side
      /\ o.quantity \in Nat /\ o.limitPrice \in Nat
  BY DEF IInv, TypeOK, Order, PosNat
<1>2. /\ sent \in Nat /\ Required(o.side, o.quantity - f, o.limitPrice) \in Nat
      /\ sent + Required(o.side, o.quantity - f, o.limitPrice)
           <= RequiredFunding(o)
  BY <1>1, RequiredCarries DEF RequiredFunding, PosNat
<1>3. Total(o.holdings) >= RequiredFunding(o)
  BY DEF IInv, FundedThroughout
<1>4. Total(o.holdings) \in Nat /\ RequiredFunding(o) \in Nat
  BY <1>1, TotalType, RequiredFundingType
<1> HIDE DEF sent
<1>5. Total(o.holdings) >= sent
  BY <1>2, <1>3, <1>4, SMT
<1>6. o.holdings # << >>
  <2>1. sent > 0
    BY DEF sent
  <2>2. Total(o.holdings) # 0
    BY <1>2, <1>4, <1>5, <2>1, SMT
  <2> QED
    BY <2>2, TotalEmpty
<1>7. now < now + 1
  BY DEF IInv, TypeOK, RegistryTypeOK
<1>8. CanSpend(o.holdings, FundingInstrument(o.market, o.side), o.trader, sent)
  BY <1>5 DEF CanSpend, Intact, IInv, DeclaredOwn, Range
<1>9. price > 0 /\ sent > 0
  BY DEF PosNat, sent
<1> QED
  BY <1>6, <1>7, <1>8, <1>9 DEF CanFill, CanAllocate, sent

\* Two pool-placed orders that the pool can pair and whose traders left their
\* declared holdings alone do settle, whatever fills each has been through.
THEOREM CrossingOrdersSettle == Spec => []Settleable
<1>1. ASSUME IInv PROVE Settleable
  <2> SUFFICES ASSUME NEW b \in orders, NEW s \in orders,
                      b.placed, s.placed, CanPair(b, s),
                      ~Expired(b), ~Expired(s), Intact(b), Intact(s),
                      QuoteAmount(MatchQty(b, s), MatchPrice(b, s)) > 0
               PROVE  CanMatch(b, s)
    BY DEF Settleable
  <2>1. /\ MatchQty(b, s) \in PosNat /\ MatchPrice(b, s) \in PosNat
        /\ MatchQty(b, s) <= b.quantity /\ MatchQty(b, s) <= s.quantity
        /\ PriceWithinLimit(b.side, MatchPrice(b, s), b.limitPrice)
        /\ PriceWithinLimit(s.side, MatchPrice(b, s), s.limitPrice)
        /\ SentAmount(b.side, MatchQty(b, s), MatchPrice(b, s)) > 0
        /\ SentAmount(s.side, MatchQty(b, s), MatchPrice(b, s)) > 0
    BY <1>1, PairFacts DEF PosNat
  <2>2. MatchQty(b, s) >= b.minFill /\ MatchQty(b, s) >= s.minFill
    BY DEF CanPair
  <2>3. b.minFill <= MatchQty(b, s) /\ s.minFill <= MatchQty(b, s)
    <3>1. b.minFill \in Nat /\ s.minFill \in Nat /\ MatchQty(b, s) \in Nat
      BY <1>1, <2>1 DEF IInv, TypeOK, Order, PosNat
    <3> QED
      BY <2>2, <3>1, SMT
  <2>4. CanFill(b, MatchQty(b, s), MatchPrice(b, s), now + 1)
    BY <1>1, <2>1, <2>3, IntactFills
  <2>5. CanFill(s, MatchQty(b, s), MatchPrice(b, s), now + 1)
    BY <1>1, <2>1, <2>3, IntactFills
  <2> QED
    BY <2>4, <2>5 DEF CanMatch
<1> QED
  BY <1>1, Invariance, PTL

-----------------------------------------------------------------------------
\* What the steps that consume orders do to holdings and orders

\* Only fills and matches change orders and holdings together.
LEMMA OrdersOrHoldings ==
  ASSUME [Next]_vars,
         ~(\E o \in orders, price \in LonePrices, cp \in Parties :
             \E qty \in o.minFill .. o.quantity : Order_Fill(o, qty, price, cp, now + 1)),
         ~(\E b, s \in orders : DarkPool_Match(b, s))
  PROVE  orders' = orders \/ holdings' = holdings
<1>1. CASE HoldingStep /\ UNCHANGED poolVars
  BY <1>1 DEF poolVars
<1>2. CASE Tick
  BY <1>2 DEF Tick
<1>3. CASE \E p \in Parties, t \in OrderTerms :
             \E declared \in InputLists(Own(p)) : DarkPool_PlaceOrder(p, t, declared)
  BY <1>3 DEF DarkPool_PlaceOrder, Rest
<1>4. CASE \E p \in Parties, m \in Markets, t \in DirectTerms :
             \E declared \in InputLists(holdings) : CreateOrder(p, m, t, declared)
  BY <1>4 DEF CreateOrder, Rest
<1>5. CASE \E o \in orders : ArchiveOrder(o)
  BY <1>5 DEF ArchiveOrder
<1>6. CASE PoolStep
  BY <1>6 DEF PoolStep, ArchivePool, CreatePool
<1>7. CASE \E a, b \in allocs : FillAuthority_Settle(a, b)
  BY <1>7 DEF FillAuthority_Settle, poolVars
<1>8. CASE UNCHANGED vars
  BY <1>8 DEF vars
<1> QED
  BY <1>1, <1>2, <1>3, <1>4, <1>5, <1>6, <1>7, <1>8 DEF Next, TraderStep

\* A fill spends its own trader's holdings, and what it leaves is another order.
LEMMA FillConsumes ==
  ASSUME NEW o \in Order, NEW f \in PosNat, NEW price \in Nat, NEW d,
         CanFill(o, f, price, d), NEW id \in Ids, NEW id2 \in Ids
  PROVE  /\ \A h \in Range(o.holdings) : h.owner = o.trader
         /\ \A r \in Remainder(o, f, FillChange(o, f, price, id), id2) :
              r.quantity < o.quantity
<1>1. \A h \in Range(o.holdings) : h.owner = o.trader
  BY DEF CanFill, CanAllocate, CanSpend, Range
<1>2. \A r \in Remainder(o, f, FillChange(o, f, price, id), id2) :
        r.quantity = o.quantity - f
  BY RemainderFacts DEF PosNat
<1>3. o.quantity \in Nat /\ f \in Nat /\ f > 0
  BY DEF Order, PosNat
<1> QED
  BY <1>1, <1>2, <1>3

\* In a step that consumes orders, only what they declared is spent.
THEOREM OnlyDeclaredIsSpent == Spec => OnlyDeclaredSpent
<1> DEFINE Declared(h) == \E o \in orders \ orders' :
                            o.trader = h.owner /\ h \in Range(o.holdings)
<1>1. ASSUME IInv, [Next]_vars, orders' # orders, NEW h \in holdings \ holdings'
      PROVE  Declared(h)
  <2>0. TypeOK /\ RegistryTypeOK
    BY <1>1 DEF IInv, TypeOK
  <2>1. CASE \E o \in orders, price \in LonePrices, cp \in Parties :
               \E qty \in o.minFill .. o.quantity :
                 Order_Fill(o, qty, price, cp, now + 1)
    <3>1. PICK o \in orders, price \in LonePrices, cp \in Parties :
            \E qty \in o.minFill .. o.quantity : Order_Fill(o, qty, price, cp, now + 1)
      BY <2>1
    <3>2. PICK f \in o.minFill .. o.quantity : Order_Fill(o, f, price, cp, now + 1)
      BY <3>1
    <3>3. o \in Order /\ o.minFill \in PosNat /\ o.quantity \in PosNat
      BY <2>0 DEF TypeOK, Order
    <3>4. f \in PosNat /\ price \in Nat
      BY <3>2, <3>3, DarkPoolAssumption, SMT DEF PosNat
    <3>5. nextId \in Ids /\ nextId + 1 \in Ids
      BY <2>0, <3>2, RegistryAssumption, SMT DEF Order_Fill, RegistryTypeOK, Ids
    <3>6. /\ \A g \in Range(o.holdings) : g.owner = o.trader
          /\ \A r \in Remainder(o, f, FillChange(o, f, price, nextId), nextId + 1) :
               r.quantity < o.quantity
      BY <3>2, <3>3, <3>4, <3>5, FillConsumes DEF Order_Fill
    <3>7. o \notin Remainder(o, f, FillChange(o, f, price, nextId), nextId + 1)
      BY <3>3, <3>6 DEF PosNat
    <3>8. o \in orders \ orders' /\ h \in Range(o.holdings)
      BY <1>1, <3>2, <3>7 DEF Order_Fill
    <3> QED
      BY <3>6, <3>8
  <2>2. CASE \E b, s \in orders : DarkPool_Match(b, s)
    <3>1. PICK b \in orders, s \in orders : DarkPool_Match(b, s)
      BY <2>2
    <3> DEFINE qty == MatchQty(b, s)
               price == MatchPrice(b, s)
               bRem == Remainder(b, qty, FillChange(b, qty, price, nextId), nextId)
               sRem == Remainder(s, qty, FillChange(s, qty, price, nextId + 1), nextId + 1)
    <3>2. CanPair(b, s) /\ CanFill(b, qty, price, now + 1) /\ CanFill(s, qty, price, now + 1)
      BY <3>1 DEF DarkPool_Match, CanMatch
    <3>3. /\ b \in Order /\ s \in Order /\ b.side = "Buy" /\ s.side = "Sell"
          /\ b.quantity \in Nat /\ s.quantity \in Nat
          /\ qty \in PosNat /\ price \in Nat
      BY <1>1, <3>2, PairFacts DEF Order, PosNat
    <3>4. nextId \in Ids /\ nextId + 1 \in Ids
      BY <2>0, <3>1, RegistryAssumption, SMT DEF DarkPool_Match, RegistryTypeOK, Ids
    <3>5. /\ \A g \in Range(b.holdings) : g.owner = b.trader
          /\ \A g \in Range(s.holdings) : g.owner = s.trader
          /\ \A r \in bRem : r.quantity < b.quantity /\ r.side = b.side
          /\ \A r \in sRem : r.quantity < s.quantity /\ r.side = s.side
      <4>1. /\ \A r \in bRem : r.side = b.side
            /\ \A r \in sRem : r.side = s.side
        BY <3>2, <3>3, <3>4, RemainderFacts DEF PosNat
      <4> QED
        BY <3>2, <3>3, <3>4, <4>1, FillConsumes
    <3>6. orders' = (orders \ {b, s}) \cup bRem \cup sRem
      BY <3>1 DEF DarkPool_Match
    <3>7. holdings \ holdings' \subseteq Range(b.holdings) \cup Range(s.holdings)
      BY <3>1 DEF DarkPool_Match
    <3> HIDE DEF bRem, sRem, qty, price
    <3>8. b \notin orders' /\ s \notin orders'
      BY <3>3, <3>5, <3>6
    <3> QED
      BY <1>1, <3>5, <3>7, <3>8
  <2> QED
    BY <1>1, <2>1, <2>2, OrdersOrHoldings
<1>2. IInv /\ [Next]_vars =>
        [orders' # orders => \A h \in holdings \ holdings' : Declared(h)]_vars
  BY <1>1
<1> QED
  BY <1>2, Invariance, PTL DEF OnlyDeclaredSpent, Spec

\* Ids are given once: what a step creates has an id no holding had.
FreshIds == \A h \in holdings : h.id < nextId

LEMMA NewIds ==
  ASSUME IInv, [Next]_vars
  PROVE  nextId' >= nextId /\ \A h \in holdings' \ holdings : h.id < nextId'
<1> USE DEF NewHolding
<1>0. TypeOK /\ RegistryTypeOK /\ nextId \in Nat
  BY DEF IInv, TypeOK, RegistryTypeOK
<1>1. ASSUME NEW inputs, NEW i, NEW p, NEW amount, NEW id \in Nat
      PROVE  \A h \in Range(Change(inputs, i, p, amount, id)) : h.id = id
  BY DEF Change, Range
<1>2. CASE HoldingStep
  <2>1. ASSUME NEW p \in Parties, NEW i \in Instruments, NEW amt \in Amounts, Mint(p, i, amt)
        PROVE  nextId' >= nextId /\ \A h \in holdings' \ holdings : h.id < nextId'
    BY <1>0, <2>1 DEF Mint
  <2>2. ASSUME NEW p \in Parties, NEW q \in Parties, NEW i \in Instruments, NEW amt \in Amounts,
               NEW inputs, Transfer(p, inputs, i, q, amt)
        PROVE  nextId' >= nextId /\ \A h \in holdings' \ holdings : h.id < nextId'
    BY <1>0, <1>1, <2>2 DEF Transfer
  <2>3. ASSUME NEW a \in allocs, Recover(a)
        PROVE  nextId' >= nextId /\ \A h \in holdings' \ holdings : h.id < nextId'
    BY <1>0, <2>3 DEF Recover
  <2> QED
    BY <1>2, <2>1, <2>2, <2>3 DEF HoldingStep
<1>3. CASE UNCHANGED <<holdings, nextId>>
  BY <1>0, <1>3
<1>4. ASSUME NEW trader, NEW market, NEW t, NEW declared, NEW placed,
             Rest(trader, market, t, declared, placed)
      PROVE  nextId' >= nextId /\ \A h \in holdings' \ holdings : h.id < nextId'
  BY <1>0, <1>4 DEF Rest
<1>5. ASSUME NEW o \in orders, NEW f, NEW price, NEW cp, NEW d, Order_Fill(o, f, price, cp, d)
      PROVE  nextId' >= nextId /\ \A h \in holdings' \ holdings : h.id < nextId'
  BY <1>0, <1>1, <1>5 DEF Order_Fill, FillChange
<1>6. ASSUME NEW b \in orders, NEW s \in orders, DarkPool_Match(b, s)
      PROVE  nextId' >= nextId /\ \A h \in holdings' \ holdings : h.id < nextId'
  <2>1. /\ \A h \in Range(FillChange(b, MatchQty(b, s), MatchPrice(b, s), nextId)) :
             h.id = nextId
        /\ \A h \in Range(FillChange(s, MatchQty(b, s), MatchPrice(b, s), nextId + 1)) :
             h.id = nextId + 1
    BY <1>0, <1>1 DEF FillChange
  <2> QED
    BY <1>0, <1>6, <2>1 DEF DarkPool_Match
<1>7. ASSUME NEW a \in allocs, NEW b \in allocs, FillAuthority_Settle(a, b)
      PROVE  nextId' >= nextId /\ \A h \in holdings' \ holdings : h.id < nextId'
  BY <1>0, <1>7 DEF FillAuthority_Settle
<1> QED
  BY <1>2, <1>3, <1>4, <1>5, <1>6, <1>7
  DEF Next, TraderStep, PoolStep, Tick, DarkPool_PlaceOrder, CreateOrder, ArchiveOrder,
      ArchivePool, CreatePool, registryVars, vars

LEMMA IdsAreFresh == Spec => []FreshIds
<1>1. Init => FreshIds
  <2> SUFFICES ASSUME Init, NEW h \in holdings PROVE h.id < nextId
    BY DEF FreshIds
  <2>1. PICK k \in 1 .. Len(Genesis) : h.id = k
    BY DEF Init, RegistryInit, GenesisHoldings, NewHolding
  <2>2. Len(Genesis) \in Nat /\ nextId = Len(Genesis) + 1
    BY RegistryAssumption DEF Init, RegistryInit
  <2> QED
    BY <2>1, <2>2
<1>2. IInv /\ IInv' /\ FreshIds /\ [Next]_vars => FreshIds'
  <2> SUFFICES ASSUME IInv, IInv', FreshIds, [Next]_vars, NEW h \in holdings'
               PROVE  h.id < nextId'
    BY DEF FreshIds
  <2>1. h.id \in Nat /\ nextId \in Nat /\ nextId' \in Nat
    BY DEF IInv, TypeOK, RegistryTypeOK, Holding, Ids
  <2>2. CASE h \in holdings
    BY <2>1, <2>2, NewIds DEF FreshIds
  <2>3. CASE h \notin holdings
    BY <2>3, NewIds
  <2> QED
    BY <2>2, <2>3
<1> QED
  BY <1>1, <1>2, Invariance, PTL DEF Spec

\* A match adds its quantity to what the chain has filled.
LEMMA AddMatchFills ==
  ASSUME NEW c \in Chain, NEW sent, NEW got, NEW qty \in Nat
  PROVE  AddMatch(c, sent, got, qty).filled = c.filled + qty
BY DEF AddMatch, Chain

\* What a remainder is to the order it replaces.
Inherits(r, o) ==
  /\ r = [o EXCEPT !.id = r.id, !.quantity = r.quantity, !.holdings = r.holdings]
  /\ r.minFill <= r.quantity
  /\ r.quantity + chain'[o.origin].filled = o.quantity + chain[o.origin].filled
  /\ Range(r.holdings) \subseteq holdings' \ holdings

\* One fill's remainder inherits, if the chain and the holdings moved so.
LEMMA FillInherits ==
  ASSUME IInv, FreshIds, NEW o \in orders, NEW f \in PosNat, NEW price \in Nat, NEW d,
         CanFill(o, f, price, d), NEW id \in Ids, NEW id2 \in Ids, id >= nextId,
         NEW r \in Remainder(o, f, FillChange(o, f, price, id), id2),
         chain'[o.origin].filled = chain[o.origin].filled + f,
         Range(FillChange(o, f, price, id)) \subseteq holdings'
  PROVE  Inherits(r, o)
<1>1. /\ o \in Order /\ o.quantity \in Nat /\ o.origin \in Ids
      /\ chain[o.origin] \in Chain /\ nextId \in Nat /\ holdings \subseteq Holding
  BY DEF IInv, TypeOK, RegistryTypeOK, Order, PosNat
<1>2. chain[o.origin].filled \in Nat /\ f \in Nat
  BY <1>1 DEF Chain, PosNat
<1>3. /\ r.quantity = o.quantity - f /\ r.minFill <= r.quantity
      /\ r.holdings = FillChange(o, f, price, id)
  BY <1>1, RemainderFacts DEF PosNat
<1>4. f <= o.quantity
  BY DEF CanFill
<1>5. r = [o EXCEPT !.id = id2, !.quantity = r.quantity, !.holdings = r.holdings]
  BY <1>1, <1>2, <1>3, <1>4, RemainderShape
<1>6. r = [o EXCEPT !.id = r.id, !.quantity = r.quantity, !.holdings = r.holdings]
  BY <1>1, <1>5 DEF Order
<1>7. \A h \in Range(r.holdings) : h.id = id
  BY <1>3 DEF FillChange, Change, NewHolding, Range
<1>8. \A h \in Range(r.holdings) : h \notin holdings
  <2>1. \A h \in holdings : h.id \in Nat /\ h.id < nextId
    BY <1>1 DEF FreshIds, Holding, Ids
  <2>2. id \in Nat
    BY DEF Ids
  <2> QED
    BY <1>1, <1>7, <2>1, <2>2
<1> QED
  BY <1>2, <1>1, <1>3, <1>4, <1>6, <1>8 DEF Inherits

\* Orders with an earlier origin are remainders of fills.
LEMMA OnlyFillsInherit ==
  ASSUME [Next]_vars, NEW r \in orders' \ orders, r.origin # r.id,
         ~(\E o \in orders, price \in LonePrices, cp \in Parties :
             \E qty \in o.minFill .. o.quantity : Order_Fill(o, qty, price, cp, now + 1))
  PROVE  \E b, s \in orders : DarkPool_Match(b, s)
<1>1. ASSUME NEW trader, NEW market, NEW t, NEW declared, NEW placed,
             Rest(trader, market, t, declared, placed)
      PROVE  FALSE
  BY <1>1 DEF Rest, NewOrder
<1> QED
  BY <1>1
  DEF Next, TraderStep, PoolStep, HoldingStep, Tick, DarkPool_PlaceOrder, CreateOrder,
      ArchiveOrder, ArchivePool, CreatePool, FillAuthority_Settle, poolVars, registryVars, vars

\* A remainder replaces one order of its origin, on its signed terms, for what
\* the fill left of it, and declares the change this step created and no more.
THEOREM RemaindersInherit == Spec => RemainderInherits
<1>1. ASSUME IInv, FreshIds, [Next]_vars, NEW r \in orders' \ orders, r.origin # r.id
      PROVE  \E o \in orders \ orders' : Inherits(r, o)
  <2>0. TypeOK /\ RegistryTypeOK
    BY <1>1 DEF IInv, TypeOK
  <2>1. CASE \E o \in orders, price \in LonePrices, cp \in Parties :
               \E qty \in o.minFill .. o.quantity :
                 Order_Fill(o, qty, price, cp, now + 1)
    <3>1. PICK o \in orders, price \in LonePrices, cp \in Parties :
            \E qty \in o.minFill .. o.quantity : Order_Fill(o, qty, price, cp, now + 1)
      BY <2>1
    <3>2. PICK f \in o.minFill .. o.quantity : Order_Fill(o, f, price, cp, now + 1)
      BY <3>1
    <3> DEFINE change == FillChange(o, f, price, nextId)
               rem == Remainder(o, f, change, nextId + 1)
    <3>3. /\ o \in Order /\ o.minFill \in PosNat /\ o.quantity \in PosNat
          /\ o.origin \in Ids /\ chain \in [Ids -> Chain]
      BY <2>0 DEF TypeOK, Order
    <3>4. f \in PosNat /\ price \in Nat
      BY <3>2, <3>3, DarkPoolAssumption, SMT DEF PosNat
    <3>5. nextId \in Ids /\ nextId + 1 \in Ids
      BY <2>0, <3>2, RegistryAssumption, SMT DEF Order_Fill, RegistryTypeOK, Ids
    <3>6. /\ CanFill(o, f, price, now + 1)
          /\ orders' = (orders \ {o}) \cup rem
          /\ Range(change) \subseteq holdings'
      BY <3>2 DEF Order_Fill
    <3>7. chain'[o.origin].filled = chain[o.origin].filled + f
      BY <3>2, <3>3 DEF Order_Fill, Chain
    <3>8. r \in rem
      BY <1>1, <3>6
    <3>9. Inherits(r, o)
      BY <1>1, <3>4, <3>5, <3>6, <3>7, <3>8, FillInherits DEF Ids
    <3>10. o \notin orders'
      <4>1. \A q \in rem : q.quantity < o.quantity
        BY <3>3, <3>4, <3>5, <3>6, FillConsumes
      <4> HIDE DEF rem
      <4> QED
        BY <3>3, <3>6, <4>1 DEF PosNat
    <3> QED
      BY <3>9, <3>10
  <2>2. CASE \E b, s \in orders : DarkPool_Match(b, s)
    <3>1. PICK b \in orders, s \in orders : DarkPool_Match(b, s)
      BY <2>2
    <3> DEFINE qty == MatchQty(b, s)
               price == MatchPrice(b, s)
               bChange == FillChange(b, qty, price, nextId)
               sChange == FillChange(s, qty, price, nextId + 1)
               bRem == Remainder(b, qty, bChange, nextId)
               sRem == Remainder(s, qty, sChange, nextId + 1)
    <3>2. CanPair(b, s) /\ CanFill(b, qty, price, now + 1) /\ CanFill(s, qty, price, now + 1)
      BY <3>1 DEF DarkPool_Match, CanMatch
    <3>3. /\ b \in Order /\ s \in Order /\ b.side = "Buy" /\ s.side = "Sell"
          /\ b.origin # s.origin /\ b.origin \in Ids /\ s.origin \in Ids
          /\ b.quantity \in Nat /\ s.quantity \in Nat
          /\ qty \in PosNat /\ price \in Nat /\ chain \in [Ids -> Chain]
      BY <1>1, <2>0, <3>2, PairFacts DEF Order, PosNat, TypeOK
    <3>4. /\ nextId \in Ids /\ nextId + 1 \in Ids
          /\ nextId >= nextId /\ nextId + 1 >= nextId
      BY <2>0, <3>1, RegistryAssumption, SMT DEF DarkPool_Match, RegistryTypeOK, Ids
    <3>5. /\ \A q \in bRem : q.quantity < b.quantity /\ q.side = b.side
          /\ \A q \in sRem : q.quantity < s.quantity /\ q.side = s.side
      <4>1. /\ \A q \in bRem : q.side = b.side
            /\ \A q \in sRem : q.side = s.side
        BY <3>2, <3>3, <3>4, RemainderFacts DEF PosNat
      <4> QED
        BY <3>2, <3>3, <3>4, <4>1, FillConsumes
    <3>6. /\ orders' = (orders \ {b, s}) \cup bRem \cup sRem
          /\ Range(bChange) \subseteq holdings' /\ Range(sChange) \subseteq holdings'
      BY <3>1 DEF DarkPool_Match
    <3>7. /\ chain'[b.origin].filled = chain[b.origin].filled + qty
          /\ chain'[s.origin].filled = chain[s.origin].filled + qty
      <4>1. /\ chain'[b.origin] = AddMatch(chain[b.origin], QuoteAmount(qty, price), qty, qty)
            /\ chain'[s.origin] = AddMatch(chain[s.origin], qty, QuoteAmount(qty, price), qty)
        BY <3>1, <3>3 DEF DarkPool_Match
      <4>2. QuoteAmount(qty, price) \in Nat
        BY <1>1, <3>2, PairFacts DEF PosNat
      <4>3. chain[b.origin] \in Chain /\ chain[s.origin] \in Chain /\ qty \in Nat
        BY <3>3 DEF PosNat
      <4> HIDE DEF qty, price
      <4>4. chain'[b.origin].filled = chain[b.origin].filled + qty
        BY <4>1, <4>2, <4>3, AddMatchFills
      <4>5. chain'[s.origin].filled = chain[s.origin].filled + qty
        BY <4>1, <4>2, <4>3, AddMatchFills
      <4> QED
        BY <4>4, <4>5
    <3>8. b \notin orders' /\ s \notin orders'
      <4> HIDE DEF bRem, sRem, qty, price
      <4> QED
        BY <3>3, <3>5, <3>6
    <3>9. CASE r \in bRem
      <4>1. Inherits(r, b)
        BY <1>1, <3>2, <3>3, <3>4, <3>6, <3>7, <3>9, FillInherits
      <4> QED
        BY <3>8, <4>1
    <3>10. CASE r \in sRem
      <4>1. Inherits(r, s)
        BY <1>1, <3>2, <3>3, <3>4, <3>6, <3>7, <3>10, FillInherits
      <4> QED
        BY <3>8, <4>1
    <3> QED
      BY <1>1, <3>6, <3>9, <3>10
  <2> QED
    BY <1>1, <2>1, <2>2, OnlyFillsInherit
<1>2. IInv /\ FreshIds /\ [Next]_vars =>
        [\A r \in orders' \ orders :
           r.origin # r.id => \E o \in orders \ orders' : Inherits(r, o)]_vars
  BY <1>1
<1> QED
  BY <1>2, Invariance, IdsAreFresh, PTL DEF RemainderInherits, Inherits, Spec

\* A match leaves of each of its orders less than there was, if anything.
LEMMA MatchShrinks ==
  ASSUME IInv, NEW b \in orders, NEW s \in orders, DarkPool_Match(b, s),
         NEW r \in orders' \ (orders \ {b, s})
  PROVE  \/ r.origin = b.origin /\ r.quantity < b.quantity
         \/ r.origin = s.origin /\ r.quantity < s.quantity
<1> DEFINE qty == MatchQty(b, s)
           price == MatchPrice(b, s)
           bRem == Remainder(b, qty, FillChange(b, qty, price, nextId), nextId)
           sRem == Remainder(s, qty, FillChange(s, qty, price, nextId + 1), nextId + 1)
<1>0. RegistryTypeOK
  BY DEF IInv, TypeOK
<1>1. CanPair(b, s) /\ CanFill(b, qty, price, now + 1) /\ CanFill(s, qty, price, now + 1)
  BY DEF DarkPool_Match, CanMatch
<1>2. /\ b \in Order /\ s \in Order /\ qty \in PosNat /\ qty \in Nat /\ price \in Nat
  BY <1>1, PairFacts DEF PosNat
<1>3. nextId \in Ids /\ nextId + 1 \in Ids
  BY <1>0, RegistryAssumption, SMT DEF DarkPool_Match, RegistryTypeOK, Ids
<1>4. /\ \A q \in bRem : q.origin = b.origin
      /\ \A q \in sRem : q.origin = s.origin
  BY <1>1, <1>2, <1>3, RemainderFacts
<1>5. /\ \A q \in bRem : q.quantity < b.quantity
      /\ \A q \in sRem : q.quantity < s.quantity
  BY <1>1, <1>2, <1>3, FillConsumes
<1>6. orders' = (orders \ {b, s}) \cup bRem \cup sRem
  BY DEF DarkPool_Match
<1> QED
  BY <1>4, <1>5, <1>6

\* So does a fill; every other new order begins a chain.
LEMMA ChainsShrink ==
  ASSUME IInv, [Next]_vars, NEW r \in orders' \ orders
  PROVE  \/ r.origin = nextId
         \/ \E o \in orders : r.origin = o.origin /\ r.quantity < o.quantity
<1>0. TypeOK /\ RegistryTypeOK
  BY DEF IInv, TypeOK
<1>1. CASE \E o \in orders, price \in LonePrices, cp \in Parties :
             \E qty \in o.minFill .. o.quantity : Order_Fill(o, qty, price, cp, now + 1)
  <2>1. PICK o \in orders, price \in LonePrices, cp \in Parties :
          \E qty \in o.minFill .. o.quantity : Order_Fill(o, qty, price, cp, now + 1)
    BY <1>1
  <2>2. PICK f \in o.minFill .. o.quantity : Order_Fill(o, f, price, cp, now + 1)
    BY <2>1
  <2> DEFINE rem == Remainder(o, f, FillChange(o, f, price, nextId), nextId + 1)
  <2>3. o \in Order /\ o.minFill \in PosNat /\ o.quantity \in PosNat
    BY <1>0 DEF TypeOK, Order
  <2>4. f \in PosNat /\ f \in Nat /\ price \in Nat
    BY <2>2, <2>3, DarkPoolAssumption, SMT DEF PosNat
  <2>5. nextId \in Ids /\ nextId + 1 \in Ids
    BY <1>0, <2>2, RegistryAssumption, SMT DEF Order_Fill, RegistryTypeOK, Ids
  <2>6. CanFill(o, f, price, now + 1) /\ orders' = (orders \ {o}) \cup rem
    BY <2>2 DEF Order_Fill
  <2>7. \A q \in rem : q.origin = o.origin
    BY <2>3, <2>4, <2>5, <2>6, RemainderFacts
  <2>8. \A q \in rem : q.quantity < o.quantity
    BY <2>3, <2>4, <2>5, <2>6, FillConsumes
  <2> QED
    BY <2>6, <2>7, <2>8
<1>2. ASSUME NEW b \in orders, NEW s \in orders, DarkPool_Match(b, s)
      PROVE  \E o \in orders : r.origin = o.origin /\ r.quantity < o.quantity
  BY <1>2, MatchShrinks
<1>3. ASSUME NEW trader, NEW market, NEW t, NEW declared, NEW placed,
             Rest(trader, market, t, declared, placed)
      PROVE  r.origin = nextId
  BY <1>3 DEF Rest, NewOrder
<1> QED
  BY <1>1, <1>2, <1>3
  DEF Next, TraderStep, PoolStep, HoldingStep, Tick, DarkPool_PlaceOrder, CreateOrder,
      ArchiveOrder, ArchivePool, CreatePool, FillAuthority_Settle, poolVars, registryVars, vars

-----------------------------------------------------------------------------
\* What the transactions of the pool do to what the parties are worth

\* Two parties pay each other: n of instrument i against m of instrument j.
Swaps(p, i, n, q, j, m) ==
  \A Q, k : Worths(Q, k)'
    = (((Worths(Q, k) - Share(p, i, n, Q, k)) + Share(q, i, n, Q, k))
         - Share(q, j, m, Q, k)) + Share(p, j, m, Q, k)

\* A fill outside a match escrows the leg and keeps the change.
LEMMA OrderFillWorth ==
  ASSUME IInv, LedgerInv, NEW o \in orders, NEW f \in Nat, NEW price \in Nat,
         NEW cp \in Parties, NEW d \in Nat, Order_Fill(o, f, price, cp, d)
  PROVE  LedgerInv' /\ Keeps
<1> DEFINE sent == SentAmount(o.side, f, price)
           i == FundingInstrument(o.market, o.side)
<1>1. o \in Order /\ o.trader \in Parties /\ o.holdings \in Seq(Holding)
  BY DEF IInv, TypeOK, Order
<1>2. i \in Instruments /\ LegOf(o.side) \in Legs
  BY <1>1, MarketFacts DEF LegOf, Legs
<1>3. CanFill(o, f, price, d) /\ sent \in Nat \ {0}
  BY <1>1, FillSends DEF Order_Fill, PosNat
<1>4. Spendable(holdings, o.holdings, i, o.trader, sent)
  BY <1>1, <1>3 DEF CanFill, CanAllocate, CanSpend, Spendable
<1>5. /\ nextId \in Nat /\ nextId <= MaxId /\ nextId' \in Nat /\ nextId + 1 <= nextId'
  BY RegistryAssumption DEF LedgerInv, RegistryTypeOK, Order_Fill
<1>6. /\ holdings' = Spent(holdings, o.holdings, i, o.trader, sent, nextId)
      /\ allocs' = allocs \cup
           {[id |-> nextId, sender |-> o.trader, receiver |-> cp, instrument |-> i,
             amount |-> sent, leg |-> LegOf(o.side), settleBefore |-> d]}
      /\ UNCHANGED <<minted, now>>
  BY DEF Order_Fill, FillChange, Spent
<1> HIDE DEF sent, i
<1> QED BY <1>1, <1>2, <1>3, <1>4, <1>5, <1>6, EscrowedWorth DEF Keeps

\* Two fills settled with each other are a swap of what they had escrowed.
LEMMA SettleWorth ==
  ASSUME LedgerInv, NEW a \in allocs, NEW b \in allocs, FillAuthority_Settle(a, b)
  PROVE  /\ LedgerInv'
         /\ Swaps(a.sender, a.instrument, a.amount, b.sender, b.instrument, b.amount)
<1> DEFINE A1 == allocs \ {a}
           A2 == A1 \ {b}
           h1 == NewHolding(nextId, b.receiver, b.instrument, b.amount)
           h2 == NewHolding(nextId + 1, a.receiver, a.instrument, a.amount)
           H1 == holdings \cup {h1}
           H2 == H1 \cup {h2}
<1>1. /\ a \in Allocation /\ b \in Allocation
      /\ b.receiver = a.sender /\ a.receiver = b.sender /\ a.sender # b.sender
  BY DEF LedgerInv, RegistryTypeOK, FillAuthority_Settle, Mirrored
<1>2. /\ nextId \in Ids /\ nextId \in Nat /\ nextId + 1 \in Ids /\ nextId + 1 \in Nat
      /\ nextId' = (nextId + 1) + 1 /\ nextId' \in Nat \ {0} /\ nextId <= nextId'
  BY RegistryAssumption DEF LedgerInv, RegistryTypeOK, FillAuthority_Settle, Ids
<1>3. /\ h1 \in Holding /\ h1.id = nextId /\ h1.owner = a.sender
      /\ h1.instrument = b.instrument /\ h1.amount = b.amount
      /\ h2 \in Holding /\ h2.id = nextId + 1 /\ h2.owner = b.sender
      /\ h2.instrument = a.instrument /\ h2.amount = a.amount
  BY <1>1, <1>2 DEF NewHolding, Holding, Allocation
<1>4. b \in A1
  BY <1>1
<1>5. holdings' = H2 /\ allocs' = A2 /\ UNCHANGED <<minted, now>>
  BY DEF FillAuthority_Settle
<1> HIDE DEF h1, h2
<1>6. /\ SomeAllocs(A1, nextId)
      /\ \A Q, k : Worth(holdings, A1, Q, k)
           = Worth(holdings, allocs, Q, k) - Share(a.sender, a.instrument, a.amount, Q, k)
  BY ReleaseWorth DEF LedgerInv
<1> HIDE DEF A1
<1>7. /\ SomeAllocs(A2, nextId)
      /\ \A Q, k : Worth(holdings, A2, Q, k)
           = Worth(holdings, A1, Q, k) - Share(b.sender, b.instrument, b.amount, Q, k)
  BY <1>4, <1>6, ReleaseWorth DEF LedgerInv
<1> HIDE DEF A2
<1>8. h1 \notin holdings /\ SomeHoldings(H1, nextId + 1)
  BY <1>2, <1>3, NewHoldingFits DEF LedgerInv
<1>9. \A Q, k : Worth(H1, A2, Q, k)
        = Worth(holdings, A2, Q, k) + Share(h1.owner, h1.instrument, h1.amount, Q, k)
  BY <1>3, <1>7, <1>8, GainWorth DEF LedgerInv
<1> HIDE DEF H1
<1>10. h2 \notin H1 /\ SomeHoldings(H2, nextId')
  BY <1>2, <1>3, <1>8, NewHoldingFits
<1>11. \A Q, k : Worth(H2, A2, Q, k)
        = Worth(H1, A2, Q, k) + Share(h2.owner, h2.instrument, h2.amount, Q, k)
  BY <1>3, <1>7, <1>8, <1>10, GainWorth
<1>12. SomeAllocs(A2, nextId')
  BY <1>2, <1>7, StillSome
<1> HIDE DEF H2
<1>13. LedgerInv'
  BY <1>2, <1>5, <1>10, <1>12 DEF LedgerInv, RegistryTypeOK, SomeHoldings, SomeAllocs
<1>14. ASSUME NEW Q, NEW k
       PROVE  /\ Worth(holdings, allocs, Q, k) \in Nat
              /\ Share(a.sender, a.instrument, a.amount, Q, k) \in Nat
              /\ Share(b.sender, a.instrument, a.amount, Q, k) \in Nat
              /\ Share(b.sender, b.instrument, b.amount, Q, k) \in Nat
              /\ Share(a.sender, b.instrument, b.amount, Q, k) \in Nat
  BY <1>1, WorthNat DEF LedgerInv, Share, Allocation
<1>15. \A Q, k : Worths(Q, k)' = Worth(H2, A2, Q, k)
                 /\ Worths(Q, k) = Worth(holdings, allocs, Q, k)
  BY <1>5 DEF Worths
<1>16. ASSUME NEW Q, NEW k
       PROVE  Worths(Q, k)'
                = (((Worths(Q, k) - Share(a.sender, a.instrument, a.amount, Q, k))
                      + Share(b.sender, a.instrument, a.amount, Q, k))
                     - Share(b.sender, b.instrument, b.amount, Q, k))
                    + Share(a.sender, b.instrument, b.amount, Q, k)
  <2>1. Worths(Q, k)' = (((Worths(Q, k) - Share(a.sender, a.instrument, a.amount, Q, k))
                            - Share(b.sender, b.instrument, b.amount, Q, k))
                           + Share(a.sender, b.instrument, b.amount, Q, k))
                          + Share(b.sender, a.instrument, a.amount, Q, k)
    BY <1>3, <1>6, <1>7, <1>9, <1>11, <1>15
  <2> QED BY <1>14, <1>15, <2>1
<1> QED BY <1>13, <1>16 DEF Swaps

\* A match is a swap too: the buyer's payment against the seller's asset.
LEMMA MatchWorth ==
  ASSUME IInv, LedgerInv, NEW b \in orders, NEW s \in orders, DarkPool_Match(b, s)
  PROVE  /\ LedgerInv'
         /\ Swaps(b.trader, pool.market.quote,
                  QuoteAmount(MatchQty(b, s), MatchPrice(b, s)),
                  s.trader, pool.market.base, MatchQty(b, s))
         /\ QuoteAmount(MatchQty(b, s), MatchPrice(b, s)) \in PosNat
<1> DEFINE qty == MatchQty(b, s)
           price == MatchPrice(b, s)
           paid == QuoteAmount(qty, price)
           base == pool.market.base
           quote == pool.market.quote
           K1 == Spent(holdings, b.holdings, quote, b.trader, paid, nextId)
           K2 == Spent(K1, s.holdings, base, s.trader, qty, nextId + 1)
           h1 == NewHolding(nextId + 2, s.trader, quote, paid)
           h2 == NewHolding(nextId + 3, b.trader, base, qty)
           K3 == K2 \cup {h1}
           K4 == K3 \cup {h2}
           bChange == Change(b.holdings, quote, b.trader, paid, nextId)
           sChange == Change(s.holdings, base, s.trader, qty, nextId + 1)
<1>1. CanPair(b, s) /\ CanFill(b, qty, price, now + 1) /\ CanFill(s, qty, price, now + 1)
  BY DEF DarkPool_Match, CanMatch
<1>2. /\ b \in Order /\ s \in Order /\ b.trader # s.trader
      /\ b.trader \in Parties /\ s.trader \in Parties
      /\ b.holdings \in Seq(Holding) /\ s.holdings \in Seq(Holding)
      /\ base \in Instruments /\ quote \in Instruments
      /\ FundingInstrument(b.market, b.side) = quote
      /\ FundingInstrument(s.market, s.side) = base
      /\ qty \in PosNat /\ price \in PosNat
      /\ SentAmount(b.side, qty, price) = paid /\ SentAmount(s.side, qty, price) = qty
  BY <1>1, PairFacts DEF Order, CanPair, FundingInstrument
<1>3. /\ paid \in PosNat /\ paid \in Nat /\ qty \in Nat
  BY <1>1, <1>2, FillSends DEF PosNat
<1>4. /\ nextId \in Ids /\ nextId \in Nat /\ nextId + 1 \in Ids /\ nextId + 1 \in Nat
      /\ nextId + 2 \in Ids /\ nextId + 2 \in Nat /\ nextId + 3 \in Ids /\ nextId + 3 \in Nat
      /\ (nextId + 1) + 1 = nextId + 2 /\ (nextId + 2) + 1 = nextId + 3
      /\ nextId' = (nextId + 3) + 1 /\ nextId' \in Nat \ {0} /\ nextId <= nextId'
  BY RegistryAssumption DEF LedgerInv, RegistryTypeOK, DarkPool_Match, Ids
<1>5. Spendable(holdings, b.holdings, quote, b.trader, paid)
  BY <1>1, <1>2 DEF CanFill, CanAllocate, CanSpend, Spendable
<1>6. Spendable(holdings, s.holdings, base, s.trader, qty)
  BY <1>1, <1>2 DEF CanFill, CanAllocate, CanSpend, Spendable
<1>7. /\ bChange = FillChange(b, qty, price, nextId)
      /\ sChange = FillChange(s, qty, price, nextId + 1)
  BY <1>2 DEF FillChange
<1>8. /\ holdings' = (holdings \ (Range(b.holdings) \cup Range(s.holdings)))
                       \cup Range(bChange) \cup Range(sChange) \cup {h1, h2}
      /\ UNCHANGED <<allocs, minted, now>>
  BY <1>7 DEF DarkPool_Match
<1>9. /\ h1 \in Holding /\ h1.id = nextId + 2 /\ h1.owner = s.trader
      /\ h1.instrument = quote /\ h1.amount = paid
      /\ h2 \in Holding /\ h2.id = nextId + 3 /\ h2.owner = b.trader
      /\ h2.instrument = base /\ h2.amount = qty
  BY <1>2, <1>3, <1>4 DEF NewHolding, Holding, PosNat
<1>10. /\ \A h \in Range(bChange) : h.id = nextId
       /\ \A h \in Range(b.holdings) : h.owner = b.trader
       /\ \A h \in Range(s.holdings) : h.owner = s.trader /\ h \in holdings
       /\ \A h \in holdings : h.id \in Nat /\ h.id < nextId
  <2>1. \A h \in Range(bChange) : h.id = nextId
    BY <1>4 DEF Change, Range, NewHolding
  <2>2. \A h \in holdings : h.id \in Nat /\ h.id < nextId
    BY DEF LedgerInv, SomeHoldings, RegistryTypeOK, Holding, Ids
  <2> QED BY <1>5, <1>6, <2>1, <2>2 DEF Spendable, Range
<1>11. K1 = (holdings \ Range(b.holdings)) \cup Range(bChange)
       /\ K2 = (K1 \ Range(s.holdings)) \cup Range(sChange)
  BY DEF Spent
<1> HIDE DEF qty, price, paid, base, quote, h1, h2, bChange, sChange, K1, K2
<1>12. holdings' = K4
  BY <1>4, <1>8, <1>10, <1>11
<1>13. Spendable(K1, s.holdings, base, s.trader, qty)
  <2>1. \A k \in DOMAIN s.holdings : s.holdings[k] \in K1
    BY <1>2, <1>6, <1>10, <1>11 DEF Spendable
  <2> QED BY <1>6, <2>1 DEF Spendable
<1>14. SomeHoldings(holdings, nextId) /\ SomeAllocs(allocs, nextId)
  BY DEF LedgerInv
<1>15. /\ SomeHoldings(K1, nextId + 1)
       /\ \A Q, k : Worth(K1, allocs, Q, k)
            = Worth(holdings, allocs, Q, k) - Share(b.trader, quote, paid, Q, k)
  BY <1>2, <1>3, <1>4, <1>5, <1>14, SpendWorth DEF K1
<1>16. /\ SomeHoldings(K2, nextId + 2)
       /\ \A Q, k : Worth(K2, allocs, Q, k)
            = Worth(K1, allocs, Q, k) - Share(s.trader, base, qty, Q, k)
  <2>1. /\ SomeHoldings(K2, (nextId + 1) + 1)
        /\ \A Q, k : Worth(K2, allocs, Q, k)
             = Worth(K1, allocs, Q, k) - Share(s.trader, base, qty, Q, k)
    BY <1>2, <1>3, <1>4, <1>13, <1>14, <1>15, SpendWorth DEF K2
  <2> QED BY <1>4, <2>1
<1>17. h1 \notin K2 /\ SomeHoldings(K3, nextId + 3)
  <2>1. h1 \notin K2 /\ SomeHoldings(K3, (nextId + 2) + 1)
    BY <1>4, <1>9, <1>16, NewHoldingFits
  <2> QED BY <1>4, <2>1
<1>18. h2 \notin K3 /\ SomeHoldings(K4, nextId')
  BY <1>4, <1>9, <1>17, NewHoldingFits
<1>19. \A Q, k : Worth(K3, allocs, Q, k)
         = Worth(K2, allocs, Q, k) + Share(h1.owner, h1.instrument, h1.amount, Q, k)
  BY <1>9, <1>14, <1>16, <1>17, GainWorth
<1> HIDE DEF K3
<1>20. \A Q, k : Worth(K4, allocs, Q, k)
         = Worth(K3, allocs, Q, k) + Share(h2.owner, h2.instrument, h2.amount, Q, k)
  BY <1>9, <1>14, <1>17, <1>18, GainWorth
<1> HIDE DEF K4
<1>21. LedgerInv'
  <2>1. SomeAllocs(allocs', nextId')
    BY <1>4, <1>8, <1>14, StillSome
  <2>2. SomeHoldings(holdings', nextId')
    BY <1>12, <1>18
  <2> QED BY <1>4, <1>8, <2>1, <2>2 DEF LedgerInv, RegistryTypeOK, SomeHoldings
<1>22. \A Q, k : /\ Worths(Q, k)' = Worth(K4, allocs, Q, k)
                 /\ Worths(Q, k) = Worth(holdings, allocs, Q, k)
  BY <1>8, <1>12 DEF Worths
<1>23. ASSUME NEW Q, NEW k
       PROVE  Worths(Q, k)'
                = (((Worths(Q, k) - Share(b.trader, quote, paid, Q, k))
                      + Share(s.trader, quote, paid, Q, k))
                     - Share(s.trader, base, qty, Q, k))
                    + Share(b.trader, base, qty, Q, k)
  <2>1. Worths(Q, k)' = (((Worths(Q, k) - Share(b.trader, quote, paid, Q, k))
                            - Share(s.trader, base, qty, Q, k))
                           + Share(s.trader, quote, paid, Q, k))
                          + Share(b.trader, base, qty, Q, k)
    BY <1>9, <1>15, <1>16, <1>19, <1>20, <1>22
  <2>2. /\ Worth(holdings, allocs, Q, k) \in Nat
        /\ Share(b.trader, quote, paid, Q, k) \in Nat
        /\ Share(s.trader, quote, paid, Q, k) \in Nat
        /\ Share(s.trader, base, qty, Q, k) \in Nat
        /\ Share(b.trader, base, qty, Q, k) \in Nat
    BY <1>3, <1>14, WorthNat DEF Share
  <2> QED BY <1>22, <2>1, <2>2
<1>24. Swaps(b.trader, quote, paid, s.trader, base, qty)
  BY <1>23 DEF Swaps
<1> QED BY <1>3, <1>21, <1>24 DEF qty, price, paid, base, quote

\* A step that leaves the contracts of the registry alone.
LEMMA LedgerStays ==
  ASSUME LedgerInv, UNCHANGED <<holdings, allocs, minted, now>>,
         nextId' \in Nat, nextId <= nextId'
  PROVE  LedgerInv' /\ Keeps
<1>1. nextId \in Nat /\ nextId' \in Nat \ {0}
  BY DEF LedgerInv, RegistryTypeOK
<1>2. SomeHoldings(holdings, nextId') /\ SomeAllocs(allocs, nextId')
  BY <1>1, StillSome DEF LedgerInv
<1> QED BY <1>1, <1>2 DEF LedgerInv, RegistryTypeOK, Keeps, Worths

\* Resting an order moves no value.
LEMMA RestStays ==
  ASSUME LedgerInv, NEW trader, NEW market, NEW t, NEW declared, NEW placed,
         Rest(trader, market, t, declared, placed)
  PROVE  LedgerInv' /\ Keeps /\ UNCHANGED <<minted, allocs>>
<1>1. nextId' \in Nat /\ nextId <= nextId'
  BY DEF LedgerInv, RegistryTypeOK, Rest
<1> QED BY <1>1, LedgerStays DEF Rest

\* Every step keeps, issues, pays or swaps.
LEMMA StepWorth ==
  ASSUME IInv, LedgerInv, [Next]_vars
  PROVE  /\ LedgerInv'
         /\ \/ Keeps /\ UNCHANGED minted
            \/ \E p \in Parties, i \in Instruments, n \in Nat \ {0} :
                 Issues(p, i, n) /\ minted' = [minted EXCEPT ![i] = @ + n]
            \/ \E p, q \in Parties, i \in Instruments, n \in Nat \ {0} :
                 Pays(p, q, i, n) /\ UNCHANGED minted
            \/ \E p, q \in Parties, i, j \in Instruments, n, m \in Nat \ {0} :
                 Swaps(p, i, n, q, j, m) /\ UNCHANGED minted
<1>1. CASE HoldingStep
  BY <1>1, HoldingStepWorth
<1>2. CASE Tick
  BY <1>2, TickWorth DEF Tick
<1>3. CASE \E p \in Parties, t \in OrderTerms :
             \E declared \in InputLists(Own(p)) : DarkPool_PlaceOrder(p, t, declared)
  BY <1>3, RestStays DEF DarkPool_PlaceOrder
<1>4. CASE \E p \in Parties, m \in Markets, t \in DirectTerms :
             \E declared \in InputLists(holdings) : CreateOrder(p, m, t, declared)
  BY <1>4, RestStays DEF CreateOrder
<1>5. CASE UNCHANGED registryVars
  <2>1. /\ UNCHANGED <<holdings, allocs, minted, now>>
        /\ nextId' \in Nat /\ nextId <= nextId'
    BY <1>5 DEF registryVars, LedgerInv, RegistryTypeOK
  <2> QED BY <2>1, LedgerStays
<1>6. ASSUME NEW o \in orders, NEW price \in LonePrices, NEW cp \in Parties,
             NEW qty \in o.minFill .. o.quantity, Order_Fill(o, qty, price, cp, now + 1)
      PROVE  LedgerInv' /\ Keeps /\ UNCHANGED minted
  <2>1. o \in Order /\ now \in Nat /\ price \in Nat
    BY DarkPoolAssumption, RegistryAssumption DEF IInv, TypeOK, RegistryTypeOK, PosNat
  <2>2. qty \in Nat /\ now + 1 \in Nat
    BY <2>1 DEF Order, PosNat
  <2> QED BY <1>6, <2>1, <2>2, OrderFillWorth DEF Order_Fill
<1>7. CASE \E a, b \in allocs : FillAuthority_Settle(a, b)
  <2>1. PICK a \in allocs, b \in allocs : FillAuthority_Settle(a, b)
    BY <1>7
  <2>2. a \in Allocation /\ b \in Allocation
    BY DEF LedgerInv, RegistryTypeOK
  <2>3. /\ a.sender \in Parties /\ a.instrument \in Instruments /\ a.amount \in Nat \ {0}
        /\ b.sender \in Parties /\ b.instrument \in Instruments /\ b.amount \in Nat \ {0}
    BY <2>2 DEF Allocation
  <2>4. UNCHANGED minted
    BY <2>1 DEF FillAuthority_Settle
  <2> QED BY <2>1, <2>3, <2>4, SettleWorth
<1>8. CASE \E b, s \in orders : DarkPool_Match(b, s)
  <2>1. PICK b \in orders, s \in orders : DarkPool_Match(b, s)
    BY <1>8
  <2>2. b \in Order /\ s \in Order /\ CanPair(b, s) /\ UNCHANGED minted
    BY <2>1 DEF IInv, TypeOK, DarkPool_Match, CanMatch
  <2>3. /\ pool.market.quote \in Instruments /\ pool.market.base \in Instruments
        /\ MatchQty(b, s) \in Nat \ {0} /\ b.trader \in Parties /\ s.trader \in Parties
    BY <2>2, PairFacts DEF PosNat, Order
  <2>4. /\ LedgerInv'
        /\ Swaps(b.trader, pool.market.quote,
                 QuoteAmount(MatchQty(b, s), MatchPrice(b, s)),
                 s.trader, pool.market.base, MatchQty(b, s))
        /\ QuoteAmount(MatchQty(b, s), MatchPrice(b, s)) \in Nat \ {0}
    BY <2>1, MatchWorth DEF PosNat
  <2> QED BY <2>2, <2>3, <2>4
<1>9. CASE (\E o \in orders : ArchiveOrder(o)) \/ PoolStep \/ UNCHANGED vars
  BY <1>5, <1>9
  DEF ArchiveOrder, PoolStep, ArchivePool, CreatePool, registryVars, vars
<1> QED
  BY <1>1, <1>2, <1>3, <1>4, <1>6, <1>7, <1>8, <1>9 DEF Next, TraderStep

LEMMA SwapsSupply ==
  ASSUME LedgerInv, Supplied, UNCHANGED minted,
         NEW p \in Parties, NEW q \in Parties, NEW i, NEW j,
         NEW n \in Nat, NEW m \in Nat, Swaps(p, i, n, q, j, m)
  PROVE  Supplied'
<1>1. \A k : Worths(Parties, k) \in Nat
  BY WorthNat DEF LedgerInv, Worths
<1>2. \A k : Worths(Parties, k)' = Worths(Parties, k)
  BY <1>1 DEF Swaps, Share
<1> QED BY <1>2 DEF Supplied

\* The ledger of the dark pool is as sound as the registry's: no contract has
\* an id that is yet to be given, whatever is placed, filled, settled or matched.
THEOREM PoolLedgerInvariance == Spec => [](LedgerInv /\ Supplied)
<1>1. Init => LedgerInv /\ Supplied
  BY LedgerInit, SuppliedInit DEF Init
<1>2. IInv /\ LedgerInv /\ Supplied /\ [Next]_vars => LedgerInv' /\ Supplied'
  BY StepWorth, SuppliedNext, SwapsSupply
<1> QED BY <1>1, <1>2, Invariance, PTL DEF Spec

\* Placing, filling, settling and matching orders creates and destroys no value:
\* what is held and escrowed is, instrument by instrument, what was issued.
THEOREM PoolConservesValue == Spec => []Conservation
<1>1. LedgerInv /\ Supplied => Conservation
  BY SupplyIsWorth
<1> QED BY <1>1, PoolLedgerInvariance, PTL

-----------------------------------------------------------------------------
\* The refinement of the ideal market, step by step

IntentOf(o) == [id |-> o.origin, trader |-> o.trader, market |-> o.market,
                side |-> o.side, limit |-> o.limitPrice, quantity |-> o.quantity]

Balance == [p \in Parties |-> [i \in Instruments |-> Wealth(p, i)]]
Intents == {IntentOf(o) : o \in orders}

LEMMA BalanceIs ==
  /\ \A p \in Parties, i \in Instruments : Balance[p][i] = Worths({p}, i)
  /\ \A p \in Parties, i \in Instruments : Balance'[p][i] = Worths({p}, i)'
  /\ DOMAIN Balance = Parties /\ DOMAIN Balance' = Parties
  /\ Balance = [p \in Parties |-> [i \in Instruments |-> Balance[p][i]]]
  /\ Balance' = [p \in Parties |-> [i \in Instruments |-> Balance'[p][i]]]
BY WealthIsWorth DEF Balance

LEMMA BalanceType ==
  ASSUME LedgerInv
  PROVE  Balance \in [Parties -> [Instruments -> Nat]]
<1>1. \A p \in Parties, i \in Instruments : Wealth(p, i) \in Nat
  BY WealthIsWorth, WorthNat DEF LedgerInv, Worths
<1> QED BY <1>1 DEF Balance

\* The abstract specification's operators, on the balances and intents above.
LEMMA IdealIs ==
  /\ Ideal!Init <=> Balance \in [Parties -> [Instruments -> Nat]] /\ Intents = {}
  /\ \A p, i : Ideal!Gain(p, i) = Balance'[p][i] - Balance[p][i]
  /\ \A f, p, i, n : Ideal!Plus(f, p, i, n) = [f EXCEPT ![p][i] = @ + n]
  /\ Ideal!vars = <<Balance, Intents>>
  /\ Ideal!vars' = <<Balance', Intents'>>
BY DEF Ideal!Init, Ideal!Gain, Ideal!Plus, Ideal!vars, Balance, Intents, IntentOf

\* Tables of balances, and of differences of balances.
Table == [Parties -> [Instruments -> Int]]

At(p, i, n, r, k) == IF r = p /\ k = i THEN n ELSE 0

\* Adding to one entry of a table of balances.
LEMMA PlusIs ==
  ASSUME NEW f \in Table,
         NEW p \in Parties, NEW i \in Instruments, NEW n \in Int
  PROVE  /\ Ideal!Plus(f, p, i, n) \in Table
         /\ \A r \in Parties, k \in Instruments :
              Ideal!Plus(f, p, i, n)[r][k]
                = f[r][k] + (IF r = p /\ k = i THEN n ELSE 0)
<1>1. Ideal!Plus(f, p, i, n) = [f EXCEPT ![p] = [f[p] EXCEPT ![i] = f[p][i] + n]]
  BY IdealIs
<1>2. f[p] \in [Instruments -> Int] /\ f[p][i] \in Int /\ f[p][i] + n \in Int
  BY DEF Table
<1>3. [f[p] EXCEPT ![i] = f[p][i] + n] \in [Instruments -> Int]
  BY <1>2
<1>4. Ideal!Plus(f, p, i, n) \in Table
  BY <1>1, <1>3 DEF Table
<1>5. ASSUME NEW r \in Parties, NEW k \in Instruments
      PROVE  Ideal!Plus(f, p, i, n)[r][k]
               = f[r][k] + (IF r = p /\ k = i THEN n ELSE 0)
  <2>1. f[r][k] \in Int
    BY DEF Table
  <2>2. CASE r = p
    BY <1>1, <1>2, <2>1, <2>2 DEF Table
  <2>3. CASE r # p
    BY <1>1, <2>1, <2>3 DEF Table
  <2> QED BY <2>2, <2>3
<1> QED BY <1>4, <1>5

\* A payment between two tables.
LEMMA MovedIs ==
  ASSUME NEW f \in Table, NEW p \in Parties, NEW q \in Parties,
         NEW i \in Instruments, NEW n \in Nat
  PROVE  /\ Ideal!Moved(f, p, q, i, n) \in Table
         /\ \A r \in Parties, k \in Instruments :
              Ideal!Moved(f, p, q, i, n)[r][k]
                = (f[r][k] - At(p, i, n, r, k)) + At(q, i, n, r, k)
<1> DEFINE m == -n
           T1 == Ideal!Plus(f, p, i, m)
           T2 == Ideal!Plus(T1, q, i, n)
<1>1. m \in Int /\ n \in Int /\ m = -n
  OBVIOUS
<1>2. T2 = Ideal!Moved(f, p, q, i, n)
  BY DEF Ideal!Moved, Ideal!Plus
<1> HIDE DEF m
<1>3. T1 \in Table /\ \A r \in Parties, k \in Instruments :
                        T1[r][k] = f[r][k] + (IF r = p /\ k = i THEN m ELSE 0)
  BY <1>1, PlusIs
<1> HIDE DEF T1
<1>4. T2 \in Table /\ \A r \in Parties, k \in Instruments :
                        T2[r][k] = T1[r][k] + (IF r = q /\ k = i THEN n ELSE 0)
  BY <1>1, <1>3, PlusIs
<1> HIDE DEF T2
<1>5. \A r \in Parties, k \in Instruments : f[r][k] \in Int
  BY DEF Table
<1> QED BY <1>1, <1>2, <1>3, <1>4, <1>5 DEF At

LEMMA SameTable ==
  ASSUME NEW f \in Table,
         NEW g \in Table,
         \A r \in Parties, k \in Instruments : f[r][k] = g[r][k]
  PROVE  f = g
<1>1. ASSUME NEW r \in Parties PROVE f[r] = g[r]
  <2>1. f[r] \in [Instruments -> Int] /\ g[r] \in [Instruments -> Int]
    BY DEF Table
  <2>2. \A k \in Instruments : f[r][k] = g[r][k]
    OBVIOUS
  <2> QED BY <2>1, <2>2
<1> QED BY <1>1 DEF Table

\* The tables before and after a step, of natural numbers.
LEMMA TablesType ==
  ASSUME LedgerInv, LedgerInv'
  PROVE  /\ Balance \in [Parties -> [Instruments -> Nat]]
         /\ Balance' \in [Parties -> [Instruments -> Nat]]
         /\ Balance \in Table
         /\ Balance' \in Table
         /\ \A p \in Parties, i \in Instruments :
              Balance[p][i] \in Nat /\ Balance'[p][i] \in Nat
<1>1. /\ Balance \in [Parties -> [Instruments -> Nat]]
      /\ Balance' \in [Parties -> [Instruments -> Nat]]
  <2>1. \A p \in Parties, i \in Instruments : Wealth(p, i) \in Nat /\ Wealth(p, i)' \in Nat
    BY WealthIsWorth, WorthNat DEF LedgerInv, Worths
  <2> QED BY <2>1 DEF Balance
<1>2. /\ Balance \in Table
      /\ Balance' \in Table
  BY <1>1 DEF Table
<1> QED BY <1>1, <1>2

LEMMA KeepsTable ==
  ASSUME Keeps
  PROVE  Balance' = Balance
<1>1. \A p, i : Wealth(p, i)' = Wealth(p, i)
  BY WealthIsWorth DEF Keeps
<1> QED BY <1>1 DEF Balance

LEMMA IssueMaps ==
  ASSUME LedgerInv, LedgerInv', NEW p \in Parties, NEW i \in Instruments,
         NEW n \in Nat \ {0}, Issues(p, i, n)
  PROVE  Ideal!Issue(p, i) /\ Balance' # Balance
<1>1. \A r \in Parties, k \in Instruments :
        Balance'[r][k] = Balance[r][k] + (IF r = p /\ k = i THEN n ELSE 0)
  <2> SUFFICES ASSUME NEW r \in Parties, NEW k \in Instruments
               PROVE  Balance'[r][k] = Balance[r][k] + (IF r = p /\ k = i THEN n ELSE 0)
    OBVIOUS
  <2>1. Share(p, i, n, {r}, k) = IF r = p /\ k = i THEN n ELSE 0
    BY DEF Share
  <2> QED BY <2>1, BalanceIs DEF Issues
<1>2. Ideal!Gain(p, i) = n
  BY <1>1, TablesType, IdealIs
<1>3. Balance' = Ideal!Plus(Balance, p, i, n)
  <2> DEFINE B == Balance'
             T == Ideal!Plus(Balance, p, i, n)
  <2>1. /\ T \in Table
        /\ \A r \in Parties, k \in Instruments :
             T[r][k] = Balance[r][k] + (IF r = p /\ k = i THEN n ELSE 0)
    BY TablesType, PlusIs
  <2>3. B \in Table /\ \A r \in Parties, k \in Instruments : B[r][k] = T[r][k]
    BY <1>1, <2>1, TablesType
  <2> HIDE DEF B, T
  <2>2. B = T
    BY <2>1, <2>3, SameTable
  <2> QED BY <2>2 DEF B, T
<1>4. Ideal!Issue(p, i) <=> /\ Ideal!Gain(p, i) > 0
                            /\ Balance' = Ideal!Plus(Balance, p, i, Ideal!Gain(p, i))
  BY DEF Ideal!Issue, Balance
<1>5. Balance'[p][i] # Balance[p][i]
  BY <1>1, TablesType
<1> QED BY <1>2, <1>3, <1>4, <1>5

LEMMA PaysMaps ==
  ASSUME LedgerInv, LedgerInv', NEW p \in Parties, NEW q \in Parties,
         NEW i \in Instruments, NEW n \in Nat \ {0}, Pays(p, q, i, n)
  PROVE  \/ p = q /\ Balance' = Balance
         \/ p # q /\ Ideal!Pay(p, q, i) /\ Balance' # Balance
<1> DEFINE B == Balance'
           T == Ideal!Moved(Balance, p, q, i, n)
<1>1. \A r \in Parties, k \in Instruments :
        B[r][k] = (Balance[r][k] - At(p, i, n, r, k)) + At(q, i, n, r, k)
  <2> SUFFICES ASSUME NEW r \in Parties, NEW k \in Instruments
               PROVE  B[r][k] = (Balance[r][k] - At(p, i, n, r, k)) + At(q, i, n, r, k)
    OBVIOUS
  <2>1. /\ Share(p, i, n, {r}, k) = At(p, i, n, r, k)
        /\ Share(q, i, n, {r}, k) = At(q, i, n, r, k)
    BY DEF Share, At
  <2>2. /\ Balance[r][k] = Worths({r}, k)
        /\ B[r][k] = Worths({r}, k)'
    BY BalanceIs
  <2> QED BY <2>1, <2>2 DEF Pays
<1>2. /\ Balance \in Table /\ B \in Table
      /\ \A r \in Parties, k \in Instruments : Balance[r][k] \in Nat /\ B[r][k] \in Nat
  BY TablesType
<1>3. CASE p = q
  <2>1. \A r \in Parties, k \in Instruments : B[r][k] = Balance[r][k]
    BY <1>1, <1>2, <1>3 DEF At
  <2> HIDE DEF B
  <2>2. B = Balance
    BY <1>2, <2>1, SameTable
  <2> QED BY <1>3, <2>2 DEF B
<1>4. CASE p # q
  <2>1. /\ T \in Table
        /\ \A r \in Parties, k \in Instruments :
             T[r][k] = (Balance[r][k] - At(p, i, n, r, k)) + At(q, i, n, r, k)
    BY <1>2, MovedIs
  <2>2. B[q][i] = Balance[q][i] + n /\ B[p][i] = Balance[p][i] - n
    BY <1>1, <1>2, <1>4 DEF At
  <2>3. Ideal!Gain(q, i) = n
    BY <1>2, <2>2, IdealIs
  <2>4. Ideal!Pay(p, q, i)
          <=> /\ Ideal!Gain(q, i) \in 1 .. Balance[p][i]
              /\ B = Ideal!Moved(Balance, p, q, i, Ideal!Gain(q, i))
    BY DEF Ideal!Pay, Balance
  <2> HIDE DEF B, T
  <2>5. B = T
    BY <1>1, <1>2, <2>1, SameTable
  <2>6. n \in 1 .. Balance[p][i] /\ B # Balance
    BY <1>2, <2>2
  <2> QED BY <1>4, <2>3, <2>4, <2>5, <2>6 DEF B, T
<1> QED BY <1>3, <1>4

\* What a swap does to the table.
LEMMA SwapsTable ==
  ASSUME LedgerInv, LedgerInv', NEW p \in Parties, NEW q \in Parties,
         NEW i \in Instruments, NEW n \in Nat \ {0},
         NEW j \in Instruments, NEW m \in Nat \ {0}, Swaps(p, i, n, q, j, m)
  PROVE  /\ Balance' = Ideal!Moved(Ideal!Moved(Balance, p, q, i, n), q, p, j, m)
         /\ \A r \in Parties, k \in Instruments :
              Balance'[r][k]
                = (((Balance[r][k] - At(p, i, n, r, k)) + At(q, i, n, r, k))
                     - At(q, j, m, r, k)) + At(p, j, m, r, k)
<1> DEFINE B == Balance'
           T1 == Ideal!Moved(Balance, p, q, i, n)
           T2 == Ideal!Moved(T1, q, p, j, m)
<1>1. ASSUME NEW r \in Parties, NEW k \in Instruments
      PROVE  B[r][k] = (((Balance[r][k] - At(p, i, n, r, k)) + At(q, i, n, r, k))
                          - At(q, j, m, r, k)) + At(p, j, m, r, k)
  <2>1. /\ Balance[r][k] = Worths({r}, k)
        /\ B[r][k] = Worths({r}, k)'
    BY BalanceIs
  <2>2. /\ At(p, i, n, r, k) = Share(p, i, n, {r}, k)
        /\ At(q, i, n, r, k) = Share(q, i, n, {r}, k)
        /\ At(q, j, m, r, k) = Share(q, j, m, {r}, k)
        /\ At(p, j, m, r, k) = Share(p, j, m, {r}, k)
    BY DEF At, Share
  <2> QED BY <2>1, <2>2 DEF Swaps
<1>2. Balance \in Table /\ B \in Table
  BY TablesType
<1> HIDE DEF B
<1>3. T1 \in Table /\ \A r \in Parties, k \in Instruments :
        T1[r][k] = (Balance[r][k] - At(p, i, n, r, k)) + At(q, i, n, r, k)
  BY <1>2, MovedIs
<1> HIDE DEF T1
<1>4. T2 \in Table /\ \A r \in Parties, k \in Instruments :
        T2[r][k] = (T1[r][k] - At(q, j, m, r, k)) + At(p, j, m, r, k)
  BY <1>3, MovedIs
<1> HIDE DEF T2
<1>5. \A r \in Parties, k \in Instruments : B[r][k] = T2[r][k]
  BY <1>1, <1>3, <1>4
<1>6. B = T2
  BY <1>2, <1>4, <1>5, SameTable
<1> QED BY <1>1, <1>6 DEF B, T1, T2

\* In two instruments it shows as both gains.
LEMMA SwapsGain ==
  ASSUME LedgerInv, LedgerInv', NEW p \in Parties, NEW q \in Parties, p # q,
         NEW i \in Instruments, NEW n \in Nat \ {0},
         NEW j \in Instruments, NEW m \in Nat \ {0}, i # j, Swaps(p, i, n, q, j, m)
  PROVE  /\ Ideal!Gain(q, i) = n /\ Ideal!Gain(p, j) = m
         /\ n \in 1 .. Balance[p][i] /\ m \in 1 .. Balance[q][j]
         /\ Balance' # Balance
<1>1. /\ Balance'[q][i] = Balance[q][i] + n /\ Balance'[p][i] = Balance[p][i] - n
      /\ Balance'[p][j] = Balance[p][j] + m /\ Balance'[q][j] = Balance[q][j] - m
  BY SwapsTable, TablesType DEF At
<1>2. /\ Balance[q][i] \in Nat /\ Balance[p][i] \in Nat /\ Balance'[p][i] \in Nat
      /\ Balance[p][j] \in Nat /\ Balance[q][j] \in Nat /\ Balance'[q][j] \in Nat
  BY TablesType
<1>3. /\ Ideal!Gain(q, i) = Balance'[q][i] - Balance[q][i]
      /\ Ideal!Gain(p, j) = Balance'[p][j] - Balance[p][j]
  BY IdealIs
<1> QED BY <1>1, <1>2, <1>3

\* Two lone fills are settled with each other: a swap, or if both legs are of one
\* instrument, a payment of the difference.
LEMMA SwapsMaps ==
  ASSUME LedgerInv, LedgerInv', NEW p \in Parties, NEW q \in Parties, p # q,
         NEW i \in Instruments, NEW n \in Nat \ {0},
         NEW j \in Instruments, NEW m \in Nat \ {0}, Swaps(p, i, n, q, j, m)
  PROVE  \/ Balance' = Balance
         \/ /\ Balance' # Balance
            /\ Ideal!Swap(p, q, i, j) \/ Ideal!Pay(p, q, i) \/ Ideal!Pay(q, p, i)
<1>1. CASE i # j
  <2>1. Balance' = Ideal!Moved(Ideal!Moved(Balance, p, q, i, n), q, p, j, m)
    BY SwapsTable
  <2>2. Ideal!Swap(p, q, i, j)
          <=> /\ Ideal!Gain(q, i) \in 1 .. Balance[p][i]
              /\ Ideal!Gain(p, j) \in 1 .. Balance[q][j]
              /\ Balance' = Ideal!Moved(Ideal!Moved(Balance, p, q, i, Ideal!Gain(q, i)),
                                        q, p, j, Ideal!Gain(p, j))
    BY DEF Ideal!Swap, Balance
  <2>3. /\ Ideal!Gain(q, i) = n /\ Ideal!Gain(p, j) = m
        /\ n \in 1 .. Balance[p][i] /\ m \in 1 .. Balance[q][j]
        /\ Balance' # Balance
    BY <1>1, SwapsGain
  <2> QED BY <2>1, <2>2, <2>3
<1>2. CASE i = j /\ n = m
  <2>1. ASSUME NEW Q, NEW k PROVE Worths(Q, k)' = Worths(Q, k)
    <3>1. /\ Worths(Q, k) \in Nat
          /\ Share(p, i, n, Q, k) \in Nat /\ Share(q, i, n, Q, k) \in Nat
      BY WorthNat DEF LedgerInv, Worths, Share
    <3> QED BY <1>2, <3>1 DEF Swaps
  <2> QED BY <2>1, KeepsTable DEF Keeps
<1>3. CASE i = j /\ n > m
  <2>1. ASSUME NEW Q, NEW k
        PROVE  Worths(Q, k)' = (Worths(Q, k) - Share(p, i, n - m, Q, k))
                                 + Share(q, i, n - m, Q, k)
    <3>1. Worths(Q, k) \in Nat
      BY WorthNat DEF LedgerInv, Worths
    <3> QED BY <1>3, <3>1 DEF Swaps, Share
  <2>2. n - m \in Nat \ {0}
    BY <1>3
  <2>3. Pays(p, q, i, n - m)
    BY <2>1 DEF Pays
  <2> QED BY <2>2, <2>3, PaysMaps
<1>4. CASE i = j /\ n < m
  <2>1. ASSUME NEW Q, NEW k
        PROVE  Worths(Q, k)' = (Worths(Q, k) - Share(q, i, m - n, Q, k))
                                 + Share(p, i, m - n, Q, k)
    <3>1. Worths(Q, k) \in Nat
      BY WorthNat DEF LedgerInv, Worths
    <3> QED BY <1>4, <3>1 DEF Swaps, Share
  <2>2. m - n \in Nat \ {0}
    BY <1>4
  <2>3. Pays(q, p, i, m - n)
    BY <2>1 DEF Pays
  <2> QED BY <2>2, <2>3, PaysMaps
<1> QED BY <1>1, <1>2, <1>3, <1>4

\* An order and its remainder are one intent, used by the fill.
LEMMA TailIs ==
  ASSUME NEW o \in Order, NEW f \in PosNat, f <= o.quantity, NEW change, NEW id
  PROVE  /\ {IntentOf(r) : r \in Remainder(o, f, change, id)}
              \in Ideal!Tails(IntentOf(o), f)
         /\ \A r \in Remainder(o, f, change, id) : r.quantity # o.quantity
<1> DEFINE x == IntentOf(o)
           rest == o.quantity - f
           r == [o EXCEPT !.id = id, !.quantity = rest, !.holdings = change]
<1>1. o.quantity \in PosNat /\ o.minFill \in PosNat /\ rest \in Nat /\ rest # o.quantity
  BY DEF Order, PosNat
<1>2. Ideal!Tails(x, f) = {{}} \cup (IF f < x.quantity
                                     THEN {{[x EXCEPT !.quantity = @ - f]}} ELSE {})
  BY DEF Ideal!Tails
<1>3. CASE Remainder(o, f, change, id) = {}
  BY <1>2, <1>3
<1>4. CASE Remainder(o, f, change, id) # {}
  <2>1. rest # 0 /\ Remainder(o, f, change, id) = {r}
    BY <1>1, <1>4 DEF Remainder, RemainderQuantity, PosNat
  <2>2. f < o.quantity
    BY <1>1, <2>1 DEF PosNat
  <2>3. IntentOf(r) = [x EXCEPT !.quantity = @ - f] /\ r.quantity # o.quantity
    BY <1>1 DEF IntentOf, Order
  <2>4. x.quantity = o.quantity
    BY DEF IntentOf
  <2> HIDE DEF r, x
  <2> QED BY <1>2, <2>1, <2>2, <2>3, <2>4 DEF x
<1> QED BY <1>3, <1>4

\* Different orders are different intents.
LEMMA IntentsDiffer ==
  ASSUME IInv
  PROVE  /\ \A o, p \in orders : IntentOf(o).id = IntentOf(p).id => o = p
         /\ \A X \in SUBSET orders :
              {IntentOf(o) : o \in orders \ X} = Intents \ {IntentOf(o) : o \in X}
<1>1. \A o, p \in orders : IntentOf(o).id = IntentOf(p).id => o = p
  BY DEF IInv, OneActive, IntentOf
<1> QED BY <1>1 DEF Intents

\* A new order is a new intent.
LEMMA RestMaps ==
  ASSUME IInv, LedgerInv, NEW trader, NEW market, NEW t, NEW declared, NEW placed,
         Rest(trader, market, t, declared, placed)
  PROVE  Ideal!Announce
<1> DEFINE o == NewOrder(trader, market, t, declared, placed)
<1>1. orders' = orders \cup {o} /\ o.origin = nextId /\ nextId \in Nat
  BY DEF Rest, NewOrder, LedgerInv, RegistryTypeOK
<1>2. \A p \in orders : p.origin \in Nat /\ p.origin < nextId
  BY DEF IInv, OneActive, TypeOK, Order, Ids
<1> HIDE DEF o
<1>3. Intents' = Intents \cup {IntentOf(o)}
  BY <1>1 DEF Intents
<1>4. \A y \in Intents : y.id # IntentOf(o).id
  BY <1>1, <1>2 DEF Intents, IntentOf
<1>5. IntentOf(o) \in Intents' /\ IntentOf(o) \notin Intents
  BY <1>3, <1>4
<1>6. Balance' = Balance
  BY RestStays, KeepsTable
<1>7. Ideal!Announce <=>
        /\ \E x \in Intents' : /\ x \notin Intents
                               /\ \A y \in Intents : y.id # x.id
                               /\ Intents' = Intents \cup {x}
        /\ Balance' = Balance
  BY DEF Ideal!Announce, Intents, IntentOf, Balance
<1> QED BY <1>3, <1>4, <1>5, <1>6, <1>7

\* An order that is archived, or used up in part by a fill outside a match, is an
\* intent given up in whole or in part.
LEMMA RetireMaps ==
  ASSUME IInv, Balance' = Balance, NEW o \in orders, NEW f \in PosNat,
         f <= o.quantity, NEW rest,
         {IntentOf(r) : r \in rest} \in Ideal!Tails(IntentOf(o), f),
         orders' = (orders \ {o}) \cup rest
  PROVE  Ideal!Retire(IntentOf(o)) /\ IntentOf(o) \in Intents
<1> DEFINE x == IntentOf(o)
           tail == {IntentOf(r) : r \in rest}
<1>1. Ideal!Retire(x) <=>
        /\ \E ta \in UNION {Ideal!Tails(x, qty) : qty \in 1 .. x.quantity} :
             Intents' = (Intents \ {x}) \cup ta
        /\ Balance' = Balance
  BY DEF Ideal!Retire, Intents, IntentOf, Balance
<1>2. x.quantity = o.quantity /\ f \in 1 .. x.quantity
  <2>1. o.quantity \in Nat
    BY DEF IInv, TypeOK, Order, PosNat
  <2> QED BY <2>1 DEF IntentOf, PosNat
<1>3. {IntentOf(p) : p \in orders \ {o}} = Intents \ {x}
  <2>1. {o} \in SUBSET orders /\ {IntentOf(p) : p \in {o}} = {x}
    OBVIOUS
  <2> QED BY <2>1, IntentsDiffer
<1>4. Intents' = {IntentOf(p) : p \in orders \ {o}} \cup tail
  BY DEF Intents
<1>5. tail \in UNION {Ideal!Tails(x, qty) : qty \in 1 .. x.quantity}
  BY <1>2
<1> HIDE DEF x, tail
<1>6. Intents' = (Intents \ {x}) \cup tail
  BY <1>3, <1>4
<1> QED BY <1>1, <1>5, <1>6 DEF x, Intents

\* A match settles the two intents it used, within both limits.
LEMMA MatchMaps ==
  ASSUME IInv, LedgerInv, NEW b \in orders, NEW s \in orders, DarkPool_Match(b, s)
  PROVE  /\ IntentOf(b) \in Intents /\ IntentOf(s) \in Intents
         /\ Intents' # Intents /\ Ideal!Settle(IntentOf(b), IntentOf(s))
<1> DEFINE qty == MatchQty(b, s)
           price == MatchPrice(b, s)
           paid == QuoteAmount(qty, price)
           base == pool.market.base
           quote == pool.market.quote
           x == IntentOf(b)
           y == IntentOf(s)
           bRem == Remainder(b, qty, FillChange(b, qty, price, nextId), nextId)
           sRem == Remainder(s, qty, FillChange(s, qty, price, nextId + 1), nextId + 1)
           bTail == {IntentOf(r) : r \in bRem}
           sTail == {IntentOf(r) : r \in sRem}
<1>1. /\ LedgerInv' /\ Swaps(b.trader, quote, paid, s.trader, base, qty)
      /\ paid \in Nat \ {0}
  BY MatchWorth DEF PosNat
<1>2. /\ b \in Order /\ s \in Order /\ b.side = "Buy" /\ s.side = "Sell"
      /\ b # s /\ b.origin # s.origin /\ b.trader # s.trader
      /\ b.trader \in Parties /\ s.trader \in Parties
      /\ b.market = pool.market /\ s.market = pool.market
      /\ base \in Instruments /\ quote \in Instruments /\ base # quote
      /\ qty \in Nat \ {0} /\ price \in Nat
      /\ qty <= b.quantity /\ qty <= s.quantity
      /\ price <= b.limitPrice /\ s.limitPrice <= price
      /\ b.limitPrice \in Nat /\ s.limitPrice \in Nat
  BY PairFacts, DarkPoolAssumption
  DEF DarkPool_Match, CanMatch, CanPair, Order, PosNat, PriceWithinLimit
<1>3. x \in Intents /\ y \in Intents
  BY DEF Intents
<1>4. orders' = (orders \ {b, s}) \cup bRem \cup sRem
  BY DEF DarkPool_Match
<1>5. /\ bTail \in Ideal!Tails(x, qty) /\ \A r \in bRem : r.quantity # b.quantity
      /\ sTail \in Ideal!Tails(y, qty) /\ \A r \in sRem : r.quantity # s.quantity
  BY <1>2, TailIs DEF PosNat
<1>6. Intents' = (Intents \ {x, y}) \cup bTail \cup sTail
  <2>1. {IntentOf(p) : p \in orders \ {b, s}} = Intents \ {x, y}
    <3>1. {b, s} \in SUBSET orders /\ {IntentOf(p) : p \in {b, s}} = {x, y}
      OBVIOUS
    <3> HIDE DEF x, y
    <3> QED BY <3>1, IntentsDiffer
  <2>2. Intents' = {IntentOf(p) : p \in orders \ {b, s}} \cup bTail \cup sTail
    <3> HIDE DEF bRem, sRem
    <3> QED BY <1>4 DEF Intents
  <2> HIDE DEF x, y, bTail, sTail
  <2> QED BY <2>1, <2>2
<1>7. Intents' # Intents
  <2>1. \A r \in bRem : IntentOf(r) # x
    BY <1>5 DEF IntentOf
  <2>2. \A r \in sRem : r.origin = s.origin
    BY <1>2, RemainderShape DEF Order
  <2>3. \A r \in sRem : IntentOf(r) # x
    BY <1>2, <2>2 DEF IntentOf
  <2>4. x \notin bTail /\ x \notin sTail
    BY <2>1, <2>3
  <2> HIDE DEF x, y, bTail, sTail
  <2> QED BY <1>3, <1>6, <2>4
<1>8. /\ Ideal!Gain(b.trader, base) = qty /\ Ideal!Gain(s.trader, quote) = paid
      /\ qty \in 1 .. Balance[s.trader][base] /\ paid \in 1 .. Balance[b.trader][quote]
  BY <1>1, <1>2, SwapsGain
<1>9. Balance' = Ideal!Moved(Ideal!Moved(Balance, b.trader, s.trader, quote, paid),
                             s.trader, b.trader, base, qty)
  BY <1>1, <1>2, SwapsTable
<1>10. paid * Scale <= qty * b.limitPrice /\ qty * s.limitPrice < (paid + 1) * Scale
  <2>1. /\ paid * Scale <= qty * price /\ qty * price < (paid + 1) * Scale
    BY <1>2, QuoteType
  <2> HIDE DEF qty, price, paid
  <2>2. /\ qty * price <= qty * b.limitPrice /\ qty * s.limitPrice <= qty * price
        /\ qty * price \in Nat /\ qty * b.limitPrice \in Nat /\ qty * s.limitPrice \in Nat
    BY <1>2
  <2>3. paid * Scale \in Nat /\ (paid + 1) * Scale \in Nat
    BY <1>1, ScaleAssumption
  <2> QED BY <2>1, <2>2, <2>3
<1>11. /\ x.side = b.side /\ y.side = s.side /\ x.market = pool.market
       /\ y.market = pool.market /\ x.trader = b.trader /\ y.trader = s.trader
       /\ x.quantity = b.quantity /\ y.quantity = s.quantity
       /\ x.limit = b.limitPrice /\ y.limit = s.limitPrice
  BY <1>2 DEF IntentOf
<1> HIDE DEF x, y, qty, price, paid, bRem, sRem, bTail, sTail, base, quote
<1>12. Ideal!Settle(x, y) <=>
         /\ x.side = "Buy" /\ y.side = "Sell" /\ x.market = y.market
         /\ x.trader # y.trader
         /\ Ideal!Gain(x.trader, x.market.base) \in 1 .. Balance[y.trader][x.market.base]
         /\ Ideal!Gain(y.trader, x.market.quote) \in 1 .. Balance[x.trader][x.market.quote]
         /\ Ideal!Gain(x.trader, x.market.base) <= x.quantity
         /\ Ideal!Gain(x.trader, x.market.base) <= y.quantity
         /\ Ideal!Gain(y.trader, x.market.quote) * Scale
              <= Ideal!Gain(x.trader, x.market.base) * x.limit
         /\ Ideal!Gain(x.trader, x.market.base) * y.limit
              < (Ideal!Gain(y.trader, x.market.quote) + 1) * Scale
         /\ Balance' = Ideal!Moved(Ideal!Moved(Balance, x.trader, y.trader, x.market.quote,
                                               Ideal!Gain(y.trader, x.market.quote)),
                                   y.trader, x.trader, x.market.base,
                                   Ideal!Gain(x.trader, x.market.base))
         /\ \E bt \in Ideal!Tails(x, Ideal!Gain(x.trader, x.market.base)),
               st \in Ideal!Tails(y, Ideal!Gain(x.trader, x.market.base)) :
              Intents' = (Intents \ {x, y}) \cup bt \cup st
  BY DEF Ideal!Settle, Intents, IntentOf, Balance
<1>13. Ideal!Gain(x.trader, x.market.base) = qty /\ Ideal!Gain(y.trader, x.market.quote) = paid
  BY <1>8, <1>11 DEF base, quote
<1>14. \E bt \in Ideal!Tails(x, qty), st \in Ideal!Tails(y, qty) :
         Intents' = (Intents \ {x, y}) \cup bt \cup st
  BY <1>5, <1>6
<1>15. Ideal!Settle(x, y)
  BY <1>2, <1>8, <1>9, <1>10, <1>11, <1>12, <1>13, <1>14 DEF base, quote
<1> QED BY <1>3, <1>7, <1>15 DEF x, y

\* A step that only moves balances is one of the ideal market's, or no step.
LEMMA MoneyMaps ==
  ASSUME LedgerInv, LedgerInv', UNCHANGED orders,
         \/ Keeps
         \/ \E p \in Parties, i \in Instruments, n \in Nat \ {0} : Issues(p, i, n)
         \/ \E p, q \in Parties, i \in Instruments, n \in Nat \ {0} : Pays(p, q, i, n)
         \/ \E p, q \in Parties, i, j \in Instruments, n, m \in Nat \ {0} :
              p # q /\ Swaps(p, i, n, q, j, m)
  PROVE  Ideal!Next \/ UNCHANGED Ideal!vars
<1>1. Intents' = Intents
  BY DEF Intents
<1>2. ASSUME Balance' = Balance PROVE UNCHANGED Ideal!vars
  BY <1>1, <1>2, IdealIs
<1>3. ASSUME Balance' # Balance,
             \E q \in Parties, i \in Instruments :
               \/ Ideal!Issue(q, i)
               \/ \E p \in Parties : \/ Ideal!Pay(p, q, i)
                                     \/ \E j \in Instruments : Ideal!Swap(p, q, i, j)
      PROVE  Ideal!Next
  <2>1. /\ Intents' = Intents /\ Balance' # Balance
        /\ \E q \in Parties, i \in Instruments :
             \/ Ideal!Issue(q, i)
             \/ \E p \in Parties : \/ Ideal!Pay(p, q, i)
                                   \/ \E j \in Instruments : Ideal!Swap(p, q, i, j)
        => Ideal!Next
    BY DEF Ideal!Next, Intents, IntentOf, Balance
  <2> QED BY <1>1, <1>3, <2>1
<1>4. CASE Keeps
  BY <1>2, <1>4, KeepsTable
<1>5. CASE \E p \in Parties, i \in Instruments, n \in Nat \ {0} : Issues(p, i, n)
  BY <1>3, <1>5, IssueMaps
<1>6. CASE \E p, q \in Parties, i \in Instruments, n \in Nat \ {0} : Pays(p, q, i, n)
  BY <1>2, <1>3, <1>6, PaysMaps
<1>7. CASE \E p, q \in Parties, i, j \in Instruments, n, m \in Nat \ {0} :
             p # q /\ Swaps(p, i, n, q, j, m)
  <2>1. PICK p \in Parties, q \in Parties, i \in Instruments, j \in Instruments,
             n \in Nat \ {0}, m \in Nat \ {0} : p # q /\ Swaps(p, i, n, q, j, m)
    BY <1>7
  <2>2. \/ Balance' = Balance
        \/ /\ Balance' # Balance
           /\ Ideal!Swap(p, q, i, j) \/ Ideal!Pay(p, q, i) \/ Ideal!Pay(q, p, i)
    BY <2>1, SwapsMaps
  <2> QED BY <1>2, <1>3, <2>2
<1> QED BY <1>4, <1>5, <1>6, <1>7

LEMMA IdealSteps ==
  /\ Ideal!Announce => Ideal!Next
  /\ (\E x \in Intents : Ideal!Retire(x)) => Ideal!Next
  /\ Intents' # Intents /\ (\E b, s \in Intents : Ideal!Settle(b, s)) => Ideal!Next
BY DEF Ideal!Next, Intents, IntentOf

\* Every step of the dark pool is a step of the ideal market, or none.
LEMMA StepMaps ==
  ASSUME IInv, LedgerInv, [Next]_vars
  PROVE  Ideal!Next \/ UNCHANGED Ideal!vars
<1>0. LedgerInv'
  BY StepWorth
<1>1. CASE HoldingStep /\ UNCHANGED poolVars
  BY <1>0, <1>1, HoldingStepWorth, MoneyMaps DEF poolVars
<1>2. CASE Tick /\ UNCHANGED poolVars
  BY <1>0, <1>2, TickWorth, MoneyMaps DEF poolVars
<1>3. CASE \E p \in Parties, t \in OrderTerms :
             \E declared \in InputLists(Own(p)) : DarkPool_PlaceOrder(p, t, declared)
  BY <1>3, RestMaps, IdealSteps DEF DarkPool_PlaceOrder
<1>4. CASE \E p \in Parties, m \in Markets, t \in DirectTerms :
             \E declared \in InputLists(holdings) : CreateOrder(p, m, t, declared)
  BY <1>4, RestMaps, IdealSteps DEF CreateOrder
<1>5. CASE \E o \in orders : ArchiveOrder(o)
  <2>1. PICK o \in orders : ArchiveOrder(o)
    BY <1>5
  <2>2. o.quantity \in PosNat /\ o.quantity <= o.quantity
    BY DEF IInv, TypeOK, Order, PosNat
  <2>3. Balance' = Balance
    BY <2>1 DEF ArchiveOrder, Balance, Wealth
  <2>4. {IntentOf(r) : r \in {}} \in Ideal!Tails(IntentOf(o), o.quantity)
    BY DEF Ideal!Tails
  <2>5. orders' = (orders \ {o}) \cup {}
    BY <2>1 DEF ArchiveOrder
  <2>6. Ideal!Retire(IntentOf(o)) /\ IntentOf(o) \in Intents
    BY <2>2, <2>3, <2>4, <2>5, RetireMaps
  <2> QED BY <2>6, IdealSteps
<1>6. CASE PoolStep \/ UNCHANGED vars
  <2>1. UNCHANGED <<registryVars, orders>>
    BY <1>6 DEF PoolStep, ArchivePool, CreatePool, vars, registryVars
  <2>2. Keeps
    BY <2>1 DEF registryVars, Keeps, Worths
  <2> QED BY <1>0, <2>1, <2>2, MoneyMaps
<1>7. ASSUME NEW o \in orders, NEW price \in LonePrices, NEW cp \in Parties,
             NEW qty \in o.minFill .. o.quantity, Order_Fill(o, qty, price, cp, now + 1)
      PROVE  Ideal!Next
  <2>1. o \in Order /\ now \in Nat /\ price \in Nat
    BY DarkPoolAssumption, RegistryAssumption DEF IInv, TypeOK, RegistryTypeOK, PosNat
  <2>2. qty \in PosNat /\ qty \in Nat /\ qty <= o.quantity /\ now + 1 \in Nat
    BY <2>1 DEF Order, PosNat
  <2>3. Balance' = Balance
    BY <1>7, <2>1, <2>2, OrderFillWorth, KeepsTable
  <2> DEFINE rest == Remainder(o, qty, FillChange(o, qty, price, nextId), nextId + 1)
  <2>4. orders' = (orders \ {o}) \cup rest
    BY <1>7 DEF Order_Fill
  <2>5. {IntentOf(r) : r \in rest} \in Ideal!Tails(IntentOf(o), qty)
    BY <2>1, <2>2, TailIs
  <2> HIDE DEF rest
  <2>6. Ideal!Retire(IntentOf(o)) /\ IntentOf(o) \in Intents
    BY <2>2, <2>3, <2>4, <2>5, RetireMaps
  <2> QED BY <2>6, IdealSteps
<1>8. CASE \E a, b \in allocs : FillAuthority_Settle(a, b)
  <2>1. PICK a \in allocs, b \in allocs : FillAuthority_Settle(a, b)
    BY <1>8
  <2>2. a \in Allocation /\ b \in Allocation /\ a.sender # b.sender /\ UNCHANGED orders
    BY <2>1 DEF LedgerInv, RegistryTypeOK, FillAuthority_Settle, Mirrored, poolVars
  <2>3. /\ a.sender \in Parties /\ a.instrument \in Instruments /\ a.amount \in Nat \ {0}
        /\ b.sender \in Parties /\ b.instrument \in Instruments /\ b.amount \in Nat \ {0}
    BY <2>2 DEF Allocation
  <2>4. Swaps(a.sender, a.instrument, a.amount, b.sender, b.instrument, b.amount)
    BY <2>1, SettleWorth
  <2>5. \E p, q \in Parties, i, j \in Instruments, n, m \in Nat \ {0} :
          p # q /\ Swaps(p, i, n, q, j, m)
    BY <2>2, <2>3, <2>4
  <2> QED BY <1>0, <2>2, <2>5, MoneyMaps
<1>9. CASE \E b, s \in orders : DarkPool_Match(b, s)
  BY <1>9, MatchMaps, IdealSteps
<1> QED
  BY <1>1, <1>2, <1>3, <1>4, <1>5, <1>6, <1>7, <1>8, <1>9 DEF Next, TraderStep

\* The dark pool implements the ideal market: whatever is done with contracts,
\* holdings, escrow and change, value moves only when its owner pays it, or in
\* exchange, and a match is delivery against payment within both limits.
THEOREM ImplementsIdealMarket == Spec => DeliveryVersusPayment
<1>1. Init => Ideal!Init
  <2> SUFFICES ASSUME Init PROVE Ideal!Init
    OBVIOUS
  <2>1. LedgerInv
    BY LedgerInit DEF Init
  <2>2. Intents = {}
    BY DEF Init, Intents
  <2> QED BY <2>1, <2>2, BalanceType, IdealIs
<1>2. IInv /\ LedgerInv /\ Supplied /\ [Next]_vars => [Ideal!Next]_Ideal!vars
  BY StepMaps
<1> QED
  BY <1>1, <1>2, Invariance, PoolLedgerInvariance, PTL
  DEF Spec, DeliveryVersusPayment, Ideal!Spec

=============================================================================
