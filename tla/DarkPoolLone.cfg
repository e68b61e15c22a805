CONSTANTS
  Scale = 2
  alice = alice
  bob = bob
  base = base
  quote = quote
  Parties = {alice, bob}
  Instruments = {base, quote}
  Genesis <- MCFewHoldings
  Amounts = {}
  MaxInputs = 1
  MaxId = 11
  MaxTime = 1
  Market <- MCMarket
  Markets <- MCMarkets
  Floors = {1}
  OrderTerms <- MCFewTerms
  DirectTerms <- MCDirectTerms
  MaxPlaced = 3
  LonePrices = {3}
SPECIFICATION Spec
INVARIANTS IInv NeverOverspent
PROPERTIES OnlyDeclaredSpent RemainderInherits EscrowReturnsOrSettles
CHECK_DEADLOCK FALSE
