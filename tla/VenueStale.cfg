CONSTANTS
  Scale = 2
  alice = alice
  bob = bob
  base = base
  quote = quote
  p1 = p1
  p2 = p2
  h1 = h1
  Parties = {alice, bob}
  Instruments = {base, quote}
  Genesis <- MCOneEach
  Amounts = {1}
  MaxInputs = 1
  MaxId = 6
  MaxTime = 0
  Market <- MCMarket
  Markets <- MCMarkets
  Floors = {1}
  OrderTerms <- MCLongTerms
  DirectTerms = {}
  MaxPlaced = 2
  LonePrices = {}
  Passes = {p1}
  Handlers = {}
  MaxFaults = 0
  PoolSteps = FALSE
SPECIFICATION VenueSpec
PROPERTY StaleOrderRejected
CHECK_DEADLOCK FALSE
