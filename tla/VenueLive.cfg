CONSTANTS
  Scale = 2
  alice = alice
  bob = bob
  base = base
  quote = quote
  p1 = p1
  p2 = p2
  h1 = h1
  Parties = {alice, bob}
  Instruments = {base, quote}
  Genesis <- MCGenesis
  Amounts = {}
  MaxInputs = 1
  MaxId = 8
  MaxTime = 1
  Market <- MCMarket
  Markets <- MCMarkets
  Floors = {1}
  OrderTerms <- MCOrderTerms
  DirectTerms = {}
  MaxPlaced = 2
  LonePrices = {}
  Passes = {p1}
  Handlers = {}
  MaxFaults = 1
  PoolSteps = TRUE
SPECIFICATION FairVenue
PROPERTIES FirstPairSettles ExpiredSwept
CHECK_DEADLOCK FALSE
