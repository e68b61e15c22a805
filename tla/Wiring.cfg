CONSTANTS
  Scale = 2
  alice = alice
  bob = bob
  base = base
  quote = quote
  Parties = {alice, bob}
  Instruments = {base, quote}
  Genesis <- MCGenesis
  Amounts = {2}
  MaxInputs = 1
  MaxId = 7
  MaxTime = 1
  Market <- MCMarket
  Markets <- MCMarkets
  Floors = {1}
  OrderTerms <- MCOrderTerms
  DirectTerms = {}
  MaxPlaced = 0
  MaxMinted = 2
  LonePrices = {}
  Calls = {c1, c2}
  Lives = {1, 3}
  Skew = 2
  MaxClock = 6
SPECIFICATION WiringSpec
INVARIANTS PaidAsRecorded Conservation CachedIsValid
CHECK_DEADLOCK FALSE
