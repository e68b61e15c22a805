CONSTANTS
  Scale = 2
  alice = alice
  bob = bob
  carol = carol
  base = base
  quote = quote
  Parties = {alice, bob, carol}
  Instruments = {base, quote}
  Genesis <- MCGenesis
  Amounts = {}
  MaxInputs = 1
  MaxId = 16
  MaxTime = 1
  Market <- MCMarket
  Markets <- MCMarkets
  Floors = {1, 2}
  OrderTerms <- MCOrderTerms
  DirectTerms = {}
  MaxPlaced = 4
  LonePrices = {}
SPECIFICATION Spec
INVARIANTS FundedThroughout WithinLimit Settleable PlansArePairs PriceTimePriority FundingCovers
PROPERTY DeliveryVersusPayment
CHECK_DEADLOCK FALSE
