CONSTANTS
  alice = alice
  bob = bob
  VenuePolls = {v1}
  TradePolls = {t1}
  MaxVersion = 3
  MaxLosses = 1
  Mantissas = 1024
  One = 2048
  AmountSpacings = {1, 2, 4, 8, 16}
  CountSpacings = {1, 2, 4, 8, 16, 32, 64, 128, 256}
  Factor = 13
  MaxTicks = 9
  MaxPrice = 2700
  Human = alice
  Sims = {bob}
  SeedTotal = 2208
  SeedOrders <- MCSeedOrders
  DemoTerms <- MCDemoTerms
  HumanTerms <- MCHumanTerms
  SimTerms <- MCSimTerms
  MinFillFloor = 400
  MaxSeq = 8
SPECIFICATION ClientsSpec
INVARIANTS ClientInv SuccessIsShown MockConserves DeclaredCovers FreshPanels
PROPERTIES CatchesUp ButtonsComeBack
CHECK_DEADLOCK FALSE
