CONSTANTS
  Scale = 2
  alice = alice
  bob = bob
  base = base
  quote = quote
  Parties = {alice, bob}
  Instruments = {base, quote}
  Genesis <- MCGenesis
  Amounts = {1, 2, 3}
  MaxInputs = 2
  MaxId = 6
  MaxTime = 1
SPECIFICATION RegistrySpec
INVARIANT Conservation
PROPERTY LeavesWhole
CHECK_DEADLOCK FALSE
