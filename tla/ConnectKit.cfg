CONSTANTS
  None = None
  Attempts = {a1, a2, a3}
  Accounts = {alice}
  Hosts = {"app", "any"}
SPECIFICATION FairConnect
INVARIANTS ConnectedIsUsable OneListener RespectsTheUser
PROPERTY ConnectingEnds
CHECK_DEADLOCK FALSE
