SPECIFICATION Spec
CHECK_DEADLOCK FALSE
CONSTANTS
  catalogue = catalogue
  carts = carts
  shop = shop
  stream = stream
  None = None
  Services = {catalogue, carts}
  Sites = {shop}
  SiteOf <- OneSite
  Scores = {2, 4}
  Delay = 1
  Cooldown = 4
  Escalation = 2
  MaxMembers = 2
  StaleAfter = 2
  MinSeen = 2
  Lag = 1
  MaxTime = 6
  LastSample = 6
  MaxSamples = 3
  MaxRuns = 1
INVARIANTS
  ReAlertSpacing
  EscalationIsHeard
