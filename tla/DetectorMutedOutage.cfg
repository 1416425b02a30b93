SPECIFICATION FairSpec
CHECK_DEADLOCK FALSE
CONSTANTS
  catalogue = catalogue
  carts = carts
  shop = shop
  stream = stream
  None = None
  Services = {catalogue}
  Sites = {shop}
  SiteOf <- OneSite
  Scores = {2}
  Delay = 1
  Cooldown = 4
  Escalation = 2
  MaxMembers = 2
  StaleAfter = 2
  MinSeen = 2
  Lag = 1
  MaxTime = 9
  LastSample = 2
  MaxSamples = 3
  MaxRuns = 1
PROPERTIES
  SilenceIsAlerted
