SPECIFICATION FairSpec
CHECK_DEADLOCK FALSE
CONSTANTS
  catalogue = catalogue
  carts = carts
  shop = shop
  stream = stream
  None = None
  Services = {catalogue, carts}
  Sites = {shop, stream}
  SiteOf <- TwoSites
  Scores = {2}
  Delay = 1
  Cooldown = 4
  Escalation = 2
  MaxMembers = 3
  StaleAfter = 2
  MinSeen = 2
  Lag = 1
  MaxTime = 5
  LastSample = 2
  MaxSamples = 2
  MaxRuns = 2
PROPERTIES
  GroupIsPublished
  SilenceIsNoticed
