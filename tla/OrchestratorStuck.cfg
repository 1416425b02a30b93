\* An error status on the model_version lookup leaves the incident in ANALYZING.
SPECIFICATION FairSpec
CONSTANTS
  Anomalies = {a1}
  Malformed = Malformed
  Incidents = {i1}
  Requests = {r1}
  Consumer = Consumer
  Sweeper = Sweeper
  Ranks = {1}
  rollback = rollback
  restart = restart
  noAction = noAction
  Actions <- MCActions
  Answers <- MCOneAnswer
  None = None
  MaxPublished = 1
  MaxAttempts = 2
  MaxInfo = 0
  MaxFaults <- OneEscape
PROPERTIES
  NeverStuckAnalyzing
CHECK_DEADLOCK FALSE
