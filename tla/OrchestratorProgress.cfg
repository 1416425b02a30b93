\* Without faults every handler that was entered runs to its end.
SPECIFICATION FairSpec
CONSTANTS
  Anomalies = {a1}
  Malformed = Malformed
  Incidents = {i1}
  Requests = {r1, r2}
  Consumer = Consumer
  Sweeper = Sweeper
  Ranks = {1}
  rollback = rollback
  restart = restart
  noAction = noAction
  Actions <- MCActions
  Answers <- MCOneAnswer
  None = None
  MaxPublished = 1
  MaxAttempts = 3
  MaxInfo = 0
  MaxFaults <- NoFaults
PROPERTIES
  AnalysisSettles
  VerdictIsCarriedOut
CHECK_DEADLOCK FALSE
