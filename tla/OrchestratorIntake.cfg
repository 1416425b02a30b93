\* Redelivery: a duplicated anomaly, malformed records, a crash, a lost broker,
\* a database failure anywhere and an analysis that raises; a human may ask for
\* more information, approve, reject, or leave the window to the sweeper.
SPECIFICATION FairSpec
CONSTANTS
  Anomalies = {a1}
  Malformed = Malformed
  Incidents = {i1, i2}
  Requests = {r1}
  Consumer = Consumer
  Sweeper = Sweeper
  Ranks = {1}
  rollback = rollback
  restart = restart
  noAction = noAction
  Actions <- MCActions
  Answers <- MCOneAnswer
  None = None
  MaxPublished = 2
  MaxAttempts = 1
  MaxInfo = 1
  MaxFaults <- EveryFault
INVARIANTS
  OneIncidentPerAnomaly
PROPERTIES
  ApprovalWindowCloses
  PublishedAnomalyIsOpened
CHECK_DEADLOCK FALSE
