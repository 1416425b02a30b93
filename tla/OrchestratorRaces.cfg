\* Two concurrent requests, the consumer and the sweeper on one incident,
\* with a database failure between any two transactions.
SPECIFICATION Spec
CONSTANTS
  Anomalies = {a1}
  Malformed = Malformed
  Incidents = {i1}
  Requests = {r1, r2}
  Consumer = Consumer
  Sweeper = Sweeper
  Ranks = {1, 2}
  rollback = rollback
  restart = restart
  noAction = noAction
  Actions <- MCActions
  Answers <- MCAnswers
  None = None
  MaxPublished = 1
  MaxAttempts = 3
  MaxInfo = 1
  MaxFaults <- OneDatabaseFailure
SYMMETRY RequestSymmetry
INVARIANTS
  IntentIsTheApprovedAction
  TrailIsLifecyclePath
  FeedbackAgreesWithDecision
  ConsoleShowsOnlyHistory
PROPERTIES
  VerdictIsFinal
  HypothesesHoldStill
  ImplementsApprovalGate
CHECK_DEADLOCK FALSE
