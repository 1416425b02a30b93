SPECIFICATION DiagnosisSpec
CONSTANTS
  r1 = r1
  r2 = r2
  Requests = {r1, r2}
  Callees <- MCCallees
  Alphabet <- MCAlphabet
  MaxHops = 2
  Weight <- MCWeight
  DeployScore <- MCDeployScore
  CoWindow = 2
  TopK = 2
  MaxHypotheses = 2
  MaxCandidates = 4
  MinCandidates = 2
  RollbackMinScore = 50
  Garbled = Garbled
  Modes = {"full"}
  TheAnomaly <- MCAnomaly
  LateAnomalies <- MCLate
  DeployRows <- MCDeploys
  Corpus <- MCCorpus
  History <- MCHistory
  Chain <- MCChain
  ServedBy <- MCServedBy
  Replies <- FewReplies
  MaxAttempts = 2
  NoModel = NoModel
  MaxRows = 2
  MaxRestarts = 0
SYMMETRY RequestsAlike
INVARIANT ServedRunsMissNothing
CHECK_DEADLOCK FALSE
