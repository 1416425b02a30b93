\* A false alarm while the baselines warm up.
SPECIFICATION EvalSpec
CONSTANTS
  Suite <- MCSuite
  Unasked = Unasked
  Implemented <- MCImplemented
  Garbage = Garbage
  Noise <- MCNoise
  GraceAfter = 1
  WarmupTime = 1
  Settle = 1
  QuietTail = 1
  LastInstant = 6
  MaxAlerts = 1
INVARIANT WarmupIsNotScored
CHECK_DEADLOCK FALSE
