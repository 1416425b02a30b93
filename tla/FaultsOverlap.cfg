SPECIFICATION FaultSpec
CONSTANTS
  catalogue = catalogue
  db = db
  Kinds = {"bad_deploy_latency", "service_crash", "db_pool_saturation", "dependency_timeout", "config_error", "memory_exhaustion", "resource_exhaustion"}
  Containers = {catalogue, db}
  Services = {catalogue}
  Catalogue = catalogue
  Dependency <- MCDependency
  Null = Null
  Orphan = Orphan
  Overlap = TRUE
  MaxTime = 1
  MaxScenarios = 2
  MaxMishaps <- NoMishap
INVARIANTS
  EveryFaultUndoesItself
CHECK_DEADLOCK FALSE
