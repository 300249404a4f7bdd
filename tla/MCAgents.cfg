SPECIFICATION Spec
CONSTANTS
  a = a
  b = b
  c = c
  Address = {a, b, c}
  EmptyAddress = zero
  DelegationByTransferValue = 7
  MaxBlock = 5
  DelegationEvents <- MCEvents
  MirrorPeriod = 1
  ElectionPeriod = 4
  Pace = 4
  SlowDown = 2
  MinPace = 2
  LookBack = 2
  Agent = {a1, a2}
  KilledAgents = {a2}
  Validator = {v1}
  BatchSize = 2
  MaxBatches = 2
  MaxErrors = 1
  StagesOfElection = 2
  MaxElections = 2
  MaxPool = 1
INVARIANTS
  AgentsAreTruthful
  StrongestDelegationWins
  NothingIsLeftBehind
PROPERTIES
  JobsGetOn
  ImplementsRegister
CHECK_DEADLOCK FALSE
