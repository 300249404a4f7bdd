SPECIFICATION Spec
CONSTANTS
  a1 = a1
  a2 = a2
  a3 = a3
  a4 = a4
  g1 = g1
  g2 = g2
  g3 = g3
  v1 = v1
  v2 = v2
  v3 = v3
  Addresses = {a1, a2}
  MaxCalls = 2
  AllAddresses <- MCAllAddresses
  World <- MCWorld
  CHUNKS_A_SHARD = 2
  EMPTY_ADDRESS = "0x0"
  MaxRuns = 3
  MaxFailures = 1
  Typed = {a1, a2, a3, a4}
  MaxErrors = 1
  NodeGuardians = {g1, g2, g3}
  Stake <- MCStake
  Committees <- MCCommittees
  Certified = {g1}
  StandBy = {g2}
  FirstEvents <- MCFirstEvents
  ACCEPTED_RANGE_IN_SECONDS = 1
  TIME_RANGE_IN_SECONDS = 4
  FETCH_RETRIES = 1
  MIN_SELF_STAKE_PERCENTAGE = 8
  MaxClock = 6
  Validators = {v1, v2, v3}
  MAX_VOTED_OUT = 2
  Accounts = {me, other}
  NoVote = none
  FirstVotesOut <- MCFirstVotesOut
  MaxVotes = 2
  MaxSwitches = 1
  Candidates = {g1, g2, g3}
  Names = {n1, n2}
  NoName = none
  registrationDepositWei = 2
  registrationMinTime = 1
  MaxGuardianTime = 3
  MaxGuardianRequests = 1
  Operators = {v1, v2, v3}
  NullAccount = zero
  Ips = {ip1, ip2}
  OrbsAddresses = {o1, o2}
  NoKey = none
  validatorsLimit = 2
  MaxValidatorRequests = 1
INVARIANTS
  ShownIsWhatIsKept
  VotesAreKept
  GuardiansAreExact
  ReadersGetTheRegisters
  ValidatorsAreExact
PROPERTIES
  WebSettles
CHECK_DEADLOCK FALSE
