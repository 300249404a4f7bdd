SPECIFICATION Spec
CONSTANTS
  alice = alice
  bob = bob
  me = me
  ann = ann
  ben = ben
  none = none
  Setups <- MCSetups
  Accounts = {alice, bob}
  Guardians = {gary}
  NoGuardian = nobody
  Amounts = {1}
  Subscribers = {wallet}
  MaxTxs = 2
  MaxTimers = 2
  Me <- me
  Agents = {ann, ben}
  NOT_DELEGATED <- none
  FIRST_ELECTION_BLOCK_HEIGHT = 2
  INTERVAL_BETWEEN_ELECTIONS = 3
  VALID_VOTE_LENGTH = 4
  EarliestBlock = 1
  ADDRESS_LENGTH = 2
  Results <- MCResults
  FirstBlocks = {5}
  FirstVotes = {0, 1, 2}
  PastDelegations <- MCPastDelegations
  MaxMoves = 2
  Values = {0, 2}
  MaxEvents = 3
INVARIANTS
  TestkitIsTheContracts
  ReadsAreTheContracts
  SubscribersAreToldTheTruth
PROPERTIES
  EverythingCompletes
CHECK_DEADLOCK FALSE
