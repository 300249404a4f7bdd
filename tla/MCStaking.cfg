SPECIFICATION MCStakingSpec
CONSTANTS
  alice = alice
  bob = bob
  old = old
  new = new
  Address = {alice, bob}
  EmptyAddress = zero
  StakingContracts = {old, new}
  Managers = {alice, bob}
  CooldownPeriod = 1
  MaxApprovedStakingContracts = 1
  InitialBalance <- OneTokenEach
  Amounts = {1, 2}
  MaxTime = 1
INVARIANTS
  BooksBalance
PROPERTIES
  StakeLeavesOnlyToItsOwner
  ImplementsLedger
  ReleasedStakesReturn
CHECK_DEADLOCK FALSE
