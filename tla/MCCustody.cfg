SPECIFICATION Spec
CONSTANTS
  alice = alice
  old = old
  new = new
  Address = {alice}
  EmptyAddress = zero
  StakingContracts = {old, new}
  Managers = {alice}
  CooldownPeriod = 2
  MaxApprovedStakingContracts = 1
  InitialBalance <- MCInitialBalance
  Amounts = {0, 1, 2}
  MaxTime = 4
  n1 = n1
  n2 = n2
  n3 = n3
  h1 = h1
  u1 = u1
  u2 = u2
  Nodes = {n1, n2, n3}
  MAX_FEDERATION_MEMBERS = 3
  FirstMembers <- MCFirstMembers
  MaxRevision = 1
  Holders = {h1}
  OrbsUsers = {u1, u2}
  NoAddress = nobody
  Values = {0, 2, 4}
  FirstWallets <- MCFirstWallets
  UINT64 = 4
  BlockProofs <- MCBlockProofs
  OtherReceipts <- MCOtherReceipts
  OtherEvents <- MCOtherEvents
  MaxTransfers = 2
  MaxResets = 2
  MaxEvents = 4
  v1 = v1
  v2 = v2
  SubscriptionIds = {s1, s2}
  Fees = {1, 2}
  minimalMonthlySubscription = 2
  ReceiverLists <- MCReceiverLists
  Days <- MCDays
  MaxSubscriptions = 3
INVARIANTS
  StakeStaysThroughCooldown
  BridgeIsExact
  SubscriptionsAreExact
PROPERTIES
  BridgeIsFaithful
  TransfersArrive
CHECK_DEADLOCK FALSE
