SPECIFICATION FairSpec
CONSTANTS
  alice = alice
  bob = bob
  carol = carol
  Recipients = {alice, bob, carol}
  Owner = owner
  Distribution = distribution
  Nobody = zero
  Names = {march}
  Files <- MCFiles
  BatchSizes = {2, 3}
  Clients = {c1, c2}
  DirectRewards <- MCDirectRewards
  Funds = 3
  MaxAnnouncements = 2
  MaxUnmined = 1
INVARIANTS
  DistributionIsExact
PROPERTIES
  ImplementsCommitments
  DistributionCompletes
CHECK_DEADLOCK FALSE
