SPECIFICATION FairSpec
CONSTANTS
  a = a
  b = b
  c = c
  d = d
  Address = {a, b, c, d}
  EmptyAddress = zero
  Histories <- MCHistories
  ProcessStartBlock = 1
  FirstElectionBlock = 5
  ElectionPeriod = 2
  VotingValidityPeriod = 3
  EndBlocks = {10}
  Paging = 4
  SlowPaging = 2
  GuardianPage = 1
  MaxLevel = 1
  MaxLaunches = 2
  VoteOutWeightPercent = 70
  MinElectedValidators = 1
  AnnualToElectionFactor = 100
  ParticipationMaxReward = 60
  ParticipationPercent = 500
  ExcellenceMaxReward = 40
  ExcellencePercent = 800
  ExcellenceMaxNumber = 1
  IntroductionReward = 3
  ValidatorPercent = 400
INVARIANTS
  VotesAreTheContracts
  AccumulatedIsWhatTheContractPaid
  FilesAreConsistent
PROPERTIES
  EveryRunEnds
CHECK_DEADLOCK FALSE
