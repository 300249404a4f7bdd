SPECIFICATION FairSpec
CONSTANTS
  g1 = g1
  g2 = g2
  d1 = d1
  d2 = d2
  v1 = v1
  v2 = v2
  v3 = v3
  o1 = o1
  o2 = o2
  o3 = o3
  Address = {g1, g2, d1, d2, v1, v2, v3}
  EmptyAddress = zero
  OrbsAddress = {o1, o2, o3}
  NoOrbsAddress = noOrbs
  DelegationByTransferValue = 7
  MaxBlock = 5
  MaxHeight = 1
  DelegationEvents <- TwoEvents
  EthereumHistories <- PoorHistories
  FirstElectionBlock = 3
  ElectionPeriod = 2
  MirrorPeriod = 1
  VoteValidPeriod = 3
  TransitionPeriod = 1
  EthereumStakeFactor = 2
  VoteOutWeightPercent = 70
  MinElectedValidators = 2
  AnnualToElectionFactor = 100
  ParticipationMaxReward = 60
  ParticipationPercent = 500
  ExcellenceMaxReward = 40
  ExcellencePercent = 800
  ExcellenceMaxNumber = 1
  IntroductionReward = 3
  ValidatorPercent = 400
PROPERTIES
  EveryDueElectionConcludes
CHECK_DEADLOCK FALSE
