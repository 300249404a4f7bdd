SPECIFICATION TallySpec
CONSTANTS
  a1 = a1
  a2 = a2
  a3 = a3
  a4 = a4
  Address = {a1, a2, a3, a4}
  EmptyAddress = zero
  GuardianLists <- MCGuardianLists
  Ballots <- MCBallots
  StakeOfAll <- MCStakeOfAll
  Candidates <- MCCandidates
  Listed <- MCListed
  VoteOutWeightPercent = 70
  MinElectedValidators = 1
  AnnualToElectionFactor = 100
  ParticipationMaxReward = 60
  ParticipationPercent = 500
  ExcellenceMaxReward = 40
  ExcellencePercent = 800
  ExcellenceMaxNumber = 1
  IntroductionReward = 3
  ValidatorPercent = 400
INVARIANTS
  TallyIsTheReferences
