---------------------------- MODULE ElectionTally ----------------------------
(***************************************************************************)
(* The arithmetic of one election (processing_vote.go, processing_rewards.go): *)
(* who votes with what weight, who is voted out, who is paid how much.      *)
(* Operators only: the contract that calls them is module Elections.        *)
(*                                                                         *)
(* Amounts are whole ORBS.  uint64 does not overflow here: the supply is    *)
(* 10^10 ORBS and the largest product 10^10 * 10^9, so Nat is exact.        *)
(***************************************************************************)
EXTENDS Accounts, Integers, SequencesExt

CONSTANTS
  VoteOutWeightPercent,    \* VOTE_OUT_WEIGHT_PERCENT, 70
  MinElectedValidators,    \* MIN_ELECTED_VALIDATORS, 7
  AnnualToElectionFactor,  \* ANNUAL_TO_ELECTION_FACTOR_BLOCKBASED, 11723
  ParticipationMaxReward,  \* ELECTION_PARTICIPATION_MAX_REWARD
  ParticipationPercent,    \* ELECTION_PARTICIPATION_MAX_STAKE_REWARD_PERCENT
  ExcellenceMaxReward,     \* ELECTION_GUARDIAN_EXCELLENCE_MAX_REWARD
  ExcellencePercent,       \* ELECTION_GUARDIAN_EXCELLENCE_MAX_STAKE_REWARD_PERCENT
  ExcellenceMaxNumber,     \* ELECTION_GUARDIAN_EXCELLENCE_MAX_NUMBER, 10
  IntroductionReward,      \* ELECTION_VALIDATOR_INTRODUCTION_REWARD
  ValidatorPercent         \* ELECTION_VALIDATOR_MAX_STAKE_REWARD_PERCENT

ASSUME TallyAssumption ==
  /\ VoteOutWeightPercent \in 0 .. 100
  /\ MinElectedValidators \in Nat
  /\ AnnualToElectionFactor \in Nat \ {0}
  /\ ExcellenceMaxNumber \in Nat \ {0}
  /\ {ParticipationMaxReward, ParticipationPercent, ExcellenceMaxReward,
      ExcellencePercent, IntroductionReward, ValidatorPercent} \subseteq Nat

(* The sum of amount[s[i]] over the positions of s: what occurs twice in s  *)
(* counts twice.                                                            *)
SumOver(s, amount) == FoldLeft(LAMBDA acc, a : acc + amount[a], 0, s)

(* The entries of s that are in S, in their order.                          *)
Among(s, S) ==
  LET upto[i \in 0 .. Len(s)] ==
        IF i = 0 THEN <<>>
        ELSE IF s[i] \in S THEN Append(upto[i - 1], s[i]) ELSE upto[i - 1]
  IN  upto[Len(s)]

-----------------------------------------------------------------------------
(* Who votes with whose stake                                               *)

(* _collectGuardiansStake: the guardians with a valid vote, in list order.  *)
CastingGuardians(guardians, voteAt) ==
  Among(guardians, {g \in Account : voteAt[g] # 0})

(* _collectDelegatorsStake: guardians cannot delegate, and a delegator      *)
(* counts once however often it is listed.                                  *)
CountedDelegators(listed, guardians) ==
  FoldLeft(LAMBDA acc, d : IF Contains(guardians, d) \/ Contains(acc, d)
                             THEN acc ELSE Append(acc, d),
           <<>>, listed)

(* _findGuardianDelegators: guardianToDelegators[a], without who delegates  *)
(* to itself.                                                               *)
DelegatorsOf(a, counted, agentOf) ==
  Among(counted, {d \in Account : agentOf[d] = a /\ d # a})

(* _calculateOneGuardianVoteRecursive: whom the recursion from g appends to *)
(* participants, in its order.  A chain of delegations that reaches a       *)
(* guardian has no cycle, since the guardian delegates to nobody, so it is  *)
(* at most Len(counted) long and the recursion is bounded by that depth.    *)
DirectDelegatorsOnly(g, counted, agentOf) == DelegatorsOf(g, counted, agentOf)

RepresentedBy(g, counted, agentOf) ==
  LET below[depth \in 0 .. Len(counted)] ==
        [a \in Account |->
           IF depth = 0 THEN <<>>
           ELSE LET direct == DelegatorsOf(a, counted, agentOf)
                IN  FlattenSeq([i \in DOMAIN direct |->
                                  <<direct[i]>> \o below[depth - 1][direct[i]]])]
  IN  below[Len(counted)][g]

(* _guardiansCastVotes, on the data staged for the election:                *)
(*   weight[g]     what guardian g votes with: its own stake and that of    *)
(*                 everyone it represents                                   *)
(*   total         the sum of the weights                                   *)
(*   against[v]    the weight cast against v;  named: who is voted on       *)
(*   participants  everyone whose stake was counted, in order               *)
Tally(guardians, guardianData, listed, agentOf, delegatorStake) ==
  LET voteAt    == [g \in Account |-> guardianData[g].voteAt]
      casting   == CastingGuardians(guardians, voteAt)
      counted   == CountedDelegators(listed, guardians)
      behind    == [g \in ToSet(casting) |-> RepresentedBy(g, counted, agentOf)]
      weight    == [g \in ToSet(casting) |->
                      guardianData[g].stake + SumOver(behind[g], delegatorStake)]
      against(v) == SumOver(Among(casting, {g \in Account : v \in guardianData[g].candidates}),
                            weight)
  IN [ weight       |-> weight,
       total        |-> SumOver(casting, weight),
       named        |-> UNION {guardianData[g].candidates : g \in ToSet(casting)},
       against      |-> [v \in Account |-> against(v)],
       participants |-> FlattenSeq([i \in DOMAIN casting |->
                                      <<casting[i]>> \o behind[casting[i]]]),
       stake        |-> [a \in Account |-> IF a \in ToSet(casting)
                                             THEN guardianData[a].stake
                                             ELSE delegatorStake[a]] ]

-----------------------------------------------------------------------------
(* _processValidatorsSelection                                              *)

VoteOutThreshold(total) == (total * VoteOutWeightPercent) \div 100

(* A validator nobody named stays even when the threshold is zero.          *)
Stays(v, tally) ==
  v \notin tally.named \/ tally.against[v] < VoteOutThreshold(tally.total)

(* When too few would be left, the vote is ignored and all stay.            *)
ElectedWithoutMinimum(validators, tally) ==
  Among(validators, {v \in ToSet(validators) : Stays(v, tally)})

Elected(validators, tally) ==
  LET winners == Among(validators, {v \in ToSet(validators) : Stays(v, tally)})
  IN  IF Len(winners) >= MinElectedValidators THEN winners ELSE validators

-----------------------------------------------------------------------------
(* _processRewards                                                          *)

AnnualFactorize(amount) == amount \div AnnualToElectionFactor

MaxRewardForGroup(upperMaximum, total, percent) ==
  LET upper == AnnualFactorize(upperMaximum * 100)
      calc  == AnnualFactorize(total * percent)
  IN  IF calc < upper THEN calc ELSE upper

ParticipationPool(total) ==
  MaxRewardForGroup(ParticipationMaxReward, total, ParticipationPercent)

ParticipationShareRoundedUp(a, tally) ==
  (tally.stake[a] * ParticipationPool(tally.total) + tally.total - 1) \div tally.total

(* What one participant gets each time it occurs in tally.participants.     *)
ParticipationShare(a, tally) ==
  (tally.stake[a] * ParticipationPool(tally.total)) \div tally.total

(* _getTopGuardians: the ones with the most weight, and all that tie with   *)
(* the last of them.                                                        *)
TopGuardians(tally) ==
  {g \in DOMAIN tally.weight :
     Cardinality({h \in DOMAIN tally.weight : tally.weight[h] > tally.weight[g]})
       < ExcellenceMaxNumber}

TopTotalWithoutTies(tally) ==
  SumOver(SubSeq(SetToSeq(TopGuardians(tally)), 1, ExcellenceMaxNumber), tally.weight)

TopTotal(tally) == SumOver(SetToSeq(TopGuardians(tally)), tally.weight)

ExcellenceShare(g, tally) ==
  (tally.weight[g] * MaxRewardForGroup(ExcellenceMaxReward, TopTotal(tally),
                                       ExcellencePercent)) \div TopTotal(tally)

ValidatorShare(stake) ==
  AnnualFactorize(IntroductionReward * 100) + AnnualFactorize(stake * ValidatorPercent)

(* Div panics on a zero divisor: with somebody to pay and no weight at all  *)
(* the rewards, and the whole call with them, fail.                         *)
RewardsPayable(tally) ==
  /\ tally.participants # <<>> => tally.total > 0
  /\ TopGuardians(tally) # {} => TopTotal(tally) > 0

(* How often a occurs in s.                                                 *)
Occurrences(a, s) == Cardinality({i \in DOMAIN s : s[i] = a})

AddParticipation(paid, tally) ==
  [a \in DOMAIN paid |->
     IF a \in ToSet(tally.participants)
       THEN paid[a] + Occurrences(a, tally.participants) * ParticipationShare(a, tally)
       ELSE paid[a]]

AddExcellence(paid, tally) ==
  [a \in DOMAIN paid |->
     IF a \in TopGuardians(tally) THEN paid[a] + ExcellenceShare(a, tally) ELSE paid[a]]

AddIntroduction(paid, elected, stakeOf) ==
  [a \in DOMAIN paid |->
     IF a \in ToSet(elected)
       THEN paid[a] + Occurrences(a, elected) * ValidatorShare(stakeOf[a])
       ELSE paid[a]]

=============================================================================
