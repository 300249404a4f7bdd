---------------------------- MODULE PosDataReads ----------------------------
(***************************************************************************)
(* The reads of orbs-pos-data.  A read is several calls to an Ethereum node *)
(* and to an Orbs node, some awaited one after the other, some together;    *)
(* the chains go on between them, and no call says at which block it was    *)
(* answered.  One address, me, is followed; reads share no state, so one at *)
(* a time is enough.                                                        *)
(***************************************************************************)
EXTENDS Integers, SequencesExt, FiniteSetsExt

CONSTANTS
  Me, Agents, NOT_DELEGATED,
  FIRST_ELECTION_BLOCK_HEIGHT, INTERVAL_BETWEEN_ELECTIONS, VALID_VOTE_LENGTH,
  EarliestBlock,   \* earliestBlockForDelegation
  ADDRESS_LENGTH,  \* bytes of an address
  Results,         \* what each election left on Orbs: [total, weight, against, stake,
                   \* delegatorReward, guardianReward, validatorReward, elected]
  FirstBlocks,     \* the blocks at which a test starts
  FirstVotes,      \* when me had voted then, zero for never
  PastDelegations, \* the delegations me had made then
  MaxMoves         \* bound: what happens on the chains

ASSUME PosDataAssumption ==
  /\ Me # NOT_DELEGATED /\ NOT_DELEGATED \notin Agents
  /\ INTERVAL_BETWEEN_ELECTIONS \in Nat \ {0}
  /\ FIRST_ELECTION_BLOCK_HEIGHT \in Nat /\ VALID_VOTE_LENGTH \in Nat
  /\ ADDRESS_LENGTH \in Nat \ {0} /\ EarliestBlock \in Nat
  /\ \A b \in FirstBlocks :
       /\ b \in Nat /\ b > FIRST_ELECTION_BLOCK_HEIGHT /\ b >= VALID_VOTE_LENGTH /\ b >= EarliestBlock
       /\ \A v \in FirstVotes : v \in 0 .. b
  /\ \A past \in PastDelegations :
       past \in Seq([kind : {"Delegate"}, to : Agents \cup {Me}, block : Nat, value : {"none"}]
             \cup [kind : {"Transfer"}, to : Agents, block : Nat, value : {"0.07", "other"}])
  /\ \A past \in PastDelegations : \A i \in DOMAIN past : past[i].block >= EarliestBlock

(* An election counts as votes what is in its total; rewards accumulate.    *)
ASSUME ResultsAssumption ==
  /\ Len(Results) \in Nat \ {0} /\ DOMAIN Results = 1 .. Len(Results)
  /\ \A e \in DOMAIN Results :
       /\ Results[e].total \in Nat
       /\ Results[e].weight \in 0 .. Results[e].total /\ Results[e].against \in 0 .. Results[e].total
       /\ Results[e].elected \in Seq(Seq(Nat))
       /\ \A i \in DOMAIN Results[e].elected : Len(Results[e].elected[i]) = ADDRESS_LENGTH
  /\ \A e, f \in DOMAIN Results, reward \in {"delegatorReward", "guardianReward", "validatorReward"} :
       Results[e][reward] \in Int /\ (e <= f => Results[e][reward] <= Results[f][reward])

VARIABLES
  block,       \* the latest block of Ethereum
  delegations, \* Delegate events of OrbsVoting and Transfers from me, in order
  votedAt,     \* getCurrentVote(me).blockNumber
  distributed, \* RewardDistributed(me) of the two distribution contracts
  election,    \* how many elections Orbs has concluded, from 1
  moves,       \* counts those bounded by MaxMoves
  read,        \* the read under way: [kind, start, got]
  answer       \* what the last one returned: [kind, start, upto, value]

chainVars == <<block, delegations, votedAt, distributed, election, moves>>
readsVars == <<chainVars, read, answer>>

NoRead == [kind |-> "none"]

Moment ==
  [block |-> block, delegations |-> Len(delegations), votedAt |-> votedAt,
   distributed |-> <<Len(distributed[1]), Len(distributed[2])>>, election |-> election]

-----------------------------------------------------------------------------
(* The chains                                                               *)

(* OrbsVoting: delegate, undelegate (an event that names the sender).       *)
DelegateEvent(to) == [kind |-> "Delegate", to |-> to, block |-> block, value |-> "none"]
TransferEvent(to, value) == [kind |-> "Transfer", to |-> to, block |-> block, value |-> value]

ReadsInit ==
  /\ block \in FirstBlocks
  /\ delegations \in PastDelegations
  /\ votedAt \in FirstVotes
  /\ distributed = << <<1>>, <<2>> >>
  /\ election = 1
  /\ moves = 0
  /\ read = NoRead /\ answer = NoRead

Move ==
  /\ moves < MaxMoves
  /\ moves' = moves + 1
  /\ UNCHANGED <<read, answer>>

MineBlock ==
  Move /\ block' = block + 1 /\ UNCHANGED <<delegations, votedAt, distributed, election>>

ActOnDelegation ==
  /\ Move
  /\ \E event \in {DelegateEvent(to) : to \in Agents \cup {Me}}
           \cup {TransferEvent(to, value) : to \in Agents, value \in {"0.07", "other"}} :
       delegations' = Append(delegations, event)
  /\ UNCHANGED <<block, votedAt, distributed, election>>

Vote ==
  Move /\ votedAt' = block /\ UNCHANGED <<block, delegations, distributed, election>>

Distribute(contract) ==
  /\ Move
  /\ distributed' = [distributed EXCEPT ![contract] = Append(@, moves + 3)]
  /\ UNCHANGED <<block, delegations, votedAt, election>>

ConcludeElection ==
  /\ Move /\ election < Len(Results)
  /\ election' = election + 1
  /\ UNCHANGED <<block, delegations, votedAt, distributed>>

-----------------------------------------------------------------------------
(* The calls                                                                *)

(* What they answer after the first n events.                               *)
Delegates(n) == {i \in 1 .. n : delegations[i].kind = "Delegate"}
Transfers(n) == {i \in 1 .. n : delegations[i].kind = "Transfer"}

CurrentDelegation(n) ==
  IF Delegates(n) = {} \/ delegations[Max(Delegates(n))].to = Me
    THEN NOT_DELEGATED ELSE delegations[Max(Delegates(n))].to

LastVisible(events) ==
  LET visible == {i \in events : delegations[i].block >= EarliestBlock}
  IN  IF visible = {} THEN [to |-> NOT_DELEGATED, block |-> 0]
      ELSE [to |-> delegations[Max(visible)].to, block |-> delegations[Max(visible)].block]

(* getCurrentDelegationByDelegate: the last Delegate event to that agent.   *)
DelegateEvents(n, to) == LastVisible({i \in Delegates(n) : delegations[i].to = to})

(* getCurrentDelegationByTransfer: the last Transfer of 0.07 ORBS.          *)
TransferEvents(n) == LastVisible({i \in Transfers(n) : delegations[i].value = "0.07"})

(* What each transfer moved is left out, that it moved something is not.    *)
OrbsBalance(n) == -Cardinality(Transfers(n))

(* Elections are counted from one: the very first is never the answer.      *)
ReadUpcomingElectionBlockNumber(b) ==
  LET Election(n) == FIRST_ELECTION_BLOCK_HEIGHT + INTERVAL_BETWEEN_ELECTIONS * n
  IN  Election(Min({n \in 1 .. (b + 1) : Election(n) >= b}))

ReadTotalParticipatingTokens == Results[election].total
ReadGuardianVoteWeight == Results[election].weight
ReadValidatorVotes == Results[election].against
ReadValidatorStake == Results[election].stake
ReadElectedValidatorsData == FlattenSeq(Results[election].elected)
ReadParticipationReward == Results[election].delegatorReward
ReadGuardianReward == Results[election].guardianReward
ReadValidatorReward == Results[election].validatorReward

(* sendQuery and call: got is what the read has been answered.              *)
Call(name, got) ==
  CASE name = "currentDelegation" -> CurrentDelegation(Len(delegations))
    [] name = "delegateEvents" -> DelegateEvents(Len(delegations), got.currentDelegation)
    [] name = "transferEvents" -> TransferEvents(Len(delegations))
    [] name = "balance" -> OrbsBalance(Len(delegations))
    [] name = "currentVote" -> votedAt
    [] name = "upcoming" -> ReadUpcomingElectionBlockNumber(block)
    [] name = "total" -> ReadTotalParticipatingTokens
    [] name = "weight" -> ReadGuardianVoteWeight
    [] name = "against" -> ReadValidatorVotes
    [] name = "stake" -> ReadValidatorStake
    [] name = "elected" -> ReadElectedValidatorsData
    [] name = "delegatorReward" -> ReadParticipationReward
    [] name = "guardianReward" -> ReadGuardianReward
    [] name = "validatorReward" -> ReadValidatorReward
    [] name = "distributions" -> distributed[1]
    [] name = "distributionsForStaking" -> distributed[2]

-----------------------------------------------------------------------------
(* The reads                                                                *)

Kinds == {"delegation", "selectedGuardian", "guardianInfo", "validatorInfo",
          "electedValidatorInfo", "rewards", "history", "electedValidators"}

Has(got, name) == name \in DOMAIN got
IsDelegate(got) == Has(got, "delegateEvents") /\ got.delegateEvents.to # NOT_DELEGATED

When(condition, calls) == IF condition THEN calls ELSE {}

(* readDelegationInfo.                                                      *)
DelegationCalls(got) ==
  << {"currentDelegation"},
     When(Has(got, "currentDelegation") /\ got.currentDelegation # NOT_DELEGATED, {"delegateEvents"}),
     When(~IsDelegate(got), {"transferEvents"}),
     {"balance"} >>

(* readSelectedGuardianAddress.                                             *)
SelectedGuardianCalls(got) ==
  << {"currentDelegation"},
     When(Has(got, "currentDelegation") /\ got.currentDelegation = NOT_DELEGATED, {"transferEvents"}) >>

(* What is awaited together, in the order of the awaits.                    *)
Awaits(kind, got) ==
  CASE kind = "delegation" -> DelegationCalls(got)
    [] kind = "selectedGuardian" -> SelectedGuardianCalls(got)
    [] kind = "guardianInfo" -> << {"currentVote", "upcoming"}, {"weight", "total"} >>
    [] kind = "validatorInfo" -> << {"against", "total"} >>
    [] kind = "electedValidatorInfo" -> << {"stake"} >>
    [] kind = "rewards" -> << {"delegatorReward", "guardianReward", "validatorReward"} >>
    [] kind = "history" -> << {"distributions"}, {"distributionsForStaking"} >>
    [] kind = "electedValidators" -> << {"elected"} >>

Waiting(kind, got) ==
  LET awaits == Awaits(kind, got)
      open == {i \in DOMAIN awaits : ~(awaits[i] \subseteq DOMAIN got)}
  IN  IF open = {} THEN {} ELSE awaits[Min(open)] \ DOMAIN got

DelegationInfo(got) ==
  LET Info(type, found) ==
        [type |-> type, to |-> found.to, block |-> found.block, balance |-> got.balance]
  IN  IF IsDelegate(got) THEN Info("Delegate", got.delegateEvents)
      ELSE IF got.transferEvents.to # NOT_DELEGATED THEN Info("Transfer", got.transferEvents)
      ELSE Info("Not-Delegated", got.transferEvents)

SelectedGuardian(got) ==
  IF Has(got, "transferEvents") THEN got.transferEvents.to ELSE got.currentDelegation

(* hasEligibleVote in getGuardianData.                                      *)
HasEligibleVoteOneBlockLonger(vote, upcoming) == vote + VALID_VOTE_LENGTH >= upcoming
HasEligibleVote(vote, upcoming) == vote + VALID_VOTE_LENGTH > upcoming

(* stakePercent is kept as the pair that is divided.                        *)
GuardianInfo(got) ==
  [hasEligibleVote |-> HasEligibleVote(got.currentVote, got.upcoming),
   voted |-> got.weight # 0,
   stakePercent |-> IF got.total = 0 THEN <<0, 1>> ELSE <<got.weight, got.total>>]

ValidatorInfo(got) ==
  [votesAgainst |-> IF got.total = 0 THEN 0 ELSE (100 * got.against) \div got.total]

Rewards(got) ==
  [delegatorReward |-> got.delegatorReward, guardianReward |-> got.guardianReward,
   validatorReward |-> got.validatorReward]

(* readRewardsDistributionsHistory.                                         *)
RewardsHistory(got) == got.distributions \o got.distributionsForStaking

(* readElectedValidators: every twenty bytes an address.                    *)
ElectedValidators(data) ==
  [i \in 1 .. (Len(data) \div ADDRESS_LENGTH) |->
    SubSeq(data, (i - 1) * ADDRESS_LENGTH + 1, i * ADDRESS_LENGTH)]

Value(kind, got) ==
  CASE kind = "delegation" -> DelegationInfo(got)
    [] kind = "selectedGuardian" -> SelectedGuardian(got)
    [] kind = "guardianInfo" -> GuardianInfo(got)
    [] kind = "validatorInfo" -> ValidatorInfo(got)
    [] kind = "electedValidatorInfo" -> got.stake
    [] kind = "rewards" -> Rewards(got)
    [] kind = "history" -> RewardsHistory(got)
    [] kind = "electedValidators" -> ElectedValidators(got.elected)

StartRead(kind) ==
  /\ read = NoRead
  /\ read' = [kind |-> kind, start |-> Moment, got |-> <<>>]
  /\ answer' = NoRead
  /\ UNCHANGED chainVars

AnswerCall ==
  /\ read # NoRead
  /\ \E name \in Waiting(read.kind, read.got) :
       read' = [read EXCEPT !.got =
         [n \in DOMAIN @ \cup {name} |-> IF n = name THEN Call(name, @) ELSE @[n]]]
  /\ UNCHANGED <<chainVars, answer>>

Resolve ==
  /\ read # NoRead /\ Waiting(read.kind, read.got) = {}
  /\ answer' = [kind |-> read.kind, start |-> read.start, upto |-> Moment,
                value |-> Value(read.kind, read.got)]
  /\ read' = NoRead
  /\ UNCHANGED chainVars

ReadsNext ==
  \/ MineBlock \/ ActOnDelegation \/ Vote \/ ConcludeElection
  \/ \E contract \in 1 .. 2 : Distribute(contract)
  \/ \E kind \in Kinds : StartRead(kind)
  \/ AnswerCall \/ Resolve

ReadsSpec == ReadsInit /\ [][ReadsNext]_readsVars

-----------------------------------------------------------------------------
Answered(kind) == answer # NoRead /\ answer.kind = kind

(* The delegation that the Elections contract holds once it has mirrored    *)
(* the first n events: the last Delegate, else the last transfer of 0.07    *)
(* ORBS (mirror_delegate.go:83-114).                                        *)
MirroredDelegation(n) ==
  LET counted == {i \in Transfers(n) : delegations[i].value = "0.07"}
      Info(type, e) == [type |-> type, to |-> e.to, block |-> e.block]
  IN  IF Delegates(n) # {} THEN Info("Delegate", delegations[Max(Delegates(n))])
      ELSE IF counted # {} THEN Info("Transfer", delegations[Max(counted)])
      ELSE [type |-> "Not-Delegated", to |-> NOT_DELEGATED, block |-> 0]

(* What a read says of a delegation is what the Elections contract would    *)
(* have counted at some moment of the read, although the current agent, its *)
(* events and the transfers are read one after the other.  It takes two     *)
(* acts of the account during the read to be told what never was; accounts  *)
(* that undelegated are told of transfers that no longer count.             *)
DelegationIsMirrored ==
  (answer # NoRead /\ answer.kind \in {"delegation", "selectedGuardian"}) =>
    LET from == answer.start.delegations
        upto == answer.upto.delegations
        Undelegated == \E i \in 1 .. upto : delegations[i].to = Me
    IN  \/ Undelegated \/ upto > from + 1
        \/ \E n \in from .. upto :
             IF answer.kind = "selectedGuardian"
               THEN answer.value = MirroredDelegation(n).to
               ELSE /\ answer.value.type = MirroredDelegation(n).type
                    /\ answer.value.to = MirroredDelegation(n).to
                    /\ answer.value.block = MirroredDelegation(n).block

(* Whoever is shown a guardian with an eligible vote is shown one whose     *)
(* vote the next election counts (processing_vote.go:146 and                *)
(* processing_helpers.go:82), whatever block was mined during the read.     *)
EligibilityIsTheElections ==
  (Answered("guardianInfo") /\ answer.upto.votedAt = answer.start.votedAt) =>
    \E b \in answer.start.block .. answer.upto.block :
      LET next == CHOOSE e \in b .. (b + INTERVAL_BETWEEN_ELECTIONS - 1) :
                    (e - FIRST_ELECTION_BLOCK_HEIGHT) % INTERVAL_BETWEEN_ELECTIONS = 0
      IN  answer.value.hasEligibleVote
            <=> (answer.upto.votedAt # 0 /\ answer.upto.votedAt >= next - (VALID_VOTE_LENGTH - 1))

(* Numbers from Orbs are those of elections in force during the read, also  *)
(* when two elections are mixed: the elected list is one committee, rewards *)
(* are no less than at the start and no more than at the end, and when no   *)
(* election came between, a share is a share of its own election.           *)
OrbsAnswersAreOfTheirTime ==
  LET from == answer.start.election
      upto == answer.upto.election
  IN  /\ Answered("electedValidators") =>
           \E e \in from .. upto : answer.value = Results[e].elected
      /\ Answered("rewards") =>
           \A reward \in DOMAIN answer.value :
             answer.value[reward] \in Results[from][reward] .. Results[upto][reward]
      /\ (Answered("guardianInfo") /\ from = upto) =>
           /\ answer.value.stakePercent[1] <= answer.value.stakePercent[2]
           /\ answer.value.voted <=> answer.value.stakePercent[1] > 0
      /\ (Answered("validatorInfo") /\ from = upto) => answer.value.votesAgainst <= 100

(* A history names every distribution of both contracts up to the start of  *)
(* the read, none twice and none that came after its end.                   *)
HistoryIsComplete ==
  Answered("history") =>
    LET Until(moment) ==
          UNION {ToSet(SubSeq(distributed[c], 1, moment.distributed[c])) : c \in 1 .. 2}
    IN  /\ Until(answer.start) \subseteq ToSet(answer.value)
        /\ ToSet(answer.value) \subseteq Until(answer.upto)
        /\ IsInjective(answer.value)

(* What is read in several calls is what the contracts say at some moment   *)
(* of the read.                                                             *)
ReadsAreTheContracts ==
  /\ DelegationIsMirrored
  /\ EligibilityIsTheElections
  /\ OrbsAnswersAreOfTheirTime
  /\ HistoryIsComplete

=============================================================================
