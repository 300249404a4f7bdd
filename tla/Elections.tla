------------------------------ MODULE Elections ------------------------------
(***************************************************************************)
(* The Elections system contract of the Orbs chain (voting/orbs/Elections), *)
(* with block-based elections.                                              *)
(*                                                                         *)
(* An election happens at an Ethereum block.  Up to it, and for a mirror    *)
(* period after it, anybody may mirror delegations; then anybody may call   *)
(* processVoting, which handles one item per call (the validators, the      *)
(* guardians, one validator, one guardian, one delegator at a time), each   *)
(* call reading Ethereum as it was at the election's block.  The last call  *)
(* counts, selects, pays and publishes the result.                          *)
(*                                                                         *)
(* A call is one Orbs transaction: it happens whole, or panics and changes  *)
(* nothing.  What interleaves are the calls of several agents, the blocks   *)
(* of Ethereum and the blocks of Orbs.                                      *)
(***************************************************************************)
EXTENDS DelegationMirror, ElectionTally

CONSTANTS
  EthereumHistories,     \* the ways Ethereum's contracts may evolve
  OrbsAddress,           \* addresses on the Orbs chain
  NoOrbsAddress,         \* what getOrbsAddress returns for the unregistered
  FirstElectionBlock,    \* FIRST_ELECTION_BLOCK
  ElectionPeriod,        \* ELECTION_PERIOD_LENGTH_IN_BLOCKS
  MirrorPeriod,          \* VOTE_MIRROR_PERIOD_LENGTH_IN_BLOCKS
  VoteValidPeriod,       \* VOTE_VALID_PERIOD_LENGTH_IN_BLOCKS
  TransitionPeriod,      \* TRANSITION_PERIOD_LENGTH_IN_BLOCKS
  EthereumStakeFactor,   \* ETHEREUM_STAKE_FACTOR, 10^18
  MaxHeight              \* bound: the last Orbs block considered

(* What the contract reads of Ethereum at one block: getValidatorsBytes20,  *)
(* getGuardiansBytes20, getCurrentVoteBytes20 (block 0: never voted),       *)
(* balanceOf, getStakeBalanceOf and getOrbsAddress.                         *)
EthereumState ==
  [validators : Seq(Address), guardians : Seq(Address),
   vote : [Account -> [block : Block, candidates : SUBSET Address]],
   balance : [Account -> Nat], locked : [Account -> Nat],
   orbsAddress : [Account -> OrbsAddress \cup {NoOrbsAddress}]]

(* The registers on Ethereum list nobody twice.                             *)
ASSUME HistoriesAssumption ==
  \A h \in EthereumHistories :
    /\ h \in [Block -> EthereumState]
    /\ \A b \in Block : IsInjective(h[b].validators) /\ IsInjective(h[b].guardians)

ASSUME PeriodsAssumption ==
  /\ {ElectionPeriod, MirrorPeriod, VoteValidPeriod, EthereumStakeFactor} \subseteq Nat \ {0}
  /\ TransitionPeriod \in Nat
  /\ FirstElectionBlock \in Nat /\ FirstElectionBlock > ElectionPeriod
  /\ FirstElectionBlock >= VoteValidPeriod
  /\ MaxHeight \in Nat

ASSUME OrbsAddressAssumption == NoOrbsAddress \notin OrbsAddress

VARIABLES
  ethereum,        \* Ethereum's contracts at each block: what CallMethodAtBlock reads
  ethBlock,        \* ethereum.GetBlockNumber(): the latest final block
  orbsHeight,      \* env.GetBlockHeight()
  genesisBlock,    \* Election_0_BlockNumber, 0 until _initCurrentElection
  elections,       \* Election_<i>_{BlockNumber,BlockHeight,ValidatorsEth,ValidatorsOrbs}, i > 0
  processState,    \* the stage of the voting process, "" between elections
  processItem,     \* the next item of the stage
  processBlock,    \* Current_Election_Block_Number
  earliestVote,    \* Current_Election_Earliest_Vote
  validatorSlots,  \* Validator_Address_<i>, stale entries included
  validatorCount,  \* Validators_Count
  validatorData,   \* Validator_<address>_{Stake,Orbs,Vote}
  guardians,       \* Guardian_Address_<i> and Guardians_Count
  guardianData,    \* Guardian_<address> and its _{Stake,VoteAt,Candidates,Weight}
  delegatorStake,  \* Delegator_<address>_Stake
  totalStake,      \* Total_Voting_Weight
  rewards          \* the cumulative rewards, and the excellence program

environmentVars == <<ethereum, ethBlock, orbsHeight>>
resultVars      == <<elections, totalStake, rewards>>
processVars     == <<processState, processItem, processBlock, earliestVote>>
validatorVars   == <<validatorSlots, validatorCount, validatorData>>
guardianVars    == <<guardians, guardianData>>

vars == <<mirrorVars, environmentVars, resultVars, processVars, validatorVars,
          guardianVars, genesisBlock, delegatorStake>>

NoState        == ""
GuardiansState == "guardians"
ValidatorsState == "validators"
GuardiansDataState == "voting"
DelegatorsState == "delegators"
CalculationsState == "calculations"

ProcessStates == {NoState, GuardiansState, ValidatorsState, GuardiansDataState,
                  DelegatorsState, CalculationsState}

UnknownValidator == [stake |-> 0, orbs |-> NoOrbsAddress, vote |-> 0]
UnknownGuardian ==
  [isGuardian |-> FALSE, stake |-> 0, voteAt |-> 0, candidates |-> {}, weight |-> 0]

Init ==
  /\ MirrorInit
  /\ ethereum \in EthereumHistories
  /\ ethBlock \in Block
  /\ orbsHeight = 1
  /\ genesisBlock = 0
  /\ elections = <<>>
  /\ processState = NoState /\ processItem = 0
  /\ processBlock = 0 /\ earliestVote = 0
  /\ validatorSlots = <<>> /\ validatorCount = 0
  /\ validatorData = [a \in Account |-> UnknownValidator]
  /\ guardians = <<>>
  /\ guardianData = [a \in Account |-> UnknownGuardian]
  /\ delegatorStake = [a \in Account |-> 0]
  /\ totalStake = 0
  /\ rewards = [participation |-> [a \in Account |-> 0],
                excellence    |-> [a \in Account |-> 0],
                introduction  |-> [a \in Account |-> 0],
                program       |-> {}]

-----------------------------------------------------------------------------
(* The election calendar (block_based_logic.go)                             *)

(* _initCurrentElectionBlockNumber: what Election_0_BlockNumber is once the *)
(* call has initialised it, one period before the next election from now.   *)
NextScheduledElection ==
  IF ethBlock > FirstElectionBlock
    THEN ethBlock + (ElectionPeriod - ((ethBlock - FirstElectionBlock) % ElectionPeriod))
    ELSE FirstElectionBlock

(* getEffectiveElectionBlockNumber                                          *)
EffectiveElectionBlock ==
  IF elections = <<>> THEN genesisBlock ELSE elections[Len(elections)].block

InitialisedGenesis ==
  IF EffectiveElectionBlock = 0 THEN NextScheduledElection - ElectionPeriod
                                ELSE genesisBlock

(* getCurrentElectionBlockNumber, as a call sees it after its own           *)
(* _initCurrentElection.                                                    *)
CurrentElectionBlock ==
  (IF elections = <<>> THEN InitialisedGenesis ELSE elections[Len(elections)].block)
    + ElectionPeriod

(* getProcessingStartBlockNumber, getMirroringEndBlockNumber                *)
ProcessingStartBlock == CurrentElectionBlock + MirrorPeriod

HasProcessingStarted == processState # NoState

IsProcessingPeriodFromElection ==
  HasProcessingStarted \/ ethBlock >= CurrentElectionBlock

IsProcessingPeriod == HasProcessingStarted \/ ethBlock >= ProcessingStartBlock

-----------------------------------------------------------------------------
(* Mirroring                                                                *)

(* An agent submits an event of a block Orbs knows to be final.  Both       *)
(* methods initialise the calendar and refuse once processing has started.  *)
Mirror(e) ==
  /\ e.block <= ethBlock
  /\ ~HasProcessingStarted
  /\ \/ MirrorDelegation(e, CurrentElectionBlock)
     \/ MirrorDelegationByTransfer(e, CurrentElectionBlock)
  /\ genesisBlock' = InitialisedGenesis
  /\ UNCHANGED <<environmentVars, resultVars, processVars, validatorVars,
                 guardianVars, delegatorStake>>

-----------------------------------------------------------------------------
(* Processing                                                               *)

(* _setValidators writes the new entries and leaves what was stored beyond  *)
(* them.                                                                    *)
OverwriteAllButLast(old, new) ==
  (IF new = <<>> THEN new ELSE Front(new)) \o SubSeq(old, Len(new) + 1, Len(old))

Overwrite(old, new) == new \o SubSeq(old, Len(new) + 1, Len(old))

AtIndex(s, i) == IF i + 1 \in DOMAIN s THEN s[i + 1] ELSE EmptyAddress

(* _getStakeAtElection and _getLockedStakeAtElection, each rounded down     *)
(* to whole ORBS, of an account at a block.                                 *)
StakeAtLatestBlock(a, block) ==
  ethereum[ethBlock].balance[a] \div EthereumStakeFactor
    + ethereum[ethBlock].locked[a] \div EthereumStakeFactor

StakeAt(a, block) ==
  ethereum[block].balance[a] \div EthereumStakeFactor
    + ethereum[block].locked[a] \div EthereumStakeFactor

(* _nextProcessVotingState                                                  *)
MoveTo(stage) == processState' = stage /\ processItem' = 0

(* The end of a call that handled one of count items of a stage.  With no   *)
(* item at all, one call has handled the item that is not there.            *)
AdvanceOrMoveTo(count, stage) ==
  IF processItem + 1 >= count
    THEN MoveTo(stage)
    ELSE processItem' = processItem + 1 /\ UNCHANGED processState

(* The first call fixes the election's block and the earliest vote that     *)
(* counts (_calculateProcessCurrentElectionValues), then stores the         *)
(* validators over the ones of the election before.                         *)
ReadValidators ==
  /\ processState = NoState
  /\ IsProcessingPeriod
  /\ genesisBlock' = InitialisedGenesis
  /\ processBlock' = CurrentElectionBlock
  /\ earliestVote' = CurrentElectionBlock - (VoteValidPeriod - 1)
  /\ validatorSlots' = Overwrite(validatorSlots, ethereum[CurrentElectionBlock].validators)
  /\ validatorCount' = Len(ethereum[CurrentElectionBlock].validators)
  /\ MoveTo(GuardiansState)
  /\ UNCHANGED <<mirrorVars, environmentVars, resultVars, validatorData,
                 guardianVars, delegatorStake>>

(* _clearGuardians, then _setGuardians with all pages of the list.          *)
ReplaceGuardiansKeepingFlags(new) ==
  [a \in Account |->
     IF a \in ToSet(new) THEN [guardianData[a] EXCEPT !.isGuardian = TRUE]
                         ELSE guardianData[a]]

ReplaceGuardians(new) ==
  LET cleared == [a \in Account |-> IF a \in ToSet(guardians) THEN UnknownGuardian
                                                              ELSE guardianData[a]]
  IN  [a \in Account |-> IF a \in ToSet(new) THEN [cleared[a] EXCEPT !.isGuardian = TRUE]
                                             ELSE cleared[a]]

ReadGuardians ==
  /\ processState = GuardiansState
  /\ guardians' = ethereum[processBlock].guardians
  /\ guardianData' = ReplaceGuardians(ethereum[processBlock].guardians)
  /\ MoveTo(ValidatorsState)
  /\ UNCHANGED <<mirrorVars, environmentVars, resultVars, genesisBlock, processBlock,
                 earliestVote, validatorVars, delegatorStake>>

CollectValidator ==
  LET v == AtIndex(validatorSlots, processItem)
  IN  /\ processState = ValidatorsState
      /\ validatorData' = [validatorData EXCEPT
                             ![v] = [stake |-> StakeAt(v, processBlock),
                                     orbs |-> ethereum[processBlock].orbsAddress[v],
                                     vote |-> @.vote]]
      /\ AdvanceOrMoveTo(validatorCount, GuardiansDataState)
      /\ UNCHANGED <<mirrorVars, environmentVars, resultVars, genesisBlock, processBlock,
                     earliestVote, validatorSlots, validatorCount, guardianVars,
                     delegatorStake>>

(* A vote older than the earliest valid block is no vote: the guardian is   *)
(* stored with nothing, and as a candidate list the zero address.           *)
IsValidVote(voteBlock) == voteBlock # 0 /\ voteBlock >= earliestVote

CollectGuardian ==
  LET g    == AtIndex(guardians, processItem)
      vote == ethereum[processBlock].vote[g]
      read == IF IsValidVote(vote.block)
                THEN [stake |-> StakeAt(g, processBlock), voteAt |-> vote.block,
                      candidates |-> vote.candidates]
                ELSE [stake |-> 0, voteAt |-> 0, candidates |-> {EmptyAddress}]
  IN  /\ processState = GuardiansDataState
      /\ guardianData' = [guardianData EXCEPT
                            ![g] = [isGuardian |-> @.isGuardian, stake |-> read.stake,
                                    voteAt |-> read.voteAt, candidates |-> read.candidates,
                                    weight |-> @.weight]]
      /\ AdvanceOrMoveTo(Len(guardians), DelegatorsState)
      /\ UNCHANGED <<mirrorVars, environmentVars, resultVars, genesisBlock, processBlock,
                     earliestVote, validatorVars, guardians, delegatorStake>>

CollectDelegator ==
  LET d == AtIndex(delegators, processItem)
  IN  /\ processState = DelegatorsState
      /\ delegatorStake' = [delegatorStake EXCEPT
                              ![d] = IF guardianData[d].isGuardian THEN 0
                                                                   ELSE StakeAt(d, processBlock)]
      /\ AdvanceOrMoveTo(Len(delegators), CalculationsState)
      /\ UNCHANGED <<mirrorVars, environmentVars, resultVars, genesisBlock, processBlock,
                     earliestVote, validatorVars, guardianVars>>

(* The result as it is published: from the block height after the           *)
(* transition, for the elected in the order of the validators' list.        *)
ElectionResultAtOnce(elected) ==
  [block |-> processBlock, height |-> orbsHeight, eth |-> elected,
   orbs |-> [i \in DOMAIN elected |-> validatorData[elected[i]].orbs]]

ElectionResult(elected) ==
  [block |-> processBlock, height |-> orbsHeight + TransitionPeriod, eth |-> elected,
   orbs |-> [i \in DOMAIN elected |-> validatorData[elected[i]].orbs]]

StagedTally ==
  Tally(guardians, guardianData, delegators,
        [a \in Account |-> IF a \in Address THEN delegation[a].agent ELSE EmptyAddress],
        delegatorStake)

StagedValidators == SubSeq(validatorSlots, 1, validatorCount)

(* What clears the process: the stage and the election's parameters, not    *)
(* the item.                                                                *)
ClearProcessKeepingStage ==
  /\ processBlock' = 0 /\ earliestVote' = 0
  /\ UNCHANGED processState

ClearProcess ==
  /\ processState' = NoState
  /\ processBlock' = 0 /\ earliestVote' = 0

(* The last call: it counts, selects, pays, publishes and clears the        *)
(* process.  It panics, and is as if never made, when the rewards cannot be *)
(* divided.                                                                 *)
Conclude ==
  /\ processState = CalculationsState
  /\ EffectiveElectionBlock <= processBlock
  /\ \E tally \in {StagedTally} :
       LET elected == Elected(StagedValidators, tally)
       IN  /\ RewardsPayable(tally)
           /\ guardianData' = [a \in Account |->
                                 IF a \in DOMAIN tally.weight
                                   THEN [guardianData[a] EXCEPT !.weight = tally.weight[a]]
                                   ELSE guardianData[a]]
           /\ totalStake' = tally.total
           /\ validatorData' = [a \in Account |->
                                  IF a \in ToSet(StagedValidators)
                                    THEN [validatorData[a] EXCEPT !.vote = tally.against[a]]
                                    ELSE validatorData[a]]
           /\ rewards' = [participation |-> AddParticipation(rewards.participation, tally),
                          excellence    |-> AddExcellence(rewards.excellence, tally),
                          introduction  |-> AddIntroduction(rewards.introduction, elected,
                                              [a \in Account |-> validatorData[a].stake]),
                          program       |-> TopGuardians(tally)]
           /\ elections' = Append(elections, ElectionResult(elected))
  /\ ClearProcess
  /\ UNCHANGED <<mirrorVars, environmentVars, processItem, genesisBlock,
                 validatorSlots, validatorCount, guardians, delegatorStake>>

ProcessVoting ==
  \/ ReadValidators
  \/ ReadGuardians
  \/ CollectValidator
  \/ CollectGuardian
  \/ CollectDelegator
  \/ Conclude

-----------------------------------------------------------------------------
(* The two chains                                                           *)

AdvanceEthereum ==
  /\ ethBlock < MaxBlock
  /\ ethBlock' = ethBlock + 1
  /\ UNCHANGED <<mirrorVars, ethereum, orbsHeight, resultVars, processVars,
                 validatorVars, guardianVars, genesisBlock, delegatorStake>>

AdvanceOrbs ==
  /\ orbsHeight < MaxHeight
  /\ orbsHeight' = orbsHeight + 1
  /\ UNCHANGED <<mirrorVars, ethereum, ethBlock, resultVars, processVars,
                 validatorVars, guardianVars, genesisBlock, delegatorStake>>

Next ==
  \/ \E e \in DelegationEvents : Mirror(e)
  \/ ProcessVoting
  \/ AdvanceEthereum
  \/ AdvanceOrbs

Spec == Init /\ [][Next]_vars

(* One agent follows the protocol, so processVoting is called as long as it *)
(* has something to do, and Ethereum keeps producing blocks.                *)
FairSpec == Spec /\ WF_vars(ProcessVoting) /\ WF_vars(AdvanceEthereum)

-----------------------------------------------------------------------------
(* The queries by which the Orbs platform and the clients read the results. *)

(* getElectedValidatorsOrbsAddressByBlockHeight: the committee of an Orbs   *)
(* block, empty before the first election.                                  *)
CommitteeAtHeight(h) ==
  LET past == {i \in DOMAIN elections : elections[i].height < h}
  IN  IF past = {} THEN <<>> ELSE elections[Max(past)].orbs

-----------------------------------------------------------------------------
(* The contract's keys keep their types, and the count of validators never  *)
(* goes beyond the slots that were written.                                 *)
TypeOK ==
  /\ MirrorTypeOK
  /\ ethereum \in [Block -> EthereumState]
  /\ ethBlock \in Block
  /\ orbsHeight \in Nat
  /\ genesisBlock \in Nat
  /\ elections \in Seq([block : Block, height : Nat, eth : Seq(Address),
                        orbs : Seq(OrbsAddress \cup {NoOrbsAddress})])
  /\ processState \in ProcessStates
  /\ processItem \in Nat
  /\ processBlock \in Block
  /\ earliestVote \in Nat
  /\ validatorSlots \in Seq(Address)
  /\ validatorCount \in 0 .. Len(validatorSlots)
  /\ validatorData \in [Account -> [stake : Nat, orbs : OrbsAddress \cup {NoOrbsAddress},
                                    vote : Nat]]
  /\ guardians \in Seq(Address)
  /\ guardianData \in [Account -> [isGuardian : BOOLEAN, stake : Nat, voteAt : Block,
                                   candidates : SUBSET Account, weight : Nat]]
  /\ delegatorStake \in [Account -> Nat]
  /\ totalStake \in Nat
  /\ rewards \in [participation : [Account -> Nat], excellence : [Account -> Nat],
                  introduction : [Account -> Nat], program : SUBSET Account]

(* How many of the count items of a stage have been collected for the       *)
(* election being processed.                                                *)
StageOrder == <<GuardiansState, ValidatorsState, GuardiansDataState, DelegatorsState,
                CalculationsState>>

IsAfter(state, stage) ==
  \E i, j \in DOMAIN StageOrder : StageOrder[i] = stage /\ StageOrder[j] = state /\ i < j

Collected(stage, count) ==
  IF processState = stage THEN processItem
    ELSE IF IsAfter(processState, stage) THEN count ELSE 0

(* What a valid or expired vote of g at block is stored as.                 *)
VoteAsOf(g, block) ==
  LET vote == ethereum[block].vote[g]
  IN  IF vote.block # 0 /\ vote.block >= block - (VoteValidPeriod - 1)
        THEN [stake |-> StakeAt(g, block), voteAt |-> vote.block,
              candidates |-> vote.candidates]
        ELSE [stake |-> 0, voteAt |-> 0, candidates |-> {EmptyAddress}]

(* However the calls of the agents, the blocks and the earlier elections    *)
(* fall, what the contract has staged for the election in progress is what  *)
(* Ethereum held at the election's block, for everyone listed at that       *)
(* block: nothing newer, nothing left over, nobody skipped.                 *)
StagedValidatorsMatch ==
  HasProcessingStarted =>
    /\ StagedValidators = ethereum[processBlock].validators
    /\ \A i \in 1 .. Collected(ValidatorsState, validatorCount) :
         i <= validatorCount =>
           /\ validatorData[validatorSlots[i]].stake = StakeAt(validatorSlots[i], processBlock)
           /\ validatorData[validatorSlots[i]].orbs =
                ethereum[processBlock].orbsAddress[validatorSlots[i]]

StagedGuardiansMatch ==
  IsAfter(processState, GuardiansState) =>
    /\ guardians = ethereum[processBlock].guardians
    /\ \A a \in Account : guardianData[a].isGuardian <=> a \in ToSet(guardians)
    /\ \A i \in 1 .. Collected(GuardiansDataState, Len(guardians)) :
         i <= Len(guardians) =>
           LET data == guardianData[guardians[i]]
               vote == VoteAsOf(guardians[i], processBlock)
           IN  /\ data.stake = vote.stake
               /\ data.voteAt = vote.voteAt
               /\ data.candidates = vote.candidates

StagedDelegatorsMatch ==
  HasProcessingStarted =>
    \A i \in 1 .. Collected(DelegatorsState, Len(delegators)) :
      i <= Len(delegators) =>
        delegatorStake[delegators[i]] =
          IF delegators[i] \in ToSet(guardians) THEN 0
                                                ELSE StakeAt(delegators[i], processBlock)

StagedDataIsOfElectionBlock ==
  StagedValidatorsMatch /\ StagedGuardiansMatch /\ StagedDelegatorsMatch

(* An election in progress counts no delegation made after its block.       *)
NoDelegationAfterElection ==
  HasProcessingStarted => \A d \in Address : delegation[d].block <= processBlock

(* Elections stay on the grid of the first election whenever the contract   *)
(* is deployed and however late they are held, and none is begun before     *)
(* its mirror period is over.                                               *)
ElectionsOnSchedule ==
  /\ \A i \in DOMAIN elections : elections[i].block = genesisBlock + i * ElectionPeriod
  /\ genesisBlock # 0 =>
       /\ genesisBlock >= FirstElectionBlock - ElectionPeriod
       /\ (genesisBlock + ElectionPeriod - FirstElectionBlock) % ElectionPeriod = 0
  /\ HasProcessingStarted =>
       /\ processBlock = EffectiveElectionBlock + ElectionPeriod
       /\ ethBlock >= processBlock + MirrorPeriod

(* The vote never leaves a committee under the minimum: it either keeps     *)
(* enough of the validators of the election's block or all of them.         *)
CommitteeKeepsMinimum ==
  \A i \in DOMAIN elections :
    \/ Len(elections[i].eth) >= MinElectedValidators
    \/ elections[i].eth = ethereum[elections[i].block].validators

(* From the first to the last call of an election the delegations and the   *)
(* election's parameters stay as they are.                                  *)
FrozenWhileProcessing ==
  [][HasProcessingStarted /\ HasProcessingStarted' =>
       UNCHANGED <<delegators, delegation, processBlock, earliestVote>>]_vars

(* The committee of a past, the current or the next Orbs block never        *)
(* changes: whoever asked for it once may rely on the answer.               *)
CommitteesInForceAreFixed ==
  [][\A h \in 1 .. orbsHeight + TransitionPeriod :
       CommitteeAtHeight(h)' = CommitteeAtHeight(h)]_vars

Concluded == Len(elections') > Len(elections)

(* One election pays its top guardians no more than the excellence budget   *)
(* of their weight, ties with the last of them included.                    *)
ExcellenceWithinBudget ==
  [][Concluded =>
       LET paid == [a \in Account |-> rewards.excellence'[a] - rewards.excellence[a]]
           top  == {a \in Account : paid[a] > 0}
       IN  SumFunctionOnSet(paid, Account)
             <= MaxRewardForGroup(ExcellenceMaxReward,
                  SumFunctionOnSet([a \in Account |-> guardianData'[a].weight],
                                   rewards.program'),
                  ExcellencePercent)]_vars

(* With one agent that keeps calling processVoting, every election whose    *)
(* mirror period has passed is held, and so the one after it.               *)
IsDue(n) == genesisBlock # 0 /\ genesisBlock + n * ElectionPeriod + MirrorPeriod <= ethBlock

EveryDueElectionConcludes ==
  \A n \in 1 .. MaxBlock \div ElectionPeriod : IsDue(n) ~> Len(elections) >= n

-----------------------------------------------------------------------------
(* The Orbs address at which each of the elected sits, as published.        *)
SeatsOf(result) ==
  [v \in ToSet(result.eth) |->
     result.orbs[CHOOSE j \in DOMAIN result.eth : result.eth[j] = v]]

(* The staged contract is the election in one step: see AtomicElections.    *)
Atomic ==
  INSTANCE AtomicElections WITH
    ParticipationPool <- ParticipationPool,
    calendar <- genesisBlock,
    agents   <- [d \in Address |-> delegation[d].agent],
    results  <- [i \in DOMAIN elections |->
                   [block |-> elections[i].block, seats |-> SeatsOf(elections[i])]],
    total    <- totalStake,
    earned   <- rewards.participation

(* Seen from outside, an election is one step that counts the stakes,       *)
(* votes and delegations of its block, everyone's once, whatever the stages *)
(* and their interleavings.                                                 *)
ImplementsAtomicElections == Atomic!Spec

=============================================================================
