------------------------------ MODULE StatusPage ------------------------------
(***************************************************************************)
(* The status page (status/status.js): a program that recomputes every past *)
(* election from Ethereum alone, election by election, accumulates the      *)
(* rewards and leaves two files per election, from which a later run can go *)
(* on.  The contract computes the same elections from what was mirrored, so *)
(* the two are independent implementations of one rule.                     *)
(*                                                                         *)
(* Ethereum's past does not change: history is chosen once.  Amounts are    *)
(* whole ORBS (of a fraction the page keeps two digits and the contract     *)
(* none); a quotient of JavaScript's floats is taken as exact, and NaN as   *)
(* 0: whoever reads an accumulated reward takes both for "nothing yet".     *)
(***************************************************************************)
EXTENDS ElectionTally

CONSTANTS
  Histories,             \* what Ethereum may hold: see history
  ProcessStartBlock, FirstElectionBlock, ElectionPeriod, VotingValidityPeriod,
  EndBlocks,             \* the blocks at which runs may be told to end
  Paging,                \* blocks searched at once, 20000
  SlowPaging,            \* and after a page failed, paging / 5
  GuardianPage,          \* guardians read at once, 50
  MaxLevel,              \* intermediaries between delegator and guardian, 5
  MaxLaunches            \* runs of the program (bound)

ASSUME StatusPageAssumption ==
  /\ {Paging, SlowPaging, GuardianPage, ElectionPeriod} \subseteq Nat \ {0}
  /\ {ProcessStartBlock, FirstElectionBlock, VotingValidityPeriod} \subseteq Nat
  /\ {MaxLevel, MaxLaunches} \subseteq Nat
  /\ FirstElectionBlock - ElectionPeriod \in Nat
  /\ FirstElectionBlock > VotingValidityPeriod
  /\ EndBlocks \subseteq Nat /\ EndBlocks # {} /\ IsFiniteSet(EndBlocks)

(* Small pages end where large ones and periods do, as 4000 divides 20000.  *)
ASSUME SmallPagesFit == Paging % SlowPaging = 0 /\ ElectionPeriod % SlowPaging = 0

(* The elections there are before the last block a run may end at.          *)
Elections ==
  {b \in FirstElectionBlock .. Max(EndBlocks) : (b - FirstElectionBlock) % ElectionPeriod = 0}

(* A transaction index no block reaches.                                    *)
LastTx == 1000000

(* Ethereum has no delegation from before the contracts, and none of one    *)
(* kind twice by one account in one transaction; at each election it has    *)
(* guardians, none twice, balances of the token and stakes that are locked  *)
(* in the StakingContract.                                                  *)
ASSUME HistoriesAssumption ==
  \A h \in Histories :
    /\ IsFiniteSet(h.events)
    /\ \A e \in h.events :
         /\ e \in [delegator : Address, to : Account, block : Nat, tx : 0 .. LastTx - 1,
                   method : {"Transfer", "Delegate"}]
         /\ e.block >= ProcessStartBlock
    /\ \A e, f \in h.events :
         e.delegator = f.delegator /\ e.method = f.method /\ e.block = f.block /\ e.tx = f.tx
           => e = f
    /\ DOMAIN h.guardians = Elections
    /\ \A b \in Elections : h.guardians[b] \in Seq(Address) /\ IsInjective(h.guardians[b])
    /\ h.stake \in [Elections -> [Address -> Nat]]
    /\ h.locked \in [Elections -> [Address -> Nat]]
    /\ h.votes \in [Address -> SUBSET Nat] /\ \A a \in Address : IsFiniteSet(h.votes[a])

VARIABLES
  history,              \* [events, guardians, votes, stake, locked]
  stage,                \* "off", "prepare", "collect" or "calculate"
  fileStartFrom,        \* the election the run went on from, or 0
  startElectionPeriod,
  processEndBlock,
  delegatorsMap,        \* the delegation events that count, one per delegator
  guardianOf,           \* the guardian field of their delegators
  rewards,              \* accumulated: [participation, excellence]
  eventTxs,             \* [transfers, delegates]: onlyLatest...
  delegationsFile,      \* by election block: what writeToFile left
  votesFile,
  dropped,              \* has a search for Delegates failed on the way here?
  launches

ElectionBlock == startElectionPeriod + ElectionPeriod

memory == <<fileStartFrom, startElectionPeriod, processEndBlock, delegatorsMap,
            guardianOf, rewards, eventTxs, dropped>>

vars == <<history, stage, memory, delegationsFile, votesFile, launches>>

Zeros == [a \in Address |-> 0]

NoRewards == [participation |-> Zeros, excellence |-> Zeros]

NoTxs == [transfers |-> {}, delegates |-> {}]

Nobody == [a \in Address |-> EmptyAddress]

Init ==
  /\ history \in Histories
  /\ stage = "off"
  /\ fileStartFrom = 0
  /\ startElectionPeriod = 0
  /\ processEndBlock = 0
  /\ delegatorsMap = {}
  /\ guardianOf = Nobody
  /\ rewards = NoRewards
  /\ eventTxs = NoTxs
  /\ dropped = FALSE
  /\ delegationsFile = <<>>
  /\ votesFile = <<>>
  /\ launches = 0

-----------------------------------------------------------------------------
(* Searching for delegations                                                *)

Newer(e, f) == e.block > f.block \/ (e.block = f.block /\ e.tx > f.tx)

(* The newest event of each delegator.                                      *)
LatestOf(events) ==
  {e \in events : \A f \in events : f.delegator = e.delegator => ~Newer(f, e)}

Pages(start, end, paging) == {i \in start .. end - 1 : (i - start) % paging = 0}

PageEndPastTheRange(i, paging, end) == i + paging

PageEnd(i, paging, end) == IF i + paging < end THEN i + paging ELSE end

(* The blocks searched for transfers, when the pages in slow failed and     *)
(* were searched again in smaller ones: those may reach past the end.       *)
TransferBlocks(start, end, slow) ==
  UNION {IF i \in slow
           THEN UNION {j .. j + SlowPaging :
                         j \in Pages(i, PageEnd(i, Paging, end), SlowPaging)}
           ELSE i .. PageEnd(i, Paging, end) : i \in Pages(start, end, Paging)}

(* The blocks searched for Delegates before the page at failed failed.      *)
DelegateBlocks(start, end, failed) ==
  UNION {i .. PageEnd(i, Paging, end) : i \in {p \in Pages(start, end, Paging) : p < failed}}

EventsIn(method, blocks) ==
  LatestOf({e \in history.events : e.method = method /\ e.block \in blocks})

(* Maps by delegator: the entries of new replace those of old.              *)
Overwrite(old, new) ==
  new \cup {e \in old : \A f \in new : f.delegator # e.delegator}

MergeEvents(transferEvents, delegateEvents) == Overwrite(transferEvents, delegateEvents)

(* update's shouldReplace.                                                  *)
Replaces(new, old) ==
  \/ old.method = "Transfer" /\ new.method = "Delegate"
  \/ old.method = new.method /\ Newer(new, old)

Accepted(map, found) ==
  {f \in found : \A e \in map : e.delegator = f.delegator => Replaces(f, e)}

(* delegators.read and update for one range of blocks.  A search for        *)
(* Delegates that fails finds none, though what its first pages found stays *)
(* in eventTxs; failed = end when it does not.                              *)
ReadDelegations(start, end, slow, failed) ==
  LET transfers == EventsIn("Transfer", TransferBlocks(start, end, slow))
      delegates == EventsIn("Delegate", DelegateBlocks(start, end, failed))
      found     == MergeEvents(transfers, IF failed < end THEN {} ELSE delegates)
      accepted  == Accepted(delegatorsMap, found)
  IN  /\ delegatorsMap' = Overwrite(delegatorsMap, accepted)
      /\ guardianOf' = [a \in Address |-> IF \E e \in accepted : e.delegator = a
                                            THEN EmptyAddress ELSE guardianOf[a]]
      /\ eventTxs' = [transfers |-> Overwrite(eventTxs.transfers, transfers),
                      delegates |-> Overwrite(eventTxs.delegates, delegates)]
      /\ dropped' = (dropped \/ failed < end)

SearchDelegations(start, end) ==
  \E slow \in SUBSET Pages(start, end, Paging), failed \in Pages(start, end, Paging) \cup {end} :
    ReadDelegations(start, end, slow, failed)

-----------------------------------------------------------------------------
(* Launching: from the start, or from the files of an election              *)

(* calculateNumberOfElections, which does not know the first election.      *)
CalculateNumberOfElections(block) ==
  IF block <= FirstElectionBlock THEN -1
  ELSE IF (block - FirstElectionBlock) % ElectionPeriod # 0 THEN -2
  ELSE (block - FirstElectionBlock) \div ElectionPeriod + 1

LaunchFromStart ==
  /\ stage = "off" /\ launches < MaxLaunches
  /\ processEndBlock' \in EndBlocks
  /\ stage' = "prepare"
  /\ startElectionPeriod' = FirstElectionBlock - ElectionPeriod
  /\ launches' = launches + 1
  /\ UNCHANGED <<history, fileStartFrom, delegatorsMap, guardianOf, rewards, eventTxs,
                 dropped, delegationsFile, votesFile>>

CollectPreElection ==
  /\ stage = "prepare"
  /\ IF FirstElectionBlock - ElectionPeriod > ProcessStartBlock
       THEN SearchDelegations(ProcessStartBlock, FirstElectionBlock - ElectionPeriod)
       ELSE UNCHANGED <<delegatorsMap, guardianOf, eventTxs, dropped>>
  /\ stage' = "collect"
  /\ UNCHANGED <<history, fileStartFrom, startElectionPeriod, processEndBlock,
                 rewards, delegationsFile, votesFile, launches>>

(* readFromFile: the file has no transaction indices, and its blocks are    *)
(* strings, which are never === to a number: nothing of the same block      *)
(* replaces an entry read from a file, as if it had the last index.         *)
FromFile(delegations) == {[e EXCEPT !.tx = LastTx] : e \in delegations}

(* readHistoryRewardsFromFile.  Who is named as the delegatee of a          *)
(* delegation that leads to no guardian is taken for a guardian in a row    *)
(* with no rewards: parseInt(undefined) makes its reward NaN.               *)
RewardsFromLastElection(file) ==
  [participation |-> [a \in Address |-> IF a \in DOMAIN file.paid THEN file.paid[a] ELSE 0],
   excellence    |-> [a \in Address |-> IF a \in DOMAIN file.excellence
                                          THEN file.excellence[a] ELSE 0]]

RewardsFromFile(file) ==
  LET named == {e.to : e \in file.unled}
  IN  [participation |-> [a \in Address |->
                            IF a \in DOMAIN file.participation \ named
                              THEN file.participation[a] ELSE 0],
       excellence    |-> [a \in Address |->
                            IF a \in DOMAIN file.excellence \ named
                              THEN file.excellence[a] ELSE 0]]

LaunchFromFile ==
  /\ stage = "off" /\ launches < MaxLaunches
  /\ processEndBlock' \in EndBlocks
  /\ \E from \in DOMAIN delegationsFile \cap DOMAIN votesFile :
       /\ CalculateNumberOfElections(from) >= 1
       /\ fileStartFrom' = from
       /\ startElectionPeriod' = from
       /\ delegatorsMap' = FromFile(delegationsFile[from].delegations)
       /\ rewards' = RewardsFromFile(votesFile[from])
       /\ dropped' = (delegationsFile[from].dropped \/ votesFile[from].dropped)
  /\ stage' = "collect"
  /\ launches' = launches + 1
  /\ UNCHANGED <<history, guardianOf, eventTxs, delegationsFile, votesFile>>

-----------------------------------------------------------------------------
(* One election                                                             *)

NextNever(map) == startElectionPeriod

(* With no delegation at all the election is skipped.                       *)
NextIfEmpty(map) == IF map = {} THEN ElectionBlock ELSE startElectionPeriod

(* The file of one election is written anew, the others stay.               *)
Written(files, block, content) ==
  [b \in DOMAIN files \cup {block} |-> IF b = block THEN content ELSE files[b]]

(* What writeToFile and writeTxToFile leave.                                *)
DelegationFiles(delegations, txs, incomplete) ==
  [delegations    |-> delegations,
   latestCombined |-> Overwrite(txs.transfers, txs.delegates),
   dropped        |-> incomplete]

(* main's loop up to the delegations file.                                  *)
CollectDelegations ==
  /\ stage = "collect"
  /\ startElectionPeriod < processEndBlock - ElectionPeriod
  /\ SearchDelegations(startElectionPeriod, ElectionBlock)
  /\ startElectionPeriod' = NextIfEmpty(delegatorsMap')
  /\ IF delegatorsMap' = {}
       THEN UNCHANGED <<stage, delegationsFile>>
       ELSE /\ stage' = "calculate"
            /\ delegationsFile' =
                 Written(delegationsFile, ElectionBlock,
                         DelegationFiles(delegatorsMap', eventTxs', dropped'))
  /\ UNCHANGED <<history, fileStartFrom, processEndBlock, rewards, votesFile, launches>>

(* guardians.read at one block: pages until one is not full.                *)
GuardiansRead(block) ==
  LET all == history.guardians[block]
  IN  {all[i] : i \in {j \in DOMAIN all :
                         (j - 1) \div GuardianPage <= Len(all) \div GuardianPage}}

(* getCurrentVote at a block, 0 for none.                                   *)
CurrentVote(g, block) == Max({0} \cup {v \in history.votes[g] : v <= block})

VoteCountsTooLong(g, block) == CurrentVote(g, block) >= block - VotingValidityPeriod - 1

VoteCounts(g, block) == CurrentVote(g, block) >= block - VotingValidityPeriod

(* _recursiveFollowDelegation: the guardian a delegation leads to, if it is *)
(* not too far away.  left: the intermediaries that may still be followed.  *)
FollowDelegation(e, guardians, delegations, maxLevel) ==
  LET walk[left \in 0 .. maxLevel] ==
        [a \in Account |->
           LET next == {f \in delegations : f.delegator = a}
           IN  IF a \in guardians THEN a
               ELSE IF next = {} \/ left = 0 THEN EmptyAddress
               ELSE walk[left - 1][(CHOOSE f \in next : TRUE).to]]
  IN  walk[maxLevel][e.to]

(* _calculateDelegationMap: guardians' own delegations are deleted.         *)
CalculateDelegationMap(guardians) ==
  {e \in delegatorsMap : e.delegator \notin guardians}

(* Which delegator is led to which guardian.                                *)
Followed(guardians, kept) ==
  {<<e.delegator, FollowDelegation(e, guardians, kept, MaxLevel)>> : e \in kept}

(* The guardian fields it leaves: those of delegations that lead nowhere    *)
(* keep the guardian of an earlier election.                                *)
GuardianFields(followed) ==
  [a \in Address |->
     IF \A f \in followed : f[1] # a THEN EmptyAddress
     ELSE IF <<a, EmptyAddress>> \in followed THEN guardianOf[a]
     ELSE (CHOOSE f \in followed : f[1] = a)[2]]

(* stakes.read, at the election's block: the token's balance and no more.   *)
StakeAt(a, block) == history.stake[block][a]

(* _copyAndSums.                                                            *)
CopyAndSums(block, guardians, followed) ==
  LET behind(g) == {f[1] : f \in {x \in followed : x[2] = g}}
      stake     == [a \in Address |-> StakeAt(a, block)]
      weight    == [g \in guardians |-> stake[g] + SumFunctionOnSet(stake, behind(g))]
      casting   == {g \in guardians : VoteCounts(g, block)}
  IN  [ stake   |-> stake,
        weight  |-> weight,
        casting |-> casting,
        total   |-> SumFunctionOnSet(weight, casting),
        payees  |-> casting \cup UNION {behind(g) : g \in casting},
        listed  |-> guardians \cup UNION {behind(g) : g \in guardians} ]

(* The first EXCELLENCE_MAX of the sorted guardians: the sort does not say  *)
(* in which order equals come.                                              *)
MayBeFirst(top, sums) ==
  /\ Cardinality(top) = Min({ExcellenceMaxNumber, Cardinality(sums.casting)})
  /\ \A g \in top, h \in sums.casting \ top : sums.weight[g] >= sums.weight[h]

(* _updateAccReward of each payee's share of a group's reward; with no      *)
(* votes at all the shares are NaN.                                         *)
Accumulate(old, payees, part, total, max) ==
  [a \in Address |->
     IF a \notin payees THEN old[a]
     ELSE IF total = 0 THEN 0
     ELSE old[a] + (part[a] * max) \div total]

AddParticipationRewards(old, sums) ==
  Accumulate(old, sums.payees, sums.stake, sums.total,
             MaxRewardForGroup(ParticipationMaxReward, sums.total, ParticipationPercent))

(* _voteRewardsCalculations.                                                *)
AddRewards(old, sums, top) ==
  LET topTotal == SumFunctionOnSet(sums.weight, top)
  IN  [participation |-> AddParticipationRewards(old.participation, sums),
       excellence    |-> Accumulate(old.excellence, top, sums.weight, topTotal,
                           MaxRewardForGroup(ExcellenceMaxReward, topTotal, ExcellencePercent))]

(* voting.writeToFile: the rows of guardians and of who they represent, and *)
(* those of the delegations whose guardian field is no guardian.            *)
VotesRows(sums, guardians, kept, fields, accumulated) ==
  [ weight        |-> [g \in sums.casting |-> sums.weight[g]],
    total         |-> sums.total,
    paid          |-> AddParticipationRewards(Zeros, sums),
    participation |-> [a \in sums.listed |-> accumulated.participation[a]],
    excellence    |-> [g \in guardians |-> accumulated.excellence[g]],
    unled         |-> {e \in kept : fields[e.delegator] \notin guardians},
    dropped       |-> dropped ]

(* main's loop from the guardians on: voting.calculate and its file.  What  *)
(* is computed once is bound by \E over one value.                          *)
CalculateElection ==
  /\ stage = "calculate"
  /\ \E guardians \in {GuardiansRead(ElectionBlock)} :
     \E kept \in {CalculateDelegationMap(guardians)} :
     \E followed \in {Followed(guardians, kept)} :
     \E sums \in {CopyAndSums(ElectionBlock, guardians, followed)} :
       /\ delegatorsMap' = kept
       /\ guardianOf' = GuardianFields(followed)
       /\ \E top \in SUBSET sums.casting :
            MayBeFirst(top, sums) /\ rewards' = AddRewards(rewards, sums, top)
       /\ votesFile' = Written(votesFile, ElectionBlock,
                               VotesRows(sums, guardians, kept, guardianOf', rewards'))
  /\ stage' = "collect"
  /\ startElectionPeriod' = ElectionBlock
  /\ UNCHANGED <<history, fileStartFrom, processEndBlock, eventTxs, delegationsFile,
                 dropped, launches>>

(* The program ends and forgets what is not in its files.                   *)
End ==
  /\ stage' = "off"
  /\ fileStartFrom' = 0
  /\ startElectionPeriod' = 0
  /\ processEndBlock' = 0
  /\ delegatorsMap' = {}
  /\ guardianOf' = Nobody
  /\ rewards' = NoRewards
  /\ eventTxs' = NoTxs
  /\ dropped' = FALSE
  /\ UNCHANGED <<history, delegationsFile, votesFile, launches>>

(* The loop is over.                                                        *)
Finish ==
  /\ stage = "collect"
  /\ startElectionPeriod >= processEndBlock - ElectionPeriod
  /\ End

(* A query fails that nobody catches, or the program is stopped.            *)
Fail == stage # "off" /\ End

Run == CollectPreElection \/ CollectDelegations \/ CalculateElection \/ Finish

Next == LaunchFromStart \/ LaunchFromFile \/ Run \/ Fail

Spec == Init /\ [][Next]_vars

FairSpec == Spec /\ WF_vars(Run)

-----------------------------------------------------------------------------
(* What the contract makes of the same past                                 *)

ElectionsUpTo(block) ==
  {b \in DOMAIN history.stake : FirstElectionBlock <= b /\ b <= block}

(* The delegation in force: a Delegate beats a transfer, then the newer.    *)
InForce(block) ==
  LET past == {e \in history.events : e.block <= block}
  IN  {e \in past : \A f \in past : f.delegator = e.delegator => ~Replaces(f, e)}

(* The contract adds what is locked to the balance, and for it a vote       *)
(* counts one block less (_calculateProcessCurrentElectionValues).          *)
ContractTally(block) ==
  LET vote(g) == CurrentVote(g, block)
      data    == [a \in Account |->
                    [stake      |-> IF a \in Address
                                      THEN history.stake[block][a] + history.locked[block][a] ELSE 0,
                     voteAt     |-> IF a \in Address /\ vote(a) > block - VotingValidityPeriod
                                      THEN vote(a) ELSE 0,
                     candidates |-> {}]]
      agentOf == [a \in Account |->
                    LET own == {e \in InForce(block) : e.delegator = a}
                    IN  IF own = {} THEN EmptyAddress ELSE (CHOOSE e \in own : TRUE).to]
  IN  Tally(history.guardians[block], data,
            SetToSeq({e.delegator : e \in InForce(block)}), agentOf,
            [a \in Account |-> data[a].stake])

Delegating(block) ==
  {e \in InForce(block) : e.delegator \notin ToSet(history.guardians[block])}

LedTo(e, block, maxLevel) ==
  FollowDelegation(e, ToSet(history.guardians[block]), Delegating(block), maxLevel)

Behind(g, block) ==
  {e.delegator : e \in {d \in Delegating(block) : LedTo(d, block, MaxLevel) = g}}

Represented(a, block) ==
  \E g \in ToSet(history.guardians[block]) : a = g \/ a \in Behind(g, block)

(* Where the two know the same delegations: the page forgets the one of     *)
(* whoever becomes a guardian, gives up after MaxLevel intermediaries, and  *)
(* skips elections in which it knows none: only somebody who is no guardian *)
(* is sure to be known to it.                                               *)
SameDelegationsAt(block) ==
  LET guardians == ToSet(history.guardians[block])
      former    == (UNION {ToSet(history.guardians[b]) : b \in ElectionsUpTo(block)}) \ guardians
  IN  /\ Delegating(block) # {}
      /\ \A e \in history.events : e.delegator \notin former
      /\ \A e \in Delegating(block) :
           LedTo(e, block, MaxLevel) = LedTo(e, block, Cardinality(Address))

(* The two rules themselves differ in two places: in the vote that was cast *)
(* VotingValidityPeriod blocks ago, which the page counts, and in the stake *)
(* that is locked, which it does not see.                                   *)
OldestVoters(block) ==
  {g \in ToSet(history.guardians[block]) : CurrentVote(g, block) = block - VotingValidityPeriod}

UnseenStake(g, block) == SumFunctionOnSet(history.locked[block], {g} \cup Behind(g, block))

SameRuleAt(block) ==
  /\ SameDelegationsAt(block)
  /\ OldestVoters(block) = {}
  /\ \A a \in Address : Represented(a, block) => history.locked[block][a] = 0

-----------------------------------------------------------------------------
(* The variables keep their types.                                          *)
StatusTypeOK ==
  /\ stage \in {"off", "prepare", "collect", "calculate"}
  /\ delegatorsMap \subseteq history.events \cup FromFile(history.events)
  /\ \A e, f \in delegatorsMap : e.delegator = f.delegator => e = f
  /\ guardianOf \in [Address -> Account]
  /\ rewards \in [participation : [Address -> Nat], excellence : [Address -> Nat]]
  /\ dropped \in BOOLEAN

(* The election whose file was written, or read, last.                      *)
LastElection ==
  IF stage = "collect" THEN DOMAIN votesFile \cap {startElectionPeriod} ELSE {}

WeighsAsTheContract(file, block) ==
  LET tally  == ContractTally(block)
      voters == DOMAIN tally.weight
      oldest == OldestVoters(block)
  IN  /\ DOMAIN file.weight = voters \cup oldest /\ voters \cap oldest = {}
      /\ \A g \in voters : tally.weight[g] = file.weight[g] + UnseenStake(g, block)
      /\ file.total + SumFunction([g \in voters |-> UnseenStake(g, block)]) =
           tally.total + SumFunctionOnSet(file.weight, oldest)

(* The votes file of an election says what the contract computes for it but *)
(* for these two: its guardians are the contract's and those with the       *)
(* oldest votes, its weights and its total lack exactly the locked stake,   *)
(* and the total has the weight of those guardians too.                     *)
VotesAreTheContracts ==
  \A b \in LastElection : ~votesFile[b].dropped /\ SameDelegationsAt(b) =>
    WeighsAsTheContract(votesFile[b], b)

(* The accumulated reward of a file is what the contract paid in all the    *)
(* elections so far, through whatever restarts the file came about, for     *)
(* everybody who was represented in each of them, if the two rules were one *)
(* in each.                                                                 *)
AccumulatedIsWhatTheContractPaid ==
  \A b \in LastElection :
    LET before == ElectionsUpTo(b)
        fair   == ~votesFile[b].dropped
                    /\ \A c \in before : SameRuleAt(c) /\ ContractTally(c).total > 0
    IN  fair => \A a \in DOMAIN votesFile[b].participation :
          (\A c \in before : Represented(a, c)) =>
            votesFile[b].participation[a] =
              SumFunction([c \in before |-> AddParticipation(Zeros, ContractTally(c))[a]])

(* A delegation made after an election does not count for it, whatever      *)
(* pages had to be searched twice.                                          *)
NoLaterDelegationCounts ==
  \A b \in DOMAIN delegationsFile : \A e \in delegationsFile[b].delegations : e.block <= b

(* The list of latest delegation transactions (writeTxToFile) agrees with   *)
(* the delegations of the same election, when the run began at the start,   *)
(* no search failed and no guardian's delegation was forgotten.             *)
TransactionsAgreeWithDelegations ==
  LET was == UNION {ToSet(history.guardians[b]) : b \in ElectionsUpTo(ElectionBlock)}
  IN  (stage = "calculate" /\ fileStartFrom = 0 /\ ~dropped) =>
        \A e \in delegationsFile[ElectionBlock].delegations :
          e.delegator \in was \/ e \in delegationsFile[ElectionBlock].latestCombined

(* Every run ends.                                                          *)
EveryRunEnds == stage # "off" ~> stage = "off"

(* The files of a run agree with each other and with the election they are  *)
(* named for.                                                               *)
FilesAreConsistent ==
  /\ StatusTypeOK
  /\ NoLaterDelegationCounts
  /\ TransactionsAgreeWithDelegations

=============================================================================
