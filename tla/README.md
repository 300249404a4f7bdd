# Formal models of the Orbs voting and Ethereum contracts

This directory holds TLA+ models of `orbs-ethereum-contracts`, the TLC
configurations that check them, and TLAPS proofs of their main properties. They
cover the elections of the Orbs proof-of-stake network and what feeds, drives,
repeats and shows them: the Ethereum contracts about voters, guardians,
validators and stakes, the agents, the rewards distribution, the status page, the
data library and the web client; and the other contracts that hold tokens, the
bridge to the Orbs chain and the subscriptions.

- [The system](#the-system)
- [The modules](#the-modules)
- [Elections: model and code](#elections-model-and-code)
- [StakingContract: model and code](#stakingcontract-model-and-code)
- [The other contracts and programs: model and code](#the-other-contracts-and-programs-model-and-code)
- [What the runs check](#what-the-runs-check)
- [Fairness](#fairness)
- [What is proved](#what-is-proved)
- [What the checks showed about the code](#what-the-checks-showed-about-the-code)
- [What is not modelled](#what-is-not-modelled)
- [Where to go on](#where-to-go-on)

## The system

Orbs is a blockchain whose validators are elected by holders of the ORBS token
on Ethereum. The registrations, votes, delegations and stakes live in Ethereum
contracts; the election itself is computed by a system contract of the Orbs
chain that reads Ethereum as it was at the election's block. Around it are a
rewards distributor, a token bridge and a subscription contract.

### Inventory

| Component | State it keeps | Operations | Interacts with |
|---|---|---|---|
| Elections, `voting/orbs/Elections` (Orbs, Go) | delegations mirrored from Ethereum; election calendar; staged data of the election in progress; results; cumulative rewards | `mirrorDelegation`, `mirrorDelegationByTransfer`, `processVoting` (six stages), queries | reads OrbsVoting, OrbsGuardians, OrbsValidators(Registry), the ERC20 token and StakingContract at a block; called by the agents; its committee is read by the Orbs platform |
| `OrbsVoting.sol` | last vote and last delegation of each address, counters | `voteOut`, `delegate`, `undelegate` | its events are mirrored, its votes read |
| `OrbsGuardians.sol` | list of guardians with deposit and registration time, index of each in the list | `register`, `update`, `leave`, paged `getGuardiansBytes20` | read page by page by Elections |
| `OrbsValidators.sol` | approved addresses in order of approval | `approve`, `remove`, `getValidators` | filters by OrbsValidatorsRegistry; read by Elections and OrbsSubscriptions |
| `OrbsValidatorsRegistry.sol` | data of each validator, lookups by IP and by Orbs address | `register`, `update`, `leave` | read by OrbsValidators and Elections |
| `StakingContract.sol` | stake, cooldown amount and end per owner; total; migration destinations; two emergency switches | `stake`, `unstake`, `withdraw`, `restake`, `acceptMigration`, `migrateStakedTokens`, `distributeRewards`, `stopAcceptingNewStakes`, `releaseAllStakes`, `withdrawReleasedStakes` | the token; another staking contract; `getStakeBalanceOf` read by Elections |
| Agents, `voting/processor` (`process.js`, `mirror.js`) | counters and windows of one run | send `processVoting` in batches; find events and send mirror transactions | Ethereum node, Elections |
| `OrbsRewardsDistribution.sol` | pending batch hashes per announced distribution | `announceDistributionEvent`, `executeCommittedBatch`, `distributeRewards`, `abortDistributionEvent`, `drainOrbs` | the token |
| Bridge: `AutonomousSwapBridge.sol`, `_OrbsASB`, `_OrbsERC20Proxy` | transfer counters and spent identifiers on both sides; locked tokens; proxy balances | `transferOut`, `transferIn` on both sides, `asbMint`, `asbBurn`, resets | verifier and federation; events and proofs between the chains |
| `Federation.sol`, `AutonomousSwapProofVerifier.sol` | members of each revision | `addMember`, `removeMember`, thresholds, proof checking | bridge, SubscriptionManager |
| `OrbsSubscriptions.sol`, `SubscriptionManager.sol` | pool of each month, subscription of each id | `subscribeForCurrentMonth`, `subscribeForNextMonth`, `distributeFees` | the token; the list of validators or members |
| Status page, `voting/status` | per election a file of results and a file of delegations, from which a run goes on | search delegations page by page, weigh, accumulate rewards | Ethereum node; recomputes what Elections computes |
| Data library, `voting/orbs-pos-data` | emitters of each subscription | reads of several calls to both chains, subscriptions, transactions | both nodes; used by proxy, client and wallets |
| Its testkit | books of the mocked contracts, queued transactions, subscribers | stake, unstake, restake, withdraw, approve, select a guardian, complete | plays the contracts to wallets' tests |
| Proxy server, `voting/proxy-server` | none | one read of the data library per route | web client |
| Web client, `voting/client-web` | store of a node's state; the page's queries; selections in the browser's storage; the frozen snapshot of rewards | guardians' table, rewards page, voting page, registration pages | proxy, Orbs nodes, MetaMask, contracts |
| Rewards client, `rewards-distribution/ethereum/client` | progress of one execution | split a file, hash, send batches | OrbsRewardsDistribution |

### What is hard

- **Two chains.** Ethereum advances while an Orbs contract reads it over many
  transactions; every read names a block.
- **Many agents.** Anybody may mirror any event, at any time, in any order, more
  than once, and anybody may call `processVoting`. A call is one transaction and
  so atomic, and one that panics changes nothing; what interleaves are calls.
- **Storage that is overwritten, not cleared.** Lists are stored by index and
  records by address; the data of one election lies under that of the next.
- **Windows.** Events up to the election's block count and may be mirrored until
  the mirror period after it is over and the first `processVoting` call comes.
- **Retries and batches.** Agents send more calls than an election needs.

- **Clients that read in pieces.** A read is several calls, each at a block of its
  own; answers fail, are late and overtake each other.
- **Programs that are restarted.** The status page and the snapshot job go on
  from files they left behind.
- **Ends that trust what is brought.** Anybody brings a bridge's events to its other
  end, again and in any order, and each end counts in numbers of its own width.
- **Methods that ask nothing.** The bridge's resets and the removal of a federation's
  member by index are public: they come at any moment and from anybody.

What makes each part correct: a delegation on Orbs is the one Ethereum's history
determines; an election's result is a function of Ethereum at its block and of
the delegations mirrored until the window closed; every stake counts once; no
committee falls below the minimum; a committee that was in force is never
rewritten; every due election ends. Staking conserves tokens, returns
them only to their owner, and only after the cooldown or a release. Lists and
their indices and lookups agree (guardians, validators). Each batch of rewards is
paid once, to the file's amounts. An agent that says an election is over is right;
nothing delegated is left behind. The bridge makes and loses no token, pays every
transfer once while no end is reset, and believes a block just when two thirds of a
federation signed it. A fee is given out once and not before its month. Whoever recomputes or shows something
(status page, library, client) shows what the contracts hold, or held at one time,
and comes to an end.

## The modules

| Module | What it is |
|---|---|
| `Accounts` | addresses and the zero address |
| `DelegationMirror` | `mirror_delegate.go`: the mirrored delegations, on their own |
| `DelegationRegister` | abstract specification: a register in which the strongest offer wins, whatever the order |
| `ElectionTally` | the arithmetic of an election as operators: weights, selection, rewards |
| `ElectionReference` | the same, defined over sets, without recursion or order |
| `Elections` | the contract: calendar, mirroring, the six stages, results; extends the two above |
| `AtomicElections` | abstract specification: an election is one step |
| `StakingContract` | `StakingContract.sol`: several deployments over one token |
| `StakeLedger` | abstract specification: wallets and locked tokens |
| `MirrorAgent` | `mirror.js` at work on `DelegationMirror`, which it extends |
| `VotingAgents` | `process.js`: several jobs that push elections through |
| `OrbsGuardians` | `OrbsGuardians.sol`, the page that registers guardians and the pages in which they are read |
| `OrbsValidators` | `OrbsValidators.sol`, `OrbsValidatorsRegistry.sol`, the page that registers validators, and the topology read from both |
| `RewardsDistribution` | `OrbsRewardsDistribution.sol` and its clients |
| `RewardCommitments` | abstract specification: promises that are kept once or revoked |
| `StatusPage` | `voting/status`: elections recomputed from Ethereum; extends `ElectionTally` |
| `PosDataReads`, `PosDataSubscriptions`, `Testkit` | `orbs-pos-data`: reads, subscriptions, mocks |
| `ProxyServer` | the routes and the client's calls of them |
| `RewardsSnapshot`, `RewardsPage` | the job that freezes everybody's rewards, and the page that shows them |
| `OrbsNode`, `GuardiansTable` | the client's store of a node's state, and the table made of it |
| `VotingPage` | voting validators out through MetaMask |
| `Federation` | `Federation.sol`: who signs, at each revision |
| `SwapBridge` | `AutonomousSwapBridge.sol` with its verifier, `_OrbsASB` and `_OrbsERC20Proxy`: both ends; extends `Federation` |
| `BridgedTransfers` | abstract specification: wallets on two chains and transfers between them, and how far that is promised |
| `Subscriptions` | `OrbsSubscriptions.sol` and its calendar, `DateTime.sol` |
| `MCElections`, `MCElectionTally`, `MCStaking`, `MCCustody`, `MCAgents`, `MCRewardsDistribution`, `MCStatusPage`, `MCPosData`, `MCWeb` | instances for TLC |
| `Sums_proofs` | what the proofs need of sums over finite sets, remainders and counting |
| `Tally_proofs` | what the tally of any election counts: where delegations lead, what the recursion lists, weights and rewards |
| `Elections_proofs`, `StatusPage_proofs` | theorems about the contract and about the page that recomputes it; both extend `Tally_proofs` |
| `Custody_proofs`, `Agents_proofs`, `PosData_proofs`, `Web_proofs` | theorems: about the staking contracts, the cooldown, the subscriptions and the bridge that `MCCustody` composes; about `VotingAgents`, `MirrorAgent` and `RewardsDistribution`; about the three modules of `MCPosData`; about those of `MCWeb` |

`Elections` EXTENDS `DelegationMirror` and `ElectionTally`: the contract is one
process and its mirror is a part of its state. It implements `AtomicElections`
under the refinement mapping at its end, as `DelegationMirror` implements
`DelegationRegister`. `StakingContract` stands on its
own: Elections reads `getStakeBalanceOf` at a block, which is one of the functions
of its constant histories. It implements `StakeLedger`. `MirrorAgent` is composed
with the contract's mirror itself; `VotingAgents` with what `process.js` sees of an
election, a number of calls that succeed. `StatusPage` uses the operators of
`ElectionTally` for what the contract would make of the same past, and compares.
`RewardsDistribution` implements `RewardCommitments`, and `SwapBridge`, under the mapping
at its end, `BridgedTransfers`.

Four instances check several modules at once: `MCCustody`, `MCAgents`, `MCPosData` and
`MCWeb`.
Their parts share no state, so `Init` chooses one part, which alone moves then:
the states are the sum of the parts' and not their product, and a property is
checked in every part. Fairness is stated only for the part that was chosen.

A definition written twice, the second time with a longer name
(`Supersedes`/`SupersedesByPositionOnly`, `Mirror`/`MirrorWhileProcessing`, ...),
has beside it a plausible wrong version of itself. No specification uses the
wrong ones; exchanging one for the right one must break the property it is
paired with in `PROJECT.json`.

## Elections: model and code

**State.** The contract stores everything under string keys. A family of keys is
one variable: `Delegator_<address>_{Agent,BlockNumber,BlockTxIndex,Method}` is the
function `delegation`, `Delegator_Address_<i>` the sequence `delegators`,
`Election_<i>_*` the sequence `elections`, and so on; each variable names its keys
in its comment. `validatorSlots` keeps stale entries beyond `validatorCount`, as
the storage does. `offered` is a history variable of the mirror; nothing reads
it.

**Ethereum.** What the contract reads through `CallMethodAtBlock` is a constant
set of histories, `EthereumHistories`: for each block the validators, guardians,
votes, balances, locked stakes and Orbs addresses. `ethBlock` is the latest final
block, which `AdvanceEthereum` moves. Reads at a block see the history at that
block, whatever `ethBlock` is. Paging of the guardians is not modelled: all
pages are read in one call and at one block (`_readGuardiansFromEthereum`), so
their concatenation is the list.

**Actions.**

| Action | Code |
|---|---|
| `Mirror(e)` | `mirrorDelegation`, `mirrorDelegationByTransfer`: `_initCurrentElection`, refusal once processing has started, the log's value, the event's block, then the record and the list |
| `ReadValidators` | the first `processVoting` call: `_calculateProcessCurrentElectionValues`, `_readValidatorsFromEthereumToState` |
| `ReadGuardians` | `_readGuardiansFromEthereumToState`: clear the old, store the new |
| `CollectValidator`, `CollectGuardian`, `CollectDelegator` | one item each, and the move to the next stage |
| `Conclude` | `_calculateVotes`, `_processValidatorsSelection`, `_processRewards`, `_setElectedValidators`, and the clearing of the process |
| `AdvanceEthereum`, `AdvanceOrbs` | the two chains |

A call that panics is a disabled action. So `Conclude` has the guard
`RewardsPayable`: the safe division in `processing_rewards.go` panics when there
is somebody to pay and no weight. The tally is bound once, as the code computes it once.

**Data.** Names, ABIs and addresses in text are left out. Stakes are natural
numbers of the token's smallest unit and `StakeAt` divides each of the two
balances by `EthereumStakeFactor`, rounding down, as the code does before it adds
them. uint64 does not overflow with the token's supply, so nothing wraps here:
weights are at most 10^10 whole ORBS, and they are multiplied with percentages
and with group rewards below 10^9, which stays under 2^64.

**Block-based elections only.** The code also has time-based elections, but the
method that switches to them is commented out of the exported methods
(`exports.go`), so no call can reach them.

## StakingContract: model and code

**State.** Every storage variable of the contract is a function of the deployed
contract, so that two of them can migrate stakes to each other, plus the token's
balances and the block timestamp `now`. The list of destinations is a sequence, as
in the code.

**Actions.** One per external function, named after it; `CreditStake` and
`Withdrawable`/`CanWithdraw`/`AfterWithdrawal` are the private `stake` and
`withdraw`. A transaction that reverts is a disabled action, so
`MigrateStakedTokens` is one step with the guards of both contracts: the
destination must accept new stakes. It may be the contract itself, which nothing
forbids. `SafeMath` subtractions are guards (`ReduceTotal`), not assumptions.
`TokenTransfer` is what people do with the token on their own, also sending it to
a contract without staking. `DistributeRewards` takes a function from owners to
amounts for the code's two lists, in which an owner may occur twice and then gets
the sum. `WithdrawReleasedStakes` takes a set, because a list with a repetition
reverts: the second time the owner has nothing.

**Left out.** Approvals of the token: callers are assumed to have given them, and
those that a contract gives during a migration are used up in the same
transaction. Addresses of contracts as stake owners. Destinations that are not
staking contracts or use another token, to which a migration reverts.

## The other contracts and programs: model and code

**Agents.** `MirrorAgent` is one run of `mirror.js` after the other: the window of
blocks, its ranges at the present pace, the search for transfers and then for
Delegate events, the latest event of each delegator, the query which of them are new,
the sends, and after anything thrown the same range at a slower pace until the pace is
too small. Beside it Ethereum advances, elections begin and end and others mirror.
`VotingAgents` is `process.js`: a batch is sent, each call is answered by its
execution, by "pending" or by an error of the network, in which case it may still be
executed later (`LateExecution`); then the batch is judged, the end
checked and announced. The ways a run may fail (no URL, too many errors, too many
batches, a throw, a kill) are one outcome. Elections is reduced to
`StagesOfElection` successful calls once an election is due. `isalive.js`, which
only reads and alarms, is left out.

**Registers.** `OrbsGuardians` and `OrbsValidators` have an action for every
transaction. A removal is the code's: the last entry takes the freed place and the
list is cut. The lookups of the registry keep their zero key, as the storage does. A
request of a page is a record that goes through the page's awaits: which account,
is it registered, send. Between them contract and account change.

**Rewards.** A hash is the sequence of the words hashed; keccak256 is taken as
injective, so a hash is only equal to the hash of the same name, index and
payments. `AnnounceFile` hashes the batches of a file; `ExecuteCommittedBatch` compares,
clears the hash, counts down, pays, and ends the distribution with its last batch. A
client goes through its file and has transactions under way that the mine takes
in any order, refusing some. The deprecated distributor's direct
payments and draining are actions because they take tokens a batch may need.

**Status page.** A run is `status.js`: for each page of blocks the searches, one that
fails and is searched again in small pages, the merge of both kinds, guardians and
their votes, stakes, the climb of each delegation through at most `MaxLevel`
intermediaries, weights, rewards and the two files. `Fail` stops it anywhere and
`LaunchFromFile` goes on from the last files. Its divisions are of floats, taken as
exact, and stakes are whole ORBS, of which the page keeps two more digits than the
contract. The past has the token's balances and the stakes locked in `StakingContract`
apart: the page reads the balances only (`stakes.js:23-24`), the contract adds both
(`processing_vote.go:119-122`, `:150-160`, `:178-183`). `ElectionTally` computes the
contract's result of the same past.

**Data library.** `PosDataReads` has one action per answered call: what is awaited
one after the other is answered in order, what is awaited together in any order.
Both chains move between. `PosDataSubscriptions` has the
emitters with the late ids that web3 gives them, and the new reads that a transfer
causes. `Testkit` keeps the closures of `TxsMocker`: the effect of a transaction is
computed when it is run by its timer or by the test, with what was captured when
it was made.

**Web.** `ProxyServer` has the routes in the order in which they are mounted and
whether each handler has a `try`. `RewardsSnapshot` reads chunks, writes a shard
every `CHUNKS_A_SHARD` and at the end of a run, merges and splits. It does so for two data
sets, one read before the last elections and one after them, with a world of its own for
each, since guardians left in between; `processAllData.ts` is run twice, and its switch
decides which merged file is read and which files are written (`FileRead`,
`FilesWritten`): the history of the distributions is made of the later data set, all else
of the snapshot. `RewardsPage` has a query per file. `OrbsNode` goes through the fetches
of the store with their retries; its system state has one field more than
`systemState.ts`, the history `RefTime`, which only `ShownWasInSync` looks at.
`GuardiansTable` is what the columns compute from that state. `VotingPage` has each
await of a vote as a step, and `votingHistory` remembers what the page does not: which
vote of an account was mined last, for which accounts votes were mixed up, and whether
answers overtook each other.

At this commit only the rewards page can be reached. `Main.tsx:37-44` comments out the
routes of the delegators' page with the guardians' table, of the voting page
(`/guardian`), of the validators' page and of both registrations (`/guardian/new`,
`/validator/new`), and `OrbsNodeStore` is never constructed
(`storesInitialization.ts:26-29`). They are modelled as the components they are.

**Bridge.** `SwapBridge` has one action for each call of either end. An event is a
record with its identifier, a receipt of Orbs a record with what the verifier reads from
its proof: whether it succeeded, which bridge it is of, and the signatures of its block.
Events and receipts are never taken away, so that they may be brought again, also after a
reset; which of them were paid is marked as in the code, in the set of spent identifiers
and, on Orbs, in the state under a key for each. The histories tell apart what the code
does not: an event has the number of resets before it (`round`), since identifiers are
given out again, and whether it took tokens of this bridge (`backed`); `arrived` has the
transfers that were paid, so that `Underway`, what was sent and has not arrived, is
derived; and `astray` says that something was paid that was not owed.
Amounts are in 256 bits on Ethereum, which nothing here reaches, and modulo `UINT64` on
Orbs. `IsSignatureValid` is the verifier's loop as a condition: it stops with the
signature that completes the threshold.

Anybody may reset an end or point it at another contract, at any time and whatever is
under way: `InitAutonomousSwapBridge` (which also replaces the token and the Orbs contract
whose receipts count; `AutonomousSwapBridge.sol:128` is public without `onlyOwner`),
`ResetContract`, `SetAsbAddr` and `SetTokenContract` (exported in `contract.go:21`). Their
only guard is the bound `MaxResets`. Of another bridge or token nothing is known but the
events and receipts in `OtherEvents` and `OtherReceipts`; the books are those of this one.

`Federation` keeps the members of each earlier revision; its changes come between any two
calls of the bridge. The owner's `AddMember` and `RemoveMember` store the revision that
ends. `RemoveMemberByIndex` is public without `onlyOwner` (`Federation.sol:117`): anybody
takes any member, also the last, off the present revision, and none is stored or begun.

**Subscriptions.** Times are days. The calendar is `DateTime.sol`'s: the year is guessed
and corrected backwards, and the two directions, a day's month and a month's first day,
are computed apart, from tables of their own. Payments add to the pool of a month, and
`DistributeFees` takes what is left of it, for a list of receivers that is another at
every call.

## What the runs check

| Run | Module | Question | Distinct states |
|---|---|---|---|
| `elections` | `MCElections` | do the stages, interleaved with everything else, amount to one election step, on schedule, with stable committees? | 110,509 |
| `elections_live` | `MCElections` | is every due election held? | 1,119 |
| `tally` | `MCElectionTally` | does the recursion compute the set-based definition? | every delegation graph of 4 addresses |
| `staking` | `MCStaking` | do the books of two contracts balance with the token, are the contracts one ledger, do released stakes return? | 120,960 |
| `custody` | `MCCustody` | does a stake stay locked for a whole cooldown, what does the bridge promise with and without resets by anybody, is every fee given out once? | 224,163 |
| `agents` | `MCAgents` | are agents right about elections, is every delegation mirrored, do runs end? | about 388,000 |
| `rewards_distribution` | `MCRewardsDistribution` | is everyone paid the file's amount, once? | 285,376 |
| `status_page` | `MCStatusPage` | by exactly what do the status page's results differ from the contract's, also after restarts? | 355,576 |
| `pos_data` | `MCPosData` | do reads and subscriptions tell the truth, and the testkit what contracts would do? | 571,496 |
| `web` | `MCWeb` | do the pages show and keep what they should, are the registers exact? | 405,621 |
| `stuck_election` | `MCElections` | a statement of `processor-agent.md` that the code does not keep, see below | |
| `guardian_update` | `OrbsGuardians` | a statement of `guardian_registration.md` that the page does not keep, see below | |

Some properties are conjunctions of named parts; each part has its comment in the
module that defines it.

**`elections`.** Two guardians, two delegators, three validators; four histories
of Ethereum in which lists shrink, grow, reorder and become empty, a guardian
leaves and a delegator becomes one, votes expire, Orbs addresses change hands.
Eight blocks with a period of two give up to three elections, the third over the
storage of two earlier ones, and some of them a period late. The periods keep
the order of the real ones, mirror period < election period < vote validity.
`MinElectedValidators = 2` of three makes the minimum bite; `EthereumStakeFactor
= 2` makes rounding happen; `ExcellenceMaxNumber = 1` of two guardians makes ties
matter. `MaxHeight = 3` with a transition of one block puts results in force
before, at and after a height that was asked for.

- `TypeOK`, and `StagedDataIsOfElectionBlock`: what was collected is Ethereum's at the
  election's block, for every listed item, nothing left over.
- `ElectionsOnSchedule`: consecutive and on the grid of the first election.
- `CommitteeKeepsMinimum`.
- `CommitteesInForceAreFixed`: a committee that could have been asked for stays.
- `ExcellenceWithinBudget`: ties share one budget.
- `ImplementsAtomicElections`: refinement of `AtomicElections`, whose tally is
  `ElectionReference`'s. It covers committee, Orbs addresses, total weight and
  participation rewards, and that nothing is mirrored into an election in progress
  (`FrozenWhileProcessing`, `NoDelegationAfterElection` are proved as well).

**`tally`.** Four addresses, three choices of guardians, any delegation graph
with its chains and cycles, any two candidates voted out or not, expired votes.
Stakes are powers of two, so that equal sums come from equal sets. Cycles need
two, chains next to a cycle four addresses.

- `TallyIsTheReferences`: each weight is the stake of its electorate
  (`WeightIsTheElectorates`), nobody participates twice (`ParticipantsOccurOnce`), the
  committee is the reference's (`SelectionIsTheReferences`), and what is paid for
  participating is within the budget (`ParticipationWithinBudget`).

**`staking`.** Two contracts, approved as each other's destination or as their own;
two owners with one token each, amounts of one and two, of which two is only there
once one owner has paid the other; two seconds and a cooldown of one.

- `BooksBalance`: totals are sums, and each contract could pay everybody.
- `StakeLeavesOnlyToItsOwner`: per transaction, to the last token.
- `ImplementsLedger`: refinement of `StakeLedger`. Wallets are wallets, the holdings
  of an owner in all contracts one lock; what a contract holds beyond its stakes is
  `strays`, which never shrink.
- `ReleasedStakesReturn`.

**`custody`.** Three parts, the second of which has two kinds of behaviour.

*Stakes* (136,224 states): one owner, two tokens, five seconds, a cooldown of two and
two contracts. A history, in `MCCustody` only, keeps what was staked in each
second. `StakeStaysThroughCooldown` compares it with what is locked over both
contracts: unstaking in parts, restaking, unstaking in one contract while
migrating in the other. Five seconds hold two cooldowns and a restart between.

*Bridge*: one holder with three tokens or five and two accounts on Orbs, amounts of none,
two and four where `UINT64` is 4, so that three tokens can be counted on Orbs and five
cannot. A behaviour changes either the federation or the ends. In the former, a federation
of two becomes none, one or three, with and without a new revision; a block is signed by
both first members, or by one of them twice, by the other with an invalid signature and by
somebody else; three transfers in all, two from one end. In the latter there are two
resets or changes of contracts, of either end or both, before, between and after up to
four transfers, or two while an end points elsewhere: enough for an event of before a
reset to be brought again after it, for an identifier to be given out twice, and for two
events to be received out of order before a reset. Two receipts are not this bridge's or
failed, and one event is another bridge's.

- `BridgeIsExact`: wallets and lock together are what they were at first, whoever resets
  what; the lock covers what is on Orbs and under way, and no more while Orbs can count
  it, until something was paid that was not owed, which takes a reset (`BridgeIsSolvent`);
  the supply is the sum of the balances (`SupplyIsTheBalances`); a block counts as signed
  just when two thirds of a federation that is not empty did (`QuorumIsTwoThirds`), and no
  revision has anybody twice (`RevisionsAreValid`).
- `BridgeIsFaithful`: refinement of `BridgedTransfers`, whose promise is *kept* as long
  as no end is reset or changed, *at risk* from then on and *broken* with the first
  payment that was not owed; and an ended revision remains what it was while the present
  one only loses members in place (`RevisionsAreKept`).
- `TransfersArrive`: what the verifier accepts and names an address arrives, in whichever
  order and through resets, unless the receiver points elsewhere, another transfer was
  received under its identifier since the receiver's reset, members that signed were
  removed in place or the lock was paid to others; and Orbs may take the identifier for one
  received before its reset, see below.

*Subscriptions* (45,750 states): two identifiers, three payments of one or two with a
minimum of two, six days: the ends of a February in a leap year, of that year and of
the February of 2100, with the first days after them; nobody, one or two who
are paid. Months are those days' and the next ones.

- `SubscriptionsAreExact`: what was paid into a month is in its pool or was given out,
  once (`FeesAreCovered`), none of it before the month (`NothingIsPaidAhead`), a
  subscription is in the month of its start (`SubscriptionsAreInTheirMonth`), and both
  directions of the calendar agree (`DaysAreInTheirMonths`).

**`agents`.** The mirror job has three delegators and six events: pairs of both kinds
in both orders, two events in one block, a cancellation and a transfer of another
amount. Five blocks and a pace of four make windows of several ranges and a last one
that is short; a pace that is halved once before it is too small makes an error in a
range visible. The other part has two jobs, one of which may be killed, batches of
two calls and elections of two stages, so that an election may end within a batch, and
two elections, so that the next may be due already.

- `AgentsAreTruthful`: a run that ended well was told of a concluded election
  (`DoneMeansConcluded`), and an election is announced only if one was held since
  the run began (`AnnouncedElectionWasHeldMeanwhile`).
- `StrongestDelegationWins`: the record is that of the strongest event submitted.
- `NothingIsLeftBehind`: ranges join without a gap (`WindowIsCovered`), and after a
  complete run every event of its window is mirrored or superseded
  (`CompleteRunsMirrorAll`).
- `JobsGetOn`: runs end (`RunsTerminate`, `RunsEnd`), and elections are held
  while somebody keeps trying (`DueElectionsAreHeld`).
- `ImplementsRegister`: refinement of `DelegationRegister`, also with the agent's
  selection of events in between.

**`rewards_distribution`.** Three recipients, one name, three files of which one is not
usable, batch sizes 2 and 3 (one batch or two), two clients with one transaction
under way each, three tokens for files that need them all, two announcements.

- `DistributionIsExact`: the count of pending batches is the number of hashes
  (`PendingCountIsExact`), and nobody gets more, or at the end less, than the file
  says (`EveryoneGetsTheFilesAmount`), also when a client was started with the wrong
  file or batch size.
- `ImplementsCommitments`: refinement of `RewardCommitments`.
- `DistributionCompletes`.

**`status_page`.** Any subset of six delegations, guardians that come and go, three
elections at the blocks 5, 7 and 9 with pages of four blocks, or two after a failure, and
two launches. There are two ways to vote and to lock stake. In one, nobody behind a guardian
has locked anything and votes expire between two elections, so that rewards can be compared
through all three; in the other, guardians and those behind them have locked stake at the
third election, and one guardian's vote is exactly as old as the period, which the page counts
and the contract does not.

- `VotesAreTheContracts`: where both know the same delegations, the file's guardians are
  the contract's and those with the oldest votes that still count on the page, each weight
  lacks exactly the stake locked behind its guardian, and the total both.
- `AccumulatedIsWhatTheContractPaid`: where neither of the two came up in any election so
  far, so are the rewards, also after a restart.
- `FilesAreConsistent`: no delegation after its election counts
  (`NoLaterDelegationCounts`), a delegation and its transaction agree
  (`TransactionsAgreeWithDelegations`).
- `EveryRunEnds`.

**`pos_data`.** Two accounts and two transactions; one followed address with two agents
and two moves of the chains; one subscription with three events.

- `TestkitIsTheContracts`: tokens between stake and cooldown are conserved
  (`CooldownTokensAreConserved`) and subscribers know the books (`ShownIsCurrent`).
- `ReadsAreTheContracts`: a delegation read is the mirrored one unless its own
  account moved meanwhile (`DelegationIsMirrored`), eligibility is the contract's rule
  (`EligibilityIsTheElections`), an answer is of one time between asking and
  answering (`OrbsAnswersAreOfTheirTime`), a history has all (`HistoryIsComplete`).
- `SubscribersAreToldTheTruth`: when all is quiet a subscriber knows the present
  value (`ToldIsCurrent`), and nothing is told after it left (`NothingIsToldInExcess`).
- `EverythingCompletes`.

**`web`.** Two calls of the proxy; four addresses in chunks with two to a shard, three
runs of the job for either data set and one failure, and worlds in which between the two a
guardian left and histories grew; three guardians and a clock of six; three candidates and
three operators with two keys of each kind and one request of each page. The voting page
is checked in two parts, so that votes that overlap stay within reach: one vote by one of two
accounts with all three validators listed and checks restored, and two votes with a change of
account in between, before or after, by a page that has listed one validator.

- `ShownIsWhatIsKept`: no route takes another's request (`AnsweredByItsRead`); both merged
  files have each address once (`EveryAddressOnce`), and the page shows the history of the
  address's entry in the later data set, all else of its entry in the snapshot, and never
  another's (`ShownIsTheEntry`); the table shows only a node in sync
  (`ShownWasInSync`), participation is a share of the window (`ParticipationIsAShare`),
  icons and cuts are the committees' (`IconsAreTheCommittees`, `CutsComeTogether`).
- `VotesAreKept`: at most three are selected (`SelectionStaysWithinThree`). What is stored
  for an account is its vote on chain, with votes that overlap and accounts that change,
  except between a vote's block and its receipt, for the accounts of a vote during
  whose two questions the account changed, and when the receipt of the latest vote overtook
  an earlier one's (`StoredIsTheVote`). The page names the last vote, unless answers overtook
  each other or the account changed since (`LastVoteIsTheVote`). Each of these exceptions is
  needed: without it TLC finds the property violated.
- `GuardiansAreExact`, `ValidatorsAreExact`: list and index are inverse and deposits
  are held (`RosterIsExact`, `DepositsAreHeld`); lookups are one to one and approvals
  within the limit (`LookupsAreOneToOne`, `ApprovalsAreExact`).
- `ReadersGetTheRegisters`: pages of any size concatenate to the list
  (`PagesAreTheList`), and the topology has nobody twice
  (`TopologyNamesNodesOnce`).
- `WebSettles`.

**Bounds.** Time, blocks, heights, failures, launches, transactions under way and
requests are bounded by constants whose comment says "bound" or that are named `Max...`;
they appear in guards only. The runs set `CHECK_DEADLOCK FALSE` where these bounds end
the behaviour: when the chains have reached their bound and nothing is due there is
nothing left to do.

## Fairness

`FairSpec` is weakly fair in two actions. `ProcessVoting`: the protocol asks for
at least one agent that follows it, and `process.js` calls `processVoting` again
as long as the contract is in a processing period. It is fairness of the method
and not of a stage: at each time one stage at most is enabled.
`AdvanceEthereum`: Ethereum goes on producing blocks. Mirroring is not fair:
nobody has to mirror anything, and `EveryDueElectionConcludes` therefore speaks
of elections from the moment the calendar is set.

`OwnersClaim`, in `MCStaking`, is weakly fair in `Withdraw` of each owner from each contract: an
owner whose stake is released claims it, sooner or later. It does not ask anybody
to call the batch on the owner's behalf, which fails whole when one of
its owners has claimed before. Time is not fair, since a release lifts the
cooldown.

**Agents.** A job that is not killed takes its next step, and each request is answered
(`AgentsFairness`); the mirror job is weakly fair in its own steps. That elections
are held needs more (`KeepsTrying`, the antecedent of `DueElectionsAreHeld`): the
scheduler starts the job again whenever it has ended, weakly fair, and not every
answer is an error for ever, strongly fair in `AnswerExecuted`.

**Rewards.** Clients go on and transactions are mined, weakly fair; while batches are
left somebody runs the client with the published file again, strongly fair since an
execution with the wrong one may come between. `DistributionCompletes` has the
antecedent that the contract stays able to pay.

**Bridge.** Whoever transferred out brings the event or the proof to the other end, and
brings it again when it was refused: weakly fair for each identifier
(`BridgeFairness`). Nobody has to transfer, to reset or to change the federation, and
nobody is kept from it.

**The others.** The status page's run is fair in its steps; a timer of the testkit fires;
nodes answer and web3 calls back; Express handles requests and reads settle; the store's
fetches settle. Users, owners, guardians, time and blocks are never fair.

`EveryDueElectionConcludes` is checked on histories in which somebody who voted
has stake; `stuck_election` shows what happens otherwise.

## What is proved

The proofs hold for every set of addresses and events, every history of
Ethereum, and all periods that satisfy the named assumptions
(`EventsAssumption`, `EventIdentityAssumption`, `MaxBlockAssumption`,
`EmptyAddressAssumption`, `AddressAssumption`, `HistoriesAssumption`, `PeriodsAssumption`,
`TallyAssumption`, `TallyDataAssumption`, `StatusPageAssumption`, `SmallPagesFit`, `OrbsAddressAssumption`, `StakingAssumption`,
`DepositAssumption`, `OperatorsAssumption`, `RewardsAssumption`, `FederationAssumption`, `BridgeAssumption`,
`SubscriptionsAssumption`, `PaceAssumption`, `EventsAreFinite`, `TestkitAssumption`,
`PosDataAssumption`, `ResultsAssumption` and that of `VotingAgents`). `EventIdentityAssumption` is that a
transaction yields one event of each name, which is how `GetTransactionLog` is
used. Where something is summed over accounts, contracts, subscriptions or the
lines of a file, the assumptions say that these are finitely many, of any number:
addresses have twenty bytes and identifiers 32.

**`Sums_proofs`.** What the sums of the community modules return, for every finite set:
an element added, removed or changed (`SumRemove`, `SumChange`), an amount moved from one to
another (`SumMove`), two functions added (`SumPlus`), and a sum put together from
the sums of its parts (`SumOfParts`). The library's induction theorems quantify over
operators, which the provers cannot instantiate; here a property is a *set* of
subsets, or of numbers, and the induction is the minimal counterexample of a
well-founded order (`SubsetInduction`, `LeastNumber`, `CountUp`). `SummationIsUnique` and
`SummationExists` then show that the `CHOOSE` in the fold denotes the function one expects.
The module also holds what remainders do when a number grows or shrinks, for the
64 bits of the bridge and for the calendar.

**`Elections_proofs`, the mirror.** `Weaker` is shown to be a strict order that is
total on one delegator's events. That the record is the strongest offered event
is inductive as it stands: an event that supersedes the record is stronger than
it and, by transitivity, than all the others; one that is refused is weaker.
`DelegatorsListedOnce` needs more: `StateBlockNumber` is zero exactly for a
delegator without a record, because a stored event's block is never zero, and
that follows from the first theorem. The refinement is then an equality between
the record and the register's `CHOOSE`n winner.

**`Elections_proofs`, the calendar.** Every step of the contract is a step of the mirror or
leaves it alone (`SpecMirrors`), so the theorems about the mirror carry over. The
calendar's invariant `CalendarInv` says that the n-th election is at
`genesisBlock + n * ElectionPeriod`, that the one in progress is the next, and
that without a calendar there is neither; `ElectionsOnSchedule` alone is not
inductive because it does not say what `genesisBlock = 0` excludes. The only
arithmetic is `RoundedUp`: a number plus what is missing to the next multiple is
a multiple. `NoLateDelegationCounts` bounds all delegations by a horizon, the
block of the next election, that only grows. `CommitteesStayFixed` rests on the
heights of results being at most the present height plus the transition
(`ResultsInv`): a new result is then not yet in force at any height in question,
and the latest result in force is the same before and after.

**`Elections_proofs`, the stages.** `StagedInv` strengthens the property by what each stage
relies on: the process block is a block of Ethereum already final, the earliest
vote was computed from it, guardian flags mirror the stored list also between
elections, the stored list is the one read. Each stage then adds the item at
`processItem` and preserves the others, also when an address occurs twice in a
list, since it is written with the same data. `CommitteeAlwaysKeepsMinimum`
follows from the list of validators being the election block's.

**`Tally_proofs`, and the tally in `Elections_proofs`.** `TallyIsAlwaysTheReferences` compares the code's
traversal with `ElectionReference`, where an electorate is the least set that
contains the guardian and whoever delegates into it. The proof has three parts. *Where
delegations lead*: an address belongs to a guardian's electorate just when some number of
steps, each from an address that is no guardian, leads from it to the guardian
(`SpokenForIs`). No such way visits anybody twice, so as many steps suffice as there are
delegators (`ShortWays`, with the pigeonhole principle), which is the depth of the
recursion, and all ways from one address end in one guardian (`OneEnd`), so that
electorates are disjoint; cycles lead nowhere. *What the recursion lists*: at each
depth the list below an address holds those at most so many steps away, each once
(`OneLevel`, `RepresentedIs`): the lists of two direct delegators have nobody in common. *Weights,
votes and rewards*: the weight of a guardian is the sum over its electorate, the total the sum over all
of them (`PartsAddUp`), the participants are the electors listed once, so that shares
rounded down add up to no more than the pool (`SharesWithinBudget`). It is proved for any
lists in which guardians and validators occur once and delegators as often as they like.

**`Elections_proofs`, an election as a whole.** The staged data of the last call are data of
an election in the sense of the tally's theorem (`StagedAgree`): the lists are those of
the block, whoever delegates is listed (`DelegatingAreListed`, from the theorems about the
mirror), and a guardian or delegator is stored as it was at the block. So what the last call
counts is known (`StagedCounts`, `ConcludeIs`), and three things follow. Types: a share is a
number because whoever is paid has a weight to divide by (`ElectionsTypeCorrect`). The budget of
the top guardians, ties included (`ExcellenceAlwaysWithinBudget`). And the refinement
(`ElectionsAreAtomic`): the last call is `Hold` of `AtomicElections` for the next block of the
calendar, mirroring and the first call are `Delegate`, the other stages are stutters. Its
results are compared entry by entry (`ProlongedByOne`), an elected validator's seat with the
Orbs address that the validators' stage read at the block (`SeatsAre`).

**`StatusPage_proofs`.** For any past of Ethereum, any sizes of the pages of which the small
one divides the large one and the period (`SmallPagesFit`, as 4000 divides 20000), any period,
chains of any length, any number of runs that end, fail and go on. *The search*: pages, small ones
from a failure on included, reach every block of the range and none past its end (`PagesCover`,
`SmallPagesReach`). *The map of delegations*: `Replaces` is a strict order on one
delegator's events (`ReplacesIsAnOrder`), and after any number of searches the map has the
strongest of what was read (`MergedAreStrongest`, `NewestOfBoth`), but for those whose delegation
was forgotten when they became guardians. A file has no transaction
indices: an entry read back gives way only to events of later blocks, and all events still
unread are of later blocks (`FromFileIs`, `ReplacesStamped`). *The files*: `StatusInv` says for each stage of a
run what was read so far (`MapInv`) and of each file of delegations that it is the
map of its election (`FilesInv`, `CalculateInv`); a run that goes on from a file then has the map
that the run before it had. `FilesAreConsistent` follows. *One election*: the climb of
`FollowDelegation` is a way of delegations as the tally's theorem knows them (`WalkLeads`,
`FollowedIs`), so whom the page finds behind a guardian is whom the guardian speaks for
(`LedToItsSpeaker`), and by `Tally_proofs` the page's sums are the contract's (`PageTallies`)
and so is what it pays (`PaidAlike`). *The files are the contract's*: where both know the
same delegations (`SameDelegationsAt`), no delegation that counts was forgotten and no
election was skipped (`SkippedIsDifferent`, `PageKnowsAll`). The page's sums then are those
of the contract with the balances alone and the oldest votes included, and the contract's
weight is the page's with the locked stake of the guardian and of everybody behind it added.
`VotesAreTheContracts` and `AccumulatedIsWhatTheContractPaid` say it of the last file;
inductive is `ContractInv`: of every file, and of the rewards in the memory of a run, since
a later run reads either. A row that is written for a delegation which leads nowhere would
reset rewards when read back; it is never the row of somebody who is
represented (`TallyRight`).

**`Custody_proofs`, the staking contracts.** For any number of contracts and owners and any amounts.
`StakingTypeOK` is inductive because `SafeMath` and the token's own checks are
guards. `StakeAlwaysLeavesToItsOwner` compares both states of a step: what
`AfterWithdrawal` takes is what `Withdrawable` pays (`WithdrawalEffect`), a
migration moves the same amount or, to itself, nothing (`MigrationEffect`), all
else leaves holdings alone or adds to them; people are not contracts
(`StakingAssumption`), so a payment to an owner is never to the payer itself.
`EmergencyStaysFinal` separates the switches, which only managers throw, from the
five ways to add to a stake. `DestinationsAlwaysListedOnce` needs what `RemoveAt`
does to each position. `BooksAlwaysBalance` is inductive together with the types: each
transaction changes one owner's holding and the sums by as much, and of the two
that touch many owners, a batch of rewards adds its total at once and a batch of
releases pays everyone listed once, which are sums over the owners in the batch. The
refinement (`ContractsImplementLedger`) maps an owner's locked tokens to the sum
over the contracts: a migration leaves it alone, because what one holding loses
another gains (`SumMove`), and all else is a step of the ledger or of nobody. That
tokens are conserved (`TokensAlwaysConserved`) is part of it.

**`Custody_proofs`, the cooldown.** `StakeAlwaysStaysThroughCooldown`: the history variable
says how much was staked when. That what is still locked covers it is not
inductive, as it does not say *until when* it is locked. `HistoryInv` counts what will be kept
to the end of the period after a moment (`KeptOf`): every stake, and what cools
down if its end lies beyond. Unstaking moves tokens from the one to the other
with an end that is late enough, restaking and migration back or to another
contract, and a withdrawal takes only what had no share in `KeptOf`.

**`Custody_proofs`, the calendar and the fees.** `EveryDayIsInItsMonth` is proved for every
day since 1970, with no bound: the guess of the year, which takes no year for
a leap year, is never too early, and each step back keeps it so until the year has
begun, which `GreatestNumber` turns into the year found; within it, the table of months
adds up to the next year's first day. A day then has one month only, so
that subscriptions and distributions find the same one. `SubscriptionsInv` has the types and
three of the four conjuncts of the property together; that one distribution pays the pool to the
last token is that the quotient `Len(list)` times and the remainder once add up to it.

**`Agents_proofs`, the jobs.** For any number of jobs and any limits. `AgentsInv` adds two
things to the property: an election has begun only if one is due (`BegunIsDue`),
and a run only begins while an election is due that was not held, and goes on to
reading and announcing only when one was held since (`RunsAreNeeded`). The second is
what makes an announcement true: the end of a processing period that a run has seen
is the end of that election or of a later one. What one step of one run does to the
others is a lemma (`OneRunSteps`), and late executions are steps of nobody.

**`Agents_proofs`, the mirroring job.** A delegator's record only grows
stronger (`RecordsGrowStronger`), so that what need not be mirrored any more never need be
(`MirroredStays`), whoever sends what in between. The job looks at the latest event of each
delegator only; there is one because a chain has finitely many events
(`EventsAreFinite`), and once it is mirrored all older ones are (`LatestSuffice`).
`RangesCover` is division with remainder: the ranges share their borders, begin and end with
the window and are never one block alone, as long as the pace, divided once more, stays
positive (`PaceAssumption`: the smallest pace that is slowed down is not below the divisor).
`MirrorJobInv` adds to the property what of the first range is in hand: at
each stage an event of it is mirrored, found, to be sent, or of the method that comes next
(`RangeIsSearched`).

**`Web_proofs`, the registers.** Both registers are first proved for the contracts, then the
requests of the pages are added, which never write them but through a transaction.
`SwapWithLast` says what a list is after an entry was replaced by the last, also when
it is the last; the guardians' indexes are injective because the list is their
inverse. For the validators an update frees its old keys and takes new ones, which
may be the same: `LookupsAreOneToOne` is proved by what each of the
two assignments leaves.

**`Web_proofs`, the readers.** The pages of the list are slices of it (`PageIs`) that
`FlattenSeq` joins again (`PagesJoined`, by induction over the pages). A node is named once
in the topology because approvals are listed once and its keys lead back to it by the
lookups, which takes one more invariant: whoever is registered has been given keys
(`KeysAreGiven`).

**`Web_proofs`, the voting page.** Each of the three promises has an invariant of its own.
`SelectionKept`: while nothing was restored the boxes are disabled just when the selection
is full. `StoredKept`, for each account whose votes were never mixed up: it sends just the
votes that are saved for it, and either none of their receipts is awaited and its vote on
chain is stored, or that of the vote mined last, the one on chain, is still to come. `ReadsKept`: unless answers
overtook each other, or the account changed since, the last read was asked for after the
last receipt, so that its answer brings the present vote; an account that never voted was
never told of a vote, because no vote is an answer that leaves the last one on the page.

**`Web_proofs`, the proxy.** `RoutesAre` tabulates the fourteen routes by length, words
and read, `OnlyRoutes` which of them a path can match, and
`MethodsByTheirReads` that the first route that matches each of the client's thirteen methods
is the one that reads what it asks for; this needs that no address is the word `elected`
(`AddressesAssumption`). `CallsAreAsMeant` says of each call, from its path to its answer,
that it is on the way to that read.

**`Web_proofs`, the snapshot and its page.** For either data set, the shards hold exactly
the chunks up to the last one's end (`ShardsHoldTheChunks`), a running job those since its start, which is not
after it (`JobHoldsItsRun`). So chunks are held twice after a restart and never missed.
Merging enumerates every shard, since an injective list of all of them misses none
(`OrderIsAll`), and keeps the first entry of each address (`MergeIs`, with `KthInOrder`). With
nobody twice a lookup in a file finds the value of the entry in the data set that the file
was made of, or none, in which case that value is the empty one (`MapsAreOfEntries`). Each
written file is that of its merged data set, which does not change any more. The page's own
state needs no invariant.

**`Web_proofs`, the guardians' table.** A node's events stay in order, so the times
between those of the window are natural and add up to the window (`TimesBetween`), of which
a share is a part (`SharesOfTheWindow`). `NodeInv` adds that the state a store
shows was processed from a node whose time had not fallen behind what was checked.

**`Agents_proofs`, the rewards distribution.** `CountsAreExact` says of each name that its hashes are
finitely many, none of them empty, and as many as counted. A hash that is found is
removed and the count goes down by one; an announcement counts its own hashes. That
everyone gets the file's amount takes three more things. A hash says what its batch
says (`HashPlaces`), and a client's run works on the batches of a file that was
published (`ClientsTyped`), so that a batch sent late, twice or after an abort is paid only if it
is one of the announcement's. Every line of a file is in exactly one
batch, whatever the size (`BatchesCover`, by division with remainder), so that the file's
amounts are the sum of its batches' (`FileIsItsBatches`, `SumOfParts`). And tokens are only
moved (`MoneyIsKept`). `RewardsInv` is these together, with `FilesAreKept`, the
property itself. `ContractKeepsItsPromises` maps each hash left to the promise of its
payments: a transaction removes one and pays it as a whole, removes all of a name, or moves
none. It assumes that the files are finitely many, for the greatest number of
promises made together to exist.

**`Custody_proofs`, the bridge.** For any accounts, amounts, word size, signatures and members.
`FederationInv` says that the revisions are stored one after the other up to the
present one and that each is a list of members without repetition: `RemoveAt` leaves an
injective list injective (`RemoveAtIsValid`), also when nobody is left, and an added member
was not in it. `RevisionsAlwaysKept` needs that a revision is stored when it ends, under its
own number; a removal in place touches the present one only. `BridgeInv` is types
(`BridgeTypeOK`), identifiers and one implication: no identifier is given out twice between
two resets, so that with the number of resets before it an event is one of a kind, and what
arrived was sent (`Identifiers`); and as long as nobody reset or changed an end, tokens of
this bridge were taken for each event and whatever arrived is marked, so that what is
received is owed (`Untouched`).
From it each action is a step of `BridgedTransfers`: a transfer out adds one transfer under a
fresh identifier, and a transfer in takes away the one that it pays or, if that was not
owed, breaks the promise, which `Untouched` shows to have been at risk. `CountedInWord` is
what arithmetic modulo `UINT64` may do to an amount. `BridgeAlwaysExact` adds `MoneyInv`: as long
as nothing went astray, each transfer moves its value between a wallet, the lock and what is under way, where on Orbs a
gift that wraps a balance round takes away a multiple of the word, so that the lock covers no
less than before. What wallets and lock hold together is kept by every action, and supply and
balances keep the same remainder. The quorum
(`QuorumIsTwoThirds`) is a fact about the list of signatures, in any order and with
repetitions: the counting loop finds as many as there are members among the signers.

**`PosData_proofs`, the subscriptions.** That the last thing told is the truth, once all is
quiet, says nothing of the time before. `NewsKept` says where the truth is meanwhile:
unless an event was missed or answers came out of order, it was told last, or the last
read will be answered with it, or a note of it waits with one emitter. An emitter that is
not connected keeps no notes, and two emitters with news at a time are the disorder that
the property excepts. `ToldOnce` counts calls of the callback together with those still to come, the
notes that lead to one (`UntoldTotal`, a sum over the emitters): a note taken off the
queue becomes a read or a call, never both, and of a transfer to oneself only one of the two
notes counts. Unsubscribing clears the queues, after which what is due bounds them.

**`PosData_proofs`, the testkit.** The effect of a mocked transaction is a closure over
what its creation saw, so the invariant relates both moments: a pending restake or
withdrawal carries the cooldown that its owner had (`CapturedIsInCooldown`) unless the owner
overlapped two transactions, so that what the closure moves is what is there. Completing
one leaves the other owners' closures alone. `ListenersTyped` has the subscribers'
lists by event, from which each effect is seen to reach everyone that shows its owner.
`TestkitAssumption` says that a set-up has integers and at most one cooldown for
each owner, as `withUnstakeStatus` leaves it.

**`PosData_proofs`, the reads.** While a read goes on the chains only grow (`ChainGrows`),
so a call that was answered at some moment stays an answer *of* that moment. `ReadIsHeard`
says of each call that it was answered at some moment between the read's start and now, and of
an agent's Delegate events that they were read no earlier than the agent. `AnswerIsOfItsTime`
carries this to the answer, whose moments do not change any more. What is then left
is arithmetic and lists. The last event of a filter is the last of a prefix of the log
(`Max` of the indexes); the first election at or after a block is the one that the
property defines by its remainder; an elected list of 20-byte slices is the one it was cut
from, and two histories, each a prefix of the growing lists, have nobody twice as distributions
are numbered. The assumptions describe the past that a run begins with: events are
not older than the first block that is searched, the first block is after the first
election, and rewards of later elections are no less than those of earlier ones
(`ResultsAssumption`). As the three parts share no variable, `DataLibraryTellsTheTruth` has them
for the composition.

**Only model-checked.** Liveness (`EveryDueElectionConcludes`, `ReleasedStakesReturn`,
`TransfersArrive`, `JobsGetOn`, `DistributionCompletes`, `EveryRunEnds`, `EverythingCompletes`,
`WebSettles`), which is out of the prover's reach. Every invariant and every action property
that a run checks is proved.

## What the checks showed about the code

- **A stuck election** (`stuck_election`). `_processRewardsParticipants` divides
  by the total weight once per participant. If guardians voted and not one whole
  ORBS is behind any of them, the last call of the election panics, and panics
  again on every retry. As processing has started, mirroring is refused too.
- **A guardian's update** (`guardian_update`). The page's `registerGuardian` sends the
  deposit with either method, but `update` of the contract is not payable, so a
  guardian's update is always refused: one request shows it, whatever the timing. The
  instructions say that guardians may update at any time and without another deposit. They
  walk through MyCrypto, where `update` can be called without a value and this holds; what
  falls short of it is the page, whose route is commented out at this commit.
- **Extra calls** (met while modelling, no run). The agents' document says that surplus
  `processVoting` calls do no harm and return an error. After an election that
  was held a period late the next one is due, so a surplus call starts it at
  once and ends its mirroring.
- **The first election** (likewise). The document says to send
  `initFirstElection()`, which does not exist. The calendar is set by
  `_initCurrentElection`, but `processVoting` panics in the same call, which
  undoes it: before the first mirrored delegation no election is ever held.

What follows is what the code does where a reader may expect something else. The
models do the same, and the properties say so where they make an exception.

*Agents.* A run may report that the election has not ended although it was held, when
the next is already due.

*Status page.*
- Going on from the first election's block is refused (`status.js:93`, `:141`). A
  restarted run numbers elections one too low, in the log only.
- A guardian's own delegation is forgotten once it is a guardian (`voting.js:50`) and
  is back after a restart. Chains of more than five intermediaries are given up.
- The page does not see stake that is locked in `StakingContract`: it weighs the token's
  balance alone (`stakes.js:23-24`), and Elections adds `getStakeBalanceOf`
  (`processing_vote.go:119-122`). With anything locked behind a guardian weights, totals and
  rewards differ; by how much is what `VotesAreTheContracts` says. Stakes are whole ORBS in
  the contract and have two digits more on the page.
- Votes count one block longer than in the contract (`guardians.js:31`,
  `processing_helpers.go:82`). Elections without any delegation are skipped,
  and so are those in which only guardians of earlier ones delegated, as these
  delegations are forgotten.
- The row of a delegation that cannot be followed resets the rewards of the delegatee
  it names when a run goes on. The excellence program takes ten, without ties.
- A failed search for Delegate events loses its page silently, and small pages
  overshoot the range unless they divide it.

*Data library.*
- `readDelegationInfo` tells an account that undelegated of an older or later transfer
  of 0.07, which Elections no longer counts. An account that acts twice during the
  read can be told what never was true.
- `readUpcomingElectionBlockNumber` never answers the first election's block.
  `readRewardsHistory` reads only the first distribution contract. `stakePercent` may
  mix two elections. A second call of an unsubscribe function never settles.
- In the testkit two overlapping restakes or withdrawals move the cooldown twice, and
  `approve` and `selectGuardian` act for the account that is set when they complete.

*Proxy.* Routes without a `try` never answer when their read fails (rewards, elected
validators).

*Rewards snapshot and page.* What the page shows of one address is of two moments: the
history of its distributions from after the last elections, all else from before them
(`processAllData.ts:16-24`). A delegation read that failed is recorded as
"Not-Delegated", and omitted entries are shown as an empty text. The address must be
given in the file's letter case. Shards of a run are cumulative and overlap; the merge
takes out what is double.

*Guardians' table.* The participation credits the period before a committee event to
that event's committee. One event in the window gives NaN, shown green; no event
throws. A node that is not in sync leads to a destructured null, caught as an error.

*Voting page.* Checks restored from the storage are not counted against the limit of
three. A vote goes out from another account than it is stored for when MetaMask's account
changes between the two questions. When the receipt of a vote overtakes that of the vote
before it, the earlier vote is stored. The text of the last vote stays when the
next account has none, and answers may overtake each other.

*Bridge.* Orbs reads an amount with `Uint64()`: what is above 64 bits is cut off, balances
and the supply wrap round, and the lock then covers more than there is. `transferOut` on
Orbs looks at neither amount nor address, so a transfer of nothing or to nobody is burnt
and refused at the other end for ever. The resets and the methods that point an end at
another contract are public (`AutonomousSwapBridge.sol:128`, `contract.go:21`, where a note
says that `resetContract` is to be dealt with). So that each transfer arrives, arrives once,
and is covered by the lock holds only until one of them is called with transfers under way or
with events of before: an end that forgot an event takes it again, two transfers get one
identifier of which one is refused, and another bridge's events are taken once an end is
pointed at it. What holds in any case is listed with `custody`. `IN_TUID_MAX_KEY` holds the identifier
received last, not the greatest: when events came out of order a reset leaves marks, and the
transfers that get these identifiers later are refused. `TestReset`
(`_OrbsASB/contract_test.go:168`), where they come in order and nothing else is under way,
expects none to be left.

*Federation.* `removeMemberByIndex` is public (`Federation.sol:117`): anybody takes members
off the present revision, down to none, and no revision is stored. So who was in a
revision is fixed only once it has ended, no revision is sure to have a member, and a proof
that the verifier would have accepted may be refused after it; one by a revision without
members always is, since the verifier accepts with the signature that completes the
threshold and there is none. The version of a block's proof is always 0, so every proof is checked against the
first revision of the federation: of a federation that has changed since, the
verifier accepts only blocks that the first members signed.

*Subscriptions.* Fees go to those who run the network when they are given out, not when they were
paid. A pool smaller than the number of receivers waits for more.

## What is not modelled

- Of the bridge and its verifier: the formats in bytes, Merkle paths and cryptography,
  which are taken as sound; approvals of tokens; the replacement of the verifier by its
  owner. `contract.go` of the Orbs end exists only as a test's copy.
- The federation's pointer to the subscription manager.
- Of subscriptions: `SubscriptionManager.sol`, the version of before, with its upgrade to
  another contract; profiles, which nothing reads; hours and seconds.
- `OrbsVoting.sol` has no module: it is a last vote and a last delegation per account.
  Its events are the inputs of the mirror, its votes those of the elections, and the
  pages that vote and the library that reads take its state as their own variable.
- Time-based elections, which no exported method reaches. `isalive.js`. Flattened and
  deprecated copies, test drivers, experiments, mocks of the topology.
- Of the web client: the delegators' page of its first version, which no route names,
  navigation, languages, sorting and formatting, `useCompleteAddressInfoForRewardsPage`,
  which no page uses. Of the testkit: listeners to the creation of a transaction,
  sending and resolving by hand, the end of a cooldown, and the mocks that only hold
  values.
- The text of addresses and ABIs, logging, queries that only format stored values.

`PROJECT.json` lists every part with its status and, under `hazards`, what is hard to
test in it.

## Where to go on

`SubscriptionManager.sol` and its upgrade: which of both contracts holds what. It gets a
module with constants and named assumptions, a part of `MCCustody`, an abstract
specification if there is one worth stating, and its theorems in `Custody_proofs`. Recursion
stays in recursive functions and folds, so that every module can be proved about.
