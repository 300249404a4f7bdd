--------------------------- MODULE StakingContract ---------------------------
(***************************************************************************)
(* StakingContract.sol: several deployments of the contract over one ORBS   *)
(* token, so that stakes can migrate between them.  An action is a          *)
(* transaction: it takes effect whole or, when a require fails, not at all, *)
(* the calls to the token and to the other contract included.               *)
(*                                                                         *)
(* Callers are assumed to have approved the tokens a call takes from them,  *)
(* as the contract's comments demand; an approval that a contract gives in  *)
(* a migration is used up within the same transaction.  The zero address is *)
(* refused as a stake owner everywhere, so owners range over Address.       *)
(* uint256 cannot overflow: no sum exceeds the token's supply.              *)
(***************************************************************************)
EXTENDS Accounts, Integers, SequencesExt

CONSTANTS
  StakingContracts,   \* the deployed staking contracts
  Managers,           \* the people who may become manager
  CooldownPeriod,     \* cooldownPeriodInSec
  MaxApprovedStakingContracts,  \* MAX_APPROVED_STAKING_CONTRACTS, 10
  InitialBalance,     \* the tokens people start with
  Amounts,            \* the amounts that callers name (bound)
  MaxTime             \* the last block timestamp (bound)

ASSUME StakingAssumption ==
  /\ StakingContracts \cap Account = {}
  /\ IsFiniteSet(StakingContracts)
  /\ Managers \subseteq Address
  /\ CooldownPeriod \in Nat \ {0}
  /\ MaxApprovedStakingContracts \in Nat \ {0}
  /\ InitialBalance \in [Address -> Nat]
  /\ Amounts \subseteq Nat
  /\ MaxTime \in Nat

VARIABLES
  balance,                   \* the token's balance of every holder
  stakes,                    \* per contract and owner
  totalStakedTokens,
  approvedStakingContracts,  \* per contract, the list of destinations
  migrationManager,
  emergencyManager,
  acceptingNewStakes,
  releasingAllStakes,
  now                        \* the block timestamp

books == <<balance, stakes, totalStakedTokens>>
managers == <<migrationManager, emergencyManager>>
switches == <<acceptingNewStakes, releasingAllStakes>>
stakingVars == <<books, managers, switches, approvedStakingContracts, now>>

Holder == Address \cup StakingContracts

StakeData == [amount : Nat, cooldownAmount : Nat, cooldownEndTime : Nat]

NoStake == [amount |-> 0, cooldownAmount |-> 0, cooldownEndTime |-> 0]

StakingInit ==
  /\ balance = [h \in Holder |-> IF h \in Address THEN InitialBalance[h] ELSE 0]
  /\ stakes = [c \in StakingContracts |-> [o \in Address |-> NoStake]]
  /\ totalStakedTokens = [c \in StakingContracts |-> 0]
  /\ approvedStakingContracts = [c \in StakingContracts |-> <<>>]
  /\ migrationManager \in [StakingContracts -> Managers]
  /\ emergencyManager \in [StakingContracts -> Managers]
  /\ acceptingNewStakes = [c \in StakingContracts |-> TRUE]
  /\ releasingAllStakes = [c \in StakingContracts |-> FALSE]
  /\ now = 0

(* onlyWhenAcceptingNewStakes                                               *)
Accepting(c) == acceptingNewStakes[c] /\ ~releasingAllStakes[c]

(* The token's transfer and transferFrom.                                   *)
TransferTokens(from, to, n) ==
  /\ n <= balance[from]
  /\ balance' = [[balance EXCEPT ![from] = @ - n] EXCEPT ![to] = @ + n]

(* SafeMath's sub reverts rather than wrap.                                 *)
ReduceTotal(c, n) ==
  /\ n \in 0 .. totalStakedTokens[c]
  /\ totalStakedTokens' = [totalStakedTokens EXCEPT ![c] = @ - n]

-----------------------------------------------------------------------------
(* Managers and migration destinations                                      *)

SetMigrationManager(c, caller, new) ==
  /\ caller = migrationManager[c]
  /\ new # EmptyAddress /\ new # migrationManager[c]
  /\ migrationManager' = [migrationManager EXCEPT ![c] = new]
  /\ UNCHANGED <<books, emergencyManager, switches, approvedStakingContracts, now>>

SetEmergencyManager(c, caller, new) ==
  /\ caller = emergencyManager[c]
  /\ new # EmptyAddress /\ new # emergencyManager[c]
  /\ emergencyManager' = [emergencyManager EXCEPT ![c] = new]
  /\ UNCHANGED <<books, migrationManager, switches, approvedStakingContracts, now>>

(* isApprovedStakingContract                                                *)
IsApproved(c, d) ==
  \E i \in DOMAIN approvedStakingContracts[c] : approvedStakingContracts[c][i] = d

AddMigrationDestination(c, caller, d) ==
  /\ caller = migrationManager[c]
  /\ Len(approvedStakingContracts[c]) + 1 <= MaxApprovedStakingContracts
  /\ ~IsApproved(c, d)
  /\ approvedStakingContracts' = [approvedStakingContracts EXCEPT ![c] = Append(@, d)]
  /\ UNCHANGED <<books, managers, switches, now>>

(* The destinations behind the removed one move up by one.                  *)
RemoveMigrationDestination(c, caller, d) ==
  /\ caller = migrationManager[c]
  /\ \E i \in DOMAIN approvedStakingContracts[c] :
       /\ approvedStakingContracts[c][i] = d
       /\ approvedStakingContracts' = [approvedStakingContracts EXCEPT ![c] = RemoveAt(@, i)]
  /\ UNCHANGED <<books, managers, switches, now>>

-----------------------------------------------------------------------------
(* Staking.  CreditStake is the private stake.                              *)

CreditStake(c, sender, o, n) ==
  /\ n > 0
  /\ stakes' = [stakes EXCEPT ![c][o].amount = @ + n]
  /\ totalStakedTokens' = [totalStakedTokens EXCEPT ![c] = @ + n]
  /\ TransferTokens(sender, c, n)

Stake(c, o, n) ==
  /\ Accepting(c)
  /\ CreditStake(c, o, o, n)
  /\ UNCHANGED <<managers, switches, approvedStakingContracts, now>>

(* Anybody may stake tokens of theirs for another owner.                    *)
AcceptMigration(c, sender, o, n) ==
  /\ Accepting(c)
  /\ CreditStake(c, sender, o, n)
  /\ UNCHANGED <<managers, switches, approvedStakingContracts, now>>

(* Tokens already cooling down wait with the new ones; tokens whose         *)
(* cooldown is over must be withdrawn or restaked first.                    *)
UnstakeKeepingEndTime(c, o, n) ==
  LET s == stakes[c][o]
  IN  /\ n > 0 /\ n <= s.amount
      /\ s.cooldownAmount = 0 \/ s.cooldownEndTime > now
      /\ stakes' = [stakes EXCEPT ![c][o] =
           [amount |-> s.amount - n,
            cooldownAmount |-> s.cooldownAmount + n,
            cooldownEndTime |-> IF s.cooldownAmount = 0 THEN now + CooldownPeriod
                                                        ELSE s.cooldownEndTime]]
      /\ ReduceTotal(c, n)
      /\ UNCHANGED <<balance, managers, switches, approvedStakingContracts, now>>

Unstake(c, o, n) ==
  LET s == stakes[c][o]
  IN  /\ n > 0 /\ n <= s.amount
      /\ s.cooldownAmount = 0 \/ s.cooldownEndTime > now
      /\ stakes' = [stakes EXCEPT ![c][o] =
           [amount |-> s.amount - n,
            cooldownAmount |-> s.cooldownAmount + n,
            cooldownEndTime |-> now + CooldownPeriod]]
      /\ ReduceTotal(c, n)
      /\ UNCHANGED <<balance, managers, switches, approvedStakingContracts, now>>

Restake(c, o) ==
  LET s == stakes[c][o]
  IN  /\ Accepting(c)
      /\ s.cooldownAmount > 0
      /\ stakes' = [stakes EXCEPT ![c][o] =
           [amount |-> s.amount + s.cooldownAmount, cooldownAmount |-> 0, cooldownEndTime |-> 0]]
      /\ totalStakedTokens' = [totalStakedTokens EXCEPT ![c] = @ + s.cooldownAmount]
      /\ UNCHANGED <<balance, managers, switches, approvedStakingContracts, now>>

(* The stake leaves c's books, c approves the destination to take the       *)
(* tokens and calls its acceptMigration, which fails unless it accepts new  *)
(* stakes.  A contract may be approved as its own destination.              *)
MigrateStakedTokens(c, o, d, n) ==
  /\ ~releasingAllStakes[c]
  /\ IsApproved(c, d)
  /\ n > 0 /\ n <= stakes[c][o].amount
  /\ n <= totalStakedTokens[c]
  /\ Accepting(d)
  /\ stakes' = [[stakes EXCEPT ![c][o].amount = @ - n] EXCEPT ![d][o].amount = @ + n]
  /\ totalStakedTokens' = [[totalStakedTokens EXCEPT ![c] = @ - n] EXCEPT ![d] = @ + n]
  /\ TransferTokens(c, d, n)
  /\ UNCHANGED <<managers, switches, approvedStakingContracts, now>>

(* reward gives the owners of the list their amounts; a list that names an  *)
(* owner twice is the one that names it once with both amounts.             *)
DistributeRewardsUnchecked(c, sender, total, reward) ==
  /\ Accepting(c)
  /\ total > 0
  /\ DOMAIN reward # {}
  /\ \A o \in DOMAIN reward : reward[o] > 0
  /\ stakes' = [stakes EXCEPT ![c] = [o \in Address |->
       IF o \in DOMAIN reward THEN [stakes[c][o] EXCEPT !.amount = @ + reward[o]]
                              ELSE stakes[c][o]]]
  /\ totalStakedTokens' = [totalStakedTokens EXCEPT ![c] = @ + total]
  /\ TransferTokens(sender, c, total)
  /\ UNCHANGED <<managers, switches, approvedStakingContracts, now>>

DistributeRewards(c, sender, total, reward) ==
  /\ Accepting(c)
  /\ total > 0
  /\ DOMAIN reward # {}
  /\ \A o \in DOMAIN reward : reward[o] > 0
  /\ total = SumFunction(reward)
  /\ stakes' = [stakes EXCEPT ![c] = [o \in Address |->
       IF o \in DOMAIN reward THEN [stakes[c][o] EXCEPT !.amount = @ + reward[o]]
                              ELSE stakes[c][o]]]
  /\ totalStakedTokens' = [totalStakedTokens EXCEPT ![c] = @ + total]
  /\ TransferTokens(sender, c, total)
  /\ UNCHANGED <<managers, switches, approvedStakingContracts, now>>

-----------------------------------------------------------------------------
(* Withdrawing.  A release adds the stake itself to what can be withdrawn   *)
(* and lifts the cooldown.                                                  *)

ReleasedStake(c, o) == IF releasingAllStakes[c] THEN stakes[c][o].amount ELSE 0

WithdrawableFromCooldown(c, o) == stakes[c][o].cooldownAmount

Withdrawable(c, o) == stakes[c][o].cooldownAmount + ReleasedStake(c, o)

CanWithdraw(c, o) ==
  /\ Withdrawable(c, o) > 0
  /\ releasingAllStakes[c] \/ stakes[c][o].cooldownEndTime <= now

AfterWithdrawalKeepingStake(c, o) ==
  [amount |-> stakes[c][o].amount, cooldownAmount |-> 0, cooldownEndTime |-> 0]

AfterWithdrawal(c, o) ==
  [amount |-> stakes[c][o].amount - ReleasedStake(c, o),
   cooldownAmount |-> 0, cooldownEndTime |-> 0]

Withdraw(c, o) ==
  /\ CanWithdraw(c, o)
  /\ stakes' = [stakes EXCEPT ![c][o] = AfterWithdrawal(c, o)]
  /\ ReduceTotal(c, ReleasedStake(c, o))
  /\ TransferTokens(c, o, Withdrawable(c, o))
  /\ UNCHANGED <<managers, switches, approvedStakingContracts, now>>

(* A batch, which fails whole when one of its owners has nothing to         *)
(* withdraw: a list that names an owner twice always does.                  *)
WithdrawReleasedStakes(c, owners) ==
  LET paid == [o \in owners |-> Withdrawable(c, o)]
      released == [o \in owners |-> ReleasedStake(c, o)]
  IN  /\ releasingAllStakes[c]
      /\ \A o \in owners : CanWithdraw(c, o)
      /\ SumFunction(paid) \in 0 .. balance[c]
      /\ stakes' = [stakes EXCEPT ![c] = [o \in Address |->
           IF o \in owners THEN AfterWithdrawal(c, o) ELSE stakes[c][o]]]
      /\ ReduceTotal(c, SumFunction(released))
      /\ balance' = [h \in Holder |->
           CASE h = c        -> balance[h] - SumFunction(paid)
             [] h \in owners -> balance[h] + paid[h]
             [] OTHER        -> balance[h]]
      /\ UNCHANGED <<managers, switches, approvedStakingContracts, now>>

-----------------------------------------------------------------------------
(* The emergency manager's switches                                         *)

StopAcceptingNewStakes(c, caller) ==
  /\ caller = emergencyManager[c]
  /\ Accepting(c)
  /\ acceptingNewStakes' = [acceptingNewStakes EXCEPT ![c] = FALSE]
  /\ UNCHANGED <<books, managers, releasingAllStakes, approvedStakingContracts, now>>

ReleaseAllStakes(c, caller) ==
  /\ caller = emergencyManager[c]
  /\ ~releasingAllStakes[c]
  /\ releasingAllStakes' = [releasingAllStakes EXCEPT ![c] = TRUE]
  /\ UNCHANGED <<books, managers, acceptingNewStakes, approvedStakingContracts, now>>

-----------------------------------------------------------------------------
(* The surroundings: people pay one another, or a contract by mistake, and  *)
(* time passes between blocks.                                              *)

TokenTransfer(from, to, n) ==
  /\ TransferTokens(from, to, n)
  /\ UNCHANGED <<stakes, totalStakedTokens, managers, switches, approvedStakingContracts, now>>

Tick ==
  /\ now < MaxTime
  /\ now' = now + 1
  /\ UNCHANGED <<books, managers, switches, approvedStakingContracts>>

RewardLists == UNION {[owners -> Amounts] : owners \in SUBSET Address}

Manage(c, caller) ==
  \/ \E new \in Managers : SetMigrationManager(c, caller, new) \/ SetEmergencyManager(c, caller, new)
  \/ \E d \in StakingContracts :
       AddMigrationDestination(c, caller, d) \/ RemoveMigrationDestination(c, caller, d)
  \/ StopAcceptingNewStakes(c, caller)
  \/ ReleaseAllStakes(c, caller)

MoveStake(c, o) ==
  \/ \E n \in Amounts :
       \/ Stake(c, o, n)
       \/ Unstake(c, o, n)
       \/ \E sender \in Address : AcceptMigration(c, sender, o, n)
       \/ \E d \in StakingContracts : MigrateStakedTokens(c, o, d, n)
  \/ Restake(c, o)
  \/ Withdraw(c, o)

StakingNext ==
  \/ \E c \in StakingContracts, p \in Address : Manage(c, p) \/ MoveStake(c, p)
  \/ \E c \in StakingContracts, sender \in Address, total \in Amounts, reward \in RewardLists :
       DistributeRewards(c, sender, total, reward)
  \/ \E c \in StakingContracts, owners \in SUBSET Address : WithdrawReleasedStakes(c, owners)
  \/ \E from \in Address, to \in Holder, n \in Amounts : TokenTransfer(from, to, n)
  \/ Tick

StakingSpec == StakingInit /\ [][StakingNext]_stakingVars

(* An owner of released stakes claims them, sooner or later.                *)
OwnersClaim == \A c \in StakingContracts, o \in Address : WF_stakingVars(Withdraw(c, o))

FairStakingSpec == StakingSpec /\ OwnersClaim

-----------------------------------------------------------------------------
(* The variables keep their types.                                          *)
StakingTypeOK ==
  /\ balance \in [Holder -> Nat]
  /\ stakes \in [StakingContracts -> [Address -> StakeData]]
  /\ totalStakedTokens \in [StakingContracts -> Nat]
  /\ approvedStakingContracts \in [StakingContracts -> Seq(StakingContracts)]
  /\ migrationManager \in [StakingContracts -> Managers]
  /\ emergencyManager \in [StakingContracts -> Managers]
  /\ acceptingNewStakes \in [StakingContracts -> BOOLEAN]
  /\ releasingAllStakes \in [StakingContracts -> BOOLEAN]
  /\ now \in Nat

(* What c owes o: staked or cooling down.                                   *)
Held(c, o) == stakes[c][o].amount + stakes[c][o].cooldownAmount

TotalHeld(c) == SumFunction([o \in Address |-> Held(c, o)])

(* Through every sequence of staking, unstaking, restaking, migrating,      *)
(* rewards and releases each contract's total is the sum of its stakes, and *)
(* it holds the tokens to pay everybody at once.  Where this failed, the    *)
(* last owners to leave could not, or SafeMath would refuse them.           *)
BooksBalance ==
  \A c \in StakingContracts :
    /\ totalStakedTokens[c] = SumFunction([o \in Address |-> stakes[c][o].amount])
    /\ balance[c] >= TotalHeld(c)

(* Whatever leaves an owner's stake in a contract reaches, in the same      *)
(* transaction, the owner's own wallet or the owner's stake in another      *)
(* contract, to the last token, whoever calls and however many owners a     *)
(* batch pays.                                                              *)
StakeLeavesOnlyToItsOwner ==
  [][\A c \in StakingContracts, o \in Address :
       Held(c, o)' < Held(c, o) =>
         \/ balance[o]' - balance[o] = Held(c, o) - Held(c, o)'
         \/ /\ balance[o]' = balance[o]
            /\ \E d \in StakingContracts \ {c} :
                 Held(d, o)' - Held(d, o) = Held(c, o) - Held(c, o)'
    ]_stakingVars

InEmergency(c) == ~acceptingNewStakes[c] \/ releasingAllStakes[c]

(* A contract that stopped accepting stakes or released them never takes    *)
(* any more, by none of the five ways to add to a stake, and never goes     *)
(* back.                                                                    *)
EmergencyIsFinal ==
  [][\A c \in StakingContracts :
       /\ InEmergency(c) => \A o \in Address : stakes[c][o].amount' <= stakes[c][o].amount
       /\ InEmergency(c) => InEmergency(c)'
       /\ releasingAllStakes[c] => releasingAllStakes[c]'
    ]_stakingVars

(* Additions and removals, in any order, keep the list of destinations      *)
(* within its limit and free of duplicates: a destination left over would   *)
(* still be approved after its removal.                                     *)
DestinationsListedOnce ==
  \A c \in StakingContracts :
    /\ Len(approvedStakingContracts[c]) <= MaxApprovedStakingContracts
    /\ \A i, j \in DOMAIN approvedStakingContracts[c] :
         approvedStakingContracts[c][i] = approvedStakingContracts[c][j] => i = j

(* After a release everybody who claims gets everything back, whatever the  *)
(* cooldown and whatever the others, the managers and the batches do.       *)
ReleasedStakesReturn ==
  \A c \in StakingContracts, o \in Address : releasingAllStakes[c] ~> Held(c, o) = 0

TokenSupply == SumFunction(InitialBalance)

Wallets == [o \in Address |-> balance[o]]

LockedOf(o) == SumFunction([c \in StakingContracts |-> Held(c, o)])
Locked == [o \in Address |-> LockedOf(o)]

(* What a contract has and owes to nobody was sent to it by mistake.        *)
Strays == SumFunction([c \in StakingContracts |-> balance[c] - TotalHeld(c)])

Ledger ==
  INSTANCE StakeLedger WITH
    Owner <- Address, Funds <- InitialBalance, Supply <- TokenSupply,
    wallet <- Wallets, locked <- Locked, strays <- Strays

(* Together the contracts are one ledger of wallets and locked tokens:      *)
(* cooldowns, restakes and migrations cannot be seen in it, and no call     *)
(* makes, loses or hands over a token.                                      *)
ImplementsLedger == Ledger!Spec

=============================================================================
