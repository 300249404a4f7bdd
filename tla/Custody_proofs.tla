--------------------------- MODULE Custody_proofs ---------------------------
(***************************************************************************)
(* Proofs about the contracts that hold other people's tokens over time:    *)
(* the books of the staking contracts and the ledger they implement, the    *)
(* stakes through their cooldown, the fees of the months, and the bridge    *)
(* with its federation.                                                     *)
(***************************************************************************)
EXTENDS MCCustody, Sums_proofs, SequenceTheorems, TLAPS

-----------------------------------------------------------------------------
(* The staking contracts, for every number of contracts and of owners,      *)
(* every cooldown period and every amount.                                  *)

(* The transactions that leave the books alone: the managers'.              *)
LEMMA ManageKeepsBooks ==
  ASSUME NEW c \in StakingContracts, NEW p \in Address, Manage(c, p)
  PROVE  UNCHANGED <<books, now>>
  BY DEF Manage, SetMigrationManager, SetEmergencyManager, AddMigrationDestination,
         RemoveMigrationDestination, StopAcceptingNewStakes, ReleaseAllStakes

(* All others leave the managers, the destinations and the switches alone.  *)
LEMMA MoveKeepsManagement ==
  ASSUME NEW c \in StakingContracts, NEW o \in Address, MoveStake(c, o)
  PROVE  UNCHANGED <<managers, switches, approvedStakingContracts, now>>
  BY DEF MoveStake, Stake, Unstake, AcceptMigration, MigrateStakedTokens, Restake, Withdraw

(* The token's transfer keeps balances natural numbers.                     *)
LEMMA TransferTyped ==
  ASSUME StakingTypeOK, NEW from \in Holder, NEW to \in Holder, NEW n \in Nat,
         TransferTokens(from, to, n)
  PROVE  balance' \in [Holder -> Nat]
<1>1. PICK mid : mid = [balance EXCEPT ![from] = @ - n]
  OBVIOUS
<1>2. mid \in [Holder -> Nat]
  BY <1>1 DEF StakingTypeOK, TransferTokens
<1>3. balance' = [mid EXCEPT ![to] = @ + n]
  BY <1>1 DEF TransferTokens
<1> QED
  BY <1>2, <1>3

LEMMA ReduceTotalTyped ==
  ASSUME StakingTypeOK, NEW c \in StakingContracts, NEW n, ReduceTotal(c, n)
  PROVE  totalStakedTokens' \in [StakingContracts -> Nat]
  BY DEF StakingTypeOK, ReduceTotal

(* What an owner has in a contract is typed.                                *)
LEMMA StakeTyped ==
  ASSUME StakingTypeOK, NEW c \in StakingContracts, NEW o \in Address
  PROVE  /\ stakes[c][o] \in StakeData
         /\ stakes[c][o].amount \in Nat
         /\ stakes[c][o].cooldownAmount \in Nat
         /\ stakes[c][o].cooldownEndTime \in Nat
  BY DEF StakingTypeOK, StakeData

LEMMA WithdrawableTyped ==
  ASSUME StakingTypeOK, NEW c \in StakingContracts, NEW o \in Address
  PROVE  /\ ReleasedStake(c, o) \in 0 .. stakes[c][o].amount
         /\ Withdrawable(c, o) \in Nat
         /\ AfterWithdrawal(c, o) \in StakeData
  BY StakeTyped DEF ReleasedStake, Withdrawable, AfterWithdrawal, StakeData

(* The part of StakingTypeOK that is about tokens.                          *)
BooksTyped ==
  /\ balance \in [Holder -> Nat]
  /\ stakes \in [StakingContracts -> [Address -> StakeData]]
  /\ totalStakedTokens \in [StakingContracts -> Nat]

LEMMA MoveStakeTyped ==
  ASSUME StakingTypeOK, NEW c \in StakingContracts, NEW o \in Address, MoveStake(c, o)
  PROVE  BooksTyped'
<1>h. c \in Holder /\ o \in Holder
  BY DEF Holder
<1>t. /\ stakes \in [StakingContracts -> [Address -> StakeData]]
      /\ totalStakedTokens \in [StakingContracts -> Nat]
      /\ balance \in [Holder -> Nat]
      /\ now \in Nat
  BY DEF StakingTypeOK
<1>s. /\ stakes[c][o] \in StakeData
      /\ stakes[c][o].amount \in Nat /\ stakes[c][o].cooldownAmount \in Nat
  BY StakeTyped
<1>1. ASSUME NEW n \in Amounts, NEW sender \in Address, CreditStake(c, sender, o, n)
      PROVE  BooksTyped'
  <2>1. n \in Nat /\ sender \in Holder
    BY StakingAssumption DEF Holder
  <2>2. balance' \in [Holder -> Nat]
    BY <1>1, <1>h, <2>1, TransferTyped DEF CreditStake
  <2>3. totalStakedTokens' \in [StakingContracts -> Nat]
    BY <1>1, <1>t, <2>1 DEF CreditStake
  <2>4. stakes' \in [StakingContracts -> [Address -> StakeData]]
    <3>1. [stakes[c][o] EXCEPT !.amount = @ + n] \in StakeData
      BY <1>s, <2>1 DEF StakeData
    <3> QED
      BY <1>1, <1>t, <3>1 DEF CreditStake
  <2> QED
    BY <2>2, <2>3, <2>4 DEF BooksTyped
<1>2. ASSUME NEW n \in Amounts, Unstake(c, o, n)
      PROVE  BooksTyped'
  <2>1. totalStakedTokens' \in [StakingContracts -> Nat]
    BY <1>2, ReduceTotalTyped DEF Unstake
  <2>2. stakes' \in [StakingContracts -> [Address -> StakeData]]
    BY <1>2, <1>t, <1>s, StakingAssumption DEF Unstake, StakeData
  <2> QED
    BY <1>2, <1>t, <2>1, <2>2 DEF Unstake, BooksTyped
<1>3. ASSUME NEW n \in Amounts, NEW d \in StakingContracts, MigrateStakedTokens(c, o, d, n)
      PROVE  BooksTyped'
  <2>1. n \in Nat /\ d \in Holder
    BY StakingAssumption DEF Holder
  <2>2. balance' \in [Holder -> Nat]
    BY <1>3, <1>h, <2>1, TransferTyped DEF MigrateStakedTokens
  <2>3. totalStakedTokens' \in [StakingContracts -> Nat]
    BY <1>3, <1>t, <2>1 DEF MigrateStakedTokens
  <2>4. stakes' \in [StakingContracts -> [Address -> StakeData]]
    <3>1. PICK mid : mid = [stakes EXCEPT ![c][o].amount = @ - n]
      OBVIOUS
    <3>2. mid \in [StakingContracts -> [Address -> StakeData]]
      <4>1. [stakes[c][o] EXCEPT !.amount = @ - n] \in StakeData
        BY <1>3, <1>s, <2>1 DEF MigrateStakedTokens, StakeData
      <4> QED
        BY <1>t, <3>1, <4>1
    <3>3. mid[d][o] \in StakeData /\ mid[d][o].amount \in Nat
      BY <3>2 DEF StakeData
    <3>4. [mid[d][o] EXCEPT !.amount = @ + n] \in StakeData
      BY <3>3, <2>1 DEF StakeData
    <3>5. stakes' = [mid EXCEPT ![d][o].amount = @ + n]
      BY <1>3, <3>1 DEF MigrateStakedTokens
    <3> QED
      BY <3>2, <3>4, <3>5
  <2> QED
    BY <2>2, <2>3, <2>4 DEF BooksTyped
<1>4. ASSUME Restake(c, o)
      PROVE  BooksTyped'
  BY <1>4, <1>t, <1>s DEF Restake, BooksTyped, StakeData
<1>5. ASSUME Withdraw(c, o)
      PROVE  BooksTyped'
  <2>1. balance' \in [Holder -> Nat]
    BY <1>5, <1>h, TransferTyped, WithdrawableTyped DEF Withdraw
  <2>2. totalStakedTokens' \in [StakingContracts -> Nat]
    BY <1>5, ReduceTotalTyped DEF Withdraw
  <2>3. stakes' \in [StakingContracts -> [Address -> StakeData]]
    BY <1>5, <1>t, WithdrawableTyped DEF Withdraw
  <2> QED
    BY <2>1, <2>2, <2>3 DEF BooksTyped
<1> QED
  BY <1>1, <1>2, <1>3, <1>4, <1>5 DEF MoveStake, Stake, AcceptMigration

LEMMA RewardsTyped ==
  ASSUME StakingTypeOK, NEW c \in StakingContracts, NEW sender \in Address,
         NEW total \in Amounts, NEW reward \in RewardLists,
         DistributeRewards(c, sender, total, reward)
  PROVE  BooksTyped'
<1>1. total \in Nat /\ sender \in Holder /\ c \in Holder
  BY StakingAssumption DEF Holder
<1>2. balance' \in [Holder -> Nat]
  BY <1>1, TransferTyped DEF DistributeRewards
<1>3. totalStakedTokens' \in [StakingContracts -> Nat]
  BY <1>1 DEF DistributeRewards, StakingTypeOK
<1>4. ASSUME NEW o \in DOMAIN reward
      PROVE  reward[o] \in Nat
  <2>1. PICK owners \in SUBSET Address : reward \in [owners -> Amounts]
    BY DEF RewardLists
  <2> QED
    BY <1>4, <2>1, StakingAssumption
<1>5. ASSUME NEW o \in Address
      PROVE  (IF o \in DOMAIN reward THEN [stakes[c][o] EXCEPT !.amount = @ + reward[o]]
                                     ELSE stakes[c][o]) \in StakeData
  BY <1>4, StakeTyped DEF StakeData
<1>6. stakes' \in [StakingContracts -> [Address -> StakeData]]
  BY <1>5 DEF DistributeRewards, StakingTypeOK
<1> QED
  BY <1>2, <1>3, <1>6 DEF BooksTyped

LEMMA BatchTyped ==
  ASSUME StakingTypeOK, NEW c \in StakingContracts, NEW owners \in SUBSET Address,
         WithdrawReleasedStakes(c, owners)
  PROVE  BooksTyped'
<1>1. totalStakedTokens' \in [StakingContracts -> Nat]
  BY ReduceTotalTyped DEF WithdrawReleasedStakes
<1>2. ASSUME NEW o \in Address
      PROVE  (IF o \in owners THEN AfterWithdrawal(c, o) ELSE stakes[c][o]) \in StakeData
  BY StakeTyped, WithdrawableTyped
<1>3. stakes' \in [StakingContracts -> [Address -> StakeData]]
  BY <1>2 DEF WithdrawReleasedStakes, StakingTypeOK
<1>4. balance' \in [Holder -> Nat]
  <2> DEFINE paid == [o \in owners |-> Withdrawable(c, o)]
  <2>1. PICK sum : sum = SumFunction(paid)
    OBVIOUS
  <2>2. sum \in 0 .. balance[c] /\ c \in Holder /\ balance \in [Holder -> Nat]
    BY <2>1 DEF WithdrawReleasedStakes, StakingTypeOK, Holder
  <2>3. \A h \in owners : paid[h] \in Nat
    BY WithdrawableTyped
  <2>4. balance' = [h \in Holder |-> CASE h = c        -> balance[h] - sum
                                       [] h \in owners -> balance[h] + paid[h]
                                       [] OTHER        -> balance[h]]
    BY <2>1 DEF WithdrawReleasedStakes
  <2> HIDE DEF paid
  <2> QED
    BY <2>2, <2>3, <2>4
<1> QED
  BY <1>1, <1>3, <1>4 DEF BooksTyped

(* The managers' transactions keep the types.                               *)
LEMMA ManagementTyped ==
  ASSUME StakingTypeOK, NEW c \in StakingContracts, NEW p \in Address, Manage(c, p)
  PROVE  StakingTypeOK'
<1>0. UNCHANGED <<balance, stakes, totalStakedTokens, now>>
  BY ManageKeepsBooks DEF books
<1>1. ASSUME NEW manager \in Managers, SetMigrationManager(c, p, manager)
      PROVE  StakingTypeOK'
  BY <1>0, <1>1 DEF SetMigrationManager, StakingTypeOK, switches
<1>2. ASSUME NEW manager \in Managers, SetEmergencyManager(c, p, manager)
      PROVE  StakingTypeOK'
  BY <1>0, <1>2 DEF SetEmergencyManager, StakingTypeOK, switches
<1>3. ASSUME NEW d \in StakingContracts, AddMigrationDestination(c, p, d)
      PROVE  StakingTypeOK'
  <2>1. Append(approvedStakingContracts[c], d) \in Seq(StakingContracts)
    BY DEF StakingTypeOK
  <2> QED
    BY <1>0, <1>3, <2>1 DEF AddMigrationDestination, StakingTypeOK, switches, managers
<1>4. ASSUME NEW d \in StakingContracts, RemoveMigrationDestination(c, p, d)
      PROVE  StakingTypeOK'
  <2>1. PICK i \in DOMAIN approvedStakingContracts[c] :
          approvedStakingContracts' =
            [approvedStakingContracts EXCEPT ![c] = RemoveAt(@, i)]
    BY <1>4 DEF RemoveMigrationDestination
  <2>2. RemoveAt(approvedStakingContracts[c], i) \in Seq(StakingContracts)
    BY RemoveAtProperties DEF StakingTypeOK
  <2> QED
    BY <1>0, <1>4, <2>1, <2>2 DEF RemoveMigrationDestination, StakingTypeOK, switches, managers
<1>5. ASSUME StopAcceptingNewStakes(c, p)
      PROVE  StakingTypeOK'
  BY <1>0, <1>5 DEF StopAcceptingNewStakes, StakingTypeOK, managers
<1>6. ASSUME ReleaseAllStakes(c, p)
      PROVE  StakingTypeOK'
  BY <1>0, <1>6 DEF ReleaseAllStakes, StakingTypeOK, managers
<1> QED
  BY <1>1, <1>2, <1>3, <1>4, <1>5, <1>6 DEF Manage

(* StakingTypeOK holds in every reachable state.                            *)
THEOREM StakingTypeCorrect == StakingSpec => []StakingTypeOK
<1>1. StakingInit => StakingTypeOK
  BY StakingAssumption DEF StakingInit, StakingTypeOK, StakeData, NoStake, Holder
<1>2. StakingTypeOK /\ [StakingNext]_stakingVars => StakingTypeOK'
  <2> SUFFICES ASSUME StakingTypeOK, [StakingNext]_stakingVars
               PROVE  StakingTypeOK'
    OBVIOUS
  <2>1. CASE BooksTyped' /\ UNCHANGED <<managers, switches, approvedStakingContracts, now>>
    BY <2>1 DEF StakingTypeOK, BooksTyped, managers, switches
  <2>2. ASSUME NEW c \in StakingContracts, NEW p \in Address, MoveStake(c, p)
        PROVE  StakingTypeOK'
    BY <2>1, <2>2, MoveStakeTyped, MoveKeepsManagement
  <2>3. ASSUME NEW c \in StakingContracts, NEW sender \in Address, NEW total \in Amounts,
               NEW reward \in RewardLists, DistributeRewards(c, sender, total, reward)
        PROVE  StakingTypeOK'
    BY <2>1, <2>3, RewardsTyped DEF DistributeRewards
  <2>4. ASSUME NEW c \in StakingContracts, NEW owners \in SUBSET Address,
               WithdrawReleasedStakes(c, owners)
        PROVE  StakingTypeOK'
    BY <2>1, <2>4, BatchTyped DEF WithdrawReleasedStakes
  <2>5. ASSUME NEW from \in Address, NEW to \in Holder, NEW n \in Amounts,
               TokenTransfer(from, to, n)
        PROVE  StakingTypeOK'
    <3>1. from \in Holder /\ n \in Nat
      BY StakingAssumption DEF Holder
    <3>2. balance' \in [Holder -> Nat]
      BY <2>5, <3>1, TransferTyped DEF TokenTransfer
    <3> QED
      BY <2>1, <2>5, <3>2 DEF TokenTransfer, BooksTyped, StakingTypeOK
  <2>6. CASE Tick
    BY <2>6 DEF Tick, StakingTypeOK, books, managers, switches
  <2>7. CASE UNCHANGED stakingVars
    BY <2>7 DEF stakingVars, StakingTypeOK, books, managers, switches
  <2> QED
    BY <2>2, <2>3, <2>4, <2>5, <2>6, <2>7, ManagementTyped DEF StakingNext
<1> QED
  BY <1>1, <1>2, PTL DEF StakingSpec

-----------------------------------------------------------------------------
(* Where a step's effect on the stakes is described pointwise: c and o are  *)
(* the contract and the owner that the step names.                          *)

OthersStay(c, o) ==
  \A e \in StakingContracts, q \in Address : <<e, q>> # <<c, o>> => stakes'[e][q] = stakes[e][q]

LEMMA CreditStakeEffect ==
  ASSUME StakingTypeOK, NEW c \in StakingContracts, NEW o \in Address,
         NEW sender \in Address, NEW n \in Amounts, CreditStake(c, sender, o, n)
  PROVE  /\ OthersStay(c, o)
         /\ stakes'[c][o].amount = stakes[c][o].amount + n
         /\ stakes'[c][o].cooldownAmount = stakes[c][o].cooldownAmount
         /\ stakes'[c][o].cooldownEndTime = stakes[c][o].cooldownEndTime
         /\ n \in Nat
<1>1. stakes' = [stakes EXCEPT ![c][o].amount = @ + n]
  BY DEF CreditStake
<1>2. n \in Nat
  BY StakingAssumption
<1> QED
  BY <1>1, <1>2, StakeTyped DEF OthersStay, StakingTypeOK, StakeData

LEMMA MigrationEffect ==
  ASSUME StakingTypeOK, NEW c \in StakingContracts, NEW o \in Address,
         NEW d \in StakingContracts, NEW n \in Amounts, MigrateStakedTokens(c, o, d, n)
  PROVE  /\ n \in Nat
         /\ \A e \in StakingContracts, q \in Address :
              <<e, q>> \notin {<<c, o>>, <<d, o>>} => stakes'[e][q] = stakes[e][q]
         /\ c = d => stakes'[c][o].amount = stakes[c][o].amount
         /\ c # d => /\ stakes'[c][o].amount = stakes[c][o].amount - n
                     /\ stakes'[d][o].amount = stakes[d][o].amount + n
         /\ stakes'[c][o].cooldownAmount = stakes[c][o].cooldownAmount
         /\ stakes'[d][o].cooldownAmount = stakes[d][o].cooldownAmount
         /\ stakes'[c][o].cooldownEndTime = stakes[c][o].cooldownEndTime
         /\ stakes'[d][o].cooldownEndTime = stakes[d][o].cooldownEndTime
         /\ balance'[o] = balance[o]
<1>1. PICK mid : mid = [stakes EXCEPT ![c][o].amount = @ - n]
  OBVIOUS
<1>2. stakes' = [mid EXCEPT ![d][o].amount = @ + n]
  BY <1>1 DEF MigrateStakedTokens
<1>3. n \in Nat /\ n <= stakes[c][o].amount
  BY StakingAssumption DEF MigrateStakedTokens
<1>4. /\ mid \in [StakingContracts -> [Address -> StakeData]]
      /\ mid[c][o] = [stakes[c][o] EXCEPT !.amount = @ - n]
      /\ \A e \in StakingContracts, q \in Address : <<e, q>> # <<c, o>> => mid[e][q] = stakes[e][q]
  <2>1. [stakes[c][o] EXCEPT !.amount = @ - n] \in StakeData
    BY <1>3, StakeTyped DEF StakeData
  <2> QED
    BY <1>1, <2>1 DEF StakingTypeOK
<1>5. /\ stakes'[d][o] = [mid[d][o] EXCEPT !.amount = @ + n]
      /\ \A e \in StakingContracts, q \in Address : <<e, q>> # <<d, o>> => stakes'[e][q] = mid[e][q]
  BY <1>2, <1>4
<1>6. /\ mid[c][o].amount = stakes[c][o].amount - n
      /\ mid[c][o].cooldownAmount = stakes[c][o].cooldownAmount
      /\ mid[c][o].cooldownEndTime = stakes[c][o].cooldownEndTime
  BY <1>4, StakeTyped DEF StakeData
<1>7. /\ stakes'[d][o].amount = mid[d][o].amount + n
      /\ stakes'[d][o].cooldownAmount = mid[d][o].cooldownAmount
      /\ stakes'[d][o].cooldownEndTime = mid[d][o].cooldownEndTime
  BY <1>4, <1>5 DEF StakeData
<1>8. balance'[o] = balance[o]
  <2>1. o \in Holder /\ o # c /\ o # d
    BY StakingAssumption DEF Holder, Account
  <2> QED
    BY <2>1 DEF MigrateStakedTokens, TransferTokens, StakingTypeOK
<1>9. \A e \in StakingContracts, q \in Address :
        <<e, q>> \notin {<<c, o>>, <<d, o>>} => stakes'[e][q] = stakes[e][q]
  BY <1>4, <1>5
<1>10. CASE c = d
  BY <1>3, <1>6, <1>7, <1>8, <1>9, <1>10, StakeTyped
<1>11. CASE c # d
  <2>1. stakes'[c][o] = mid[c][o] /\ mid[d][o] = stakes[d][o]
    BY <1>4, <1>5, <1>11
  <2> QED
    BY <1>3, <1>6, <1>7, <1>8, <1>9, <1>11, <2>1
<1> QED
  BY <1>10, <1>11

-----------------------------------------------------------------------------
(* A step is the managers', a move of one owner's stake, a distribution, a  *)
(* batch, or leaves the stakes alone; only the first sort touches what is   *)
(* not in the books.                                                        *)
LEMMA StepsOfTheContracts ==
  ASSUME [StakingNext]_stakingVars
  PROVE  \/ \E c \in StakingContracts, p \in Address : Manage(c, p)
         \/ \E c \in StakingContracts, o \in Address : MoveStake(c, o)
         \/ \E c \in StakingContracts, sender \in Address, total \in Amounts, reward \in RewardLists :
              DistributeRewards(c, sender, total, reward)
         \/ \E c \in StakingContracts, owners \in SUBSET Address : WithdrawReleasedStakes(c, owners)
         \/ UNCHANGED <<stakes, switches, approvedStakingContracts>>
  BY DEF StakingNext, TokenTransfer, Tick, stakingVars, books

LEMMA SwitchesAreThrownOnce ==
  ASSUME StakingTypeOK, [StakingNext]_stakingVars, NEW c \in StakingContracts
  PROVE  /\ acceptingNewStakes'[c] => acceptingNewStakes[c]
         /\ releasingAllStakes[c] => releasingAllStakes'[c]
<1>1. CASE UNCHANGED switches
  BY <1>1 DEF switches
<1>2. ASSUME NEW d \in StakingContracts, NEW p \in Address, Manage(d, p)
      PROVE  /\ acceptingNewStakes'[c] => acceptingNewStakes[c]
             /\ releasingAllStakes[c] => releasingAllStakes'[c]
  <2>1. CASE StopAcceptingNewStakes(d, p)
    BY <2>1 DEF StopAcceptingNewStakes, StakingTypeOK
  <2>2. CASE ReleaseAllStakes(d, p)
    BY <2>2 DEF ReleaseAllStakes, StakingTypeOK
  <2> QED
    BY <1>1, <1>2, <2>1, <2>2
       DEF Manage, SetMigrationManager, SetEmergencyManager, AddMigrationDestination,
           RemoveMigrationDestination
<1>3. (\E d \in StakingContracts, p \in Address : Manage(d, p)) \/ UNCHANGED switches
  BY StepsOfTheContracts, MoveKeepsManagement DEF DistributeRewards, WithdrawReleasedStakes
<1> QED
  BY <1>1, <1>2, <1>3

(* None of the ways to add to a stake works in an emergency.                *)
LEMMA NoStakeGrowsInEmergency ==
  ASSUME StakingTypeOK, [StakingNext]_stakingVars,
         NEW c \in StakingContracts, NEW o \in Address, InEmergency(c)
  PROVE  stakes'[c][o].amount <= stakes[c][o].amount
<1>0. stakes[c][o].amount \in Nat
  BY StakeTyped
<1>1. CASE UNCHANGED stakes
  BY <1>0, <1>1
<1>2. ASSUME NEW d \in StakingContracts, NEW q \in Address, MoveStake(d, q)
      PROVE  stakes'[c][o].amount <= stakes[c][o].amount
  <2>1. ASSUME NEW n \in Amounts, NEW sender \in Address, CreditStake(d, sender, q, n), Accepting(d)
        PROVE  stakes'[c][o].amount <= stakes[c][o].amount
    <3>1. c # d
      BY <2>1 DEF Accepting, InEmergency
    <3> QED
      BY <1>0, <2>1, <3>1, CreditStakeEffect DEF OthersStay
  <2>2. ASSUME NEW n \in Amounts, Unstake(d, q, n)
        PROVE  stakes'[c][o].amount <= stakes[c][o].amount
    <3>1. CASE d = c /\ q = o
      <4>1. n \in Nat
        BY StakingAssumption
      <4>2. stakes'[c][o].amount = stakes[c][o].amount - n
        BY <2>2, <3>1 DEF Unstake, StakingTypeOK
      <4> QED
        BY <1>0, <4>1, <4>2
    <3>2. CASE ~(d = c /\ q = o)
      BY <1>0, <2>2, <3>2 DEF Unstake, StakingTypeOK
    <3> QED
      BY <3>1, <3>2
  <2>3. ASSUME NEW e \in StakingContracts, NEW n \in Amounts, MigrateStakedTokens(d, q, e, n)
        PROVE  stakes'[c][o].amount <= stakes[c][o].amount
    <3>1. c # e
      BY <2>3 DEF MigrateStakedTokens, Accepting, InEmergency
    <3>2. CASE d = c /\ q = o
      BY <1>0, <2>3, <3>1, <3>2, MigrationEffect
    <3>3. CASE ~(d = c /\ q = o)
      <4>1. stakes'[c][o] = stakes[c][o]
        BY <2>3, <3>1, <3>3, MigrationEffect
      <4> QED
        BY <1>0, <4>1
    <3> QED
      BY <3>2, <3>3
  <2>4. ASSUME Restake(d, q)
        PROVE  stakes'[c][o].amount <= stakes[c][o].amount
    <3>1. c # d
      BY <2>4 DEF Restake, Accepting, InEmergency
    <3> QED
      BY <1>0, <2>4, <3>1 DEF Restake, StakingTypeOK
  <2>5. ASSUME Withdraw(d, q)
        PROVE  stakes'[c][o].amount <= stakes[c][o].amount
    <3>1. CASE d = c /\ q = o
      <4>1. stakes'[c][o].amount = stakes[c][o].amount - ReleasedStake(c, o)
        BY <2>5, <3>1 DEF Withdraw, AfterWithdrawal, StakingTypeOK
      <4> QED
        BY <1>0, <4>1, WithdrawableTyped
    <3>2. CASE ~(d = c /\ q = o)
      BY <1>0, <2>5, <3>2 DEF Withdraw, StakingTypeOK
    <3> QED
      BY <3>1, <3>2
  <2> QED
    BY <1>2, <2>1, <2>2, <2>3, <2>4, <2>5 DEF MoveStake, Stake, AcceptMigration
<1>3. ASSUME NEW d \in StakingContracts, NEW sender \in Address, NEW total \in Amounts,
             NEW reward \in RewardLists, DistributeRewards(d, sender, total, reward)
      PROVE  stakes'[c][o].amount <= stakes[c][o].amount
  <2>1. c # d
    BY <1>3 DEF DistributeRewards, Accepting, InEmergency
  <2> QED
    BY <1>0, <1>3, <2>1 DEF DistributeRewards, StakingTypeOK
<1>4. ASSUME NEW d \in StakingContracts, NEW owners \in SUBSET Address,
             WithdrawReleasedStakes(d, owners)
      PROVE  stakes'[c][o].amount <= stakes[c][o].amount
  <2>1. CASE d = c /\ o \in owners
    <3>1. stakes'[c][o].amount = stakes[c][o].amount - ReleasedStake(c, o)
      BY <1>4, <2>1 DEF WithdrawReleasedStakes, AfterWithdrawal, StakingTypeOK
    <3> QED
      BY <1>0, <3>1, WithdrawableTyped
  <2>2. CASE ~(d = c /\ o \in owners)
    BY <1>0, <1>4, <2>2 DEF WithdrawReleasedStakes, StakingTypeOK
  <2> QED
    BY <2>1, <2>2
<1> QED
  BY <1>1, <1>2, <1>3, <1>4, StepsOfTheContracts, ManageKeepsBooks DEF books

(* An emergency is final: no stake grows after it and no switch goes back,  *)
(* EmergencyIsFinal.                                                        *)
THEOREM EmergencyStaysFinal == StakingSpec => EmergencyIsFinal
<1>1. ASSUME StakingTypeOK, [StakingNext]_stakingVars, NEW c \in StakingContracts
      PROVE  /\ InEmergency(c) => \A o \in Address : stakes[c][o].amount' <= stakes[c][o].amount
             /\ InEmergency(c) => InEmergency(c)'
             /\ releasingAllStakes[c] => releasingAllStakes[c]'
  BY <1>1, SwitchesAreThrownOnce, NoStakeGrowsInEmergency DEF InEmergency
<1>2. StakingTypeOK /\ [StakingNext]_stakingVars =>
        [\A c \in StakingContracts :
           /\ InEmergency(c) => \A o \in Address : stakes[c][o].amount' <= stakes[c][o].amount
           /\ InEmergency(c) => InEmergency(c)'
           /\ releasingAllStakes[c] => releasingAllStakes[c]'
        ]_stakingVars
  BY <1>1
<1> QED
  BY <1>2, StakingTypeCorrect, PTL DEF StakingSpec, EmergencyIsFinal

-----------------------------------------------------------------------------
(* The two ways for tokens to leave an owner's stake in a contract.         *)
LeavesOnlyToOwner(c, o) ==
  Held(c, o)' < Held(c, o) =>
    \/ balance[o]' - balance[o] = Held(c, o) - Held(c, o)'
    \/ /\ balance[o]' = balance[o]
       /\ \E d \in StakingContracts \ {c} :
            Held(d, o)' - Held(d, o) = Held(c, o) - Held(c, o)'

LEMMA HeldTyped ==
  ASSUME StakingTypeOK, NEW c \in StakingContracts, NEW o \in Address
  PROVE  Held(c, o) \in Nat
  BY StakeTyped DEF Held

(* A payment out of a contract raises the owner's balance by as much.       *)
LEMMA PaidOut ==
  ASSUME StakingTypeOK, NEW c \in StakingContracts, NEW o \in Address, NEW n \in Nat,
         TransferTokens(c, o, n)
  PROVE  balance'[o] - balance[o] = n
<1>1. o \in Holder /\ c \in Holder /\ o # c
  BY StakingAssumption DEF Holder, Account
<1> QED
  BY <1>1 DEF TransferTokens, StakingTypeOK

(* What a withdrawal takes from a stake is what it pays.                    *)
LEMMA WithdrawalEffect ==
  ASSUME StakingTypeOK, NEW c \in StakingContracts, NEW o \in Address,
         stakes'[c][o] = AfterWithdrawal(c, o)
  PROVE  Held(c, o) - Held(c, o)' = Withdrawable(c, o)
<1>1. Held(c, o)' = stakes[c][o].amount - ReleasedStake(c, o)
  BY StakeTyped, WithdrawableTyped DEF Held, AfterWithdrawal
<1> QED
  BY <1>1, StakeTyped, WithdrawableTyped DEF Held, Withdrawable

LEMMA MovesLeaveOnlyToOwner ==
  ASSUME StakingTypeOK, NEW c \in StakingContracts, NEW o \in Address,
         NEW d \in StakingContracts, NEW q \in Address, MoveStake(d, q)
  PROVE  LeavesOnlyToOwner(c, o)
<1>0. Held(c, o) \in Nat
  BY HeldTyped
<1>k. ASSUME stakes'[c][o] = stakes[c][o]
      PROVE  LeavesOnlyToOwner(c, o)
  BY <1>0, <1>k DEF LeavesOnlyToOwner, Held
<1>1. ASSUME NEW n \in Amounts, NEW sender \in Address, CreditStake(d, sender, q, n)
      PROVE  LeavesOnlyToOwner(c, o)
  <2>1. CASE d = c /\ q = o
    BY <1>0, <1>1, <2>1, CreditStakeEffect, StakeTyped DEF LeavesOnlyToOwner, Held
  <2>2. CASE ~(d = c /\ q = o)
    BY <1>1, <1>k, <2>2, CreditStakeEffect DEF OthersStay
  <2> QED
    BY <2>1, <2>2
<1>2. ASSUME NEW n \in Amounts, Unstake(d, q, n)
      PROVE  LeavesOnlyToOwner(c, o)
  <2>1. CASE d = c /\ q = o
    <3>1. /\ n \in Nat
          /\ stakes'[c][o].amount = stakes[c][o].amount - n
          /\ stakes'[c][o].cooldownAmount = stakes[c][o].cooldownAmount + n
      BY <1>2, <2>1, StakingAssumption DEF Unstake, StakingTypeOK
    <3> QED
      BY <3>1, StakeTyped DEF LeavesOnlyToOwner, Held
  <2>2. CASE ~(d = c /\ q = o)
    BY <1>2, <1>k, <2>2 DEF Unstake, StakingTypeOK
  <2> QED
    BY <2>1, <2>2
<1>3. ASSUME NEW e \in StakingContracts, NEW n \in Amounts, MigrateStakedTokens(d, q, e, n)
      PROVE  LeavesOnlyToOwner(c, o)
  <2>1. CASE q = o /\ d = c /\ e # c
    <3>1. /\ n \in Nat
          /\ Held(c, o)' = Held(c, o) - n
          /\ Held(e, o)' = Held(e, o) + n
          /\ balance'[o] = balance[o]
      BY <1>3, <2>1, MigrationEffect, StakeTyped DEF Held
    <3> QED
      BY <1>0, <2>1, <3>1, HeldTyped DEF LeavesOnlyToOwner
  <2>2. CASE q = o /\ d = c /\ e = c
    BY <1>0, <1>3, <2>2, MigrationEffect DEF LeavesOnlyToOwner, Held
  <2>3. CASE q = o /\ d # c /\ e = c
    BY <1>0, <1>3, <2>3, MigrationEffect, StakeTyped DEF LeavesOnlyToOwner, Held
  <2>4. CASE q # o \/ (d # c /\ e # c)
    BY <1>3, <1>k, <2>4, MigrationEffect
  <2> QED
    BY <2>1, <2>2, <2>3, <2>4
<1>4. ASSUME Restake(d, q)
      PROVE  LeavesOnlyToOwner(c, o)
  <2>1. CASE d = c /\ q = o
    <3>1. /\ stakes'[c][o].amount = stakes[c][o].amount + stakes[c][o].cooldownAmount
          /\ stakes'[c][o].cooldownAmount = 0
      BY <1>4, <2>1 DEF Restake, StakingTypeOK
    <3> QED
      BY <3>1, StakeTyped DEF LeavesOnlyToOwner, Held
  <2>2. CASE ~(d = c /\ q = o)
    BY <1>4, <1>k, <2>2 DEF Restake, StakingTypeOK
  <2> QED
    BY <2>1, <2>2
<1>5. ASSUME Withdraw(d, q)
      PROVE  LeavesOnlyToOwner(c, o)
  <2>1. CASE d = c /\ q = o
    <3>1. Held(c, o) - Held(c, o)' = Withdrawable(c, o)
      BY <1>5, <2>1, WithdrawalEffect DEF Withdraw, StakingTypeOK
    <3>2. balance'[o] - balance[o] = Withdrawable(c, o)
      BY <1>5, <2>1, PaidOut, WithdrawableTyped DEF Withdraw
    <3> QED
      BY <3>1, <3>2 DEF LeavesOnlyToOwner
  <2>2. CASE ~(d = c /\ q = o)
    BY <1>5, <1>k, <2>2 DEF Withdraw, StakingTypeOK
  <2> QED
    BY <2>1, <2>2
<1> QED
  BY <1>1, <1>2, <1>3, <1>4, <1>5 DEF MoveStake, Stake, AcceptMigration

(* Every withdrawal and every migration hands an owner exactly what it      *)
(* takes from the owner's stake: StakeLeavesOnlyToItsOwner.                 *)
THEOREM StakeAlwaysLeavesToItsOwner == StakingSpec => StakeLeavesOnlyToItsOwner
<1>1. ASSUME StakingTypeOK, [StakingNext]_stakingVars,
             NEW c \in StakingContracts, NEW o \in Address
      PROVE  LeavesOnlyToOwner(c, o)
  <2>0. Held(c, o) \in Nat
    BY <1>1, HeldTyped
  <2>k. ASSUME stakes'[c][o] = stakes[c][o]
        PROVE  LeavesOnlyToOwner(c, o)
    BY <2>0, <2>k DEF LeavesOnlyToOwner, Held
  <2>1. ASSUME NEW d \in StakingContracts, NEW sender \in Address, NEW total \in Amounts,
               NEW reward \in RewardLists, DistributeRewards(d, sender, total, reward)
        PROVE  LeavesOnlyToOwner(c, o)
    <3>1. CASE d = c /\ o \in DOMAIN reward
      <4>1. PICK owners \in SUBSET Address : reward \in [owners -> Amounts]
        BY DEF RewardLists
      <4>2. reward[o] \in Nat
        BY <3>1, <4>1, StakingAssumption
      <4>3. stakes'[c][o] = [stakes[c][o] EXCEPT !.amount = @ + reward[o]]
        BY <1>1, <2>1, <3>1 DEF DistributeRewards, StakingTypeOK
      <4>4. /\ stakes'[c][o].amount = stakes[c][o].amount + reward[o]
            /\ stakes'[c][o].cooldownAmount = stakes[c][o].cooldownAmount
        BY <1>1, <4>3, StakeTyped DEF StakeData
      <4> QED
        BY <1>1, <4>2, <4>4, StakeTyped DEF LeavesOnlyToOwner, Held
    <3>2. CASE ~(d = c /\ o \in DOMAIN reward)
      BY <1>1, <2>1, <2>k, <3>2 DEF DistributeRewards, StakingTypeOK
    <3> QED
      BY <3>1, <3>2
  <2>2. ASSUME NEW d \in StakingContracts, NEW owners \in SUBSET Address,
               WithdrawReleasedStakes(d, owners)
        PROVE  LeavesOnlyToOwner(c, o)
    <3>1. CASE d = c /\ o \in owners
      <4>1. Held(c, o) - Held(c, o)' = Withdrawable(c, o)
        BY <1>1, <2>2, <3>1, WithdrawalEffect DEF WithdrawReleasedStakes, StakingTypeOK
      <4>2. balance'[o] = balance[o] + Withdrawable(c, o)
        <5>1. o \in Holder /\ o # c
          BY StakingAssumption DEF Holder, Account
        <5> QED
          BY <2>2, <3>1, <5>1 DEF WithdrawReleasedStakes
      <4>3. balance[o] \in Nat /\ Withdrawable(c, o) \in Nat
        BY <1>1, WithdrawableTyped DEF StakingTypeOK, Holder
      <4> QED
        BY <4>1, <4>2, <4>3 DEF LeavesOnlyToOwner
    <3>2. CASE ~(d = c /\ o \in owners)
      BY <1>1, <2>2, <2>k, <3>2 DEF WithdrawReleasedStakes, StakingTypeOK
    <3> QED
      BY <3>1, <3>2
  <2>3. CASE UNCHANGED stakes
    BY <2>3, <2>k
  <2> QED
    BY <1>1, <2>1, <2>2, <2>3, StepsOfTheContracts, MovesLeaveOnlyToOwner, ManageKeepsBooks DEF books
<1>2. StakingTypeOK /\ [StakingNext]_stakingVars =>
        [\A c \in StakingContracts, o \in Address :
           Held(c, o)' < Held(c, o) =>
             \/ balance[o]' - balance[o] = Held(c, o) - Held(c, o)'
             \/ /\ balance[o]' = balance[o]
                /\ \E d \in StakingContracts \ {c} :
                     Held(d, o)' - Held(d, o) = Held(c, o) - Held(c, o)'
        ]_stakingVars
  BY <1>1 DEF LeavesOnlyToOwner
<1> QED
  BY <1>2, StakingTypeCorrect, PTL DEF StakingSpec, StakeLeavesOnlyToItsOwner

-----------------------------------------------------------------------------
(* A list of destinations within its limit and free of duplicates.          *)
ListedOnce(list) ==
  /\ Len(list) <= MaxApprovedStakingContracts
  /\ \A i, j \in DOMAIN list : list[i] = list[j] => i = j

LEMMA AppendKeepsListedOnce ==
  ASSUME NEW list \in Seq(StakingContracts), NEW d \in StakingContracts, ListedOnce(list),
         Len(list) + 1 <= MaxApprovedStakingContracts,
         \A i \in DOMAIN list : list[i] # d
  PROVE  ListedOnce(Append(list, d))
<1>1. PICK longer : longer = Append(list, d)
  OBVIOUS
<1>2. /\ Len(longer) = Len(list) + 1
      /\ DOMAIN longer = 1 .. Len(list) + 1
      /\ \A i \in 1 .. Len(list) : longer[i] = list[i]
      /\ longer[Len(list) + 1] = d
  BY <1>1
<1>3. ASSUME NEW i \in DOMAIN longer, NEW j \in DOMAIN longer, longer[i] = longer[j]
      PROVE  i = j
  <2>1. DOMAIN list = 1 .. Len(list) /\ Len(list) \in Nat
    OBVIOUS
  <2>2. CASE i \in DOMAIN list /\ j \in DOMAIN list
    BY <1>2, <1>3, <2>1, <2>2 DEF ListedOnce
  <2>3. CASE i = Len(list) + 1 \/ j = Len(list) + 1
    BY <1>2, <1>3, <2>1, <2>3
  <2> QED
    BY <1>2, <1>3, <2>1, <2>2, <2>3
<1> QED
  BY <1>1, <1>2, <1>3 DEF ListedOnce

LEMMA RemoveAtKeepsListedOnce ==
  ASSUME NEW list \in Seq(StakingContracts), NEW k \in DOMAIN list, ListedOnce(list)
  PROVE  ListedOnce(RemoveAt(list, k))
<1>1. PICK shorter : shorter = RemoveAt(list, k)
  OBVIOUS
<1>2. /\ shorter \in Seq(StakingContracts)
      /\ Len(shorter) = Len(list) - 1
      /\ \A j \in 1 .. Len(list) - 1 : shorter[j] = IF j < k THEN list[j] ELSE list[j + 1]
  BY <1>1, RemoveAtProperties
<1>3. DOMAIN list = 1 .. Len(list) /\ Len(list) \in Nat /\ k \in 1 .. Len(list)
  OBVIOUS
<1>4. DOMAIN shorter = 1 .. Len(list) - 1
  BY <1>2
<1>5. ASSUME NEW i \in DOMAIN shorter, NEW j \in DOMAIN shorter, shorter[i] = shorter[j]
      PROVE  i = j
  <2>1. PICK m \in DOMAIN list : shorter[i] = list[m] /\ m = (IF i < k THEN i ELSE i + 1)
    BY <1>2, <1>3, <1>4
  <2>2. PICK n \in DOMAIN list : shorter[j] = list[n] /\ n = (IF j < k THEN j ELSE j + 1)
    BY <1>2, <1>3, <1>4
  <2>3. m = n
    BY <1>5, <2>1, <2>2 DEF ListedOnce
  <2> QED
    BY <1>3, <1>4, <2>1, <2>2, <2>3
<1> QED
  BY <1>1, <1>2, <1>3, <1>5, StakingAssumption DEF ListedOnce

(* Destinations are never listed twice nor beyond the limit.                *)
THEOREM DestinationsAlwaysListedOnce == StakingSpec => []DestinationsListedOnce
<1>1. StakingInit => DestinationsListedOnce
  BY StakingAssumption DEF StakingInit, DestinationsListedOnce
<1>2. StakingTypeOK /\ DestinationsListedOnce /\ [StakingNext]_stakingVars => DestinationsListedOnce'
  <2> SUFFICES ASSUME StakingTypeOK, [StakingNext]_stakingVars,
                      \A c \in StakingContracts : ListedOnce(approvedStakingContracts[c]),
                      NEW c \in StakingContracts
               PROVE  ListedOnce(approvedStakingContracts'[c])
    BY DEF DestinationsListedOnce, ListedOnce
  <2>1. CASE UNCHANGED approvedStakingContracts
    BY <2>1
  <2>2. ASSUME NEW e \in StakingContracts, NEW p \in Address, NEW d \in StakingContracts,
               AddMigrationDestination(e, p, d)
        PROVE  ListedOnce(approvedStakingContracts'[c])
    <3>1. ListedOnce(Append(approvedStakingContracts[e], d))
      BY <2>2, AppendKeepsListedOnce DEF AddMigrationDestination, IsApproved, StakingTypeOK
    <3> QED
      BY <2>2, <3>1 DEF AddMigrationDestination, StakingTypeOK
  <2>3. ASSUME NEW e \in StakingContracts, NEW p \in Address, NEW d \in StakingContracts,
               RemoveMigrationDestination(e, p, d)
        PROVE  ListedOnce(approvedStakingContracts'[c])
    <3>1. PICK k \in DOMAIN approvedStakingContracts[e] :
            approvedStakingContracts' = [approvedStakingContracts EXCEPT ![e] = RemoveAt(@, k)]
      BY <2>3 DEF RemoveMigrationDestination
    <3>2. ListedOnce(RemoveAt(approvedStakingContracts[e], k))
      BY RemoveAtKeepsListedOnce DEF StakingTypeOK
    <3> QED
      BY <3>1, <3>2 DEF StakingTypeOK
  <2>4. ASSUME NEW e \in StakingContracts, NEW p \in Address, Manage(e, p)
        PROVE  ListedOnce(approvedStakingContracts'[c])
    BY <2>1, <2>2, <2>3, <2>4
       DEF Manage, SetMigrationManager, SetEmergencyManager, StopAcceptingNewStakes, ReleaseAllStakes
  <2> QED
    BY <2>1, <2>4, StepsOfTheContracts, MoveKeepsManagement
       DEF DistributeRewards, WithdrawReleasedStakes
<1> QED
  BY <1>1, <1>2, StakingTypeCorrect, PTL DEF StakingSpec

-----------------------------------------------------------------------------
(* The books: sums of what the owners have in a contract.                   *)

AmountsIn(c) == [o \in Address |-> stakes[c][o].amount]
HoldingsIn(c) == [o \in Address |-> Held(c, o)]

Balanced(c) ==
  /\ totalStakedTokens[c] = SumFunctionOnSet(AmountsIn(c), Address)
  /\ balance[c] >= SumFunctionOnSet(HoldingsIn(c), Address)

LEMMA BooksBalanceIsBalanced ==
  /\ BooksBalance <=> \A c \in StakingContracts : Balanced(c)
  /\ BooksBalance' <=> \A c \in StakingContracts : Balanced(c)'
<1>1. \A c : /\ DOMAIN AmountsIn(c) = Address /\ DOMAIN HoldingsIn(c) = Address
             /\ DOMAIN AmountsIn(c)' = Address /\ DOMAIN HoldingsIn(c)' = Address
  BY DEF AmountsIn, HoldingsIn
<1>2. \A c : /\ SumFunction(AmountsIn(c)) = SumFunctionOnSet(AmountsIn(c), Address)
             /\ SumFunction(HoldingsIn(c)) = SumFunctionOnSet(HoldingsIn(c), Address)
             /\ SumFunction(AmountsIn(c)') = SumFunctionOnSet(AmountsIn(c)', Address)
             /\ SumFunction(HoldingsIn(c)') = SumFunctionOnSet(HoldingsIn(c)', Address)
  BY <1>1, SumOfFunction
<1>3. \A c : TotalHeld(c) = SumFunction(HoldingsIn(c)) /\ TotalHeld(c)' = SumFunction(HoldingsIn(c)')
  BY DEF TotalHeld, HoldingsIn
<1>4. \A c : /\ SumFunction([o \in Address |-> stakes[c][o].amount]) = SumFunction(AmountsIn(c))
             /\ SumFunction([o \in Address |-> stakes'[c][o].amount]) = SumFunction(AmountsIn(c)')
  BY DEF AmountsIn
<1>5. BooksBalance <=> \A c \in StakingContracts : Balanced(c)
  BY <1>2, <1>3, <1>4 DEF BooksBalance, Balanced
<1>6. BooksBalance' <=> \A c \in StakingContracts : Balanced(c)'
  BY <1>2, <1>3, <1>4 DEF BooksBalance, Balanced
<1> QED
  BY <1>5, <1>6

LEMMA BooksAreNumbers ==
  ASSUME StakingTypeOK, NEW c \in StakingContracts
  PROVE  /\ \A o \in Address : AmountsIn(c)[o] \in Nat /\ HoldingsIn(c)[o] \in Nat
         /\ SumFunctionOnSet(AmountsIn(c), Address) \in Nat
         /\ SumFunctionOnSet(HoldingsIn(c), Address) \in Nat
<1>1. \A o \in Address : AmountsIn(c)[o] \in Nat /\ HoldingsIn(c)[o] \in Nat
  BY StakeTyped, HeldTyped DEF AmountsIn, HoldingsIn
<1> QED
  BY <1>1, SumType, AddressAssumption

(* The stakes of the owners in D change by what staked and kept say.        *)
ChangeBy(c, D, staked, kept) ==
  /\ \A o \in D : /\ staked[o] \in Int
                  /\ kept[o] \in Int
                  /\ stakes'[c][o].amount = stakes[c][o].amount + staked[o]
                  /\ Held(c, o)' = Held(c, o) + kept[o]
  /\ \A o \in Address \ D : stakes'[c][o] = stakes[c][o]

LEMMA SumsChangeBy ==
  ASSUME StakingTypeOK, NEW c \in StakingContracts, NEW D \in SUBSET Address,
         NEW staked, NEW kept, ChangeBy(c, D, staked, kept)
  PROVE  /\ SumFunctionOnSet(AmountsIn(c)', Address) =
              SumFunctionOnSet(AmountsIn(c), Address) + SumFunctionOnSet(staked, D)
         /\ SumFunctionOnSet(HoldingsIn(c)', Address) =
              SumFunctionOnSet(HoldingsIn(c), Address) + SumFunctionOnSet(kept, D)
<1>1. \A o \in D : /\ staked[o] \in Int /\ AmountsIn(c)'[o] = AmountsIn(c)[o] + staked[o]
                   /\ kept[o] \in Int /\ HoldingsIn(c)'[o] = HoldingsIn(c)[o] + kept[o]
  BY DEF ChangeBy, AmountsIn, HoldingsIn
<1>2. \A o \in Address \ D : /\ AmountsIn(c)'[o] = AmountsIn(c)[o]
                             /\ HoldingsIn(c)'[o] = HoldingsIn(c)[o]
  BY DEF ChangeBy, AmountsIn, HoldingsIn, Held
<1>3. \A o \in Address : AmountsIn(c)[o] \in Int /\ HoldingsIn(c)[o] \in Int
  BY BooksAreNumbers
<1>4. SumFunctionOnSet(AmountsIn(c)', Address) =
        SumFunctionOnSet(AmountsIn(c), Address) + SumFunctionOnSet(staked, D)
  BY <1>1, <1>2, <1>3, SumChangeOn, AddressAssumption
<1>5. SumFunctionOnSet(HoldingsIn(c)', Address) =
        SumFunctionOnSet(HoldingsIn(c), Address) + SumFunctionOnSet(kept, D)
  BY <1>1, <1>2, <1>3, SumChangeOn, AddressAssumption
<1> QED
  BY <1>4, <1>5

(* What the books do in a step: the total moves with the stakes, and the    *)
(* tokens with the holdings, but for a gift.                                *)
Surplus(c) == balance[c] - SumFunctionOnSet(HoldingsIn(c), Address)

Together(c, gift) ==
  /\ totalStakedTokens'[c] - SumFunctionOnSet(AmountsIn(c)', Address) =
       totalStakedTokens[c] - SumFunctionOnSet(AmountsIn(c), Address)
  /\ Surplus(c)' = Surplus(c) + gift

LEMMA BalancedTogether ==
  ASSUME StakingTypeOK, StakingTypeOK', NEW c \in StakingContracts, Balanced(c),
         NEW gift \in Nat, Together(c, gift)
  PROVE  Balanced(c)'
<1>1. /\ SumFunctionOnSet(AmountsIn(c), Address) \in Nat
      /\ SumFunctionOnSet(HoldingsIn(c), Address) \in Nat
      /\ balance[c] \in Nat /\ totalStakedTokens[c] \in Nat
  BY BooksAreNumbers DEF StakingTypeOK, Holder
<1>2. /\ SumFunctionOnSet(AmountsIn(c)', Address) \in Nat
      /\ SumFunctionOnSet(HoldingsIn(c)', Address) \in Nat
      /\ balance'[c] \in Nat /\ totalStakedTokens'[c] \in Nat
  <2>1. \A o \in Address : AmountsIn(c)'[o] \in Nat /\ HoldingsIn(c)'[o] \in Nat
    BY DEF AmountsIn, HoldingsIn, Held, StakingTypeOK, StakeData
  <2> QED
    BY <2>1, SumType, AddressAssumption DEF StakingTypeOK, Holder
<1>3. totalStakedTokens'[c] = SumFunctionOnSet(AmountsIn(c)', Address)
  <2>1. /\ totalStakedTokens[c] = SumFunctionOnSet(AmountsIn(c), Address)
        /\ totalStakedTokens'[c] - SumFunctionOnSet(AmountsIn(c)', Address) =
             totalStakedTokens[c] - SumFunctionOnSet(AmountsIn(c), Address)
    BY DEF Balanced, Together
  <2> QED
    BY ONLY <1>1, <1>2, <2>1
<1>4. balance'[c] >= SumFunctionOnSet(HoldingsIn(c)', Address)
  <2>1. /\ balance[c] >= SumFunctionOnSet(HoldingsIn(c), Address)
        /\ balance'[c] - SumFunctionOnSet(HoldingsIn(c)', Address) =
             (balance[c] - SumFunctionOnSet(HoldingsIn(c), Address)) + gift
    BY DEF Balanced, Together, Surplus
  <2> QED
    BY ONLY <1>1, <1>2, <2>1, gift \in Nat
<1> QED
  BY <1>3, <1>4 DEF Balanced

LEMMA TogetherAfterwards ==
  ASSUME StakingTypeOK, NEW c \in StakingContracts, NEW D \in SUBSET Address,
         NEW staked, NEW kept, ChangeBy(c, D, staked, kept), NEW gift \in Int,
         totalStakedTokens'[c] = totalStakedTokens[c] + SumFunctionOnSet(staked, D),
         balance'[c] = balance[c] + (SumFunctionOnSet(kept, D) + gift)
  PROVE  Together(c, gift)
<1>1. /\ SumFunctionOnSet(AmountsIn(c), Address) \in Nat
      /\ SumFunctionOnSet(HoldingsIn(c), Address) \in Nat
      /\ balance[c] \in Nat /\ totalStakedTokens[c] \in Nat
  BY BooksAreNumbers DEF StakingTypeOK, Holder
<1>2. SumFunctionOnSet(staked, D) \in Int /\ SumFunctionOnSet(kept, D) \in Int
  BY SumType, FS_Subset, AddressAssumption DEF ChangeBy
<1>3. /\ SumFunctionOnSet(AmountsIn(c)', Address) =
           SumFunctionOnSet(AmountsIn(c), Address) + SumFunctionOnSet(staked, D)
      /\ SumFunctionOnSet(HoldingsIn(c)', Address) =
           SumFunctionOnSet(HoldingsIn(c), Address) + SumFunctionOnSet(kept, D)
  BY SumsChangeBy
<1>4. /\ SumFunctionOnSet(AmountsIn(c)', Address) \in Int
      /\ SumFunctionOnSet(HoldingsIn(c)', Address) \in Int
  BY <1>1, <1>2, <1>3
<1>5. totalStakedTokens'[c] - SumFunctionOnSet(AmountsIn(c)', Address) =
        totalStakedTokens[c] - SumFunctionOnSet(AmountsIn(c), Address)
  BY ONLY <1>1, <1>2, <1>3,
          totalStakedTokens'[c] = totalStakedTokens[c] + SumFunctionOnSet(staked, D)
<1>6. balance'[c] - SumFunctionOnSet(HoldingsIn(c)', Address) =
        (balance[c] - SumFunctionOnSet(HoldingsIn(c), Address)) + gift
  BY ONLY <1>1, <1>2, <1>3, gift \in Int,
          balance'[c] = balance[c] + (SumFunctionOnSet(kept, D) + gift)
<1> QED
  BY <1>5, <1>6 DEF Together, Surplus

(* The same for the stake of one owner, and for a contract left alone.      *)
LEMMA TogetherAfterOne ==
  ASSUME StakingTypeOK, NEW c \in StakingContracts, NEW o \in Address,
         NEW staked \in Int, NEW gain \in Int,
         stakes'[c][o].amount = stakes[c][o].amount + staked,
         Held(c, o)' = Held(c, o) + gain,
         \A q \in Address \ {o} : stakes'[c][q] = stakes[c][q],
         totalStakedTokens'[c] = totalStakedTokens[c] + staked,
         balance'[c] = balance[c] + gain
  PROVE  Together(c, 0)
<1>1. PICK s, h : s = [q \in {o} |-> staked] /\ h = [q \in {o} |-> gain]
  OBVIOUS
<1>2. ChangeBy(c, {o}, s, h)
  BY <1>1 DEF ChangeBy
<1>3. SumFunctionOnSet(s, {o}) = staked /\ SumFunctionOnSet(h, {o}) = gain
  BY <1>1, SumSingleton
<1>4. /\ balance'[c] = balance[c] + (SumFunctionOnSet(h, {o}) + 0)
      /\ totalStakedTokens'[c] = totalStakedTokens[c] + SumFunctionOnSet(s, {o})
  BY <1>3
<1>5. {o} \in SUBSET Address
  OBVIOUS
<1> QED
  BY <1>2, <1>4, <1>5, TogetherAfterwards

LEMMA TogetherUntouched ==
  ASSUME StakingTypeOK, NEW c \in StakingContracts,
         \A q \in Address : stakes'[c][q] = stakes[c][q],
         totalStakedTokens'[c] = totalStakedTokens[c],
         NEW gift \in Nat, balance'[c] = balance[c] + gift
  PROVE  Together(c, gift)
<1>1. \A s : ChangeBy(c, {}, s, s) /\ SumFunctionOnSet(s, {}) = 0
  BY SumEmpty DEF ChangeBy
<1>2. totalStakedTokens[c] \in Nat
  BY DEF StakingTypeOK
<1>3. PICK s : ChangeBy(c, {}, s, s) /\ SumFunctionOnSet(s, {}) = 0
  BY <1>1
<1>4. /\ totalStakedTokens'[c] = totalStakedTokens[c] + SumFunctionOnSet(s, {})
      /\ balance'[c] = balance[c] + (SumFunctionOnSet(s, {}) + gift)
  BY <1>2, <1>3
<1> QED
  BY <1>3, <1>4, TogetherAfterwards

(* What a transfer does to the contracts' balances.                         *)
LEMMA PaidIn ==
  ASSUME StakingTypeOK, NEW sender \in Address, NEW to \in Holder, NEW n \in Nat,
         TransferTokens(sender, to, n), NEW c \in StakingContracts
  PROVE  balance'[c] = balance[c] + (IF c = to THEN n ELSE 0)
<1>1. c \in Holder /\ sender \in Holder /\ c # sender /\ balance[c] \in Nat
  BY StakingAssumption DEF Holder, Account, StakingTypeOK
<1> QED
  BY <1>1 DEF TransferTokens, StakingTypeOK

LEMMA PaidFrom ==
  ASSUME StakingTypeOK, NEW d \in StakingContracts, NEW to \in Address, NEW n \in Nat,
         TransferTokens(d, to, n), NEW c \in StakingContracts
  PROVE  balance'[c] = balance[c] + (IF c = d THEN -n ELSE 0)
<1>1. c \in Holder /\ to \in Holder /\ c # to /\ d \in Holder /\ balance[c] \in Nat
  BY StakingAssumption DEF Holder, Account, StakingTypeOK
<1> QED
  BY <1>1 DEF TransferTokens, StakingTypeOK

(* One owner's move: which contract's books change, and by how much.        *)
LEMMA MoveKeepsTogether ==
  ASSUME StakingTypeOK, NEW d \in StakingContracts, NEW o \in Address, MoveStake(d, o),
         NEW c \in StakingContracts
  PROVE  Together(c, 0)
<1>t. /\ stakes[c] \in [Address -> StakeData] /\ totalStakedTokens[c] \in Nat /\ balance[c] \in Nat
      /\ stakes[d] \in [Address -> StakeData] /\ d \in Holder
  BY DEF StakingTypeOK, Holder
<1>s. \A e \in StakingContracts : /\ stakes[e][o].amount \in Nat
                                  /\ stakes[e][o].cooldownAmount \in Nat
  BY StakeTyped
<1>k. ASSUME \A q \in Address : stakes'[c][q] = stakes[c][q],
             totalStakedTokens'[c] = totalStakedTokens[c], balance'[c] = balance[c]
      PROVE  Together(c, 0)
  <2>1. balance'[c] = balance[c] + 0
    BY <1>t, <1>k
  <2> QED
    BY <1>k, <2>1, TogetherUntouched
<1>1. ASSUME NEW n \in Amounts, NEW sender \in Address, CreditStake(d, sender, o, n)
      PROVE  Together(c, 0)
  <2>1. /\ OthersStay(d, o)
        /\ stakes'[d][o].amount = stakes[d][o].amount + n
        /\ stakes'[d][o].cooldownAmount = stakes[d][o].cooldownAmount
        /\ n \in Nat
    BY <1>1, CreditStakeEffect
  <2>2. balance'[c] = balance[c] + (IF c = d THEN n ELSE 0)
    BY <1>1, <1>t, <2>1, PaidIn DEF CreditStake
  <2>3. totalStakedTokens'[c] = totalStakedTokens[c] + (IF c = d THEN n ELSE 0)
    BY <1>1, <1>t, <2>1 DEF CreditStake, StakingTypeOK
  <2>4. CASE c = d
    <3>1. Held(c, o)' = Held(c, o) + n
      BY <1>s, <2>1, <2>4 DEF Held
    <3>2. \A q \in Address \ {o} : stakes'[c][q] = stakes[c][q]
      BY <2>1, <2>4 DEF OthersStay
    <3> QED
      BY <2>1, <2>2, <2>3, <2>4, <3>1, <3>2, TogetherAfterOne
  <2>5. CASE c # d
    BY <1>k, <1>t, <2>1, <2>2, <2>3, <2>5 DEF OthersStay
  <2> QED
    BY <2>4, <2>5
<1>2. ASSUME NEW n \in Amounts, Unstake(d, o, n)
      PROVE  Together(c, 0)
  <2>0. n \in Nat
    BY StakingAssumption
  <2>1. CASE c = d
    <3>1. /\ stakes'[c][o].amount = stakes[c][o].amount + (-n)
          /\ stakes'[c][o].cooldownAmount = stakes[c][o].cooldownAmount + n
          /\ \A q \in Address \ {o} : stakes'[c][q] = stakes[c][q]
      BY <1>2, <1>s, <2>0, <2>1 DEF Unstake, StakingTypeOK
    <3>2. Held(c, o)' = Held(c, o) + 0
      BY <1>s, <2>0, <3>1 DEF Held
    <3>3. totalStakedTokens'[c] = totalStakedTokens[c] + (-n) /\ balance'[c] = balance[c] + 0
      BY <1>2, <1>t, <2>0, <2>1 DEF Unstake, ReduceTotal, StakingTypeOK
    <3>4. -n \in Int /\ 0 \in Int
      BY <2>0
    <3> QED
      BY <3>1, <3>2, <3>3, <3>4, TogetherAfterOne
  <2>2. CASE c # d
    BY <1>2, <1>k, <2>2 DEF Unstake, ReduceTotal, StakingTypeOK
  <2> QED
    BY <2>1, <2>2
<1>3. ASSUME NEW e \in StakingContracts, NEW n \in Amounts, MigrateStakedTokens(d, o, e, n)
      PROVE  Together(c, 0)
  <2>1. /\ n \in Nat
        /\ \A a \in StakingContracts, q \in Address :
             <<a, q>> \notin {<<d, o>>, <<e, o>>} => stakes'[a][q] = stakes[a][q]
        /\ d = e => stakes'[d][o].amount = stakes[d][o].amount
        /\ d # e => /\ stakes'[d][o].amount = stakes[d][o].amount - n
                    /\ stakes'[e][o].amount = stakes[e][o].amount + n
        /\ stakes'[d][o].cooldownAmount = stakes[d][o].cooldownAmount
        /\ stakes'[e][o].cooldownAmount = stakes[e][o].cooldownAmount
    BY <1>3, MigrationEffect
  <2>2. PICK change : change = (IF d = e THEN 0 ELSE IF c = d THEN -n ELSE IF c = e THEN n ELSE 0)
    OBVIOUS
  <2>3. change \in Int
    BY <2>1, <2>2
  <2>4. totalStakedTokens'[c] = totalStakedTokens[c] + change
    <3>1. PICK mid : mid = [totalStakedTokens EXCEPT ![d] = @ - n]
      OBVIOUS
    <3>2. totalStakedTokens' = [mid EXCEPT ![e] = @ + n] /\ n <= totalStakedTokens[d]
      BY <1>3, <3>1 DEF MigrateStakedTokens
    <3>3. mid \in [StakingContracts -> Int] /\ totalStakedTokens \in [StakingContracts -> Nat]
      BY <2>1, <3>1 DEF StakingTypeOK
    <3> QED
      BY <2>1, <2>2, <3>1, <3>2, <3>3
  <2>5. balance'[c] = balance[c] + change
    <3>1. PICK mid : mid = [balance EXCEPT ![d] = @ - n]
      OBVIOUS
    <3>2. balance' = [mid EXCEPT ![e] = @ + n] /\ c \in Holder /\ e \in Holder
      BY <1>3, <3>1 DEF MigrateStakedTokens, TransferTokens, Holder
    <3>3. mid \in [Holder -> Int] /\ balance \in [Holder -> Nat]
      BY <1>t, <2>1, <3>1 DEF StakingTypeOK
    <3> QED
      BY <1>t, <2>1, <2>2, <3>1, <3>2, <3>3
  <2>6. stakes'[c][o].amount = stakes[c][o].amount + change
    BY <1>s, <2>1, <2>2
  <2>7. stakes'[c][o].cooldownAmount = stakes[c][o].cooldownAmount
    BY <2>1
  <2>8. Held(c, o)' = Held(c, o) + change
    BY <1>s, <2>3, <2>6, <2>7 DEF Held
  <2>9. \A q \in Address \ {o} : stakes'[c][q] = stakes[c][q]
    BY <2>1
  <2> QED
    BY <2>3, <2>4, <2>5, <2>6, <2>8, <2>9, TogetherAfterOne
<1>4. ASSUME Restake(d, o)
      PROVE  Together(c, 0)
  <2>1. CASE c = d
    <3>1. /\ stakes'[c][o].amount = stakes[c][o].amount + stakes[c][o].cooldownAmount
          /\ stakes'[c][o].cooldownAmount = 0
          /\ \A q \in Address \ {o} : stakes'[c][q] = stakes[c][q]
      BY <1>4, <2>1 DEF Restake, StakingTypeOK
    <3>2. Held(c, o)' = Held(c, o) + 0
      BY <1>s, <3>1 DEF Held
    <3>3. /\ totalStakedTokens'[c] = totalStakedTokens[c] + stakes[c][o].cooldownAmount
          /\ balance'[c] = balance[c] + 0
      BY <1>4, <1>t, <2>1 DEF Restake, StakingTypeOK
    <3>4. stakes[c][o].cooldownAmount \in Int /\ 0 \in Int
      BY <1>s
    <3> QED
      BY <3>1, <3>2, <3>3, <3>4, TogetherAfterOne
  <2>2. CASE c # d
    BY <1>4, <1>k, <2>2 DEF Restake, StakingTypeOK
  <2> QED
    BY <2>1, <2>2
<1>5. ASSUME Withdraw(d, o)
      PROVE  Together(c, 0)
  <2>1. Withdrawable(d, o) \in Nat /\ ReleasedStake(d, o) \in 0 .. stakes[d][o].amount
    BY WithdrawableTyped
  <2>2. balance'[c] = balance[c] + (IF c = d THEN -Withdrawable(d, o) ELSE 0)
    BY <1>5, <2>1, PaidFrom DEF Withdraw
  <2>3. CASE c = d
    <3>1. stakes'[c][o] = AfterWithdrawal(c, o) /\ \A q \in Address \ {o} : stakes'[c][q] = stakes[c][q]
      BY <1>5, <2>3 DEF Withdraw, StakingTypeOK
    <3>2. Held(c, o)' = Held(c, o) + (-Withdrawable(c, o))
      <4>1. Held(c, o) - Held(c, o)' = Withdrawable(c, o)
        BY <3>1, WithdrawalEffect
      <4>2. stakes'[c][o].amount \in Int /\ stakes'[c][o].cooldownAmount \in Int
        BY <1>s, <2>1, <2>3, <3>1 DEF AfterWithdrawal
      <4>3. Held(c, o)' \in Int /\ Held(c, o) \in Int
        BY <4>2, HeldTyped DEF Held
      <4> QED
        BY ONLY <4>1, <4>3, <2>1, <2>3
    <3>3. stakes'[c][o].amount = stakes[c][o].amount + (-ReleasedStake(c, o))
      BY <1>s, <2>1, <2>3, <3>1 DEF AfterWithdrawal
    <3>4. totalStakedTokens'[c] = totalStakedTokens[c] + (-ReleasedStake(c, o))
      BY <1>5, <1>s, <1>t, <2>1, <2>3 DEF Withdraw, ReduceTotal, StakingTypeOK
    <3>5. -ReleasedStake(c, o) \in Int /\ -Withdrawable(c, o) \in Int
      BY <1>s, <2>1, <2>3
    <3> QED
      BY <2>2, <2>3, <3>1, <3>2, <3>3, <3>4, <3>5, TogetherAfterOne
  <2>4. CASE c # d
    BY <1>5, <1>k, <1>t, <2>2, <2>4 DEF Withdraw, ReduceTotal, StakingTypeOK
  <2> QED
    BY <2>3, <2>4
<1> QED
  BY <1>1, <1>2, <1>3, <1>4, <1>5 DEF MoveStake, Stake, AcceptMigration

(* A distribution adds to the total what the rewards add up to, which is    *)
(* also what it takes from the sender.                                      *)
LEMMA RewardsKeepTogether ==
  ASSUME StakingTypeOK, NEW d \in StakingContracts, NEW sender \in Address,
         NEW total \in Amounts, NEW reward \in RewardLists,
         DistributeRewards(d, sender, total, reward),
         NEW c \in StakingContracts
  PROVE  Together(c, 0)
<1>1. PICK owners \in SUBSET Address : reward \in [owners -> Amounts]
  BY DEF RewardLists
<1>2. \A o \in owners : reward[o] \in Nat
  BY <1>1, StakingAssumption
<1>3. total \in Nat /\ total = SumFunctionOnSet(reward, owners)
  BY <1>1, SumOfFunction, StakingAssumption DEF DistributeRewards
<1>4. d \in Holder /\ balance'[c] = balance[c] + (IF c = d THEN total ELSE 0)
  BY <1>3, PaidIn DEF DistributeRewards, Holder
<1>5. totalStakedTokens'[c] = totalStakedTokens[c] + (IF c = d THEN total ELSE 0)
  BY <1>3 DEF DistributeRewards, StakingTypeOK
<1>6. CASE c = d
  <2>1. ASSUME NEW o \in owners
        PROVE  /\ stakes'[c][o].amount = stakes[c][o].amount + reward[o]
               /\ Held(c, o)' = Held(c, o) + reward[o]
    <3>1. stakes'[c][o] = [stakes[c][o] EXCEPT !.amount = @ + reward[o]]
      BY <1>1, <1>6 DEF DistributeRewards, StakingTypeOK
    <3>2. /\ stakes'[c][o].amount = stakes[c][o].amount + reward[o]
          /\ stakes'[c][o].cooldownAmount = stakes[c][o].cooldownAmount
      BY <3>1, StakeTyped DEF StakeData
    <3> QED
      BY <1>2, <3>2, StakeTyped DEF Held
  <2>2. \A o \in Address \ owners : stakes'[c][o] = stakes[c][o]
    BY <1>1, <1>6 DEF DistributeRewards, StakingTypeOK
  <2>3. ChangeBy(c, owners, reward, reward)
    BY <1>2, <2>1, <2>2 DEF ChangeBy
  <2>4. balance'[c] = balance[c] + (SumFunctionOnSet(reward, owners) + 0)
    BY <1>3, <1>4, <1>6
  <2> QED
    BY <1>3, <1>4, <1>5, <1>6, <2>3, <2>4, TogetherAfterwards
<1>7. CASE c # d
  <2>1. /\ \A o \in Address : stakes'[c][o] = stakes[c][o]
        /\ totalStakedTokens'[c] = totalStakedTokens[c]
        /\ balance'[c] = balance[c] + 0
    BY <1>4, <1>5, <1>7 DEF DistributeRewards, StakingTypeOK
  <2> QED
    BY <2>1, TogetherUntouched
<1> QED
  BY <1>6, <1>7

(* A batch pays what its owners' holdings lose, and takes from the total    *)
(* what their stakes lose.                                                  *)
LEMMA BatchKeepsTogether ==
  ASSUME StakingTypeOK, NEW d \in StakingContracts, NEW owners \in SUBSET Address,
         WithdrawReleasedStakes(d, owners), NEW c \in StakingContracts
  PROVE  Together(c, 0)
<1>1. PICK paid, released : /\ paid = [o \in owners |-> Withdrawable(d, o)]
                            /\ released = [o \in owners |-> ReleasedStake(d, o)]
  OBVIOUS
<1>2. \A o \in owners : paid[o] \in Nat /\ released[o] \in Nat
  BY <1>1, WithdrawableTyped, StakeTyped
<1>f. IsFiniteSet(owners)
  BY FS_Subset, AddressAssumption
<1>3. /\ SumFunction(paid) = SumFunctionOnSet(paid, owners)
      /\ SumFunction(released) = SumFunctionOnSet(released, owners)
  BY <1>1, SumOfFunction
<1>4. PICK out, less : out = SumFunctionOnSet(paid, owners) /\ less = SumFunctionOnSet(released, owners)
  OBVIOUS
<1>5. out \in Nat /\ less \in Nat
  BY <1>2, <1>f, <1>4, SumType
<1>6. /\ stakes' = [stakes EXCEPT ![d] = [o \in Address |->
           IF o \in owners THEN AfterWithdrawal(d, o) ELSE stakes[d][o]]]
      /\ ReduceTotal(d, less)
      /\ balance' = [h \in Holder |->
           CASE h = d        -> balance[h] - out
             [] h \in owners -> balance[h] + paid[h]
             [] OTHER        -> balance[h]]
  BY <1>1, <1>3, <1>4 DEF WithdrawReleasedStakes
<1>7. totalStakedTokens'[c] = totalStakedTokens[c] + (IF c = d THEN -less ELSE 0)
  BY <1>5, <1>6 DEF ReduceTotal, StakingTypeOK
<1>8. balance'[c] = balance[c] + (IF c = d THEN -out ELSE 0)
  <2>1. c \in Holder /\ c \notin owners /\ balance[c] \in Nat
    BY StakingAssumption DEF Holder, Account, StakingTypeOK
  <2> QED
    BY <1>5, <1>6, <2>1
<1>9. CASE c = d
  <2>1. PICK s, h : s = [o \in owners |-> -released[o]] /\ h = [o \in owners |-> -paid[o]]
    OBVIOUS
  <2>2. ASSUME NEW o \in owners
        PROVE  /\ stakes'[c][o].amount = stakes[c][o].amount + s[o]
               /\ Held(c, o)' = Held(c, o) + h[o]
    <3>1. stakes'[c][o] = AfterWithdrawal(c, o)
      BY <1>6, <1>9 DEF StakingTypeOK
    <3>2. Held(c, o) - Held(c, o)' = Withdrawable(c, o)
      BY <3>1, WithdrawalEffect
    <3>3. /\ ReleasedStake(c, o) \in 0 .. stakes[c][o].amount
          /\ stakes[c][o].amount \in Nat /\ Withdrawable(c, o) \in Nat
      BY WithdrawableTyped, StakeTyped
    <3>4. /\ stakes'[c][o].amount = stakes[c][o].amount - ReleasedStake(c, o)
          /\ stakes'[c][o].cooldownAmount = 0
      BY <3>1 DEF AfterWithdrawal
    <3>5. Held(c, o)' \in Int /\ Held(c, o) \in Int
      BY <3>3, <3>4, HeldTyped DEF Held
    <3>6. s[o] = -ReleasedStake(c, o) /\ h[o] = -Withdrawable(c, o)
      BY <1>1, <1>9, <2>1
    <3>7. Held(c, o)' = Held(c, o) + h[o]
      BY ONLY <3>2, <3>3, <3>5, <3>6
    <3>8. stakes'[c][o].amount = stakes[c][o].amount + s[o]
      BY ONLY <3>3, <3>4, <3>6
    <3> QED
      BY <3>7, <3>8
  <2>3. \A o \in Address \ owners : stakes'[c][o] = stakes[c][o]
    BY <1>6, <1>9 DEF StakingTypeOK
  <2>4. ChangeBy(c, owners, s, h)
    BY <1>2, <2>1, <2>2, <2>3 DEF ChangeBy
  <2>5. SumFunctionOnSet(s, owners) = -less /\ SumFunctionOnSet(h, owners) = -out
    BY <1>2, <1>f, <1>4, <2>1, SumNegated
  <2>6. balance'[c] = balance[c] + (SumFunctionOnSet(h, owners) + 0)
    BY <1>5, <1>8, <1>9, <2>5
  <2> QED
    BY <1>7, <1>9, <2>4, <2>5, <2>6, TogetherAfterwards
<1>10. CASE c # d
  <2>1. /\ \A o \in Address : stakes'[c][o] = stakes[c][o]
        /\ totalStakedTokens'[c] = totalStakedTokens[c]
        /\ balance'[c] = balance[c] + 0
    BY <1>6, <1>7, <1>8, <1>10 DEF StakingTypeOK
  <2> QED
    BY <2>1, TogetherUntouched
<1> QED
  BY <1>9, <1>10

(* A step of the books: only somebody's payment to a contract that no call  *)
(* asked for is a gift.                                                     *)
LEMMA EveryStepKeepsTogether ==
  ASSUME StakingTypeOK, [StakingNext]_stakingVars, NEW c \in StakingContracts
  PROVE  \/ Together(c, 0)
         \/ \E from \in Address, to \in Holder, n \in Amounts :
              TokenTransfer(from, to, n) /\ Together(c, IF c = to THEN n ELSE 0)
<1>0. ASSUME UNCHANGED books
      PROVE  Together(c, 0)
  <2>1. balance'[c] = balance[c] + 0
    BY <1>0 DEF books, StakingTypeOK, Holder
  <2> QED
    BY <1>0, <2>1, TogetherUntouched DEF books
<1>1. ASSUME NEW from \in Address, NEW to \in Holder, NEW n \in Amounts, TokenTransfer(from, to, n)
      PROVE  Together(c, IF c = to THEN n ELSE 0)
  <2>1. n \in Nat
    BY StakingAssumption
  <2>2. PICK gift \in Nat : gift = (IF c = to THEN n ELSE 0)
    BY <2>1
  <2>3. balance'[c] = balance[c] + gift
    BY <1>1, <2>1, <2>2, PaidIn DEF TokenTransfer
  <2>4. UNCHANGED <<stakes, totalStakedTokens>>
    BY <1>1 DEF TokenTransfer
  <2>5. Together(c, gift)
    BY <2>3, <2>4, TogetherUntouched
  <2> QED
    BY <2>2, <2>5
<1>2. ASSUME NEW d \in StakingContracts, NEW p \in Address, Manage(d, p)
      PROVE  Together(c, 0)
  BY <1>0, <1>2, ManageKeepsBooks
<1> QED
  BY <1>0, <1>1, <1>2, MoveKeepsTogether, RewardsKeepTogether, BatchKeepsTogether
     DEF StakingNext, Tick, stakingVars

(* The books of every contract always balance, BooksBalance: its total is   *)
(* the sum of its stakes, and it holds the tokens to pay everybody.         *)
THEOREM BooksAlwaysBalance == StakingSpec => []BooksBalance
<1>1. StakingInit => BooksBalance
  <2> SUFFICES ASSUME StakingInit, NEW c \in StakingContracts
               PROVE  Balanced(c)
    BY BooksBalanceIsBalanced
  <2>1. \A o \in Address : AmountsIn(c)[o] = 0 /\ HoldingsIn(c)[o] = 0
    BY DEF StakingInit, NoStake, AmountsIn, HoldingsIn, Held
  <2>2. /\ SumFunctionOnSet(AmountsIn(c), Address) = 0
        /\ SumFunctionOnSet(HoldingsIn(c), Address) = 0
    BY <2>1, SumOfZeros, AddressAssumption
  <2>3. totalStakedTokens[c] = 0 /\ balance[c] = 0
    BY StakingAssumption DEF StakingInit, Holder, Account
  <2> QED
    BY <2>2, <2>3 DEF Balanced
<1>2. StakingTypeOK /\ StakingTypeOK' /\ BooksBalance /\ [StakingNext]_stakingVars => BooksBalance'
  <2> SUFFICES ASSUME StakingTypeOK, StakingTypeOK', [StakingNext]_stakingVars,
                      NEW c \in StakingContracts, Balanced(c)
               PROVE  Balanced(c)'
    BY BooksBalanceIsBalanced
  <2>1. \A to, n : n \in Amounts => (IF c = to THEN n ELSE 0) \in Nat
    BY StakingAssumption
  <2>2. PICK gift \in Nat : Together(c, gift)
    BY <2>1, EveryStepKeepsTogether
  <2> QED
    BY <2>2, BalancedTogether
<1> QED
  BY <1>1, <1>2, StakingTypeCorrect, PTL DEF StakingSpec

-----------------------------------------------------------------------------
(* No call makes or loses a token: people's and contracts' balances always  *)
(* add up to what there was at first.                                       *)

Conserved == SumFunctionOnSet(balance, Holder) = TokenSupply

LEMMA HoldersAreFinite == IsFiniteSet(Holder)
  BY FS_Union, AddressAssumption, StakingAssumption DEF Holder

LEMMA TransferConserves ==
  ASSUME StakingTypeOK, NEW from \in Holder, NEW to \in Holder, NEW n \in Nat,
         TransferTokens(from, to, n)
  PROVE  SumFunctionOnSet(balance', Holder) = SumFunctionOnSet(balance, Holder)
<1>1. PICK mid : mid = [balance EXCEPT ![from] = @ - n]
  OBVIOUS
<1>2. /\ balance \in [Holder -> Nat] /\ mid \in [Holder -> Int]
      /\ mid[from] = balance[from] - n
      /\ \A h \in Holder \ {from} : mid[h] = balance[h]
  BY <1>1 DEF StakingTypeOK
<1>3. balance' = [mid EXCEPT ![to] = @ + n]
  BY <1>1 DEF TransferTokens
<1>4. /\ balance'[to] = mid[to] + n /\ balance'[to] \in Int
      /\ \A h \in Holder \ {to} : balance'[h] = mid[h]
  BY <1>2, <1>3
<1>5. SumFunctionOnSet(mid, Holder) = SumFunctionOnSet(balance, Holder) + (mid[from] - balance[from])
  BY <1>2, SumChange, HoldersAreFinite
<1>6. SumFunctionOnSet(balance', Holder) = SumFunctionOnSet(mid, Holder) + (balance'[to] - mid[to])
  <2>1. \A h \in Holder : mid[h] \in Int
    BY <1>2
  <2>2. \A h \in Holder : balance'[h] \in Int
    BY <1>4, <2>1
  <2> QED
    BY <1>4, <2>1, <2>2, SumChange, HoldersAreFinite
<1>7. SumFunctionOnSet(balance, Holder) \in Int
  BY <1>2, SumType, HoldersAreFinite
<1>8. mid[from] - balance[from] = -n
  BY <1>2
<1>9. balance'[to] - mid[to] = n
  BY <1>2, <1>4
<1>10. SumFunctionOnSet(mid, Holder) = SumFunctionOnSet(balance, Holder) + (-n)
  BY <1>5, <1>8
<1>11. SumFunctionOnSet(balance', Holder) = SumFunctionOnSet(mid, Holder) + n
  BY <1>6, <1>9
<1> QED
  BY <1>7, <1>10, <1>11

LEMMA BatchConserves ==
  ASSUME StakingTypeOK, NEW d \in StakingContracts, NEW owners \in SUBSET Address,
         WithdrawReleasedStakes(d, owners)
  PROVE  SumFunctionOnSet(balance', Holder) = SumFunctionOnSet(balance, Holder)
<1>1. PICK paid : paid = [o \in owners |-> Withdrawable(d, o)]
  OBVIOUS
<1>2. PICK out : out = SumFunctionOnSet(paid, owners)
  OBVIOUS
<1>3. \A o \in owners : paid[o] \in Nat
  BY <1>1, WithdrawableTyped
<1>4. /\ IsFiniteSet(owners) /\ d \in Holder /\ d \notin owners
      /\ owners \cup {d} \in SUBSET Holder
  BY FS_Subset, AddressAssumption, StakingAssumption DEF Holder, Account
<1>5. out \in Nat
  BY <1>2, <1>3, <1>4, SumType
<1>6. balance' = [h \in Holder |-> CASE h = d        -> balance[h] - out
                                     [] h \in owners -> balance[h] + paid[h]
                                     [] OTHER        -> balance[h]]
  BY <1>1, <1>2, SumOfFunction DEF WithdrawReleasedStakes
<1>7. PICK change : change = [h \in owners \cup {d} |-> IF h = d THEN -out ELSE paid[h]]
  OBVIOUS
<1>8. \A h \in owners \cup {d} : change[h] \in Int /\ balance'[h] = balance[h] + change[h]
  BY <1>3, <1>4, <1>5, <1>6, <1>7 DEF StakingTypeOK
<1>9. \A h \in Holder \ (owners \cup {d}) : balance'[h] = balance[h]
  BY <1>6
<1>10. SumFunctionOnSet(balance', Holder) =
         SumFunctionOnSet(balance, Holder) + SumFunctionOnSet(change, owners \cup {d})
  <2>1. \A h \in Holder : balance[h] \in Int
    BY DEF StakingTypeOK
  <2> QED
    BY <1>4, <1>8, <1>9, <2>1, SumChangeOn, HoldersAreFinite
<1>11. SumFunctionOnSet(change, owners \cup {d}) = change[d] + SumFunctionOnSet(change, owners)
  <2>1. IsFiniteSet(owners \cup {d}) /\ (owners \cup {d}) \ {d} = owners
    BY <1>4, FS_AddElement
  <2> QED
    BY <1>8, <2>1, SumRemove
<1>12. SumFunctionOnSet(change, owners) = out /\ change[d] = -out
  BY <1>2, <1>4, <1>7, SumSame
<1>13. SumFunctionOnSet(balance, Holder) \in Int
  BY SumType, HoldersAreFinite DEF StakingTypeOK
<1> QED
  BY ONLY <1>5, <1>10, <1>11, <1>12, <1>13

LEMMA StepConserves ==
  ASSUME StakingTypeOK, [StakingNext]_stakingVars
  PROVE  SumFunctionOnSet(balance', Holder) = SumFunctionOnSet(balance, Holder)
<1>0. Address \subseteq Holder /\ StakingContracts \subseteq Holder /\ Amounts \subseteq Nat
  BY StakingAssumption DEF Holder
<1>1. CASE UNCHANGED balance
  BY <1>1
<1>2. ASSUME NEW c \in StakingContracts, NEW o \in Address, MoveStake(c, o)
      PROVE  SumFunctionOnSet(balance', Holder) = SumFunctionOnSet(balance, Holder)
  <2>1. ASSUME NEW n \in Amounts, NEW sender \in Address, CreditStake(c, sender, o, n)
        PROVE  SumFunctionOnSet(balance', Holder) = SumFunctionOnSet(balance, Holder)
    BY <1>0, <2>1, TransferConserves DEF CreditStake
  <2>2. ASSUME NEW e \in StakingContracts, NEW n \in Amounts, MigrateStakedTokens(c, o, e, n)
        PROVE  SumFunctionOnSet(balance', Holder) = SumFunctionOnSet(balance, Holder)
    BY <1>0, <2>2, TransferConserves DEF MigrateStakedTokens
  <2>3. CASE Withdraw(c, o)
    BY <1>0, <2>3, TransferConserves, WithdrawableTyped DEF Withdraw
  <2> QED
    BY <1>1, <1>2, <2>1, <2>2, <2>3 DEF MoveStake, Stake, AcceptMigration, Unstake, Restake
<1>3. ASSUME NEW c \in StakingContracts, NEW sender \in Address, NEW total \in Amounts,
             NEW reward \in RewardLists, DistributeRewards(c, sender, total, reward)
      PROVE  SumFunctionOnSet(balance', Holder) = SumFunctionOnSet(balance, Holder)
  BY <1>0, <1>3, TransferConserves DEF DistributeRewards
<1>4. ASSUME NEW from \in Address, NEW to \in Holder, NEW n \in Amounts, TokenTransfer(from, to, n)
      PROVE  SumFunctionOnSet(balance', Holder) = SumFunctionOnSet(balance, Holder)
  BY <1>0, <1>4, TransferConserves DEF TokenTransfer
<1>5. ASSUME NEW c \in StakingContracts, NEW p \in Address, Manage(c, p)
      PROVE  UNCHANGED balance
  BY <1>5, ManageKeepsBooks DEF books
<1> QED
  BY <1>1, <1>2, <1>3, <1>4, <1>5, BatchConserves DEF StakingNext, Tick, stakingVars, books

(* No call makes or loses a token, Conserved: what people and contracts     *)
(* have always adds up to the supply.                                       *)
THEOREM TokensAlwaysConserved == StakingSpec => []Conserved
<1>1. StakingInit => Conserved
  <2> SUFFICES ASSUME StakingInit PROVE Conserved
    OBVIOUS
  <2>1. /\ \A h \in Holder : balance[h] \in Int
        /\ \A h \in Address : balance[h] = InitialBalance[h]
        /\ \A h \in Holder \ Address : balance[h] = 0
        /\ Address \in SUBSET Holder
    BY StakingAssumption DEF StakingInit, Holder
  <2>2. SumFunctionOnSet(balance, Holder) = SumFunctionOnSet(balance, Address)
    BY <2>1, SumWithoutZeros, HoldersAreFinite
  <2>3. SumFunctionOnSet(balance, Address) = SumFunctionOnSet(InitialBalance, Address)
    BY <2>1, SumSame, AddressAssumption
  <2>4. TokenSupply = SumFunctionOnSet(InitialBalance, Address)
    BY SumOfFunction, StakingAssumption DEF TokenSupply
  <2> QED
    BY <2>2, <2>3, <2>4 DEF Conserved
<1>2. StakingTypeOK /\ Conserved /\ [StakingNext]_stakingVars => Conserved'
  BY StepConserves DEF Conserved
<1> QED
  BY <1>1, <1>2, StakingTypeCorrect, PTL DEF StakingSpec

-----------------------------------------------------------------------------
(* The refinement: the contracts together as one ledger.                    *)

HeldBy(o) == [c \in StakingContracts |-> Held(c, o)]
Surpluses == [c \in StakingContracts |-> Surplus(c)]

LEMMA LockedIsSum ==
  ASSUME NEW o
  PROVE  /\ LockedOf(o) = SumFunctionOnSet(HeldBy(o), StakingContracts)
         /\ LockedOf(o)' = SumFunctionOnSet(HeldBy(o)', StakingContracts)
<1>1. /\ LockedOf(o) = SumFunction(HeldBy(o)) /\ DOMAIN HeldBy(o) = StakingContracts
      /\ LockedOf(o)' = SumFunction(HeldBy(o)') /\ DOMAIN HeldBy(o)' = StakingContracts
  BY DEF LockedOf, HeldBy
<1> QED
  BY <1>1, SumOfFunction

LEMMA HeldTypedNext ==
  ASSUME StakingTypeOK', NEW c \in StakingContracts, NEW o \in Address
  PROVE  Held(c, o)' \in Nat
<1>1. stakes'[c][o] \in StakeData
  BY DEF StakingTypeOK
<1>2. stakes'[c][o].amount \in Nat /\ stakes'[c][o].cooldownAmount \in Nat
  BY <1>1 DEF StakeData
<1> QED
  BY <1>2 DEF Held

LEMMA LockedTyped ==
  ASSUME StakingTypeOK, StakingTypeOK', NEW o \in Address
  PROVE  LockedOf(o) \in Nat /\ LockedOf(o)' \in Nat
<1>1. /\ \A c \in StakingContracts : HeldBy(o)[c] \in Nat
      /\ \A c \in StakingContracts : HeldBy(o)'[c] \in Nat
  BY HeldTyped, HeldTypedNext DEF HeldBy
<1>2. IsFiniteSet(StakingContracts)
  BY StakingAssumption
<1>3. SumFunctionOnSet(HeldBy(o), StakingContracts) \in Nat
  BY ONLY <1>1, <1>2, SumType
<1>4. SumFunctionOnSet(HeldBy(o)', StakingContracts) \in Nat
  BY ONLY <1>1, <1>2, SumType
<1> QED
  BY <1>3, <1>4, LockedIsSum

LEMMA SupplyIsNumber == TokenSupply \in Nat
<1>1. InitialBalance \in [Address -> Nat] /\ IsFiniteSet(Address)
  BY StakingAssumption, AddressAssumption
<1>2. \A o \in Address : InitialBalance[o] \in Nat
  BY <1>1
<1>3. SumFunctionOnSet(InitialBalance, Address) \in Nat
  BY ONLY <1>1, <1>2, SumType
<1> QED
  BY <1>1, <1>3, SumOfFunction DEF TokenSupply

(* What is locked for anybody, and what anybody has, is within the supply.  *)
WithinSupply ==
  \A o \in Address : LockedOf(o) \in 0 .. TokenSupply /\ balance[o] \in 0 .. TokenSupply

LEMMA AllWithinSupply ==
  ASSUME StakingTypeOK, BooksBalance, Conserved
  PROVE  WithinSupply
<1> SUFFICES ASSUME NEW o \in Address
             PROVE  LockedOf(o) \in 0 .. TokenSupply /\ balance[o] \in 0 .. TokenSupply
  BY DEF WithinSupply
<1>1. /\ \A h \in Holder : balance[h] \in Nat
      /\ o \in Holder /\ StakingContracts \in SUBSET Holder /\ IsFiniteSet(StakingContracts)
  BY StakingAssumption DEF StakingTypeOK, Holder
<1>2. TokenSupply = SumFunctionOnSet(balance, Holder) /\ TokenSupply \in Nat
  BY <1>1, SumType, HoldersAreFinite DEF Conserved
<1>3. balance[o] <= TokenSupply
  BY <1>1, <1>2, SumBounds, HoldersAreFinite
<1>4. \A c \in StakingContracts : HeldBy(o)[c] \in Nat /\ HeldBy(o)[c] <= balance[c]
  <2> SUFFICES ASSUME NEW c \in StakingContracts
               PROVE  HeldBy(o)[c] \in Nat /\ HeldBy(o)[c] <= balance[c]
    OBVIOUS
  <2>1. HeldBy(o)[c] = HoldingsIn(c)[o] /\ HeldBy(o)[c] \in Nat
    BY HeldTyped DEF HeldBy, HoldingsIn
  <2>2. HoldingsIn(c)[o] <= SumFunctionOnSet(HoldingsIn(c), Address)
    BY BooksAreNumbers, SumBounds, AddressAssumption
  <2>3. SumFunctionOnSet(HoldingsIn(c), Address) <= balance[c]
    <3>1. Balanced(c)
      BY BooksBalanceIsBalanced
    <3>2. SumFunctionOnSet(HoldingsIn(c), Address) \in Nat /\ balance[c] \in Nat
      BY <1>1, BooksAreNumbers
    <3> QED
      BY <3>1, <3>2 DEF Balanced
  <2>4. SumFunctionOnSet(HoldingsIn(c), Address) \in Nat /\ balance[c] \in Nat
    BY <1>1, BooksAreNumbers
  <2> QED
    BY <2>1, <2>2, <2>3, <2>4
<1>5. LockedOf(o) <= SumFunctionOnSet(balance, StakingContracts)
  <2>1. \A c \in StakingContracts :
          HeldBy(o)[c] \in Int /\ balance[c] \in Int /\ HeldBy(o)[c] <= balance[c]
    BY <1>1, <1>4
  <2> QED
    BY <1>1, <2>1, SumMonotonic, LockedIsSum
<1>6. SumFunctionOnSet(balance, StakingContracts) <= TokenSupply
  BY <1>1, <1>2, SumBounds, HoldersAreFinite
<1>7. LockedOf(o) \in Nat /\ SumFunctionOnSet(balance, StakingContracts) \in Nat
  <2>1. LockedOf(o) \in Nat
    <3>1. SumFunctionOnSet(HeldBy(o), StakingContracts) \in Nat
      BY ONLY <1>1, <1>4, SumType
    <3> QED
      BY <3>1, LockedIsSum
  <2>2. SumFunctionOnSet(balance, StakingContracts) \in Nat
    BY <1>1, SumType
  <2> QED
    BY <2>1, <2>2
<1> QED
  BY <1>1, <1>2, <1>3, <1>5, <1>6, <1>7

(* A step that touches the stakes of one contract changes what is locked as *)
(* it changes what that contract holds.                                     *)
LEMMA LockedChange ==
  ASSUME StakingTypeOK, StakingTypeOK', NEW c \in StakingContracts, NEW o \in Address,
         \A e \in StakingContracts \ {c} : stakes'[e][o] = stakes[e][o]
  PROVE  LockedOf(o)' = LockedOf(o) + (Held(c, o)' - Held(c, o))
<1>1. \A e \in StakingContracts : HeldBy(o)[e] \in Int /\ HeldBy(o)'[e] \in Int
  BY HeldTyped, HeldTypedNext DEF HeldBy
<1>2. \A e \in StakingContracts \ {c} : HeldBy(o)'[e] = HeldBy(o)[e]
  BY DEF HeldBy, Held
<1>3. SumFunctionOnSet(HeldBy(o)', StakingContracts) =
        SumFunctionOnSet(HeldBy(o), StakingContracts) + (HeldBy(o)'[c] - HeldBy(o)[c])
  <2>1. IsFiniteSet(StakingContracts)
    BY StakingAssumption
  <2> QED
    BY ONLY <1>1, <1>2, <2>1, c \in StakingContracts, SumChange
<1>4. HeldBy(o)'[c] = Held(c, o)' /\ HeldBy(o)[c] = Held(c, o)
  BY DEF HeldBy
<1> QED
  BY <1>3, <1>4, LockedIsSum

LEMMA LockedUntouched ==
  ASSUME NEW o \in Address, \A e \in StakingContracts : Held(e, o)' = Held(e, o)
  PROVE  LockedOf(o)' = LockedOf(o)
<1>1. \A e \in StakingContracts : HeldBy(o)'[e] = HeldBy(o)[e]
  BY DEF HeldBy
<1> QED
  BY <1>1, SumSame, LockedIsSum, StakingAssumption

(* The strays of the ledger are the contracts' surpluses.                   *)
LEMMA StraysAreSurpluses ==
  /\ Strays = SumFunctionOnSet(Surpluses, StakingContracts)
  /\ Strays' = SumFunctionOnSet(Surpluses', StakingContracts)
<1>1. \A c : DOMAIN HoldingsIn(c) = Address /\ DOMAIN HoldingsIn(c)' = Address
  BY DEF HoldingsIn
<1>2. \A c : /\ TotalHeld(c) = SumFunctionOnSet(HoldingsIn(c), Address)
             /\ TotalHeld(c)' = SumFunctionOnSet(HoldingsIn(c)', Address)
  BY <1>1, SumOfFunction DEF TotalHeld, HoldingsIn
<1>3. Strays = SumFunction(Surpluses) /\ Strays' = SumFunction(Surpluses')
  BY <1>2 DEF Strays, Surpluses, Surplus
<1>4. DOMAIN Surpluses = StakingContracts /\ DOMAIN Surpluses' = StakingContracts
  BY DEF Surpluses
<1> QED
  BY <1>3, <1>4, SumOfFunction

LEMMA SurplusTyped ==
  ASSUME StakingTypeOK, NEW c \in StakingContracts
  PROVE  Surplus(c) \in Int
  BY BooksAreNumbers DEF Surplus, StakingTypeOK, Holder

LEMMA StraysStay ==
  ASSUME StakingTypeOK, \A c \in StakingContracts : Together(c, 0)
  PROVE  Strays' = Strays
<1>1. \A c \in StakingContracts : Surpluses'[c] = Surpluses[c]
  BY SurplusTyped DEF Surpluses, Together
<1> QED
  BY <1>1, SumSame, StraysAreSurpluses, StakingAssumption

(* The ledger takes its sums from an instance of the same library.          *)
LEMMA LedgerSums ==
  ASSUME NEW f
  PROVE  Ledger!SumFunction(f) = SumFunction(f)
<1>1. /\ Ledger!SumFunction(f) = Ledger!SumFunctionOnSet(f, DOMAIN f)
      /\ SumFunction(f) = SumFunctionOnSet(f, DOMAIN f)
  BY DEF SumFunction, Ledger!SumFunction
<1>2. Ledger!SumFunctionOnSet(f, DOMAIN f) = SumFunctionOnSet(f, DOMAIN f)
  BY DEF SumFunctionOnSet, FoldFunctionOnSet, MapThenFoldSet,
         Ledger!SumFunctionOnSet, Ledger!FoldFunctionOnSet, Ledger!MapThenFoldSet
<1> QED
  BY <1>1, <1>2

(* The three ways a transaction is seen in the ledger: a payer's tokens are *)
(* locked for the owners in D, what was locked for them returns to them, or *)
(* nothing is seen.                                                         *)
LEMMA LockIsSeen ==
  ASSUME StakingTypeOK, WithinSupply, WithinSupply',
         \A c \in StakingContracts : Together(c, 0),
         NEW payer \in Address, NEW D \in SUBSET Address, D # {}, NEW more,
         \A o \in D : more[o] \in Nat \ {0} /\ LockedOf(o)' = LockedOf(o) + more[o],
         \A o \in Address \ D : LockedOf(o)' = LockedOf(o),
         SumFunctionOnSet(more, D) <= balance[payer],
         balance'[payer] = balance[payer] - SumFunctionOnSet(more, D),
         \A o \in Address \ {payer} : balance'[o] = balance[o]
  PROVE  Ledger!Next
<1> DEFINE was == Locked
           becomes == Locked'
<1>1. /\ was = [o \in Address |-> LockedOf(o)] /\ becomes = [o \in Address |-> LockedOf(o)']
      /\ DOMAIN was = Address /\ DOMAIN becomes = Address
  BY DEF Locked
<1>2. \A o \in Address : was[o] \in 0 .. TokenSupply /\ becomes[o] \in 0 .. TokenSupply
  BY <1>1 DEF WithinSupply
<1>3. TokenSupply \in Nat
  BY SupplyIsNumber
<1>4. \A o \in Address : was[o] \in Int /\ becomes[o] \in Int
  BY <1>2, <1>3
<1>5. /\ \A o \in D : more[o] \in Int /\ becomes[o] = was[o] + more[o]
      /\ \A o \in Address \ D : becomes[o] = was[o]
  BY <1>1
<1>6. \A o \in Address : was[o] <= becomes[o]
  BY <1>4, <1>5
<1>7. becomes # was
  <2>1. PICK o \in D : more[o] \in Nat \ {0} /\ becomes[o] = was[o] + more[o]
    BY <1>5
  <2>2. becomes[o] # was[o]
    BY <1>4, <2>1
  <2> QED
    BY <2>2
<1>8. /\ SumFunction(was) = SumFunctionOnSet(was, Address)
      /\ SumFunction(becomes) = SumFunctionOnSet(becomes, Address)
  BY <1>1, SumOfFunction
<1>9. SumFunctionOnSet(becomes, Address) = SumFunctionOnSet(was, Address) + SumFunctionOnSet(more, D)
  <2> HIDE DEF was, becomes
  <2> QED
    BY <1>4, <1>5, SumChangeOn, AddressAssumption
<1>10. SumFunctionOnSet(was, Address) \in Int /\ SumFunctionOnSet(more, D) \in Int
  <2> HIDE DEF was, becomes
  <2> QED
    BY <1>4, <1>5, SumType, FS_Subset, AddressAssumption
<1>11. SumFunction(becomes) - SumFunction(was) = SumFunctionOnSet(more, D)
  <2> HIDE DEF was, becomes
  <2> QED
    BY ONLY <1>8, <1>9, <1>10
<1>12. Ledger!Lock(payer, becomes)
  <2>1. Wallets' = [Wallets EXCEPT ![payer] = @ - (SumFunction(becomes) - SumFunction(was))]
    <3> HIDE DEF was, becomes
    <3> QED
      BY <1>11 DEF Wallets
  <2>2. SumFunction(becomes) - SumFunction(was) <= Wallets[payer]
    <3> HIDE DEF was, becomes
    <3> QED
      BY <1>11 DEF Wallets
  <2> QED
    BY <2>1, <2>2, LedgerSums DEF Ledger!Lock
<1>13. Ledger!Relock(becomes)
  <2>1. \A o \in Address : was[o] <= becomes[o]
    BY <1>6
  <2> QED
    BY <1>1, <1>7, <1>12, <2>1, StraysStay DEF Ledger!Relock
<1>14. becomes \in Ledger!Locks
  BY <1>1, <1>2 DEF Ledger!Locks
<1> QED
  BY <1>13, <1>14 DEF Ledger!Next

LEMMA ReturnIsSeen ==
  ASSUME StakingTypeOK, StakingTypeOK', WithinSupply, WithinSupply',
         \A c \in StakingContracts : Together(c, 0),
         NEW D \in SUBSET Address, D # {}, NEW less,
         \A o \in D : /\ less[o] \in Nat \ {0}
                      /\ LockedOf(o)' = LockedOf(o) - less[o]
                      /\ balance'[o] = balance[o] + less[o],
         \A o \in Address \ D : LockedOf(o)' = LockedOf(o) /\ balance'[o] = balance[o]
  PROVE  Ledger!Next
<1> DEFINE was == Locked
           becomes == Locked'
<1>1. /\ was = [o \in Address |-> LockedOf(o)] /\ becomes = [o \in Address |-> LockedOf(o)']
      /\ DOMAIN was = Address /\ DOMAIN becomes = Address
  BY DEF Locked
<1>2. \A o \in Address : was[o] \in 0 .. TokenSupply /\ becomes[o] \in 0 .. TokenSupply
  BY <1>1 DEF WithinSupply
<1>4. \A o \in Address : was[o] \in Int /\ becomes[o] \in Int /\ balance[o] \in Int
  BY <1>1, LockedTyped DEF StakingTypeOK, Holder
<1>5. \A o \in Address : becomes[o] <= was[o] /\ balance'[o] = balance[o] + (was[o] - becomes[o])
  BY <1>1, <1>4
<1>6. becomes # was
  BY <1>1, <1>4
<1>7. Ledger!Return(becomes)
  BY <1>1, <1>5 DEF Ledger!Return, Wallets
<1>8. Ledger!Relock(becomes)
  BY <1>1, <1>5, <1>6, <1>7, StraysStay DEF Ledger!Relock
<1>9. becomes \in Ledger!Locks
  BY <1>1, <1>2 DEF Ledger!Locks
<1> QED
  BY <1>8, <1>9 DEF Ledger!Next

LEMMA NothingIsSeen ==
  ASSUME StakingTypeOK, \A c \in StakingContracts : Together(c, 0),
         \A o \in Address : LockedOf(o)' = LockedOf(o) /\ balance'[o] = balance[o]
  PROVE  UNCHANGED Ledger!ledgerVars
  BY StraysStay DEF Ledger!ledgerVars, Wallets, Locked

(* People's payments, to one another or to a contract by mistake.           *)
LEMMA TransferIsSeen ==
  ASSUME StakingTypeOK, WithinSupply, NEW from \in Address, NEW to \in Holder, NEW n \in Amounts,
         TokenTransfer(from, to, n)
  PROVE  Ledger!Next
<1>1. /\ n \in Nat /\ n <= balance[from] /\ balance \in [Holder -> Nat]
      /\ balance' = [[balance EXCEPT ![from] = @ - n] EXCEPT ![to] = @ + n]
      /\ stakes' = stakes /\ totalStakedTokens' = totalStakedTokens
      /\ Address \subseteq Holder /\ StakingContracts \subseteq Holder
      /\ from \in Holder /\ Address \cap StakingContracts = {}
  BY StakingAssumption DEF TokenTransfer, TransferTokens, StakingTypeOK, Holder, Account
<1>2. n \in 0 .. TokenSupply /\ n <= Wallets[from]
  <2>1. balance[from] \in Nat /\ balance[from] \in 0 .. TokenSupply /\ Wallets[from] = balance[from]
    BY <1>1 DEF WithinSupply, Wallets
  <2> QED
    BY <1>1, <2>1, SupplyIsNumber
<1>3. UNCHANGED Locked
  <2>1. \A o \in Address : LockedOf(o)' = LockedOf(o)
    BY <1>1, LockedUntouched DEF Held
  <2> QED
    BY <2>1 DEF Locked
<1>4. \A c \in StakingContracts : \E gift \in Nat :
        gift = (IF c = to THEN n ELSE 0) /\ Together(c, gift)
  <2> SUFFICES ASSUME NEW c \in StakingContracts
               PROVE  \E gift \in Nat : gift = (IF c = to THEN n ELSE 0) /\ Together(c, gift)
    OBVIOUS
  <2>1. PICK gift \in Nat : gift = (IF c = to THEN n ELSE 0)
    BY <1>1
  <2>2. balance'[c] = balance[c] + gift
    BY <1>1, <2>1, PaidIn DEF TokenTransfer
  <2>3. Together(c, gift)
    BY <1>1, <2>2, TogetherUntouched
  <2> QED
    BY <2>1, <2>3
<1>5. CASE to \in Address
  <2>1. \A c \in StakingContracts : Together(c, 0)
    BY <1>1, <1>4, <1>5
  <2>2. UNCHANGED Strays
    BY <2>1, StraysStay
  <2>3. Wallets' = [[Wallets EXCEPT ![from] = @ - n] EXCEPT ![to] = @ + n]
    BY <1>1, <1>5 DEF Wallets
  <2>4. Ledger!Pay(from, to, n)
    BY <1>2, <2>2, <2>3 DEF Ledger!Pay
  <2> QED
    BY <1>2, <1>3, <1>5, <2>4 DEF Ledger!Next
<1>6. CASE to \in StakingContracts
  <2>1. /\ Surpluses'[to] = Surpluses[to] + n
        /\ \A c \in StakingContracts \ {to} : Surpluses'[c] = Surpluses[c]
    BY <1>1, <1>4, <1>6, SurplusTyped DEF Surpluses, Together
  <2>2. \A c \in StakingContracts : Surpluses[c] \in Int
    BY SurplusTyped DEF Surpluses
  <2>3. \A c \in StakingContracts : Surpluses'[c] \in Int
    BY <1>1, <2>1, <2>2
  <2>4. IsFiniteSet(StakingContracts)
    BY StakingAssumption
  <2>5. SumFunctionOnSet(Surpluses', StakingContracts) =
          SumFunctionOnSet(Surpluses, StakingContracts) + (Surpluses'[to] - Surpluses[to])
    BY ONLY <1>6, <2>1, <2>2, <2>3, <2>4, SumChange
  <2>6. Strays' = Strays + n
    BY <1>1, <1>6, <2>1, <2>2, <2>5, StraysAreSurpluses
  <2>7. Wallets' = [Wallets EXCEPT ![from] = @ - n]
    BY <1>1, <1>6 DEF Wallets
  <2>8. Ledger!Stray(from, n)
    BY <1>2, <2>6, <2>7 DEF Ledger!Stray
  <2> QED
    BY <1>2, <1>3, <2>8 DEF Ledger!Next
<1> QED
  BY <1>5, <1>6 DEF Holder

(* A migration takes a stake from one contract to another: what is locked   *)
(* in its owner's name stays.                                               *)
LEMMA MigrationLocksTheSame ==
  ASSUME StakingTypeOK, NEW c \in StakingContracts, NEW o \in Address,
         NEW d \in StakingContracts, NEW n \in Amounts, MigrateStakedTokens(c, o, d, n)
  PROVE  \A q \in Address : LockedOf(q)' = LockedOf(q)
<1>1. /\ n \in Nat
      /\ \A e \in StakingContracts, q \in Address :
           <<e, q>> \notin {<<c, o>>, <<d, o>>} => stakes'[e][q] = stakes[e][q]
      /\ c = d => stakes'[c][o].amount = stakes[c][o].amount
      /\ c # d => /\ stakes'[c][o].amount = stakes[c][o].amount - n
                  /\ stakes'[d][o].amount = stakes[d][o].amount + n
      /\ stakes'[c][o].cooldownAmount = stakes[c][o].cooldownAmount
      /\ stakes'[d][o].cooldownAmount = stakes[d][o].cooldownAmount
  BY MigrationEffect
<1>2. ASSUME NEW q \in Address \ {o}
      PROVE  LockedOf(q)' = LockedOf(q)
  <2>1. \A e \in StakingContracts : Held(e, q)' = Held(e, q)
    BY <1>1 DEF Held
  <2> QED
    BY <2>1, LockedUntouched
<1>3. CASE c = d
  <2>1. \A e \in StakingContracts : Held(e, o)' = Held(e, o)
    BY <1>1, <1>3 DEF Held
  <2>2. LockedOf(o)' = LockedOf(o)
    BY <2>1, LockedUntouched
  <2> QED
    BY <1>2, <2>2
<1>4. CASE c # d
  <2>0. IsFiniteSet(StakingContracts)
    BY StakingAssumption
  <2>1. \A e \in StakingContracts : /\ stakes[e][o].amount \in Nat
                                    /\ stakes[e][o].cooldownAmount \in Nat
    BY StakeTyped
  <2>2. Held(c, o)' = Held(c, o) - n /\ Held(d, o)' = Held(d, o) + n
    BY <1>1, <1>4, <2>1 DEF Held
  <2>3. \A e \in StakingContracts \ {c, d} : Held(e, o)' = Held(e, o)
    BY <1>1 DEF Held
  <2>4. \A e \in StakingContracts : HeldBy(o)[e] \in Int
    BY HeldTyped DEF HeldBy
  <2>5. /\ HeldBy(o)'[c] = HeldBy(o)[c] - n /\ HeldBy(o)'[d] = HeldBy(o)[d] + n
        /\ \A e \in StakingContracts \ {c, d} : HeldBy(o)'[e] = HeldBy(o)[e]
    BY <2>2, <2>3 DEF HeldBy
  <2>6. PICK mid : mid = [HeldBy(o) EXCEPT ![c] = @ - n]
    OBVIOUS
  <2>7. /\ mid[c] = HeldBy(o)[c] - n
        /\ \A e \in StakingContracts \ {c} : mid[e] = HeldBy(o)[e]
    BY <2>6 DEF HeldBy
  <2>8. \A e \in StakingContracts : mid[e] \in Int
    BY <1>1, <2>4, <2>7
  <2>9. \A e \in StakingContracts : HeldBy(o)'[e] \in Int
    BY <1>1, <2>4, <2>5
  <2>10. SumFunctionOnSet(mid, StakingContracts) =
           SumFunctionOnSet(HeldBy(o), StakingContracts) + (mid[c] - HeldBy(o)[c])
    <3>1. /\ \A e \in StakingContracts : HeldBy(o)[e] \in Int /\ mid[e] \in Int
          /\ \A e \in StakingContracts \ {c} : mid[e] = HeldBy(o)[e]
      BY <2>4, <2>7, <2>8
    <3> QED
      BY ONLY <2>0, <3>1, c \in StakingContracts, SumChange
  <2>11. \A e \in StakingContracts \ {d} : HeldBy(o)'[e] = mid[e]
    BY <2>5, <2>7
  <2>12. SumFunctionOnSet(HeldBy(o)', StakingContracts) =
           SumFunctionOnSet(mid, StakingContracts) + (HeldBy(o)'[d] - mid[d])
    BY ONLY <2>0, <2>8, <2>9, <2>11, d \in StakingContracts, SumChange
  <2>13. SumFunctionOnSet(HeldBy(o), StakingContracts) \in Int
    BY ONLY <2>0, <2>4, SumType
  <2>14. mid[c] - HeldBy(o)[c] = -n /\ HeldBy(o)'[d] - mid[d] = n
    BY <1>1, <1>4, <2>4, <2>5, <2>7
  <2>15. SumFunctionOnSet(HeldBy(o)', StakingContracts) = SumFunctionOnSet(HeldBy(o), StakingContracts)
    <3>1. /\ n \in Nat
          /\ SumFunctionOnSet(mid, StakingContracts) =
               SumFunctionOnSet(HeldBy(o), StakingContracts) + (-n)
          /\ SumFunctionOnSet(HeldBy(o)', StakingContracts) =
               SumFunctionOnSet(mid, StakingContracts) + n
      BY <1>1, <2>10, <2>12, <2>14
    <3> QED
      BY ONLY <2>13, <3>1
  <2>16. LockedOf(o)' = LockedOf(o)
    BY <2>15, LockedIsSum
  <2> QED
    BY <1>2, <2>16
<1> QED
  BY <1>3, <1>4

(* The stakes of everybody but o stay as they are: what is locked in their  *)
(* names does too, and what is locked in o's follows the one contract.      *)
LEMMA LockedOfOne ==
  ASSUME StakingTypeOK, StakingTypeOK', NEW c \in StakingContracts, NEW o \in Address,
         OthersStay(c, o), NEW gain \in Int, Held(c, o)' = Held(c, o) + gain
  PROVE  /\ LockedOf(o)' = LockedOf(o) + gain
         /\ \A q \in Address \ {o} : LockedOf(q)' = LockedOf(q)
<1>1. LockedOf(o)' = LockedOf(o) + (Held(c, o)' - Held(c, o))
  <2>1. \A e \in StakingContracts \ {c} : stakes'[e][o] = stakes[e][o]
    BY DEF OthersStay
  <2> QED
    BY <2>1, LockedChange
<1>2. Held(c, o)' - Held(c, o) = gain
  BY HeldTyped
<1>3. \A q \in Address \ {o} : \A e \in StakingContracts : Held(e, q)' = Held(e, q)
  BY DEF OthersStay, Held
<1> QED
  BY <1>1, <1>2, <1>3, LockedUntouched

(* The token's transfers seen from people's wallets.                        *)
LEMMA PaidByOne ==
  ASSUME StakingTypeOK, NEW sender \in Address, NEW c \in StakingContracts, NEW n \in Nat,
         TransferTokens(sender, c, n)
  PROVE  /\ n <= balance[sender] /\ balance'[sender] = balance[sender] - n
         /\ \A q \in Address \ {sender} : balance'[q] = balance[q]
<1>1. /\ balance \in [Holder -> Nat] /\ Address \subseteq Holder /\ c \in Holder
      /\ c \notin Address
  BY StakingAssumption DEF StakingTypeOK, Holder, Account
<1> QED
  BY <1>1 DEF TransferTokens

LEMMA PaidToOne ==
  ASSUME StakingTypeOK, NEW o \in Address, NEW c \in StakingContracts, NEW n \in Nat,
         TransferTokens(c, o, n)
  PROVE  /\ balance'[o] = balance[o] + n
         /\ \A q \in Address \ {o} : balance'[q] = balance[q]
<1>1. /\ balance \in [Holder -> Nat] /\ Address \subseteq Holder /\ c \in Holder
      /\ c \notin Address
  BY StakingAssumption DEF StakingTypeOK, Holder, Account
<1> QED
  BY <1>1 DEF TransferTokens

LEMMA CreditIsSeen ==
  ASSUME StakingTypeOK, StakingTypeOK', WithinSupply, WithinSupply',
         \A c \in StakingContracts : Together(c, 0),
         NEW d \in StakingContracts, NEW o \in Address, NEW sender \in Address, NEW n \in Amounts,
         CreditStake(d, sender, o, n)
  PROVE  Ledger!Next
<1>1. /\ OthersStay(d, o)
      /\ stakes'[d][o].amount = stakes[d][o].amount + n
      /\ stakes'[d][o].cooldownAmount = stakes[d][o].cooldownAmount
      /\ n \in Nat
  BY CreditStakeEffect
<1>2. Held(d, o)' = Held(d, o) + n
  BY <1>1, StakeTyped DEF Held
<1>3. /\ LockedOf(o)' = LockedOf(o) + n
      /\ \A q \in Address \ {o} : LockedOf(q)' = LockedOf(q)
  BY <1>1, <1>2, LockedOfOne
<1>4. /\ n <= balance[sender] /\ balance'[sender] = balance[sender] - n
      /\ \A q \in Address \ {sender} : balance'[q] = balance[q]
  BY <1>1, PaidByOne DEF CreditStake
<1>5. PICK more : more = [q \in {o} |-> n]
  OBVIOUS
<1>6. SumFunctionOnSet(more, {o}) = n
  BY <1>1, <1>5, SumSingleton
<1>7. \A q \in {o} : more[q] \in Nat \ {0} /\ LockedOf(q)' = LockedOf(q) + more[q]
  BY <1>1, <1>3, <1>5 DEF CreditStake
<1>8. {o} \in SUBSET Address /\ {o} # {}
  OBVIOUS
<1> QED
  BY <1>3, <1>4, <1>6, <1>7, <1>8, LockIsSeen

LEMMA WithdrawalIsSeen ==
  ASSUME StakingTypeOK, StakingTypeOK', WithinSupply, WithinSupply',
         \A c \in StakingContracts : Together(c, 0),
         NEW d \in StakingContracts, NEW o \in Address, Withdraw(d, o)
  PROVE  Ledger!Next
<1>1. /\ Withdrawable(d, o) \in Nat \ {0}
      /\ stakes'[d][o] = AfterWithdrawal(d, o) /\ OthersStay(d, o)
      /\ TransferTokens(d, o, Withdrawable(d, o))
  BY WithdrawableTyped DEF Withdraw, CanWithdraw, StakingTypeOK, OthersStay
<1>2. Held(d, o)' = Held(d, o) + (-Withdrawable(d, o)) /\ -Withdrawable(d, o) \in Int
  <2>1. Held(d, o) - Held(d, o)' = Withdrawable(d, o)
    BY <1>1, WithdrawalEffect
  <2> QED
    BY <1>1, <2>1, HeldTyped, HeldTypedNext
<1>3. /\ LockedOf(o)' = LockedOf(o) + (-Withdrawable(d, o))
      /\ \A q \in Address \ {o} : LockedOf(q)' = LockedOf(q)
  BY <1>1, <1>2, LockedOfOne
<1>4. /\ balance'[o] = balance[o] + Withdrawable(d, o)
      /\ \A q \in Address \ {o} : balance'[q] = balance[q]
  BY <1>1, PaidToOne
<1>5. PICK less : less = [q \in {o} |-> Withdrawable(d, o)]
  OBVIOUS
<1>6. LockedOf(o)' = LockedOf(o) - Withdrawable(d, o)
  BY <1>1, <1>3, LockedTyped
<1>7. \A q \in {o} : /\ less[q] \in Nat \ {0}
                     /\ LockedOf(q)' = LockedOf(q) - less[q]
                     /\ balance'[q] = balance[q] + less[q]
  BY <1>1, <1>4, <1>5, <1>6
<1>8. {o} \in SUBSET Address /\ {o} # {}
  OBVIOUS
<1> QED
  BY <1>3, <1>4, <1>7, <1>8, ReturnIsSeen

LEMMA MoveIsSeen ==
  ASSUME StakingTypeOK, StakingTypeOK', WithinSupply, WithinSupply',
         NEW d \in StakingContracts, NEW o \in Address, MoveStake(d, o)
  PROVE  Ledger!Next \/ UNCHANGED Ledger!ledgerVars
<1>0. \A c \in StakingContracts : Together(c, 0)
  BY MoveKeepsTogether
<1>k. ASSUME OthersStay(d, o), Held(d, o)' = Held(d, o), UNCHANGED balance
      PROVE  UNCHANGED Ledger!ledgerVars
  <2>1. Held(d, o)' = Held(d, o) + 0
    BY <1>k, HeldTyped
  <2>2. /\ LockedOf(o)' = LockedOf(o) + 0
        /\ \A q \in Address \ {o} : LockedOf(q)' = LockedOf(q)
    BY <1>k, <2>1, LockedOfOne
  <2>3. \A q \in Address : LockedOf(q)' = LockedOf(q)
    BY <2>2, LockedTyped
  <2> QED
    BY <1>0, <1>k, <2>3, NothingIsSeen
<1>1. ASSUME NEW n \in Amounts, NEW sender \in Address, CreditStake(d, sender, o, n)
      PROVE  Ledger!Next
  BY <1>0, <1>1, CreditIsSeen
<1>2. ASSUME NEW n \in Amounts, Unstake(d, o, n)
      PROVE  UNCHANGED Ledger!ledgerVars
  <2>1. /\ n \in Nat
        /\ stakes'[d][o].amount = stakes[d][o].amount - n
        /\ stakes'[d][o].cooldownAmount = stakes[d][o].cooldownAmount + n
        /\ OthersStay(d, o) /\ UNCHANGED balance
    BY <1>2, StakingAssumption DEF Unstake, StakingTypeOK, OthersStay
  <2>2. Held(d, o)' = Held(d, o)
    BY <2>1, StakeTyped DEF Held
  <2> QED
    BY <1>k, <2>1, <2>2
<1>3. ASSUME NEW e \in StakingContracts, NEW n \in Amounts, MigrateStakedTokens(d, o, e, n)
      PROVE  UNCHANGED Ledger!ledgerVars
  <2>1. n \in Nat /\ TransferTokens(d, e, n)
    BY <1>3, StakingAssumption DEF MigrateStakedTokens
  <2>2. \A q \in Address : q \in Holder /\ q # d /\ q # e
    BY StakingAssumption DEF Holder, Account
  <2>3. \A q \in Address : balance'[q] = balance[q]
    BY <2>1, <2>2 DEF TransferTokens, StakingTypeOK
  <2> QED
    BY <1>0, <1>3, <2>3, MigrationLocksTheSame, NothingIsSeen
<1>4. ASSUME Restake(d, o)
      PROVE  UNCHANGED Ledger!ledgerVars
  <2>1. /\ stakes'[d][o].amount = stakes[d][o].amount + stakes[d][o].cooldownAmount
        /\ stakes'[d][o].cooldownAmount = 0
        /\ OthersStay(d, o) /\ UNCHANGED balance
    BY <1>4 DEF Restake, StakingTypeOK, OthersStay
  <2>2. Held(d, o)' = Held(d, o)
    BY <2>1, StakeTyped DEF Held
  <2> QED
    BY <1>k, <2>1, <2>2
<1>5. ASSUME Withdraw(d, o)
      PROVE  Ledger!Next
  BY <1>0, <1>5, WithdrawalIsSeen
<1>6. \/ \E n \in Amounts, sender \in Address : CreditStake(d, sender, o, n)
      \/ \E n \in Amounts : Unstake(d, o, n)
      \/ \E n \in Amounts, e \in StakingContracts : MigrateStakedTokens(d, o, e, n)
      \/ Restake(d, o)
      \/ Withdraw(d, o)
  BY Zenon DEF MoveStake, Stake, AcceptMigration
<1> QED
  BY ONLY <1>1, <1>2, <1>3, <1>4, <1>5, <1>6

LEMMA RewardsAreSeen ==
  ASSUME StakingTypeOK, StakingTypeOK', WithinSupply, WithinSupply',
         NEW d \in StakingContracts, NEW sender \in Address,
         NEW total \in Amounts, NEW reward \in RewardLists,
         DistributeRewards(d, sender, total, reward)
  PROVE  Ledger!Next
<1>0. \A c \in StakingContracts : Together(c, 0)
  BY RewardsKeepTogether
<1>1. PICK owners \in SUBSET Address : reward \in [owners -> Amounts]
  BY DEF RewardLists
<1>2. /\ owners # {} /\ \A o \in owners : reward[o] \in Nat \ {0}
      /\ total \in Nat /\ total = SumFunctionOnSet(reward, owners)
  BY <1>1, SumOfFunction, StakingAssumption DEF DistributeRewards
<1>3. /\ total <= balance[sender] /\ balance'[sender] = balance[sender] - total
      /\ \A q \in Address \ {sender} : balance'[q] = balance[q]
  BY <1>2, PaidByOne DEF DistributeRewards
<1>4. /\ \A e \in StakingContracts \ {d}, q \in Address : stakes'[e][q] = stakes[e][q]
      /\ \A q \in Address \ owners : stakes'[d][q] = stakes[d][q]
      /\ \A q \in owners : stakes'[d][q] = [stakes[d][q] EXCEPT !.amount = @ + reward[q]]
  BY <1>1 DEF DistributeRewards, StakingTypeOK
<1>5. ASSUME NEW q \in owners PROVE Held(d, q)' = Held(d, q) + reward[q]
  <2>0. /\ stakes'[d][q] = [stakes[d][q] EXCEPT !.amount = @ + reward[q]]
        /\ stakes[d][q] \in StakeData
    <3>1. q \in Address
      BY <1>1
    <3> QED BY <1>4, <3>1, StakeTyped
  <2>1. /\ stakes'[d][q].amount = stakes[d][q].amount + reward[q]
        /\ stakes'[d][q].cooldownAmount = stakes[d][q].cooldownAmount
    BY ONLY <2>0 DEF StakeData
  <2> QED
    BY <1>2, <2>1, StakeTyped DEF Held
<1>6. \A q \in Address : LockedOf(q)' = LockedOf(q) + (Held(d, q)' - Held(d, q))
  BY <1>4, LockedChange
<1>7. \A q \in owners : LockedOf(q)' = LockedOf(q) + reward[q]
  <2> SUFFICES ASSUME NEW q \in owners PROVE LockedOf(q)' = LockedOf(q) + reward[q]
    OBVIOUS
  <2>1. Held(d, q) \in Nat /\ reward[q] \in Nat /\ q \in Address
    BY <1>2, HeldTyped
  <2>2. Held(d, q)' - Held(d, q) = reward[q]
    BY <1>5, <2>1
  <2> QED
    BY <1>6, <2>1, <2>2
<1>8. \A q \in Address \ owners : LockedOf(q)' = LockedOf(q)
  <2>1. \A q \in Address \ owners : \A e \in StakingContracts : Held(e, q)' = Held(e, q)
    BY <1>4 DEF Held
  <2> QED
    BY <2>1, LockedUntouched
<1> QED
  BY <1>0, <1>2, <1>3, <1>7, <1>8, LockIsSeen

LEMMA BatchIsSeen ==
  ASSUME StakingTypeOK, StakingTypeOK', WithinSupply, WithinSupply',
         NEW d \in StakingContracts, NEW owners \in SUBSET Address,
         WithdrawReleasedStakes(d, owners)
  PROVE  Ledger!Next \/ UNCHANGED Ledger!ledgerVars
<1>0. \A c \in StakingContracts : Together(c, 0)
  BY BatchKeepsTogether
<1>1. PICK less : less = [q \in owners |-> Withdrawable(d, q)]
  OBVIOUS
<1>2. \A q \in owners : less[q] \in Nat \ {0}
  BY <1>1, WithdrawableTyped DEF WithdrawReleasedStakes, CanWithdraw
<1>3. /\ \A q \in owners : balance'[q] = balance[q] + less[q]
      /\ \A q \in Address \ owners : balance'[q] = balance[q]
  <2>1. \A q \in Address : q \in Holder /\ q # d
    BY StakingAssumption DEF Holder, Account
  <2> QED
    BY <1>1, <2>1 DEF WithdrawReleasedStakes
<1>4. /\ \A e \in StakingContracts \ {d}, q \in Address : stakes'[e][q] = stakes[e][q]
      /\ \A q \in Address \ owners : stakes'[d][q] = stakes[d][q]
      /\ \A q \in owners : stakes'[d][q] = AfterWithdrawal(d, q)
  BY DEF WithdrawReleasedStakes, StakingTypeOK
<1>5. \A q \in owners : Held(d, q) - Held(d, q)' = less[q]
  BY <1>1, <1>4, WithdrawalEffect
<1>6. \A q \in Address : LockedOf(q)' = LockedOf(q) + (Held(d, q)' - Held(d, q))
  BY <1>4, LockedChange
<1>7. \A q \in owners : LockedOf(q)' = LockedOf(q) - less[q]
  <2> SUFFICES ASSUME NEW q \in owners PROVE LockedOf(q)' = LockedOf(q) - less[q]
    OBVIOUS
  <2>1. /\ Held(d, q) \in Nat /\ Held(d, q)' \in Nat /\ less[q] \in Nat /\ q \in Address
        /\ LockedOf(q) \in Nat
    BY <1>2, HeldTyped, HeldTypedNext, LockedTyped
  <2>2. LockedOf(q)' = LockedOf(q) + (Held(d, q)' - Held(d, q)) /\ Held(d, q) - Held(d, q)' = less[q]
    BY <1>5, <1>6, <2>1
  <2> QED
    BY ONLY <2>1, <2>2
<1>8. \A q \in Address \ owners : LockedOf(q)' = LockedOf(q)
  <2>1. \A q \in Address \ owners : \A e \in StakingContracts : Held(e, q)' = Held(e, q)
    BY <1>4 DEF Held
  <2> QED
    BY <2>1, LockedUntouched
<1>9. CASE owners = {}
  BY <1>0, <1>3, <1>8, <1>9, NothingIsSeen
<1>10. CASE owners # {}
  BY <1>0, <1>2, <1>3, <1>7, <1>8, <1>10, ReturnIsSeen
<1> QED
  BY <1>9, <1>10

(* Every transaction is a step of the ledger or cannot be seen in it.       *)
LEMMA StepIsSeen ==
  ASSUME StakingTypeOK, StakingTypeOK', WithinSupply, WithinSupply', [StakingNext]_stakingVars
  PROVE  Ledger!Next \/ UNCHANGED Ledger!ledgerVars
<1>1. ASSUME UNCHANGED books
      PROVE  UNCHANGED Ledger!ledgerVars
  <2>1. \A c \in StakingContracts : Together(c, 0)
    <3> SUFFICES ASSUME NEW c \in StakingContracts PROVE Together(c, 0)
      OBVIOUS
    <3>1. balance'[c] = balance[c] + 0
      BY <1>1 DEF books, StakingTypeOK, Holder
    <3> QED
      BY <1>1, <3>1, TogetherUntouched DEF books
  <2>2. \A o \in Address : LockedOf(o)' = LockedOf(o)
    BY <1>1, LockedUntouched DEF books, Held
  <2> QED
    BY <1>1, <2>1, <2>2, NothingIsSeen DEF books
<1>2. ASSUME NEW c \in StakingContracts, NEW p \in Address, Manage(c, p)
      PROVE  UNCHANGED Ledger!ledgerVars
  BY <1>1, <1>2, ManageKeepsBooks
<1> QED
  BY <1>1, <1>2, MoveIsSeen, RewardsAreSeen, BatchIsSeen, TransferIsSeen
     DEF StakingNext, Tick, stakingVars

(* The contracts implement the ledger, ImplementsLedger: cooldowns,         *)
(* restakes and migrations cannot be seen, and no call makes, loses or      *)
(* hands over a token.                                                      *)
THEOREM ContractsImplementLedger == StakingSpec => ImplementsLedger
<1>1. StakingInit => Ledger!Init
  <2> SUFFICES ASSUME StakingInit PROVE Ledger!Init
    OBVIOUS
  <2>0. IsFiniteSet(StakingContracts) /\ IsFiniteSet(Address)
    BY StakingAssumption, AddressAssumption
  <2>1. Wallets = InitialBalance
    BY StakingAssumption DEF StakingInit, Wallets, Holder
  <2>2. \A o \in Address : LockedOf(o) = 0
    <3> SUFFICES ASSUME NEW o \in Address PROVE LockedOf(o) = 0
      OBVIOUS
    <3>1. \A c \in StakingContracts : HeldBy(o)[c] = 0
      BY DEF StakingInit, NoStake, HeldBy, Held
    <3> QED
      BY <2>0, <3>1, SumOfZeros, LockedIsSum
  <2>3. \A c \in StakingContracts : Surpluses[c] = 0
    <3> SUFFICES ASSUME NEW c \in StakingContracts PROVE Surpluses[c] = 0
      OBVIOUS
    <3>1. \A o \in Address : HoldingsIn(c)[o] = 0
      BY DEF StakingInit, NoStake, HoldingsIn, Held
    <3>2. SumFunctionOnSet(HoldingsIn(c), Address) = 0
      BY <2>0, <3>1, SumOfZeros
    <3>3. balance[c] = 0
      BY StakingAssumption DEF StakingInit, Holder, Account
    <3> QED
      BY <3>2, <3>3 DEF Surpluses, Surplus
  <2>4. Strays = 0
    BY <2>0, <2>3, SumOfZeros, StraysAreSurpluses
  <2>5. Locked = [o \in Address |-> 0]
    BY <2>2 DEF Locked
  <2> QED
    BY <2>1, <2>4, <2>5 DEF Ledger!Init
<1>2. /\ StakingTypeOK /\ StakingTypeOK' /\ WithinSupply /\ WithinSupply'
      /\ [StakingNext]_stakingVars
      => [Ledger!Next]_Ledger!ledgerVars
  BY StepIsSeen
<1>3. StakingTypeOK /\ BooksBalance /\ Conserved => WithinSupply
  BY AllWithinSupply
<1>4. StakingSpec => [](StakingTypeOK /\ WithinSupply)
  BY <1>3, StakingTypeCorrect, BooksAlwaysBalance, TokensAlwaysConserved, PTL
<1> QED
  BY <1>1, <1>2, <1>4, PTL DEF StakingSpec, ImplementsLedger, Ledger!Spec

-----------------------------------------------------------------------------
(* Stakes through their cooldown.  Of what an owner has in a contract, this *)
(* much cannot be withdrawn before a cooldown has passed since t: the stake *)
(* and, if it waits that long, what is cooling down.                        *)

KeptThrough(c, o, t) ==
  stakes[c][o].amount
    + IF t + CooldownPeriod <= stakes[c][o].cooldownEndTime THEN stakes[c][o].cooldownAmount ELSE 0

KeptBy(o, t) == [c \in StakingContracts |-> KeptThrough(c, o, t)]

KeptOf(o, t) == SumFunctionOnSet(KeptBy(o, t), StakingContracts)

StakedBy(o) == [c \in StakingContracts |-> stakes[c][o].amount]

NoRelease == \A c \in StakingContracts : ~releasingAllStakes[c]

HistoryInv ==
  /\ stakedDuring \in [Address -> [0 .. MaxTime -> Nat]]
  /\ \A o \in Address, t \in 0 .. MaxTime : t > now => stakedDuring[o][t] = 0
  /\ NoRelease =>
       \A o \in Address, t \in 0 .. MaxTime : Recent(t, now) => stakedDuring[o][t] <= KeptOf(o, t)

LEMMA KeptTyped ==
  ASSUME StakingTypeOK, NEW c \in StakingContracts, NEW o \in Address, NEW t
  PROVE  /\ KeptThrough(c, o, t) \in Nat
         /\ stakes[c][o].amount <= KeptThrough(c, o, t)
         /\ KeptThrough(c, o, t) <= Held(c, o)
         /\ KeptBy(o, t)[c] = KeptThrough(c, o, t)
         /\ StakedBy(o)[c] = stakes[c][o].amount /\ StakedBy(o)[c] \in Nat
         /\ HeldBy(o)[c] = Held(c, o) /\ HeldBy(o)[c] \in Nat
BY StakeTyped DEF KeptThrough, KeptBy, StakedBy, HeldBy, Held

LEMMA KeptTypedNext ==
  ASSUME StakingTypeOK', NEW c \in StakingContracts, NEW o \in Address, NEW t \in Nat
  PROVE  /\ KeptThrough(c, o, t)' \in Nat
         /\ stakes'[c][o].amount <= KeptThrough(c, o, t)'
         /\ KeptBy(o, t)'[c] = KeptThrough(c, o, t)'
         /\ StakedBy(o)'[c] = stakes'[c][o].amount /\ StakedBy(o)'[c] \in Nat
<1>1. stakes'[c][o] \in StakeData
  BY DEF StakingTypeOK
<1>2. stakes'[c][o].amount \in Nat /\ stakes'[c][o].cooldownAmount \in Nat
  BY <1>1 DEF StakeData
<1> QED BY <1>2 DEF KeptThrough, KeptBy, StakedBy

(* What is kept is staked or more, and locked or less.                      *)
LEMMA KeptIsBetween ==
  ASSUME StakingTypeOK, NEW o \in Address, NEW t \in Nat
  PROVE  KeptOf(o, t) \in Nat /\ KeptOf(o, t) <= LockedOf(o)
<1>1. \A c \in StakingContracts : KeptBy(o, t)[c] \in Nat
  BY KeptTyped
<1>2. \A c \in StakingContracts : /\ KeptBy(o, t)[c] \in Int /\ HeldBy(o)[c] \in Int
                                  /\ KeptBy(o, t)[c] <= HeldBy(o)[c]
  BY KeptTyped
<1>3. IsFiniteSet(StakingContracts)
  BY StakingAssumption
<1>4. SumFunctionOnSet(KeptBy(o, t), StakingContracts) \in Nat
  BY ONLY <1>1, <1>3, SumType
<1>5. SumFunctionOnSet(KeptBy(o, t), StakingContracts) <= SumFunctionOnSet(HeldBy(o), StakingContracts)
  BY ONLY <1>2, <1>3, SumMonotonic
<1> QED BY <1>4, <1>5, LockedIsSum DEF KeptOf

LEMMA StakedIsKept ==
  ASSUME StakingTypeOK', NEW o \in Address, NEW t \in Nat
  PROVE  StakedOf(o)' \in Nat /\ KeptOf(o, t)' \in Nat /\ StakedOf(o)' <= KeptOf(o, t)'
<1>1. \A c \in StakingContracts : KeptBy(o, t)'[c] \in Nat /\ StakedBy(o)'[c] \in Nat
  BY KeptTypedNext
<1>2. \A c \in StakingContracts : /\ StakedBy(o)'[c] \in Int /\ KeptBy(o, t)'[c] \in Int
                                  /\ StakedBy(o)'[c] <= KeptBy(o, t)'[c]
  BY KeptTypedNext
<1>3. IsFiniteSet(StakingContracts)
  BY StakingAssumption
<1>4. SumFunctionOnSet(KeptBy(o, t)', StakingContracts) \in Nat
  BY ONLY <1>1, <1>3, SumType
<1>5. SumFunctionOnSet(StakedBy(o)', StakingContracts) \in Nat
  BY ONLY <1>1, <1>3, SumType
<1>6. SumFunctionOnSet(StakedBy(o)', StakingContracts) <= SumFunctionOnSet(KeptBy(o, t)', StakingContracts)
  BY ONLY <1>2, <1>3, SumMonotonic
<1>7. StakedOf(o)' = SumFunctionOnSet(StakedBy(o)', StakingContracts)
  <2>1. StakedOf(o)' = SumFunction(StakedBy(o)') /\ DOMAIN StakedBy(o)' = StakingContracts
    BY DEF StakedOf, StakedBy
  <2> QED BY <2>1, SumOfFunction
<1> QED BY <1>4, <1>5, <1>6, <1>7 DEF KeptOf

LEMMA KeptGrowsPointwise ==
  ASSUME StakingTypeOK, StakingTypeOK', NEW o \in Address, NEW t \in Nat,
         \A c \in StakingContracts : KeptThrough(c, o, t) <= KeptThrough(c, o, t)'
  PROVE  KeptOf(o, t) <= KeptOf(o, t)'
<1>1. \A c \in StakingContracts : /\ KeptBy(o, t)[c] \in Int /\ KeptBy(o, t)'[c] \in Int
                                  /\ KeptBy(o, t)[c] <= KeptBy(o, t)'[c]
  BY KeptTyped, KeptTypedNext
<1>2. IsFiniteSet(StakingContracts)
  BY StakingAssumption
<1>3. SumFunctionOnSet(KeptBy(o, t), StakingContracts) <= SumFunctionOnSet(KeptBy(o, t)', StakingContracts)
  BY ONLY <1>1, <1>2, SumMonotonic
<1> QED BY <1>3 DEF KeptOf

(* A migration moves the stake, and nothing else, to another contract.      *)
LEMMA MigrationKeeps ==
  ASSUME StakingTypeOK, StakingTypeOK', NEW c \in StakingContracts, NEW q \in Address,
         NEW d \in StakingContracts, NEW n \in Amounts, MigrateStakedTokens(c, q, d, n),
         NEW o \in Address, NEW t \in Nat
  PROVE  KeptOf(o, t) <= KeptOf(o, t)'
<1>1. /\ n \in Nat
      /\ \A e \in StakingContracts, p \in Address :
           <<e, p>> \notin {<<c, q>>, <<d, q>>} => stakes'[e][p] = stakes[e][p]
      /\ c = d => stakes'[c][q].amount = stakes[c][q].amount
      /\ c # d => /\ stakes'[c][q].amount = stakes[c][q].amount - n
                  /\ stakes'[d][q].amount = stakes[d][q].amount + n
      /\ \A e \in {c, d} : /\ stakes'[e][q].cooldownAmount = stakes[e][q].cooldownAmount
                           /\ stakes'[e][q].cooldownEndTime = stakes[e][q].cooldownEndTime
  BY MigrationEffect
<1>2. \A e \in StakingContracts : e \notin {c, d} \/ o # q
                                    => KeptThrough(e, o, t)' = KeptThrough(e, o, t)
  BY <1>1 DEF KeptThrough
<1>3. CASE o # q \/ c = d
  <2>1. \A e \in StakingContracts : KeptThrough(e, o, t)' = KeptThrough(e, o, t)
    BY <1>1, <1>2, <1>3 DEF KeptThrough
  <2>2. \A e \in StakingContracts : KeptThrough(e, o, t) <= KeptThrough(e, o, t)'
    BY <2>1, KeptTyped
  <2> QED BY <2>2, KeptGrowsPointwise
<1>4. CASE o = q /\ c # d
  <2>1. \A e \in {c, d} : /\ stakes[e][q].amount \in Nat /\ stakes[e][q].cooldownAmount \in Nat
                          /\ stakes[e][q].cooldownEndTime \in Nat
    BY StakeTyped
  <2>2. /\ KeptThrough(c, q, t)' = KeptThrough(c, q, t) - n
        /\ KeptThrough(d, q, t)' = KeptThrough(d, q, t) + n
    <3>1. ASSUME NEW e \in {c, d}, NEW k \in Int,
                 stakes'[e][q].amount = stakes[e][q].amount + k
          PROVE  KeptThrough(e, q, t)' = KeptThrough(e, q, t) + k
      <4>1. PICK a, w : /\ a = stakes[e][q].amount
                        /\ w = IF t + CooldownPeriod <= stakes[e][q].cooldownEndTime
                                 THEN stakes[e][q].cooldownAmount ELSE 0
        OBVIOUS
      <4>2. a \in Nat /\ w \in Nat
        BY <2>1, <4>1
      <4>3. KeptThrough(e, q, t) = a + w /\ KeptThrough(e, q, t)' = (a + k) + w
        BY <1>1, <3>1, <4>1 DEF KeptThrough
      <4> QED BY <4>2, <4>3
    <3>2. -n \in Int /\ n \in Int /\ stakes'[c][q].amount = stakes[c][q].amount + (-n)
      BY <1>1, <1>4, <2>1
    <3>3. KeptThrough(c, q, t)' = KeptThrough(c, q, t) + (-n)
      BY <3>1, <3>2
    <3>4. KeptThrough(d, q, t)' = KeptThrough(d, q, t) + n
      BY <1>1, <1>4, <3>1, <3>2
    <3>5. KeptThrough(c, q, t) \in Nat
      BY KeptTyped
    <3> QED BY ONLY <1>1, <3>3, <3>4, <3>5
  <2>3. PICK f, g : f = KeptBy(o, t) /\ g = KeptBy(o, t)'
    OBVIOUS
  <2>4. /\ \A e \in StakingContracts : f[e] \in Int
        /\ g[c] = f[c] - n /\ g[d] = f[d] + n
        /\ \A e \in StakingContracts \ {c, d} : g[e] = f[e]
    <3>1. \A e \in StakingContracts : /\ f[e] = KeptThrough(e, o, t) /\ f[e] \in Int
                                      /\ g[e] = KeptThrough(e, o, t)'
      <4>1. /\ f = [e \in StakingContracts |-> KeptThrough(e, o, t)]
            /\ g = [e \in StakingContracts |-> KeptThrough(e, o, t)']
        BY <2>3 DEF KeptBy
      <4>2. \A e \in StakingContracts : KeptThrough(e, o, t) \in Int
        BY KeptTyped
      <4> QED BY ONLY <4>1, <4>2
    <3>2. g[c] = f[c] - n /\ g[d] = f[d] + n
      BY <1>4, <2>2, <3>1
    <3>3. \A e \in StakingContracts \ {c, d} : g[e] = f[e]
      BY <1>2, <3>1
    <3> QED BY <3>1, <3>2, <3>3
  <2>5. IsFiniteSet(StakingContracts) /\ n \in Int
    BY <1>1, StakingAssumption
  <2>6. SumFunctionOnSet(g, StakingContracts) = SumFunctionOnSet(f, StakingContracts)
    <3>1. c # d
      BY <1>4
    <3>2. \A e \in StakingContracts : f[e] \in Int /\ g[e] \in Int
      <4>1. f[c] - n \in Int /\ f[d] + n \in Int
        BY <2>4, <2>5
      <4> QED BY <2>4, <4>1
    <3>3. \A e \in StakingContracts \ {c, d} : g[e] = f[e]
      BY <2>4
    <3>4. g[c] + g[d] = f[c] + f[d]
      BY <2>4, <2>5
    <3> QED BY ONLY <2>5, <3>1, <3>2, <3>3, <3>4, SumMove, c \in StakingContracts, d \in StakingContracts
  <2>7. KeptOf(o, t)' = KeptOf(o, t) /\ KeptOf(o, t) \in Nat
    BY <2>3, <2>6, KeptIsBetween DEF KeptOf
  <2> QED BY <2>7
<1> QED BY <1>3, <1>4

(* No step takes from what is kept, as long as a cooldown since t is not    *)
(* over.                                                                    *)
LEMMA KeptGrows ==
  ASSUME StakingTypeOK, StakingTypeOK', [StakingNext]_stakingVars, NoRelease',
         NEW o \in Address, NEW t \in Nat, t <= now, now' < t + CooldownPeriod
  PROVE  KeptOf(o, t) <= KeptOf(o, t)'
<1>0. /\ now \in Nat /\ now' \in Nat /\ CooldownPeriod \in Nat
      /\ \A c \in StakingContracts : /\ stakes[c][o].amount \in Nat
                                     /\ stakes[c][o].cooldownAmount \in Nat
                                     /\ stakes[c][o].cooldownEndTime \in Nat
  BY StakeTyped, StakingAssumption DEF StakingTypeOK
<1>1. SUFFICES ASSUME \A c \in StakingContracts, q \in Address, d \in StakingContracts, n \in Amounts :
                        ~MigrateStakedTokens(c, q, d, n),
                      NEW c \in StakingContracts
               PROVE  KeptThrough(c, o, t) <= KeptThrough(c, o, t)'
  BY KeptGrowsPointwise, MigrationKeeps
<1>2. KeptThrough(c, o, t) \in Nat
  BY KeptTyped
<1>3. CASE stakes'[c][o] = stakes[c][o]
  <2>1. KeptThrough(c, o, t)' = KeptThrough(c, o, t)
    BY <1>3 DEF KeptThrough
  <2> QED BY <1>2, <2>1
<1>4. ASSUME NEW d \in StakingContracts, NEW q \in Address, MoveStake(d, q)
      PROVE  KeptThrough(c, o, t) <= KeptThrough(c, o, t)'
  <2>0. SUFFICES ASSUME c = d, o = q PROVE KeptThrough(c, o, t) <= KeptThrough(c, o, t)'
    <3>1. ASSUME c # d \/ o # q PROVE stakes'[c][o] = stakes[c][o]
      <4>1. CASE \E n \in Amounts, sender \in Address : CreditStake(d, sender, q, n)
        BY <3>1, <4>1, CreditStakeEffect DEF OthersStay
      <4>2. CASE \E s : stakes' = [stakes EXCEPT ![d][q] = s]
        BY <3>1, <4>2 DEF StakingTypeOK
      <4>3. CASE \E n \in Amounts : Unstake(d, q, n)
        BY <4>2, <4>3 DEF Unstake
      <4>4. CASE Restake(d, q)
        BY <4>2, <4>4 DEF Restake
      <4>5. CASE Withdraw(d, q)
        BY <4>2, <4>5 DEF Withdraw
      <4> QED BY <1>1, <1>4, <4>1, <4>3, <4>4, <4>5 DEF MoveStake, Stake, AcceptMigration
    <3> QED BY <1>3, <3>1
  <2>1. ASSUME NEW n \in Amounts, NEW sender \in Address, CreditStake(c, sender, o, n)
        PROVE  KeptThrough(c, o, t) <= KeptThrough(c, o, t)'
    <3>1. /\ stakes'[c][o].amount = stakes[c][o].amount + n /\ n \in Nat
          /\ stakes'[c][o].cooldownAmount = stakes[c][o].cooldownAmount
          /\ stakes'[c][o].cooldownEndTime = stakes[c][o].cooldownEndTime
      BY <2>1, CreditStakeEffect
    <3> QED BY <1>0, <3>1 DEF KeptThrough
  <2>2. ASSUME NEW n \in Amounts, Unstake(c, o, n)
        PROVE  KeptThrough(c, o, t) <= KeptThrough(c, o, t)'
    <3>1. /\ stakes'[c][o].amount = stakes[c][o].amount - n
          /\ stakes'[c][o].cooldownAmount = stakes[c][o].cooldownAmount + n
          /\ stakes'[c][o].cooldownEndTime = now + CooldownPeriod
          /\ n \in Nat
      BY <2>2, StakingAssumption DEF Unstake, StakingTypeOK
    <3>2. KeptThrough(c, o, t)' = (stakes[c][o].amount - n) + (stakes[c][o].cooldownAmount + n)
      BY <1>0, <3>1 DEF KeptThrough
    <3> QED BY <1>0, <3>1, <3>2 DEF KeptThrough
  <2>3. ASSUME Restake(c, o)
        PROVE  KeptThrough(c, o, t) <= KeptThrough(c, o, t)'
    <3>1. /\ stakes'[c][o].amount = stakes[c][o].amount + stakes[c][o].cooldownAmount
          /\ stakes'[c][o].cooldownAmount = 0
      BY <2>3 DEF Restake, StakingTypeOK
    <3> QED BY <1>0, <3>1 DEF KeptThrough
  <2>4. ASSUME Withdraw(c, o)
        PROVE  KeptThrough(c, o, t) <= KeptThrough(c, o, t)'
    <3>1. ~releasingAllStakes[c] /\ now' = now
      BY <2>4 DEF Withdraw, NoRelease, switches
    <3>2. stakes[c][o].cooldownEndTime <= now
      BY <2>4, <3>1 DEF Withdraw, CanWithdraw
    <3>3. ReleasedStake(c, o) = 0
      BY <3>1 DEF ReleasedStake
    <3>4. stakes'[c][o].amount = stakes[c][o].amount - 0 /\ stakes'[c][o].cooldownAmount = 0
      BY <2>4, <3>3 DEF Withdraw, AfterWithdrawal, StakingTypeOK
    <3>5. ~(t + CooldownPeriod <= stakes[c][o].cooldownEndTime)
      BY <1>0, <3>1, <3>2
    <3> QED BY <1>0, <3>4, <3>5 DEF KeptThrough
  <2> QED BY <1>1, <1>4, <2>0, <2>1, <2>2, <2>3, <2>4 DEF MoveStake, Stake, AcceptMigration
<1>5. ASSUME NEW d \in StakingContracts, NEW sender \in Address, NEW total \in Amounts,
             NEW reward \in RewardLists, DistributeRewards(d, sender, total, reward)
      PROVE  KeptThrough(c, o, t) <= KeptThrough(c, o, t)'
  <2>1. CASE c = d /\ o \in DOMAIN reward
    <3>1. reward[o] \in Nat
      <4>1. PICK owners \in SUBSET Address : reward \in [owners -> Amounts]
        BY DEF RewardLists
      <4> QED BY <2>1, <4>1, StakingAssumption
    <3>2. stakes'[c][o] = [stakes[c][o] EXCEPT !.amount = @ + reward[o]]
      BY <1>5, <2>1 DEF DistributeRewards, StakingTypeOK
    <3>3. /\ stakes'[c][o].amount = stakes[c][o].amount + reward[o]
          /\ stakes'[c][o].cooldownAmount = stakes[c][o].cooldownAmount
          /\ stakes'[c][o].cooldownEndTime = stakes[c][o].cooldownEndTime
      BY <3>2, StakeTyped DEF StakeData
    <3> QED BY <1>0, <3>1, <3>3 DEF KeptThrough
  <2>2. CASE ~(c = d /\ o \in DOMAIN reward)
    <3>1. stakes'[c][o] = stakes[c][o]
      BY <1>5, <2>2 DEF DistributeRewards, StakingTypeOK
    <3> QED BY <1>3, <3>1
  <2> QED BY <2>1, <2>2
<1>6. ASSUME NEW d \in StakingContracts, NEW owners \in SUBSET Address, WithdrawReleasedStakes(d, owners)
      PROVE  FALSE
  BY <1>6 DEF WithdrawReleasedStakes, NoRelease, switches
<1>7. ASSUME NEW d \in StakingContracts, NEW p \in Address, Manage(d, p)
      PROVE  stakes' = stakes
  BY <1>7, ManageKeepsBooks DEF books
<1> QED BY <1>3, <1>4, <1>5, <1>6, <1>7, StepsOfTheContracts

(* The clock moves second by second.                                        *)
LEMMA TimeMoves == [StakingNext]_stakingVars => now' = now \/ now' = now + 1
<1> SUFFICES ASSUME [StakingNext]_stakingVars PROVE now' = now \/ now' = now + 1
  OBVIOUS
<1>1. ASSUME NEW c \in StakingContracts, NEW p \in Address, Manage(c, p) \/ MoveStake(c, p)
      PROVE  now' = now
  BY <1>1, ManageKeepsBooks, MoveKeepsManagement
<1> QED BY <1>1 DEF StakingNext, DistributeRewards, WithdrawReleasedStakes, TokenTransfer, Tick, stakingVars

LEMMA MaxOfTwo ==
  ASSUME NEW a \in Nat, NEW b \in Nat
  PROVE  Max({a, b}) \in {a, b}
<1>1. \E x \in {a, b} : \A y \in {a, b} : x >= y
  BY a >= b \/ b >= a
<1> QED BY <1>1 DEF Max

LEMMA RecentMoments ==
  ASSUME NEW time \in Nat, NEW next \in Nat, next = time \/ next = time + 1, NEW t \in 0 .. MaxTime
  PROVE  /\ t \in Nat
         /\ t = next => Recent(t, next)
         /\ t > next => ~Recent(t, next)
         /\ Recent(t, next) => t <= next /\ next < t + CooldownPeriod
         /\ Recent(t, next) /\ t <= time => Recent(t, time)
BY StakingAssumption DEF Recent

(* What is recorded in a step: of a second, the most that was staked while  *)
(* it lasted.                                                               *)
LEMMA RecordedStakes ==
  ASSUME StakingTypeOK', HistoryInv, RecordStakes, NEW o \in Address, NEW t \in 0 .. MaxTime
  PROVE  /\ ~Recent(t, now') => stakedDuring'[o][t] = 0
         /\ Recent(t, now') /\ t # now' => stakedDuring'[o][t] = stakedDuring[o][t]
         /\ Recent(t, now') /\ t = now' => stakedDuring'[o][t] \in {stakedDuring[o][t], StakedOf(o)'}
<1>1. stakedDuring'[o][t] =
        CASE ~Recent(t, now') -> 0
          [] t = now'         -> Max({stakedDuring[o][t], StakedOf(o)'})
          [] OTHER            -> stakedDuring[o][t]
  BY DEF RecordStakes
<1>2. now' \in Nat
  BY DEF StakingTypeOK
<1>3. t = now' => Recent(t, now')
  BY <1>2, RecentMoments
<1>4. Max({stakedDuring[o][t], StakedOf(o)'}) \in {stakedDuring[o][t], StakedOf(o)'}
  <2>1. stakedDuring[o][t] \in Nat
    BY DEF HistoryInv
  <2>2. StakedOf(o)' \in Nat
    BY StakedIsKept
  <2> QED BY <2>1, <2>2, MaxOfTwo
<1>5. ~Recent(t, now') => stakedDuring'[o][t] = 0
  <2> SUFFICES ASSUME ~Recent(t, now') PROVE stakedDuring'[o][t] = 0
    OBVIOUS
  <2> QED BY <1>1, <1>3
<1>6. Recent(t, now') /\ t # now' => stakedDuring'[o][t] = stakedDuring[o][t]
  BY ONLY <1>1
<1>7. Recent(t, now') /\ t = now' => stakedDuring'[o][t] = Max({stakedDuring[o][t], StakedOf(o)'})
  BY ONLY <1>1, <1>3
<1> QED BY ONLY <1>4, <1>5, <1>6, <1>7

LEMMA HistoryStep ==
  ASSUME StakingTypeOK, StakingTypeOK', HistoryInv, [StakingNext]_stakingVars, RecordStakes
  PROVE  HistoryInv'
<1>0. /\ now \in Nat /\ now' \in Nat /\ CooldownPeriod \in Nat \ {0} /\ MaxTime \in Nat
      /\ now' = now \/ now' = now + 1
  BY TimeMoves, StakingAssumption DEF StakingTypeOK
<1>1. ASSUME NEW o \in Address, NEW t \in 0 .. MaxTime
      PROVE  stakedDuring[o][t] \in Nat /\ StakedOf(o)' \in Nat
  BY <1>1, StakedIsKept DEF HistoryInv
<1>2. stakedDuring' \in [Address -> [0 .. MaxTime -> Nat]]
  <2>1. ASSUME NEW o \in Address, NEW t \in 0 .. MaxTime
        PROVE  stakedDuring'[o][t] \in Nat
    BY <1>1, RecordedStakes
  <2>2. \A o \in Address : stakedDuring'[o] = [t \in 0 .. MaxTime |-> stakedDuring'[o][t]]
    BY DEF RecordStakes
  <2>3. stakedDuring' = [o \in Address |-> stakedDuring'[o]]
    BY DEF RecordStakes
  <2>4. \A o \in Address : stakedDuring'[o] \in [0 .. MaxTime -> Nat]
    BY ONLY <2>1, <2>2
  <2> QED BY ONLY <2>3, <2>4
<1>3. ASSUME NEW o \in Address, NEW t \in 0 .. MaxTime, t > now'
      PROVE  stakedDuring'[o][t] = 0
  <2>1. ~Recent(t, now')
    BY <1>0, <1>3, RecentMoments
  <2> QED BY <2>1, RecordedStakes
<1>4. ASSUME NoRelease', NEW o \in Address, NEW t \in 0 .. MaxTime, Recent(t, now')
      PROVE  stakedDuring'[o][t] <= KeptOf(o, t)'
  <2>1. NoRelease
    BY <1>4, SwitchesAreThrownOnce DEF NoRelease
  <2>2. /\ t \in Nat /\ t <= now' /\ now' < t + CooldownPeriod
        /\ t <= now => Recent(t, now)
    BY <1>0, <1>4, RecentMoments
  <2>3. KeptOf(o, t) \in Nat /\ KeptOf(o, t)' \in Nat /\ StakedOf(o)' <= KeptOf(o, t)'
    BY <2>2, KeptIsBetween, StakedIsKept
  <2>4. stakedDuring[o][t] <= KeptOf(o, t)'
    <3>1. CASE t <= now
      <4>1. stakedDuring[o][t] <= KeptOf(o, t)
        BY <2>1, <2>2, <3>1 DEF HistoryInv
      <4>2. KeptOf(o, t) <= KeptOf(o, t)'
        BY <1>4, <2>2, <3>1, KeptGrows
      <4> QED BY <1>1, <2>3, <4>1, <4>2
    <3>2. CASE t > now
      <4>1. stakedDuring[o][t] = 0
        BY <3>2 DEF HistoryInv
      <4> QED BY <2>3, <4>1
    <3> QED BY <1>0, <2>2, <3>1, <3>2
  <2>5. stakedDuring'[o][t] \in {stakedDuring[o][t], StakedOf(o)'}
    BY <1>4, RecordedStakes
  <2> QED BY <2>3, <2>4, <2>5
<1> QED BY <1>2, <1>3, <1>4 DEF HistoryInv

LEMMA HistoryUnchanged ==
  ASSUME HistoryInv, UNCHANGED <<stakingVars, stakedDuring>>
  PROVE  HistoryInv'
<1>1. UNCHANGED <<stakes, now, releasingAllStakes, stakedDuring>>
  BY DEF stakingVars, books, switches
<1>2. \A o, t : KeptOf(o, t)' = KeptOf(o, t)
  BY <1>1 DEF KeptOf, KeptBy, KeptThrough
<1> QED BY <1>1, <1>2 DEF HistoryInv, NoRelease

(* StakingContract.sol: whatever was staked at any second stays with the    *)
(* contracts, in its owner's name, until a cooldown has passed since then.  *)
THEOREM StakeAlwaysStaysThroughCooldown == Spec => []StakeStaysThroughCooldown
<1>1. Spec => StakingSpec
  <2>1. [Next]_vars => [StakingNext]_stakingVars
    BY DEF Next, vars
  <2> QED BY <2>1, PTL DEF Spec, Init, StakingSpec
<1>2. Init => HistoryInv
  <2> SUFFICES ASSUME Init PROVE HistoryInv
    OBVIOUS
  <2>1. StakingTypeOK
    BY StakingAssumption DEF Init, StakingInit, StakingTypeOK, StakeData, NoStake, Holder
  <2>2. stakedDuring = [o \in Address |-> [t \in 0 .. MaxTime |-> 0]]
    BY DEF Init, HistoryInit
  <2>3. \A o \in Address, t \in 0 .. MaxTime : KeptOf(o, t) \in Nat
    BY <2>1, KeptIsBetween
  <2> QED BY <2>2, <2>3 DEF HistoryInv
<1>3. StakingTypeOK /\ StakingTypeOK' /\ HistoryInv /\ [Next]_vars => HistoryInv'
  <2> SUFFICES ASSUME StakingTypeOK, StakingTypeOK', HistoryInv, [Next]_vars PROVE HistoryInv'
    OBVIOUS
  <2>1. CASE StakingNext /\ RecordStakes
    BY <2>1, HistoryStep
  <2>2. CASE UNCHANGED <<stakingVars, stakedDuring>>
    BY <2>2, HistoryUnchanged
  <2> QED BY <2>1, <2>2 DEF Next, vars
<1>4. StakingTypeOK /\ HistoryInv => StakeStaysThroughCooldown
  <2> SUFFICES ASSUME StakingTypeOK, HistoryInv, NoRelease,
                      NEW o \in Address, NEW t \in 0 .. MaxTime, Recent(t, now)
               PROVE  LockedOf(o) >= stakedDuring[o][t]
    BY DEF StakeStaysThroughCooldown, NoRelease
  <2>1. stakedDuring[o][t] <= KeptOf(o, t) /\ stakedDuring[o][t] \in Nat
    BY DEF HistoryInv
  <2>2. KeptOf(o, t) \in Nat /\ KeptOf(o, t) <= LockedOf(o)
    BY KeptIsBetween
  <2>3. LockedOf(o) \in Nat
    <3>1. \A c \in StakingContracts : HeldBy(o)[c] \in Nat
      BY KeptTyped
    <3>2. IsFiniteSet(StakingContracts)
      BY StakingAssumption
    <3>3. SumFunctionOnSet(HeldBy(o), StakingContracts) \in Nat
      BY ONLY <3>1, <3>2, SumType
    <3> QED BY <3>3, LockedIsSum
  <2> QED BY <2>1, <2>2, <2>3
<1> QED BY <1>1, <1>2, <1>3, <1>4, StakingTypeCorrect, PTL DEF Spec

-----------------------------------------------------------------------------
(* The years                                                                *)

Years == {y \in Nat : y >= ORIGIN_YEAR}

LEMMA DivisionSteps ==
  ASSUME NEW y \in Nat, y >= 1
  PROVE  /\ y \div 4 = (y - 1) \div 4 + IF y % 4 = 0 THEN 1 ELSE 0
         /\ y \div 100 = (y - 1) \div 100 + IF y % 100 = 0 THEN 1 ELSE 0
         /\ y \div 400 = (y - 1) \div 400 + IF y % 400 = 0 THEN 1 ELSE 0
OBVIOUS

LEMMA LeapYears ==
  ASSUME NEW y \in Years
  PROVE  /\ LeapYearsBefore(y) \in Int
         /\ LeapYearsBefore(y + 1) = LeapYearsBefore(y) + IF IsLeapYear(y) THEN 1 ELSE 0
<1>1. y \in Nat /\ y >= 1 /\ (y + 1) - 1 = y
  BY DEF Years, ORIGIN_YEAR
<1>2. /\ y % 400 = 0 => y % 100 = 0
      /\ y % 100 = 0 => y % 4 = 0
  BY <1>1
<1>3. LeapYearsBefore(y + 1) = y \div 4 - y \div 100 + y \div 400
  BY <1>1 DEF LeapYearsBefore
<1>4. PICK a \in Int, b \in Int, c \in Int : a = (y - 1) \div 4 /\ b = (y - 1) \div 100 /\ c = (y - 1) \div 400
  BY <1>1
<1>5. LeapYearsBefore(y) = a - b + c
  BY <1>4 DEF LeapYearsBefore
<1>6. PICK d \in {0, 1}, e \in {0, 1}, g \in {0, 1} :
        /\ d = IF y % 4 = 0 THEN 1 ELSE 0
        /\ e = IF y % 100 = 0 THEN 1 ELSE 0
        /\ g = IF y % 400 = 0 THEN 1 ELSE 0
  OBVIOUS
<1>7. LeapYearsBefore(y + 1) = (a + d) - (b + e) + (c + g)
  BY <1>1, <1>3, <1>4, <1>6, DivisionSteps
<1>8. (IF IsLeapYear(y) THEN 1 ELSE 0) = d - e + g
  <2>1. IsLeapYear(y) <=> d = 1 /\ (e = 0 \/ g = 1)
    BY <1>6 DEF IsLeapYear
  <2>2. (g = 1 => e = 1) /\ (e = 1 => d = 1)
    BY <1>2, <1>6
  <2> QED BY ONLY <1>6, <2>1, <2>2
<1>9. LeapYearsBefore(y + 1) = LeapYearsBefore(y) + (d - e + g) /\ LeapYearsBefore(y) \in Int
  BY ONLY <1>4, <1>5, <1>6, <1>7
<1> QED BY ONLY <1>8, <1>9

LEMMA DaysOfAYear ==
  ASSUME NEW y \in Years
  PROVE  /\ y + 1 \in Years
         /\ DaysInYear(y) \in {365, 366}
         /\ DaysAccountedFor(y) \in Int
         /\ DaysAccountedFor(y + 1) = DaysAccountedFor(y) + DaysInYear(y)
<1>1. PICK l \in Int, b \in Int, o \in Int :
        /\ l = LeapYearsBefore(y) /\ o = LeapYearsBefore(ORIGIN_YEAR)
        /\ LeapYearsBefore(y + 1) = l + b /\ b = IF IsLeapYear(y) THEN 1 ELSE 0
  <2>1. ORIGIN_YEAR \in Years
    BY DEF Years, ORIGIN_YEAR
  <2> QED BY <2>1, LeapYears
<1>2. ASSUME NEW z \in Nat, NEW leap \in Int, leap = LeapYearsBefore(z)
      PROVE  DaysAccountedFor(z) = 366 * (leap - o) + 365 * ((z - 1970) - (leap - o))
  BY <1>1, <1>2 DEF DaysAccountedFor, ORIGIN_YEAR
<1>3. y \in Nat /\ y >= 1970
  BY DEF Years, ORIGIN_YEAR
<1>4. DaysInYear(y) = 365 + b /\ b \in {0, 1}
  BY <1>1 DEF DaysInYear
<1>5. /\ DaysAccountedFor(y) = 366 * (l - o) + 365 * ((y - 1970) - (l - o))
      /\ DaysAccountedFor(y + 1) = 366 * ((l + b) - o) + 365 * (((y + 1) - 1970) - ((l + b) - o))
  BY <1>1, <1>2, <1>3
<1>6. /\ DaysAccountedFor(y) \in Int
      /\ DaysAccountedFor(y + 1) = DaysAccountedFor(y) + (365 + b)
      /\ 365 + b \in {365, 366}
  BY ONLY <1>1, <1>3, <1>4, <1>5
<1> QED BY <1>3, <1>4, <1>6 DEF Years, ORIGIN_YEAR

LEMMA FirstYear == ORIGIN_YEAR \in Years /\ DaysAccountedFor(ORIGIN_YEAR) = 0
<1>1. ORIGIN_YEAR \in Years
  BY DEF Years, ORIGIN_YEAR
<1>2. LeapYearsBefore(ORIGIN_YEAR) \in Int
  BY <1>1, LeapYears
<1> QED BY <1>1, <1>2 DEF DaysAccountedFor, ORIGIN_YEAR

(* A later year begins at least as many years of 365 days later.            *)
LEMMA YearsGrow ==
  ASSUME NEW y \in Years, NEW n \in Nat
  PROVE  y + n \in Years /\ DaysAccountedFor(y + n) >= DaysAccountedFor(y) + 365 * n
<1> DEFINE Good == {k \in Nat : DaysAccountedFor(y + k) >= DaysAccountedFor(y) + 365 * k}
<1>0. \A k \in Nat : y + k \in Years
  BY DEF Years, ORIGIN_YEAR
<1>1. 0 \in Good
  <2>1. y + 0 = y /\ DaysAccountedFor(y) \in Int
    BY DaysOfAYear DEF Years
  <2> QED BY <2>1
<1>2. ASSUME NEW k \in Nat, k \in Good PROVE k + 1 \in Good
  <2>1. /\ DaysAccountedFor((y + k) + 1) = DaysAccountedFor(y + k) + DaysInYear(y + k)
        /\ DaysInYear(y + k) \in {365, 366} /\ DaysAccountedFor(y + k) \in Int
    BY <1>0, DaysOfAYear
  <2>2. (y + k) + 1 = y + (k + 1) /\ DaysAccountedFor(y) \in Int
    BY DaysOfAYear DEF Years
  <2>3. DaysAccountedFor(y + (k + 1)) >= DaysAccountedFor(y) + 365 * (k + 1)
    BY <1>2, <2>1, <2>2
  <2> QED BY <2>3
<1>3. \A k \in Nat : k \in Good
  <2> HIDE DEF Good
  <2> QED BY <1>1, <1>2, CountUp
<1> QED BY <1>0, <1>3

(* What getYear counts backwards.                                           *)
LEMMA CountedBack ==
  ASSUME NEW guess \in Years, NEW f,
         \A year \in ORIGIN_YEAR..guess : f[year] =
           IF year = guess THEN DaysAccountedFor(year) ELSE f[year + 1] - DaysInYear(year)
  PROVE  \A year \in ORIGIN_YEAR..guess : f[year] = DaysAccountedFor(year)
<1> DEFINE Good == {k \in Nat : guess - k >= ORIGIN_YEAR => f[guess - k] = DaysAccountedFor(guess - k)}
<1>0. guess \in Nat /\ guess >= ORIGIN_YEAR /\ ORIGIN_YEAR \in Nat
  BY DEF Years, ORIGIN_YEAR
<1>1. 0 \in Good
  BY <1>0
<1>2. ASSUME NEW k \in Nat, k \in Good PROVE k + 1 \in Good
  <2>1. SUFFICES ASSUME guess - (k + 1) >= ORIGIN_YEAR
                 PROVE  f[guess - (k + 1)] = DaysAccountedFor(guess - (k + 1))
    OBVIOUS
  <2>2. PICK y \in Nat : y = guess - (k + 1)
    BY <1>0, <2>1
  <2>3. /\ y + 1 = guess - k /\ y # guess /\ y \in ORIGIN_YEAR..guess /\ guess - k >= ORIGIN_YEAR
        /\ y \in Years
    BY <1>0, <2>1, <2>2 DEF Years
  <2>4. f[y + 1] = DaysAccountedFor(y + 1)
    BY <1>2, <2>3
  <2>5. f[y] = f[y + 1] - DaysInYear(y)
    BY <2>3
  <2>6. /\ DaysInYear(y) \in {365, 366} /\ DaysAccountedFor(y) \in Int
        /\ DaysAccountedFor(y + 1) = DaysAccountedFor(y) + DaysInYear(y)
    BY <2>3, DaysOfAYear
  <2>7. f[y] = DaysAccountedFor(y)
    BY <2>4, <2>5, <2>6
  <2> QED BY <2>2, <2>7
<1>3. \A k \in Nat : k \in Good
  <2> HIDE DEF Good
  <2> QED BY <1>1, <1>2, CountUp
<1>4. ASSUME NEW year \in ORIGIN_YEAR..guess PROVE f[year] = DaysAccountedFor(year)
  <2>1. guess - year \in Nat /\ guess - (guess - year) = year /\ year >= ORIGIN_YEAR
    BY <1>0
  <2>2. guess - year \in Good
    BY <1>3, <2>1
  <2> QED BY <2>1, <2>2
<1> QED BY <1>4

LEMMA BackwardsFunction ==
  ASSUME NEW guess \in Years,
         NEW f, f = CHOOSE g : g = [year \in ORIGIN_YEAR..guess |->
                IF year = guess THEN DaysAccountedFor(year) ELSE g[year + 1] - DaysInYear(year)]
  PROVE  \A year \in ORIGIN_YEAR..guess : f[year] = DaysAccountedFor(year)
<1> DEFINE w == [year \in ORIGIN_YEAR..guess |-> DaysAccountedFor(year)]
<1>1. ASSUME NEW year \in ORIGIN_YEAR..guess
      PROVE  w[year] = IF year = guess THEN DaysAccountedFor(year) ELSE w[year + 1] - DaysInYear(year)
  <2>1. CASE year = guess
    BY <2>1
  <2>2. CASE year # guess
    <3>1. year \in Years /\ year + 1 \in ORIGIN_YEAR..guess
      BY <2>2 DEF Years, ORIGIN_YEAR
    <3>2. /\ DaysInYear(year) \in {365, 366} /\ DaysAccountedFor(year) \in Int
          /\ DaysAccountedFor(year + 1) = DaysAccountedFor(year) + DaysInYear(year)
      BY <3>1, DaysOfAYear
    <3>3. w[year + 1] = DaysAccountedFor(year + 1) /\ w[year] = DaysAccountedFor(year)
      BY <3>1
    <3> HIDE DEF w
    <3> QED BY <2>2, <3>2, <3>3
  <2> QED BY <2>1, <2>2
<1>2. w = [year \in ORIGIN_YEAR..guess |->
             IF year = guess THEN DaysAccountedFor(year) ELSE w[year + 1] - DaysInYear(year)]
  BY <1>1
<1>3. f = [year \in ORIGIN_YEAR..guess |->
             IF year = guess THEN DaysAccountedFor(year) ELSE f[year + 1] - DaysInYear(year)]
  <2> HIDE DEF w
  <2> QED BY <1>2
<1>4. \A year \in ORIGIN_YEAR..guess : f[year] =
        IF year = guess THEN DaysAccountedFor(year) ELSE f[year + 1] - DaysInYear(year)
  BY ONLY <1>3
<1> HIDE DEF w
<1> QED BY ONLY <1>4, CountedBack, guess \in Years

(* The year of a day has begun and the next one has not.                    *)
LEMMA YearOfDay ==
  ASSUME NEW day \in Nat
  PROVE  /\ GetYear(day) \in Years
         /\ DaysAccountedFor(GetYear(day)) <= day
         /\ day < DaysAccountedFor(GetYear(day) + 1)
<1> DEFINE guess == ORIGIN_YEAR + day \div 365
           begun == {year \in ORIGIN_YEAR..guess : DaysAccountedFor(year) <= day}
<1>1. /\ guess \in Nat /\ guess >= ORIGIN_YEAR /\ day < 365 * ((guess - ORIGIN_YEAR) + 1)
      /\ guess \in Years /\ ORIGIN_YEAR \in Nat
  BY DEF ORIGIN_YEAR, Years
<1>2. GetYear(day) = Max(begun)
  <2> DEFINE f == CHOOSE g : g = [year \in ORIGIN_YEAR..guess |->
                    IF year = guess THEN DaysAccountedFor(year) ELSE g[year + 1] - DaysInYear(year)]
  <2>1. GetYear(day) = Max({year \in ORIGIN_YEAR..guess : f[year] <= day})
    BY DEF GetYear
  <2>2. \A year \in ORIGIN_YEAR..guess : f[year] = DaysAccountedFor(year)
    <3> HIDE DEF guess
    <3> QED BY <1>1, BackwardsFunction
  <2> HIDE DEF f, guess
  <2>3. {year \in ORIGIN_YEAR..guess : f[year] <= day} = begun
    BY <2>2
  <2> QED BY <2>1, <2>3
<1>3. /\ begun \in SUBSET Nat /\ \A k \in begun : k <= guess
      /\ begun # {}
  <2>1. ORIGIN_YEAR \in begun
    BY <1>1, FirstYear
  <2> HIDE DEF guess
  <2> QED BY <1>1, <2>1
<1>4. Max(begun) \in begun /\ \A k \in begun : k <= Max(begun)
  <2> HIDE DEF guess, begun
  <2> QED BY <1>1, <1>3, GreatestNumber
<1>5. PICK y : y = Max(begun)
  OBVIOUS
<1> HIDE DEF guess
<1>6. y \in Nat /\ y \in Years /\ y <= guess /\ DaysAccountedFor(y) <= day
  BY <1>1, <1>4, <1>5 DEF Years
<1>7. DaysAccountedFor(y + 1) \in Int
  BY <1>6, DaysOfAYear
<1>8. day < DaysAccountedFor(y + 1)
  <2>1. CASE y = guess
    <3>1. PICK n \in Nat : n = (guess - ORIGIN_YEAR) + 1
      BY <1>1
    <3>2. DaysAccountedFor(ORIGIN_YEAR + n) >= 0 + 365 * n
      BY FirstYear, YearsGrow
    <3>3. ORIGIN_YEAR + n = y + 1
      BY <1>1, <2>1, <3>1
    <3> QED BY <1>1, <1>7, <3>1, <3>2, <3>3
  <2>2. CASE y # guess
    <3>1. y + 1 \in ORIGIN_YEAR..guess /\ ~(y + 1 <= y)
      BY <1>1, <1>6, <2>2 DEF Years
    <3>2. ~(DaysAccountedFor(y + 1) <= day)
      BY <1>4, <1>5, <3>1
    <3> QED BY <1>7, <3>2
  <2> QED BY <2>1, <2>2
<1> QED BY <1>2, <1>5, <1>6, <1>8

-----------------------------------------------------------------------------
(* The months                                                               *)

DayCounts(y) == [k \in 1..12 |-> GetDaysInMonth(y, k)]

LEMMA DaysOfAMonth ==
  ASSUME NEW y, NEW m \in 1..12
  PROVE  /\ GetDaysInMonth(y, m) \in 28..31
         /\ <<31, IF IsLeapYear(y) THEN 29 ELSE 28, 31, 30, 31, 30, 31, 31, 30, 31, 30, 31>>[m]
              = GetDaysInMonth(y, m)
<1>1. m \in {1, 2, 3, 4, 5, 6, 7, 8, 9, 10, 11, 12}
  OBVIOUS
<1>2. CASE m \in {1, 3, 5, 7, 8, 10, 12}
  <2>1. GetDaysInMonth(y, m) = 31
    BY <1>2 DEF GetDaysInMonth
  <2> QED BY <1>2, <2>1
<1>3. CASE m \in {4, 6, 9, 11}
  <2>1. GetDaysInMonth(y, m) = 30
    BY <1>3 DEF GetDaysInMonth
  <2> QED BY <1>3, <2>1
<1>4. CASE m = 2
  <2>1. GetDaysInMonth(y, m) = IF IsLeapYear(y) THEN 29 ELSE 28
    BY <1>4 DEF GetDaysInMonth
  <2> QED BY <1>4, <2>1
<1> QED BY <1>1, <1>2, <1>3, <1>4

LEMMA DaysOfMonthsIsSum ==
  ASSUME NEW y, NEW m \in 0..12
  PROVE  /\ DaysOfMonths(y, 1..m) = SumFunctionOnSet(DayCounts(y), 1..m)
         /\ IsFiniteSet(1..m)
<1>1. IsFiniteSet(1..m)
  BY FS_Interval
<1>2. PICK f : f = [k \in 1..m |-> GetDaysInMonth(y, k)]
  OBVIOUS
<1>3. DaysOfMonths(y, 1..m) = SumFunctionOnSet(f, 1..m)
  <2>1. DaysOfMonths(y, 1..m) = SumFunction(f) /\ DOMAIN f = 1..m
    BY <1>2 DEF DaysOfMonths
  <2> QED BY <2>1, SumOfFunction
<1>4. \A k \in 1..m : f[k] = DayCounts(y)[k]
  BY <1>2 DEF DayCounts
<1>5. SumFunctionOnSet(f, 1..m) = SumFunctionOnSet(DayCounts(y), 1..m)
  BY ONLY <1>1, <1>4, SumSame
<1> QED BY <1>1, <1>3, <1>5

LEMMA MonthsAdd ==
  ASSUME NEW y, NEW m \in 1..12
  PROVE  /\ DaysOfMonths(y, 1..(m - 1)) \in Nat
         /\ DaysOfMonths(y, 1..m) = DaysOfMonths(y, 1..(m - 1)) + GetDaysInMonth(y, m)
<1>0. m \in 0..12 /\ m - 1 \in 0..12 /\ (1..m) \ {m} = 1..(m - 1) /\ m \in 1..m /\ m - 1 \in Nat
  OBVIOUS
<1>1. \A k \in 1..12 : DayCounts(y)[k] = GetDaysInMonth(y, k) /\ DayCounts(y)[k] \in Nat
  BY DaysOfAMonth DEF DayCounts
<1>2. \A k \in 1..m : DayCounts(y)[k] \in Int
  BY <1>1
<1>3. SumFunctionOnSet(DayCounts(y), 1..m) = DayCounts(y)[m] + SumFunctionOnSet(DayCounts(y), (1..m) \ {m})
  BY ONLY <1>0, <1>2, DaysOfMonthsIsSum, SumRemove
<1>4. \A k \in 1..(m - 1) : DayCounts(y)[k] \in Nat
  BY <1>1
<1>5. SumFunctionOnSet(DayCounts(y), 1..(m - 1)) \in Nat
  BY ONLY <1>0, <1>4, DaysOfMonthsIsSum, SumType
<1>6. /\ DaysOfMonths(y, 1..m) = SumFunctionOnSet(DayCounts(y), 1..m)
      /\ DaysOfMonths(y, 1..(m - 1)) = SumFunctionOnSet(DayCounts(y), 1..(m - 1))
  BY <1>0, DaysOfMonthsIsSum
<1>7. DayCounts(y)[m] = GetDaysInMonth(y, m) /\ DayCounts(y)[m] \in Nat
  BY <1>1
<1>8. SumFunctionOnSet(DayCounts(y), 1..m)
        = DayCounts(y)[m] + SumFunctionOnSet(DayCounts(y), 1..(m - 1))
  BY ONLY <1>0, <1>3
<1> QED BY ONLY <1>5, <1>6, <1>7, <1>8

LEMMA MonthsOfNone == ASSUME NEW y PROVE DaysOfMonths(y, 1..0) = 0
<1>1. 1..0 = {} /\ 0 \in 0..12
  OBVIOUS
<1> QED BY <1>1, DaysOfMonthsIsSum, SumEmpty

(* The months of a year have all of its days.                               *)
LEMMA MonthsOfYear == ASSUME NEW y PROVE DaysOfMonths(y, 1..12) = DaysInYear(y)
<1> DEFINE d(m) == DaysOfMonths(y, 1..m)
           f == IF IsLeapYear(y) THEN 29 ELSE 28
<1>1. /\ d(1) = d(0) + 31 /\ d(2) = d(1) + f /\ d(3) = d(2) + 31 /\ d(4) = d(3) + 30
      /\ d(5) = d(4) + 31 /\ d(6) = d(5) + 30 /\ d(7) = d(6) + 31 /\ d(8) = d(7) + 31
      /\ d(9) = d(8) + 30 /\ d(10) = d(9) + 31 /\ d(11) = d(10) + 30 /\ d(12) = d(11) + 31
  <2>1. ASSUME NEW m \in 1..12, NEW k, k = m - 1 PROVE d(m) = d(k) + GetDaysInMonth(y, m)
    BY <2>1, MonthsAdd
  <2>2. /\ \A m \in {1, 3, 5, 7, 8, 10, 12} : GetDaysInMonth(y, m) = 31
        /\ \A m \in {4, 6, 9, 11} : GetDaysInMonth(y, m) = 30
        /\ GetDaysInMonth(y, 2) = f
    BY DEF GetDaysInMonth
  <2> HIDE DEF d, f
  <2>3. /\ d(1) = d(0) + GetDaysInMonth(y, 1) /\ d(2) = d(1) + GetDaysInMonth(y, 2)
        /\ d(3) = d(2) + GetDaysInMonth(y, 3) /\ d(4) = d(3) + GetDaysInMonth(y, 4)
        /\ d(5) = d(4) + GetDaysInMonth(y, 5) /\ d(6) = d(5) + GetDaysInMonth(y, 6)
    BY <2>1
  <2>4. /\ d(7) = d(6) + GetDaysInMonth(y, 7) /\ d(8) = d(7) + GetDaysInMonth(y, 8)
        /\ d(9) = d(8) + GetDaysInMonth(y, 9) /\ d(10) = d(9) + GetDaysInMonth(y, 10)
        /\ d(11) = d(10) + GetDaysInMonth(y, 11) /\ d(12) = d(11) + GetDaysInMonth(y, 12)
    BY <2>1
  <2> QED BY <2>2, <2>3, <2>4
<1>2. d(0) = 0
  BY MonthsOfNone
<1>3. f \in {28, 29} /\ DaysInYear(y) = 337 + f
  BY DEF DaysInYear
<1> HIDE DEF d, f
<1>4. d(12) = DaysInYear(y)
  BY <1>1, <1>2, <1>3
<1> QED BY <1>4 DEF d

LEMMA MonthsGrow ==
  ASSUME NEW y, NEW k \in 0..12, NEW m \in 0..k
  PROVE  /\ DaysOfMonths(y, 1..k) \in Nat /\ DaysOfMonths(y, 1..m) \in Nat
         /\ DaysOfMonths(y, 1..m) <= DaysOfMonths(y, 1..k)
<1>0. m \in 0..12 /\ 1..m \in SUBSET (1..k)
  OBVIOUS
<1>1. \A i \in 1..12 : DayCounts(y)[i] \in Nat
  BY DaysOfAMonth DEF DayCounts
<1>2. \A i \in 1..k : DayCounts(y)[i] \in Nat
  BY <1>1
<1>3. \A i \in 1..m : DayCounts(y)[i] \in Nat
  BY <1>1
<1>4. SumFunctionOnSet(DayCounts(y), 1..m) <= SumFunctionOnSet(DayCounts(y), 1..k)
  BY ONLY <1>0, <1>2, DaysOfMonthsIsSum, SumBounds, k \in 0..12
<1>5. SumFunctionOnSet(DayCounts(y), 1..k) \in Nat /\ SumFunctionOnSet(DayCounts(y), 1..m) \in Nat
  <2>1. IsFiniteSet(1..k) /\ IsFiniteSet(1..m)
    BY <1>0, DaysOfMonthsIsSum
  <2>2. SumFunctionOnSet(DayCounts(y), 1..k) \in Nat
    BY ONLY <1>2, <2>1, SumType
  <2>3. SumFunctionOnSet(DayCounts(y), 1..m) \in Nat
    BY ONLY <1>3, <2>1, SumType
  <2> QED BY <2>2, <2>3
<1> QED BY <1>0, <1>4, <1>5, DaysOfMonthsIsSum

(* Adding up the years from the first gives what the formula says.          *)
LEMMA YearsAddedUp ==
  ASSUME NEW y \in Years
  PROVE  SumFunction([z \in ORIGIN_YEAR..(y - 1) |-> DaysInYear(z)]) = DaysAccountedFor(y)
<1> DEFINE upTo(k) == ORIGIN_YEAR..(ORIGIN_YEAR + k - 1)
           f == [z \in Years |-> DaysInYear(z)]
           Good == {k \in Nat : SumFunctionOnSet(f, upTo(k)) = DaysAccountedFor(ORIGIN_YEAR + k)}
<1>0. ORIGIN_YEAR \in Nat /\ ORIGIN_YEAR \in Years
  BY DEF Years, ORIGIN_YEAR
<1>1. 0 \in Good
  <2>1. upTo(0) = {} /\ ORIGIN_YEAR + 0 = ORIGIN_YEAR
    BY <1>0
  <2>2. SumFunctionOnSet(f, upTo(0)) = 0
    <3> HIDE DEF f
    <3> QED BY <2>1, SumEmpty
  <2> HIDE DEF f, upTo
  <2> QED BY <2>1, <2>2, FirstYear
<1>2. ASSUME NEW k \in Nat, k \in Good PROVE k + 1 \in Good
  <2>0. PICK z \in Nat : z = ORIGIN_YEAR + k
    BY <1>0
  <2>1. /\ z \in upTo(k + 1) /\ upTo(k + 1) \ {z} = upTo(k)
        /\ z \in Years /\ ORIGIN_YEAR + (k + 1) = z + 1
        /\ \A x \in upTo(k + 1) : x \in Years
    BY <1>0, <2>0 DEF Years
  <2>2. \A x \in upTo(k + 1) : f[x] \in Int
    BY <2>1, DaysOfAYear
  <2>3. IsFiniteSet(upTo(k + 1))
    BY <1>0, FS_Interval
  <2>4. f[z] = DaysInYear(z)
    BY <2>1
  <2> HIDE DEF f, upTo
  <2>5. SumFunctionOnSet(f, upTo(k + 1)) = f[z] + SumFunctionOnSet(f, upTo(k + 1) \ {z})
    BY ONLY <2>1, <2>2, <2>3, SumRemove
  <2>6. SumFunctionOnSet(f, upTo(k)) = DaysAccountedFor(z)
    BY <1>2, <2>0
  <2>7. /\ DaysInYear(z) \in {365, 366} /\ DaysAccountedFor(z) \in Int
        /\ DaysAccountedFor(z + 1) = DaysAccountedFor(z) + DaysInYear(z)
    BY <2>1, DaysOfAYear
  <2>8. SumFunctionOnSet(f, upTo(k + 1)) = DaysAccountedFor(z + 1)
    BY ONLY <2>1, <2>4, <2>5, <2>6, <2>7
  <2> QED BY <2>1, <2>8
<1>3. \A k \in Nat : k \in Good
  <2> HIDE DEF Good
  <2> QED BY <1>1, <1>2, CountUp
<1>4. PICK n \in Nat : y = ORIGIN_YEAR + n
  <2>1. y - ORIGIN_YEAR \in Nat /\ y = ORIGIN_YEAR + (y - ORIGIN_YEAR)
    BY <1>0 DEF Years
  <2> QED BY <2>1
<1>5. PICK g : g = [z \in ORIGIN_YEAR..(y - 1) |-> DaysInYear(z)]
  OBVIOUS
<1>u. upTo(n) = ORIGIN_YEAR..(y - 1)
  BY <1>0, <1>4
<1>6. SumFunction(g) = SumFunctionOnSet(g, upTo(n))
  <2>1. DOMAIN g = upTo(n)
    BY ONLY <1>5, <1>u
  <2> HIDE DEF upTo
  <2> QED BY <2>1, SumOfFunction
<1>7. SumFunctionOnSet(g, upTo(n)) = SumFunctionOnSet(f, upTo(n))
  <2>1. \A x \in upTo(n) : x \in Years
    BY <1>0, <1>4 DEF Years
  <2>2. \A x \in upTo(n) : g[x] = f[x]
    BY ONLY <1>5, <1>u, <2>1
  <2>3. IsFiniteSet(upTo(n))
    BY <1>0, <1>4, FS_Interval
  <2> HIDE DEF f, upTo
  <2> QED BY ONLY <2>2, <2>3, SumSame
<1>8. n \in Good
  BY <1>3
<1> HIDE DEF f, upTo
<1> QED BY <1>4, <1>5, <1>6, <1>7, <1>8

(* A month begins when its year has begun and the months before it are over.*)
LEMMA TimestampOfMonth ==
  ASSUME NEW y \in Years, NEW m \in 1..12
  PROVE  /\ ToTimestamp(y, m) = DaysAccountedFor(y) + DaysOfMonths(y, 1..(m - 1))
         /\ ToTimestamp(y, m) \in Int
<1> DEFINE counts == <<31, IF IsLeapYear(y) THEN 29 ELSE 28, 31, 30, 31, 30, 31, 31, 30, 31, 30, 31>>
<1>1. PICK f : f = [i \in 1..(m - 1) |-> counts[i]]
  OBVIOUS
<1>2. ToTimestamp(y, m) = SumFunction([z \in ORIGIN_YEAR..(y - 1) |-> DaysInYear(z)]) + SumFunction(f)
  BY <1>1 DEF ToTimestamp
<1>3. f = [i \in 1..(m - 1) |-> GetDaysInMonth(y, i)]
  <2>1. \A i \in 1..(m - 1) : i \in 1..12
    OBVIOUS
  <2>2. \A i \in 1..(m - 1) : counts[i] = GetDaysInMonth(y, i)
    BY <2>1, DaysOfAMonth
  <2> HIDE DEF counts
  <2> QED BY <1>1, <2>2
<1>4. SumFunction(f) = DaysOfMonths(y, 1..(m - 1))
  BY <1>3 DEF DaysOfMonths
<1> HIDE DEF counts
<1>5. DaysOfMonths(y, 1..(m - 1)) \in Nat /\ DaysAccountedFor(y) \in Int
  BY MonthsAdd, DaysOfAYear
<1> QED BY <1>2, <1>4, <1>5, YearsAddedUp

(* The next month begins when the days of a month are over.                 *)
LEMMA NextMonthBegins ==
  ASSUME NEW y \in Years, NEW m \in 1..12, NEW next, next = GetNextMonth(y, m)
  PROVE  /\ next \in Years \X (1..12)
         /\ ToTimestamp(next[1], next[2]) = DaysAccountedFor(y) + DaysOfMonths(y, 1..m)
<1>1. CASE m = 12
  <2>1. next = <<y + 1, 1>> /\ y + 1 \in Years /\ 1 - 1 = 0 /\ 1 \in 1..12
    BY <1>1, DaysOfAYear DEF GetNextMonth
  <2>2. ToTimestamp(y + 1, 1) = DaysAccountedFor(y + 1) + DaysOfMonths(y + 1, 1..0)
    BY <2>1, TimestampOfMonth
  <2>3. /\ DaysAccountedFor(y + 1) = DaysAccountedFor(y) + DaysInYear(y)
        /\ DaysAccountedFor(y) \in Int /\ DaysInYear(y) \in {365, 366}
    BY DaysOfAYear
  <2> QED BY <1>1, <2>1, <2>2, <2>3, MonthsOfNone, MonthsOfYear
<1>2. CASE m # 12
  <2>1. next = <<y, m + 1>> /\ (m + 1) - 1 = m /\ m + 1 \in 1..12
    BY <1>2 DEF GetNextMonth
  <2>2. ToTimestamp(y, m + 1) = DaysAccountedFor(y) + DaysOfMonths(y, 1..((m + 1) - 1))
    BY <2>1, TimestampOfMonth
  <2> QED BY <2>1, <2>2
<1> QED BY <1>1, <1>2

(* On every day since 1970 the month in which the contract says that it is  *)
(* has begun, and the next one has not: parseTimestamp, which guesses the   *)
(* year and counts back, and toTimestamp, which adds years and months up,   *)
(* are one calendar.                                                        *)
THEOREM EveryDayIsInItsMonth ==
  ASSUME NEW day \in Nat
  PROVE  GetTime(day) \in Years \X (1..12) /\ DayIsInItsMonth(day)
<1>1. PICK y \in Years : /\ y = GetYear(day)
                         /\ DaysAccountedFor(y) <= day /\ day < DaysAccountedFor(y + 1)
  BY YearOfDay
<1>2. PICK d \in Int : d = DaysAccountedFor(y)
  BY DaysOfAYear
<1> DEFINE after == {m \in 1..12 : day < d + DaysOfMonths(y, 1..m)}
<1>3. GetMonth(day) = Min(after)
  BY <1>1, <1>2 DEF GetMonth
<1>4. after \in SUBSET Nat /\ 12 \in after
  <2>1. DaysAccountedFor(y + 1) = d + DaysInYear(y)
    BY <1>2, DaysOfAYear
  <2>2. day < d + DaysOfMonths(y, 1..12)
    BY <1>1, <2>1, MonthsOfYear
  <2> QED BY <2>2
<1>5. Min(after) \in after /\ \A k \in after : Min(after) <= k
  <2> HIDE DEF after
  <2> QED BY <1>4, SmallestNumber
<1>6. PICK m : m = Min(after)
  OBVIOUS
<1>7. m \in 1..12 /\ day < d + DaysOfMonths(y, 1..m)
  BY <1>5, <1>6
<1>8. d + DaysOfMonths(y, 1..(m - 1)) <= day
  <2>1. CASE m = 1
    BY <1>1, <1>2, <2>1, MonthsOfNone
  <2>2. CASE m # 1
    <3>1. m - 1 \in 1..12 /\ m - 1 \notin after
      BY <1>5, <1>6, <1>7, <2>2
    <3>2. DaysOfMonths(y, 1..(m - 1)) \in Nat
      BY <1>7, MonthsAdd
    <3>3. ~(day < d + DaysOfMonths(y, 1..(m - 1)))
      BY <3>1
    <3> QED BY <1>2, <3>2, <3>3
  <2> QED BY <2>1, <2>2
<1> HIDE DEF after
<1>9. GetTime(day) = <<y, m>>
  BY <1>1, <1>3, <1>6 DEF GetTime
<1>10. PICK next : next = GetNextMonth(y, m)
  OBVIOUS
<1>11. ToTimestamp(y, m) <= day /\ day < ToTimestamp(next[1], next[2])
  BY <1>2, <1>7, <1>8, <1>10, TimestampOfMonth, NextMonthBegins
<1> QED BY <1>7, <1>9, <1>10, <1>11 DEF DayIsInItsMonth

(* Of two months one is over when the other begins.                         *)
LEMMA EarlierMonthEnds ==
  ASSUME NEW y \in Years, NEW m \in 1..12, NEW z \in Years, NEW k \in 1..12, y < z \/ (y = z /\ m < k)
  PROVE  DaysAccountedFor(y) + DaysOfMonths(y, 1..m) <= ToTimestamp(z, k)
<1>1. PICK d \in Int, n \in Nat, e \in Int, j \in Nat :
        /\ d = DaysAccountedFor(y) /\ n = DaysOfMonths(y, 1..m)
        /\ e = DaysAccountedFor(z) /\ j = DaysOfMonths(z, 1..(k - 1))
  <2>1. DaysOfMonths(y, 1..m) \in Nat /\ DaysOfMonths(z, 1..(k - 1)) \in Nat
    <3>1. m \in 0..12 /\ 0 \in 0..m
      OBVIOUS
    <3> QED BY <3>1, MonthsGrow, MonthsAdd
  <2> QED BY <2>1, DaysOfAYear
<1>2. ToTimestamp(z, k) = e + j
  BY <1>1, TimestampOfMonth
<1>3. CASE y < z
  <2>1. n <= DaysInYear(y) /\ DaysInYear(y) \in {365, 366}
    <3>1. 12 \in 0..12 /\ m \in 0..12
      OBVIOUS
    <3>2. n <= DaysOfMonths(y, 1..12)
      BY ONLY <1>1, <3>1, MonthsGrow, m \in 0..12
    <3>3. DaysOfMonths(y, 1..12) = DaysInYear(y) /\ DaysInYear(y) \in {365, 366}
      BY MonthsOfYear, DaysOfAYear
    <3> QED BY <3>2, <3>3
  <2>2. DaysAccountedFor(y + 1) = d + DaysInYear(y) /\ y + 1 \in Years
    BY <1>1, DaysOfAYear
  <2>3. PICK r \in Nat : z = (y + 1) + r
    <3>1. y \in Nat /\ z \in Nat
      BY DEF Years
    <3>2. z - (y + 1) \in Nat /\ z = (y + 1) + (z - (y + 1))
      BY <1>3, <3>1
    <3> QED BY <3>2
  <2>4. DaysAccountedFor((y + 1) + r) >= DaysAccountedFor(y + 1) + 365 * r
    BY <2>2, YearsGrow
  <2>5. e >= (d + DaysInYear(y)) + 365 * r
    BY <1>1, <2>2, <2>3, <2>4
  <2>6. d + n <= e + j
    BY ONLY <2>1, <2>5, d \in Int, n \in Nat, e \in Int, j \in Nat, r \in Nat
  <2> QED BY <1>1, <1>2, <2>6
<1>4. CASE y = z /\ m < k
  <2>1. k - 1 \in 0..12 /\ m \in 0..(k - 1)
    BY <1>4
  <2>2. n <= j
    BY <1>1, <1>4, <2>1, MonthsGrow
  <2> QED BY <1>1, <1>2, <1>4, <2>2
<1> QED BY <1>3, <1>4

(* The end of a month, for those who ask in which month a day is.           *)
EndOf(m) == DaysAccountedFor(m[1]) + DaysOfMonths(m[1], 1..m[2])

LEMMA MonthsInOrder ==
  ASSUME NEW a \in Years \X (1..12), NEW b \in Years \X (1..12), a # b
  PROVE  EndOf(a) <= ToTimestamp(b[1], b[2]) \/ EndOf(b) <= ToTimestamp(a[1], a[2])
<1>1. PICK y \in Years, m \in 1..12, z \in Years, k \in 1..12 : a = <<y, m>> /\ b = <<z, k>>
  OBVIOUS
<1>2. \/ y < z \/ (y = z /\ m < k)
      \/ z < y \/ (z = y /\ k < m)
  BY <1>1 DEF Years
<1> QED BY <1>1, <1>2, EarlierMonthEnds DEF EndOf

LEMMA MonthBounds ==
  ASSUME NEW m \in Years \X (1..12)
  PROVE  /\ ToTimestamp(m[1], m[2]) \in Nat /\ EndOf(m) \in Nat
         /\ ToTimestamp(m[1], m[2]) < EndOf(m)
         /\ GetNextMonth(m[1], m[2]) \in Years \X (1..12)
         /\ \A next : next = GetNextMonth(m[1], m[2]) => ToTimestamp(next[1], next[2]) = EndOf(m)
<1>1. PICK y \in Years, k \in 1..12 : m = <<y, k>>
  OBVIOUS
<1>2. PICK n \in Nat : y = ORIGIN_YEAR + n
  <2>1. y - ORIGIN_YEAR \in Nat /\ y = ORIGIN_YEAR + (y - ORIGIN_YEAR)
    BY DEF Years, ORIGIN_YEAR
  <2> QED BY <2>1
<1>3. PICK d \in Nat : d = DaysAccountedFor(y)
  <2>1. DaysAccountedFor(y) >= 0 + 365 * n
    BY <1>2, FirstYear, YearsGrow
  <2>2. DaysAccountedFor(y) \in Int
    BY DaysOfAYear
  <2>3. DaysAccountedFor(y) \in Nat
    BY <2>1, <2>2
  <2> QED BY <2>3
<1>4. PICK l \in Nat, w \in 28..31 :
        /\ l = DaysOfMonths(y, 1..(k - 1)) /\ w = GetDaysInMonth(y, k)
        /\ DaysOfMonths(y, 1..k) = l + w
  <2>1. DaysOfMonths(y, 1..(k - 1)) \in Nat /\ GetDaysInMonth(y, k) \in 28..31
    BY MonthsAdd, DaysOfAMonth
  <2>2. DaysOfMonths(y, 1..k) = DaysOfMonths(y, 1..(k - 1)) + GetDaysInMonth(y, k)
    BY MonthsAdd
  <2> QED BY <2>1, <2>2
<1>5. ToTimestamp(y, k) = d + l /\ EndOf(m) = d + (l + w)
  BY <1>1, <1>3, <1>4, TimestampOfMonth DEF EndOf
<1>6. /\ GetNextMonth(y, k) \in Years \X (1..12)
      /\ \A next : next = GetNextMonth(y, k) => ToTimestamp(next[1], next[2]) = EndOf(m)
  <2>1. \A next : next = GetNextMonth(y, k) =>
          /\ next \in Years \X (1..12)
          /\ ToTimestamp(next[1], next[2]) = DaysAccountedFor(y) + DaysOfMonths(y, 1..k)
    BY NextMonthBegins
  <2>2. EndOf(m) = DaysAccountedFor(y) + DaysOfMonths(y, 1..k)
    BY <1>1 DEF EndOf
  <2> QED BY <2>1, <2>2
<1>7. d + l \in Nat /\ d + (l + w) \in Nat /\ d + l < d + (l + w)
  OBVIOUS
<1> QED BY <1>1, <1>5, <1>6, <1>7

(* The month of a day is the only one that has begun and is not over.       *)
LEMMA OnlyMonthOfDay ==
  ASSUME NEW day \in Nat, NEW m \in Years \X (1..12),
         ToTimestamp(m[1], m[2]) <= day, day < EndOf(m)
  PROVE  GetTime(day) = m
<1>1. PICK g \in Years \X (1..12) : g = GetTime(day)
  BY EveryDayIsInItsMonth
<1>2. ToTimestamp(g[1], g[2]) <= day /\ day < EndOf(g)
  <2>1. PICK next : next = GetNextMonth(g[1], g[2])
    OBVIOUS
  <2>2. ToTimestamp(g[1], g[2]) <= day /\ day < ToTimestamp(next[1], next[2])
    BY <1>1, <2>1, EveryDayIsInItsMonth DEF DayIsInItsMonth
  <2> QED BY <2>1, <2>2, MonthBounds
<1>3. /\ ToTimestamp(m[1], m[2]) \in Nat /\ EndOf(m) \in Nat
      /\ ToTimestamp(g[1], g[2]) \in Nat /\ EndOf(g) \in Nat
  BY MonthBounds
<1>4. ~(EndOf(g) <= ToTimestamp(m[1], m[2])) /\ ~(EndOf(m) <= ToTimestamp(g[1], g[2]))
  BY <1>2, <1>3
<1> QED BY <1>1, <1>4, MonthsInOrder

-----------------------------------------------------------------------------
(* The calendar at the times that occur                                     *)

LEMMA MonthsAreReal ==
  /\ Months \subseteq Years \X (1..12)
  /\ IsFiniteSet(Months)
  /\ \A day \in Days : day \in Nat /\ GetTime(day) \in Months
                       /\ GetNextMonth(GetTime(day)[1], GetTime(day)[2]) \in Months
<1> DEFINE current == {GetTime(day) : day \in Days}
           coming == {GetNextMonth(m[1], m[2]) : m \in current}
<1>1. Days \subseteq Nat /\ IsFiniteSet(Days)
  <2>1. PICK n \in Nat : Days \subseteq 0 .. n
    <3>1. LastDay \in Nat
      BY DEF LastDay
    <3> QED BY <3>1, SubscriptionsAssumption
  <2>2. Days \in SUBSET (0 .. n) /\ Days \subseteq Nat
    BY ONLY <2>1
  <2>3. IsFiniteSet(0 .. n)
    BY FS_Interval
  <2> QED BY ONLY <2>2, <2>3, FS_Subset
<1>2. current \subseteq Years \X (1..12)
  BY <1>1, EveryDayIsInItsMonth
<1>3. coming \subseteq Years \X (1..12)
  BY <1>2, MonthBounds
<1>4. IsFiniteSet(current)
  <2>1. [day \in Days |-> GetTime(day)] \in Surjection(Days, current)
    BY DEF Surjection
  <2> HIDE DEF current
  <2> QED BY <1>1, <2>1, FS_Surjection
<1>5. IsFiniteSet(coming)
  <2>1. [m \in current |-> GetNextMonth(m[1], m[2])] \in Surjection(current, coming)
    BY DEF Surjection
  <2> HIDE DEF current, coming
  <2> QED BY <1>4, <2>1, FS_Surjection
<1>6. Months = current \cup coming
  BY DEF Months
<1>7. IsFiniteSet(Months)
  <2> HIDE DEF current, coming
  <2> QED BY <1>4, <1>5, <1>6, FS_Union
<1> QED BY <1>1, <1>2, <1>3, <1>6, <1>7

(* Each time that occurs is in the month under which it is entered.         *)
LEMMA TimesAndMonths ==
  /\ \A m \in Months : BeginningOf[m] \in Nat /\ MonthOf[BeginningOf[m]] = m
                       /\ BeginningOf[m] \in DOMAIN MonthOf
  /\ \A day \in Days : day \in DOMAIN MonthOf
                       /\ GetNextMonth(MonthOf[day][1], MonthOf[day][2]) \in Months
  /\ \A day \in DOMAIN MonthOf : /\ day \in Nat /\ MonthOf[day] \in Months
                                 /\ MonthOf[day] = GetTime(day)
                                 /\ BeginningOf[MonthOf[day]] <= day
                                 /\ \A later \in Months :
                                      BeginningOf[later] > BeginningOf[MonthOf[day]]
                                        => day < BeginningOf[later]
<1>1. DOMAIN MonthOf = Days \cup {BeginningOf[m] : m \in Months}
  BY DEF MonthOf
<1>2. \A day \in DOMAIN MonthOf : MonthOf[day] = GetTime(day)
  BY DEF MonthOf
<1>3. \A m \in Months : BeginningOf[m] = ToTimestamp(m[1], m[2])
  BY DEF BeginningOf
<1>4. ASSUME NEW m \in Months
      PROVE  /\ BeginningOf[m] \in Nat /\ BeginningOf[m] \in DOMAIN MonthOf
             /\ GetTime(BeginningOf[m]) = m
  <2>1. m \in Years \X (1..12)
    BY MonthsAreReal
  <2>2. ToTimestamp(m[1], m[2]) \in Nat /\ ToTimestamp(m[1], m[2]) < EndOf(m)
    BY <2>1, MonthBounds
  <2>3. GetTime(ToTimestamp(m[1], m[2])) = m
    BY <2>1, <2>2, OnlyMonthOfDay
  <2> QED BY <1>1, <1>3, <2>2, <2>3
<1>5. \A day \in DOMAIN MonthOf : day \in Nat /\ GetTime(day) \in Months
  BY <1>1, <1>4, MonthsAreReal
<1>6. ASSUME NEW day \in DOMAIN MonthOf
      PROVE  /\ BeginningOf[MonthOf[day]] <= day
             /\ \A later \in Months :
                  BeginningOf[later] > BeginningOf[MonthOf[day]] => day < BeginningOf[later]
  <2>1. PICK m \in Months : m = MonthOf[day] /\ m = GetTime(day)
    BY <1>2, <1>5
  <2>2. m \in Years \X (1..12) /\ day \in Nat
    BY <1>5, MonthsAreReal
  <2>3. PICK next : next = GetNextMonth(m[1], m[2])
    OBVIOUS
  <2>4. ToTimestamp(m[1], m[2]) <= day /\ day < EndOf(m)
    <3>1. ToTimestamp(m[1], m[2]) <= day /\ day < ToTimestamp(next[1], next[2])
      BY <2>1, <2>2, <2>3, EveryDayIsInItsMonth DEF DayIsInItsMonth
    <3> QED BY <2>2, <2>3, <3>1, MonthBounds
  <2>5. ASSUME NEW later \in Months, BeginningOf[later] > BeginningOf[m]
        PROVE  day < BeginningOf[later]
    <3>1. later \in Years \X (1..12)
      BY MonthsAreReal
    <3>2. /\ ToTimestamp(later[1], later[2]) \in Nat /\ EndOf(later) \in Nat
          /\ ToTimestamp(later[1], later[2]) < EndOf(later)
          /\ ToTimestamp(m[1], m[2]) \in Nat /\ EndOf(m) \in Nat
      BY <2>2, <3>1, MonthBounds
    <3>3. BeginningOf[later] = ToTimestamp(later[1], later[2]) /\ BeginningOf[m] = ToTimestamp(m[1], m[2])
      BY <1>3
    <3>4. later # m
      BY <2>5, <3>2, <3>3
    <3>5. ~(EndOf(later) <= ToTimestamp(m[1], m[2]))
      BY <2>5, <3>2, <3>3
    <3>6. EndOf(m) <= ToTimestamp(later[1], later[2])
      BY <2>2, <3>1, <3>4, <3>5, MonthsInOrder
    <3> QED BY <2>2, <2>4, <3>2, <3>3, <3>6
  <2> QED BY <1>3, <2>1, <2>4, <2>5
<1>7. \A day \in Days : /\ day \in DOMAIN MonthOf
                        /\ GetNextMonth(MonthOf[day][1], MonthOf[day][2]) \in Months
  BY <1>1, <1>2, MonthsAreReal
<1> QED BY <1>2, <1>4, <1>5, <1>6, <1>7

-----------------------------------------------------------------------------
(* Fees                                                                     *)

SubscriptionsOfMonth ==
  [tokens : [SubscriptionIds -> Nat], startTime : [SubscriptionIds -> Nat], totalTokens : Int]

SubscriptionsTypeOK ==
  /\ today \in Days
  /\ subscriptions \in [Months -> SubscriptionsOfMonth]
  /\ held \in Int
  /\ fees \in [Receivers -> Int]
  /\ distributed \in [Months -> Int]

PoolsOf == [m \in Months |-> subscriptions[m].totalTokens]

SubscriptionsInv ==
  /\ SubscriptionsTypeOK
  /\ FeesAreCovered
  /\ NothingIsPaidAhead
  /\ SubscriptionsAreInTheirMonth

LEMMA ReceiversAreFinite ==
  /\ IsFiniteSet(Receivers)
  /\ \A list \in ReceiverLists : /\ IsFiniteSet(DOMAIN list)
                                 /\ DOMAIN list \subseteq Nat
                                 /\ \A i \in DOMAIN list : list[i] \in Receivers
                                 /\ Len(list) \in Nat
                                 /\ list # <<>> => Len(list) # 0
<1> DEFINE listed == {{list[i] : i \in DOMAIN list} : list \in ReceiverLists}
<1>1. ASSUME NEW list \in ReceiverLists
      PROVE  /\ IsFiniteSet(DOMAIN list) /\ DOMAIN list \subseteq Nat
             /\ Len(list) \in Nat /\ (list # <<>> => Len(list) # 0)
  <2>1. PICK S : list \in Seq(S)
    BY SubscriptionsAssumption
  <2>2. Len(list) \in Nat /\ DOMAIN list = 1 .. Len(list) /\ (list # <<>> => Len(list) # 0)
    BY <2>1
  <2>3. IsFiniteSet(1 .. Len(list))
    BY <2>2, FS_Interval
  <2> QED BY <2>2, <2>3
<1>2. ASSUME NEW list \in ReceiverLists PROVE IsFiniteSet({list[i] : i \in DOMAIN list})
  <2>1. [i \in DOMAIN list |-> list[i]] \in Surjection(DOMAIN list, {list[i] : i \in DOMAIN list})
    BY DEF Surjection
  <2> QED BY <1>1, <2>1, FS_Surjection
<1>3. IsFiniteSet(listed)
  <2>1. [list \in ReceiverLists |-> {list[i] : i \in DOMAIN list}] \in Surjection(ReceiverLists, listed)
    BY DEF Surjection
  <2>2. IsFiniteSet(ReceiverLists)
    BY Zenon, SubscriptionsAssumption
  <2> HIDE DEF listed
  <2> QED BY <2>1, <2>2, FS_Surjection
<1>4. \A T \in listed : IsFiniteSet(T)
  BY <1>2
<1>5. Receivers = UNION listed
  BY DEF Receivers
<1>6. IsFiniteSet(Receivers)
  <2> HIDE DEF listed
  <2> QED BY <1>3, <1>4, <1>5, FS_UNION
<1>7. \A list \in ReceiverLists : \A i \in DOMAIN list : list[i] \in Receivers
  BY DEF Receivers
<1> QED BY <1>1, <1>6, <1>7

LEMMA FeeIsWhole ==
  ASSUME NEW pool \in Int, NEW count \in Nat \ {0}, NEW i \in Nat
  PROVE  ValidatorFee(pool, count, i) \in Int
<1>1. pool \div count \in Int /\ pool % count \in Int
  OBVIOUS
<1> QED BY <1>1 DEF ValidatorFee

(* What the receivers are given is what is paid.                            *)
LEMMA FeesAreReceived ==
  ASSUME NEW pool \in Int, NEW list \in ReceiverLists, list # <<>>
  PROVE  /\ FeesAt(pool, list, DOMAIN list) \in Int
         /\ \A r \in Receivers : ReceivedFees(pool, list, r) \in Int
         /\ \A g : (\A r \in Receivers : g[r] = ReceivedFees(pool, list, r))
                     => SumFunctionOnSet(g, Receivers) = FeesAt(pool, list, DOMAIN list)
<1> DEFINE places(r) == {i \in DOMAIN list : list[i] = r}
<1>1. PICK S : S = DOMAIN list
  OBVIOUS
<1>2. PICK f : f = [i \in S |-> ValidatorFee(pool, Len(list), i)]
  OBVIOUS
<1>3. IsFiniteSet(S) /\ \A i \in S : f[i] \in Int /\ list[i] \in Receivers
  BY <1>1, <1>2, ReceiversAreFinite, FeeIsWhole
<1>4. ASSUME NEW T \in SUBSET S
      PROVE  FeesAt(pool, list, T) = SumFunctionOnSet(f, T) /\ SumFunctionOnSet(f, T) \in Int
  <2>1. PICK g : g = [i \in T |-> ValidatorFee(pool, Len(list), i)]
    OBVIOUS
  <2>2. FeesAt(pool, list, T) = SumFunction(g) /\ DOMAIN g = T
    BY <2>1 DEF FeesAt
  <2>3. SumFunction(g) = SumFunctionOnSet(g, T)
    BY <2>2, SumOfFunction
  <2>4. IsFiniteSet(T)
    BY <1>3, FS_Subset
  <2>5. \A i \in T : g[i] = f[i]
    BY <1>2, <2>1
  <2>6. SumFunctionOnSet(g, T) = SumFunctionOnSet(f, T)
    BY ONLY <2>4, <2>5, SumSame
  <2>7. \A i \in T : f[i] \in Int
    BY <1>3
  <2>8. SumFunctionOnSet(f, T) \in Int
    BY ONLY <2>4, <2>7, SumType
  <2> QED BY <2>2, <2>3, <2>6, <2>8
<1>5. \A r \in Receivers : /\ ReceivedFees(pool, list, r) = SumFunctionOnSet(f, {i \in S : list[i] = r})
                           /\ SumFunctionOnSet(f, {i \in S : list[i] = r}) \in Int
  <2> SUFFICES ASSUME NEW r \in Receivers
               PROVE  /\ ReceivedFees(pool, list, r) = SumFunctionOnSet(f, {i \in S : list[i] = r})
                      /\ SumFunctionOnSet(f, {i \in S : list[i] = r}) \in Int
    OBVIOUS
  <2>1. PICK T \in SUBSET S : T = {i \in S : list[i] = r}
    OBVIOUS
  <2>2. ReceivedFees(pool, list, r) = FeesAt(pool, list, T)
    BY <1>1, <2>1 DEF ReceivedFees
  <2> QED BY <1>4, <2>1, <2>2
<1>6. ASSUME NEW g, \A r \in Receivers : g[r] = ReceivedFees(pool, list, r)
      PROVE  SumFunctionOnSet(g, Receivers) = SumFunctionOnSet(f, S)
  <2>0. PICK parts : parts = [r \in Receivers |-> {i \in S : list[i] = r}]
    OBVIOUS
  <2>1. /\ \A r \in Receivers : parts[r] \subseteq S /\ \A i \in S : i \in parts[r] <=> list[i] = r
        /\ \A r \in Receivers : g[r] = SumFunctionOnSet(f, parts[r])
    BY <1>5, <1>6, <2>0
  <2>2. IsFiniteSet(Receivers)
    BY ReceiversAreFinite
  <2>3. \A i \in S : f[i] \in Int
    BY <1>3
  <2>4. \A i \in S : list[i] \in Receivers
    BY <1>3
  <2>5. IsFiniteSet(S)
    BY <1>3
  <2> QED BY ONLY <2>1, <2>2, <2>3, <2>4, <2>5, SumOfParts
<1>7. FeesAt(pool, list, S) = SumFunctionOnSet(f, S) /\ SumFunctionOnSet(f, S) \in Int
  BY <1>4
<1> QED BY <1>1, <1>5, <1>6, <1>7

LEMMA SubscriptionsStart == SubscriptionsInit => SubscriptionsInv
<1> SUFFICES ASSUME SubscriptionsInit PROVE SubscriptionsInv
  OBVIOUS
<1>0. IsFiniteSet(Months) /\ IsFiniteSet(Receivers) /\ IsFiniteSet(SubscriptionIds)
  BY Zenon, MonthsAreReal, ReceiversAreFinite, SubscriptionsAssumption
<1>1. SubscriptionsTypeOK
  BY DEF SubscriptionsInit, SubscriptionsTypeOK, SubscriptionsOfMonth, NoSubscriptions
<1>2. FeesAreCovered
  <2>1. ASSUME NEW S, IsFiniteSet(S), NEW f, DOMAIN f = S, \A x \in S : f[x] = 0
        PROVE  SumFunction(f) = 0
    <3>1. SumFunctionOnSet(f, S) = 0
      BY ONLY <2>1, SumOfZeros
    <3> QED BY <2>1, <3>1, SumOfFunction
  <2>2. \A m \in Months : SumFunction(subscriptions[m].tokens) = 0
    <3> SUFFICES ASSUME NEW m \in Months PROVE SumFunction(subscriptions[m].tokens) = 0
      OBVIOUS
    <3>1. PICK f : f = subscriptions[m].tokens
      OBVIOUS
    <3>2. DOMAIN f = SubscriptionIds /\ \A x \in SubscriptionIds : f[x] = 0
      BY <3>1 DEF SubscriptionsInit, NoSubscriptions
    <3> QED BY ONLY <1>0, <2>1, <3>1, <3>2
  <2>3. SumFunction(PoolsOf) = 0
    <3>1. DOMAIN PoolsOf = Months /\ \A m \in Months : PoolsOf[m] = 0
      BY DEF PoolsOf, SubscriptionsInit, NoSubscriptions
    <3> QED BY ONLY <1>0, <2>1, <3>1
  <2>4. SumFunction(distributed) = 0
    <3>1. DOMAIN distributed = Months /\ \A m \in Months : distributed[m] = 0
      BY DEF SubscriptionsInit
    <3> QED BY ONLY <1>0, <2>1, <3>1
  <2>5. SumFunction(fees) = 0
    <3>1. DOMAIN fees = Receivers /\ \A m \in Receivers : fees[m] = 0
      BY DEF SubscriptionsInit
    <3> QED BY ONLY <1>0, <2>1, <3>1
  <2>6. held = 0 /\ \A m \in Months : subscriptions[m].totalTokens = 0 /\ distributed[m] = 0
    BY DEF SubscriptionsInit, NoSubscriptions
  <2>7. \A m \in Months : SumFunction(subscriptions[m].tokens) = subscriptions[m].totalTokens + distributed[m]
    BY <2>2, <2>6
  <2>8. held = SumFunction(PoolsOf) /\ SumFunction(distributed) = SumFunction(fees)
    BY <2>3, <2>4, <2>5, <2>6
  <2> QED BY ONLY <2>7, <2>8 DEF FeesAreCovered, PoolsOf
<1>3. NothingIsPaidAhead
  BY DEF NothingIsPaidAhead, SubscriptionsInit
<1>4. SubscriptionsAreInTheirMonth
  BY DEF SubscriptionsAreInTheirMonth, SubscriptionsInit, NoSubscriptions
<1> QED BY <1>1, <1>2, <1>3, <1>4 DEF SubscriptionsInv

LEMMA TimePassesStep ==
  ASSUME SubscriptionsInv, TimePasses
  PROVE  SubscriptionsInv'
<1>1. /\ today' \in Days /\ today' > today
      /\ UNCHANGED <<subscriptions, held, fees, distributed>>
  <2> DEFINE later == {day \in Days : day > today}
  <2>1. later # {} /\ later \in SUBSET Nat /\ today' = Min(later)
    BY MonthsAreReal DEF TimePasses
  <2>2. Min(later) \in later
    <3> HIDE DEF later
    <3> QED BY <2>1, SmallestNumber
  <2> QED BY <2>1, <2>2 DEF TimePasses
<1>2. SubscriptionsTypeOK'
  BY <1>1 DEF SubscriptionsInv, SubscriptionsTypeOK
<1>3. FeesAreCovered' /\ SubscriptionsAreInTheirMonth'
  BY <1>1 DEF SubscriptionsInv, FeesAreCovered, SubscriptionsAreInTheirMonth
<1>4. NothingIsPaidAhead'
  <2>1. ASSUME NEW m \in Months, distributed'[m] > 0 PROVE BeginningOf[m] <= today'
    <3>1. BeginningOf[m] <= today
      BY <1>1, <2>1 DEF SubscriptionsInv, NothingIsPaidAhead
    <3>2. BeginningOf[m] \in Nat /\ today \in Nat /\ today' \in Nat
      BY <1>1, TimesAndMonths, MonthsAreReal DEF SubscriptionsInv, SubscriptionsTypeOK
    <3> QED BY ONLY <1>1, <3>1, <3>2
  <2> QED BY <2>1 DEF NothingIsPaidAhead
<1> QED BY <1>2, <1>3, <1>4 DEF SubscriptionsInv

(* A payment, whatever the time from which it is for.                       *)
LEMMA SubscribeStep ==
  ASSUME SubscriptionsInv, NEW id \in SubscriptionIds, NEW value \in Fees,
         NEW startTime \in DOMAIN MonthOf, Subscribe(id, value, startTime)
  PROVE  SubscriptionsInv'
<1>0. /\ IsFiniteSet(Months) /\ IsFiniteSet(SubscriptionIds)
      /\ value \in Nat /\ value > 0 /\ minimalMonthlySubscription \in Nat
      /\ startTime \in Nat /\ MonthOf[startTime] \in Months
  <2>1. Fees \subseteq Nat \ {0} /\ minimalMonthlySubscription \in Nat \ {0} /\ IsFiniteSet(SubscriptionIds)
    BY Zenon, SubscriptionsAssumption
  <2> QED BY <2>1, TimesAndMonths, MonthsAreReal
<1>1. PICK m \in Months : m = MonthOf[startTime]
  BY <1>0
<1>2. PICK was : was = subscriptions[m]
  OBVIOUS
<1>3. PICK becomes :
        /\ becomes = [tokens      |-> [was.tokens EXCEPT ![id] = @ + value],
                  startTime   |-> IF was.tokens[id] = 0
                                    THEN [was.startTime EXCEPT ![id] = startTime]
                                    ELSE was.startTime,
                  totalTokens |-> was.totalTokens + value]
        /\ subscriptions' = [subscriptions EXCEPT ![m] = becomes]
        /\ was.tokens[id] + value >= minimalMonthlySubscription
        /\ held' = held + value
        /\ UNCHANGED <<today, fees, distributed>>
  BY <1>1, <1>2 DEF Subscribe
<1>4. /\ was.tokens \in [SubscriptionIds -> Nat] /\ was.startTime \in [SubscriptionIds -> Nat]
      /\ was.totalTokens \in Int
      /\ DOMAIN subscriptions = Months
  BY <1>2 DEF SubscriptionsInv, SubscriptionsTypeOK, SubscriptionsOfMonth
<1>5. /\ becomes.tokens \in [SubscriptionIds -> Nat] /\ becomes.startTime \in [SubscriptionIds -> Nat]
      /\ becomes.totalTokens = was.totalTokens + value /\ becomes.totalTokens \in Int
      /\ becomes.tokens[id] = was.tokens[id] + value
      /\ \A j \in SubscriptionIds \ {id} : becomes.tokens[j] = was.tokens[j] /\ becomes.startTime[j] = was.startTime[j]
      /\ becomes.startTime[id] = IF was.tokens[id] = 0 THEN startTime ELSE was.startTime[id]
      /\ becomes \in SubscriptionsOfMonth
  BY <1>0, <1>3, <1>4 DEF SubscriptionsOfMonth
<1>6. /\ subscriptions'[m] = becomes
      /\ \A k \in Months \ {m} : subscriptions'[k] = subscriptions[k]
      /\ subscriptions' \in [Months -> SubscriptionsOfMonth]
  BY <1>3, <1>4, <1>5 DEF SubscriptionsInv, SubscriptionsTypeOK
<1>7. /\ held \in Int /\ distributed[m] \in Int /\ distributed' = distributed /\ fees' = fees
      /\ held' = held + value /\ today' = today
  BY <1>3 DEF SubscriptionsInv, SubscriptionsTypeOK
<1>8. SubscriptionsTypeOK'
  BY <1>0, <1>6, <1>7 DEF SubscriptionsInv, SubscriptionsTypeOK
<1>9. FeesAreCovered'
  <2>1. SumFunction(becomes.tokens) = SumFunction(was.tokens) + value /\ SumFunction(was.tokens) \in Int
    <3>0. PICK f, g : f = was.tokens /\ g = becomes.tokens
      OBVIOUS
    <3>1. DOMAIN f = SubscriptionIds /\ DOMAIN g = SubscriptionIds
      BY <1>4, <1>5, <3>0
    <3>2. SumFunction(f) = SumFunctionOnSet(f, SubscriptionIds) /\ SumFunction(g) = SumFunctionOnSet(g, SubscriptionIds)
      BY ONLY <3>1, SumOfFunction
    <3>3. \A j \in SubscriptionIds : f[j] \in Int /\ g[j] \in Int
      BY <1>4, <1>5, <3>0
    <3>4. \A j \in SubscriptionIds \ {id} : g[j] = f[j]
      BY <1>5, <3>0
    <3>5. SumFunctionOnSet(g, SubscriptionIds) = SumFunctionOnSet(f, SubscriptionIds) + (g[id] - f[id])
      BY ONLY <1>0, <3>3, <3>4, SumChange, id \in SubscriptionIds
    <3>6. \A j \in SubscriptionIds : f[j] \in Int
      BY <3>3
    <3>7. SumFunctionOnSet(f, SubscriptionIds) \in Int
      BY ONLY <1>0, <3>6, SumType
    <3>8. g[id] = f[id] + value /\ f[id] \in Int
      BY <1>5, <3>0, <3>3
    <3>9. SumFunction(g) = SumFunction(f) + value /\ SumFunction(f) \in Int
      BY ONLY <1>0, <3>2, <3>5, <3>7, <3>8
    <3> QED BY <3>0, <3>9
  <2>2. ASSUME NEW k \in Months
        PROVE  SumFunction(subscriptions'[k].tokens) = subscriptions'[k].totalTokens + distributed'[k]
    <3>1. SumFunction(subscriptions[k].tokens) = subscriptions[k].totalTokens + distributed[k]
      BY DEF SubscriptionsInv, FeesAreCovered
    <3>2. CASE k = m
      <4>1. SumFunction(was.tokens) = was.totalTokens + distributed[m]
        BY <1>2, <3>1, <3>2
      <4>2. SumFunction(becomes.tokens) = becomes.totalTokens + distributed[m]
        BY ONLY <1>0, <1>4, <1>5, <1>7, <2>1, <4>1
      <4> QED BY <1>6, <1>7, <3>2, <4>2
    <3>3. CASE k # m
      BY <1>6, <1>7, <3>1, <3>3
    <3> QED BY <3>2, <3>3
  <2>3. held' = SumFunction(PoolsOf')
    <3>1. PICK f, g : f = PoolsOf /\ g = PoolsOf'
      OBVIOUS
    <3>2. /\ \A k \in Months : f[k] = subscriptions[k].totalTokens /\ g[k] = subscriptions'[k].totalTokens
          /\ DOMAIN f = Months /\ DOMAIN g = Months
      BY <3>1 DEF PoolsOf
    <3>3. \A k \in Months : f[k] \in Int /\ g[k] \in Int
      BY <1>8, <3>2 DEF SubscriptionsInv, SubscriptionsTypeOK, SubscriptionsOfMonth
    <3>4. \A k \in Months \ {m} : g[k] = f[k]
      BY <1>6, <3>2
    <3>5. SumFunctionOnSet(g, Months) = SumFunctionOnSet(f, Months) + (g[m] - f[m])
      BY ONLY <1>0, <3>3, <3>4, SumChange, m \in Months
    <3>6. g[m] = f[m] + value
      BY <1>2, <1>5, <1>6, <3>2
    <3>7. SumFunction(f) = SumFunctionOnSet(f, Months) /\ SumFunction(g) = SumFunctionOnSet(g, Months)
      BY <3>2, SumOfFunction
    <3>8. held = SumFunction(f)
      BY <3>1 DEF SubscriptionsInv, FeesAreCovered, PoolsOf
    <3>9. f[m] \in Int
      BY <3>3
    <3>10. held' = SumFunction(g)
      BY ONLY <1>0, <1>7, <3>5, <3>6, <3>7, <3>8, <3>9
    <3> QED BY <3>1, <3>10
  <2>4. SumFunction(distributed') = SumFunction(fees')
    BY <1>7 DEF SubscriptionsInv, FeesAreCovered
  <2> QED BY <2>2, <2>3, <2>4 DEF FeesAreCovered, PoolsOf
<1>10. NothingIsPaidAhead'
  BY <1>7 DEF SubscriptionsInv, NothingIsPaidAhead
<1>11. SubscriptionsAreInTheirMonth'
  <2>1. ASSUME NEW k \in Months, NEW j \in SubscriptionIds, subscriptions'[k].tokens[j] > 0
        PROVE  /\ subscriptions'[k].tokens[j] >= minimalMonthlySubscription
               /\ BeginningOf[k] <= subscriptions'[k].startTime[j]
               /\ \A later \in Months :
                    BeginningOf[later] > BeginningOf[k] => subscriptions'[k].startTime[j] < BeginningOf[later]
    <3>1. subscriptions[k].tokens[j] > 0 =>
            /\ subscriptions[k].tokens[j] >= minimalMonthlySubscription
            /\ BeginningOf[k] <= subscriptions[k].startTime[j]
            /\ \A later \in Months :
                 BeginningOf[later] > BeginningOf[k] => subscriptions[k].startTime[j] < BeginningOf[later]
      BY DEF SubscriptionsInv, SubscriptionsAreInTheirMonth
    <3>2. CASE k = m /\ j = id
      <4>1. becomes.tokens[id] >= minimalMonthlySubscription
        BY <1>3, <1>5
      <4>2. CASE was.tokens[id] = 0
        <5>1. /\ BeginningOf[m] <= startTime
              /\ \A later \in Months : BeginningOf[later] > BeginningOf[m] => startTime < BeginningOf[later]
          BY <1>1, TimesAndMonths
        <5>2. becomes.startTime[id] = startTime
          BY <1>5, <4>2
        <5> QED BY <1>6, <3>2, <4>1, <5>1, <5>2
      <4>3. CASE was.tokens[id] # 0
        <5>1. was.tokens[id] > 0
          BY <1>4, <4>3
        <5>2. becomes.startTime[id] = was.startTime[id]
          BY <1>5, <4>3
        <5> QED BY <1>2, <1>6, <3>1, <3>2, <4>1, <5>1, <5>2
      <4> QED BY <4>2, <4>3
    <3>3. CASE ~(k = m /\ j = id)
      <4>1. /\ subscriptions'[k].tokens[j] = subscriptions[k].tokens[j]
            /\ subscriptions'[k].startTime[j] = subscriptions[k].startTime[j]
        BY <1>2, <1>5, <1>6, <3>3
      <4> QED BY <2>1, <3>1, <4>1
    <3> QED BY <3>2, <3>3
  <2> QED BY <2>1 DEF SubscriptionsAreInTheirMonth
<1> QED BY <1>8, <1>9, <1>10, <1>11 DEF SubscriptionsInv

(* A month's pool is shared out.                                            *)
LEMMA DistributeFeesStep ==
  ASSUME SubscriptionsInv, NEW m \in Months, NEW list \in ReceiverLists, DistributeFees(m, list)
  PROVE  SubscriptionsInv'
<1>0. IsFiniteSet(Months) /\ IsFiniteSet(Receivers)
  BY MonthsAreReal, ReceiversAreFinite
<1>1. PICK was : was = subscriptions[m]
  OBVIOUS
<1>2. PICK paid : paid = FeesAt(was.totalTokens, list, DOMAIN list)
  OBVIOUS
<1>3. /\ subscriptions' = [subscriptions EXCEPT ![m].totalTokens = @ - paid]
      /\ held' = held - paid
      /\ fees' = [r \in Receivers |-> fees[r] + ReceivedFees(was.totalTokens, list, r)]
      /\ distributed' = [distributed EXCEPT ![m] = @ + paid]
      /\ today' = today
      /\ BeginningOf[MonthOf[today]] >= BeginningOf[m]
      /\ list # <<>>
  BY <1>1, <1>2 DEF DistributeFees
<1>4. /\ \A k \in Months : subscriptions[k] \in SubscriptionsOfMonth /\ distributed[k] \in Int
      /\ DOMAIN subscriptions = Months /\ DOMAIN distributed = Months /\ held \in Int
      /\ \A r \in Receivers : fees[r] \in Int
      /\ DOMAIN fees = Receivers
  BY DEF SubscriptionsInv, SubscriptionsTypeOK
<1>5. was.totalTokens \in Int
  BY <1>1, <1>4 DEF SubscriptionsOfMonth
<1>6. /\ paid \in Int
      /\ \A r \in Receivers : ReceivedFees(was.totalTokens, list, r) \in Int
      /\ \A g : (\A r \in Receivers : g[r] = ReceivedFees(was.totalTokens, list, r))
                  => SumFunctionOnSet(g, Receivers) = paid
  BY <1>2, <1>3, <1>5, FeesAreReceived
<1>7. /\ subscriptions'[m] = [was EXCEPT !.totalTokens = was.totalTokens - paid]
      /\ \A k \in Months \ {m} : subscriptions'[k] = subscriptions[k]
      /\ DOMAIN subscriptions' = Months
  BY <1>1, <1>3, <1>4
<1>8. /\ subscriptions'[m].tokens = was.tokens /\ subscriptions'[m].startTime = was.startTime
      /\ subscriptions'[m].totalTokens = was.totalTokens - paid
      /\ subscriptions'[m] \in SubscriptionsOfMonth
  <2>1. was \in SubscriptionsOfMonth
    BY <1>1, <1>4
  <2> QED BY <1>5, <1>6, <1>7, <2>1 DEF SubscriptionsOfMonth
<1>9. \A k \in Months : /\ subscriptions'[k].tokens = subscriptions[k].tokens
                        /\ subscriptions'[k].startTime = subscriptions[k].startTime
                        /\ subscriptions'[k] \in SubscriptionsOfMonth
  BY <1>1, <1>4, <1>7, <1>8
<1>10. /\ distributed'[m] = distributed[m] + paid
       /\ \A k \in Months \ {m} : distributed'[k] = distributed[k]
       /\ \A k \in Months : distributed'[k] \in Int
       /\ DOMAIN distributed' = Months
  BY <1>3, <1>4, <1>6
<1>11. SubscriptionsTypeOK'
  <2>1. subscriptions' \in [Months -> SubscriptionsOfMonth]
    <3>1. subscriptions' = [k \in Months |-> subscriptions'[k]]
      BY <1>3, <1>4
    <3> QED BY ONLY <1>9, <3>1
  <2>2. distributed' \in [Months -> Int]
    <3>1. distributed' = [k \in Months |-> distributed'[k]]
      BY <1>3, <1>4
    <3> QED BY ONLY <1>10, <3>1
  <2>3. fees' \in [Receivers -> Int]
    <3>1. \A r \in Receivers : fees[r] + ReceivedFees(was.totalTokens, list, r) \in Int
      BY <1>4, <1>6
    <3> QED BY ONLY <1>3, <3>1
  <2>4. held' \in Int /\ today' \in Days
    BY <1>3, <1>4, <1>6 DEF SubscriptionsInv, SubscriptionsTypeOK
  <2> QED BY <2>1, <2>2, <2>3, <2>4 DEF SubscriptionsTypeOK
<1>12. FeesAreCovered'
  <2>1. ASSUME NEW k \in Months
        PROVE  SumFunction(subscriptions'[k].tokens) = subscriptions'[k].totalTokens + distributed'[k]
    <3>1. SumFunction(subscriptions[k].tokens) = subscriptions[k].totalTokens + distributed[k]
      BY DEF SubscriptionsInv, FeesAreCovered
    <3>2. CASE k = m
      <4>1. distributed[m] \in Int
        BY <1>4
      <4>2. subscriptions'[m].totalTokens + distributed'[m] = was.totalTokens + distributed[m]
        BY ONLY <1>5, <1>6, <1>8, <1>10, <4>1
      <4> QED BY <1>1, <1>9, <3>1, <3>2, <4>2
    <3>3. CASE k # m
      BY <1>7, <1>10, <3>1, <3>3
    <3> QED BY <3>2, <3>3
  <2>2. held' = SumFunction(PoolsOf')
    <3>1. PICK f, g : f = PoolsOf /\ g = PoolsOf'
      OBVIOUS
    <3>2. /\ \A k \in Months : f[k] = subscriptions[k].totalTokens /\ g[k] = subscriptions'[k].totalTokens
          /\ DOMAIN f = Months /\ DOMAIN g = Months
      BY <3>1 DEF PoolsOf
    <3>3. \A k \in Months : f[k] \in Int /\ g[k] \in Int
      BY <1>4, <1>9, <3>2 DEF SubscriptionsOfMonth
    <3>4. \A k \in Months \ {m} : g[k] = f[k]
      BY <1>7, <3>2
    <3>5. SumFunctionOnSet(g, Months) = SumFunctionOnSet(f, Months) + (g[m] - f[m])
      BY ONLY <1>0, <3>3, <3>4, SumChange, m \in Months
    <3>6. g[m] = f[m] - paid /\ f[m] \in Int
      BY <1>1, <1>8, <3>2, <3>3
    <3>7. SumFunction(f) = SumFunctionOnSet(f, Months) /\ SumFunction(g) = SumFunctionOnSet(g, Months)
      BY <3>2, SumOfFunction
    <3>8. held = SumFunction(f)
      BY <3>1 DEF SubscriptionsInv, FeesAreCovered, PoolsOf
    <3>9. held' = SumFunction(g)
      BY ONLY <1>3, <1>4, <1>6, <3>5, <3>6, <3>7, <3>8
    <3> QED BY <3>1, <3>9
  <2>3. SumFunction(distributed') = SumFunction(distributed) + paid /\ SumFunction(distributed) \in Int
    <3>1. /\ SumFunction(distributed') = SumFunctionOnSet(distributed', Months)
          /\ SumFunction(distributed) = SumFunctionOnSet(distributed, Months)
      BY <1>4, <1>10, SumOfFunction
    <3>2. \A k \in Months : distributed[k] \in Int /\ distributed'[k] \in Int
      BY <1>4, <1>10
    <3>3. \A k \in Months \ {m} : distributed'[k] = distributed[k]
      BY <1>10
    <3>4. SumFunctionOnSet(distributed', Months)
            = SumFunctionOnSet(distributed, Months) + (distributed'[m] - distributed[m])
      BY ONLY <1>0, <3>2, <3>3, SumChange, m \in Months
    <3>5. \A k \in Months : distributed[k] \in Int
      BY <3>2
    <3>6. SumFunctionOnSet(distributed, Months) \in Int
      BY ONLY <1>0, <3>5, SumType
    <3>7. distributed'[m] = distributed[m] + paid /\ distributed[m] \in Int
      BY <1>10, <3>2
    <3> QED BY ONLY <1>6, <3>1, <3>4, <3>6, <3>7
  <2>4. SumFunction(fees') = SumFunction(fees) + paid
    <3>1. PICK g : g = [r \in Receivers |-> ReceivedFees(was.totalTokens, list, r)]
      OBVIOUS
    <3>2. \A r \in Receivers : g[r] = ReceivedFees(was.totalTokens, list, r)
      BY <3>1
    <3>3. SumFunctionOnSet(g, Receivers) = paid
      BY <1>6, <3>2
    <3>4. \A r \in Receivers : fees[r] \in Int /\ g[r] \in Int /\ fees'[r] = fees[r] + g[r]
      BY <1>3, <1>4, <1>6, <3>2
    <3>5. SumFunctionOnSet(fees', Receivers) = SumFunctionOnSet(fees, Receivers) + SumFunctionOnSet(g, Receivers)
      BY ONLY <1>0, <3>4, SumPlus
    <3>6. DOMAIN fees' = Receivers
      BY <1>3
    <3>7. /\ SumFunction(fees') = SumFunctionOnSet(fees', Receivers)
          /\ SumFunction(fees) = SumFunctionOnSet(fees, Receivers)
      BY <1>4, <3>6, SumOfFunction
    <3> QED BY <3>3, <3>5, <3>7
  <2>5. SumFunction(distributed') = SumFunction(fees')
    BY <2>3, <2>4 DEF SubscriptionsInv, FeesAreCovered
  <2> QED BY <2>1, <2>2, <2>5 DEF FeesAreCovered, PoolsOf
<1>13. NothingIsPaidAhead'
  <2>1. ASSUME NEW k \in Months, distributed'[k] > 0 PROVE BeginningOf[k] <= today'
    <3>1. CASE k = m
      <4>1. /\ BeginningOf[m] \in Nat /\ today \in Nat /\ MonthOf[today] \in Months
            /\ BeginningOf[MonthOf[today]] <= today
        BY TimesAndMonths DEF SubscriptionsInv, SubscriptionsTypeOK
      <4>2. BeginningOf[MonthOf[today]] \in Nat
        BY <4>1, TimesAndMonths
      <4> QED BY <1>3, <3>1, <4>1, <4>2
    <3>2. CASE k # m
      BY <1>3, <1>10, <2>1, <3>2 DEF SubscriptionsInv, NothingIsPaidAhead
    <3> QED BY <3>1, <3>2
  <2> QED BY <2>1 DEF NothingIsPaidAhead
<1>14. SubscriptionsAreInTheirMonth'
  <2>1. ASSUME NEW k \in Months, NEW j \in SubscriptionIds, subscriptions'[k].tokens[j] > 0
        PROVE  /\ subscriptions'[k].tokens[j] >= minimalMonthlySubscription
               /\ BeginningOf[k] <= subscriptions'[k].startTime[j]
               /\ \A later \in Months :
                    BeginningOf[later] > BeginningOf[k] => subscriptions'[k].startTime[j] < BeginningOf[later]
    <3>1. /\ subscriptions'[k].tokens = subscriptions[k].tokens
          /\ subscriptions'[k].startTime = subscriptions[k].startTime
      BY <1>9
    <3> QED BY <2>1, <3>1 DEF SubscriptionsInv, SubscriptionsAreInTheirMonth
  <2> QED BY <2>1 DEF SubscriptionsAreInTheirMonth
<1> QED BY <1>11, <1>12, <1>13, <1>14 DEF SubscriptionsInv

LEMMA SubscriptionsStep == SubscriptionsInv /\ [SubscriptionsNext]_subscriptionVars => SubscriptionsInv'
<1> SUFFICES ASSUME SubscriptionsInv, [SubscriptionsNext]_subscriptionVars PROVE SubscriptionsInv'
  OBVIOUS
<1>1. CASE TimePasses
  BY <1>1, TimePassesStep
<1>2. ASSUME NEW id \in SubscriptionIds, NEW value \in Fees, SubscribeForCurrentMonth(id, value)
      PROVE  SubscriptionsInv'
  <2>1. today \in DOMAIN MonthOf
    BY TimesAndMonths DEF SubscriptionsInv, SubscriptionsTypeOK
  <2> QED BY <1>2, <2>1, SubscribeStep DEF SubscribeForCurrentMonth
<1>3. ASSUME NEW id \in SubscriptionIds, NEW value \in Fees, SubscribeForNextMonth(id, value)
      PROVE  SubscriptionsInv'
  <2>1. PICK m, next : /\ m = MonthOf[today] /\ next = GetNextMonth(m[1], m[2])
                       /\ Subscribe(id, value, BeginningOf[next])
    BY <1>3 DEF SubscribeForNextMonth
  <2>2. next \in Months
    BY <2>1, TimesAndMonths DEF SubscriptionsInv, SubscriptionsTypeOK
  <2>3. BeginningOf[next] \in DOMAIN MonthOf
    BY <2>2, TimesAndMonths
  <2> QED BY <2>1, <2>3, SubscribeStep
<1>4. ASSUME NEW m \in Months, NEW list \in ReceiverLists, DistributeFees(m, list)
      PROVE  SubscriptionsInv'
  BY <1>4, DistributeFeesStep
<1>5. CASE UNCHANGED subscriptionVars
  <2>1. UNCHANGED <<today, subscriptions, held, fees, distributed>>
    BY <1>5 DEF subscriptionVars
  <2> QED BY <2>1 DEF SubscriptionsInv, SubscriptionsTypeOK, FeesAreCovered, NothingIsPaidAhead,
                      SubscriptionsAreInTheirMonth
<1> QED BY <1>1, <1>2, <1>3, <1>4, <1>5 DEF SubscriptionsNext

(* Whatever days the calls come on: what was paid into a month is in its    *)
(* pool or was given out once, nothing is given out before its month, and   *)
(* subscriptions are in the month in which they start.                      *)
THEOREM SubscriptionsAlwaysExact == SubscriptionsSpec => []SubscriptionsAreExact
<1>1. SubscriptionsInit => SubscriptionsInv
  BY SubscriptionsStart
<1>2. SubscriptionsInv /\ [SubscriptionsNext]_subscriptionVars => SubscriptionsInv'
  BY SubscriptionsStep
<1>3. SubscriptionsInv => SubscriptionsAreExact
  <2>1. DaysAreInTheirMonths
    BY TimesAndMonths, EveryDayIsInItsMonth DEF DaysAreInTheirMonths
  <2> QED BY <2>1 DEF SubscriptionsInv, SubscriptionsAreExact
<1> QED BY <1>1, <1>2, <1>3, PTL DEF SubscriptionsSpec
-----------------------------------------------------------------------------
(* The federation and the bridge, for any accounts, amounts, word size,     *)
(* bounds, signatures and receipts, whoever resets an end or takes a member *)
(* off the present revision: revisions that ended stay what they were, and  *)
(* the two ends together are wallets and transfers between them until       *)
(* something is paid that was not owed (BridgedTransfers).                  *)

HasEachOnce(list) == Len(list) <= MAX_FEDERATION_MEMBERS /\ IsInjective(list)

(* What is stored of each revision is a list without repetitions, and there *)
(* is one for every revision but the present.                               *)
FederationInv ==
  /\ members \in Seq(Nodes) /\ federationRevision \in Nat
  /\ membersByRevision \in Seq(Seq(Nodes)) /\ Len(membersByRevision) = federationRevision
  /\ HasEachOnce(members)
  /\ \A k \in 1..federationRevision : HasEachOnce(membersByRevision[k])

(* Removing a member leaves the others, each once.                          *)
LEMMA RemoveAtHasEachOnce ==
  ASSUME NEW list \in Seq(Nodes), HasEachOnce(list), NEW i \in DOMAIN list
  PROVE  /\ RemoveAt(list, i) \in Seq(Nodes) /\ HasEachOnce(RemoveAt(list, i))
         /\ ToSet(RemoveAt(list, i)) \subseteq ToSet(list)
<1> DEFINE rest == RemoveAt(list, i)
<1>1. i \in 1..Len(list) /\ Len(list) \in Nat
  BY LenProperties
<1>2. /\ rest \in Seq(Nodes) /\ Len(rest) = Len(list) - 1
      /\ \A k \in 1..(Len(list) - 1) : rest[k] = IF k < i THEN list[k] ELSE list[k + 1]
  BY RemoveAtProperties
<1>3. \A a, b \in 1..Len(list) : list[a] = list[b] => a = b
  BY <1>1, LenProperties DEF HasEachOnce, IsInjective
<1>4. ASSUME NEW a \in DOMAIN rest
      PROVE  \E A \in 1..Len(list) : rest[a] = list[A] /\ A = IF a < i THEN a ELSE a + 1
  <2>1. a \in 1..(Len(list) - 1)
    BY <1>2, LenProperties
  <2> QED BY <1>1, <1>2, <2>1
<1>5. ASSUME NEW a \in DOMAIN rest, NEW b \in DOMAIN rest, rest[a] = rest[b]
      PROVE  a = b
  <2>1. a \in 1..(Len(list) - 1) /\ b \in 1..(Len(list) - 1)
    BY <1>2, LenProperties
  <2>2. PICK A \in 1..Len(list) : rest[a] = list[A] /\ A = IF a < i THEN a ELSE a + 1
    BY <1>4
  <2>3. PICK B \in 1..Len(list) : rest[b] = list[B] /\ B = IF b < i THEN b ELSE b + 1
    BY <1>4
  <2>4. A = B
    BY <1>3, <1>5, <2>2, <2>3
  <2> QED BY <1>1, <2>1, <2>2, <2>3, <2>4
<1>6. Len(rest) <= MAX_FEDERATION_MEMBERS
  BY <1>1, <1>2, FederationAssumption DEF HasEachOnce
<1>7. ToSet(rest) \subseteq ToSet(list)
  <2>1. DOMAIN list = 1..Len(list)
    BY LenProperties
  <2> HIDE DEF rest
  <2> QED BY <1>4, <2>1 DEF ToSet
<1> QED BY <1>2, <1>5, <1>6, <1>7 DEF HasEachOnce, IsInjective

(* So does adding somebody new while there is room.                         *)
LEMMA AppendHasEachOnce ==
  ASSUME NEW list \in Seq(Nodes), HasEachOnce(list), NEW node \in Nodes,
         Len(list) + 1 <= MAX_FEDERATION_MEMBERS, ~Contains(list, node)
  PROVE  Append(list, node) \in Seq(Nodes) /\ HasEachOnce(Append(list, node))
<1> DEFINE longer == Append(list, node)
<1>1. /\ longer \in Seq(Nodes) /\ Len(longer) = Len(list) + 1 /\ longer[Len(list) + 1] = node
      /\ \A k \in 1..Len(list) : longer[k] = list[k]
  BY AppendProperties
<1>2. Len(list) \in Nat /\ \A k \in 1..Len(list) : list[k] # node
  BY LenProperties DEF Contains
<1>3. \A a, b \in 1..Len(list) : list[a] = list[b] => a = b
  BY LenProperties DEF HasEachOnce, IsInjective
<1>4. ASSUME NEW a \in DOMAIN longer, NEW b \in DOMAIN longer, longer[a] = longer[b]
      PROVE  a = b
  <2>1. a \in 1..(Len(list) + 1) /\ b \in 1..(Len(list) + 1)
    BY <1>1, LenProperties
  <2> QED BY <1>1, <1>2, <1>3, <1>4, <2>1
<1> QED BY <1>1, <1>2, <1>4 DEF HasEachOnce, IsInjective

(* What a step may do to a revision.                                        *)
RevisionIsKept(r) ==
  \/ GetMembersByRevision(r)' = GetMembersByRevision(r)
  \/ /\ r = federationRevision /\ UNCHANGED federationRevision
     /\ ToSet(GetMembersByRevision(r)') \subseteq ToSet(GetMembersByRevision(r))

(* A change by the owner stores the present members under the revision that *)
(* ends, and disturbs no other.                                             *)
LEMMA NextRevisionKeeps ==
  ASSUME FederationInv, NEW list, list \in Seq(Nodes), HasEachOnce(list),
         NextRevision(list)
  PROVE  /\ FederationInv'
         /\ \A r \in 0..federationRevision : RevisionIsKept(r)
<1>1. /\ membersByRevision' = Append(membersByRevision, members)
      /\ federationRevision' = federationRevision + 1 /\ members' = list
  BY DEF NextRevision
<1>2. /\ membersByRevision' \in Seq(Seq(Nodes)) /\ Len(membersByRevision') = federationRevision + 1
      /\ membersByRevision'[federationRevision + 1] = members
      /\ \A k \in 1..federationRevision : membersByRevision'[k] = membersByRevision[k]
  <2>1. /\ membersByRevision \in Seq(Seq(Nodes)) /\ members \in Seq(Nodes)
        /\ Len(membersByRevision) = federationRevision
    BY DEF FederationInv
  <2> QED BY <1>1, <2>1, AppendProperties
<1>3. FederationInv'
  <2>1. \A k \in 1..federationRevision' : HasEachOnce(membersByRevision'[k])
    BY <1>1, <1>2 DEF FederationInv
  <2> QED BY <1>1, <1>2, <2>1 DEF FederationInv, HasEachOnce
<1>4. ASSUME NEW r \in 0..federationRevision
      PROVE  GetMembersByRevision(r)' = GetMembersByRevision(r)
  <2>1. r # federationRevision' /\ r + 1 \in DOMAIN membersByRevision'
    BY <1>1, <1>2, LenProperties DEF FederationInv
  <2>2. GetMembersByRevision(r)' = membersByRevision'[r + 1]
    BY <2>1 DEF GetMembersByRevision
  <2>3. CASE r = federationRevision
    BY <2>2, <2>3, <1>2 DEF GetMembersByRevision
  <2>4. CASE r # federationRevision
    <3>1. r + 1 \in 1..federationRevision /\ r + 1 \in DOMAIN membersByRevision
      BY <2>4, LenProperties DEF FederationInv
    <3> QED BY <2>2, <2>4, <3>1, <1>2 DEF GetMembersByRevision
  <2> QED BY <2>3, <2>4
<1> QED BY <1>3, <1>4 DEF RevisionIsKept

(* A removal by index takes a member off the present revision.              *)
LEMMA RemoveMemberByIndexKeeps ==
  ASSUME FederationInv, NEW i \in DOMAIN members, RemoveMemberByIndex(i)
  PROVE  /\ FederationInv'
         /\ \A r \in 0..federationRevision : RevisionIsKept(r)
<1>1. /\ members' = RemoveAt(members, i)
      /\ federationRevision' = federationRevision /\ membersByRevision' = membersByRevision
  BY DEF RemoveMemberByIndex
<1>2. /\ members' \in Seq(Nodes) /\ HasEachOnce(members')
      /\ ToSet(members') \subseteq ToSet(members)
  BY <1>1, RemoveAtHasEachOnce DEF FederationInv
<1>3. FederationInv'
  BY <1>1, <1>2 DEF FederationInv, HasEachOnce
<1>4. ASSUME NEW r \in 0..federationRevision PROVE RevisionIsKept(r)
  <2>1. CASE r = federationRevision
    BY <2>1, <1>1, <1>2 DEF RevisionIsKept, GetMembersByRevision
  <2>2. CASE r # federationRevision
    BY <2>2, <1>1 DEF RevisionIsKept, GetMembersByRevision
  <2> QED BY <2>1, <2>2
<1> QED BY <1>3, <1>4

LEMMA FederationStep ==
  ASSUME FederationInv, ChangeFederation
  PROVE  /\ FederationInv'
         /\ \A r \in 0..federationRevision : RevisionIsKept(r)
<1>1. ASSUME NEW node \in Nodes, AddMember(node)
      PROVE  \E list \in Seq(Nodes) : HasEachOnce(list) /\ NextRevision(list)
  BY <1>1, AppendHasEachOnce DEF AddMember, FederationInv
<1>2. ASSUME NEW node \in Nodes, RemoveMember(node)
      PROVE  \E list \in Seq(Nodes) : HasEachOnce(list) /\ NextRevision(list)
  BY <1>2, RemoveAtHasEachOnce DEF RemoveMember, FederationInv
<1>3. ASSUME NEW i \in DOMAIN members, RemoveMemberByIndex(i)
      PROVE  /\ FederationInv'
             /\ \A r \in 0..federationRevision : RevisionIsKept(r)
  BY <1>3, RemoveMemberByIndexKeeps
<1>4. ASSUME \E node \in Nodes : AddMember(node) \/ RemoveMember(node)
      PROVE  /\ FederationInv'
             /\ \A r \in 0..federationRevision : RevisionIsKept(r)
  <2>1. PICK list \in Seq(Nodes) : HasEachOnce(list) /\ NextRevision(list)
    BY <1>1, <1>2, <1>4
  <2> QED BY <2>1, NextRevisionKeeps
<1> QED BY <1>3, <1>4 DEF ChangeFederation

(* Everything but a change of the federation leaves it alone.               *)
LEMMA BridgeStepsOfFederation ==
  ASSUME [BridgeNext]_bridgeVars
  PROVE  ChangeFederation \/ UNCHANGED federationVars
BY DEF BridgeNext, bridgeVars, EthTransferOut, OrbsTransferIn, OrbsTransferOut, EthTransferIn,
       ProxyTransfer, ResetContract, InitAutonomousSwapBridge, SetAsbAddr, SetTokenContract

(* Federation.sol: in every reachable state the revisions are one to the    *)
(* latest, each a list without repetitions; what the next changes start     *)
(* from.                                                                    *)
THEOREM FederationInvariant == BridgeSpec => []FederationInv
<1>1. BridgeInit => FederationInv
  <2> SUFFICES ASSUME BridgeInit PROVE FederationInv
    OBVIOUS
  <2>1. /\ members \in Seq(Nodes) /\ HasEachOnce(members)
        /\ federationRevision = 0 /\ membersByRevision = <<>>
    BY FederationAssumption
    DEF BridgeInit, FederationInit, IsFederationMembersListValid, HasEachOnce
  <2>2. membersByRevision \in Seq(Seq(Nodes)) /\ Len(membersByRevision) = 0
    BY <2>1
  <2> QED BY <2>1, <2>2 DEF FederationInv
<1>2. FederationInv /\ [BridgeNext]_bridgeVars => FederationInv'
  <2>1. ASSUME FederationInv, UNCHANGED federationVars PROVE FederationInv'
    BY <2>1 DEF FederationInv, federationVars, HasEachOnce
  <2> QED BY <2>1, BridgeStepsOfFederation, FederationStep
<1> QED BY <1>1, <1>2, PTL DEF BridgeSpec

(* No revision of Federation.sol ever has somebody twice or more members    *)
(* than there may be, whoever removes whom by index.                        *)
THEOREM RevisionsAlwaysValid == BridgeSpec => []RevisionsAreValid
<1>1. FederationInv => RevisionsAreValid
  <2> SUFFICES ASSUME FederationInv, NEW r \in 0..federationRevision
               PROVE  HasEachOnce(GetMembersByRevision(r))
    BY DEF RevisionsAreValid, HasEachOnce
  <2>1. CASE r = federationRevision
    BY <2>1 DEF FederationInv, GetMembersByRevision
  <2>2. CASE r # federationRevision
    <3>1. r + 1 \in 1..federationRevision /\ r + 1 \in DOMAIN membersByRevision
      BY <2>2, LenProperties DEF FederationInv
    <3> QED BY <2>2, <3>1 DEF FederationInv, GetMembersByRevision
  <2> QED BY <2>1, <2>2
<1> QED BY <1>1, FederationInvariant, PTL

(* Who was in the federation at a revision that ended never changes, and    *)
(* the present one gets nobody new.                                         *)
THEOREM RevisionsAlwaysKept == BridgeSpec => RevisionsAreKept
<1>1. FederationInv /\ [BridgeNext]_bridgeVars
        => [\A r \in 0..federationRevision : RevisionIsKept(r)]_federationVars
  BY BridgeStepsOfFederation, FederationStep
<1>2. (\A r \in 0..federationRevision : RevisionIsKept(r))
        => \A r \in 0..federationRevision :
             \/ GetMembersByRevision(r)' = GetMembersByRevision(r)
             \/ /\ r = federationRevision /\ UNCHANGED federationRevision
                /\ ToSet(GetMembersByRevision(r)') \subseteq ToSet(GetMembersByRevision(r))
  BY DEF RevisionIsKept
<1> QED BY <1>1, <1>2, FederationInvariant, PTL DEF BridgeSpec, RevisionsAreKept


-----------------------------------------------------------------------------
(* Identifiers                                                              *)

OutEvents == [round : Nat, tuid : Nat, to : OrbsUsers, value : Nat, backed : BOOLEAN]

OutReceipts ==
  [origin : {"this bridge"}, executionResult : {"success"}, signatures : BlockProofs,
   round : Nat, tuid : Nat, to : Holders \cup {NoAddress}, value : Nat, backed : BOOLEAN]

BridgeTypeOK ==
  /\ wallets \in [Holders -> Nat] /\ balances \in [OrbsUsers -> Nat]
  /\ tuidCounter \in Nat /\ outTuid \in Nat
  /\ resets \in Nat /\ resets <= MaxResets
  /\ ethOut \subseteq OutEvents /\ orbsOut \subseteq OutReceipts

(* An identifier is given out once between two resets, and what arrived was *)
(* sent.                                                                    *)
Identifiers ==
  /\ \A e \in ethOut : e.round <= resets /\ (e.round = resets => e.tuid <= tuidCounter)
  /\ \A r \in orbsOut : r.round <= resets /\ (r.round = resets => r.tuid <= outTuid)
  /\ \A t \in arrived : \/ \E e \in ethOut : t = TransferOf("ethereum", e)
                        \/ \E r \in orbsOut : t = TransferOf("orbs", r)

(* As long as nobody reset or changed an end, the ends know each other, and *)
(* what arrived is marked.                                                  *)
Untouched ==
  resets = 0 =>
    /\ ~astray
    /\ orbsEnd = "this bridge" /\ asbAddr = "this bridge"
    /\ token = "this token" /\ tokenContract = "this token"
    /\ \A e \in ethOut : e.backed /\ (TransferOf("ethereum", e) \in arrived => e.tuid \in inTuids)
    /\ \A r \in orbsOut : r.backed /\ (TransferOf("orbs", r) \in arrived => r.tuid \in spentOrbsTuids)

BridgeInv == BridgeTypeOK /\ Identifiers /\ Untouched


(* Counting in a word never gives more, and is exact below its size.        *)
LEMMA CountedInWord ==
  ASSUME NEW a \in Nat, NEW b \in Nat
  PROVE  /\ (a + (b % UINT64)) % UINT64 \in 0..(a + b)
         /\ a + b < UINT64 => (a + (b % UINT64)) % UINT64 = a + b
         /\ (a + b) % UINT64 \in 0..(a + b)
         /\ a + b < UINT64 => (a + b) % UINT64 = a + b
<1>1. UINT64 \in Nat \ {0}
  BY BridgeAssumption
<1>2. ASSUME NEW n \in Nat PROVE n % UINT64 \in 0..n /\ (n < UINT64 => n % UINT64 = n)
  BY <1>1
<1>3. b % UINT64 \in 0..b /\ (b < UINT64 => b % UINT64 = b)
  BY <1>2
<1>4. PICK c \in 0..b : c = b % UINT64 /\ (b < UINT64 => c = b)
  BY <1>3
<1>5. (a + c) % UINT64 \in 0..(a + c) /\ (a + c < UINT64 => (a + c) % UINT64 = a + c)
  BY <1>2, a + c \in Nat
<1>6. (a + b) % UINT64 \in 0..(a + b) /\ (a + b < UINT64 => (a + b) % UINT64 = a + b)
  BY <1>2, a + b \in Nat
<1>7. PICK m \in Nat : m = (a + c) % UINT64 /\ m <= a + c /\ (a + c < UINT64 => m = a + c)
  BY <1>5
<1> QED BY <1>1, <1>4, <1>6, <1>7

LEMMA WordsAreNaturals ==
  ASSUME NEW a \in Nat, NEW b \in Nat
  PROVE  (a + (b % UINT64)) % UINT64 \in Nat /\ (a + b) % UINT64 \in Nat
<1>1. \A n \in Nat : n % UINT64 \in Nat
  <2>1. UINT64 \in Nat \ {0}
    BY BridgeAssumption
  <2> QED BY ONLY <2>1
<1>2. PICK c \in Nat : c = b % UINT64
  BY <1>1
<1>3. a + b \in Nat /\ a + c \in Nat
  OBVIOUS
<1>4. (a + b) % UINT64 \in Nat /\ (a + c) % UINT64 \in Nat
  BY <1>1, <1>3
<1> QED BY <1>2, <1>4

(* The types of events and receipts, one by one; those of other bridges are *)
(* given.                                                                   *)
LEMMA BridgeTypes ==
  ASSUME BridgeInv
  PROVE  /\ tuidCounter \in Nat /\ outTuid \in Nat /\ resets \in Nat
         /\ \A h \in Holders : wallets[h] \in Nat
         /\ \A u \in OrbsUsers : balances[u] \in Nat
         /\ \A e \in ethOut : e.tuid \in Nat /\ e.round \in Nat
         /\ \A e \in EthEvents : e.to \in OrbsUsers /\ e.value \in Nat
         /\ \A r \in orbsOut : r.tuid \in Nat /\ r.round \in Nat
         /\ \A r \in orbsOut \cup OtherReceipts : r.to \in Holders \cup {NoAddress} /\ r.value \in Nat
<1>1. BridgeTypeOK
  BY DEF BridgeInv
<1>2. \A e \in ethOut : e.tuid \in Nat /\ e.round \in Nat /\ e.to \in OrbsUsers /\ e.value \in Nat
  BY <1>1 DEF BridgeTypeOK, OutEvents
<1>3. \A r \in orbsOut : /\ r.tuid \in Nat /\ r.round \in Nat
                         /\ r.to \in Holders \cup {NoAddress} /\ r.value \in Nat
  BY <1>1 DEF BridgeTypeOK, OutReceipts
<1>4. \A e \in EthEvents : e.to \in OrbsUsers /\ e.value \in Nat
  BY <1>2, BridgeAssumption DEF EthEvents
<1>5. \A r \in OtherReceipts : r.to \in Holders \cup {NoAddress} /\ r.value \in Nat
  BY BridgeAssumption
<1> QED BY <1>1, <1>2, <1>3, <1>4, <1>5 DEF BridgeTypeOK

(* A transfer is known by its chain, its identifier and the resets before.  *)
LEMMA TransferFields ==
  \A chain, event :
    LET t == TransferOf(chain, event)
    IN t.chain = chain /\ t.id = <<event.round, event.tuid>> /\ t.to = event.to /\ t.value = event.value
BY DEF TransferOf

LEMMA SameTransfer ==
  ASSUME NEW c, NEW d, NEW e, NEW f, TransferOf(c, e) = TransferOf(d, f)
  PROVE  c = d /\ e.round = f.round /\ e.tuid = f.tuid
<1>1. /\ TransferOf(c, e).chain = c /\ TransferOf(c, e).id = <<e.round, e.tuid>>
      /\ TransferOf(d, f).chain = d /\ TransferOf(d, f).id = <<f.round, f.tuid>>
  BY TransferFields
<1>2. c = d /\ <<e.round, e.tuid>> = <<f.round, f.tuid>>
  BY <1>1
<1> QED BY <1>2

LEMMA BackedItems ==
  ASSUME NEW t
  PROVE  t \in BackedTransfers <=>
           \/ \E e \in ethOut : e.backed /\ t = TransferOf("ethereum", e)
           \/ \E r \in orbsOut : r.backed /\ t = TransferOf("orbs", r)
BY DEF BackedTransfers

(* The next transfer out of an end was not sent before.                     *)
LEMMA NextIsFresh ==
  ASSUME BridgeInv, NEW t \in BackedTransfers \cup arrived
  PROVE  /\ t.chain # "ethereum" \/ t.id # <<resets, tuidCounter + 1>>
         /\ t.chain # "orbs" \/ t.id # <<resets, outTuid + 1>>
<1>1. PICK chain, e : /\ t = TransferOf(chain, e)
                      /\ \/ chain = "ethereum" /\ e \in ethOut
                         \/ chain = "orbs" /\ e \in orbsOut
  BY BackedItems DEF BridgeInv, Identifiers
<1>2. t.chain = chain /\ t.id = <<e.round, e.tuid>>
  BY <1>1, TransferFields
<1>3. CASE chain = "ethereum" /\ e \in ethOut
  <2>1. e.tuid \in Nat /\ tuidCounter \in Nat /\ (e.round = resets => e.tuid <= tuidCounter)
    BY <1>3, BridgeTypes DEF BridgeInv, Identifiers
  <2> QED BY <1>2, <1>3, <2>1
<1>4. CASE chain = "orbs" /\ e \in orbsOut
  <2>1. e.tuid \in Nat /\ outTuid \in Nat /\ (e.round = resets => e.tuid <= outTuid)
    BY <1>4, BridgeTypes DEF BridgeInv, Identifiers
  <2> QED BY <1>2, <1>4, <2>1
<1> QED BY <1>1, <1>3, <1>4

LEMMA InitialInv == BridgeInit => BridgeInv
<1> SUFFICES ASSUME BridgeInit PROVE BridgeInv
  OBVIOUS
<1>1. wallets \in [Holders -> Nat] /\ balances \in [OrbsUsers -> Nat]
  BY BridgeAssumption DEF BridgeInit
<1>2. /\ tuidCounter = 0 /\ outTuid = 0 /\ resets = 0
      /\ arrived = {} /\ ethOut = {} /\ orbsOut = {}
      /\ orbsEnd = "this bridge" /\ asbAddr = "this bridge"
      /\ token = "this token" /\ tokenContract = "this token"
  BY DEF BridgeInit
<1>3. astray = FALSE
  BY DEF BridgeInit
<1>4. BridgeTypeOK
  <2>1. MaxResets \in Nat
    BY BridgeAssumption
  <2>2. 0 <= MaxResets
    BY <2>1
  <2>3. tuidCounter \in Nat /\ outTuid \in Nat /\ resets \in Nat
    BY <1>2
  <2>4. resets <= MaxResets
    BY <1>2, <2>2
  <2>5. ethOut \subseteq OutEvents /\ orbsOut \subseteq OutReceipts
    BY <1>2
  <2> QED BY <1>1, <1>3, <2>3, <2>4, <2>5 DEF BridgeTypeOK
<1>5. Identifiers /\ Untouched
  BY <1>2, <1>3 DEF Identifiers, Untouched
<1> QED BY <1>4, <1>5 DEF BridgeInv

(* What is left alone by sending and by receiving.                          *)
LEMMA HistoryKept ==
  ASSUME UNCHANGED historyVars
  PROVE  resets' = resets /\ arrived' = arrived /\ astray' = astray
BY DEF historyVars

LEMMA EthTransferOutInv ==
  ASSUME BridgeInv, NEW from \in Holders, NEW to \in OrbsUsers, NEW value \in Values,
         EthTransferOut(from, to, value)
  PROVE  BridgeInv'
<1> DEFINE e == [round |-> resets, tuid |-> tuidCounter + 1, to |-> to, value |-> value,
                 backed |-> token = "this token"]
           v == InToken(value)
<1>1. value \in Nat /\ v \in Nat /\ v <= wallets[from]
  BY BridgeAssumption DEF EthTransferOut, InToken
<1>2. /\ wallets' = [wallets EXCEPT ![from] = @ - v]
      /\ tuidCounter' = tuidCounter + 1 /\ ethOut' = ethOut \cup {e}
      /\ UNCHANGED <<orbsEnd, token, spentOrbsTuids, balances, asbAddr, tokenContract,
                     outTuid, inTuids, orbsOut>>
  BY DEF EthTransferOut, orbsVars
<1>3. resets' = resets /\ arrived' = arrived /\ astray' = astray
  BY HistoryKept DEF EthTransferOut
<1>4. e.round = resets /\ e.tuid = tuidCounter + 1 /\ (e.backed <=> token = "this token")
  OBVIOUS
<1>5. e \in OutEvents
  BY <1>1, BridgeTypes DEF OutEvents
<1> HIDE DEF e, v
<1>6. BridgeTypeOK'
  <2>1. wallets[from] - v \in Nat
    BY <1>1, BridgeTypes
  <2>2. wallets' \in [Holders -> Nat]
    BY <1>2, <2>1 DEF BridgeInv, BridgeTypeOK
  <2>3. ethOut' \subseteq OutEvents
    BY <1>2, <1>5 DEF BridgeInv, BridgeTypeOK
  <2>4. tuidCounter' \in Nat
    BY <1>2, BridgeTypes
  <2> QED BY <1>2, <1>3, <2>2, <2>3, <2>4 DEF BridgeInv, BridgeTypeOK, OutEvents, OutReceipts
<1>7. Identifiers'
  <2>1. ASSUME NEW f \in ethOut'
        PROVE  f.round <= resets /\ (f.round = resets => f.tuid <= tuidCounter + 1)
    <3>1. resets \in Nat /\ tuidCounter \in Nat
      BY BridgeTypes
    <3>2. CASE f = e
      <4>1. f.round = resets /\ f.tuid = tuidCounter + 1
        BY <1>4, <3>2
      <4> QED BY ONLY <3>1, <4>1
    <3>3. CASE f \in ethOut
      <4>1. /\ f.tuid \in Nat /\ f.round <= resets
            /\ f.round = resets => f.tuid <= tuidCounter
        BY <3>3, BridgeTypes DEF BridgeInv, Identifiers
      <4> QED BY <3>1, <4>1
    <3> QED BY <1>2, <3>2, <3>3
  <2>2. \A t \in arrived : \/ \E f \in ethOut' : t = TransferOf("ethereum", f)
                           \/ \E r \in orbsOut : t = TransferOf("orbs", r)
    BY <1>2 DEF BridgeInv, Identifiers
  <2> QED BY <1>2, <1>3, <2>1, <2>2 DEF BridgeInv, Identifiers, TransferOf
<1>8. Untouched'
  <2>1. TransferOf("ethereum", e) \notin arrived
    <3>1. /\ TransferOf("ethereum", e).chain = "ethereum"
          /\ TransferOf("ethereum", e).id = <<resets, tuidCounter + 1>>
      BY <1>4, TransferFields
    <3> QED BY <3>1, NextIsFresh
  <2> QED BY <1>2, <1>3, <1>4, <2>1 DEF BridgeInv, Untouched, TransferOf
<1> QED BY <1>6, <1>7, <1>8 DEF BridgeInv

LEMMA OrbsTransferOutInv ==
  ASSUME BridgeInv, NEW from \in OrbsUsers, NEW to \in Holders \cup {NoAddress},
         NEW amount \in Values, NEW signatures \in BlockProofs,
         OrbsTransferOut(from, to, amount, signatures)
  PROVE  BridgeInv'
<1> DEFINE r == [origin |-> "this bridge", executionResult |-> "success",
                 signatures |-> signatures, round |-> resets, tuid |-> outTuid + 1,
                 to |-> to, value |-> amount, backed |-> tokenContract = "this token"]
<1>1. amount \in Nat
  BY BridgeAssumption
<1>2. /\ outTuid' = outTuid + 1 /\ orbsOut' = orbsOut \cup {r}
      /\ UNCHANGED <<wallets, tuidCounter, ethOut, orbsEnd, token, spentOrbsTuids, asbAddr,
                     tokenContract, inTuids>>
  BY DEF OrbsTransferOut, ethereumVars
<1>3. resets' = resets /\ arrived' = arrived /\ astray' = astray
  BY HistoryKept DEF OrbsTransferOut
<1>4. r.round = resets /\ r.tuid = outTuid + 1 /\ (r.backed <=> tokenContract = "this token")
  OBVIOUS
<1>5. r \in OutReceipts
  BY <1>1, BridgeTypes DEF OutReceipts
<1> HIDE DEF r
<1>6. BridgeTypeOK'
  <2>1. balances' \in [OrbsUsers -> Nat]
    <3>1. CASE tokenContract = "this token"
      <4>1. amount <= balances[from] /\ balances' = [balances EXCEPT ![from] = @ - amount]
        BY <3>1 DEF OrbsTransferOut, AsbBurn
      <4>2. balances[from] - amount \in Nat
        BY <1>1, <4>1, BridgeTypes
      <4> QED BY <4>1, <4>2 DEF BridgeInv, BridgeTypeOK
    <3>2. CASE tokenContract # "this token"
      BY <3>2 DEF OrbsTransferOut, AsbBurn, BridgeInv, BridgeTypeOK
    <3> QED BY <3>1, <3>2
  <2>2. orbsOut' \subseteq OutReceipts
    BY <1>2, <1>5 DEF BridgeInv, BridgeTypeOK
  <2>3. outTuid' \in Nat
    BY <1>2, BridgeTypes
  <2> QED BY <1>2, <1>3, <2>1, <2>2, <2>3 DEF BridgeInv, BridgeTypeOK, OutEvents, OutReceipts
<1>7. Identifiers'
  <2>1. ASSUME NEW q \in orbsOut'
        PROVE  q.round <= resets /\ (q.round = resets => q.tuid <= outTuid + 1)
    <3>1. resets \in Nat /\ outTuid \in Nat
      BY BridgeTypes
    <3>2. CASE q = r
      <4>1. q.round = resets /\ q.tuid = outTuid + 1
        BY <1>4, <3>2
      <4> QED BY ONLY <3>1, <4>1
    <3>3. CASE q \in orbsOut
      <4>1. /\ q.tuid \in Nat /\ q.round <= resets
            /\ q.round = resets => q.tuid <= outTuid
        BY <3>3, BridgeTypes DEF BridgeInv, Identifiers
      <4> QED BY <3>1, <4>1
    <3> QED BY <1>2, <3>2, <3>3
  <2>2. \A t \in arrived : \/ \E f \in ethOut : t = TransferOf("ethereum", f)
                           \/ \E q \in orbsOut' : t = TransferOf("orbs", q)
    BY <1>2 DEF BridgeInv, Identifiers
  <2> QED BY <1>2, <1>3, <2>1, <2>2 DEF BridgeInv, Identifiers, TransferOf
<1>8. Untouched'
  <2>1. TransferOf("orbs", r) \notin arrived
    <3>1. /\ TransferOf("orbs", r).chain = "orbs"
          /\ TransferOf("orbs", r).id = <<resets, outTuid + 1>>
      BY <1>4, TransferFields
    <3> QED BY <3>1, NextIsFresh
  <2> QED BY <1>2, <1>3, <1>4, <2>1 DEF BridgeInv, Untouched, TransferOf
<1> QED BY <1>6, <1>7, <1>8 DEF BridgeInv

(* What is paid for an event: as it is owed, or astray, which does not      *)
(* happen before somebody reset or changed an end, or in other tokens.      *)
LEMMA RecordCases ==
  ASSUME NEW chain, NEW event, NEW isThisBridge \in BOOLEAN, NEW isThisToken \in BOOLEAN,
         Record(chain, event, isThisBridge, isThisToken)
  PROVE  LET t == TransferOf(chain, event)
         IN /\ resets' = resets
            /\ \/ /\ isThisToken /\ isThisBridge /\ t \in Underway
                  /\ arrived' = arrived \cup {t} /\ (astray' <=> astray)
               \/ /\ isThisToken /\ ~(isThisBridge /\ t \in Underway)
                  /\ arrived' = arrived /\ astray'
               \/ ~isThisToken /\ arrived' = arrived /\ (astray' <=> astray)
<1> DEFINE t == TransferOf(chain, event)
           owed == isThisBridge /\ t \in Underway
<1>1. /\ resets' = resets
      /\ arrived' = IF owed /\ isThisToken THEN arrived \cup {t} ELSE arrived
      /\ astray' <=> (astray \/ (isThisToken /\ ~owed))
  BY DEF Record
<1>2. CASE isThisToken /\ owed
  BY <1>1, <1>2
<1>3. CASE isThisToken /\ ~owed
  BY <1>1, <1>3
<1>4. CASE ~isThisToken
  BY <1>1, <1>4
<1> QED BY <1>2, <1>3, <1>4

LEMMA PaidToOrbs ==
  ASSUME BridgeInv, NEW e \in EthEvents, OrbsTransferIn(e)
  PROVE  LET t == TransferOf("ethereum", e)
         IN /\ resets' = resets
            /\ \/ /\ tokenContract = "this token" /\ t \in Underway
                  /\ arrived' = arrived \cup {t} /\ (astray' <=> astray)
               \/ /\ tokenContract = "this token" /\ resets # 0 /\ arrived' = arrived /\ astray'
               \/ /\ tokenContract # "this token" /\ resets # 0
                  /\ arrived' = arrived /\ (astray' <=> astray)
<1> DEFINE t == TransferOf("ethereum", e)
<1>1. Record("ethereum", e, asbAddr = "this bridge", tokenContract = "this token")
  BY DEF OrbsTransferIn
<1>2. /\ resets' = resets
      /\ \/ /\ tokenContract = "this token" /\ asbAddr = "this bridge" /\ t \in Underway
            /\ arrived' = arrived \cup {t} /\ (astray' <=> astray)
         \/ /\ tokenContract = "this token" /\ ~(asbAddr = "this bridge" /\ t \in Underway)
            /\ arrived' = arrived /\ astray'
         \/ tokenContract # "this token" /\ arrived' = arrived /\ (astray' <=> astray)
  BY <1>1, RecordCases
<1>3. ASSUME resets = 0
      PROVE  tokenContract = "this token" /\ asbAddr = "this bridge" /\ t \in Underway
  <2>1. /\ tokenContract = "this token" /\ asbAddr = "this bridge" /\ e \in ethOut /\ e.backed
        /\ t \in arrived => e.tuid \in inTuids
    BY <1>3 DEF BridgeInv, Untouched, EthEvents
  <2>2. e.tuid \notin inTuids /\ t \in BackedTransfers
    BY <2>1, BackedItems DEF OrbsTransferIn
  <2> QED BY <2>1, <2>2 DEF Underway
<1> HIDE DEF t
<1> QED BY <1>2, <1>3 DEF t

LEMMA PaidToEthereum ==
  ASSUME BridgeInv, NEW r \in orbsOut \cup OtherReceipts, EthTransferIn(r)
  PROVE  LET t == TransferOf("orbs", r)
         IN /\ resets' = resets
            /\ \/ /\ token = "this token" /\ t \in Underway
                  /\ arrived' = arrived \cup {t} /\ (astray' <=> astray)
               \/ /\ token = "this token" /\ resets # 0 /\ arrived' = arrived /\ astray'
               \/ /\ token # "this token" /\ resets # 0
                  /\ arrived' = arrived /\ (astray' <=> astray)
<1> DEFINE t == TransferOf("orbs", r)
<1>1. Record("orbs", r, r.origin = "this bridge", token = "this token")
  BY DEF EthTransferIn
<1>2. /\ resets' = resets
      /\ \/ /\ token = "this token" /\ r.origin = "this bridge" /\ t \in Underway
            /\ arrived' = arrived \cup {t} /\ (astray' <=> astray)
         \/ /\ token = "this token" /\ ~(r.origin = "this bridge" /\ t \in Underway)
            /\ arrived' = arrived /\ astray'
         \/ token # "this token" /\ arrived' = arrived /\ (astray' <=> astray)
  BY <1>1, RecordCases
<1>3. ASSUME resets = 0
      PROVE  token = "this token" /\ r.origin = "this bridge" /\ t \in Underway
  <2>1. token = "this token" /\ orbsEnd = "this bridge"
    BY <1>3 DEF BridgeInv, Untouched
  <2>2. /\ r.origin = "this bridge" /\ r.executionResult = "success"
        /\ r.tuid \notin spentOrbsTuids
    BY <2>1 DEF EthTransferIn, ProcessPackedProof, Spent
  <2>3. r \in orbsOut
    BY <2>2, BridgeAssumption
  <2>4. r.backed /\ (t \in arrived => r.tuid \in spentOrbsTuids)
    BY <1>3, <2>3 DEF BridgeInv, Untouched
  <2>5. t \in BackedTransfers /\ t \notin arrived
    BY <2>2, <2>3, <2>4, BackedItems
  <2> QED BY <2>1, <2>2, <2>5 DEF Underway
<1> HIDE DEF t
<1> QED BY <1>2, <1>3 DEF t

(* What is under way was sent.                                              *)
LEMMA UnderwayWasSent ==
  ASSUME NEW t \in Underway
  PROVE  \/ \E e \in ethOut : t = TransferOf("ethereum", e)
         \/ \E r \in orbsOut : t = TransferOf("orbs", r)
BY BackedItems DEF Underway

LEMMA OrbsTransferInInv ==
  ASSUME BridgeInv, NEW e \in EthEvents, OrbsTransferIn(e)
  PROVE  BridgeInv'
<1> DEFINE t == TransferOf("ethereum", e)
<1>1. e.to \in OrbsUsers /\ e.value \in Nat
  BY BridgeTypes
<1>2. /\ inTuids' = inTuids \cup {e.tuid}
      /\ UNCHANGED <<wallets, tuidCounter, ethOut, orbsEnd, token, spentOrbsTuids,
                     asbAddr, tokenContract, outTuid, orbsOut>>
  BY DEF OrbsTransferIn, ethereumVars
<1>3. /\ resets' = resets
      /\ \/ t \in Underway /\ arrived' = arrived \cup {t} /\ (astray' <=> astray)
         \/ resets # 0 /\ arrived' = arrived
  BY PaidToOrbs
<1>4. balances' \in [OrbsUsers -> Nat]
  <2>1. CASE tokenContract = "this token"
    <3>1. balances' = [balances EXCEPT ![e.to] = (@ + (e.value % UINT64)) % UINT64]
      BY <2>1 DEF OrbsTransferIn, AsbMint
    <3>2. (balances[e.to] + (e.value % UINT64)) % UINT64 \in Nat
      BY <1>1, BridgeTypes, WordsAreNaturals
    <3> QED BY <3>1, <3>2 DEF BridgeInv, BridgeTypeOK
  <2>2. CASE tokenContract # "this token"
    BY <2>2 DEF OrbsTransferIn, AsbMint, BridgeInv, BridgeTypeOK
  <2> QED BY <2>1, <2>2
<1>5. BridgeTypeOK'
  BY <1>2, <1>3, <1>4 DEF BridgeInv, BridgeTypeOK, OutEvents, OutReceipts
<1>6. Identifiers'
  <2>1. \A x \in arrived' : \/ \E f \in ethOut : x = TransferOf("ethereum", f)
                            \/ \E r \in orbsOut : x = TransferOf("orbs", r)
    <3> HIDE DEF t
    <3> QED BY <1>3, UnderwayWasSent DEF BridgeInv, Identifiers
  <2> QED BY <1>2, <1>3, <2>1 DEF BridgeInv, Identifiers, TransferOf
<1>7. Untouched'
  <2> SUFFICES ASSUME resets = 0 PROVE Untouched'
    BY <1>3 DEF Untouched
  <2>1. arrived' = arrived \cup {t} /\ (astray' <=> astray)
    BY <1>3
  <2>2. \A f \in ethOut : TransferOf("ethereum", f) \in arrived' => f.tuid \in inTuids'
    <3>1. \A f : TransferOf("ethereum", f) = t => f.tuid = e.tuid
      BY SameTransfer
    <3> HIDE DEF t
    <3> QED BY <1>2, <2>1, <3>1 DEF BridgeInv, Untouched
  <2>3. \A r \in orbsOut : TransferOf("orbs", r) \in arrived' => r.tuid \in spentOrbsTuids
    <3>1. \A r : TransferOf("orbs", r) # t
      BY SameTransfer
    <3> HIDE DEF t
    <3> QED BY <2>1, <3>1 DEF BridgeInv, Untouched
  <2> QED BY <1>2, <1>3, <2>1, <2>2, <2>3 DEF BridgeInv, Untouched, TransferOf
<1> QED BY <1>5, <1>6, <1>7 DEF BridgeInv

LEMMA EthTransferInInv ==
  ASSUME BridgeInv, NEW r \in orbsOut \cup OtherReceipts, EthTransferIn(r)
  PROVE  BridgeInv'
<1> DEFINE t == TransferOf("orbs", r)
           v == InToken(r.value)
<1>1. r.to \in Holders /\ r.value \in Nat /\ v \in Nat
  BY BridgeTypes DEF EthTransferIn, InToken
<1>2. /\ wallets' = [wallets EXCEPT ![r.to] = @ + v]
      /\ spentOrbsTuids' = spentOrbsTuids \cup {r.tuid}
      /\ UNCHANGED <<balances, tuidCounter, ethOut, orbsEnd, token, inTuids,
                     asbAddr, tokenContract, outTuid, orbsOut>>
  BY DEF EthTransferIn, orbsVars
<1>3. /\ resets' = resets
      /\ \/ t \in Underway /\ arrived' = arrived \cup {t} /\ (astray' <=> astray)
         \/ resets # 0 /\ arrived' = arrived
  BY PaidToEthereum
<1>4. wallets' \in [Holders -> Nat]
  <2>1. wallets[r.to] + v \in Nat
    BY <1>1, BridgeTypes
  <2> HIDE DEF v
  <2> QED BY <1>2, <2>1 DEF BridgeInv, BridgeTypeOK
<1>5. BridgeTypeOK'
  BY <1>2, <1>3, <1>4 DEF BridgeInv, BridgeTypeOK, OutEvents, OutReceipts
<1>6. Identifiers'
  <2>1. \A x \in arrived' : \/ \E f \in ethOut : x = TransferOf("ethereum", f)
                            \/ \E q \in orbsOut : x = TransferOf("orbs", q)
    <3> HIDE DEF t
    <3> QED BY <1>3, UnderwayWasSent DEF BridgeInv, Identifiers
  <2> QED BY <1>2, <1>3, <2>1 DEF BridgeInv, Identifiers, TransferOf
<1>7. Untouched'
  <2> SUFFICES ASSUME resets = 0 PROVE Untouched'
    BY <1>3 DEF Untouched
  <2>1. arrived' = arrived \cup {t} /\ (astray' <=> astray)
    BY <1>3
  <2>2. \A q \in orbsOut : TransferOf("orbs", q) \in arrived' => q.tuid \in spentOrbsTuids'
    <3>1. \A q : TransferOf("orbs", q) = t => q.tuid = r.tuid
      BY SameTransfer
    <3> HIDE DEF t
    <3> QED BY <1>2, <2>1, <3>1 DEF BridgeInv, Untouched
  <2>3. \A f \in ethOut : TransferOf("ethereum", f) \in arrived' => f.tuid \in inTuids
    <3>1. \A f : TransferOf("ethereum", f) # t
      BY SameTransfer
    <3> HIDE DEF t
    <3> QED BY <2>1, <3>1 DEF BridgeInv, Untouched
  <2> QED BY <1>2, <1>3, <2>1, <2>2, <2>3 DEF BridgeInv, Untouched, TransferOf
<1> QED BY <1>5, <1>6, <1>7 DEF BridgeInv

LEMMA ProxyTransferInv ==
  ASSUME BridgeInv, NEW from \in OrbsUsers, NEW to \in OrbsUsers, NEW amount \in Values,
         ProxyTransfer(from, to, amount)
  PROVE  BridgeInv'
<1>1. /\ amount \in Nat /\ amount <= balances[from] /\ from # to
      /\ balances' = [balances EXCEPT ![from] = @ - amount, ![to] = (@ + amount) % UINT64]
      /\ UNCHANGED <<wallets, tuidCounter, ethOut, orbsEnd, token, spentOrbsTuids,
                     asbAddr, tokenContract, outTuid, inTuids, orbsOut>>
  BY BridgeAssumption DEF ProxyTransfer, ethereumVars
<1>2. resets' = resets /\ arrived' = arrived /\ (astray' <=> astray)
  BY DEF ProxyTransfer, historyVars
<1>3. balances' \in [OrbsUsers -> Nat]
  <2>1. balances[from] \in Nat /\ balances[to] \in Nat
    BY DEF BridgeInv, BridgeTypeOK
  <2>2. balances[from] - amount \in Nat
    BY ONLY <1>1, <2>1
  <2>3. (balances[to] + amount) % UINT64 \in Nat
    BY ONLY <1>1, <2>1, WordsAreNaturals
  <2> QED BY <1>1, <2>2, <2>3 DEF BridgeInv, BridgeTypeOK
<1> QED BY <1>1, <1>2, <1>3 DEF BridgeInv, BridgeTypeOK, OutEvents, OutReceipts, Identifiers,
          Untouched, TransferOf

(* A reset and a change of contracts, of either end.                        *)
AnyReset ==
  \/ ResetContract
  \/ \E newOrbsEnd \in Bridges, newToken \in Tokens : InitAutonomousSwapBridge(newOrbsEnd, newToken)
  \/ \E newAddr \in Bridges : SetAsbAddr(newAddr)
  \/ \E newToken \in Tokens : SetTokenContract(newToken)

(* It moves nothing and forgets no event; the counters may start again.     *)
LEMMA ResetsMoveNothing ==
  ASSUME AnyReset
  PROVE  /\ resets < MaxResets /\ resets' = resets + 1
         /\ arrived' = arrived /\ (astray' <=> astray)
         /\ tuidCounter' \in {0, tuidCounter} /\ outTuid' \in {0, outTuid}
         /\ UNCHANGED <<federationVars, wallets, locked, ethOut, balances, totalSupply, orbsOut>>
<1>1. CASE ResetContract
  BY <1>1 DEF ResetContract, Reset, ethereumVars
<1>2. ASSUME NEW newOrbsEnd \in Bridges, NEW newToken \in Tokens,
             InitAutonomousSwapBridge(newOrbsEnd, newToken)
      PROVE  /\ resets < MaxResets /\ resets' = resets + 1
             /\ arrived' = arrived /\ (astray' <=> astray)
             /\ tuidCounter' \in {0, tuidCounter} /\ outTuid' \in {0, outTuid}
             /\ UNCHANGED <<federationVars, wallets, locked, ethOut, balances, totalSupply, orbsOut>>
  BY <1>2 DEF InitAutonomousSwapBridge, Reset, orbsVars
<1>3. ASSUME NEW newAddr \in Bridges, SetAsbAddr(newAddr)
      PROVE  /\ resets < MaxResets /\ resets' = resets + 1
             /\ arrived' = arrived /\ (astray' <=> astray)
             /\ tuidCounter' \in {0, tuidCounter} /\ outTuid' \in {0, outTuid}
             /\ UNCHANGED <<federationVars, wallets, locked, ethOut, balances, totalSupply, orbsOut>>
  BY <1>3 DEF SetAsbAddr, Reset, ethereumVars
<1>4. ASSUME NEW newToken \in Tokens, SetTokenContract(newToken)
      PROVE  /\ resets < MaxResets /\ resets' = resets + 1
             /\ arrived' = arrived /\ (astray' <=> astray)
             /\ tuidCounter' \in {0, tuidCounter} /\ outTuid' \in {0, outTuid}
             /\ UNCHANGED <<federationVars, wallets, locked, ethOut, balances, totalSupply, orbsOut>>
  BY <1>4 DEF SetTokenContract, Reset, ethereumVars
<1> QED BY <1>1, <1>2, <1>3, <1>4 DEF AnyReset

LEMMA ResetInv ==
  ASSUME BridgeInv, AnyReset
  PROVE  BridgeInv'
<1>1. /\ resets < MaxResets /\ resets' = resets + 1
      /\ arrived' = arrived /\ (astray' <=> astray)
      /\ tuidCounter' \in {0, tuidCounter} /\ outTuid' \in {0, outTuid}
      /\ UNCHANGED <<wallets, ethOut, balances, orbsOut>>
  BY ResetsMoveNothing
<1>2. /\ resets \in Nat /\ resets' \in Nat /\ resets' <= MaxResets /\ resets' # 0
      /\ tuidCounter' \in Nat /\ outTuid' \in Nat
  <2>1. resets \in Nat /\ MaxResets \in Nat /\ tuidCounter \in Nat /\ outTuid \in Nat
    BY BridgeTypes, BridgeAssumption
  <2> QED BY ONLY <1>1, <2>1
<1>3. BridgeTypeOK'
  BY <1>1, <1>2 DEF BridgeInv, BridgeTypeOK, OutEvents, OutReceipts
<1>4. Identifiers'
  <2>1. ASSUME NEW e, e.round \in Nat, e.round <= resets
        PROVE  e.round <= resets' /\ e.round # resets'
    BY ONLY <1>1, <1>2, <2>1
  <2>2. /\ \A e \in ethOut : e.round \in Nat /\ e.round <= resets
        /\ \A r \in orbsOut : r.round \in Nat /\ r.round <= resets
    BY BridgeTypes DEF BridgeInv, Identifiers
  <2>3. \A e \in ethOut : e.round <= resets' /\ e.round # resets'
    BY <2>1, <2>2
  <2>4. \A r \in orbsOut : r.round <= resets' /\ r.round # resets'
    BY <2>1, <2>2
  <2> QED BY <1>1, <2>3, <2>4 DEF BridgeInv, Identifiers, TransferOf
<1>5. Untouched'
  BY <1>2 DEF Untouched
<1> QED BY <1>3, <1>4, <1>5 DEF BridgeInv

LEMMA BridgeUnchanged ==
  ASSUME BridgeInv, UNCHANGED <<ethereumVars, orbsVars, historyVars>>
  PROVE  /\ BridgeInv'
         /\ Underway' = Underway /\ AllWallets' = AllWallets /\ Promise' = Promise
<1>1. /\ UNCHANGED <<wallets, balances, tuidCounter, outTuid, ethOut, orbsOut, orbsEnd, token,
                     spentOrbsTuids, asbAddr, tokenContract, inTuids>>
      /\ resets' = resets /\ arrived' = arrived /\ (astray' <=> astray)
  BY DEF ethereumVars, orbsVars, historyVars
<1>2. BridgeInv'
  BY <1>1 DEF BridgeInv, BridgeTypeOK, OutEvents, OutReceipts, Identifiers, Untouched, TransferOf
<1> QED BY <1>1, <1>2 DEF Underway, BackedTransfers, TransferOf, AllWallets, Promise

(* Both ends of the bridge in every reachable state: no identifier is given *)
(* out twice between two resets, what arrived was sent, and as long as      *)
(* nobody reset or changed an end what arrived is marked, so that nothing   *)
(* was paid astray.                                                         *)
THEOREM BridgeInvariant == BridgeSpec => []BridgeInv
<1>1. BridgeInit => BridgeInv
  BY InitialInv
<1>2. BridgeInv /\ [BridgeNext]_bridgeVars => BridgeInv'
  <2> SUFFICES ASSUME BridgeInv, [BridgeNext]_bridgeVars PROVE BridgeInv'
    OBVIOUS
  <2>1. CASE UNCHANGED bridgeVars
    BY <2>1, BridgeUnchanged DEF bridgeVars
  <2>2. CASE BridgeNext
    BY <2>2, EthTransferOutInv, OrbsTransferInInv, OrbsTransferOutInv, EthTransferInInv,
       ProxyTransferInv, ResetInv, BridgeUnchanged
    DEF BridgeNext, AnyReset
  <2> QED BY <2>1, <2>2
<1> QED BY <1>1, <1>2, PTL DEF BridgeSpec

-----------------------------------------------------------------------------
(* Wallets and transfers                                                    *)

(* What is under way changes with the events and with what arrived.         *)
LEMMA UnderwayKept ==
  ASSUME UNCHANGED <<ethOut, orbsOut>>
  PROVE  BackedTransfers' = BackedTransfers
BY DEF BackedTransfers, TransferOf

LEMMA UnderwayLess ==
  ASSUME NEW t \in Underway, UNCHANGED <<ethOut, orbsOut>>, arrived' = arrived \cup {t}
  PROVE  Underway' = Underway \ {t}
BY UnderwayKept DEF Underway

LEMMA UnderwaySame ==
  ASSUME UNCHANGED <<ethOut, orbsOut>>, arrived' = arrived
  PROVE  Underway' = Underway
BY UnderwayKept DEF Underway

(* The fields of a new transfer.                                            *)
LEMMA NewTransfer ==
  ASSUME BridgeInv, NEW chain, NEW n, NEW to, NEW value,
         \/ chain = "ethereum" /\ n = tuidCounter + 1
         \/ chain = "orbs" /\ n = outTuid + 1
  PROVE  LET t == [chain |-> chain, id |-> <<resets, n>>, to |-> to, value |-> value]
         IN  /\ t \notin BackedTransfers \cup arrived /\ t.value = value
             /\ \A u \in Underway : u.chain # t.chain \/ u.id # t.id
<1> DEFINE t == [chain |-> chain, id |-> <<resets, n>>, to |-> to, value |-> value]
<1>1. t.chain = chain /\ t.id = <<resets, n>> /\ t.value = value
  OBVIOUS
<1> HIDE DEF t
<1>2. t \notin BackedTransfers \cup arrived
  BY <1>1, NextIsFresh
<1>3. \A u \in Underway : u.chain # t.chain \/ u.id # t.id
  BY <1>1, NextIsFresh DEF Underway
<1> QED BY <1>1, <1>2, <1>3 DEF t

LEMMA EthTransferOutEffect ==
  ASSUME BridgeInv, NEW from \in Holders, NEW to \in OrbsUsers, NEW value \in Values,
         EthTransferOut(from, to, value)
  PROVE  LET t == [chain |-> "ethereum", id |-> <<resets, tuidCounter + 1>>,
                   to |-> to, value |-> value]
         IN \/ /\ value <= wallets[from]
               /\ wallets' = [wallets EXCEPT ![from] = wallets[from] - value]
               /\ locked' = locked + value
               /\ Underway' = Underway \cup {t}
            \/ wallets' = wallets /\ locked' = locked + 0 /\ Underway' = Underway
<1> DEFINE e == [round |-> resets, tuid |-> tuidCounter + 1, to |-> to, value |-> value,
                 backed |-> token = "this token"]
           t == [chain |-> "ethereum", id |-> <<resets, tuidCounter + 1>>, to |-> to, value |-> value]
<1>1. ethOut' = ethOut \cup {e} /\ orbsOut' = orbsOut /\ arrived' = arrived
  BY DEF EthTransferOut, orbsVars, historyVars
<1>2. TransferOf("ethereum", e) = t /\ (e.backed <=> token = "this token")
  BY DEF TransferOf
<1>3. t \notin arrived
  BY NewTransfer
<1>4. CASE token = "this token"
  <2>1. /\ value <= wallets[from]
        /\ wallets' = [wallets EXCEPT ![from] = wallets[from] - value]
        /\ locked' = locked + value
    BY <1>4 DEF EthTransferOut, InToken, BridgeInv, BridgeTypeOK
  <2>2. e.backed
    BY <1>2, <1>4
  <2> HIDE DEF e, t
  <2>3. BackedTransfers' = BackedTransfers \cup {t}
    BY <1>1, <1>2, <2>2 DEF BackedTransfers, TransferOf
  <2>4. Underway' = Underway \cup {t}
    BY <1>1, <1>3, <2>3 DEF Underway
  <2> QED BY <2>1, <2>4 DEF t
<1>5. CASE token # "this token"
  <2>1. locked' = locked + 0 /\ wallets' = [wallets EXCEPT ![from] = @ - 0]
    BY <1>5 DEF EthTransferOut, InToken
  <2>2. wallets' = wallets
    BY <2>1, BridgeTypes DEF BridgeInv, BridgeTypeOK
  <2>3. ~e.backed
    BY <1>2, <1>5
  <2> HIDE DEF e, t
  <2>4. BackedTransfers' = BackedTransfers
    BY <1>1, <2>3 DEF BackedTransfers, TransferOf
  <2> QED BY <1>1, <2>1, <2>2, <2>4 DEF Underway
<1> QED BY <1>4, <1>5

LEMMA OrbsTransferOutEffect ==
  ASSUME BridgeInv, NEW from \in OrbsUsers, NEW to \in Holders \cup {NoAddress},
         NEW amount \in Values, NEW signatures \in BlockProofs,
         OrbsTransferOut(from, to, amount, signatures)
  PROVE  LET t == [chain |-> "orbs", id |-> <<resets, outTuid + 1>>, to |-> to, value |-> amount]
         IN \/ /\ amount <= balances[from]
               /\ balances' = [balances EXCEPT ![from] = balances[from] - amount]
               /\ totalSupply' = (totalSupply - amount) % UINT64
               /\ Underway' = Underway \cup {t}
            \/ balances' = balances /\ totalSupply' = totalSupply /\ Underway' = Underway
<1> DEFINE r == [origin |-> "this bridge", executionResult |-> "success",
                 signatures |-> signatures, round |-> resets, tuid |-> outTuid + 1,
                 to |-> to, value |-> amount, backed |-> tokenContract = "this token"]
           t == [chain |-> "orbs", id |-> <<resets, outTuid + 1>>, to |-> to, value |-> amount]
<1>1. orbsOut' = orbsOut \cup {r} /\ ethOut' = ethOut /\ arrived' = arrived
  BY DEF OrbsTransferOut, ethereumVars, historyVars
<1>2. TransferOf("orbs", r) = t /\ (r.backed <=> tokenContract = "this token")
  BY DEF TransferOf
<1>3. t \notin arrived
  BY NewTransfer
<1>4. CASE tokenContract = "this token"
  <2>1. /\ amount <= balances[from]
        /\ balances' = [balances EXCEPT ![from] = balances[from] - amount]
        /\ totalSupply' = (totalSupply - amount) % UINT64
    BY <1>4 DEF OrbsTransferOut, AsbBurn, BridgeInv, BridgeTypeOK
  <2>2. r.backed
    BY <1>2, <1>4
  <2> HIDE DEF r, t
  <2>3. BackedTransfers' = BackedTransfers \cup {t}
    BY <1>1, <1>2, <2>2 DEF BackedTransfers, TransferOf
  <2>4. Underway' = Underway \cup {t}
    BY <1>1, <1>3, <2>3 DEF Underway
  <2> QED BY <2>1, <2>4 DEF t
<1>5. CASE tokenContract # "this token"
  <2>1. balances' = balances /\ totalSupply' = totalSupply
    BY <1>5 DEF OrbsTransferOut, AsbBurn
  <2>2. ~r.backed
    BY <1>2, <1>5
  <2> HIDE DEF r, t
  <2>3. BackedTransfers' = BackedTransfers
    BY <1>1, <2>2 DEF BackedTransfers, TransferOf
  <2> QED BY <1>1, <2>1, <2>3 DEF Underway
<1> QED BY <1>4, <1>5

(* An amount is taken from a wallet, or given to one.                       *)
LEMMA WalletOnEthereum ==
  ASSUME BridgeInv, NEW h \in Holders, NEW n, UNCHANGED balances,
         wallets' = [wallets EXCEPT ![h] = n]
  PROVE  AllWallets' = [AllWallets EXCEPT ![h] = n] /\ AllWallets[h] = wallets[h]
BY DEF AllWallets, BridgeInv, BridgeTypeOK

LEMMA WalletOnOrbs ==
  ASSUME BridgeInv, NEW u \in OrbsUsers, NEW n, UNCHANGED wallets,
         balances' = [balances EXCEPT ![u] = n]
  PROVE  AllWallets' = [AllWallets EXCEPT ![u] = n] /\ AllWallets[u] = balances[u]
<1>1. u \notin Holders
  BY BridgeAssumption
<1> QED BY <1>1 DEF AllWallets, BridgeInv, BridgeTypeOK

(* What is paid for an event of Ethereum: what is under way; or something   *)
(* astray; or nothing in this token.                                        *)
LEMMA OrbsTransferInEffect ==
  ASSUME BridgeInv, NEW e \in EthEvents, OrbsTransferIn(e)
  PROVE  LET t == TransferOf("ethereum", e)
             n == (balances[e.to] + (e.value % UINT64)) % UINT64
         IN /\ e.to \in OrbsUsers /\ e.value \in Nat
            /\ \/ /\ balances' = [balances EXCEPT ![e.to] = n]
                  /\ totalSupply' = (totalSupply + (e.value % UINT64)) % UINT64
                  /\ \/ t \in Underway /\ Underway' = Underway \ {t} /\ (astray' <=> astray)
                     \/ Underway' = Underway /\ astray'
               \/ /\ balances' = balances /\ totalSupply' = totalSupply
                  /\ Underway' = Underway /\ (astray' <=> astray)
<1> DEFINE t == TransferOf("ethereum", e)
           n == (balances[e.to] + (e.value % UINT64)) % UINT64
<1>1. e.to \in OrbsUsers /\ e.value \in Nat
  BY BridgeTypes
<1>2. ethOut' = ethOut /\ orbsOut' = orbsOut
  BY DEF OrbsTransferIn, ethereumVars
<1>3. CASE tokenContract = "this token"
  <2>1. /\ balances' = [balances EXCEPT ![e.to] = (@ + (e.value % UINT64)) % UINT64]
        /\ totalSupply' = (totalSupply + (e.value % UINT64)) % UINT64
    BY <1>3 DEF OrbsTransferIn, AsbMint
  <2>2. balances' = [balances EXCEPT ![e.to] = n]
    BY <2>1, Zenon
  <2>3. \/ t \in Underway /\ arrived' = arrived \cup {t} /\ (astray' <=> astray)
        \/ arrived' = arrived /\ astray'
    BY <1>3, PaidToOrbs
  <2>4. \/ t \in Underway /\ Underway' = Underway \ {t} /\ (astray' <=> astray)
        \/ Underway' = Underway /\ astray'
    <3> HIDE DEF t
    <3> QED BY <1>2, <2>3, UnderwayLess, UnderwaySame
  <2> HIDE DEF t, n
  <2> QED BY <1>1, <2>1, <2>2, <2>4 DEF t, n
<1>4. CASE tokenContract # "this token"
  <2>1. balances' = balances /\ totalSupply' = totalSupply
    BY <1>4 DEF OrbsTransferIn, AsbMint
  <2>2. arrived' = arrived /\ (astray' <=> astray)
    BY <1>4, PaidToOrbs
  <2>3. Underway' = Underway
    BY <1>2, <2>2, UnderwaySame
  <2> QED BY <1>1, <2>1, <2>2, <2>3
<1> QED BY <1>3, <1>4

LEMMA EthTransferInEffect ==
  ASSUME BridgeInv, NEW r \in orbsOut \cup OtherReceipts, EthTransferIn(r)
  PROVE  LET t == TransferOf("orbs", r)
         IN /\ r.to \in Holders /\ r.value \in Nat
            /\ \/ /\ wallets' = [wallets EXCEPT ![r.to] = wallets[r.to] + r.value]
                  /\ r.value <= locked /\ locked' = locked - r.value
                  /\ \/ t \in Underway /\ Underway' = Underway \ {t} /\ (astray' <=> astray)
                     \/ Underway' = Underway /\ astray'
               \/ /\ wallets' = wallets /\ locked' = locked - 0
                  /\ Underway' = Underway /\ (astray' <=> astray)
<1> DEFINE t == TransferOf("orbs", r)
<1>1. r.to \in Holders /\ r.value \in Nat /\ wallets[r.to] \in Nat
  BY BridgeTypes DEF EthTransferIn
<1>2. ethOut' = ethOut /\ orbsOut' = orbsOut
  BY DEF EthTransferIn, orbsVars
<1>3. CASE token = "this token"
  <2>1. /\ r.value <= locked /\ locked' = locked - r.value
        /\ wallets' = [wallets EXCEPT ![r.to] = @ + r.value]
    BY <1>3 DEF EthTransferIn, InToken
  <2>2. wallets' = [wallets EXCEPT ![r.to] = wallets[r.to] + r.value]
    BY <2>1
  <2>3. \/ t \in Underway /\ arrived' = arrived \cup {t} /\ (astray' <=> astray)
        \/ arrived' = arrived /\ astray'
    BY <1>3, PaidToEthereum
  <2>4. \/ t \in Underway /\ Underway' = Underway \ {t} /\ (astray' <=> astray)
        \/ Underway' = Underway /\ astray'
    <3> HIDE DEF t
    <3> QED BY <1>2, <2>3, UnderwayLess, UnderwaySame
  <2> HIDE DEF t
  <2> QED BY <1>1, <2>1, <2>2, <2>4 DEF t
<1>4. CASE token # "this token"
  <2>1. locked' = locked - 0 /\ wallets' = [wallets EXCEPT ![r.to] = @ + 0]
    BY <1>4 DEF EthTransferIn, InToken
  <2>2. wallets' = wallets
    BY <1>1, <2>1 DEF BridgeInv, BridgeTypeOK
  <2>3. arrived' = arrived /\ (astray' <=> astray)
    BY <1>4, PaidToEthereum
  <2>4. Underway' = Underway
    BY <1>2, <2>3, UnderwaySame
  <2> QED BY <1>1, <2>1, <2>2, <2>3, <2>4
<1> QED BY <1>3, <1>4

(* Two balances change.                                                     *)
LEMMA ProxyTransferPasses ==
  ASSUME BridgeInv, NEW from \in OrbsUsers, NEW to \in OrbsUsers, NEW amount \in Values,
         ProxyTransfer(from, to, amount)
  PROVE  Transfers!Pass(from, to, amount)
<1> DEFINE less == balances[from] - amount
           n    == (balances[to] + amount) % UINT64
<1>1. /\ amount \in Nat /\ amount <= balances[from] /\ from # to
      /\ balances' = [balances EXCEPT ![from] = less, ![to] = n]
      /\ wallets' = wallets /\ ethOut' = ethOut /\ orbsOut' = orbsOut /\ arrived' = arrived
  BY BridgeAssumption DEF ProxyTransfer, BridgeInv, BridgeTypeOK, ethereumVars, historyVars
<1>2. /\ from \notin Holders /\ to \notin Holders
      /\ balances[to] \in Nat /\ AllWallets[from] = balances[from] /\ AllWallets[to] = balances[to]
  BY BridgeAssumption DEF BridgeInv, BridgeTypeOK, AllWallets
<1>3. AllWallets' = [AllWallets EXCEPT ![from] = less, ![to] = n]
  <2> HIDE DEF less, n
  <2> QED BY <1>1, <1>2 DEF AllWallets, BridgeInv, BridgeTypeOK
<1>4. n \in Transfers!Counted(to, balances[to] + amount)
  <2>1. /\ n \in 0..(balances[to] + amount)
        /\ balances[to] + amount < UINT64 => n = balances[to] + amount
    BY <1>1, <1>2, CountedInWord
  <2> HIDE DEF n
  <2> QED BY <1>2, <2>1 DEF Transfers!Counted
<1>5. Underway' = Underway
  BY <1>1, UnderwaySame
<1> HIDE DEF n
<1> QED BY <1>1, <1>2, <1>3, <1>4, <1>5 DEF Transfers!Pass

(* What a step does to the promise.                                         *)
LEMMA PromiseKept ==
  ASSUME resets' = resets, astray' <=> astray
  PROVE  Promise' = Promise
BY DEF Promise

LEMMA PromiseBreaks ==
  ASSUME BridgeInv, BridgeInv', resets' = resets, astray'
  PROVE  Transfers!Break
<1>1. resets # 0 /\ resets \in Nat
  BY BridgeTypes DEF BridgeInv, Untouched
<1>2. resets > 0
  BY ONLY <1>1
<1>3. Promise # "kept" /\ Promise' = "broken"
  BY <1>2 DEF Promise
<1> QED BY <1>3 DEF Transfers!Break

LEMMA PromiseEndangered ==
  ASSUME BridgeInv, AnyReset
  PROVE  \/ Transfers!Endanger
         \/ UNCHANGED Transfers!transferVars
<1>1. /\ resets' = resets + 1 /\ arrived' = arrived /\ (astray' <=> astray)
      /\ wallets' = wallets /\ balances' = balances /\ ethOut' = ethOut /\ orbsOut' = orbsOut
  BY ResetsMoveNothing
<1>2. AllWallets' = AllWallets /\ Underway' = Underway
  BY <1>1, UnderwaySame DEF AllWallets
<1>3. resets \in Nat
  BY BridgeTypes
<1>4. resets' > 0 /\ (resets > 0 <=> resets # 0)
  BY ONLY <1>1, <1>3
<1>5. CASE astray \/ resets # 0
  BY <1>1, <1>2, <1>4, <1>5 DEF Promise, Transfers!transferVars
<1>6. CASE ~astray /\ resets = 0
  BY <1>1, <1>2, <1>4, <1>6 DEF Promise, Transfers!Endanger
<1> QED BY <1>5, <1>6

LEMMA EthTransferOutSends ==
  ASSUME BridgeInv, NEW from \in Holders, NEW to \in OrbsUsers, NEW value \in Values,
         EthTransferOut(from, to, value)
  PROVE  \/ Transfers!Transfer /\ UNCHANGED Promise
         \/ UNCHANGED Transfers!transferVars
<1> DEFINE t == [chain |-> "ethereum", id |-> <<resets, tuidCounter + 1>>, to |-> to, value |-> value]
<1>1. Promise' = Promise /\ balances' = balances
  BY PromiseKept DEF EthTransferOut, historyVars, orbsVars
<1>2. CASE wallets' = wallets /\ Underway' = Underway
  BY <1>1, <1>2 DEF Transfers!transferVars, AllWallets
<1>3. CASE /\ value <= wallets[from]
           /\ wallets' = [wallets EXCEPT ![from] = wallets[from] - value]
           /\ Underway' = Underway \cup {t}
  <2>1. AllWallets' = [AllWallets EXCEPT ![from] = wallets[from] - value]
        /\ AllWallets[from] = wallets[from]
    BY <1>1, <1>3, WalletOnEthereum
  <2>2. /\ t \notin Underway /\ t.value = value
        /\ \A u \in Underway : u.chain # t.chain \/ u.id # t.id
    BY NewTransfer DEF Underway
  <2>3. t \in Transfers!Sent("ethereum", OrbsUsers)
    <3>1. tuidCounter < MaxTransfers
      BY DEF EthTransferOut
    <3>2. resets \in 0..MaxResets /\ tuidCounter + 1 \in 1..MaxTransfers
      <4>1. /\ resets \in Nat /\ MaxResets \in Nat /\ resets <= MaxResets
            /\ tuidCounter \in Nat /\ MaxTransfers \in Nat
        BY BridgeAssumption DEF BridgeInv, BridgeTypeOK
      <4> QED BY ONLY <3>1, <4>1
    <3> QED BY <3>2 DEF Transfers!Sent
  <2> HIDE DEF t
  <2>4. Transfers!Send(from, t)
    BY <1>3, <2>1, <2>2 DEF Transfers!Send
  <2> QED BY <1>1, <1>3, <2>2, <2>3, <2>4 DEF Transfers!Transfer
<1> QED BY <1>2, <1>3, EthTransferOutEffect

LEMMA OrbsTransferOutSends ==
  ASSUME BridgeInv, NEW from \in OrbsUsers, NEW to \in Holders \cup {NoAddress},
         NEW amount \in Values, NEW signatures \in BlockProofs,
         OrbsTransferOut(from, to, amount, signatures)
  PROVE  \/ Transfers!Transfer /\ UNCHANGED Promise
         \/ UNCHANGED Transfers!transferVars
<1> DEFINE t == [chain |-> "orbs", id |-> <<resets, outTuid + 1>>, to |-> to, value |-> amount]
<1>1. Promise' = Promise /\ wallets' = wallets
  BY PromiseKept DEF OrbsTransferOut, historyVars, ethereumVars
<1>2. CASE balances' = balances /\ Underway' = Underway
  BY <1>1, <1>2 DEF Transfers!transferVars, AllWallets
<1>3. CASE /\ amount <= balances[from]
           /\ balances' = [balances EXCEPT ![from] = balances[from] - amount]
           /\ Underway' = Underway \cup {t}
  <2>1. AllWallets' = [AllWallets EXCEPT ![from] = balances[from] - amount]
        /\ AllWallets[from] = balances[from]
    BY <1>1, <1>3, WalletOnOrbs
  <2>2. /\ t \notin Underway /\ t.value = amount
        /\ \A u \in Underway : u.chain # t.chain \/ u.id # t.id
    BY NewTransfer DEF Underway
  <2>3. t \in Transfers!Sent("orbs", Holders \cup {NoAddress})
    <3>1. outTuid < MaxTransfers
      BY DEF OrbsTransferOut
    <3>2. resets \in 0..MaxResets /\ outTuid + 1 \in 1..MaxTransfers
      <4>1. /\ resets \in Nat /\ MaxResets \in Nat /\ resets <= MaxResets
            /\ outTuid \in Nat /\ MaxTransfers \in Nat
        BY BridgeAssumption DEF BridgeInv, BridgeTypeOK
      <4> QED BY ONLY <3>1, <4>1
    <3> QED BY <3>2 DEF Transfers!Sent
  <2> HIDE DEF t
  <2>4. Transfers!Send(from, t)
    BY <1>3, <2>1, <2>2 DEF Transfers!Send
  <2> QED BY <1>1, <1>3, <2>2, <2>3, <2>4 DEF Transfers!Transfer
<1> QED BY <1>2, <1>3, OrbsTransferOutEffect

LEMMA OrbsTransferInReceives ==
  ASSUME BridgeInv, BridgeInv', NEW e \in EthEvents, OrbsTransferIn(e)
  PROVE  \/ Transfers!Transfer /\ UNCHANGED Promise
         \/ Transfers!Break
         \/ UNCHANGED Transfers!transferVars
<1> DEFINE t == TransferOf("ethereum", e)
           n == (balances[e.to] + (e.value % UINT64)) % UINT64
<1>1. e.to \in OrbsUsers /\ e.to \notin Holders /\ e.value \in Nat /\ balances[e.to] \in Nat
  BY BridgeAssumption, BridgeTypes
<1>2. wallets' = wallets /\ resets' = resets
  BY PaidToOrbs DEF OrbsTransferIn, ethereumVars
<1>3. CASE balances' = balances /\ Underway' = Underway /\ (astray' <=> astray)
  BY <1>2, <1>3, PromiseKept DEF Transfers!transferVars, AllWallets
<1>4. CASE astray'
  BY <1>2, <1>4, PromiseBreaks
<1>5. CASE /\ balances' = [balances EXCEPT ![e.to] = n]
           /\ t \in Underway /\ Underway' = Underway \ {t} /\ (astray' <=> astray)
  <2>1. AllWallets' = [AllWallets EXCEPT ![e.to] = n] /\ AllWallets[e.to] = balances[e.to]
    <3> HIDE DEF n
    <3> QED BY <1>1, <1>2, <1>5, WalletOnOrbs
  <2>2. n \in Transfers!Counted(e.to, balances[e.to] + e.value)
    <3>1. /\ n \in 0..(balances[e.to] + e.value)
          /\ balances[e.to] + e.value < UINT64 => n = balances[e.to] + e.value
      BY <1>1, CountedInWord
    <3> HIDE DEF n
    <3> QED BY <1>1, <3>1 DEF Transfers!Counted
  <2>3. t.to = e.to /\ t.value = e.value
    BY TransferFields
  <2>4. Transfers!Receive(t)
    <3> HIDE DEF t, n
    <3> QED BY <1>1, <1>5, <2>1, <2>2, <2>3 DEF Transfers!Receive
  <2> QED BY <1>2, <1>5, <2>4, PromiseKept DEF Transfers!Transfer
<1> HIDE DEF t, n
<1> QED BY <1>3, <1>4, <1>5, OrbsTransferInEffect DEF t, n

LEMMA EthTransferInReceives ==
  ASSUME BridgeInv, BridgeInv', NEW r \in orbsOut \cup OtherReceipts, EthTransferIn(r)
  PROVE  \/ Transfers!Transfer /\ UNCHANGED Promise
         \/ Transfers!Break
         \/ UNCHANGED Transfers!transferVars
<1> DEFINE t == TransferOf("orbs", r)
           n == wallets[r.to] + r.value
<1>1. r.to \in Holders /\ r.value \in Nat /\ wallets[r.to] \in Nat
  BY EthTransferInEffect, BridgeTypes
<1>2. balances' = balances /\ resets' = resets
  BY PaidToEthereum DEF EthTransferIn, orbsVars
<1>3. CASE wallets' = wallets /\ Underway' = Underway /\ (astray' <=> astray)
  BY <1>2, <1>3, PromiseKept DEF Transfers!transferVars, AllWallets
<1>4. CASE astray'
  BY <1>2, <1>4, PromiseBreaks
<1>5. CASE /\ wallets' = [wallets EXCEPT ![r.to] = n]
           /\ t \in Underway /\ Underway' = Underway \ {t} /\ (astray' <=> astray)
  <2>1. AllWallets' = [AllWallets EXCEPT ![r.to] = n] /\ AllWallets[r.to] = wallets[r.to]
    <3> HIDE DEF n
    <3> QED BY <1>1, <1>2, <1>5, WalletOnEthereum
  <2>2. n \in Transfers!Counted(r.to, wallets[r.to] + r.value)
    BY <1>1 DEF Transfers!Counted
  <2>3. t.to = r.to /\ t.value = r.value
    BY TransferFields
  <2>4. Transfers!Receive(t)
    <3> HIDE DEF t, n
    <3> QED BY <1>1, <1>5, <2>1, <2>2, <2>3 DEF Transfers!Receive
  <2> QED BY <1>2, <1>5, <2>4, PromiseKept DEF Transfers!Transfer
<1> HIDE DEF t
<1> QED BY <1>3, <1>4, <1>5, EthTransferInEffect DEF t

(* AutonomousSwapBridge.sol and _OrbsASB with its token are wallets on two  *)
(* chains and transfers between them: every transfer takes its value from   *)
(* one wallet and arrives at most once, at the wallet it names, for as long *)
(* as nobody resets or changes an end, and after that until something is    *)
(* paid that was not owed.                                                  *)
THEOREM BridgeImplementsTransfers == BridgeSpec => Transfers!Spec
<1>1. BridgeInit => Transfers!Init
  <2> SUFFICES ASSUME BridgeInit PROVE Transfers!Init
    OBVIOUS
  <2>1. wallets \in FirstWallets /\ AllWallets = [a \in Holders \cup OrbsUsers |->
                                                    IF a \in Holders THEN wallets[a] ELSE 0]
    BY DEF BridgeInit, AllWallets
  <2>2. Underway = {}
    BY DEF BridgeInit, Underway, BackedTransfers
  <2>3. Promise = "kept"
    <3>1. ~astray /\ resets = 0
      BY DEF BridgeInit
    <3>2. ~(resets > 0)
      BY ONLY <3>1
    <3> QED BY <3>1, <3>2 DEF Promise
  <2> QED BY <2>1, <2>2, <2>3 DEF Transfers!Init
<1>2. BridgeInv /\ BridgeInv' /\ [BridgeNext]_bridgeVars
        => [Transfers!Next]_(Transfers!transferVars)
  <2> SUFFICES ASSUME BridgeInv, BridgeInv', [BridgeNext]_bridgeVars
               PROVE  [Transfers!Next]_(Transfers!transferVars)
    OBVIOUS
  <2>1. CASE UNCHANGED <<ethereumVars, orbsVars, historyVars>>
    BY <2>1, BridgeUnchanged DEF Transfers!transferVars
  <2>2. ASSUME NEW from \in Holders, NEW to \in OrbsUsers, NEW value \in Values,
               EthTransferOut(from, to, value)
        PROVE  [Transfers!Next]_(Transfers!transferVars)
    BY <2>2, EthTransferOutSends DEF Transfers!Next
  <2>3. ASSUME NEW from \in OrbsUsers, NEW to \in Holders \cup {NoAddress},
               NEW amount \in Values, NEW signatures \in BlockProofs,
               OrbsTransferOut(from, to, amount, signatures)
        PROVE  [Transfers!Next]_(Transfers!transferVars)
    BY <2>3, OrbsTransferOutSends DEF Transfers!Next
  <2>4. ASSUME NEW e \in EthEvents, OrbsTransferIn(e)
        PROVE  [Transfers!Next]_(Transfers!transferVars)
    BY <2>4, OrbsTransferInReceives DEF Transfers!Next
  <2>5. ASSUME NEW r \in orbsOut \cup OtherReceipts, EthTransferIn(r)
        PROVE  [Transfers!Next]_(Transfers!transferVars)
    BY <2>5, EthTransferInReceives DEF Transfers!Next
  <2>6. ASSUME NEW from \in OrbsUsers, NEW to \in OrbsUsers, NEW amount \in Values,
               ProxyTransfer(from, to, amount)
        PROVE  [Transfers!Next]_(Transfers!transferVars)
    <3>1. Transfers!Pass(from, to, amount)
      BY <2>6, ProxyTransferPasses
    <3>2. Promise' = Promise
      BY <2>6, PromiseKept DEF ProxyTransfer, historyVars
    <3> QED BY <3>1, <3>2 DEF Transfers!Next, Transfers!Transfer
  <2>7. CASE AnyReset
    BY <2>7, PromiseEndangered DEF Transfers!Next
  <2>8. CASE UNCHANGED bridgeVars
    BY <2>1, <2>8 DEF bridgeVars
  <2>9. CASE BridgeNext
    BY <2>1, <2>2, <2>3, <2>4, <2>5, <2>6, <2>7, <2>9 DEF BridgeNext, AnyReset
  <2> QED BY <2>8, <2>9
<1> QED BY <1>1, <1>2, BridgeInvariant, PTL DEF BridgeSpec, Transfers!Spec

(* The bridge keeps both promises, whoever is in the federation.            *)
THEOREM BridgeAlwaysFaithful == BridgeSpec => BridgeIsFaithful
BY BridgeImplementsTransfers, RevisionsAlwaysKept DEF BridgeIsFaithful

-----------------------------------------------------------------------------
(* The quorum                                                               *)

SignersOf(signatures) ==
  {signatures[i].signer : i \in {j \in DOMAIN signatures : signatures[j].valid}}

LEMMA FederationOfRevision ==
  ASSUME FederationInv, NEW r \in 0..federationRevision
  PROVE  LET list == GetMembersByRevision(r)
         IN  /\ Len(list) \in Nat
             /\ \A node : IsMemberByRevision(r, node) <=> node \in ToSet(list)
             /\ IsFiniteSet(ToSet(list)) /\ Cardinality(ToSet(list)) = Len(list)
<1> DEFINE list == GetMembersByRevision(r)
<1>1. list \in Seq(Nodes) /\ HasEachOnce(list)
  <2>1. CASE r = federationRevision
    BY <2>1 DEF FederationInv, GetMembersByRevision
  <2>2. CASE r # federationRevision
    <3>1. r + 1 \in 1..federationRevision /\ r + 1 \in DOMAIN membersByRevision
      BY <2>2, LenProperties DEF FederationInv
    <3> QED BY <2>2, <3>1, ElementOfSeq DEF FederationInv, GetMembersByRevision
  <2> QED BY <2>1, <2>2
<1> HIDE DEF list
<1>2. Len(list) \in Nat /\ DOMAIN list = 1..Len(list)
  BY <1>1, LenProperties
<1>3. \A node : Contains(list, node) <=> node \in ToSet(list)
  BY <1>2 DEF Contains, ToSet
<1>4. list \in Bijection(1..Len(list), ToSet(list))
  <2>1. list \in [1..Len(list) -> ToSet(list)]
    BY <1>1, <1>2 DEF ToSet
  <2>2. IsInjective(list)
    BY <1>1 DEF HasEachOnce
  <2>3. \A x \in ToSet(list) : \E i \in 1..Len(list) : list[i] = x
    BY <1>2 DEF ToSet
  <2> QED BY <2>1, <2>2, <2>3 DEF Bijection, Injection, Surjection
<1>5. IsFiniteSet(1..Len(list)) /\ Cardinality(1..Len(list)) = Len(list)
  <2>1. PICK n \in Nat : n = Len(list)
    BY <1>2
  <2>2. IsFiniteSet(1..n) /\ Cardinality(1..n) = n
    <3>1. 1 \in Int /\ n \in Int
      OBVIOUS
    <3>2. IsFiniteSet(1..n) /\ Cardinality(1..n) = IF 1 > n THEN 0 ELSE n - 1 + 1
      BY ONLY <3>1, FS_Interval
    <3> QED BY ONLY <3>2, n \in Nat
  <2> QED BY <2>1, <2>2
<1>6. IsFiniteSet(ToSet(list)) /\ Cardinality(ToSet(list)) = Len(list)
  BY <1>4, <1>5, FS_Bijection DEF ExistsBijection
<1> QED BY <1>2, <1>3, <1>6 DEF IsMemberByRevision, list

(* The loop over the signatures ends at the first that completes two thirds;*)
(* without members it never ends so.                                        *)
LEMMA QuorumAlwaysTwoThirds == FederationInv => QuorumIsTwoThirds
<1> SUFFICES ASSUME FederationInv, NEW r \in 0..federationRevision, NEW signatures \in BlockProofs
             PROVE  IsSignatureValid(signatures, r) <=>
                      /\ SignersOf(signatures) \cap ToSet(GetMembersByRevision(r)) # {}
                      /\ 3 * Cardinality(SignersOf(signatures) \cap ToSet(GetMembersByRevision(r)))
                           >= 2 * Cardinality(ToSet(GetMembersByRevision(r)))
  BY DEF QuorumIsTwoThirds, SignersOf
<1> DEFINE N == Len(GetMembersByRevision(r))
           F == ToSet(GetMembersByRevision(r))
           T == GetConsensusThresholdByRevision(r)
           up[i \in Nat] == SignersUpTo(signatures, i, r)
           all == SignersOf(signatures) \cap F
<1>1. /\ N \in Nat /\ IsFiniteSet(F) /\ Cardinality(F) = N
      /\ \A node : IsMemberByRevision(r, node) <=> node \in F
  BY FederationOfRevision
<1>2. T = (2 * N + 2) \div 3
  BY DEF GetConsensusThresholdByRevision
<1>3. PICK n \in Nat : DOMAIN signatures = 1..n
  <2>1. signatures \in Seq([signer : Nodes, valid : BOOLEAN])
    BY BridgeAssumption
  <2> QED BY <2>1, LenProperties
<1>4. \A i \in Nat : up[i] = {signatures[k].signer : k \in {j \in 1..i : signatures[j].valid
                                                  /\ IsMemberByRevision(r, signatures[j].signer)}}
  BY DEF SignersUpTo
<1>5. up[0] = {} /\ up[n] = all
  <2>1. up[0] = {}
    BY <1>4
  <2>2. up[n] = all
    <3> HIDE DEF N, F, T, up
    <3> QED BY <1>1, <1>3, <1>4 DEF SignersOf
  <2> QED BY <2>1, <2>2
<1>6. \A i \in 0..n : up[i] \subseteq all
  <2> HIDE DEF N, F, T, up
  <2> QED BY <1>1, <1>3, <1>4 DEF SignersOf
<1>7. IsSignatureValid(signatures, r) <=>
        \E i \in 1..n : up[i] # up[i - 1] /\ Cardinality(up[i]) >= T
  <2>1. \A i \in 1..n : i \in Nat /\ i - 1 \in Nat
    BY <1>3
  <2>2. \A i \in 1..n : /\ up[i] = SignersUpTo(signatures, i, r)
                        /\ up[i - 1] = SignersUpTo(signatures, i - 1, r)
    BY <2>1
  <2> HIDE DEF up, T
  <2> QED BY <1>3, <2>2 DEF IsSignatureValid, T
<1> HIDE DEF N, F, T, up
<1>8. /\ IsFiniteSet(all) /\ Cardinality(all) \in Nat
      /\ \A i \in 0..n : /\ Cardinality(up[i]) \in Nat
                         /\ Cardinality(up[i]) <= Cardinality(all)
  <2>1. IsFiniteSet(all)
    BY <1>1, FS_Subset
  <2> HIDE DEF all
  <2> QED BY <1>6, <2>1, FS_Subset, FS_CardinalityType
<1> HIDE DEF all
<1>9. ASSUME all = {}
      PROVE  ~\E i \in 1..n : up[i] # up[i - 1] /\ Cardinality(up[i]) >= T
  <2>1. \A i \in 1..n : i \in 0..n /\ i - 1 \in 0..n
    BY <1>3
  <2> QED BY <1>6, <1>9, <2>1
<1>10. ASSUME all # {}
       PROVE  (\E i \in 1..n : up[i] # up[i - 1] /\ Cardinality(up[i]) >= T)
                <=> 3 * Cardinality(all) >= 2 * N
  <2>1. F # {}
    BY <1>10 DEF all
  <2>2. N \in Nat \ {0}
    BY <1>1, <2>1, FS_EmptySet
  <2>3. T \in Nat \ {0} /\ \A c \in Nat : c >= T <=> 3 * c >= 2 * N
    BY <1>2, <2>2
  <2>4. (\E i \in 1..n : up[i] # up[i - 1] /\ Cardinality(up[i]) >= T) <=> Cardinality(all) >= T
    <3>1. ASSUME NEW i \in 1..n, Cardinality(up[i]) >= T
          PROVE  Cardinality(all) >= T
      <4>1. /\ Cardinality(up[i]) \in Nat /\ Cardinality(up[i]) <= Cardinality(all)
            /\ Cardinality(all) \in Nat
        BY <1>8
      <4> QED BY ONLY <2>3, <3>1, <4>1
    <3>2. ASSUME Cardinality(all) >= T
          PROVE  \E i \in 1..n : up[i] # up[i - 1] /\ Cardinality(up[i]) >= T
      <4> DEFINE Good == {i \in 0..n : Cardinality(up[i]) >= T}
      <4>1. n \in Good /\ Good \in SUBSET Nat
        BY <1>5, <3>2
      <4> HIDE DEF Good
      <4>2. PICK m \in Good : \A k \in Good : m <= k
        BY <4>1, LeastNumber
      <4>3. m \in 0..n /\ Cardinality(up[m]) >= T /\ m - 1 \notin Good
        BY <4>1, <4>2 DEF Good
      <4>4. m # 0
        <5>1. Cardinality(up[0]) = 0
          BY <1>5, FS_EmptySet
        <5> QED BY <2>3, <4>3, <5>1
      <4>5. m \in 1..n /\ m - 1 \in 0..n
        BY <4>3, <4>4
      <4>6. ~(Cardinality(up[m - 1]) >= T)
        BY <4>3, <4>5 DEF Good
      <4> QED BY <4>3, <4>5, <4>6
    <3> QED BY <3>1, <3>2
  <2> QED BY <1>8, <2>3, <2>4
<1> QED BY <1>1, <1>7, <1>9, <1>10 DEF N, F, all

-----------------------------------------------------------------------------
(* The money                                                                *)

ValueOf(S) == SumFunction([t \in S |-> t.value])

OnEthereum == SumFunction(wallets)

OnOrbs == SumFunction(balances)

MoneyInv ==
  /\ IsFiniteSet(Underway) /\ locked \in Nat
  /\ BridgeIsSolvent /\ SupplyIsTheBalances

LEMMA ValueOfSome ==
  ASSUME NEW S, IsFiniteSet(S), \A x \in S : x.value \in Nat
  PROVE  /\ ValueOf(S) \in Nat
         /\ \A T \in SUBSET S : \A f : (\A x \in T : f[x] = x.value)
                                     => ValueOf(T) = SumFunctionOnSet(f, T)
<1>1. ASSUME NEW T \in SUBSET S, NEW f, \A x \in T : f[x] = x.value
      PROVE  ValueOf(T) = SumFunctionOnSet(f, T)
  <2> DEFINE g == [t \in T |-> t.value]
  <2>1. IsFiniteSet(T) /\ DOMAIN g = T /\ \A x \in T : g[x] = f[x]
    BY <1>1, FS_Subset
  <2>2. ValueOf(T) = SumFunction(g)
    BY DEF ValueOf
  <2> HIDE DEF g
  <2>3. SumFunctionOnSet(g, T) = SumFunctionOnSet(f, T)
    BY <2>1, SumSame
  <2> QED BY <2>1, <2>2, <2>3, SumOfFunction
<1>2. PICK f : f = [t \in S |-> t.value]
  OBVIOUS
<1>3. \A x \in S : f[x] = x.value /\ f[x] \in Nat
  BY <1>2
<1>4. ValueOf(S) = SumFunctionOnSet(f, S)
  BY <1>1, <1>3
<1>5. SumFunctionOnSet(f, S) \in Nat
  BY <1>3, SumType
<1> QED BY <1>1, <1>4, <1>5

LEMMA ValueOfMore ==
  ASSUME NEW S, IsFiniteSet(S), \A x \in S : x.value \in Nat, NEW t \in S
  PROVE  /\ ValueOf(S) = ValueOf(S \ {t}) + t.value
         /\ ValueOf(S) \in Nat /\ ValueOf(S \ {t}) \in Nat
<1>1. PICK f : f = [x \in S |-> x.value]
  OBVIOUS
<1>2. \A x \in S : f[x] = x.value /\ f[x] \in Int
  BY <1>1
<1>3. IsFiniteSet(S \ {t}) /\ S \ {t} \in SUBSET S
  BY FS_Subset
<1>4. ValueOf(S) = SumFunctionOnSet(f, S) /\ ValueOf(S \ {t}) = SumFunctionOnSet(f, S \ {t})
  BY <1>2, <1>3, ValueOfSome
<1>5. SumFunctionOnSet(f, S) = f[t] + SumFunctionOnSet(f, S \ {t})
  BY <1>2, SumRemove
<1>6. ValueOf(S) \in Nat /\ ValueOf(S \ {t}) \in Nat
  BY <1>3, ValueOfSome
<1> QED BY <1>2, <1>4, <1>5, <1>6

LEMMA MoneyTypes ==
  ASSUME BridgeInv
  PROVE  /\ \A t \in Underway : t.value \in Nat
         /\ OnEthereum = SumFunctionOnSet(wallets, Holders) /\ OnEthereum \in Nat
         /\ OnOrbs = SumFunctionOnSet(balances, OrbsUsers) /\ OnOrbs \in Nat
         /\ UINT64 \in Nat \ {0}
<1>1. \A t \in Underway : t.value \in Nat
  <2> SUFFICES ASSUME NEW t \in Underway PROVE t.value \in Nat
    OBVIOUS
  <2>1. /\ \A e \in ethOut : e.value \in Nat
        /\ \A r \in orbsOut : r.value \in Nat
    BY DEF BridgeInv, BridgeTypeOK, OutEvents, OutReceipts
  <2> QED BY <2>1, UnderwayWasSent, TransferFields
<1>2. DOMAIN wallets = Holders /\ DOMAIN balances = OrbsUsers
  BY DEF BridgeInv, BridgeTypeOK
<1>3. IsFiniteSet(Holders) /\ IsFiniteSet(OrbsUsers) /\ UINT64 \in Nat \ {0}
  BY BridgeAssumption
<1>4. OnEthereum = SumFunctionOnSet(wallets, Holders) /\ OnOrbs = SumFunctionOnSet(balances, OrbsUsers)
  BY <1>2, SumOfFunction DEF OnEthereum, OnOrbs
<1>5. SumFunctionOnSet(wallets, Holders) \in Nat /\ SumFunctionOnSet(balances, OrbsUsers) \in Nat
  BY <1>3, BridgeTypes, SumType
<1> QED BY <1>1, <1>3, <1>4, <1>5

(* Unless something was paid astray, what is locked covers what is owed.    *)
Covered ==
  /\ locked >= OnOrbs + ValueUnderway
  /\ OnEthereum + locked < UINT64 => locked = OnOrbs + ValueUnderway

(* What the wallets and the lock have together does not change, so what     *)
(* they had at first is still what they have.                               *)
LEMMA StillSolvent ==
  ASSUME BridgeInv', MoneyInv, OnEthereum' + locked' = OnEthereum + locked,
         astray' \/ Covered'
  PROVE  BridgeIsSolvent'
<1>1. astray' => resets' > 0
  <2>1. astray' => resets' # 0
    BY DEF BridgeInv, Untouched
  <2>2. resets' \in Nat
    BY DEF BridgeInv, BridgeTypeOK
  <2>3. resets' # 0 => resets' > 0
    BY ONLY <2>2
  <2> QED BY <2>1, <2>3
<1> QED BY <1>1 DEF MoneyInv, BridgeIsSolvent, OnEthereum, OnOrbs, Covered

LEMMA WasCovered ==
  ASSUME MoneyInv, ~astray
  PROVE  Covered
BY DEF MoneyInv, BridgeIsSolvent, OnEthereum, OnOrbs, Covered

(* One wallet changes.                                                      *)
LEMMA WalletChanges ==
  ASSUME BridgeInv, BridgeInv', NEW h \in Holders, NEW n, wallets' = [wallets EXCEPT ![h] = n]
  PROVE  OnEthereum' = OnEthereum + (n - wallets[h])
<1>1. PICK f, g : f = wallets /\ g = wallets'
  OBVIOUS
<1>2. \A x \in Holders : f[x] \in Int /\ g[x] \in Int
  BY <1>1 DEF BridgeInv, BridgeTypeOK
<1>3. (\A x \in Holders \ {h} : g[x] = f[x]) /\ g[h] = n
  BY <1>1 DEF BridgeInv, BridgeTypeOK
<1>4. SumFunctionOnSet(g, Holders) = SumFunctionOnSet(f, Holders) + (g[h] - f[h])
  <2>1. IsFiniteSet(Holders)
    BY BridgeAssumption
  <2>2. \A x \in Holders \ {h} : g[x] = f[x]
    BY <1>3
  <2> QED BY ONLY <1>2, <2>1, <2>2, SumChange, h \in Holders
<1>5. DOMAIN f = Holders /\ DOMAIN g = Holders
  BY <1>1 DEF BridgeInv, BridgeTypeOK
<1>6. OnEthereum = SumFunctionOnSet(f, Holders) /\ OnEthereum' = SumFunctionOnSet(g, Holders)
  BY <1>1, <1>5, SumOfFunction DEF OnEthereum
<1> QED BY <1>1, <1>3, <1>4, <1>6

LEMMA BalanceChanges ==
  ASSUME BridgeInv, BridgeInv', NEW u \in OrbsUsers, NEW n,
         balances' = [balances EXCEPT ![u] = n]
  PROVE  OnOrbs' = OnOrbs + (n - balances[u])
<1>1. PICK f, g : f = balances /\ g = balances'
  OBVIOUS
<1>2. \A x \in OrbsUsers : f[x] \in Int /\ g[x] \in Int
  BY <1>1 DEF BridgeInv, BridgeTypeOK
<1>3. (\A x \in OrbsUsers \ {u} : g[x] = f[x]) /\ g[u] = n
  BY <1>1 DEF BridgeInv, BridgeTypeOK
<1>4. SumFunctionOnSet(g, OrbsUsers) = SumFunctionOnSet(f, OrbsUsers) + (g[u] - f[u])
  <2>1. IsFiniteSet(OrbsUsers)
    BY BridgeAssumption
  <2>2. \A x \in OrbsUsers \ {u} : g[x] = f[x]
    BY <1>3
  <2> QED BY ONLY <1>2, <2>1, <2>2, SumChange, u \in OrbsUsers
<1>5. DOMAIN f = OrbsUsers /\ DOMAIN g = OrbsUsers
  BY <1>1 DEF BridgeInv, BridgeTypeOK
<1>6. OnOrbs = SumFunctionOnSet(f, OrbsUsers) /\ OnOrbs' = SumFunctionOnSet(g, OrbsUsers)
  BY <1>1, <1>5, SumOfFunction DEF OnOrbs
<1> QED BY <1>1, <1>3, <1>4, <1>6

LEMMA MoreUnderway ==
  ASSUME BridgeInv, MoneyInv, NEW t, t \notin Underway, t.value \in Nat,
         Underway' = Underway \cup {t}
  PROVE  /\ IsFiniteSet(Underway') /\ ValueUnderway' = ValueUnderway + t.value
         /\ ValueUnderway \in Nat
<1>1. PICK S : S = Underway \cup {t}
  OBVIOUS
<1>2. IsFiniteSet(S) /\ S \ {t} = Underway /\ t \in S
  BY <1>1, FS_AddElement DEF MoneyInv
<1>3. \A x \in S : x.value \in Nat
  BY <1>1, MoneyTypes
<1>4. ValueOf(S) = ValueOf(S \ {t}) + t.value /\ ValueOf(S \ {t}) \in Nat
  BY <1>2, <1>3, ValueOfMore
<1> QED BY <1>1, <1>2, <1>4 DEF ValueUnderway, ValueOf

LEMMA LessUnderway ==
  ASSUME BridgeInv, MoneyInv, NEW t \in Underway, Underway' = Underway \ {t}
  PROVE  /\ IsFiniteSet(Underway') /\ ValueUnderway = ValueUnderway' + t.value
         /\ ValueUnderway \in Nat /\ ValueUnderway' \in Nat /\ t.value \in Nat
<1>1. IsFiniteSet(Underway) /\ IsFiniteSet(Underway \ {t})
  BY FS_Subset DEF MoneyInv
<1>2. \A x \in Underway : x.value \in Nat
  BY MoneyTypes
<1>3. /\ ValueOf(Underway) = ValueOf(Underway \ {t}) + t.value
      /\ ValueOf(Underway) \in Nat /\ ValueOf(Underway \ {t}) \in Nat
  BY <1>1, <1>2, ValueOfMore
<1>4. ValueUnderway = ValueOf(Underway) /\ ValueUnderway' = ValueOf(Underway \ {t})
  BY DEF ValueUnderway, ValueOf
<1> QED BY <1>1, <1>2, <1>3, <1>4

LEMMA SameUnderway ==
  ASSUME BridgeInv, MoneyInv, Underway' = Underway
  PROVE  IsFiniteSet(Underway') /\ ValueUnderway' = ValueUnderway /\ ValueUnderway \in Nat
<1>1. ValueUnderway = ValueOf(Underway) /\ ValueOf(Underway) \in Nat
  BY MoneyTypes, ValueOfSome DEF ValueUnderway, ValueOf, MoneyInv
<1> QED BY <1>1 DEF ValueUnderway, MoneyInv

LEMMA MoneyUnchanged ==
  ASSUME BridgeInv', MoneyInv, astray => astray',
         UNCHANGED <<wallets, locked, balances, totalSupply, Underway>>
  PROVE  MoneyInv'
<1>1. OnEthereum' = OnEthereum /\ OnOrbs' = OnOrbs /\ ValueUnderway' = ValueUnderway
  BY DEF OnEthereum, OnOrbs, ValueUnderway
<1>2. Covered => Covered'
  BY <1>1 DEF Covered
<1>3. astray' \/ Covered'
  BY <1>2, WasCovered
<1>4. BridgeIsSolvent'
  BY <1>1, <1>3, StillSolvent
<1> QED BY <1>1, <1>4 DEF MoneyInv, SupplyIsTheBalances, OnOrbs

LEMMA EthTransferOutMoney ==
  ASSUME BridgeInv, BridgeInv', MoneyInv,
         NEW from \in Holders, NEW to \in OrbsUsers, NEW value \in Values,
         EthTransferOut(from, to, value)
  PROVE  MoneyInv'
<1> DEFINE t == [chain |-> "ethereum", id |-> <<resets, tuidCounter + 1>>,
                 to |-> to, value |-> value]
<1>1. value \in Nat /\ wallets[from] \in Nat /\ locked \in Nat
  BY BridgeAssumption, BridgeTypes DEF MoneyInv
<1>2. balances' = balances /\ totalSupply' = totalSupply /\ (astray' <=> astray)
  BY DEF EthTransferOut, orbsVars, historyVars
<1>3. CASE wallets' = wallets /\ locked' = locked + 0 /\ Underway' = Underway
  <2>1. locked' = locked
    BY <1>1, <1>3
  <2> QED BY <1>2, <1>3, <2>1, MoneyUnchanged
<1>4. CASE /\ wallets' = [wallets EXCEPT ![from] = wallets[from] - value]
           /\ locked' = locked + value
           /\ Underway' = Underway \cup {t}
  <2>1. t \notin Underway /\ t.value = value
    BY NewTransfer DEF Underway
  <2> HIDE DEF t
  <2>2. OnEthereum' = OnEthereum + ((wallets[from] - value) - wallets[from])
    BY <1>4, WalletChanges
  <2>3. IsFiniteSet(Underway') /\ ValueUnderway' = ValueUnderway + value /\ ValueUnderway \in Nat
    BY <1>1, <1>4, <2>1, MoreUnderway
  <2>4. OnOrbs' = OnOrbs /\ OnOrbs \in Nat /\ OnEthereum \in Nat
    BY <1>2, MoneyTypes DEF OnOrbs
  <2>5. OnEthereum' + locked' = OnEthereum + locked
    BY <1>1, <1>4, <2>2, <2>4
  <2>6. Covered => Covered'
    <3> SUFFICES ASSUME Covered PROVE Covered'
      OBVIOUS
    <3>1. /\ locked >= OnOrbs + ValueUnderway
          /\ OnEthereum + locked < UINT64 => locked = OnOrbs + ValueUnderway
      BY DEF Covered
    <3>2. /\ locked' >= OnOrbs' + ValueUnderway'
          /\ OnEthereum' + locked' < UINT64 => locked' = OnOrbs' + ValueUnderway'
      BY <1>1, <1>4, <2>3, <2>4, <2>5, <3>1
    <3> QED BY <3>2 DEF Covered
  <2>7. BridgeIsSolvent'
    BY <1>2, <2>5, <2>6, WasCovered, StillSolvent
  <2> QED BY <1>1, <1>2, <1>4, <2>3, <2>7 DEF MoneyInv, SupplyIsTheBalances
<1> HIDE DEF t
<1> QED BY <1>3, <1>4, EthTransferOutEffect DEF t

LEMMA OrbsTransferOutMoney ==
  ASSUME BridgeInv, BridgeInv', MoneyInv,
         NEW from \in OrbsUsers, NEW to \in Holders \cup {NoAddress}, NEW amount \in Values,
         NEW signatures \in BlockProofs, OrbsTransferOut(from, to, amount, signatures)
  PROVE  MoneyInv'
<1> DEFINE t == [chain |-> "orbs", id |-> <<resets, outTuid + 1>>, to |-> to, value |-> amount]
<1>1. amount \in Nat /\ balances[from] \in Nat /\ locked \in Nat
  BY BridgeAssumption, BridgeTypes DEF MoneyInv
<1>2. wallets' = wallets /\ locked' = locked /\ (astray' <=> astray)
  BY DEF OrbsTransferOut, ethereumVars, historyVars
<1>3. CASE balances' = balances /\ totalSupply' = totalSupply /\ Underway' = Underway
  BY <1>2, <1>3, MoneyUnchanged
<1>4. CASE /\ balances' = [balances EXCEPT ![from] = balances[from] - amount]
           /\ totalSupply' = (totalSupply - amount) % UINT64
           /\ Underway' = Underway \cup {t}
  <2>1. t \notin Underway /\ t.value = amount
    BY NewTransfer DEF Underway
  <2> HIDE DEF t
  <2>2. OnOrbs' = OnOrbs + ((balances[from] - amount) - balances[from])
    BY <1>4, BalanceChanges
  <2>3. OnOrbs' = OnOrbs - amount /\ OnOrbs \in Nat
    BY <1>1, <2>2, MoneyTypes
  <2>4. IsFiniteSet(Underway') /\ ValueUnderway' = ValueUnderway + amount /\ ValueUnderway \in Nat
    BY <1>1, <1>4, <2>1, MoreUnderway
  <2>5. OnEthereum' = OnEthereum
    BY <1>2 DEF OnEthereum
  <2>6. OnOrbs' + ValueUnderway' = OnOrbs + ValueUnderway
    BY <1>1, <2>3, <2>4
  <2>7. Covered => Covered'
    BY <1>2, <2>5, <2>6 DEF Covered
  <2>8. BridgeIsSolvent'
    BY <1>2, <2>5, <2>7, WasCovered, StillSolvent
  <2>9. totalSupply' = OnOrbs' % UINT64
    <3>1. totalSupply = OnOrbs % UINT64
      BY DEF MoneyInv, SupplyIsTheBalances, OnOrbs
    <3>2. ((OnOrbs % UINT64) - amount) % UINT64 = (OnOrbs - amount) % UINT64
      <4>1. UINT64 \in Nat \ {0} /\ OnOrbs \in Int /\ amount \in Int
        BY <1>1, <2>3, MoneyTypes
      <4> QED BY ONLY <4>1, RemainderAfterPayment, Zenon
    <3> QED BY <1>4, <2>3, <3>1, <3>2, Zenon
  <2> QED BY <1>1, <1>2, <2>4, <2>8, <2>9 DEF MoneyInv, SupplyIsTheBalances, OnOrbs
<1> HIDE DEF t
<1> QED BY <1>3, <1>4, OrbsTransferOutEffect DEF t

LEMMA EthTransferInMoney ==
  ASSUME BridgeInv, BridgeInv', MoneyInv,
         NEW r \in orbsOut \cup OtherReceipts, EthTransferIn(r)
  PROVE  MoneyInv'
<1> DEFINE v == r.value
           t == TransferOf("orbs", r)
<1>1. r.to \in Holders /\ v \in Nat /\ wallets[r.to] \in Nat /\ locked \in Nat
  BY EthTransferInEffect, BridgeTypes DEF MoneyInv
<1>2. balances' = balances /\ totalSupply' = totalSupply
  BY DEF EthTransferIn, orbsVars
<1>3. CASE wallets' = wallets /\ locked' = locked - 0 /\ Underway' = Underway /\ (astray' <=> astray)
  <2>1. locked' = locked
    BY <1>1, <1>3
  <2> QED BY <1>2, <1>3, <2>1, MoneyUnchanged
<1>4. CASE /\ wallets' = [wallets EXCEPT ![r.to] = wallets[r.to] + v]
           /\ v <= locked /\ locked' = locked - v
           /\ \/ t \in Underway /\ Underway' = Underway \ {t} /\ (astray' <=> astray)
              \/ Underway' = Underway /\ astray'
  <2>1. t.value = v
    BY TransferFields
  <2>2. OnEthereum' = OnEthereum + ((wallets[r.to] + v) - wallets[r.to])
    BY <1>1, <1>4, WalletChanges
  <2> HIDE DEF t, v
  <2>3. OnEthereum' = OnEthereum + v /\ OnEthereum \in Nat /\ OnOrbs' = OnOrbs /\ OnOrbs \in Nat
    BY <1>1, <1>2, <2>2, MoneyTypes DEF OnOrbs
  <2>4. OnEthereum' + locked' = OnEthereum + locked /\ locked' \in Nat
    BY <1>1, <1>4, <2>3
  <2>5. IsFiniteSet(Underway')
    BY <1>4, LessUnderway, SameUnderway
  <2>6. ASSUME t \in Underway, Underway' = Underway \ {t}, Covered
        PROVE  Covered'
    <3>1. /\ ValueUnderway = ValueUnderway' + v
          /\ ValueUnderway' \in Nat /\ ValueUnderway \in Nat
      BY <2>1, <2>6, LessUnderway
    <3>2. PICK O, V, V2, L \in Nat : O = OnOrbs /\ V = ValueUnderway /\ V2 = ValueUnderway' /\ L = locked
      BY <1>1, <2>3, <3>1
    <3>3. L >= O + V /\ (OnEthereum + L < UINT64 => L = O + V) /\ V = V2 + v /\ v \in Nat
      BY <1>1, <2>6, <3>1, <3>2 DEF Covered
    <3>4. L - v >= O + V2 /\ (OnEthereum + L < UINT64 => L - v = O + V2)
      BY ONLY <3>3
    <3>5. OnOrbs' = O /\ locked' = L - v /\ ValueUnderway' = V2 /\ OnEthereum' + locked' = OnEthereum + L
      BY <1>4, <2>3, <2>4, <3>2
    <3> QED BY <3>4, <3>5 DEF Covered
  <2>7. BridgeIsSolvent'
    BY <1>4, <2>4, <2>6, WasCovered, StillSolvent
  <2> QED BY <1>2, <2>4, <2>5, <2>7 DEF MoneyInv, SupplyIsTheBalances
<1> HIDE DEF v, t
<1> QED BY <1>3, <1>4, EthTransferInEffect DEF v, t

LEMMA OrbsTransferInMoney ==
  ASSUME BridgeInv, BridgeInv', MoneyInv, NEW e \in EthEvents, OrbsTransferIn(e)
  PROVE  MoneyInv'
<1> DEFINE b == balances[e.to]
           v == e.value
           c == v % UINT64
           n == (b + c) % UINT64
           t == TransferOf("ethereum", e)
<1>1. wallets' = wallets /\ locked' = locked /\ OnEthereum' = OnEthereum
  BY DEF OrbsTransferIn, ethereumVars, OnEthereum
<1>2. b \in Nat /\ v \in Nat /\ e.to \in OrbsUsers /\ locked \in Nat
  BY BridgeTypes DEF MoneyInv
<1>3. UINT64 \in Nat \ {0} /\ OnOrbs \in Nat /\ OnEthereum \in Nat
  BY MoneyTypes
<1>4. c \in Nat
  BY <1>2, <1>3, DivisionOf
<1>5. n \in Nat /\ n <= b + v /\ (b + v < UINT64 => n = b + v)
  <2>1. n \in 0..(b + v) /\ (b + v < UINT64 => n = b + v)
    BY <1>2, CountedInWord
  <2> HIDE DEF n
  <2> QED BY <1>2, <2>1
<1>6. b <= OnOrbs
  <2>1. \A u \in OrbsUsers : balances[u] \in Nat
    BY BridgeTypes
  <2>2. IsFiniteSet(OrbsUsers)
    BY BridgeAssumption
  <2>3. \A u \in OrbsUsers : balances[u] <= SumFunctionOnSet(balances, OrbsUsers)
    BY ONLY <2>1, <2>2, SumBounds
  <2> QED BY <1>2, <2>3, MoneyTypes
<1>7. t.value = v
  BY TransferFields
<1> HIDE DEF n, c, t
<1>8. CASE balances' = balances /\ totalSupply' = totalSupply /\ Underway' = Underway /\ (astray' <=> astray)
  BY <1>1, <1>8, MoneyUnchanged
<1>9. CASE /\ balances' = [balances EXCEPT ![e.to] = n]
           /\ totalSupply' = (totalSupply + c) % UINT64
           /\ \/ t \in Underway /\ Underway' = Underway \ {t} /\ (astray' <=> astray)
              \/ Underway' = Underway /\ astray'
  <2>1. OnOrbs' = OnOrbs + (n - b)
    BY <1>2, <1>9, BalanceChanges
  <2> HIDE DEF b, v
  <2>2. IsFiniteSet(Underway')
    BY <1>9, LessUnderway, SameUnderway
  <2>3. ASSUME t \in Underway, Underway' = Underway \ {t}, Covered
        PROVE  Covered'
    <3>0. b \in Nat /\ v \in Nat
      BY <1>2
    <3>1. /\ ValueUnderway = ValueUnderway' + v
          /\ ValueUnderway' \in Nat /\ ValueUnderway \in Nat
      BY <1>7, <2>3, LessUnderway
    <3>2. PICK O, V, V2, L \in Nat : O = OnOrbs /\ V = ValueUnderway /\ V2 = ValueUnderway' /\ L = locked
      BY <1>2, <1>3, <3>1
    <3>3. L >= O + V /\ V = V2 + v /\ (OnEthereum + L < UINT64 => L = O + V)
      BY <2>3, <3>1, <3>2 DEF Covered
    <3>4. OnOrbs' = O + (n - b) /\ locked' = L /\ ValueUnderway' = V2
      BY <1>1, <2>1, <3>2
    <3>5. L >= (O + (n - b)) + V2
      BY ONLY <3>3, <1>5, <3>0
    <3>6. OnEthereum + L < UINT64 => L = (O + (n - b)) + V2
      <4> SUFFICES ASSUME OnEthereum + L < UINT64 PROVE L = (O + (n - b)) + V2
        OBVIOUS
      <4>1. L = O + V /\ b <= O
        BY <1>6, <3>2, <3>3
      <4>2. b + v < UINT64
        BY ONLY <3>3, <4>1, <1>3, OnEthereum + L < UINT64, <3>0
      <4> QED BY ONLY <3>3, <4>1, <4>2, <1>5, <3>0
    <3> QED BY <1>1, <3>4, <3>5, <3>6 DEF Covered
  <2>4. BridgeIsSolvent'
    BY <1>1, <1>9, <2>3, WasCovered, StillSolvent
  <2>5. totalSupply' = OnOrbs' % UINT64
    <3>1. totalSupply = OnOrbs % UINT64
      BY DEF MoneyInv, SupplyIsTheBalances, OnOrbs
    <3>2. ((OnOrbs % UINT64) + c) % UINT64 = (OnOrbs + (((b + c) % UINT64) - b)) % UINT64
      <4>1. UINT64 \in Nat \ {0} /\ OnOrbs \in Int /\ b \in Int /\ c \in Int
        BY <1>2, <1>3, <1>4
      <4> QED BY ONLY <4>1, RemainderAfterGift, Zenon
    <3>3. n = (b + c) % UINT64
      BY DEF n
    <3>4. totalSupply' = ((OnOrbs % UINT64) + c) % UINT64
      BY <1>9, <3>1, Zenon
    <3>5. (OnOrbs + (((b + c) % UINT64) - b)) % UINT64 = OnOrbs' % UINT64
      BY <2>1, <3>3, Zenon
    <3> QED BY <3>2, <3>4, <3>5, Zenon
  <2> QED BY <1>1, <1>2, <2>2, <2>4, <2>5 DEF MoneyInv, SupplyIsTheBalances, OnOrbs
<1> QED BY <1>8, <1>9, OrbsTransferInEffect DEF b, v, c, n, t

(* Two balances change.                                                     *)
LEMMA ProxyTransferMoney ==
  ASSUME BridgeInv, BridgeInv', MoneyInv,
         NEW from \in OrbsUsers, NEW to \in OrbsUsers, NEW amount \in Values,
         ProxyTransfer(from, to, amount)
  PROVE  MoneyInv'
<1> DEFINE b == balances[to]
           less == balances[from] - amount
           n == (b + amount) % UINT64
<1>1. /\ from # to /\ amount <= balances[from]
      /\ balances' = [balances EXCEPT ![from] = less, ![to] = n]
      /\ totalSupply' = totalSupply /\ wallets' = wallets /\ locked' = locked
      /\ Underway' = Underway /\ (astray' <=> astray)
  BY ProxyTransferPasses DEF ProxyTransfer, ethereumVars, historyVars, Transfers!Pass
<1>2. amount \in Nat /\ b \in Nat /\ balances[from] \in Nat
  BY BridgeAssumption, BridgeTypes
<1>3. n \in Nat /\ n <= b + amount /\ (b + amount < UINT64 => n = b + amount)
  <2>1. n \in 0..(b + amount) /\ (b + amount < UINT64 => n = b + amount)
    BY <1>2, CountedInWord
  <2> HIDE DEF n
  <2> QED BY <1>2, <2>1
<1>4. OnOrbs' = (OnOrbs - amount) + (n - b)
  <2>1. PICK f, g, h : f = balances /\ g = [balances EXCEPT ![from] = less] /\ h = balances'
    OBVIOUS
  <2> HIDE DEF n, b
  <2>2. f \in [OrbsUsers -> Nat] /\ h \in [OrbsUsers -> Nat] /\ less \in Nat
    BY <1>1, <1>2, <2>1 DEF BridgeInv, BridgeTypeOK
  <2>3. DOMAIN f = OrbsUsers /\ DOMAIN h = OrbsUsers
    BY <2>2
  <2>4. /\ g \in [OrbsUsers -> Nat] /\ g[from] = less /\ g[to] = b
        /\ \A x \in OrbsUsers \ {from} : g[x] = f[x]
    BY <1>1, <2>1, <2>2 DEF b
  <2>5. h[to] = n /\ \A x \in OrbsUsers \ {to} : h[x] = g[x]
    <3> HIDE DEF less
    <3> QED BY <1>1, <2>1, <2>2
  <2>6. \A x \in OrbsUsers : f[x] \in Int /\ g[x] \in Int
    BY <2>2, <2>4
  <2>7. \A x \in OrbsUsers : g[x] \in Int /\ h[x] \in Int
    BY <2>2, <2>4
  <2>8. IsFiniteSet(OrbsUsers)
    BY BridgeAssumption
  <2>9. SumFunctionOnSet(g, OrbsUsers) = SumFunctionOnSet(f, OrbsUsers) + (g[from] - f[from])
    <3>1. \A x \in OrbsUsers \ {from} : g[x] = f[x]
      BY <2>4
    <3> QED BY ONLY <2>6, <2>8, <3>1, SumChange, from \in OrbsUsers
  <2>10. SumFunctionOnSet(h, OrbsUsers) = SumFunctionOnSet(g, OrbsUsers) + (h[to] - g[to])
    <3>1. \A x \in OrbsUsers \ {to} : h[x] = g[x]
      BY <2>5
    <3> QED BY ONLY <2>7, <2>8, <3>1, SumChange, to \in OrbsUsers
  <2>11. /\ OnOrbs = SumFunctionOnSet(f, OrbsUsers) /\ OnOrbs \in Nat
         /\ OnOrbs' = SumFunctionOnSet(h, OrbsUsers)
    BY <2>1, <2>3, SumOfFunction, MoneyTypes DEF OnOrbs
  <2>12. g[from] - f[from] = -amount
    BY <1>2, <2>1, <2>4
  <2> QED BY <2>4, <2>5, <2>9, <2>10, <2>11, <2>12, <1>2
<1>5. b + balances[from] <= OnOrbs
  <2>1. \A u \in OrbsUsers : balances[u] \in Nat
    BY BridgeTypes
  <2>2. IsFiniteSet(OrbsUsers) /\ IsFiniteSet(OrbsUsers \ {to})
    BY BridgeAssumption, FS_Subset
  <2>3. \A u \in OrbsUsers \ {to} : balances[u] \in Nat
    BY <2>1
  <2>4. balances[from] <= SumFunctionOnSet(balances, OrbsUsers \ {to})
    <3>1. \A u \in OrbsUsers \ {to} : balances[u] <= SumFunctionOnSet(balances, OrbsUsers \ {to})
      BY ONLY <2>2, <2>3, SumBounds
    <3> QED BY <1>1, <3>1
  <2>5. SumFunctionOnSet(balances, OrbsUsers) = b + SumFunctionOnSet(balances, OrbsUsers \ {to})
    BY <2>1, <2>2, SumRemove
  <2>6. SumFunctionOnSet(balances, OrbsUsers \ {to}) \in Nat
    BY <2>2, <2>3, SumType
  <2> HIDE DEF b
  <2> QED BY <1>2, <2>4, <2>5, <2>6, MoneyTypes
<1> HIDE DEF n, b, less
<1>6. /\ OnOrbs \in Nat /\ OnEthereum \in Nat /\ UINT64 \in Nat \ {0}
      /\ IsFiniteSet(Underway') /\ ValueUnderway' = ValueUnderway /\ ValueUnderway \in Nat
  BY <1>1, MoneyTypes, SameUnderway
<1>7. OnEthereum' = OnEthereum
  BY <1>1 DEF OnEthereum
<1>8. ASSUME Covered PROVE Covered'
  <2>1. PICK O, V, L \in Nat : O = OnOrbs /\ V = ValueUnderway /\ L = locked
    BY <1>6 DEF MoneyInv
  <2>2. L >= O + V /\ (OnEthereum + L < UINT64 => L = O + V)
    BY <1>8, <2>1 DEF Covered
  <2>3. OnOrbs' = (O - amount) + (n - b) /\ locked' = L /\ ValueUnderway' = V
    BY <1>1, <1>4, <1>6, <2>1
  <2>4. L >= ((O - amount) + (n - b)) + V
    BY ONLY <1>2, <1>3, <2>2
  <2>5. OnEthereum + L < UINT64 => L = ((O - amount) + (n - b)) + V
    <3> SUFFICES ASSUME OnEthereum + L < UINT64 PROVE L = ((O - amount) + (n - b)) + V
      OBVIOUS
    <3>1. L = O + V /\ b + amount <= O
      BY <1>1, <1>2, <1>5, <2>1, <2>2
    <3>2. b + amount < UINT64
      BY ONLY <1>2, <1>6, <3>1, OnEthereum + L < UINT64
    <3> QED BY ONLY <1>2, <1>3, <3>1, <3>2
  <2> QED BY <1>7, <2>3, <2>4, <2>5 DEF Covered
<1>9. totalSupply' = OnOrbs' % UINT64
  <2>1. totalSupply = OnOrbs % UINT64
    BY DEF MoneyInv, SupplyIsTheBalances, OnOrbs
  <2>2. PICK k \in Int : b + amount = UINT64 * k + n
    <3>1. b + amount \in Int
      BY <1>2
    <3>2. b + amount = UINT64 * ((b + amount) \div UINT64) + ((b + amount) % UINT64)
          /\ (b + amount) \div UINT64 \in Int
      BY <1>6, <3>1, DivisionOf
    <3> QED BY <3>2 DEF n
  <2>3. PICK x, y : x = OnOrbs /\ y = (OnOrbs - amount) + (n - b)
    OBVIOUS
  <2>4. x \in Int /\ y \in Int /\ x = y + UINT64 * k
    BY <1>2, <1>3, <1>6, <2>2, <2>3
  <2>5. x % UINT64 = y % UINT64
    BY <1>6, <2>4, SameRemainder
  <2> QED BY <1>1, <1>4, <2>1, <2>3, <2>5
<1>10. BridgeIsSolvent'
  BY <1>1, <1>7, <1>8, WasCovered, StillSolvent
<1> QED BY <1>1, <1>6, <1>9, <1>10 DEF MoneyInv, SupplyIsTheBalances, OnOrbs

LEMMA InitialMoney == BridgeInit => MoneyInv
<1> SUFFICES ASSUME BridgeInit PROVE MoneyInv
  OBVIOUS
<1>1. /\ Underway = {} /\ locked = 0 /\ totalSupply = 0 /\ wallets \in FirstWallets
      /\ ~astray
  BY DEF BridgeInit, Underway, BackedTransfers
<1>2. IsFiniteSet(Underway) /\ BridgeInv
  BY <1>1, FS_EmptySet, InitialInv
<1>3. ValueUnderway = 0
  <2>1. PICK f : f = [t \in Underway |-> t.value]
    OBVIOUS
  <2>2. DOMAIN f = {} /\ ValueUnderway = SumFunction(f)
    BY <1>1, <2>1 DEF ValueUnderway
  <2> QED BY <2>2, SumOfFunction, SumEmpty
<1>4. OnOrbs = 0
  <2>1. \A u \in OrbsUsers : balances[u] = 0
    BY DEF BridgeInit
  <2> QED BY <1>2, <2>1, MoneyTypes, SumOfZeros, BridgeAssumption
<1>5. OnEthereum + locked = OnEthereum /\ OnEthereum \in Nat
  BY <1>1, <1>2, MoneyTypes
<1>6. totalSupply = 0 % UINT64
  <2>1. UINT64 \in Nat \ {0}
    BY BridgeAssumption
  <2> QED BY ONLY <1>1, <2>1
<1> QED BY <1>1, <1>2, <1>3, <1>4, <1>5, <1>6
    DEF MoneyInv, BridgeIsSolvent, SupplyIsTheBalances, OnEthereum, OnOrbs

(* In every reachable state, whoever resets or changes what: the tokens of  *)
(* the wallets and the lock of AutonomousSwapBridge.sol are those of the    *)
(* beginning; the lock covers the balances on Orbs and whatever is under    *)
(* way until something was paid that was not owed, which takes a reset or a *)
(* change of an end; a block is accepted just when two thirds of a          *)
(* federation that is not empty signed it; and the proxy's supply is its    *)
(* balances' sum.                                                           *)
THEOREM BridgeAlwaysExact == BridgeSpec => []BridgeIsExact
<1>1. BridgeInv /\ BridgeInit => MoneyInv
  BY InitialMoney
<1>2. BridgeInv /\ BridgeInv' /\ MoneyInv /\ [BridgeNext]_bridgeVars => MoneyInv'
  <2> SUFFICES ASSUME BridgeInv, BridgeInv', MoneyInv, [BridgeNext]_bridgeVars PROVE MoneyInv'
    OBVIOUS
  <2>1. CASE UNCHANGED <<ethereumVars, orbsVars, historyVars>>
    <3>1. UNCHANGED <<wallets, locked, balances, totalSupply, Underway>> /\ (astray' <=> astray)
      BY <2>1, BridgeUnchanged DEF ethereumVars, orbsVars, historyVars
    <3> QED BY <3>1, MoneyUnchanged
  <2>2. CASE AnyReset
    <3>1. /\ wallets' = wallets /\ locked' = locked /\ balances' = balances
          /\ totalSupply' = totalSupply /\ (astray' <=> astray)
          /\ ethOut' = ethOut /\ orbsOut' = orbsOut /\ arrived' = arrived
      BY <2>2, ResetsMoveNothing
    <3>2. Underway' = Underway
      BY <3>1, UnderwaySame
    <3> QED BY <3>1, <3>2, MoneyUnchanged
  <2>3. CASE UNCHANGED bridgeVars
    BY <2>1, <2>3 DEF bridgeVars
  <2>4. CASE BridgeNext
    BY <2>1, <2>2, <2>4, EthTransferOutMoney, OrbsTransferInMoney, OrbsTransferOutMoney,
       EthTransferInMoney, ProxyTransferMoney DEF BridgeNext, AnyReset
  <2> QED BY <2>3, <2>4
<1>3. FederationInv => QuorumIsTwoThirds
  BY QuorumAlwaysTwoThirds
<1>4. MoneyInv => BridgeIsSolvent /\ SupplyIsTheBalances
  BY DEF MoneyInv
<1>5. RevisionsAreValid /\ QuorumIsTwoThirds /\ BridgeIsSolvent /\ SupplyIsTheBalances
        => BridgeIsExact
  BY DEF BridgeIsExact
<1> QED BY <1>1, <1>2, <1>3, <1>4, <1>5, BridgeInvariant, FederationInvariant,
          RevisionsAlwaysValid, PTL DEF BridgeSpec

=============================================================================
