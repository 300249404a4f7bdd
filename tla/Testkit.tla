------------------------------- MODULE Testkit -------------------------------
(***************************************************************************)
(* The testkit of orbs-pos-data: services that play the Ethereum contracts  *)
(* to the tests of wallets.  A transaction has an effect, a closure that    *)
(* the code keeps until a timer runs it; until then accounts are switched,  *)
(* other transactions created, listeners come and go.                       *)
(*                                                                         *)
(* The mocks of staking, token and guardians have a TxsMocker each; a test  *)
(* switches the account and the completion of all three together.  A        *)
(* cooldown's end, and spenders other than one, are left out.               *)
(***************************************************************************)
EXTENDS Integers, SequencesExt

CONSTANTS
  Accounts,
  Guardians,
  NoGuardian,
  Amounts,      \* the amounts of transactions
  Subscribers,  \* who listens
  Setups,       \* what withStakeBalance, withUnstakeStatus and withSelectedGuardian
                \* may have set up: [stake, cooldown, guardian] of each account
  MaxTxs,       \* bound: transactions in a test
  MaxTimers     \* bound: completions waiting at a time

Actions == {"stake", "unstake", "restake", "withdraw", "approve", "selectGuardian"}

ASSUME TestkitAssumption ==
  /\ NoGuardian \notin Guardians
  /\ Amounts \subseteq Nat
  /\ \A w \in Setups, a \in Accounts :
       /\ w[a].stake \in Int
       /\ w[a].cooldown \in Seq(Int) /\ Len(w[a].cooldown) <= 1
       /\ w[a].guardian \in Guardians \cup {NoGuardian}

VARIABLES
  fromAccount,   \* senderAccountAddress
  autoComplete,  \* autoCompleteTxes
  txs,           \* the transactions created
  timers,        \* those whose completion is scheduled
  stake,         \* addressToTotalStakedAmountMap
  totalStaked,   \* totalStakedTokens
  cooldown,      \* addressToCooldownStatus: <<amount>>, or <<>>
  allowance,     \* addressToAllowancesMap
  guardian,      \* selectedGuardiansMap
  subscriptions, \* <<subscriber, action, account>>
  shown,         \* what a subscriber last heard of an account
  history        \* [putIn, withdrawn, overlapped, misdirected]

mockerVars == <<fromAccount, autoComplete, txs, timers>>
stakingVars == <<stake, totalStaked, cooldown>>
otherVars == <<allowance, guardian>>
listeningVars == <<subscriptions, shown>>
testkitVars == <<mockerVars, stakingVars, otherVars, listeningVars, history>>

HasCooldown(a) == cooldown[a] # <<>>

-----------------------------------------------------------------------------
(* EventSubscriber                                                          *)

(* triggerEventCallbacks: every callback for the key.                       *)
TriggerEventCallbacks(action, key, field, value) ==
  shown' = [s \in Subscribers |->
    IF <<s, action, key>> \in subscriptions
      THEN [shown[s] EXCEPT ![key][field] = value] ELSE shown[s]]

(* triggerStakedEvent and its like: all tell the owner's total.             *)
TriggerStakingContractEvent(action, stakeOwner, totalStakedAmount) ==
  TriggerEventCallbacks(action, stakeOwner, "stake", totalStakedAmount)

TriggerAllowanceChangeCallbacks(owner, newAllowance) ==
  TriggerEventCallbacks("approve", owner, "allowance", newAllowance)

-----------------------------------------------------------------------------
(* TxsMocker                                                                *)

NothingShown == [stake |-> 0, allowance |-> 0, guardian |-> NoGuardian]

InCooldown(c) == IF c = <<>> THEN 0 ELSE c[1]

TestkitInit ==
  /\ fromAccount \in Accounts
  /\ autoComplete \in BOOLEAN
  /\ txs = <<>>
  /\ timers = <<>>
  /\ \E w \in Setups :
       /\ stake = [a \in Accounts |-> w[a].stake]
       /\ cooldown = [a \in Accounts |-> w[a].cooldown]
       /\ guardian = [a \in Accounts |-> w[a].guardian]
       /\ history = [putIn |-> [a \in Accounts |-> w[a].stake + InCooldown(w[a].cooldown)],
                     withdrawn |-> [a \in Accounts |-> 0], overlapped |-> {}, misdirected |-> {}]
  /\ totalStaked = 0
  /\ allowance = [a \in Accounts |-> 0]
  /\ subscriptions = {}
  /\ shown = [s \in Subscribers |-> [a \in Accounts |-> NothingShown]]

SetFromAccount(a) ==
  /\ fromAccount # a
  /\ fromAccount' = a
  /\ UNCHANGED <<autoComplete, txs, timers, stakingVars, otherVars,
                 listeningVars, history>>

SetAutoCompleteTxes(b) ==
  /\ autoComplete # b
  /\ autoComplete' = b
  /\ UNCHANGED <<fromAccount, txs, timers, stakingVars, otherVars, listeningVars, history>>

(* generateTxData; captured is what the closure keeps of the cooldown.      *)
NewTx(action, argument) ==
  [action |-> action, argument |-> argument, from |-> fromAccount,
   captured |-> cooldown[fromAccount], auto |-> autoComplete,
   pending |-> TRUE]

(* Two transactions of one owner that both move its cooldown are under way. *)
CooldownActions == {"unstake", "restake", "withdraw"}

Overlaps(tx) ==
  /\ tx.action \in CooldownActions
  /\ \E i \in DOMAIN txs :
       /\ txs[i].pending /\ txs[i].from = tx.from /\ txs[i].action \in CooldownActions
       /\ {tx.action, txs[i].action} # {"unstake"}

Scheduled(tx) == IF tx.auto THEN Append(timers, Len(txs) + 1) ELSE timers

(* createTxOf, handleTxCreated.                                             *)
CreateTxOf(action, argument) ==
  /\ Len(txs) < MaxTxs
  /\ LET tx == NewTx(action, argument) IN
     /\ txs' = Append(txs, tx)
     /\ timers' = Scheduled(tx)
     /\ history' = IF Overlaps(tx)
                     THEN [history EXCEPT !.overlapped = @ \cup {tx.from}] ELSE history
  /\ UNCHANGED <<fromAccount, autoComplete, stakingVars, otherVars, listeningVars>>

(* completeTx, until its timer.                                             *)
CompleteTx(i) ==
  /\ Len(timers) < MaxTimers
  /\ timers' = Append(timers, i)
  /\ UNCHANGED <<fromAccount, autoComplete, txs, stakingVars, otherVars,
                 listeningVars, history>>

-----------------------------------------------------------------------------
(* The effects                                                              *)

(* updateStakedTokensForOwnerBy.                                            *)
UpdateStakedTokens(a, byAmount) ==
  /\ stake' = [stake EXCEPT ![a] = @ + byAmount]
  /\ totalStaked' = totalStaked + byAmount

(* setOrUpdateCooldownStatusForOwner.                                       *)
AddToCooldown(a, byAmount) ==
  cooldown' = [cooldown EXCEPT ![a] = IF HasCooldown(a) THEN <<@[1] + byAmount>> ELSE <<byAmount>>]

ClearCooldown(a) == cooldown' = [cooldown EXCEPT ![a] = <<>>]

StakeEffect(tx) ==
  /\ UpdateStakedTokens(tx.from, tx.argument)
  /\ TriggerStakingContractEvent("stake", tx.from, stake[tx.from] + tx.argument)
  /\ history' = [history EXCEPT !.putIn[tx.from] = @ + tx.argument]
  /\ UNCHANGED <<cooldown, otherVars>>

UnstakeEffect(tx) ==
  /\ UpdateStakedTokens(tx.from, -tx.argument)
  /\ AddToCooldown(tx.from, tx.argument)
  /\ TriggerStakingContractEvent("unstake", tx.from, stake[tx.from] - tx.argument)
  /\ UNCHANGED <<otherVars, history>>

RestakeEffect(tx) ==
  /\ tx.captured # <<>>
  /\ ClearCooldown(tx.from)
  /\ UpdateStakedTokens(tx.from, tx.captured[1])
  /\ TriggerStakingContractEvent("restake", tx.from, stake[tx.from] + tx.captured[1])
  /\ UNCHANGED <<otherVars, history>>

WithdrawEffectTellingTheAmount(tx) ==
  /\ tx.captured # <<>>
  /\ ClearCooldown(tx.from)
  /\ TriggerStakingContractEvent("withdraw", tx.from, tx.captured[1])
  /\ history' = [history EXCEPT !.withdrawn[tx.from] = @ + tx.captured[1]]
  /\ UNCHANGED <<stake, totalStaked, otherVars>>

WithdrawEffect(tx) ==
  /\ tx.captured # <<>>
  /\ ClearCooldown(tx.from)
  /\ TriggerStakingContractEvent("withdraw", tx.from, stake[tx.from])
  /\ history' = [history EXCEPT !.withdrawn[tx.from] = @ + tx.captured[1]]
  /\ UNCHANGED <<stake, totalStaked, otherVars>>

(* restake, withdraw: no orbs in cooldown, no effect.                       *)
NoEffect(tx) ==
  /\ tx.action \in {"restake", "withdraw"} /\ tx.captured = <<>>
  /\ UNCHANGED <<stakingVars, otherVars, shown, history>>

(* setAllowance, for whoever the account is now.                            *)
SetAllowance(a, amount) ==
  /\ allowance' = [allowance EXCEPT ![a] = amount]
  /\ TriggerAllowanceChangeCallbacks(a, amount)

ApproveEffect(tx) ==
  /\ SetAllowance(fromAccount, tx.argument)
  /\ UNCHANGED <<stakingVars, guardian, history>>

(* selectGuardian: written for whoever the account is now, and told to the  *)
(* listeners of whoever it was.                                             *)
SelectGuardianEffect(tx) ==
  /\ guardian' = [guardian EXCEPT ![fromAccount] = tx.argument]
  /\ TriggerEventCallbacks("selectGuardian", tx.from, "guardian", tx.argument)
  /\ history' = IF tx.from = fromAccount THEN history
                ELSE [history EXCEPT !.misdirected = @ \cup {tx.from, fromAccount}]
  /\ UNCHANGED <<stakingVars, allowance>>

Effect(tx) ==
  \/ tx.action = "stake" /\ StakeEffect(tx)
  \/ tx.action = "unstake" /\ UnstakeEffect(tx)
  \/ tx.action = "restake" /\ RestakeEffect(tx)
  \/ tx.action = "withdraw" /\ WithdrawEffect(tx)
  \/ NoEffect(tx)
  \/ tx.action = "approve" /\ ApproveEffect(tx)
  \/ tx.action = "selectGuardian" /\ SelectGuardianEffect(tx)

(* performTxEffect: once.                                                   *)
PerformTxEffect(tx) ==
  \/ tx.pending /\ Effect(tx)
  \/ ~tx.pending /\ UNCHANGED <<stakingVars, otherVars, shown, history>>

(* completeTx, when its timer fires.                                        *)
TimerFires ==
  /\ timers # <<>>
  /\ LET i == timers[1] IN
     /\ PerformTxEffect(txs[i])
     /\ txs' = [txs EXCEPT ![i].pending = FALSE]
  /\ timers' = Tail(timers)
  /\ UNCHANGED <<fromAccount, autoComplete, subscriptions>>

-----------------------------------------------------------------------------
(* The services                                                             *)

Stake(amount) == CreateTxOf("stake", amount)
Unstake(amount) == CreateTxOf("unstake", amount)
Restake == CreateTxOf("restake", 0)
Withdraw == CreateTxOf("withdraw", 0)
Approve(amount) == CreateTxOf("approve", amount)
SelectGuardian(g) == CreateTxOf("selectGuardian", g)

ReadStakeBalanceOf(a) == stake[a]
ReadAllowance(a) == allowance[a]
ReadSelectedGuardian(a) == guardian[a]

SubscribeToStakingEvents(s, a) ==
  {<<s, action, a>> : action \in {"stake", "unstake", "restake", "withdraw"}}
SubscribeToAllowanceChange(s, a) == { <<s, "approve", a>> }
SubscribeToDelegateEvent(s, a) == { <<s, "selectGuardian", a>> }

(* A wallet reads an account and listens to all that happens to it.         *)
Follow(s, a) ==
  /\ \A action \in Actions : <<s, action, a>> \notin subscriptions
  /\ subscriptions' = 
       subscriptions \cup SubscribeToStakingEvents(s, a)
         \cup SubscribeToAllowanceChange(s, a) \cup SubscribeToDelegateEvent(s, a)
  /\ shown' = [shown EXCEPT ![s][a] =
       [stake |-> ReadStakeBalanceOf(a), allowance |-> ReadAllowance(a),
        guardian |-> ReadSelectedGuardian(a)]]
  /\ UNCHANGED <<mockerVars, stakingVars, otherVars, history>>

(* The functions that the subscriptions returned.                           *)
Unsubscribe(s, a) ==
  /\ \E action \in Actions : <<s, action, a>> \in subscriptions
  /\ subscriptions' = {sub \in subscriptions : sub[1] # s \/ sub[3] # a}
  /\ shown' = [shown EXCEPT ![s][a] = NothingShown]
  /\ UNCHANGED <<mockerVars, stakingVars, otherVars, history>>

TestkitNext ==
  \/ \E a \in Accounts : SetFromAccount(a)
  \/ \E b \in BOOLEAN : SetAutoCompleteTxes(b)
  \/ \E amount \in Amounts : Stake(amount) \/ Unstake(amount) \/ Approve(amount)
  \/ Restake \/ Withdraw
  \/ \E g \in Guardians : SelectGuardian(g)
  \/ \E i \in DOMAIN txs : CompleteTx(i)
  \/ TimerFires
  \/ \E s \in Subscribers, a \in Accounts : Follow(s, a) \/ Unsubscribe(s, a)

TestkitSpec == TestkitInit /\ [][TestkitNext]_testkitVars

(* Timers fire.                                                             *)
TestkitFairness == WF_testkitVars(TimerFires)

-----------------------------------------------------------------------------
(* The books hold numbers, the closures accounts.                           *)
TestkitTypeOK ==
  /\ fromAccount \in Accounts
  /\ stake \in [Accounts -> Int] /\ totalStaked \in Int
  /\ \A a \in Accounts : Len(cooldown[a]) <= 1
  /\ guardian \in [Accounts -> Guardians \cup {NoGuardian}]
  /\ Range(timers) \subseteq DOMAIN txs

(* However transactions of several accounts, created and completed in any   *)
(* order, some of them twice, interleave: what an owner put in is staked,   *)
(* cooling down or withdrawn, as in the contract.  It is not so for owners  *)
(* of whom a restake or withdrawal was under way together with another      *)
(* transaction that moves the cooldown.                                     *)
CooldownTokensAreConserved ==
  \A a \in Accounts \ history.overlapped :
    stake[a] + InCooldown(cooldown[a]) + history.withdrawn[a]
      = history.putIn[a]

(* Whoever read an account and listens to it shows what a fresh read would  *)
(* return.  It is not so for guardians where the test switched the account  *)
(* while the selection was under way.                                       *)
ShownIsCurrent ==
  \A s \in Subscribers, a \in Accounts :
    <<s, "stake", a>> \in subscriptions =>
      /\ shown[s][a].stake = stake[a]
      /\ shown[s][a].allowance = allowance[a]
      /\ a \notin history.misdirected => shown[s][a].guardian = guardian[a]

(* Every transaction created while transactions complete by themselves      *)
(* takes effect, whatever is switched meanwhile.                            *)
TransactionsComplete ==
  \A i \in 1 .. MaxTxs :
    (i \in DOMAIN txs /\ txs[i].auto) ~> (i \in DOMAIN txs /\ ~txs[i].pending)

(* A test sees of the mocks what it would see of the contracts: tokens are  *)
(* conserved and subscribers up to date.                                    *)
TestkitIsTheContracts == TestkitTypeOK /\ CooldownTokensAreConserved /\ ShownIsCurrent

=============================================================================
