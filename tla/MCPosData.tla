------------------------------ MODULE MCPosData ------------------------------
(***************************************************************************)
(* The data library: a test that uses the testkit, reads, a subscription.   *)
(* They share nothing, so a behaviour follows one of them.                  *)
(***************************************************************************)
EXTENDS Testkit, PosDataReads, PosDataSubscriptions

CONSTANTS alice, bob, me, ann, ben, none

VARIABLE part

(* One account has some staked and some in cooldown.                        *)
MCSetups ==
  { alice :> [stake |-> 1, cooldown |-> <<2>>, guardian |-> NoGuardian]
      @@ bob :> [stake |-> 0, cooldown |-> <<>>, guardian |-> NoGuardian] }

(* Two elections; the second has other guardians, votes and committee.      *)
MCResults ==
  << [total |-> 2, weight |-> 1, against |-> 0, stake |-> 1, delegatorReward |-> 1,
      guardianReward |-> 4, validatorReward |-> 8, elected |-> << <<1, 2>>, <<3, 4>> >>],
     [total |-> 5, weight |-> 4, against |-> 3, stake |-> 2, delegatorReward |-> 2,
      guardianReward |-> 6, validatorReward |-> 9, elected |-> << <<3, 4>> >>] >>

Past(kind, to, at, value) == [kind |-> kind, to |-> to, block |-> at, value |-> value]

(* Nothing, a transfer, and a Delegate after a transfer to someone else.    *)
MCPastDelegations ==
  { <<>>,
    << Past("Transfer", ann, 1, "0.07") >>,
    << Past("Transfer", ben, 1, "0.07"), Past("Delegate", ann, 2, "none") >> }

Init ==
  /\ part \in {"testkit", "reads", "subscription"}
  /\ TestkitInit /\ ReadsInit /\ SubscriptionsInit
  /\ part # "testkit" => autoComplete /\ fromAccount = alice
  /\ part # "reads" => delegations = <<>> /\ votedAt = 0

Next ==
  \/ /\ part = "testkit" /\ TestkitNext
     /\ UNCHANGED <<part, readsVars, subscriptionVars>>
  \/ /\ part = "reads" /\ ReadsNext
     /\ UNCHANGED <<part, testkitVars, subscriptionVars>>
  \/ /\ part = "subscription" /\ SubscriptionsNext
     /\ UNCHANGED <<part, testkitVars, readsVars>>

Spec ==
  /\ Init /\ [][Next]_<<part, testkitVars, readsVars, subscriptionVars>>
  /\ TestkitFairness /\ SubscriptionsFairness

(* Transactions of the testkit complete, and unsubscribing ends.            *)
EverythingCompletes == TransactionsComplete /\ UnsubscribingEnds

=============================================================================
