------------------------------ MODULE MCCustody ------------------------------
(***************************************************************************)
(* The contracts that hold other people's tokens: stakes through their      *)
(* cooldown, tokens whose likes are on the other chain, and fees that are   *)
(* paid for a month.  They share nothing, and a behaviour follows one.      *)
(***************************************************************************)
EXTENDS StakingContract, SwapBridge, Subscriptions

CONSTANTS alice, old, new, n1, n2, n3, h1, u1, u2, v1, v2

VARIABLES
  part,
  stakedDuring  \* history: per owner and second, the most staked at once

-----------------------------------------------------------------------------
(* One person with two staking contracts and a longer clock.                *)

MCInitialBalance == alice :> 2

StakedOf(o) == SumFunction([c \in StakingContracts |-> stakes[c][o].amount])

(* Seconds that a whole cooldown has passed since are forgotten.            *)
Recent(t, time) == time - CooldownPeriod < t /\ t <= time

HistoryInit == stakedDuring = [o \in Address |-> [t \in 0 .. MaxTime |-> 0]]

RecordStakes ==
  stakedDuring' = [o \in Address |-> [t \in 0 .. MaxTime |->
    CASE ~Recent(t, now') -> 0
      [] t = now'         -> Max({stakedDuring[o][t], StakedOf(o)'})
      [] OTHER            -> stakedDuring[o][t]]]

(* Tokens that were staked at any moment stay with the contracts, in their  *)
(* owner's name, for a whole cooldown period after it, whatever migrations, *)
(* restakes and repeated unstakes come between: who votes with a stake      *)
(* cannot have sold it by the next second.  A release ends the promise.     *)
StakeStaysThroughCooldown ==
  (\A c \in StakingContracts : ~releasingAllStakes[c]) =>
    \A o \in Address, t \in 0 .. MaxTime :
      Recent(t, now) => LockedOf(o) >= stakedDuring[o][t]

-----------------------------------------------------------------------------
(* A federation of two that may become none, one or three, and blocks       *)
(* signed by the first two, or by one of them, twice, and by somebody else. *)
(* Three tokens can be counted below 4 and five cannot.                     *)

Signed(node, good) == [signer |-> node, valid |-> good]

MCFirstMembers == {<<n1, n2>>}
MCFirstWallets == {h1 :> 3, h1 :> 5}
MCBlockProofs ==
  { <<Signed(n1, TRUE), Signed(n2, TRUE)>>,
    <<Signed(n1, TRUE), Signed(n1, TRUE), Signed(n2, FALSE), Signed(n3, TRUE)>> }

Receipt(origin, result) ==
  [origin |-> origin, executionResult |-> result, round |-> 0, tuid |-> 1, to |-> h1, value |-> 2,
   backed |-> FALSE,
   signatures |-> <<Signed(n1, TRUE), Signed(n2, TRUE)>>]

MCOtherReceipts == {Receipt("another bridge", "success"), Receipt("this bridge", "failure")}
MCOtherEvents == {[round |-> 0, tuid |-> 1, to |-> u1, value |-> 2, backed |-> FALSE]}

(* An end of February in a leap year, the end of that year, when the year   *)
(* is not the one to be guessed, and an end of February in 2100.            *)
MCDays == {18321, 18322, 18627, 18628, 47540, 47541}

MCReceiverLists == {<<>>, <<v1>>, <<v1, v2>>}

(* A behaviour of the bridge changes the federation, or resets and changes  *)
(* the ends, not both.  Where ends are reset one account on Orbs uses the   *)
(* bridge, with good proofs, MaxEvents times, or twice when an end points   *)
(* at another contract.                                                     *)
CONSTANT MaxEvents  \* bound

PointsElsewhere ==
  {orbsEnd, asbAddr} # {"this bridge"} \/ {token, tokenContract} # {"this token"}

OneKindOfChange ==
  /\ part = "federation" => resets' = 0 /\ Cardinality(ethOut') + Cardinality(orbsOut') <= 3
  /\ part = "resets" =>
       /\ UNCHANGED federationVars
       /\ Cardinality(ethOut') + Cardinality(orbsOut') <= IF PointsElsewhere' THEN 2 ELSE MaxEvents
       /\ \A e \in ethOut' : e.to = u1
       /\ \A r \in orbsOut' : ProcessPackedProof(r) /\ r.to = h1 /\ r.value > 0
       /\ balances'[u2] = 0

-----------------------------------------------------------------------------
Init ==
  /\ part \in {"staking", "federation", "resets", "subscriptions"}
  /\ StakingInit /\ HistoryInit /\ BridgeInit /\ SubscriptionsInit
  /\ part \notin {"federation", "resets"} => wallets = (h1 :> 3)
  /\ part # "subscriptions" => today = Min(Days)

Next ==
  \/ /\ part = "staking" /\ StakingNext /\ RecordStakes
     /\ UNCHANGED <<part, bridgeVars, subscriptionVars>>
  \/ /\ part \in {"federation", "resets"} /\ BridgeNext /\ OneKindOfChange
     /\ UNCHANGED <<part, stakingVars, stakedDuring, subscriptionVars>>
  \/ /\ part = "subscriptions" /\ SubscriptionsNext
     /\ UNCHANGED <<part, stakingVars, stakedDuring, bridgeVars>>

vars == <<part, stakingVars, stakedDuring, bridgeVars, subscriptionVars>>

Spec == Init /\ [][Next]_vars /\ BridgeFairness

=============================================================================
