------------------------ MODULE MCRewardsDistribution ------------------------
(* Two files that begin with the same rewards.  In batches of two the first *)
(* batch of both is the same, and the second file has another; in batches   *)
(* of three it has one.  The third file cannot be used.                     *)
EXTENDS RewardsDistribution

CONSTANTS alice, bob, carol

Reward(a, n) == [address |-> a, amount |-> n]

MCFiles ==
  { <<Reward(alice, 1), Reward(carol, 1)>>,
    <<Reward(alice, 1), Reward(carol, 1), Reward(bob, 1)>>,
    <<Reward(alice, 1), Reward(alice, 1)>> }

MCDirectRewards == {Reward(alice, 1)}

=============================================================================
