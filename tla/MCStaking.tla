------------------------------ MODULE MCStaking ------------------------------
(* Two contracts, each of which may be the other's destination or its own,  *)
(* and two people with a token each.                                        *)
EXTENDS StakingContract

CONSTANTS alice, bob, old, new

OneTokenEach == alice :> 1 @@ bob :> 1

(* Only the first contract's managers change; the second one keeps alice.   *)
KeepsItsManagers ==
  /\ migrationManager'[new] = migrationManager[new]
  /\ emergencyManager'[new] = emergencyManager[new]

MCStakingInit ==
  /\ StakingInit
  /\ migrationManager[new] = alice
  /\ emergencyManager[new] = alice

MCStakingNext == StakingNext /\ KeepsItsManagers

MCStakingSpec == MCStakingInit /\ [][MCStakingNext]_stakingVars /\ OwnersClaim

=============================================================================
