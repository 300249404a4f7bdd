--------------------------- MODULE AtomicElections ---------------------------
(***************************************************************************)
(* What the Elections contract promises: an election is one step.  It       *)
(* counts the votes, stakes and delegations of the election's block, and    *)
(* publishes the committee, its Orbs addresses, the total weight and what   *)
(* every participant has earned.  There are no stages and no order of       *)
(* calls, and the tally is the one of module ElectionReference.             *)
(***************************************************************************)
EXTENDS ElectionReference, Sequences

CONSTANTS
  ElectionPeriod, MirrorPeriod, VoteValidPeriod, EthereumStakeFactor,
  ParticipationPool(_)   \* what an election with this total weight pays out at most

VARIABLES
  ethereum,   \* Ethereum's contracts at each block
  ethBlock,   \* the latest block
  calendar,   \* the block one period before the first election, 0: not set
  agents,     \* whom each address delegates to
  results,    \* the elections held: their block and committee
  total,      \* the total weight of the latest
  earned      \* what each account has earned by participating

vars == <<ethereum, ethBlock, calendar, agents, results, total, earned>>

Init ==
  /\ ethBlock \in Nat
  /\ calendar = 0
  /\ agents = [d \in Address |-> EmptyAddress]
  /\ results = <<>>
  /\ total = 0
  /\ earned = [a \in Account |-> 0]

Tick ==
  /\ ethBlock' = ethBlock + 1
  /\ UNCHANGED <<ethereum, calendar, agents, results, total, earned>>

(* A delegation arrives, or none; the first call sets the calendar.         *)
Delegate ==
  /\ \E d \in Account : \A o \in Address \ {d} : agents'[o] = agents[o]
  /\ calendar' # 0 /\ (calendar # 0 => calendar' = calendar)
  /\ UNCHANGED <<ethereum, ethBlock, results, total, earned>>

(* The block of the next election.                                          *)
NextElection ==
  ElectionPeriod + (IF results = <<>> THEN calendar ELSE results[Len(results)].block)

HoldAt(block) ==
  LET now == ethereum[block]
      guardianSet == {now.guardians[i] : i \in DOMAIN now.guardians}
      candidates  == {now.validators[i] : i \in DOMAIN now.validators}
      casting  == {g \in guardianSet : now.vote[g].block > 0
                                       /\ now.vote[g].block > block - VoteValidPeriod}
      against  == [g \in Address |-> now.vote[g].candidates]
      agentOf  == [a \in Account |-> IF a \in Address THEN agents[a] ELSE EmptyAddress]
      stake    == [a \in Account |-> now.balance[a] \div EthereumStakeFactor
                                       + now.locked[a] \div EthereumStakeFactor]
      weight   == TotalWeight(casting, guardianSet, agentOf, stake)
      voters   == UNION {Electorate(g, guardianSet, agentOf) : g \in casting}
      seats    == Committee(candidates, casting, guardianSet, against, agentOf, stake)
  IN  /\ calendar # 0
      /\ ethBlock >= block + MirrorPeriod
      /\ results' = Append(results, [block |-> block,
                                     seats |-> [v \in seats |-> now.orbsAddress[v]]])
      /\ total' = weight
      /\ earned' = [a \in Account |->
                      IF a \in voters
                        THEN earned[a] + (stake[a] * ParticipationPool(weight)) \div weight
                        ELSE earned[a]]
      /\ UNCHANGED <<ethereum, ethBlock, calendar, agents>>

Hold == \E block \in {NextElection} : HoldAt(block)

Next == Tick \/ Delegate \/ Hold

Spec == Init /\ [][Next]_vars

=============================================================================
