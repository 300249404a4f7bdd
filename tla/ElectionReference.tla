-------------------------- MODULE ElectionReference --------------------------
(***************************************************************************)
(* What an election means, said without lists, stages or recursion: the     *)
(* definitions module ElectionTally is compared with.  A state of Ethereum  *)
(* is a record with the validators, the guardians, everyone's vote, balance *)
(* and locked stake (module Elections declares it).                         *)
(***************************************************************************)
EXTENDS Accounts, Integers, FiniteSets, FiniteSetsExt, Functions

CONSTANTS
  VoteOutWeightPercent, MinElectedValidators

(* A set is closed when it holds everyone whose agent it holds; a guardian  *)
(* has no agent, whatever it may have delegated.                            *)
Closed(S, guardians, agentOf) ==
  \A d \in Address \ guardians : agentOf[d] \in S => d \in S

(* Whom guardian g speaks for: the least closed set around g.               *)
Electorate(g, guardians, agentOf) ==
  {a \in Account : \A S \in SUBSET Account :
                     g \in S /\ Closed(S, guardians, agentOf) => a \in S}

StakeOf(S, stake) == MapThenSumSet(LAMBDA a : stake[a], S)

(* casting: the guardians whose vote counts; against[g]: whom g votes out.  *)
TotalWeight(casting, guardians, agentOf, stake) ==
  StakeOf(UNION {Electorate(g, guardians, agentOf) : g \in casting}, stake)

WeightAgainst(v, casting, guardians, against, agentOf, stake) ==
  StakeOf(UNION {Electorate(g, guardians, agentOf) :
                   g \in {h \in casting : v \in against[h]}}, stake)

VotedOut(v, casting, guardians, against, agentOf, stake) ==
  /\ \E g \in casting : v \in against[g]
  /\ WeightAgainst(v, casting, guardians, against, agentOf, stake)
       >= (TotalWeight(casting, guardians, agentOf, stake) * VoteOutWeightPercent) \div 100

Committee(candidates, casting, guardians, against, agentOf, stake) ==
  LET staying == {v \in candidates :
                    ~VotedOut(v, casting, guardians, against, agentOf, stake)}
  IN  IF Cardinality(staying) < MinElectedValidators THEN candidates ELSE staying

=============================================================================
