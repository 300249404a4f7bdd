--------------------------- MODULE MCElectionTally ---------------------------
(***************************************************************************)
(* The tally of an election whose data change, compared with its definition *)
(* in ElectionReference.  A state is the data of one election; the actions  *)
(* change one delegation or one vote at a time, so that all data are        *)
(* reached.                                                                 *)
(***************************************************************************)
EXTENDS ElectionTally, TLC

CONSTANTS
  GuardianLists,   \* the guardians of the election's block, as they are read
  Ballots,         \* whom a guardian may vote out
  StakeOfAll,      \* everyone's stake
  Candidates,      \* the validators of the election's block, as they are read
  Listed           \* the delegators, in the order in which they were mirrored

(* The registers of guardians and validators list nobody twice, and nobody  *)
(* votes the zero address out.  A delegator may be listed any number of     *)
(* times.                                                                   *)
ASSUME TallyDataAssumption ==
  /\ \A s \in GuardianLists \cup {Candidates} : s \in Seq(Address) /\ IsInjective(s)
  /\ Ballots \subseteq SUBSET Address
  /\ StakeOfAll \in [Account -> Nat]
  /\ Listed \in Seq(Address)

Reference == INSTANCE ElectionReference

VARIABLES
  guardianList,  \* the guardians of the election's block
  agentOf,       \* whom everybody delegates to
  ballot         \* the votes: whom each guardian votes out, NotVoted if expired

tallyVars == <<guardianList, agentOf, ballot>>

NotVoted == {EmptyAddress}

RegisteredGuardians == ToSet(guardianList)

TallyInit ==
  /\ guardianList \in GuardianLists
  /\ agentOf = [a \in Account |-> EmptyAddress]
  /\ ballot = [g \in Account |-> NotVoted]

Redelegate(d, to) ==
  /\ agentOf' = [agentOf EXCEPT ![d] = to]
  /\ UNCHANGED <<guardianList, ballot>>

VoteOut(g, S) ==
  /\ ballot' = [ballot EXCEPT ![g] = S]
  /\ UNCHANGED <<guardianList, agentOf>>

TallyNext ==
  \/ \E d \in ToSet(Listed) : \E to \in Account \ {d} : Redelegate(d, to)
  \/ \E g \in RegisteredGuardians : \E S \in Ballots \cup {NotVoted} : VoteOut(g, S)

TallySpec == TallyInit /\ [][TallyNext]_tallyVars

CastingNow == {g \in RegisteredGuardians : ballot[g] # NotVoted}

(* The data as the collecting stages leave them.                            *)
CollectedGuardians ==
  [a \in Account |-> [stake |-> IF a \in CastingNow THEN StakeOfAll[a] ELSE 0,
                      voteAt |-> IF a \in CastingNow THEN 1 ELSE 0,
                      candidates |-> ballot[a]]]

CollectedDelegators ==
  [a \in Account |-> IF a \in RegisteredGuardians THEN 0 ELSE StakeOfAll[a]]

Result == Tally(guardianList, CollectedGuardians, Listed, agentOf, CollectedDelegators)

-----------------------------------------------------------------------------
(* A guardian votes with its own stake and that of everyone whose chain of  *)
(* delegations ends with it, however long the chain and whatever cycles     *)
(* there are beside it; what guardians delegate does not count.             *)
WeightIsTheElectorates ==
  LET tally == Result
  IN  /\ DOMAIN tally.weight = CastingNow
      /\ \A g \in CastingNow :
           tally.weight[g] =
             Reference!StakeOf(Reference!Electorate(g, RegisteredGuardians, agentOf), StakeOfAll)
      /\ tally.total =
           Reference!TotalWeight(CastingNow, RegisteredGuardians, agentOf, StakeOfAll)

(* Everyone behind a voting guardian is paid for participating, once, and   *)
(* nobody else is.                                                          *)
ParticipantsOccurOnce ==
  LET tally == Result
  IN  /\ ToSet(tally.participants) =
           UNION {Reference!Electorate(g, RegisteredGuardians, agentOf) : g \in CastingNow}
      /\ IsInjective(tally.participants)

(* A validator is out exactly when it is named and the weight against it    *)
(* reaches the threshold, unless too few would be left.                     *)
SelectionIsTheReferences ==
  ToSet(Elected(Candidates, Result)) =
    Reference!Committee(ToSet(Candidates), CastingNow, RegisteredGuardians, ballot, agentOf,
                        StakeOfAll)

(* All that an election pays for participation is within the budget of its  *)
(* total weight.                                                            *)
ParticipationWithinBudget ==
  LET tally == Result
      paid  == AddParticipation([a \in Account |-> 0], tally)
  IN  RewardsPayable(tally) =>
        SumFunction(paid) <= ParticipationPool(tally.total)

(* The recursion over delegations computes the reference's tally, and the   *)
(* votes weighed by it decide as the reference's do and pay within budget.  *)
TallyIsTheReferences ==
  WeightIsTheElectorates /\ ParticipantsOccurOnce /\ SelectionIsTheReferences
    /\ ParticipationWithinBudget

-----------------------------------------------------------------------------
(* The instance that is checked: every delegation graph over four addresses. *)
(* Stakes are powers of two, so equal sums are sums over equal sets.        *)
CONSTANTS a1, a2, a3, a4

MCGuardianLists == {<<a1>>, <<a2, a1>>, <<a1, a4>>}
MCBallots       == {{}, {a3}, {a3, a4}}
MCStakeOfAll    == a1 :> 1 @@ a2 :> 2 @@ a3 :> 4 @@ a4 :> 8 @@ EmptyAddress :> 0
MCCandidates    == <<a3, a4>>
MCListed        == <<a4, a3, a2, a3, a1>>

=============================================================================
