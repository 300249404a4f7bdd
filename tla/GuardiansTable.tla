--------------------------- MODULE GuardiansTable ---------------------------
(***************************************************************************)
(* The guardians' table: one row for each guardian of the store, with the   *)
(* icon and the tooltip of its qualifications, the cut of its delegators,   *)
(* its stake, and two bars coloured by participation and by capacity.       *)
(* Names, addresses, web sites and the order of the rows are left out.      *)
(***************************************************************************)
EXTENDS OrbsNode

(* The committee is looked up by address, which the node gives without 0x.  *)
IsCommitteeMember(guardian) ==
  \E member \in store.committeeMembers : EnsurePrefix(Bare(member)) = guardian.EthAddress

GuardianQualifications(guardian) ==
  IF ~IsCommitteeMember(guardian) THEN "guardian"
  ELSE IF guardian.IsCertified THEN "certified committee" ELSE "committee"

GuardianQualificationsTooltip(guardian) ==
  [inCommittee |-> IsCommitteeMember(guardian),
   note |-> ~IsCommitteeMember(guardian),
   certified |-> guardian.IsCertified]

HasCut(guardian) == \E g \in cuts.shown : EnsurePrefix(Bare(g)) = guardian.EthAddress

EffectiveStakeCell(guardian) == guardian.Stake.EffectiveStake

(* Without a time between the first and the last event of the window the    *)
(* percentage is NaN, which no comparison puts below a limit.               *)
ParticipationColour(share) ==
  IF share.total > 0 /\ 100 * share.time <= 30 * share.total THEN "red"
  ELSE IF share.total > 0 /\ 100 * share.time <= 80 * share.total THEN "yellow"
  ELSE "green"

(* Without a stake of its own the capacity is infinite or NaN.              *)
CapacityColour(capacity) ==
  IF capacity.own > 0 /\ capacity.delegated <= 30 * capacity.own THEN "green"
  ELSE IF capacity.own > 0 /\ capacity.delegated <= 80 * capacity.own THEN "yellow"
  ELSE "red"

Row(guardian) ==
  [address |-> guardian.EthAddress,
   icon |-> GuardianQualifications(guardian),
   tooltip |-> GuardianQualificationsTooltip(guardian),
   cut |-> HasCut(guardian),
   stake |-> EffectiveStakeCell(guardian),
   participation |-> ParticipationColour(guardian.Participation),
   capacity |-> CapacityColour(guardian.Capacity)]

(* The page shows the table once the store is done.                         *)
Table == {Row(guardian) : guardian \in {g \in StoreGuardians : store.doneLoading}}

-----------------------------------------------------------------------------
(* Participation is a share of the window, whatever happened before it:     *)
(* all of it for whom every committee after the window's first event        *)
(* includes, none for whom none does.                                       *)
ParticipationIsAShare ==
  CanBeProcessed(ManagementStatus, clock) =>
    LET window == {i \in DOMAIN events : events[i].RefTime >= clock - TIME_RANGE_IN_SECONDS}
        later == window \ {Min(window)}
    IN \A g \in NodeGuardians :
         LET p == Participation(g, events, clock)
         IN /\ p.time \in 0..p.total
            /\ (\A i \in later : g \in events[i].Committee) => p.time = p.total
            /\ (\A i \in later : g \notin events[i].Committee) => p.time = 0

(* The committee's icons and the committee's nodes agree: a row has the     *)
(* icon of a committee member, and no note that it earns nothing, just if   *)
(* the store counts its guardian in the committee, though the two come with *)
(* and without the prefix.                                                  *)
IconsAreTheCommittees ==
  \A row \in Table :
    LET nodes == store.systemState.CommitteeNodes
        inCommittee == \E g \in DOMAIN nodes : nodes[g].EthAddress = row.address
    IN /\ (row.icon # "guardian") <=> inCommittee
       /\ row.tooltip.note <=> ~inCommittee

(* The rows have a cut all or none: one that cannot be read hides those of  *)
(* the others, and none is shown before the last is there.                  *)
CutsComeTogether == \A row, other \in Table : row.cut <=> other.cut

(* The table is of a node in sync, and its cells agree with the node's      *)
(* committee and events and with each other.                                *)
TableShowsTheNode ==
  /\ ShownWasInSync
  /\ ParticipationIsAShare
  /\ IconsAreTheCommittees
  /\ CutsComeTogether

=============================================================================
