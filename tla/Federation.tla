----------------------------- MODULE Federation -----------------------------
(***************************************************************************)
(* The federation (Federation.sol): the nodes that sign the blocks of the   *)
(* Orbs chain, and who they were at each earlier revision, so that a proof  *)
(* can be checked against those that were in force when it was made.        *)
(*                                                                         *)
(* The owner adds and removes members, which begins a new revision.  The    *)
(* step of a removal that closes the gap, removeMemberByIndex, is public    *)
(* too: whoever calls it takes a member, also the last, off the present     *)
(* revision without beginning another.                                      *)
(***************************************************************************)
EXTENDS Integers, SequencesExt, FiniteSetsExt

CONSTANTS
  Nodes,
  MAX_FEDERATION_MEMBERS,
  FirstMembers,  \* the lists with which the contract may be deployed
  MaxRevision    \* bound: changes of the federation

ASSUME FederationAssumption ==
  /\ MAX_FEDERATION_MEMBERS \in Nat \ {0} /\ MaxRevision \in Nat
  /\ FirstMembers \subseteq Seq(Nodes)

VARIABLES
  members,
  federationRevision,
  membersByRevision  \* of the revisions before: revision r is at r + 1

federationVars == <<members, federationRevision, membersByRevision>>

IsFederationMembersListValid(list) ==
  /\ 0 < Len(list) /\ Len(list) <= MAX_FEDERATION_MEMBERS
  /\ IsInjective(list)

GetMembersByRevision(r) ==
  IF r = federationRevision THEN members
  ELSE IF r + 1 \in DOMAIN membersByRevision THEN membersByRevision[r + 1] ELSE <<>>

IsMemberByRevision(r, node) == Contains(GetMembersByRevision(r), node)

(* Two thirds, rounded up.                                                  *)
GetConsensusThresholdByRevision(r) == (2 * Len(GetMembersByRevision(r)) + 2) \div 3

FederationInit ==
  /\ members \in FirstMembers /\ IsFederationMembersListValid(members)
  /\ federationRevision = 0 /\ membersByRevision = <<>>

(* The contract stores the members under the revision that ends, not under  *)
(* the one that begins.                                                     *)
NextRevisionStoringTheNew(list) ==
  /\ federationRevision < MaxRevision
  /\ membersByRevision' = Append(membersByRevision, list)
  /\ federationRevision' = federationRevision + 1
  /\ members' = list

NextRevision(list) ==
  /\ federationRevision < MaxRevision
  /\ membersByRevision' = Append(membersByRevision, members)
  /\ federationRevision' = federationRevision + 1
  /\ members' = list

AddMember(node) ==
  /\ Len(members) + 1 <= MAX_FEDERATION_MEMBERS
  /\ ~Contains(members, node)
  /\ NextRevision(Append(members, node))

RemoveMember(node) ==
  /\ Len(members) > 1
  /\ \E i \in DOMAIN members :
       members[i] = node /\ NextRevision(RemoveAt(members, i))

(* The index is looked at, the caller is not.                               *)
RemoveMemberByIndex(i) ==
  /\ i \in DOMAIN members
  /\ members' = RemoveAt(members, i)
  /\ UNCHANGED <<federationRevision, membersByRevision>>

ChangeFederation ==
  \/ \E node \in Nodes : AddMember(node) \/ RemoveMember(node)
  \/ \E i \in DOMAIN members : RemoveMemberByIndex(i)

-----------------------------------------------------------------------------
(* No revision, of now or before, ever has somebody twice or more members   *)
(* than there may be.  It may have nobody: removeMemberByIndex removes the  *)
(* last one too, which the constructor and removeMember refuse.             *)
RevisionsAreValid ==
  \A r \in 0..federationRevision :
    /\ Len(GetMembersByRevision(r)) <= MAX_FEDERATION_MEMBERS
    /\ IsInjective(GetMembersByRevision(r))

(* Who was in the federation at a revision that has ended never changes,    *)
(* nor when the present one ends; the present one may lose members before   *)
(* (removeMemberByIndex) and never gets others.  So a proof that was not    *)
(* good at an ended revision never becomes so, and a good one stays good.   *)
RevisionsAreKept ==
  [][\A r \in 0..federationRevision :
       \/ GetMembersByRevision(r)' = GetMembersByRevision(r)
       \/ /\ r = federationRevision /\ UNCHANGED federationRevision
          /\ ToSet(GetMembersByRevision(r)') \subseteq ToSet(GetMembersByRevision(r))]_federationVars

=============================================================================
