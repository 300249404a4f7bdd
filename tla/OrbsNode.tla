------------------------------ MODULE OrbsNode ------------------------------
(***************************************************************************)
(* What the web client shows of an Orbs node: OrbsNodeStore asks            *)
(* OrbsNodeService whether the node is in sync (two fetches), reads its     *)
(* state (a third), and the guardians' table shows that state with the      *)
(* delegators' cuts, read one after the other.  The node goes on between    *)
(* the fetches, and each of them is retried.  One field of the modelled     *)
(* system state is a history: RefTime, the reference time of what it was    *)
(* made from.  systemState.ts does not keep it and nothing reads it.        *)
(***************************************************************************)
EXTENDS Integers, SequencesExt, FiniteSetsExt

CONSTANTS
  NodeGuardians,             \* those the node knows, each its own address
  Committees,                \* the committees there may be
  Stake,                     \* of each: EffectiveStake, SelfStake and DelegatedStake
  Certified,                 \* those with IdentityType 1
  StandBy,                   \* those on standby while not in the committee
  FirstEvents,               \* the committee events the node starts with
  ACCEPTED_RANGE_IN_SECONDS, \* how old a reference time may be
  TIME_RANGE_IN_SECONDS,     \* the window of the participation
  MIN_SELF_STAKE_PERCENTAGE, \* 8 in the code
  FETCH_RETRIES,             \* 3 in the code
  MaxClock                   \* bound: the time

(* The node's events are in order and its committees are of its guardians.  *)
ASSUME NodeAssumption ==
  /\ {ACCEPTED_RANGE_IN_SECONDS, TIME_RANGE_IN_SECONDS, MaxClock} \subseteq Nat
  /\ Committees \subseteq SUBSET NodeGuardians
  /\ \A first \in FirstEvents :
       /\ first \in Seq([RefTime : Nat, Committee : SUBSET NodeGuardians])
       /\ \A i, j \in DOMAIN first : i < j => first[i].RefTime <= first[j].RefTime

VARIABLES
  clock,
  refTime,      \* CurrentRefTime of the management service
  writerInSync, \* VchainSyncStatus of the ethereum writer
  events,       \* CommitteeEvents: [RefTime, Committee]
  store,        \* OrbsNodeStore and the request it waits for
  cuts          \* useGuardiansDelegatorsCut: [at, left, read, shown]

nodeVars == <<clock, refTime, writerInSync, events, store, cuts>>

-----------------------------------------------------------------------------
(* Addresses: the node gives those of the committee without 0x, as the keys *)
(* of its guardians; the store prefixes those of the guardians.             *)

Bare(g) == <<g>>
EnsurePrefix(a) == IF Len(a) = 1 THEN <<"0x">> \o a ELSE a

CurrentCommittee == IF events = <<>> THEN {} ELSE Last(events).Committee

ManagementStatus ==
  [CurrentRefTime |-> refTime,
   CurrentCommittee |-> CurrentCommittee,
   CurrentCandidates |-> [g \in NodeGuardians \ CurrentCommittee |-> g \in StandBy],
   CommitteeEvents |-> events]

-----------------------------------------------------------------------------
(* The processing of a status                                               *)

(* The time before an event counts for the committee of that event.         *)
Participation(g, all, now) ==
  LET window == {i \in DOMAIN all : all[i].RefTime >= now - TIME_RANGE_IN_SECONDS}
      At(k) == CHOOSE i \in window : Cardinality({j \in window : j <= i}) = k
      recent == [k \in 1..Cardinality(window) |-> all[At(k)]]
      counted == {i \in 2..Len(recent) : g \in recent[i].Committee}
  IN [time |-> SumFunction([i \in counted |-> recent[i].RefTime - recent[i - 1].RefTime]),
      total |-> Last(recent).RefTime - Head(recent).RefTime]

(* The delegated stake as a share of what the own stake allows, in percent; *)
(* a quotient, kept as one because the own stake may be zero.               *)
Capacity(stake) ==
  [delegated |-> stake.DelegatedStake * MIN_SELF_STAKE_PERCENTAGE, own |-> stake.SelfStake]

ExtractGuardians(status, now) ==
  [g \in NodeGuardians |->
     [EthAddress |-> EnsurePrefix(Bare(g)), Stake |-> Stake[g], IsCertified |-> g \in Certified,
      Participation |-> Participation(g, status.CommitteeEvents, now),
      Capacity |-> Capacity(Stake[g])]]

(* Without an event in the window the participation cannot be computed: the *)
(* first and the last event are undefined and reading them throws.          *)
CanBeProcessed(status, now) ==
  \E i \in DOMAIN status.CommitteeEvents :
    status.CommitteeEvents[i].RefTime >= now - TIME_RANGE_IN_SECONDS

UpdateSystemState(status, now) ==
  LET guardians == ExtractGuardians(status, now)
      candidates == status.CurrentCandidates
      standby == {g \in DOMAIN candidates : candidates[g]}
  IN [CommitteeNodes |-> [g \in status.CurrentCommittee |-> guardians[g]],
      StandByNodes |-> [g \in standby |-> guardians[g]],
      RefTime |-> status.CurrentRefTime]  \* history

IsInSync(time, inSync, now) ==
  inSync /\ time >= now - ACCEPTED_RANGE_IN_SECONDS

-----------------------------------------------------------------------------
(* OrbsNodeStore                                                            *)

NoState == [CommitteeNodes |-> <<>>, StandByNodes |-> <<>>, RefTime |-> 0]

NodeInit ==
  /\ clock \in {MaxClock - 1, MaxClock - 2} /\ refTime \in {0, MaxClock - 2} /\ refTime <= clock
  /\ writerInSync \in BOOLEAN /\ events \in FirstEvents
  /\ store = [at |-> "management", tries |-> 0, seen |-> 0, checkedAt |-> 0,
              systemState |-> NoState, committeeMembers |-> {},
              doneLoading |-> FALSE, errorLoading |-> FALSE]
  /\ cuts = [at |-> "idle", left |-> {}, read |-> {}, shown |-> {}]

(* The node goes on: time, a block, a committee, the writer.                *)
NodeLives ==
  /\ \/ clock < MaxClock /\ clock' = clock + 1 /\ UNCHANGED <<refTime, events, writerInSync>>
     \/ refTime < clock /\ refTime' = clock /\ UNCHANGED <<clock, events, writerInSync>>
     \/ /\ events # <<>> /\ Last(events).RefTime < refTime
        /\ \E c \in Committees : events' = Append(events, [RefTime |-> refTime, Committee |-> c])
        /\ UNCHANGED <<clock, refTime, writerInSync>>
     \/ writerInSync' = ~writerInSync /\ UNCHANGED <<clock, refTime, events>>
  /\ UNCHANGED <<store, cuts>>

ErrorLoading == [store EXCEPT !.at = "settled", !.errorLoading = TRUE]

(* No committee node is looked for: null is destructured.                   *)
FindSyncedCommitteeAndReadData == ErrorLoading

FetchFails ==
  /\ store.at \in {"management", "writer", "read"}
  /\ store' = IF store.tries < FETCH_RETRIES THEN [store EXCEPT !.tries = @ + 1]
              ELSE FindSyncedCommitteeAndReadData
  /\ UNCHANGED <<clock, refTime, writerInSync, events, cuts>>

FetchNodeManagementStatus ==
  /\ store.at = "management"
  /\ store' = [store EXCEPT !.at = "writer", !.tries = 0,
                            !.seen = ManagementStatus.CurrentRefTime]
  /\ UNCHANGED <<clock, refTime, writerInSync, events, cuts>>

FetchNodeEthereumWriterStatus ==
  /\ store.at = "writer"
  /\ store' = IF IsInSync(store.seen, writerInSync, clock)
              THEN [store EXCEPT !.at = "read", !.tries = 0, !.checkedAt = clock]
              ELSE FindSyncedCommitteeAndReadData
  /\ UNCHANGED <<clock, refTime, writerInSync, events, cuts>>

ReadAndProcessSystemState ==
  /\ store.at = "read"
  /\ IF CanBeProcessed(ManagementStatus, clock)
     THEN /\ store' = [store EXCEPT !.at = "settled", !.doneLoading = TRUE,
                         !.systemState = UpdateSystemState(ManagementStatus, clock),
                         !.committeeMembers = ManagementStatus.CurrentCommittee]
          /\ cuts' = [cuts EXCEPT !.at = "reading", !.left = NodeGuardians]
     ELSE store' = FindSyncedCommitteeAndReadData /\ UNCHANGED cuts
  /\ UNCHANGED <<clock, refTime, writerInSync, events>>

(* computed: guardians                                                      *)
StoreGuardians ==
  LET s == store.systemState
  IN {s.CommitteeNodes[g] : g \in DOMAIN s.CommitteeNodes}
       \cup {s.StandByNodes[g] : g \in DOMAIN s.StandByNodes}

(* One cut after the other; they are shown together, or not at all.         *)
ReadDelegatorsCut ==
  /\ cuts.at = "reading"
  /\ \/ \E g \in cuts.left :
          cuts' = IF cuts.left = {g}
                  THEN [at |-> "idle", left |-> {}, read |-> {}, shown |-> cuts.read \cup {g}]
                  ELSE [cuts EXCEPT !.left = @ \ {g}, !.read = @ \cup {g}]
     \/ cuts' = [at |-> "idle", left |-> {}, read |-> {}, shown |-> {}]
  /\ UNCHANGED <<clock, refTime, writerInSync, events, store>>

NodeNext ==
  \/ NodeLives \/ FetchFails \/ FetchNodeManagementStatus \/ FetchNodeEthereumWriterStatus
  \/ ReadAndProcessSystemState \/ ReadDelegatorsCut

NodeSpec == NodeInit /\ [][NodeNext]_nodeVars

StoreFairness ==
  WF_nodeVars(FetchFails \/ FetchNodeManagementStatus \/ FetchNodeEthereumWriterStatus
                \/ ReadAndProcessSystemState)

-----------------------------------------------------------------------------
(* A state is only shown of a node that was in sync: what is shown is no    *)
(* older than the accepted range was when it was checked, though it is read *)
(* by a later fetch than the one that was checked.                          *)
ShownWasInSync ==
  store.doneLoading => store.systemState.RefTime >= store.checkedAt - ACCEPTED_RANGE_IN_SECONDS

(* The store ends in data or in an error, and not in both.                  *)
StoreSettles == <>[](store.doneLoading # store.errorLoading)

=============================================================================
