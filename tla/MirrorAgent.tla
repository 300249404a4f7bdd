----------------------------- MODULE MirrorAgent -----------------------------
(***************************************************************************)
(* The mirroring agent (voting/processor/mirror.js) at work on the          *)
(* delegation mirror of the Elections contract.                             *)
(*                                                                         *)
(* A run looks for delegation events in a window of Ethereum blocks, range  *)
(* by range.  For the transfers of a range and then for its Delegate events *)
(* it keeps each delegator's latest, asks the contract by a query which of  *)
(* these are new, and sends those.  Anything that throws makes it go over   *)
(* the range again in smaller ranges.  Meanwhile Ethereum goes on, the      *)
(* election may begin and end, and other agents mirror as well.             *)
(***************************************************************************)
EXTENDS DelegationMirror, FiniteSets

CONSTANTS
  MirrorPeriod, ElectionPeriod,
  Pace,         \* paceEthereum, 10000 blocks
  SlowDown,     \* the factor by which pace shrinks, 10
  MinPace,      \* the pace under which the agent gives up, 20
  LookBack      \* the blocks a run looks back, 10000

ASSUME PaceAssumption ==
  /\ {Pace, SlowDown, MinPace, ElectionPeriod} \subseteq Nat \ {0}
  /\ {MirrorPeriod, LookBack} \subseteq Nat
  /\ SlowDown > 1 /\ MinPace >= SlowDown

(* A chain has finitely many transactions.                                  *)
ASSUME EventsAreFinite == IsFiniteSet(DelegationEvents)

VARIABLES
  ethBlock,      \* the latest block final for Orbs
  electionBlock, \* getCurrentElectionBlockNumber
  processing,    \* the election's processing has begun
  stage,         \* what the run is doing
  window,        \* [from, to]: startBlock and endBlock of the run
  todo,          \* the ranges still to be searched, with their pace
  found,         \* events of the range at hand still to be queried
  newEvents,     \* events the contract reported as new, still to be sent
  mirroredTo,    \* history: the block up to which a complete run has looked
  undisturbed    \* history: no transaction of the run was lost or refused

chainVars == <<ethBlock, electionBlock, processing>>
runVars == <<stage, window, todo, found, newEvents, mirroredTo, undisturbed>>
mirrorAgentVars == <<mirrorVars, chainVars, runVars>>

MirrorAgentInit ==
  /\ MirrorInit
  /\ ethBlock = 0 /\ electionBlock = ElectionPeriod /\ processing = FALSE
  /\ stage = "idle"
  /\ window = [from |-> 0, to |-> 0]
  /\ todo = <<>> /\ found = {} /\ newEvents = {}
  /\ mirroredTo = 0 /\ undisturbed = TRUE

-----------------------------------------------------------------------------
(* The chains and the other agents.                                         *)

AdvanceEthereum ==
  /\ ethBlock < MaxBlock
  /\ ethBlock' = ethBlock + 1
  /\ UNCHANGED <<mirrorVars, electionBlock, processing, runVars>>

IsProcessingPeriod == processing \/ ethBlock >= electionBlock + MirrorPeriod

BeginProcessing ==
  /\ ~processing /\ IsProcessingPeriod
  /\ processing' = TRUE
  /\ UNCHANGED <<mirrorVars, ethBlock, electionBlock, runVars>>

ConcludeElection ==
  /\ processing
  /\ processing' = FALSE /\ electionBlock' = electionBlock + ElectionPeriod
  /\ UNCHANGED <<mirrorVars, ethBlock, runVars>>

(* A transaction with event e is executed by the contract.                  *)
Accepts(e) == ~processing /\ e.block <= ethBlock /\ e.block <= electionBlock
Execute(e) == MirrorDelegation(e, electionBlock) \/ MirrorDelegationByTransfer(e, electionBlock)

OtherAgentMirrors ==
  /\ \E e \in DelegationEvents : Accepts(e) /\ Execute(e)
  /\ UNCHANGED <<chainVars, runVars>>

-----------------------------------------------------------------------------
(* A run                                                                    *)

EventsIn(from, to, method) ==
  {e \in DelegationEvents : /\ e.method = method /\ e.block \in from .. to
                            /\ method = TransferMethod => IsDelegationValue(e)}

(* findDelegateByTransferEvents.js, findDelegateEvents.js: of each          *)
(* delegator's events the latest.                                           *)
IsNewer(e, f) == e.block > f.block \/ (e.block = f.block /\ e.tx > f.tx)

EarliestOfEach(events) ==
  {e \in events : \A f \in events : f.delegator = e.delegator => ~IsNewer(e, f)}

LatestOfEach(events) ==
  {e \in events : \A f \in events : f.delegator = e.delegator => ~IsNewer(f, e)}

(* iterateOverEvents cuts [from, to] into ranges that share their border.   *)
RangesOf(from, to, pace) ==
  [i \in 1 .. (to - from + pace - 1) \div pace |->
     [from |-> from + (i - 1) * pace,
      to |-> IF from + i * pace < to THEN from + i * pace ELSE to,
      pace |-> pace]]

(* main: not while an election is processed.  The window ends at the        *)
(* latest block and not after the coming election; it begins where the      *)
(* first events are (FORCE_RUN) or some blocks before its end.              *)
StartRun ==
  /\ stage = "idle"
  /\ ~IsProcessingPeriod
  /\ LET to == IF ethBlock > electionBlock THEN electionBlock ELSE ethBlock
     IN  \E from \in {0, IF ethBlock > LookBack THEN ethBlock - LookBack ELSE 0} :
           /\ window' = [from |-> from, to |-> to]
           /\ todo' = IF from < to THEN RangesOf(from, to, Pace) ELSE <<>>
  /\ stage' = "transfers"
  /\ undisturbed' = TRUE
  /\ UNCHANGED <<mirrorVars, chainVars, found, newEvents, mirroredTo>>

Searching == {"transfers", "delegates"}

MethodSearched == IF stage = "transfers" THEN TransferMethod ELSE DelegateMethod

(* transferEvents, delegateEvents: fetch the events of the range.           *)
FetchEvents ==
  /\ stage \in Searching /\ todo # <<>>
  /\ found' = LatestOfEach(EventsIn(todo[1].from, todo[1].to, MethodSearched))
  /\ stage' = IF stage = "transfers" THEN "queryTransfers" ELSE "queryDelegates"
  /\ UNCHANGED <<mirrorVars, chainVars, window, todo, newEvents, mirroredTo, undisturbed>>

Querying == {"queryTransfers", "queryDelegates"}

(* findNewEvents: a query runs the mirror function without the right to     *)
(* write.  It is new if it came to the point of writing, old if it was      *)
(* refused for the delegation in place.                                     *)
QueryEvent ==
  /\ stage \in Querying
  /\ \E e \in found :
       /\ Accepts(e)
       /\ found' = found \ {e}
       /\ newEvents' = IF Supersedes(e, delegation[e.delegator])
                         THEN newEvents \cup {e} ELSE newEvents
  /\ UNCHANGED <<mirrorVars, chainVars, stage, window, todo, mirroredTo, undisturbed>>

RetryAtSamePace ==
  /\ stage \in Searching \cup Querying /\ todo # <<>>
  /\ todo[1].pace >= MinPace
  /\ found' = {} /\ newEvents' = {}
  /\ stage' = "transfers"
  /\ UNCHANGED <<mirrorVars, chainVars, window, todo, mirroredTo, undisturbed>>

(* An error of Ethereum, of the network, or a refusal that is not expected, *)
(* as when the processing has begun: the range is searched again, slower.   *)
RetrySlower ==
  /\ stage \in Searching \cup Querying /\ todo # <<>>
  /\ todo[1].pace >= MinPace
  /\ LET r == todo[1]
     IN  todo' = RangesOf(r.from, r.to, r.pace \div SlowDown) \o Tail(todo)
  /\ found' = {} /\ newEvents' = {}
  /\ stage' = "transfers"
  /\ UNCHANGED <<mirrorVars, chainVars, window, mirroredTo, undisturbed>>

(* At the smallest pace the agent raises an alarm and exits.                *)
GiveUp ==
  /\ stage \in Searching \cup Querying /\ todo # <<>>
  /\ todo[1].pace < MinPace
  /\ stage' = "idle" /\ todo' = <<>> /\ found' = {} /\ newEvents' = {}
  /\ UNCHANGED <<mirrorVars, chainVars, window, mirroredTo, undisturbed>>

(* sendEventsBatch.  The answers are not looked at: a transaction may be    *)
(* executed, refused or lost, and the run goes on.                          *)
SendEvent ==
  /\ stage \in Querying /\ found = {}
  /\ \E e \in newEvents :
       /\ newEvents' = newEvents \ {e}
       /\ \/ Accepts(e) /\ Execute(e) /\ UNCHANGED undisturbed
          \/ UNCHANGED mirrorVars /\ undisturbed' = FALSE
  /\ UNCHANGED <<chainVars, stage, window, todo, found, mirroredTo>>

(* The range's transfers are done, then its delegations.                    *)
FinishRange ==
  /\ stage \in Querying /\ found = {} /\ newEvents = {}
  /\ IF stage = "queryTransfers"
       THEN stage' = "delegates" /\ UNCHANGED todo
       ELSE stage' = "transfers" /\ todo' = Tail(todo)
  /\ UNCHANGED <<mirrorVars, chainVars, window, found, newEvents, mirroredTo, undisturbed>>

FinishRun ==
  /\ stage = "transfers" /\ todo = <<>>
  /\ stage' = "idle"
  /\ mirroredTo' = IF undisturbed /\ window.from <= mirroredTo /\ mirroredTo < window.to
                     THEN window.to ELSE mirroredTo
  /\ UNCHANGED <<mirrorVars, chainVars, window, todo, found, newEvents, undisturbed>>

Run == StartRun \/ FetchEvents \/ QueryEvent \/ RetrySlower \/ GiveUp \/ SendEvent
       \/ FinishRange \/ FinishRun

MirrorAgentNext == AdvanceEthereum \/ BeginProcessing \/ ConcludeElection \/ OtherAgentMirrors \/ Run

(* The job's own steps are taken; the chains need not move.                 *)
MirrorAgentFairness == WF_mirrorAgentVars(Run)

MirrorAgentSpec == MirrorAgentInit /\ [][MirrorAgentNext]_mirrorAgentVars /\ MirrorAgentFairness

-----------------------------------------------------------------------------
RangeOfBlocks == [from : Nat, to : Nat, pace : Nat \ {0}]

AgentTypeOK ==
  /\ MirrorTypeOK
  /\ {ethBlock, electionBlock, mirroredTo} \subseteq Nat
  /\ stage \in {"idle"} \cup Searching \cup Querying
  /\ window \in [from : Nat, to : Nat]
  /\ todo \in Seq(RangeOfBlocks)
  /\ found \cup newEvents \subseteq DelegationEvents

(* What is left for a delegator once event e need not be mirrored any more. *)
Mirrored(e) == ~Supersedes(e, delegation[e.delegator])

DelegationsIn(from, to) ==
  EventsIn(from, to, TransferMethod) \cup EventsIn(from, to, DelegateMethod)

(* While a run goes on undisturbed, every event of its window is in the     *)
(* contract, has given way to a stronger one there, or lies in a range      *)
(* still to be searched: no border between ranges, no retry at a slower     *)
(* pace and no other agent's transaction between query and send loses one.  *)
WindowIsCovered ==
  stage # "idle" /\ undisturbed =>
    \A e \in DelegationsIn(window.from, window.to) :
      \/ Mirrored(e)
      \/ window.from = window.to
      \/ \E i \in DOMAIN todo : e.block \in todo[i].from .. todo[i].to

(* A run that ends undisturbed and reaches back to the last one has left    *)
(* nothing behind.                                                          *)
CompleteRunsMirrorAll ==
  \A e \in DelegationsIn(0, mirroredTo) : Mirrored(e)

(* Every run ends: the ranges become smaller until they are searched or the *)
(* agent gives up.                                                          *)
RunsTerminate == stage # "idle" ~> stage = "idle"

(* No event of a window is lost, during a run or by its end.                *)
NothingIsLeftBehind == AgentTypeOK /\ WindowIsCovered /\ CompleteRunsMirrorAll

=============================================================================
