-------------------------- MODULE DelegationMirror --------------------------
(***************************************************************************)
(* The delegation mirror of the Elections contract (mirror_delegate.go).    *)
(*                                                                         *)
(* Ethereum emits two kinds of delegation events: Delegate, by the voting   *)
(* contract, and Transfer, by the token when exactly 0.07 ORBS move.        *)
(* Agents copy the events to Orbs one transaction at a time, in any order   *)
(* and as often as they like.  The contract keeps one record per delegator  *)
(* and the list of the delegators it has ever seen.                         *)
(*                                                                         *)
(* A call that panics leaves the contract's state as it was: it is a step   *)
(* that changes nothing here except the history variable offered.           *)
(***************************************************************************)
EXTENDS Accounts, Integers, Sequences

CONSTANTS
  DelegationEvents,          \* every event Ethereum ever emits
  DelegationByTransferValue, \* DELEGATION_BY_TRANSFER_VALUE, 0.07 ORBS
  MaxBlock                   \* bound: the last Ethereum block considered

DelegateMethod == "Delegate"    \* DELEGATION_NAME
TransferMethod == "Transfer"    \* DELEGATION_BY_TRANSFER_NAME
NoMethod       == ""

Block == 0 .. MaxBlock

(* An event as ethereum.GetTransactionLog returns it: value is the amount   *)
(* moved, and means nothing for a Delegate event.                           *)
DelegationEvent ==
  [delegator : Address, agent : Address, value : Nat,
   block : Block \ {0}, tx : Nat, method : {DelegateMethod, TransferMethod}]

ASSUME EventsAssumption == DelegationEvents \subseteq DelegationEvent
ASSUME MaxBlockAssumption == MaxBlock \in Nat

(* A transaction has one position in the chain, and GetTransactionLog reads *)
(* one log of a name from it: position and name determine the event.        *)
ASSUME EventIdentityAssumption ==
  \A e, f \in DelegationEvents :
    e.method = f.method /\ e.block = f.block /\ e.tx = f.tx => e = f

VARIABLES
  delegators,   \* Delegator_Address_<i>: the list of delegators
  delegation,   \* Delegator_<address>_{Agent,BlockNumber,BlockTxIndex,Method}
  offered       \* history: the admissible events that were submitted

mirrorVars == <<delegators, delegation, offered>>

DelegationRecord ==
  [agent : Account, block : Block, tx : Nat,
   method : {NoMethod, DelegateMethod, TransferMethod}]

(* What a delegator's keys read as before anything is written to them.      *)
NoDelegation == [agent |-> EmptyAddress, block |-> 0, tx |-> 0, method |-> NoMethod]

MirrorInit ==
  /\ delegators = <<>>
  /\ delegation = [d \in Address |-> NoDelegation]
  /\ offered = {}

-----------------------------------------------------------------------------
(* _mirrorDelegationData                                                    *)

(* Delegating to oneself cancels: the agent is stored as the zero address.  *)
StoredAgent(e) == IF e.agent = e.delegator THEN EmptyAddress ELSE e.agent

RecordOf(e) ==
  [agent |-> StoredAgent(e), block |-> e.block, tx |-> e.tx, method |-> e.method]

(* The record old gives way to the event e.  A Delegate is never replaced   *)
(* by a Transfer and always replaces one, whatever their blocks; within a   *)
(* method the later position on Ethereum wins.                              *)
SupersedesByPositionOnly(e, old) ==
  \/ old.method = NoMethod
  \/ old.block < e.block
  \/ old.block = e.block /\ old.tx < e.tx

Supersedes(e, old) ==
  \/ old.method = NoMethod
  \/ old.method = TransferMethod /\ e.method = DelegateMethod
  \/ /\ old.method = e.method
     /\ old.block < e.block \/ (old.block = e.block /\ old.tx < e.tx)

(* stateBlockNumber: zero tells a delegator the contract has not seen.      *)
StateBlockNumber(e, old) ==
  IF old.method = TransferMethod /\ e.method = DelegateMethod
    THEN e.block
    ELSE IF old.method = e.method THEN old.block ELSE 0

WriteDelegation(e) ==
  /\ delegators' = IF StateBlockNumber(e, delegation[e.delegator]) = 0
                     THEN Append(delegators, e.delegator)
                     ELSE delegators
  /\ delegation' = [delegation EXCEPT ![e.delegator] = RecordOf(e)]

MirrorDelegationData(e) ==
  \/ Supersedes(e, delegation[e.delegator]) /\ WriteDelegation(e)
  \/ ~Supersedes(e, delegation[e.delegator]) /\ UNCHANGED <<delegators, delegation>>

-----------------------------------------------------------------------------
(* The two public methods, called while the current election is at block    *)
(* electionBlock.  An event after that block panics before it is looked at. *)

MirrorDelegateImpl(e, electionBlock) ==
  /\ e.block <= electionBlock
  /\ offered' = offered \cup {e}
  /\ MirrorDelegationData(e)

MirrorDelegation(e, electionBlock) ==
  /\ e.method = DelegateMethod
  /\ MirrorDelegateImpl(e, electionBlock)

IsDelegationValue(e) == e.value = DelegationByTransferValue

MirrorAnyTransfer(e, electionBlock) ==
  /\ e.method = TransferMethod
  /\ MirrorDelegateImpl(e, electionBlock)

MirrorDelegationByTransfer(e, electionBlock) ==
  /\ e.method = TransferMethod
  /\ IsDelegationValue(e)
  /\ MirrorDelegateImpl(e, electionBlock)

(* On its own the mirror may meet any sequence of election blocks.          *)
MirrorNext ==
  \E e \in DelegationEvents, electionBlock \in Block :
    \/ MirrorDelegation(e, electionBlock)
    \/ MirrorDelegationByTransfer(e, electionBlock)

MirrorSpec == MirrorInit /\ [][MirrorNext]_mirrorVars

-----------------------------------------------------------------------------
(* The mirror's variables keep their types.                                 *)
MirrorTypeOK ==
  /\ delegators \in Seq(Address)
  /\ delegation \in [Address -> DelegationRecord]
  /\ offered \subseteq DelegationEvents

(* e comes before f in the order in which delegations win, whichever of     *)
(* them reaches Orbs first.                                                 *)
Weaker(e, f) ==
  \/ e.method = TransferMethod /\ f.method = DelegateMethod
  \/ /\ e.method = f.method
     /\ e.block < f.block \/ (e.block = f.block /\ e.tx < f.tx)

OfferedBy(d) == {e \in offered : e.delegator = d}

(* Whatever the order and the repetitions in which agents submit events,    *)
(* a delegator's record is that of the strongest event submitted: the       *)
(* latest Delegate if there is one, else the latest 0.07 ORBS transfer.     *)
StrongestDelegationWins ==
  \A d \in Address :
    IF OfferedBy(d) = {}
      THEN delegation[d] = NoDelegation
      ELSE \E e \in OfferedBy(d) :
             /\ delegation[d] = RecordOf(e)
             /\ \A f \in OfferedBy(d) \ {e} : Weaker(f, e)

(* The list holds each delegator that has a record exactly once: a          *)
(* delegator listed twice would be read and paid twice in an election, one  *)
(* left out would lose its stake's vote.                                    *)
DelegatorsListedOnce ==
  /\ {delegators[i] : i \in DOMAIN delegators} =
       {d \in Address : delegation[d].method # NoMethod}
  /\ \A i, j \in DOMAIN delegators : delegators[i] = delegators[j] => i = j

(* Beats(e, f): e wins over f.                                              *)
Beats(e, f) == Weaker(f, e)

Register ==
  INSTANCE DelegationRegister WITH
    Events <- {e \in DelegationEvents : e.method = TransferMethod => IsDelegationValue(e)},
    Record <- RecordOf,
    Nothing <- NoDelegation,
    Beats <- Beats,
    offers <- offered,
    register <- delegation

(* The mirror is such a register: mirrored in any order, with repetitions   *)
(* and rejections, it shows what the events mirrored in Ethereum's order    *)
(* would have left, and a transfer of another amount is never one of them.  *)
ImplementsRegister == Register!Spec

=============================================================================
