-------------------------- MODULE Elections_proofs --------------------------
(***************************************************************************)
(* Proofs about the Elections contract, for every history of Ethereum, set  *)
(* of delegation events and length of the periods, in five parts: the       *)
(* delegation mirror alone, the course of an election, what its stages      *)
(* collect, the tally and its definition, and the election as a whole.      *)
(***************************************************************************)
EXTENDS Elections, MCElectionTally, Tally_proofs, SequenceTheorems, TLAPS

-----------------------------------------------------------------------------
(* I.  The delegation mirror, for every set of addresses and of events.     *)

(* An admitted event: the guards of the two public methods together.        *)
Admissible(e) == e.method = TransferMethod => IsDelegationValue(e)

(* Either method, whatever the election's block, is an admissible event     *)
(* handed to _mirrorDelegateImpl.                                           *)
LEMMA MirrorStep ==
  ASSUME MirrorNext
  PROVE  \E e \in DelegationEvents :
           /\ Admissible(e)
           /\ offered' = offered \cup {e}
           /\ MirrorDelegationData(e)
  BY DEF MirrorNext, MirrorDelegation, MirrorDelegationByTransfer, MirrorDelegateImpl,
         Admissible, DelegateMethod, TransferMethod

LEMMA EventTyped ==
  ASSUME NEW e \in DelegationEvents
  PROVE  /\ e.delegator \in Address /\ e.agent \in Address
         /\ e.block \in Nat /\ e.block # 0 /\ e.block \in Block
         /\ e.tx \in Nat
         /\ e.method \in {DelegateMethod, TransferMethod}
  BY EventsAssumption, MaxBlockAssumption DEF DelegationEvent, Block

(* What an event is stored as is a record.                                  *)
LEMMA RecordTyped ==
  ASSUME NEW e \in DelegationEvents
  PROVE  RecordOf(e) \in DelegationRecord
  BY EventTyped DEF RecordOf, DelegationRecord, StoredAgent, Account

(* MirrorTypeOK holds in every reachable state.                             *)
THEOREM MirrorTypeCorrect == MirrorSpec => []MirrorTypeOK
<1>1. MirrorInit => MirrorTypeOK
  BY MaxBlockAssumption DEF MirrorInit, MirrorTypeOK, NoDelegation, DelegationRecord, Block, Account
<1>2. MirrorTypeOK /\ [MirrorNext]_mirrorVars => MirrorTypeOK'
  <2> SUFFICES ASSUME MirrorTypeOK, [MirrorNext]_mirrorVars
               PROVE  MirrorTypeOK'
    OBVIOUS
  <2>1. CASE UNCHANGED mirrorVars
    BY <2>1 DEF mirrorVars, MirrorTypeOK
  <2>2. CASE MirrorNext
    <3>1. PICK e \in DelegationEvents : offered' = offered \cup {e} /\ MirrorDelegationData(e)
      BY <2>2, MirrorStep
    <3>2. CASE UNCHANGED <<delegators, delegation>>
      BY <3>1, <3>2 DEF MirrorTypeOK
    <3>3. CASE WriteDelegation(e)
      <4>1. delegators' \in Seq(Address)
        BY <3>3, EventTyped DEF WriteDelegation, MirrorTypeOK
      <4>2. delegation' \in [Address -> DelegationRecord]
        BY <3>3, EventTyped, RecordTyped DEF WriteDelegation, MirrorTypeOK
      <4> QED
        BY <3>1, <4>1, <4>2 DEF MirrorTypeOK
    <3> QED
      BY <3>1, <3>2, <3>3 DEF MirrorDelegationData
  <2> QED
    BY <2>1, <2>2
<1> QED
  BY <1>1, <1>2, PTL DEF MirrorSpec

-----------------------------------------------------------------------------
(* The order of delegations is transitive.                                  *)
LEMMA WeakerTransitive ==
  ASSUME NEW e \in DelegationEvents, NEW f \in DelegationEvents, NEW g \in DelegationEvents,
         Weaker(e, f), Weaker(f, g)
  PROVE  Weaker(e, g)
  BY EventTyped DEF Weaker, DelegateMethod, TransferMethod

(* Two different events of the order are never each weaker than the other.  *)
LEMMA WeakerAsymmetric ==
  ASSUME NEW e \in DelegationEvents, NEW f \in DelegationEvents, Weaker(e, f)
  PROVE  ~Weaker(f, e)
  BY EventTyped DEF Weaker, DelegateMethod, TransferMethod

(* An event takes the place of the record of f exactly when f is weaker.    *)
LEMMA SupersedesIsWeaker ==
  ASSUME NEW e \in DelegationEvents, NEW f \in DelegationEvents
  PROVE  Supersedes(e, RecordOf(f)) <=> Weaker(f, e)
  BY EventTyped DEF Supersedes, RecordOf, Weaker, DelegateMethod, TransferMethod, NoMethod

(* Of two different events one is weaker: they differ in method or in       *)
(* position.                                                                *)
LEMMA WeakerTotal ==
  ASSUME NEW e \in DelegationEvents, NEW f \in DelegationEvents, e # f
  PROVE  Weaker(e, f) \/ Weaker(f, e)
<1>1. CASE e.method # f.method
  BY <1>1, EventTyped DEF Weaker
<1>2. CASE e.method = f.method
  <2>1. e.block # f.block \/ e.tx # f.tx
    BY <1>2, EventIdentityAssumption
  <2> QED
    BY <1>2, <2>1, EventTyped DEF Weaker
<1> QED
  BY <1>1, <1>2

(* An event that does not take a delegator's place is weaker than the one   *)
(* that holds it, or is that one again.                                     *)
LEMMA RejectedIsWeaker ==
  ASSUME NEW e \in DelegationEvents, NEW f \in DelegationEvents,
         ~Supersedes(e, RecordOf(f)), e # f
  PROVE  Weaker(e, f)
  BY SupersedesIsWeaker, WeakerTotal

-----------------------------------------------------------------------------
(* What StrongestDelegationWins says of the delegator d.                    *)
StrongestOf(d) ==
  IF OfferedBy(d) = {}
    THEN delegation[d] = NoDelegation
    ELSE \E e \in OfferedBy(d) :
           /\ delegation[d] = RecordOf(e)
           /\ \A f \in OfferedBy(d) \ {e} : Weaker(f, e)

(* An admitted event keeps the register of every delegator the strongest.   *)
LEMMA StrongestStep ==
  ASSUME MirrorTypeOK, StrongestDelegationWins,
         NEW e \in DelegationEvents,
         offered' = offered \cup {e}, MirrorDelegationData(e)
  PROVE  StrongestDelegationWins'
<1> SUFFICES ASSUME NEW d \in Address
             PROVE  StrongestOf(d)'
  BY DEF StrongestDelegationWins, StrongestOf
<1>0. StrongestOf(d)
  BY DEF StrongestDelegationWins, StrongestOf
<1>1. CASE e.delegator # d
  <2>1. OfferedBy(d)' = OfferedBy(d)
    BY <1>1 DEF OfferedBy
  <2>2. delegation[d]' = delegation[d]
    BY <1>1 DEF MirrorDelegationData, WriteDelegation, MirrorTypeOK
  <2> QED
    BY <1>0, <2>1, <2>2 DEF StrongestOf
<1>2. CASE e.delegator = d
  <2>1. OfferedBy(d)' = OfferedBy(d) \cup {e}
    BY <1>2 DEF OfferedBy
  <2>2. OfferedBy(d) \subseteq DelegationEvents
    BY DEF OfferedBy, MirrorTypeOK
  <2>3. CASE Supersedes(e, delegation[d]) /\ WriteDelegation(e)
    <3>1. delegation[d]' = RecordOf(e)
      BY <1>2, <2>3, RecordTyped DEF WriteDelegation, MirrorTypeOK
    <3>2. ASSUME NEW f \in OfferedBy(d), f # e
          PROVE  Weaker(f, e)
      <4>1. PICK g \in OfferedBy(d) : /\ delegation[d] = RecordOf(g)
                                      /\ \A h \in OfferedBy(d) \ {g} : Weaker(h, g)
        BY <1>0, <3>2 DEF StrongestOf
      <4>2. Weaker(g, e)
        BY <2>2, <2>3, <4>1, SupersedesIsWeaker
      <4> QED
        BY <2>2, <4>1, <4>2, WeakerTransitive
    <3> QED
      BY <2>1, <3>1, <3>2 DEF StrongestOf
  <2>4. CASE ~Supersedes(e, delegation[d]) /\ UNCHANGED <<delegators, delegation>>
    <3>1. OfferedBy(d) # {}
      BY <1>0, <2>4 DEF StrongestOf, Supersedes, NoDelegation
    <3>2. PICK g \in OfferedBy(d) : /\ delegation[d] = RecordOf(g)
                                    /\ \A h \in OfferedBy(d) \ {g} : Weaker(h, g)
      BY <1>0, <3>1 DEF StrongestOf
    <3>3. e # g => Weaker(e, g)
      BY <2>2, <2>4, <3>2, RejectedIsWeaker
    <3> QED
      BY <2>1, <2>4, <3>2, <3>3 DEF StrongestOf
  <2> QED
    BY <1>2, <2>3, <2>4 DEF MirrorDelegationData
<1> QED
  BY <1>1, <1>2

(* StrongestDelegationWins holds in every reachable state: the record of a  *)
(* delegator depends on which events were submitted, not on their order.    *)
THEOREM StrongestDelegationAlwaysWins == MirrorSpec => []StrongestDelegationWins
<1>1. MirrorInit => StrongestDelegationWins
  BY DEF MirrorInit, StrongestDelegationWins, OfferedBy
<1>2. /\ MirrorTypeOK /\ StrongestDelegationWins /\ [MirrorNext]_mirrorVars
      => StrongestDelegationWins'
  <2>1. ASSUME StrongestDelegationWins, UNCHANGED mirrorVars
        PROVE  StrongestDelegationWins'
    BY <2>1 DEF mirrorVars, StrongestDelegationWins, OfferedBy
  <2> QED
    BY <2>1, MirrorStep, StrongestStep
<1> QED
  BY <1>1, <1>2, MirrorTypeCorrect, PTL DEF MirrorSpec

-----------------------------------------------------------------------------
(* A record that was written carries a block that exists, so that a block   *)
(* number of zero does tell an unknown delegator.                           *)
RecordsHaveBlocks ==
  \A d \in Address : delegation[d].method = NoMethod <=> delegation[d].block = 0

LEMMA StrongestHasBlock ==
  ASSUME MirrorTypeOK, StrongestDelegationWins
  PROVE  RecordsHaveBlocks
<1> SUFFICES ASSUME NEW d \in Address
             PROVE  delegation[d].method = NoMethod <=> delegation[d].block = 0
  BY DEF RecordsHaveBlocks
<1>1. CASE OfferedBy(d) = {}
  BY <1>1 DEF StrongestDelegationWins, NoDelegation
<1>2. CASE OfferedBy(d) # {}
  <2>1. PICK e \in OfferedBy(d) : delegation[d] = RecordOf(e)
    BY <1>2 DEF StrongestDelegationWins
  <2>2. e \in DelegationEvents
    BY DEF OfferedBy, MirrorTypeOK
  <2>3. delegation[d].method = e.method /\ delegation[d].block = e.block
    BY <2>1 DEF RecordOf
  <2>4. e.method # NoMethod /\ e.block # 0
    BY <2>2, EventTyped DEF NoMethod, DelegateMethod, TransferMethod
  <2> QED
    BY <2>3, <2>4
<1> QED
  BY <1>1, <1>2

(* stateBlockNumber is zero exactly for a delegator without a record.       *)
LEMMA ZeroIsNew ==
  ASSUME MirrorTypeOK, RecordsHaveBlocks, NEW e \in DelegationEvents,
         Supersedes(e, delegation[e.delegator])
  PROVE  StateBlockNumber(e, delegation[e.delegator]) = 0
           <=> delegation[e.delegator].method = NoMethod
  BY EventTyped DEF StateBlockNumber, Supersedes, RecordsHaveBlocks, MirrorTypeOK,
     DelegationRecord, NoMethod, DelegateMethod, TransferMethod

(* The list grows by the event's delegator exactly when it has no record.   *)
LEMMA ListedOnceStep ==
  ASSUME MirrorTypeOK, RecordsHaveBlocks, DelegatorsListedOnce,
         NEW e \in DelegationEvents, MirrorDelegationData(e)
  PROVE  DelegatorsListedOnce'
<1>1. CASE UNCHANGED <<delegators, delegation>>
  BY <1>1 DEF DelegatorsListedOnce
<1>2. CASE Supersedes(e, delegation[e.delegator]) /\ WriteDelegation(e)
  <2> DEFINE d == e.delegator
             Recorded == {x \in Address : delegation[x].method # NoMethod}
             OnList   == {delegators[i] : i \in DOMAIN delegators}
  <2>0. d \in Address /\ e.method # NoMethod
    BY EventTyped DEF NoMethod, DelegateMethod, TransferMethod
  <2>1. delegation' = [delegation EXCEPT ![d] = RecordOf(e)]
    BY <1>2 DEF WriteDelegation
  <2>2. Recorded' = Recorded \cup {d}
    BY <2>0, <2>1 DEF MirrorTypeOK, RecordOf
  <2>3. CASE delegation[d].method = NoMethod
    <3>1. delegators' = Append(delegators, d)
      BY <1>2, <2>3, ZeroIsNew DEF WriteDelegation
    <3>2. /\ Len(delegators) \in Nat /\ DOMAIN delegators = 1 .. Len(delegators)
          /\ DOMAIN delegators' = 1 .. Len(delegators) + 1
          /\ delegators'[Len(delegators) + 1] = d
          /\ \A i \in DOMAIN delegators : delegators'[i] = delegators[i]
      BY <2>0, <3>1 DEF MirrorTypeOK
    <3>3. d \notin OnList
      BY <2>3 DEF DelegatorsListedOnce
    <3>4. OnList' = OnList \cup {d}
      <4>1. ASSUME NEW i \in DOMAIN delegators'
            PROVE  delegators'[i] \in OnList \cup {d}
        <5>1. i \in DOMAIN delegators \/ i = Len(delegators) + 1
          BY <3>2
        <5> QED
          BY <3>2, <5>1
      <4>2. ASSUME NEW i \in DOMAIN delegators
            PROVE  delegators[i] \in OnList'
        <5>1. i \in DOMAIN delegators' /\ delegators'[i] = delegators[i]
          BY <3>2
        <5> QED
          BY <5>1
      <4>3. d \in OnList'
        <5>1. Len(delegators) + 1 \in DOMAIN delegators'
          BY <3>2
        <5> QED
          BY <3>2, <5>1
      <4> QED
        BY <4>1, <4>2, <4>3
    <3>5. ASSUME NEW i \in DOMAIN delegators', NEW j \in DOMAIN delegators',
                 delegators'[i] = delegators'[j]
          PROVE  i = j
      <4>1. \A k \in DOMAIN delegators : delegators'[k] # d
        BY <3>2, <3>3
      <4>2. /\ i \in DOMAIN delegators \/ i = Len(delegators) + 1
            /\ j \in DOMAIN delegators \/ j = Len(delegators) + 1
        BY <3>2
      <4> QED
        BY <3>2, <3>5, <4>1, <4>2 DEF DelegatorsListedOnce
    <3> QED
      BY <2>2, <3>4, <3>5 DEF DelegatorsListedOnce
  <2>4. CASE delegation[d].method # NoMethod
    <3>1. delegators' = delegators
      BY <1>2, <2>4, ZeroIsNew DEF WriteDelegation
    <3>2. Recorded' = Recorded
      BY <2>0, <2>2, <2>4
    <3> QED
      BY <3>1, <3>2 DEF DelegatorsListedOnce
  <2> QED
    BY <2>3, <2>4
<1> QED
  BY <1>1, <1>2 DEF MirrorDelegationData

(* DelegatorsListedOnce holds in every reachable state: an election reads   *)
(* and pays each delegator once.                                            *)
THEOREM DelegatorsAlwaysListedOnce == MirrorSpec => []DelegatorsListedOnce
<1>1. MirrorInit => DelegatorsListedOnce
  BY DEF MirrorInit, DelegatorsListedOnce, NoDelegation
<1>2. /\ MirrorTypeOK /\ StrongestDelegationWins /\ DelegatorsListedOnce
      /\ [MirrorNext]_mirrorVars
      => DelegatorsListedOnce'
  <2>1. ASSUME DelegatorsListedOnce, UNCHANGED mirrorVars
        PROVE  DelegatorsListedOnce'
    BY <2>1 DEF mirrorVars, DelegatorsListedOnce
  <2> QED
    BY <2>1, MirrorStep, StrongestHasBlock, ListedOnceStep
<1> QED
  BY <1>1, <1>2, MirrorTypeCorrect, StrongestDelegationAlwaysWins, PTL DEF MirrorSpec

-----------------------------------------------------------------------------
(* The event that wins over a delegator's others is unique, so the register *)
(* shows the record the contract keeps.                                     *)
ShowsTheStrongest == delegation = [d \in Address |-> Register!Shown(offered, d)]

LEMMA RecordIsShown == MirrorTypeOK /\ StrongestDelegationWins => ShowsTheStrongest
<1> SUFFICES ASSUME MirrorTypeOK, StrongestDelegationWins
             PROVE  ShowsTheStrongest
  OBVIOUS
<1>1. ASSUME NEW d \in Address
      PROVE  delegation[d] = Register!Shown(offered, d)
  <2>0. OfferedBy(d) \subseteq DelegationEvents
    BY DEF OfferedBy, MirrorTypeOK
  <2>1. CASE OfferedBy(d) = {}
    BY <2>1 DEF StrongestDelegationWins, OfferedBy, Register!Shown
  <2>2. CASE OfferedBy(d) # {}
    <3>1. PICK e \in OfferedBy(d) : /\ delegation[d] = RecordOf(e)
                                    /\ \A f \in OfferedBy(d) \ {e} : Weaker(f, e)
      BY <2>2 DEF StrongestDelegationWins
    <3>2. ASSUME NEW g \in OfferedBy(d), \A f \in OfferedBy(d) \ {g} : Weaker(f, g)
          PROVE  g = e
      BY <2>0, <3>1, <3>2, WeakerAsymmetric
    <3>3. Register!Winner(OfferedBy(d)) = e
      BY <3>1, <3>2 DEF Register!Winner, Beats
    <3> QED
      BY <2>2, <3>1, <3>3 DEF Register!Shown, OfferedBy
  <2> QED
    BY <2>1, <2>2
<1>2. delegation = [d \in Address |-> delegation[d]]
  BY DEF MirrorTypeOK
<1> QED
  BY <1>1, <1>2 DEF ShowsTheStrongest

(* MirrorSpec implements the order-free register of DelegationRegister: a   *)
(* mirrored event is an offer whether or not it changes the record.         *)
THEOREM MirrorImplementsRegister == MirrorSpec => ImplementsRegister
<1>1. MirrorInit => Register!Init
  BY DEF MirrorInit, Register!Init
<1>2. ShowsTheStrongest' /\ [MirrorNext]_mirrorVars => [Register!Next]_(Register!registerVars)
  <2> SUFFICES ASSUME ShowsTheStrongest', [MirrorNext]_mirrorVars
               PROVE  [Register!Next]_(Register!registerVars)
    OBVIOUS
  <2>1. CASE UNCHANGED mirrorVars
    BY <2>1 DEF mirrorVars, Register!registerVars
  <2>2. CASE MirrorNext
    <3>1. PICK e \in DelegationEvents : Admissible(e) /\ offered' = offered \cup {e}
      BY <2>2, MirrorStep
    <3>2. delegation' = [d \in Address |-> Register!Shown(offered', d)]
      BY DEF ShowsTheStrongest
    <3> QED
      BY <3>1, <3>2 DEF Register!Next, Register!Offer, Admissible
  <2> QED
    BY <2>1, <2>2
<1> QED
  BY <1>1, <1>2, RecordIsShown, MirrorTypeCorrect, StrongestDelegationAlwaysWins, PTL
  DEF MirrorSpec, ImplementsRegister, Register!Spec

-----------------------------------------------------------------------------
(* II.  The course of an election: whatever the interleaving of calls and   *)
(* blocks.                                                                  *)

(* Every step of the contract is a step of the mirror or leaves the         *)
(* delegations alone.                                                       *)
LEMMA ElectionsStepMirrors ==
  ASSUME ethBlock \in Block, [Next]_vars
  PROVE  [MirrorNext]_mirrorVars
<1>1. ASSUME NEW e \in DelegationEvents, Mirror(e)
      PROVE  MirrorNext
  <2>1. MaxBlock \in Block /\ e.block <= MaxBlock
    BY EventTyped, MaxBlockAssumption DEF Block
  <2>2. MirrorDelegation(e, MaxBlock) \/ MirrorDelegationByTransfer(e, MaxBlock)
    BY <1>1, <2>1 DEF Mirror, MirrorDelegation, MirrorDelegationByTransfer, MirrorDelegateImpl
  <2> QED
    BY <2>1, <2>2 DEF MirrorNext
<1>2. CASE ProcessVoting
  BY <1>2 DEF ProcessVoting, ReadValidators, ReadGuardians, CollectValidator, CollectGuardian,
     CollectDelegator, Conclude, mirrorVars
<1>3. CASE AdvanceEthereum \/ AdvanceOrbs \/ UNCHANGED vars
  BY <1>3 DEF AdvanceEthereum, AdvanceOrbs, vars, mirrorVars
<1> QED
  BY <1>1, <1>2, <1>3 DEF Next

-----------------------------------------------------------------------------
(* Between the first and the last call of an election no step of the        *)
(* contract writes the delegations or the election's parameters.            *)
THEOREM WindowStaysFrozen == Spec => FrozenWhileProcessing
<1>1. [Next]_vars =>
        [HasProcessingStarted /\ HasProcessingStarted' =>
           UNCHANGED <<delegators, delegation, processBlock, earliestVote>>]_vars
  <2> SUFFICES ASSUME Next, HasProcessingStarted, HasProcessingStarted'
               PROVE  UNCHANGED <<delegators, delegation, processBlock, earliestVote>>
    OBVIOUS
  <2>1. ASSUME NEW e \in DelegationEvents, Mirror(e)
        PROVE  FALSE
    BY <2>1 DEF Mirror
  <2>2. CASE ReadValidators
    BY <2>2 DEF ReadValidators, HasProcessingStarted
  <2>3. CASE ReadGuardians \/ CollectValidator \/ CollectGuardian \/ CollectDelegator
    BY <2>3 DEF ReadGuardians, CollectValidator, CollectGuardian, CollectDelegator, mirrorVars
  <2>4. CASE Conclude
    BY <2>4 DEF Conclude, ClearProcess, HasProcessingStarted
  <2>5. CASE AdvanceEthereum \/ AdvanceOrbs
    BY <2>5 DEF AdvanceEthereum, AdvanceOrbs, mirrorVars, processVars
  <2> QED
    BY <2>1, <2>2, <2>3, <2>4, <2>5 DEF Next, ProcessVoting
<1> QED
  BY <1>1, PTL DEF Spec, FrozenWhileProcessing

-----------------------------------------------------------------------------
(* The election calendar                                                    *)

(* A sequence, whatever its elements.                                       *)
IsSequence(s) == s \in Seq({s[i] : i \in DOMAIN s})

(* The block of the n-th election.                                          *)
ScheduledBlock(n) == genesisBlock + n * ElectionPeriod

OnGrid(block) ==
  /\ block >= FirstElectionBlock
  /\ (block - FirstElectionBlock) % ElectionPeriod = 0

ClocksOK == ethBlock \in Block /\ orbsHeight \in Nat /\ genesisBlock \in Nat

(* The elections held are the scheduled ones, one after another, and the    *)
(* one in progress is the next; with no calendar there is none of either.   *)
ElectionsScheduled ==
  /\ IsSequence(elections)
  /\ \A i \in DOMAIN elections : elections[i].block = ScheduledBlock(i)
  /\ genesisBlock # 0 => OnGrid(ScheduledBlock(1))
  /\ genesisBlock = 0 => elections = <<>> /\ processState = NoState
  /\ HasProcessingStarted =>
       /\ processBlock = ScheduledBlock(Len(elections) + 1)
       /\ ethBlock >= processBlock + MirrorPeriod

CalendarInv == ClocksOK /\ ElectionsScheduled

LEMMA PeriodsTyped ==
  /\ ElectionPeriod \in Nat /\ ElectionPeriod > 0
  /\ MirrorPeriod \in Nat /\ MirrorPeriod > 0
  /\ VoteValidPeriod \in Nat /\ VoteValidPeriod > 0
  /\ EthereumStakeFactor \in Nat /\ EthereumStakeFactor > 0
  /\ TransitionPeriod \in Nat
  /\ FirstElectionBlock \in Nat /\ FirstElectionBlock > ElectionPeriod
  /\ FirstElectionBlock >= VoteValidPeriod
  /\ MaxBlock \in Nat
  BY PeriodsAssumption, MaxBlockAssumption

(* Subtracting the remainder leaves a multiple.                             *)
LEMMA RoundedUp ==
  ASSUME NEW n \in Nat, NEW p \in Nat, p > 0
  PROVE  /\ n % p \in 0 .. p - 1
         /\ n % p <= n
         /\ (n + (p - (n % p))) % p = 0
<1> DEFINE q == n \div p
<1>1. n \in Int /\ p \in Int
  OBVIOUS
<1>2. n = p * q + (n % p) /\ q \in Int
  BY <1>1
<1>3. n % p \in 0 .. p - 1 /\ n % p <= n
  OBVIOUS
<1> HIDE DEF q
<1>4. n + (p - (n % p)) = p * (q + 1)
  BY <1>2, <1>3
<1>5. (p * (q + 1)) % p = 0
  BY <1>2
<1> QED
  BY <1>3, <1>4, <1>5

LEMMA AppendedSequence ==
  ASSUME NEW s, NEW x, IsSequence(s)
  PROVE  /\ Len(s) \in Nat /\ DOMAIN s = 1 .. Len(s)
         /\ IsSequence(Append(s, x))
         /\ Len(Append(s, x)) = Len(s) + 1
         /\ DOMAIN Append(s, x) = 1 .. Len(s) + 1
         /\ \A i \in DOMAIN s : Append(s, x)[i] = s[i]
         /\ Append(s, x)[Len(s) + 1] = x
<1> DEFINE S == {s[i] : i \in DOMAIN s}
           t == Append(s, x)
<1>1. s \in Seq(S) /\ Len(s) \in Nat /\ DOMAIN s = 1 .. Len(s)
  BY LenProperties DEF IsSequence
<1>2. s \in Seq(S \cup {x})
  BY <1>1, SeqMonotonic
<1> HIDE DEF S
<1>3. /\ Len(t) = Len(s) + 1 /\ t \in Seq(S \cup {x})
      /\ \A i \in 1 .. Len(s) : t[i] = s[i]
      /\ t[Len(s) + 1] = x
  BY <1>2, AppendProperties
<1>4. DOMAIN t = 1 .. Len(s) + 1
  BY <1>3
<1>5. IsSequence(t)
  BY <1>1, <1>3, <1>4, IsASeq DEF IsSequence
<1> QED
  BY <1>1, <1>3, <1>4, <1>5

(* What the calendar queries return, whether or not it was initialised.     *)
LEMMA CalendarQueries ==
  ASSUME CalendarInv
  PROVE  /\ Len(elections) \in Nat
         /\ EffectiveElectionBlock = ScheduledBlock(Len(elections))
         /\ InitialisedGenesis \in Nat \ {0}
         /\ OnGrid(InitialisedGenesis + ElectionPeriod)
         /\ genesisBlock # 0 => InitialisedGenesis = genesisBlock
         /\ CurrentElectionBlock
              = InitialisedGenesis + (Len(elections) + 1) * ElectionPeriod
<1>1. Len(elections) \in Nat /\ DOMAIN elections = 1 .. Len(elections)
  BY AppendedSequence DEF CalendarInv, ElectionsScheduled
<1>2. elections = <<>> <=> Len(elections) = 0
  BY <1>1, EmptySeq DEF CalendarInv, ElectionsScheduled, IsSequence
<1>3. EffectiveElectionBlock = ScheduledBlock(Len(elections))
  BY <1>1, <1>2, PeriodsTyped
  DEF CalendarInv, ClocksOK, ElectionsScheduled, EffectiveElectionBlock, ScheduledBlock
<1>4. CASE genesisBlock = 0
  <2>1. InitialisedGenesis = NextScheduledElection - ElectionPeriod
    BY <1>4 DEF CalendarInv, ElectionsScheduled, InitialisedGenesis, EffectiveElectionBlock
  <2>2. CASE ethBlock > FirstElectionBlock
    <3> DEFINE n == ethBlock - FirstElectionBlock
    <3>1. n \in Nat
      BY <2>2, PeriodsTyped DEF CalendarInv, ClocksOK, Block
    <3>2. /\ n % ElectionPeriod \in 0 .. ElectionPeriod - 1 /\ n % ElectionPeriod <= n
          /\ (n + (ElectionPeriod - (n % ElectionPeriod))) % ElectionPeriod = 0
      BY <3>1, PeriodsTyped, RoundedUp
    <3>3. NextScheduledElection = ethBlock + (ElectionPeriod - (n % ElectionPeriod))
      BY <2>2 DEF NextScheduledElection
    <3>4. ethBlock \in Nat /\ n = ethBlock - FirstElectionBlock
      BY DEF CalendarInv, ClocksOK, Block
    <3> HIDE DEF n
    <3> DEFINE r == n % ElectionPeriod
    <3>5. /\ r \in 0 .. ElectionPeriod - 1 /\ r <= n
          /\ (n + (ElectionPeriod - r)) % ElectionPeriod = 0
          /\ NextScheduledElection = ethBlock + (ElectionPeriod - r)
      BY <3>2, <3>3
    <3> HIDE DEF r
    <3>6. NextScheduledElection - FirstElectionBlock = n + (ElectionPeriod - r)
      BY <3>4, <3>5, PeriodsTyped
    <3>7. NextScheduledElection >= FirstElectionBlock /\ NextScheduledElection \in Nat
      BY <3>4, <3>5, PeriodsTyped
    <3> QED
      BY <1>2, <1>3, <1>4, <2>1, <3>5, <3>6, <3>7, PeriodsTyped
      DEF OnGrid, CurrentElectionBlock, CalendarInv, ElectionsScheduled
  <2>3. CASE ~(ethBlock > FirstElectionBlock)
    <3>1. NextScheduledElection = FirstElectionBlock
      BY <2>3 DEF NextScheduledElection
    <3>2. (FirstElectionBlock - FirstElectionBlock) % ElectionPeriod = 0
      BY PeriodsTyped
    <3> QED
      BY <1>2, <1>3, <1>4, <2>1, <3>1, <3>2, PeriodsTyped
      DEF OnGrid, CurrentElectionBlock, CalendarInv, ElectionsScheduled
  <2> QED
    BY <2>2, <2>3
<1>5. CASE genesisBlock # 0
  <2>1. EffectiveElectionBlock \in Nat \ {0}
    BY <1>1, <1>3, <1>5, PeriodsTyped DEF CalendarInv, ClocksOK, ScheduledBlock
  <2>2. InitialisedGenesis = genesisBlock
    BY <2>1 DEF InitialisedGenesis
  <2>3. CurrentElectionBlock = ScheduledBlock(Len(elections)) + ElectionPeriod
    BY <1>1, <1>3, <2>2 DEF CurrentElectionBlock, EffectiveElectionBlock
  <2>4. OnGrid(InitialisedGenesis + ElectionPeriod)
    BY <1>5, <2>2, PeriodsTyped
    DEF CalendarInv, ClocksOK, ElectionsScheduled, ScheduledBlock
  <2> QED
    BY <1>1, <1>3, <1>5, <2>2, <2>3, <2>4, PeriodsTyped DEF CalendarInv, ClocksOK, ScheduledBlock
<1> QED
  BY <1>1, <1>3, <1>4, <1>5

LEMMA CalendarStep ==
  ASSUME CalendarInv, [Next]_vars
  PROVE  CalendarInv'
<1>1. /\ Len(elections) \in Nat
      /\ InitialisedGenesis \in Nat \ {0}
      /\ OnGrid(InitialisedGenesis + ElectionPeriod)
      /\ genesisBlock # 0 => InitialisedGenesis = genesisBlock
      /\ CurrentElectionBlock = InitialisedGenesis + (Len(elections) + 1) * ElectionPeriod
      /\ DOMAIN elections = 1 .. Len(elections)
  BY CalendarQueries, AppendedSequence DEF CalendarInv, ElectionsScheduled
<1>2. ASSUME genesisBlock' = InitialisedGenesis,
             UNCHANGED <<ethBlock, orbsHeight, elections>>,
             \/ UNCHANGED <<processState, processBlock>>
             \/ /\ processBlock' = CurrentElectionBlock
                /\ ethBlock >= CurrentElectionBlock + MirrorPeriod
      PROVE  CalendarInv'
  <2>1. ClocksOK'
    BY <1>1, <1>2 DEF CalendarInv, ClocksOK
  <2>2. IsSequence(elections)'
    BY <1>2 DEF CalendarInv, ElectionsScheduled, IsSequence
  <2>3. \A i \in DOMAIN elections' : elections'[i].block = ScheduledBlock(i)'
    BY <1>1, <1>2, EmptySeq DEF CalendarInv, ElectionsScheduled, ScheduledBlock
  <2>4. genesisBlock' # 0 /\ OnGrid(ScheduledBlock(1))'
    BY <1>1, <1>2, PeriodsTyped DEF OnGrid, ScheduledBlock
  <2>5. HasProcessingStarted' =>
          /\ processBlock' = ScheduledBlock(Len(elections) + 1)'
          /\ ethBlock' >= processBlock' + MirrorPeriod
    <3>1. CASE UNCHANGED <<processState, processBlock>>
      BY <1>1, <1>2, <3>1
      DEF CalendarInv, ElectionsScheduled, HasProcessingStarted, ScheduledBlock, NoState
    <3>2. CASE /\ processBlock' = CurrentElectionBlock
               /\ ethBlock >= CurrentElectionBlock + MirrorPeriod
      BY <1>1, <1>2, <3>2 DEF ScheduledBlock
    <3> QED
      BY <1>2, <3>1, <3>2
  <2> QED
    BY <2>1, <2>2, <2>3, <2>4, <2>5 DEF CalendarInv, ElectionsScheduled
<1>3. ASSUME NEW e \in DelegationEvents, Mirror(e)
      PROVE  CalendarInv'
  BY <1>2, <1>3 DEF Mirror, environmentVars, resultVars, processVars
<1>4. CASE ReadValidators
  <2>1. ethBlock >= CurrentElectionBlock + MirrorPeriod
    BY <1>4 DEF ReadValidators, IsProcessingPeriod, HasProcessingStarted, ProcessingStartBlock
  <2> QED
    BY <1>2, <1>4, <2>1 DEF ReadValidators, environmentVars, resultVars
<1>5. CASE ReadGuardians \/ CollectValidator \/ CollectGuardian \/ CollectDelegator
  <2>1. /\ UNCHANGED <<ethBlock, orbsHeight, genesisBlock, elections, processBlock>>
        /\ processState # NoState
    BY <1>5
    DEF ReadGuardians, CollectValidator, CollectGuardian, CollectDelegator, environmentVars,
        resultVars, GuardiansState, ValidatorsState, GuardiansDataState, DelegatorsState, NoState
  <2> QED
    BY <2>1
    DEF CalendarInv, ClocksOK, ElectionsScheduled, ScheduledBlock, HasProcessingStarted,
        IsSequence, OnGrid
<1>6. CASE Conclude
  <2>1. PICK elected : elections' = Append(elections, ElectionResult(elected))
    BY <1>6 DEF Conclude
  <2>2. /\ UNCHANGED <<ethBlock, orbsHeight, genesisBlock>>
        /\ HasProcessingStarted /\ processState' = NoState
    BY <1>6 DEF Conclude, ClearProcess, environmentVars, HasProcessingStarted, CalculationsState,
                NoState
  <2> DEFINE result == ElectionResult(elected)
  <2>3. /\ IsSequence(elections') /\ DOMAIN elections' = 1 .. Len(elections) + 1
        /\ \A i \in DOMAIN elections : elections'[i] = elections[i]
        /\ elections'[Len(elections) + 1] = result
    <3> HIDE DEF result
    <3>1. elections' = Append(elections, result)
      BY <2>1 DEF result
    <3> QED
      BY <3>1, AppendedSequence DEF CalendarInv, ElectionsScheduled
  <2>4. result.block = ScheduledBlock(Len(elections) + 1)
    BY <2>2 DEF ElectionResult, CalendarInv, ElectionsScheduled
  <2>5. \A i \in DOMAIN elections' : elections'[i].block = ScheduledBlock(i)'
    <3> HIDE DEF result
    <3> SUFFICES ASSUME NEW i \in DOMAIN elections'
                 PROVE  elections'[i].block = ScheduledBlock(i)'
      OBVIOUS
    <3>1. CASE i \in DOMAIN elections
      BY <2>2, <2>3, <3>1 DEF CalendarInv, ElectionsScheduled, ScheduledBlock
    <3>2. CASE i = Len(elections) + 1
      BY <2>2, <2>3, <2>4, <3>2 DEF ScheduledBlock
    <3> QED
      BY <1>1, <2>3, <3>1, <3>2
  <2>6. genesisBlock # 0
    BY <2>2 DEF CalendarInv, ElectionsScheduled, HasProcessingStarted
  <2> HIDE DEF result
  <2> QED
    BY <2>2, <2>3, <2>5, <2>6
    DEF CalendarInv, ClocksOK, ElectionsScheduled, ScheduledBlock, HasProcessingStarted, OnGrid
<1>7. CASE AdvanceEthereum \/ AdvanceOrbs
  <2>1. /\ UNCHANGED <<genesisBlock, elections, processState, processBlock>>
        /\ ethBlock' \in Block /\ orbsHeight' \in Nat /\ ethBlock' >= ethBlock
    BY <1>7, PeriodsTyped
    DEF AdvanceEthereum, AdvanceOrbs, resultVars, processVars, CalendarInv, ClocksOK, Block
  <2>2. HasProcessingStarted => processBlock + MirrorPeriod \in Nat
    BY <1>1, PeriodsTyped DEF CalendarInv, ClocksOK, ElectionsScheduled, ScheduledBlock
  <2> QED
    BY <2>1, <2>2
    DEF CalendarInv, ClocksOK, Block, ElectionsScheduled, ScheduledBlock, HasProcessingStarted,
        IsSequence, OnGrid
<1>8. CASE UNCHANGED vars
  BY <1>8
  DEF vars, environmentVars, resultVars, processVars, CalendarInv, ClocksOK, ElectionsScheduled,
      ScheduledBlock, HasProcessingStarted, IsSequence, OnGrid
<1> QED
  BY <1>3, <1>4, <1>5, <1>6, <1>7, <1>8 DEF Next, ProcessVoting

LEMMA CalendarAlways == Spec => []CalendarInv
<1>1. Init => CalendarInv
  <2> SUFFICES ASSUME Init
               PROVE  CalendarInv
    OBVIOUS
  <2>1. IsSequence(elections)
    BY EmptySeq DEF Init, IsSequence
  <2> QED
    BY <2>1 DEF Init, CalendarInv, ClocksOK, ElectionsScheduled, HasProcessingStarted
<1>2. CalendarInv /\ [Next]_vars => CalendarInv'
  BY CalendarStep
<1> QED
  BY <1>1, <1>2, PTL DEF Spec

(* Elections are held on the grid of the first election, one after another, *)
(* for every length of the periods and whenever the contract was deployed.  *)
THEOREM ElectionsAlwaysOnSchedule == Spec => []ElectionsOnSchedule
<1>1. CalendarInv => ElectionsOnSchedule
  <2> SUFFICES ASSUME CalendarInv
               PROVE  ElectionsOnSchedule
    OBVIOUS
  <2>1. genesisBlock # 0 =>
          /\ genesisBlock >= FirstElectionBlock - ElectionPeriod
          /\ (genesisBlock + ElectionPeriod - FirstElectionBlock) % ElectionPeriod = 0
    BY PeriodsTyped DEF CalendarInv, ClocksOK, ElectionsScheduled, OnGrid, ScheduledBlock
  <2>2. HasProcessingStarted => processBlock = EffectiveElectionBlock + ElectionPeriod
    BY CalendarQueries, PeriodsTyped DEF CalendarInv, ClocksOK, ElectionsScheduled, ScheduledBlock
  <2> QED
    BY <2>1, <2>2 DEF ElectionsOnSchedule, CalendarInv, ElectionsScheduled, ScheduledBlock
<1> QED
  BY <1>1, CalendarAlways, PTL

-----------------------------------------------------------------------------
(* The delegations an election counts                                       *)

(* The mirror inside the contract is the mirror on its own, so what was     *)
(* proved of MirrorSpec holds here: of delegations and of their list.       *)
LEMMA SpecMirrors == Spec => MirrorSpec
<1>1. Init => MirrorInit
  BY DEF Init
<1>2. CalendarInv /\ [Next]_vars => [MirrorNext]_mirrorVars
  BY ElectionsStepMirrors DEF CalendarInv, ClocksOK
<1> QED
  BY <1>1, <1>2, CalendarAlways, PTL DEF Spec, MirrorSpec

(* A delegator's record is its strongest event, also while elections run.   *)
THEOREM StrongestDelegationAlwaysCounts == Spec => []StrongestDelegationWins
  BY SpecMirrors, StrongestDelegationAlwaysWins, PTL

(* The list the delegators' stage walks through has nobody twice, and       *)
(* nobody is missing from it.                                               *)
THEOREM DelegatorsStayListedOnce == Spec => []DelegatorsListedOnce
  BY SpecMirrors, DelegatorsAlwaysListedOnce, PTL

(* The latest block a delegation may have at this point.                    *)
DelegationHorizon == IF genesisBlock = 0 THEN 0 ELSE ScheduledBlock(Len(elections) + 1)

DelegationsInHorizon == \A d \in Address : delegation[d].block <= DelegationHorizon

LEMMA HorizonGrows ==
  ASSUME CalendarInv, CalendarInv', [Next]_vars
  PROVE  /\ DelegationHorizon \in Nat /\ DelegationHorizon' \in Nat
         /\ DelegationHorizon <= DelegationHorizon'
<1>1. Len(elections) \in Nat /\ Len(elections') \in Nat
  BY CalendarQueries, AppendedSequence DEF CalendarInv, ElectionsScheduled
<1>2. DelegationHorizon \in Nat /\ DelegationHorizon' \in Nat
  BY <1>1, PeriodsTyped DEF CalendarInv, ClocksOK, DelegationHorizon, ScheduledBlock
<1>3. genesisBlock # 0 => genesisBlock' = genesisBlock
  BY CalendarQueries
  DEF Next, Mirror, ProcessVoting, ReadValidators, ReadGuardians, CollectValidator,
      CollectGuardian, CollectDelegator, Conclude, AdvanceEthereum, AdvanceOrbs, vars
<1>4. UNCHANGED elections \/ Len(elections') = Len(elections) + 1
  <2>1. ASSUME NEW x, elections' = Append(elections, x)
        PROVE  Len(elections') = Len(elections) + 1
    BY <2>1, AppendedSequence DEF CalendarInv, ElectionsScheduled
  <2>2. CASE Conclude
    BY <2>1, <2>2 DEF Conclude
  <2>3. CASE ~Conclude
    BY <2>3
    DEF Next, Mirror, ProcessVoting, ReadValidators, ReadGuardians, CollectValidator,
        CollectGuardian, CollectDelegator, AdvanceEthereum, AdvanceOrbs, vars, resultVars
  <2> QED
    BY <2>2, <2>3
<1>5. Len(elections) <= Len(elections')
  BY <1>1, <1>4
<1>6. CASE genesisBlock # 0
  <2>1. (Len(elections') + 1) * ElectionPeriod >= (Len(elections) + 1) * ElectionPeriod
    BY <1>1, <1>5, PeriodsTyped
  <2> QED
    BY <1>1, <1>2, <1>3, <1>6, <2>1, PeriodsTyped
    DEF CalendarInv, ClocksOK, DelegationHorizon, ScheduledBlock
<1> QED
  BY <1>2, <1>6 DEF DelegationHorizon

LEMMA HorizonStep ==
  ASSUME MirrorTypeOK, MirrorTypeOK', CalendarInv, CalendarInv', DelegationsInHorizon, [Next]_vars
  PROVE  DelegationsInHorizon'
<1>1. /\ DelegationHorizon \in Nat /\ DelegationHorizon' \in Nat
      /\ DelegationHorizon <= DelegationHorizon'
  BY HorizonGrows
<1>2. \A d \in Address : delegation[d].block \in Nat /\ delegation'[d].block \in Nat
  BY DEF MirrorTypeOK, DelegationRecord, Block
<1>3. CASE UNCHANGED delegation
  BY <1>1, <1>2, <1>3 DEF DelegationsInHorizon
<1>4. ASSUME NEW e \in DelegationEvents, Mirror(e)
      PROVE  DelegationsInHorizon'
  <2>1. e.block <= CurrentElectionBlock /\ MirrorDelegationData(e)
    BY <1>4 DEF Mirror, MirrorDelegation, MirrorDelegationByTransfer, MirrorDelegateImpl
  <2>2. DelegationHorizon' = CurrentElectionBlock
    BY <1>4, CalendarQueries DEF Mirror, DelegationHorizon, ScheduledBlock, resultVars
  <2>3. CASE delegation' = [delegation EXCEPT ![e.delegator] = RecordOf(e)]
    <3> SUFFICES ASSUME NEW d \in Address
                 PROVE  delegation'[d].block <= DelegationHorizon'
      BY DEF DelegationsInHorizon
    <3>1. RecordOf(e).block = e.block
      BY DEF RecordOf
    <3>2. CASE d = e.delegator
      BY <2>1, <2>2, <2>3, <3>1, <3>2 DEF MirrorTypeOK
    <3>3. CASE d # e.delegator
      BY <1>1, <1>2, <2>3, <3>3 DEF MirrorTypeOK, DelegationsInHorizon
    <3> QED
      BY <3>2, <3>3
  <2> QED
    BY <1>3, <2>1, <2>3 DEF MirrorDelegationData, WriteDelegation
<1>5. CASE ~\E e \in DelegationEvents : Mirror(e)
  BY <1>3, <1>5
  DEF Next, ProcessVoting, ReadValidators, ReadGuardians, CollectValidator, CollectGuardian,
      CollectDelegator, Conclude, AdvanceEthereum, AdvanceOrbs, vars, mirrorVars
<1> QED
  BY <1>4, <1>5

(* What an election counts was delegated at its block or before.            *)
THEOREM NoLateDelegationCounts == Spec => []NoDelegationAfterElection
<1>1. Init => DelegationsInHorizon
  <2> SUFFICES ASSUME Init, NEW d \in Address
               PROVE  delegation[d].block <= DelegationHorizon
    BY DEF DelegationsInHorizon
  <2>1. delegation[d].block = 0
    BY DEF Init, MirrorInit, NoDelegation
  <2> QED
    BY <2>1 DEF Init, DelegationHorizon
<1>2. /\ MirrorTypeOK /\ MirrorTypeOK' /\ CalendarInv /\ CalendarInv'
      /\ DelegationsInHorizon /\ [Next]_vars
      => DelegationsInHorizon'
  BY HorizonStep
<1>3. CalendarInv /\ DelegationsInHorizon => NoDelegationAfterElection
  BY DEF CalendarInv, ElectionsScheduled, DelegationsInHorizon, DelegationHorizon,
         NoDelegationAfterElection, HasProcessingStarted
<1> QED
  BY <1>1, <1>2, <1>3, CalendarAlways, SpecMirrors, MirrorTypeCorrect, PTL DEF Spec

-----------------------------------------------------------------------------
(* The committee in force                                                   *)

(* The elections in force at an Orbs block.                                 *)
InForceAt(h) == {i \in DOMAIN elections : elections[i].height < h}

(* Results take effect after the transition at the latest, and at every     *)
(* block some election in force is the latest.                              *)
ResultsInv ==
  /\ IsSequence(elections)
  /\ orbsHeight \in Nat
  /\ \A i \in DOMAIN elections :
       elections[i].height \in Nat /\ elections[i].height <= orbsHeight + TransitionPeriod
  /\ \A h \in Int : InForceAt(h) # {} =>
       \E latest \in InForceAt(h) : \A i \in InForceAt(h) : latest >= i

(* The last call of an election appends one result, of this height; no      *)
(* other step touches the results.                                          *)
LEMMA ResultsChange ==
  ASSUME orbsHeight \in Nat, [Next]_vars
  PROVE  /\ orbsHeight' \in Nat /\ orbsHeight' >= orbsHeight
         /\ \/ UNCHANGED elections
            \/ /\ orbsHeight' = orbsHeight
               /\ \E result : /\ elections' = Append(elections, result)
                              /\ result.height = orbsHeight + TransitionPeriod
<1>1. CASE Conclude
  <2>1. PICK elected : elections' = Append(elections, ElectionResult(elected))
    BY <1>1 DEF Conclude
  <2>2. ElectionResult(elected).height = orbsHeight + TransitionPeriod
    BY DEF ElectionResult
  <2>3. orbsHeight' = orbsHeight
    BY <1>1 DEF Conclude, environmentVars
  <2> HIDE DEF ElectionResult
  <2> QED
    BY <2>1, <2>2, <2>3
<1>2. CASE ~Conclude
  <2>1. UNCHANGED elections
    BY <1>2
    DEF Next, Mirror, ProcessVoting, ReadValidators, ReadGuardians, CollectValidator,
        CollectGuardian, CollectDelegator, AdvanceEthereum, AdvanceOrbs, vars, resultVars
  <2>2. orbsHeight' = orbsHeight \/ orbsHeight' = orbsHeight + 1
    BY <1>2
    DEF Next, Mirror, ProcessVoting, ReadValidators, ReadGuardians, CollectValidator,
        CollectGuardian, CollectDelegator, AdvanceEthereum, AdvanceOrbs, vars, environmentVars
  <2> QED
    BY <2>1, <2>2
<1> QED
  BY <1>1, <1>2

LEMMA ResultsStep ==
  ASSUME ResultsInv, [Next]_vars
  PROVE  ResultsInv'
<1>1. /\ orbsHeight' \in Nat /\ orbsHeight' >= orbsHeight
      /\ \/ UNCHANGED elections
         \/ /\ orbsHeight' = orbsHeight
            /\ \E result : /\ elections' = Append(elections, result)
                           /\ result.height = orbsHeight + TransitionPeriod
  BY ResultsChange DEF ResultsInv
<1>2. CASE UNCHANGED elections
  <2>1. IsSequence(elections)'
    BY <1>2 DEF ResultsInv, IsSequence
  <2>2. \A h \in Int : InForceAt(h)' = InForceAt(h)
    BY <1>2 DEF InForceAt
  <2>3. \A i \in DOMAIN elections' :
          /\ elections'[i].height \in Nat
          /\ elections'[i].height <= orbsHeight' + TransitionPeriod
    BY <1>1, <1>2, PeriodsTyped DEF ResultsInv
  <2> QED
    BY <1>1, <2>1, <2>2, <2>3 DEF ResultsInv
<1>3. ASSUME NEW result, elections' = Append(elections, result),
             result.height = orbsHeight + TransitionPeriod, orbsHeight' = orbsHeight
      PROVE  ResultsInv'
  <2> DEFINE n == Len(elections) + 1
  <2>1. /\ Len(elections) \in Nat /\ DOMAIN elections = 1 .. Len(elections)
        /\ IsSequence(elections') /\ DOMAIN elections' = 1 .. n
        /\ \A i \in DOMAIN elections : elections'[i] = elections[i]
        /\ elections'[n] = result
    BY <1>3, AppendedSequence DEF ResultsInv
  <2>2. \A i \in DOMAIN elections' :
          /\ elections'[i].height \in Nat
          /\ elections'[i].height <= orbsHeight' + TransitionPeriod
    <3> SUFFICES ASSUME NEW i \in DOMAIN elections'
                 PROVE  /\ elections'[i].height \in Nat
                        /\ elections'[i].height <= orbsHeight' + TransitionPeriod
      OBVIOUS
    <3>1. CASE i \in DOMAIN elections
      BY <1>3, <2>1, <3>1 DEF ResultsInv
    <3>2. CASE i = n
      BY <1>3, <2>1, <3>2, PeriodsTyped DEF ResultsInv
    <3> QED
      BY <2>1, <3>1, <3>2
  <2>3. ASSUME NEW h \in Int, InForceAt(h)' # {}
        PROVE  \E latest \in InForceAt(h)' : \A i \in InForceAt(h)' : latest >= i
    <3>1. CASE n \in InForceAt(h)'
      BY <2>1, <3>1 DEF InForceAt
    <3>2. CASE n \notin InForceAt(h)'
      <4>1. InForceAt(h)' = InForceAt(h)
        BY <2>1, <3>2 DEF InForceAt
      <4> QED
        BY <2>3, <4>1 DEF ResultsInv
    <3> QED
      BY <3>1, <3>2
  <2> QED
    BY <1>1, <2>1, <2>2, <2>3 DEF ResultsInv
<1> QED
  BY <1>1, <1>2, <1>3

LEMMA CommitteesFixedStep ==
  ASSUME ResultsInv, [Next]_vars, NEW h \in 1 .. orbsHeight + TransitionPeriod
  PROVE  CommitteeAtHeight(h)' = CommitteeAtHeight(h)
<1>1. \/ UNCHANGED elections
      \/ \E result : /\ elections' = Append(elections, result)
                     /\ result.height = orbsHeight + TransitionPeriod
  BY ResultsChange DEF ResultsInv
<1>2. CASE UNCHANGED elections
  BY <1>2 DEF CommitteeAtHeight
<1>3. ASSUME NEW result, elections' = Append(elections, result),
             result.height = orbsHeight + TransitionPeriod
      PROVE  CommitteeAtHeight(h)' = CommitteeAtHeight(h)
  <2>1. /\ Len(elections) \in Nat /\ DOMAIN elections = 1 .. Len(elections)
        /\ DOMAIN elections' = 1 .. Len(elections) + 1
        /\ \A i \in DOMAIN elections : elections'[i] = elections[i]
        /\ elections'[Len(elections) + 1] = result
    BY <1>3, AppendedSequence DEF ResultsInv
  <2>2. ~(result.height < h)
    BY <1>3, PeriodsTyped DEF ResultsInv
  <2>3. InForceAt(h)' = InForceAt(h)
    BY <2>1, <2>2 DEF InForceAt
  <2>4. CASE InForceAt(h) = {}
    BY <2>3, <2>4 DEF CommitteeAtHeight, InForceAt
  <2>5. CASE InForceAt(h) # {}
    <3>1. \E latest \in InForceAt(h) : \A i \in InForceAt(h) : latest >= i
      BY <2>5 DEF ResultsInv
    <3>2. Max(InForceAt(h)) \in InForceAt(h)
      BY <3>1 DEF Max
    <3>3. elections'[Max(InForceAt(h))] = elections[Max(InForceAt(h))]
      BY <2>1, <3>2 DEF InForceAt
    <3>4. CommitteeAtHeight(h) = elections[Max(InForceAt(h))].orbs
      BY <2>5 DEF CommitteeAtHeight, InForceAt
    <3>5. CommitteeAtHeight(h)' = elections'[Max(InForceAt(h)')].orbs
      BY <2>3, <2>5 DEF CommitteeAtHeight, InForceAt
    <3> QED
      BY <2>3, <3>3, <3>4, <3>5
  <2> QED
    BY <2>4, <2>5
<1> QED
  BY <1>1, <1>2, <1>3

(* A result never changes the committee of an Orbs block up to the end of   *)
(* the transition that starts with it.                                      *)
THEOREM CommitteesStayFixed == Spec => CommitteesInForceAreFixed
<1>1. Init => ResultsInv
  <2> SUFFICES ASSUME Init
               PROVE  ResultsInv
    OBVIOUS
  <2>1. IsSequence(elections)
    BY EmptySeq DEF Init, IsSequence
  <2>2. DOMAIN elections = {}
    BY DEF Init
  <2> QED
    BY <2>1, <2>2 DEF Init, ResultsInv, InForceAt
<1>2. ResultsInv /\ [Next]_vars => ResultsInv'
  BY ResultsStep
<1>3. ResultsInv /\ [Next]_vars =>
        [\A h \in 1 .. orbsHeight + TransitionPeriod :
           CommitteeAtHeight(h)' = CommitteeAtHeight(h)]_vars
  BY CommitteesFixedStep
<1> QED
  BY <1>1, <1>2, <1>3, PTL DEF Spec, CommitteesInForceAreFixed

-----------------------------------------------------------------------------
(* III.  What the stages of an election collect is what Ethereum held at    *)
(* the election's block.                                                    *)

(* The stages that come after a stage.                                      *)
LEMMA StagesInOrder ==
  ASSUME NEW state
  PROVE  /\ IsAfter(state, GuardiansState) <=>
              state \in {ValidatorsState, GuardiansDataState, DelegatorsState,
                         CalculationsState}
         /\ IsAfter(state, ValidatorsState) <=>
              state \in {GuardiansDataState, DelegatorsState, CalculationsState}
         /\ IsAfter(state, GuardiansDataState) <=>
              state \in {DelegatorsState, CalculationsState}
         /\ IsAfter(state, DelegatorsState) <=> state = CalculationsState
<1> DEFINE order == StageOrder
<1>1. /\ DOMAIN order = 1 .. 5
      /\ order[1] = GuardiansState /\ order[2] = ValidatorsState
      /\ order[3] = GuardiansDataState /\ order[4] = DelegatorsState
      /\ order[5] = CalculationsState
  BY DEF StageOrder
<1>2. \A stage : IsAfter(state, stage) <=>
        \E i, j \in 1 .. 5 : order[i] = stage /\ order[j] = state /\ i < j
  BY <1>1 DEF IsAfter
<1>3. \A i \in 1 .. 5 : i = 1 \/ i = 2 \/ i = 3 \/ i = 4 \/ i = 5
  OBVIOUS
<1> HIDE DEF order
<1> QED
  BY <1>1, <1>2, <1>3
  DEF GuardiansState, ValidatorsState, GuardiansDataState, DelegatorsState, CalculationsState

-----------------------------------------------------------------------------
(* What the contract stores, as far as the argument needs its types.        *)
StorageOK ==
  /\ ethereum \in [Block -> EthereumState]
  /\ validatorSlots \in Seq(Address)
  /\ validatorCount \in 0 .. Len(validatorSlots)
  /\ DOMAIN validatorData = Account
  /\ guardians \in Seq(Address)
  /\ DOMAIN guardianData = Account
  /\ \A a \in Account : "isGuardian" \in DOMAIN guardianData[a]
  /\ delegators \in Seq(Address)
  /\ DOMAIN delegatorStake = Account
  /\ processItem \in Nat

(* The election in progress is one of a block of Ethereum.                  *)
ProcessOK ==
  HasProcessingStarted =>
    /\ processBlock \in Block
    /\ earliestVote = processBlock - (VoteValidPeriod - 1)

(* Guardian flags are those of the stored list, also between elections.     *)
FlagsOK == \A a \in Account : guardianData[a].isGuardian <=> a \in ToSet(guardians)

ValidatorsOK ==
  HasProcessingStarted => StagedValidators = ethereum[processBlock].validators
                          /\ validatorCount = Len(ethereum[processBlock].validators)

LEMMA EthereumTyped ==
  ASSUME StorageOK, NEW b \in Block
  PROVE  /\ ethereum[b].validators \in Seq(Address)
         /\ ethereum[b].guardians \in Seq(Address)
  BY DEF StorageOK, EthereumState

(* What a stage handles is an address, or the zero address.                 *)
LEMMA ItemTyped ==
  ASSUME NEW s \in Seq(Address), NEW i \in Nat
  PROVE  /\ AtIndex(s, i) \in Account
         /\ i < Len(s) => AtIndex(s, i) = s[i + 1]
  BY DEF AtIndex, Account

(* New entries over old ones: the list is the new one.                      *)
LEMMA OverwriteShows ==
  ASSUME NEW old \in Seq(Address), NEW new \in Seq(Address)
  PROVE  /\ Overwrite(old, new) \in Seq(Address)
         /\ Len(new) \in 0 .. Len(Overwrite(old, new))
         /\ SubSeq(Overwrite(old, new), 1, Len(new)) = new
<1>1. Len(new) + 1 \in Nat /\ Len(old) \in Nat
  OBVIOUS
<1>2. SubSeq(old, Len(new) + 1, Len(old)) \in Seq(Address)
  <2>1. CASE Len(new) + 1 <= Len(old)
    <3>1. \A i \in Len(new) + 1 .. Len(old) : i \in 1 .. Len(old)
      BY <1>1
    <3> QED
      BY <1>1, <3>1, SubSeqProperties
  <2>2. CASE ~(Len(new) + 1 <= Len(old))
    BY <1>1, <2>2, SubSeqEmpty, EmptySeq
  <2> QED
    BY <2>1, <2>2
<1> QED
  BY <1>2, ConcatProperties, SubSeqOfConcat1 DEF Overwrite

-----------------------------------------------------------------------------
(* Only processVoting touches what is staged; the other steps leave it, and *)
(* mirroring leaves it while no election is in progress.                    *)
stagedVars == <<ethereum, processVars, validatorVars, guardianVars, delegatorStake>>

LEMMA OtherStepsLeaveStaged ==
  ASSUME [Next]_vars, ~ProcessVoting
  PROVE  UNCHANGED stagedVars /\ (HasProcessingStarted => UNCHANGED mirrorVars)
<1>1. ASSUME NEW e \in DelegationEvents, Mirror(e)
      PROVE  UNCHANGED stagedVars /\ ~HasProcessingStarted
  BY <1>1 DEF Mirror, stagedVars, environmentVars
<1>2. CASE AdvanceEthereum \/ AdvanceOrbs \/ UNCHANGED vars
  BY <1>2 DEF AdvanceEthereum, AdvanceOrbs, vars, environmentVars, stagedVars
<1> QED
  BY <1>1, <1>2 DEF Next

(* The first call reads a final block.                                      *)
LEMMA ElectionBlockIsFinal ==
  ASSUME CalendarInv, ReadValidators
  PROVE  CurrentElectionBlock \in Block
<1>1. CurrentElectionBlock \in Nat
  BY CalendarQueries, PeriodsTyped
<1>2. ethBlock >= CurrentElectionBlock + MirrorPeriod
  BY DEF ReadValidators, IsProcessingPeriod, HasProcessingStarted, ProcessingStartBlock
<1> QED
  BY <1>1, <1>2, PeriodsTyped DEF CalendarInv, ClocksOK, Block

LEMMA AdvanceTyped ==
  ASSUME NEW count, NEW stage, processItem \in Nat, AdvanceOrMoveTo(count, stage)
  PROVE  processItem' \in Nat
  BY DEF AdvanceOrMoveTo, MoveTo

LEMMA StorageStep ==
  ASSUME StorageOK, ProcessOK, CalendarInv, MirrorTypeOK', [Next]_vars
  PROVE  StorageOK' /\ ProcessOK'
<1>1. delegators' \in Seq(Address)
  BY DEF MirrorTypeOK
<1>2. CASE ~ProcessVoting
  BY <1>1, <1>2, OtherStepsLeaveStaged
  DEF stagedVars, processVars, validatorVars, guardianVars, StorageOK, ProcessOK,
      HasProcessingStarted
<1>3. CASE ReadValidators
  <2>1. CurrentElectionBlock \in Block
    BY <1>3, ElectionBlockIsFinal
  <2>2. validatorSlots' \in Seq(Address) /\ validatorCount' \in 0 .. Len(validatorSlots')
    BY <1>3, <2>1, EthereumTyped, OverwriteShows DEF ReadValidators, StorageOK
  <2>3. processItem' \in Nat
    BY <1>3 DEF ReadValidators, MoveTo
  <2> QED
    BY <1>1, <1>3, <2>1, <2>2, <2>3
    DEF ReadValidators, environmentVars, guardianVars, StorageOK, ProcessOK
<1>4. CASE ReadGuardians
  <2>1. HasProcessingStarted /\ processBlock \in Block
    BY <1>4 DEF ReadGuardians, ProcessOK, HasProcessingStarted, GuardiansState, NoState
  <2>2. guardians' \in Seq(Address)
    BY <1>4, <2>1, EthereumTyped DEF ReadGuardians
  <2>3. DOMAIN guardianData' = Account
    BY <1>4 DEF ReadGuardians, ReplaceGuardians
  <2>4. \A a \in Account : "isGuardian" \in DOMAIN guardianData'[a]
    BY <1>4 DEF ReadGuardians, ReplaceGuardians, StorageOK, UnknownGuardian
  <2>5. processItem' \in Nat
    BY <1>4 DEF ReadGuardians, MoveTo
  <2> QED
    BY <1>1, <1>4, <2>1, <2>2, <2>3, <2>4, <2>5
    DEF ReadGuardians, environmentVars, validatorVars, StorageOK, ProcessOK
<1>5. CASE CollectValidator
  <2>1. processItem' \in Nat
    BY <1>5, AdvanceTyped DEF CollectValidator, StorageOK
  <2>2. DOMAIN validatorData' = Account
    BY <1>5 DEF CollectValidator, StorageOK
  <2>3. processState # NoState
    BY <1>5 DEF CollectValidator, ValidatorsState, NoState
  <2> QED
    BY <1>1, <1>5, <2>1, <2>2, <2>3
    DEF CollectValidator, environmentVars, guardianVars, StorageOK, ProcessOK,
        HasProcessingStarted
<1>6. CASE CollectGuardian
  <2>1. processItem' \in Nat
    BY <1>6, AdvanceTyped DEF CollectGuardian, StorageOK
  <2>2. DOMAIN guardianData' = Account
    BY <1>6 DEF CollectGuardian, StorageOK
  <2>3. \A a \in Account : "isGuardian" \in DOMAIN guardianData'[a]
    BY <1>6 DEF CollectGuardian, StorageOK
  <2>4. processState # NoState
    BY <1>6 DEF CollectGuardian, GuardiansDataState, NoState
  <2> QED
    BY <1>1, <1>6, <2>1, <2>2, <2>3, <2>4
    DEF CollectGuardian, environmentVars, validatorVars, StorageOK, ProcessOK,
        HasProcessingStarted
<1>7. CASE CollectDelegator
  <2>1. processItem' \in Nat
    BY <1>7, AdvanceTyped DEF CollectDelegator, StorageOK
  <2>2. DOMAIN delegatorStake' = Account
    BY <1>7 DEF CollectDelegator, StorageOK
  <2>3. processState # NoState
    BY <1>7 DEF CollectDelegator, DelegatorsState, NoState
  <2> QED
    BY <1>1, <1>7, <2>1, <2>2, <2>3
    DEF CollectDelegator, environmentVars, validatorVars, guardianVars, StorageOK, ProcessOK,
        HasProcessingStarted
<1>8. CASE Conclude
  <2>1. DOMAIN guardianData' = Account /\ DOMAIN validatorData' = Account
    BY <1>8 DEF Conclude
  <2>2. \A a \in Account : "isGuardian" \in DOMAIN guardianData'[a]
    BY <1>8 DEF Conclude, StorageOK
  <2>3. ~HasProcessingStarted'
    BY <1>8 DEF Conclude, ClearProcess, HasProcessingStarted
  <2> QED
    BY <1>1, <1>8, <2>1, <2>2, <2>3
    DEF Conclude, environmentVars, StorageOK, ProcessOK
<1> QED
  BY <1>2, <1>3, <1>4, <1>5, <1>6, <1>7, <1>8 DEF ProcessVoting

(* The guardian flags after a step, for every step.                         *)
LEMMA FlagsStep ==
  ASSUME StorageOK, ProcessOK, FlagsOK, [Next]_vars
  PROVE  FlagsOK'
<1>1. CASE ReadGuardians
  BY <1>1 DEF ReadGuardians, ReplaceGuardians, UnknownGuardian, FlagsOK, StorageOK
<1>2. CASE CollectGuardian
  BY <1>2 DEF CollectGuardian, FlagsOK, StorageOK
<1>3. CASE Conclude
  BY <1>3 DEF Conclude, FlagsOK, StorageOK
<1>4. CASE ReadValidators \/ CollectValidator \/ CollectDelegator
  BY <1>4 DEF ReadValidators, CollectValidator, CollectDelegator, guardianVars, FlagsOK
<1>5. CASE ~ProcessVoting
  BY <1>5, OtherStepsLeaveStaged DEF stagedVars, guardianVars, FlagsOK
<1> QED
  BY <1>1, <1>2, <1>3, <1>4, <1>5 DEF ProcessVoting

-----------------------------------------------------------------------------
(* The stages, one after the other                                          *)

(* The first n validators are stored as of the election's block; so for     *)
(* guardians and delegators.                                                *)
ValidatorAsOf(v) ==
  /\ validatorData[v].stake = StakeAt(v, processBlock)
  /\ validatorData[v].orbs = ethereum[processBlock].orbsAddress[v]

ValidatorsUpTo(n) ==
  \A i \in 1 .. n : i <= validatorCount => ValidatorAsOf(validatorSlots[i])

GuardianAsOf(g) ==
  LET data == guardianData[g]
      vote == VoteAsOf(g, processBlock)
  IN  data.stake = vote.stake /\ data.voteAt = vote.voteAt /\ data.candidates = vote.candidates

GuardiansUpTo(n) ==
  \A i \in 1 .. n : i <= Len(guardians) => GuardianAsOf(guardians[i])

DelegatorAsOf(d) ==
  delegatorStake[d] = IF d \in ToSet(guardians) THEN 0 ELSE StakeAt(d, processBlock)

DelegatorsUpTo(n) ==
  \A i \in 1 .. n : i <= Len(delegators) => DelegatorAsOf(delegators[i])

(* StagedDataIsOfElectionBlock, stage by stage.                             *)
ValidatorsCollected ==
  /\ processState = ValidatorsState => ValidatorsUpTo(processItem)
  /\ processState \in {GuardiansDataState, DelegatorsState, CalculationsState} =>
       ValidatorsUpTo(validatorCount)

GuardiansRead ==
  processState \in {ValidatorsState, GuardiansDataState, DelegatorsState, CalculationsState} =>
    guardians = ethereum[processBlock].guardians

GuardiansCollected ==
  /\ processState = GuardiansDataState => GuardiansUpTo(processItem)
  /\ processState \in {DelegatorsState, CalculationsState} => GuardiansUpTo(Len(guardians))

DelegatorsCollected ==
  /\ processState = DelegatorsState => DelegatorsUpTo(processItem)
  /\ processState = CalculationsState => DelegatorsUpTo(Len(delegators))

StagedInv ==
  /\ StorageOK /\ ProcessOK /\ FlagsOK /\ ValidatorsOK
  /\ ValidatorsCollected /\ GuardiansRead /\ GuardiansCollected /\ DelegatorsCollected

LEMMA ValidatorsStep ==
  ASSUME StorageOK, ProcessOK, ValidatorsOK, ValidatorsCollected, CalendarInv, [Next]_vars
  PROVE  ValidatorsOK' /\ ValidatorsCollected'
<1> USE DEF NoState, GuardiansState, ValidatorsState, GuardiansDataState, DelegatorsState,
            CalculationsState
<1>1. CASE ReadValidators
  <2>1. CurrentElectionBlock \in Block
    BY <1>1, ElectionBlockIsFinal
  <2> DEFINE new == ethereum[CurrentElectionBlock].validators
  <2>2. new \in Seq(Address)
    BY <2>1, EthereumTyped
  <2>3. /\ validatorSlots' = Overwrite(validatorSlots, new) /\ validatorCount' = Len(new)
        /\ processBlock' = CurrentElectionBlock /\ ethereum' = ethereum
        /\ processState' = GuardiansState
    BY <1>1 DEF ReadValidators, MoveTo, environmentVars
  <2>4. SubSeq(Overwrite(validatorSlots, new), 1, Len(new)) = new
    BY <2>2, OverwriteShows DEF StorageOK
  <2> QED
    BY <2>3, <2>4 DEF ValidatorsOK, StagedValidators, ValidatorsCollected
<1>2. CASE CollectValidator
  <2>0. PICK v : v = AtIndex(validatorSlots, processItem)
    OBVIOUS
  <2>1. /\ UNCHANGED <<ethereum, processBlock, validatorSlots, validatorCount>>
        /\ processState = ValidatorsState
        /\ AdvanceOrMoveTo(validatorCount, GuardiansDataState)
    BY <1>2 DEF CollectValidator, environmentVars
  <2>2. v \in Account /\ (processItem < Len(validatorSlots) => v = validatorSlots[processItem + 1])
    BY <2>0, ItemTyped DEF StorageOK
  <2>3. ValidatorAsOf(v)'
    BY <1>2, <2>0, <2>1, <2>2 DEF CollectValidator, StorageOK, ValidatorAsOf, StakeAt
  <2>4. \A a \in Account : ValidatorAsOf(a) => ValidatorAsOf(a)'
    <3> SUFFICES ASSUME NEW a \in Account, ValidatorAsOf(a)
                 PROVE  ValidatorAsOf(a)'
      OBVIOUS
    <3>1. CASE a = v
      BY <2>3, <3>1
    <3>2. CASE a # v
      BY <1>2, <2>0, <2>1, <2>2, <3>2 DEF CollectValidator, StorageOK, ValidatorAsOf, StakeAt
    <3> QED
      BY <3>1, <3>2
  <2>5. validatorCount \in Nat /\ validatorCount <= Len(validatorSlots)
    BY DEF StorageOK
  <2>6. ASSUME NEW i \in 1 .. processItem + 1, i <= validatorCount
        PROVE  \A a : a = validatorSlots[i] => ValidatorAsOf(a)'
    <3>1. validatorSlots[i] \in Account
      BY <2>5, <2>6 DEF StorageOK, Account
    <3>2. CASE i = processItem + 1
      BY <2>2, <2>3, <2>5, <2>6, <3>2 DEF StorageOK
    <3>3. CASE i \in 1 .. processItem
      BY <2>1, <2>4, <2>6, <3>1, <3>3 DEF ValidatorsCollected, ValidatorsUpTo
    <3> QED
      BY <2>6, <3>2, <3>3 DEF StorageOK
  <2>7. ValidatorsOK'
    BY <2>1 DEF ValidatorsOK, StagedValidators, HasProcessingStarted
  <2> QED
    BY <2>1, <2>5, <2>6, <2>7
    DEF AdvanceOrMoveTo, MoveTo, ValidatorsCollected, ValidatorsUpTo, StorageOK
<1>3. CASE ReadGuardians
  BY <1>3
  DEF ReadGuardians, MoveTo, environmentVars, validatorVars, ValidatorsOK, ValidatorsCollected,
      ValidatorsUpTo, StagedValidators, HasProcessingStarted
<1>4. CASE CollectGuardian \/ CollectDelegator
  <2>1. UNCHANGED <<ethereum, processBlock, validatorSlots, validatorCount, validatorData>>
    BY <1>4 DEF CollectGuardian, CollectDelegator, environmentVars, validatorVars
  <2>2. {processState, processState'}
          \subseteq {GuardiansDataState, DelegatorsState, CalculationsState}
    BY <1>4 DEF CollectGuardian, CollectDelegator, AdvanceOrMoveTo, MoveTo
  <2>3. \A a : ValidatorAsOf(a) <=> ValidatorAsOf(a)'
    BY <2>1 DEF ValidatorAsOf, StakeAt
  <2>4. ValidatorsOK'
    BY <2>1, <2>2 DEF ValidatorsOK, StagedValidators, HasProcessingStarted
  <2> QED
    BY <2>1, <2>2, <2>3, <2>4 DEF ValidatorsCollected, ValidatorsUpTo
<1>5. CASE Conclude
  BY <1>5 DEF Conclude, ClearProcess, HasProcessingStarted, ValidatorsOK, ValidatorsCollected
<1>6. CASE ~ProcessVoting
  <2>1. UNCHANGED <<ethereum, processState, processItem, processBlock, validatorSlots,
                    validatorCount, validatorData>>
    BY <1>6, OtherStepsLeaveStaged DEF stagedVars, processVars, validatorVars
  <2>2. \A a : ValidatorAsOf(a) <=> ValidatorAsOf(a)'
    BY <2>1 DEF ValidatorAsOf, StakeAt
  <2>3. ValidatorsOK'
    BY <2>1 DEF ValidatorsOK, StagedValidators, HasProcessingStarted
  <2> QED
    BY <2>1, <2>2, <2>3 DEF ValidatorsCollected, ValidatorsUpTo
<1> QED
  BY <1>1, <1>2, <1>3, <1>4, <1>5, <1>6 DEF ProcessVoting

LEMMA GuardiansStep ==
  ASSUME StorageOK, ProcessOK, GuardiansRead, GuardiansCollected, [Next]_vars
  PROVE  GuardiansRead' /\ GuardiansCollected'
<1> USE DEF NoState, GuardiansState, ValidatorsState, GuardiansDataState, DelegatorsState,
            CalculationsState
<1>1. CASE ReadValidators
  BY <1>1 DEF ReadValidators, MoveTo, GuardiansRead, GuardiansCollected
<1>2. CASE ReadGuardians
  BY <1>2 DEF ReadGuardians, MoveTo, environmentVars, GuardiansRead, GuardiansCollected
<1>3. CASE CollectValidator
  <2>1. UNCHANGED <<ethereum, processBlock, guardians>>
    BY <1>3 DEF CollectValidator, environmentVars, guardianVars
  <2>2. /\ processState = ValidatorsState
        /\ \/ processState' = ValidatorsState
           \/ processState' = GuardiansDataState /\ processItem' = 0
    BY <1>3 DEF CollectValidator, AdvanceOrMoveTo, MoveTo
  <2> QED
    BY <2>1, <2>2 DEF GuardiansRead, GuardiansCollected, GuardiansUpTo
<1>4. CASE CollectGuardian
  <2>0. PICK g : g = AtIndex(guardians, processItem)
    OBVIOUS
  <2>1. /\ UNCHANGED <<ethereum, processBlock, guardians>>
        /\ processState = GuardiansDataState
        /\ AdvanceOrMoveTo(Len(guardians), DelegatorsState)
    BY <1>4 DEF CollectGuardian, environmentVars
  <2>2. g \in Account /\ (processItem < Len(guardians) => g = guardians[processItem + 1])
    BY <2>0, ItemTyped DEF StorageOK
  <2>3. GuardianAsOf(g)'
    <3>1. earliestVote = processBlock - (VoteValidPeriod - 1)
      BY <2>1 DEF ProcessOK, HasProcessingStarted
    <3>2. IsValidVote(ethereum[processBlock].vote[g].block) <=>
            /\ ethereum[processBlock].vote[g].block # 0
            /\ ethereum[processBlock].vote[g].block >= processBlock - (VoteValidPeriod - 1)
      BY <3>1 DEF IsValidVote
    <3>3. VoteAsOf(g, processBlock)' = VoteAsOf(g, processBlock)
      <4>1. StakeAt(g, processBlock)' = StakeAt(g, processBlock)
        BY <2>1 DEF StakeAt
      <4> QED
        BY <2>1, <4>1 DEF VoteAsOf
    <3>4. CASE IsValidVote(ethereum[processBlock].vote[g].block)
      BY <1>4, <2>0, <2>2, <3>2, <3>3, <3>4
      DEF CollectGuardian, StorageOK, GuardianAsOf, VoteAsOf
    <3>5. CASE ~IsValidVote(ethereum[processBlock].vote[g].block)
      BY <1>4, <2>0, <2>2, <3>2, <3>3, <3>5
      DEF CollectGuardian, StorageOK, GuardianAsOf, VoteAsOf
    <3> QED
      BY <3>4, <3>5
  <2>4. \A a \in Account : GuardianAsOf(a) => GuardianAsOf(a)'
    <3> SUFFICES ASSUME NEW a \in Account, GuardianAsOf(a)
                 PROVE  GuardianAsOf(a)'
      OBVIOUS
    <3>1. CASE a = g
      BY <2>3, <3>1
    <3>2. CASE a # g
      <4>1. guardianData'[a] = guardianData[a]
        BY <1>4, <2>0, <2>2, <3>2 DEF CollectGuardian, StorageOK
      <4>2. VoteAsOf(a, processBlock)' = VoteAsOf(a, processBlock)
        BY <2>1 DEF VoteAsOf, StakeAt
      <4> QED
        BY <4>1, <4>2 DEF GuardianAsOf
    <3> QED
      BY <3>1, <3>2
  <2>5. ASSUME NEW i \in 1 .. processItem + 1, i <= Len(guardians)
        PROVE  \A a : a = guardians[i] => GuardianAsOf(a)'
    <3>1. guardians[i] \in Account
      BY <2>5 DEF StorageOK, Account
    <3>2. CASE i = processItem + 1
      BY <2>2, <2>3, <2>5, <3>2 DEF StorageOK
    <3>3. CASE i \in 1 .. processItem
      BY <2>1, <2>4, <2>5, <3>1, <3>3 DEF GuardiansCollected, GuardiansUpTo
    <3> QED
      BY <2>5, <3>2, <3>3 DEF StorageOK
  <2> QED
    BY <2>1, <2>5
    DEF AdvanceOrMoveTo, MoveTo, GuardiansRead, GuardiansCollected, GuardiansUpTo, StorageOK
<1>5. CASE CollectDelegator
  <2>1. UNCHANGED <<ethereum, processBlock, guardians, guardianData>>
    BY <1>5 DEF CollectDelegator, environmentVars, guardianVars
  <2>2. processState = DelegatorsState /\ processState' \in {DelegatorsState, CalculationsState}
    BY <1>5 DEF CollectDelegator, AdvanceOrMoveTo, MoveTo
  <2>3. \A a : GuardianAsOf(a) <=> GuardianAsOf(a)'
    BY <2>1 DEF GuardianAsOf, VoteAsOf, StakeAt
  <2> QED
    BY <2>1, <2>2, <2>3 DEF GuardiansRead, GuardiansCollected, GuardiansUpTo
<1>6. CASE Conclude
  BY <1>6 DEF Conclude, ClearProcess, GuardiansRead, GuardiansCollected
<1>7. CASE ~ProcessVoting
  <2>1. UNCHANGED <<ethereum, processState, processItem, processBlock, guardians, guardianData>>
    BY <1>7, OtherStepsLeaveStaged DEF stagedVars, processVars, guardianVars
  <2>2. \A a : GuardianAsOf(a) <=> GuardianAsOf(a)'
    BY <2>1 DEF GuardianAsOf, VoteAsOf, StakeAt
  <2> QED
    BY <2>1, <2>2 DEF GuardiansRead, GuardiansCollected, GuardiansUpTo
<1> QED
  BY <1>1, <1>2, <1>3, <1>4, <1>5, <1>6, <1>7 DEF ProcessVoting

LEMMA DelegatorsStep ==
  ASSUME StorageOK, ProcessOK, FlagsOK, DelegatorsCollected, [Next]_vars
  PROVE  DelegatorsCollected'
<1> USE DEF NoState, GuardiansState, ValidatorsState, GuardiansDataState, DelegatorsState,
            CalculationsState
<1>1. CASE ReadValidators \/ ReadGuardians \/ CollectValidator
  BY <1>1
  DEF ReadValidators, ReadGuardians, CollectValidator, AdvanceOrMoveTo, MoveTo,
      DelegatorsCollected
<1>2. CASE CollectGuardian
  <2>1. \/ processState' = GuardiansDataState
        \/ processState' = DelegatorsState /\ processItem' = 0
    BY <1>2 DEF CollectGuardian, AdvanceOrMoveTo, MoveTo
  <2> QED
    BY <2>1 DEF DelegatorsCollected, DelegatorsUpTo
<1>3. CASE CollectDelegator
  <2>0. PICK d : d = AtIndex(delegators, processItem)
    OBVIOUS
  <2>1. /\ UNCHANGED <<ethereum, processBlock, guardians, delegators>>
        /\ processState = DelegatorsState
        /\ AdvanceOrMoveTo(Len(delegators), CalculationsState)
    BY <1>3 DEF CollectDelegator, environmentVars, guardianVars, mirrorVars
  <2>2. d \in Account /\ (processItem < Len(delegators) => d = delegators[processItem + 1])
    BY <2>0, ItemTyped DEF StorageOK
  <2>3. \A a : StakeAt(a, processBlock)' = StakeAt(a, processBlock)
    BY <2>1 DEF StakeAt
  <2>4. DelegatorAsOf(d)'
    BY <1>3, <2>0, <2>1, <2>2, <2>3 DEF CollectDelegator, StorageOK, FlagsOK, DelegatorAsOf
  <2>5. \A a \in Account : DelegatorAsOf(a) => DelegatorAsOf(a)'
    <3> SUFFICES ASSUME NEW a \in Account, DelegatorAsOf(a)
                 PROVE  DelegatorAsOf(a)'
      OBVIOUS
    <3>1. CASE a = d
      BY <2>4, <3>1
    <3>2. CASE a # d
      BY <1>3, <2>0, <2>1, <2>2, <2>3, <3>2 DEF CollectDelegator, StorageOK, DelegatorAsOf
    <3> QED
      BY <3>1, <3>2
  <2>6. ASSUME NEW i \in 1 .. processItem + 1, i <= Len(delegators)
        PROVE  \A a : a = delegators[i] => DelegatorAsOf(a)'
    <3>1. delegators[i] \in Account
      BY <2>6 DEF StorageOK, Account
    <3>2. CASE i = processItem + 1
      BY <2>2, <2>4, <2>6, <3>2 DEF StorageOK
    <3>3. CASE i \in 1 .. processItem
      BY <2>1, <2>5, <2>6, <3>1, <3>3 DEF DelegatorsCollected, DelegatorsUpTo
    <3> QED
      BY <2>6, <3>2, <3>3 DEF StorageOK
  <2>7. CASE processItem + 1 >= Len(delegators)
    <3>1. processState' = CalculationsState
      BY <2>1, <2>7 DEF AdvanceOrMoveTo, MoveTo
    <3> QED
      BY <2>1, <2>6, <2>7, <3>1 DEF DelegatorsCollected, DelegatorsUpTo, StorageOK
  <2>8. CASE ~(processItem + 1 >= Len(delegators))
    <3>1. processState' = DelegatorsState /\ processItem' = processItem + 1
      BY <2>1, <2>8 DEF AdvanceOrMoveTo
    <3> QED
      BY <2>1, <2>6, <3>1 DEF DelegatorsCollected, DelegatorsUpTo
  <2> QED
    BY <2>7, <2>8
<1>4. CASE Conclude
  BY <1>4 DEF Conclude, ClearProcess, DelegatorsCollected
<1>5. CASE ~ProcessVoting
  <2>1. /\ UNCHANGED <<ethereum, processState, processItem, processBlock, guardians,
                       delegatorStake>>
        /\ processState # NoState => UNCHANGED delegators
    BY <1>5, OtherStepsLeaveStaged
    DEF stagedVars, processVars, guardianVars, mirrorVars, HasProcessingStarted
  <2>2. \A a : DelegatorAsOf(a) <=> DelegatorAsOf(a)'
    BY <2>1 DEF DelegatorAsOf, StakeAt
  <2> QED
    BY <2>1, <2>2 DEF DelegatorsCollected, DelegatorsUpTo
<1> QED
  BY <1>1, <1>2, <1>3, <1>4, <1>5 DEF ProcessVoting

LEMMA StagedAlways == Spec => []StagedInv
<1>1. Init => StagedInv
  <2> SUFFICES ASSUME Init
               PROVE  StagedInv
    OBVIOUS
  <2>1. ethereum \in [Block -> EthereumState]
    BY HistoriesAssumption DEF Init
  <2>2. StorageOK
    BY <2>1 DEF Init, MirrorInit, StorageOK, UnknownGuardian
  <2>3. FlagsOK
    BY DEF Init, FlagsOK, UnknownGuardian, ToSet
  <2> QED
    BY <2>2, <2>3
    DEF Init, StagedInv, ProcessOK, ValidatorsOK, HasProcessingStarted, ValidatorsCollected,
        GuardiansRead, GuardiansCollected, DelegatorsCollected, NoState, GuardiansState,
        ValidatorsState, GuardiansDataState, DelegatorsState, CalculationsState
<1>2. StagedInv /\ CalendarInv /\ MirrorTypeOK' /\ [Next]_vars => StagedInv'
  BY StorageStep, FlagsStep, ValidatorsStep, GuardiansStep, DelegatorsStep DEF StagedInv
<1> QED
  BY <1>1, <1>2, CalendarAlways, SpecMirrors, MirrorTypeCorrect, PTL DEF Spec

(* Whatever happens between the calls of an election, the data it stages is *)
(* Ethereum's at the election's block.                                      *)
THEOREM StagedDataAlwaysOfElectionBlock == Spec => []StagedDataIsOfElectionBlock
<1>1. StagedInv => StagedDataIsOfElectionBlock
  <2> USE DEF NoState, GuardiansState, ValidatorsState, GuardiansDataState, DelegatorsState,
              CalculationsState
  <2> SUFFICES ASSUME StagedInv
               PROVE  StagedDataIsOfElectionBlock
    OBVIOUS
  <2>1. StagedValidatorsMatch
    BY StagesInOrder
    DEF StagedInv, ValidatorsOK, ValidatorsCollected, ValidatorsUpTo, ValidatorAsOf,
        StagedValidatorsMatch, Collected
  <2>2. StagedGuardiansMatch
    BY StagesInOrder
    DEF StagedInv, FlagsOK, GuardiansRead, GuardiansCollected, GuardiansUpTo, GuardianAsOf,
        StagedGuardiansMatch, Collected
  <2>3. StagedDelegatorsMatch
    BY StagesInOrder
    DEF StagedInv, DelegatorsCollected, DelegatorsUpTo, DelegatorAsOf, StagedDelegatorsMatch,
        Collected
  <2> QED
    BY <2>1, <2>2, <2>3 DEF StagedDataIsOfElectionBlock
<1> QED
  BY <1>1, StagedAlways, PTL

-----------------------------------------------------------------------------
(* The minimum committee                                                    *)

KeepsMinimum(result) ==
  \/ Len(result.eth) >= MinElectedValidators
  \/ result.eth = ethereum[result.block].validators

LEMMA MinimumStep ==
  ASSUME StagedInv, CalendarInv, CommitteeKeepsMinimum, [Next]_vars
  PROVE  CommitteeKeepsMinimum'
<1>1. CASE Conclude
  <2>1. PICK tally : elections' = Append(elections, ElectionResult(Elected(StagedValidators, tally)))
    BY <1>1 DEF Conclude
  <2> DEFINE result == ElectionResult(Elected(StagedValidators, tally))
  <2>2. /\ ethereum' = ethereum /\ HasProcessingStarted
    BY <1>1 DEF Conclude, environmentVars, HasProcessingStarted, CalculationsState, NoState
  <2>3. /\ DOMAIN elections = 1 .. Len(elections)
        /\ DOMAIN elections' = 1 .. Len(elections) + 1
        /\ \A i \in DOMAIN elections : elections'[i] = elections[i]
        /\ elections'[Len(elections) + 1] = result
    <3> HIDE DEF result
    <3>1. elections' = Append(elections, result)
      BY <2>1 DEF result
    <3> QED
      BY <3>1, AppendedSequence DEF CalendarInv, ElectionsScheduled
  <2>4. KeepsMinimum(result)
    <3>1. result.eth = Elected(StagedValidators, tally) /\ result.block = processBlock
      BY DEF ElectionResult
    <3>2. StagedValidators = ethereum[processBlock].validators
      BY <2>2 DEF StagedInv, ValidatorsOK
    <3>3. \/ Len(Elected(StagedValidators, tally)) >= MinElectedValidators
          \/ Elected(StagedValidators, tally) = StagedValidators
      BY DEF Elected
    <3> QED
      BY <3>1, <3>2, <3>3 DEF KeepsMinimum
  <2> HIDE DEF result
  <2>5. Len(elections) \in Nat
    BY CalendarQueries
  <2>6. \A i \in DOMAIN elections' : KeepsMinimum(elections'[i])
    BY <2>3, <2>4, <2>5 DEF CommitteeKeepsMinimum, KeepsMinimum
  <2> QED
    BY <2>2, <2>6 DEF CommitteeKeepsMinimum, KeepsMinimum
<1>2. CASE ~Conclude
  <2>1. UNCHANGED <<elections, ethereum>>
    BY <1>2
    DEF Next, Mirror, ProcessVoting, ReadValidators, ReadGuardians, CollectValidator,
        CollectGuardian, CollectDelegator, AdvanceEthereum, AdvanceOrbs, vars, resultVars,
        environmentVars
  <2> QED
    BY <2>1 DEF CommitteeKeepsMinimum
<1> QED
  BY <1>1, <1>2

(* No vote brings a committee under the minimum.                            *)
THEOREM CommitteeAlwaysKeepsMinimum == Spec => []CommitteeKeepsMinimum
<1>1. Init => CommitteeKeepsMinimum
  BY DEF Init, CommitteeKeepsMinimum
<1>2. StagedInv /\ CalendarInv /\ CommitteeKeepsMinimum /\ [Next]_vars => CommitteeKeepsMinimum'
  BY MinimumStep
<1> QED
  BY <1>1, <1>2, StagedAlways, CalendarAlways, PTL DEF Spec

-----------------------------------------------------------------------------
(* IV.  The tally and its definition in module ElectionReference.           *)

(* The words of module ElectionReference.                                   *)
LEMMA ReferenceElectorate ==
  ASSUME NEW g, NEW gs, NEW ag
  PROVE  Reference!Electorate(g, gs, ag) = SpokenFor(g, gs, ag)
BY DEF Reference!Electorate, Reference!Closed, SpokenFor, Reference!Account, Account

(* The reference's operators are the library's, instantiated.               *)
LEMMA ReferenceStake ==
  ASSUME NEW S, NEW stake
  PROVE  Reference!StakeOf(S, stake) = SumFunctionOnSet(stake, S)
BY DEF Reference!StakeOf, Reference!MapThenSumSet, Reference!MapThenFoldSet, SumFunctionOnSet,
       FoldFunctionOnSet, MapThenFoldSet

LEMMA ReferenceCardinality ==
  ASSUME NEW S PROVE Reference!Cardinality(S) = Cardinality(S)
BY DEF Reference!Cardinality, Cardinality

(* The data that are reached: whoever delegates is listed.                  *)
TallyInv ==
  /\ guardianList \in GuardianLists
  /\ agentOf \in [Account -> Account]
  /\ \A d \in Address : agentOf[d] \in Address => d \in ToSet(Listed)

(* The data the checked instance varies stay data of an election.           *)
LEMMA TallyInvAlways == TallySpec => []TallyInv
<1>1. TallyInit => TallyInv
  <2> SUFFICES ASSUME TallyInit PROVE TallyInv
    OBVIOUS
  <2>1. \A d \in Address : agentOf[d] = EmptyAddress
    BY DEF TallyInit, Account
  <2>2. EmptyAddress \notin Address
    BY EmptyAddressAssumption
  <2> QED BY <2>1, <2>2 DEF TallyInit, TallyInv, Account
<1>2. TallyInv /\ [TallyNext]_tallyVars => TallyInv'
  <2> SUFFICES ASSUME TallyInv, [TallyNext]_tallyVars PROVE TallyInv'
    OBVIOUS
  <2>1. ASSUME NEW d \in ToSet(Listed), NEW to \in Account \ {d}, Redelegate(d, to) PROVE TallyInv'
    <3>1. /\ agentOf' = [agentOf EXCEPT ![d] = to] /\ guardianList' = guardianList
          /\ agentOf \in [Account -> Account]
      BY <2>1 DEF Redelegate, TallyInv
    <3>2. \A e \in Address : agentOf'[e] \in Address => e \in ToSet(Listed)
      BY <3>1 DEF TallyInv, Account
    <3> QED BY <3>1, <3>2 DEF TallyInv
  <2>2. ASSUME NEW g, NEW S, VoteOut(g, S) PROVE TallyInv'
    BY <2>2 DEF VoteOut, TallyInv
  <2>3. CASE UNCHANGED tallyVars
    BY <2>3 DEF tallyVars, TallyInv
  <2> QED BY <2>1, <2>2, <2>3 DEF TallyNext
<1> QED BY <1>1, <1>2, PTL DEF TallySpec

(* The tally of the data that are reached.                                  *)
LEMMA ResultIs ==
  ASSUME TallyInv, NEW t, t = Result
  PROVE  Counted(t, CastingNow, ToSet(guardianList), agentOf, ballot, StakeOfAll)
<1>1. /\ guardianList \in Seq(Address) /\ IsInjective(guardianList)
      /\ StakeOfAll \in [Account -> Nat] /\ Listed \in Seq(Address)
  BY TallyDataAssumption DEF TallyInv
<1>2. ToSet(guardianList) \subseteq Address /\ ToSet(Listed) \subseteq Address
  BY <1>1 DEF ToSet
<1>3. CastingNow \subseteq ToSet(guardianList)
  BY DEF CastingNow, RegisteredGuardians
<1>4. DataOK(guardianList, CollectedGuardians, Listed, agentOf, CollectedDelegators)
  <2>1. \A a \in Account : CollectedGuardians[a].stake \in Nat
    BY <1>1 DEF CollectedGuardians
  <2>2. CollectedDelegators \in [Account -> Nat]
    BY <1>1 DEF CollectedDelegators
  <2> QED BY <1>1, <2>1, <2>2 DEF DataOK, TallyInv
<1>5. CastOf(guardianList, CollectedGuardians) = CastingNow
  BY <1>2, <1>3 DEF CastOf, CollectedGuardians, RegisteredGuardians, Account
<1>6. \A g \in CastingNow : CollectedGuardians[g].candidates = ballot[g]
                            /\ CollectedGuardians[g].stake = StakeOfAll[g]
  BY <1>2, <1>3 DEF CollectedGuardians, Account
<1>7. \A a \in ToSet(Listed) \ ToSet(guardianList) : CollectedDelegators[a] = StakeOfAll[a]
  BY <1>2 DEF CollectedDelegators, RegisteredGuardians, Account
<1>8. Agree(guardianList, CollectedGuardians, Listed, agentOf, CollectedDelegators, CastingNow,
            ballot, StakeOfAll)
  BY <1>1, <1>4, <1>5, <1>6, <1>7 DEF Agree
<1> QED BY <1>8, TallyCounts DEF Result

(* A sum of shares of a hundred.                                            *)
LEMMA ThresholdTyped ==
  ASSUME NEW n \in Nat PROVE VoteOutThreshold(n) \in Nat
<1>1. VoteOutWeightPercent \in Nat
  BY TallyAssumption
<1>2. n * VoteOutWeightPercent \in Nat
  BY <1>1
<1> QED BY <1>2, RoundedDown DEF VoteOutThreshold

(* A committee in the words of these proofs.                                *)
VotedOutBy(v, cast, gs, ag, ballots, stake) ==
  /\ \E g \in cast : v \in ballots[g]
  /\ SumFunctionOnSet(stake, Electors({g \in cast : v \in ballots[g]}, gs, ag))
       >= (SumFunctionOnSet(stake, Electors(cast, gs, ag)) * VoteOutWeightPercent) \div 100

CommitteeOf(candidates, cast, gs, ag, ballots, stake) ==
  LET staying == {v \in candidates : ~VotedOutBy(v, cast, gs, ag, ballots, stake)}
  IN  IF Cardinality(staying) < MinElectedValidators THEN candidates ELSE staying

(* It is elected.                                                           *)
LEMMA ElectedAre ==
  ASSUME NEW t, NEW cast, NEW gs, NEW ag, NEW ballots, NEW stake,
         Counted(t, cast, gs, ag, ballots, stake), NEW V \in Seq(Address), IsInjective(V)
  PROVE  /\ ToSet(Elected(V, t)) = CommitteeOf(ToSet(V), cast, gs, ag, ballots, stake)
         /\ Elected(V, t) \in Seq(Address) /\ IsInjective(Elected(V, t))
<1>1. ToSet(V) \subseteq Account
  BY DEF ToSet, Account
<1>2. /\ t.total = SumFunctionOnSet(stake, Electors(cast, gs, ag)) /\ t.total \in Nat
      /\ t.named = UNION {ballots[g] : g \in cast}
      /\ \A v \in Account :
           /\ t.against[v] \in Nat
           /\ t.against[v] = SumFunctionOnSet(stake, Electors({g \in cast : v \in ballots[g]}, gs, ag))
  BY DEF Counted, Counts
<1>3. ASSUME NEW v \in ToSet(V)
      PROVE  Stays(v, t) <=> ~VotedOutBy(v, cast, gs, ag, ballots, stake)
  <2>1. v \in t.named <=> \E g \in cast : v \in ballots[g]
    BY <1>2
  <2>2. PICK w \in Nat : w = t.against[v]
    BY <1>1, <1>2
  <2>3. w = SumFunctionOnSet(stake, Electors({g \in cast : v \in ballots[g]}, gs, ag))
    BY <1>1, <1>2, <2>2
  <2>4. PICK limit \in Nat : limit = VoteOutThreshold(t.total)
    BY <1>2, ThresholdTyped
  <2>5. Stays(v, t) <=> v \notin t.named \/ w < limit
    BY <2>2, <2>4 DEF Stays
  <2>6. VotedOutBy(v, cast, gs, ag, ballots, stake) <=> v \in t.named /\ w >= limit
    BY <1>2, <2>1, <2>3, <2>4 DEF VotedOutBy, VoteOutThreshold
  <2> QED BY <2>5, <2>6
<1> DEFINE staying == {v \in ToSet(V) : Stays(v, t)}
<1>4. /\ ToSet(Elected(V, t)) =
           IF Cardinality(staying) < MinElectedValidators THEN ToSet(V) ELSE staying
      /\ Elected(V, t) \in Seq(Address) /\ IsInjective(Elected(V, t))
  BY ElectedIs
<1>5. staying = {v \in ToSet(V) : ~VotedOutBy(v, cast, gs, ag, ballots, stake)}
  BY <1>3
<1> HIDE DEF staying
<1> QED BY <1>4, <1>5 DEF CommitteeOf

(* It is the committee of module ElectionReference.                         *)
LEMMA ReferenceCommittee ==
  ASSUME NEW candidates, NEW cast, NEW gs, NEW ag, NEW ballots, NEW stake
  PROVE  Reference!Committee(candidates, cast, gs, ballots, ag, stake)
           = CommitteeOf(candidates, cast, gs, ag, ballots, stake)
<1>1. \A R : UNION {Reference!Electorate(g, gs, ag) : g \in R} = Electors(R, gs, ag)
  BY ReferenceElectorate DEF Electors
<1>2. \A v : Reference!VotedOut(v, cast, gs, ballots, ag, stake)
              <=> VotedOutBy(v, cast, gs, ag, ballots, stake)
  BY <1>1, ReferenceStake
     DEF Reference!VotedOut, Reference!WeightAgainst, Reference!TotalWeight, VotedOutBy
<1> DEFINE staying == {v \in candidates : ~VotedOutBy(v, cast, gs, ag, ballots, stake)}
<1>3. staying = {v \in candidates : ~Reference!VotedOut(v, cast, gs, ballots, ag, stake)}
  BY <1>2
<1> HIDE DEF staying
<1>4. Reference!Cardinality(staying) = Cardinality(staying)
  BY ReferenceCardinality
<1> QED BY <1>3, <1>4 DEF Reference!Committee, CommitteeOf, staying

(* On every graph of delegations, with every list of guardians, delegators  *)
(* and candidates, every stakes and ballots, what processVoting's           *)
(* traversal counts, elects and pays is what the definition says: everyone  *)
(* behind a guardian once, the committee, and payments within the pool.     *)
THEOREM TallyIsAlwaysTheReferences == TallySpec => []TallyIsTheReferences
<1>1. TallyInv => TallyIsTheReferences
  <2> SUFFICES ASSUME TallyInv PROVE TallyIsTheReferences
    OBVIOUS
  <2>1. PICK t : t = Result
    OBVIOUS
  <2>2. PICK gs : gs = ToSet(guardianList)
    OBVIOUS
  <2>3. Counted(t, CastingNow, gs, agentOf, ballot, StakeOfAll)
    BY <2>1, <2>2, ResultIs
  <2>4. \A R : UNION {Reference!Electorate(g, gs, agentOf) : g \in R} = Electors(R, gs, agentOf)
    BY ReferenceElectorate DEF Electors
  <2>5. Reference!TotalWeight(CastingNow, gs, agentOf, StakeOfAll) = t.total
    BY <2>3, <2>4, ReferenceStake DEF Reference!TotalWeight, Counted
  <2>6. WeightIsTheElectorates
    BY <2>1, <2>2, <2>3, <2>5, ReferenceElectorate, ReferenceStake
       DEF WeightIsTheElectorates, RegisteredGuardians, Counted
  <2>7. ParticipantsOccurOnce
    BY <2>1, <2>2, <2>3, <2>4 DEF ParticipantsOccurOnce, RegisteredGuardians, Counts, Counted
  <2>8. SelectionIsTheReferences
    <3>1. Candidates \in Seq(Address) /\ IsInjective(Candidates)
      BY TallyDataAssumption
    <3>2. ToSet(Elected(Candidates, t)) =
            Reference!Committee(ToSet(Candidates), CastingNow, gs, ballot, agentOf, StakeOfAll)
      BY <2>3, <3>1, ElectedAre, ReferenceCommittee
    <3> QED BY <2>1, <2>2, <3>2 DEF SelectionIsTheReferences, RegisteredGuardians
  <2>9. ParticipationWithinBudget
    <3>1. ASSUME RewardsPayable(t)
          PROVE  SumFunction(AddParticipation([a \in Account |-> 0], t)) <= ParticipationPool(t.total)
      BY <2>3, <3>1, PaidWithinPool DEF Counted
    <3> QED BY <2>1, <3>1 DEF ParticipationWithinBudget
  <2> QED BY <2>6, <2>7, <2>8, <2>9 DEF TallyIsTheReferences
<1> QED BY <1>1, TallyInvAlways, PTL

-----------------------------------------------------------------------------
(* V.  An election with its tally, from the contract's storage.             *)

(* The registers list nobody twice, at any block.                           *)
RegistersOK ==
  \A b \in Block : IsInjective(ethereum[b].validators) /\ IsInjective(ethereum[b].guardians)

LEMMA EthereumStays == ASSUME [Next]_vars PROVE ethereum' = ethereum
BY DEF Next, Mirror, ProcessVoting, ReadValidators, ReadGuardians, CollectValidator,
       CollectGuardian, CollectDelegator, Conclude, AdvanceEthereum, AdvanceOrbs, vars,
       environmentVars

LEMMA RegistersAlways == Spec => []RegistersOK
<1>1. Init => RegistersOK
  BY HistoriesAssumption DEF Init, RegistersOK
<1>2. RegistersOK /\ [Next]_vars => RegistersOK'
  BY EthereumStays DEF RegistersOK
<1> QED BY <1>1, <1>2, PTL DEF Spec

(* Whom everybody delegates to, as the tally reads it.                      *)
AgentOf == [a \in Account |-> IF a \in Address THEN delegation[a].agent ELSE EmptyAddress]

(* The types of what the contract stores, and what is known of its lists.   *)
StoredOK ==
  /\ TypeOK /\ StagedInv /\ CalendarInv /\ RegistersOK
  /\ StrongestDelegationWins /\ DelegatorsListedOnce

(* Whoever delegates is listed.                                             *)
LEMMA DelegatingAreListed ==
  ASSUME MirrorTypeOK, StrongestDelegationWins, DelegatorsListedOnce
  PROVE  /\ AgentOf \in [Account -> Account]
         /\ \A d \in Address : AgentOf[d] \in Address => d \in ToSet(delegators)
<1>1. ASSUME NEW d \in Address PROVE delegation[d].agent \in Account
  BY DEF MirrorTypeOK, DelegationRecord
<1>2. AgentOf \in [Account -> Account]
  BY <1>1 DEF AgentOf, Account
<1>3. ASSUME NEW d \in Address, AgentOf[d] \in Address
      PROVE  d \in ToSet(delegators)
  <2>1. delegation[d].agent \in Address
    BY <1>3 DEF AgentOf, Account
  <2>2. delegation[d] # NoDelegation
    BY <2>1, EmptyAddressAssumption DEF NoDelegation
  <2>3. PICK e \in OfferedBy(d) : delegation[d] = RecordOf(e)
    <3>1. IF OfferedBy(d) = {}
            THEN delegation[d] = NoDelegation
            ELSE \E e \in OfferedBy(d) :
                   delegation[d] = RecordOf(e) /\ \A f \in OfferedBy(d) \ {e} : Weaker(f, e)
      BY DEF StrongestDelegationWins
    <3> QED BY <2>2, <3>1
  <2>4. e \in DelegationEvents
    BY DEF OfferedBy, MirrorTypeOK
  <2>5. delegation[d].method # NoMethod
    <3>1. e.method # NoMethod
      BY <2>4, EventTyped DEF NoMethod, DelegateMethod, TransferMethod
    <3>2. delegation[d].method = e.method
      BY <2>3 DEF RecordOf
    <3> QED BY <3>1, <3>2
  <2>6. {delegators[i] : i \in DOMAIN delegators} = {x \in Address : delegation[x].method # NoMethod}
    BY DEF DelegatorsListedOnce
  <2>7. d \in {x \in Address : delegation[x].method # NoMethod}
    BY <2>5
  <2>8. ToSet(delegators) = {delegators[i] : i \in DOMAIN delegators}
    BY DEF ToSet
  <2> QED BY ONLY <2>6, <2>7, <2>8
<1> QED BY <1>2, <1>3

(* At the end of the stages the staged data are data of an election: that   *)
(* of the block's registers, votes and stakes.                              *)
CastAt(b) ==
  {g \in ToSet(ethereum[b].guardians) :
     ethereum[b].vote[g].block # 0 /\ ethereum[b].vote[g].block >= b - (VoteValidPeriod - 1)}

BallotsAt(b) == [a \in Address |-> ethereum[b].vote[a].candidates]

StakesAt(b) == [a \in Account |-> StakeAt(a, b)]

LEMMA StakesTyped ==
  ASSUME StorageOK, NEW b \in Block, NEW a \in Account
  PROVE  StakeAt(a, b) \in Nat
<1>1. ethereum[b].balance[a] \in Nat /\ ethereum[b].locked[a] \in Nat
  <2>1. ethereum[b] \in EthereumState
    BY DEF StorageOK
  <2>2. ethereum[b].balance \in [Account -> Nat] /\ ethereum[b].locked \in [Account -> Nat]
    BY ONLY <2>1 DEF EthereumState
  <2> QED BY <2>2
<1>2. EthereumStakeFactor \in Nat /\ EthereumStakeFactor > 0
  BY PeriodsTyped
<1>3. PICK x \in Nat : x = ethereum[b].balance[a]
  BY <1>1
<1>4. PICK y \in Nat : y = ethereum[b].locked[a]
  BY <1>1
<1>5. x \div EthereumStakeFactor \in Nat /\ y \div EthereumStakeFactor \in Nat
  BY <1>2, RoundedDown
<1> QED BY <1>3, <1>4, <1>5 DEF StakeAt

LEMMA StagedAgree ==
  ASSUME StoredOK, processState = CalculationsState, NEW b, b = processBlock
  PROVE  /\ b \in Block /\ guardians = ethereum[b].guardians
         /\ Agree(guardians, guardianData, delegators, AgentOf, delegatorStake,
                  CastAt(b), BallotsAt(b), StakesAt(b))
<1>1. /\ MirrorTypeOK /\ StorageOK /\ StrongestDelegationWins /\ DelegatorsListedOnce
      /\ HasProcessingStarted
  BY DEF StoredOK, TypeOK, StagedInv, HasProcessingStarted, CalculationsState, NoState
<1>2. b \in Block
  BY <1>1 DEF StoredOK, StagedInv, ProcessOK
<1>3. guardians = ethereum[b].guardians /\ GuardiansUpTo(Len(guardians))
      /\ DelegatorsUpTo(Len(delegators))
  BY DEF StoredOK, StagedInv, GuardiansRead, GuardiansCollected, DelegatorsCollected,
         CalculationsState, DelegatorsState, GuardiansDataState, ValidatorsState
<1>4. guardians \in Seq(Address) /\ IsInjective(guardians) /\ delegators \in Seq(Address)
  BY <1>1, <1>2, <1>3 DEF StoredOK, RegistersOK, StorageOK
<1>5. ToSet(guardians) \subseteq Address /\ ToSet(delegators) \subseteq Address
  BY <1>4 DEF ToSet
<1>6. ASSUME NEW g \in ToSet(guardians) PROVE GuardianAsOf(g)
  <2>1. PICK i \in DOMAIN guardians : guardians[i] = g
    BY DEF ToSet
  <2>2. i \in 1 .. Len(guardians) /\ i <= Len(guardians)
    BY <1>4, <2>1
  <2> QED BY <1>3, <2>1, <2>2 DEF GuardiansUpTo
<1>7. ASSUME NEW d \in ToSet(delegators) PROVE DelegatorAsOf(d)
  <2>1. PICK i \in DOMAIN delegators : delegators[i] = d
    BY DEF ToSet
  <2>2. i \in 1 .. Len(delegators) /\ i <= Len(delegators)
    BY <1>4, <2>1
  <2> QED BY <1>3, <2>1, <2>2 DEF DelegatorsUpTo
<1>8. /\ \A a \in Account : guardianData[a].stake \in Nat
      /\ delegatorStake \in [Account -> Nat]
  BY DEF StoredOK, TypeOK
<1>9. DataOK(guardians, guardianData, delegators, AgentOf, delegatorStake)
  BY <1>1, <1>4, <1>8, DelegatingAreListed DEF DataOK
<1>10. StakesAt(b) \in [Account -> Nat]
  BY <1>1, <1>2, StakesTyped DEF StakesAt
<1>11. ASSUME NEW g \in ToSet(guardians)
       PROVE  /\ guardianData[g].voteAt # 0 <=> g \in CastAt(b)
              /\ g \in CastAt(b) => /\ guardianData[g].candidates = BallotsAt(b)[g]
                                    /\ guardianData[g].stake = StakesAt(b)[g]
  <2>1. GuardianAsOf(g) /\ g \in Address /\ g \in Account
    BY <1>5, <1>6 DEF Account
  <2>2. g \in CastAt(b) <=> /\ ethereum[b].vote[g].block # 0
                            /\ ethereum[b].vote[g].block >= b - (VoteValidPeriod - 1)
    BY <1>3 DEF CastAt
  <2>3. CASE g \in CastAt(b)
    BY <2>1, <2>2, <2>3 DEF GuardianAsOf, VoteAsOf, BallotsAt, StakesAt
  <2>4. CASE g \notin CastAt(b)
    BY <2>1, <2>2, <2>4 DEF GuardianAsOf, VoteAsOf
  <2> QED BY <2>3, <2>4
<1>12. CastAt(b) = CastOf(guardians, guardianData)
  <2>1. CastAt(b) \subseteq ToSet(guardians)
    BY <1>3 DEF CastAt
  <2> QED BY <1>11, <2>1 DEF CastOf
<1>13. \A a \in ToSet(delegators) \ ToSet(guardians) : delegatorStake[a] = StakesAt(b)[a]
  BY <1>5, <1>7 DEF DelegatorAsOf, StakesAt, Account
<1>14. \A g \in CastAt(b) : guardianData[g].candidates = BallotsAt(b)[g]
                            /\ guardianData[g].stake = StakesAt(b)[g]
  BY <1>11, <1>12 DEF CastOf
<1> QED BY <1>2, <1>3, <1>9, <1>10, <1>12, <1>13, <1>14 DEF Agree

(* What the last call counts.                                               *)
LEMMA StagedCounts ==
  ASSUME StoredOK, processState = CalculationsState, NEW b, b = processBlock,
         NEW t, t = StagedTally
  PROVE  Counted(t, CastAt(b), ToSet(ethereum[b].guardians), AgentOf, BallotsAt(b), StakesAt(b))
<1>1. /\ guardians = ethereum[b].guardians
      /\ Agree(guardians, guardianData, delegators, AgentOf, delegatorStake,
               CastAt(b), BallotsAt(b), StakesAt(b))
  BY StagedAgree
<1>2. t = Tally(guardians, guardianData, delegators, AgentOf, delegatorStake)
  BY DEF StagedTally, AgentOf
<1>3. Counted(t, CastAt(b), ToSet(guardians), AgentOf, BallotsAt(b), StakesAt(b))
  BY <1>1, <1>2, TallyCounts
<1> QED BY <1>1, <1>3

-----------------------------------------------------------------------------
(* What the last call pays                                                  *)

(* A tally as far as the excellence program looks at it.                    *)
Weighs(t) ==
  /\ IsFiniteSet(DOMAIN t.weight) /\ DOMAIN t.weight \subseteq Account
  /\ \A g \in DOMAIN t.weight : t.weight[g] \in Nat

(* The total of the top guardians is the sum of their weights.              *)
LEMMA TopIs ==
  ASSUME NEW t, Weighs(t), NEW top, top = TopGuardians(t)
  PROVE  /\ top \subseteq DOMAIN t.weight /\ IsFiniteSet(top) /\ top \subseteq Account
         /\ TopTotal(t) = SumFunctionOnSet(t.weight, top) /\ TopTotal(t) \in Nat
<1>1. top \subseteq DOMAIN t.weight
  BY DEF TopGuardians
<1>2. IsFiniteSet(top) /\ top \subseteq Account /\ \A g \in top : t.weight[g] \in Nat
  BY <1>1, FS_Subset DEF Weighs
<1>3. PICK s : s = SetToSeq(top)
  OBVIOUS
<1>4. s \in Seq(top) /\ IsInjective(s) /\ ToSet(s) = top
  BY <1>2, <1>3, SetAsList
<1>5. \A g \in ToSet(s) : t.weight[g] \in Int
  BY <1>2, <1>4
<1>6. SumOver(s, t.weight) = SumFunctionOnSet(t.weight, ToSet(s))
  BY <1>4, <1>5, SumOverEntries
<1>7. TopTotal(t) = SumOver(s, t.weight)
  BY <1>3 DEF TopTotal
<1>8. SumFunctionOnSet(t.weight, top) \in Nat
  BY <1>2, SumType
<1> QED BY <1>1, <1>2, <1>4, <1>6, <1>7, <1>8

(* Each of them gets a share, and the shares stay within the budget.        *)
ExcellencePool(total) == MaxRewardForGroup(ExcellenceMaxReward, total, ExcellencePercent)

LEMMA TopArePaid ==
  ASSUME NEW t, Weighs(t), RewardsPayable(t), NEW top, top = TopGuardians(t),
         NEW share, \A g \in top : share[g] = ExcellenceShare(g, t)
  PROVE  /\ \A g \in top : share[g] \in Nat
         /\ SumFunctionOnSet(share, top) <= ExcellencePool(TopTotal(t))
<1>1. /\ top \subseteq DOMAIN t.weight /\ IsFiniteSet(top) /\ top \subseteq Account
      /\ TopTotal(t) = SumFunctionOnSet(t.weight, top) /\ TopTotal(t) \in Nat
  BY TopIs
<1>2. PICK total \in Nat : total = TopTotal(t)
  BY <1>1
<1>3. ExcellencePool(total) \in Nat
  <2>1. ExcellenceMaxReward \in Nat /\ ExcellencePercent \in Nat
    BY TallyAssumption
  <2> QED BY <2>1, MaxRewardTyped DEF ExcellencePool
<1>4. PICK budget \in Nat : budget = ExcellencePool(total)
  BY <1>3
<1>5. CASE top = {}
  BY <1>2, <1>4, <1>5, SumEmpty
<1>6. CASE top # {}
  <2>1. total > 0
    BY <1>2, <1>6 DEF RewardsPayable
  <2>2. PICK amount : amount = t.weight
    OBVIOUS
  <2>3. \A g \in top : amount[g] \in Nat
    BY <1>1, <2>2 DEF Weighs
  <2>4. \A g \in top : share[g] = (amount[g] * budget) \div total
    BY <1>2, <1>4, <2>2 DEF ExcellenceShare, ExcellencePool
  <2>5. total = SumFunctionOnSet(amount, top)
    BY <1>1, <1>2, <2>2
  <2>6. SumFunctionOnSet(share, top) <= budget /\ \A g \in top : share[g] \in Nat
    BY <1>1, <2>1, <2>3, <2>4, <2>5, SharesWithinBudget
  <2> QED BY <1>2, <1>4, <2>6
<1> QED BY <1>5, <1>6

(* What a counted tally adds to the rewards is a number of each.            *)
LEMMA CountedWeighs ==
  ASSUME NEW t, NEW cast, NEW gs, NEW ag, NEW ballots, NEW stake,
         Counted(t, cast, gs, ag, ballots, stake)
  PROVE  Weighs(t) /\ Counts(t) /\ t.against \in [Account -> Nat] /\ t.total \in Nat
<1>1. cast \subseteq Address /\ DOMAIN t.weight = cast /\ \A g \in cast : t.weight[g] \in Nat
  BY DEF Counted
<1>2. IsFiniteSet(cast)
  BY <1>1, AddressAssumption, FS_Subset
<1>3. Counts(t) /\ t.against \in [Account -> Nat]
  BY DEF Counted
<1> QED BY <1>1, <1>2, <1>3 DEF Weighs, Counts, Account

LEMMA ParticipationTyped ==
  ASSUME NEW t, Counts(t), RewardsPayable(t), NEW paid \in [Account -> Nat]
  PROVE  AddParticipation(paid, t) \in [Account -> Nat]
<1>1. ASSUME NEW a \in Account
      PROVE  (IF a \in ToSet(t.participants)
                THEN paid[a] + Occurrences(a, t.participants) * ParticipationShare(a, t)
                ELSE paid[a]) \in Nat
  <2>1. CASE a \in ToSet(t.participants)
    <3>1. PICK q \in Nat : q = Occurrences(a, t.participants) * ParticipationShare(a, t)
      BY <2>1, ParticipantsArePaid
    <3> QED BY <2>1, <3>1
  <2>2. CASE a \notin ToSet(t.participants)
    BY <2>2
  <2> QED BY <2>1, <2>2
<1> QED BY <1>1 DEF AddParticipation

LEMMA ExcellenceTyped ==
  ASSUME NEW t, Weighs(t), RewardsPayable(t), NEW paid \in [Account -> Nat]
  PROVE  AddExcellence(paid, t) \in [Account -> Nat]
<1>1. ASSUME NEW g \in TopGuardians(t) PROVE ExcellenceShare(g, t) \in Nat
  <2> DEFINE share == [h \in TopGuardians(t) |-> ExcellenceShare(h, t)]
  <2>1. \A h \in TopGuardians(t) : share[h] = ExcellenceShare(h, t)
    OBVIOUS
  <2> HIDE DEF share
  <2>2. \A h \in TopGuardians(t) : share[h] \in Nat
    BY <2>1, TopArePaid
  <2> QED BY <2>1, <2>2
<1> QED BY <1>1 DEF AddExcellence

LEMMA IntroductionTyped ==
  ASSUME NEW elected \in Seq(Address), IsInjective(elected), NEW stakeOf \in [Account -> Nat],
         NEW paid \in [Account -> Nat]
  PROVE  AddIntroduction(paid, elected, stakeOf) \in [Account -> Nat]
<1>1. ASSUME NEW a \in Account PROVE ValidatorShare(stakeOf[a]) \in Nat
  <2>1. PICK x \in Nat : x = stakeOf[a]
    OBVIOUS
  <2>2. IntroductionReward * 100 \in Nat /\ x * ValidatorPercent \in Nat
    BY TallyAssumption
  <2>3. /\ AnnualFactorize(IntroductionReward * 100) \in Nat
        /\ AnnualFactorize(x * ValidatorPercent) \in Nat
    BY <2>2, FactorizedTyped
  <2> QED BY <2>1, <2>3 DEF ValidatorShare
<1>2. ASSUME NEW a \in Account
      PROVE  (IF a \in ToSet(elected)
                THEN paid[a] + Occurrences(a, elected) * ValidatorShare(stakeOf[a])
                ELSE paid[a]) \in Nat
  <2>1. CASE a \in ToSet(elected)
    <3>1. Occurrences(a, elected) = 1
      BY <2>1, OccursOnce
    <3>2. PICK q \in Nat : q = ValidatorShare(stakeOf[a])
      BY <1>1
    <3> QED BY <2>1, <3>1, <3>2
  <2>2. CASE a \notin ToSet(elected)
    BY <2>2
  <2> QED BY <2>1, <2>2
<1> QED BY <1>2 DEF AddIntroduction

-----------------------------------------------------------------------------
(* The types of everything the contract stores                              *)

ValidatorRecord == [stake : Nat, orbs : OrbsAddress \cup {NoOrbsAddress}, vote : Nat]

GuardianRecord == [isGuardian : BOOLEAN, stake : Nat, voteAt : Block,
                   candidates : SUBSET Account, weight : Nat]

ResultRecord == [block : Block, height : Nat, eth : Seq(Address),
                 orbs : Seq(OrbsAddress \cup {NoOrbsAddress})]

RewardsRecord == [participation : [Account -> Nat], excellence : [Account -> Nat],
                  introduction : [Account -> Nat], program : SUBSET Account]

ProcessTyped == processState \in ProcessStates /\ processBlock \in Block /\ earliestVote \in Nat

RecordsTyped ==
  /\ validatorData \in [Account -> ValidatorRecord]
  /\ guardianData \in [Account -> GuardianRecord]
  /\ delegatorStake \in [Account -> Nat]

OutcomeTyped ==
  /\ totalStake \in Nat /\ rewards \in RewardsRecord
  /\ elections \in Seq(ResultRecord)

LEMMA TypesInParts ==
  /\ TypeOK => ProcessTyped /\ RecordsTyped /\ OutcomeTyped
  /\ MirrorTypeOK /\ StorageOK /\ ClocksOK /\ ProcessTyped /\ RecordsTyped /\ OutcomeTyped
       => TypeOK
BY DEF TypeOK, ProcessTyped, RecordsTyped, OutcomeTyped, StorageOK, ClocksOK, ValidatorRecord,
       GuardianRecord, ResultRecord, RewardsRecord

(* The stage and the election's parameters.                                 *)
LEMMA ProcessTypedStep ==
  ASSUME CalendarInv, ProcessTyped, [Next]_vars
  PROVE  ProcessTyped'
<1> USE DEF ProcessStates, NoState, GuardiansState, ValidatorsState, GuardiansDataState,
            DelegatorsState, CalculationsState
<1>1. CASE ReadValidators
  <2>1. CurrentElectionBlock \in Block
    BY <1>1, ElectionBlockIsFinal
  <2>2. PICK k \in Nat : k = Len(elections)
    BY CalendarQueries
  <2>3. PICK n \in Nat : n = InitialisedGenesis
    BY CalendarQueries
  <2>4. n + ElectionPeriod >= FirstElectionBlock
    BY <2>3, CalendarQueries DEF OnGrid
  <2>5. PICK p \in Nat : p = ElectionPeriod
    BY PeriodsTyped
  <2>6. PICK v \in Nat : v = VoteValidPeriod /\ v > 0 /\ n + p >= v
    BY <2>4, <2>5, PeriodsTyped
  <2>7. CurrentElectionBlock = n + (k + 1) * p
    BY <2>2, <2>3, <2>5, CalendarQueries
  <2>8. (k + 1) * p >= p
    OBVIOUS
  <2>9. CurrentElectionBlock - (VoteValidPeriod - 1) \in Nat
    <3>1. PICK m \in Nat : m = (k + 1) * p
      OBVIOUS
    <3>2. n + m - (v - 1) \in Nat
      BY <2>6, <2>8, <3>1
    <3> QED BY <2>6, <2>7, <3>1, <3>2
  <2> QED BY <1>1, <2>1, <2>9 DEF ReadValidators, MoveTo, ProcessTyped
<1>2. CASE Conclude
  <2>1. 0 \in Block
    BY PeriodsTyped DEF Block
  <2> QED BY <1>2, <2>1 DEF Conclude, ClearProcess, ProcessTyped
<1>3. CASE ReadGuardians \/ CollectValidator \/ CollectGuardian \/ CollectDelegator
  BY <1>3 DEF ReadGuardians, CollectValidator, CollectGuardian, CollectDelegator, AdvanceOrMoveTo,
              MoveTo, ProcessTyped
<1>4. CASE ~ProcessVoting
  BY <1>4, OtherStepsLeaveStaged DEF stagedVars, processVars, ProcessTyped
<1> QED BY <1>1, <1>2, <1>3, <1>4 DEF ProcessVoting

(* Ethereum's values of a block.                                            *)
LEMMA ReadTyped ==
  ASSUME StorageOK, NEW b \in Block, NEW a \in Account
  PROVE  /\ ethereum[b].vote[a].block \in Block
         /\ ethereum[b].vote[a].candidates \subseteq Account
         /\ ethereum[b].orbsAddress[a] \in OrbsAddress \cup {NoOrbsAddress}
         /\ StakeAt(a, b) \in Nat
<1>1. ethereum[b] \in EthereumState
  BY DEF StorageOK
<1>2. ethereum[b].vote[a] \in [block : Block, candidates : SUBSET Address]
  BY <1>1 DEF EthereumState
<1> QED BY <1>1, <1>2, StakesTyped DEF EthereumState, Account

(* The data of validators, guardians and delegators.                        *)
LEMMA RecordsTypedStep ==
  ASSUME StoredOK, RecordsTyped, [Next]_vars
  PROVE  RecordsTyped'
<1>0. /\ StorageOK /\ processItem \in Nat
      /\ validatorData \in [Account -> ValidatorRecord]
      /\ guardianData \in [Account -> GuardianRecord]
      /\ delegatorStake \in [Account -> Nat]
  BY DEF StoredOK, StagedInv, StorageOK, RecordsTyped
<1>1. CASE ReadValidators
  BY <1>0, <1>1 DEF ReadValidators, guardianVars, RecordsTyped
<1>2. CASE ReadGuardians
  <2>1. UNCHANGED <<validatorData, delegatorStake>>
        /\ guardianData' = ReplaceGuardians(ethereum[processBlock].guardians)
    BY <1>2 DEF ReadGuardians, validatorVars
  <2>2. UnknownGuardian \in GuardianRecord
    BY PeriodsTyped DEF UnknownGuardian, GuardianRecord, Block
  <2>3. ASSUME NEW r \in GuardianRecord PROVE [r EXCEPT !.isGuardian = TRUE] \in GuardianRecord
    BY DEF GuardianRecord
  <2>4. ASSUME NEW new PROVE ReplaceGuardians(new) \in [Account -> GuardianRecord]
    <3> DEFINE cleared == [a \in Account |-> IF a \in ToSet(guardians) THEN UnknownGuardian
                                                              ELSE guardianData[a]]
    <3>1. cleared \in [Account -> GuardianRecord]
      BY <1>0, <2>2
    <3>2. ReplaceGuardians(new) =
            [a \in Account |-> IF a \in ToSet(new) THEN [cleared[a] EXCEPT !.isGuardian = TRUE]
                                                   ELSE cleared[a]]
      BY DEF ReplaceGuardians
    <3> HIDE DEF cleared
    <3>3. \A a \in Account : cleared[a] \in GuardianRecord
      BY <3>1
    <3>4. \A a \in Account : (IF a \in ToSet(new) THEN [cleared[a] EXCEPT !.isGuardian = TRUE]
                                                 ELSE cleared[a]) \in GuardianRecord
      BY <2>3, <3>3
    <3> QED BY <3>2, <3>4
  <2> QED BY <1>0, <2>1, <2>4 DEF RecordsTyped
<1>3. CASE CollectValidator
  <2>0. PICK v \in Account : v = AtIndex(validatorSlots, processItem)
    BY <1>0, ItemTyped DEF StorageOK
  <2>1. /\ processBlock \in Block
        /\ UNCHANGED <<guardianData, delegatorStake>>
    BY <1>3 DEF CollectValidator, guardianVars, StoredOK, TypeOK
  <2>2. PICK r : r = [stake |-> StakeAt(v, processBlock),
                      orbs |-> ethereum[processBlock].orbsAddress[v],
                      vote |-> validatorData[v].vote]
    OBVIOUS
  <2>3. validatorData' = [validatorData EXCEPT ![v] = r]
    BY <1>3, <2>0, <2>2 DEF CollectValidator
  <2>4. validatorData[v].vote \in Nat
    BY <1>0 DEF ValidatorRecord
  <2>5. r \in ValidatorRecord
    BY <1>0, <2>1, <2>2, <2>4, ReadTyped DEF ValidatorRecord
  <2> QED BY <1>0, <2>1, <2>3, <2>5 DEF RecordsTyped
<1>4. CASE CollectGuardian
  <2>0. PICK g \in Account : g = AtIndex(guardians, processItem)
    BY <1>0, ItemTyped DEF StorageOK
  <2>1. /\ processBlock \in Block
        /\ UNCHANGED <<validatorData, delegatorStake>>
    BY <1>4 DEF CollectGuardian, validatorVars, StoredOK, TypeOK
  <2>2. PICK read :
          /\ read = IF IsValidVote(ethereum[processBlock].vote[g].block)
                      THEN [stake |-> StakeAt(g, processBlock),
                            voteAt |-> ethereum[processBlock].vote[g].block,
                            candidates |-> ethereum[processBlock].vote[g].candidates]
                      ELSE [stake |-> 0, voteAt |-> 0, candidates |-> {EmptyAddress}]
    OBVIOUS
  <2>3. guardianData' = [guardianData EXCEPT
                            ![g] = [isGuardian |-> @.isGuardian, stake |-> read.stake,
                                    voteAt |-> read.voteAt, candidates |-> read.candidates,
                                    weight |-> @.weight]]
    BY <1>4, <2>0, <2>2 DEF CollectGuardian
  <2>4. read.stake \in Nat /\ read.voteAt \in Block /\ read.candidates \subseteq Account
    <3>1. CASE IsValidVote(ethereum[processBlock].vote[g].block)
      BY <1>0, <2>1, <2>2, <3>1, ReadTyped
    <3>2. CASE ~IsValidVote(ethereum[processBlock].vote[g].block)
      BY <2>2, <3>2, PeriodsTyped DEF Block, Account
    <3> QED BY <3>1, <3>2
  <2>5. guardianData[g].isGuardian \in BOOLEAN /\ guardianData[g].weight \in Nat
    BY <1>0 DEF GuardianRecord
  <2>6. PICK r : r = [isGuardian |-> guardianData[g].isGuardian, stake |-> read.stake,
                      voteAt |-> read.voteAt, candidates |-> read.candidates,
                      weight |-> guardianData[g].weight]
    OBVIOUS
  <2>7. r \in GuardianRecord
    BY <2>4, <2>5, <2>6 DEF GuardianRecord
  <2>8. guardianData' = [guardianData EXCEPT ![g] = r]
    BY <2>3, <2>6
  <2> QED BY <1>0, <2>1, <2>7, <2>8 DEF RecordsTyped
<1>5. CASE CollectDelegator
  <2>0. PICK d \in Account : d = AtIndex(delegators, processItem)
    BY <1>0, ItemTyped DEF StorageOK
  <2>1. /\ processBlock \in Block
        /\ UNCHANGED <<validatorData, guardianData>>
    BY <1>5 DEF CollectDelegator, validatorVars, guardianVars, StoredOK, TypeOK
  <2>2. PICK s \in Nat : s = IF guardianData[d].isGuardian THEN 0 ELSE StakeAt(d, processBlock)
    BY <1>0, <2>1, ReadTyped
  <2>3. delegatorStake' = [delegatorStake EXCEPT ![d] = s]
    BY <1>5, <2>0, <2>2 DEF CollectDelegator
  <2> QED BY <1>0, <2>1, <2>3 DEF RecordsTyped
<1>6. CASE Conclude
  <2>1. PICK t : /\ t = StagedTally
                 /\ guardianData' = [a \in Account |->
                                 IF a \in DOMAIN t.weight
                                   THEN [guardianData[a] EXCEPT !.weight = t.weight[a]]
                                   ELSE guardianData[a]]
                 /\ validatorData' = [a \in Account |->
                                  IF a \in ToSet(StagedValidators)
                                    THEN [validatorData[a] EXCEPT !.vote = t.against[a]]
                                    ELSE validatorData[a]]
    BY <1>6 DEF Conclude
  <2>2. delegatorStake' = delegatorStake /\ processState = CalculationsState
    BY <1>6 DEF Conclude
  <2>3. Weighs(t) /\ t.against \in [Account -> Nat]
    <3>1. PICK b : b = processBlock
      OBVIOUS
    <3>2. Counted(t, CastAt(b), ToSet(ethereum[b].guardians), AgentOf, BallotsAt(b), StakesAt(b))
      BY <2>1, <2>2, <3>1, StagedCounts
    <3> QED BY <3>2, CountedWeighs
  <2>4. ASSUME NEW r \in GuardianRecord, NEW w \in Nat
        PROVE  [r EXCEPT !.weight = w] \in GuardianRecord
    BY DEF GuardianRecord
  <2>5. ASSUME NEW r \in ValidatorRecord, NEW w \in Nat
        PROVE  [r EXCEPT !.vote = w] \in ValidatorRecord
    BY DEF ValidatorRecord
  <2>6. \A a \in Account : (IF a \in DOMAIN t.weight
                              THEN [guardianData[a] EXCEPT !.weight = t.weight[a]]
                              ELSE guardianData[a]) \in GuardianRecord
    BY <1>0, <2>3, <2>4 DEF Weighs
  <2>7. \A a \in Account : (IF a \in ToSet(StagedValidators)
                              THEN [validatorData[a] EXCEPT !.vote = t.against[a]]
                              ELSE validatorData[a]) \in ValidatorRecord
    BY <1>0, <2>3, <2>5
  <2> QED BY <1>0, <2>1, <2>2, <2>6, <2>7 DEF RecordsTyped
<1>7. CASE ~ProcessVoting
  BY <1>0, <1>7, OtherStepsLeaveStaged DEF stagedVars, validatorVars, guardianVars, RecordsTyped
<1> QED BY <1>1, <1>2, <1>3, <1>4, <1>5, <1>6, <1>7 DEF ProcessVoting

(* The data of the last call: what is counted, and who is elected.          *)
LEMMA ConcludeIs ==
  ASSUME StoredOK, Conclude
  PROVE  \E t, b, elected :
           /\ t = StagedTally /\ b = processBlock /\ b \in Block
           /\ elected = Elected(StagedValidators, t)
           /\ StagedValidators = ethereum[b].validators
           /\ Counted(t, CastAt(b), ToSet(ethereum[b].guardians), AgentOf, BallotsAt(b), StakesAt(b))
           /\ RewardsPayable(t)
           /\ elected \in Seq(Address) /\ IsInjective(elected)
           /\ ToSet(elected) = CommitteeOf(ToSet(ethereum[b].validators), CastAt(b),
                                  ToSet(ethereum[b].guardians), AgentOf, BallotsAt(b), StakesAt(b))
           /\ totalStake' = t.total
           /\ guardianData' = [a \in Account |->
                                 IF a \in DOMAIN t.weight
                                   THEN [guardianData[a] EXCEPT !.weight = t.weight[a]]
                                   ELSE guardianData[a]]
           /\ rewards' = [participation |-> AddParticipation(rewards.participation, t),
                          excellence    |-> AddExcellence(rewards.excellence, t),
                          introduction  |-> AddIntroduction(rewards.introduction, elected,
                                              [a \in Account |-> validatorData[a].stake]),
                          program       |-> TopGuardians(t)]
           /\ elections' = Append(elections, ElectionResult(elected))
<1>1. PICK t : t = StagedTally
  OBVIOUS
<1>2. PICK b : b = processBlock
  OBVIOUS
<1>3. PICK elected : elected = Elected(StagedValidators, t)
  OBVIOUS
<1>4. processState = CalculationsState
  BY DEF Conclude
<1>5. b \in Block
  BY <1>2 DEF StoredOK, TypeOK
<1>6. HasProcessingStarted
  BY <1>4 DEF HasProcessingStarted, CalculationsState, NoState
<1>7. StagedValidators = ethereum[b].validators
  BY <1>2, <1>6 DEF StoredOK, StagedInv, ValidatorsOK
<1>8. StagedValidators \in Seq(Address) /\ IsInjective(StagedValidators)
  <2>1. ethereum[b].validators \in Seq(Address)
    BY <1>5, EthereumTyped DEF StoredOK, StagedInv
  <2> QED BY <1>5, <1>7, <2>1 DEF StoredOK, RegistersOK
<1>9. Counted(t, CastAt(b), ToSet(ethereum[b].guardians), AgentOf, BallotsAt(b), StakesAt(b))
  BY <1>1, <1>2, <1>4, StagedCounts
<1>10. /\ elected \in Seq(Address) /\ IsInjective(elected)
       /\ ToSet(elected) = CommitteeOf(ToSet(StagedValidators), CastAt(b),
                              ToSet(ethereum[b].guardians), AgentOf, BallotsAt(b), StakesAt(b))
  BY <1>3, <1>8, <1>9, ElectedAre
<1>11. /\ RewardsPayable(t)
       /\ totalStake' = t.total
       /\ guardianData' = [a \in Account |->
                             IF a \in DOMAIN t.weight
                               THEN [guardianData[a] EXCEPT !.weight = t.weight[a]]
                               ELSE guardianData[a]]
       /\ rewards' = [participation |-> AddParticipation(rewards.participation, t),
                      excellence    |-> AddExcellence(rewards.excellence, t),
                      introduction  |-> AddIntroduction(rewards.introduction, elected,
                                          [a \in Account |-> validatorData[a].stake]),
                      program       |-> TopGuardians(t)]
       /\ elections' = Append(elections, ElectionResult(elected))
  BY <1>1, <1>3 DEF Conclude
<1> HIDE DEF Conclude, StoredOK
<1> QED BY <1>1, <1>2, <1>3, <1>5, <1>7, <1>9, <1>10, <1>11

(* What an election adds.                                                   *)
LEMMA OtherStepsKeepOutcome ==
  ASSUME [Next]_vars, ~Conclude
  PROVE  UNCHANGED resultVars
BY DEF Next, Mirror, ProcessVoting, ReadValidators, ReadGuardians, CollectValidator,
       CollectGuardian, CollectDelegator, AdvanceEthereum, AdvanceOrbs, vars, resultVars

LEMMA OutcomeTypedStep ==
  ASSUME StoredOK, [Next]_vars
  PROVE  OutcomeTyped'
<1>0. OutcomeTyped /\ RecordsTyped
  BY TypesInParts DEF StoredOK
<1>1. CASE Conclude
  <2>1. PICK t, b, elected :
           /\ b = processBlock /\ b \in Block
           /\ Counted(t, CastAt(b), ToSet(ethereum[b].guardians), AgentOf, BallotsAt(b), StakesAt(b))
           /\ RewardsPayable(t)
           /\ elected \in Seq(Address) /\ IsInjective(elected)
           /\ totalStake' = t.total
           /\ rewards' = [participation |-> AddParticipation(rewards.participation, t),
                          excellence    |-> AddExcellence(rewards.excellence, t),
                          introduction  |-> AddIntroduction(rewards.introduction, elected,
                                              [a \in Account |-> validatorData[a].stake]),
                          program       |-> TopGuardians(t)]
           /\ elections' = Append(elections, ElectionResult(elected))
    BY <1>1, ConcludeIs
  <2>2. Weighs(t) /\ Counts(t) /\ t.total \in Nat
    BY <2>1, CountedWeighs
  <2>3. rewards' \in RewardsRecord
    <3>1. /\ rewards.participation \in [Account -> Nat]
          /\ rewards.excellence \in [Account -> Nat]
          /\ rewards.introduction \in [Account -> Nat]
      BY <1>0 DEF OutcomeTyped, RewardsRecord
    <3>2. AddParticipation(rewards.participation, t) \in [Account -> Nat]
      BY <2>1, <2>2, <3>1, ParticipationTyped
    <3>3. AddExcellence(rewards.excellence, t) \in [Account -> Nat]
      BY <2>1, <2>2, <3>1, ExcellenceTyped
    <3>4. PICK stakeOf \in [Account -> Nat] : stakeOf = [a \in Account |-> validatorData[a].stake]
      BY <1>0 DEF RecordsTyped, ValidatorRecord
    <3>5. AddIntroduction(rewards.introduction, elected, stakeOf) \in [Account -> Nat]
      BY <2>1, <3>1, IntroductionTyped
    <3>6. TopGuardians(t) \subseteq Account
      BY <2>2, TopIs
    <3> QED BY <2>1, <3>2, <3>3, <3>4, <3>5, <3>6 DEF RewardsRecord
  <2>4. ElectionResult(elected) \in ResultRecord
    <3>1. \A i \in DOMAIN elected : elected[i] \in Account
      BY <2>1 DEF Account
    <3>2. \A a \in Account : validatorData[a].orbs \in OrbsAddress \cup {NoOrbsAddress}
      BY <1>0 DEF RecordsTyped, ValidatorRecord
    <3>3. DOMAIN elected = 1 .. Len(elected) /\ Len(elected) \in Nat
      BY <2>1
    <3>4. [i \in DOMAIN elected |-> validatorData[elected[i]].orbs]
            \in Seq(OrbsAddress \cup {NoOrbsAddress})
      BY <3>1, <3>2, <3>3
    <3>5. orbsHeight + TransitionPeriod \in Nat
      BY PeriodsTyped DEF StoredOK, TypeOK
    <3> QED BY <2>1, <3>4, <3>5 DEF ElectionResult, ResultRecord
  <2>5. elections' \in Seq(ResultRecord)
    <3>1. elections \in Seq(ResultRecord)
      BY <1>0 DEF OutcomeTyped
    <3>2. PICK r \in ResultRecord : r = ElectionResult(elected)
      BY <2>4
    <3> QED BY <2>1, <3>1, <3>2, AppendProperties
  <2> QED BY <2>1, <2>2, <2>3, <2>5 DEF OutcomeTyped
<1>2. CASE ~Conclude
  BY <1>0, <1>2, OtherStepsKeepOutcome DEF resultVars, OutcomeTyped
<1> QED BY <1>1, <1>2

LEMMA TypeStep ==
  ASSUME StoredOK, (MirrorTypeOK /\ StagedInv /\ CalendarInv)', [Next]_vars
  PROVE  TypeOK'
<1>1. ProcessTyped /\ RecordsTyped /\ CalendarInv
  BY TypesInParts DEF StoredOK
<1>2. ProcessTyped'
  BY <1>1, ProcessTypedStep
<1>3. RecordsTyped'
  BY <1>1, RecordsTypedStep
<1>4. OutcomeTyped'
  BY OutcomeTypedStep
<1>5. StorageOK' /\ ClocksOK'
  BY DEF StagedInv, CalendarInv
<1>6. MirrorTypeOK' /\ StorageOK' /\ ClocksOK' /\ ProcessTyped' /\ RecordsTyped' /\ OutcomeTyped'
        => TypeOK'
  BY DEF TypeOK, ProcessTyped, RecordsTyped, OutcomeTyped, StorageOK, ClocksOK, ValidatorRecord,
         GuardianRecord, ResultRecord, RewardsRecord
<1> QED BY <1>2, <1>3, <1>4, <1>5, <1>6

(* Everything the contract stores keeps its type, whatever is called and    *)
(* when: what an election reads, counts, pays and publishes.                *)
THEOREM ElectionsTypeCorrect == Spec => []TypeOK
<1>1. Init => TypeOK
  <2> SUFFICES ASSUME Init PROVE TypeOK
    OBVIOUS
  <2>1. 0 \in Block
    BY PeriodsTyped DEF Block
  <2>2. UnknownGuardian \in GuardianRecord /\ UnknownValidator \in ValidatorRecord
    BY <2>1 DEF UnknownGuardian, GuardianRecord, UnknownValidator, ValidatorRecord
  <2>3. RecordsTyped
    BY <2>2 DEF Init, RecordsTyped
  <2>4. ProcessTyped
    BY <2>1 DEF Init, ProcessTyped, ProcessStates, NoState
  <2>5. OutcomeTyped
    BY DEF Init, OutcomeTyped, RewardsRecord
  <2>6. MirrorTypeOK
    <3>1. NoDelegation \in DelegationRecord
      BY <2>1 DEF NoDelegation, DelegationRecord, Account
    <3> QED BY <3>1 DEF Init, MirrorInit, MirrorTypeOK
  <2>7. ethereum \in [Block -> EthereumState]
    BY HistoriesAssumption DEF Init
  <2>8. StorageOK
    BY <2>7 DEF Init, MirrorInit, StorageOK, UnknownGuardian
  <2>9. ClocksOK
    BY DEF Init, ClocksOK
  <2> QED BY <2>3, <2>4, <2>5, <2>6, <2>8, <2>9, TypesInParts
<1>2. TypeOK /\ StagedInv /\ CalendarInv /\ RegistersOK /\ StrongestDelegationWins
        /\ DelegatorsListedOnce /\ (MirrorTypeOK /\ StagedInv /\ CalendarInv)' /\ [Next]_vars
        => TypeOK'
  BY TypeStep DEF StoredOK
<1>3. Spec => []MirrorTypeOK
  BY SpecMirrors, MirrorTypeCorrect, PTL
<1> QED BY <1>1, <1>2, <1>3, StagedAlways, CalendarAlways, RegistersAlways,
           StrongestDelegationAlwaysCounts, DelegatorsStayListedOnce, PTL DEF Spec

LEMMA StoredAlways == Spec => []StoredOK
<1>1. TypeOK /\ StagedInv /\ CalendarInv /\ RegistersOK /\ StrongestDelegationWins
        /\ DelegatorsListedOnce => StoredOK
  BY DEF StoredOK
<1> QED BY <1>1, ElectionsTypeCorrect, StagedAlways, CalendarAlways, RegistersAlways,
           StrongestDelegationAlwaysCounts, DelegatorsStayListedOnce, PTL

-----------------------------------------------------------------------------
(* The excellence budget                                                    *)

(* What an election pays for excellence, and to whom.                       *)
LEMMA ExcellenceStep ==
  ASSUME StoredOK, Conclude,
         NEW paid, paid = [a \in Account |-> rewards.excellence'[a] - rewards.excellence[a]],
         NEW weights, weights = [a \in Account |-> guardianData'[a].weight]
  PROVE  SumFunctionOnSet(paid, Account)
           <= MaxRewardForGroup(ExcellenceMaxReward, SumFunctionOnSet(weights, rewards.program'),
                                ExcellencePercent)
<1>0. PICK t, b, elected :
         /\ Counted(t, CastAt(b), ToSet(ethereum[b].guardians), AgentOf, BallotsAt(b), StakesAt(b))
         /\ RewardsPayable(t)
         /\ guardianData' = [a \in Account |->
                               IF a \in DOMAIN t.weight
                                 THEN [guardianData[a] EXCEPT !.weight = t.weight[a]]
                                 ELSE guardianData[a]]
         /\ rewards' = [participation |-> AddParticipation(rewards.participation, t),
                        excellence    |-> AddExcellence(rewards.excellence, t),
                        introduction  |-> AddIntroduction(rewards.introduction, elected,
                                            [a \in Account |-> validatorData[a].stake]),
                        program       |-> TopGuardians(t)]
  BY ConcludeIs
<1>1. /\ Counted(t, CastAt(b), ToSet(ethereum[b].guardians), AgentOf, BallotsAt(b), StakesAt(b))
      /\ RewardsPayable(t)
      /\ guardianData' = [a \in Account |->
                            IF a \in DOMAIN t.weight
                              THEN [guardianData[a] EXCEPT !.weight = t.weight[a]]
                              ELSE guardianData[a]]
      /\ rewards'.excellence = AddExcellence(rewards.excellence, t)
      /\ rewards'.program = TopGuardians(t)
  BY <1>0
<1>2. Weighs(t)
  BY <1>1, CountedWeighs
<1>3. PICK top : top = TopGuardians(t)
  OBVIOUS
<1>4. /\ top \subseteq DOMAIN t.weight /\ IsFiniteSet(top) /\ top \in SUBSET Account
      /\ TopTotal(t) = SumFunctionOnSet(t.weight, top)
  BY <1>2, <1>3, TopIs
<1>5. PICK share : share = [g \in top |-> ExcellenceShare(g, t)]
  OBVIOUS
<1>6. \A g \in top : share[g] = ExcellenceShare(g, t)
  BY <1>5
<1>7. /\ \A g \in top : share[g] \in Nat
      /\ SumFunctionOnSet(share, top) <= ExcellencePool(TopTotal(t))
  BY <1>1, <1>2, <1>3, <1>6, TopArePaid
<1>8. RecordsTyped /\ OutcomeTyped
  BY TypesInParts DEF StoredOK
<1>9. PICK before \in [Account -> Nat] : before = rewards.excellence
  BY <1>8 DEF OutcomeTyped, RewardsRecord
<1>10. \A a \in Account :
          rewards'.excellence[a] = IF a \in top THEN before[a] + ExcellenceShare(a, t) ELSE before[a]
  BY <1>1, <1>3, <1>9 DEF AddExcellence
<1>11. \A a \in Account : IF a \in top THEN paid[a] = share[a] /\ paid[a] \in Int ELSE paid[a] = 0
  <2> SUFFICES ASSUME NEW a \in Account
               PROVE  IF a \in top THEN paid[a] = share[a] /\ paid[a] \in Int ELSE paid[a] = 0
    OBVIOUS
  <2>1. PICK x \in Nat : x = before[a]
    OBVIOUS
  <2>2. CASE a \in top
    <3>1. PICK q \in Nat : q = share[a]
      BY <1>7, <2>2
    <3>2. rewards'.excellence[a] = x + q
      BY <1>6, <1>10, <2>1, <2>2, <3>1
    <3>3. paid[a] = (x + q) - x
      BY <1>9, <2>1, <3>2
    <3> QED BY <2>2, <3>1, <3>3
  <2>3. CASE a \notin top
    BY <1>9, <1>10, <2>1, <2>3
  <2> QED BY <2>2, <2>3
<1>12. SumFunctionOnSet(paid, Account) = SumFunctionOnSet(share, top)
  <2>1. IsFiniteSet(Account)
    BY AddressAssumption, FS_AddElement DEF Account
  <2>2. SumFunctionOnSet(paid, Account) = SumFunctionOnSet(paid, top)
    <3>1. \A a \in Account : paid[a] \in Int
      BY <1>11
    <3>2. \A a \in Account \ top : paid[a] = 0
      BY <1>11
    <3> QED BY <1>4, <2>1, <3>1, <3>2, SumWithoutZeros
  <2>3. \A a \in top : paid[a] = share[a]
    BY <1>4, <1>11
  <2> QED BY <1>4, <2>2, <2>3, SumSame
<1>13. SumFunctionOnSet(weights, rewards.program') = TopTotal(t)
  <2>1. \A a \in top : weights[a] = t.weight[a]
    <3> SUFFICES ASSUME NEW a \in top PROVE weights[a] = t.weight[a]
      OBVIOUS
    <3>1. a \in Account /\ a \in DOMAIN t.weight
      BY <1>4
    <3>2. guardianData'[a] = [guardianData[a] EXCEPT !.weight = t.weight[a]]
      BY <1>1, <3>1
    <3>3. guardianData[a] \in GuardianRecord
      BY <1>8, <3>1 DEF RecordsTyped
    <3>4. guardianData'[a].weight = t.weight[a]
      BY <3>2, <3>3 DEF GuardianRecord
    <3> QED BY <3>1, <3>4
  <2>2. SumFunctionOnSet(weights, top) = SumFunctionOnSet(t.weight, top)
    BY <1>4, <2>1, SumSame
  <2> QED BY <1>1, <1>3, <1>4, <2>2
<1> QED BY <1>7, <1>12, <1>13 DEF ExcellencePool

(* No election pays its top guardians more than their budget, however many  *)
(* tie with the last of them and however the shares are rounded.            *)
THEOREM ExcellenceAlwaysWithinBudget == Spec => ExcellenceWithinBudget
<1> DEFINE Within ==
      Concluded =>
        LET paid == [a \in Account |-> rewards.excellence'[a] - rewards.excellence[a]]
            top  == {a \in Account : paid[a] > 0}
        IN  SumFunctionOnSet(paid, Account)
              <= MaxRewardForGroup(ExcellenceMaxReward,
                   SumFunctionOnSet([a \in Account |-> guardianData'[a].weight],
                                    rewards.program'),
                   ExcellencePercent)
<1>1. StoredOK /\ [Next]_vars => [Within]_vars
  <2> SUFFICES ASSUME StoredOK, [Next]_vars, Concluded PROVE Within
    OBVIOUS
  <2>1. CASE Conclude
    BY <2>1, ExcellenceStep
  <2>2. CASE ~Conclude
    <3>1. elections' = elections
      BY <2>2, OtherStepsKeepOutcome DEF resultVars
    <3>2. elections \in Seq(ResultRecord)
      BY TypesInParts DEF StoredOK, OutcomeTyped
    <3>3. Len(elections) \in Nat
      BY <3>2
    <3> QED BY <3>1, <3>3 DEF Concluded
  <2> QED BY <2>1, <2>2
<1> QED BY <1>1, StoredAlways, PTL DEF Spec, ExcellenceWithinBudget

-----------------------------------------------------------------------------
(* An election is one step                                                  *)

(* The words of module AtomicElections.                                     *)
LEMMA AtomicElectorate ==
  ASSUME NEW g, NEW gs, NEW ag PROVE Atomic!Electorate(g, gs, ag) = SpokenFor(g, gs, ag)
BY DEF Atomic!Electorate, Atomic!Closed, SpokenFor, Atomic!Account, Account

LEMMA AtomicStake ==
  ASSUME NEW S, NEW stake
  PROVE  Atomic!StakeOf(S, stake) = SumFunctionOnSet(stake, S)
BY DEF Atomic!StakeOf, Atomic!MapThenSumSet, Atomic!MapThenFoldSet, SumFunctionOnSet,
       FoldFunctionOnSet, MapThenFoldSet

LEMMA AtomicCardinality ==
  ASSUME NEW S PROVE Atomic!Cardinality(S) = Cardinality(S)
BY DEF Atomic!Cardinality, Cardinality

LEMMA AtomicCommittee ==
  ASSUME NEW candidates, NEW cast, NEW gs, NEW ag, NEW ballots, NEW stake
  PROVE  Atomic!Committee(candidates, cast, gs, ballots, ag, stake)
           = CommitteeOf(candidates, cast, gs, ag, ballots, stake)
<1>1. \A R : UNION {Atomic!Electorate(g, gs, ag) : g \in R} = Electors(R, gs, ag)
  BY AtomicElectorate DEF Electors
<1>2. \A v : Atomic!VotedOut(v, cast, gs, ballots, ag, stake)
              <=> VotedOutBy(v, cast, gs, ag, ballots, stake)
  BY <1>1, AtomicStake
     DEF Atomic!VotedOut, Atomic!WeightAgainst, Atomic!TotalWeight, VotedOutBy
<1> DEFINE staying == {v \in candidates : ~VotedOutBy(v, cast, gs, ag, ballots, stake)}
<1>3. staying = {v \in candidates : ~Atomic!VotedOut(v, cast, gs, ballots, ag, stake)}
  BY <1>2
<1> HIDE DEF staying
<1>4. Atomic!Cardinality(staying) = Cardinality(staying)
  BY AtomicCardinality
<1> QED BY <1>3, <1>4 DEF Atomic!Committee, CommitteeOf, staying

(* A list r with an entry for each of s; when s grows by an entry, so does  *)
(* what lies alongside it.                                                  *)
Alongside(r, s) == IsSequence(s) /\ r = [i \in DOMAIN s |-> r[i]]

Prolongs(q, t, r, s, x) ==
  /\ Alongside(r, s) /\ t = Append(s, x)
  /\ q = [i \in DOMAIN t |-> q[i]] /\ \A i \in DOMAIN s : q[i] = r[i]

LEMMA AlongsideLength ==
  ASSUME NEW s, NEW r, Alongside(r, s)
  PROVE  Len(r) = Len(s) /\ (r = <<>> <=> s = <<>>) /\ IsSequence(r)
<1>1. IsSequence(s) /\ Len(s) \in Nat /\ DOMAIN s = 1 .. Len(s)
  BY AppendedSequence DEF Alongside
<1>2. PICK n \in Nat : n = Len(s)
  BY <1>1
<1>3. r = [i \in 1 .. n |-> r[i]]
  BY <1>1, <1>2 DEF Alongside
<1>4. PICK S : S = {r[i] : i \in DOMAIN r}
  OBVIOUS
<1>5. r \in Seq(S) /\ Len(r) = n
  <2>1. DOMAIN r = 1 .. n
    BY <1>3
  <2>2. \A i \in 1 .. n : r[i] \in S
    BY <1>4, <2>1
  <2>3. [i \in 1 .. n |-> r[i]] \in Seq(S)
    BY ONLY n \in Nat, <2>2
  <2> QED BY <1>3, <2>1, <2>3
<1>6. s = <<>> <=> n = 0
  BY <1>1, <1>2, EmptySeq DEF IsSequence
<1>7. r = <<>> <=> n = 0
  BY <1>5, EmptySeq
<1> QED BY <1>2, <1>4, <1>5, <1>6, <1>7 DEF IsSequence

LEMMA ProlongedByOne ==
  ASSUME NEW q, NEW t, NEW r, NEW s, NEW x, Prolongs(q, t, r, s, x)
  PROVE  q = Append(r, q[Len(s) + 1])
<1>1. /\ IsSequence(s) /\ Len(s) \in Nat /\ DOMAIN s = 1 .. Len(s)
      /\ DOMAIN t = 1 .. Len(s) + 1
  BY AppendedSequence DEF Prolongs, Alongside
<1>2. PICK n \in Nat : n = Len(s)
  BY <1>1
<1>3. PICK y : y = q[n + 1]
  OBVIOUS
<1>4. IsSequence(r) /\ Len(r) = n
  BY <1>2, AlongsideLength DEF Prolongs
<1>5. PICK p : p = Append(r, y)
  OBVIOUS
<1>6. /\ IsSequence(p) /\ Len(p) = n + 1 /\ DOMAIN r = 1 .. n /\ p[n + 1] = y
      /\ \A i \in DOMAIN r : p[i] = r[i]
  BY <1>4, <1>5, AppendedSequence
<1>7. q = [i \in 1 .. n + 1 |-> q[i]]
  BY <1>1, <1>2 DEF Prolongs
<1>8. p = [i \in 1 .. n + 1 |-> p[i]]
  BY <1>6 DEF IsSequence
<1>9. ASSUME NEW i \in 1 .. n + 1 PROVE q[i] = p[i]
  <2>1. CASE i \in 1 .. n
    BY <1>1, <1>2, <1>6, <2>1 DEF Prolongs
  <2>2. CASE i = n + 1
    BY <1>3, <1>6, <2>2
  <2>3. i \in 1 .. n \/ i = n + 1
    BY ONLY n \in Nat, i \in 1 .. n + 1
  <2> QED BY <2>1, <2>2, <2>3
<1>10. q = p
  BY ONLY <1>7, <1>8, <1>9
<1> QED BY <1>2, <1>3, <1>5, <1>10

(* The elections as they are shown: their block, and who sits where.        *)
Shown(list) ==
  [i \in DOMAIN list |-> [block |-> list[i].block, seats |-> SeatsOf(list[i])]]

(* Once an election is in progress it is the next one, and due.             *)
LEMMA NextIsInProgress ==
  ASSUME StoredOK, HasProcessingStarted
  PROVE  /\ Atomic!NextElection = processBlock
         /\ genesisBlock # 0 /\ ethBlock >= processBlock + MirrorPeriod
         /\ IsSequence(elections) /\ Len(elections) \in Nat
<1>1. /\ CalendarInv /\ IsSequence(elections) /\ Len(elections) \in Nat
      /\ EffectiveElectionBlock = ScheduledBlock(Len(elections))
      /\ DOMAIN elections = 1 .. Len(elections)
  BY CalendarQueries, AppendedSequence DEF StoredOK, CalendarInv, ElectionsScheduled
<1>2. /\ genesisBlock # 0 /\ processBlock = ScheduledBlock(Len(elections) + 1)
      /\ ethBlock >= processBlock + MirrorPeriod
      /\ genesisBlock \in Nat
  BY <1>1 DEF CalendarInv, ElectionsScheduled, HasProcessingStarted, ClocksOK
<1>3. PICK shown : shown = Shown(elections)
  OBVIOUS
<1>4. /\ Len(shown) = Len(elections)
      /\ shown = <<>> <=> elections = <<>>
  <2>1. Alongside(shown, elections)
    BY <1>1, <1>3 DEF Shown, Alongside
  <2> QED BY <2>1, AlongsideLength
<1>5. elections # <<>> => shown[Len(shown)].block = elections[Len(elections)].block
  <2>1. elections # <<>> => Len(elections) \in DOMAIN elections
    <3>1. elections # <<>> => Len(elections) # 0
      BY <1>1, EmptySeq DEF IsSequence
    <3> QED BY <1>1, <3>1
  <2> QED BY <1>3, <1>4, <2>1 DEF Shown
<1>6. Atomic!NextElection
        = ElectionPeriod + (IF shown = <<>> THEN genesisBlock ELSE shown[Len(shown)].block)
  BY <1>3 DEF Atomic!NextElection, Shown
<1>7. Atomic!NextElection = ElectionPeriod + EffectiveElectionBlock
  BY <1>4, <1>5, <1>6 DEF EffectiveElectionBlock
<1>8. PICK n \in Nat : n = Len(elections)
  BY <1>1
<1>9. ElectionPeriod + ScheduledBlock(n) = ScheduledBlock(n + 1)
  BY <1>2, PeriodsTyped DEF ScheduledBlock
<1> QED BY <1>1, <1>2, <1>7, <1>8, <1>9

(* The elected sit at the addresses of the election's block.                *)
LEMMA SeatsAre ==
  ASSUME StoredOK, processState = CalculationsState, NEW b, b = processBlock,
         NEW elected \in Seq(Address), ToSet(elected) \subseteq ToSet(StagedValidators)
  PROVE  SeatsOf(ElectionResult(elected)) = [v \in ToSet(elected) |-> ethereum[b].orbsAddress[v]]
<1>1. ASSUME NEW v \in ToSet(elected) PROVE validatorData[v].orbs = ethereum[b].orbsAddress[v]
  <2>1. validatorSlots \in Seq(Address) /\ validatorCount \in 0 .. Len(validatorSlots)
    BY DEF StoredOK, StagedInv, StorageOK
  <2>2. PICK i \in DOMAIN StagedValidators : StagedValidators[i] = v
    BY DEF ToSet
  <2>3. i \in 1 .. validatorCount /\ validatorSlots[i] = v
    BY <2>1, <2>2 DEF StagedValidators
  <2>4. ValidatorsUpTo(validatorCount)
    BY DEF StoredOK, StagedInv, ValidatorsCollected, CalculationsState, ValidatorsState
  <2>5. ValidatorAsOf(v)
    BY <2>1, <2>3, <2>4 DEF ValidatorsUpTo
  <2> QED BY <2>5 DEF ValidatorAsOf
<1>2. PICK r : r = ElectionResult(elected)
  OBVIOUS
<1>3. r.eth = elected /\ r.orbs = [i \in DOMAIN elected |-> validatorData[elected[i]].orbs]
  BY <1>2 DEF ElectionResult
<1>4. ASSUME NEW v \in ToSet(elected)
      PROVE  r.orbs[CHOOSE j \in DOMAIN r.eth : r.eth[j] = v] = ethereum[b].orbsAddress[v]
  <2>1. PICK j : j = CHOOSE k \in DOMAIN elected : elected[k] = v
    OBVIOUS
  <2>2. j \in DOMAIN elected /\ elected[j] = v
    BY <2>1 DEF ToSet
  <2> QED BY <1>1, <1>3, <2>1, <2>2
<1>5. SeatsOf(r) = [v \in ToSet(elected) |->
                      r.orbs[CHOOSE j \in DOMAIN r.eth : r.eth[j] = v]]
  BY <1>3 DEF SeatsOf
<1> QED BY <1>2, <1>4, <1>5

(* What the last call publishes is one more election shown.                 *)
LEMMA ResultsAreShown ==
  ASSUME StoredOK, processState = CalculationsState, NEW b, b = processBlock,
         NEW elected \in Seq(Address), ToSet(elected) \subseteq ToSet(StagedValidators),
         elections' = Append(elections, ElectionResult(elected))
  PROVE  Shown(elections') = Append(Shown(elections),
           [block |-> b, seats |-> [v \in ToSet(elected) |-> ethereum[b].orbsAddress[v]]])
<1>1. IsSequence(elections) /\ Len(elections) \in Nat
  BY NextIsInProgress DEF HasProcessingStarted, CalculationsState, NoState
<1>2. PICK x : x = ElectionResult(elected)
  OBVIOUS
<1>3. PICK t : t = Append(elections, x)
  OBVIOUS
<1>4. /\ DOMAIN elections = 1 .. Len(elections) /\ DOMAIN t = 1 .. Len(elections) + 1
      /\ \A i \in DOMAIN elections : t[i] = elections[i]
      /\ t[Len(elections) + 1] = x
  BY <1>1, <1>3, AppendedSequence
<1>5. PICK q : q = Shown(t)
  OBVIOUS
<1>6. PICK r : r = Shown(elections)
  OBVIOUS
<1>7. q = [i \in DOMAIN t |-> q[i]] /\ Alongside(r, elections)
  BY <1>1, <1>5, <1>6 DEF Shown, Alongside
<1>8. \A i \in DOMAIN elections : q[i] = r[i]
  <2>1. \A i \in DOMAIN elections : i \in DOMAIN t
    BY <1>1, <1>4
  <2> QED BY <1>4, <1>5, <1>6, <2>1 DEF Shown
<1>9. q = Append(r, q[Len(elections) + 1])
  <2>1. Prolongs(q, t, r, elections, x)
    BY <1>3, <1>7, <1>8 DEF Prolongs
  <2> QED BY <2>1, ProlongedByOne
<1>10. q[Len(elections) + 1] = [block |-> x.block, seats |-> SeatsOf(x)]
  <2>1. Len(elections) + 1 \in DOMAIN t
    BY <1>1, <1>4
  <2>2. t[Len(elections) + 1] = x
    BY <1>4
  <2> QED BY ONLY <1>5, <2>1, <2>2 DEF Shown
<1>11. x.block = b
  BY <1>2 DEF ElectionResult
<1>12. SeatsOf(x) = [v \in ToSet(elected) |-> ethereum[b].orbsAddress[v]]
  BY <1>2, SeatsAre
<1> QED BY <1>2, <1>3, <1>5, <1>6, <1>9, <1>10, <1>11, <1>12

(* What the last call pays for participation.                               *)
LEMMA EarnedIs ==
  ASSUME NEW t, NEW cast, NEW gs, NEW ag, NEW ballots, NEW stake,
         Counted(t, cast, gs, ag, ballots, stake), RewardsPayable(t),
         NEW paid, DOMAIN paid = Account
  PROVE  AddParticipation(paid, t) =
           [a \in Account |->
              IF a \in Electors(cast, gs, ag)
                THEN paid[a] + (stake[a] * ParticipationPool(t.total)) \div t.total
                ELSE paid[a]]
<1>1. /\ Counts(t) /\ ToSet(t.participants) = Electors(cast, gs, ag)
      /\ \A a \in Electors(cast, gs, ag) : t.stake[a] = stake[a]
  BY DEF Counted
<1>2. ASSUME NEW a \in Electors(cast, gs, ag)
      PROVE  Occurrences(a, t.participants) * ParticipationShare(a, t)
               = (stake[a] * ParticipationPool(t.total)) \div t.total
  <2>1. Occurrences(a, t.participants) * ParticipationShare(a, t)
          = (t.stake[a] * ParticipationPool(t.total)) \div t.total
    BY <1>1, ParticipantsArePaid
  <2> QED BY <1>1, <2>1
<1>3. AddParticipation(paid, t) =
        [a \in Account |->
           IF a \in Electors(cast, gs, ag)
             THEN paid[a] + Occurrences(a, t.participants) * ParticipationShare(a, t)
             ELSE paid[a]]
  BY <1>1 DEF AddParticipation
<1> QED BY ONLY <1>2, <1>3

(* The last call is the election of module AtomicElections.                 *)
LEMMA ConcludeHolds ==
  ASSUME StoredOK, Conclude
  PROVE  Atomic!Hold
<1>1. PICK t, b, elected :
           /\ b = processBlock /\ b \in Block
           /\ StagedValidators = ethereum[b].validators
           /\ Counted(t, CastAt(b), ToSet(ethereum[b].guardians), AgentOf, BallotsAt(b), StakesAt(b))
           /\ RewardsPayable(t)
           /\ elected \in Seq(Address) /\ IsInjective(elected)
           /\ ToSet(elected) = CommitteeOf(ToSet(ethereum[b].validators), CastAt(b),
                                  ToSet(ethereum[b].guardians), AgentOf, BallotsAt(b), StakesAt(b))
           /\ totalStake' = t.total
           /\ rewards' = [participation |-> AddParticipation(rewards.participation, t),
                          excellence    |-> AddExcellence(rewards.excellence, t),
                          introduction  |-> AddIntroduction(rewards.introduction, elected,
                                              [a \in Account |-> validatorData[a].stake]),
                          program       |-> TopGuardians(t)]
           /\ elections' = Append(elections, ElectionResult(elected))
  BY ConcludeIs
<1>2. /\ UNCHANGED <<ethereum, ethBlock, genesisBlock, delegation>>
      /\ processState = CalculationsState /\ HasProcessingStarted
  BY DEF Conclude, environmentVars, mirrorVars, HasProcessingStarted, CalculationsState, NoState
<1>3. /\ Atomic!NextElection = b /\ genesisBlock # 0 /\ ethBlock >= b + MirrorPeriod
  BY <1>1, <1>2, NextIsInProgress
<1> DEFINE now == ethereum[b]
           gs  == {now.guardians[i] : i \in DOMAIN now.guardians}
           candidates == {now.validators[i] : i \in DOMAIN now.validators}
           casting  == {g \in gs : now.vote[g].block > 0
                                   /\ now.vote[g].block > b - VoteValidPeriod}
           against  == [g \in Address |-> now.vote[g].candidates]
           agents   == [d \in Address |-> delegation[d].agent]
           ag       == [a \in Atomic!Account |-> IF a \in Address THEN agents[a] ELSE EmptyAddress]
           stake    == [a \in Atomic!Account |-> now.balance[a] \div EthereumStakeFactor
                                            + now.locked[a] \div EthereumStakeFactor]
<1>4. gs = ToSet(ethereum[b].guardians) /\ candidates = ToSet(ethereum[b].validators)
  BY DEF ToSet
<1>5. casting = CastAt(b)
  <2>1. gs \subseteq Address
    <3>1. ethereum[b].guardians \in Seq(Address)
      BY <1>1, EthereumTyped DEF StoredOK, StagedInv
    <3> QED BY <3>1
  <2>2. ASSUME NEW g \in gs
        PROVE  /\ now.vote[g].block > 0 /\ now.vote[g].block > b - VoteValidPeriod
               <=> now.vote[g].block # 0 /\ now.vote[g].block >= b - (VoteValidPeriod - 1)
    <3>1. now.vote[g].block \in Block
      BY <1>1, <2>1, ReadTyped DEF StoredOK, StagedInv, Account
    <3>2. PICK x \in Nat : x = now.vote[g].block
      BY <3>1 DEF Block
    <3>3. b \in Nat /\ VoteValidPeriod \in Nat
      BY <1>1, PeriodsTyped DEF Block
    <3> QED BY <3>2, <3>3
  <2> QED BY <1>4, <2>2 DEF CastAt
<1>6. against = BallotsAt(b) /\ stake = StakesAt(b)
  BY DEF BallotsAt, StakesAt, StakeAt, Account, Atomic!Account
<1>7. ag = AgentOf
  BY DEF AgentOf, Account, Atomic!Account
<1> HIDE DEF gs, candidates, casting, against, ag, stake
<1>8. UNION {Atomic!Electorate(g, gs, ag) : g \in casting} = Electors(casting, gs, ag)
  BY AtomicElectorate DEF Electors
<1>9. Atomic!TotalWeight(casting, gs, ag, stake) = t.total
  BY <1>1, <1>4, <1>5, <1>6, <1>7, <1>8, AtomicStake DEF Atomic!TotalWeight, Counted
<1>10. Atomic!Committee(candidates, casting, gs, against, ag, stake) = ToSet(elected)
  BY <1>1, <1>4, <1>5, <1>6, <1>7, AtomicCommittee
<1>11. Shown(elections') = Append(Shown(elections),
         [block |-> b, seats |-> [v \in ToSet(elected) |-> now.orbsAddress[v]]])
  <2>1. ToSet(elected) \subseteq ToSet(StagedValidators)
    BY <1>1 DEF CommitteeOf
  <2> QED BY <1>1, <1>2, <2>1, ResultsAreShown
<1>12. rewards'.participation =
         [a \in Account |->
            IF a \in Electors(casting, gs, ag)
              THEN rewards.participation[a] + (stake[a] * ParticipationPool(t.total)) \div t.total
              ELSE rewards.participation[a]]
  <2>1. PICK paid : paid = rewards.participation
    OBVIOUS
  <2>2. DOMAIN paid = Account
    BY <2>1, TypesInParts DEF StoredOK, OutcomeTyped, RewardsRecord
  <2>3. rewards'.participation = AddParticipation(paid, t)
    BY <1>1, <2>1
  <2>4. AddParticipation(paid, t) =
         [a \in Account |->
            IF a \in Electors(casting, gs, ag)
              THEN paid[a] + (stake[a] * ParticipationPool(t.total)) \div t.total
              ELSE paid[a]]
    BY <1>1, <1>4, <1>5, <1>6, <1>7, <2>2, EarnedIs
  <2> QED BY <2>1, <2>3, <2>4
<1>13. UNCHANGED <<ethereum, ethBlock, genesisBlock, agents>>
  BY <1>2
<1>14. Account = Atomic!Account
  BY DEF Account, Atomic!Account
<1>15. Shown(elections') = Append(Shown(elections),
         [block |-> b, seats |-> [v \in Atomic!Committee(candidates, casting, gs, against, ag, stake)
                                    |-> now.orbsAddress[v]]])
  BY ONLY <1>10, <1>11
<1>16. totalStake' = Atomic!TotalWeight(casting, gs, ag, stake)
  BY <1>1, <1>9
<1>17. rewards'.participation =
         [a \in Atomic!Account |->
            IF a \in UNION {Atomic!Electorate(g, gs, ag) : g \in casting}
              THEN rewards.participation[a]
                     + (stake[a] * ParticipationPool(Atomic!TotalWeight(casting, gs, ag, stake)))
                         \div Atomic!TotalWeight(casting, gs, ag, stake)
              ELSE rewards.participation[a]]
  BY ONLY <1>8, <1>9, <1>12, <1>14
<1>18. Atomic!HoldAt(b)
  BY ONLY <1>3, <1>13, <1>15, <1>16, <1>17
     DEF Atomic!HoldAt, Shown, gs, candidates, casting, against, ag, stake
<1> QED BY <1>3, <1>18 DEF Atomic!Hold

(* A mirrored delegation, and the first call of an election, which may be   *)
(* what sets the calendar.                                                  *)
LEMMA MirrorDelegates ==
  ASSUME StoredOK, NEW e \in DelegationEvents, Mirror(e)
  PROVE  Atomic!Delegate
<1>1. /\ UNCHANGED <<ethereum, ethBlock, elections, totalStake, rewards>>
      /\ genesisBlock' = InitialisedGenesis
  BY DEF Mirror, environmentVars, resultVars
<1>2. InitialisedGenesis # 0 /\ (genesisBlock # 0 => InitialisedGenesis = genesisBlock)
  BY CalendarQueries DEF StoredOK
<1>3. PICK d \in Address : d = e.delegator
  BY EventTyped
<1>4. \A o \in Address \ {d} : delegation'[o] = delegation[o]
  <2>1. MirrorDelegationData(e)
    BY DEF Mirror, MirrorDelegation, MirrorDelegationByTransfer, MirrorDelegateImpl
  <2>2. delegation \in [Address -> DelegationRecord]
    BY DEF StoredOK, TypeOK, MirrorTypeOK
  <2>3. delegation' = [delegation EXCEPT ![d] = RecordOf(e)] \/ delegation' = delegation
    BY <1>3, <2>1 DEF MirrorDelegationData, WriteDelegation
  <2> QED BY <2>2, <2>3
<1>5. d \in Atomic!Account
  BY DEF Atomic!Account
<1>6. UNCHANGED rewards.participation
  BY <1>1
<1> QED BY <1>1, <1>2, <1>4, <1>5, <1>6 DEF Atomic!Delegate

LEMMA FirstCallDelegates ==
  ASSUME StoredOK, ReadValidators
  PROVE  Atomic!Delegate
<1>1. /\ UNCHANGED <<ethereum, ethBlock, elections, totalStake, rewards, delegation>>
      /\ genesisBlock' = InitialisedGenesis
  BY DEF ReadValidators, environmentVars, resultVars, mirrorVars
<1>2. InitialisedGenesis # 0 /\ (genesisBlock # 0 => InitialisedGenesis = genesisBlock)
  BY CalendarQueries DEF StoredOK
<1>3. EmptyAddress \in Atomic!Account
  BY DEF Atomic!Account
<1> QED BY <1>1, <1>2, <1>3 DEF Atomic!Delegate

(* Every step of the contract is a step of the atomic elections, or none.   *)
LEMMA AtomicStep ==
  ASSUME StoredOK, [Next]_vars
  PROVE  [Atomic!Next]_(Atomic!vars)
<1>1. ASSUME NEW e \in DelegationEvents, Mirror(e) PROVE Atomic!Next
  BY <1>1, MirrorDelegates DEF Atomic!Next
<1>2. CASE ReadValidators
  BY <1>2, FirstCallDelegates DEF Atomic!Next
<1>3. CASE Conclude
  BY <1>3, ConcludeHolds DEF Atomic!Next
<1>4. CASE AdvanceEthereum
  <2>1. /\ ethBlock' = ethBlock + 1
        /\ UNCHANGED <<ethereum, genesisBlock, delegation, elections, totalStake, rewards>>
    BY <1>4 DEF AdvanceEthereum, mirrorVars, resultVars
  <2> QED BY <2>1 DEF Atomic!Next, Atomic!Tick
<1>5. CASE ReadGuardians \/ CollectValidator \/ CollectGuardian \/ CollectDelegator \/ AdvanceOrbs
           \/ UNCHANGED vars
  <2>1. UNCHANGED <<ethereum, ethBlock, genesisBlock, delegation, elections, totalStake, rewards>>
    BY <1>5 DEF ReadGuardians, CollectValidator, CollectGuardian, CollectDelegator, AdvanceOrbs,
                vars, mirrorVars, environmentVars, resultVars
  <2> QED BY <2>1 DEF Atomic!vars
<1> QED BY <1>1, <1>2, <1>3, <1>4, <1>5 DEF Next, ProcessVoting

(* The staged contract implements elections of one step: whatever the       *)
(* stages, the calls and the blocks in between, an election counts the      *)
(* stakes, votes and delegations of its own block, everyone's once, seats   *)
(* the committee these elect and pays each participant its share.           *)
THEOREM ElectionsAreAtomic == Spec => ImplementsAtomicElections
<1>1. Init => Atomic!Init
  <2> SUFFICES ASSUME Init PROVE Atomic!Init
    OBVIOUS
  <2>1. /\ ethBlock \in Nat /\ genesisBlock = 0 /\ totalStake = 0
        /\ elections = <<>>
    BY PeriodsTyped DEF Init, Block
  <2>2. [d \in Address |-> delegation[d].agent] = [d \in Address |-> EmptyAddress]
    BY DEF Init, MirrorInit, NoDelegation
  <2>3. Shown(elections) = <<>>
    BY <2>1 DEF Shown
  <2>4. rewards.participation = [a \in Atomic!Account |-> 0]
    BY DEF Init, Account, Atomic!Account
  <2> QED BY <2>1, <2>2, <2>3, <2>4 DEF Atomic!Init, Shown
<1>2. StoredOK /\ [Next]_vars => [Atomic!Next]_(Atomic!vars)
  BY AtomicStep
<1> QED BY <1>1, <1>2, StoredAlways, PTL DEF Spec, ImplementsAtomicElections, Atomic!Spec

=============================================================================
