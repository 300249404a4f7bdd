---------------------------- MODULE PosData_proofs ----------------------------
(***************************************************************************)
(* Proofs about the data library, for every number of accounts, results,    *)
(* events and timers: what subscribers are told, what the testkit's         *)
(* contracts hold and what reads of several calls answer.                   *)
(***************************************************************************)
EXTENDS MCPosData, Sums_proofs

-----------------------------------------------------------------------------
(* Subscriptions: what the variables hold.                                  *)

Statuses == {"connecting", "connected", "unsubscribing", "off"}

NoteValues(t) ==
  CASE t = "balance" -> {"out", "in", "self"}
    [] t = "stake" -> [amount : Int, total : Int]
    [] t = "allowance" -> Values
    [] t = "delegate" -> Values
    [] t = "nothing" -> {}

Notes(t) == [emitter : EmittersOf(t), value : NoteValues(t)]

OnChainValues(t) == IF t \in {"allowance", "delegate"} THEN Values \cup {1} ELSE Int

SubscriptionTyped ==
  /\ topic \in Topics \cup {"nothing"}
  /\ emitter \in [EmittersOf(topic) -> [status : Statuses, queue : Seq(Notes(topic))]]
  /\ \A e \in Emitters : Queued(e) => Connected(e)
  /\ onChain \in OnChainValues(topic)
  /\ events \in Nat
  /\ told \in Seq(OnChainValues(topic))
  /\ reads \in Seq({<<>>} \cup {<<v>> : v \in OnChainValues(topic)})
  /\ topic # "balance" => reads = <<>>
  /\ topic = "nothing" => events = 0 /\ onChain = 1 /\ told = <<>> /\ ~unsubscribed.called
  /\ disordered \in BOOLEAN /\ missed \in BOOLEAN
  /\ unsubscribed \in [called : BOOLEAN, due : Nat]
  /\ unsubscribed.called => \A e \in Emitters : Unsubscribed(e)

(* The notes that lead to a call of the callback, and how many there are.   *)
Tells(t, e, note) == t = "balance" => ReadsBalanceFor(e, note)

Untold(t, e, queue) == {i \in DOMAIN queue : Tells(t, e, queue[i])}

UntoldCount(t, m) == [e \in DOMAIN m |-> Cardinality(Untold(t, e, m[e].queue))]

UntoldTotal(t, m) == SumFunctionOnSet(UntoldCount(t, m), DOMAIN m)

(* Every event is told at most once.                                        *)
ToldOnce ==
  /\ Len(told) + Len(reads) + UntoldTotal(topic, emitter) <= events
  /\ unsubscribed.called => Len(told) + Len(reads) <= unsubscribed.due

(* Where the truth is under way: a read to come, a read that will be        *)
(* answered with it or was, a note that carries it, or already told.        *)
TruthToCome == \E e \in Emitters : Untold(topic, e, emitter[e].queue) # {}

TruthIsRead == reads # <<>> /\ reads[Len(reads)] \in {<<>>, <<onChain>>}

TruthIsTold == told # <<>> /\ told[Len(told)] = onChain

QueuedAlone(e) == Queued(e) /\ \A other \in Emitters \ {e} : ~Queued(other)

NewsKept ==
  (events > 0 /\ ~missed /\ ~disordered /\ ~unsubscribed.called) =>
    /\ topic = "balance" => TruthToCome \/ TruthIsRead \/ (reads = <<>> /\ TruthIsTold)
    /\ topic # "balance" =>
         /\ \A e \in Emitters : QueuedAlone(e) =>
              ToldValue(emitter[e].queue[Len(emitter[e].queue)]) = onChain
         /\ (\A e \in Emitters : ~Queued(e)) => TruthIsTold

SubscriptionInv == SubscriptionTyped /\ ToldOnce /\ NewsKept

(* The emitters are few.                                                    *)
LEMMA EmittersFew == ASSUME NEW t \in Topics \cup {"nothing"} PROVE IsFiniteSet(EmittersOf(t))
<1>1. /\ IsFiniteSet({}) /\ IsFiniteSet({"from", "to"}) /\ IsFiniteSet({"Approval"})
      /\ IsFiniteSet({"Delegate"}) /\ IsFiniteSet({"Staked", "Unstaked", "Restaked", "Withdrew"})
  <2>1. ASSUME NEW x, NEW y PROVE IsFiniteSet({x}) /\ IsFiniteSet({x, y})
    <3>1. {x, y} = {x} \cup {y}
      OBVIOUS
    <3>2. IsFiniteSet({x})
      BY FS_Singleton
    <3> QED
      BY <3>1, <3>2, FS_AddElement
  <2>2. {"Staked", "Unstaked", "Restaked", "Withdrew"}
             = {"Staked", "Unstaked"} \cup {"Restaked", "Withdrew"}
    OBVIOUS
  <2>3. IsFiniteSet({"Staked", "Unstaked"}) /\ IsFiniteSet({"Restaked", "Withdrew"})
    BY <2>1
  <2>4. IsFiniteSet({"Staked", "Unstaked", "Restaked", "Withdrew"})
    <3>1. \A S, T : IsFiniteSet(S) /\ IsFiniteSet(T) => IsFiniteSet(S \cup T)
      BY FS_Union
    <3> QED
      BY <2>2, <2>3, <3>1
  <2> QED
    BY <2>1, <2>4, FS_EmptySet
<1> QED
  BY <1>1 DEF EmittersOf, Topics

-----------------------------------------------------------------------------
(* What a queue still has to tell.                                          *)

LEMMA QueueCounted ==
  ASSUME NEW t, NEW e, NEW S, NEW q \in Seq(S)
  PROVE  /\ Untold(t, e, q) \in SUBSET (1 .. Len(q)) /\ IsFiniteSet(Untold(t, e, q))
         /\ Cardinality(Untold(t, e, q)) \in Nat
         /\ q = <<>> => Untold(t, e, q) = {} /\ Cardinality(Untold(t, e, q)) = 0
<1>1. DOMAIN q = 1 .. Len(q) /\ Len(q) \in Nat
  BY LenProperties
<1>2. Untold(t, e, q) \in SUBSET (1 .. Len(q))
  BY <1>1 DEF Untold
<1>3. IsFiniteSet(1 .. Len(q))
  BY <1>1, FS_Interval
<1>4. IsFiniteSet(Untold(t, e, q))
  BY <1>2, <1>3, FS_Subset
<1>5. Cardinality(Untold(t, e, q)) \in Nat
  BY <1>4, FS_CardinalityType
<1>6. q = <<>> => Untold(t, e, q) = {}
  BY <1>1, <1>2
<1> QED
  BY <1>2, <1>4, <1>5, <1>6, FS_EmptySet

LEMMA QueueGrows ==
  ASSUME NEW t, NEW e, NEW S, NEW q \in Seq(S), NEW n \in S
  PROVE  /\ Tells(t, e, n) => Untold(t, e, Append(q, n)) # {}
         /\ Cardinality(Untold(t, e, Append(q, n)))
              = Cardinality(Untold(t, e, q)) + IF Tells(t, e, n) THEN 1 ELSE 0
<1> DEFINE Old == Untold(t, e, q)
           New == Untold(t, e, Append(q, n))
<1>1. DOMAIN q = 1 .. Len(q) /\ Len(q) \in Nat
  BY LenProperties
<1>2. PICK r : r = Append(q, n)
  OBVIOUS
<1>3. /\ DOMAIN r = (1 .. Len(q)) \cup {Len(q) + 1} /\ r[Len(q) + 1] = n
      /\ \A i \in 1 .. Len(q) : r[i] = q[i]
  BY <1>2, Adding
<1>4. New = IF Tells(t, e, n) THEN Old \cup {Len(q) + 1} ELSE Old
  <2>1. Untold(t, e, r) = {i \in (1 .. Len(q)) \cup {Len(q) + 1} : Tells(t, e, r[i])}
    BY <1>3 DEF Untold
  <2>2. Old = {i \in 1 .. Len(q) : Tells(t, e, q[i])}
    BY <1>1 DEF Untold
  <2> QED
    BY <1>2, <1>3, <2>1, <2>2
<1>5. IsFiniteSet(Old) /\ Len(q) + 1 \notin Old /\ Cardinality(Old) \in Nat
  BY <1>1, QueueCounted
<1> HIDE DEF Old, New
<1>6. Cardinality(Old \cup {Len(q) + 1}) = Cardinality(Old) + 1
  BY <1>5, FS_AddElement
<1> QED
  BY <1>4, <1>5, <1>6 DEF Old, New

LEMMA QueueShrinks ==
  ASSUME NEW t, NEW e, NEW S, NEW q \in Seq(S), q # <<>>
  PROVE  /\ Cardinality(Untold(t, e, q))
              = Cardinality(Untold(t, e, Tail(q))) + IF Tells(t, e, Head(q)) THEN 1 ELSE 0
         /\ ~Tells(t, e, Head(q)) /\ Untold(t, e, q) # {} => Untold(t, e, Tail(q)) # {}
<1> DEFINE Old == Untold(t, e, q)
           New == Untold(t, e, Tail(q))
           n == Len(q) - 1
<1>1. DOMAIN q = 1 .. n + 1 /\ n \in Nat /\ Head(q) = q[1]
  BY Popping, LenProperties
<1>2. PICK r : r = Tail(q)
  OBVIOUS
<1>3. DOMAIN r = 1 .. n /\ \A i \in 1 .. n : r[i] = q[i + 1]
  BY <1>2, Popping
<1>4. \A i \in 1 .. n : i \in New <=> i + 1 \in Old \ {1}
  <2>1. New = {i \in 1 .. n : Tells(t, e, q[i + 1])}
    BY <1>2, <1>3 DEF Untold
  <2>2. Old = {i \in 1 .. n + 1 : Tells(t, e, q[i])}
    BY <1>1 DEF Untold
  <2> HIDE DEF n, Old, New
  <2>3. ASSUME NEW i \in 1 .. n PROVE i \in New <=> i + 1 \in Old \ {1}
    <3>1. i + 1 \in 1 .. n + 1 /\ i + 1 # 1
      BY <1>1
    <3> QED
      BY <2>1, <2>2, <3>1
  <2> QED
    BY <2>3
<1>5. Old \ {1} \in SUBSET (2 .. n + 1) /\ New \in SUBSET (1 .. n)
  <2>1. Old \in SUBSET (1 .. n + 1)
    BY <1>1 DEF Untold
  <2>2. New \in SUBSET (1 .. n)
    BY <1>2, <1>3 DEF Untold
  <2> HIDE DEF n, Old, New
  <2> QED
    BY <1>1, <2>1, <2>2
<1>6. 1 \in Old <=> Tells(t, e, Head(q))
  <2>1. 1 \in DOMAIN q
    BY Popping
  <2> QED
    BY <1>1, <2>1 DEF Untold
<1> HIDE DEF Old, New, n
<1>7. IsFiniteSet(New) /\ Cardinality(Old \ {1}) = Cardinality(New)
  <2>1. PICK A : A = Old \ {1}
    OBVIOUS
  <2>2. A \in SUBSET (2 .. n + 1) /\ \A i \in 1 .. n : i \in New <=> i + 1 \in A
    BY <1>4, <1>5, <2>1
  <2>3. IsFiniteSet(New) /\ Cardinality(A) = Cardinality(New)
    BY ONLY <1>1, <1>5, <2>2, ShiftedAreAsMany
  <2> QED
    BY <2>1, <2>3
<1>8. IsFiniteSet(Old) /\ Cardinality(Old) \in Nat
  BY QueueCounted DEF Old
<1>9. Cardinality(Old \ {1}) = IF 1 \in Old THEN Cardinality(Old) - 1 ELSE Cardinality(Old)
  BY <1>8, FS_RemoveElement
<1>10. 1 \notin Old /\ Old # {} => New # {}
  <2> SUFFICES ASSUME 1 \notin Old, NEW i \in Old PROVE New # {}
    OBVIOUS
  <2>1. i \in 2 .. n + 1
    BY <1>5
  <2>2. i - 1 \in 1 .. n /\ (i - 1) + 1 = i
    BY <1>1, <2>1
  <2> QED
    BY <1>4, <2>2
<1> QED
  BY <1>6, <1>7, <1>8, <1>9, <1>10 DEF Old, New

LEMMA TotalFollows ==
  ASSUME NEW t, NEW S, NEW D, IsFiniteSet(D), NEW m, NEW w, DOMAIN m = D, DOMAIN w = D,
         \A e \in D : m[e].queue \in Seq(S) /\ w[e].queue \in Seq(S),
         NEW f \in D,
         \A e \in D \ {f} : Cardinality(Untold(t, e, w[e].queue)) = Cardinality(Untold(t, e, m[e].queue))
  PROVE  UntoldTotal(t, w) = UntoldTotal(t, m)
           + (Cardinality(Untold(t, f, w[f].queue)) - Cardinality(Untold(t, f, m[f].queue)))
<1> DEFINE x == UntoldCount(t, m)
           y == UntoldCount(t, w)
<1>1. \A e \in D : /\ x[e] = Cardinality(Untold(t, e, m[e].queue)) /\ x[e] \in Int
                   /\ y[e] = Cardinality(Untold(t, e, w[e].queue)) /\ y[e] \in Int
  <2> TAKE e \in D
  <2>1. /\ Cardinality(Untold(t, e, m[e].queue)) \in Nat
        /\ Cardinality(Untold(t, e, w[e].queue)) \in Nat
    BY QueueCounted
  <2> QED
    BY <2>1 DEF UntoldCount
<1> HIDE DEF x, y
<1>2. SumFunctionOnSet(y, D) = SumFunctionOnSet(x, D) + (y[f] - x[f])
  <2>1. \A e \in D \ {f} : y[e] = x[e]
    BY <1>1
  <2> QED
    BY ONLY <1>1, <2>1, IsFiniteSet(D), f \in D, SumChange
<1> QED
  BY <1>1, <1>2 DEF UntoldTotal, x, y

LEMMA TotalCounted ==
  ASSUME NEW t, NEW S, NEW D, IsFiniteSet(D), NEW m, DOMAIN m = D,
         \A e \in D : m[e].queue \in Seq(S)
  PROVE  /\ UntoldTotal(t, m) \in Nat
         /\ (\A e \in D : m[e].queue = <<>>) => UntoldTotal(t, m) = 0
<1> DEFINE x == UntoldCount(t, m)
<1>1. \A e \in D : x[e] \in Nat /\ (m[e].queue = <<>> => x[e] = 0)
  <2> TAKE e \in D
  <2>1. /\ Cardinality(Untold(t, e, m[e].queue)) \in Nat
        /\ m[e].queue = <<>> => Cardinality(Untold(t, e, m[e].queue)) = 0
    BY QueueCounted
  <2> QED
    BY <2>1 DEF UntoldCount
<1> HIDE DEF x
<1>2. SumFunctionOnSet(x, D) \in Nat
  BY <1>1, SumType
<1>3. (\A e \in D : m[e].queue = <<>>) => SumFunctionOnSet(x, D) = 0
  BY <1>1, SumOfZeros
<1> QED
  BY <1>2, <1>3 DEF UntoldTotal, x

-----------------------------------------------------------------------------
(* The steps                                                                *)

LEMMA SubscriptionStarts == SubscriptionsInit => SubscriptionInv
<1> SUFFICES ASSUME SubscriptionsInit PROVE SubscriptionInv
  OBVIOUS
<1>1. Emitters = {} /\ EmittersOf(topic) = {} /\ Emitters = EmittersOf(topic)
  BY DEF SubscriptionsInit, Emitters, EmittersOf
<1>2. SubscriptionTyped
  <2>1. emitter \in [EmittersOf(topic) -> [status : Statuses, queue : Seq(Notes(topic))]]
    BY <1>1 DEF SubscriptionsInit
  <2>2. /\ topic \in Topics \cup {"nothing"} /\ events \in Nat /\ onChain \in OnChainValues(topic)
    BY DEF SubscriptionsInit, OnChainValues
  <2>3. /\ told \in Seq(OnChainValues(topic))
        /\ reads \in Seq({<<>>} \cup {<<v>> : v \in OnChainValues(topic)})
    BY EmptySeq DEF SubscriptionsInit
  <2>4. /\ unsubscribed \in [called : BOOLEAN, due : Nat] /\ ~unsubscribed.called
        /\ disordered \in BOOLEAN /\ missed \in BOOLEAN
    BY DEF SubscriptionsInit
  <2> QED
    BY <1>1, <2>1, <2>2, <2>3, <2>4 DEF SubscriptionTyped, SubscriptionsInit
<1>3. ToldOnce
  <2>1. UntoldTotal(topic, emitter) = 0
    BY <1>1, SumEmpty DEF UntoldTotal, Emitters
  <2> QED
    BY <2>1 DEF ToldOnce, SubscriptionsInit
<1>4. NewsKept
  BY DEF NewsKept, SubscriptionsInit
<1> QED
  BY <1>2, <1>3, <1>4 DEF SubscriptionInv

LEMMA SubscribeKeeps ==
  ASSUME SubscriptionInv, NEW t \in Topics, Subscribe(t)
  PROVE  SubscriptionInv'
<1> USE DEF SubscriptionInv
<1>1. /\ topic = "nothing" /\ topic' = t /\ events = 0 /\ told = <<>> /\ reads = <<>>
      /\ ~unsubscribed.called
      /\ UNCHANGED <<onChain, events, missed, reads, told, disordered, unsubscribed>>
  BY DEF Subscribe, SubscriptionTyped, Topics
<1>2. emitter' = [e \in EmittersOf(t) |-> [status |-> "connecting", queue |-> <<>>]]
  BY DEF Subscribe
<1>3. onChain' = 1 /\ onChain' \in OnChainValues(t)
  BY <1>1 DEF SubscriptionTyped, OnChainValues
<1>4. SubscriptionTyped'
  <2>1. <<>> \in Seq(Notes(t)) /\ told \in Seq(OnChainValues(t))
        /\ reads \in Seq({<<>>} \cup {<<v>> : v \in OnChainValues(t)})
    BY <1>1, EmptySeq
  <2>2. emitter' \in [EmittersOf(t) -> [status : Statuses, queue : Seq(Notes(t))]]
    BY <1>2, <2>1 DEF Statuses
  <2>3. \A e \in Emitters' : ~Queued(e)'
    BY <1>2 DEF Emitters, Queued
  <2>4. t # "nothing"
    BY DEF Topics
  <2> QED
    BY <1>1, <1>3, <2>1, <2>2, <2>3, <2>4 DEF SubscriptionTyped
<1>5. UntoldTotal(topic', emitter') = 0
  <2>1. DOMAIN emitter' = EmittersOf(t)
    BY <1>2
  <2>2. IsFiniteSet(EmittersOf(t))
    BY EmittersFew
  <2>3. \A e \in EmittersOf(t) : UntoldCount(t, emitter')[e] = 0
    <3> TAKE e \in EmittersOf(t)
    <3>1. emitter'[e].queue = <<>>
      BY <1>2
    <3>2. <<>> \in Seq({})
      BY EmptySeq
    <3>3. Cardinality(Untold(t, e, <<>>)) = 0
      BY <3>2, QueueCounted
    <3> QED
      BY <2>1, <3>1, <3>3 DEF UntoldCount
  <2> QED
    BY <1>1, <2>1, <2>2, <2>3, SumOfZeros DEF UntoldTotal
<1>6. ToldOnce'
  BY <1>1, <1>5 DEF ToldOnce
<1>7. NewsKept'
  BY <1>1 DEF NewsKept
<1> QED
  BY <1>4, <1>6, <1>7

LEMMA SubscriptionFacts ==
  ASSUME SubscriptionTyped
  PROVE  /\ Emitters = EmittersOf(topic) /\ DOMAIN emitter = EmittersOf(topic)
         /\ IsFiniteSet(EmittersOf(topic))
         /\ \A e \in EmittersOf(topic) :
              /\ emitter[e] \in [status : Statuses, queue : Seq(Notes(topic))]
              /\ emitter[e].status \in Statuses /\ emitter[e].queue \in Seq(Notes(topic))
         /\ UntoldTotal(topic, emitter) \in Nat
         /\ Len(told) \in Nat /\ Len(reads) \in Nat
<1>1. Emitters = EmittersOf(topic) /\ DOMAIN emitter = EmittersOf(topic)
  BY DEF SubscriptionTyped, Emitters
<1>2. IsFiniteSet(EmittersOf(topic))
  BY EmittersFew DEF SubscriptionTyped
<1>3. \A e \in EmittersOf(topic) :
              /\ emitter[e] \in [status : Statuses, queue : Seq(Notes(topic))]
              /\ emitter[e].status \in Statuses /\ emitter[e].queue \in Seq(Notes(topic))
  BY DEF SubscriptionTyped
<1>4. UntoldTotal(topic, emitter) \in Nat
  BY <1>1, <1>2, <1>3, TotalCounted
<1> QED
  BY <1>1, <1>2, <1>3, <1>4, LenProperties DEF SubscriptionTyped

(* One note of an event is told, or leads to a read.                        *)
NewsOf(notes, news, value) ==
  /\ notes \in SUBSET Notes(topic)
  /\ news \in notes
  /\ \A n \in notes : n.emitter = news.emitter => n = news
  /\ \A n, k \in notes : n.emitter = k.emitter => n = k
  /\ Tells(topic, news.emitter, news)
  /\ \A n \in notes \ {news} : ~Tells(topic, n.emitter, n)
  /\ topic # "balance" => notes = {news} /\ ToldValue(news) = value

(* What is appended to the queues.                                          *)
LEMMA EmitAppends ==
  ASSUME SubscriptionTyped, NEW notes, NEW news, NEW value, NewsOf(notes, news, value),
         Emit(notes, value), NEW e \in EmittersOf(topic)
  PROVE  /\ emitter'[e].status = emitter[e].status
         /\ emitter'[e] = [status |-> emitter[e].status, queue |-> emitter'[e].queue]
         /\ \/ /\ emitter'[e].queue = emitter[e].queue
               /\ Connected(e) => \A n \in notes : n.emitter # e
            \/ /\ Connected(e)
               /\ \E n \in notes : n.emitter = e /\ emitter'[e].queue = Append(emitter[e].queue, n)
<1>1. /\ emitter[e].queue \in Seq(Notes(topic)) /\ e \in Emitters
      /\ emitter[e] \in [status : Statuses, queue : Seq(Notes(topic))]
  BY SubscriptionFacts
<1> DEFINE mine == {n \in notes : n.emitter = e}
<1>2. emitter'[e] = IF Connected(e) THEN [emitter[e] EXCEPT !.queue = @ \o SetToSeq(mine)] ELSE emitter[e]
  BY <1>1 DEF Emit
<1> HIDE DEF mine
<1>3. CASE ~Connected(e)
  BY <1>1, <1>2, <1>3
<1>4. CASE Connected(e) /\ mine = {}
  <2>1. SetToSeq(mine) = <<>>
    <3>1. SetToSeq(mine) \in Seq(mine) /\ ToSet(SetToSeq(mine)) = mine
      BY <1>4, FS_EmptySet, SetAsList
    <3>2. Len(SetToSeq(mine)) \in Nat /\ DOMAIN SetToSeq(mine) = 1 .. Len(SetToSeq(mine))
      BY <3>1, LenProperties
    <3>3. DOMAIN SetToSeq(mine) = {}
      BY <1>4, <3>1 DEF ToSet
    <3> QED
      BY <3>1, <3>2, <3>3, EmptySeq
  <2>2. emitter[e].queue \o <<>> = emitter[e].queue
    BY <1>1, ConcatEmptySeq
  <2>3. emitter'[e] = [emitter[e] EXCEPT !.queue = emitter[e].queue]
    BY <1>2, <1>4, <2>1, <2>2
  <2>4. emitter'[e] = emitter[e]
    BY <1>1, <2>3
  <2> QED
    BY <1>1, <1>4, <2>4 DEF mine
<1>5. CASE Connected(e) /\ mine # {}
  <2>1. PICK n \in notes : n.emitter = e /\ mine = {n}
    BY <1>5 DEF mine, NewsOf
  <2>2. SetToSeq(mine) = <<n>>
    <3>1. IsFiniteSet(mine)
      BY <2>1, FS_Singleton
    <3>2. SetToSeq(mine) \in Seq(mine) /\ IsInjective(SetToSeq(mine)) /\ ToSet(SetToSeq(mine)) = mine
      BY <3>1, SetAsList
    <3>3. Cardinality(ToSet(SetToSeq(mine))) = Len(SetToSeq(mine))
      BY <3>2, LengthIsCardinality
    <3>4. Len(SetToSeq(mine)) = 1
      BY <2>1, <3>2, <3>3, FS_Singleton
    <3>5. SetToSeq(mine)[1] = n
      BY <2>1, <3>2, <3>4, ElementOfSeq
    <3> QED
      BY <3>2, <3>4, <3>5, SeqEqual
  <2>3. emitter[e].queue \o <<n>> = Append(emitter[e].queue, n)
    <3>1. n \in Notes(topic)
      BY DEF NewsOf
    <3> QED
      BY <1>1, <3>1
  <2>4. emitter'[e] = [emitter[e] EXCEPT !.queue = Append(emitter[e].queue, n)]
    BY <1>2, <1>5, <2>2, <2>3
  <2> QED
    BY <1>1, <1>5, <2>1, <2>4
<1> QED
  BY <1>3, <1>4, <1>5

(* An event of a contract.                                                  *)
LEMMA EmitKeeps ==
  ASSUME SubscriptionInv, topic # "nothing", NEW notes, NEW news, NEW value \in OnChainValues(topic),
         NewsOf(notes, news, value), Emit(notes, value)
  PROVE  SubscriptionInv'
<1> DEFINE D == EmittersOf(topic)
           f == news.emitter
<1>1. /\ SubscriptionTyped /\ ToldOnce /\ NewsKept
      /\ events' = events + 1 /\ onChain' = value
      /\ missed' = (\E note \in notes : ~Connected(note.emitter))
      /\ UNCHANGED <<topic, reads, told, disordered, unsubscribed>>
  BY DEF SubscriptionInv, Emit
<1>2. /\ Emitters = D /\ DOMAIN emitter = D /\ IsFiniteSet(D) /\ f \in D
      /\ news \in Notes(topic) /\ \A n \in notes : n \in Notes(topic) /\ n.emitter \in D
      /\ DOMAIN emitter' = D /\ Emitters' = D
  <2>1. Emitters = D /\ DOMAIN emitter = D /\ IsFiniteSet(D)
    BY <1>1, SubscriptionFacts
  <2>2. DOMAIN emitter' = D
    BY <2>1 DEF Emit
  <2>3. news \in Notes(topic) /\ \A n \in notes : n \in Notes(topic) /\ n.emitter \in D
    BY DEF NewsOf, Notes
  <2> QED
    BY <2>1, <2>2, <2>3 DEF Emitters, NewsOf
<1>3. \A e \in D :
         /\ emitter[e].queue \in Seq(Notes(topic)) /\ emitter[e].status \in Statuses
         /\ emitter'[e].status = emitter[e].status
         /\ emitter'[e] = [status |-> emitter[e].status, queue |-> emitter'[e].queue]
         /\ \/ /\ emitter'[e].queue = emitter[e].queue
               /\ Connected(e) => \A n \in notes : n.emitter # e
            \/ /\ Connected(e)
               /\ \E n \in notes : n.emitter = e /\ emitter'[e].queue = Append(emitter[e].queue, n)
  <2>1. SubscriptionTyped /\ NewsOf(notes, news, value) /\ Emit(notes, value)
    BY <1>1
  <2>2. \A e \in D : emitter[e].queue \in Seq(Notes(topic)) /\ emitter[e].status \in Statuses
    BY <2>1, SubscriptionFacts
  <2>3. \A e \in D :
         /\ emitter'[e].status = emitter[e].status
         /\ emitter'[e] = [status |-> emitter[e].status, queue |-> emitter'[e].queue]
         /\ \/ /\ emitter'[e].queue = emitter[e].queue
               /\ Connected(e) => \A n \in notes : n.emitter # e
            \/ /\ Connected(e)
               /\ \E n \in notes : n.emitter = e /\ emitter'[e].queue = Append(emitter[e].queue, n)
    BY ONLY <2>1, EmitAppends
  <2> QED
    BY <2>2, <2>3
<1> HIDE DEF D, f
<1>4. \A e \in D : emitter'[e].queue \in Seq(Notes(topic))
  <2> TAKE e \in D
  <2>1. CASE \E n \in notes : n.emitter = e /\ emitter'[e].queue = Append(emitter[e].queue, n)
    <3>1. PICK n \in notes : n.emitter = e /\ emitter'[e].queue = Append(emitter[e].queue, n)
      BY <2>1
    <3>2. n \in Notes(topic) /\ emitter[e].queue \in Seq(Notes(topic))
      BY <1>2, <1>3
    <3> QED
      BY <3>1, <3>2, Adding
  <2> QED
    BY <1>3, <2>1
<1>5. SubscriptionTyped'
  <2>1. emitter' \in [D -> [status : Statuses, queue : Seq(Notes(topic))]]
    <3>1. emitter' = [e \in D |-> emitter'[e]]
      <4> DEFINE New(e) ==
            IF Connected(e)
              THEN [emitter[e] EXCEPT !.queue = @ \o SetToSeq({note \in notes : note.emitter = e})]
              ELSE emitter[e]
      <4>1. emitter' = [e \in D |-> New(e)]
        BY <1>2 DEF Emit
      <4> HIDE DEF New
      <4>2. \A e \in D : emitter'[e] = New(e)
        BY <4>1
      <4>3. [e \in D |-> emitter'[e]] = [e \in D |-> New(e)]
        BY <4>2
      <4> QED
        BY <4>1, <4>3
    <3>2. \A e \in D : emitter'[e] \in [status : Statuses, queue : Seq(Notes(topic))]
      <4> TAKE e \in D
      <4>1. /\ emitter'[e] = [status |-> emitter[e].status, queue |-> emitter'[e].queue]
            /\ emitter[e].status \in Statuses
        BY <1>3
      <4>2. emitter'[e].queue \in Seq(Notes(topic))
        BY <1>4
      <4> QED
        BY ONLY <4>1, <4>2
    <3> QED
      BY <3>1, <3>2
  <2>2. \A e \in D : Queued(e)' => Connected(e)'
    BY <1>1, <1>2, <1>3 DEF SubscriptionTyped, Queued, Connected
  <2>3. unsubscribed.called => \A e \in D : Unsubscribed(e)'
    BY <1>1, <1>2, <1>3 DEF SubscriptionTyped, Unsubscribed
  <2>4. events + 1 \in Nat /\ missed' \in BOOLEAN
    BY <1>1 DEF SubscriptionTyped
  <2> QED
    BY <1>1, <1>2, <2>1, <2>2, <2>3, <2>4 DEF SubscriptionTyped, D
<1>6. \A e \in D \ {f} :
        Cardinality(Untold(topic, e, emitter'[e].queue)) = Cardinality(Untold(topic, e, emitter[e].queue))
  <2> TAKE e \in D \ {f}
  <2>1. CASE emitter'[e].queue = emitter[e].queue
    BY <2>1
  <2>2. CASE \E n \in notes : n.emitter = e /\ emitter'[e].queue = Append(emitter[e].queue, n)
    <3>1. PICK n \in notes : n.emitter = e /\ emitter'[e].queue = Append(emitter[e].queue, n)
      BY <2>2
    <3>2. ~Tells(topic, e, n) /\ n \in Notes(topic)
      BY <1>2, <3>1 DEF NewsOf, f
    <3>3. emitter[e].queue \in Seq(Notes(topic))
      BY <1>3
    <3>4. /\ Cardinality(Untold(topic, e, Append(emitter[e].queue, n)))
              = Cardinality(Untold(topic, e, emitter[e].queue)) + 0
          /\ Cardinality(Untold(topic, e, emitter[e].queue)) \in Nat
      BY <3>2, <3>3, QueueGrows, QueueCounted
    <3> QED
      BY <3>1, <3>4
  <2> QED
    BY <1>3, <2>1, <2>2
<1>7. /\ Connected(f) =>
           /\ emitter'[f].queue = Append(emitter[f].queue, news)
           /\ Untold(topic, f, emitter'[f].queue) # {}
      /\ Cardinality(Untold(topic, f, emitter'[f].queue)) <= Cardinality(Untold(topic, f, emitter[f].queue)) + 1
      /\ Cardinality(Untold(topic, f, emitter'[f].queue)) \in Nat
      /\ Cardinality(Untold(topic, f, emitter[f].queue)) \in Nat
  <2>1. f \in D /\ news \in notes /\ news.emitter = f /\ Tells(topic, f, news) /\ news \in Notes(topic)
        /\ \A n \in notes : n.emitter = f => n = news
    BY <1>2 DEF f, NewsOf
  <2>2. /\ Cardinality(Untold(topic, f, emitter'[f].queue)) \in Nat
        /\ Cardinality(Untold(topic, f, emitter[f].queue)) \in Nat
    BY <1>3, <1>4, <2>1, QueueCounted
  <2>3. CASE emitter'[f].queue = emitter[f].queue /\ ~Connected(f)
    BY <2>2, <2>3
  <2>4. CASE Connected(f)
    <3>1. emitter'[f].queue = Append(emitter[f].queue, news)
      <4>1. PICK n \in notes : n.emitter = f /\ emitter'[f].queue = Append(emitter[f].queue, n)
        BY <1>3, <2>1, <2>4
      <4> QED
        BY <2>1, <4>1
    <3>2. emitter[f].queue \in Seq(Notes(topic))
      BY <1>3, <2>1
    <3>3. /\ Untold(topic, f, Append(emitter[f].queue, news)) # {}
          /\ Cardinality(Untold(topic, f, Append(emitter[f].queue, news)))
              = Cardinality(Untold(topic, f, emitter[f].queue)) + 1
      BY <2>1, <3>2, QueueGrows
    <3> QED
      BY <2>2, <3>1, <3>3
  <2> QED
    BY <1>3, <2>1, <2>3, <2>4
<1>8. ToldOnce'
  <2>1. UntoldTotal(topic, emitter') = UntoldTotal(topic, emitter)
           + (Cardinality(Untold(topic, f, emitter'[f].queue)) - Cardinality(Untold(topic, f, emitter[f].queue)))
    <3>1. \A e \in D : emitter[e].queue \in Seq(Notes(topic)) /\ emitter'[e].queue \in Seq(Notes(topic))
      BY <1>3, <1>4
    <3> QED
      BY ONLY <1>2, <1>6, <3>1, TotalFollows
  <2>2. UntoldTotal(topic, emitter) \in Nat /\ Len(told) \in Nat /\ Len(reads) \in Nat /\ events \in Nat
    BY <1>1, SubscriptionFacts DEF SubscriptionTyped
  <2>3. UntoldTotal(topic, emitter') <= UntoldTotal(topic, emitter) + 1 /\ UntoldTotal(topic, emitter') \in Int
    BY <1>7, <2>1, <2>2
  <2> QED
    BY <1>1, <2>2, <2>3 DEF ToldOnce
<1>9. NewsKept'
  <2> SUFFICES ASSUME ~missed' PROVE NewsKept'
    BY DEF NewsKept
  <2>1. \A n \in notes : Connected(n.emitter)
    BY <1>1
  <2>2. Connected(f) /\ f \in D
    BY <1>2, <2>1 DEF f, NewsOf
  <2>3. TruthToCome'
    BY <1>1, <1>2, <1>7, <2>2 DEF TruthToCome
  <2>4. topic # "balance" => Queued(f)' /\ ToldValue(news)' = value
          /\ emitter'[f].queue[Len(emitter'[f].queue)] = news
    <3>1. emitter[f].queue \in Seq(Notes(topic)) /\ news \in Notes(topic)
      BY <1>2, <1>3
    <3>2. emitter'[f].queue = Append(emitter[f].queue, news)
      BY <1>7, <2>2
    <3>3. /\ Append(emitter[f].queue, news) # <<>>
          /\ Append(emitter[f].queue, news)[Len(Append(emitter[f].queue, news))] = news
      BY <3>1, Adding
    <3>4. topic # "balance" => ToldValue(news)' = value
      BY <1>1 DEF NewsOf, ToldValue
    <3> QED
      BY <3>2, <3>3, <3>4 DEF Queued
  <2>5. \A e \in D : topic # "balance" /\ QueuedAlone(e)' => e = f
    BY <1>2, <2>2, <2>4 DEF QueuedAlone
  <2> QED
    BY <1>1, <1>2, <2>2, <2>3, <2>4, <2>5 DEF NewsKept, ToldValue
<1> QED
  BY <1>5, <1>8, <1>9 DEF SubscriptionInv

LEMMA OneNote ==
  ASSUME topic # "nothing", NEW e \in EmittersOf(topic), NEW v \in NoteValues(topic), NEW value,
         Tells(topic, e, Note(e, v)), topic # "balance" => ToldValue(Note(e, v)) = value
  PROVE  NewsOf({Note(e, v)}, Note(e, v), value)
<1>1. Note(e, v).emitter = e /\ Note(e, v) \in Notes(topic)
  BY DEF Note, Notes
<1> QED
  BY <1>1 DEF NewsOf

LEMMA TransferKeeps == ASSUME SubscriptionInv, Transfer PROVE SubscriptionInv'
<1>1. /\ topic = "balance" /\ topic # "nothing" /\ EmittersOf(topic) = {"from", "to"}
      /\ NoteValues(topic) = {"out", "in", "self"} /\ OnChainValues(topic) = Int
  BY DEF Transfer, EmittersOf, NoteValues, OnChainValues
<1>2. onChain \in Int
  BY <1>1 DEF SubscriptionInv, SubscriptionTyped
<1>3. CASE Emit({Note("from", "out")}, onChain - 1)
  <2>1. Tells(topic, "from", Note("from", "out"))
    BY DEF Tells, ReadsBalanceFor
  <2>2. NewsOf({Note("from", "out")}, Note("from", "out"), onChain - 1)
    BY <1>1, <2>1, OneNote
  <2> QED
    BY <1>1, <1>2, <1>3, <2>2, EmitKeeps
<1>4. CASE Emit({Note("to", "in")}, onChain + 1)
  <2>1. Tells(topic, "to", Note("to", "in"))
    BY DEF Tells, ReadsBalanceFor, Note
  <2>2. NewsOf({Note("to", "in")}, Note("to", "in"), onChain + 1)
    BY <1>1, <2>1, OneNote
  <2> QED
    BY <1>1, <1>2, <1>4, <2>2, EmitKeeps
<1>5. CASE Emit({Note("from", "self"), Note("to", "self")}, onChain)
  <2>1. /\ Note("from", "self").emitter = "from" /\ Note("to", "self").emitter = "to"
        /\ Note("to", "self").value = "self"
        /\ {Note("from", "self"), Note("to", "self")} \in SUBSET Notes(topic)
    BY <1>1 DEF Notes, Note
  <2>2. Tells(topic, "from", Note("from", "self")) /\ ~Tells(topic, "to", Note("to", "self"))
    BY <1>1, <2>1 DEF Tells, ReadsBalanceFor
  <2>3. NewsOf({Note("from", "self"), Note("to", "self")}, Note("from", "self"), onChain)
    BY <1>1, <2>1, <2>2 DEF NewsOf
  <2> QED
    BY <1>1, <1>2, <1>5, <2>3, EmitKeeps
<1> QED
  BY <1>3, <1>4, <1>5 DEF Transfer

LEMMA StakingEventKeeps == ASSUME SubscriptionInv, StakingEvent PROVE SubscriptionInv'
<1>1. /\ topic = "stake" /\ topic # "nothing" /\ topic # "balance"
      /\ EmittersOf(topic) = {"Staked", "Unstaked", "Restaked", "Withdrew"}
      /\ NoteValues(topic) = [amount : Int, total : Int] /\ OnChainValues(topic) = Int
  BY DEF StakingEvent, EmittersOf, NoteValues, OnChainValues
<1>2. onChain \in Int
  BY <1>1 DEF SubscriptionInv, SubscriptionTyped
<1>3. ASSUME NEW e \in EmittersOf(topic), NEW total \in Int,
             Emit({Note(e, [amount |-> 2, total |-> total])}, total)
      PROVE  SubscriptionInv'
  <2> DEFINE v == [amount |-> 2, total |-> total]
  <2>1. v \in NoteValues(topic)
    <3>1. [amount |-> 2, total |-> total] \in [amount : Int, total : Int]
      OBVIOUS
    <3> QED
      BY <1>1, <3>1
  <2>2. Tells(topic, e, Note(e, v)) /\ ToldValue(Note(e, v)) = total
    BY <1>1 DEF Tells, ToldValue, Note
  <2>3. Emit({Note(e, v)}, total)
    BY <1>3
  <2> HIDE DEF v
  <2>4. NewsOf({Note(e, v)}, Note(e, v), total)
    BY <1>1, <2>1, <2>2, OneNote
  <2> QED
    BY <1>1, <2>3, <2>4, EmitKeeps
<1>4. onChain + 2 \in Int /\ onChain - 2 \in Int
  BY <1>2
<1> QED
  BY <1>1, <1>2, <1>3, <1>4 DEF StakingEvent

LEMMA OtherEventKeeps == ASSUME SubscriptionInv, OtherEvent PROVE SubscriptionInv'
<1>1. /\ topic # "nothing" /\ topic # "balance" /\ topic # "stake"
      /\ NoteValues(topic) = Values /\ OnChainValues(topic) = Values \cup {1}
  BY DEF OtherEvent, NoteValues, OnChainValues
<1>2. PICK value \in Values, e \in Emitters : Emit({Note(e, value)}, value)
  BY DEF OtherEvent
<1>3. e \in EmittersOf(topic)
  BY SubscriptionFacts DEF SubscriptionInv
<1>4. Tells(topic, e, Note(e, value)) /\ ToldValue(Note(e, value)) = value
  BY <1>1 DEF Tells, ToldValue, Note
<1>5. NewsOf({Note(e, value)}, Note(e, value), value)
  BY <1>1, <1>3, <1>4, OneNote
<1> QED
  BY <1>1, <1>2, <1>5, EmitKeeps

(* Where only the status changes, the queues have as much to tell.          *)
LEMMA SameQueues ==
  ASSUME NEW t, NEW m, NEW w, DOMAIN w = DOMAIN m, \A e \in DOMAIN m : w[e].queue = m[e].queue
  PROVE  UntoldTotal(t, w) = UntoldTotal(t, m)
<1>1. UntoldCount(t, w) = UntoldCount(t, m)
  BY DEF UntoldCount
<1> QED
  BY <1>1 DEF UntoldTotal

LEMMA ConnectKeeps ==
  ASSUME SubscriptionInv, NEW f \in Emitters, Connect(f)
  PROVE  SubscriptionInv'
<1> DEFINE D == EmittersOf(topic)
           entry == IF Unsubscribed(f) THEN Off ELSE [emitter[f] EXCEPT !.status = "connected"]
<1>1. /\ SubscriptionTyped /\ ToldOnce /\ NewsKept
      /\ UNCHANGED <<topic, onChain, events, missed, reads, told, disordered, unsubscribed>>
      /\ emitter' = [emitter EXCEPT ![f] = entry]
      /\ emitter[f].status # "connected"
  BY DEF SubscriptionInv, Connect
<1>2. /\ Emitters = D /\ DOMAIN emitter = D /\ f \in D
      /\ \A e \in D : /\ emitter[e] \in [status : Statuses, queue : Seq(Notes(topic))]
                      /\ emitter[e].queue \in Seq(Notes(topic))
  BY <1>1, SubscriptionFacts
<1>3. emitter[f].queue = <<>>
  BY <1>1, <1>2 DEF SubscriptionTyped, Queued, Connected
<1>4. /\ entry \in [status : Statuses, queue : Seq(Notes(topic))] /\ entry.queue = <<>>
      /\ unsubscribed.called => entry.status = "off"
  <2>1. emitter[f] \in [status : Statuses, queue : Seq(Notes(topic))]
    BY <1>2
  <2>2. unsubscribed.called => Unsubscribed(f)
    BY <1>1 DEF SubscriptionTyped
  <2> QED
    BY <1>2, <1>3, <2>1, <2>2 DEF Off, Statuses
<1> HIDE DEF D, entry
<1>5. /\ DOMAIN emitter' = D /\ emitter'[f] = entry /\ \A e \in D \ {f} : emitter'[e] = emitter[e]
      /\ \A e \in D : emitter'[e].queue = emitter[e].queue
      /\ emitter' \in [D -> [status : Statuses, queue : Seq(Notes(topic))]]
  <2>1. DOMAIN emitter' = D /\ emitter'[f] = entry /\ \A e \in D \ {f} : emitter'[e] = emitter[e]
    BY <1>1, <1>2
  <2>2. emitter \in [D -> [status : Statuses, queue : Seq(Notes(topic))]]
    BY <1>1 DEF SubscriptionTyped, D
  <2> QED
    BY <1>1, <1>2, <1>3, <1>4, <2>1, <2>2
<1>6. SubscriptionTyped'
  <2>1. Emitters' = D /\ topic' = topic /\ D = EmittersOf(topic)
    BY <1>1, <1>5 DEF Emitters, D
  <2>2. \A e \in D : Queued(e)' => Connected(e)'
    BY <1>1, <1>2, <1>4, <1>5 DEF SubscriptionTyped, Queued, Connected
  <2>3. unsubscribed.called => \A e \in D : Unsubscribed(e)'
    BY <1>1, <1>2, <1>4, <1>5 DEF SubscriptionTyped, Unsubscribed
  <2> QED
    BY <1>1, <1>5, <2>1, <2>2, <2>3 DEF SubscriptionTyped
<1>7. ToldOnce'
  <2>1. UntoldTotal(topic, emitter') = UntoldTotal(topic, emitter)
    BY <1>2, <1>5, SameQueues
  <2> QED
    BY <1>1, <2>1 DEF ToldOnce
<1>8. NewsKept'
  <2>1. Emitters' = D
    BY <1>5 DEF Emitters
  <2>2. TruthToCome' = TruthToCome
    BY <1>1, <1>2, <1>5, <2>1 DEF TruthToCome
  <2>3. TruthIsRead' = TruthIsRead /\ TruthIsTold' = TruthIsTold
    BY <1>1 DEF TruthIsRead, TruthIsTold
  <2>4. \A e \in D : Queued(e)' = Queued(e) /\ QueuedAlone(e)' = QueuedAlone(e)
    BY <1>2, <1>5, <2>1 DEF Queued, QueuedAlone
  <2> QED
    BY <1>1, <1>2, <1>5, <2>1, <2>2, <2>3, <2>4 DEF NewsKept, ToldValue
<1> QED
  BY <1>6, <1>7, <1>8 DEF SubscriptionInv


(* Unsubscribing empties every queue.                                       *)
LEMMA UnsubscribeKeeps ==
  ASSUME SubscriptionInv, UnsubscribeFromAll
  PROVE  SubscriptionInv'
<1> DEFINE D == EmittersOf(topic)
<1>1. /\ SubscriptionTyped /\ ToldOnce /\ topic # "nothing"
      /\ UNCHANGED <<topic, onChain, events, missed, reads, told, disordered>>
      /\ unsubscribed' = [called |-> TRUE, due |-> Len(told) + Len(reads)]
      /\ emitter' = [e \in Emitters |-> GetUnsubscribePromise(e)]
  BY DEF SubscriptionInv, UnsubscribeFromAll
<1>2. /\ Emitters = D /\ DOMAIN emitter = D /\ IsFiniteSet(D)
      /\ \A e \in D : /\ emitter[e] \in [status : Statuses, queue : Seq(Notes(topic))]
                      /\ emitter[e].queue \in Seq(Notes(topic))
      /\ Len(told) \in Nat /\ Len(reads) \in Nat /\ UntoldTotal(topic, emitter) \in Nat
  BY <1>1, SubscriptionFacts
<1> HIDE DEF D
<1>3. \A e \in D : /\ GetUnsubscribePromise(e) \in [status : Statuses, queue : Seq(Notes(topic))]
                  /\ GetUnsubscribePromise(e).queue = <<>>
                  /\ GetUnsubscribePromise(e).status \in {"off", "unsubscribing"}
  <2> TAKE e \in D
  <2>1. emitter[e] \in [status : Statuses, queue : Seq(Notes(topic))]
    BY <1>2
  <2>2. emitter[e].status = "connecting" => emitter[e].queue = <<>>
    BY <1>1, <1>2 DEF SubscriptionTyped, Queued, Connected
  <2>3. <<>> \in Seq(Notes(topic))
    BY EmptySeq
  <2> QED
    BY <2>1, <2>2, <2>3 DEF GetUnsubscribePromise, Off, Statuses
<1>4. /\ emitter' \in [D -> [status : Statuses, queue : Seq(Notes(topic))]] /\ DOMAIN emitter' = D
      /\ \A e \in D : /\ emitter'[e].queue = <<>>
                      /\ emitter'[e].status \in {"off", "unsubscribing"}
                      /\ emitter'[e].queue \in Seq(Notes(topic))
  <2>1. emitter' = [e \in D |-> GetUnsubscribePromise(e)]
    BY <1>1, <1>2
  <2> QED
    BY <1>3, <2>1
<1>5. Emitters' = D /\ EmittersOf(topic)' = D
  BY <1>1, <1>4 DEF Emitters, D
<1>6. SubscriptionTyped'
  <2>1. \A e \in D : ~Queued(e)' /\ Unsubscribed(e)'
    BY <1>4 DEF Queued, Unsubscribed
  <2>2. unsubscribed' \in [called : BOOLEAN, due : Nat]
    BY <1>1, <1>2
  <2> QED
    BY <1>1, <1>4, <1>5, <2>1, <2>2 DEF SubscriptionTyped, D
<1>7. ToldOnce'
  <2>1. UntoldTotal(topic, emitter') = 0
    BY <1>2, <1>4, TotalCounted
  <2>2. events \in Nat
    BY <1>1 DEF SubscriptionTyped
  <2> QED
    BY <1>1, <1>2, <2>1, <2>2 DEF ToldOnce
<1>8. NewsKept'
  BY <1>1 DEF NewsKept
<1> QED
  BY <1>6, <1>7, <1>8 DEF SubscriptionInv

(* What a handler takes off its queue.                                      *)
LEMMA PoppedFacts ==
  ASSUME SubscriptionTyped, NEW f \in Emitters, Queued(f), emitter' = Popped(f), UNCHANGED topic
  PROVE  /\ Connected(f) /\ ~unsubscribed.called /\ f \in EmittersOf(topic)
         /\ Emitters' = EmittersOf(topic) /\ DOMAIN emitter' = EmittersOf(topic)
         /\ emitter' \in [EmittersOf(topic) -> [status : Statuses, queue : Seq(Notes(topic))]]
         /\ Head(emitter[f].queue) \in Notes(topic)
         /\ emitter'[f].queue = Tail(emitter[f].queue)
         /\ \A e \in EmittersOf(topic) \ {f} : emitter'[e] = emitter[e]
         /\ \A e \in EmittersOf(topic) : emitter'[e].status = emitter[e].status
         /\ UntoldTotal(topic, emitter) = UntoldTotal(topic, emitter')
              + IF Tells(topic, f, Head(emitter[f].queue)) THEN 1 ELSE 0
         /\ UntoldTotal(topic, emitter') \in Nat
<1> DEFINE D == EmittersOf(topic)
           q == emitter[f].queue
<1>1. /\ Emitters = D /\ DOMAIN emitter = D /\ IsFiniteSet(D) /\ f \in D
      /\ \A e \in D : /\ emitter[e] \in [status : Statuses, queue : Seq(Notes(topic))]
                      /\ emitter[e].queue \in Seq(Notes(topic))
  BY SubscriptionFacts
<1>2. q # <<>> /\ q \in Seq(Notes(topic)) /\ emitter' = [emitter EXCEPT ![f].queue = Tail(q)]
  BY <1>1 DEF Queued, Popped
<1>3. Connected(f) /\ ~unsubscribed.called
  <2>1. Connected(f)
    BY <1>1 DEF SubscriptionTyped
  <2> QED
    BY <1>1, <2>1 DEF SubscriptionTyped, Connected, Unsubscribed
<1>4. Tail(q) \in Seq(Notes(topic)) /\ Head(q) \in Notes(topic)
  BY <1>2, Popping
<1>5. emitter \in [D -> [status : Statuses, queue : Seq(Notes(topic))]]
  BY DEF SubscriptionTyped
<1> HIDE DEF D, q
<1>6. /\ DOMAIN emitter' = D /\ emitter'[f].queue = Tail(q) /\ emitter'[f].status = emitter[f].status
      /\ \A e \in D \ {f} : emitter'[e] = emitter[e]
      /\ emitter' \in [D -> [status : Statuses, queue : Seq(Notes(topic))]]
  BY <1>1, <1>2, <1>4, <1>5
<1>7. \A e \in D : emitter[e].queue \in Seq(Notes(topic)) /\ emitter'[e].queue \in Seq(Notes(topic))
  BY <1>1, <1>4, <1>6
<1>8. UntoldTotal(topic, emitter') = UntoldTotal(topic, emitter)
           + (Cardinality(Untold(topic, f, emitter'[f].queue)) - Cardinality(Untold(topic, f, emitter[f].queue)))
  <2>1. \A e \in D \ {f} :
        Cardinality(Untold(topic, e, emitter'[e].queue)) = Cardinality(Untold(topic, e, emitter[e].queue))
    BY <1>6
  <2>2. IsFiniteSet(D) /\ DOMAIN emitter = D /\ DOMAIN emitter' = D /\ f \in D
    BY <1>1, <1>6
  <2> QED
    BY ONLY <1>7, <2>1, <2>2, TotalFollows
<1>9. /\ Cardinality(Untold(topic, f, q))
              = Cardinality(Untold(topic, f, Tail(q))) + IF Tells(topic, f, Head(q)) THEN 1 ELSE 0
      /\ Cardinality(Untold(topic, f, q)) \in Nat /\ Cardinality(Untold(topic, f, Tail(q))) \in Nat
  <2>1. Cardinality(Untold(topic, f, q))
              = Cardinality(Untold(topic, f, Tail(q))) + IF Tells(topic, f, Head(q)) THEN 1 ELSE 0
    BY <1>2, QueueShrinks
  <2> QED
    BY <1>2, <1>4, <2>1, QueueCounted
<1>10. UntoldTotal(topic, emitter) \in Nat /\ UntoldTotal(topic, emitter') \in Nat
  BY ONLY <1>1, <1>6, <1>7, TotalCounted
<1>11. UntoldTotal(topic, emitter) = UntoldTotal(topic, emitter')
              + IF Tells(topic, f, Head(q)) THEN 1 ELSE 0
  BY <1>6, <1>8, <1>9, <1>10 DEF q
<1> QED
  BY <1>1, <1>3, <1>4, <1>6, <1>10, <1>11 DEF D, q, Emitters

LEMMA OnTransferKeeps ==
  ASSUME SubscriptionInv, NEW f \in Emitters, OnTransfer(f)
  PROVE  SubscriptionInv'
<1> DEFINE D == EmittersOf(topic)
           q == emitter[f].queue
<1>1. /\ SubscriptionTyped /\ ToldOnce /\ NewsKept /\ topic = "balance" /\ Queued(f)
      /\ UNCHANGED <<topic, onChain, events, missed, told, disordered, unsubscribed>>
      /\ reads' = IF ReadsBalanceFor(f, Head(q)) THEN Append(reads, <<>>) ELSE reads
      /\ emitter' = Popped(f)
  BY DEF SubscriptionInv, OnTransfer
<1>2. /\ Connected(f) /\ ~unsubscribed.called /\ f \in D
      /\ Emitters' = D /\ DOMAIN emitter' = D
      /\ emitter' \in [D -> [status : Statuses, queue : Seq(Notes(topic))]]
      /\ emitter'[f].queue = Tail(q)
      /\ \A e \in D \ {f} : emitter'[e] = emitter[e]
      /\ \A e \in D : emitter'[e].status = emitter[e].status
      /\ UntoldTotal(topic, emitter) = UntoldTotal(topic, emitter')
              + IF Tells(topic, f, Head(q)) THEN 1 ELSE 0
      /\ UntoldTotal(topic, emitter') \in Nat
  BY <1>1, PoppedFacts
<1>3. /\ Emitters = D /\ q \in Seq(Notes(topic)) /\ q # <<>>
      /\ Len(told) \in Nat /\ Len(reads) \in Nat /\ events \in Nat
  BY <1>1, <1>2, SubscriptionFacts DEF Queued, SubscriptionTyped
<1> DEFINE A == {<<>>} \cup {<<v>> : v \in OnChainValues(topic)}
<1>4. /\ reads \in Seq(A) /\ <<>> \in A
      /\ Append(reads, <<>>) \in Seq(A) /\ Len(Append(reads, <<>>)) = Len(reads) + 1
      /\ Append(reads, <<>>) # <<>> /\ Append(reads, <<>>)[Len(Append(reads, <<>>))] = <<>>
  <2>1. reads \in Seq(A) /\ <<>> \in A
    BY <1>1 DEF SubscriptionTyped
  <2> HIDE DEF A
  <2> QED
    BY <2>1, Adding
<1>5. Tells(topic, f, Head(q)) <=> ReadsBalanceFor(f, Head(q))
  BY <1>1 DEF Tells
<1>6. SubscriptionTyped'
  <2>1. \A e \in D : Queued(e)' => Connected(e)'
    <3>1. \A e \in D : Queued(e) => Connected(e)
      BY <1>1, <1>3 DEF SubscriptionTyped
    <3> QED
      BY <1>2, <3>1 DEF Queued, Connected
  <2>2. reads' \in Seq(A)
    <3> HIDE DEF A, q
    <3> QED
      BY <1>1, <1>4
  <2> QED
    BY <1>1, <1>2, <2>1, <2>2 DEF SubscriptionTyped
<1> HIDE DEF D, q, A
<1>7. ToldOnce'
  BY <1>1, <1>2, <1>3, <1>4, <1>5 DEF ToldOnce
<1>8. NewsKept'
  <2> SUFFICES ASSUME NewsKept' = FALSE, events > 0, ~missed, ~disordered PROVE FALSE
    BY <1>1 DEF NewsKept
  <2>1. TruthToCome \/ TruthIsRead \/ (reads = <<>> /\ TruthIsTold)
    BY <1>1, <1>2 DEF NewsKept
  <2>2. CASE ReadsBalanceFor(f, Head(q))
    <3>1. TruthIsRead'
      BY <1>1, <1>4, <2>2 DEF TruthIsRead
    <3> QED
      BY <1>1, <3>1 DEF NewsKept
  <2>3. CASE ~ReadsBalanceFor(f, Head(q))
    <3>1. TruthIsRead' = TruthIsRead /\ TruthIsTold' = TruthIsTold /\ reads' = reads
      BY <1>1, <2>3 DEF TruthIsRead, TruthIsTold
    <3>2. TruthToCome => TruthToCome'
      <4> SUFFICES ASSUME NEW e \in D, Untold(topic, e, emitter[e].queue) # {}
                   PROVE  Untold(topic, e, emitter'[e].queue) # {}
        BY <1>1, <1>2, <1>3 DEF TruthToCome
      <4>1. CASE e = f
        <5>1. ~Tells(topic, f, Head(q))
          BY <1>5, <2>3
        <5>2. Untold(topic, f, Tail(q)) # {}
          BY <1>3, <4>1, <5>1, QueueShrinks DEF q
        <5> QED
          BY <1>2, <4>1, <5>2
      <4> QED
        BY <1>2, <4>1
    <3> QED
      BY <1>1, <2>1, <3>1, <3>2 DEF NewsKept
  <2> QED
    BY <2>2, <2>3
<1> QED
  BY <1>6, <1>7, <1>8 DEF SubscriptionInv


LEMMA AnswerReadKeeps ==
  ASSUME SubscriptionInv, NEW k \in DOMAIN reads, AnswerRead(k)
  PROVE  SubscriptionInv'
<1> DEFINE A == {<<>>} \cup {<<v>> : v \in OnChainValues(topic)}
<1>1. /\ SubscriptionTyped /\ ToldOnce /\ NewsKept
      /\ UNCHANGED <<topic, emitter, onChain, events, missed, told, disordered, unsubscribed>>
      /\ reads' = [reads EXCEPT ![k] = <<onChain>>]
  BY DEF SubscriptionInv, AnswerRead
<1>2. reads \in Seq(A) /\ <<onChain>> \in A /\ (topic # "balance" => reads = <<>>)
  BY <1>1 DEF SubscriptionTyped
<1> HIDE DEF A
<1>3. Len(reads) \in Nat /\ DOMAIN reads = 1 .. Len(reads) /\ k \in 1 .. Len(reads) /\ Len(reads) \in 1 .. Len(reads)
  BY <1>2, LenProperties
<1>4. /\ reads' \in Seq(A) /\ Len(reads') = Len(reads) /\ reads # <<>> /\ reads' # <<>>
      /\ \A i \in 1 .. Len(reads) : reads'[i] = IF i = k THEN <<onChain>> ELSE reads[i]
  BY <1>1, <1>2, <1>3
<1>5. SubscriptionTyped'
  <2>1. Emitters' = Emitters /\ \A e \in Emitters : /\ Queued(e)' = Queued(e) /\ Connected(e)' = Connected(e)
                                                  /\ Unsubscribed(e)' = Unsubscribed(e)
    BY <1>1 DEF Emitters, Queued, Connected, Unsubscribed
  <2>2. topic = "balance"
    BY <1>2, <1>4
  <2> QED
    BY <1>1, <1>4, <2>1, <2>2 DEF SubscriptionTyped, A
<1>6. ToldOnce'
  BY <1>1, <1>4 DEF ToldOnce
<1>7. NewsKept'
  <2>1. TruthToCome' = TruthToCome
    BY <1>1 DEF TruthToCome, Emitters
  <2>2. TruthIsRead => TruthIsRead'
    BY <1>1, <1>3, <1>4 DEF TruthIsRead
  <2>3. topic = "balance"
    BY <1>2, <1>4
  <2> QED
    BY <1>1, <1>4, <2>1, <2>2, <2>3 DEF NewsKept
<1> QED
  BY <1>5, <1>6, <1>7 DEF SubscriptionInv

LEMMA TellBalanceKeeps ==
  ASSUME SubscriptionInv, NEW k \in DOMAIN reads, TellBalance(k)
  PROVE  SubscriptionInv'
<1> DEFINE A == {<<>>} \cup {<<v>> : v \in OnChainValues(topic)}
           V == OnChainValues(topic)
           n == Len(reads)
<1>1. /\ SubscriptionTyped /\ ToldOnce /\ NewsKept /\ reads[k] # <<>>
      /\ UNCHANGED <<topic, emitter, onChain, events, missed, unsubscribed>>
      /\ told' = Append(told, reads[k][1]) /\ reads' = RemoveAt(reads, k)
      /\ disordered' = (disordered \/ k # 1)
  BY DEF SubscriptionInv, TellBalance
<1>2. reads \in Seq(A) /\ told \in Seq(V) /\ disordered \in BOOLEAN /\ (topic # "balance" => reads = <<>>)
  BY <1>1 DEF SubscriptionTyped
<1>3. n \in Nat /\ DOMAIN reads = 1 .. n /\ k \in 1 .. n /\ n >= 1 /\ Len(told) \in Nat
  BY <1>2, LenProperties
<1>4. reads[k] \in A
  BY <1>2, <1>3, ElementOfSeq
<1>5. reads[k][1] \in V
  BY <1>1, <1>4
<1> HIDE DEF A, V
<1>6. /\ told' \in Seq(V) /\ Len(told') = Len(told) + 1 /\ told' # <<>> /\ told'[Len(told')] = reads[k][1]
  BY <1>1, <1>2, <1>5, Adding
<1>7. /\ reads' \in Seq(A) /\ Len(reads') = n - 1
      /\ \A i \in 1 .. n - 1 : reads'[i] = IF i < k THEN reads[i] ELSE reads[i + 1]
  BY <1>1, <1>2, <1>3, RemoveAtProperties
<1> HIDE DEF n
<1>8. reads # <<>> /\ topic = "balance"
  BY <1>2, <1>3
<1>9. SubscriptionTyped'
  <2>1. Emitters' = Emitters /\ \A e \in Emitters : /\ Queued(e)' = Queued(e) /\ Connected(e)' = Connected(e)
                                                  /\ Unsubscribed(e)' = Unsubscribed(e)
    BY <1>1 DEF Emitters, Queued, Connected, Unsubscribed
  <2>2. disordered' \in BOOLEAN
    BY <1>1, <1>2
  <2> QED
    BY <1>1, <1>6, <1>7, <1>8, <2>1, <2>2 DEF SubscriptionTyped, A, V
<1>10. ToldOnce'
  <2>1. Len(told') + Len(reads') = Len(told) + Len(reads)
    BY <1>3, <1>6, <1>7 DEF n
  <2> QED
    BY <1>1, <2>1 DEF ToldOnce
<1>11. NewsKept'
  <2> SUFFICES ASSUME events > 0, ~missed, ~disordered, k = 1, ~unsubscribed.called
               PROVE TruthToCome' \/ TruthIsRead' \/ (reads' = <<>> /\ TruthIsTold')
    BY <1>1, <1>2, <1>8 DEF NewsKept
  <2>1. TruthToCome' = TruthToCome
    BY <1>1 DEF TruthToCome, Emitters
  <2>2. ASSUME TruthIsRead PROVE TruthIsRead' \/ (reads' = <<>> /\ TruthIsTold')
    <3>1. reads[n] \in {<<>>, <<onChain>>}
      BY <2>2 DEF TruthIsRead, n
    <3>2. CASE n = 1
      <4>1. reads' = <<>>
        BY <1>7, <3>2, EmptySeq
      <4>2. reads[k][1] = onChain
        BY <1>1, <3>1, <3>2
      <4> QED
        BY <1>1, <1>6, <4>1, <4>2 DEF TruthIsTold
    <3>3. CASE n > 1
      <4>1. n - 1 \in 1 .. n - 1 /\ (n - 1) + 1 = n
        BY <1>3, <3>3
      <4>2. reads'[n - 1] = reads[n]
        BY <1>3, <1>7, <3>3, <4>1
      <4>3. reads' # <<>>
        BY <1>7, <4>1
      <4>4. Len(reads') = n - 1 /\ onChain' = onChain
        BY <1>1, <1>7
      <4>5. reads'[Len(reads')] \in {<<>>, <<onChain'>>}
        <5>1. reads'[Len(reads')] = reads[n]
          BY ONLY <4>2, <4>4
        <5>2. {<<>>, <<onChain'>>} = {<<>>, <<onChain>>}
          BY ONLY <4>4
        <5> QED
          BY ONLY <3>1, <5>1, <5>2
      <4>6. TruthIsRead'
        BY ONLY <4>3, <4>5 DEF TruthIsRead
      <4> QED
        BY <4>6
    <3> QED
      BY <1>3, <3>2, <3>3
  <2>3. TruthToCome \/ TruthIsRead
    BY <1>1, <1>8 DEF NewsKept
  <2> QED
    BY <2>1, <2>2, <2>3
<1> QED
  BY <1>9, <1>10, <1>11 DEF SubscriptionInv

LEMMA OnEventKeeps ==
  ASSUME SubscriptionInv, NEW f \in Emitters, OnEvent(f)
  PROVE  SubscriptionInv'
<1> DEFINE D == EmittersOf(topic)
           q == emitter[f].queue
           V == OnChainValues(topic)
           n == Len(q) - 1
<1>1. /\ SubscriptionTyped /\ ToldOnce /\ NewsKept /\ topic # "balance" /\ Queued(f)
      /\ UNCHANGED <<topic, onChain, events, missed, reads, unsubscribed>>
      /\ told' = Append(told, ToldValue(Head(q)))
      /\ disordered' = (disordered \/ \E other \in Emitters \ {f} : Queued(other))
      /\ emitter' = Popped(f)
  BY DEF SubscriptionInv, OnEvent
<1>2. /\ Connected(f) /\ ~unsubscribed.called /\ f \in D
      /\ Emitters' = D /\ DOMAIN emitter' = D
      /\ emitter' \in [D -> [status : Statuses, queue : Seq(Notes(topic))]]
      /\ Head(q) \in Notes(topic)
      /\ emitter'[f].queue = Tail(q)
      /\ \A e \in D \ {f} : emitter'[e] = emitter[e]
      /\ \A e \in D : emitter'[e].status = emitter[e].status
      /\ UntoldTotal(topic, emitter) = UntoldTotal(topic, emitter')
              + IF Tells(topic, f, Head(q)) THEN 1 ELSE 0
      /\ UntoldTotal(topic, emitter') \in Nat
  BY <1>1, PoppedFacts
<1>3. /\ Emitters = D /\ q \in Seq(Notes(topic)) /\ q # <<>> /\ topic # "nothing"
      /\ Len(told) \in Nat /\ Len(reads) \in Nat /\ events \in Nat
      /\ told \in Seq(V) /\ topic \in Topics \cup {"nothing"} /\ disordered \in BOOLEAN
  <2>1. topic # "nothing"
    BY <1>2 DEF EmittersOf
  <2> QED
    BY <1>1, <1>2, <2>1, SubscriptionFacts DEF Queued, SubscriptionTyped
<1>4. ToldValue(Head(q)) \in V
  <2>1. Head(q).value \in NoteValues(topic)
    BY <1>2 DEF Notes
  <2> QED
    BY <1>1, <1>3, <2>1 DEF ToldValue, NoteValues, OnChainValues, Topics
<1>5. Tells(topic, f, Head(q))
  BY <1>1 DEF Tells
<1> HIDE DEF D, q, V
<1>6. told' \in Seq(V) /\ Len(told') = Len(told) + 1 /\ told' # <<>> /\ told'[Len(told')] = ToldValue(Head(q))
  <2>1. told \in Seq(V)
    BY <1>3
  <2> QED
    BY <1>1, <1>4, <2>1, Adding
<1>7. disordered' \in BOOLEAN
  BY <1>1, <1>3
<1>8. SubscriptionTyped'
  <2>1. \A e \in D : Queued(e)' => Connected(e)'
    <3>1. \A e \in D : Queued(e) => Connected(e)
      BY <1>1, <1>3 DEF SubscriptionTyped
    <3> QED
      BY <1>2, <3>1 DEF Queued, Connected
  <2> QED
    BY <1>1, <1>2, <1>3, <1>6, <1>7, <2>1 DEF SubscriptionTyped, D, V
<1>9. ToldOnce'
  BY <1>1, <1>2, <1>3, <1>5, <1>6 DEF ToldOnce
<1>10. NewsKept'
  <2> SUFFICES ASSUME events > 0, ~missed, ~disordered, \A other \in D \ {f} : ~Queued(other)
               PROVE /\ \A e \in D : QueuedAlone(e)' =>
                          ToldValue(emitter'[e].queue[Len(emitter'[e].queue)]) = onChain
                     /\ (\A e \in D : ~Queued(e)') => TruthIsTold'
    BY <1>1, <1>2, <1>3 DEF NewsKept, ToldValue
  <2>1. ToldValue(q[Len(q)]) = onChain
    BY <1>1, <1>2, <1>3 DEF NewsKept, QueuedAlone, q
  <2>2. /\ n \in Nat /\ Len(q) = n + 1 /\ Head(q) = q[1] /\ Len(Tail(q)) = n
        /\ \A i \in 1 .. n : Tail(q)[i] = q[i + 1]
    BY <1>3, Popping, LenProperties
  <2>3. \A e \in D \ {f} : ~Queued(e)'
    BY <1>2 DEF Queued
  <2> HIDE DEF n
  <2>4. CASE n = 0
    <3>1. Tail(q) = <<>>
      BY <2>2, <2>4, <1>3, Popping, EmptySeq
    <3>2. \A e \in D : ~Queued(e)'
      BY <1>2, <2>3, <3>1 DEF Queued
    <3>3. TruthIsTold'
      BY <1>1, <1>6, <2>1, <2>2, <2>4 DEF TruthIsTold
    <3> QED
      BY <1>2, <3>2, <3>3 DEF QueuedAlone
  <2>5. CASE n > 0
    <3>1. n \in 1 .. n
      BY <2>2, <2>5
    <3>2. Tail(q)[n] = q[Len(q)]
      BY <2>2, <3>1
    <3>3. Tail(q) # <<>>
      <4>1. Len(Tail(q)) # 0
        BY <2>2, <2>5
      <4>2. Len(<<>>) = 0
        OBVIOUS
      <4> QED
        BY <4>1, <4>2
    <3>4. Queued(f)'
      BY <1>2, <3>3 DEF Queued
    <3> QED
      BY <1>2, <2>1, <2>2, <2>3, <3>2, <3>4 DEF QueuedAlone
  <2> QED
    BY <2>2, <2>4, <2>5
<1> QED
  BY <1>8, <1>9, <1>10 DEF SubscriptionInv

LEMMA SubscriptionStep == SubscriptionInv /\ [SubscriptionsNext]_subscriptionVars => SubscriptionInv'
<1> SUFFICES ASSUME SubscriptionInv, [SubscriptionsNext]_subscriptionVars PROVE SubscriptionInv'
  OBVIOUS
<1>1. CASE UNCHANGED subscriptionVars
  <2>1. /\ topic' = topic /\ emitter' = emitter /\ onChain' = onChain /\ events' = events
        /\ missed' = missed /\ reads' = reads /\ told' = told /\ disordered' = disordered
        /\ unsubscribed' = unsubscribed
    BY <1>1 DEF subscriptionVars
  <2>2. SubscriptionTyped' = SubscriptionTyped
    BY <2>1 DEF SubscriptionTyped, Emitters, Queued, Connected, Unsubscribed
  <2>3. ToldOnce' = ToldOnce
    BY <2>1 DEF ToldOnce
  <2>4. NewsKept' = NewsKept
    BY <2>1 DEF NewsKept, TruthToCome, TruthIsRead, TruthIsTold, QueuedAlone, Emitters, Queued, ToldValue
  <2> QED
    BY <2>2, <2>3, <2>4 DEF SubscriptionInv
<1> QED
  BY <1>1, SubscribeKeeps, TransferKeeps, StakingEventKeeps, OtherEventKeeps, UnsubscribeKeeps,
     ConnectKeeps, OnTransferKeeps, OnEventKeeps, AnswerReadKeeps, TellBalanceKeeps DEF SubscriptionsNext

LEMMA SubscriptionHolds == SubscriptionInv => SubscribersAreToldTheTruth
<1> SUFFICES ASSUME SubscriptionInv PROVE ToldIsCurrent /\ NothingIsToldInExcess
  BY DEF SubscribersAreToldTheTruth
<1>1. /\ Emitters = EmittersOf(topic) /\ UntoldTotal(topic, emitter) \in Nat /\ events \in Nat
      /\ Len(told) \in Nat /\ Len(reads) \in Nat
      /\ DOMAIN emitter = EmittersOf(topic)
  BY SubscriptionFacts DEF SubscriptionInv, SubscriptionTyped
<1>2. NothingIsToldInExcess
  BY <1>1 DEF SubscriptionInv, ToldOnce, NothingIsToldInExcess
<1>3. ASSUME Quiet, events > 0, ~missed, ~disordered PROVE TruthIsTold
  <2>1. \A e \in Emitters : Connected(e) /\ ~Queued(e) /\ emitter[e].queue = <<>>
    BY <1>3 DEF Quiet, Queued
  <2>2. topic # "nothing"
    BY <1>1, <1>3 DEF SubscriptionInv, SubscriptionTyped
  <2>3. \E e \in Emitters : TRUE
    BY <1>1, <2>2 DEF SubscriptionInv, SubscriptionTyped, EmittersOf, Topics
  <2>4. ~unsubscribed.called
    BY <2>1, <2>3 DEF SubscriptionInv, SubscriptionTyped, Connected, Unsubscribed
  <2>5. ~TruthToCome
    <3>1. \A e \in Emitters : Untold(topic, e, <<>>) = {}
      BY EmptySeq, QueueCounted
    <3> QED
      BY <2>1, <3>1 DEF TruthToCome
  <2>6. ~TruthIsRead
    BY <1>3 DEF Quiet, TruthIsRead
  <2> QED
    BY <1>3, <2>1, <2>4, <2>5, <2>6 DEF SubscriptionInv, NewsKept
<1>4. TruthIsTold => told # <<>> /\ Last(told) = onChain
  BY DEF TruthIsTold, Last
<1> QED
  BY <1>2, <1>3, <1>4 DEF ToldIsCurrent

(* Subscribers end with the truth and are told nothing in excess, whatever  *)
(* the values and however many events there are.                            *)
THEOREM SubscribersAlwaysToldTheTruth == SubscriptionSpec => []SubscribersAreToldTheTruth
<1>1. SubscriptionInv => SubscribersAreToldTheTruth
  BY SubscriptionHolds
<1> QED
  BY <1>1, SubscriptionStarts, SubscriptionStep, PTL DEF SubscriptionSpec

-----------------------------------------------------------------------------
(* The testkit: what its books, its transactions and its listeners hold.    *)

Txs == [action : Actions, argument : Amounts \cup Guardians \cup {0}, from : Accounts,
        captured : Seq(Int), auto : BOOLEAN, pending : BOOLEAN]

WellFormed(tx) ==
  /\ tx \in Txs /\ Len(tx.captured) <= 1
  /\ tx.action \in {"stake", "unstake", "approve"} => tx.argument \in Amounts
  /\ tx.action = "selectGuardian" => tx.argument \in Guardians

MockersTyped ==
  /\ fromAccount \in Accounts /\ autoComplete \in BOOLEAN
  /\ txs \in Seq(Txs) /\ \A i \in DOMAIN txs : WellFormed(txs[i])
  /\ timers \in Seq(Nat) /\ \A k \in DOMAIN timers : timers[k] \in DOMAIN txs

BooksTyped ==
  /\ stake \in [Accounts -> Int] /\ totalStaked \in Int
  /\ cooldown \in [Accounts -> Seq(Int)] /\ \A a \in Accounts : Len(cooldown[a]) <= 1
  /\ allowance \in [Accounts -> Amounts \cup {0}]
  /\ guardian \in [Accounts -> Guardians \cup {NoGuardian}]
  /\ history \in [putIn : [Accounts -> Int], withdrawn : [Accounts -> Int],
                  overlapped : SUBSET Accounts, misdirected : SUBSET Accounts]

Shown == [stake : Int, allowance : Amounts \cup {0}, guardian : Guardians \cup {NoGuardian}]

(* Whoever listens to something of an account listens to everything.        *)
ListenersTyped ==
  /\ shown \in [Subscribers -> [Accounts -> Shown]]
  /\ \A s \in Subscribers, a \in Accounts, action \in Actions :
       <<s, action, a>> \in subscriptions <=> <<s, "stake", a>> \in subscriptions

(* A restake or withdrawal under way, if it does not overlap, is alone and  *)
(* keeps what is in cooldown.                                               *)
Moves(a, i) == txs[i].pending /\ txs[i].from = a /\ txs[i].action \in CooldownActions

CapturedIsInCooldown ==
  \A a \in Accounts \ history.overlapped, i \in DOMAIN txs :
    (Moves(a, i) /\ txs[i].action # "unstake") =>
      txs[i].captured = cooldown[a] /\ \A j \in DOMAIN txs : Moves(a, j) => j = i

TestkitInv ==
  /\ MockersTyped /\ BooksTyped /\ ListenersTyped
  /\ CapturedIsInCooldown /\ CooldownTokensAreConserved /\ ShownIsCurrent

LEMMA InCooldownIsInt ==
  ASSUME NEW c \in Seq(Int)
  PROVE  InCooldown(c) \in Int
<1>1. c # <<>> => c[1] \in Int
  BY Popping
<1> QED
  BY <1>1 DEF InCooldown

LEMMA BooksStay ==
  ASSUME TestkitInv, UNCHANGED <<stakingVars, otherVars, history>>
  PROVE  BooksTyped' /\ CooldownTokensAreConserved'
<1>1. /\ stake' = stake /\ totalStaked' = totalStaked /\ cooldown' = cooldown /\ allowance' = allowance
      /\ guardian' = guardian /\ history' = history
  BY DEF stakingVars, otherVars
<1> QED
  BY <1>1 DEF TestkitInv, BooksTyped, CooldownTokensAreConserved

LEMMA ListenersStay ==
  ASSUME TestkitInv, UNCHANGED <<stakingVars, otherVars, listeningVars>>,
         history'.misdirected = history.misdirected
  PROVE  ListenersTyped' /\ ShownIsCurrent'
<1>1. /\ stake' = stake /\ allowance' = allowance
      /\ guardian' = guardian /\ subscriptions' = subscriptions /\ shown' = shown
  BY DEF stakingVars, otherVars, listeningVars
<1> QED
  BY <1>1 DEF TestkitInv, ListenersTyped, ShownIsCurrent

LEMMA TransactionsStay ==
  ASSUME TestkitInv, UNCHANGED <<txs, stakingVars, history>>
  PROVE  CapturedIsInCooldown'
<1>1. txs' = txs /\ cooldown' = cooldown /\ history' = history
  BY DEF stakingVars
<1> QED
  BY <1>1 DEF TestkitInv, CapturedIsInCooldown, Moves

LEMMA TestkitStarts == TestkitInit => TestkitInv
<1> SUFFICES ASSUME TestkitInit PROVE TestkitInv
  OBVIOUS
<1>1. PICK w \in Setups :
        /\ stake = [a \in Accounts |-> w[a].stake]
        /\ cooldown = [a \in Accounts |-> w[a].cooldown]
        /\ guardian = [a \in Accounts |-> w[a].guardian]
        /\ history = [putIn |-> [a \in Accounts |-> w[a].stake + InCooldown(w[a].cooldown)],
                      withdrawn |-> [a \in Accounts |-> 0], overlapped |-> {}, misdirected |-> {}]
  BY DEF TestkitInit
<1>2. \A a \in Accounts : /\ w[a].stake \in Int /\ w[a].cooldown \in Seq(Int) /\ Len(w[a].cooldown) <= 1
                          /\ w[a].guardian \in Guardians \cup {NoGuardian}
  BY <1>1, TestkitAssumption
<1>3. \A a \in Accounts : InCooldown(w[a].cooldown) \in Int
  BY <1>2, InCooldownIsInt
<1>4. MockersTyped
  BY EmptySeq DEF TestkitInit, MockersTyped
<1>5. BooksTyped
  <2>1. stake \in [Accounts -> Int] /\ totalStaked \in Int /\ allowance \in [Accounts -> Amounts \cup {0}]
    BY <1>1, <1>2 DEF TestkitInit
  <2>2. cooldown \in [Accounts -> Seq(Int)] /\ \A a \in Accounts : Len(cooldown[a]) <= 1
    BY <1>1, <1>2
  <2>3. guardian \in [Accounts -> Guardians \cup {NoGuardian}]
    BY <1>1, <1>2
  <2>4. /\ [a \in Accounts |-> w[a].stake + InCooldown(w[a].cooldown)] \in [Accounts -> Int]
        /\ [a \in Accounts |-> 0] \in [Accounts -> Int]
    BY <1>2, <1>3
  <2>5. history \in [putIn : [Accounts -> Int], withdrawn : [Accounts -> Int],
                  overlapped : SUBSET Accounts, misdirected : SUBSET Accounts]
    BY <1>1, <2>4
  <2> QED
    BY <2>1, <2>2, <2>3, <2>5 DEF BooksTyped
<1>6. ListenersTyped
  <2>1. NothingShown \in Shown
    BY DEF NothingShown, Shown
  <2>2. shown \in [Subscribers -> [Accounts -> Shown]]
    BY <2>1 DEF TestkitInit
  <2> QED
    BY <2>2 DEF TestkitInit, ListenersTyped
<1>7. CapturedIsInCooldown
  BY DEF TestkitInit, CapturedIsInCooldown
<1>8. CooldownTokensAreConserved
  <2> SUFFICES ASSUME NEW a \in Accounts
               PROVE  stake[a] + InCooldown(cooldown[a]) + history.withdrawn[a] = history.putIn[a]
    BY DEF CooldownTokensAreConserved
  <2>1. /\ stake[a] = w[a].stake /\ cooldown[a] = w[a].cooldown /\ history.withdrawn[a] = 0
        /\ history.putIn[a] = w[a].stake + InCooldown(w[a].cooldown)
    BY <1>1
  <2> QED
    BY <1>2, <1>3, <2>1
<1>9. ShownIsCurrent
  BY DEF TestkitInit, ShownIsCurrent
<1> QED
  BY <1>4, <1>5, <1>6, <1>7, <1>8, <1>9 DEF TestkitInv

(* The switches of a test, and a completion that is scheduled.              *)
LEMMA SwitchKeeps ==
  ASSUME TestkitInv,
         \/ \E a \in Accounts : SetFromAccount(a)
         \/ \E b \in BOOLEAN : SetAutoCompleteTxes(b)
         \/ \E i \in DOMAIN txs : CompleteTx(i)
  PROVE  TestkitInv'
<1>1. UNCHANGED <<txs, stakingVars, otherVars, listeningVars, history>>
  BY DEF SetFromAccount, SetAutoCompleteTxes, CompleteTx
<1>2. MockersTyped'
  <2>1. MockersTyped /\ txs' = txs
    BY <1>1 DEF TestkitInv
  <2>2. CASE \/ \E a \in Accounts : SetFromAccount(a)
             \/ \E b \in BOOLEAN : SetAutoCompleteTxes(b)
    BY <2>1, <2>2 DEF SetFromAccount, SetAutoCompleteTxes, MockersTyped, WellFormed
  <2>3. ASSUME NEW i \in DOMAIN txs, CompleteTx(i) PROVE MockersTyped'
    <3>1. timers \in Seq(Nat) /\ i \in Nat /\ \A k \in DOMAIN timers : timers[k] \in DOMAIN txs
      BY <2>1, LenProperties DEF MockersTyped
    <3>2. /\ Append(timers, i) \in Seq(Nat)
          /\ \A k \in DOMAIN Append(timers, i) : Append(timers, i)[k] \in DOMAIN txs
      BY <3>1, Adding
    <3> QED
      BY <2>1, <2>3, <3>2 DEF CompleteTx, MockersTyped
  <2> QED
    BY <2>2, <2>3
<1> QED
  BY <1>1, <1>2, BooksStay, ListenersStay, TransactionsStay DEF TestkitInv

LEMMA CreateKeeps ==
  ASSUME TestkitInv, NEW action \in Actions, NEW argument \in Amounts \cup Guardians \cup {0},
         action \in {"stake", "unstake", "approve"} => argument \in Amounts,
         action = "selectGuardian" => argument \in Guardians,
         CreateTxOf(action, argument)
  PROVE  TestkitInv'
<1> DEFINE tx == NewTx(action, argument)
<1>1. /\ MockersTyped /\ BooksTyped /\ CapturedIsInCooldown
      /\ UNCHANGED <<fromAccount, autoComplete, stakingVars, otherVars, listeningVars>>
      /\ txs' = Append(txs, tx) /\ timers' = Scheduled(tx)
      /\ history' = IF Overlaps(tx) THEN [history EXCEPT !.overlapped = @ \cup {tx.from}] ELSE history
      /\ fromAccount' = fromAccount /\ autoComplete' = autoComplete /\ cooldown' = cooldown
  BY DEF TestkitInv, CreateTxOf, stakingVars
<1>2. /\ WellFormed(tx) /\ tx \in Txs /\ tx.from = fromAccount /\ fromAccount \in Accounts
      /\ tx.captured = cooldown[fromAccount] /\ tx.action = action /\ tx.pending
  BY <1>1 DEF WellFormed, Txs, NewTx, MockersTyped, BooksTyped
<1> HIDE DEF tx
<1>n. PICK n \in Nat : n = Len(txs)
  BY <1>1, LenProperties DEF MockersTyped
<1>3. /\ n \in Nat /\ DOMAIN txs = 1 .. n
      /\ txs' \in Seq(Txs) /\ DOMAIN txs' = (1 .. n) \cup {n + 1} /\ txs'[n + 1] = tx
      /\ \A i \in 1 .. n : txs'[i] = txs[i]
  <2>1. txs \in Seq(Txs)
    BY <1>1 DEF MockersTyped
  <2> QED
    BY <1>1, <1>2, <1>n, <2>1, Adding, LenProperties
<1>4. MockersTyped'
  <2>1. timers \in Seq(Nat) /\ n + 1 \in Nat /\ \A k \in DOMAIN timers : timers[k] \in 1 .. n
    BY <1>1, <1>3 DEF MockersTyped
  <2>2. /\ Append(timers, n + 1) \in Seq(Nat)
        /\ \A k \in DOMAIN Append(timers, n + 1) : Append(timers, n + 1)[k] \in (1 .. n) \cup {n + 1}
    BY <2>1, Adding
  <2>3. timers' \in Seq(Nat) /\ \A k \in DOMAIN timers' : timers'[k] \in (1 .. n) \cup {n + 1}
    BY <1>1, <1>n, <2>1, <2>2 DEF Scheduled
  <2>4. \A i \in DOMAIN txs' : WellFormed(txs'[i])
    BY <1>1, <1>2, <1>3 DEF MockersTyped
  <2> QED
    BY <1>1, <1>3, <2>3, <2>4 DEF MockersTyped
<1>5. /\ history'.putIn = history.putIn /\ history'.withdrawn = history.withdrawn
      /\ history'.misdirected = history.misdirected /\ history.overlapped \in SUBSET history'.overlapped
      /\ Overlaps(tx) => tx.from \in history'.overlapped
      /\ history' \in [putIn : [Accounts -> Int], withdrawn : [Accounts -> Int],
                  overlapped : SUBSET Accounts, misdirected : SUBSET Accounts]
  <2>1. history \in [putIn : [Accounts -> Int], withdrawn : [Accounts -> Int],
                  overlapped : SUBSET Accounts, misdirected : SUBSET Accounts]
    BY <1>1 DEF BooksTyped
  <2> QED
    BY <1>1, <1>2, <2>1
<1>6. BooksTyped' /\ CooldownTokensAreConserved'
  <2>1. /\ stake' = stake /\ totalStaked' = totalStaked /\ cooldown' = cooldown
        /\ allowance' = allowance /\ guardian' = guardian
    BY <1>1 DEF stakingVars, otherVars
  <2>2. CooldownTokensAreConserved
    BY DEF TestkitInv
  <2> QED
    BY <1>1, <1>5, <2>1, <2>2 DEF BooksTyped, CooldownTokensAreConserved
<1>7. ListenersTyped' /\ ShownIsCurrent'
  <2>1. UNCHANGED <<stakingVars, otherVars, listeningVars>>
    BY <1>1
  <2> QED
    BY <1>5, <2>1, ListenersStay
<1>8. CapturedIsInCooldown'
  <2> SUFFICES ASSUME NEW a \in Accounts \ history'.overlapped, NEW i \in DOMAIN txs',
                      Moves(a, i)', txs'[i].action # "unstake"
               PROVE  txs'[i].captured = cooldown'[a] /\ \A j \in DOMAIN txs' : Moves(a, j)' => j = i
    BY DEF CapturedIsInCooldown
  <2>1. a \in Accounts \ history.overlapped
    BY <1>5
  <2>2. \A j \in 1 .. n : Moves(a, j)' <=> Moves(a, j)
    BY <1>3 DEF Moves
  <2>3. Moves(a, n + 1)' <=> a = fromAccount /\ action \in CooldownActions
    <3>1. Moves(a, n + 1)' <=> tx.pending /\ tx.from = a /\ tx.action \in CooldownActions
      BY <1>3 DEF Moves
    <3> QED
      BY <1>2, <3>1
  <2>4. ASSUME a = fromAccount, action \in CooldownActions, NEW j \in 1 .. n, Moves(a, j)
        PROVE  action = "unstake" /\ txs[j].action = "unstake"
    <3>1. ~Overlaps(tx)
      BY <1>2, <1>5, <2>4
    <3>2. /\ j \in DOMAIN txs /\ tx.action = action /\ tx.from = a
          /\ txs[j].pending /\ txs[j].from = a /\ txs[j].action \in CooldownActions
      BY <1>2, <1>3, <2>4 DEF Moves
    <3>3. {tx.action, txs[j].action} = {"unstake"}
      BY <2>4, <3>1, <3>2 DEF Overlaps
    <3> QED
      BY <3>2, <3>3
  <2>5. CASE i = n + 1
    <3>1. txs'[i].captured = cooldown'[a]
      BY <1>1, <1>2, <1>3, <2>3, <2>5
    <3>2. action # "unstake"
      BY <1>2, <1>3, <2>5
    <3> QED
      BY <1>3, <2>2, <2>3, <2>4, <2>5, <3>1, <3>2
  <2>6. CASE i \in 1 .. n
    <3>1. Moves(a, i) /\ txs[i].action # "unstake"
      BY <1>3, <2>2, <2>6
    <3>2. txs[i].captured = cooldown[a] /\ \A j \in 1 .. n : Moves(a, j) => j = i
      BY <1>1, <1>3, <2>1, <2>6, <3>1 DEF CapturedIsInCooldown
    <3>3. ~Moves(a, n + 1)'
      BY <2>3, <2>4, <2>6, <3>1
    <3> QED
      BY <1>1, <1>3, <2>2, <2>6, <3>2, <3>3
  <2> QED
    BY <1>3, <2>5, <2>6
<1> QED
  BY <1>4, <1>6, <1>7, <1>8 DEF TestkitInv

(* What a timer does to the transactions.                                   *)
Fires(i) ==
  /\ timers # <<>> /\ i = timers[1]
  /\ txs' = [txs EXCEPT ![i].pending = FALSE]
  /\ timers' = Tail(timers)
  /\ UNCHANGED <<fromAccount, autoComplete, subscriptions>>

LEMMA FiresFacts ==
  ASSUME TestkitInv, NEW i, Fires(i)
  PROVE  /\ i \in DOMAIN txs /\ WellFormed(txs[i]) /\ MockersTyped' /\ DOMAIN txs' = DOMAIN txs
         /\ \A j \in DOMAIN txs : /\ txs'[j].captured = txs[j].captured /\ txs'[j].action = txs[j].action
                                  /\ \A a : Moves(a, j)' <=> Moves(a, j) /\ j # i
<1>1. /\ txs \in Seq(Txs) /\ \A j \in DOMAIN txs : WellFormed(txs[j])
      /\ timers \in Seq(Nat) /\ \A k \in DOMAIN timers : timers[k] \in DOMAIN txs
      /\ timers # <<>> /\ i = timers[1] /\ txs' = [txs EXCEPT ![i].pending = FALSE] /\ timers' = Tail(timers)
  BY DEF TestkitInv, MockersTyped, Fires
<1>2. i \in DOMAIN txs
  BY <1>1, Popping
<1>3. txs[i] \in Txs /\ [txs[i] EXCEPT !.pending = FALSE] \in Txs
  BY <1>1, <1>2 DEF WellFormed, Txs
<1>4. /\ txs' \in Seq(Txs) /\ DOMAIN txs' = DOMAIN txs
      /\ txs'[i] = [txs[i] EXCEPT !.pending = FALSE]
      /\ \A j \in DOMAIN txs \ {i} : txs'[j] = txs[j]
  <2>1. txs' = [txs EXCEPT ![i] = [txs[i] EXCEPT !.pending = FALSE]]
    BY <1>1
  <2> QED
    BY <1>1, <1>2, <1>3, <2>1
<1>5. /\ txs'[i].pending = FALSE /\ txs'[i].captured = txs[i].captured /\ txs'[i].action = txs[i].action
      /\ txs'[i].argument = txs[i].argument /\ txs'[i] \in Txs
  BY <1>3, <1>4 DEF Txs
<1>6. \A j \in DOMAIN txs' : WellFormed(txs'[j])
  BY <1>1, <1>2, <1>4, <1>5 DEF WellFormed
<1>7. timers' \in Seq(Nat) /\ \A k \in DOMAIN timers' : timers'[k] \in DOMAIN txs'
  <2>1. /\ Tail(timers) \in Seq(Nat) /\ DOMAIN timers = 1 .. Len(timers)
        /\ DOMAIN Tail(timers) = 1 .. Len(timers) - 1 /\ Len(timers) \in Nat
        /\ \A k \in 1 .. Len(timers) - 1 : Tail(timers)[k] = timers[k + 1]
    BY <1>1, Popping, LenProperties
  <2>2. \A k \in 1 .. Len(timers) - 1 : k + 1 \in DOMAIN timers
    BY <2>1
  <2> QED
    BY <1>1, <1>4, <2>1, <2>2
<1>8. MockersTyped'
  BY <1>4, <1>6, <1>7 DEF TestkitInv, MockersTyped, Fires
<1>9. \A j \in DOMAIN txs : \A a : Moves(a, j)' <=> Moves(a, j) /\ j # i
  BY <1>4, <1>5 DEF Moves
<1> QED
  BY <1>1, <1>2, <1>4, <1>5, <1>8, <1>9

LEMMA CapturedStays ==
  ASSUME TestkitInv, NEW i, Fires(i), history'.overlapped = history.overlapped,
         \A a \in Accounts : cooldown'[a] = cooldown[a] \/ Moves(a, i)
  PROVE  CapturedIsInCooldown'
<1>1. /\ i \in DOMAIN txs /\ DOMAIN txs' = DOMAIN txs
      /\ \A j \in DOMAIN txs : /\ txs'[j].captured = txs[j].captured /\ txs'[j].action = txs[j].action
                               /\ \A a : Moves(a, j)' <=> Moves(a, j) /\ j # i
  BY FiresFacts
<1>2. SUFFICES ASSUME NEW a \in Accounts \ history.overlapped, NEW k \in DOMAIN txs,
                      Moves(a, k), k # i, txs[k].action # "unstake"
               PROVE  txs[k].captured = cooldown'[a] /\ \A j \in DOMAIN txs : Moves(a, j) => j = k
  BY <1>1 DEF CapturedIsInCooldown
<1>3. txs[k].captured = cooldown[a] /\ \A j \in DOMAIN txs : Moves(a, j) => j = k
  BY <1>2 DEF TestkitInv, CapturedIsInCooldown
<1> QED
  BY <1>1, <1>2, <1>3

(* What listeners show afterwards, of each field.                           *)
LEMMA Telling ==
  ASSUME TestkitInv, NEW action \in Actions, NEW key \in Accounts, NEW field \in {"stake", "allowance", "guardian"},
         NEW value, TriggerEventCallbacks(action, key, field, value),
         field = "stake" => value \in Int,
         field = "allowance" => value \in Amounts \cup {0},
         field = "guardian" => value \in Guardians \cup {NoGuardian}
  PROVE  /\ shown' \in [Subscribers -> [Accounts -> Shown]]
         /\ \A s \in Subscribers, a \in Accounts :
              <<s, "stake", a>> \in subscriptions =>
                /\ shown'[s][a].stake = IF field = "stake" /\ a = key THEN value ELSE shown[s][a].stake
                /\ shown'[s][a].allowance = IF field = "allowance" /\ a = key THEN value ELSE shown[s][a].allowance
                /\ shown'[s][a].guardian = IF field = "guardian" /\ a = key THEN value ELSE shown[s][a].guardian
<1>1. /\ shown \in [Subscribers -> [Accounts -> Shown]]
      /\ \A s \in Subscribers, a \in Accounts, x \in Actions :
            <<s, x, a>> \in subscriptions <=> <<s, "stake", a>> \in subscriptions
  BY DEF TestkitInv, ListenersTyped
<1>2. shown' = [s \in Subscribers |->
    IF <<s, action, key>> \in subscriptions
      THEN [shown[s] EXCEPT ![key] = [shown[s][key] EXCEPT ![field] = value]] ELSE shown[s]]
  BY <1>1 DEF TriggerEventCallbacks
<1>3. ASSUME NEW s \in Subscribers
      PROVE  /\ [shown[s][key] EXCEPT ![field] = value] \in Shown
             /\ \A x \in {"stake", "allowance", "guardian"} :
                  [shown[s][key] EXCEPT ![field] = value][x] = IF x = field THEN value ELSE shown[s][key][x]
  <2>1. shown[s][key] \in Shown
    BY <1>1
  <2>2. PICK r : r = shown[s][key]
    OBVIOUS
  <2>3. r \in [stake : Int, allowance : Amounts \cup {0}, guardian : Guardians \cup {NoGuardian}]
    BY <2>1, <2>2 DEF Shown
  <2>4. CASE field = "stake"
    BY ONLY <2>2, <2>3, <2>4, value \in Int DEF Shown
  <2>5. CASE field = "allowance"
    BY <2>2, <2>3, <2>5 DEF Shown
  <2>6. CASE field = "guardian"
    BY <2>2, <2>3, <2>6 DEF Shown
  <2> QED
    BY <2>4, <2>5, <2>6
<1> QED
  BY <1>1, <1>2, <1>3

(* An effect that moves tokens of a's: the books of a alone change, and its *)
(* listeners are told the total.                                            *)
LEMMA MovingKeeps ==
  ASSUME TestkitInv, NEW i, Fires(i), NEW action \in Actions, NEW a \in Accounts, a = txs[i].from,
         NEW total \in Int, NEW rest \in Seq(Int), Len(rest) <= 1, NEW given \in Int, NEW taken \in Int,
         TriggerEventCallbacks(action, a, "stake", total),
         totalStaked' \in Int, UNCHANGED otherVars,
         stake' = [stake EXCEPT ![a] = total], cooldown' = [cooldown EXCEPT ![a] = rest],
         history' = [history EXCEPT !.putIn[a] = given, !.withdrawn[a] = taken],
         rest = cooldown[a] \/ Moves(a, i),
         a \notin history.overlapped => total + InCooldown(rest) + taken = given
  PROVE  TestkitInv'
<1>1. /\ BooksTyped /\ ListenersTyped /\ CooldownTokensAreConserved /\ ShownIsCurrent
      /\ allowance' = allowance /\ guardian' = guardian /\ subscriptions' = subscriptions
  BY DEF TestkitInv, otherVars, Fires
<1>2. /\ stake \in [Accounts -> Int] /\ cooldown \in [Accounts -> Seq(Int)]
      /\ \A b \in Accounts : Len(cooldown[b]) <= 1
      /\ history \in [putIn : [Accounts -> Int], withdrawn : [Accounts -> Int],
                      overlapped : SUBSET Accounts, misdirected : SUBSET Accounts]
      /\ history.putIn \in [Accounts -> Int] /\ history.withdrawn \in [Accounts -> Int]
  BY <1>1 DEF BooksTyped
<1>3. /\ stake' \in [Accounts -> Int] /\ cooldown' \in [Accounts -> Seq(Int)]
      /\ stake'[a] = total /\ cooldown'[a] = rest
      /\ \A b \in Accounts \ {a} : stake'[b] = stake[b] /\ cooldown'[b] = cooldown[b]
      /\ \A b \in Accounts : Len(cooldown'[b]) <= 1
  BY <1>2
<1>4. /\ history'.putIn = [history.putIn EXCEPT ![a] = given]
      /\ history'.withdrawn = [history.withdrawn EXCEPT ![a] = taken]
      /\ history'.overlapped = history.overlapped /\ history'.misdirected = history.misdirected
      /\ history' \in [putIn : [Accounts -> Int], withdrawn : [Accounts -> Int],
                      overlapped : SUBSET Accounts, misdirected : SUBSET Accounts]
  BY <1>2
<1>5. BooksTyped'
  BY <1>1, <1>3, <1>4 DEF BooksTyped
<1>6. CooldownTokensAreConserved'
  <2> SUFFICES ASSUME NEW b \in Accounts \ history.overlapped
               PROVE  stake'[b] + InCooldown(cooldown'[b]) + history'.withdrawn[b] = history'.putIn[b]
    BY <1>4 DEF CooldownTokensAreConserved
  <2>1. CASE b = a
    BY <1>2, <1>3, <1>4, <2>1
  <2>2. CASE b # a
    BY <1>1, <1>2, <1>3, <1>4, <2>2 DEF CooldownTokensAreConserved
  <2> QED
    BY <2>1, <2>2
<1>7. /\ shown' \in [Subscribers -> [Accounts -> Shown]]
      /\ \A s \in Subscribers, b \in Accounts :
           <<s, "stake", b>> \in subscriptions =>
             /\ shown'[s][b].stake = IF b = a THEN total ELSE shown[s][b].stake
             /\ shown'[s][b].allowance = shown[s][b].allowance
             /\ shown'[s][b].guardian = shown[s][b].guardian
  <2> DEFINE field == "stake"
  <2>1. /\ field \in {"stake", "allowance", "guardian"} /\ field = "stake"
        /\ TriggerEventCallbacks(action, a, field, total)
    OBVIOUS
  <2>2. field # "allowance" /\ field # "guardian"
    OBVIOUS
  <2> HIDE DEF field
  <2> QED
    BY <2>1, <2>2, Telling
<1>8. ListenersTyped'
  BY <1>1, <1>7 DEF ListenersTyped
<1>9. ShownIsCurrent'
  <2> SUFFICES ASSUME NEW s \in Subscribers, NEW b \in Accounts, <<s, "stake", b>> \in subscriptions
               PROVE  /\ shown'[s][b].stake = stake'[b]
                      /\ shown'[s][b].allowance = allowance[b]
                      /\ b \notin history.misdirected => shown'[s][b].guardian = guardian[b]
    BY <1>1, <1>4 DEF ShownIsCurrent
  <2>1. /\ shown[s][b].stake = stake[b] /\ shown[s][b].allowance = allowance[b]
        /\ b \notin history.misdirected => shown[s][b].guardian = guardian[b]
    BY <1>1 DEF ShownIsCurrent
  <2> QED
    BY <1>3, <1>7, <2>1
<1>10. CapturedIsInCooldown'
  <2>1. \A b \in Accounts : cooldown'[b] = cooldown[b] \/ Moves(b, i)
    BY <1>3
  <2> QED
    BY <1>4, <2>1, CapturedStays
<1>11. MockersTyped'
  BY FiresFacts
<1> QED
  BY <1>5, <1>6, <1>8, <1>9, <1>10, <1>11 DEF TestkitInv

(* How much there is in a cooldown.                                         *)
LEMMA CooldownOf ==
  ASSUME NEW c \in Seq(Int), Len(c) <= 1
  PROVE  /\ InCooldown(c) \in Int /\ InCooldown(<<>>) = 0
         /\ c # <<>> => c[1] \in Int /\ InCooldown(c) = c[1]
         /\ <<>> \in Seq(Int) /\ Len(<<>>) <= 1
         /\ \A x \in Int : <<x>> \in Seq(Int) /\ Len(<<x>>) <= 1 /\ InCooldown(<<x>>) = x
<1>1. c # <<>> => c[1] \in Int
  BY Popping
<1>2. \A x \in Int : <<x>> \in Seq(Int) /\ Len(<<x>>) = 1 /\ <<x>>[1] = x /\ <<x>> # <<>>
  OBVIOUS
<1>3. <<>> \in Seq(Int) /\ Len(<<>>) = 0
  BY EmptySeq
<1> QED
  BY <1>1, <1>2, <1>3, InCooldownIsInt DEF InCooldown

LEMMA EffectFacts ==
  ASSUME TestkitInv, NEW i, Fires(i)
  PROVE  LET tx == txs[i] IN
         /\ tx.from \in Accounts /\ tx.action \in Actions /\ tx.captured \in Seq(Int) /\ Len(tx.captured) <= 1
         /\ stake \in [Accounts -> Int] /\ stake[tx.from] \in Int /\ totalStaked \in Int
         /\ cooldown \in [Accounts -> Seq(Int)]
         /\ cooldown[tx.from] \in Seq(Int) /\ Len(cooldown[tx.from]) <= 1
         /\ history \in [putIn : [Accounts -> Int], withdrawn : [Accounts -> Int],
                         overlapped : SUBSET Accounts, misdirected : SUBSET Accounts]
         /\ history.putIn \in [Accounts -> Int] /\ history.withdrawn \in [Accounts -> Int]
         /\ history.putIn[tx.from] \in Int /\ history.withdrawn[tx.from] \in Int
         /\ tx.from \notin history.overlapped =>
              stake[tx.from] + InCooldown(cooldown[tx.from]) + history.withdrawn[tx.from]
                = history.putIn[tx.from]
         /\ tx.action \in {"stake", "unstake", "approve"} => tx.argument \in Amounts /\ tx.argument \in Int
         /\ tx.action = "selectGuardian" => tx.argument \in Guardians
         /\ tx.pending /\ tx.action \in CooldownActions => Moves(tx.from, i)
         /\ (tx.pending /\ tx.action \in {"restake", "withdraw"} /\ tx.from \notin history.overlapped) =>
              tx.captured = cooldown[tx.from]
<1> DEFINE tx == txs[i]
<1>1. /\ i \in DOMAIN txs /\ tx \in Txs /\ WellFormed(tx)
  BY FiresFacts DEF WellFormed
<1>2. /\ tx.from \in Accounts /\ tx.action \in Actions /\ tx.captured \in Seq(Int) /\ Len(tx.captured) <= 1
      /\ tx.action \in {"stake", "unstake", "approve"} => tx.argument \in Amounts
      /\ tx.action = "selectGuardian" => tx.argument \in Guardians
  BY <1>1 DEF Txs, WellFormed
<1>3. tx.argument \in Amounts => tx.argument \in Int
  BY TestkitAssumption
<1>4. tx.pending /\ tx.action \in CooldownActions => Moves(tx.from, i)
  BY DEF Moves
<1> HIDE DEF tx
<1>5. (tx.pending /\ tx.action \in {"restake", "withdraw"} /\ tx.from \notin history.overlapped) =>
              tx.captured = cooldown[tx.from]
  BY <1>1, <1>2, <1>4 DEF TestkitInv, CapturedIsInCooldown, CooldownActions, tx
<1>6. /\ stake \in [Accounts -> Int] /\ totalStaked \in Int
      /\ cooldown \in [Accounts -> Seq(Int)] /\ \A b \in Accounts : Len(cooldown[b]) <= 1
      /\ history \in [putIn : [Accounts -> Int], withdrawn : [Accounts -> Int],
                         overlapped : SUBSET Accounts, misdirected : SUBSET Accounts]
      /\ history.putIn \in [Accounts -> Int] /\ history.withdrawn \in [Accounts -> Int]
  BY DEF TestkitInv, BooksTyped
<1>7. tx.from \notin history.overlapped =>
              stake[tx.from] + InCooldown(cooldown[tx.from]) + history.withdrawn[tx.from]
                = history.putIn[tx.from]
  BY <1>2 DEF TestkitInv, CooldownTokensAreConserved
<1> QED
  BY <1>2, <1>3, <1>4, <1>5, <1>6, <1>7 DEF tx

LEMMA EffectKeeps ==
  ASSUME TestkitInv, NEW i, Fires(i), PerformTxEffect(txs[i])
  PROVE  TestkitInv'
<1> DEFINE a == txs[i].from
           tx == txs[i]
           c == txs[i].captured
<1>1. /\ a \in Accounts /\ tx.action \in Actions /\ c \in Seq(Int) /\ Len(c) <= 1
      /\ stake \in [Accounts -> Int] /\ stake[a] \in Int /\ totalStaked \in Int
      /\ cooldown \in [Accounts -> Seq(Int)]
      /\ cooldown[a] \in Seq(Int) /\ Len(cooldown[a]) <= 1
      /\ history \in [putIn : [Accounts -> Int], withdrawn : [Accounts -> Int],
                      overlapped : SUBSET Accounts, misdirected : SUBSET Accounts]
      /\ history.putIn \in [Accounts -> Int] /\ history.withdrawn \in [Accounts -> Int]
      /\ history.putIn[a] \in Int /\ history.withdrawn[a] \in Int
      /\ a \notin history.overlapped =>
           stake[a] + InCooldown(cooldown[a]) + history.withdrawn[a] = history.putIn[a]
      /\ tx.action \in {"stake", "unstake", "approve"} => tx.argument \in Amounts /\ tx.argument \in Int
      /\ tx.action = "selectGuardian" => tx.argument \in Guardians
      /\ tx.pending /\ tx.action \in CooldownActions => Moves(a, i)
      /\ (tx.pending /\ tx.action \in {"restake", "withdraw"} /\ a \notin history.overlapped) =>
           c = cooldown[a]
  BY EffectFacts
<1>2. CASE UNCHANGED <<stakingVars, otherVars, shown, history>>
  <2>1. UNCHANGED <<stakingVars, otherVars, listeningVars, history>> /\ cooldown' = cooldown
    BY <1>2 DEF Fires, listeningVars, stakingVars
  <2>2. CapturedIsInCooldown'
    BY <2>1, CapturedStays
  <2>3. MockersTyped'
    BY FiresFacts
  <2> QED
    BY <2>1, <2>2, <2>3, BooksStay, ListenersStay DEF TestkitInv
<1> HIDE DEF a, c
<1>3. /\ stake = [stake EXCEPT ![a] = stake[a]] /\ cooldown = [cooldown EXCEPT ![a] = cooldown[a]]
      /\ history = [history EXCEPT !.putIn[a] = history.putIn[a], !.withdrawn[a] = history.withdrawn[a]]
  BY <1>1
<1>4. /\ InCooldown(c) \in Int
      /\ c # <<>> => c[1] \in Int /\ InCooldown(c) = c[1]
      /\ InCooldown(<<>>) = 0 /\ <<>> \in Seq(Int) /\ Len(<<>>) <= 1
      /\ InCooldown(cooldown[a]) \in Int
      /\ cooldown[a] # <<>> => cooldown[a][1] \in Int /\ InCooldown(cooldown[a]) = cooldown[a][1]
      /\ \A x \in Int : <<x>> \in Seq(Int) /\ Len(<<x>>) <= 1 /\ InCooldown(<<x>>) = x
  BY <1>1, CooldownOf
<1>5. ASSUME tx.action = "stake", StakeEffect(tx) PROVE TestkitInv'
  <2> DEFINE total == stake[a] + tx.argument
             given == history.putIn[a] + tx.argument
  <2>1. total \in Int /\ given \in Int /\ totalStaked + tx.argument \in Int
    BY <1>1, <1>5
  <2>2. /\ stake' = [stake EXCEPT ![a] = total] /\ cooldown' = [cooldown EXCEPT ![a] = cooldown[a]]
        /\ history' = [history EXCEPT !.putIn[a] = given, !.withdrawn[a] = history.withdrawn[a]]
        /\ totalStaked' = totalStaked + tx.argument /\ UNCHANGED otherVars
        /\ TriggerEventCallbacks("stake", a, "stake", total)
    <3>1. /\ stake' = [stake EXCEPT ![a] = total] /\ cooldown' = cooldown
          /\ history' = [history EXCEPT !.putIn[a] = given]
          /\ totalStaked' = totalStaked + tx.argument /\ UNCHANGED otherVars
          /\ TriggerEventCallbacks("stake", a, "stake", total)
      BY <1>5 DEF StakeEffect, UpdateStakedTokens, TriggerStakingContractEvent, a
    <3> QED
      BY <1>1, <1>3, <3>1
  <2>3. a \notin history.overlapped => total + InCooldown(cooldown[a]) + history.withdrawn[a] = given
    <3>1. tx.argument \in Int /\ InCooldown(cooldown[a]) \in Int
      BY <1>1, <1>4, <1>5
    <3> QED
      BY <1>1, <3>1
  <2> HIDE DEF total, given
  <2>4. "stake" \in Actions
    BY DEF Actions
  <2> HIDE DEF tx
  <2> QED
    BY <1>1, <2>1, <2>2, <2>3, <2>4, MovingKeeps DEF a
<1>6. ASSUME tx.pending, tx.action = "unstake", UnstakeEffect(tx) PROVE TestkitInv'
  <2> DEFINE total == stake[a] - tx.argument
             rest == IF cooldown[a] # <<>> THEN <<cooldown[a][1] + tx.argument>> ELSE <<tx.argument>>
  <2>1. total \in Int /\ totalStaked + (-tx.argument) \in Int /\ stake[a] + (-tx.argument) = total
    BY <1>1, <1>6
  <2>2. rest \in Seq(Int) /\ Len(rest) <= 1 /\ InCooldown(rest) = InCooldown(cooldown[a]) + tx.argument
    <3>1. tx.argument \in Int /\ (cooldown[a] # <<>> => cooldown[a][1] + tx.argument \in Int)
      BY <1>1, <1>4, <1>6
    <3>2. cooldown[a] = <<>> => InCooldown(cooldown[a]) + tx.argument = tx.argument
      BY <1>4, <3>1
    <3> QED
      BY <1>4, <3>1, <3>2
  <2>3. /\ stake' = [stake EXCEPT ![a] = total] /\ cooldown' = [cooldown EXCEPT ![a] = rest]
        /\ history' = [history EXCEPT !.putIn[a] = history.putIn[a], !.withdrawn[a] = history.withdrawn[a]]
        /\ totalStaked' = totalStaked + (-tx.argument) /\ UNCHANGED otherVars
        /\ TriggerEventCallbacks("unstake", a, "stake", total)
    <3>1. /\ stake' = [stake EXCEPT ![a] = stake[a] + (-tx.argument)] /\ history' = history
          /\ totalStaked' = totalStaked + (-tx.argument) /\ UNCHANGED otherVars
          /\ TriggerEventCallbacks("unstake", a, "stake", total)
          /\ cooldown' = [cooldown EXCEPT ![a] =
               IF HasCooldown(a) THEN <<cooldown[a][1] + tx.argument>> ELSE <<tx.argument>>]
      BY <1>6 DEF UnstakeEffect, UpdateStakedTokens, TriggerStakingContractEvent, AddToCooldown, a
    <3>2. HasCooldown(a) <=> cooldown[a] # <<>>
      BY DEF HasCooldown
    <3> QED
      BY <1>3, <2>1, <3>1, <3>2
  <2>4. a \notin history.overlapped => total + InCooldown(rest) + history.withdrawn[a] = history.putIn[a]
    BY <1>1, <1>4, <1>6, <2>2
  <2>5. "unstake" \in Actions /\ Moves(a, i)
    BY <1>1, <1>6 DEF Actions, CooldownActions
  <2> HIDE DEF total, rest
  <2> QED
    BY <1>1, <2>1, <2>2, <2>3, <2>4, <2>5, MovingKeeps DEF a
<1>7. ASSUME tx.pending, tx.action = "restake", RestakeEffect(tx) PROVE TestkitInv'
  <2> DEFINE total == stake[a] + c[1]
  <2>1. c # <<>> /\ c[1] \in Int /\ InCooldown(c) = c[1] /\ total \in Int /\ totalStaked + c[1] \in Int
    <3>1. c # <<>>
      BY <1>7 DEF RestakeEffect, c
    <3>2. c[1] \in Int /\ InCooldown(c) = c[1]
      BY <1>4, <3>1
    <3> QED
      BY <1>1, <3>1, <3>2
  <2>2. /\ stake' = [stake EXCEPT ![a] = total] /\ cooldown' = [cooldown EXCEPT ![a] = <<>>]
        /\ history' = [history EXCEPT !.putIn[a] = history.putIn[a], !.withdrawn[a] = history.withdrawn[a]]
        /\ totalStaked' = totalStaked + c[1] /\ UNCHANGED otherVars
        /\ TriggerEventCallbacks("restake", a, "stake", total)
    <3>1. /\ stake' = [stake EXCEPT ![a] = total] /\ history' = history
          /\ totalStaked' = totalStaked + c[1] /\ UNCHANGED otherVars
          /\ TriggerEventCallbacks("restake", a, "stake", total)
          /\ cooldown' = [cooldown EXCEPT ![a] = <<>>]
      BY <1>7 DEF RestakeEffect, UpdateStakedTokens, TriggerStakingContractEvent, ClearCooldown, a, c
    <3> QED
      BY <1>3, <3>1
  <2>3. a \notin history.overlapped => total + InCooldown(<<>>) + history.withdrawn[a] = history.putIn[a]
    BY <1>1, <1>4, <1>7, <2>1
  <2>4. "restake" \in Actions /\ Moves(a, i)
    BY <1>1, <1>7 DEF Actions, CooldownActions
  <2> HIDE DEF total
  <2> QED
    BY <1>1, <1>4, <2>1, <2>2, <2>3, <2>4, MovingKeeps DEF a
<1>8. ASSUME tx.pending, tx.action = "withdraw", WithdrawEffect(tx) PROVE TestkitInv'
  <2> DEFINE taken == history.withdrawn[a] + c[1]
  <2>1. c # <<>> /\ c[1] \in Int /\ InCooldown(c) = c[1] /\ taken \in Int
    <3>1. c # <<>>
      BY <1>8 DEF WithdrawEffect, c
    <3>2. c[1] \in Int /\ InCooldown(c) = c[1]
      BY <1>4, <3>1
    <3> QED
      BY <1>1, <3>1, <3>2
  <2>2. /\ stake' = [stake EXCEPT ![a] = stake[a]] /\ cooldown' = [cooldown EXCEPT ![a] = <<>>]
        /\ history' = [history EXCEPT !.putIn[a] = history.putIn[a], !.withdrawn[a] = taken]
        /\ totalStaked' = totalStaked /\ UNCHANGED otherVars
        /\ TriggerEventCallbacks("withdraw", a, "stake", stake[a])
    <3>1. /\ stake' = stake /\ history' = [history EXCEPT !.withdrawn[a] = taken]
          /\ totalStaked' = totalStaked /\ UNCHANGED otherVars
          /\ TriggerEventCallbacks("withdraw", a, "stake", stake[a])
          /\ cooldown' = [cooldown EXCEPT ![a] = <<>>]
      BY <1>8 DEF WithdrawEffect, TriggerStakingContractEvent, ClearCooldown, a, c
    <3> QED
      BY <1>1, <1>3, <3>1
  <2>3. a \notin history.overlapped => stake[a] + InCooldown(<<>>) + taken = history.putIn[a]
    BY <1>1, <1>4, <1>8, <2>1
  <2>4. "withdraw" \in Actions /\ Moves(a, i)
    BY <1>1, <1>8 DEF Actions, CooldownActions
  <2> HIDE DEF taken
  <2> QED
    BY <1>1, <1>4, <2>1, <2>2, <2>3, <2>4, MovingKeeps DEF a
<1>9. ASSUME tx.action = "approve", ApproveEffect(tx) PROVE TestkitInv'
  <2> DEFINE field == "allowance"
  <2>1. /\ tx.argument \in Amounts \cup {0} /\ fromAccount \in Accounts /\ "approve" \in Actions
        /\ field \in {"stake", "allowance", "guardian"} /\ field = "allowance"
        /\ field # "stake" /\ field # "guardian"
        /\ TriggerEventCallbacks("approve", fromAccount, field, tx.argument)
    BY <1>1, <1>9 DEF ApproveEffect, SetAllowance, TriggerAllowanceChangeCallbacks, Actions, TestkitInv, MockersTyped
  <2>2. /\ stake' = stake /\ totalStaked' = totalStaked /\ cooldown' = cooldown /\ guardian' = guardian
        /\ history' = history /\ allowance' = [allowance EXCEPT ![fromAccount] = tx.argument]
        /\ subscriptions' = subscriptions
    BY <1>9 DEF ApproveEffect, SetAllowance, stakingVars, Fires
  <2> HIDE DEF field, tx
  <2>3. /\ shown' \in [Subscribers -> [Accounts -> Shown]]
        /\ \A s \in Subscribers, b \in Accounts :
             <<s, "stake", b>> \in subscriptions =>
               /\ shown'[s][b].stake = shown[s][b].stake
               /\ shown'[s][b].allowance = IF b = fromAccount THEN tx.argument ELSE shown[s][b].allowance
               /\ shown'[s][b].guardian = shown[s][b].guardian
    BY <2>1, Telling
  <2>4. /\ allowance' \in [Accounts -> Amounts \cup {0}]
        /\ \A b \in Accounts : allowance'[b] = IF b = fromAccount THEN tx.argument ELSE allowance[b]
    BY <2>1, <2>2 DEF TestkitInv, BooksTyped
  <2>5. BooksTyped' /\ CooldownTokensAreConserved'
    BY <2>2, <2>4 DEF TestkitInv, BooksTyped, CooldownTokensAreConserved
  <2>6. ListenersTyped' /\ ShownIsCurrent'
    BY <2>2, <2>3, <2>4 DEF TestkitInv, ListenersTyped, ShownIsCurrent
  <2>7. CapturedIsInCooldown' /\ MockersTyped'
    <3>1. history'.overlapped = history.overlapped /\ \A b \in Accounts : cooldown'[b] = cooldown[b]
      BY <2>2
    <3> QED
      BY <3>1, CapturedStays, FiresFacts
  <2> QED
    BY <2>5, <2>6, <2>7 DEF TestkitInv
<1>10. ASSUME tx.action = "selectGuardian", SelectGuardianEffect(tx) PROVE TestkitInv'
  <2> DEFINE field == "guardian"
  <2>1. /\ tx.argument \in Guardians \cup {NoGuardian} /\ fromAccount \in Accounts
        /\ "selectGuardian" \in Actions /\ a \in Accounts
        /\ field \in {"stake", "allowance", "guardian"} /\ field = "guardian"
        /\ field # "stake" /\ field # "allowance"
        /\ TriggerEventCallbacks("selectGuardian", a, field, tx.argument)
    BY <1>1, <1>10 DEF SelectGuardianEffect, Actions, TestkitInv, MockersTyped, a
  <2>2. /\ stake' = stake /\ totalStaked' = totalStaked /\ cooldown' = cooldown /\ allowance' = allowance
        /\ guardian' = [guardian EXCEPT ![fromAccount] = tx.argument]
        /\ history' = IF a = fromAccount THEN history
                      ELSE [history EXCEPT !.misdirected = @ \cup {a, fromAccount}]
        /\ subscriptions' = subscriptions
    BY <1>10 DEF SelectGuardianEffect, stakingVars, Fires, a
  <2> HIDE DEF field, tx
  <2>3. /\ shown' \in [Subscribers -> [Accounts -> Shown]]
        /\ \A s \in Subscribers, b \in Accounts :
             <<s, "stake", b>> \in subscriptions =>
               /\ shown'[s][b].stake = shown[s][b].stake
               /\ shown'[s][b].guardian = IF b = a THEN tx.argument ELSE shown[s][b].guardian
               /\ shown'[s][b].allowance = shown[s][b].allowance
    BY <2>1, Telling
  <2>4. /\ guardian' \in [Accounts -> Guardians \cup {NoGuardian}]
        /\ \A b \in Accounts : guardian'[b] = IF b = fromAccount THEN tx.argument ELSE guardian[b]
    BY <2>1, <2>2 DEF TestkitInv, BooksTyped
  <2>5. /\ history'.putIn = history.putIn /\ history'.withdrawn = history.withdrawn
        /\ history'.overlapped = history.overlapped
        /\ history.misdirected \in SUBSET history'.misdirected
        /\ a # fromAccount => a \in history'.misdirected /\ fromAccount \in history'.misdirected
        /\ history' \in [putIn : [Accounts -> Int], withdrawn : [Accounts -> Int],
                      overlapped : SUBSET Accounts, misdirected : SUBSET Accounts]
    BY <1>1, <2>1, <2>2
  <2>6. BooksTyped' /\ CooldownTokensAreConserved'
    BY <2>2, <2>4, <2>5 DEF TestkitInv, BooksTyped, CooldownTokensAreConserved
  <2>7. ListenersTyped' /\ ShownIsCurrent'
    BY <2>2, <2>3, <2>4, <2>5 DEF TestkitInv, ListenersTyped, ShownIsCurrent
  <2>8. CapturedIsInCooldown' /\ MockersTyped'
    <3>1. history'.overlapped = history.overlapped /\ \A b \in Accounts : cooldown'[b] = cooldown[b]
      BY <2>2, <2>5
    <3> QED
      BY <3>1, CapturedStays, FiresFacts
  <2> QED
    BY <2>6, <2>7, <2>8 DEF TestkitInv
<1>11. CASE NoEffect(tx)
  BY <1>2, <1>11 DEF NoEffect
<1> QED
  BY <1>2, <1>5, <1>6, <1>7, <1>8, <1>9, <1>10, <1>11 DEF PerformTxEffect, Effect

(* A wallet that comes or goes.                                             *)
LEMMA ListeningKeeps ==
  ASSUME TestkitInv, NEW t \in Subscribers, NEW b \in Accounts, Follow(t, b) \/ Unsubscribe(t, b)
  PROVE  TestkitInv'
<1>1. /\ UNCHANGED <<mockerVars, stakingVars, otherVars, history>>
      /\ fromAccount' = fromAccount /\ autoComplete' = autoComplete /\ txs' = txs /\ timers' = timers
      /\ stake' = stake /\ allowance' = allowance /\ guardian' = guardian /\ history' = history
  BY DEF Follow, Unsubscribe, mockerVars, stakingVars, otherVars
<1>2. MockersTyped'
  BY <1>1 DEF TestkitInv, MockersTyped, WellFormed
<1>3. BooksTyped' /\ CooldownTokensAreConserved' /\ CapturedIsInCooldown'
  BY <1>1, BooksStay, TransactionsStay
<1>4. PICK entry \in Shown :
        /\ shown' = [shown EXCEPT ![t][b] = entry]
        /\ Follow(t, b) => /\ entry.stake = stake[b] /\ entry.allowance = allowance[b]
                           /\ entry.guardian = guardian[b]
  <2>1. CASE Follow(t, b)
    <3>1. stake[b] \in Int /\ allowance[b] \in Amounts \cup {0} /\ guardian[b] \in Guardians \cup {NoGuardian}
      BY DEF TestkitInv, BooksTyped
    <3>2. [stake |-> stake[b], allowance |-> allowance[b], guardian |-> guardian[b]] \in Shown
      BY <3>1 DEF Shown
    <3> QED
      BY <2>1, <3>2 DEF Follow, ReadStakeBalanceOf, ReadAllowance, ReadSelectedGuardian
  <2>2. CASE ~Follow(t, b)
    <3>1. NothingShown \in Shown
      BY DEF NothingShown, Shown
    <3> QED
      BY <2>2, <3>1 DEF Unsubscribe
  <2> QED
    BY <2>1, <2>2
<1>5. /\ shown' \in [Subscribers -> [Accounts -> Shown]] /\ shown'[t][b] = entry
      /\ \A s \in Subscribers, a \in Accounts : s # t \/ a # b => shown'[s][a] = shown[s][a]
  BY <1>4 DEF TestkitInv, ListenersTyped
<1>6. /\ \A s \in Subscribers, a \in Accounts, x \in Actions :
            s # t \/ a # b => (<<s, x, a>> \in subscriptions' <=> <<s, x, a>> \in subscriptions)
      /\ \A x \in Actions : Follow(t, b) => <<t, x, b>> \in subscriptions'
      /\ \A x \in Actions : ~Follow(t, b) => <<t, x, b>> \notin subscriptions'
  <2>1. CASE Follow(t, b)
    BY <2>1 DEF Follow, SubscribeToStakingEvents, SubscribeToAllowanceChange, SubscribeToDelegateEvent, Actions
  <2>2. CASE ~Follow(t, b)
    BY <2>2 DEF Unsubscribe
  <2> QED
    BY <2>1, <2>2
<1>7. "stake" \in Actions
  BY DEF Actions
<1>8. ListenersTyped'
  BY <1>5, <1>6, <1>7 DEF TestkitInv, ListenersTyped
<1>9. ShownIsCurrent'
  BY <1>1, <1>4, <1>5, <1>6, <1>7 DEF TestkitInv, ShownIsCurrent
<1> QED
  BY <1>2, <1>3, <1>8, <1>9 DEF TestkitInv

LEMMA TestkitStep == TestkitInv /\ [TestkitNext]_testkitVars => TestkitInv'
<1> SUFFICES ASSUME TestkitInv, [TestkitNext]_testkitVars PROVE TestkitInv'
  OBVIOUS
<1>1. CASE UNCHANGED testkitVars
  <2>1. /\ UNCHANGED <<txs, stakingVars, otherVars, listeningVars, history>>
        /\ fromAccount' = fromAccount /\ autoComplete' = autoComplete /\ txs' = txs /\ timers' = timers
        /\ history' = history
    BY <1>1 DEF testkitVars, mockerVars
  <2>2. MockersTyped'
    BY <2>1 DEF TestkitInv, MockersTyped, WellFormed
  <2> QED
    BY <2>1, <2>2, BooksStay, ListenersStay, TransactionsStay DEF TestkitInv
<1>2. ASSUME NEW action \in Actions, NEW argument, CreateTxOf(action, argument),
             \/ action \in {"stake", "unstake", "approve"} /\ argument \in Amounts
             \/ action \in {"restake", "withdraw"} /\ argument = 0
             \/ action = "selectGuardian" /\ argument \in Guardians
      PROVE  TestkitInv'
  BY <1>2, CreateKeeps
<1>3. CASE TimerFires
  <2>1. Fires(timers[1]) /\ PerformTxEffect(txs[timers[1]])
    BY <1>3 DEF TimerFires, Fires
  <2> QED
    BY <2>1, EffectKeeps
<1>4. CASE \/ \E amount \in Amounts : Stake(amount) \/ Unstake(amount) \/ Approve(amount)
           \/ Restake \/ Withdraw
           \/ \E g \in Guardians : SelectGuardian(g)
  BY <1>2, <1>4 DEF Stake, Unstake, Approve, Restake, Withdraw, SelectGuardian, Actions
<1> QED
  BY <1>1, <1>3, <1>4, SwitchKeeps, ListeningKeeps DEF TestkitNext

LEMMA TestkitHolds == TestkitInv => TestkitIsTheContracts
<1> SUFFICES ASSUME TestkitInv PROVE TestkitTypeOK
  BY DEF TestkitInv, TestkitIsTheContracts
<1>1. Range(timers) \subseteq DOMAIN txs
  BY DEF TestkitInv, MockersTyped, Range
<1> QED
  BY <1>1 DEF TestkitInv, MockersTyped, BooksTyped, TestkitTypeOK

(* A test sees of the mocks what it would see of the contracts, whatever    *)
(* the accounts, amounts and listeners and however many transactions.       *)
THEOREM TestkitIsAlwaysTheContracts == TestkitSpec => []TestkitIsTheContracts
<1>1. TestkitInv => TestkitIsTheContracts
  BY TestkitHolds
<1> QED
  BY <1>1, TestkitStarts, TestkitStep, PTL DEF TestkitSpec

-----------------------------------------------------------------------------
(* Reads: what the chains hold, and that they only grow.                    *)

LogEntries ==
  [kind : {"Delegate"}, to : Agents \cup {Me}, block : Nat, value : {"none"}]
    \cup [kind : {"Transfer"}, to : Agents, block : Nat, value : {"0.07", "other"}]

Late(b) == b \in Nat /\ b > FIRST_ELECTION_BLOCK_HEIGHT /\ b >= VALID_VOTE_LENGTH

ChainTyped ==
  /\ Late(block) /\ block >= EarliestBlock /\ moves \in Nat
  /\ delegations \in Seq(LogEntries)
  /\ \A i \in DOMAIN delegations : delegations[i].block >= EarliestBlock
  /\ votedAt \in 0 .. block
  /\ distributed \in [1 .. 2 -> Seq(Nat)]
  /\ \A c \in 1 .. 2 : \A i \in DOMAIN distributed[c] : distributed[c][i] < moves + 3
  /\ \A c, d \in 1 .. 2 : \A i \in DOMAIN distributed[c], j \in DOMAIN distributed[d] :
       distributed[c][i] = distributed[d][j] => c = d /\ i = j
  /\ election \in DOMAIN Results

(* A moment that has been.                                                  *)
IsMoment(m) ==
  /\ Late(m.block) /\ m.block <= block
  /\ m.delegations \in 0 .. Len(delegations)
  /\ m.votedAt \in 0 .. votedAt
  /\ \A c \in 1 .. 2 : m.distributed[c] \in 0 .. Len(distributed[c])
  /\ m.election \in 1 .. election

OrbsNumbers == {"total", "weight", "against", "delegatorReward", "guardianReward", "validatorReward"}

(* Every answer is of a moment since the read began.                        *)
Heard(s, got) ==
  LET Since == s.delegations .. Len(delegations)
  IN
  /\ Has(got, "currentDelegation") =>
       \E m \in Since : got.currentDelegation = CurrentDelegation(m)
  /\ Has(got, "delegateEvents") =>
       /\ Has(got, "currentDelegation") /\ got.currentDelegation # NOT_DELEGATED
       /\ \E m, n \in Since :
            /\ m <= n /\ got.currentDelegation = CurrentDelegation(m)
            /\ got.delegateEvents = DelegateEvents(n, got.currentDelegation)
  /\ Has(got, "transferEvents") => \E n \in Since : got.transferEvents = TransferEvents(n)
  /\ Has(got, "currentVote") => got.currentVote \in s.votedAt .. votedAt
  /\ Has(got, "upcoming") =>
       \E b \in s.block .. block : got.upcoming = ReadUpcomingElectionBlockNumber(b)
  /\ \A name \in OrbsNumbers : Has(got, name) =>
       \E e \in s.election .. election : got[name] = Results[e][name]
  /\ Has(got, "elected") =>
       \E e \in s.election .. election : got.elected = FlattenSeq(Results[e].elected)
  /\ Has(got, "distributions") =>
       \E n \in s.distributed[1] .. Len(distributed[1]) : got.distributions = SubSeq(distributed[1], 1, n)
  /\ Has(got, "distributionsForStaking") =>
       \E n \in s.distributed[2] .. Len(distributed[2]) :
         got.distributionsForStaking = SubSeq(distributed[2], 1, n)

ReadIsHeard ==
  read # NoRead =>
    /\ DOMAIN read = {"kind", "start", "got"} /\ read.kind \in Kinds
    /\ IsMoment(read.start) /\ Heard(read.start, read.got)
    /\ (read.kind = "selectedGuardian" /\ Has(read.got, "transferEvents")) =>
         Has(read.got, "currentDelegation") /\ read.got.currentDelegation = NOT_DELEGATED

AnswerIsOfItsTime ==
  /\ answer # NoRead => IsMoment(answer.start) /\ IsMoment(answer.upto)
  /\ ReadsAreTheContracts

ReadsInv == ChainTyped /\ ReadIsHeard /\ AnswerIsOfItsTime

(* The blocks and logs of a step.                                           *)
ChainGrows ==
  /\ block <= block' /\ votedAt <= votedAt' /\ election <= election'
  /\ Len(delegations) <= Len(delegations')
  /\ \A i \in 1 .. Len(delegations) : delegations'[i] = delegations[i]
  /\ \A c \in 1 .. 2 :
       /\ Len(distributed[c]) <= Len(distributed'[c])
       /\ \A i \in 1 .. Len(distributed[c]) : distributed'[c][i] = distributed[c][i]

LEMMA ChainFacts ==
  ASSUME ChainTyped
  PROVE  /\ block \in Nat /\ votedAt \in Nat /\ moves \in Nat /\ election \in 1 .. Len(Results)
         /\ delegations \in Seq(LogEntries) /\ Len(delegations) \in Nat
         /\ DOMAIN delegations = 1 .. Len(delegations)
         /\ \A i \in DOMAIN delegations :
              /\ delegations[i] \in LogEntries /\ delegations[i].kind \in {"Delegate", "Transfer"}
              /\ delegations[i].to \in Agents \cup {Me} /\ delegations[i].to # NOT_DELEGATED
              /\ delegations[i].block >= EarliestBlock
         /\ \A c \in 1 .. 2 : /\ distributed[c] \in Seq(Nat) /\ Len(distributed[c]) \in Nat
                              /\ DOMAIN distributed[c] = 1 .. Len(distributed[c])
<1>1. /\ block \in Nat /\ votedAt \in Nat /\ moves \in Nat /\ election \in 1 .. Len(Results)
  BY ResultsAssumption DEF ChainTyped, Late
<1>2. /\ delegations \in Seq(LogEntries) /\ Len(delegations) \in Nat
      /\ DOMAIN delegations = 1 .. Len(delegations)
      /\ \A i \in DOMAIN delegations : delegations[i] \in LogEntries /\ delegations[i].block >= EarliestBlock
  BY LenProperties, ElementOfSeq DEF ChainTyped
<1>3. ASSUME NEW e \in LogEntries
      PROVE  e.kind \in {"Delegate", "Transfer"} /\ e.to \in Agents \cup {Me} /\ e.to # NOT_DELEGATED
  BY PosDataAssumption DEF LogEntries
<1>4. \A c \in 1 .. 2 : /\ distributed[c] \in Seq(Nat) /\ Len(distributed[c]) \in Nat
                        /\ DOMAIN distributed[c] = 1 .. Len(distributed[c])
  BY LenProperties DEF ChainTyped
<1> QED
  BY <1>1, <1>2, <1>3, <1>4

LEMMA ChainStays ==
  ASSUME ChainTyped, UNCHANGED chainVars
  PROVE  ChainTyped' /\ ChainGrows
<1>1. /\ block' = block /\ delegations' = delegations /\ votedAt' = votedAt
      /\ distributed' = distributed /\ election' = election /\ moves' = moves
  BY DEF chainVars
<1>2. ChainTyped'
  BY <1>1 DEF ChainTyped
<1>3. ChainGrows
  BY <1>1, ChainFacts DEF ChainGrows
<1> QED
  BY <1>2, <1>3

LEMMA ChainMoves ==
  ASSUME ChainTyped, MineBlock \/ ActOnDelegation \/ Vote \/ ConcludeElection
  PROVE  ChainTyped' /\ ChainGrows
<1>1. moves' = moves + 1 /\ moves' \in Nat /\ distributed' = distributed
  BY ChainFacts DEF MineBlock, ActOnDelegation, Vote, ConcludeElection, Move
<1>2. /\ \A c \in 1 .. 2 : \A i \in DOMAIN distributed'[c] : distributed'[c][i] < moves' + 3
  <2> SUFFICES ASSUME NEW c \in 1 .. 2, NEW i \in DOMAIN distributed[c] PROVE distributed[c][i] < (moves + 1) + 3
    BY <1>1
  <2>1. distributed[c][i] < moves + 3
    BY DEF ChainTyped
  <2>2. distributed[c] \in Seq(Nat) /\ i \in 1 .. Len(distributed[c]) /\ moves \in Nat
    BY ChainFacts
  <2>3. distributed[c][i] \in Nat
    BY ONLY <2>2, ElementOfSeq
  <2> QED
    BY ONLY <2>1, <2>2, <2>3
<1>3. \A c \in 1 .. 2 :
       /\ Len(distributed[c]) <= Len(distributed'[c])
       /\ \A i \in 1 .. Len(distributed[c]) : distributed'[c][i] = distributed[c][i]
  BY <1>1, ChainFacts
<1>4. CASE MineBlock \/ Vote \/ ConcludeElection
  <2>1. delegations' = delegations
    BY <1>4 DEF MineBlock, Vote, ConcludeElection
  <2>2. /\ block' \in {block, block + 1} /\ votedAt' \in {votedAt, block} /\ election' \in {election, election + 1}
        /\ election' \in DOMAIN Results /\ (block' = block \/ votedAt' = votedAt)
    BY <1>4, ChainFacts, ResultsAssumption DEF MineBlock, Vote, ConcludeElection, Move
  <2>3. Late(block') /\ block' >= EarliestBlock /\ votedAt' \in 0 .. block' /\ votedAt <= votedAt' /\ block <= block'
        /\ election <= election'
    <3>1. /\ block \in Nat /\ votedAt \in 0 .. block /\ election \in Nat /\ EarliestBlock \in Nat
          /\ FIRST_ELECTION_BLOCK_HEIGHT \in Nat /\ VALID_VOTE_LENGTH \in Nat
      BY ChainFacts, PosDataAssumption DEF ChainTyped
    <3>2. block > FIRST_ELECTION_BLOCK_HEIGHT /\ block >= VALID_VOTE_LENGTH /\ block >= EarliestBlock
      BY DEF ChainTyped, Late
    <3> QED
      BY ONLY <2>2, <3>1, <3>2 DEF Late
  <2>4. ChainTyped'
    <3>1. /\ delegations' \in Seq(LogEntries)
          /\ \A i \in DOMAIN delegations' : delegations'[i].block >= EarliestBlock
      BY <2>1 DEF ChainTyped
    <3>2. /\ distributed' \in [1 .. 2 -> Seq(Nat)]
          /\ \A c, d \in 1 .. 2 : \A i \in DOMAIN distributed'[c], j \in DOMAIN distributed'[d] :
               distributed'[c][i] = distributed'[d][j] => c = d /\ i = j
      BY <1>1 DEF ChainTyped
    <3> QED
      BY <1>1, <1>2, <2>2, <2>3, <3>1, <3>2 DEF ChainTyped
  <2> QED
    BY <1>3, <2>1, <2>3, <2>4, ChainFacts DEF ChainGrows
<1>5. CASE ActOnDelegation
  <2>1. PICK event : /\ event \in {DelegateEvent(to) : to \in Agents \cup {Me}}
                           \cup {TransferEvent(to, value) : to \in Agents, value \in {"0.07", "other"}}
                     /\ delegations' = Append(delegations, event)
    BY <1>5 DEF ActOnDelegation
  <2>2. event \in LogEntries /\ event.block = block
    BY <2>1, ChainFacts DEF DelegateEvent, TransferEvent, LogEntries
  <2>3. block' = block /\ votedAt' = votedAt /\ election' = election
    BY <1>5 DEF ActOnDelegation
  <2>4. /\ delegations' \in Seq(LogEntries) /\ Len(delegations') = Len(delegations) + 1
        /\ DOMAIN delegations' = (1 .. Len(delegations)) \cup {Len(delegations) + 1}
        /\ delegations'[Len(delegations) + 1] = event
        /\ \A i \in 1 .. Len(delegations) : delegations'[i] = delegations[i]
    BY <2>1, <2>2, ChainFacts, Adding
  <2>5. \A i \in DOMAIN delegations' : delegations'[i].block >= EarliestBlock
    BY <2>2, <2>4, ChainFacts DEF ChainTyped
  <2>6. ChainTyped'
    BY <1>1, <1>2, <2>3, <2>4, <2>5 DEF ChainTyped, Late
  <2> QED
    BY <1>3, <2>3, <2>4, <2>6, ChainFacts DEF ChainGrows
<1> QED
  BY <1>4, <1>5

LEMMA ChainDistributes ==
  ASSUME ChainTyped, NEW k \in 1 .. 2, Distribute(k)
  PROVE  ChainTyped' /\ ChainGrows
<1>1. /\ moves' = moves + 1 /\ moves' \in Nat /\ block' = block /\ delegations' = delegations
      /\ votedAt' = votedAt /\ election' = election
      /\ distributed' = [distributed EXCEPT ![k] = Append(distributed[k], moves + 3)]
  BY ChainFacts DEF Distribute, Move, ChainTyped
<1>2. PICK r : r = Append(distributed[k], moves + 3)
  OBVIOUS
<1>n. PICK n \in Nat : n = Len(distributed[k])
  BY ChainFacts
<1>3. /\ r \in Seq(Nat) /\ Len(r) = n + 1 /\ DOMAIN r = (1 .. n) \cup {n + 1}
      /\ r[n + 1] = moves + 3 /\ \A i \in 1 .. n : r[i] = distributed[k][i]
  <2>1. distributed[k] \in Seq(Nat) /\ moves + 3 \in Nat
    BY ChainFacts
  <2> QED
    BY ONLY <1>2, <1>n, <2>1, Adding
<1>4. /\ distributed' \in [1 .. 2 -> Seq(Nat)] /\ distributed'[k] = r
      /\ \A c \in 1 .. 2 : c # k => distributed'[c] = distributed[c]
  BY <1>1, <1>2, <1>3 DEF ChainTyped
<1>5. \A c \in 1 .. 2 : DOMAIN distributed[c] = 1 .. Len(distributed[c]) /\ Len(distributed[c]) \in Nat
                        /\ \A i \in DOMAIN distributed[c] : distributed[c][i] \in Nat
  BY ChainFacts, ElementOfSeq
<1>6. \A c \in 1 .. 2 : \A i \in DOMAIN distributed'[c] :
        \/ i \in DOMAIN distributed[c] /\ distributed'[c][i] = distributed[c][i]
        \/ c = k /\ i = n + 1 /\ distributed'[c][i] = moves + 3
  BY <1>3, <1>4, <1>5, <1>n
<1>7. /\ \A c \in 1 .. 2 : \A i \in DOMAIN distributed[c] : distributed[c][i] < moves + 3
      /\ \A c, d \in 1 .. 2 : \A i \in DOMAIN distributed[c], j \in DOMAIN distributed[d] :
           distributed[c][i] = distributed[d][j] => c = d /\ i = j
      /\ moves \in Nat
  BY DEF ChainTyped
<1>8. \A c \in 1 .. 2 : \A i \in DOMAIN distributed'[c] : distributed'[c][i] < moves' + 3
  <2> TAKE c \in 1 .. 2
  <2> TAKE i \in DOMAIN distributed'[c]
  <2>1. CASE i \in DOMAIN distributed[c] /\ distributed'[c][i] = distributed[c][i]
    <3>1. distributed[c][i] \in Nat /\ distributed[c][i] < moves + 3
      BY <1>5, <1>7, <2>1
    <3> QED
      BY <1>1, <1>7, <2>1, <3>1
  <2>2. CASE distributed'[c][i] = moves + 3
    BY <1>1, <1>7, <2>2
  <2> QED
    BY <1>6, <2>1, <2>2
<1>9. \A c, d \in 1 .. 2 : \A i \in DOMAIN distributed'[c], j \in DOMAIN distributed'[d] :
        distributed'[c][i] = distributed'[d][j] => c = d /\ i = j
  <2> SUFFICES ASSUME NEW c \in 1 .. 2, NEW d \in 1 .. 2, NEW i \in DOMAIN distributed'[c], NEW j \in DOMAIN distributed'[d],
                      distributed'[c][i] = distributed'[d][j]
               PROVE  c = d /\ i = j
    OBVIOUS
  <2>1. CASE i \in DOMAIN distributed[c] /\ distributed'[c][i] = distributed[c][i]
    <3>1. CASE j \in DOMAIN distributed[d] /\ distributed'[d][j] = distributed[d][j]
      <4>1. distributed[c][i] = distributed[d][j]
        BY <2>1, <3>1
      <4> QED
        BY <1>7, <2>1, <3>1, <4>1
    <3>2. distributed[c][i] \in Nat /\ distributed[c][i] < moves + 3
      BY <1>5, <1>7, <2>1
    <3>3. distributed'[d][j] # moves + 3
      BY <1>7, <2>1, <3>2
    <3> QED
      BY <1>6, <3>1, <3>3
  <2>2. CASE c = k /\ i = n + 1 /\ distributed'[c][i] = moves + 3
    <3>1. ~(j \in DOMAIN distributed[d] /\ distributed'[d][j] = distributed[d][j])
      <4> SUFFICES ASSUME j \in DOMAIN distributed[d], distributed'[d][j] = distributed[d][j] PROVE FALSE
        OBVIOUS
      <4>1. distributed[d][j] \in Nat /\ distributed[d][j] < moves + 3
        BY <1>5, <1>7
      <4> QED
        BY <1>7, <2>2, <4>1
    <3> QED
      BY <1>6, <2>2, <3>1
  <2> QED
    BY <1>6, <2>1, <2>2
<1>10. ChainTyped'
  BY <1>1, <1>4, <1>8, <1>9 DEF ChainTyped
<1>11. \A c \in 1 .. 2 :
       /\ Len(distributed[c]) <= Len(distributed'[c])
       /\ \A i \in 1 .. Len(distributed[c]) : distributed'[c][i] = distributed[c][i]
  <2> TAKE c \in 1 .. 2
  <2>1. CASE c = k
    <3>1. /\ distributed'[k] = r /\ Len(r) = n + 1 /\ n = Len(distributed[k])
          /\ \A i \in 1 .. n : r[i] = distributed[k][i]
      BY <1>3, <1>4, <1>n
    <3> QED
      BY <1>n, <2>1, <3>1
  <2>2. CASE c # k
    <3>1. distributed'[c] = distributed[c] /\ Len(distributed[c]) \in Nat
      BY <1>4, <1>5, <2>2
    <3> QED
      BY <3>1
  <2> QED
    BY <2>1, <2>2
<1>12. /\ block <= block' /\ votedAt <= votedAt' /\ election <= election'
       /\ Len(delegations) <= Len(delegations')
       /\ \A i \in 1 .. Len(delegations) : delegations'[i] = delegations[i]
  BY <1>1, ChainFacts
<1> QED
  BY <1>10, <1>11, <1>12 DEF ChainGrows

(* What the first events said is said for ever.                             *)
LEMMA PrefixStays ==
  ASSUME ChainTyped, ChainGrows, NEW n \in 0 .. Len(delegations)
  PROVE  /\ CurrentDelegation(n)' = CurrentDelegation(n)
         /\ \A to : DelegateEvents(n, to)' = DelegateEvents(n, to)
         /\ TransferEvents(n)' = TransferEvents(n)
         /\ MirroredDelegation(n)' = MirroredDelegation(n)
<1>1. \A i \in 1 .. n : delegations'[i] = delegations[i] /\ i \in Nat
  BY ChainFacts DEF ChainGrows
<1>2. Delegates(n)' = Delegates(n) /\ Transfers(n)' = Transfers(n)
  BY <1>1 DEF Delegates, Transfers
<1>3. Delegates(n) \in SUBSET (1 .. n) /\ Transfers(n) \in SUBSET (1 .. n)
  BY DEF Delegates, Transfers
<1>4. ASSUME NEW S \in SUBSET (1 .. n), S # {} PROVE Max(S) \in 1 .. n
  <2>1. S \in SUBSET Nat /\ n \in Nat /\ \A k \in S : k <= n
    BY <1>1, ChainFacts
  <2> QED
    BY <1>4, <2>1, GreatestNumber
<1>5. CurrentDelegation(n)' = CurrentDelegation(n)
  BY <1>1, <1>2, <1>3, <1>4 DEF CurrentDelegation
<1>6. ASSUME NEW S \in SUBSET (1 .. n) PROVE LastVisible(S)' = LastVisible(S)
  <2> DEFINE visible == {i \in S : delegations[i].block >= EarliestBlock}
  <2>1. visible' = visible /\ visible \in SUBSET (1 .. n)
    BY <1>1
  <2>2. visible # {} => delegations'[Max(visible)] = delegations[Max(visible)]
    BY <1>1, <1>4, <2>1
  <2>3. /\ LastVisible(S) = IF visible = {} THEN [to |-> NOT_DELEGATED, block |-> 0]
             ELSE [to |-> delegations[Max(visible)].to, block |-> delegations[Max(visible)].block]
        /\ LastVisible(S)' = IF visible' = {} THEN [to |-> NOT_DELEGATED, block |-> 0]
             ELSE [to |-> delegations'[Max(visible')].to, block |-> delegations'[Max(visible')].block]
    BY DEF LastVisible
  <2> HIDE DEF visible
  <2> QED
    BY <2>1, <2>2, <2>3
<1>7. ASSUME NEW to PROVE DelegateEvents(n, to)' = DelegateEvents(n, to)
  <2> DEFINE S == {i \in Delegates(n) : delegations[i].to = to}
  <2>1. S' = S /\ S \in SUBSET (1 .. n)
    BY <1>1, <1>2, <1>3
  <2>2. DelegateEvents(n, to) = LastVisible(S) /\ DelegateEvents(n, to)' = LastVisible(S)'
    BY DEF DelegateEvents
  <2>3. PICK T : T = S
    OBVIOUS
  <2>4. LastVisible(T)' = LastVisible(T)
    BY <1>6, <2>1, <2>3
  <2>5. LastVisible(S)' = LastVisible(T)'
    BY <2>1, <2>3 DEF LastVisible
  <2> QED
    BY <2>2, <2>3, <2>4, <2>5
<1> DEFINE counted == {i \in Transfers(n) : delegations[i].value = "0.07"}
<1>8. counted' = counted /\ counted \in SUBSET (1 .. n)
  BY <1>1, <1>2, <1>3
<1>9. TransferEvents(n)' = TransferEvents(n)
  <2>1. PICK T : T = counted
    OBVIOUS
  <2>2. TransferEvents(n) = LastVisible(T)
    BY <2>1 DEF TransferEvents
  <2>3. TransferEvents(n)' = LastVisible(T)'
    BY <1>8, <2>1 DEF TransferEvents, LastVisible
  <2> QED
    BY <1>6, <1>8, <2>1, <2>2, <2>3
<1>10. MirroredDelegation(n)' = MirroredDelegation(n)
  <2>1. Delegates(n) # {} => delegations'[Max(Delegates(n))] = delegations[Max(Delegates(n))]
    BY <1>1, <1>3, <1>4
  <2>2. counted # {} => delegations'[Max(counted)] = delegations[Max(counted)]
    BY <1>1, <1>4, <1>8
  <2> QED
    BY <1>2, <1>8, <2>1, <2>2 DEF MirroredDelegation
<1> QED
  BY <1>5, <1>7, <1>9, <1>10

LEMMA Wider ==
  ASSUME NEW x \in Nat, NEW y \in Nat, NEW z \in Nat, y <= z
  PROVE  x .. y \subseteq x .. z /\ \A n \in x .. y : n \in 0 .. y
OBVIOUS

LEMMA FirstOfALongerList ==
  ASSUME NEW S, NEW s \in Seq(S), NEW t \in Seq(S), NEW n \in 0 .. Len(s), Len(s) <= Len(t),
         \A i \in 1 .. Len(s) : t[i] = s[i]
  PROVE  /\ SubSeq(t, 1, n) = SubSeq(s, 1, n) /\ SubSeq(s, 1, n) \in Seq(S) /\ Len(SubSeq(s, 1, n)) = n
         /\ \A i \in 1 .. n : SubSeq(s, 1, n)[i] = s[i]
<1>1. /\ SubSeq(s, 1, n) \in Seq(S) /\ SubSeq(t, 1, n) \in Seq(S) /\ n \in Nat /\ n <= Len(t)
      /\ Len(SubSeq(s, 1, n)) = n /\ Len(SubSeq(t, 1, n)) = n
      /\ \A i \in 1 .. n : SubSeq(s, 1, n)[i] = s[i] /\ SubSeq(t, 1, n)[i] = t[i]
  OBVIOUS
<1>2. \A i \in 1 .. n : i \in 1 .. Len(s)
  OBVIOUS
<1>3. \A i \in 1 .. Len(SubSeq(s, 1, n)) : SubSeq(t, 1, n)[i] = SubSeq(s, 1, n)[i]
  BY <1>1, <1>2
<1> QED
  BY ONLY <1>1, <1>3, SeqEqual

LEMMA HistoryStays ==
  ASSUME ChainTyped, ChainTyped', ChainGrows, NEW c \in 1 .. 2, NEW n \in 0 .. Len(distributed[c])
  PROVE  SubSeq(distributed'[c], 1, n) = SubSeq(distributed[c], 1, n)
<1>1. distributed[c] \in Seq(Nat) /\ distributed'[c] \in Seq(Nat)
  BY DEF ChainTyped
<1>2. Len(distributed[c]) <= Len(distributed'[c])
      /\ \A i \in 1 .. Len(distributed[c]) : distributed'[c][i] = distributed[c][i]
  BY DEF ChainGrows
<1>3. n \in 0 .. Len(distributed[c])
  OBVIOUS
<1> QED
  BY ONLY <1>1, <1>2, <1>3, FirstOfALongerList

LEMMA MomentStays ==
  ASSUME ChainTyped, ChainTyped', ChainGrows, NEW m, IsMoment(m)
  PROVE  IsMoment(m)'
<1>1. /\ block <= block' /\ votedAt <= votedAt' /\ election <= election'
      /\ Len(delegations) <= Len(delegations')
      /\ \A c \in 1 .. 2 : Len(distributed[c]) <= Len(distributed'[c])
  BY DEF ChainGrows
<1>2. /\ block \in Nat /\ votedAt \in Nat /\ election \in Nat /\ Len(delegations) \in Nat
      /\ \A c \in 1 .. 2 : Len(distributed[c]) \in Nat
  BY ChainFacts
<1>3. /\ block' \in Nat /\ votedAt' \in Nat /\ election' \in Nat /\ Len(delegations') \in Nat
      /\ \A c \in 1 .. 2 : Len(distributed'[c]) \in Nat
  <2>1. block' \in Nat /\ votedAt' \in Nat /\ election' \in Nat
    BY ResultsAssumption DEF ChainTyped, Late
  <2>2. delegations' \in Seq(LogEntries) /\ \A c \in 1 .. 2 : distributed'[c] \in Seq(Nat)
    BY DEF ChainTyped
  <2> QED
    BY <2>1, <2>2, LenProperties
<1>4. /\ Late(m.block) /\ m.block <= block
      /\ m.delegations \in 0 .. Len(delegations)
      /\ m.votedAt \in 0 .. votedAt
      /\ \A c \in 1 .. 2 : m.distributed[c] \in 0 .. Len(distributed[c])
      /\ m.election \in 1 .. election
  BY DEF IsMoment
<1>5. Late(m.block) /\ m.block <= block' /\ m.delegations \in 0 .. Len(delegations') /\ m.votedAt \in 0 .. votedAt'
      /\ m.election \in 1 .. election'
  <2>1. m.block \in Nat
    BY <1>4 DEF Late
  <2>2. m.block <= block'
    BY <1>1, <1>2, <1>3, <1>4, <2>1
  <2>3. /\ 0 .. Len(delegations) \subseteq 0 .. Len(delegations') /\ 0 .. votedAt \subseteq 0 .. votedAt'
        /\ 1 .. election \subseteq 1 .. election'
    BY <1>1, <1>2, <1>3, Wider
  <2> QED
    BY <1>4, <2>2, <2>3
<1>6. \A c \in 1 .. 2 : m.distributed[c] \in 0 .. Len(distributed'[c])
  <2> TAKE c \in 1 .. 2
  <2>1. m.distributed[c] \in 0 .. Len(distributed[c]) /\ Len(distributed[c]) <= Len(distributed'[c])
        /\ Len(distributed[c]) \in Nat /\ Len(distributed'[c]) \in Nat
    BY <1>1, <1>2, <1>3, <1>4
  <2> QED
    BY ONLY <2>1
<1> QED
  BY <1>5, <1>6 DEF IsMoment

LEMMA HeardStays ==
  ASSUME ChainTyped, ChainTyped', ChainGrows, NEW s, NEW got, IsMoment(s), Heard(s, got)
  PROVE  Heard(s, got)'
<1>0. /\ s.delegations \in Nat /\ s.block \in Nat /\ s.votedAt \in Nat /\ s.election \in Nat
      /\ \A c \in 1 .. 2 : s.distributed[c] \in Nat
  BY DEF IsMoment, Late
<1>1. /\ Len(delegations) <= Len(delegations') /\ Len(delegations) \in Nat /\ Len(delegations') \in Nat
      /\ block <= block' /\ votedAt <= votedAt' /\ election <= election'
      /\ block \in Nat /\ block' \in Nat /\ votedAt \in Nat /\ votedAt' \in Nat /\ election \in Nat /\ election' \in Nat
      /\ \A c \in 1 .. 2 : Len(distributed[c]) <= Len(distributed'[c])
                           /\ Len(distributed[c]) \in Nat /\ Len(distributed'[c]) \in Nat
  <2>1. block' \in Nat /\ votedAt' \in Nat /\ election' \in Nat
    BY ResultsAssumption DEF ChainTyped, Late
  <2>2. delegations' \in Seq(LogEntries) /\ \A c \in 1 .. 2 : distributed'[c] \in Seq(Nat)
    BY DEF ChainTyped
  <2>3. Len(delegations') \in Nat /\ \A c \in 1 .. 2 : Len(distributed'[c]) \in Nat
    BY <2>2, LenProperties
  <2> QED
    BY <2>1, <2>3, ChainFacts DEF ChainGrows
<1> DEFINE Then == s.delegations .. Len(delegations)
           Now == s.delegations .. Len(delegations')
<1>2. Then \subseteq Now /\ \A n \in Then : n \in 0 .. Len(delegations)
  BY ONLY <1>0, <1>1, Wider
<1>3. ASSUME NEW n \in Then
      PROVE  /\ CurrentDelegation(n)' = CurrentDelegation(n)
             /\ \A to : DelegateEvents(n, to)' = DelegateEvents(n, to)
             /\ TransferEvents(n)' = TransferEvents(n)
  BY <1>2, PrefixStays
<1> HIDE DEF Then, Now
<1>4. Has(got, "currentDelegation") => \E m \in Now : got.currentDelegation = CurrentDelegation(m)'
  <2>1. Has(got, "currentDelegation") => \E m \in Then : got.currentDelegation = CurrentDelegation(m)
    BY DEF Heard, Then
  <2> QED
    BY <1>2, <1>3, <2>1
<1>5. Has(got, "delegateEvents") =>
       /\ Has(got, "currentDelegation") /\ got.currentDelegation # NOT_DELEGATED
       /\ \E m, n \in Now :
            /\ m <= n /\ got.currentDelegation = CurrentDelegation(m)'
            /\ got.delegateEvents = DelegateEvents(n, got.currentDelegation)'
  <2>1. Has(got, "delegateEvents") =>
       /\ Has(got, "currentDelegation") /\ got.currentDelegation # NOT_DELEGATED
       /\ \E m, n \in Then :
            /\ m <= n /\ got.currentDelegation = CurrentDelegation(m)
            /\ got.delegateEvents = DelegateEvents(n, got.currentDelegation)
    BY DEF Heard, Then
  <2> QED
    BY <1>2, <1>3, <2>1
<1>6. Has(got, "transferEvents") => \E n \in Now : got.transferEvents = TransferEvents(n)'
  <2>1. Has(got, "transferEvents") => \E n \in Then : got.transferEvents = TransferEvents(n)
    BY DEF Heard, Then
  <2> QED
    BY <1>2, <1>3, <2>1
<1>7. /\ Has(got, "currentVote") => got.currentVote \in s.votedAt .. votedAt'
      /\ Has(got, "upcoming") =>
           \E b \in s.block .. block' : got.upcoming = ReadUpcomingElectionBlockNumber(b)
      /\ \A name \in OrbsNumbers : Has(got, name) =>
           \E e \in s.election .. election' : got[name] = Results[e][name]
      /\ Has(got, "elected") =>
           \E e \in s.election .. election' : got.elected = FlattenSeq(Results[e].elected)
  <2>1. /\ s.votedAt .. votedAt \subseteq s.votedAt .. votedAt' /\ s.block .. block \subseteq s.block .. block'
        /\ s.election .. election \subseteq s.election .. election'
    BY ONLY <1>0, <1>1, Wider
  <2>2. /\ Has(got, "currentVote") => got.currentVote \in s.votedAt .. votedAt
        /\ Has(got, "upcoming") =>
             \E b \in s.block .. block : got.upcoming = ReadUpcomingElectionBlockNumber(b)
        /\ \A name \in OrbsNumbers : Has(got, name) =>
             \E e \in s.election .. election : got[name] = Results[e][name]
        /\ Has(got, "elected") =>
             \E e \in s.election .. election : got.elected = FlattenSeq(Results[e].elected)
    BY DEF Heard
  <2>3. Has(got, "currentVote") => got.currentVote \in s.votedAt .. votedAt'
    BY ONLY <2>1, <2>2, Zenon
  <2>4. Has(got, "upcoming") => \E b \in s.block .. block' : got.upcoming = ReadUpcomingElectionBlockNumber(b)
    BY ONLY <2>1, <2>2, Zenon
  <2>5. \A name \in OrbsNumbers : Has(got, name) =>
           \E e \in s.election .. election' : got[name] = Results[e][name]
    BY ONLY <2>1, <2>2, Zenon
  <2>6. Has(got, "elected") => \E e \in s.election .. election' : got.elected = FlattenSeq(Results[e].elected)
    BY ONLY <2>1, <2>2, Zenon
  <2> QED
    BY <2>3, <2>4, <2>5, <2>6
<1>8. ASSUME NEW c \in 1 .. 2, NEW d, \E n \in s.distributed[c] .. Len(distributed[c]) : d = SubSeq(distributed[c], 1, n)
      PROVE  \E n \in s.distributed[c] .. Len(distributed'[c]) : d = SubSeq(distributed'[c], 1, n)
  <2>1. PICK n \in s.distributed[c] .. Len(distributed[c]) : d = SubSeq(distributed[c], 1, n)
    BY <1>8
  <2>2. n \in s.distributed[c] .. Len(distributed'[c]) /\ n \in 0 .. Len(distributed[c])
    <3>1. s.distributed[c] \in Nat /\ Len(distributed[c]) \in Nat /\ Len(distributed'[c]) \in Nat
          /\ Len(distributed[c]) <= Len(distributed'[c])
      BY <1>0, <1>1
    <3> QED
      BY ONLY <2>1, <3>1, Wider
  <2>3. SubSeq(distributed'[c], 1, n) = SubSeq(distributed[c], 1, n)
    BY <2>2, HistoryStays
  <2> QED
    BY <2>1, <2>2, <2>3
<1>9. Has(got, "distributions") =>
       \E n \in s.distributed[1] .. Len(distributed'[1]) : got.distributions = SubSeq(distributed'[1], 1, n)
  BY <1>8 DEF Heard
<1>10. Has(got, "distributionsForStaking") =>
       \E n \in s.distributed[2] .. Len(distributed'[2]) :
         got.distributionsForStaking = SubSeq(distributed'[2], 1, n)
  BY <1>8 DEF Heard
<1> QED
  BY <1>4, <1>5, <1>6, <1>7, <1>9, <1>10 DEF Heard, Now

LEMMA AnswerStays ==
  ASSUME ChainTyped, ChainTyped', ChainGrows, AnswerIsOfItsTime, answer' = answer
  PROVE  AnswerIsOfItsTime'
<1>a. PICK a : a = answer
  OBVIOUS
<1>1. CASE a = NoRead
  BY <1>a, <1>1 DEF AnswerIsOfItsTime, ReadsAreTheContracts, DelegationIsMirrored, EligibilityIsTheElections,
     OrbsAnswersAreOfTheirTime, HistoryIsComplete, Answered
<1>2. CASE a # NoRead
  <2>1. IsMoment(a.start) /\ IsMoment(a.upto)
    BY <1>a, <1>2 DEF AnswerIsOfItsTime
  <2>2. IsMoment(a.start)' /\ IsMoment(a.upto)'
    BY <2>1, MomentStays
  <2>3. a.start.delegations \in Nat /\ a.upto.delegations \in 0 .. Len(delegations) /\ Len(delegations) \in Nat
    <3>1. a.start.delegations \in 0 .. Len(delegations) /\ a.upto.delegations \in 0 .. Len(delegations)
      BY <2>1 DEF IsMoment
    <3>2. Len(delegations) \in Nat
      BY ChainFacts
    <3> QED
      BY <3>1, <3>2
  <2>4. DelegationIsMirrored'
    <3>1. \A i \in 1 .. a.upto.delegations : delegations'[i] = delegations[i]
      BY <2>3 DEF ChainGrows
    <3>2. \A n \in a.start.delegations .. a.upto.delegations : MirroredDelegation(n)' = MirroredDelegation(n)
      <4> TAKE n \in a.start.delegations .. a.upto.delegations
      <4>1. n \in 0 .. Len(delegations)
        BY <2>3
      <4> QED
        BY <4>1, PrefixStays
    <3>3. DelegationIsMirrored
      BY DEF AnswerIsOfItsTime, ReadsAreTheContracts
    <3> QED
      BY <1>a, <3>1, <3>2, <3>3 DEF DelegationIsMirrored
  <2>5. EligibilityIsTheElections' /\ OrbsAnswersAreOfTheirTime'
    BY DEF AnswerIsOfItsTime, ReadsAreTheContracts, EligibilityIsTheElections, OrbsAnswersAreOfTheirTime, Answered
  <2>6. HistoryIsComplete'
    <3>1. \A c \in 1 .. 2 : /\ SubSeq(distributed'[c], 1, a.start.distributed[c]) = SubSeq(distributed[c], 1, a.start.distributed[c])
                            /\ SubSeq(distributed'[c], 1, a.upto.distributed[c]) = SubSeq(distributed[c], 1, a.upto.distributed[c])
      BY <2>1, HistoryStays DEF IsMoment
    <3>2. HistoryIsComplete
      BY DEF AnswerIsOfItsTime, ReadsAreTheContracts
    <3> QED
      BY <1>a, <3>1, <3>2 DEF HistoryIsComplete, Answered
  <2> QED
    BY <1>a, <2>2, <2>4, <2>5, <2>6 DEF AnswerIsOfItsTime, ReadsAreTheContracts
<1> QED
  BY <1>1, <1>2

-----------------------------------------------------------------------------
(* Reads: what is awaited, and what every call answers.                     *)

LEMMA AwaitsAre ==
  ASSUME NEW got
  PROVE  /\ Awaits("delegation", got) = DelegationCalls(got)
         /\ Awaits("selectedGuardian", got) = SelectedGuardianCalls(got)
         /\ Awaits("guardianInfo", got) = << {"currentVote", "upcoming"}, {"weight", "total"} >>
         /\ Awaits("validatorInfo", got) = << {"against", "total"} >>
         /\ Awaits("electedValidatorInfo", got) = << {"stake"} >>
         /\ Awaits("rewards", got) = << {"delegatorReward", "guardianReward", "validatorReward"} >>
         /\ Awaits("history", got) = << {"distributions"}, {"distributionsForStaking"} >>
         /\ Awaits("electedValidators", got) = << {"elected"} >>
BY DEF Awaits

LEMMA AwaitsDomain ==
  ASSUME NEW got, NEW kind \in Kinds
  PROVE  DOMAIN Awaits(kind, got) \in SUBSET Nat
<1>1. DOMAIN DelegationCalls(got) = 1 .. 4 /\ DOMAIN SelectedGuardianCalls(got) = 1 .. 2
  BY DEF DelegationCalls, SelectedGuardianCalls
<1>2. CASE kind = "delegation" \/ kind = "selectedGuardian"
  BY <1>1, <1>2, AwaitsAre
<1>3. CASE kind = "guardianInfo" \/ kind = "history"
  <2>1. DOMAIN Awaits(kind, got) = 1 .. 2
    BY <1>3, AwaitsAre
  <2> QED
    BY <2>1
<1>4. CASE kind \in {"validatorInfo", "electedValidatorInfo", "rewards", "electedValidators"}
  <2>1. DOMAIN Awaits(kind, got) = 1 .. 1
    BY <1>4, AwaitsAre
  <2> QED
    BY <2>1
<1> QED
  BY <1>2, <1>3, <1>4 DEF Kinds

LEMMA WaitedFor ==
  ASSUME NEW got, NEW kind \in Kinds
  PROVE  /\ \A name \in Waiting(kind, got) : \E i \in DOMAIN Awaits(kind, got) : name \in Awaits(kind, got)[i]
         /\ Waiting(kind, got) = {} => \A i \in DOMAIN Awaits(kind, got) : Awaits(kind, got)[i] \subseteq DOMAIN got
<1> DEFINE awaits == Awaits(kind, got)
           open == {i \in DOMAIN awaits : ~(awaits[i] \subseteq DOMAIN got)}
<1>1. Waiting(kind, got) = IF open = {} THEN {} ELSE awaits[Min(open)] \ DOMAIN got
  BY DEF Waiting
<1>2. open # {} => Min(open) \in open
  <2>1. open \in SUBSET Nat
    BY AwaitsDomain
  <2> HIDE DEF open
  <2> QED
    BY <2>1, SmallestNumber
<1>3. open # {} => Min(open) \in DOMAIN awaits /\ awaits[Min(open)] \ DOMAIN got # {}
  BY <1>2
<1>4. open = {} => \A i \in DOMAIN awaits : awaits[i] \subseteq DOMAIN got
  OBVIOUS
<1> HIDE DEF open, awaits
<1>5. /\ \A name \in Waiting(kind, got) : \E i \in DOMAIN awaits : name \in awaits[i]
      /\ Waiting(kind, got) = {} => \A i \in DOMAIN awaits : awaits[i] \subseteq DOMAIN got
  BY <1>1, <1>3, <1>4
<1> QED
  BY <1>5 DEF awaits

CallNames ==
  {"currentDelegation", "delegateEvents", "transferEvents", "balance", "currentVote", "upcoming", "total",
   "weight", "against", "stake", "elected", "delegatorReward", "guardianReward", "validatorReward",
   "distributions", "distributionsForStaking"}

LEMMA CallsAreKnown ==
  ASSUME NEW got, NEW kind \in Kinds, NEW name \in Waiting(kind, got)
  PROVE  /\ name \in CallNames
         /\ name = "delegateEvents" => Has(got, "currentDelegation") /\ got.currentDelegation # NOT_DELEGATED
         /\ kind = "selectedGuardian" /\ name = "transferEvents" =>
              Has(got, "currentDelegation") /\ got.currentDelegation = NOT_DELEGATED
         /\ kind = "selectedGuardian" => name \in {"currentDelegation", "transferEvents"}
<1>1. PICK i \in DOMAIN Awaits(kind, got) : name \in Awaits(kind, got)[i]
  BY WaitedFor
<1>2. CASE kind = "delegation"
  <2>a. DOMAIN DelegationCalls(got) = 1 .. 4
    BY DEF DelegationCalls
  <2>0. Awaits(kind, got) = DelegationCalls(got) /\ DOMAIN DelegationCalls(got) = 1 .. 4
    BY <1>2, <2>a, AwaitsAre
  <2>1. i \in 1 .. 4 /\ name \in DelegationCalls(got)[i]
    BY <1>1, <2>0
  <2>2. \/ name \in {"currentDelegation", "transferEvents", "balance"}
        \/ name = "delegateEvents" /\ Has(got, "currentDelegation") /\ got.currentDelegation # NOT_DELEGATED
    BY <2>1 DEF DelegationCalls, When
  <2> QED
    BY <1>2, <2>2 DEF CallNames
<1>3. CASE kind = "selectedGuardian"
  <2>0. Awaits(kind, got) = SelectedGuardianCalls(got) /\ DOMAIN SelectedGuardianCalls(got) = 1 .. 2
    BY <1>3, AwaitsAre DEF SelectedGuardianCalls
  <2>1. i \in 1 .. 2 /\ name \in SelectedGuardianCalls(got)[i]
    BY <1>1, <2>0
  <2>2. \/ name = "currentDelegation"
        \/ name = "transferEvents" /\ Has(got, "currentDelegation") /\ got.currentDelegation = NOT_DELEGATED
    BY <2>1 DEF SelectedGuardianCalls, When
  <2> QED
    BY <1>3, <2>2 DEF CallNames
<1>4. CASE kind = "guardianInfo"
  <2>1. i \in 1 .. 2 /\ name \in << {"currentVote", "upcoming"}, {"weight", "total"} >>[i]
    BY <1>1, <1>4, AwaitsAre
  <2>2. name \in {"currentVote", "upcoming", "weight", "total"}
    BY <2>1
  <2> QED
    BY <1>4, <2>2 DEF CallNames
<1>5. CASE kind \in {"validatorInfo", "electedValidatorInfo", "rewards", "electedValidators"}
  <2>1. name \in {"against", "total", "stake", "delegatorReward", "guardianReward", "validatorReward", "elected"}
    BY <1>1, <1>5, AwaitsAre
  <2> QED
    BY <1>5, <2>1 DEF CallNames
<1>6. CASE kind = "history"
  <2>1. i \in 1 .. 2 /\ name \in << {"distributions"}, {"distributionsForStaking"} >>[i]
    BY <1>1, <1>6, AwaitsAre
  <2>2. name \in {"distributions", "distributionsForStaking"}
    BY <2>1
  <2> QED
    BY <1>6, <2>2 DEF CallNames
<1> QED
  BY <1>2, <1>3, <1>4, <1>5, <1>6 DEF Kinds

LEMMA CallIs ==
  ASSUME NEW got
  PROVE  /\ Call("currentDelegation", got) = CurrentDelegation(Len(delegations))
         /\ Call("delegateEvents", got) = DelegateEvents(Len(delegations), got.currentDelegation)
         /\ Call("transferEvents", got) = TransferEvents(Len(delegations))
         /\ Call("currentVote", got) = votedAt
         /\ Call("upcoming", got) = ReadUpcomingElectionBlockNumber(block)
         /\ Call("elected", got) = FlattenSeq(Results[election].elected)
         /\ \A name \in OrbsNumbers : Call(name, got) = Results[election][name]
         /\ Call("distributions", got) = distributed[1]
         /\ Call("distributionsForStaking", got) = distributed[2]
<1>1. \A name \in OrbsNumbers : Call(name, got) = Results[election][name]
  BY DEF Call, OrbsNumbers, ReadTotalParticipatingTokens, ReadGuardianVoteWeight, ReadValidatorVotes,
     ReadParticipationReward, ReadGuardianReward, ReadValidatorReward
<1> QED
  BY <1>1 DEF Call, ReadElectedValidatorsData

LEMMA NowIsAMoment ==
  ASSUME ChainTyped PROVE IsMoment(Moment)
<1>1. /\ Late(block) /\ block <= block /\ Len(delegations) \in 0 .. Len(delegations) /\ votedAt \in 0 .. votedAt
      /\ election \in 1 .. election /\ Len(distributed[1]) \in 0 .. Len(distributed[1])
      /\ Len(distributed[2]) \in 0 .. Len(distributed[2])
  BY ChainFacts DEF ChainTyped
<1>2. \A c \in 1 .. 2 : c = 1 \/ c = 2
  OBVIOUS
<1>3. \A c \in 1 .. 2 : Moment.distributed[c] = Len(distributed[c])
  BY <1>2 DEF Moment
<1>4. Moment.block = block /\ Moment.delegations = Len(delegations) /\ Moment.votedAt = votedAt
      /\ Moment.election = election
  BY DEF Moment
<1> QED
  BY <1>1, <1>2, <1>3, <1>4 DEF IsMoment

LEMMA ReadsStart == ReadsInit => ReadsInv
<1> SUFFICES ASSUME ReadsInit PROVE ReadsInv
  OBVIOUS
<1>1. /\ block \in FirstBlocks /\ delegations \in PastDelegations /\ votedAt \in FirstVotes
      /\ distributed = << <<1>>, <<2>> >> /\ election = 1 /\ moves = 0 /\ read = NoRead /\ answer = NoRead
  BY DEF ReadsInit
<1>2. Late(block) /\ block >= EarliestBlock /\ votedAt \in 0 .. block
  BY <1>1, PosDataAssumption DEF Late
<1>3. delegations \in Seq(LogEntries) /\ \A i \in DOMAIN delegations : delegations[i].block >= EarliestBlock
  BY <1>1, PosDataAssumption DEF LogEntries
<1>4. /\ distributed \in [1 .. 2 -> Seq(Nat)]
      /\ \A c \in 1 .. 2 : DOMAIN distributed[c] = {1} /\ distributed[c][1] = c
  <2>1. <<1>> \in Seq(Nat) /\ <<2>> \in Seq(Nat) /\ DOMAIN <<1>> = {1} /\ DOMAIN <<2>> = {1}
        /\ \A c \in 1 .. 2 : c = 1 \/ c = 2
    OBVIOUS
  <2>2. distributed[1] = <<1>> /\ distributed[2] = <<2>> /\ distributed = [c \in 1 .. 2 |-> distributed[c]]
    BY <1>1
  <2> QED
    BY <2>1, <2>2
<1>5. election \in DOMAIN Results
  BY <1>1, ResultsAssumption
<1>6. ChainTyped
  BY <1>1, <1>2, <1>3, <1>4, <1>5 DEF ChainTyped
<1>7. ReadIsHeard /\ AnswerIsOfItsTime
  BY <1>1 DEF ReadIsHeard, AnswerIsOfItsTime, ReadsAreTheContracts, DelegationIsMirrored,
     EligibilityIsTheElections, OrbsAnswersAreOfTheirTime, HistoryIsComplete, Answered
<1> QED
  BY <1>6, <1>7 DEF ReadsInv

LEMMA NothingAnswered ==
  ASSUME answer' = NoRead PROVE AnswerIsOfItsTime'
BY DEF AnswerIsOfItsTime, ReadsAreTheContracts, DelegationIsMirrored, EligibilityIsTheElections,
   OrbsAnswersAreOfTheirTime, HistoryIsComplete, Answered

LEMMA NothingHeard ==
  ASSUME NEW s PROVE Heard(s, <<>>)
<1>1. \A name : ~Has(<<>>, name)
  BY DEF Has
<1> QED
  BY <1>1 DEF Heard

LEMMA ReadStarts ==
  ASSUME ReadsInv, NEW kind \in Kinds, StartRead(kind)
  PROVE  ReadsInv'
<1>1. ChainTyped' /\ ChainGrows /\ ChainTyped
  BY ChainStays DEF StartRead, ReadsInv
<1>2. PICK s : s = Moment
  OBVIOUS
<1>3. read' = [kind |-> kind, start |-> s, got |-> <<>>] /\ answer' = NoRead
  BY <1>2 DEF StartRead
<1>4. IsMoment(s)' /\ IsMoment(s) /\ Heard(s, <<>>)
  BY <1>1, <1>2, NowIsAMoment, MomentStays, NothingHeard
<1>5. Heard(s, <<>>)'
  BY <1>1, <1>4, HeardStays
<1>6. DOMAIN read' = {"kind", "start", "got"} /\ read'.kind = kind /\ read'.start = s /\ read'.got = <<>>
  BY <1>3
<1>7. ~Has(<<>>, "transferEvents")
  BY DEF Has
<1>8. ReadIsHeard'
  BY <1>4, <1>5, <1>6, <1>7 DEF ReadIsHeard
<1> QED
  BY <1>1, <1>3, <1>8, NothingAnswered DEF ReadsInv

(* An answer just given is of now.                                          *)
LEMMA AnswerIsHeard ==
  ASSUME ChainTyped, NEW s, NEW got, NEW name \in CallNames, NEW answers, IsMoment(s), Heard(s, got),
         name \notin DOMAIN got,
         answers = [n \in DOMAIN got \cup {name} |-> IF n = name THEN Call(name, got) ELSE got[n]],
         name = "delegateEvents" => Has(got, "currentDelegation") /\ got.currentDelegation # NOT_DELEGATED
  PROVE  Heard(s, answers)
<1>1. /\ \A n : Has(answers, n) <=> Has(got, n) \/ n = name
      /\ \A n : Has(got, n) => answers[n] = got[n]
      /\ answers[name] = Call(name, got)
  BY DEF Has
<1>2. /\ Len(delegations) \in s.delegations .. Len(delegations) /\ votedAt \in s.votedAt .. votedAt
      /\ block \in s.block .. block /\ election \in s.election .. election
      /\ \A c \in 1 .. 2 : Len(distributed[c]) \in s.distributed[c] .. Len(distributed[c])
  <2>1. /\ s.delegations \in 0 .. Len(delegations) /\ s.votedAt \in 0 .. votedAt /\ s.block \in 0 .. block
        /\ s.election \in 1 .. election /\ \A c \in 1 .. 2 : s.distributed[c] \in 0 .. Len(distributed[c])
    BY ChainFacts DEF IsMoment, Late
  <2>2. \A m \in Nat : \A n \in 0 .. m : m \in n .. m
    OBVIOUS
  <2>3. \A m \in Nat : \A n \in 1 .. m : m \in n .. m
    OBVIOUS
  <2>4. /\ Len(delegations) \in Nat /\ votedAt \in Nat /\ block \in Nat /\ election \in Nat
        /\ \A c \in 1 .. 2 : Len(distributed[c]) \in Nat
    BY ChainFacts, ResultsAssumption
  <2> QED
    BY ONLY <2>1, <2>2, <2>3, <2>4, Zenon
<1>3. /\ \A c \in 1 .. 2 : distributed[c] = SubSeq(distributed[c], 1, Len(distributed[c]))
  BY ChainFacts
<1>4. PICK Since : Since = s.delegations .. Len(delegations)
  OBVIOUS
<1>5. \A n \in Since : n <= Len(delegations) /\ n \in Nat
  BY <1>4, ChainFacts DEF IsMoment
<1>6. Has(answers, "currentDelegation") => \E m \in Since : answers.currentDelegation = CurrentDelegation(m)
  BY <1>1, <1>2, <1>4, CallIs DEF Heard
<1>7. Has(answers, "delegateEvents") =>
       /\ Has(answers, "currentDelegation") /\ answers.currentDelegation # NOT_DELEGATED
       /\ \E m, n \in Since :
            /\ m <= n /\ answers.currentDelegation = CurrentDelegation(m)
            /\ answers.delegateEvents = DelegateEvents(n, answers.currentDelegation)
  <2>1. CASE name = "delegateEvents"
    <3>1. Has(got, "currentDelegation") /\ got.currentDelegation # NOT_DELEGATED
          /\ answers.currentDelegation = got.currentDelegation
          /\ answers.delegateEvents = DelegateEvents(Len(delegations), got.currentDelegation)
      BY <1>1, <2>1, CallIs
    <3>2. PICK m \in Since : got.currentDelegation = CurrentDelegation(m)
      BY <1>4, <3>1 DEF Heard
    <3> QED
      BY <1>1, <1>2, <1>4, <1>5, <3>1, <3>2
  <2>2. CASE name # "delegateEvents"
    <3>1. Has(answers, "delegateEvents") => Has(got, "delegateEvents")
      BY <1>1, <2>2
    <3>2. Has(got, "delegateEvents") =>
       /\ Has(got, "currentDelegation") /\ got.currentDelegation # NOT_DELEGATED
       /\ \E m, n \in Since :
            /\ m <= n /\ got.currentDelegation = CurrentDelegation(m)
            /\ got.delegateEvents = DelegateEvents(n, got.currentDelegation)
      BY <1>4 DEF Heard
    <3> QED
      BY <1>1, <3>1, <3>2
  <2> QED
    BY <2>1, <2>2
<1>8. Has(answers, "transferEvents") => \E n \in Since : answers.transferEvents = TransferEvents(n)
  BY <1>1, <1>2, <1>4, CallIs DEF Heard
<1>9. /\ Has(answers, "currentVote") => answers.currentVote \in s.votedAt .. votedAt
      /\ Has(answers, "upcoming") =>
           \E b \in s.block .. block : answers.upcoming = ReadUpcomingElectionBlockNumber(b)
  <2>1. /\ Has(got, "currentVote") => got.currentVote \in s.votedAt .. votedAt
        /\ Has(got, "upcoming") => \E b \in s.block .. block : got.upcoming = ReadUpcomingElectionBlockNumber(b)
    BY DEF Heard
  <2>2. Call("currentVote", got) = votedAt /\ Call("upcoming", got) = ReadUpcomingElectionBlockNumber(block)
    BY CallIs
  <2> QED
    BY ONLY <1>1, <1>2, <2>1, <2>2
<1>10. \A n \in OrbsNumbers : Has(answers, n) => \E e \in s.election .. election : answers[n] = Results[e][n]
  <2> SUFFICES ASSUME NEW n \in OrbsNumbers, Has(answers, n)
               PROVE  \E e \in s.election .. election : answers[n] = Results[e][n]
    OBVIOUS
  <2>1. CASE Has(got, n)
    <3>1. \E e \in s.election .. election : got[n] = Results[e][n]
      BY <2>1 DEF Heard
    <3> QED
      BY ONLY <1>1, <2>1, <3>1
  <2>2. CASE n = name
    <3>1. answers[n] = Results[election][n]
      BY <1>1, <2>2, CallIs
    <3> QED
      BY <1>2, <3>1
  <2> QED
    BY <1>1, <2>1, <2>2
<1>11. Has(answers, "elected") => \E e \in s.election .. election : answers.elected = FlattenSeq(Results[e].elected)
  BY <1>1, <1>2, CallIs DEF Heard
<1>12. Has(answers, "distributions") =>
       \E n \in s.distributed[1] .. Len(distributed[1]) : answers.distributions = SubSeq(distributed[1], 1, n)
  <2>1. CASE Has(got, "distributions")
    <3>1. answers.distributions = got.distributions
      BY <1>1, <2>1
    <3> QED
      BY <2>1, <3>1 DEF Heard
  <2>2. CASE name = "distributions"
    <3>1. answers.distributions = distributed[1]
      BY <1>1, <2>2, CallIs
    <3>2. distributed[1] = SubSeq(distributed[1], 1, Len(distributed[1]))
          /\ Len(distributed[1]) \in s.distributed[1] .. Len(distributed[1])
      BY <1>2, <1>3
    <3> QED
      BY ONLY <3>1, <3>2
  <2> QED
    BY <1>1, <2>1, <2>2
<1>13. Has(answers, "distributionsForStaking") =>
       \E n \in s.distributed[2] .. Len(distributed[2]) :
         answers.distributionsForStaking = SubSeq(distributed[2], 1, n)
  <2>1. CASE Has(got, "distributionsForStaking")
    <3>1. answers.distributionsForStaking = got.distributionsForStaking
      BY <1>1, <2>1
    <3> QED
      BY <2>1, <3>1 DEF Heard
  <2>2. CASE name = "distributionsForStaking"
    <3>1. answers.distributionsForStaking = distributed[2]
      BY <1>1, <2>2, CallIs
    <3>2. distributed[2] = SubSeq(distributed[2], 1, Len(distributed[2]))
          /\ Len(distributed[2]) \in s.distributed[2] .. Len(distributed[2])
      BY <1>2, <1>3
    <3> QED
      BY ONLY <3>1, <3>2
  <2> QED
    BY <1>1, <2>1, <2>2
<1> QED
  BY <1>4, <1>6, <1>7, <1>8, <1>9, <1>10, <1>11, <1>12, <1>13 DEF Heard

LEMMA CallIsAnswered ==
  ASSUME ReadsInv, AnswerCall
  PROVE  ReadsInv'
<1>1. ChainTyped' /\ ChainGrows /\ ChainTyped /\ answer' = answer /\ AnswerIsOfItsTime /\ read # NoRead
  BY ChainStays DEF AnswerCall, ReadsInv
<1>2. PICK s, got, kind : s = read.start /\ got = read.got /\ kind = read.kind
  OBVIOUS
<1>3. kind \in Kinds /\ IsMoment(s) /\ Heard(s, got) /\ DOMAIN read = {"kind", "start", "got"}
  BY <1>1, <1>2 DEF ReadsInv, ReadIsHeard
<1>4. PICK name \in Waiting(kind, got) :
         read' = [read EXCEPT !.got = [n \in DOMAIN got \cup {name} |-> IF n = name THEN Call(name, got) ELSE got[n]]]
  BY <1>2 DEF AnswerCall
<1>5. PICK answers : answers = [n \in DOMAIN got \cup {name} |-> IF n = name THEN Call(name, got) ELSE got[n]]
  OBVIOUS
<1>6. /\ name \in CallNames
      /\ name = "delegateEvents" => Has(got, "currentDelegation") /\ got.currentDelegation # NOT_DELEGATED
      /\ kind = "selectedGuardian" /\ name = "transferEvents" =>
           Has(got, "currentDelegation") /\ got.currentDelegation = NOT_DELEGATED
  BY <1>3, CallsAreKnown
<1>7. name \notin DOMAIN got
  BY DEF Waiting
<1>8. Heard(s, answers)
  BY <1>1, <1>3, <1>5, <1>6, <1>7, AnswerIsHeard
<1>9. Heard(s, answers)' /\ IsMoment(s)'
  BY <1>1, <1>3, <1>8, HeardStays, MomentStays
<1>10. DOMAIN read' = {"kind", "start", "got"} /\ read'.kind = kind /\ read'.start = s /\ read'.got = answers
       /\ read' # NoRead
  <2>1. read' = [read EXCEPT !.got = answers]
    BY <1>4, <1>5
  <2> QED
    BY <1>2, <1>3, <2>1 DEF NoRead
<1>11. (kind = "selectedGuardian" /\ Has(answers, "transferEvents")) =>
          Has(answers, "currentDelegation") /\ answers.currentDelegation = NOT_DELEGATED
  <2>1. /\ \A n : Has(answers, n) <=> Has(got, n) \/ n = name
        /\ \A n : Has(got, n) => answers[n] = got[n]
    BY <1>5, <1>7 DEF Has
  <2>2. (kind = "selectedGuardian" /\ Has(got, "transferEvents")) =>
          Has(got, "currentDelegation") /\ got.currentDelegation = NOT_DELEGATED
    BY <1>1, <1>2 DEF ReadsInv, ReadIsHeard
  <2> QED
    BY <1>6, <2>1, <2>2
<1>12. ReadIsHeard'
  BY <1>3, <1>9, <1>10, <1>11 DEF ReadIsHeard
<1>13. AnswerIsOfItsTime'
  BY <1>1, AnswerStays
<1> QED
  BY <1>1, <1>12, <1>13 DEF ReadsInv

-----------------------------------------------------------------------------
(* Reads: a delegation read around one event.                               *)

LEMMA LastOf ==
  ASSUME NEW n \in Nat, NEW S \in SUBSET (1 .. n), S # {}
  PROVE  /\ Max(S) \in S /\ Max(S) \in 1 .. n
         /\ \A m \in S : (\A k \in S : k <= m) => Max(S) = m
<1>1. S \in SUBSET Nat /\ \A k \in S : k <= n
  OBVIOUS
<1>2. Max(S) \in S /\ \A k \in S : k <= Max(S)
  BY <1>1, GreatestNumber
<1>3. ASSUME NEW m \in S, \A k \in S : k <= m PROVE Max(S) = m
  <2>1. Max(S) \in Nat /\ m \in Nat /\ Max(S) <= m /\ m <= Max(S)
    BY <1>1, <1>2, <1>3
  <2> QED
    BY ONLY <2>1
<1> QED
  BY <1>2, <1>3

LEMMA AllAreVisible ==
  ASSUME ChainTyped, NEW n \in 0 .. Len(delegations), NEW S \in SUBSET (1 .. n)
  PROVE  LastVisible(S) = IF S = {} THEN [to |-> NOT_DELEGATED, block |-> 0]
                          ELSE [to |-> delegations[Max(S)].to, block |-> delegations[Max(S)].block]
<1>1. \A i \in S : i \in DOMAIN delegations
  BY ChainFacts
<1>2. {i \in S : delegations[i].block >= EarliestBlock} = S
  BY <1>1, ChainFacts
<1> QED
  BY <1>2 DEF LastVisible

LEMMA DelegatesOf ==
  ASSUME ChainTyped, NEW n \in 0 .. Len(delegations)
  PROVE  /\ n \in Nat /\ Delegates(n) \in SUBSET (1 .. n) /\ Transfers(n) \in SUBSET (1 .. n)
         /\ \A i \in 1 .. n : i \in DOMAIN delegations /\ delegations[i].to # NOT_DELEGATED
<1>1. n \in Nat /\ 1 .. n \subseteq 1 .. Len(delegations)
  BY ChainFacts
<1>2. DOMAIN delegations = 1 .. Len(delegations) /\ \A i \in DOMAIN delegations : delegations[i].to # NOT_DELEGATED
  BY ChainFacts
<1> QED
  BY <1>1, <1>2 DEF Delegates, Transfers

LEMMA NextEvent ==
  ASSUME ChainTyped, NEW n \in Nat, n + 1 <= Len(delegations)
  PROVE  \/ Delegates(n + 1) = Delegates(n) \cup {n + 1} /\ Transfers(n + 1) = Transfers(n)
         \/ Delegates(n + 1) = Delegates(n) /\ Transfers(n + 1) = Transfers(n) \cup {n + 1}
<1>1. delegations[n + 1].kind \in {"Delegate", "Transfer"}
  <2>1. n + 1 \in 1 .. Len(delegations)
    BY ChainFacts
  <2> QED
    BY <2>1, ChainFacts
<1>2. 1 .. n + 1 = (1 .. n) \cup {n + 1}
  OBVIOUS
<1>3. CASE delegations[n + 1].kind = "Delegate"
  BY <1>2, <1>3 DEF Delegates, Transfers
<1>4. CASE delegations[n + 1].kind = "Transfer"
  BY <1>2, <1>4 DEF Delegates, Transfers
<1> QED
  BY <1>1, <1>3, <1>4

(* The transfers of an account that never delegated.                        *)
LEMMA TransfersSeen ==
  ASSUME ChainTyped, NEW n \in 0 .. Len(delegations), Delegates(n) = {}
  PROVE  /\ MirroredDelegation(n).to = TransferEvents(n).to
         /\ MirroredDelegation(n).block = TransferEvents(n).block
         /\ MirroredDelegation(n).type = IF TransferEvents(n).to # NOT_DELEGATED THEN "Transfer" ELSE "Not-Delegated"
<1> DEFINE counted == {i \in Transfers(n) : delegations[i].value = "0.07"}
<1>1. counted \in SUBSET (1 .. n) /\ n \in Nat
  BY DelegatesOf
<1>2. TransferEvents(n) = IF counted = {} THEN [to |-> NOT_DELEGATED, block |-> 0]
                          ELSE [to |-> delegations[Max(counted)].to, block |-> delegations[Max(counted)].block]
  <2>1. TransferEvents(n) = LastVisible(counted)
    BY DEF TransferEvents
  <2> HIDE DEF counted
  <2> QED
    BY <1>1, <2>1, AllAreVisible
<1>3. MirroredDelegation(n) =
        IF counted # {} THEN [type |-> "Transfer", to |-> delegations[Max(counted)].to, block |-> delegations[Max(counted)].block]
        ELSE [type |-> "Not-Delegated", to |-> NOT_DELEGATED, block |-> 0]
  BY DEF MirroredDelegation
<1>4. counted # {} => delegations[Max(counted)].to # NOT_DELEGATED
  <2> HIDE DEF counted
  <2> QED
    BY <1>1, LastOf, DelegatesOf
<1> HIDE DEF counted
<1>5. CASE counted = {}
  BY <1>2, <1>3, <1>5
<1>6. CASE counted # {}
  BY <1>2, <1>3, <1>4, <1>6
<1> QED
  BY <1>5, <1>6

LEMMA DelegateSeen ==
  ASSUME ChainTyped, NEW n \in 0 .. Len(delegations), CurrentDelegation(n) # NOT_DELEGATED
  PROVE  /\ Delegates(n) # {} /\ Max(Delegates(n)) \in Delegates(n)
         /\ CurrentDelegation(n) = delegations[Max(Delegates(n))].to
         /\ MirroredDelegation(n).type = "Delegate"
         /\ MirroredDelegation(n).to = delegations[Max(Delegates(n))].to
         /\ MirroredDelegation(n).block = delegations[Max(Delegates(n))].block
         /\ \A k \in Delegates(n) : k <= Max(Delegates(n))
<1>1. Delegates(n) # {} /\ CurrentDelegation(n) = delegations[Max(Delegates(n))].to
  BY DEF CurrentDelegation
<1>2. Delegates(n) \in SUBSET Nat /\ n \in Nat /\ \A k \in Delegates(n) : k <= n
  BY DelegatesOf
<1>3. Max(Delegates(n)) \in Delegates(n) /\ \A k \in Delegates(n) : k <= Max(Delegates(n))
  BY <1>1, <1>2, GreatestNumber
<1> QED
  BY <1>1, <1>3 DEF MirroredDelegation

(* An account never said to undelegate has a Delegate event or is not       *)
(* delegating.                                                              *)
LEMMA NeverDelegated ==
  ASSUME ChainTyped, NEW n \in 0 .. Len(delegations), CurrentDelegation(n) = NOT_DELEGATED,
         \A i \in 1 .. n : delegations[i].to # Me
  PROVE  Delegates(n) = {}
<1>1. ASSUME Delegates(n) # {} PROVE FALSE
  <2>1. Max(Delegates(n)) \in 1 .. n
    BY <1>1, DelegatesOf, LastOf
  <2>2. delegations[Max(Delegates(n))].to # Me /\ delegations[Max(Delegates(n))].to # NOT_DELEGATED
    BY <2>1, DelegatesOf
  <2> QED
    BY <1>1, <2>2 DEF CurrentDelegation
<1> QED
  BY <1>1

LEMMA TransfersAreOfTheRead ==
  ASSUME ChainTyped, NEW from \in Nat, NEW upto \in from .. Len(delegations), upto <= from + 1,
         \A i \in 1 .. upto : delegations[i].to # Me,
         NEW m \in from .. upto, NEW n \in from .. upto, CurrentDelegation(m) = NOT_DELEGATED
  PROVE  \E k \in from .. upto :
           /\ MirroredDelegation(k).to = TransferEvents(n).to
           /\ MirroredDelegation(k).block = TransferEvents(n).block
           /\ MirroredDelegation(k).type = IF TransferEvents(n).to # NOT_DELEGATED THEN "Transfer" ELSE "Not-Delegated"
<1>0. /\ Len(delegations) \in Nat /\ m \in 0 .. Len(delegations) /\ n \in 0 .. Len(delegations)
      /\ m \in Nat /\ n \in Nat /\ upto \in Nat
      /\ n = m \/ (m = from /\ n = from + 1 /\ n <= Len(delegations)) \/ (n = from /\ m = from + 1 /\ m <= Len(delegations))
  <2>1. Len(delegations) \in Nat
    BY ChainFacts
  <2> QED
    BY <2>1
<1>1. Delegates(m) = {}
  <2>1. \A i \in 1 .. m : delegations[i].to # Me
    BY <1>0
  <2> QED
    BY <1>0, <2>1, NeverDelegated
<1>2. CASE Delegates(n) = {}
  BY <1>0, <1>2, TransfersSeen
<1>3. CASE Delegates(n) # {}
  <2>1. m = from /\ n = from + 1 /\ n <= Len(delegations)
    <3>1. ASSUME n = from, m = from + 1, m <= Len(delegations) PROVE FALSE
      <4>1. Delegates(n) \subseteq Delegates(m)
        BY <1>0, <3>1, NextEvent
      <4> QED
        BY <1>1, <1>3, <4>1
    <3> QED
      BY <1>0, <1>1, <1>3, <3>1
  <2>2. Transfers(n) = Transfers(m)
    <3>1. \/ Delegates(n) = Delegates(m) \cup {n} /\ Transfers(n) = Transfers(m)
          \/ Delegates(n) = Delegates(m) /\ Transfers(n) = Transfers(m) \cup {n}
      BY <2>1, NextEvent
    <3> QED
      BY <1>1, <1>3, <3>1
  <2>3. TransferEvents(n) = TransferEvents(m)
    BY <2>2 DEF TransferEvents
  <2> QED
    BY <1>0, <1>1, <2>3, TransfersSeen
<1> QED
  BY <1>2, <1>3

LEMMA DelegateIsOfTheRead ==
  ASSUME ChainTyped, NEW from \in Nat, NEW upto \in from .. Len(delegations), upto <= from + 1,
         NEW m \in from .. upto, NEW n \in from .. upto, m <= n, CurrentDelegation(m) # NOT_DELEGATED
  PROVE  /\ DelegateEvents(n, CurrentDelegation(m)).to = CurrentDelegation(m)
         /\ \E k \in from .. upto :
              /\ MirroredDelegation(k).type = "Delegate"
              /\ MirroredDelegation(k).to = CurrentDelegation(m)
              /\ MirroredDelegation(k).block = DelegateEvents(n, CurrentDelegation(m)).block
<1>0. /\ Len(delegations) \in Nat /\ m \in 0 .. Len(delegations) /\ n \in 0 .. Len(delegations)
      /\ m \in Nat /\ n \in Nat
      /\ n = m \/ (n = m + 1 /\ n <= Len(delegations))
  <2>1. Len(delegations) \in Nat
    BY ChainFacts
  <2> QED
    BY <2>1
<1> DEFINE to == CurrentDelegation(m)
           d == Max(Delegates(m))
           S == {i \in Delegates(n) : delegations[i].to = to}
<1>1. /\ Delegates(m) # {} /\ d \in Delegates(m) /\ to = delegations[d].to
      /\ MirroredDelegation(m).type = "Delegate" /\ MirroredDelegation(m).to = to
      /\ MirroredDelegation(m).block = delegations[d].block
      /\ \A k \in Delegates(m) : k <= d
  BY <1>0, DelegateSeen
<1>2. S \in SUBSET (1 .. n) /\ Delegates(n) \in SUBSET (1 .. n)
  BY <1>0, DelegatesOf
<1>3. S # {} => /\ DelegateEvents(n, to).to = delegations[Max(S)].to
                /\ DelegateEvents(n, to).block = delegations[Max(S)].block
                /\ Max(S) \in S
  <2>1. DelegateEvents(n, to) = LastVisible(S)
    BY DEF DelegateEvents
  <2> HIDE DEF S, to
  <2>2. LastVisible(S) = IF S = {} THEN [to |-> NOT_DELEGATED, block |-> 0]
                          ELSE [to |-> delegations[Max(S)].to, block |-> delegations[Max(S)].block]
    BY <1>0, <1>2, AllAreVisible
  <2>3. S # {} => Max(S) \in S
    BY <1>0, <1>2, LastOf
  <2> QED
    BY <2>1, <2>2, <2>3
<1>4. n # m => \/ Delegates(n) = Delegates(m) \cup {n}
               \/ Delegates(n) = Delegates(m)
  BY <1>0, NextEvent
<1>5. d \in S
  BY <1>1, <1>4
<1>6. CASE \A k \in S : k <= d
  <2>1. Max(S) = d
    <3> HIDE DEF S, d
    <3> QED
      BY <1>0, <1>2, <1>5, <1>6, LastOf
  <2>2. m \in from .. upto
    OBVIOUS
  <2> HIDE DEF S, d, to
  <2>3. DelegateEvents(n, to).to = to /\ DelegateEvents(n, to).block = delegations[d].block
    BY <1>1, <1>3, <1>5, <2>1
  <2> QED
    BY <1>1, <2>2, <2>3 DEF to
<1>7. CASE ~(\A k \in S : k <= d)
  <2>1. n # m /\ Delegates(n) = Delegates(m) \cup {n} /\ n \in S /\ ~(n <= d)
    BY <1>1, <1>4, <1>7
  <2>2. \A k \in Delegates(n) : k <= n
    BY <1>0, <1>2
  <2>3. Max(S) = n /\ Max(Delegates(n)) = n
    <3>1. n \in Delegates(n) /\ \A k \in S : k \in Delegates(n)
      BY <2>1
    <3> HIDE DEF S
    <3> QED
      BY <1>0, <1>2, <2>1, <2>2, <3>1, LastOf
  <2>4. delegations[n].to = to
    BY <2>1
  <2>5. MirroredDelegation(n).type = "Delegate" /\ MirroredDelegation(n).to = to
        /\ MirroredDelegation(n).block = delegations[n].block
    BY <2>1, <2>3, <2>4 DEF MirroredDelegation
  <2> HIDE DEF S, d, to
  <2>6. DelegateEvents(n, to).to = to /\ DelegateEvents(n, to).block = delegations[n].block
    BY <1>3, <2>1, <2>3, <2>4
  <2>7. n \in from .. upto
    OBVIOUS
  <2> QED
    BY <2>5, <2>6, <2>7 DEF to
<1> QED
  BY <1>6, <1>7

-----------------------------------------------------------------------------
(* Reads: the upcoming election.                                            *)

LEMMA UpcomingElection ==
  ASSUME NEW b, Late(b)
  PROVE  /\ ReadUpcomingElectionBlockNumber(b) \in Nat /\ ReadUpcomingElectionBlockNumber(b) >= b
         /\ ReadUpcomingElectionBlockNumber(b) =
              CHOOSE e \in b .. (b + INTERVAL_BETWEEN_ELECTIONS - 1) :
                (e - FIRST_ELECTION_BLOCK_HEIGHT) % INTERVAL_BETWEEN_ELECTIONS = 0
<1>1. PICK f, i : f = FIRST_ELECTION_BLOCK_HEIGHT /\ i = INTERVAL_BETWEEN_ELECTIONS
  OBVIOUS
<1>2. f \in Nat /\ i \in Nat \ {0} /\ b \in Nat /\ b > f
  BY <1>1, PosDataAssumption DEF Late
<1> DEFINE S == {n \in 1 .. (b + 1) : f + i * n >= b}
<1>3. ReadUpcomingElectionBlockNumber(b) = f + i * Min(S)
  BY <1>1 DEF ReadUpcomingElectionBlockNumber
<1>4. S \in SUBSET Nat /\ S # {}
  <2>1. \A n \in Nat : i * n >= n
    BY <1>2
  <2>2. b + 1 \in Nat /\ b + 1 \in 1 .. (b + 1) /\ i * (b + 1) >= b + 1 /\ i * (b + 1) \in Nat
    BY <1>2, <2>1
  <2>3. f + i * (b + 1) >= b
    BY <1>2, <2>2
  <2> QED
    BY <2>2, <2>3
<1>5. Min(S) \in S /\ \A n \in S : Min(S) <= n
  <2> HIDE DEF S
  <2> QED
    BY <1>4, SmallestNumber
<1>6. PICK m : m = Min(S)
  OBVIOUS
<1>7. m \in 1 .. (b + 1) /\ f + i * m >= b /\ \A n \in S : m <= n
  BY <1>5, <1>6
<1>8. f + i * (m - 1) < b
  <2>1. CASE m = 1
    <3>1. m - 1 = 0 /\ i * 0 = 0
      BY <1>2, <2>1
    <3> QED
      BY <1>2, <3>1
  <2>2. CASE m # 1
    <3>1. m - 1 \in 1 .. (b + 1) /\ ~(m <= m - 1)
      BY <1>2, <1>7, <2>2
    <3>2. ~(f + i * (m - 1) >= b)
      BY <1>7, <3>1
    <3>3. i * (m - 1) \in Int
      BY <1>2, <3>1
    <3> QED
      BY <1>2, <3>2, <3>3
  <2> QED
    BY <2>1, <2>2
<1> HIDE DEF S
<1>9. i * m \in Nat /\ i * m = i * (m - 1) + i /\ i * (m - 1) \in Int
  BY <1>2, <1>7
<1>10. f + i * m \in b .. (b + i - 1)
  BY <1>2, <1>7, <1>8, <1>9
<1>11. ((f + i * m) - f) % i = 0
  <2>1. (f + i * m) - f = 0 + i * m /\ m \in Int /\ i * m \in Int
    BY <1>2, <1>7, <1>9
  <2>2. PICK x, zero : x = i * m /\ zero = 0
    OBVIOUS
  <2>3. x \in Int /\ zero \in Int /\ x = zero + i * m
    BY <2>1, <2>2
  <2>4. x % i = zero % i
    BY ONLY <1>2, <2>1, <2>3, SameRemainder, Zenon
  <2>5. zero % i = 0
    BY <1>2, <2>2
  <2>6. (f + i * m) - f = x
    BY <2>1, <2>2, <2>3
  <2> QED
    BY <2>4, <2>5, <2>6
<1>12. ASSUME NEW e \in b .. (b + i - 1), (e - f) % i = 0 PROVE e = f + i * m
  <2>1. PICK x \in Int : x = e - f
    BY <1>2
  <2>2. PICK q \in Int : x = i * q + (x % i)
    BY <1>2, <2>1, DivisionOf
  <2>3. x = i * q
    <3>1. x % i = 0 /\ i * q \in Int
      BY <1>2, <1>12, <2>1
    <3> QED
      BY <2>2, <3>1
  <2>4. m \in Int /\ i * (q - m) = i * q - i * m
    BY <1>2, <1>7
  <2>5. i * (q - m) = e - (f + i * m)
    BY <1>2, <1>9, <2>1, <2>3, <2>4
  <2>6. i * (q - m) < i /\ -i < i * (q - m)
    BY <1>2, <1>9, <1>10, <2>5
  <2>7. q - m = 0
    <3>1. q - m \in Int
      BY <2>4
    <3> QED
      BY ONLY <1>2, <2>6, <3>1, NoMultipleBetween
  <2>8. i * (q - m) = 0
    BY <1>2, <2>7
  <2> QED
    BY <1>2, <1>9, <2>5, <2>8
<1>13. (CHOOSE e \in b .. (b + i - 1) : (e - f) % i = 0) = f + i * m
  BY ONLY <1>10, <1>11, <1>12
<1> QED
  BY <1>1, <1>2, <1>3, <1>6, <1>7, <1>9, <1>13

LEMMA EligibleVotesAreCounted ==
  ASSUME NEW b, Late(b), NEW vote \in Nat, NEW upcoming, upcoming = ReadUpcomingElectionBlockNumber(b)
  PROVE  HasEligibleVote(vote, upcoming) <=> (vote # 0 /\ vote >= upcoming - (VALID_VOTE_LENGTH - 1))
<1>1. upcoming \in Nat /\ upcoming >= b /\ b \in Nat /\ b >= VALID_VOTE_LENGTH /\ VALID_VOTE_LENGTH \in Nat
  BY UpcomingElection, PosDataAssumption DEF Late
<1> QED
  BY ONLY <1>1, vote \in Nat DEF HasEligibleVote

-----------------------------------------------------------------------------
(* Reads: lists cut into pieces of one length.                              *)

LEMMA Multiples ==
  ASSUME NEW l \in Nat \ {0}, NEW i \in Nat, NEW n \in Nat, NEW j \in 1 .. l
  PROVE  /\ l * (n + 1) = l * n + l /\ l * n \in Nat /\ l * i \in Nat
         /\ i < n => l * i + j \in 1 .. l * n
<1>1. l * (n + 1) = l * n + l /\ l * n \in Nat /\ l * i \in Nat
  OBVIOUS
<1>2. ASSUME i < n PROVE l * i + j \in 1 .. l * n
  <2>1. PICK k \in Nat : n = (i + 1) + k
    <3>1. n - (i + 1) \in Nat /\ n = (i + 1) + (n - (i + 1))
      BY <1>2
    <3> QED
      BY <3>1
  <2>2. l * n = (l * i + l) + l * k /\ l * k \in Nat
    BY <2>1
  <2> QED
    BY <1>1, <2>2
<1> QED
  BY <1>1, <1>2

LEMMA QuotientOfMultiple ==
  ASSUME NEW l \in Nat \ {0}, NEW n \in Nat
  PROVE  (l * n) \div l = n
<1>1. PICK x, d, r : x \in Int /\ x = l * n /\ d = x \div l /\ r = x % l
  OBVIOUS
<1>2. x = l * d + r /\ r \in 0 .. l - 1 /\ d \in Int
  BY <1>1, DivisionOf
<1>3. PICK m \in Int : m = n - d
  BY <1>2
<1>4. l * m = x - l * d
  <2>1. l * (n - d) = l * n - l * d
    BY <1>2
  <2> QED
    BY <1>1, <1>3, <2>1
<1>5. l * m = r
  <2>1. l * d \in Int
    BY <1>2
  <2> QED
    BY <1>2, <1>4, <2>1
<1>6. l * m < l /\ -l < l * m
  BY <1>2, <1>5
<1>7. m = 0
  BY ONLY <1>6, <1>3, l \in Nat \ {0}, NoMultipleBetween
<1> QED
  BY <1>1, <1>2, <1>3, <1>7

IsJoined(data, q, l, n) ==
  /\ data \in Seq(Nat) /\ Len(data) = l * n
  /\ \A i \in 1 .. n, j \in 1 .. l : data[l * (i - 1) + j] = q[i][j]

LEMMA JoinedPieces ==
  ASSUME NEW q \in Seq(Seq(Nat)), NEW l \in Nat \ {0}, \A i \in DOMAIN q : Len(q[i]) = l, NEW F, JoinedStepwise(F, q)
  PROVE  \A n \in 1 .. Len(q) : IsJoined(F[n], q, l, n)
<1> DEFINE Upto(n) == /\ F[n] \in Seq(Nat) /\ Len(F[n]) = l * n
                      /\ \A i \in 1 .. n, j \in 1 .. l : F[n][l * (i - 1) + j] = q[i][j]
           Good == {n \in Nat : n + 1 <= Len(q) => Upto(n + 1)}
<1>0. /\ Len(q) \in Nat /\ \A i \in 1 .. Len(q) : q[i] \in Seq(Nat) /\ Len(q[i]) = l /\ i \in DOMAIN q
      /\ \A i \in 1 .. Len(q) : F[i] = IF i = 1 THEN q[i] ELSE F[i - 1] \o q[i]
  BY DEF JoinedStepwise
<1>1. ASSUME 1 <= Len(q) PROVE Upto(1)
  <2>1. 1 \in 1 .. Len(q) /\ F[1] = q[1] /\ q[1] \in Seq(Nat) /\ Len(q[1]) = l
    BY <1>0, <1>1
  <2>2. \A i \in 1 .. 1, j \in 1 .. l : i = 1 /\ l * (i - 1) + j = j
    OBVIOUS
  <2>3. l * 1 = l
    OBVIOUS
  <2> QED
    BY <2>1, <2>2, <2>3
<1>2. ASSUME NEW n \in Nat, n + 1 <= Len(q), n # 0, Upto(n) PROVE Upto(n + 1)
  <2>1. /\ n + 1 \in 1 .. Len(q) /\ F[n + 1] = F[n] \o q[n + 1] /\ q[n + 1] \in Seq(Nat) /\ Len(q[n + 1]) = l
    <3>1. n + 1 \in 1 .. Len(q) /\ n + 1 # 1 /\ (n + 1) - 1 = n
      BY <1>0, <1>2
    <3> QED
      BY <1>0, <3>1
  <2>2. PICK k \in Nat : k = l * n
    BY Multiples
  <2>3. F[n] \in Seq(Nat) /\ Len(F[n]) = k /\ l * (n + 1) = k + l
    BY <1>2, <2>2, Multiples
  <2>4. /\ F[n + 1] \in Seq(Nat) /\ Len(F[n + 1]) = k + l
        /\ \A p \in 1 .. k : F[n + 1][p] = F[n][p]
        /\ \A j \in 1 .. l : F[n + 1][k + j] = q[n + 1][j]
    <3>1. PICK u, v : u = F[n] /\ v = q[n + 1]
      OBVIOUS
    <3>2. u \in Seq(Nat) /\ v \in Seq(Nat) /\ Len(u) = k /\ Len(v) = l /\ k \in Nat /\ l \in Nat
      BY <2>1, <2>3, <3>1
    <3>3. /\ u \o v \in Seq(Nat) /\ Len(u \o v) = k + l
          /\ \A p \in 1 .. k : (u \o v)[p] = u[p]
          /\ \A j \in 1 .. l : (u \o v)[k + j] = v[j]
      <4>1. /\ u \o v \in Seq(Nat) /\ Len(u \o v) = k + l
            /\ \A p \in 1 .. k + l : (u \o v)[p] = IF p <= k THEN u[p] ELSE v[p - k]
        BY ONLY <3>2, ConcatProperties
      <4>2. \A p \in 1 .. k : p \in 1 .. k + l /\ p <= k
        BY ONLY <3>2
      <4>3. \A j \in 1 .. l : k + j \in 1 .. k + l /\ ~(k + j <= k) /\ (k + j) - k = j
        BY ONLY <3>2
      <4> QED
        BY ONLY <4>1, <4>2, <4>3
    <3> QED
      BY <2>1, <3>1, <3>3
  <2>5. ASSUME NEW i \in 1 .. n + 1, NEW j \in 1 .. l PROVE F[n + 1][l * (i - 1) + j] = q[i][j]
    <3>1. CASE i = n + 1
      <4>1. l * (i - 1) = k
        BY <2>2, <3>1
      <4> QED
        BY <2>4, <3>1, <4>1
    <3>2. CASE i # n + 1
      <4>1. i \in 1 .. n /\ i - 1 \in Nat /\ i - 1 < n
        BY <3>2
      <4>2. l * (i - 1) + j \in 1 .. k
        BY <2>2, <4>1, Multiples
      <4>3. F[n][l * (i - 1) + j] = q[i][j]
        BY <1>2, <4>1
      <4> QED
        BY <2>4, <4>2, <4>3
    <3> QED
      BY <3>1, <3>2
  <2> QED
    BY <2>3, <2>4, <2>5
<1> HIDE DEF Upto
<1>3. 0 \in Good
  BY <1>1
<1>4. ASSUME NEW n \in Nat, n \in Good PROVE n + 1 \in Good
  <2> SUFFICES ASSUME (n + 1) + 1 <= Len(q) PROVE Upto((n + 1) + 1)
    OBVIOUS
  <2>1. n + 1 \in Nat /\ n + 1 # 0 /\ n + 1 <= Len(q)
    BY <1>0
  <2> QED
    BY <1>2, <1>4, <2>1
<1>5. \A n \in Nat : n \in Good
  <2> HIDE DEF Good
  <2> QED
    BY <1>3, <1>4, CountUp
<1>6. \A n \in 1 .. Len(q) : Upto(n)
  <2> TAKE n \in 1 .. Len(q)
  <2>1. n - 1 \in Nat /\ (n - 1) + 1 = n
    BY <1>0
  <2>2. n - 1 \in Good
    BY <1>5, <2>1
  <2> QED
    BY <1>0, <2>1, <2>2
<1> QED
  BY <1>6 DEF Upto, IsJoined

LEMMA CutAgain ==
  ASSUME NEW q \in Seq(Seq(Nat)), \A i \in DOMAIN q : Len(q[i]) = ADDRESS_LENGTH
  PROVE  ElectedValidators(FlattenSeq(q)) = q
<1>1. PICK l, n, data : l = ADDRESS_LENGTH /\ n = Len(q) /\ data = FlattenSeq(q)
  OBVIOUS
<1>2. /\ l \in Nat \ {0} /\ n \in Nat /\ DOMAIN q = 1 .. n /\ \A i \in 1 .. n : q[i] \in Seq(Nat) /\ Len(q[i]) = l
      /\ q = [i \in 1 .. n |-> q[i]]
  BY <1>1, PosDataAssumption
<1>3. Len(data) = l * n /\ data \in Seq(Nat)
      /\ \A i \in 1 .. n, j \in 1 .. l : data[l * (i - 1) + j] = q[i][j]
  <2>1. CASE n = 0
    <3>1. q = <<>>
      BY <1>1, <2>1, EmptySeq
    <3>2. FlattenSeq(q) = q
      BY <3>1, Zenon DEF FlattenSeq
    <3>3. data = <<>> /\ Len(data) = 0 /\ data \in Seq(Nat)
      <4>1. data = <<>>
        BY ONLY <1>1, <3>1, <3>2, Zenon
      <4> QED
        BY ONLY <4>1, EmptySeq
    <3>4. l * n = 0 /\ \A i \in 1 .. n : FALSE
      BY <1>2, <2>1
    <3> QED
      BY <3>3, <3>4
  <2>2. CASE n # 0
    <3>1. PICK F : JoinedStepwise(F, q) /\ data = F[n]
      BY <1>1, <2>2, FlattenSteps
    <3>2. n \in 1 .. Len(q)
      BY <1>1, <1>2, <2>2
    <3>3. /\ F[n] \in Seq(Nat) /\ Len(F[n]) = l * n
          /\ \A i \in 1 .. n, j \in 1 .. l : F[n][l * (i - 1) + j] = q[i][j]
      <4>1. JoinedStepwise(F, q) /\ n = Len(q) /\ l \in Nat \ {0} /\ \A i \in DOMAIN q : Len(q[i]) = l
        BY <1>1, <1>2, <3>1
      <4>2. q \in Seq(Seq(Nat))
        OBVIOUS
      <4>3. IsJoined(F[n], q, l, n)
        BY ONLY <3>2, <4>1, <4>2, JoinedPieces
      <4> QED
        BY <4>3 DEF IsJoined
    <3> QED
      BY <3>1, <3>3
  <2> QED
    BY <2>1, <2>2
<1>4. (l * n) \div l = n
  BY <1>2, QuotientOfMultiple, Zenon
<1>5. ASSUME NEW i \in 1 .. n PROVE SubSeq(data, (i - 1) * l + 1, i * l) = q[i]
  <2>1. PICK k \in Nat : k = l * (i - 1)
    <3>1. i - 1 \in Nat /\ 1 \in 1 .. l
      BY <1>2
    <3>2. l * (i - 1) \in Nat
      BY <1>2, <3>1, Multiples
    <3> QED
      BY <3>2
  <2>2. (i - 1) * l + 1 = k + 1 /\ i * l = k + l /\ k + l <= l * n /\ l * n \in Nat
    <3>1. (i - 1) * l = l * (i - 1) /\ i * l = l * (i - 1) + l
      BY <1>2
    <3>2. i - 1 \in Nat /\ i - 1 < n /\ l \in 1 .. l
      BY <1>2
    <3>3. l * (i - 1) + l \in 1 .. l * n /\ l * n \in Nat
      BY <1>2, <3>2, Multiples
    <3> QED
      BY <2>1, <3>1, <3>3
  <2>3. PICK s : s = SubSeq(data, k + 1, k + l)
    OBVIOUS
  <2>4. s \in Seq(Nat) /\ Len(s) = l /\ \A j \in 1 .. l : s[j] = data[k + j]
    <3>1. k + 1 \in 1 .. Len(data) + 1 /\ k + l \in k .. Len(data) /\ l \in Nat \ {0} /\ data \in Seq(Nat) /\ k \in Nat
      <4>1. PICK m \in Nat : m = Len(data)
        BY <1>3, LenProperties
      <4>2. k + l <= m /\ l \in Nat \ {0} /\ data \in Seq(Nat) /\ k \in Nat
        BY <1>2, <1>3, <2>2, <4>1
      <4>3. k + 1 \in 1 .. m + 1 /\ k + l \in k .. m
        BY ONLY <4>2, m \in Nat
      <4> QED
        BY <4>1, <4>2, <4>3
    <3>2. (k + l) - (k + 1) + 1 = l /\ \A j \in 1 .. l : ((k + 1) + j) - 1 = k + j
      BY <3>1
    <3>3. PICK from, upto : from = k + 1 /\ upto = k + l
      OBVIOUS
    <3>4. /\ from \in 1 .. Len(data) + 1 /\ upto \in from - 1 .. Len(data) /\ upto - from + 1 = l
          /\ \A j \in 1 .. l : from + j - 1 = k + j
      BY ONLY <3>1, <3>2, <3>3
    <3>5. s = SubSeq(data, from, upto)
      BY <2>3, <3>3
    <3>6. /\ s \in Seq(Nat) /\ Len(s) = upto - from + 1
          /\ \A j \in 1 .. (upto - from + 1) : s[j] = data[from + j - 1]
      <4>1. from \in Int /\ upto \in Int /\ from <= upto
        BY ONLY <3>1, <3>3
      <4>2. \A j \in from .. upto : data[j] \in Nat
        <5>1. \A j \in from .. upto : j \in 1 .. Len(data)
          BY ONLY <3>1, <3>3
        <5> QED
          BY ONLY <3>1, <5>1, ElementOfSeq
      <4> QED
        BY ONLY <3>5, <4>1, <4>2, SubSeqProperties
    <3> QED
      BY ONLY <3>4, <3>6
  <2>5. q[i] \in Seq(Nat) /\ Len(q[i]) = l /\ \A j \in 1 .. Len(s) : s[j] = q[i][j]
    BY <1>2, <1>3, <2>1, <2>4
  <2>6. s = q[i]
    BY ONLY <2>4, <2>5, SeqEqual
  <2> QED
    BY <2>2, <2>3, <2>6
<1>6. ElectedValidators(data) = [i \in 1 .. n |-> SubSeq(data, (i - 1) * l + 1, i * l)]
  BY <1>1, <1>3, <1>4 DEF ElectedValidators
<1> QED
  BY <1>1, <1>2, <1>5, <1>6

-----------------------------------------------------------------------------
(* Reads: what each kind of read resolves to.                               *)

Resolved(kind, s, got) ==
  /\ kind \in Kinds /\ IsMoment(s) /\ Heard(s, got)
  /\ \A i \in DOMAIN Awaits(kind, got) : Awaits(kind, got)[i] \subseteq DOMAIN got
  /\ (kind = "selectedGuardian" /\ Has(got, "transferEvents")) =>
       Has(got, "currentDelegation") /\ got.currentDelegation = NOT_DELEGATED

LEMMA DelegationResolved ==
  ASSUME ChainTyped, NEW s, NEW got, Resolved("delegation", s, got),
         Len(delegations) <= s.delegations + 1, \A i \in 1 .. Len(delegations) : delegations[i].to # Me
  PROVE  \E k \in s.delegations .. Len(delegations) :
           /\ DelegationInfo(got).type = MirroredDelegation(k).type
           /\ DelegationInfo(got).to = MirroredDelegation(k).to
           /\ DelegationInfo(got).block = MirroredDelegation(k).block
<1>1. PICK from, upto : from = s.delegations /\ upto = Len(delegations)
  OBVIOUS
<1>2. from \in Nat /\ upto \in from .. Len(delegations) /\ upto <= from + 1 /\ Heard(s, got)
  BY <1>1, ChainFacts DEF Resolved, IsMoment
<1>3. /\ Has(got, "currentDelegation")
      /\ got.currentDelegation # NOT_DELEGATED => Has(got, "delegateEvents")
      /\ ~IsDelegate(got) => Has(got, "transferEvents")
  <2>1. DOMAIN DelegationCalls(got) = 1 .. 4
    BY DEF DelegationCalls
  <2>2. \A i \in 1 .. 4 : DelegationCalls(got)[i] \subseteq DOMAIN got
    <3>1. Awaits("delegation", got) = DelegationCalls(got)
      BY AwaitsAre
    <3> QED
      BY <2>1, <3>1 DEF Resolved
  <2>3. /\ DelegationCalls(got)[1] = {"currentDelegation"}
        /\ DelegationCalls(got)[2] = When(Has(got, "currentDelegation") /\ got.currentDelegation # NOT_DELEGATED, {"delegateEvents"})
        /\ DelegationCalls(got)[3] = When(~IsDelegate(got), {"transferEvents"})
    BY DEF DelegationCalls
  <2>4. 1 \in 1 .. 4 /\ 2 \in 1 .. 4 /\ 3 \in 1 .. 4
    OBVIOUS
  <2>5. Has(got, "currentDelegation")
    BY <2>2, <2>3, <2>4 DEF Has
  <2>6. got.currentDelegation # NOT_DELEGATED => Has(got, "delegateEvents")
    BY <2>2, <2>3, <2>4, <2>5 DEF Has, When
  <2>7. ~IsDelegate(got) => Has(got, "transferEvents")
    BY <2>2, <2>3, <2>4 DEF Has, When
  <2> QED
    BY <2>5, <2>6, <2>7
<1>4. CASE got.currentDelegation # NOT_DELEGATED
  <2>1. Has(got, "delegateEvents")
    BY <1>3, <1>4
  <2>2. PICK m \in from .. upto, n \in from .. upto :
          /\ m <= n /\ got.currentDelegation = CurrentDelegation(m)
          /\ got.delegateEvents = DelegateEvents(n, got.currentDelegation)
    BY <1>1, <1>2, <2>1 DEF Heard
  <2>3. /\ got.delegateEvents.to = got.currentDelegation
        /\ \E k \in from .. upto :
              /\ MirroredDelegation(k).type = "Delegate"
              /\ MirroredDelegation(k).to = got.currentDelegation
              /\ MirroredDelegation(k).block = got.delegateEvents.block
    <3>1. CurrentDelegation(m) # NOT_DELEGATED /\ m <= n /\ upto <= from + 1
      BY <1>2, <1>4, <2>2
    <3>2. /\ DelegateEvents(n, CurrentDelegation(m)).to = CurrentDelegation(m)
          /\ \E k \in from .. upto :
              /\ MirroredDelegation(k).type = "Delegate"
              /\ MirroredDelegation(k).to = CurrentDelegation(m)
              /\ MirroredDelegation(k).block = DelegateEvents(n, CurrentDelegation(m)).block
      BY <1>2, <3>1, DelegateIsOfTheRead
    <3>3. got.currentDelegation = CurrentDelegation(m) /\ got.delegateEvents = DelegateEvents(n, CurrentDelegation(m))
      BY <2>2
    <3> QED
      BY ONLY <3>2, <3>3
  <2>4. IsDelegate(got)
    BY <1>4, <2>1, <2>3 DEF IsDelegate
  <2>5. DelegationInfo(got).type = "Delegate" /\ DelegationInfo(got).to = got.delegateEvents.to
        /\ DelegationInfo(got).block = got.delegateEvents.block
    BY <2>4 DEF DelegationInfo
  <2> QED
    BY <1>1, <2>3, <2>5
<1>5. CASE got.currentDelegation = NOT_DELEGATED
  <2>1. ~IsDelegate(got)
    BY <1>2, <1>5 DEF IsDelegate, Heard
  <2>2. PICK m \in from .. upto : got.currentDelegation = CurrentDelegation(m)
    BY <1>1, <1>2, <1>3 DEF Heard
  <2>3. PICK n \in from .. upto : got.transferEvents = TransferEvents(n)
    BY <1>1, <1>2, <1>3, <2>1 DEF Heard
  <2>4. \E k \in from .. upto :
           /\ MirroredDelegation(k).to = got.transferEvents.to
           /\ MirroredDelegation(k).block = got.transferEvents.block
           /\ MirroredDelegation(k).type = IF got.transferEvents.to # NOT_DELEGATED THEN "Transfer" ELSE "Not-Delegated"
    <3>1. \A i \in 1 .. upto : delegations[i].to # Me
      BY <1>1
    <3>2. CurrentDelegation(m) = NOT_DELEGATED
      BY <1>5, <2>2
    <3>3. upto <= from + 1
      BY <1>2
    <3>4. \E k \in from .. upto :
           /\ MirroredDelegation(k).to = TransferEvents(n).to
           /\ MirroredDelegation(k).block = TransferEvents(n).block
           /\ MirroredDelegation(k).type = IF TransferEvents(n).to # NOT_DELEGATED THEN "Transfer" ELSE "Not-Delegated"
      BY <1>2, <3>1, <3>2, <3>3, TransfersAreOfTheRead
    <3> QED
      BY ONLY <2>3, <3>4
  <2>5. DelegationInfo(got).type = (IF got.transferEvents.to # NOT_DELEGATED THEN "Transfer" ELSE "Not-Delegated")
        /\ DelegationInfo(got).to = got.transferEvents.to
        /\ DelegationInfo(got).block = got.transferEvents.block
    BY <2>1 DEF DelegationInfo
  <2> QED
    BY <1>1, <2>4, <2>5
<1> QED
  BY <1>4, <1>5

LEMMA SelectedGuardianResolved ==
  ASSUME ChainTyped, NEW s, NEW got, Resolved("selectedGuardian", s, got),
         Len(delegations) <= s.delegations + 1, \A i \in 1 .. Len(delegations) : delegations[i].to # Me
  PROVE  \E k \in s.delegations .. Len(delegations) : SelectedGuardian(got) = MirroredDelegation(k).to
<1>1. PICK from, upto : from = s.delegations /\ upto = Len(delegations)
  OBVIOUS
<1>2. from \in Nat /\ upto \in from .. Len(delegations) /\ upto <= from + 1 /\ Heard(s, got)
      /\ \A m \in from .. upto : m \in 0 .. Len(delegations)
  BY <1>1, ChainFacts DEF Resolved, IsMoment
<1>3. /\ Has(got, "currentDelegation")
      /\ got.currentDelegation = NOT_DELEGATED => Has(got, "transferEvents")
  <2>1. DOMAIN SelectedGuardianCalls(got) = 1 .. 2
    BY DEF SelectedGuardianCalls
  <2>2. \A i \in 1 .. 2 : SelectedGuardianCalls(got)[i] \subseteq DOMAIN got
    <3>1. Awaits("selectedGuardian", got) = SelectedGuardianCalls(got)
      BY AwaitsAre
    <3> QED
      BY <2>1, <3>1 DEF Resolved
  <2>3. /\ SelectedGuardianCalls(got)[1] = {"currentDelegation"}
        /\ SelectedGuardianCalls(got)[2] =
             When(Has(got, "currentDelegation") /\ got.currentDelegation = NOT_DELEGATED, {"transferEvents"})
    BY DEF SelectedGuardianCalls
  <2>4. 1 \in 1 .. 2 /\ 2 \in 1 .. 2
    OBVIOUS
  <2>5. Has(got, "currentDelegation")
    BY <2>2, <2>3, <2>4 DEF Has
  <2> QED
    BY <2>2, <2>3, <2>4, <2>5 DEF Has, When
<1>4. PICK m \in from .. upto : got.currentDelegation = CurrentDelegation(m)
  BY <1>1, <1>2, <1>3 DEF Heard
<1>5. CASE Has(got, "transferEvents")
  <2>1. CurrentDelegation(m) = NOT_DELEGATED
    BY <1>4, <1>5 DEF Resolved
  <2>2. PICK n \in from .. upto : got.transferEvents = TransferEvents(n)
    BY <1>1, <1>2, <1>5 DEF Heard
  <2>3. \A i \in 1 .. upto : delegations[i].to # Me
    BY <1>1
  <2>4. \E k \in from .. upto : MirroredDelegation(k).to = TransferEvents(n).to
    BY <1>2, <2>1, <2>3, TransfersAreOfTheRead
  <2> QED
    BY <1>1, <1>5, <2>2, <2>4 DEF SelectedGuardian
<1>6. CASE ~Has(got, "transferEvents")
  <2>1. CurrentDelegation(m) # NOT_DELEGATED
    BY <1>3, <1>4, <1>6
  <2>2. MirroredDelegation(m).to = CurrentDelegation(m)
    BY <1>2, <2>1, DelegateSeen
  <2> QED
    BY <1>1, <1>4, <1>6, <2>2 DEF SelectedGuardian
<1> QED
  BY <1>5, <1>6

LEMMA EligibilityResolved ==
  ASSUME ChainTyped, NEW s, NEW got, Resolved("guardianInfo", s, got), votedAt = s.votedAt
  PROVE  \E b \in s.block .. block :
           LET next == CHOOSE e \in b .. (b + INTERVAL_BETWEEN_ELECTIONS - 1) :
                         (e - FIRST_ELECTION_BLOCK_HEIGHT) % INTERVAL_BETWEEN_ELECTIONS = 0
           IN  GuardianInfo(got).hasEligibleVote
                 <=> (votedAt # 0 /\ votedAt >= next - (VALID_VOTE_LENGTH - 1))
<1>1. IsMoment(s) /\ Heard(s, got)
  BY DEF Resolved
<1>2. Has(got, "currentVote") /\ Has(got, "upcoming")
  <2>1. \A i \in 1 .. 2 : << {"currentVote", "upcoming"}, {"weight", "total"} >>[i] \subseteq DOMAIN got
    BY AwaitsAre DEF Resolved
  <2>2. {"currentVote", "upcoming"} \subseteq DOMAIN got
    BY <2>1
  <2> QED
    BY <2>2 DEF Has
<1>3. got.currentVote = votedAt /\ votedAt \in Nat
  BY <1>1, <1>2, ChainFacts DEF Heard
<1>4. PICK b \in s.block .. block : got.upcoming = ReadUpcomingElectionBlockNumber(b)
  BY <1>1, <1>2 DEF Heard
<1>5. Late(b)
  <2>1. s.block \in Nat /\ s.block > FIRST_ELECTION_BLOCK_HEIGHT /\ s.block >= VALID_VOTE_LENGTH /\ block \in Nat
    BY <1>1, ChainFacts DEF IsMoment, Late
  <2>2. FIRST_ELECTION_BLOCK_HEIGHT \in Nat /\ VALID_VOTE_LENGTH \in Nat
    BY PosDataAssumption
  <2>3. b \in Nat /\ b >= s.block
    BY ONLY <1>4, <2>1
  <2> QED
    BY <2>1, <2>2, <2>3 DEF Late
<1>6. PICK next : next = CHOOSE e \in b .. (b + INTERVAL_BETWEEN_ELECTIONS - 1) :
                         (e - FIRST_ELECTION_BLOCK_HEIGHT) % INTERVAL_BETWEEN_ELECTIONS = 0
  OBVIOUS
<1>7. got.upcoming = next
  BY <1>4, <1>5, <1>6, UpcomingElection
<1>8. HasEligibleVote(votedAt, next) <=> (votedAt # 0 /\ votedAt >= next - (VALID_VOTE_LENGTH - 1))
  BY <1>3, <1>4, <1>5, <1>7, EligibleVotesAreCounted
<1>9. GuardianInfo(got).hasEligibleVote <=> HasEligibleVote(votedAt, next)
  BY <1>3, <1>7 DEF GuardianInfo
<1> QED
  BY <1>6, <1>8, <1>9

LEMMA SharesResolved ==
  ASSUME ChainTyped, NEW s, NEW got, s.election = election
  PROVE  /\ Resolved("guardianInfo", s, got) =>
              /\ GuardianInfo(got).stakePercent[1] <= GuardianInfo(got).stakePercent[2]
              /\ GuardianInfo(got).voted <=> GuardianInfo(got).stakePercent[1] > 0
         /\ Resolved("validatorInfo", s, got) => ValidatorInfo(got).votesAgainst <= 100
<1>0. /\ election \in DOMAIN Results /\ election \in Nat
      /\ Results[election].total \in Nat /\ Results[election].weight \in 0 .. Results[election].total
      /\ Results[election].against \in 0 .. Results[election].total
  BY ResultsAssumption, ChainFacts DEF ChainTyped
<1>1. ASSUME Heard(s, got), NEW name \in {"total", "weight", "against"}, Has(got, name)
      PROVE  got[name] = Results[election][name]
  <2>1. \E e \in s.election .. election : got[name] = Results[e][name]
    BY <1>1 DEF Heard, OrbsNumbers
  <2>2. \A e \in s.election .. election : e = election
    BY <1>0
  <2> QED
    BY <2>1, <2>2
<1>2. ASSUME Resolved("guardianInfo", s, got)
      PROVE  /\ GuardianInfo(got).stakePercent[1] <= GuardianInfo(got).stakePercent[2]
             /\ GuardianInfo(got).voted <=> GuardianInfo(got).stakePercent[1] > 0
  <2>1. \A i \in 1 .. 2 : << {"currentVote", "upcoming"}, {"weight", "total"} >>[i] \subseteq DOMAIN got
    BY <1>2, AwaitsAre DEF Resolved
  <2>2. {"weight", "total"} \subseteq DOMAIN got
    BY <2>1
  <2>3. Heard(s, got) /\ Has(got, "weight") /\ Has(got, "total")
    BY <1>2, <2>2 DEF Has, Resolved
  <2>4. got.weight = Results[election].weight /\ got.total = Results[election].total
    BY <1>1, <2>3
  <2>5. got.total \in Nat /\ got.weight \in 0 .. got.total
    BY <1>0, <2>4
  <2>6. /\ GuardianInfo(got).stakePercent = (IF got.total = 0 THEN <<0, 1>> ELSE <<got.weight, got.total>>)
        /\ GuardianInfo(got).voted <=> got.weight # 0
    BY DEF GuardianInfo
  <2> QED
    BY <2>5, <2>6
<1>3. ASSUME Resolved("validatorInfo", s, got)
      PROVE  ValidatorInfo(got).votesAgainst <= 100
  <2>1. \A i \in 1 .. 1 : << {"against", "total"} >>[i] \subseteq DOMAIN got
    BY <1>3, AwaitsAre DEF Resolved
  <2>2. {"against", "total"} \subseteq DOMAIN got
    BY <2>1
  <2>3. Heard(s, got) /\ Has(got, "against") /\ Has(got, "total")
    BY <1>3, <2>2 DEF Has, Resolved
  <2>4. got.against = Results[election].against /\ got.total = Results[election].total
    BY <1>1, <2>3
  <2>5. PICK a, t : a = got.against /\ t = got.total
    OBVIOUS
  <2>6. t \in Nat /\ a \in 0 .. t
    BY <1>0, <2>4, <2>5
  <2>7. t # 0 => (100 * a) \div t <= 100
    <3>1. SUFFICES ASSUME t # 0 PROVE (100 * a) \div t <= 100
      OBVIOUS
    <3>2. PICK x, d, r : x \in Int /\ x = 100 * a /\ d = x \div t /\ r = x % t
      BY <2>6
    <3>3. x = t * d + r /\ r \in 0 .. t - 1 /\ d \in Int
      BY <2>6, <3>1, <3>2, DivisionOf
    <3>4. d >= 101 => t * d >= t * 101
      BY <2>6, <3>3
    <3>5. t * d \in Int
      BY <2>6, <3>3
    <3> QED
      BY <2>6, <3>1, <3>2, <3>3, <3>4, <3>5
  <2>8. ValidatorInfo(got).votesAgainst = IF t = 0 THEN 0 ELSE (100 * a) \div t
    BY <2>5 DEF ValidatorInfo
  <2> QED
    BY <2>7, <2>8
<1> QED
  BY <1>2, <1>3

LEMMA OrbsReadsResolved ==
  ASSUME ChainTyped, NEW s, NEW got
  PROVE  /\ Resolved("electedValidators", s, got) =>
              \E e \in s.election .. election : ElectedValidators(got.elected) = Results[e].elected
         /\ Resolved("rewards", s, got) =>
              \A reward \in DOMAIN Rewards(got) :
                Rewards(got)[reward] \in Results[s.election][reward] .. Results[election][reward]
<1>1. ASSUME Resolved("electedValidators", s, got)
      PROVE  \E e \in s.election .. election : ElectedValidators(got.elected) = Results[e].elected
  <2>1. \A i \in 1 .. 1 : << {"elected"} >>[i] \subseteq DOMAIN got
    BY <1>1, AwaitsAre DEF Resolved
  <2>2. Has(got, "elected") /\ Heard(s, got) /\ IsMoment(s)
    BY <1>1, <2>1 DEF Has, Resolved
  <2>3. PICK e \in s.election .. election : got.elected = FlattenSeq(Results[e].elected)
    BY <2>2 DEF Heard
  <2>4. e \in DOMAIN Results
    BY <2>2, <2>3, ChainFacts, ResultsAssumption DEF IsMoment
  <2>5. ElectedValidators(got.elected) = Results[e].elected
    BY <2>3, <2>4, CutAgain, ResultsAssumption
  <2> QED
    BY <2>3, <2>5
<1>2. ASSUME Resolved("rewards", s, got)
      PROVE  \A reward \in DOMAIN Rewards(got) :
                Rewards(got)[reward] \in Results[s.election][reward] .. Results[election][reward]
  <2>1. \A i \in 1 .. 1 : << {"delegatorReward", "guardianReward", "validatorReward"} >>[i] \subseteq DOMAIN got
    BY <1>2, AwaitsAre DEF Resolved
  <2>2. {"delegatorReward", "guardianReward", "validatorReward"} \subseteq DOMAIN got
    BY <2>1
  <2>3. Heard(s, got) /\ IsMoment(s)
    BY <1>2 DEF Resolved
  <2>4. /\ DOMAIN Rewards(got) = {"delegatorReward", "guardianReward", "validatorReward"}
        /\ \A reward \in DOMAIN Rewards(got) : Rewards(got)[reward] = got[reward]
    BY DEF Rewards
  <2>5. SUFFICES ASSUME NEW reward \in {"delegatorReward", "guardianReward", "validatorReward"}
                 PROVE  got[reward] \in Results[s.election][reward] .. Results[election][reward]
    BY <2>4
  <2>6. PICK e \in s.election .. election : got[reward] = Results[e][reward]
    BY <2>2, <2>3 DEF Heard, Has, OrbsNumbers
  <2>7. s.election \in DOMAIN Results /\ e \in DOMAIN Results /\ election \in DOMAIN Results
        /\ s.election <= e /\ e <= election
    <3>1. s.election \in 1 .. election
      BY <2>3 DEF IsMoment
    <3>2. election \in 1 .. Len(Results)
      BY ChainFacts
    <3>3. Len(Results) \in Nat /\ DOMAIN Results = 1 .. Len(Results)
      BY ResultsAssumption
    <3>4. e \in s.election .. election
      OBVIOUS
    <3> QED
      BY ONLY <3>1, <3>2, <3>3, <3>4
  <2>8. /\ Results[e][reward] \in Int /\ Results[s.election][reward] \in Int /\ Results[election][reward] \in Int
        /\ Results[s.election][reward] <= Results[e][reward] /\ Results[e][reward] <= Results[election][reward]
    BY <2>7, ResultsAssumption
  <2> QED
    BY <2>6, <2>8
<1> QED
  BY <1>1, <1>2

LEMMA HistoryResolved ==
  ASSUME ChainTyped, NEW s, NEW got, Resolved("history", s, got)
  PROVE  /\ \A c \in 1 .. 2 : ToSet(SubSeq(distributed[c], 1, s.distributed[c])) \subseteq ToSet(RewardsHistory(got))
         /\ \A x \in ToSet(RewardsHistory(got)) :
              \E c \in 1 .. 2 : x \in ToSet(SubSeq(distributed[c], 1, Len(distributed[c])))
         /\ IsInjective(RewardsHistory(got))
<1>1. Heard(s, got) /\ IsMoment(s) /\ Has(got, "distributions") /\ Has(got, "distributionsForStaking")
  <2>1. \A i \in 1 .. 2 : << {"distributions"}, {"distributionsForStaking"} >>[i] \subseteq DOMAIN got
    BY AwaitsAre DEF Resolved
  <2>2. {"distributions"} \subseteq DOMAIN got /\ {"distributionsForStaking"} \subseteq DOMAIN got
    BY <2>1
  <2> QED
    BY <2>2 DEF Has, Resolved
<1>2. PICK n1 \in s.distributed[1] .. Len(distributed[1]) : got.distributions = SubSeq(distributed[1], 1, n1)
  BY <1>1 DEF Heard
<1>3. PICK n2 \in s.distributed[2] .. Len(distributed[2]) : got.distributionsForStaking = SubSeq(distributed[2], 1, n2)
  BY <1>1 DEF Heard
<1>4. \A c \in 1 .. 2 : distributed[c] \in Seq(Nat) /\ Len(distributed[c]) \in Nat
                        /\ s.distributed[c] \in 0 .. Len(distributed[c])
  BY <1>1, ChainFacts DEF IsMoment
<1>5. ASSUME NEW c \in 1 .. 2, NEW n \in 0 .. Len(distributed[c])
      PROVE  /\ SubSeq(distributed[c], 1, n) \in Seq(Nat) /\ DOMAIN SubSeq(distributed[c], 1, n) = 1 .. n
             /\ \A i \in 1 .. n : SubSeq(distributed[c], 1, n)[i] = distributed[c][i] /\ i \in DOMAIN distributed[c]
             /\ ToSet(SubSeq(distributed[c], 1, n)) = {distributed[c][i] : i \in 1 .. n}
  <2>1. /\ SubSeq(distributed[c], 1, n) \in Seq(Nat) /\ Len(SubSeq(distributed[c], 1, n)) = n
        /\ \A i \in 1 .. n : SubSeq(distributed[c], 1, n)[i] = distributed[c][i]
    <3>1. PICK d : d = distributed[c]
      OBVIOUS
    <3>2. d \in Seq(Nat) /\ n \in 0 .. Len(d) /\ Len(d) <= Len(d) /\ \A i \in 1 .. Len(d) : d[i] = d[i]
      BY <1>4, <3>1
    <3>3. /\ SubSeq(d, 1, n) \in Seq(Nat) /\ Len(SubSeq(d, 1, n)) = n
          /\ \A i \in 1 .. n : SubSeq(d, 1, n)[i] = d[i]
      BY ONLY <3>2, FirstOfALongerList
    <3> QED
      BY <3>1, <3>3
  <2>2. DOMAIN SubSeq(distributed[c], 1, n) = 1 .. n
    BY <2>1, LenProperties
  <2>3. \A i \in 1 .. n : i \in DOMAIN distributed[c]
    BY <1>4, LenProperties
  <2> QED
    BY <2>1, <2>2, <2>3 DEF ToSet
<1>6. PICK d1, d2 : d1 = got.distributions /\ d2 = got.distributionsForStaking
  OBVIOUS
<1>7. n1 \in 0 .. Len(distributed[1]) /\ n2 \in 0 .. Len(distributed[2]) /\ 1 \in 1 .. 2 /\ 2 \in 1 .. 2
      /\ s.distributed[1] <= n1 /\ s.distributed[2] <= n2
      /\ s.distributed[1] \in Nat /\ s.distributed[2] \in Nat
  <2>1. /\ s.distributed[1] \in Nat /\ Len(distributed[1]) \in Nat
        /\ s.distributed[2] \in Nat /\ Len(distributed[2]) \in Nat
    BY <1>4
  <2> QED
    BY <2>1
<1>8. /\ d1 \in Seq(Nat) /\ DOMAIN d1 = 1 .. n1 /\ ToSet(d1) = {distributed[1][i] : i \in 1 .. n1}
      /\ \A i \in 1 .. n1 : d1[i] = distributed[1][i] /\ i \in DOMAIN distributed[1]
  BY <1>2, <1>5, <1>6, <1>7
<1>9. /\ d2 \in Seq(Nat) /\ DOMAIN d2 = 1 .. n2 /\ ToSet(d2) = {distributed[2][i] : i \in 1 .. n2}
      /\ \A i \in 1 .. n2 : d2[i] = distributed[2][i] /\ i \in DOMAIN distributed[2]
  BY <1>3, <1>5, <1>6, <1>7
<1>10. \A c, d \in 1 .. 2 : \A i \in DOMAIN distributed[c], j \in DOMAIN distributed[d] :
         distributed[c][i] = distributed[d][j] => c = d /\ i = j
  BY DEF ChainTyped
<1>11. IsInjective(d1) /\ IsInjective(d2) /\ ToSet(d1) \cap ToSet(d2) = {}
  <2>1. \A i \in DOMAIN distributed[1], j \in DOMAIN distributed[1] : distributed[1][i] = distributed[1][j] => i = j
    BY ONLY <1>7, <1>10
  <2>2. \A i \in DOMAIN distributed[2], j \in DOMAIN distributed[2] : distributed[2][i] = distributed[2][j] => i = j
    BY ONLY <1>7, <1>10
  <2>3. \A i \in DOMAIN distributed[1], j \in DOMAIN distributed[2] : distributed[1][i] # distributed[2][j]
    <3>1. 1 # 2
      OBVIOUS
    <3> QED
      BY ONLY <1>7, <1>10, <3>1
  <2>4. IsInjective(d1)
    BY <1>8, <2>1 DEF IsInjective
  <2>5. IsInjective(d2)
    BY <1>9, <2>2 DEF IsInjective
  <2>6. ToSet(d1) \cap ToSet(d2) = {}
    BY <1>8, <1>9, <2>3
  <2> QED
    BY <2>4, <2>5, <2>6
<1>12. RewardsHistory(got) = d1 \o d2
  BY <1>6 DEF RewardsHistory
<1>13. ToSet(RewardsHistory(got)) = ToSet(d1) \cup ToSet(d2) /\ IsInjective(RewardsHistory(got))
  <2>1. /\ ToSet(d1 \o d2) = ToSet(d1) \cup ToSet(d2)
        /\ (IsInjective(d1) /\ IsInjective(d2) /\ ToSet(d1) \cap ToSet(d2) = {} => IsInjective(d1 \o d2))
    <3>1. d1 \in Seq(Nat) /\ d2 \in Seq(Nat)
      BY <1>8, <1>9
    <3> QED
      BY ONLY <3>1, JoinedLists
  <2> QED
    BY ONLY <1>11, <1>12, <2>1
<1>14. \A c \in 1 .. 2 : c = 1 \/ c = 2
  OBVIOUS
<1>15. ToSet(SubSeq(distributed[1], 1, s.distributed[1])) \subseteq ToSet(d1)
  <2>1. \A i \in 1 .. s.distributed[1] : i \in 1 .. n1
    BY <1>7
  <2>2. ToSet(SubSeq(distributed[1], 1, s.distributed[1])) = {distributed[1][i] : i \in 1 .. s.distributed[1]}
    BY <1>4, <1>5, <1>7
  <2> QED
    BY <1>8, <2>1, <2>2
<1>16. ToSet(SubSeq(distributed[2], 1, s.distributed[2])) \subseteq ToSet(d2)
  <2>1. \A i \in 1 .. s.distributed[2] : i \in 1 .. n2
    BY <1>7
  <2>2. ToSet(SubSeq(distributed[2], 1, s.distributed[2])) = {distributed[2][i] : i \in 1 .. s.distributed[2]}
    BY <1>4, <1>5, <1>7
  <2> QED
    BY <1>9, <2>1, <2>2
<1>17. ToSet(d1) \subseteq ToSet(SubSeq(distributed[1], 1, Len(distributed[1])))
  <2>1. \A i \in 1 .. n1 : i \in 1 .. Len(distributed[1])
    BY <1>4, <1>7
  <2>2. ToSet(SubSeq(distributed[1], 1, Len(distributed[1]))) = {distributed[1][i] : i \in 1 .. Len(distributed[1])}
    <3>1. Len(distributed[1]) \in 0 .. Len(distributed[1])
      BY <1>4, <1>7
    <3> QED
      BY <1>5, <1>7, <3>1
  <2> QED
    BY <1>8, <2>1, <2>2
<1>18. ToSet(d2) \subseteq ToSet(SubSeq(distributed[2], 1, Len(distributed[2])))
  <2>1. \A i \in 1 .. n2 : i \in 1 .. Len(distributed[2])
    BY <1>4, <1>7
  <2>2. ToSet(SubSeq(distributed[2], 1, Len(distributed[2]))) = {distributed[2][i] : i \in 1 .. Len(distributed[2])}
    <3>1. Len(distributed[2]) \in 0 .. Len(distributed[2])
      BY <1>4, <1>7
    <3> QED
      BY <1>5, <1>7, <3>1
  <2> QED
    BY <1>9, <2>1, <2>2
<1>19. \A c \in 1 .. 2 : ToSet(SubSeq(distributed[c], 1, s.distributed[c])) \subseteq ToSet(RewardsHistory(got))
  BY <1>13, <1>14, <1>15, <1>16
<1>20. \A x \in ToSet(RewardsHistory(got)) :
         \E c \in 1 .. 2 : x \in ToSet(SubSeq(distributed[c], 1, Len(distributed[c])))
  BY <1>7, <1>13, <1>17, <1>18
<1> QED
  BY <1>13, <1>19, <1>20

LEMMA ReadResolves ==
  ASSUME ReadsInv, Resolve
  PROVE  ReadsInv'
<1>1. ChainTyped /\ ChainTyped' /\ ChainGrows /\ read' = NoRead /\ read # NoRead
  BY ChainStays DEF Resolve, ReadsInv
<1>2. PICK s, got, kind, now : s = read.start /\ got = read.got /\ kind = read.kind /\ now = Moment
  OBVIOUS
<1>3. Resolved(kind, s, got)
  <2>1. kind \in Kinds /\ IsMoment(s) /\ Heard(s, got)
        /\ ((kind = "selectedGuardian" /\ Has(got, "transferEvents")) =>
             Has(got, "currentDelegation") /\ got.currentDelegation = NOT_DELEGATED)
    BY <1>1, <1>2 DEF ReadsInv, ReadIsHeard
  <2>2. Waiting(kind, got) = {}
    BY <1>2 DEF Resolve
  <2> QED
    BY <2>1, <2>2, WaitedFor DEF Resolved
<1>4. PICK a : a = answer'
  OBVIOUS
<1>5. a = [kind |-> kind, start |-> s, upto |-> now, value |-> Value(kind, got)]
  BY <1>2, <1>4 DEF Resolve
<1>6. a.kind = kind /\ a.start = s /\ a.upto = now /\ a.value = Value(kind, got) /\ a # NoRead
  BY <1>5 DEF NoRead
<1>7. /\ now.block = block /\ now.delegations = Len(delegations) /\ now.votedAt = votedAt /\ now.election = election
      /\ \A c \in 1 .. 2 : now.distributed[c] = Len(distributed[c])
  <2>1. \A c \in 1 .. 2 : c = 1 \/ c = 2
    OBVIOUS
  <2> QED
    BY <1>2, <2>1 DEF Moment
<1>8. IsMoment(s)' /\ IsMoment(now)'
  <2>1. IsMoment(now)
    BY <1>1, <1>2, NowIsAMoment
  <2>2. IsMoment(s)
    BY <1>3 DEF Resolved
  <2> QED
    BY <1>1, <2>1, <2>2, MomentStays
<1>9. delegations' = delegations /\ distributed' = distributed
  BY DEF Resolve, chainVars
<1>10. DelegationIsMirrored'
  <2> SUFFICES ASSUME a.kind \in {"delegation", "selectedGuardian"},
                      ~(\E i \in 1 .. a.upto.delegations : delegations'[i].to = Me),
                      ~(a.upto.delegations > a.start.delegations + 1)
               PROVE  \E n \in a.start.delegations .. a.upto.delegations :
                        IF a.kind = "selectedGuardian"
                          THEN a.value = MirroredDelegation(n)'.to
                          ELSE /\ a.value.type = MirroredDelegation(n)'.type
                               /\ a.value.to = MirroredDelegation(n)'.to
                               /\ a.value.block = MirroredDelegation(n)'.block
    BY <1>4 DEF DelegationIsMirrored
  <2>1. Len(delegations) <= s.delegations + 1 /\ \A i \in 1 .. Len(delegations) : delegations[i].to # Me
    <3>1. s.delegations \in Nat /\ Len(delegations) \in Nat
      BY <1>1, <1>3, ChainFacts DEF Resolved, IsMoment
    <3> QED
      BY <1>6, <1>7, <1>9, <3>1
  <2>2. \A n \in s.delegations .. Len(delegations) : MirroredDelegation(n)' = MirroredDelegation(n)
    <3> TAKE n \in s.delegations .. Len(delegations)
    <3>1. n \in 0 .. Len(delegations)
      BY <1>1, <1>3, ChainFacts DEF Resolved, IsMoment
    <3> QED
      BY <1>1, <3>1, PrefixStays
  <2>3. CASE kind = "delegation"
    <3>1. Value(kind, got) = DelegationInfo(got)
      BY <2>3 DEF Value
    <3>2. \E k \in s.delegations .. Len(delegations) :
           /\ DelegationInfo(got).type = MirroredDelegation(k).type
           /\ DelegationInfo(got).to = MirroredDelegation(k).to
           /\ DelegationInfo(got).block = MirroredDelegation(k).block
      BY <1>1, <1>3, <2>1, <2>3, DelegationResolved
    <3> QED
      BY <1>6, <1>7, <2>2, <2>3, <3>1, <3>2
  <2>4. CASE kind = "selectedGuardian"
    <3>1. Value(kind, got) = SelectedGuardian(got)
      BY <2>4 DEF Value
    <3>2. \E k \in s.delegations .. Len(delegations) : SelectedGuardian(got) = MirroredDelegation(k).to
      BY <1>1, <1>3, <2>1, <2>4, SelectedGuardianResolved
    <3> QED
      BY <1>6, <1>7, <2>2, <2>4, <3>1, <3>2
  <2> QED
    BY <1>6, <2>3, <2>4
<1>11. EligibilityIsTheElections'
  <2> SUFFICES ASSUME kind = "guardianInfo", now.votedAt = s.votedAt
               PROVE  \E b \in s.block .. now.block :
                        LET next == CHOOSE e \in b .. (b + INTERVAL_BETWEEN_ELECTIONS - 1) :
                                      (e - FIRST_ELECTION_BLOCK_HEIGHT) % INTERVAL_BETWEEN_ELECTIONS = 0
                        IN  a.value.hasEligibleVote
                              <=> (now.votedAt # 0 /\ now.votedAt >= next - (VALID_VOTE_LENGTH - 1))
    BY <1>4, <1>6 DEF EligibilityIsTheElections, Answered
  <2>1. a.value = GuardianInfo(got)
    BY <1>6 DEF Value
  <2>2. votedAt = s.votedAt
    BY <1>7
  <2> QED
    BY <1>1, <1>3, <1>7, <2>1, <2>2, EligibilityResolved
<1>12. OrbsAnswersAreOfTheirTime'
  <2>1. a.kind = "electedValidators" => \E e \in a.start.election .. a.upto.election : a.value = Results[e].elected
    <3> SUFFICES ASSUME kind = "electedValidators"
                 PROVE  \E e \in a.start.election .. a.upto.election : a.value = Results[e].elected
      BY <1>6
    <3>1. a.value = ElectedValidators(got.elected)
      BY <1>6 DEF Value
    <3> QED
      BY <1>1, <1>3, <1>6, <1>7, <3>1, OrbsReadsResolved
  <2>2. a.kind = "rewards" => \A reward \in DOMAIN a.value :
          a.value[reward] \in Results[a.start.election][reward] .. Results[a.upto.election][reward]
    <3> SUFFICES ASSUME kind = "rewards"
                 PROVE  \A reward \in DOMAIN a.value :
                          a.value[reward] \in Results[a.start.election][reward] .. Results[a.upto.election][reward]
      BY <1>6
    <3>1. a.value = Rewards(got)
      BY <1>6 DEF Value
    <3> QED
      BY <1>1, <1>3, <1>6, <1>7, <3>1, OrbsReadsResolved
  <2>3. (a.kind = "guardianInfo" /\ a.start.election = a.upto.election) =>
           /\ a.value.stakePercent[1] <= a.value.stakePercent[2]
           /\ a.value.voted <=> a.value.stakePercent[1] > 0
    <3> SUFFICES ASSUME kind = "guardianInfo", s.election = election
                 PROVE  /\ a.value.stakePercent[1] <= a.value.stakePercent[2]
                        /\ a.value.voted <=> a.value.stakePercent[1] > 0
      BY <1>6, <1>7
    <3>1. a.value = GuardianInfo(got)
      BY <1>6 DEF Value
    <3>2. /\ GuardianInfo(got).stakePercent[1] <= GuardianInfo(got).stakePercent[2]
          /\ GuardianInfo(got).voted <=> GuardianInfo(got).stakePercent[1] > 0
      BY <1>1, <1>3, SharesResolved
    <3> QED
      BY ONLY <3>1, <3>2
  <2>4. (a.kind = "validatorInfo" /\ a.start.election = a.upto.election) => a.value.votesAgainst <= 100
    <3> SUFFICES ASSUME kind = "validatorInfo", s.election = election PROVE a.value.votesAgainst <= 100
      BY <1>6, <1>7
    <3>1. a.value = ValidatorInfo(got)
      BY <1>6 DEF Value
    <3> QED
      BY <1>1, <1>3, <3>1, SharesResolved
  <2> QED
    BY <1>4, <1>6, <2>1, <2>2, <2>3, <2>4 DEF OrbsAnswersAreOfTheirTime, Answered
<1>13. HistoryIsComplete'
  <2> SUFFICES ASSUME kind = "history"
               PROVE  /\ UNION {ToSet(SubSeq(distributed[c], 1, s.distributed[c])) : c \in 1 .. 2} \subseteq ToSet(a.value)
                      /\ ToSet(a.value) \subseteq UNION {ToSet(SubSeq(distributed[c], 1, now.distributed[c])) : c \in 1 .. 2}
                      /\ IsInjective(a.value)
    BY <1>4, <1>6, <1>9 DEF HistoryIsComplete, Answered
  <2>1. a.value = RewardsHistory(got)
    BY <1>6 DEF Value
  <2>2. /\ \A c \in 1 .. 2 : ToSet(SubSeq(distributed[c], 1, s.distributed[c])) \subseteq ToSet(a.value)
        /\ \A x \in ToSet(a.value) :
              \E c \in 1 .. 2 : x \in ToSet(SubSeq(distributed[c], 1, now.distributed[c]))
        /\ IsInjective(a.value)
    BY <1>1, <1>3, <1>7, <2>1, HistoryResolved
  <2> QED
    BY <2>2
<1>14. AnswerIsOfItsTime'
  BY <1>4, <1>6, <1>8, <1>10, <1>11, <1>12, <1>13 DEF AnswerIsOfItsTime, ReadsAreTheContracts
<1>15. ReadIsHeard'
  BY <1>1 DEF ReadIsHeard
<1> QED
  BY <1>1, <1>14, <1>15 DEF ReadsInv

LEMMA ReadsStay ==
  ASSUME ReadsInv, ChainTyped', ChainGrows, UNCHANGED <<read, answer>>
  PROVE  ReadsInv'
<1>1. read' = read /\ answer' = answer /\ ChainTyped /\ AnswerIsOfItsTime
  BY DEF ReadsInv
<1>2. AnswerIsOfItsTime'
  BY <1>1, AnswerStays
<1>3. ReadIsHeard'
  <2> SUFFICES ASSUME read # NoRead
               PROVE  /\ DOMAIN read = {"kind", "start", "got"} /\ read.kind \in Kinds
                      /\ IsMoment(read.start)' /\ Heard(read.start, read.got)'
                      /\ (read.kind = "selectedGuardian" /\ Has(read.got, "transferEvents")) =>
                           Has(read.got, "currentDelegation") /\ read.got.currentDelegation = NOT_DELEGATED
    BY <1>1 DEF ReadIsHeard
  <2>1. PICK s, got : s = read.start /\ got = read.got
    OBVIOUS
  <2>2. /\ DOMAIN read = {"kind", "start", "got"} /\ read.kind \in Kinds /\ IsMoment(s) /\ Heard(s, got)
        /\ (read.kind = "selectedGuardian" /\ Has(got, "transferEvents")) =>
             Has(got, "currentDelegation") /\ got.currentDelegation = NOT_DELEGATED
    BY <2>1 DEF ReadsInv, ReadIsHeard
  <2>3. IsMoment(s)' /\ Heard(s, got)'
    BY <1>1, <2>2, MomentStays, HeardStays
  <2> QED
    BY <1>1, <2>1, <2>2, <2>3
<1> QED
  BY <1>2, <1>3 DEF ReadsInv

LEMMA ReadsStep ==
  ASSUME ReadsInv, [ReadsNext]_readsVars
  PROVE  ReadsInv'
<1>0. ChainTyped
  BY DEF ReadsInv
<1>1. CASE UNCHANGED readsVars
  <2>1. UNCHANGED chainVars /\ UNCHANGED <<read, answer>>
    BY <1>1 DEF readsVars
  <2> QED
    BY <1>0, <2>1, ChainStays, ReadsStay
<1>2. CASE MineBlock \/ ActOnDelegation \/ Vote \/ ConcludeElection
  <2>1. UNCHANGED <<read, answer>>
    BY <1>2 DEF MineBlock, ActOnDelegation, Vote, ConcludeElection, Move
  <2> QED
    BY <1>0, <1>2, <2>1, ChainMoves, ReadsStay
<1>3. ASSUME NEW contract \in 1 .. 2, Distribute(contract) PROVE ReadsInv'
  <2>1. UNCHANGED <<read, answer>>
    BY <1>3 DEF Distribute, Move
  <2> QED
    BY <1>0, <1>3, <2>1, ChainDistributes, ReadsStay
<1>4. ASSUME NEW kind \in Kinds, StartRead(kind) PROVE ReadsInv'
  BY <1>4, ReadStarts
<1>5. CASE AnswerCall
  BY <1>5, CallIsAnswered
<1>6. CASE Resolve
  BY <1>6, ReadResolves
<1> QED
  BY <1>1, <1>2, <1>3, <1>4, <1>5, <1>6 DEF ReadsNext

(* What the library answers with several calls is what the contracts say at *)
(* some moment of the read: the delegation the Elections contract would     *)
(* mirror, the vote the next election counts, numbers of elections in force *)
(* during the read and the whole history of rewards (PosDataReads.tla).     *)
THEOREM ReadsAreAlwaysTheContracts == ReadsSpec => []ReadsAreTheContracts
<1>1. ReadsInv /\ [ReadsNext]_readsVars => ReadsInv'
  BY ReadsStep
<1>2. ReadsInv => ReadsAreTheContracts
  BY DEF ReadsInv, AnswerIsOfItsTime
<1> QED
  BY ReadsStart, <1>1, <1>2, PTL DEF ReadsSpec

-----------------------------------------------------------------------------
(* The three parts share nothing.                                           *)

LEMMA PartsStep ==
  ASSUME TestkitInv, ReadsInv, SubscriptionInv, [Next]_<<part, testkitVars, readsVars, subscriptionVars>>
  PROVE  TestkitInv' /\ ReadsInv' /\ SubscriptionInv'
<1>1. [TestkitNext]_testkitVars /\ [ReadsNext]_readsVars /\ [SubscriptionsNext]_subscriptionVars
  BY DEF Next
<1> QED
  BY <1>1, TestkitStep, ReadsStep, SubscriptionStep

(* What the data library tells its users is what the contracts hold: the    *)
(* testkit's mocks, the reads and the subscriptions of orbs-pos-data.       *)
THEOREM DataLibraryTellsTheTruth ==
  Spec => [](TestkitIsTheContracts /\ ReadsAreTheContracts /\ SubscribersAreToldTheTruth)
<1>1. Init => TestkitInv /\ ReadsInv /\ SubscriptionInv
  BY TestkitStarts, ReadsStart, SubscriptionStarts DEF Init
<1>2. TestkitInv /\ ReadsInv /\ SubscriptionInv /\ [Next]_<<part, testkitVars, readsVars, subscriptionVars>>
        => TestkitInv' /\ ReadsInv' /\ SubscriptionInv'
  BY PartsStep
<1>3. TestkitInv => TestkitIsTheContracts
  BY TestkitHolds
<1>4. ReadsInv => ReadsAreTheContracts
  BY DEF ReadsInv, AnswerIsOfItsTime
<1>5. SubscriptionInv => SubscribersAreToldTheTruth
  BY SubscriptionHolds
<1> QED
  BY <1>1, <1>2, <1>3, <1>4, <1>5, PTL DEF Spec

=============================================================================
