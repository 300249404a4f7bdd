-------------------------- MODULE StatusPage_proofs --------------------------
(***************************************************************************)
(* Proofs about the status page, for every past of Ethereum, every size of  *)
(* the pages and every length of the elections' period, in five parts: the  *)
(* blocks a search reaches, the delegations that are kept from search to    *)
(* search and through the files, what one election makes of them, the files *)
(* of the runs, and that they say what the contract computes.               *)
(***************************************************************************)
EXTENDS StatusPage, Tally_proofs

-----------------------------------------------------------------------------
(* I.  The blocks a search reaches                                          *)

LEMMA Sizes ==
  /\ Paging \in Nat \ {0} /\ SlowPaging \in Nat \ {0} /\ GuardianPage \in Nat \ {0}
  /\ ElectionPeriod \in Nat \ {0} /\ MaxLevel \in Nat /\ VotingValidityPeriod \in Nat
  /\ ProcessStartBlock \in Nat /\ FirstElectionBlock \in Nat
  /\ FirstElectionBlock - ElectionPeriod \in Nat
  /\ FirstElectionBlock > VotingValidityPeriod
BY StatusPageAssumption

(* A finite set of numbers has a greatest one.                              *)
LEMMA GreatestOfFinite ==
  ASSUME NEW S \in SUBSET Nat, IsFiniteSet(S), S # {}
  PROVE  Max(S) \in S /\ \A k \in S : k <= Max(S)
<1> DEFINE Good == {T \in SUBSET S : \E n \in Nat : \A k \in T : k <= n}
<1>1. ASSUME NEW T \in SUBSET S, \A U \in SUBSET T : U # T => U \in Good
      PROVE  T \in Good
  <2>1. CASE T = {}
    BY <2>1
  <2>2. CASE T # {}
    <3>1. PICK x \in T : TRUE
      BY <2>2
    <3>2. T \ {x} \in Good
      BY <1>1, <3>1
    <3>3. PICK n \in Nat : \A k \in T \ {x} : k <= n
      BY <3>2
    <3>4. x \in Nat
      BY <3>1
    <3>5. PICK m \in Nat : n <= m /\ x <= m
      BY <3>4
    <3>6. \A k \in T : k <= m
      <4> SUFFICES ASSUME NEW k \in T PROVE k <= m
        OBVIOUS
      <4>1. k \in Nat /\ (k = x \/ k <= n)
        BY <3>3
      <4> QED BY <3>4, <3>5, <4>1
    <3> QED BY <3>6
  <2> QED BY <2>1, <2>2
<1>2. S \in Good
  <2> HIDE DEF Good
  <2> QED BY <1>1, SubsetInduction
<1>3. PICK n \in Nat : \A k \in S : k <= n
  BY <1>2
<1> QED BY <1>3, GreatestNumber

(* Multiples.                                                               *)
LEMMA IsMultiple ==
  ASSUME NEW n \in Nat \ {0}, NEW x \in Int, x % n = 0
  PROVE  \E k \in Int : x = n * k
<1>1. x = n * (x \div n) + (x % n) /\ x \div n \in Int
  BY DivisionOf
<1>2. PICK q \in Int : q = x \div n
  BY <1>1
<1>3. PICK p \in Int : p = n * q
  OBVIOUS
<1>4. x = p + 0
  BY <1>1, <1>2, <1>3
<1> QED BY <1>3, <1>4

LEMMA MultipleOf ==
  ASSUME NEW n \in Nat \ {0}, NEW k \in Int
  PROVE  (n * k) % n = 0
<1>1. n * k \in Int /\ n * k = 0 + n * k
  OBVIOUS
<1>2. (n * k) % n = 0 % n
  <2>1. PICK m \in Int : m = n * k
    BY <1>1
  <2>2. m = 0 + n * k
    BY <2>1
  <2>3. m % n = 0 % n
    BY <2>1, <2>2, SameRemainder
  <2> QED BY <2>1, <2>3
<1>3. 0 % n = 0
  OBVIOUS
<1> QED BY <1>2, <1>3

(* A multiple before another is followed by one that is not past it.        *)
LEMMA NextMultiple ==
  ASSUME NEW n \in Nat \ {0}, NEW x \in Int, NEW y \in Int, x % n = 0, y % n = 0, x < y
  PROVE  x + n <= y /\ (x + n) % n = 0
<1>1. PICK j \in Int : x = n * j
  BY IsMultiple
<1>2. PICK k \in Int : y = n * k
  BY IsMultiple
<1>3. ~(y - x < n)
  <2> SUFFICES ASSUME y - x < n PROVE FALSE
    OBVIOUS
  <2>1. PICK m \in Int : m = k - j
    OBVIOUS
  <2>2. n * m = n * k - n * j
    <3>1. n * (k - j) = n * k - n * j
      OBVIOUS
    <3> QED BY <2>1, <3>1
  <2>3. n * m < n /\ -n < n * m
    BY <1>1, <1>2, <2>2
  <2>4. m = 0
    BY <2>3, NoMultipleBetween
  <2> QED BY <1>1, <1>2, <2>1, <2>4
<1>4. (x + n) % n = x % n
  <2>1. n * 1 = n /\ x + n \in Int
    OBVIOUS
  <2>2. PICK z \in Int : z = x + n
    BY <2>1
  <2>3. PICK i \in Int : i = 1
    OBVIOUS
  <2>4. z = x + n * i
    BY <2>1, <2>2, <2>3
  <2>5. n \in Nat \ {0} /\ x \in Int
    OBVIOUS
  <2>6. z % n = x % n
    BY ONLY <2>2, <2>3, <2>4, <2>5, SameRemainder, Zenon
  <2> QED BY <2>2, <2>6
<1> QED BY <1>3, <1>4

(* Sums of multiples.                                                       *)
LEMMA SumOfMultiples ==
  ASSUME NEW n \in Nat \ {0}, NEW x \in Int, NEW y \in Int, x % n = 0, y % n = 0
  PROVE  (x + y) % n = 0
<1>1. PICK k \in Int : y = n * k
  BY IsMultiple
<1>2. PICK z \in Int : z = x + y
  OBVIOUS
<1>3. z = x + n * k
  BY <1>1, <1>2
<1>4. z % n = x % n
  BY <1>3, SameRemainder
<1> QED BY <1>2, <1>4

(* A multiple of a multiple.                                                *)
LEMMA MultipleOfMultiple ==
  ASSUME NEW n \in Nat \ {0}, NEW m \in Nat \ {0}, m % n = 0, NEW x \in Int, x % m = 0
  PROVE  x % n = 0
<1>1. PICK j \in Int : x = m * j
  BY IsMultiple
<1>2. PICK k \in Int : m = n * k
  BY IsMultiple
<1>3. PICK i \in Int : i = k * j
  OBVIOUS
<1>4. x = n * i
  <2>1. (n * k) * j = n * (k * j)
    OBVIOUS
  <2> QED BY <1>1, <1>2, <1>3, <2>1
<1> QED BY <1>4, MultipleOf

(* Every block before the end is on a page.                                 *)
LEMMA PagesCover ==
  ASSUME NEW start \in Int, NEW end \in Int, NEW paging \in Nat \ {0}, NEW x \in start .. end - 1
  PROVE  \E i \in Pages(start, end, paging) : i <= x /\ x < i + paging
<1>1. PICK r \in Int : r = (x - start) % paging
  BY DivisionOf
<1>2. PICK q \in Int : q = (x - start) \div paging
  BY DivisionOf
<1>3. x - start = paging * q + r /\ r \in 0 .. paging - 1
  BY <1>1, <1>2, DivisionOf
<1>4. x - start >= 0
  OBVIOUS
<1>5. paging * q >= 0
  <2>1. q >= 0 => paging * q >= 0
    OBVIOUS
  <2>2. q <= -1 => paging * q <= -paging
    OBVIOUS
  <2>3. q >= 0 \/ q <= -1
    OBVIOUS
  <2>4. PICK p \in Int : p = paging * q
    OBVIOUS
  <2>5. ~(p <= -paging)
    BY <1>3, <1>4, <2>4
  <2> QED BY <2>1, <2>2, <2>3, <2>4, <2>5
<1>6. PICK p \in Nat : p = paging * q
  BY <1>5
<1>7. p % paging = 0
  BY <1>6, MultipleOf
<1>8. PICK i \in Int : i = start + p
  OBVIOUS
<1>9. i - start = p /\ i <= x /\ x < i + paging /\ i \in start .. end - 1
  BY <1>3, <1>6, <1>8
<1>10. i \in Pages(start, end, paging)
  BY <1>7, <1>9 DEF Pages
<1> QED BY <1>9, <1>10

(* A page ends at most a page further, and not after the end.               *)
LEMMA PageEnds ==
  ASSUME NEW i \in Int, NEW end \in Int, i < end, NEW paging \in Nat \ {0}
  PROVE  /\ PageEnd(i, paging, end) \in Int /\ i < PageEnd(i, paging, end)
         /\ PageEnd(i, paging, end) <= end
         /\ \A x \in Int : x <= end /\ x <= i + paging => x <= PageEnd(i, paging, end)
BY DEF PageEnd

(* The searches for Delegates reach all of the range, and no further.       *)
LEMMA DelegatesReach ==
  ASSUME NEW start \in Int, NEW end \in Int, start < end
  PROVE  /\ DelegateBlocks(start, end, end) = start .. end
         /\ \A failed : DelegateBlocks(start, end, failed) \subseteq start .. end
<1>1. ASSUME NEW i \in Pages(start, end, Paging)
      PROVE  /\ i \in Int /\ start <= i /\ i < end
             /\ i .. PageEnd(i, Paging, end) \subseteq start .. end
  <2>1. i \in Int /\ start <= i /\ i < end
    BY DEF Pages
  <2>2. PageEnd(i, Paging, end) \in Int /\ PageEnd(i, Paging, end) <= end
    BY <2>1, Sizes, PageEnds
  <2> QED BY <2>1, <2>2
<1>2. \A failed : DelegateBlocks(start, end, failed) \subseteq start .. end
  BY <1>1 DEF DelegateBlocks
<1>3. ASSUME NEW x \in start .. end
      PROVE  x \in DelegateBlocks(start, end, end)
  <2>1. PICK y \in start .. end - 1 : y <= x /\ x <= y + 1
    <3>1. CASE x = end
      <4>1. end - 1 \in start .. end - 1 /\ end - 1 <= x /\ x <= (end - 1) + 1
        BY <3>1
      <4> QED BY <4>1
    <3>2. CASE x # end
      <4>1. x \in start .. end - 1 /\ x <= x + 1
        BY <3>2
      <4> QED BY <4>1
    <3> QED BY <3>1, <3>2
  <2>2. PICK i \in Pages(start, end, Paging) : i <= y /\ y < i + Paging
    BY Sizes, PagesCover
  <2>3. i \in Int /\ i < end
    BY <1>1
  <2>4. x <= PageEnd(i, Paging, end)
    <3>1. x \in Int /\ y \in Int /\ x <= end
      OBVIOUS
    <3>2. x <= i + Paging
      BY <2>1, <2>2, <2>3, <3>1, Sizes
    <3> QED BY <2>3, <3>1, <3>2, Sizes, PageEnds
  <2>5. PageEnd(i, Paging, end) \in Int
    BY <2>3, Sizes, PageEnds
  <2>6. x \in i .. PageEnd(i, Paging, end)
    BY <2>1, <2>2, <2>3, <2>4, <2>5
  <2> QED BY <2>3, <2>6 DEF DelegateBlocks
<1> QED BY <1>2, <1>3

(* One page searched again in smaller ones.                                 *)
SmallPages(i, end) ==
  UNION {j .. j + SlowPaging : j \in Pages(i, PageEnd(i, Paging, end), SlowPaging)}

LEMMA SmallPagesReach ==
  ASSUME NEW i \in Int, NEW end \in Int, i < end
  PROVE  /\ i .. PageEnd(i, Paging, end) \subseteq SmallPages(i, end)
         /\ SmallPages(i, end) \subseteq i .. end + SlowPaging
         /\ (end - i) % SlowPaging = 0 => SmallPages(i, end) \subseteq i .. end
<1>1. PICK last : last = PageEnd(i, Paging, end)
  OBVIOUS
<1>2. last \in Int /\ i < last /\ last <= end
  BY <1>1, Sizes, PageEnds
<1>3. ASSUME NEW j \in Pages(i, last, SlowPaging)
      PROVE  j \in Int /\ i <= j /\ j < last /\ (j - i) % SlowPaging = 0
  <2>1. j \in i .. last - 1 /\ (j - i) % SlowPaging = 0
    BY DEF Pages
  <2> QED BY <1>2, <2>1
<1>4. ASSUME NEW x \in i .. last PROVE x \in SmallPages(i, end)
  <2>1. PICK y \in i .. last - 1 : y <= x /\ x <= y + 1
    <3>1. CASE x = last
      <4>1. last - 1 \in i .. last - 1 /\ last - 1 <= x /\ x <= (last - 1) + 1
        BY <1>2, <3>1
      <4> QED BY <4>1
    <3>2. CASE x # last
      <4>1. x \in i .. last - 1 /\ x <= x + 1
        BY <1>2, <3>2
      <4> QED BY <4>1
    <3> QED BY <3>1, <3>2
  <2>2. PICK j \in Pages(i, last, SlowPaging) : j <= y /\ y < j + SlowPaging
    BY <1>2, Sizes, PagesCover
  <2>3. x \in j .. j + SlowPaging
    <3>1. x \in Int /\ y \in Int /\ j \in Int
      BY <1>2, <1>3
    <3> QED BY <2>1, <2>2, <3>1, Sizes
  <2> QED BY <1>1, <2>3 DEF SmallPages
<1>5. SmallPages(i, end) \subseteq i .. end + SlowPaging
  <2>1. ASSUME NEW j \in Pages(i, last, SlowPaging)
        PROVE  j .. j + SlowPaging \subseteq i .. end + SlowPaging
    BY <1>2, <1>3, Sizes
  <2> QED BY <1>1, <2>1 DEF SmallPages
<1>6. ASSUME (end - i) % SlowPaging = 0, NEW j \in Pages(i, last, SlowPaging)
      PROVE  j .. j + SlowPaging \subseteq i .. end
  <2>1. j \in Int /\ i <= j /\ j < last /\ (j - i) % SlowPaging = 0
    BY <1>3
  <2>2. PICK x, y : x = j - i /\ y = end - i
    OBVIOUS
  <2>3. x \in Int /\ y \in Int /\ x < y /\ x % SlowPaging = 0 /\ y % SlowPaging = 0
    BY <1>2, <1>6, <2>1, <2>2
  <2>4. x + SlowPaging <= y
    BY <2>3, Sizes, NextMultiple
  <2>5. j + SlowPaging <= end
    BY <2>1, <2>2, <2>4, Sizes
  <2> QED BY <2>1, <2>5, Sizes
<1>7. (end - i) % SlowPaging = 0 => SmallPages(i, end) \subseteq i .. end
  BY <1>1, <1>6 DEF SmallPages
<1> QED BY <1>1, <1>4, <1>5, <1>7

(* The searches for transfers reach all of the range, and no further unless *)
(* small pages do not fit in it.                                            *)
LEMMA TransfersReach ==
  ASSUME NEW start \in Int, NEW end \in Int, start < end, NEW slow
  PROVE  /\ start .. end \subseteq TransferBlocks(start, end, slow)
         /\ TransferBlocks(start, end, slow) \subseteq start .. end + SlowPaging
         /\ end = start + ElectionPeriod => TransferBlocks(start, end, slow) = start .. end
<1> DEFINE page(i) == IF i \in slow THEN SmallPages(i, end) ELSE i .. PageEnd(i, Paging, end)
<1>1. TransferBlocks(start, end, slow) = UNION {page(i) : i \in Pages(start, end, Paging)}
  BY DEF TransferBlocks, SmallPages
<1>2. ASSUME NEW i \in Pages(start, end, Paging)
      PROVE  /\ i \in Int /\ start <= i /\ i < end /\ (i - start) % Paging = 0
             /\ PageEnd(i, Paging, end) \in Int /\ PageEnd(i, Paging, end) <= end
  <2>1. i \in Int /\ start <= i /\ i < end /\ (i - start) % Paging = 0
    BY DEF Pages
  <2> QED BY <2>1, Sizes, PageEnds
<1>3. ASSUME NEW i \in Pages(start, end, Paging)
      PROVE  /\ i .. PageEnd(i, Paging, end) \subseteq page(i)
             /\ page(i) \subseteq start .. end + SlowPaging
             /\ end = start + ElectionPeriod => page(i) \subseteq start .. end
  <2>1. CASE i \notin slow
    <3>1. page(i) = i .. PageEnd(i, Paging, end)
      BY <2>1
    <3> QED BY <1>2, <3>1, Sizes
  <2>2. CASE i \in slow
    <3>1. page(i) = SmallPages(i, end)
      BY <2>2
    <3>2. /\ i .. PageEnd(i, Paging, end) \subseteq SmallPages(i, end)
          /\ SmallPages(i, end) \subseteq i .. end + SlowPaging
          /\ (end - i) % SlowPaging = 0 => SmallPages(i, end) \subseteq i .. end
      BY <1>2, SmallPagesReach
    <3>3. i .. end + SlowPaging \subseteq start .. end + SlowPaging /\ i .. end \subseteq start .. end
      BY <1>2, Sizes
    <3>4. ASSUME end = start + ElectionPeriod PROVE (end - i) % SlowPaging = 0
      <4>1. PICK x \in Int : x = i - start
        BY <1>2
      <4>2. x % SlowPaging = 0
        BY <1>2, <4>1, Sizes, SmallPagesFit, MultipleOfMultiple
      <4>3. PICK k \in Int : x = SlowPaging * k
        BY <4>2, Sizes, IsMultiple
      <4>4. PICK m \in Int : m = -k
        OBVIOUS
      <4>5. PICK y \in Int : y = SlowPaging * m
        BY Sizes
      <4>6. y % SlowPaging = 0
        BY <4>5, Sizes, MultipleOf
      <4>7. y = -x
        <5>1. SlowPaging * (-k) = -(SlowPaging * k)
          BY Sizes
        <5> QED BY <4>3, <4>4, <4>5, <5>1
      <4>8. (ElectionPeriod + y) % SlowPaging = 0
        BY <4>6, Sizes, SmallPagesFit, SumOfMultiples
      <4>9. ElectionPeriod + y = end - i
        BY <1>2, <3>4, <4>1, <4>7, Sizes
      <4> QED BY <4>8, <4>9
    <3> HIDE DEF page
    <3> QED BY <3>1, <3>2, <3>3, <3>4
  <2> QED BY <2>1, <2>2
<1> HIDE DEF page
<1>4. ASSUME NEW x \in start .. end
      PROVE  x \in TransferBlocks(start, end, slow)
  <2>1. x \in DelegateBlocks(start, end, end)
    BY DelegatesReach
  <2>2. PICK i \in Pages(start, end, Paging) : x \in i .. PageEnd(i, Paging, end)
    BY <2>1 DEF DelegateBlocks
  <2> QED BY <1>1, <1>3, <2>2
<1> QED BY <1>1, <1>3, <1>4

-----------------------------------------------------------------------------
(* II.  The delegations that are kept                                       *)

LEMMA LastTxIs == LastTx \in Nat
BY SMT DEF LastTx

Event == [delegator : Address, to : Account, block : Nat, tx : 0 .. LastTx - 1,
          method : {"Transfer", "Delegate"}]

LEMMA HistoryIs ==
  ASSUME history \in Histories
  PROVE  /\ IsFiniteSet(history.events) /\ history.events \subseteq Event
         /\ \A e \in history.events : e.block >= ProcessStartBlock
         /\ \A e, f \in history.events :
              e.delegator = f.delegator /\ e.method = f.method /\ e.block = f.block /\ e.tx = f.tx
                => e = f
         /\ DOMAIN history.guardians = Elections
         /\ \A b \in Elections :
              history.guardians[b] \in Seq(Address) /\ IsInjective(history.guardians[b])
         /\ history.stake \in [Elections -> [Address -> Nat]] /\ DOMAIN history.stake = Elections
         /\ history.locked \in [Elections -> [Address -> Nat]]
         /\ \A a \in Address : history.votes[a] \in SUBSET Nat /\ IsFiniteSet(history.votes[a])
<1>1. /\ IsFiniteSet(history.events)
      /\ \A e \in history.events : e \in Event /\ e.block >= ProcessStartBlock
      /\ \A e, f \in history.events :
           e.delegator = f.delegator /\ e.method = f.method /\ e.block = f.block /\ e.tx = f.tx
             => e = f
      /\ DOMAIN history.guardians = Elections
      /\ \A b \in Elections :
           history.guardians[b] \in Seq(Address) /\ IsInjective(history.guardians[b])
      /\ history.stake \in [Elections -> [Address -> Nat]]
      /\ history.locked \in [Elections -> [Address -> Nat]]
      /\ history.votes \in [Address -> SUBSET Nat]
      /\ \A a \in Address : IsFiniteSet(history.votes[a])
  BY HistoriesAssumption DEF Event
<1> QED BY <1>1

(* The strongest event of each delegator in X.                              *)
Strongest(X) == {e \in X : \A f \in X : f.delegator = e.delegator => ~Replaces(f, e)}

(* Of two events of a delegator one replaces the other.                     *)
LEMMA ReplacesIsAnOrder ==
  ASSUME history \in Histories, NEW e \in history.events, NEW f \in history.events,
         NEW g \in history.events
  PROVE  /\ ~Replaces(e, e)
         /\ e.delegator = f.delegator /\ e # f => Replaces(e, f) \/ Replaces(f, e)
         /\ Replaces(e, f) /\ Replaces(f, g) => Replaces(e, g)
         /\ ~(Replaces(e, f) /\ Replaces(f, e))
<1>1. e \in Event /\ f \in Event /\ g \in Event
  BY HistoryIs
<1>2. /\ e.block \in Nat /\ f.block \in Nat /\ g.block \in Nat
      /\ e.tx \in Int /\ f.tx \in Int /\ g.tx \in Int
      /\ e.method \in {"Transfer", "Delegate"} /\ f.method \in {"Transfer", "Delegate"}
      /\ g.method \in {"Transfer", "Delegate"}
  BY <1>1, LastTxIs DEF Event
<1>3. e.delegator = f.delegator /\ e.method = f.method /\ e.block = f.block /\ e.tx = f.tx => e = f
  BY HistoryIs
<1> QED BY <1>2, <1>3 DEF Replaces, Newer

(* Everyone with an event in X has a strongest one.                         *)
LEMMA StrongestExists ==
  ASSUME history \in Histories, NEW X \in SUBSET history.events, NEW f \in X
  PROVE  \E o \in Strongest(X) : o.delegator = f.delegator
<1> DEFINE Good == {T \in SUBSET X : \A e \in T : \E o \in Strongest(T) : o.delegator = e.delegator}
<1>1. ASSUME NEW T \in SUBSET X, \A U \in SUBSET T : U # T => U \in Good
      PROVE  T \in Good
  <2> SUFFICES ASSUME NEW e \in T PROVE \E o \in Strongest(T) : o.delegator = e.delegator
    OBVIOUS
  <2>1. T \ {e} \in Good
    BY <1>1
  <2>2. CASE \A g \in T \ {e} : g.delegator # e.delegator
    <3>1. ~Replaces(e, e)
      BY ReplacesIsAnOrder
    <3>2. e \in Strongest(T)
      BY <2>2, <3>1 DEF Strongest
    <3> QED BY <3>2
  <2>3. CASE \E g \in T \ {e} : g.delegator = e.delegator
    <3>1. PICK o \in Strongest(T \ {e}) : o.delegator = e.delegator
      BY <2>1, <2>3
    <3>2. /\ o \in T \ {e}
          /\ \A g \in T \ {e} : g.delegator = e.delegator => ~Replaces(g, o)
      BY <3>1 DEF Strongest
    <3>3. CASE Replaces(e, o)
      <4>1. ASSUME NEW g \in T, g.delegator = e.delegator PROVE ~Replaces(g, e)
        <5>1. g \in history.events /\ e \in history.events /\ o \in history.events
          BY <3>2
        <5>2. CASE g = e
          BY <5>1, <5>2, ReplacesIsAnOrder
        <5>3. CASE g # e
          <6>1. ~Replaces(g, o)
            BY <3>2, <4>1, <5>3
          <6> QED BY <3>3, <5>1, <6>1, ReplacesIsAnOrder
        <5> QED BY <5>2, <5>3
      <4> QED BY <4>1 DEF Strongest
    <3>4. CASE ~Replaces(e, o)
      BY <3>1, <3>2, <3>4 DEF Strongest
    <3> QED BY <3>3, <3>4
  <2> QED BY <2>2, <2>3
<1>2. IsFiniteSet(X)
  BY HistoryIs, FS_Subset
<1>3. X \in Good
  <2> HIDE DEF Good
  <2> QED BY <1>1, <1>2, SubsetInduction
<1> QED BY <1>3

LEMMA StrongestIsOne ==
  ASSUME history \in Histories, NEW X \in SUBSET history.events,
         NEW o \in Strongest(X), NEW p \in Strongest(X), o.delegator = p.delegator
  PROVE  o = p
<1>1. o \in X /\ p \in X /\ ~Replaces(o, p) /\ ~Replaces(p, o)
  BY DEF Strongest
<1> QED BY <1>1, ReplacesIsAnOrder

(* The strongest of two sets of which the second cannot be replaced.        *)
LEMMA StrongestOfBoth ==
  ASSUME history \in Histories, NEW A \in SUBSET history.events, NEW B \in SUBSET history.events,
         \A e \in A \ B, f \in B : e.delegator = f.delegator => ~Replaces(e, f)
  PROVE  Strongest(A \cup B) = Overwrite(Strongest(A), Strongest(B))
<1>1. ASSUME NEW e \in Strongest(A \cup B)
      PROVE  e \in Overwrite(Strongest(A), Strongest(B))
  <2>1. e \in A \cup B /\ \A f \in A \cup B : f.delegator = e.delegator => ~Replaces(f, e)
    BY DEF Strongest
  <2>2. CASE e \in B
    <3>1. e \in Strongest(B)
      BY <2>1, <2>2 DEF Strongest
    <3> QED BY <3>1 DEF Overwrite
  <2>3. CASE e \notin B
    <3>1. e \in A /\ e \in Strongest(A)
      BY <2>1, <2>3 DEF Strongest
    <3>2. ASSUME NEW f \in Strongest(B), f.delegator = e.delegator PROVE FALSE
      <4>1. f \in B /\ f # e
        BY <2>3 DEF Strongest
      <4>2. ~Replaces(f, e) /\ ~Replaces(e, f)
        BY <2>1, <2>3, <3>1, <3>2, <4>1
      <4>3. e \in history.events /\ f \in history.events
        BY <3>1, <4>1
      <4> QED BY <3>2, <4>1, <4>2, <4>3, ReplacesIsAnOrder
    <3> QED BY <3>1, <3>2 DEF Overwrite
  <2> QED BY <2>2, <2>3
<1>2. ASSUME NEW e \in Overwrite(Strongest(A), Strongest(B))
      PROVE  e \in Strongest(A \cup B)
  <2>1. CASE e \in Strongest(B)
    <3>1. e \in B /\ \A f \in B : f.delegator = e.delegator => ~Replaces(f, e)
      BY <2>1 DEF Strongest
    <3>2. \A f \in A : f.delegator = e.delegator => ~Replaces(f, e)
      BY <3>1
    <3> QED BY <3>1, <3>2 DEF Strongest
  <2>2. CASE e \in Strongest(A) /\ \A f \in Strongest(B) : f.delegator # e.delegator
    <3>1. \A f \in B : f.delegator # e.delegator
      BY <2>2, StrongestExists
    <3> QED BY <2>2, <3>1 DEF Strongest
  <2> QED BY <2>1, <2>2 DEF Overwrite
<1> QED BY <1>1, <1>2

(* The events of X that were made in one of the two ways.                   *)
By(X, method) == {e \in X : e.method = method}

(* Of one kind, the strongest are the newest.                               *)
LEMMA NewestAreStrongest ==
  ASSUME NEW X, NEW method
  PROVE  LatestOf(By(X, method)) = Strongest(By(X, method))
<1>1. \A e, f \in By(X, method) : e.method = f.method
  BY DEF By
<1>2. method = "Transfer" => method # "Delegate"
  OBVIOUS
<1>3. \A e, f \in By(X, method) : Newer(f, e) <=> Replaces(f, e)
  BY <1>2 DEF By, Replaces
<1> QED BY <1>3 DEF LatestOf, Strongest

(* Merged, the newest of both kinds are the strongest.                      *)
LEMMA MergedAreStrongest ==
  ASSUME history \in Histories, NEW X \in SUBSET history.events
  PROVE  Overwrite(LatestOf(By(X, "Transfer")), LatestOf(By(X, "Delegate"))) = Strongest(X)
<1>1. By(X, "Transfer") \cup By(X, "Delegate") = X
  BY HistoryIs DEF By, Event
<1>2. \A e \in By(X, "Transfer"), f \in By(X, "Delegate") : ~Replaces(e, f)
  BY DEF By, Replaces
<1>3. By(X, "Transfer") \in SUBSET history.events /\ By(X, "Delegate") \in SUBSET history.events
  BY DEF By
<1>4. Strongest(By(X, "Transfer") \cup By(X, "Delegate"))
        = Overwrite(Strongest(By(X, "Transfer")), Strongest(By(X, "Delegate")))
  BY <1>2, <1>3, StrongestOfBoth
<1> QED BY <1>1, <1>4, NewestAreStrongest

(* Newer transactions are added to the lists of the latest.                 *)
LEMMA NewestOfBoth ==
  ASSUME history \in Histories, NEW X \in SUBSET history.events, NEW N \in SUBSET history.events,
         \A e \in X \ N, f \in N : e.block < f.block, NEW method
  PROVE  Overwrite(LatestOf(By(X, method)), LatestOf(By(N, method))) = LatestOf(By(X \cup N, method))
<1>1. By(X, method) \in SUBSET history.events /\ By(N, method) \in SUBSET history.events
  BY DEF By
<1>2. ASSUME NEW e \in By(X, method) \ By(N, method), NEW f \in By(N, method) PROVE ~Replaces(e, f)
  <2>1. e.method = f.method /\ e \in X \ N /\ f \in N
    BY DEF By
  <2>2. e.block < f.block /\ e.block \in Nat /\ f.block \in Nat
    BY <2>1, HistoryIs DEF Event
  <2>3. ~Newer(e, f)
    BY <2>2 DEF Newer
  <2> QED BY <2>1, <2>3 DEF Replaces
<1>3. By(X, method) \cup By(N, method) = By(X \cup N, method)
  BY DEF By
<1>4. Strongest(By(X, method) \cup By(N, method))
        = Overwrite(Strongest(By(X, method)), Strongest(By(N, method)))
  BY <1>1, <1>2, StrongestOfBoth
<1> QED BY <1>3, <1>4, NewestAreStrongest

(* An event as it is read back from a file.                                 *)
Stamped(e) == [e EXCEPT !.tx = LastTx]

Same(e, o) == e = o \/ e = Stamped(o)

LEMMA StampedIs ==
  ASSUME history \in Histories, NEW o \in history.events
  PROVE  /\ Stamped(o).delegator = o.delegator /\ Stamped(o).to = o.to
         /\ Stamped(o).block = o.block /\ Stamped(o).method = o.method
         /\ Stamped(o).tx = LastTx /\ Stamped(Stamped(o)) = Stamped(o)
         /\ Stamped(o) \notin history.events
<1>1. o \in Event
  BY HistoryIs
<1>2. /\ Stamped(o).delegator = o.delegator /\ Stamped(o).to = o.to
      /\ Stamped(o).block = o.block /\ Stamped(o).method = o.method
      /\ Stamped(o).tx = LastTx
  BY <1>1 DEF Stamped, Event
<1>3. Stamped(Stamped(o)) = Stamped(o)
  BY <1>1 DEF Stamped, Event
<1>4. ASSUME Stamped(o) \in history.events PROVE FALSE
  <2>1. Stamped(o).tx \in 0 .. LastTx - 1
    BY <1>4, HistoryIs DEF Event
  <2> QED BY <1>2, <2>1, LastTxIs
<1> QED BY <1>2, <1>3, <1>4

(* The entries of a map: at most one for each delegator.                    *)
MapTyped(D) ==
  /\ D \subseteq history.events \cup FromFile(history.events)
  /\ \A e, f \in D : e.delegator = f.delegator => e = f

(* D has, for everybody but those in W, the strongest of X.                 *)
KeepsStrongest(D, X, W) ==
  /\ \A e \in D : e.delegator \notin W => \E o \in Strongest(X) : Same(e, o)
  /\ \A o \in Strongest(X) : o.delegator \notin W => \E e \in D : Same(e, o)

(* Entries are events or what a file has of them.                           *)
LEMMA EntryIs ==
  ASSUME history \in Histories, NEW D, MapTyped(D), NEW e \in D
  PROVE  /\ \E o \in history.events : Same(e, o)
         /\ e.delegator \in Address /\ e.to \in Account /\ e.block \in Nat
         /\ e.method \in {"Transfer", "Delegate"}
         /\ e \in history.events \/ e.tx = LastTx
<1>1. PICK o \in history.events : Same(e, o)
  BY DEF MapTyped, FromFile, Same, Stamped
<1>2. o \in Event
  BY HistoryIs
<1>3. /\ e.delegator = o.delegator /\ e.to = o.to /\ e.block = o.block /\ e.method = o.method
      /\ e \in history.events \/ e.tx = LastTx
  BY <1>1, StampedIs DEF Same
<1> QED BY <1>1, <1>2, <1>3 DEF Event

(* What replaces an entry from a file would replace the event, and if it is *)
(* of a later block also the other way round.                               *)
LEMMA ReplacesStamped ==
  ASSUME history \in Histories, NEW o \in history.events, NEW f \in history.events
  PROVE  /\ Replaces(f, Stamped(o)) => Replaces(f, o)
         /\ f.block > o.block /\ Replaces(f, o) => Replaces(f, Stamped(o))
<1>1. o \in Event /\ f \in Event
  BY HistoryIs
<1>2. /\ o.block \in Nat /\ f.block \in Nat /\ f.tx \in Int /\ f.tx < LastTx
  BY <1>1, LastTxIs DEF Event
<1>3. /\ Stamped(o).block = o.block /\ Stamped(o).method = o.method /\ Stamped(o).tx = LastTx
  BY StampedIs
<1>4. ~(f.tx > LastTx)
  BY <1>2, LastTxIs
<1> QED BY <1>2, <1>3, <1>4 DEF Replaces, Newer

(* The map after a search that found the strongest of N.                    *)
LEMMA UpdatedMap ==
  ASSUME history \in Histories, NEW D, MapTyped(D), NEW X \in SUBSET history.events,
         NEW N \in SUBSET history.events, NEW W, KeepsStrongest(D, X, W),
         D \subseteq history.events \/ \A f \in N \ X, o \in X : f.block > o.block,
         NEW A, A = Accepted(D, Strongest(N))
  PROVE  KeepsStrongest(Overwrite(D, A), X \cup N, W)
<1>1. \A e, o : o \in history.events /\ Same(e, o) => e.delegator = o.delegator
  BY StampedIs DEF Same
<1>2. /\ A \subseteq Strongest(N) /\ Strongest(N) \subseteq N /\ Strongest(X) \subseteq X
      /\ \A f \in A : \A d \in D : d.delegator = f.delegator => Replaces(f, d)
      /\ \A f \in Strongest(N) : f \in A \/ \E d \in D : d.delegator = f.delegator /\ ~Replaces(f, d)
      /\ X \subseteq history.events /\ N \subseteq history.events
  BY DEF Accepted, Strongest
<1>3. ASSUME NEW e \in A, e.delegator \notin W
      PROVE  e \in Strongest(X \cup N)
  <2>1. e \in N /\ \A g \in N : g.delegator = e.delegator => ~Replaces(g, e)
    BY <1>2 DEF Strongest
  <2>2. ASSUME NEW g \in X, g.delegator = e.delegator, Replaces(g, e) PROVE FALSE
    <3>1. PICK o \in Strongest(X) : o.delegator = g.delegator
      BY StrongestExists
    <3>2. PICK d \in D : Same(d, o)
      BY <1>3, <2>2, <3>1 DEF KeepsStrongest
    <3>3. Replaces(e, d)
      BY <1>1, <1>2, <2>2, <3>1, <3>2
    <3>4. Replaces(e, o)
      BY <1>2, <2>1, <3>2, <3>3, ReplacesStamped DEF Same
    <3>5. Replaces(g, o)
      BY <1>2, <2>1, <2>2, <3>4, ReplacesIsAnOrder
    <3> QED BY <3>1, <3>5 DEF Strongest
  <2> QED BY <2>1, <2>2 DEF Strongest
<1>4. ASSUME NEW e \in D, e.delegator \notin W, \A f \in A : f.delegator # e.delegator
      PROVE  \E o \in Strongest(X \cup N) : Same(e, o)
  <2>1. PICK o \in Strongest(X) : Same(e, o)
    BY <1>4 DEF KeepsStrongest
  <2>2. o \in X /\ o.delegator = e.delegator /\ o \in history.events
    BY <1>1, <1>2, <2>1
  <2>3. ASSUME NEW g \in N, g.delegator = o.delegator, Replaces(g, o) PROVE FALSE
    <3>1. PICK f \in Strongest(N) : f.delegator = g.delegator
      BY StrongestExists
    <3>2. f \in N /\ f \in history.events /\ g \in history.events
      BY <1>2, <3>1
    <3>3. ~Replaces(g, f)
      BY <3>1 DEF Strongest
    <3>4. Replaces(f, o)
      BY <2>2, <2>3, <3>1, <3>2, <3>3, ReplacesIsAnOrder
    <3>5. f \notin X
      BY <2>1, <2>3, <3>1, <3>4 DEF Strongest
    <3>6. Replaces(f, e)
      <4>1. CASE e = o
        BY <3>4, <4>1
      <4>2. CASE e = Stamped(o)
        <5>1. ~(D \subseteq history.events)
          BY <2>2, <4>2, StampedIs
        <5>2. f.block > o.block
          BY <2>2, <3>2, <3>5, <5>1
        <5> QED BY <2>2, <3>2, <3>4, <4>2, <5>2, ReplacesStamped
      <4> QED BY <2>1, <4>1, <4>2 DEF Same
    <3>7. \A d \in D : d.delegator = f.delegator => d = e
      BY <2>2, <2>3, <3>1 DEF MapTyped
    <3> QED BY <1>2, <1>4, <2>2, <2>3, <3>1, <3>6, <3>7
  <2>4. o \in Strongest(X \cup N)
    BY <2>1, <2>2, <2>3 DEF Strongest
  <2> QED BY <2>1, <2>4
<1>5. ASSUME NEW e \in Overwrite(D, A), e.delegator \notin W
      PROVE  \E o \in Strongest(X \cup N) : Same(e, o)
  <2>1. e \in A \/ (e \in D /\ \A f \in A : f.delegator # e.delegator)
    BY DEF Overwrite
  <2> QED BY <1>3, <1>4, <1>5, <2>1 DEF Same
<1>6. ASSUME NEW o \in Strongest(X \cup N), o.delegator \notin W
      PROVE  \E e \in Overwrite(D, A) : Same(e, o)
  <2>1. o \in X \cup N /\ o \in history.events
    BY <1>2 DEF Strongest
  <2>2. ASSUME NEW d \in D, d.delegator = o.delegator
        PROVE  \E e \in Overwrite(D, A) : e.delegator = o.delegator
    BY <2>2 DEF Overwrite
  <2>3. \E e \in Overwrite(D, A) : e.delegator = o.delegator
    <3>1. CASE o \in X
      <4>1. PICK p \in Strongest(X) : p.delegator = o.delegator
        BY <3>1, StrongestExists
      <4>2. PICK d \in D : Same(d, p)
        BY <1>6, <4>1 DEF KeepsStrongest
      <4> QED BY <1>1, <1>2, <2>2, <4>1, <4>2
    <3>2. CASE o \in N
      <4>1. PICK f \in Strongest(N) : f.delegator = o.delegator
        BY <3>2, StrongestExists
      <4>2. CASE f \in A
        BY <4>1, <4>2 DEF Overwrite
      <4>3. CASE f \notin A
        BY <1>2, <2>2, <4>1, <4>3
      <4> QED BY <4>2, <4>3
    <3> QED BY <2>1, <3>1, <3>2
  <2>4. PICK e \in Overwrite(D, A) : e.delegator = o.delegator
    BY <2>3
  <2>5. PICK p \in Strongest(X \cup N) : Same(e, p)
    BY <1>5, <1>6, <2>4
  <2>6. p \in history.events /\ X \cup N \in SUBSET history.events
    BY <1>2 DEF Strongest
  <2>7. p = o
    BY <1>1, <2>4, <2>5, <2>6, StrongestIsOne
  <2> QED BY <2>4, <2>5, <2>7
<1> QED BY <1>5, <1>6 DEF KeepsStrongest

(* What a search comes to: it found the strongest of N.                     *)
Searched(N, start, end) ==
  /\ delegatorsMap' = Overwrite(delegatorsMap, Accepted(delegatorsMap, Strongest(N)))
  /\ guardianOf \in [Address -> Account] => guardianOf' \in [Address -> Account]
  /\ \A e \in N : e.block \in start .. end + SlowPaging
  /\ end = start + ElectionPeriod => \A e \in N : e.block \in start .. end
  /\ dropped' \in BOOLEAN
  /\ ~dropped' =>
       /\ ~dropped
       /\ \A e \in history.events : e.block \in start .. end => e \in N
       /\ eventTxs' = [transfers |-> Overwrite(eventTxs.transfers, LatestOf(By(N, "Transfer"))),
                       delegates |-> Overwrite(eventTxs.delegates, LatestOf(By(N, "Delegate")))]

LEMMA SearchFinds ==
  ASSUME history \in Histories, NEW start \in Int, NEW end \in Int, start < end,
         SearchDelegations(start, end)
  PROVE  \E N \in SUBSET history.events : Searched(N, start, end)
<1>1. PICK slow, failed : /\ failed \in Pages(start, end, Paging) \cup {end}
                          /\ ReadDelegations(start, end, slow, failed)
  BY DEF SearchDelegations
<1> DEFINE TB == TransferBlocks(start, end, slow)
           T == {e \in history.events : e.method = "Transfer" /\ e.block \in TB}
           L == {e \in history.events : e.method = "Delegate" /\ e.block \in start .. end}
           N == IF failed < end THEN T ELSE T \cup L
           found == MergeEvents(EventsIn("Transfer", TB),
                                IF failed < end THEN {}
                                ELSE EventsIn("Delegate", DelegateBlocks(start, end, failed)))
           accepted == Accepted(delegatorsMap, found)
<1>2. /\ delegatorsMap' = Overwrite(delegatorsMap, accepted)
      /\ guardianOf' = [a \in Address |-> IF \E e \in accepted : e.delegator = a
                                            THEN EmptyAddress ELSE guardianOf[a]]
      /\ eventTxs' = [transfers |-> Overwrite(eventTxs.transfers, EventsIn("Transfer", TB)),
                      delegates |-> Overwrite(eventTxs.delegates,
                                      EventsIn("Delegate", DelegateBlocks(start, end, failed)))]
      /\ dropped' = (dropped \/ failed < end)
  BY <1>1 DEF ReadDelegations
<1>3. ~(failed < end) => failed = end
  BY <1>1 DEF Pages
<1>4. /\ By(N, "Transfer") = T
      /\ ~(failed < end) => By(N, "Delegate") = L
      /\ N \in SUBSET history.events
  BY DEF By
<1>5. EventsIn("Transfer", TB) = LatestOf(T)
  BY DEF EventsIn
<1>6. ~(failed < end) => EventsIn("Delegate", DelegateBlocks(start, end, failed)) = LatestOf(L)
  BY <1>3, DelegatesReach DEF EventsIn
<1>7. /\ \A e \in T : e.block \in start .. end + SlowPaging
      /\ end = start + ElectionPeriod => \A e \in T : e.block \in start .. end
      /\ \A e \in history.events : e.method = "Transfer" /\ e.block \in start .. end => e \in T
  BY TransfersReach
<1>8. start .. end \subseteq start .. end + SlowPaging
  BY Sizes
<1>9. found = Strongest(N)
  <2>1. CASE failed < end
    <3>1. found = LatestOf(T)
      BY <1>5, <2>1 DEF MergeEvents, Overwrite
    <3>2. LatestOf(By(T, "Transfer")) = Strongest(By(T, "Transfer"))
      BY NewestAreStrongest
    <3>3. By(T, "Transfer") = T /\ N = T
      BY <2>1 DEF By
    <3> QED BY <3>1, <3>2, <3>3
  <2>2. CASE ~(failed < end)
    <3>1. found = Overwrite(LatestOf(By(N, "Transfer")), LatestOf(By(N, "Delegate")))
      BY <1>4, <1>5, <1>6, <2>2 DEF MergeEvents
    <3> HIDE DEF found, N
    <3> QED BY <1>4, <3>1, MergedAreStrongest
  <2> QED BY <2>1, <2>2
<1>10. /\ \A e \in N : e.block \in start .. end + SlowPaging
       /\ end = start + ElectionPeriod => \A e \in N : e.block \in start .. end
  <2>1. \A e \in N : e \in T \/ e.block \in start .. end
    OBVIOUS
  <2> HIDE DEF N, T
  <2> QED BY <1>7, <1>8, <2>1
<1>11. ~(failed < end) => \A e \in history.events : e.block \in start .. end => e \in N
  <2> SUFFICES ASSUME ~(failed < end), NEW e \in history.events, e.block \in start .. end
               PROVE  e \in T \cup L
    OBVIOUS
  <2>1. e.method \in {"Transfer", "Delegate"}
    BY HistoryIs DEF Event
  <2> HIDE DEF T
  <2> QED BY <1>7, <2>1
<1>12. guardianOf \in [Address -> Account] => guardianOf' \in [Address -> Account]
  <2> HIDE DEF accepted
  <2> QED BY <1>2 DEF Account
<1> HIDE DEF N, T, L, TB, found
<1>13. dropped' \in BOOLEAN /\ (~dropped' => ~dropped /\ ~(failed < end))
  BY <1>2
<1>14. Searched(N, start, end)
  BY <1>2, <1>4, <1>5, <1>6, <1>9, <1>10, <1>11, <1>12, <1>13 DEF Searched
<1> QED BY <1>4, <1>14

(* A map stays one.                                                         *)
LEMMA MapStaysTyped ==
  ASSUME history \in Histories, NEW D, MapTyped(D), NEW N \in SUBSET history.events,
         NEW A, A = Accepted(D, Strongest(N))
  PROVE  MapTyped(Overwrite(D, A)) /\ A \subseteq N
<1>1. A \subseteq Strongest(N) /\ Strongest(N) \subseteq N
  BY DEF Accepted, Strongest
<1>2. \A e, f \in A : e.delegator = f.delegator => e = f
  BY <1>1, StrongestIsOne
<1> QED BY <1>1, <1>2 DEF MapTyped, Overwrite

(* What is read back from the file of a map.                                *)
LEMMA FromFileIs ==
  ASSUME history \in Histories, NEW D, MapTyped(D)
  PROVE  /\ MapTyped(FromFile(D))
         /\ \A b \in Int : (\A e \in D : e.block <= b) => \A e \in FromFile(D) : e.block <= b
         /\ \A X, W : X \subseteq history.events /\ KeepsStrongest(D, X, W)
                        => KeepsStrongest(FromFile(D), X, W)
<1>1. ASSUME NEW e \in D
      PROVE  \E o \in history.events : /\ Same(e, o) /\ Stamped(e) = Stamped(o)
                                       /\ Stamped(e).delegator = e.delegator
                                       /\ Stamped(e).block = e.block
  <2>1. PICK o \in history.events : Same(e, o)
    BY EntryIs
  <2> QED BY <2>1, StampedIs DEF Same
<1>2. \A e : e \in FromFile(D) <=> \E d \in D : e = Stamped(d)
  BY DEF FromFile, Stamped
<1>3. \A o \in history.events : Stamped(o) \in FromFile(history.events)
  BY DEF FromFile, Stamped
<1>4. MapTyped(FromFile(D))
  <2>1. FromFile(D) \subseteq FromFile(history.events)
    BY <1>1, <1>2, <1>3
  <2>2. \A e, f \in FromFile(D) : e.delegator = f.delegator => e = f
    BY <1>1, <1>2 DEF MapTyped
  <2> QED BY <2>1, <2>2 DEF MapTyped
<1>5. \A b \in Int : (\A e \in D : e.block <= b) => \A e \in FromFile(D) : e.block <= b
  BY <1>1, <1>2
<1>6. ASSUME NEW X, NEW W, X \subseteq history.events, KeepsStrongest(D, X, W)
      PROVE  KeepsStrongest(FromFile(D), X, W)
  <2>0. Strongest(X) \subseteq history.events
    BY <1>6 DEF Strongest
  <2>1. ASSUME NEW d \in D, NEW o \in history.events, Same(d, o) PROVE Same(Stamped(d), o)
    BY <2>1, StampedIs DEF Same
  <2>2. ASSUME NEW e \in FromFile(D), e.delegator \notin W
        PROVE  \E o \in Strongest(X) : Same(e, o)
    <3>1. PICK d \in D : e = Stamped(d)
      BY <1>2
    <3>2. d.delegator \notin W
      BY <1>1, <2>2, <3>1
    <3> QED BY <1>6, <2>0, <2>1, <3>1, <3>2 DEF KeepsStrongest
  <2>3. ASSUME NEW o \in Strongest(X), o.delegator \notin W
        PROVE  \E e \in FromFile(D) : Same(e, o)
    <3>1. PICK d \in D : Same(d, o)
      BY <1>6, <2>3 DEF KeepsStrongest
    <3> QED BY <1>2, <2>0, <2>1, <3>1
  <2> QED BY <2>2, <2>3 DEF KeepsStrongest
<1> QED BY <1>4, <1>5, <1>6

-----------------------------------------------------------------------------
(* III.  One election                                                       *)

(* The delegations K: those of the delegators N, none a guardian, to whom   *)
(* ag says.                                                                 *)
Leads(K, N, ag, G) ==
  /\ N \subseteq Address \ G /\ G \subseteq Address /\ ag \in [Account -> Account]
  /\ \A e \in K : e.delegator \in N /\ e.to = ag[e.delegator]
  /\ \A x \in N : \E e \in K : e.delegator = x

DelegationsBy(a, K) == {f \in K : f.delegator = a}

OneStepFrom(a, G, K, f) ==
  IF a \in G THEN a
  ELSE IF DelegationsBy(a, K) = {} THEN EmptyAddress
  ELSE f[(CHOOSE e \in DelegationsBy(a, K) : TRUE).to]

(* Where each account is led to over at most so many intermediaries.        *)
Walk(w, m, G, K) ==
  /\ w \in [0 .. m -> [Account -> Account]]
  /\ w[0] = [a \in Account |-> IF a \in G THEN a ELSE EmptyAddress]
  /\ \A k \in 1 .. m : w[k] = [a \in Account |-> OneStepFrom(a, G, K, w[k - 1])]

LEMMA StepIs ==
  ASSUME NEW K, NEW N, NEW ag, NEW G, Leads(K, N, ag, G), NEW a \in Account, NEW f
  PROVE  OneStepFrom(a, G, K, f) =
           IF a \in G THEN a ELSE IF a \in N THEN f[ag[a]] ELSE EmptyAddress
<1>1. CASE DelegationsBy(a, K) = {}
  <2>1. a \notin N
    BY <1>1 DEF Leads, DelegationsBy
  <2> QED BY <1>1, <2>1 DEF OneStepFrom
<1>2. CASE DelegationsBy(a, K) # {}
  <2>1. PICK e : e = CHOOSE x \in DelegationsBy(a, K) : TRUE
    OBVIOUS
  <2>2. e \in DelegationsBy(a, K)
    BY <1>2, <2>1
  <2>3. e \in K /\ e.delegator = a
    BY <2>2 DEF DelegationsBy
  <2>4. a \in N /\ e.to = ag[a]
    BY <2>3 DEF Leads
  <2> QED BY <1>2, <2>1, <2>4 DEF OneStepFrom
<1> QED BY <1>1, <1>2

(* The recursion of FollowDelegation, level by level.                       *)
LEMMA FollowByLevel ==
  ASSUME NEW K, NEW N, NEW ag, NEW G, Leads(K, N, ag, G), NEW m \in Nat
  PROVE  \E w : Walk(w, m, G, K) /\ \A e : e.to \in Account => FollowDelegation(e, G, K, m) = w[m][e.to]
<1> DEFINE V == [Account -> Account]
           base == [a \in Account |-> IF a \in G THEN a ELSE EmptyAddress]
           step == [k \in 1 .. m |-> [f \in V |-> [a \in Account |-> OneStepFrom(a, G, K, f)]]]
           Eq(w) == w = [left \in 0 .. m |->
                           [a \in Account |->
                              LET next == {f \in K : f.delegator = a}
                              IN  IF a \in G THEN a
                                  ELSE IF next = {} \/ left = 0 THEN EmptyAddress
                                  ELSE w[left - 1][(CHOOSE f \in next : TRUE).to]]]
           B == CHOOSE w : Eq(w)
<1>0. EmptyAddress \in Account /\ Address \subseteq Account
  BY DEF Account
<1>1. ASSUME NEW f \in V, NEW a \in Account PROVE OneStepFrom(a, G, K, f) \in Account
  <2>1. ag[a] \in Account
    BY DEF Leads
  <2> QED BY <1>0, <2>1, StepIs
<1>2. step \in [1 .. m -> [V -> V]]
  BY <1>1
<1>3. base \in V
  BY <1>0
<1>4. PICK w : MadeStepwise(w, m, V, base, step)
  <2> HIDE DEF V, base, step
  <2> QED BY <1>2, <1>3, StepByStep
<1>5. /\ w \in [0 .. m -> V] /\ w[0] = base
      /\ \A k \in 1 .. m : w[k] = step[k][w[k - 1]]
  <2> HIDE DEF V, base, step
  <2> QED BY <1>4 DEF MadeStepwise
<1>6. ASSUME NEW k \in 1 .. m
      PROVE  w[k] = [a \in Account |-> OneStepFrom(a, G, K, w[k - 1])]
  <2>1. k - 1 \in 0 .. m
    OBVIOUS
  <2>2. w[k - 1] \in V
    BY <1>5, <2>1
  <2>3. step[k] = [f \in V |-> [a \in Account |-> OneStepFrom(a, G, K, f)]]
    OBVIOUS
  <2> HIDE DEF step, V
  <2> QED BY <1>5, <2>2, <2>3
<1> DEFINE L(u, k) == [a \in Account |->
                         LET next == {f \in K : f.delegator = a}
                         IN  IF a \in G THEN a
                             ELSE IF next = {} \/ k = 0 THEN EmptyAddress
                             ELSE u[k - 1][(CHOOSE f \in next : TRUE).to]]
           R(u, k) == IF k = 0 THEN base ELSE [a \in Account |-> OneStepFrom(a, G, K, u[k - 1])]
<1>7. ASSUME NEW u, NEW k \in 0 .. m PROVE L(u, k) = R(u, k)
  BY DEF OneStepFrom, DelegationsBy
<1>8. ASSUME NEW u
      PROVE  Eq(u) <=> u = [k \in 0 .. m |->
                              IF k = 0 THEN base ELSE [a \in Account |-> OneStepFrom(a, G, K, u[k - 1])]]
  <2>1. Eq(u) <=> u = [k \in 0 .. m |-> L(u, k)]
    OBVIOUS
  <2> HIDE DEF L, R
  <2>2. \A k \in 0 .. m : L(u, k) = R(u, k)
    BY <1>7
  <2>3. Eq(u) <=> u = [k \in 0 .. m |-> R(u, k)]
    <3> HIDE DEF Eq
    <3> QED BY <2>1, <2>2
  <2> QED BY <2>3 DEF R
<1> HIDE DEF L, R
<1>9. Eq(w)
  <2>1. ASSUME NEW k \in 0 .. m
        PROVE w[k] = IF k = 0 THEN base ELSE [a \in Account |-> OneStepFrom(a, G, K, w[k - 1])]
    <3>1. k # 0 => k \in 1 .. m
      OBVIOUS
    <3> HIDE DEF base
    <3> QED BY <1>5, <1>6, <3>1
  <2>2. w = [k \in 0 .. m |-> w[k]]
    BY <1>5
  <2> HIDE DEF base, Eq
  <2> QED BY <1>8, <2>1, <2>2
<1>10. Eq(B)
  <2> HIDE DEF Eq
  <2> QED BY <1>9
<1>11. \A e : FollowDelegation(e, G, K, m) = B[m][e.to]
  BY DEF FollowDelegation
<1>12. B = [k \in 0 .. m |->
              IF k = 0 THEN base ELSE [a \in Account |-> OneStepFrom(a, G, K, B[k - 1])]]
  <2> HIDE DEF B, Eq, base
  <2> QED BY <1>8, <1>10
<1> HIDE DEF B, Eq
<1>13. /\ B[0] = base /\ B = [k \in 0 .. m |-> B[k]]
       /\ \A k \in 1 .. m : B[k] = [a \in Account |-> OneStepFrom(a, G, K, B[k - 1])]
  <2>1. 0 \in 0 .. m /\ \A k \in 1 .. m : k \in 0 .. m /\ k # 0
    OBVIOUS
  <2> HIDE DEF base
  <2> QED BY <1>12, <2>1
<1>14. \A k \in 0 .. m : B[k] \in V
  <2> DEFINE Good == {k \in Nat : k <= m => B[k] \in V}
  <2>1. 0 \in Good
    BY <1>3, <1>13
  <2>2. ASSUME NEW k \in Nat, k \in Good PROVE k + 1 \in Good
    <3> SUFFICES ASSUME k + 1 <= m PROVE B[k + 1] \in V
      OBVIOUS
    <3>1. k + 1 \in 1 .. m /\ k + 1 - 1 = k /\ k <= m
      OBVIOUS
    <3>2. B[k] \in V
      BY <2>2, <3>1
    <3>3. \A a \in Account : OneStepFrom(a, G, K, B[k]) \in Account
      BY <1>1, <3>2
    <3>4. B[k + 1] = [a \in Account |-> OneStepFrom(a, G, K, B[k])]
      <4>1. \A j \in 1 .. m : B[j] = [a \in Account |-> OneStepFrom(a, G, K, B[j - 1])]
        BY <1>13
      <4>2. B[k + 1] = [a \in Account |-> OneStepFrom(a, G, K, B[k + 1 - 1])]
        BY ONLY <3>1, <4>1
      <4> QED BY <3>1, <4>2
    <3> QED BY <3>3, <3>4
  <2>3. \A k \in Nat : k \in Good
    <3> HIDE DEF Good
    <3> QED BY <2>1, <2>2, CountUp
  <2> QED BY <2>3
<1>15. Walk(B, m, G, K)
  <2>1. B \in [0 .. m -> V]
    <3> HIDE DEF V, base
    <3> QED BY <1>13, <1>14
  <2> QED BY <1>13, <2>1 DEF Walk
<1> QED BY <1>11, <1>15

(* To r, one is led from a in at most k steps; or to nobody.                *)
Led(it, N, G, r, a, k) ==
  \/ r \in G /\ \E n \in 0 .. k : Reaches(it, a, n, r, N)
  \/ r = EmptyAddress /\ \A n \in 0 .. k, g \in G : ~Reaches(it, a, n, g, N)

(* Where the walk gets is where the chain of delegations leads.             *)
LEMMA WalkLeads ==
  ASSUME NEW K, NEW N, NEW ag, NEW G, Leads(K, N, ag, G),
         NEW it, NEW KK, Follows(it, KK, ag), NEW m \in Nat, m <= KK,
         NEW w, Walk(w, m, G, K)
  PROVE  \A a \in Account : Led(it, N, G, w[m][a], a, m)
<1> DEFINE Good == {k \in Nat : k <= m => \A a \in Account : Led(it, N, G, w[k][a], a, k)}
<1>0. KK \in Nat /\ G \subseteq Account /\ ag \in [Account -> Account] /\ N \subseteq Account
  BY DEF Follows, Leads, Account
<1>1. ASSUME NEW a \in Account, NEW g
      PROVE  /\ Reaches(it, a, 0, g, N) <=> g = a
             /\ ag[a] \in Account
  <2>1. it[0][a] = a /\ ag[a] \in Account
    BY OneStep
  <2> QED BY <2>1 DEF Reaches
<1>2. 0 \in Good
  <2> SUFFICES ASSUME NEW a \in Account PROVE Led(it, N, G, w[0][a], a, 0)
    OBVIOUS
  <2>1. w[0][a] = IF a \in G THEN a ELSE EmptyAddress
    BY DEF Walk
  <2>2. \A n \in 0 .. 0 : n = 0
    OBVIOUS
  <2>3. 0 \in 0 .. 0
    OBVIOUS
  <2> QED BY <1>1, <2>1, <2>2, <2>3 DEF Led
<1>3. ASSUME NEW k \in Nat, k \in Good PROVE k + 1 \in Good
  <2> SUFFICES ASSUME k + 1 <= m, NEW a \in Account PROVE Led(it, N, G, w[k + 1][a], a, k + 1)
    OBVIOUS
  <2>1. k + 1 \in 1 .. m /\ k + 1 - 1 = k /\ k <= m /\ k <= KK
    BY <1>0
  <2>2. w[k + 1] = [x \in Account |-> OneStepFrom(x, G, K, w[k + 1 - 1])]
    BY <2>1 DEF Walk
  <2>3. w[k + 1][a] = OneStepFrom(a, G, K, w[k])
    BY <2>1, <2>2
  <2>4. w[k + 1][a] = IF a \in G THEN a ELSE IF a \in N THEN w[k][ag[a]] ELSE EmptyAddress
    BY <2>3, StepIs
  <2>5. ASSUME NEW n \in 0 .. k, NEW g
        PROVE  Reaches(it, a, n + 1, g, N) <=> a \in N /\ Reaches(it, ag[a], n, g, N)
    <3>1. n \in 0 .. KK
      BY <1>0, <2>1
    <3> QED BY <3>1, OverTheAgent
  <2>6. \A n \in 0 .. k + 1 : n = 0 \/ (n - 1 \in 0 .. k /\ (n - 1) + 1 = n)
    OBVIOUS
  <2>7. 0 \in 0 .. k + 1 /\ \A n \in 0 .. k : n + 1 \in 0 .. k + 1
    OBVIOUS
  <2>8. CASE a \in G
    BY <1>1, <2>4, <2>7, <2>8 DEF Led
  <2>9. CASE a \notin G /\ a \notin N
    <3>1. \A n \in 0 .. k + 1, g \in G : ~Reaches(it, a, n, g, N)
      BY <1>1, <2>5, <2>6, <2>9
    <3> QED BY <2>4, <2>9, <3>1 DEF Led
  <2>10. CASE a \notin G /\ a \in N
    <3>1. Led(it, N, G, w[k][ag[a]], ag[a], k)
      BY <1>1, <1>3, <2>1
    <3>2. PICK r : r = w[k][ag[a]]
      OBVIOUS
    <3>3. w[k + 1][a] = r /\ Led(it, N, G, r, ag[a], k)
      BY <2>4, <2>10, <3>1, <3>2
    <3>4. CASE r \in G /\ \E n \in 0 .. k : Reaches(it, ag[a], n, r, N)
      <4>1. PICK n \in 0 .. k : Reaches(it, ag[a], n, r, N)
        BY <3>4
      <4>2. Reaches(it, a, n + 1, r, N)
        BY <2>5, <2>10, <4>1
      <4> QED BY <2>7, <3>3, <3>4, <4>2 DEF Led
    <3>5. CASE r = EmptyAddress /\ \A n \in 0 .. k, g \in G : ~Reaches(it, ag[a], n, g, N)
      <4>1. \A n \in 0 .. k + 1, g \in G : ~Reaches(it, a, n, g, N)
        BY <1>1, <2>5, <2>6, <2>10, <3>5
      <4> QED BY <3>3, <3>5, <4>1 DEF Led
    <3> QED BY <3>3, <3>4, <3>5 DEF Led
  <2> QED BY <2>8, <2>9, <2>10
<1>4. \A k \in Nat : k \in Good
  <2> HIDE DEF Good
  <2> QED BY <1>2, <1>3, CountUp
<1>5. m \in Good
  BY <1>4
<1> QED BY <1>5

(* So it is of FollowDelegation.                                            *)
LEMMA FollowedIs ==
  ASSUME NEW K, NEW N, NEW ag, NEW G, Leads(K, N, ag, G),
         NEW it, NEW KK, Follows(it, KK, ag), NEW m \in Nat, m <= KK,
         NEW e, e.to \in Account
  PROVE  Led(it, N, G, FollowDelegation(e, G, K, m), e.to, m)
<1>1. PICK w : Walk(w, m, G, K) /\ FollowDelegation(e, G, K, m) = w[m][e.to]
  BY FollowByLevel
<1> QED BY <1>1, WalkLeads

(* To one only.                                                             *)
LEMMA LedToOne ==
  ASSUME NEW it, NEW N, NEW G, G \cap N = {}, NEW a, NEW k \in Nat, NEW j \in Nat, k <= j,
         NEW r, NEW q, Led(it, N, G, r, a, k), Led(it, N, G, q, a, j), EmptyAddress \notin G
  PROVE  /\ r # EmptyAddress => r = q
         /\ \A n \in 0 .. k, g \in G : Reaches(it, a, n, g, N) => r = g
<1>1. \A n \in 0 .. k : n \in 0 .. j /\ n \in Nat
  OBVIOUS
<1>2. \A n \in 0 .. j : n \in Nat
  OBVIOUS
<1>3. \A n \in 0 .. j, l \in 0 .. j, g \in G, h \in G :
        Reaches(it, a, n, g, N) /\ Reaches(it, a, l, h, N) => g = h
  BY <1>2, OneEnd
<1> QED BY <1>1, <1>3 DEF Led

LEMMA LedToThis ==
  ASSUME NEW it, NEW N, NEW G, G \cap N = {}, NEW a, NEW k \in Nat, EmptyAddress \notin G,
         NEW r, NEW q, Led(it, N, G, r, a, k), Led(it, N, G, q, a, k)
  PROVE  r = q
<1>1. k <= k
  OBVIOUS
<1>2. r # EmptyAddress => r = q
  BY <1>1, LedToOne
<1>3. q # EmptyAddress => q = r
  BY <1>1, LedToOne
<1> QED BY <1>2, <1>3

(* What the contract's tally of an election is made of.                     *)
DataAt(block) ==
  [a \in Account |->
     [stake      |-> IF a \in Address
                       THEN history.stake[block][a] + history.locked[block][a] ELSE 0,
      voteAt     |-> IF a \in Address /\ CurrentVote(a, block) > block - VotingValidityPeriod
                       THEN CurrentVote(a, block) ELSE 0,
      candidates |-> {}]]

AgentsAt(block) ==
  [a \in Account |->
     LET own == {e \in InForce(block) : e.delegator = a}
     IN  IF own = {} THEN EmptyAddress ELSE (CHOOSE e \in own : TRUE).to]

ListedAt(block) == SetToSeq({e.delegator : e \in InForce(block)})

StakesAt(block) == [a \in Account |-> DataAt(block)[a].stake]

GuardiansAt(block) == ToSet(history.guardians[block])

DelegatorsAt(block) == {e.delegator : e \in Delegating(block)}

LEMMA ContractTallyIs ==
  ASSUME NEW b
  PROVE  ContractTally(b) =
           Tally(history.guardians[b], DataAt(b), ListedAt(b), AgentsAt(b), StakesAt(b))
BY DEF ContractTally, DataAt, ListedAt, AgentsAt, StakesAt

(* The events until a block, and who was a guardian in the elections.       *)
Past(block) == {e \in history.events : e.block <= block}

Formerly(block) == UNION {GuardiansAt(b) : b \in ElectionsUpTo(block)}

LEMMA InForceIs ==
  ASSUME history \in Histories, NEW b
  PROVE  /\ InForce(b) = Strongest(Past(b))
         /\ InForce(b) \subseteq Past(b) /\ Past(b) \subseteq history.events
         /\ \A e, f \in InForce(b) : e.delegator = f.delegator => e = f
         /\ \A e \in InForce(b) : e.delegator \in Address /\ e.to \in Account
<1>1. InForce(b) = Strongest(Past(b)) /\ InForce(b) \subseteq Past(b)
  BY DEF InForce, Strongest, Past
<1>2. Past(b) \in SUBSET history.events
  BY DEF Past
<1>3. \A e, f \in InForce(b) : e.delegator = f.delegator => e = f
  BY <1>1, <1>2, StrongestIsOne
<1>4. \A e \in history.events : e.delegator \in Address /\ e.to \in Account
  BY HistoryIs DEF Event
<1> QED BY <1>1, <1>2, <1>3, <1>4

(* The delegations that count are whom the contract's agents are.           *)
LEMMA AgentsAre ==
  ASSUME history \in Histories, NEW b \in Elections
  PROVE  /\ GuardiansAt(b) \subseteq Address /\ IsFiniteSet(GuardiansAt(b))
         /\ AgentsAt(b) \in [Account -> Account]
         /\ \A e \in InForce(b) : AgentsAt(b)[e.delegator] = e.to
         /\ Leads(Delegating(b), DelegatorsAt(b), AgentsAt(b), GuardiansAt(b))
         /\ \A KK \in Nat : Cardinality(Address) <= KK =>
              AllDelegate(DelegatorsAt(b), KK, AgentsAt(b), GuardiansAt(b))
         /\ IsFiniteSet(DelegatorsAt(b))
         /\ Cardinality(DelegatorsAt(b)) <= Cardinality(Address)
<1>1. history.guardians[b] \in Seq(Address)
  BY HistoryIs
<1>2. GuardiansAt(b) \subseteq Address /\ IsFiniteSet(GuardiansAt(b))
  BY <1>1, ListIsFinite DEF GuardiansAt
<1>3. \A e \in InForce(b) : e.delegator \in Account /\ e.delegator \in Address /\ e.to \in Account
  BY InForceIs DEF Account
<1>4. ASSUME NEW e \in InForce(b) PROVE AgentsAt(b)[e.delegator] = e.to
  <2>1. {f \in InForce(b) : f.delegator = e.delegator} = {e}
    BY InForceIs
  <2>2. AgentsAt(b)[e.delegator] =
          IF {f \in InForce(b) : f.delegator = e.delegator} = {} THEN EmptyAddress
          ELSE (CHOOSE f \in {f \in InForce(b) : f.delegator = e.delegator} : TRUE).to
    BY <1>3 DEF AgentsAt
  <2>3. AgentsAt(b)[e.delegator] = (CHOOSE f \in {e} : TRUE).to
    BY <2>1, <2>2
  <2> QED BY <2>3
<1>5. ASSUME NEW a \in Account
      PROVE  /\ AgentsAt(b)[a] \in Account
             /\ AgentsAt(b)[a] # EmptyAddress => \E e \in InForce(b) : e.delegator = a
  <2>1. CASE \E e \in InForce(b) : e.delegator = a
    BY <1>3, <1>4, <2>1
  <2>2. CASE ~(\E e \in InForce(b) : e.delegator = a)
    <3>1. {e \in InForce(b) : e.delegator = a} = {}
      BY <2>2
    <3>2. AgentsAt(b)[a] = EmptyAddress
      BY <3>1 DEF AgentsAt
    <3> QED BY <3>2 DEF Account
  <2> QED BY <2>1, <2>2
<1>6. AgentsAt(b) \in [Account -> Account]
  <2>1. AgentsAt(b) = [a \in Account |-> AgentsAt(b)[a]]
    BY DEF AgentsAt
  <2> QED BY <1>5, <2>1
<1>7. /\ Delegating(b) \subseteq InForce(b)
      /\ \A e \in InForce(b) : e \in Delegating(b) <=> e.delegator \notin GuardiansAt(b)
  BY DEF Delegating, GuardiansAt
<1>8. DelegatorsAt(b) \subseteq Address \ GuardiansAt(b)
  BY <1>3, <1>7 DEF DelegatorsAt
<1>9. Leads(Delegating(b), DelegatorsAt(b), AgentsAt(b), GuardiansAt(b))
  BY <1>2, <1>4, <1>6, <1>7, <1>8 DEF Leads, DelegatorsAt
<1>10. /\ IsFiniteSet(DelegatorsAt(b)) /\ Cardinality(DelegatorsAt(b)) <= Cardinality(Address)
       /\ Cardinality(DelegatorsAt(b)) \in Nat /\ Cardinality(Address) \in Nat
  <2>1. DelegatorsAt(b) \in SUBSET Address
    BY <1>8
  <2> QED BY <2>1, AddressAssumption, FS_Subset, FS_CardinalityType
<1>11. \A d \in Address \ GuardiansAt(b) : AgentsAt(b)[d] \in Address => d \in DelegatorsAt(b)
  BY <1>5, <1>7, EmptyAddressAssumption DEF DelegatorsAt, Account
<1>12. ASSUME NEW KK \in Nat, Cardinality(Address) <= KK
       PROVE  AllDelegate(DelegatorsAt(b), KK, AgentsAt(b), GuardiansAt(b))
  BY <1>8, <1>10, <1>11, <1>12 DEF AllDelegate
<1> QED BY <1>2, <1>4, <1>6, <1>9, <1>10, <1>12

(* The votes are numbers.                                                   *)
LEMMA CurrentVoteIs ==
  ASSUME history \in Histories, NEW g \in Address, NEW b
  PROVE  CurrentVote(g, b) \in Nat
<1> DEFINE V == {0} \cup {v \in history.votes[g] : v <= b}
<1>1. V \subseteq Nat /\ V # {} /\ IsFiniteSet(V)
  <2>1. history.votes[g] \in SUBSET Nat /\ IsFiniteSet(history.votes[g])
    BY HistoryIs
  <2>2. IsFiniteSet({v \in history.votes[g] : v <= b})
    BY <2>1, FS_Subset
  <2>3. V = {v \in history.votes[g] : v <= b} \cup {0}
    OBVIOUS
  <2>4. IsFiniteSet(V)
    BY <2>2, <2>3, FS_AddElement
  <2> QED BY <2>1, <2>4
<1>2. Max(V) \in V
  <2> HIDE DEF V
  <2> QED BY <1>1, GreatestOfFinite
<1>3. CurrentVote(g, b) = Max(V)
  BY DEF CurrentVote
<1> HIDE DEF V
<1> QED BY <1>1, <1>2, <1>3

(* What the contract's tally is.                                            *)
LEMMA ContractCounts ==
  ASSUME history \in Histories, NEW b \in Elections, NEW t, t = ContractTally(b)
  PROVE  /\ Counted(t, CastOf(history.guardians[b], DataAt(b)), GuardiansAt(b), AgentsAt(b),
                    [g \in Account |-> {}], StakesAt(b))
         /\ t.weight = [g \in DOMAIN t.weight |-> t.weight[g]]
         /\ DataOK(history.guardians[b], DataAt(b), ListedAt(b), AgentsAt(b), StakesAt(b))
         /\ StakesAt(b) \in [Account -> Nat]
         /\ \A a \in Address : StakesAt(b)[a] = history.stake[b][a] + history.locked[b][a]
         /\ ToSet(ListedAt(b)) = {e.delegator : e \in InForce(b)}
<1>1. history.guardians[b] \in Seq(Address) /\ IsInjective(history.guardians[b])
  BY HistoryIs
<1>2. \A a \in Account : DataAt(b)[a].stake \in Nat /\ DataAt(b)[a].candidates = {}
  <2>1. \A a \in Address : history.stake[b][a] \in Nat /\ history.locked[b][a] \in Nat
    BY HistoryIs
  <2>2. \A a \in Address : history.stake[b][a] + history.locked[b][a] \in Nat
    BY <2>1
  <2> QED BY <2>2 DEF DataAt
<1>3. StakesAt(b) \in [Account -> Nat] /\ \A a \in Account : StakesAt(b)[a] = DataAt(b)[a].stake
  BY <1>2 DEF StakesAt
<1>4. \A a \in Address : StakesAt(b)[a] = history.stake[b][a] + history.locked[b][a]
  BY <1>3 DEF DataAt, Account
<1> DEFINE S == {e.delegator : e \in InForce(b)}
<1>5. S \subseteq Address /\ IsFiniteSet(S)
  <2>1. S \subseteq Address
    BY InForceIs
  <2> QED BY <2>1, AddressAssumption, FS_Subset
<1>6. ListedAt(b) \in Seq(Address) /\ ToSet(ListedAt(b)) = S
  <2>1. ListedAt(b) = SetToSeq(S)
    BY DEF ListedAt
  <2> HIDE DEF S
  <2>2. SetToSeq(S) \in Seq(S) /\ ToSet(SetToSeq(S)) = S
    BY <1>5, SetAsList
  <2>3. SetToSeq(S) \in Seq(Address)
    BY <1>5, <2>2
  <2> QED BY <2>1, <2>2, <2>3
<1>7. \A d \in Address : AgentsAt(b)[d] \in Address => d \in S
  <2> SUFFICES ASSUME NEW d \in Address, d \notin S PROVE AgentsAt(b)[d] = EmptyAddress
    BY EmptyAddressAssumption
  <2>1. {e \in InForce(b) : e.delegator = d} = {}
    OBVIOUS
  <2> QED BY <2>1 DEF AgentsAt, Account
<1>8. DataOK(history.guardians[b], DataAt(b), ListedAt(b), AgentsAt(b), StakesAt(b))
  BY <1>1, <1>2, <1>3, <1>6, <1>7, AgentsAre DEF DataOK
<1> DEFINE cast == CastOf(history.guardians[b], DataAt(b))
<1>9. cast \subseteq Account
  <2>1. GuardiansAt(b) \subseteq Account
    BY AgentsAre DEF Account
  <2> QED BY <2>1 DEF CastOf, GuardiansAt
<1>10. Agree(history.guardians[b], DataAt(b), ListedAt(b), AgentsAt(b), StakesAt(b), cast,
             [g \in Account |-> {}], StakesAt(b))
  BY <1>2, <1>3, <1>8, <1>9 DEF Agree
<1>11. t = Tally(history.guardians[b], DataAt(b), ListedAt(b), AgentsAt(b), StakesAt(b))
  BY ContractTallyIs
<1>12. Counted(t, cast, ToSet(history.guardians[b]), AgentsAt(b), [g \in Account |-> {}], StakesAt(b))
  <2> HIDE DEF cast
  <2> QED BY ONLY <1>10, <1>11, TallyCounts
<1>13. t.weight = [g \in DOMAIN t.weight |-> t.weight[g]]
  <2>1. PICK G, data, listed, ag, ds : t = Tally(G, data, listed, ag, ds)
    BY <1>11
  <2>2. t.weight = WeightOf(G, data, listed, ag, ds)
    BY ONLY <2>1 DEF Tally, CastList, BehindOf, WeightOf
  <2> QED BY <2>2 DEF WeightOf
<1> QED BY <1>3, <1>4, <1>6, <1>8, <1>12, <1>13 DEF GuardiansAt

(* The guardians are all read.                                              *)
LEMMA AllGuardiansRead ==
  ASSUME history \in Histories, NEW b \in Elections
  PROVE  GuardiansRead(b) = GuardiansAt(b)
<1> DEFINE all == history.guardians[b]
<1>1. all \in Seq(Address) /\ DOMAIN all = 1 .. Len(all) /\ Len(all) \in Nat
  BY HistoryIs
<1>2. ASSUME NEW j \in DOMAIN all PROVE (j - 1) \div GuardianPage <= Len(all) \div GuardianPage
  <2>1. PICK n \in Nat \ {0} : n = GuardianPage
    BY Sizes
  <2>2. PICK x \in Int : x = j - 1
    BY <1>1
  <2>3. PICK y \in Int : y = Len(all)
    BY <1>1
  <2>4. x <= y
    BY <1>1, <2>2, <2>3
  <2>5. PICK q \in Int : q = x \div n
    BY DivisionOf
  <2>6. PICK p \in Int : p = y \div n
    BY DivisionOf
  <2>7. PICK r \in 0 .. n - 1 : r = x % n
    BY DivisionOf
  <2>8. PICK s \in 0 .. n - 1 : s = y % n
    BY DivisionOf
  <2>9. x = n * q + r
    BY <2>5, <2>7, DivisionOf
  <2>10. y = n * p + s
    BY <2>6, <2>8, DivisionOf
  <2>11. ~(q > p)
    <3> SUFFICES ASSUME q > p PROVE FALSE
      OBVIOUS
    <3>1. PICK d \in Nat : q = (p + 1) + d
      <4>1. PICK d \in Int : d = q - (p + 1)
        OBVIOUS
      <4>2. d \in Nat /\ q = (p + 1) + d
        BY <4>1
      <4> QED BY <4>2
    <3>2. n * q = n * p + n + n * d
      <4>1. n * ((p + 1) + d) = n * p + n + n * d
        OBVIOUS
      <4> QED BY <3>1, <4>1
    <3>3. PICK z \in Nat : z = n * d
      OBVIOUS
    <3>4. PICK v \in Int : v = n * p
      OBVIOUS
    <3>5. x = v + n + z + r /\ y = v + s
      BY <2>9, <2>10, <3>2, <3>3, <3>4
    <3> QED BY <2>4, <3>5
  <2>12. q <= p
    BY ONLY <2>11, q \in Int, p \in Int
  <2>13. x \div n <= y \div n
    BY ONLY <2>5, <2>6, <2>12
  <2> QED BY ONLY <2>1, <2>2, <2>3, <2>13
<1>3. GuardiansRead(b) = {all[i] : i \in DOMAIN all}
  <2>1. {j \in DOMAIN all : (j - 1) \div GuardianPage <= Len(all) \div GuardianPage} = DOMAIN all
    BY <1>2
  <2>2. GuardiansRead(b) = {all[i] : i \in {j \in DOMAIN all :
                              (j - 1) \div GuardianPage <= Len(all) \div GuardianPage}}
    BY DEF GuardiansRead
  <2> QED BY <2>1, <2>2
<1> QED BY <1>3 DEF GuardiansAt, ToSet

(* Delegations of people that are no guardians, one for each.               *)
NoGuardians(K, G) ==
  /\ G \subseteq Address
  /\ \A e \in K : e.delegator \in Address \ G /\ e.to \in Account
  /\ \A e, f \in K : e.delegator = f.delegator => e = f

(* Somewhere they lead.                                                     *)
LEMMA FollowedTyped ==
  ASSUME NEW K, NEW G, NoGuardians(K, G)
  PROVE  /\ \A e \in K : FollowDelegation(e, G, K, MaxLevel) \in G \cup {EmptyAddress}
         /\ Followed(G, K) \subseteq Address \X Account
<1> DEFINE N == {e.delegator : e \in K}
           ag == [a \in Account |-> IF a \in N THEN (CHOOSE e \in K : e.delegator = a).to ELSE EmptyAddress]
<1>1. \A e \in K : ag[e.delegator] = e.to
  <2> SUFFICES ASSUME NEW e \in K PROVE ag[e.delegator] = e.to
    OBVIOUS
  <2>1. e.delegator \in N /\ e.delegator \in Account
    BY DEF NoGuardians, Account
  <2>2. PICK f : f = CHOOSE h \in K : h.delegator = e.delegator
    OBVIOUS
  <2>3. f \in K /\ f.delegator = e.delegator
    BY <2>2
  <2>4. f = e
    BY <2>3 DEF NoGuardians
  <2> QED BY <2>1, <2>2, <2>4
<1>2. ag \in [Account -> Account]
  <2>1. \A a \in Account : ag[a] \in Account
    BY <1>1 DEF NoGuardians, Account
  <2> QED BY <2>1
<1>3. Leads(K, N, ag, G)
  <2>1. N \subseteq Address \ G
    BY DEF NoGuardians
  <2>2. \A e \in K : e.delegator \in N
    OBVIOUS
  <2>3. \A x \in N : \E e \in K : e.delegator = x
    OBVIOUS
  <2> HIDE DEF ag, N
  <2> QED BY <1>1, <1>2, <2>1, <2>2, <2>3 DEF Leads, NoGuardians
<1> HIDE DEF N, ag
<1>4. PICK it : Follows(it, MaxLevel, ag)
  BY <1>2, Sizes, ChainsExist
<1>5. \A e \in K : FollowDelegation(e, G, K, MaxLevel) \in G \cup {EmptyAddress}
  <2> SUFFICES ASSUME NEW e \in K
               PROVE FollowDelegation(e, G, K, MaxLevel) \in G \cup {EmptyAddress}
    OBVIOUS
  <2>1. e.to \in Account /\ MaxLevel <= MaxLevel
    BY Sizes DEF NoGuardians
  <2>2. Led(it, N, G, FollowDelegation(e, G, K, MaxLevel), e.to, MaxLevel)
    BY <1>3, <1>4, <2>1, Sizes, FollowedIs
  <2> QED BY <2>2 DEF Led
<1>6. Followed(G, K) \subseteq Address \X Account
  <2>1. \A e \in K : e.delegator \in Address /\ FollowDelegation(e, G, K, MaxLevel) \in Account
    BY <1>5 DEF NoGuardians, Account
  <2> QED BY <2>1 DEF Followed
<1> QED BY <1>5, <1>6

(* The map K has the delegations that count for the contract.               *)
KnowsAll(K, b) ==
  /\ NoGuardians(K, GuardiansAt(b))
  /\ Leads(K, DelegatorsAt(b), AgentsAt(b), GuardiansAt(b))

(* Whom the page finds behind a guardian is who it speaks for.              *)
LEMMA LedToItsSpeaker ==
  ASSUME history \in Histories, NEW b \in Elections, SameDelegationsAt(b),
         NEW K, KnowsAll(K, b), NEW e \in K,
         NEW r, r = FollowDelegation(e, GuardiansAt(b), K, MaxLevel)
  PROVE  /\ r \in GuardiansAt(b) \cup {EmptyAddress}
         /\ \A g \in GuardiansAt(b) :
              r = g <=> e.delegator \in SpokenFor(g, GuardiansAt(b), AgentsAt(b))
         /\ \A d \in Delegating(b) : d.delegator = e.delegator => LedTo(d, b, MaxLevel) = r
<1> DEFINE G == GuardiansAt(b)
           N == DelegatorsAt(b)
           ag == AgentsAt(b)
           size == Cardinality(Address)
<1>1. /\ G \subseteq Address /\ ag \in [Account -> Account]
      /\ Leads(Delegating(b), N, ag, G) /\ IsFiniteSet(N) /\ Cardinality(N) <= size
      /\ \A KK \in Nat : size <= KK => AllDelegate(N, KK, ag, G)
  BY AgentsAre
<1>2. size \in Nat /\ MaxLevel \in Nat /\ Cardinality(N) \in Nat
  BY <1>1, AddressAssumption, FS_CardinalityType, Sizes
<1>3. Leads(K, N, ag, G) /\ e.delegator \in N /\ e.to = ag[e.delegator] /\ NoGuardians(K, G)
  BY DEF KnowsAll, Leads
<1>4. /\ G \cap N = {} /\ EmptyAddress \notin G /\ N \subseteq Address
  BY <1>1, <1>3, EmptyAddressAssumption DEF Leads
<1>5. r \in G \cup {EmptyAddress}
  BY <1>3, FollowedTyped
<1> HIDE DEF G, N, ag, size
<1>6. PICK KK \in Nat : KK = MaxLevel + size
  BY <1>2
<1>7. MaxLevel <= KK /\ size <= KK /\ Cardinality(N) <= KK
  BY <1>1, <1>2, <1>6
<1>8. PICK it : Follows(it, KK, ag)
  BY <1>1, ChainsExist
<1>9. PICK x \in Address : x = e.delegator
  BY <1>3, <1>4
<1>10. x \in N /\ x \in Account /\ ag[x] \in Account /\ e.to = ag[x]
  BY <1>1, <1>3, <1>9 DEF Account
<1>11. Led(it, N, G, r, ag[x], MaxLevel)
  <2>1. r = FollowDelegation(e, G, K, MaxLevel)
    BY DEF G
  <2> QED BY <1>2, <1>3, <1>7, <1>8, <1>10, <2>1, FollowedIs
<1>12. PICK d \in Delegating(b) : d.delegator = x
  BY <1>1, <1>10 DEF Leads
<1>13. ASSUME NEW f \in Delegating(b), f.delegator = x
       PROVE  /\ Led(it, N, G, LedTo(f, b, MaxLevel), ag[x], MaxLevel)
              /\ Led(it, N, G, LedTo(f, b, size), ag[x], size)
              /\ LedTo(f, b, MaxLevel) = LedTo(f, b, size)
  <2>1. f.to = ag[x] /\ f.to \in Account
    BY <1>1, <1>10, <1>13 DEF Leads
  <2>2. \A m : LedTo(f, b, m) = FollowDelegation(f, G, Delegating(b), m)
    BY DEF LedTo, G, GuardiansAt
  <2>3. \A m \in Nat : m <= KK => Led(it, N, G, FollowDelegation(f, G, Delegating(b), m), f.to, m)
    BY <1>1, <1>8, <2>1, FollowedIs
  <2>4. LedTo(f, b, MaxLevel) = LedTo(f, b, size)
    BY DEF SameDelegationsAt, size
  <2> QED BY <1>2, <1>7, <2>1, <2>2, <2>3, <2>4
<1>14. ASSUME NEW f \in Delegating(b), f.delegator = x
       PROVE  LedTo(f, b, MaxLevel) = r
  <2>1. PICK q : q = LedTo(f, b, MaxLevel)
    OBVIOUS
  <2>2. Led(it, N, G, q, ag[x], MaxLevel)
    BY <1>13, <1>14, <2>1
  <2>3. PICK m \in Nat : m = MaxLevel /\ m <= m
    BY <1>2
  <2>4. Led(it, N, G, r, ag[x], m) /\ Led(it, N, G, q, ag[x], m)
    BY <1>11, <2>2, <2>3
  <2>5. r = q
    BY ONLY <1>4, <2>4, LedToThis, m \in Nat
  <2> QED BY <2>1, <2>5
<1>15. Led(it, N, G, r, ag[x], size)
  BY <1>12, <1>13, <1>14
<1>16. ASSUME NEW g \in G
       PROVE  r = g <=> x \in SpokenFor(g, G, ag)
  <2>1. g \in Address /\ g \notin N /\ g # EmptyAddress
    BY <1>1, <1>4
  <2>2. SpokenFor(g, G, ag) = {y \in Account : \E n \in 0 .. KK : Reaches(it, y, n, g, N)}
    BY <1>1, <1>7, <1>8, <2>1, SpokenForIs
  <2>3. ASSUME r = g PROVE x \in SpokenFor(g, G, ag)
    <3>1. PICK n \in 0 .. MaxLevel : Reaches(it, ag[x], n, g, N)
      BY <1>11, <2>1, <2>3 DEF Led
    <3>2. n \in 0 .. KK /\ n + 1 \in 0 .. KK + 1
      BY <1>2, <1>7
    <3>3. Reaches(it, x, n + 1, g, N)
      BY <1>8, <1>10, <3>1, <3>2, OverTheAgent
    <3>4. PICK k \in 0 .. KK + 1 : k = n + 1
      BY <3>2
    <3>5. k <= KK
      BY <1>1, <1>7, <1>8, <1>10, <2>1, <3>3, <3>4, ShortWays
    <3>6. k \in 0 .. KK
      BY <3>5
    <3> QED BY <1>10, <2>2, <3>3, <3>4, <3>6
  <2>4. ASSUME x \in SpokenFor(g, G, ag) PROVE r = g
    <3>1. PICK k \in 0 .. KK : Reaches(it, x, k, g, N)
      BY <2>2, <2>4
    <3>2. k # 0
      <4> SUFFICES ASSUME k = 0 PROVE FALSE
        OBVIOUS
      <4>1. it[0][x] = x
        BY <1>8, <1>10, OneStep
      <4> QED BY <1>10, <2>1, <3>1, <4>1 DEF Reaches
    <3>3. k \in 0 .. KK + 1
      OBVIOUS
    <3>4. k <= Cardinality(N)
      BY <1>1, <1>7, <1>8, <1>10, <2>1, <3>1, <3>3, ShortWays
    <3>5. PICK n \in 0 .. size : k = n + 1 /\ n \in 0 .. KK
      <4>1. PICK n \in Int : n = k - 1
        OBVIOUS
      <4>2. n \in 0 .. size /\ k = n + 1 /\ n \in 0 .. KK
        BY <1>1, <1>2, <3>2, <3>4, <4>1
      <4> QED BY <4>2
    <3>6. Reaches(it, ag[x], n, g, N)
      BY <1>8, <1>10, <3>1, <3>5, OverTheAgent
    <3> QED BY <1>2, <1>4, <1>15, <3>6, LedToOne
  <2> QED BY <2>3, <2>4
<1> QED BY <1>5, <1>9, <1>14, <1>16 DEF G, ag

(* Who is led to g.                                                         *)
LedBehind(g, followed) == {f[1] : f \in {x \in followed : x[2] = g}}

LEMMA BehindOnThePage ==
  ASSUME history \in Histories, NEW b \in Elections, SameDelegationsAt(b),
         NEW K, KnowsAll(K, b), NEW g \in GuardiansAt(b)
  PROVE  /\ SpokenFor(g, GuardiansAt(b), AgentsAt(b)) =
              LedBehind(g, Followed(GuardiansAt(b), K)) \cup {g}
         /\ g \notin LedBehind(g, Followed(GuardiansAt(b), K))
<1> DEFINE G == GuardiansAt(b)
           P == SpokenFor(g, G, AgentsAt(b))
           B == LedBehind(g, Followed(G, K))
<1>1. \A y : y \in B <=> \E e \in K : e.delegator = y /\ FollowDelegation(e, G, K, MaxLevel) = g
  <2> DEFINE to(e) == FollowDelegation(e, G, K, MaxLevel)
  <2>1. Followed(G, K) = {<<e.delegator, to(e)>> : e \in K}
    BY DEF Followed
  <2> HIDE DEF to
  <2>2. \A y : y \in B <=> \E f \in Followed(G, K) : f[2] = g /\ f[1] = y
    BY DEF LedBehind
  <2>3. \A f : f \in Followed(G, K) <=> \E e \in K : f = <<e.delegator, to(e)>>
    BY <2>1
  <2>4. \A e : <<e.delegator, to(e)>>[1] = e.delegator /\ <<e.delegator, to(e)>>[2] = to(e)
    OBVIOUS
  <2>5. \A y : y \in B <=> \E e \in K : e.delegator = y /\ to(e) = g
    <3> HIDE DEF B
    <3> SUFFICES ASSUME NEW y PROVE y \in B <=> \E e \in K : e.delegator = y /\ to(e) = g
      OBVIOUS
    <3>1. ASSUME y \in B PROVE \E e \in K : e.delegator = y /\ to(e) = g
      <4>1. PICK f \in Followed(G, K) : f[2] = g /\ f[1] = y
        BY <2>2, <3>1
      <4>2. PICK e \in K : f = <<e.delegator, to(e)>>
        BY <2>3, <4>1
      <4>3. f[1] = e.delegator /\ f[2] = to(e)
        BY <2>4, <4>2
      <4> QED BY <4>1, <4>3
    <3>2. ASSUME NEW e \in K, e.delegator = y, to(e) = g PROVE y \in B
      <4>1. PICK f : f = <<e.delegator, to(e)>>
        OBVIOUS
      <4>2. f \in Followed(G, K)
        BY <2>3, <4>1
      <4>3. f[2] = g /\ f[1] = y
        BY <2>4, <3>2, <4>1
      <4> QED BY <2>2, <4>2, <4>3
    <3> QED BY <3>1, <3>2
  <2> QED BY <2>5 DEF to
<1>2. \A e \in K : e.delegator \notin G
  BY DEF KnowsAll, NoGuardians
<1>3. \A e \in K : FollowDelegation(e, G, K, MaxLevel) = g <=> e.delegator \in P
  BY LedToItsSpeaker
<1>4. /\ DataOK(history.guardians[b], DataAt(b), ListedAt(b), AgentsAt(b), StakesAt(b))
      /\ ToSet(ListedAt(b)) = {e.delegator : e \in InForce(b)}
      /\ G = ToSet(history.guardians[b])
  BY ContractCounts DEF GuardiansAt
<1>5. g \in P
  <2>1. PICK C : C = CountedDelegators(ListedAt(b), history.guardians[b])
    OBVIOUS
  <2>2. g \in SpokenFor(g, ToSet(history.guardians[b]), AgentsAt(b))
    BY <1>4, <2>1, BehindIs
  <2> QED BY <1>4, <2>2
<1>6. ASSUME NEW y \in P, y # g PROVE \E e \in K : e.delegator = y
  <2>1. y \in ToSet(ListedAt(b)) \ G
    BY <1>4, <1>6, OthersDelegate
  <2>2. y \in DelegatorsAt(b)
    BY <1>4, <2>1 DEF DelegatorsAt, Delegating
  <2> QED BY <2>2 DEF KnowsAll, Leads
<1>7. \A y \in P : y = g \/ y \in B
  BY <1>1, <1>3, <1>6
<1>8. \A y \in B : y \in P /\ y # g
  BY <1>1, <1>2, <1>3
<1> QED BY <1>5, <1>7, <1>8

(* The guardians whose votes count are the same but for the oldest votes.   *)
LEMMA CastingIs ==
  ASSUME history \in Histories, NEW b \in Elections,
         NEW cast, cast = CastOf(history.guardians[b], DataAt(b))
  PROVE  /\ {g \in GuardiansAt(b) : VoteCounts(g, b)} = cast \cup OldestVoters(b)
         /\ cast \cap OldestVoters(b) = {}
         /\ cast \in SUBSET GuardiansAt(b) /\ OldestVoters(b) \in SUBSET GuardiansAt(b)
<1>1. b \in Nat /\ b > VotingValidityPeriod /\ VotingValidityPeriod \in Nat
  BY Sizes DEF Elections
<1>2. ASSUME NEW g \in GuardiansAt(b)
      PROVE  /\ VoteCounts(g, b) <=> g \in cast \/ g \in OldestVoters(b)
             /\ ~(g \in cast /\ g \in OldestVoters(b))
  <2>1. g \in Address /\ g \in Account
    BY AgentsAre DEF Account
  <2>2. PICK v \in Nat : v = CurrentVote(g, b)
    BY <2>1, CurrentVoteIs
  <2>3. g \in OldestVoters(b) <=> v = b - VotingValidityPeriod
    BY <2>2 DEF OldestVoters, GuardiansAt
  <2>4. DataAt(b)[g].voteAt = IF v > b - VotingValidityPeriod THEN v ELSE 0
    BY <2>1, <2>2 DEF DataAt
  <2>5. VoteCounts(g, b) <=> v >= b - VotingValidityPeriod
    BY <2>2 DEF VoteCounts
  <2>6. g \in cast <=> DataAt(b)[g].voteAt # 0
    BY DEF CastOf, GuardiansAt
  <2>7. g \in cast <=> v > b - VotingValidityPeriod
    BY <1>1, <2>4, <2>6
  <2> QED BY <1>1, <2>3, <2>5, <2>7
<1>3. cast \in SUBSET GuardiansAt(b) /\ OldestVoters(b) \in SUBSET GuardiansAt(b)
  BY DEF CastOf, OldestVoters, GuardiansAt
<1> QED BY <1>2, <1>3

(* The parts of an election's sums.                                         *)
WeightOnPage(g, followed, stake) == stake[g] + SumFunctionOnSet(stake, LedBehind(g, followed))

LEMMA SumsAre ==
  ASSUME NEW b, NEW G, NEW followed, NEW sums, sums = CopyAndSums(b, G, followed)
  PROVE  /\ sums.stake = [a \in Address |-> history.stake[b][a]]
         /\ sums.weight = [g \in G |-> WeightOnPage(g, followed, sums.stake)]
         /\ sums.casting = {g \in G : VoteCounts(g, b)}
         /\ sums.total = SumFunctionOnSet(sums.weight, sums.casting)
         /\ sums.payees = sums.casting \cup UNION {LedBehind(g, followed) : g \in sums.casting}
         /\ sums.listed = G \cup UNION {LedBehind(g, followed) : g \in G}
BY DEF CopyAndSums, WeightOnPage, LedBehind, StakeAt

(* They are numbers and people.                                             *)
SumsTyped(sums, G) ==
  /\ sums.stake \in [Address -> Nat] /\ sums.weight \in [G -> Nat] /\ sums.total \in Nat
  /\ sums.casting \subseteq G /\ G \subseteq Address
  /\ sums.payees \subseteq Address /\ sums.listed \subseteq Address

LEMMA SumsAreTyped ==
  ASSUME history \in Histories, NEW b \in Elections, NEW G, NEW followed, G \subseteq Address,
         followed \subseteq Address \X Account,
         NEW sums, sums = CopyAndSums(b, G, followed)
  PROVE  SumsTyped(sums, G)
<1>1. /\ sums.stake = [a \in Address |-> history.stake[b][a]]
      /\ sums.weight = [g \in G |-> WeightOnPage(g, followed, sums.stake)]
      /\ sums.casting = {g \in G : VoteCounts(g, b)}
      /\ sums.total = SumFunctionOnSet(sums.weight, sums.casting)
      /\ sums.payees = sums.casting \cup UNION {LedBehind(g, followed) : g \in sums.casting}
      /\ sums.listed = G \cup UNION {LedBehind(g, followed) : g \in G}
  BY SumsAre
<1>2. sums.stake \in [Address -> Nat]
  BY <1>1, HistoryIs
<1>3. \A g : LedBehind(g, followed) \subseteq Address
  BY DEF LedBehind
<1>4. ASSUME NEW g \in G PROVE WeightOnPage(g, followed, sums.stake) \in Nat
  <2>1. LedBehind(g, followed) \subseteq Address /\ IsFiniteSet(LedBehind(g, followed))
    BY <1>3, AddressAssumption, FS_Subset
  <2>2. \A x \in LedBehind(g, followed) : sums.stake[x] \in Nat
    BY <1>2, <2>1
  <2>3. SumFunctionOnSet(sums.stake, LedBehind(g, followed)) \in Nat
    BY <2>1, <2>2, SumType
  <2> QED BY <1>2, <2>3 DEF WeightOnPage
<1>5. sums.weight \in [G -> Nat] /\ sums.casting \subseteq G
  BY <1>1, <1>4
<1>6. IsFiniteSet(sums.casting) /\ \A x \in sums.casting : sums.weight[x] \in Nat
  BY <1>5, AddressAssumption, FS_Subset
<1>7. sums.total \in Nat
  <2>1. SumFunctionOnSet(sums.weight, sums.casting) \in Nat
    BY ONLY <1>6, SumType
  <2> QED BY <1>1, <2>1
<1> QED BY <1>1, <1>2, <1>3, <1>5, <1>7 DEF SumsTyped

(* Behind a guardian is whom the page finds behind it, so that the contract *)
(* hears it speak for them too.                                             *)
LEMMA PageSpeaks ==
  ASSUME history \in Histories, NEW b \in Elections, SameDelegationsAt(b),
         NEW K, KnowsAll(K, b), NEW g \in GuardiansAt(b),
         NEW P, P = SpokenFor(g, GuardiansAt(b), AgentsAt(b))
  PROVE  P = Behind(g, b) \cup {g} /\ P \subseteq Address /\ IsFiniteSet(P)
<1> DEFINE G == GuardiansAt(b)
           led(e) == FollowDelegation(e, G, K, MaxLevel)
<1>1. /\ P = LedBehind(g, Followed(G, K)) \cup {g}
      /\ g \in Address
  BY BehindOnThePage, AgentsAre
<1>2. \A e \in K : /\ led(e) = g <=> e.delegator \in P
                   /\ \A d \in Delegating(b) : d.delegator = e.delegator => LedTo(d, b, MaxLevel) = led(e)
  BY LedToItsSpeaker
<1>3. /\ \A d \in Delegating(b) : \E e \in K : e.delegator = d.delegator
      /\ \A e \in K : e.delegator \in Address /\ \E d \in Delegating(b) : d.delegator = e.delegator
  BY DEF KnowsAll, NoGuardians, Leads, DelegatorsAt
<1>4. \A y \in LedBehind(g, Followed(G, K)) : \E e \in K : e.delegator = y
  <2>1. Followed(G, K) = {<<e.delegator, led(e)>> : e \in K}
    BY DEF Followed
  <2> HIDE DEF led
  <2>2. \A e : <<e.delegator, led(e)>>[1] = e.delegator
    OBVIOUS
  <2>3. \A y \in LedBehind(g, Followed(G, K)) : \E f \in Followed(G, K) : f[1] = y
    BY DEF LedBehind
  <2> QED BY <2>1, <2>2, <2>3
<1> HIDE DEF led, G
<1>5. \A y : y \in Behind(g, b) <=> \E d \in Delegating(b) : d.delegator = y /\ LedTo(d, b, MaxLevel) = g
  BY DEF Behind
<1>6. ASSUME NEW y \in P, y # g PROVE y \in Behind(g, b)
  <2>1. PICK e \in K : e.delegator = y
    BY <1>1, <1>4, <1>6
  <2>2. PICK d \in Delegating(b) : d.delegator = y
    BY <1>3, <2>1
  <2>3. LedTo(d, b, MaxLevel) = g
    BY <1>2, <1>6, <2>1, <2>2
  <2> QED BY <1>5, <2>2, <2>3
<1>7. ASSUME NEW y \in Behind(g, b) PROVE y \in P
  <2>1. PICK d \in Delegating(b) : d.delegator = y /\ LedTo(d, b, MaxLevel) = g
    BY <1>5
  <2>2. PICK e \in K : e.delegator = y
    BY <1>3, <2>1
  <2>3. led(e) = g
    BY <1>2, <2>1, <2>2
  <2> QED BY <1>2, <2>2, <2>3
<1>8. P \subseteq Address
  <2> SUFFICES ASSUME NEW y \in P PROVE y \in Address
    OBVIOUS
  <2> QED BY <1>1, <1>3, <1>4
<1> QED BY <1>1, <1>6, <1>7, <1>8, AddressAssumption, FS_Subset

(* The page's weights are the contract's but for what is locked and the     *)
(* oldest votes.                                                            *)
LEMMA PageWeighs ==
  ASSUME history \in Histories, NEW b \in Elections, SameDelegationsAt(b),
         NEW K, KnowsAll(K, b),
         NEW sums, sums = CopyAndSums(b, GuardiansAt(b), Followed(GuardiansAt(b), K)),
         NEW file, file.weight = [g \in sums.casting |-> sums.weight[g]], file.total = sums.total
  PROVE  WeighsAsTheContract(file, b) /\ SumsTyped(sums, GuardiansAt(b))
<1> DEFINE G == GuardiansAt(b)
           F == Followed(G, K)
           ag == AgentsAt(b)
           P(g) == SpokenFor(g, G, ag)
<1>1. PICK t, cast, late :
        t = ContractTally(b) /\ cast = CastOf(history.guardians[b], DataAt(b)) /\ late = OldestVoters(b)
  OBVIOUS
<1>2. /\ Counted(t, cast, G, ag, [g \in Account |-> {}], StakesAt(b))
      /\ DataOK(history.guardians[b], DataAt(b), ListedAt(b), ag, StakesAt(b))
      /\ StakesAt(b) \in [Account -> Nat]
      /\ \A a \in Address : StakesAt(b)[a] = history.stake[b][a] + history.locked[b][a]
  BY <1>1, ContractCounts
<1>3. /\ sums.stake = [a \in Address |-> history.stake[b][a]]
      /\ sums.weight = [g \in G |-> WeightOnPage(g, F, sums.stake)]
      /\ sums.casting = {g \in G : VoteCounts(g, b)}
      /\ sums.total = SumFunctionOnSet(sums.weight, sums.casting)
  BY SumsAre
<1>4. G \subseteq Address /\ IsFiniteSet(G) /\ G = ToSet(history.guardians[b])
  BY AgentsAre DEF GuardiansAt
<1>5. SumsTyped(sums, G)
  <2>1. F \subseteq Address \X Account
    BY FollowedTyped DEF KnowsAll
  <2> HIDE DEF F, G
  <2> QED BY <1>4, <2>1, SumsAreTyped DEF F, G
<1>6. /\ DOMAIN t.weight = cast
      /\ \A g \in cast : t.weight[g] = SumFunctionOnSet(StakesAt(b), P(g))
      /\ t.total = SumFunctionOnSet(StakesAt(b), Electors(cast, G, ag))
  BY <1>2 DEF Counted
<1>7. /\ sums.casting = cast \cup late /\ cast \cap late = {}
      /\ cast \in SUBSET G /\ late \in SUBSET G
  BY <1>1, <1>3, CastingIs
<1>8. \A g \in G : /\ P(g) = LedBehind(g, F) \cup {g} /\ g \notin LedBehind(g, F)
                   /\ P(g) = Behind(g, b) \cup {g} /\ P(g) \subseteq Address /\ IsFiniteSet(P(g))
  BY BehindOnThePage, PageSpeaks
<1>9. \A x \in Address : /\ history.stake[b][x] \in Nat /\ history.locked[b][x] \in Nat
                         /\ sums.stake[x] = history.stake[b][x]
  BY <1>3, HistoryIs
<1> HIDE DEF P, F, G, ag
<1>10. ASSUME NEW g \in G
       PROVE  /\ sums.weight[g] \in Nat /\ UnseenStake(g, b) \in Nat
              /\ SumFunctionOnSet(StakesAt(b), P(g)) = sums.weight[g] + UnseenStake(g, b)
  <2>1. PICK B, S, st, lk : /\ B = LedBehind(g, F) /\ S = P(g)
                            /\ st = sums.stake /\ lk = history.locked[b]
    OBVIOUS
  <2>2. S = B \cup {g} /\ g \notin B /\ S \subseteq Address /\ IsFiniteSet(S)
    BY <1>8, <2>1
  <2>3. \A x \in S : /\ st[x] \in Nat /\ lk[x] \in Nat
                     /\ StakesAt(b)[x] = st[x] + lk[x]
    BY <1>2, <1>9, <2>1, <2>2
  <2>4. sums.weight[g] = st[g] + SumFunctionOnSet(st, B)
    BY <1>3, <2>1 DEF WeightOnPage
  <2>5. SumFunctionOnSet(st, S) = st[g] + SumFunctionOnSet(st, B)
    <3>1. g \in S /\ S \ {g} = B /\ \A x \in S : st[x] \in Int
      BY <2>2, <2>3
    <3> QED BY <2>2, <3>1, SumRemove
  <2>6. UnseenStake(g, b) = SumFunctionOnSet(lk, S)
    <3>1. {g} \cup Behind(g, b) = S
      BY <1>8, <2>1
    <3> QED BY <2>1, <3>1 DEF UnseenStake
  <2>7. SumFunctionOnSet(StakesAt(b), S) = SumFunctionOnSet(st, S) + SumFunctionOnSet(lk, S)
    <3>1. PICK h : h = StakesAt(b)
      OBVIOUS
    <3>2. \A x \in S : st[x] \in Int /\ lk[x] \in Int /\ h[x] = st[x] + lk[x]
      BY <2>3, <3>1
    <3>3. SumFunctionOnSet(h, S) = SumFunctionOnSet(st, S) + SumFunctionOnSet(lk, S)
      BY ONLY <2>2, <3>2, SumPlus
    <3> QED BY <3>1, <3>3
  <2>8. SumFunctionOnSet(st, S) \in Nat /\ SumFunctionOnSet(lk, S) \in Nat
    BY <2>2, <2>3, SumType
  <2> QED BY <2>1, <2>4, <2>5, <2>6, <2>7, <2>8
<1>11. \A g \in cast : t.weight[g] = file.weight[g] + UnseenStake(g, b)
  BY <1>6, <1>7, <1>10
<1>12. DOMAIN file.weight = cast \cup late
  BY <1>7
<1>13. PICK w, u : w = sums.weight /\ u = [g \in cast |-> UnseenStake(g, b)]
  OBVIOUS
<1>14. /\ \A g \in G : w[g] \in Nat
       /\ \A g \in cast : u[g] \in Nat /\ t.weight[g] = w[g] + u[g]
       /\ IsFiniteSet(cast) /\ IsFiniteSet(late)
  <2>1. \A g \in cast : u[g] = UnseenStake(g, b) /\ g \in G
    BY <1>7, <1>13
  <2> QED BY <1>4, <1>6, <1>7, <1>10, <1>13, <2>1, FS_Subset
<1>15. t.total = SumFunctionOnSet(w, cast) + SumFunctionOnSet(u, cast)
  <2>1. PICK R \in SUBSET G : R = cast
    BY <1>7
  <2>2. R \in SUBSET ToSet(history.guardians[b])
    BY <1>4
  <2>3. PICK v : v = t.weight
    OBVIOUS
  <2>4. \A g \in R : v[g] = SumFunctionOnSet(StakesAt(b), SpokenFor(g, ToSet(history.guardians[b]), ag))
    BY <1>4, <1>6, <2>1, <2>3 DEF P
  <2>5. SumFunctionOnSet(v, R) =
          SumFunctionOnSet(StakesAt(b), Electors(R, ToSet(history.guardians[b]), ag))
    BY <1>2, <2>2, <2>4, PartsAddUp
  <2>6. \A g \in R : w[g] \in Int /\ u[g] \in Int /\ v[g] = w[g] + u[g]
    BY <1>14, <2>1, <2>3
  <2>7. SumFunctionOnSet(v, R) = SumFunctionOnSet(w, R) + SumFunctionOnSet(u, R)
    BY ONLY <1>14, <2>1, <2>6, SumPlus
  <2> QED BY <1>4, <1>6, <2>1, <2>5, <2>7
<1>16. sums.total = SumFunctionOnSet(w, cast) + SumFunctionOnSet(w, late)
  <2>1. PICK S : S = cast \cup late
    OBVIOUS
  <2>2. IsFiniteSet(S) /\ late \in SUBSET S /\ cast \in SUBSET S
    BY <1>4, <1>7, <2>1, FS_Subset
  <2>3. PICK z : z = [g \in S |-> IF g \in late THEN 0 ELSE w[g]]
    OBVIOUS
  <2>4. \A g \in S : w[g] \in Int
    BY <1>7, <1>14, <2>1
  <2>5. /\ \A g \in S : z[g] \in Int
        /\ \A g \in late : w[g] \in Int /\ w[g] = z[g] + w[g]
        /\ \A g \in S \ late : w[g] = z[g]
        /\ \A g \in S \ cast : z[g] = 0
        /\ \A g \in cast : z[g] = w[g]
    BY <1>7, <2>1, <2>3, <2>4
  <2>6. SumFunctionOnSet(w, S) = SumFunctionOnSet(z, S) + SumFunctionOnSet(w, late)
    BY ONLY <2>2, <2>5, SumChangeOn
  <2>7. SumFunctionOnSet(z, S) = SumFunctionOnSet(z, cast)
    BY ONLY <2>2, <2>5, SumWithoutZeros
  <2>8. SumFunctionOnSet(z, cast) = SumFunctionOnSet(w, cast)
    BY ONLY <1>14, <2>5, SumSame
  <2> QED BY <1>3, <1>7, <1>13, <2>1, <2>6, <2>7, <2>8
<1>17. SumFunctionOnSet(file.weight, late) = SumFunctionOnSet(w, late)
  <2>1. PICK v : v = file.weight
    OBVIOUS
  <2>2. \A g \in late : v[g] = w[g]
    BY <1>7, <1>13, <2>1
  <2> QED BY <1>14, <2>1, <2>2, SumSame
<1>18. SumFunction(u) = SumFunctionOnSet(u, cast)
  <2>1. DOMAIN u = cast
    BY <1>13
  <2> QED BY ONLY <2>1, SumOfFunction
<1>19. file.total + SumFunction(u) = t.total + SumFunctionOnSet(file.weight, late)
  <2>1. PICK x \in Int : x = SumFunctionOnSet(w, cast)
    <3>1. \A g \in cast : w[g] \in Int
      BY <1>7, <1>14
    <3> QED BY ONLY <1>14, <3>1, SumType
  <2>2. PICK y \in Int : y = SumFunctionOnSet(w, late)
    <3>1. \A g \in late : w[g] \in Int
      BY <1>7, <1>14
    <3> QED BY ONLY <1>14, <3>1, SumType
  <2>3. PICK z \in Int : z = SumFunctionOnSet(u, cast)
    <3>1. \A g \in cast : u[g] \in Int
      BY <1>14
    <3> QED BY ONLY <1>14, <3>1, SumType
  <2>4. file.total = x + y /\ t.total = x + z /\ SumFunction(u) = z
        /\ SumFunctionOnSet(file.weight, late) = y
    BY <1>15, <1>16, <1>17, <1>18, <2>1, <2>2, <2>3
  <2> QED BY <2>4
<1> QED BY <1>1, <1>5, <1>6, <1>7, <1>11, <1>12, <1>13, <1>19 DEF WeighsAsTheContract, G

(* Where the two rules are one, the page's sums are the contract's.         *)
TalliedAlike(sums, t) ==
  /\ [g \in sums.casting |-> sums.weight[g]] = t.weight
  /\ sums.total = t.total
  /\ sums.payees = ToSet(t.participants)
  /\ \A a \in sums.payees : t.stake[a] = sums.stake[a]
  /\ t.participants \in Seq(Address) /\ IsInjective(t.participants)

LEMMA PageTallies ==
  ASSUME history \in Histories, NEW b \in Elections, SameRuleAt(b),
         NEW K, KnowsAll(K, b),
         NEW sums, sums = CopyAndSums(b, GuardiansAt(b), Followed(GuardiansAt(b), K))
  PROVE  TalliedAlike(sums, ContractTally(b)) /\ SumsTyped(sums, GuardiansAt(b))
<1> DEFINE G == GuardiansAt(b)
           F == Followed(G, K)
           ag == AgentsAt(b)
           cast == CastOf(history.guardians[b], DataAt(b))
           P(g) == SpokenFor(g, G, ag)
<1>1. PICK t : t = ContractTally(b)
  OBVIOUS
<1>2. /\ Counted(t, cast, G, ag, [g \in Account |-> {}], StakesAt(b))
      /\ t.weight = [g \in DOMAIN t.weight |-> t.weight[g]]
      /\ \A a \in Address : StakesAt(b)[a] = history.stake[b][a] + history.locked[b][a]
  BY <1>1, ContractCounts
<1>3. /\ sums.stake = [a \in Address |-> history.stake[b][a]]
      /\ sums.weight = [g \in G |-> WeightOnPage(g, F, sums.stake)]
      /\ sums.casting = {g \in G : VoteCounts(g, b)}
      /\ sums.total = SumFunctionOnSet(sums.weight, sums.casting)
      /\ sums.payees = sums.casting \cup UNION {LedBehind(g, F) : g \in sums.casting}
  BY SumsAre
<1>4. PICK file : file = [weight |-> [g \in sums.casting |-> sums.weight[g]], total |-> sums.total]
  OBVIOUS
<1>5. /\ WeighsAsTheContract(file, b) /\ SumsTyped(sums, G)
      /\ \A g \in G : P(g) = LedBehind(g, F) \cup {g} /\ P(g) = Behind(g, b) \cup {g}
      /\ \A g \in G : P(g) \subseteq Address /\ IsFiniteSet(P(g))
  BY <1>4, PageWeighs, BehindOnThePage, PageSpeaks DEF SameRuleAt
<1>6. /\ Counts(t) /\ ToSet(t.participants) = Electors(cast, G, ag) /\ DOMAIN t.weight = cast
      /\ \A a \in Electors(cast, G, ag) : t.stake[a] = StakesAt(b)[a]
  BY <1>2 DEF Counted
<1>7. cast = sums.casting /\ cast \in SUBSET G /\ OldestVoters(b) = {}
  <2>1. OldestVoters(b) = {}
    BY DEF SameRuleAt
  <2> HIDE DEF cast
  <2> QED BY <1>3, <2>1, CastingIs DEF cast
<1>8. \A g \in G : \A y \in P(g) : y \in Address /\ history.locked[b][y] = 0
  <2> SUFFICES ASSUME NEW g \in G, NEW y \in P(g) PROVE y \in Address /\ history.locked[b][y] = 0
    OBVIOUS
  <2>1. y = g \/ y \in Behind(g, b)
    BY <1>5
  <2>2. Represented(y, b)
    BY <2>1 DEF Represented, GuardiansAt
  <2> QED BY <1>5, <2>2 DEF SameRuleAt
<1> HIDE DEF P, F, G, ag, cast
<1>9. \A g \in G : UnseenStake(g, b) = 0
  <2> SUFFICES ASSUME NEW g \in G PROVE UnseenStake(g, b) = 0
    OBVIOUS
  <2>1. UnseenStake(g, b) = SumFunctionOnSet(history.locked[b], {g} \cup Behind(g, b))
    BY DEF UnseenStake
  <2>2. {g} \cup Behind(g, b) = P(g)
    BY <1>5
  <2>3. \A y \in P(g) : history.locked[b][y] = 0
    BY <1>8
  <2>4. SumFunctionOnSet(history.locked[b], P(g)) = 0
    BY <1>5, <2>3, SumOfZeros
  <2> QED BY <2>1, <2>2, <2>4
<1>10. /\ \A g \in cast : t.weight[g] = file.weight[g] + UnseenStake(g, b)
       /\ file.total + SumFunction([g \in cast |-> UnseenStake(g, b)]) =
            t.total + SumFunctionOnSet(file.weight, {})
  BY <1>1, <1>5, <1>6, <1>7 DEF WeighsAsTheContract
<1>11. [g \in sums.casting |-> sums.weight[g]] = t.weight
  <2>1. ASSUME NEW g \in cast PROVE sums.weight[g] = t.weight[g]
    <3>1. sums.weight[g] \in Nat /\ file.weight[g] = sums.weight[g] /\ UnseenStake(g, b) = 0
      BY <1>4, <1>5, <1>7, <1>9 DEF SumsTyped
    <3> QED BY <1>10, <3>1
  <2> QED BY <1>2, <1>6, <1>7, <2>1
<1>12. sums.total = t.total
  <2>1. PICK z : z = [g \in cast |-> UnseenStake(g, b)]
    OBVIOUS
  <2>2. DOMAIN z = cast /\ \A g \in cast : z[g] = 0
    BY <1>7, <1>9, <2>1
  <2>3. IsFiniteSet(cast)
    BY <1>5, <1>7, AddressAssumption, FS_Subset DEF SumsTyped
  <2>4. SumFunction(z) = 0
    BY <2>2, <2>3, SumOfFunction, SumOfZeros
  <2>5. SumFunctionOnSet(file.weight, {}) = 0
    BY SumEmpty
  <2>6. sums.total \in Nat /\ file.total = sums.total
    BY <1>4, <1>5 DEF SumsTyped
  <2>7. t.total \in Nat
    BY <1>6 DEF Counts
  <2> QED BY <1>10, <2>1, <2>4, <2>5, <2>6, <2>7
<1>13. sums.payees = ToSet(t.participants)
  <2>1. \A y : y \in Electors(cast, G, ag) <=> \E g \in cast : y \in P(g)
    BY DEF Electors, P
  <2>2. \A y : y \in sums.payees <=> \E g \in cast : y \in P(g)
    BY <1>3, <1>5, <1>7
  <2> QED BY <1>6, <2>1, <2>2
<1>14. \A a \in sums.payees : t.stake[a] = sums.stake[a]
  <2> SUFFICES ASSUME NEW a \in sums.payees PROVE t.stake[a] = sums.stake[a]
    OBVIOUS
  <2>1. a \in Electors(cast, G, ag)
    BY <1>6, <1>13
  <2>2. a \in Address /\ history.locked[b][a] = 0
    <3>1. PICK g \in cast : a \in P(g)
      BY <2>1 DEF Electors, P
    <3> QED BY <1>7, <1>8, <3>1
  <2>3. history.stake[b][a] \in Nat
    BY <2>2, HistoryIs
  <2> QED BY <1>2, <1>3, <1>6, <2>1, <2>2, <2>3
<1>15. t.participants \in Seq(Address) /\ IsInjective(t.participants)
  BY <1>6 DEF Counts
<1> QED BY <1>1, <1>5, <1>11, <1>12, <1>13, <1>14, <1>15 DEF TalliedAlike, G

(* Whoever is represented is listed, and its guardian's delegators are led. *)
LEMMA PageRepresents ==
  ASSUME history \in Histories, NEW b \in Elections, SameDelegationsAt(b),
         NEW K, KnowsAll(K, b),
         NEW F, F = Followed(GuardiansAt(b), K),
         NEW sums, sums = CopyAndSums(b, GuardiansAt(b), F),
         NEW x \in Address, Represented(x, b)
  PROVE  /\ x \in sums.listed
         /\ \A e \in K : GuardianFields(F)[e.delegator] \notin GuardiansAt(b) => e.to # x
<1> DEFINE G == GuardiansAt(b)
           ag == AgentsAt(b)
           P(g) == SpokenFor(g, G, ag)
           led(e) == FollowDelegation(e, G, K, MaxLevel)
<1>1. \A g \in G : P(g) = LedBehind(g, F) \cup {g}
  BY BehindOnThePage
<1>2. G \subseteq Address /\ EmptyAddress \notin G
  BY AgentsAre, EmptyAddressAssumption
<1>3. \A e \in K : /\ led(e) \in G \cup {EmptyAddress}
                   /\ \A g \in G : led(e) = g <=> e.delegator \in P(g)
                   /\ \A d \in Delegating(b) : d.delegator = e.delegator =>
                        LedTo(d, b, MaxLevel) = led(e)
  BY LedToItsSpeaker
<1>4. /\ \A e, f \in K : e.delegator = f.delegator => e = f
      /\ \A e \in K : e.delegator \in Address \ G /\ e.to = ag[e.delegator]
      /\ \A d \in Delegating(b) : \E e \in K : e.delegator = d.delegator
  BY DEF KnowsAll, NoGuardians, Leads, DelegatorsAt
<1>5. F = {<<e.delegator, led(e)>> : e \in K}
  BY DEF Followed
<1>6. \E g \in G : x \in P(g)
  <2>1. PICK g \in G : x = g \/ x \in Behind(g, b)
    BY DEF Represented, GuardiansAt
  <2>2. P(g) = Behind(g, b) \cup {g}
    BY PageSpeaks
  <2> QED BY <2>1, <2>2
<1>7. PICK g \in G : x \in P(g)
  BY <1>6
<1>8. x \in sums.listed
  <2>1. sums.listed = G \cup UNION {LedBehind(h, F) : h \in G}
    BY DEF CopyAndSums, LedBehind
  <2> HIDE DEF P, G
  <2> QED BY <1>1, <1>7, <2>1
<1>9. ASSUME NEW e \in K, e.to = x PROVE GuardianFields(F)[e.delegator] = g
  <2>1. e.delegator \in P(g)
    <3>1. ag[e.delegator] = x /\ e.delegator \in Address \ G /\ e.delegator \in Account
      BY <1>4, <1>9 DEF Account
    <3> QED BY <1>7, <3>1 DEF SpokenFor
  <2> HIDE DEF P, led, G, ag
  <2>2. led(e) = g
    BY <1>3, <2>1
  <2>3. PICK y \in Address : y = e.delegator
    BY <1>4
  <2>4. PICK p : p = <<y, g>>
    OBVIOUS
  <2>5. p \in F /\ p[1] = y /\ p[2] = g
    BY <1>5, <2>2, <2>3, <2>4
  <2>6. ASSUME NEW f \in F, f[1] = y PROVE f = p
    <3>1. PICK d \in K : f = <<d.delegator, led(d)>>
      BY <1>5
    <3>2. d.delegator = y
      BY <2>6, <3>1
    <3>3. d = e
      BY <1>4, <2>3, <3>2
    <3> QED BY <2>2, <2>3, <2>4, <3>1, <3>3
  <2>7. <<y, EmptyAddress>> \notin F
    <3> SUFFICES ASSUME <<y, EmptyAddress>> \in F PROVE FALSE
      OBVIOUS
    <3>1. <<y, EmptyAddress>>[1] = y
      OBVIOUS
    <3>2. <<y, EmptyAddress>> = <<y, g>>
      BY <2>4, <2>6, <3>1
    <3>3. <<y, EmptyAddress>>[2] = EmptyAddress /\ <<y, g>>[2] = g
      OBVIOUS
    <3> QED BY <1>2, <3>2, <3>3
  <2>8. PICK c : c = CHOOSE f \in F : f[1] = y
    OBVIOUS
  <2>9. c = p
    BY <2>5, <2>6, <2>8
  <2>10. GuardianFields(F)[y] = c[2]
    BY <2>5, <2>7, <2>8 DEF GuardianFields
  <2> QED BY <2>3, <2>5, <2>9, <2>10
<1> HIDE DEF P, led, ag
<1> QED BY <1>7, <1>8, <1>9

LEMMA FieldsTyped ==
  ASSUME NEW F, F \subseteq Address \X Account, guardianOf \in [Address -> Account]
  PROVE  GuardianFields(F) \in [Address -> Account]
<1>1. ASSUME NEW a \in Address, ~(\A f \in F : f[1] # a)
      PROVE  (CHOOSE f \in F : f[1] = a)[2] \in Account
  <2>1. PICK c : c = CHOOSE f \in F : f[1] = a
    OBVIOUS
  <2>2. c \in F
    BY <1>1, <2>1
  <2>3. c[2] \in Account
    BY <2>2
  <2> QED BY <2>1, <2>3
<1>2. \A a \in Address : GuardianFields(F)[a] \in Account
  BY <1>1 DEF GuardianFields, Account
<1>3. GuardianFields(F) = [a \in Address |-> GuardianFields(F)[a]]
  BY DEF GuardianFields
<1> QED BY <1>2, <1>3

(* Rewards are numbers.                                                     *)
LEMMA AccumulatedTyped ==
  ASSUME NEW old \in [Address -> Nat], NEW payees \in SUBSET Address,
         NEW part, \A a \in payees : part[a] \in Nat, NEW total \in Nat, NEW max \in Nat
  PROVE  Accumulate(old, payees, part, total, max) \in [Address -> Nat]
<1>1. ASSUME NEW a \in Address PROVE Accumulate(old, payees, part, total, max)[a] \in Nat
  <2>1. CASE a \notin payees
    BY <2>1 DEF Accumulate
  <2>2. CASE a \in payees /\ total = 0
    BY <2>2 DEF Accumulate
  <2>3. CASE a \in payees /\ total # 0
    <3>1. PICK x \in Nat : x = part[a] * max
      <4>1. PICK p \in Nat : p = part[a]
        BY <2>3
      <4> QED BY <4>1
    <3>2. PICK n \in Nat \ {0} : n = total
      BY <2>3
    <3>3. x \div n \in Nat
      BY RoundedDown
    <3>4. Accumulate(old, payees, part, total, max)[a] = old[a] + (part[a] * max) \div total
      BY <2>3 DEF Accumulate
    <3>5. PICK q \in Nat : q = x \div n
      BY <3>3
    <3>6. Accumulate(old, payees, part, total, max)[a] = old[a] + q
      BY ONLY <3>1, <3>2, <3>4, <3>5
    <3> QED BY <3>6
  <2> QED BY <2>1, <2>2, <2>3
<1>2. Accumulate(old, payees, part, total, max) =
        [a \in Address |-> Accumulate(old, payees, part, total, max)[a]]
  BY DEF Accumulate
<1> QED BY <1>1, <1>2

LEMMA RewardsTyped ==
  ASSUME NEW G, NEW sums, SumsTyped(sums, G), NEW top \in SUBSET sums.casting,
         NEW old \in [participation : [Address -> Nat], excellence : [Address -> Nat]]
  PROVE  /\ AddRewards(old, sums, top) \in
              [participation : [Address -> Nat], excellence : [Address -> Nat]]
         /\ AddRewards(old, sums, top).participation =
              AddParticipationRewards(old.participation, sums)
<1>1. /\ sums.stake \in [Address -> Nat] /\ sums.weight \in [G -> Nat] /\ sums.total \in Nat
      /\ sums.casting \subseteq G /\ G \subseteq Address /\ sums.payees \in SUBSET Address
  BY DEF SumsTyped
<1>2. PICK topTotal \in Nat : topTotal = SumFunctionOnSet(sums.weight, top)
  <2>1. IsFiniteSet(top) /\ \A x \in top : sums.weight[x] \in Nat
    BY <1>1, AddressAssumption, FS_Subset
  <2>2. SumFunctionOnSet(sums.weight, top) \in Nat
    BY ONLY <2>1, SumType
  <2> QED BY <2>2
<1>3. /\ MaxRewardForGroup(ParticipationMaxReward, sums.total, ParticipationPercent) \in Nat
      /\ MaxRewardForGroup(ExcellenceMaxReward, topTotal, ExcellencePercent) \in Nat
  BY <1>1, TallyAssumption, MaxRewardTyped
<1>4. AddParticipationRewards(old.participation, sums) \in [Address -> Nat]
  <2>1. \A a \in sums.payees : sums.stake[a] \in Nat
    BY <1>1
  <2> QED BY <1>1, <1>3, <2>1, AccumulatedTyped DEF AddParticipationRewards
<1>5. Accumulate(old.excellence, top, sums.weight, topTotal,
                 MaxRewardForGroup(ExcellenceMaxReward, topTotal, ExcellencePercent)) \in [Address -> Nat]
  <2>1. top \in SUBSET Address /\ \A a \in top : sums.weight[a] \in Nat
    BY <1>1
  <2> QED BY <1>1, <1>3, <2>1, AccumulatedTyped
<1>6. AddRewards(old, sums, top) =
        [participation |-> AddParticipationRewards(old.participation, sums),
         excellence    |-> Accumulate(old.excellence, top, sums.weight, topTotal,
                 MaxRewardForGroup(ExcellenceMaxReward, topTotal, ExcellencePercent))]
  BY <1>2 DEF AddRewards
<1> QED BY <1>4, <1>5, <1>6

(* The page adds what the contract pays.                                    *)
LEMMA PaidAlike ==
  ASSUME NEW sums, NEW t, NEW G, TalliedAlike(sums, t), SumsTyped(sums, G), t.total > 0,
         NEW old \in [Address -> Nat], NEW a \in Address
  PROVE  /\ AddParticipation(Zeros, t)[a] \in Nat
         /\ AddParticipationRewards(old, sums)[a] = old[a] + AddParticipation(Zeros, t)[a]
<1>1. PICK total \in Nat : total = t.total /\ total = sums.total
  BY DEF TalliedAlike, SumsTyped
<1>2. PICK max \in Nat : max = ParticipationPool(total)
  BY <1>1, TallyAssumption, MaxRewardTyped DEF ParticipationPool
<1>3. /\ AddParticipationRewards(old, sums)[a] =
           IF a \notin sums.payees THEN old[a] ELSE old[a] + (sums.stake[a] * max) \div total
      /\ AddParticipation(Zeros, t)[a] =
           IF a \in ToSet(t.participants)
             THEN 0 + Occurrences(a, t.participants) * ParticipationShare(a, t) ELSE 0
      /\ ParticipationShare(a, t) = (t.stake[a] * max) \div total
  BY <1>1, <1>2 DEF AddParticipationRewards, Accumulate, ParticipationPool, AddParticipation, Zeros,
     ParticipationShare
<1>4. CASE a \notin sums.payees
  BY <1>3, <1>4 DEF TalliedAlike
<1>5. CASE a \in sums.payees
  <2>1. a \in ToSet(t.participants) /\ Occurrences(a, t.participants) = 1
    BY <1>5, OccursOnce DEF TalliedAlike
  <2>2. PICK s \in Nat : s = t.stake[a] /\ s = sums.stake[a]
    BY <1>5 DEF TalliedAlike, SumsTyped
  <2>3. PICK q \in Nat : q = (s * max) \div total
    <3>1. PICK n \in Nat \ {0} : n = total
      BY <1>1
    <3>2. PICK x \in Nat : x = s * max
      OBVIOUS
    <3>3. x \div n \in Nat
      BY RoundedDown
    <3> QED BY <3>1, <3>2, <3>3
  <2>4. AddParticipation(Zeros, t)[a] = 0 + 1 * q
    BY <1>3, <2>1, <2>2, <2>3
  <2>5. AddParticipationRewards(old, sums)[a] = old[a] + q
    BY ONLY <1>3, <1>5, <2>2, <2>3
  <2> QED BY <2>4, <2>5
<1> QED BY <1>4, <1>5

-----------------------------------------------------------------------------
(* IV.  The runs and their files                                            *)

(* Where the loop of a run may stand: at an election, or one period before  *)
(* the first.                                                               *)
Starts == Elections \cup {FirstElectionBlock - ElectionPeriod}

LEMMA Calendar ==
  /\ Elections \subseteq Nat /\ IsFiniteSet(Elections) /\ Starts \subseteq Nat
  /\ \A b \in Elections : b >= FirstElectionBlock /\ (b - FirstElectionBlock) % ElectionPeriod = 0
  /\ \A s \in Starts : (s - FirstElectionBlock) % ElectionPeriod = 0
  /\ \A s \in Starts, end \in EndBlocks :
       s < end - ElectionPeriod => s + ElectionPeriod \in Elections
<1>1. Max(EndBlocks) \in EndBlocks /\ \A k \in EndBlocks : k <= Max(EndBlocks)
  BY StatusPageAssumption, GreatestOfFinite
<1>2. PICK max \in Nat : max = Max(EndBlocks)
  BY <1>1, StatusPageAssumption
<1>3. EndBlocks \subseteq Nat /\ \A k \in EndBlocks : k <= max
  BY <1>1, <1>2, StatusPageAssumption
<1>4. \A b : b \in Elections <=> /\ b \in FirstElectionBlock .. max
                                 /\ (b - FirstElectionBlock) % ElectionPeriod = 0
  BY <1>2 DEF Elections
<1>5. IsFiniteSet(Elections)
  <2>1. Elections \in SUBSET (FirstElectionBlock .. max)
    BY <1>4
  <2>2. IsFiniteSet(FirstElectionBlock .. max)
    BY Sizes, FS_Interval
  <2> QED BY <2>1, <2>2, FS_Subset
<1>6. \A b \in Elections : b \in Nat /\ b >= FirstElectionBlock
  BY <1>4, Sizes
<1>7. Starts \subseteq Nat
  BY <1>6, Sizes DEF Starts
<1>8. ASSUME NEW s \in Starts PROVE (s - FirstElectionBlock) % ElectionPeriod = 0
  <2>1. CASE s \in Elections
    BY <1>4, <2>1
  <2>2. CASE s = FirstElectionBlock - ElectionPeriod
    <3>1. PICK n \in Nat \ {0} : n = ElectionPeriod
      BY Sizes
    <3>2. PICK k \in Int : k = -1
      OBVIOUS
    <3>3. n * k = -n
      BY <3>2
    <3>4. (n * k) % n = 0
      BY MultipleOf
    <3>5. s - FirstElectionBlock = -n
      BY <2>2, <3>1, Sizes
    <3> QED BY <3>1, <3>3, <3>4, <3>5
  <2> QED BY <2>1, <2>2 DEF Starts
<1>9. ASSUME NEW s \in Starts, NEW end \in EndBlocks, s < end - ElectionPeriod
      PROVE  s + ElectionPeriod \in Elections
  <2>1. PICK n \in Nat \ {0} : n = ElectionPeriod
    BY Sizes
  <2>2. PICK x \in Int : x = s - FirstElectionBlock
    BY <1>7, Sizes
  <2>3. x % n = 0 /\ n % n = 0
    BY <1>8, <2>1, <2>2
  <2>4. (x + n) % n = 0
    <3>1. PICK y \in Int : y = n
      OBVIOUS
    <3>2. x % n = 0 /\ y % n = 0
      BY <2>3, <3>1
    <3>3. (x + y) % n = 0
      BY <3>2, SumOfMultiples
    <3> QED BY <3>1, <3>3
  <2>5. x + n = (s + ElectionPeriod) - FirstElectionBlock
    BY <1>7, <2>1, <2>2, Sizes
  <2>6. s + ElectionPeriod \in FirstElectionBlock .. max
    <3>1. s \in Nat /\ end \in Nat /\ end <= max
      BY <1>3, <1>7
    <3>2. s + ElectionPeriod >= FirstElectionBlock
      BY <1>6, <3>1, Sizes DEF Starts
    <3> QED BY <1>9, <3>1, <3>2, Sizes
  <2> QED BY <1>4, <2>1, <2>4, <2>5, <2>6
<1> QED BY <1>4, <1>5, <1>6, <1>7, <1>8, <1>9

(* Between an election and the next there is none.                          *)
LEMMA OneElectionMore ==
  ASSUME history \in Histories, NEW s \in Starts, NEW b \in Elections, b = s + ElectionPeriod
  PROVE  /\ ElectionsUpTo(b) = ElectionsUpTo(s) \cup {b} /\ b \notin ElectionsUpTo(s)
         /\ b \in ElectionsUpTo(b) /\ ElectionsUpTo(s) \subseteq ElectionsUpTo(b)
         /\ Formerly(b) = Formerly(s) \cup GuardiansAt(b)
<1>1. \A z, x : x \in ElectionsUpTo(z) <=> x \in Elections /\ FirstElectionBlock <= x /\ x <= z
  BY HistoryIs DEF ElectionsUpTo
<1>2. s \in Nat /\ b \in Nat /\ s < b /\ FirstElectionBlock <= b
  BY Calendar, Sizes
<1>3. ASSUME NEW x \in Elections, s < x PROVE b <= x
  <2>1. PICK n \in Nat \ {0} : n = ElectionPeriod
    BY Sizes
  <2>2. PICK z \in Int : z = s - FirstElectionBlock
    BY <1>2, Sizes
  <2>3. x \in Nat
    BY Calendar
  <2>4. PICK y \in Int : y = x - FirstElectionBlock
    BY <2>3, Sizes
  <2>5. z % n = 0 /\ y % n = 0 /\ z < y
    BY <1>2, <1>3, <2>1, <2>2, <2>3, <2>4, Calendar, Sizes
  <2>6. z + n <= y
    BY <2>5, NextMultiple
  <2> QED BY <1>2, <2>1, <2>2, <2>3, <2>4, <2>6, Sizes
<1>4. \A x \in Elections : x \in Nat /\ FirstElectionBlock <= x
  BY Calendar
<1>5. \A x \in Elections : x <= b <=> x <= s \/ x = b
  <2> SUFFICES ASSUME NEW x \in Elections PROVE x <= b <=> x <= s \/ x = b
    OBVIOUS
  <2> QED BY <1>2, <1>3, <1>4
<1>6. ElectionsUpTo(b) = ElectionsUpTo(s) \cup {b}
  BY <1>1, <1>2, <1>4, <1>5
<1>7. b \notin ElectionsUpTo(s)
  BY <1>1, <1>2
<1> QED BY <1>6, <1>7 DEF Formerly

LEMMA NoElectionBefore ==
  ASSUME history \in Histories
  PROVE  /\ ElectionsUpTo(FirstElectionBlock - ElectionPeriod) = {}
         /\ Formerly(FirstElectionBlock - ElectionPeriod) = {}
         /\ \A b : ElectionsUpTo(b) \subseteq Elections /\ IsFiniteSet(ElectionsUpTo(b))
         /\ \A b \in Elections : b \in ElectionsUpTo(b)
<1>1. \A z, x : x \in ElectionsUpTo(z) <=> x \in Elections /\ FirstElectionBlock <= x /\ x <= z
  BY HistoryIs DEF ElectionsUpTo
<1>2. ElectionsUpTo(FirstElectionBlock - ElectionPeriod) = {}
  <2>1. PICK z \in Nat : z = FirstElectionBlock - ElectionPeriod /\ z < FirstElectionBlock
    BY Sizes
  <2>2. \A x \in Elections : ~(FirstElectionBlock <= x /\ x <= z)
    BY <2>1, Calendar, Sizes
  <2> QED BY <1>1, <2>1, <2>2
<1>3. \A b : IsFiniteSet(ElectionsUpTo(b))
  <2> SUFFICES ASSUME NEW b PROVE IsFiniteSet(ElectionsUpTo(b))
    OBVIOUS
  <2>1. ElectionsUpTo(b) \in SUBSET Elections
    BY <1>1
  <2> QED BY <2>1, Calendar, FS_Subset
<1>4. \A b \in Elections : b \in Nat /\ b <= b /\ FirstElectionBlock <= b
  BY Calendar
<1> QED BY <1>1, <1>2, <1>3, <1>4 DEF Formerly

(* What a map and its transactions are when no search failed: X was read.   *)
Read(X, st, start, from) ==
  \/ st = "calculate" /\ X = Past(start + ElectionPeriod)
  \/ st = "collect" /\ X = Past(start)
  \/ /\ st = "collect" /\ start = FirstElectionBlock - ElectionPeriod /\ from = 0
     /\ {e \in history.events : e.block < start} \subseteq X
     /\ X \subseteq Past(start + ElectionPeriod)

TxsOf(X) == [transfers |-> LatestOf(By(X, "Transfer")), delegates |-> LatestOf(By(X, "Delegate"))]

MapIs(map, txs, st, start, from) ==
  \E X \in SUBSET history.events :
    /\ Read(X, st, start, from) /\ KeepsStrongest(map, X, Formerly(start))
    /\ from = 0 => map \subseteq history.events /\ txs = TxsOf(X)

MapInv ==
  stage \in {"collect", "calculate"} /\ ~dropped =>
    MapIs(delegatorsMap, eventTxs, stage, startElectionPeriod, fileStartFrom)

RewardsType == [participation : [Address -> Nat], excellence : [Address -> Nat]]

(* The stages of a run, and what it begins with.                            *)
RunInv ==
  /\ history \in Histories
  /\ stage \in {"off", "prepare", "collect", "calculate"}
  /\ MapTyped(delegatorsMap)
  /\ guardianOf \in [Address -> Account] /\ rewards \in RewardsType /\ dropped \in BOOLEAN
  /\ stage \in {"off", "prepare"} =>
       /\ fileStartFrom = 0 /\ delegatorsMap = {} /\ rewards = NoRewards
       /\ eventTxs = NoTxs /\ dropped = FALSE
  /\ stage = "prepare" => startElectionPeriod = FirstElectionBlock - ElectionPeriod
  /\ stage # "off" =>
       /\ processEndBlock \in EndBlocks /\ startElectionPeriod \in Starts
       /\ \A e \in delegatorsMap : e.block <= startElectionPeriod + ElectionPeriod

(* The files of delegations.                                                *)
FileIs(F, block) ==
  /\ block \in Elections /\ F.dropped \in BOOLEAN
  /\ MapTyped(F.delegations) /\ \A e \in F.delegations : e.block <= block
  /\ ~F.dropped => KeepsStrongest(F.delegations, Past(block), Formerly(block))

FilesInv == \A b \in DOMAIN delegationsFile : FileIs(delegationsFile[b], b)

CalculateInv ==
  stage = "calculate" =>
    /\ startElectionPeriod + ElectionPeriod \in Elections \cap DOMAIN delegationsFile
    /\ delegationsFile[startElectionPeriod + ElectionPeriod] =
         DelegationFiles(delegatorsMap, eventTxs, dropped)

(* The files of votes have numbers for rewards.                             *)
VotesTyped(F, block) ==
  /\ block \in Elections /\ F.dropped \in BOOLEAN
  /\ \A a \in Address \cap DOMAIN F.participation : F.participation[a] \in Nat
  /\ \A a \in Address \cap DOMAIN F.excellence : F.excellence[a] \in Nat

VotesTypedInv == \A b \in DOMAIN votesFile : VotesTyped(votesFile[b], b)

StatusInv == RunInv /\ MapInv /\ FilesInv /\ CalculateInv /\ VotesTypedInv

(* The past stays what it was.                                              *)
LEMMA PastStays ==
  ASSUME history' = history, NEW D, NEW b, NEW F, NEW t, NEW s, NEW f
  PROVE  /\ MapTyped(D)' <=> MapTyped(D)
         /\ MapIs(D, t, s, b, f)' <=> MapIs(D, t, s, b, f)
         /\ FileIs(F, b)' <=> FileIs(F, b)
<1>1. MapTyped(D)' <=> MapTyped(D)
  BY DEF MapTyped, FromFile
<1>2. MapIs(D, t, s, b, f)' <=> MapIs(D, t, s, b, f)
  BY DEF MapIs, Read, KeepsStrongest, Strongest, Formerly, GuardiansAt,
     ElectionsUpTo, Past, TxsOf, LatestOf, By
<1>3. FileIs(F, b)' <=> FileIs(F, b)
  BY DEF FileIs, MapTyped, FromFile, KeepsStrongest, Strongest, Formerly,
     GuardiansAt, ElectionsUpTo, Past
<1> QED BY <1>1, <1>2, <1>3

(* The files that stay, stay right.                                         *)
LEMMA FilesStay ==
  ASSUME FilesInv, history' = history, delegationsFile' = delegationsFile
  PROVE  FilesInv'
<1>1. ASSUME NEW b \in DOMAIN delegationsFile PROVE FileIs(delegationsFile[b], b)'
  <2>1. PICK F : F = delegationsFile[b]
    OBVIOUS
  <2>2. FileIs(F, b)
    BY <2>1 DEF FilesInv
  <2>3. FileIs(F, b)'
    BY <2>2, PastStays
  <2>4. F = (delegationsFile[b])'
    BY <2>1
  <2> QED BY <2>3, <2>4 DEF FileIs, MapTyped, FromFile, KeepsStrongest, Strongest, Same, Stamped,
       Formerly, GuardiansAt, ElectionsUpTo, Past
<1> QED BY <1>1 DEF FilesInv

(* Whoever else becomes a guardian may be forgotten.                        *)
LEMMA MayForgetMore ==
  ASSUME NEW D, NEW X, NEW W, NEW V, KeepsStrongest(D, X, W), W \subseteq V
  PROVE  KeepsStrongest(D, X, V)
BY DEF KeepsStrongest

(* What every search does to a map.                                         *)
LEMMA SearchedMap ==
  ASSUME RunInv, NEW start \in Int, NEW end \in Int, start < end,
         NEW N \in SUBSET history.events, Searched(N, start, end), NEW M, M = delegatorsMap'
  PROVE  /\ MapTyped(M) /\ M \subseteq delegatorsMap \cup N
         /\ \A W : \A X \in SUBSET history.events :
              /\ KeepsStrongest(delegatorsMap, X, W)
              /\ \/ delegatorsMap \subseteq history.events
                 \/ \A f \in N \ X, o \in X : f.block > o.block
              => KeepsStrongest(M, X \cup N, W)
<1>1. PICK A : A = Accepted(delegatorsMap, Strongest(N))
  OBVIOUS
<1>2. M = Overwrite(delegatorsMap, A)
  BY <1>1 DEF Searched
<1>3. history \in Histories /\ MapTyped(delegatorsMap)
  BY DEF RunInv
<1>4. MapTyped(M) /\ A \subseteq N
  BY <1>1, <1>2, <1>3, MapStaysTyped
<1>5. M \subseteq delegatorsMap \cup N
  BY <1>2, <1>4 DEF Overwrite
<1>6. ASSUME NEW X \in SUBSET history.events, NEW W, KeepsStrongest(delegatorsMap, X, W),
             \/ delegatorsMap \subseteq history.events
             \/ \A f \in N \ X, o \in X : f.block > o.block
      PROVE  KeepsStrongest(M, X \cup N, W)
  BY <1>1, <1>2, <1>3, <1>6, UpdatedMap
<1> QED BY <1>4, <1>5, <1>6

(* The transactions go on being the newest.                                 *)
LEMMA SearchedTxs ==
  ASSUME history \in Histories, NEW start, NEW end, NEW N \in SUBSET history.events,
         Searched(N, start, end), ~dropped',
         NEW X \in SUBSET history.events, eventTxs = TxsOf(X),
         \A e \in X \ N, f \in N : e.block < f.block
  PROVE  eventTxs' = TxsOf(X \cup N)
<1>1. eventTxs' = [transfers |-> Overwrite(eventTxs.transfers, LatestOf(By(N, "Transfer"))),
                   delegates |-> Overwrite(eventTxs.delegates, LatestOf(By(N, "Delegate")))]
  BY DEF Searched
<1>2. eventTxs.transfers = LatestOf(By(X, "Transfer")) /\ eventTxs.delegates = LatestOf(By(X, "Delegate"))
  BY DEF TxsOf
<1>3. /\ Overwrite(LatestOf(By(X, "Transfer")), LatestOf(By(N, "Transfer"))) =
           LatestOf(By(X \cup N, "Transfer"))
      /\ Overwrite(LatestOf(By(X, "Delegate")), LatestOf(By(N, "Delegate"))) =
           LatestOf(By(X \cup N, "Delegate"))
  BY NewestOfBoth
<1> QED BY <1>1, <1>2, <1>3 DEF TxsOf

(* Before anything is read.                                                 *)
LEMMA NothingRead ==
  ASSUME NEW W
  PROVE  NoTxs = TxsOf({}) /\ KeepsStrongest({}, {}, W)
BY DEF NoTxs, TxsOf, LatestOf, By, KeepsStrongest, Strongest

(* The first steps of a run that begins at the start.                       *)
LEMMA LaunchFromStartKeeps ==
  ASSUME StatusInv, LaunchFromStart PROVE StatusInv'
<1>1. RunInv'
  BY Sizes DEF StatusInv, RunInv, LaunchFromStart, Starts, MapTyped, FromFile, RewardsType
<1>2. MapInv' /\ CalculateInv'
  BY DEF LaunchFromStart, MapInv, CalculateInv
<1>3. FilesInv'
  BY FilesStay DEF StatusInv, LaunchFromStart
<1>4. VotesTypedInv'
  BY DEF StatusInv, LaunchFromStart, VotesTypedInv, VotesTyped
<1> QED BY <1>1, <1>2, <1>3, <1>4 DEF StatusInv

LEMMA EndKeeps ==
  ASSUME StatusInv, End PROVE StatusInv'
<1>1. RunInv'
  BY DEF StatusInv, RunInv, End, MapTyped, FromFile, RewardsType, NoRewards, Zeros, Nobody, Account
<1>2. MapInv' /\ CalculateInv'
  BY DEF End, MapInv, CalculateInv
<1>3. FilesInv'
  BY FilesStay DEF StatusInv, End
<1>4. VotesTypedInv'
  BY DEF StatusInv, End, VotesTypedInv, VotesTyped
<1> QED BY <1>1, <1>2, <1>3, <1>4 DEF StatusInv

(* The next map is right if it is right by the past.                        *)
LEMMA NextMapIs ==
  ASSUME history' = history, NEW D, D = delegatorsMap', NEW t, t = eventTxs', NEW s, s = stage',
         NEW b, b = startElectionPeriod', NEW f, f = fileStartFrom',
         ~dropped' => MapIs(D, t, s, b, f)
  PROVE  MapInv'
<1>1. ASSUME ~dropped' PROVE MapIs(delegatorsMap, eventTxs, stage, startElectionPeriod, fileStartFrom)'
  <2>1. MapIs(D, t, s, b, f)'
    BY <1>1, PastStays
  <2> QED BY ONLY <2>1, D = delegatorsMap', t = eventTxs', s = stage', b = startElectionPeriod', f = fileStartFrom'
       DEF MapIs, Read, KeepsStrongest, Formerly, GuardiansAt, ElectionsUpTo
<1> QED BY <1>1 DEF MapInv

LEMMA NextMapTyped ==
  ASSUME history' = history, NEW D, D = delegatorsMap', MapTyped(D)
  PROVE  MapTyped(delegatorsMap)'
BY DEF MapTyped, FromFile

(* Small pages are no longer than a period.                                 *)
LEMMA SmallPagesAreShort == SlowPaging <= ElectionPeriod
<1>1. PICK n \in Nat \ {0} : n = SlowPaging
  BY Sizes
<1>2. PICK x \in Int : x = 0
  OBVIOUS
<1>3. PICK y \in Int : y = ElectionPeriod
  BY Sizes
<1>4. x % n = 0 /\ y % n = 0 /\ x < y
  BY <1>1, <1>2, <1>3, Sizes, SmallPagesFit
<1>5. x + n <= y
  BY <1>4, NextMultiple
<1> QED BY <1>1, <1>2, <1>3, <1>5

LEMMA CollectPreElectionKeeps ==
  ASSUME StatusInv, CollectPreElection PROVE StatusInv'
<1> DEFINE start == FirstElectionBlock - ElectionPeriod
<1>1. /\ stage = "prepare" /\ stage' = "collect"
      /\ history' = history /\ fileStartFrom' = fileStartFrom
      /\ startElectionPeriod' = startElectionPeriod /\ processEndBlock' = processEndBlock
      /\ rewards' = rewards /\ delegationsFile' = delegationsFile /\ votesFile' = votesFile
  BY DEF CollectPreElection
<1>2. /\ history \in Histories /\ guardianOf \in [Address -> Account] /\ rewards \in RewardsType
      /\ fileStartFrom = 0 /\ delegatorsMap = {} /\ eventTxs = NoTxs /\ dropped = FALSE
      /\ startElectionPeriod = start /\ processEndBlock \in EndBlocks
      /\ MapTyped(delegatorsMap)
  BY <1>1 DEF StatusInv, RunInv
<1>3. start \in Nat /\ start \in Starts /\ start + ElectionPeriod \in Nat
  BY Sizes DEF Starts
<1> HIDE DEF start
<1> DEFINE Found(M, t, d) ==
             /\ MapTyped(M) /\ \A e \in M : e.block <= start + ElectionPeriod
             /\ ~d => MapIs(M, t, "collect", start, 0)
<1>4. PICK M, t, d : M = delegatorsMap' /\ t = eventTxs' /\ d = dropped'
  OBVIOUS
<1>5. Found(M, t, d) /\ d \in BOOLEAN /\ guardianOf' \in [Address -> Account]
  <2>1. CASE start > ProcessStartBlock
    <3>1. SearchDelegations(ProcessStartBlock, start)
      BY <2>1 DEF CollectPreElection, start
    <3>2. ProcessStartBlock \in Int /\ ProcessStartBlock < start /\ start \in Int
      BY <1>3, <2>1, Sizes
    <3>3. PICK N \in SUBSET history.events : Searched(N, ProcessStartBlock, start)
      BY <1>2, <3>1, <3>2, SearchFinds
    <3>4. /\ MapTyped(M) /\ M \subseteq N
          /\ \A W : \A X \in SUBSET history.events :
               KeepsStrongest(delegatorsMap, X, W) => KeepsStrongest(M, X \cup N, W)
      BY <1>2, <1>4, <3>2, <3>3, SearchedMap DEF StatusInv
    <3>5. \A e \in N : e.block <= start + ElectionPeriod
      <4> SUFFICES ASSUME NEW e \in N PROVE e.block <= start + ElectionPeriod
        OBVIOUS
      <4>1. e.block \in ProcessStartBlock .. start + SlowPaging
        BY <3>3 DEF Searched
      <4> QED BY <1>3, <4>1, SmallPagesAreShort, Sizes
    <3>6. ASSUME ~d PROVE MapIs(M, t, "collect", start, 0)
      <4>1. KeepsStrongest(M, N, Formerly(start))
        <5>1. KeepsStrongest({}, {}, Formerly(start))
          BY NothingRead
        <5>2. {} \in SUBSET history.events /\ {} \cup N = N
          OBVIOUS
        <5> QED BY <1>2, <3>4, <5>1, <5>2
      <4>2. t = TxsOf(N)
        <5>1. PICK X \in SUBSET history.events : X = {}
          OBVIOUS
        <5>2. eventTxs = TxsOf(X)
          BY <1>2, <5>1, NothingRead
        <5>3. \A e \in X \ N, f \in N : e.block < f.block
          BY <5>1
        <5>4. eventTxs' = TxsOf(X \cup N)
          BY <1>2, <1>4, <3>3, <3>6, <5>2, <5>3, SearchedTxs
        <5>5. X \cup N = N
          BY <5>1
        <5> QED BY <1>4, <5>4, <5>5
      <4>3. \A e \in history.events : e.block \in Nat /\ e.block >= ProcessStartBlock
        BY <1>2, HistoryIs DEF Event
      <4>4. \A e \in history.events : e.block < start => e \in N
        <5>1. \A e \in history.events : e.block \in ProcessStartBlock .. start => e \in N
          BY <1>4, <3>3, <3>6 DEF Searched
        <5> QED BY <1>3, <4>3, <5>1, Sizes
      <4>5. Read(N, "collect", start, 0)
        BY <3>5, <4>4 DEF Read, Past, start
      <4>6. M \subseteq history.events
        BY <3>4
      <4> QED BY <4>1, <4>2, <4>5, <4>6 DEF MapIs
    <3>7. d \in BOOLEAN /\ guardianOf' \in [Address -> Account]
      BY <1>2, <1>4, <3>3 DEF Searched
    <3> QED BY <3>4, <3>5, <3>6, <3>7
  <2>2. CASE ~(start > ProcessStartBlock)
    <3>1. M = {} /\ t = NoTxs /\ d = FALSE /\ guardianOf' = guardianOf
      BY <1>2, <1>4, <2>2 DEF CollectPreElection, start
    <3>2. MapTyped(M)
      BY <1>2, <3>1
    <3>3. \A e \in history.events : e.block \in Nat /\ e.block >= ProcessStartBlock
      BY <1>2, HistoryIs DEF Event
    <3>4. Read({}, "collect", start, 0)
      BY <1>3, <2>2, <3>3, Sizes DEF Read, start
    <3>5. NoTxs = TxsOf({}) /\ KeepsStrongest({}, {}, Formerly(start))
      BY NothingRead
    <3>6. MapIs(M, t, "collect", start, 0)
      BY <3>1, <3>4, <3>5 DEF MapIs
    <3> QED BY <1>2, <3>1, <3>2, <3>6
  <2> QED BY <2>1, <2>2
<1>6. RunInv'
  <2>1. MapTyped(delegatorsMap)'
    BY <1>1, <1>4, <1>5, NextMapTyped
  <2>2. history' \in Histories /\ rewards' \in RewardsType /\ dropped' \in BOOLEAN
    BY <1>1, <1>2, <1>4, <1>5
  <2>3. /\ processEndBlock' \in EndBlocks /\ startElectionPeriod' \in Starts
        /\ \A e \in delegatorsMap' : e.block <= startElectionPeriod' + ElectionPeriod
    BY <1>1, <1>2, <1>3, <1>4, <1>5
  <2> HIDE DEF Found
  <2> QED BY <1>1, <1>5, <2>1, <2>2, <2>3 DEF RunInv, RewardsType, Starts, Elections
<1>7. MapInv'
  <2>1. PICK b, f, s : b = startElectionPeriod' /\ f = fileStartFrom' /\ s = stage'
    OBVIOUS
  <2>2. b = start /\ f = 0 /\ s = "collect"
    BY <1>1, <1>2, <2>1
  <2>3. ~dropped' => MapIs(M, t, s, b, f)
    BY <1>4, <1>5, <2>2
  <2> QED BY <1>1, <1>4, <2>1, <2>3, NextMapIs
<1>8. FilesInv'
  BY <1>1, FilesStay DEF StatusInv
<1>9. CalculateInv' /\ VotesTypedInv'
  BY <1>1 DEF StatusInv, CalculateInv, VotesTypedInv, VotesTyped
<1> QED BY <1>6, <1>7, <1>8, <1>9 DEF StatusInv


(* What a search of one period adds to what was read before.                *)
Covers(N, start, end) ==
  /\ \A e \in N : e.block \in start .. end
  /\ \A e \in history.events : e.block \in start .. end => e \in N

LEMMA ReadFurther ==
  ASSUME history \in Histories, NEW start \in Starts, NEW end, end = start + ElectionPeriod, NEW from,
         NEW X \in SUBSET history.events, Read(X, "collect", start, from),
         NEW N \in SUBSET history.events, Covers(N, start, end)
  PROVE  /\ X \cup N = Past(end)
         /\ \A e \in X \ N, f \in N : e.block < f.block
         /\ from # 0 => \A f \in N \ X, o \in X : f.block > o.block
<1> USE DEF Covers
<1>1. start \in Nat /\ end \in Nat /\ start <= end
  BY Calendar, Sizes
<1>2. \A e \in history.events : e.block \in Nat
  BY HistoryIs DEF Event
<1>3. \A e \in X : e.block <= end
  <2>1. CASE X = Past(start)
    BY <1>1, <1>2, <2>1 DEF Past
  <2>2. CASE X \subseteq Past(end)
    BY <2>2 DEF Past
  <2> QED BY <2>1, <2>2 DEF Read
<1>4. \A e \in history.events : e.block < start => e \in X
  <2>1. CASE X = Past(start)
    BY <1>1, <1>2, <2>1 DEF Past
  <2>2. CASE {e \in history.events : e.block < start} \subseteq X
    BY <2>2
  <2> QED BY <2>1, <2>2 DEF Read
<1>5. \A e \in history.events : e.block <= end => e.block < start \/ e.block \in start .. end
  BY <1>1, <1>2
<1>6. \A e \in N : e.block <= end /\ start <= e.block
  BY <1>1
<1>7. X \cup N = Past(end)
  BY <1>3, <1>4, <1>5, <1>6 DEF Past
<1>8. ASSUME NEW e \in X \ N, NEW f \in N PROVE e.block < f.block
  <2>1. e.block < start
    BY <1>3, <1>5
  <2> QED BY <1>1, <1>2, <1>6, <2>1
<1>9. ASSUME from # 0, NEW f \in N \ X, NEW o \in X PROVE f.block > o.block
  <2>1. X = Past(start)
    BY <1>9 DEF Read
  <2>2. o.block <= start /\ ~(f.block <= start)
    BY <2>1 DEF Past
  <2> QED BY <1>1, <1>2, <2>2
<1> QED BY <1>7, <1>8, <1>9

LEMMA CollectDelegationsKeeps ==
  ASSUME StatusInv, CollectDelegations PROVE StatusInv'
<1> DEFINE start == startElectionPeriod
           end == start + ElectionPeriod
           from == fileStartFrom
<1>1. /\ stage = "collect" /\ start < processEndBlock - ElectionPeriod
      /\ SearchDelegations(start, end)
      /\ startElectionPeriod' = NextIfEmpty(delegatorsMap')
      /\ history' = history /\ fileStartFrom' = fileStartFrom
      /\ processEndBlock' = processEndBlock
      /\ rewards' = rewards /\ votesFile' = votesFile
  BY DEF CollectDelegations, ElectionBlock
<1>2. /\ history \in Histories /\ guardianOf \in [Address -> Account] /\ rewards \in RewardsType
      /\ processEndBlock \in EndBlocks /\ start \in Starts
      /\ MapTyped(delegatorsMap) /\ \A e \in delegatorsMap : e.block <= end
      /\ ~dropped => MapIs(delegatorsMap, eventTxs, "collect", start, from)
  BY <1>1 DEF StatusInv, RunInv, MapInv
<1>3. start \in Nat /\ end \in Nat /\ start < end /\ end \in Elections
  BY <1>1, <1>2, Calendar, Sizes
<1>4. PICK M, t, d : M = delegatorsMap' /\ t = eventTxs' /\ d = dropped'
  OBVIOUS
<1>5. startElectionPeriod' = IF M = {} THEN end ELSE start
  BY <1>1, <1>4 DEF NextIfEmpty, ElectionBlock
<1>6. /\ M = {} => stage' = "collect" /\ delegationsFile' = delegationsFile
      /\ M # {} => /\ stage' = "calculate"
                   /\ delegationsFile' = Written(delegationsFile, end, DelegationFiles(M, t, d))
  BY <1>1, <1>4 DEF CollectDelegations, ElectionBlock
<1> HIDE DEF start, end, from
<1>7. PICK N \in SUBSET history.events : Searched(N, start, end)
  <2>1. start \in Int /\ end \in Int
    BY <1>3
  <2> QED BY <1>1, <1>2, <1>3, <2>1, SearchFinds
<1>8. /\ guardianOf' \in [Address -> Account] /\ d \in BOOLEAN
      /\ \A e \in N : e.block \in start .. end
      /\ ~d => ~dropped /\ \A e \in history.events : e.block \in start .. end => e \in N
  <2>1. end = start + ElectionPeriod
    BY DEF end
  <2> QED BY <1>2, <1>4, <1>7, <2>1 DEF Searched
<1>9. /\ MapTyped(M) /\ M \subseteq delegatorsMap \cup N
      /\ \A W : \A X \in SUBSET history.events :
           /\ KeepsStrongest(delegatorsMap, X, W)
           /\ \/ delegatorsMap \subseteq history.events
              \/ \A f \in N \ X, o \in X : f.block > o.block
           => KeepsStrongest(M, X \cup N, W)
  <2>1. start \in Int /\ end \in Int
    BY <1>3
  <2> QED BY <1>3, <1>4, <1>7, <2>1, SearchedMap DEF StatusInv
<1>10. \A e \in M : e.block <= end
  BY <1>2, <1>3, <1>8, <1>9
<1>11. ASSUME ~d
       PROVE  /\ KeepsStrongest(M, Past(end), Formerly(start))
              /\ from = 0 => M \subseteq history.events /\ t = TxsOf(Past(end))
  <2>1. PICK X \in SUBSET history.events :
          /\ Read(X, "collect", start, from) /\ KeepsStrongest(delegatorsMap, X, Formerly(start))
          /\ from = 0 => delegatorsMap \subseteq history.events /\ eventTxs = TxsOf(X)
    BY <1>2, <1>8, <1>11 DEF MapIs
  <2>2. end = start + ElectionPeriod
    BY DEF end
  <2>3. /\ X \cup N = Past(end)
        /\ \A e \in X \ N, f \in N : e.block < f.block
        /\ from # 0 => \A f \in N \ X, o \in X : f.block > o.block
    <3>1. PICK z \in Starts : z = start
      BY <1>2
    <3>2. PICK y, g : y = end /\ g = from
      OBVIOUS
    <3>3. /\ history \in Histories /\ z \in Starts
          /\ X \in SUBSET history.events /\ N \in SUBSET history.events
          /\ y = z + ElectionPeriod /\ Read(X, "collect", z, g)
          /\ Covers(N, z, y)
      BY <1>2, <1>8, <1>11, <2>1, <2>2, <3>1, <3>2 DEF Covers
    <3>4. /\ X \cup N = Past(y)
          /\ \A e \in X \ N, f \in N : e.block < f.block
          /\ g # 0 => \A f \in N \ X, o \in X : f.block > o.block
      BY ONLY <3>3, ReadFurther
    <3> QED BY <3>2, <3>4
  <2>4. KeepsStrongest(M, X \cup N, Formerly(start))
    BY <1>9, <2>1, <2>3
  <2>5. ASSUME from = 0 PROVE M \subseteq history.events /\ t = TxsOf(X \cup N)
    <3>1. t = TxsOf(X \cup N)
      BY <1>2, <1>4, <1>7, <1>11, <2>1, <2>3, <2>5, SearchedTxs
    <3> QED BY <1>9, <2>1, <2>5, <3>1
  <2> QED BY <2>3, <2>4, <2>5
<1>12. RunInv'
  <2>1. MapTyped(delegatorsMap)'
    BY <1>1, <1>4, <1>9, NextMapTyped
  <2>2. history' \in Histories /\ rewards' \in RewardsType /\ dropped' \in BOOLEAN
    BY <1>1, <1>2, <1>4, <1>8
  <2>3. /\ processEndBlock' \in EndBlocks /\ startElectionPeriod' \in Starts
        /\ stage' \in {"collect", "calculate"}
    BY <1>1, <1>2, <1>3, <1>5, <1>6 DEF Starts
  <2>4. \A e \in delegatorsMap' : e.block <= startElectionPeriod' + ElectionPeriod
    BY <1>4, <1>5, <1>10 DEF end
  <2> QED BY <1>8, <2>1, <2>2, <2>3, <2>4 DEF RunInv, RewardsType, Starts, Elections
<1>13. MapInv'
  <2>1. PICK b, f, s : b = startElectionPeriod' /\ f = fileStartFrom' /\ s = stage'
    OBVIOUS
  <2>2. f = from
    BY <1>1, <2>1 DEF from
  <2>3. Past(end) \in SUBSET history.events
    BY DEF Past
  <2>4. ASSUME ~d PROVE MapIs(M, t, s, b, f)
    <3>1. CASE M = {}
      <4>1. s = "collect" /\ b = end
        BY <1>5, <1>6, <2>1, <3>1
      <4>2. Formerly(start) \subseteq Formerly(end)
        <5>1. end = start + ElectionPeriod
          BY DEF end
        <5> QED BY <1>2, <1>3, <5>1, OneElectionMore
      <4>3. KeepsStrongest(M, Past(end), Formerly(end))
        BY <1>11, <2>4, <4>2, MayForgetMore
      <4>4. Read(Past(end), "collect", end, from)
        BY DEF Read
      <4> QED BY <1>11, <2>2, <2>3, <2>4, <4>1, <4>3, <4>4 DEF MapIs
    <3>2. CASE M # {}
      <4>1. s = "calculate" /\ b = start
        BY <1>5, <1>6, <2>1, <3>2
      <4>2. Read(Past(end), "calculate", start, from)
        BY DEF Read, end
      <4> QED BY <1>11, <2>2, <2>3, <2>4, <4>1, <4>2 DEF MapIs
    <3> QED BY <3>1, <3>2
  <2> QED BY <1>1, <1>4, <2>1, <2>4, NextMapIs
<1>14. FilesInv'
  <2>1. CASE M = {}
    BY <1>1, <1>6, <2>1, FilesStay DEF StatusInv
  <2>2. CASE M # {}
    <3>1. PICK C : C = DelegationFiles(M, t, d)
      OBVIOUS
    <3>2. C.delegations = M /\ C.dropped = d
      BY <3>1 DEF DelegationFiles
    <3>3. FileIs(C, end)
      <4>1. Formerly(start) \subseteq Formerly(end)
        <5>1. end = start + ElectionPeriod
          BY DEF end
        <5> QED BY <1>2, <1>3, <5>1, OneElectionMore
      <4>2. ~d => KeepsStrongest(M, Past(end), Formerly(end))
        BY <1>11, <4>1, MayForgetMore
      <4> QED BY <1>3, <1>8, <1>9, <1>10, <3>2, <4>2 DEF FileIs
    <3>4. delegationsFile' = [b \in DOMAIN delegationsFile \cup {end} |->
                                IF b = end THEN C ELSE delegationsFile[b]]
      BY <1>6, <2>2, <3>1 DEF Written
    <3>5. ASSUME NEW b \in DOMAIN delegationsFile' PROVE FileIs(delegationsFile[b], b)'
      <4>1. PICK F : F = delegationsFile'[b]
        OBVIOUS
      <4>2. FileIs(F, b)
        BY <3>3, <3>4, <4>1 DEF StatusInv, FilesInv
      <4>3. FileIs(F, b)'
        BY <1>1, <4>2, PastStays
      <4> QED BY ONLY <4>1, <4>3 DEF FileIs, MapTyped, FromFile, KeepsStrongest, Strongest, Same, Stamped,
           Formerly, GuardiansAt, ElectionsUpTo, Past
    <3> QED BY <3>5 DEF FilesInv
  <2> QED BY <2>1, <2>2
<1>15. CalculateInv'
  <2>1. CASE M = {}
    BY <1>6, <2>1 DEF CalculateInv
  <2>2. CASE M # {}
    <3>1. startElectionPeriod' + ElectionPeriod = end
      BY <1>5, <2>2 DEF end
    <3>2. end \in DOMAIN delegationsFile' /\ delegationsFile'[end] = DelegationFiles(M, t, d)
      BY <1>6, <2>2 DEF Written
    <3> QED BY <1>3, <1>4, <3>1, <3>2 DEF CalculateInv, DelegationFiles, Elections
  <2> QED BY <2>1, <2>2
<1>16. VotesTypedInv'
  BY <1>1 DEF StatusInv, VotesTypedInv, VotesTyped
<1> QED BY <1>12, <1>13, <1>14, <1>15, <1>16 DEF StatusInv


LEMMA LaunchFromFileKeeps ==
  ASSUME StatusInv, LaunchFromFile PROVE StatusInv'
<1>1. /\ stage = "off" /\ stage' = "collect" /\ history' = history /\ guardianOf' = guardianOf
      /\ processEndBlock' \in EndBlocks
      /\ delegationsFile' = delegationsFile /\ votesFile' = votesFile
  BY DEF LaunchFromFile
<1>2. PICK from \in DOMAIN delegationsFile \cap DOMAIN votesFile :
        /\ fileStartFrom' = from /\ startElectionPeriod' = from
        /\ delegatorsMap' = FromFile(delegationsFile[from].delegations)
        /\ rewards' = RewardsFromFile(votesFile[from])
        /\ dropped' = (delegationsFile[from].dropped \/ votesFile[from].dropped)
  BY DEF LaunchFromFile
<1>3. PICK F, V : F = delegationsFile[from] /\ V = votesFile[from]
  OBVIOUS
<1>4. FileIs(F, from) /\ VotesTyped(V, from)
  BY <1>2, <1>3 DEF StatusInv, FilesInv, VotesTypedInv
<1>5. from \in Elections /\ from \in Nat /\ from # 0 /\ from \in Int
  <2>1. from \in Elections
    BY <1>4 DEF FileIs
  <2> QED BY <2>1, Calendar, Sizes
<1>6. PICK D : D = FromFile(F.delegations)
  OBVIOUS
<1>7. /\ history \in Histories /\ guardianOf \in [Address -> Account]
      /\ MapTyped(F.delegations) /\ \A e \in F.delegations : e.block <= from
      /\ F.dropped \in BOOLEAN /\ V.dropped \in BOOLEAN
      /\ ~F.dropped => KeepsStrongest(F.delegations, Past(from), Formerly(from))
  BY <1>4 DEF StatusInv, RunInv, FileIs, VotesTyped
<1>8. /\ MapTyped(D) /\ \A e \in D : e.block <= from
      /\ ~F.dropped => KeepsStrongest(D, Past(from), Formerly(from))
  <2>1. Past(from) \subseteq history.events
    BY DEF Past
  <2>2. /\ MapTyped(FromFile(F.delegations))
        /\ \A b \in Int : (\A e \in F.delegations : e.block <= b)
                            => \A e \in FromFile(F.delegations) : e.block <= b
        /\ \A X, W : X \subseteq history.events /\ KeepsStrongest(F.delegations, X, W)
                       => KeepsStrongest(FromFile(F.delegations), X, W)
    BY <1>7, FromFileIs
  <2> QED BY <1>5, <1>6, <1>7, <2>1, <2>2
<1>9. RewardsFromFile(V) \in RewardsType
  <2>1. PICK named : named = {e.to : e \in V.unled}
    OBVIOUS
  <2>2. RewardsFromFile(V) =
          [participation |-> [a \in Address |->
             IF a \in DOMAIN V.participation \ named THEN V.participation[a] ELSE 0],
           excellence    |-> [a \in Address |->
             IF a \in DOMAIN V.excellence \ named THEN V.excellence[a] ELSE 0]]
    BY <2>1 DEF RewardsFromFile
  <2>3. /\ \A a \in Address \cap DOMAIN V.participation : V.participation[a] \in Nat
        /\ \A a \in Address \cap DOMAIN V.excellence : V.excellence[a] \in Nat
    BY <1>4 DEF VotesTyped
  <2>4. [a \in Address |-> IF a \in DOMAIN V.participation \ named
                             THEN V.participation[a] ELSE 0] \in [Address -> Nat]
    BY <2>3
  <2>5. [a \in Address |-> IF a \in DOMAIN V.excellence \ named
                             THEN V.excellence[a] ELSE 0] \in [Address -> Nat]
    BY <2>3
  <2> QED BY <2>2, <2>4, <2>5 DEF RewardsType
<1>10. delegatorsMap' = D /\ rewards' \in RewardsType /\ dropped' \in BOOLEAN /\ (~dropped' => ~F.dropped)
  BY <1>2, <1>3, <1>6, <1>7, <1>9
<1>11. RunInv'
  <2>1. MapTyped(delegatorsMap)'
    BY <1>1, <1>8, <1>10, NextMapTyped
  <2>2. history' \in Histories /\ guardianOf' \in [Address -> Account]
    BY <1>1, <1>7
  <2>3. startElectionPeriod' \in Starts
    BY <1>2, <1>5 DEF Starts
  <2>4. \A e \in delegatorsMap' : e.block <= startElectionPeriod' + ElectionPeriod
    <3> SUFFICES ASSUME NEW e \in D PROVE e.block <= from + ElectionPeriod
      BY <1>2, <1>10
    <3>1. e.block \in Nat
      BY <1>7, <1>8, EntryIs
    <3> QED BY <1>5, <1>8, <3>1, Sizes
  <2> QED BY <1>1, <1>10, <2>1, <2>2, <2>3, <2>4 DEF RunInv, RewardsType, Starts, Elections
<1>12. MapInv'
  <2>1. PICK b, f, s, t : b = startElectionPeriod' /\ f = fileStartFrom' /\ s = stage' /\ t = eventTxs'
    OBVIOUS
  <2>2. b = from /\ f = from /\ s = "collect"
    BY <1>1, <1>2, <2>1
  <2>3. ASSUME ~dropped' PROVE MapIs(D, t, s, b, f)
    <3>1. KeepsStrongest(D, Past(from), Formerly(from))
      BY <1>8, <1>10, <2>3
    <3>2. Read(Past(from), "collect", from, from)
      BY DEF Read
    <3>3. Past(from) \in SUBSET history.events
      BY DEF Past
    <3> QED BY <1>5, <2>2, <3>1, <3>2, <3>3 DEF MapIs
  <2> QED BY <1>1, <1>10, <2>1, <2>3, NextMapIs
<1>13. FilesInv'
  BY <1>1, FilesStay DEF StatusInv
<1>14. CalculateInv' /\ VotesTypedInv'
  BY <1>1 DEF StatusInv, CalculateInv, VotesTypedInv, VotesTyped
<1> QED BY <1>11, <1>12, <1>13, <1>14 DEF StatusInv


(* What an election is calculated from.                                     *)
Calculated(b, G, K, F, sums) ==
  /\ b = startElectionPeriod + ElectionPeriod /\ G = GuardiansAt(b)
  /\ K = CalculateDelegationMap(G) /\ F = Followed(G, K) /\ sums = CopyAndSums(b, G, F)
  /\ startElectionPeriod' = b /\ stage' = "collect" /\ history' = history
  /\ delegatorsMap' = K /\ guardianOf' = GuardianFields(F)
  /\ \E top \in SUBSET sums.casting : rewards' = AddRewards(rewards, sums, top)
  /\ votesFile' = Written(votesFile, b, VotesRows(sums, G, K, GuardianFields(F), rewards'))
  /\ dropped' = dropped /\ fileStartFrom' = fileStartFrom /\ processEndBlock' = processEndBlock
  /\ eventTxs' = eventTxs /\ delegationsFile' = delegationsFile

CalculatedTyped(b, G, K, F, sums) ==
  /\ b \in Elections /\ MapTyped(K) /\ K \subseteq delegatorsMap /\ NoGuardians(K, G)
  /\ F \subseteq Address \X Account /\ SumsTyped(sums, G)
  /\ GuardianFields(F) \in [Address -> Account] /\ rewards' \in RewardsType
  /\ rewards'.participation = AddParticipationRewards(rewards.participation, sums)

LEMMA CalculatedIs ==
  ASSUME StatusInv, CalculateElection
  PROVE  \E b, G, K, F, sums : Calculated(b, G, K, F, sums)
<1>1. PICK b : b = startElectionPeriod + ElectionPeriod
  OBVIOUS
<1>2. b = ElectionBlock
  BY <1>1 DEF ElectionBlock
<1>3. history \in Histories /\ b \in Elections
  BY <1>1 DEF StatusInv, RunInv, CalculateInv, CalculateElection
<1>4. PICK G : G = GuardiansRead(b)
  OBVIOUS
<1>5. G = GuardiansAt(b)
  BY <1>3, <1>4, AllGuardiansRead
<1>6. PICK K : K = CalculateDelegationMap(G)
  OBVIOUS
<1>7. PICK F : F = Followed(G, K)
  OBVIOUS
<1>8. PICK sums : sums = CopyAndSums(b, G, F)
  OBVIOUS
<1>9. /\ delegatorsMap' = K /\ guardianOf' = GuardianFields(F)
      /\ \E top \in SUBSET sums.casting :
           MayBeFirst(top, sums) /\ rewards' = AddRewards(rewards, sums, top)
      /\ votesFile' = Written(votesFile, b, VotesRows(sums, G, K, guardianOf', rewards'))
  BY <1>2, <1>4, <1>6, <1>7, <1>8 DEF CalculateElection
<1>10. /\ startElectionPeriod' = b /\ stage' = "collect" /\ history' = history
       /\ dropped' = dropped /\ fileStartFrom' = fileStartFrom /\ processEndBlock' = processEndBlock
       /\ eventTxs' = eventTxs /\ delegationsFile' = delegationsFile
  BY <1>2 DEF CalculateElection
<1>11. votesFile' = Written(votesFile, b, VotesRows(sums, G, K, GuardianFields(F), rewards'))
  BY <1>9
<1> QED BY <1>1, <1>5, <1>6, <1>7, <1>8, <1>9, <1>10, <1>11 DEF Calculated

LEMMA CalculatedIsTyped ==
  ASSUME StatusInv, stage = "calculate",
         NEW b, NEW G, NEW K, NEW F, NEW sums, Calculated(b, G, K, F, sums)
  PROVE  CalculatedTyped(b, G, K, F, sums)
<1>1. /\ history \in Histories /\ MapTyped(delegatorsMap)
      /\ guardianOf \in [Address -> Account] /\ rewards \in RewardsType
  BY DEF StatusInv, RunInv
<1>2. b \in Elections
  BY DEF StatusInv, CalculateInv, Calculated
<1>3. G \subseteq Address
  BY <1>1, <1>2, AgentsAre DEF Calculated
<1>4. K = {e \in delegatorsMap : e.delegator \notin G}
  BY DEF Calculated, CalculateDelegationMap
<1>5. MapTyped(K) /\ K \subseteq delegatorsMap
  BY <1>1, <1>4 DEF MapTyped
<1>6. NoGuardians(K, G)
  <2>1. \A e \in K : e.delegator \in Address /\ e.to \in Account
    BY <1>1, <1>5, EntryIs
  <2>2. \A e, f \in K : e.delegator = f.delegator => e = f
    BY <1>5 DEF MapTyped
  <2> QED BY <1>3, <1>4, <2>1, <2>2 DEF NoGuardians
<1>7. F \subseteq Address \X Account
  BY <1>6, FollowedTyped DEF Calculated
<1>8. SumsTyped(sums, G)
  <2>1. sums = CopyAndSums(b, G, F)
    BY DEF Calculated
  <2> QED BY <1>1, <1>2, <1>3, <1>7, <2>1, SumsAreTyped
<1>9. GuardianFields(F) \in [Address -> Account]
  BY <1>1, <1>7, FieldsTyped
<1>10. PICK top \in SUBSET sums.casting : rewards' = AddRewards(rewards, sums, top)
  BY DEF Calculated
<1>11. /\ rewards' \in RewardsType
       /\ rewards'.participation = AddParticipationRewards(rewards.participation, sums)
  <2>1. PICK old \in [participation : [Address -> Nat], excellence : [Address -> Nat]] : old = rewards
    BY <1>1 DEF RewardsType
  <2>2. /\ AddRewards(old, sums, top) \in
              [participation : [Address -> Nat], excellence : [Address -> Nat]]
        /\ AddRewards(old, sums, top).participation =
              AddParticipationRewards(old.participation, sums)
    BY <1>8, RewardsTyped
  <2> QED BY <1>10, <2>1, <2>2 DEF RewardsType
<1> QED BY <1>2, <1>5, <1>6, <1>7, <1>8, <1>9, <1>11 DEF CalculatedTyped

LEMMA CalculateElectionKeeps ==
  ASSUME StatusInv, CalculateElection PROVE StatusInv'
<1>1. stage = "calculate"
  BY DEF CalculateElection
<1>2. PICK b, G, K, F, sums : Calculated(b, G, K, F, sums)
  BY CalculatedIs
<1>3. CalculatedTyped(b, G, K, F, sums)
  BY <1>1, <1>2, CalculatedIsTyped
<1>4. /\ startElectionPeriod' = b /\ stage' = "collect" /\ history' = history
      /\ delegatorsMap' = K /\ guardianOf' = GuardianFields(F)
      /\ votesFile' = Written(votesFile, b, VotesRows(sums, G, K, GuardianFields(F), rewards'))
      /\ dropped' = dropped /\ fileStartFrom' = fileStartFrom /\ processEndBlock' = processEndBlock
      /\ eventTxs' = eventTxs /\ delegationsFile' = delegationsFile
      /\ b = startElectionPeriod + ElectionPeriod
      /\ K = {e \in delegatorsMap : e.delegator \notin G} /\ G = GuardiansAt(b)
  BY <1>2 DEF Calculated, CalculateDelegationMap
<1>5. /\ history \in Histories /\ MapTyped(delegatorsMap) /\ dropped \in BOOLEAN
      /\ processEndBlock \in EndBlocks /\ startElectionPeriod \in Starts
      /\ \A e \in delegatorsMap : e.block <= b
      /\ ~dropped => MapIs(delegatorsMap, eventTxs, "calculate", startElectionPeriod, fileStartFrom)
  BY <1>1, <1>4 DEF StatusInv, RunInv, MapInv
<1>6. b \in Elections /\ b \in Nat
  BY <1>3, Calendar DEF CalculatedTyped
<1>7. RunInv'
  <2>1. MapTyped(delegatorsMap)'
    BY <1>3, <1>4, NextMapTyped DEF CalculatedTyped
  <2>2. guardianOf' \in [Address -> Account] /\ rewards' \in RewardsType
    BY <1>3, <1>4 DEF CalculatedTyped
  <2>3. \A e \in delegatorsMap' : e.block <= startElectionPeriod' + ElectionPeriod
    <3> SUFFICES ASSUME NEW e \in K PROVE e.block <= b + ElectionPeriod
      BY <1>4
    <3>1. e \in delegatorsMap /\ e.block \in Nat
      BY <1>4, <1>5, EntryIs
    <3> QED BY <1>5, <1>6, <3>1, Sizes
  <2>4. startElectionPeriod' \in Starts
    BY <1>4, <1>6 DEF Starts
  <2> QED BY <1>4, <1>5, <2>1, <2>2, <2>3, <2>4 DEF RunInv, RewardsType, Starts, Elections
<1>8. ASSUME ~dropped
      PROVE  /\ KeepsStrongest(K, Past(b), Formerly(b))
             /\ fileStartFrom = 0 => K \subseteq history.events /\ eventTxs = TxsOf(Past(b))
  <2>1. /\ KeepsStrongest(delegatorsMap, Past(b), Formerly(startElectionPeriod))
        /\ fileStartFrom = 0 => delegatorsMap \subseteq history.events /\ eventTxs = TxsOf(Past(b))
    BY <1>4, <1>5, <1>8 DEF MapIs, Read
  <2>2. Formerly(b) = Formerly(startElectionPeriod) \cup G
    BY <1>4, <1>5, <1>6, OneElectionMore
  <2>3. PICK W : W = Formerly(startElectionPeriod)
    OBVIOUS
  <2>4. \A o \in Strongest(Past(b)) : o \in history.events
    BY DEF Strongest, Past
  <2>5. \A o \in Strongest(Past(b)) : \A e : Same(e, o) => e.delegator = o.delegator
    BY <1>5, <2>4, StampedIs DEF Same
  <2>6. KeepsStrongest(K, Past(b), W \cup G)
    BY <1>4, <2>1, <2>3, <2>5 DEF KeepsStrongest
  <2> QED BY <1>4, <2>1, <2>2, <2>3, <2>6
<1>9. MapInv'
  <2>1. PICK f, s, t, z : f = fileStartFrom' /\ s = stage' /\ t = eventTxs' /\ z = startElectionPeriod'
    OBVIOUS
  <2>2. ASSUME ~dropped' PROVE MapIs(K, t, s, z, f)
    <3>1. Read(Past(b), "collect", b, f) /\ Past(b) \in SUBSET history.events
      BY DEF Read, Past
    <3> QED BY <1>4, <1>8, <2>1, <2>2, <3>1 DEF MapIs
  <2> QED BY <1>4, <2>1, <2>2, NextMapIs
<1>10. FilesInv'
  BY <1>4, FilesStay DEF StatusInv
<1>11. CalculateInv'
  BY <1>4 DEF CalculateInv
<1>12. VotesTypedInv'
  <2>1. PICK C : C = VotesRows(sums, G, K, GuardianFields(F), rewards')
    OBVIOUS
  <2>2. VotesTyped(C, b)
    <3>1. /\ C.participation = [a \in sums.listed |-> rewards'.participation[a]]
          /\ C.excellence = [g \in G |-> rewards'.excellence[g]]
          /\ C.dropped = dropped
      BY <2>1 DEF VotesRows
    <3>2. sums.listed \subseteq Address /\ G \subseteq Address
      BY <1>3 DEF CalculatedTyped, SumsTyped
    <3>3. /\ \A a \in Address : rewards'.participation[a] \in Nat
          /\ \A a \in Address : rewards'.excellence[a] \in Nat
      BY <1>3 DEF CalculatedTyped, RewardsType
    <3>4. \A a \in Address \cap DOMAIN C.participation : C.participation[a] \in Nat
      BY <3>1, <3>2, <3>3
    <3>5. \A a \in Address \cap DOMAIN C.excellence : C.excellence[a] \in Nat
      BY <3>1, <3>2, <3>3
    <3> QED BY <1>5, <1>6, <3>1, <3>4, <3>5 DEF VotesTyped
  <2>3. votesFile' = [z \in DOMAIN votesFile \cup {b} |-> IF z = b THEN C ELSE votesFile[z]]
    BY <1>4, <2>1 DEF Written
  <2>4. ASSUME NEW z \in DOMAIN votesFile' PROVE VotesTyped(votesFile[z], z)'
    <3>1. PICK V : V = votesFile'[z]
      OBVIOUS
    <3>2. VotesTyped(V, z)
      BY <2>2, <2>3, <3>1 DEF StatusInv, VotesTypedInv
    <3> QED BY ONLY <3>1, <3>2 DEF VotesTyped, Elections
  <2> QED BY <2>4 DEF VotesTypedInv
<1> QED BY <1>7, <1>9, <1>10, <1>11, <1>12 DEF StatusInv

LEMMA InitIsRight ==
  ASSUME Init PROVE StatusInv
<1>1. RunInv
  BY DEF Init, RunInv, MapTyped, FromFile, RewardsType, NoRewards, Zeros, Nobody, Account
<1>2. MapInv /\ FilesInv /\ CalculateInv /\ VotesTypedInv
  BY DEF Init, MapInv, FilesInv, CalculateInv, VotesTypedInv
<1> QED BY <1>1, <1>2 DEF StatusInv

LEMMA StutterKeeps ==
  ASSUME StatusInv, UNCHANGED vars PROVE StatusInv'
<1>1. /\ history' = history /\ stage' = stage /\ fileStartFrom' = fileStartFrom
      /\ startElectionPeriod' = startElectionPeriod /\ processEndBlock' = processEndBlock
      /\ delegatorsMap' = delegatorsMap /\ guardianOf' = guardianOf /\ rewards' = rewards
      /\ eventTxs' = eventTxs /\ dropped' = dropped
      /\ delegationsFile' = delegationsFile /\ votesFile' = votesFile
  BY DEF vars, memory
<1>2. RunInv'
  BY <1>1 DEF StatusInv, RunInv, MapTyped, FromFile, RewardsType, Starts, Elections
<1>3. MapInv'
  <2>1. PICK D, t, s, b, f : /\ D = delegatorsMap' /\ t = eventTxs' /\ s = stage'
                             /\ b = startElectionPeriod' /\ f = fileStartFrom'
    OBVIOUS
  <2>2. ~dropped' /\ s \in {"collect", "calculate"} => MapIs(D, t, s, b, f)
    BY <1>1, <2>1 DEF StatusInv, MapInv
  <2>3. CASE s \in {"collect", "calculate"}
    BY <1>1, <2>1, <2>2, <2>3, NextMapIs
  <2>4. CASE s \notin {"collect", "calculate"}
    BY <2>1, <2>4 DEF MapInv
  <2> QED BY <2>3, <2>4
<1>4. FilesInv'
  BY <1>1, FilesStay DEF StatusInv
<1>5. CalculateInv' /\ VotesTypedInv'
  BY <1>1 DEF StatusInv, CalculateInv, VotesTypedInv, VotesTyped, DelegationFiles, Elections
<1> QED BY <1>2, <1>3, <1>4, <1>5 DEF StatusInv

(* Every step of the page keeps what its runs and their files rest on.      *)
LEMMA StepKeeps ==
  ASSUME StatusInv, [Next]_vars PROVE StatusInv'
<1>1. CASE LaunchFromStart
  BY <1>1, LaunchFromStartKeeps
<1>2. CASE LaunchFromFile
  BY <1>2, LaunchFromFileKeeps
<1>3. CASE CollectPreElection
  BY <1>3, CollectPreElectionKeeps
<1>4. CASE CollectDelegations
  BY <1>4, CollectDelegationsKeeps
<1>5. CASE CalculateElection
  BY <1>5, CalculateElectionKeeps
<1>6. CASE Finish \/ Fail
  BY <1>6, EndKeeps DEF Finish, Fail
<1>7. CASE UNCHANGED vars
  BY <1>7, StutterKeeps
<1> QED BY <1>1, <1>2, <1>3, <1>4, <1>5, <1>6, <1>7 DEF Next, Run


(* What every state of the page's runs and files has.                       *)
THEOREM RunsAndFilesAreRight == Spec => []StatusInv
<1>1. Init => StatusInv
  BY InitIsRight
<1>2. StatusInv /\ [Next]_vars => StatusInv'
  BY StepKeeps
<1> QED BY <1>1, <1>2, PTL DEF Spec

(* With no failed search, from the start, the two files agree but for whose *)
(* delegation was forgotten.                                                *)
LEMMA TransactionsAgree == StatusInv => TransactionsAgreeWithDelegations
<1> SUFFICES ASSUME StatusInv, stage = "calculate", fileStartFrom = 0, ~dropped,
                    NEW b, b = ElectionBlock,
                    NEW e \in delegationsFile[b].delegations, e.delegator \notin Formerly(b)
             PROVE  e \in delegationsFile[b].latestCombined
  BY DEF TransactionsAgreeWithDelegations, Formerly, GuardiansAt
<1>1. history \in Histories /\ startElectionPeriod \in Starts /\ b = startElectionPeriod + ElectionPeriod
  BY DEF StatusInv, RunInv, ElectionBlock
<1>2. b \in Elections /\ delegationsFile[b] = DelegationFiles(delegatorsMap, eventTxs, dropped)
  BY <1>1 DEF StatusInv, CalculateInv
<1>3. PICK X : X = Past(b)
  OBVIOUS
<1>4. /\ KeepsStrongest(delegatorsMap, X, Formerly(startElectionPeriod))
      /\ delegatorsMap \subseteq history.events /\ eventTxs = TxsOf(X)
      /\ X \in SUBSET history.events
  BY <1>1, <1>3 DEF StatusInv, MapInv, MapIs, Read
<1>5. e.delegator \notin Formerly(startElectionPeriod) /\ e \in delegatorsMap
  BY <1>1, <1>2, OneElectionMore DEF DelegationFiles
<1>6. PICK o \in Strongest(X) : Same(e, o)
  BY <1>4, <1>5 DEF KeepsStrongest
<1>7. e = o
  BY <1>1, <1>4, <1>5, <1>6, StampedIs DEF Same, Strongest
<1>8. delegationsFile[b].latestCombined = Strongest(X)
  <2>1. delegationsFile[b].latestCombined =
          Overwrite(LatestOf(By(X, "Transfer")), LatestOf(By(X, "Delegate")))
    BY <1>2, <1>4 DEF DelegationFiles, TxsOf
  <2> QED BY <1>1, <1>4, <2>1, MergedAreStrongest
<1> QED BY <1>6, <1>7, <1>8

(* The files of a run agree with each other and with the election they are  *)
(* named for.                                                               *)
THEOREM StatusFilesAreConsistent == Spec => []FilesAreConsistent
<1>1. StatusInv => StatusTypeOK
  BY DEF StatusInv, RunInv, StatusTypeOK, MapTyped, RewardsType
<1>2. StatusInv => NoLaterDelegationCounts
  BY DEF StatusInv, FilesInv, FileIs, NoLaterDelegationCounts
<1>3. StatusInv => FilesAreConsistent
  BY <1>1, <1>2, TransactionsAgree DEF FilesAreConsistent
<1> QED BY <1>3, RunsAndFilesAreRight, PTL


-----------------------------------------------------------------------------
(* V.  The files are the contract's                                         *)

(* What the contract has paid to x by an election, and where the page can   *)
(* be expected to have found the same.                                      *)
Pays(b) == AddParticipation(Zeros, ContractTally(b))

PaidUpTo(x, b) == SumFunction([c \in ElectionsUpTo(b) |-> Pays(c)[x]])

FairUpTo(b) == \A c \in ElectionsUpTo(b) : SameRuleAt(c) /\ ContractTally(c).total > 0

RepresentedUpTo(x, b) == \A c \in ElectionsUpTo(b) : Represented(x, c)

RewardsRight(r, b) ==
  FairUpTo(b) => \A x \in Address : RepresentedUpTo(x, b) => r.participation[x] = PaidUpTo(x, b)

RewardsInv == stage # "off" /\ ~dropped => RewardsRight(rewards, startElectionPeriod)

(* Who is represented has a row, and one with a reward.                     *)
TallyRight(F, b) ==
  /\ WeighsAsTheContract(F, b)
  /\ \A x \in Address : Represented(x, b) =>
       x \in DOMAIN F.participation /\ \A e \in F.unled : e.to # x

VotesRight(F, b) ==
  ~F.dropped =>
    /\ SameDelegationsAt(b) => TallyRight(F, b)
    /\ DOMAIN F.participation \subseteq Address
    /\ FairUpTo(b) => \A x \in DOMAIN F.participation :
         RepresentedUpTo(x, b) => F.participation[x] = PaidUpTo(x, b)

VotesInv == \A b \in DOMAIN votesFile : VotesRight(votesFile[b], b)

ContractInv == RewardsInv /\ VotesInv

LEMMA ContractPays ==
  ASSUME history \in Histories, NEW b \in Elections, ContractTally(b).total > 0, NEW x \in Address
  PROVE  Pays(b)[x] \in Nat
<1>1. PICK t : t = ContractTally(b)
  OBVIOUS
<1>2. /\ t.stake \in [Account -> Nat] /\ t.total \in Nat
      /\ t.participants \in Seq(Address) /\ IsInjective(t.participants)
  BY <1>1, ContractCounts DEF Counted, Counts
<1>3. PICK total \in Nat \ {0} : total = t.total
  BY <1>1, <1>2
<1>4. PICK max \in Nat : max = ParticipationPool(total)
  BY <1>3, TallyAssumption, MaxRewardTyped DEF ParticipationPool
<1>5. PICK q \in Nat : q = ParticipationShare(x, t)
  <2>1. PICK s \in Nat : s = t.stake[x]
    BY <1>2 DEF Account
  <2>2. PICK z \in Nat : z = s * max
    OBVIOUS
  <2>3. z \div total \in Nat
    BY RoundedDown
  <2> QED BY <1>3, <1>4, <2>1, <2>2, <2>3 DEF ParticipationShare
<1>6. Pays(b)[x] = IF x \in ToSet(t.participants)
                     THEN 0 + Occurrences(x, t.participants) * q ELSE 0
  BY <1>1, <1>5 DEF Pays, AddParticipation, Zeros
<1>7. CASE x \in ToSet(t.participants)
  <2>1. Occurrences(x, t.participants) = 1
    BY <1>2, <1>7, OccursOnce
  <2> QED BY <1>6, <1>7, <2>1
<1>8. CASE x \notin ToSet(t.participants)
  BY <1>6, <1>8
<1> QED BY <1>7, <1>8

(* With each election the contract pays more.                               *)
LEMMA PaidInOneMore ==
  ASSUME history \in Histories, NEW s \in Starts, NEW b \in Elections, b = s + ElectionPeriod,
         FairUpTo(b), NEW x \in Address
  PROVE  PaidUpTo(x, s) \in Nat /\ PaidUpTo(x, b) = PaidUpTo(x, s) + Pays(b)[x]
<1>1. PICK h : h = [c \in Elections |-> Pays(c)[x]]
  OBVIOUS
<1>2. PICK E, S : E = ElectionsUpTo(b) /\ S = ElectionsUpTo(s)
  OBVIOUS
<1>3. /\ E = S \cup {b} /\ b \notin S /\ E \subseteq Elections /\ S \subseteq Elections
      /\ IsFiniteSet(E) /\ IsFiniteSet(S)
  BY <1>2, OneElectionMore, NoElectionBefore
<1>4. \A c \in E : h[c] \in Nat
  BY <1>1, <1>2, <1>3, ContractPays DEF FairUpTo
<1>5. \A T \in SUBSET Elections :
        IsFiniteSet(T) => SumFunction([c \in T |-> Pays(c)[x]]) = SumFunctionOnSet(h, T)
  <2> SUFFICES ASSUME NEW T \in SUBSET Elections, IsFiniteSet(T)
               PROVE SumFunction([c \in T |-> Pays(c)[x]]) = SumFunctionOnSet(h, T)
    OBVIOUS
  <2>1. PICK f : f = [c \in T |-> Pays(c)[x]]
    OBVIOUS
  <2>2. DOMAIN f = T /\ \A c \in T : f[c] = h[c]
    BY <1>1, <2>1
  <2>3. SumFunction(f) = SumFunctionOnSet(f, T)
    BY <2>2, SumOfFunction
  <2>4. SumFunctionOnSet(f, T) = SumFunctionOnSet(h, T)
    BY <2>2, SumSame
  <2> QED BY <2>1, <2>3, <2>4
<1>6. PaidUpTo(x, b) = SumFunctionOnSet(h, E) /\ PaidUpTo(x, s) = SumFunctionOnSet(h, S)
  BY <1>2, <1>3, <1>5 DEF PaidUpTo
<1>7. SumFunctionOnSet(h, E) = h[b] + SumFunctionOnSet(h, S)
  <2>1. b \in E /\ E \ {b} = S /\ \A c \in E : h[c] \in Int
    BY <1>3, <1>4
  <2> QED BY ONLY <1>3, <2>1, SumRemove
<1>8. SumFunctionOnSet(h, S) \in Nat
  <2>1. \A c \in S : h[c] \in Nat
    BY <1>3, <1>4
  <2> QED BY ONLY <1>3, <2>1, SumType
<1>9. h[b] = Pays(b)[x] /\ h[b] \in Nat
  BY <1>1, <1>3, <1>4
<1> QED BY <1>6, <1>7, <1>8, <1>9

(* What the contract does with the past stays what it was.                  *)
LEMMA ContractStays ==
  ASSUME history' = history, NEW F, NEW b
  PROVE  /\ RewardsRight(F, b)' <=> RewardsRight(F, b)
         /\ VotesRight(F, b)' <=> VotesRight(F, b)
<1>1. /\ ContractTally(b)' = ContractTally(b)
      /\ SameRuleAt(b)' <=> SameRuleAt(b)
      /\ SameDelegationsAt(b)' <=> SameDelegationsAt(b)
      /\ WeighsAsTheContract(F, b)' <=> WeighsAsTheContract(F, b)
  BY DEF WeighsAsTheContract, UnseenStake, ContractTally, SameRuleAt, SameDelegationsAt, OldestVoters,
         Represented, Behind, CurrentVote, InForce, LedTo, Delegating, ElectionsUpTo
<1>2. \A x : Represented(x, b)' <=> Represented(x, b)
  BY DEF Represented, Behind, LedTo, Delegating, InForce
<1>3. \A x : RepresentedUpTo(x, b)' <=> RepresentedUpTo(x, b)
  BY DEF RepresentedUpTo, Represented, Behind, LedTo, Delegating, InForce, ElectionsUpTo
<1>4. FairUpTo(b)' <=> FairUpTo(b)
  BY DEF FairUpTo, ContractTally, SameRuleAt, SameDelegationsAt, OldestVoters, Represented, Behind,
         CurrentVote, InForce, LedTo, Delegating, ElectionsUpTo
<1>5. \A x : PaidUpTo(x, b)' = PaidUpTo(x, b)
  BY DEF PaidUpTo, Pays, ContractTally, CurrentVote, InForce, ElectionsUpTo
<1>6. TallyRight(F, b)' <=> TallyRight(F, b)
  BY <1>1, <1>2 DEF TallyRight
<1> QED BY <1>1, <1>3, <1>4, <1>5, <1>6 DEF RewardsRight, VotesRight


LEMMA NextRewardsAre ==
  ASSUME history' = history, NEW r, r = rewards', NEW b, b = startElectionPeriod',
         stage' # "off" /\ ~dropped' => RewardsRight(r, b)
  PROVE  RewardsInv'
<1> SUFFICES ASSUME (stage # "off" /\ ~dropped)' PROVE RewardsRight(rewards, startElectionPeriod)'
  BY DEF RewardsInv
<1>1. RewardsRight(r, b)'
  BY ContractStays
<1> QED BY ONLY <1>1, r = rewards', b = startElectionPeriod'
     DEF RewardsRight, FairUpTo, RepresentedUpTo, PaidUpTo, ElectionsUpTo

LEMMA NextVotesAre ==
  ASSUME history' = history, \A b \in DOMAIN votesFile' : \A F : F = votesFile'[b] => VotesRight(F, b)
  PROVE  VotesInv'
<1> SUFFICES ASSUME NEW b \in DOMAIN votesFile' PROVE VotesRight(votesFile[b], b)'
  BY DEF VotesInv
<1>1. PICK F : F = votesFile'[b]
  OBVIOUS
<1>2. VotesRight(F, b)'
  BY <1>1, ContractStays
<1> QED BY ONLY <1>1, <1>2 DEF VotesRight, TallyRight

LEMMA VotesStay ==
  ASSUME VotesInv, history' = history, votesFile' = votesFile PROVE VotesInv'
BY NextVotesAre DEF VotesInv

(* Where nothing is paid yet.                                               *)
LEMMA NothingPaid ==
  ASSUME history \in Histories, NEW b, b = FirstElectionBlock - ElectionPeriod
  PROVE  RewardsRight(NoRewards, b)
<1> SUFFICES ASSUME NEW x \in Address PROVE NoRewards.participation[x] = PaidUpTo(x, b)
  BY DEF RewardsRight
<1>1. ElectionsUpTo(b) = {}
  BY NoElectionBefore
<1>2. PICK f : f = [c \in ElectionsUpTo(b) |-> Pays(c)[x]]
  OBVIOUS
<1>3. PICK S : S = {}
  OBVIOUS
<1>4. DOMAIN f = S
  BY <1>1, <1>2, <1>3
<1>5. SumFunction(f) = SumFunctionOnSet(f, S) /\ SumFunctionOnSet(f, {}) = 0
  BY <1>4, SumOfFunction, SumEmpty
<1> QED BY <1>2, <1>3, <1>5 DEF PaidUpTo, NoRewards, Zeros

LEMMA LaunchesAreRight ==
  ASSUME StatusInv, ContractInv, LaunchFromStart PROVE ContractInv'
<1>1. /\ stage = "off" /\ history' = history /\ rewards' = rewards /\ votesFile' = votesFile
      /\ startElectionPeriod' = FirstElectionBlock - ElectionPeriod
  BY DEF LaunchFromStart
<1>2. history \in Histories /\ rewards = NoRewards
  BY <1>1 DEF StatusInv, RunInv
<1>3. RewardsInv'
  <2>1. PICK r, b : r = rewards' /\ b = startElectionPeriod'
    OBVIOUS
  <2>2. RewardsRight(r, b)
    BY <1>1, <1>2, <2>1, NothingPaid
  <2> QED BY <1>1, <2>1, <2>2, NextRewardsAre
<1> QED BY <1>1, <1>3, VotesStay DEF ContractInv

LEMMA LaunchesFromFilesAreRight ==
  ASSUME StatusInv, ContractInv, LaunchFromFile PROVE ContractInv'
<1>1. history' = history /\ votesFile' = votesFile
  BY DEF LaunchFromFile
<1>2. PICK from \in DOMAIN delegationsFile \cap DOMAIN votesFile :
        /\ startElectionPeriod' = from /\ rewards' = RewardsFromFile(votesFile[from])
        /\ dropped' = (delegationsFile[from].dropped \/ votesFile[from].dropped)
  BY DEF LaunchFromFile
<1>3. PICK V : V = votesFile[from]
  OBVIOUS
<1>4. VotesRight(V, from) /\ VotesTyped(V, from)
  BY <1>2, <1>3 DEF StatusInv, VotesTypedInv, ContractInv, VotesInv
<1>5. from \in ElectionsUpTo(from)
  BY <1>4, NoElectionBefore DEF VotesTyped, StatusInv, RunInv
<1>6. ASSUME ~V.dropped PROVE RewardsRight(RewardsFromFile(V), from)
  <2> SUFFICES ASSUME FairUpTo(from), NEW x \in Address, RepresentedUpTo(x, from)
               PROVE RewardsFromFile(V).participation[x] = PaidUpTo(x, from)
    BY DEF RewardsRight
  <2>1. SameDelegationsAt(from) /\ Represented(x, from)
    BY <1>5 DEF FairUpTo, RepresentedUpTo, SameRuleAt
  <2>2. x \in DOMAIN V.participation /\ \A e \in V.unled : e.to # x
    BY <1>4, <1>6, <2>1 DEF VotesRight, TallyRight
  <2>3. V.participation[x] = PaidUpTo(x, from)
    BY <1>4, <1>6, <2>2 DEF VotesRight
  <2>4. RewardsFromFile(V).participation =
          [a \in Address |-> IF a \in DOMAIN V.participation \ {e.to : e \in V.unled}
                               THEN V.participation[a] ELSE 0]
    BY DEF RewardsFromFile
  <2>5. x \notin {e.to : e \in V.unled}
    BY <2>2
  <2> QED BY <2>2, <2>3, <2>4, <2>5
<1>7. RewardsInv'
  <2>1. PICK r, b : r = rewards' /\ b = startElectionPeriod'
    OBVIOUS
  <2>2. ~dropped' => RewardsRight(r, b)
    BY <1>2, <1>3, <1>6, <2>1
  <2> QED BY <1>1, <2>1, <2>2, NextRewardsAre
<1> QED BY <1>1, <1>7, VotesStay DEF ContractInv

LEMMA EndsAreRight ==
  ASSUME ContractInv, End PROVE ContractInv'
<1>1. history' = history /\ votesFile' = votesFile /\ stage' = "off"
  BY DEF End
<1>2. RewardsInv'
  BY <1>1 DEF RewardsInv
<1> QED BY <1>1, <1>2, VotesStay DEF ContractInv

LEMMA PreElectionsAreRight ==
  ASSUME StatusInv, ContractInv, CollectPreElection PROVE ContractInv'
<1>1. /\ stage = "prepare" /\ history' = history /\ rewards' = rewards /\ votesFile' = votesFile
      /\ startElectionPeriod' = startElectionPeriod
  BY DEF CollectPreElection
<1>2. dropped = FALSE
  BY <1>1 DEF StatusInv, RunInv
<1>3. RewardsInv'
  <2>1. PICK r, b : r = rewards' /\ b = startElectionPeriod'
    OBVIOUS
  <2>2. RewardsRight(r, b)
    BY <1>1, <1>2, <2>1 DEF ContractInv, RewardsInv
  <2> QED BY <1>1, <2>1, <2>2, NextRewardsAre
<1> QED BY <1>1, <1>3, VotesStay DEF ContractInv

LEMMA StuttersAreRight ==
  ASSUME ContractInv, UNCHANGED vars PROVE ContractInv'
<1>1. /\ history' = history /\ rewards' = rewards /\ votesFile' = votesFile /\ stage' = stage
      /\ dropped' = dropped /\ startElectionPeriod' = startElectionPeriod
  BY DEF vars, memory
<1>2. RewardsInv'
  <2>1. PICK r, b : r = rewards' /\ b = startElectionPeriod'
    OBVIOUS
  <2>2. stage' # "off" /\ ~dropped' => RewardsRight(r, b)
    BY <1>1, <2>1 DEF ContractInv, RewardsInv
  <2> QED BY <1>1, <2>1, <2>2, NextRewardsAre
<1> QED BY <1>1, <1>2, VotesStay DEF ContractInv


(* An election the page skips is none in which it knows what the contract   *)
(* knows.                                                                   *)
LEMMA SkippedIsDifferent ==
  ASSUME history \in Histories, NEW s \in Starts, NEW b \in Elections, b = s + ElectionPeriod,
         KeepsStrongest({}, Past(b), Formerly(b))
  PROVE  ~SameDelegationsAt(b)
<1> SUFFICES ASSUME SameDelegationsAt(b) PROVE FALSE
  OBVIOUS
<1>1. PICK e \in Delegating(b) : TRUE
  BY DEF SameDelegationsAt
<1>2. e \in InForce(b) /\ e.delegator \notin GuardiansAt(b)
  BY DEF Delegating, GuardiansAt
<1>3. e \in Strongest(Past(b)) /\ e \in history.events
  BY <1>2, InForceIs
<1>4. e.delegator \in Formerly(b)
  BY <1>3 DEF KeepsStrongest
<1>5. \A f \in history.events : f.delegator \notin Formerly(b) \ GuardiansAt(b)
  BY DEF SameDelegationsAt, Formerly, GuardiansAt
<1> QED BY <1>2, <1>3, <1>4, <1>5

LEMMA NextMapWas ==
  ASSUME MapInv', history' = history, ~dropped', NEW D, D = delegatorsMap', NEW t, t = eventTxs',
         NEW s, s = stage', s \in {"collect", "calculate"},
         NEW b, b = startElectionPeriod', NEW f, f = fileStartFrom'
  PROVE  MapIs(D, t, s, b, f)
<1>1. MapIs(delegatorsMap, eventTxs, stage, startElectionPeriod, fileStartFrom)'
  BY DEF MapInv
<1>2. MapIs(D, t, s, b, f)'
  BY ONLY <1>1, D = delegatorsMap', t = eventTxs', s = stage', b = startElectionPeriod', f = fileStartFrom'
     DEF MapIs, Read, KeepsStrongest, Formerly, GuardiansAt, ElectionsUpTo
<1> QED BY <1>2, PastStays

LEMMA CollectionsAreRight ==
  ASSUME StatusInv, StatusInv', ContractInv, CollectDelegations PROVE ContractInv'
<1>1. /\ stage = "collect" /\ history' = history /\ rewards' = rewards /\ votesFile' = votesFile
      /\ startElectionPeriod < processEndBlock - ElectionPeriod
      /\ SearchDelegations(startElectionPeriod, ElectionBlock)
      /\ startElectionPeriod' = NextIfEmpty(delegatorsMap')
      /\ delegatorsMap' = {} => stage' = stage
  BY DEF CollectDelegations
<1>2. PICK start, b : start = startElectionPeriod /\ b = start + ElectionPeriod
  OBVIOUS
<1>3. history \in Histories /\ start \in Starts /\ b \in Elections
  <2>1. history \in Histories /\ start \in Starts /\ processEndBlock \in EndBlocks
    BY <1>1, <1>2 DEF StatusInv, RunInv
  <2> QED BY <1>1, <1>2, <2>1, Calendar
<1>4. startElectionPeriod' = IF delegatorsMap' = {} THEN b ELSE start
  BY <1>1, <1>2 DEF NextIfEmpty, ElectionBlock
<1>5. ~dropped' => ~dropped
  <2>1. PICK x \in Int, y \in Int : x = start /\ y = b
    BY <1>3, Calendar
  <2>2. x < y /\ SearchDelegations(x, y)
    BY <1>1, <1>2, <1>3, <2>1, Calendar, Sizes DEF ElectionBlock
  <2>3. PICK N \in SUBSET history.events : Searched(N, x, y)
    BY <1>3, <2>2, SearchFinds
  <2> QED BY <2>3 DEF Searched
<1>6. RewardsInv'
  <2>1. PICK r, z : r = rewards' /\ z = startElectionPeriod'
    OBVIOUS
  <2>2. ASSUME ~dropped' PROVE RewardsRight(r, z)
    <3>1. CASE delegatorsMap' # {}
      BY <1>1, <1>2, <1>4, <1>5, <2>1, <2>2, <3>1 DEF ContractInv, RewardsInv
    <3>2. CASE delegatorsMap' = {}
      <4>1. PICK D, t, s, f : /\ D = delegatorsMap' /\ t = eventTxs' /\ s = stage'
                              /\ f = fileStartFrom'
        OBVIOUS
      <4>2. z = b /\ D = {} /\ s = "collect"
        BY <1>1, <1>4, <2>1, <3>2, <4>1
      <4>3. MapIs(D, t, s, z, f)
        BY <1>1, <2>1, <2>2, <4>1, <4>2, NextMapWas DEF StatusInv
      <4>4. b # FirstElectionBlock - ElectionPeriod
        BY <1>3, Calendar, Sizes
      <4>5. KeepsStrongest({}, Past(b), Formerly(b))
        BY <4>2, <4>3, <4>4 DEF MapIs, Read
      <4>6. ~SameRuleAt(b) /\ b \in ElectionsUpTo(b)
        BY <1>2, <1>3, <4>5, SkippedIsDifferent, NoElectionBefore DEF SameRuleAt
      <4> QED BY <4>2, <4>6 DEF RewardsRight, FairUpTo
    <3> QED BY <3>1, <3>2
  <2> QED BY <1>1, <2>1, <2>2, NextRewardsAre
<1> QED BY <1>1, <1>6, VotesStay DEF ContractInv

(* The page knows every delegation that counts.                             *)
LEMMA PageKnowsAll ==
  ASSUME history \in Histories, NEW b \in Elections, SameDelegationsAt(b),
         NEW K, NoGuardians(K, GuardiansAt(b)), MapTyped(K),
         KeepsStrongest(K, Past(b), Formerly(b))
  PROVE  KnowsAll(K, b)
<1>1. \A f \in history.events : f.delegator \notin Formerly(b) \ GuardiansAt(b)
  BY DEF SameDelegationsAt, Formerly, GuardiansAt
<1>2. \A e \in InForce(b) : e \in Strongest(Past(b)) /\ e \in history.events
  BY InForceIs
<1>3. ASSUME NEW e \in K PROVE \E o \in Delegating(b) : Same(e, o)
  <2>1. PICK f \in history.events : Same(e, f)
    BY EntryIs
  <2>2. e.delegator \notin GuardiansAt(b) /\ e.delegator \notin Formerly(b)
    <3>1. f.delegator = e.delegator
      BY <2>1, StampedIs DEF Same
    <3> QED BY <1>1, <3>1 DEF NoGuardians
  <2>3. PICK o \in Strongest(Past(b)) : Same(e, o)
    BY <2>2 DEF KeepsStrongest
  <2>4. o \in InForce(b) /\ o \in history.events
    BY <1>2, InForceIs
  <2>5. o.delegator = e.delegator
    BY <2>3, <2>4, StampedIs DEF Same
  <2>6. o \in Delegating(b)
    BY <2>2, <2>4, <2>5 DEF Delegating, GuardiansAt
  <2> QED BY <2>3, <2>6
<1>4. ASSUME NEW o \in Delegating(b) PROVE \E e \in K : Same(e, o)
  <2>1. o \in InForce(b) /\ o.delegator \notin GuardiansAt(b)
    BY DEF Delegating, GuardiansAt
  <2>2. o \in Strongest(Past(b)) /\ o.delegator \notin Formerly(b)
    BY <1>1, <1>2, <2>1
  <2> QED BY <2>2 DEF KeepsStrongest
<1>5. \A o \in Delegating(b) : o \in history.events /\ o \in InForce(b)
  BY <1>2 DEF Delegating
<1>6. \A o \in Delegating(b) : \A e : Same(e, o) => e.delegator = o.delegator /\ e.to = o.to
  BY <1>5, StampedIs DEF Same
<1>7. \A o \in Delegating(b) : AgentsAt(b)[o.delegator] = o.to
  BY <1>5, AgentsAre
<1>8. Leads(Delegating(b), DelegatorsAt(b), AgentsAt(b), GuardiansAt(b))
  BY AgentsAre
<1>9. \A e \in K : e.delegator \in DelegatorsAt(b) /\ e.to = AgentsAt(b)[e.delegator]
  BY <1>3, <1>6, <1>7 DEF DelegatorsAt
<1>10. \A x \in DelegatorsAt(b) : \E e \in K : e.delegator = x
  BY <1>4, <1>6 DEF DelegatorsAt
<1> QED BY <1>8, <1>9, <1>10 DEF KnowsAll, Leads


(* What an election adds.                                                   *)
LEMMA CalculationIsRight ==
  ASSUME StatusInv, ContractInv, stage = "calculate", ~dropped,
         NEW b, NEW G, NEW K, NEW F, NEW sums, Calculated(b, G, K, F, sums),
         NEW C, C = VotesRows(sums, G, K, GuardianFields(F), rewards')
  PROVE  /\ SameDelegationsAt(b) => TallyRight(C, b)
         /\ RewardsRight(rewards', b)
<1>1. CalculatedTyped(b, G, K, F, sums)
  BY CalculatedIsTyped
<1>2. PICK start : start = startElectionPeriod
  OBVIOUS
<1>3. /\ history \in Histories /\ start \in Starts /\ b \in Elections /\ b = start + ElectionPeriod
      /\ rewards \in RewardsType /\ G = GuardiansAt(b)
      /\ F = Followed(G, K) /\ sums = CopyAndSums(b, G, F)
  BY <1>1, <1>2 DEF StatusInv, RunInv, Calculated, CalculatedTyped
<1>4. /\ NoGuardians(K, G) /\ MapTyped(K) /\ SumsTyped(sums, G)
      /\ rewards'.participation = AddParticipationRewards(rewards.participation, sums)
  BY <1>1 DEF CalculatedTyped
<1>5. KeepsStrongest(K, Past(b), Formerly(b))
  <2>1. /\ KeepsStrongest(delegatorsMap, Past(b), Formerly(start))
    BY <1>2, <1>3 DEF StatusInv, MapInv, MapIs, Read
  <2>2. Formerly(b) = Formerly(start) \cup G
    BY <1>3, OneElectionMore
  <2>3. K = {e \in delegatorsMap : e.delegator \notin G}
    BY DEF Calculated, CalculateDelegationMap
  <2>4. \A o \in Strongest(Past(b)) : o \in history.events
    BY DEF Strongest, Past
  <2>5. \A o \in Strongest(Past(b)) : \A e : Same(e, o) => e.delegator = o.delegator
    BY <1>3, <2>4, StampedIs DEF Same
  <2>6. PICK W : W = Formerly(start)
    OBVIOUS
  <2>7. KeepsStrongest(K, Past(b), W \cup G)
    BY <2>1, <2>3, <2>5, <2>6 DEF KeepsStrongest
  <2> QED BY <2>2, <2>6, <2>7
<1>6. SameDelegationsAt(b) => KnowsAll(K, b)
  BY <1>3, <1>4, <1>5, PageKnowsAll
<1>7. SameRuleAt(b) => TalliedAlike(sums, ContractTally(b))
  BY <1>3, <1>6, PageTallies DEF SameRuleAt
<1>8. ASSUME SameDelegationsAt(b) PROVE TallyRight(C, b)
  <2>1. /\ C.weight = [g \in sums.casting |-> sums.weight[g]] /\ C.total = sums.total
        /\ C.participation = [a \in sums.listed |-> rewards'.participation[a]]
        /\ C.unled = {e \in K : GuardianFields(F)[e.delegator] \notin G}
    BY DEF VotesRows
  <2>2. WeighsAsTheContract(C, b)
    BY <1>3, <1>6, <1>8, <2>1, PageWeighs
  <2>3. ASSUME NEW x \in Address, Represented(x, b)
        PROVE  x \in DOMAIN C.participation /\ \A e \in C.unled : e.to # x
    <3>1. /\ x \in sums.listed
          /\ \A e \in K : GuardianFields(F)[e.delegator] \notin G => e.to # x
      BY <1>3, <1>6, <1>8, <2>3, PageRepresents
    <3> QED BY <2>1, <3>1
  <2> QED BY <2>2, <2>3 DEF TallyRight
<1>9. RewardsRight(rewards', b)
  <2> SUFFICES ASSUME FairUpTo(b), NEW x \in Address, RepresentedUpTo(x, b)
               PROVE rewards'.participation[x] = PaidUpTo(x, b)
    BY DEF RewardsRight
  <2>1. b \in ElectionsUpTo(b) /\ ElectionsUpTo(start) \subseteq ElectionsUpTo(b)
    BY <1>3, OneElectionMore
  <2>2. SameRuleAt(b) /\ ContractTally(b).total > 0
    BY <2>1 DEF FairUpTo
  <2>3. rewards.participation[x] = PaidUpTo(x, start)
    <3>1. FairUpTo(start) /\ RepresentedUpTo(x, start)
      BY <2>1 DEF FairUpTo, RepresentedUpTo
    <3>2. RewardsRight(rewards, start)
      BY <1>2 DEF ContractInv, RewardsInv
    <3> QED BY <3>1, <3>2 DEF RewardsRight
  <2>4. PaidUpTo(x, b) = PaidUpTo(x, start) + Pays(b)[x]
    BY <1>3, PaidInOneMore
  <2>5. PICK t, old : t = ContractTally(b) /\ old = rewards.participation
    OBVIOUS
  <2>6. old \in [Address -> Nat]
    BY <1>3, <2>5 DEF RewardsType
  <2>7. AddParticipationRewards(old, sums)[x] = old[x] + AddParticipation(Zeros, t)[x]
    <3>1. TalliedAlike(sums, t) /\ t.total > 0
      BY <1>7, <2>2, <2>5
    <3> QED BY <1>4, <2>6, <3>1, PaidAlike
  <2> QED BY <1>4, <2>3, <2>4, <2>5, <2>7 DEF Pays
<1> QED BY <1>8, <1>9

LEMMA CalculationsAreRight ==
  ASSUME StatusInv, ContractInv, CalculateElection PROVE ContractInv'
<1>1. stage = "calculate"
  BY DEF CalculateElection
<1>2. PICK b, G, K, F, sums : Calculated(b, G, K, F, sums)
  BY CalculatedIs
<1>3. /\ startElectionPeriod' = b /\ history' = history /\ dropped' = dropped
      /\ votesFile' = Written(votesFile, b, VotesRows(sums, G, K, GuardianFields(F), rewards'))
  BY <1>2 DEF Calculated
<1>4. PICK r : r = rewards'
  OBVIOUS
<1>5. PICK C : C = VotesRows(sums, G, K, GuardianFields(F), rewards')
  OBVIOUS
<1>6. ~dropped => /\ SameDelegationsAt(b) => TallyRight(C, b)
                  /\ RewardsRight(r, b)
  BY <1>1, <1>2, <1>4, <1>5, CalculationIsRight
<1>7. RewardsInv'
  <2>1. PICK z : z = startElectionPeriod'
    OBVIOUS
  <2>2. ~dropped' => RewardsRight(r, z)
    BY <1>3, <1>6, <2>1
  <2> QED BY <1>3, <1>4, <2>1, <2>2, NextRewardsAre
<1>8. VotesRight(C, b)
  <2>1. /\ C.participation = [a \in sums.listed |-> r.participation[a]] /\ C.dropped = dropped
    BY <1>4, <1>5 DEF VotesRows
  <2>2. sums.listed \subseteq Address
    BY <1>1, <1>2, CalculatedIsTyped DEF CalculatedTyped, SumsTyped
  <2> QED BY <1>6, <2>1, <2>2 DEF VotesRight, RewardsRight
<1>9. VotesInv'
  <2>1. votesFile' = [z \in DOMAIN votesFile \cup {b} |-> IF z = b THEN C ELSE votesFile[z]]
    BY <1>3, <1>5 DEF Written
  <2>2. ASSUME NEW z \in DOMAIN votesFile', NEW V, V = votesFile'[z] PROVE VotesRight(V, z)
    BY <1>8, <2>1, <2>2 DEF ContractInv, VotesInv
  <2> QED BY <1>3, <2>2, NextVotesAre
<1> QED BY <1>7, <1>9 DEF ContractInv

(* Each step of the page keeps it so.                                       *)
LEMMA StepIsRight ==
  ASSUME StatusInv, StatusInv', ContractInv, [Next]_vars PROVE ContractInv'
<1>1. CASE LaunchFromStart
  BY <1>1, LaunchesAreRight
<1>2. CASE LaunchFromFile
  BY <1>2, LaunchesFromFilesAreRight
<1>3. CASE CollectPreElection
  BY <1>3, PreElectionsAreRight
<1>4. CASE CollectDelegations
  BY <1>4, CollectionsAreRight
<1>5. CASE CalculateElection
  BY <1>5, CalculationsAreRight
<1>6. CASE Finish \/ Fail
  BY <1>6, EndsAreRight DEF Finish, Fail
<1>7. CASE UNCHANGED vars
  BY <1>7, StuttersAreRight
<1> QED BY <1>1, <1>2, <1>3, <1>4, <1>5, <1>6, <1>7 DEF Next, Run

(* What a run has accumulated (voting.js: rewards) and every file of votes  *)
(* says is what the Elections contract makes of the same past.              *)
THEOREM FilesAreTheContracts == Spec => []ContractInv
<1>1. Init => ContractInv
  BY DEF Init, ContractInv, RewardsInv, VotesInv
<1>2. StatusInv /\ StatusInv' /\ ContractInv /\ [Next]_vars => ContractInv'
  BY StepIsRight
<1> QED BY <1>1, <1>2, RunsAndFilesAreRight, PTL DEF Spec

(* The votes file of an election says what the contract computes for it but *)
(* for the two places where the rules differ: its guardians are the         *)
(* contract's and those with the oldest votes, its weights and its total    *)
(* lack exactly the locked stake, and the total has the weight of those     *)
(* guardians too.                                                           *)
THEOREM StatusVotesAreTheContracts == Spec => []VotesAreTheContracts
<1>1. ContractInv => VotesAreTheContracts
  <2> SUFFICES ASSUME ContractInv, NEW b \in DOMAIN votesFile, ~votesFile[b].dropped,
                      SameDelegationsAt(b)
               PROVE  WeighsAsTheContract(votesFile[b], b)
    BY DEF VotesAreTheContracts, LastElection
  <2> QED BY DEF ContractInv, VotesInv, VotesRight, TallyRight
<1> QED BY <1>1, FilesAreTheContracts, PTL

(* The accumulated reward of a file is what the contract paid in all the    *)
(* elections so far, through whatever restarts the file came about, for     *)
(* everybody who was represented in each of them, if the two rules were one *)
(* in each.                                                                 *)
THEOREM StatusRewardsAreTheContracts == Spec => []AccumulatedIsWhatTheContractPaid
<1>1. ContractInv => AccumulatedIsWhatTheContractPaid
  <2> SUFFICES ASSUME ContractInv, NEW b \in DOMAIN votesFile, ~votesFile[b].dropped, FairUpTo(b),
                      NEW x \in DOMAIN votesFile[b].participation, RepresentedUpTo(x, b)
               PROVE  votesFile[b].participation[x] = PaidUpTo(x, b)
    BY DEF AccumulatedIsWhatTheContractPaid, LastElection, FairUpTo, RepresentedUpTo, PaidUpTo, Pays
  <2> QED BY DEF ContractInv, VotesInv, VotesRight
<1> QED BY <1>1, FilesAreTheContracts, PTL

=============================================================================
