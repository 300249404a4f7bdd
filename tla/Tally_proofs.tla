---------------------------- MODULE Tally_proofs ----------------------------
(***************************************************************************)
(* The tally of an election (module ElectionTally), for every list of       *)
(* guardians, every vote, every stake and every graph of delegations.  The  *)
(* recursion of the contract appends lists; what it counts is a set, the    *)
(* least one that holds the guardian and is closed under delegation, and    *)
(* these lemmas go from the one to the other.                               *)
(***************************************************************************)
EXTENDS ElectionTally, Sums_proofs, SequenceTheorems, TLAPS

-----------------------------------------------------------------------------
(* Lists and sums of the tally                                              *)

(* A list made of the entries of s that are in T, one after the other.      *)
SelectsIn(F, s, T) ==
  /\ F[0] = <<>>
  /\ \A i \in 1 .. Len(s) : F[i] = IF s[i] \in T THEN Append(F[i - 1], s[i]) ELSE F[i - 1]

(* It holds what is in both, and nobody twice unless s does.                *)
LEMMA SelectionIsSubset ==
  ASSUME NEW S, NEW s \in Seq(S), NEW T, NEW F, SelectsIn(F, s, T)
  PROVE  /\ F[Len(s)] \in Seq(S)
         /\ ToSet(F[Len(s)]) = ToSet(s) \cap T
         /\ IsInjective(s) => IsInjective(F[Len(s)])
<1> DEFINE upto(m) == {s[i] : i \in 1 .. m}
           Good == {m \in Nat : m <= Len(s) =>
                      /\ F[m] \in Seq(S) /\ ToSet(F[m]) = upto(m) \cap T
                      /\ IsInjective(s) => IsInjective(F[m])}
<1>1. 0 \in Good
  <2>1. F[0] = <<>> /\ <<>> \in Seq(S) /\ ToSet(<<>>) = {} /\ IsInjective(<<>>) /\ upto(0) = {}
    BY DEF SelectsIn, ToSet, IsInjective
  <2> QED BY <2>1
<1>2. ASSUME NEW m \in Nat, m \in Good PROVE m + 1 \in Good
  <2> SUFFICES ASSUME m + 1 <= Len(s)
               PROVE  /\ F[m + 1] \in Seq(S) /\ ToSet(F[m + 1]) = upto(m + 1) \cap T
                      /\ IsInjective(s) => IsInjective(F[m + 1])
    OBVIOUS
  <2>1. /\ F[m] \in Seq(S) /\ ToSet(F[m]) = upto(m) \cap T
        /\ IsInjective(s) => IsInjective(F[m])
    BY <1>2
  <2>2. m + 1 \in 1 .. Len(s) /\ s[m + 1] \in S /\ (m + 1) - 1 = m
    OBVIOUS
  <2>3. F[m + 1] = IF s[m + 1] \in T THEN Append(F[m], s[m + 1]) ELSE F[m]
    BY <2>2 DEF SelectsIn
  <2>4. upto(m + 1) = upto(m) \cup {s[m + 1]}
    <3>1. 1 .. m + 1 = (1 .. m) \cup {m + 1}
      OBVIOUS
    <3> QED BY <3>1
  <2>5. IsInjective(s) => s[m + 1] \notin upto(m)
    <3>1. \A i \in 1 .. m : i \in DOMAIN s /\ i # m + 1
      OBVIOUS
    <3> QED BY <2>2, <3>1 DEF IsInjective
  <2> HIDE DEF upto
  <2>6. CASE s[m + 1] \in T
    <3>1. F[m + 1] = Append(F[m], s[m + 1])
      BY <2>3, <2>6
    <3> QED BY <2>1, <2>2, <2>4, <2>5, <2>6, <3>1, AppendedList
  <2>7. CASE s[m + 1] \notin T
    BY <2>1, <2>3, <2>4, <2>7
  <2> QED BY <2>6, <2>7
<1>3. Len(s) \in Good
  <2> HIDE DEF Good
  <2> QED BY <1>1, <1>2, CountUp
<1>4. upto(Len(s)) = ToSet(s)
  BY DEF ToSet
<1> QED BY <1>3, <1>4

(* What Among returns.                                                      *)
LEMMA AmongIs ==
  ASSUME NEW S, NEW s \in Seq(S), NEW T
  PROVE  /\ Among(s, T) \in Seq(S)
         /\ ToSet(Among(s, T)) = ToSet(s) \cap T
         /\ IsInjective(s) => IsInjective(Among(s, T))
<1> DEFINE n == Len(s)
           step == [i \in 1 .. n |-> [v \in Seq(S) |-> IF s[i] \in T THEN Append(v, s[i]) ELSE v]]
           Eq(F) == F = [i \in 0 .. n |-> IF i = 0 THEN <<>>
                          ELSE IF s[i] \in T THEN Append(F[i - 1], s[i]) ELSE F[i - 1]]
           C == CHOOSE F : Eq(F)
<1>1. step \in [1 .. n -> [Seq(S) -> Seq(S)]]
  OBVIOUS
<1>2. n \in Nat /\ <<>> \in Seq(S)
  OBVIOUS
<1>3. PICK F : MadeStepwise(F, n, Seq(S), <<>>, step)
  <2> HIDE DEF n, step
  <2> QED BY <1>1, <1>2, StepByStep
<1>4. F \in [0 .. n -> Seq(S)] /\ F[0] = <<>>
  BY <1>3 DEF MadeStepwise
<1>5. ASSUME NEW i \in 1 .. n
      PROVE  F[i] = IF s[i] \in T THEN Append(F[i - 1], s[i]) ELSE F[i - 1]
  <2>1. F[i] = step[i][F[i - 1]]
    BY <1>3 DEF MadeStepwise
  <2>2. i - 1 \in 0 .. n
    BY <1>2
  <2>3. F[i - 1] \in Seq(S)
    BY <1>4, <2>2
  <2>4. step[i] = [v \in Seq(S) |-> IF s[i] \in T THEN Append(v, s[i]) ELSE v]
    OBVIOUS
  <2> HIDE DEF step
  <2> QED BY <2>1, <2>3, <2>4
<1>6. Eq(F)
  <2>1. F = [i \in 0 .. n |-> F[i]]
    BY <1>4
  <2>2. \A i \in 0 .. n : i # 0 => i \in 1 .. n
    BY <1>2
  <2> HIDE DEF n
  <2> QED BY <1>4, <1>5, <2>1, <2>2
<1>7. Eq(C)
  <2> HIDE DEF Eq
  <2> QED BY <1>6
<1>8. Among(s, T) = C[Len(s)]
  BY DEF Among
<1> HIDE DEF C
<1>9. SelectsIn(C, s, T)
  <2>1. 0 \in 0 .. n /\ \A i \in 1 .. n : i \in 0 .. n /\ i # 0
    BY <1>2
  <2> HIDE DEF n
  <2>2. C[0] = <<>> /\ \A i \in 1 .. n : C[i] = IF s[i] \in T THEN Append(C[i - 1], s[i]) ELSE C[i - 1]
    BY <1>7, <2>1
  <2> QED BY <2>2 DEF SelectsIn, n
<1> QED BY <1>8, <1>9, SelectionIsSubset

(* What SumOver returns: the sum over the positions.                        *)
LEMMA SumOverPositions ==
  ASSUME NEW S, NEW s \in Seq(S), NEW amount, \A x \in ToSet(s) : amount[x] \in Int,
         NEW h, \A i \in DOMAIN s : h[i] = amount[s[i]]
  PROVE  SumOver(s, amount) = SumFunctionOnSet(h, DOMAIN s)
<1> DEFINE D == DOMAIN s
           Eq(F) == F = [T \in SUBSET D |-> IF T = {} THEN 0
                                            ELSE F[T \ {Max(T)}] + amount[s[Max(T)]]]
           C == CHOOSE F : Eq(F)
           R == [T \in SUBSET D |-> SumFunctionOnSet(h, T)]
<1>1. D \in SUBSET Nat /\ IsFiniteSet(D) /\ D = 1 .. Len(s) /\ Len(s) \in Nat
  BY ListIsFinite
<1>2. \A i \in D : h[i] = amount[s[i]] /\ h[i] \in Int
  BY DEF ToSet
<1> HIDE DEF D
<1>3. ASSUME NEW T \in SUBSET D, T # {}
      PROVE  Max(T) \in T /\ T \ {Max(T)} \in SUBSET D
             /\ SumFunctionOnSet(h, T) = SumFunctionOnSet(h, T \ {Max(T)}) + amount[s[Max(T)]]
  <2>1. Max(T) \in T
    <3>1. \A k \in T : k <= Len(s)
      BY <1>1
    <3> QED BY <1>1, <1>3, <3>1, GreatestNumber
  <2>2. IsFiniteSet(T) /\ \A x \in T : h[x] \in Int
    BY <1>1, <1>2, FS_Subset
  <2>3. SumFunctionOnSet(h, T) = h[Max(T)] + SumFunctionOnSet(h, T \ {Max(T)})
    BY <2>1, <2>2, SumRemove
  <2>4. SumFunctionOnSet(h, T \ {Max(T)}) \in Int
    <3>1. IsFiniteSet(T \ {Max(T)}) /\ \A x \in T \ {Max(T)} : h[x] \in Int
      BY <2>2, FS_Subset
    <3> QED BY <3>1, SumType
  <2>5. h[Max(T)] = amount[s[Max(T)]] /\ h[Max(T)] \in Int
    BY <1>2, <2>1
  <2>6. T \ {Max(T)} \in SUBSET D
    OBVIOUS
  <2> QED BY <2>1, <2>3, <2>4, <2>5, <2>6
<1>4. Eq(R)
  <2>1. ASSUME NEW T \in SUBSET D
        PROVE R[T] = IF T = {} THEN 0 ELSE R[T \ {Max(T)}] + amount[s[Max(T)]]
    <3>1. CASE T = {}
      BY <3>1, SumEmpty
    <3>2. CASE T # {}
      BY <1>3, <3>2
    <3> QED BY <3>1, <3>2
  <2>2. R = [T \in SUBSET D |-> R[T]]
    OBVIOUS
  <2> HIDE DEF R
  <2> QED BY <2>1, <2>2
<1>5. Eq(C)
  <2> HIDE DEF Eq, R
  <2> QED BY <1>4
<1>6. SumOver(s, amount) = C[D]
  BY DEF SumOver, FoldLeft, MapThenFoldSet, D
<1> HIDE DEF C
<1>7. \A T \in SUBSET D : C[T] = IF T = {} THEN 0 ELSE C[T \ {Max(T)}] + amount[s[Max(T)]]
  BY <1>5
<1> DEFINE Good == {T \in SUBSET D : C[T] = SumFunctionOnSet(h, T)}
<1>8. ASSUME NEW T \in SUBSET D, \A U \in SUBSET T : U # T => U \in Good
      PROVE  T \in Good
  <2>1. CASE T = {}
    BY <1>7, <2>1, SumEmpty
  <2>2. CASE T # {}
    <3>1. T \ {Max(T)} \in Good
      <4>1. T \ {Max(T)} \in SUBSET T /\ T \ {Max(T)} # T
        BY <1>3, <2>2
      <4> HIDE DEF Good
      <4> QED BY <1>8, <4>1
    <3> QED BY <1>3, <1>7, <2>2, <3>1
  <2> QED BY <2>1, <2>2
<1>9. D \in Good
  <2> HIDE DEF Good
  <2>0. IsFiniteSet(D)
    BY <1>1
  <2>1. \A T \in SUBSET D : T \in Good
    BY ONLY <2>0, <1>8, SubsetInduction
  <2> QED BY <2>1
<1> QED BY <1>6, <1>9 DEF D

(* Of a list without repetitions it is the sum over its entries.            *)
LEMMA SumOverEntries ==
  ASSUME NEW S, NEW s \in Seq(S), IsInjective(s), NEW amount, \A x \in ToSet(s) : amount[x] \in Int
  PROVE  SumOver(s, amount) = SumFunctionOnSet(amount, ToSet(s))
<1>0. PICK D, E : D = DOMAIN s /\ E = ToSet(s)
  OBVIOUS
<1>1. PICK h : h = [i \in D |-> amount[s[i]]]
  OBVIOUS
<1>2. \A i \in D : h[i] = amount[s[i]]
  BY <1>1
<1>3. PICK p : p = [x \in E |-> CHOOSE i \in D : s[i] = x]
  OBVIOUS
<1>4. PICK parts : parts = [i \in D |-> {s[i]}]
  OBVIOUS
<1>5. \A x \in E : p[x] \in D /\ s[p[x]] = x
  BY <1>0, <1>3 DEF ToSet
<1>6. \A r \in D : parts[r] \subseteq E /\ \A x \in E : x \in parts[r] <=> p[x] = r
  <2> SUFFICES ASSUME NEW r \in D
               PROVE  parts[r] \subseteq E /\ \A x \in E : x \in parts[r] <=> p[x] = r
    OBVIOUS
  <2>1. s[r] \in E /\ parts[r] = {s[r]}
    BY <1>0, <1>4 DEF ToSet
  <2> QED BY <1>0, <1>5, <2>1 DEF IsInjective
<1>7. \A r \in D : h[r] = SumFunctionOnSet(amount, parts[r])
  <2> SUFFICES ASSUME NEW i \in D PROVE amount[s[i]] = SumFunctionOnSet(amount, {s[i]})
    BY <1>2, <1>4
  <2>1. amount[s[i]] \in Int
    BY <1>0 DEF ToSet
  <2> QED BY <2>1, SumSingleton
<1>8. IsFiniteSet(E)
  BY <1>0, ListIsFinite
<1>9. IsFiniteSet(D)
  BY <1>0, ListIsFinite
<1>10. \A x \in E : p[x] \in D
  BY <1>5
<1>11. \A x \in E : amount[x] \in Int
  BY <1>0
<1>12. SumFunctionOnSet(h, D) = SumFunctionOnSet(amount, E)
  BY ONLY <1>6, <1>7, <1>8, <1>9, <1>10, <1>11, SumOfParts
<1> QED BY <1>0, <1>2, <1>12, SumOverPositions

(* The delegators counted are those listed that are no guardians, each      *)
(* once.                                                                    *)
LEMMA CountedIs ==
  ASSUME NEW S, NEW listed \in Seq(S), NEW G \in Seq(S)
  PROVE  /\ CountedDelegators(listed, G) \in Seq(S)
         /\ ToSet(CountedDelegators(listed, G)) = ToSet(listed) \ ToSet(G)
         /\ IsInjective(CountedDelegators(listed, G))
<1> DEFINE D == DOMAIN listed
           skip(v, d) == Contains(G, d) \/ Contains(v, d)
           add(v, d) == IF skip(v, d) THEN v ELSE Append(v, d)
           Eq(F) == F = [T \in SUBSET D |-> IF T = {} THEN <<>>
                                            ELSE add(F[T \ {Max(T)}], listed[Max(T)])]
           C == CHOOSE F : Eq(F)
           step == [i \in D |-> [v \in Seq(S) |-> add(v, listed[i])]]
           pick == [T \in SUBSET D |-> Max(T)]
<1>1. D \in SUBSET Nat /\ IsFiniteSet(D) /\ D = 1 .. Len(listed) /\ Len(listed) \in Nat
  BY ListIsFinite
<1>2. \A i \in D : listed[i] \in S
  OBVIOUS
<1>3. \A v \in Seq(S), d \in S : add(v, d) \in Seq(S)
  <2> SUFFICES ASSUME NEW v \in Seq(S), NEW d \in S PROVE add(v, d) \in Seq(S)
    OBVIOUS
  <2>1. Append(v, d) \in Seq(S)
    OBVIOUS
  <2> HIDE DEF skip
  <2> QED BY <2>1
<1> HIDE DEF D, add
<1>4. CountedDelegators(listed, G) = C[D]
  BY DEF CountedDelegators, FoldLeft, MapThenFoldSet, D, add
<1>5. \A T \in SUBSET D : T # {} => Max(T) \in T
  <2> SUFFICES ASSUME NEW T \in SUBSET D, T # {} PROVE Max(T) \in T
    OBVIOUS
  <2>1. \A k \in T : k <= Len(listed)
    BY <1>1
  <2> QED BY <1>1, <2>1, GreatestNumber
<1>6. \E F : Eq(F)
  <2>1. step \in [D -> [Seq(S) -> Seq(S)]]
    BY <1>2, <1>3
  <2>2. \A T \in SUBSET D : T # {} => pick[T] \in T
    BY <1>5
  <2>3. <<>> \in Seq(S)
    OBVIOUS
  <2>4. PICK F : MadeBySubsets(F, D, Seq(S), <<>>, step, pick)
    <3> HIDE DEF step, pick
    <3> QED BY ONLY <1>1, <2>1, <2>2, <2>3, SubsetBySubset
  <2>5. F \in [SUBSET D -> Seq(S)]
        /\ F = [T \in SUBSET D |-> IF T = {} THEN <<>> ELSE step[pick[T]][F[T \ {pick[T]}]]]
    <3> HIDE DEF step, pick
    <3> QED BY <2>4 DEF MadeBySubsets
  <2>6. ASSUME NEW T \in SUBSET D
        PROVE  F[T] = IF T = {} THEN <<>> ELSE add(F[T \ {Max(T)}], listed[Max(T)])
    <3>1. F[T] = IF T = {} THEN <<>> ELSE step[pick[T]][F[T \ {pick[T]}]]
      <4> HIDE DEF step, pick
      <4> QED BY <2>5
    <3>2. CASE T # {}
      <4>1. pick[T] = Max(T) /\ Max(T) \in D /\ T \ {Max(T)} \in SUBSET D
        BY <1>5, <3>2
      <4>2. F[T \ {Max(T)}] \in Seq(S)
        BY <2>5, <4>1
      <4>3. step[Max(T)] = [v \in Seq(S) |-> add(v, listed[Max(T)])]
        BY <4>1
      <4> HIDE DEF step, pick
      <4> QED BY <3>1, <3>2, <4>1, <4>2, <4>3
    <3> QED BY <3>1, <3>2
  <2>7. F = [T \in SUBSET D |-> F[T]]
    BY <2>5
  <2>8. Eq(F)
    BY <2>6, <2>7
  <2> QED BY <2>8
<1>7. Eq(C)
  <2> HIDE DEF Eq
  <2> QED BY <1>6
<1> HIDE DEF C
<1>8. \A T \in SUBSET D : C[T] = IF T = {} THEN <<>> ELSE add(C[T \ {Max(T)}], listed[Max(T)])
  BY <1>7
<1> DEFINE upto(m) == {listed[i] : i \in 1 .. m}
           Upto(m) == /\ C[1 .. m] \in Seq(S) /\ IsInjective(C[1 .. m])
                      /\ ToSet(C[1 .. m]) = upto(m) \ ToSet(G)
           Good == {m \in Nat : m <= Len(listed) => Upto(m)}
<1>9. 0 \in Good
  <2>1. 1 .. 0 = {} /\ {} \in SUBSET D
    OBVIOUS
  <2>2. C[1 .. 0] = <<>> /\ upto(0) = {}
    BY <1>8, <2>1
  <2>3. <<>> \in Seq(S) /\ ToSet(<<>>) = {} /\ IsInjective(<<>>)
    BY EmptyList
  <2>4. Upto(0)
    <3> HIDE DEF upto
    <3> QED BY <2>2, <2>3
  <2> HIDE DEF Upto
  <2> QED BY <2>4
<1>10. ASSUME NEW m \in Nat, m \in Good PROVE m + 1 \in Good
  <2> SUFFICES ASSUME m + 1 <= Len(listed) PROVE Upto(m + 1)
    <3> HIDE DEF Upto
    <3> QED OBVIOUS
  <2>1. Upto(m)
    <3>1. m <= Len(listed)
      BY <1>1
    <3> HIDE DEF Upto
    <3> QED BY <1>10, <3>1
  <2> DEFINE T == 1 .. m + 1
  <2>2. T \in SUBSET D /\ T # {} /\ m + 1 \in T /\ \A k \in T : k <= m + 1
    BY <1>1
  <2>3. Max(T) = m + 1
    <3>1. Max(T) \in T /\ \A k \in T : k <= Max(T)
      <4>1. T \in SUBSET Nat
        OBVIOUS
      <4> HIDE DEF T
      <4> QED BY <2>2, <4>1, GreatestNumber
    <3> QED BY <2>2, <3>1
  <2>4. T \ {m + 1} = 1 .. m
    OBVIOUS
  <2>5. C[T] = add(C[1 .. m], listed[m + 1])
    <3> HIDE DEF T
    <3> QED BY <1>8, <2>2, <2>3, <2>4
  <2>6. upto(m + 1) = upto(m) \cup {listed[m + 1]}
    <3>1. 1 .. m + 1 = (1 .. m) \cup {m + 1}
      OBVIOUS
    <3> QED BY <3>1
  <2>7. PICK d \in S : d = listed[m + 1]
    BY <1>1, <1>2, <2>2
  <2>8. PICK v \in Seq(S) : v = C[1 .. m]
    BY <2>1
  <2>9. /\ Contains(G, d) <=> d \in ToSet(G)
        /\ Contains(v, d) <=> d \in ToSet(v)
    BY ContainsIs
  <2>10. /\ Append(v, d) \in Seq(S) /\ ToSet(Append(v, d)) = ToSet(v) \cup {d}
         /\ IsInjective(v) /\ d \notin ToSet(v) => IsInjective(Append(v, d))
    BY AppendedList
  <2>11. IsInjective(v) /\ ToSet(v) = upto(m) \ ToSet(G)
    BY <2>1, <2>8
  <2>12. C[T] = IF d \in ToSet(G) \/ d \in ToSet(v) THEN v ELSE Append(v, d)
    <3> HIDE DEF T
    <3> QED BY <2>5, <2>7, <2>8, <2>9 DEF add
  <2> HIDE DEF upto
  <2>13. /\ C[T] \in Seq(S) /\ IsInjective(C[T]) /\ ToSet(C[T]) = upto(m + 1) \ ToSet(G)
    <3> HIDE DEF T
    <3>1. CASE d \in ToSet(G) \/ d \in ToSet(v)
      BY <2>6, <2>7, <2>11, <2>12, <3>1
    <3>2. CASE ~(d \in ToSet(G) \/ d \in ToSet(v))
      BY <2>6, <2>7, <2>10, <2>11, <2>12, <3>2
    <3> QED BY <3>1, <3>2
  <2> QED BY <2>13
<1>11. Len(listed) \in Good
  <2> HIDE DEF Good
  <2> QED BY <1>1, <1>9, <1>10, CountUp
<1>12. Upto(Len(listed))
  <2>1. Len(listed) <= Len(listed)
    BY <1>1
  <2> HIDE DEF Upto
  <2> QED BY <1>11, <2>1
<1>13. upto(Len(listed)) = ToSet(listed)
  BY <1>1 DEF ToSet, D
<1> QED BY <1>1, <1>4, <1>12, <1>13

-----------------------------------------------------------------------------
(* Chains of delegations                                                    *)

(* Where the delegations lead from each account in so many steps.           *)
Follows(it, K, ag) ==
  /\ K \in Nat /\ ag \in [Account -> Account]
  /\ it \in [0 .. K + 1 -> [Account -> Account]]
  /\ it[0] = [x \in Account |-> x]
  /\ \A i \in 1 .. K + 1 : it[i] = [x \in Account |-> ag[it[i - 1][x]]]

(* From x one gets to g in n steps, over accounts in N only.                *)
Reaches(it, x, n, g, N) == it[n][x] = g /\ \A j \in 0 .. n - 1 : it[j][x] \in N

(* Where the delegations lead exists.                                       *)
LEMMA ChainsExist ==
  ASSUME NEW K \in Nat, NEW ag \in [Account -> Account]
  PROVE  \E it : Follows(it, K, ag)
<1> DEFINE V == [Account -> Account]
           step == [i \in 1 .. K + 1 |-> [f \in V |-> [x \in Account |-> ag[f[x]]]]]
           same == [x \in Account |-> x]
<1>1. step \in [1 .. K + 1 -> [V -> V]]
  OBVIOUS
<1>2. same \in V
  OBVIOUS
<1>3. PICK n : n = K + 1
  OBVIOUS
<1>4. PICK it : MadeStepwise(it, n, V, same, step)
  <2>1. step \in [1 .. n -> [V -> V]] /\ n \in Nat
    BY <1>1, <1>3
  <2> HIDE DEF V, step, same
  <2> QED BY <1>2, <2>1, StepByStep
<1>5. /\ it \in [0 .. K + 1 -> V] /\ it[0] = same
      /\ \A i \in 1 .. K + 1 : it[i] = step[i][it[i - 1]]
  <2> HIDE DEF V, step, same
  <2> QED BY <1>3, <1>4 DEF MadeStepwise
<1>6. ASSUME NEW i \in 1 .. K + 1 PROVE it[i] = [x \in Account |-> ag[it[i - 1][x]]]
  <2>1. i - 1 \in 0 .. K + 1
    OBVIOUS
  <2>2. it[i - 1] \in V
    BY <1>5, <2>1
  <2>3. step[i] = [f \in V |-> [x \in Account |-> ag[f[x]]]]
    OBVIOUS
  <2>4. it[i] = step[i][it[i - 1]]
    BY <1>5
  <2> HIDE DEF step, V
  <2> QED BY <2>2, <2>3, <2>4
<1> QED BY <1>5, <1>6 DEF Follows

(* One step more at either end.                                             *)
LEMMA OneStep ==
  ASSUME NEW it, NEW K, NEW ag, Follows(it, K, ag), NEW x \in Account
  PROVE  /\ it[0][x] = x /\ ag[x] \in Account
         /\ \A i \in 0 .. K : it[i + 1][x] = ag[it[i][x]]
         /\ \A i \in 0 .. K : it[i + 1][x] = it[i][ag[x]]
         /\ \A i \in 0 .. K + 1 : it[i][x] \in Account
<1>1. /\ K \in Nat /\ it[0][x] = x /\ it[0][ag[x]] = ag[x] /\ ag[x] \in Account
      /\ \A i \in 0 .. K + 1 : it[i][x] \in Account
  BY DEF Follows
<1>2. ASSUME NEW i \in 0 .. K, NEW y \in Account PROVE it[i + 1][y] = ag[it[i][y]]
  <2>1. i + 1 \in 1 .. K + 1 /\ (i + 1) - 1 = i
    BY <1>1
  <2>2. it[i + 1] = [z \in Account |-> ag[it[i + 1 - 1][z]]]
    BY <2>1 DEF Follows
  <2> QED BY <2>1, <2>2
<1> DEFINE Good == {i \in Nat : i <= K => it[i + 1][x] = it[i][ag[x]]}
<1>3. 0 \in Good
  BY <1>1, <1>2
<1>4. ASSUME NEW i \in Nat, i \in Good PROVE i + 1 \in Good
  <2> SUFFICES ASSUME i + 1 <= K PROVE it[i + 1 + 1][x] = it[i + 1][ag[x]]
    OBVIOUS
  <2>1. i \in 0 .. K /\ i + 1 \in 0 .. K
    BY <1>1
  <2>2. it[i + 1 + 1][x] = ag[it[i + 1][x]] /\ it[i + 1][ag[x]] = ag[it[i][ag[x]]]
    BY <1>1, <1>2, <2>1
  <2>3. it[i + 1][x] = it[i][ag[x]]
    BY <1>4, <2>1
  <2> QED BY <2>2, <2>3
<1>5. \A i \in Nat : i \in Good
  <2> HIDE DEF Good
  <2> QED BY <1>3, <1>4, CountUp
<1>6. \A i \in 0 .. K : it[i + 1][x] = it[i][ag[x]]
  BY <1>1, <1>5
<1> QED BY <1>1, <1>2, <1>6

(* One step along the chain of agents.                                      *)
LEMMA TheNextAgent ==
  ASSUME NEW it, NEW K, NEW ag, Follows(it, K, ag), NEW x \in Account, NEW i \in 0 .. K
  PROVE  it[i + 1][x] = ag[it[i][x]]
<1>1. K \in Nat
  BY DEF Follows
<1>2. i + 1 \in 1 .. K + 1 /\ (i + 1) - 1 = i
  BY <1>1
<1>3. it[i + 1] = [z \in Account |-> ag[it[i + 1 - 1][z]]]
  BY <1>2 DEF Follows
<1> QED BY <1>2, <1>3

(* Whoever gets to somebody outside of N gets there in one number of steps, *)
(* and to one only.                                                         *)
LEMMA OneEnd ==
  ASSUME NEW it, NEW x, NEW n \in Nat, NEW m \in Nat, NEW N, NEW g, NEW h, g \notin N, h \notin N,
         Reaches(it, x, n, g, N), Reaches(it, x, m, h, N)
  PROVE  n = m /\ g = h
<1>1. n < m => n \in 0 .. m - 1
  OBVIOUS
<1>2. m < n => m \in 0 .. n - 1
  OBVIOUS
<1>3. ~(n < m) /\ ~(m < n)
  BY <1>1, <1>2 DEF Reaches
<1>4. n = m
  BY <1>3
<1> QED BY <1>4 DEF Reaches

(* One gets there over one's agent.                                         *)
LEMMA OverTheAgent ==
  ASSUME NEW it, NEW K, NEW ag, Follows(it, K, ag), NEW x \in Account, NEW n \in 0 .. K,
         NEW N, NEW g
  PROVE  Reaches(it, x, n + 1, g, N) <=> x \in N /\ Reaches(it, ag[x], n, g, N)
<1>1. /\ it[0][x] = x
      /\ \A i \in 0 .. K : it[i + 1][x] = it[i][ag[x]]
  BY OneStep
<1>2. ASSUME Reaches(it, x, n + 1, g, N) PROVE x \in N /\ Reaches(it, ag[x], n, g, N)
  <2>1. it[n][ag[x]] = g
    BY <1>1, <1>2 DEF Reaches
  <2>0. K \in Nat /\ n \in Nat
    BY DEF Follows
  <2>2. 0 \in 0 .. n + 1 - 1 /\ \A j \in 0 .. n - 1 : j + 1 \in 0 .. n + 1 - 1 /\ j \in 0 .. K
    BY <2>0
  <2>3. x \in N /\ \A j \in 0 .. n - 1 : it[j][ag[x]] \in N
    BY <1>1, <1>2, <2>2 DEF Reaches
  <2> QED BY <2>1, <2>3 DEF Reaches
<1>3. ASSUME x \in N, Reaches(it, ag[x], n, g, N) PROVE Reaches(it, x, n + 1, g, N)
  <2>1. it[n + 1][x] = g
    BY <1>1, <1>3 DEF Reaches
  <2>2. ASSUME NEW j \in 0 .. n + 1 - 1 PROVE it[j][x] \in N
    <3>1. CASE j = 0
      BY <1>1, <1>3, <3>1
    <3>2. CASE j # 0
      <4>0. K \in Nat /\ n \in Nat
        BY DEF Follows
      <4>1. j - 1 \in 0 .. n - 1 /\ j - 1 \in 0 .. K /\ (j - 1) + 1 = j
        BY <3>2, <4>0
      <4>2. it[j - 1][ag[x]] \in N
        BY <1>3, <4>1 DEF Reaches
      <4> QED BY <1>1, <4>1, <4>2
    <3> QED BY <3>1, <3>2
  <2> QED BY <2>1, <2>2 DEF Reaches
<1> QED BY <1>2, <1>3

(* Everyone on the way gets there in as many steps as are left.             *)
LEMMA OnTheWay ==
  ASSUME NEW it, NEW K, NEW ag, Follows(it, K, ag), NEW x \in Account, NEW n \in 0 .. K + 1,
         NEW N, NEW g, Reaches(it, x, n, g, N)
  PROVE  \A j \in 0 .. n : Reaches(it, it[j][x], n - j, g, N)
<1> DEFINE Good == {j \in Nat : j <= n => Reaches(it, it[j][x], n - j, g, N)}
<1>0. K \in Nat /\ it[0][x] = x
  BY OneStep DEF Follows
<1>1. 0 \in Good
  BY <1>0
<1>2. ASSUME NEW j \in Nat, j \in Good PROVE j + 1 \in Good
  <2> SUFFICES ASSUME j + 1 <= n PROVE Reaches(it, it[j + 1][x], n - (j + 1), g, N)
    OBVIOUS
  <2>1. j \in 0 .. K /\ j \in 0 .. K + 1
    BY <1>0
  <2>2. PICK y \in Account : y = it[j][x]
    BY <2>1, OneStep
  <2>3. PICK m \in 0 .. K : m = n - (j + 1)
    BY <1>0
  <2>4. Reaches(it, y, m + 1, g, N)
    <3>1. m + 1 = n - j /\ j <= n
      BY <1>0, <2>3
    <3>2. Reaches(it, it[j][x], n - j, g, N)
      BY <1>2, <3>1
    <3> QED BY <2>2, <3>1, <3>2
  <2>5. Reaches(it, ag[y], m, g, N)
    BY <2>4, OverTheAgent
  <2>6. it[j + 1][x] = ag[y]
    <3>1. \A i \in 0 .. K : it[i + 1][x] = ag[it[i][x]]
      BY OneStep
    <3> QED BY ONLY <2>1, <2>2, <3>1
  <2> QED BY <2>3, <2>5, <2>6
<1>3. \A j \in Nat : j \in Good
  <2> HIDE DEF Good
  <2> QED BY <1>1, <1>2, CountUp
<1> QED BY <1>3

(* The way is no longer than there are accounts in N.                       *)
LEMMA ShortWays ==
  ASSUME NEW it, NEW K, NEW ag, Follows(it, K, ag), NEW x \in Account, NEW n \in 0 .. K + 1,
         NEW N, IsFiniteSet(N), Cardinality(N) <= K, NEW g, g \notin N, Reaches(it, x, n, g, N)
  PROVE  n <= K /\ n <= Cardinality(N)
<1>0. K \in Nat /\ n \in Nat
  BY DEF Follows
<1>1. PICK f : f = [j \in 1 .. n |-> it[j - 1][x]]
  OBVIOUS
<1>2. \A j \in 1 .. n : j - 1 \in 0 .. n - 1 /\ j - 1 \in 0 .. n /\ n - (j - 1) \in Nat
  BY <1>0
<1>3. f \in [1 .. n -> N]
  BY <1>1, <1>2 DEF Reaches
<1>4. ASSUME NEW i \in 1 .. n, NEW j \in 1 .. n, f[i] = f[j] PROVE i = j
  <2>1. /\ Reaches(it, it[i - 1][x], n - (i - 1), g, N)
        /\ Reaches(it, it[j - 1][x], n - (j - 1), g, N)
    BY <1>2, OnTheWay
  <2>2. it[i - 1][x] = it[j - 1][x]
    BY <1>1, <1>4
  <2>3. n - (i - 1) = n - (j - 1)
    BY <1>2, <2>1, <2>2, OneEnd
  <2> QED BY <1>0, <2>3
<1>5. f \in Injection(1 .. n, N)
  BY <1>3, <1>4 DEF Injection, IsInjective
<1>6. Cardinality(1 .. n) <= Cardinality(N)
  BY <1>5, FS_Injection
<1>7. Cardinality(1 .. n) = n
  BY <1>0, FS_Interval
<1>8. Cardinality(N) \in Nat
  BY FS_CardinalityType
<1> QED BY <1>0, <1>6, <1>7, <1>8

(* Whom g speaks for, in the words of module ElectionReference.             *)
SpokenFor(g, gs, ag) ==
  {a \in Account : \A S \in SUBSET Account :
                     g \in S /\ (\A d \in Address \ gs : ag[d] \in S => d \in S) => a \in S}

(* N: the delegators that count, with the guardians gs none of them.        *)
AllDelegate(N, K, ag, gs) ==
  /\ N \subseteq Address \ gs /\ IsFiniteSet(N) /\ Cardinality(N) <= K
  /\ \A d \in Address \ gs : ag[d] \in Address => d \in N

(* The least closed set around g are those that get to it.                  *)
LEMMA SpokenForIs ==
  ASSUME NEW it, NEW K, NEW ag, Follows(it, K, ag), NEW N, NEW gs, AllDelegate(N, K, ag, gs),
         NEW g \in Address, g \in gs
  PROVE  SpokenFor(g, gs, ag) = {x \in Account : \E n \in 0 .. K : Reaches(it, x, n, g, N)}
<1> DEFINE W == {x \in Account : \E n \in 0 .. K : Reaches(it, x, n, g, N)}
<1>0. K \in Nat /\ g \notin N /\ g \in Account /\ N \subseteq Account
  BY DEF Follows, AllDelegate, Account
<1>1. g \in W
  <2>1. it[0][g] = g /\ 0 \in 0 .. K
    BY <1>0, OneStep
  <2>2. Reaches(it, g, 0, g, N)
    BY <2>1 DEF Reaches
  <2> QED BY <1>0, <2>1, <2>2
<1>2. W \subseteq Address
  <2> SUFFICES ASSUME NEW x \in Account, NEW n \in 0 .. K, Reaches(it, x, n, g, N) PROVE x \in Address
    OBVIOUS
  <2>1. it[0][x] = x
    BY OneStep
  <2>2. CASE n = 0
    BY <2>1, <2>2 DEF Reaches
  <2>3. CASE n # 0
    <3>1. 0 \in 0 .. n - 1
      BY <1>0, <2>3
    <3> QED BY <2>1, <3>1 DEF Reaches, AllDelegate
  <2> QED BY <2>2, <2>3
<1>3. \A d \in Address \ gs : ag[d] \in W => d \in W
  <2> SUFFICES ASSUME NEW d \in Address \ gs, NEW n \in 0 .. K, Reaches(it, ag[d], n, g, N),
                      ag[d] \in W
               PROVE  d \in W
    OBVIOUS
  <2>1. d \in N /\ d \in Account
    BY <1>2 DEF AllDelegate, Account
  <2>2. Reaches(it, d, n + 1, g, N)
    BY <2>1, OverTheAgent
  <2>3. n + 1 \in 0 .. K + 1
    BY <1>0
  <2>4. n + 1 <= K
    BY <1>0, <2>1, <2>2, <2>3, ShortWays DEF AllDelegate
  <2>5. n + 1 \in 0 .. K
    BY <1>0, <2>4
  <2> QED BY <2>1, <2>2, <2>5
<1>4. SpokenFor(g, gs, ag) \subseteq W
  <2>1. W \in SUBSET Account
    OBVIOUS
  <2> HIDE DEF W
  <2> QED BY <1>1, <1>3, <2>1 DEF SpokenFor
<1>5. W \subseteq SpokenFor(g, gs, ag)
  <2> SUFFICES ASSUME NEW S \in SUBSET Account, g \in S,
                      \A d \in Address \ gs : ag[d] \in S => d \in S
               PROVE  \A n \in 0 .. K : \A x \in Account : Reaches(it, x, n, g, N) => x \in S
    BY DEF SpokenFor
  <2> DEFINE Good == {n \in Nat : n <= K => \A x \in Account : Reaches(it, x, n, g, N) => x \in S}
  <2>1. 0 \in Good
    <3> SUFFICES ASSUME NEW x \in Account, Reaches(it, x, 0, g, N) PROVE x \in S
      OBVIOUS
    <3>1. it[0][x] = x
      BY OneStep
    <3> QED BY <3>1 DEF Reaches
  <2>2. ASSUME NEW n \in Nat, n \in Good PROVE n + 1 \in Good
    <3> SUFFICES ASSUME n + 1 <= K, NEW x \in Account, Reaches(it, x, n + 1, g, N) PROVE x \in S
      OBVIOUS
    <3>1. n \in 0 .. K /\ n <= K
      BY <1>0
    <3>2. x \in N /\ Reaches(it, ag[x], n, g, N)
      BY <3>1, OverTheAgent
    <3>3. ag[x] \in Account
      BY OneStep
    <3>4. ag[x] \in S
      BY <2>2, <3>1, <3>2, <3>3
    <3> QED BY <3>2, <3>4 DEF AllDelegate
  <2>3. \A n \in Nat : n \in Good
    <3> HIDE DEF Good
    <3> QED BY <2>1, <2>2, CountUp
  <2> QED BY <1>0, <2>3
<1> QED BY <1>4, <1>5

(* Two guardians speak for nobody in common, and each for itself.           *)
LEMMA NobodyInCommon ==
  ASSUME NEW it, NEW K, NEW ag, Follows(it, K, ag), NEW N, NEW gs, AllDelegate(N, K, ag, gs),
         NEW g \in Address, g \in gs, NEW h \in Address, h \in gs, g # h
  PROVE  SpokenFor(g, gs, ag) \cap SpokenFor(h, gs, ag) = {}
<1>0. K \in Nat /\ g \notin N /\ h \notin N
  BY DEF Follows, AllDelegate
<1>1. ASSUME NEW x \in SpokenFor(g, gs, ag), x \in SpokenFor(h, gs, ag) PROVE FALSE
  <2>1. PICK n \in 0 .. K : Reaches(it, x, n, g, N)
    BY SpokenForIs
  <2>2. PICK m \in 0 .. K : Reaches(it, x, m, h, N)
    BY <1>1, SpokenForIs
  <2>3. n \in Nat /\ m \in Nat
    BY <1>0
  <2> QED BY <1>0, <2>1, <2>2, <2>3, OneEnd
<1> QED BY <1>1

-----------------------------------------------------------------------------
(* The list the recursion makes                                             *)

(* The list the recursion makes                                             *)
LEMMA DirectIs ==
  ASSUME NEW C \in Seq(Address), IsInjective(C), NEW ag, NEW a \in Account
  PROVE  /\ DelegatorsOf(a, C, ag) \in Seq(Address) /\ IsInjective(DelegatorsOf(a, C, ag))
         /\ \A d : d \in ToSet(DelegatorsOf(a, C, ag)) <=> d \in ToSet(C) /\ ag[d] = a /\ d # a
<1> DEFINE T == {d \in Account : ag[d] = a /\ d # a}
<1>1. DelegatorsOf(a, C, ag) = Among(C, T)
  BY DEF DelegatorsOf
<1>2. ToSet(C) \subseteq Account
  BY DEF ToSet, Account
<1>3. \A d : d \in ToSet(C) \cap T <=> d \in ToSet(C) /\ ag[d] = a /\ d # a
  BY <1>2
<1> HIDE DEF T
<1> QED BY <1>1, <1>3, AmongIs

(* The pieces of which the list of a is made, of the lists f of the others. *)
PieceOf(d, f) == <<d>> \o f[d]

(* What a's direct delegators contribute, each with those below it.         *)
Pieces(a, C, ag, f) ==
  [i \in DOMAIN DelegatorsOf(a, C, ag) |-> PieceOf(DelegatorsOf(a, C, ag)[i], f)]

(* The delegators below each address, as RepresentedBy finds them, by depth. *)
Below(b, C, ag) ==
  /\ b \in [0 .. Len(C) -> [Account -> Seq(Address)]]
  /\ b[0] = [a \in Account |-> <<>>]
  /\ \A k \in 1 .. Len(C) : b[k] = [a \in Account |-> FlattenSeq(Pieces(a, C, ag, b[k - 1]))]

(* One direct delegator's piece.                                            *)
LEMMA PieceIs ==
  ASSUME NEW d \in Address, NEW f \in [Account -> Seq(Address)]
  PROVE  /\ PieceOf(d, f) \in Seq(Address) /\ ToSet(PieceOf(d, f)) = {d} \cup ToSet(f[d])
         /\ IsInjective(f[d]) /\ d \notin ToSet(f[d]) => IsInjective(PieceOf(d, f))
<1>1. f[d] \in Seq(Address) /\ <<d>> \in Seq(Address)
  BY DEF Account
<1>2. ToSet(<<d>>) = {d} /\ IsInjective(<<d>>)
  BY DEF ToSet, IsInjective
<1>3. PICK s \in Seq(Address) : s = <<d>>
  BY <1>1
<1>4. PICK t \in Seq(Address) : t = f[d]
  BY <1>1
<1>5. PieceOf(d, f) = s \o t
  BY <1>3, <1>4 DEF PieceOf
<1>6. /\ s \o t \in Seq(Address) /\ ToSet(s \o t) = ToSet(s) \cup ToSet(t)
      /\ IsInjective(s) /\ IsInjective(t) /\ ToSet(s) \cap ToSet(t) = {} => IsInjective(s \o t)
  BY JoinedLists
<1>7. ToSet(s) = {d} /\ IsInjective(s)
  BY <1>2, <1>3
<1> QED BY <1>4, <1>5, <1>6, <1>7

(* The pieces are lists of the counted.                                     *)
LEMMA PiecesTyped ==
  ASSUME NEW C \in Seq(Address), IsInjective(C), NEW ag, NEW a \in Account,
         NEW f \in [Account -> Seq(Address)]
  PROVE  /\ Pieces(a, C, ag, f) \in Seq(Seq(Address))
         /\ DOMAIN Pieces(a, C, ag, f) = DOMAIN DelegatorsOf(a, C, ag)
         /\ \A i \in DOMAIN DelegatorsOf(a, C, ag) :
              /\ DelegatorsOf(a, C, ag)[i] \in Address
              /\ DelegatorsOf(a, C, ag)[i] \in ToSet(DelegatorsOf(a, C, ag))
              /\ Pieces(a, C, ag, f)[i] = PieceOf(DelegatorsOf(a, C, ag)[i], f)
<1>1. PICK s \in Seq(Address) : s = DelegatorsOf(a, C, ag)
  BY DirectIs
<1>2. DOMAIN s = 1 .. Len(s) /\ Len(s) \in Nat /\ \A i \in DOMAIN s : s[i] \in Address
  OBVIOUS
<1>3. \A i \in DOMAIN s : s[i] \in ToSet(s)
  BY DEF ToSet
<1>4. \A i \in DOMAIN s : PieceOf(s[i], f) \in Seq(Address)
  BY <1>2, PieceIs
<1>5. Pieces(a, C, ag, f) = [i \in 1 .. Len(s) |-> PieceOf(s[i], f)]
  BY <1>1, <1>2 DEF Pieces
<1>6. Pieces(a, C, ag, f) \in Seq(Seq(Address))
  BY <1>2, <1>4, <1>5
<1> QED BY <1>1, <1>2, <1>3, <1>5, <1>6

(* The recursion, level by level.                                           *)
LEMMA RepresentedByBelow ==
  ASSUME NEW C \in Seq(Address), IsInjective(C), NEW ag
  PROVE  \E b : Below(b, C, ag) /\ \A g \in Account : RepresentedBy(g, C, ag) = b[Len(C)][g]
<1> DEFINE n == Len(C)
           V == [Account -> Seq(Address)]
           none == [a \in Account |-> <<>>]
           step == [k \in 1 .. n |-> [f \in V |-> [a \in Account |-> FlattenSeq(Pieces(a, C, ag, f))]]]
           Eq(b) == b = [depth \in 0 .. n |->
                           [a \in Account |-> IF depth = 0 THEN <<>>
                                              ELSE FlattenSeq(Pieces(a, C, ag, b[depth - 1]))]]
           B == CHOOSE b : Eq(b)
<1>0. n \in Nat
  OBVIOUS
<1>1. step \in [1 .. n -> [V -> V]]
  <2>1. \A f \in V, a \in Account : FlattenSeq(Pieces(a, C, ag, f)) \in Seq(Address)
    BY PiecesTyped, FlattenIs
  <2> HIDE DEF n
  <2> QED BY <2>1
<1>2. none \in V
  OBVIOUS
<1>3. PICK b : MadeStepwise(b, n, V, none, step)
  <2> HIDE DEF n, V, none, step
  <2> QED BY <1>0, <1>1, <1>2, StepByStep
<1>4. /\ b \in [0 .. n -> V] /\ b[0] = none
      /\ \A k \in 1 .. n : b[k] = step[k][b[k - 1]]
  <2> HIDE DEF n, V, none, step
  <2> QED BY <1>3 DEF MadeStepwise
<1>5. ASSUME NEW k \in 1 .. n
      PROVE  b[k] = [a \in Account |-> FlattenSeq(Pieces(a, C, ag, b[k - 1]))]
  <2>1. k - 1 \in 0 .. n
    BY <1>0
  <2>2. b[k - 1] \in V
    BY <1>4, <2>1
  <2>3. step[k] = [f \in V |-> [a \in Account |-> FlattenSeq(Pieces(a, C, ag, f))]]
    OBVIOUS
  <2> HIDE DEF step, V
  <2> QED BY <1>4, <2>2, <2>3
<1>6. Eq(b)
  <2>1. ASSUME NEW k \in 0 .. n
        PROVE b[k] = [a \in Account |-> IF k = 0 THEN <<>> ELSE FlattenSeq(Pieces(a, C, ag, b[k - 1]))]
    <3>1. k # 0 => k \in 1 .. n
      BY <1>0
    <3> QED BY <1>4, <1>5, <3>1
  <2>2. b = [k \in 0 .. n |-> b[k]]
    BY <1>4
  <2> HIDE DEF n
  <2> QED BY <2>1, <2>2
<1>7. Eq(B)
  <2> HIDE DEF Eq
  <2> QED BY <1>6
<1>8. \A g \in Account : RepresentedBy(g, C, ag) = B[n][g]
  BY DEF RepresentedBy, Pieces, PieceOf
<1> HIDE DEF B
<1>9. /\ B[0] = none /\ B = [k \in 0 .. n |-> B[k]]
      /\ \A k \in 1 .. n : B[k] = [a \in Account |-> FlattenSeq(Pieces(a, C, ag, B[k - 1]))]
  <2>1. 0 \in 0 .. n /\ \A k \in 1 .. n : k \in 0 .. n /\ k # 0
    BY <1>0
  <2>2. ASSUME NEW k \in 0 .. n
        PROVE B[k] = [a \in Account |-> IF k = 0 THEN <<>> ELSE FlattenSeq(Pieces(a, C, ag, B[k - 1]))]
    BY <1>7
  <2>3. B = [k \in 0 .. n |-> B[k]]
    BY <1>7
  <2> HIDE DEF n
  <2> QED BY <2>1, <2>2, <2>3
<1>10. \A k \in 0 .. n : B[k] \in V
  <2> DEFINE Good == {k \in Nat : k <= n => B[k] \in V}
  <2>1. 0 \in Good
    BY <1>2, <1>9
  <2>2. ASSUME NEW k \in Nat, k \in Good PROVE k + 1 \in Good
    <3> SUFFICES ASSUME k + 1 <= n PROVE B[k + 1] \in V
      OBVIOUS
    <3>1. k + 1 \in 1 .. n /\ k + 1 - 1 = k /\ k <= n
      BY <1>0
    <3>2. B[k] \in V
      BY <2>2, <3>1
    <3>3. \A a \in Account : FlattenSeq(Pieces(a, C, ag, B[k])) \in Seq(Address)
      BY <3>2, PiecesTyped, FlattenIs
    <3>4. B[k + 1] = [a \in Account |-> FlattenSeq(Pieces(a, C, ag, B[k]))]
      <4>1. B[k + 1] = [a \in Account |-> FlattenSeq(Pieces(a, C, ag, B[k + 1 - 1]))]
        <5>1. \A j \in 1 .. n : B[j] = [a \in Account |-> FlattenSeq(Pieces(a, C, ag, B[j - 1]))]
          BY <1>9
        <5>2. k + 1 \in 1 .. n
          BY <3>1
        <5> HIDE DEF n
        <5> QED BY ONLY <5>1, <5>2
      <4> QED BY <3>1, <4>1
    <3> QED BY <3>3, <3>4
  <2>3. \A k \in Nat : k \in Good
    <3> HIDE DEF Good
    <3> QED BY <2>1, <2>2, CountUp
  <2> QED BY <1>0, <2>3
<1>11. Below(B, C, ag)
  <2>1. B \in [0 .. n -> V]
    <3> HIDE DEF V, n
    <3> QED BY <1>9, <1>10
  <2> QED BY <1>9, <2>1 DEF Below
<1> QED BY <1>8, <1>11

(* Who gets to g over a, that is m steps from g, in `from' to k steps.      *)
Over(it, a, m, from, k, g, N) ==
  {x \in Account : \E n \in from .. k : Reaches(it, x, m + n, g, N) /\ it[n][x] = a}

(* The list s holds them, each once.                                        *)
Holds(s, it, a, m, k, g, N) == IsInjective(s) /\ ToSet(s) = Over(it, a, m, 1, k, g, N)

(* All lists f of those m steps from g do.                                  *)
AllHold(f, it, m, k, g, N) ==
  \A d \in Account : Reaches(it, d, m, g, N) => Holds(f[d], it, d, m, k, g, N)

(* On the way to a guardian nobody delegates to itself.                     *)
LEMMA DirectOnes ==
  ASSUME NEW it, NEW K, NEW ag, Follows(it, K, ag), NEW C \in Seq(Address), IsInjective(C),
         NEW a \in Account, NEW m \in Nat, m + 1 <= K, NEW g, g \notin ToSet(C),
         Reaches(it, a, m, g, ToSet(C))
  PROVE  \A d : /\ d \in ToSet(DelegatorsOf(a, C, ag)) <=> d \in ToSet(C) /\ ag[d] = a
                /\ d \in ToSet(C) /\ ag[d] = a => Reaches(it, d, m + 1, g, ToSet(C))
<1> DEFINE N == ToSet(C)
<1>1. K \in Nat /\ m \in 0 .. K /\ m + 1 \in Nat
  BY DEF Follows
<1>2. N \subseteq Account
  BY DEF ToSet, Account
<1>3. ASSUME NEW d, d \in N, ag[d] = a PROVE Reaches(it, d, m + 1, g, N)
  <2>1. d \in Account /\ Reaches(it, a, m, g, N)
    BY <1>2, <1>3
  <2> HIDE DEF N
  <2>2. Reaches(it, ag[d], m, g, N)
    BY <1>3, <2>1
  <2>3. Reaches(it, d, m + 1, g, N) <=> d \in N /\ Reaches(it, ag[d], m, g, N)
    BY <1>1, <2>1, OverTheAgent
  <2> QED BY <1>3, <2>2, <2>3
<1>4. ASSUME NEW d, d \in N, ag[d] = a PROVE d # a
  <2>1. SUFFICES ASSUME d = a PROVE FALSE
    OBVIOUS
  <2>2. Reaches(it, a, m + 1, g, N)
    BY <1>3, <1>4, <2>1
  <2>3. m = m + 1
    BY <1>1, <2>2, OneEnd
  <2> QED BY <2>3
<1> HIDE DEF N
<1>5. \A d : d \in ToSet(DelegatorsOf(a, C, ag)) <=> d \in N /\ ag[d] = a /\ d # a
  BY DirectIs DEF N
<1> QED BY <1>3, <1>4, <1>5 DEF N

(* One level deeper: when the lists f of those one step further hold whom   *)
(* they should, so does the list that the recursion makes for a.            *)
LEMMA OneLevel ==
  ASSUME NEW it, NEW K, NEW ag, Follows(it, K, ag), NEW C \in Seq(Address), IsInjective(C),
         NEW a \in Account, NEW m \in Nat, NEW k \in Nat, m + k + 1 <= K,
         NEW g, g \notin ToSet(C), Reaches(it, a, m, g, ToSet(C)),
         NEW f \in [Account -> Seq(Address)],
         AllHold(f, it, m + 1, k, g, ToSet(C))
  PROVE  Holds(FlattenSeq(Pieces(a, C, ag, f)), it, a, m, k + 1, g, ToSet(C))
<1> DEFINE N == ToSet(C)
           D == DelegatorsOf(a, C, ag)
           q == Pieces(a, C, ag, f)
<1>1. K \in Nat /\ m + 1 <= K /\ m + 1 \in Nat
  BY DEF Follows
<1>2. N \subseteq Address /\ N \subseteq Account
  BY DEF ToSet, Account
<1>3. \A d : /\ d \in ToSet(D) <=> d \in N /\ ag[d] = a
             /\ d \in N /\ ag[d] = a => Reaches(it, d, m + 1, g, N)
  BY <1>1, DirectOnes
<1>4. IsInjective(D) /\ DOMAIN q = DOMAIN D /\ q \in Seq(Seq(Address))
  BY DirectIs, PiecesTyped
<1>5. \A i \in DOMAIN D : D[i] \in Address /\ D[i] \in ToSet(D) /\ q[i] = PieceOf(D[i], f)
  BY PiecesTyped
<1> HIDE DEF D, q
<1>6. ASSUME NEW d \in ToSet(D)
      PROVE  IsInjective(PieceOf(d, f)) /\ ToSet(PieceOf(d, f)) = Over(it, d, m + 1, 0, k, g, N)
  <2>1. d \in N /\ d \in Address /\ d \in Account /\ Reaches(it, d, m + 1, g, N)
    BY <1>2, <1>3
  <2>2. IsInjective(f[d]) /\ ToSet(f[d]) = Over(it, d, m + 1, 1, k, g, N)
    BY <2>1 DEF AllHold, Holds
  <2>3. it[0][d] = d
    BY <2>1, OneStep
  <2>4. d \notin ToSet(f[d])
    <3> SUFFICES ASSUME NEW n \in 1 .. k, Reaches(it, d, m + 1 + n, g, N) PROVE FALSE
      BY <2>2 DEF Over
    <3>1. n \in Nat /\ m + 1 + n \in Nat /\ m + 1 + n # m + 1
      BY <1>1
    <3> HIDE DEF N
    <3>2. g \notin N
      BY DEF N
    <3> QED BY <1>1, <2>1, <3>1, <3>2, OneEnd
  <2>5. IsInjective(PieceOf(d, f)) /\ ToSet(PieceOf(d, f)) = {d} \cup ToSet(f[d])
    BY <2>1, <2>2, <2>4, PieceIs
  <2>6. {d} \cup Over(it, d, m + 1, 1, k, g, N) = Over(it, d, m + 1, 0, k, g, N)
    <3>1. 0 \in 0 .. k /\ m + 1 + 0 = m + 1 /\ \A n : n \in 0 .. k <=> n = 0 \/ n \in 1 .. k
      BY <1>1
    <3>2. \A x \in Account : it[0][x] = x
      BY OneStep
    <3> HIDE DEF N
    <3>3. ASSUME NEW x \in Over(it, d, m + 1, 0, k, g, N) PROVE x \in {d} \cup Over(it, d, m + 1, 1, k, g, N)
      <4>1. PICK n \in 0 .. k : Reaches(it, x, m + 1 + n, g, N) /\ it[n][x] = d /\ x \in Account
        BY DEF Over
      <4>2. CASE n = 0
        BY <3>2, <4>1, <4>2
      <4>3. CASE n \in 1 .. k
        BY <4>1, <4>3 DEF Over
      <4> QED BY <3>1, <4>2, <4>3
    <3>4. ASSUME NEW x \in Over(it, d, m + 1, 1, k, g, N) PROVE x \in Over(it, d, m + 1, 0, k, g, N)
      BY <3>1 DEF Over
    <3>5. d \in Over(it, d, m + 1, 0, k, g, N)
      BY <2>1, <2>3, <3>1 DEF Over
    <3> QED BY <3>3, <3>4, <3>5
  <2> QED BY <2>2, <2>5, <2>6
<1>7. ASSUME NEW d, NEW e, d # e
      PROVE  Over(it, d, m + 1, 0, k, g, N) \cap Over(it, e, m + 1, 0, k, g, N) = {}
  <2> SUFFICES ASSUME NEW x \in Account, NEW n \in 0 .. k, NEW j \in 0 .. k,
                      Reaches(it, x, m + 1 + n, g, N), Reaches(it, x, m + 1 + j, g, N),
                      it[n][x] = d, it[j][x] = e
               PROVE  FALSE
    BY DEF Over
  <2>1. n \in Nat /\ j \in Nat /\ m + 1 + n \in Nat /\ m + 1 + j \in Nat
    BY <1>1
  <2> HIDE DEF N
  <2>2. g \notin N
    BY DEF N
  <2>3. m + 1 + n = m + 1 + j
    BY <2>1, <2>2, OneEnd
  <2>4. n = j
    BY <2>1, <2>3
  <2> QED BY <1>7, <2>4
<1>8. /\ \A i \in DOMAIN q : IsInjective(q[i])
      /\ \A i, j \in DOMAIN q : i # j => ToSet(q[i]) \cap ToSet(q[j]) = {}
  <2>1. \A i \in DOMAIN q : IsInjective(q[i]) /\ ToSet(q[i]) = Over(it, D[i], m + 1, 0, k, g, N)
    BY <1>4, <1>5, <1>6
  <2>2. \A i, j \in DOMAIN q : i # j => D[i] # D[j]
    BY <1>4 DEF IsInjective
  <2> HIDE DEF N
  <2> QED BY <1>7, <2>1, <2>2
<1>9. /\ IsInjective(FlattenSeq(q))
      /\ \A x : x \in ToSet(FlattenSeq(q)) <=> \E i \in DOMAIN q : x \in ToSet(q[i])
  BY <1>4, <1>8, FlattenIs
<1>10. \A x : (\E i \in DOMAIN q : x \in ToSet(q[i]))
               <=> \E d \in ToSet(D) : x \in Over(it, d, m + 1, 0, k, g, N)
  <2>1. \A d \in ToSet(D) : \E i \in DOMAIN D : D[i] = d
    BY DEF ToSet
  <2> HIDE DEF N
  <2> QED BY <1>4, <1>5, <1>6, <2>1
<1>11. ASSUME NEW x, NEW d \in ToSet(D), x \in Over(it, d, m + 1, 0, k, g, N)
       PROVE  x \in Over(it, a, m, 1, k + 1, g, N)
  <2>1. PICK n \in 0 .. k : Reaches(it, x, m + 1 + n, g, N) /\ it[n][x] = d /\ x \in Account
    BY <1>11 DEF Over
  <2>2. n + 1 \in 1 .. k + 1 /\ m + 1 + n = m + (n + 1) /\ n \in 0 .. K
    BY <1>1
  <2>3. it[n + 1][x] = ag[it[n][x]]
    <3>1. PICK j \in 0 .. K : j = n
      BY <2>2
    <3>2. it[j + 1][x] = ag[it[j][x]]
      BY <2>1, TheNextAgent
    <3> QED BY <3>1, <3>2
  <2>4. it[n + 1][x] = a
    BY <1>3, <2>1, <2>3
  <2>5. Reaches(it, x, m + (n + 1), g, N)
    BY <2>1, <2>2
  <2>6. \E j \in 1 .. k + 1 : Reaches(it, x, m + j, g, N) /\ it[j][x] = a
    BY <2>2, <2>4, <2>5
  <2> HIDE DEF N
  <2> QED BY <2>1, <2>6 DEF Over
<1>12. ASSUME NEW x \in Over(it, a, m, 1, k + 1, g, N)
       PROVE  \E d \in ToSet(D) : x \in Over(it, d, m + 1, 0, k, g, N)
  <2>1. PICK n \in 1 .. k + 1 : Reaches(it, x, m + n, g, N) /\ it[n][x] = a /\ x \in Account
    BY DEF Over
  <2>2. n - 1 \in 0 .. k /\ m + 1 + (n - 1) = m + n /\ n - 1 \in 0 .. K /\ n - 1 + 1 = n
        /\ n - 1 \in 0 .. m + n - 1
    BY <1>1
  <2>3. it[n - 1 + 1][x] = ag[it[n - 1][x]]
    <3>1. PICK j \in 0 .. K : j = n - 1
      BY <2>2
    <3>2. it[j + 1][x] = ag[it[j][x]]
      BY <2>1, TheNextAgent
    <3> QED BY <3>1, <3>2
  <2>4. it[n - 1][x] \in N
    <3>1. \A i \in 0 .. m + n - 1 : it[i][x] \in N
      BY <2>1 DEF Reaches
    <3>2. n - 1 \in 0 .. m + n - 1
      BY <2>2
    <3> QED BY ONLY <3>1, <3>2
  <2>5. it[n - 1][x] \in ToSet(D)
    BY <1>3, <2>1, <2>2, <2>3, <2>4
  <2> HIDE DEF N
  <2>6. Reaches(it, x, m + 1 + (n - 1), g, N)
    BY <2>1, <2>2
  <2>7. PICK j \in 0 .. k : j = n - 1
    BY <2>2
  <2>8. Reaches(it, x, m + 1 + j, g, N) /\ it[j][x] = it[n - 1][x]
    BY <2>6, <2>7
  <2>9. x \in Over(it, it[n - 1][x], m + 1, 0, k, g, N)
    BY <2>1, <2>8 DEF Over
  <2> QED BY <2>5, <2>9
<1>13. ToSet(FlattenSeq(q)) = Over(it, a, m, 1, k + 1, g, N)
  <2> HIDE DEF N
  <2> QED BY <1>9, <1>10, <1>11, <1>12
<1> QED BY <1>9, <1>13 DEF q, Holds

(* The recursion from a guardian finds those it speaks for, each once.      *)
LEMMA RepresentedIs ==
  ASSUME NEW C \in Seq(Address), IsInjective(C), NEW ag \in [Account -> Account], NEW gs,
         AllDelegate(ToSet(C), Len(C), ag, gs), NEW g \in Address, g \in gs
  PROVE  /\ RepresentedBy(g, C, ag) \in Seq(Address) /\ IsInjective(RepresentedBy(g, C, ag))
         /\ ToSet(RepresentedBy(g, C, ag)) = SpokenFor(g, gs, ag) \ {g}
         /\ g \in SpokenFor(g, gs, ag)
<1> DEFINE N == ToSet(C)
           K == Len(C)
<1>0. /\ K \in Nat /\ g \in Account /\ N \subseteq Address /\ N \subseteq Account
      /\ g \notin N
  BY DEF ToSet, Account, AllDelegate
<1>1. PICK it : Follows(it, K, ag)
  BY ChainsExist
<1>2. PICK b : Below(b, C, ag) /\ \A a \in Account : RepresentedBy(a, C, ag) = b[K][a]
  BY RepresentedByBelow
<1>3. /\ b \in [0 .. K -> [Account -> Seq(Address)]]
      /\ b[0] = [a \in Account |-> <<>>]
  BY <1>2 DEF Below
<1>4. ASSUME NEW k \in 1 .. K, NEW a \in Account
      PROVE  b[k][a] = FlattenSeq(Pieces(a, C, ag, b[k - 1]))
  <2>1. b[k] = [x \in Account |-> FlattenSeq(Pieces(x, C, ag, b[k - 1]))]
    BY <1>2 DEF Below
  <2> QED BY ONLY <2>1, a \in Account
<1> DEFINE Fine(k, m, a) == Holds(b[k][a], it, a, m, k, g, N)
           Good == {k \in Nat : k <= K =>
                      \A m \in Nat, a \in Account :
                         m + k <= K /\ Reaches(it, a, m, g, N) => Fine(k, m, a)}
<1>5. 0 \in Good
  <2> SUFFICES ASSUME NEW m \in Nat, NEW a \in Account PROVE Fine(0, m, a)
    OBVIOUS
  <2>1. b[0][a] = <<>>
    BY <1>3
  <2>2. 1 .. 0 = {}
    OBVIOUS
  <2>3. Over(it, a, m, 1, 0, g, N) = {}
    BY <2>2 DEF Over
  <2> QED BY <2>1, <2>3, EmptyList DEF Holds
<1>6. ASSUME NEW k \in Nat, k \in Good PROVE k + 1 \in Good
  <2> SUFFICES ASSUME k + 1 <= K, NEW m \in Nat, NEW a \in Account, m + (k + 1) <= K,
                      Reaches(it, a, m, g, N)
               PROVE  Fine(k + 1, m, a)
    OBVIOUS
  <2>1. k <= K /\ k \in 0 .. K /\ k + 1 \in 1 .. K /\ k + 1 - 1 = k /\ m + 1 + k <= K
        /\ m + 1 \in Nat /\ m + k + 1 <= K
    BY <1>0
  <2>2. b[k] \in [Account -> Seq(Address)]
    BY <1>3, <2>1
  <2>3. b[k + 1][a] = FlattenSeq(Pieces(a, C, ag, b[k]))
    <3>1. b[k + 1][a] = FlattenSeq(Pieces(a, C, ag, b[k + 1 - 1]))
      BY <1>4, <2>1
    <3> QED BY <2>1, <3>1
  <2>4. \A d \in Account : Reaches(it, d, m + 1, g, N) => Fine(k, m + 1, d)
    BY <1>6, <2>1
  <2>5. PICK f \in [Account -> Seq(Address)] : f = b[k]
    BY <2>2
  <2>6. AllHold(f, it, m + 1, k, g, ToSet(C))
    BY <2>4, <2>5 DEF AllHold
  <2>7. g \notin ToSet(C) /\ Reaches(it, a, m, g, ToSet(C)) /\ m + k + 1 <= K
    BY <1>0, <2>1
  <2>8. Holds(FlattenSeq(Pieces(a, C, ag, f)), it, a, m, k + 1, g, ToSet(C))
    <3> HIDE DEF K, N, Good
    <3> QED BY <1>1, <2>6, <2>7, OneLevel
  <2> QED BY <2>3, <2>5, <2>8
<1>7. \A k \in Nat : k \in Good
  <2> HIDE DEF Good
  <2> QED BY <1>5, <1>6, CountUp
<1>8. it[0][g] = g /\ Reaches(it, g, 0, g, N)
  BY <1>0, <1>1, OneStep DEF Reaches
<1>9. Fine(K, 0, g)
  BY <1>0, <1>7, <1>8
<1> HIDE DEF N, K
<1>10. SpokenFor(g, gs, ag) = {x \in Account : \E n \in 0 .. K : Reaches(it, x, n, g, N)}
  <2>1. AllDelegate(N, K, ag, gs)
    BY DEF N, K
  <2> QED BY <1>1, <2>1, SpokenForIs
<1>11. g \in SpokenFor(g, gs, ag)
  BY <1>0, <1>8, <1>10
<1>12. \A n : n \in 0 .. K <=> n = 0 \/ n \in 1 .. K
  BY <1>0
<1>13. ASSUME NEW x \in SpokenFor(g, gs, ag), x # g PROVE x \in Over(it, g, 0, 1, K, g, N)
  <2>1. PICK n \in 0 .. K : Reaches(it, x, n, g, N) /\ x \in Account
    BY <1>10
  <2>2. it[0][x] = x
    BY <1>1, <2>1, OneStep
  <2>3. n # 0
    BY <1>13, <2>1, <2>2 DEF Reaches
  <2>4. n \in 1 .. K /\ 0 + n = n
    BY <1>0, <2>3
  <2>5. it[n][x] = g
    BY <2>1 DEF Reaches
  <2> QED BY <2>1, <2>4, <2>5 DEF Over
<1>14. ASSUME NEW x \in Over(it, g, 0, 1, K, g, N) PROVE x \in SpokenFor(g, gs, ag) /\ x # g
  <2>1. PICK n \in 1 .. K : Reaches(it, x, 0 + n, g, N) /\ x \in Account
    BY DEF Over
  <2>2. n \in 0 .. K /\ 0 + n = n /\ 0 \in 0 .. n - 1
    BY <1>0
  <2>3. Reaches(it, x, n, g, N)
    BY <2>1, <2>2
  <2>4. it[0][x] = x
    BY <1>1, <2>1, OneStep
  <2>5. x \in N
    BY <2>2, <2>3, <2>4 DEF Reaches
  <2> QED BY <1>0, <1>10, <2>1, <2>2, <2>3, <2>5
<1>15. RepresentedBy(g, C, ag) = b[K][g] /\ b[K][g] \in Seq(Address)
  BY <1>0, <1>2, <1>3 DEF K
<1> QED BY <1>9, <1>11, <1>13, <1>14, <1>15 DEF Holds

-----------------------------------------------------------------------------
(* The tally of an election                                                 *)

(* All the guardians in R speak for.                                        *)
Electors(R, gs, ag) == UNION {SpokenFor(g, gs, ag) : g \in R}

(* The data of an election: the lists hold addresses, the guardians' nobody *)
(* twice, and whoever delegates is listed.                                  *)
DataOK(G, data, listed, ag, ds) ==
  /\ G \in Seq(Address) /\ IsInjective(G)
  /\ listed \in Seq(Address) /\ \A d \in Address : ag[d] \in Address => d \in ToSet(listed)
  /\ ag \in [Account -> Account]
  /\ \A a \in Account : data[a].stake \in Nat
  /\ ds \in [Account -> Nat]

(* The guardians that cast a vote.                                          *)
CastOf(G, data) == {g \in ToSet(G) : data[g].voteAt # 0}

(* A guardian speaks for itself and for addresses that are no guardians.    *)
LEMMA OthersAreNoGuardians ==
  ASSUME NEW gs, NEW ag, NEW g \in Address, g \in gs
  PROVE  /\ SpokenFor(g, gs, ag) \subseteq Address
         /\ \A x \in SpokenFor(g, gs, ag) : x = g \/ x \notin gs
<1> DEFINE S == {g} \cup (Address \ gs)
<1>1. S \in SUBSET Account /\ g \in S
  BY DEF Account
<1>2. \A d \in Address \ gs : ag[d] \in S => d \in S
  OBVIOUS
<1>3. SpokenFor(g, gs, ag) \subseteq S
  <2> HIDE DEF S
  <2> QED BY <1>1, <1>2 DEF SpokenFor
<1> QED BY <1>3

(* Those counted are the ones that delegate.                                *)
LEMMA CountedDelegate ==
  ASSUME NEW G, NEW data, NEW listed, NEW ag, NEW ds, DataOK(G, data, listed, ag, ds),
         NEW C, C = CountedDelegators(listed, G)
  PROVE  /\ C \in Seq(Address) /\ IsInjective(C) /\ ag \in [Account -> Account]
         /\ AllDelegate(ToSet(C), Len(C), ag, ToSet(G))
<1>1. G \in Seq(Address) /\ listed \in Seq(Address) /\ ag \in [Account -> Account]
  BY DEF DataOK
<1>2. C \in Seq(Address) /\ IsInjective(C) /\ ToSet(C) = ToSet(listed) \ ToSet(G)
  <2>1. /\ CountedDelegators(listed, G) \in Seq(Address)
        /\ ToSet(CountedDelegators(listed, G)) = ToSet(listed) \ ToSet(G)
        /\ IsInjective(CountedDelegators(listed, G))
    BY <1>1, CountedIs
  <2> QED BY <2>1
<1>3. Cardinality(ToSet(C)) = Len(C) /\ IsFiniteSet(ToSet(C)) /\ Len(C) \in Nat
  <2>1. C \in Seq(Address) /\ IsInjective(C)
    BY <1>2
  <2>2. Cardinality(ToSet(C)) = Len(C) /\ IsFiniteSet(ToSet(C))
    BY ONLY <2>1, LengthIsCardinality
  <2> QED BY <2>1, <2>2
<1>4. ToSet(C) \subseteq Address
  BY <1>2 DEF ToSet
<1>5. \A d \in Address \ ToSet(G) : ag[d] \in Address => d \in ToSet(C)
  BY <1>2 DEF DataOK
<1> QED BY <1>1, <1>2, <1>3, <1>4, <1>5 DEF AllDelegate

(* What the list of the recursion is worth, in one lemma.                   *)
LEMMA BehindIs ==
  ASSUME NEW G, NEW data, NEW listed, NEW ag, NEW ds, DataOK(G, data, listed, ag, ds),
         NEW C, C = CountedDelegators(listed, G), NEW g \in ToSet(G)
  PROVE  /\ g \in Address /\ RepresentedBy(g, C, ag) \in Seq(Address)
         /\ IsInjective(RepresentedBy(g, C, ag))
         /\ ToSet(RepresentedBy(g, C, ag)) = SpokenFor(g, ToSet(G), ag) \ {g}
         /\ g \in SpokenFor(g, ToSet(G), ag) /\ IsFiniteSet(SpokenFor(g, ToSet(G), ag))
<1>1. g \in Address
  BY DEF DataOK, ToSet
<1>2. /\ C \in Seq(Address) /\ IsInjective(C) /\ ag \in [Account -> Account]
      /\ AllDelegate(ToSet(C), Len(C), ag, ToSet(G))
  BY CountedDelegate
<1>3. /\ RepresentedBy(g, C, ag) \in Seq(Address)
      /\ IsInjective(RepresentedBy(g, C, ag))
      /\ ToSet(RepresentedBy(g, C, ag)) = SpokenFor(g, ToSet(G), ag) \ {g}
      /\ g \in SpokenFor(g, ToSet(G), ag)
  BY <1>1, <1>2, RepresentedIs
<1>4. IsFiniteSet(ToSet(RepresentedBy(g, C, ag)))
  BY <1>3, ListIsFinite
<1>5. SpokenFor(g, ToSet(G), ag) = ToSet(RepresentedBy(g, C, ag)) \cup {g}
  BY <1>3
<1>6. IsFiniteSet(SpokenFor(g, ToSet(G), ag))
  BY <1>4, <1>5, FS_AddElement
<1> QED BY <1>1, <1>3, <1>6

(* Two guardians speak for nobody in common.                                *)
LEMMA Disjoint ==
  ASSUME NEW G, NEW data, NEW listed, NEW ag, NEW ds, DataOK(G, data, listed, ag, ds),
         NEW g \in ToSet(G), NEW h \in ToSet(G), g # h
  PROVE  SpokenFor(g, ToSet(G), ag) \cap SpokenFor(h, ToSet(G), ag) = {}
<1>1. g \in Address /\ h \in Address
  BY DEF DataOK, ToSet
<1>2. PICK C : C = CountedDelegators(listed, G)
  OBVIOUS
<1>3. /\ C \in Seq(Address) /\ ag \in [Account -> Account] /\ Len(C) \in Nat
      /\ AllDelegate(ToSet(C), Len(C), ag, ToSet(G))
  BY <1>2, CountedDelegate
<1>4. PICK it : Follows(it, Len(C), ag)
  BY <1>3, ChainsExist
<1> QED BY <1>1, <1>3, <1>4, NobodyInCommon

(* The stakes of the parts add up.                                          *)
LEMMA PartsAddUp ==
  ASSUME NEW G, NEW data, NEW listed, NEW ag, NEW ds, DataOK(G, data, listed, ag, ds),
         NEW R \in SUBSET ToSet(G), NEW stake \in [Account -> Nat],
         NEW weight, \A g \in R : weight[g] = SumFunctionOnSet(stake, SpokenFor(g, ToSet(G), ag))
  PROVE  /\ SumFunctionOnSet(weight, R) = SumFunctionOnSet(stake, Electors(R, ToSet(G), ag))
         /\ IsFiniteSet(Electors(R, ToSet(G), ag)) /\ Electors(R, ToSet(G), ag) \subseteq Address
         /\ SumFunctionOnSet(weight, R) \in Nat
<1> DEFINE P(g) == SpokenFor(g, ToSet(G), ag)
           parts == [g \in R |-> P(g)]
           S == Electors(R, ToSet(G), ag)
           p == [x \in S |-> CHOOSE g \in R : x \in P(g)]
<1>1. IsFiniteSet(R)
  <2>1. G \in Seq(Address)
    BY DEF DataOK
  <2>2. IsFiniteSet(ToSet(G))
    BY <2>1, ListIsFinite
  <2> QED BY <2>2, FS_Subset
<1>2. \A g \in R : IsFiniteSet(P(g)) /\ P(g) \subseteq Address
  BY BehindIs, OthersAreNoGuardians
<1>3. \A x : x \in S <=> \E g \in R : x \in P(g)
  BY DEF Electors
<1>4. \A g, h \in R : g # h => P(g) \cap P(h) = {}
  BY Disjoint
<1> HIDE DEF P, S
<1>5. IsFiniteSet(S)
  <2>1. S \subseteq Address
    BY <1>2, <1>3
  <2> QED BY <2>1, AddressAssumption, FS_Subset
<1>6. \A x \in S : p[x] \in R /\ x \in P(p[x])
  BY <1>3
<1>7. \A r \in R : parts[r] \subseteq S /\ \A x \in S : x \in parts[r] <=> p[x] = r
  BY <1>3, <1>4, <1>6
<1>8. S \subseteq Address /\ \A x \in S : stake[x] \in Int
  BY <1>2, <1>3 DEF Account
<1>9. \A r \in R : weight[r] = SumFunctionOnSet(stake, parts[r])
  BY DEF P
<1>10. SumFunctionOnSet(weight, R) = SumFunctionOnSet(stake, S)
  <2> HIDE DEF p, parts
  <2>1. \A x \in S : p[x] \in R
    BY <1>6
  <2> QED BY <1>1, <1>5, <1>7, <1>8, <1>9, <2>1, SumOfParts
<1>11. SumFunctionOnSet(stake, S) \in Nat
  <2>1. \A x \in S : stake[x] \in Nat
    BY <1>8 DEF Account
  <2> QED BY <1>5, <2>1, SumType
<1> QED BY <1>5, <1>8, <1>10, <1>11 DEF S

(* The parts of which a tally is made.                                      *)
CastList(G, data) == CastingGuardians(G, [g \in Account |-> data[g].voteAt])

(* The parts of Tally, named.                                               *)
BehindOf(G, data, listed, ag) ==
  [g \in ToSet(CastList(G, data)) |-> RepresentedBy(g, CountedDelegators(listed, G), ag)]

WeightOf(G, data, listed, ag, ds) ==
  [g \in ToSet(CastList(G, data)) |->
     data[g].stake + SumOver(BehindOf(G, data, listed, ag)[g], ds)]

StakesOf(G, data, ds) ==
  [a \in Account |-> IF a \in ToSet(CastList(G, data)) THEN data[a].stake ELSE ds[a]]

AgainstList(G, data, v) == Among(CastList(G, data), {g \in Account : v \in data[g].candidates})

ParticipantList(casting, behind) ==
  FlattenSeq([i \in DOMAIN casting |-> PieceOf(casting[i], behind)])

(* Tally is the record of its named parts.                                  *)
LEMMA TallyParts ==
  ASSUME NEW G, NEW data, NEW listed, NEW ag, NEW ds, NEW t, t = Tally(G, data, listed, ag, ds)
  PROVE  /\ t.weight = WeightOf(G, data, listed, ag, ds)
         /\ t.total = SumOver(CastList(G, data), WeightOf(G, data, listed, ag, ds))
         /\ t.named = UNION {data[g].candidates : g \in ToSet(CastList(G, data))}
         /\ t.against = [v \in Account |-> SumOver(AgainstList(G, data, v),
                                                    WeightOf(G, data, listed, ag, ds))]
         /\ t.participants = ParticipantList(CastList(G, data), BehindOf(G, data, listed, ag))
         /\ t.stake = StakesOf(G, data, ds)
BY DEF Tally, CastList, BehindOf, WeightOf, AgainstList, ParticipantList, PieceOf, StakesOf

(* The guardians with a valid vote.                                         *)
LEMMA CastListIs ==
  ASSUME NEW G \in Seq(Address), IsInjective(G), NEW data
  PROVE  /\ CastList(G, data) \in Seq(Address) /\ IsInjective(CastList(G, data))
         /\ ToSet(CastList(G, data)) = CastOf(G, data)
         /\ CastOf(G, data) \in SUBSET ToSet(G)
         /\ ToSet(G) \subseteq Address
<1> DEFINE voteAt == [g \in Account |-> data[g].voteAt]
           T == {g \in Account : voteAt[g] # 0}
<1>1. CastList(G, data) = Among(G, T)
  BY DEF CastList, CastingGuardians
<1>2. ToSet(G) \subseteq Address /\ ToSet(G) \subseteq Account
  BY DEF ToSet, Account
<1>3. ToSet(G) \cap T = CastOf(G, data)
  BY <1>2 DEF CastOf
<1>4. CastOf(G, data) \in SUBSET ToSet(G)
  BY DEF CastOf
<1> HIDE DEF T
<1>5. /\ Among(G, T) \in Seq(Address)
      /\ ToSet(Among(G, T)) = ToSet(G) \cap T
      /\ IsInjective(G) => IsInjective(Among(G, T))
  BY AmongIs
<1> QED BY <1>1, <1>2, <1>3, <1>4, <1>5

(* Who votes v out.                                                         *)
LEMMA AgainstListIs ==
  ASSUME NEW G \in Seq(Address), IsInjective(G), NEW data, NEW v
  PROVE  /\ AgainstList(G, data, v) \in Seq(Address) /\ IsInjective(AgainstList(G, data, v))
         /\ ToSet(AgainstList(G, data, v)) = {g \in CastOf(G, data) : v \in data[g].candidates}
<1> DEFINE T == {g \in Account : v \in data[g].candidates}
           L == CastList(G, data)
<1>1. /\ L \in Seq(Address) /\ IsInjective(L) /\ ToSet(L) = CastOf(G, data)
      /\ CastOf(G, data) \subseteq Account
  BY CastListIs DEF Account
<1>2. CastOf(G, data) \cap T = {g \in CastOf(G, data) : v \in data[g].candidates}
  BY <1>1
<1>3. AgainstList(G, data, v) = Among(L, T)
  BY DEF AgainstList
<1> HIDE DEF T, L
<1>4. /\ Among(L, T) \in Seq(Address)
      /\ ToSet(Among(L, T)) = ToSet(L) \cap T
      /\ IsInjective(L) => IsInjective(Among(L, T))
  BY <1>1, AmongIs
<1> QED BY <1>1, <1>2, <1>3, <1>4

(* Each guardian that voted weighs what those it speaks for weigh.          *)
LEMMA WeightIs ==
  ASSUME NEW G, NEW data, NEW listed, NEW ag, NEW ds, DataOK(G, data, listed, ag, ds),
         NEW stake, stake = StakesOf(G, data, ds)
  PROVE  /\ stake \in [Account -> Nat]
         /\ \A g \in CastOf(G, data) :
              WeightOf(G, data, listed, ag, ds)[g] =
                SumFunctionOnSet(stake, SpokenFor(g, ToSet(G), ag))
<1>1. /\ G \in Seq(Address) /\ IsInjective(G) /\ ds \in [Account -> Nat]
      /\ \A a \in Account : data[a].stake \in Nat
  BY DEF DataOK
<1>2. ToSet(CastList(G, data)) = CastOf(G, data) /\ CastOf(G, data) \subseteq ToSet(G)
  BY <1>1, CastListIs
<1>3. stake \in [Account -> Nat]
  BY <1>1 DEF StakesOf
<1>4. ASSUME NEW g \in CastOf(G, data)
      PROVE  WeightOf(G, data, listed, ag, ds)[g] =
               SumFunctionOnSet(stake, SpokenFor(g, ToSet(G), ag))
  <2> DEFINE S == SpokenFor(g, ToSet(G), ag)
             C == CountedDelegators(listed, G)
             B == RepresentedBy(g, C, ag)
  <2>1. g \in ToSet(G)
    BY <1>2
  <2>2. /\ g \in Address /\ B \in Seq(Address) /\ IsInjective(B) /\ ToSet(B) = S \ {g}
        /\ g \in S /\ IsFiniteSet(S)
    BY <2>1, BehindIs
  <2>3. S \subseteq Account /\ \A x \in S \ {g} : x \notin ToSet(G)
    BY <2>1, <2>2, OthersAreNoGuardians DEF Account
  <2>4. WeightOf(G, data, listed, ag, ds)[g] = data[g].stake + SumOver(B, ds)
    BY <1>2 DEF WeightOf, BehindOf
  <2> HIDE DEF S, C, B
  <2>5. SumOver(B, ds) = SumFunctionOnSet(ds, S \ {g})
    <3>1. \A x \in ToSet(B) : ds[x] \in Int
      BY <1>1, <2>2, <2>3
    <3>2. SumOver(B, ds) = SumFunctionOnSet(ds, ToSet(B))
      BY <2>2, <3>1, SumOverEntries
    <3> QED BY <2>2, <3>2
  <2>6. SumFunctionOnSet(ds, S \ {g}) = SumFunctionOnSet(stake, S \ {g})
    <3>1. \A x \in S \ {g} : ds[x] = stake[x]
      BY <1>2, <2>3 DEF StakesOf
    <3>2. IsFiniteSet(S \ {g})
      BY <2>2, FS_Subset
    <3> QED BY <3>1, <3>2, SumSame
  <2>7. stake[g] = data[g].stake /\ \A x \in S : stake[x] \in Int
    BY <1>2, <1>3, <2>2, <2>3 DEF StakesOf
  <2>8. SumFunctionOnSet(stake, S) = stake[g] + SumFunctionOnSet(stake, S \ {g})
    BY <2>2, <2>7, SumRemove
  <2> QED BY <2>4, <2>5, <2>6, <2>7, <2>8 DEF S
<1> QED BY <1>3, <1>4

(* Everyone a voting guardian speaks for participates, once.                *)
LEMMA ParticipantsAre ==
  ASSUME NEW G, NEW data, NEW listed, NEW ag, NEW ds, DataOK(G, data, listed, ag, ds),
         NEW s, s = ParticipantList(CastList(G, data), BehindOf(G, data, listed, ag))
  PROVE  /\ s \in Seq(Address) /\ IsInjective(s)
         /\ ToSet(s) = Electors(CastOf(G, data), ToSet(G), ag)
<1> DEFINE L == CastList(G, data)
           behind == BehindOf(G, data, listed, ag)
           q == [i \in DOMAIN L |-> PieceOf(L[i], behind)]
           P(g) == SpokenFor(g, ToSet(G), ag)
<1>1. G \in Seq(Address) /\ IsInjective(G)
  BY DEF DataOK
<1>2. /\ L \in Seq(Address) /\ IsInjective(L) /\ ToSet(L) = CastOf(G, data)
      /\ CastOf(G, data) \subseteq ToSet(G)
  BY <1>1, CastListIs
<1>3. ASSUME NEW g \in CastOf(G, data)
      PROVE  /\ PieceOf(g, behind) \in Seq(Address) /\ IsInjective(PieceOf(g, behind))
             /\ ToSet(PieceOf(g, behind)) = P(g)
  <2>1. behind[g] = RepresentedBy(g, CountedDelegators(listed, G), ag)
    BY <1>2 DEF BehindOf
  <2>2. /\ g \in Address /\ behind[g] \in Seq(Address) /\ IsInjective(behind[g])
        /\ ToSet(behind[g]) = P(g) \ {g} /\ g \in P(g)
    <3> DEFINE B == RepresentedBy(g, CountedDelegators(listed, G), ag)
    <3>1. g \in ToSet(G)
      BY <1>2
    <3>2. /\ g \in Address /\ B \in Seq(Address) /\ IsInjective(B)
          /\ ToSet(B) = SpokenFor(g, ToSet(G), ag) \ {g} /\ g \in SpokenFor(g, ToSet(G), ag)
      <4>1. DataOK(G, data, listed, ag, ds)
        OBVIOUS
      <4>2. PICK C : C = CountedDelegators(listed, G)
        OBVIOUS
      <4>3. /\ g \in Address /\ RepresentedBy(g, C, ag) \in Seq(Address)
            /\ IsInjective(RepresentedBy(g, C, ag))
            /\ ToSet(RepresentedBy(g, C, ag)) = SpokenFor(g, ToSet(G), ag) \ {g}
            /\ g \in SpokenFor(g, ToSet(G), ag) /\ IsFiniteSet(SpokenFor(g, ToSet(G), ag))
        BY ONLY <3>1, <4>1, <4>2, BehindIs
      <4> QED BY <4>2, <4>3
    <3>3. behind[g] = B
      BY <2>1
    <3> HIDE DEF B, behind
    <3> QED BY <3>2, <3>3
  <2>3. PICK s1 \in Seq(Address) : s1 = <<g>>
    <3>1. g \in Address
      BY <2>2
    <3>2. <<g>> \in Seq(Address)
      BY ONLY <3>1
    <3> QED BY <3>2
  <2>4. PICK s2 \in Seq(Address) : s2 = behind[g]
    BY <2>2
  <2>5. ToSet(s1) = {g} /\ IsInjective(s1)
    BY <2>3 DEF ToSet, IsInjective
  <2>6. /\ s1 \o s2 \in Seq(Address) /\ ToSet(s1 \o s2) = ToSet(s1) \cup ToSet(s2)
        /\ IsInjective(s1) /\ IsInjective(s2) /\ ToSet(s1) \cap ToSet(s2) = {}
           => IsInjective(s1 \o s2)
    BY JoinedLists
  <2>7. PieceOf(g, behind) = s1 \o s2
    BY <2>3, <2>4 DEF PieceOf
  <2> HIDE DEF P, behind
  <2>8. ToSet(s1) \cap ToSet(s2) = {} /\ ToSet(s1) \cup ToSet(s2) = P(g)
    BY <2>2, <2>4, <2>5
  <2>9. IsInjective(s1) /\ IsInjective(s2)
    BY <2>2, <2>4, <2>5
  <2> QED BY <2>6, <2>7, <2>8, <2>9
<1>4. ASSUME NEW g \in CastOf(G, data), NEW h \in CastOf(G, data), g # h
      PROVE  P(g) \cap P(h) = {}
  BY <1>2, <1>4, Disjoint
<1>5. /\ DOMAIN L = 1 .. Len(L) /\ Len(L) \in Nat
      /\ \A i \in DOMAIN L : L[i] \in CastOf(G, data)
      /\ \A g \in CastOf(G, data) : \E i \in DOMAIN L : L[i] = g
  BY <1>2 DEF ToSet
<1>6. q \in Seq(Seq(Address)) /\ DOMAIN q = DOMAIN L /\ \A i \in DOMAIN L : q[i] = PieceOf(L[i], behind)
  <2> HIDE DEF L, behind
  <2> QED BY <1>3, <1>5
<1>7. s = FlattenSeq(q)
  BY DEF ParticipantList
<1> HIDE DEF L, behind, q, P
<1>8. /\ \A i \in DOMAIN q : IsInjective(q[i])
      /\ \A i, j \in DOMAIN q : i # j => ToSet(q[i]) \cap ToSet(q[j]) = {}
  <2>1. \A i, j \in DOMAIN L : i # j => L[i] # L[j]
    BY <1>2 DEF IsInjective
  <2> QED BY <1>3, <1>4, <1>5, <1>6, <2>1
<1>9. /\ s \in Seq(Address) /\ IsInjective(s)
      /\ \A x : x \in ToSet(s) <=> \E i \in DOMAIN q : x \in ToSet(q[i])
  BY <1>6, <1>7, <1>8, FlattenIs
<1>10. \A x : x \in ToSet(s) <=> \E g \in CastOf(G, data) : x \in P(g)
  BY <1>3, <1>5, <1>6, <1>9
<1> QED BY <1>9, <1>10 DEF Electors, P

(* The tally, without lists and without the recursion.                      *)
Tallied(t, G, data, ag, ds, cast) ==
  /\ DOMAIN t.weight = cast /\ cast \subseteq ToSet(G)
  /\ \A g \in cast : /\ t.weight[g] = SumFunctionOnSet(t.stake, SpokenFor(g, ToSet(G), ag))
                     /\ t.weight[g] \in Nat
  /\ t.total = SumFunctionOnSet(t.stake, Electors(cast, ToSet(G), ag))
  /\ t.total \in Nat
  /\ t.named = UNION {data[g].candidates : g \in cast}
  /\ t.against \in [Account -> Nat]
  /\ \A v \in Account :
       t.against[v] = SumFunctionOnSet(t.stake,
                        Electors({g \in cast : v \in data[g].candidates}, ToSet(G), ag))
  /\ t.participants \in Seq(Address) /\ IsInjective(t.participants)
  /\ ToSet(t.participants) = Electors(cast, ToSet(G), ag)
  /\ t.stake = [a \in Account |-> IF a \in cast THEN data[a].stake ELSE ds[a]]
  /\ t.stake \in [Account -> Nat]

LEMMA TallyIs ==
  ASSUME NEW G, NEW data, NEW listed, NEW ag, NEW ds, DataOK(G, data, listed, ag, ds),
         NEW t, t = Tally(G, data, listed, ag, ds), NEW cast, cast = CastOf(G, data)
  PROVE  Tallied(t, G, data, ag, ds, cast)
<1>1. G \in Seq(Address) /\ IsInjective(G)
  BY DEF DataOK
<1> DEFINE L == CastList(G, data)
           W == WeightOf(G, data, listed, ag, ds)
<1>2. /\ L \in Seq(Address) /\ IsInjective(L) /\ ToSet(L) = cast /\ cast \in SUBSET ToSet(G)
  BY <1>1, CastListIs
<1>3. /\ t.weight = W /\ t.total = SumOver(L, W)
      /\ t.named = UNION {data[g].candidates : g \in ToSet(L)}
      /\ t.against = [v \in Account |-> SumOver(AgainstList(G, data, v), W)]
      /\ t.participants = ParticipantList(L, BehindOf(G, data, listed, ag))
      /\ t.stake = StakesOf(G, data, ds)
  BY TallyParts
<1>4. /\ t.stake \in [Account -> Nat]
      /\ \A g \in cast : W[g] = SumFunctionOnSet(t.stake, SpokenFor(g, ToSet(G), ag))
  BY <1>3, WeightIs
<1>5. DOMAIN W = cast
  BY <1>2 DEF WeightOf
<1>6. /\ t.participants \in Seq(Address) /\ IsInjective(t.participants)
      /\ ToSet(t.participants) = Electors(cast, ToSet(G), ag)
  BY <1>3, ParticipantsAre
<1>7. t.stake = [a \in Account |-> IF a \in cast THEN data[a].stake ELSE ds[a]]
  BY <1>2, <1>3 DEF StakesOf
<1> HIDE DEF L, W
<1>8. ASSUME NEW R \in SUBSET cast
      PROVE  /\ SumFunctionOnSet(W, R) = SumFunctionOnSet(t.stake, Electors(R, ToSet(G), ag))
             /\ SumFunctionOnSet(W, R) \in Nat
  <2>1. R \in SUBSET ToSet(G)
    BY <1>2
  <2>2. \A g \in R : W[g] = SumFunctionOnSet(t.stake, SpokenFor(g, ToSet(G), ag))
    BY <1>4
  <2> QED BY <1>4, <2>1, <2>2, PartsAddUp
<1>9. \A g \in cast : W[g] \in Nat
  <2> SUFFICES ASSUME NEW g \in cast PROVE W[g] \in Nat
    OBVIOUS
  <2>1. g \in ToSet(G)
    BY <1>2
  <2>2. IsFiniteSet(SpokenFor(g, ToSet(G), ag)) /\ g \in Address
    BY <2>1, BehindIs
  <2>3. SpokenFor(g, ToSet(G), ag) \subseteq Address
    BY <2>1, <2>2, OthersAreNoGuardians
  <2>4. \A x \in SpokenFor(g, ToSet(G), ag) : t.stake[x] \in Nat
    BY <1>4, <2>3 DEF Account
  <2>5. SumFunctionOnSet(t.stake, SpokenFor(g, ToSet(G), ag)) \in Nat
    BY <2>2, <2>4, SumType
  <2> QED BY <1>4, <2>5
<1>10. /\ t.total = SumFunctionOnSet(t.stake, Electors(cast, ToSet(G), ag))
       /\ t.total \in Nat
  <2>1. \A x \in ToSet(L) : W[x] \in Int
    BY <1>2, <1>9
  <2>2. SumOver(L, W) = SumFunctionOnSet(W, ToSet(L))
    BY <1>2, <2>1, SumOverEntries
  <2> QED BY <1>2, <1>3, <1>8, <2>2
<1>11. ASSUME NEW v \in Account
       PROVE  /\ t.against[v] = SumFunctionOnSet(t.stake,
                                  Electors({g \in cast : v \in data[g].candidates}, ToSet(G), ag))
              /\ t.against[v] \in Nat
  <2> DEFINE A == AgainstList(G, data, v)
             R == {g \in cast : v \in data[g].candidates}
  <2>1. A \in Seq(Address) /\ IsInjective(A) /\ ToSet(A) = R
    BY <1>1, AgainstListIs
  <2>2. t.against[v] = SumOver(A, W)
    BY <1>3
  <2>3. R \in SUBSET cast
    OBVIOUS
  <2> HIDE DEF A, R
  <2>4. \A x \in ToSet(A) : W[x] \in Int
    BY <1>9, <2>1, <2>3
  <2>5. SumOver(A, W) = SumFunctionOnSet(W, ToSet(A))
    BY <2>1, <2>4, SumOverEntries
  <2> QED BY <1>8, <2>1, <2>2, <2>3, <2>5 DEF R
<1>12. t.against \in [Account -> Nat]
  <2>1. t.against = [v \in Account |-> t.against[v]]
    BY <1>3
  <2> QED BY <1>11, <2>1
<1> QED BY <1>2, <1>3, <1>4, <1>5, <1>6, <1>7, <1>9, <1>10, <1>11, <1>12 DEF Tallied

-----------------------------------------------------------------------------
(* Rewards and selection                                                    *)

(* A budget prorated to one election's period, and a group's reward, are    *)
(* numbers.                                                                 *)
LEMMA FactorizedTyped ==
  ASSUME NEW amount \in Nat PROVE AnnualFactorize(amount) \in Nat
BY TallyAssumption, RoundedDown DEF AnnualFactorize

LEMMA MaxRewardTyped ==
  ASSUME NEW upperMaximum \in Nat, NEW total \in Nat, NEW percent \in Nat
  PROVE  MaxRewardForGroup(upperMaximum, total, percent) \in Nat
<1>1. upperMaximum * 100 \in Nat /\ total * percent \in Nat
  OBVIOUS
<1>2. AnnualFactorize(upperMaximum * 100) \in Nat /\ AnnualFactorize(total * percent) \in Nat
  BY <1>1, FactorizedTyped
<1> QED BY <1>2 DEF MaxRewardForGroup

(* An entry of a list without repetitions occurs in it once.                *)
LEMMA OccursOnce ==
  ASSUME NEW S, NEW s \in Seq(S), IsInjective(s), NEW a \in ToSet(s)
  PROVE  Occurrences(a, s) = 1
<1>1. PICK i \in DOMAIN s : s[i] = a
  BY DEF ToSet
<1>2. {j \in DOMAIN s : s[j] = a} = {i}
  BY <1>1 DEF IsInjective
<1> QED BY <1>2, FS_Singleton DEF Occurrences

(* Who is elected, as a set.                                                *)
LEMMA ElectedIs ==
  ASSUME NEW V \in Seq(Address), IsInjective(V), NEW t
  PROVE  LET staying == {v \in ToSet(V) : Stays(v, t)}
         IN  /\ ToSet(Elected(V, t)) =
                  IF Cardinality(staying) < MinElectedValidators THEN ToSet(V) ELSE staying
             /\ Elected(V, t) \in Seq(Address) /\ IsInjective(Elected(V, t))
<1> DEFINE staying == {v \in ToSet(V) : Stays(v, t)}
           winners == Among(V, staying)
<1>1. Elected(V, t) = IF Len(winners) >= MinElectedValidators THEN winners ELSE V
  BY DEF Elected
<1>2. ToSet(V) \cap staying = staying
  OBVIOUS
<1> HIDE DEF staying
<1>3. winners \in Seq(Address) /\ ToSet(winners) = staying /\ IsInjective(winners)
  <2>1. /\ Among(V, staying) \in Seq(Address)
        /\ ToSet(Among(V, staying)) = ToSet(V) \cap staying
        /\ IsInjective(V) => IsInjective(Among(V, staying))
    BY AmongIs
  <2> QED BY <1>2, <2>1
<1> HIDE DEF winners
<1>4. Len(winners) = Cardinality(staying) /\ Len(winners) \in Nat
  BY <1>3, LengthIsCardinality
<1>5. MinElectedValidators \in Nat
  BY TallyAssumption
<1>6. (Cardinality(staying) < MinElectedValidators) <=> ~(Len(winners) >= MinElectedValidators)
  BY <1>4, <1>5
<1>7. CASE Len(winners) >= MinElectedValidators
  <2>1. Elected(V, t) = winners
    BY <1>1, <1>7
  <2> QED BY <1>3, <1>6, <1>7, <2>1 DEF staying
<1>8. CASE ~(Len(winners) >= MinElectedValidators)
  <2>1. Elected(V, t) = V
    BY <1>1, <1>8
  <2> QED BY <1>6, <1>8, <2>1 DEF staying
<1> QED BY <1>7, <1>8

(* A tally whose participants are listed once and make up its total.        *)
Counts(t) ==
  /\ t.stake \in [Account -> Nat] /\ t.total \in Nat
  /\ t.participants \in Seq(Address) /\ IsInjective(t.participants)
  /\ t.total = SumFunctionOnSet(t.stake, ToSet(t.participants))

(* Whoever a guardian speaks for besides itself is a delegator that is no   *)
(* guardian.                                                                *)
LEMMA OthersDelegate ==
  ASSUME NEW G, NEW data, NEW listed, NEW ag, NEW ds, DataOK(G, data, listed, ag, ds),
         NEW g \in ToSet(G)
  PROVE  /\ g \in Address
         /\ \A x \in SpokenFor(g, ToSet(G), ag) :
              x \in Address /\ (x = g \/ x \in ToSet(listed) \ ToSet(G))
<1> DEFINE S == {g} \cup (ToSet(listed) \ ToSet(G))
<1>1. g \in Address
  BY DEF DataOK, ToSet
<1>2. S \subseteq Address
  BY <1>1 DEF DataOK, ToSet
<1>3. S \in SUBSET Account /\ g \in S
  BY <1>2 DEF Account
<1>4. \A d \in Address \ ToSet(G) : ag[d] \in S => d \in S
  BY <1>2 DEF DataOK
<1>5. SpokenFor(g, ToSet(G), ag) \subseteq S
  <2> HIDE DEF S
  <2> QED BY <1>3, <1>4 DEF SpokenFor
<1> QED BY <1>1, <1>2, <1>5

(* The data of an election agree with what everyone has and votes.          *)
Agree(G, data, listed, ag, ds, cast, ballots, stake) ==
  /\ DataOK(G, data, listed, ag, ds)
  /\ stake \in [Account -> Nat]
  /\ cast = CastOf(G, data)
  /\ \A g \in cast : data[g].candidates = ballots[g] /\ data[g].stake = stake[g]
  /\ \A a \in ToSet(listed) \ ToSet(G) : ds[a] = stake[a]

(* What the tally t is then.                                                *)
Counted(t, cast, gs, ag, ballots, stake) ==
  /\ DOMAIN t.weight = cast /\ cast \subseteq gs /\ gs \subseteq Address
  /\ \A g \in cast : /\ t.weight[g] = SumFunctionOnSet(stake, SpokenFor(g, gs, ag))
                     /\ t.weight[g] \in Nat
  /\ Counts(t) /\ ToSet(t.participants) = Electors(cast, gs, ag)
  /\ t.total = SumFunctionOnSet(stake, Electors(cast, gs, ag))
  /\ t.named = UNION {ballots[g] : g \in cast}
  /\ \A v \in Account :
       /\ t.against[v] \in Nat
       /\ t.against[v] = SumFunctionOnSet(stake, Electors({g \in cast : v \in ballots[g]}, gs, ag))
  /\ t.against \in [Account -> Nat]
  /\ \A a \in Electors(cast, gs, ag) : t.stake[a] = stake[a]

LEMMA TallyCounts ==
  ASSUME NEW G, NEW data, NEW listed, NEW ag, NEW ds, NEW cast, NEW ballots, NEW stake,
         Agree(G, data, listed, ag, ds, cast, ballots, stake),
         NEW t, t = Tally(G, data, listed, ag, ds)
  PROVE  Counted(t, cast, ToSet(G), ag, ballots, stake)
<1>1. /\ DataOK(G, data, listed, ag, ds) /\ cast = CastOf(G, data) /\ stake \in [Account -> Nat]
      /\ \A g \in cast : data[g].candidates = ballots[g] /\ data[g].stake = stake[g]
      /\ \A a \in ToSet(listed) \ ToSet(G) : ds[a] = stake[a]
  BY DEF Agree
<1>2. ToSet(G) \subseteq Address /\ ToSet(G) \subseteq Account
  BY <1>1 DEF DataOK, ToSet, Account
<1>3. /\ DOMAIN t.weight = cast /\ cast \subseteq ToSet(G)
      /\ \A g \in cast : /\ t.weight[g] = SumFunctionOnSet(t.stake, SpokenFor(g, ToSet(G), ag))
                         /\ t.weight[g] \in Nat
      /\ t.total = SumFunctionOnSet(t.stake, Electors(cast, ToSet(G), ag))
      /\ t.total \in Nat
      /\ t.named = UNION {data[g].candidates : g \in cast}
      /\ t.against \in [Account -> Nat]
      /\ \A v \in Account :
           t.against[v] = SumFunctionOnSet(t.stake,
                            Electors({g \in cast : v \in data[g].candidates}, ToSet(G), ag))
      /\ t.participants \in Seq(Address) /\ IsInjective(t.participants)
      /\ ToSet(t.participants) = Electors(cast, ToSet(G), ag)
      /\ t.stake = [a \in Account |-> IF a \in cast THEN data[a].stake ELSE ds[a]]
      /\ t.stake \in [Account -> Nat]
  <2>1. DataOK(G, data, listed, ag, ds) /\ cast = CastOf(G, data)
    BY <1>1
  <2>2. Tallied(t, G, data, ag, ds, cast)
    BY <2>1, TallyIs
  <2> QED BY ONLY <2>2 DEF Tallied
<1>4. Counts(t)
  BY <1>3 DEF Counts
<1>5. ASSUME NEW x \in Electors(cast, ToSet(G), ag) PROVE t.stake[x] = stake[x] /\ x \in Address
  <2>1. PICK g \in cast : x \in SpokenFor(g, ToSet(G), ag)
    BY DEF Electors
  <2>2. g \in ToSet(G)
    BY <1>3
  <2>3. x \in Address /\ (x = g \/ x \in ToSet(listed) \ ToSet(G))
    BY <1>1, <2>1, <2>2, OthersDelegate
  <2>4. t.stake[x] = IF x \in cast THEN data[x].stake ELSE ds[x]
    BY <1>3, <2>3 DEF Account
  <2>5. CASE x \in cast
    BY <1>1, <2>3, <2>4, <2>5
  <2>6. CASE x \notin cast
    BY <1>1, <2>1, <2>3, <2>4, <2>6
  <2> QED BY <2>5, <2>6
<1>6. ASSUME NEW R \in SUBSET cast
      PROVE  SumFunctionOnSet(t.stake, Electors(R, ToSet(G), ag)) =
               SumFunctionOnSet(stake, Electors(R, ToSet(G), ag))
  <2>1. Electors(R, ToSet(G), ag) \subseteq Electors(cast, ToSet(G), ag)
    BY DEF Electors
  <2>2. Electors(R, ToSet(G), ag) \subseteq Address
    BY <1>5, <2>1
  <2>3. IsFiniteSet(Electors(R, ToSet(G), ag))
    BY <2>2, AddressAssumption, FS_Subset
  <2>4. \A x \in Electors(R, ToSet(G), ag) : t.stake[x] = stake[x]
    BY <1>5, <2>1
  <2> QED BY <2>3, <2>4, SumSame
<1>7. ASSUME NEW g \in cast PROVE t.weight[g] = SumFunctionOnSet(stake, SpokenFor(g, ToSet(G), ag))
  <2>1. Electors({g}, ToSet(G), ag) = SpokenFor(g, ToSet(G), ag)
    BY DEF Electors
  <2>2. {g} \in SUBSET cast
    OBVIOUS
  <2>3. t.weight[g] = SumFunctionOnSet(t.stake, SpokenFor(g, ToSet(G), ag))
    BY <1>3
  <2>4. SumFunctionOnSet(t.stake, Electors({g}, ToSet(G), ag)) =
          SumFunctionOnSet(stake, Electors({g}, ToSet(G), ag))
    BY <1>6, <2>2
  <2> QED BY <2>1, <2>3, <2>4
<1>8. t.total = SumFunctionOnSet(stake, Electors(cast, ToSet(G), ag))
  <2>1. cast \in SUBSET cast
    OBVIOUS
  <2> QED BY <1>3, <1>6, <2>1
<1>9. t.named = UNION {ballots[g] : g \in cast}
  BY <1>1, <1>3
<1>10. ASSUME NEW v \in Account
       PROVE  /\ t.against[v] \in Nat
              /\ t.against[v] = SumFunctionOnSet(stake,
                                  Electors({g \in cast : v \in ballots[g]}, ToSet(G), ag))
  <2>1. {g \in cast : v \in data[g].candidates} = {g \in cast : v \in ballots[g]}
    BY <1>1
  <2>2. PICK R \in SUBSET cast : R = {g \in cast : v \in ballots[g]}
    OBVIOUS
  <2>3. t.against[v] = SumFunctionOnSet(t.stake, Electors(R, ToSet(G), ag)) /\ t.against[v] \in Nat
    BY <1>3, <2>1, <2>2
  <2> QED BY <1>6, <2>2, <2>3
<1> QED BY <1>2, <1>3, <1>4, <1>5, <1>7, <1>8, <1>9, <1>10 DEF Counted

(* Each participant gets its share of the pool.                             *)
LEMMA ParticipantsArePaid ==
  ASSUME NEW t, Counts(t), RewardsPayable(t)
  PROVE  /\ ParticipationPool(t.total) \in Nat
         /\ \A a \in ToSet(t.participants) :
              /\ (t.stake[a] * ParticipationPool(t.total)) \div t.total \in Nat
              /\ ParticipationShare(a, t) = (t.stake[a] * ParticipationPool(t.total)) \div t.total
              /\ Occurrences(a, t.participants) * ParticipationShare(a, t) =
                   (t.stake[a] * ParticipationPool(t.total)) \div t.total
         /\ SumFunctionOnSet([a \in ToSet(t.participants) |->
                                (t.stake[a] * ParticipationPool(t.total)) \div t.total], ToSet(t.participants))
              <= ParticipationPool(t.total)
<1> DEFINE P == ToSet(t.participants)
           share == [a \in P |-> (t.stake[a] * ParticipationPool(t.total)) \div t.total]
<1>1. /\ t.stake \in [Account -> Nat] /\ t.total \in Nat
      /\ t.participants \in Seq(Address) /\ IsInjective(t.participants)
      /\ t.total = SumFunctionOnSet(t.stake, P)
  BY DEF Counts
<1>2. ParticipationPool(t.total) \in Nat
  <2>1. ParticipationMaxReward \in Nat /\ ParticipationPercent \in Nat
    BY TallyAssumption
  <2> QED BY <1>1, <2>1, MaxRewardTyped DEF ParticipationPool
<1>3. P \subseteq Account /\ IsFiniteSet(P)
  <2>1. P \subseteq Address /\ IsFiniteSet(P)
    BY <1>1, ListIsFinite
  <2> QED BY <2>1 DEF Account
<1>4. \A a \in P : t.stake[a] \in Nat
  BY <1>1, <1>3
<1>5. \A a \in P : share[a] = (t.stake[a] * ParticipationPool(t.total)) \div t.total
  OBVIOUS
<1>6. P # {} => t.total > 0
  <2>1. P # {} => t.participants # <<>>
    BY EmptyList
  <2> QED BY <2>1 DEF RewardsPayable
<1>7. /\ \A a \in P : share[a] \in Nat
      /\ SumFunctionOnSet(share, P) <= ParticipationPool(t.total)
  <2>1. CASE P = {}
    BY <1>2, <2>1, SumEmpty
  <2>2. CASE P # {}
    <3>1. t.total > 0
      BY <1>6, <2>2
    <3>2. PICK amount : amount = t.stake
      OBVIOUS
    <3>3. PICK total \in Nat : total = t.total
      BY <1>1
    <3>4. PICK budget \in Nat : budget = ParticipationPool(t.total)
      BY <1>2
    <3>5. \A a \in P : share[a] = (amount[a] * budget) \div total
      BY <1>5, <3>2, <3>3, <3>4
    <3>6. total > 0 /\ total = SumFunctionOnSet(amount, P) /\ \A a \in P : amount[a] \in Nat
      BY <1>1, <1>4, <3>1, <3>2, <3>3
    <3> HIDE DEF P, share
    <3>7. SumFunctionOnSet(share, P) <= budget /\ \A a \in P : share[a] \in Nat
      BY <1>3, <3>5, <3>6, SharesWithinBudget
    <3> QED BY <3>4, <3>7
  <2> QED BY <2>1, <2>2
<1>8. ASSUME NEW a \in P
      PROVE  /\ ParticipationShare(a, t) = share[a]
             /\ Occurrences(a, t.participants) * ParticipationShare(a, t) = share[a]
  <2>1. ParticipationShare(a, t) = share[a]
    BY DEF ParticipationShare
  <2>2. Occurrences(a, t.participants) = 1
    BY <1>1, OccursOnce
  <2>3. PICK q \in Nat : q = share[a]
    BY <1>7
  <2> HIDE DEF share
  <2>4. Occurrences(a, t.participants) * ParticipationShare(a, t) = 1 * q
    BY <2>1, <2>2, <2>3
  <2> QED BY <2>1, <2>3, <2>4
<1> QED BY <1>2, <1>5, <1>7, <1>8

(* What an election pays for participation is within the budget.            *)
LEMMA PaidWithinPool ==
  ASSUME NEW t, Counts(t), RewardsPayable(t),
         NEW paid, paid = AddParticipation([a \in Account |-> 0], t)
  PROVE  SumFunction(paid) <= ParticipationPool(t.total)
<1> DEFINE P == ToSet(t.participants)
           share == [a \in P |-> (t.stake[a] * ParticipationPool(t.total)) \div t.total]
<1>1. /\ ParticipationPool(t.total) \in Nat
      /\ \A a \in P : /\ share[a] \in Nat
                      /\ Occurrences(a, t.participants) * ParticipationShare(a, t) = share[a]
      /\ SumFunctionOnSet(share, P) <= ParticipationPool(t.total)
  BY ParticipantsArePaid
<1>2. P \in SUBSET Account /\ IsFiniteSet(P)
  <2>1. t.participants \in Seq(Address)
    BY DEF Counts
  <2>2. P \subseteq Address /\ IsFiniteSet(P)
    BY <2>1, ListIsFinite
  <2> QED BY <2>2 DEF Account
<1>3. IsFiniteSet(Account)
  BY AddressAssumption, FS_AddElement DEF Account
<1>4. DOMAIN paid = Account
  BY DEF AddParticipation
<1>5. \A a \in Account :
        paid[a] = IF a \in P THEN 0 + Occurrences(a, t.participants) * ParticipationShare(a, t)
                             ELSE 0
  BY DEF AddParticipation
<1> HIDE DEF P, share
<1>6. \A a \in Account : IF a \in P THEN paid[a] = share[a] /\ paid[a] \in Int ELSE paid[a] = 0
  <2> SUFFICES ASSUME NEW a \in Account
               PROVE IF a \in P THEN paid[a] = share[a] /\ paid[a] \in Int ELSE paid[a] = 0
    OBVIOUS
  <2>1. CASE a \in P
    <3>1. PICK q \in Nat : q = share[a]
      BY <1>1, <2>1
    <3>2. paid[a] = 0 + q
      BY <1>1, <1>5, <2>1, <3>1
    <3> QED BY <2>1, <3>1, <3>2
  <2>2. CASE a \notin P
    BY <1>5, <2>2
  <2> QED BY <2>1, <2>2
<1>7. SumFunction(paid) = SumFunctionOnSet(paid, Account)
  BY <1>4, SumOfFunction
<1>8. SumFunctionOnSet(paid, Account) = SumFunctionOnSet(paid, P)
  <2>1. \A a \in Account : paid[a] \in Int
    BY <1>6
  <2>2. \A a \in Account \ P : paid[a] = 0
    BY <1>6
  <2> QED BY <1>2, <1>3, <2>1, <2>2, SumWithoutZeros
<1>9. SumFunctionOnSet(paid, P) = SumFunctionOnSet(share, P)
  <2>1. \A a \in P : paid[a] = share[a]
    BY <1>2, <1>6
  <2> QED BY <1>2, <2>1, SumSame
<1> QED BY <1>1, <1>7, <1>8, <1>9

=============================================================================
