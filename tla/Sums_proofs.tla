---------------------------- MODULE Sums_proofs ----------------------------
(***************************************************************************)
(* Sums over finite sets and lists, for the proofs about books and tallies: *)
(* what SumFunction, SumFunctionOnSet, FlattenSeq and SetToSeq of the       *)
(* community modules return, for every function, list and set.              *)
(*                                                                         *)
(* The induction theorems of the library quantify over operators, which the *)
(* provers cannot instantiate.  Here a property is a SET of sets, Good, and *)
(* induction is the minimal counterexample of a well-founded order, of      *)
(* which the library's facts speak without operators.                       *)
(***************************************************************************)
EXTENDS SequencesExt, FiniteSetTheorems, SequenceTheorems, TLAPS

(* What holds of a subset whenever it holds of its proper subsets holds of  *)
(* every subset of a finite set.                                            *)
LEMMA SubsetInduction ==
  ASSUME NEW S, IsFiniteSet(S), NEW Good,
         \A T \in SUBSET S : (\A U \in SUBSET T : U # T => U \in Good) => T \in Good
  PROVE  \A T \in SUBSET S : T \in Good
<1> DEFINE Bad == {T \in SUBSET S : T \notin Good}
<1>1. SUFFICES ASSUME Bad # {} PROVE FALSE
  OBVIOUS
<1>2. IsWellFoundedOn(StrictSubsetOrdering(S), SUBSET S)
  BY FS_StrictSubsetOrderingWellFounded, FS_FiniteSubsetsOfFinite
<1>3. PICK T \in Bad : \A U \in Bad : ~ (<<U, T>> \in StrictSubsetOrdering(S))
  <2> HIDE DEF Bad
  <2>1. Bad \subseteq SUBSET S
    BY DEF Bad
  <2>2. QED
    BY <1>1, <1>2, <2>1, WFMin
<1>4. ASSUME NEW U \in SUBSET T, U # T PROVE U \in Good
  <2>1. U \in SUBSET S /\ T \in SUBSET S
    OBVIOUS
  <2>2. <<U, T>> \in StrictSubsetOrdering(S)
    BY <1>4, <2>1 DEF StrictSubsetOrdering
  <2>3. QED
    BY <1>3, <2>1, <2>2
<1>5. T \in Good
  BY <1>4
<1>6. QED
  BY <1>5

-----------------------------------------------------------------------------
(* The equation that defines the sum                                        *)

Picked(T) == CHOOSE x \in T : TRUE

IsSummation(g, f, S) ==
  g = [T \in SUBSET S |-> IF T = {} THEN 0 ELSE f[Picked(T)] + g[T \ {Picked(T)}]]

LEMMA PickedIn == ASSUME NEW T, T # {} PROVE Picked(T) \in T
  BY DEF Picked

(* A finite set has at most one function that satisfies the equation.       *)
LEMMA SummationIsUnique ==
  ASSUME NEW S, IsFiniteSet(S), NEW f, NEW g, NEW h, IsSummation(g, f, S), IsSummation(h, f, S)
  PROVE  g = h
<1> DEFINE Good == {T \in SUBSET S : g[T] = h[T]}
<1>1. ASSUME NEW T \in SUBSET S, \A U \in SUBSET T : U # T => U \in Good
      PROVE  T \in Good
  <2>1. g[T] = IF T = {} THEN 0 ELSE f[Picked(T)] + g[T \ {Picked(T)}]
    BY DEF IsSummation
  <2>2. h[T] = IF T = {} THEN 0 ELSE f[Picked(T)] + h[T \ {Picked(T)}]
    BY DEF IsSummation
  <2>3. T # {} => g[T \ {Picked(T)}] = h[T \ {Picked(T)}]
    BY <1>1, PickedIn
  <2>4. QED
    BY <2>1, <2>2, <2>3
<1>2. \A T \in SUBSET S : T \in Good
  <2> HIDE DEF Good
  <2>1. QED
    BY <1>1, SubsetInduction
<1>3. \A T \in SUBSET S : g[T] = h[T]
  BY <1>2
<1>4. g = [T \in SUBSET S |-> g[T]] /\ h = [T \in SUBSET S |-> h[T]]
  BY DEF IsSummation
<1>5. QED
  BY <1>3, <1>4

LEMMA SummationRestricted ==
  ASSUME NEW S, NEW T \in SUBSET S, NEW f, NEW g, IsSummation(g, f, S),
         NEW r, r = [U \in SUBSET T |-> g[U]]
  PROVE  IsSummation(r, f, T)
<1>1. ASSUME NEW U \in SUBSET T
      PROVE  r[U] = IF U = {} THEN 0 ELSE f[Picked(U)] + r[U \ {Picked(U)}]
  <2>1. U \in SUBSET S /\ U \ {Picked(U)} \in SUBSET T
    OBVIOUS
  <2>2. g[U] = IF U = {} THEN 0 ELSE f[Picked(U)] + g[U \ {Picked(U)}]
    BY <2>1 DEF IsSummation
  <2>3. QED
    BY <2>1, <2>2
<1>2. r = [U \in SUBSET T |-> IF U = {} THEN 0 ELSE f[Picked(U)] + r[U \ {Picked(U)}]]
  BY <1>1
<1>3. QED
  BY <1>2 DEF IsSummation

SummationOf(f, S) == CHOOSE g : IsSummation(g, f, S)

LEMMA SummationsAgree ==
  ASSUME NEW S, IsFiniteSet(S), NEW T \in SUBSET S, NEW f,
         NEW g, IsSummation(g, f, S), NEW h, IsSummation(h, f, T)
  PROVE  h[T] = g[T]
<1>1. IsFiniteSet(T)
  BY FS_Subset
<1> DEFINE r == [U \in SUBSET T |-> g[U]]
<1>2. IsSummation(r, f, T)
  BY SummationRestricted
<1>3. h = r
  <2> HIDE DEF r
  <2>1. QED
    BY <1>1, <1>2, SummationIsUnique
<1>4. QED
  BY <1>3

(* A finite set has such a function.                                        *)
LEMMA SummationExists ==
  ASSUME NEW S, IsFiniteSet(S), NEW f
  PROVE  IsSummation(SummationOf(f, S), f, S)
<1> DEFINE Good == {T \in SUBSET S : IsSummation(SummationOf(f, T), f, T)}
<1>1. ASSUME NEW T \in SUBSET S, \A U \in SUBSET T : U # T => U \in Good
      PROVE  T \in Good
  <2> DEFINE rest(U) == U \ {Picked(U)}
             g == [U \in SUBSET T |->
                     IF U = {} THEN 0 ELSE f[Picked(U)] + SummationOf(f, rest(U))[rest(U)]]
  <2>0. \A U \in SUBSET T :
          g[U] = IF U = {} THEN 0 ELSE f[Picked(U)] + SummationOf(f, rest(U))[rest(U)]
    OBVIOUS
  <2>1. ASSUME NEW U \in SUBSET T, U # {}
        PROVE  /\ IsSummation(SummationOf(f, rest(U)), f, rest(U))
               /\ rest(U) \in SUBSET T
    BY <1>1, <2>1, PickedIn
  <2>2. ASSUME NEW U \in SUBSET T, U # {}
        PROVE  g[rest(U)] = SummationOf(f, rest(U))[rest(U)]
    <3> DEFINE V == rest(U)
               h == SummationOf(f, V)
    <3>1. IsSummation(h, f, V) /\ V \in SUBSET T
      BY <2>1, <2>2
    <3>2. h[V] = IF V = {} THEN 0 ELSE f[Picked(V)] + h[rest(V)]
      BY <3>1 DEF IsSummation
    <3>3. CASE V = {}
      BY <3>2, <3>3
    <3>4. CASE V # {}
      <4>1. IsSummation(SummationOf(f, rest(V)), f, rest(V)) /\ rest(V) \in SUBSET V
        BY <2>1, <3>1, <3>4
      <4>2. IsFiniteSet(V)
        BY <3>1, FS_Subset
      <4>3. SummationOf(f, rest(V))[rest(V)] = h[rest(V)]
        <5> HIDE DEF h, V, rest
        <5>1. QED
          BY <3>1, <4>1, <4>2, SummationsAgree
      <4>4. g[V] = f[Picked(V)] + SummationOf(f, rest(V))[rest(V)]
        <5> HIDE DEF g, V
        <5>1. QED
          BY <2>0, <3>1, <3>4
      <4>5. QED
        BY <3>2, <3>4, <4>3, <4>4
    <3>5. QED
      BY <3>3, <3>4
  <2>3. ASSUME NEW U \in SUBSET T
        PROVE  g[U] = IF U = {} THEN 0 ELSE f[Picked(U)] + g[rest(U)]
    BY <2>2
  <2>4. g = [U \in SUBSET T |-> IF U = {} THEN 0 ELSE f[Picked(U)] + g[rest(U)]]
    BY <2>3
  <2>5. IsSummation(g, f, T)
    BY <2>4 DEF IsSummation
  <2>6. IsSummation(SummationOf(f, T), f, T)
    <3> HIDE DEF g
    <3>1. QED
      BY <2>5 DEF SummationOf
  <2>7. QED
    BY <2>6
<1>2. \A T \in SUBSET S : T \in Good
  <2> HIDE DEF Good
  <2>1. QED
    BY <1>1, SubsetInduction
<1>3. QED
  BY <1>2

(* The sum over a set adds a chosen element to the sum over the others.     *)
LEMMA SumStep ==
  ASSUME NEW S, IsFiniteSet(S), NEW f
  PROVE  SumFunctionOnSet(f, S) =
           IF S = {} THEN 0 ELSE f[Picked(S)] + SumFunctionOnSet(f, S \ {Picked(S)})
<1> DEFINE rest == S \ {Picked(S)}
<1>1. \A T : SumFunctionOnSet(f, T) = SummationOf(f, T)[T]
  BY DEF SumFunctionOnSet, FoldFunctionOnSet, MapThenFoldSet, IsSummation, SummationOf, Picked
<1>2. IsSummation(SummationOf(f, S), f, S)
  BY SummationExists
<1>3. SummationOf(f, S)[S] = IF S = {} THEN 0 ELSE f[Picked(S)] + SummationOf(f, S)[rest]
  BY <1>2 DEF IsSummation
<1>4. SummationOf(f, S)[rest] = SummationOf(f, rest)[rest]
  <2>1. IsFiniteSet(rest) /\ rest \in SUBSET S
    BY FS_Subset
  <2>2. QED
    BY <1>2, <2>1, SummationExists, SummationsAgree
<1>5. QED
  BY <1>1, <1>3, <1>4

-----------------------------------------------------------------------------
(* What sums return                                                         *)

LEMMA SumEmpty == ASSUME NEW f PROVE SumFunctionOnSet(f, {}) = 0
  BY SumStep, FS_EmptySet

LEMMA SumPicked ==
  ASSUME NEW S, IsFiniteSet(S), S # {}, NEW f
  PROVE  /\ Picked(S) \in S
         /\ SumFunctionOnSet(f, S) = f[Picked(S)] + SumFunctionOnSet(f, S \ {Picked(S)})
  BY SumStep, PickedIn

LEMMA SumSingleton == ASSUME NEW f, NEW a, f[a] \in Int PROVE SumFunctionOnSet(f, {a}) = f[a]
<1>1. IsFiniteSet({a}) /\ Picked({a}) = a
  BY FS_Singleton, PickedIn
<1>2. SumFunctionOnSet(f, {a}) = f[a] + SumFunctionOnSet(f, {})
  BY <1>1, SumPicked
<1>3. QED
  BY <1>2, SumEmpty

(* A sum of integers is an integer, of naturals a natural.                  *)
LEMMA SumType ==
  ASSUME NEW S, IsFiniteSet(S), NEW N, N = Int \/ N = Nat, NEW f, \A x \in S : f[x] \in N
  PROVE  SumFunctionOnSet(f, S) \in N
<1> DEFINE Good == {T \in SUBSET S : SumFunctionOnSet(f, T) \in N}
<1>1. ASSUME NEW T \in SUBSET S, \A U \in SUBSET T : U # T => U \in Good
      PROVE  T \in Good
  <2>1. CASE T = {}
    BY <2>1, SumEmpty
  <2>2. CASE T # {}
    <3>1. IsFiniteSet(T)
      BY FS_Subset
    <3>2. /\ Picked(T) \in T
          /\ SumFunctionOnSet(f, T) = f[Picked(T)] + SumFunctionOnSet(f, T \ {Picked(T)})
      BY <2>2, <3>1, SumPicked
    <3>3. SumFunctionOnSet(f, T \ {Picked(T)}) \in N /\ f[Picked(T)] \in N
      BY <1>1, <3>2
    <3>4. QED
      BY <3>2, <3>3
  <2>3. QED
    BY <2>1, <2>2
<1>2. \A T \in SUBSET S : T \in Good
  <2> HIDE DEF Good
  <2>1. QED
    BY <1>1, SubsetInduction
<1>3. QED
  BY <1>2

(* It does not matter which element is added last.                          *)
LEMMA SumRemove ==
  ASSUME NEW S, IsFiniteSet(S), NEW f, \A x \in S : f[x] \in Int, NEW a \in S
  PROVE  SumFunctionOnSet(f, S) = f[a] + SumFunctionOnSet(f, S \ {a})
<1> DEFINE Good == {T \in SUBSET S :
                      \A y \in T : SumFunctionOnSet(f, T) = f[y] + SumFunctionOnSet(f, T \ {y})}
<1>1. ASSUME NEW T \in SUBSET S, \A U \in SUBSET T : U # T => U \in Good
      PROVE  T \in Good
  <2> SUFFICES ASSUME NEW y \in T
               PROVE  SumFunctionOnSet(f, T) = f[y] + SumFunctionOnSet(f, T \ {y})
    OBVIOUS
  <2> DEFINE p == Picked(T)
             both == (T \ {p}) \ {y}
  <2>1. IsFiniteSet(T)
    BY FS_Subset
  <2>2. p \in T /\ SumFunctionOnSet(f, T) = f[p] + SumFunctionOnSet(f, T \ {p})
    BY <2>1, SumPicked
  <2>3. CASE y = p
    BY <2>2, <2>3
  <2>4. CASE y # p
    <3>1. T \ {p} \in Good /\ T \ {y} \in Good
      BY <1>1, <2>2
    <3>2. SumFunctionOnSet(f, T \ {p}) = f[y] + SumFunctionOnSet(f, both)
      BY <2>2, <2>4, <3>1
    <3>3. SumFunctionOnSet(f, T \ {y}) = f[p] + SumFunctionOnSet(f, (T \ {y}) \ {p})
      BY <2>2, <2>4, <3>1
    <3>4. (T \ {y}) \ {p} = both
      OBVIOUS
    <3>5. SumFunctionOnSet(f, both) \in Int
      BY SumType, FS_Subset
    <3>6. f[p] \in Int /\ f[y] \in Int
      BY <2>2
    <3>7. SumFunctionOnSet(f, T \ {y}) = f[p] + SumFunctionOnSet(f, both)
      BY <3>3, <3>4
    <3>8. SumFunctionOnSet(f, T) = f[y] + SumFunctionOnSet(f, T \ {y})
      <4> HIDE DEF p, both
      <4>1. QED
        BY ONLY <2>2, <3>2, <3>5, <3>6, <3>7
    <3>9. QED
      BY <3>8
  <2>5. QED
    BY <2>3, <2>4
<1>2. \A T \in SUBSET S : T \in Good
  <2> HIDE DEF Good
  <2>1. QED
    BY <1>1, SubsetInduction
<1>3. QED
  BY <1>2

(* Sums compare as their terms do, and functions with equal terms have      *)
(* equal sums.                                                              *)
LEMMA SumMonotonic ==
  ASSUME NEW S, IsFiniteSet(S), NEW f, NEW g,
         \A x \in S : f[x] \in Int /\ g[x] \in Int /\ f[x] <= g[x]
  PROVE  SumFunctionOnSet(f, S) <= SumFunctionOnSet(g, S)
<1> DEFINE Good == {T \in SUBSET S : SumFunctionOnSet(f, T) <= SumFunctionOnSet(g, T)}
<1>1. ASSUME NEW T \in SUBSET S, \A U \in SUBSET T : U # T => U \in Good
      PROVE  T \in Good
  <2> DEFINE p == Picked(T)
             rest == T \ {p}
  <2>1. CASE T = {}
    BY <2>1, SumEmpty
  <2>2. CASE T # {}
    <3>1. IsFiniteSet(T)
      BY FS_Subset
    <3>2. p \in T /\ SumFunctionOnSet(f, T) = f[p] + SumFunctionOnSet(f, rest)
                  /\ SumFunctionOnSet(g, T) = g[p] + SumFunctionOnSet(g, rest)
      BY <2>2, <3>1, SumPicked
    <3>3. SumFunctionOnSet(f, rest) <= SumFunctionOnSet(g, rest)
      BY <1>1, <3>2
    <3>4. SumFunctionOnSet(f, rest) \in Int /\ SumFunctionOnSet(g, rest) \in Int
      <4>1. IsFiniteSet(rest) /\ \A x \in rest : f[x] \in Int /\ g[x] \in Int
        BY FS_Subset
      <4>2. QED
        <5> HIDE DEF rest
        <5>1. QED
          BY <4>1, SumType
    <3>5. f[p] \in Int /\ g[p] \in Int /\ f[p] <= g[p]
      BY <3>2
    <3>6. SumFunctionOnSet(f, T) <= SumFunctionOnSet(g, T)
      <4> HIDE DEF p, rest
      <4>1. QED
        BY ONLY <3>2, <3>3, <3>4, <3>5
    <3>7. QED
      BY <3>6
  <2>3. QED
    BY <2>1, <2>2
<1>2. \A T \in SUBSET S : T \in Good
  <2> HIDE DEF Good
  <2>1. QED
    BY <1>1, SubsetInduction
<1>3. QED
  BY <1>2

LEMMA SumSame ==
  ASSUME NEW S, IsFiniteSet(S), NEW f, NEW g, \A x \in S : f[x] = g[x]
  PROVE  SumFunctionOnSet(f, S) = SumFunctionOnSet(g, S)
<1> DEFINE Good == {T \in SUBSET S : SumFunctionOnSet(f, T) = SumFunctionOnSet(g, T)}
<1>1. ASSUME NEW T \in SUBSET S, \A U \in SUBSET T : U # T => U \in Good
      PROVE  T \in Good
  <2> DEFINE p == Picked(T)
             rest == T \ {p}
  <2>1. CASE T = {}
    BY <2>1, SumEmpty
  <2>2. CASE T # {}
    <3>1. IsFiniteSet(T)
      BY FS_Subset
    <3>2. p \in T /\ SumFunctionOnSet(f, T) = f[p] + SumFunctionOnSet(f, rest)
                  /\ SumFunctionOnSet(g, T) = g[p] + SumFunctionOnSet(g, rest)
      BY <2>2, <3>1, SumPicked
    <3>3. SumFunctionOnSet(f, rest) = SumFunctionOnSet(g, rest)
      BY <1>1, <3>2
    <3>4. QED
      BY <3>2, <3>3
  <2>3. QED
    BY <2>1, <2>2
<1>2. \A T \in SUBSET S : T \in Good
  <2> HIDE DEF Good
  <2>1. QED
    BY <1>1, SubsetInduction
<1>3. QED
  BY <1>2

(* The sum of the sums is the sum of the terms.                             *)
LEMMA SumPlus ==
  ASSUME NEW S, IsFiniteSet(S), NEW f, NEW g, NEW h,
         \A x \in S : f[x] \in Int /\ g[x] \in Int /\ h[x] = f[x] + g[x]
  PROVE  SumFunctionOnSet(h, S) = SumFunctionOnSet(f, S) + SumFunctionOnSet(g, S)
<1> DEFINE Good == {T \in SUBSET S :
                SumFunctionOnSet(h, T) = SumFunctionOnSet(f, T) + SumFunctionOnSet(g, T)}
<1>1. ASSUME NEW T \in SUBSET S, \A U \in SUBSET T : U # T => U \in Good
      PROVE  T \in Good
  <2> DEFINE p == Picked(T)
             rest == T \ {p}
  <2>1. CASE T = {}
    BY <2>1, SumEmpty
  <2>2. CASE T # {}
    <3>1. IsFiniteSet(T)
      BY FS_Subset
    <3>2. p \in T /\ SumFunctionOnSet(f, T) = f[p] + SumFunctionOnSet(f, rest)
                  /\ SumFunctionOnSet(g, T) = g[p] + SumFunctionOnSet(g, rest)
                  /\ SumFunctionOnSet(h, T) = h[p] + SumFunctionOnSet(h, rest)
      BY <2>2, <3>1, SumPicked
    <3>3. SumFunctionOnSet(h, rest) = SumFunctionOnSet(f, rest) + SumFunctionOnSet(g, rest)
      BY <1>1, <3>2
    <3>4. SumFunctionOnSet(f, rest) \in Int /\ SumFunctionOnSet(g, rest) \in Int
      <4>1. IsFiniteSet(rest) /\ \A x \in rest : f[x] \in Int /\ g[x] \in Int
        BY FS_Subset
      <4>2. QED
        <5> HIDE DEF rest
        <5>1. QED
          BY <4>1, SumType
    <3>5. f[p] \in Int /\ g[p] \in Int /\ h[p] = f[p] + g[p]
      BY <3>2
    <3>6. SumFunctionOnSet(h, T) = SumFunctionOnSet(f, T) + SumFunctionOnSet(g, T)
      <4> HIDE DEF p, rest
      <4>1. QED
        BY ONLY <3>2, <3>3, <3>4, <3>5
    <3>7. QED
      BY <3>6
  <2>3. QED
    BY <2>1, <2>2
<1>2. \A T \in SUBSET S : T \in Good
  <2> HIDE DEF Good
  <2>1. QED
    BY <1>1, SubsetInduction
<1>3. QED
  BY <1>2

(* Terms outside D that are zero do not count.                              *)
LEMMA SumWithoutZeros ==
  ASSUME NEW S, IsFiniteSet(S), NEW D \in SUBSET S, NEW f, \A x \in S : f[x] \in Int,
         \A x \in S \ D : f[x] = 0
  PROVE  SumFunctionOnSet(f, S) = SumFunctionOnSet(f, D)
<1> DEFINE Good == {T \in SUBSET S :
                      D \subseteq T => SumFunctionOnSet(f, T) = SumFunctionOnSet(f, D)}
<1>1. ASSUME NEW T \in SUBSET S, \A U \in SUBSET T : U # T => U \in Good
      PROVE  T \in Good
  <2> SUFFICES ASSUME D \subseteq T, D # T
               PROVE  SumFunctionOnSet(f, T) = SumFunctionOnSet(f, D)
    OBVIOUS
  <2>1. PICK y \in T : y \notin D
    OBVIOUS
  <2>2. SumFunctionOnSet(f, T) = f[y] + SumFunctionOnSet(f, T \ {y})
    BY SumRemove, FS_Subset
  <2>3. SumFunctionOnSet(f, T \ {y}) = SumFunctionOnSet(f, D)
    BY <1>1, <2>1
  <2>4. f[y] = 0 /\ SumFunctionOnSet(f, D) \in Int
    BY <2>1, SumType, FS_Subset
  <2>5. QED
    BY ONLY <2>2, <2>3, <2>4
<1>2. \A T \in SUBSET S : T \in Good
  <2> HIDE DEF Good
  <2>1. QED
    BY <1>1, SubsetInduction
<1>3. QED
  BY <1>2

(* A change of one term changes the sum by as much.                         *)
LEMMA SumChange ==
  ASSUME NEW S, IsFiniteSet(S), NEW f, NEW g, NEW a \in S,
         \A x \in S : f[x] \in Int /\ g[x] \in Int,
         \A x \in S \ {a} : g[x] = f[x]
  PROVE  SumFunctionOnSet(g, S) = SumFunctionOnSet(f, S) + (g[a] - f[a])
<1>1. SumFunctionOnSet(g, S) = g[a] + SumFunctionOnSet(g, S \ {a})
  BY SumRemove
<1>2. SumFunctionOnSet(f, S) = f[a] + SumFunctionOnSet(f, S \ {a})
  BY SumRemove
<1>3. SumFunctionOnSet(g, S \ {a}) = SumFunctionOnSet(f, S \ {a})
  BY SumSame, FS_Subset
<1>4. SumFunctionOnSet(f, S \ {a}) \in Int
  BY SumType, FS_Subset
<1>5. QED
  BY ONLY <1>1, <1>2, <1>3, <1>4, f[a] \in Int, g[a] \in Int

(* A change of the terms of D changes the sum by the sum of the changes.    *)
LEMMA SumChangeOn ==
  ASSUME NEW S, IsFiniteSet(S), NEW D \in SUBSET S, NEW f, NEW g, NEW d,
         \A x \in S : f[x] \in Int,
         \A x \in D : d[x] \in Int /\ g[x] = f[x] + d[x],
         \A x \in S \ D : g[x] = f[x]
  PROVE  SumFunctionOnSet(g, S) = SumFunctionOnSet(f, S) + SumFunctionOnSet(d, D)
<1> DEFINE e == [x \in S |-> IF x \in D THEN d[x] ELSE 0]
<1>1. \A x \in S : e[x] \in Int /\ g[x] = f[x] + e[x]
  OBVIOUS
<1>2. /\ \A x \in S \ D : e[x] = 0
      /\ \A x \in D : e[x] = d[x]
  OBVIOUS
<1> HIDE DEF e
<1>3. SumFunctionOnSet(g, S) = SumFunctionOnSet(f, S) + SumFunctionOnSet(e, S)
  BY <1>1, SumPlus
<1>4. SumFunctionOnSet(e, S) = SumFunctionOnSet(e, D)
  BY <1>1, <1>2, SumWithoutZeros
<1>5. SumFunctionOnSet(e, D) = SumFunctionOnSet(d, D)
  BY <1>2, SumSame, FS_Subset
<1>6. QED
  BY <1>3, <1>4, <1>5

(* What one term gives another changes no sum.                              *)
LEMMA SumMove ==
  ASSUME NEW S, IsFiniteSet(S), NEW f, NEW g, NEW a \in S, NEW b \in S, a # b,
         \A x \in S : f[x] \in Int /\ g[x] \in Int,
         \A x \in S \ {a, b} : g[x] = f[x],
         g[a] + g[b] = f[a] + f[b]
  PROVE  SumFunctionOnSet(g, S) = SumFunctionOnSet(f, S)
<1> DEFINE mid == [x \in S |-> IF x = a THEN g[a] ELSE f[x]]
<1>1. mid[a] = g[a] /\ mid[b] = f[b]
  OBVIOUS
<1>2. \A x \in S : f[x] \in Int /\ mid[x] \in Int
  OBVIOUS
<1>3. \A x \in S \ {a} : mid[x] = f[x]
  OBVIOUS
<1>4. \A x \in S : mid[x] \in Int /\ g[x] \in Int
  OBVIOUS
<1>5. \A x \in S \ {b} : g[x] = mid[x]
  OBVIOUS
<1> HIDE DEF mid
<1>6. SumFunctionOnSet(mid, S) = SumFunctionOnSet(f, S) + (mid[a] - f[a])
  BY ONLY <1>2, <1>3, SumChange, IsFiniteSet(S), a \in S
<1>7. SumFunctionOnSet(g, S) = SumFunctionOnSet(mid, S) + (g[b] - mid[b])
  BY ONLY <1>4, <1>5, SumChange, IsFiniteSet(S), b \in S
<1>8. SumFunctionOnSet(f, S) \in Int
  BY SumType
<1> QED
  BY <1>1, <1>6, <1>7, <1>8

LEMMA SumOfZeros ==
  ASSUME NEW S, IsFiniteSet(S), NEW f, \A x \in S : f[x] = 0
  PROVE  SumFunctionOnSet(f, S) = 0
<1>1. SumFunctionOnSet(f, S) = SumFunctionOnSet(f, {})
  BY SumWithoutZeros
<1>2. QED
  BY <1>1, SumEmpty

LEMMA SumNegated ==
  ASSUME NEW S, IsFiniteSet(S), NEW f, NEW g, \A x \in S : f[x] \in Int /\ g[x] = -f[x]
  PROVE  SumFunctionOnSet(g, S) = -SumFunctionOnSet(f, S)
<1> DEFINE z == [x \in S |-> 0]
<1>1. \A x \in S : f[x] \in Int /\ g[x] \in Int /\ z[x] = f[x] + g[x] /\ z[x] = 0
  OBVIOUS
<1> HIDE DEF z
<1>2. SumFunctionOnSet(z, S) = SumFunctionOnSet(f, S) + SumFunctionOnSet(g, S)
  BY <1>1, SumPlus
<1>3. SumFunctionOnSet(z, S) = 0
  BY <1>1, SumOfZeros
<1>4. SumFunctionOnSet(f, S) \in Int /\ SumFunctionOnSet(g, S) \in Int
  BY <1>1, SumType
<1>5. QED
  BY ONLY <1>2, <1>3, <1>4

(* A term of naturals is at most the sum, and the sum over a part at most   *)
(* the sum over the whole.                                                  *)
LEMMA SumBounds ==
  ASSUME NEW S, IsFiniteSet(S), NEW f, \A x \in S : f[x] \in Nat, NEW D \in SUBSET S
  PROVE  /\ SumFunctionOnSet(f, D) <= SumFunctionOnSet(f, S)
         /\ \A a \in S : f[a] <= SumFunctionOnSet(f, S)
<1>1. \A a \in S : f[a] <= SumFunctionOnSet(f, S)
  <2> SUFFICES ASSUME NEW a \in S PROVE f[a] <= SumFunctionOnSet(f, S)
    OBVIOUS
  <2>1. SumFunctionOnSet(f, S) = f[a] + SumFunctionOnSet(f, S \ {a})
    BY SumRemove
  <2>2. SumFunctionOnSet(f, S \ {a}) \in Nat
    BY SumType, FS_Subset
  <2>3. QED
    BY ONLY <2>1, <2>2, f[a] \in Nat
<1>2. SumFunctionOnSet(f, D) <= SumFunctionOnSet(f, S)
  <2> DEFINE e == [x \in S |-> IF x \in D THEN f[x] ELSE 0]
  <2>1. /\ \A x \in S : e[x] \in Int /\ f[x] \in Int /\ e[x] <= f[x]
        /\ \A x \in S \ D : e[x] = 0
        /\ \A x \in D : e[x] = f[x]
    OBVIOUS
  <2> HIDE DEF e
  <2>2. SumFunctionOnSet(e, S) <= SumFunctionOnSet(f, S)
    BY <2>1, SumMonotonic
  <2>3. SumFunctionOnSet(e, S) = SumFunctionOnSet(e, D)
    BY <2>1, SumWithoutZeros
  <2>4. SumFunctionOnSet(e, D) = SumFunctionOnSet(f, D)
    BY <2>1, SumSame, FS_Subset
  <2>5. QED
    BY <2>2, <2>3, <2>4
<1>3. QED
  BY <1>1, <1>2

(* The sum of a function is its sum over its domain.                        *)
LEMMA SumOfFunction ==
  ASSUME NEW f, NEW S, DOMAIN f = S PROVE SumFunction(f) = SumFunctionOnSet(f, S)
  BY DEF SumFunction

(* A sum over the parts of a set is the sum over the set.                   *)
LEMMA SumOfParts ==
  ASSUME NEW S, IsFiniteSet(S), NEW R, IsFiniteSet(R), NEW p, \A x \in S : p[x] \in R,
         NEW f, \A x \in S : f[x] \in Int,
         NEW parts, \A r \in R : parts[r] \subseteq S /\ \A x \in S : x \in parts[r] <=> p[x] = r,
         NEW g, \A r \in R : g[r] = SumFunctionOnSet(f, parts[r])
  PROVE  SumFunctionOnSet(g, R) = SumFunctionOnSet(f, S)
<1> DEFINE part(T, r) == {x \in T : p[x] = r}
           sums(T) == [r \in R |-> SumFunctionOnSet(f, part(T, r))]
           Good == {T \in SUBSET S : SumFunctionOnSet(sums(T), R) = SumFunctionOnSet(f, T)}
<1>1. ASSUME NEW T \in SUBSET S, \A U \in SUBSET T : U # T => U \in Good
      PROVE  T \in Good
  <2>1. CASE T = {}
    <3>1. \A r \in R : part(T, r) = {}
      BY <2>1
    <3>2. \A r \in R : sums(T)[r] = 0
      <4> HIDE DEF part
      <4> QED BY <3>1, SumEmpty
    <3>3. SumFunctionOnSet(sums(T), R) = 0
      <4> HIDE DEF sums
      <4> QED BY ONLY <3>2, SumOfZeros, IsFiniteSet(R)
    <3> HIDE DEF sums
    <3> QED BY <2>1, <3>3, SumEmpty
  <2>2. CASE T # {}
    <3>1. PICK a \in T : TRUE
      BY <2>2
    <3>2. PICK U : U = T \ {a}
      OBVIOUS
    <3>3. U \in Good /\ U \in SUBSET S
      BY <1>1, <3>1, <3>2
    <3>4. SumFunctionOnSet(sums(U), R) = SumFunctionOnSet(f, U)
      BY <3>3
    <3>5. \A V \in SUBSET S : IsFiniteSet(V) /\ \A x \in V : f[x] \in Int
      BY FS_Subset
    <3>6. SumFunctionOnSet(f, T) = f[a] + SumFunctionOnSet(f, U)
      <4>1. IsFiniteSet(T) /\ \A x \in T : f[x] \in Int
        BY <3>5
      <4> QED BY ONLY <3>1, <3>2, <4>1, SumRemove
    <3>7. PICK b \in R : b = p[a]
      BY <3>1
    <3>8. SumFunctionOnSet(f, part(T, b)) = f[a] + SumFunctionOnSet(f, part(U, b))
      <4>1. a \in part(T, b) /\ part(U, b) = part(T, b) \ {a} /\ part(T, b) \in SUBSET S
        BY <3>1, <3>2, <3>7
      <4> HIDE DEF part
      <4>2. IsFiniteSet(part(T, b)) /\ \A x \in part(T, b) : f[x] \in Int
        BY <3>5, <4>1
      <4> QED BY ONLY <4>1, <4>2, SumRemove
    <3>9. \A r \in R \ {b} : part(T, r) = part(U, r)
      BY <3>2, <3>7
    <3>10. \A V \in SUBSET S : \A r \in R : sums(V)[r] = SumFunctionOnSet(f, part(V, r)) /\ sums(V)[r] \in Int
      <4>1. ASSUME NEW V \in SUBSET S, NEW r \in R PROVE SumFunctionOnSet(f, part(V, r)) \in Int
        <5>1. part(V, r) \in SUBSET S
          OBVIOUS
        <5> HIDE DEF part
        <5>2. IsFiniteSet(part(V, r)) /\ \A x \in part(V, r) : f[x] \in Int
          BY <3>5, <5>1
        <5> QED BY ONLY <5>2, SumType
      <4> HIDE DEF part
      <4> QED BY <4>1
    <3> HIDE DEF part, sums
    <3>11. \A r \in R : sums(U)[r] \in Int /\ sums(T)[r] \in Int
      BY <3>3, <3>10
    <3>12. \A r \in R \ {b} : sums(T)[r] = sums(U)[r]
      BY <3>3, <3>9, <3>10
    <3>13. SumFunctionOnSet(sums(T), R) = SumFunctionOnSet(sums(U), R) + (sums(T)[b] - sums(U)[b])
      BY ONLY <3>11, <3>12, SumChange, IsFiniteSet(R), b \in R
    <3>14. sums(T)[b] = f[a] + sums(U)[b] /\ sums(U)[b] \in Int /\ f[a] \in Int
      BY <3>1, <3>3, <3>8, <3>10
    <3>15. SumFunctionOnSet(f, U) \in Int
      <4>1. IsFiniteSet(U) /\ \A x \in U : f[x] \in Int
        BY <3>3, <3>5
      <4> QED BY ONLY <4>1, SumType
    <3>16. SumFunctionOnSet(sums(T), R) = SumFunctionOnSet(f, T)
      BY ONLY <3>4, <3>6, <3>13, <3>14, <3>15
    <3> QED BY <3>16
  <2> QED BY <2>1, <2>2
<1>2. \A T \in SUBSET S : T \in Good
  <2> HIDE DEF Good
  <2> QED BY <1>1, SubsetInduction
<1>3. SumFunctionOnSet(sums(S), R) = SumFunctionOnSet(f, S)
  <2>1. S \in Good
    BY <1>2
  <2> QED BY <2>1
<1>4. \A r \in R : sums(S)[r] = g[r]
  <2>1. \A r \in R : parts[r] = part(S, r)
    OBVIOUS
  <2>2. \A r \in R : sums(S)[r] = SumFunctionOnSet(f, part(S, r))
    OBVIOUS
  <2> HIDE DEF part, sums
  <2> QED BY <2>1, <2>2
<1>5. SumFunctionOnSet(sums(S), R) = SumFunctionOnSet(g, R)
  <2> HIDE DEF sums
  <2> QED BY ONLY <1>4, SumSame, IsFiniteSet(R)
<1> QED BY ONLY <1>3, <1>5

-----------------------------------------------------------------------------
(* Counting in a word: what the remainder by its size forgets.              *)

LEMMA DivisionOf ==
  ASSUME NEW n \in Nat \ {0}, NEW x \in Int
  PROVE  x = n * (x \div n) + (x % n) /\ x % n \in 0 .. n - 1 /\ x \div n \in Int
  OBVIOUS

LEMMA NoMultipleBetween ==
  ASSUME NEW n \in Nat \ {0}, NEW m \in Int, n * m < n, -n < n * m
  PROVE  m = 0
<1>1. m >= 1 => n * m >= n
  OBVIOUS
<1>2. m <= -1 => n * m <= -n
  OBVIOUS
<1> QED
  BY <1>1, <1>2

(* Numbers that differ by a multiple have the same remainder.               *)
LEMMA SameRemainder ==
  ASSUME NEW n \in Nat \ {0}, NEW x \in Int, NEW y \in Int, NEW k \in Int, x = y + n * k
  PROVE  x % n = y % n
<1> DEFINE p == x \div n
           q == y \div n
           a == x % n
           b == y % n
<1>1. /\ x = n * p + a /\ a \in 0 .. n - 1 /\ p \in Int
      /\ y = n * q + b /\ b \in 0 .. n - 1 /\ q \in Int
  BY DivisionOf
<1> HIDE DEF p, q, a, b
<1>2. a - b = n * ((q + k) - p)
  <2>1. n * ((q + k) - p) = (n * q + n * k) - n * p
    BY <1>1
  <2> QED
    BY <1>1, <2>1
<1>3. (q + k) - p = 0
  <2>1. PICK m \in Int : m = (q + k) - p
    BY <1>1
  <2>2. a - b = n * m
    BY <1>2, <2>1
  <2> QED
    BY <1>1, <2>1, <2>2, NoMultipleBetween
<1>4. a = b
  BY <1>1, <1>2, <1>3
<1> QED
  BY <1>4 DEF a, b

(* A total kept modulo n follows its parts: c is given to the part b.       *)
LEMMA RemainderAfterGift ==
  ASSUME NEW n \in Nat \ {0}, NEW total \in Int, NEW b \in Int, NEW c \in Int
  PROVE  ((total % n) + c) % n = (total + (((b + c) % n) - b)) % n
<1> DEFINE p == total \div n
           q == (b + c) \div n
           s == total % n
           m == (b + c) % n
<1>1. total = n * p + s /\ s \in Int /\ p \in Int /\ b + c = n * q + m /\ m \in Int /\ q \in Int
  BY DivisionOf, b + c \in Int
<1> HIDE DEF p, q, s, m
<1>2. s + c = (total + (m - b)) + n * (q - p)
  <2>1. n * (q - p) = n * q - n * p
    BY <1>1
  <2> QED
    BY <1>1, <2>1
<1>3. (s + c) % n = (total + (m - b)) % n
  <2>1. PICK x, y, k : x = s + c /\ y = total + (m - b) /\ k = q - p
    OBVIOUS
  <2>2. x \in Int /\ y \in Int /\ k \in Int /\ x = y + n * k
    BY <1>1, <1>2, <2>1
  <2>3. x % n = y % n
    BY <2>2, SameRemainder
  <2> QED
    BY <2>1, <2>3
<1> QED
  BY <1>3 DEF s, m

LEMMA RemainderAfterPayment ==
  ASSUME NEW n \in Nat \ {0}, NEW total \in Int, NEW c \in Int
  PROVE  ((total % n) - c) % n = (total - c) % n
<1> DEFINE p == total \div n
           s == total % n
<1>1. total = n * p + s /\ s \in Int /\ p \in Int
  BY DivisionOf
<1> HIDE DEF p, s
<1>2. PICK x, y, k : x = s - c /\ y = total - c /\ k = -p
  OBVIOUS
<1>3. x \in Int /\ y \in Int /\ k \in Int /\ x = y + n * k
  BY <1>1, <1>2
<1>4. x % n = y % n
  BY <1>3, SameRemainder
<1> QED
  BY <1>2, <1>4 DEF s

(* Of some numbers one is the least.                                        *)
LEMMA LeastNumber ==
  ASSUME NEW S \in SUBSET Nat, S # {}
  PROVE  \E m \in S : \A k \in S : m <= k
<1>1. PICK R : R = OpToRel(<, Nat)
  OBVIOUS
<1>2. PICK m \in S : \A k \in S : ~(<<k, m>> \in R)
  BY <1>1, NatLessThanWellFounded, WFMin
<1>3. \A k \in S : k < m => <<k, m>> \in R
  BY <1>1 DEF OpToRel
<1>4. ASSUME NEW k \in S PROVE m <= k
  <2>1. k \in Nat /\ m \in Nat /\ ~(k < m)
    BY <1>2, <1>3
  <2> QED
    BY ONLY <2>1
<1> QED
  BY <1>4

(* What holds of 0 and, whenever it holds of a number, of the next holds of *)
(* every number.                                                            *)
LEMMA CountUp ==
  ASSUME NEW Good, 0 \in Good, \A n \in Nat : n \in Good => n + 1 \in Good
  PROVE  \A n \in Nat : n \in Good
<1> DEFINE Bad == {n \in Nat : n \notin Good}
<1>1. SUFFICES ASSUME Bad # {} PROVE FALSE
  OBVIOUS
<1>2. PICK m \in Bad : \A k \in Bad : m <= k
  <2>1. Bad \in SUBSET Nat
    OBVIOUS
  <2> HIDE DEF Bad
  <2> QED BY <1>1, <2>1, LeastNumber
<1>3. m \in Nat /\ m # 0 /\ m - 1 \in Nat /\ (m - 1) + 1 = m
  BY <1>2
<1>4. m - 1 \in Good
  BY <1>2, <1>3
<1> QED BY <1>2, <1>3, <1>4

LEMMA GreatestNumber ==
  ASSUME NEW S \in SUBSET Nat, S # {}, NEW n \in Nat, \A k \in S : k <= n
  PROVE  Max(S) \in S /\ \A k \in S : k <= Max(S)
<1> DEFINE R == {n - k : k \in S}
<1>1. R \in SUBSET Nat /\ R # {}
  <2>1. \A k \in S : k \in Nat /\ n - k \in Nat
    OBVIOUS
  <2> QED BY <2>1
<1>2. PICK r \in R : \A k \in R : r <= k
  <2> HIDE DEF R
  <2> QED BY <1>1, LeastNumber
<1>3. PICK m \in S : r = n - m
  OBVIOUS
<1>4. \A k \in S : m >= k
  <2> SUFFICES ASSUME NEW k \in S PROVE m >= k
    OBVIOUS
  <2>1. n - m <= n - k
    BY <1>2, <1>3
  <2> QED BY <2>1
<1>5. \E x \in S : \A y \in S : x >= y
  BY <1>4
<1> QED BY <1>5 DEF Max

LEMMA SmallestNumber ==
  ASSUME NEW S \in SUBSET Nat, S # {}
  PROVE  Min(S) \in S /\ \A k \in S : Min(S) <= k
BY LeastNumber DEF Min

-----------------------------------------------------------------------------
(* Shares, each rounded down                                               *)

(* A sum of multiples is the multiple of the sum.                           *)
LEMMA SumScaled ==
  ASSUME NEW S, IsFiniteSet(S), NEW n \in Nat, NEW f, NEW g,
         \A x \in S : f[x] \in Int /\ g[x] = n * f[x]
  PROVE  SumFunctionOnSet(g, S) = n * SumFunctionOnSet(f, S)
<1> DEFINE Good == {T \in SUBSET S : SumFunctionOnSet(g, T) = n * SumFunctionOnSet(f, T)}
<1>1. ASSUME NEW T \in SUBSET S, \A U \in SUBSET T : U # T => U \in Good
      PROVE  T \in Good
  <2>1. IsFiniteSet(T)
    BY FS_Subset
  <2>2. CASE T = {}
    BY <2>2, SumEmpty
  <2>3. CASE T # {}
    <3> DEFINE p == Picked(T)
               rest == T \ {p}
    <3>1. /\ p \in T /\ SumFunctionOnSet(f, T) = f[p] + SumFunctionOnSet(f, rest)
          /\ SumFunctionOnSet(g, T) = g[p] + SumFunctionOnSet(g, rest)
      BY <2>1, <2>3, SumPicked
    <3>2. SumFunctionOnSet(g, rest) = n * SumFunctionOnSet(f, rest)
      BY <1>1, <3>1
    <3>3. PICK a \in Int : a = f[p] /\ g[p] = n * a
      BY <3>1
    <3>4. PICK b \in Int : b = SumFunctionOnSet(f, rest)
      BY <2>1, SumType, FS_Subset
    <3> HIDE DEF p, rest
    <3>5. n * a + n * b = n * (a + b)
      OBVIOUS
    <3>6. SumFunctionOnSet(g, T) = n * SumFunctionOnSet(f, T)
      BY <3>1, <3>2, <3>3, <3>4, <3>5
    <3> QED BY <3>6
  <2> QED BY <2>2, <2>3
<1>2. \A T \in SUBSET S : T \in Good
  <2> HIDE DEF Good
  <2> QED BY <1>1, SubsetInduction
<1> QED BY <1>2

LEMMA RoundedDown ==
  ASSUME NEW n \in Nat, n > 0, NEW x \in Nat
  PROVE  x \div n \in Nat /\ n * (x \div n) <= x
<1>1. n \in Nat \ {0} /\ x \in Int
  OBVIOUS
<1>2. PICK q \in Int : q = x \div n
  BY <1>1, DivisionOf
<1>3. PICK r \in 0 .. n - 1 : x = n * q + r
  BY <1>1, <1>2, DivisionOf
<1>4. q >= 0
  <2>1. q <= -1 => n * q <= -n
    OBVIOUS
  <2> QED BY <1>3, <2>1
<1>5. n * q \in Int
  OBVIOUS
<1> QED BY <1>2, <1>3, <1>4, <1>5

(* Shares of a budget that are in the proportion of amounts, each rounded   *)
(* down, do not exceed the budget.                                          *)
LEMMA SharesWithinBudget ==
  ASSUME NEW S, IsFiniteSet(S), NEW amount, NEW total \in Nat, total > 0, NEW budget \in Nat,
         \A x \in S : amount[x] \in Nat, total = SumFunctionOnSet(amount, S),
         NEW share, \A x \in S : share[x] = (amount[x] * budget) \div total
  PROVE  SumFunctionOnSet(share, S) <= budget /\ \A x \in S : share[x] \in Nat
<1> DEFINE upper == [x \in S |-> budget * amount[x]]
           lower == [x \in S |-> total * share[x]]
<1>1. ASSUME NEW x \in S
      PROVE  share[x] \in Nat /\ lower[x] \in Int /\ upper[x] \in Int /\ lower[x] <= upper[x]
  <2>1. PICK a \in Nat : a = amount[x]
    OBVIOUS
  <2>2. PICK y \in Nat : y = a * budget /\ y = budget * a
    OBVIOUS
  <2>3. y \div total \in Nat /\ total * (y \div total) <= y
    BY RoundedDown
  <2>4. PICK q \in Nat : q = y \div total
    BY <2>3
  <2>5. share[x] = q /\ lower[x] = total * q /\ upper[x] = y
    BY <2>1, <2>2, <2>4
  <2>6. total * q \in Int /\ total * q <= y
    BY <2>3, <2>4
  <2> QED BY <2>5, <2>6
<1>2. SumFunctionOnSet(lower, S) <= SumFunctionOnSet(upper, S)
  <2>1. \A x \in S : lower[x] \in Int /\ upper[x] \in Int /\ lower[x] <= upper[x]
    BY <1>1
  <2> HIDE DEF lower, upper
  <2> QED BY <2>1, SumMonotonic
<1>3. SumFunctionOnSet(upper, S) = budget * total
  <2>1. \A x \in S : amount[x] \in Int /\ upper[x] = budget * amount[x]
    OBVIOUS
  <2> HIDE DEF upper
  <2> QED BY <2>1, SumScaled
<1>4. SumFunctionOnSet(lower, S) = total * SumFunctionOnSet(share, S)
  <2>1. \A x \in S : share[x] \in Int /\ lower[x] = total * share[x]
    BY <1>1
  <2> HIDE DEF lower
  <2> QED BY <2>1, SumScaled
<1>5. PICK q \in Int : q = SumFunctionOnSet(share, S)
  <2>1. \A x \in S : share[x] \in Int
    BY <1>1
  <2> QED BY <2>1, SumType
<1>6. total * q <= budget * total
  BY <1>2, <1>3, <1>4, <1>5
<1>7. q <= budget
  <2>1. q >= budget + 1 => total * q >= total * (budget + 1)
    OBVIOUS
  <2>2. total * (budget + 1) = budget * total + total
    OBVIOUS
  <2>3. total * q \in Int /\ budget * total \in Int
    OBVIOUS
  <2> QED BY <1>6, <2>1, <2>2, <2>3
<1> QED BY <1>1, <1>5, <1>7

-----------------------------------------------------------------------------
(* What is defined by recursion exists.                                     *)

(* A value that is made of the one before, n times.                         *)
MadeStepwise(f, n, V, base, step) ==
  f \in [0 .. n -> V] /\ f[0] = base /\ \A i \in 1 .. n : f[i] = step[i][f[i - 1]]

(* There is such a sequence of values.                                      *)
LEMMA StepByStep ==
  ASSUME NEW n \in Nat, NEW V, NEW base \in V, NEW step \in [1 .. n -> [V -> V]]
  PROVE  \E f : MadeStepwise(f, n, V, base, step)
<1> DEFINE Upto(f, m) == f[0] = base /\ \A i \in 1 .. m : f[i] = step[i][f[i - 1]]
           Good == {m \in Nat : m <= n => \E f \in [0 .. m -> V] : Upto(f, m)}
<1>1. 0 \in Good
  <2> DEFINE f == [i \in 0 .. 0 |-> base]
  <2>1. f \in [0 .. 0 -> V] /\ Upto(f, 0)
    OBVIOUS
  <2> QED BY <2>1
<1>2. ASSUME NEW m \in Nat, m \in Good PROVE m + 1 \in Good
  <2>1. SUFFICES ASSUME m + 1 <= n PROVE \E f \in [0 .. m + 1 -> V] : Upto(f, m + 1)
    OBVIOUS
  <2>2. PICK f \in [0 .. m -> V] : Upto(f, m)
    BY <1>2, <2>1
  <2> DEFINE g == [i \in 0 .. m + 1 |-> IF i = m + 1 THEN step[m + 1][f[m]] ELSE f[i]]
  <2>3. f[m] \in V /\ step[m + 1] \in [V -> V]
    BY <2>1
  <2>4. g \in [0 .. m + 1 -> V]
    BY <2>3
  <2>5. g[0] = base
    BY <2>2
  <2>6. ASSUME NEW i \in 1 .. m + 1 PROVE g[i] = step[i][g[i - 1]]
    <3>1. CASE i = m + 1
      BY <3>1
    <3>2. CASE i # m + 1
      <4>1. i \in 1 .. m /\ i - 1 \in 0 .. m /\ i - 1 # m + 1
        BY <3>2
      <4>2. g[i] = f[i] /\ g[i - 1] = f[i - 1]
        BY <4>1, <3>2
      <4> QED BY <2>2, <4>1, <4>2
    <3> QED BY <3>1, <3>2
  <2> HIDE DEF g
  <2> QED BY <2>4, <2>5, <2>6
<1>3. \A m \in Nat : m \in Good
  <2> HIDE DEF Good
  <2> QED BY <1>1, <1>2, CountUp
<1> QED BY <1>3 DEF MadeStepwise

(* The same over the subsets of a finite set, each made of the one without  *)
(* the element picked.                                                      *)
MadeBySubsets(f, S, V, base, step, pick) ==
  /\ f \in [SUBSET S -> V]
  /\ f = [T \in SUBSET S |-> IF T = {} THEN base ELSE step[pick[T]][f[T \ {pick[T]}]]]

(* There is such a function.                                                *)
LEMMA SubsetBySubset ==
  ASSUME NEW S, IsFiniteSet(S), NEW V, NEW base \in V, NEW step \in [S -> [V -> V]],
         NEW pick, \A T \in SUBSET S : T # {} => pick[T] \in T
  PROVE  \E f : MadeBySubsets(f, S, V, base, step, pick)
<1> DEFINE Made(f) == [T \in SUBSET S |-> IF T = {} THEN base ELSE step[pick[T]][f[T \ {pick[T]}]]]
           W == [SUBSET S -> V]
           n == Cardinality(S) + 1
           make == [i \in 1 .. n |-> [f \in W |-> Made(f)]]
           flat == [T \in SUBSET S |-> base]
<1>0. n \in Nat /\ n >= 1
  BY FS_CardinalityType
<1>1. ASSUME NEW f \in W PROVE Made(f) \in W
  <2> SUFFICES ASSUME NEW T \in SUBSET S
               PROVE (IF T = {} THEN base ELSE step[pick[T]][f[T \ {pick[T]}]]) \in V
    OBVIOUS
  <2>1. CASE T # {}
    <3>1. pick[T] \in S /\ T \ {pick[T]} \in SUBSET S
      BY <2>1
    <3>2. f[T \ {pick[T]}] \in V /\ step[pick[T]] \in [V -> V]
      BY <3>1
    <3> QED BY <3>2
  <2> QED BY <2>1
<1>2. PICK F \in [0 .. n -> W] : F[0] = flat /\ \A i \in 1 .. n : F[i] = make[i][F[i - 1]]
  <2>1. make \in [1 .. n -> [W -> W]]
    BY <1>1
  <2>2. flat \in W
    OBVIOUS
  <2>3. n \in Nat
    BY <1>0
  <2> HIDE DEF make, flat, n, W
  <2>4. PICK F : MadeStepwise(F, n, W, flat, make)
    BY ONLY <2>1, <2>2, <2>3, StepByStep
  <2> QED BY <2>4 DEF MadeStepwise
<1>3. \A i \in 1 .. n : F[i] = Made(F[i - 1])
  <2> SUFFICES ASSUME NEW i \in 1 .. n PROVE F[i] = Made(F[i - 1])
    OBVIOUS
  <2>1. i - 1 \in 0 .. n
    BY <1>0
  <2>2. F[i - 1] \in W
    BY <2>1
  <2>3. make[i] = [f \in W |-> Made(f)]
    OBVIOUS
  <2> HIDE DEF make, Made, W
  <2> QED BY <1>2, <2>2, <2>3
<1>r. ASSUME NEW i \in 1 .. n, NEW T \in SUBSET S
      PROVE  F[i][T] = IF T = {} THEN base ELSE step[pick[T]][F[i - 1][T \ {pick[T]}]]
  <2>1. F[i] = Made(F[i - 1])
    BY <1>3
  <2> QED BY <2>1
<1>4. \A T \in SUBSET S : T \in {U \in SUBSET S : \A i \in 1 .. n : Cardinality(U) < i => F[i][U] = F[i - 1][U]}
  <2> DEFINE Good == {U \in SUBSET S : \A i \in 1 .. n : Cardinality(U) < i => F[i][U] = F[i - 1][U]}
  <2>1. ASSUME NEW T \in SUBSET S, \A U \in SUBSET T : U # T => U \in Good
        PROVE  T \in Good
    <3> SUFFICES ASSUME NEW i \in 1 .. n, Cardinality(T) < i PROVE F[i][T] = F[i - 1][T]
      OBVIOUS
    <3>f. IsFiniteSet(T)
      BY FS_Subset
    <3>1. CASE T = {}
      <4>1. F[i][T] = base
        BY <1>r, <3>1
      <4>2. CASE i = 1
        BY <1>2, <3>1, <4>1, <4>2
      <4>3. CASE i # 1
        <5>1. i - 1 \in 1 .. n
          BY <1>0, <4>3
        <5> QED BY <1>r, <3>1, <4>1, <5>1
      <4> QED BY <4>2, <4>3
    <3>2. CASE T # {}
      <4> DEFINE U == T \ {pick[T]}
      <4>1. pick[T] \in T /\ U \in SUBSET T /\ U # T /\ U \in SUBSET S
        BY <3>2
      <4>2. Cardinality(U) = Cardinality(T) - 1 /\ Cardinality(T) \in Nat /\ Cardinality(U) \in Nat
        BY <3>f, <4>1, FS_RemoveElement, FS_CardinalityType, FS_Subset
      <4>3. i - 1 \in 1 .. n /\ i - 1 - 1 = i - 2
        BY <1>0, <4>2
      <4>4. F[i][T] = step[pick[T]][F[i - 1][U]]
        BY <1>r, <3>2
      <4>5. F[i - 1][T] = step[pick[T]][F[i - 1 - 1][U]]
        BY <1>r, <3>2, <4>3
      <4>6. Cardinality(U) < i - 1
        BY <4>2
      <4>7. F[i - 1][U] = F[i - 1 - 1][U]
        <5> HIDE DEF U
        <5> QED BY <2>1, <4>1, <4>3, <4>6
      <4> QED BY <4>4, <4>5, <4>7
    <3> QED BY <3>1, <3>2
  <2> HIDE DEF Good
  <2>2. \A T \in SUBSET S : T \in Good
    BY <2>1, SubsetInduction
  <2> QED BY <2>2 DEF Good
<1>5. \A T \in SUBSET S : F[n][T] = F[n - 1][T]
  <2> SUFFICES ASSUME NEW T \in SUBSET S PROVE F[n][T] = F[n - 1][T]
    OBVIOUS
  <2>1. Cardinality(T) <= Cardinality(S) /\ Cardinality(T) \in Nat /\ Cardinality(S) \in Nat
    BY FS_Subset, FS_CardinalityType
  <2> QED BY <1>0, <1>4, <2>1
<1>6. F[n] \in W /\ F[n - 1] \in W /\ F[n] = Made(F[n - 1])
  <2>1. n \in 0 .. n /\ n - 1 \in 0 .. n /\ n \in 1 .. n
    BY <1>0
  <2> HIDE DEF n, W, Made
  <2> QED BY <1>3, <2>1
<1>7. F[n] = F[n - 1]
  <2>1. F[n] = [T \in SUBSET S |-> F[n][T]] /\ F[n - 1] = [T \in SUBSET S |-> F[n - 1][T]]
    BY <1>6
  <2> HIDE DEF n
  <2> QED BY <1>5, <2>1
<1>8. F[n] = Made(F[n])
  BY <1>6, <1>7
<1>9. PICK f : f = F[n]
  OBVIOUS
<1>10. f \in [SUBSET S -> V] /\ f = Made(f)
  <2> HIDE DEF n, Made
  <2> QED BY <1>6, <1>8, <1>9
<1> QED BY ONLY <1>10 DEF MadeBySubsets

-----------------------------------------------------------------------------
(* Lists                                                                   *)

(* Lists are finite.                                                        *)
LEMMA ListIsFinite ==
  ASSUME NEW S, NEW s \in Seq(S)
  PROVE  /\ DOMAIN s \in SUBSET Nat /\ IsFiniteSet(DOMAIN s) /\ DOMAIN s = 1 .. Len(s) /\ Len(s) \in Nat
         /\ IsFiniteSet(ToSet(s)) /\ ToSet(s) \subseteq S
<1>1. Len(s) \in Nat /\ DOMAIN s = 1 .. Len(s)
  OBVIOUS
<1>2. IsFiniteSet(1 .. Len(s))
  BY <1>1, FS_Interval
<1>3. ToSet(s) = {s[i] : i \in DOMAIN s}
  BY DEF ToSet
<1>4. IsFiniteSet(ToSet(s))
  <2>1. PICK f : f = [i \in DOMAIN s |-> s[i]]
    OBVIOUS
  <2>2. f \in Surjection(DOMAIN s, ToSet(s))
    BY <1>3, <2>1 DEF Surjection
  <2> QED BY <1>1, <1>2, <2>2, FS_Surjection
<1>5. ToSet(s) \subseteq S
  BY <1>3
<1> QED BY <1>1, <1>2, <1>4, <1>5

(* The k-th of some numbers, in order.                                      *)
KthOf(K, k) == CHOOSE i \in K : Cardinality({j \in K : j <= i}) = k

(* The numbers, counted up: each of them once, and in order.                *)
CountedUp(K) ==
  /\ Cardinality(K) \in Nat
  /\ \A k \in 1 .. Cardinality(K) : KthOf(K, k) \in K
  /\ \A i \in K : \E k \in 1 .. Cardinality(K) : KthOf(K, k) = i
  /\ \A k, l \in 1 .. Cardinality(K) : k < l => KthOf(K, k) < KthOf(K, l)

LEMMA KthInOrder ==
  ASSUME NEW K \in SUBSET Nat, IsFiniteSet(K)
  PROVE  CountedUp(K)
<1> DEFINE n == Cardinality(K)
           Upto(i) == {j \in K : j <= i}
           rank == [i \in K |-> Cardinality(Upto(i))]
<1>1. n \in Nat
  BY FS_CardinalityType
<1>2. ASSUME NEW i \in K PROVE rank[i] \in 1 .. n /\ rank[i] = Cardinality(Upto(i)) /\ IsFiniteSet(Upto(i))
  <2>1. Upto(i) \in SUBSET K /\ i \in Upto(i) /\ rank[i] = Cardinality(Upto(i))
    OBVIOUS
  <2> HIDE DEF Upto, rank
  <2>2. IsFiniteSet(Upto(i)) /\ Cardinality(Upto(i)) <= n
    BY <2>1, FS_Subset
  <2>3. Cardinality(Upto(i)) \in Nat /\ Cardinality(Upto(i)) # 0
    BY <2>1, <2>2, FS_CardinalityType, FS_EmptySet
  <2> QED BY <1>1, <2>1, <2>2, <2>3
<1>3. ASSUME NEW i \in K, NEW j \in K, i < j PROVE rank[i] < rank[j]
  <2>1. Upto(i) \in SUBSET Upto(j) /\ j \in Upto(j) /\ j \notin Upto(i)
    <3>1. i \in Nat /\ j \in Nat /\ i < j
      BY <1>3
    <3>2. \A x \in K : x \in Nat /\ (x <= i => x <= j)
      BY <3>1
    <3>3. ~(j <= i) /\ j <= j
      BY <3>1
    <3>4. Upto(i) \in SUBSET Upto(j)
      BY <3>2
    <3> QED BY <3>3, <3>4
  <2> HIDE DEF Upto, rank
  <2>2. Cardinality(Upto(i)) <= Cardinality(Upto(j)) /\ Cardinality(Upto(j)) # Cardinality(Upto(i))
    BY <1>2, <2>1, FS_Subset
  <2> QED BY <1>2, <2>2
<1>4. ASSUME NEW i \in K, NEW j \in K, rank[i] = rank[j] PROVE i = j
  <2>1. i \in Nat /\ j \in Nat /\ rank[i] \in Nat /\ rank[j] \in Nat
    <3> HIDE DEF rank, Upto, n
    <3> QED BY <1>1, <1>2
  <2>2. ~(i < j) /\ ~(j < i)
    <3> HIDE DEF rank, Upto
    <3>1. i < j => rank[i] < rank[j]
      BY <1>3
    <3>2. j < i => rank[j] < rank[i]
      BY <1>3
    <3> QED BY <1>4, <2>1, <3>1, <3>2
  <2> QED BY <2>1, <2>2
<1>5. ASSUME NEW k \in 1 .. n PROVE \E i \in K : rank[i] = k
  <2>1. rank \in Injection(K, 1 .. n)
    <3>1. rank \in [K -> 1 .. n]
      <4>1. rank = [i \in K |-> rank[i]]
        OBVIOUS
      <4> HIDE DEF rank
      <4> QED BY <1>2, <4>1
    <3> HIDE DEF rank
    <3> QED BY <1>4, <3>1 DEF Injection, IsInjective
  <2>2. IsFiniteSet(1 .. n) /\ Cardinality(1 .. n) = n
    BY <1>1, FS_Interval
  <2>3. rank \in Surjection(K, 1 .. n)
    <3> HIDE DEF rank
    <3> QED BY <2>1, <2>2, FS_Injection
  <2> QED BY <2>3 DEF Surjection
<1>6. ASSUME NEW i \in K PROVE KthOf(K, rank[i]) = i
  <2>1. rank[i] = Cardinality({j \in K : j <= i})
    OBVIOUS
  <2>2. \A x \in K : Cardinality({j \in K : j <= x}) = rank[x]
    OBVIOUS
  <2> HIDE DEF rank, Upto
  <2> QED BY <1>4, <2>1, <2>2 DEF KthOf
<1> HIDE DEF rank, Upto
<1>7. ASSUME NEW k \in 1 .. n PROVE KthOf(K, k) \in K /\ rank[KthOf(K, k)] = k
  <2>1. PICK i \in K : rank[i] = k
    BY <1>5
  <2> QED BY <1>6, <2>1
<1>8. ASSUME NEW k \in 1 .. n, NEW l \in 1 .. n, k < l PROVE KthOf(K, k) < KthOf(K, l)
  <2>1. PICK i \in K : i = KthOf(K, k) /\ rank[i] = k
    BY <1>7
  <2>2. PICK j \in K : j = KthOf(K, l) /\ rank[j] = l
    BY <1>7
  <2>3. i \in Nat /\ j \in Nat /\ k \in Nat /\ l \in Nat
    BY <1>1
  <2>4. ~(j < i) /\ i # j
    BY <1>3, <1>8, <2>1, <2>2, <2>3
  <2> QED BY <2>1, <2>2, <2>3, <2>4
<1> QED BY <1>1, <1>2, <1>6, <1>7, <1>8 DEF CountedUp

(* A list that holds nobody twice is as long as there are entries.          *)
LEMMA LengthIsCardinality ==
  ASSUME NEW S, NEW s \in Seq(S), IsInjective(s)
  PROVE  Cardinality(ToSet(s)) = Len(s) /\ IsFiniteSet(ToSet(s))
<1>1. /\ Len(s) \in Nat /\ DOMAIN s = 1 .. Len(s) /\ IsFiniteSet(ToSet(s))
      /\ s \in [1 .. Len(s) -> ToSet(s)]
  BY ListIsFinite DEF ToSet
<1>2. s \in Bijection(1 .. Len(s), ToSet(s))
  BY <1>1 DEF Bijection, Injection, Surjection, IsInjective, ToSet
<1>3. IsFiniteSet(1 .. Len(s)) /\ Cardinality(1 .. Len(s)) = Len(s)
  BY <1>1, FS_Interval
<1>4. Cardinality(1 .. Len(s)) = Cardinality(ToSet(s))
  BY <1>2, <1>3, FS_Bijection DEF ExistsBijection
<1> QED BY <1>1, <1>3, <1>4

LEMMA EmptyList ==
  ASSUME NEW S PROVE <<>> \in Seq(S) /\ ToSet(<<>>) = {} /\ IsInjective(<<>>) /\ DOMAIN <<>> = {}
  BY DEF ToSet, IsInjective

(* What Append adds.                                                        *)
LEMMA AppendedList ==
  ASSUME NEW S, NEW s \in Seq(S), NEW x \in S
  PROVE  /\ Append(s, x) \in Seq(S) /\ ToSet(Append(s, x)) = ToSet(s) \cup {x}
         /\ IsInjective(s) /\ x \notin ToSet(s) => IsInjective(Append(s, x))
<1>1. /\ Append(s, x) \in Seq(S) /\ Len(Append(s, x)) = Len(s) + 1 /\ Len(s) \in Nat
      /\ DOMAIN Append(s, x) = 1 .. Len(s) + 1 /\ DOMAIN s = 1 .. Len(s)
      /\ Append(s, x)[Len(s) + 1] = x
      /\ \A i \in 1 .. Len(s) : Append(s, x)[i] = s[i]
  OBVIOUS
<1>2. \A i \in 1 .. Len(s) + 1 : i \in 1 .. Len(s) \/ i = Len(s) + 1
  BY <1>1
<1>3. ToSet(Append(s, x)) = ToSet(s) \cup {x}
  <2> HIDE <1>2
  <2>1. \A y \in ToSet(Append(s, x)) : y \in ToSet(s) \cup {x}
    BY <1>1, <1>2 DEF ToSet
  <2>2. \A y \in ToSet(s) : y \in ToSet(Append(s, x))
    BY <1>1 DEF ToSet
  <2>3. x \in ToSet(Append(s, x))
    BY <1>1 DEF ToSet
  <2> QED BY <2>1, <2>2, <2>3
<1>4. ASSUME IsInjective(s), x \notin ToSet(s) PROVE IsInjective(Append(s, x))
  BY <1>1, <1>2, <1>4 DEF IsInjective, ToSet
<1> QED BY <1>1, <1>3, <1>4

(* What \o joins.                                                           *)
LEMMA JoinedLists ==
  ASSUME NEW S, NEW s \in Seq(S), NEW t \in Seq(S)
  PROVE  /\ s \o t \in Seq(S) /\ ToSet(s \o t) = ToSet(s) \cup ToSet(t)
         /\ IsInjective(s) /\ IsInjective(t) /\ ToSet(s) \cap ToSet(t) = {} => IsInjective(s \o t)
<1> DEFINE m == Len(s)
           n == Len(t)
           u == s \o t
<1>1. /\ u \in Seq(S) /\ m \in Nat /\ n \in Nat /\ DOMAIN u = 1 .. m + n
      /\ DOMAIN s = 1 .. m /\ DOMAIN t = 1 .. n
      /\ \A i \in 1 .. m : u[i] = s[i]
      /\ \A i \in 1 .. n : u[m + i] = t[i]
  OBVIOUS
<1> HIDE DEF m, n, u
<1>2. \A i \in DOMAIN u : i \in DOMAIN s \/ \E j \in DOMAIN t : i = m + j
  <2> SUFFICES ASSUME NEW i \in 1 .. m + n, i \notin 1 .. m PROVE \E j \in 1 .. n : i = m + j
    BY <1>1
  <2>1. i - m \in 1 .. n /\ i = m + (i - m)
    BY <1>1
  <2> QED BY <2>1
<1>3. ToSet(u) = ToSet(s) \cup ToSet(t)
  <2>1. \A y \in ToSet(u) : y \in ToSet(s) \cup ToSet(t)
    BY <1>1, <1>2 DEF ToSet
  <2>2. \A y \in ToSet(s) : y \in ToSet(u)
    <3>1. \A i \in 1 .. m : i \in 1 .. m + n
      BY <1>1
    <3> QED BY <1>1, <3>1 DEF ToSet
  <2>3. \A y \in ToSet(t) : y \in ToSet(u)
    <3>1. \A i \in 1 .. n : m + i \in 1 .. m + n
      BY <1>1
    <3> QED BY <1>1, <3>1 DEF ToSet
  <2> QED BY <2>1, <2>2, <2>3
<1>4. ASSUME IsInjective(s), IsInjective(t), ToSet(s) \cap ToSet(t) = {} PROVE IsInjective(u)
  <2> SUFFICES ASSUME NEW a \in DOMAIN u, NEW b \in DOMAIN u, u[a] = u[b] PROVE a = b
    BY DEF IsInjective
  <2>1. \A i \in DOMAIN s, j \in DOMAIN t : s[i] # t[j]
    BY <1>4 DEF ToSet
  <2>2. CASE a \in DOMAIN s /\ b \in DOMAIN s
    BY <1>1, <1>4, <2>2 DEF IsInjective
  <2>3. ASSUME NEW i \in DOMAIN t, a = m + i, NEW j \in DOMAIN t, b = m + j PROVE a = b
    BY <1>1, <1>4, <2>3 DEF IsInjective
  <2>4. ASSUME a \in DOMAIN s, NEW j \in DOMAIN t, b = m + j PROVE FALSE
    BY <1>1, <2>1, <2>4
  <2>5. ASSUME b \in DOMAIN s, NEW j \in DOMAIN t, a = m + j PROVE FALSE
    BY <1>1, <2>1, <2>5
  <2> QED BY <1>2, <2>2, <2>3, <2>4, <2>5
<1>5. m = Len(s) /\ u = s \o t
  BY DEF m, u
<1> QED BY <1>1, <1>3, <1>4, <1>5

(* FlattenSeq joins the lists one after the other.                          *)
JoinedStepwise(F, q) ==
  \A i \in 1 .. Len(q) : F[i] = IF i = 1 THEN q[i] ELSE F[i - 1] \o q[i]

LEMMA FlattenSteps ==
  ASSUME NEW S, NEW q \in Seq(Seq(S)), Len(q) # 0
  PROVE  \E F : JoinedStepwise(F, q) /\ FlattenSeq(q) = F[Len(q)]
<1> DEFINE n == Len(q)
           step == [i \in 1 .. n |-> [v \in Seq(S) |-> v \o q[i]]]
           Eq(F) == F = [i \in 1 .. n |-> IF i = 1 THEN q[i] ELSE F[i - 1] \o q[i]]
           C == CHOOSE F : Eq(F)
<1>a. /\ n \in Nat /\ DOMAIN q = 1 .. n /\ <<>> \in Seq(S)
      /\ \A i \in 1 .. n : q[i] \in Seq(S)
  OBVIOUS
<1>b. n # 0
  OBVIOUS
<1>1. step \in [1 .. n -> [Seq(S) -> Seq(S)]]
  <2> SUFFICES ASSUME NEW i \in 1 .. n, NEW v \in Seq(S) PROVE v \o q[i] \in Seq(S)
    OBVIOUS
  <2> QED BY <1>a
<1>2. PICK F : MadeStepwise(F, n, Seq(S), <<>>, step)
  <2> HIDE DEF n, step
  <2> QED BY <1>a, <1>1, StepByStep
<1> DEFINE R == [i \in 1 .. n |-> F[i]]
<1>3. ASSUME NEW i \in 1 .. n PROVE F[i] = IF i = 1 THEN q[i] ELSE F[i - 1] \o q[i]
  <2>1. F[i] = step[i][F[i - 1]] /\ F \in [0 .. n -> Seq(S)] /\ F[0] = <<>>
    BY <1>2 DEF MadeStepwise
  <2>2. i - 1 \in 0 .. n
    BY <1>a
  <2>3. F[i - 1] \in Seq(S)
    BY <2>1, <2>2
  <2>4. step[i] = [v \in Seq(S) |-> v \o q[i]]
    OBVIOUS
  <2>5. F[i] = F[i - 1] \o q[i]
    <3> HIDE DEF step
    <3> QED BY <2>1, <2>3, <2>4
  <2>6. i = 1 => F[i - 1] \o q[i] = q[i]
    <3>1. \A t \in Seq(S) : <<>> \o t = t
      BY ONLY ConcatEmptySeq
    <3>2. F[0] = <<>> /\ q[i] \in Seq(S)
      BY <1>a, <2>1
    <3>3. i = 1 => i - 1 = 0
      OBVIOUS
    <3> HIDE DEF step
    <3> QED BY ONLY <3>1, <3>2, <3>3
  <2> QED BY <2>5, <2>6
<1>4. Eq(R)
  <2>1. ASSUME NEW i \in 1 .. n PROVE R[i] = IF i = 1 THEN q[i] ELSE R[i - 1] \o q[i]
    <3>1. i # 1 => i - 1 \in 1 .. n
      BY <1>a
    <3>2. R[i] = F[i] /\ (i # 1 => R[i - 1] = F[i - 1])
      BY <3>1
    <3>3. F[i] = IF i = 1 THEN q[i] ELSE F[i - 1] \o q[i]
      BY <1>3
    <3> HIDE DEF R
    <3>4. CASE i = 1
      BY <3>2, <3>3, <3>4
    <3>5. CASE i # 1
      BY <3>2, <3>3, <3>5
    <3> QED BY <3>4, <3>5
  <2> HIDE DEF n
  <2>2. R = [i \in 1 .. n |-> R[i]]
    OBVIOUS
  <2> HIDE DEF R
  <2> QED BY <2>1, <2>2
<1>5. Eq(C)
  <2> HIDE DEF Eq, R
  <2> QED BY <1>4
<1>6. FlattenSeq(q) = C[n]
  BY <1>b DEF FlattenSeq
<1> HIDE DEF C
<1>7. \A i \in 1 .. n : C[i] = IF i = 1 THEN q[i] ELSE C[i - 1] \o q[i]
  <2> HIDE DEF n
  <2> QED BY <1>5
<1> QED BY <1>6, <1>7 DEF JoinedStepwise

(* What FlattenSeq of the community modules returns.                        *)
LEMMA FlattenIs ==
  ASSUME NEW S, NEW q \in Seq(Seq(S))
  PROVE  /\ FlattenSeq(q) \in Seq(S)
         /\ \A x : x \in ToSet(FlattenSeq(q)) <=> \E i \in DOMAIN q : x \in ToSet(q[i])
         /\ /\ \A i \in DOMAIN q : IsInjective(q[i])
            /\ \A i, j \in DOMAIN q : i # j => ToSet(q[i]) \cap ToSet(q[j]) = {}
            => IsInjective(FlattenSeq(q))
<1> DEFINE n == Len(q)
           Apart == /\ \A i \in DOMAIN q : IsInjective(q[i])
                    /\ \A i, j \in DOMAIN q : i # j => ToSet(q[i]) \cap ToSet(q[j]) = {}
<1>1. /\ n \in Nat /\ DOMAIN q = 1 .. n /\ <<>> \in Seq(S)
      /\ \A i \in 1 .. n : q[i] \in Seq(S)
  OBVIOUS
<1>2. CASE n = 0
  <2>0. Len(q) = 0 /\ q = <<>>
    BY <1>2
  <2>1. FlattenSeq(q) = q
    BY <2>0, Zenon DEF FlattenSeq
  <2>2. FlattenSeq(q) \in Seq(S) /\ IsInjective(FlattenSeq(q)) /\ ToSet(FlattenSeq(q)) = {}
        /\ DOMAIN q = {}
    BY <2>0, <2>1, EmptyList, Zenon
  <2> QED BY <2>2
<1>3. CASE n # 0
  <2>5. PICK C : JoinedStepwise(C, q) /\ FlattenSeq(q) = C[n]
    <3>1. Len(q) # 0
      BY <1>3
    <3> QED BY <3>1, FlattenSteps
  <2>6. FlattenSeq(q) = C[n]
    BY <2>5
  <2>7. \A i \in 1 .. n : C[i] = IF i = 1 THEN q[i] ELSE C[i - 1] \o q[i]
    BY <2>5 DEF JoinedStepwise
  <2> DEFINE Upto(m) == /\ C[m] \in Seq(S)
                        /\ \A x : x \in ToSet(C[m]) <=> \E i \in 1 .. m : x \in ToSet(q[i])
                        /\ Apart => IsInjective(C[m])
             Good == {m \in Nat : m + 1 <= n => Upto(m + 1)}
  <2>8. 0 \in Good
    <3>1. 1 \in 1 .. n /\ C[1] = q[1]
      BY <1>1, <1>3, <2>7
    <3>2. Upto(1)
      <4>1. C[1] \in Seq(S)
        BY <1>1, <3>1
      <4>2. \A i \in 1 .. 1 : i = 1
        OBVIOUS
      <4>3. 1 \in 1 .. 1 /\ 1 \in DOMAIN q
        BY <1>1, <3>1
      <4>4. \A x : x \in ToSet(C[1]) <=> \E i \in 1 .. 1 : x \in ToSet(q[i])
        BY ONLY <3>1, <4>2, <4>3, Zenon
      <4>5. Apart => IsInjective(C[1])
        BY ONLY <3>1, <4>3, Zenon
      <4> QED BY ONLY <4>1, <4>4, <4>5
    <3> HIDE DEF Upto
    <3> QED BY <3>2
  <2>9. ASSUME NEW m \in Nat, m \in Good PROVE m + 1 \in Good
    <3> SUFFICES ASSUME m + 2 <= n PROVE Upto(m + 2)
      <4>1. m + 1 + 1 = m + 2
        OBVIOUS
      <4> HIDE DEF Upto
      <4> QED BY <4>1
    <3>1. Upto(m + 1)
      <4>1. m + 1 <= n
        BY <1>1
      <4> HIDE DEF Upto
      <4> QED BY <2>9, <4>1
    <3>2. /\ m + 2 \in 1 .. n /\ m + 2 # 1 /\ (m + 2) - 1 = m + 1
          /\ \A i \in 1 .. m + 1 : i \in 1 .. n /\ i # m + 2
          /\ \A i \in 1 .. m + 2 : i \in 1 .. m + 1 \/ i = m + 2
          /\ \A i \in 1 .. m + 1 : i \in 1 .. m + 2
          /\ m + 2 \in 1 .. m + 2
      BY <1>1
    <3>3. C[m + 2] = C[m + 1] \o q[m + 2] /\ q[m + 2] \in Seq(S) /\ C[m + 1] \in Seq(S)
      BY <1>1, <2>7, <3>1, <3>2
    <3>4. /\ C[m + 2] \in Seq(S)
          /\ ToSet(C[m + 2]) = ToSet(C[m + 1]) \cup ToSet(q[m + 2])
          /\ IsInjective(C[m + 1]) /\ IsInjective(q[m + 2])
             /\ ToSet(C[m + 1]) \cap ToSet(q[m + 2]) = {} => IsInjective(C[m + 2])
      BY ONLY <3>3, JoinedLists
    <3>5. \A x : x \in ToSet(C[m + 2]) <=> \E i \in 1 .. m + 2 : x \in ToSet(q[i])
      BY <3>1, <3>2, <3>4
    <3>6. ASSUME Apart PROVE IsInjective(C[m + 2])
      <4>1. IsInjective(C[m + 1]) /\ IsInjective(q[m + 2])
        BY <1>1, <3>1, <3>2, <3>6
      <4>2. \A i \in 1 .. m + 1 : ToSet(q[i]) \cap ToSet(q[m + 2]) = {}
        BY <1>1, <3>2, <3>6
      <4>3. ToSet(C[m + 1]) \cap ToSet(q[m + 2]) = {}
        BY <3>1, <4>2
      <4> QED BY <3>4, <4>1, <4>3
    <3> QED BY <3>4, <3>5, <3>6
  <2>10. n - 1 \in Good
    <3>1. n - 1 \in Nat
      BY <1>1, <1>3
    <3> HIDE DEF Good, n
    <3> QED BY <2>8, <2>9, <3>1, CountUp
  <2>11. Upto(n)
    <3>1. n - 1 + 1 = n /\ n <= n
      BY <1>1
    <3> HIDE DEF Upto, n
    <3> QED BY <2>10, <3>1
  <2> QED BY <1>1, <2>6, <2>11
<1> QED BY <1>1, <1>2, <1>3

(* What Contains of the community modules asks.                             *)
LEMMA ContainsIs ==
  ASSUME NEW S, NEW s \in Seq(S), NEW x PROVE Contains(s, x) <=> x \in ToSet(s)
<1>1. DOMAIN s = 1 .. Len(s)
  OBVIOUS
<1> QED BY <1>1 DEF Contains, ToSet

(* SetToSeq lists a finite set, everyone once.                              *)
LEMMA SetAsList ==
  ASSUME NEW S, IsFiniteSet(S)
  PROVE  /\ SetToSeq(S) \in Seq(S) /\ IsInjective(SetToSeq(S)) /\ ToSet(SetToSeq(S)) = S
<1> DEFINE n == Cardinality(S)
           F == {f \in [1 .. n -> S] : IsInjective(f)}
<1>1. n \in Nat /\ ExistsBijection(1 .. n, S)
  BY FS_CardinalityType
<1>2. PICK f : f \in Bijection(1 .. n, S)
  BY <1>1 DEF ExistsBijection
<1>3. f \in [1 .. n -> S] /\ IsInjective(f)
  BY <1>2 DEF Bijection, Injection, IsInjective
<1>4. SetToSeq(S) \in [1 .. n -> S] /\ IsInjective(SetToSeq(S))
  BY <1>3 DEF SetToSeq
<1> DEFINE s == SetToSeq(S)
<1>5. s \in Seq(S) /\ DOMAIN s = 1 .. n /\ Len(s) = n
  <2> HIDE DEF s, n
  <2>1. s \in [1 .. n -> S]
    BY <1>4 DEF s
  <2>2. n \in Nat
    BY <1>1
  <2> QED BY <2>1, <2>2
<1>6. ToSet(s) \subseteq S
  BY <1>4 DEF ToSet
<1>7. Cardinality(ToSet(s)) = n
  <2> HIDE DEF s, n
  <2>1. IsInjective(s) /\ s \in Seq(S) /\ Len(s) = n
    BY <1>4, <1>5 DEF s
  <2> QED BY <2>1, LengthIsCardinality
<1>8. ToSet(s) = S
  BY <1>6, <1>7, FS_Subset
<1> QED BY <1>4, <1>5, <1>8

-----------------------------------------------------------------------------
(* Lists that lose their first entry, or one in between.                    *)

LEMMA Popping ==
  ASSUME NEW S, NEW s \in Seq(S), s # <<>>
  PROVE  /\ s[1] \in S /\ Head(s) = s[1] /\ 1 \in DOMAIN s
         /\ Tail(s) \in Seq(S) /\ Len(Tail(s)) = Len(s) - 1
         /\ DOMAIN Tail(s) = 1 .. Len(s) - 1
         /\ \A i \in 1 .. Len(s) - 1 : Tail(s)[i] = s[i + 1]
         /\ Len(s) \in Nat /\ Len(s) > 0
<1>1. Len(s) \in Nat \ {0}
  BY EmptySeq
<1>2. Tail(s) \in Seq(S) /\ Len(Tail(s)) = Len(s) - 1
  BY HeadTailProperties
<1>3. DOMAIN Tail(s) = 1 .. Len(s) - 1 /\ DOMAIN s = 1 .. Len(s)
  BY <1>2, LenProperties
<1>4. s[1] \in S
  BY <1>1, ElementOfSeq
<1>5. Head(s) = s[1]
  BY <1>1
<1> QED
  BY <1>1, <1>2, <1>3, <1>4, <1>5, HeadTailProperties

LEMMA Adding ==
  ASSUME NEW S, NEW s \in Seq(S), NEW x \in S
  PROVE  /\ Append(s, x) \in Seq(S) /\ Len(Append(s, x)) = Len(s) + 1 /\ Len(s) \in Nat
         /\ DOMAIN Append(s, x) = 1 .. Len(s) + 1
         /\ Append(s, x)[Len(s) + 1] = x
         /\ \A i \in 1 .. Len(s) : Append(s, x)[i] = s[i]
         /\ Append(s, x) # <<>> /\ 1 .. Len(s) + 1 = (1 .. Len(s)) \cup {Len(s) + 1}
<1>1. Len(s) \in Nat
  BY LenProperties
<1>2. /\ Append(s, x) \in Seq(S) /\ Len(Append(s, x)) = Len(s) + 1
      /\ Append(s, x)[Len(s) + 1] = x
      /\ \A i \in 1 .. Len(s) : Append(s, x)[i] = s[i]
  BY <1>1
<1>3. DOMAIN Append(s, x) = 1 .. Len(s) + 1
  BY <1>2, LenProperties
<1>4. Append(s, x) # <<>>
  BY <1>1, <1>2, EmptySeq
<1>5. 1 .. Len(s) + 1 = (1 .. Len(s)) \cup {Len(s) + 1}
  BY <1>1
<1> QED
  BY <1>1, <1>2, <1>3, <1>4, <1>5

(* What is left of a list without one entry.                                *)
LEMMA RemoveAtProperties ==
  ASSUME NEW S, NEW s \in Seq(S), NEW i \in DOMAIN s
  PROVE  /\ RemoveAt(s, i) \in Seq(S)
         /\ Len(RemoveAt(s, i)) = Len(s) - 1
         /\ \A j \in 1 .. Len(s) - 1 :
              RemoveAt(s, i)[j] = IF j < i THEN s[j] ELSE s[j + 1]
<1>1. i \in 1 .. Len(s)
  OBVIOUS
<1>2. /\ SubSeq(s, 1, i - 1) \in Seq(S)
      /\ Len(SubSeq(s, 1, i - 1)) = i - 1
      /\ \A j \in 1 .. i - 1 : SubSeq(s, 1, i - 1)[j] = s[j]
  BY <1>1
<1>3. /\ SubSeq(s, i + 1, Len(s)) \in Seq(S)
      /\ Len(SubSeq(s, i + 1, Len(s))) = Len(s) - i
      /\ \A j \in 1 .. Len(s) - i : SubSeq(s, i + 1, Len(s))[j] = s[i + j]
  BY <1>1
<1>4. PICK front, back : front = SubSeq(s, 1, i - 1) /\ back = SubSeq(s, i + 1, Len(s))
  OBVIOUS
<1>5. RemoveAt(s, i) = front \o back
  BY <1>4 DEF RemoveAt
<1>6. front \in Seq(S) /\ back \in Seq(S) /\ Len(front) = i - 1 /\ Len(back) = Len(s) - i
  BY <1>2, <1>3, <1>4
<1>7. /\ front \o back \in Seq(S)
      /\ Len(front \o back) = Len(s) - 1
      /\ \A j \in 1 .. Len(s) - 1 :
           (front \o back)[j] = IF j <= Len(front) THEN front[j] ELSE back[j - Len(front)]
  <2>1. Len(front) + Len(back) = Len(s) - 1
    BY <1>1, <1>6
  <2>2. /\ front \o back \in Seq(S)
        /\ Len(front \o back) = Len(front) + Len(back)
        /\ \A j \in 1 .. Len(front) + Len(back) :
             (front \o back)[j] = IF j <= Len(front) THEN front[j] ELSE back[j - Len(front)]
    BY <1>6, ConcatProperties, Zenon
  <2> QED
    BY ONLY <2>1, <2>2, ZenonT(30)
<1>8. ASSUME NEW j \in 1 .. Len(s) - 1
      PROVE  (front \o back)[j] = IF j < i THEN s[j] ELSE s[j + 1]
  <2>1. CASE j < i
    <3>1. (front \o back)[j] = front[j]
      BY <1>1, <1>6, <1>7, <2>1
    <3>2. j \in 1 .. i - 1
      BY <1>1, <2>1
    <3>3. front[j] = s[j]
      BY ONLY <1>2, <1>4, <3>2, Zenon
    <3> QED
      BY <2>1, <3>1, <3>3
  <2>2. CASE j >= i
    <3>1. (front \o back)[j] = back[j - (i - 1)]
      <4>1. ~(j <= Len(front)) /\ Len(front) = i - 1
        BY <1>1, <1>6, <2>2
      <4> QED
        BY <1>7, <4>1
    <3>2. j - (i - 1) \in 1 .. Len(s) - i /\ i + (j - (i - 1)) = j + 1 /\ ~(j < i)
      BY <1>1, <2>2
    <3>3. back[j - (i - 1)] = s[j + 1]
      BY <1>3, <1>4, <3>2
    <3> QED
      BY <3>1, <3>2, <3>3
  <2>3. j < i \/ j >= i
    BY <1>1
  <2> QED
    BY <2>1, <2>2, <2>3
<1> QED
  BY <1>5, <1>7, <1>8

(* Numbers that all shrink by one are as many.                              *)
LEMMA ShiftedAreAsMany ==
  ASSUME NEW n \in Nat, NEW A \in SUBSET (2 .. n + 1), NEW B \in SUBSET (1 .. n),
         \A i \in 1 .. n : i \in B <=> i + 1 \in A
  PROVE  IsFiniteSet(A) /\ IsFiniteSet(B) /\ Cardinality(A) = Cardinality(B)
<1>1. IsFiniteSet(1 .. n) /\ IsFiniteSet(2 .. n + 1)
  BY FS_Interval
<1>2. IsFiniteSet(A) /\ IsFiniteSet(B)
  BY <1>1, FS_Subset
<1> DEFINE f == [i \in B |-> i + 1]
<1>3. f \in Bijection(B, A)
  <2>1. f \in [B -> A]
    OBVIOUS
  <2>2. \A i, j \in B : f[i] = f[j] => i = j
    OBVIOUS
  <2>3. \A k \in A : \E i \in B : f[i] = k
    <3> TAKE k \in A
    <3>1. k - 1 \in 1 .. n /\ (k - 1) + 1 = k
      OBVIOUS
    <3>2. k - 1 \in B
      BY <3>1
    <3> QED
      BY <3>1, <3>2
  <2> QED
    BY <2>1, <2>2, <2>3 DEF Bijection, Injection, Surjection, IsInjective
<1>4. Cardinality(A) = Cardinality(B)
  BY <1>2, <1>3, FS_Bijection DEF ExistsBijection
<1> QED
  BY <1>2, <1>4

=============================================================================
