---------------------------- MODULE SumTheorems ----------------------------
(***************************************************************************)
(* Facts about sums over finite sets.  The models keep running totals (the  *)
(* gross exposure of an event, a position split over the engines, the cost  *)
(* of a book) whose meaning is SumFunctionOnSet(f, S), so what changes the  *)
(* total by increments must be related to what changes one value, adds an   *)
(* element or takes one out.                                                *)
(*                                                                          *)
(* Functions defines the sum as a fold: a CHOOSE of the recursive function  *)
(* over the subsets of S that takes out one chosen element at a time.       *)
(* Induction on a finite set comes from the library's theorem that strict   *)
(* inclusion is well founded on the finite subsets of a set.  What is to    *)
(* be shown of every subset is passed as the SET of the subsets for which   *)
(* it holds, since the provers cannot instantiate an operator parameter;    *)
(* for the same reason the step of another fold is passed as a function.    *)
(***************************************************************************)
EXTENDS Integers, FiniteSets, Functions, FiniteSetTheorems, WellFoundedInduction, TLAPS

(* Induction on the subsets of a finite set: a set that holds every subset  *)
(* all of whose strict subsets it holds, holds them all.                    *)
LEMMA SubsetInduction ==
  ASSUME NEW S, IsFiniteSet(S), NEW Good,
         \A T \in SUBSET S : (\A U \in SUBSET T : U # T => U \in Good) => T \in Good
  PROVE  SUBSET S \subseteq Good
<1> DEFINE Bad == (SUBSET S) \ Good
           R == StrictSubsetOrdering(S)
<1> SUFFICES ASSUME Bad # {} PROVE FALSE
  OBVIOUS
<1>1. IsWellFoundedOn(R, SUBSET S)
  <2>1. FiniteSubsetsOf(S) = SUBSET S
    BY FS_FiniteSubsetsOfFinite
  <2>2. IsWellFoundedOn(R, FiniteSubsetsOf(S))
    BY FS_StrictSubsetOrderingWellFounded
  <2> HIDE DEF R
  <2> QED BY <2>1, <2>2
<1>2. PICK T \in Bad : \A U \in Bad : <<U, T>> \notin R
  <2> HIDE DEF R
  <2> Bad \subseteq SUBSET S
    OBVIOUS
  <2> HIDE DEF Bad
  <2> QED BY <1>1, WFMin
<1>3. \A U \in SUBSET T : U # T => U \in Good
  BY <1>2 DEF StrictSubsetOrdering
<1> QED BY <1>3

(* Induction on the naturals, of a set: a number stands for an interval.    *)
LEMMA NatSetInduction ==
  ASSUME NEW Good, 0 \in Good, \A n \in Nat : n \in Good => n + 1 \in Good
  PROVE  Nat \subseteq Good
<1> SUFFICES ASSUME NEW m \in Nat, m \notin Good PROVE FALSE
  OBVIOUS
<1> DEFINE S == 0..m
           Fine == {T \in SUBSET S : \A k \in Nat : T = 0..k => k \in Good}
<1>1. IsFiniteSet(S)
  BY FS_Interval
<1>2. ASSUME NEW T \in SUBSET S, \A U \in SUBSET T : U # T => U \in Fine
      PROVE  T \in Fine
  <2> SUFFICES ASSUME NEW k \in Nat, T = 0..k PROVE k \in Good
    OBVIOUS
  <2>1. CASE k = 0
    BY <2>1
  <2>2. CASE k # 0
    <3>1. k - 1 \in Nat /\ 0..(k - 1) \in SUBSET T /\ 0..(k - 1) # T
      BY <2>2
    <3>2. k - 1 \in Good
      BY <3>1, <1>2
    <3> QED BY <3>1, <3>2, (k - 1) + 1 = k
  <2> QED BY <2>1, <2>2
<1>3. SUBSET S \subseteq Fine
  <2> HIDE DEF Fine, S
  <2> QED BY <1>1, <1>2, SubsetInduction
<1> QED BY <1>3

-----------------------------------------------------------------------------
(* The fold takes this element out of T first.                              *)
Picked(T) == CHOOSE x \in T : TRUE

(* g is the recursive function that adds f up, on the sets of D.            *)
SumsOver(g, f, D) == g = [T \in D |-> IF T = {} THEN 0 ELSE f[Picked(T)] + g[T \ {Picked(T)}]]

(* A set that is not empty has an element to take out.                      *)
LEMMA PickedIn == ASSUME NEW T, T # {} PROVE Picked(T) \in T
BY DEF Picked

(* The recursive function exists on the subsets of a finite set: it exists  *)
(* on those with at most n elements, for every n.                           *)
LEMMA SumsExist ==
  ASSUME NEW S, IsFiniteSet(S), NEW f
  PROVE  \E g : SumsOver(g, f, SUBSET S)
<1> DEFINE Upto(n) == {T \in SUBSET S : Cardinality(T) <= n}
           Good == {n \in Nat : \E g : SumsOver(g, f, Upto(n))}
<1>1. \A T \in SUBSET S : IsFiniteSet(T) /\ Cardinality(T) \in Nat
                          /\ Cardinality(T) <= Cardinality(S)
  BY FS_Subset, FS_CardinalityType
<1>2. 0 \in Good
  <2>1. \A T \in Upto(0) : T = {}
    BY <1>1, FS_EmptySet
  <2>2. SumsOver([T \in Upto(0) |-> 0], f, Upto(0))
    BY <2>1 DEF SumsOver
  <2> QED BY <2>2
<1>3. ASSUME NEW n \in Nat, n \in Good PROVE n + 1 \in Good
  <2>1. PICK g : SumsOver(g, f, Upto(n))
    BY <1>3
  <2> DEFINE h == [T \in Upto(n + 1) |-> IF T \in Upto(n) THEN g[T]
                                         ELSE f[Picked(T)] + g[T \ {Picked(T)}]]
  <2>2. \A T \in Upto(n + 1) : T # {} => T \ {Picked(T)} \in Upto(n)
    <3> SUFFICES ASSUME NEW T \in Upto(n + 1), T # {} PROVE T \ {Picked(T)} \in Upto(n)
      OBVIOUS
    <3>1. Picked(T) \in T
      BY PickedIn
    <3>2. Cardinality(T \ {Picked(T)}) = Cardinality(T) - 1
      BY <1>1, <3>1, FS_RemoveElement
    <3>3. T \ {Picked(T)} \in SUBSET S /\ Cardinality(T) \in Nat /\ Cardinality(T) <= n + 1
      BY <1>1
    <3> QED BY <3>2, <3>3
  <2>3. \A T \in Upto(n) : T \in Upto(n + 1)
    BY <1>1
  <2>4. {} \in Upto(n)
    BY FS_EmptySet
  <2>5. \A T \in Upto(n) : g[T] = IF T = {} THEN 0 ELSE f[Picked(T)] + g[T \ {Picked(T)}]
    <3> HIDE DEF Upto
    <3> QED BY <2>1 DEF SumsOver
  <2>6. SumsOver(h, f, Upto(n + 1))
    <3> HIDE DEF Upto
    <3>1. \A T \in Upto(n + 1) : T # {} => h[T \ {Picked(T)}] = g[T \ {Picked(T)}]
      BY <2>2, <2>3
    <3>2. \A T \in Upto(n + 1) :
            h[T] = IF T = {} THEN 0 ELSE f[Picked(T)] + h[T \ {Picked(T)}]
      BY <3>1, <2>4, <2>5
    <3> QED BY <3>2 DEF SumsOver
  <2> HIDE DEF Upto, h
  <2> QED BY <2>6
<1>4. Nat \subseteq Good
  <2> HIDE DEF Good
  <2> QED BY <1>2, <1>3, NatSetInduction
<1>5. Cardinality(S) \in Good
  BY <1>1, <1>4
<1>6. Upto(Cardinality(S)) = SUBSET S
  BY <1>1
<1> QED BY <1>5, <1>6

(* The fold of the community modules is that function's value at S.         *)
LEMMA SumIsOver ==
  ASSUME NEW S, IsFiniteSet(S), NEW f
  PROVE  \E g : SumsOver(g, f, SUBSET S) /\ SumFunctionOnSet(f, S) = g[S]
<1> DEFINE g == CHOOSE g : SumsOver(g, f, SUBSET S)
<1>1. SumsOver(g, f, SUBSET S)
  BY SumsExist
<1>2. SumFunctionOnSet(f, S) = g[S]
  BY DEF SumFunctionOnSet, FoldFunctionOnSet, MapThenFoldSet, SumsOver, Picked
<1> QED BY <1>1, <1>2

(* It does not matter over which sets the recursion is defined.             *)
LEMMA OverUnique ==
  ASSUME NEW S, IsFiniteSet(S), NEW f, NEW T \in SUBSET S,
         NEW g, SumsOver(g, f, SUBSET S), NEW h, SumsOver(h, f, SUBSET T)
  PROVE  g[T] = h[T]
<1> DEFINE Good == {U \in SUBSET T : g[U] = h[U]}
<1>1. IsFiniteSet(T)
  BY FS_Subset
<1>2. ASSUME NEW U \in SUBSET T, \A V \in SUBSET U : V # U => V \in Good
      PROVE  U \in Good
  <2>1. g[U] = IF U = {} THEN 0 ELSE f[Picked(U)] + g[U \ {Picked(U)}]
    BY DEF SumsOver
  <2>2. h[U] = IF U = {} THEN 0 ELSE f[Picked(U)] + h[U \ {Picked(U)}]
    BY DEF SumsOver
  <2>3. CASE U # {}
    <3>1. U \ {Picked(U)} \in Good
      BY <1>2, <2>3, PickedIn
    <3> QED BY <3>1, <2>1, <2>2, <2>3
  <2> QED BY <2>1, <2>2, <2>3
<1>3. SUBSET T \subseteq Good
  <2> HIDE DEF Good
  <2> QED BY <1>1, <1>2, SubsetInduction
<1> QED BY <1>3

(* The sum over nothing.                                                    *)
LEMMA SumEmpty == \A f : SumFunctionOnSet(f, {}) = 0
<1> TAKE f
<1>1. IsFiniteSet({})
  BY FS_EmptySet
<1>2. PICK g : SumsOver(g, f, SUBSET {}) /\ SumFunctionOnSet(f, {}) = g[{}]
  BY <1>1, SumIsOver
<1> QED BY <1>2 DEF SumsOver

(* The sum with and without the element that is taken out first.            *)
LEMMA SumPicked ==
  ASSUME NEW S, IsFiniteSet(S), S # {}, NEW f
  PROVE  SumFunctionOnSet(f, S) = f[Picked(S)] + SumFunctionOnSet(f, S \ {Picked(S)})
<1> DEFINE T == S \ {Picked(S)}
<1>1. PICK g : SumsOver(g, f, SUBSET S) /\ SumFunctionOnSet(f, S) = g[S]
  BY SumIsOver
<1>2. IsFiniteSet(T) /\ T \in SUBSET S
  BY FS_RemoveElement
<1>3. PICK h : SumsOver(h, f, SUBSET T) /\ SumFunctionOnSet(f, T) = h[T]
  <2> HIDE DEF T
  <2> QED BY <1>2, SumIsOver
<1>4. g[T] = h[T]
  <2> HIDE DEF T
  <2> QED BY <1>1, <1>2, <1>3, OverUnique
<1>5. g[S] = f[Picked(S)] + g[T]
  BY <1>1 DEF SumsOver
<1> QED BY <1>1, <1>3, <1>4, <1>5

(* A sum of integers is one.                                                *)
THEOREM SumType ==
  ASSUME NEW S, IsFiniteSet(S), NEW f, \A x \in S : f[x] \in Int
  PROVE  SumFunctionOnSet(f, S) \in Int
<1> DEFINE Good == {T \in SUBSET S : SumFunctionOnSet(f, T) \in Int}
<1>1. ASSUME NEW T \in SUBSET S, \A U \in SUBSET T : U # T => U \in Good
      PROVE  T \in Good
  <2>1. CASE T = {}
    BY <2>1, SumEmpty
  <2>2. CASE T # {}
    <3>1. IsFiniteSet(T) /\ Picked(T) \in T
      BY <2>2, FS_Subset, PickedIn
    <3>2. T \ {Picked(T)} \in Good /\ f[Picked(T)] \in Int
      BY <3>1, <1>1
    <3>3. SumFunctionOnSet(f, T) = f[Picked(T)] + SumFunctionOnSet(f, T \ {Picked(T)})
      BY <2>2, <3>1, SumPicked
    <3> QED BY <3>2, <3>3
  <2> QED BY <2>1, <2>2
<1>2. SUBSET S \subseteq Good
  <2> HIDE DEF Good
  <2> QED BY <1>1, SubsetInduction
<1> QED BY <1>2

(* Any element may be taken out, not only the first.                        *)
THEOREM SumTakesOut ==
  ASSUME NEW S, IsFiniteSet(S), NEW f, \A y \in S : f[y] \in Int, NEW x \in S
  PROVE  SumFunctionOnSet(f, S) = f[x] + SumFunctionOnSet(f, S \ {x})
<1> DEFINE Sum(T) == SumFunctionOnSet(f, T)
           Good == {T \in SUBSET S : \A y \in T : Sum(T) = f[y] + Sum(T \ {y})}
<1>0. \A T \in SUBSET S : IsFiniteSet(T) /\ Sum(T) \in Int
  BY FS_Subset, SumType
<1>1. ASSUME NEW T \in SUBSET S, \A U \in SUBSET T : U # T => U \in Good
      PROVE  T \in Good
  <2> SUFFICES ASSUME NEW y \in T PROVE Sum(T) = f[y] + Sum(T \ {y})
    OBVIOUS
  <2> DEFINE p == Picked(T)
             U == T \ {p}
             V == T \ {y}
             W == T \ {p, y}
  <2>1. p \in T
    BY PickedIn
  <2>2. Sum(T) = f[p] + Sum(U)
    BY <1>0, SumPicked
  <2>3. CASE y # p
    <3>1. Sum(U) = f[y] + Sum(W)
      <4>1. U \in Good /\ y \in U /\ W = U \ {y}
        BY <1>1, <2>1, <2>3
      <4> QED BY <4>1
    <3>2. Sum(V) = f[p] + Sum(W)
      <4>1. V \in Good /\ p \in V /\ W = V \ {p}
        BY <1>1, <2>1, <2>3
      <4> QED BY <4>1
    <3>3. f[p] \in Int /\ f[y] \in Int /\ Sum(W) \in Int
      BY <1>0, <2>1
    <3> HIDE DEF Sum, p, U, V, W
    <3>4. Sum(T) = f[y] + Sum(V)
      BY <2>2, <3>1, <3>2, <3>3
    <3> QED BY <3>4 DEF V
  <2> QED BY <2>2, <2>3
<1>2. SUBSET S \subseteq Good
  <2> HIDE DEF Good
  <2> QED BY <1>1, SubsetInduction
<1> QED BY <1>2

(* Only the values on the set count.                                        *)
THEOREM SumSame ==
  ASSUME NEW S, IsFiniteSet(S), NEW f, NEW g, \A x \in S : f[x] = g[x]
  PROVE  SumFunctionOnSet(f, S) = SumFunctionOnSet(g, S)
<1> DEFINE Good == {T \in SUBSET S : SumFunctionOnSet(f, T) = SumFunctionOnSet(g, T)}
<1>1. ASSUME NEW T \in SUBSET S, \A U \in SUBSET T : U # T => U \in Good
      PROVE  T \in Good
  <2>1. CASE T = {}
    BY <2>1, SumEmpty
  <2>2. CASE T # {}
    <3>1. IsFiniteSet(T) /\ Picked(T) \in T
      BY <2>2, FS_Subset, PickedIn
    <3>2. T \ {Picked(T)} \in Good /\ f[Picked(T)] = g[Picked(T)]
      BY <3>1, <1>1
    <3>3. SumFunctionOnSet(f, T) = f[Picked(T)] + SumFunctionOnSet(f, T \ {Picked(T)})
      BY <2>2, <3>1, SumPicked
    <3>4. SumFunctionOnSet(g, T) = g[Picked(T)] + SumFunctionOnSet(g, T \ {Picked(T)})
      BY <2>2, <3>1, SumPicked
    <3> QED BY <3>2, <3>3, <3>4
  <2> QED BY <2>1, <2>2
<1>2. SUBSET S \subseteq Good
  <2> HIDE DEF Good
  <2> QED BY <1>1, SubsetInduction
<1> QED BY <1>2

(* A value that changes moves the sum by its change.                        *)
THEOREM SumChanges ==
  ASSUME NEW S, IsFiniteSet(S), NEW x \in S, NEW f, NEW g,
         \A y \in S : f[y] \in Int /\ g[y] \in Int,
         \A y \in S : y # x => g[y] = f[y]
  PROVE  SumFunctionOnSet(g, S) = SumFunctionOnSet(f, S) - f[x] + g[x]
<1> DEFINE T == S \ {x}
<1>1. SumFunctionOnSet(f, S) = f[x] + SumFunctionOnSet(f, T)
  BY SumTakesOut
<1>2. SumFunctionOnSet(g, S) = g[x] + SumFunctionOnSet(g, T)
  BY SumTakesOut
<1>3. IsFiniteSet(T) /\ \A y \in T : f[y] \in Int /\ f[y] = g[y]
  BY FS_RemoveElement
<1>4. SumFunctionOnSet(f, T) = SumFunctionOnSet(g, T) /\ SumFunctionOnSet(f, T) \in Int
  <2> HIDE DEF T
  <2> QED BY <1>3, SumSame, SumType
<1> QED BY <1>1, <1>2, <1>4

(* An element more.                                                         *)
THEOREM SumGains ==
  ASSUME NEW S, IsFiniteSet(S), NEW x, x \notin S, NEW f, \A y \in S \cup {x} : f[y] \in Int
  PROVE  SumFunctionOnSet(f, S \cup {x}) = f[x] + SumFunctionOnSet(f, S)
<1>1. IsFiniteSet(S \cup {x}) /\ (S \cup {x}) \ {x} = S
  BY FS_AddElement
<1> QED BY <1>1, SumTakesOut

(* Zeroes add up to zero.                                                   *)
THEOREM SumOfZeroes ==
  ASSUME NEW S, IsFiniteSet(S), NEW f, \A x \in S : f[x] = 0
  PROVE  SumFunctionOnSet(f, S) = 0
<1> DEFINE Good == {T \in SUBSET S : SumFunctionOnSet(f, T) = 0}
<1>1. ASSUME NEW T \in SUBSET S, \A U \in SUBSET T : U # T => U \in Good
      PROVE  T \in Good
  <2>1. CASE T = {}
    BY <2>1, SumEmpty
  <2>2. CASE T # {}
    <3>1. IsFiniteSet(T) /\ Picked(T) \in T
      BY <2>2, FS_Subset, PickedIn
    <3>2. T \ {Picked(T)} \in Good /\ f[Picked(T)] = 0
      BY <3>1, <1>1
    <3>3. SumFunctionOnSet(f, T) = f[Picked(T)] + SumFunctionOnSet(f, T \ {Picked(T)})
      BY <2>2, <3>1, SumPicked
    <3> QED BY <3>2, <3>3
  <2> QED BY <2>1, <2>2
<1>2. SUBSET S \subseteq Good
  <2> HIDE DEF Good
  <2> QED BY <1>1, SubsetInduction
<1> QED BY <1>2

(* The sum over two sets that share nothing.                                *)
THEOREM SumSplits ==
  ASSUME NEW S, IsFiniteSet(S), NEW T, IsFiniteSet(T), S \cap T = {},
         NEW f, \A x \in S \cup T : f[x] \in Int
  PROVE  SumFunctionOnSet(f, S \cup T) = SumFunctionOnSet(f, S) + SumFunctionOnSet(f, T)
<1> DEFINE Sum(U) == SumFunctionOnSet(f, U)
           Good == {U \in SUBSET T : Sum(S \cup U) = Sum(S) + Sum(U)}
<1>1. ASSUME NEW U \in SUBSET T PROVE IsFiniteSet(U) /\ IsFiniteSet(S \cup U) /\ Sum(U) \in Int
  <2>1. IsFiniteSet(U) /\ IsFiniteSet(S \cup U)
    BY FS_Subset, FS_Union
  <2> QED BY <2>1, SumType
<1>2. Sum(S) \in Int
  BY SumType
<1>3. ASSUME NEW U \in SUBSET T, \A V \in SUBSET U : V # U => V \in Good
      PROVE  U \in Good
  <2>1. CASE U = {}
    BY <1>2, <2>1, SumEmpty
  <2>2. CASE U # {}
    <3>1. PICK x : x \in U
      BY <2>2
    <3>2. U \ {x} \in Good /\ (S \cup U) \ {x} = S \cup (U \ {x})
      BY <1>3, <3>1
    <3>3. Sum(S \cup U) = f[x] + Sum(S \cup (U \ {x}))
      <4> DEFINE V == S \cup U
      <4>1. IsFiniteSet(V) /\ x \in V /\ V \ {x} = S \cup (U \ {x}) /\ \A y \in V : f[y] \in Int
        BY <1>1, <3>1, <3>2
      <4>2. Sum(V) = f[x] + Sum(V \ {x})
        <5> HIDE DEF V
        <5> QED BY <4>1, SumTakesOut
      <4> QED BY <4>1, <4>2
    <3>4. Sum(U) = f[x] + Sum(U \ {x})
      BY <1>1, <3>1, SumTakesOut
    <3>5. f[x] \in Int /\ Sum(U \ {x}) \in Int
      BY <1>1, <3>1
    <3> HIDE DEF Sum
    <3> QED BY <1>2, <3>2, <3>3, <3>4, <3>5
  <2> QED BY <2>1, <2>2
<1>4. SUBSET T \subseteq Good
  <2> HIDE DEF Good
  <2> QED BY <1>3, SubsetInduction, SMTT(30)
<1> QED BY <1>4

(* The sum of a pointwise sum.                                              *)
THEOREM SumAdds ==
  ASSUME NEW S, IsFiniteSet(S), NEW f, NEW g, NEW h,
         \A x \in S : f[x] \in Int /\ g[x] \in Int /\ h[x] = f[x] + g[x]
  PROVE  SumFunctionOnSet(h, S) = SumFunctionOnSet(f, S) + SumFunctionOnSet(g, S)
<1> DEFINE Good == {T \in SUBSET S :
              SumFunctionOnSet(h, T) = SumFunctionOnSet(f, T) + SumFunctionOnSet(g, T)}
<1>1. ASSUME NEW T \in SUBSET S, \A U \in SUBSET T : U # T => U \in Good
      PROVE  T \in Good
  <2>1. CASE T = {}
    BY <2>1, SumEmpty
  <2>2. CASE T # {}
    <3> DEFINE p == Picked(T)
               U == T \ {p}
    <3>1. IsFiniteSet(T) /\ p \in T
      BY <2>2, FS_Subset, PickedIn
    <3>2. U \in Good /\ h[p] = f[p] + g[p] /\ f[p] \in Int /\ g[p] \in Int
      BY <3>1, <1>1
    <3>3. IsFiniteSet(U) /\ U \subseteq S
      BY <3>1, FS_RemoveElement
    <3>4. SumFunctionOnSet(f, U) \in Int /\ SumFunctionOnSet(g, U) \in Int
      <4> HIDE DEF U
      <4> QED BY <3>3, SumType
    <3>5. SumFunctionOnSet(f, T) = f[p] + SumFunctionOnSet(f, U)
      BY <2>2, <3>1, SumPicked
    <3>6. SumFunctionOnSet(g, T) = g[p] + SumFunctionOnSet(g, U)
      BY <2>2, <3>1, SumPicked
    <3>7. SumFunctionOnSet(h, T) = h[p] + SumFunctionOnSet(h, U)
      BY <2>2, <3>1, SumPicked
    <3>8. SumFunctionOnSet(h, U) = SumFunctionOnSet(f, U) + SumFunctionOnSet(g, U)
      BY <3>2
    <3> HIDE DEF p, U, Good
    <3>9. SumFunctionOnSet(h, T) = SumFunctionOnSet(f, T) + SumFunctionOnSet(g, T)
      BY <3>2, <3>4, <3>5, <3>6, <3>7, <3>8
    <3> QED BY <3>9 DEF Good
  <2> QED BY <2>1, <2>2
<1>2. SUBSET S \subseteq Good
  <2> HIDE DEF Good
  <2> QED BY <1>1, SubsetInduction
<1> QED BY <1>2

(* Parts that are not negative are no more than their sum, which is not     *)
(* negative either.                                                         *)
THEOREM SumOfNaturals ==
  ASSUME NEW S, IsFiniteSet(S), NEW f, \A x \in S : f[x] \in Nat
  PROVE  /\ SumFunctionOnSet(f, S) \in Nat
         /\ \A x \in S : f[x] <= SumFunctionOnSet(f, S)
<1> DEFINE Good == {T \in SUBSET S : SumFunctionOnSet(f, T) \in Nat}
<1>1. ASSUME NEW T \in SUBSET S, \A U \in SUBSET T : U # T => U \in Good
      PROVE  T \in Good
  <2>1. CASE T = {}
    BY <2>1, SumEmpty
  <2>2. CASE T # {}
    <3>1. IsFiniteSet(T) /\ Picked(T) \in T
      BY <2>2, FS_Subset, PickedIn
    <3>2. T \ {Picked(T)} \in Good /\ f[Picked(T)] \in Nat
      BY <3>1, <1>1
    <3>3. SumFunctionOnSet(f, T) = f[Picked(T)] + SumFunctionOnSet(f, T \ {Picked(T)})
      BY <2>2, <3>1, SumPicked
    <3> QED BY <3>2, <3>3
  <2> QED BY <2>1, <2>2
<1>2. SUBSET S \subseteq Good
  <2> HIDE DEF Good
  <2> QED BY <1>1, SubsetInduction
<1>3. ASSUME NEW x \in S PROVE f[x] <= SumFunctionOnSet(f, S)
  <2>1. SumFunctionOnSet(f, S \ {x}) \in Nat
    BY <1>2
  <2>2. SumFunctionOnSet(f, S) = f[x] + SumFunctionOnSet(f, S \ {x})
    BY SumTakesOut
  <2> QED BY <2>1, <2>2
<1> QED BY <1>2, <1>3

(* Larger values have a larger sum.                                         *)
THEOREM SumMonotone ==
  ASSUME NEW S, IsFiniteSet(S), NEW f, NEW g,
         \A x \in S : f[x] \in Int /\ g[x] \in Int /\ f[x] <= g[x]
  PROVE  SumFunctionOnSet(f, S) <= SumFunctionOnSet(g, S)
<1> DEFINE d == [x \in S |-> g[x] - f[x]]
<1>1. SumFunctionOnSet(d, S) \in Nat
  BY SumOfNaturals
<1>2. SumFunctionOnSet(g, S) = SumFunctionOnSet(f, S) + SumFunctionOnSet(d, S)
  <2>1. \A x \in S : f[x] \in Int /\ d[x] \in Int /\ g[x] = f[x] + d[x]
    OBVIOUS
  <2> HIDE DEF d
  <2> QED BY <2>1, SumAdds
<1>3. SumFunctionOnSet(f, S) \in Int
  BY SumType
<1> HIDE DEF d
<1> QED BY <1>1, <1>2, <1>3

(* A sum of values none of which is above a number is at most that number   *)
(* for each.                                                                *)
THEOREM SumAtMost ==
  ASSUME NEW S, IsFiniteSet(S), NEW c \in Int, NEW f, \A x \in S : f[x] \in Int /\ f[x] <= c
  PROVE  SumFunctionOnSet(f, S) <= Cardinality(S) * c
<1> DEFINE Good == {T \in SUBSET S : SumFunctionOnSet(f, T) <= Cardinality(T) * c}
<1>1. ASSUME NEW T \in SUBSET S, \A U \in SUBSET T : U # T => U \in Good
      PROVE  T \in Good
  <2>1. CASE T = {}
    BY <2>1, SumEmpty, FS_EmptySet
  <2>2. CASE T # {}
    <3> DEFINE p == Picked(T)
               U == T \ {p}
    <3>1. IsFiniteSet(T) /\ p \in T
      BY <2>2, FS_Subset, PickedIn
    <3>2. SumFunctionOnSet(f, U) <= Cardinality(U) * c /\ f[p] \in Int /\ f[p] <= c
      BY <3>1, <1>1
    <3>3. /\ IsFiniteSet(U) /\ U \subseteq S
          /\ Cardinality(T) \in Nat /\ Cardinality(U) = Cardinality(T) - 1
      BY <3>1, FS_RemoveElement, FS_CardinalityType
    <3>4. SumFunctionOnSet(f, U) \in Int
      <4> HIDE DEF U
      <4> QED BY <3>3, SumType
    <3>5. SumFunctionOnSet(f, T) = f[p] + SumFunctionOnSet(f, U)
      BY <2>2, <3>1, SumPicked
    <3> DEFINE n == Cardinality(T)
    <3>6. n * c = (n - 1) * c + c
      <4>1. n \in Nat
        BY <3>3
      <4> HIDE DEF n
      <4> QED BY <4>1
    <3>7. (n - 1) * c \in Int /\ n * c \in Int
      <4>1. n \in Nat
        BY <3>3
      <4> HIDE DEF n
      <4> QED BY <4>1
    <3>8. SumFunctionOnSet(f, U) <= (n - 1) * c
      BY <3>2, <3>3
    <3> HIDE DEF p, U, n, Good
    <3>9. SumFunctionOnSet(f, T) <= n * c
      BY <3>2, <3>4, <3>5, <3>6, <3>7, <3>8
    <3> QED BY <3>9 DEF Good, n
  <2> QED BY <2>1, <2>2
<1>2. SUBSET S \subseteq Good
  <2> HIDE DEF Good
  <2> QED BY <1>1, SubsetInduction
<1> QED BY <1>2

(* One of finitely many has the largest value.                              *)
THEOREM FiniteHasMost ==
  ASSUME NEW S, IsFiniteSet(S), S # {}, NEW f, \A x \in S : f[x] \in Int
  PROVE  \E m \in S : \A x \in S : f[x] <= f[m]
<1> DEFINE Good == {T \in SUBSET S : T # {} => \E m \in T : \A x \in T : f[x] <= f[m]}
<1>1. ASSUME NEW T \in SUBSET S, \A U \in SUBSET T : U # T => U \in Good
      PROVE  T \in Good
  <2> SUFFICES ASSUME T # {} PROVE \E m \in T : \A x \in T : f[x] <= f[m]
    OBVIOUS
  <2>1. PICK p \in T : TRUE
    OBVIOUS
  <2>2. CASE T = {p}
    BY <2>2
  <2>3. CASE T # {p}
    <3>0. T \ {p} \in Good
      <4>1. T \ {p} \in SUBSET T /\ T \ {p} # T
        BY <2>1
      <4> HIDE DEF Good
      <4> QED BY <4>1, <1>1
    <3>1. PICK m \in T \ {p} : \A x \in T \ {p} : f[x] <= f[m]
      BY <2>1, <2>3, <3>0
    <3>2. CASE f[p] <= f[m]
      BY <3>1, <3>2
    <3>3. CASE f[m] <= f[p]
      BY <3>1, <3>3
    <3> QED BY <3>1, <3>2, <3>3
  <2> QED BY <2>2, <2>3
<1>2. SUBSET S \subseteq Good
  <2> HIDE DEF Good
  <2> QED BY <1>1, SubsetInduction
<1> QED BY <1>2

(* A finite set of numbers that is not empty has a smallest.                *)
THEOREM FiniteHasLeast ==
  ASSUME NEW S \in SUBSET Int, IsFiniteSet(S), S # {}
  PROVE  \E m \in S : \A x \in S : m <= x
<1> DEFINE Good == {T \in SUBSET S : T # {} => \E m \in T : \A x \in T : m <= x}
<1>1. ASSUME NEW T \in SUBSET S, \A U \in SUBSET T : U # T => U \in Good
      PROVE  T \in Good
  <2> SUFFICES ASSUME T # {} PROVE \E m \in T : \A x \in T : m <= x
    OBVIOUS
  <2>1. PICK p \in T : TRUE
    OBVIOUS
  <2>2. CASE T = {p}
    BY <2>2
  <2>3. CASE T # {p}
    <3>0. T \ {p} \in Good
      <4>1. T \ {p} \in SUBSET T /\ T \ {p} # T
        BY <2>1
      <4> HIDE DEF Good
      <4> QED BY <4>1, <1>1
    <3>1. PICK m \in T \ {p} : \A x \in T \ {p} : m <= x
      BY <2>1, <2>3, <3>0
    <3>2. CASE p <= m
      BY <3>1, <3>2
    <3>3. CASE m <= p
      BY <3>1, <3>3
    <3> QED BY <3>1, <3>2, <3>3
  <2> QED BY <2>2, <2>3
<1>2. SUBSET S \subseteq Good
  <2> HIDE DEF Good
  <2> QED BY <1>1, SubsetInduction
<1> QED BY <1>2
-----------------------------------------------------------------------------
(* Any fold whose step stays within V, as SumsOver.                         *)
FoldsOver(g, step, base, D) ==
  g = [T \in D |-> IF T = {} THEN base ELSE step[Picked(T), g[T \ {Picked(T)}]]]

(* Its recursive function exists on the subsets of a finite set, and its    *)
(* values are in V.                                                         *)
THEOREM FoldsExist ==
  ASSUME NEW S, IsFiniteSet(S), NEW V, NEW base \in V, NEW step \in [S \X V -> V]
  PROVE  \E g \in [SUBSET S -> V] : FoldsOver(g, step, base, SUBSET S)
<1> DEFINE AtMost(n) == {T \in SUBSET S : Cardinality(T) <= n}
           Good == {n \in Nat : \E g \in [AtMost(n) -> V] : FoldsOver(g, step, base, AtMost(n))}
<1>1. \A T \in SUBSET S : IsFiniteSet(T) /\ Cardinality(T) \in Nat
                          /\ Cardinality(T) <= Cardinality(S)
  BY FS_Subset, FS_CardinalityType
<1>2. 0 \in Good
  <2>1. \A T \in AtMost(0) : T = {}
    BY <1>1, FS_EmptySet
  <2> DEFINE g == [T \in AtMost(0) |-> base]
  <2>2. g \in [AtMost(0) -> V] /\ FoldsOver(g, step, base, AtMost(0))
    BY <2>1 DEF FoldsOver
  <2> HIDE DEF g
  <2> QED BY <2>2
<1>3. ASSUME NEW n \in Nat, n \in Good PROVE n + 1 \in Good
  <2>1. PICK g \in [AtMost(n) -> V] : FoldsOver(g, step, base, AtMost(n))
    BY <1>3
  <2> DEFINE h == [T \in AtMost(n + 1) |-> IF T \in AtMost(n) THEN g[T]
                                          ELSE step[Picked(T), g[T \ {Picked(T)}]]]
  <2>2. \A T \in AtMost(n + 1) : T # {} => Picked(T) \in S /\ T \ {Picked(T)} \in AtMost(n)
    <3> SUFFICES ASSUME NEW T \in AtMost(n + 1), T # {}
                 PROVE  Picked(T) \in S /\ T \ {Picked(T)} \in AtMost(n)
      OBVIOUS
    <3>1. Picked(T) \in T
      BY PickedIn
    <3>2. Cardinality(T \ {Picked(T)}) = Cardinality(T) - 1
      BY <1>1, <3>1, FS_RemoveElement
    <3>3. T \ {Picked(T)} \in SUBSET S /\ Cardinality(T) \in Nat /\ Cardinality(T) <= n + 1
      BY <1>1
    <3> QED BY <3>1, <3>2, <3>3
  <2>3. \A T \in AtMost(n) : T \in AtMost(n + 1)
    BY <1>1
  <2>4. {} \in AtMost(n)
    BY FS_EmptySet
  <2>5. \A T \in AtMost(n) :
          g[T] \in V /\ g[T] = IF T = {} THEN base ELSE step[Picked(T), g[T \ {Picked(T)}]]
    <3> HIDE DEF AtMost
    <3> QED BY <2>1 DEF FoldsOver
  <2>6. h \in [AtMost(n + 1) -> V] /\ FoldsOver(h, step, base, AtMost(n + 1))
    <3> HIDE DEF AtMost
    <3>1. \A T \in AtMost(n + 1) : T # {} => h[T \ {Picked(T)}] = g[T \ {Picked(T)}]
      BY <2>2, <2>3
    <3>2. \A T \in AtMost(n + 1) :
            h[T] = IF T = {} THEN base ELSE step[Picked(T), h[T \ {Picked(T)}]]
      BY <3>1, <2>4, <2>5
    <3>3. \A T \in AtMost(n + 1) : T # {} => step[Picked(T), g[T \ {Picked(T)}]] \in V
      BY <2>2, <2>5
    <3>4. \A T \in AtMost(n + 1) : h[T] \in V
      BY <2>4, <2>5, <3>3
    <3> QED BY <3>2, <3>4 DEF FoldsOver
  <2> HIDE DEF AtMost, h
  <2> QED BY <2>6
<1>4. Nat \subseteq Good
  <2> HIDE DEF Good
  <2> QED BY <1>2, <1>3, NatSetInduction
<1>5. Cardinality(S) \in Good
  BY <1>1, <1>4
<1>6. AtMost(Cardinality(S)) = SUBSET S
  BY <1>1
<1> HIDE DEF AtMost
<1> QED BY <1>5, <1>6

=============================================================================
