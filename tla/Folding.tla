------------------------------- MODULE Folding ------------------------------
(***************************************************************************)
(* Sums over finite sets, as the community modules fold them: with an      *)
(* operation that is associative and commutative the order in which        *)
(* FoldFunctionOnSet picks the elements does not matter, and an element    *)
(* more is a summand more.  The modules that sum leaves or monomials use   *)
(* it through INSTANCE, with their own sum for Op.                         *)
(*                                                                         *)
(* The facts are by induction, over the numbers or over the subsets of a   *)
(* finite set.  A predicate is given as the set it defines: the two        *)
(* principles then need no operator as a parameter.                        *)
(***************************************************************************)
EXTENDS Integers, Functions, FiniteSetTheorems, WellFoundedInduction, TLAPS

CONSTANTS Summand, Neutral, Op(_, _)

(* An abelian monoid, which each use of the lemmas shows for its own Op.   *)
OpLaws ==
  /\ Neutral \in Summand
  /\ \A a, b \in Summand : Op(a, b) \in Summand /\ Op(a, b) = Op(b, a)
  /\ \A a \in Summand : Op(a, Neutral) = a
  /\ \A a, b, c \in Summand : Op(Op(a, b), c) = Op(a, Op(b, c))

Fold(f, S) == FoldFunctionOnSet(Op, Neutral, f, S)

-----------------------------------------------------------------------------
(* Induction. *)

Less == {ss \in Nat \X Nat : ss[1] < ss[2]}

(* Over the numbers: a set with 0 and every successor has them all, since  *)
(* otherwise there is a least one missing.                                 *)
LEMMA NatSetInduction ==
  ASSUME NEW T, 0 \in T, \A n \in Nat : n \in T => n + 1 \in T
  PROVE  \A n \in Nat : n \in T
<1> DEFINE Bad == Nat \ T
<1>1. IsWellFoundedOn(Less, Nat)
  BY NatLessThanWellFounded DEF Less, OpToRel
<1>2. SUFFICES ASSUME Bad # {} PROVE FALSE
  OBVIOUS
<1>3. PICK n \in Bad : \A m \in Bad : ~ (<<m, n>> \in Less)
  BY <1>1, <1>2, WFMin
<1>4. n \in Nat /\ n # 0 /\ n \notin T
  OBVIOUS
<1>5. n - 1 \in Nat /\ <<n - 1, n>> \in Less
  BY <1>4 DEF Less
<1>6. n - 1 \in T
  BY <1>3, <1>5
<1> QED
  BY <1>4, <1>5, <1>6

(* Over a finite set: what holds of {}, and of a set when it holds of the  *)
(* set without any one element.                                            *)
LEMMA SubsetInduction ==
  ASSUME NEW S, IsFiniteSet(S), NEW T, {} \in T,
         \A U \in SUBSET S : U # {} /\ (\A x \in U : U \ {x} \in T) => U \in T
  PROVE  S \in T
<1> DEFINE Size(n) == {U \in SUBSET S : Cardinality(U) = n}
           Good == {n \in Nat : Size(n) \subseteq T}
<1>1. \A U \in SUBSET S : IsFiniteSet(U) /\ Cardinality(U) \in Nat
  BY FS_Subset, FS_CardinalityType
<1>2. 0 \in Good
  <2>1. \A U \in SUBSET S : Cardinality(U) = 0 => U = {}
    BY <1>1, FS_EmptySet
  <2> QED BY <2>1
<1>3. ASSUME NEW n \in Nat, n \in Good PROVE n + 1 \in Good
  <2>1. SUFFICES ASSUME NEW U \in SUBSET S, Cardinality(U) = n + 1 PROVE U \in T
    OBVIOUS
  <2>2. U # {}
    BY <1>1, <2>1, FS_EmptySet
  <2>3. ASSUME NEW x \in U PROVE U \ {x} \in T
    <3>1. Cardinality(U \ {x}) = n
      BY <1>1, <2>1, FS_RemoveElement
    <3> QED BY <1>3, <3>1
  <2> QED BY <2>2, <2>3
<1>4. \A n \in Nat : n \in Good
  <2> HIDE DEF Good
  <2> QED BY <1>2, <1>3, NatSetInduction
<1> QED BY <1>1, <1>4

-----------------------------------------------------------------------------
(* The function that a fold defines by recursion. *)

Pick(s) == CHOOSE x \in s : TRUE
Turn(it, f, s) == IF s = {} THEN Neutral ELSE Op(f[Pick(s)], it[s \ {Pick(s)}])
IsSum(it, f, S) == it = [s \in SUBSET S |-> Turn(it, f, s)]
Iter(f, S) == CHOOSE it : IsSum(it, f, S)

(* The definition of the community modules, with names for its parts. *)
LEMMA FoldUnfolds == ASSUME NEW f, NEW S PROVE Fold(f, S) = Iter(f, S)[S]
  BY DEF Fold, FoldFunctionOnSet, MapThenFoldSet, Iter, IsSum, Turn, Pick

(* What is picked is in the set. *)
LEMMA PickIn == ASSUME NEW s, s # {} PROVE Pick(s) \in s
  BY DEF Pick

(* The recursive function exists: it is built up to subsets of a size.     *)
LEMMA SumExists ==
  ASSUME NEW f, NEW S, IsFiniteSet(S)
  PROVE  IsSum(Iter(f, S), f, S)
<1> DEFINE Upto(n) == {U \in SUBSET S : Cardinality(U) <= n}
           Part(g, n) == g = [s \in Upto(n) |-> Turn(g, f, s)]
           Good == {n \in Nat : \E g : Part(g, n)}
<1>1. \A U \in SUBSET S : IsFiniteSet(U) /\ Cardinality(U) \in Nat
  BY FS_Subset, FS_CardinalityType
<1>2. 0 \in Good
  <2> DEFINE g == [s \in Upto(0) |-> Neutral]
  <2>1. \A s \in Upto(0) : s = {}
    BY <1>1, FS_EmptySet
  <2>2. \A s \in Upto(0) : Turn(g, f, s) = Neutral
    BY <2>1 DEF Turn
  <2>3. Part(g, 0)
    BY <2>2
  <2> HIDE DEF g
  <2> QED BY <2>3
<1>3. ASSUME NEW n \in Nat, n \in Good PROVE n + 1 \in Good
  <2>1. PICK g : Part(g, n)
    BY <1>3
  <2> DEFINE h == [s \in Upto(n + 1) |-> Turn(g, f, s)]
  <2>2. ASSUME NEW s \in Upto(n + 1), s # {}
        PROVE  s \ {Pick(s)} \in Upto(n) /\ s \ {Pick(s)} \in Upto(n + 1)
    <3>1. Pick(s) \in s
      BY <2>2, PickIn
    <3>2. Cardinality(s \ {Pick(s)}) = Cardinality(s) - 1
      BY <1>1, <3>1, FS_RemoveElement
    <3> QED BY <1>1, <3>2
  <2>3. \A s \in Upto(n) : g[s] = Turn(g, f, s) /\ s \in Upto(n + 1)
    BY <1>1, <2>1
  <2>4. \A s \in Upto(n) : h[s] = g[s]
    BY <2>3
  <2>5. ASSUME NEW s \in Upto(n + 1) PROVE Turn(g, f, s) = Turn(h, f, s)
    <3> HIDE DEF h
    <3>1. CASE s = {}
      BY <3>1 DEF Turn
    <3>2. CASE s # {}
      BY <2>2, <2>4, <3>2 DEF Turn
    <3> QED BY <3>1, <3>2
  <2>6. Part(h, n + 1)
    BY <2>5
  <2>7. \E k : Part(k, n + 1)
    BY <2>6
  <2> QED BY <2>7
<1>4. \A n \in Nat : n \in Good
  <2> HIDE DEF Good
  <2> QED BY <1>2, <1>3, NatSetInduction
<1>5. Upto(Cardinality(S)) = SUBSET S
  BY FS_Subset
<1>6. \E g : IsSum(g, f, S)
  <2>1. PICK g : Part(g, Cardinality(S))
    BY <1>1, <1>4
  <2>2. IsSum(g, f, S)
    BY <1>5, <2>1 DEF IsSum
  <2> QED BY <2>2
<1> QED BY <1>6 DEF Iter

(* Its value is one turn from its value without an element. *)
LEMMA SumTurns ==
  ASSUME NEW g, NEW f, NEW S, IsSum(g, f, S), NEW U \in SUBSET S
  PROVE  g[U] = Turn(g, f, U)
BY DEF IsSum

(* What a sum is depends on the summands only. *)
LEMMA SumValue ==
  ASSUME NEW g, NEW f, NEW S, IsSum(g, f, S),
         NEW h, NEW e, NEW R, IsSum(h, e, R),
         NEW U \in SUBSET (S \cap R), IsFiniteSet(U), \A x \in U : f[x] = e[x]
  PROVE  g[U] = h[U]
<1> DEFINE T == {V \in SUBSET U : g[V] = h[V]}
<1>1. \A V \in SUBSET U : g[V] = Turn(g, f, V) /\ h[V] = Turn(h, e, V)
  <2>1. SUFFICES ASSUME NEW V \in SUBSET U PROVE g[V] = Turn(g, f, V) /\ h[V] = Turn(h, e, V)
    OBVIOUS
  <2>2. V \in SUBSET S /\ V \in SUBSET R
    OBVIOUS
  <2> QED BY <2>2, SumTurns
<1>2. {} \in T
  BY <1>1 DEF Turn
<1>3. ASSUME NEW V \in SUBSET U, V # {}, \A x \in V : V \ {x} \in T
      PROVE  V \in T
  <2>1. Pick(V) \in V
    BY <1>3, PickIn
  <2>2. V \ {Pick(V)} \in T /\ f[Pick(V)] = e[Pick(V)]
    BY <1>3, <2>1
  <2>3. Turn(g, f, V) = Turn(h, e, V)
    BY <1>3, <2>2 DEF Turn
  <2> QED BY <1>1, <2>3
<1>4. U \in T
  <2> HIDE DEF T
  <2> QED BY <1>2, <1>3, SubsetInduction
<1> QED BY <1>4

(* Equal summands have equal sums. *)
LEMMA FoldSame ==
  ASSUME NEW f, NEW e, NEW S, IsFiniteSet(S), \A x \in S : f[x] = e[x]
  PROVE  Fold(f, S) = Fold(e, S)
<1>1. IsSum(Iter(f, S), f, S) /\ IsSum(Iter(e, S), e, S)
  BY SumExists
<1>2. S \in SUBSET (S \cap S)
  OBVIOUS
<1>3. Iter(f, S)[S] = Iter(e, S)[S]
  BY <1>1, <1>2, SumValue
<1> QED BY <1>3, FoldUnfolds

(* Nothing sums to the neutral element. *)
LEMMA FoldEmpty == ASSUME NEW f PROVE Fold(f, {}) = Neutral
<1>1. IsSum(Iter(f, {}), f, {})
  BY SumExists, FS_EmptySet
<1>2. Iter(f, {})[{}] = Turn(Iter(f, {}), f, {})
  BY <1>1, SumTurns
<1> QED BY <1>2, FoldUnfolds DEF Turn

(* The sum of a set is one of its summands and the sum of the rest. *)
LEMMA FoldPicks ==
  ASSUME NEW f, NEW S, IsFiniteSet(S), S # {}
  PROVE  Pick(S) \in S /\ Fold(f, S) = Op(f[Pick(S)], Fold(f, S \ {Pick(S)}))
<1> DEFINE R == S \ {Pick(S)}
<1>1. IsFiniteSet(R) /\ R \in SUBSET (S \cap R) /\ Pick(S) \in S
  BY FS_RemoveElement, PickIn
<1>2. IsSum(Iter(f, S), f, S) /\ IsSum(Iter(f, R), f, R)
  BY <1>1, SumExists
<1>3. Iter(f, S)[R] = Iter(f, R)[R]
  <2> HIDE DEF R
  <2> QED BY <1>1, <1>2, SumValue
<1>4. Iter(f, S)[S] = Op(f[Pick(S)], Iter(f, S)[R])
  <2>1. Iter(f, S)[S] = Turn(Iter(f, S), f, S)
    BY <1>2, SumTurns
  <2> QED BY <2>1 DEF Turn
<1>5. Fold(f, S) = Iter(f, S)[S] /\ Fold(f, R) = Iter(f, R)[R]
  BY FoldUnfolds
<1> QED BY <1>1, <1>3, <1>4, <1>5

-----------------------------------------------------------------------------
(* With the laws of an abelian monoid. *)

(* A sum of values is a value. *)
LEMMA FoldTyped ==
  ASSUME OpLaws, NEW f, NEW S, IsFiniteSet(S), \A x \in S : f[x] \in Summand
  PROVE  Fold(f, S) \in Summand
<1> DEFINE T == {U \in SUBSET S : Fold(f, U) \in Summand}
<1>1. {} \in T
  BY FoldEmpty DEF OpLaws
<1>2. ASSUME NEW U \in SUBSET S, U # {}, \A x \in U : U \ {x} \in T
      PROVE  U \in T
  <2>1. IsFiniteSet(U)
    BY FS_Subset
  <2>2. Pick(U) \in U /\ Fold(f, U) = Op(f[Pick(U)], Fold(f, U \ {Pick(U)}))
    BY <1>2, <2>1, FoldPicks
  <2>3. Fold(f, U \ {Pick(U)}) \in Summand /\ f[Pick(U)] \in Summand
    BY <1>2, <2>2
  <2> QED BY <2>2, <2>3 DEF OpLaws
<1>3. S \in T
  <2> HIDE DEF T
  <2> QED BY <1>1, <1>2, SubsetInduction
<1> QED BY <1>3

(* Of three summands the first two change places. *)
LEMMA OpSwaps ==
  ASSUME OpLaws, NEW a \in Summand, NEW b \in Summand, NEW c \in Summand
  PROVE  Op(a, Op(b, c)) = Op(b, Op(a, c))
<1>1. Op(a, Op(b, c)) = Op(Op(a, b), c) /\ Op(b, Op(a, c)) = Op(Op(b, a), c)
  BY DEF OpLaws
<1>2. Op(a, b) = Op(b, a)
  BY DEF OpLaws
<1> QED BY <1>1, <1>2

(* Any element may be taken out first. *)
LEMMA FoldRemove ==
  ASSUME OpLaws, NEW f, NEW S, IsFiniteSet(S), \A x \in S : f[x] \in Summand, NEW z \in S
  PROVE  Fold(f, S) = Op(f[z], Fold(f, S \ {z}))
<1> DEFINE T == {U \in SUBSET S : \A x \in U : Fold(f, U) = Op(f[x], Fold(f, U \ {x}))}
<1>0. \A U \in SUBSET S : IsFiniteSet(U) /\ Fold(f, U) \in Summand
  <2>1. \A U \in SUBSET S : IsFiniteSet(U)
    BY FS_Subset
  <2> QED BY <2>1, FoldTyped
<1>1. {} \in T
  OBVIOUS
<1>2. ASSUME NEW U \in SUBSET S, U # {}, \A x \in U : U \ {x} \in T
      PROVE  U \in T
  <2>1. SUFFICES ASSUME NEW x \in U PROVE Fold(f, U) = Op(f[x], Fold(f, U \ {x}))
    OBVIOUS
  <2> DEFINE p == Pick(U)
             R == (U \ {p}) \ {x}
  <2>2. p \in U /\ Fold(f, U) = Op(f[p], Fold(f, U \ {p}))
    BY <1>0, FoldPicks
  <2>3. CASE x = p
    BY <2>2, <2>3
  <2>4. CASE x # p
    <3>1. U \ {p} \in T /\ U \ {x} \in T
      BY <1>2, <2>2
    <3>2. x \in U \ {p} /\ p \in U \ {x} /\ (U \ {x}) \ {p} = R
      BY <2>2, <2>4
    <3>3. Fold(f, U \ {p}) = Op(f[x], Fold(f, R))
      BY <3>1, <3>2
    <3>4. Fold(f, U \ {x}) = Op(f[p], Fold(f, R))
      BY <3>1, <3>2
    <3>5. f[x] \in Summand /\ f[p] \in Summand /\ Fold(f, R) \in Summand
      BY <1>0, <2>2
    <3> QED BY <2>2, <3>3, <3>4, <3>5, OpSwaps
  <2> QED BY <2>3, <2>4
<1>3. S \in T
  <2> HIDE DEF T
  <2> QED BY <1>1, <1>2, SubsetInduction
<1> QED BY <1>3

(* One element more. *)
LEMMA FoldAdd ==
  ASSUME OpLaws, NEW f, NEW S, IsFiniteSet(S), NEW z, z \notin S,
         \A x \in S \cup {z} : f[x] \in Summand
  PROVE  IsFiniteSet(S \cup {z}) /\ Fold(f, S \cup {z}) = Op(f[z], Fold(f, S))
<1>1. IsFiniteSet(S \cup {z})
  BY FS_AddElement
<1>2. (S \cup {z}) \ {z} = S /\ z \in S \cup {z}
  OBVIOUS
<1>3. Fold(f, S \cup {z}) = Op(f[z], Fold(f, (S \cup {z}) \ {z}))
  BY <1>1, <1>2, FoldRemove
<1> QED BY <1>1, <1>2, <1>3
=============================================================================
