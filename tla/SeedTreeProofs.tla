--------------------------- MODULE SeedTreeProofs ---------------------------
(***************************************************************************)
(* Proofs about SeedTree for every depth, key set, seed set and derivation *)
(* function.  The heap arithmetic comes first, then the inductive          *)
(* invariant, one conjunct per function of the code, then the theorems.    *)
(***************************************************************************)
EXTENDS SeedTree, TLAPS

L == NbEvalsLog

-----------------------------------------------------------------------------
(* Heap arithmetic. *)

LEMMA DepthNat == L \in Nat \ {0} /\ NbEvals \in Nat \ {0}
BY PowerAssumption DEF L, NbEvals

(* A power of two is twice the one before it. *)
LEMMA PowerStep ==
  ASSUME NEW d \in 0 .. L
  PROVE  2^d \in Nat \ {0} /\ 2^(d + 1) \in Nat \ {0} /\ 2^(d + 1) = 2 * 2^d
<1>1. d \in 0 .. L + 1 /\ d + 1 \in 0 .. L + 1 /\ 1 \in 0 .. L
  BY DepthNat
<1>2. 2^1 = 2
  BY PowerAssumption
<1>4. \A a, b \in 0 .. L : a + b <= L + 1 => 2^(a + b) = 2^a * 2^b
  BY PowerAssumption DEF L
<1>5. 2^(d + 1) = 2^d * 2^1
  <2> DEFINE P(n) == 2^n
  <2>1. \A a, b \in 0 .. L : a + b <= L + 1 => P(a + b) = P(a) * P(b)
    BY <1>4
  <2> HIDE DEF P
  <2>2. P(d + 1) = P(d) * P(1)
    BY <1>1, <2>1, DepthNat
  <2> QED BY <2>2 DEF P
<1>3. 2^d \in Nat \ {0} /\ 2^(d + 1) \in Nat \ {0}
  BY <1>1, PowerAssumption DEF L
<1> QED BY <1>2, <1>3, <1>5

(* Shifting by one more bit halves, before or after. *)
LEMMA ShrStep ==
  ASSUME NEW x \in Nat, NEW k \in 0 .. L
  PROVE  /\ Shr(x, k) \in Nat
         /\ Shr(x, k + 1) = Shr(x, k) \div 2
         /\ Shr(x, k + 1) = Shr(x \div 2, k)
<1> DEFINE b == 2^k
<1>1. b \in Nat \ {0} /\ 2^(k + 1) = 2 * b
  BY PowerStep
<1>2. (x \div b) \in Nat /\ (x \div 2) \div b = x \div (2 * b)
      /\ (x \div b) \div 2 = x \div (2 * b)
  <2> HIDE DEF b
  <2> QED BY <1>1
<1> QED BY <1>1, <1>2 DEF Shr

LEMMA ShrZero == ASSUME NEW x \in Nat PROVE Shr(x, 0) = x
BY PowerAssumption DEF Shr

(* A node is one level below its parent. *)
LEMMA LevelStep ==
  ASSUME NEW i \in Nat, NEW d \in 0 .. L - 1
  PROVE  i \in Level(d + 1) <=> i \div 2 \in Level(d)
<1> DEFINE b == 2^d
<1>1. d \in 0 .. L /\ d + 1 \in 0 .. L
  BY DepthNat
<1>2. b \in Nat \ {0} /\ 2^(d + 1) = 2 * b /\ 2^(d + 1 + 1) = 2 * (2 * b)
  BY <1>1, PowerStep
<1>3. i \in 2 * b .. 2 * (2 * b) - 1 <=> i \div 2 \in b .. 2 * b - 1
  <2> HIDE DEF b
  <2> QED BY <1>2
<1> QED BY <1>2, <1>3 DEF Level

(* Levels are disjoint pieces of the heap. *)
LEMMA LevelInHeap ==
  ASSUME NEW d \in 0 .. L
  PROVE  Level(d) \subseteq NodeIndex /\ Level(d) \subseteq Nat \ {0}
<1> DEFINE b == 2^d  c == 2^(L - d)
<1>1. L - d \in 0 .. L /\ d + (L - d) = L
  BY DepthNat
<1>2. b \in Nat \ {0} /\ c \in Nat \ {0} /\ 2^(d + 1) = 2 * b
  BY <1>1, PowerStep
<1>3. NbEvals = b * c
  BY <1>1, DepthNat, PowerAssumption DEF L, NbEvals
<1>4. 2 * b <= 2 * (b * c)
  <2> HIDE DEF b, c
  <2> QED BY <1>2
<1> HIDE DEF b, c
<1> QED BY <1>2, <1>3, <1>4 DEF Level, NodeIndex, b

LEMMA LevelsDisjoint ==
  ASSUME NEW d \in 0 .. L, NEW e \in 0 .. L, d < e
  PROVE  Level(d) \cap Level(e) = {}
<1> DEFINE b == 2^(d + 1)  c == 2^(e - (d + 1))
<1>1. d + 1 \in 0 .. L /\ e - (d + 1) \in 0 .. L /\ (d + 1) + (e - (d + 1)) = e
  BY DepthNat
<1>2. b \in Nat \ {0} /\ c \in Nat \ {0}
  BY <1>1, PowerStep
<1>3. 2^e = b * c
  BY <1>1, DepthNat, PowerAssumption DEF L
<1>4. b <= b * c
  <2> HIDE DEF b, c
  <2> QED BY <1>2
<1>5. 2^d \in Nat /\ 2^(e + 1) \in Nat
  BY PowerStep
<1> HIDE DEF b, c
<1> QED BY <1>2, <1>3, <1>4, <1>5 DEF Level, b

LEMMA LevelUnique ==
  ASSUME NEW d \in 0 .. L, NEW e \in 0 .. L, NEW i \in Level(d), i \in Level(e)
  PROVE  d = e
BY LevelsDisjoint, DepthNat

LEMMA SiblingFacts ==
  ASSUME NEW i \in Nat
  PROVE  /\ Sibling(i) \in Nat /\ Sibling(i) # i
         /\ Sibling(i) \div 2 = i \div 2
         /\ \A j \in Nat : j \div 2 = i \div 2 => j = i \/ j = Sibling(i)
BY DEF Sibling

LEMMA SiblingLevel ==
  ASSUME NEW d \in 1 .. L, NEW i \in Level(d)
  PROVE  Sibling(i) \in Level(d)
<1>1. i \in Nat /\ d - 1 \in 0 .. L - 1 /\ (d - 1) + 1 = d
  BY LevelInHeap, DepthNat
<1>2. i \div 2 \in Level(d - 1)
  BY <1>1, LevelStep
<1> QED BY <1>1, <1>2, LevelStep, SiblingFacts

(* The ancestors of the hidden leaf, one on every level. *)
LEMMA AncestorFacts ==
  ASSUME hidden \in 0 .. NbEvals - 1, NEW k \in 0 .. L
  PROVE  /\ Ancestor(k) \in Nat /\ Ancestor(k) \in Level(L - k)
         /\ Ancestor(0) = HiddenLeaf
         /\ Ancestor(k + 1) = Ancestor(k) \div 2
<1> DEFINE b == 2^k  c == 2^(L - k)
<1>0. HiddenLeaf \in Nat /\ HiddenLeaf \in NbEvals .. 2 * NbEvals - 1
  BY DepthNat DEF HiddenLeaf
<1>1. L - k \in 0 .. L /\ k + (L - k) = L
  BY DepthNat
<1>2. b \in Nat \ {0} /\ c \in Nat \ {0} /\ 2^((L - k) + 1) = 2 * c
  BY <1>1, PowerStep
<1>3. NbEvals = b * c
  BY <1>1, DepthNat, PowerAssumption DEF L, NbEvals
<1>4. HiddenLeaf \div b \in c .. 2 * c - 1
  <2> DEFINE x == HiddenLeaf
  <2>1. x \in Nat /\ b * c <= x /\ x < 2 * (b * c)
    BY <1>0, <1>3, DepthNat
  <2> HIDE DEF b, c, x
  <2>2. c <= x \div b /\ x \div b < 2 * c
    BY <1>2, <2>1
  <2>3. x \div b \in c .. 2 * c - 1
    BY <1>2, <2>1, <2>2
  <2> QED BY <2>3 DEF x
<1>5. Ancestor(k) \in Level(L - k)
  BY <1>2, <1>4 DEF Level, Ancestor, Shr
<1> QED BY <1>0, <1>5, ShrZero, ShrStep DEF Ancestor

-----------------------------------------------------------------------------
(* The inductive invariant. *)

Control ==
  /\ pc = "expand" => depth \in 1 .. L
  /\ pc \in {"place", "regrow", "some"} => hidden \in 0 .. NbEvals - 1
  /\ pc = "regrow" => depth \in 1 .. L
  /\ pc = "some" => depth = L
  /\ pc = "none" => hidden >= NbEvals

(* fully_expand_tree: the children of p are what Derive makes of it. *)
FamilyOf(p, d) ==
  /\ nodes[2 * p] = Derive(key, d - 1, nodes[p])
  /\ nodes[2 * p + 1] = Xor(nodes[2 * p], nodes[p])

ExpandedTo == IF pc = "expand" THEN depth ELSE L

TreeGrown ==
  /\ nodes[2] = rootSeed /\ nodes[3] = Xor(rootSeed, delta)
  /\ \A d \in 1 .. ExpandedTo - 1 : \A p \in Level(d) : FamilyOf(p, d)

(* opening_path: how far down the walk is, the seed it holds and the       *)
(* chunks it has filled.                                                   *)
Walked == CASE pc = "expand" -> 0 [] pc = "walk" -> depth [] OTHER -> L

PathWalked ==
  hidden \in 0 .. NbEvals - 1 =>
    /\ parent = IF Walked = 0 THEN delta ELSE nodes[Ancestor(L - Walked)]
    /\ \A k \in Chunk : k >= L - Walked => path[k] = nodes[Sibling(Ancestor(k))]

(* partially_expand_tree: which nodes of level d are present.  While       *)
(* siblings are placed Climbed counts them, then GrownTo the levels done.  *)
Climbed == CASE pc \in {"expand", "walk"} -> 0 [] pc = "place" -> depth [] OTHER -> L
GrownTo == IF pc \in {"regrow", "some"} THEN depth ELSE 0

PresentNodes ==
  hidden \in 0 .. NbEvals - 1 =>
    /\ pc # "none" /\ nodeIndex = Ancestor(Climbed)
    /\ pc \in {"expand", "walk"} => present = {}
    /\ \A d \in 0 .. L : \A i \in Level(d) :
         i \in present <=>
           /\ i # Ancestor(L - d)
           /\ d <= GrownTo \/ (i = Sibling(Ancestor(L - d)) /\ L - d < Climbed)

(* ... and what they hold. *)
SeedsHeld ==
  hidden \in 0 .. NbEvals - 1 =>
    /\ \A i \in NodeIndex \ present : vnodes[i] = ZeroSeed
    /\ \A k \in Chunk : k < Climbed => vnodes[Sibling(Ancestor(k))] = wire[k]
    /\ pc \in {"place", "regrow", "some"} =>
         \A i \in present : Unaltered(i) => vnodes[i] = nodes[i]

IInv ==
  TypeOK /\ Control /\ TreeGrown /\ PathWalked /\ PresentNodes /\ SeedsHeld

(* An altered chunk shows on every level grown from it. *)
AlterationShown ==
  pc \in {"regrow", "some"} =>
    \A k \in Chunk : wire[k] # path[k] /\ L - k <= depth =>
      \E i \in Level(depth) \cap present : vnodes[i] # nodes[i]

-----------------------------------------------------------------------------
(* Growing one level of a heap. *)

LEMMA GrowType ==
  ASSUME key \in Key, NEW heap \in [NodeIndex -> Seed], NEW parents,
         NEW d \in 1 .. L
  PROVE  Grow(heap, parents, d) \in [NodeIndex -> Seed]
<1> SUFFICES ASSUME NEW i \in NodeIndex
             PROVE  /\ heap[i] \in Seed
                    /\ Derive(key, d - 1, heap[i \div 2]) \in Seed
                    /\ Xor(Derive(key, d - 1, heap[i \div 2]), heap[i \div 2]) \in Seed
  BY DEF Grow
<1>1. i \div 2 \in NodeIndex
  BY DepthNat DEF NodeIndex
<1>2. d - 1 \in 0 .. NbEvalsLog
  BY DepthNat DEF L
<1> QED BY <1>1, <1>2, SeedAssumption

LEMMA GrowFacts ==
  ASSUME NEW heap \in [NodeIndex -> Seed], NEW parents, NEW d \in 1 .. L
  PROVE  /\ \A i \in NodeIndex : i \div 2 \notin parents => Grow(heap, parents, d)[i] = heap[i]
         /\ \A p \in parents \cap Nat : 2 * p + 1 \in NodeIndex =>
              /\ Grow(heap, parents, d)[2 * p] = Derive(key, d - 1, heap[p])
              /\ Grow(heap, parents, d)[2 * p + 1]
                   = Xor(Grow(heap, parents, d)[2 * p], heap[p])
<1>1. ASSUME NEW p \in parents \cap Nat, 2 * p + 1 \in NodeIndex
      PROVE  /\ 2 * p \in NodeIndex
             /\ (2 * p) \div 2 = p /\ (2 * p) % 2 = 0
             /\ (2 * p + 1) \div 2 = p /\ (2 * p + 1) % 2 # 0
  BY <1>1, DepthNat DEF NodeIndex
<1> QED BY <1>1 DEF Grow

(* The children of a node that is not a leaf. *)
LEMMA ChildFacts ==
  ASSUME NEW d \in 0 .. L - 1, NEW p \in Level(d)
  PROVE  /\ p \in NodeIndex /\ p \in Nat
         /\ 2 * p \in Level(d + 1) /\ 2 * p + 1 \in Level(d + 1)
         /\ 2 * p \in NodeIndex /\ 2 * p + 1 \in NodeIndex
         /\ \A i \in Nat : i \div 2 = p => i = 2 * p \/ i = 2 * p + 1
<1>1. d \in 0 .. L /\ d + 1 \in 0 .. L
  BY DepthNat
<1>2. p \in NodeIndex /\ p \in Nat
  BY <1>1, LevelInHeap
<1>3. 2 * p \in Nat /\ 2 * p + 1 \in Nat /\ (2 * p) \div 2 = p /\ (2 * p + 1) \div 2 = p
  BY <1>2
<1>4. 2 * p \in Level(d + 1) /\ 2 * p + 1 \in Level(d + 1)
  BY <1>3, LevelStep
<1> QED BY <1>1, <1>2, <1>4, LevelInHeap

(* What a node grows out of, its children grow out of. *)
LEMMA BelowChild ==
  ASSUME NEW i \in NodeIndex, NEW root \in Nat \ {0}, Below(i \div 2, root)
  PROVE  Below(i, root)
<1>1. PICK j \in 0 .. L : Shr(i \div 2, j) = root
  BY DEF Below, L
<1>2. i \in Nat /\ i \div 2 \in 0 .. NbEvals - 1
  BY DepthNat DEF NodeIndex
<1>3. j # L
  <2> SUFFICES ASSUME j = L PROVE FALSE
    OBVIOUS
  <2>1. Shr(i \div 2, L) = (i \div 2) \div NbEvals
    BY DEF Shr, L, NbEvals
  <2>2. (i \div 2) \div NbEvals = 0
    <3> DEFINE n == NbEvals
    <3>1. n \in Nat \ {0} /\ i \div 2 \in 0 .. n - 1
      BY <1>2, DepthNat
    <3> HIDE DEF n
    <3>2. (i \div 2) \div n = 0
      BY <3>1
    <3> QED BY <3>2 DEF n
  <2> QED BY <1>1, <2>1, <2>2
<1>4. j + 1 \in 0 .. L
  BY <1>3, DepthNat
<1>5. Shr(i, j + 1) = root
  BY <1>1, <1>2, ShrStep
<1> QED BY <1>4, <1>5 DEF Below, L

LEMMA BelowItself == ASSUME NEW i \in Nat PROVE Below(i, i)
<1>1. 0 \in 0 .. NbEvalsLog
  BY DepthNat DEF L
<1> QED BY <1>1, ShrZero DEF Below

(* The top of the path is the root, alone on its level. *)
LEMMA RootFacts ==
  /\ Level(0) = {1}
  /\ hidden \in 0 .. NbEvals - 1 => Ancestor(L) = 1
<1>1. 1 .. 2 - 1 = {1} /\ 0 + 1 = 1
  OBVIOUS
<1>2. Level(0) = {1}
  BY <1>1, PowerAssumption DEF Level
<1>3. ASSUME hidden \in 0 .. NbEvals - 1 PROVE Ancestor(L) = 1
  <2>1. L \in 0 .. L /\ L - L = 0
    BY DepthNat
  <2>2. Ancestor(L) \in Level(L - L)
    BY <1>3, <2>1, AncestorFacts
  <2> QED BY <1>2, <2>1, <2>2
<1> QED BY <1>2, <1>3

(* The siblings on the path, one on every level. *)
LEMMA PathSibling ==
  ASSUME hidden \in 0 .. NbEvals - 1, NEW k \in Chunk
  PROVE  /\ k \in 0 .. L - 1 /\ L - k \in 1 .. L
         /\ Sibling(Ancestor(k)) \in Level(L - k)
         /\ Sibling(Ancestor(k)) \in NodeIndex
         /\ Sibling(Ancestor(k)) \in Nat \ {0}
         /\ Sibling(Ancestor(k)) # Ancestor(k)
         /\ Sibling(Ancestor(k)) \div 2 = Ancestor(k + 1)
<1>1. k \in 0 .. L - 1 /\ k \in 0 .. L /\ L - k \in 1 .. L /\ L - k \in 0 .. L
  BY DepthNat DEF Chunk, L
<1>2. /\ Ancestor(k) \in Nat /\ Ancestor(k) \in Level(L - k)
      /\ Ancestor(k + 1) = Ancestor(k) \div 2
  BY <1>1, AncestorFacts
<1>3. Sibling(Ancestor(k)) \in Level(L - k)
  BY <1>1, <1>2, SiblingLevel
<1> QED BY <1>1, <1>2, <1>3, SiblingFacts, LevelInHeap

(* Siblings of different chunks are different nodes. *)
LEMMA PathSiblingUnique ==
  ASSUME hidden \in 0 .. NbEvals - 1, NEW j \in Chunk, NEW k \in Chunk,
         Sibling(Ancestor(j)) = Sibling(Ancestor(k))
  PROVE  j = k
<1>1. L - j \in 0 .. L /\ L - k \in 0 .. L /\ j \in 0 .. L /\ k \in 0 .. L
  BY PathSibling, DepthNat
<1>2. L - j = L - k
  BY <1>1, PathSibling, LevelUnique
<1> QED BY <1>1, <1>2, DepthNat

-----------------------------------------------------------------------------
(* The invariant holds initially and every action preserves it. *)

USE DEF L

LEMMA InitStep == Init => IInv
<1> SUFFICES ASSUME Init PROVE IInv
  OBVIOUS
<1> USE DEF Init
<1>1. TypeOK
  <2>1. nodes \in [NodeIndex -> Seed] /\ vnodes \in [NodeIndex -> Seed]
    BY SeedAssumption
  <2>2. nodeIndex \in Nat /\ depth \in 0 .. L
    BY DepthNat DEF HiddenLeaf
  <2> QED BY <2>1, <2>2, SeedAssumption DEF TypeOK
<1>2. Control
  BY DepthNat DEF Control
<1>3. TreeGrown
  <2>1. 2 \in NodeIndex /\ 3 \in NodeIndex
    <3>1. 1 \in Level(0) /\ 0 \in 0 .. L - 1
      BY DepthNat, PowerAssumption DEF Level
    <3> QED BY <3>1, ChildFacts
  <2> QED BY <2>1 DEF TreeGrown, ExpandedTo
<1>4. PathWalked
  BY DepthNat DEF PathWalked, Walked, Chunk
<1>5. PresentNodes
  <2> SUFFICES ASSUME hidden \in 0 .. NbEvals - 1
               PROVE  /\ nodeIndex = Ancestor(0)
                      /\ \A d \in 0 .. L : \A i \in Level(d) : d <= 0 => i = Ancestor(L - d)
    BY DepthNat DEF PresentNodes, Climbed, GrownTo
  <2>1. nodeIndex = Ancestor(0)
    BY AncestorFacts, DepthNat
  <2>2. Ancestor(L) = 1 /\ Level(0) = {1}
    BY RootFacts
  <2> QED BY <2>1, <2>2, DepthNat
<1>6. SeedsHeld
  BY DEF SeedsHeld, Climbed, Chunk
<1> QED BY <1>1, <1>2, <1>3, <1>4, <1>5, <1>6 DEF IInv

(* ExpandLevel writes level depth + 1 and nothing else. *)
LEMMA ExpandLevelStep == IInv /\ ExpandLevel => IInv'
<1> SUFFICES ASSUME IInv, ExpandLevel PROVE IInv'
  OBVIOUS
<1> USE DEF ExpandLevel, inputs, verifier
<1>0. depth \in 1 .. L - 1 /\ depth \in 0 .. L /\ depth \in 1 .. L
  BY DepthNat DEF IInv, Control
<1>1. TypeOK'
  BY <1>0, GrowType, DepthNat DEF IInv, TypeOK
<1>2. Control'
  BY <1>0, DepthNat DEF Control
<1>3. TreeGrown'
  <2>1. ASSUME NEW e \in 1 .. depth, NEW i \in Level(e)
        PROVE  nodes'[i] = nodes[i]
    <3>1. e \in 0 .. L /\ e - 1 \in 0 .. L - 1 /\ e - 1 \in 0 .. L /\ e - 1 < depth
          /\ (e - 1) + 1 = e
      BY <1>0, DepthNat
    <3>2. i \in Nat /\ i \in NodeIndex
      BY <3>1, LevelInHeap
    <3>3. i \div 2 \in Level(e - 1)
      BY <3>1, <3>2, LevelStep
    <3>4. i \div 2 \notin Level(depth)
      BY <1>0, <3>1, <3>3, LevelsDisjoint
    <3> QED BY <1>0, <3>2, <3>4, GrowFacts DEF IInv, TypeOK
  <2>2. nodes'[2] = rootSeed /\ nodes'[3] = Xor(rootSeed, delta)
    <3>1. 1 \in Level(0) /\ 0 \in 0 .. L - 1 /\ 0 + 1 = 1 /\ 1 \in 1 .. depth
      BY <1>0, DepthNat, PowerAssumption DEF Level
    <3>2. 2 \in Level(1) /\ 3 \in Level(1)
      <4>1. 2 * 1 \in Level(0 + 1) /\ 2 * 1 + 1 \in Level(0 + 1)
        BY <3>1, ChildFacts
      <4> QED BY <4>1
    <3> QED BY <2>1, <3>1, <3>2 DEF IInv, TreeGrown
  <2>3. ASSUME NEW d \in 1 .. depth, NEW p \in Level(d)
        PROVE  FamilyOf(p, d)'
    <3>0. d \in 0 .. L - 1 /\ d + 1 \in 1 .. L
      BY <1>0, DepthNat
    <3>1. /\ p \in NodeIndex /\ p \in Nat
          /\ 2 * p \in Level(d + 1) /\ 2 * p + 1 \in Level(d + 1)
          /\ 2 * p \in NodeIndex /\ 2 * p + 1 \in NodeIndex
      BY <3>0, ChildFacts
    <3>2. nodes'[p] = nodes[p]
      BY <2>1
    <3>3. CASE d = depth
      BY <1>0, <3>1, <3>2, <3>3, GrowFacts DEF FamilyOf, IInv, TypeOK
    <3>4. CASE d < depth
      <4>1. FamilyOf(p, d)
        BY <1>0, <3>4, DepthNat DEF IInv, TreeGrown, ExpandedTo
      <4>2. nodes'[2 * p] = nodes[2 * p] /\ nodes'[2 * p + 1] = nodes[2 * p + 1]
        <5>1. d + 1 \in 1 .. depth
          BY <1>0, <3>4
        <5> QED BY <5>1, <2>1, <3>1
      <4> QED BY <3>2, <4>1, <4>2 DEF FamilyOf
    <3> QED BY <1>0, <3>3, <3>4
  <2> QED BY <1>0, <2>2, <2>3 DEF TreeGrown, ExpandedTo
<1>4. PathWalked'
  BY DepthNat DEF IInv, PathWalked, Walked, Chunk
<1>5. PresentNodes'
  BY DEF IInv, PresentNodes, Climbed, GrownTo, Ancestor, HiddenLeaf
<1>6. SeedsHeld'
  BY DEF IInv, SeedsHeld, Climbed, Ancestor, HiddenLeaf, Chunk
<1> QED BY <1>1, <1>2, <1>3, <1>4, <1>5, <1>6 DEF IInv

LEMMA ExpandedStep == IInv /\ Expanded => IInv'
<1> SUFFICES ASSUME IInv, Expanded PROVE IInv'
  OBVIOUS
<1> USE DEF Expanded, inputs, signer, verifier
<1>1. TypeOK'
  BY DepthNat DEF IInv, TypeOK
<1>2. Control'
  BY DEF Control
<1>3. TreeGrown'
  BY DEF IInv, TreeGrown, ExpandedTo, FamilyOf
<1>4. PathWalked'
  BY DepthNat DEF IInv, PathWalked, Walked, Chunk
<1>5. PresentNodes'
  BY DEF IInv, PresentNodes, Climbed, GrownTo, Ancestor, HiddenLeaf
<1>6. SeedsHeld'
  BY DEF IInv, SeedsHeld, Climbed, Ancestor, HiddenLeaf, Chunk
<1> QED BY <1>1, <1>2, <1>3, <1>4, <1>5, <1>6 DEF IInv

LEMMA RefuseIndexStep == IInv /\ RefuseIndex => IInv'
<1> SUFFICES ASSUME IInv, RefuseIndex PROVE IInv'
  OBVIOUS
<1> USE DEF RefuseIndex, inputs, signer, verifier
<1>1. TypeOK' /\ Control'
  BY DEF IInv, TypeOK, Control
<1>2. TreeGrown'
  BY DEF IInv, TreeGrown, ExpandedTo, FamilyOf
<1>3. hidden' \notin 0 .. NbEvals - 1
  BY DepthNat DEF IInv, TypeOK
<1> QED BY <1>1, <1>2, <1>3 DEF IInv, PathWalked, PresentNodes, SeedsHeld

(* One step down: the pair computed is the pair of children in the tree,   *)
(* and the bit taken is the parity of the ancestor it leads to.            *)
LEMMA WalkDownStep == IInv /\ WalkDown => IInv'
<1> SUFFICES ASSUME IInv, WalkDown PROVE IInv'
  OBVIOUS
<1> USE DEF WalkDown, inputs, verifier
<1> DEFINE slot == L - 1 - depth
           left == IF depth = 0 THEN rootSeed ELSE Derive(key, depth - 1, parent)
           right == Xor(left, parent)
           c == Ancestor(slot)
           a == Ancestor(slot + 1)
<1>0. /\ depth \in 0 .. L - 1 /\ hidden \in 0 .. NbEvals - 1
      /\ slot \in Chunk /\ slot \in 0 .. L /\ slot + 1 = L - depth
      /\ L - slot = depth + 1 /\ slot + 1 \in 0 .. L
  BY DepthNat DEF IInv, TypeOK, Chunk
<1>1. /\ c \in Nat /\ a = c \div 2 /\ a \in Level(depth)
      /\ a \in Nat /\ 2 * a \in Nat
  <2>1. c \in Nat /\ a = c \div 2
    BY <1>0, AncestorFacts
  <2>2. a \in Level(L - (slot + 1)) /\ L - (slot + 1) = depth
    BY <1>0, AncestorFacts, DepthNat
  <2> QED BY <2>1, <2>2
<1>2. nodes[2 * a] = left /\ nodes[2 * a + 1] = right
  <2>1. CASE depth = 0
    <3>1. a = 1
      BY <1>1, <2>1, RootFacts
    <3>2. parent = delta
      BY <1>0, <2>1 DEF IInv, PathWalked, Walked
    <3> QED BY <2>1, <3>1, <3>2 DEF IInv, TreeGrown
  <2>2. CASE depth # 0
    <3>1. parent = nodes[a]
      BY <1>0, <2>2 DEF IInv, PathWalked, Walked
    <3>2. FamilyOf(a, depth)
      <4>1. depth \in 1 .. ExpandedTo - 1
        BY <1>0, <2>2, DepthNat DEF ExpandedTo
      <4> QED BY <1>1, <4>1 DEF IInv, TreeGrown
    <3> QED BY <2>2, <3>1, <3>2 DEF FamilyOf
  <2> QED BY <2>1, <2>2
<1>3. Shr(HiddenLeaf, slot) % 2 = c % 2
  BY DEF Ancestor
<1>4. /\ parent' = nodes[c]
      /\ path' = [path EXCEPT ![slot] = nodes[Sibling(c)]]
  <2>1. CASE c % 2 = 0
    <3>1. c = 2 * a /\ Sibling(c) = 2 * a + 1
      BY <1>1, <2>1 DEF Sibling
    <3> QED BY <1>2, <1>3, <2>1, <3>1
  <2>2. CASE c % 2 # 0
    <3>1. c = 2 * a + 1 /\ Sibling(c) = 2 * a
      BY <1>1, <2>2 DEF Sibling
    <3> QED BY <1>2, <1>3, <2>2, <3>1
  <2> QED BY <2>1, <2>2
<1>5. /\ c \in NodeIndex /\ Sibling(c) \in NodeIndex
  <2>1. L - slot \in 0 .. L
    BY <1>0, DepthNat
  <2> QED BY <1>0, <2>1, AncestorFacts, LevelInHeap, PathSibling
<1>6. TypeOK'
  BY <1>0, <1>4, <1>5, DepthNat DEF IInv, TypeOK
<1>7. Control'
  BY DEF Control
<1>8. TreeGrown'
  BY DEF IInv, TreeGrown, ExpandedTo, FamilyOf
<1>9. PathWalked'
  <2>1. Walked = depth /\ Walked' = depth + 1
    BY DEF Walked
  <2>2. /\ slot = L - Walked' /\ Walked' # 0
        /\ \A k \in Chunk : k >= slot /\ k # slot => k >= L - Walked
    BY <1>0, <2>1, DepthNat DEF Chunk
  <2>3. ASSUME NEW k \in Chunk, k >= slot
        PROVE  path'[k] = nodes[Sibling(Ancestor(k))]
    <3>1. CASE k = slot
      BY <1>0, <1>4, <3>1 DEF IInv, TypeOK
    <3>2. CASE k # slot
      <4>1. path'[k] = path[k]
        BY <1>4, <3>2 DEF IInv, TypeOK
      <4> QED BY <1>0, <2>2, <2>3, <3>2, <4>1 DEF IInv, PathWalked
    <3> QED BY <3>1, <3>2
  <2> HIDE DEF slot, WalkDown
  <2>4. hidden' = hidden /\ nodes' = nodes
    BY DEF WalkDown
  <2> QED BY <1>4, <2>2, <2>3, <2>4 DEF PathWalked, Ancestor, HiddenLeaf
<1>10. PresentNodes'
  BY DEF IInv, PresentNodes, Climbed, GrownTo, Ancestor, HiddenLeaf
<1>11. SeedsHeld'
  BY DEF IInv, SeedsHeld, Climbed, Ancestor, HiddenLeaf, Chunk
<1> QED BY <1>6, <1>7, <1>8, <1>9, <1>10, <1>11 DEF IInv

(* What arrives differs from the path by one chunk; nothing is present yet. *)
LEMMA DeliverStep == IInv /\ Deliver => IInv'
<1> SUFFICES ASSUME IInv, Deliver PROVE IInv'
  OBVIOUS
<1> USE DEF Deliver, inputs, signer
<1>0. hidden \in 0 .. NbEvals - 1 /\ L \in 0 .. L /\ 0 \in 0 .. L
  BY DepthNat DEF IInv, TypeOK
<1>1. TypeOK'
  BY <1>0 DEF IInv, TypeOK
<1>2. Control'
  BY <1>0 DEF Control
<1>3. TreeGrown'
  BY DEF IInv, TreeGrown, ExpandedTo, FamilyOf
<1>4. PathWalked'
  BY DEF IInv, PathWalked, Walked, Ancestor, HiddenLeaf
<1>5. PresentNodes'
  BY DEF IInv, PresentNodes, Climbed, GrownTo, Ancestor, HiddenLeaf
<1>6. SeedsHeld'
  BY <1>0 DEF IInv, PresentNodes, SeedsHeld, Climbed, Ancestor, HiddenLeaf, Chunk
<1> QED BY <1>1, <1>2, <1>3, <1>4, <1>5, <1>6 DEF IInv

(* One chunk becomes the sibling of the ancestor climbed to. *)
LEMMA PlaceSiblingStep == IInv /\ PlaceSibling => IInv'
<1> SUFFICES ASSUME IInv, PlaceSibling PROVE IInv'
  OBVIOUS
<1> USE DEF PlaceSibling, inputs, signer
<1> DEFINE s == Sibling(Ancestor(depth))
<1>0. /\ depth \in 0 .. L - 1 /\ depth \in Chunk /\ depth \in 0 .. L
      /\ hidden \in 0 .. NbEvals - 1 /\ nodeIndex = Ancestor(depth)
  BY DepthNat DEF IInv, TypeOK, Control, PresentNodes, Climbed, Chunk
<1>1. /\ s \in NodeIndex /\ s \in Level(L - depth) /\ L - depth \in 0 .. L
      /\ s # Ancestor(depth) /\ nodeIndex' = Ancestor(depth + 1)
      /\ nodeIndex' \in Nat
  BY <1>0, PathSibling, AncestorFacts, DepthNat
<1>2. /\ vnodes' = [vnodes EXCEPT ![s] = wire[depth]]
      /\ present' = present \cup {s}
  BY <1>0
<1> HIDE DEF s
<1>3. TypeOK'
  BY <1>0, <1>1, <1>2, DepthNat DEF IInv, TypeOK
<1>4. Control'
  BY <1>0 DEF Control
<1>5. TreeGrown'
  BY DEF IInv, TreeGrown, ExpandedTo, FamilyOf
<1>6. PathWalked'
  BY DEF IInv, PathWalked, Walked, Ancestor, HiddenLeaf
<1>7. PresentNodes'
  <2>1. ASSUME NEW d \in 0 .. L, NEW i \in Level(d)
        PROVE  i \in present' <=>
                 /\ i # Ancestor(L - d)
                 /\ d <= 0 \/ (i = Sibling(Ancestor(L - d)) /\ L - d < depth + 1)
    <3>1. i \in present <=>
            /\ i # Ancestor(L - d)
            /\ d <= 0 \/ (i = Sibling(Ancestor(L - d)) /\ L - d < depth)
      BY <1>0 DEF IInv, PresentNodes, Climbed, GrownTo
    <3>2. i = s <=> L - d = depth /\ i = Sibling(Ancestor(L - d))
      <4>1. i = s => d = L - depth
        BY <1>1, LevelUnique
      <4> QED BY <4>1, <1>0, DepthNat DEF s
    <3>3. L - d = depth => s # Ancestor(L - d)
      BY <1>1
    <3> QED BY <1>0, <1>2, <3>1, <3>2, <3>3, DepthNat
  <2>2. Climbed' = depth + 1 /\ GrownTo' = 0 /\ pc' = "place" /\ hidden' = hidden
    BY DEF Climbed, GrownTo
  <2>3. nodeIndex' = Ancestor(depth + 1)
    BY <1>1
  <2> HIDE DEF PlaceSibling
  <2> QED BY <2>1, <2>2, <2>3 DEF PresentNodes, Ancestor, HiddenLeaf
<1>8. SeedsHeld'
  <2>1. \A i \in NodeIndex \ present' : vnodes'[i] = ZeroSeed
    BY <1>0, <1>2 DEF IInv, SeedsHeld, TypeOK
  <2>2. ASSUME NEW k \in Chunk, k < depth + 1
        PROVE  vnodes'[Sibling(Ancestor(k))] = wire[k]
    <3>1. Sibling(Ancestor(k)) \in NodeIndex
      BY <1>0, PathSibling
    <3>2. CASE k = depth
      BY <1>1, <1>2, <3>1, <3>2 DEF IInv, TypeOK, s
    <3>3. CASE k # depth
      <4>1. Sibling(Ancestor(k)) # s
        BY <1>0, <3>3, PathSiblingUnique DEF s
      <4>2. vnodes[Sibling(Ancestor(k))] = wire[k]
        BY <1>0, <2>2, <3>3 DEF IInv, SeedsHeld, Climbed, Chunk
      <4> QED BY <1>2, <3>1, <4>1, <4>2 DEF IInv, TypeOK
    <3> QED BY <3>2, <3>3
  <2>3. ASSUME NEW i \in present', Unaltered(i)
        PROVE  vnodes'[i] = nodes[i]
    <3>1. CASE i = s
      <4>1. wire[depth] = path[depth]
        <5>1. Below(s, s)
          BY <1>1, BelowItself DEF NodeIndex
        <5> QED BY <1>0, <2>3, <3>1, <5>1 DEF Unaltered, s
      <4>2. path[depth] = nodes[s]
        BY <1>0, DepthNat DEF IInv, PathWalked, Walked, s
      <4> QED BY <1>1, <1>2, <3>1, <4>1, <4>2 DEF IInv, TypeOK
    <3>2. CASE i # s
      <4>1. i \in present /\ i \in NodeIndex
        BY <1>2, <3>2 DEF IInv, TypeOK
      <4> QED BY <1>0, <1>2, <2>3, <3>2, <4>1 DEF IInv, SeedsHeld, TypeOK
    <3> QED BY <3>1, <3>2
  <2>4. Climbed' = depth + 1
    BY DEF Climbed
  <2>5. hidden' = hidden /\ wire' = wire /\ path' = path /\ nodes' = nodes
    OBVIOUS
  <2> HIDE DEF PlaceSibling
  <2> QED BY <2>1, <2>2, <2>3, <2>4, <2>5
          DEF SeedsHeld, Unaltered, Below, Ancestor, HiddenLeaf
<1> QED BY <1>3, <1>4, <1>5, <1>6, <1>7, <1>8 DEF IInv

LEMMA PlacedStep == IInv /\ Placed => IInv'
<1> SUFFICES ASSUME IInv, Placed PROVE IInv'
  OBVIOUS
<1> USE DEF Placed, inputs, signer, verifier
<1>0. hidden \in 0 .. NbEvals - 1 /\ L \in 0 .. L /\ L - 1 \in 0 .. L - 1 /\ L - 1 \in 0 .. L
  BY DepthNat DEF IInv, Control
<1>1. TypeOK'
  BY DepthNat DEF IInv, TypeOK
<1>2. Control'
  BY <1>0, DepthNat DEF Control
<1>3. TreeGrown'
  BY DEF IInv, TreeGrown, ExpandedTo, FamilyOf
<1>4. PathWalked'
  BY DEF IInv, PathWalked, Walked, Ancestor, HiddenLeaf
<1>5. PresentNodes'
  <2>1. ASSUME NEW i \in Level(1), i # Ancestor(L - 1)
        PROVE  i = Sibling(Ancestor(L - 1))
    <3>1. 0 \in 0 .. L - 1 /\ 0 + 1 = 1 /\ 1 \in 0 .. L /\ L - (L - 1) = 1
      BY DepthNat
    <3>2. Ancestor(L - 1) \in Level(1) /\ Ancestor(L - 1) \in Nat
      BY <1>0, <3>1, AncestorFacts
    <3>3. i \in Nat /\ i \div 2 \in Level(0) /\ Ancestor(L - 1) \div 2 \in Level(0)
      BY <3>1, <3>2, LevelInHeap, LevelStep
    <3> QED BY <2>1, <3>2, <3>3, RootFacts, SiblingFacts
  <2>2. ASSUME NEW d \in 0 .. L, NEW i \in Level(d)
        PROVE  i \in present <=>
                 /\ i # Ancestor(L - d)
                 /\ d <= 1 \/ (i = Sibling(Ancestor(L - d)) /\ L - d < L)
    <3>1. i \in present <=>
            /\ i # Ancestor(L - d)
            /\ d <= 0 \/ (i = Sibling(Ancestor(L - d)) /\ L - d < L)
      BY <1>0 DEF IInv, PresentNodes, Climbed, GrownTo
    <3> QED BY <2>1, <3>1, DepthNat
  <2> QED BY <2>2 DEF IInv, PresentNodes, Climbed, GrownTo, Ancestor, HiddenLeaf
<1>6. SeedsHeld'
  BY DEF IInv, SeedsHeld, Climbed, Unaltered, Below, Ancestor, HiddenLeaf, Chunk
<1> QED BY <1>1, <1>2, <1>3, <1>4, <1>5, <1>6 DEF IInv

(* One level regrown: every node of the next level but the hidden one's    *)
(* ancestor, its sibling having been there from the path already.          *)
LEMMA RegrowLevelStep == IInv /\ RegrowLevel => IInv'
<1> SUFFICES ASSUME IInv, RegrowLevel PROVE IInv'
  OBVIOUS
<1> USE DEF RegrowLevel, inputs, signer
<1> DEFINE parents == Level(depth) \cap present
<1>0. /\ depth \in 1 .. L - 1 /\ depth \in 0 .. L - 1 /\ depth \in 0 .. L /\ depth \in 1 .. L
      /\ hidden \in 0 .. NbEvals - 1
      /\ L - depth \in 0 .. L /\ L - (depth + 1) \in 0 .. L
  BY DepthNat DEF IInv, Control
<1>1. TypeOK'
  BY <1>0, GrowType, DepthNat DEF IInv, TypeOK
<1>2. Control'
  BY <1>0, DepthNat DEF Control
<1>3. TreeGrown'
  BY DEF IInv, TreeGrown, ExpandedTo, FamilyOf
<1>4. PathWalked'
  BY DEF IInv, PathWalked, Walked, Ancestor, HiddenLeaf
<1>5. ASSUME NEW d \in 0 .. L, NEW i \in Level(d)
      PROVE  i \in present <=>
               /\ i # Ancestor(L - d)
               /\ d <= depth \/ (i = Sibling(Ancestor(L - d)) /\ L - d < L)
  BY <1>0 DEF IInv, PresentNodes, Climbed, GrownTo
<1>6. ASSUME NEW p \in parents
      PROVE  p # Ancestor(L - depth) /\ p \in NodeIndex /\ p \in Nat /\ FamilyOf(p, depth)
  <2>1. p # Ancestor(L - depth)
    BY <1>0, <1>5
  <2>2. FamilyOf(p, depth)
    BY <1>0, DepthNat DEF IInv, TreeGrown, ExpandedTo
  <2> QED BY <1>0, <2>1, <2>2, LevelInHeap
<1>7. PresentNodes'
  <2>1. ASSUME NEW d \in 0 .. L, NEW i \in Level(d)
        PROVE  i \in present' <=>
                 /\ i # Ancestor(L - d)
                 /\ d <= depth + 1 \/ (i = Sibling(Ancestor(L - d)) /\ L - d < L)
    <3>0. i \in NodeIndex /\ i \in Nat
      BY LevelInHeap
    <3>1. i \in present' <=> i \in present \/ i \div 2 \in parents
      BY <3>0
    <3>2. CASE d = 0
      <4>1. i = 1 /\ i = Ancestor(L - d)
        BY <1>0, <3>2, RootFacts, DepthNat
      <4>2. i \div 2 \notin parents
        <5>1. 1 \div 2 = 0
          OBVIOUS
        <5> QED BY <1>0, <4>1, <5>1, LevelInHeap
      <4> QED BY <1>5, <3>1, <4>1, <4>2
    <3>3. CASE d # 0
      <4>0. d - 1 \in 0 .. L - 1 /\ d - 1 \in 0 .. L /\ (d - 1) + 1 = d
        BY <3>3, DepthNat
      <4>1. i \div 2 \in Level(d - 1)
        BY <3>0, <4>0, LevelStep
      <4>2. CASE d # depth + 1
        <5>1. i \div 2 \notin parents
          <6>1. d - 1 # depth
            BY <1>0, <4>0, <4>2
          <6> QED BY <1>0, <4>0, <4>1, <6>1, LevelUnique
        <5> QED BY <1>0, <1>5, <3>1, <4>2, <5>1
      <4>3. CASE d = depth + 1
        <5>1. i \div 2 \in parents <=> i \div 2 # Ancestor(L - depth)
          BY <1>0, <1>5, <4>1, <4>3, DepthNat
        <5>2. Ancestor(L - d) \in Nat /\ Ancestor(L - depth) = Ancestor(L - d) \div 2
          <6>1. L - d \in 0 .. L /\ (L - d) + 1 = L - depth
            BY <1>0, <4>3, DepthNat
          <6> QED BY <1>0, <6>1, AncestorFacts
        <5>3. i # Ancestor(L - d) /\ i \div 2 = Ancestor(L - depth)
                => i = Sibling(Ancestor(L - d))
          BY <3>0, <5>2, SiblingFacts
        <5> QED BY <1>0, <1>5, <3>1, <4>3, <5>1, <5>2, <5>3, DepthNat
      <4> QED BY <4>2, <4>3
    <3> QED BY <3>2, <3>3
  <2>2. Climbed = L /\ Climbed' = L /\ GrownTo' = depth + 1
    BY DEF Climbed, GrownTo
  <2>3. nodeIndex' = Ancestor(L) /\ pc' = "regrow" /\ hidden' = hidden
    BY <1>0, <2>2 DEF IInv, PresentNodes
  <2> HIDE DEF RegrowLevel
  <2> QED BY <2>1, <2>2, <2>3 DEF PresentNodes, Ancestor, HiddenLeaf
<1>8. SeedsHeld'
  <2>0. /\ \A i \in NodeIndex : i \div 2 \notin parents => vnodes'[i] = vnodes[i]
        /\ \A p \in parents \cap Nat : 2 * p + 1 \in NodeIndex =>
             /\ vnodes'[2 * p] = Derive(key, depth - 1, vnodes[p])
             /\ vnodes'[2 * p + 1] = Xor(vnodes'[2 * p], vnodes[p])
    BY <1>0, GrowFacts DEF IInv, TypeOK
  <2>1. \A i \in NodeIndex \ present' : vnodes'[i] = ZeroSeed
    BY <1>0, <2>0 DEF IInv, SeedsHeld
  <2>2. ASSUME NEW k \in Chunk
        PROVE  vnodes'[Sibling(Ancestor(k))] = wire[k]
    <3>1. /\ Sibling(Ancestor(k)) \in NodeIndex /\ k + 1 \in 0 .. L /\ k < L
          /\ Sibling(Ancestor(k)) \div 2 = Ancestor(k + 1)
      BY <1>0, PathSibling, DepthNat
    <3>2. Ancestor(k + 1) \notin parents
      <4>1. Ancestor(k + 1) \in Level(L - (k + 1)) /\ L - (k + 1) \in 0 .. L
        BY <1>0, <3>1, AncestorFacts, DepthNat
      <4>2. L - (L - (k + 1)) = k + 1
        BY <3>1, DepthNat
      <4> QED BY <1>5, <4>1, <4>2
    <3> QED BY <1>0, <2>0, <3>1, <3>2 DEF IInv, SeedsHeld, Climbed, Chunk
  <2>3. ASSUME NEW i \in present', Unaltered(i)
        PROVE  vnodes'[i] = nodes[i]
    <3>0. i \in NodeIndex /\ i \in Nat
      BY DEF IInv, TypeOK, NodeIndex
    <3>1. CASE i \div 2 \notin parents
      BY <1>0, <2>0, <2>3, <3>0, <3>1 DEF IInv, SeedsHeld
    <3>2. CASE i \div 2 \in parents
      <4> DEFINE p == i \div 2
      <4>1. Unaltered(p)
        <5> SUFFICES ASSUME NEW k \in Chunk, Below(p, Sibling(Ancestor(k)))
                     PROVE  wire[k] = path[k]
          BY DEF Unaltered
        <5>1. Below(i, Sibling(Ancestor(k)))
          BY <1>0, <3>0, BelowChild, PathSibling
        <5> QED BY <2>3, <5>1 DEF Unaltered
      <4>2. vnodes[p] = nodes[p]
        BY <1>0, <3>2, <4>1 DEF IInv, SeedsHeld
      <4>3. /\ p \in Level(depth) /\ p \in Nat /\ 2 * p + 1 \in NodeIndex
            /\ i = 2 * p \/ i = 2 * p + 1
        BY <1>0, <3>0, <3>2, ChildFacts
      <4>4. FamilyOf(p, depth)
        BY <1>6, <3>2
      <4> HIDE DEF p
      <4>5. p \in parents
        BY <3>2 DEF p
      <4> QED BY <2>0, <4>2, <4>3, <4>4, <4>5 DEF FamilyOf
    <3> QED BY <3>1, <3>2
  <2>4. Climbed' = L
    BY DEF Climbed
  <2>5. hidden' = hidden /\ wire' = wire /\ path' = path /\ nodes' = nodes
    OBVIOUS
  <2> HIDE DEF RegrowLevel
  <2> QED BY <2>1, <2>2, <2>3, <2>4, <2>5
          DEF SeedsHeld, Unaltered, Below, Ancestor, HiddenLeaf
<1> QED BY <1>1, <1>2, <1>3, <1>4, <1>7, <1>8 DEF IInv

(* The final check never fails. *)
LEMMA CheckLeavesStep == IInv /\ CheckLeaves => IInv'
<1> SUFFICES ASSUME IInv, CheckLeaves PROVE IInv'
  OBVIOUS
<1> USE DEF CheckLeaves, inputs, signer, verifier
<1>0. hidden \in 0 .. NbEvals - 1 /\ depth = L /\ L \in 0 .. L /\ 0 \in 0 .. L /\ L - L = 0
  BY DepthNat DEF IInv, Control
<1>1. ExactlyHiddenMissing
  <2> SUFFICES ASSUME NEW i \in 0 .. NbEvals - 1
               PROVE  (NbEvals + i \in present) = (i # hidden)
    BY DEF ExactlyHiddenMissing
  <2>1. NbEvals + i \in Level(L)
    <3>1. 2^L = NbEvals /\ 2^(L + 1) = 2 * NbEvals
      BY <1>0, PowerStep DEF NbEvals
    <3> QED BY <3>1, DepthNat DEF Level
  <2>2. Ancestor(0) = NbEvals + hidden
    BY <1>0, AncestorFacts DEF HiddenLeaf
  <2>3. NbEvals + i \in present <=> NbEvals + i # Ancestor(0)
    BY <1>0, <2>1 DEF IInv, PresentNodes, GrownTo
  <2>4. NbEvals + i # NbEvals + hidden <=> i # hidden
    BY <1>0, DepthNat
  <2> QED BY <2>2, <2>3, <2>4
<1>2. pc' = "some"
  BY <1>1
<1>3. TypeOK'
  BY <1>2 DEF IInv, TypeOK
<1>4. Control'
  BY <1>0, <1>2 DEF Control
<1>5. TreeGrown'
  BY <1>2 DEF IInv, TreeGrown, ExpandedTo, FamilyOf
<1>6. PathWalked'
  BY <1>2 DEF IInv, PathWalked, Walked, Ancestor, HiddenLeaf
<1>7. PresentNodes'
  BY <1>2 DEF IInv, PresentNodes, Climbed, GrownTo, Ancestor, HiddenLeaf
<1>8. SeedsHeld'
  BY <1>2 DEF IInv, SeedsHeld, Climbed, Unaltered, Below, Ancestor, HiddenLeaf, Chunk
<1> QED BY <1>3, <1>4, <1>5, <1>6, <1>7, <1>8 DEF IInv

LEMMA Stutter == IInv /\ UNCHANGED vars => IInv'
<1> SUFFICES ASSUME IInv, UNCHANGED vars PROVE IInv'
  OBVIOUS
<1> USE DEF vars, inputs, signer, verifier
<1>1. TypeOK' /\ Control'
  BY DEF IInv, TypeOK, Control
<1>2. TreeGrown'
  BY DEF IInv, TreeGrown, ExpandedTo, FamilyOf
<1>3. PathWalked' /\ PresentNodes'
  BY DEF IInv, PathWalked, Walked, PresentNodes, Climbed, GrownTo, Ancestor, HiddenLeaf
<1>4. SeedsHeld'
  BY DEF IInv, SeedsHeld, Climbed, Unaltered, Below, Ancestor, HiddenLeaf
<1> QED BY <1>1, <1>2, <1>3, <1>4 DEF IInv

LEMMA NextStep == IInv /\ [Next]_vars => IInv'
BY ExpandLevelStep, ExpandedStep, RefuseIndexStep, WalkDownStep, DeliverStep,
   PlaceSiblingStep, PlacedStep, RegrowLevelStep, CheckLeavesStep, Stutter
   DEF Next

THEOREM Invariance == Spec => []IInv
BY InitStep, NextStep, PTL DEF Spec

-----------------------------------------------------------------------------
(* What the invariant gives. *)

(* The tree code keeps every variable in its type. *)
THEOREM TypeCorrect == Spec => []TypeOK
<1>1. IInv => TypeOK
  BY DEF IInv
<1> QED BY <1>1, Invariance, PTL

(* opening_path (blc.rs:184-222) finds the siblings and the leaf that      *)
(* fully_expand_tree (blc.rs:153-182) computed.                            *)
THEOREM OpeningCorrect == Spec => []OpeningMatchesTree
<1>1. IInv => OpeningMatchesTree
  <2> SUFFICES ASSUME IInv, pc \in {"place", "regrow", "some"}
               PROVE  /\ \A k \in Chunk : path[k] = nodes[Sibling(Ancestor(k))]
                      /\ parent = nodes[HiddenLeaf]
    BY DEF OpeningMatchesTree
  <2>1. hidden \in 0 .. NbEvals - 1 /\ Walked = L /\ L - L = 0 /\ L # 0 /\ 0 \in 0 .. L
    BY DepthNat DEF IInv, Control, Walked
  <2>2. Ancestor(0) = HiddenLeaf
    BY <2>1, AncestorFacts
  <2> QED BY <2>1, <2>2 DEF IInv, PathWalked, Chunk
<1> QED BY <1>1, Invariance, PTL

(* The leaves evaluate_opening works on are the signer's wherever the path *)
(* was not altered (blc.rs:100-151 against 153-182).                       *)
THEOREM UnalteredLeavesCorrect == Spec => []UnalteredLeavesAgree
<1>1. IInv => UnalteredLeavesAgree
  <2> SUFFICES ASSUME IInv, pc = "some", NEW i \in Leaves, Unaltered(i)
               PROVE  vnodes[i] = IF i = HiddenLeaf THEN ZeroSeed ELSE nodes[i]
    BY DEF UnalteredLeavesAgree
  <2>1. /\ hidden \in 0 .. NbEvals - 1 /\ L - L = 0 /\ 0 \in 0 .. L /\ L \in 0 .. L
        /\ GrownTo = L
    BY DepthNat DEF IInv, Control, GrownTo
  <2>2. Ancestor(0) = HiddenLeaf /\ i \in NodeIndex /\ i \in Level(L)
    BY <2>1, AncestorFacts, LevelInHeap DEF Leaves
  <2>3. i \in present <=> i # HiddenLeaf
    BY <2>1, <2>2 DEF IInv, PresentNodes
  <2> QED BY <2>1, <2>2, <2>3 DEF IInv, SeedsHeld
<1> QED BY <1>1, Invariance, PTL

(* The verifier never derives a node on the hidden path. *)
THEOREM HiddenPathSecret == Spec => []HiddenPathUnknown
<1>1. IInv => HiddenPathUnknown
  <2> SUFFICES ASSUME IInv, pc \in {"place", "regrow", "some"}, NEW k \in 0 .. L
               PROVE  Ancestor(k) \notin present
    BY DEF HiddenPathUnknown
  <2>1. hidden \in 0 .. NbEvals - 1 /\ L - k \in 0 .. L /\ L - (L - k) = k
    BY DepthNat DEF IInv, Control
  <2>2. Ancestor(k) \in Level(L - k)
    BY <2>1, AncestorFacts
  <2> QED BY <2>1, <2>2 DEF IInv, PresentNodes
<1> QED BY <1>1, Invariance, PTL

(* Only an index out of range is refused (blc.rs:106, 142-146, 192). *)
THEOREM RefusalCorrect == Spec => []RefusesOnlyBadIndex
<1>1. IInv => RefusesOnlyBadIndex
  BY DEF IInv, Control, RefusesOnlyBadIndex
<1> QED BY <1>1, Invariance, PTL

(* The second loop writes only nodes that were absent. *)
LEMMA RegrowKeeps ==
  IInv /\ RegrowLevel => \A i \in present : i \in present' /\ vnodes'[i] = vnodes[i]
<1> SUFFICES ASSUME IInv, RegrowLevel, NEW i \in present
             PROVE  i \in present' /\ vnodes'[i] = vnodes[i]
  OBVIOUS
<1>0. i \in NodeIndex /\ i \in Nat
  BY DEF IInv, TypeOK, NodeIndex
<1> DEFINE parents == Level(depth) \cap present
<1>1. /\ hidden \in 0 .. NbEvals - 1 /\ depth \in 1 .. L - 1 /\ depth \in 0 .. L - 1
      /\ depth \in 0 .. L /\ depth \in 1 .. L /\ depth + 1 \in 0 .. L
      /\ L - (depth + 1) \in 0 .. L /\ (L - (depth + 1)) + 1 = L - depth
  BY DepthNat DEF RegrowLevel, IInv, Control
<1>2. \A d \in 0 .. L : \A j \in Level(d) :
        j \in present <=>
          /\ j # Ancestor(L - d)
          /\ d <= depth \/ (j = Sibling(Ancestor(L - d)) /\ L - d < L)
  BY <1>1 DEF RegrowLevel, IInv, PresentNodes, Climbed, GrownTo
<1>3. i \div 2 \notin parents
  <2> SUFFICES ASSUME i \div 2 \in parents PROVE FALSE
    OBVIOUS
  <2>1. i \in Level(depth + 1)
    BY <1>0, <1>1, LevelStep
  <2>2. i = Sibling(Ancestor(L - (depth + 1)))
    BY <1>1, <1>2, <2>1
  <2>3. /\ Ancestor(L - (depth + 1)) \in Nat
        /\ Ancestor(L - depth) = Ancestor(L - (depth + 1)) \div 2
    BY <1>1, AncestorFacts
  <2>4. i \div 2 = Ancestor(L - depth)
    BY <2>2, <2>3, SiblingFacts
  <2> QED BY <1>1, <1>2, <2>4
<1>4. vnodes'[i] = Grow(vnodes, parents, depth)[i] /\ i \in present'
  BY DEF RegrowLevel
<1> QED BY <1>0, <1>1, <1>3, <1>4, GrowFacts DEF IInv, TypeOK

(* Neither loop of partially_expand_tree writes a node already present. *)
THEOREM PresentKept == Spec => PresentIsFinal
<1>1. IInv /\ [Next]_vars =>
        [\A i \in present : i \in present' /\ vnodes'[i] = vnodes[i]]_vars
  <2> SUFFICES ASSUME IInv, Next, NEW i \in present
               PROVE  i \in present' /\ vnodes'[i] = vnodes[i]
    OBVIOUS
  <2>0. i \in NodeIndex /\ i \in Nat
    BY DEF IInv, TypeOK, NodeIndex
  <2>1. CASE PlaceSibling
    <3> DEFINE s == Sibling(Ancestor(depth))
    <3>1. /\ depth \in Chunk /\ depth \in 0 .. L - 1 /\ hidden \in 0 .. NbEvals - 1
          /\ nodeIndex = Ancestor(depth)
      BY <2>1, DepthNat DEF PlaceSibling, IInv, TypeOK, Control, PresentNodes, Climbed, Chunk
    <3>2. s \in Level(L - depth) /\ L - depth \in 1 .. L /\ L - (L - depth) = depth
      BY <3>1, PathSibling, DepthNat
    <3>3. s \notin present
      BY <2>1, <3>1, <3>2 DEF PlaceSibling, IInv, PresentNodes, Climbed, GrownTo
    <3> QED BY <2>0, <2>1, <3>1, <3>3 DEF PlaceSibling, IInv, TypeOK
  <2>2. CASE RegrowLevel
    BY <2>2, RegrowKeeps
  <2>3. CASE ~PlaceSibling /\ ~RegrowLevel
    BY <2>3 DEF Next, ExpandLevel, Expanded, RefuseIndex, WalkDown, Deliver,
                Placed, CheckLeaves, signer, verifier
  <2> QED BY <2>1, <2>2, <2>3
<1> QED BY <1>1, Invariance, PTL DEF Spec, PresentIsFinal

(* An altered chunk makes some node differ on every level below it. *)
LEMMA ShownStep == IInv /\ AlterationShown /\ [Next]_vars => AlterationShown'
<1> SUFFICES ASSUME IInv, AlterationShown, [Next]_vars,
                    pc' \in {"regrow", "some"},
                    NEW k \in Chunk, wire'[k] # path'[k], L - k <= depth'
             PROVE  \E i \in Level(depth') \cap present' : vnodes'[i] # nodes'[i]
  BY DEF AlterationShown
<1>1. CASE Placed
  <2> DEFINE s == Sibling(Ancestor(k))
  <2>0. /\ hidden \in 0 .. NbEvals - 1 /\ k = L - 1 /\ k \in 0 .. L /\ L - k = 1
        /\ depth' = 1 /\ present' = present /\ vnodes' = vnodes /\ nodes' = nodes
        /\ wire' = wire /\ path' = path /\ pc = "place" /\ depth = L
    BY <1>1, DepthNat DEF Placed, Chunk, IInv, Control, signer, verifier
  <2>1. s \in Level(1) /\ 1 \in 0 .. L /\ s # Ancestor(k)
    BY <2>0, PathSibling, DepthNat
  <2>2. s \in present
    BY <2>0, <2>1, DepthNat DEF IInv, PresentNodes, Climbed
  <2>3. vnodes[s] = wire[k] /\ nodes[s] = path[k]
    BY <2>0, DepthNat DEF IInv, SeedsHeld, PathWalked, Climbed, Walked, Chunk
  <2> QED BY <2>0, <2>1, <2>2, <2>3
<1>2. CASE RegrowLevel
  <2>0. /\ hidden \in 0 .. NbEvals - 1 /\ depth \in 1 .. L - 1 /\ depth \in 0 .. L - 1
        /\ depth \in 1 .. L /\ k \in 0 .. L - 1
        /\ depth' = depth + 1 /\ nodes' = nodes /\ wire' = wire /\ path' = path
        /\ pc' = "regrow" /\ pc = "regrow"
        /\ depth + 1 \in 0 .. L
    BY <1>2, DepthNat DEF RegrowLevel, Chunk, IInv, Control, signer
  <2>1. CASE L - k = depth + 1
    <3> DEFINE s == Sibling(Ancestor(k))
    <3>1. s \in Level(depth + 1) /\ s # Ancestor(k) /\ L - (depth + 1) = k /\ k < L
      BY <2>0, <2>1, PathSibling, DepthNat
    <3>2. s \in present
      BY <2>0, <3>1 DEF IInv, PresentNodes, Climbed
    <3>3. vnodes[s] = wire[k] /\ nodes[s] = path[k]
      BY <2>0, <3>1, DepthNat DEF IInv, SeedsHeld, PathWalked, Climbed, Walked, Chunk
    <3>4. s \in present' /\ vnodes'[s] = vnodes[s]
      <4>1. \A i \in present : i \in present' /\ vnodes'[i] = vnodes[i]
        BY <1>2, <2>0, RegrowKeeps
      <4> QED BY <3>2, <4>1
    <3> QED BY <2>0, <3>1, <3>3, <3>4
  <2>2. CASE L - k # depth + 1
    <3>1. L - k <= depth
      BY <2>0, <2>2, DepthNat
    <3>2. PICK p \in Level(depth) \cap present : vnodes[p] # nodes[p]
      BY <2>0, <3>1 DEF AlterationShown
    <3> DEFINE l == 2 * p  r == 2 * p + 1
    <3>3. /\ p \in NodeIndex /\ p \in Nat /\ l \in Level(depth + 1) /\ r \in Level(depth + 1)
          /\ l \in NodeIndex /\ r \in NodeIndex /\ l \div 2 = p /\ r \div 2 = p
      BY <2>0, <3>2, ChildFacts
    <3>4. l \in present' /\ r \in present'
      BY <1>2, <3>2, <3>3 DEF RegrowLevel
    <3>5. /\ vnodes'[r] = Xor(vnodes'[l], vnodes[p])
          /\ vnodes'[l] \in Seed /\ vnodes[p] \in Seed
      <4>1. vnodes' = Grow(vnodes, Level(depth) \cap present, depth)
        BY <1>2 DEF RegrowLevel
      <4>2. vnodes' \in [NodeIndex -> Seed] /\ vnodes \in [NodeIndex -> Seed]
        BY <2>0, <4>1, GrowType DEF IInv, TypeOK
      <4>3. vnodes'[r] = Xor(vnodes'[l], vnodes[p])
        <5> DEFINE parents == Level(depth) \cap present
        <5>1. p \in parents \cap Nat
          BY <3>3
        <5>2. vnodes' = Grow(vnodes, parents, depth)
          BY <4>1
        <5> HIDE DEF parents
        <5> QED BY <2>0, <3>3, <4>2, <5>1, <5>2, GrowFacts
      <4> QED BY <3>3, <4>2, <4>3
    <3>6. nodes[r] = Xor(nodes[l], nodes[p]) /\ nodes[l] \in Seed /\ nodes[p] \in Seed
      <4>1. FamilyOf(p, depth)
        BY <2>0, <3>2, DepthNat DEF IInv, TreeGrown, ExpandedTo
      <4> QED BY <3>3, <4>1 DEF FamilyOf, IInv, TypeOK
    <3>7. vnodes'[l] # nodes[l] \/ vnodes'[r] # nodes[r]
      BY <3>2, <3>5, <3>6, SeedAssumption
    <3> QED BY <2>0, <3>3, <3>4, <3>7
  <2> QED BY <2>1, <2>2
<1>3. CASE CheckLeaves
  BY <1>3 DEF CheckLeaves, AlterationShown, inputs, signer, verifier
<1>4. CASE UNCHANGED vars
  BY <1>4 DEF vars, inputs, signer, verifier, AlterationShown
<1>5. CASE ~Placed /\ ~RegrowLevel /\ ~CheckLeaves /\ Next
  BY <1>5 DEF Next, ExpandLevel, Expanded, RefuseIndex, WalkDown, Deliver, PlaceSibling
<1> QED BY <1>1, <1>2, <1>3, <1>4, <1>5

(* Tampering with any chunk changes a leaf the verifier commits to. *)
THEOREM AlterationNoticed == Spec => []AlterationReachesLeaves
<1>1. Init => AlterationShown
  BY DEF Init, AlterationShown
<1>2. IInv /\ AlterationShown => AlterationReachesLeaves
  <2> SUFFICES ASSUME IInv, AlterationShown, pc = "some", wire # path
               PROVE  \E i \in Leaves \ {HiddenLeaf} : vnodes[i] # nodes[i]
    BY DEF AlterationReachesLeaves
  <2>1. PICK k \in Chunk : wire[k] # path[k]
    BY DEF IInv, TypeOK
  <2>2. depth = L /\ L - k <= L /\ hidden \in 0 .. NbEvals - 1 /\ 0 \in 0 .. L
    BY DepthNat DEF IInv, Control, Chunk
  <2>3. PICK i \in Level(L) \cap present : vnodes[i] # nodes[i]
    BY <2>1, <2>2 DEF AlterationShown
  <2>4. HiddenLeaf \notin present
    <3>1. /\ Ancestor(0) = HiddenLeaf /\ Ancestor(0) \in Level(L - 0)
          /\ L - 0 = L /\ L - L = 0 /\ L \in 0 .. L
      BY <2>2, AncestorFacts, DepthNat
    <3> QED BY <2>2, <3>1 DEF IInv, PresentNodes
  <2> QED BY <2>3, <2>4 DEF Leaves
<1> QED BY <1>1, <1>2, ShownStep, Invariance, PTL DEF Spec

-----------------------------------------------------------------------------
(* The sum of a level. *)

Seeds == INSTANCE Folding WITH Summand <- Seed, Neutral <- ZeroSeed, Op <- Xor

LEMMA SeedsAddUp == Seeds!OpLaws
BY SeedAssumption DEF Seeds!OpLaws

(* The two instances of the library's fold are one. *)
LEMMA LeavesFold ==
  FoldFunctionOnSet(Xor, ZeroSeed, nodes, Leaves) = Seeds!Fold(nodes, Leaves)
BY DEF Seeds!Fold, FoldFunctionOnSet, MapThenFoldSet,
       Seeds!FoldFunctionOnSet, Seeds!MapThenFoldSet

(* Two children leave their parent: left + (left + parent) = parent. *)
LEMMA FamilySum ==
  ASSUME NEW l \in Seed, NEW p \in Seed, NEW s \in Seed
  PROVE  Xor(Xor(l, p), Xor(l, s)) = Xor(p, s)
<1>1. Xor(l, p) \in Seed /\ Xor(l, s) \in Seed /\ Xor(p, l) = Xor(l, p)
  BY SeedAssumption
<1>2. Xor(Xor(p, l), Xor(l, s)) = Xor(p, Xor(l, Xor(l, s)))
  BY <1>1, SeedAssumption
<1>3. Xor(l, Xor(l, s)) = s
  BY SeedAssumption
<1> QED BY <1>1, <1>2, <1>3

(* A level has the sum of the one above it: parent by parent. *)
LEMMA LevelSum ==
  ASSUME TypeOK, NEW d \in 1 .. L - 1, \A p \in Level(d) : FamilyOf(p, d)
  PROVE  Seeds!Fold(nodes, Level(d + 1)) = Seeds!Fold(nodes, Level(d))
<1> DEFINE b == 2^d
           Upper(n) == b .. b + n - 1
           Lower(n) == 2 * b .. 2 * b + 2 * n - 1
           T == {n \in Nat : n <= b => Seeds!Fold(nodes, Lower(n)) = Seeds!Fold(nodes, Upper(n))}
<1>0. d \in 0 .. L /\ d + 1 \in 0 .. L /\ d \in 0 .. L - 1
  BY DepthNat
<1>1. /\ b \in Nat \ {0} /\ Level(d) = b .. 2 * b - 1
      /\ Level(d + 1) = 2 * b .. 2 * (2 * b) - 1
  BY <1>0, PowerStep DEF Level
<1>2. /\ Level(d) \subseteq NodeIndex /\ Level(d + 1) \subseteq NodeIndex
      /\ \A i \in NodeIndex : nodes[i] \in Seed
  BY <1>0, LevelInHeap DEF TypeOK
<1> HIDE DEF b
<1>3. \A n \in Nat : n <= b => Upper(n) \subseteq Level(d) /\ Lower(n) \subseteq Level(d + 1)
  BY <1>1
<1>4. \A n \in Nat : Seeds!IsFiniteSet(Upper(n)) /\ Seeds!IsFiniteSet(Lower(n))
  <2>1. \A i, j \in Int : Seeds!IsFiniteSet(i .. j)
    BY Seeds!FS_Interval
  <2>2. SUFFICES ASSUME NEW n \in Nat
                 PROVE  Seeds!IsFiniteSet(Upper(n)) /\ Seeds!IsFiniteSet(Lower(n))
    OBVIOUS
  <2>3. b \in Int /\ b + n - 1 \in Int /\ 2 * b \in Int /\ 2 * b + 2 * n - 1 \in Int
    BY <1>1
  <2> QED BY <2>1, <2>3
<1>5. 0 \in T
  <2>1. Upper(0) = Lower(0)
    BY <1>1
  <2> QED BY <2>1
<1>6. ASSUME NEW n \in Nat, n \in T PROVE n + 1 \in T
  <2>1. SUFFICES ASSUME n + 1 <= b
                 PROVE  Seeds!Fold(nodes, Lower(n + 1)) = Seeds!Fold(nodes, Upper(n + 1))
    OBVIOUS
  <2> DEFINE p == b + n
             Half == Lower(n) \cup {2 * p}
  <2>2. /\ Upper(n + 1) = Upper(n) \cup {p} /\ p \notin Upper(n)
        /\ Lower(n + 1) = Half \cup {2 * p + 1}
        /\ 2 * p \notin Lower(n) /\ 2 * p + 1 \notin Half
    BY <1>1
  <2>3. p \in Level(d) /\ 2 * p \in Level(d + 1) /\ 2 * p + 1 \in Level(d + 1)
    BY <1>1, <2>1
  <2> HIDE DEF p, Half, Upper, Lower
  <2>4. /\ \A i \in Upper(n) \cup {p} : nodes[i] \in Seed
        /\ \A i \in Half \cup {2 * p + 1} : nodes[i] \in Seed
        /\ \A i \in Lower(n) \cup {2 * p} : nodes[i] \in Seed
    <3>1. Upper(n) \subseteq Level(d) /\ Lower(n) \subseteq Level(d + 1)
      BY <1>3, <2>1, <1>1
    <3>2. \A i \in Level(d) \cup Level(d + 1) : nodes[i] \in Seed
      BY <1>2
    <3> QED BY <3>1, <3>2, <2>3 DEF Half
  <2>5. Seeds!Fold(nodes, Upper(n + 1)) = Xor(nodes[p], Seeds!Fold(nodes, Upper(n)))
    BY <1>4, <2>2, <2>4, SeedsAddUp, Seeds!FoldAdd
  <2>6. /\ Seeds!IsFiniteSet(Half)
        /\ Seeds!Fold(nodes, Half) = Xor(nodes[2 * p], Seeds!Fold(nodes, Lower(n)))
    BY <1>4, <2>2, <2>4, SeedsAddUp, Seeds!FoldAdd DEF Half
  <2>7. Seeds!Fold(nodes, Lower(n + 1)) = Xor(nodes[2 * p + 1], Seeds!Fold(nodes, Half))
    BY <2>2, <2>4, <2>6, SeedsAddUp, Seeds!FoldAdd
  <2>8. nodes[2 * p + 1] = Xor(nodes[2 * p], nodes[p])
    BY <2>3 DEF FamilyOf
  <2>9. Seeds!Fold(nodes, Lower(n)) \in Seed
    BY <1>4, <2>4, SeedsAddUp, Seeds!FoldTyped
  <2>10. nodes[p] \in Seed /\ nodes[2 * p] \in Seed
    BY <2>4
  <2>11. Seeds!Fold(nodes, Lower(n)) = Seeds!Fold(nodes, Upper(n))
    BY <1>1, <1>6, <2>1
  <2> QED BY <2>5, <2>6, <2>7, <2>8, <2>9, <2>10, <2>11, FamilySum
<1>7. \A n \in Nat : n \in T
  <2> HIDE DEF T
  <2> QED BY <1>5, <1>6, Seeds!NatSetInduction
<1>8. Upper(b) = Level(d) /\ Lower(b) = Level(d + 1)
  BY <1>1
<1> QED BY <1>1, <1>7, <1>8

(* The two roots sum to delta, hence every level that is complete does. *)
LEMMA EveryLevelSum ==
  ASSUME IInv, ExpandedTo = L
  PROVE  \A d \in 1 .. L : Seeds!Fold(nodes, Level(d)) = delta
<1> DEFINE T == {n \in Nat : n + 1 <= L => Seeds!Fold(nodes, Level(n + 1)) = delta}
<1>1. 0 \in T
  <2>1. Level(1) = {2} \cup {3} /\ 1 \in 0 .. L
    <3>1. 1 \in 0 .. L /\ 2^1 = 2
      BY DepthNat, PowerAssumption
    <3>2. 2^(1 + 1) = 2 * 2^1
      BY <3>1, PowerStep
    <3>3. 2^1 .. 2^(1 + 1) - 1 = 2 .. 3
      BY <3>1, <3>2
    <3> QED BY <3>1, <3>3 DEF Level
  <2>2. nodes[2] \in Seed /\ nodes[3] \in Seed /\ nodes[3] = Xor(nodes[2], delta) /\ delta \in Seed
    <3>1. 2 \in NodeIndex /\ 3 \in NodeIndex
      BY <2>1, LevelInHeap
    <3> QED BY <3>1 DEF IInv, TreeGrown, TypeOK
  <2>3. Seeds!IsFiniteSet({}) /\ Seeds!IsFiniteSet({2})
    BY Seeds!FS_EmptySet, Seeds!FS_Singleton
  <2>4. Seeds!Fold(nodes, {} \cup {2}) = Xor(nodes[2], Seeds!Fold(nodes, {}))
    BY <2>2, <2>3, SeedsAddUp, Seeds!FoldAdd
  <2>5. Seeds!Fold(nodes, {2}) = nodes[2]
    BY <2>2, <2>4, Seeds!FoldEmpty, SeedAssumption
  <2>6. Seeds!Fold(nodes, {2} \cup {3}) = Xor(nodes[3], Seeds!Fold(nodes, {2}))
    BY <2>2, <2>3, SeedsAddUp, Seeds!FoldAdd
  <2>7. Xor(Xor(nodes[2], delta), nodes[2]) = delta
    BY <2>2, SeedAssumption
  <2> QED BY <2>1, <2>2, <2>5, <2>6, <2>7
<1>2. ASSUME NEW n \in Nat, n \in T PROVE n + 1 \in T
  <2>1. SUFFICES ASSUME n + 2 <= L PROVE Seeds!Fold(nodes, Level(n + 2)) = delta
    OBVIOUS
  <2>2. n + 1 \in 1 .. L - 1 /\ (n + 1) + 1 = n + 2
    BY <2>1, DepthNat
  <2>3. \A p \in Level(n + 1) : FamilyOf(p, n + 1)
    BY <2>2, DepthNat DEF IInv, TreeGrown
  <2> QED BY <1>2, <2>2, <2>3, LevelSum, DepthNat DEF IInv
<1>3. \A n \in Nat : n \in T
  <2> HIDE DEF T
  <2> QED BY <1>1, <1>2, Seeds!NatSetInduction
<1>4. SUFFICES ASSUME NEW d \in 1 .. L PROVE Seeds!Fold(nodes, Level(d)) = delta
  OBVIOUS
<1>5. d - 1 \in T /\ d - 1 \in Nat /\ (d - 1) + 1 = d /\ d <= L
  BY <1>3, DepthNat
<1> QED BY <1>5

(* The leaves of a complete tree sum to delta: commit relies on it when it *)
(* sends no correction for the first 16 bytes (blc.rs:335-343).            *)
THEOREM LeafSumCorrect == Spec => []LeafSumIsDelta
<1>1. IInv => LeafSumIsDelta
  <2>1. SUFFICES ASSUME IInv, pc = "walk"
                 PROVE  FoldFunctionOnSet(Xor, ZeroSeed, nodes, Leaves) = delta
    BY DEF LeafSumIsDelta
  <2>2. ExpandedTo = L /\ L \in 1 .. L
    BY <2>1, DepthNat DEF ExpandedTo
  <2> QED BY <2>1, <2>2, EveryLevelSum, LeavesFold DEF Leaves, L
<1> QED BY <1>1, Invariance, PTL
=============================================================================
