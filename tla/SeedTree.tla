------------------------------ MODULE SeedTree ------------------------------
(***************************************************************************)
(* The GGM half-tree of one execution of the line commitment: the signer   *)
(* expands it (fully_expand_tree), later recomputes only the path to the   *)
(* hidden leaf (opening_path), and the verifier regrows every other leaf   *)
(* from the siblings on that path (partially_expand_tree).                 *)
(*                                                                         *)
(* A seed is an element of a set with an exclusive-or.  Deriving a left    *)
(* child (tweak_salt with selector 2, then SeedDeriver::derive) is an      *)
(* arbitrary function of a key (salt and execution), a depth index and the *)
(* parent; nothing else about AES is used.  Nodes keep the heap numbering  *)
(* of the code: children of i are 2i and 2i+1, leaves start at NbEvals.    *)
(* One step is one iteration of an outer loop of the code.                 *)
(***************************************************************************)
EXTENDS Integers, Functions

CONSTANTS
  NbEvalsLog,      \* depth of the tree
  Key,             \* what salt and execution select: the keys of every depth
  Seed, ZeroSeed,  \* 16-byte seeds, and the all-zero one
  Xor(_, _),       \* byte-wise exclusive-or of two seeds
  Derive(_, _, _)  \* Derive(key, depth_index, parent): the left child

(* Laws of exponents up to the depth, which the provers do not know of ^.  *)
ASSUME PowerAssumption ==
  /\ NbEvalsLog \in Nat \ {0}
  /\ 2^0 = 1 /\ 2^1 = 2
  /\ \A a \in 0 .. NbEvalsLog + 1 : 2^a \in Nat \ {0}
  /\ \A a, b \in 0 .. NbEvalsLog : a + b <= NbEvalsLog + 1 => 2^(a + b) = 2^a * 2^b

ASSUME SeedAssumption ==
  /\ ZeroSeed \in Seed
  /\ \A a, b \in Seed : Xor(a, b) \in Seed /\ Xor(a, Xor(a, b)) = b
                      /\ Xor(a, b) = Xor(b, a)
  /\ \A a \in Seed : Xor(a, ZeroSeed) = a
  /\ \A a, b, c \in Seed : Xor(Xor(a, b), c) = Xor(a, Xor(b, c))
  /\ \A k \in Key, d \in 0 .. NbEvalsLog, s \in Seed : Derive(k, d, s) \in Seed

VARIABLES
  pc, depth,             \* control: the function running, its loop counter
  key, rootSeed, delta,  \* the signer's inputs for this execution
  hidden,                \* the challenged leaf
  nodes,                 \* fully_expand_tree: the whole tree
  parent, path,          \* opening_path: the seed walked to, sibling chunks
  wire,                  \* the path chunks as the verifier receives them
  nodeIndex, vnodes, present  \* partially_expand_tree

inputs == <<key, rootSeed, delta, hidden>>
signer == <<nodes, parent, path>>
verifier == <<wire, nodeIndex, vnodes, present>>
vars == <<pc, depth, inputs, signer, verifier>>

NbEvals == 2^NbEvalsLog
NodeIndex == 0 .. 2 * NbEvals - 1
Level(d) == 2^d .. 2^(d + 1) - 1
Chunk == 0 .. NbEvalsLog - 1

(* i ^ 1 and i >> k. *)
Sibling(i) == IF i % 2 = 0 THEN i + 1 ELSE i - 1
Shr(i, k) == i \div 2^k

HiddenLeaf == NbEvals + hidden

(* Fault: the right child loses its xor with the parent. *)
Grow_RightNotXored(heap, parents, d) ==
  [i \in NodeIndex |->
     IF i \div 2 \in parents THEN Derive(key, d - 1, heap[i \div 2]) ELSE heap[i]]

(* The heap with the children of every parent in a set filled in: left is  *)
(* derived, right is left xor parent.                                      *)
Grow(heap, parents, d) ==
  [i \in NodeIndex |->
     LET p == i \div 2
         left == Derive(key, d - 1, heap[p])
     IN IF p \notin parents THEN heap[i]
        ELSE IF i % 2 = 0 THEN left ELSE Xor(left, heap[p])]

-----------------------------------------------------------------------------
Init ==
  /\ key \in Key /\ rootSeed \in Seed /\ delta \in Seed
  /\ hidden \in 0 .. NbEvals   \* NbEvals: the first index out of range
  /\ pc = "expand" /\ depth = 1
  /\ nodes = [i \in NodeIndex |-> CASE i = 2 -> rootSeed
                                    [] i = 3 -> Xor(rootSeed, delta)
                                    [] OTHER -> ZeroSeed]
  /\ parent = delta
  /\ path = [k \in Chunk |-> ZeroSeed]
  /\ wire = path
  /\ nodeIndex = HiddenLeaf
  /\ vnodes = [i \in NodeIndex |-> ZeroSeed]
  /\ present = {}

(* fully_expand_tree, one depth. *)
ExpandLevel ==
  /\ pc = "expand" /\ depth < NbEvalsLog
  /\ nodes' = Grow(nodes, Level(depth), depth)
  /\ depth' = depth + 1
  /\ UNCHANGED <<pc, inputs, parent, path, verifier>>

(* The tree is dropped by the code here; the model keeps it to compare.    *)
Expanded ==
  /\ pc = "expand" /\ depth = NbEvalsLog
  /\ pc' = "walk" /\ depth' = 0
  /\ UNCHANGED <<inputs, signer, verifier>>

(* opening_path refuses an index out of range; open and sign give None.    *)
RefuseIndex ==
  /\ pc = "walk" /\ hidden >= NbEvals
  /\ pc' = "none"
  /\ UNCHANGED <<depth, inputs, signer, verifier>>

(* Fault: the walk uses the depth index of the loop, not the one before it. *)
WalkDown_DepthIndexOffByOne ==
  /\ pc = "walk" /\ hidden < NbEvals /\ depth < NbEvalsLog
  /\ LET left == IF depth = 0 THEN rootSeed ELSE Derive(key, depth, parent)
         right == Xor(left, parent)
         slot == NbEvalsLog - 1 - depth
         bit == Shr(HiddenLeaf, slot) % 2
     IN /\ path' = [path EXCEPT ![slot] = IF bit = 0 THEN right ELSE left]
        /\ parent' = IF bit = 0 THEN left ELSE right
  /\ depth' = depth + 1
  /\ UNCHANGED <<pc, inputs, nodes, verifier>>

(* opening_path, one depth: the left child from the parent (the root pair  *)
(* is given), the bit of the leaf index that selects, the other child kept.*)
WalkDown ==
  /\ pc = "walk" /\ hidden < NbEvals /\ depth < NbEvalsLog
  /\ LET left == IF depth = 0 THEN rootSeed ELSE Derive(key, depth - 1, parent)
         right == Xor(left, parent)
         slot == NbEvalsLog - 1 - depth
         bit == Shr(HiddenLeaf, slot) % 2
     IN /\ path' = [path EXCEPT ![slot] = IF bit = 0 THEN right ELSE left]
        /\ parent' = IF bit = 0 THEN left ELSE right
  /\ depth' = depth + 1
  /\ UNCHANGED <<pc, inputs, nodes, verifier>>

(* The opening reaches the verifier, one chunk of it possibly changed.     *)
Deliver ==
  /\ pc = "walk" /\ hidden < NbEvals /\ depth = NbEvalsLog
  /\ \E k \in Chunk, s \in Seed : wire' = [path EXCEPT ![k] = s]
  /\ pc' = "place" /\ depth' = 0
  /\ UNCHANGED <<inputs, signer, nodeIndex, vnodes, present>>

(* Fault: the node climbed to is marked present, not its sibling.          *)
PlaceSibling_MarksHiddenPath ==
  /\ pc = "place" /\ depth < NbEvalsLog
  /\ vnodes' = [vnodes EXCEPT ![Sibling(nodeIndex)] = wire[depth]]
  /\ present' = present \cup {nodeIndex}
  /\ nodeIndex' = nodeIndex \div 2
  /\ depth' = depth + 1
  /\ UNCHANGED <<pc, inputs, signer, wire>>

(* Fault: the chunks are read from the root down instead of from the leaf. *)
PlaceSibling_ChunksReversed ==
  /\ pc = "place" /\ depth < NbEvalsLog
  /\ vnodes' = [vnodes EXCEPT ![Sibling(nodeIndex)] = wire[NbEvalsLog - 1 - depth]]
  /\ present' = present \cup {Sibling(nodeIndex)}
  /\ nodeIndex' = nodeIndex \div 2
  /\ depth' = depth + 1
  /\ UNCHANGED <<pc, inputs, signer, wire>>

(* partially_expand_tree, first loop: one chunk is stored as the sibling   *)
(* of the node climbed to.                                                 *)
PlaceSibling ==
  /\ pc = "place" /\ depth < NbEvalsLog
  /\ vnodes' = [vnodes EXCEPT ![Sibling(nodeIndex)] = wire[depth]]
  /\ present' = present \cup {Sibling(nodeIndex)}
  /\ nodeIndex' = nodeIndex \div 2
  /\ depth' = depth + 1
  /\ UNCHANGED <<pc, inputs, signer, wire>>

Placed ==
  /\ pc = "place" /\ depth = NbEvalsLog
  /\ pc' = "regrow" /\ depth' = 1
  /\ UNCHANGED <<inputs, signer, verifier>>

(* Fault: only the left child of a parent is marked present.               *)
RegrowLevel_RightNotMarked ==
  /\ pc = "regrow" /\ depth < NbEvalsLog
  /\ LET parents == Level(depth) \cap present
     IN /\ vnodes' = Grow(vnodes, parents, depth)
        /\ present' = present \cup {2 * p : p \in parents}
  /\ depth' = depth + 1
  /\ UNCHANGED <<pc, inputs, signer, wire, nodeIndex>>

(* Fault: parents that are absent are expanded too (a dropped continue).   *)
RegrowLevel_ExpandsAbsent ==
  /\ pc = "regrow" /\ depth < NbEvalsLog
  /\ vnodes' = Grow(vnodes, Level(depth), depth)
  /\ present' = present \cup {i \in NodeIndex : i \div 2 \in Level(depth) \cap present}
  /\ depth' = depth + 1
  /\ UNCHANGED <<pc, inputs, signer, wire, nodeIndex>>

(* Fault: the depth loop runs once too often, over the leaves.             *)
RegrowLevel_OnePast ==
  /\ pc = "regrow" /\ depth <= NbEvalsLog
  /\ LET parents == Level(depth) \cap present
     IN /\ vnodes' = Grow(vnodes, parents, depth)
        /\ present' = present \cup {i \in NodeIndex : i \div 2 \in parents}
  /\ depth' = depth + 1
  /\ UNCHANGED <<pc, inputs, signer, wire, nodeIndex>>

(* Second loop, one depth: children of every parent that is present.       *)
RegrowLevel ==
  /\ pc = "regrow" /\ depth < NbEvalsLog
  /\ LET parents == Level(depth) \cap present
     IN /\ vnodes' = Grow(vnodes, parents, depth)
        /\ present' = present \cup {i \in NodeIndex : i \div 2 \in parents}
  /\ depth' = depth + 1
  /\ UNCHANGED <<pc, inputs, signer, wire, nodeIndex>>

(* The last check: exactly the hidden leaf is missing, or None.            *)
ExactlyHiddenMissing ==
  \A i \in 0 .. NbEvals - 1 : (NbEvals + i \in present) = (i # hidden)

CheckLeaves ==
  /\ pc = "regrow" /\ depth = NbEvalsLog
  /\ pc' = IF ExactlyHiddenMissing THEN "some" ELSE "none"
  /\ UNCHANGED <<depth, inputs, signer, verifier>>

Next ==
  \/ ExpandLevel \/ Expanded
  \/ RefuseIndex \/ WalkDown \/ Deliver
  \/ PlaceSibling \/ Placed
  \/ RegrowLevel \/ CheckLeaves

Spec == Init /\ [][Next]_vars
-----------------------------------------------------------------------------
TypeOK ==
  /\ pc \in {"expand", "walk", "place", "regrow", "some", "none"}
  /\ depth \in 0 .. NbEvalsLog
  /\ key \in Key /\ rootSeed \in Seed /\ delta \in Seed
  /\ hidden \in 0 .. NbEvals
  /\ nodes \in [NodeIndex -> Seed]
  /\ parent \in Seed /\ path \in [Chunk -> Seed]
  /\ wire \in [Chunk -> Seed]
  /\ nodeIndex \in Nat
  /\ vnodes \in [NodeIndex -> Seed] /\ present \subseteq NodeIndex

Leaves == Level(NbEvalsLog)

(* The ancestor of the hidden leaf at a height, and the nodes that grow    *)
(* out of a given one.                                                     *)
Ancestor(k) == Shr(HiddenLeaf, k)
Below(i, root) == \E j \in 0 .. NbEvalsLog : Shr(i, j) = root

(* Every chunk of the path a node grows out of arrived unaltered.          *)
Unaltered(i) ==
  \A k \in Chunk : Below(i, Sibling(Ancestor(k))) => wire[k] = path[k]

(* The leaves of a complete tree sum to delta, the first 16 bytes of the   *)
(* secret.  commit (blc.rs:335-343) relies on it: it sends a correction    *)
(* only for the bytes after them.                                          *)
LeafSumIsDelta ==
  pc = "walk" => FoldFunctionOnSet(Xor, ZeroSeed, nodes, Leaves) = delta

(* opening_path recomputes along one path what fully_expand_tree computed  *)
(* for the whole tree: when it is done every chunk is the sibling of the   *)
(* hidden leaf's ancestor at that height, and the seed it returns (which   *)
(* open commits to) is the hidden leaf itself.                             *)
OpeningMatchesTree ==
  pc \in {"place", "regrow", "some"} =>
    /\ \A k \in Chunk : path[k] = nodes[Sibling(Ancestor(k))]
    /\ parent = nodes[HiddenLeaf]

(* What the verifier regrows is the signer's tree: every leaf that grows   *)
(* out of unaltered chunks is the signer's leaf, whatever happened to the  *)
(* others, and the entry of the hidden leaf was never written.             *)
UnalteredLeavesAgree ==
  pc = "some" =>
    \A i \in Leaves :
      Unaltered(i) => vnodes[i] = IF i = HiddenLeaf THEN ZeroSeed ELSE nodes[i]

(* Nothing the verifier holds is, or derives, a node on the hidden path.   *)
HiddenPathUnknown ==
  pc \in {"place", "regrow", "some"} =>
    \A k \in 0 .. NbEvalsLog : Ancestor(k) \notin present

(* An index in range always yields all the leaves but the hidden one, even *)
(* from altered chunks: the only refusal is an index out of range, and the *)
(* final check over present (blc.rs:142-146) never fails.                  *)
RefusesOnlyBadIndex == pc = "none" => hidden >= NbEvals

(* An altered chunk cannot go unnoticed in the leaves, even where the      *)
(* derivation collides: left and right together determine their parent.    *)
AlterationReachesLeaves ==
  pc = "some" /\ wire # path =>
    \E i \in Leaves \ {HiddenLeaf} : vnodes[i] # nodes[i]

(* No step overwrites a seed already present: siblings placed from the     *)
(* path are never recomputed from their parent, nor the reverse.           *)
PresentIsFinal ==
  [][\A i \in present : i \in present' /\ vnodes'[i] = vnodes[i]]_vars
=============================================================================
