--------------------------------- MODULE Prg ---------------------------------
(***************************************************************************)
(* The AES keys of one signature and the streams drawn with them (prg.rs,  *)
(* and where blc.rs calls it): the root seeds, then for every execution    *)
(* the keys of the tree's levels, the two of the seed committer and those  *)
(* of the leaf generator, which fills an expanded leaf.                    *)
(*                                                                         *)
(* A key is the salt with a tweak on its first three bytes; of the salt    *)
(* only these are kept.  AES is ideal: a byte of a block is the key it was *)
(* encrypted under and its place.  A byte has ByteSize values and a        *)
(* usize is at most MaxUsize.                                              *)
(***************************************************************************)
EXTENDS Integers, Sequences

CONSTANTS
  ByteSize, MaxUsize,
  BlockSize,                   \* bytes in a block
  Tau, NbEvalsLog,
  Salt, ZeroSalt,
  Xor(_, _),                   \* of two bytes
  Length                       \* what a generator is made for, or asked for

Byte == 0 .. ByteSize - 1

ASSUME SizeAssumption ==
  /\ ByteSize \in Nat \ {0} /\ MaxUsize \in Nat /\ BlockSize \in Nat \ {0}
  /\ Tau \in Nat \ {0} /\ 4 * Tau <= ByteSize      \* 12 executions, bytes of 256
  /\ NbEvalsLog \in Nat /\ NbEvalsLog <= ByteSize
  /\ Length \subseteq Nat
  /\ Tau * BlockSize + BlockSize <= MaxUsize

ASSUME XorAssumption ==
  /\ \A a, b \in Byte : /\ Xor(a, b) \in Byte /\ Xor(a, b) = Xor(b, a)
                        /\ Xor(a, Xor(a, b)) = b
  /\ \A a, b \in Byte : b % 2 = 0 /\ 1 \in Byte => Xor(Xor(a, b), 1) = Xor(a, b + 1)

ASSUME SaltAssumption ==
  Salt \subseteq Byte \X Byte \X Byte /\ ZeroSalt \in Byte \X Byte \X Byte

VARIABLES
  pc, execution,
  salt,                        \* of the signature
  caller,                      \* "root" or "leaf", whose generator it is
  depth,                       \* the tree's level
  prepared, request,           \* lengths given to Generator::new and to fill
  blocks,                      \* Generator: one key per block
  chunk, output,               \* fill: blocks done, what was written
  keys                         \* history: what each key was made for

vars == <<pc, execution, salt, caller, depth, prepared, request, blocks, chunk, output, keys>>

BlockLimit == ByteSize * ByteSize        \* u16::MAX + 1
RootSeedsSize == Tau * BlockSize

(* Fault: the execution is not shifted past the selector. *)
TweakSalt_Unshifted(s, selector, e, index) ==
  <<Xor(s[1], (selector + e) % ByteSize),
    Xor(s[2], index % ByteSize), Xor(s[3], (index \div ByteSize) % ByteSize)>>

TweakSalt(s, selector, e, index) ==
  <<Xor(s[1], (selector + ((4 * e) % ByteSize)) % ByteSize),
    Xor(s[2], index % ByteSize), Xor(s[3], (index \div ByteSize) % ByteSize)>>

Overflows(length) == length + BlockSize - 1 > MaxUsize
BlockCount(length) == (length + BlockSize - 1) \div BlockSize

Use(s, e, purpose, index) == [salt |-> s, execution |-> e, purpose |-> purpose, index |-> index]
Made(use, key) == keys \cup {[use |-> use, key |-> key]}

Untouched == <<>>
Blank == [i \in 0 .. request - 1 |-> Untouched]

GeneratorSalt == IF caller = "root" THEN ZeroSalt ELSE salt
BlockKey(index) == TweakSalt(GeneratorSalt, 3, execution, index)

-----------------------------------------------------------------------------
(* commit: the root seeds come first, from salt zero and execution 0.      *)
Init ==
  /\ pc = "prepare" /\ execution = 0 /\ caller = "root" /\ depth = 1
  /\ salt \in Salt
  /\ prepared = RootSeedsSize /\ request = RootSeedsSize
  /\ blocks = <<>> /\ chunk = 0 /\ output = Blank /\ keys = {}

(* Fault: the last block index is refused as well. *)
RefuseLength_AtLimit ==
  /\ pc = "prepare" /\ Len(blocks) = 0
  /\ Overflows(prepared) \/ BlockCount(prepared) >= BlockLimit
  /\ pc' = "none"
  /\ UNCHANGED <<execution, salt, caller, depth, prepared, request, blocks, chunk, output, keys>>

(* Generator::new *)
RefuseLength ==
  /\ pc = "prepare"
  /\ Overflows(prepared) \/ BlockCount(prepared) > BlockLimit
  /\ pc' = "none"
  /\ UNCHANGED <<execution, salt, caller, depth, prepared, request, blocks, chunk, output, keys>>

PrepareBlock ==
  /\ pc = "prepare" /\ ~Overflows(prepared) /\ BlockCount(prepared) <= BlockLimit
  /\ Len(blocks) < BlockCount(prepared)
  /\ LET index == Len(blocks)
     IN /\ blocks' = Append(blocks, BlockKey(index))
        /\ keys' = Made(Use(GeneratorSalt, execution, "stream", index), BlockKey(index))
  /\ UNCHANGED <<pc, execution, salt, caller, depth, prepared, request, chunk, output>>

Prepared ==
  /\ pc = "prepare" /\ ~Overflows(prepared) /\ BlockCount(prepared) <= BlockLimit
  /\ Len(blocks) = BlockCount(prepared)
  /\ pc' = "fill" /\ chunk' = 0 /\ output' = Blank
  /\ UNCHANGED <<execution, salt, caller, depth, prepared, request, blocks, keys>>

(* Generator::fill *)
RefuseFill ==
  /\ pc = "fill" /\ chunk = 0
  /\ Overflows(request) \/ BlockCount(request) > Len(blocks)
  /\ pc' = "none"
  /\ UNCHANGED <<execution, salt, caller, depth, prepared, request, blocks, chunk, output, keys>>

FillBlock ==
  /\ pc = "fill" /\ ~Overflows(request) /\ BlockCount(request) <= Len(blocks)
  /\ chunk < Len(blocks) /\ chunk * BlockSize < request
  /\ output' = [i \in 0 .. request - 1 |->
       IF i \div BlockSize = chunk THEN <<blocks[chunk + 1], i % BlockSize>> ELSE output[i]]
  /\ chunk' = chunk + 1
  /\ UNCHANGED <<pc, execution, salt, caller, depth, prepared, request, blocks, keys>>

Filled ==
  /\ pc = "fill" /\ ~Overflows(request) /\ BlockCount(request) <= Len(blocks)
  /\ chunk >= Len(blocks) \/ chunk * BlockSize >= request
  /\ pc' = "filled"
  /\ UNCHANGED <<execution, salt, caller, depth, prepared, request, blocks, chunk, output, keys>>

(* The loop of commit and of evaluate_opening over the executions. *)
NextExecution ==
  /\ pc = "filled"
  /\ LET next == IF caller = "root" THEN 0 ELSE execution + 1
     IN IF next < Tau THEN pc' = "tree" /\ execution' = next
                      ELSE pc' = "done" /\ UNCHANGED execution
  /\ depth' = 1
  /\ UNCHANGED <<salt, caller, prepared, request, blocks, chunk, output, keys>>

(* fully_expand_tree, partially_expand_tree, opening_path: one level's key. *)
TreeKey ==
  /\ pc = "tree" /\ depth < NbEvalsLog
  /\ keys' = Made(Use(salt, execution, "tree", depth - 1),
                  TweakSalt(salt, 2, execution, depth - 1))
  /\ depth' = depth + 1
  /\ UNCHANGED <<pc, execution, salt, caller, prepared, request, blocks, chunk, output>>

TreeDone ==
  /\ pc = "tree" /\ depth >= NbEvalsLog
  /\ pc' = "commit"
  /\ UNCHANGED <<execution, salt, caller, depth, prepared, request, blocks, chunk, output, keys>>

(* SeedCommitter::new, and the call of Generator::new that follows. *)
CommitterKeys ==
  /\ pc = "commit"
  /\ LET first == TweakSalt(salt, 0, execution, 0)
         second == [first EXCEPT ![1] = Xor(first[1], 1)]
     IN keys' = keys \cup {[use |-> Use(salt, execution, "first", 0), key |-> first],
                           [use |-> Use(salt, execution, "second", 0), key |-> second]}
  /\ caller' = "leaf" /\ blocks' = <<>> /\ chunk' = 0
  /\ prepared' \in Length /\ request' \in Length
  /\ output' = Blank'
  /\ pc' = "prepare"
  /\ UNCHANGED <<execution, salt, depth>>

Next ==
  \/ RefuseLength \/ PrepareBlock \/ Prepared
  \/ RefuseFill \/ FillBlock \/ Filled
  \/ NextExecution \/ TreeKey \/ TreeDone \/ CommitterKeys

Spec == Init /\ [][Next]_vars

-----------------------------------------------------------------------------
Key == Byte \X Byte \X Byte
Uses == [salt : Salt \cup {ZeroSalt}, execution : 0 .. Tau - 1,
         purpose : {"stream", "tree", "first", "second"}, index : 0 .. BlockLimit - 1]

(* The types of all variables. *)
TypeOK ==
  /\ pc \in {"prepare", "fill", "filled", "tree", "commit", "none", "done"}
  /\ execution \in 0 .. Tau - 1 /\ salt \in Salt /\ caller \in {"root", "leaf"}
  /\ depth \in Nat \ {0} /\ prepared \in Nat /\ request \in Nat
  /\ blocks \in Seq(Key) /\ chunk \in Nat
  /\ output \in [0 .. request - 1 -> {Untouched} \cup (Key \X Nat)]
  /\ keys \subseteq [use : Uses, key : Key]

(* Under one salt no key serves two purposes, executions, levels or        *)
(* blocks, although all of them are folded into three bytes, one of them   *)
(* by arithmetic that wraps (prg.rs:40) and one key made from another      *)
(* (blc.rs:85).                                                            *)
KeysSeparate ==
  \A k, l \in keys : k.key = l.key /\ k.use.salt = l.use.salt => k.use = l.use

(* The two halves of the next property: a fill that succeeds has written   *)
(* every byte, each from the block of its own index; a refused one none.   *)
FillIsStream ==
  /\ pc = "filled" => \A i \in 0 .. request - 1 :
       output[i] = <<BlockKey(i \div BlockSize), i % BlockSize>>
  /\ pc = "none" => output = Blank

(* Nothing is refused but what needs a block index beyond 16 bits, a       *)
(* length beyond a usize, or more blocks than the generator was made for.  *)
RefusesOnlyTooLong ==
  pc = "none" =>
    \/ prepared > BlockLimit * BlockSize \/ Overflows(prepared) \/ Overflows(request)
    \/ request > prepared

(* A fill writes its whole stream or, where a block index would leave its  *)
(* 16 bits, a length a usize or a block was not prepared, nothing: none is *)
(* left half done, none refused that could be served (prg.rs:74-78, 88-106).*)
FillOrRefuse == FillIsStream /\ RefusesOnlyTooLong

-----------------------------------------------------------------------------
(* What is added to a block after encryption: (left, right) becomes        *)
(* (left xor right, left).                                                 *)
LinearOrthomorphism(s) == <<Xor(s[1], s[2]), s[1]>>

(* The half-tree needs of it that it and its sum with the identity are     *)
(* both one-to-one (prg.rs:18-31).                                         *)
IsOrthomorphism ==
  \A s, t \in Byte \X Byte : s # t =>
    LET plus(u) == <<Xor(LinearOrthomorphism(u)[1], u[1]), Xor(LinearOrthomorphism(u)[2], u[2])>>
    IN LinearOrthomorphism(s) # LinearOrthomorphism(t) /\ plus(s) # plus(t)
=============================================================================
