-------------------------- MODULE PrimitiveProofs ----------------------------
(***************************************************************************)
(* What the scheme is built from, for every size and every element: the    *)
(* generators of prg.rs and the three fields of field.rs.                  *)
(*                                                                         *)
(* Keys.  What keeps them apart is arithmetic: selector plus four times    *)
(* the execution does not wrap while four times the executions fit a byte, *)
(* selectors are less than four, the committer's second key is the one of  *)
(* selector 1, which nothing else uses, and an index below the block limit *)
(* is determined by its two bytes.                                         *)
(*                                                                         *)
(* Fields.  A round of the loop is additive in both factors, so a product  *)
(* is settled by the products of the powers of x (Agree), and those are    *)
(* doublings: the laws of a ring follow, and so does that doubling is      *)
(* multiplying by x modulo the modulus (Value).  The embedding takes x to  *)
(* an element that solves the small field's equation.  Squaring keeps sums *)
(* and products and returns x after as many turns as the field has bits    *)
(* (16 for the tower), hence every element (Fixed); and only zero and one  *)
(* are their own squares.  So x times what a chain computes is one.        *)
(***************************************************************************)
EXTENDS Prg, Fields, FiniteSetTheorems, TLAPS

(* Sets and the functions on them, for its induction over the naturals.    *)
Sets == INSTANCE Folding WITH Summand <- Element("gf256"), Neutral <- {}, Op <- Add


-----------------------------------------------------------------------------
(* Arithmetic of the tweak *)

LEMMA DivMod ==
  ASSUME NEW m \in Nat, NEW n \in Nat \ {0}
  PROVE  /\ m \div n \in Nat /\ m % n \in 0 .. n - 1
         /\ m = n * (m \div n) + (m % n)
  <1>1. m \div n \in Int /\ m % n \in 0 .. n - 1
    OBVIOUS
  <1>2. \A q, r \in Int : q = m \div n /\ r = m % n => m = n * q + r
    OBVIOUS
  <1>3. m = n * (m \div n) + (m % n)
    BY <1>1, <1>2
  <1>4. m \div n >= 0
    BY <1>1, <1>3
  <1> QED BY <1>1, <1>3, <1>4

LEMMA SmallMod ==
  ASSUME NEW m \in Nat, NEW n \in Nat, m < n
  PROVE  m % n = m
  OBVIOUS

LEMMA ProductBelow ==
  ASSUME NEW m \in Nat, NEW n \in Nat \ {0}, m < n * n
  PROVE  m \div n < n
  <1>1. /\ m \div n \in Nat /\ m % n \in 0 .. n - 1 /\ m = n * (m \div n) + (m % n)
    BY DivMod
  <1>2. SUFFICES ASSUME m \div n >= n PROVE FALSE
    BY <1>1
  <1>3. n * (m \div n) >= n * n
    BY <1>1, <1>2
  <1> QED BY <1>1, <1>3

(* The first byte's tweak is a byte and tells selector and execution.      *)
LEMMA FirstByte ==
  ASSUME NEW e \in 0 .. Tau - 1, NEW f \in 0 .. Tau - 1,
         NEW u \in 0 .. 3, NEW v \in 0 .. 3
  PROVE  /\ (u + ((4 * e) % ByteSize)) % ByteSize = u + 4 * e
         /\ u + 4 * e \in Byte
         /\ u + 4 * e = v + 4 * f => u = v /\ e = f
  <1>1. e \in Nat /\ e + 1 <= Tau /\ Tau \in Nat /\ ByteSize \in Nat /\ 4 * Tau <= ByteSize
    BY SizeAssumption
  <1>2. 4 * e \in Nat /\ 4 * e < ByteSize /\ u + 4 * e \in Nat /\ u + 4 * e < ByteSize
    BY <1>1
  <1>3. (4 * e) % ByteSize = 4 * e /\ (u + 4 * e) % ByteSize = u + 4 * e
    BY <1>1, <1>2, SmallMod
  <1>4. u + 4 * e = v + 4 * f => u = v /\ e = f
    BY <1>1
  <1> QED BY <1>1, <1>2, <1>3, <1>4 DEF Byte

(* The two bytes of an index tell it. *)
LEMMA IndexBytes ==
  ASSUME NEW i \in Nat, i < BlockLimit
  PROVE  /\ i % ByteSize \in Byte /\ (i \div ByteSize) % ByteSize \in Byte
         /\ i = ByteSize * ((i \div ByteSize) % ByteSize) + (i % ByteSize)
  <1>1. ByteSize \in Nat \ {0}
    BY SizeAssumption
  <1>2. /\ i \div ByteSize \in Nat /\ i % ByteSize \in 0 .. ByteSize - 1
        /\ i = ByteSize * (i \div ByteSize) + (i % ByteSize)
    BY <1>1, DivMod
  <1>3. i \div ByteSize < ByteSize
    BY <1>1, ProductBelow DEF BlockLimit
  <1>4. (i \div ByteSize) % ByteSize = i \div ByteSize
    BY <1>1, <1>2, <1>3, SmallMod
  <1> QED BY <1>1, <1>2, <1>3, <1>4 DEF Byte

LEMMA XorInjective ==
  ASSUME NEW s \in Byte, NEW t \in Byte, NEW u \in Byte, Xor(s, t) = Xor(s, u)
  PROVE  t = u
  <1>1. Xor(s, Xor(s, t)) = t /\ Xor(s, Xor(s, u)) = u
    BY XorAssumption
  <1> QED BY <1>1

-----------------------------------------------------------------------------
(* Keys in the normal form of a selector, an execution and an index *)

Selector(purpose) ==
  CASE purpose = "first" -> 0 [] purpose = "second" -> 1
    [] purpose = "tree" -> 2 [] purpose = "stream" -> 3

KeyOf(u) == TweakSalt(u.salt, Selector(u.purpose), u.execution, u.index)

LEMMA KeyOfTyped == ASSUME NEW u \in Uses PROVE KeyOf(u) \in Key
  <1>1. /\ Selector(u.purpose) \in 0 .. 3 /\ u.execution \in 0 .. Tau - 1
        /\ u.index \in Nat /\ u.index < BlockLimit
    BY SizeAssumption DEF Uses, Selector, BlockLimit
  <1>2. u.salt \in Byte \X Byte \X Byte
    BY SaltAssumption DEF Uses
  <1>3. /\ (Selector(u.purpose) + ((4 * u.execution) % ByteSize)) % ByteSize \in Byte
        /\ u.index % ByteSize \in Byte /\ (u.index \div ByteSize) % ByteSize \in Byte
    BY <1>1, FirstByte, IndexBytes
  <1> QED BY <1>2, <1>3, XorAssumption DEF KeyOf, TweakSalt, Key

LEMMA KeyOfInjective ==
  ASSUME NEW u \in Uses, NEW v \in Uses, u.salt = v.salt, KeyOf(u) = KeyOf(v)
  PROVE  u = v
  <1> DEFINE s == u.salt
             p == Selector(u.purpose)
             q == Selector(v.purpose)
             pe == (p + ((4 * u.execution) % ByteSize)) % ByteSize
             qe == (q + ((4 * v.execution) % ByteSize)) % ByteSize
  <1>1. /\ p \in 0 .. 3 /\ u.execution \in 0 .. Tau - 1 /\ u.index \in Nat /\ u.index < BlockLimit
        /\ q \in 0 .. 3 /\ v.execution \in 0 .. Tau - 1 /\ v.index \in Nat /\ v.index < BlockLimit
        /\ s \in Byte \X Byte \X Byte
    BY SizeAssumption, SaltAssumption DEF Uses, Selector, BlockLimit
  <1>2. /\ pe = p + 4 * u.execution /\ qe = q + 4 * v.execution /\ pe \in Byte /\ qe \in Byte
        /\ p + 4 * u.execution = q + 4 * v.execution => p = q /\ u.execution = v.execution
    BY <1>1, FirstByte
  <1>3. /\ Xor(s[1], pe) = Xor(s[1], qe)
        /\ Xor(s[2], u.index % ByteSize) = Xor(s[2], v.index % ByteSize)
        /\ Xor(s[3], (u.index \div ByteSize) % ByteSize)
             = Xor(s[3], (v.index \div ByteSize) % ByteSize)
    BY DEF KeyOf, TweakSalt
  <1>4. s[1] \in Byte /\ s[2] \in Byte /\ s[3] \in Byte
    BY <1>1
  <1>5. p = q /\ u.execution = v.execution
    BY <1>2, <1>3, <1>4, XorInjective
  <1>6. u.index = v.index
    <2>1. /\ u.index % ByteSize \in Byte /\ (u.index \div ByteSize) % ByteSize \in Byte
          /\ u.index = ByteSize * ((u.index \div ByteSize) % ByteSize) + (u.index % ByteSize)
      BY <1>1, IndexBytes
    <2>2. /\ v.index % ByteSize \in Byte /\ (v.index \div ByteSize) % ByteSize \in Byte
          /\ v.index = ByteSize * ((v.index \div ByteSize) % ByteSize) + (v.index % ByteSize)
      BY <1>1, IndexBytes
    <2>3. u.index % ByteSize = v.index % ByteSize
      BY <2>1, <2>2, <1>3, <1>4, XorInjective
    <2>4. (u.index \div ByteSize) % ByteSize = (v.index \div ByteSize) % ByteSize
      BY <2>1, <2>2, <1>3, <1>4, XorInjective
    <2> QED BY <2>1, <2>2, <2>3, <2>4
  <1>7. u.purpose = v.purpose
    BY <1>5 DEF Selector, Uses
  <1> QED BY <1>5, <1>6, <1>7 DEF Uses

(* The committer's second key is the one of selector 1. *)
LEMMA SecondKey ==
  ASSUME NEW s \in Byte \X Byte \X Byte, NEW e \in 0 .. Tau - 1
  PROVE  [TweakSalt(s, 0, e, 0) EXCEPT ![1] = Xor(TweakSalt(s, 0, e, 0)[1], 1)]
           = TweakSalt(s, 1, e, 0)
  <1>1. /\ (0 + ((4 * e) % ByteSize)) % ByteSize = 4 * e /\ 4 * e \in Byte
        /\ (1 + ((4 * e) % ByteSize)) % ByteSize = 1 + 4 * e /\ 1 + 4 * e \in Byte
    BY FirstByte
  <1>2. 1 \in Byte /\ (4 * e) % 2 = 0 /\ 1 + 4 * e = 4 * e + 1
    BY SizeAssumption DEF Byte
  <1>3. Xor(Xor(s[1], 4 * e), 1) = Xor(s[1], 1 + 4 * e)
    BY <1>1, <1>2, XorAssumption
  <1> QED BY <1>1, <1>3 DEF TweakSalt
-----------------------------------------------------------------------------
(* Blocks *)

(* A generator made for enough bytes has enough blocks, and its blocks     *)
(* reach the last byte.                                                    *)
LEMMA BlockCounts ==
  ASSUME NEW n \in Nat
  PROVE  /\ BlockCount(n) \in Nat
         /\ BlockCount(n) * BlockSize >= n
         /\ \A m \in Nat : n <= m * BlockSize => BlockCount(n) <= m
  <1>1. BlockSize \in Nat \ {0} /\ n + BlockSize - 1 \in Nat
    BY SizeAssumption
  <1> DEFINE w == n + BlockSize - 1
             q == w \div BlockSize
  <1>2. /\ q \in Nat /\ w % BlockSize \in 0 .. BlockSize - 1
        /\ w = BlockSize * q + (w % BlockSize)
    BY <1>1, DivMod
  <1>3. q * BlockSize = BlockSize * q /\ q * BlockSize >= n
    BY <1>1, <1>2
  <1>4. ASSUME NEW m \in Nat, n <= m * BlockSize PROVE q <= m
    <2>1. SUFFICES ASSUME q >= m + 1 PROVE FALSE
      BY <1>2
    <2>2. BlockSize * q >= BlockSize * (m + 1)
      BY <1>1, <1>2, <2>1
    <2>3. BlockSize * (m + 1) = m * BlockSize + BlockSize
      BY <1>1
    <2> QED BY <1>1, <1>2, <1>4, <2>2, <2>3
  <1> QED BY <1>2, <1>3, <1>4 DEF BlockCount

LEMMA MoreBlocks ==
  ASSUME NEW n \in Nat, NEW m \in Nat, n <= m
  PROVE  BlockCount(n) <= BlockCount(m)
  <1>1. BlockCount(m) \in Nat /\ BlockCount(m) * BlockSize >= m
    BY BlockCounts
  <1>2. n <= BlockCount(m) * BlockSize
    BY <1>1, SizeAssumption
  <1> QED BY <1>1, <1>2, BlockCounts

(* The place of a byte among the blocks.                                   *)
LEMMA Place ==
  ASSUME NEW i \in Nat
  PROVE  /\ i \div BlockSize \in Nat /\ i % BlockSize \in Nat
         /\ \A c \in Nat : i < c * BlockSize => i \div BlockSize < c
         /\ \A c \in Nat : c <= i \div BlockSize => c * BlockSize <= i
  <1>1. BlockSize \in Nat \ {0}
    BY SizeAssumption
  <1> DEFINE q == i \div BlockSize
  <1>2. /\ q \in Nat /\ i % BlockSize \in 0 .. BlockSize - 1
        /\ i = BlockSize * q + (i % BlockSize)
    BY <1>1, DivMod
  <1>3. ASSUME NEW c \in Nat, c <= q PROVE c * BlockSize <= i
    <2>1. BlockSize * c <= BlockSize * q /\ BlockSize * c = c * BlockSize
      BY <1>1, <1>2, <1>3
    <2> QED BY <1>1, <1>2, <2>1
  <1>4. ASSUME NEW c \in Nat, i < c * BlockSize PROVE q < c
    <2>1. SUFFICES ASSUME c <= q PROVE FALSE
      BY <1>2
    <2>2. c * BlockSize <= i
      BY <2>1, <1>3
    <2> QED BY <1>1, <1>4, <2>2
  <1> QED BY <1>2, <1>3, <1>4

-----------------------------------------------------------------------------
(* The inductive invariant *)

KeysMade == \A k \in keys : k.key = KeyOf(k.use)

BlocksMade ==
  /\ pc \in {"prepare", "fill", "filled"} =>
       \A i \in 1 .. Len(blocks) : blocks[i] = BlockKey(i - 1)
  /\ pc = "fill" => Len(blocks) = BlockCount(prepared)

FilledSoFar ==
  /\ pc \in {"prepare", "none"} => output = Blank
  /\ pc = "fill" => \A i \in 0 .. request - 1 :
       output[i] = IF i \div BlockSize < chunk
                     THEN <<blocks[(i \div BlockSize) + 1], i % BlockSize>> ELSE Untouched
  /\ pc = "fill" => chunk <= Len(blocks)

Inv == TypeOK /\ KeysMade /\ BlocksMade /\ FilledSoFar /\ FillIsStream /\ RefusesOnlyTooLong

LEMMA SaltTyped == Inv => GeneratorSalt \in Salt \cup {ZeroSalt}
  BY DEF Inv, TypeOK, GeneratorSalt

LEMMA BlankTyped ==
  ASSUME request \in Nat
  PROVE  Blank \in [0 .. request - 1 -> {Untouched} \cup (Key \X Nat)]
  BY DEF Blank

LEMMA Initially == Init => Inv
  <1> SUFFICES ASSUME Init PROVE Inv
    OBVIOUS
  <1>1. RootSeedsSize \in Nat /\ 0 \in 0 .. Tau - 1
    BY SizeAssumption DEF RootSeedsSize
  <1>2. Blank \in [0 .. request - 1 -> {Untouched} \cup (Key \X Nat)]
    BY <1>1, BlankTyped DEF Init
  <1>3. TypeOK
    BY <1>1, <1>2 DEF Init, TypeOK
  <1>4. KeysMade /\ BlocksMade /\ FilledSoFar
    BY DEF Init, KeysMade, BlocksMade, FilledSoFar
  <1>5. FillIsStream /\ RefusesOnlyTooLong
    BY DEF Init, FillIsStream, RefusesOnlyTooLong
  <1> QED BY <1>3, <1>4, <1>5 DEF Inv

(* What the calls of tweak_salt record.                                    *)
LEMMA BlockUse ==
  ASSUME Inv, PrepareBlock
  PROVE  LET use == Use(GeneratorSalt, execution, "stream", Len(blocks))
         IN use \in Uses /\ BlockKey(Len(blocks)) = KeyOf(use)
  <1> DEFINE use == Use(GeneratorSalt, execution, "stream", Len(blocks))
  <1>1. Len(blocks) \in Nat /\ prepared \in Nat /\ execution \in 0 .. Tau - 1
    BY DEF Inv, TypeOK
  <1>2. BlockCount(prepared) \in Nat
    BY <1>1, BlockCounts
  <1>7. BlockLimit \in Nat
    BY SizeAssumption DEF BlockLimit
  <1>3. Len(blocks) \in 0 .. BlockLimit - 1
    BY <1>1, <1>2, <1>7 DEF PrepareBlock
  <1>4. use \in Uses
    BY <1>1, <1>3, SaltTyped DEF Uses, Use
  <1>5. Selector("stream") = 3
    BY DEF Selector
  <1>6. BlockKey(Len(blocks)) = KeyOf(use)
    BY <1>5 DEF BlockKey, KeyOf, Use
  <1> QED BY <1>4, <1>6

LEMMA TreeUse ==
  ASSUME Inv, TreeKey
  PROVE  LET use == Use(salt, execution, "tree", depth - 1)
         IN use \in Uses /\ TweakSalt(salt, 2, execution, depth - 1) = KeyOf(use)
  <1> DEFINE use == Use(salt, execution, "tree", depth - 1)
  <1>1. depth \in Nat \ {0} /\ execution \in 0 .. Tau - 1 /\ salt \in Salt
    BY DEF Inv, TypeOK
  <1>2. ByteSize \in Nat \ {0} /\ ByteSize * ByteSize >= ByteSize /\ depth - 1 < ByteSize
    BY <1>1, SizeAssumption DEF TreeKey
  <1>3. depth - 1 \in 0 .. BlockLimit - 1
    BY <1>1, <1>2 DEF BlockLimit
  <1>4. use \in Uses
    BY <1>1, <1>3 DEF Uses, Use
  <1>5. Selector("tree") = 2
    BY DEF Selector
  <1> QED BY <1>4, <1>5 DEF KeyOf, Use

LEMMA CommitterUses ==
  ASSUME Inv
  PROVE  LET key == TweakSalt(salt, 0, execution, 0)
             use(purpose) == Use(salt, execution, purpose, 0)
         IN /\ use("first") \in Uses /\ key = KeyOf(use("first"))
            /\ use("second") \in Uses
            /\ [key EXCEPT ![1] = Xor(key[1], 1)] = KeyOf(use("second"))
  <1>1. execution \in 0 .. Tau - 1 /\ salt \in Salt /\ salt \in Byte \X Byte \X Byte
    BY SaltAssumption DEF Inv, TypeOK
  <1>2. 0 \in 0 .. BlockLimit - 1
    BY SizeAssumption DEF BlockLimit
  <1>3. Selector("first") = 0 /\ Selector("second") = 1
    BY DEF Selector
  <1>4. [TweakSalt(salt, 0, execution, 0) EXCEPT ![1] = Xor(TweakSalt(salt, 0, execution, 0)[1], 1)]
          = TweakSalt(salt, 1, execution, 0)
    BY <1>1, SecondKey
  <1> QED BY <1>1, <1>2, <1>3, <1>4 DEF KeyOf, Use, Uses

-----------------------------------------------------------------------------
(* The keys *)

LEMMA KeysStep == Inv /\ [Next]_vars => KeysMade' /\ (keys \subseteq [use : Uses, key : Key])'
  <1> SUFFICES ASSUME Inv, [Next]_vars
      PROVE KeysMade' /\ (keys \subseteq [use : Uses, key : Key])'
    OBVIOUS
  <1>1. KeysMade /\ keys \subseteq [use : Uses, key : Key]
    BY DEF Inv, TypeOK
  <1>2. CASE PrepareBlock
    <2> DEFINE use == Use(GeneratorSalt, execution, "stream", Len(blocks))
    <2>1. keys' = keys \cup {[use |-> use, key |-> BlockKey(Len(blocks))]}
      BY <1>2 DEF PrepareBlock, Made
    <2>2. use \in Uses /\ BlockKey(Len(blocks)) = KeyOf(use)
      BY <1>2, BlockUse
    <2>3. KeyOf(use) \in Key
      BY <2>2, KeyOfTyped
    <2> HIDE DEF use
    <2> QED BY <1>1, <2>1, <2>2, <2>3 DEF KeysMade
  <1>3. CASE TreeKey
    <2> DEFINE use == Use(salt, execution, "tree", depth - 1)
               key == TweakSalt(salt, 2, execution, depth - 1)
    <2>1. keys' = keys \cup {[use |-> use, key |-> key]}
      BY <1>3 DEF TreeKey, Made
    <2>2. use \in Uses /\ key = KeyOf(use)
      BY <1>3, TreeUse
    <2>3. KeyOf(use) \in Key
      BY <2>2, KeyOfTyped
    <2> HIDE DEF use, key
    <2> QED BY <1>1, <2>1, <2>2, <2>3 DEF KeysMade
  <1>4. CASE CommitterKeys
    <2> DEFINE first == TweakSalt(salt, 0, execution, 0)
               second == [first EXCEPT ![1] = Xor(first[1], 1)]
               one == Use(salt, execution, "first", 0)
               two == Use(salt, execution, "second", 0)
    <2>1. keys' = keys \cup {[use |-> one, key |-> first], [use |-> two, key |-> second]}
      BY <1>4 DEF CommitterKeys
    <2>2. one \in Uses /\ first = KeyOf(one) /\ two \in Uses /\ second = KeyOf(two)
      BY CommitterUses
    <2>3. KeyOf(one) \in Key /\ KeyOf(two) \in Key
      BY <2>2, KeyOfTyped
    <2> HIDE DEF one, two, first, second
    <2> QED BY <1>1, <2>1, <2>2, <2>3 DEF KeysMade
  <1>5. CASE UNCHANGED keys
    BY <1>1, <1>5 DEF KeysMade
  <1> QED BY <1>2, <1>3, <1>4, <1>5 DEF Next, vars, RefuseLength, Prepared, RefuseFill,
             FillBlock, Filled, NextExecution, TreeDone

LEMMA KeysInjective == Inv => KeysSeparate
  <1> SUFFICES ASSUME Inv, NEW k \in keys, NEW l \in keys,
                      k.key = l.key, k.use.salt = l.use.salt
      PROVE k.use = l.use
    BY DEF KeysSeparate
  <1>1. k.use \in Uses /\ l.use \in Uses
    BY DEF Inv, TypeOK
  <1>2. KeyOf(k.use) = KeyOf(l.use)
    BY DEF Inv, KeysMade
  <1> QED BY <1>1, <1>2, KeyOfInjective

-----------------------------------------------------------------------------
(* The streams *)

LEMMA BlocksStep == Inv /\ [Next]_vars => BlocksMade'
  <1> SUFFICES ASSUME Inv, [Next]_vars PROVE BlocksMade'
    OBVIOUS
  <1>1. blocks \in Seq(Key) /\ BlocksMade /\ prepared \in Nat
    BY DEF Inv, TypeOK
  <1>2. CASE PrepareBlock
    <2>1. /\ blocks' = Append(blocks, BlockKey(Len(blocks))) /\ pc' = "prepare" /\ pc = "prepare"
          /\ UNCHANGED <<execution, salt, caller>>
      BY <1>2 DEF PrepareBlock
    <2>2. /\ Len(blocks') = Len(blocks) + 1 /\ Len(blocks) \in Nat
          /\ \A i \in 1 .. Len(blocks) : blocks'[i] = blocks[i]
          /\ blocks'[Len(blocks) + 1] = BlockKey(Len(blocks))
      BY <1>1, <2>1
    <2>3. \A i : BlockKey(i)' = BlockKey(i)
      BY <2>1 DEF BlockKey, GeneratorSalt
    <2>4. ASSUME NEW i \in 1 .. Len(blocks') PROVE blocks'[i] = BlockKey(i - 1)
      <3>1. CASE i \in 1 .. Len(blocks)
        BY <3>1, <1>1, <2>1, <2>2 DEF BlocksMade
      <3>2. CASE i = Len(blocks) + 1
        BY <3>2, <2>2
      <3> QED BY <3>1, <3>2, <2>2
    <2> QED BY <2>1, <2>3, <2>4 DEF BlocksMade
  <1>3. CASE CommitterKeys
    BY <1>3 DEF CommitterKeys, BlocksMade
  <1>4. CASE NextExecution \/ TreeKey \/ TreeDone
    BY <1>4 DEF NextExecution, TreeKey, TreeDone, BlocksMade
  <1>5. CASE RefuseLength \/ Prepared \/ RefuseFill \/ FillBlock \/ Filled \/ UNCHANGED vars
    <2>1. /\ UNCHANGED <<blocks, execution, salt, caller, prepared>>
          /\ pc' \in {"prepare", "fill", "filled"} => pc \in {"prepare", "fill", "filled"}
          /\ pc' = "fill" => pc = "fill" \/ Len(blocks) = BlockCount(prepared)
      BY <1>5 DEF vars, RefuseLength, Prepared, RefuseFill, FillBlock, Filled
    <2>2. (\A i : BlockKey(i)' = BlockKey(i)) /\ BlockCount(prepared)' = BlockCount(prepared)
      BY <2>1 DEF BlockKey, GeneratorSalt, BlockCount
    <2> QED BY <1>1, <2>1, <2>2 DEF BlocksMade
  <1> QED BY <1>2, <1>3, <1>4, <1>5 DEF Next

LEMMA FilledStep == Inv /\ [Next]_vars => FilledSoFar'
  <1> SUFFICES ASSUME Inv, [Next]_vars PROVE FilledSoFar'
    OBVIOUS
  <1>1. /\ blocks \in Seq(Key) /\ FilledSoFar /\ request \in Nat /\ chunk \in Nat
        /\ BlocksMade /\ Len(blocks) \in Nat
    BY DEF Inv, TypeOK
  <1>2. CASE FillBlock
    <2>1. /\ pc = "fill" /\ UNCHANGED <<pc, blocks, request>> /\ chunk' = chunk + 1
          /\ chunk < Len(blocks)
          /\ output' = [i \in 0 .. request - 1 |->
               IF i \div BlockSize = chunk THEN <<blocks[chunk + 1], i % BlockSize>> ELSE output[i]]
      BY <1>2 DEF FillBlock
    <2>2. ASSUME NEW i \in 0 .. request - 1
          PROVE output'[i] = IF i \div BlockSize < chunk + 1
                  THEN <<blocks[(i \div BlockSize) + 1], i % BlockSize>> ELSE Untouched
      <3>1. i \div BlockSize \in Nat
        BY Place
      <3>2. output[i] = IF i \div BlockSize < chunk
                  THEN <<blocks[(i \div BlockSize) + 1], i % BlockSize>> ELSE Untouched
        BY <1>1, <2>1 DEF FilledSoFar
      <3>3. output'[i] = IF i \div BlockSize = chunk
                  THEN <<blocks[chunk + 1], i % BlockSize>> ELSE output[i]
        BY <2>1
      <3> DEFINE q == i \div BlockSize
                 r == i % BlockSize
      <3> HIDE DEF q, r
      <3>4. CASE q < chunk
        BY <3>1, <3>2, <3>3, <3>4, <1>1 DEF q, r
      <3>5. CASE q = chunk
        BY <3>1, <3>3, <3>5, <1>1 DEF q, r
      <3>6. CASE q > chunk
        BY <3>1, <3>2, <3>3, <3>6, <1>1 DEF q, r
      <3> QED BY <3>1, <3>4, <3>5, <3>6, <1>1 DEF q
    <2> QED BY <1>1, <2>1, <2>2 DEF FilledSoFar
  <1>3. CASE Prepared
    <2>1. pc' = "fill" /\ chunk' = 0 /\ output' = Blank /\ UNCHANGED <<blocks, request>>
      BY <1>3 DEF Prepared
    <2>2. \A i \in 0 .. request - 1 : output'[i] = Untouched /\ ~(i \div BlockSize < 0)
      BY <2>1, Place DEF Blank
    <2> QED BY <1>1, <2>1, <2>2 DEF FilledSoFar
  <1>4. CASE RefuseFill
    <2>1. pc = "fill" /\ pc' = "none" /\ chunk = 0 /\ UNCHANGED <<output, request>>
      BY <1>4 DEF RefuseFill
    <2>2. \A i \in 0 .. request - 1 : ~(i \div BlockSize < 0)
      BY Place
    <2>3. \A i \in 0 .. request - 1 : output[i] = Untouched
      BY <1>1, <2>1, <2>2 DEF FilledSoFar
    <2>4. output = Blank
      BY <2>3 DEF Blank, Inv, TypeOK
    <2> QED BY <2>1, <2>4 DEF FilledSoFar, Blank
  <1>5. CASE CommitterKeys
    BY <1>5 DEF CommitterKeys, FilledSoFar
  <1>6. CASE RefuseLength \/ PrepareBlock
    BY <1>1, <1>6 DEF RefuseLength, PrepareBlock, FilledSoFar, Blank
  <1>7. CASE NextExecution \/ TreeKey \/ TreeDone \/ Filled
    BY <1>7 DEF NextExecution, TreeKey, TreeDone, Filled, FilledSoFar
  <1>8. CASE UNCHANGED vars
    BY <1>1, <1>8 DEF vars, FilledSoFar, Blank
  <1> QED BY <1>2, <1>3, <1>4, <1>5, <1>6, <1>7, <1>8 DEF Next

LEMMA StreamStep == Inv /\ [Next]_vars => FillIsStream'
  <1> SUFFICES ASSUME Inv, [Next]_vars PROVE FillIsStream'
    OBVIOUS
  <1>1. /\ blocks \in Seq(Key) /\ request \in Nat /\ chunk \in Nat /\ Len(blocks) \in Nat
        /\ FilledSoFar /\ BlocksMade /\ FillIsStream
    BY DEF Inv, TypeOK
  <1>2. pc' = "none" => output' = Blank'
    BY FilledStep DEF FilledSoFar
  <1>3. CASE Filled
    <2>1. /\ pc = "fill" /\ UNCHANGED <<output, request, execution, salt, caller>>
          /\ BlockCount(request) <= Len(blocks)
          /\ chunk >= Len(blocks) \/ chunk * BlockSize >= request
      BY <1>3 DEF Filled
    <2>2. request <= chunk * BlockSize
      <3>1. BlockCount(request) \in Nat /\ BlockCount(request) * BlockSize >= request
        BY <1>1, BlockCounts
      <3>2. CASE chunk >= Len(blocks)
        <4>1. chunk * BlockSize >= BlockCount(request) * BlockSize
          BY <1>1, <2>1, <3>1, <3>2, SizeAssumption
        <4> QED BY <1>1, <3>1, <4>1, SizeAssumption
      <3> QED BY <2>1, <3>2
    <2>3. ASSUME NEW i \in 0 .. request - 1
          PROVE output[i] = <<BlockKey(i \div BlockSize), i % BlockSize>>
      <3>1. i < chunk * BlockSize
        BY <1>1, <2>2, SizeAssumption
      <3>2. i \div BlockSize \in Nat /\ i \div BlockSize < chunk
        BY <1>1, <3>1, Place
      <3>3. output[i] = <<blocks[(i \div BlockSize) + 1], i % BlockSize>>
        BY <1>1, <2>1, <3>2 DEF FilledSoFar
      <3> DEFINE q == i \div BlockSize
      <3>4. q \in Nat /\ q < Len(blocks)
        BY <1>1, <2>1, <3>2 DEF FilledSoFar
      <3> HIDE DEF q
      <3>5. blocks[q + 1] = BlockKey((q + 1) - 1) /\ (q + 1) - 1 = q
        BY <1>1, <2>1, <3>4 DEF BlocksMade
      <3> QED BY <3>3, <3>5 DEF q
    <2>4. \A i : BlockKey(i)' = BlockKey(i)
      BY <2>1 DEF BlockKey, GeneratorSalt
    <2> QED BY <1>2, <2>1, <2>3, <2>4 DEF FillIsStream
  <1>4. CASE UNCHANGED vars
    <2>1. UNCHANGED <<pc, output, request>> /\ (\A i : BlockKey(i)' = BlockKey(i))
      BY <1>4 DEF vars, BlockKey, GeneratorSalt
    <2> QED BY <1>1, <1>2, <2>1 DEF FillIsStream
  <1>5. CASE pc' # "filled"
    BY <1>2, <1>5 DEF FillIsStream
  <1> QED BY <1>3, <1>4, <1>5 DEF Next, RefuseLength, PrepareBlock, Prepared, RefuseFill,
             FillBlock, NextExecution, TreeKey, TreeDone, CommitterKeys, Inv, TypeOK

LEMMA RefusalStep == Inv /\ [Next]_vars => RefusesOnlyTooLong'
  <1> SUFFICES ASSUME Inv, [Next]_vars, pc' = "none" PROVE RefusesOnlyTooLong'
    BY DEF RefusesOnlyTooLong
  <1>1. prepared \in Nat /\ request \in Nat /\ BlocksMade
    BY DEF Inv, TypeOK
  <1>2. UNCHANGED <<prepared, request>> => Overflows(prepared)' = Overflows(prepared)
                                          /\ Overflows(request)' = Overflows(request)
    BY DEF Overflows
  <1>3. CASE RefuseLength
    <2>1. /\ UNCHANGED <<prepared, request>>
          /\ Overflows(prepared) \/ BlockCount(prepared) > BlockLimit
      BY <1>3 DEF RefuseLength
    <2>2. ASSUME ~(prepared > BlockLimit * BlockSize) PROVE BlockCount(prepared) <= BlockLimit
      <3>1. BlockLimit \in Nat
        BY SizeAssumption DEF BlockLimit
      <3>2. prepared <= BlockLimit * BlockSize
        BY <1>1, <2>2, <3>1, SizeAssumption
      <3> QED BY <1>1, <3>1, <3>2, BlockCounts
    <2>3. BlockCount(prepared) \in Nat /\ BlockLimit \in Nat
      <3>1. BlockLimit \in Nat
        BY SizeAssumption DEF BlockLimit
      <3> QED BY <1>1, <3>1, BlockCounts
    <2> QED BY <1>2, <2>1, <2>2, <2>3 DEF RefusesOnlyTooLong
  <1>4. CASE RefuseFill
    <2>1. /\ UNCHANGED <<prepared, request>>
          /\ Overflows(request) \/ BlockCount(request) > BlockCount(prepared)
      BY <1>1, <1>4 DEF RefuseFill, BlocksMade
    <2>2. BlockCount(request) \in Nat /\ BlockCount(prepared) \in Nat
      BY <1>1, BlockCounts
    <2>3. BlockCount(request) > BlockCount(prepared) => request > prepared
      BY <1>1, <2>2, MoreBlocks
    <2> QED BY <1>2, <2>1, <2>3 DEF RefusesOnlyTooLong
  <1>5. CASE UNCHANGED vars
    BY <1>2, <1>5 DEF vars, Inv, RefusesOnlyTooLong
  <1> QED BY <1>3, <1>4, <1>5 DEF Next, PrepareBlock, Prepared, FillBlock, Filled,
             NextExecution, TreeKey, TreeDone, CommitterKeys

LEMMA TypeStep == Inv /\ [Next]_vars => TypeOK'
  <1> SUFFICES ASSUME Inv, [Next]_vars PROVE TypeOK'
    OBVIOUS
  <1>1. TypeOK
    BY DEF Inv
  <1>2. (keys \subseteq [use : Uses, key : Key])'
    BY KeysStep
  <1>3. request \in Nat => Blank \in [0 .. request - 1 -> {Untouched} \cup (Key \X Nat)]
    BY BlankTyped
  <1>4. CASE PrepareBlock
    <2>1. Use(GeneratorSalt, execution, "stream", Len(blocks)) \in Uses
          /\ BlockKey(Len(blocks)) = KeyOf(Use(GeneratorSalt, execution, "stream", Len(blocks)))
      BY <1>4, BlockUse
    <2>2. BlockKey(Len(blocks)) \in Key
      BY <2>1, KeyOfTyped
    <2> QED BY <1>1, <1>2, <1>4, <2>2 DEF PrepareBlock, TypeOK
  <1>5. CASE FillBlock
    <2>1. blocks[chunk + 1] \in Key
      BY <1>1, <1>5 DEF FillBlock, TypeOK
    <2>2. \A i \in 0 .. request - 1 : i % BlockSize \in Nat
      BY Place
    <2>3. output' \in [0 .. request - 1 -> {Untouched} \cup (Key \X Nat)]
      BY <1>1, <1>5, <2>1, <2>2 DEF FillBlock, TypeOK
    <2> QED BY <1>1, <1>2, <1>5, <2>3 DEF FillBlock, TypeOK
  <1>6. CASE Prepared
    BY <1>1, <1>2, <1>3, <1>6 DEF Prepared, TypeOK
  <1>7. CASE CommitterKeys
    <2>1. request' \in Nat /\ prepared' \in Nat
      BY <1>7, SizeAssumption DEF CommitterKeys
    <2>2. output' \in [0 .. request' - 1 -> {Untouched} \cup (Key \X Nat)]
      BY <1>7, <2>1 DEF CommitterKeys, Blank
    <2>3. /\ pc' = "prepare" /\ caller' = "leaf" /\ blocks' = <<>> /\ chunk' = 0
          /\ UNCHANGED <<execution, salt, depth>>
      BY <1>7 DEF CommitterKeys
    <2>4. blocks' \in Seq(Key) /\ chunk' \in Nat
      BY <2>3
    <2>5. (pc \in {"prepare", "fill", "filled", "tree", "commit", "none", "done"})'
      BY <2>3
    <2>6. (/\ execution \in 0 .. Tau - 1 /\ salt \in Salt /\ caller \in {"root", "leaf"}
           /\ depth \in Nat \ {0})'
      BY <1>1, <2>3 DEF TypeOK
    <2> QED BY <1>2, <2>1, <2>2, <2>4, <2>5, <2>6 DEF TypeOK
  <1>8. CASE NextExecution
    BY <1>1, <1>2, <1>8, SizeAssumption DEF NextExecution, TypeOK
  <1>9. CASE TreeKey
    BY <1>1, <1>2, <1>9 DEF TreeKey, TypeOK
  <1>10. CASE RefuseLength \/ RefuseFill \/ Filled \/ TreeDone
    BY <1>1, <1>2, <1>10 DEF RefuseLength, RefuseFill, Filled, TreeDone, TypeOK
  <1>11. CASE UNCHANGED vars
    BY <1>1, <1>2, <1>11 DEF vars, TypeOK
  <1> QED BY <1>4, <1>5, <1>6, <1>7, <1>8, <1>9, <1>10, <1>11 DEF Next

-----------------------------------------------------------------------------
(* What holds of every state *)

LEMMA Invariance == Spec => []Inv
  <1>1. Inv /\ [Next]_vars => Inv'
    BY TypeStep, KeysStep, BlocksStep, FilledStep, StreamStep, RefusalStep DEF Inv
  <1> QED BY Initially, <1>1, PTL DEF Spec

(* The types of all variables: every key is three bytes, every index is    *)
(* below the block limit.                                                  *)
THEOREM TypeCorrect == Spec => []TypeOK
  <1>1. Inv => TypeOK
    BY DEF Inv
  <1> QED BY Invariance, <1>1, PTL

(* tweak_salt and the calls of it keep keys apart: no two purposes,        *)
(* executions, levels or blocks share a key of a salt (prg.rs:33-45).      *)
THEOREM KeysCorrect == Spec => []KeysSeparate
  BY Invariance, KeysInjective, PTL

(* Generator::new and fill write every byte from the block of its own      *)
(* index, or none, and refuse no length they could serve (prg.rs:74-106).  *)
THEOREM FillCorrect == Spec => []FillOrRefuse
  <1>1. Inv => FillOrRefuse
    BY DEF Inv, FillOrRefuse
  <1> QED BY Invariance, <1>1, PTL

(* linear_orthomorphism and its sum with the identity are one-to-one       *)
(* (prg.rs:18-31), which the half-tree construction needs of it.           *)
THEOREM Orthomorphism == IsOrthomorphism
  <1> DEFINE plus(u) == <<Xor(LinearOrthomorphism(u)[1], u[1]), Xor(LinearOrthomorphism(u)[2], u[2])>>
  <1> SUFFICES ASSUME NEW s \in Byte \X Byte, NEW t \in Byte \X Byte,
                      LinearOrthomorphism(s) = LinearOrthomorphism(t) \/ plus(s) = plus(t)
      PROVE s = t
    BY DEF IsOrthomorphism
  <1>1. /\ s = <<s[1], s[2]>> /\ s[1] \in Byte /\ s[2] \in Byte
        /\ t = <<t[1], t[2]>> /\ t[1] \in Byte /\ t[2] \in Byte
    OBVIOUS
  <1>2. Xor(s[1], s[2]) = Xor(t[1], t[2]) /\ s[1] = t[1]
    <2>1. CASE LinearOrthomorphism(s) = LinearOrthomorphism(t)
      BY <2>1 DEF LinearOrthomorphism
    <2>2. CASE plus(s) = plus(t)
      <3> DEFINE u == Xor(s[1], s[2])
                 v == Xor(t[1], t[2])
      <3>1. Xor(u, s[1]) = Xor(v, t[1]) /\ Xor(s[1], s[2]) = Xor(t[1], t[2])
        BY <2>2 DEF LinearOrthomorphism
      <3>2. u = v /\ u \in Byte
        BY <1>1, <3>1, XorAssumption
      <3> HIDE DEF u, v
      <3>3. s[1] = t[1]
        BY <1>1, <3>1, <3>2, XorInjective
      <3> QED BY <3>1, <3>3 DEF u, v
    <2> QED BY <2>1, <2>2
  <1>3. s[2] = t[2]
    BY <1>1, <1>2, XorInjective
  <1> QED BY <1>1, <1>2, <1>3

-----------------------------------------------------------------------------
(* A function defined by recursion up to a bound exists. *)
Recurses(g, S, base, step, last) ==
  /\ g \in [0 .. last -> S] /\ g[0] = base
  /\ \A n \in 1 .. last : g[n] = step[<<n, g[n - 1]>>]

LEMMA RecursionExists ==
  ASSUME NEW S, NEW base \in S, NEW step \in [Nat \X S -> S], NEW last \in Nat
  PROVE  \E g : Recurses(g, S, base, step, last)
  <1> DEFINE Meets(g, m) == g[0] = base /\ \A n \in 1 .. m : g[n] = step[<<n, g[n - 1]>>]
             Good == {m \in Nat : \E g \in [0 .. m -> S] : Meets(g, m)}
  <1>1. 0 \in Good
    <2> DEFINE g == [n \in 0 .. 0 |-> base]
    <2>1. g \in [0 .. 0 -> S] /\ Meets(g, 0)
      OBVIOUS
    <2> QED BY <2>1
  <1>2. ASSUME NEW m \in Nat, m \in Good PROVE m + 1 \in Good
    <2>1. PICK g \in [0 .. m -> S] : Meets(g, m)
      BY <1>2
    <2> DEFINE h == [n \in 0 .. m + 1 |-> IF n = m + 1 THEN step[<<n, g[m]>>] ELSE g[n]]
    <2>2. h \in [0 .. m + 1 -> S]
      <3>1. g[m] \in S /\ step[<<m + 1, g[m]>>] \in S
        OBVIOUS
      <3>2. ASSUME NEW n \in 0 .. m + 1
            PROVE  (IF n = m + 1 THEN step[<<n, g[m]>>] ELSE g[n]) \in S
        <4>1. n = m + 1 \/ n \in 0 .. m
          OBVIOUS
        <4> QED BY <3>1, <4>1
      <3> QED BY <3>2
    <2>3. \A n \in 0 .. m : h[n] = g[n] /\ h[m + 1] = step[<<m + 1, g[m]>>]
      OBVIOUS
    <2>4. Meets(h, m + 1)
      <3> HIDE DEF h
      <3>1. h[0] = base
        BY <2>1, <2>3
      <3>2. ASSUME NEW n \in 1 .. m + 1 PROVE h[n] = step[<<n, h[n - 1]>>]
        <4>1. CASE n = m + 1
          BY <2>3, <4>1
        <4>2. CASE n \in 1 .. m
          <5>1. n - 1 \in 0 .. m /\ n \in 0 .. m
            BY <4>2
          <5> QED BY <2>1, <2>3, <4>2, <5>1
        <4> QED BY <4>1, <4>2
      <3> QED BY <3>1, <3>2
    <2> HIDE DEF h
    <2> QED BY <2>2, <2>4
  <1>3. \A m \in Nat : m \in Good
    <2> HIDE DEF Good
    <2> QED BY <1>1, <1>2, Sets!NatSetInduction
  <1>4. PICK g \in [0 .. last -> S] : Meets(g, last)
    BY <1>3
  <1> QED BY <1>4 DEF Recurses

-----------------------------------------------------------------------------
(* Exclusive or *)

LEMMA AddLaws ==
  ASSUME NEW u, NEW v, NEW w
  PROVE  /\ Add(u, v) = Add(v, u) /\ Add(Add(u, v), w) = Add(u, Add(v, w))
         /\ Add(u, {}) = u /\ Add({}, u) = u /\ Add(u, u) = {}
         /\ Add(u, Add(u, v)) = v
  BY DEF Add

LEMMA AddSwap ==
  ASSUME NEW u, NEW v, NEW w, NEW t
  PROVE  Add(Add(u, v), Add(w, t)) = Add(Add(u, w), Add(v, t))
  BY DEF Add

LEMMA Degrees ==
  ASSUME NEW f \in DOMAIN Degree
  PROVE  /\ f \in {"gf16", "gf256"} /\ Degree[f] \in {4, 8} /\ Degree[f] \in Nat
         /\ Reduction[f] \subseteq 0 .. Degree[f] - 1
         /\ 3 \in 0 .. Degree[f] - 1
  BY DEF Degree, Reduction

LEMMA ElementTyped ==
  ASSUME NEW f \in DOMAIN Degree, NEW u \in Element(f), NEW v \in Element(f)
  PROVE  /\ {} \in Element(f) /\ Add(u, v) \in Element(f)
         /\ Double(f, u) \in Element(f) /\ Halve(u) \in Element(f)
  <1>1. Degree[f] \in Nat /\ Reduction[f] \subseteq 0 .. Degree[f] - 1
    BY Degrees
  <1>2. {k + 1 : k \in u \ {Degree[f] - 1}} \subseteq 0 .. Degree[f] - 1
    BY <1>1 DEF Element
  <1>3. {k - 1 : k \in u \ {0}} \subseteq 0 .. Degree[f] - 1
    BY <1>1 DEF Element
  <1> QED BY <1>1, <1>2, <1>3 DEF Element, Add, Double, Halve

LEMMA DoubleAdds ==
  ASSUME NEW f \in DOMAIN Degree, NEW u \in Element(f), NEW v \in Element(f)
  PROVE  Double(f, Add(u, v)) = Add(Double(f, u), Double(f, v))
  <1> DEFINE top == Degree[f] - 1
             Moved(w) == {k + 1 : k \in w \ {top}}
             Back(w) == IF top \in w THEN Reduction[f] ELSE {}
  <1>1. u \subseteq Int /\ v \subseteq Int
    BY Degrees DEF Element
  <1>2. Moved(Add(u, v)) = Add(Moved(u), Moved(v))
    <2>1. ASSUME NEW n PROVE n \in Moved(Add(u, v)) <=> n \in Add(Moved(u), Moved(v))
      <3>1. ASSUME NEW w \in SUBSET Int
            PROVE  n \in Moved(w) <=> n \in Int /\ n - 1 \in w /\ n - 1 # top
        <4>1. \A k \in w : n = k + 1 <=> n \in Int /\ n - 1 = k
          OBVIOUS
        <4> QED BY <4>1
      <3>2. Add(u, v) \in SUBSET Int
        BY <1>1 DEF Add
      <3> HIDE DEF Moved
      <3> QED BY <1>1, <3>1, <3>2 DEF Add
    <2> HIDE DEF Moved
    <2> QED BY <2>1
  <1>3. Back(Add(u, v)) = Add(Back(u), Back(v))
    BY DEF Add
  <1>4. \A w : Double(f, w) = Add(Moved(w), Back(w))
    BY DEF Double
  <1> HIDE DEF Moved, Back
  <1> QED BY <1>2, <1>3, <1>4, AddSwap

-----------------------------------------------------------------------------
(* The shift-and-add loop *)

Loop(f) == [a : Element(f), b : Element(f), product : Element(f)]
Start(u, v) == [a |-> u, b |-> v, product |-> {}]

After(f, u, v) ==
  LET after[n \in 0 .. Degree[f]] ==
        IF n = 0 THEN [a |-> u, b |-> v, product |-> {}] ELSE Round(f, after[n - 1])
  IN after

LEMMA RoundTyped ==
  ASSUME NEW f \in DOMAIN Degree, NEW l \in Loop(f)
  PROVE  Round(f, l) \in Loop(f)
  <1>1. l.a \in Element(f) /\ l.b \in Element(f) /\ l.product \in Element(f)
    BY DEF Loop
  <1>2. /\ Add(l.product, l.a) \in Element(f) /\ Double(f, l.a) \in Element(f)
        /\ Halve(l.b) \in Element(f)
    BY <1>1, ElementTyped
  <1> QED BY <1>1, <1>2 DEF Loop, Round

LEMMA RoundParts ==
  ASSUME NEW f, NEW l
  PROVE  /\ Round(f, l).a = Double(f, l.a) /\ Round(f, l).b = Halve(l.b)
         /\ Round(f, l).product = IF 0 \in l.b THEN Add(l.product, l.a) ELSE l.product
  BY DEF Round

(* The recursion in Mul is one. *)
LEMMA AfterTurns ==
  ASSUME NEW f \in DOMAIN Degree, NEW u \in Element(f), NEW v \in Element(f)
  PROVE  /\ Mul(f, u, v) = After(f, u, v)[Degree[f]].product
         /\ After(f, u, v)[0] = Start(u, v)
         /\ \A n \in 0 .. Degree[f] :
              /\ After(f, u, v)[n].a \in Element(f) /\ After(f, u, v)[n].b \in Element(f)
              /\ After(f, u, v)[n].product \in Element(f)
         /\ \A n \in 0 .. Degree[f] - 1 : After(f, u, v)[n + 1] = Round(f, After(f, u, v)[n])
  <1> DEFINE step == [p \in Nat \X Loop(f) |-> Round(f, p[2])]
             Runs(g) == g = [n \in 0 .. Degree[f] |->
                               IF n = 0 THEN [a |-> u, b |-> v, product |-> {}]
                                        ELSE Round(f, g[n - 1])]
  <1>1. Start(u, v) \in Loop(f)
    BY ElementTyped DEF Start, Loop
  <1>2. step \in [Nat \X Loop(f) -> Loop(f)]
    BY RoundTyped
  <1>3. Degree[f] \in Nat
    BY Degrees
  <1>4. \E g : Recurses(g, Loop(f), Start(u, v), step, Degree[f])
    <2> HIDE DEF step
    <2> QED BY <1>1, <1>2, <1>3, RecursionExists
  <1>5. PICK g \in [0 .. Degree[f] -> Loop(f)] :
          g[0] = Start(u, v) /\ \A n \in 1 .. Degree[f] : g[n] = step[<<n, g[n - 1]>>]
    BY <1>4 DEF Recurses
  <1>6. \A n \in 1 .. Degree[f] : g[n] = Round(f, g[n - 1])
    <2>1. SUFFICES ASSUME NEW n \in 1 .. Degree[f] PROVE step[<<n, g[n - 1]>>] = Round(f, g[n - 1])
      BY <1>5
    <2>2. n \in Nat /\ g[n - 1] \in Loop(f)
      BY <1>3, <1>5
    <2> QED BY <2>2
  <1>7. Runs(g)
    <2>1. \A n \in 0 .. Degree[f] :
            g[n] = IF n = 0 THEN [a |-> u, b |-> v, product |-> {}] ELSE Round(f, g[n - 1])
      <3>1. g[0] = [a |-> u, b |-> v, product |-> {}]
        BY <1>5 DEF Start
      <3>2. \A n \in 0 .. Degree[f] : n # 0 => n \in 1 .. Degree[f]
        BY <1>3
      <3> QED BY <1>6, <3>1, <3>2
    <2>2. DOMAIN g = 0 .. Degree[f] /\ g = [n \in DOMAIN g |-> g[n]]
      BY <1>5
    <2> QED BY <2>1, <2>2
  <1>8. After(f, u, v) = CHOOSE h : Runs(h)
    BY DEF After
  <1>9. Runs(After(f, u, v))
    <2> HIDE DEF Runs
    <2> QED BY <1>7, <1>8
  <1> DEFINE h == After(f, u, v)
  <1>10. \A n \in 0 .. Degree[f] : h[n] = IF n = 0 THEN Start(u, v) ELSE Round(f, h[n - 1])
    BY <1>9 DEF Start
  <1>11. Mul(f, u, v) = h[Degree[f]].product
    BY DEF Mul, After
  <1> HIDE DEF h
  <1>12. h[0] = Start(u, v)
    BY <1>3, <1>10
  <1>13. ASSUME NEW n \in 0 .. Degree[f] - 1 PROVE h[n + 1] = Round(f, h[n])
    <2>1. n + 1 \in 0 .. Degree[f] /\ n + 1 # 0 /\ (n + 1) - 1 = n
      BY <1>3
    <2> QED BY <1>10, <2>1
  <1>14. \A n \in Nat : n \in {m \in Nat : m <= Degree[f] => h[m] \in Loop(f)}
    <2> DEFINE T == {m \in Nat : m <= Degree[f] => h[m] \in Loop(f)}
    <2>1. 0 \in T
      BY <1>1, <1>12
    <2>2. ASSUME NEW n \in Nat, n \in T PROVE n + 1 \in T
      <3>1. CASE n + 1 <= Degree[f]
        <4>1. n \in 0 .. Degree[f] - 1 /\ h[n] \in Loop(f)
          BY <1>3, <2>2, <3>1
        <4>2. h[n + 1] \in Loop(f)
          BY <1>13, <4>1, RoundTyped
        <4> QED BY <4>2
      <3> QED BY <3>1
    <2> HIDE DEF T
    <2>3. \A n \in Nat : n \in T
      BY <2>1, <2>2, Sets!NatSetInduction
    <2> QED BY <2>3 DEF T
  <1>15. \A n \in 0 .. Degree[f] : h[n] \in Loop(f)
    BY <1>14
  <1>16. \A l \in Loop(f) : l.a \in Element(f) /\ l.b \in Element(f) /\ l.product \in Element(f)
    BY DEF Loop
  <1>17. \A n \in 0 .. Degree[f] : /\ h[n].a \in Element(f) /\ h[n].b \in Element(f)
                                   /\ h[n].product \in Element(f)
    BY <1>15, <1>16
  <1> QED BY <1>11, <1>12, <1>13, <1>17 DEF h

Doubled(f, n, u) == After(f, u, {})[n].a
ProductAt(f, n, u, v) == After(f, u, v)[n].product

(* n times x. *)
LEMMA DoubledTurns ==
  ASSUME NEW f \in DOMAIN Degree, NEW u \in Element(f)
  PROVE  /\ Doubled(f, 0, u) = u
         /\ \A n \in 0 .. Degree[f] : Doubled(f, n, u) \in Element(f)
         /\ \A n \in 0 .. Degree[f] - 1 : Doubled(f, n + 1, u) = Double(f, Doubled(f, n, u))
  <1>1. {} \in Element(f)
    BY ElementTyped
  <1> DEFINE h == After(f, u, {})
  <1>2. /\ h[0] = Start(u, {}) /\ \A n \in 0 .. Degree[f] : h[n].a \in Element(f)
        /\ \A n \in 0 .. Degree[f] - 1 : h[n + 1] = Round(f, h[n])
    BY <1>1, AfterTurns
  <1> HIDE DEF h
  <1>3. \A n \in 0 .. Degree[f] - 1 : h[n + 1].a = Double(f, h[n].a)
    BY <1>2, RoundParts
  <1>4. h[0].a = u
    BY <1>2 DEF Start
  <1> QED BY <1>2, <1>3, <1>4 DEF Doubled, h

(* Induction up to the degree. *)
LEMMA RoundInduction ==
  ASSUME NEW f \in DOMAIN Degree, NEW T, 0 \in T,
         \A n \in 0 .. Degree[f] - 1 : n \in T => n + 1 \in T
  PROVE  \A n \in 0 .. Degree[f] : n \in T
  <1> DEFINE Good == {n \in Nat : n <= Degree[f] => n \in T}
  <1>1. Degree[f] \in Nat
    BY Degrees
  <1>2. 0 \in Good
    OBVIOUS
  <1>3. ASSUME NEW n \in Nat, n \in Good PROVE n + 1 \in Good
    <2>1. CASE n + 1 <= Degree[f]
      BY <1>1, <1>3, <2>1
    <2> QED BY <2>1
  <1>4. \A n \in Nat : n \in Good
    <2> HIDE DEF Good
    <2> QED BY <1>2, <1>3, Sets!NatSetInduction
  <1> QED BY <1>4

(* The state after n rounds. *)
LEMMA LoopState ==
  ASSUME NEW f \in DOMAIN Degree, NEW u \in Element(f), NEW v \in Element(f),
         NEW n \in 0 .. Degree[f]
  PROVE  /\ After(f, u, v)[n].a = Doubled(f, n, u)
         /\ After(f, u, v)[n].b = {k \in Nat : k + n \in v}
  <1> DEFINE h == After(f, u, v)
             T == {m \in 0 .. Degree[f] : /\ h[m].a = Doubled(f, m, u)
                                         /\ h[m].b = {k \in Nat : k + m \in v}}
  <1>1. /\ h[0] = Start(u, v)
        /\ \A m \in 0 .. Degree[f] - 1 : h[m + 1] = Round(f, h[m])
    BY AfterTurns
  <1>2. Degree[f] \in Nat /\ v \subseteq Nat
    BY Degrees DEF Element
  <1> HIDE DEF h
  <1>3. 0 \in T
    <2>1. v = {k \in Nat : k + 0 \in v}
      <3>1. \A k \in Nat : k + 0 = k
        OBVIOUS
      <3> QED BY <1>2, <3>1
    <2>2. h[0].a = u /\ h[0].b = v
      BY <1>1 DEF Start
    <2> QED BY <1>2, <2>1, <2>2, DoubledTurns
  <1>4. ASSUME NEW m \in 0 .. Degree[f] - 1, m \in T PROVE m + 1 \in T
    <2>1. h[m + 1].a = Double(f, h[m].a) /\ h[m + 1].b = Halve(h[m].b)
      BY <1>1, RoundParts
    <2>2. Halve({k \in Nat : k + m \in v}) = {k \in Nat : k + (m + 1) \in v}
      <3>1. ASSUME NEW k
            PROVE  k \in Halve({i \in Nat : i + m \in v}) <=> k \in Nat /\ k + (m + 1) \in v
        <4>1. k \in Halve({i \in Nat : i + m \in v})
                <=> \E i \in Nat : i + m \in v /\ i # 0 /\ k = i - 1
          BY DEF Halve
        <4>2. k \in Nat => (k + 1) + m = k + (m + 1) /\ k + 1 \in Nat /\ k + 1 # 0 /\ k = (k + 1) - 1
          OBVIOUS
        <4>3. ASSUME NEW i \in Nat, i + m \in v, i # 0, k = i - 1
              PROVE  k \in Nat /\ k + (m + 1) \in v
          <5>1. k \in Nat /\ k + (m + 1) = i + m
            BY <4>3
          <5> QED BY <4>3, <5>1
        <4> QED BY <4>1, <4>2, <4>3
      <3> QED BY <3>1
    <2>3. Doubled(f, m + 1, u) = Double(f, Doubled(f, m, u))
      BY DoubledTurns
    <2>4. m + 1 \in 0 .. Degree[f]
      BY <1>2
    <2> QED BY <1>4, <2>1, <2>2, <2>3, <2>4
  <1>5. \A m \in 0 .. Degree[f] : m \in T
    <2> HIDE DEF T
    <2> QED BY <1>3, <1>4, RoundInduction
  <1> QED BY <1>5 DEF h

(* What a round adds. *)
LEMMA ProductTurns ==
  ASSUME NEW f \in DOMAIN Degree, NEW u \in Element(f), NEW v \in Element(f)
  PROVE  /\ ProductAt(f, 0, u, v) = {} /\ Mul(f, u, v) = ProductAt(f, Degree[f], u, v)
         /\ \A n \in 0 .. Degree[f] : ProductAt(f, n, u, v) \in Element(f)
         /\ \A n \in 0 .. Degree[f] - 1 :
              ProductAt(f, n + 1, u, v)
                = IF n \in v THEN Add(ProductAt(f, n, u, v), Doubled(f, n, u))
                             ELSE ProductAt(f, n, u, v)
  <1> DEFINE h == After(f, u, v)
  <1>1. /\ h[0] = Start(u, v) /\ \A m \in 0 .. Degree[f] : h[m].product \in Element(f)
        /\ \A m \in 0 .. Degree[f] - 1 : h[m + 1] = Round(f, h[m])
        /\ Mul(f, u, v) = h[Degree[f]].product
    BY AfterTurns
  <1>2. ASSUME NEW n \in 0 .. Degree[f] - 1
        PROVE  h[n + 1].product = IF n \in v THEN Add(h[n].product, Doubled(f, n, u))
                                             ELSE h[n].product
    <2>1. n \in 0 .. Degree[f] /\ n \in Nat
      BY Degrees
    <2>2. h[n].a = Doubled(f, n, u) /\ h[n].b = {k \in Nat : k + n \in v}
      BY <2>1, LoopState
    <2>3. 0 \in {k \in Nat : k + n \in v} <=> n \in v
      BY <2>1
    <2> HIDE DEF h
    <2>4. h[n + 1].product = IF 0 \in h[n].b THEN Add(h[n].product, h[n].a) ELSE h[n].product
      BY <1>1, RoundParts
    <2> QED BY <2>2, <2>3, <2>4
  <1>3. h[0].product = {}
    BY <1>1 DEF Start
  <1> QED BY <1>1, <1>2, <1>3 DEF ProductAt

(* The same, with the number of the round outside. *)
LEMMA ProductTurn ==
  ASSUME NEW f \in DOMAIN Degree, NEW u \in Element(f), NEW v \in Element(f),
         NEW n \in 0 .. Degree[f] - 1
  PROVE  ProductAt(f, n + 1, u, v)
           = IF n \in v THEN Add(ProductAt(f, n, u, v), Doubled(f, n, u))
                        ELSE ProductAt(f, n, u, v)
  BY ProductTurns

LEMMA ProductEnds ==
  ASSUME NEW f \in DOMAIN Degree, NEW u \in Element(f), NEW v \in Element(f)
  PROVE  ProductAt(f, 0, u, v) = {} /\ Mul(f, u, v) = ProductAt(f, Degree[f], u, v)
  BY ProductTurns

-----------------------------------------------------------------------------
(* The product is bilinear *)

LEMMA DoubledAdds ==
  ASSUME NEW f \in DOMAIN Degree, NEW u \in Element(f), NEW v \in Element(f),
         NEW n \in 0 .. Degree[f]
  PROVE  /\ Doubled(f, n, Add(u, v)) = Add(Doubled(f, n, u), Doubled(f, n, v))
         /\ Doubled(f, n, Double(f, u)) = Double(f, Doubled(f, n, u))
  <1> DEFINE T == {m \in 0 .. Degree[f] :
                     /\ Doubled(f, m, Add(u, v)) = Add(Doubled(f, m, u), Doubled(f, m, v))
                     /\ Doubled(f, m, Double(f, u)) = Double(f, Doubled(f, m, u))}
  <1>1. Degree[f] \in Nat /\ Add(u, v) \in Element(f) /\ Double(f, u) \in Element(f)
    BY Degrees, ElementTyped
  <1>2. 0 \in T
    BY <1>1, DoubledTurns
  <1>3. ASSUME NEW m \in 0 .. Degree[f] - 1, m \in T PROVE m + 1 \in T
    <2>1. m \in 0 .. Degree[f] /\ m + 1 \in 0 .. Degree[f]
      BY <1>1
    <2>2. /\ Doubled(f, m, u) \in Element(f) /\ Doubled(f, m, v) \in Element(f)
          /\ \A w \in {u, v, Add(u, v), Double(f, u)} :
               Doubled(f, m + 1, w) = Double(f, Doubled(f, m, w))
      BY <1>1, <2>1, DoubledTurns
    <2>3. Double(f, Add(Doubled(f, m, u), Doubled(f, m, v)))
            = Add(Double(f, Doubled(f, m, u)), Double(f, Doubled(f, m, v)))
      BY <2>2, DoubleAdds
    <2> QED BY <1>3, <2>1, <2>2, <2>3
  <1>4. \A m \in 0 .. Degree[f] : m \in T
    <2> HIDE DEF T
    <2> QED BY <1>2, <1>3, RoundInduction
  <1> QED BY <1>4

LEMMA AddIfs ==
  ASSUME NEW p, NEW q, NEW r, NEW v, NEW w, NEW n
  PROVE  (IF n \in Add(v, w) THEN Add(Add(p, q), r) ELSE Add(p, q))
           = Add(IF n \in v THEN Add(p, r) ELSE p, IF n \in w THEN Add(q, r) ELSE q)
  <1>1. n \in Add(v, w) <=> ~ (n \in v <=> n \in w)
    BY DEF Add
  <1>2. /\ Add(Add(p, q), r) = Add(Add(p, r), q) /\ Add(Add(p, q), r) = Add(p, Add(q, r))
        /\ Add(Add(p, r), Add(q, r)) = Add(p, q)
    BY DEF Add
  <1> QED BY <1>1, <1>2

LEMMA MulTyped ==
  ASSUME NEW f \in DOMAIN Degree, NEW u \in Element(f), NEW v \in Element(f)
  PROVE  Mul(f, u, v) \in Element(f)
  <1>1. Degree[f] \in 0 .. Degree[f]
    BY Degrees
  <1> QED BY <1>1, ProductTurns

LEMMA MulAdds ==
  ASSUME NEW f \in DOMAIN Degree,
         NEW u \in Element(f), NEW v \in Element(f), NEW w \in Element(f)
  PROVE  /\ Mul(f, u, Add(v, w)) = Add(Mul(f, u, v), Mul(f, u, w))
         /\ Mul(f, Add(v, w), u) = Add(Mul(f, v, u), Mul(f, w, u))
  <1> DEFINE T == {n \in 0 .. Degree[f] :
       /\ ProductAt(f, n, u, Add(v, w)) = Add(ProductAt(f, n, u, v), ProductAt(f, n, u, w))
       /\ ProductAt(f, n, Add(v, w), u) = Add(ProductAt(f, n, v, u), ProductAt(f, n, w, u))}
  <1>1. Degree[f] \in Nat /\ Add(v, w) \in Element(f)
    BY Degrees, ElementTyped
  <1>2. 0 \in T
    <2>1. /\ ProductAt(f, 0, u, v) = {} /\ ProductAt(f, 0, u, w) = {}
          /\ ProductAt(f, 0, u, Add(v, w)) = {}
          /\ ProductAt(f, 0, v, u) = {} /\ ProductAt(f, 0, w, u) = {}
          /\ ProductAt(f, 0, Add(v, w), u) = {}
      BY <1>1, ProductEnds
    <2>2. Add({}, {}) = {} /\ 0 \in 0 .. Degree[f]
      BY <1>1, AddLaws
    <2> QED BY <2>1, <2>2
  <1>3. ASSUME NEW n \in 0 .. Degree[f] - 1, n \in T PROVE n + 1 \in T
    <2>1. n \in 0 .. Degree[f] /\ n + 1 \in 0 .. Degree[f]
      BY <1>1
    <2>2. /\ ProductAt(f, n, u, Add(v, w)) = Add(ProductAt(f, n, u, v), ProductAt(f, n, u, w))
          /\ ProductAt(f, n, Add(v, w), u) = Add(ProductAt(f, n, v, u), ProductAt(f, n, w, u))
      BY <1>3
    <2>3. ProductAt(f, n + 1, u, Add(v, w))
            = Add(ProductAt(f, n + 1, u, v), ProductAt(f, n + 1, u, w))
      <3> DEFINE p == ProductAt(f, n, u, v)
                 q == ProductAt(f, n, u, w)
                 r == Doubled(f, n, u)
      <3>1. ProductAt(f, n + 1, u, v) = IF n \in v THEN Add(p, r) ELSE p
        BY ProductTurn
      <3>2. ProductAt(f, n + 1, u, w) = IF n \in w THEN Add(q, r) ELSE q
        BY ProductTurn
      <3>3. ProductAt(f, n + 1, u, Add(v, w))
              = IF n \in Add(v, w) THEN Add(Add(p, q), r) ELSE Add(p, q)
        BY <1>1, <2>2, ProductTurn
      <3> HIDE DEF p, q, r
      <3>4. (IF n \in Add(v, w) THEN Add(Add(p, q), r) ELSE Add(p, q))
              = Add(IF n \in v THEN Add(p, r) ELSE p, IF n \in w THEN Add(q, r) ELSE q)
        BY AddIfs
      <3> QED BY <3>1, <3>2, <3>3, <3>4
    <2>4. ProductAt(f, n + 1, Add(v, w), u)
            = Add(ProductAt(f, n + 1, v, u), ProductAt(f, n + 1, w, u))
      <3> DEFINE p == ProductAt(f, n, v, u)
                 q == ProductAt(f, n, w, u)
                 r == Doubled(f, n, v)
                 s == Doubled(f, n, w)
      <3>1. ProductAt(f, n + 1, v, u) = IF n \in u THEN Add(p, r) ELSE p
        BY ProductTurn
      <3>2. ProductAt(f, n + 1, w, u) = IF n \in u THEN Add(q, s) ELSE q
        BY ProductTurn
      <3>3. Doubled(f, n, Add(v, w)) = Add(r, s)
        BY <2>1, DoubledAdds
      <3>4. ProductAt(f, n + 1, Add(v, w), u)
              = IF n \in u THEN Add(Add(p, q), Add(r, s)) ELSE Add(p, q)
        BY <1>1, <2>2, <3>3, ProductTurn
      <3> HIDE DEF p, q, r, s
      <3>5. Add(Add(p, q), Add(r, s)) = Add(Add(p, r), Add(q, s))
        BY AddSwap
      <3> QED BY <3>1, <3>2, <3>4, <3>5
    <2> QED BY <2>1, <2>3, <2>4
  <1>4. \A n \in 0 .. Degree[f] : n \in T
    <2> HIDE DEF T
    <2> QED BY <1>2, <1>3, RoundInduction
  <1>5. Degree[f] \in T
    BY <1>1, <1>4
  <1> QED BY <1>1, <1>5, ProductEnds

LEMMA Singletons ==
  ASSUME NEW f \in DOMAIN Degree, NEW k \in 0 .. Degree[f] - 1
  PROVE  {k} \in Element(f) /\ k \in Nat /\ k \in 0 .. Degree[f]
  BY Degrees DEF Element

LEMMA MulSingle ==
  ASSUME NEW f \in DOMAIN Degree, NEW u \in Element(f), NEW k \in 0 .. Degree[f] - 1
  PROVE  Mul(f, u, {k}) = Doubled(f, k, u)
  <1> DEFINE T == {n \in 0 .. Degree[f] :
                     ProductAt(f, n, u, {k}) = IF n > k THEN Doubled(f, k, u) ELSE {}}
  <1>1. Degree[f] \in Nat /\ {k} \in Element(f) /\ k \in Nat
    BY Degrees, Singletons
  <1>2. 0 \in T
    BY <1>1, ProductTurns
  <1>3. ASSUME NEW n \in 0 .. Degree[f] - 1, n \in T PROVE n + 1 \in T
    <2>1. n \in 0 .. Degree[f] /\ n + 1 \in 0 .. Degree[f]
      BY <1>1
    <2>2. ProductAt(f, n + 1, u, {k})
            = IF n \in {k} THEN Add(ProductAt(f, n, u, {k}), Doubled(f, n, u))
                           ELSE ProductAt(f, n, u, {k})
      BY <1>1, ProductTurn
    <2>3. Add({}, Doubled(f, n, u)) = Doubled(f, n, u)
      BY AddLaws
    <2> QED BY <1>1, <1>3, <2>1, <2>2, <2>3
  <1>4. \A n \in 0 .. Degree[f] : n \in T
    <2> HIDE DEF T
    <2> QED BY <1>2, <1>3, RoundInduction
  <1>5. Degree[f] \in T /\ Degree[f] > k
    BY <1>1, <1>4
  <1> QED BY <1>1, <1>5, ProductEnds

-----------------------------------------------------------------------------
(* The laws of a ring *)

Additive(f, g) == \A u, v \in Element(f) : g[Add(u, v)] = Add(g[u], g[v])

(* Two additive functions with the same values at the powers of x.         *)
LEMMA Agree ==
  ASSUME NEW f \in DOMAIN Degree, NEW g, NEW h, Additive(f, g), Additive(f, h),
         \A k \in 0 .. Degree[f] - 1 : g[{k}] = h[{k}],
         NEW u \in Element(f)
  PROVE  g[u] = h[u]
  <1> DEFINE T == {n \in 0 .. Degree[f] : \A v \in Element(f) : (\A k \in v : k < n) => g[v] = h[v]}
  <1>1. Degree[f] \in Nat /\ u \subseteq 0 .. Degree[f] - 1
    BY Degrees DEF Element
  <1>2. g[{}] = h[{}]
    <2>1. {} \in Element(f) /\ Add({}, {}) = {}
      BY ElementTyped, AddLaws
    <2>2. g[{}] = Add(g[{}], g[{}]) /\ h[{}] = Add(h[{}], h[{}])
      BY <2>1 DEF Additive
    <2> QED BY <2>2, AddLaws
  <1>3. 0 \in T
    <2>1. \A v \in Element(f) : (\A k \in v : k < 0) => v = {}
      BY <1>1 DEF Element
    <2>2. 0 \in 0 .. Degree[f]
      BY <1>1
    <2> QED BY <1>2, <2>1, <2>2
  <1>4. ASSUME NEW n \in 0 .. Degree[f] - 1, n \in T PROVE n + 1 \in T
    <2>0. n + 1 \in 0 .. Degree[f]
      BY <1>1
    <2>1. SUFFICES ASSUME NEW v \in Element(f), \A k \in v : k < n + 1 PROVE g[v] = h[v]
      BY <2>0
    <2>2. \A k \in v \ {n} : k < n
      BY <1>1, <2>1 DEF Element
    <2>3. v \ {n} \in Element(f) /\ {n} \in Element(f)
      BY <1>1 DEF Element
    <2>4. g[v \ {n}] = h[v \ {n}] /\ g[{n}] = h[{n}]
      BY <1>4, <2>2, <2>3
    <2>5. CASE n \in v
      <3>1. v = Add(v \ {n}, {n})
        BY <2>5 DEF Add
      <3>2. g[v] = Add(g[v \ {n}], g[{n}]) /\ h[v] = Add(h[v \ {n}], h[{n}])
        BY <2>3, <3>1 DEF Additive
      <3> QED BY <2>4, <3>2
    <2>6. CASE n \notin v
      <3>1. v \ {n} = v
        BY <2>6
      <3> QED BY <2>4, <3>1
    <2> QED BY <2>5, <2>6
  <1>5. \A n \in 0 .. Degree[f] : n \in T
    <2> HIDE DEF T
    <2> QED BY <1>3, <1>4, RoundInduction
  <1>6. Degree[f] \in T
    BY <1>1, <1>5
  <1>7. \A k \in u : k < Degree[f]
    BY <1>1
  <1> QED BY <1>6, <1>7

Times1(f, u) == [w \in Element(f) |-> Mul(f, u, w)]
Times2(f, u) == [w \in Element(f) |-> Mul(f, w, u)]

LEMMA TimesAdditive ==
  ASSUME NEW f \in DOMAIN Degree, NEW u \in Element(f)
  PROVE  Additive(f, Times1(f, u)) /\ Additive(f, Times2(f, u))
  <1>1. SUFFICES ASSUME NEW v \in Element(f), NEW w \in Element(f)
        PROVE  /\ Times1(f, u)[Add(v, w)] = Add(Times1(f, u)[v], Times1(f, u)[w])
               /\ Times2(f, u)[Add(v, w)] = Add(Times2(f, u)[v], Times2(f, u)[w])
    BY DEF Additive
  <1>2. Add(v, w) \in Element(f)
    BY ElementTyped
  <1> QED BY <1>2, MulAdds DEF Times1, Times2

(* Doubling a single bit: the next one, or what x^degree is reduced to.    *)
LEMMA DoubleBit ==
  ASSUME NEW f \in DOMAIN Degree, NEW k \in 0 .. Degree[f] - 1
  PROVE  Double(f, {k}) = IF k + 1 < Degree[f] THEN {k + 1} ELSE Reduction[f]
  <1>1. Degree[f] \in Nat
    BY Degrees
  <1>2. CASE k + 1 < Degree[f]
    <2>1. Degree[f] - 1 \notin {k} /\ {k} \ {Degree[f] - 1} = {k}
      BY <1>1, <1>2
    <2>2. Double(f, {k}) = Add({i + 1 : i \in {k}}, {})
      BY <2>1 DEF Double
    <2>3. {i + 1 : i \in {k}} = {k + 1}
      OBVIOUS
    <2> QED BY <1>2, <2>2, <2>3, AddLaws
  <1>3. CASE ~ (k + 1 < Degree[f])
    <2>1. Degree[f] - 1 \in {k} /\ {k} \ {Degree[f] - 1} = {}
      BY <1>1, <1>3
    <2>2. Double(f, {k}) = Add({i + 1 : i \in {}}, Reduction[f])
      BY <2>1 DEF Double
    <2>3. {i + 1 : i \in {}} = {}
      OBVIOUS
    <2> QED BY <1>3, <2>2, <2>3, AddLaws
  <1> QED BY <1>2, <1>3

(* Below the degree, the powers of x are single bits. *)
LEMMA PowersAreBits ==
  ASSUME NEW f \in DOMAIN Degree, NEW k \in 0 .. Degree[f] - 1
  PROVE  Doubled(f, k, {0}) = {k}
  <1> DEFINE T == {n \in 0 .. Degree[f] : n < Degree[f] => Doubled(f, n, {0}) = {n}}
  <1>1. Degree[f] \in Nat /\ 0 \in 0 .. Degree[f] - 1 /\ {0} \in Element(f)
    BY Degrees DEF Element
  <1>2. 0 \in T
    BY <1>1, DoubledTurns
  <1>3. ASSUME NEW n \in 0 .. Degree[f] - 1, n \in T PROVE n + 1 \in T
    <2>1. CASE n + 1 < Degree[f]
      <3>1. Doubled(f, n + 1, {0}) = Double(f, {n})
        <4>1. Doubled(f, n + 1, {0}) = Double(f, Doubled(f, n, {0}))
          BY <1>1, DoubledTurns
        <4>2. n < Degree[f]
          BY <1>1
        <4> QED BY <1>3, <4>1, <4>2
      <3>2. Double(f, {n}) = {n + 1}
        BY <2>1, DoubleBit
      <3>3. n + 1 \in 0 .. Degree[f]
        BY <1>1
      <3> QED BY <3>1, <3>2, <3>3
    <2>2. CASE ~ (n + 1 < Degree[f])
      BY <1>1, <2>2
    <2> QED BY <2>1, <2>2
  <1>4. \A n \in 0 .. Degree[f] : n \in T
    <2> HIDE DEF T
    <2> QED BY <1>2, <1>3, RoundInduction
  <1> QED BY <1>1, <1>4

LEMMA DoubledCommutes ==
  ASSUME NEW f \in DOMAIN Degree, NEW u \in Element(f),
         NEW i \in 0 .. Degree[f], NEW j \in 0 .. Degree[f]
  PROVE  Doubled(f, i, Doubled(f, j, u)) = Doubled(f, j, Doubled(f, i, u))
  <1> DEFINE T == {n \in 0 .. Degree[f] :
                     Doubled(f, i, Doubled(f, n, u)) = Doubled(f, n, Doubled(f, i, u))}
  <1>1. Degree[f] \in Nat
    BY Degrees
  <1>2. \A n \in 0 .. Degree[f] : Doubled(f, n, u) \in Element(f)
    BY DoubledTurns
  <1>3. 0 \in T
    BY <1>1, <1>2, DoubledTurns
  <1>4. ASSUME NEW n \in 0 .. Degree[f] - 1, n \in T PROVE n + 1 \in T
    <2>1. n \in 0 .. Degree[f] /\ n + 1 \in 0 .. Degree[f]
      BY <1>1
    <2>2. /\ Doubled(f, n + 1, u) = Double(f, Doubled(f, n, u))
          /\ Doubled(f, n + 1, Doubled(f, i, u)) = Double(f, Doubled(f, n, Doubled(f, i, u)))
      BY <1>2, DoubledTurns
    <2>3. Doubled(f, i, Double(f, Doubled(f, n, u))) = Double(f, Doubled(f, i, Doubled(f, n, u)))
      BY <1>2, <2>1, DoubledAdds
    <2> QED BY <1>4, <2>1, <2>2, <2>3
  <1>5. \A n \in 0 .. Degree[f] : n \in T
    <2> HIDE DEF T
    <2> QED BY <1>3, <1>4, RoundInduction
  <1> QED BY <1>5

LEMMA MulCommutes ==
  ASSUME NEW f \in DOMAIN Degree, NEW u \in Element(f), NEW v \in Element(f)
  PROVE  Mul(f, u, v) = Mul(f, v, u)
  <1>1. \A i, j \in 0 .. Degree[f] - 1 : Mul(f, {i}, {j}) = Mul(f, {j}, {i})
    <2>1. SUFFICES ASSUME NEW i \in 0 .. Degree[f] - 1, NEW j \in 0 .. Degree[f] - 1
                   PROVE  Mul(f, {i}, {j}) = Mul(f, {j}, {i})
      OBVIOUS
    <2>2. /\ {i} \in Element(f) /\ {j} \in Element(f) /\ {0} \in Element(f)
          /\ i \in 0 .. Degree[f] /\ j \in 0 .. Degree[f]
      BY Singletons, Degrees
    <2>3. Mul(f, {i}, {j}) = Doubled(f, j, {i}) /\ Mul(f, {j}, {i}) = Doubled(f, i, {j})
      BY <2>2, MulSingle
    <2>4. Doubled(f, i, {0}) = {i} /\ Doubled(f, j, {0}) = {j}
      BY PowersAreBits
    <2>5. Doubled(f, j, Doubled(f, i, {0})) = Doubled(f, i, Doubled(f, j, {0}))
      BY <2>2, DoubledCommutes
    <2> QED BY <2>3, <2>4, <2>5
  <1>2. ASSUME NEW j \in 0 .. Degree[f] - 1, NEW w \in Element(f)
        PROVE  Mul(f, w, {j}) = Mul(f, {j}, w)
    <2> DEFINE g == Times1(f, {j})
               h == Times2(f, {j})
    <2>1. {j} \in Element(f) /\ \A k \in 0 .. Degree[f] - 1 : {k} \in Element(f)
      BY Singletons
    <2>2. \A k \in 0 .. Degree[f] - 1 : g[{k}] = h[{k}]
      BY <1>1, <2>1 DEF Times1, Times2
    <2>3. Additive(f, g) /\ Additive(f, h)
      BY <2>1, TimesAdditive
    <2>4. g[w] = h[w]
      <3> HIDE DEF g, h
      <3> QED BY <2>2, <2>3, Agree
    <2> QED BY <2>1, <2>4 DEF Times1, Times2
  <1>3. \A k \in 0 .. Degree[f] - 1 : Times1(f, u)[{k}] = Times2(f, u)[{k}]
    BY <1>2, Singletons DEF Times1, Times2
  <1>4. Additive(f, Times1(f, u)) /\ Additive(f, Times2(f, u))
    BY TimesAdditive
  <1>5. Times1(f, u)[v] = Times2(f, u)[v]
    BY <1>3, <1>4, Agree
  <1> QED BY <1>5 DEF Times1, Times2

LEMMA MulDoubled ==
  ASSUME NEW f \in DOMAIN Degree, NEW u \in Element(f), NEW v \in Element(f),
         NEW n \in 0 .. Degree[f]
  PROVE  Mul(f, Doubled(f, n, u), v) = Doubled(f, n, Mul(f, u, v))
  <1>1. ASSUME NEW w \in Element(f) PROVE Mul(f, Double(f, w), v) = Double(f, Mul(f, w, v))
    <2> DEFINE g == [t \in Element(f) |-> Mul(f, Double(f, w), t)]
               h == [t \in Element(f) |-> Double(f, Mul(f, w, t))]
    <2>1. Double(f, w) \in Element(f)
      BY ElementTyped
    <2>2. Additive(f, g)
      BY <2>1, TimesAdditive DEF Times1
    <2>3. Additive(f, h)
      <3>1. SUFFICES ASSUME NEW s \in Element(f), NEW t \in Element(f)
                     PROVE  h[Add(s, t)] = Add(h[s], h[t])
        BY DEF Additive
      <3>2. /\ Add(s, t) \in Element(f) /\ Mul(f, w, s) \in Element(f)
            /\ Mul(f, w, t) \in Element(f)
        BY ElementTyped, MulTyped
      <3>3. Mul(f, w, Add(s, t)) = Add(Mul(f, w, s), Mul(f, w, t))
        BY MulAdds
      <3> QED BY <3>2, <3>3, DoubleAdds
    <2>4. \A k \in 0 .. Degree[f] - 1 : g[{k}] = h[{k}]
      <3>1. SUFFICES ASSUME NEW k \in 0 .. Degree[f] - 1
                     PROVE  Mul(f, Double(f, w), {k}) = Double(f, Mul(f, w, {k}))
        BY Singletons
      <3>2. /\ Mul(f, Double(f, w), {k}) = Doubled(f, k, Double(f, w))
            /\ Mul(f, w, {k}) = Doubled(f, k, w) /\ k \in 0 .. Degree[f]
        BY <2>1, MulSingle, Singletons
      <3> QED BY <3>2, DoubledAdds
    <2>5. g[v] = h[v]
      <3> HIDE DEF g, h
      <3> QED BY <2>2, <2>3, <2>4, Agree
    <2> QED BY <2>5
  <1> DEFINE T == {m \in 0 .. Degree[f] :
                     Mul(f, Doubled(f, m, u), v) = Doubled(f, m, Mul(f, u, v))}
  <1>2. Degree[f] \in Nat /\ Mul(f, u, v) \in Element(f)
    BY Degrees, MulTyped
  <1>3. 0 \in T
    BY <1>2, DoubledTurns
  <1>4. ASSUME NEW m \in 0 .. Degree[f] - 1, m \in T PROVE m + 1 \in T
    <2>1. m \in 0 .. Degree[f] /\ m + 1 \in 0 .. Degree[f]
      BY <1>2
    <2>2. /\ Doubled(f, m, u) \in Element(f)
          /\ Doubled(f, m + 1, u) = Double(f, Doubled(f, m, u))
          /\ Doubled(f, m + 1, Mul(f, u, v)) = Double(f, Doubled(f, m, Mul(f, u, v)))
      BY <1>2, <2>1, DoubledTurns
    <2> QED BY <1>1, <1>4, <2>1, <2>2
  <1>5. \A m \in 0 .. Degree[f] : m \in T
    <2> HIDE DEF T
    <2> QED BY <1>3, <1>4, RoundInduction
  <1> QED BY <1>5

LEMMA MulAssociates ==
  ASSUME NEW f \in DOMAIN Degree,
         NEW u \in Element(f), NEW v \in Element(f), NEW w \in Element(f)
  PROVE  Mul(f, Mul(f, u, v), w) = Mul(f, u, Mul(f, v, w))
  <1> DEFINE g == Times1(f, Mul(f, u, v))
             h == [t \in Element(f) |-> Mul(f, u, Mul(f, v, t))]
  <1>1. Mul(f, u, v) \in Element(f) /\ Additive(f, g)
    BY MulTyped, TimesAdditive
  <1>2. Additive(f, h)
    <2>1. SUFFICES ASSUME NEW s \in Element(f), NEW t \in Element(f)
                   PROVE  h[Add(s, t)] = Add(h[s], h[t])
      BY DEF Additive
    <2>2. /\ Add(s, t) \in Element(f) /\ Mul(f, v, s) \in Element(f) /\ Mul(f, v, t) \in Element(f)
      BY ElementTyped, MulTyped
    <2>3. Mul(f, v, Add(s, t)) = Add(Mul(f, v, s), Mul(f, v, t))
      BY MulAdds
    <2> QED BY <2>2, <2>3, MulAdds
  <1>3. \A k \in 0 .. Degree[f] - 1 : g[{k}] = h[{k}]
    <2>0. SUFFICES ASSUME NEW k \in 0 .. Degree[f] - 1
                   PROVE  Times1(f, Mul(f, u, v))[{k}] = Mul(f, u, Mul(f, v, {k}))
      BY Singletons
    <2>1. {k} \in Element(f) /\ k \in 0 .. Degree[f]
      BY Singletons
    <2>2. /\ Mul(f, Mul(f, u, v), {k}) = Doubled(f, k, Mul(f, u, v))
          /\ Mul(f, v, {k}) = Doubled(f, k, v) /\ Doubled(f, k, v) \in Element(f)
      BY <1>1, <2>1, MulSingle, DoubledTurns
    <2>3. Mul(f, u, Doubled(f, k, v)) = Mul(f, Doubled(f, k, v), u) /\ Mul(f, v, u) = Mul(f, u, v)
      BY <2>2, MulCommutes
    <2>4. Mul(f, Doubled(f, k, v), u) = Doubled(f, k, Mul(f, v, u))
      BY <2>1, MulDoubled
    <2>5. Times1(f, Mul(f, u, v))[{k}] = Mul(f, Mul(f, u, v), {k})
      BY <2>1 DEF Times1
    <2> QED BY <2>2, <2>3, <2>4, <2>5
  <1>4. g[w] = h[w]
    <2> HIDE DEF g, h
    <2>1. Additive(f, g) /\ Additive(f, h) /\ f \in DOMAIN Degree /\ w \in Element(f)
      BY <1>1, <1>2
    <2> QED BY <1>3, <2>1, Agree
  <1> QED BY <1>4 DEF Times1

LEMMA MulOne ==
  ASSUME NEW f \in DOMAIN Degree, NEW u \in Element(f)
  PROVE  /\ {0} \in Element(f) /\ Mul(f, u, {0}) = u /\ Mul(f, {0}, u) = u
         /\ Mul(f, u, {}) = {} /\ Mul(f, {}, u) = {}
  <1>1. 0 \in 0 .. Degree[f] - 1 /\ {0} \in Element(f) /\ {} \in Element(f)
    BY Degrees, Singletons, ElementTyped
  <1>2. Mul(f, u, {0}) = u
    BY <1>1, MulSingle, DoubledTurns
  <1>3. Mul(f, u, Add({}, {})) = Add(Mul(f, u, {}), Mul(f, u, {}))
    BY <1>1, MulAdds
  <1>4. Mul(f, u, {}) = {}
    BY <1>3, AddLaws
  <1> QED BY <1>1, <1>2, <1>4, MulCommutes

-----------------------------------------------------------------------------
(* The remainder *)

LEMMA ParityAdds ==
  ASSUME NEW S, NEW T, IsFiniteSet(S), IsFiniteSet(T)
  PROVE  Cardinality(Add(S, T)) % 2 = 1
           <=> ~ (Cardinality(S) % 2 = 1 <=> Cardinality(T) % 2 = 1)
  <1> DEFINE s == Cardinality(S)
             t == Cardinality(T)
             c == Cardinality(S \cap T)
  <1>1. IsFiniteSet(S \ T) /\ IsFiniteSet(T \ S) /\ IsFiniteSet(S \cap T)
    BY FS_Difference, FS_Intersection
  <1>2. Cardinality(S \ T) = s - c /\ Cardinality(T \ S) = t - c
    <2>1. T \cap S = S \cap T
      OBVIOUS
    <2> QED BY <2>1, FS_Difference
  <1>3. (S \ T) \cap (T \ S) = {} /\ Add(S, T) = (S \ T) \cup (T \ S)
    BY DEF Add
  <1>4. Cardinality(Add(S, T)) = (s - c) + (t - c)
    <2>1. Cardinality((S \ T) \cup (T \ S))
            = Cardinality(S \ T) + Cardinality(T \ S) - Cardinality((S \ T) \cap (T \ S))
      BY <1>1, FS_Union
    <2>2. Cardinality((S \ T) \cap (T \ S)) = 0
      BY <1>3, FS_EmptySet
    <2>3. s \in Nat /\ t \in Nat /\ c \in Nat
      BY <1>1, FS_CardinalityType
    <2> HIDE DEF s, t, c
    <2> QED BY <1>2, <1>3, <2>1, <2>2, <2>3
  <1>5. s \in Nat /\ t \in Nat /\ c \in Nat
    BY <1>1, FS_CardinalityType
  <1> HIDE DEF s, t, c
  <1>6. ((s - c) + (t - c)) % 2 = 1 <=> ~ (s % 2 = 1 <=> t % 2 = 1)
    BY <1>5
  <1> QED BY <1>4, <1>6 DEF s, t

LEMMA ElementFinite ==
  ASSUME NEW f \in DOMAIN Degree, NEW u \in Element(f), NEW v \in SUBSET u
  PROVE  IsFiniteSet(v)
  <1>1. IsFiniteSet(0 .. Degree[f] - 1) /\ v \subseteq 0 .. Degree[f] - 1
    BY Degrees, FS_Interval DEF Element
  <1> QED BY <1>1, FS_Subset

(* Where v, shifted, meets u. *)
Meets(k, u, v) == {i \in u : k - i \in v}

LEMMA PolynomialAdds ==
  ASSUME NEW f \in DOMAIN Degree,
         NEW u \in Element(f), NEW v \in Element(f), NEW w \in Element(f)
  PROVE  /\ PolynomialProduct(u, Add(v, w)) = Add(PolynomialProduct(u, v), PolynomialProduct(u, w))
         /\ PolynomialProduct(Add(v, w), u) = Add(PolynomialProduct(v, u), PolynomialProduct(w, u))
  <1>1. \A s, t : PolynomialProduct(s, t) = {k \in 0 .. 14 : Cardinality(Meets(k, s, t)) % 2 = 1}
    BY DEF PolynomialProduct, Meets
  <1>2. ASSUME NEW k
        PROVE  /\ Meets(k, u, Add(v, w)) = Add(Meets(k, u, v), Meets(k, u, w))
               /\ Meets(k, Add(v, w), u) = Add(Meets(k, v, u), Meets(k, w, u))
    BY DEF Meets, Add
  <1>3. ASSUME NEW k
        PROVE  /\ IsFiniteSet(Meets(k, u, v)) /\ IsFiniteSet(Meets(k, u, w))
               /\ IsFiniteSet(Meets(k, v, u)) /\ IsFiniteSet(Meets(k, w, u))
    <2>1. /\ Meets(k, u, v) \subseteq u /\ Meets(k, u, w) \subseteq u
          /\ Meets(k, v, u) \subseteq v /\ Meets(k, w, u) \subseteq w
      BY DEF Meets
    <2> QED BY <2>1, ElementFinite
  <1>4. ASSUME NEW k
        PROVE  /\ Cardinality(Meets(k, u, Add(v, w))) % 2 = 1
                     <=> ~ (Cardinality(Meets(k, u, v)) % 2 = 1 <=> Cardinality(Meets(k, u, w)) % 2 = 1)
               /\ Cardinality(Meets(k, Add(v, w), u)) % 2 = 1
                     <=> ~ (Cardinality(Meets(k, v, u)) % 2 = 1 <=> Cardinality(Meets(k, w, u)) % 2 = 1)
    BY <1>2, <1>3, ParityAdds
  <1>5. PolynomialProduct(u, Add(v, w)) = Add(PolynomialProduct(u, v), PolynomialProduct(u, w))
    BY <1>1, <1>4 DEF Add
  <1>6. PolynomialProduct(Add(v, w), u) = Add(PolynomialProduct(v, u), PolynomialProduct(w, u))
    BY <1>1, <1>4 DEF Add
  <1> QED BY <1>5, <1>6

Wide(f) == SUBSET (0 .. 2 * Degree[f] - 2)

LEMMA PolynomialTyped ==
  ASSUME NEW f \in DOMAIN Degree, NEW u \in Element(f), NEW v \in Element(f)
  PROVE  PolynomialProduct(u, v) \in Wide(f)
  <1>0. /\ Degree[f] \in Nat
        /\ \A k \in PolynomialProduct(u, v) :
             k \in 0 .. 14 /\ Cardinality({i \in u : k - i \in v}) % 2 = 1
    BY Degrees DEF PolynomialProduct
  <1>1. SUFFICES ASSUME NEW k \in 0 .. 14, Cardinality({i \in u : k - i \in v}) % 2 = 1
                 PROVE  k \in 0 .. 2 * Degree[f] - 2
    BY <1>0 DEF Wide
  <1>2. {i \in u : k - i \in v} # {}
    <2>1. Cardinality({}) = 0 /\ ~ (0 % 2 = 1)
      BY FS_EmptySet
    <2> QED BY <1>1, <2>1
  <1>3. PICK i \in u : k - i \in v
    BY <1>2
  <1>4. Degree[f] \in Nat /\ i \in 0 .. Degree[f] - 1 /\ k - i \in 0 .. Degree[f] - 1
    BY <1>3, Degrees DEF Element
  <1> QED BY <1>4

LEMMA PolynomialOfPowers ==
  ASSUME NEW f \in DOMAIN Degree, NEW i \in 0 .. Degree[f] - 1, NEW j \in 0 .. Degree[f] - 1
  PROVE  PolynomialProduct({i}, {j}) = {i + j}
  <1>1. i \in Nat /\ j \in Nat /\ i + j \in 0 .. 14
    BY Degrees
  <1>2. ASSUME NEW k \in 0 .. 14
        PROVE  Cardinality({n \in {i} : k - n \in {j}}) % 2 = 1 <=> k = i + j
    <2>1. CASE k = i + j
      <3>1. {n \in {i} : k - n \in {j}} = {i}
        <4>1. k - i = j
          BY <1>1, <2>1
        <4> QED BY <4>1
      <3>2. Cardinality({i}) = 1
        BY FS_Singleton
      <3>3. Cardinality({n \in {i} : k - n \in {j}}) = 1
        BY <3>1, <3>2
      <3> QED BY <2>1, <3>3
    <2>2. CASE k # i + j
      <3>1. {n \in {i} : k - n \in {j}} = {}
        BY <1>1, <2>2
      <3>2. Cardinality({}) = 0 /\ ~ (0 % 2 = 1)
        BY FS_EmptySet
      <3> QED BY <2>2, <3>1, <3>2
    <2> QED BY <2>1, <2>2
  <1> QED BY <1>1, <1>2 DEF PolynomialProduct

(* What a polynomial stands for in the field: its bits below the degree,   *)
(* and the others times what x^degree is reduced to.                       *)
Low(f, r) == {k \in r : k < Degree[f]}
High(f, r) == {k \in 0 .. Degree[f] - 1 : k + Degree[f] \in r}
Value(f, r) == Add(Low(f, r), Mul(f, Reduction[f], High(f, r)))

LEMMA ValueTyped ==
  ASSUME NEW f \in DOMAIN Degree, NEW r \in Wide(f)
  PROVE  /\ Low(f, r) \in Element(f) /\ High(f, r) \in Element(f)
         /\ Reduction[f] \in Element(f) /\ Value(f, r) \in Element(f)
  <1>0. Degree[f] \in Nat /\ r \subseteq 0 .. 2 * Degree[f] - 2
    BY Degrees DEF Wide
  <1>1. /\ Low(f, r) \in Element(f) /\ High(f, r) \in Element(f)
        /\ Reduction[f] \in Element(f)
    <2>1. \A k \in Low(f, r) : k \in 0 .. Degree[f] - 1
      BY <1>0 DEF Low
    <2> QED BY <2>1, Degrees DEF High, Element
  <1> QED BY <1>1, MulTyped, ElementTyped DEF Value

LEMMA ValueAdds ==
  ASSUME NEW f \in DOMAIN Degree, NEW r \in Wide(f), NEW s \in Wide(f)
  PROVE  Add(r, s) \in Wide(f) /\ Value(f, Add(r, s)) = Add(Value(f, r), Value(f, s))
  <1>1. Add(r, s) \in Wide(f)
    BY DEF Wide, Add
  <1>2. Low(f, Add(r, s)) = Add(Low(f, r), Low(f, s))
    BY DEF Low, Add
  <1>3. High(f, Add(r, s)) = Add(High(f, r), High(f, s))
    BY DEF High, Add
  <1>4. Mul(f, Reduction[f], Add(High(f, r), High(f, s)))
          = Add(Mul(f, Reduction[f], High(f, r)), Mul(f, Reduction[f], High(f, s)))
    BY ValueTyped, MulAdds
  <1> QED BY <1>1, <1>2, <1>3, <1>4, AddSwap DEF Value

LEMMA ValueOfElement ==
  ASSUME NEW f \in DOMAIN Degree, NEW u \in Element(f)
  PROVE  u \in Wide(f) /\ Value(f, u) = u
  <1>0. Degree[f] \in Nat /\ u \subseteq 0 .. Degree[f] - 1
    BY Degrees DEF Element
  <1>1. u \in Wide(f) /\ Low(f, u) = u /\ High(f, u) = {}
    <2>1. \A k \in u : k \in 0 .. 2 * Degree[f] - 2 /\ k < Degree[f]
      BY <1>0
    <2>2. \A k \in 0 .. Degree[f] - 1 : k + Degree[f] \notin u
      BY <1>0
    <2> QED BY <2>1, <2>2 DEF Wide, Low, High
  <1>2. Mul(f, Reduction[f], {}) = {}
    BY <1>1, ValueTyped, MulOne
  <1> QED BY <1>1, <1>2, AddLaws DEF Value

LEMMA ValueOfHigh ==
  ASSUME NEW f \in DOMAIN Degree, NEW t \in 0 .. Degree[f] - 2
  PROVE  {Degree[f] + t} \in Wide(f) /\ Value(f, {Degree[f] + t}) = Doubled(f, t, Reduction[f])
  <1>1. Degree[f] \in Nat /\ t \in 0 .. Degree[f] - 1 /\ {Degree[f] + t} \in Wide(f)
    BY Degrees DEF Wide
  <1>2. Low(f, {Degree[f] + t}) = {} /\ High(f, {Degree[f] + t}) = {t}
    BY <1>1 DEF Low, High
  <1>3. Mul(f, Reduction[f], {t}) = Doubled(f, t, Reduction[f])
    BY <1>1, ValueTyped, MulSingle
  <1> QED BY <1>1, <1>2, <1>3, AddLaws DEF Value

LEMMA ValueOfPower ==
  ASSUME NEW f \in DOMAIN Degree, NEW t \in 0 .. Degree[f] - 1, NEW k \in 0 .. Degree[f] - 1
  PROVE  {k + t} \in Wide(f) /\ Value(f, {k + t}) = Doubled(f, t, {k})
  <1> DEFINE T == {n \in 0 .. Degree[f] : n < Degree[f] =>
                     \A i \in 0 .. Degree[f] - 1 : Value(f, {i + n}) = Doubled(f, n, {i})}
  <1>1. Degree[f] \in Nat /\ Degree[f] - 1 \in 0 .. Degree[f] - 1 /\ {k + t} \in Wide(f)
    BY Degrees DEF Wide
  <1>2. 0 \in T
    <2>1. ASSUME NEW i \in 0 .. Degree[f] - 1 PROVE Value(f, {i + 0}) = Doubled(f, 0, {i})
      <3>1. i + 0 = i /\ {i} \in Element(f)
        BY Singletons
      <3> QED BY <3>1, ValueOfElement, DoubledTurns
    <2> QED BY <1>1, <2>1
  <1>3. ASSUME NEW n \in 0 .. Degree[f] - 1, n \in T PROVE n + 1 \in T
    <2>0. n + 1 \in 0 .. Degree[f] /\ n \in 0 .. Degree[f]
      BY <1>1
    <2>1. SUFFICES ASSUME n + 1 < Degree[f], NEW i \in 0 .. Degree[f] - 1
                   PROVE  Value(f, {i + (n + 1)}) = Doubled(f, n + 1, {i})
      BY <2>0
    <2>2. {i} \in Element(f) /\ Double(f, {i}) \in Element(f)
      BY Singletons, ElementTyped
    <2>3. Doubled(f, n + 1, {i}) = Doubled(f, n, Double(f, {i}))
      BY <2>0, <2>2, DoubledTurns, DoubledAdds
    <2>4. CASE i + 1 < Degree[f]
      <3>1. Double(f, {i}) = {i + 1}
        BY <2>4, DoubleBit
      <3>2. Value(f, {(i + 1) + n}) = Doubled(f, n, {i + 1})
        <4>1. i + 1 \in 0 .. Degree[f] - 1 /\ n < Degree[f]
          BY <1>1, <2>4
        <4> QED BY <1>3, <4>1
      <3>3. (i + 1) + n = i + (n + 1)
        BY <1>1
      <3> QED BY <2>3, <3>1, <3>2, <3>3
    <2>5. CASE ~ (i + 1 < Degree[f])
      <3>1. i = Degree[f] - 1 /\ i + (n + 1) = Degree[f] + n /\ n \in 0 .. Degree[f] - 2
        BY <1>1, <2>1, <2>5
      <3>2. Double(f, {i}) = Reduction[f]
        BY <2>5, DoubleBit
      <3> QED BY <2>3, <3>1, <3>2, ValueOfHigh
    <2> QED BY <2>4, <2>5
  <1>4. \A n \in 0 .. Degree[f] : n \in T
    <2> HIDE DEF T
    <2> QED BY <1>2, <1>3, RoundInduction
  <1>5. t \in T /\ t < Degree[f]
    BY <1>1, <1>4
  <1> QED BY <1>1, <1>5

(* The loop computes what the product of the polynomials stands for.       *)
LEMMA MulIsValue ==
  ASSUME NEW f \in DOMAIN Degree, NEW u \in Element(f), NEW v \in Element(f)
  PROVE  Mul(f, u, v) = Value(f, PolynomialProduct(u, v))
  <1> DEFINE V1(s) == [w \in Element(f) |-> Value(f, PolynomialProduct(s, w))]
             V2(s) == [w \in Element(f) |-> Value(f, PolynomialProduct(w, s))]
  <1>1. ASSUME NEW s \in Element(f) PROVE Additive(f, V1(s)) /\ Additive(f, V2(s))
    <2>1. SUFFICES ASSUME NEW w \in Element(f), NEW t \in Element(f)
          PROVE  /\ V1(s)[Add(w, t)] = Add(V1(s)[w], V1(s)[t])
                 /\ V2(s)[Add(w, t)] = Add(V2(s)[w], V2(s)[t])
      BY DEF Additive
    <2>2. /\ Add(w, t) \in Element(f)
          /\ PolynomialProduct(s, w) \in Wide(f) /\ PolynomialProduct(s, t) \in Wide(f)
          /\ PolynomialProduct(w, s) \in Wide(f) /\ PolynomialProduct(t, s) \in Wide(f)
      BY ElementTyped, PolynomialTyped
    <2>3. /\ PolynomialProduct(s, Add(w, t)) = Add(PolynomialProduct(s, w), PolynomialProduct(s, t))
          /\ PolynomialProduct(Add(w, t), s) = Add(PolynomialProduct(w, s), PolynomialProduct(t, s))
      BY PolynomialAdds
    <2> QED BY <2>2, <2>3, ValueAdds
  <1>2. ASSUME NEW i \in 0 .. Degree[f] - 1, NEW j \in 0 .. Degree[f] - 1
        PROVE  Mul(f, {i}, {j}) = Value(f, PolynomialProduct({i}, {j}))
    <2>1. {i} \in Element(f)
      BY Singletons
    <2>2. Mul(f, {i}, {j}) = Doubled(f, j, {i})
      BY <2>1, MulSingle
    <2> QED BY <2>2, PolynomialOfPowers, ValueOfPower
  <1>3. ASSUME NEW j \in 0 .. Degree[f] - 1
        PROVE  Mul(f, u, {j}) = Value(f, PolynomialProduct(u, {j}))
    <2> DEFINE g == Times2(f, {j})
               h == V2({j})
    <2>1. {j} \in Element(f) /\ \A k \in 0 .. Degree[f] - 1 : {k} \in Element(f)
      BY Singletons
    <2>2. \A k \in 0 .. Degree[f] - 1 : g[{k}] = h[{k}]
      BY <1>2, <2>1 DEF Times2
    <2>3. Additive(f, g) /\ Additive(f, h)
      BY <1>1, <2>1, TimesAdditive
    <2>4. g[u] = h[u]
      <3> HIDE DEF g, h
      <3> QED BY <2>2, <2>3, Agree
    <2> QED BY <2>4 DEF Times2
  <1> DEFINE g == Times1(f, u)
             h == V1(u)
  <1>4. \A k \in 0 .. Degree[f] - 1 : g[{k}] = h[{k}]
    BY <1>3, Singletons DEF Times1
  <1>5. Additive(f, g) /\ Additive(f, h)
    BY <1>1, TimesAdditive
  <1>6. g[v] = h[v]
    <2> HIDE DEF g, h
    <2> QED BY <1>4, <1>5, Agree
  <1> QED BY <1>6 DEF Times1

(* Multiples of the modulus stand for zero. *)
LEMMA ModulusVanishes ==
  ASSUME NEW f \in DOMAIN Degree, NEW t \in 0 .. Degree[f] - 2
  PROVE  LET shifted == {k + t : k \in Reduction[f] \cup {Degree[f]}}
         IN shifted \in Wide(f) /\ Value(f, shifted) = {}
  <1> DEFINE Shift(w) == {k + t : k \in w}
             g == [w \in Element(f) |-> Value(f, Shift(w))]
             h == [w \in Element(f) |-> Doubled(f, t, w)]
  <1>1. /\ Degree[f] \in Nat /\ t \in 0 .. Degree[f] - 1 /\ t \in 0 .. Degree[f]
        /\ Reduction[f] \in Element(f) /\ Degree[f] \notin Reduction[f]
    BY Degrees DEF Element
  <1>2. ASSUME NEW w \in Element(f) PROVE Shift(w) \in Wide(f)
    BY <1>1 DEF Element, Wide
  <1>3. \A v, w \in SUBSET Int : Shift(Add(v, w)) = Add(Shift(v), Shift(w))
    <2>1. ASSUME NEW v \in SUBSET Int, NEW n PROVE n \in Shift(v) <=> n \in Int /\ n - t \in v
      <3>1. \A k \in v : n = k + t <=> n \in Int /\ n - t = k
        BY <1>1
      <3> QED BY <3>1
    <2>2. SUFFICES ASSUME NEW v \in SUBSET Int, NEW w \in SUBSET Int, NEW n
                   PROVE  n \in Shift(Add(v, w)) <=> n \in Add(Shift(v), Shift(w))
      OBVIOUS
    <2>3. Add(v, w) \in SUBSET Int
      BY DEF Add
    <2> HIDE DEF Shift
    <2> QED BY <2>1, <2>3 DEF Add
  <1>4. \A w \in Element(f) : w \in SUBSET Int
    BY <1>1 DEF Element
  <1>5. Additive(f, g)
    <2>1. SUFFICES ASSUME NEW v \in Element(f), NEW w \in Element(f)
                   PROVE  g[Add(v, w)] = Add(g[v], g[w])
      BY DEF Additive
    <2>2. Add(v, w) \in Element(f) /\ Shift(Add(v, w)) = Add(Shift(v), Shift(w))
      BY <1>3, <1>4, ElementTyped
    <2>3. Shift(v) \in Wide(f) /\ Shift(w) \in Wide(f)
      BY <1>2
    <2> HIDE DEF Shift
    <2> QED BY <2>2, <2>3, ValueAdds
  <1>6. Additive(f, h)
    <2>1. SUFFICES ASSUME NEW v \in Element(f), NEW w \in Element(f)
                   PROVE  h[Add(v, w)] = Add(h[v], h[w])
      BY DEF Additive
    <2>2. Add(v, w) \in Element(f)
      BY ElementTyped
    <2> QED BY <1>1, <2>2, DoubledAdds
  <1>7. \A k \in 0 .. Degree[f] - 1 : g[{k}] = h[{k}]
    <2>1. SUFFICES ASSUME NEW k \in 0 .. Degree[f] - 1
                   PROVE  Value(f, Shift({k})) = Doubled(f, t, {k})
      BY Singletons
    <2>2. Shift({k}) = {k + t}
      OBVIOUS
    <2> HIDE DEF Shift
    <2> QED BY <1>1, <2>2, ValueOfPower
  <1>8. g[Reduction[f]] = h[Reduction[f]]
    <2>1. Reduction[f] \in Element(f)
      BY <1>1
    <2> HIDE DEF g, h
    <2> QED BY <2>1, <1>5, <1>6, <1>7, Agree
  <1>9. Value(f, Shift(Reduction[f])) = Doubled(f, t, Reduction[f])
    BY <1>1, <1>8
  <1>10. /\ Shift({Degree[f]}) = {Degree[f] + t}
         /\ Reduction[f] \cup {Degree[f]} = Add(Reduction[f], {Degree[f]})
    BY <1>1 DEF Add
  <1>11. Shift(Reduction[f] \cup {Degree[f]}) = Add(Shift(Reduction[f]), {Degree[f] + t})
    <2>1. Reduction[f] \in SUBSET Int /\ {Degree[f]} \in SUBSET Int
      BY <1>1, <1>4
    <2> HIDE DEF Shift
    <2> QED BY <1>3, <1>10, <2>1
  <1>12. {Degree[f] + t} \in Wide(f) /\ Value(f, {Degree[f] + t}) = Doubled(f, t, Reduction[f])
    BY ValueOfHigh
  <1>13. Shift(Reduction[f]) \in Wide(f)
    BY <1>1, <1>2
  <1>14. /\ Shift(Reduction[f] \cup {Degree[f]}) \in Wide(f)
         /\ Value(f, Shift(Reduction[f] \cup {Degree[f]})) = {}
    <2> DEFINE r == Shift(Reduction[f])
               s == {Degree[f] + t}
    <2>1. Value(f, r) = Value(f, s) /\ r \in Wide(f) /\ s \in Wide(f)
      BY <1>9, <1>12, <1>13
    <2> HIDE DEF r, s
    <2>2. Add(r, s) \in Wide(f) /\ Value(f, Add(r, s)) = {}
      BY <2>1, ValueAdds, AddLaws
    <2>3. Shift(Reduction[f] \cup {Degree[f]}) = Add(r, s)
      BY <1>11 DEF r, s
    <2> HIDE DEF Shift
    <2> QED BY <2>2, <2>3
  <1> QED BY <1>14

LEMMA DivideKeeps ==
  ASSUME NEW f \in DOMAIN Degree, NEW r \in Wide(f), NEW top \in Nat,
         \A k \in r : k <= top \/ k < Degree[f]
  PROVE  /\ Divide(f, top, r) \in Wide(f) /\ Value(f, Divide(f, top, r)) = Value(f, r)
         /\ \A k \in Divide(f, top, r) : k <= top - 1 \/ k < Degree[f]
  <1>1. Degree[f] \in Nat /\ r \subseteq 0 .. 2 * Degree[f] - 2
    BY Degrees DEF Wide
  <1>2. CASE top \in r /\ top >= Degree[f]
    <2> DEFINE t == top - Degree[f]
               shifted == {k + t : k \in Reduction[f] \cup {Degree[f]}}
    <2>1. t \in 0 .. Degree[f] - 2
      BY <1>1, <1>2
    <2>2. shifted \in Wide(f) /\ Value(f, shifted) = {}
      <3> HIDE DEF t
      <3> QED BY <2>1, ModulusVanishes
    <2>3. Divide(f, top, r) = Add(r, shifted)
      BY <1>2 DEF Divide
    <2>4. top \in shifted /\ \A k \in shifted : k <= top
      <3>1. Degree[f] + t = top /\ \A k \in Reduction[f] : k \in Int /\ k + t <= top
        BY <1>1, <2>1, Degrees
      <3> HIDE DEF t
      <3> QED BY <3>1
    <2> HIDE DEF shifted
    <2>5. Divide(f, top, r) \in Wide(f) /\ Value(f, Divide(f, top, r)) = Value(f, r)
      <3>1. Add(r, shifted) \in Wide(f) /\ Value(f, Add(r, shifted)) = Add(Value(f, r), {})
        BY <2>2, ValueAdds
      <3> QED BY <2>3, <3>1, AddLaws
    <2>6. ASSUME NEW k \in Add(r, shifted) PROVE k <= top - 1 \/ k < Degree[f]
      <3>1. k # top /\ (k \in r \/ k \in shifted)
        BY <1>2, <2>4 DEF Add
      <3>2. \A i \in shifted : i \in Int
        BY <1>1, <2>2 DEF Wide
      <3>3. k \in Int /\ (k <= top \/ k < Degree[f])
        <4>1. CASE k \in r
          BY <1>1, <4>1
        <4>2. CASE k \in shifted
          BY <2>4, <3>2, <4>2
        <4> QED BY <3>1, <4>1, <4>2
      <3> QED BY <3>1, <3>3
    <2> QED BY <2>3, <2>5, <2>6
  <1>3. CASE ~ (top \in r /\ top >= Degree[f])
    <2>1. Divide(f, top, r) = r
      BY <1>3 DEF Divide
    <2>2. ASSUME NEW k \in r PROVE k <= top - 1 \/ k < Degree[f]
      <3>1. k \in Int /\ (k = top => k < Degree[f])
        BY <1>1, <1>3
      <3> QED BY <3>1
    <2> QED BY <2>1, <2>2
  <1> QED BY <1>2, <1>3

Divided(f, u) ==
  LET divided[n \in 0 .. 11] ==
        IF n = 0 THEN u ELSE Divide(f, 15 - n, divided[n - 1])
  IN divided

(* Long division ends with the element that the polynomial stands for.     *)
LEMMA RemainderIsValue ==
  ASSUME NEW f \in DOMAIN Degree, NEW u \in Wide(f)
  PROVE  Remainder(f, u) = Value(f, u)
  <1> DEFINE Runs(g) == g = [n \in 0 .. 11 |-> IF n = 0 THEN u ELSE Divide(f, 15 - n, g[n - 1])]
             step == [p \in Nat \X SUBSET Int |-> Divide(f, 15 - p[1], p[2])]
  <1>1. step \in [Nat \X SUBSET Int -> SUBSET Int]
    <2>1. SUFFICES ASSUME NEW r \in SUBSET Int, NEW n \in Nat
                   PROVE  Divide(f, 15 - n, r) \in SUBSET Int
      OBVIOUS
    <2>2. Degree[f] \in Nat /\ \A k \in Reduction[f] \cup {Degree[f]} : k \in Int
      BY Degrees
    <2>3. {k + (15 - n - Degree[f]) : k \in Reduction[f] \cup {Degree[f]}} \in SUBSET Int
      BY <2>2
    <2> QED BY <2>3 DEF Divide, Add
  <1>2. \E g : Recurses(g, SUBSET Int, u, step, 11)
    <2>1. 11 \in Nat /\ u \in SUBSET Int
      BY Degrees DEF Wide
    <2> HIDE DEF step
    <2> QED BY <1>1, <2>1, RecursionExists
  <1>3. PICK g : g \in [0 .. 11 -> SUBSET Int] /\ g[0] = u
                 /\ \A n \in 1 .. 11 : g[n] = step[<<n, g[n - 1]>>]
    BY <1>2 DEF Recurses
  <1>4. Runs(g)
    <2>1. \A n \in 0 .. 11 : g[n] = IF n = 0 THEN u ELSE Divide(f, 15 - n, g[n - 1])
      <3>1. SUFFICES ASSUME NEW n \in 0 .. 11, n # 0 PROVE g[n] = Divide(f, 15 - n, g[n - 1])
        BY <1>3
      <3>2. n \in 1 .. 11 /\ n \in Nat /\ g[n - 1] \in SUBSET Int
        BY <1>3, <3>1
      <3> QED BY <1>3, <3>2
    <2>2. g = [n \in 0 .. 11 |-> g[n]]
      BY <1>3
    <2> QED BY <2>1, <2>2
  <1> DEFINE h == Divided(f, u)
  <1>5. h = CHOOSE e : Runs(e)
    BY DEF Divided
  <1>6. Runs(h)
    <2> HIDE DEF Runs, h
    <2> QED BY <1>4, <1>5
  <1>7. \A n \in 0 .. 11 : h[n] = IF n = 0 THEN u ELSE Divide(f, 15 - n, h[n - 1])
    BY <1>6
  <1>8. Remainder(f, u) = h[11]
    BY DEF Remainder, Divided
  <1> HIDE DEF h
  <1> DEFINE Bounded(r, n) == \A k \in r : k <= 14 - n \/ k < Degree[f]
             Fine(n) == h[n] \in Wide(f) /\ Value(f, h[n]) = Value(f, u) /\ Bounded(h[n], n)
             Good == {n \in Nat : n <= 11 => Fine(n)}
  <1>9. 0 \in Good
    <2>1. h[0] = u
      BY <1>7
    <2>2. Bounded(u, 0)
      BY Degrees DEF Wide
    <2> QED BY <2>1, <2>2
  <1>10. ASSUME NEW n \in Nat, n \in Good PROVE n + 1 \in Good
    <2> DEFINE r == h[n]
               top == 15 - (n + 1)
    <2>1. SUFFICES ASSUME n + 1 <= 11 PROVE Fine(n + 1)
      OBVIOUS
    <2>2. /\ top \in Nat /\ top = 14 - n /\ top - 1 = 14 - (n + 1) /\ n + 1 \in 0 .. 11
          /\ n + 1 # 0 /\ (n + 1) - 1 = n
      BY <2>1
    <2>3. r \in Wide(f) /\ Value(f, r) = Value(f, u) /\ \A k \in r : k <= top \/ k < Degree[f]
      BY <1>10, <2>1, <2>2
    <2>4. /\ Divide(f, top, r) \in Wide(f) /\ Value(f, Divide(f, top, r)) = Value(f, r)
          /\ \A k \in Divide(f, top, r) : k <= top - 1 \/ k < Degree[f]
      <3> HIDE DEF r, top
      <3> QED BY <2>2, <2>3, DivideKeeps
    <2>5. h[n + 1] = Divide(f, top, r)
      BY <1>7, <2>2
    <2> QED BY <2>2, <2>3, <2>4, <2>5
  <1>11. \A n \in Nat : n \in Good
    <2> HIDE DEF Good
    <2> QED BY <1>9, <1>10, Sets!NatSetInduction
  <1>12. Fine(11)
    BY <1>11
  <1>13. h[11] \in Element(f)
    BY <1>12, Degrees DEF Wide, Element
  <1> QED BY <1>8, <1>12, <1>13, ValueOfElement

LEMMA MulIsRemainder ==
  ASSUME NEW f \in DOMAIN Degree, NEW u \in Element(f), NEW v \in Element(f)
  PROVE  Mul(f, u, v) = Remainder(f, PolynomialProduct(u, v))
  BY MulIsValue, PolynomialTyped, RemainderIsValue

-----------------------------------------------------------------------------
(* The embedding *)

LEMMA Tabled ==
  ASSUME NEW f \in DOMAIN Degree, NEW u \in Element(f), NEW v \in Element(f)
  PROVE  Table[f][u][v] = Mul(f, u, v) /\ Product(f, u, v) = Mul(f, u, v)
  <1>1. Table[f][u][v] = Mul(f, u, v)
    BY DEF Table
  <1> QED BY <1>1, Degrees DEF Product

LEMMA Tabled256 ==
  ASSUME NEW u \in Element("gf256"), NEW v \in Element("gf256")
  PROVE  Mul256(u, v) = Mul("gf256", u, v)
  BY Tabled DEF Mul256, Degree

LEMMA Names ==
  /\ "gf16" \in DOMAIN Degree /\ "gf256" \in DOMAIN Degree
  /\ DOMAIN Degree = {"gf16", "gf256"} /\ Degree["gf16"] = 4 /\ Degree["gf256"] = 8
  BY DEF Degree

(* The images of the powers of x. *)
Image == <<{0}, {5, 6, 7}, {0, 2, 3, 4, 6}, {4, 5, 7}>>
Hits(k, u) == {i \in u : k \in Image[i + 1]}

LEMMA EmbedParity ==
  ASSUME NEW u PROVE Embed(u) = {k \in 0 .. 7 : Cardinality(Hits(k, u)) % 2 = 1}
  BY DEF Embed, Hits, Image

LEMMA EmbedAdds ==
  ASSUME NEW u \in Element("gf16"), NEW v \in Element("gf16")
  PROVE  Embed(u) \in Element("gf256") /\ Embed(Add(u, v)) = Add(Embed(u), Embed(v))
  <1>1. ASSUME NEW k
        PROVE  Cardinality(Hits(k, Add(u, v))) % 2 = 1
                 <=> ~ (Cardinality(Hits(k, u)) % 2 = 1 <=> Cardinality(Hits(k, v)) % 2 = 1)
    <2>1. Hits(k, u) \subseteq u /\ Hits(k, v) \subseteq v
      BY DEF Hits
    <2>2. IsFiniteSet(Hits(k, u)) /\ IsFiniteSet(Hits(k, v))
      BY <2>1, ElementFinite, Names
    <2>3. Hits(k, Add(u, v)) = Add(Hits(k, u), Hits(k, v))
      BY DEF Hits, Add
    <2> QED BY <2>2, <2>3, ParityAdds
  <1>2. Embed(Add(u, v)) = Add(Embed(u), Embed(v))
    BY <1>1, EmbedParity DEF Add
  <1>3. Embed(u) \subseteq 0 .. 7
    BY EmbedParity
  <1> QED BY <1>2, <1>3, Names DEF Element

LEMMA EmbedPower ==
  ASSUME NEW i \in 0 .. 3
  PROVE  {i} \in Element("gf16") /\ Embed({i}) = Image[i + 1]
  <1>1. ASSUME NEW k \in 0 .. 7
        PROVE  Cardinality(Hits(k, {i})) % 2 = 1 <=> k \in Image[i + 1]
    <2>1. CASE k \in Image[i + 1]
      <3>1. Hits(k, {i}) = {i}
        BY <2>1 DEF Hits
      <3>2. Cardinality(Hits(k, {i})) = 1
        BY <3>1, FS_Singleton
      <3> QED BY <2>1, <3>2
    <2>2. CASE k \notin Image[i + 1]
      <3>1. Hits(k, {i}) = {}
        BY <2>2 DEF Hits
      <3>2. Cardinality(Hits(k, {i})) = 0
        BY <3>1, FS_EmptySet
      <3> QED BY <2>2, <3>2
    <2> QED BY <2>1, <2>2
  <1>2. Image[i + 1] \subseteq 0 .. 7
    BY DEF Image
  <1>3. Embed({i}) = Image[i + 1]
    BY <1>1, <1>2, EmbedParity
  <1>4. {i} \in Element("gf16")
    BY Singletons, Names
  <1> QED BY <1>3, <1>4

(* The bits of a doubled element of the middle field. *)
LEMMA DoubleBits ==
  ASSUME NEW u \in Element("gf256")
  PROVE  Double("gf256", u)
           = {k \in 0 .. 7 : (k - 1 \in u) # (7 \in u /\ k \in {0, 1, 3, 4})}
  <1>1. u \subseteq 0 .. 7 /\ Degree["gf256"] - 1 = 7 /\ Reduction["gf256"] = {0, 1, 3, 4}
    BY DEF Element, Degree, Reduction
  <1>2. Double("gf256", u) = Add({k + 1 : k \in u \ {7}}, IF 7 \in u THEN {0, 1, 3, 4} ELSE {})
    BY <1>1 DEF Double
  <1>3. {k + 1 : k \in u \ {7}} = {k \in 0 .. 7 : k - 1 \in u}
    <2>1. ASSUME NEW n PROVE n \in {k + 1 : k \in u \ {7}} <=> n \in 0 .. 7 /\ n - 1 \in u
      <3>1. ASSUME NEW k \in u, k # 7 PROVE k \in 0 .. 6
        <4>1. k \in 0 .. 7
          BY <1>1
        <4> QED BY <3>1, <4>1
      <3>2. \A k \in u \ {7} : n = k + 1 => n \in 0 .. 7 /\ n - 1 = k
        BY <3>1
      <3>3. n \in 0 .. 7 /\ n - 1 \in u => n - 1 \in u \ {7} /\ n = (n - 1) + 1
        OBVIOUS
      <3> QED BY <3>2, <3>3
    <2> QED BY <2>1
  <1> QED BY <1>2, <1>3 DEF Add

(* x times the image of x, up to x^7. *)
LEMMA ImageDoubled ==
  /\ {5, 6, 7} \in Element("gf256")
  /\ Doubled("gf256", 0, {5, 6, 7}) = {5, 6, 7}
  /\ Doubled("gf256", 1, {5, 6, 7}) = {0, 1, 3, 4, 6, 7}
  /\ Doubled("gf256", 2, {5, 6, 7}) = {0, 2, 3, 5, 7}
  /\ Doubled("gf256", 3, {5, 6, 7}) = {0, 6}
  /\ Doubled("gf256", 4, {5, 6, 7}) = {1, 7}
  /\ Doubled("gf256", 5, {5, 6, 7}) = {0, 1, 2, 3, 4}
  /\ Doubled("gf256", 6, {5, 6, 7}) = {1, 2, 3, 4, 5}
  /\ Doubled("gf256", 7, {5, 6, 7}) = {2, 3, 4, 5, 6}
  <1> DEFINE g(n) == Doubled("gf256", n, {5, 6, 7})
  <1>1. \A u \in SUBSET (0 .. 7) : u \in Element("gf256")
    BY Names DEF Element
  <1>2. {5, 6, 7} \in Element("gf256")
    BY <1>1
  <1>3. g(0) = {5, 6, 7} /\ \A n \in 0 .. 7 : g(n + 1) = Double("gf256", g(n))
    BY <1>2, DoubledTurns, Names
  <1>4. /\ g(1) = Double("gf256", g(0)) /\ g(2) = Double("gf256", g(1))
        /\ g(3) = Double("gf256", g(2)) /\ g(4) = Double("gf256", g(3))
        /\ g(5) = Double("gf256", g(4)) /\ g(6) = Double("gf256", g(5))
        /\ g(7) = Double("gf256", g(6))
    <2> HIDE DEF g
    <2> QED BY <1>3
  <1>5. Double("gf256", {5, 6, 7}) = {0, 1, 3, 4, 6, 7}
    BY <1>1, DoubleBits
  <1>6. Double("gf256", {0, 1, 3, 4, 6, 7}) = {0, 2, 3, 5, 7}
    BY <1>1, DoubleBits
  <1>7. Double("gf256", {0, 2, 3, 5, 7}) = {0, 6}
    BY <1>1, DoubleBits
  <1>8. Double("gf256", {0, 6}) = {1, 7}
    BY <1>1, DoubleBits
  <1>9. Double("gf256", {1, 7}) = {0, 1, 2, 3, 4}
    BY <1>1, DoubleBits
  <1>10. Double("gf256", {0, 1, 2, 3, 4}) = {1, 2, 3, 4, 5}
    BY <1>1, DoubleBits
  <1>11. Double("gf256", {1, 2, 3, 4, 5}) = {2, 3, 4, 5, 6}
    BY <1>1, DoubleBits
  <1> HIDE DEF g
  <1>12. /\ g(0) = {5, 6, 7} /\ g(1) = {0, 1, 3, 4, 6, 7} /\ g(2) = {0, 2, 3, 5, 7}
         /\ g(3) = {0, 6} /\ g(4) = {1, 7} /\ g(5) = {0, 1, 2, 3, 4}
         /\ g(6) = {1, 2, 3, 4, 5} /\ g(7) = {2, 3, 4, 5, 6}
    BY <1>3, <1>4, <1>5, <1>6, <1>7, <1>8, <1>9, <1>10, <1>11
  <1> QED BY <1>2, <1>12 DEF g

(* The image of x takes each image to the next, as x takes the powers.     *)
LEMMA ImageProducts ==
  /\ \A i \in 1 .. 4 : Image[i] \in Element("gf256")
  /\ Mul("gf256", {5, 6, 7}, {0}) = {5, 6, 7}
  /\ Mul("gf256", {5, 6, 7}, {5, 6, 7}) = {0, 2, 3, 4, 6}
  /\ Mul("gf256", {5, 6, 7}, {0, 2, 3, 4, 6}) = {4, 5, 7}
  /\ Mul("gf256", {5, 6, 7}, {4, 5, 7}) = {0, 5, 6, 7}
  <1> DEFINE g(u) == Mul("gf256", {5, 6, 7}, u)
  <1>1. \A u \in SUBSET (0 .. 7) : u \in Element("gf256")
    BY Names DEF Element
  <1>2. {5, 6, 7} \in Element("gf256")
    BY <1>1
  <1>3. \A u, v \in SUBSET (0 .. 7) : g(Add(u, v)) = Add(g(u), g(v))
    BY <1>1, <1>2, MulAdds, Names
  <1>4. ASSUME NEW k \in 0 .. 7 PROVE g({k}) = Doubled("gf256", k, {5, 6, 7})
    <2>1. k \in 0 .. Degree["gf256"] - 1
      BY Names
    <2> QED BY <1>2, <2>1, MulSingle, Names
  <1> HIDE DEF g
  <1> HIDE DEF g
  <1>5. /\ g({0}) = {5, 6, 7} /\ g({1}) = {0, 1, 3, 4, 6, 7} /\ g({2}) = {0, 2, 3, 5, 7}
        /\ g({3}) = {0, 6} /\ g({4}) = {1, 7} /\ g({5}) = {0, 1, 2, 3, 4}
        /\ g({6}) = {1, 2, 3, 4, 5} /\ g({7}) = {2, 3, 4, 5, 6}
    BY <1>4, ImageDoubled
  <1>6. g({5, 6, 7}) = {0, 2, 3, 4, 6}
    <2>1. g({5, 6}) = Add({0, 1, 2, 3, 4}, {1, 2, 3, 4, 5})
      <3>1. {5, 6} = Add({5}, {6})
        BY DEF Add
      <3>2. g(Add({5}, {6})) = Add(g({5}), g({6}))
        BY <1>3
      <3> QED BY <1>5, <3>1, <3>2
    <2>2. g({5, 6, 7}) = Add(Add({0, 1, 2, 3, 4}, {1, 2, 3, 4, 5}), {2, 3, 4, 5, 6})
      <3>1. {5, 6, 7} = Add({5, 6}, {7})
        BY DEF Add
      <3>2. g(Add({5, 6}, {7})) = Add(g({5, 6}), g({7}))
        BY <1>3
      <3> QED BY <1>5, <2>1, <3>1, <3>2
    <2> QED BY <2>2 DEF Add
  <1>7. g({0, 2, 3, 4, 6}) = {4, 5, 7}
    <2>1. g({0, 2}) = {0, 2, 3, 6}
      <3>1. {0, 2} = Add({0}, {2}) /\ {0, 2, 3, 6} = Add({5, 6, 7}, {0, 2, 3, 5, 7})
        BY DEF Add
      <3>2. g(Add({0}, {2})) = Add(g({0}), g({2}))
        BY <1>3
      <3> QED BY <1>5, <3>1, <3>2
    <2>2. g({0, 2, 3}) = {2, 3}
      <3>1. {0, 2, 3} = Add({0, 2}, {3}) /\ {2, 3} = Add({0, 2, 3, 6}, {0, 6})
        BY DEF Add
      <3>2. g(Add({0, 2}, {3})) = Add(g({0, 2}), g({3}))
        BY <1>3
      <3> QED BY <1>5, <2>1, <3>1, <3>2
    <2>3. g({0, 2, 3, 4}) = {1, 2, 3, 7}
      <3>1. {0, 2, 3, 4} = Add({0, 2, 3}, {4}) /\ {1, 2, 3, 7} = Add({2, 3}, {1, 7})
        BY DEF Add
      <3>2. g(Add({0, 2, 3}, {4})) = Add(g({0, 2, 3}), g({4}))
        BY <1>3
      <3> QED BY <1>5, <2>2, <3>1, <3>2
    <2>4. {0, 2, 3, 4, 6} = Add({0, 2, 3, 4}, {6}) /\ {4, 5, 7} = Add({1, 2, 3, 7}, {1, 2, 3, 4, 5})
      BY DEF Add
    <2>5. g(Add({0, 2, 3, 4}, {6})) = Add(g({0, 2, 3, 4}), g({6}))
      BY <1>3
    <2> QED BY <1>5, <2>3, <2>4, <2>5
  <1>8. g({4, 5, 7}) = {0, 5, 6, 7}
    <2>1. g({4, 5}) = {0, 2, 3, 4, 7}
      <3>1. {4, 5} = Add({4}, {5}) /\ {0, 2, 3, 4, 7} = Add({1, 7}, {0, 1, 2, 3, 4})
        BY DEF Add
      <3>2. g(Add({4}, {5})) = Add(g({4}), g({5}))
        BY <1>3
      <3> QED BY <1>5, <3>1, <3>2
    <2>2. {4, 5, 7} = Add({4, 5}, {7}) /\ {0, 5, 6, 7} = Add({0, 2, 3, 4, 7}, {2, 3, 4, 5, 6})
      BY DEF Add
    <2>3. g(Add({4, 5}, {7})) = Add(g({4, 5}), g({7}))
      BY <1>3
    <2> QED BY <1>5, <2>1, <2>2, <2>3
  <1>9. \A i \in 1 .. 4 : Image[i] \in Element("gf256")
    BY <1>1 DEF Image
  <1> QED BY <1>5, <1>6, <1>7, <1>8, <1>9 DEF g

LEMMA EmbedDouble ==
  ASSUME NEW u \in Element("gf16")
  PROVE  Embed(Double("gf16", u)) = Mul("gf256", {5, 6, 7}, Embed(u))
  <1> DEFINE g == [w \in Element("gf16") |-> Embed(Double("gf16", w))]
             h == [w \in Element("gf16") |-> Mul("gf256", {5, 6, 7}, Embed(w))]
  <1>1. Additive("gf16", g)
    <2>1. SUFFICES ASSUME NEW v \in Element("gf16"), NEW w \in Element("gf16")
                   PROVE  g[Add(v, w)] = Add(g[v], g[w])
      BY DEF Additive
    <2>2. /\ Add(v, w) \in Element("gf16") /\ Double("gf16", v) \in Element("gf16")
          /\ Double("gf16", w) \in Element("gf16")
      BY ElementTyped, Names
    <2>3. Double("gf16", Add(v, w)) = Add(Double("gf16", v), Double("gf16", w))
      BY DoubleAdds, Names
    <2> QED BY <2>2, <2>3, EmbedAdds
  <1>2. Additive("gf16", h)
    <2>1. SUFFICES ASSUME NEW v \in Element("gf16"), NEW w \in Element("gf16")
                   PROVE  h[Add(v, w)] = Add(h[v], h[w])
      BY DEF Additive
    <2>2. Add(v, w) \in Element("gf16")
      BY ElementTyped, Names
    <2>3. /\ Embed(Add(v, w)) = Add(Embed(v), Embed(w))
          /\ Embed(v) \in Element("gf256") /\ Embed(w) \in Element("gf256")
      BY EmbedAdds
    <2>4. Mul("gf256", {5, 6, 7}, Add(Embed(v), Embed(w)))
            = Add(Mul("gf256", {5, 6, 7}, Embed(v)), Mul("gf256", {5, 6, 7}, Embed(w)))
      BY <2>3, MulAdds, Names, ImageDoubled
    <2> QED BY <2>2, <2>3, <2>4
  <1>3. ASSUME NEW k \in 0 .. 3 PROVE g[{k}] = h[{k}]
    <2>1. {k} \in Element("gf16") /\ Embed({k}) = Image[k + 1]
      BY EmbedPower
    <2>2. Double("gf16", {k}) = IF k < 3 THEN {k + 1} ELSE {0, 1}
      <3>1. Reduction["gf16"] = {0, 1} /\ k \in 0 .. Degree["gf16"] - 1
        BY Names DEF Reduction
      <3>2. Double("gf16", {k}) = IF k + 1 < Degree["gf16"] THEN {k + 1} ELSE Reduction["gf16"]
        BY <3>1, DoubleBit, Names
      <3> QED BY <3>1, <3>2, Names
    <2>3. CASE k < 3
      <3>1. Embed({k + 1}) = Image[k + 2]
        <4>1. k + 1 \in 0 .. 3 /\ (k + 1) + 1 = k + 2
          BY <2>3
        <4> QED BY <4>1, EmbedPower
      <3>2. Mul("gf256", {5, 6, 7}, Image[k + 1]) = Image[k + 2]
        <4>1. k = 0 \/ k = 1 \/ k = 2
          BY <2>3
        <4> QED BY <4>1, ImageProducts DEF Image
      <3> QED BY <2>1, <2>2, <2>3, <3>1, <3>2
    <2>4. CASE k = 3
      <3>1. {0, 1} = Add({0}, {1}) /\ {0} \in Element("gf16") /\ {1} \in Element("gf16")
            /\ Embed({0}) = {0} /\ Embed({1}) = {5, 6, 7}
        BY EmbedPower DEF Add, Image
      <3>2. Embed({0, 1}) = Add({0}, {5, 6, 7})
        BY <3>1, EmbedAdds
      <3>3. Add({0}, {5, 6, 7}) = {0, 5, 6, 7}
        BY DEF Add
      <3>4. Mul("gf256", {5, 6, 7}, Image[4]) = {0, 5, 6, 7}
        BY ImageProducts DEF Image
      <3> QED BY <2>1, <2>2, <2>4, <3>2, <3>3, <3>4
    <2> QED BY <2>3, <2>4
  <1>4. \A k \in 0 .. Degree["gf16"] - 1 : g[{k}] = h[{k}]
    <2> HIDE DEF g, h
    <2> QED BY <1>3, Names
  <1>5. g[u] = h[u]
    <2> HIDE DEF g, h
    <2> QED BY <1>1, <1>2, <1>4, Agree, Names
  <1> QED BY <1>5

(* The embedding keeps products: by powers of x first, then by sums.       *)
LEMMA EmbedMul ==
  ASSUME NEW u \in Element("gf16"), NEW v \in Element("gf16")
  PROVE  /\ Embed(Mul("gf16", u, v)) = Mul("gf256", Embed(u), Embed(v))
         /\ Embed({0}) = {0}
  <1> DEFINE T == {n \in 0 .. Degree["gf16"] : n < 4 =>
                     \A w \in Element("gf16") :
                       Embed(Mul("gf16", {n}, w)) = Mul("gf256", Embed({n}), Embed(w))}
  <1>1. Embed({0}) = {0} /\ Embed({1}) = {5, 6, 7}
    BY EmbedPower DEF Image
  <1>2. 0 \in T
    <2>1. ASSUME NEW w \in Element("gf16")
          PROVE  Embed(Mul("gf16", {0}, w)) = Mul("gf256", Embed({0}), Embed(w))
      <3>1. Mul("gf16", {0}, w) = w
        BY MulOne, Names
      <3>2. Embed(w) \in Element("gf256")
        BY EmbedAdds
      <3>3. Mul("gf256", {0}, Embed(w)) = Embed(w)
        BY <3>2, MulOne, Names
      <3> QED BY <1>1, <3>1, <3>3
    <2> QED BY <2>1, Names
  <1>3. ASSUME NEW n \in 0 .. Degree["gf16"] - 1, n \in T PROVE n + 1 \in T
    <2>0. n + 1 \in 0 .. Degree["gf16"] /\ n \in 0 .. 3
      BY Names
    <2>1. SUFFICES ASSUME n + 1 < 4, NEW w \in Element("gf16")
                   PROVE  Embed(Mul("gf16", {n + 1}, w)) = Mul("gf256", Embed({n + 1}), Embed(w))
      BY <2>0
    <2>2. /\ {n} \in Element("gf16") /\ n < 4 /\ n + 1 \in 0 .. 3
          /\ Embed({n}) \in Element("gf256") /\ Embed(w) \in Element("gf256")
      <3>1. {n} \in Element("gf16")
        BY <2>0, EmbedPower
      <3>2. n < 4 /\ n + 1 \in 0 .. 3
        BY <2>0, <2>1
      <3> QED BY <3>1, <3>2, EmbedAdds
    <2>3. {n + 1} = Double("gf16", {n})
      <3>1. Double("gf16", {n}) = IF n + 1 < Degree["gf16"] THEN {n + 1} ELSE Reduction["gf16"]
        BY DoubleBit, Names
      <3> QED BY <2>1, <3>1, Names
    <2>4. Mul("gf16", {n + 1}, w) = Double("gf16", Mul("gf16", {n}, w))
      <3>1. Mul("gf16", {n}, w) \in Element("gf16")
        BY <2>2, MulTyped, Names
      <3>2. /\ 0 \in 0 .. Degree["gf16"] - 1 /\ 1 \in 0 .. Degree["gf16"] /\ 0 + 1 = 1
        BY Names
      <3>3. /\ Doubled("gf16", 1, {n}) = Double("gf16", {n})
            /\ Doubled("gf16", 1, Mul("gf16", {n}, w)) = Double("gf16", Mul("gf16", {n}, w))
        BY <2>2, <3>1, <3>2, DoubledTurns, Names
      <3>4. Mul("gf16", Doubled("gf16", 1, {n}), w) = Doubled("gf16", 1, Mul("gf16", {n}, w))
        BY <2>2, <3>2, MulDoubled, Names
      <3> QED BY <2>3, <3>3, <3>4
    <2>5. Embed(Mul("gf16", {n + 1}, w)) = Mul("gf256", {5, 6, 7}, Embed(Mul("gf16", {n}, w)))
      <3>1. Mul("gf16", {n}, w) \in Element("gf16")
        BY <2>2, MulTyped, Names
      <3> QED BY <2>4, <3>1, EmbedDouble
    <2>6. Embed(Mul("gf16", {n}, w)) = Mul("gf256", Embed({n}), Embed(w))
      BY <1>3, <2>2
    <2>7. Mul("gf256", {5, 6, 7}, Mul("gf256", Embed({n}), Embed(w)))
            = Mul("gf256", Mul("gf256", {5, 6, 7}, Embed({n})), Embed(w))
      BY <2>2, MulAssociates, ImageDoubled, Names
    <2>8. Mul("gf256", {5, 6, 7}, Embed({n})) = Embed({n + 1})
      BY <2>2, <2>3, EmbedDouble
    <2> QED BY <2>5, <2>6, <2>7, <2>8
  <1>4. \A n \in 0 .. Degree["gf16"] : n \in T
    <2> HIDE DEF T
    <2> QED BY <1>2, <1>3, RoundInduction, Names
  <1> DEFINE g == [w \in Element("gf16") |-> Embed(Mul("gf16", w, v))]
             h == [w \in Element("gf16") |-> Mul("gf256", Embed(w), Embed(v))]
  <1>5. Additive("gf16", g) /\ Additive("gf16", h)
    <2>1. SUFFICES ASSUME NEW s \in Element("gf16"), NEW t \in Element("gf16")
                   PROVE  g[Add(s, t)] = Add(g[s], g[t]) /\ h[Add(s, t)] = Add(h[s], h[t])
      <3> HIDE DEF g, h
      <3> QED BY DEF Additive
    <2>2. Add(s, t) \in Element("gf16")
      BY ElementTyped, Names
    <2>3. /\ Embed(s) \in Element("gf256") /\ Embed(t) \in Element("gf256")
          /\ Embed(v) \in Element("gf256") /\ Embed(Add(s, t)) = Add(Embed(s), Embed(t))
      BY EmbedAdds
    <2>4. Mul("gf256", Add(Embed(s), Embed(t)), Embed(v))
            = Add(Mul("gf256", Embed(s), Embed(v)), Mul("gf256", Embed(t), Embed(v)))
      BY <2>3, MulAdds, Names
    <2>5. /\ Mul("gf16", s, v) \in Element("gf16") /\ Mul("gf16", t, v) \in Element("gf16")
          /\ Mul("gf16", Add(s, t), v) = Add(Mul("gf16", s, v), Mul("gf16", t, v))
      BY MulTyped, MulAdds, Names
    <2>6. Embed(Add(Mul("gf16", s, v), Mul("gf16", t, v)))
            = Add(Embed(Mul("gf16", s, v)), Embed(Mul("gf16", t, v)))
      BY <2>5, EmbedAdds
    <2> QED BY <2>2, <2>3, <2>4, <2>5, <2>6
  <1>6. ASSUME NEW k \in 0 .. Degree["gf16"] - 1 PROVE g[{k}] = h[{k}]
    <2>1. k \in 0 .. Degree["gf16"] /\ k < 4 /\ {k} \in Element("gf16")
      BY Singletons, Names
    <2>2. Embed(Mul("gf16", {k}, v)) = Mul("gf256", Embed({k}), Embed(v))
      BY <1>4, <2>1
    <2> QED BY <2>1, <2>2
  <1>7. g[u] = h[u]
    <2> HIDE DEF g, h
    <2>1. "gf16" \in DOMAIN Degree /\ \A k \in 0 .. Degree["gf16"] - 1 : g[{k}] = h[{k}]
      BY <1>6, Names
    <2> QED BY <1>5, <2>1, Agree
  <1> QED BY <1>1, <1>7

-----------------------------------------------------------------------------
(* The tower *)

LEMMA BaseProducts ==
  ASSUME NEW u \in Element("gf256"), NEW v \in Element("gf256"), NEW w \in Element("gf256")
  PROVE  /\ Mul256(u, v) \in Element("gf256") /\ Add(u, v) \in Element("gf256")
         /\ {} \in Element("gf256") /\ {0} \in Element("gf256") /\ {5} \in Element("gf256")
         /\ Mul256(u, v) = Mul256(v, u)
         /\ Mul256(Mul256(u, v), w) = Mul256(u, Mul256(v, w))
         /\ Mul256(u, Add(v, w)) = Add(Mul256(u, v), Mul256(u, w))
         /\ Mul256(Add(v, w), u) = Add(Mul256(v, u), Mul256(w, u))
         /\ Mul256(u, {0}) = u /\ Mul256(u, {}) = {}
  <1>1. /\ {} \in Element("gf256") /\ {0} \in Element("gf256") /\ {5} \in Element("gf256")
        /\ Add(v, w) \in Element("gf256") /\ Add(u, v) \in Element("gf256")
    <2>1. {5} \in Element("gf256")
      BY Names DEF Element
    <2> QED BY <2>1, ElementTyped, MulOne, Names
  <1>2. /\ Mul("gf256", u, v) \in Element("gf256") /\ Mul("gf256", v, w) \in Element("gf256")
    BY MulTyped, Names
  <1>3. /\ Mul256(u, v) = Mul("gf256", u, v) /\ Mul256(v, u) = Mul("gf256", v, u)
        /\ Mul256(v, w) = Mul("gf256", v, w) /\ Mul256(u, w) = Mul("gf256", u, w)
        /\ Mul256(w, u) = Mul("gf256", w, u)
        /\ Mul256(u, {0}) = Mul("gf256", u, {0}) /\ Mul256(u, {}) = Mul("gf256", u, {})
    BY <1>1, Tabled256
  <1>4. /\ Mul256(Mul("gf256", u, v), w) = Mul("gf256", Mul("gf256", u, v), w)
        /\ Mul256(u, Mul("gf256", v, w)) = Mul("gf256", u, Mul("gf256", v, w))
        /\ Mul256(u, Add(v, w)) = Mul("gf256", u, Add(v, w))
        /\ Mul256(Add(v, w), u) = Mul("gf256", Add(v, w), u)
    BY <1>1, <1>2, Tabled256
  <1>5. Mul("gf256", u, v) = Mul("gf256", v, u)
    BY MulCommutes, Names
  <1>6. Mul("gf256", Mul("gf256", u, v), w) = Mul("gf256", u, Mul("gf256", v, w))
    BY MulAssociates, Names
  <1>7. /\ Mul("gf256", u, Add(v, w)) = Add(Mul("gf256", u, v), Mul("gf256", u, w))
        /\ Mul("gf256", Add(v, w), u) = Add(Mul("gf256", v, u), Mul("gf256", w, u))
    BY MulAdds, Names
  <1>8. Mul("gf256", u, {0}) = u /\ Mul("gf256", u, {}) = {}
    BY MulOne, Names
  <1> QED BY <1>1, <1>2, <1>3, <1>4, <1>5, <1>6, <1>7, <1>8

LEMMA BaseClosed ==
  ASSUME NEW u \in Element("gf256"), NEW v \in Element("gf256")
  PROVE  /\ Mul256(u, v) \in Element("gf256") /\ Add(u, v) \in Element("gf256")
         /\ {} \in Element("gf256") /\ {0} \in Element("gf256") /\ {5} \in Element("gf256")
  BY BaseProducts

LEMMA BaseDistributes ==
  ASSUME NEW u \in Element("gf256"), NEW v \in Element("gf256"), NEW w \in Element("gf256")
  PROVE  Mul256(u, Add(v, w)) = Add(Mul256(u, v), Mul256(u, w))
  BY BaseProducts

LEMMA BaseLeftDistributes ==
  ASSUME NEW u \in Element("gf256"), NEW v \in Element("gf256"), NEW w \in Element("gf256")
  PROVE  Mul256(Add(v, w), u) = Add(Mul256(v, u), Mul256(w, u))
  BY BaseProducts

LEMMA BaseCommutes ==
  ASSUME NEW u \in Element("gf256"), NEW v \in Element("gf256")
  PROVE  Mul256(u, v) = Mul256(v, u)
  BY BaseProducts

LEMMA BaseAssociates ==
  ASSUME NEW u \in Element("gf256"), NEW v \in Element("gf256"), NEW w \in Element("gf256")
  PROVE  Mul256(Mul256(u, v), w) = Mul256(u, Mul256(v, w))
  BY BaseProducts

Pair == Element("gf256") \X Element("gf256")
Plus(u, v) == Tower!Plus(u, v)
Times(u, v) == Tower!Times(u, v)

LEMMA PairParts ==
  /\ \A u \in Pair : u[1] \in Element("gf256") /\ u[2] \in Element("gf256") /\ u = <<u[1], u[2]>>
  /\ \A s, t \in Element("gf256") : <<s, t>> \in Pair
  BY DEF Pair

(* What the three products of the code amount to. *)
LEMMA TimesCoefficients ==
  ASSUME NEW u \in Pair, NEW v \in Pair
  PROVE  Times(u, v) =
           <<Add(Mul256(u[1], v[1]), Mul256(Mul256(u[2], v[2]), {5})),
             Add(Add(Mul256(u[1], v[2]), Mul256(u[2], v[1])), Mul256(u[2], v[2]))>>
  <1> DEFINE p == Mul256(u[1], v[1])
             q == Mul256(u[1], v[2])
             r == Mul256(u[2], v[1])
             s == Mul256(u[2], v[2])
             sum == Add(u[1], u[2])
  <1>1. /\ u[1] \in Element("gf256") /\ u[2] \in Element("gf256")
        /\ v[1] \in Element("gf256") /\ v[2] \in Element("gf256") /\ sum \in Element("gf256")
    BY PairParts, BaseClosed
  <1>2. Mul256(sum, Add(v[1], v[2])) = Add(Mul256(sum, v[1]), Mul256(sum, v[2]))
    <2> HIDE DEF sum
    <2> QED BY <1>1, BaseDistributes
  <1>3. Mul256(sum, v[1]) = Add(p, r) /\ Mul256(sum, v[2]) = Add(q, s)
    BY <1>1, BaseLeftDistributes
  <1>4. Add(p, Add(Add(p, r), Add(q, s))) = Add(Add(q, r), s)
    <2> HIDE DEF p, q, r, s
    <2> QED BY DEF Add
  <1>5. Times(u, v) = <<Add(p, Mul256(s, {5})), Add(p, Mul256(sum, Add(v[1], v[2])))>>
    BY DEF Times, Tower!Times
  <1> QED BY <1>2, <1>3, <1>4, <1>5

LEMMA PairClosed ==
  ASSUME NEW u \in Pair, NEW v \in Pair
  PROVE  Plus(u, v) \in Pair /\ Times(u, v) \in Pair
  <1>1. /\ u[1] \in Element("gf256") /\ u[2] \in Element("gf256")
        /\ v[1] \in Element("gf256") /\ v[2] \in Element("gf256") /\ {5} \in Element("gf256")
    BY PairParts, BaseClosed
  <1>2. Add(u[1], v[1]) \in Element("gf256") /\ Add(u[2], v[2]) \in Element("gf256")
    BY <1>1, BaseClosed
  <1>3. /\ Mul256(u[1], v[1]) \in Element("gf256") /\ Mul256(u[2], v[2]) \in Element("gf256")
        /\ Mul256(u[1], v[2]) \in Element("gf256") /\ Mul256(u[2], v[1]) \in Element("gf256")
    BY <1>1, BaseClosed
  <1>4. /\ Mul256(Mul256(u[2], v[2]), {5}) \in Element("gf256")
        /\ Add(Mul256(u[1], v[2]), Mul256(u[2], v[1])) \in Element("gf256")
    BY <1>1, <1>3, BaseClosed
  <1>5. /\ Add(Mul256(u[1], v[1]), Mul256(Mul256(u[2], v[2]), {5})) \in Element("gf256")
        /\ Add(Add(Mul256(u[1], v[2]), Mul256(u[2], v[1])), Mul256(u[2], v[2])) \in Element("gf256")
    BY <1>3, <1>4, BaseClosed
  <1> QED BY <1>2, <1>5, PairParts, TimesCoefficients DEF Plus, Tower!Plus

LEMMA PairCommutes ==
  ASSUME NEW u \in Pair, NEW v \in Pair
  PROVE  Times(u, v) = Times(v, u)
  <1>1. /\ Mul256(u[1], v[1]) = Mul256(v[1], u[1]) /\ Mul256(u[2], v[2]) = Mul256(v[2], u[2])
        /\ Mul256(u[1], v[2]) = Mul256(v[2], u[1]) /\ Mul256(u[2], v[1]) = Mul256(v[1], u[2])
    BY PairParts, BaseCommutes
  <1>2. Add(Mul256(u[1], v[2]), Mul256(u[2], v[1])) = Add(Mul256(u[2], v[1]), Mul256(u[1], v[2]))
    BY AddLaws
  <1> QED BY <1>1, <1>2, TimesCoefficients

LEMMA PairDistributes ==
  ASSUME NEW u \in Pair, NEW v \in Pair, NEW w \in Pair
  PROVE  Times(u, Plus(v, w)) = Plus(Times(u, v), Times(u, w))
  <1> DEFINE m(i, j) == Mul256(u[i], v[j])
             n(i, j) == Mul256(u[i], w[j])
             sum(j) == Add(v[j], w[j])
  <1>1. \A i \in {1, 2} : /\ u[i] \in Element("gf256") /\ v[i] \in Element("gf256")
                          /\ w[i] \in Element("gf256")
    BY PairParts
  <1>2. \A i, j \in {1, 2} : m(i, j) \in Element("gf256") /\ n(i, j) \in Element("gf256")
    BY <1>1, BaseClosed
  <1>3. \A i, j \in {1, 2} : Mul256(u[i], sum(j)) = Add(m(i, j), n(i, j))
    BY <1>1, BaseDistributes
  <1>4. Plus(v, w) \in Pair /\ Plus(v, w) = <<sum(1), sum(2)>>
    BY PairClosed DEF Plus, Tower!Plus
  <1>5. Times(u, Plus(v, w))
          = <<Add(Mul256(u[1], sum(1)), Mul256(Mul256(u[2], sum(2)), {5})),
              Add(Add(Mul256(u[1], sum(2)), Mul256(u[2], sum(1))), Mul256(u[2], sum(2)))>>
    BY <1>4, TimesCoefficients
  <1>6. Times(u, v) = <<Add(m(1, 1), Mul256(m(2, 2), {5})),
                        Add(Add(m(1, 2), m(2, 1)), m(2, 2))>>
    BY TimesCoefficients
  <1>7. Times(u, w) = <<Add(n(1, 1), Mul256(n(2, 2), {5})),
                        Add(Add(n(1, 2), n(2, 1)), n(2, 2))>>
    BY TimesCoefficients
  <1> HIDE DEF m, n, sum
  <1>8. Mul256(Add(m(2, 2), n(2, 2)), {5}) = Add(Mul256(m(2, 2), {5}), Mul256(n(2, 2), {5}))
    BY <1>2, BaseClosed, BaseLeftDistributes
  <1>9. \A p, q, r, s : Add(Add(p, q), Add(r, s)) = Add(Add(p, r), Add(q, s))
    BY AddSwap
  <1>10. Add(Add(Add(m(1, 2), n(1, 2)), Add(m(2, 1), n(2, 1))), Add(m(2, 2), n(2, 2)))
          = Add(Add(Add(m(1, 2), m(2, 1)), m(2, 2)), Add(Add(n(1, 2), n(2, 1)), n(2, 2)))
    BY <1>9
  <1>11. Add(Add(m(1, 1), n(1, 1)), Add(Mul256(m(2, 2), {5}), Mul256(n(2, 2), {5})))
          = Add(Add(m(1, 1), Mul256(m(2, 2), {5})), Add(n(1, 1), Mul256(n(2, 2), {5})))
    BY <1>9
  <1> QED BY <1>3, <1>5, <1>6, <1>7, <1>8, <1>10, <1>11 DEF Plus, Tower!Plus

LEMMA PairAssociates ==
  ASSUME NEW u \in Pair, NEW v \in Pair, NEW w \in Pair
  PROVE  Times(Times(u, v), w) = Times(u, Times(v, w))
  <1> DEFINE m(i, j, k) == Mul256(Mul256(u[i], v[j]), w[k])
             r(i, j, k) == Mul256(m(i, j, k), {5})
             uv == Times(u, v)
             vw == Times(v, w)
  <1>1. /\ \A i \in {1, 2} : /\ u[i] \in Element("gf256") /\ v[i] \in Element("gf256")
                             /\ w[i] \in Element("gf256")
        /\ {5} \in Element("gf256") /\ uv \in Pair /\ vw \in Pair
    <2>1. \A i \in {1, 2} : /\ u[i] \in Element("gf256") /\ v[i] \in Element("gf256")
                            /\ w[i] \in Element("gf256")
      BY PairParts
    <2> QED BY <2>1, BaseClosed, PairClosed
  <1>2. \A i, j \in {1, 2} : /\ Mul256(u[i], v[j]) \in Element("gf256")
                             /\ Mul256(v[i], w[j]) \in Element("gf256")
    BY <1>1, BaseClosed
  <1>3. ASSUME NEW i \in {1, 2}, NEW j \in {1, 2}, NEW k \in {1, 2}
        PROVE  /\ m(i, j, k) \in Element("gf256")
               /\ Mul256(u[i], Mul256(v[j], w[k])) = m(i, j, k)
    <2>1. /\ u[i] \in Element("gf256") /\ v[j] \in Element("gf256") /\ w[k] \in Element("gf256")
          /\ Mul256(u[i], v[j]) \in Element("gf256")
      BY <1>1, <1>2
    <2>2. m(i, j, k) \in Element("gf256")
      BY <2>1, BaseClosed
    <2>3. Mul256(u[i], Mul256(v[j], w[k])) = m(i, j, k)
      BY <2>1, BaseAssociates
    <2> QED BY <2>2, <2>3
  <1>4. ASSUME NEW k \in {1, 2}
        PROVE  /\ Mul256(uv[1], w[k]) = Add(m(1, 1, k), r(2, 2, k))
               /\ Mul256(uv[2], w[k]) = Add(Add(m(1, 2, k), m(2, 1, k)), m(2, 2, k))
    <2> DEFINE p(i, j) == Mul256(u[i], v[j])
               t == Mul256(p(2, 2), {5})
    <2>1. uv[1] = Add(p(1, 1), t) /\ uv[2] = Add(Add(p(1, 2), p(2, 1)), p(2, 2))
      BY TimesCoefficients
    <2>2. /\ \A i, j \in {1, 2} : p(i, j) \in Element("gf256")
          /\ t \in Element("gf256") /\ w[k] \in Element("gf256")
          /\ Add(p(1, 2), p(2, 1)) \in Element("gf256")
      BY <1>1, <1>2, BaseClosed
    <2>3. t = Mul256({5}, p(2, 2))
      BY <1>1, <1>2, BaseCommutes
    <2> HIDE DEF uv, p, t
    <2>4. Mul256(uv[1], w[k]) = Add(Mul256(p(1, 1), w[k]), Mul256(t, w[k]))
      BY <2>1, <2>2, BaseLeftDistributes
    <2>5. Mul256(t, w[k]) = Mul256(Mul256(p(2, 2), w[k]), {5})
      <3>1. Mul256(Mul256({5}, p(2, 2)), w[k]) = Mul256({5}, Mul256(p(2, 2), w[k]))
        BY <1>1, <2>2, BaseAssociates
      <3>2. Mul256({5}, Mul256(p(2, 2), w[k])) = Mul256(Mul256(p(2, 2), w[k]), {5})
        BY <1>1, <2>2, BaseClosed, BaseCommutes
      <3> QED BY <2>3, <3>1, <3>2
    <2>6. /\ Mul256(uv[2], w[k])
               = Add(Mul256(Add(p(1, 2), p(2, 1)), w[k]), Mul256(p(2, 2), w[k]))
          /\ Mul256(Add(p(1, 2), p(2, 1)), w[k])
               = Add(Mul256(p(1, 2), w[k]), Mul256(p(2, 1), w[k]))
      BY <2>1, <2>2, BaseLeftDistributes
    <2> QED BY <2>4, <2>5, <2>6 DEF p
  <1>5. ASSUME NEW i \in {1, 2}
        PROVE  /\ Mul256(u[i], vw[1]) = Add(m(i, 1, 1), r(i, 2, 2))
               /\ Mul256(u[i], vw[2]) = Add(Add(m(i, 1, 2), m(i, 2, 1)), m(i, 2, 2))
    <2> DEFINE q(j, k) == Mul256(v[j], w[k])
               t == Mul256(q(2, 2), {5})
    <2>1. vw[1] = Add(q(1, 1), t) /\ vw[2] = Add(Add(q(1, 2), q(2, 1)), q(2, 2))
      BY TimesCoefficients
    <2>2. /\ \A j, k \in {1, 2} : q(j, k) \in Element("gf256")
          /\ t \in Element("gf256") /\ u[i] \in Element("gf256")
          /\ Add(q(1, 2), q(2, 1)) \in Element("gf256")
      BY <1>1, <1>2, BaseClosed
    <2>3. Mul256(u[i], t) = Mul256(Mul256(u[i], q(2, 2)), {5})
      <3>1. q(2, 2) \in Element("gf256")
        BY <2>2
      <3> HIDE DEF q
      <3> QED BY <1>1, <2>2, <3>1, BaseAssociates
    <2>4. \A j, k \in {1, 2} : Mul256(u[i], q(j, k)) = m(i, j, k)
      BY <1>3
    <2> HIDE DEF vw, q, t, m
    <2>5. Mul256(u[i], vw[1]) = Add(Mul256(u[i], q(1, 1)), Mul256(u[i], t))
      BY <2>1, <2>2, BaseDistributes
    <2>6. /\ Mul256(u[i], vw[2])
               = Add(Mul256(u[i], Add(q(1, 2), q(2, 1))), Mul256(u[i], q(2, 2)))
          /\ Mul256(u[i], Add(q(1, 2), q(2, 1)))
               = Add(Mul256(u[i], q(1, 2)), Mul256(u[i], q(2, 1)))
      BY <2>1, <2>2, BaseDistributes
    <2> QED BY <2>3, <2>4, <2>5, <2>6
  <1>6. /\ Times(uv, w) = <<Add(Mul256(uv[1], w[1]), Mul256(Mul256(uv[2], w[2]), {5})),
                            Add(Add(Mul256(uv[1], w[2]), Mul256(uv[2], w[1])),
                                Mul256(uv[2], w[2]))>>
        /\ Times(u, vw) = <<Add(Mul256(u[1], vw[1]), Mul256(Mul256(u[2], vw[2]), {5})),
                            Add(Add(Mul256(u[1], vw[2]), Mul256(u[2], vw[1])),
                                Mul256(u[2], vw[2]))>>
    BY <1>1, TimesCoefficients
  <1>7. ASSUME NEW p \in Element("gf256"), NEW q \in Element("gf256"), NEW s \in Element("gf256")
        PROVE  Mul256(Add(Add(p, q), s), {5})
                 = Add(Add(Mul256(p, {5}), Mul256(q, {5})), Mul256(s, {5}))
    BY <1>1, BaseClosed, BaseLeftDistributes
  <1>8. /\ Mul256(Mul256(uv[2], w[2]), {5}) = Add(Add(r(1, 2, 2), r(2, 1, 2)), r(2, 2, 2))
        /\ Mul256(Mul256(u[2], vw[2]), {5}) = Add(Add(r(2, 1, 2), r(2, 2, 1)), r(2, 2, 2))
    <2>1. /\ m(1, 2, 2) \in Element("gf256") /\ m(2, 1, 2) \in Element("gf256")
          /\ m(2, 2, 2) \in Element("gf256") /\ m(2, 2, 1) \in Element("gf256")
      BY <1>3
    <2>2. /\ Mul256(uv[2], w[2]) = Add(Add(m(1, 2, 2), m(2, 1, 2)), m(2, 2, 2))
          /\ Mul256(u[2], vw[2]) = Add(Add(m(2, 1, 2), m(2, 2, 1)), m(2, 2, 2))
      BY <1>4, <1>5
    <2> HIDE DEF m, uv, vw
    <2> QED BY <1>7, <2>1, <2>2
  <1>9. /\ \A p, q, s, t, z : Add(Add(p, q), Add(Add(s, t), z)) = Add(Add(p, s), Add(Add(t, q), z))
        /\ \A p, q, s, t, y1, y2, y3, z :
             Add(Add(Add(p, q), Add(Add(s, t), y1)), Add(Add(y2, y3), z))
               = Add(Add(Add(Add(p, s), y2), Add(t, q)), Add(Add(y3, y1), z))
    BY DEF Add
  <1>10. /\ Mul256(uv[1], w[1]) = Add(m(1, 1, 1), r(2, 2, 1))
         /\ Mul256(uv[1], w[2]) = Add(m(1, 1, 2), r(2, 2, 2))
         /\ Mul256(uv[2], w[1]) = Add(Add(m(1, 2, 1), m(2, 1, 1)), m(2, 2, 1))
         /\ Mul256(uv[2], w[2]) = Add(Add(m(1, 2, 2), m(2, 1, 2)), m(2, 2, 2))
         /\ Mul256(u[1], vw[1]) = Add(m(1, 1, 1), r(1, 2, 2))
         /\ Mul256(u[1], vw[2]) = Add(Add(m(1, 1, 2), m(1, 2, 1)), m(1, 2, 2))
         /\ Mul256(u[2], vw[1]) = Add(m(2, 1, 1), r(2, 2, 2))
         /\ Mul256(u[2], vw[2]) = Add(Add(m(2, 1, 2), m(2, 2, 1)), m(2, 2, 2))
    BY <1>4, <1>5
  <1> HIDE DEF m, r, uv, vw
  <1>11. Add(Add(m(1, 1, 1), r(2, 2, 1)), Add(Add(r(1, 2, 2), r(2, 1, 2)), r(2, 2, 2)))
           = Add(Add(m(1, 1, 1), r(1, 2, 2)), Add(Add(r(2, 1, 2), r(2, 2, 1)), r(2, 2, 2)))
    BY <1>9
  <1>12. Add(Add(Add(m(1, 1, 2), r(2, 2, 2)), Add(Add(m(1, 2, 1), m(2, 1, 1)), m(2, 2, 1))),
             Add(Add(m(1, 2, 2), m(2, 1, 2)), m(2, 2, 2)))
           = Add(Add(Add(Add(m(1, 1, 2), m(1, 2, 1)), m(1, 2, 2)), Add(m(2, 1, 1), r(2, 2, 2))),
                 Add(Add(m(2, 1, 2), m(2, 2, 1)), m(2, 2, 2)))
    BY <1>9
  <1>13. Times(uv, w) = Times(u, vw)
    BY <1>6, <1>8, <1>10, <1>11, <1>12
  <1> QED BY <1>13 DEF uv, vw

-----------------------------------------------------------------------------
(* The three fields are commutative rings of characteristic two. *)

Rings == {"gf16", "gf256", "gf256x2"}
Sum(f, u, v) == IF f = "gf256x2" THEN Plus(u, v) ELSE Add(u, v)

LEMMA SmallRing ==
  ASSUME NEW f \in {"gf16", "gf256"}
  PROVE  /\ f \in DOMAIN Degree /\ f # "gf256x2" /\ Elements(f) = Element(f)
         /\ None(f) = {} /\ One(f) = {0}
         /\ \A u, v : Sum(f, u, v) = Add(u, v)
         /\ \A u, v \in Element(f) : Product(f, u, v) = Mul(f, u, v)
  <1>1. f \in DOMAIN Degree /\ f # "gf256x2"
    BY Names
  <1>2. \A u, v \in Element(f) : Product(f, u, v) = Mul(f, u, v)
    BY <1>1, Tabled
  <1> QED BY <1>1, <1>2 DEF Elements, Sum, None, One

LEMMA TowerRing ==
  /\ Elements("gf256x2") = Pair /\ None("gf256x2") = <<{}, {}>> /\ One("gf256x2") = <<{0}, {}>>
  /\ \A u, v : Sum("gf256x2", u, v) = Plus(u, v)
  /\ \A u, v : Product("gf256x2", u, v) = Times(u, v)
  BY DEF Elements, Pair, Sum, None, One, Product, Times

LEMMA RingClosed ==
  ASSUME NEW f \in Rings, NEW u \in Elements(f), NEW v \in Elements(f)
  PROVE  /\ Product(f, u, v) \in Elements(f) /\ Sum(f, u, v) \in Elements(f)
         /\ None(f) \in Elements(f) /\ One(f) \in Elements(f)
  <1>1. CASE f \in {"gf16", "gf256"}
    <2>1. f \in DOMAIN Degree /\ u \in Element(f) /\ v \in Element(f)
      BY <1>1, SmallRing
    <2>2. /\ Mul(f, u, v) \in Element(f) /\ Add(u, v) \in Element(f)
          /\ {} \in Element(f) /\ {0} \in Element(f)
      BY <2>1, MulTyped, ElementTyped, MulOne
    <2> QED BY <1>1, <2>1, <2>2, SmallRing
  <1>2. CASE f = "gf256x2"
    <2>1. {} \in Element("gf256") /\ {0} \in Element("gf256")
      BY ElementTyped, MulOne, Names, ImageDoubled
    <2> QED BY <1>2, <2>1, TowerRing, PairClosed, PairParts
  <1> QED BY <1>1, <1>2 DEF Rings

LEMMA SumLaws ==
  ASSUME NEW f \in Rings, NEW u \in Elements(f), NEW v \in Elements(f), NEW w \in Elements(f)
  PROVE  /\ Sum(f, u, v) = Sum(f, v, u) /\ Sum(f, Sum(f, u, v), w) = Sum(f, u, Sum(f, v, w))
         /\ Sum(f, u, None(f)) = u /\ Sum(f, u, u) = None(f)
         /\ Sum(f, Sum(f, u, v), v) = u
         /\ Sum(f, Sum(f, u, v), Sum(f, v, w)) = Sum(f, u, w)
  <1>1. \A p, q, r : /\ Add(p, q) = Add(q, p) /\ Add(Add(p, q), r) = Add(p, Add(q, r))
                     /\ Add(p, {}) = p /\ Add(p, p) = {} /\ Add(Add(p, q), q) = p
                     /\ Add(Add(p, q), Add(q, r)) = Add(p, r)
    BY DEF Add
  <1>2. CASE f \in {"gf16", "gf256"}
    <2>1. None(f) = {} /\ \A p, q : Sum(f, p, q) = Add(p, q)
      BY <1>2, SmallRing
    <2> QED BY <1>1, <2>1
  <1>3. CASE f = "gf256x2"
    <2>1. \A p, q : Sum(f, p, q) = <<Add(p[1], q[1]), Add(p[2], q[2])>>
      BY <1>3, TowerRing DEF Plus, Tower!Plus
    <2>2. u = <<u[1], u[2]>> /\ None(f) = <<{}, {}>>
      BY <1>3, TowerRing, PairParts
    <2>3. /\ Sum(f, Sum(f, u, v), w) = <<Add(Add(u[1], v[1]), w[1]), Add(Add(u[2], v[2]), w[2])>>
          /\ Sum(f, u, Sum(f, v, w)) = <<Add(u[1], Add(v[1], w[1])), Add(u[2], Add(v[2], w[2]))>>
          /\ Sum(f, Sum(f, u, v), v) = <<Add(Add(u[1], v[1]), v[1]), Add(Add(u[2], v[2]), v[2])>>
          /\ Sum(f, Sum(f, u, v), Sum(f, v, w))
               = <<Add(Add(u[1], v[1]), Add(v[1], w[1])), Add(Add(u[2], v[2]), Add(v[2], w[2]))>>
      BY <2>1
    <2>4. Sum(f, u, None(f)) = <<Add(u[1], {}), Add(u[2], {})>>
      BY <2>1, <2>2
    <2>5. Sum(f, u, v) = Sum(f, v, u) /\ Sum(f, u, u) = None(f)
      BY <1>1, <2>1, <2>2
    <2>6. Sum(f, Sum(f, u, v), w) = Sum(f, u, Sum(f, v, w))
      BY <1>1, <2>3
    <2>7. Sum(f, u, None(f)) = u /\ Sum(f, Sum(f, u, v), v) = u
      <3>1. Add(u[1], {}) = u[1] /\ Add(u[2], {}) = u[2]
        BY AddLaws
      <3>2. Add(Add(u[1], v[1]), v[1]) = u[1] /\ Add(Add(u[2], v[2]), v[2]) = u[2]
        BY <1>1
      <3>3. Sum(f, u, None(f)) = u
        BY <2>2, <2>4, <3>1
      <3>4. Sum(f, Sum(f, u, v), v) = u
        BY <2>2, <2>3, <3>2
      <3> QED BY <3>3, <3>4
    <2>8. Sum(f, Sum(f, u, v), Sum(f, v, w)) = Sum(f, u, w)
      BY <1>1, <2>1, <2>3
    <2> QED BY <2>5, <2>6, <2>7, <2>8
  <1> QED BY <1>2, <1>3 DEF Rings

LEMMA RingCommutes ==
  ASSUME NEW f \in Rings, NEW u \in Elements(f), NEW v \in Elements(f)
  PROVE  Product(f, u, v) = Product(f, v, u)
  <1>1. CASE f \in {"gf16", "gf256"}
    BY <1>1, SmallRing, MulCommutes
  <1>2. CASE f = "gf256x2"
    BY <1>2, TowerRing, PairCommutes
  <1> QED BY <1>1, <1>2 DEF Rings

LEMMA RingAssociates ==
  ASSUME NEW f \in Rings, NEW u \in Elements(f), NEW v \in Elements(f), NEW w \in Elements(f)
  PROVE  Product(f, Product(f, u, v), w) = Product(f, u, Product(f, v, w))
  <1>1. CASE f \in {"gf16", "gf256"}
    <2>1. Mul(f, u, v) \in Element(f) /\ Mul(f, v, w) \in Element(f)
      BY <1>1, SmallRing, MulTyped
    <2> QED BY <1>1, <2>1, SmallRing, MulAssociates
  <1>2. CASE f = "gf256x2"
    BY <1>2, TowerRing, PairAssociates
  <1> QED BY <1>1, <1>2 DEF Rings

LEMMA RingDistributes ==
  ASSUME NEW f \in Rings, NEW u \in Elements(f), NEW v \in Elements(f), NEW w \in Elements(f)
  PROVE  Product(f, u, Sum(f, v, w)) = Sum(f, Product(f, u, v), Product(f, u, w))
  <1>1. CASE f \in {"gf16", "gf256"}
    <2>1. Add(v, w) \in Element(f)
      BY <1>1, SmallRing, ElementTyped
    <2> QED BY <1>1, <2>1, SmallRing, MulAdds
  <1>2. CASE f = "gf256x2"
    BY <1>2, TowerRing, PairDistributes
  <1> QED BY <1>1, <1>2 DEF Rings

LEMMA RingUnits ==
  ASSUME NEW f \in Rings, NEW u \in Elements(f)
  PROVE  Product(f, u, One(f)) = u /\ Product(f, u, None(f)) = None(f)
  <1>1. CASE f \in {"gf16", "gf256"}
    <2>1. f \in DOMAIN Degree /\ u \in Element(f)
      BY <1>1, SmallRing
    <2>2. /\ {} \in Element(f) /\ {0} \in Element(f)
          /\ Mul(f, u, {0}) = u /\ Mul(f, u, {}) = {}
      BY <2>1, MulOne, ElementTyped
    <2> QED BY <1>1, <2>1, <2>2, SmallRing
  <1>2. CASE f = "gf256x2"
    <2>0. /\ u[1] \in Element("gf256") /\ u[2] \in Element("gf256") /\ u = <<u[1], u[2]>>
          /\ One(f) \in Pair /\ None(f) \in Pair
          /\ One(f)[1] = {0} /\ One(f)[2] = {} /\ None(f)[1] = {} /\ None(f)[2] = {}
      BY <1>2, TowerRing, PairParts, RingClosed
    <2>1. /\ Mul256(u[1], {0}) = u[1] /\ Mul256(u[2], {0}) = u[2]
          /\ Mul256(u[1], {}) = {} /\ Mul256(u[2], {}) = {} /\ Mul256({}, {5}) = {}
      <3>1. {5} \in Element("gf256") /\ {} \in Element("gf256")
        BY <2>0, BaseClosed
      <3>2. Mul256({}, {5}) = Mul256({5}, {})
        BY <3>1, BaseCommutes
      <3> QED BY <2>0, <3>1, <3>2, BaseProducts
    <2>5. u \in Pair
      BY <1>2, TowerRing
    <2>2. Times(u, One(f)) = <<Add(u[1], {}), Add(Add({}, u[2]), {})>>
      <3>1. Times(u, One(f))
              = <<Add(Mul256(u[1], {0}), Mul256(Mul256(u[2], {}), {5})),
                  Add(Add(Mul256(u[1], {}), Mul256(u[2], {0})), Mul256(u[2], {}))>>
        BY <2>0, <2>5, TimesCoefficients
      <3> QED BY <2>1, <3>1
    <2>3. Times(u, None(f)) = <<Add({}, {}), Add(Add({}, {}), {})>>
      <3>1. Times(u, None(f))
              = <<Add(Mul256(u[1], {}), Mul256(Mul256(u[2], {}), {5})),
                  Add(Add(Mul256(u[1], {}), Mul256(u[2], {})), Mul256(u[2], {}))>>
        BY <2>0, <2>5, TimesCoefficients
      <3> QED BY <2>1, <3>1
    <2>4. \A p : Add(p, {}) = p /\ Add({}, p) = p
      BY AddLaws
    <2> QED BY <1>2, <2>0, <2>2, <2>3, <2>4, TowerRing
  <1> QED BY <1>1, <1>2 DEF Rings

-----------------------------------------------------------------------------
(* Repeated squaring *)

LEMMA SquareAdds ==
  ASSUME NEW f \in Rings, NEW u \in Elements(f), NEW v \in Elements(f)
  PROVE  Product(f, Sum(f, u, v), Sum(f, u, v)) = Sum(f, Product(f, u, u), Product(f, v, v))
  <1> DEFINE s == Sum(f, u, v)
  <1>1. s \in Elements(f)
    BY RingClosed
  <1>2. Product(f, s, s) = Sum(f, Product(f, s, u), Product(f, s, v))
    <2>1. Product(f, s, Sum(f, u, v)) = Sum(f, Product(f, s, u), Product(f, s, v))
      <3> HIDE DEF s
      <3> QED BY <1>1, RingDistributes
    <2> QED BY <2>1
  <1>3. /\ Product(f, s, u) = Product(f, u, s) /\ Product(f, s, v) = Product(f, v, s)
        /\ Product(f, v, u) = Product(f, u, v)
    <2> HIDE DEF s
    <2> QED BY <1>1, RingCommutes
  <1>4. /\ Product(f, u, s) = Sum(f, Product(f, u, u), Product(f, u, v))
        /\ Product(f, v, s) = Sum(f, Product(f, v, u), Product(f, v, v))
    BY RingDistributes
  <1>5. /\ Product(f, u, u) \in Elements(f) /\ Product(f, u, v) \in Elements(f)
        /\ Product(f, v, v) \in Elements(f)
    BY RingClosed
  <1>6. Sum(f, Sum(f, Product(f, u, u), Product(f, u, v)), Sum(f, Product(f, u, v), Product(f, v, v)))
          = Sum(f, Product(f, u, u), Product(f, v, v))
    BY <1>5, SumLaws
  <1> QED BY <1>2, <1>3, <1>4, <1>6

LEMMA SquareMuls ==
  ASSUME NEW f \in Rings, NEW u \in Elements(f), NEW v \in Elements(f)
  PROVE  Product(f, Product(f, u, v), Product(f, u, v))
           = Product(f, Product(f, u, u), Product(f, v, v))
  <1>1. /\ Product(f, u, v) \in Elements(f) /\ Product(f, v, v) \in Elements(f)
        /\ Product(f, v, u) = Product(f, u, v)
    BY RingClosed, RingCommutes
  <1>2. Product(f, Product(f, u, v), Product(f, u, v))
          = Product(f, u, Product(f, v, Product(f, u, v)))
    BY <1>1, RingAssociates
  <1>3. Product(f, v, Product(f, v, u)) = Product(f, Product(f, v, v), u)
    BY RingAssociates
  <1>4. Product(f, Product(f, v, v), u) = Product(f, u, Product(f, v, v))
    BY <1>1, RingCommutes
  <1>5. Product(f, u, Product(f, u, Product(f, v, v)))
          = Product(f, Product(f, u, u), Product(f, v, v))
    BY <1>1, RingAssociates
  <1> QED BY <1>1, <1>2, <1>3, <1>4, <1>5

(* u to the power 2^n, for n up to 16. *)
Squared(f, u) ==
  LET squared[n \in 0 .. 16] ==
        IF n = 0 THEN u ELSE Product(f, squared[n - 1], squared[n - 1])
  IN squared

LEMMA SquaredTurns ==
  ASSUME NEW f \in Rings, NEW u \in Elements(f)
  PROVE  /\ Squared(f, u)[0] = u
         /\ \A n \in 0 .. 16 : Squared(f, u)[n] \in Elements(f)
         /\ \A n \in 0 .. 15 :
              Squared(f, u)[n + 1] = Product(f, Squared(f, u)[n], Squared(f, u)[n])
  <1> DEFINE step == [p \in Nat \X Elements(f) |-> Product(f, p[2], p[2])]
             Runs(g) == g = [n \in 0 .. 16 |->
                               IF n = 0 THEN u ELSE Product(f, g[n - 1], g[n - 1])]
  <1>1. step \in [Nat \X Elements(f) -> Elements(f)]
    <2>1. \A p \in Nat \X Elements(f) : p[2] \in Elements(f)
      OBVIOUS
    <2>2. \A v \in Elements(f) : Product(f, v, v) \in Elements(f)
      BY RingClosed
    <2> QED BY <2>1, <2>2
  <1>2. \E g : Recurses(g, Elements(f), u, step, 16)
    <2> HIDE DEF step
    <2> QED BY <1>1, RecursionExists
  <1>3. PICK g \in [0 .. 16 -> Elements(f)] :
          g[0] = u /\ \A n \in 1 .. 16 : g[n] = step[<<n, g[n - 1]>>]
    BY <1>2 DEF Recurses
  <1>4. \A n \in 1 .. 16 : g[n] = Product(f, g[n - 1], g[n - 1])
    <2>1. SUFFICES ASSUME NEW n \in 1 .. 16
                   PROVE  step[<<n, g[n - 1]>>] = Product(f, g[n - 1], g[n - 1])
      BY <1>3
    <2>2. n \in Nat /\ g[n - 1] \in Elements(f)
      BY <1>3
    <2> QED BY <2>2
  <1>5. Runs(g)
    <2>1. \A n \in 0 .. 16 : g[n] = IF n = 0 THEN u ELSE Product(f, g[n - 1], g[n - 1])
      <3>1. \A n \in 0 .. 16 : n # 0 => n \in 1 .. 16
        OBVIOUS
      <3> QED BY <1>3, <1>4, <3>1
    <2>2. DOMAIN g = 0 .. 16 /\ g = [n \in DOMAIN g |-> g[n]]
      BY <1>3
    <2> QED BY <2>1, <2>2
  <1>6. Squared(f, u) = CHOOSE h : Runs(h)
    BY DEF Squared
  <1>7. Runs(Squared(f, u))
    <2> HIDE DEF Runs
    <2> QED BY <1>5, <1>6
  <1> DEFINE h == Squared(f, u)
  <1>8. \A n \in 0 .. 16 : h[n] = IF n = 0 THEN u ELSE Product(f, h[n - 1], h[n - 1])
    BY <1>7
  <1> HIDE DEF h
  <1>9. ASSUME NEW n \in 0 .. 15 PROVE h[n + 1] = Product(f, h[n], h[n])
    <2>1. n + 1 \in 0 .. 16 /\ n + 1 # 0 /\ (n + 1) - 1 = n
      OBVIOUS
    <2> QED BY <1>8, <2>1
  <1>10. h[0] = u
    BY <1>8
  <1> DEFINE T == {n \in Nat : n <= 16 => h[n] \in Elements(f)}
  <1>11. 0 \in T
    BY <1>10
  <1>12. ASSUME NEW n \in Nat, n \in T PROVE n + 1 \in T
    <2>1. CASE n + 1 <= 16
      <3>1. n \in 0 .. 15 /\ h[n] \in Elements(f)
        BY <1>12, <2>1
      <3>2. h[n + 1] \in Elements(f)
        BY <1>9, <3>1, RingClosed
      <3> QED BY <3>2
    <2> QED BY <2>1
  <1>13. \A n \in Nat : n \in T
    <2> HIDE DEF T
    <2> QED BY <1>11, <1>12, Sets!NatSetInduction
  <1>14. \A n \in 0 .. 16 : h[n] \in Elements(f)
    BY <1>13
  <1> QED BY <1>9, <1>10, <1>14 DEF h

LEMMA SquareInduction ==
  ASSUME NEW T, NEW last \in Nat, 0 \in T, \A n \in 0 .. last - 1 : n \in T => n + 1 \in T
  PROVE  \A n \in 0 .. last : n \in T
  <1> DEFINE Good == {n \in Nat : n <= last => n \in T}
  <1>1. 0 \in Good
    OBVIOUS
  <1>2. ASSUME NEW n \in Nat, n \in Good PROVE n + 1 \in Good
    BY <1>2
  <1>3. \A n \in Nat : n \in Good
    <2> HIDE DEF Good
    <2> QED BY <1>1, <1>2, Sets!NatSetInduction
  <1> QED BY <1>3

LEMMA SquaredKeeps ==
  ASSUME NEW f \in Rings, NEW u \in Elements(f), NEW v \in Elements(f), NEW n \in 0 .. 16
  PROVE  /\ Squared(f, Sum(f, u, v))[n] = Sum(f, Squared(f, u)[n], Squared(f, v)[n])
         /\ Squared(f, Product(f, u, v))[n] = Product(f, Squared(f, u)[n], Squared(f, v)[n])
  <1> DEFINE T == {k \in 0 .. 16 :
                /\ Squared(f, Sum(f, u, v))[k] = Sum(f, Squared(f, u)[k], Squared(f, v)[k])
                /\ Squared(f, Product(f, u, v))[k]
                     = Product(f, Squared(f, u)[k], Squared(f, v)[k])}
  <1>1. Sum(f, u, v) \in Elements(f) /\ Product(f, u, v) \in Elements(f)
    BY RingClosed
  <1>2. 0 \in T
    BY <1>1, SquaredTurns
  <1>3. ASSUME NEW k \in 0 .. 15, k \in T PROVE k + 1 \in T
    <2>1. k \in 0 .. 16 /\ k + 1 \in 0 .. 16
      OBVIOUS
    <2>2. /\ Squared(f, u)[k + 1] = Product(f, Squared(f, u)[k], Squared(f, u)[k])
          /\ Squared(f, v)[k + 1] = Product(f, Squared(f, v)[k], Squared(f, v)[k])
          /\ Squared(f, u)[k] \in Elements(f) /\ Squared(f, v)[k] \in Elements(f)
      BY <2>1, SquaredTurns
    <2>3. /\ Squared(f, Sum(f, u, v))[k + 1]
               = Product(f, Squared(f, Sum(f, u, v))[k], Squared(f, Sum(f, u, v))[k])
          /\ Squared(f, Product(f, u, v))[k + 1]
               = Product(f, Squared(f, Product(f, u, v))[k], Squared(f, Product(f, u, v))[k])
      BY <1>1, SquaredTurns
    <2>4. /\ Squared(f, Sum(f, u, v))[k] = Sum(f, Squared(f, u)[k], Squared(f, v)[k])
          /\ Squared(f, Product(f, u, v))[k] = Product(f, Squared(f, u)[k], Squared(f, v)[k])
      BY <1>3
    <2> HIDE DEF T
    <2>5. Squared(f, Sum(f, u, v))[k + 1] = Sum(f, Squared(f, u)[k + 1], Squared(f, v)[k + 1])
      BY <2>2, <2>3, <2>4, SquareAdds
    <2>6. Squared(f, Product(f, u, v))[k + 1]
            = Product(f, Squared(f, u)[k + 1], Squared(f, v)[k + 1])
      BY <2>2, <2>3, <2>4, SquareMuls
    <2> QED BY <2>1, <2>5, <2>6 DEF T
  <1>4. \A k \in 0 .. 16 : k \in T
    <2>1. \A k \in 0 .. 16 - 1 : k \in T => k + 1 \in T
      <3> HIDE DEF T
      <3> QED BY <1>3
    <2> HIDE DEF T
    <2> QED BY <1>2, <2>1, SquareInduction
  <1> QED BY <1>4

LEMMA SquaredLater ==
  ASSUME NEW f \in Rings, NEW u \in Elements(f), NEW m \in 0 .. 16, NEW n \in 0 .. 16 - m
  PROVE  Squared(f, u)[m + n] = Squared(f, Squared(f, u)[m])[n]
  <1> DEFINE w == Squared(f, u)[m]
             T == {k \in 0 .. 16 - m : Squared(f, u)[m + k] = Squared(f, w)[k]}
  <1>1. w \in Elements(f)
    BY SquaredTurns
  <1>2. 0 \in T
    <2>1. m + 0 = m /\ 0 \in 0 .. 16 - m
      OBVIOUS
    <2> QED BY <1>1, <2>1, SquaredTurns
  <1> HIDE DEF w
  <1>3. ASSUME NEW k \in 0 .. (16 - m) - 1, k \in T PROVE k + 1 \in T
    <2>1. /\ k \in 0 .. 15 /\ m + k \in 0 .. 15 /\ m + (k + 1) = (m + k) + 1
          /\ k + 1 \in 0 .. 16 - m
      OBVIOUS
    <2>2. /\ Squared(f, u)[(m + k) + 1]
               = Product(f, Squared(f, u)[m + k], Squared(f, u)[m + k])
          /\ Squared(f, w)[k + 1] = Product(f, Squared(f, w)[k], Squared(f, w)[k])
      BY <1>1, <2>1, SquaredTurns
    <2>3. Squared(f, u)[m + k] = Squared(f, w)[k]
      BY <1>3
    <2> QED BY <2>1, <2>2, <2>3
  <1>4. \A k \in 0 .. 16 - m : k \in T
    <2>1. 16 - m \in Nat
      OBVIOUS
    <2> HIDE DEF T
    <2> QED BY <1>2, <1>3, <2>1, SquareInduction
  <1> QED BY <1>4 DEF w

-----------------------------------------------------------------------------
(* The squares, bit by bit *)

SquareBit16(k, u) ==
  \/ k = 0 /\ ((0 \in u) # (2 \in u))
  \/ k = 1 /\ 2 \in u
  \/ k = 2 /\ ((1 \in u) # (3 \in u))
  \/ k = 3 /\ 3 \in u

SquareBit256(k, u) ==
  \/ k = 0 /\ (((0 \in u) # (4 \in u)) # (6 \in u))
  \/ k = 1 /\ (((4 \in u) # (6 \in u)) # (7 \in u))
  \/ k = 2 /\ ((1 \in u) # (5 \in u))
  \/ k = 3 /\ (((4 \in u) # (5 \in u)) # ((6 \in u) # (7 \in u)))
  \/ k = 4 /\ (((2 \in u) # (4 \in u)) # (7 \in u))
  \/ k = 5 /\ ((5 \in u) # (6 \in u))
  \/ k = 6 /\ ((3 \in u) # (5 \in u))
  \/ k = 7 /\ ((6 \in u) # (7 \in u))

LEMMA IsAdd ==
  ASSUME NEW p, NEW q, NEW r, \A k : k \in r <=> ((k \in p) # (k \in q))
  PROVE  r = Add(p, q)
  BY DEF Add

LEMMA DoubleBits16 ==
  ASSUME NEW u \in Element("gf16")
  PROVE  Double("gf16", u) = {k \in 0 .. 3 : (k - 1 \in u) # (3 \in u /\ k \in {0, 1})}
  <1>1. u \subseteq 0 .. 3 /\ Degree["gf16"] - 1 = 3 /\ Reduction["gf16"] = {0, 1}
    BY DEF Element, Degree, Reduction
  <1>2. Double("gf16", u) = Add({k + 1 : k \in u \ {3}}, IF 3 \in u THEN {0, 1} ELSE {})
    BY <1>1 DEF Double
  <1>3. {k + 1 : k \in u \ {3}} = {k \in 0 .. 3 : k - 1 \in u}
    <2>1. ASSUME NEW n PROVE n \in {k + 1 : k \in u \ {3}} <=> n \in 0 .. 3 /\ n - 1 \in u
      <3>1. ASSUME NEW k \in u, k # 3 PROVE k \in 0 .. 2
        <4>1. k \in 0 .. 3
          BY <1>1
        <4> QED BY <3>1, <4>1
      <3>2. \A k \in u \ {3} : n = k + 1 => n \in 0 .. 3 /\ n - 1 = k
        BY <3>1
      <3>3. n \in 0 .. 3 /\ n - 1 \in u => n - 1 \in u \ {3} /\ n = (n - 1) + 1
        OBVIOUS
      <3> QED BY <3>2, <3>3
    <2> QED BY <2>1
  <1> QED BY <1>2, <1>3 DEF Add

(* The square of a power of x. *)
LEMMA SquareOfPower ==
  ASSUME NEW f \in DOMAIN Degree, NEW i \in 0 .. Degree[f] - 1
  PROVE  Mul(f, {i}, {i}) = IF i + i < Degree[f] THEN {i + i}
                            ELSE Doubled(f, i + i - Degree[f], Reduction[f])
  <1>1. {i} \in Element(f) /\ i \in Nat /\ i \in 0 .. Degree[f] /\ Degree[f] \in Nat
    BY Singletons, Degrees
  <1>2. Mul(f, {i}, {i}) = Value(f, {i + i})
    BY <1>1, MulSingle, ValueOfPower
  <1>3. CASE i + i < Degree[f]
    <2>1. i + i \in 0 .. Degree[f] - 1
      BY <1>1, <1>3
    <2>2. {i + i} \in Element(f)
      BY <2>1, Singletons
    <2> QED BY <1>2, <1>3, <2>2, ValueOfElement
  <1>4. CASE ~ (i + i < Degree[f])
    <2> DEFINE t == i + i - Degree[f]
    <2>1. t \in 0 .. Degree[f] - 2 /\ Degree[f] + t = i + i
      BY <1>1, <1>4
    <2> HIDE DEF t
    <2>2. Value(f, {Degree[f] + t}) = Doubled(f, t, Reduction[f])
      BY <2>1, ValueOfHigh
    <2> QED BY <1>2, <1>4, <2>1, <2>2 DEF t
  <1> QED BY <1>3, <1>4

LEMMA ReductionDoubled ==
  /\ Doubled("gf256", 0, {0, 1, 3, 4}) = {0, 1, 3, 4}
  /\ Doubled("gf256", 2, {0, 1, 3, 4}) = {2, 3, 5, 6}
  /\ Doubled("gf256", 4, {0, 1, 3, 4}) = {0, 1, 3, 5, 7}
  /\ Doubled("gf256", 6, {0, 1, 3, 4}) = {1, 3, 4, 7}
  /\ Doubled("gf16", 0, {0, 1}) = {0, 1} /\ Doubled("gf16", 2, {0, 1}) = {2, 3}
  <1> DEFINE g(n) == Doubled("gf256", n, {0, 1, 3, 4})
             h(n) == Doubled("gf16", n, {0, 1})
  <1>1. /\ \A u \in SUBSET (0 .. 7) : u \in Element("gf256")
        /\ \A u \in SUBSET (0 .. 3) : u \in Element("gf16")
    BY Names DEF Element
  <1>2. {0, 1, 3, 4} \in Element("gf256") /\ {0, 1} \in Element("gf16")
    BY <1>1
  <1>3. g(0) = {0, 1, 3, 4} /\ \A n \in 0 .. 7 : g(n + 1) = Double("gf256", g(n))
    BY <1>2, DoubledTurns, Names
  <1>4. h(0) = {0, 1} /\ \A n \in 0 .. 3 : h(n + 1) = Double("gf16", h(n))
    BY <1>2, DoubledTurns, Names
  <1>5. /\ g(1) = Double("gf256", g(0)) /\ g(2) = Double("gf256", g(1))
        /\ g(3) = Double("gf256", g(2)) /\ g(4) = Double("gf256", g(3))
        /\ g(5) = Double("gf256", g(4)) /\ g(6) = Double("gf256", g(5))
        /\ h(1) = Double("gf16", h(0)) /\ h(2) = Double("gf16", h(1))
    <2> HIDE DEF g, h
    <2> QED BY <1>3, <1>4
  <1>6. Double("gf256", {0, 1, 3, 4}) = {1, 2, 4, 5}
    BY <1>1, DoubleBits
  <1>7. Double("gf256", {1, 2, 4, 5}) = {2, 3, 5, 6}
    BY <1>1, DoubleBits
  <1>8. Double("gf256", {2, 3, 5, 6}) = {3, 4, 6, 7}
    BY <1>1, DoubleBits
  <1>9. Double("gf256", {3, 4, 6, 7}) = {0, 1, 3, 5, 7}
    BY <1>1, DoubleBits
  <1>10. Double("gf256", {0, 1, 3, 5, 7}) = {0, 2, 3, 6}
    BY <1>1, DoubleBits
  <1>11. Double("gf256", {0, 2, 3, 6}) = {1, 3, 4, 7}
    BY <1>1, DoubleBits
  <1>12. Double("gf16", {0, 1}) = {1, 2}
    BY <1>1, DoubleBits16
  <1>13. Double("gf16", {1, 2}) = {2, 3}
    BY <1>1, DoubleBits16
  <1> HIDE DEF g, h
  <1>14. /\ g(2) = {2, 3, 5, 6} /\ g(4) = {0, 1, 3, 5, 7} /\ g(6) = {1, 3, 4, 7}
         /\ h(2) = {2, 3}
    BY <1>3, <1>4, <1>5, <1>6, <1>7, <1>8, <1>9, <1>10, <1>11, <1>12, <1>13
  <1> QED BY <1>3, <1>4, <1>14 DEF g, h

LEMMA SquareBits16 ==
  ASSUME NEW u \in Element("gf16")
  PROVE  Product("gf16", u, u) = {k \in 0 .. 3 : SquareBit16(k, u)}
  <1> DEFINE g == [w \in Element("gf16") |-> Product("gf16", w, w)]
             h == [w \in Element("gf16") |-> {k \in 0 .. 3 : SquareBit16(k, w)}]
  <1>1. Additive("gf16", g)
    <2>1. SUFFICES ASSUME NEW v \in Element("gf16"), NEW w \in Element("gf16")
                   PROVE  g[Add(v, w)] = Add(g[v], g[w])
      BY DEF Additive
    <2>2. Add(v, w) \in Element("gf16")
      BY ElementTyped, Names
    <2> QED BY <2>2, SquareAdds, SmallRing DEF Rings
  <1>2. Additive("gf16", h)
    <2>1. SUFFICES ASSUME NEW v \in Element("gf16"), NEW w \in Element("gf16")
                   PROVE  h[Add(v, w)] = Add(h[v], h[w])
      BY DEF Additive
    <2>2. Add(v, w) \in Element("gf16")
      BY ElementTyped, Names
    <2>3. ASSUME NEW k PROVE SquareBit16(k, Add(v, w)) <=> ~ (SquareBit16(k, v) <=> SquareBit16(k, w))
      <3>1. \A n : n \in Add(v, w) <=> ((n \in v) # (n \in w))
        BY DEF Add
      <3> QED BY <3>1 DEF SquareBit16
    <2> DEFINE S(z) == {k \in 0 .. 3 : SquareBit16(k, z)}
    <2>4. \A k : k \in S(Add(v, w)) <=> ((k \in S(v)) # (k \in S(w)))
      BY <2>3
    <2>5. S(Add(v, w)) = Add(S(v), S(w))
      <3> HIDE DEF S
      <3> QED BY <2>4, IsAdd
    <2> QED BY <2>2, <2>5
  <1>3. ASSUME NEW i \in 0 .. 3 PROVE g[{i}] = h[{i}]
    <2>1. {i} \in Element("gf16")
      BY EmbedPower
    <2>2. Mul("gf16", {i}, {i}) = IF i + i < 4 THEN {i + i} ELSE Doubled("gf16", i + i - 4, {0, 1})
      <3>1. i \in 0 .. Degree["gf16"] - 1 /\ Reduction["gf16"] = {0, 1}
        BY Names DEF Reduction
      <3> QED BY <3>1, SquareOfPower, Names
    <2>3. Mul("gf16", {i}, {i}) = {k \in 0 .. 3 : SquareBit16(k, {i})}
      <3>1. CASE i = 0
        BY <2>2, <3>1 DEF SquareBit16
      <3>2. CASE i = 1
        BY <2>2, <3>2 DEF SquareBit16
      <3>3. CASE i = 2
        <4>1. Mul("gf16", {2}, {2}) = {0, 1}
          BY <2>2, <3>3, ReductionDoubled
        <4>2. {k \in 0 .. 3 : SquareBit16(k, {2})} = {0, 1}
          BY DEF SquareBit16
        <4> QED BY <3>3, <4>1, <4>2
      <3>4. CASE i = 3
        BY <2>2, <3>4, ReductionDoubled DEF SquareBit16
      <3> QED BY <3>1, <3>2, <3>3, <3>4
    <2> QED BY <2>1, <2>3, SmallRing
  <1>4. \A i \in 0 .. Degree["gf16"] - 1 : g[{i}] = h[{i}]
    <2> HIDE DEF g, h
    <2> QED BY <1>3, Names
  <1>5. g[u] = h[u]
    <2> HIDE DEF g, h
    <2> QED BY <1>1, <1>2, <1>4, Agree, Names
  <1> QED BY <1>5

LEMMA SquareBits256 ==
  ASSUME NEW u \in Element("gf256")
  PROVE  Product("gf256", u, u) = {k \in 0 .. 7 : SquareBit256(k, u)}
  <1> DEFINE g == [w \in Element("gf256") |-> Product("gf256", w, w)]
             h == [w \in Element("gf256") |-> {k \in 0 .. 7 : SquareBit256(k, w)}]
  <1>1. Additive("gf256", g)
    <2>1. SUFFICES ASSUME NEW v \in Element("gf256"), NEW w \in Element("gf256")
                   PROVE  g[Add(v, w)] = Add(g[v], g[w])
      BY DEF Additive
    <2>2. Add(v, w) \in Element("gf256")
      BY ElementTyped, Names
    <2> QED BY <2>2, SquareAdds, SmallRing DEF Rings
  <1>2. Additive("gf256", h)
    <2>1. SUFFICES ASSUME NEW v \in Element("gf256"), NEW w \in Element("gf256")
                   PROVE  h[Add(v, w)] = Add(h[v], h[w])
      BY DEF Additive
    <2>2. Add(v, w) \in Element("gf256")
      BY ElementTyped, Names
    <2>3. ASSUME NEW k PROVE SquareBit256(k, Add(v, w)) <=> ~ (SquareBit256(k, v) <=> SquareBit256(k, w))
      <3>1. \A n : n \in Add(v, w) <=> ((n \in v) # (n \in w))
        BY DEF Add
      <3> QED BY <3>1 DEF SquareBit256
    <2> DEFINE S(z) == {k \in 0 .. 7 : SquareBit256(k, z)}
    <2>4. \A k : k \in S(Add(v, w)) <=> ((k \in S(v)) # (k \in S(w)))
      BY <2>3
    <2>5. S(Add(v, w)) = Add(S(v), S(w))
      <3> HIDE DEF S
      <3> QED BY <2>4, IsAdd
    <2> QED BY <2>2, <2>5
  <1>3. ASSUME NEW i \in 0 .. 7 PROVE g[{i}] = h[{i}]
    <2>1. {i} \in Element("gf256") /\ i \in 0 .. Degree["gf256"] - 1
      BY Singletons, Names
    <2>2. Mul("gf256", {i}, {i})
            = IF i + i < 8 THEN {i + i} ELSE Doubled("gf256", i + i - 8, {0, 1, 3, 4})
      <3>1. Reduction["gf256"] = {0, 1, 3, 4}
        BY DEF Reduction
      <3> QED BY <2>1, <3>1, SquareOfPower, Names
    <2>3. Mul("gf256", {i}, {i}) = {k \in 0 .. 7 : SquareBit256(k, {i})}
      <3>1. CASE i = 0
        <4>1. Mul("gf256", {0}, {0}) = {0}
          BY <2>2, <3>1
        <4>2. {k \in 0 .. 7 : SquareBit256(k, {0})} = {0}
          BY DEF SquareBit256
        <4> QED BY <3>1, <4>1, <4>2
      <3>2. CASE i = 1
        <4>1. Mul("gf256", {1}, {1}) = {2}
          BY <2>2, <3>2
        <4>2. {k \in 0 .. 7 : SquareBit256(k, {1})} = {2}
          BY DEF SquareBit256
        <4> QED BY <3>2, <4>1, <4>2
      <3>3. CASE i = 2
        <4>1. Mul("gf256", {2}, {2}) = {4}
          BY <2>2, <3>3
        <4>2. {k \in 0 .. 7 : SquareBit256(k, {2})} = {4}
          BY DEF SquareBit256
        <4> QED BY <3>3, <4>1, <4>2
      <3>4. CASE i = 3
        <4>1. Mul("gf256", {3}, {3}) = {6}
          BY <2>2, <3>4
        <4>2. {k \in 0 .. 7 : SquareBit256(k, {3})} = {6}
          BY DEF SquareBit256
        <4> QED BY <3>4, <4>1, <4>2
      <3>5. CASE i = 4
        <4>1. Mul("gf256", {4}, {4}) = {0, 1, 3, 4}
          BY <2>2, <3>5, ReductionDoubled
        <4>2. {k \in 0 .. 7 : SquareBit256(k, {4})} = {0, 1, 3, 4}
          BY DEF SquareBit256
        <4> QED BY <3>5, <4>1, <4>2
      <3>6. CASE i = 5
        <4>1. Mul("gf256", {5}, {5}) = {2, 3, 5, 6}
          BY <2>2, <3>6, ReductionDoubled
        <4>2. {k \in 0 .. 7 : SquareBit256(k, {5})} = {2, 3, 5, 6}
          BY DEF SquareBit256
        <4> QED BY <3>6, <4>1, <4>2
      <3>7. CASE i = 6
        <4>1. Mul("gf256", {6}, {6}) = {0, 1, 3, 5, 7}
          BY <2>2, <3>7, ReductionDoubled
        <4>2. {k \in 0 .. 7 : SquareBit256(k, {6})} = {0, 1, 3, 5, 7}
          BY DEF SquareBit256
        <4> QED BY <3>7, <4>1, <4>2
      <3>8. CASE i = 7
        <4>1. Mul("gf256", {7}, {7}) = {1, 3, 4, 7}
          BY <2>2, <3>8, ReductionDoubled
        <4>2. {k \in 0 .. 7 : SquareBit256(k, {7})} = {1, 3, 4, 7}
          BY DEF SquareBit256
        <4> QED BY <3>8, <4>1, <4>2
      <3>9. \/ i = 0 \/ i = 1 \/ i = 2 \/ i = 3 \/ i = 4 \/ i = 5 \/ i = 6 \/ i = 7
        OBVIOUS
      <3> QED BY <3>1, <3>2, <3>3, <3>4, <3>5, <3>6, <3>7, <3>8, <3>9
    <2> QED BY <2>1, <2>3, SmallRing
  <1>4. \A i \in 0 .. Degree["gf256"] - 1 : g[{i}] = h[{i}]
    <2> HIDE DEF g, h
    <2> QED BY <1>3, Names
  <1>5. g[u] = h[u]
    <2>1. "gf256" \in DOMAIN Degree
      BY Names
    <2> HIDE DEF g, h
    <2> QED BY <1>1, <1>2, <1>4, <2>1, Agree
  <1> QED BY <1>5

-----------------------------------------------------------------------------
(* Every element of a field of 2^n elements is its own 2^n-th power. *)

(* x is fixed by four squarings of the small field *)
LEMMA XFixed16 ==
  /\ {1} \in Elements("gf16") /\ Squared("gf16", {1})[4] = {1}
  <1>1. {1} \in Element("gf16") /\ {1} \in Elements("gf16")
    BY SmallRing, Names DEF Element
  <1>2. \A u \in SUBSET (0 .. 3) : Product("gf16", u, u) = {k \in 0 .. 3 : SquareBit16(k, u)}
    BY SquareBits16, Names DEF Element
  <1> DEFINE s(n) == Squared("gf16", {1})[n]
  <1>3. s(0) = {1} /\ \A n \in 0 .. 15 : s(n + 1) = Product("gf16", s(n), s(n))
    BY <1>1, SquaredTurns DEF Rings
  <1> HIDE DEF s
  <1>4. s(1) = {2}
    <2>1. s(0 + 1) = Product("gf16", {1}, {1})
      BY <1>3
    <2>2. Product("gf16", {1}, {1}) = {2}
      BY <1>2 DEF SquareBit16
    <2> QED BY <2>1, <2>2
  <1>5. s(2) = {0, 1}
    <2>1. s(1 + 1) = Product("gf16", {2}, {2})
      BY <1>3, <1>4
    <2>2. Product("gf16", {2}, {2}) = {0, 1}
      BY <1>2 DEF SquareBit16
    <2> QED BY <2>1, <2>2
  <1>6. s(3) = {0, 2}
    <2>1. s(2 + 1) = Product("gf16", {0, 1}, {0, 1})
      BY <1>3, <1>5
    <2>2. Product("gf16", {0, 1}, {0, 1}) = {0, 2}
      BY <1>2 DEF SquareBit16
    <2> QED BY <2>1, <2>2
  <1>7. s(4) = {1}
    <2>1. s(3 + 1) = Product("gf16", {0, 2}, {0, 2})
      BY <1>3, <1>6
    <2>2. Product("gf16", {0, 2}, {0, 2}) = {1}
      BY <1>2 DEF SquareBit16
    <2> QED BY <2>1, <2>2
  <1> QED BY <1>1, <1>7 DEF s

(* and by eight of the middle one. *)
LEMMA XFixed256 ==
  /\ {1} \in Elements("gf256") /\ Squared("gf256", {1})[8] = {1}
  <1>1. {1} \in Element("gf256") /\ {1} \in Elements("gf256")
    BY SmallRing, Names DEF Element
  <1>2. \A u \in SUBSET (0 .. 7) : Product("gf256", u, u) = {k \in 0 .. 7 : SquareBit256(k, u)}
    BY SquareBits256, Names DEF Element
  <1> DEFINE s(n) == Squared("gf256", {1})[n]
  <1>3. s(0) = {1} /\ \A n \in 0 .. 15 : s(n + 1) = Product("gf256", s(n), s(n))
    BY <1>1, SquaredTurns DEF Rings
  <1> HIDE DEF s
  <1>4. s(1) = {2}
    <2>1. s(0 + 1) = Product("gf256", {1}, {1})
      BY <1>3
    <2>2. Product("gf256", {1}, {1}) = {2}
      BY <1>2 DEF SquareBit256
    <2> QED BY <2>1, <2>2
  <1>5. s(2) = {4}
    <2>1. s(1 + 1) = Product("gf256", {2}, {2})
      BY <1>3, <1>4
    <2>2. Product("gf256", {2}, {2}) = {4}
      BY <1>2 DEF SquareBit256
    <2> QED BY <2>1, <2>2
  <1>6. s(3) = {0, 1, 3, 4}
    <2>1. s(2 + 1) = Product("gf256", {4}, {4})
      BY <1>3, <1>5
    <2>2. Product("gf256", {4}, {4}) = {0, 1, 3, 4}
      BY <1>2 DEF SquareBit256
    <2> QED BY <2>1, <2>2
  <1>7. s(4) = {1, 2, 3, 4, 6}
    <2>1. s(3 + 1) = Product("gf256", {0, 1, 3, 4}, {0, 1, 3, 4})
      BY <1>3, <1>6
    <2>2. Product("gf256", {0, 1, 3, 4}, {0, 1, 3, 4}) = {1, 2, 3, 4, 6}
      BY <1>2 DEF SquareBit256
    <2> QED BY <2>1, <2>2
  <1>8. s(5) = {2, 5, 6, 7}
    <2>1. s(4 + 1) = Product("gf256", {1, 2, 3, 4, 6}, {1, 2, 3, 4, 6})
      BY <1>3, <1>7
    <2>2. Product("gf256", {1, 2, 3, 4, 6}, {1, 2, 3, 4, 6}) = {2, 5, 6, 7}
      BY <1>2 DEF SquareBit256
    <2> QED BY <2>1, <2>2
  <1>9. s(6) = {0, 2, 3, 6}
    <2>1. s(5 + 1) = Product("gf256", {2, 5, 6, 7}, {2, 5, 6, 7})
      BY <1>3, <1>8
    <2>2. Product("gf256", {2, 5, 6, 7}, {2, 5, 6, 7}) = {0, 2, 3, 6}
      BY <1>2 DEF SquareBit256
    <2> QED BY <2>1, <2>2
  <1>10. s(7) = {1, 3, 4, 5, 6, 7}
    <2>1. s(6 + 1) = Product("gf256", {0, 2, 3, 6}, {0, 2, 3, 6})
      BY <1>3, <1>9
    <2>2. Product("gf256", {0, 2, 3, 6}, {0, 2, 3, 6}) = {1, 3, 4, 5, 6, 7}
      BY <1>2 DEF SquareBit256
    <2> QED BY <2>1, <2>2
  <1>11. s(8) = {1}
    <2>1. s(7 + 1) = Product("gf256", {1, 3, 4, 5, 6, 7}, {1, 3, 4, 5, 6, 7})
      BY <1>3, <1>10
    <2>2. Product("gf256", {1, 3, 4, 5, 6, 7}, {1, 3, 4, 5, 6, 7}) = {1}
      BY <1>2 DEF SquareBit256
    <2> QED BY <2>1, <2>2
  <1> QED BY <1>1, <1>11 DEF s

LEMMA SmallFixed ==
  ASSUME NEW f \in {"gf16", "gf256"}, NEW u \in Element(f)
  PROVE  u \in Elements(f) /\ Squared(f, u)[Degree[f]] = u
  <1> DEFINE last == Degree[f]
             g == [w \in Element(f) |-> Squared(f, w)[last]]
             h == [w \in Element(f) |-> w]
             T == {n \in 0 .. Degree[f] : n < Degree[f] => g[{n}] = {n}}
  <1>1. /\ f \in DOMAIN Degree /\ f \in Rings /\ Elements(f) = Element(f)
        /\ last \in 0 .. 16 /\ Degree[f] \in Nat /\ Degree[f] \in {4, 8}
    BY SmallRing, Degrees DEF Rings
  <1> HIDE DEF last
  <1>2. Additive(f, g) /\ Additive(f, h)
    <2>1. SUFFICES ASSUME NEW v \in Element(f), NEW w \in Element(f)
                   PROVE  g[Add(v, w)] = Add(g[v], g[w]) /\ h[Add(v, w)] = Add(h[v], h[w])
      <3> HIDE DEF g, h
      <3> QED BY DEF Additive
    <2>2. Add(v, w) \in Element(f)
      BY <1>1, ElementTyped
    <2>3. Squared(f, Sum(f, v, w))[last] = Sum(f, Squared(f, v)[last], Squared(f, w)[last])
      BY <1>1, SquaredKeeps
    <2> QED BY <2>2, <2>3, SmallRing
  <1>3. 0 \in T
    <2> DEFINE O == {n \in 0 .. 16 : Squared(f, {0})[n] = {0}}
    <2>1. {0} \in Element(f) /\ Product(f, {0}, {0}) = {0}
      <3>1. {0} \in Element(f)
        BY <1>1, MulOne, ElementTyped
      <3> QED BY <1>1, <3>1, MulOne, SmallRing
    <2>2. 0 \in O
      BY <1>1, <2>1, SquaredTurns
    <2>3. ASSUME NEW n \in 0 .. 16 - 1, n \in O PROVE n + 1 \in O
      <3>1. n \in 0 .. 15 /\ n + 1 \in 0 .. 16
        OBVIOUS
      <3>2. Squared(f, {0})[n + 1] = Product(f, Squared(f, {0})[n], Squared(f, {0})[n])
        BY <1>1, <2>1, <3>1, SquaredTurns
      <3> QED BY <2>1, <2>3, <3>1, <3>2
    <2>4. \A n \in 0 .. 16 : n \in O
      <3> HIDE DEF O
      <3> QED BY <2>2, <2>3, SquareInduction
    <2>5. g[{0}] = {0}
      BY <1>1, <2>1, <2>4
    <2> HIDE DEF g
    <2> QED BY <1>1, <2>5
  <1>4. ASSUME NEW n \in 0 .. Degree[f] - 1, n \in T PROVE n + 1 \in T
    <2>1. n + 1 \in 0 .. Degree[f]
      BY <1>1
    <2>2. SUFFICES ASSUME n + 1 < Degree[f] PROVE g[{n + 1}] = {n + 1}
      BY <2>1
    <2>3. /\ {n} \in Element(f) /\ {1} \in Element(f) /\ {n + 1} \in Element(f)
          /\ 1 \in 0 .. Degree[f] - 1 /\ n < Degree[f]
      <3>1. 1 \in 0 .. Degree[f] - 1 /\ n + 1 \in 0 .. Degree[f] - 1 /\ n < Degree[f]
        BY <1>1, <2>2
      <3> QED BY <1>1, <3>1, Singletons
    <2>4. Mul(f, {n}, {1}) = {n + 1}
      <3>1. Mul(f, {n}, {1}) = Doubled(f, 1, {n})
        BY <1>1, <2>3, MulSingle
      <3>2. 0 \in 0 .. Degree[f] - 1 /\ 0 + 1 = 1
        BY <1>1
      <3>3. Doubled(f, 1, {n}) = Double(f, {n})
        BY <1>1, <2>3, <3>2, DoubledTurns
      <3>4. Double(f, {n}) = IF n + 1 < Degree[f] THEN {n + 1} ELSE Reduction[f]
        BY <1>1, DoubleBit
      <3> QED BY <2>2, <3>1, <3>3, <3>4
    <2>5. Squared(f, {1})[last] = {1}
      BY <1>1, XFixed16, XFixed256, Names DEF last
    <2>6. Squared(f, {n})[last] = {n}
      BY <1>4, <2>3
    <2>7. Squared(f, Product(f, {n}, {1}))[last]
            = Product(f, Squared(f, {n})[last], Squared(f, {1})[last])
      BY <1>1, <2>3, SquaredKeeps
    <2>8. Product(f, {n}, {1}) = {n + 1}
      BY <2>3, <2>4, SmallRing
    <2> QED BY <2>3, <2>5, <2>6, <2>7, <2>8
  <1>5. \A n \in 0 .. Degree[f] : n \in T
    <2> HIDE DEF T
    <2> QED BY <1>1, <1>3, <1>4, RoundInduction
  <1>6. ASSUME NEW k \in 0 .. Degree[f] - 1 PROVE g[{k}] = h[{k}]
    <2>1. k \in 0 .. Degree[f] /\ k < Degree[f] /\ {k} \in Element(f)
      BY <1>1, Singletons
    <2>2. g[{k}] = {k}
      <3> HIDE DEF g
      <3> QED BY <1>5, <2>1
    <2> QED BY <2>1, <2>2
  <1>7. g[u] = h[u]
    <2> HIDE DEF g, h
    <2> QED BY <1>1, <1>2, <1>6, Agree
  <1> QED BY <1>1, <1>7 DEF last

(* The square of t + X, and of a base element. *)
LEMMA TowerSquares ==
  ASSUME NEW t \in Element("gf256")
  PROVE  /\ <<t, {0}>> \in Pair /\ Times(<<t, {0}>>, <<t, {0}>>) = <<Add(Mul256(t, t), {5}), {0}>>
         /\ <<t, {}>> \in Pair /\ Times(<<t, {}>>, <<t, {}>>) = <<Mul256(t, t), {}>>
         /\ <<{}, {0}>> \in Pair /\ Times(<<t, {}>>, <<{}, {0}>>) = <<{}, t>>
  <1>1. {} \in Element("gf256") /\ {0} \in Element("gf256") /\ {5} \in Element("gf256")
    BY BaseClosed
  <1>2. /\ <<t, {0}>> \in Pair /\ <<t, {}>> \in Pair /\ <<{}, {0}>> \in Pair
    BY <1>1, PairParts
  <1>3. /\ Mul256({0}, {0}) = {0} /\ Mul256({5}, {0}) = {5} /\ Mul256({5}, {}) = {}
        /\ Mul256(t, {0}) = t /\ Mul256(t, {}) = {} /\ Mul256({}, {}) = {} /\ Mul256({}, {0}) = {}
    BY <1>1, BaseProducts
  <1>4. /\ Mul256({0}, {5}) = {5} /\ Mul256({}, {5}) = {}
        /\ Mul256({0}, t) = t /\ Mul256({}, t) = {}
    BY <1>1, <1>3, BaseCommutes
  <1>5. \A p : Add(p, {}) = p /\ Add({}, p) = p /\ Add(p, p) = {}
    BY AddLaws
  <1>6. Times(<<t, {0}>>, <<t, {0}>>)
          = <<Add(Mul256(t, t), Mul256(Mul256({0}, {0}), {5})),
              Add(Add(Mul256(t, {0}), Mul256({0}, t)), Mul256({0}, {0}))>>
    BY <1>2, TimesCoefficients
  <1>7. Times(<<t, {}>>, <<t, {}>>)
          = <<Add(Mul256(t, t), Mul256(Mul256({}, {}), {5})),
              Add(Add(Mul256(t, {}), Mul256({}, t)), Mul256({}, {}))>>
    BY <1>2, TimesCoefficients
  <1>8. Times(<<t, {}>>, <<{}, {0}>>)
          = <<Add(Mul256(t, {}), Mul256(Mul256({}, {0}), {5})),
              Add(Add(Mul256(t, {0}), Mul256({}, {})), Mul256({}, {0}))>>
    BY <1>2, TimesCoefficients
  <1>9. Times(<<t, {0}>>, <<t, {0}>>) = <<Add(Mul256(t, t), {5}), {0}>>
    BY <1>3, <1>4, <1>5, <1>6
  <1>10. Times(<<t, {}>>, <<t, {}>>) = <<Mul256(t, t), {}>>
    BY <1>3, <1>4, <1>5, <1>7
  <1>11. Times(<<t, {}>>, <<{}, {0}>>) = <<{}, t>>
    BY <1>3, <1>4, <1>5, <1>8
  <1> QED BY <1>2, <1>9, <1>10, <1>11

(* The square of X is X + 32; after eight squarings, X + 1 is left. *)
LEMMA XTower ==
  /\ <<{}, {0}>> \in Elements("gf256x2")
  /\ Squared("gf256x2", <<{}, {0}>>)[8] = <<{0}, {0}>>
  <1> DEFINE s(n) == Squared("gf256x2", <<{}, {0}>>)[n]
  <1>1. \A u \in SUBSET (0 .. 7) : u \in Element("gf256")
    BY Names DEF Element
  <1>2. <<{}, {0}>> \in Elements("gf256x2")
    BY <1>1, PairParts, TowerRing
  <1>3. s(0) = <<{}, {0}>> /\ \A n \in 0 .. 15 : s(n + 1) = Times(s(n), s(n))
    BY <1>2, SquaredTurns, TowerRing DEF Rings
  <1>4. ASSUME NEW t \in SUBSET (0 .. 7)
        PROVE  Times(<<t, {0}>>, <<t, {0}>>)
                 = <<Add({k \in 0 .. 7 : SquareBit256(k, t)}, {5}), {0}>>
    <2>1. t \in Element("gf256")
      BY <1>1
    <2>2. Mul256(t, t) = {k \in 0 .. 7 : SquareBit256(k, t)}
      <3>1. Mul256(t, t) = Product("gf256", t, t)
        BY DEF Mul256, Product
      <3> QED BY <2>1, <3>1, SquareBits256
    <2> QED BY <2>1, <2>2, TowerSquares
  <1> HIDE DEF s
  <1>5. s(1) = <<{5}, {0}>>
    <2>1. s(0 + 1) = Times(<<{}, {0}>>, <<{}, {0}>>)
      BY <1>3
    <2>2. Times(<<{}, {0}>>, <<{}, {0}>>)
            = <<Add({k \in 0 .. 7 : SquareBit256(k, {})}, {5}), {0}>>
      BY <1>4
    <2>3. {k \in 0 .. 7 : SquareBit256(k, {})} = {}
      BY DEF SquareBit256
    <2>4. Add({}, {5}) = {5}
      BY DEF Add
    <2> QED BY <2>1, <2>2, <2>3, <2>4
  <1>6. s(2) = <<{2, 3, 6}, {0}>>
    <2>1. s(1 + 1) = Times(<<{5}, {0}>>, <<{5}, {0}>>)
      BY <1>3, <1>5
    <2>2. Times(<<{5}, {0}>>, <<{5}, {0}>>)
            = <<Add({k \in 0 .. 7 : SquareBit256(k, {5})}, {5}), {0}>>
      BY <1>4
    <2>3. {k \in 0 .. 7 : SquareBit256(k, {5})} = {2, 3, 5, 6}
      BY DEF SquareBit256
    <2>4. Add({2, 3, 5, 6}, {5}) = {2, 3, 6}
      BY DEF Add
    <2> QED BY <2>1, <2>2, <2>3, <2>4
  <1>7. s(3) = <<{0, 1, 3, 4, 6, 7}, {0}>>
    <2>1. s(2 + 1) = Times(<<{2, 3, 6}, {0}>>, <<{2, 3, 6}, {0}>>)
      BY <1>3, <1>6
    <2>2. Times(<<{2, 3, 6}, {0}>>, <<{2, 3, 6}, {0}>>)
            = <<Add({k \in 0 .. 7 : SquareBit256(k, {2, 3, 6})}, {5}), {0}>>
      BY <1>4
    <2>3. {k \in 0 .. 7 : SquareBit256(k, {2, 3, 6})} = {0, 1, 3, 4, 5, 6, 7}
      BY DEF SquareBit256
    <2>4. Add({0, 1, 3, 4, 5, 6, 7}, {5}) = {0, 1, 3, 4, 6, 7}
      BY DEF Add
    <2> QED BY <2>1, <2>2, <2>3, <2>4
  <1>8. s(4) = <<{0, 1, 2, 3, 6}, {0}>>
    <2>1. s(3 + 1) = Times(<<{0, 1, 3, 4, 6, 7}, {0}>>, <<{0, 1, 3, 4, 6, 7}, {0}>>)
      BY <1>3, <1>7
    <2>2. Times(<<{0, 1, 3, 4, 6, 7}, {0}>>, <<{0, 1, 3, 4, 6, 7}, {0}>>)
            = <<Add({k \in 0 .. 7 : SquareBit256(k, {0, 1, 3, 4, 6, 7})}, {5}), {0}>>
      BY <1>4
    <2>3. {k \in 0 .. 7 : SquareBit256(k, {0, 1, 3, 4, 6, 7})} = {0, 1, 2, 3, 5, 6}
      BY DEF SquareBit256
    <2>4. Add({0, 1, 2, 3, 5, 6}, {5}) = {0, 1, 2, 3, 6}
      BY DEF Add
    <2> QED BY <2>1, <2>2, <2>3, <2>4
  <1>9. s(5) = <<{1, 2, 3, 4, 6, 7}, {0}>>
    <2>1. s(4 + 1) = Times(<<{0, 1, 2, 3, 6}, {0}>>, <<{0, 1, 2, 3, 6}, {0}>>)
      BY <1>3, <1>8
    <2>2. Times(<<{0, 1, 2, 3, 6}, {0}>>, <<{0, 1, 2, 3, 6}, {0}>>)
            = <<Add({k \in 0 .. 7 : SquareBit256(k, {0, 1, 2, 3, 6})}, {5}), {0}>>
      BY <1>4
    <2>3. {k \in 0 .. 7 : SquareBit256(k, {0, 1, 2, 3, 6})} = {1, 2, 3, 4, 5, 6, 7}
      BY DEF SquareBit256
    <2>4. Add({1, 2, 3, 4, 5, 6, 7}, {5}) = {1, 2, 3, 4, 6, 7}
      BY DEF Add
    <2> QED BY <2>1, <2>2, <2>3, <2>4
  <1>10. s(6) = <<{1, 2, 3, 4, 6}, {0}>>
    <2>1. s(5 + 1) = Times(<<{1, 2, 3, 4, 6, 7}, {0}>>, <<{1, 2, 3, 4, 6, 7}, {0}>>)
      BY <1>3, <1>9
    <2>2. Times(<<{1, 2, 3, 4, 6, 7}, {0}>>, <<{1, 2, 3, 4, 6, 7}, {0}>>)
            = <<Add({k \in 0 .. 7 : SquareBit256(k, {1, 2, 3, 4, 6, 7})}, {5}), {0}>>
      BY <1>4
    <2>3. {k \in 0 .. 7 : SquareBit256(k, {1, 2, 3, 4, 6, 7})} = {1, 2, 3, 4, 5, 6}
      BY DEF SquareBit256
    <2>4. Add({1, 2, 3, 4, 5, 6}, {5}) = {1, 2, 3, 4, 6}
      BY DEF Add
    <2> QED BY <2>1, <2>2, <2>3, <2>4
  <1>11. s(7) = <<{2, 6, 7}, {0}>>
    <2>1. s(6 + 1) = Times(<<{1, 2, 3, 4, 6}, {0}>>, <<{1, 2, 3, 4, 6}, {0}>>)
      BY <1>3, <1>10
    <2>2. Times(<<{1, 2, 3, 4, 6}, {0}>>, <<{1, 2, 3, 4, 6}, {0}>>)
            = <<Add({k \in 0 .. 7 : SquareBit256(k, {1, 2, 3, 4, 6})}, {5}), {0}>>
      BY <1>4
    <2>3. {k \in 0 .. 7 : SquareBit256(k, {1, 2, 3, 4, 6})} = {2, 5, 6, 7}
      BY DEF SquareBit256
    <2>4. Add({2, 5, 6, 7}, {5}) = {2, 6, 7}
      BY DEF Add
    <2> QED BY <2>1, <2>2, <2>3, <2>4
  <1>12. s(8) = <<{0}, {0}>>
    <2>1. s(7 + 1) = Times(<<{2, 6, 7}, {0}>>, <<{2, 6, 7}, {0}>>)
      BY <1>3, <1>11
    <2>2. Times(<<{2, 6, 7}, {0}>>, <<{2, 6, 7}, {0}>>)
            = <<Add({k \in 0 .. 7 : SquareBit256(k, {2, 6, 7})}, {5}), {0}>>
      BY <1>4
    <2>3. {k \in 0 .. 7 : SquareBit256(k, {2, 6, 7})} = {0, 5}
      BY DEF SquareBit256
    <2>4. Add({0, 5}, {5}) = {0}
      BY DEF Add
    <2> QED BY <2>1, <2>2, <2>3, <2>4
  <1> QED BY <1>2, <1>12 DEF s

Turns == [gf16 |-> 4, gf256 |-> 8, gf256x2 |-> 16]

LEMMA BaseFixed ==
  ASSUME NEW c \in Element("gf256")
  PROVE  <<c, {}>> \in Elements("gf256x2") /\ Squared("gf256x2", <<c, {}>>)[8] = <<c, {}>>
  <1> DEFINE s(n) == Squared("gf256x2", <<c, {}>>)[n]
             t(n) == Squared("gf256", c)[n]
             T == {n \in 0 .. 8 : s(n) = <<t(n), {}>>}
  <1>1. c \in Elements("gf256") /\ Squared("gf256", c)[8] = c
    BY SmallFixed, Names
  <1>2. <<c, {}>> \in Elements("gf256x2")
    BY TowerSquares, TowerRing
  <1>3. s(0) = <<c, {}>> /\ \A n \in 0 .. 15 : s(n + 1) = Times(s(n), s(n))
    <2>1. "gf256x2" \in Rings
      BY DEF Rings
    <2>2. s(0) = <<c, {}>> /\ \A n \in 0 .. 15 : s(n + 1) = Product("gf256x2", s(n), s(n))
      BY <1>2, <2>1, SquaredTurns
    <2> HIDE DEF s
    <2> QED BY <2>2, TowerRing
  <1>4. /\ t(0) = c /\ \A n \in 0 .. 16 : t(n) \in Elements("gf256")
        /\ \A n \in 0 .. 15 : t(n + 1) = Product("gf256", t(n), t(n))
    BY <1>1, SquaredTurns DEF Rings
  <1> HIDE DEF s, t
  <1>5. 0 \in T
    BY <1>3, <1>4
  <1>6. ASSUME NEW n \in 0 .. 8 - 1, n \in T PROVE n + 1 \in T
    <2>1. n \in 0 .. 15 /\ n \in 0 .. 16 /\ n + 1 \in 0 .. 8
      OBVIOUS
    <2>2. t(n) \in Element("gf256")
      BY <1>4, <2>1, SmallRing
    <2>3. Times(<<t(n), {}>>, <<t(n), {}>>) = <<Mul256(t(n), t(n)), {}>>
      BY <2>2, TowerSquares
    <2>4. Mul256(t(n), t(n)) = Product("gf256", t(n), t(n))
      BY DEF Mul256, Product
    <2> QED BY <1>3, <1>4, <1>6, <2>1, <2>3, <2>4
  <1>7. \A n \in 0 .. 8 : n \in T
    <2> HIDE DEF T
    <2> QED BY <1>5, <1>6, SquareInduction
  <1>8. s(8) = <<t(8), {}>>
    BY <1>7
  <1> QED BY <1>1, <1>2, <1>8 DEF s, t

LEMMA Fixed ==
  ASSUME NEW f \in Rings, NEW u \in Elements(f)
  PROVE  Squared(f, u)[Turns[f]] = u
  <1>1. CASE f \in {"gf16", "gf256"}
    <2>1. u \in Element(f) /\ Turns[f] = Degree[f]
      BY <1>1, SmallRing, Names DEF Turns
    <2> QED BY <1>1, <2>1, SmallFixed
  <1>2. CASE f = "gf256x2"
    <2> DEFINE c == <<u[1], {}>>
               d == <<u[2], {}>>
               X == <<{}, {0}>>
               Next1 == <<{0}, {0}>>
               R(p, q, r) == Sum(f, p, Product(f, q, r))
    <2>1. u[1] \in Element("gf256") /\ u[2] \in Element("gf256") /\ u = <<u[1], u[2]>>
      BY <1>2, TowerRing, PairParts
    <2>2. c \in Elements(f) /\ Squared(f, c)[8] = c /\ d \in Elements(f) /\ Squared(f, d)[8] = d
      BY <1>2, <2>1, BaseFixed
    <2>3. X \in Elements(f) /\ Squared(f, X)[8] = Next1
      BY <1>2, XTower
    <2>4. One(f) \in Elements(f) /\ One(f) = <<{0}, {}>> /\ Squared(f, One(f))[8] = One(f)
      <3>1. {0} \in Element("gf256") /\ One(f) = <<{0}, {}>>
        BY <1>2, TowerRing, MulOne, Names, ImageDoubled
      <3> QED BY <1>2, <3>1, BaseFixed
    <2>5. \A p, q : Sum(f, p, q) = <<Add(p[1], q[1]), Add(p[2], q[2])>>
      BY <1>2, TowerRing DEF Plus, Tower!Plus
    <2>6. Next1 = Sum(f, X, One(f)) /\ Sum(f, Next1, One(f)) = X
      <3>1. Add({}, {0}) = {0} /\ Add({0}, {}) = {0} /\ Add({0}, {0}) = {}
        BY AddLaws
      <3>2. Sum(f, X, One(f)) = <<Add({}, {0}), Add({0}, {})>>
        BY <2>4, <2>5
      <3>3. Sum(f, Next1, One(f)) = <<Add({0}, {0}), Add({0}, {})>>
        BY <2>4, <2>5
      <3> QED BY <3>1, <3>2, <3>3
    <2>7. u = R(c, d, X)
      <3>1. Product(f, d, X) = <<{}, u[2]>>
        BY <1>2, <2>1, TowerRing, TowerSquares
      <3>2. R(c, d, X) = <<Add(u[1], {}), Add({}, u[2])>>
        BY <2>5, <3>1
      <3>3. Add(u[1], {}) = u[1] /\ Add({}, u[2]) = u[2]
        BY AddLaws
      <3> QED BY <2>1, <3>2, <3>3
    <2> HIDE DEF c, d, X, Next1
    <2>8. Next1 \in Elements(f) /\ Squared(f, Next1)[8] = X
      <3>1. Next1 \in Elements(f)
        BY <2>3, <2>4, <2>6, RingClosed
      <3>2. Squared(f, Sum(f, X, One(f)))[8] = Sum(f, Squared(f, X)[8], Squared(f, One(f))[8])
        BY <2>3, <2>4, SquaredKeeps
      <3> QED BY <2>3, <2>4, <2>6, <3>1, <3>2
    <2>9. ASSUME NEW r \in Elements(f)
          PROVE  R(c, d, r) \in Elements(f) /\ Squared(f, R(c, d, r))[8] = R(c, d, Squared(f, r)[8])
      <3>1. Product(f, d, r) \in Elements(f)
        BY <2>2, RingClosed
      <3>2. Squared(f, Product(f, d, r))[8] = Product(f, Squared(f, d)[8], Squared(f, r)[8])
        BY <2>2, SquaredKeeps
      <3>3. Squared(f, Sum(f, c, Product(f, d, r)))[8]
              = Sum(f, Squared(f, c)[8], Squared(f, Product(f, d, r))[8])
        BY <2>2, <3>1, SquaredKeeps
      <3>4. Sum(f, c, Product(f, d, r)) \in Elements(f)
        BY <2>2, <3>1, RingClosed
      <3> QED BY <2>2, <3>2, <3>3, <3>4
    <2>10. Squared(f, u)[8] = R(c, d, Next1)
      BY <2>3, <2>7, <2>9
    <2>11. Squared(f, R(c, d, Next1))[8] = u
      BY <2>7, <2>8, <2>9
    <2>12. Squared(f, u)[8 + 8] = Squared(f, Squared(f, u)[8])[8]
      BY SquaredLater
    <2>13. Turns[f] = 16 /\ 8 + 8 = 16
      BY <1>2 DEF Turns
    <2> HIDE DEF R
    <2> QED BY <2>10, <2>11, <2>12, <2>13
  <1> QED BY <1>1, <1>2 DEF Rings

-----------------------------------------------------------------------------
(* Only zero and one are their own squares: the fields have no zero divisors. *)

LEMMA BaseIdempotents ==
  ASSUME NEW u \in Element("gf256")
  PROVE  /\ Mul256(u, u) = u => u = {} \/ u = {0}
         /\ u # Add(Mul256(u, u), {5})
  <1>1. Mul256(u, u) = {k \in 0 .. 7 : SquareBit256(k, u)}
    <2>1. Mul256(u, u) = Product("gf256", u, u)
      BY DEF Mul256, Product
    <2> QED BY <2>1, SquareBits256
  <1>2. u \subseteq 0 .. 7
    BY Names DEF Element
  <1>3. ASSUME Mul256(u, u) = u PROVE u = {} \/ u = {0}
    <2>1. \A k \in 0 .. 7 : k \in u <=> SquareBit256(k, u)
      BY <1>1, <1>3
    <2>2. /\ 1 \in u <=> (((4 \in u) # (6 \in u)) # (7 \in u))
          /\ 2 \in u <=> ((1 \in u) # (5 \in u))
          /\ 0 \in u <=> (((0 \in u) # (4 \in u)) # (6 \in u))
          /\ 3 \in u <=> (((4 \in u) # (5 \in u)) # ((6 \in u) # (7 \in u)))
          /\ 4 \in u <=> (((2 \in u) # (4 \in u)) # (7 \in u))
          /\ 5 \in u <=> ((5 \in u) # (6 \in u))
          /\ 6 \in u <=> ((3 \in u) # (5 \in u))
          /\ 7 \in u <=> ((6 \in u) # (7 \in u))
      BY <2>1 DEF SquareBit256
    <2>3. 1 \notin u /\ 2 \notin u /\ 3 \notin u /\ 4 \notin u /\ 5 \notin u /\ 6 \notin u /\ 7 \notin u
      BY <2>2
    <2>4. ASSUME NEW k \in u PROVE k = 0
      <3>1. k \in 0 .. 7
        BY <1>2
      <3> QED BY <2>3, <3>1
    <2> QED BY <2>4
  <1>4. ASSUME u = Add(Mul256(u, u), {5}) PROVE FALSE
    <2>1. \A k \in 0 .. 7 : k \in u <=> ((k \in Mul256(u, u)) # (k = 5))
      <3> DEFINE m == Mul256(u, u)
      <3>1. u = Add(m, {5})
        BY <1>4
      <3> HIDE DEF m
      <3>2. \A k : k \in u <=> ((k \in m) # (k = 5))
        BY <3>1 DEF Add
      <3> QED BY <3>2 DEF m
    <2>2. /\ 5 \in u <=> ~ ((5 \in u) # (6 \in u))
          /\ 7 \in u <=> ((6 \in u) # (7 \in u))
      BY <1>1, <2>1 DEF SquareBit256
    <2> QED BY <2>2
  <1> QED BY <1>3, <1>4

LEMMA Idempotents ==
  ASSUME NEW f \in Rings, NEW u \in Elements(f), Product(f, u, u) = u
  PROVE  u = None(f) \/ u = One(f)
  <1>1. CASE f = "gf16"
    <2>1. u \in Element("gf16") /\ u \subseteq 0 .. 3
      BY <1>1, SmallRing, Names DEF Element
    <2>2. u = {k \in 0 .. 3 : SquareBit16(k, u)}
      BY <1>1, <2>1, SquareBits16
    <2>3. \A k \in 0 .. 3 : k \in u <=> SquareBit16(k, u)
      BY <2>2
    <2>4. /\ 0 \in u <=> ((0 \in u) # (2 \in u))
          /\ 1 \in u <=> 2 \in u
          /\ 2 \in u <=> ((1 \in u) # (3 \in u))
      BY <2>3 DEF SquareBit16
    <2>5. 1 \notin u /\ 2 \notin u /\ 3 \notin u
      BY <2>4
    <2>6. u = {} \/ u = {0}
      <3>1. ASSUME NEW k \in u PROVE k = 0
        <4>1. k \in 0 .. 3
          BY <2>1
        <4> QED BY <2>5, <4>1
      <3> QED BY <3>1
    <2> QED BY <1>1, <2>6, SmallRing
  <1>2. CASE f = "gf256"
    <2>1. u \in Element("gf256")
      BY <1>2, SmallRing
    <2>2. Mul256(u, u) = u
      BY <1>2 DEF Mul256, Product
    <2> QED BY <1>2, <2>1, <2>2, BaseIdempotents, SmallRing
  <1>3. CASE f = "gf256x2"
    <2>1. u \in Pair /\ Times(u, u) = u
      BY <1>3, TowerRing
    <2>2. /\ u[1] \in Element("gf256") /\ u[2] \in Element("gf256") /\ u = <<u[1], u[2]>>
          /\ {0} \in Element("gf256") /\ {5} \in Element("gf256") /\ {} \in Element("gf256")
      BY <2>1, PairParts, BaseClosed
    <2>3. u = <<Add(Mul256(u[1], u[1]), Mul256(Mul256(u[2], u[2]), {5})),
                Add(Add(Mul256(u[1], u[2]), Mul256(u[2], u[1])), Mul256(u[2], u[2]))>>
      BY <2>1, TimesCoefficients
    <2>4. /\ u[1] = Add(Mul256(u[1], u[1]), Mul256(Mul256(u[2], u[2]), {5}))
          /\ u[2] = Add(Add(Mul256(u[1], u[2]), Mul256(u[2], u[1])), Mul256(u[2], u[2]))
      BY <2>2, <2>3
    <2>5. Mul256(u[2], u[1]) = Mul256(u[1], u[2])
      BY <2>2, BaseCommutes
    <2>6. u[2] = Mul256(u[2], u[2])
      BY <2>4, <2>5, AddLaws
    <2>7. u[2] = {} \/ u[2] = {0}
      BY <2>2, <2>6, BaseIdempotents
    <2>8. Mul256({0}, {5}) = {5} /\ Mul256({}, {5}) = {}
      <3>1. Mul256({5}, {0}) = {5} /\ Mul256({5}, {}) = {}
        BY <2>2, BaseProducts
      <3> QED BY <2>2, <3>1, BaseCommutes
    <2>9. CASE u[2] = {0}
      <3>1. u[1] = Add(Mul256(u[1], u[1]), {5})
        BY <2>4, <2>6, <2>8, <2>9
      <3> QED BY <2>2, <3>1, BaseIdempotents
    <2>10. CASE u[2] = {}
      <3>1. u[1] = Add(Mul256(u[1], u[1]), {})
        BY <2>4, <2>6, <2>8, <2>10
      <3>2. Mul256(u[1], u[1]) = u[1]
        BY <3>1, AddLaws
      <3>3. u[1] = {} \/ u[1] = {0}
        BY <2>2, <3>2, BaseIdempotents
      <3> QED BY <1>3, <2>2, <2>10, <3>3, TowerRing
    <2> QED BY <2>7, <2>9, <2>10
  <1> QED BY <1>1, <1>2, <1>3 DEF Rings

LEMMA Inverts ==
  ASSUME NEW f \in Rings, NEW u \in Elements(f), NEW r \in Elements(f),
         Product(f, Product(f, u, u), r) = u, u # None(f)
  PROVE  Product(f, u, r) = One(f)
  <1> DEFINE e == Product(f, u, r)
  <1>1. e \in Elements(f)
    BY RingClosed
  <1>2. Product(f, u, e) = u
    BY RingAssociates
  <1>3. Product(f, e, e) = e
    <2>1. Product(f, e, Product(f, u, r)) = Product(f, Product(f, e, u), r)
      <3> HIDE DEF e
      <3> QED BY <1>1, RingAssociates
    <2>2. Product(f, e, u) = u
      <3> HIDE DEF e
      <3> QED BY <1>1, <1>2, RingCommutes
    <2> QED BY <2>1, <2>2
  <1> HIDE DEF e
  <1>4. e # None(f)
    BY <1>2, RingUnits
  <1>5. e = One(f)
    BY <1>1, <1>3, <1>4, Idempotents
  <1> QED BY <1>5 DEF e

(* x times what has been reached is a power of two; so after a square.     *)
LEMMA ChainTurns ==
  ASSUME NEW f \in Rings, NEW u \in Elements(f), NEW p \in Elements(f), NEW n \in 0 .. 15,
         Product(f, u, p) = Squared(f, u)[n]
  PROVE  /\ Product(f, Product(f, u, u), Product(f, p, p)) = Squared(f, u)[n + 1]
         /\ Product(f, p, p) \in Elements(f)
         /\ Product(f, Product(f, p, p), u) \in Elements(f)
         /\ Product(f, u, Product(f, Product(f, p, p), u)) = Squared(f, u)[n + 1]
  <1>1. /\ Product(f, p, p) \in Elements(f) /\ Product(f, u, u) \in Elements(f)
        /\ Product(f, Product(f, p, p), u) \in Elements(f)
    BY RingClosed
  <1>2. Product(f, Product(f, u, u), Product(f, p, p))
          = Product(f, Product(f, u, p), Product(f, u, p))
    BY SquareMuls
  <1>3. Squared(f, u)[n + 1] = Product(f, Squared(f, u)[n], Squared(f, u)[n])
    BY SquaredTurns
  <1>4. Product(f, Product(f, p, p), u) = Product(f, u, Product(f, p, p))
    BY <1>1, RingCommutes
  <1>5. Product(f, u, Product(f, u, Product(f, p, p)))
          = Product(f, Product(f, u, u), Product(f, p, p))
    BY <1>1, RingAssociates
  <1> QED BY <1>1, <1>2, <1>3, <1>4, <1>5

(* Gf16::invert. *)
LEMMA ChainOfGf16 ==
  ASSUME NEW u \in Elements("gf16")
  PROVE  LET a2 == Product("gf16", u, u)
             a4 == Product("gf16", a2, a2)
             a8 == Product("gf16", a4, a4)
             r == Product("gf16", Product("gf16", a8, a4), a2)
         IN /\ r \in Elements("gf16") /\ Product("gf16", a2, r) = u
            /\ u = None("gf16") => r = None("gf16")
  <1> DEFINE P(p, q) == Product("gf16", p, q)
             a2 == P(u, u)
             a4 == P(a2, a2)
             a8 == P(a4, a4)
             r == P(P(a8, a4), a2)
             E == Elements("gf16")
  <1>0. \A p, q \in E : P(p, q) \in E /\ P(p, q) = P(q, p)
    BY RingClosed, RingCommutes DEF Rings
  <1>1. a2 \in E /\ a4 \in E /\ a8 \in E /\ P(a8, a4) \in E /\ r \in E
    <2>1. a2 \in E
      BY <1>0
    <2> HIDE DEF a2
    <2>2. a4 \in E
      BY <1>0, <2>1
    <2> HIDE DEF a4
    <2>3. a8 \in E
      BY <1>0, <2>2
    <2> HIDE DEF a8
    <2>4. P(a8, a4) \in E
      BY <1>0, <2>2, <2>3
    <2>5. P(P(a8, a4), a2) \in E
      <3> DEFINE s == P(a8, a4)
      <3> HIDE DEF s
      <3>1. P(s, a2) \in E
        BY <1>0, <2>1, <2>4 DEF s
      <3> QED BY <3>1 DEF s
    <2> QED BY <2>1, <2>2, <2>3, <2>4, <2>5
  <1>2. Squared("gf16", u)[4] = P(a8, a8)
    <2> DEFINE s == Squared("gf16", u)
    <2>1. s[0] = u /\ \A n \in 0 .. 15 : s[n + 1] = P(s[n], s[n])
      BY SquaredTurns DEF Rings
    <2> HIDE DEF s
    <2>2. /\ s[0 + 1] = P(s[0], s[0]) /\ s[1 + 1] = P(s[1], s[1])
          /\ s[2 + 1] = P(s[2], s[2]) /\ s[3 + 1] = P(s[3], s[3])
      BY <2>1
    <2>3. s[1] = a2
      BY <2>1, <2>2
    <2>4. s[2] = a4
      BY <2>2, <2>3
    <2>5. s[3] = a8
      BY <2>2, <2>4
    <2>6. s[4] = P(a8, a8)
      BY <2>2, <2>5
    <2> QED BY <2>6 DEF s
  <1>3. P(a8, a8) = u
    <2>1. Squared("gf16", u)[Turns["gf16"]] = u
      BY Fixed DEF Rings
    <2> QED BY <1>2, <2>1 DEF Turns
  <1>4. P(a2, r) = P(a8, a8)
    <2> DEFINE s == P(a8, a4)
    <2>1. \A p, q, t \in E : P(P(p, q), t) = P(p, P(q, t))
      BY RingAssociates DEF Rings
    <2>2. s \in E
      BY <1>1
    <2>3. P(a2, P(s, a2)) = P(P(s, a2), a2)
      <3>1. P(s, a2) \in E
        BY <1>1
      <3> HIDE DEF s, a2, P, E
      <3> QED BY <1>0, <1>1, <2>2, <3>1
    <2>4. P(P(s, a2), a2) = P(s, a4)
      <3>1. P(P(s, a2), a2) = P(s, P(a2, a2))
        <4> HIDE DEF s, a2, P, E
        <4> QED BY <1>1, <2>1, <2>2
      <3> QED BY <3>1
    <2>5. P(s, a4) = P(a8, a8)
      <3>1. P(P(a8, a4), a4) = P(a8, P(a4, a4))
        <4> HIDE DEF a8, a4, P, E
        <4> QED BY <1>1, <2>1
      <3> QED BY <3>1
    <2> QED BY <2>3, <2>4, <2>5
  <1>5. ASSUME u = None("gf16") PROVE r = None("gf16")
    <2>1. P(u, u) = u
      BY <1>5, RingUnits DEF Rings
    <2>2. a2 = u
      BY <2>1
    <2>3. a4 = u
      BY <2>1, <2>2
    <2>4. a8 = u
      BY <2>1, <2>3
    <2>5. r = u
      BY <2>1, <2>2, <2>3, <2>4
    <2> QED BY <1>5, <2>5
  <1> QED BY <1>1, <1>3, <1>4, <1>5

-----------------------------------------------------------------------------
(* The computations *)

(* The loop's variables are the n-th round's.                              *)
LoopInv ==
  stage \in {"multiply", "product"} =>
    /\ field \in DOMAIN Degree /\ x \in Element(field) /\ y \in Element(field)
    /\ round \in 0 .. Degree[field] /\ (stage = "product" => round = Degree[field])
    /\ a = After(field, x, y)[round].a /\ b = After(field, x, y)[round].b
    /\ product = After(field, x, y)[round].product

(* After n rounds of an inversion, x times the product is x^(2^(n+1)).     *)
ChainInv ==
  /\ stage \in {"invert", "inverse"} =>
       field \in Rings /\ x \in Elements(field) /\ product \in Elements(field)
  /\ stage = "invert" =>
       /\ round \in Nat /\ (x = None(field) => product = None(field))
       /\ field # "gf16" => /\ round <= InvertRounds[field]
                            /\ Product(field, x, product) = Squared(field, x)[round + 1]
  /\ InverseInverts

FieldsInv == stage \in {"multiply", "product", "invert", "inverse"} /\ LoopInv /\ ChainInv

LEMMA FieldsStart == FieldsInit => FieldsInv
  <1> SUFFICES ASSUME FieldsInit PROVE FieldsInv
    OBVIOUS
  <1>1. CASE stage = "multiply"
    <2>1. /\ field \in DOMAIN Degree /\ x \in Element(field) /\ y \in Factor[field]
          /\ a = x /\ b = y /\ product = {} /\ round = 0
      BY <1>1 DEF FieldsInit
    <2>2. y \in Element(field) /\ Degree[field] \in Nat
      BY <2>1, FieldsAssumption, Degrees
    <2>3. After(field, x, y)[0] = Start(x, y)
      BY <2>1, <2>2, AfterTurns
    <2>4. LoopInv
      BY <1>1, <2>1, <2>2, <2>3 DEF LoopInv, Start
    <2> QED BY <1>1, <2>4 DEF FieldsInv, ChainInv, InverseInverts
  <1>2. CASE stage = "invert"
    <2>1. /\ field \in DOMAIN Inverted /\ x \in Inverted[field] /\ product = x /\ round = 0
      BY <1>2 DEF FieldsInit
    <2>2. field \in Rings /\ x \in Elements(field)
      BY <2>1, FieldsAssumption DEF Rings
    <2>3. Product(field, x, product) = Squared(field, x)[round + 1]
      <3>1. /\ Squared(field, x)[0] = x
            /\ Squared(field, x)[0 + 1] = Product(field, Squared(field, x)[0], Squared(field, x)[0])
        BY <2>2, SquaredTurns
      <3> QED BY <2>1, <3>1
    <2>4. field # "gf16" => round <= InvertRounds[field]
      BY <2>1, <2>2 DEF Rings, InvertRounds
    <2>5. ChainInv
      BY <1>2, <2>1, <2>2, <2>3, <2>4 DEF ChainInv, InverseInverts
    <2> QED BY <1>2, <2>5 DEF FieldsInv, LoopInv
  <1> QED BY <1>1, <1>2 DEF FieldsInit

LEMMA FieldsStep == FieldsInv /\ [FieldsNext]_fieldVars => FieldsInv'
  <1> SUFFICES ASSUME FieldsInv, [FieldsNext]_fieldVars PROVE FieldsInv'
    OBVIOUS
  <1>1. CASE MultiplyRound
    <2>1. /\ stage = "multiply" /\ round < Degree[field] /\ round' = round + 1
          /\ stage' = "multiply" /\ field' = field /\ x' = x /\ y' = y
      BY <1>1 DEF MultiplyRound
    <2>2. /\ field \in DOMAIN Degree /\ x \in Element(field) /\ y \in Element(field)
          /\ round \in 0 .. Degree[field]
          /\ a = After(field, x, y)[round].a /\ b = After(field, x, y)[round].b
          /\ product = After(field, x, y)[round].product
      BY <2>1 DEF FieldsInv, LoopInv
    <2> DEFINE l == [a |-> a, b |-> b, product |-> product]
               n == After(field, x, y)[round]
    <2>3. Degree[field] \in Nat /\ round \in 0 .. Degree[field] - 1
      BY <2>1, <2>2, Degrees
    <2>4. After(field, x, y)[round + 1] = Round(field, n)
      BY <2>2, <2>3, AfterTurns
    <2>5. a' = Round(field, l).a /\ b' = Round(field, l).b /\ product' = Round(field, l).product
      BY <1>1 DEF MultiplyRound
    <2>6. l.a = n.a /\ l.b = n.b /\ l.product = n.product
      BY <2>2
    <2> HIDE DEF l, n
    <2>7. /\ Round(field, l).a = Round(field, n).a /\ Round(field, l).b = Round(field, n).b
          /\ Round(field, l).product = Round(field, n).product
      BY <2>6, RoundParts
    <2>8. round' \in 0 .. Degree[field]
      BY <2>1, <2>3
    <2>9. LoopInv'
      BY <2>1, <2>2, <2>4, <2>5, <2>7, <2>8 DEF LoopInv
    <2> QED BY <2>1, <2>9 DEF FieldsInv, ChainInv, InverseInverts
  <1>2. CASE Multiplied
    <2>1. /\ stage = "multiply" /\ round = Degree[field] /\ stage' = "product"
          /\ field' = field /\ x' = x /\ y' = y /\ round' = round
          /\ a' = a /\ b' = b /\ product' = product
      BY <1>2 DEF Multiplied
    <2>2. LoopInv'
      BY <2>1 DEF FieldsInv, LoopInv
    <2> QED BY <2>1, <2>2 DEF FieldsInv, ChainInv, InverseInverts
  <1>3. CASE InvertGf16
    <2> DEFINE a2 == Product("gf16", x, x)
               a4 == Product("gf16", a2, a2)
               a8 == Product("gf16", a4, a4)
               r == Product("gf16", Product("gf16", a8, a4), a2)
    <2>1. /\ stage = "invert" /\ field = "gf16" /\ stage' = "inverse" /\ product' = r
          /\ field' = field /\ x' = x
      BY <1>3 DEF InvertGf16
    <2>2. x \in Elements("gf16")
      BY <2>1 DEF FieldsInv, ChainInv
    <2>3. /\ r \in Elements("gf16") /\ Product("gf16", a2, r) = x
          /\ x = None("gf16") => r = None("gf16")
      BY <2>2, ChainOfGf16
    <2>4. x # None("gf16") => Product("gf16", x, r) = One("gf16")
      <3> HIDE DEF r
      <3> QED BY <2>2, <2>3, Inverts DEF Rings
    <2> HIDE DEF r
    <2>5. InverseInverts'
      BY <2>1, <2>3, <2>4 DEF InverseInverts, None, One, Product
    <2> QED BY <2>1, <2>2, <2>3, <2>5 DEF FieldsInv, LoopInv, ChainInv, Rings
  <1>4. CASE InvertRound
    <2>1. /\ stage = "invert" /\ field # "gf16" /\ round < InvertRounds[field]
          /\ product' = Product(field, Product(field, product, product), x)
          /\ round' = round + 1 /\ stage' = "invert" /\ field' = field /\ x' = x
      BY <1>4 DEF InvertRound
    <2>2. /\ field \in Rings /\ x \in Elements(field) /\ product \in Elements(field)
          /\ round \in Nat /\ (x = None(field) => product = None(field))
          /\ Product(field, x, product) = Squared(field, x)[round + 1]
      BY <2>1 DEF FieldsInv, ChainInv
    <2>3. InvertRounds[field] \in {6, 14} /\ round + 1 \in 0 .. 15 /\ round + 1 <= InvertRounds[field]
      BY <2>1, <2>2 DEF Rings, InvertRounds
    <2>4. /\ product' \in Elements(field)
          /\ Product(field, x, product') = Squared(field, x)[(round + 1) + 1]
      BY <2>1, <2>2, <2>3, ChainTurns
    <2>5. x = None(field) => product' = None(field)
      BY <2>1, <2>2, RingUnits
    <2>6. ChainInv'
      <3>1. (None(field))' = None(field) /\ None(field') = None(field)
        BY <2>1 DEF None
      <3> QED BY <2>1, <2>2, <2>3, <2>4, <2>5, <3>1 DEF ChainInv, InverseInverts
    <2> QED BY <2>1, <2>6 DEF FieldsInv, LoopInv
  <1>5. CASE InvertSquare
    <2>1. /\ stage = "invert" /\ field # "gf16" /\ round = InvertRounds[field]
          /\ product' = Product(field, product, product)
          /\ stage' = "inverse" /\ field' = field /\ x' = x
      BY <1>5 DEF InvertSquare
    <2>2. /\ field \in Rings /\ x \in Elements(field) /\ product \in Elements(field)
          /\ round \in Nat /\ (x = None(field) => product = None(field))
          /\ Product(field, x, product) = Squared(field, x)[round + 1]
      BY <2>1 DEF FieldsInv, ChainInv
    <2>3. round + 1 \in 0 .. 15 /\ (round + 1) + 1 = Turns[field]
      BY <2>1, <2>2 DEF Rings, InvertRounds, Turns
    <2>4. Squared(field, x)[(round + 1) + 1] = x
      BY <2>2, <2>3, Fixed
    <2>5. /\ product' \in Elements(field)
          /\ Product(field, Product(field, x, x), product') = x
      BY <2>1, <2>2, <2>3, <2>4, ChainTurns
    <2>6. x # None(field) => Product(field, x, product') = One(field)
      BY <2>2, <2>5, Inverts
    <2>7. x = None(field) => product' = None(field)
      BY <2>1, <2>2, RingUnits
    <2>8. InverseInverts'
      BY <2>1, <2>6, <2>7 DEF InverseInverts
    <2>9. ChainInv'
      BY <2>1, <2>2, <2>5, <2>8 DEF ChainInv
    <2> QED BY <2>1, <2>9 DEF FieldsInv, LoopInv
  <1>6. CASE UNCHANGED fieldVars
    BY <1>6 DEF FieldsInv, LoopInv, ChainInv, InverseInverts, fieldVars
  <1> QED BY <1>1, <1>2, <1>3, <1>4, <1>5, <1>6 DEF FieldsNext

(* The computations keep the invariant: the loop's variables are those of  *)
(* its round, and a chain has reached the power its round stands for       *)
(* (field.rs:117-131, field.rs:162-170, field.rs:289-297).                 *)
THEOREM FieldsKeepInvariant == FieldsSpec => []FieldsInv
  <1> QED BY FieldsStart, FieldsStep, PTL DEF FieldsSpec

(* The masked shift-and-add loops multiply polynomials modulo the modulus, *)
(* whatever elements of the two small fields they are given, and no bit    *)
(* leaves the field on the way (field.rs:117-131, field.rs:232-246).       *)
THEOREM LoopIsRemainder == FieldsSpec => []ProductIsRemainder
  <1>1. FieldsInv => ProductIsRemainder
    <2> SUFFICES ASSUME FieldsInv PROVE ProductIsRemainder
      OBVIOUS
    <2>1. CASE stage \in {"multiply", "product"}
      <3>1. /\ field \in DOMAIN Degree /\ x \in Element(field) /\ y \in Element(field)
            /\ round \in 0 .. Degree[field] /\ (stage = "product" => round = Degree[field])
            /\ a = After(field, x, y)[round].a /\ b = After(field, x, y)[round].b
            /\ product = After(field, x, y)[round].product
        BY <2>1 DEF FieldsInv, LoopInv
      <3>2. a \in Element(field) /\ b \in Element(field) /\ product \in Element(field)
        BY <3>1, AfterTurns
      <3>3. stage = "product" => product = Mul(field, x, y)
        BY <3>1, AfterTurns
      <3> QED BY <3>1, <3>2, <3>3, MulIsRemainder DEF ProductIsRemainder
    <2> QED BY <2>1 DEF ProductIsRemainder
  <1> QED BY <1>1, FieldsKeepInvariant, PTL

(* Two elements of the small field may be multiplied, or added, before or  *)
(* after they are embedded (field.rs:43-53).                               *)
THEOREM EmbeddingKeepsProducts == FieldsSpec => []EmbedKeepsProducts
  <1>1. FieldsInv => EmbedKeepsProducts
    <2> SUFFICES ASSUME FieldsInv, stage = "product", field = "gf16"
                 PROVE  /\ Embed(product) = Mul256(Embed(x), Embed(y))
                        /\ Embed(Add(x, y)) = Add(Embed(x), Embed(y)) /\ Embed({0}) = {0}
      BY DEF EmbedKeepsProducts
    <2>1. /\ x \in Element("gf16") /\ y \in Element("gf16")
          /\ product = After("gf16", x, y)[Degree["gf16"]].product
      BY DEF FieldsInv, LoopInv
    <2>2. product = Mul("gf16", x, y)
      BY <2>1, AfterTurns, Names
    <2>3. Embed(x) \in Element("gf256") /\ Embed(y) \in Element("gf256")
      BY <2>1, EmbedAdds
    <2> QED BY <2>1, <2>2, <2>3, EmbedMul, EmbedAdds, Tabled256
  <1> QED BY <1>1, FieldsKeepInvariant, PTL

(* The three addition chains end with the inverse of any element but zero, *)
(* and with zero for zero (field.rs:33-40, 162-170, 289-297).              *)
THEOREM ChainsInvert == FieldsSpec => []InverseInverts
  <1>1. FieldsInv => InverseInverts
    BY DEF FieldsInv, ChainInv
  <1> QED BY <1>1, FieldsKeepInvariant, PTL

(* The three base products of the tower are the product modulo             *)
(* X^2 + X + 32, for whatever an inversion multiplies (field.rs:362-369).  *)
THEOREM ChainMultipliesInQuotient == FieldsSpec => []TowerIsQuotient
  <1>1. FieldsInv => TowerIsQuotient
    <2> SUFFICES ASSUME FieldsInv, stage = "invert", field = "gf256x2"
                 PROVE  Product(field, product, x) =
                          LET top == Mul256(product[2], x[2])
                          IN <<Add(Mul256(product[1], x[1]), Mul256(top, {5})),
                               Add(Add(Mul256(product[1], x[2]), Mul256(product[2], x[1])), top)>>
      BY DEF TowerIsQuotient
    <2>1. product \in Pair /\ x \in Pair
      BY TowerRing DEF FieldsInv, ChainInv
    <2> QED BY <2>1, TimesCoefficients, TowerRing
  <1> QED BY <1>1, FieldsKeepInvariant, PTL

-----------------------------------------------------------------------------
(* The three fields of field.rs are fields of characteristic two: addition *)
(* and product of every element, the tower's included, keep the laws the   *)
(* rest of the scheme relies on, and all but zero have an inverse.         *)
THEOREM FieldsAreFields ==
  \A f \in Rings :
    /\ None(f) \in Elements(f) /\ One(f) \in Elements(f) /\ One(f) # None(f)
    /\ \A u, v \in Elements(f) :
         /\ Sum(f, u, v) \in Elements(f) /\ Product(f, u, v) \in Elements(f)
         /\ Sum(f, u, v) = Sum(f, v, u) /\ Product(f, u, v) = Product(f, v, u)
    /\ \A u \in Elements(f) : /\ Sum(f, u, None(f)) = u /\ Sum(f, u, u) = None(f)
                              /\ Product(f, u, One(f)) = u
    /\ \A u, v, w \in Elements(f) :
         /\ Sum(f, Sum(f, u, v), w) = Sum(f, u, Sum(f, v, w))
         /\ Product(f, Product(f, u, v), w) = Product(f, u, Product(f, v, w))
         /\ Product(f, u, Sum(f, v, w)) = Sum(f, Product(f, u, v), Product(f, u, w))
    /\ \A u \in Elements(f) \ {None(f)} : \E v \in Elements(f) : Product(f, u, v) = One(f)
  <1> SUFFICES ASSUME NEW f \in Rings
               PROVE  /\ None(f) \in Elements(f) /\ One(f) \in Elements(f) /\ One(f) # None(f)
                      /\ \A u \in Elements(f) \ {None(f)} :
                           \E v \in Elements(f) : Product(f, u, v) = One(f)
    BY RingClosed, RingCommutes, RingAssociates, RingDistributes, RingUnits, SumLaws
  <1>1. One(f) # None(f)
    BY DEF One, None
  <1>2. None(f) \in Elements(f) /\ One(f) \in Elements(f)
    <2>1. \E u : u \in Elements(f)
      <3>1. {} \in Element("gf16") /\ {} \in Element("gf256") /\ <<{}, {}>> \in Pair
        BY ElementTyped, EmbedPower, Names, BaseClosed, PairParts DEF Element
      <3> QED BY <3>1 DEF Rings, Elements, Pair
    <2> QED BY <2>1, RingClosed
  <1>3. ASSUME NEW u \in Elements(f), u # None(f)
        PROVE  \E v \in Elements(f) : Product(f, u, v) = One(f)
    <2> DEFINE u2 == Product(f, u, u)
               s(n) == Squared(f, u)[n]
               T == {n \in 0 .. 15 : \E r \in Elements(f) : s(n + 1) = Product(f, u2, r)}
    <2>1. u2 \in Elements(f)
      BY RingClosed
    <2>2. /\ s(0) = u /\ \A n \in 0 .. 16 : s(n) \in Elements(f)
          /\ \A n \in 0 .. 15 : s(n + 1) = Product(f, s(n), s(n))
      BY SquaredTurns
    <2> HIDE DEF s, u2
    <2>3. 0 \in T
      <3>1. s(0 + 1) = u2
        BY <2>2 DEF u2
      <3>2. Product(f, u2, One(f)) = u2
        BY <2>1, RingUnits
      <3> QED BY <1>2, <3>1, <3>2
    <2>4. ASSUME NEW n \in 0 .. 15 - 1, n \in T PROVE n + 1 \in T
      <3>1. n + 1 \in 0 .. 15 /\ n + 1 \in 0 .. 16
        OBVIOUS
      <3>2. PICK r \in Elements(f) : s(n + 1) = Product(f, u2, r)
        BY <2>4
      <3>3. s((n + 1) + 1) = Product(f, s(n + 1), s(n + 1)) /\ s(n + 1) \in Elements(f)
        BY <2>2, <3>1
      <3>4. Product(f, r, s(n + 1)) \in Elements(f)
        BY <3>3, RingClosed
      <3>5. Product(f, Product(f, u2, r), s(n + 1)) = Product(f, u2, Product(f, r, s(n + 1)))
        BY <2>1, <3>3, RingAssociates
      <3> QED BY <3>1, <3>2, <3>3, <3>4, <3>5
    <2>5. \A n \in 0 .. 15 : n \in T
      <3> HIDE DEF T
      <3> QED BY <2>3, <2>4, SquareInduction
    <2>6. Turns[f] - 1 \in 0 .. 15 /\ (Turns[f] - 1) + 1 = Turns[f]
      BY DEF Rings, Turns
    <2>7. PICK r \in Elements(f) : s(Turns[f]) = Product(f, u2, r)
      BY <2>5, <2>6
    <2>8. s(Turns[f]) = u
      BY Fixed DEF s
    <2>9. Product(f, u, r) = One(f)
      BY <1>3, <2>7, <2>8, Inverts DEF u2
    <2> QED BY <2>9
  <1> QED BY <1>1, <1>2, <1>3

(* What Tower asks of its base field, and every result on the tower and    *)
(* the packed equations rests on (BaseAssumption), the real GF(256) has:   *)
(* sets of bits, their exclusive or, the loop's products, 32 for Residue.  *)
THEOREM BaseIsRing == Tower!BaseLaws
  <1> DEFINE G == Element("gf256")
  <1>1. {} \in G /\ {5} \in G
    <2>1. {} \in G
      BY DEF Element
    <2> QED BY <2>1, BaseClosed
  <1>2. ASSUME NEW u \in G, NEW v \in G
        PROVE  /\ Add(u, v) \in G /\ Mul256(u, v) \in G
               /\ Add(u, v) = Add(v, u) /\ Mul256(u, v) = Mul256(v, u)
               /\ Add(u, {}) = u /\ Add(u, u) = {}
    BY AddLaws, BaseClosed, BaseCommutes
  <1>3. ASSUME NEW u \in G, NEW v \in G, NEW w \in G
        PROVE  /\ Add(Add(u, v), w) = Add(u, Add(v, w))
               /\ Mul256(Mul256(u, v), w) = Mul256(u, Mul256(v, w))
               /\ Mul256(u, Add(v, w)) = Add(Mul256(u, v), Mul256(u, w))
    BY AddLaws, BaseAssociates, BaseDistributes
  <1> QED BY <1>1, <1>2, <1>3 DEF Tower!BaseLaws
=============================================================================
