------------------------ MODULE LineCommitmentProofs ------------------------
(***************************************************************************)
(* Proofs about LineCommitment for every depth, number of executions,      *)
(* group of words, leaf expansion and collision-free seed commitment.      *)
(* First the Gray code: consecutive indices, cyclically, differ in exactly *)
(* one bit.  Then the invariant: evaluate_opening runs in step with what   *)
(* commit did at the same leaf, and differs by the hidden leaf only.       *)
(***************************************************************************)
EXTENDS LineCommitment, WellFoundedInduction, SequenceTheorems, TLAPS

L == NbEvalsLog

-----------------------------------------------------------------------------
(* Arithmetic. *)

LEMMA SizeFacts == /\ L \in Nat \ {0} /\ Tau \in Nat \ {0} /\ NbEvals \in Nat \ {0}
                   /\ 0 \in Leaf
<1>1. L \in Nat \ {0} /\ Tau \in Nat \ {0}
  BY SizeAssumption DEF L
<1>2. NbEvals \in Nat \ {0}
  BY <1>1, PowerAssumption DEF L, NbEvals
<1> QED BY <1>1, <1>2 DEF Leaf

LEMMA LeastNumber ==
  ASSUME NEW T, T \subseteq Nat, T # {}
  PROVE  \E x \in T : \A y \in T : x <= y
<1> DEFINE R == {ss \in Nat \X Nat : ss[1] < ss[2]}
<1>1. IsWellFoundedOn(R, Nat)
  BY NatLessThanWellFounded DEF OpToRel
<1> HIDE DEF R
<1>2. PICK x \in T : \A y \in T : ~ (<<y, x>> \in R)
  BY <1>1, WFMin
<1>3. \A y \in T : x <= y
  <2> SUFFICES ASSUME NEW y \in T PROVE x <= y
    OBVIOUS
  <2>1. x \in Nat /\ y \in Nat
    OBVIOUS
  <2>2. ~(<<y, x>> \in R)
    BY <1>2
  <2>3. ~(y < x)
    BY <2>1, <2>2 DEF R
  <2> QED BY <2>1, <2>3
<1> QED BY <1>3

LEMMA PowerSum ==
  ASSUME NEW a \in 0 .. L, NEW b \in 0 .. L, a + b <= L
  PROVE  2^a \in Nat \ {0} /\ 2^b \in Nat \ {0} /\ 2^(a + b) = 2^a * 2^b
<1> DEFINE P(n) == 2^n
<1>1. \A c, d \in 0 .. L : c + d <= L => P(c + d) = P(c) * P(d)
  BY PowerAssumption DEF L
<1>2. \A c \in 0 .. L : P(c) \in Nat \ {0}
  BY PowerAssumption DEF L
<1> HIDE DEF P
<1>3. P(a + b) = P(a) * P(b) /\ P(a) \in Nat \ {0} /\ P(b) \in Nat \ {0}
  BY <1>1, <1>2
<1> QED BY <1>3 DEF P

LEMMA PowerStep ==
  ASSUME NEW k \in Bit
  PROVE  2^k \in Nat \ {0} /\ 2^(k + 1) = 2 * 2^k
<1>1. k \in 0 .. L /\ 1 \in 0 .. L /\ k + 1 <= L
  BY SizeFacts DEF Bit, L
<1>2. 2^1 = 2
  BY PowerAssumption
<1>3. 2^k \in Nat \ {0} /\ 2^(k + 1) = 2^k * 2^1
  BY <1>1, PowerSum
<1> QED BY <1>2, <1>3

(* A quotient moves at multiples of the divisor only. *)
LEMMA DivSucc ==
  ASSUME NEW i \in Nat, NEW b \in Nat \ {0}
  PROVE  /\ (i + 1) % b = 0 => (i + 1) \div b = i \div b + 1
         /\ (i + 1) % b # 0 => (i + 1) \div b = i \div b
<1> DEFINE q == i \div b  r == i % b
<1>1. q \in Nat /\ r \in 0 .. b - 1 /\ i = b * q + r
  OBVIOUS
<1> HIDE DEF q, r
<1>2. CASE r = b - 1
  <2>1. i + 1 = b * (q + 1)
    BY <1>1, <1>2
  <2>2. (i + 1) \div b = q + 1 /\ (i + 1) % b = 0
    BY <1>1, <2>1
  <2> QED BY <2>2 DEF q
<1>3. CASE r # b - 1
  <2>1. i + 1 = b * q + (r + 1) /\ r + 1 \in 1 .. b - 1
    BY <1>1, <1>3
  <2>2. (i + 1) \div b = q /\ (i + 1) % b = r + 1
    BY <1>1, <2>1
  <2> QED BY <2>1, <2>2 DEF q
<1> QED BY <1>2, <1>3

(* Bit k of an index changes, adding one, at multiples of 2^k. *)
LEMMA BitFlips ==
  ASSUME NEW i \in Nat, NEW b \in Nat \ {0}
  PROVE  (i \div b) % 2 # ((i + 1) \div b) % 2 <=> (i + 1) % b = 0
<1>1. (i \div b) \in Nat
  OBVIOUS
<1>2. CASE (i + 1) % b = 0
  BY <1>1, <1>2, DivSucc
<1>3. CASE (i + 1) % b # 0
  BY <1>1, <1>3, DivSucc
<1> QED BY <1>2, <1>3

LEMMA MultipleOfTwice ==
  ASSUME NEW j \in Nat, NEW b \in Nat \ {0}, NEW c \in Nat \ {0}, j % (b * c) = 0
  PROVE  j % b = 0
<1> DEFINE q == j \div (b * c)
<1>1. b * c \in Nat \ {0}
  OBVIOUS
<1>2. q \in Nat /\ j = (b * c) * q
  BY <1>1
<1> HIDE DEF q
<1>3. c * q \in Nat /\ j = b * (c * q)
  BY <1>2
<1> DEFINE m == c * q
<1>4. m \in Nat /\ j = b * m
  BY <1>3
<1> HIDE DEF m
<1> QED BY <1>4

-----------------------------------------------------------------------------
(* The Gray code. *)

LEMMA FlipsInside ==
  ASSUME NEW i \in Leaf, i + 1 < NbEvals, NEW k \in Bit
  PROVE  GrayFlips(i, k) <=> (i + 1) % 2^k = 0 /\ (i + 1) % 2^(k + 1) # 0
<1> DEFINE b == 2^k
<1>1. b \in Nat \ {0} /\ 2^(k + 1) = 2 * b /\ 2 * b \in Nat \ {0}
  BY PowerStep
<1>2. i \in Nat /\ i + 1 \in Nat
  BY SizeFacts DEF Leaf
<1>3. GrayFlips(i, k) <=> (GrayBit(i, k) # GrayBit(i + 1, k))
  BY DEF GrayFlips, NextIndex
<1>4. GrayBit(i, k) = ((i \div b) % 2 # (i \div (2 * b)) % 2)
  BY <1>1 DEF GrayBit
<1>5. GrayBit(i + 1, k) = (((i + 1) \div b) % 2 # ((i + 1) \div (2 * b)) % 2)
  BY <1>1 DEF GrayBit
<1> HIDE DEF b
<1>6. (i \div b) % 2 # ((i + 1) \div b) % 2 <=> (i + 1) % b = 0
  BY <1>1, <1>2, BitFlips
<1>7. (i \div (2 * b)) % 2 # ((i + 1) \div (2 * b)) % 2 <=> (i + 1) % (2 * b) = 0
  BY <1>1, <1>2, BitFlips
<1>8. (i + 1) % (2 * b) = 0 => (i + 1) % b = 0
  <2> SUFFICES ASSUME (i + 1) % (2 * b) = 0 PROVE (i + 1) % b = 0
    OBVIOUS
  <2>1. 2 * b = b * 2
    BY <1>1
  <2>2. (i + 1) % (b * 2) = 0
    BY <2>1
  <2>3. 2 \in Nat \ {0}
    OBVIOUS
  <2> QED BY <1>1, <1>2, <2>2, <2>3, MultipleOfTwice
<1>9. /\ (i \div b) % 2 \in {0, 1} /\ (i \div (2 * b)) % 2 \in {0, 1}
      /\ ((i + 1) \div b) % 2 \in {0, 1} /\ ((i + 1) \div (2 * b)) % 2 \in {0, 1}
  <2>1. \A x \in Nat : x % 2 \in {0, 1}
    OBVIOUS
  <2>2. \A x \in Nat, c \in Nat \ {0} : x \div c \in Nat
    OBVIOUS
  <2> QED BY <1>1, <1>2, <2>1, <2>2
<1>10. GrayFlips(i, k) <=> (i + 1) % b = 0 /\ (i + 1) % (2 * b) # 0
  <2> DEFINE u == (i \div b) % 2  v == (i \div (2 * b)) % 2
             x == ((i + 1) \div b) % 2  y == ((i + 1) \div (2 * b)) % 2
  <2>1. /\ u \in {0, 1} /\ v \in {0, 1} /\ x \in {0, 1} /\ y \in {0, 1}
        /\ u # x <=> (i + 1) % b = 0
        /\ v # y <=> (i + 1) % (2 * b) = 0
        /\ GrayFlips(i, k) <=> ((u # v) # (x # y))
    BY <1>3, <1>4, <1>5, <1>6, <1>7, <1>9
  <2> HIDE DEF u, v, x, y
  <2> QED BY <1>8, <2>1
<1> QED BY <1>1, <1>10 DEF b

LEMMA AllOnes ==
  ASSUME NEW k \in 0 .. L
  PROVE  ((NbEvals - 1) \div 2^k) % 2 = IF k = L THEN 0 ELSE 1
<1> DEFINE b == 2^k  c == 2^(L - k)
<1>1. L - k \in 0 .. L /\ k + (L - k) = L
  BY SizeFacts
<1>2. b \in Nat \ {0} /\ c \in Nat \ {0} /\ NbEvals = b * c
  BY <1>1, PowerSum DEF NbEvals, L
<1>3. (NbEvals - 1) \div b = c - 1
  <2>1. NbEvals - 1 = b * (c - 1) + (b - 1)
    BY <1>2
  <2> HIDE DEF b, c
  <2> QED BY <1>2, <2>1
<1>4. c % 2 = IF k = L THEN 1 ELSE 0
  <2>1. CASE k = L
    <3>1. c = 1
      BY <2>1, SizeFacts, PowerAssumption
    <3> QED BY <2>1, <3>1
  <2>2. CASE k # L
    <3>1. L - k - 1 \in Bit /\ (L - k - 1) + 1 = L - k
      BY <2>2, SizeFacts DEF Bit, L
    <3>2. 2^(L - k - 1) \in Nat /\ c = 2 * 2^(L - k - 1)
      BY <3>1, PowerStep
    <3> QED BY <2>2, <3>2
  <2> QED BY <2>1, <2>2
<1>5. (c - 1) % 2 = IF k = L THEN 0 ELSE 1
  <2> HIDE DEF c
  <2> QED BY <1>2, <1>4
<1> QED BY <1>3, <1>5

LEMMA FlipsAtWrap ==
  ASSUME NEW k \in Bit
  PROVE  GrayFlips(NbEvals - 1, k) <=> k = L - 1
<1>1. NextIndex(NbEvals - 1) = 0
  BY SizeFacts DEF NextIndex
<1>2. GrayBit(0, k) = FALSE
  <2>1. 2^k \in Nat \ {0} /\ 2^(k + 1) \in Nat \ {0}
    BY PowerStep
  <2>2. \A c \in Nat \ {0} : 0 \div c = 0
    OBVIOUS
  <2> QED BY <2>1, <2>2 DEF GrayBit
<1>3. GrayBit(NbEvals - 1, k) <=> k = L - 1
  <2>1. k \in 0 .. L /\ k + 1 \in 0 .. L /\ k # L /\ (k + 1 = L <=> k = L - 1)
    BY SizeFacts DEF Bit, L
  <2>2. /\ ((NbEvals - 1) \div 2^k) % 2 = IF k = L THEN 0 ELSE 1
        /\ ((NbEvals - 1) \div 2^(k + 1)) % 2 = IF k + 1 = L THEN 0 ELSE 1
    BY <2>1, AllOnes
  <2> QED BY <2>1, <2>2 DEF GrayBit
<1>4. GrayBit(NbEvals - 1, k) \in BOOLEAN
  BY DEF GrayBit
<1> QED BY <1>1, <1>2, <1>3, <1>4 DEF GrayFlips

LEMMA FlipExists == ASSUME NEW i \in Leaf PROVE \E k \in Bit : GrayFlips(i, k)
<1>1. CASE i + 1 < NbEvals
  <2> DEFINE T == {k \in 0 .. L : (i + 1) % 2^k # 0}
  <2>1. L \in T
    <3>1. 2^L = NbEvals /\ L \in 0 .. L
      BY SizeFacts DEF NbEvals, L
    <3>2. i + 1 \in 1 .. NbEvals - 1
      BY <1>1, SizeFacts DEF Leaf
    <3>3. (i + 1) % NbEvals # 0
      <4> DEFINE n == NbEvals
      <4>1. n \in Nat \ {0} /\ i + 1 \in 1 .. n - 1
        BY <3>2, SizeFacts
      <4> HIDE DEF n
      <4>2. (i + 1) % n = i + 1
        BY <4>1
      <4> QED BY <4>1, <4>2 DEF n
    <3> QED BY <3>1, <3>3
  <2>2. PICK m \in T : \A y \in T : m <= y
    <3>1. T \subseteq 0 .. L /\ 0 .. L \subseteq Nat
      BY SizeFacts
    <3>2. T \subseteq Nat /\ T # {}
      BY <2>1, <3>1
    <3> HIDE DEF T
    <3> QED BY <3>2, LeastNumber
  <2>3. m # 0
    <3>1. \A x \in Nat : x % 1 = 0
      OBVIOUS
    <3>2. i + 1 \in Nat
      BY SizeFacts DEF Leaf
    <3> QED BY <2>2, <3>1, <3>2, PowerAssumption
  <2>4. /\ m - 1 \in Bit /\ m - 1 \in 0 .. L /\ (m - 1) + 1 = m
        /\ ~(m <= m - 1)
    BY <2>2, <2>3, SizeFacts DEF Bit, L
  <2>5. (i + 1) % 2^(m - 1) = 0
    <3>1. m - 1 \notin T
      BY <2>2, <2>4
    <3> QED BY <2>4, <3>1
  <2>6. (i + 1) % 2^m # 0
    OBVIOUS
  <2> QED BY <1>1, <2>4, <2>5, <2>6, FlipsInside
<1>2. CASE ~(i + 1 < NbEvals)
  <2>1. i = NbEvals - 1 /\ L - 1 \in Bit
    BY <1>2, SizeFacts DEF Leaf, Bit, L
  <2> QED BY <2>1, FlipsAtWrap
<1> QED BY <1>1, <1>2

LEMMA FlipUnique ==
  ASSUME NEW i \in Leaf, NEW j \in Bit, NEW k \in Bit, j < k,
         GrayFlips(i, j), GrayFlips(i, k)
  PROVE  FALSE
<1>1. CASE i + 1 < NbEvals
  <2>1. (i + 1) % 2^(j + 1) # 0 /\ (i + 1) % 2^k = 0
    BY <1>1, FlipsInside
  <2> DEFINE b == 2^(j + 1)  c == 2^(k - (j + 1))
  <2>2. j + 1 \in 0 .. L /\ k - (j + 1) \in 0 .. L /\ (j + 1) + (k - (j + 1)) = k /\ k <= L
    BY SizeFacts DEF Bit, L
  <2>3. b \in Nat \ {0} /\ c \in Nat \ {0} /\ 2^k = b * c
    BY <2>2, PowerSum
  <2>4. i + 1 \in Nat /\ (i + 1) % (b * c) = 0
    BY <2>1, <2>3, SizeFacts DEF Leaf
  <2> HIDE DEF b, c
  <2>5. (i + 1) % b = 0
    BY <2>3, <2>4, MultipleOfTwice
  <2> QED BY <2>1, <2>5 DEF b
<1>2. CASE ~(i + 1 < NbEvals)
  <2>1. i = NbEvals - 1
    BY <1>2, SizeFacts DEF Leaf
  <2> QED BY <2>1, FlipsAtWrap, SizeFacts DEF Bit, L
<1> QED BY <1>1, <1>2

(* gray_code_bit_position (blc.rs:229-238) always finds a position below   *)
(* NB_EVALS_LOG, and it is the only bit in which the Gray codes of an      *)
(* index and of the next one, cyclically, differ.                          *)
THEOREM GrayCycle ==
  \A i \in Leaf :
    /\ GrayPosition(i) \in Bit
    /\ \A k \in Bit : GrayFlips(i, k) <=> k = GrayPosition(i)
<1> SUFFICES ASSUME NEW i \in Leaf
             PROVE  /\ GrayPosition(i) \in Bit
                    /\ \A k \in Bit : GrayFlips(i, k) <=> k = GrayPosition(i)
  OBVIOUS
<1>1. PICK m \in Bit : GrayFlips(i, m)
  BY FlipExists
<1>2. \A k \in Bit : GrayFlips(i, k) => k = m
  BY <1>1, FlipUnique, SizeFacts DEF Bit
<1>3. \E k \in Bit : GrayFlips(i, k) /\ \A j \in Bit : GrayFlips(i, j) => k <= j
  BY <1>1, <1>2, SizeFacts DEF Bit
<1>4. GrayPosition(i) \in Bit /\ GrayFlips(i, GrayPosition(i))
  BY <1>3 DEF GrayPosition
<1> QED BY <1>2, <1>4

-----------------------------------------------------------------------------
(* The inductive invariant. *)

If(c, w) == IF c THEN w ELSE Zero

(* The accumulator and the folding after i leaves of execution e. *)
Acc(e, i) == trace[e][i].accumulator
Fold(e, i) == trace[e][i].folding
LeafOf(e, i) == Expand(salt, e, leaves[e][i])

(* The history records what the loop of commit does, up to n leaves. *)
Recorded(e, n) ==
  /\ Acc(e, 0) = ZeroVector /\ Fold(e, 0) = NoFolding
  /\ \A i \in 0 .. n - 1 :
       /\ Acc(e, i + 1) = Add(Acc(e, i), LeafOf(e, i))
       /\ Fold(e, i + 1) = [Fold(e, i) EXCEPT ![GrayPosition(i)] = Add(@, Acc(e, i + 1))]
  /\ \A s \in [0 .. NbEvals -> Word] :
       PrefixSums(s, leaves[e]) => \A i \in 0 .. n : Acc(e, i)["seed"] = s[i]

Absorbed(seq, n, e, s, f) ==
  Len(seq) = n /\ \A j \in 1 .. n : seq[j] = Commit(s, e, f[j - 1])

Running ==
  pc = "commit" =>
    /\ execution = Tau => leaf = 0
    /\ execution < Tau =>
         /\ Recorded(execution, leaf)
         /\ Acc(execution, leaf) = accumulator /\ Fold(execution, leaf) = folding
         /\ Absorbed(absorbed, leaf, execution, salt, leaves[execution])
         /\ \A e \in Execution : e > execution =>
              Acc(e, 0) = ZeroVector /\ Fold(e, 0) = NoFolding

CommittedTo == IF pc = "commit" THEN execution ELSE Tau

CommittedLines ==
  \A e \in Execution : e < CommittedTo =>
    /\ Recorded(e, NbEvals)
    /\ zeroPoint[e] = Fold(e, NbEvals) /\ uOne[e] = Acc(e, NbEvals)["mask"]
    /\ partialDeltas[e] = Xor(secret["tail"], Acc(e, NbEvals)["tail"])
    /\ Absorbed(hashes[e], NbEvals, e, salt, leaves[e])

Sealed == pc # "commit" => commitment = <<hashes, partialDeltas>>

SecretSums ==
  \A e \in Execution : \E s \in [0 .. NbEvals -> Word] :
    PrefixSums(s, leaves[e]) /\ s[NbEvals] = secret["seed"]

(* What evaluate_opening knows of execution e is what was committed. *)
Agrees(e) ==
  LET h == opening.hidden[e] IN
    /\ h \in Leaf /\ opening.salt = salt
    /\ opening.partialDeltas[e] = partialDeltas[e]
    /\ \A i \in Leaf \ {h} : opening.leaves[e][i] = leaves[e][i]

(* Past the hidden leaf the two loops differ by it: in the accumulator,    *)
(* and in the folding of the bits where its Gray code differs from that of *)
(* the index reached.                                                      *)
Differ(h, i, k) == i > h /\ GrayBit(h, k) # GrayBit(IF i = NbEvals THEN 0 ELSE i, k)

InStep ==
  pc = "evaluate" /\ execution < Tau /\ Agrees(execution) =>
    LET h == opening.hidden[execution] IN
    \A p \in Part :
      /\ accumulator[p]
           = Xor(Acc(execution, leaf)[p], If(leaf > h, LeafOf(execution, h)[p]))
      /\ \A k \in Bit :
           folding[k][p]
             = Xor(Fold(execution, leaf)[k][p], If(Differ(h, leaf, k), LeafOf(execution, h)[p]))

OpenedHash(seq, n, e) ==
  /\ Len(seq) = n
  /\ \A j \in 1 .. n :
       seq[j] = IF j - 1 = opening.hidden[e] THEN opening.hiddenCommitments[e]
                ELSE Commit(opening.salt, e, opening.leaves[e][j - 1])

EvaluatedTo == CASE pc = "evaluate" -> execution [] pc = "some" -> Tau [] OTHER -> 0

Evaluating ==
  pc = "evaluate" =>
    /\ execution = Tau => leaf = 0
    /\ execution < Tau => OpenedHash(absorbed, leaf, execution)
    /\ execution < Tau /\ leaf # 0 => opening.hidden[execution] \in Leaf

OnLine(e) ==
  \A k \in Bit : evals[e][k] = IF GrayBit(opening.hidden[e], k)
                               THEN Add(zeroPoint[e][k], One(e)) ELSE zeroPoint[e][k]

EvaluatedLines ==
  \A e \in Execution : e < EvaluatedTo =>
    /\ opening.hidden[e] \in Leaf
    /\ OpenedHash(vhashes[e], NbEvals, e)
    /\ Agrees(e) => OnLine(e)

Verdict ==
  /\ pc = "some" => <<vhashes, opening.partialDeltas>> = commitment
  /\ pc = "deliver" => \A e \in Execution : hidden[e] \in Leaf
  /\ HonestAccepted

IInv == /\ TypeOK /\ SecretSums /\ Running /\ CommittedLines /\ Sealed
        /\ Evaluating /\ InStep /\ EvaluatedLines /\ Verdict

-----------------------------------------------------------------------------
(* The group, vectors, and one leaf. *)

LEMMA XorType == ASSUME NEW a \in Word, NEW b \in Word PROVE Xor(a, b) \in Word
BY GroupAssumption

LEMMA XorZero == ASSUME NEW a \in Word PROVE Xor(a, Zero) = a /\ Xor(Zero, a) = a
BY GroupAssumption

LEMMA XorCancel ==
  ASSUME NEW a \in Word, NEW b \in Word
  PROVE  Xor(Xor(a, b), b) = a
<1>1. Xor(Xor(a, b), b) = Xor(a, Xor(b, b))
  BY GroupAssumption
<1> QED BY <1>1, GroupAssumption

LEMMA XorSwap ==
  ASSUME NEW a \in Word, NEW b \in Word, NEW c \in Word
  PROVE  Xor(Xor(a, b), c) = Xor(Xor(a, c), b)
<1>1. Xor(Xor(a, b), c) = Xor(a, Xor(b, c))
  BY GroupAssumption
<1>2. Xor(b, c) = Xor(c, b)
  BY GroupAssumption
<1>3. Xor(Xor(a, c), b) = Xor(a, Xor(c, b))
  BY GroupAssumption
<1> QED BY <1>1, <1>2, <1>3

LEMMA IfType == ASSUME NEW c, NEW w \in Word PROVE If(c, w) \in Word
BY GroupAssumption DEF If

(* Folding a sum that already differs by h changes whether the folding does. *)
LEMMA XorFold ==
  ASSUME NEW f \in Word, NEW a \in Word, NEW h \in Word, NEW d \in BOOLEAN
  PROVE  Xor(Xor(f, If(d, h)), Xor(a, h)) = Xor(Xor(f, a), If(~d, h))
<1>1. CASE d
  <2>1. Xor(Xor(f, h), Xor(a, h)) = Xor(Xor(f, Xor(a, h)), h)
    BY XorType, XorSwap
  <2>2. Xor(f, Xor(a, h)) = Xor(Xor(f, a), h)
    BY GroupAssumption
  <2>3. Xor(Xor(Xor(f, a), h), h) = Xor(f, a)
    BY XorType, XorCancel
  <2>4. Xor(Xor(f, a), Zero) = Xor(f, a)
    BY XorType, XorZero
  <2> QED BY <1>1, <2>1, <2>2, <2>3, <2>4 DEF If
<1>2. CASE ~d
  <2>1. Xor(f, Xor(a, h)) = Xor(Xor(f, a), h)
    BY GroupAssumption
  <2>2. Xor(f, Zero) = f
    BY XorZero
  <2> QED BY <1>2, <2>1, <2>2 DEF If
<1> QED BY <1>1, <1>2

LEMMA AddFacts ==
  ASSUME NEW a \in Vector, NEW b \in Vector
  PROVE  Add(a, b) \in Vector /\ \A p \in Part : Add(a, b)[p] = Xor(a[p], b[p])
BY XorType DEF Vector, Add

LEMMA VectorEqual ==
  ASSUME NEW a \in Vector, NEW b \in Vector, \A p \in Part : a[p] = b[p]
  PROVE  a = b
BY DEF Vector

LEMMA ZeroFacts ==
  /\ ZeroVector \in Vector /\ NoFolding \in [Bit -> Vector]
  /\ NoWords \in [Execution -> Word]
  /\ \A p \in Part : ZeroVector[p] = Zero
BY GroupAssumption DEF ZeroVector, Vector, NoFolding, NoWords

LEMMA ExpandFacts ==
  ASSUME NEW s \in Salt, NEW e \in Execution, NEW w \in Word
  PROVE  Expand(s, e, w) \in Vector /\ Expand(s, e, w)["seed"] = w
BY PrgAssumption DEF Expand, Vector, Part

LEMMA AppendFacts ==
  ASSUME NEW S, NEW q \in Seq(S), NEW c \in S
  PROVE  /\ Len(Append(q, c)) = Len(q) + 1 /\ Len(q) \in Nat
         /\ Append(q, c)[Len(q) + 1] = c
         /\ \A j \in 1 .. Len(q) : Append(q, c)[j] = q[j]
OBVIOUS

LEMMA FoldLeafFacts ==
  ASSUME TypeOK, leaf \in Leaf, NEW v \in Vector, NEW c \in SeedCommitment,
         FoldLeaf(v, c)
  PROVE  /\ absorbed' \in Seq(SeedCommitment) /\ Len(absorbed') = leaf'
         /\ leaf' \in 0 .. NbEvals
         /\ leaf' = leaf + 1
         /\ accumulator' = Add(accumulator, v) /\ accumulator' \in Vector
         /\ folding' \in [Bit -> Vector]
         /\ folding' = [folding EXCEPT ![GrayPosition(leaf)] = Add(@, accumulator')]
         /\ absorbed' = Append(absorbed, c)
<1>1. leaf + 1 \in 0 .. NbEvals
  BY SizeFacts DEF Leaf
<1>2. accumulator' = Add(accumulator, v) /\ accumulator' \in Vector
  BY AddFacts DEF FoldLeaf, TypeOK
<1>3. folding' \in [Bit -> Vector]
  <2>1. GrayPosition(leaf) \in Bit
    BY GrayCycle
  <2>2. Add(folding[GrayPosition(leaf)], accumulator') \in Vector
    BY <1>2, <2>1, AddFacts DEF TypeOK
  <2> QED BY <2>2 DEF FoldLeaf, TypeOK
<1>4. absorbed' \in Seq(SeedCommitment)
  BY DEF FoldLeaf, TypeOK
<1>5. Len(absorbed') = leaf + 1
  BY AppendFacts DEF FoldLeaf, TypeOK
<1> QED BY <1>1, <1>2, <1>3, <1>4, <1>5 DEF FoldLeaf

-----------------------------------------------------------------------------
(* What leaves the committed and the evaluated parts alone. *)

LEMMA CommittedFrame ==
  ASSUME UNCHANGED <<salt, secret, leaves, trace, zeroPoint, uOne, partialDeltas, hashes>>
  PROVE  /\ SecretSums => SecretSums'
         /\ CommittedTo' = CommittedTo /\ CommittedLines => CommittedLines'
<1>1. SecretSums => SecretSums'
  BY DEF SecretSums
<1>2. CommittedTo' = CommittedTo /\ CommittedLines => CommittedLines'
  BY DEF CommittedLines, Recorded, Acc, Fold, LeafOf, Absorbed
<1> QED BY <1>1, <1>2

LEMMA EvaluatedFrame ==
  ASSUME UNCHANGED <<salt, secret, leaves, zeroPoint, uOne, partialDeltas,
                     opening, evals, vhashes>>,
         EvaluatedTo' = EvaluatedTo, EvaluatedLines
  PROVE  EvaluatedLines'
BY DEF EvaluatedLines, OpenedHash, Agrees, OnLine, One

-----------------------------------------------------------------------------
(* The invariant holds initially and every action preserves it. *)

LEMMA InitStep == Init => IInv
<1> SUFFICES ASSUME Init PROVE IInv
  OBVIOUS
<1> USE DEF Init
<1>1. leaves \in [Execution -> [Leaf -> Word]]
  BY DEF TreeLeaves
<1>2. opening \in [salt : Salt,
                   hidden : [Execution -> 0 .. NbEvals],
                   leaves : [Execution -> [Leaf -> Word]],
                   hiddenCommitments : [Execution -> SeedCommitment],
                   partialDeltas : [Execution -> Word]]
  <2>1. hidden \in [Execution -> 0 .. NbEvals] /\ \A e \in Execution : hidden[e] \in Leaf
    BY SizeFacts
  <2>2. [e \in Execution |-> [leaves[e] EXCEPT ![hidden[e]] = Zero]]
          \in [Execution -> [Leaf -> Word]]
    BY <1>1, GroupAssumption
  <2>3. [e \in Execution |-> Commit(salt, e, leaves[e][hidden[e]])]
          \in [Execution -> SeedCommitment]
    BY <1>1, <2>1 DEF SeedCommitment
  <2> HIDE DEF Init
  <2>4. salt \in Salt /\ partialDeltas \in [Execution -> Word] /\ opening = Opened
    BY ZeroFacts DEF Init
  <2> QED BY <2>1, <2>2, <2>3, <2>4 DEF Opened
<1>3. TypeOK
  <2>1. <<>> \in Seq(SeedCommitment) /\ Len(<<>>) = 0
    OBVIOUS
  <2>2. trace \in [Execution -> [0 .. NbEvals -> [accumulator : Vector, folding : [Bit -> Vector]]]]
    BY ZeroFacts
  <2> QED BY <1>1, <1>2, <2>1, <2>2, ZeroFacts, SizeFacts DEF TypeOK
<1>4. SecretSums
  BY DEF SecretSums, TreeLeaves
<1>5. \A e \in Execution : Acc(e, 0) = ZeroVector /\ Fold(e, 0) = NoFolding
  BY SizeFacts DEF Acc, Fold
<1>6. Running
  <2>1. ASSUME execution < Tau PROVE Recorded(execution, 0)
    <3>1. execution \in Execution
      BY SizeFacts DEF Execution
    <3>2. \A i \in 0 .. 0 - 1 : FALSE /\ \A j \in 0 .. 0 : j = 0
      OBVIOUS
    <3>3. \A s \in [0 .. NbEvals -> Word] :
            PrefixSums(s, leaves[execution]) => \A i \in 0 .. 0 : Acc(execution, i)["seed"] = s[i]
      BY <1>5, <3>1, ZeroFacts DEF PrefixSums, Part
    <3> QED BY <1>5, <3>1, <3>2, <3>3 DEF Recorded
  <2>2. Absorbed(absorbed, 0, execution, salt, leaves[execution])
    BY DEF Absorbed
  <2>3. \A e \in Execution : execution < Tau => execution \in Execution
    BY SizeFacts DEF Execution
  <2>4. execution < Tau => Acc(execution, 0) = accumulator /\ Fold(execution, 0) = folding
    <3>1. 0 \in Execution
      BY SizeFacts DEF Execution
    <3> QED BY <1>5, <3>1
  <2> QED BY <1>5, <2>1, <2>2, <2>4 DEF Running
<1>7. CommittedLines
  BY SizeFacts DEF CommittedLines, CommittedTo, Execution
<1>8. Sealed /\ Evaluating /\ InStep /\ Verdict
  BY DEF Sealed, Evaluating, InStep, Verdict, HonestAccepted
<1>9. EvaluatedLines
  BY SizeFacts DEF EvaluatedLines, EvaluatedTo, Execution
<1> QED BY <1>3, <1>4, <1>6, <1>7, <1>8, <1>9 DEF IInv

(* One leaf of commit: the history gains one entry. *)
LEMMA CommitLeafStep == IInv /\ CommitLeaf => IInv'
<1> SUFFICES ASSUME IInv, CommitLeaf PROVE IInv'
  OBVIOUS
<1> USE DEF IInv
<1> DEFINE e == execution
           i == leaf
           v == Expand(salt, e, leaves[e][i])
           c == Commit(salt, e, leaves[e][i])
<1>0. /\ pc = "commit" /\ pc' = "commit" /\ e \in Execution /\ i \in Leaf /\ e < Tau
      /\ execution' = e /\ i \in Nat /\ i < NbEvals
  BY SizeFacts DEF CommitLeaf, TypeOK, Execution, Leaf
<1>1. leaves[e][i] \in Word /\ salt \in Salt /\ v \in Vector /\ v["seed"] = leaves[e][i]
      /\ c \in SeedCommitment
  <2>1. leaves[e][i] \in Word /\ salt \in Salt
    BY <1>0 DEF TypeOK
  <2>2. c \in SeedCommitment
    BY <1>0, <2>1 DEF SeedCommitment
  <2>3. v \in Vector /\ v["seed"] = leaves[e][i]
    BY <1>0, <2>1, ExpandFacts
  <2> QED BY <2>1, <2>2, <2>3
<1>2. FoldLeaf(v, c)
  BY DEF CommitLeaf
<1>3. /\ absorbed' \in Seq(SeedCommitment) /\ Len(absorbed') = leaf'
      /\ leaf' \in 0 .. NbEvals /\ leaf' = i + 1
      /\ accumulator' = Add(accumulator, v) /\ accumulator' \in Vector
      /\ folding' \in [Bit -> Vector]
      /\ folding' = [folding EXCEPT ![GrayPosition(i)] = Add(@, accumulator')]
      /\ absorbed' = Append(absorbed, c)
  BY <1>0, <1>1, <1>2, FoldLeafFacts
<1>4. /\ UNCHANGED <<salt, secret, leaves, hidden, zeroPoint, uOne, partialDeltas,
                     hashes, commitment, opening, evals, vhashes>>
      /\ trace' = [trace EXCEPT ![e][i + 1] =
                     [accumulator |-> accumulator', folding |-> folding']]
  BY DEF CommitLeaf, inputs, committed, evaluated
<1> HIDE DEF v, c
<1>5. /\ \A d \in Execution : d # e => trace'[d] = trace[d]
      /\ \A j \in 0 .. NbEvals : j # i + 1 => trace'[e][j] = trace[e][j]
      /\ trace'[e][i + 1].accumulator = accumulator'
      /\ trace'[e][i + 1].folding = folding'
  BY <1>0, <1>3, <1>4 DEF TypeOK
<1>6. TypeOK'
  <2>1. trace' \in [Execution -> [0 .. NbEvals ->
                      [accumulator : Vector, folding : [Bit -> Vector]]]]
    BY <1>0, <1>3, <1>4 DEF TypeOK
  <2> QED BY <1>0, <1>3, <1>4, <2>1 DEF TypeOK
<1>7. SecretSums'
  BY <1>4 DEF SecretSums
<1>8. Running'
  <2>1. Recorded(e, i) /\ Acc(e, i) = accumulator /\ Fold(e, i) = folding
        /\ Absorbed(absorbed, i, e, salt, leaves[e])
    BY <1>0 DEF Running
  <2>2. /\ trace'[e][0].accumulator = ZeroVector /\ trace'[e][0].folding = NoFolding
    BY <1>0, <1>5, <2>1, SizeFacts DEF Recorded, Acc, Fold
  <2>3. ASSUME NEW j \in 0 .. i
        PROVE  /\ trace'[e][j + 1].accumulator
                    = Add(trace'[e][j].accumulator, Expand(salt, e, leaves[e][j]))
               /\ trace'[e][j + 1].folding
                    = [trace'[e][j].folding EXCEPT
                         ![GrayPosition(j)] = Add(@, trace'[e][j + 1].accumulator)]
    <3>1. CASE j = i
      <4>1. trace'[e][i] = trace[e][i]
        <5>1. i \in 0 .. NbEvals /\ i # i + 1
          BY <1>0, SizeFacts
        <5> QED BY <1>5, <5>1
      <4> QED BY <1>3, <1>5, <2>1, <3>1, <4>1 DEF Acc, Fold, v
    <3>2. CASE j # i
      <4>1. j \in 0 .. i - 1 /\ j \in 0 .. NbEvals /\ j + 1 \in 0 .. NbEvals
            /\ j # i + 1 /\ j + 1 # i + 1
        BY <1>0, <3>2, SizeFacts
      <4>2. trace'[e][j] = trace[e][j] /\ trace'[e][j + 1] = trace[e][j + 1]
        BY <1>5, <4>1
      <4> QED BY <2>1, <4>1, <4>2 DEF Recorded, Acc, Fold, LeafOf
    <3> QED BY <3>1, <3>2
  <2>4. ASSUME NEW s \in [0 .. NbEvals -> Word], PrefixSums(s, leaves[e]),
               NEW j \in 0 .. i + 1
        PROVE  trace'[e][j].accumulator["seed"] = s[j]
    <3>1. \A k \in 0 .. i : Acc(e, k)["seed"] = s[k]
      BY <2>1, <2>4 DEF Recorded
    <3>2. CASE j = i + 1
      <4>1. accumulator'["seed"] = Xor(accumulator["seed"], leaves[e][i])
        BY <1>1, <1>3, AddFacts DEF TypeOK, Part
      <4>2. accumulator["seed"] = s[i]
        BY <1>0, <2>1, <3>1
      <4> QED BY <1>0, <1>5, <2>4, <3>2, <4>1, <4>2 DEF PrefixSums
    <3>3. CASE j # i + 1
      <4>1. j \in 0 .. i /\ trace'[e][j] = trace[e][j]
        BY <1>0, <1>5, <3>3, SizeFacts
      <4> QED BY <3>1, <4>1 DEF Acc
    <3> QED BY <3>2, <3>3
  <2>5. /\ Len(absorbed') = i + 1
        /\ \A j \in 1 .. i + 1 : absorbed'[j] = Commit(salt, e, leaves[e][j - 1])
    <3>1. /\ Len(absorbed') = Len(absorbed) + 1 /\ absorbed'[Len(absorbed) + 1] = c
          /\ \A j \in 1 .. Len(absorbed) : absorbed'[j] = absorbed[j]
      BY <1>1, <1>3, AppendFacts DEF TypeOK
    <3>2. Len(absorbed) = i /\ \A j \in 1 .. i : absorbed[j] = Commit(salt, e, leaves[e][j - 1])
      BY <2>1 DEF Absorbed
    <3>3. \A j \in 1 .. i + 1 : j \in 1 .. i \/ j = i + 1
      BY <1>0
    <3>4. (i + 1) - 1 = i
      BY <1>0
    <3> QED BY <3>1, <3>2, <3>3, <3>4 DEF c
  <2>6. ASSUME NEW d \in Execution, d > e
        PROVE  trace'[d][0].accumulator = ZeroVector /\ trace'[d][0].folding = NoFolding
    <3>1. d # e
      BY <1>0, <2>6 DEF Execution
    <3> QED BY <1>0, <1>5, <2>6, <3>1 DEF Running, Acc, Fold
  <2>7. (i + 1) - 1 = i
    BY <1>0
  <2>8. Recorded(execution, leaf)'
    BY <1>0, <1>3, <1>4, <2>2, <2>3, <2>4, <2>7 DEF Recorded, Acc, Fold, LeafOf
  <2>9. Absorbed(absorbed, leaf, execution, salt, leaves[execution])'
    BY <1>0, <1>3, <1>4, <2>5 DEF Absorbed
  <2>10. Acc(execution, leaf)' = accumulator' /\ Fold(execution, leaf)' = folding'
    BY <1>0, <1>3, <1>5 DEF Acc, Fold
  <2>11. (\A d \in Execution : d > execution => Acc(d, 0) = ZeroVector /\ Fold(d, 0) = NoFolding)'
    BY <1>0, <2>6 DEF Acc, Fold
  <2>12. execution' < Tau /\ execution' # Tau
    BY <1>0 DEF Execution
  <2> QED BY <2>8, <2>9, <2>10, <2>11, <2>12 DEF Running
<1>9. CommittedLines'
  <2> SUFFICES ASSUME NEW d \in Execution, d < e
               PROVE  (/\ Recorded(d, NbEvals)
                       /\ zeroPoint[d] = Fold(d, NbEvals)
                       /\ uOne[d] = Acc(d, NbEvals)["mask"]
                       /\ partialDeltas[d] = Xor(secret["tail"], Acc(d, NbEvals)["tail"])
                       /\ Absorbed(hashes[d], NbEvals, d, salt, leaves[d]))'
    BY <1>0 DEF CommittedLines, CommittedTo
  <2>1. trace'[d] = trace[d]
    BY <1>0, <1>5 DEF Execution
  <2>2. /\ Recorded(d, NbEvals)
        /\ zeroPoint[d] = Fold(d, NbEvals) /\ uOne[d] = Acc(d, NbEvals)["mask"]
        /\ partialDeltas[d] = Xor(secret["tail"], Acc(d, NbEvals)["tail"])
        /\ Absorbed(hashes[d], NbEvals, d, salt, leaves[d])
    BY <1>0 DEF CommittedLines, CommittedTo
  <2>3. Recorded(d, NbEvals)'
    BY <1>4, <2>1, <2>2 DEF Recorded, Acc, Fold, LeafOf
  <2>4. Absorbed(hashes[d], NbEvals, d, salt, leaves[d])'
    BY <1>4, <2>2 DEF Absorbed
  <2> QED BY <1>4, <2>1, <2>2, <2>3, <2>4 DEF Acc, Fold
<1>10. Sealed' /\ Evaluating' /\ InStep' /\ Verdict'
  BY <1>0 DEF Sealed, Evaluating, InStep, Verdict, HonestAccepted
<1>11. EvaluatedLines'
  BY <1>0, SizeFacts DEF EvaluatedLines, EvaluatedTo, Execution
<1> QED BY <1>6, <1>7, <1>8, <1>9, <1>10, <1>11

(* Starting an execution: everything is zero, as the history begins. *)
LEMMA StartFacts ==
  ASSUME NEW e, StartExecution(e)
  PROVE  /\ execution' = e /\ leaf' = 0 /\ accumulator' = ZeroVector
         /\ folding' = NoFolding /\ absorbed' = <<>>
         /\ accumulator' \in Vector /\ folding' \in [Bit -> Vector]
         /\ absorbed' \in Seq(SeedCommitment) /\ Len(absorbed') = leaf'
         /\ leaf' \in 0 .. NbEvals
<1>1. <<>> \in Seq(SeedCommitment) /\ Len(<<>>) = 0 /\ 0 \in 0 .. NbEvals
  BY SizeFacts
<1> QED BY <1>1, ZeroFacts DEF StartExecution

LEMMA RecordedNone ==
  ASSUME NEW e \in Execution, Acc(e, 0) = ZeroVector, Fold(e, 0) = NoFolding
  PROVE  Recorded(e, 0)
<1>1. \A i \in 0 .. 0 - 1 : FALSE
  OBVIOUS
<1>2. \A s \in [0 .. NbEvals -> Word] :
        PrefixSums(s, leaves[e]) => \A i \in 0 .. 0 : Acc(e, i)["seed"] = s[i]
  <2>1. \A i \in 0 .. 0 : i = 0
    OBVIOUS
  <2> QED BY <2>1, ZeroFacts DEF PrefixSums, Part
<1> QED BY <1>1, <1>2 DEF Recorded

(* The end of an execution of commit. *)
LEMMA CommitExecutionStep == IInv /\ CommitExecution => IInv'
<1> SUFFICES ASSUME IInv, CommitExecution PROVE IInv'
  OBVIOUS
<1> USE DEF IInv
<1>9. PICK e \in Execution : e = execution
  BY SizeFacts DEF CommitExecution, TypeOK, Execution
<1>0. /\ pc = "commit" /\ pc' = "commit" /\ e \in Execution /\ e < Tau /\ leaf = NbEvals
      /\ e + 1 \in 0 .. Tau /\ e \in Nat /\ execution = e
  BY <1>9, SizeFacts DEF CommitExecution, TypeOK, Execution
<1>1. /\ StartExecution(e + 1)
      /\ UNCHANGED <<salt, secret, leaves, hidden, commitment, opening, evals, vhashes, trace>>
      /\ hashes' = [hashes EXCEPT ![e] = absorbed]
      /\ zeroPoint' = [zeroPoint EXCEPT ![e] = folding]
      /\ uOne' = [uOne EXCEPT ![e] = accumulator["mask"]]
      /\ partialDeltas' = [partialDeltas EXCEPT ![e] = Xor(secret["tail"], accumulator["tail"])]
  BY <1>0 DEF CommitExecution, inputs, evaluated
<1>2. /\ execution' = e + 1 /\ leaf' = 0 /\ accumulator' = ZeroVector
      /\ folding' = NoFolding /\ absorbed' = <<>>
      /\ accumulator' \in Vector /\ folding' \in [Bit -> Vector]
      /\ absorbed' \in Seq(SeedCommitment) /\ Len(absorbed') = leaf'
      /\ leaf' \in 0 .. NbEvals
  BY <1>1, StartFacts
<1>3. TypeOK'
  <2>1. accumulator["mask"] \in Word /\ Xor(secret["tail"], accumulator["tail"]) \in Word
    BY XorType DEF TypeOK, Vector, Part
  <2> QED BY <1>0, <1>1, <1>2, <2>1 DEF TypeOK
<1>4. SecretSums'
  BY <1>1 DEF SecretSums
<1>5. Running'
  <2> SUFFICES ASSUME e + 1 < Tau
               PROVE  /\ Recorded(e + 1, 0)'
                      /\ Acc(e + 1, 0)' = ZeroVector /\ Fold(e + 1, 0)' = NoFolding
                      /\ Absorbed(<<>>, 0, e + 1, salt', leaves'[e + 1])
                      /\ \A d \in Execution : d > e + 1 =>
                           Acc(d, 0)' = ZeroVector /\ Fold(d, 0)' = NoFolding
    BY <1>0, <1>2 DEF Running, Acc, Fold, Absorbed
  <2>1. \A d \in Execution : d > e => Acc(d, 0) = ZeroVector /\ Fold(d, 0) = NoFolding
    BY <1>0 DEF Running
  <2>2. e + 1 \in Execution /\ e + 1 > e /\ \A d \in Execution : d > e + 1 => d > e
    BY <1>0, SizeFacts DEF Execution
  <2>3. Recorded(e + 1, 0)
    BY <2>1, <2>2, RecordedNone
  <2>4. Recorded(e + 1, 0)'
    BY <1>1, <2>3 DEF Recorded, Acc, Fold, LeafOf
  <2>5. Absorbed(<<>>, 0, e + 1, salt', leaves'[e + 1])
    BY DEF Absorbed
  <2> QED BY <1>1, <2>1, <2>2, <2>4, <2>5 DEF Acc, Fold
<1>6. CommittedLines'
  <2> SUFFICES ASSUME NEW d \in Execution, d < e + 1
               PROVE  (/\ Recorded(d, NbEvals)
                       /\ zeroPoint[d] = Fold(d, NbEvals)
                       /\ uOne[d] = Acc(d, NbEvals)["mask"]
                       /\ partialDeltas[d] = Xor(secret["tail"], Acc(d, NbEvals)["tail"])
                       /\ Absorbed(hashes[d], NbEvals, d, salt, leaves[d]))'
    BY <1>0, <1>2 DEF CommittedLines, CommittedTo
  <2>1. CASE d = e
    <3>1. /\ Recorded(e, NbEvals)
          /\ Acc(e, NbEvals) = accumulator /\ Fold(e, NbEvals) = folding
          /\ Absorbed(absorbed, NbEvals, e, salt, leaves[e])
      BY <1>0 DEF Running
    <3>2. Recorded(d, NbEvals)'
      BY <1>1, <2>1, <3>1 DEF Recorded, Acc, Fold, LeafOf
    <3>3. /\ hashes'[d] = absorbed /\ zeroPoint'[d] = folding
          /\ uOne'[d] = accumulator["mask"]
          /\ partialDeltas'[d] = Xor(secret["tail"], accumulator["tail"])
      BY <1>0, <1>1, <2>1 DEF TypeOK
    <3>4. Absorbed(hashes[d], NbEvals, d, salt, leaves[d])'
      BY <1>1, <2>1, <3>1, <3>3 DEF Absorbed
    <3> QED BY <1>1, <2>1, <3>1, <3>2, <3>3, <3>4 DEF Acc, Fold
  <2>2. CASE d # e
    <3>1. /\ Recorded(d, NbEvals)
          /\ zeroPoint[d] = Fold(d, NbEvals) /\ uOne[d] = Acc(d, NbEvals)["mask"]
          /\ partialDeltas[d] = Xor(secret["tail"], Acc(d, NbEvals)["tail"])
          /\ Absorbed(hashes[d], NbEvals, d, salt, leaves[d])
      BY <1>0, <2>2 DEF CommittedLines, CommittedTo, Execution
    <3>2. Recorded(d, NbEvals)'
      BY <1>1, <3>1 DEF Recorded, Acc, Fold, LeafOf
    <3>3. /\ hashes'[d] = hashes[d] /\ zeroPoint'[d] = zeroPoint[d]
          /\ uOne'[d] = uOne[d] /\ partialDeltas'[d] = partialDeltas[d]
      BY <1>0, <1>1, <2>2 DEF TypeOK
    <3>4. Absorbed(hashes[d], NbEvals, d, salt, leaves[d])'
      BY <1>1, <3>1, <3>3 DEF Absorbed
    <3> QED BY <1>1, <3>1, <3>2, <3>3, <3>4 DEF Acc, Fold
  <2> QED BY <2>1, <2>2
<1>7. Sealed' /\ Evaluating' /\ InStep' /\ Verdict'
  BY <1>0 DEF Sealed, Evaluating, InStep, Verdict, HonestAccepted
<1>8. EvaluatedLines'
  BY <1>0, SizeFacts DEF EvaluatedLines, EvaluatedTo, Execution
<1> QED BY <1>3, <1>4, <1>5, <1>6, <1>7, <1>8

(* Nothing is committed any more: only what the verifier holds changes. *)
LEMMA QuietStep ==
  ASSUME IInv, pc # "commit", pc' # "commit",
         UNCHANGED <<salt, secret, leaves, trace, zeroPoint, uOne, partialDeltas,
                     hashes, commitment>>
  PROVE  SecretSums' /\ Running' /\ CommittedLines' /\ Sealed'
<1>1. CommittedTo' = CommittedTo
  BY DEF CommittedTo
<1>2. Running' /\ Sealed'
  BY DEF Running, Sealed, IInv
<1> QED BY <1>1, <1>2, CommittedFrame DEF IInv

LEMMA CommitAllStep == IInv /\ CommitAll => IInv'
<1> SUFFICES ASSUME IInv, CommitAll PROVE IInv'
  OBVIOUS
<1> USE DEF IInv, CommitAll, locals, inputs, evaluated
<1>1. TypeOK'
  BY DEF TypeOK
<1>2. SecretSums'
  BY DEF SecretSums
<1>3. Running' /\ Sealed' /\ Evaluating' /\ InStep' /\ Verdict'
  BY DEF Running, Sealed, Evaluating, InStep, Verdict, HonestAccepted
<1>4. CommittedLines'
  <2>1. CommittedTo' = CommittedTo
    BY DEF CommittedTo
  <2> QED BY <2>1, CommittedFrame
<1>5. EvaluatedLines'
  BY SizeFacts DEF EvaluatedLines, EvaluatedTo, Execution
<1> QED BY <1>1, <1>2, <1>3, <1>4, <1>5

LEMMA ChallengeStep == IInv /\ Challenge => IInv'
<1> SUFFICES ASSUME IInv, Challenge PROVE IInv'
  OBVIOUS
<1> USE DEF Challenge, locals, inputs, committed, evaluated
<1>1. TypeOK'
  BY DEF IInv, TypeOK
<1>2. SecretSums' /\ Running' /\ CommittedLines' /\ Sealed'
  BY QuietStep
<1>3. Evaluating' /\ InStep' /\ Verdict'
  BY DEF Evaluating, InStep, Verdict, HonestAccepted
<1>4. EvaluatedLines'
  BY SizeFacts DEF EvaluatedLines, EvaluatedTo, Execution
<1> QED BY <1>1, <1>2, <1>3, <1>4 DEF IInv

LEMMA RefuseToOpenStep == IInv /\ RefuseToOpen => IInv'
<1> SUFFICES ASSUME IInv, RefuseToOpen PROVE IInv'
  OBVIOUS
<1> USE DEF RefuseToOpen, locals, inputs, committed, evaluated
<1>1. TypeOK'
  BY DEF IInv, TypeOK
<1>2. SecretSums' /\ Running' /\ CommittedLines' /\ Sealed'
  BY QuietStep
<1>3. Evaluating' /\ InStep' /\ Verdict'
  BY SizeFacts DEF Evaluating, InStep, Verdict, HonestAccepted, Leaf
<1>4. EvaluatedLines'
  BY SizeFacts DEF EvaluatedLines, EvaluatedTo, Execution
<1> QED BY <1>1, <1>2, <1>3, <1>4 DEF IInv

LEMMA OpenedType ==
  ASSUME TypeOK, \A e \in Execution : hidden[e] \in Leaf
  PROVE  Opened \in [salt : Salt,
                     hidden : [Execution -> 0 .. NbEvals],
                     leaves : [Execution -> [Leaf -> Word]],
                     hiddenCommitments : [Execution -> SeedCommitment],
                     partialDeltas : [Execution -> Word]]
<1>1. [e \in Execution |-> [leaves[e] EXCEPT ![hidden[e]] = Zero]]
        \in [Execution -> [Leaf -> Word]]
  BY GroupAssumption DEF TypeOK
<1>2. [e \in Execution |-> Commit(salt, e, leaves[e][hidden[e]])]
        \in [Execution -> SeedCommitment]
  BY DEF TypeOK, SeedCommitment
<1> QED BY <1>1, <1>2 DEF TypeOK, Opened

LEMMA OpenStep == IInv /\ Open => IInv'
<1> SUFFICES ASSUME IInv, Open PROVE IInv'
  OBVIOUS
<1> USE DEF Open, locals, inputs, committed, evaluated
<1>0. \A e \in Execution : hidden[e] \in Leaf
  BY SizeFacts DEF IInv, TypeOK, Leaf
<1>1. TypeOK'
  <2>1. opening' = Opened
    OBVIOUS
  <2> QED BY <1>0, <2>1, OpenedType DEF IInv, TypeOK
<1>2. SecretSums' /\ Running' /\ CommittedLines' /\ Sealed'
  BY QuietStep
<1>3. Evaluating' /\ InStep' /\ Verdict'
  BY <1>0 DEF Evaluating, InStep, Verdict, HonestAccepted
<1>4. EvaluatedLines'
  BY SizeFacts DEF EvaluatedLines, EvaluatedTo, Execution
<1> QED BY <1>1, <1>2, <1>3, <1>4 DEF IInv

(* Whatever was altered on the way has the shape of an opening. *)
LEMMA AlteredType ==
  ASSUME TypeOK
  PROVE  Altered \subseteq [salt : Salt,
                            hidden : [Execution -> 0 .. NbEvals],
                            leaves : [Execution -> [Leaf -> Word]],
                            hiddenCommitments : [Execution -> SeedCommitment],
                            partialDeltas : [Execution -> Word]]
<1> DEFINE O == [salt : Salt,
                 hidden : [Execution -> 0 .. NbEvals],
                 leaves : [Execution -> [Leaf -> Word]],
                 hiddenCommitments : [Execution -> SeedCommitment],
                 partialDeltas : [Execution -> Word]]
<1>1. opening \in O
  BY DEF TypeOK
<1>2. \A s \in Salt : [opening EXCEPT !.salt = s] \in O
  BY <1>1
<1>3. \A e \in Execution, h \in 0 .. NbEvals : [opening EXCEPT !.hidden[e] = h] \in O
  BY <1>1
<1>4. \A e \in Execution, f \in [Leaf -> Word] :
        [opening EXCEPT !.leaves[e] = [f EXCEPT ![hidden[e]] = Zero]] \in O
  <2>1. \A e \in Execution, f \in [Leaf -> Word] : [f EXCEPT ![hidden[e]] = Zero] \in [Leaf -> Word]
    BY GroupAssumption
  <2> QED BY <1>1, <2>1
<1>5. \A e \in Execution, d \in Execution, w \in Word :
        [opening EXCEPT !.hiddenCommitments[e] = Commit(salt, d, w)] \in O
  <2>1. \A d \in Execution, w \in Word : Commit(salt, d, w) \in SeedCommitment
    BY DEF TypeOK, SeedCommitment
  <2> QED BY <1>1, <2>1
<1>6. \A e \in Execution, w \in Word : [opening EXCEPT !.partialDeltas[e] = w] \in O
  BY <1>1
<1> HIDE DEF O
<1>7. Altered \subseteq O
  BY <1>1, <1>2, <1>3, <1>4, <1>5, <1>6 DEF Altered
<1> QED BY <1>7 DEF O

(* Before its first leaf the verifier's loop is in step with the signer's. *)
LEMMA InStepStart ==
  ASSUME NEW e \in Execution, Recorded(e, NbEvals),
         NEW h \in Leaf, NEW k \in Bit, NEW p \in Part
  PROVE  /\ ZeroVector[p] = Xor(Acc(e, 0)[p], If(0 > h, LeafOf(e, h)[p]))
         /\ NoFolding[k][p] = Xor(Fold(e, 0)[k][p], If(FALSE, LeafOf(e, h)[p]))
<1>1. ~(0 > h)
  BY SizeFacts DEF Leaf
<1>2. Xor(Zero, Zero) = Zero
  BY GroupAssumption
<1> QED BY <1>1, <1>2, ZeroFacts DEF Recorded, If, NoFolding

LEMMA StartInStep ==
  ASSUME CommittedLines, CommittedTo = Tau, NEW e \in Execution, StartExecution(e),
         UNCHANGED <<salt, leaves, trace>>
  PROVE  InStep'
<1>1. execution' = e /\ leaf' = 0 /\ accumulator' = ZeroVector /\ folding' = NoFolding
  BY StartFacts
<1>2. CASE opening'.hidden[e] \notin Leaf
  BY <1>1, <1>2 DEF InStep, Agrees
<1>3. CASE opening'.hidden[e] \in Leaf
  <2>1. PICK h \in Leaf : h = opening'.hidden[e]
    BY <1>3
  <2>2. Recorded(e, NbEvals)
    BY SizeFacts DEF CommittedLines, Execution
  <2>3. ~(0 > h)
    BY SizeFacts DEF Leaf
  <2>4. \A p \in Part :
          /\ ZeroVector[p] = Xor(Acc(e, 0)[p], If(0 > h, LeafOf(e, h)[p]))
          /\ \A k \in Bit : NoFolding[k][p]
               = Xor(Fold(e, 0)[k][p], If(FALSE, LeafOf(e, h)[p]))
    <3>1. Bit # {}
      BY SizeFacts DEF Bit, L
    <3> QED BY <2>2, <3>1, InStepStart
  <2> QED BY <1>1, <2>1, <2>3, <2>4 DEF InStep, Differ, Acc, Fold, LeafOf
<1> QED BY <1>2, <1>3

LEMMA DeliverStep == IInv /\ Deliver => IInv'
<1> SUFFICES ASSUME IInv, Deliver PROVE IInv'
  OBVIOUS
<1> USE DEF Deliver, inputs, committed, evaluated
<1>0. 0 \in Execution /\ 0 \in 0 .. Tau /\ 0 # Tau /\ 0 < Tau
  BY SizeFacts DEF Execution
<1>1. /\ execution' = 0 /\ leaf' = 0 /\ accumulator' = ZeroVector
      /\ folding' = NoFolding /\ absorbed' = <<>>
      /\ accumulator' \in Vector /\ folding' \in [Bit -> Vector]
      /\ absorbed' \in Seq(SeedCommitment) /\ Len(absorbed') = leaf'
      /\ leaf' \in 0 .. NbEvals
  BY StartFacts
<1>2. TypeOK'
  <2>1. opening' \in [salt : Salt,
                      hidden : [Execution -> 0 .. NbEvals],
                      leaves : [Execution -> [Leaf -> Word]],
                      hiddenCommitments : [Execution -> SeedCommitment],
                      partialDeltas : [Execution -> Word]]
    BY AlteredType DEF IInv
  <2> QED BY <1>0, <1>1, <2>1 DEF IInv, TypeOK
<1>3. SecretSums' /\ Running' /\ CommittedLines' /\ Sealed'
  BY QuietStep
<1>4. InStep'
  BY <1>0, StartInStep DEF IInv, CommittedTo
<1>5. Evaluating'
  <2>1. OpenedHash(<<>>, 0, 0)'
    BY DEF OpenedHash
  <2> QED BY <1>0, <1>1, <2>1 DEF Evaluating, OpenedHash
<1>6. EvaluatedLines'
  BY <1>1, SizeFacts DEF EvaluatedLines, EvaluatedTo, Execution
<1>7. Verdict'
  BY DEF Verdict, HonestAccepted
<1> QED BY <1>2, <1>3, <1>4, <1>5, <1>6, <1>7 DEF IInv

LEMMA RefuseIndexStep == IInv /\ RefuseIndex => IInv'
<1> SUFFICES ASSUME IInv, RefuseIndex PROVE IInv'
  OBVIOUS
<1> USE DEF RefuseIndex, locals, inputs, committed, evaluated
<1>1. TypeOK'
  BY DEF IInv, TypeOK
<1>2. SecretSums' /\ Running' /\ CommittedLines' /\ Sealed'
  BY QuietStep
<1>3. Verdict'
  <2>1. execution \in Execution /\ opening.hidden[execution] \notin Leaf
    BY SizeFacts DEF IInv, TypeOK, Execution, Leaf
  <2>2. opening = Opened => hidden[execution] \notin Leaf
    BY <2>1 DEF Opened
  <2> QED BY <2>1, <2>2 DEF Verdict, HonestAccepted, Opened
<1>4. Evaluating' /\ InStep'
  BY DEF Evaluating, InStep
<1>5. EvaluatedLines'
  BY SizeFacts DEF EvaluatedLines, EvaluatedTo, Execution
<1> QED BY <1>1, <1>2, <1>3, <1>4, <1>5 DEF IInv

(* The bits in which the loops differ, one leaf later. *)
LEMMA DifferStep ==
  ASSUME NEW h \in Leaf, NEW i \in Leaf, NEW k \in Bit
  PROVE  Differ(h, i + 1, k) <=>
           IF k = GrayPosition(i) /\ i >= h THEN ~Differ(h, i, k) ELSE Differ(h, i, k)
<1>1. /\ i # NbEvals /\ (IF i + 1 = NbEvals THEN 0 ELSE i + 1) = NextIndex(i)
      /\ i \in Nat /\ h \in Nat
  BY SizeFacts DEF Leaf, NextIndex
<1>2. GrayBit(h, k) \in BOOLEAN /\ GrayBit(i, k) \in BOOLEAN /\ GrayBit(NextIndex(i), k) \in BOOLEAN
  BY DEF GrayBit
<1>3. GrayBit(i, k) # GrayBit(NextIndex(i), k) <=> k = GrayPosition(i)
  BY GrayCycle DEF GrayFlips
<1>4. CASE i < h
  BY <1>1, <1>4 DEF Differ
<1>5. CASE i = h
  <2>1. ~Differ(h, i, k)
    BY <1>1, <1>5 DEF Differ
  <2>2. Differ(h, i + 1, k) <=> GrayBit(i, k) # GrayBit(NextIndex(i), k)
    BY <1>1, <1>5 DEF Differ
  <2> QED BY <1>1, <1>3, <1>5, <2>1, <2>2
<1>6. CASE i > h
  <2>1. Differ(h, i, k) <=> GrayBit(h, k) # GrayBit(i, k)
    BY <1>1, <1>6 DEF Differ
  <2>2. Differ(h, i + 1, k) <=> GrayBit(h, k) # GrayBit(NextIndex(i), k)
    BY <1>1, <1>6 DEF Differ
  <2> QED BY <1>1, <1>2, <1>3, <1>6, <2>1, <2>2
<1> QED BY <1>1, <1>4, <1>5, <1>6

(* Types of what the history holds. *)
LEMMA HistoryType ==
  ASSUME TypeOK, NEW e \in Execution, NEW i \in 0 .. NbEvals
  PROVE  /\ Acc(e, i) \in Vector /\ Fold(e, i) \in [Bit -> Vector]
         /\ \A p \in Part : Acc(e, i)[p] \in Word
         /\ \A k \in Bit, p \in Part : Fold(e, i)[k][p] \in Word
<1>0. trace \in [Execution -> [0 .. NbEvals -> [accumulator : Vector, folding : [Bit -> Vector]]]]
  BY DEF TypeOK
<1>1. trace[e][i] \in [accumulator : Vector, folding : [Bit -> Vector]]
  <2>1. trace[e] \in [0 .. NbEvals -> [accumulator : Vector, folding : [Bit -> Vector]]]
    BY <1>0
  <2> QED BY <2>1
<1>2. Acc(e, i) \in Vector /\ Fold(e, i) \in [Bit -> Vector]
  BY <1>1 DEF Acc, Fold
<1> QED BY <1>2 DEF Vector

LEMMA LeafType ==
  ASSUME TypeOK, NEW e \in Execution, NEW i \in Leaf
  PROVE  LeafOf(e, i) \in Vector /\ \A p \in Part : LeafOf(e, i)[p] \in Word
<1>1. LeafOf(e, i) \in Vector
  BY ExpandFacts DEF TypeOK, LeafOf
<1> QED BY <1>1 DEF Vector

(* One leaf later the accumulators still differ by the hidden leaf only.   *)
(* v is what the verifier adds: nothing at the hidden leaf.                *)
LEMMA AccumulatorInStep ==
  ASSUME TypeOK, NEW e \in Execution, Recorded(e, NbEvals),
         NEW h \in Leaf, NEW i \in Leaf, NEW p \in Part,
         NEW a \in Vector, a[p] = Xor(Acc(e, i)[p], If(i > h, LeafOf(e, h)[p])),
         NEW v \in Vector, v = IF i = h THEN ZeroVector ELSE LeafOf(e, i)
  PROVE  Add(a, v)[p] = Xor(Acc(e, i + 1)[p], If(i + 1 > h, LeafOf(e, h)[p]))
<1> DEFINE A == Acc(e, i)[p]  H == LeafOf(e, h)[p]  I == LeafOf(e, i)[p]
<1>0. i \in Nat /\ h \in Nat /\ i \in 0 .. NbEvals - 1 /\ i \in 0 .. NbEvals
  BY SizeFacts DEF Leaf
<1>1. Add(a, v)[p] = Xor(a[p], v[p])
  BY AddFacts
<1>2. A \in Word /\ H \in Word /\ I \in Word
  <2>1. Acc(e, i) \in Vector
    BY <1>0, HistoryType
  <2> QED BY <2>1, LeafType DEF Vector
<1>3. Acc(e, i + 1)[p] = Xor(A, I)
  <2>1. Acc(e, i) \in Vector /\ LeafOf(e, i) \in Vector
    BY <1>0, LeafType, HistoryType
  <2>2. Acc(e, i + 1) = Add(Acc(e, i), LeafOf(e, i))
    BY <1>0 DEF Recorded
  <2> QED BY <2>1, <2>2, AddFacts
<1> HIDE DEF A, H, I
<1>4. a[p] = Xor(A, If(i > h, H))
  BY DEF A, H
<1>5. CASE i < h
  <2>1. ~(i > h) /\ ~(i + 1 > h) /\ v[p] = I
    BY <1>0, <1>5 DEF I
  <2> QED BY <1>1, <1>2, <1>3, <1>4, <2>1, XorZero, XorType DEF If, H
<1>6. CASE i = h
  <2>1. ~(i > h) /\ i + 1 > h /\ v[p] = Zero /\ I = H
    BY <1>0, <1>6, ZeroFacts DEF I, H
  <2>2. Add(a, v)[p] = A
    BY <1>1, <1>2, <1>4, <2>1, XorZero DEF If
  <2>3. Xor(Xor(A, H), H) = A
    BY <1>2, XorCancel
  <2> QED BY <1>3, <2>1, <2>2, <2>3 DEF If, H
<1>7. CASE i > h
  <2>1. i # h /\ i + 1 > h /\ v[p] = I
    BY <1>0, <1>7 DEF I
  <2>2. Xor(Xor(A, H), I) = Xor(Xor(A, I), H)
    BY <1>2, XorSwap
  <2> QED BY <1>1, <1>3, <1>4, <1>7, <2>1, <2>2 DEF If, H
<1> QED BY <1>0, <1>5, <1>6, <1>7

(* ... and the foldings in the bits of its Gray code passed so far. *)
LEMMA FoldingInStep ==
  ASSUME TypeOK, NEW e \in Execution, Recorded(e, NbEvals),
         NEW h \in Leaf, NEW i \in Leaf, NEW p \in Part, NEW k \in Bit,
         NEW f \in Vector,
         f[p] = Xor(Fold(e, i)[k][p], If(Differ(h, i, k), LeafOf(e, h)[p])),
         NEW b \in Vector,
         b[p] = Xor(Acc(e, i + 1)[p], If(i + 1 > h, LeafOf(e, h)[p]))
  PROVE  (IF k = GrayPosition(i) THEN Add(f, b) ELSE f)[p]
           = Xor(Fold(e, i + 1)[k][p], If(Differ(h, i + 1, k), LeafOf(e, h)[p]))
<1> DEFINE H == LeafOf(e, h)[p]  F == Fold(e, i)[k][p]  A == Acc(e, i + 1)[p]
<1>0. /\ i \in Nat /\ h \in Nat /\ i \in 0 .. NbEvals - 1 /\ i \in 0 .. NbEvals
      /\ i + 1 \in 0 .. NbEvals
  BY SizeFacts DEF Leaf
<1>1. F \in Word /\ A \in Word /\ H \in Word
  BY <1>0, HistoryType, LeafType
<1>2. Fold(e, i + 1) = [Fold(e, i) EXCEPT ![GrayPosition(i)] = Add(@, Acc(e, i + 1))]
  BY <1>0 DEF Recorded
<1>3. Fold(e, i) \in [Bit -> Vector] /\ Acc(e, i + 1) \in Vector
  BY <1>0, HistoryType
<1>4. Differ(h, i, k) \in BOOLEAN
  BY DEF Differ
<1>5. CASE k # GrayPosition(i)
  <2>1. Fold(e, i + 1)[k] = Fold(e, i)[k]
    BY <1>2, <1>3, <1>5
  <2>2. Differ(h, i + 1, k) <=> Differ(h, i, k)
    BY <1>5, DifferStep
  <2> QED BY <1>5, <2>1, <2>2 DEF If
<1>6. CASE k = GrayPosition(i)
  <2>1. Fold(e, i + 1)[k][p] = Xor(F, A)
    <3>1. Fold(e, i + 1)[k] = Add(Fold(e, i)[k], Acc(e, i + 1))
      BY <1>2, <1>3, <1>6
    <3> QED BY <1>3, <3>1, AddFacts
  <2>2. Add(f, b)[p] = Xor(f[p], b[p])
    BY AddFacts
  <2>3. CASE i < h
    <3>1. ~Differ(h, i, k) /\ ~Differ(h, i + 1, k) /\ ~(i + 1 > h)
      BY <1>0, <2>3 DEF Differ
    <3>2. f[p] = F /\ b[p] = A
      BY <1>1, <3>1, XorZero DEF If
    <3>3. Xor(Xor(F, A), Zero) = Xor(F, A)
      BY <1>1, XorType, XorZero
    <3> QED BY <1>6, <2>1, <2>2, <3>1, <3>2, <3>3 DEF If
  <2>4. CASE i >= h
    <3>1. i + 1 > h /\ (Differ(h, i + 1, k) <=> ~Differ(h, i, k))
      BY <1>0, <1>6, <2>4, DifferStep
    <3>2. f[p] = Xor(F, If(Differ(h, i, k), H)) /\ b[p] = Xor(A, H)
      BY <3>1 DEF If
    <3> HIDE DEF F, A, H
    <3>3. Xor(Xor(F, If(Differ(h, i, k), H)), Xor(A, H))
            = Xor(Xor(F, A), If(~Differ(h, i, k), H))
      BY <1>1, <1>4, XorFold
    <3>4. If(~Differ(h, i, k), H) = If(Differ(h, i + 1, k), H)
      BY <3>1 DEF If
    <3> QED BY <1>6, <2>1, <2>2, <3>2, <3>3, <3>4 DEF H
  <2> QED BY <1>0, <2>3, <2>4
<1> QED BY <1>5, <1>6

(* One leaf of evaluate_opening. *)
LEMMA EvaluateLeafStep == IInv /\ EvaluateLeaf => IInv'
<1> SUFFICES ASSUME IInv, EvaluateLeaf PROVE IInv'
  OBVIOUS
<1>0. PICK e \in Execution, i \in Leaf, h \in Leaf :
        e = execution /\ i = leaf /\ h = opening.hidden[e]
  <2>1. execution \in Execution /\ leaf \in Leaf
    BY SizeFacts DEF IInv, EvaluateLeaf, TypeOK, Execution, Leaf
  <2>2. opening.hidden[execution] \in Leaf
    BY <2>1, SizeFacts DEF IInv, EvaluateLeaf, TypeOK, Leaf
  <2> QED BY <2>1, <2>2
<1>1. /\ pc = "evaluate" /\ pc' = "evaluate" /\ execution' = e /\ e < Tau /\ e # Tau
      /\ UNCHANGED <<salt, secret, leaves, hidden, zeroPoint, uOne, partialDeltas,
                     hashes, commitment, opening, evals, vhashes, trace>>
  BY <1>0, SizeFacts DEF EvaluateLeaf, inputs, committed, evaluated, Execution
<1>2. PICK v \in Vector, c \in SeedCommitment :
        /\ FoldLeaf(v, c)
        /\ v = IF i = h THEN ZeroVector ELSE Expand(opening.salt, e, opening.leaves[e][i])
        /\ c = IF i = h THEN opening.hiddenCommitments[e]
               ELSE Commit(opening.salt, e, opening.leaves[e][i])
  <2>1. opening.salt \in Salt /\ opening.leaves[e][i] \in Word
        /\ opening.hiddenCommitments[e] \in SeedCommitment
    BY DEF IInv, TypeOK
  <2>2. CASE i = h
    BY <1>0, <2>1, <2>2, ZeroFacts DEF EvaluateLeaf
  <2>3. CASE i # h
    <3>1. Expand(opening.salt, e, opening.leaves[e][i]) \in Vector
      BY <2>1, ExpandFacts
    <3>2. Commit(opening.salt, e, opening.leaves[e][i]) \in SeedCommitment
      BY <2>1 DEF SeedCommitment
    <3> QED BY <1>0, <2>3, <3>1, <3>2 DEF EvaluateLeaf
  <2> QED BY <2>2, <2>3
<1>3. /\ absorbed' \in Seq(SeedCommitment) /\ Len(absorbed') = leaf'
      /\ leaf' \in 0 .. NbEvals /\ leaf' = i + 1
      /\ accumulator' = Add(accumulator, v) /\ accumulator' \in Vector
      /\ folding' \in [Bit -> Vector]
      /\ folding' = [folding EXCEPT ![GrayPosition(i)] = Add(@, accumulator')]
      /\ absorbed' = Append(absorbed, c)
  BY <1>0, <1>2, FoldLeafFacts DEF IInv
<1>4. TypeOK'
  BY <1>0, <1>1, <1>3 DEF IInv, TypeOK
<1>5. SecretSums' /\ Running' /\ CommittedLines' /\ Sealed'
  BY <1>1, QuietStep
<1>6. Evaluating'
  <2>1. OpenedHash(absorbed, i, e)
    BY <1>0, <1>1 DEF IInv, Evaluating
  <2>2. /\ Len(absorbed') = Len(absorbed) + 1 /\ absorbed'[Len(absorbed) + 1] = c
        /\ \A j \in 1 .. Len(absorbed) : absorbed'[j] = absorbed[j]
    BY <1>3, AppendFacts DEF IInv, TypeOK
  <2>3. /\ i \in Nat /\ (i + 1) - 1 = i
        /\ \A j \in 1 .. i + 1 : j \in 1 .. i \/ j = i + 1
    BY SizeFacts DEF Leaf
  <2>4. OpenedHash(absorbed', i + 1, e)
    BY <1>0, <1>2, <2>1, <2>2, <2>3 DEF OpenedHash
  <2>5. OpenedHash(absorbed, leaf, execution)'
    BY <1>1, <1>3, <2>4 DEF OpenedHash
  <2> QED BY <1>0, <1>1, <2>5 DEF Evaluating
<1>7. InStep'
  <2>1. SUFFICES ASSUME Agrees(e)
        PROVE \A p \in Part :
                /\ accumulator'[p] = Xor(Acc(e, i + 1)[p], If(i + 1 > h, LeafOf(e, h)[p]))
                /\ \A k \in Bit : folding'[k][p]
                     = Xor(Fold(e, i + 1)[k][p], If(Differ(h, i + 1, k), LeafOf(e, h)[p]))
    <3>1. Agrees(e)' <=> Agrees(e)
      BY <1>1 DEF Agrees
    <3> QED BY <1>0, <1>1, <1>3, <3>1 DEF InStep, Acc, Fold, LeafOf
  <2> SUFFICES ASSUME NEW p \in Part
        PROVE   /\ accumulator'[p] = Xor(Acc(e, i + 1)[p], If(i + 1 > h, LeafOf(e, h)[p]))
                /\ \A k \in Bit : folding'[k][p]
                     = Xor(Fold(e, i + 1)[k][p], If(Differ(h, i + 1, k), LeafOf(e, h)[p]))
    OBVIOUS
  <2>2. /\ accumulator[p] = Xor(Acc(e, i)[p], If(i > h, LeafOf(e, h)[p]))
        /\ \A k \in Bit : folding[k][p]
             = Xor(Fold(e, i)[k][p], If(Differ(h, i, k), LeafOf(e, h)[p]))
    BY <1>0, <1>1, <2>1 DEF IInv, InStep
  <2>3. Recorded(e, NbEvals)
    BY <1>1 DEF IInv, CommittedLines, CommittedTo
  <2>4. v = IF i = h THEN ZeroVector ELSE LeafOf(e, i)
    BY <1>0, <1>2, <2>1 DEF Agrees, LeafOf
  <2>5. accumulator \in Vector /\ folding \in [Bit -> Vector] /\ TypeOK
    BY DEF IInv, TypeOK
  <2>6. accumulator'[p] = Xor(Acc(e, i + 1)[p], If(i + 1 > h, LeafOf(e, h)[p]))
    BY <1>3, <2>2, <2>3, <2>4, <2>5, AccumulatorInStep
  <2>7. ASSUME NEW k \in Bit
        PROVE  folding'[k][p]
                 = Xor(Fold(e, i + 1)[k][p], If(Differ(h, i + 1, k), LeafOf(e, h)[p]))
    <3>1. PICK f \in Vector : f = folding[k]
      BY <2>5
    <3>2. PICK b \in Vector : b = accumulator'
      BY <1>3
    <3>3. folding'[k] = IF k = GrayPosition(i) THEN Add(f, b) ELSE f
      BY <1>3, <2>5, <3>1, <3>2
    <3>4. f[p] = Xor(Fold(e, i)[k][p], If(Differ(h, i, k), LeafOf(e, h)[p]))
      BY <2>2, <3>1
    <3>5. b[p] = Xor(Acc(e, i + 1)[p], If(i + 1 > h, LeafOf(e, h)[p]))
      BY <2>6, <3>2
    <3> QED BY <2>3, <2>5, <3>3, <3>4, <3>5, FoldingInStep
  <2> QED BY <2>6, <2>7
<1>8. EvaluatedLines'
  <2>1. EvaluatedTo' = EvaluatedTo
    BY <1>0, <1>1 DEF EvaluatedTo
  <2> QED BY <1>1, <2>1, EvaluatedFrame DEF IInv
<1>9. Verdict'
  BY <1>1 DEF Verdict, HonestAccepted
<1> QED BY <1>4, <1>5, <1>6, <1>7, <1>8, <1>9 DEF IInv

(* The verifier's corrected sum is the direction of the line, but for the  *)
(* hidden leaf: the part the leaves sum to by construction, the part the   *)
(* partial delta corrects, and the mask.                                   *)
LEMMA CorrectedSum ==
  ASSUME IInv, pc = "evaluate", NEW e \in Execution, e = execution, leaf = NbEvals,
         Agrees(e), NEW h \in Leaf, h = opening.hidden[e], NEW p \in Part
  PROVE  [accumulator EXCEPT !["tail"] = Xor(@, opening.partialDeltas[e])][p]
           = Xor(One(e)[p], LeafOf(e, h)[p])
<1> DEFINE A == Acc(e, NbEvals)[p]  H == LeafOf(e, h)[p]
<1>1. NbEvals > h /\ NbEvals \in 0 .. NbEvals /\ e < Tau
  BY SizeFacts DEF Leaf, Execution
<1>2. A \in Word /\ H \in Word /\ accumulator \in Vector
  BY <1>1, HistoryType, LeafType DEF IInv, TypeOK
<1>3. accumulator[p] = Xor(A, H)
  BY <1>1 DEF IInv, InStep, If
<1>4. /\ Recorded(e, NbEvals) /\ uOne[e] = Acc(e, NbEvals)["mask"]
      /\ partialDeltas[e] = Xor(secret["tail"], Acc(e, NbEvals)["tail"])
  BY <1>1 DEF IInv, CommittedLines, CommittedTo
<1>5. CASE p = "seed"
  <2>1. PICK s \in [0 .. NbEvals -> Word] :
          PrefixSums(s, leaves[e]) /\ s[NbEvals] = secret["seed"]
    BY DEF IInv, SecretSums
  <2>2. A = secret["seed"]
    BY <1>1, <1>4, <1>5, <2>1 DEF Recorded
  <2> QED BY <1>2, <1>3, <1>5, <2>2 DEF One, Vector, Part
<1>6. CASE p = "tail"
  <2>1. secret["tail"] \in Word
    BY DEF IInv, TypeOK
  <2>2. opening.partialDeltas[e] = Xor(secret["tail"], A)
    BY <1>4, <1>6 DEF Agrees
  <2>3. Xor(Xor(A, H), Xor(secret["tail"], A)) = Xor(secret["tail"], H)
    <3> DEFINE t == secret["tail"]
    <3>1. Xor(t, A) = Xor(A, t) /\ Xor(A, H) = Xor(H, A)
      BY <1>2, <2>1, GroupAssumption
    <3> HIDE DEF t, A, H
    <3>4. t \in Word
      BY <2>1 DEF t
    <3>2. Xor(Xor(H, A), Xor(A, t)) = Xor(H, Xor(A, Xor(A, t)))
      BY <1>2, <3>4, XorType, GroupAssumption
    <3>3. Xor(A, Xor(A, t)) = t
      BY <1>2, <3>4, XorCancel, XorType, GroupAssumption
    <3>5. Xor(H, t) = Xor(t, H)
      BY <1>2, <3>4, GroupAssumption
    <3> QED BY <3>1, <3>2, <3>3, <3>5 DEF t
  <2> QED BY <1>2, <1>3, <1>6, <2>2, <2>3 DEF One, Vector, Part
<1>7. CASE p = "mask"
  BY <1>2, <1>3, <1>4, <1>7 DEF One, Vector, Part
<1> QED BY <1>5, <1>6, <1>7 DEF Part

(* The end of an execution of evaluate_opening: the line at its point. *)
LEMMA OnLineStep ==
  ASSUME IInv, pc = "evaluate", NEW e \in Execution, e = execution, leaf = NbEvals,
         Agrees(e), NEW h \in Leaf, h = opening.hidden[e], NEW k \in Bit,
         NEW a \in Vector, \A p \in Part : a[p] = Xor(One(e)[p], LeafOf(e, h)[p])
  PROVE  (IF GrayBit(h, k) THEN Add(folding[k], a) ELSE folding[k])
           = IF GrayBit(h, k) THEN Add(zeroPoint[e][k], One(e)) ELSE zeroPoint[e][k]
<1>0. /\ NbEvals \in 0 .. NbEvals /\ e < Tau /\ NbEvals > h
      /\ accumulator \in Vector /\ folding[k] \in Vector /\ zeroPoint[e][k] \in Vector
      /\ opening.partialDeltas[e] \in Word
      /\ secret \in [{"seed", "tail"} -> Word] /\ uOne[e] \in Word
  <2>1. NbEvals \in 0 .. NbEvals /\ e < Tau /\ NbEvals > h
    BY SizeFacts DEF Leaf, Execution
  <2>2. folding \in [Bit -> Vector] /\ zeroPoint[e] \in [Bit -> Vector]
    BY DEF IInv, TypeOK
  <2>3. folding[k] \in Vector /\ zeroPoint[e][k] \in Vector
    BY <2>2
  <2> QED BY <2>1, <2>3 DEF IInv, TypeOK
<1>1. One(e) \in Vector
  <2>1. \A p \in Part : p # "mask" => secret[p] \in Word
    BY <1>0 DEF Part
  <2> QED BY <1>0, <2>1 DEF One, Vector
<1>2. zeroPoint[e][k] = Fold(e, NbEvals)[k]
  BY <1>0 DEF IInv, CommittedLines, CommittedTo
<1>3. Differ(h, NbEvals, k) <=> GrayBit(h, k)
  <2>1. GrayBit(0, k) = FALSE
    <3>1. 2^k \in Nat \ {0} /\ 2^(k + 1) \in Nat \ {0}
      BY PowerStep
    <3>2. \A c \in Nat \ {0} : 0 \div c = 0
      OBVIOUS
    <3> QED BY <3>1, <3>2 DEF GrayBit
  <2>2. GrayBit(h, k) \in BOOLEAN
    BY DEF GrayBit
  <2> QED BY <1>0, <2>1, <2>2 DEF Differ
<1>4. ASSUME NEW p \in Part
      PROVE  /\ folding[k][p] = Xor(zeroPoint[e][k][p], If(GrayBit(h, k), LeafOf(e, h)[p]))
             /\ a[p] = Xor(One(e)[p], LeafOf(e, h)[p])
             /\ zeroPoint[e][k][p] \in Word /\ One(e)[p] \in Word /\ LeafOf(e, h)[p] \in Word
  <2>1. folding[k][p] = Xor(zeroPoint[e][k][p], If(GrayBit(h, k), LeafOf(e, h)[p]))
    BY <1>0, <1>2, <1>3 DEF IInv, InStep, If
  <2>2. LeafOf(e, h)[p] \in Word
    BY LeafType DEF IInv
  <2> QED BY <1>0, <1>1, <2>1, <2>2 DEF Vector
<1>5. CASE GrayBit(h, k)
  <2>1. ASSUME NEW p \in Part
        PROVE  Add(folding[k], a)[p] = Add(zeroPoint[e][k], One(e))[p]
    <3> DEFINE z == zeroPoint[e][k][p]  o == One(e)[p]  w == LeafOf(e, h)[p]
    <3>1. z \in Word /\ o \in Word /\ w \in Word
      BY <1>4
    <3>2. folding[k][p] = Xor(z, w) /\ a[p] = Xor(o, w)
      BY <1>4, <1>5 DEF If
    <3>3. Add(folding[k], a)[p] = Xor(folding[k][p], a[p])
      BY <1>0, <1>1, AddFacts
    <3>4. Add(zeroPoint[e][k], One(e))[p] = Xor(z, o)
      BY <1>0, <1>1, AddFacts
    <3> HIDE DEF z, o, w
    <3>5. Xor(Xor(z, If(TRUE, w)), Xor(o, w)) = Xor(Xor(z, o), If(~TRUE, w))
      BY <3>1, XorFold
    <3>6. Xor(Xor(z, o), Zero) = Xor(z, o)
      BY <3>1, XorType, XorZero
    <3> QED BY <3>2, <3>3, <3>4, <3>5, <3>6 DEF If
  <2>2. Add(folding[k], a) \in Vector /\ Add(zeroPoint[e][k], One(e)) \in Vector
    BY <1>0, <1>1, AddFacts
  <2>3. Add(folding[k], a) = Add(zeroPoint[e][k], One(e))
    BY <2>1, <2>2, VectorEqual
  <2> QED BY <1>5, <2>3
<1>6. CASE ~GrayBit(h, k)
  <2>1. \A p \in Part : folding[k][p] = zeroPoint[e][k][p]
    BY <1>4, <1>6, XorZero DEF If
  <2>2. folding[k] = zeroPoint[e][k]
    BY <1>0, <2>1, VectorEqual
  <2> QED BY <1>6, <2>2
<1> QED BY <1>5, <1>6

LEMMA EvaluateExecutionStep == IInv /\ EvaluateExecution => IInv'
<1> SUFFICES ASSUME IInv, EvaluateExecution PROVE IInv'
  OBVIOUS
<1>0. PICK e \in Execution : e = execution
  BY SizeFacts DEF IInv, EvaluateExecution, TypeOK, Execution
<1>1. PICK h \in Leaf : h = opening.hidden[e]
  BY <1>0, SizeFacts DEF IInv, EvaluateExecution, Evaluating
<1>2. PICK a \in Vector :
        /\ a = [accumulator EXCEPT !["tail"] = Xor(@, opening.partialDeltas[e])]
        /\ evals' = [evals EXCEPT ![e] =
             [k \in Bit |-> IF GrayBit(h, k) THEN Add(folding[k], a) ELSE folding[k]]]
  <2> DEFINE b == [accumulator EXCEPT !["tail"] = Xor(@, opening.partialDeltas[e])]
  <2>1. accumulator \in Vector /\ opening.partialDeltas[e] \in Word
    BY DEF IInv, TypeOK
  <2>2. b \in Vector
    BY <2>1, XorType DEF Vector, Part
  <2>3. evals' = [evals EXCEPT ![e] =
             [k \in Bit |-> IF GrayBit(h, k) THEN Add(folding[k], b) ELSE folding[k]]]
    BY <1>0, <1>1 DEF EvaluateExecution
  <2> QED BY <2>2, <2>3
<1>3. /\ pc = "evaluate" /\ pc' = "evaluate" /\ leaf = NbEvals /\ execution = e
      /\ e < Tau /\ e \in Nat /\ e + 1 \in 0 .. Tau
      /\ StartExecution(e + 1)
      /\ vhashes' = [vhashes EXCEPT ![e] = absorbed]
      /\ UNCHANGED <<salt, secret, leaves, hidden, zeroPoint, uOne, partialDeltas,
                     hashes, commitment, opening, trace>>
  BY <1>0, SizeFacts DEF EvaluateExecution, inputs, committed, Execution
<1>4. /\ execution' = e + 1 /\ leaf' = 0 /\ accumulator' = ZeroVector
      /\ folding' = NoFolding /\ absorbed' = <<>>
      /\ accumulator' \in Vector /\ folding' \in [Bit -> Vector]
      /\ absorbed' \in Seq(SeedCommitment) /\ Len(absorbed') = leaf'
      /\ leaf' \in 0 .. NbEvals
  BY <1>3, StartFacts
<1>5. TypeOK'
  <2>1. [k \in Bit |-> IF GrayBit(h, k) THEN Add(folding[k], a) ELSE folding[k]]
          \in [Bit -> Vector]
    BY AddFacts DEF IInv, TypeOK
  <2>2. evals' \in [Execution -> [Bit -> Vector]]
    BY <1>2, <2>1 DEF IInv, TypeOK
  <2>3. vhashes' \in [Execution -> Seq(SeedCommitment)]
    BY <1>3 DEF IInv, TypeOK
  <2> QED BY <1>3, <1>4, <2>2, <2>3 DEF IInv, TypeOK
<1>6. SecretSums' /\ Running' /\ CommittedLines' /\ Sealed'
  BY <1>3, QuietStep
<1>7. Evaluating'
  <2>1. OpenedHash(<<>>, 0, e + 1)'
    BY DEF OpenedHash
  <2> QED BY <1>3, <1>4, <2>1 DEF Evaluating, OpenedHash
<1>8. InStep'
  <2>1. CASE e + 1 = Tau
    BY <1>4, <2>1, SizeFacts DEF InStep
  <2>2. CASE e + 1 # Tau
    <3>1. e + 1 \in Execution
      BY <1>3, <2>2, SizeFacts DEF Execution
    <3> QED BY <1>3, <3>1, StartInStep DEF IInv, CommittedTo
  <2> QED BY <2>1, <2>2
<1>9. EvaluatedLines'
  <2> SUFFICES ASSUME NEW d \in Execution, d < e + 1
               PROVE  (/\ opening.hidden[d] \in Leaf
                       /\ OpenedHash(vhashes[d], NbEvals, d)
                       /\ Agrees(d) => OnLine(d))'
    BY <1>3, <1>4 DEF EvaluatedLines, EvaluatedTo
  <2>1. CASE d = e
    <3>1. OpenedHash(vhashes[d], NbEvals, d)'
      <4>1. OpenedHash(absorbed, NbEvals, e)
        BY <1>0, <1>3 DEF IInv, Evaluating
      <4>2. vhashes'[d] = absorbed
        BY <1>3, <2>1 DEF IInv, TypeOK
      <4> QED BY <1>3, <2>1, <4>1, <4>2 DEF OpenedHash
    <3>2. Agrees(d)' => OnLine(d)'
      <4> SUFFICES ASSUME Agrees(e)', NEW k \in Bit
                   PROVE  evals'[e][k] = IF GrayBit(h, k) THEN Add(zeroPoint[e][k], One(e))
                                                         ELSE zeroPoint[e][k]
        BY <1>1, <1>3, <2>1 DEF OnLine, One
      <4>1. Agrees(e)
        BY <1>3 DEF Agrees
      <4>2. evals'[e][k] = IF GrayBit(h, k) THEN Add(folding[k], a) ELSE folding[k]
        BY <1>2 DEF IInv, TypeOK
      <4>3. \A p \in Part : a[p] = Xor(One(e)[p], LeafOf(e, h)[p])
        BY <1>0, <1>1, <1>2, <1>3, <4>1, CorrectedSum
      <4>4. (IF GrayBit(h, k) THEN Add(folding[k], a) ELSE folding[k])
               = IF GrayBit(h, k) THEN Add(zeroPoint[e][k], One(e)) ELSE zeroPoint[e][k]
        BY <1>0, <1>1, <1>3, <4>1, <4>3, OnLineStep
      <4> QED BY <4>2, <4>4
    <3> QED BY <1>1, <1>3, <2>1, <3>1, <3>2
  <2>2. CASE d # e
    <3>1. d < EvaluatedTo
      BY <1>3, <2>2, SizeFacts DEF EvaluatedTo, Execution
    <3>2. /\ opening.hidden[d] \in Leaf /\ OpenedHash(vhashes[d], NbEvals, d)
          /\ Agrees(d) => OnLine(d)
      BY <3>1 DEF IInv, EvaluatedLines
    <3>3. vhashes'[d] = vhashes[d] /\ evals'[d] = evals[d]
      BY <1>2, <1>3, <2>2 DEF IInv, TypeOK
    <3>4. OpenedHash(vhashes[d], NbEvals, d)'
      BY <1>3, <3>2, <3>3 DEF OpenedHash
    <3>5. Agrees(d)' => Agrees(d)
      BY <1>3 DEF Agrees
    <3>6. OnLine(d) => OnLine(d)'
      BY <1>3, <3>3 DEF OnLine, One
    <3> QED BY <1>3, <3>2, <3>4, <3>5, <3>6
  <2> QED BY <2>1, <2>2
<1>10. Verdict'
  BY <1>3 DEF Verdict, HonestAccepted
<1> QED BY <1>5, <1>6, <1>7, <1>8, <1>9, <1>10 DEF IInv

(* An untouched opening is hashed into what commit hashed. *)
LEMMA HonestHashes ==
  ASSUME TypeOK, NEW e \in Execution, hidden[e] \in Leaf, opening = Opened,
         OpenedHash(vhashes[e], NbEvals, e), Absorbed(hashes[e], NbEvals, e, salt, leaves[e])
  PROVE  vhashes[e] = hashes[e]
<1>1. /\ vhashes[e] \in Seq(SeedCommitment) /\ hashes[e] \in Seq(SeedCommitment)
      /\ Len(vhashes[e]) = NbEvals /\ Len(hashes[e]) = NbEvals
  BY DEF TypeOK, OpenedHash, Absorbed
<1>2. /\ opening.salt = salt /\ opening.hidden[e] = hidden[e]
      /\ opening.hiddenCommitments[e] = Commit(salt, e, leaves[e][hidden[e]])
      /\ \A i \in Leaf : i # hidden[e] => opening.leaves[e][i] = leaves[e][i]
  BY DEF Opened, TypeOK
<1>3. ASSUME NEW j \in 1 .. NbEvals PROVE vhashes[e][j] = hashes[e][j]
  <2>1. j - 1 \in Leaf
    BY SizeFacts DEF Leaf
  <2>2. hashes[e][j] = Commit(salt, e, leaves[e][j - 1])
    BY DEF Absorbed
  <2>3. vhashes[e][j] = IF j - 1 = hidden[e] THEN Commit(salt, e, leaves[e][hidden[e]])
                        ELSE Commit(salt, e, opening.leaves[e][j - 1])
    BY <1>2 DEF OpenedHash
  <2> QED BY <1>2, <2>1, <2>2, <2>3
<1> QED BY <1>1, <1>3, SeqEqual

LEMMA CompareCommitmentStep == IInv /\ CompareCommitment => IInv'
<1> SUFFICES ASSUME IInv, CompareCommitment PROVE IInv'
  OBVIOUS
<1>0. /\ pc = "evaluate" /\ pc' \in {"some", "none"} /\ execution = Tau
      /\ pc' = "some" => <<vhashes, opening.partialDeltas>> = commitment
      /\ pc' = "none" => <<vhashes, opening.partialDeltas>> # commitment
      /\ UNCHANGED <<execution, leaf, accumulator, folding, absorbed, salt, secret, leaves,
                     hidden, zeroPoint, uOne, partialDeltas, hashes, commitment,
                     opening, evals, vhashes, trace>>
  BY DEF CompareCommitment, locals, inputs, committed, evaluated
<1>1. TypeOK'
  BY <1>0 DEF IInv, TypeOK
<1>2. SecretSums' /\ Running' /\ CommittedLines' /\ Sealed'
  BY <1>0, QuietStep
<1>3. Evaluating' /\ InStep'
  BY <1>0 DEF Evaluating, InStep
<1>4. EvaluatedLines'
  <2>1. CASE pc' = "some"
    <3>1. EvaluatedTo' = EvaluatedTo
      BY <1>0, <2>1 DEF EvaluatedTo
    <3> QED BY <1>0, <3>1, EvaluatedFrame DEF IInv
  <2>2. CASE pc' = "none"
    BY <2>2, SizeFacts DEF EvaluatedLines, EvaluatedTo, Execution
  <2> QED BY <1>0, <2>1, <2>2
<1>5. Verdict'
  <2>1. ASSUME pc' = "none", \A e \in Execution : hidden[e] \in Leaf, opening = Opened
        PROVE  FALSE
    <3>1. ASSUME NEW e \in Execution PROVE vhashes[e] = hashes[e]
      <4>1. e < CommittedTo /\ e < EvaluatedTo
        BY <1>0, SizeFacts DEF CommittedTo, EvaluatedTo, Execution
      <4> QED BY <2>1, <4>1, HonestHashes DEF IInv, CommittedLines, EvaluatedLines
    <3>2. vhashes = hashes
      BY <3>1 DEF IInv, TypeOK
    <3>3. opening.partialDeltas = partialDeltas
      BY <2>1 DEF Opened
    <3>4. commitment = <<hashes, partialDeltas>>
      BY <1>0 DEF IInv, Sealed
    <3> QED BY <1>0, <2>1, <3>2, <3>3, <3>4
  <2>2. HonestAccepted'
    BY <1>0, <2>1 DEF HonestAccepted, Opened
  <2> QED BY <1>0, <2>2 DEF Verdict
<1> QED BY <1>1, <1>2, <1>3, <1>4, <1>5 DEF IInv

LEMMA StutterStep == IInv /\ UNCHANGED vars => IInv'
<1> SUFFICES ASSUME IInv, UNCHANGED vars PROVE IInv'
  OBVIOUS
<1>0. UNCHANGED <<pc, execution, leaf, accumulator, folding, absorbed, salt, secret,
                  leaves, hidden, zeroPoint, uOne, partialDeltas, hashes, commitment,
                  opening, evals, vhashes, trace>>
  BY DEF vars, locals, inputs, committed, evaluated
<1>1. TypeOK' /\ Sealed' /\ Verdict'
  BY <1>0 DEF IInv, TypeOK, Sealed, Verdict, HonestAccepted, Opened
<1>2. SecretSums' /\ CommittedLines'
  <2>1. CommittedTo' = CommittedTo
    BY <1>0 DEF CommittedTo
  <2> QED BY <1>0, <2>1, CommittedFrame DEF IInv
<1>3. Running'
  BY <1>0 DEF IInv, Running, Recorded, Acc, Fold, LeafOf, Absorbed
<1>4. EvaluatedLines'
  <2>1. EvaluatedTo' = EvaluatedTo
    BY <1>0 DEF EvaluatedTo
  <2> QED BY <1>0, <2>1, EvaluatedFrame DEF IInv
<1>5. Evaluating' /\ InStep'
  BY <1>0 DEF IInv, Evaluating, OpenedHash, InStep, Agrees, Acc, Fold, LeafOf
<1> QED BY <1>1, <1>2, <1>3, <1>4, <1>5 DEF IInv

-----------------------------------------------------------------------------
(* The theorems. *)

(* The inductive invariant: what commit has recorded of each execution,    *)
(* that evaluate_opening runs in step with it, and what it has compared.   *)
THEOREM Invariance == Spec => []IInv
<1>1. IInv /\ [Next]_vars => IInv'
  BY CommitLeafStep, CommitExecutionStep, CommitAllStep, ChallengeStep, RefuseToOpenStep,
     OpenStep, DeliverStep, RefuseIndexStep, EvaluateLeafStep, EvaluateExecutionStep,
     CompareCommitmentStep, StutterStep
  DEF Next
<1> QED BY <1>1, InitStep, PTL DEF Spec

(* Every array of commit and evaluate_opening keeps its shape: no index of *)
(* the loops leaves the arrays (blc.rs:260-514).                           *)
THEOREM TypeCorrect == Spec => []TypeOK
<1>1. IInv => TypeOK
  BY DEF IInv
<1> QED BY <1>1, Invariance, PTL

(* What is accepted was committed: the hashes and the partial deltas are   *)
(* equal, and seed commitments do not collide.                             *)
LEMMA Accepted ==
  ASSUME IInv, pc = "some", NEW e \in Execution, NEW h \in Leaf, h = opening.hidden[e]
  PROVE  /\ opening.salt = salt /\ opening.partialDeltas = partialDeltas
         /\ opening.hiddenCommitments[e] = Commit(salt, e, leaves[e][h])
         /\ \A i \in Leaf \ {h} : opening.leaves[e][i] = leaves[e][i]
<1>1. vhashes = hashes /\ opening.partialDeltas = partialDeltas
  BY DEF IInv, Verdict, Sealed
<1>2. /\ Absorbed(hashes[e], NbEvals, e, salt, leaves[e])
      /\ OpenedHash(hashes[e], NbEvals, e)
  BY <1>1, SizeFacts
  DEF IInv, CommittedLines, CommittedTo, EvaluatedLines, EvaluatedTo, Execution
<1>3. ASSUME NEW i \in Leaf
      PROVE  Commit(salt, e, leaves[e][i])
               = IF i = h THEN opening.hiddenCommitments[e]
                 ELSE Commit(opening.salt, e, opening.leaves[e][i])
  <2>1. i + 1 \in 1 .. NbEvals /\ (i + 1) - 1 = i
    BY SizeFacts DEF Leaf
  <2> QED BY <1>2, <2>1 DEF Absorbed, OpenedHash
<1>4. ASSUME NEW i \in Leaf, i # h
      PROVE  opening.salt = salt /\ opening.leaves[e][i] = leaves[e][i]
  <2>1. /\ salt \in Salt /\ opening.salt \in Salt
        /\ leaves[e][i] \in Word /\ opening.leaves[e][i] \in Word
    BY DEF IInv, TypeOK
  <2>2. Commit(salt, e, leaves[e][i]) = Commit(opening.salt, e, opening.leaves[e][i])
    BY <1>3, <1>4
  <2> QED BY <2>1, <2>2, CommitAssumption
<1>5. \E i \in Leaf : i # h
  <2>1. NbEvals >= 2
    <3>1. L - 1 \in Bit /\ (L - 1) + 1 = L
      BY SizeFacts DEF Bit, L
    <3>2. 2^(L - 1) \in Nat \ {0} /\ 2^L = 2 * 2^(L - 1)
      BY <3>1, PowerStep
    <3> QED BY <3>2 DEF NbEvals, L
  <2>2. 0 \in Leaf /\ 1 \in Leaf
    BY <2>1, SizeFacts DEF Leaf
  <2> QED BY <2>2
<1> QED BY <1>1, <1>3, <1>4, <1>5

(* The two halves of blc.rs agree: whatever arrives, an accepted opening   *)
(* evaluates the committed lines at the opened points (blc.rs:316-343,     *)
(* 475-495).                                                               *)
THEOREM OpenedOnLineCorrect == Spec => []OpenedOnLine
<1>1. IInv => OpenedOnLine
  <2> SUFFICES ASSUME IInv, pc = "some", NEW e \in Execution, NEW k \in Bit
               PROVE  evals[e][k] = IF GrayBit(opening.hidden[e], k)
                                    THEN Add(zeroPoint[e][k], One(e)) ELSE zeroPoint[e][k]
    BY DEF OpenedOnLine
  <2>1. opening.hidden[e] \in Leaf /\ (Agrees(e) => OnLine(e))
    BY SizeFacts DEF IInv, EvaluatedLines, EvaluatedTo, Execution
  <2>2. Agrees(e)
    BY <2>1, Accepted DEF Agrees
  <2> QED BY <2>1, <2>2 DEF OnLine
<1> QED BY <1>1, Invariance, PTL

(* The commitment binds (blc.rs:346-366, 498-513).                         *)
THEOREM AcceptedCorrect == Spec => []AcceptedIsCommitted
<1>1. IInv => AcceptedIsCommitted
  <2> SUFFICES ASSUME IInv, pc = "some" PROVE AcceptedIsCommitted
    BY DEF AcceptedIsCommitted
  <2>1. \A e \in Execution : opening.hidden[e] \in Leaf
    BY SizeFacts DEF IInv, EvaluatedLines, EvaluatedTo, Execution
  <2>2. \E e \in Execution : TRUE
    BY SizeFacts DEF Execution
  <2> QED BY <2>1, <2>2, Accepted DEF AcceptedIsCommitted
<1> QED BY <1>1, Invariance, PTL

(* Completeness: an untouched opening of indices in range is accepted.     *)
THEOREM HonestCorrect == Spec => []HonestAccepted
<1>1. IInv => HonestAccepted
  BY DEF IInv, Verdict
<1> QED BY <1>1, Invariance, PTL

-----------------------------------------------------------------------------
(* The folding by its definition. *)

Words == INSTANCE Folding WITH Summand <- Word, Neutral <- Zero, Op <- Xor

LEMMA WordsAddUp == Words!OpLaws
BY GroupAssumption DEF Words!OpLaws

(* The two instances of the library's fold are one. *)
LEMMA WordsFold ==
  ASSUME NEW f, NEW S
  PROVE  FoldFunctionOnSet(Xor, Zero, f, S) = Words!Fold(f, S)
BY DEF Words!Fold, FoldFunctionOnSet, MapThenFoldSet,
       Words!FoldFunctionOnSet, Words!MapThenFoldSet

(* One part of the leaves of an execution, and those before n of which the *)
(* Gray code has bit k.                                                    *)
Summands(e, p) == [i \in Leaf |-> Expand(salt, e, leaves[e][i])[p]]
Weighed(n, k) == {i \in Leaf : i < n /\ GrayBit(i, k)}

(* The index reached after n leaves, cyclically. *)
Reached(n) == IF n = NbEvals THEN 0 ELSE n

(* After n leaves the folding holds the leaves weighed so far and, where   *)
(* the Gray code reached has the bit, the running sum on top: it is there  *)
(* that the bits still to come are paid in advance.                        *)
FoldedSoFar(e, k, p, n) ==
  Fold(e, n)[k][p]
    = Xor(Words!Fold(Summands(e, p), Weighed(n, k)),
          If(GrayBit(Reached(n), k), Acc(e, n)[p]))

(* The weighed leaves before n + 1. *)
LEMMA WeighedStep ==
  ASSUME NEW k \in Bit, NEW n \in Leaf
  PROVE  Weighed(n + 1, k) = IF GrayBit(n, k) THEN Weighed(n, k) \cup {n} ELSE Weighed(n, k)
<1>1. \A i \in Leaf : i < n + 1 <=> i < n \/ i = n
  BY SizeFacts DEF Leaf
<1>2. n < n + 1 /\ ~(n < n)
  BY SizeFacts DEF Leaf
<1> QED BY <1>1, <1>2 DEF Weighed

LEMMA WeighedFinite ==
  ASSUME NEW k \in Bit, NEW n \in Nat
  PROVE  Words!IsFiniteSet(Weighed(n, k)) /\ Weighed(n, k) \subseteq Leaf
<1>1. Words!IsFiniteSet(0 .. NbEvals - 1)
  <2>1. 0 \in Int /\ NbEvals - 1 \in Int
    BY SizeFacts
  <2> QED BY <2>1, Words!FS_Interval
<1>2. Weighed(n, k) \in SUBSET (0 .. NbEvals - 1)
  BY DEF Weighed, Leaf
<1> QED BY <1>1, <1>2, Words!FS_Subset DEF Leaf

(* What one leaf adds, in a group of exponent two: s is the weighed sum, a *)
(* the running sum, w the leaf, g and h whether its Gray code and the next *)
(* have the bit.                                                           *)
LEMMA OneLeafMore ==
  ASSUME NEW s \in Word, NEW a \in Word, NEW w \in Word, NEW g \in BOOLEAN, NEW h \in BOOLEAN
  PROVE  Xor(Xor(s, If(g, a)), If(g # h, Xor(a, w))) = Xor(Xor(s, If(g, w)), If(h, Xor(a, w)))
<1>1. /\ Xor(a, w) \in Word /\ Xor(s, a) \in Word /\ Xor(s, w) \in Word
      /\ \A x \in Word : Xor(x, Zero) = x
  BY XorType, XorZero
<1>2. Xor(Xor(s, a), Xor(a, w)) = Xor(s, w)
  <2>1. Xor(Xor(s, a), Xor(a, w)) = Xor(Xor(Xor(s, a), a), w)
    BY <1>1, GroupAssumption
  <2> QED BY <2>1, XorCancel
<1>3. Xor(Xor(s, w), Xor(a, w)) = Xor(s, a)
  <2>1. Xor(a, w) = Xor(w, a)
    BY GroupAssumption
  <2>2. Xor(Xor(s, w), Xor(w, a)) = Xor(Xor(Xor(s, w), w), a)
    BY <1>1, GroupAssumption
  <2> QED BY <2>1, <2>2, XorCancel
<1>4. CASE g /\ h
  BY <1>1, <1>3, <1>4 DEF If
<1>5. CASE g /\ ~h
  BY <1>1, <1>2, <1>5 DEF If
<1>6. CASE ~g
  BY <1>1, <1>6 DEF If
<1> QED BY <1>4, <1>5, <1>6

LEMMA FoldedStep ==
  ASSUME TypeOK, NEW e \in Execution, Recorded(e, NbEvals), NEW k \in Bit, NEW p \in Part,
         NEW n \in Leaf, FoldedSoFar(e, k, p, n)
  PROVE  FoldedSoFar(e, k, p, n + 1)
<1> DEFINE f == Summands(e, p)
           w == LeafOf(e, n)[p]
           a == Acc(e, n)[p]
           s == Words!Fold(f, Weighed(n, k))
           g == GrayBit(n, k)
           h == GrayBit(Reached(n + 1), k)
<1>1. /\ n \in Nat /\ n \in 0 .. NbEvals - 1 /\ n \in 0 .. NbEvals /\ n + 1 \in 0 .. NbEvals
      /\ n # NbEvals /\ n + 1 \in Nat /\ Reached(n) = n /\ Reached(n + 1) = NextIndex(n)
  BY SizeFacts DEF Leaf, Reached, NextIndex
<1>2. /\ Acc(e, n + 1) = Add(Acc(e, n), LeafOf(e, n))
      /\ Fold(e, n + 1) = [Fold(e, n) EXCEPT ![GrayPosition(n)] = Add(@, Acc(e, n + 1))]
  BY <1>1 DEF Recorded
<1>3. /\ Acc(e, n) \in Vector /\ Acc(e, n + 1) \in Vector
      /\ Fold(e, n) \in [Bit -> Vector]
  <2>1. trace[e] \in [0 .. NbEvals -> [accumulator : Vector, folding : [Bit -> Vector]]]
    BY DEF TypeOK
  <2>2. \A i \in 0 .. NbEvals : trace[e][i] \in [accumulator : Vector, folding : [Bit -> Vector]]
    BY <2>1
  <2>3. /\ trace[e][n] \in [accumulator : Vector, folding : [Bit -> Vector]]
        /\ trace[e][n + 1] \in [accumulator : Vector, folding : [Bit -> Vector]]
    BY <1>1, <2>2
  <2> QED BY <2>3 DEF Acc, Fold
<1>4. LeafOf(e, n) \in Vector /\ \A i \in Leaf : f[i] \in Word
  <2>1. \A i \in Leaf : leaves[e][i] \in Word /\ salt \in Salt
    BY DEF TypeOK
  <2>2. \A i \in Leaf : Expand(salt, e, leaves[e][i]) \in Vector
    BY <2>1, ExpandFacts
  <2> QED BY <2>2 DEF LeafOf, Summands, Vector
<1>5. /\ w \in Word /\ a \in Word /\ f[n] = w
      /\ Acc(e, n + 1)[p] = Xor(a, w) /\ Xor(a, w) \in Word
  BY <1>2, <1>3, <1>4, AddFacts, XorType DEF Vector, Summands, LeafOf
<1>6. s \in Word /\ Words!Fold(f, Weighed(n + 1, k)) = Xor(s, If(g, w))
  <2>1. Words!IsFiniteSet(Weighed(n, k)) /\ Weighed(n, k) \subseteq Leaf
    BY <1>1, WeighedFinite
  <2>2. s \in Word
    <3>1. \A i \in Weighed(n, k) : f[i] \in Word
      BY <1>4, <2>1
    <3> HIDE DEF f
    <3> QED BY <2>1, <3>1, WordsAddUp, Words!FoldTyped
  <2>3. CASE g
    <3>1. Weighed(n + 1, k) = Weighed(n, k) \cup {n}
      BY <2>3, WeighedStep
    <3>2. n \notin Weighed(n, k)
      BY <1>1 DEF Weighed
    <3>3. \A i \in Weighed(n, k) \cup {n} : f[i] \in Word
      BY <1>4, <2>1
    <3>4. Words!Fold(f, Weighed(n, k) \cup {n}) = Xor(f[n], s)
      <4> HIDE DEF f
      <4> QED BY <2>1, <3>2, <3>3, WordsAddUp, Words!FoldAdd
    <3>5. Xor(f[n], s) = Xor(s, w)
      BY <1>5, <2>2, GroupAssumption
    <3> QED BY <2>2, <2>3, <3>1, <3>4, <3>5 DEF If
  <2>4. CASE ~g
    <3>1. Weighed(n + 1, k) = Weighed(n, k)
      BY <2>4, WeighedStep
    <3> QED BY <2>2, <2>4, <3>1, XorZero DEF If
  <2> QED BY <2>2, <2>3, <2>4
<1>7. Fold(e, n + 1)[k][p] = Xor(Fold(e, n)[k][p], If(g # h, Xor(a, w)))
  <2>1. GrayPosition(n) \in Bit /\ (g # h <=> k = GrayPosition(n))
    BY <1>1, GrayCycle DEF GrayFlips
  <2>2. CASE g # h
    <3>1. Fold(e, n + 1)[k] = Add(Fold(e, n)[k], Acc(e, n + 1))
      BY <1>2, <1>3, <2>1, <2>2
    <3> QED BY <1>3, <1>5, <2>2, <3>1, AddFacts DEF If
  <2>3. CASE ~(g # h)
    <3>1. Fold(e, n + 1)[k] = Fold(e, n)[k]
      BY <1>2, <1>3, <2>1, <2>3
    <3>2. Fold(e, n)[k][p] \in Word
      BY <1>3 DEF Vector
    <3> QED BY <2>3, <3>1, <3>2, XorZero DEF If
  <2> QED BY <2>2, <2>3
<1>8. Fold(e, n)[k][p] = Xor(s, If(g, a))
  BY <1>1 DEF FoldedSoFar
<1>9. g \in BOOLEAN /\ h \in BOOLEAN
  BY DEF GrayBit
<1> HIDE DEF f, w, a, s, g, h
<1>10. Fold(e, n + 1)[k][p] = Xor(Xor(s, If(g, w)), If(h, Xor(a, w)))
  BY <1>5, <1>6, <1>7, <1>8, <1>9, OneLeafMore
<1> QED BY <1>5, <1>6, <1>10 DEF FoldedSoFar, f, h

LEMMA FoldedAll ==
  ASSUME TypeOK, NEW e \in Execution, Recorded(e, NbEvals), NEW k \in Bit, NEW p \in Part
  PROVE  Fold(e, NbEvals)[k][p]
           = Words!Fold(Summands(e, p), {i \in Leaf : GrayBit(i, k)})
<1> DEFINE T == {n \in Nat : n <= NbEvals => FoldedSoFar(e, k, p, n)}
<1>1. GrayBit(0, k) = FALSE
  <2>1. 2^k \in Nat \ {0} /\ 2^(k + 1) \in Nat \ {0}
    BY PowerStep
  <2>2. \A c \in Nat \ {0} : 0 \div c = 0
    OBVIOUS
  <2> QED BY <2>1, <2>2 DEF GrayBit
<1>2. 0 \in T
  <2>1. Fold(e, 0)[k][p] = Zero
    BY GroupAssumption DEF Recorded, NoFolding, ZeroVector
  <2>2. Weighed(0, k) = {} /\ Reached(0) = 0
    BY SizeFacts DEF Weighed, Leaf, Reached
  <2>3. Words!Fold(Summands(e, p), {}) = Zero
    BY Words!FoldEmpty
  <2>4. Xor(Zero, Zero) = Zero
    BY GroupAssumption
  <2>5. FoldedSoFar(e, k, p, 0)
    BY <1>1, <2>1, <2>2, <2>3, <2>4 DEF FoldedSoFar, If
  <2> QED BY <2>5
<1>3. ASSUME NEW n \in Nat, n \in T PROVE n + 1 \in T
  <2>1. SUFFICES ASSUME n + 1 <= NbEvals PROVE FoldedSoFar(e, k, p, n + 1)
    OBVIOUS
  <2>2. n \in Leaf /\ n <= NbEvals
    BY <2>1, SizeFacts DEF Leaf
  <2> QED BY <1>3, <2>2, FoldedStep
<1>4. \A n \in Nat : n \in T
  <2> HIDE DEF T
  <2> QED BY <1>2, <1>3, Words!NatSetInduction
<1>5. NbEvals \in Nat /\ Reached(NbEvals) = 0
  BY SizeFacts DEF Reached
<1>6. Weighed(NbEvals, k) = {i \in Leaf : GrayBit(i, k)}
  BY SizeFacts DEF Weighed, Leaf
<1>7. FoldedSoFar(e, k, p, NbEvals)
  BY <1>4, <1>5
<1>8. Words!Fold(Summands(e, p), Weighed(NbEvals, k)) \in Word
  <2>1. Words!IsFiniteSet(Weighed(NbEvals, k)) /\ Weighed(NbEvals, k) \subseteq Leaf
    BY <1>5, WeighedFinite
  <2>2. \A i \in Leaf : Summands(e, p)[i] \in Word
    <3>1. \A i \in Leaf : leaves[e][i] \in Word /\ salt \in Salt
      BY DEF TypeOK
    <3>2. \A i \in Leaf : Expand(salt, e, leaves[e][i]) \in Vector
      BY <3>1, ExpandFacts
    <3> QED BY <3>2 DEF Summands, Vector
  <2>3. \A i \in Weighed(NbEvals, k) : Summands(e, p)[i] \in Word
    BY <2>1, <2>2
  <2> QED BY <2>1, <2>3, WordsAddUp, Words!FoldTyped
<1> QED BY <1>1, <1>5, <1>6, <1>7, <1>8, XorZero DEF FoldedSoFar, If

(* x_zero and u_zero weigh every leaf by its own point, although the loop  *)
(* only ever looks at the bit that changes next (blc.rs:310-312).          *)
THEOREM FoldingCorrect == Spec => []FoldingWeighsLeaves
<1>1. IInv => FoldingWeighsLeaves
  <2> SUFFICES ASSUME IInv, pc = "challenge", NEW e \in Execution, NEW k \in Bit, NEW p \in Part
               PROVE  zeroPoint[e][k][p] =
                        FoldFunctionOnSet(Xor, Zero, Summands(e, p), {i \in Leaf : GrayBit(i, k)})
    BY DEF FoldingWeighsLeaves, Summands
  <2>1. Recorded(e, NbEvals) /\ zeroPoint[e] = Fold(e, NbEvals)
    BY SizeFacts DEF IInv, CommittedLines, CommittedTo, Execution
  <2> QED BY <2>1, FoldedAll, WordsFold DEF IInv
<1> QED BY <1>1, Invariance, PTL
=============================================================================
