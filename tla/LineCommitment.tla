--------------------------- MODULE LineCommitment ---------------------------
(***************************************************************************)
(* The binary line commitment (blc.rs): commit folds the leaves of TAU     *)
(* trees into the line x_zero + point * secret and hashes their            *)
(* commitments, open reveals all the leaves but one of every tree, and     *)
(* evaluate_opening recomputes the commitment and the value of the line at *)
(* the hidden leaf's point.  One step is one leaf of one execution.        *)
(*                                                                         *)
(* Trees enter by their contract, which SeedTree checks: the leaves of an  *)
(* execution sum to delta (LeafSumIsDelta), an untouched path gives the    *)
(* verifier every leaf but the hidden one (UnalteredLeavesAgree) and an    *)
(* altered one some other leaf (AlterationReachesLeaves).                  *)
(*                                                                         *)
(* Bytes are words of a group of exponent two.  An expanded leaf has three *)
(* parts: the seed (16 bytes), the tail of the base vector (12 bytes), the *)
(* mask.  x_zero and u_zero are the folding vector applied to the basis    *)
(* 1 << k, a linear map, so the model keeps the vector.  Hashes are ideal: *)
(* a digest is what was absorbed.                                          *)
(***************************************************************************)
EXTENDS Integers, Sequences, Functions

CONSTANTS
  NbEvalsLog, Tau,
  Salt,
  Word, Zero, Xor(_, _),
  Prg(_, _, _, _),    \* Prg(salt, execution, seed, part): the leaf expansion
  Commit(_, _, _)     \* Commit(salt, execution, seed): SeedCommitter::commit

ASSUME SizeAssumption == NbEvalsLog \in Nat \ {0} /\ Tau \in Nat \ {0}

ASSUME PowerAssumption ==
  /\ 2^0 = 1 /\ 2^1 = 2
  /\ \A a \in 0 .. NbEvalsLog : 2^a \in Nat \ {0}
  /\ \A a, b \in 0 .. NbEvalsLog : a + b <= NbEvalsLog => 2^(a + b) = 2^a * 2^b

NbEvals == 2^NbEvalsLog
Execution == 0 .. Tau - 1
Leaf == 0 .. NbEvals - 1
Bit == 0 .. NbEvalsLog - 1
Part == {"seed", "tail", "mask"}

ASSUME GroupAssumption ==
  /\ Zero \in Word
  /\ \A a, b \in Word : Xor(a, b) \in Word /\ Xor(a, b) = Xor(b, a)
  /\ \A a \in Word : Xor(a, Zero) = a /\ Xor(a, a) = Zero
  /\ \A a, b, c \in Word : Xor(Xor(a, b), c) = Xor(a, Xor(b, c))

ASSUME PrgAssumption ==
  \A s \in Salt, e \in Execution, w \in Word, p \in Part : Prg(s, e, w, p) \in Word

(* Seed commitments do not collide, between seeds, executions or salts.    *)
ASSUME CommitAssumption ==
  \A s, t \in Salt, d, e \in Execution, v, w \in Word :
    Commit(s, d, v) = Commit(t, e, w) => s = t /\ d = e /\ v = w

Vector == [Part -> Word]
ZeroVector == [p \in Part |-> Zero]
Add(a, b) == [p \in Part |-> Xor(a[p], b[p])]
Expand(s, e, seed) == [p \in Part |-> IF p = "seed" THEN seed ELSE Prg(s, e, seed, p)]

(* Bit k of gray_code(i) = i ^ (i >> 1), and the bit that changes on the   *)
(* way to the next index, cyclically.                                      *)
GrayBit(i, k) == (i \div 2^k) % 2 # (i \div 2^(k + 1)) % 2
NextIndex(i) == IF i + 1 < NbEvals THEN i + 1 ELSE 0
GrayFlips(i, k) == GrayBit(i, k) # GrayBit(NextIndex(i), k)

(* Fault: the last leaf is treated as if one more followed. *)
GrayPosition_NoWrap(i) ==
  LET flips(k) == GrayBit(i, k) # GrayBit(i + 1, k)
  IN CHOOSE k \in 0 .. NbEvalsLog : flips(k) /\ \A j \in Bit : flips(j) => k <= j

GrayPosition(i) ==
  CHOOSE k \in Bit : GrayFlips(i, k) /\ \A j \in Bit : GrayFlips(i, j) => k <= j

VARIABLES
  pc, execution, leaf,                \* control: function running, its loops
  accumulator, folding, absorbed,     \* the locals of one execution
  salt, secret, leaves, hidden,       \* inputs; the challenge
  zeroPoint, uOne, partialDeltas, hashes,  \* what commit builds
  commitment,
  opening,                            \* what the verifier receives
  evals, vhashes,                     \* what evaluate_opening builds
  trace                               \* history: commit's locals after each leaf

locals == <<execution, leaf, accumulator, folding, absorbed>>
inputs == <<salt, secret, leaves>>
committed == <<zeroPoint, uOne, partialDeltas, hashes, commitment>>
evaluated == <<evals, vhashes>>
vars == <<pc, locals, inputs, hidden, committed, opening, evaluated, trace>>

(* Leaves of a tree whose sums end in delta; s lists their prefix sums.    *)
PrefixSums(s, f) == s[0] = Zero /\ \A i \in Leaf : s[i + 1] = Xor(s[i], f[i])
TreeLeaves(delta) ==
  {f \in [Leaf -> Word] : \E s \in [0 .. NbEvals -> Word] :
     PrefixSums(s, f) /\ s[NbEvals] = delta}

NoFolding == [k \in Bit |-> ZeroVector]
NoWords == [e \in Execution |-> Zero]

(* Fault: the hash is made once, before the loop over the executions. *)
StartExecution_KeepsHash(e) ==
  /\ execution' = e /\ leaf' = 0
  /\ accumulator' = ZeroVector /\ folding' = NoFolding /\ UNCHANGED absorbed

StartExecution(e) ==
  /\ execution' = e /\ leaf' = 0
  /\ accumulator' = ZeroVector /\ folding' = NoFolding /\ absorbed' = <<>>

(* What open reveals.  The hidden leaf's entry of the verifier's leaves is *)
(* all zero.                                                               *)
Opened ==
  [salt |-> salt,
   hidden |-> hidden,
   leaves |-> [e \in Execution |-> [leaves[e] EXCEPT ![hidden[e]] = Zero]],
   hiddenCommitments |->
     [e \in Execution |-> Commit(salt, e, leaves[e][hidden[e]])],
   partialDeltas |-> partialDeltas]

Init ==
  /\ pc = "commit" /\ execution = 0 /\ leaf = 0
  /\ accumulator = ZeroVector /\ folding = NoFolding /\ absorbed = <<>>
  /\ salt \in Salt /\ secret \in [{"seed", "tail"} -> Word]
  /\ leaves \in [Execution -> TreeLeaves(secret["seed"])]
  /\ hidden = [e \in Execution |-> 0]
  /\ zeroPoint = [e \in Execution |-> NoFolding]
  /\ uOne = NoWords /\ partialDeltas = NoWords
  /\ hashes = [e \in Execution |-> <<>>] /\ commitment = <<>>
  /\ opening = Opened
  /\ evals = [e \in Execution |-> NoFolding] /\ vhashes = hashes
  /\ trace = [e \in Execution |-> [i \in 0 .. NbEvals |->
                [accumulator |-> ZeroVector, folding |-> NoFolding]]]

(* The body both leaf loops share: the running sum, then the folding of    *)
(* the bit that changes; what is absorbed comes first.                     *)
FoldLeaf(expanded, seedCommitment) ==
  /\ absorbed' = Append(absorbed, seedCommitment)
  /\ accumulator' = Add(accumulator, expanded)
  /\ folding' = [folding EXCEPT ![GrayPosition(leaf)] = Add(@, accumulator')]
  /\ leaf' = leaf + 1

-----------------------------------------------------------------------------
(* commit *)

CommitLeaf ==
  /\ pc = "commit" /\ execution < Tau /\ leaf < NbEvals
  /\ LET seed == leaves[execution][leaf]
     IN FoldLeaf(Expand(salt, execution, seed), Commit(salt, execution, seed))
  /\ trace' = [trace EXCEPT ![execution][leaf + 1] =
                 [accumulator |-> accumulator', folding |-> folding']]
  /\ UNCHANGED <<pc, execution, inputs, hidden, committed, opening, evaluated>>

CommitExecution ==
  /\ pc = "commit" /\ execution < Tau /\ leaf = NbEvals
  /\ hashes' = [hashes EXCEPT ![execution] = absorbed]
  /\ zeroPoint' = [zeroPoint EXCEPT ![execution] = folding]
  /\ uOne' = [uOne EXCEPT ![execution] = accumulator["mask"]]
  /\ partialDeltas' = [partialDeltas EXCEPT
       ![execution] = Xor(secret["tail"], accumulator["tail"])]
  /\ StartExecution(execution + 1)
  /\ UNCHANGED <<pc, inputs, hidden, commitment, opening, evaluated, trace>>

CommitAll ==
  /\ pc = "commit" /\ execution = Tau
  /\ commitment' = <<hashes, partialDeltas>>
  /\ pc' = "challenge"
  /\ UNCHANGED <<locals, inputs, hidden, zeroPoint, uOne, partialDeltas,
                 hashes, opening, evaluated, trace>>

-----------------------------------------------------------------------------
(* The challenge comes after the commitment; NbEvals is out of range. *)
Challenge ==
  /\ pc = "challenge"
  /\ hidden' \in [Execution -> 0 .. NbEvals]
  /\ pc' = "open"
  /\ UNCHANGED <<locals, inputs, committed, opening, evaluated, trace>>

(* open, and the opening on its way: one thing in it may change. *)

RefuseToOpen ==
  /\ pc = "open" /\ \E e \in Execution : hidden[e] >= NbEvals
  /\ pc' = "none"
  /\ UNCHANGED <<locals, inputs, hidden, committed, opening, evaluated, trace>>

Open ==
  /\ pc = "open" /\ \A e \in Execution : hidden[e] < NbEvals
  /\ opening' = Opened
  /\ pc' = "deliver"
  /\ UNCHANGED <<locals, inputs, hidden, committed, evaluated, trace>>

Altered ==
  {opening} \cup
  {[opening EXCEPT !.salt = s] : s \in Salt} \cup
  {[opening EXCEPT !.hidden[e] = h] : e \in Execution, h \in 0 .. NbEvals} \cup
  {[opening EXCEPT !.leaves[e] = [f EXCEPT ![hidden[e]] = Zero]] :
     e \in Execution, f \in [Leaf -> Word]} \cup
  {[opening EXCEPT !.hiddenCommitments[e] = Commit(salt, d, w)] :
     e \in Execution, d \in Execution, w \in Word} \cup
  {[opening EXCEPT !.partialDeltas[e] = w] : e \in Execution, w \in Word}

Deliver ==
  /\ pc = "deliver"
  /\ opening' \in Altered
  /\ pc' = "evaluate"
  /\ StartExecution(0)
  /\ UNCHANGED <<inputs, hidden, committed, evaluated, trace>>

-----------------------------------------------------------------------------
(* evaluate_opening *)

(* Fault: the last leaf is refused too. *)
RefuseIndex_LastLeaf ==
  /\ pc = "evaluate" /\ execution < Tau /\ leaf = 0
  /\ opening.hidden[execution] >= NbEvals - 1
  /\ pc' = "none"
  /\ UNCHANGED <<locals, inputs, hidden, committed, opening, evaluated, trace>>

RefuseIndex ==
  /\ pc = "evaluate" /\ execution < Tau /\ leaf = 0
  /\ opening.hidden[execution] >= NbEvals
  /\ pc' = "none"
  /\ UNCHANGED <<locals, inputs, hidden, committed, opening, evaluated, trace>>

(* Fault: the hidden leaf is skipped altogether, its folding included. *)
EvaluateLeaf_SkipsFolding ==
  /\ pc = "evaluate" /\ execution < Tau /\ leaf < NbEvals
  /\ opening.hidden[execution] < NbEvals
  /\ LET seed == opening.leaves[execution][leaf]
     IN IF leaf = opening.hidden[execution]
        THEN /\ absorbed' = Append(absorbed, opening.hiddenCommitments[execution])
             /\ leaf' = leaf + 1
             /\ UNCHANGED <<accumulator, folding>>
        ELSE FoldLeaf(Expand(opening.salt, execution, seed),
                      Commit(opening.salt, execution, seed))
  /\ UNCHANGED <<pc, execution, inputs, hidden, committed, opening, evaluated, trace>>

EvaluateLeaf ==
  /\ pc = "evaluate" /\ execution < Tau /\ leaf < NbEvals
  /\ opening.hidden[execution] < NbEvals
  /\ LET seed == opening.leaves[execution][leaf]
     IN IF leaf = opening.hidden[execution]
        THEN FoldLeaf(ZeroVector, opening.hiddenCommitments[execution])
        ELSE FoldLeaf(Expand(opening.salt, execution, seed),
                      Commit(opening.salt, execution, seed))
  /\ UNCHANGED <<pc, execution, inputs, hidden, committed, opening, evaluated, trace>>

(* The line at the hidden leaf's point: the folding, plus point times the  *)
(* sum of the leaves corrected by the partial delta.                       *)
EvaluateExecution ==
  /\ pc = "evaluate" /\ execution < Tau /\ leaf = NbEvals
  /\ vhashes' = [vhashes EXCEPT ![execution] = absorbed]
  /\ LET adjusted == [accumulator EXCEPT
                        !["tail"] = Xor(@, opening.partialDeltas[execution])]
         h == opening.hidden[execution]
     IN evals' = [evals EXCEPT ![execution] =
          [k \in Bit |-> IF GrayBit(h, k) THEN Add(folding[k], adjusted)
                                          ELSE folding[k]]]
  /\ StartExecution(execution + 1)
  /\ UNCHANGED <<pc, inputs, hidden, committed, opening, trace>>

(* Fault: the partial deltas are left out of what is compared. *)
CompareCommitment_HashesOnly ==
  /\ pc = "evaluate" /\ execution = Tau
  /\ pc' = IF vhashes = commitment[1] THEN "some" ELSE "none"
  /\ UNCHANGED <<locals, inputs, hidden, committed, opening, evaluated, trace>>

CompareCommitment ==
  /\ pc = "evaluate" /\ execution = Tau
  /\ pc' = IF <<vhashes, opening.partialDeltas>> = commitment THEN "some" ELSE "none"
  /\ UNCHANGED <<locals, inputs, hidden, committed, opening, evaluated, trace>>

Next ==
  \/ CommitLeaf \/ CommitExecution \/ CommitAll
  \/ Challenge \/ RefuseToOpen \/ Open \/ Deliver
  \/ RefuseIndex \/ EvaluateLeaf \/ EvaluateExecution \/ CompareCommitment

Spec == Init /\ [][Next]_vars

-----------------------------------------------------------------------------
SeedCommitment == {Commit(s, e, w) : s \in Salt, e \in Execution, w \in Word}

TypeOK ==
  /\ pc \in {"commit", "challenge", "open", "deliver", "evaluate", "some", "none"}
  /\ execution \in 0 .. Tau /\ leaf \in 0 .. NbEvals
  /\ accumulator \in Vector /\ folding \in [Bit -> Vector]
  /\ absorbed \in Seq(SeedCommitment) /\ Len(absorbed) = leaf
  /\ salt \in Salt /\ secret \in [{"seed", "tail"} -> Word]
  /\ leaves \in [Execution -> [Leaf -> Word]]
  /\ hidden \in [Execution -> 0 .. NbEvals]
  /\ zeroPoint \in [Execution -> [Bit -> Vector]]
  /\ uOne \in [Execution -> Word] /\ partialDeltas \in [Execution -> Word]
  /\ hashes \in [Execution -> Seq(SeedCommitment)]
  /\ opening \in [salt : Salt,
                  hidden : [Execution -> 0 .. NbEvals],
                  leaves : [Execution -> [Leaf -> Word]],
                  hiddenCommitments : [Execution -> SeedCommitment],
                  partialDeltas : [Execution -> Word]]
  /\ evals \in [Execution -> [Bit -> Vector]]
  /\ vhashes \in [Execution -> Seq(SeedCommitment)]
  /\ trace \in [Execution -> [0 .. NbEvals ->
                 [accumulator : Vector, folding : [Bit -> Vector]]]]

(* The direction of the line: the secret, and for the mask u_one. *)
One(e) == [p \in Part |-> IF p = "mask" THEN uOne[e] ELSE secret[p]]

(* An accepted opening evaluates the committed line at its points: x_eval  *)
(* is x_zero + gray_code(i) * secret and u_eval is u_zero + gray_code(i) * *)
(* u_one, though the verifier knows neither the hidden leaf nor the first  *)
(* 16 bytes of the secret (blc.rs:475-495 against 316-343).                *)
OpenedOnLine ==
  pc = "some" =>
    \A e \in Execution, k \in Bit :
      evals[e][k] = IF GrayBit(opening.hidden[e], k)
                    THEN Add(zeroPoint[e][k], One(e)) ELSE zeroPoint[e][k]

(* The commitment binds: what is accepted opens exactly the committed      *)
(* leaves, hidden commitment and partial deltas, under the committed salt. *)
AcceptedIsCommitted ==
  pc = "some" =>
    /\ opening.salt = salt /\ opening.partialDeltas = partialDeltas
    /\ \A e \in Execution : LET h == opening.hidden[e] IN
         /\ opening.hiddenCommitments[e] = Commit(salt, e, leaves[e][h])
         /\ \A i \in Leaf \ {h} : opening.leaves[e][i] = leaves[e][i]

(* An honest opening of indices in range is never refused. *)
HonestAccepted ==
  pc = "none" => (\E e \in Execution : hidden[e] \notin Leaf) \/ opening # Opened

(* x_zero and u_zero weigh every leaf by its own point: coordinate k sums  *)
(* the leaves whose Gray code has bit k.  The folding never looks at a     *)
(* Gray code, only at which bit changes next (blc.rs:310-312).             *)
FoldingWeighsLeaves ==
  pc = "challenge" =>
    \A e \in Execution, k \in Bit, p \in Part :
      zeroPoint[e][k][p] =
        FoldFunctionOnSet(Xor, Zero,
          [i \in Leaf |-> Expand(salt, e, leaves[e][i])[p]],
          {i \in Leaf : GrayBit(i, k)})
=============================================================================
