-------------------------- MODULE SignatureProofs ---------------------------
(***************************************************************************)
(* Proofs about Signature for every number of executions and equations,    *)
(* every nonce bound, every ring of characteristic two and every system of *)
(* quadratic equations: that verify.rs recomputes the alpha that sign.rs   *)
(* committed to, so that sign never refuses its own signature, and that    *)
(* signing and verifying implement the contract of the API.                *)
(***************************************************************************)
EXTENDS Signature, TLAPS

-----------------------------------------------------------------------------
(* The inductive invariant. *)

Committed == InVerify \cup {"grind", "open", "released", "accepted", "rejected"}
Ground == InVerify \cup {"open", "released", "accepted", "rejected"}

(* What equation q adds to the two batched sums of execution e.            *)
ZZero(e, q) == Form(key.seed, q, lines[e].x, lines[e].x)
ZOne(e, q) ==
  Plus(Form(key.seed, q, lines[e].x, key.secret),
       Plus(Form(key.seed, q, key.secret, lines[e].x), Linear(key.seed, q, lines[e].x)))

Summed(e, n) ==
  /\ alpha[e][0] = [zero |-> lines[e].uZero, one |-> lines[e].uOne]
  /\ \A q \in 0 .. n - 1 :
       alpha[e][q + 1] = [zero |-> Batch(alpha[e][q].zero, q, ZZero(e, q)),
                          one |-> Batch(alpha[e][q].one, q, ZOne(e, q))]

AlphaSums ==
  /\ pc = "alpha" => \A e \in Execution :
       Summed(e, IF e < execution THEN EquationCount
                 ELSE IF e = execution THEN equation ELSE 0)
  /\ pc \in Committed => \A e \in Execution : Summed(e, EquationCount)

Keys ==
  /\ pc \in InSign \cup Committed => Consistent(key)
  /\ pc = "inconsistent" => answers = <<>>

Callers ==
  /\ pc \in {"start", "inconsistent", "released", "failed"} \cup InSign => caller = "sign"
  /\ pc \in {"accepted", "rejected"} => caller = "user"

Grinding ==
  /\ pc \in {"start", "master_seed", "salt", "commit", "alpha"} => answers = <<>>
  /\ pc = "grind" => \A n \in 1 .. Len(answers) : ~answers[n].grinding
  /\ pc \in Ground =>
       /\ Len(answers) > 0 /\ answers[Len(answers)].grinding
       /\ \A n \in 1 .. Len(answers) - 1 : ~answers[n].grinding
  /\ FailsOnlyByLuck

Received ==
  /\ pc \in InVerify \cup {"released"} /\ caller = "sign" => given = Signed
  /\ pc \in InVerify \cup {"accepted", "rejected"} /\ caller = "user" => given \in Altered(Signed)

(* What verify has established at each of its steps.                       *)
Parsed ==
  /\ pc \in {"opening", "recompute", "accepted"} =>
       challenge \in Query(given) /\ challenge.grinding
  /\ pc \in {"recompute", "accepted"} => OpeningAccepted

(* The parts alpha is recomputed from are the signed ones.                 *)
Faithful ==
  /\ given.seed = key.seed /\ given.output = key.output
  /\ given.opening = SignedOpening /\ given.alphaOne = AlphaOne
  /\ challenge.hidden = SignedOpening.hidden

(* Recomputed so far: the line alpha zero + point * alpha one, and then    *)
(* its constant term.                                                      *)
OnLine(e, n) ==
  seen[e] = [c \in Component |->
               Plus(alpha[e][n].zero[c], Times(PointOf(e), alpha[e][n].one[c]))]

Recomputed ==
  pc = "recompute" /\ Faithful =>
    \A e \in Execution :
      IF e < execution THEN seen[e] = alpha[e][EquationCount].zero
      ELSE OnLine(e, IF e = execution THEN equation ELSE 0)

Judged ==
  /\ pc = "accepted" => Differences \subseteq {"seed", "output", "message", "nonce"}
  /\ pc = "rejected" => Differences # {}
  /\ AcceptedOpensChallenge

IInv == /\ TypeOK /\ AlphaSums /\ Keys /\ Callers /\ Grinding
        /\ Received /\ Parsed /\ Recomputed /\ Judged

-----------------------------------------------------------------------------
(* The ring. *)

LEMMA RingFacts ==
  /\ Zero \in Elem
  /\ \A a, b \in Elem : /\ Plus(a, b) \in Elem /\ Times(a, b) \in Elem
                        /\ Plus(a, b) = Plus(b, a) /\ Times(a, b) = Times(b, a)
  /\ \A a \in Elem : Plus(a, Zero) = a /\ Plus(a, a) = Zero
  /\ \A a, b, c \in Elem :
       /\ Plus(Plus(a, b), c) = Plus(a, Plus(b, c))
       /\ Times(Times(a, b), c) = Times(a, Times(b, c))
       /\ Times(a, Plus(b, c)) = Plus(Times(a, b), Times(a, c))
  /\ \A i \in Index : Point(i) \in Elem
BY RingAssumption DEF RingLaws

LEMMA FormFacts ==
  /\ Secret \subseteq Vec
  /\ \A x, y \in Vec, p \in Elem : VPlus(x, VTimes(p, y)) \in Vec
  /\ \A d \in Seed, q \in Equation, x, y \in Vec :
       Form(d, q, x, y) \in Elem /\ Linear(d, q, x) \in Elem
  /\ \A d \in Seed, q \in Equation, x, y, z \in Vec, p \in Elem :
       LET v == VPlus(x, VTimes(p, y))
       IN /\ Form(d, q, v, z) = Plus(Form(d, q, x, z), Times(p, Form(d, q, y, z)))
          /\ Form(d, q, z, v) = Plus(Form(d, q, z, x), Times(p, Form(d, q, z, y)))
          /\ Linear(d, q, v) = Plus(Linear(d, q, x), Times(p, Linear(d, q, y)))
BY FormAssumption DEF FormLaws

LEMMA RingType ==
  ASSUME NEW a \in Elem, NEW b \in Elem
  PROVE  Plus(a, b) \in Elem /\ Times(a, b) \in Elem
BY RingFacts

LEMMA PlusAssoc ==
  ASSUME NEW a \in Elem, NEW b \in Elem, NEW c \in Elem
  PROVE  Plus(Plus(a, b), c) = Plus(a, Plus(b, c))
BY RingFacts

LEMMA PlusCancel ==
  ASSUME NEW a \in Elem, NEW b \in Elem
  PROVE  Plus(Plus(a, b), b) = a
<1>1. Plus(Plus(a, b), b) = Plus(a, Plus(b, b))
  BY PlusAssoc
<1> QED BY <1>1, RingFacts

LEMMA Distribute ==
  ASSUME NEW a \in Elem, NEW b \in Elem, NEW c \in Elem
  PROVE  Times(a, Plus(b, c)) = Plus(Times(a, b), Times(a, c))
BY RingFacts

LEMMA TimesSwap ==
  ASSUME NEW a \in Elem, NEW b \in Elem, NEW c \in Elem
  PROVE  Times(a, Times(b, c)) = Times(b, Times(a, c))
<1>1. Times(a, Times(b, c)) = Times(Times(a, b), c)
  BY RingFacts
<1>2. Times(b, Times(a, c)) = Times(Times(b, a), c)
  BY RingFacts
<1>3. Times(a, b) = Times(b, a)
  BY RingFacts
<1> QED BY <1>1, <1>2, <1>3

LEMMA Medial ==
  ASSUME NEW a \in Elem, NEW b \in Elem, NEW c \in Elem, NEW d \in Elem
  PROVE  Plus(Plus(a, b), Plus(c, d)) = Plus(Plus(a, c), Plus(b, d))
<1>1. Plus(Plus(a, b), Plus(c, d)) = Plus(a, Plus(b, Plus(c, d)))
  BY RingType, PlusAssoc
<1>2. Plus(b, Plus(c, d)) = Plus(Plus(b, c), d)
  BY PlusAssoc
<1>3. Plus(b, c) = Plus(c, b)
  BY RingFacts
<1>4. Plus(Plus(c, b), d) = Plus(c, Plus(b, d))
  BY PlusAssoc
<1>5. Plus(a, Plus(c, Plus(b, d))) = Plus(Plus(a, c), Plus(b, d))
  BY RingType, PlusAssoc
<1> QED BY <1>1, <1>2, <1>3, <1>4, <1>5

(* Batching an equation of value z0 + p * z1 into a line a + p * b.        *)
LEMMA BatchedLine ==
  ASSUME NEW a \in Elem, NEW b \in Elem, NEW g \in Elem, NEW p \in Elem,
         NEW z0 \in Elem, NEW z1 \in Elem
  PROVE  Plus(Plus(a, Times(p, b)), Times(g, Plus(z0, Times(p, z1))))
           = Plus(Plus(a, Times(g, z0)), Times(p, Plus(b, Times(g, z1))))
<1> DEFINE gz0 == Times(g, z0)  gz1 == Times(g, z1)  pb == Times(p, b)  pgz1 == Times(p, gz1)
<1>1. gz0 \in Elem /\ gz1 \in Elem /\ pb \in Elem /\ pgz1 \in Elem /\ Times(p, z1) \in Elem
  BY RingType
<1>2. Times(g, Plus(z0, Times(p, z1))) = Plus(gz0, Times(g, Times(p, z1)))
  BY <1>1, Distribute
<1>3. Times(g, Times(p, z1)) = pgz1
  BY TimesSwap
<1>4. Times(p, Plus(b, gz1)) = Plus(pb, pgz1)
  BY <1>1, Distribute
<1>5. Plus(Plus(a, pb), Plus(gz0, pgz1)) = Plus(Plus(a, gz0), Plus(pb, pgz1))
  BY <1>1, Medial
<1> QED BY <1>2, <1>3, <1>4, <1>5

-----------------------------------------------------------------------------
(* Types. *)

LEMMA SizeFacts ==
  /\ Tau \in Nat \ {0} /\ EquationCount \in Nat \ {0} /\ MaxNonce \in Nat
  /\ 0 \in Execution /\ NoRow \in Row
BY SizeAssumption, RingFacts DEF Execution, NoRow, Row

LEMMA LineType ==
  ASSUME NEW l \in Line
  PROVE  l.x \in Vec /\ l.uZero \in Row /\ l.uOne \in Row
BY LineAssumption

LEMMA FormType ==
  ASSUME NEW d \in Seed, NEW q \in Equation, NEW x \in Vec, NEW y \in Vec
  PROVE  Form(d, q, x, y) \in Elem /\ Linear(d, q, x) \in Elem
BY FormFacts

LEMMA BatchType ==
  ASSUME batching \in Batching, NEW row \in Row, NEW q \in Equation, NEW z \in Elem
  PROVE  /\ Batch(row, q, z) \in Row
         /\ \A c \in Component : Batch(row, q, z)[c] = Plus(row[c], Times(batching[c][q], z))
         /\ \A c \in Component : batching[c][q] \in Elem
<1>1. \A c \in Component : batching[c][q] \in Elem
  BY LineAssumption
<1>2. \A c \in Component : Plus(row[c], Times(batching[c][q], z)) \in Elem
  BY <1>1, RingType DEF Row
<1> QED BY <1>1, <1>2 DEF Batch, Row

LEMMA ZType ==
  ASSUME TypeOK, NEW e \in Execution, NEW q \in Equation
  PROVE  ZZero(e, q) \in Elem /\ ZOne(e, q) \in Elem
<1>1. lines[e].x \in Vec /\ key.seed \in Seed /\ key.secret \in Vec
  BY LineType, FormFacts DEF TypeOK
<1> QED BY <1>1, FormType, RingType DEF ZZero, ZOne

LEMMA AlphaType ==
  ASSUME TypeOK, NEW e \in Execution, NEW n \in 0 .. EquationCount
  PROVE  alpha[e][n].zero \in Row /\ alpha[e][n].one \in Row
<1>1. alpha[e] \in [0 .. EquationCount -> [zero : Row, one : Row]]
  BY DEF TypeOK
<1>2. alpha[e][n] \in [zero : Row, one : Row]
  BY <1>1
<1> QED BY <1>2

LEMMA PolynomialsType ==
  ASSUME TypeOK
  PROVE  AlphaZero \in [Execution -> Row] /\ AlphaOne \in [Execution -> Row]
<1>1. EquationCount \in 0 .. EquationCount
  BY SizeFacts
<1> QED BY <1>1, AlphaType DEF AlphaZero, AlphaOne

LEMMA SignedType ==
  ASSUME TypeOK, Len(answers) > 0
  PROVE  Signed \in Transcript
<1>1. Len(answers) \in Nat /\ Len(answers) \in 1 .. Len(answers)
      /\ Len(answers) - 1 \in 0 .. MaxNonce
  BY SizeFacts DEF TypeOK
<1>2. answers[Len(answers)] \in Answer
  BY <1>1 DEF TypeOK
<1>3. FirstCommitment \in [salt : Salt, lines : [Execution -> Line], secret : Secret]
  BY DEF TypeOK, FirstCommitment
<1>4. SignedOpening \in [lines : [Execution -> Line], secret : Secret,
                         hidden : [Execution -> Index]]
  BY <1>2 DEF TypeOK, SignedOpening, Answer
<1> QED BY <1>1, <1>3, <1>4, PolynomialsType DEF TypeOK, Signed, SecondCommitment, Transcript

(* An alteration keeps the shape of the transcript and touches one part.   *)
LEMMA AlteredType ==
  ASSUME NEW g \in Transcript
  PROVE  Altered(g) \subseteq Transcript
<1>1. \A d \in Seed : [g EXCEPT !.seed = d] \in Transcript
  BY DEF Transcript
<1>2. \A q \in Equation, y \in Elem : [g EXCEPT !.output[q] = y] \in Transcript
  BY DEF Transcript
<1>3. \A m \in Message : [g EXCEPT !.message = m] \in Transcript
  BY DEF Transcript
<1>4. \A s \in Salt : [g EXCEPT !.salt = s] \in Transcript
  BY DEF Transcript
<1>5. \A s \in Salt : [g EXCEPT !.first.salt = s] \in Transcript
  BY DEF Transcript
<1>6. \A e \in Execution, l \in Line : [g EXCEPT !.first.lines[e] = l] \in Transcript
  BY DEF Transcript
<1>7. \A z \in {"zero", "one"}, e \in Execution, c \in Component, a \in Elem :
        [g EXCEPT !.second[z][e][c] = a] \in Transcript
  <2> SUFFICES ASSUME NEW z \in {"zero", "one"}, NEW e \in Execution, NEW c \in Component, NEW a \in Elem
               PROVE  [g EXCEPT !.second[z][e][c] = a] \in Transcript
    OBVIOUS
  <2> DEFINE Commitments == [zero : [Execution -> Row], one : [Execution -> Row]]
  <2>1. g.second \in Commitments
    BY DEF Transcript
  <2>2. [g.second EXCEPT ![z][e][c] = a] \in Commitments
    <3>1. [g.second[z] EXCEPT ![e][c] = a] \in [Execution -> Row]
      BY <2>1 DEF Row
    <3> QED BY <2>1, <3>1
  <2> QED BY <2>2 DEF Transcript
<1>8. \A e \in Execution, c \in Component, a \in Elem :
        [g EXCEPT !.alphaOne[e][c] = a] \in Transcript
  BY DEF Transcript, Row
<1>9. \A e \in Execution, l \in Line : [g EXCEPT !.opening.lines[e] = l] \in Transcript
  BY DEF Transcript
<1>10. \A s \in Secret : [g EXCEPT !.opening.secret = s] \in Transcript
  BY DEF Transcript
<1>11. \A e \in Execution, i \in Index : [g EXCEPT !.opening.hidden[e] = i] \in Transcript
  BY DEF Transcript
<1>12. \A n \in 0 .. MaxNonce : [g EXCEPT !.nonce = n] \in Transcript
  BY DEF Transcript
<1> QED BY <1>1, <1>2, <1>3, <1>4, <1>5, <1>6, <1>7, <1>8, <1>9, <1>10, <1>11, <1>12 DEF Altered

LEMMA OneAlteration ==
  ASSUME NEW g \in Transcript, NEW h \in Altered(g)
  PROVE  \E r \in Part : \A p \in Part \ {r} : h[p] = g[p]
<1>1. CASE h = g
  BY <1>1 DEF Part
<1>2. CASE \E d \in Seed : h = [g EXCEPT !.seed = d]
  <2>1. \A p \in Part \ {"seed"} : h[p] = g[p]
    BY <1>2 DEF Transcript, Part
  <2> QED BY <2>1 DEF Part
<1>3. CASE \E q \in Equation, y \in Elem : h = [g EXCEPT !.output[q] = y]
  <2>1. \A p \in Part \ {"output"} : h[p] = g[p]
    BY <1>3 DEF Transcript, Part
  <2> QED BY <2>1 DEF Part
<1>4. CASE \E m \in Message : h = [g EXCEPT !.message = m]
  <2>1. \A p \in Part \ {"message"} : h[p] = g[p]
    BY <1>4 DEF Transcript, Part
  <2> QED BY <2>1 DEF Part
<1>5. CASE \E s \in Salt : h = [g EXCEPT !.salt = s]
  <2>1. \A p \in Part \ {"salt"} : h[p] = g[p]
    BY <1>5 DEF Transcript, Part
  <2> QED BY <2>1 DEF Part
<1>6. CASE \/ \E s \in Salt : h = [g EXCEPT !.first.salt = s]
           \/ \E e \in Execution, l \in Line : h = [g EXCEPT !.first.lines[e] = l]
  <2>1. \A p \in Part \ {"first"} : h[p] = g[p]
    BY <1>6 DEF Transcript, Part
  <2> QED BY <2>1 DEF Part
<1>7. CASE \E z \in {"zero", "one"}, e \in Execution, c \in Component, a \in Elem :
             h = [g EXCEPT !.second[z][e][c] = a]
  <2>1. \A p \in Part \ {"second"} : h[p] = g[p]
    BY <1>7 DEF Transcript, Part
  <2> QED BY <2>1 DEF Part
<1>8. CASE \E e \in Execution, c \in Component, a \in Elem :
             h = [g EXCEPT !.alphaOne[e][c] = a]
  <2>1. \A p \in Part \ {"alphaOne"} : h[p] = g[p]
    BY <1>8 DEF Transcript, Part
  <2> QED BY <2>1 DEF Part
<1>9. CASE \/ \E e \in Execution, l \in Line : h = [g EXCEPT !.opening.lines[e] = l]
           \/ \E s \in Secret : h = [g EXCEPT !.opening.secret = s]
           \/ \E e \in Execution, i \in Index : h = [g EXCEPT !.opening.hidden[e] = i]
  <2>1. \A p \in Part \ {"opening"} : h[p] = g[p]
    BY <1>9 DEF Transcript, Part
  <2> QED BY <2>1 DEF Part
<1>10. CASE \E n \in 0 .. MaxNonce : h = [g EXCEPT !.nonce = n]
  <2>1. \A p \in Part \ {"nonce"} : h[p] = g[p]
    BY <1>10 DEF Transcript, Part
  <2> QED BY <2>1 DEF Part
<1> QED
  BY <1>1, <1>2, <1>3, <1>4, <1>5, <1>6, <1>7, <1>8, <1>9, <1>10 DEF Altered

-----------------------------------------------------------------------------
(* verify on what was signed. *)

Untouched == \A p \in Part : given[p] = Signed[p]

LEMMA GivenType ==
  ASSUME IInv, pc \in InVerify \cup {"released", "accepted", "rejected"}
  PROVE  /\ Signed \in Transcript /\ given \in Transcript
         /\ \E r \in Part : \A p \in Part \ {r} : given[p] = Signed[p]
         /\ caller = "sign" => given = Signed
<1>1. Len(answers) > 0
  BY DEF IInv, Grinding, Ground
<1>2. Signed \in Transcript
  BY <1>1, SignedType DEF IInv
<1>3. given = Signed \/ given \in Altered(Signed)
  BY DEF IInv, TypeOK, Received, Callers, InVerify
<1>4. caller = "sign" => given = Signed
  BY DEF IInv, Received, Callers, InVerify
<1>5. CASE given = Signed
  BY <1>2, <1>4, <1>5 DEF Part
<1>6. CASE given \in Altered(Signed)
  BY <1>2, <1>4, <1>6, AlteredType, OneAlteration
<1> QED BY <1>3, <1>5, <1>6

(* The same hash and nonce get the answer sign stopped at.                 *)
LEMMA SameQuery ==
  ASSUME IInv, pc \in Ground, FiatShamirVerified(given) = FiatShamirSigned, given.nonce = Signed.nonce
  PROVE  /\ Query(given) = {answers[Len(answers)]}
         /\ answers[Len(answers)].grinding
         /\ answers[Len(answers)].hidden = SignedOpening.hidden
<1>1. Len(answers) \in Nat /\ Len(answers) > 0 /\ answers[Len(answers)].grinding
  BY DEF IInv, Grinding, TypeOK
<1>2. given.nonce = Len(answers) - 1
  BY DEF Signed
<1>3. given.nonce < Len(answers) /\ given.nonce + 1 = Len(answers)
  BY <1>1, <1>2
<1> QED BY <1>1, <1>3 DEF Query, SignedOpening

LEMMA UntouchedQuery ==
  ASSUME IInv, pc \in InVerify, Untouched
  PROVE  /\ Query(given) = {answers[Len(answers)]}
         /\ answers[Len(answers)].grinding
         /\ answers[Len(answers)].hidden = SignedOpening.hidden
<1>1. /\ given.seed = Signed.seed /\ given.output = Signed.output /\ given.message = Signed.message
      /\ given.first = Signed.first /\ given.second = Signed.second /\ given.nonce = Signed.nonce
  BY DEF Untouched, Part
<1>2. FiatShamirVerified(given) = FiatShamirSigned
  BY <1>1 DEF FiatShamirVerified, FiatShamirSigned, Signed
<1> QED BY <1>1, <1>2, SameQuery DEF Ground

LEMMA UntouchedOpening ==
  ASSUME IInv, pc = "opening", Untouched
  PROVE  OpeningAccepted
<1>1. /\ given.first = Signed.first /\ given.salt = Signed.salt /\ given.opening = Signed.opening
  BY DEF Untouched, Part
<1>2. challenge.hidden = SignedOpening.hidden
  BY UntouchedQuery DEF IInv, Parsed, InVerify
<1> QED BY <1>1, <1>2 DEF OpeningAccepted, Signed, FirstCommitment, SignedOpening

(* With a faithful transcript the recomputed alpha zero is the signer's.   *)
LEMMA AlphaRecomputed ==
  ASSUME IInv, pc = "recompute", execution = Tau, Faithful
  PROVE  seen = AlphaZero
<1>1. \A e \in Execution : e < execution
  BY SizeFacts DEF Execution
<1>2. \A e \in Execution : seen[e] = alpha[e][EquationCount].zero
  BY <1>1 DEF IInv, Recomputed
<1> QED BY <1>2 DEF IInv, TypeOK, AlphaZero

LEMMA UntouchedFaithful ==
  ASSUME IInv, pc = "recompute", Untouched
  PROVE  Faithful /\ given.second = SecondCommitment
<1>1. /\ given.seed = Signed.seed /\ given.output = Signed.output
      /\ given.opening = Signed.opening /\ given.alphaOne = Signed.alphaOne
      /\ given.second = Signed.second
  BY DEF Untouched, Part
<1>2. challenge.hidden = given.opening.hidden
  BY DEF IInv, Parsed, OpeningAccepted
<1> QED BY <1>1, <1>2 DEF Faithful, Signed

(* What passes the opening and the comparison was not altered in any part  *)
(* but those that only enter through the challenge.                        *)
LEMMA OpeningUnaltered ==
  ASSUME IInv, pc = "recompute"
  PROVE  /\ given.first = FirstCommitment /\ given.opening = SignedOpening
         /\ given.salt = salt /\ challenge.hidden = SignedOpening.hidden
<1>0. /\ Signed \in Transcript /\ given \in Transcript
      /\ \E r \in Part : \A p \in Part \ {r} : given[p] = Signed[p]
  BY GivenType DEF InVerify
<1>1. PICK r \in Part : \A p \in Part \ {r} : given[p] = Signed[p]
  BY <1>0
<1>2. /\ given.first = [salt |-> given.salt, lines |-> given.opening.lines,
                        secret |-> given.opening.secret]
      /\ given.opening.hidden = challenge.hidden
  BY DEF IInv, Parsed, OpeningAccepted
<1>3. /\ Signed.first = FirstCommitment /\ Signed.opening = SignedOpening /\ Signed.salt = salt
      /\ FirstCommitment = [salt |-> salt, lines |-> SignedOpening.lines,
                            secret |-> SignedOpening.secret]
  BY DEF Signed, FirstCommitment, SignedOpening
<1>4. given.first = FirstCommitment /\ given.opening = SignedOpening /\ given.salt = salt
  <2>1. CASE r \notin {"first", "salt", "opening"}
    <3>1. given.first = Signed.first /\ given.opening = Signed.opening /\ given.salt = Signed.salt
      BY <1>1, <2>1 DEF Part
    <3> QED BY <1>3, <3>1
  <2>2. CASE r = "first"
    <3>1. given.opening = Signed.opening /\ given.salt = Signed.salt
      BY <1>1, <2>2 DEF Part
    <3> QED BY <1>2, <1>3, <3>1
  <2>3. CASE r = "salt"
    <3>1. given.first = Signed.first /\ given.opening = Signed.opening
      BY <1>1, <2>3 DEF Part
    <3>2. given.first.salt = given.salt /\ FirstCommitment.salt = salt
      BY <1>2, <1>3
    <3> QED BY <1>3, <3>1, <3>2
  <2>4. CASE r = "opening"
    <3>1. /\ given.first = Signed.first /\ given.salt = Signed.salt
          /\ given.seed = Signed.seed /\ given.output = Signed.output
          /\ given.second = Signed.second /\ given.message = Signed.message
          /\ given.nonce = Signed.nonce
      BY <1>1, <2>4 DEF Part
    <3>2. FiatShamirVerified(given) = FiatShamirSigned
      BY <3>1 DEF FiatShamirVerified, FiatShamirSigned, Signed
    <3>3. challenge.hidden = SignedOpening.hidden
      BY <3>1, <3>2, SameQuery DEF IInv, Parsed, Ground, InVerify
    <3>4. given.opening.lines = SignedOpening.lines /\ given.opening.secret = SignedOpening.secret
      <4>1. given.first.lines = given.opening.lines /\ given.first.secret = given.opening.secret
        BY <1>2
      <4>2. FirstCommitment.lines = SignedOpening.lines
            /\ FirstCommitment.secret = SignedOpening.secret
        BY <1>3
      <4> QED BY <1>3, <3>1, <4>1, <4>2
    <3>5. given.opening = SignedOpening
      <4>1. /\ given.opening \in [lines : [Execution -> Line], secret : Secret,
                                  hidden : [Execution -> Index]]
            /\ SignedOpening \in [lines : [Execution -> Line], secret : Secret,
                                  hidden : [Execution -> Index]]
        BY <1>0, <1>3 DEF Transcript
      <4> QED BY <1>2, <3>3, <3>4, <4>1
    <3> QED BY <1>3, <3>1, <3>5
  <2> QED BY <2>1, <2>2, <2>3, <2>4
<1> QED BY <1>2, <1>4

LEMMA AlphaUnaltered ==
  ASSUME IInv, pc = "recompute", execution = Tau, [zero |-> seen, one |-> given.alphaOne] = given.second
  PROVE  \A p \in Part : given[p] # Signed[p] => p \in {"seed", "output", "message", "nonce"}
<1>1. PICK r \in Part : \A p \in Part \ {r} : given[p] = Signed[p]
  BY GivenType DEF InVerify
<1>2. /\ given.first = Signed.first /\ given.opening = Signed.opening /\ given.salt = Signed.salt
      /\ challenge.hidden = SignedOpening.hidden /\ Signed.opening = SignedOpening
      /\ Signed.second = SecondCommitment /\ Signed.alphaOne = AlphaOne
      /\ Signed.seed = key.seed /\ Signed.output = key.output
  BY OpeningUnaltered DEF Signed
<1>3. CASE r = "second"
  <2>1. /\ given.seed = Signed.seed /\ given.output = Signed.output
        /\ given.alphaOne = Signed.alphaOne
    BY <1>1, <1>3 DEF Part
  <2>2. Faithful
    BY <1>2, <2>1 DEF Faithful
  <2>3. given.second = Signed.second
    BY <1>2, <2>1, <2>2, AlphaRecomputed DEF SecondCommitment
  <2> QED BY <1>1, <1>3, <2>3
<1>4. CASE r = "alphaOne"
  <2>1. given.second = Signed.second
    BY <1>1, <1>4 DEF Part
  <2>2. given.alphaOne = Signed.alphaOne
    <3>1. given.second.one = given.alphaOne /\ SecondCommitment.one = AlphaOne
      BY DEF SecondCommitment
    <3> QED BY <1>2, <2>1, <3>1
  <2> QED BY <1>1, <1>4, <2>2
<1>5. CASE r \in {"first", "opening", "salt"}
  BY <1>1, <1>2, <1>5
<1>6. CASE r \in {"seed", "output", "message", "nonce"}
  BY <1>1, <1>6
<1> QED BY <1>3, <1>4, <1>5, <1>6 DEF Part

-----------------------------------------------------------------------------
(* The invariant holds initially, and every action preserves it. *)

LEMMA InitStep == Init => IInv
<1> SUFFICES ASSUME Init PROVE IInv
  OBVIOUS
<1> USE DEF Init
<1>1. TypeOK
  <2>1. /\ salt \in Salt /\ batching \in Batching /\ lines \in [Execution -> Line]
        /\ challenge \in Answer
    BY SizeAssumption DEF Answer
  <2>2. answers \in Seq(Answer) /\ Len(answers) = 0
    OBVIOUS
  <2>3. alpha \in [Execution -> [0 .. EquationCount -> [zero : Row, one : Row]]]
    BY SizeFacts DEF NoAlpha
  <2>4. seen \in [Execution -> Row]
    BY SizeFacts
  <2>5. 0 \in 0 .. Tau /\ 0 \in 0 .. EquationCount /\ 0 <= MaxNonce + 1
    BY SizeFacts
  <2> QED BY <2>1, <2>2, <2>3, <2>4, <2>5 DEF TypeOK, Idle
<1>2. AlphaSums /\ Keys /\ Callers
  BY DEF AlphaSums, Keys, Callers, Committed, InSign, InVerify
<1>3. Grinding
  BY DEF Grinding, Ground, InVerify, FailsOnlyByLuck
<1>4. Received /\ Parsed /\ Recomputed /\ Judged
  BY DEF Received, Parsed, Recomputed, Judged, InVerify, AcceptedOpensChallenge
<1> QED BY <1>1, <1>2, <1>3, <1>4 DEF IInv

(* Before the lines are drawn only pc, the key and the salt change.        *)
LEMMA EarlyStep ==
  ASSUME IInv, TypeOK', pc \in {"start", "master_seed", "salt"},
         pc' \in {"inconsistent", "failed", "master_seed", "salt", "commit"},
         pc' \in InSign => Consistent(key)', sourceFailed' => pc' = "failed",
         pc' = "failed" => sourceFailed', UNCHANGED <<caller, answers>>
  PROVE  IInv'
<1>1. answers = <<>> /\ answers' = <<>> /\ caller' = "sign"
  BY DEF IInv, Grinding, Callers, InSign
<1>2. AlphaSums' /\ Keys' /\ Callers'
  BY <1>1 DEF AlphaSums, Keys, Callers, Committed, InSign, InVerify
<1>3. Grinding'
  BY <1>1 DEF Grinding, Ground, InVerify, FailsOnlyByLuck
<1>4. Received' /\ Parsed' /\ Recomputed' /\ Judged'
  BY DEF Received, Parsed, Recomputed, Judged, InVerify, AcceptedOpensChallenge
<1> QED BY <1>1, <1>2, <1>3, <1>4 DEF IInv

LEMMA GenerateStep == IInv /\ Generate => IInv'
<1> SUFFICES ASSUME IInv, Generate PROVE IInv'
  OBVIOUS
<1>1. PICK d \in Seed, s \in Secret : key' = KeyPair(d, s)
  BY DEF Generate
<1>2. EvaluateBase(d, s) \in [Equation -> Elem]
  <2>1. s \in Vec
    BY FormFacts
  <2>2. \A q \in Equation : Plus(Form(d, q, s, s), Linear(d, q, s)) \in Elem
    BY <2>1, FormType, RingType
  <2> QED BY <2>2 DEF EvaluateBase
<1>3. TypeOK'
  BY <1>1, <1>2 DEF IInv, TypeOK, Generate, KeyPair, loops, verifying, Idle, InSign
<1>4. Consistent(key)'
  BY <1>1 DEF Consistent, KeyPair
<1>5. ~sourceFailed'
  BY DEF Generate, IInv, Grinding, FailsOnlyByLuck
<1> QED BY <1>3, <1>4, <1>5, EarlyStep DEF Generate

LEMMA OnlyControlStep ==
  IInv /\ (GenerateFails \/ ImportKey \/ RefuseKey \/ RngFails \/ DrawMasterSeed) => IInv'
<1> SUFFICES ASSUME IInv, GenerateFails \/ ImportKey \/ RefuseKey \/ RngFails \/ DrawMasterSeed
             PROVE  IInv'
  OBVIOUS
<1>1. /\ UNCHANGED <<caller, execution, equation, key, message, salt, lines, batching, alpha,
                     answers, given, challenge, seen>>
      /\ pc \in {"start", "master_seed", "salt"}
      /\ pc' \in {"inconsistent", "failed", "master_seed", "salt"}
      /\ sourceFailed' \in BOOLEAN
  BY DEF GenerateFails, ImportKey, RefuseKey, RngFails, DrawMasterSeed, SourceFails,
     loops, signing, verifying, IInv, TypeOK
<1>2. TypeOK'
  BY <1>1 DEF IInv, TypeOK, Idle, InSign
<1>4. /\ sourceFailed' => pc' = "failed"
      /\ pc' = "failed" => sourceFailed'
  <2>1. ~sourceFailed
    BY <1>1 DEF IInv, Grinding, FailsOnlyByLuck
  <2> QED BY <2>1 DEF GenerateFails, ImportKey, RefuseKey, RngFails, DrawMasterSeed,
             SourceFails, signing
<1>3. pc' \in InSign => Consistent(key)'
  <2>1. pc' \in InSign => Consistent(key)
    BY DEF GenerateFails, ImportKey, RefuseKey, RngFails, DrawMasterSeed, IInv, Keys, InSign
  <2> QED BY <1>1, <2>1 DEF Consistent
<1> QED BY <1>1, <1>2, <1>3, <1>4, EarlyStep

LEMMA DrawSaltStep == IInv /\ DrawSalt => IInv'
<1> SUFFICES ASSUME IInv, DrawSalt PROVE IInv'
  OBVIOUS
<1>1. TypeOK'
  BY DEF IInv, TypeOK, DrawSalt, loops, verifying, InSign
<1>2. Consistent(key)'
  BY DEF IInv, Keys, DrawSalt, Consistent, InSign
<1>3. ~sourceFailed'
  BY DEF DrawSalt, IInv, Grinding, FailsOnlyByLuck
<1> QED BY <1>1, <1>2, <1>3, EarlyStep DEF DrawSalt

(* While sign works, nothing has been verified yet.                        *)
LEMMA SigningStep ==
  ASSUME IInv, TypeOK', AlphaSums', pc \in {"commit", "alpha", "grind"},
         pc' \in {"alpha", "grind", "open"}, Grinding', UNCHANGED <<caller, key>>
  PROVE  IInv'
<1>1. Keys' /\ Callers'
  BY DEF IInv, Keys, Callers, Consistent, Committed, InSign, InVerify
<1>2. Received' /\ Parsed' /\ Recomputed' /\ Judged'
  BY DEF Received, Parsed, Recomputed, Judged, InVerify, AcceptedOpensChallenge
<1> QED BY <1>1, <1>2 DEF IInv

LEMMA NoAnswers ==
  ASSUME IInv, pc \in {"commit", "alpha"}, pc' \in {"alpha", "grind"},
         UNCHANGED <<answers, sourceFailed>>
  PROVE  Grinding'
<1>1. answers' = <<>> /\ ~sourceFailed'
  BY DEF IInv, Grinding, FailsOnlyByLuck
<1> QED BY <1>1 DEF Grinding, Ground, InVerify, FailsOnlyByLuck

LEMMA CommitLinesStep == IInv /\ CommitLines => IInv'
<1> SUFFICES ASSUME IInv, CommitLines PROVE IInv'
  OBVIOUS
<1> USE DEF CommitLines, StartExecution
<1>1. \A e \in Execution : lines'[e].uZero \in Row /\ lines'[e].uOne \in Row
  BY LineType
<1>2. alpha' \in [Execution -> [0 .. EquationCount -> [zero : Row, one : Row]]]
  BY <1>1, SizeFacts DEF NoAlpha
<1>3. TypeOK'
  <2>1. 0 \in 0 .. Tau /\ 0 \in 0 .. EquationCount
    BY SizeFacts
  <2>2. /\ pc' = "alpha" /\ execution' = 0 /\ equation' = 0
        /\ lines' \in [Execution -> Line] /\ batching' \in Batching
        /\ UNCHANGED <<caller, key, message, salt, answers, sourceFailed,
                        given, challenge, seen>>
    BY DEF verifying
  <2> QED BY <1>2, <2>1, <2>2 DEF IInv, TypeOK, InSign
<1>4. AlphaSums'
  <2>1. \A e \in Execution : alpha'[e][0] = [zero |-> lines'[e].uZero, one |-> lines'[e].uOne]
    BY SizeFacts
  <2>a. \A q \in 0 .. 0 - 1 : FALSE
    OBVIOUS
  <2>2. \A e \in Execution : Summed(e, 0)'
    BY <2>1, <2>a DEF Summed
  <2>3. \A e \in Execution : ~(e < 0)
    BY SizeFacts DEF Execution
  <2> QED BY <2>2, <2>3 DEF AlphaSums, Committed, InVerify
<1> QED BY <1>3, <1>4, NoAnswers, SigningStep

LEMMA AlphaEquationStep == IInv /\ AlphaEquation => IInv'
<1> SUFFICES ASSUME IInv, AlphaEquation PROVE IInv'
  OBVIOUS
<1>1. PICK e \in Execution, q \in Equation : e = execution /\ q = equation
  BY SizeFacts DEF IInv, TypeOK, AlphaEquation, Execution, Equation
<1>2. /\ pc = "alpha" /\ pc' = "alpha" /\ execution = e /\ equation = q
      /\ execution' = e /\ equation' = q + 1
      /\ UNCHANGED <<caller, key, message, salt, lines, batching, answers, sourceFailed,
                     given, challenge, seen>>
  BY <1>1 DEF AlphaEquation, verifying
<1>3. PICK z \in Row, o \in Row :
        /\ z = Batch(alpha[e][q].zero, q, ZZero(e, q))
        /\ o = Batch(alpha[e][q].one, q, ZOne(e, q))
        /\ alpha' = [alpha EXCEPT ![e][q + 1] = [zero |-> z, one |-> o]]
  <2>1. q \in 0 .. EquationCount /\ alpha[e][q].zero \in Row /\ alpha[e][q].one \in Row
    BY SizeFacts, AlphaType DEF IInv, Equation
  <2>2. Batch(alpha[e][q].zero, q, ZZero(e, q)) \in Row /\ Batch(alpha[e][q].one, q, ZOne(e, q)) \in Row
    BY <2>1, ZType, BatchType DEF IInv, TypeOK
  <2>3. alpha' = [alpha EXCEPT ![e][q + 1] = [zero |-> Batch(alpha[e][q].zero, q, ZZero(e, q)),
                                             one |-> Batch(alpha[e][q].one, q, ZOne(e, q))]]
    BY <1>1 DEF AlphaEquation, ZZero, ZOne
  <2> QED BY <2>2, <2>3
<1>4. /\ q \in Nat /\ q + 1 \in 0 .. EquationCount /\ e \in Nat /\ e \in 0 .. Tau
  BY SizeFacts DEF Equation, Execution
<1>5. TypeOK'
  <2>1. alpha' \in [Execution -> [0 .. EquationCount -> [zero : Row, one : Row]]]
    BY <1>3 DEF IInv, TypeOK
  <2> QED BY <1>2, <1>4, <2>1 DEF IInv, TypeOK
<1>6. AlphaSums'
  <2>1. /\ \A d \in Execution : d # e => alpha'[d] = alpha[d]
        /\ \A n \in 0 .. EquationCount : n # q + 1 => alpha'[e][n] = alpha[e][n]
        /\ alpha'[e][q + 1] = [zero |-> z, one |-> o]
    BY <1>3, <1>4 DEF IInv, TypeOK
  <2>2. ASSUME NEW d \in Execution
        PROVE  Summed(d, IF d < e THEN EquationCount ELSE IF d = e THEN q + 1 ELSE 0)'
    <3>1. CASE d # e
      <4>1. Summed(d, IF d < e THEN EquationCount ELSE 0)
        BY <1>1, <1>2, <3>1 DEF IInv, AlphaSums
      <4> QED BY <1>2, <2>1, <3>1, <4>1 DEF Summed, ZZero, ZOne, Batch
    <3>2. CASE d = e
      <4>1. Summed(e, q) /\ ~(e < e)
        BY <1>2, <1>4 DEF IInv, AlphaSums
      <4>2. alpha'[e][0] = [zero |-> lines[e].uZero, one |-> lines[e].uOne]
        BY <1>4, <2>1, <4>1, SizeFacts DEF Summed
      <4>3. ASSUME NEW n \in 0 .. q
            PROVE  alpha'[e][n + 1] = [zero |-> Batch(alpha'[e][n].zero, n, ZZero(e, n)),
                                       one |-> Batch(alpha'[e][n].one, n, ZOne(e, n))]
        <5>1. alpha'[e][n] = alpha[e][n]
          <6>1. \A k, m, t \in Nat : k \in 0 .. m /\ m + 1 \in 0 .. t => k \in 0 .. t /\ k # m + 1
            OBVIOUS
          <6>2. n \in Nat /\ EquationCount \in Nat
            BY <1>4, SizeFacts
          <6> QED BY <1>4, <2>1, <6>1, <6>2
        <5>2. CASE n = q
          BY <1>3, <2>1, <5>1, <5>2
        <5>3. CASE n # q
          <6>a. \A k, m, t \in Nat : k \in 0 .. m /\ k # m /\ m + 1 \in 0 .. t =>
                  k \in 0 .. m - 1 /\ k + 1 # m + 1 /\ k + 1 \in 0 .. t
            OBVIOUS
          <6>b. n \in Nat /\ EquationCount \in Nat
            BY <1>4, SizeFacts
          <6>1. n \in 0 .. q - 1 /\ n + 1 # q + 1 /\ n + 1 \in 0 .. EquationCount
            BY <1>4, <5>3, <6>a, <6>b
          <6> QED BY <2>1, <4>1, <5>1, <6>1 DEF Summed
        <5> QED BY <5>2, <5>3
      <4>4. (q + 1) - 1 = q
        BY <1>4
      <4>5. Summed(e, q + 1)'
        <5>1. \A n \in 0 .. (q + 1) - 1 :
                alpha'[e][n + 1] = [zero |-> Batch(alpha'[e][n].zero, n, ZZero(e, n)),
                                    one |-> Batch(alpha'[e][n].one, n, ZOne(e, n))]
          BY <4>3, <4>4
        <5>2. /\ \A n : ZZero(e, n)' = ZZero(e, n) /\ ZOne(e, n)' = ZOne(e, n)
              /\ \A row, n, y : Batch(row, n, y)' = Batch(row, n, y)
          BY <1>2 DEF ZZero, ZOne, Batch
        <5> QED BY <1>2, <4>2, <5>1 DEF Summed, ZZero, ZOne, Batch
      <4> QED BY <3>2, <4>1, <4>5
    <3> QED BY <3>1, <3>2
  <2> QED BY <1>2, <2>2 DEF AlphaSums, Committed, InVerify
<1> QED BY <1>2, <1>5, <1>6, NoAnswers, SigningStep

LEMMA AlphaExecutionStep == IInv /\ AlphaExecution => IInv'
<1> SUFFICES ASSUME IInv, AlphaExecution PROVE IInv'
  OBVIOUS
<1>1. /\ pc = "alpha" /\ pc' = "alpha" /\ execution \in Nat /\ execution < Tau
      /\ execution' = execution + 1 /\ equation' = 0 /\ equation = EquationCount
      /\ UNCHANGED <<caller, key, message, salt, lines, batching, alpha, answers,
                     sourceFailed, given, challenge, seen>>
  BY SizeFacts DEF IInv, TypeOK, AlphaExecution, StartExecution, signing, verifying
<1>2. TypeOK'
  BY <1>1, SizeFacts DEF IInv, TypeOK
<1>3. AlphaSums'
  <2>1. ASSUME NEW d \in Execution
        PROVE  Summed(d, IF d < execution + 1 THEN EquationCount
                         ELSE IF d = execution + 1 THEN 0 ELSE 0)
    <3>1. /\ d \in Nat /\ (d < execution + 1 <=> d < execution \/ d = execution)
          /\ ~(d < execution /\ d = execution)
      BY <1>1 DEF Execution
    <3> QED BY <1>1, <3>1 DEF IInv, AlphaSums
  <2>2. \A d \in Execution, n \in Int : Summed(d, n) => Summed(d, n)'
    BY <1>1 DEF Summed, ZZero, ZOne, Batch
  <2>3. EquationCount \in Int /\ 0 \in Int
    BY SizeFacts
  <2> QED BY <1>1, <2>1, <2>2, <2>3 DEF AlphaSums, Committed, InVerify
<1> QED BY <1>1, <1>2, <1>3, NoAnswers, SigningStep

(* All the sums are complete, and nothing they depend on changes any more. *)
LEMMA AlphaFrame ==
  ASSUME AlphaSums, pc \in Committed, pc' # "alpha",
         UNCHANGED <<key, message, salt, lines, batching, alpha>>
  PROVE  AlphaSums'
<1>1. \A e \in Execution : Summed(e, EquationCount)
  BY DEF AlphaSums
<1>2. \A e \in Execution : Summed(e, EquationCount)'
  BY <1>1 DEF Summed, ZZero, ZOne, Batch
<1> QED BY <1>2 DEF AlphaSums

LEMMA CommitAlphaStep == IInv /\ CommitAlpha => IInv'
<1> SUFFICES ASSUME IInv, CommitAlpha PROVE IInv'
  OBVIOUS
<1>1. /\ pc = "alpha" /\ pc' = "grind" /\ execution = Tau
      /\ UNCHANGED <<caller, execution, equation, key, message, salt, lines, batching, alpha,
                     answers, sourceFailed, given, challenge, seen>>
  BY DEF CommitAlpha, loops, signing, verifying
<1>2. TypeOK'
  BY <1>1 DEF IInv, TypeOK, InSign
<1>3. AlphaSums'
  <2>1. \A e \in Execution : e < execution
    BY <1>1, SizeFacts DEF Execution
  <2>2. \A e \in Execution : Summed(e, EquationCount)
    BY <1>1, <2>1 DEF IInv, AlphaSums
  <2>3. \A e \in Execution : Summed(e, EquationCount)'
    BY <1>1, <2>2 DEF Summed, ZZero, ZOne, Batch
  <2> QED BY <1>1, <2>3 DEF AlphaSums
<1> QED BY <1>1, <1>2, <1>3, NoAnswers, SigningStep

LEMMA TryNonceStep == IInv /\ TryNonce => IInv'
<1> SUFFICES ASSUME IInv, TryNonce PROVE IInv'
  OBVIOUS
<1>1. PICK a \in Answer : /\ answers' = Append(answers, a)
                          /\ pc' = IF a.grinding THEN "open" ELSE "grind"
  BY DEF TryNonce
<1>2. /\ pc = "grind" /\ Len(answers) <= MaxNonce
      /\ UNCHANGED <<caller, execution, equation, key, message, salt, lines, batching, alpha,
                     sourceFailed, given, challenge, seen>>
  BY DEF TryNonce, loops, verifying
<1>3. /\ answers \in Seq(Answer) /\ Len(answers) \in Nat /\ answers' \in Seq(Answer)
      /\ Len(answers') = Len(answers) + 1 /\ answers'[Len(answers')] = a
      /\ \A n \in 1 .. Len(answers) : answers'[n] = answers[n]
  BY <1>1 DEF IInv, TypeOK
<1>4. TypeOK'
  BY <1>1, <1>2, <1>3, SizeFacts DEF IInv, TypeOK, InSign
<1>5. AlphaSums'
  BY <1>1, <1>2, AlphaFrame DEF IInv, Committed
<1>6. Grinding'
  <2>1. \A n \in 1 .. Len(answers) : ~answers[n].grinding
    BY <1>2 DEF IInv, Grinding
  <2>4. ~sourceFailed'
    BY <1>2 DEF IInv, Grinding, FailsOnlyByLuck
  <2>2. CASE a.grinding
    <3>1. pc' = "open" /\ Len(answers') - 1 = Len(answers) /\ Len(answers') > 0
      BY <1>1, <1>3, <2>2
    <3>2. \A n \in 1 .. Len(answers') - 1 : ~answers'[n].grinding
      BY <1>3, <2>1, <3>1
    <3> QED BY <1>3, <2>2, <2>4, <3>1, <3>2 DEF Grinding, Ground, InVerify, FailsOnlyByLuck
  <2>3. CASE ~a.grinding
    <3>1. \A n \in 1 .. Len(answers') : n \in 1 .. Len(answers) \/ n = Len(answers')
      BY <1>3
    <3>2. \A n \in 1 .. Len(answers') : ~answers'[n].grinding
      BY <1>3, <2>1, <2>3, <3>1
    <3>3. pc' = "grind"
      BY <1>1, <2>3
    <3> QED BY <2>4, <3>2, <3>3 DEF Grinding, Ground, InVerify, FailsOnlyByLuck
  <2> QED BY <2>2, <2>3
<1>7. pc' \in {"grind", "open"}
  BY <1>1
<1> QED BY <1>2, <1>4, <1>5, <1>6, <1>7, SigningStep

LEMMA NoncesExhaustedStep == IInv /\ NoncesExhausted => IInv'
<1> SUFFICES ASSUME IInv, NoncesExhausted PROVE IInv'
  OBVIOUS
<1>1. /\ pc = "grind" /\ pc' = "failed" /\ Len(answers) = MaxNonce + 1
      /\ UNCHANGED <<caller, execution, equation, key, message, salt, lines, batching, alpha,
                     answers, sourceFailed, given, challenge, seen>>
  BY DEF NoncesExhausted, loops, signing, verifying
<1>2. TypeOK'
  BY <1>1 DEF IInv, TypeOK, Idle
<1>3. AlphaSums' /\ Keys' /\ Callers'
  BY <1>1 DEF AlphaSums, Keys, Callers, IInv, Committed, InSign, InVerify
<1>4. Grinding'
  <2>1. \A n \in 1 .. Len(answers) : ~answers[n].grinding
    BY <1>1 DEF IInv, Grinding
  <2> QED BY <1>1, <2>1 DEF Grinding, Ground, InVerify, FailsOnlyByLuck
<1>5. Received' /\ Parsed' /\ Recomputed' /\ Judged'
  BY <1>1 DEF Received, Parsed, Recomputed, Judged, InVerify, AcceptedOpensChallenge
<1> QED BY <1>2, <1>3, <1>4, <1>5 DEF IInv

-----------------------------------------------------------------------------
(* Once the challenge has passed, the signer's side does not change.       *)

LEMMA SignedFrame ==
  ASSUME UNCHANGED signing
  PROVE  /\ Signed' = Signed /\ SignedOpening' = SignedOpening /\ FirstCommitment' = FirstCommitment
         /\ AlphaOne' = AlphaOne /\ AlphaZero' = AlphaZero
<1>1. UNCHANGED <<key, message, salt, lines, batching, alpha, answers, sourceFailed>>
  BY DEF signing
<1>2. SignedOpening' = SignedOpening /\ FirstCommitment' = FirstCommitment
      /\ AlphaOne' = AlphaOne /\ AlphaZero' = AlphaZero
  BY <1>1 DEF SignedOpening, FirstCommitment, AlphaOne, AlphaZero
<1> QED BY <1>1, <1>2 DEF Signed, SecondCommitment

LEMMA QueryFrame ==
  ASSUME UNCHANGED <<signing, given>>
  PROVE  Query(given)' = Query(given)
BY SignedFrame DEF Query, FiatShamirVerified, FiatShamirSigned, SecondCommitment, signing

LEMMA GroundFrame ==
  ASSUME IInv, pc \in Ground, pc' \in Ground, UNCHANGED signing
  PROVE  AlphaSums' /\ Keys' /\ Grinding'
<1>1. UNCHANGED <<key, message, salt, lines, batching, alpha, answers, sourceFailed>>
  BY DEF signing
<1>2. AlphaSums'
  <2>1. \A e \in Execution : Summed(e, EquationCount)
    BY DEF IInv, AlphaSums, Ground, Committed
  <2>2. \A e \in Execution : Summed(e, EquationCount)'
    BY <1>1, <2>1 DEF Summed, ZZero, ZOne, Batch
  <2> QED BY <2>2 DEF AlphaSums, Ground, InVerify
<1>3. Keys'
  <2>1. Consistent(key)
    BY DEF IInv, Keys, Ground, Committed, InSign
  <2> QED BY <1>1, <2>1 DEF Keys, Consistent, Ground, InVerify
<1>4. Grinding'
  BY <1>1 DEF IInv, Grinding, Ground, InVerify, FailsOnlyByLuck
<1> QED BY <1>2, <1>3, <1>4

LEMMA VerifyFrame ==
  ASSUME IInv, pc \in InVerify, UNCHANGED <<signing, caller, given>>,
         \/ pc' \in InVerify
         \/ pc' = "released" /\ caller = "sign"
         \/ pc' \in {"accepted", "rejected"} /\ caller = "user"
  PROVE  AlphaSums' /\ Keys' /\ Grinding' /\ Callers' /\ Received'
<1>1. pc \in Ground /\ pc' \in Ground
  BY DEF Ground, InVerify
<1>2. AlphaSums' /\ Keys' /\ Grinding'
  BY <1>1, GroundFrame
<1>3. Callers'
  BY DEF Callers, InVerify, InSign
<1>4. Received'
  BY SignedFrame DEF IInv, Received, InVerify
<1> QED BY <1>2, <1>3, <1>4

(* verify refuses only what was altered, so only for a user.               *)
LEMMA RefusedStep ==
  ASSUME IInv, pc \in InVerify, ~Untouched, Return(FALSE),
         TypeOK', UNCHANGED <<signing, caller, given>>
  PROVE  IInv'
<1>1. caller = "user"
  BY GivenType DEF IInv, TypeOK, Untouched
<1>2. pc' = "rejected"
  BY <1>1 DEF Return
<1>3. AlphaSums' /\ Keys' /\ Grinding' /\ Callers' /\ Received'
  BY <1>1, <1>2, VerifyFrame
<1>4. Judged'
  <2>1. PICK p \in Part : given[p] # Signed[p]
    BY DEF Untouched
  <2>2. Differences' # {}
    BY <1>1, <2>1, SignedFrame DEF Differences
  <2> QED BY <1>2, <2>2 DEF Judged, AcceptedOpensChallenge
<1>5. Parsed' /\ Recomputed'
  BY <1>2 DEF Parsed, Recomputed
<1> QED BY <1>3, <1>4, <1>5 DEF IInv

LEMMA OpenStep == IInv /\ Open => IInv'
<1> SUFFICES ASSUME IInv, Open PROVE IInv'
  OBVIOUS
<1>1. /\ pc = "open" /\ pc' = "challenge" /\ given' = Signed /\ caller' = "sign"
      /\ UNCHANGED <<signing, execution, equation, challenge, seen>>
  BY DEF Open, loops
<1>2. Signed \in Transcript
  BY <1>1, SignedType DEF IInv, Grinding, Ground
<1>3. TypeOK'
  BY <1>1, <1>2 DEF IInv, TypeOK, signing, InVerify
<1>4. AlphaSums' /\ Keys' /\ Grinding'
  BY <1>1, GroundFrame DEF Ground, InVerify
<1>5. Callers' /\ Received'
  BY <1>1, SignedFrame DEF Callers, Received, InSign
<1>6. Parsed' /\ Recomputed' /\ Judged'
  BY <1>1 DEF Parsed, Recomputed, Judged, AcceptedOpensChallenge
<1> QED BY <1>3, <1>4, <1>5, <1>6 DEF IInv

LEMMA DeliverStep == IInv /\ Deliver => IInv'
<1> SUFFICES ASSUME IInv, Deliver PROVE IInv'
  OBVIOUS
<1>1. /\ pc = "released" /\ pc' = "challenge" /\ given' \in Altered(given) /\ caller' = "user"
      /\ UNCHANGED <<signing, execution, equation, challenge, seen>>
  BY DEF Deliver, loops
<1>2. given = Signed /\ Signed \in Transcript
  BY <1>1, GivenType DEF IInv, Callers
<1>3. given' \in Transcript
  BY <1>1, <1>2, AlteredType
<1>4. TypeOK'
  BY <1>1, <1>3 DEF IInv, TypeOK, signing, InVerify
<1>5. AlphaSums' /\ Keys' /\ Grinding'
  BY <1>1, GroundFrame DEF Ground, InVerify
<1>6. Callers' /\ Received'
  BY <1>1, <1>2, SignedFrame DEF Callers, Received, InSign
<1>7. Parsed' /\ Recomputed' /\ Judged'
  BY <1>1 DEF Parsed, Recomputed, Judged, AcceptedOpensChallenge
<1> QED BY <1>4, <1>5, <1>6, <1>7 DEF IInv

LEMMA ParseChallengeStep == IInv /\ ParseChallenge => IInv'
<1> SUFFICES ASSUME IInv, ParseChallenge PROVE IInv'
  OBVIOUS
<1>1. /\ pc = "challenge" /\ pc \in InVerify /\ challenge' \in Query(given)
      /\ IF challenge'.grinding THEN pc' = "opening" ELSE Return(FALSE)
      /\ UNCHANGED <<caller, signing, given, execution, equation, seen>>
  BY DEF ParseChallenge, loops, InVerify
<1>2. challenge' \in Answer
  <2>1. given.nonce \in 0 .. MaxNonce /\ MaxNonce \in Nat
    BY <1>1, GivenType, SizeFacts DEF Transcript
  <2>2. given.nonce < Len(answers) => answers[given.nonce + 1] \in Answer
    BY <2>1 DEF IInv, TypeOK
  <2> QED BY <1>1, <2>2 DEF Query
<1>3. CASE challenge'.grinding
  <2>1. pc' = "opening" /\ pc' \in InVerify
    BY <1>1, <1>3 DEF InVerify
  <2>2. TypeOK'
    BY <1>1, <1>2, <2>1 DEF IInv, TypeOK, signing
  <2>3. AlphaSums' /\ Keys' /\ Grinding' /\ Callers' /\ Received'
    BY <1>1, <2>1, VerifyFrame
  <2>4. Parsed'
    BY <1>1, <1>3, <2>1, QueryFrame DEF Parsed
  <2>5. Recomputed' /\ Judged'
    BY <2>1 DEF Recomputed, Judged, AcceptedOpensChallenge
  <2> QED BY <2>2, <2>3, <2>4, <2>5 DEF IInv
<1>4. CASE ~challenge'.grinding
  <2>1. ~Untouched
    BY <1>1, <1>4, UntouchedQuery
  <2>2. TypeOK'
    BY <1>1, <1>2, <1>4 DEF IInv, TypeOK, signing, Return, Idle
  <2> QED BY <1>1, <1>4, <2>1, <2>2, RefusedStep
<1> QED BY <1>3, <1>4

(* The types of what verify computes at a point.                           *)
LEMMA OpenedType ==
  ASSUME given \in Transcript, challenge \in Answer, NEW e \in Execution
  PROVE  PointOf(e) \in Elem /\ OpenedX(e) \in Vec /\ OpenedU(e) \in Row
<1>1. PointOf(e) \in Elem
  BY RingFacts DEF PointOf, Answer
<1>2. /\ given.opening.lines[e] \in Line /\ given.opening.secret \in Vec
  BY FormFacts DEF Transcript
<1>3. /\ given.opening.lines[e].x \in Vec /\ given.opening.lines[e].uZero \in Row
      /\ given.opening.lines[e].uOne \in Row
  BY <1>2, LineType
<1>4. OpenedX(e) \in Vec
  BY <1>1, <1>2, <1>3, FormFacts DEF OpenedX
<1>5. OpenedU(e) \in Row
  <2>1. \A c \in Component :
          Plus(given.opening.lines[e].uZero[c],
               Times(PointOf(e), given.opening.lines[e].uOne[c])) \in Elem
    BY <1>1, <1>3, RingType DEF Row
  <2> QED BY <2>1 DEF OpenedU, Row
<1> QED BY <1>1, <1>4, <1>5

LEMMA EvaluateOpeningStep == IInv /\ EvaluateOpening => IInv'
<1> SUFFICES ASSUME IInv, EvaluateOpening PROVE IInv'
  OBVIOUS
<1>1. /\ pc = "opening" /\ pc \in InVerify
      /\ UNCHANGED <<caller, signing, given, challenge>>
  BY DEF EvaluateOpening, InVerify
<1>2. given \in Transcript /\ challenge \in Answer
  BY <1>1, GivenType DEF IInv, TypeOK
<1>3. CASE OpeningAccepted
  <2>1. /\ pc' = "recompute" /\ pc' \in InVerify /\ execution' = 0 /\ equation' = 0
        /\ seen' = [e \in Execution |-> OpenedU(e)]
    BY <1>3 DEF EvaluateOpening, StartExecution, InVerify
  <2>2. TypeOK'
    <3>1. seen' \in [Execution -> Row]
      BY <1>2, <2>1, OpenedType
    <3>2. 0 \in 0 .. Tau /\ 0 \in 0 .. EquationCount
      BY SizeFacts
    <3> QED BY <1>1, <2>1, <3>1, <3>2 DEF IInv, TypeOK, signing
  <2>3. AlphaSums' /\ Keys' /\ Grinding' /\ Callers' /\ Received'
    BY <1>1, <2>1, VerifyFrame
  <2>4. Parsed'
    BY <1>1, <1>3, QueryFrame DEF IInv, Parsed, OpeningAccepted
  <2>5. Recomputed'
    <3> SUFFICES ASSUME Faithful', NEW e \in Execution PROVE OnLine(e, 0)' /\ ~(e < 0)
      BY <2>1 DEF Recomputed
    <3>1. ~(e < 0)
      BY SizeFacts DEF Execution
    <3>2. given.opening.lines[e] = lines[e]
      BY <1>1, SignedFrame DEF Faithful, SignedOpening
    <3>3. alpha[e][0] = [zero |-> lines[e].uZero, one |-> lines[e].uOne]
      BY <1>1 DEF IInv, AlphaSums, Committed, Summed
    <3>4. seen'[e] = OpenedU(e)
      BY <2>1
    <3>5. alpha' = alpha /\ PointOf(e)' = PointOf(e)
      BY <1>1 DEF signing, PointOf
    <3> QED BY <3>1, <3>2, <3>3, <3>4, <3>5 DEF OnLine, OpenedU
  <2>6. Judged'
    BY <2>1 DEF Judged, AcceptedOpensChallenge
  <2> QED BY <2>2, <2>3, <2>4, <2>5, <2>6 DEF IInv
<1>4. CASE ~OpeningAccepted
  <2>1. Return(FALSE) /\ UNCHANGED <<execution, equation, seen>>
    BY <1>4 DEF EvaluateOpening, loops
  <2>2. ~Untouched
    BY <1>1, <1>4, UntouchedOpening
  <2>3. TypeOK'
    BY <1>1, <2>1 DEF IInv, TypeOK, signing, Return, Idle
  <2> QED BY <1>1, <2>1, <2>2, <2>3, RefusedStep
<1> QED BY <1>3, <1>4

(* What verify recomputes for an equation is what sign evaluated on the    *)
(* line: the terms quadratic in the point cancel.                          *)
RecomputedZ(e, q) ==
  Plus(Plus(Form(given.seed, q, OpenedX(e), OpenedX(e)),
            Times(PointOf(e), Linear(given.seed, q, OpenedX(e)))),
       Times(Times(PointOf(e), PointOf(e)), given.output[q]))

LEMMA RecomputedType ==
  ASSUME given \in Transcript, challenge \in Answer, NEW e \in Execution, NEW q \in Equation
  PROVE  RecomputedZ(e, q) \in Elem
<1>1. /\ PointOf(e) \in Elem /\ OpenedX(e) \in Vec
      /\ given.seed \in Seed /\ given.output[q] \in Elem
  BY OpenedType DEF Transcript
<1>2. Form(given.seed, q, OpenedX(e), OpenedX(e)) \in Elem /\ Linear(given.seed, q, OpenedX(e)) \in Elem
  BY <1>1, FormType
<1> QED BY <1>1, <1>2, RingType DEF RecomputedZ

(* Forms on a line.                                                        *)
LEMMA FormLine ==
  ASSUME NEW d \in Seed, NEW q \in Equation, NEW x \in Vec, NEW y \in Vec, NEW z \in Vec,
         NEW p \in Elem
  PROVE  /\ Form(d, q, VPlus(x, VTimes(p, y)), z)
              = Plus(Form(d, q, x, z), Times(p, Form(d, q, y, z)))
         /\ Form(d, q, z, VPlus(x, VTimes(p, y)))
              = Plus(Form(d, q, z, x), Times(p, Form(d, q, z, y)))
         /\ Linear(d, q, VPlus(x, VTimes(p, y))) = Plus(Linear(d, q, x), Times(p, Linear(d, q, y)))
<1>1. \A d1 \in Seed, q1 \in Equation, x1, y1, z1 \in Vec, p1 \in Elem :
        LET v == VPlus(x1, VTimes(p1, y1))
        IN /\ Form(d1, q1, v, z1) = Plus(Form(d1, q1, x1, z1), Times(p1, Form(d1, q1, y1, z1)))
           /\ Form(d1, q1, z1, v) = Plus(Form(d1, q1, z1, x1), Times(p1, Form(d1, q1, z1, y1)))
           /\ Linear(d1, q1, v) = Plus(Linear(d1, q1, x1), Times(p1, Linear(d1, q1, y1)))
  BY FormFacts
<1> QED BY <1>1

LEMMA RecomputedLine ==
  ASSUME IInv, pc \in InVerify, Faithful, NEW e \in Execution, NEW q \in Equation
  PROVE  RecomputedZ(e, q) = Plus(ZZero(e, q), Times(PointOf(e), ZOne(e, q)))
<1>1. given \in Transcript /\ challenge \in Answer
  BY GivenType DEF IInv, TypeOK
<1>2. PICK p \in Elem, d \in Seed, x \in Vec, s \in Vec :
        /\ p = PointOf(e) /\ d = key.seed /\ x = lines[e].x /\ s = key.secret
  BY <1>1, OpenedType, LineType, FormFacts DEF IInv, TypeOK
<1>3. PICK v \in Vec : v = VPlus(x, VTimes(p, s))
  BY FormFacts
<1>4. OpenedX(e) = v /\ given.seed = d /\ given.output = EvaluateBase(d, s)
  BY <1>2, <1>3 DEF OpenedX, Faithful, SignedOpening, IInv, Keys, Consistent, Committed, InVerify
<1>5. PICK fxx, fxs, fsx, fss, lx, ls \in Elem :
        /\ fxx = Form(d, q, x, x) /\ fxs = Form(d, q, x, s) /\ fsx = Form(d, q, s, x)
        /\ fss = Form(d, q, s, s) /\ lx = Linear(d, q, x) /\ ls = Linear(d, q, s)
  BY FormType
<1>6. Linear(d, q, v) = Plus(lx, Times(p, ls))
  BY <1>3, <1>5, FormLine
<1>7. Form(d, q, v, v) = Plus(Plus(fxx, Times(p, fxs)), Times(p, Plus(fsx, Times(p, fss))))
  <2>1. Form(d, q, v, v) = Plus(Form(d, q, x, v), Times(p, Form(d, q, s, v)))
    BY <1>3, FormLine
  <2>2. Form(d, q, x, v) = Plus(fxx, Times(p, fxs))
    BY <1>3, <1>5, FormLine
  <2>3. Form(d, q, s, v) = Plus(fsx, Times(p, fss))
    BY <1>3, <1>5, FormLine
  <2> QED BY <2>1, <2>2, <2>3
<1>8. given.output[q] = Plus(fss, ls)
  BY <1>4, <1>5 DEF EvaluateBase
<1>9. RecomputedZ(e, q) = Plus(Plus(Form(d, q, v, v), Times(p, Linear(d, q, v))),
                               Times(Times(p, p), Plus(fss, ls)))
  BY <1>2, <1>4, <1>8 DEF RecomputedZ
<1>10. ZZero(e, q) = fxx /\ ZOne(e, q) = Plus(fxs, Plus(fsx, lx))
  BY <1>2, <1>5 DEF ZZero, ZOne
<1>11. Plus(Plus(Plus(Plus(fxx, Times(p, fxs)), Times(p, Plus(fsx, Times(p, fss)))),
                 Times(p, Plus(lx, Times(p, ls)))),
            Times(Times(p, p), Plus(fss, ls)))
         = Plus(fxx, Times(p, Plus(fxs, Plus(fsx, lx))))
  <2> DEFINE B == Times(p, fxs)  C == Times(p, fsx)  D == Times(Times(p, p), fss)
             E == Times(p, lx)  G == Times(Times(p, p), ls)
  <2>1. B \in Elem /\ C \in Elem /\ D \in Elem /\ E \in Elem /\ G \in Elem
        /\ Times(p, fss) \in Elem /\ Times(p, ls) \in Elem /\ Times(p, p) \in Elem
    BY RingType
  <2>2. Times(p, Plus(fsx, Times(p, fss))) = Plus(C, D)
    <3>1. Times(p, Times(p, fss)) = D
      BY RingFacts
    <3> QED BY <2>1, <3>1, Distribute
  <2>3. Times(p, Plus(lx, Times(p, ls))) = Plus(E, G)
    <3>1. Times(p, Times(p, ls)) = G
      BY RingFacts
    <3> QED BY <2>1, <3>1, Distribute
  <2>4. Times(Times(p, p), Plus(fss, ls)) = Plus(D, G)
    BY <2>1, Distribute
  <2>5. Times(p, Plus(fxs, Plus(fsx, lx))) = Plus(B, Plus(C, E))
    BY RingType, Distribute
  <2> HIDE DEF B, C, D, E, G
  <2>6. Plus(Plus(Plus(fxx, B), Plus(C, D)), Plus(E, G))
          = Plus(Plus(Plus(fxx, B), Plus(C, E)), Plus(D, G))
    <3>1. Plus(fxx, B) \in Elem /\ Plus(C, D) \in Elem /\ Plus(E, G) \in Elem
          /\ Plus(C, E) \in Elem /\ Plus(D, G) \in Elem
      BY <2>1, RingType
    <3>2. Plus(Plus(Plus(fxx, B), Plus(C, D)), Plus(E, G))
            = Plus(Plus(fxx, B), Plus(Plus(C, D), Plus(E, G)))
      BY <3>1, PlusAssoc
    <3>3. Plus(Plus(C, D), Plus(E, G)) = Plus(Plus(C, E), Plus(D, G))
      BY <2>1, Medial
    <3>4. Plus(Plus(Plus(fxx, B), Plus(C, E)), Plus(D, G))
            = Plus(Plus(fxx, B), Plus(Plus(C, E), Plus(D, G)))
      BY <3>1, PlusAssoc
    <3> QED BY <3>2, <3>3, <3>4
  <2>7. Plus(Plus(Plus(Plus(fxx, B), Plus(C, E)), Plus(D, G)), Plus(D, G))
          = Plus(Plus(fxx, B), Plus(C, E))
    BY <2>1, RingType, PlusCancel
  <2>8. Plus(Plus(fxx, B), Plus(C, E)) = Plus(fxx, Plus(B, Plus(C, E)))
    BY <2>1, RingType, PlusAssoc
  <2> QED BY <2>2, <2>3, <2>4, <2>5, <2>6, <2>7, <2>8 DEF B
<1> QED BY <1>2, <1>6, <1>7, <1>9, <1>10, <1>11

LEMMA RecomputeEquationStep == IInv /\ RecomputeEquation => IInv'
<1> SUFFICES ASSUME IInv, RecomputeEquation PROVE IInv'
  OBVIOUS
<1>1. PICK e \in Execution, q \in Equation : e = execution /\ q = equation
  BY SizeFacts DEF IInv, TypeOK, RecomputeEquation, Execution, Equation
<1>2. /\ pc = "recompute" /\ pc' = "recompute" /\ pc \in InVerify /\ pc' \in InVerify
      /\ execution' = e /\ equation' = q + 1
      /\ UNCHANGED <<caller, signing, given, challenge>>
  BY <1>1 DEF RecomputeEquation, InVerify
<1>3. PICK row \in Row : row = seen[e]
  BY DEF IInv, TypeOK
<1>4. seen' = [seen EXCEPT ![e] = Batch(row, q, RecomputedZ(e, q))]
  BY <1>1, <1>3 DEF RecomputeEquation, RecomputedZ
<1>5. given \in Transcript /\ challenge \in Answer /\ batching \in Batching
  BY <1>2, GivenType DEF IInv, TypeOK
<1>6. PICK z \in Elem : z = RecomputedZ(e, q)
  BY <1>5, RecomputedType
<1>7. /\ Batch(row, q, z) \in Row
      /\ \A c \in Component : Batch(row, q, z)[c] = Plus(row[c], Times(batching[c][q], z))
      /\ \A c \in Component : batching[c][q] \in Elem
  BY <1>5, BatchType
<1>8. /\ q \in Nat /\ q \in 0 .. EquationCount /\ q + 1 \in 0 .. EquationCount
      /\ q \in 0 .. EquationCount - 1
  BY SizeFacts DEF Equation
<1>9. TypeOK'
  <2>1. seen' \in [Execution -> Row]
    BY <1>4, <1>6, <1>7 DEF IInv, TypeOK
  <2>2. execution' \in 0 .. Tau
    BY <1>1, <1>2 DEF IInv, TypeOK
  <2> QED BY <1>2, <1>8, <2>1, <2>2 DEF IInv, TypeOK, signing
<1>10. Parsed'
  BY <1>2, QueryFrame DEF IInv, Parsed, OpeningAccepted
<1>11. Recomputed'
  <2> SUFFICES ASSUME Faithful', NEW d \in Execution
               PROVE  IF d < e THEN seen'[d] = alpha'[d][EquationCount].zero
                      ELSE OnLine(d, IF d = e THEN q + 1 ELSE 0)'
    BY <1>2 DEF Recomputed
  <2>1. Faithful /\ alpha' = alpha /\ \A i : PointOf(i)' = PointOf(i)
    BY <1>2, SignedFrame DEF Faithful, signing, PointOf
  <2>2. IF d < e THEN seen[d] = alpha[d][EquationCount].zero
        ELSE OnLine(d, IF d = e THEN q ELSE 0)
    BY <1>1, <1>2, <2>1 DEF IInv, Recomputed
  <2>3. CASE d # e
    <3>1. seen'[d] = seen[d]
      BY <1>4, <2>3 DEF IInv, TypeOK
    <3> QED BY <2>1, <2>2, <2>3, <3>1 DEF OnLine
  <2>4. CASE d = e
    <3>1. ~(d < e)
      BY <2>4 DEF Execution
    <3>2. OnLine(e, q)
      BY <2>2, <2>4, <3>1
    <3>3. PICK a \in Row, b \in Row : a = alpha[e][q].zero /\ b = alpha[e][q].one
      BY <1>8, AlphaType DEF IInv
    <3>4. PICK p \in Elem, z0 \in Elem, z1 \in Elem :
            p = PointOf(e) /\ z0 = ZZero(e, q) /\ z1 = ZOne(e, q)
      BY <1>5, OpenedType, ZType DEF IInv
    <3>5. z = Plus(z0, Times(p, z1))
      BY <1>2, <1>6, <2>1, <3>4, RecomputedLine
    <3>6. alpha[e][q + 1] = [zero |-> Batch(a, q, z0), one |-> Batch(b, q, z1)]
      BY <1>2, <1>8, <3>3, <3>4 DEF IInv, AlphaSums, Summed, Committed
    <3>7. \A c \in Component : row[c] = Plus(a[c], Times(p, b[c]))
      BY <1>3, <3>2, <3>3, <3>4 DEF OnLine
    <3>8. ASSUME NEW c \in Component
          PROVE  Batch(row, q, z)[c]
                   = Plus(Batch(a, q, z0)[c], Times(p, Batch(b, q, z1)[c]))
      <4>1. PICK g \in Elem : g = batching[c][q]
        BY <1>7
      <4>2. PICK ac \in Elem, bc \in Elem : ac = a[c] /\ bc = b[c]
        BY DEF Row
      <4>3. Batch(row, q, z)[c] = Plus(Plus(ac, Times(p, bc)), Times(g, Plus(z0, Times(p, z1))))
        BY <1>7, <3>5, <3>7, <4>1, <4>2
      <4>4. Batch(a, q, z0)[c] = Plus(ac, Times(g, z0))
        BY <4>1, <4>2 DEF Batch
      <4>5. Batch(b, q, z1)[c] = Plus(bc, Times(g, z1))
        BY <4>1, <4>2 DEF Batch
      <4>6. Plus(Plus(ac, Times(p, bc)), Times(g, Plus(z0, Times(p, z1))))
              = Plus(Plus(ac, Times(g, z0)), Times(p, Plus(bc, Times(g, z1))))
        BY BatchedLine
      <4> QED BY <4>3, <4>4, <4>5, <4>6
    <3>9. seen'[e] = Batch(row, q, z)
      BY <1>4, <1>6 DEF IInv, TypeOK
    <3>10. Batch(row, q, z)
             = [c \in Component |-> Plus(Batch(a, q, z0)[c], Times(p, Batch(b, q, z1)[c]))]
      BY <1>7, <3>8 DEF Row
    <3>11. OnLine(e, q + 1)'
      BY <1>8, <2>1, <3>4, <3>6, <3>9, <3>10 DEF OnLine
    <3> QED BY <2>4, <3>1, <3>11
  <2> QED BY <2>3, <2>4
<1>12. Judged'
  BY <1>2 DEF Judged, AcceptedOpensChallenge
<1>13. AlphaSums' /\ Keys' /\ Grinding' /\ Callers' /\ Received'
  BY <1>2, VerifyFrame
<1> QED BY <1>9, <1>10, <1>11, <1>12, <1>13 DEF IInv

LEMMA RecomputeExecutionStep == IInv /\ RecomputeExecution => IInv'
<1> SUFFICES ASSUME IInv, RecomputeExecution PROVE IInv'
  OBVIOUS
<1>1. PICK e \in Execution : e = execution
  BY SizeFacts DEF IInv, TypeOK, RecomputeExecution, Execution
<1>2. /\ pc = "recompute" /\ pc' = "recompute" /\ pc \in InVerify /\ pc' \in InVerify
      /\ equation = EquationCount /\ execution' = e + 1 /\ equation' = 0
      /\ UNCHANGED <<caller, signing, given, challenge>>
  BY <1>1 DEF RecomputeExecution, StartExecution, InVerify
<1>3. given \in Transcript /\ challenge \in Answer
  BY <1>2, GivenType DEF IInv, TypeOK
<1>4. PICK p \in Elem, row \in Row, o \in Row :
        p = PointOf(e) /\ row = seen[e] /\ o = given.alphaOne[e]
  BY <1>3, OpenedType DEF IInv, TypeOK, Transcript
<1>5. seen' = [seen EXCEPT ![e] = [c \in Component |-> Plus(row[c], Times(p, o[c]))]]
  BY <1>1, <1>4 DEF RecomputeExecution
<1>6. [c \in Component |-> Plus(row[c], Times(p, o[c]))] \in Row
  <2>1. \A c \in Component : Plus(row[c], Times(p, o[c])) \in Elem
    BY RingType DEF Row
  <2> QED BY <2>1 DEF Row
<1>7. TypeOK'
  <2>1. seen' \in [Execution -> Row]
    BY <1>5, <1>6 DEF IInv, TypeOK
  <2>2. e + 1 \in 0 .. Tau /\ 0 \in 0 .. EquationCount
    BY SizeFacts DEF Execution
  <2> QED BY <1>2, <2>1, <2>2 DEF IInv, TypeOK, signing
<1>8. Parsed'
  BY <1>2, QueryFrame DEF IInv, Parsed, OpeningAccepted
<1>9. Recomputed'
  <2> SUFFICES ASSUME Faithful', NEW d \in Execution
               PROVE  IF d < e + 1 THEN seen'[d] = alpha'[d][EquationCount].zero
                      ELSE OnLine(d, IF d = e + 1 THEN 0 ELSE 0)'
    BY <1>2 DEF Recomputed
  <2>1. Faithful /\ alpha' = alpha /\ \A i : PointOf(i)' = PointOf(i)
    BY <1>2, SignedFrame DEF Faithful, signing, PointOf
  <2>2. IF d < e THEN seen[d] = alpha[d][EquationCount].zero
        ELSE OnLine(d, IF d = e THEN EquationCount ELSE 0)
    BY <1>1, <1>2, <2>1 DEF IInv, Recomputed
  <2>3. d < e + 1 <=> d < e \/ d = e
    BY DEF Execution
  <2>4. CASE d # e
    <3>1. seen'[d] = seen[d]
      BY <1>5, <2>4 DEF IInv, TypeOK
    <3> QED BY <2>1, <2>2, <2>3, <2>4, <3>1 DEF OnLine
  <2>5. CASE d = e
    <3>1. OnLine(e, EquationCount)
      BY <2>2, <2>5 DEF Execution
    <3>2. PICK a \in Row : a = alpha[e][EquationCount].zero
      <4>1. EquationCount \in 0 .. EquationCount
        BY SizeFacts
      <4> QED BY <4>1, AlphaType DEF IInv
    <3>3. o = alpha[e][EquationCount].one
      BY <1>4, <2>1 DEF Faithful, AlphaOne
    <3>4. \A c \in Component : row[c] = Plus(a[c], Times(p, o[c]))
      BY <1>4, <3>1, <3>2, <3>3 DEF OnLine
    <3>5. \A c \in Component : Plus(row[c], Times(p, o[c])) = a[c]
      <4>1. \A c \in Component : a[c] \in Elem /\ Times(p, o[c]) \in Elem
        BY RingType DEF Row
      <4> QED BY <3>4, <4>1, PlusCancel
    <3>6. seen'[e] = a
      <4>1. seen'[e] = [c \in Component |-> Plus(row[c], Times(p, o[c]))]
        BY <1>5 DEF IInv, TypeOK
      <4> QED BY <3>5, <4>1 DEF Row
    <3> QED BY <2>1, <2>3, <2>5, <3>2, <3>6
  <2> QED BY <2>4, <2>5
<1>10. Judged'
  BY <1>2 DEF Judged, AcceptedOpensChallenge
<1>11. AlphaSums' /\ Keys' /\ Grinding' /\ Callers' /\ Received'
  BY <1>2, VerifyFrame
<1> QED BY <1>7, <1>8, <1>9, <1>10, <1>11 DEF IInv

LEMMA CompareAlphaStep == IInv /\ CompareAlpha => IInv'
<1> SUFFICES ASSUME IInv, CompareAlpha PROVE IInv'
  OBVIOUS
<1>1. /\ pc = "recompute" /\ pc \in InVerify /\ execution = Tau
      /\ Return([zero |-> seen, one |-> given.alphaOne] = given.second)
      /\ UNCHANGED <<caller, signing, execution, equation, given, challenge, seen>>
  BY DEF CompareAlpha, loops, verifying, InVerify
<1>2. TypeOK'
  BY <1>1 DEF IInv, TypeOK, signing, Return, Idle
<1>3. CASE [zero |-> seen, one |-> given.alphaOne] = given.second
  <2>1. pc' = IF caller = "sign" THEN "released" ELSE "accepted"
    BY <1>1, <1>3 DEF Return
  <2>2. caller \in {"sign", "user"}
    BY DEF IInv, TypeOK
  <2>3. AlphaSums' /\ Keys' /\ Grinding' /\ Callers' /\ Received'
    BY <1>1, <2>1, <2>2, VerifyFrame
  <2>4. Parsed' /\ Recomputed'
    BY <1>1, <2>1, QueryFrame DEF IInv, Parsed, OpeningAccepted, Recomputed
  <2>5. Judged'
    <3>1. \A p \in Part : given[p] # Signed[p] => p \in {"seed", "output", "message", "nonce"}
      BY <1>1, <1>3, AlphaUnaltered
    <3>2. Differences' \subseteq {"seed", "output", "message", "nonce"}
      BY <1>1, <3>1, SignedFrame DEF Differences
    <3>3. /\ challenge.grinding
          /\ given.first = FirstCommitment /\ given.opening = SignedOpening
          /\ challenge.hidden = SignedOpening.hidden
      BY <1>1, OpeningUnaltered DEF IInv, Parsed
    <3>4. AcceptedOpensChallenge'
      BY <1>1, <3>3, SignedFrame DEF AcceptedOpensChallenge, SignedOpening, signing
    <3> QED BY <2>1, <3>2, <3>4 DEF Judged
  <2> QED BY <1>2, <2>3, <2>4, <2>5 DEF IInv
<1>4. CASE [zero |-> seen, one |-> given.alphaOne] # given.second
  <2>1. Return(FALSE)
    BY <1>1, <1>4
  <2>2. ~Untouched
    <3>1. ASSUME Untouched PROVE FALSE
      <4>1. /\ seen = AlphaZero /\ given.second = SecondCommitment
            /\ given.alphaOne = AlphaOne
        BY <1>1, <3>1, UntouchedFaithful, AlphaRecomputed DEF Faithful
      <4> QED BY <1>4, <4>1 DEF SecondCommitment
    <3> QED BY <3>1
  <2> QED BY <1>1, <1>2, <2>1, <2>2, RefusedStep
<1> QED BY <1>3, <1>4

LEMMA StutterStep == IInv /\ UNCHANGED vars => IInv'
<1> SUFFICES ASSUME IInv, UNCHANGED vars PROVE IInv'
  OBVIOUS
<1>1. UNCHANGED <<pc, caller, execution, equation, key, message, salt, lines, batching, alpha,
                  answers, sourceFailed, given, challenge, seen, signing>>
  BY DEF vars, loops, signing, verifying
<1>2. TypeOK'
  BY <1>1 DEF IInv, TypeOK
<1>3. AlphaSums' /\ Keys' /\ Callers' /\ Grinding'
  <2>1. \A e, n : Summed(e, n)' = Summed(e, n)
    BY <1>1 DEF Summed, ZZero, ZOne, Batch
  <2> QED BY <1>1, <2>1 DEF IInv, AlphaSums, Keys, Callers, Consistent, Grinding, FailsOnlyByLuck
<1>4. Received' /\ Parsed'
  BY <1>1, SignedFrame, QueryFrame DEF IInv, Received, Parsed, OpeningAccepted
<1>5. Recomputed'
  <2>1. Faithful' = Faithful
    BY <1>1, SignedFrame DEF Faithful
  <2>2. \A e, n : OnLine(e, n)' = OnLine(e, n)
    BY <1>1 DEF OnLine, PointOf
  <2> QED BY <1>1, <2>1, <2>2 DEF IInv, Recomputed
<1>6. Judged'
  <2>1. Differences' = Differences
    BY <1>1, SignedFrame DEF Differences
  <2>2. AcceptedOpensChallenge' = AcceptedOpensChallenge
    BY <1>1, SignedFrame DEF AcceptedOpensChallenge
  <2> QED BY <1>1, <2>1, <2>2 DEF IInv, Judged
<1> QED BY <1>2, <1>3, <1>4, <1>5, <1>6 DEF IInv

LEMMA NextStep == IInv /\ [Next]_vars => IInv'
<1> SUFFICES ASSUME IInv, [Next]_vars PROVE IInv'
  OBVIOUS
<1>1. CASE Generate \/ GenerateFails \/ ImportKey \/ RefuseKey
  BY <1>1, GenerateStep, OnlyControlStep
<1>2. CASE DrawMasterSeed \/ DrawSalt \/ RngFails \/ CommitLines
  BY <1>2, OnlyControlStep, DrawSaltStep, CommitLinesStep
<1>3. CASE AlphaEquation \/ AlphaExecution \/ CommitAlpha
  BY <1>3, AlphaEquationStep, AlphaExecutionStep, CommitAlphaStep
<1>4. CASE TryNonce \/ NoncesExhausted \/ Open \/ Deliver
  BY <1>4, TryNonceStep, NoncesExhaustedStep, OpenStep, DeliverStep
<1>5. CASE Verify
  BY <1>5, ParseChallengeStep, EvaluateOpeningStep, RecomputeEquationStep,
     RecomputeExecutionStep, CompareAlphaStep DEF Verify
<1>6. CASE UNCHANGED vars
  BY <1>6, StutterStep
<1> QED BY <1>1, <1>2, <1>3, <1>4, <1>5, <1>6 DEF Next, Sign

-----------------------------------------------------------------------------
(* The theorems.                                                           *)

(* Every reachable state of signing and verifying (mod.rs, sign.rs,        *)
(* verify.rs) satisfies the inductive invariant.                           *)
THEOREM Invariance == Spec => []IInv
<1>1. Spec => Init /\ [][Next]_vars
  BY PTL DEF Spec
<1> QED BY <1>1, InitStep, NextStep, PTL

(* The signer's and the verifier's values keep their types: both loops of  *)
(* compute_alpha and of its recomputation stay in range.                   *)
THEOREM TypeCorrect == Spec => []TypeOK
<1>1. IInv => TypeOK
  BY DEF IInv
<1> QED BY <1>1, Invariance, PTL

(* sign never discards its own signature at its final verify (sign.rs:210): *)
(* for every key that imports, every draw and every challenge, it fails    *)
(* only when the randomness source did or no nonce passes, and it does     *)
(* fail then.                                                              *)
THEOREM SigningCorrect == Spec => []FailsOnlyByLuck
<1>1. IInv => FailsOnlyByLuck
  BY DEF IInv, Grinding
<1> QED BY <1>1, Invariance, PTL

(* The nonce of a released signature is the first whose challenge passes   *)
(* the grinding check (sign.rs:130-142).                                   *)
THEOREM NonceCorrect == Spec => []FirstNonce
<1>1. IInv => FirstNonce
  <2> SUFFICES ASSUME IInv, pc = "released"
               PROVE  /\ answers[given.nonce + 1].grinding
                      /\ \A n \in 0 .. given.nonce - 1 : ~answers[n + 1].grinding
    BY DEF FirstNonce
  <2>1. given = Signed
    BY DEF IInv, Received, Callers
  <2>2. /\ Len(answers) \in Nat /\ answers[Len(answers)].grinding
        /\ \A n \in 1 .. Len(answers) - 1 : ~answers[n].grinding
    BY DEF IInv, TypeOK, Grinding, Ground
  <2>3. given.nonce = Len(answers) - 1
    BY <2>1 DEF Signed
  <2>4. given.nonce + 1 = Len(answers)
    BY <2>2, <2>3
  <2>5. \A n \in 0 .. given.nonce - 1 : n + 1 \in 1 .. Len(answers) - 1
    BY <2>2, <2>3
  <2> QED BY <2>2, <2>4, <2>5
<1> QED BY <1>1, Invariance, PTL

(* A signature that verify accepts opens the committed lines at the opened *)
(* indices under a challenge that passed grinding (verify.rs:143-190).     *)
THEOREM AcceptanceCorrect == Spec => []AcceptedOpensChallenge
<1>1. IInv => AcceptedOpensChallenge
  BY DEF IInv, Judged
<1> QED BY <1>1, Invariance, PTL

-----------------------------------------------------------------------------
(* Signing and verifying implement the contract of the API.                *)

LEMMA PhaseFacts ==
  ASSUME IInv
  PROVE  /\ pc \in {"start"} \cup InSign => Phase = "idle" /\ Differences = {}
         /\ pc \in {"failed", "inconsistent"} => Phase = "failed" /\ Differences = {}
         /\ pc = "released" => Phase = "released" /\ Differences = {}
         /\ pc \in InVerify /\ caller = "sign" => Phase = "idle" /\ Differences = {}
         /\ pc \in InVerify /\ caller = "user" => Phase = "delivered"
         /\ Differences \subseteq Part
BY DEF IInv, Callers, Phase, Differences, InSign, InVerify

LEMMA ContractInit == Init => Contract!Init
BY DEF Init, Contract!Init, Phase, Differences

LEMMA DifferencesFrame ==
  ASSUME UNCHANGED <<signing, caller, given>>
  PROVE  Differences' = Differences
BY SignedFrame DEF Differences

LEMMA ContractNext == IInv /\ IInv' /\ [Next]_vars => [Contract!Next]_(Contract!vars)
<1> SUFFICES ASSUME IInv, IInv', [Next]_vars PROVE [Contract!Next]_(Contract!vars)
  OBVIOUS
<1> USE DEF Contract!Next, Contract!vars
<1>0. pc = "start" => caller = "sign"
  BY DEF IInv, Callers
<1>1. CASE Generate \/ ImportKey \/ DrawMasterSeed \/ DrawSalt \/ CommitLines
           \/ AlphaEquation \/ AlphaExecution \/ CommitAlpha \/ TryNonce \/ Open
  <2>1. /\ pc \in {"start"} \cup InSign
        /\ \/ pc' \in {"master_seed", "salt", "commit", "alpha", "grind", "open"}
           \/ pc' = "challenge" /\ caller' = "sign"
    <3>1. CASE Generate \/ ImportKey \/ DrawMasterSeed \/ DrawSalt \/ CommitLines
      BY <3>1 DEF Generate, ImportKey, DrawMasterSeed, DrawSalt, CommitLines, InSign
    <3>2. CASE AlphaEquation \/ AlphaExecution \/ CommitAlpha
      BY <3>2 DEF AlphaEquation, AlphaExecution, CommitAlpha, InSign
    <3>3. CASE TryNonce
      <4>1. PICK a \in Answer : pc' = IF a.grinding THEN "open" ELSE "grind"
        BY <3>3 DEF TryNonce
      <4> QED BY <3>3, <4>1 DEF TryNonce, InSign
    <3>4. CASE Open
      BY <3>4 DEF Open, InSign
    <3> QED BY <1>1, <3>1, <3>2, <3>3, <3>4
  <2>2. Phase' = "idle" /\ Differences' = {}
    BY <2>1, PhaseFacts DEF InSign, InVerify, Phase, Differences, IInv, Callers
  <2>3. Phase = "idle" /\ Differences = {}
    BY <2>1, PhaseFacts
  <2> QED BY <2>2, <2>3
<1>2. CASE GenerateFails \/ RefuseKey \/ RngFails \/ NoncesExhausted
  <2>1. pc \in {"start"} \cup InSign /\ pc' \in {"failed", "inconsistent"}
    BY <1>2 DEF GenerateFails, RefuseKey, RngFails, NoncesExhausted, InSign
  <2>2. Phase = "idle" /\ Differences = {}
    BY <2>1, PhaseFacts
  <2>3. Phase' = "failed" /\ Differences' = {}
    BY <2>1 DEF Phase, Differences, IInv, Callers
  <2> QED BY <2>2, <2>3 DEF Contract!Fail
<1>3. CASE Deliver
  <2>1. pc = "released" /\ pc' = "challenge" /\ caller' = "user"
    BY <1>3 DEF Deliver
  <2>2. Phase = "released" /\ Phase' = "delivered"
    BY <2>1 DEF Phase
  <2>3. Differences' \in SUBSET Part
    BY DEF Differences
  <2> QED BY <2>2, <2>3 DEF Contract!Deliver
<1>4. CASE Verify
  <2>1. /\ pc \in InVerify /\ UNCHANGED <<signing, caller, given>>
        /\ pc' \in InVerify \cup {"released", "failed", "accepted", "rejected"}
    BY <1>4 DEF Verify, ParseChallenge, EvaluateOpening, RecomputeEquation, RecomputeExecution,
       CompareAlpha, Return, InVerify, verifying
  <2>2. Differences' = Differences
    BY <2>1, DifferencesFrame
  <2>3. pc # "failed" /\ caller \in {"sign", "user"}
    BY <2>1 DEF InVerify, IInv, TypeOK
  <2>4. CASE pc' \in InVerify
    <3>1. Phase' = Phase
      BY <2>1, <2>4 DEF Phase, InVerify
    <3> QED BY <2>2, <3>1
  <2>5. CASE pc' \in {"released", "failed"}
    <3>1. caller = "sign"
      BY <2>1, <2>5 DEF IInv, Callers
    <3>2. Phase = "idle"
      BY <2>1, <3>1 DEF Phase, InVerify
    <3>3. Phase' = pc'
      BY <2>5 DEF Phase
    <3> QED BY <2>2, <2>5, <3>2, <3>3 DEF Contract!Release, Contract!Fail
  <2>6. CASE pc' = "accepted"
    <3>1. caller = "user"
      BY <2>1, <2>6 DEF IInv, Callers
    <3>2. Phase = "delivered" /\ Phase' = "accepted"
      BY <2>1, <2>6, <3>1 DEF Phase, InVerify
    <3>3. Differences \subseteq {"seed", "output", "message", "nonce"}
      BY <2>2, <2>6 DEF IInv, Judged
    <3> QED BY <2>2, <3>2, <3>3 DEF Contract!Accept, Contract!Challenged
  <2>7. CASE pc' = "rejected"
    <3>1. caller = "user"
      BY <2>1, <2>7 DEF IInv, Callers
    <3>2. Phase = "delivered" /\ Phase' = "rejected"
      BY <2>1, <2>7, <3>1 DEF Phase, InVerify
    <3>3. Differences # {}
      BY <2>2, <2>7 DEF IInv, Judged
    <3> QED BY <2>2, <3>2, <3>3 DEF Contract!Reject
  <2> QED BY <2>1, <2>4, <2>5, <2>6, <2>7
<1>5. CASE UNCHANGED vars
  <2>1. Phase' = Phase /\ Differences' = Differences
    BY <1>5, DifferencesFrame DEF Phase, vars, verifying
  <2> QED BY <2>1
<1> QED BY <1>1, <1>2, <1>3, <1>4, <1>5 DEF Next, Sign

(* Signing and verifying implement the contract of the API (mod.rs): an    *)
(* untouched signature verifies, and one altered in any part but the       *)
(* public key, the message or the nonce is refused.                        *)
THEOREM ContractCorrect == Spec => ContractSpec
<1>1. Spec => Init /\ [][Next]_vars
  BY PTL DEF Spec
<1>2. Spec => []IInv
  BY Invariance
<1> QED BY <1>1, <1>2, ContractInit, ContractNext, PTL DEF ContractSpec, Contract!Spec
=============================================================================
