----------------------------- MODULE Signature ------------------------------
(***************************************************************************)
(* Signing and verifying (mod.rs, keygen.rs, sign.rs, verify.rs): a key is *)
(* generated or imported, sign draws its randomness, commits to lines,     *)
(* evaluates the equations on them, grinds a nonce, opens, and verifies    *)
(* its own signature before it releases it; a caller then verifies it,     *)
(* untouched or altered in one place.  verify runs the same steps for both *)
(* callers.                                                                *)
(*                                                                         *)
(* The line commitment enters by its contract (LineCommitment): an         *)
(* opening evaluates the committed lines at its points (OpenedOnLine) and  *)
(* is refused unless it is the opening of what was committed, at the       *)
(* indices asked for (AcceptedIsCommitted).  Digests are ideal, so a       *)
(* commitment is what it commits to.  The challenge stream is a random     *)
(* oracle: any answer, the same for the same hash and nonce.  Of an        *)
(* answer the model keeps whether its grinding bits are zero and the       *)
(* hidden indices.  The field is any ring of characteristic two, and the   *)
(* equations are any forms over it (QuadraticSystem).                      *)
(***************************************************************************)
EXTENDS QuadraticSystem, Sequences

CONSTANTS
  Tau, MaxNonce,                      \* MaxNonce bounds the nonce (u32::MAX)
  Index, Component,                   \* 0 .. NB_EVALS - 1, 0 .. ETA - 1
  Point(_),                           \* the point of an index: its Gray code
  Line,                               \* lines a master seed can expand to
  Batching,                           \* rows of batching coefficients
  Salt, Message

Execution == 0 .. Tau - 1
Row == [Component -> Elem]

ASSUME SizeAssumption ==
  /\ Tau \in Nat \ {0} /\ EquationCount \in Nat \ {0} /\ MaxNonce \in Nat
  /\ Index # {} /\ Salt # {} /\ Line # {} /\ Batching # {}

ASSUME RingAssumption == RingLaws /\ \A i \in Index : Point(i) \in Elem

ASSUME FormAssumption == FormLaws

ASSUME LineAssumption ==
  /\ Line \subseteq [x : Vec, uZero : Row, uOne : Row]
  /\ Batching \subseteq [Component -> [Equation -> Elem]]

Answer == [grinding : BOOLEAN, hidden : [Execution -> Index]]

(* x^T A x + b^T x of every equation: PackedEquation::evaluate_base.       *)
EvaluateBase(seed, secret) ==
  [q \in Equation |-> Plus(Form(seed, q, secret, secret), Linear(seed, q, secret))]

KeyPair(seed, secret) ==
  [seed |-> seed, output |-> EvaluateBase(seed, secret), secret |-> secret]

Consistent(key) == key.output = EvaluateBase(key.seed, key.secret)

VARIABLES
  pc, caller,                   \* control: the step, and who called verify
  execution, equation,          \* the loops of compute_alpha and of its inverse
  key, message,                 \* the signer's inputs
  salt, lines, batching,        \* what signing draws and derives
  alpha,                        \* alpha zero and one, after each equation
  answers,                      \* challenge stream for nonces 0, 1, ...
  sourceFailed,                 \* history: the randomness source has failed
  given,                        \* what verify was called with
  challenge, seen               \* verify's locals: challenge, alpha zero

signing == <<key, message, salt, lines, batching, alpha, answers, sourceFailed>>
loops == <<execution, equation>>
verifying == <<given, challenge, seen>>
vars == <<pc, caller, loops, signing, verifying>>

NoRow == [c \in Component |-> Zero]
NoAlpha == [zero |-> NoRow, one |-> NoRow]

(* The parts of a signature, and what verify is called with.               *)
FirstCommitment == [salt |-> salt, lines |-> lines, secret |-> key.secret]
AlphaZero == [e \in Execution |-> alpha[e][EquationCount].zero]
AlphaOne == [e \in Execution |-> alpha[e][EquationCount].one]
SecondCommitment == [zero |-> AlphaZero, one |-> AlphaOne]

SignedOpening ==
  [lines |-> lines, secret |-> key.secret, hidden |-> answers[Len(answers)].hidden]

Signed ==
  [seed |-> key.seed, output |-> key.output, message |-> message,
   salt |-> salt, first |-> FirstCommitment, second |-> SecondCommitment,
   alphaOne |-> AlphaOne, opening |-> SignedOpening, nonce |-> Len(answers) - 1]

(* The Fiat-Shamir hash: what sign absorbs, and what verify does.          *)
FiatShamirSigned == <<key.seed, key.output, FirstCommitment, SecondCommitment, message>>

(* Fault: verify absorbs the two commitments in the other order. *)
FiatShamirVerified_Swapped(g) == <<g.seed, g.output, g.second, g.first, g.message>>

FiatShamirVerified(g) == <<g.seed, g.output, g.first, g.second, g.message>>

(* The challenge stream at a hash and nonce, as verify reads it.           *)
Query(g) ==
  IF FiatShamirVerified(g) = FiatShamirSigned /\ g.nonce < Len(answers)
  THEN {answers[g.nonce + 1]} ELSE Answer

Init ==
  /\ pc = "start" /\ caller = "sign" /\ execution = 0 /\ equation = 0
  /\ key \in [seed : Seed, output : [Equation -> Elem], secret : Secret]
  /\ message \in Message
  /\ salt = (CHOOSE s \in Salt : TRUE)
  /\ lines = [e \in Execution |-> CHOOSE l \in Line : TRUE]
  /\ batching = (CHOOSE b \in Batching : TRUE)
  /\ alpha = [e \in Execution |-> [q \in 0 .. EquationCount |-> NoAlpha]]
  /\ answers = <<>> /\ sourceFailed = FALSE
  /\ given = <<>>
  /\ challenge = [grinding |-> FALSE,
                  hidden |-> [e \in Execution |-> CHOOSE i \in Index : TRUE]]
  /\ seen = [e \in Execution |-> NoRow]

-----------------------------------------------------------------------------
(* SigningKey::generate and SigningKey::from_slice *)

Generate ==
  /\ pc = "start" /\ pc' = "master_seed"
  /\ \E d \in Seed, s \in Secret : key' = KeyPair(d, s)
  /\ UNCHANGED <<caller, loops, message, salt, lines, batching, alpha, answers,
                 sourceFailed, verifying>>

ImportKey ==
  /\ pc = "start" /\ Consistent(key) /\ pc' = "master_seed"
  /\ UNCHANGED <<caller, loops, signing, verifying>>

RefuseKey ==
  /\ pc = "start" /\ ~Consistent(key) /\ pc' = "inconsistent"
  /\ UNCHANGED <<caller, loops, signing, verifying>>

(* The randomness source fails. *)
SourceFails ==
  /\ sourceFailed' = TRUE
  /\ UNCHANGED <<caller, loops, key, message, salt, lines, batching, alpha, answers, verifying>>

GenerateFails == pc = "start" /\ pc' = "failed" /\ SourceFails

-----------------------------------------------------------------------------
(* try_sign_inner, then sign *)

(* Fault: the result of the draw is not looked at. *)
RngFails_Ignored ==
  \/ pc = "master_seed" /\ pc' = "salt" /\ SourceFails
  \/ pc = "salt" /\ pc' = "commit" /\ SourceFails

RngFails == pc \in {"master_seed", "salt"} /\ pc' = "failed" /\ SourceFails

DrawMasterSeed ==
  /\ pc = "master_seed" /\ pc' = "salt"
  /\ UNCHANGED <<caller, loops, signing, verifying>>

DrawSalt ==
  /\ pc = "salt" /\ pc' = "commit"
  /\ salt' \in Salt
  /\ UNCHANGED <<caller, loops, key, message, lines, batching, alpha, answers,
                 sourceFailed, verifying>>

StartExecution(e) == execution' = e /\ equation' = 0

(* The lines come from the master seed and the salt, the batching from the *)
(* commitment; alpha starts from the masks.                                *)
CommitLines ==
  /\ pc = "commit" /\ pc' = "alpha"
  /\ lines' \in [Execution -> Line] /\ batching' \in Batching
  /\ alpha' = [e \in Execution |-> [q \in 0 .. EquationCount |->
       IF q = 0 THEN [zero |-> lines'[e].uZero, one |-> lines'[e].uOne] ELSE NoAlpha]]
  /\ StartExecution(0)
  /\ UNCHANGED <<caller, key, message, salt, answers, sourceFailed, verifying>>

(* One more equation in a batched sum. *)
Batch(row, q, z) == [c \in Component |-> Plus(row[c], Times(batching[c][q], z))]

(* Fault: the equation loop runs once too often. *)
AlphaEquation_OnePast ==
  /\ pc = "alpha" /\ execution < Tau /\ equation <= EquationCount
  /\ equation' = equation + 1
  /\ UNCHANGED <<pc, caller, execution, signing, verifying>>

AlphaEquation ==
  /\ pc = "alpha" /\ execution < Tau /\ equation < EquationCount
  /\ LET x == lines[execution].x
         F(a, b) == Form(key.seed, equation, a, b)
         zZero == F(x, x)
         zOne == Plus(F(x, key.secret),
                      Plus(F(key.secret, x), Linear(key.seed, equation, x)))
         sums == alpha[execution][equation]
     IN alpha' = [alpha EXCEPT ![execution][equation + 1] =
                    [zero |-> Batch(sums.zero, equation, zZero),
                     one |-> Batch(sums.one, equation, zOne)]]
  /\ equation' = equation + 1
  /\ UNCHANGED <<pc, caller, execution, key, message, salt, lines, batching, answers,
                 sourceFailed, verifying>>

AlphaExecution ==
  /\ pc = "alpha" /\ execution < Tau /\ equation = EquationCount
  /\ StartExecution(execution + 1)
  /\ UNCHANGED <<pc, caller, signing, verifying>>

(* The second commitment and the Fiat-Shamir hash are fixed before the     *)
(* first challenge is asked for.                                           *)
CommitAlpha ==
  /\ pc = "alpha" /\ execution = Tau /\ pc' = "grind"
  /\ UNCHANGED <<caller, loops, signing, verifying>>

(* Fault: the nonce wraps at its last value and the search never ends. *)
TryNonce_Wraps ==
  /\ pc = "grind"
  /\ \E a \in Answer :
       /\ answers' = IF Len(answers) <= MaxNonce THEN Append(answers, a) ELSE <<a>>
       /\ pc' = IF a.grinding THEN "open" ELSE "grind"
  /\ UNCHANGED <<caller, loops, key, message, salt, lines, batching, alpha,
                 sourceFailed, verifying>>

(* Fault: a hit at nonce zero is not taken. *)
TryNonce_ZeroIsUnset ==
  /\ pc = "grind" /\ Len(answers) <= MaxNonce
  /\ \E a \in Answer :
       /\ answers' = Append(answers, a)
       /\ pc' = IF a.grinding /\ Len(answers) > 0 THEN "open" ELSE "grind"
  /\ UNCHANGED <<caller, loops, key, message, salt, lines, batching, alpha,
                 sourceFailed, verifying>>

TryNonce ==
  /\ pc = "grind" /\ Len(answers) <= MaxNonce
  /\ \E a \in Answer :
       /\ answers' = Append(answers, a)
       /\ pc' = IF a.grinding THEN "open" ELSE "grind"
  /\ UNCHANGED <<caller, loops, key, message, salt, lines, batching, alpha,
                 sourceFailed, verifying>>

NoncesExhausted ==
  /\ pc = "grind" /\ Len(answers) = MaxNonce + 1 /\ pc' = "failed"
  /\ UNCHANGED <<caller, loops, signing, verifying>>

(* The opening is added and sign calls verify on what it would return.     *)
Open ==
  /\ pc = "open" /\ pc' = "challenge"
  /\ given' = Signed /\ caller' = "sign"
  /\ UNCHANGED <<loops, signing, challenge, seen>>

-----------------------------------------------------------------------------
(* The caller gets the signature; verify is called on it, or on it with    *)
(* one part of it, of the message or of the public key altered.            *)

Altered(g) ==
  {g} \cup
  {[g EXCEPT !.seed = d] : d \in Seed} \cup
  {[g EXCEPT !.output[q] = y] : q \in Equation, y \in Elem} \cup
  {[g EXCEPT !.message = m] : m \in Message} \cup
  {[g EXCEPT !.salt = s] : s \in Salt} \cup
  {[g EXCEPT !.first.salt = s] : s \in Salt} \cup
  {[g EXCEPT !.first.lines[e] = l] : e \in Execution, l \in Line} \cup
  {[g EXCEPT !.second[z][e][c] = a] :
     z \in {"zero", "one"}, e \in Execution, c \in Component, a \in Elem} \cup
  {[g EXCEPT !.alphaOne[e][c] = a] : e \in Execution, c \in Component, a \in Elem} \cup
  {[g EXCEPT !.opening.lines[e] = l] : e \in Execution, l \in Line} \cup
  {[g EXCEPT !.opening.secret = s] : s \in Secret} \cup
  {[g EXCEPT !.opening.hidden[e] = i] : e \in Execution, i \in Index} \cup
  {[g EXCEPT !.nonce = n] : n \in 0 .. MaxNonce}

Deliver ==
  /\ pc = "released" /\ pc' = "challenge"
  /\ given' \in Altered(given) /\ caller' = "user"
  /\ UNCHANGED <<loops, signing, challenge, seen>>

-----------------------------------------------------------------------------
(* verify: for sign, which releases its signature or fails, or for a user. *)

Return(ok) ==
  pc' = IF caller = "sign" THEN (IF ok THEN "released" ELSE "failed")
                           ELSE (IF ok THEN "accepted" ELSE "rejected")

(* Fault: the grinding bits are not checked. *)
ParseChallenge_NoGrinding ==
  /\ pc = "challenge"
  /\ challenge' \in Query(given)
  /\ pc' = "opening"
  /\ UNCHANGED <<caller, loops, signing, given, seen>>

ParseChallenge ==
  /\ pc = "challenge"
  /\ challenge' \in Query(given)
  /\ IF challenge'.grinding THEN pc' = "opening" ELSE Return(FALSE)
  /\ UNCHANGED <<caller, loops, signing, given, seen>>

(* Fault: the hashes are recomputed under a salt of the opening's own. *)
OpeningAccepted_SaltIgnored ==
  /\ given.first.lines = given.opening.lines
  /\ given.first.secret = given.opening.secret
  /\ given.opening.hidden = challenge.hidden

OpeningAccepted ==
  /\ given.first = [salt |-> given.salt, lines |-> given.opening.lines,
                    secret |-> given.opening.secret]
  /\ given.opening.hidden = challenge.hidden

PointOf(e) == Point(challenge.hidden[e])

(* evaluate_opening: x and u on the lines; alpha starts from u.            *)
OpenedX(e) == VPlus(given.opening.lines[e].x, VTimes(PointOf(e), given.opening.secret))
OpenedU(e) ==
  LET line == given.opening.lines[e]
  IN [c \in Component |-> Plus(line.uZero[c], Times(PointOf(e), line.uOne[c]))]

EvaluateOpening ==
  /\ pc = "opening"
  /\ IF OpeningAccepted
     THEN /\ pc' = "recompute" /\ StartExecution(0)
          /\ seen' = [e \in Execution |-> OpenedU(e)]
     ELSE Return(FALSE) /\ UNCHANGED <<loops, seen>>
  /\ UNCHANGED <<caller, signing, given, challenge>>

(* Fault: the public output is scaled by the point, not by its square. *)
RecomputeEquation_NotSquared ==
  /\ pc = "recompute" /\ execution < Tau /\ equation < EquationCount
  /\ LET x == OpenedX(execution)
         p == PointOf(execution)
         t == Plus(Form(given.seed, equation, x, x),
                   Times(p, Linear(given.seed, equation, x)))
         z == Plus(t, Times(p, given.output[equation]))
     IN seen' = [seen EXCEPT ![execution] = Batch(@, equation, z)]
  /\ equation' = equation + 1
  /\ UNCHANGED <<pc, caller, execution, signing, given, challenge>>

RecomputeEquation ==
  /\ pc = "recompute" /\ execution < Tau /\ equation < EquationCount
  /\ LET x == OpenedX(execution)
         p == PointOf(execution)
         t == Plus(Form(given.seed, equation, x, x),
                   Times(p, Linear(given.seed, equation, x)))
         z == Plus(t, Times(Times(p, p), given.output[equation]))
     IN seen' = [seen EXCEPT ![execution] = Batch(@, equation, z)]
  /\ equation' = equation + 1
  /\ UNCHANGED <<pc, caller, execution, signing, given, challenge>>

RecomputeExecution ==
  /\ pc = "recompute" /\ execution < Tau /\ equation = EquationCount
  /\ seen' = [seen EXCEPT ![execution] =
       [c \in Component |-> Plus(@[c], Times(PointOf(execution), given.alphaOne[execution][c]))]]
  /\ StartExecution(execution + 1)
  /\ UNCHANGED <<pc, caller, signing, given, challenge>>

CompareAlpha ==
  /\ pc = "recompute" /\ execution = Tau
  /\ Return([zero |-> seen, one |-> given.alphaOne] = given.second)
  /\ UNCHANGED <<caller, loops, signing, verifying>>

-----------------------------------------------------------------------------
Sign ==
  \/ DrawMasterSeed \/ DrawSalt \/ RngFails \/ CommitLines
  \/ AlphaEquation \/ AlphaExecution \/ CommitAlpha
  \/ TryNonce \/ NoncesExhausted \/ Open

Verify ==
  \/ ParseChallenge \/ EvaluateOpening
  \/ RecomputeEquation \/ RecomputeExecution \/ CompareAlpha

Next == Generate \/ GenerateFails \/ ImportKey \/ RefuseKey \/ Sign \/ Deliver \/ Verify

(* A call that has been made runs on until it returns. *)
Spec == Init /\ [][Next]_vars /\ WF_vars(Sign \/ Verify)

-----------------------------------------------------------------------------
Transcript ==
  [seed : Seed, output : [Equation -> Elem], message : Message, salt : Salt,
   first : [salt : Salt, lines : [Execution -> Line], secret : Secret],
   second : [zero : [Execution -> Row], one : [Execution -> Row]],
   alphaOne : [Execution -> Row],
   opening : [lines : [Execution -> Line], secret : Secret,
              hidden : [Execution -> Index]],
   nonce : 0 .. MaxNonce]

Idle == {"start", "inconsistent", "released", "failed", "accepted", "rejected"}
InSign == {"master_seed", "salt", "commit", "alpha", "grind", "open"}
InVerify == {"challenge", "opening", "recompute"}

TypeOK ==
  /\ pc \in Idle \cup InSign \cup InVerify /\ caller \in {"sign", "user"}
  /\ execution \in 0 .. Tau /\ equation \in 0 .. EquationCount
  /\ key \in [seed : Seed, output : [Equation -> Elem], secret : Secret]
  /\ message \in Message /\ salt \in Salt
  /\ lines \in [Execution -> Line] /\ batching \in Batching
  /\ alpha \in [Execution -> [0 .. EquationCount -> [zero : Row, one : Row]]]
  /\ answers \in Seq(Answer) /\ Len(answers) <= MaxNonce + 1 /\ sourceFailed \in BOOLEAN
  /\ given \in {<<>>} \cup Transcript
  /\ challenge \in Answer /\ seen \in [Execution -> Row]

(* sign never discards its own signature: with an importable key it fails  *)
(* only when the randomness source did or no nonce passes (sign.rs:205,    *)
(* 210), so the polynomials sign.rs builds and the values verify.rs        *)
(* recomputes at the opened points agree for every key and every challenge, *)
(* and both hash the same transcript.  After a failed draw it does fail    *)
(* (mod.rs:245, 272, 275).                                                 *)
FailsOnlyByLuck ==
  /\ pc = "failed" =>
       \/ sourceFailed
       \/ Len(answers) = MaxNonce + 1 /\ \A n \in 1 .. Len(answers) : ~answers[n].grinding
  /\ sourceFailed => pc = "failed"

(* The nonce of a released signature is the first that passes: the loop    *)
(* stops at it and skips none (sign.rs:130-142).                           *)
FirstNonce ==
  pc = "released" =>
    /\ answers[given.nonce + 1].grinding
    /\ \A n \in 0 .. given.nonce - 1 : ~answers[n + 1].grinding

(* Whatever was altered, what a user accepts opens the committed lines at  *)
(* the very indices that were opened, under a challenge that passed        *)
(* grinding: an answer for another message, key or nonce has to coincide.  *)
AcceptedOpensChallenge ==
  pc = "accepted" =>
    /\ challenge.grinding
    /\ challenge.hidden = answers[Len(answers)].hidden
    /\ given.first = FirstCommitment /\ given.opening = SignedOpening

(* Every call returns: grinding stops at the last nonce (sign.rs:130-143). *)
CallsReturn == (pc \in InSign \cup InVerify) ~> (pc \in Idle)

(* The caller's view: the phase of the contract, and the parts that differ *)
(* from what was signed.                                                   *)
Part == {"seed", "output", "message", "salt", "first", "second", "alphaOne",
         "opening", "nonce"}

Phase ==
  IF pc \in {"released", "accepted", "rejected"} THEN pc
  ELSE IF pc \in {"failed", "inconsistent"} THEN "failed"
  ELSE IF caller = "user" THEN "delivered" ELSE "idle"

Differences == IF caller = "user" THEN {p \in Part : given[p] # Signed[p]} ELSE {}

Contract == INSTANCE IdealSignature WITH phase <- Phase, altered <- Differences

(* Signing and verifying keep the API's contract: what is released         *)
(* verifies untouched, and a signature with any part but the nonce, or the *)
(* message or key, altered is refused whatever the challenge is            *)
(* (mod.rs:243-300, 133-139).                                              *)
ContractSpec == Contract!Spec
=============================================================================
