------------------------------ MODULE PackedMq -------------------------------
(***************************************************************************)
(* One equation of the quadratic system (mq.rs) from its stream to the     *)
(* last comparison: it is expanded into a packed lower triangle and a      *)
(* linear vector, evaluated at the secret (keygen), multiplied with the    *)
(* signer's line of one execution (compute_alpha) and with the opened      *)
(* point on that line (recompute_alpha_zero).                              *)
(*                                                                         *)
(* A step is one element of an inner loop.  An accumulator keeps its       *)
(* history: sums[f][row][k] is output[row] of the product f after k        *)
(* columns, dots[z][k] the sum z after k elements; only the last value is  *)
(* read by the code.  A slice out of range and a failed debug_assert are a *)
(* panic.                                                                  *)
(***************************************************************************)
EXTENDS Tower, Integers, FiniteSetsExt

CONSTANTS
  MqN, EquationCount,          \* 56, 14
  Gf16, Embed(_),              \* the small field, and its place in Gf256
  Stream,                      \* what Prg makes of an equation seed
  Secret, Mask, Point          \* vectors over Gf16, x zeros, opened points

TriangularElementCount == (MqN * (MqN + 1)) \div 2
EquationElementCount == TriangularElementCount + MqN
Index == 0 .. MqN - 1
Packed == 0 .. TriangularElementCount - 1

ASSUME SizeAssumption == MqN \in Nat \ {0} /\ EquationCount \in Nat

ASSUME SampleAssumption ==
  /\ \A s \in Gf16 : Embed(s) \in Gf256
  /\ Stream \subseteq [0 .. EquationElementCount - 1 -> Gf256x2]
  /\ Secret \subseteq [Index -> Gf16]
  /\ Mask \subseteq [Index -> Gf256x2]
  /\ Point \subseteq Gf256x2

VARIABLES
  pc, row, column, offset,     \* the running loop
  equationIndex, stream,       \* arguments of expand_equation, its stream
  quadratic, linear,           \* PackedEquation
  secret, xZero, point,        \* vectors and opened point of an execution
  claimed,                     \* the public output verify was given
  sums, dots

loop == <<row, column, offset>>
arguments == <<equationIndex, stream, secret, xZero, point>>
equation == <<quadratic, linear>>
vars == <<pc, loop, arguments, equation, claimed, sums, dots>>

Product == {"base", "signer", "opened"}
Dot == {"output", "zZero", "cross", "zOne", "zOpened"}

(* What is opened at a point of the line x zero + point * secret.          *)
Opened(i) == Plus(xZero[i], Scale(Embed(secret[i]), point))

(* An element of the triangle times one of the vector of a product.        *)
Term(f, k, j) ==
  CASE f = "base" -> Scale(Embed(secret[j]), quadratic[k])
    [] f = "signer" -> Times(quadratic[k], xZero[j])
    [] f = "opened" -> Times(quadratic[k], Opened(j))

Result(f, i) == sums[f][i][i + 1]

(* Fault: the linear part is not homogenised with the opened point. *)
TOpened_LinearUnscaled(i) == Plus(Result("opened", i), linear[i])

(* t_one of the signer, t_evaluation of the verifier.                      *)
TOne(i) == Plus(Result("base", i), linear[i])
TOpened(i) == Plus(Result("opened", i), Times(point, linear[i]))

Value(z) == dots[z][MqN]

-----------------------------------------------------------------------------
Init ==
  /\ pc = "expand" /\ row = 0 /\ column = 0 /\ offset = 0
  /\ equationIndex \in 0 .. EquationCount
  /\ stream \in Stream /\ secret \in Secret /\ xZero \in Mask /\ point \in Point
  /\ quadratic = [k \in Packed |-> Zero] /\ linear = [i \in Index |-> Zero]
  /\ claimed = Zero
  /\ sums = [f \in Product |-> [i \in Index |-> [k \in 0 .. MqN |-> Zero]]]
  /\ dots = [z \in Dot |-> [k \in 0 .. MqN |-> Zero]]

(* expand_equation *)
RefuseIndex ==
  /\ pc = "expand" /\ equationIndex >= EquationCount
  /\ pc' = "none"
  /\ UNCHANGED <<loop, arguments, equation, claimed, sums, dots>>

(* Fault: the linear vector is taken from the front of the stream. *)
Expand_LinearFirst ==
  /\ pc = "expand" /\ equationIndex < EquationCount
  /\ quadratic' = [k \in Packed |-> stream[MqN + k]]
  /\ linear' = [i \in Index |-> stream[i]]
  /\ pc' = "base"
  /\ UNCHANGED <<loop, arguments, claimed, sums, dots>>

Expand ==
  /\ pc = "expand" /\ equationIndex < EquationCount
  /\ quadratic' = [k \in Packed |-> stream[k]]
  /\ linear' = [i \in Index |-> stream[TriangularElementCount + i]]
  /\ pc' = "base"
  /\ UNCHANGED <<loop, arguments, claimed, sums, dots>>

(* multiply_base and multiply_extension: the slice of a row is taken, then *)
(* its elements are multiplied with the head of the vector.                *)
Multiply(f) ==
  /\ pc = f /\ row < MqN /\ column <= row
  /\ IF offset + row < TriangularElementCount
     THEN /\ sums' = [sums EXCEPT ![f][row][column + 1] =
                        Plus(sums[f][row][column], Term(f, offset + column, column))]
          /\ column' = column + 1
          /\ UNCHANGED pc
     ELSE pc' = "panic" /\ UNCHANGED <<sums, column>>
  /\ UNCHANGED <<row, offset, arguments, equation, claimed, dots>>

(* Fault: the offset moves on by the row index, not by the row's length. *)
NextRow_ShortStride(f) ==
  /\ pc = f /\ row < MqN /\ column = row + 1
  /\ offset' = offset + row
  /\ row' = row + 1 /\ column' = 0
  /\ UNCHANGED <<pc, arguments, equation, claimed, sums, dots>>

NextRow(f) ==
  /\ pc = f /\ row < MqN /\ column = row + 1
  /\ offset' = offset + row + 1
  /\ row' = row + 1 /\ column' = 0
  /\ UNCHANGED <<pc, arguments, equation, claimed, sums, dots>>

After(f) == CASE f = "base" -> "output" [] f = "signer" -> "cross" [] f = "opened" -> "point"

EndProduct(f) ==
  /\ pc = f /\ row = MqN
  /\ pc' = IF offset = TriangularElementCount THEN After(f) ELSE "panic"
  /\ row' = 0 /\ offset' = 0
  /\ UNCHANGED <<column, arguments, equation, claimed, sums, dots>>

Accumulate(z, increment) == [dots[z] EXCEPT ![row + 1] = Plus(dots[z][row], increment)]

(* evaluate_base after its product. *)
Evaluate ==
  /\ pc = "output" /\ row < MqN
  /\ LET s == Embed(secret[row])
     IN dots' = [dots EXCEPT !["output"] =
          Accumulate("output", Plus(Scale(s, Result("base", row)), Scale(s, linear[row])))]
  /\ row' = row + 1
  /\ UNCHANGED <<pc, column, offset, arguments, equation, claimed, sums>>

Evaluated ==
  /\ pc = "output" /\ row = MqN
  /\ pc' = "signer" /\ row' = 0
  /\ UNCHANGED <<column, offset, arguments, equation, claimed, sums, dots>>

(* compute_alpha: z_zero, and the first loop into z_one. *)
Cross ==
  /\ pc = "cross" /\ row < MqN
  /\ LET t == Result("signer", row)
     IN dots' = [dots EXCEPT
          !["zZero"] = Accumulate("zZero", Times(t, xZero[row])),
          !["cross"] = Accumulate("cross", Scale(Embed(secret[row]), t))]
  /\ row' = row + 1
  /\ UNCHANGED <<pc, column, offset, arguments, equation, claimed, sums>>

Crossed ==
  /\ pc = "cross" /\ row = MqN
  /\ dots' = [dots EXCEPT !["zOne"][0] = Value("cross")]
  /\ pc' = "line" /\ row' = 0
  /\ UNCHANGED <<column, offset, arguments, equation, claimed, sums>>

(* compute_alpha: the second loop into z_one. *)
AddLine ==
  /\ pc = "line" /\ row < MqN
  /\ dots' = [dots EXCEPT !["zOne"] = Accumulate("zOne", Times(TOne(row), xZero[row]))]
  /\ row' = row + 1
  /\ UNCHANGED <<pc, column, offset, arguments, equation, claimed, sums>>

LineAdded ==
  /\ pc = "line" /\ row = MqN
  /\ pc' = "opened" /\ row' = 0
  /\ UNCHANGED <<column, offset, arguments, equation, claimed, sums, dots>>

(* recompute_alpha_zero after its product. *)
EvaluatePoint ==
  /\ pc = "point" /\ row < MqN
  /\ dots' = [dots EXCEPT !["zOpened"] =
       Accumulate("zOpened", Times(TOpened(row), Opened(row)))]
  /\ row' = row + 1
  /\ UNCHANGED <<pc, column, offset, arguments, equation, claimed, sums>>

(* It is left to add the square of the point times the public output.      *)
Claim ==
  /\ pc = "point" /\ row = MqN
  /\ claimed' \in Gf256x2
  /\ pc' = "done"
  /\ UNCHANGED <<loop, arguments, equation, sums, dots>>

Next ==
  \/ RefuseIndex \/ Expand
  \/ \E f \in Product : Multiply(f) \/ NextRow(f) \/ EndProduct(f)
  \/ Evaluate \/ Evaluated
  \/ Cross \/ Crossed \/ AddLine \/ LineAdded
  \/ EvaluatePoint \/ Claim

Spec == Init /\ [][Next]_vars

Square(p) == Times(p, p)
ZEvaluation == Plus(Value("zOpened"), Times(Square(point), claimed))
SignerLine == Plus(Value("zZero"), Times(point, Value("zOne")))

-----------------------------------------------------------------------------
(* The types of all variables. *)
TypeOK ==
  /\ pc \in {"expand", "output", "cross", "line", "point", "done", "none", "panic"} \cup Product
  /\ row \in 0 .. MqN /\ column \in 0 .. MqN /\ offset \in Nat
  /\ equationIndex \in 0 .. EquationCount /\ stream \in Stream
  /\ secret \in Secret /\ xZero \in Mask /\ point \in Point
  /\ quadratic \in [Packed -> Gf256x2] /\ linear \in [Index -> Gf256x2]
  /\ claimed \in Gf256x2
  /\ sums \in [Product -> [Index -> [0 .. MqN -> Gf256x2]]]
  /\ dots \in [Dot -> [0 .. MqN -> Gf256x2]]

(* The running offset never leaves the packed triangle and ends at its end *)
(* (mq.rs:59, which release builds do not check).                          *)
NeverPanics == pc # "panic"

(* The triangle is packed row by row: the coefficient of x_i x_j, j <= i,  *)
(* is the element of the stream with as many pairs before it as precede    *)
(* (i, j) in that order, and the linear coefficients follow.               *)
Pairs == {p \in Index \X Index : p[2] <= p[1]}

Rank(p) == Quantify(Pairs, LAMBDA q : q[1] < p[1] \/ (q[1] = p[1] /\ q[2] < p[2]))

Sum(f, S) == FoldFunctionOnSet(Plus, Zero, f, S)

(* y^T A x and b^T x of a stream, and the vectors it is taken of.          *)
Bilinear(s, x, y) ==
  Sum([p \in Pairs |-> Times(y[p[1]], Times(x[p[2]], s[Rank(p)]))], Pairs)

LinearForm(s, x) == Sum([i \in Index |-> Times(x[i], s[TriangularElementCount + i])], Index)

Embedded(s) == [i \in Index |-> <<Embed(s[i]), Zero256>>]
OpenedVector == [i \in Index |-> Opened(i)]

(* The loops compute forms of the one system packed in the stream:         *)
(* evaluate_base its value at the secret, compute_alpha the square and the *)
(* cross terms of the line, recompute_alpha_zero the value at the opened   *)
(* point, homogenised with the point.                                      *)
LoopsAreForms ==
  LET s == Embedded(secret)
      B(x, y) == Bilinear(stream, x, y)
      L(x) == LinearForm(stream, x)
  IN /\ pc \in {"signer", "done"} => Value("output") = Plus(B(s, s), L(s))
     /\ pc = "done" =>
          /\ Value("zZero") = B(xZero, xZero)
          /\ Value("zOne") = Plus(B(xZero, s), Plus(B(s, xZero), L(xZero)))
          /\ Value("zOpened")
               = Plus(B(OpenedVector, OpenedVector), Times(point, L(OpenedVector)))

(* The verifier's value at the opened point lies on the signer's line      *)
(* exactly when the output claimed is the one of the signer's secret, up   *)
(* to a factor that is zero only at the point zero.                        *)
VerifierAgrees ==
  pc = "done" =>
    (ZEvaluation = SignerLine <=>
       Times(Square(point), claimed) = Times(Square(point), Value("output")))
=============================================================================
