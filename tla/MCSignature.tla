---------------------------- MODULE MCSignature -----------------------------
(* Signature over the field of four elements {0, 1, w, w + 1}, written 0,   *)
(* 1, 2, 3, in two unknowns over its subfield {0, 1}: the lower-triangular  *)
(* quadratic and linear coefficients of an equation depend on the seed.     *)
EXTENDS Signature

MCElem == 0 .. 3
MCPlus(a, b) == (2 * ((a \div 2 + b \div 2) % 2)) + ((a + b) % 2)
MCTimes(a, b) == IF a = 0 \/ b = 0 THEN 0 ELSE ((a + b - 2) % 3) + 1
MCPoint(i) == IF i < 2 THEN i ELSE 5 - i

Unknown == {1, 2}
MCVec == [Unknown -> MCElem]
MCSecret == {s \in [Unknown -> {0, 1}] : s[1] = 1}
MCVPlus(x, y) == [i \in Unknown |-> MCPlus(x[i], y[i])]
MCVTimes(p, x) == [i \in Unknown |-> MCTimes(p, x[i])]

Quadratic(d, q) == <<1 + d, (2 + d + q) % 4, 3 - d - q>>
LinearPart(d, q) == <<(1 + q) % 4, (2 + d) % 4>>
MCForm(d, q, x, y) ==
  LET A == Quadratic(d, q)
      Ax == <<MCTimes(A[1], x[1]), MCPlus(MCTimes(A[2], x[1]), MCTimes(A[3], x[2]))>>
  IN MCPlus(MCTimes(Ax[1], y[1]), MCTimes(Ax[2], y[2]))
MCLinear(d, q, x) ==
  LET b == LinearPart(d, q) IN MCPlus(MCTimes(b[1], x[1]), MCTimes(b[2], x[2]))

Masks(a) == [c \in Component |-> (a + c) % 4]
MCLine == {[x |-> <<2, 1>>, uZero |-> Masks(1), uOne |-> Masks(3)],
           [x |-> <<3, 0>>, uZero |-> Masks(0), uOne |-> Masks(2)]}
MCBatching == {[c \in Component |-> [q \in Equation |-> (1 + q + c) % 4]],
               [c \in Component |-> [q \in Equation |-> 3 - q]]}
=============================================================================
