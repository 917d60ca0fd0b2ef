-------------------------- MODULE QuadraticSystem ---------------------------
(***************************************************************************)
(* The field and the equations as signing and verifying need them: a ring  *)
(* of characteristic two, vectors over it, and for every seed and equation *)
(* y^T A x and b^T x, linear in each vector.  Signature extends this       *)
(* module and assumes its laws; the equations of PackedMq satisfy them.    *)
(***************************************************************************)
EXTENDS Integers

CONSTANTS
  EquationCount,
  Elem, Zero, Plus(_, _), Times(_, _),
  Vec, VPlus(_, _), VTimes(_, _),     \* extension vectors, scaled by Elem
  Secret,                             \* base-field vectors
  Seed, Form(_, _, _, _), Linear(_, _, _)   \* seed, equation: y^T A x, b^T x

Equation == 0 .. EquationCount - 1

RingLaws ==
  /\ Zero \in Elem
  /\ \A a, b \in Elem : /\ Plus(a, b) \in Elem /\ Times(a, b) \in Elem
                        /\ Plus(a, b) = Plus(b, a) /\ Times(a, b) = Times(b, a)
  /\ \A a \in Elem : Plus(a, Zero) = a /\ Plus(a, a) = Zero
  /\ \A a, b, c \in Elem :
       /\ Plus(Plus(a, b), c) = Plus(a, Plus(b, c))
       /\ Times(Times(a, b), c) = Times(a, Times(b, c))
       /\ Times(a, Plus(b, c)) = Plus(Times(a, b), Times(a, c))

FormLaws ==
  /\ Secret \subseteq Vec
  /\ \A x, y \in Vec, p \in Elem : VPlus(x, VTimes(p, y)) \in Vec
  /\ \A d \in Seed, q \in Equation, x, y \in Vec :
       Form(d, q, x, y) \in Elem /\ Linear(d, q, x) \in Elem
  /\ \A d \in Seed, q \in Equation, x, y, z \in Vec, p \in Elem :
       LET v == VPlus(x, VTimes(p, y))
       IN /\ Form(d, q, v, z) = Plus(Form(d, q, x, z), Times(p, Form(d, q, y, z)))
          /\ Form(d, q, z, v) = Plus(Form(d, q, z, x), Times(p, Form(d, q, z, y)))
          /\ Linear(d, q, v) = Plus(Linear(d, q, x), Times(p, Linear(d, q, y)))
=============================================================================
