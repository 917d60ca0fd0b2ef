------------------------------- MODULE Tower --------------------------------
(***************************************************************************)
(* The extension field of the scheme (field.rs, Gf256x2): pairs c0 + c1 X  *)
(* over Gf256, with X^2 = X + Residue.  Products take three products of    *)
(* the base and one by Residue.  Nothing here needs the base to be a field *)
(* of 256 elements: any commutative ring of characteristic two will do.    *)
(***************************************************************************)

CONSTANTS
  Gf256, Zero256, Add256(_, _), Mul256(_, _),
  Residue                       \* 32

(* A commutative ring of characteristic two, as far as it is needed. *)
BaseLaws ==
  /\ Zero256 \in Gf256 /\ Residue \in Gf256
  /\ \A a, b \in Gf256 : /\ Add256(a, b) \in Gf256 /\ Mul256(a, b) \in Gf256
                         /\ Add256(a, b) = Add256(b, a) /\ Mul256(a, b) = Mul256(b, a)
  /\ \A a \in Gf256 : Add256(a, Zero256) = a /\ Add256(a, a) = Zero256
  /\ \A a, b, c \in Gf256 :
       /\ Add256(Add256(a, b), c) = Add256(a, Add256(b, c))
       /\ Mul256(Mul256(a, b), c) = Mul256(a, Mul256(b, c))
       /\ Mul256(a, Add256(b, c)) = Add256(Mul256(a, b), Mul256(a, c))

ASSUME BaseAssumption == BaseLaws

Gf256x2 == Gf256 \X Gf256
Zero == <<Zero256, Zero256>>

Plus(a, b) == <<Add256(a[1], b[1]), Add256(a[2], b[2])>>

Times(a, b) ==
  LET high == Mul256(a[2], b[2])
      low == Mul256(a[1], b[1])
  IN <<Add256(low, Mul256(high, Residue)),
       Add256(low, Mul256(Add256(a[1], a[2]), Add256(b[1], b[2])))>>

(* A base element, already embedded, times an extension element. *)
Scale(s, a) == <<Mul256(s, a[1]), Mul256(s, a[2])>>
=============================================================================
