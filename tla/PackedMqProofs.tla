--------------------------- MODULE PackedMqProofs ----------------------------
(***************************************************************************)
(* PackedMq for every size, stream and vector.  The running offset is a    *)
(* triangular number, so the rows tile the triangle.  The agreement of the *)
(* verifier with the signer is built from the smallest sums up: column by  *)
(* column the opened product is the signer's plus the point times the      *)
(* base product, row by row what is summed at the point is the three       *)
(* coefficients evaluated there.                                           *)
(*                                                                         *)
(* All of it is arithmetic of the tower, so that comes first: over a       *)
(* commutative ring of characteristic two it is one again, and scaling by  *)
(* an element of the base is multiplication by it.  The hard part is that  *)
(* products associate: the code takes c1 from one product of sums, so both *)
(* sides are first written out in products of the base.                    *)
(***************************************************************************)
EXTENDS PackedMq, FiniteSetTheorems, TLAPS

-----------------------------------------------------------------------------
(* The tower *)

LEMMA BaseRing ==
  /\ Zero256 \in Gf256 /\ Residue \in Gf256
  /\ \A a, b \in Gf256 : /\ Add256(a, b) \in Gf256 /\ Mul256(a, b) \in Gf256
                         /\ Add256(a, b) = Add256(b, a) /\ Mul256(a, b) = Mul256(b, a)
  /\ \A a \in Gf256 : Add256(a, Zero256) = a /\ Add256(a, a) = Zero256
  /\ \A a, b, c \in Gf256 :
       /\ Add256(Add256(a, b), c) = Add256(a, Add256(b, c))
       /\ Mul256(Mul256(a, b), c) = Mul256(a, Mul256(b, c))
       /\ Mul256(a, Add256(b, c)) = Add256(Mul256(a, b), Mul256(a, c))
  BY BaseAssumption DEF BaseLaws

LEMMA BaseClosed ==
  ASSUME NEW a \in Gf256, NEW b \in Gf256
  PROVE  Add256(a, b) \in Gf256 /\ Mul256(a, b) \in Gf256
  BY BaseRing

LEMMA BaseZero == ASSUME NEW a \in Gf256 PROVE Mul256(a, Zero256) = Zero256
  <1>1. Mul256(a, Add256(Zero256, Zero256)) = Add256(Mul256(a, Zero256), Mul256(a, Zero256))
    BY BaseRing
  <1>2. Add256(Zero256, Zero256) = Zero256 /\ Mul256(a, Zero256) \in Gf256
    BY BaseRing
  <1> QED BY <1>1, <1>2, BaseRing

(* What is added twice cancels. *)
LEMMA BaseCancel ==
  ASSUME NEW a \in Gf256, NEW b \in Gf256
  PROVE  Add256(a, Add256(a, b)) = b
  <1>1. Add256(a, Add256(a, b)) = Add256(Add256(a, a), b)
    BY BaseRing
  <1>2. Add256(a, a) = Zero256 /\ Add256(Zero256, b) = Add256(b, Zero256)
    BY BaseRing
  <1> QED BY <1>1, <1>2, BaseRing

LEMMA BaseDistributes ==
  ASSUME NEW a \in Gf256, NEW b \in Gf256, NEW c \in Gf256
  PROVE  Mul256(a, Add256(b, c)) = Add256(Mul256(a, b), Mul256(a, c))
  BY BaseRing

LEMMA BaseAssociates ==
  ASSUME NEW a \in Gf256, NEW b \in Gf256, NEW c \in Gf256
  PROVE  /\ Add256(Add256(a, b), c) = Add256(a, Add256(b, c))
         /\ Mul256(Mul256(a, b), c) = Mul256(a, Mul256(b, c))
         /\ Add256(a, b) = Add256(b, a) /\ Mul256(a, b) = Mul256(b, a)
  BY BaseRing

LEMMA BaseLeftDistributes ==
  ASSUME NEW a \in Gf256, NEW b \in Gf256, NEW c \in Gf256
  PROVE  Mul256(Add256(a, b), c) = Add256(Mul256(a, c), Mul256(b, c))
  <1>1. Add256(a, b) \in Gf256
    BY BaseRing
  <1>2. Mul256(Add256(a, b), c) = Mul256(c, Add256(a, b))
    BY <1>1, BaseRing
  <1>3. Mul256(c, a) = Mul256(a, c) /\ Mul256(c, b) = Mul256(b, c)
    BY BaseRing
  <1> QED BY <1>2, <1>3, BaseRing

(* (a + b) + (c + d) = (a + c) + (b + d) *)
LEMMA BaseSwap ==
  ASSUME NEW a \in Gf256, NEW b \in Gf256, NEW c \in Gf256, NEW d \in Gf256
  PROVE  Add256(Add256(a, b), Add256(c, d)) = Add256(Add256(a, c), Add256(b, d))
  <1>1. /\ Add256(c, d) \in Gf256 /\ Add256(b, d) \in Gf256
        /\ Add256(b, Add256(c, d)) \in Gf256
    BY BaseRing
  <1>2. Add256(Add256(a, b), Add256(c, d)) = Add256(a, Add256(b, Add256(c, d)))
    BY <1>1, BaseRing
  <1>3. Add256(b, Add256(c, d)) = Add256(c, Add256(b, d))
    <2>1. Add256(b, Add256(c, d)) = Add256(Add256(b, c), d)
      BY BaseRing
    <2>2. Add256(b, c) = Add256(c, b)
      BY BaseRing
    <2> QED BY <2>1, <2>2, BaseRing
  <1>4. Add256(a, Add256(c, Add256(b, d))) = Add256(Add256(a, c), Add256(b, d))
    BY <1>1, BaseRing
  <1> QED BY <1>2, <1>3, <1>4

LEMMA BaseMulSwap ==
  ASSUME NEW a \in Gf256, NEW b \in Gf256, NEW c \in Gf256
  PROVE  Mul256(Mul256(a, b), c) = Mul256(Mul256(a, c), b)
  <1>1. Mul256(Mul256(a, b), c) = Mul256(a, Mul256(b, c))
    BY BaseRing
  <1>2. Mul256(b, c) = Mul256(c, b)
    BY BaseRing
  <1>3. Mul256(a, Mul256(c, b)) = Mul256(Mul256(a, c), b)
    BY BaseRing
  <1> QED BY <1>1, <1>2, <1>3

(* (a + x) + ((y + z) + w) = (a + y) + ((z + x) + w) *)
LEMMA BaseRotate ==
  ASSUME NEW a \in Gf256, NEW x \in Gf256, NEW y \in Gf256, NEW z \in Gf256, NEW w \in Gf256
  PROVE  Add256(Add256(a, x), Add256(Add256(y, z), w))
           = Add256(Add256(a, y), Add256(Add256(z, x), w))
  <1>1. Add256(z, w) \in Gf256 /\ Add256(Add256(y, z), w) = Add256(y, Add256(z, w))
    BY BaseRing
  <1>2. Add256(Add256(a, x), Add256(y, Add256(z, w)))
          = Add256(Add256(a, y), Add256(x, Add256(z, w)))
    BY <1>1, BaseSwap
  <1>3. Add256(x, Add256(z, w)) = Add256(Add256(z, x), w)
    <2>1. Add256(x, Add256(z, w)) = Add256(Add256(x, z), w)
      BY BaseRing
    <2>2. Add256(x, z) = Add256(z, x)
      BY BaseRing
    <2> QED BY <2>1, <2>2
  <1> QED BY <1>1, <1>2, <1>3

(* c times a sum of three. *)
LEMMA BaseTriple ==
  ASSUME NEW a \in Gf256, NEW b \in Gf256, NEW c \in Gf256, NEW d \in Gf256
  PROVE  /\ Mul256(d, Add256(Add256(a, b), c))
              = Add256(Add256(Mul256(d, a), Mul256(d, b)), Mul256(d, c))
         /\ Mul256(Add256(Add256(a, b), c), d)
              = Add256(Add256(Mul256(a, d), Mul256(b, d)), Mul256(c, d))
  <1>1. Add256(a, b) \in Gf256
    BY BaseClosed
  <1>2. /\ Mul256(d, Add256(Add256(a, b), c)) = Add256(Mul256(d, Add256(a, b)), Mul256(d, c))
        /\ Mul256(d, Add256(a, b)) = Add256(Mul256(d, a), Mul256(d, b))
    BY <1>1, BaseRing
  <1>3. /\ Mul256(Add256(Add256(a, b), c), d) = Add256(Mul256(Add256(a, b), d), Mul256(c, d))
        /\ Mul256(Add256(a, b), d) = Add256(Mul256(a, d), Mul256(b, d))
    BY <1>1, BaseLeftDistributes
  <1> QED BY <1>2, <1>3

-----------------------------------------------------------------------------
(* What the three products of the code amount to. *)
LEMMA TimesCoefficients ==
  ASSUME NEW a \in Gf256x2, NEW b \in Gf256x2
  PROVE  Times(a, b) =
           <<Add256(Mul256(a[1], b[1]), Mul256(Mul256(a[2], b[2]), Residue)),
             Add256(Add256(Mul256(a[1], b[2]), Mul256(a[2], b[1])), Mul256(a[2], b[2]))>>
  <1> DEFINE p == Mul256(a[1], b[1])
             q == Mul256(a[1], b[2])
             r == Mul256(a[2], b[1])
             s == Mul256(a[2], b[2])
             sum == Add256(a[1], a[2])
  <1>1. /\ a[1] \in Gf256 /\ a[2] \in Gf256 /\ b[1] \in Gf256 /\ b[2] \in Gf256
        /\ sum \in Gf256
    BY BaseRing DEF Gf256x2
  <1>2. p \in Gf256 /\ q \in Gf256 /\ r \in Gf256 /\ s \in Gf256
    BY <1>1, BaseClosed
  <1>3. Mul256(sum, Add256(b[1], b[2])) = Add256(Mul256(sum, b[1]), Mul256(sum, b[2]))
    <2> HIDE DEF sum
    <2> QED BY <1>1, BaseDistributes
  <1>4. Mul256(sum, b[1]) = Add256(p, r) /\ Mul256(sum, b[2]) = Add256(q, s)
    BY <1>1, BaseLeftDistributes
  <1>5. Add256(p, Add256(Add256(p, r), Add256(q, s))) = Add256(Add256(q, r), s)
    <2> HIDE DEF p, q, r, s
    <2>1. /\ Add256(q, s) \in Gf256 /\ Add256(r, Add256(q, s)) \in Gf256
          /\ Add256(Add256(p, r), Add256(q, s)) = Add256(p, Add256(r, Add256(q, s)))
      BY <1>2, BaseClosed, BaseAssociates
    <2>2. Add256(p, Add256(p, Add256(r, Add256(q, s)))) = Add256(r, Add256(q, s))
      BY <1>2, <2>1, BaseCancel
    <2>3. Add256(r, Add256(q, s)) = Add256(Add256(r, q), s) /\ Add256(r, q) = Add256(q, r)
      BY <1>2, BaseAssociates
    <2> QED BY <2>1, <2>2, <2>3
  <1> QED BY <1>3, <1>4, <1>5 DEF Times

LEMMA TowerClosed ==
  ASSUME NEW a \in Gf256x2, NEW b \in Gf256x2
  PROVE  Zero \in Gf256x2 /\ Plus(a, b) \in Gf256x2 /\ Times(a, b) \in Gf256x2
  BY BaseRing DEF Gf256x2, Zero, Plus, Times

LEMMA PlusLaws ==
  ASSUME NEW a \in Gf256x2, NEW b \in Gf256x2, NEW c \in Gf256x2
  PROVE  /\ Plus(a, b) = Plus(b, a)
         /\ Plus(Plus(a, b), c) = Plus(a, Plus(b, c))
         /\ Plus(a, Zero) = a /\ Plus(a, a) = Zero
  BY BaseRing DEF Gf256x2, Zero, Plus

LEMMA TimesCommutes ==
  ASSUME NEW a \in Gf256x2, NEW b \in Gf256x2
  PROVE  Times(a, b) = Times(b, a)
  BY BaseRing DEF Gf256x2, Times

LEMMA TimesDistributes ==
  ASSUME NEW a \in Gf256x2, NEW b \in Gf256x2, NEW c \in Gf256x2
  PROVE  Times(a, Plus(b, c)) = Plus(Times(a, b), Times(a, c))
  <1> DEFINE m(i, j) == Mul256(a[i], b[j])
             n(i, j) == Mul256(a[i], c[j])
             sum(j) == Add256(b[j], c[j])
  <1>1. \A i \in {1, 2} : a[i] \in Gf256 /\ b[i] \in Gf256 /\ c[i] \in Gf256
    BY DEF Gf256x2
  <1>2. \A i, j \in {1, 2} : m(i, j) \in Gf256 /\ n(i, j) \in Gf256
    BY <1>1, BaseClosed
  <1>3. \A i, j \in {1, 2} : Mul256(a[i], sum(j)) = Add256(m(i, j), n(i, j))
    BY <1>1, BaseDistributes
  <1>4. Plus(b, c) \in Gf256x2 /\ Plus(b, c) = <<sum(1), sum(2)>>
    BY TowerClosed DEF Plus
  <1>5. Times(a, Plus(b, c))
          = <<Add256(Mul256(a[1], sum(1)), Mul256(Mul256(a[2], sum(2)), Residue)),
              Add256(Add256(Mul256(a[1], sum(2)), Mul256(a[2], sum(1))), Mul256(a[2], sum(2)))>>
    BY <1>4, TimesCoefficients
  <1>6. Times(a, b) = <<Add256(m(1, 1), Mul256(m(2, 2), Residue)),
                        Add256(Add256(m(1, 2), m(2, 1)), m(2, 2))>>
    BY TimesCoefficients
  <1>7. Times(a, c) = <<Add256(n(1, 1), Mul256(n(2, 2), Residue)),
                        Add256(Add256(n(1, 2), n(2, 1)), n(2, 2))>>
    BY TimesCoefficients
  <1> HIDE DEF m, n, sum
  <1>8. Add256(Add256(m(1, 1), n(1, 1)), Mul256(Add256(m(2, 2), n(2, 2)), Residue))
          = Add256(Add256(m(1, 1), Mul256(m(2, 2), Residue)),
                   Add256(n(1, 1), Mul256(n(2, 2), Residue)))
    <2>1. Residue \in Gf256
      BY BaseRing
    <2>2. Mul256(m(2, 2), Residue) \in Gf256 /\ Mul256(n(2, 2), Residue) \in Gf256
      BY <1>2, <2>1, BaseClosed
    <2>3. Mul256(Add256(m(2, 2), n(2, 2)), Residue)
            = Add256(Mul256(m(2, 2), Residue), Mul256(n(2, 2), Residue))
      BY <1>2, <2>1, BaseLeftDistributes
    <2> QED BY <1>2, <2>2, <2>3, BaseSwap
  <1>9. Add256(Add256(Add256(m(1, 2), n(1, 2)), Add256(m(2, 1), n(2, 1))),
               Add256(m(2, 2), n(2, 2)))
          = Add256(Add256(Add256(m(1, 2), m(2, 1)), m(2, 2)),
                   Add256(Add256(n(1, 2), n(2, 1)), n(2, 2)))
    <2>1. Add256(m(1, 2), m(2, 1)) \in Gf256 /\ Add256(n(1, 2), n(2, 1)) \in Gf256
      BY <1>2, BaseClosed
    <2>2. Add256(Add256(m(1, 2), n(1, 2)), Add256(m(2, 1), n(2, 1)))
            = Add256(Add256(m(1, 2), m(2, 1)), Add256(n(1, 2), n(2, 1)))
      BY <1>2, BaseSwap
    <2> QED BY <1>2, <2>1, <2>2, BaseSwap
  <1> QED BY <1>3, <1>5, <1>6, <1>7, <1>8, <1>9 DEF Plus

LEMMA TimesAssociates ==
  ASSUME NEW a \in Gf256x2, NEW b \in Gf256x2, NEW c \in Gf256x2
  PROVE  Times(Times(a, b), c) = Times(a, Times(b, c))
  <1> DEFINE m(i, j, k) == Mul256(Mul256(a[i], b[j]), c[k])
             r(i, j, k) == Mul256(m(i, j, k), Residue)
             ab == Times(a, b)
             bc == Times(b, c)
  <1>1. /\ \A i \in {1, 2} : a[i] \in Gf256 /\ b[i] \in Gf256 /\ c[i] \in Gf256
        /\ Residue \in Gf256 /\ ab \in Gf256x2 /\ bc \in Gf256x2
    BY BaseRing, TowerClosed DEF Gf256x2
  <1>2. \A i, j \in {1, 2} : Mul256(a[i], b[j]) \in Gf256 /\ Mul256(b[i], c[j]) \in Gf256
    BY <1>1, BaseClosed
  <1>3. \A i, j, k \in {1, 2} :
          /\ m(i, j, k) \in Gf256 /\ r(i, j, k) \in Gf256
          /\ Mul256(a[i], Mul256(b[j], c[k])) = m(i, j, k)
    <2> SUFFICES ASSUME NEW i \in {1, 2}, NEW j \in {1, 2}, NEW k \in {1, 2}
                 PROVE  /\ m(i, j, k) \in Gf256 /\ r(i, j, k) \in Gf256
                        /\ Mul256(a[i], Mul256(b[j], c[k])) = m(i, j, k)
      OBVIOUS
    <2>1. a[i] \in Gf256 /\ b[j] \in Gf256 /\ c[k] \in Gf256 /\ Mul256(a[i], b[j]) \in Gf256
      BY <1>1, <1>2
    <2>2. m(i, j, k) \in Gf256
      BY <2>1, BaseClosed
    <2>3. r(i, j, k) \in Gf256
      BY <1>1, <2>2, BaseClosed
    <2>4. Mul256(a[i], Mul256(b[j], c[k])) = m(i, j, k)
      BY <2>1, BaseAssociates
    <2> QED BY <2>2, <2>3, <2>4
  <1>4. \A k \in {1, 2} :
          /\ Mul256(ab[1], c[k]) = Add256(m(1, 1, k), r(2, 2, k))
          /\ Mul256(ab[2], c[k]) = Add256(Add256(m(1, 2, k), m(2, 1, k)), m(2, 2, k))
    <2> SUFFICES ASSUME NEW k \in {1, 2}
                 PROVE  /\ Mul256(ab[1], c[k]) = Add256(m(1, 1, k), r(2, 2, k))
                        /\ Mul256(ab[2], c[k])
                             = Add256(Add256(m(1, 2, k), m(2, 1, k)), m(2, 2, k))
      OBVIOUS
    <2>1. /\ ab[1] = Add256(Mul256(a[1], b[1]), Mul256(Mul256(a[2], b[2]), Residue))
          /\ ab[2] = Add256(Add256(Mul256(a[1], b[2]), Mul256(a[2], b[1])), Mul256(a[2], b[2]))
      BY TimesCoefficients
    <2>2. Mul256(Mul256(a[2], b[2]), Residue) \in Gf256
      BY <1>1, <1>2, BaseClosed
    <2>3. Mul256(ab[1], c[k])
            = Add256(m(1, 1, k), Mul256(Mul256(Mul256(a[2], b[2]), Residue), c[k]))
      BY <1>1, <1>2, <2>1, <2>2, BaseLeftDistributes
    <2>4. Mul256(Mul256(Mul256(a[2], b[2]), Residue), c[k]) = r(2, 2, k)
      BY <1>1, <1>2, BaseMulSwap
    <2>5. Mul256(ab[2], c[k]) = Add256(Add256(m(1, 2, k), m(2, 1, k)), m(2, 2, k))
      <3>1. /\ Mul256(a[1], b[2]) \in Gf256 /\ Mul256(a[2], b[1]) \in Gf256
            /\ Mul256(a[2], b[2]) \in Gf256 /\ c[k] \in Gf256
        BY <1>1, <1>2
      <3> HIDE DEF ab
      <3> QED BY <2>1, <3>1, BaseTriple
    <2> QED BY <2>3, <2>4, <2>5
  <1>5. \A i \in {1, 2} :
          /\ Mul256(a[i], bc[1]) = Add256(m(i, 1, 1), r(i, 2, 2))
          /\ Mul256(a[i], bc[2]) = Add256(Add256(m(i, 1, 2), m(i, 2, 1)), m(i, 2, 2))
    <2> SUFFICES ASSUME NEW i \in {1, 2}
                 PROVE  /\ Mul256(a[i], bc[1]) = Add256(m(i, 1, 1), r(i, 2, 2))
                        /\ Mul256(a[i], bc[2])
                             = Add256(Add256(m(i, 1, 2), m(i, 2, 1)), m(i, 2, 2))
      OBVIOUS
    <2>1. /\ bc[1] = Add256(Mul256(b[1], c[1]), Mul256(Mul256(b[2], c[2]), Residue))
          /\ bc[2] = Add256(Add256(Mul256(b[1], c[2]), Mul256(b[2], c[1])), Mul256(b[2], c[2]))
      BY TimesCoefficients
    <2>2. Mul256(Mul256(b[2], c[2]), Residue) \in Gf256
      BY <1>1, <1>2, BaseClosed
    <2>3. Mul256(a[i], bc[1])
            = Add256(Mul256(a[i], Mul256(b[1], c[1])),
                     Mul256(a[i], Mul256(Mul256(b[2], c[2]), Residue)))
      BY <1>1, <1>2, <2>1, <2>2, BaseDistributes
    <2>4. Mul256(a[i], Mul256(Mul256(b[2], c[2]), Residue))
            = Mul256(Mul256(a[i], Mul256(b[2], c[2])), Residue)
      <3>1. a[i] \in Gf256 /\ Mul256(b[2], c[2]) \in Gf256 /\ Residue \in Gf256
        BY <1>1, <1>2
      <3> QED BY <3>1, BaseAssociates
    <2>5. Mul256(a[i], bc[2])
            = Add256(Add256(Mul256(a[i], Mul256(b[1], c[2])), Mul256(a[i], Mul256(b[2], c[1]))),
                     Mul256(a[i], Mul256(b[2], c[2])))
      <3>1. /\ Mul256(b[1], c[2]) \in Gf256 /\ Mul256(b[2], c[1]) \in Gf256
            /\ Mul256(b[2], c[2]) \in Gf256 /\ a[i] \in Gf256
        BY <1>1, <1>2
      <3> HIDE DEF bc
      <3> QED BY <2>1, <3>1, BaseTriple
    <2> QED BY <1>3, <2>3, <2>4, <2>5
  <1>6. Times(ab, c) = <<Add256(Mul256(ab[1], c[1]), Mul256(Mul256(ab[2], c[2]), Residue)),
                         Add256(Add256(Mul256(ab[1], c[2]), Mul256(ab[2], c[1])),
                                Mul256(ab[2], c[2]))>>
    BY <1>1, TimesCoefficients
  <1>7. Times(a, bc) = <<Add256(Mul256(a[1], bc[1]), Mul256(Mul256(a[2], bc[2]), Residue)),
                         Add256(Add256(Mul256(a[1], bc[2]), Mul256(a[2], bc[1])),
                                Mul256(a[2], bc[2]))>>
    BY <1>1, TimesCoefficients
  <1>8. \A x, y, z \in Gf256 :
          Mul256(Add256(Add256(x, y), z), Residue)
            = Add256(Add256(Mul256(x, Residue), Mul256(y, Residue)), Mul256(z, Residue))
    BY <1>1, BaseTriple
  <1>9. /\ Mul256(Mul256(ab[2], c[2]), Residue)
             = Add256(Add256(r(1, 2, 2), r(2, 1, 2)), r(2, 2, 2))
        /\ Mul256(Mul256(a[2], bc[2]), Residue)
             = Add256(Add256(r(2, 1, 2), r(2, 2, 1)), r(2, 2, 2))
    BY <1>3, <1>4, <1>5, <1>8
  <1> HIDE DEF m, r, ab, bc
  <1>10. Add256(Add256(m(1, 1, 1), r(2, 2, 1)), Add256(Add256(r(1, 2, 2), r(2, 1, 2)), r(2, 2, 2)))
           = Add256(Add256(m(1, 1, 1), r(1, 2, 2)),
                    Add256(Add256(r(2, 1, 2), r(2, 2, 1)), r(2, 2, 2)))
    <2>1. /\ m(1, 1, 1) \in Gf256 /\ r(2, 2, 1) \in Gf256 /\ r(1, 2, 2) \in Gf256
          /\ r(2, 1, 2) \in Gf256 /\ r(2, 2, 2) \in Gf256
      BY <1>3
    <2> QED BY <2>1, BaseRotate
  <1>11. Add256(Add256(Add256(m(1, 1, 2), r(2, 2, 2)),
                       Add256(Add256(m(1, 2, 1), m(2, 1, 1)), m(2, 2, 1))),
                Add256(Add256(m(1, 2, 2), m(2, 1, 2)), m(2, 2, 2)))
           = Add256(Add256(Add256(Add256(m(1, 1, 2), m(1, 2, 1)), m(1, 2, 2)),
                           Add256(m(2, 1, 1), r(2, 2, 2))),
                    Add256(Add256(m(2, 1, 2), m(2, 2, 1)), m(2, 2, 2)))
    <2> DEFINE p == Add256(m(1, 1, 2), m(1, 2, 1))
               q == Add256(m(2, 1, 1), r(2, 2, 2))
    <2>1. p \in Gf256 /\ q \in Gf256 /\ Add256(p, q) \in Gf256
      BY <1>3, BaseClosed
    <2>2. Add256(Add256(m(1, 1, 2), r(2, 2, 2)),
                 Add256(Add256(m(1, 2, 1), m(2, 1, 1)), m(2, 2, 1)))
            = Add256(p, Add256(q, m(2, 2, 1)))
      <3>1. /\ m(1, 1, 2) \in Gf256 /\ r(2, 2, 2) \in Gf256 /\ m(1, 2, 1) \in Gf256
            /\ m(2, 1, 1) \in Gf256 /\ m(2, 2, 1) \in Gf256
        BY <1>3
      <3> QED BY <3>1, BaseRotate
    <2> HIDE DEF p, q
    <2>3. Add256(p, Add256(q, m(2, 2, 1))) = Add256(Add256(p, q), m(2, 2, 1))
      BY <1>3, <2>1, BaseAssociates
    <2>4. Add256(Add256(Add256(p, q), m(2, 2, 1)),
                 Add256(Add256(m(1, 2, 2), m(2, 1, 2)), m(2, 2, 2)))
            = Add256(Add256(Add256(p, q), m(1, 2, 2)),
                     Add256(Add256(m(2, 1, 2), m(2, 2, 1)), m(2, 2, 2)))
      <3>1. /\ m(2, 2, 1) \in Gf256 /\ m(1, 2, 2) \in Gf256
            /\ m(2, 1, 2) \in Gf256 /\ m(2, 2, 2) \in Gf256
        BY <1>3
      <3> QED BY <2>1, <3>1, BaseRotate
    <2>5. Add256(Add256(p, q), m(1, 2, 2)) = Add256(Add256(p, m(1, 2, 2)), q)
      <3>1. /\ Add256(Add256(p, q), m(1, 2, 2)) = Add256(p, Add256(q, m(1, 2, 2)))
            /\ Add256(q, m(1, 2, 2)) = Add256(m(1, 2, 2), q)
            /\ Add256(p, Add256(m(1, 2, 2), q)) = Add256(Add256(p, m(1, 2, 2)), q)
        BY <1>3, <2>1, BaseAssociates
      <3> QED BY <3>1
    <2> QED BY <2>2, <2>3, <2>4, <2>5 DEF p, q
  <1> QED BY <1>4, <1>5, <1>6, <1>7, <1>9, <1>10, <1>11 DEF ab, bc

LEMMA ScaleIsTimes ==
  ASSUME NEW s \in Gf256, NEW a \in Gf256x2
  PROVE  <<s, Zero256>> \in Gf256x2 /\ Scale(s, a) = Times(<<s, Zero256>>, a)
  <1> DEFINE e == <<s, Zero256>>
  <1>1. e \in Gf256x2 /\ e[1] = s /\ e[2] = Zero256 /\ a[1] \in Gf256 /\ a[2] \in Gf256
    BY BaseRing DEF Gf256x2
  <1>2. \A x \in Gf256 : Mul256(Zero256, x) = Zero256 /\ Add256(x, Zero256) = x
    BY BaseZero, BaseRing
  <1>3. Mul256(s, a[1]) \in Gf256 /\ Mul256(s, a[2]) \in Gf256 /\ Residue \in Gf256
    BY <1>1, BaseRing
  <1>4. Times(e, a) = <<Add256(Mul256(s, a[1]), Mul256(Mul256(Zero256, a[2]), Residue)),
                        Add256(Add256(Mul256(s, a[2]), Mul256(Zero256, a[1])),
                               Mul256(Zero256, a[2]))>>
    BY <1>1, TimesCoefficients
  <1> QED BY <1>1, <1>2, <1>3, <1>4 DEF Scale

(* The tower of field.rs is a commutative ring of characteristic two if    *)
(* its base is, whatever the residue: what Signature asks of its elements. *)
THEOREM TowerIsRing ==
  /\ Zero \in Gf256x2
  /\ \A a, b \in Gf256x2 : /\ Plus(a, b) \in Gf256x2 /\ Times(a, b) \in Gf256x2
                          /\ Plus(a, b) = Plus(b, a) /\ Times(a, b) = Times(b, a)
  /\ \A a \in Gf256x2 : Plus(a, Zero) = a /\ Plus(a, a) = Zero
  /\ \A a, b, c \in Gf256x2 :
       /\ Plus(Plus(a, b), c) = Plus(a, Plus(b, c))
       /\ Times(Times(a, b), c) = Times(a, Times(b, c))
       /\ Times(a, Plus(b, c)) = Plus(Times(a, b), Times(a, c))
  <1>1. Zero \in Gf256x2
    BY BaseRing DEF Zero, Gf256x2
  <1> QED BY <1>1, TowerClosed, PlusLaws, TimesCommutes, TimesDistributes, TimesAssociates

-----------------------------------------------------------------------------
(* The rows of a packed triangle *)

Triangle(i) == (i * (i + 1)) \div 2

LEMMA TriangleGrows ==
  /\ Triangle(0) = 0
  /\ \A i \in Nat : Triangle(i) \in Nat /\ Triangle(i + 1) = Triangle(i) + i + 1
  <1>1. \A i \in Nat : (i + 1) * (i + 2) = i * (i + 1) + 2 * (i + 1)
    OBVIOUS
  <1>2. \A i \in Nat : i * (i + 1) \in Nat
    OBVIOUS
  <1>3. \A a, b \in Nat : (a + 2 * b) \div 2 = (a \div 2) + b /\ a \div 2 \in Nat
    OBVIOUS
  <1> QED
    <2>1. Triangle(0) = 0
      BY DEF Triangle
    <2>2. ASSUME NEW i \in Nat
          PROVE  Triangle(i) \in Nat /\ Triangle(i + 1) = Triangle(i) + i + 1
      <3>1. (i + 1) * ((i + 1) + 1) = i * (i + 1) + 2 * (i + 1)
        OBVIOUS
      <3>2. i * (i + 1) \in Nat /\ i + 1 \in Nat
        OBVIOUS
      <3> DEFINE a == i * (i + 1)
      <3> HIDE DEF a
      <3>3. (a + 2 * (i + 1)) \div 2 = (a \div 2) + (i + 1) /\ a \div 2 \in Nat
        BY <1>3, <3>2 DEF a
      <3> QED BY <3>1, <3>3 DEF a, Triangle
    <2> QED BY <2>1, <2>2

LEMMA TriangleMonotone ==
  ASSUME NEW i \in Nat, NEW j \in Nat, i <= j
  PROVE  Triangle(i) <= Triangle(j)
  <1>1. i * (i + 1) <= j * (j + 1)
    <2>1. PICK d \in Nat : j = i + d
      <3>1. j - i \in Nat /\ j = i + (j - i)
        OBVIOUS
      <3> QED BY <3>1
    <2>2. (i + d) * ((i + d) + 1) = i * (i + 1) + (d * (2 * i) + d * d + d)
      OBVIOUS
    <2>3. d * (2 * i) + d * d + d \in Nat /\ i * (i + 1) \in Nat
      OBVIOUS
    <2> QED BY <2>1, <2>2, <2>3
  <1>2. i * (i + 1) \in Nat /\ j * (j + 1) \in Nat
    OBVIOUS
  <1>3. \A a, b \in Nat : a <= b => a \div 2 <= b \div 2
    OBVIOUS
  <1> QED BY <1>1, <1>2, <1>3 DEF Triangle

(* The slice of a row lies in the triangle. *)
LEMMA RowInTriangle ==
  ASSUME NEW i \in Index
  PROVE  /\ Triangle(i) \in Nat /\ Triangle(i) + i < TriangularElementCount
         /\ \A j \in 0 .. i : Triangle(i) + j \in Packed
  <1>1. i \in Nat /\ i + 1 <= MqN /\ MqN \in Nat
    BY SizeAssumption DEF Index
  <1>2. /\ Triangle(i + 1) = Triangle(i) + i + 1 /\ Triangle(i) \in Nat
        /\ Triangle(i + 1) <= Triangle(MqN)
        /\ Triangle(MqN) = TriangularElementCount /\ Triangle(MqN) \in Nat
    BY <1>1, TriangleGrows, TriangleMonotone DEF Triangle, TriangularElementCount
  <1>3. Triangle(i) + i < TriangularElementCount
    BY <1>1, <1>2
  <1>4. ASSUME NEW j \in 0 .. i PROVE Triangle(i) + j \in Packed
    BY <1>1, <1>2, <1>3 DEF Packed
  <1> QED BY <1>2, <1>3, <1>4

-----------------------------------------------------------------------------
(* Identities of the tower *)

LEMMA PlusSwap ==
  ASSUME NEW a \in Gf256x2, NEW b \in Gf256x2, NEW c \in Gf256x2, NEW d \in Gf256x2
  PROVE  Plus(Plus(a, b), Plus(c, d)) = Plus(Plus(a, c), Plus(b, d))
  BY BaseSwap DEF Gf256x2, Plus

LEMMA PlusZero ==
  ASSUME NEW a \in Gf256x2
  PROVE  /\ Plus(a, Zero) = a /\ Plus(Zero, a) = a /\ Times(a, Zero) = Zero
  <1>1. Zero \in Gf256x2 /\ Times(a, Zero) \in Gf256x2
    BY TowerClosed
  <1>2. Plus(a, Zero) = a /\ Plus(Zero, a) = a /\ Plus(Zero, Zero) = Zero
    BY <1>1, PlusLaws
  <1>3. Times(a, Zero) = Plus(Times(a, Zero), Times(a, Zero))
    BY <1>1, <1>2, TimesDistributes
  <1> QED BY <1>1, <1>2, <1>3, PlusLaws

(* Adding what was added before leaves what was there. *)
LEMMA PlusCancels ==
  ASSUME NEW a \in Gf256x2, NEW b \in Gf256x2
  PROVE  Plus(Plus(a, b), b) = a /\ Plus(a, Plus(a, b)) = b
  <1>1. Zero \in Gf256x2 /\ Plus(b, b) = Zero /\ Plus(a, a) = Zero
    BY TowerClosed, PlusLaws
  <1>2. Plus(Plus(a, b), b) = Plus(a, Plus(b, b)) /\ Plus(a, Plus(a, b)) = Plus(Plus(a, a), b)
    BY PlusLaws
  <1> QED BY <1>1, <1>2, PlusZero

LEMMA LeftDistributes ==
  ASSUME NEW a \in Gf256x2, NEW b \in Gf256x2, NEW c \in Gf256x2
  PROVE  Times(Plus(a, b), c) = Plus(Times(a, c), Times(b, c))
  <1>1. Plus(a, b) \in Gf256x2
    BY TowerClosed
  <1>2. Times(Plus(a, b), c) = Times(c, Plus(a, b))
    BY <1>1, TimesCommutes
  <1>3. Times(c, a) = Times(a, c) /\ Times(c, b) = Times(b, c)
    BY TimesCommutes
  <1> QED BY <1>2, <1>3, TimesDistributes

(* a (b c) = b (a c) *)
LEMMA TimesSwap ==
  ASSUME NEW a \in Gf256x2, NEW b \in Gf256x2, NEW c \in Gf256x2
  PROVE  Times(a, Times(b, c)) = Times(b, Times(a, c))
  <1>1. Times(a, Times(b, c)) = Times(Times(a, b), c)
    BY TimesAssociates
  <1>2. Times(b, Times(a, c)) = Times(Times(b, a), c)
    BY TimesAssociates
  <1> QED BY <1>1, <1>2, TimesCommutes

(* The coefficients z, c, o of a polynomial, evaluated at p. *)
At(p, z, c, o) == Plus(Plus(z, Times(p, c)), Times(Square(p), o))

(* The product of two lines at a point. *)
LEMMA LineProduct ==
  ASSUME NEW p \in Gf256x2, NEW t \in Gf256x2, NEW u \in Gf256x2,
         NEW x \in Gf256x2, NEW e \in Gf256x2
  PROVE  Times(Plus(t, Times(p, u)), Plus(x, Times(e, p)))
           = At(p, Times(t, x), Plus(Times(e, t), Times(u, x)), Times(e, u))
  <1> DEFINE pu == Times(p, u)
             ep == Times(e, p)
  <1>1. /\ pu \in Gf256x2 /\ ep \in Gf256x2 /\ Plus(x, ep) \in Gf256x2
        /\ Times(t, x) \in Gf256x2 /\ Times(e, t) \in Gf256x2
        /\ Times(u, x) \in Gf256x2 /\ Times(e, u) \in Gf256x2
    BY TowerClosed
  <1>2. Times(Plus(t, pu), Plus(x, ep)) = Plus(Times(t, Plus(x, ep)), Times(pu, Plus(x, ep)))
    BY <1>1, LeftDistributes
  <1>3. /\ Times(t, Plus(x, ep)) = Plus(Times(t, x), Times(t, ep))
        /\ Times(pu, Plus(x, ep)) = Plus(Times(pu, x), Times(pu, ep))
    BY <1>1, TimesDistributes
  <1>4. Times(t, ep) = Times(p, Times(e, t))
    <2>1. Times(t, Times(e, p)) = Times(e, Times(t, p)) /\ Times(t, p) = Times(p, t)
      BY TimesSwap, TimesCommutes
    <2> QED BY <2>1, TimesSwap
  <1>5. Times(pu, x) = Times(p, Times(u, x))
    BY TimesAssociates
  <1>6. Times(pu, ep) = Times(Square(p), Times(e, u))
    <2>1. Times(Times(p, u), Times(e, p)) = Times(p, Times(u, Times(e, p)))
      BY <1>1, TimesAssociates
    <2>2. Times(u, Times(e, p)) = Times(e, Times(u, p)) /\ Times(u, p) = Times(p, u)
      BY TimesSwap, TimesCommutes
    <2>3. Times(e, Times(p, u)) = Times(p, Times(e, u))
      BY TimesSwap
    <2>4. Times(p, Times(p, Times(e, u))) = Times(Times(p, p), Times(e, u))
      BY <1>1, TimesAssociates
    <2> QED BY <2>1, <2>2, <2>3, <2>4 DEF Square
  <1> DEFINE a == Times(t, x)
             b == Times(p, Times(e, t))
             c == Times(p, Times(u, x))
             d == Times(Square(p), Times(e, u))
  <1>7. a \in Gf256x2 /\ b \in Gf256x2 /\ c \in Gf256x2 /\ d \in Gf256x2 /\ Plus(a, b) \in Gf256x2
    BY <1>1, TowerClosed DEF Square
  <1>8. Times(p, Plus(Times(e, t), Times(u, x))) = Plus(b, c)
    BY <1>1, TimesDistributes
  <1> HIDE DEF a, b, c, d
  <1>9. Plus(Plus(a, b), Plus(c, d)) = Plus(Plus(a, Plus(b, c)), d)
    BY <1>7, PlusLaws
  <1> QED BY <1>2, <1>3, <1>4, <1>5, <1>6, <1>8, <1>9 DEF At, a, b, c, d

-----------------------------------------------------------------------------
(* Types and the running offset *)

DotStep == {"output", "cross", "line", "point"}

LoopInv ==
  /\ pc # "panic"
  /\ pc = "expand" => row = 0 /\ column = 0 /\ offset = 0
  /\ pc \in DotStep => column = 0 /\ offset = 0
  /\ pc \in Product => /\ offset = Triangle(row)
                       /\ IF row < MqN THEN column <= row + 1 ELSE column = 0

LEMMA SumsTyped ==
  ASSUME TypeOK, NEW f \in Product, NEW i \in Index
  PROVE  sums[f][i] \in [0 .. MqN -> Gf256x2]
  <1>1. sums[f] \in [Index -> [0 .. MqN -> Gf256x2]]
    BY DEF TypeOK
  <1> QED BY <1>1

LEMMA EmbeddedTyped ==
  ASSUME TypeOK, NEW i \in Index
  PROVE  /\ Embed(secret[i]) \in Gf256 /\ point \in Gf256x2
         /\ xZero[i] \in Gf256x2 /\ Opened(i) \in Gf256x2
  <1>1. Embed(secret[i]) \in Gf256 /\ point \in Gf256x2 /\ xZero[i] \in Gf256x2
    BY SampleAssumption DEF TypeOK
  <1>2. Scale(Embed(secret[i]), point) \in Gf256x2
    BY <1>1, ScaleIsTimes, TowerClosed
  <1> QED BY <1>1, <1>2, TowerClosed DEF Opened

LEMMA TermTyped ==
  ASSUME TypeOK, NEW f \in Product, NEW k \in Packed, NEW j \in Index
  PROVE  Term(f, k, j) \in Gf256x2
  <1>1. /\ Embed(secret[j]) \in Gf256 /\ xZero[j] \in Gf256x2 /\ Opened(j) \in Gf256x2
        /\ quadratic[k] \in Gf256x2
    BY EmbeddedTyped DEF TypeOK
  <1>2. Scale(Embed(secret[j]), quadratic[k]) \in Gf256x2
    BY <1>1, ScaleIsTimes, TowerClosed
  <1> QED BY <1>1, <1>2, TowerClosed DEF Term, Product

LEMMA ResultTyped ==
  ASSUME TypeOK, NEW i \in Index
  PROVE  /\ i \in Nat /\ i + 1 \in 0 .. MqN /\ i \in 0 .. MqN
         /\ \A f \in Product : Result(f, i) \in Gf256x2
         /\ linear[i] \in Gf256x2 /\ TOne(i) \in Gf256x2 /\ TOpened(i) \in Gf256x2
  <1>1. i \in Nat /\ i + 1 \in 0 .. MqN /\ i \in 0 .. MqN
    BY SizeAssumption DEF Index
  <1>2. \A f \in Product : Result(f, i) \in Gf256x2
    <2>1. \A f \in Product : sums[f][i] \in [0 .. MqN -> Gf256x2]
      BY SumsTyped
    <2> QED BY <1>1, <2>1 DEF Result
  <1>3. linear[i] \in Gf256x2 /\ point \in Gf256x2
    BY EmbeddedTyped DEF TypeOK
  <1>4. TOne(i) \in Gf256x2 /\ TOpened(i) \in Gf256x2
    BY <1>2, <1>3, TowerClosed DEF TOne, TOpened, Product
  <1> QED BY <1>1, <1>2, <1>3, <1>4

LEMMA LoopInit == Init => TypeOK /\ LoopInv
  <1> SUFFICES ASSUME Init PROVE TypeOK /\ LoopInv
    OBVIOUS
  <1>1. Zero \in Gf256x2 /\ MqN \in Nat
    BY SizeAssumption, TowerIsRing
  <1>2. TypeOK
    BY <1>1 DEF Init, TypeOK
  <1>3. LoopInv
    BY <1>1 DEF Init, LoopInv, DotStep, Product
  <1> QED BY <1>2, <1>3

LEMMA LoopStep == TypeOK /\ LoopInv /\ [Next]_vars => TypeOK' /\ LoopInv'
  <1> SUFFICES ASSUME TypeOK, LoopInv, [Next]_vars PROVE TypeOK' /\ LoopInv'
    OBVIOUS
  <1>1. MqN \in Nat /\ MqN > 0 /\ 0 \in 0 .. MqN
    BY SizeAssumption
  <1>2. row < MqN => row \in Index /\ row + 1 \in 0 .. MqN /\ row \in 0 .. MqN
    BY <1>1 DEF TypeOK, Index
  <1>3. Triangle(0) = 0 /\ Triangle(MqN) = TriangularElementCount
    BY <1>1, TriangleGrows DEF Triangle, TriangularElementCount
  <1>4. Product \cap DotStep = {} /\ "expand" \notin Product \cup DotStep
        /\ \A c \in {"none", "panic", "done"} : c \notin Product \cup DotStep
    BY DEF Product, DotStep
  <1>5. ASSUME RefuseIndex PROVE TypeOK' /\ LoopInv'
    BY <1>4, <1>5 DEF RefuseIndex, TypeOK, LoopInv, loop, arguments, equation
  <1>6. ASSUME Expand PROVE TypeOK' /\ LoopInv'
    <2>1. /\ \A k \in Packed : stream[k] \in Gf256x2
          /\ \A i \in Index : stream[TriangularElementCount + i] \in Gf256x2
      <3>1. TriangularElementCount \in Nat
        BY <1>1, TriangleGrows DEF Triangle, TriangularElementCount
      <3>2. stream \in [0 .. EquationElementCount - 1 -> Gf256x2]
        <4>1. stream \in Stream
          BY DEF TypeOK
        <4> QED BY <4>1, SampleAssumption
      <3>3. \A k \in Packed : k \in 0 .. EquationElementCount - 1
        BY <1>1, <3>1 DEF Packed, EquationElementCount
      <3>4. \A i \in Index : TriangularElementCount + i \in 0 .. EquationElementCount - 1
        BY <1>1, <3>1 DEF Index, EquationElementCount
      <3> QED BY <3>2, <3>3, <3>4
    <2>2. TypeOK'
      BY <1>6, <2>1 DEF Expand, TypeOK, loop, arguments, Product
    <2>3. LoopInv'
      BY <1>1, <1>3, <1>4, <1>6 DEF Expand, LoopInv, loop, Product
    <2> QED BY <2>2, <2>3
  <1>7. ASSUME NEW f \in Product, Multiply(f) PROVE TypeOK' /\ LoopInv'
    <2>1. /\ row \in Index /\ column \in 0 .. row /\ column \in Index
          /\ column + 1 \in 0 .. MqN /\ column \in 0 .. MqN
      BY <1>1, <1>2, <1>7 DEF Multiply, TypeOK, Index
    <2>2. /\ offset = Triangle(row) /\ offset + row < TriangularElementCount
          /\ offset + column \in Packed
      BY <1>7, <2>1, RowInTriangle DEF Multiply, LoopInv
    <2>3. Plus(sums[f][row][column], Term(f, offset + column, column)) \in Gf256x2
      <3>1. sums[f][row] \in [0 .. MqN -> Gf256x2]
        BY <2>1, SumsTyped
      <3>2. sums[f][row][column] \in Gf256x2
        BY <2>1, <3>1
      <3> QED BY <2>1, <2>2, <3>2, TermTyped, TowerClosed
    <2>4. /\ sums' = [sums EXCEPT ![f][row][column + 1] =
                         Plus(sums[f][row][column], Term(f, offset + column, column))]
          /\ column' = column + 1
          /\ UNCHANGED <<pc, row, offset, arguments, equation, claimed, dots>>
      BY <1>7, <2>2 DEF Multiply
    <2>5. sums' \in [Product -> [Index -> [0 .. MqN -> Gf256x2]]]
      BY <2>1, <2>3, <2>4 DEF TypeOK
    <2>6. TypeOK'
      BY <2>1, <2>4, <2>5 DEF TypeOK, arguments, equation
    <2>7. LoopInv'
      <3>1. pc = f /\ row < MqN /\ row' = row /\ offset' = Triangle(row') /\ pc' = f
        BY <1>7, <2>2, <2>4 DEF Multiply
      <3>2. column' <= row' + 1
        BY <2>1, <2>4 DEF Index
      <3> QED BY <1>4, <3>1, <3>2 DEF LoopInv
    <2> QED BY <2>6, <2>7
  <1>8. ASSUME NEW f \in Product, NextRow(f) PROVE TypeOK' /\ LoopInv'
    <2>1. row \in Nat /\ Triangle(row + 1) = Triangle(row) + row + 1 /\ offset + row + 1 \in Nat
      BY TriangleGrows DEF TypeOK
    <2>2. TypeOK'
      BY <1>1, <1>2, <1>8, <2>1 DEF NextRow, TypeOK, arguments, equation
    <2>3. LoopInv'
      BY <1>1, <1>2, <1>4, <1>8, <2>1 DEF NextRow, LoopInv, TypeOK
    <2> QED BY <2>2, <2>3
  <1>9. ASSUME NEW f \in Product, EndProduct(f) PROVE TypeOK' /\ LoopInv'
    <2>1. pc' = After(f) /\ After(f) \in DotStep /\ column = 0
      BY <1>1, <1>3, <1>9 DEF EndProduct, LoopInv, After, Product, DotStep
    <2>2. TypeOK'
      BY <1>1, <1>9, <2>1 DEF EndProduct, TypeOK, arguments, equation, DotStep
    <2>3. LoopInv'
      BY <1>4, <1>9, <2>1 DEF EndProduct, LoopInv
    <2> QED BY <2>2, <2>3
  <1>10. \A z \in Dot, g \in Gf256x2 :
           row < MqN => Accumulate(z, g) \in [0 .. MqN -> Gf256x2]
    <2> SUFFICES ASSUME NEW z \in Dot, NEW g \in Gf256x2, row < MqN
                 PROVE  Accumulate(z, g) \in [0 .. MqN -> Gf256x2]
      OBVIOUS
    <2>1. dots[z] \in [0 .. MqN -> Gf256x2] /\ dots[z][row] \in Gf256x2
      BY <1>2 DEF TypeOK
    <2>2. Plus(dots[z][row], g) \in Gf256x2
      BY <2>1, TowerClosed
    <2> QED BY <2>1, <2>2 DEF Accumulate
  <1>11. ASSUME Evaluate PROVE TypeOK' /\ LoopInv'
    <2> DEFINE s == Embed(secret[row])
               g == Plus(Scale(s, Result("base", row)), Scale(s, linear[row]))
    <2>1. row \in Index
      BY <1>2, <1>11 DEF Evaluate
    <2>2. s \in Gf256 /\ Result("base", row) \in Gf256x2 /\ linear[row] \in Gf256x2
      BY <2>1, EmbeddedTyped, ResultTyped DEF Product
    <2>3. g \in Gf256x2
      BY <2>2, ScaleIsTimes, TowerClosed
    <2> HIDE DEF g
    <2>4. Accumulate("output", g) \in [0 .. MqN -> Gf256x2]
      BY <1>10, <1>11, <2>3 DEF Evaluate, Dot
    <2>5. dots' = [dots EXCEPT !["output"] = Accumulate("output", g)]
      BY <1>11 DEF Evaluate, g
    <2>6. TypeOK'
      BY <1>2, <1>11, <2>4, <2>5 DEF Evaluate, TypeOK, arguments, equation
    <2>7. LoopInv'
      BY <1>4, <1>11 DEF Evaluate, LoopInv, DotStep
    <2> QED BY <2>6, <2>7
  <1>12. ASSUME Evaluated PROVE TypeOK' /\ LoopInv'
    <2>1. TypeOK'
      BY <1>1, <1>12 DEF Evaluated, TypeOK, arguments, equation, Product
    <2>2. LoopInv'
      BY <1>1, <1>3, <1>4, <1>12 DEF Evaluated, LoopInv, DotStep, Product
    <2> QED BY <2>1, <2>2
  <1>13. ASSUME Cross PROVE TypeOK' /\ LoopInv'
    <2> DEFINE g == Times(Result("signer", row), xZero[row])
               h == Scale(Embed(secret[row]), Result("signer", row))
    <2>1. row \in Index
      BY <1>2, <1>13 DEF Cross
    <2>2. /\ Embed(secret[row]) \in Gf256 /\ xZero[row] \in Gf256x2
          /\ Result("signer", row) \in Gf256x2
      BY <2>1, EmbeddedTyped, ResultTyped DEF Product
    <2>3. g \in Gf256x2 /\ h \in Gf256x2
      <3>1. /\ <<Embed(secret[row]), Zero256>> \in Gf256x2
            /\ h = Times(<<Embed(secret[row]), Zero256>>, Result("signer", row))
        BY <2>2, ScaleIsTimes
      <3> HIDE DEF h
      <3> QED BY <2>2, <3>1, TowerClosed
    <2> HIDE DEF g, h
    <2>4. /\ Accumulate("zZero", g) \in [0 .. MqN -> Gf256x2]
          /\ Accumulate("cross", h) \in [0 .. MqN -> Gf256x2]
      BY <1>10, <1>13, <2>3 DEF Cross, Dot
    <2>5. dots' = [dots EXCEPT !["zZero"] = Accumulate("zZero", g),
                              !["cross"] = Accumulate("cross", h)]
      BY <1>13 DEF Cross, g, h
    <2>6. TypeOK'
      BY <1>2, <1>13, <2>4, <2>5 DEF Cross, TypeOK, arguments, equation
    <2>7. LoopInv'
      BY <1>4, <1>13 DEF Cross, LoopInv, DotStep
    <2> QED BY <2>6, <2>7
  <1>14. ASSUME Crossed PROVE TypeOK' /\ LoopInv'
    <2>1. Value("cross") \in Gf256x2
      <3>1. dots \in [Dot -> [0 .. MqN -> Gf256x2]] /\ "cross" \in Dot /\ MqN \in 0 .. MqN
        BY <1>1 DEF TypeOK, Dot
      <3> QED BY <3>1 DEF Value
    <2>2. TypeOK'
      BY <1>1, <1>14, <2>1 DEF Crossed, TypeOK, arguments, equation
    <2>3. LoopInv'
      BY <1>4, <1>14 DEF Crossed, LoopInv, DotStep
    <2> QED BY <2>2, <2>3
  <1>15. ASSUME AddLine PROVE TypeOK' /\ LoopInv'
    <2>1. row \in Index
      BY <1>2, <1>15 DEF AddLine
    <2>2. Times(TOne(row), xZero[row]) \in Gf256x2
      BY <2>1, EmbeddedTyped, ResultTyped, TowerClosed
    <2>3. Accumulate("zOne", Times(TOne(row), xZero[row])) \in [0 .. MqN -> Gf256x2]
      BY <1>10, <1>15, <2>2 DEF AddLine, Dot
    <2>4. TypeOK'
      BY <1>2, <1>15, <2>3 DEF AddLine, TypeOK, arguments, equation
    <2>5. LoopInv'
      BY <1>4, <1>15 DEF AddLine, LoopInv, DotStep
    <2> QED BY <2>4, <2>5
  <1>16. ASSUME LineAdded PROVE TypeOK' /\ LoopInv'
    <2>1. TypeOK'
      BY <1>1, <1>16 DEF LineAdded, TypeOK, arguments, equation, Product
    <2>2. LoopInv'
      BY <1>1, <1>3, <1>4, <1>16 DEF LineAdded, LoopInv, DotStep, Product
    <2> QED BY <2>1, <2>2
  <1>17. ASSUME EvaluatePoint PROVE TypeOK' /\ LoopInv'
    <2>1. row \in Index
      BY <1>2, <1>17 DEF EvaluatePoint
    <2>2. Times(TOpened(row), Opened(row)) \in Gf256x2
      BY <2>1, EmbeddedTyped, ResultTyped, TowerClosed
    <2>3. Accumulate("zOpened", Times(TOpened(row), Opened(row))) \in [0 .. MqN -> Gf256x2]
      BY <1>10, <1>17, <2>2 DEF EvaluatePoint, Dot
    <2>4. TypeOK'
      BY <1>2, <1>17, <2>3 DEF EvaluatePoint, TypeOK, arguments, equation
    <2>5. LoopInv'
      BY <1>4, <1>17 DEF EvaluatePoint, LoopInv, DotStep
    <2> QED BY <2>4, <2>5
  <1>18. ASSUME Claim PROVE TypeOK' /\ LoopInv'
    BY <1>4, <1>18 DEF Claim, TypeOK, LoopInv, loop, arguments, equation
  <1>19. ASSUME UNCHANGED vars PROVE TypeOK' /\ LoopInv'
    BY <1>19 DEF vars, loop, arguments, equation, TypeOK, LoopInv
  <1> QED BY <1>5, <1>6, <1>7, <1>8, <1>9, <1>11, <1>12, <1>13, <1>14, <1>15, <1>16,
             <1>17, <1>18, <1>19 DEF Next

LEMMA LoopHolds == Spec => [](TypeOK /\ LoopInv)
  BY LoopInit, LoopStep, PTL DEF Spec

(* The types are preserved by every step. *)
THEOREM TypeCorrect == Spec => []TypeOK
  BY LoopHolds, PTL

(* Every slice lies in the packed triangle and the rows end at its end, so *)
(* the checks that release builds leave out would not fail (mq.rs:59).     *)
THEOREM OffsetsCorrect == Spec => []NeverPanics
  <1>1. TypeOK /\ LoopInv => NeverPanics
    BY DEF LoopInv, NeverPanics
  <1> QED BY <1>1, LoopHolds, PTL

-----------------------------------------------------------------------------
(* The products *)

(* What runs after a product, and after a loop over its results. *)
Later(f) ==
  CASE f = "base" -> {"output", "signer", "cross", "line", "opened", "point", "done"}
    [] f = "output" -> {"signer", "cross", "line", "opened", "point", "done"}
    [] f = "signer" -> {"cross", "line", "opened", "point", "done"}
    [] f = "cross" -> {"line", "opened", "point", "done"}
    [] f = "line" -> {"opened", "point", "done"}
    [] f = "opened" -> {"point", "done"}
    [] f = "point" -> {"done"}

(* Product f has added column k of row i. *)
Added(f, i, k) ==
  \/ pc \in Later(f)
  \/ pc = f /\ (i < row \/ (i = row /\ k < column))

SumsInv ==
  \A f \in Product, i \in Index :
    /\ sums[f][i][0] = Zero
    /\ \A k \in 0 .. i : Added(f, i, k) =>
         sums[f][i][k + 1] = Plus(sums[f][i][k], Term(f, Triangle(i) + k, k))

(* Column by column, the product at the opened point is the line through   *)
(* the other two.                                                          *)
OpenedInv ==
  \A i \in Index : \A k \in 0 .. i : Added("opened", i, k) =>
    sums["opened"][i][k + 1]
      = Plus(sums["signer"][i][k + 1], Times(point, sums["base"][i][k + 1]))

LEMMA OneColumn ==
  ASSUME TypeOK, NEW k \in Packed, NEW j \in Index
  PROVE  Term("opened", k, j)
           = Plus(Term("signer", k, j), Times(point, Term("base", k, j)))
  <1> DEFINE e == <<Embed(secret[j]), Zero256>>
             q == quadratic[k]
  <1>1. /\ Embed(secret[j]) \in Gf256 /\ xZero[j] \in Gf256x2 /\ point \in Gf256x2
        /\ q \in Gf256x2
    BY EmbeddedTyped DEF TypeOK
  <1>2. /\ e \in Gf256x2 /\ Scale(Embed(secret[j]), q) = Times(e, q)
        /\ Scale(Embed(secret[j]), point) = Times(e, point)
    BY <1>1, ScaleIsTimes
  <1> HIDE DEF e, q
  <1>3. Times(q, Plus(xZero[j], Times(e, point)))
          = Plus(Times(q, xZero[j]), Times(q, Times(e, point)))
    BY <1>1, <1>2, TowerClosed, TimesDistributes
  <1>4. Times(q, Times(e, point)) = Times(point, Times(e, q))
    <2>1. Times(q, Times(e, point)) = Times(e, Times(q, point))
      BY <1>1, <1>2, TimesSwap
    <2>2. Times(q, point) = Times(point, q)
      BY <1>1, TimesCommutes
    <2>3. Times(e, Times(point, q)) = Times(point, Times(e, q))
      BY <1>1, <1>2, TimesSwap
    <2> QED BY <2>1, <2>2, <2>3
  <1> QED BY <1>2, <1>3, <1>4 DEF Term, Opened, q

(* Only Multiply adds a column. *)
LEMMA AddedOnlyByMultiply ==
  ASSUME TypeOK, LoopInv, [Next]_vars, ~\E f \in Product : Multiply(f)
  PROVE  /\ sums' = sums
         /\ \A f \in Product, i \in Index : \A k \in 0 .. i :
              Added(f, i, k)' => /\ Added(f, i, k)
                                 /\ UNCHANGED <<quadratic, linear, secret, xZero, point>>
  <1> DEFINE Goal == /\ sums' = sums
                     /\ \A f \in Product, i \in Index : \A k \in 0 .. i :
                          Added(f, i, k)' =>
                            /\ Added(f, i, k)
                            /\ UNCHANGED <<quadratic, linear, secret, xZero, point>>
  <1>1. CASE RefuseIndex
    BY <1>1 DEF RefuseIndex, Added, Later, Product
  <1>2. CASE Expand
    BY <1>2 DEF Expand, Added, Later, Product, LoopInv, Index, loop, arguments
  <1>3. ASSUME NEW f \in Product, NextRow(f) PROVE Goal
    <2>1. \A g \in Product, i \in Index : \A k \in 0 .. i : Added(g, i, k)' => Added(g, i, k)
      BY <1>3 DEF NextRow, Added, Index, TypeOK
    <2> QED BY <1>3, <2>1 DEF NextRow, arguments, equation
  <1>4. ASSUME NEW f \in Product, EndProduct(f) PROVE Goal
    <2>1. \A g \in Product, i \in Index : \A k \in 0 .. i : Added(g, i, k)' => Added(g, i, k)
      <3>1. pc = f /\ \A i \in Index : i < row
        BY <1>4, SizeAssumption DEF EndProduct, Index
      <3>2. pc' = After(f)
        BY <1>4 DEF EndProduct, LoopInv, Product, DotStep, TriangularElementCount, Triangle
      <3> QED BY <3>1, <3>2 DEF Added, After, Later, Product
    <2> QED BY <1>4, <2>1 DEF EndProduct, arguments, equation
  <1>5. CASE Evaluate
    BY <1>5 DEF Evaluate, Added, Later, Product, arguments, equation
  <1>6. CASE Evaluated
    BY <1>6 DEF Evaluated, Added, Later, Product, LoopInv, DotStep, Index, arguments, equation
  <1>7. CASE Cross
    BY <1>7 DEF Cross, Added, Later, Product, arguments, equation
  <1>8. CASE Crossed
    BY <1>8 DEF Crossed, Added, Later, Product, arguments, equation
  <1>9. CASE AddLine
    BY <1>9 DEF AddLine, Added, Later, Product, arguments, equation
  <1>10. CASE LineAdded
    BY <1>10 DEF LineAdded, Added, Later, Product, LoopInv, DotStep, Index, arguments, equation
  <1>11. CASE EvaluatePoint
    BY <1>11 DEF EvaluatePoint, Added, Later, Product, arguments, equation
  <1>12. CASE Claim
    BY <1>12 DEF Claim, Added, Later, Product, arguments, equation
  <1>13. CASE UNCHANGED vars
    BY <1>13 DEF vars, loop, arguments, equation, Added
  <1> QED BY <1>1, <1>2, <1>3, <1>4, <1>5, <1>6, <1>7, <1>8, <1>9, <1>10, <1>11, <1>12, <1>13
          DEF Next

(* What Multiply does, in terms of the rows and columns. *)
LEMMA OneMultiply ==
  ASSUME TypeOK, LoopInv, NEW f \in Product, Multiply(f)
  PROVE  /\ row \in Index /\ column \in 0 .. row /\ column \in Index
         /\ column \in 0 .. MqN /\ column + 1 \in 0 .. MqN
         /\ pc = f /\ Triangle(row) + column \in Packed
         /\ sums' = [sums EXCEPT ![f][row][column + 1] =
                        Plus(sums[f][row][column], Term(f, Triangle(row) + column, column))]
         /\ column' = column + 1
         /\ UNCHANGED <<pc, row, offset, arguments, equation, claimed, dots>>
  <1>1. /\ row \in Index /\ column \in 0 .. row /\ column \in Index
        /\ column \in 0 .. MqN /\ column + 1 \in 0 .. MqN /\ pc = f
    BY SizeAssumption DEF Multiply, TypeOK, Index
  <1>2. offset = Triangle(row)
    BY <1>1 DEF LoopInv
  <1>3. offset + row < TriangularElementCount /\ Triangle(row) + column \in Packed
    BY <1>1, <1>2, RowInTriangle
  <1> QED BY <1>1, <1>2, <1>3 DEF Multiply

LEMMA SumsStep ==
  TypeOK /\ LoopInv /\ SumsInv /\ OpenedInv /\ [Next]_vars => SumsInv' /\ OpenedInv'
  <1> SUFFICES ASSUME TypeOK, LoopInv, SumsInv, OpenedInv, [Next]_vars
               PROVE  SumsInv' /\ OpenedInv'
    OBVIOUS
  <1>1. CASE ~\E f \in Product : Multiply(f)
    <2>1. SumsInv'
      <3> SUFFICES ASSUME NEW f \in Product, NEW i \in Index
                   PROVE  /\ sums'[f][i][0] = Zero
                          /\ \A k \in 0 .. i : Added(f, i, k)' =>
                               sums'[f][i][k + 1]
                                 = Plus(sums'[f][i][k], Term(f, Triangle(i) + k, k)')
        BY DEF SumsInv
      <3>1. sums'[f][i][0] = Zero
        BY <1>1, AddedOnlyByMultiply DEF SumsInv
      <3>2. ASSUME NEW k \in 0 .. i, Added(f, i, k)'
            PROVE  sums'[f][i][k + 1] = Plus(sums'[f][i][k], Term(f, Triangle(i) + k, k)')
        <4>1. /\ sums' = sums /\ Added(f, i, k)
              /\ UNCHANGED <<quadratic, secret, xZero, point>>
          BY <1>1, <3>2, AddedOnlyByMultiply
        <4>2. Term(f, Triangle(i) + k, k)' = Term(f, Triangle(i) + k, k)
          BY <4>1 DEF Term, Opened
        <4> QED BY <4>1, <4>2 DEF SumsInv
      <3> QED BY <3>1, <3>2
    <2>2. OpenedInv'
      BY <1>1, AddedOnlyByMultiply DEF OpenedInv, Product
    <2> QED BY <2>1, <2>2
  <1>2. ASSUME NEW f \in Product, Multiply(f) PROVE SumsInv' /\ OpenedInv'
    <2> DEFINE new == Plus(sums[f][row][column], Term(f, Triangle(row) + column, column))
    <2>1. /\ row \in Index /\ column \in 0 .. row /\ column \in Index
          /\ column \in 0 .. MqN /\ column + 1 \in 0 .. MqN
          /\ pc = f /\ Triangle(row) + column \in Packed
          /\ sums' = [sums EXCEPT ![f][row][column + 1] = new]
          /\ column' = column + 1
          /\ UNCHANGED <<pc, row, quadratic, secret, xZero, point>>
      BY <1>2, OneMultiply DEF arguments, equation
    <2>2. \A g \in Product : \A k, j : Term(g, k, j)' = Term(g, k, j)
      BY <2>1 DEF Term, Opened
    <2>3. /\ sums'[f][row][column + 1] = new
          /\ \A g \in Product, i \in Index, k \in 0 .. MqN :
               ~(g = f /\ i = row /\ k = column + 1) => sums'[g][i][k] = sums[g][i][k]
      <3>1. /\ sums \in [Product -> [Index -> [0 .. MqN -> Gf256x2]]]
            /\ \A g \in Product, i \in Index : sums[g][i] \in [0 .. MqN -> Gf256x2]
        BY SumsTyped DEF TypeOK
      <3> HIDE DEF new
      <3>2. sums' = [sums EXCEPT ![f] =
                       [sums[f] EXCEPT ![row] = [sums[f][row] EXCEPT ![column + 1] = new]]]
        BY <2>1
      <3>3. sums[f] \in [Index -> [0 .. MqN -> Gf256x2]]
        BY <3>1
      <3> DEFINE newRow == [sums[f][row] EXCEPT ![column + 1] = new]
      <3>4. /\ newRow[column + 1] = new
            /\ \A k \in 0 .. MqN : k # column + 1 => newRow[k] = sums[f][row][k]
        BY <2>1, <3>1
      <3> HIDE DEF newRow
      <3>5. /\ sums'[f] = [sums[f] EXCEPT ![row] = newRow]
            /\ \A g \in Product : g # f => sums'[g] = sums[g]
        BY <3>1, <3>2 DEF newRow
      <3>6. /\ sums'[f][row] = newRow
            /\ \A i \in Index : i # row => sums'[f][i] = sums[f][i]
        BY <2>1, <3>3, <3>5
      <3>7. ASSUME NEW g \in Product, NEW i \in Index, NEW k \in 0 .. MqN,
                   ~(g = f /\ i = row /\ k = column + 1)
            PROVE  sums'[g][i][k] = sums[g][i][k]
        BY <3>4, <3>5, <3>6, <3>7
      <3> QED BY <3>4, <3>6, <3>7
    <2>4. \A i \in Index : \A k \in 0 .. i : k \in 0 .. MqN /\ k + 1 \in 0 .. MqN
      BY SizeAssumption DEF Index
    <2>5. \A g \in Product, i \in Index : \A k \in 0 .. i :
            Added(g, i, k)' => Added(g, i, k) \/ (g = f /\ i = row /\ k = column)
      BY <2>1 DEF Added, Index
    <2>6. \A i \in Index : \A k \in 0 .. i :
            Added(f, i, k) => ~(i = row /\ k + 1 = column + 1) /\ ~(i = row /\ k = column + 1)
      <3>1. pc \notin Later(f)
        BY <2>1 DEF Later, Product
      <3> QED BY <2>1, <3>1 DEF Added, Index
    <2> HIDE DEF new
    <2>7. SumsInv'
      <3> SUFFICES ASSUME NEW g \in Product, NEW i \in Index
                   PROVE  /\ sums'[g][i][0] = Zero
                          /\ \A k \in 0 .. i : Added(g, i, k)' =>
                               sums'[g][i][k + 1]
                                 = Plus(sums'[g][i][k], Term(g, Triangle(i) + k, k)')
        BY DEF SumsInv
      <3>1. sums'[g][i][0] = Zero
        <4>1. 0 \in 0 .. MqN /\ 0 # column + 1
          BY <2>1, SizeAssumption DEF Index
        <4> QED BY <2>3, <4>1 DEF SumsInv
      <3>2. ASSUME NEW k \in 0 .. i, Added(g, i, k)'
            PROVE  sums'[g][i][k + 1] = Plus(sums'[g][i][k], Term(g, Triangle(i) + k, k))
        <4>1. k \in 0 .. MqN /\ k + 1 \in 0 .. MqN
          BY <2>4
        <4>2. CASE g = f /\ i = row /\ k = column
          <5>1. k # column + 1
            BY <2>1, <4>2
          <5>2. sums'[g][i][k] = sums[f][row][column]
            BY <2>3, <4>1, <4>2, <5>1
          <5> QED BY <2>3, <4>2, <5>2 DEF new
        <4>3. CASE ~(g = f /\ i = row /\ k = column)
          <5>1. Added(g, i, k)
            BY <2>5, <3>2, <4>3
          <5>2. sums'[g][i][k + 1] = sums[g][i][k + 1] /\ sums'[g][i][k] = sums[g][i][k]
            BY <2>3, <2>6, <4>1, <5>1
          <5> QED BY <5>1, <5>2 DEF SumsInv
        <4> QED BY <4>2, <4>3
      <3> QED BY <2>2, <3>1, <3>2
    <2>8. OpenedInv'
      <3> SUFFICES ASSUME NEW i \in Index, NEW k \in 0 .. i, Added("opened", i, k)'
                   PROVE  sums'["opened"][i][k + 1]
                            = Plus(sums'["signer"][i][k + 1],
                                   Times(point, sums'["base"][i][k + 1]))
        BY <2>1 DEF OpenedInv
      <3>1. f = "opened"
        BY <2>1 DEF Added, Later, Product
      <3>2. /\ "opened" \in Product /\ "signer" \in Product /\ "base" \in Product
            /\ k \in 0 .. MqN /\ k + 1 \in 0 .. MqN
        BY <2>4 DEF Product
      <3>3. /\ sums'["signer"][i][k + 1] = sums["signer"][i][k + 1]
            /\ sums'["base"][i][k + 1] = sums["base"][i][k + 1]
        BY <2>3, <3>1, <3>2
      <3>4. CASE ~(i = row /\ k = column)
        <4>1. Added("opened", i, k)
          BY <2>5, <3>1, <3>4
        <4>2. sums'["opened"][i][k + 1] = sums["opened"][i][k + 1]
          BY <2>3, <2>6, <3>1, <3>2, <4>1
        <4> QED BY <3>3, <4>1, <4>2 DEF OpenedInv
      <3>5. CASE i = row /\ k = column
        <4> DEFINE a(g) == sums[g][i][k]
                   t(g) == Term(g, Triangle(i) + k, k)
        <4>1. Triangle(i) + k \in Packed /\ k \in Index /\ point \in Gf256x2
          BY <2>1, <3>5, EmbeddedTyped
        <4>2. \A g \in Product : t(g) \in Gf256x2
          BY <4>1, TermTyped
        <4>3. \A g \in Product : a(g) \in Gf256x2
          BY <3>2, SumsTyped
        <4>4. a("opened") = Plus(a("signer"), Times(point, a("base")))
          <5>1. CASE k = 0
            <6>1. a("opened") = Zero /\ a("signer") = Zero /\ a("base") = Zero
              BY <3>2, <5>1 DEF SumsInv
            <6>2. Times(point, Zero) = Zero /\ Plus(Zero, Zero) = Zero
              BY <4>1, TowerIsRing, PlusZero
            <6> QED BY <6>1, <6>2
          <5>2. CASE k # 0
            <6>1. k - 1 \in 0 .. i /\ (k - 1) + 1 = k
              BY <5>2 DEF Index
            <6>2. Added("opened", i, k - 1)
              BY <2>1, <3>1, <3>5, <6>1 DEF Added
            <6>3. sums["opened"][i][(k - 1) + 1]
                    = Plus(sums["signer"][i][(k - 1) + 1],
                           Times(point, sums["base"][i][(k - 1) + 1]))
              BY <6>1, <6>2 DEF OpenedInv
            <6> QED BY <6>1, <6>3
          <5> QED BY <5>1, <5>2
        <4>5. t("opened") = Plus(t("signer"), Times(point, t("base")))
          BY <4>1, OneColumn
        <4>6. \A g \in {"signer", "base"} : sums[g][i][k + 1] = Plus(a(g), t(g))
          <5>1. \A g \in {"signer", "base"} : Added(g, i, k)
            BY <2>1, <3>1 DEF Added, Later
          <5> QED BY <5>1, <3>2 DEF SumsInv
        <4>7. sums'["opened"][i][k + 1] = Plus(a("opened"), t("opened"))
          BY <2>3, <3>1, <3>5 DEF new
        <4> HIDE DEF a, t
        <4>8. Times(point, Plus(a("base"), t("base")))
                = Plus(Times(point, a("base")), Times(point, t("base")))
          BY <3>2, <4>1, <4>2, <4>3, TimesDistributes
        <4>9. Plus(Plus(a("signer"), Times(point, a("base"))),
                   Plus(t("signer"), Times(point, t("base"))))
                = Plus(Plus(a("signer"), t("signer")),
                       Plus(Times(point, a("base")), Times(point, t("base"))))
          BY <3>2, <4>1, <4>2, <4>3, TowerClosed, PlusSwap
        <4> QED BY <3>3, <4>4, <4>5, <4>6, <4>7, <4>8, <4>9
      <3> QED BY <3>4, <3>5
    <2> QED BY <2>7, <2>8
  <1> QED BY <1>1, <1>2

-----------------------------------------------------------------------------
(* The sums over rows *)

(* Loop z has added row i. *)
Joined(z, i) == pc \in Later(z) \/ (pc = z /\ i < row)

(* The three coefficients after i rows, evaluated at the point.  The code  *)
(* goes on from the cross terms with the second loop into z_one, so these  *)
(* are in zOne from the start and taken out here.                          *)
Coefficient(i) == Plus(dots["cross"][i], Plus(dots["zOne"][i], Value("cross")))
LineAt(i) == At(point, dots["zZero"][i], Coefficient(i), dots["output"][i])

OutputTerm(i) ==
  Plus(Scale(Embed(secret[i]), Result("base", i)), Scale(Embed(secret[i]), linear[i]))

DotsInv ==
  /\ \A z \in Dot \ {"zOne"} : dots[z][0] = Zero
  /\ pc \in {"line"} \cup Later("line") => dots["zOne"][0] = Value("cross")
  /\ \A i \in Index :
       /\ Joined("output", i) =>
            dots["output"][i + 1] = Plus(dots["output"][i], OutputTerm(i))
       /\ Joined("cross", i) =>
            /\ dots["zZero"][i + 1]
                 = Plus(dots["zZero"][i], Times(Result("signer", i), xZero[i]))
            /\ dots["cross"][i + 1]
                 = Plus(dots["cross"][i], Scale(Embed(secret[i]), Result("signer", i)))
       /\ Joined("line", i) =>
            dots["zOne"][i + 1] = Plus(dots["zOne"][i], Times(TOne(i), xZero[i]))
       /\ Joined("point", i) => dots["zOpened"][i + 1] = LineAt(i + 1)

(* One row at the opened point is one row of each coefficient.             *)
LEMMA OneRow ==
  ASSUME TypeOK, LoopInv, OpenedInv, NEW i \in Index, pc \in {"point", "done"}
  PROVE  Times(TOpened(i), Opened(i))
           = At(point, Times(Result("signer", i), xZero[i]),
                Plus(Scale(Embed(secret[i]), Result("signer", i)), Times(TOne(i), xZero[i])),
                OutputTerm(i))
  <1> DEFINE e == <<Embed(secret[i]), Zero256>>
             a == Result("signer", i)
             b == Result("base", i)
             l == linear[i]
  <1>1. /\ Embed(secret[i]) \in Gf256 /\ xZero[i] \in Gf256x2 /\ point \in Gf256x2
        /\ a \in Gf256x2 /\ b \in Gf256x2 /\ l \in Gf256x2 /\ TOne(i) \in Gf256x2
    BY EmbeddedTyped, ResultTyped DEF Product
  <1>2. /\ e \in Gf256x2 /\ Scale(Embed(secret[i]), a) = Times(e, a)
        /\ Scale(Embed(secret[i]), b) = Times(e, b) /\ Scale(Embed(secret[i]), l) = Times(e, l)
        /\ Scale(Embed(secret[i]), point) = Times(e, point)
    BY <1>1, ScaleIsTimes
  <1>3. Result("opened", i) = Plus(a, Times(point, b))
    <2>1. i \in 0 .. i /\ Added("opened", i, i)
      BY DEF Added, Later, Index
    <2> QED BY <2>1 DEF OpenedInv, Result
  <1> HIDE DEF e, a, b, l
  <1>4. TOpened(i) = Plus(a, Times(point, TOne(i)))
    <2>1. /\ TOpened(i) = Plus(Plus(a, Times(point, b)), Times(point, l))
          /\ TOne(i) = Plus(b, l)
      BY <1>3 DEF TOpened, TOne, b, l
    <2>2. Times(point, Plus(b, l)) = Plus(Times(point, b), Times(point, l))
      BY <1>1, TimesDistributes
    <2>3. Times(point, b) \in Gf256x2 /\ Times(point, l) \in Gf256x2
      BY <1>1, TowerClosed
    <2> QED BY <1>1, <2>1, <2>2, <2>3, PlusLaws
  <1>5. OutputTerm(i) = Times(e, TOne(i))
    <2>1. OutputTerm(i) = Plus(Times(e, b), Times(e, l)) /\ TOne(i) = Plus(b, l)
      BY <1>2 DEF OutputTerm, TOne, b, l
    <2> QED BY <1>1, <1>2, <2>1, TimesDistributes
  <1>6. Times(Plus(a, Times(point, TOne(i))), Plus(xZero[i], Times(e, point)))
          = At(point, Times(a, xZero[i]), Plus(Times(e, a), Times(TOne(i), xZero[i])),
               Times(e, TOne(i)))
    BY <1>1, <1>2, LineProduct
  <1> QED BY <1>2, <1>4, <1>5, <1>6 DEF Opened, a

LEMMA DotsTyped ==
  ASSUME TypeOK, NEW z \in Dot, NEW k \in 0 .. MqN
  PROVE  dots[z][k] \in Gf256x2
  <1>1. dots[z] \in [0 .. MqN -> Gf256x2]
    BY DEF TypeOK
  <1> QED BY <1>1

LEMMA LineAtTyped ==
  ASSUME TypeOK, NEW k \in 0 .. MqN
  PROVE  /\ dots["zZero"][k] \in Gf256x2 /\ dots["cross"][k] \in Gf256x2
         /\ dots["zOne"][k] \in Gf256x2 /\ dots["output"][k] \in Gf256x2
         /\ Value("cross") \in Gf256x2 /\ Coefficient(k) \in Gf256x2
  <1>1. /\ dots["zZero"][k] \in Gf256x2 /\ dots["cross"][k] \in Gf256x2
        /\ dots["zOne"][k] \in Gf256x2 /\ dots["output"][k] \in Gf256x2
    BY DotsTyped DEF Dot
  <1>2. Value("cross") \in Gf256x2
    <2>1. "cross" \in Dot /\ MqN \in 0 .. MqN
      BY SizeAssumption DEF Dot
    <2> QED BY <2>1, DotsTyped DEF Value
  <1> QED BY <1>1, <1>2, TowerClosed DEF Coefficient

(* The value at the point after i rows: before the first, and from row to  *)
(* row.                                                                    *)
LEMMA LineStarts ==
  ASSUME TypeOK, DotsInv, pc \in {"point", "done"}
  PROVE  dots["zOpened"][0] = LineAt(0) /\ LineAt(0) = Zero
  <1>1. 0 \in 0 .. MqN
    BY SizeAssumption
  <1>2. point \in Gf256x2 /\ Zero \in Gf256x2 /\ Square(point) \in Gf256x2
    <2>1. 0 \in Index
      BY SizeAssumption DEF Index
    <2> QED BY <2>1, EmbeddedTyped, TowerIsRing DEF Square
  <1>3. /\ dots["zOpened"][0] = Zero /\ dots["zZero"][0] = Zero
        /\ dots["cross"][0] = Zero /\ dots["output"][0] = Zero
        /\ dots["zOne"][0] = Value("cross")
    BY DEF DotsInv, Dot, Later
  <1>4. Value("cross") \in Gf256x2
    BY <1>1, LineAtTyped
  <1>5. Coefficient(0) = Zero
    BY <1>2, <1>3, <1>4, PlusLaws DEF Coefficient
  <1>6. LineAt(0) = Zero
    BY <1>2, <1>3, <1>5, PlusZero DEF LineAt, At
  <1> QED BY <1>3, <1>6

LEMMA LineGrows ==
  ASSUME TypeOK, LoopInv, OpenedInv, DotsInv, pc \in {"point", "done"}, NEW i \in Index
  PROVE  LineAt(i + 1) = Plus(LineAt(i), Times(TOpened(i), Opened(i)))
  <1>1. i \in 0 .. MqN /\ i + 1 \in 0 .. MqN /\ i \in Nat
    BY SizeAssumption DEF Index
  <1>2. point \in Gf256x2 /\ Square(point) \in Gf256x2
    BY EmbeddedTyped, TowerIsRing DEF Square
  <1> DEFINE zZero == dots["zZero"][i]
             cross == dots["cross"][i]
             zOne == dots["zOne"][i]
             output == dots["output"][i]
             v == Value("cross")
             dZero == Times(Result("signer", i), xZero[i])
             dCross == Scale(Embed(secret[i]), Result("signer", i))
             dOne == Times(TOne(i), xZero[i])
             dOutput == OutputTerm(i)
  <1>3. /\ zZero \in Gf256x2 /\ cross \in Gf256x2 /\ zOne \in Gf256x2 /\ output \in Gf256x2
        /\ v \in Gf256x2 /\ Coefficient(i) \in Gf256x2
    BY <1>1, LineAtTyped
  <1>4. /\ Embed(secret[i]) \in Gf256 /\ xZero[i] \in Gf256x2
        /\ Result("signer", i) \in Gf256x2 /\ Result("base", i) \in Gf256x2
        /\ linear[i] \in Gf256x2 /\ TOne(i) \in Gf256x2
    BY <1>1, EmbeddedTyped, ResultTyped DEF Product
  <1>5. dZero \in Gf256x2 /\ dOne \in Gf256x2
    BY <1>4, TowerClosed
  <1>6. dCross \in Gf256x2
    BY <1>4, ScaleIsTimes, TowerClosed
  <1>7. dOutput \in Gf256x2
    BY <1>4, ScaleIsTimes, TowerClosed DEF OutputTerm
  <1>8. Joined("output", i) /\ Joined("cross", i) /\ Joined("line", i)
    BY DEF Joined, Later
  <1>9. /\ dots["zZero"][i + 1] = Plus(zZero, dZero)
        /\ dots["cross"][i + 1] = Plus(cross, dCross)
        /\ dots["zOne"][i + 1] = Plus(zOne, dOne)
        /\ dots["output"][i + 1] = Plus(output, dOutput)
    BY <1>1, <1>8 DEF DotsInv
  <1>10. Times(TOpened(i), Opened(i)) = At(point, dZero, Plus(dCross, dOne), dOutput)
    BY <1>1, OneRow
  <1>11. LineAt(i) = At(point, zZero, Coefficient(i), output)
    BY DEF LineAt
  <1>12. /\ Coefficient(i) = Plus(cross, Plus(zOne, v))
         /\ Coefficient(i + 1) = Plus(Plus(cross, dCross), Plus(Plus(zOne, dOne), v))
    BY <1>9 DEF Coefficient
  <1>13. LineAt(i + 1)
           = At(point, Plus(zZero, dZero), Coefficient(i + 1), Plus(output, dOutput))
    BY <1>9 DEF LineAt
  <1> HIDE DEF zZero, cross, zOne, output, v, dZero, dCross, dOne, dOutput
  <1>14. Plus(Plus(cross, Plus(zOne, v)), Plus(dCross, dOne))
           = Plus(Plus(cross, dCross), Plus(Plus(zOne, dOne), v))
    <2>1. Plus(zOne, v) \in Gf256x2
      BY <1>3, TowerClosed
    <2>2. Plus(Plus(cross, Plus(zOne, v)), Plus(dCross, dOne))
            = Plus(Plus(cross, dCross), Plus(Plus(zOne, v), dOne))
      BY <1>3, <1>5, <1>6, <2>1, PlusSwap
    <2>3. Plus(Plus(zOne, v), dOne) = Plus(zOne, Plus(v, dOne))
      BY <1>3, <1>5, PlusLaws
    <2>4. Plus(v, dOne) = Plus(dOne, v)
      BY <1>3, <1>5, PlusLaws
    <2>5. Plus(zOne, Plus(dOne, v)) = Plus(Plus(zOne, dOne), v)
      BY <1>3, <1>5, PlusLaws
    <2> QED BY <2>2, <2>3, <2>4, <2>5
  <1>15. Plus(At(point, zZero, Coefficient(i), output),
              At(point, dZero, Plus(dCross, dOne), dOutput))
           = At(point, Plus(zZero, dZero), Plus(Coefficient(i), Plus(dCross, dOne)),
                Plus(output, dOutput))
    <2> DEFINE c == Coefficient(i)
               d == Plus(dCross, dOne)
               square == Square(point)
    <2>1. c \in Gf256x2 /\ d \in Gf256x2 /\ square \in Gf256x2
      BY <1>2, <1>3, <1>5, <1>6, TowerClosed
    <2> HIDE DEF c, d, square
    <2>2. /\ Times(point, Plus(c, d)) = Plus(Times(point, c), Times(point, d))
          /\ Times(square, Plus(output, dOutput))
               = Plus(Times(square, output), Times(square, dOutput))
      BY <1>2, <1>3, <1>7, <2>1, TimesDistributes
    <2>3. /\ Times(point, c) \in Gf256x2 /\ Times(point, d) \in Gf256x2
          /\ Times(square, output) \in Gf256x2 /\ Times(square, dOutput) \in Gf256x2
      BY <1>2, <1>3, <1>7, <2>1, TowerClosed
    <2>4. /\ Plus(zZero, Times(point, c)) \in Gf256x2
          /\ Plus(dZero, Times(point, d)) \in Gf256x2
      BY <1>3, <1>5, <2>3, TowerClosed
    <2>5. Plus(Plus(zZero, Times(point, c)), Plus(dZero, Times(point, d)))
            = Plus(Plus(zZero, dZero), Plus(Times(point, c), Times(point, d)))
      BY <1>3, <1>5, <2>3, PlusSwap
    <2>6. Plus(Plus(Plus(zZero, Times(point, c)), Times(square, output)),
               Plus(Plus(dZero, Times(point, d)), Times(square, dOutput)))
            = Plus(Plus(Plus(zZero, Times(point, c)), Plus(dZero, Times(point, d))),
                   Plus(Times(square, output), Times(square, dOutput)))
      BY <2>3, <2>4, PlusSwap
    <2> QED BY <2>2, <2>5, <2>6 DEF At, c, d, square
  <1> QED BY <1>10, <1>11, <1>12, <1>13, <1>14, <1>15

LEMMA LineAtGrows ==
  ASSUME TypeOK, LoopInv, OpenedInv, DotsInv, pc = "point", row < MqN
  PROVE  /\ dots["zOpened"][row] = LineAt(row)
         /\ Plus(dots["zOpened"][row], Times(TOpened(row), Opened(row))) = LineAt(row + 1)
  <1>1. row \in Index /\ row \in Nat
    BY SizeAssumption DEF TypeOK, Index
  <1>2. dots["zOpened"][row] = LineAt(row)
    <2>1. CASE row = 0
      BY <2>1, LineStarts
    <2>2. CASE row # 0
      <3>1. row - 1 \in Index /\ (row - 1) + 1 = row /\ row - 1 < row
        BY <1>1, <2>2, SizeAssumption DEF Index
      <3>2. Joined("point", row - 1)
        BY <3>1 DEF Joined
      <3>3. dots["zOpened"][(row - 1) + 1] = LineAt((row - 1) + 1)
        BY <3>1, <3>2 DEF DotsInv
      <3> QED BY <3>1, <3>3
    <2> QED BY <2>1, <2>2
  <1> QED BY <1>1, <1>2, LineGrows

LEMMA DotsStep ==
  TypeOK /\ LoopInv /\ OpenedInv /\ DotsInv /\ [Next]_vars => DotsInv'
  <1> SUFFICES ASSUME TypeOK, LoopInv, OpenedInv, DotsInv, [Next]_vars PROVE DotsInv'
    OBVIOUS
  <1>1. MqN \in Nat /\ 0 \in 0 .. MqN /\ MqN \in 0 .. MqN /\ row \in Nat
    BY SizeAssumption DEF TypeOK
  <1>2. \A i \in Index : i \in 0 .. MqN /\ i + 1 \in 0 .. MqN /\ i + 1 # 0 /\ i < MqN
    BY SizeAssumption DEF Index
  <1>3. dots \in [Dot -> [0 .. MqN -> Gf256x2]]
    BY DEF TypeOK
  \* Steps that add nothing to a sum.
  <1>4. ASSUME dots' = dots,
               \A i \in Index, z \in {"output", "cross", "line", "point"} :
                 Joined(z, i)' => Joined(z, i),
               (pc \in {"line"} \cup Later("line"))' => pc \in {"line"} \cup Later("line"),
               \A i \in Index : Joined("output", i) =>
                 /\ UNCHANGED <<secret, xZero, point, linear>>
                 /\ Result("base", i)' = Result("base", i)
                 /\ Joined("cross", i) => Result("signer", i)' = Result("signer", i)
        PROVE  DotsInv'
    <2>1. \A i \in Index :
            /\ Joined("cross", i) => Joined("output", i)
            /\ Joined("line", i) => Joined("output", i)
            /\ Joined("point", i) => Joined("output", i)
      BY DEF Joined, Later
    <2>2. \A i \in Index : Joined("output", i)' =>
            dots'["output"][i + 1] = Plus(dots'["output"][i], OutputTerm(i)')
      <3> SUFFICES ASSUME NEW i \in Index, Joined("output", i)'
                   PROVE  dots'["output"][i + 1] = Plus(dots'["output"][i], OutputTerm(i)')
        OBVIOUS
      <3>1. Joined("output", i) /\ OutputTerm(i)' = OutputTerm(i)
        BY <1>4 DEF OutputTerm
      <3> QED BY <1>4, <3>1 DEF DotsInv
    <2>3. \A i \in Index : Joined("cross", i)' =>
            /\ dots'["zZero"][i + 1]
                 = Plus(dots'["zZero"][i], Times(Result("signer", i)', xZero'[i]))
            /\ dots'["cross"][i + 1]
                 = Plus(dots'["cross"][i], Scale(Embed(secret'[i]), Result("signer", i)'))
      BY <1>4, <2>1 DEF DotsInv
    <2>4. \A i \in Index : Joined("line", i)' =>
            dots'["zOne"][i + 1] = Plus(dots'["zOne"][i], Times(TOne(i)', xZero'[i]))
      BY <1>4, <2>1 DEF DotsInv, TOne
    <2>5. \A i \in Index : Joined("point", i)' => dots'["zOpened"][i + 1] = LineAt(i + 1)'
      <3> SUFFICES ASSUME NEW i \in Index, Joined("point", i)'
                   PROVE  dots'["zOpened"][i + 1] = LineAt(i + 1)'
        OBVIOUS
      <3>1. Joined("point", i) /\ UNCHANGED point
        BY <1>4, <2>1
      <3>2. LineAt(i + 1)' = LineAt(i + 1)
        BY <1>4, <3>1 DEF LineAt, Coefficient, Value
      <3> QED BY <1>4, <3>1, <3>2 DEF DotsInv
    <2>6. /\ \A z \in Dot \ {"zOne"} : dots'[z][0] = Zero
          /\ (pc \in {"line"} \cup Later("line"))' => dots'["zOne"][0] = Value("cross")'
      BY <1>4 DEF DotsInv, Value
    <2> QED BY <2>2, <2>3, <2>4, <2>5, <2>6 DEF DotsInv
  <1>5. CASE RefuseIndex
    BY <1>4, <1>5 DEF RefuseIndex, Joined, Later, Result, arguments, equation
  <1>6. CASE Expand
    BY <1>4, <1>6 DEF Expand, Joined, Later
  <1>7. ASSUME NEW f \in Product, Multiply(f) PROVE DotsInv'
    <2>1. /\ pc = f /\ row \in Index
          /\ sums' = [sums EXCEPT ![f][row][column + 1] =
                        Plus(sums[f][row][column], Term(f, Triangle(row) + column, column))]
          /\ UNCHANGED <<pc, row, arguments, equation, dots>>
      BY <1>7, OneMultiply
    <2>2. \A g \in Product : g # f => sums'[g] = sums[g]
      BY <2>1 DEF TypeOK
    <2>3. \A i \in Index :
            /\ Joined("output", i) => f # "base"
            /\ Joined("cross", i) => f # "base" /\ f # "signer"
      BY <2>1 DEF Joined, Later, Product
    <2>4. \A i \in Index :
            /\ Joined("output", i) => Result("base", i)' = Result("base", i)
            /\ Joined("cross", i) => Result("signer", i)' = Result("signer", i)
      BY <2>2, <2>3 DEF Result, Product
    <2>5. \A i \in Index, z \in {"output", "cross", "line", "point"} :
            Joined(z, i)' => Joined(z, i)
      BY <2>1 DEF Joined
    <2> QED BY <1>4, <2>1, <2>4, <2>5 DEF arguments, equation
  <1>8. ASSUME NEW f \in Product, NextRow(f) PROVE DotsInv'
    <2>1. pc = f /\ UNCHANGED <<pc, arguments, equation, sums, dots>>
      BY <1>8 DEF NextRow
    <2>2. \A i \in Index, z \in {"output", "cross", "line", "point"} :
            Joined(z, i)' => Joined(z, i)
      BY <2>1 DEF Joined, Product
    <2> QED BY <1>4, <2>1, <2>2 DEF arguments, equation, Result
  <1>9. ASSUME NEW f \in Product, EndProduct(f) PROVE DotsInv'
    <2>1. /\ pc = f /\ row' = 0
          /\ UNCHANGED <<arguments, equation, sums, dots>>
      BY <1>9 DEF EndProduct
    <2>2. pc' = After(f)
      BY <1>9 DEF EndProduct, LoopInv, Product, DotStep, TriangularElementCount, Triangle
    <2>3. \A i \in Index, z \in {"output", "cross", "line", "point"} :
            Joined(z, i)' => Joined(z, i)
      BY <2>1, <2>2 DEF Joined, Later, After, Product, Index
    <2>4. (pc \in {"line"} \cup Later("line"))' => pc \in {"line"} \cup Later("line")
      BY <2>1, <2>2 DEF Later, After, Product
    <2> QED BY <1>4, <2>1, <2>3, <2>4 DEF arguments, equation, Result
  <1>10. CASE Evaluate
    <2> DEFINE g == OutputTerm(row)
    <2>1. /\ pc = "output" /\ row \in Index /\ row' = row + 1
          /\ dots' = [dots EXCEPT !["output"] = Accumulate("output", g)]
          /\ UNCHANGED <<pc, arguments, equation, sums>>
      BY <1>1, <1>10 DEF Evaluate, Index, OutputTerm
    <2> HIDE DEF g
    <2>2. /\ dots'["output"] = [dots["output"] EXCEPT ![row + 1] = Plus(dots["output"][row], g)]
          /\ \A z \in Dot : z # "output" => dots'[z] = dots[z]
      BY <1>3, <2>1 DEF Accumulate, Dot
    <2>3. /\ dots'["output"][row + 1] = Plus(dots["output"][row], g)
          /\ \A k \in 0 .. MqN : k # row + 1 => dots'["output"][k] = dots["output"][k]
      <3>1. dots["output"] \in [0 .. MqN -> Gf256x2]
        BY <1>3 DEF Dot
      <3> QED BY <1>2, <2>1, <2>2, <3>1
    <2>4. \A i \in Index : OutputTerm(i)' = OutputTerm(i)
      BY <2>1 DEF OutputTerm, Result, arguments, equation
    <2>5. \A i \in Index :
            /\ ~Joined("cross", i)' /\ ~Joined("line", i)' /\ ~Joined("point", i)'
            /\ Joined("output", i)' => Joined("output", i) \/ i = row
      BY <2>1 DEF Joined, Later, Index
    <2>6. \A i \in Index : Joined("output", i)' =>
            dots'["output"][i + 1] = Plus(dots'["output"][i], OutputTerm(i)')
      <3> SUFFICES ASSUME NEW i \in Index, Joined("output", i)'
                   PROVE  dots'["output"][i + 1] = Plus(dots'["output"][i], OutputTerm(i))
        BY <2>4
      <3>1. CASE i = row
        BY <1>2, <2>1, <2>3, <3>1 DEF g
      <3>2. CASE i # row
        <4>1. i < row
          BY <2>1, <2>5, <3>2 DEF Joined, Later
        <4>2. /\ dots'["output"][i + 1] = dots["output"][i + 1]
              /\ dots'["output"][i] = dots["output"][i]
          BY <1>1, <1>2, <2>3, <4>1 DEF Index
        <4> QED BY <2>5, <3>2, <4>2 DEF DotsInv
      <3> QED BY <3>1, <3>2
    <2>7. \A z \in Dot \ {"zOne"} : dots'[z][0] = Zero
      <3>1. dots'["output"][0] = dots["output"][0]
        BY <1>1, <2>3
      <3> QED BY <2>2, <3>1 DEF DotsInv, Dot
    <2>8. (pc \notin {"line"} \cup Later("line"))'
      BY <2>1 DEF Later
    <2> QED BY <2>5, <2>6, <2>7, <2>8 DEF DotsInv
  <1>11. CASE Evaluated
    <2>1. /\ pc = "output" /\ pc' = "signer" /\ row = MqN /\ row' = 0
          /\ UNCHANGED <<arguments, equation, sums, dots>>
      BY <1>11 DEF Evaluated
    <2>2. \A i \in Index, z \in {"output", "cross", "line", "point"} :
            Joined(z, i)' => Joined(z, i)
      BY <1>2, <2>1 DEF Joined, Later
    <2> QED BY <1>4, <2>1, <2>2 DEF Later, Result, arguments, equation
  <1>12. CASE Cross
    <2> DEFINE g == Times(Result("signer", row), xZero[row])
               h == Scale(Embed(secret[row]), Result("signer", row))
    <2>1. /\ pc = "cross" /\ row \in Index /\ row' = row + 1
          /\ dots' = [dots EXCEPT !["zZero"] = Accumulate("zZero", g),
                                  !["cross"] = Accumulate("cross", h)]
          /\ UNCHANGED <<pc, arguments, equation, sums>>
      BY <1>1, <1>12 DEF Cross, Index
    <2> HIDE DEF g, h
    <2>2. /\ dots'["zZero"] = [dots["zZero"] EXCEPT ![row + 1] = Plus(dots["zZero"][row], g)]
          /\ dots'["cross"] = [dots["cross"] EXCEPT ![row + 1] = Plus(dots["cross"][row], h)]
          /\ \A z \in Dot : z \notin {"zZero", "cross"} => dots'[z] = dots[z]
      BY <1>3, <2>1 DEF Accumulate, Dot
    <2>3. /\ dots'["zZero"][row + 1] = Plus(dots["zZero"][row], g)
          /\ dots'["cross"][row + 1] = Plus(dots["cross"][row], h)
          /\ \A k \in 0 .. MqN : k # row + 1 =>
               dots'["zZero"][k] = dots["zZero"][k] /\ dots'["cross"][k] = dots["cross"][k]
      <3>1. /\ dots["zZero"] \in [0 .. MqN -> Gf256x2]
            /\ dots["cross"] \in [0 .. MqN -> Gf256x2]
        BY <1>3 DEF Dot
      <3>2. row + 1 \in 0 .. MqN
        BY <1>2, <2>1
      <3>3. /\ dots'["zZero"][row + 1] = Plus(dots["zZero"][row], g)
            /\ \A k \in 0 .. MqN : k # row + 1 => dots'["zZero"][k] = dots["zZero"][k]
        BY <2>2, <3>1, <3>2
      <3>4. /\ dots'["cross"][row + 1] = Plus(dots["cross"][row], h)
            /\ \A k \in 0 .. MqN : k # row + 1 => dots'["cross"][k] = dots["cross"][k]
        BY <2>2, <3>1, <3>2
      <3> QED BY <3>3, <3>4
    <2>4. /\ \A i \in Index : OutputTerm(i)' = OutputTerm(i) /\ Result("signer", i)' = Result("signer", i)
          /\ secret' = secret /\ xZero' = xZero
      BY <2>1 DEF OutputTerm, Result, arguments, equation
    <2>5. \A i \in Index :
            /\ ~Joined("line", i)' /\ ~Joined("point", i)'
            /\ Joined("output", i)
            /\ Joined("cross", i)' => Joined("cross", i) \/ i = row
      BY <2>1 DEF Joined, Later, Index
    <2>6. \A i \in Index : Joined("cross", i)' =>
            /\ dots'["zZero"][i + 1]
                 = Plus(dots'["zZero"][i], Times(Result("signer", i), xZero[i]))
            /\ dots'["cross"][i + 1]
                 = Plus(dots'["cross"][i], Scale(Embed(secret[i]), Result("signer", i)))
      <3> SUFFICES ASSUME NEW i \in Index, Joined("cross", i)'
                   PROVE  /\ dots'["zZero"][i + 1]
                               = Plus(dots'["zZero"][i], Times(Result("signer", i), xZero[i]))
                          /\ dots'["cross"][i + 1]
                               = Plus(dots'["cross"][i],
                                      Scale(Embed(secret[i]), Result("signer", i)))
        OBVIOUS
      <3>1. CASE i = row
        <4>1. row \in 0 .. MqN /\ row # row + 1
          BY <1>1, <1>2, <2>1
        <4>2. /\ dots'["zZero"][row] = dots["zZero"][row]
              /\ dots'["cross"][row] = dots["cross"][row]
          BY <2>3, <4>1
        <4> QED BY <2>3, <3>1, <4>2 DEF g, h
      <3>2. CASE i # row
        <4>1. i < row
          BY <2>1, <2>5, <3>2 DEF Joined, Later
        <4>2. /\ dots'["zZero"][i + 1] = dots["zZero"][i + 1]
              /\ dots'["zZero"][i] = dots["zZero"][i]
              /\ dots'["cross"][i + 1] = dots["cross"][i + 1]
              /\ dots'["cross"][i] = dots["cross"][i]
          BY <1>1, <1>2, <2>3, <4>1 DEF Index
        <4> QED BY <2>5, <3>2, <4>2 DEF DotsInv
      <3> QED BY <3>1, <3>2
    <2>7. \A z \in Dot \ {"zOne"} : dots'[z][0] = Zero
      <3>1. dots'["zZero"][0] = dots["zZero"][0] /\ dots'["cross"][0] = dots["cross"][0]
        BY <1>1, <2>3
      <3> QED BY <2>2, <3>1 DEF DotsInv, Dot
    <2>8. (pc \notin {"line"} \cup Later("line"))'
      BY <2>1 DEF Later
    <2>9. \A i \in Index :
            dots'["output"][i + 1] = Plus(dots'["output"][i], OutputTerm(i)')
      BY <2>2, <2>4, <2>5 DEF DotsInv, Dot
    <2> QED BY <2>4, <2>5, <2>6, <2>7, <2>8, <2>9 DEF DotsInv
  <1>13. CASE Crossed
    <2>1. /\ pc = "cross" /\ row = MqN /\ pc' = "line" /\ row' = 0
          /\ dots' = [dots EXCEPT !["zOne"][0] = Value("cross")]
          /\ UNCHANGED <<arguments, equation, sums>>
      BY <1>13 DEF Crossed
    <2>2. /\ dots'["zOne"][0] = Value("cross")
          /\ \A z \in Dot : z # "zOne" => dots'[z] = dots[z]
      <3>1. dots["zOne"] \in [0 .. MqN -> Gf256x2]
        BY <1>3 DEF Dot
      <3> QED BY <1>1, <1>3, <2>1, <3>1 DEF Dot
    <2>3. Value("cross")' = Value("cross")
      BY <2>2 DEF Value, Dot
    <2>4. \A i \in Index :
            /\ ~Joined("line", i)' /\ ~Joined("point", i)'
            /\ Joined("output", i) /\ Joined("cross", i)
      BY <1>2, <2>1 DEF Joined, Later, Index
    <2>5. \A i \in Index : OutputTerm(i)' = OutputTerm(i) /\ Result("signer", i)' = Result("signer", i)
      BY <2>1 DEF OutputTerm, Result, arguments, equation
    <2> QED BY <2>1, <2>2, <2>3, <2>4, <2>5 DEF DotsInv, Dot, arguments
  <1>14. CASE AddLine
    <2> DEFINE g == Times(TOne(row), xZero[row])
    <2>1. /\ pc = "line" /\ row \in Index /\ row' = row + 1
          /\ dots' = [dots EXCEPT !["zOne"] = Accumulate("zOne", g)]
          /\ UNCHANGED <<pc, arguments, equation, sums>>
      BY <1>1, <1>14 DEF AddLine, Index
    <2> HIDE DEF g
    <2>2. /\ dots'["zOne"] = [dots["zOne"] EXCEPT ![row + 1] = Plus(dots["zOne"][row], g)]
          /\ \A z \in Dot : z # "zOne" => dots'[z] = dots[z]
      BY <1>3, <2>1 DEF Accumulate, Dot
    <2>3. /\ dots'["zOne"][row + 1] = Plus(dots["zOne"][row], g)
          /\ \A k \in 0 .. MqN : k # row + 1 => dots'["zOne"][k] = dots["zOne"][k]
      <3>1. dots["zOne"] \in [0 .. MqN -> Gf256x2]
        BY <1>3 DEF Dot
      <3> QED BY <1>2, <2>1, <2>2, <3>1
    <2>4. /\ \A i \in Index : /\ OutputTerm(i)' = OutputTerm(i) /\ TOne(i)' = TOne(i)
                             /\ Result("signer", i)' = Result("signer", i)
          /\ secret' = secret /\ xZero' = xZero
      BY <2>1 DEF OutputTerm, TOne, Result, arguments, equation
    <2>5. \A i \in Index :
            /\ ~Joined("point", i)' /\ Joined("output", i) /\ Joined("cross", i)
            /\ Joined("line", i)' => Joined("line", i) \/ i = row
      BY <2>1 DEF Joined, Later, Index
    <2>6. \A i \in Index : Joined("line", i)' =>
            dots'["zOne"][i + 1] = Plus(dots'["zOne"][i], Times(TOne(i), xZero[i]))
      <3> SUFFICES ASSUME NEW i \in Index, Joined("line", i)'
                   PROVE  dots'["zOne"][i + 1]
                            = Plus(dots'["zOne"][i], Times(TOne(i), xZero[i]))
        OBVIOUS
      <3>1. CASE i = row
        BY <1>2, <2>1, <2>3, <3>1 DEF g
      <3>2. CASE i # row
        <4>1. i < row
          BY <2>1, <2>5, <3>2 DEF Joined, Later
        <4>2. dots'["zOne"][i + 1] = dots["zOne"][i + 1] /\ dots'["zOne"][i] = dots["zOne"][i]
          BY <1>1, <1>2, <2>3, <4>1 DEF Index
        <4> QED BY <2>5, <3>2, <4>2 DEF DotsInv
      <3> QED BY <3>1, <3>2
    <2>7. dots'["zOne"][0] = Value("cross")'
      <3>1. dots'["zOne"][0] = dots["zOne"][0] /\ Value("cross")' = Value("cross")
        BY <1>1, <2>2, <2>3 DEF Value, Dot
      <3> QED BY <2>1, <3>1 DEF DotsInv
    <2>8. \A i \in Index :
            /\ dots'["output"][i + 1] = Plus(dots'["output"][i], OutputTerm(i)')
            /\ dots'["zZero"][i + 1]
                 = Plus(dots'["zZero"][i], Times(Result("signer", i)', xZero'[i]))
            /\ dots'["cross"][i + 1]
                 = Plus(dots'["cross"][i], Scale(Embed(secret'[i]), Result("signer", i)'))
      BY <2>2, <2>4, <2>5 DEF DotsInv, Dot
    <2>9. \A z \in Dot \ {"zOne"} : dots'[z][0] = Zero
      BY <2>2 DEF DotsInv
    <2> QED BY <2>4, <2>5, <2>6, <2>7, <2>8, <2>9 DEF DotsInv
  <1>15. CASE LineAdded
    <2>1. pc = "line" /\ pc' = "opened" /\ UNCHANGED <<arguments, equation, sums, dots>>
          /\ row = MqN /\ row' = 0
      BY <1>15 DEF LineAdded
    <2>2. \A i \in Index, z \in {"output", "cross", "line", "point"} :
            Joined(z, i)' => Joined(z, i)
      BY <1>2, <2>1 DEF Joined, Later
    <2> QED BY <1>4, <2>1, <2>2 DEF Later, Result, arguments, equation
  <1>16. CASE EvaluatePoint
    <2> DEFINE g == Times(TOpened(row), Opened(row))
    <2>1. /\ pc = "point" /\ row \in Index /\ row' = row + 1
          /\ dots' = [dots EXCEPT !["zOpened"] = Accumulate("zOpened", g)]
          /\ UNCHANGED <<pc, arguments, equation, sums>>
      BY <1>1, <1>16 DEF EvaluatePoint, Index
    <2>2. Plus(dots["zOpened"][row], g) = LineAt(row + 1)
      BY <1>2, <2>1, LineAtGrows
    <2> HIDE DEF g
    <2>3. /\ dots'["zOpened"]
               = [dots["zOpened"] EXCEPT ![row + 1] = Plus(dots["zOpened"][row], g)]
          /\ \A z \in Dot : z # "zOpened" => dots'[z] = dots[z]
      BY <1>3, <2>1 DEF Accumulate, Dot
    <2>4. /\ dots'["zOpened"][row + 1] = LineAt(row + 1)
          /\ \A k \in 0 .. MqN : k # row + 1 => dots'["zOpened"][k] = dots["zOpened"][k]
      <3>1. dots["zOpened"] \in [0 .. MqN -> Gf256x2]
        BY <1>3 DEF Dot
      <3> QED BY <1>2, <2>1, <2>2, <2>3, <3>1
    <2>5. /\ \A i \in Index : /\ OutputTerm(i)' = OutputTerm(i) /\ TOne(i)' = TOne(i)
                             /\ Result("signer", i)' = Result("signer", i)
          /\ secret' = secret /\ xZero' = xZero
      BY <2>1 DEF OutputTerm, TOne, Result, arguments, equation
    <2>6. \A k : LineAt(k)' = LineAt(k)
      BY <2>1, <2>3 DEF LineAt, Coefficient, Value, Dot, arguments
    <2>7. \A i \in Index :
            /\ Joined("output", i) /\ Joined("cross", i) /\ Joined("line", i)
            /\ Joined("point", i)' => Joined("point", i) \/ i = row
      BY <2>1 DEF Joined, Later, Index
    <2>8. \A i \in Index : Joined("point", i)' => dots'["zOpened"][i + 1] = LineAt(i + 1)
      <3> SUFFICES ASSUME NEW i \in Index, Joined("point", i)'
                   PROVE  dots'["zOpened"][i + 1] = LineAt(i + 1)
        OBVIOUS
      <3>1. CASE i = row
        BY <2>4, <3>1
      <3>2. CASE i # row
        <4>1. dots'["zOpened"][i + 1] = dots["zOpened"][i + 1]
          BY <1>1, <1>2, <2>4, <3>2 DEF Index
        <4> QED BY <2>7, <3>2, <4>1 DEF DotsInv
      <3> QED BY <3>1, <3>2
    <2>9. /\ \A z \in Dot \ {"zOne"} : dots'[z][0] = Zero
          /\ dots'["zOne"][0] = Value("cross")'
      <3>1. dots'["zOpened"][0] = dots["zOpened"][0]
        BY <1>1, <2>4
      <3>2. dots["zOne"][0] = Value("cross") /\ Value("cross")' = Value("cross")
        BY <2>1, <2>3 DEF DotsInv, Later, Value, Dot
      <3> QED BY <2>3, <3>1, <3>2 DEF DotsInv, Dot
    <2>10. \A i \in Index :
            /\ dots'["output"][i + 1] = Plus(dots'["output"][i], OutputTerm(i)')
            /\ dots'["zZero"][i + 1]
                 = Plus(dots'["zZero"][i], Times(Result("signer", i)', xZero'[i]))
            /\ dots'["cross"][i + 1]
                 = Plus(dots'["cross"][i], Scale(Embed(secret'[i]), Result("signer", i)'))
            /\ dots'["zOne"][i + 1] = Plus(dots'["zOne"][i], Times(TOne(i)', xZero'[i]))
      BY <2>3, <2>5, <2>7 DEF DotsInv, Dot
    <2> QED BY <2>6, <2>8, <2>9, <2>10 DEF DotsInv
  <1>17. CASE Claim
    <2>1. pc = "point" /\ row = MqN /\ pc' = "done" /\ UNCHANGED <<row, arguments, equation, sums, dots>>
      BY <1>17 DEF Claim, loop
    <2>2. \A i \in Index, z \in {"output", "cross", "line", "point"} :
            Joined(z, i)' => Joined(z, i)
      BY <1>2, <2>1 DEF Joined, Later
    <2> QED BY <1>4, <2>1, <2>2 DEF Later, Result, arguments, equation
  <1>18. CASE UNCHANGED vars
    BY <1>4, <1>18 DEF vars, loop, arguments, equation, Joined, Result
  <1> QED BY <1>5, <1>6, <1>7, <1>8, <1>9, <1>10, <1>11, <1>12, <1>13, <1>14, <1>15, <1>16,
             <1>17, <1>18 DEF Next

-----------------------------------------------------------------------------
IInv == TypeOK /\ LoopInv /\ SumsInv /\ OpenedInv /\ DotsInv

LEMMA InitHolds == Init => IInv
  <1> SUFFICES ASSUME Init PROVE SumsInv /\ OpenedInv /\ DotsInv
    BY LoopInit DEF IInv
  <1>1. \A f \in Product \cup DotStep, i \in Index, k \in Nat :
          ~Added(f, i, k) /\ ~Joined(f, i)
    BY DEF Init, Added, Joined, Later, Product, DotStep
  <1>2. \A f \in Product, i \in Index : \A k \in 0 .. i : k \in Nat
    BY DEF Index
  <1>3. 0 \in 0 .. MqN
    BY SizeAssumption
  <1>4. SumsInv
    BY <1>1, <1>2, <1>3 DEF SumsInv, Init
  <1>5. OpenedInv
    BY <1>1, <1>2 DEF OpenedInv, Product
  <1>6. DotsInv
    BY <1>1, <1>3 DEF DotsInv, Init, Dot, DotStep, Later
  <1> QED BY <1>4, <1>5, <1>6

LEMMA Invariance == Spec => []IInv
  <1>1. IInv /\ [Next]_vars => IInv'
    BY LoopStep, SumsStep, DotsStep DEF IInv
  <1> QED BY <1>1, InitHolds, PTL DEF Spec

(* The verifier's value lies on the signer's line exactly when the output  *)
(* claimed is that of the secret (sign.rs 93-109, verify.rs 97-112).       *)
THEOREM AgreementCorrect == Spec => []VerifierAgrees
  <1>1. IInv => VerifierAgrees
    <2> SUFFICES ASSUME IInv, pc = "done"
                 PROVE  ZEvaluation = SignerLine <=>
                          Times(Square(point), claimed) = Times(Square(point), Value("output"))
      BY DEF VerifierAgrees
    <2>1. TypeOK /\ DotsInv
      BY DEF IInv
    <2>2. /\ MqN - 1 \in Index /\ (MqN - 1) + 1 = MqN /\ MqN \in 0 .. MqN
      BY SizeAssumption DEF Index
    <2>3. Joined("point", MqN - 1)
      BY DEF Joined, Later
    <2>4. Value("zOpened") = LineAt(MqN)
      <3>1. dots["zOpened"][(MqN - 1) + 1] = LineAt((MqN - 1) + 1)
        BY <2>1, <2>2, <2>3 DEF DotsInv
      <3> QED BY <2>2, <3>1 DEF Value
    <2> DEFINE z == Value("zZero")
               one == Value("zOne")
               cross == Value("cross")
               output == Value("output")
    <2>5. /\ z \in Gf256x2 /\ one \in Gf256x2 /\ cross \in Gf256x2 /\ output \in Gf256x2
      BY <2>1, <2>2, LineAtTyped DEF Value
    <2>6. point \in Gf256x2 /\ claimed \in Gf256x2 /\ Square(point) \in Gf256x2
      <3>1. point \in Gf256x2 /\ claimed \in Gf256x2
        BY <2>1, <2>2, EmbeddedTyped DEF TypeOK
      <3> QED BY <3>1, TowerClosed DEF Square
    <2>7. Coefficient(MqN) = one
      <3>1. Coefficient(MqN) = Plus(cross, Plus(one, cross))
        BY DEF Coefficient, Value
      <3> HIDE DEF cross, one
      <3>2. Plus(one, cross) = Plus(cross, one)
        BY <2>5, PlusLaws
      <3> QED BY <2>5, <3>1, <3>2, PlusCancels
    <2>8. Value("zOpened") = Plus(SignerLine, Times(Square(point), output))
      BY <2>4, <2>7 DEF LineAt, At, SignerLine, Value
    <2> DEFINE p == Times(Square(point), output)
               q == Times(Square(point), claimed)
    <2>9. SignerLine \in Gf256x2 /\ p \in Gf256x2 /\ q \in Gf256x2
      BY <2>5, <2>6, TowerClosed DEF SignerLine
    <2>10. ZEvaluation = Plus(Plus(SignerLine, p), q)
      BY <2>8 DEF ZEvaluation
    <2> HIDE DEF p, q
    <2>11. p = q => Plus(Plus(SignerLine, p), q) = SignerLine
      BY <2>9, PlusCancels
    <2>12. Plus(Plus(SignerLine, p), q) = SignerLine => p = q
      <3> SUFFICES ASSUME Plus(Plus(SignerLine, p), q) = SignerLine PROVE p = q
        OBVIOUS
      <3>1. Plus(SignerLine, Plus(p, q)) = SignerLine /\ Plus(p, q) \in Gf256x2
        BY <2>9, PlusLaws, TowerClosed
      <3>2. Plus(SignerLine, Plus(SignerLine, Plus(p, q))) = Plus(p, q)
        BY <2>9, <3>1, PlusCancels
      <3>3. Plus(p, q) = Zero
        BY <2>9, <3>1, <3>2, PlusLaws
      <3>4. Plus(p, Plus(p, q)) = q /\ Plus(p, Zero) = p
        BY <2>9, PlusCancels, PlusZero
      <3> QED BY <3>3, <3>4
    <2> QED BY <2>10, <2>11, <2>12 DEF p, q
  <1> QED BY <1>1, Invariance, PTL

-----------------------------------------------------------------------------
(* The output by its definition *)

Sums == INSTANCE Folding WITH Summand <- Gf256x2, Neutral <- Zero, Op <- Plus

LEMMA PlusAddsUp == Sums!OpLaws
  BY TowerIsRing DEF Sums!OpLaws

(* The two instances of the library's fold are one. *)
LEMMA SumFolds == ASSUME NEW f, NEW S PROVE Sum(f, S) = Sums!Fold(f, S)
  BY DEF Sum, Sums!Fold, FoldFunctionOnSet, MapThenFoldSet,
         Sums!FoldFunctionOnSet, Sums!MapThenFoldSet

LEMMA ScaleLaws ==
  ASSUME NEW s \in Gf256, NEW a \in Gf256x2, NEW b \in Gf256x2
  PROVE  /\ Scale(s, a) \in Gf256x2 /\ Scale(s, Zero) = Zero
         /\ Scale(s, Plus(a, b)) = Plus(Scale(s, a), Scale(s, b))
  <1> DEFINE e == <<s, Zero256>>
  <1>1. Zero \in Gf256x2 /\ Plus(a, b) \in Gf256x2
    BY TowerClosed
  <1>2. /\ e \in Gf256x2 /\ Scale(s, a) = Times(e, a) /\ Scale(s, b) = Times(e, b)
        /\ Scale(s, Zero) = Times(e, Zero) /\ Scale(s, Plus(a, b)) = Times(e, Plus(a, b))
    BY <1>1, ScaleIsTimes
  <1> HIDE DEF e
  <1> QED BY <1>2, TowerClosed, PlusZero, TimesDistributes

(* The pairs that precede (i, j), row by row. *)
Before(i, j) == {p \in Pairs : p[1] < i \/ (p[1] = i /\ p[2] < j)}

LEMMA BeforeGrows ==
  /\ Before(0, 0) = {} /\ Before(MqN, 0) = Pairs
  /\ \A i \in Index : \A j \in 0 .. i :
       /\ <<i, j>> \in Pairs /\ <<i, j>> \notin Before(i, j)
       /\ Before(i, j + 1) = Before(i, j) \cup {<<i, j>>}
  /\ \A i \in Index : Before(i + 1, 0) = Before(i, i + 1)
  <1>1. MqN \in Nat /\ Index \subseteq Nat /\ \A i \in Index : 0 <= i /\ i < MqN
    BY SizeAssumption DEF Index
  <1>2. \A p \in Pairs : /\ p = <<p[1], p[2]>> /\ p[1] \in Index /\ p[2] \in Index
                         /\ p[2] <= p[1]
    BY DEF Pairs
  <1>3. Before(0, 0) = {} /\ Before(MqN, 0) = Pairs
    BY <1>1, <1>2 DEF Before
  <1>4. ASSUME NEW i \in Index, NEW j \in 0 .. i
        PROVE  /\ <<i, j>> \in Pairs /\ <<i, j>> \notin Before(i, j)
               /\ Before(i, j + 1) = Before(i, j) \cup {<<i, j>>}
    <2>1. i \in Nat /\ j \in Nat /\ j <= i /\ i < MqN /\ j \in Index
      BY <1>1 DEF Index
    <2>2. <<i, j>> \in Pairs /\ <<i, j>> \notin Before(i, j)
      BY <2>1 DEF Pairs, Before
    <2>3. ASSUME NEW p \in Pairs
          PROVE  p \in Before(i, j + 1) <=> p \in Before(i, j) \/ p = <<i, j>>
      <3>1. p[1] \in Nat /\ p[2] \in Nat /\ p = <<p[1], p[2]>>
        BY <1>1, <1>2
      <3>2. p[2] < j + 1 <=> p[2] < j \/ p[2] = j
        BY <2>1, <3>1
      <3>3. p = <<i, j>> <=> p[1] = i /\ p[2] = j
        BY <3>1
      <3> QED BY <2>1, <3>1, <3>2, <3>3 DEF Before
    <2> QED BY <2>2, <2>3 DEF Before
  <1>5. ASSUME NEW i \in Index PROVE Before(i + 1, 0) = Before(i, i + 1)
    <2>1. ASSUME NEW p \in Pairs
          PROVE  p \in Before(i + 1, 0) <=> p \in Before(i, i + 1)
      <3>1. p[1] \in Nat /\ p[2] \in Nat /\ p[2] <= p[1] /\ i \in Nat
        BY <1>1, <1>2
      <3> QED BY <3>1 DEF Before
    <2> QED BY <2>1 DEF Before
  <1> QED BY <1>3, <1>4, <1>5

(* From row to row, and along each. *)
LEMMA PairInduction ==
  ASSUME NEW T, <<0, 0>> \in T,
         \A i \in Index : \A j \in 0 .. i : <<i, j>> \in T => <<i, j + 1>> \in T,
         \A i \in Index : <<i, i + 1>> \in T => <<i + 1, 0>> \in T
  PROVE  /\ \A i \in 0 .. MqN : <<i, 0>> \in T
         /\ \A i \in Index : \A j \in 0 .. i + 1 : <<i, j>> \in T
  <1>1. MqN \in Nat /\ Index \subseteq Nat
    BY SizeAssumption DEF Index
  <1>2. ASSUME NEW i \in Index, <<i, 0>> \in T, NEW j \in 0 .. i + 1 PROVE <<i, j>> \in T
    <2> DEFINE Row == {k \in Nat : k <= i + 1 => <<i, k>> \in T}
    <2>1. 0 \in Row
      BY <1>2
    <2>2. \A k \in Nat : k \in Row => k + 1 \in Row
      <3> SUFFICES ASSUME NEW k \in Nat, k \in Row, k + 1 <= i + 1 PROVE <<i, k + 1>> \in T
        OBVIOUS
      <3>1. k \in 0 .. i /\ k <= i + 1
        BY <1>1
      <3> QED BY <3>1
    <2>3. \A k \in Nat : k \in Row
      <3> HIDE DEF Row
      <3> QED BY <2>1, <2>2, Sums!NatSetInduction
    <2> QED BY <1>1, <2>3
  <1> DEFINE Rows == {i \in Nat : i <= MqN => <<i, 0>> \in T}
  <1>3. 0 \in Rows
    OBVIOUS
  <1>4. \A i \in Nat : i \in Rows => i + 1 \in Rows
    <2> SUFFICES ASSUME NEW i \in Nat, i \in Rows, i + 1 <= MqN PROVE <<i + 1, 0>> \in T
      OBVIOUS
    <2>1. i \in Index /\ i <= MqN /\ i + 1 \in 0 .. i + 1
      BY <1>1 DEF Index
    <2>2. <<i, i + 1>> \in T
      BY <1>2, <2>1
    <2> QED BY <2>1, <2>2
  <1>5. \A i \in Nat : i \in Rows
    <2> HIDE DEF Rows
    <2> QED BY <1>3, <1>4, Sums!NatSetInduction
  <1>6. ASSUME NEW i \in 0 .. MqN PROVE <<i, 0>> \in T
    <2>1. i \in Nat /\ i <= MqN /\ i \in Rows
      BY <1>1, <1>5
    <2> QED BY <2>1
  <1>7. Index \subseteq 0 .. MqN
    BY <1>1 DEF Index
  <1>8. \A i \in Index : <<i, 0>> \in T
    BY <1>6, <1>7
  <1> QED BY <1>2, <1>6, <1>8

(* The place of a pair in the packed triangle. *)
LEMMA RankIsOffset ==
  ASSUME NEW i \in Index, NEW j \in 0 .. i
  PROVE  Rank(<<i, j>>) = Triangle(i) + j
  <1> DEFINE T == {p \in Nat \X Nat : /\ IsFiniteSet(Before(p[1], p[2]))
                                    /\ Cardinality(Before(p[1], p[2])) = Triangle(p[1]) + p[2]}
  <1>1. Index \subseteq Nat
    BY SizeAssumption DEF Index
  <1>2. <<0, 0>> \in T
    <2>1. IsFiniteSet(Before(0, 0)) /\ Cardinality(Before(0, 0)) = 0 /\ Triangle(0) = 0
      BY BeforeGrows, TriangleGrows, FS_EmptySet
    <2> QED BY <2>1
  <1>3. ASSUME NEW a \in Index, NEW b \in 0 .. a, <<a, b>> \in T
        PROVE  <<a, b + 1>> \in T
    <2>1. /\ IsFiniteSet(Before(a, b)) /\ Cardinality(Before(a, b)) = Triangle(a) + b
          /\ a \in Nat /\ b \in Nat /\ b + 1 \in Nat /\ Triangle(a) \in Nat
      BY <1>1, <1>3, TriangleGrows
    <2>2. /\ Before(a, b + 1) = Before(a, b) \cup {<<a, b>>}
          /\ <<a, b>> \notin Before(a, b)
      BY BeforeGrows
    <2>3. /\ IsFiniteSet(Before(a, b + 1))
          /\ Cardinality(Before(a, b + 1)) = Triangle(a) + b + 1
      BY <2>1, <2>2, FS_AddElement
    <2> QED BY <2>1, <2>3
  <1>4. ASSUME NEW a \in Index, <<a, a + 1>> \in T PROVE <<a + 1, 0>> \in T
    <2>1. /\ a \in Nat /\ a + 1 \in Nat /\ Before(a + 1, 0) = Before(a, a + 1)
          /\ Triangle(a + 1) = Triangle(a) + a + 1 /\ Triangle(a) \in Nat
      BY <1>1, BeforeGrows, TriangleGrows
    <2> QED BY <1>4, <2>1
  <1>5. <<i, j>> \in T
    <2>1. j \in 0 .. i + 1
      BY <1>1
    <2> HIDE DEF T
    <2> QED BY <1>2, <1>3, <1>4, <2>1, PairInduction
  <1>6. Rank(<<i, j>>) = Cardinality(Before(i, j))
    BY DEF Rank, Quantify, Before
  <1> QED BY <1>5, <1>6

-----------------------------------------------------------------------------
(* What was expanded stays. *)
ExpandedInv ==
  pc \notin {"expand", "none"} =>
    /\ quadratic = [k \in Packed |-> stream[k]]
    /\ linear = [i \in Index |-> stream[TriangularElementCount + i]]

LEMMA ExpandedHolds == Spec => []ExpandedInv
  <1>1. Init => ExpandedInv
    BY DEF Init, ExpandedInv
  <1>2. ExpandedInv /\ [Next]_vars => ExpandedInv'
    <2> SUFFICES ASSUME ExpandedInv, [Next]_vars PROVE ExpandedInv'
      OBVIOUS
    <2>1. CASE RefuseIndex
      BY <2>1 DEF RefuseIndex, ExpandedInv
    <2>2. CASE Expand
      BY <2>2 DEF Expand, ExpandedInv, arguments
    <2>3. CASE \E f \in Product : Multiply(f) \/ NextRow(f) \/ EndProduct(f)
      <3>1. pc \in Product /\ UNCHANGED <<arguments, equation>>
        BY <2>3 DEF Multiply, NextRow, EndProduct
      <3> QED BY <3>1 DEF ExpandedInv, arguments, equation, Product
    <2>4. CASE Evaluate \/ Evaluated
      BY <2>4 DEF Evaluate, Evaluated, ExpandedInv, arguments, equation
    <2>5. CASE Cross \/ Crossed
      BY <2>5 DEF Cross, Crossed, ExpandedInv, arguments, equation
    <2>6. CASE AddLine \/ LineAdded
      BY <2>6 DEF AddLine, LineAdded, ExpandedInv, arguments, equation
    <2>7. CASE EvaluatePoint \/ Claim
      BY <2>7 DEF EvaluatePoint, Claim, ExpandedInv, arguments, equation
    <2>8. CASE UNCHANGED vars
      BY <2>8 DEF vars, ExpandedInv, arguments, equation
    <2> QED BY <2>1, <2>2, <2>3, <2>4, <2>5, <2>6, <2>7, <2>8 DEF Next
  <1> QED BY <1>1, <1>2, PTL DEF Spec

-----------------------------------------------------------------------------
(* The forms of a stream *)

Vectors == [Index -> Gf256x2]
Streams == [0 .. EquationElementCount - 1 -> Gf256x2]

Monomials(s, x, y) == [p \in Pairs |-> Times(y[p[1]], Times(x[p[2]], s[Rank(p)]))]
LinearTerms(s, x) == [i \in Index |-> Times(x[i], s[TriangularElementCount + i])]

LEMMA FormsAreFolds ==
  ASSUME NEW s, NEW x, NEW y
  PROVE  /\ Bilinear(s, x, y) = Sums!Fold(Monomials(s, x, y), Pairs)
         /\ LinearForm(s, x) = Sums!Fold(LinearTerms(s, x), Index)
  BY SumFolds DEF Bilinear, LinearForm, Monomials, LinearTerms

LEMMA PairsFinite == IsFiniteSet(Pairs) /\ IsFiniteSet(Index)
  <1>1. IsFiniteSet(Index)
    BY SizeAssumption, FS_Interval DEF Index
  <1>2. IsFiniteSet(Index \X Index)
    BY <1>1, FS_Product
  <1> QED BY <1>1, <1>2, FS_Subset DEF Pairs

(* Every place of the stream that a form reads is there. *)
LEMMA PlacesInStream ==
  ASSUME NEW s \in Streams
  PROVE  /\ \A p \in Pairs : s[Rank(p)] \in Gf256x2
         /\ \A i \in Index : s[TriangularElementCount + i] \in Gf256x2
         /\ \A k \in Packed : s[k] \in Gf256x2
  <1>1. MqN \in Nat /\ TriangularElementCount \in Nat
    BY SizeAssumption, TriangleGrows DEF Triangle, TriangularElementCount
  <1>2. ASSUME NEW k \in Packed PROVE s[k] \in Gf256x2
    <2>1. k \in 0 .. EquationElementCount - 1
      BY <1>1 DEF Packed, EquationElementCount
    <2> QED BY <2>1 DEF Streams
  <1>3. ASSUME NEW i \in Index PROVE s[TriangularElementCount + i] \in Gf256x2
    <2>1. TriangularElementCount + i \in 0 .. EquationElementCount - 1
      BY <1>1 DEF Index, EquationElementCount
    <2> QED BY <2>1 DEF Streams
  <1>4. ASSUME NEW p \in Pairs PROVE s[Rank(p)] \in Gf256x2
    <2>1. p = <<p[1], p[2]>> /\ p[1] \in Index /\ p[2] \in 0 .. p[1]
      BY SizeAssumption DEF Pairs, Index
    <2>2. Rank(p) = Triangle(p[1]) + p[2] /\ Triangle(p[1]) + p[2] \in Packed
      BY <2>1, RankIsOffset, RowInTriangle
    <2> QED BY <1>2, <2>2
  <1> QED BY <1>2, <1>3, <1>4

LEMMA TermsTyped ==
  ASSUME NEW s \in Streams, NEW x \in Vectors, NEW y \in Vectors
  PROVE  /\ \A p \in Pairs : /\ Times(x[p[2]], s[Rank(p)]) \in Gf256x2
                             /\ Monomials(s, x, y)[p] \in Gf256x2
         /\ \A i \in Index : LinearTerms(s, x)[i] \in Gf256x2
  <1>1. ASSUME NEW p \in Pairs
        PROVE  /\ Times(x[p[2]], s[Rank(p)]) \in Gf256x2
               /\ Monomials(s, x, y)[p] \in Gf256x2
    <2>1. x[p[2]] \in Gf256x2 /\ y[p[1]] \in Gf256x2 /\ s[Rank(p)] \in Gf256x2
      BY PlacesInStream DEF Pairs, Vectors
    <2>2. Times(x[p[2]], s[Rank(p)]) \in Gf256x2
      BY <2>1, TowerClosed
    <2>3. Monomials(s, x, y)[p] = Times(y[p[1]], Times(x[p[2]], s[Rank(p)]))
      BY DEF Monomials
    <2> QED BY <2>1, <2>2, <2>3, TowerClosed
  <1>2. ASSUME NEW i \in Index PROVE LinearTerms(s, x)[i] \in Gf256x2
    <2>1. x[i] \in Gf256x2 /\ s[TriangularElementCount + i] \in Gf256x2
      BY PlacesInStream DEF Vectors
    <2> QED BY <2>1, TowerClosed DEF LinearTerms
  <1> QED BY <1>1, <1>2

LEMMA FormsTyped ==
  ASSUME NEW s \in Streams, NEW x \in Vectors, NEW y \in Vectors
  PROVE  Bilinear(s, x, y) \in Gf256x2 /\ LinearForm(s, x) \in Gf256x2
  <1>1. Sums!IsFiniteSet(Pairs) /\ Sums!IsFiniteSet(Index)
    BY PairsFinite DEF Sums!IsFiniteSet, IsFiniteSet
  <1>2. /\ Sums!Fold(Monomials(s, x, y), Pairs) \in Gf256x2
        /\ Sums!Fold(LinearTerms(s, x), Index) \in Gf256x2
    BY <1>1, TermsTyped, PlusAddsUp, Sums!FoldTyped
  <1> QED BY <1>2, FormsAreFolds

-----------------------------------------------------------------------------
(* Sums over a set *)

(* A sum of sums, the second scaled.                                       *)
LEMMA SumsCombine ==
  ASSUME NEW f, NEW g, NEW h, NEW S, IsFiniteSet(S), NEW p \in Gf256x2,
         \A x \in S : /\ f[x] \in Gf256x2 /\ g[x] \in Gf256x2
                      /\ h[x] = Plus(f[x], Times(p, g[x]))
  PROVE  Sums!Fold(h, S) = Plus(Sums!Fold(f, S), Times(p, Sums!Fold(g, S)))
  <1> DEFINE F(U) == Sums!Fold(f, U)
             G(U) == Sums!Fold(g, U)
             H(U) == Sums!Fold(h, U)
             T == {U \in SUBSET S : H(U) = Plus(F(U), Times(p, G(U)))}
  <1>0. Sums!IsFiniteSet(S)
    BY DEF Sums!IsFiniteSet, IsFiniteSet
  <1>1. {} \in T
    <2>1. F({}) = Zero /\ G({}) = Zero /\ H({}) = Zero
      BY Sums!FoldEmpty
    <2>2. Zero = Plus(Zero, Times(p, Zero))
      BY TowerIsRing, PlusZero
    <2> HIDE DEF F, G, H
    <2> QED BY <2>1, <2>2
  <1>2. ASSUME NEW U \in SUBSET S, U # {}, \A x \in U : U \ {x} \in T
        PROVE  U \in T
    <2>1. PICK z \in U : z \in S /\ U \ {z} \in T
      BY <1>2
    <2> DEFINE R == U \ {z}
    <2>2. Sums!IsFiniteSet(U) /\ Sums!IsFiniteSet(R)
      <3>1. IsFiniteSet(U) /\ IsFiniteSet(R)
        BY FS_Subset
      <3> QED BY <3>1 DEF Sums!IsFiniteSet, IsFiniteSet
    <2>3. \A x \in S : h[x] \in Gf256x2
      BY TowerClosed
    <2>4. /\ F(U) = Plus(f[z], F(R)) /\ G(U) = Plus(g[z], G(R)) /\ H(U) = Plus(h[z], H(R))
          /\ F(R) \in Gf256x2 /\ G(R) \in Gf256x2
      <3>1. \A x \in U : f[x] \in Gf256x2 /\ g[x] \in Gf256x2 /\ h[x] \in Gf256x2
        BY <2>3
      <3>2. F(U) = Plus(f[z], F(R)) /\ F(R) \in Gf256x2
        BY <2>1, <2>2, <3>1, PlusAddsUp, Sums!FoldRemove, Sums!FoldTyped
      <3>3. G(U) = Plus(g[z], G(R)) /\ G(R) \in Gf256x2
        BY <2>1, <2>2, <3>1, PlusAddsUp, Sums!FoldRemove, Sums!FoldTyped
      <3>4. H(U) = Plus(h[z], H(R))
        BY <2>1, <2>2, <3>1, PlusAddsUp, Sums!FoldRemove
      <3> QED BY <3>2, <3>3, <3>4
    <2>5. H(R) = Plus(F(R), Times(p, G(R))) /\ h[z] = Plus(f[z], Times(p, g[z]))
      BY <2>1
    <2> HIDE DEF F, G, H, R
    <2>6. /\ f[z] \in Gf256x2 /\ g[z] \in Gf256x2
          /\ Times(p, g[z]) \in Gf256x2 /\ Times(p, G(R)) \in Gf256x2
      BY <2>1, <2>4, TowerClosed
    <2>7. Plus(Plus(f[z], Times(p, g[z])), Plus(F(R), Times(p, G(R))))
            = Plus(Plus(f[z], F(R)), Plus(Times(p, g[z]), Times(p, G(R))))
      BY <2>4, <2>6, PlusSwap
    <2>8. Times(p, Plus(g[z], G(R))) = Plus(Times(p, g[z]), Times(p, G(R)))
      BY <2>4, <2>6, TimesDistributes
    <2> QED BY <2>4, <2>5, <2>7, <2>8
  <1>3. S \in T
    <2> HIDE DEF T
    <2> QED BY <1>0, <1>1, <1>2, Sums!SubsetInduction
  <1> QED BY <1>3

Nothing == [i \in Index |-> Zero]

LEMMA NothingAddsUp == Sums!Fold(Nothing, Index) = Zero
  <1> DEFINE T == {U \in SUBSET Index : Sums!Fold(Nothing, U) = Zero}
  <1>1. {} \in T
    BY Sums!FoldEmpty
  <1>2. ASSUME NEW U \in SUBSET Index, U # {}, \A x \in U : U \ {x} \in T
        PROVE  U \in T
    <2>1. PICK z \in U : z \in Index /\ Sums!Fold(Nothing, U \ {z}) = Zero
      BY <1>2
    <2>2. Sums!IsFiniteSet(U)
      <3>1. IsFiniteSet(U)
        BY PairsFinite, FS_Subset
      <3> QED BY <3>1 DEF Sums!IsFiniteSet, IsFiniteSet
    <2>3. \A x \in U : Nothing[x] = Zero /\ Nothing[x] \in Gf256x2
      BY TowerIsRing DEF Nothing
    <2>4. Sums!Fold(Nothing, U) = Plus(Nothing[z], Sums!Fold(Nothing, U \ {z}))
      BY <2>2, <2>3, PlusAddsUp, Sums!FoldRemove
    <2> QED BY <2>1, <2>3, <2>4, TowerIsRing
  <1>3. Sums!IsFiniteSet(Index)
    BY PairsFinite DEF Sums!IsFiniteSet, IsFiniteSet
  <1>4. Index \in T
    <2> HIDE DEF T
    <2> QED BY <1>1, <1>2, <1>3, Sums!SubsetInduction
  <1> QED BY <1>4

-----------------------------------------------------------------------------
(* The loops *)

(* The vector whose elements a product multiplies the triangle with.       *)
Columns(f) ==
  CASE f = "base" -> Embedded(secret) [] f = "signer" -> xZero [] f = "opened" -> OpenedVector

LEMMA ColumnsTyped ==
  ASSUME TypeOK
  PROVE  /\ stream \in Streams
         /\ Embedded(secret) \in Vectors /\ xZero \in Vectors /\ OpenedVector \in Vectors
         /\ \A f \in Product : Columns(f) \in Vectors
  <1>1. stream \in Streams
    BY SampleAssumption DEF TypeOK, Streams
  <1>2. \A i \in Index : /\ <<Embed(secret[i]), Zero256>> \in Gf256x2
                         /\ Opened(i) \in Gf256x2
    <2>1. \A i \in Index : Embed(secret[i]) \in Gf256 /\ Opened(i) \in Gf256x2
      BY EmbeddedTyped
    <2>2. Zero256 \in Gf256
      BY BaseRing
    <2> QED BY <2>1, <2>2 DEF Gf256x2
  <1>3. Embedded(secret) \in Vectors /\ OpenedVector \in Vectors
    BY <1>2 DEF Embedded, OpenedVector, Vectors
  <1>4. xZero \in Vectors
    BY SampleAssumption DEF TypeOK, Vectors
  <1> QED BY <1>1, <1>3, <1>4 DEF Columns, Product

(* What a product adds is a monomial without its row's unknown.            *)
LEMMA TermIsMonomial ==
  ASSUME TypeOK, ExpandedInv, pc \notin {"expand", "none"},
         NEW f \in Product, NEW y \in Vectors, NEW i \in Index, NEW j \in 0 .. i
  PROVE  /\ Term(f, Triangle(i) + j, j) \in Gf256x2
         /\ Monomials(stream, Columns(f), y)[<<i, j>>]
              = Times(y[i], Term(f, Triangle(i) + j, j))
  <1> DEFINE k == Triangle(i) + j
  <1>1. j \in Index /\ <<i, j>> \in Pairs /\ k \in Packed
    <2>1. j \in Index
      BY SizeAssumption DEF Index
    <2>2. <<i, j>> \in Pairs
      BY BeforeGrows
    <2> QED BY <2>1, <2>2, RowInTriangle
  <1>2. quadratic[k] = stream[k] /\ Rank(<<i, j>>) = k
    BY <1>1, RankIsOffset DEF ExpandedInv
  <1>3. Monomials(stream, Columns(f), y)[<<i, j>>]
          = Times(y[i], Times(Columns(f)[j], quadratic[k]))
    <2> HIDE DEF k
    <2> QED BY <1>1, <1>2 DEF Monomials
  <1> HIDE DEF k
  <1>4. /\ quadratic[k] \in Gf256x2 /\ Embed(secret[j]) \in Gf256
        /\ xZero[j] \in Gf256x2 /\ Opened(j) \in Gf256x2
    BY <1>1, EmbeddedTyped DEF TypeOK
  <1>5. Times(Columns(f)[j], quadratic[k]) = Term(f, k, j)
    <2>1. CASE f = "base"
      <3>1. Columns(f)[j] = <<Embed(secret[j]), Zero256>>
        BY <1>1, <2>1 DEF Columns, Embedded
      <3>2. Term(f, k, j) = Scale(Embed(secret[j]), quadratic[k])
        BY <2>1 DEF Term
      <3> QED BY <1>4, <3>1, <3>2, ScaleIsTimes
    <2>2. CASE f = "signer"
      <3>1. Columns(f)[j] = xZero[j]
        BY <2>2 DEF Columns
      <3>2. Term(f, k, j) = Times(quadratic[k], xZero[j])
        BY <2>2 DEF Term
      <3> QED BY <1>4, <3>1, <3>2, TimesCommutes
    <2>3. CASE f = "opened"
      <3>1. Columns(f)[j] = Opened(j)
        BY <1>1, <2>3 DEF Columns, OpenedVector
      <3>2. Term(f, k, j) = Times(quadratic[k], Opened(j))
        BY <2>3 DEF Term
      <3> QED BY <1>4, <3>1, <3>2, TimesCommutes
    <2> QED BY <2>1, <2>2, <2>3 DEF Product
  <1>6. Term(f, k, j) \in Gf256x2
    BY <1>1, TermTyped
  <1> QED BY <1>3, <1>5, <1>6 DEF k

(* Row by row, the form of the pairs so far is what the rows before add,   *)
(* and the running product of this row times its own unknown.              *)
LEMMA RowsAddUp ==
  ASSUME TypeOK, SumsInv, ExpandedInv, NEW f \in Product, pc \in Later(f), NEW y \in Vectors
  PROVE  LET M == Monomials(stream, Columns(f), y)
         IN /\ \A i \in 0 .. MqN : Sums!Fold(M, Before(i, 0)) \in Gf256x2
            /\ \A i \in Index :
                 Sums!Fold(M, Before(i + 1, 0))
                   = Plus(Sums!Fold(M, Before(i, 0)), Times(y[i], Result(f, i)))
  <1> DEFINE M == Monomials(stream, Columns(f), y)
             F(i, j) == Sums!Fold(M, Before(i, j))
             Row(i, j) == Times(y[i], sums[f][i][j])
             Good(i, j) == /\ Sums!IsFiniteSet(Before(i, j)) /\ F(i, j) \in Gf256x2
                           /\ i < MqN => /\ F(i, 0) \in Gf256x2
                                         /\ F(i, j) = Plus(F(i, 0), Row(i, j))
             T == {p \in Nat \X Nat : Good(p[1], p[2])}
  <1>1. MqN \in Nat /\ Index \subseteq Nat /\ \A n \in Nat : n < MqN => n \in Index
    BY SizeAssumption DEF Index
  <1>2. ASSUME NEW i \in Index
        PROVE  /\ y[i] \in Gf256x2 /\ sums[f][i][0] = Zero
               /\ Row(i, 0) = Zero
               /\ \A j \in 0 .. MqN : sums[f][i][j] \in Gf256x2
    <2>1. y[i] \in Gf256x2 /\ sums[f][i] \in [0 .. MqN -> Gf256x2]
      BY SumsTyped DEF Vectors
    <2>2. sums[f][i][0] = Zero
      BY DEF SumsInv
    <2>3. Times(y[i], Zero) = Zero
      BY <2>1, PlusZero
    <2> QED BY <2>1, <2>2, <2>3
  <1>0. pc \notin {"expand", "none"}
    BY DEF Later, Product
  <1>3. <<0, 0>> \in T
    <2>1. F(0, 0) = Zero /\ Sums!IsFiniteSet(Before(0, 0))
      BY BeforeGrows, Sums!FoldEmpty, Sums!FS_EmptySet
    <2>2. Row(0, 0) = Zero /\ Zero \in Gf256x2 /\ Plus(Zero, Zero) = Zero
      <3>1. 0 \in Index
        BY SizeAssumption DEF Index
      <3> QED BY <1>2, <3>1, TowerIsRing
    <2>3. Good(0, 0)
      <3> HIDE DEF F, Row
      <3> QED BY <2>1, <2>2
    <2> HIDE DEF Good
    <2> QED BY <2>3
  <1>4. ASSUME NEW i \in Index, NEW j \in 0 .. i, <<i, j>> \in T
        PROVE  <<i, j + 1>> \in T
    <2>1. Good(i, j) /\ i < MqN /\ i \in Nat /\ j \in 0 .. MqN /\ j + 1 \in 0 .. MqN /\ j + 1 \in Nat
      BY <1>1, <1>4 DEF Index
    <2> DEFINE term == Term(f, Triangle(i) + j, j)
               m == M[<<i, j>>]
    <2>2. /\ <<i, j>> \notin Before(i, j) /\ Before(i, j + 1) = Before(i, j) \cup {<<i, j>>}
          /\ Before(i, j + 1) \subseteq Pairs
      BY BeforeGrows DEF Before
    <2>3. /\ m \in Gf256x2 /\ m = Times(y[i], term) /\ term \in Gf256x2
          /\ \A p \in Before(i, j) \cup {<<i, j>>} : M[p] \in Gf256x2
      <3>1. \A p \in Pairs : M[p] \in Gf256x2
        BY ColumnsTyped, TermsTyped
      <3>2. term \in Gf256x2 /\ m = Times(y[i], term)
        BY <1>0, TermIsMonomial
      <3> HIDE DEF M, term
      <3> QED BY <2>2, <3>1, <3>2
    <2>4. Sums!IsFiniteSet(Before(i, j + 1)) /\ F(i, j + 1) = Plus(m, F(i, j))
      <3>1. Sums!IsFiniteSet(Before(i, j))
        BY <2>1
      <3> QED BY <2>2, <2>3, <3>1, PlusAddsUp, Sums!FoldAdd
    <2>5. Row(i, j + 1) = Plus(Row(i, j), m) /\ Row(i, j) \in Gf256x2
      <3>1. Added(f, i, j)
        BY DEF Added
      <3>2. sums[f][i][j + 1] = Plus(sums[f][i][j], term)
        BY <3>1 DEF SumsInv
      <3>3. y[i] \in Gf256x2 /\ sums[f][i][j] \in Gf256x2
        BY <1>2, <2>1
      <3> HIDE DEF term, m
      <3>4. Times(y[i], Plus(sums[f][i][j], term))
              = Plus(Times(y[i], sums[f][i][j]), Times(y[i], term))
        BY <2>3, <3>3, TimesDistributes
      <3> QED BY <2>3, <3>2, <3>3, <3>4, TowerClosed
    <2> HIDE DEF F, Row, m, term
    <2>6. /\ F(i, j) \in Gf256x2 /\ F(i, 0) \in Gf256x2
          /\ F(i, j) = Plus(F(i, 0), Row(i, j))
      BY <2>1
    <2>7. F(i, j + 1) = Plus(F(i, 0), Plus(Row(i, j), m))
      <3>1. Plus(m, F(i, j)) = Plus(F(i, j), m)
        BY <2>3, <2>6, PlusLaws
      <3>2. Plus(Plus(F(i, 0), Row(i, j)), m) = Plus(F(i, 0), Plus(Row(i, j), m))
        BY <2>3, <2>5, <2>6, PlusLaws
      <3> QED BY <2>4, <2>6, <3>1, <3>2
    <2>8. F(i, j + 1) \in Gf256x2
      BY <2>3, <2>4, <2>6, TowerClosed
    <2>9. Good(i, j + 1)
      BY <2>4, <2>5, <2>6, <2>7, <2>8
    <2> HIDE DEF Good
    <2> QED BY <2>1, <2>9
  <1>5. ASSUME NEW i \in Index, <<i, i + 1>> \in T PROVE <<i + 1, 0>> \in T
    <2>1. Good(i, i + 1) /\ i \in Nat /\ i + 1 \in Nat
      BY <1>1, <1>5
    <2>2. Before(i + 1, 0) = Before(i, i + 1)
      BY BeforeGrows
    <2>3. Sums!IsFiniteSet(Before(i + 1, 0)) /\ F(i + 1, 0) \in Gf256x2
      BY <2>1, <2>2
    <2>4. i + 1 < MqN => Row(i + 1, 0) = Zero
      <3> HIDE DEF Row
      <3> QED BY <1>1, <1>2, <2>1
    <2> HIDE DEF F, Row
    <2>5. Good(i + 1, 0)
      BY <2>3, <2>4, PlusZero
    <2> HIDE DEF Good
    <2> QED BY <2>1, <2>5
  <1> HIDE DEF T, Good
  <1>6. /\ \A i \in 0 .. MqN : <<i, 0>> \in T
        /\ \A i \in Index : \A j \in 0 .. i + 1 : <<i, j>> \in T
    BY <1>3, <1>4, <1>5, PairInduction
  <1>7. ASSUME NEW i \in 0 .. MqN PROVE F(i, 0) \in Gf256x2
    <2>1. Good(i, 0)
      BY <1>6 DEF T
    <2> QED BY <2>1 DEF Good
  <1>8. ASSUME NEW i \in Index
        PROVE  F(i + 1, 0) = Plus(F(i, 0), Times(y[i], Result(f, i)))
    <2>1. i + 1 \in 0 .. i + 1 /\ i < MqN
      BY <1>1 DEF Index
    <2>2. Good(i, i + 1)
      <3>1. <<i, i + 1>> \in T
        BY <1>6, <2>1
      <3> QED BY <3>1 DEF T
    <2>3. F(i, i + 1) = Plus(F(i, 0), Row(i, i + 1))
      <3> HIDE DEF F, Row
      <3> QED BY <2>1, <2>2 DEF Good
    <2> QED BY <2>3, BeforeGrows DEF Result
  <1> QED BY <1>7, <1>8

(* A loop that adds, row after row, an unknown times its row of a product  *)
(* and something more: it ends with the form and the sum of the rest.      *)
LEMMA LoopAddsUp ==
  ASSUME TypeOK, SumsInv, ExpandedInv, NEW f \in Product, pc \in Later(f), NEW y \in Vectors,
         NEW d \in [0 .. MqN -> Gf256x2], NEW w \in Vectors,
         \A i \in Index : d[i + 1] = Plus(d[i], Plus(Times(y[i], Result(f, i)), w[i]))
  PROVE  d[MqN] = Plus(d[0], Plus(Bilinear(stream, Columns(f), y), Sums!Fold(w, Index)))
  <1> DEFINE M == Monomials(stream, Columns(f), y)
             F(i) == Sums!Fold(M, Before(i, 0))
             G(i) == Sums!Fold(w, 0 .. i - 1)
             T == {i \in Nat : i <= MqN =>
                     /\ Sums!IsFiniteSet(0 .. i - 1) /\ G(i) \in Gf256x2
                     /\ d[i] = Plus(d[0], Plus(F(i), G(i)))}
  <1>1. MqN \in Nat /\ Index = 0 .. MqN - 1 /\ \A n \in Nat : n < MqN => n \in Index
    BY SizeAssumption DEF Index
  <1>2. 0 \in T
    <2>1. 0 .. 0 - 1 = {} /\ Before(0, 0) = {}
      BY BeforeGrows
    <2>2. Sums!IsFiniteSet(0 .. 0 - 1) /\ G(0) = Zero /\ F(0) = Zero
      BY <2>1, Sums!FS_EmptySet, Sums!FoldEmpty
    <2>3. d[0] \in Gf256x2 /\ Zero \in Gf256x2
      BY <1>1, TowerIsRing
    <2>4. Plus(d[0], Plus(Zero, Zero)) = d[0]
      BY <2>3, PlusZero
    <2> HIDE DEF F, G
    <2> QED BY <2>2, <2>3, <2>4
  <1>3. ASSUME NEW i \in Nat, i \in T PROVE i + 1 \in T
    <2> SUFFICES ASSUME i + 1 <= MqN
                 PROVE  /\ Sums!IsFiniteSet(0 .. (i + 1) - 1) /\ G(i + 1) \in Gf256x2
                        /\ d[i + 1] = Plus(d[0], Plus(F(i + 1), G(i + 1)))
      OBVIOUS
    <2>1. /\ i \in Index /\ i <= MqN /\ i \in 0 .. MqN /\ 0 \in 0 .. MqN /\ i \notin 0 .. i - 1
          /\ 0 .. (i + 1) - 1 = (0 .. i - 1) \cup {i}
          /\ (0 .. i - 1) \cup {i} \subseteq Index
      BY <1>1
    <2>2. /\ Sums!IsFiniteSet(0 .. i - 1) /\ G(i) \in Gf256x2
          /\ d[i] = Plus(d[0], Plus(F(i), G(i)))
      BY <1>3, <2>1
    <2> DEFINE q == Times(y[i], Result(f, i))
               l == w[i]
    <2>3. l \in Gf256x2 /\ \A k \in (0 .. i - 1) \cup {i} : w[k] \in Gf256x2
      BY <2>1 DEF Vectors
    <2>4. Sums!IsFiniteSet((0 .. i - 1) \cup {i}) /\ G(i + 1) = Plus(l, G(i))
      <3> HIDE DEF l
      <3>1. /\ Sums!IsFiniteSet((0 .. i - 1) \cup {i})
            /\ Sums!Fold(w, (0 .. i - 1) \cup {i}) = Plus(w[i], G(i))
        BY <2>1, <2>2, <2>3, PlusAddsUp, Sums!FoldAdd
      <3> QED BY <2>1, <3>1 DEF l
    <2>5. F(i) \in Gf256x2 /\ F(i + 1) = Plus(F(i), q)
      BY <2>1, RowsAddUp
    <2>6. q \in Gf256x2 /\ d[0] \in Gf256x2
      <3>1. y[i] \in Gf256x2 /\ Result(f, i) \in Gf256x2
        BY <2>1, ResultTyped DEF Vectors
      <3> QED BY <2>1, <3>1, TowerClosed
    <2>7. d[i + 1] = Plus(d[i], Plus(q, l))
      BY <2>1
    <2> HIDE DEF F, G, l, q
    <2>8. G(i + 1) = Plus(G(i), l) /\ G(i + 1) \in Gf256x2
      BY <2>2, <2>3, <2>4, PlusLaws, TowerClosed
    <2>9. Plus(Plus(F(i), G(i)), Plus(q, l)) = Plus(Plus(F(i), q), Plus(G(i), l))
      BY <2>2, <2>3, <2>5, <2>6, PlusSwap
    <2>10. Plus(Plus(d[0], Plus(F(i), G(i))), Plus(q, l))
             = Plus(d[0], Plus(Plus(F(i), G(i)), Plus(q, l)))
      <3>1. Plus(F(i), G(i)) \in Gf256x2 /\ Plus(q, l) \in Gf256x2
        BY <2>2, <2>3, <2>5, <2>6, TowerClosed
      <3> QED BY <2>6, <3>1, PlusLaws
    <2> QED BY <2>1, <2>2, <2>4, <2>5, <2>7, <2>8, <2>9, <2>10
  <1>4. \A i \in Nat : i \in T
    <2> HIDE DEF T
    <2> QED BY <1>2, <1>3, Sums!NatSetInduction
  <1>5. d[MqN] = Plus(d[0], Plus(F(MqN), G(MqN)))
    <2>1. MqN \in T /\ MqN <= MqN
      BY <1>1, <1>4
    <2> HIDE DEF F, G
    <2> QED BY <2>1
  <1>6. Bilinear(stream, Columns(f), y) = F(MqN)
    BY FormsAreFolds, BeforeGrows
  <1> QED BY <1>1, <1>5, <1>6

(* The forms that the loops end with. *)
LEMMA LoopsAddUp ==
  ASSUME IInv, ExpandedInv
  PROVE  LoopsAreForms
  <1> DEFINE s == Embedded(secret)
             o == OpenedVector
             B(x, y) == Bilinear(stream, x, y)
             L(x) == LinearForm(stream, x)
  <1>1. TypeOK /\ LoopInv /\ SumsInv /\ OpenedInv /\ DotsInv
    BY DEF IInv
  <1>2. /\ stream \in Streams /\ s \in Vectors /\ xZero \in Vectors /\ o \in Vectors
        /\ Columns("base") = s /\ Columns("signer") = xZero /\ Columns("opened") = o
    BY <1>1, ColumnsTyped DEF Columns
  <1>3. \A z \in Dot : dots[z] \in [0 .. MqN -> Gf256x2]
    BY <1>1 DEF TypeOK
  <1>4. /\ \A x, y \in Vectors : B(x, y) \in Gf256x2 /\ L(x) \in Gf256x2
        /\ \A x \in Vectors : LinearTerms(stream, x) \in Vectors
        /\ \A x \in Vectors : Sums!Fold(LinearTerms(stream, x), Index) = L(x)
    <2>1. \A x, y \in Vectors : B(x, y) \in Gf256x2 /\ L(x) \in Gf256x2
      BY <1>2, FormsTyped
    <2>2. \A x \in Vectors : LinearTerms(stream, x) \in Vectors
      BY <1>2, TermsTyped DEF LinearTerms, Vectors
    <2>3. \A x \in Vectors : Sums!Fold(LinearTerms(stream, x), Index) = L(x)
      BY FormsAreFolds
    <2> QED BY <2>1, <2>2, <2>3
  <1>5. Nothing \in Vectors /\ Sums!Fold(Nothing, Index) = Zero /\ Zero \in Gf256x2
    BY TowerIsRing, NothingAddsUp DEF Nothing, Vectors
  <1>6. ASSUME pc \notin {"expand", "none"}, NEW i \in Index
        PROVE  /\ linear[i] = stream[TriangularElementCount + i] /\ linear[i] \in Gf256x2
               /\ \A x \in Vectors : LinearTerms(stream, x)[i] = Times(x[i], linear[i])
    <2>1. linear[i] = stream[TriangularElementCount + i] /\ linear[i] \in Gf256x2
      BY <1>1, <1>6, ResultTyped DEF ExpandedInv
    <2> QED BY <2>1 DEF LinearTerms
  <1>7. \A i \in Index : /\ xZero[i] \in Gf256x2 /\ s[i] \in Gf256x2 /\ o[i] = Opened(i)
                         /\ \A f \in Product : Result(f, i) \in Gf256x2
                         /\ \A t \in Gf256x2 : Scale(Embed(secret[i]), t) = Times(s[i], t)
    <2> SUFFICES ASSUME NEW i \in Index
                 PROVE  /\ xZero[i] \in Gf256x2 /\ s[i] \in Gf256x2 /\ o[i] = Opened(i)
                        /\ \A f \in Product : Result(f, i) \in Gf256x2
                        /\ \A t \in Gf256x2 : Scale(Embed(secret[i]), t) = Times(s[i], t)
      OBVIOUS
    <2>1. xZero[i] \in Gf256x2 /\ s[i] \in Gf256x2 /\ Embed(secret[i]) \in Gf256
      BY <1>1, <1>2, EmbeddedTyped DEF Vectors
    <2>2. s[i] = <<Embed(secret[i]), Zero256>> /\ o[i] = Opened(i)
      BY DEF Embedded, OpenedVector
    <2>3. \A t \in Gf256x2 : Scale(Embed(secret[i]), t) = Times(<<Embed(secret[i]), Zero256>>, t)
      BY <2>1, ScaleIsTimes
    <2> QED BY <1>1, <2>1, <2>2, <2>3, ResultTyped
  <1> HIDE DEF s, o
  <1>8. ASSUME pc \in {"signer", "done"} PROVE Value("output") = Plus(B(s, s), L(s))
    <2> DEFINE d == dots["output"]
               w == LinearTerms(stream, s)
    <2>1. d \in [0 .. MqN -> Gf256x2] /\ d[0] = Zero /\ pc \in Later("base") /\ "base" \in Product
      BY <1>1, <1>3, <1>8 DEF Dot, DotsInv, Later, Product
    <2>2. ASSUME NEW i \in Index
          PROVE  d[i + 1] = Plus(d[i], Plus(Times(s[i], Result("base", i)), w[i]))
      <3>1. Joined("output", i)
        BY <1>8 DEF Joined, Later
      <3>2. d[i + 1] = Plus(d[i], OutputTerm(i))
        BY <1>1, <3>1 DEF DotsInv
      <3>3. w[i] = Times(s[i], linear[i]) /\ linear[i] \in Gf256x2
        BY <1>2, <1>6, <1>8
      <3>4. OutputTerm(i) = Plus(Times(s[i], Result("base", i)), Times(s[i], linear[i]))
        BY <1>7, <2>1, <3>3 DEF OutputTerm
      <3> QED BY <3>2, <3>3, <3>4
    <2>3. w \in Vectors /\ Sums!Fold(w, Index) = L(s)
      BY <1>2, <1>4
    <2> HIDE DEF d, w
    <2>4. d[MqN] = Plus(d[0], Plus(B(Columns("base"), s), Sums!Fold(w, Index)))
      BY <1>1, <1>2, <2>1, <2>2, <2>3, LoopAddsUp
    <2>5. d[MqN] = Plus(Zero, Plus(B(s, s), L(s)))
      BY <1>2, <2>1, <2>3, <2>4
    <2>6. Plus(B(s, s), L(s)) \in Gf256x2
      BY <1>2, <1>4, TowerClosed
    <2> QED BY <2>5, <2>6, PlusZero DEF d, Value
  <1>9. ASSUME NEW f \in Product, pc \in Later(f), NEW y \in Vectors,
               NEW d \in [0 .. MqN -> Gf256x2],
               \A i \in Index : d[i + 1] = Plus(d[i], Times(y[i], Result(f, i)))
        PROVE  d[MqN] = Plus(d[0], B(Columns(f), y))
    <2>1. ASSUME NEW i \in Index
          PROVE  d[i + 1] = Plus(d[i], Plus(Times(y[i], Result(f, i)), Nothing[i]))
      <3>1. Nothing[i] = Zero /\ y[i] \in Gf256x2 /\ Result(f, i) \in Gf256x2
        BY <1>7 DEF Nothing, Vectors
      <3>2. Plus(Times(y[i], Result(f, i)), Zero) = Times(y[i], Result(f, i))
        BY <3>1, TowerClosed, PlusZero
      <3> QED BY <1>9, <3>1, <3>2
    <2>2. d[MqN] = Plus(d[0], Plus(B(Columns(f), y), Sums!Fold(Nothing, Index)))
      BY <1>1, <1>5, <1>9, <2>1, LoopAddsUp
    <2>3. Columns(f) \in Vectors
      BY <1>1, ColumnsTyped
    <2>4. Plus(B(Columns(f), y), Zero) = B(Columns(f), y)
      BY <1>4, <2>3, PlusZero
    <2> QED BY <1>5, <2>2, <2>4
  <1>10. ASSUME pc = "done" PROVE Value("zZero") = B(xZero, xZero)
    <2> DEFINE d == dots["zZero"]
    <2>1. d \in [0 .. MqN -> Gf256x2] /\ d[0] = Zero /\ pc \in Later("signer") /\ "signer" \in Product
      BY <1>1, <1>3, <1>10 DEF Dot, DotsInv, Later, Product
    <2>2. ASSUME NEW i \in Index
          PROVE  d[i + 1] = Plus(d[i], Times(xZero[i], Result("signer", i)))
      <3>1. Joined("cross", i)
        BY <1>10 DEF Joined, Later
      <3>2. d[i + 1] = Plus(d[i], Times(Result("signer", i), xZero[i]))
        BY <1>1, <3>1 DEF DotsInv
      <3>3. xZero[i] \in Gf256x2 /\ Result("signer", i) \in Gf256x2
        BY <1>7, <2>1
      <3> QED BY <3>2, <3>3, TimesCommutes
    <2> HIDE DEF d
    <2>3. d[MqN] = Plus(d[0], B(Columns("signer"), xZero))
      BY <1>2, <1>9, <2>1, <2>2
    <2> QED BY <1>2, <1>4, <2>1, <2>3, PlusZero DEF d, Value
  <1>11. ASSUME pc = "done" PROVE Value("cross") = B(xZero, s)
    <2> DEFINE d == dots["cross"]
    <2>1. d \in [0 .. MqN -> Gf256x2] /\ d[0] = Zero /\ pc \in Later("signer") /\ "signer" \in Product
      BY <1>1, <1>3, <1>11 DEF Dot, DotsInv, Later, Product
    <2>2. ASSUME NEW i \in Index
          PROVE  d[i + 1] = Plus(d[i], Times(s[i], Result("signer", i)))
      <3>1. Joined("cross", i)
        BY <1>11 DEF Joined, Later
      <3>2. d[i + 1] = Plus(d[i], Scale(Embed(secret[i]), Result("signer", i)))
        BY <1>1, <3>1 DEF DotsInv
      <3>3. Scale(Embed(secret[i]), Result("signer", i)) = Times(s[i], Result("signer", i))
        BY <1>7, <2>1
      <3> QED BY <3>2, <3>3
    <2> HIDE DEF d
    <2>3. d[MqN] = Plus(d[0], B(Columns("signer"), s))
      BY <1>2, <1>9, <2>1, <2>2
    <2> QED BY <1>2, <1>4, <2>1, <2>3, PlusZero DEF d, Value
  <1>12. ASSUME pc = "done"
         PROVE  Value("zOne") = Plus(B(xZero, s), Plus(B(s, xZero), L(xZero)))
    <2> DEFINE d == dots["zOne"]
               w == LinearTerms(stream, xZero)
    <2>1. /\ d \in [0 .. MqN -> Gf256x2] /\ d[0] = Value("cross")
          /\ pc \in Later("base") /\ "base" \in Product
      BY <1>1, <1>3, <1>12 DEF Dot, DotsInv, Later, Product
    <2>2. ASSUME NEW i \in Index
          PROVE  d[i + 1] = Plus(d[i], Plus(Times(xZero[i], Result("base", i)), w[i]))
      <3>1. Joined("line", i)
        BY <1>12 DEF Joined, Later
      <3>2. d[i + 1] = Plus(d[i], Times(TOne(i), xZero[i]))
        BY <1>1, <3>1 DEF DotsInv
      <3>3. w[i] = Times(xZero[i], linear[i]) /\ linear[i] \in Gf256x2
        BY <1>2, <1>6, <1>12
      <3>4. xZero[i] \in Gf256x2 /\ Result("base", i) \in Gf256x2
        BY <1>7, <2>1
      <3>5. Times(Plus(Result("base", i), linear[i]), xZero[i])
              = Plus(Times(xZero[i], Result("base", i)), Times(xZero[i], linear[i]))
        <4>1. Plus(Result("base", i), linear[i]) \in Gf256x2
          BY <3>3, <3>4, TowerClosed
        <4>2. Times(Plus(Result("base", i), linear[i]), xZero[i])
                = Times(xZero[i], Plus(Result("base", i), linear[i]))
          BY <3>4, <4>1, TimesCommutes
        <4> QED BY <3>3, <3>4, <4>2, TimesDistributes
      <3> QED BY <3>2, <3>3, <3>5 DEF TOne
    <2>3. w \in Vectors /\ Sums!Fold(w, Index) = L(xZero)
      BY <1>2, <1>4
    <2> HIDE DEF d, w
    <2>4. d[MqN] = Plus(d[0], Plus(B(Columns("base"), xZero), Sums!Fold(w, Index)))
      BY <1>1, <1>2, <2>1, <2>2, <2>3, LoopAddsUp
    <2>5. d[MqN] = Plus(B(xZero, s), Plus(B(s, xZero), L(xZero)))
      BY <1>2, <1>11, <1>12, <2>1, <2>3, <2>4
    <2> QED BY <2>5 DEF d, Value
  <1>13. ASSUME pc = "done" PROVE Value("zOpened") = Plus(B(o, o), Times(point, L(o)))
    <2> DEFINE d == dots["zOpened"]
               w == [i \in Index |-> Times(point, LinearTerms(stream, o)[i])]
    <2>1. d \in [0 .. MqN -> Gf256x2] /\ d[0] = Zero /\ pc \in Later("opened") /\ "opened" \in Product
      BY <1>1, <1>3, <1>13 DEF Dot, DotsInv, Later, Product
    <2>2. point \in Gf256x2 /\ \A i \in Index : LinearTerms(stream, o)[i] \in Gf256x2
      <3>1. 0 \in Index
        BY SizeAssumption DEF Index
      <3>2. point \in Gf256x2
        BY <1>1, <3>1, EmbeddedTyped
      <3> QED BY <1>2, <3>2, TermsTyped
    <2>3. ASSUME NEW i \in Index
          PROVE  d[i + 1] = Plus(d[i], Plus(Times(o[i], Result("opened", i)), w[i]))
      <3>1. d[i + 1] = Plus(d[i], Times(TOpened(i), o[i]))
        <4>1. d[i + 1] = LineAt(i + 1)
          <5>1. Joined("point", i)
            BY <1>13 DEF Joined, Later
          <5> QED BY <1>1, <5>1 DEF DotsInv
        <4>2. d[i] = LineAt(i)
          <5>1. CASE i = 0
            BY <1>1, <1>13, <5>1, LineStarts
          <5>2. CASE i # 0
            <6>1. i - 1 \in Index /\ (i - 1) + 1 = i
              BY <5>2, SizeAssumption DEF Index
            <6>2. Joined("point", i - 1)
              BY <1>13 DEF Joined, Later
            <6>3. d[(i - 1) + 1] = LineAt((i - 1) + 1)
              BY <1>1, <6>1, <6>2 DEF DotsInv
            <6> QED BY <6>1, <6>3
          <5> QED BY <5>1, <5>2
        <4>3. LineAt(i + 1) = Plus(LineAt(i), Times(TOpened(i), Opened(i)))
          BY <1>1, <1>13, LineGrows
        <4> QED BY <1>7, <4>1, <4>2, <4>3
      <3>2. /\ LinearTerms(stream, o)[i] = Times(o[i], linear[i]) /\ linear[i] \in Gf256x2
            /\ o[i] \in Gf256x2 /\ Result("opened", i) \in Gf256x2
        <4>1. LinearTerms(stream, o)[i] = Times(o[i], linear[i]) /\ linear[i] \in Gf256x2
          BY <1>2, <1>6, <1>13
        <4> QED BY <1>2, <1>7, <2>1, <4>1 DEF Vectors
      <3>3. w[i] = Times(point, Times(o[i], linear[i]))
        BY <3>2
      <3> DEFINE r == Result("opened", i)
                 l == linear[i]
                 pl == Times(point, linear[i])
      <3>4. TOpened(i) = Plus(r, pl)
        BY DEF TOpened
      <3>5. pl \in Gf256x2 /\ r \in Gf256x2 /\ Plus(r, pl) \in Gf256x2
        BY <2>2, <3>2, TowerClosed
      <3> HIDE DEF r, d, w
      <3>6. Times(Plus(r, pl), o[i]) = Plus(Times(o[i], r), Times(o[i], pl))
        <4> HIDE DEF pl
        <4>1. Times(Plus(r, pl), o[i]) = Times(o[i], Plus(r, pl))
          BY <3>2, <3>5, TimesCommutes
        <4> QED BY <3>2, <3>5, <4>1, TimesDistributes
      <3>7. Times(o[i], pl) = Times(point, Times(o[i], l))
        BY <2>2, <3>2, TimesSwap
      <3> QED BY <3>1, <3>3, <3>4, <3>6, <3>7 DEF r
    <2>4. w \in Vectors
      BY <2>2, TowerClosed DEF Vectors
    <2>5. Sums!Fold(w, Index) = Times(point, L(o))
      <3>1. \A i \in Index : /\ Nothing[i] = Zero /\ Zero \in Gf256x2
                             /\ w[i] = Times(point, LinearTerms(stream, o)[i])
                             /\ w[i] \in Gf256x2
        BY <1>5, <2>2, TowerClosed DEF Nothing
      <3> HIDE DEF w
      <3>2. \A i \in Index : w[i] = Plus(Nothing[i], Times(point, LinearTerms(stream, o)[i]))
        BY <3>1, PlusZero
      <3>3. Sums!Fold(w, Index)
              = Plus(Sums!Fold(Nothing, Index),
                     Times(point, Sums!Fold(LinearTerms(stream, o), Index)))
        BY <2>2, <3>1, <3>2, PairsFinite, SumsCombine
      <3>4. Sums!Fold(LinearTerms(stream, o), Index) = L(o) /\ L(o) \in Gf256x2
        BY <1>2, <1>4
      <3>5. Times(point, L(o)) \in Gf256x2
        BY <2>2, <3>4, TowerClosed
      <3> HIDE DEF L
      <3> QED BY <1>5, <3>3, <3>4, <3>5, PlusZero
    <2> HIDE DEF d, w
    <2>6. d[MqN] = Plus(d[0], Plus(B(Columns("opened"), o), Sums!Fold(w, Index)))
      BY <1>1, <1>2, <2>1, <2>3, <2>4, LoopAddsUp
    <2>7. d[MqN] = Plus(Zero, Plus(B(o, o), Times(point, L(o))))
      BY <1>2, <2>1, <2>5, <2>6
    <2>8. Plus(B(o, o), Times(point, L(o))) \in Gf256x2
      <3>1. B(o, o) \in Gf256x2 /\ L(o) \in Gf256x2
        BY <1>2, <1>4
      <3> HIDE DEF B, L
      <3> QED BY <2>2, <3>1, TowerClosed
    <2> QED BY <2>7, <2>8, PlusZero DEF d, Value
  <1> QED BY <1>8, <1>10, <1>12, <1>13 DEF LoopsAreForms, s, o

(* What the loops of key generation, signing and verification compute are  *)
(* values of one quadratic form, its coefficients packed row by row in the *)
(* stream: at the secret, on the line between mask and secret, at the      *)
(* opened point (mq.rs:48-63, mq.rs:122-130, sign.rs:93-109,               *)
(* verify.rs:97-112).                                                      *)
THEOREM FormsCorrect == Spec => []LoopsAreForms
  <1>1. IInv /\ ExpandedInv => LoopsAreForms
    BY LoopsAddUp
  <1> QED BY <1>1, Invariance, ExpandedHolds, PTL

-----------------------------------------------------------------------------
(* The contract of signing and verification *)

VectorPlus(x, y) == [i \in Index |-> Plus(x[i], y[i])]
VectorTimes(p, x) == [i \in Index |-> Times(p, x[i])]

(* Equations 0 .. EquationCount - 1 and the streams their seeds expand to. *)
EquationForm(d, q, x, y) == Bilinear(d[q], x, y)
EquationLinear(d, q, x) == LinearForm(d[q], x)

Signing == INSTANCE QuadraticSystem WITH
  Elem <- Gf256x2, Vec <- Vectors, VPlus <- VectorPlus, VTimes <- VectorTimes,
  Secret <- {Embedded(s) : s \in Secret},
  Seed <- [0 .. EquationCount - 1 -> Stream],
  Form <- EquationForm, Linear <- EquationLinear

(* The point that is opened lies on the line through mask and secret.      *)
LEMMA OpenedOnLine ==
  ASSUME TypeOK
  PROVE  OpenedVector = VectorPlus(xZero, VectorTimes(point, Embedded(secret)))
  <1>1. ASSUME NEW i \in Index
        PROVE  Opened(i) = Plus(xZero[i], Times(point, Embedded(secret)[i]))
    <2>1. Embedded(secret)[i] = <<Embed(secret[i]), Zero256>>
      BY DEF Embedded
    <2>2. Embed(secret[i]) \in Gf256 /\ point \in Gf256x2
      BY EmbeddedTyped
    <2>3. /\ <<Embed(secret[i]), Zero256>> \in Gf256x2
          /\ Scale(Embed(secret[i]), point) = Times(<<Embed(secret[i]), Zero256>>, point)
      BY <2>2, ScaleIsTimes
    <2>4. Scale(Embed(secret[i]), point) = Times(point, <<Embed(secret[i]), Zero256>>)
      BY <2>2, <2>3, TimesCommutes
    <2> QED BY <2>1, <2>4 DEF Opened
  <1> QED BY <1>1 DEF OpenedVector, VectorPlus, VectorTimes

LEMMA VectorsClosed ==
  ASSUME NEW x \in Vectors, NEW y \in Vectors, NEW p \in Gf256x2
  PROVE  /\ VectorPlus(x, VectorTimes(p, y)) \in Vectors
         /\ \A i \in Index : /\ x[i] \in Gf256x2 /\ y[i] \in Gf256x2
                             /\ VectorPlus(x, VectorTimes(p, y))[i] = Plus(x[i], Times(p, y[i]))
  <1>1. \A i \in Index : /\ x[i] \in Gf256x2 /\ y[i] \in Gf256x2
                         /\ Plus(x[i], Times(p, y[i])) \in Gf256x2
    <2>1. \A i \in Index : x[i] \in Gf256x2 /\ y[i] \in Gf256x2
      BY DEF Vectors
    <2> QED BY <2>1, TowerClosed
  <1>2. VectorPlus(x, VectorTimes(p, y)) = [i \in Index |-> Plus(x[i], Times(p, y[i]))]
    BY DEF VectorPlus, VectorTimes
  <1> QED BY <1>1, <1>2 DEF Vectors

(* (b + p c) d = b d + p (c d) *)
LEMMA LineTimes ==
  ASSUME NEW b \in Gf256x2, NEW c \in Gf256x2, NEW d \in Gf256x2, NEW p \in Gf256x2
  PROVE  Times(Plus(b, Times(p, c)), d) = Plus(Times(b, d), Times(p, Times(c, d)))
  <1>1. Times(p, c) \in Gf256x2
    BY TowerClosed
  <1>2. Times(Plus(b, Times(p, c)), d) = Plus(Times(b, d), Times(Times(p, c), d))
    BY <1>1, LeftDistributes
  <1> QED BY <1>2, TimesAssociates

(* a (b + p c) = a b + p (a c) *)
LEMMA TimesLine ==
  ASSUME NEW a \in Gf256x2, NEW b \in Gf256x2, NEW c \in Gf256x2, NEW p \in Gf256x2
  PROVE  Times(a, Plus(b, Times(p, c))) = Plus(Times(a, b), Times(p, Times(a, c)))
  <1>1. Times(p, c) \in Gf256x2
    BY TowerClosed
  <1>2. Times(a, Plus(b, Times(p, c))) = Plus(Times(a, b), Times(a, Times(p, c)))
    BY <1>1, TimesDistributes
  <1> QED BY <1>2, TimesSwap

(* The forms of a stream are linear in each vector.                        *)
LEMMA FormsAreLinear ==
  ASSUME NEW s \in Streams, NEW x \in Vectors, NEW y \in Vectors, NEW z \in Vectors,
         NEW p \in Gf256x2
  PROVE  LET v == VectorPlus(x, VectorTimes(p, y))
         IN /\ Bilinear(s, v, z) = Plus(Bilinear(s, x, z), Times(p, Bilinear(s, y, z)))
            /\ Bilinear(s, z, v) = Plus(Bilinear(s, z, x), Times(p, Bilinear(s, z, y)))
            /\ LinearForm(s, v) = Plus(LinearForm(s, x), Times(p, LinearForm(s, y)))
  <1> DEFINE v == VectorPlus(x, VectorTimes(p, y))
  <1>1. v \in Vectors /\ \A i \in Index : v[i] = Plus(x[i], Times(p, y[i]))
    BY VectorsClosed
  <1> HIDE DEF v
  <1>2. \A i \in Index : x[i] \in Gf256x2 /\ y[i] \in Gf256x2 /\ z[i] \in Gf256x2
    BY DEF Vectors
  <1>3. \A q \in Pairs : q[1] \in Index /\ q[2] \in Index
    BY DEF Pairs
  <1>4. ASSUME NEW q \in Pairs
        PROVE  /\ Monomials(s, x, z)[q] \in Gf256x2 /\ Monomials(s, y, z)[q] \in Gf256x2
               /\ Monomials(s, v, z)[q]
                    = Plus(Monomials(s, x, z)[q], Times(p, Monomials(s, y, z)[q]))
    <2> DEFINE c == s[Rank(q)]
               a == z[q[1]]
               b == x[q[2]]
               e == y[q[2]]
    <2>1. a \in Gf256x2 /\ b \in Gf256x2 /\ e \in Gf256x2 /\ c \in Gf256x2
      BY <1>2, <1>3, PlacesInStream
    <2>2. /\ Monomials(s, x, z)[q] = Times(a, Times(b, c))
          /\ Monomials(s, y, z)[q] = Times(a, Times(e, c))
          /\ Monomials(s, v, z)[q] = Times(a, Times(v[q[2]], c))
      BY DEF Monomials
    <2>3. v[q[2]] = Plus(b, Times(p, e))
      BY <1>1, <1>3
    <2> HIDE DEF a, b, c, e
    <2>4. Times(Plus(b, Times(p, e)), c) = Plus(Times(b, c), Times(p, Times(e, c)))
      BY <2>1, LineTimes
    <2>5. Times(b, c) \in Gf256x2 /\ Times(e, c) \in Gf256x2
      BY <2>1, TowerClosed
    <2>6. Times(a, Plus(Times(b, c), Times(p, Times(e, c))))
            = Plus(Times(a, Times(b, c)), Times(p, Times(a, Times(e, c))))
      BY <2>1, <2>5, TimesLine
    <2>7. Times(a, Times(b, c)) \in Gf256x2 /\ Times(a, Times(e, c)) \in Gf256x2
      BY <2>1, <2>5, TowerClosed
    <2> QED BY <2>2, <2>3, <2>4, <2>6, <2>7
  <1>5. ASSUME NEW q \in Pairs
        PROVE  /\ Monomials(s, z, x)[q] \in Gf256x2 /\ Monomials(s, z, y)[q] \in Gf256x2
               /\ Monomials(s, z, v)[q]
                    = Plus(Monomials(s, z, x)[q], Times(p, Monomials(s, z, y)[q]))
    <2> DEFINE c == Times(z[q[2]], s[Rank(q)])
               b == x[q[1]]
               e == y[q[1]]
    <2>1. b \in Gf256x2 /\ e \in Gf256x2 /\ c \in Gf256x2
      <3>1. z[q[2]] \in Gf256x2 /\ s[Rank(q)] \in Gf256x2
        BY <1>2, <1>3, PlacesInStream
      <3> QED BY <1>2, <1>3, <3>1, TowerClosed
    <2>2. /\ Monomials(s, z, x)[q] = Times(b, c)
          /\ Monomials(s, z, y)[q] = Times(e, c)
          /\ Monomials(s, z, v)[q] = Times(v[q[1]], c)
      BY DEF Monomials
    <2>3. v[q[1]] = Plus(b, Times(p, e))
      BY <1>1, <1>3
    <2> HIDE DEF b, c, e
    <2>4. Times(Plus(b, Times(p, e)), c) = Plus(Times(b, c), Times(p, Times(e, c)))
      BY <2>1, LineTimes
    <2>5. Times(b, c) \in Gf256x2 /\ Times(e, c) \in Gf256x2
      BY <2>1, TowerClosed
    <2> QED BY <2>2, <2>3, <2>4, <2>5
  <1>6. ASSUME NEW i \in Index
        PROVE  /\ LinearTerms(s, x)[i] \in Gf256x2 /\ LinearTerms(s, y)[i] \in Gf256x2
               /\ LinearTerms(s, v)[i]
                    = Plus(LinearTerms(s, x)[i], Times(p, LinearTerms(s, y)[i]))
    <2> DEFINE c == s[TriangularElementCount + i]
    <2>1. c \in Gf256x2
      BY PlacesInStream
    <2>2. /\ LinearTerms(s, x)[i] = Times(x[i], c) /\ LinearTerms(s, y)[i] = Times(y[i], c)
          /\ LinearTerms(s, v)[i] = Times(v[i], c)
      BY DEF LinearTerms
    <2>3. v[i] = Plus(x[i], Times(p, y[i])) /\ x[i] \in Gf256x2 /\ y[i] \in Gf256x2
      BY <1>1, <1>2
    <2> HIDE DEF c
    <2>4. Times(Plus(x[i], Times(p, y[i])), c) = Plus(Times(x[i], c), Times(p, Times(y[i], c)))
      BY <2>1, <2>3, LineTimes
    <2>5. Times(x[i], c) \in Gf256x2 /\ Times(y[i], c) \in Gf256x2
      BY <2>1, <2>3, TowerClosed
    <2> QED BY <2>2, <2>3, <2>4, <2>5
  <1>7. Sums!Fold(Monomials(s, v, z), Pairs)
          = Plus(Sums!Fold(Monomials(s, x, z), Pairs),
                 Times(p, Sums!Fold(Monomials(s, y, z), Pairs)))
    BY <1>4, PairsFinite, SumsCombine
  <1>8. Sums!Fold(Monomials(s, z, v), Pairs)
          = Plus(Sums!Fold(Monomials(s, z, x), Pairs),
                 Times(p, Sums!Fold(Monomials(s, z, y), Pairs)))
    BY <1>5, PairsFinite, SumsCombine
  <1>9. Sums!Fold(LinearTerms(s, v), Index)
          = Plus(Sums!Fold(LinearTerms(s, x), Index),
                 Times(p, Sums!Fold(LinearTerms(s, y), Index)))
    BY <1>6, PairsFinite, SumsCombine
  <1>10. /\ Bilinear(s, v, z) = Plus(Bilinear(s, x, z), Times(p, Bilinear(s, y, z)))
         /\ Bilinear(s, z, v) = Plus(Bilinear(s, z, x), Times(p, Bilinear(s, z, y)))
         /\ LinearForm(s, v) = Plus(LinearForm(s, x), Times(p, LinearForm(s, y)))
    BY <1>7, <1>8, <1>9, FormsAreFolds
  <1> QED BY <1>10 DEF v

(* The packed equations over the tower are what Signature assumes of its   *)
(* field and its equations: signing and verification may use them as forms *)
(* linear in each vector (mq.rs:89-112, sign.rs:93-109, verify.rs:97-112). *)
THEOREM EquationsKeepContract == Signing!RingLaws /\ Signing!FormLaws
  <1>1. Signing!RingLaws
    BY TowerIsRing DEF Signing!RingLaws
  <1>2. \A d \in [0 .. EquationCount - 1 -> Stream], q \in Signing!Equation : d[q] \in Streams
    BY SampleAssumption DEF Signing!Equation, Streams
  <1>3. {Embedded(s) : s \in Secret} \subseteq Vectors
    <2> SUFFICES ASSUME NEW s \in Secret PROVE Embedded(s) \in Vectors
      OBVIOUS
    <2>1. \A i \in Index : Embed(s[i]) \in Gf256
      BY SampleAssumption
    <2>2. \A i \in Index : <<Embed(s[i]), Zero256>> \in Gf256x2
      <3>1. Zero256 \in Gf256
        BY BaseRing
      <3> QED BY <2>1, <3>1 DEF Gf256x2
    <2> QED BY <2>2 DEF Embedded, Vectors
  <1>4. \A x, y \in Vectors, p \in Gf256x2 : VectorPlus(x, VectorTimes(p, y)) \in Vectors
    BY VectorsClosed
  <1>5. \A d \in [0 .. EquationCount - 1 -> Stream], q \in Signing!Equation, x, y \in Vectors :
          EquationForm(d, q, x, y) \in Gf256x2 /\ EquationLinear(d, q, x) \in Gf256x2
    BY <1>2, FormsTyped DEF EquationForm, EquationLinear
  <1>6. \A d \in [0 .. EquationCount - 1 -> Stream], q \in Signing!Equation,
           x, y, z \in Vectors, p \in Gf256x2 :
          LET v == VectorPlus(x, VectorTimes(p, y))
          IN /\ EquationForm(d, q, v, z)
                  = Plus(EquationForm(d, q, x, z), Times(p, EquationForm(d, q, y, z)))
             /\ EquationForm(d, q, z, v)
                  = Plus(EquationForm(d, q, z, x), Times(p, EquationForm(d, q, z, y)))
             /\ EquationLinear(d, q, v)
                  = Plus(EquationLinear(d, q, x), Times(p, EquationLinear(d, q, y)))
    BY <1>2, FormsAreLinear DEF EquationForm, EquationLinear
  <1>7. Signing!FormLaws
    BY <1>3, <1>4, <1>5, <1>6 DEF Signing!FormLaws
  <1> QED BY <1>1, <1>7
=============================================================================
