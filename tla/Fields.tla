------------------------------- MODULE Fields --------------------------------
(***************************************************************************)
(* The arithmetic of the three fields (field.rs): the shift-and-add loops  *)
(* of the products, the inversion chains, the embedding of the small field *)
(* and the tower over it, run on the real moduli.                          *)
(*                                                                         *)
(* A u8 is the set of its one bits: xor is the symmetric difference and a  *)
(* shift moves every bit.  Tower gives the products of the top field.      *)
(***************************************************************************)
EXTENDS Integers, FiniteSets

CONSTANTS
  Factor,                      \* second factors tried: [field -> set of elements]
  Inverted                     \* elements inverted: the same, with gf256x2

VARIABLES
  stage, field, x, y,             \* what is computed, and of what
  a, b, product, round         \* the loop

fieldVars == <<stage, field, x, y, a, b, product, round>>

Degree == [gf16 |-> 4, gf256 |-> 8]
Reduction == [gf16 |-> {0, 1}, gf256 |-> {0, 1, 3, 4}]   \* 0x03, 0x1b
Element(f) == SUBSET (0 .. Degree[f] - 1)
Elements(f) == IF f = "gf256x2" THEN Element("gf256") \X Element("gf256") ELSE Element(f)

ASSUME FieldsAssumption ==
  /\ \A f \in DOMAIN Degree : Factor[f] \subseteq Element(f)
  /\ DOMAIN Inverted \subseteq {"gf16", "gf256", "gf256x2"}
  /\ \A f \in DOMAIN Inverted : Inverted[f] \subseteq Elements(f)

Add(u, v) == (u \ v) \cup (v \ u)

(* Fault: the shift is only cut to the byte, not to the element. *)
Double_Unmasked(f, u) ==
  Add({k + 1 : k \in u \ {7}}, IF Degree[f] - 1 \in u THEN Reduction[f] ELSE {})

Double(f, u) ==
  Add({k + 1 : k \in u \ {Degree[f] - 1}},
      IF Degree[f] - 1 \in u THEN Reduction[f] ELSE {})

Halve(u) == {k - 1 : k \in u \ {0}}

Round(f, l) ==
  [a |-> Double(f, l.a), b |-> Halve(l.b),
   product |-> IF 0 \in l.b THEN Add(l.product, l.a) ELSE l.product]

Mul(f, u, v) ==
  LET after[n \in 0 .. Degree[f]] ==
        IF n = 0 THEN [a |-> u, b |-> v, product |-> {}] ELSE Round(f, after[n - 1])
  IN after[Degree[f]].product

(* The products, tabled once for each field. *)
Table == [f \in DOMAIN Degree |->
            [u \in Element(f) |-> [v \in Element(f) |-> Mul(f, u, v)]]]

Mul256(u, v) == Table["gf256"][u][v]

(* Fault: the image of x^2 is 0x5c. *)
Embed_WrongImage(u) ==
  LET image == <<{0}, {5, 6, 7}, {2, 3, 4, 6}, {4, 5, 7}>>
  IN {k \in 0 .. 7 : Cardinality({i \in u : k \in image[i + 1]}) % 2 = 1}

(* Gf16::embed: 0x01, 0xe0, 0x5d and 0xb0 for 1, x, x^2 and x^3. *)
Embed(u) ==
  LET image == <<{0}, {5, 6, 7}, {0, 2, 3, 4, 6}, {4, 5, 7}>>
  IN {k \in 0 .. 7 : Cardinality({i \in u : k \in image[i + 1]}) % 2 = 1}

Tower == INSTANCE Tower WITH
  Gf256 <- Element("gf256"), Zero256 <- {}, Add256 <- Add, Mul256 <- Mul256, Residue <- {5}

(* Fault: the cross terms keep the product of the low parts only. *)
Product_CrossUnadded(f, u, v) ==
  IF f = "gf256x2"
    THEN <<Tower!Times(u, v)[1], Add(Mul256(u[1], v[1]), Mul256(u[2], v[2]))>>
    ELSE Table[f][u][v]

Product(f, u, v) == IF f = "gf256x2" THEN Tower!Times(u, v) ELSE Table[f][u][v]

InvertRounds == [gf256 |-> 6, gf256x2 |-> 14]

FieldsInit ==
  /\ round = 0
  /\ \/ /\ stage = "multiply" /\ field \in DOMAIN Degree
        /\ x \in Element(field) /\ y \in Factor[field]
        /\ a = x /\ b = y /\ product = {}
     \/ /\ stage = "invert" /\ field \in DOMAIN Inverted
        /\ x \in Inverted[field] /\ y = x
        /\ a = {} /\ b = {} /\ product = x

-----------------------------------------------------------------------------
MultiplyRound ==
  /\ stage = "multiply" /\ round < Degree[field]
  /\ LET l == Round(field, [a |-> a, b |-> b, product |-> product])
     IN a' = l.a /\ b' = l.b /\ product' = l.product
  /\ round' = round + 1
  /\ UNCHANGED <<stage, field, x, y>>

Multiplied ==
  /\ stage = "multiply" /\ round = Degree[field]
  /\ stage' = "product"
  /\ UNCHANGED <<field, x, y, a, b, product, round>>

(* Gf16::invert: a8 * a4 * a2. *)
InvertGf16 ==
  /\ stage = "invert" /\ field = "gf16"
  /\ LET a2 == Product("gf16", x, x)
         a4 == Product("gf16", a2, a2)
         a8 == Product("gf16", a4, a4)
     IN product' = Product("gf16", Product("gf16", a8, a4), a2)
  /\ stage' = "inverse"
  /\ UNCHANGED <<field, x, y, a, b, round>>

(* Gf256::invert and Gf256x2::invert: square, times x. *)
InvertRound ==
  /\ stage = "invert" /\ field # "gf16" /\ round < InvertRounds[field]
  /\ product' = Product(field, Product(field, product, product), x)
  /\ round' = round + 1
  /\ UNCHANGED <<stage, field, x, y, a, b>>

(* Fault: the last square is forgotten. *)
InvertSquare_Forgotten ==
  /\ stage = "invert" /\ field # "gf16" /\ round = InvertRounds[field]
  /\ stage' = "inverse"
  /\ UNCHANGED <<field, x, y, a, b, product, round>>

InvertSquare ==
  /\ stage = "invert" /\ field # "gf16" /\ round = InvertRounds[field]
  /\ product' = Product(field, product, product)
  /\ stage' = "inverse"
  /\ UNCHANGED <<field, x, y, a, b, round>>

FieldsNext == MultiplyRound \/ Multiplied \/ InvertGf16 \/ InvertRound \/ InvertSquare

FieldsSpec == FieldsInit /\ [][FieldsNext]_fieldVars

-----------------------------------------------------------------------------
(* Polynomials over the field of two elements, by definition. *)

PolynomialProduct(u, v) ==
  {k \in 0 .. 14 : Cardinality({i \in u : k - i \in v}) % 2 = 1}

(* u less the multiple of the modulus that takes away its degree top. *)
Divide(f, top, u) ==
  IF top \in u /\ top >= Degree[f]
    THEN Add(u, {k + (top - Degree[f]) : k \in Reduction[f] \cup {Degree[f]}}) ELSE u

Remainder(f, u) ==
  LET divided[n \in 0 .. 11] ==       \* the degrees above 14 - n are gone
        IF n = 0 THEN u ELSE Divide(f, 15 - n, divided[n - 1])
  IN divided[11]

(* The masked shift-and-add loop computes the polynomial product modulo    *)
(* the field's modulus, and no bit leaves the field on the way             *)
(* (field.rs:122-131, field.rs:237-246).                                   *)
ProductIsRemainder ==
  /\ stage \in {"multiply", "product"} => {a, b, product} \subseteq Element(field)
  /\ stage = "product" => product = Remainder(field, PolynomialProduct(x, y))

(* The basis images make the embedding keep products, sums and one: an     *)
(* element of the small field may be multiplied before or after embedding  *)
(* (field.rs:43).                                                          *)
EmbedKeepsProducts ==
  stage = "product" /\ field = "gf16" =>
    /\ Embed(product) = Mul256(Embed(x), Embed(y))
    /\ Embed(Add(x, y)) = Add(Embed(x), Embed(y)) /\ Embed({0}) = {0}

One(f) == IF f = "gf256x2" THEN <<{0}, {}>> ELSE {0}
None(f) == IF f = "gf256x2" THEN <<{}, {}>> ELSE {}

(* The addition chains reach the inverse, and take zero to zero.           *)
InverseInverts ==
  stage = "inverse" =>
    IF x = None(field) THEN product = x ELSE Product(field, x, product) = One(field)

(* The three products of the tower are the product modulo X^2 + X + 32.    *)
TowerIsQuotient ==
  stage = "invert" /\ field = "gf256x2" =>
    Product(field, product, x) =
      LET top == Mul256(product[2], x[2])
      IN <<Add(Mul256(product[1], x[1]), Mul256(top, {5})),
           Add(Add(Mul256(product[1], x[2]), Mul256(product[2], x[1])), top)>>
=============================================================================
