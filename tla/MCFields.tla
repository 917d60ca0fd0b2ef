------------------------------ MODULE MCFields -------------------------------
(* All products and inverses of the small field and of the middle one, and  *)
(* the inverses of 2048 elements of the tower.                              *)
EXTENDS Fields

Bits(n) == {k \in 0 .. 7 : (n \div 2^k) % 2 = 1}

MCFactor == [gf16 |-> Element("gf16"),
             gf256 |-> Element("gf256")]
MCInverted == [gf16 |-> Element("gf16"), gf256 |-> Element("gf256"),
               gf256x2 |-> Element("gf256") \X {Bits(n) : n \in {0, 1, 2, 32, 93, 128, 176, 255}}]
=============================================================================
