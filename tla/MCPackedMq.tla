----------------------------- MODULE MCPackedMq ------------------------------
(* PackedMq on three unknowns over GF(4)^2, GF(4) embedded by its square    *)
(* map.  Elements of GF(4) are 0, 1, 2, 3 with bits for 1 and w.            *)
EXTENDS PackedMq

MCAdd(a, b) == 2 * ((a \div 2 + b \div 2) % 2) + ((a + b) % 2)
Log(a) == CASE a = 1 -> 0 [] a = 2 -> 1 [] a = 3 -> 2
MCMul(a, b) ==
  IF a = 0 \/ b = 0 THEN 0
  ELSE LET l == (Log(a) + Log(b)) % 3 IN CHOOSE c \in 1 .. 3 : Log(c) = l
MCEmbed(a) == MCMul(a, a)

Unit(k) == [i \in 0 .. 8 |-> IF i = k THEN <<2, 1>> ELSE <<0, 0>>]
MCStream == {Unit(k) : k \in 0 .. 8}
              \cup {[i \in 0 .. 8 |-> <<(i * a) % 4, (i + a) % 4>>] : a \in 1 .. 3}
MCSecret == {[i \in 0 .. 2 |-> (a * i + b) % 4] : a, b \in 0 .. 3}
MCMask == {[i \in 0 .. 2 |-> <<(a * i + 1) % 4, (i + a) % 4>>] : a \in 0 .. 2}
MCPoint == {<<0, 0>>, <<3, 0>>, <<1, 2>>}
=============================================================================
