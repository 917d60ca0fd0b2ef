----------------------------- MODULE MCSeedTree -----------------------------
(* SeedTree on two-bit seeds, with a few derivation functions of which some *)
(* are not injective.                                                       *)
EXTENDS SeedTree

MCXor(a, b) == 2 * ((a \div 2 + b \div 2) % 2) + ((a + b) % 2)
MCDerive(k, d, s) == (k * s * s + (k \div 2) * s + d + 1) % 4
=============================================================================
