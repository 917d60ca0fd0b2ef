----------------------------- MODULE MCKatDrbg -------------------------------
(* KatDrbg with a counter of three bytes of two bits, and requests up to the *)
(* longest a counter serves.                                                 *)
EXTENDS KatDrbg

MCRequest == {0, 1, 2, 7, Period - Rekeying}
=============================================================================
