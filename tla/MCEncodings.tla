----------------------------- MODULE MCEncodings -----------------------------
(* Encodings at the sizes of params.rs.                                     *)
EXTENDS Encodings

MCSkew == {-1, 0, 1}
=============================================================================
