--------------------------- MODULE IdealSignature ---------------------------
(***************************************************************************)
(* What the signature API (mod.rs) promises its caller: signing returns    *)
(* either a signature or nothing, an untouched signature verifies, and     *)
(* of the parts of what is verified only the public key, the message and   *)
(* the nonce, which enter through the challenge alone, can differ from     *)
(* what was signed without the signature being refused outright.           *)
(***************************************************************************)
CONSTANT Part                   \* what a verifier is given

VARIABLES phase, altered

vars == <<phase, altered>>

Challenged == {"seed", "output", "message", "nonce"}

Init == phase = "idle" /\ altered = {}

Release == phase = "idle" /\ phase' = "released" /\ UNCHANGED altered

Fail == phase = "idle" /\ phase' = "failed" /\ UNCHANGED altered

Deliver ==
  /\ phase = "released" /\ phase' = "delivered"
  /\ altered' \in SUBSET Part

Accept ==
  /\ phase = "delivered" /\ altered \subseteq Challenged
  /\ phase' = "accepted" /\ UNCHANGED altered

Reject ==
  /\ phase = "delivered" /\ altered # {}
  /\ phase' = "rejected" /\ UNCHANGED altered

Next == Release \/ Fail \/ Deliver \/ Accept \/ Reject

Spec == Init /\ [][Next]_vars
=============================================================================
