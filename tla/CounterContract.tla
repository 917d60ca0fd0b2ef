--------------------------- MODULE CounterContract ---------------------------
(***************************************************************************)
(* What the counter of a generator must do: every block encrypts the next  *)
(* number, modulo Period, and the key changes after the blocks asked for   *)
(* and the Rekeying blocks that make the new one, not before.              *)
(***************************************************************************)
EXTENDS Integers, Sequences

CONSTANTS Period, Rekeying, Request

VARIABLES
  counter,                     \* the last number encrypted
  owed,                        \* blocks still to come under this key
  encrypted                    \* what was encrypted under it

vars == <<counter, owed, encrypted>>

Init == counter = 0 /\ owed = Rekeying /\ encrypted = <<>>

Ask == \E n \in Request :
  /\ owed = 0 /\ encrypted = <<>> /\ owed' = n + Rekeying
  /\ UNCHANGED <<counter, encrypted>>

Draw ==
  /\ owed > 0 /\ owed' = owed - 1
  /\ counter' = (counter + 1) % Period
  /\ encrypted' = Append(encrypted, counter')

Rekey ==
  /\ owed = 0 /\ encrypted # <<>>
  /\ counter' \in 0 .. Period - 1 /\ encrypted' = <<>>
  /\ UNCHANGED owed

Next == Ask \/ Draw \/ Rekey

Spec == Init /\ [][Next]_vars
=============================================================================
