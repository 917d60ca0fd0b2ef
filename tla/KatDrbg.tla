------------------------------ MODULE KatDrbg --------------------------------
(***************************************************************************)
(* The deterministic generator of the test cases (main.rs, KatDrbg): a     *)
(* counter of Width bytes, the last one lowest, raised byte by byte before *)
(* every block; after each request three blocks more make the next key and *)
(* counter.  The cipher is ideal: a key and a counter made by it may be    *)
(* any, and of the keys only is kept what each encrypted.  Init, Next and  *)
(* Spec have names of their own: the proofs extend KatResponse as well.    *)
(***************************************************************************)
EXTENDS Integers, Sequences, Functions

CONSTANTS
  ByteSize, Width,             \* 256 and 16
  Request                      \* blocks asked for at once

Rekeying == 3                  \* 48 bytes

(* What byte i counts for, and what the bytes count together. *)
Weight(i) == ByteSize ^ (Width - i)
BigEndian(bytes) == SumFunction([i \in 1 .. Width |-> bytes[i] * Weight(i)])

Period == ByteSize ^ Width

(* The laws of exponents as far as they are needed: a byte counts ByteSize *)
(* times as much as the one after it.                                      *)
ASSUME SizeAssumption ==
  /\ ByteSize \in Nat \ {0, 1} /\ Width \in Nat \ {0}
  /\ ByteSize ^ 0 = 1
  /\ \A n \in 0 .. Width - 1 :
       ByteSize ^ n \in Nat \ {0} /\ ByteSize ^ (n + 1) = ByteSize * ByteSize ^ n

(* The longest request leaves counters for its update. *)
ASSUME RequestAssumption ==
  /\ Rekeying <= Period
  /\ Request \subseteq Nat /\ \A n \in Request : n + Rekeying <= Period

VARIABLES
  stage, caller,               \* caller: generate or update
  value, place,                \* the counter, and the byte being raised
  left,                        \* blocks left to the caller
  encrypted                    \* counters encrypted under this key

drbgVars == <<stage, caller, value, place, left, encrypted>>

(* KatDrbg::new: all zero, then an update with the seed. *)
DrbgInit ==
  /\ stage = "increment" /\ caller = "update"
  /\ value = [i \in 1 .. Width |-> 0] /\ place = Width
  /\ left = Rekeying /\ encrypted = <<>>

(* The start of the next block, or what follows the caller's last. *)
Proceed(blocks) ==
  IF blocks > 0 THEN stage' = "increment" /\ left' = blocks /\ UNCHANGED caller
  ELSE IF caller = "generate"
    THEN stage' = "increment" /\ caller' = "update" /\ left' = Rekeying
    ELSE stage' = "rekey" /\ left' = 0 /\ UNCHANGED caller

(* generate, of as many blocks; of none it only updates. *)
Generate ==
  /\ stage = "idle" /\ place' = Width
  /\ \E n \in Request :
       IF n > 0 THEN stage' = "increment" /\ caller' = "generate" /\ left' = n
                ELSE stage' = "increment" /\ caller' = "update" /\ left' = Rekeying
  /\ UNCHANGED <<value, encrypted>>

(* Fault: no byte carries into the first. *)
IncrementByte_FirstLeftOut ==
  /\ stage = "increment"
  /\ LET raised == value[place] + 1
     IN /\ value' = [value EXCEPT ![place] = raised % ByteSize]
        /\ IF raised = ByteSize /\ place > 2
             THEN place' = place - 1 /\ UNCHANGED stage
             ELSE place' = Width /\ stage' = "encrypt"
  /\ UNCHANGED <<caller, left, encrypted>>

IncrementByte ==
  /\ stage = "increment"
  /\ LET raised == value[place] + 1
     IN /\ value' = [value EXCEPT ![place] = raised % ByteSize]
        /\ IF raised = ByteSize /\ place > 1
             THEN place' = place - 1 /\ UNCHANGED stage
             ELSE place' = Width /\ stage' = "encrypt"
  /\ UNCHANGED <<caller, left, encrypted>>

(* Fault: the block to encrypt is taken once, before the loop. *)
EncryptBlock_Hoisted ==
  /\ stage = "encrypt"
  /\ encrypted' = Append(encrypted, IF encrypted = <<>> THEN BigEndian(value) ELSE encrypted[1])
  /\ Proceed(left - 1)
  /\ UNCHANGED <<value, place>>

EncryptBlock ==
  /\ stage = "encrypt"
  /\ encrypted' = Append(encrypted, BigEndian(value))
  /\ Proceed(left - 1)
  /\ UNCHANGED <<value, place>>

Rekey ==
  /\ stage = "rekey" /\ stage' = "idle"
  /\ value' \in [1 .. Width -> 0 .. ByteSize - 1] /\ encrypted' = <<>>
  /\ UNCHANGED <<caller, place, left>>

DrbgNext == Generate \/ IncrementByte \/ EncryptBlock \/ Rekey

DrbgSpec == DrbgInit /\ [][DrbgNext]_drbgVars

-----------------------------------------------------------------------------
(* No counter is encrypted twice under one key, by generate and the update *)
(* after it together, though the counter wraps (main.rs:355).              *)
NoCounterTwice ==
  \A i, j \in 1 .. Len(encrypted) : encrypted[i] = encrypted[j] => i = j

-----------------------------------------------------------------------------
(* The counter of the contract: the one encrypted last.  While a carry is  *)
(* under way the bytes behind place have wrapped, which took their highest *)
(* number away.                                                            *)
Ahead ==
  CASE stage = "encrypt" -> -1
    [] stage = "increment" -> ByteSize ^ (Width - place) - 1
    [] OTHER -> 0

Contract == INSTANCE CounterContract WITH
  counter <- (BigEndian(value) + Ahead) % Period,
  owed <- left + (IF caller = "generate" THEN Rekeying ELSE 0)

(* Byte by byte, the counter does what one addition would do: every block  *)
(* encrypts the next number, and a request's blocks come with the three of *)
(* its update before the key changes (main.rs:355-392).                    *)
ContractSpec == Contract!Spec
=============================================================================
