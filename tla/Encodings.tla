----------------------------- MODULE Encodings -------------------------------
(***************************************************************************)
(* The byte layouts of a key and of a signature: where keygen.rs, sign.rs  *)
(* and blc.rs write, where verify.rs and blc.rs read with offsets of their *)
(* own, the length checks of mod.rs between them, and the two nibble loops *)
(* of field.rs.                                                            *)
(*                                                                         *)
(* Bytes are symbolic: <<piece, number, place in the piece>>.  A byte of   *)
(* the secret vector holds two nibbles, each the set of the vector's       *)
(* elements or-ed into it.                                                 *)
(***************************************************************************)
EXTENDS Integers

CONSTANTS
  SeedSize, SaltSize, DigestSize,        \* params.rs
  MqN, EquationCount, Tau, NbEvalsLog, Eta,
  Skew                                   \* errors in the length of an import

(* What the subtractions and halves in params.rs rely on. *)
ASSUME ParamsAssumption ==
  /\ {SeedSize, SaltSize, DigestSize, MqN, EquationCount, Tau, NbEvalsLog, Eta} \subseteq Nat \ {0}
  /\ MqN % 2 = 0 /\ SeedSize <= MqN \div 2

EncodedLen == 2                          \* of a Gf256x2
NonceSize == 4
KeygenSeedSize == 2 * SeedSize
VectorSize == (MqN * 4) \div 8
PublicKeySize == 2 * SeedSize + EquationCount * EncodedLen
SecretKeySize == PublicKeySize + VectorSize
PathSize == NbEvalsLog * SeedSize
PartialDeltaSize == VectorSize - SeedSize
OpeningSize == Tau * (PartialDeltaSize + PathSize + DigestSize)
AlphaOneSize == Tau * Eta * EncodedLen
SignatureSize == NonceSize + AlphaOneSize + SaltSize + 2 * DigestSize + OpeningSize

(* Offsets, the same in sign.rs and verify.rs. *)
FirstOffset == SaltSize
SecondOffset == FirstOffset + DigestSize
AlphaOneOffset == SecondOffset + DigestSize
OpeningOffset == AlphaOneOffset + AlphaOneSize
NonceOffset == SignatureSize - NonceSize

(* Offsets in the opening: paths, hidden commitments, partial deltas. *)
PathsSize == Tau * PathSize
PartialDeltasOffset == PathsSize + Tau * DigestSize

VARIABLES
  phase, round,                \* control, and the turn of the current loop
  publicKey, secretKey,        \* keygen
  secret, serialized,          \* the vector unpacked, and packed again
  alphaOffset, signature,      \* sign
  opening,                     \* SigningCommitment::open
  parsed                       \* verify

encodingVars == <<phase, round, publicKey, secretKey, secret, serialized,
                  alphaOffset, signature, opening, parsed>>
keys == <<publicKey, secretKey>>
vector == <<secret, serialized>>
signing == <<alphaOffset, signature, opening>>

Blank == <<"blank", 0, 0>>
Zeros(n) == [i \in 0 .. n - 1 |-> Blank]
Piece(name, number, n) == [i \in 0 .. n - 1 |-> <<name, number, i>>]
Vector == [i \in 0 .. VectorSize - 1 |-> <<"nibbles", {2 * i}, {2 * i + 1}>>]

Panicked == <<>>

(* buffer[first..last].copy_from_slice(bytes) *)
Write(buffer, first, last, bytes) ==
  IF first <= last /\ first .. last - 1 \subseteq DOMAIN buffer /\ DOMAIN bytes = 0 .. last - first - 1
    THEN [i \in DOMAIN buffer |-> IF i \in first .. last - 1 THEN bytes[i - first] ELSE buffer[i]]
    ELSE Panicked

(* buffer[first..last] *)
Slice(buffer, first, last) ==
  IF first <= last /\ first .. last - 1 \subseteq DOMAIN buffer
    THEN [i \in 0 .. last - first - 1 |-> buffer[first + i]] ELSE Panicked

Running == Panicked \notin {publicKey, secretKey, signature, opening}
At(step) == Running /\ phase = step

EncodingInit ==
  /\ phase = "seed" /\ round = 0
  /\ publicKey = Zeros(PublicKeySize) /\ secretKey = Zeros(SecretKeySize)
  /\ secret = [i \in 0 .. MqN - 1 |-> {}] /\ serialized = Zeros(VectorSize)
  /\ alphaOffset = AlphaOneOffset /\ signature = Zeros(SignatureSize)
  /\ opening = Zeros(OpeningSize) /\ parsed = <<>>

-----------------------------------------------------------------------------
(* keypair_from_seed *)

WriteSeed ==
  /\ At("seed") /\ phase' = "output"
  /\ publicKey' = Write(publicKey, 0, KeygenSeedSize, Piece("seed", 0, KeygenSeedSize))
  /\ UNCHANGED <<round, secretKey, vector, signing, parsed>>

WriteOutput ==
  /\ At("output") /\ round < EquationCount /\ round' = round + 1
  /\ LET offset == KeygenSeedSize + round * EncodedLen
     IN publicKey' = Write(publicKey, offset, offset + EncodedLen, Piece("output", round, EncodedLen))
  /\ UNCHANGED <<phase, secretKey, vector, signing, parsed>>

(* Fault: the vector is put first. *)
WriteSecretKey_VectorFirst ==
  /\ At("output") /\ round = EquationCount /\ phase' = "import key" /\ round' = 0
  /\ secretKey' = Write(Write(secretKey, 0, VectorSize, Vector),
                        VectorSize, SecretKeySize, publicKey)
  /\ UNCHANGED <<publicKey, vector, signing, parsed>>

WriteSecretKey ==
  /\ At("output") /\ round = EquationCount /\ phase' = "import key" /\ round' = 0
  /\ secretKey' = Write(Write(secretKey, 0, PublicKeySize, publicKey),
                        PublicKeySize, SecretKeySize, Vector)
  /\ UNCHANGED <<publicKey, vector, signing, parsed>>

Required == (MqN + 1) \div 2

(* from_slice of any of the encodings: exactly its length. *)
Imported(size, next) == \E skew \in Skew : phase' = IF size + skew = size THEN next ELSE "refused"

(* sign unpacks the key; what is too long or short for the vector is None. *)
ImportKey ==
  /\ At("import key")
  /\ Imported(SecretKeySize, IF Required = SecretKeySize - PublicKeySize THEN "unpack" ELSE "none")
  /\ UNCHANGED <<round, keys, vector, signing, parsed>>

-----------------------------------------------------------------------------
(* The nibbles *)

(* Fault: the high nibble comes first. *)
UnpackElement_HighFirst ==
  /\ At("unpack") /\ round < MqN /\ round' = round + 1
  /\ secret' = [secret EXCEPT ![round] = secretKey[PublicKeySize + (round \div 2)][3 - (round % 2)]]
  /\ UNCHANGED <<phase, keys, serialized, signing, parsed>>

(* unpack_gf16, of the last bytes of a secret key. *)
UnpackElement ==
  /\ At("unpack") /\ round < MqN /\ round' = round + 1
  /\ secret' = [secret EXCEPT ![round] = secretKey[PublicKeySize + (round \div 2)][2 + (round % 2)]]
  /\ UNCHANGED <<phase, keys, serialized, signing, parsed>>

Unpacked ==
  /\ At("unpack") /\ round = MqN /\ round' = 0
  /\ IF Required = VectorSize
       THEN phase' = "pack" /\ serialized' = [i \in 0 .. VectorSize - 1 |-> <<"nibbles", {}, {}>>]
       ELSE phase' = "none" /\ UNCHANGED serialized
  /\ UNCHANGED <<keys, secret, signing, parsed>>

(* pack_gf16, in commit: the element is or-ed into its half of its byte. *)
PackElement ==
  /\ At("pack") /\ round < MqN /\ round' = round + 1
  /\ serialized' = [serialized EXCEPT ![round \div 2][2 + (round % 2)] = @ \cup secret[round]]
  /\ UNCHANGED <<phase, keys, secret, signing, parsed>>

Packed ==
  /\ At("pack") /\ round = MqN /\ phase' = "header" /\ round' = 0
  /\ UNCHANGED <<keys, vector, signing, parsed>>

Delta == Slice(serialized, 0, SeedSize)

(* The rest of the vector, masked with the execution's accumulator. *)
PartialDelta(e) ==
  LET rest == Slice(serialized, SeedSize, VectorSize)
  IN [i \in DOMAIN rest |-> <<"masked", e, rest[i]>>]

-----------------------------------------------------------------------------
(* sign *)

WriteHeader ==
  /\ At("header") /\ phase' = "alpha"
  /\ signature' = Write(Write(signature, 0, SaltSize, Piece("salt", 0, SaltSize)),
                        FirstOffset, SecondOffset, Piece("first", 0, DigestSize))
  /\ UNCHANGED <<round, keys, vector, alphaOffset, opening, parsed>>

Element(turn) == Piece("alpha", turn, EncodedLen)

WriteAlpha ==
  /\ At("alpha") /\ round < Tau * Eta /\ round' = round + 1
  /\ signature' = Write(signature, alphaOffset, alphaOffset + EncodedLen, Element(round))
  /\ alphaOffset' = alphaOffset + EncodedLen
  /\ UNCHANGED <<phase, keys, vector, opening, parsed>>

WriteSecond ==
  /\ At("alpha") /\ round = Tau * Eta /\ round' = 0
  /\ IF alphaOffset = OpeningOffset
       THEN /\ phase' = "open"
            /\ signature' = Write(signature, SecondOffset, AlphaOneOffset, Piece("second", 0, DigestSize))
       ELSE phase' = "none" /\ UNCHANGED signature
  /\ UNCHANGED <<keys, vector, alphaOffset, opening, parsed>>

(* One execution of SigningCommitment::open. *)
OpenExecution ==
  /\ At("open") /\ round < Tau /\ round' = round + 1
  /\ LET path == round * PathSize
         hidden == PathsSize + round * DigestSize
         partial == PartialDeltasOffset + round * PartialDeltaSize
     IN opening' =
          Write(Write(Write(opening, path, path + PathSize, Piece("path", round, PathSize)),
                      hidden, hidden + DigestSize, Piece("hidden", round, DigestSize)),
                partial, partial + PartialDeltaSize, PartialDelta(round))
  /\ UNCHANGED <<phase, keys, vector, alphaOffset, signature, parsed>>

(* Fault: the opening is copied up to the end. *)
WriteOpening_ThroughEnd ==
  /\ At("open") /\ round = Tau /\ phase' = "import signature" /\ round' = 0
  /\ signature' = Write(Write(signature, OpeningOffset, SignatureSize, opening),
                        NonceOffset, SignatureSize, Piece("nonce", 0, NonceSize))
  /\ UNCHANGED <<keys, vector, alphaOffset, opening, parsed>>

WriteOpening ==
  /\ At("open") /\ round = Tau /\ phase' = "import signature" /\ round' = 0
  /\ signature' = Write(Write(signature, OpeningOffset, NonceOffset, opening),
                        NonceOffset, SignatureSize, Piece("nonce", 0, NonceSize))
  /\ UNCHANGED <<keys, vector, alphaOffset, opening, parsed>>

ImportSignature ==
  /\ At("import signature") /\ Imported(SignatureSize, "parse")
  /\ UNCHANGED <<round, keys, vector, signing, parsed>>

-----------------------------------------------------------------------------
(* verify_inner and evaluate_opening: what each reads, and where. *)

Coefficients(bytes, e) ==                \* chunks_exact, parse_extension_vector
  LET chunk == Slice(bytes, e * Eta * EncodedLen, (e + 1) * Eta * EncodedLen)
  IN [c \in 0 .. Eta - 1 |-> Slice(chunk, c * EncodedLen, c * EncodedLen + EncodedLen)]

(* Fault: a hidden commitment is taken to be as long as a seed. *)
Opened_SeedStride(bytes, e) ==
  LET path == e * PathSize
      hidden == PathsSize + e * SeedSize
      partial == PartialDeltasOffset + e * PartialDeltaSize
  IN [path |-> Slice(bytes, path, path + PathSize),
      hidden |-> Slice(bytes, hidden, hidden + DigestSize),
      partial |-> Slice(bytes, partial, partial + PartialDeltaSize)]

Opened(bytes, e) ==
  LET path == e * PathSize
      hidden == PathsSize + e * DigestSize
      partial == PartialDeltasOffset + e * PartialDeltaSize
  IN [path |-> Slice(bytes, path, path + PathSize),
      hidden |-> Slice(bytes, hidden, hidden + DigestSize),
      partial |-> Slice(bytes, partial, partial + PartialDeltaSize)]

Parse ==
  /\ At("parse") /\ phase' = "parsed"
  /\ LET alpha == Slice(signature, AlphaOneOffset, OpeningOffset)
         received == Slice(signature, OpeningOffset, NonceOffset)
     IN parsed' =
          [salt |-> Slice(signature, 0, SaltSize),
           first |-> Slice(signature, FirstOffset, FirstOffset + DigestSize),
           second |-> Slice(signature, SecondOffset, SecondOffset + DigestSize),
           alpha |-> [e \in 0 .. Tau - 1 |-> Coefficients(alpha, e)],
           opened |-> [e \in 0 .. Tau - 1 |-> Opened(received, e)],
           committed |-> Slice(received, PartialDeltasOffset, OpeningSize),
           nonce |-> Slice(signature, NonceOffset, SignatureSize)]
  /\ UNCHANGED <<round, keys, vector, signing>>

EncodingNext ==
  \/ WriteSeed \/ WriteOutput \/ WriteSecretKey \/ ImportKey
  \/ UnpackElement \/ Unpacked \/ PackElement \/ Packed
  \/ WriteHeader \/ WriteAlpha \/ WriteSecond \/ OpenExecution \/ WriteOpening
  \/ ImportSignature \/ Parse

EncodingSpec == EncodingInit /\ [][EncodingNext]_encodingVars

-----------------------------------------------------------------------------
(* No copy is between slices of different lengths and none leaves its      *)
(* buffer: either panics.  No check of a length or an offset fails         *)
(* (sign.rs:171, sign.rs:176, sign.rs:207, blc.rs:390).                    *)
NeverPanics == Running /\ phase # "none"

(* Both halves of every byte survive unpacking and packing: the seed of    *)
(* the correction and the rest are the bytes of the key (field.rs:395-424, *)
(* blc.rs:265).                                                            *)
PackUndoesUnpack ==
  phase = "header" =>
    /\ \A i \in 0 .. MqN - 1 : secret[i] = {i}
    /\ Delta = Slice(secretKey, PublicKeySize, PublicKeySize + SeedSize)
    /\ \A e \in 0 .. Tau - 1, i \in 0 .. PartialDeltaSize - 1 :
         PartialDelta(e)[i][3] = secretKey[PublicKeySize + SeedSize + i]

(* A key that is imported has no hole; its public half is what             *)
(* verifying_key exports, and holds the seed and the outputs where         *)
(* from_slice and verify read them (keygen.rs:47, keygen.rs:63,            *)
(* verify.rs:125).                                                         *)
KeyReadAsWritten ==
  phase = "unpack" =>
    /\ Slice(secretKey, 0, PublicKeySize) = publicKey
    /\ Slice(secretKey, 0, KeygenSeedSize) = Piece("seed", 0, KeygenSeedSize)
    /\ \A q \in 0 .. EquationCount - 1 :
         LET offset == KeygenSeedSize + q * EncodedLen
         IN Slice(secretKey, offset, offset + EncodedLen) = Piece("output", q, EncodedLen)
    /\ Slice(secretKey, PublicKeySize, SecretKeySize) = Vector

(* verify reads from a signature what sign wrote, every piece whole and    *)
(* every coefficient of its execution and component, and the partial       *)
(* deltas that the commitment absorbs are those the executions use         *)
(* (verify.rs:128-141, blc.rs:422-430, blc.rs:503).                        *)
VerifierReadsSigner ==
  phase = "parsed" =>
    /\ parsed.salt = Piece("salt", 0, SaltSize) /\ parsed.nonce = Piece("nonce", 0, NonceSize)
    /\ parsed.first = Piece("first", 0, DigestSize) /\ parsed.second = Piece("second", 0, DigestSize)
    /\ \A e \in 0 .. Tau - 1, c \in 0 .. Eta - 1 : parsed.alpha[e][c] = Element(e * Eta + c)
    /\ \A e \in 0 .. Tau - 1 :
         /\ parsed.opened[e] = [path |-> Piece("path", e, PathSize),
                                hidden |-> Piece("hidden", e, DigestSize), partial |-> PartialDelta(e)]
         /\ Slice(parsed.committed, e * PartialDeltaSize, (e + 1) * PartialDeltaSize) = PartialDelta(e)
=============================================================================
