# A verification of mqom-rs in TLA+

`mqom-rs` is a Rust implementation of one parameter set of the MQOM signature
scheme, `mqom2_l1_gf16_short_r5`: a proof of knowledge of a solution of a
quadratic system over GF(16), made non-interactive. This directory holds TLA+
models of its algorithms, TLC configurations that check them on small
instances, and TLAPS proofs for all sizes.

Paths below are relative to the repository (`src/blc.rs`); `PROJECT.json` names
the lines every definition stands for.

## 1. Inventory

The library is sequential and without shared state: a call either returns a
value or an error, and everything it keeps lives in locals. Only the oracle
harness shares anything, directories that other processes touch. What is hard in
the library is not scheduling but agreement. Nearly every computation is written
twice, once for the signer and once for the verifier, over different data; the
two must give the same bytes, and a test only meets the indices, nonces and keys
that happen to be drawn.

| component | source | state it keeps | operations | correct when |
|---|---|---|---|---|
| seed tree | `blc.rs` (80-152, 170-217) | heap of 2 * NB_EVALS seeds, present flags, the parent walked to, the path | `fully_expand_tree`, `opening_path`, `partially_expand_tree` | the path recomputed alone is the path of the whole tree; the verifier regrows every leaf but one, never that one; leaves sum to delta |
| line commitment | `blc.rs` (219-546) | per execution: running sum, folding, hash; per commitment: partial deltas, hash of hashes | `commit`, `open`, `evaluate_opening` | an accepted opening is what was committed and lies on the committed line |
| signing | `sign.rs` | the commitments, alpha, the Fiat-Shamir hash, the nonce | `sign`, `compute_alpha`, `sample_challenge` | returns only what verifies, fails only for lack of randomness or of a nonce |
| verification | `verify.rs` | recomputed alpha, challenge | `verify_inner`, `parse_challenge`, `recompute_alpha_zero` | accepts only what was opened at the challenged indices |
| key generation | `keygen.rs` | none | `keypair_from_seed`, `secret_key_is_consistent` | the public output is the system evaluated at the secret |
| public API | `mqom2_l1_gf16_short_r5/mod.rs`, `lib.rs` | key and signature objects | generate, import, sign, verify, encodings | no inconsistent key is imported, nothing is released after a failure |
| MQ equations | `mq.rs`, `params.rs` | packed lower-triangular rows, running offset | `expand_equation`, `multiply_base`, `multiply_extension`, `evaluate_base` | the rows tile the triangle; it is the quadratic form of its stream; both sides evaluate the same one |
| fields | `field.rs` | none | GF(16), GF(256) and GF(256^2) arithmetic, embedding, nibble packing | products are polynomial products modulo the moduli, inverses invert, the embedding keeps products, packing undoes unpacking |
| generator | `prg.rs` | one AES key schedule per block | `tweak_salt`, `SeedDeriver`, `Generator::new`, `fill` | under a salt no key serves two purposes; a fill is the stream or nothing |
| SHAKE128 | `xof.rs` | sponge of the `sha3` crate | absorb, read | thin adapter |
| oracle harness | `xtask/src/main.rs` | directories, child processes, a KAT file, DRBG key and counter | clone, build, run and compare the reference implementation | compares with the pinned commit, refuses a malformed response |
| fuzz targets, benchmark | `fuzz/`, `benches/` | none | drive the public API | - |

How they interact. `try_sign_with_rng` draws a master seed and a salt and calls
`sign`. `sign` calls `blc::commit` (which expands TAU seed trees with keys
from `prg`, and hashes with `xof`), expands the equations of the public seed
(`mq`), computes the coefficients of the batched polynomials (`field`), hashes
all of it, grinds a nonce, calls `blc::open` at the indices of the challenge, and
calls `verify` on the result before returning it. `verify` reads the challenge
back from the hash and nonce, calls `blc::evaluate_opening`, evaluates the
equations at the opened points and compares. `from_slice` of a secret key calls
`secret_key_is_consistent`. The oracle harness calls the library from outside and
compares its output with the reference implementation's.

What is hard to test, each at its line, is the `hazards` list of `PROJECT.json`:
three loops over one tree with index conventions that have to agree; a running
sum that is folded by "the bit that changes next", a Gray code nowhere written
out; a 12-byte correction whose first 16 bytes are correct only because of how
the trees are rooted; a verification that recomputes at a point what signing
computed as coefficients; a retry loop with a bound; three fallible calls of a
randomness source. In the harness: a destination directory without a lock, in
which runs stop half-way; a source checkout looked at three times; a parser
whose fields outlive a line, run after a count that takes cases for something
else. Then arithmetic that release builds do not guard: a running offset, a byte
in which execution and selector share the bits, a block index of 16 bits, a
shift cut to four bits in one field and by the type in the other, offsets
written by three files and read by two, a counter that carries and wraps.

## 2. Plan

| step | module | composes | status |
|---|---|---|---|
| 1 | `SeedTree` | - | modelled, checked, proved |
| 2 | `LineCommitment` | the contract of `SeedTree` | modelled, checked, proved |
| 3 | `IdealSignature` | - (abstract specification) | written, refined by 4 |
| 4 | `QuadraticSystem`, `Signature` | the contract of `LineCommitment`, that of the equations (`QuadraticSystem`); implements `IdealSignature` | modelled, checked, safety proved |
| 5 | `Tower`, `PackedMq` | `PackedMq` extends `Tower`; both sides of one equation together; keeps the contract of `QuadraticSystem` | modelled, checked, proved |
| 6 | `Prg` | the trees, commitments and leaves of all executions, as callers | modelled, checked, proved |
| 7 | `Fields` | an instance of `Tower` at the real field, whose laws it has | modelled, checked, proved |
| 8 | `OracleRun` | the verdict of `KatResponse` on a whole file | modelled, checked, proved |
| 9 | `KatResponse` | the API of `Signature`, as one predicate | modelled, checked, proved |
| 10 | `CounterContract`, `KatDrbg` | `KatDrbg` implements `CounterContract` | modelled, checked, proved |
| 11 | `Encodings` | keygen, API, sign, open and verify over one signature | modelled, checked, proved |

The arithmetic hangs together from the bits up. What `Fields` computes bit by bit keeps
the laws `Tower` assumes of its base (`BaseIsRing`); the tower over such a base, and the
packed equations over it, keep the laws `Signature` assumes of its field and its
equations (`TowerIsRing`, `EquationsKeepContract`); and what the loops of `PackedMq` add up are
the values `Signature` writes as forms (`FormsCorrect`).

## 3. Modules

### `SeedTree`

One execution's tree. `nodes` is `fully_expand_tree`'s heap, `parent` and `path`
the locals of `opening_path`, `nodeIndex`, `vnodes` and `present` those of
`partially_expand_tree`. A step is one iteration of an outer loop: `ExpandLevel`
(one depth), `WalkDown` (one depth of the path), `PlaceSibling` (one chunk),
`RegrowLevel` (one depth), `CheckLeaves` (the final test over `present`).
`Deliver` hands the path to the verifier with at most one chunk changed.
Deriving a left child is an arbitrary function of key, depth index and parent:
the properties need nothing of AES. `hidden` ranges over one index too many, the
first that `opening_path` refuses.

### `LineCommitment`

The leaves of TAU trees, folded leaf by leaf by `commit` (`CommitLeaf`,
`CommitExecution`, `CommitAll`), opened (`Open`, `RefuseToOpen`), and folded again
by `evaluate_opening` (`RefuseIndex`, `EvaluateLeaf`, `EvaluateExecution`,
`CompareCommitment`). `Deliver` hands over the opening as it is or with one part
replaced. Trees enter by what `SeedTree` establishes: leaves that sum to delta,
and an opening that reveals all leaves but one. The code multiplies by basis
elements `1 << k`; as that is linear the model keeps, per bit, the vector it
would be applied to. An expanded leaf has three parts, because they are
corrected differently: the seed (16 bytes, never corrected), the tail
(`partial_deltas`), the mask (`u_one`). Digests are what they absorb. `trace`
remembers the locals of `commit` after each leaf and is read by no guard or
other assignment; it exists for the proof.

### `Signature`, `QuadraticSystem` and `IdealSignature`

`Generate`, `ImportKey` and `RefuseKey` are the three ways a signing key comes
about or does not. `Sign` is `try_sign_with_rng` and `sign`: the two draws, each of
which may fail (`sourceFailed` remembers that one did), the commitment, `compute_alpha` one equation at a time, the nonce
search one nonce at a time, the opening and the call to `verify` that ends it.
`Verify` is `verify_inner`, the same actions for both of its callers; `caller`
says to whom it returns. `Deliver` is a user who calls `verify` with the signature,
or with one part of it, of the message or of the public key altered.

The line commitment enters by what `LineCommitment` establishes. The challenge
stream is a random oracle: any answer, and the same answer for the same hash
and nonce, so `answers` is all the model keeps of it. The hash is written twice, as in
the code: `FiatShamirSigned` is what `sign` absorbs, `FiatShamirVerified` what `verify_inner`
does, and the verifier gets the signer's answer only where the two are equal. The field is any ring of
characteristic two (`RingLaws`) and the equations any bilinear forms and linear maps
over it (`FormLaws`); the two are stated in `QuadraticSystem`, a module without state
that `Signature` extends and the proofs about `PackedMq` instantiate. `IdealSignature` is the view of a caller: a call of sign returns a signature
or nothing; an untouched signature verifies; one that differs in a part that is
committed to is refused. Differences in public key, message or nonce enter
through the challenge alone, so the contract leaves them to the oracle: it can
coincide, with the probability the scheme is designed for.

### `OracleRun`

`prepare_oracle`, one action per command or file operation, for any number of
runs at once: `CheckCommit`, `CheckClean`, `ClearDestination`, `Clone`, `Checkout`,
`Make`, `Generate`, `ReadResponse`, `WriteResponse`, `CheckResponse`. Each either goes on or
ends the run, "refused" where the harness says no and "broken" where a command
fails. `Stop` ends a run anywhere; `LeaveDebris` is what a command that did not
complete may leave: part of a directory removed, a clone without commits, one of
two programs built, half a file. `EditSource` is the operator who goes on working
in the checkout. `place` and `files` are the destination path: absent, a directory,
or a link out of `target/oracle`, and what is in it. `checked`, `overlapped` and
`moved` are history. git, make and the two programs of the reference
implementation are modelled from how they are called: `git clone` refuses a
destination that is not empty and takes along what refs reach, `git checkout` needs
the commit to be there, `kat_check` computes the responses anew in its directory. A
response is the commit it was generated at.

### `KatResponse`

The reader of the response file, one line a step: `CountLine` and `CheckCount` are the
first pass, over raw lines; `EndCase`, `SkipLine`, `RefuseLine`, `SetField` and
`CheckVerified` the second, over trimmed lines and one blank line more. A line is its
name, its value and whether it was indented. `VerifyCase` asks that every field is set
and that an arbitrary predicate `Reproduces` holds of them, the first case also that
`Accepts` holds of none of its mutations. What it
compares is not in the model: hex, lengths, and the library's own calls, which are
`Signature`'s. The code keeps the fields of a block without a count for the next
block; the model does so too, and `FieldsAreOwn` therefore speaks of the lines since
the last case, not since the last blank line.

The two passes do not look at the same lines: the first sees a count where an unindented line
says so, the second wherever a block has one. The harness's messages treat the two counts as one,
which is `EveryCountReproduced`; the code does not keep it (section 4). What it does
keep is `DroppedOnlyForIndented`: a counted case is lost only against an indented count
line, one for one.

### `Tower` and `Fields`

`Tower` is `Gf256x2`: sums, the product from three base products and one by the
residue 32, and the product with an embedded GF(16) element, over any base with `BaseLaws`.
`Fields` instantiates it over the real GF(256). There a `u8` is the set of its one
bits, so exclusive or is the symmetric difference and a shift moves every bit.
`MultiplyRound` is one round of the masked shift-and-add loop, `InvertGf16`,
`InvertRound` and `InvertSquare` are the addition chains of the three inverses. Which pairs
are multiplied and which elements inverted are constants, any sets of elements. The
reference is not another program but the definition: the convolution of two
polynomials over the field of two elements, and its remainder by long division.

### `PackedMq`

One equation through its life: `Expand` cuts its stream into triangle and linear
vector, `Multiply`, `NextRow` and `EndProduct` are the double loop of `multiply_base`
("base") and `multiply_extension` ("signer" at x zero, "opened" at the point), one
element a step; `Evaluate` is the rest of `evaluate_base`, `Cross` and `AddLine` are
the two loops of `compute_alpha`, `EvaluatePoint` and `Claim` those of
`recompute_alpha_zero`. A slice out of range and a failed `debug_assert` end in
"panic". The accumulators keep their history, so that invariants can speak of
each summand; the code reads the last value only, and so do the guards. `Bilinear` and
`LinearForm` are y^T A x and b^T x of a stream by definition, as sums over pairs and places. What is
opened at a point of the line (`Opened`) is what `LineCommitment` establishes.

### `Prg`

All AES keys of a signature, in the order `commit` makes them: the root seeds from
salt zero, then per execution the tree's levels (`TreeKey`), the two keys of the seed
committer (`CommitterKeys`), and a leaf generator. `PrepareBlock` and `FillBlock` are one
turn of the loops of `Generator::new` and `fill`. Lengths given to the two may differ,
as the API permits. A byte has `ByteSize` values and wraps; AES is ideal, a byte of
its output is the key and the place. `keys` is history. The equations of `mq.rs` are
expanded under the keys of the root seeds as well (salt zero, execution zero): there
streams differ by their seeds, and the model does not claim otherwise.

### `Encodings`

A key and a signature byte by byte. `WriteSeed`, `WriteOutput` and `WriteSecretKey` are
`keypair_from_seed`; `ImportKey` and `ImportSignature` the exact lengths of `from_slice`;
`UnpackElement` and `PackElement` one nibble of `unpack_gf16` and `pack_gf16`; `WriteHeader`,
`WriteAlpha`, `WriteSecond`, `OpenExecution` and `WriteOpening` are `sign` and `open`; `Parse`
is `verify_inner` and the slices of `evaluate_opening`. A byte is the name, number and
place of what it belongs to. A slice out of range, or a copy between slices of
different lengths, is a panic (`Panicked`).

### `KatDrbg` and `CounterContract`

The generator of the harness's test cases. `IncrementByte` is one turn of the carry
loop, `EncryptBlock` one block of `generate` or `update`, `Rekey` the end of `update`. AES-256
is ideal: the next counter is arbitrary. `CounterContract` has no bytes: a number
that grows by one modulo its period before every block, and a key that is replaced
three blocks after the request and never before. `KatDrbg` implements it; the mapping
has to account for a carry under way, when the bytes behind it have wrapped and the
number is short by what they held.

Operators whose names have an underscore (`WalkDown_DepthIndexOffByOne`) are
faulty variants of the definition after them, used to confirm that each
property would notice that bug; no specification mentions them.

## 4. Model checking

| run | instance | states | shows |
|---|---|---|---|
| `seed_tree` | depth 3, two-bit seeds, 5 derivations (some not injective), 9 indices, any one chunk altered | 56,080 | the three walks agree, and what an alteration can and cannot do |
| `line_commitment` | 2 executions of 4 leaves, 1-bit words, 2 salts, any one part of the opening altered | 3,054,592 | accepted openings are the committed ones and lie on the line |
| `signature` | GF(4), 2 unknowns, 2 executions, 2 equations, 2 nonces, 2 indices, any one part altered | 1,397,656 | signing never refuses itself, the API's contract |
| `signature_returns` | 1 execution, 1 equation, 3 nonces | 16,540 | calls return |
| `oracle_run` | 2 runs, 2 commits, 2 libraries, 3 kinds of debris, any checkout | 320,066 | success only on the pinned commit, debris blocks nothing |
| `kat_response` | every file of up to 6 lines out of 9, 2 fields, 2 cases | 5,378,043 | each case is compared with its own lines, a counted one is dropped only for an indented one, well-formed files are not refused |
| `kat_response_counted` | the same, of 4 kinds of lines, all of them reproducible | 50,563 to the violation | the cases counted are not always those reproduced |
| `packed_mq` | 3 unknowns over GF(4)^2, 12 streams (every single coefficient and 3 mixed), 16 secrets, 3 masks, 3 points, every claimed output | 112,320 | offsets stay in the triangle, every sum is a value of the form, the verifier agrees with the signer exactly on the right output |
| `prg` | 3-bit bytes, 2 executions (as many as 4 * Tau <= ByteSize allows), 3 levels, 8 lengths made for and asked for | 15,634 | keys stay apart, a fill is the stream or a justified refusal |
| `fields` | the real moduli: every product of both base fields, all their inverses, 2048 of the tower | 691,744 | arithmetic against polynomials by definition |
| `encodings` | the real sizes; lengths one off at each import | 247 | every byte is read where it was written |
| `kat_drbg` | 3 bytes of 4 values, requests of 0, 1, 2, 7 and 61 blocks | 13,112 | the counter implements its contract, no number twice under a key |

The bounds. Depth 3 is the first with a level that is neither root, leaf nor
next to one, so an index off by one depth is distinguishable from one off by two.
Four leaves close the Gray code cycle with both bits flipped more than once; two
executions are enough for a local to be carried from one into the next. GF(4) is
the smallest ring where the square of a point differs from the point, two
unknowns the fewest with a triangular matrix off the diagonal, two equations the
fewest for an order or a missed reset to matter. `MaxNonce` stands for
`u32::MAX`: with two nonces a first miss, a hit after it and exhaustion occur.
Two oracle runs overlap at every pair of steps, follow each other, or find what
the other left; they are alike, so the run uses their symmetry. Six lines are two
cases of two fields and their blank lines, or two cases without the last one and a
line too many: a comment, a second count, an indented or a malformed line.
Three unknowns have a row that neither starts nor ends the triangle; one stream
for each single coefficient tells any two places of the packed layout apart, the
mixed ones any two orders of summation; one of the points is zero, where the
public output does not count. Three-bit bytes and two executions are the real
proportions pushed to the limit: 4 * 2 = 8, one more execution would wrap (the
code uses 12 of 64), and 8 * 8 blocks are the whole range of an index; lengths are
those around 128 = 64 blocks of two bytes, and the last usize. `fields` and
`encodings` are not scaled at all; the tower elements have all c0, and c1 among 0, 1,
2, 32, 93, 128, 176 and 255, and since those with c1 = 1 all have inverses,
X^2 + X + 32 has no root and the tower is a field. A counter of three bytes has a carry
that starts, one that passes and one that ends; 61 blocks and the three that follow
are all of its 64 numbers. The code has 256^16 and asks for a few blocks at a time.

The properties beyond the type invariants:

- `LeafSumIsDelta`: the leaves of a whole tree sum to delta.
- `OpeningMatchesTree`: `opening_path` gives the siblings and hidden leaf of the
  whole tree.
- `UnalteredLeavesAgree`, `AlterationReachesLeaves`, `HiddenPathUnknown`: what the
  verifier regrows is the signer's tree where nothing was altered, differs
  somewhere where something was, and never includes the hidden path.
- `RefusesOnlyBadIndex`, `PresentIsFinal`: the final test never fails on an
  index in range, and no seed is computed twice.
- `OpenedOnLine`, `AcceptedIsCommitted`, `HonestAccepted`,
  `FoldingWeighsLeaves`: completeness and binding of the commitment, and the
  folding against its definition by Gray codes.
- `FailsOnlyByLuck`, `FirstNonce`, `AcceptedOpensChallenge`, `ContractSpec`,
  `CallsReturn`: signing and verifying, as section 3 says.
- `SucceedsOnPinned`, `ChecksOwnResponse`, `DebrisNeverBlocks`: an oracle run
  succeeds only against the pinned commit whatever else happens; one that met no
  other had its own output checked; one that met neither another nor an edit of
  the checkout is not stopped by anything it finds.
- `DroppedOnlyForIndented`, `FieldsAreOwn`, `WellFormedAccepted`: in an accepted response
  file as many count lines overwrite another as are indented, and with none indented the two
  passes agree on its cases; each is compared with its own lines, and a well-formed
  file whose cases are reproduced is not refused.
- `NeverPanics`, `LoopsAreForms`, `VerifierAgrees` (`PackedMq`): the offset stays in the
  triangle and ends at its end; `evaluate_base`, the two loops of `compute_alpha` and
  `recompute_alpha_zero` give values of one form, whose coefficient of x_i x_j has as many
  elements before it as pairs precede (i, j): at the secret, its square and its cross terms
  on the line, at the opened point with the linear part times the point; the value at the
  opened point is on the signer's line exactly when the claimed output is right, up
  to the square of the point.
- `KeysSeparate`, `FillOrRefuse`: under a salt no key has two uses; a fill writes every
  byte from the block of its own index, or none, and refuses only what it must.
- `ProductIsRemainder`, `EmbedKeepsProducts`, `InverseInverts`, `TowerIsQuotient`: the
  products are those of the quotient rings and no bit leaves its field on the way,
  scaling by GF(16) may be done before or after embedding, the chains reach inverses.
- `NeverPanics`, `PackUndoesUnpack`, `KeyReadAsWritten`, `VerifierReadsSigner`
  (`Encodings`): no copy panics, nibbles survive the two loops, and each reader finds
  at its own offsets what the writer put at his.
- `NoCounterTwice`, `ContractSpec` (`KatDrbg`): no number is encrypted twice under one
  key, and byte-wise increments are additions.

The type invariants of `OracleRun`, `KatResponse`, `PackedMq` and `Prg` are proved
(section 5) and not part of a run; those of the three modules of the commitment and
the signature are also checked, because faults show in them: a loop one past its
end, a hash that keeps what an earlier execution absorbed.

A finding. `kat_response_counted` checks `EveryCountReproduced`, that the cases the first pass
counts are the ones the second reproduces, and TLC finds it violated. With two cases in
place of 100, the lines

```
  count = 0
sm = 0

count = 1
sm = 0
count = 1
```

have two count lines for the first pass, as the indented one does not start with `count = `
(`xtask/src/main.rs:137`), and two cases for the second, which trims its lines (184): 0 and 1.
The last line overwrites the count of the case above it. The file is accepted, and
the harness prints that it generated and reproduced the full number of cases (155-158), though
one counted was never reproduced and one reproduced was never counted. `kat_gen` indents nothing
and `kat_check` still has to accept what the harness wrote, so no result about the pinned reference
is in doubt; but the two counts do not check each other, as their messages suggest (141, 215).

Every run but `kat_drbg` sets `CHECK_DEADLOCK FALSE`: the modelled calls end, and
nothing follows a returned or refused call. The generator of test cases can always
be asked for more, so its run looks for deadlocks too.

Fairness. Only `Signature` states any: `WF_vars(Sign \/ Verify)`. A call is
straight-line code on the caller's thread; once made, it goes on until it
returns. Nothing obliges a user to generate a key, to sign or to verify:
`Generate`, `ImportKey` and `Deliver` are not fair, and neither is the failure of
the randomness source favoured.

## 5. Proofs

TLAPS checks all of the following for every value of the constants.

`Folding`. What the sums of four modules need of `FoldFunctionOnSet`: over an
operation that is associative, commutative and has a neutral element, an element
more is a summand more, whatever the order (`FoldRemove`, `FoldAdd`), equal summands
give equal sums (`FoldSame`). The facts are inductions. A predicate is given as the
set it defines, so that the principle needs no operator as a parameter
(`NatSetInduction`, by a least number that is missing; `SubsetInduction`, over the
sizes of subsets). The modules below take it by INSTANCE, with exclusive or, the sum of
the tower or that of the numbers for the operation.

`SeedTreeProofs`. From `PowerAssumption` (laws of exponents up to the depth, which
the provers do not know) and `SeedAssumption` (exclusive-or is a commutative group
law in which every seed is its own inverse, derivation stays in `Seed`):
`TypeCorrect`, `LeafSumCorrect`, `OpeningCorrect`, `UnalteredLeavesCorrect`,
`HiddenPathSecret`, `RefusalCorrect`, `PresentKept`, `AlterationNoticed`. Types and
results at the end say nothing of the levels on the way, so the inductive
invariant describes them: the heap is complete down to the current depth; the
parent walked to is the hidden leaf's ancestor there and the chunks written are
its siblings; `present` is exactly what grows out of the siblings placed, down to
the current level; every present node out of unaltered chunks is the signer's.
For the alteration it also says that if the left and right child of a regrown
parent are the signer's then so is the parent, which is where `Xor(a, Xor(a, b)) = b`
is used. For `LeafSumIsDelta` every complete level sums to delta: the right child is made
to be the parent minus the left one, so two children sum to what their parent is, and a level,
parent by parent, to what the level above does.

`LineCommitmentProofs`. From the group laws, a `Prg` into words and seed
commitments that do not collide: `TypeCorrect`, `OpenedOnLineCorrect`,
`AcceptedCorrect`, `HonestCorrect`, `FoldingCorrect`. The heart is a comparison of the two foldings:
at leaf i the verifier's running sum differs from the signer's (`trace`) by the
hidden leaf once i is past it, and its folding at bit k by that leaf for every
flip of bit k since; the flips of a bit from an index to the end of the cycle have
the parity of the Gray code's bit there, so at the end the folding differs
exactly by the bit of the hidden index, and the line's point makes up for it.
`FoldingCorrect` needs the same picture of one folding: after n leaves the folding at a bit
is the sum of the leaves whose Gray code has it, plus the whole running sum if the code
reached, that of n, has it too. A flip adds the running sum once, which turns the one case
into the other; after the last leaf the code is zero and the rest is gone.

`SignatureProofs`. From the ring laws (`RingAssumption`) and bilinearity
(`FormAssumption`), which hold of the code's field and equations as shown below: `TypeCorrect`, `SigningCorrect`, `NonceCorrect`,
`AcceptanceCorrect` and `ContractCorrect`, the refinement of `IdealSignature`. The
inductive invariant says that while the verifier recomputes an execution of the
signed opening, its sum after q equations equals the signer's two coefficients
after q equations, evaluated at the point; the step needs the quadratic term at
x + p s to expand into x A x + p (x A s + s A x) + p^2 s A s and the public output to
cancel the last part, which holds because a key is consistent from `Generate`
or `ImportKey` on.

`OracleRunProofs`. From `OracleAssumption` (commits, runs and the absence of a file
differ) and `LeftoverAssumption` (debris is what a directory can hold), for any
number of runs: `TypeCorrect`, `SuccessCorrect`, `CheckCorrect`, `DebrisHarmless`. For
the first result the invariant follows the pinned commit through the directory
from the checkout on, for all runs at once, since a run may read what another
built. For the others it says, of a run alone so far, exactly what is on disk
before each of its steps; overlapping is recorded at `Start`, so a run alone stays
alone under the steps of all others.

`FormatProofs`, the file. From `ResponseAssumption`: `TypeCorrect`, `DroppedCorrect`,
`OwnFieldsCorrect`, for files of any length and any number of cases; and `AcceptedCorrect`. The passes
are compared line by line: the cases ended, the one begun and the counts overwritten are as
many as the count lines read (`CountsBalance`), of which the first pass has seen all but the
indented ones. A count line that finds a case begun overwrites its count, for only a
blank line ends a case (`BegunInBlock`). So in a file in which both passes find the same number, as many are
overwritten as are indented; and where none is, the cases are the counted ones in order.
For `AcceptedCorrect` the other
direction is needed: in a well-formed file the cases ended and the one begun are as many as
the count lines read, unless the block being read has had two of them
(`EveryCountHasCase`); but then it is not well-formed, as the blank line that ends it shows.
So that line ends a complete case or none at all, and nothing is refused.

`FormatProofs`, the generator. From `SizeAssumption` (laws of exponents up to the width) and
`RequestAssumption` (the longest request and the three blocks after it fit into the
period), for bytes of any size and counters of any width: `CounterCorrect`, the
refinement of `CounterContract`, and `CountersDiffer`. The number is a sum over the bytes,
so raising one changes it by that byte's weight and nothing else; when the byte wraps, the
weight of the one before it makes up for what it lost, and when the first wraps a whole
period is lost, which the remainder does not see. That the last n bytes stay below
the weight of the byte before them bounds the number by the period. Counters are apart
because those encrypted follow each other around the period and end with the current one
(`Consecutive`).

`FormatProofs`, the layouts. From `ParamsAssumption` (no size is zero, the vector has whole
bytes and at least those of a seed, which the subtractions of `params.rs` need): `PanicFree`,
`NibblesSurvive`, `KeyReadCorrect`, `SignatureReadCorrect`. The invariant says of every
piece that is written at which bytes of its buffer it stands (`KeyWritten`,
`OpeningWritten`, `SignatureWritten`), which of a loop's pieces that is so far, and in the
nibble loops which halves of which bytes (`VectorKept`). A write spares what lies before or
behind it (`WriteHolds`), so each step needs that its piece is apart from all others and inside the
buffer. That is arithmetic on the offsets: they are the sums of the sizes before them
(`SignatureLayout`), and the block of one execution ends before the next begins
(`OpeningBlocks`), which has products of two parameters in it and so goes through
`BlockFits`. It follows that `SIGNATURE_SIZE`, of which `params.rs` asserts only the number 2916,
is the sum of the pieces for all parameters, and that `sign`'s running offset ends
where the opening begins, so that its check never fails.

`PackedMqProofs`, the tower. From `BaseAssumption` (a commutative ring of characteristic
two): `TowerIsRing`, that the tower is one again whatever the residue. It goes through the
coefficients of the plain product (`TimesCoefficients`): the three products of the code
give c0 d0 + 32 c1 d1 and c0 d1 + c1 d0 + c1 d1. Associativity is then eight products of
three elements on each side, rearranged. That the real GF(256) and the residue are as
assumed is `BaseIsRing`, below.

`PackedMqProofs`, the loops. From that and `SampleAssumption`, for every number of
unknowns: `TypeCorrect`, `OffsetsCorrect`, `FormsCorrect`, `AgreementCorrect`. The offset is the triangular
number of the row (`LoopInv`), so a row ends where the next begins and the last at
the end. The form numbers its monomials by counting the pairs before each, with no
word of rows; `RankIsOffset` shows, by induction over the pairs in their order, that
the count is the triangular number of the row plus the column, so that every step of the loop
reads the coefficient of its own pair (`ExpandedInv`). A row of a product, times an unknown
of its own, is then the sum of that row's monomials (`RowsAddUp`), whatever the two vectors;
and a loop that adds such rows and something more ends with the form plus the sum of
the rest (`LoopAddsUp`). The five sums of the code are five instances of it (`FormsCorrect`),
z_one two of them, since its second loop goes on from the cross terms. For the agreement the invariant starts at the smallest sums: each column of
the opened product adds the signer's summand plus the point times the base one
(`SumsInv`, `OpenedInv`), each row of the sum at the point adds what z_zero and z_one
evaluate to there plus the square of the point times the summand of the output
(`DotsInv`). At the end the squares are left, and the claimed output cancels them if and
only if it is the right one, up to the factor.

`PackedMqProofs`, the contract. `EquationsKeepContract`: with the tower for the ring, vectors of
it, embedded secrets and streams, `RingLaws` and `FormLaws` of `QuadraticSystem` hold. Types
need that every place a form reads is in the stream (`PlacesInStream`); that a form is linear in
each vector is so for one monomial, and for the sum because a sum of sums may be split and
scaled (`SumsCombine`).

`PrimitiveProofs`, the keys. From `XorAssumption` (exclusive or on bytes: commutes, cancels, and of an
even byte with one is the next byte) and 4 * Tau <= ByteSize: `TypeCorrect`, `KeysCorrect`,
`FillCorrect`, `Orthomorphism`. The invariant says that every key is that of its use
(`KeysMade`), every prepared block has the key of its index (`BlocksMade`), and an output
under way is written up to the current block and untouched behind it (`FilledSoFar`).
Keys are then apart because the key of a use is injective: selector + 4 * execution
does not wrap and determines both, and the second committer key is selector one,
which no other use has. `Orthomorphism` is what the half-tree asks of
`linear_orthomorphism`: it and its sum with the identity are one-to-one.

`PrimitiveProofs`, the fields. Nothing is assumed but that the constants name elements
(`FieldsAssumption`), and nothing is proved by trying all elements: `FieldsKeepInvariant`,
`LoopIsRemainder`, `EmbeddingKeepsProducts`, `ChainsInvert`, `ChainMultipliesInQuotient`,
`FieldsAreFields`, `BaseIsRing`. For the tower that covers all 65,536 elements, of which the run
inverts 2048, and for the laws of the rings every triple. The steps:

- One round of the loop is additive in both factors, so two products that agree on the powers
  of x agree everywhere (`Agree`). The powers of x are doublings of one, so the laws of
  a ring come down to the order of doublings.
- A polynomial stands for its bits below the degree, and for each bit above for the reduction of
  that power (`Value`). The loop computes what the product of the polynomials stands for, a
  multiple of the modulus stands for zero, so each step of the long division changes nothing;
  what is left at its end lies in the field and is the product.
- The embedding sends x to an element that solves the equation of the small field; it takes
  doublings to products by that image, and hence products to products.
- Inverses. Squaring keeps sums and products, and after as many squarings as the field has bits
  (4, 8, 16 for the tower) x, and X of the tower, are back where they were; so every element is
  (`Fixed`). Elements that are their own squares are zero and one only, which the bits of a
  square show (`Idempotents`). After n rounds of a chain, x times its product is x to the power 2^(n+1)
  (`ChainInv`); at the end that is an idempotent that is not zero unless x is.

The inductive invariant `FieldsInv` says that the variables of the loop are the n-th state of
the recursive function in `Mul`, and the power just named; it was model-checked on some
28,500 states before it was proved. That the recursions of `Mul` and `Remainder` exist at
all is proved first, as the lemmas on a function defined up to a bound.

Only model-checked. `CallsReturn` is liveness under fairness, which the prover
does not handle; every other property of a passing run is a theorem.

## 6. Not modelled

- AES and SHAKE128: derivation is arbitrary, commitments and digests are
  collision-free. That they are is an assumption, not a result.
- How likely a challenge is to coincide (soundness of the scheme): the models are
  nondeterministic, not probabilistic.
- `xof.rs`: two calls of the `sha3` crate and its state; nothing in it decides
  anything. What goes into a hash is part of the models, as what a digest is.
- `Debug`, zeroizing, the adapters for the `signature` traits: no state, or none a
  property here is about. Whether secret memory is in fact cleared is a matter of
  compiled code.
- Constant-time comparison and masks: the models have results, not timing.
- In the harness: hex decoding, the wording of the response it writes, what git,
  make and the reference implementation do beyond section 3.
- Fuzz targets, benchmark, CI: drivers without state of their own. They call what is
  modelled, with inputs that the runs enumerate at small sizes.
