# Verification of MAMBA-Phantom

MAMBA-Phantom is a signature scheme in C derived from Dilithium: `ref/` is the
portable implementation, `avx2/` the vectorised one (`avx2/sign.c` is the same
file as `ref/sign.c`), `ref/nistkat/` the generator of known-answer tests. This
directory holds TLA+ models of the code, the TLC configurations that check them
on small instances, and TLAPS proofs of the properties that matter most.

Run a check with `tlc -config MCSign.cfg MCSign.tla` and a proof with
`tlapm Sign_proofs.tla`. `PROJECT.json` lists the runs, the line of code each
definition stands for, the hazards the properties are for, and for each property
a faulty form of the code that violates it.

## The system

| part | code | state | operations |
|---|---|---|---|
| signed-message API | `ref/sign.c` | the caller's buffers `sm`, `m`, `*smlen`, `*mlen`; in a call `mu`, `rhoprime`, `nonce`, `y`, `z`, `h` | `crypto_sign_keypair`, `crypto_sign_signature(_internal)`, `crypto_sign`, `crypto_sign_verify(_internal)`, `crypto_sign_open` |
| expansion of public parameters | `ref/sign.c` `expand_pub` | one SHAKE128 state, a block buffer with 0 to 2 carried bytes | `sample_uniform_poly_stream`, `rej_uniform_stream` |
| key and signature packing | `ref/packing.c`, packers of `ref/poly.c` | byte arrays, a 32-bit bit buffer | `pack_*`, `unpack_*`, `polytbar_*`, `poly*_pack` |
| SHAKE | `ref/fips202.c` | 25 lanes and `pos` | init, absorb, finalize, squeeze, squeezeblocks, absorb_once |
| streams of nonces | `ref/symmetric-shake.c` | - | `dilithium_shake*_stream_init` |
| polynomial sampling | `ref/poly.c`, `ref/polyvec.c` | block buffer, `ctr`, nonce | `poly_uniform`, `poly_uniform_eta`, `poly_uniform_gamma1`, `poly_challenge` |
| arithmetic | `ref/reduce.c`, `rounding.c`, `ntt.c`, `poly.c`, `polyvec.c` | coefficient arrays | `montgomery_reduce`, `reduce32`, `caddq`, `decompose`, `ntt`, ... |
| random bytes | `ref/randombytes.c` | the static descriptor `fd` | `randombytes` |
| test-vector generator | `ref/nistkat/` | `AES_XOF_struct`, the DRBG's `Key`, `V` | `seedexpander_init`, `seedexpander`, `randombytes_init`, `randombytes` |
| vectorised code | `avx2/` | four lanes of everything above | `poly_uniform_*_4x`, `rej_uniform_avx`, row-wise matrix expansion, `shake*x4` |

How they interact: `crypto_sign` copies the message behind the place of the
signature, `crypto_sign_signature_internal` draws `rnd` from `randombytes`,
hashes with the SHAKE sponge, expands the public matrix from one stream, takes
candidates for `y` from streams numbered by `L*nonce + i` until one is within the
norm bound, and packs it with a zero hint vector. `crypto_sign_open` calls
`crypto_sign_verify` on the same buffer and then copies or wipes the message.
There is no concurrency but for the static `fd`, no persistence and no message
passing inside of the code; the buffers a caller hands from call to call, and the
transport between signer and verifier, are where the orders of events vary.

What is hard about it: overlapping buffers (`m` may lie over `sm`); loops that
process blocks while the caller cuts input and output anywhere; a rejection loop
without a bound and 16-bit nonce arithmetic; an encoding of hints that must be
unique; partial and interrupted system calls; a static variable shared by
threads; limits and counters at their last value; 32- and 64-bit arithmetic with
stated ranges; four sampling lanes that end at different times.

What makes each part correct: signing signs the caller's message, and only what
was signed is opened; each polynomial is made of consecutive, unused bytes of its
stream; packing is injective and unpacking accepts nothing else; the sponge gives
the stream of the padded message, however calls cut it; every coefficient stays
in its documented range; every random byte asked for was written; the seed
expander uses each key-stream byte once.

## Modules

| module | models | kind |
|---|---|---|
| `SignatureService` | what the signed-message API promises | abstract specification |
| `Sign` | `ref/sign.c` over the caller's memory | component |
| `SignInvariant`, `Sign_proofs` | inductive invariants and proofs | proofs |
| `HintEncoding` | `pack_sig`/`unpack_sig`, hint area, declaratively | operators, used by `Sign` |
| `HintCodec`, `HintCodec_proofs` | the loops of the same code | component, proofs |
| `Xof` | what an extendable-output function promises | abstract specification |
| `KeccakSponge`, `KeccakSponge_proofs` | the sponge of `ref/fips202.c` | component, proofs |
| `RejectionSampling` | what uniform sampling promises | abstract specification |
| `StreamSampler`, `StreamSampler_proofs` | `expand_pub` | component, proofs |
| `RandomBytes`, `RandomBytes_proofs` | `ref/randombytes.c` | component, proofs |
| `SeedExpander` | the seed expander of `ref/nistkat/rng.c` | component |
| `CtrDrbg` | the CTR DRBG of the same file | component |
| `KatGenerator` | `ref/nistkat/PQCgenKAT_sign.c` | component |
| `KnownAnswers_proofs` | of the three before | proofs |
| `LaneSampler` | rejection samplers of `ref/poly.c`, `avx2/poly.c`, `avx2/rejsample.c` | component |
| `MatrixExpansion` | the row-wise expansion of `avx2/polyvec.c` | component |
| `Challenge` | `poly_challenge` | component |
| `SpongeLanes` | `avx2/fips202x4.c` | component |
| `Samplers_proofs` | of `LaneSampler`, `MatrixExpansion`, `Challenge`, `SpongeLanes` | proofs |
| `Reduce` | `ref/reduce.c`, the scaling of `t_quantize` | operators |
| `Rounding` | `ref/rounding.c`, `avx2/rounding.c` | operators over all inputs |
| `CoefficientRanges` | ranges of coefficients through the calls of a program | component |
| `Ntt` | `ref/ntt.c`, products of transforms | component |
| `BitPacking` | the packers of `poly.c` (both), `polytbar_*` | component |
| `KeyLayout` | `pack_pk`, `pack_sk`, `pack_sig` and back | component |
| `Coefficients_proofs` | of `Reduce`, `Rounding`, `CoefficientRanges`, `Ntt`, `BitPacking`, `KeyLayout` | proofs |
| `MC*` | constants for TLC | model checking |

### Sign

Memory is an array of cells: one for the challenge, one for the packed `z`, then
the hint bytes and the message bytes, one byte each. `m` is at an address over
`sm` or behind it. Each copying loop runs a byte per step and the rejection loop a
candidate per step; `SignPrepare` is everything between the copy and the loop.
The caller (`KeyPair`, `CallSign`, `CallOpen`, `Verify`) and the transport
(`Damage`, which replaces a cell by another of its kind, also by one of the two
signed messages sealed last) act between calls. The caller keeps to `Fits`: `m` starts
at or before the place of the message in `sm`, or behind the message; anywhere else the
descending and the ascending loop both overwrite a byte they have yet to read
(`FirstTurnSpoils` of `Sign_proofs`), and no comment of the code allows it. A hash is the term of its inputs:
collision freedom is assumed, forging a hash value is outside of the model.
Polynomial arithmetic is opaque: `large` says which streams give a vector beyond
the norm bound, and verification recomputes the challenge from `mu` and `z`.
`UninitLen` stands for a `size_t` the caller has not assigned: `crypto_sign` adds
`mlen` to `*smlen` also when `crypto_sign_signature` refused the context.

`ImplementsService` is a refinement: `keys` maps to the public keys, `signed`,
`box` and `outcome` are history variables that record what was signed, what the
caller believes `sm` holds, and what the last call returned. In the service, a
message is accepted only with a key, context and text that were signed together,
and refused only for a reason: no whole message, a part of it presented, or
another key or context. The refinement therefore also says that a signed message
that arrives whole is opened. After a refused open `*mlen` must be 0 and the buffer
zero for as many bytes as were presented (`Wiped`).

### HintEncoding and HintCodec

`N` is the number of coefficients and of byte values, as in the code (256).
`HintEncoding` gives each coefficient the number of those `pack_sig` meets before
it (`Rank`), which is the byte it goes to and, behind a row, the row's count.
A behaviour of `HintCodec` either packs a hint vector and unpacks the result or
unpacks any area at all. `ComputesHintsOk` ties the loops to the operators `Sign`
uses.

### KeccakSponge

The permutation is a free function: the state is the sequence of blocks XORed
in, before, between and after its applications, so equal outputs mean equal
inputs of the permutation. `Xof` is the specification; its `StreamByte` is defined
from the padded message (`SpongeByte`). `squeezeblocks` leaves `pos` alone, as
the code does, and is called with `pos = Rate`, as its comment demands and all
callers do.

### StreamSampler

A buffer cell holds the stream position of its byte, and whether a triple is
below Q is left open, so `ImplementsSampling` speaks of every outcome of the
rejections. `RejectionSampling` has one counter into the stream; the refinement
maps it to blocks squeezed minus bytes still waiting. Bytes behind the last
coefficient of a polynomial are dropped up to the end of the block: the next call
of `sample_uniform_poly_stream` starts with an empty buffer. The code is right
for block lengths that are not 1 modulo 3 (`SamplerAssumption`). SHAKE128 has 168, a
multiple of 3, with which nothing is ever carried from block to block: the code that
carries bytes is modelled, and checked with blocks of 5, but is dead at the rate in use.

### RandomBytes

`fd` is a plain static variable; a thread may use the value it read last or read
it again, so both are possible at every use. `open` gives the lowest free
descriptor, which may be 0, is interrupted, or fails. An environment fixes the
threads that call, which build it is, and whether `open` may be interrupted.
`lost` counts how often a -1 went over a stored descriptor: an open of one thread that was
interrupted, or failed, is stored like any other result (`randombytes.c:62`), and the
thread that had stored its descriptor then tests or reads from -1 and aborts, or opens
the device again. `AbortHasCause` and `DescriptorsBounded` say that nothing else, short
of an error the kernel reports, makes a process abort or a thread open twice; where one
thread calls alone, an interruption never does.

### SeedExpander

A byte of output is the counter it was made from and its place in the block.
`Limit` stands for 2^32, the bound on `maxlen`; `CtrMod` for the four counter bytes.

### CtrDrbg and KatGenerator

In `CtrDrbg` a key is named by its history, the seed and the number of blocks of
each request since, so two keys are equal only if the same was asked; a block is
`<<key, number of the AES call>>`, and `calls` keeps the counter of each call. `V`
after an update is any value, since AES made it: every carry is met. The three
blocks of `AES256_CTR_DRBG_Update` are calls under the old key.

`KatGenerator` follows `main` over two files of labelled lines. Between writing
and reading, the request file may have lost any part of its end (`Reopen`; nothing
checks what `fprintf` and `fclose` return): whole lines, and the last line that is left
may hold some of its value or none; a line whose label is cut counts as lost. A cut
value is read as the code reads it: `fscanf` finds fewer digits (`Digits`) or assigns
nothing, so that `count` and `mlen` keep the number of the request before (`Numbers`),
and `ReadHex` puts zeros in front of what is there and returns 1. A random string is
named by the DRBG's seed and what was asked of it since. That a message just
signed opens is `Sign`'s business (`Compare`). A label stands for itself and the
` = ` behind it; a request ends with `smlen =` without the space, in which
`FindMarker` does not find `mlen = `.
`RespondsToRequests` asks for equality line by line, and on success for a response
to every request of the file. A file that ends within a message is answered in full all
the same, with the message as `ReadHex` padded it; the property allows this for the very
last line of the file and nowhere else.

### LaneSampler, MatrixExpansion, Challenge, SpongeLanes

`LaneSampler` is one module for the scalar and the vectorised, the single and the
four-lane functions: an environment says which one runs. A byte is a lane and a
stream position, a candidate its first byte (and nibble), and whether it is
accepted is open. `coeffs` has room behind the polynomial and starts empty there,
so a store that reaches behind it shows. `rej_eta_avx` handles four groups of
eight per turn with a break between them; `ScalarTry` takes up where it left, one
candidate a step, and `HighLeft` is a high nibble no coefficient is missing for.
The table `idxlut` is what it does: the n-th accepted candidate of a group goes to
place n (`AtPlace`), and the places behind the last hold what the store left there.
`Sampled` states the order the same way: an accepted candidate is the coefficient
whose number is its rank among those accepted.

`MatrixExpansion` is a table of nonces and destinations, one per parameter set, as
the row functions write it, with the caller's `rowb`: `mat` remembers the nonce of
each entry and whether `poly_nttunpack` was applied, once or more often.
`Challenge` gives each sign its number. `SpongeLanes` goes word by word through
the gathers, with the mask of the last word and memory behind `inlen`; its
property defines the padded message of one lane alone.

### Reduce, Rounding, CoefficientRanges, Ntt

`Rounding` has no control to speak of: a behaviour goes through all values of
`(a + 127) >> 7`, on which alone the high bits depend, and at each value its
invariants are evaluated for inputs at both ends of the interval that have it
(`Corners`) and for low parts at the ends of theirs. `Coefficients_proofs` does away
with the corners.

`CoefficientRanges` carries, for each polynomial of a vector, the least and
largest coefficient through the calls `crypto_sign_keypair`, `pack_sk`,
`crypto_sign_signature_internal`, `crypto_sign_verify_internal`, `test_vectors`
and `test_mul` make in order. Each call checks that its argument is in the range
its comment asks for and that no sum leaves `int32_t`, layer by layer in the NTT.

`Ntt` works modulo Q with the code's own table, a layer of `ntt` or `invntt_tomont` per
step. A behaviour does one of the two things `ref/test/test_mul.c` does with two
polynomials: it transforms one, scales it and transforms it back, or it transforms both,
multiplies with `poly_pointwise_montgomery` and transforms the product back. `NttOk`
compares a transform with the values of the polynomial at powers of the 512-th root of
unity and so ties the order of the zetas to it; `MultiplyOk` compares the result with the
polynomial, or with `poly_naivemul` of the test. A product of two residues is computed
from bytes of one of them (`Times`), since TLC's integers have 32 bits, and a sum of 256
residues by adding halves (`SumModQ`).

### BitPacking and KeyLayout

A bit is `<<coefficient, place>>` and a word the set of its bits with their places,
so a bit lost, doubled or OR-ed onto another is seen without enumerating values.
The packers written out in `poly.c` are tables of shifts, `polytbar_*` is the loop
over a 32-bit buffer, `polyz_unpack` and `polyw1_pack` of `avx2/` are the sequences
of pack, multiply-add, permute and shuffle instructions on registers of such
words. `OneBitStream` says that all of them make one format. `KeyLayout` has a
pointer, strides and a map from addresses to bytes.

## Runs

| run | instance | shows |
|---|---|---|
| `sign_service` | 2 keys, messages and contexts of 0 to 2 bytes over a 2-letter alphabet (2 is a context that is too long), 2 calls, 1 damaged cell, `m` over `sm` one byte before the place of the message or one byte behind it (for a message that Fits), or behind `sm` | the API implements the service, wiped buffers included; the invariants of the proofs (`IInv`, `ServiceInv`) hold |
| `sign_loop` | 2 polynomials per vector, 7 nonces, every set of streams beyond the bound, 2 values of `rnd`, 2 calls | fresh streams until the wrap, every call returns |
| `sign_distorted` | as `sign_service`, 1 key | a changed hint byte is not noticed (a finding) |
| `hint_codec` | 5 coefficients, 2 polynomials, 3 indices | round trip, uniqueness, bounds of the loops |
| `keccak_sponge` | blocks of 3 bytes, 7 bytes in and out, calls of 0 to 4 (in) and 0 to 6 (out) | the sponge implements the XOF |
| `sampler` | 4 coefficients, 2 polynomials, blocks of 5 bytes, 8 blocks | block-wise sampling implements rejection sampling |
| `randombytes` | with opens that are interrupted 1 thread asking 32 bytes and 2 asking 2, without 2 asking 4 and 3 asking 1; 2 asking 6 with getrandom | buffers filled, aborts have a cause, calls end |
| `known_answers` | seed expander: blocks of 3, maxlen up to 11, requests of 0 to 7; DRBG: blocks of 3, three binary counter places, requests of 0, 2, 3, 4 and 9 bytes, 2 of them; generator: 11 requests, the file cut anywhere, also within a line | output is the key stream within maxlen; counters carry and no block is used twice; each response is to its own request |
| `seed_expander_maxlen` | the same, requests of 0 and 2 bytes | the last byte of maxlen is never given (a finding) |
| `samplers` | polynomials of 4 (with registers of 2), one or two lanes, blocks of 2 to 9 bytes, up to 5 blocks; the three matrix shapes; 5 coefficients, 3 signs, blocks of 4 for the challenge; sponges with blocks of 3 words of 2 bytes, inputs and outputs of 0 to 13 bytes | lanes keep to their streams, stores inside of the polynomial, each matrix entry once, TAU signs, four sponges |
| `coefficients` | all 65473 intervals of rounding with both values of GAMMA2 and changes at, just inside and just outside of both, around 0 and between; the three parameter sets; 13 pairs of polynomials to transform, powers of x and ones without a zero coefficient; polynomials of 64 coefficients in every format; the layouts of the three parameter sets | rounding, hints, ranges, NTT, packing and layout |
| `use_hint_zero` | as `coefficients`, rounding | the vectorised `use_hint` differs where the low part is 0 (a finding) |

Why the bounds are enough: two bytes of alphabet and messages of two bytes are
the least for which a context byte can be mistaken for a message byte and an
overlapping copy can overwrite a byte it has yet to read, and 7 nonces with L = 2
do not divide, so the wrap meets half a vector. Two calls and one damaged cell
cover a reused buffer and a challenge, `z` or byte taken from another message; more
calls and cells are covered by the proof. Hint areas of 3 + 2 bytes include empty,
equal, decreasing and trailing indices and counts above OMEGA. Blocks of 3 with 7
bytes in and out meet every position relative to the end of a block, twice; blocks
of 5 carry one and two bytes. The environments of `samplers` have block lengths
that are 0, 1 and 2 modulo a triple and polynomials that need more than the first
blocks, and registers half as long as a polynomial, so that the vector loop ends by
each of its conditions. Eleven requests make each response but the
first depend on a DRBG that others used before, and give counts and lengths of two and
three digits that can be cut. `coefficients` has the code's own modulus, tables and
parameter sets; its corners are the ends of intervals of 128 inputs, and 64
coefficients are a whole number of groups of every packer. The transforms are linear and
the products bilinear, so that powers of x, with both wraps, meet every entry of the
table; the proof has all polynomials. Every bound on a counter (`MaxCalls`, `MaxDamage`,
`MaxLen`, `MaxBlocks`, `CMaxBlocks`, `max` of an environment, `MaxIn`, `MaxOut`, `MaxMsg`,
`MaxGiven`, `MaxBytes`, `MaxOpen`) is a constant that a guard names. Where a run has
several modules (`known_answers`, `samplers`, `coefficients`) a behaviour runs one of
them and leaves the variables of the others alone: they share no state in the code
either. Deadlock is not checked in `hint_codec`, `sampler` and these three, which end, and in `randombytes`, where the process aborts.

### Fairness

`Sign`: weak fairness of the library's steps, as a call that was made keeps
running; none of the caller or the transport. `CallsReturn` is conditional on
`Acceptable`: some vector that the nonces can reach is within the bound, without
which the loop of the code never ends either. `RandomBytes`: weak fairness of
each thread, and strong fairness of a successful `open`: a system call is not
interrupted for ever. A thread may be made to wait by nothing but the scheduler.

### Findings

- `sign_distorted`: verification unpacks the hint vector and does not use it
  (`ref/sign.c:280-282`). Changing the last count byte from 0 to 1 gives another
  well-formed area and an accepted message. `ref/test/test_dilithium.c:52-61` and
  `README.md:40` say that a signed message with one distorted byte does not open.
- `seed_expander_maxlen`: `seedexpander` refuses when `xlen >= length_remaining`
  (`rng.c:67`), so one byte less than the documented maximum (`rng.c:23`) can be
  generated.
- `use_hint_zero`: `use_hint_avx` looks at the sign bit of the low part
  (`avx2/rounding.c:187`), `use_hint` asks whether it is positive
  (`ref/rounding.c:92`), so they differ where it is 0 and the hint is set. A hint
  made for a low part of GAMMA2 and a change of GAMMA2 leads there, and only the
  reference code then returns the right high part. `sign.c` calls neither.

Seen while modelling, without a run of their own:

- `reduce32` can return -6283009 (proved bounds: `Reduce32Range`; reached at the
  least input of a quotient of 255), where `ref/reduce.c:29` says -6283008;
  `avx2/poly.c` says -6283009. `montgomery_reduce` returns Q for a = 2^31 Q, the
  last input `ref/reduce.c:8-9` admits, where it says r < Q
  (`MontgomeryAtTheEnd`).
- `ref/polyvec.c` says of `polyveck_invntt_tomont` that its input is below 2Q,
  `ref/ntt.c` asks for Q.
- `expand_pub` of `avx2/sign.c` leaves the sampled matrix in standard order, where
  `polyvec_matrix_expand` of `avx2/polyvec.c`, which nothing in `sign.c` calls, applies
  `poly_nttunpack` before the assembly NTT's products use it.
- `polyw1_pack` of `avx2/poly.c` writes 8 bytes behind the packed polynomial.
- `crypto_sign` adds to `*smlen` also after a refusal.
- Where several threads call `randombytes`, an interrupted `open` of one can make another
  abort although no call failed for good, or open the device again (`randombytes.c:62`);
  nothing in the repository says that several threads may call.
- `PQCgenKAT_sign` answers a request whose message was cut off within its line, padding
  the message with zeros, and returns `KAT_SUCCESS` (`PQCgenKAT_sign.c:109-113`, 211-242).

## Proofs

| theorem | says, for all values of the constants |
|---|---|
| `Sign_proofs!TypeCorrect` | types; the nonce is a uint16_t, lengths are not negative |
| `Sign_proofs!FreshStreamsHold` | no stream number is used twice before the nonce arithmetic wraps |
| `Sign_proofs!MessageIsSigned` | what is hashed is the caller's message, for every place of `m` at or before that of the message in `sm` or behind it; no other place works (`FirstTurnSpoils`) |
| `Sign_proofs!OpenedWasSigned` | whatever is opened was signed with that key and context |
| `Sign_proofs!InvariantHolds` | the inductive invariant of the two before |
| `Sign_proofs!SignImplements` | the calls over the caller's memory implement `SignatureService`: also that a signed message that arrives whole is opened, and that a refused open leaves nothing in `m` |
| `Sign_proofs!ServiceInvariantHolds` | the inductive invariant of the refinement |
| `KeccakSponge_proofs!TypeCorrect` | `pos` stays in the block, counts stay natural |
| `KeccakSponge_proofs!AllBytesAccounted` | `pos` and the number of permutations account for every byte |
| `KeccakSponge_proofs!StreamOfMessage` | the sponge implements `Xof`: the bytes given are the stream of the bytes absorbed, however calls cut both |
| `StreamSampler_proofs!StaysInBuffer` | the buffer is never overrun, no byte is read before it was squeezed |
| `StreamSampler_proofs!SamplerImplements` | the block-wise sampler implements rejection sampling |
| `HintCodec_proofs!UnpackComputes` | the loops of `unpack_sig` accept exactly the well-formed hint areas and write what they hold |
| `HintCodec_proofs!TypeCorrect` | no index leaves the area while packing or unpacking |
| `HintCodec_proofs!HintsComeBack` | a packed hint vector is accepted and comes back |
| `HintCodec_proofs!OneAreaPerVector` | no other area is accepted for the same vector |
| `RandomBytes_proofs!BufferFilled` | a call that returned has written its whole buffer, whatever the system calls return |
| `RandomBytes_proofs!AbortsAreCaused` | `abort` follows an error other than EINTR, or a -1 another thread stored over a descriptor |
| `RandomBytes_proofs!OpensAreBounded` | each thread opens the device once at most, and once more for each descriptor lost to a -1 |
| `KnownAnswers_proofs!KeyStreamOnce` | the bytes of all requests together are the key stream, none twice, none left out |
| `KnownAnswers_proofs!NeverBeyondMaxlen` | no sequence of requests is given more than `maxlen` bytes |
| `KnownAnswers_proofs!DrbgBlocksOnce` | `V` counts through every carry, a request gets the blocks of its own calls in order and none of the update's |
| `KnownAnswers_proofs!AnswersRequests` | each response is made of its own request, wherever the file was cut, also within a line; only the last may be to a message that was cut |
| `Samplers_proofs!ChallengeHasItsShape` | a challenge has each sign bit at exactly one place, whatever the stream |
| `Samplers_proofs!PolynomialsAreSampled` | each lane tests the candidates of its own stream once and in order and keeps those accepted, in every variant of the samplers |
| `Samplers_proofs!StoresStayInside` | no register is stored behind the polynomial or loaded from behind the buffer |
| `Samplers_proofs!FourIndependentSponges` | each lane of `fips202x4.c` is the sponge of its own input |
| `Samplers_proofs!RowsAreReady` | when a row function of the matrix expansion returns, its row and those above have the nonces of `ref/` and the order of the NTT, once; no null row is written |
| `Coefficients_proofs!CallsGetTheirRanges` | every call gets coefficients in the range its comment asks for, no sum leaves `int32_t` |
| `Coefficients_proofs!OneStreamAlways` | every packer of both implementations writes the same bit stream, for every number of coefficients that is a multiple of 64 |
| `Coefficients_proofs!PackedComesBack` | every unpacker gives back what was packed and reads at most 14 bytes behind |
| `Coefficients_proofs!TransformEvaluates` | `ntt` gives the values at the odd powers of the root of `params.h`, bit-reversed, for every polynomial |
| `Coefficients_proofs!TransformsMultiply` | a scaled transform comes back, a product of two transforms as the product modulo x^256 + 1, for every two polynomials |
| `Coefficients_proofs!DecomposeIsCorrect` | the high and low part are what the comment says, for each of the Q inputs |
| `Coefficients_proofs!VectorRoundingIsTheSame` | `avx2/rounding.c` gives the bits and hints of `ref/rounding.c`, for every coefficient and low part |
| `Coefficients_proofs!HintsRecover` | the hint recovers the high bits after any change of at most GAMMA2, for every coefficient |
| `Coefficients_proofs!KeysAndSignaturesComeBack` | the parts of a key or signature fill it without overlap and are found again, for all sizes |
| `Coefficients_proofs!Reduce32Range`, `FreezeRange` | the ranges of `reduce32` and `freeze`, and that they keep the residue |
| `Coefficients_proofs!MontgomeryRange` | `montgomery_reduce` gives r in (-Q, Q) with 2^32 r = a modulo Q |
| `Coefficients_proofs!MontgomeryAtTheEnd` | at the end of its stated range it gives Q |

They rest on the assumptions on constants in the modules (`SignAssumption`,
`TextAssumption`, `HintAssumption`, `SpongeAssumption`, `SamplerAssumption`,
`RandomAssumption`, `ExpanderAssumption`, `DrbgAssumption`, `KatAssumption`,
`LaneAssumption`, `LanesAssumption`, `ChallengeAssumption`, `ShapeAssumption`,
`RoundingAssumption`, `RangesAssumption`, `NttAssumption`, `PackingAssumption`, `LayoutAssumption`), and on
nothing else. `SignAssumption` lets a caller use any address up to the end of `sm` for `m`; `Fits` is a guard
of its calls. `LaneAssumption` has the one condition the code states, that a uniform
buffer of the vector loop is a multiple of three bytes (`avx2/poly.c:402`), and that
the first buffer is no shorter than the bytes a turn uses, without which the
unsigned bound of the loop wraps. `RangesAssumption` takes any dimensions and bounds
within what the code's comments and types ask of a parameter set: samples below Q,
B = GAMMA1 - BETA at most (Q-1)/8 (`ref/poly.c:274`), and at most 255 columns. 255 is
where the code's own accumulation ends: each product adds less than Q to a
coefficient, and 256 of them could exceed what `reduce32` admits.

*Sign, what is opened.* `AcceptedIsSigned` is not inductive: nothing in it says where the
challenge in memory comes from. `IInv` (in `SignInvariant`) adds what the running
call was given (`ArgsInv`), that after `i` turns the last `i` bytes are copied and
the others are still at `m` (`CopyInv`, which makes the descending order
matter), which cells hold bytes (`MemInv`), and that every challenge in memory or in a
sealed message is a byte, junk, or the challenge of a signed claim (`SealInv`).
A challenge that matches then gives equal `mu` terms, and the encoding
`0, ctxlen, ctx, m` can be taken apart because a context that was not refused is
shorter than the number of byte values. `FreshStreams` needs its own invariant:
the streams drawn are those below `L*nonce` while nothing has wrapped.

*Sign, the service.* The service also promises that what is whole is opened, so the
refinement needs the converse: `ServiceInv` says that a box the caller believes
intact is in memory cell for cell (`Whole`: the challenge of its claim, a `z` within
the bound, the packed zero vector, the text), also while a call that releases the
message elsewhere runs; that the copy in `crypto_sign_open` has moved the first `i`
bytes and the rest still stands, though `m` lies over `sm` below it (`ReleaseInv`);
and that a call that wipes has one of the service's reasons, `*mlen` is 0 and the bytes
before `i` are zero (`RefusalInv`). A whole
box verifies because the zero vector packs to an area `HintsOk` accepts. Each
action then maps to a service step or to a stutter.

*KeccakSponge.* `IInv` relates `pos`, the number of blocks in the state and the
bytes absorbed and given, phase by phase. For the refinement `ContentInv` adds what the
blocks hold: while absorbing, byte `k` of block `b` is byte `(b-1)*Rate + k` of the
message and zero behind its end; while squeezing, the state is that of the padded
message, block by block, with as many zero blocks behind it as permutations since.

*StreamSampler.* The invariant says that the bytes from `pos` to `buflen` are
consecutive stream positions ending at the last byte squeezed, and after
`SaveTail` that the carried bytes are the last ones. Each action then maps to a
step of `RejectionSampling` or to a stutter.

*HintCodec.* `CInv` says, for each loop of `unpack_sig`, what is known of the area read
so far: the rows before `i` are in order and `h` holds them, the indices of row `i` up
to `j` are in order and in `h[i]`, the tail up to `j` is zero. When a loop returns 1,
the byte it stopped at refutes `HintsOk`. Packing (`PackInv`) has `k` equal to the rank
of the place it is at, so that it stays within OMEGA because the vector's entries do.
Uniqueness (`ReadInv`) counts in the other direction: the entries read so far have
the places of their ranks, which the indices' strict order makes the only
possible ones, and the counts are the ranks of the row ends.

*RandomBytes.* `FillInv`: what was written is exactly the front of the buffer. For
`AbortHasCause` two invariants: a thread that calls alone has in `fd` what it stored
(`AloneInv`), and for several, as long as no descriptor was lost and the kernel has not
failed, `QuietInv` says that a thread which saw a descriptor or is about to use one implies
that `fd` is set. `OpenedInv` counts: descriptors that are open and threads that may still come to
`open` (`Openers`) are together no more than the threads, once for each loss and once
more. A step opens one and takes its thread out of the set, or only shrinks it, or loses
a descriptor, which allows every thread another open.

*SeedExpander.* `XInv` relates what was given to the place in the stream:
`Len(given) = BlockLen*buffer + pos`, the counter is the next one after the buffer's,
and `Len(given) + xlen + length_remaining = maxlen`. The assumption
`Limit <= BlockLen*CtrMod` (2^32 bytes against 2^32 blocks of 16) is what keeps the
four counter bytes from wrapping.

*CtrDrbg.* `DrbgInv` says that the calls made under the key are successive and `V` is the
last of them, that the request's bytes are those of its calls so far, and how many
calls a request and its update make. That `Increment` adds one to the number the
bytes stand for, through any run of carries (`NextNumber`), is proved over the prefixes
of the counter.

*KatGenerator.* `KatInv`: each line of the request file has the label and the count
of its place and is whole, but for the last; each line of the response file is the one
`ResponseLine` defines from the request's lines, or a number that was cut and ends the
responses; and at each statement the lines read, the
lines written and the DRBG's name fit (`ProgressInv`). That a search for a label stops at
the right line rests on eight different labels in a fixed order; that a cut count, seed or
length gets no response, on the message being behind it.

*Challenge.* The invariant is the shape itself with "exactly one place" written as an
existential; that the free place `i` holds zero, because nothing non-zero stands at `i`
or behind it, is what keeps the swap from losing a sign.

*SpongeLanes.* Until the tail, after `q` blocks each element is the first `q` blocks
of its own message; then it is the padded message with `m` zero blocks, and `m`
whole blocks were given. The masked last word and the padding are one lemma on the
bytes of a block (`TakenBytes`).

*LaneSampler.* `LInv` says that the buffer of each lane is a window on its own stream
that begins at `Start`, how far the history of each lane that still lacks coefficients
has come in it, to the byte or the nibble (`Progress`), and what each loop may rely on:
the vector loops have room for a register whenever they store one and test a
candidate for each they load. Storing a scalar or a register is then one lemma
(`LaneExtends`): the history grows by a group, and an accepted candidate goes to the
place of its rank. The scalar sampler with carried bytes, the vector one, and the
nibbles differ only in the arithmetic of `Start`.

*Rounding.* `Changes` is any set of integers. The invariant `RInv` says only that GAMMA2 is one of the two values and
that the inputs are in [0, Q-1]; the work is in the arithmetic. `a1` is characterised
by `w = (a + 127) >> 7` lying in an interval (a multiplication and a shift instead of
a division are exact there), and the interval gives the bounds of the low part. The
vector code's two roundings are bounded the same way. The hint is a case split on the
sign of the low part and on whether the change crosses the boundary or Q.

*Reduce.* `Low` and the quotients are characterised by `y = m*(y \div m) + (y % m)` and
bounds; the rest is linear arithmetic with the code's literals, which is why the
modules write 8388608 for 2^23.

*CoefficientRanges.* `RangesOk` says only that no call has failed; what keeps the next
call from failing is what the calls before it left. `RgInv` therefore says of each
polynomial of the vector that it is in the range the current call *wants* or, behind
the index, in the range the call *gives*, layer by layer in the two NTTs. Both ranges
depend on the call alone, and a program is a chain in which what one call gives is
within what the next one wants (`Follows`): the seven programs are checked link by
link. The step lemmas are the arithmetic: a butterfly adds less than Q per layer, a
sum of at most 255 products fits, the quotients of `reduce32` bound its result.

*Ntt.* Everything is a congruence modulo Q, whose rules are the lemmas on `Congruent`.
`Powers` is proved to be the table of the root's powers by its doublings (`PowersAre`,
`PowersLawHolds`), with `ROOT_OF_UNITY^256 = -1`. Each of the 255 zetas is 2^32 times the
power whose exponent is its place in reverse (`AllScale`): the numbers of both halves
of a doubling are checked against each other entry by entry (`Follows1` to `Follows128`),
the arithmetic being the prover's. With that a layer of `ntt` multiplies by a power known
from the place (`TurnIs`), and folds the sum for a value: before the layer of length `l`,
the part of the array around place `j` holds `2*l` numbers with the same value at `j`'s
point as the polynomial, after it `l` (`EvaluateStep`), in the end one, the value
(`Evaluates`). A layer of `invntt_tomont` undoes the layer of the same length up to
a factor 2 (`LayerUndone`), since its zeta is the inverse of that layer's
(`ZetasCancel`). That the value of a product is the product of the values
(`ProductEvaluates`) exchanges two sums and turns one (`SumExchange`, `SumTurned`), both proved
halving by halving. `NttInv` then says that going forward the arrays are the stages of
`ntt` on the given polynomials, and going back `len` times the stage of the target;
`Final`'s 41978 is what takes the factor 256 and two factors 2^-32 away (`FactorIs`).

*BitPacking.* `BInv` says which bits are where between two steps. While packing, so
many whole bytes of the stream are written and, in the loops over a bit buffer,
the bits of the coefficients taken and not yet written wait in it, in order and
without a gap; while unpacking, so many coefficients are read and the bits behind them
wait. The table packers need that a group of coefficients fills a group of bytes: of each
table one lemma says which span of the stream every byte (or coefficient) takes.
For the vector code a register is followed instruction by instruction: which
coefficient's bits are in which word after each pack, multiply-add, permute and
shuffle.

*MatrixExpansion.* Number the entries row after row, `L*i + j`. `MatrixInv` says that
the place the running function begins at, plus what it unpacked, plus what it sampled,
cut the numbers in three: ready, in standard order, untouched. The tables are said to fit
(`TableFits`): each row function begins where the one before ended and its nonces are
those of its places. With that a function's n-th polynomial goes to the entry whose number is
its first place plus n (`EntryOfCall`), whether in its row, the next, or `tmp`, and
no entry twice because numbers of entries are unique (`OneEntry`).

*KeyLayout.* The parts before the loop's index are in memory from `Start`, and memory
ends where the next begins (`Laid`); reading goes the same way back. The products
`i*stride` are handled by two lemmas (`StartNext`, `StartAfter`); packing and unpacking
have strides of their own, which must agree (`SameAddress`).

Where a fact goes by induction (ranks, prefixes of a counter), the proofs take a least
counterexample from a set: `LeastNumber` and `InductionOver`, which state induction over a
subset of the naturals and follow from the library's theorem on well-founded
orders. Induction theorems that take a predicate cannot be used by the installed provers.

Only model-checked are `CallsReturn` and `CallsEnd`, liveness under fairness: the provers
handle neither fairness nor `ENABLED`. `NttInv` speaks of stages of the transform that
TLC would compute anew in each state, so that the run checks what follows from it and not
the invariant itself.

## Not modelled

- The Keccak permutation, AES and the assembly files: bit-level computations of
  fixed size, compared by test vectors in the repository.
- Benchmarks; of the test programs all but their calls of the arithmetic.
- Of the vector loops of `polyvec.c`: `add`, `sub`, `shiftl`, `make_hint`, `use_hint`,
  which no program that is modelled calls on values a property is about.
- The seeding of `poly_uniform_gamma1_4x`: its lanes are those of `SpongeLanes`, its
  unpacking that of `BitPacking`.
- The Windows build of `randombytes`; `sha3_256`, `sha3_512`, which nothing calls.

## Plan

Done: signed messages with their proof, hints, SHAKE, parameter expansion, random
bytes, the known-answer generator, reduction and rounding with proofs, coefficient
ranges, the NTT, packing, the samplers and lanes of both implementations.

Proved: every refinement (`ImplementsService`, `ImplementsXof`, `ImplementsSampling`)
and every safety invariant, for all values of the constants.

Left: the assembly NTT, `avx2/ntt.S` and `avx2/invntt.S`, if its instructions are worth a
model; `NttOk` and `MultiplyOk` are what it would have to satisfy, and the lemmas on the
table and on the layers do not depend on the order in which the butterflies of a layer are done.
