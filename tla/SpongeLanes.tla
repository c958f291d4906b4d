----------------------------- MODULE SpongeLanes -----------------------------
(***************************************************************************)
(* avx2/fips202x4.c: four sponges in the four elements of each register,   *)
(* word by word: shake128x4 and shake256x4 with the absorb_once and        *)
(* squeezeblocks they are made of, which the _4x samplers also call.       *)
(*                                                                         *)
(* As in KeccakSponge the permutation is free: an element's state is the   *)
(* sequence of blocks XORed in, one for each application and one more. A   *)
(* byte of it is the set of what was XORed into it: <<e, k>> is byte k at  *)
(* in_e, which is memory also behind inlen.                                *)
(***************************************************************************)
EXTENDS Integers, Sequences

CONSTANTS
    Elems,      \* 0..3
    Word,       \* bytes of a word: 8
    Words,      \* words of a block: SHAKE128_RATE/8 or SHAKE256_RATE/8
    MaxMsg, MaxGiven    \* bounds: inlen and outlen

ASSUME LanesAssumption ==
    Word \in Nat \ {0} /\ Words \in Nat \ {0} /\ MaxMsg \in Nat /\ MaxGiven \in Nat

VARIABLES
    xs,     \* the state of each element
    mlen,   \* what the caller gave as inlen
    xin, xpos,  \* inlen and pos of keccakx4_absorb_once
    xlen,   \* outlen: bytes yet to give
    xout,   \* the bytes at out0 to out3
    xpc

xvars == <<xs, mlen, xin, xpos, xlen, xout, xpc>>

R == Word*Words
DomainByte == <<-1, 0>>      \* 0x1F
TopBit == <<-2, 0>>          \* 1ULL << 63
Zeros == [j \in 0..R-1 |-> {}]
XInit ==
    /\ xs = [e \in Elems |-> <<Zeros>>] /\ xout = [e \in Elems |-> <<>>]
    /\ mlen \in 0..MaxMsg /\ xin = mlen /\ xpos = 0
    /\ xlen \in 0..MaxGiven /\ xpc = "absorb"

\* The current block of an element after what T says is XORed into its bytes.
Xored(st, T) == [st EXCEPT ![Len(st)] =
    [j \in 0..R-1 |-> (@[j] \ T[j]) \cup (T[j] \ @[j])]]

\* A gather of one word per element for every word of the block.
AbsorbBlock ==
    /\ xpc = "absorb" /\ xin >= R
    /\ xs' = [e \in Elems |->
          Append(Xored(xs[e], [j \in 0..R-1 |-> {<<e, xpos + j>>}]), Zeros)]
    /\ xpos' = xpos + R /\ xin' = xin - R
    /\ UNCHANGED <<mlen, xlen, xout, xpc>>

\* Whole words; of the next word what the mask leaves; also without the mask.
TakenAll(j) == j \div Word < xin \div Word + (IF xin % Word = 0 THEN 0 ELSE 1)
Taken(j) == j \div Word < xin \div Word \/ (j \div Word = xin \div Word /\ j % Word < xin % Word)
Domain(j) == j \div Word = xin \div Word /\ j % Word = xin % Word
LastBlock(e, j) == (IF Taken(j) THEN {<<e, xpos + j>>} ELSE {})
    \cup (IF Domain(j) THEN {DomainByte} ELSE {})
    \cup (IF j = R-1 THEN {TopBit} ELSE {})

AbsorbTail ==
    /\ xpc = "absorb" /\ xin < R
    /\ xs' = [e \in Elems |-> Xored(xs[e], [j \in 0..R-1 |-> LastBlock(e, j)])]
    /\ xpc' = "squeeze"
    /\ UNCHANGED <<mlen, xin, xpos, xlen, xout>>

\* A block for every element, straight to the caller or, for the last bytes,
\* through the buffer t.
SqueezeBlock ==
    LET n == IF xlen < R THEN xlen ELSE R IN
    /\ xpc = "squeeze" /\ xlen > 0
    /\ xs' = [e \in Elems |-> Append(xs[e], Zeros)]
    /\ xout' = [e \in Elems |-> xout[e] \o [k \in 1..n |-> <<xs'[e], k-1>>]]
    /\ xlen' = xlen - n
    /\ UNCHANGED <<mlen, xin, xpos, xpc>>

XNext == AbsorbBlock \/ AbsorbTail \/ SqueezeBlock

XSpec == XInit /\ [][XNext]_xvars
-----------------------------------------------------------------------------
\* The padded message of element e by itself, in blocks.
Block(e, b) == [j \in 0..R-1 |->
    (IF b*R + j < mlen THEN {<<e, b*R + j>>} ELSE {})
    \cup (IF b*R + j = mlen THEN {DomainByte} ELSE {})
    \cup (IF b = mlen \div R /\ j = R-1 THEN {TopBit} ELSE {})]
SpongeOf(e, n) == [b \in 1..n |->
    IF b-1 <= mlen \div R THEN Block(e, b-1) ELSE Zeros]

(***************************************************************************)
(* Each element is the sponge of its own input, padded as the scalar code  *)
(* pads it, with nothing read behind inlen, and each output is the stream  *)
(* of its own element from its start.                                      *)
(***************************************************************************)
FourSponges == xpc = "squeeze" => \A e \in Elems :
    /\ xs[e] = SpongeOf(e, Len(xs[e]))
    /\ \A k \in 1..Len(xout[e]) :
          xout[e][k] = << SpongeOf(e, mlen \div R + 2 + (k-1) \div R), (k-1) % R >>
=============================================================================
