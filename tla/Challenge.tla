------------------------------ MODULE Challenge ------------------------------
(***************************************************************************)
(* poly_challenge of ref/poly.c and avx2/poly.c: TAU places for signs, by  *)
(* a shuffle from the bytes of a SHAKE256 stream. Nothing in sign.c calls  *)
(* it; the test programs do.                                               *)
(*                                                                         *)
(* A coefficient holds the number of the sign bit it was given (from 1), 0 *)
(* if it is zero. A byte has any value below N, the number of coefficients *)
(* and of byte values.                                                     *)
(***************************************************************************)
EXTENDS Integers, FiniteSets

CONSTANTS
    CN,         \* N
    Tau,
    SRate,      \* SHAKE256_RATE
    SignBytes,  \* 8: the bytes of the sign bits
    CMaxBlocks  \* bound: blocks squeezed

ASSUME ChallengeAssumption ==
    /\ CN \in Nat \ {0} /\ Tau \in 0..CN /\ CMaxBlocks \in Nat
    /\ SignBytes \in Nat /\ SRate \in Nat /\ SRate > SignBytes

VARIABLES
    c,      \* the polynomial
    ci,     \* i
    cpos,   \* pos
    cblocks,    \* blocks squeezed
    turns   \* history: bytes compared with i

cvars == <<c, ci, cpos, cblocks, turns>>

CInit ==
    /\ c = [k \in 0..CN-1 |-> 0]
    /\ ci = CN - Tau /\ cpos = SignBytes /\ cblocks = 1 /\ turns = 0

MustRefill == cpos >= SRate
Rejected(b) == b > ci
SignNumber == ci - (CN - Tau) + 1

\* c->coeffs[i] = c->coeffs[b]; c->coeffs[b] = the next sign; also in the
\* other order.
PlaceOver(b) == [[c EXCEPT ![b] = SignNumber] EXCEPT ![ci] = c[b]]
Place(b) == [[c EXCEPT ![ci] = c[b]] EXCEPT ![b] = SignNumber]

\* A turn of the do loop: the next byte, from a new block if this one is used up.
TryByte ==
    LET pos == IF MustRefill THEN 0 ELSE cpos
        blk == IF MustRefill THEN cblocks + 1 ELSE cblocks IN
    /\ ci < CN /\ blk <= CMaxBlocks
    /\ cpos' = pos + 1 /\ cblocks' = blk
    /\ turns' = turns + 1
    /\ \E b \in 0..CN-1 :
          IF Rejected(b) THEN UNCHANGED <<c, ci>>
          ELSE c' = Place(b) /\ ci' = ci + 1

CNext == TryByte

CSpec == CInit /\ [][CNext]_cvars
-----------------------------------------------------------------------------
Placed == ci - (CN - Tau)

(***************************************************************************)
(* After every turn each sign bit used so far stands at one place up to i, *)
(* whatever the swaps moved, so that the result has TAU coefficients that  *)
(* are not zero; every byte behind the sign bits was compared once and     *)
(* none was read behind the block.                                         *)
(***************************************************************************)
ChallengeShape ==
    /\ \A s \in 1..Placed : Cardinality({k \in 0..CN-1 : c[k] = s}) = 1
    /\ \A k \in 0..CN-1 : c[k] \in 0..Placed /\ (c[k] # 0 => k < ci)
    /\ (cblocks-1)*SRate + cpos = SignBytes + turns /\ cpos <= SRate
=============================================================================
