---------------------------- MODULE StreamSampler ----------------------------
(***************************************************************************)
(* expand_pub of ref/sign.c: the K*L polynomials of the matrix and the K   *)
(* of the public vector, sampled one after another from ONE SHAKE128       *)
(* stream by sample_uniform_poly_stream, which reads a block at a time and *)
(* keeps the one or two bytes that do not make a triple behind the block.  *)
(*                                                                         *)
(* A buffer cell holds the position in the stream of its byte; whether a   *)
(* triple is below Q is open.                                              *)
(***************************************************************************)
EXTENDS Integers, Sequences

CONSTANTS
    N,          \* coefficients per polynomial
    Polys,      \* K*L + K
    Rate,       \* STREAM128_BLOCKBYTES
    MaxBlocks   \* bound: blocks squeezed

\* The two carried bytes do not overwrite each other unless Rate % 3 = 1.
ASSUME SamplerAssumption ==
    /\ N \in Nat \ {0} /\ Polys \in Nat \ {0} /\ MaxBlocks \in Nat
    /\ Rate \in Nat /\ Rate >= 3 /\ Rate % 3 # 1

VARIABLES
    poly,       \* loop index of expand_pub
    blocks,     \* blocks squeezed from the shared state
    buf,        \* buf[STREAM128_BLOCKBYTES + 2]
    buflen,
    pos,        \* of rej_uniform_stream
    coeffs,     \* accepted triples; ctr is their number
    tries,      \* history: triples compared with Q
    pc          \* "fill" at the head of the while loop, "scan" in the callee

vars == <<poly, blocks, buf, buflen, pos, coeffs, tries, pc>>

NoByte == -1
Uninitialised == [k \in 0..Rate+1 |-> NoByte]

Init ==
    /\ poly = 0 /\ blocks = 0
    /\ buf = Uninitialised /\ buflen = 0 /\ pos = 0
    /\ coeffs = <<>> /\ tries = 0 /\ pc = "fill"

\* The carried bytes back to the front, a block behind them; also without the
\* carried bytes, as if off were 0.
FilledOver(b, off) == [k \in 0..Rate+1 |->
    IF k < Rate THEN blocks*Rate + k ELSE b[k]]
Filled(b, off) == [k \in 0..Rate+1 |->
    IF k < off THEN b[Rate + k]
    ELSE IF k < off + Rate THEN blocks*Rate + k - off
    ELSE b[k]]

Fill ==
    /\ pc = "fill" /\ Len(coeffs) < N
    /\ IF buflen < 3
       THEN /\ blocks < MaxBlocks
            /\ buf' = Filled(buf, buflen)
            /\ blocks' = blocks + 1
            /\ buflen' = buflen + Rate
       ELSE UNCHANGED <<buf, blocks, buflen>>
    /\ pos' = 0 /\ pc' = "scan"
    /\ UNCHANGED <<poly, coeffs, tries>>

\* rej_uniform_stream: its loop condition, also one byte too strict.
HasTripleStrict(p, len) == p + 3 < len
HasTriple(p, len) == p + 3 <= len

Try ==
    /\ pc = "scan" /\ Len(coeffs) < N /\ HasTriple(pos, buflen)
    /\ pos' = pos + 3 /\ tries' = tries + 1
    /\ coeffs' \in {coeffs, Append(coeffs, <<buf[pos], buf[pos+1], buf[pos+2]>>)}
    /\ UNCHANGED <<poly, blocks, buf, buflen, pc>>

\* buf[BLOCK] = buf[buflen - off], then buf[BLOCK+1] = buf[buflen - 1]; also
\* with the second one left out.
SavedOne(b, len, off) == IF off = 0 THEN b ELSE [b EXCEPT ![Rate] = b[len - off]]
Saved(b, len, off) ==
    LET first == IF off = 0 THEN b ELSE [b EXCEPT ![Rate] = b[len - off]]
    IN  IF off = 2 THEN [first EXCEPT ![Rate+1] = first[len - 1]] ELSE first

SaveTail ==
    /\ pc = "scan" /\ ~(Len(coeffs) < N /\ HasTriple(pos, buflen))
    /\ LET off == buflen - 3*(buflen \div 3)
       IN  buf' = Saved(buf, buflen, off) /\ buflen' = off
    /\ pc' = "fill"
    /\ UNCHANGED <<poly, blocks, pos, coeffs, tries>>

\* Return to expand_pub, which calls again with the same state: buf is a new
\* local and the bytes left in the old one are lost.
NextPoly ==
    /\ pc = "fill" /\ Len(coeffs) = N /\ poly < Polys - 1
    /\ poly' = poly + 1 /\ coeffs' = <<>>
    /\ buf' = Uninitialised /\ buflen' = 0
    /\ UNCHANGED <<blocks, pos, tries, pc>>

Next == Fill \/ Try \/ SaveTail \/ NextPoly

Spec == Init /\ [][Next]_vars

-----------------------------------------------------------------------------
\* The bytes used up: all that were squeezed but those still to be scanned.
Used == IF Len(coeffs) = N THEN blocks*Rate
        ELSE IF pc = "scan" THEN blocks*Rate - (buflen - pos)
        ELSE blocks*Rate - buflen

\* The end of the block in which byte f - 1 lies.
BlockEnd(f) == ((f + Rate - 1) \div Rate)*Rate

Sampling == INSTANCE RejectionSampling WITH from <- Used, Drop <- BlockEnd

\* The buffer, its carried bytes and the shared state together give each
\* polynomial consecutive triples of the one stream, from the block behind the
\* previous polynomial on (sign.c:33-58, 69-73).
ImplementsSampling == Sampling!Spec

\* Nothing is read or written outside of buf, and no byte is read from it before
\* it was squeezed.
InBuffer ==
    /\ buflen \in 0..Rate+2
    /\ pc = "scan" /\ Len(coeffs) < N =>
          \A k \in pos..buflen-1 : k \in 0..Rate+1 /\ buf[k] \in 0 .. blocks*Rate - 1
=============================================================================
