------------------------ MODULE StreamSampler_proofs ------------------------
(***************************************************************************)
(* StreamSampler implements RejectionSampling, for every number of         *)
(* coefficients and polynomials and every rate that is not 1 modulo 3.     *)
(***************************************************************************)
EXTENDS StreamSampler, SequenceTheorems, TLAPS

Triple == Int \X Int \X Int

TypeInv ==
    /\ poly \in Nat /\ blocks \in Nat /\ pos \in Nat
    /\ buflen \in 0..Rate+2
    /\ buf \in [0..Rate+1 -> Int]
    /\ coeffs \in Seq(Triple) /\ Len(coeffs) <= N
    /\ pc \in {"fill", "scan"}
    /\ buflen <= blocks*Rate

\* At the head of the loop the bytes behind the block are the next ones.
FillInv ==
    pc = "fill" =>
        /\ buflen \in 0..2
        /\ Len(coeffs) < N =>
              \A k \in 0..buflen-1 : buf[Rate + k] = blocks*Rate - buflen + k

\* In the callee buf holds the last buflen bytes of the stream, and the triples
\* have been taken from its start.
ScanInv ==
    pc = "scan" =>
        /\ buflen \in Rate..Rate+2
        /\ pos % 3 = 0 /\ pos <= buflen
        /\ Len(coeffs) < N =>
              \A k \in pos..buflen-1 : buf[k] = blocks*Rate - buflen + k

IInv == TypeInv /\ FillInv /\ ScanInv

LEMMA Constants ==
    /\ N \in Nat /\ N > 0 /\ Polys \in Nat
    /\ Rate \in Nat /\ Rate >= 3 /\ Rate % 3 # 1
BY SamplerAssumption

LEMMA Squeezed ==
    ASSUME NEW b \in Nat
    PROVE  b*Rate \in Nat /\ (b + 1)*Rate = b*Rate + Rate
BY Constants

\* The end of the block that a position less than a block before it lies in.
LEMMA BlockEndIs ==
    ASSUME NEW b \in Nat, NEW d \in 0..Rate-1, d <= b*Rate
    PROVE  BlockEnd(b*Rate - d) = b*Rate
<1>1. (b*Rate + (Rate - 1 - d)) \div Rate = b
  BY Constants
<1>2. b*Rate - d + Rate - 1 = b*Rate + (Rate - 1 - d)
  BY Constants, Squeezed
<1> QED BY <1>1, <1>2 DEF BlockEnd

LEMMA InvStart == Init => IInv
<1> SUFFICES ASSUME Init PROVE IInv
  OBVIOUS
<1> QED BY Constants, Squeezed DEF Init, IInv, TypeInv, FillInv, ScanInv, Uninitialised, NoByte

LEMMA FillStep == ASSUME IInv, Fill PROVE IInv'
<1> USE Constants
<1>1. /\ buflen \in 0..2 /\ Len(coeffs) < N
      /\ \A k \in 0..buflen-1 : buf[Rate + k] = blocks*Rate - buflen + k
  BY DEF IInv, FillInv, Fill
<1>2. /\ buf' = Filled(buf, buflen) /\ blocks' = blocks + 1 /\ buflen' = buflen + Rate
      /\ pos' = 0 /\ pc' = "scan" /\ UNCHANGED <<poly, coeffs, tries>>
  BY <1>1 DEF Fill
<1>3. blocks*Rate \in Nat /\ blocks'*Rate = blocks*Rate + Rate
  BY <1>2, Squeezed DEF IInv, TypeInv
<1>4. buf' \in [0..Rate+1 -> Int]
  <2> SUFFICES ASSUME NEW k \in 0..Rate+1 PROVE Filled(buf, buflen)[k] \in Int
    BY <1>2 DEF Filled
  <2>1. buf[k] \in Int /\ (k < buflen => buf[Rate + k] \in Int)
    BY <1>1 DEF IInv, TypeInv
  <2> QED BY <1>1, <1>3, <2>1 DEF Filled
<1>5. \A k \in 0..buflen'-1 : buf'[k] = blocks'*Rate - buflen' + k
  <2> SUFFICES ASSUME NEW k \in 0..buflen'-1
               PROVE  buf'[k] = blocks'*Rate - buflen' + k
    OBVIOUS
  <2>1. k \in 0..Rate+1
    BY <1>1, <1>2
  <2> DEFINE sq == blocks*Rate
  <2>2. sq \in Nat /\ buflen \in Nat /\ k \in Nat
    BY <1>1, <1>3, <2>1
  <2>3. blocks'*Rate - buflen' = sq - buflen
    <3>1. blocks'*Rate = sq + Rate
      BY <1>3
    <3> HIDE DEF sq
    <3> QED BY <1>2, <2>2, <3>1
  <2>4. CASE k < buflen
    <3>1. buf'[k] = buf[Rate + k]
      BY <1>2, <2>1, <2>4 DEF Filled
    <3>2. buf[Rate + k] = blocks*Rate - buflen + k
      BY <1>1, <2>1, <2>4
    <3> QED BY <2>3, <3>1, <3>2
  <2>5. CASE ~(k < buflen)
    <3>1. k < buflen + Rate
      BY <1>1, <1>2
    <3>2. buf'[k] = blocks*Rate + k - buflen
      BY <1>2, <2>1, <2>5, <3>1 DEF Filled
    <3>3. sq + k - buflen = sq - buflen + k
      <4> HIDE DEF sq
      <4> QED BY <2>2
    <3> QED BY <2>3, <3>2, <3>3
  <2> QED BY <2>4, <2>5
<1> QED BY <1>1, <1>2, <1>3, <1>4, <1>5 DEF IInv, TypeInv, FillInv, ScanInv

\* The triple that is tried is the next one of the stream.
LEMMA NextTriple ==
    ASSUME IInv, pc = "scan", Len(coeffs) < N, HasTriple(pos, buflen)
    PROVE  <<buf[pos], buf[pos+1], buf[pos+2]>> = Sampling!Candidate(Used)
<1> USE Constants
<1>1. pos \in pos..buflen-1 /\ pos+1 \in pos..buflen-1 /\ pos+2 \in pos..buflen-1
  BY DEF IInv, TypeInv, HasTriple
<1>2. Used = blocks*Rate - (buflen - pos) /\ blocks*Rate \in Nat
  BY Squeezed DEF Used, IInv, TypeInv
<1>3. /\ buf[pos] = blocks*Rate - buflen + pos
      /\ buf[pos+1] = blocks*Rate - buflen + (pos + 1)
      /\ buf[pos+2] = blocks*Rate - buflen + (pos + 2)
  BY <1>1 DEF IInv, ScanInv
<1> QED BY <1>2, <1>3 DEF Sampling!Candidate, IInv, TypeInv

LEMMA TryStep == ASSUME IInv, Try PROVE IInv'
<1> USE Constants
<1> DEFINE t == <<buf[pos], buf[pos+1], buf[pos+2]>>
<1>1. t \in Triple
  <2>1. pos \in 0..Rate+1 /\ pos+1 \in 0..Rate+1 /\ pos+2 \in 0..Rate+1
    BY DEF Try, HasTriple, IInv, TypeInv
  <2> QED BY <2>1 DEF Triple, IInv, TypeInv
<1>2. coeffs' \in Seq(Triple) /\ Len(coeffs') <= N
  <2>1. coeffs \in Seq(Triple) /\ Len(coeffs) < N /\ coeffs' \in {coeffs, Append(coeffs, t)}
    BY DEF Try, IInv, TypeInv
  <2> HIDE DEF t, Triple
  <2> QED BY <1>1, <2>1, AppendProperties, LenProperties
<1>3. /\ pos' = pos + 3 /\ pos' <= buflen /\ Len(coeffs) < N /\ pc = "scan"
      /\ UNCHANGED <<poly, blocks, buf, buflen, pc>>
  BY DEF Try, HasTriple
<1>4. pos' % 3 = 0
  BY <1>3 DEF IInv, ScanInv, TypeInv
<1>5. \A k \in pos'..buflen'-1 : buf'[k] = blocks'*Rate - buflen' + k
  BY <1>3 DEF IInv, ScanInv, TypeInv
<1> QED BY <1>2, <1>3, <1>4, <1>5 DEF IInv, TypeInv, FillInv, ScanInv

\* What is left over when no triple fits any more.
LEMMA TailIsRemainder ==
    ASSUME NEW p \in Nat, NEW len \in Nat, p % 3 = 0, p <= len, p + 3 > len
    PROVE  len - 3*(len \div 3) = len - p
OBVIOUS

LEMMA SaveTailStep == ASSUME IInv, SaveTail PROVE IInv'
<1> USE Constants
<1> DEFINE off == buflen - 3*(buflen \div 3)
<1>1. /\ pc = "scan" /\ buflen \in Rate..Rate+2 /\ pos \in Nat /\ pos <= buflen
      /\ pos % 3 = 0 /\ blocks*Rate \in Nat /\ buflen <= blocks*Rate
  BY Squeezed DEF IInv, TypeInv, ScanInv, SaveTail
<1>2. off \in 0..2 /\ (off = 2 => buflen - 1 # Rate)
  BY <1>1
<1>3. /\ buf' = Saved(buf, buflen, off) /\ buflen' = off /\ pc' = "fill"
      /\ UNCHANGED <<poly, blocks, pos, coeffs, tries>>
  BY DEF SaveTail
<1>4. buf \in [0..Rate+1 -> Int]
  BY DEF IInv, TypeInv
<1> HIDE DEF off
<1>5. /\ buf' \in [0..Rate+1 -> Int]
      /\ \A k \in 0..off-1 : buf'[Rate + k] = buf[buflen - off + k]
  <2>1. CASE off = 0
    BY <1>3, <1>4, <2>1 DEF Saved
  <2>2. CASE off = 1
    BY <1>1, <1>3, <1>4, <2>2 DEF Saved
  <2>3. CASE off = 2
    BY <1>1, <1>2, <1>3, <1>4, <2>3 DEF Saved
  <2> QED BY <1>2, <2>1, <2>2, <2>3
<1>6. Len(coeffs) < N => \A k \in 0..off-1 : buf'[Rate + k] = blocks*Rate - off + k
  <2> SUFFICES ASSUME Len(coeffs) < N, NEW k \in 0..off-1
               PROVE  buf'[Rate + k] = blocks*Rate - off + k
    OBVIOUS
  <2>1. off = buflen - pos
    BY <1>1, TailIsRemainder DEF SaveTail, HasTriple, off
  <2>2. buflen - off + k \in pos..buflen-1
    BY <1>1, <1>2, <2>1
  <2>3. buf[buflen - off + k] = blocks*Rate - buflen + (buflen - off + k)
    BY <1>1, <2>2 DEF IInv, ScanInv
  <2>4. blocks*Rate - buflen + (buflen - off + k) = blocks*Rate - off + k
    BY <1>1, <1>2
  <2>5. buf'[Rate + k] = buf[buflen - off + k]
    BY <1>5
  <2> QED BY <2>3, <2>4, <2>5
<1> QED BY <1>1, <1>2, <1>3, <1>5, <1>6 DEF IInv, TypeInv, FillInv, ScanInv

LEMMA InvStep == IInv /\ [Next]_vars => IInv'
<1> SUFFICES ASSUME IInv, [Next]_vars PROVE IInv'
  OBVIOUS
<1>1. CASE Fill
  BY <1>1, FillStep
<1>2. CASE Try
  BY <1>2, TryStep
<1>3. CASE SaveTail
  BY <1>3, SaveTailStep
<1>4. CASE NextPoly
  <2>1. blocks*Rate \in Nat
    BY Squeezed DEF IInv, TypeInv
  <2> QED BY <1>4, <2>1, Constants
          DEF NextPoly, IInv, TypeInv, FillInv, ScanInv, Uninitialised, NoByte
<1>5. CASE UNCHANGED vars
  BY <1>5 DEF vars, IInv, TypeInv, FillInv, ScanInv
<1> QED BY <1>1, <1>2, <1>3, <1>4, <1>5 DEF Next

LEMMA Invariant == Spec => []IInv
BY InvStart, InvStep, PTL DEF Spec

\* No step reads outside of buf or a byte that was not squeezed, for every rate.
THEOREM StaysInBuffer == Spec => []InBuffer
<1>1. IInv => InBuffer
  <2> USE Constants
  <2> SUFFICES ASSUME IInv PROVE InBuffer
    OBVIOUS
  <2>1. blocks*Rate \in Nat /\ buflen <= blocks*Rate /\ buflen \in 0..Rate+2 /\ pos \in Nat
    BY Squeezed DEF IInv, TypeInv
  <2> QED BY <2>1 DEF InBuffer, IInv, ScanInv
<1> QED BY <1>1, Invariant, PTL

(***************************************************************************)
(* The refinement.                                                         *)
(***************************************************************************)

LEMMA RefinesStart == Init => Sampling!Init
BY Constants, Squeezed DEF Init, Sampling!Init, Used

LEMMA TryRefines == ASSUME IInv, Try PROVE Sampling!Next
<1> USE Constants
<1> DEFINE t == <<buf[pos], buf[pos+1], buf[pos+2]>>
<1>1. /\ pc = "scan" /\ Len(coeffs) < N /\ HasTriple(pos, buflen) /\ pos' = pos + 3
      /\ tries' = tries + 1
      /\ coeffs' \in {coeffs, Append(coeffs, t)}
      /\ UNCHANGED <<poly, blocks, buf, buflen, pc>>
  BY DEF Try
<1>2. t = Sampling!Candidate(Used)
  BY <1>1, NextTriple
<1>3. /\ blocks \in Nat /\ blocks*Rate \in Nat /\ pos \in Nat /\ pos + 3 <= buflen
      /\ buflen \in Rate..Rate+2 /\ buflen <= blocks*Rate
  BY <1>1, Squeezed DEF IInv, TypeInv, ScanInv, HasTriple
<1>4. Used = blocks*Rate - (buflen - pos)
  BY <1>1 DEF Used
<1>5. coeffs \in Seq(Triple) /\ Len(coeffs) \in Nat
  BY LenProperties DEF IInv, TypeInv
<1>6. CASE coeffs' = coeffs
  <2>1. Used' = blocks*Rate - (buflen - (pos + 3))
    BY <1>1, <1>6 DEF Used
  <2> QED BY <1>1, <1>3, <1>4, <1>6, <2>1 DEF Sampling!Next, Sampling!Reject
<1>7. CASE coeffs' = Append(coeffs, t)
  <2>1. CASE Len(coeffs') = N
    <3>1. Used' = blocks*Rate
      BY <1>1, <2>1 DEF Used
    <3>2. buflen - pos - 3 \in 0..Rate-1 /\ buflen - pos - 3 <= blocks*Rate
      BY <1>3
    <3>3. BlockEnd(blocks*Rate - (buflen - pos - 3)) = blocks*Rate
      BY <1>3, <3>2, BlockEndIs
    <3>4. Used + 3 = blocks*Rate - (buflen - pos - 3)
      BY <1>3, <1>4
    <3> QED BY <1>1, <1>2, <1>7, <2>1, <3>1, <3>3, <3>4 DEF Sampling!Next, Sampling!Accept
  <2>2. CASE Len(coeffs') # N
    <3>1. Used' = blocks*Rate - (buflen - (pos + 3))
      BY <1>1, <2>2 DEF Used
    <3>2. Used' = Used + 3
      BY <1>3, <1>4, <3>1
    <3> QED BY <1>1, <1>2, <1>7, <2>2, <3>2 DEF Sampling!Next, Sampling!Accept
  <2> QED BY <2>1, <2>2
<1> QED BY <1>1, <1>6, <1>7

LEMMA FillRefines == ASSUME IInv, Fill PROVE UNCHANGED Sampling!vars
<1> USE Constants
<1>1. /\ pc = "fill" /\ buflen \in 0..2 /\ Len(coeffs) < N
      /\ blocks' = blocks + 1 /\ buflen' = buflen + Rate
      /\ pos' = 0 /\ pc' = "scan" /\ UNCHANGED <<poly, coeffs, tries>>
  BY DEF Fill, IInv, FillInv
<1>2. blocks*Rate \in Nat /\ blocks'*Rate = blocks*Rate + Rate
  BY <1>1, Squeezed DEF IInv, TypeInv
<1>3. Used = blocks*Rate - buflen /\ Used' = blocks'*Rate - (buflen' - pos')
  BY <1>1, LenProperties DEF Used, IInv, TypeInv
<1> QED BY <1>1, <1>2, <1>3 DEF Sampling!vars

LEMMA SaveTailRefines == ASSUME IInv, SaveTail PROVE UNCHANGED Sampling!vars
<1> USE Constants
<1>1. /\ pc = "scan" /\ pos \in Nat /\ pos <= buflen /\ pos % 3 = 0 /\ buflen \in Nat
      /\ buflen' = buflen - 3*(buflen \div 3) /\ pc' = "fill"
      /\ UNCHANGED <<poly, blocks, pos, coeffs, tries>>
  BY DEF IInv, TypeInv, ScanInv, SaveTail
<1>2. CASE Len(coeffs) = N
  BY <1>1, <1>2 DEF Used, Sampling!vars
<1>3. CASE Len(coeffs) # N
  <2>1. pos + 3 > buflen
    BY <1>1, <1>3, LenProperties DEF SaveTail, HasTriple, IInv, TypeInv
  <2>2. buflen' = buflen - pos
    BY <1>1, <2>1, TailIsRemainder
  <2> QED BY <1>1, <1>3, <2>2 DEF Used, Sampling!vars
<1> QED BY <1>2, <1>3

LEMMA NextPolyRefines == ASSUME IInv, NextPoly PROVE Sampling!Next
<1>1. Used = blocks*Rate /\ Used' = blocks*Rate
  <2>1. blocks*Rate \in Nat /\ N # 0 /\ Len(<<>>) = 0
    BY Squeezed, Constants DEF IInv, TypeInv
  <2> QED BY <2>1 DEF NextPoly, Used
<1> QED BY <1>1 DEF NextPoly, Sampling!Next, Sampling!NextPoly

LEMMA RefinesStep == IInv /\ [Next]_vars => [Sampling!Next]_Sampling!vars
<1> SUFFICES ASSUME IInv, [Next]_vars PROVE [Sampling!Next]_Sampling!vars
  OBVIOUS
<1>1. UNCHANGED vars => UNCHANGED Sampling!vars
  BY DEF vars, Sampling!vars, Used
<1> QED BY <1>1, TryRefines, FillRefines, SaveTailRefines, NextPolyRefines DEF Next

\* The block-wise sampler implements rejection sampling from one stream: no
\* byte is skipped, repeated or reordered by the carried bytes.
THEOREM SamplerImplements == Spec => ImplementsSampling
BY RefinesStart, RefinesStep, Invariant, PTL DEF Spec, ImplementsSampling, Sampling!Spec
=============================================================================
