------------------------ MODULE KnownAnswers_proofs ------------------------
(***************************************************************************)
(* The known-answer generator.  The output of the seed expander is its key *)
(* stream, within maxlen; the DRBG gives each request its own blocks under *)
(* successive counters; every response is the one to its request: for all  *)
(* block lengths, limits, counters, requests and file lengths.             *)
(***************************************************************************)
EXTENDS SeedExpander, CtrDrbg, KatGenerator, SequenceTheorems, WellFoundedInduction, TLAPS

(***************************************************************************)
(* SeedExpander.                                                           *)
(***************************************************************************)
(***************************************************************************)
(* The counters relate by products with BlockLen, the only arithmetic that *)
(* is not linear; the lemmas below say what is needed of it.               *)
(***************************************************************************)
LEMMA NextProduct ==
    ASSUME NEW n \in Nat, NEW q \in Nat
    PROVE  /\ n*q \in Nat /\ n*(q + 1) = n*q + n /\ n*0 = 0
  BY SMT

LEMMA Positions ==
    ASSUME NEW n \in Nat \ {0}, NEW q \in Nat, NEW p \in 0..n-1
    PROVE  /\ (n*q + p) \div n = q
           /\ (n*q + p) % n = p
  BY SMT

LEMMA LastCounter ==
    ASSUME NEW n \in Nat \ {0}, NEW m \in Nat, NEW q \in Nat, n*q < n*m
    PROVE  q < m
  BY SMT

(***************************************************************************)
(* What the context holds.  A buffer that was never filled is used up and  *)
(* nothing was given; after that, what was given is the blocks before the  *)
(* one in the buffer and the part of it before pos, and the counter is the *)
(* next one.                                                               *)
(***************************************************************************)
Types ==
    /\ remaining \in Nat /\ xlen \in Nat /\ maxlen \in 0..Limit-1
    /\ ctr \in 0..CtrMod-1 /\ buffer \in Int /\ buffer >= -1 /\ pos \in 0..BlockLen
    /\ pc \in {"none", "idle", "loop"}
    /\ given \in Seq(Int \X Int)

AtPlace ==
    IF pc = "none" THEN given = <<>>
    ELSE IF buffer = -1 THEN pos = BlockLen /\ ctr = 0 /\ given = <<>>
    ELSE Len(given) = BlockLen*buffer + pos /\ ctr = (buffer + 1) % CtrMod

XInv ==
    /\ Types /\ AtPlace
    /\ Len(given) + xlen + remaining = maxlen /\ (pc # "loop" => xlen = 0)
    /\ IsKeyStream

LEMMA Constants ==
    /\ BlockLen \in Nat \ {0} /\ Limit \in Nat \ {0} /\ CtrMod \in Nat \ {0}
    /\ Limit <= BlockLen*CtrMod /\ Requests \subseteq Nat
  BY ExpanderAssumption

\* Bytes taken from the buffer continue the key stream.
LEMMA ChunkContinues ==
    ASSUME XInv, pc # "none", NEW n \in 0..BlockLen - pos
    PROVE  /\ given \o Chunk(n) \in Seq(Int \X Int)
           /\ Len(given \o Chunk(n)) = Len(given) + n
           /\ \A k \in 1..Len(given \o Chunk(n)) :
                 (given \o Chunk(n))[k] = <<(k-1) \div BlockLen, (k-1) % BlockLen>>
<1>1. /\ buffer \in Int /\ pos \in Nat /\ given \in Seq(Int \X Int) /\ n \in Nat
      /\ BlockLen \in Nat \ {0}
  BY Constants DEF XInv, Types
<1>2. Chunk(n) \in Seq(Int \X Int) /\ Len(Chunk(n)) = n
      /\ \A k \in 1..n : Chunk(n)[k] = <<buffer, pos + k - 1>>
  <2>1. \A k \in 1..n : <<buffer, pos + k - 1>> \in Int \X Int
    BY <1>1
  <2> QED BY <1>1, <2>1 DEF Chunk
<1>3. /\ given \o Chunk(n) \in Seq(Int \X Int)
      /\ Len(given \o Chunk(n)) = Len(given) + n
      /\ \A k \in 1..Len(given) + n : (given \o Chunk(n))[k] =
            IF k <= Len(given) THEN given[k] ELSE Chunk(n)[k - Len(given)]
  BY <1>1, <1>2, ConcatProperties
<1>4. ASSUME NEW k \in 1..Len(given) + n
      PROVE  (given \o Chunk(n))[k] = <<(k-1) \div BlockLen, (k-1) % BlockLen>>
  <2>1. Len(given) \in Nat
    BY <1>1
  <2>2. CASE k <= Len(given)
    BY <1>3, <2>1, <2>2 DEF XInv, IsKeyStream
  <2>3. CASE k > Len(given)
    <3> DEFINE j == k - Len(given)
               p == pos + j - 1
    <3>1. j \in 1..n /\ p \in 0..BlockLen-1
      BY <1>1, <2>1, <2>3
    <3>2. buffer \in Nat /\ Len(given) = BlockLen*buffer + pos
      BY <1>1, <3>1 DEF XInv, AtPlace, Types
    <3>3. k - 1 = BlockLen*buffer + p
      BY <1>1, <2>1, <3>1, <3>2, NextProduct
    <3>4. (given \o Chunk(n))[k] = <<buffer, p>>
      BY <1>2, <1>3, <2>1, <2>3, <3>1
    <3>5. (BlockLen*buffer + p) \div BlockLen = buffer /\ (BlockLen*buffer + p) % BlockLen = p
      BY <1>1, <3>1, <3>2, Positions
    <3> HIDE DEF p
    <3> QED BY <3>3, <3>4, <3>5
  <2>4. k <= Len(given) \/ k > Len(given)
    BY <1>1, <2>1
  <2> QED BY <2>2, <2>3, <2>4
<1> QED BY <1>3, <1>4

LEMMA XInvStarts == Init => XInv
<1>1. <<>> \in Seq(Int \X Int) /\ Len(<<>>) = 0
  BY EmptySeq
<1> QED BY <1>1, Constants DEF Init, XInv, Types, AtPlace, IsKeyStream

LEMMA XInvStays == XInv /\ [Next]_vars => XInv'
<1> SUFFICES ASSUME XInv, [Next]_vars PROVE XInv'
  OBVIOUS
<1>1. /\ remaining \in Nat /\ xlen \in Nat /\ maxlen \in 0..Limit-1
      /\ pos \in 0..BlockLen /\ Len(given) \in Nat
      /\ Len(given) + xlen + remaining = maxlen
  BY LenProperties DEF XInv, Types
<1>2. CASE InitCtx
  <2>1. <<>> \in Seq(Int \X Int) /\ Len(<<>>) = 0
    BY EmptySeq
  <2>2. PICK m \in 0..Limit-1 : remaining' = m /\ maxlen' = m
    BY <1>2 DEF InitCtx
  <2>3. xlen = 0
    BY <1>2 DEF InitCtx, XInv
  <2> QED BY <1>1, <1>2, <2>1, <2>2, <2>3, Constants DEF InitCtx, XInv, Types, AtPlace, IsKeyStream
<1>3. CASE Request
  <2>1. PICK n \in Requests : n < remaining /\ remaining' = remaining - n /\ xlen' = n
    BY <1>1, <1>3, Constants DEF Request, TooLong
  <2>2. n \in Nat /\ xlen = 0 /\ Len(given) + xlen' + remaining' = maxlen
    BY <1>1, <1>3, <2>1, Constants DEF Request, XInv
  <2>3. Types' /\ AtPlace'
    BY <1>1, <1>3, <2>1, <2>2 DEF Request, XInv, Types, AtPlace
  <2> QED BY <1>3, <2>2, <2>3 DEF Request, XInv, IsKeyStream
<1>4. CASE RequestRefused
  BY <1>4 DEF RequestRefused, XInv, Types, AtPlace, IsKeyStream
<1>5. CASE Take
  <2>1. xlen \in 0..BlockLen - pos /\ pc # "none"
    BY <1>1, <1>5, Constants DEF Take, BufferHas
  <2>2. given' = given \o Chunk(xlen)
    BY <1>5 DEF Take
  <2>3. given' \in Seq(Int \X Int) /\ Len(given') = Len(given) + xlen /\ IsKeyStream'
    BY <2>1, <2>2, ChunkContinues DEF IsKeyStream
  <2>4. Types'
    BY <1>1, <1>5, <2>1, <2>3, Constants DEF Take, XInv, Types
  <2>5. AtPlace'
    <3>1. CASE buffer = -1
      <4>1. xlen = 0 /\ pos = BlockLen /\ given = <<>>
        BY <2>1, <3>1, Constants DEF XInv, AtPlace
      <4>2. given' = <<>>
        BY <2>3, <4>1, EmptySeq
      <4> QED BY <1>5, <3>1, <4>1, <4>2, Constants DEF Take, XInv, AtPlace
    <3>2. CASE buffer # -1
      <4>1. BlockLen*buffer \in Nat
        BY <3>2, Constants, NextProduct DEF XInv, Types
      <4>2. /\ Len(given) = BlockLen*buffer + pos /\ ctr = (buffer + 1) % CtrMod
        BY <2>1, <3>2 DEF XInv, AtPlace
      <4>3. /\ buffer' = buffer /\ ctr' = ctr /\ pos' = pos + xlen /\ pc' = "idle"
        BY <1>5 DEF Take
      <4>4. Len(given') = BlockLen*buffer + pos'
        BY <1>1, <2>1, <2>3, <4>1, <4>2, <4>3
      <4> QED BY <3>2, <4>2, <4>3, <4>4 DEF AtPlace
    <3> QED BY <3>1, <3>2
  <2>6. xlen' = 0 /\ remaining' = remaining /\ maxlen' = maxlen
    BY <1>5 DEF Take
  <2>7. Len(given') + xlen' + remaining' = maxlen'
    BY <1>1, <2>3, <2>6
  <2> QED BY <2>3, <2>4, <2>5, <2>6, <2>7 DEF XInv
<1>6. CASE Refill
  <2> DEFINE n == BlockLen - pos
  <2>1. n \in 0..BlockLen - pos /\ n \in Nat /\ n < xlen /\ pc # "none"
    BY <1>1, <1>6, Constants DEF Refill, BufferHas
  <2>2. given' = given \o Chunk(n)
    BY <1>6 DEF Refill
  <2>3. given' \in Seq(Int \X Int) /\ Len(given') = Len(given) + n /\ IsKeyStream'
    BY <2>1, <2>2, ChunkContinues DEF IsKeyStream
  <2>4. Len(given') < Limit
    BY <1>1, <2>1, <2>3, Constants
  <2>5. ctr \in Nat /\ Len(given') = BlockLen*ctr
    <3>1. CASE buffer = -1
      <4>1. pos = BlockLen /\ ctr = 0 /\ given = <<>> /\ n = 0
        BY <2>1, <3>1, Constants DEF XInv, AtPlace
      <4>2. Len(given') = 0
        BY <2>3, <4>1, EmptySeq
      <4> QED BY <4>1, <4>2, Constants, NextProduct
    <3>2. CASE buffer # -1
      <4>1. /\ buffer \in Nat /\ Len(given) = BlockLen*buffer + pos
            /\ ctr = (buffer + 1) % CtrMod
        BY <1>6, <3>2 DEF Refill, XInv, Types, AtPlace
      <4>2. Len(given') = BlockLen*(buffer + 1)
        BY <1>1, <2>3, <4>1, Constants, NextProduct
      <4>3. buffer + 1 < CtrMod
        BY <2>4, <4>1, <4>2, Constants, LastCounter
      <4>4. ctr = buffer + 1
        BY <4>1, <4>3, Constants
      <4> QED BY <4>1, <4>2, <4>4
    <3> QED BY <3>1, <3>2
  <2>6. Types'
    BY <1>1, <1>6, <2>1, <2>3, <2>5, Constants DEF Refill, XInv, Types
  <2>7. AtPlace'
    BY <1>6, <2>3, <2>5, Constants, NextProduct DEF Refill, AtPlace
  <2>8. /\ xlen' = xlen - n /\ remaining' = remaining /\ maxlen' = maxlen /\ pc' = "loop"
    BY <1>6 DEF Refill
  <2> HIDE DEF n
  <2>9. Len(given') + xlen' + remaining' = maxlen'
    <3>1. /\ Len(given') = Len(given) + n /\ Len(given) \in Nat /\ n \in Nat
          /\ xlen \in Nat /\ remaining \in Nat /\ Len(given) + xlen + remaining = maxlen
      BY <1>1, <2>1, <2>3
    <3> DEFINE before == Len(given)
               after == Len(given')
    <3> HIDE DEF before, after
    <3>2. after = before + n /\ before \in Nat /\ before + xlen + remaining = maxlen
      BY <3>1 DEF before, after
    <3>3. after + xlen' + remaining' = maxlen'
      BY <2>8, <3>1, <3>2
    <3> QED BY <3>3 DEF after
  <2> QED BY <2>3, <2>6, <2>7, <2>8, <2>9 DEF XInv
<1>7. CASE UNCHANGED vars
  BY <1>7 DEF vars, XInv, Types, AtPlace, IsKeyStream
<1> QED BY <1>2, <1>3, <1>4, <1>5, <1>6, <1>7 DEF Next

\* The bytes of all requests together are the AES key stream from counter 0 on,
\* each block used once and in order, through every partly used buffer
\* (rng.c:73-98); the bound on maxlen keeps the counter from wrapping.
THEOREM KeyStreamOnce == Spec => []IsKeyStream
<1>1. Spec => []XInv
  BY XInvStarts, XInvStays, PTL DEF Spec
<1>2. XInv => IsKeyStream
  BY DEF XInv
<1> QED BY <1>1, <1>2, PTL

\* No sequence of requests is given more than the maxlen bytes that
\* seedexpander_init allowed (rng.c:31-34, rng.c:67-70).
THEOREM NeverBeyondMaxlen == Spec => []WithinMaxlen
<1>1. Spec => []XInv
  BY XInvStarts, XInvStays, PTL DEF Spec
<1>2. XInv => WithinMaxlen
  BY LenProperties DEF XInv, Types, WithinMaxlen
<1> QED BY <1>1, <1>2, PTL

(***************************************************************************)
(* Sequences of elements of any kind.                                      *)
(***************************************************************************)
IsSequence(f) == Len(f) \in Nat /\ f = [n \in 1..Len(f) |-> f[n]]

LEMMA ElementsIn ==
    ASSUME NEW f, NEW S, IsSequence(f), \A n \in 1..Len(f) : f[n] \in S
    PROVE  f \in Seq(S)
<1>1. PICK m \in Nat : m = Len(f)
  BY DEF IsSequence
<1>2. f = [n \in 1..m |-> f[n]]
  BY <1>1 DEF IsSequence
<1>3. [n \in 1..m |-> f[n]] \in Seq(S)
  BY <1>1
<1> QED BY <1>2, <1>3

LEMMA SeqIsSequence ==
    ASSUME NEW S, NEW f \in Seq(S)
    PROVE  IsSequence(f)
  BY DEF IsSequence

LEMMA Concatenated ==
    ASSUME NEW f, NEW h, IsSequence(f), IsSequence(h)
    PROVE  /\ IsSequence(f \o h) /\ Len(f \o h) = Len(f) + Len(h)
           /\ \A n \in 1..Len(f) : (f \o h)[n] = f[n]
           /\ \A n \in 1..Len(h) : (f \o h)[Len(f) + n] = h[n]
<1>1. PICK S : S = {f[n] : n \in 1..Len(f)} \cup {h[n] : n \in 1..Len(h)}
  OBVIOUS
<1>2. f \in Seq(S) /\ h \in Seq(S)
  BY <1>1, ElementsIn
<1>3. /\ f \o h \in Seq(S) /\ Len(f \o h) = Len(f) + Len(h)
      /\ \A n \in 1..Len(f) + Len(h) : (f \o h)[n] = IF n <= Len(f) THEN f[n] ELSE h[n - Len(f)]
  BY <1>2, ConcatProperties
<1>4. Len(f) \in Nat /\ Len(h) \in Nat
  BY DEF IsSequence
<1>5. \A n \in 1..Len(f) : (f \o h)[n] = f[n]
  BY <1>3, <1>4
<1>6. ASSUME NEW n \in 1..Len(h) PROVE (f \o h)[Len(f) + n] = h[n]
  <2>1. PICK j : j = Len(f) + n
    OBVIOUS
  <2>2. j \in 1..Len(f) + Len(h) /\ ~(j <= Len(f)) /\ j - Len(f) = n
    BY <1>4, <2>1
  <2> QED BY <1>3, <2>1, <2>2
<1> QED BY <1>3, <1>5, <1>6, <1>2, SeqIsSequence

LEMMA Appended ==
    ASSUME NEW f, NEW ln, IsSequence(f)
    PROVE  Append(f, ln) = f \o <<ln>> /\ IsSequence(<<ln>>) /\ Len(<<ln>>) = 1 /\ <<ln>>[1] = ln
<1>1. PICK S : S = {f[n] : n \in 1..Len(f)} \cup {ln}
  OBVIOUS
<1>2. f \in Seq(S) /\ ln \in S
  BY <1>1, ElementsIn
<1>3. <<ln>> \in Seq(S) /\ Len(<<ln>>) = 1 /\ <<ln>>[1] = ln
  BY <1>2
<1>4. Append(f, ln) = f \o <<ln>>
  BY <1>2, <1>3, AppendIsConcat
<1> QED BY <1>3, <1>4, SeqIsSequence

(***************************************************************************)
(* Induction.  The library states it for operators, which the provers do   *)
(* not instantiate, and for sets: a set of numbers has a least one.        *)
(***************************************************************************)
LEMMA LeastNumber ==
    ASSUME NEW T, T \subseteq Nat, T # {}
    PROVE  \E n \in T : \A m \in T : n <= m
<1>1. PICK R : R = OpToRel(<, Nat)
  OBVIOUS
<1>2. IsWellFoundedOn(R, Nat)
  BY <1>1, NatLessThanWellFounded
<1>3. PICK n \in T : \A m \in T : ~(<<m, n>> \in R)
  BY <1>2, WFMin
<1>4. \A m, k \in Nat : m < k => <<m, k>> \in R
  BY <1>1 DEF OpToRel
<1>5. ASSUME NEW m \in T PROVE n <= m
  <2>1. n \in Nat /\ m \in Nat
    OBVIOUS
  <2>2. ~(m < n)
    BY <1>3, <1>4, <2>1
  <2> QED BY ONLY <2>1, <2>2
<1> QED BY <1>5

LEMMA InductionOver ==
    ASSUME NEW S, 0 \in S, \A n \in Nat : n \in S => n + 1 \in S
    PROVE  Nat \subseteq S
<1> SUFFICES ASSUME ~(Nat \subseteq S) PROVE FALSE
  OBVIOUS
<1>1. PICK T : T = Nat \ S
  OBVIOUS
<1>2. T \subseteq Nat /\ T # {}
  BY <1>1
<1>3. PICK n \in T : \A m \in T : n <= m
  BY <1>2, LeastNumber
<1>4. n \in Nat /\ n # 0
  BY <1>1
<1>5. n - 1 \in Nat /\ n - 1 \notin T /\ (n - 1) + 1 = n
  BY <1>3, <1>4
<1> QED BY <1>1, <1>5

(***************************************************************************)
(* CtrDrbg: the number a counter stands for.                               *)
(***************************************************************************)
\* Its first n bytes taken as a number, for n from 0 to m.
Prefixes(w, m, f) == f = [j \in 0..m |-> IF j = 0 THEN 0 ELSE Base*f[j-1] + w[j]]

LEMMA DrbgConstants ==
    /\ DBlock \in Nat \ {0} /\ Base \in Nat \ {0} /\ VLen \in Nat \ {0}
    /\ Lengths \subseteq Nat /\ MaxCalls \in Nat
  BY DrbgAssumption

LEMMA HasPrefixes ==
    ASSUME NEW w
    PROVE  \A m \in Nat : \E f : Prefixes(w, m, f)
<1>1. PICK S : S = {m \in Nat : \E f : Prefixes(w, m, f)}
  OBVIOUS
<1>2. 0 \in S
  <2>1. PICK f : f = [j \in 0..0 |-> 0]
    OBVIOUS
  <2>2. f = [j \in 0..0 |-> IF j = 0 THEN 0 ELSE Base*f[j-1] + w[j]]
    BY <2>1
  <2> QED BY <1>1, <2>2 DEF Prefixes
<1>3. ASSUME NEW m \in Nat, m \in S PROVE m + 1 \in S
  <2>1. PICK f : f = [j \in 0..m |-> IF j = 0 THEN 0 ELSE Base*f[j-1] + w[j]]
    BY <1>1, <1>3 DEF Prefixes
  <2>2. PICK g : g = [j \in 0..m+1 |-> IF j = m + 1 THEN Base*f[m] + w[m+1] ELSE f[j]]
    OBVIOUS
  <2>3. ASSUME NEW j \in 0..m+1
        PROVE  g[j] = IF j = 0 THEN 0 ELSE Base*g[j-1] + w[j]
    <3>1. CASE j = m + 1
      <4>1. j - 1 = m /\ m \in 0..m+1 /\ m # m + 1 /\ j # 0
        BY <3>1
      <4>2. g[j] = Base*f[m] + w[m+1] /\ g[m] = f[m]
        BY <2>2, <3>1, <4>1
      <4> QED BY <3>1, <4>1, <4>2
    <3>2. CASE j # m + 1
      <4>1. j \in 0..m /\ (j # 0 => j - 1 \in 0..m+1 /\ j - 1 # m + 1)
        BY <3>2
      <4>2. g[j] = f[j] /\ (j # 0 => g[j-1] = f[j-1])
        BY <2>2, <3>2, <4>1
      <4>3. f[j] = IF j = 0 THEN 0 ELSE Base*f[j-1] + w[j]
        BY <2>1, <4>1
      <4> QED BY <4>2, <4>3
    <3> QED BY <3>1, <3>2
  <2>4. g = [j \in 0..m+1 |-> g[j]]
    BY <2>2
  <2>5. Prefixes(w, m + 1, g)
    BY <2>3, <2>4 DEF Prefixes
  <2> QED BY <1>1, <1>3, <2>5
<1>4. Nat \subseteq S
  BY <1>2, <1>3, InductionOver
<1> QED BY <1>1, <1>4

LEMMA NumberIs ==
    ASSUME NEW w
    PROVE  \E f : Prefixes(w, VLen, f) /\ Number(w) = f[VLen]
<1>1. \E f : Prefixes(w, VLen, f)
  BY HasPrefixes, DrbgConstants
<1>2. \E f : f = [j \in 0..VLen |-> IF j = 0 THEN 0 ELSE Base*f[j-1] + w[j]]
  BY <1>1 DEF Prefixes
<1> DEFINE Sum[j \in 0..VLen] == IF j = 0 THEN 0 ELSE Base*Sum[j-1] + w[j]
<1>3. Sum = [j \in 0..VLen |-> IF j = 0 THEN 0 ELSE Base*Sum[j-1] + w[j]]
  BY <1>2
<1>4. Number(w) = Sum[VLen]
  BY DEF Number
<1> HIDE DEF Sum
<1> QED BY <1>3, <1>4 DEF Prefixes

LEMMA Increments ==
    ASSUME NEW w \in Counters
    PROVE  /\ Increment(w) \in Counters
           /\ \A j \in 1..VLen : Increment(w)[j] =
                 IF \A k \in j+1..VLen : w[k] = Base - 1 THEN (w[j] + 1) % Base ELSE w[j]
<1>1. \A j \in 1..VLen : w[j] \in 0..Base-1 /\ (w[j] + 1) % Base \in 0..Base-1
  BY DrbgConstants DEF Counters
<1> QED BY <1>1 DEF Counters, Increment

\* The first j bytes of the counter after the increment: a carry that reaches
\* them adds one, unless it runs through all of them.
LEMMA Carries ==
    ASSUME NEW w \in Counters, NEW f, NEW g,
           Prefixes(w, VLen, f), Prefixes(Increment(w), VLen, g)
    PROVE  \A j \in 0..VLen :
              /\ f[j] \in Nat
              /\ g[j] = IF \E k \in j+1..VLen : w[k] # Base - 1 THEN f[j]
                        ELSE IF \A k \in 1..j : w[k] = Base - 1 THEN 0 ELSE f[j] + 1
<1> DEFINE Carry(j) == \A k \in j+1..VLen : w[k] = Base - 1
           Full(j) == \A k \in 1..j : w[k] = Base - 1
           Right(j) == f[j] \in Nat /\ g[j] = IF ~Carry(j) THEN f[j] ELSE IF Full(j) THEN 0 ELSE f[j] + 1
<1>0. VLen \in Nat \ {0} /\ Base \in Nat \ {0}
  BY DrbgConstants
<1>1. \A j \in 0..VLen : f[j] = IF j = 0 THEN 0 ELSE Base*f[j-1] + w[j]
  BY DEF Prefixes
<1>2. \A j \in 0..VLen : g[j] = IF j = 0 THEN 0 ELSE Base*g[j-1] + Increment(w)[j]
  BY DEF Prefixes
<1>3. Right(0)
  <2>1. 0 \in 0..VLen /\ Full(0)
    BY <1>0
  <2> QED BY <1>1, <1>2, <2>1
<1>4. ASSUME NEW n \in Nat, n + 1 <= VLen, Right(n) PROVE Right(n + 1)
  <2>1. PICK j \in 1..VLen : j = n + 1
    BY <1>0, <1>4
  <2>2. j \in 0..VLen /\ j # 0 /\ j - 1 = n
    BY <1>0, <2>1
  <2>3. f[j] = Base*f[n] + w[j] /\ g[j] = Base*g[n] + Increment(w)[j]
    BY <1>1, <1>2, <2>2
  <2>4. w[j] \in 0..Base-1
    BY DEF Counters
  <2>5. Increment(w)[j] = IF Carry(j) THEN (w[j] + 1) % Base ELSE w[j]
    BY Increments
  <2>6. Carry(n) <=> Carry(j) /\ w[j] = Base - 1
    <3>1. j \in n+1..VLen /\ \A k \in n+1..VLen : k = j \/ k \in j+1..VLen
      BY <1>0, <2>1
    <3>2. \A k \in j+1..VLen : k \in n+1..VLen
      BY <1>0, <2>1
    <3> QED BY <3>1, <3>2
  <2>7. Full(j) <=> Full(n) /\ w[j] = Base - 1
    <3>1. j \in 1..j /\ \A k \in 1..j : k = j \/ k \in 1..n
      BY <2>1
    <3>2. \A k \in 1..n : k \in 1..j
      BY <2>1
    <3> QED BY <3>1, <3>2
  <2>8. PICK a, b, e, i : a = f[n] /\ b = g[n] /\ e = w[j] /\ i = Increment(w)[j]
    OBVIOUS
  <2>9. a \in Nat /\ b = IF ~Carry(n) THEN a ELSE IF Full(n) THEN 0 ELSE a + 1
    BY <1>4, <2>8
  <2>10. Base*a \in Nat /\ e \in Nat /\ Base*0 = 0 /\ Base*(a + 1) = Base*a + Base
    BY <1>0, <2>4, <2>8, <2>9
  <2> HIDE DEF Carry, Full
  <2>11. f[j] = Base*a + e /\ g[j] = Base*b + i /\ f[j] \in Nat
    BY <2>3, <2>8, <2>10
  <2>12. CASE ~Carry(j)
    <3>1. ~Carry(n) /\ i = e /\ b = a
      BY <2>5, <2>6, <2>8, <2>9, <2>12
    <3> QED BY <2>1, <2>11, <2>12, <3>1
  <2>13. CASE Carry(j) /\ e # Base - 1
    <3>1. ~Carry(n) /\ b = a /\ ~Full(j)
      BY <2>6, <2>7, <2>8, <2>9, <2>13
    <3>2. i = e + 1
      <4>1. e + 1 \in 0..Base-1
        BY <1>0, <2>4, <2>8, <2>13
      <4>2. (e + 1) % Base = e + 1
        BY <1>0, <4>1
      <4> QED BY <2>5, <2>8, <2>13, <4>2
    <3>3. Base*a + (e + 1) = (Base*a + e) + 1
      BY <2>10
    <3> QED BY <2>1, <2>11, <2>13, <3>1, <3>2, <3>3
  <2>14. CASE Carry(j) /\ e = Base - 1
    <3>1. Carry(n) /\ (Full(j) <=> Full(n))
      BY <2>6, <2>7, <2>8, <2>14
    <3>2. i = 0
      <4>1. e + 1 = Base /\ Base % Base = 0
        BY <1>0, <2>14
      <4> QED BY <2>5, <2>8, <2>14, <4>1
    <3>3. CASE Full(n)
      <4>1. b = 0 /\ g[j] = 0
        BY <2>9, <2>10, <2>11, <3>1, <3>2, <3>3
      <4> QED BY <2>1, <2>11, <2>14, <3>1, <3>3, <4>1
    <3>4. CASE ~Full(n)
      <4>1. b = a + 1
        BY <2>9, <3>1, <3>4
      <4>2. Base*b + 0 = (Base*a + e) + 1
        BY <1>0, <2>10, <2>14, <4>1
      <4> QED BY <2>1, <2>11, <2>14, <3>1, <3>2, <3>4, <4>2
    <3> QED BY <3>3, <3>4
  <2> QED BY <2>12, <2>13, <2>14
<1>5. PICK S : S = {j \in Nat : j <= VLen => Right(j)}
  OBVIOUS
<1>6. Nat \subseteq S
  <2> HIDE DEF Right
  <2>1. 0 \in S
    BY <1>3, <1>5
  <2>2. ASSUME NEW n \in Nat, n \in S PROVE n + 1 \in S
    BY <1>0, <1>4, <1>5, <2>2
  <2> QED BY <2>1, <2>2, InductionOver
<1>7. ASSUME NEW j \in 0..VLen PROVE Right(j)
  <2> HIDE DEF Right
  <2>1. j \in Nat /\ j <= VLen
    BY <1>0
  <2> QED BY <1>5, <1>6, <2>1
<1> QED BY <1>7

\* rng.c:163-170: the increment is the next number, or 0 after the highest.
LEMMA NextNumber ==
    ASSUME NEW w \in Counters
    PROVE  Number(Increment(w)) = IF w = Highest THEN 0 ELSE Number(w) + 1
<1>1. PICK f : Prefixes(w, VLen, f) /\ Number(w) = f[VLen]
  BY NumberIs
<1>2. PICK g : Prefixes(Increment(w), VLen, g) /\ Number(Increment(w)) = g[VLen]
  BY NumberIs
<1>3. VLen \in 0..VLen /\ ~(\E k \in VLen+1..VLen : w[k] # Base - 1)
  BY DrbgConstants
<1>4. g[VLen] = IF \A k \in 1..VLen : w[k] = Base - 1 THEN 0 ELSE f[VLen] + 1
  BY <1>1, <1>2, <1>3, Carries
<1>5. (\A k \in 1..VLen : w[k] = Base - 1) <=> w = Highest
  <2>1. w = [k \in 1..VLen |-> w[k]]
    BY DEF Counters
  <2> QED BY <2>1 DEF Highest
<1> QED BY <1>1, <1>2, <1>4, <1>5

(***************************************************************************)
(* CtrDrbg: what was given and what was called under the running key.      *)
(***************************************************************************)
\* The blocks n bytes take.
BlocksOf(n) == (n + DBlock - 1) \div DBlock

BytesOf(key) == \A b \in 1..Len(x) :
    x[b] = <<key, (b-1) \div DBlock + 1, ((b-1) % DBlock) + 1>>

Successive ==
    /\ calls \in Seq(Counters) /\ (calls # <<>> => calls[Len(calls)] = v)
    /\ \A k \in 1..Len(calls)-1 :
          Number(calls[k+1]) = IF calls[k] = Highest THEN 0 ELSE Number(calls[k]) + 1

DrbgTypes ==
    /\ v \in Counters /\ reseed \in Nat /\ want \in Nat /\ turn \in 0..3
    /\ at \in {"none", "idle", "fill", "update"}
    /\ IsSequence(dkey) /\ IsSequence(x)

\* A request's blocks come before the update's three.
Blocks ==
    /\ at = "none" => x = <<>>
    /\ at = "idle" /\ Len(x) > 0 =>
          \E key : BytesOf(key) /\ dkey = Append(key, BlocksOf(Len(x)))
    /\ at = "idle" => calls = <<>>
    /\ at = "fill" => /\ BytesOf(dkey) /\ (want > 0 => Len(x) = DBlock*Len(calls))
                      /\ (want = 0 => Len(calls) = BlocksOf(Len(x)))
    /\ at = "update" => BytesOf(dkey) /\ Len(calls) = BlocksOf(Len(x)) + turn

DrbgInv ==
    /\ DrbgTypes /\ Successive /\ Blocks
    /\ at # "none" => Len(dkey) = reseed + 1

LEMMA BlocksCount ==
    /\ BlocksOf(0) = 0
    /\ \A q \in Nat, n \in 1..DBlock : BlocksOf(DBlock*q + n) = q + 1
<1>1. DBlock \in Nat \ {0}
  BY DrbgConstants
<1>2. BlocksOf(0) = 0
  <2>1. DBlock - 1 \in 0..DBlock-1
    BY <1>1
  <2>2. (DBlock*0 + (DBlock - 1)) \div DBlock = 0 /\ DBlock*0 = 0
    BY <1>1, <2>1, Positions, NextProduct
  <2>3. 0 + DBlock - 1 = DBlock*0 + (DBlock - 1)
    BY <1>1, <2>2
  <2> QED BY <2>2, <2>3 DEF BlocksOf
<1>3. ASSUME NEW q \in Nat, NEW n \in 1..DBlock PROVE BlocksOf(DBlock*q + n) = q + 1
  <2>1. n - 1 \in 0..DBlock-1 /\ q + 1 \in Nat
    BY <1>1
  <2>2. (DBlock*(q + 1) + (n - 1)) \div DBlock = q + 1
    BY <1>1, <2>1, Positions
  <2>3. DBlock*(q + 1) = DBlock*q + DBlock /\ DBlock*q \in Nat
    BY <1>1, NextProduct
  <2>4. DBlock*q + n + DBlock - 1 = DBlock*(q + 1) + (n - 1)
    BY <1>1, <2>3
  <2> QED BY <2>2, <2>4 DEF BlocksOf
<1> QED BY <1>2, <1>3

\* A call under the next counter, in the loop of randombytes and of the update.
LEMMA OneMoreCall ==
    ASSUME v \in Counters, Successive, v' = Increment(v), calls' = Append(calls, v')
    PROVE  v' \in Counters /\ Successive' /\ Len(calls') = Len(calls) + 1
<1>1. v' \in Counters
  BY Increments
<1>2. PICK cs, u, w : cs = calls /\ u = v /\ w = v'
  OBVIOUS
<1>3. cs \in Seq(Counters) /\ Len(cs) \in Nat /\ w \in Counters /\ w = Increment(u) /\ u \in Counters
  BY <1>1, <1>2, LenProperties DEF Successive
<1>4. PICK ds : ds = Append(cs, w)
  OBVIOUS
<1>5. /\ ds \in Seq(Counters) /\ Len(ds) = Len(cs) + 1 /\ ds[Len(cs) + 1] = w
      /\ \A k \in 1..Len(cs) : ds[k] = cs[k]
  BY ONLY <1>3, <1>4, AppendProperties
<1>6. calls' = ds
  BY <1>2, <1>4
<1>7. ASSUME NEW k \in 1..Len(ds)-1
      PROVE  Number(ds[k+1]) = IF ds[k] = Highest THEN 0 ELSE Number(ds[k]) + 1
  <2>1. k \in 1..Len(cs)
    BY <1>3, <1>5
  <2>2. CASE k = Len(cs)
    <3>1. cs # <<>>
      BY <1>3, <2>1, <2>2
    <3>2. cs[k] = u
      BY <1>2, <2>2, <3>1 DEF Successive
    <3>3. ds[k] = u /\ ds[k+1] = Increment(u)
      BY <1>3, <1>5, <2>1, <2>2, <3>2
    <3> QED BY <1>3, <3>3, NextNumber
  <2>3. CASE k # Len(cs)
    <3>1. k \in 1..Len(cs)-1 /\ k + 1 \in 1..Len(cs)
      BY <1>3, <2>1, <2>3
    <3>2. ds[k] = cs[k] /\ ds[k+1] = cs[k+1]
      BY <1>5, <2>1, <3>1
    <3>3. Number(cs[k+1]) = IF cs[k] = Highest THEN 0 ELSE Number(cs[k]) + 1
      BY <1>2, <3>1 DEF Successive
    <3> QED BY <3>2, <3>3
  <2> QED BY <2>2, <2>3
<1>8. ds[Len(ds)] = v'
  BY <1>2, <1>5
<1>9. Successive'
  BY <1>5, <1>6, <1>7, <1>8 DEF Successive
<1> QED BY <1>1, <1>2, <1>5, <1>6, <1>9

LEMMA DrbgStart == DInit => DrbgInv
<1> SUFFICES ASSUME DInit PROVE DrbgInv
  OBVIOUS
<1>1. at = "none" /\ x = <<>> /\ dkey = <<>> /\ calls = <<>> /\ v = Zeros
      /\ reseed = 0 /\ want = 0 /\ turn = 0
  BY DEF DInit
<1>2. <<>> \in Seq(Counters) /\ Len(<<>>) = 0 /\ <<>> = [n \in 1..0 |-> <<>>[n]]
  BY EmptySeq
<1>3. Zeros \in Counters
  BY DrbgConstants DEF Zeros, Counters
<1>4. IsSequence(dkey) /\ IsSequence(x)
  BY <1>1, <1>2 DEF IsSequence
<1>5. DrbgTypes
  BY <1>1, <1>3, <1>4 DEF DrbgTypes
<1>6. Successive
  BY <1>1, <1>2 DEF Successive
<1>7. Blocks
  BY <1>1 DEF Blocks
<1> QED BY <1>1, <1>5, <1>6, <1>7 DEF DrbgInv

\* Nothing given and nothing called.
LEMMA NothingYet ==
    /\ IsSequence(<<>>) /\ Len(<<>>) = 0 /\ <<>> \in Seq(Counters)
    /\ \A k \in 1..Len(<<>>)-1 : FALSE
  BY EmptySeq DEF IsSequence

LEMMA SeedStep == DrbgInv /\ Seed => DrbgInv'
<1> SUFFICES ASSUME DrbgInv, Seed PROVE DrbgInv'
  OBVIOUS
<1>1. PICK s \in Seeds :
        /\ dkey' = <<s>> /\ v' = Zeros /\ reseed' = 0 /\ want' = 0 /\ x' = <<>>
        /\ at' = "update" /\ turn' = 0 /\ calls' = <<>>
  BY DEF Seed
<1>2. Zeros \in Counters
  BY DrbgConstants DEF Zeros, Counters
<1>3. IsSequence(<<s>>) /\ Len(<<s>>) = 1
  BY NothingYet, Appended
<1>4. DrbgTypes'
  BY <1>1, <1>2, <1>3, NothingYet DEF DrbgTypes, IsSequence
<1>5. Successive'
  BY <1>1, NothingYet DEF Successive
<1>6. Len(x') = 0 /\ Len(calls') = BlocksOf(Len(x')) + turn'
  BY <1>1, NothingYet, BlocksCount
<1>7. BytesOf(dkey)'
  BY <1>6 DEF BytesOf
<1>8. Blocks'
  BY <1>1, <1>6, <1>7 DEF Blocks, BlocksOf
<1> QED BY <1>1, <1>3, <1>4, <1>5, <1>8 DEF DrbgInv

LEMMA DCallStep == DrbgInv /\ DCall => DrbgInv'
<1> SUFFICES ASSUME DrbgInv, DCall PROVE DrbgInv'
  OBVIOUS
<1>1. PICK n \in Lengths :
        /\ at = "idle" /\ want' = n /\ x' = <<>> /\ at' = "fill" /\ dkey' = dkey /\ v' = v
        /\ reseed' = reseed /\ turn' = turn /\ calls' = calls
  BY DEF DCall
<1>2. n \in Nat /\ calls = <<>> /\ DBlock*0 = 0
  BY <1>1, DrbgConstants DEF DrbgInv, Blocks
<1>3. DrbgTypes'
  BY <1>1, <1>2, NothingYet DEF DrbgInv, DrbgTypes, IsSequence
<1>4. Successive'
  BY <1>1, <1>2, NothingYet DEF Successive
<1>5. Len(x') = 0 /\ Len(calls') = 0 /\ BlocksOf(Len(x')) = 0
  BY <1>1, <1>2, NothingYet, BlocksCount
<1>6. BytesOf(dkey)'
  BY <1>5 DEF BytesOf
<1>7. Len(x') = DBlock*Len(calls') /\ Len(calls') = BlocksOf(Len(x'))
  BY <1>2, <1>5
<1>8. Blocks'
  BY <1>1, <1>6, <1>7 DEF Blocks, BlocksOf
<1> QED BY <1>1, <1>3, <1>4, <1>8 DEF DrbgInv

LEMMA FillBlockStep == DrbgInv /\ FillBlock => DrbgInv'
<1> SUFFICES ASSUME DrbgInv, FillBlock PROVE DrbgInv'
  OBVIOUS
<1>1. /\ at = "fill" /\ want > 0 /\ v' = Increment(v) /\ calls' = Append(calls, v')
      /\ x' = x \o [b \in 1..ChunkLen(want) |-> <<dkey, Len(calls) + 1, b>>]
      /\ want' = want - ChunkLen(want)
      /\ dkey' = dkey /\ reseed' = reseed /\ at' = at /\ turn' = turn
  BY DEF FillBlock
<1>2. PICK c : c = ChunkLen(want)
  OBVIOUS
<1>3. /\ DBlock \in Nat \ {0} /\ want \in Nat /\ v \in Counters /\ Successive
      /\ IsSequence(x) /\ BytesOf(dkey) /\ Len(x) = DBlock*Len(calls) /\ IsSequence(dkey)
  BY <1>1, DrbgConstants DEF DrbgInv, DrbgTypes, Blocks
<1>4. c \in 1..DBlock /\ want' \in Nat /\ (want' > 0 => c = DBlock)
  BY <1>1, <1>2, <1>3 DEF ChunkLen
<1>5. v' \in Counters /\ Successive' /\ Len(calls') = Len(calls) + 1
  BY <1>1, <1>3, OneMoreCall
<1>6. PICK q : q = Len(calls)
  OBVIOUS
<1>7. q \in Nat /\ DBlock*q \in Nat /\ DBlock*(q + 1) = DBlock*q + DBlock
  BY <1>3, <1>6, LenProperties, NextProduct DEF Successive
<1>8. PICK h : h = [b \in 1..c |-> <<dkey, q + 1, b>>]
  OBVIOUS
<1>9. IsSequence(h) /\ Len(h) = c
  <2>1. PICK S : S = {<<dkey, q + 1, b>> : b \in 1..c}
    OBVIOUS
  <2>2. h \in Seq(S) /\ Len(h) = c
    BY <1>4, <1>8, <2>1
  <2> QED BY <2>2, SeqIsSequence
<1>10. PICK y : y = x
  OBVIOUS
<1>11. /\ IsSequence(y \o h) /\ Len(y \o h) = Len(y) + Len(h)
       /\ \A n \in 1..Len(y) : (y \o h)[n] = y[n]
       /\ \A n \in 1..Len(h) : (y \o h)[Len(y) + n] = h[n]
  <2>1. IsSequence(y) /\ IsSequence(h)
    BY <1>3, <1>9, <1>10
  <2> QED BY ONLY <2>1, Concatenated
<1>12. x' = y \o h /\ Len(y) = DBlock*q
  BY <1>1, <1>2, <1>3, <1>6, <1>8, <1>10
<1>13. /\ IsSequence(x') /\ Len(x') = DBlock*q + c
       /\ \A n \in 1..DBlock*q : x'[n] = x[n]
       /\ \A n \in 1..c : x'[DBlock*q + n] = <<dkey, q + 1, n>>
  BY <1>8, <1>9, <1>10, <1>11, <1>12
<1>14. BytesOf(dkey)'
  <2>1. ASSUME NEW b \in 1..Len(x')
        PROVE  x'[b] = <<dkey, (b-1) \div DBlock + 1, ((b-1) % DBlock) + 1>>
    <3>1. CASE b <= DBlock*q
      <4>1. b \in 1..DBlock*q /\ b \in 1..Len(x)
        BY <1>3, <1>6, <1>7, <1>13, <3>1
      <4>2. x'[b] = x[b]
        BY <1>13, <4>1
      <4> QED BY <1>3, <4>1, <4>2 DEF BytesOf
    <3>2. CASE ~(b <= DBlock*q)
      <4>1. PICK a : a = DBlock*q
        OBVIOUS
      <4>9. PICK n : n = b - a
        OBVIOUS
      <4>2. a \in Nat /\ b \in 1..a+c /\ ~(b <= a) /\ c \in 1..DBlock /\ DBlock \in Nat
        BY <1>3, <1>4, <1>7, <1>13, <3>2, <4>1
      <4>3. n \in 1..c /\ b = a + n /\ n - 1 \in 0..DBlock-1 /\ b - 1 = a + (n - 1)
        BY ONLY <4>2, <4>9
      <4>6. PICK p \in 0..DBlock-1 : p = n - 1
        BY <4>3
      <4>7. (DBlock*q + p) \div DBlock = q /\ (DBlock*q + p) % DBlock = p
        BY <1>3, <1>7, Positions
      <4>8. (b-1) \div DBlock = q /\ (b-1) % DBlock = n - 1
        BY <4>1, <4>3, <4>6, <4>7
      <4>4. (n - 1) + 1 = n
        BY <4>3
      <4>5. x'[b] = <<dkey, q + 1, n>>
        BY <1>13, <4>1, <4>3
      <4> QED BY <4>4, <4>5, <4>8
    <3> QED BY <3>1, <3>2
  <2> QED BY <1>1, <2>1 DEF BytesOf
<1>15. want' > 0 => Len(x') = DBlock*Len(calls')
  BY <1>4, <1>5, <1>6, <1>7, <1>13
<1>16. Len(calls') = BlocksOf(Len(x'))
  BY <1>4, <1>5, <1>6, <1>7, <1>13, BlocksCount
<1>17. Blocks'
  BY <1>1, <1>14, <1>15, <1>16 DEF Blocks, BlocksOf
<1>18. DrbgTypes'
  BY <1>1, <1>4, <1>5, <1>13 DEF DrbgInv, DrbgTypes, IsSequence
<1> QED BY <1>1, <1>5, <1>17, <1>18 DEF DrbgInv

LEMMA FillEndStep == DrbgInv /\ FillEnd => DrbgInv'
<1> SUFFICES ASSUME DrbgInv, FillEnd PROVE DrbgInv'
  OBVIOUS
<1>1. /\ at = "fill" /\ want = 0 /\ at' = "update" /\ turn' = 0 /\ dkey' = dkey /\ v' = v
      /\ reseed' = reseed /\ want' = want /\ x' = x /\ calls' = calls
  BY DEF FillEnd
<1>2. BytesOf(dkey) /\ Len(calls) = BlocksOf(Len(x)) /\ Successive
  BY <1>1 DEF DrbgInv, Blocks
<1>3. Len(calls) \in Nat
  BY <1>2, LenProperties DEF Successive
<1>4. BytesOf(dkey)' /\ Len(calls') = BlocksOf(Len(x')) + turn'
  BY <1>1, <1>2, <1>3 DEF BytesOf
<1>5. Blocks'
  BY <1>1, <1>4 DEF Blocks, BlocksOf
<1>6. DrbgTypes' /\ Successive'
  BY <1>1, <1>2 DEF DrbgInv, DrbgTypes, IsSequence, Successive
<1> QED BY <1>1, <1>5, <1>6 DEF DrbgInv

LEMMA UpdateTurnStep == DrbgInv /\ UpdateTurn => DrbgInv'
<1> SUFFICES ASSUME DrbgInv, UpdateTurn PROVE DrbgInv'
  OBVIOUS
<1>1. /\ at = "update" /\ turn < 3 /\ v' = Increment(v) /\ calls' = Append(calls, v')
      /\ turn' = turn + 1 /\ dkey' = dkey /\ reseed' = reseed /\ want' = want
      /\ at' = at /\ x' = x
  BY DEF UpdateTurn
<1>2. BytesOf(dkey) /\ Len(calls) = BlocksOf(Len(x)) + turn /\ Successive /\ v \in Counters
      /\ turn \in 0..3
  BY <1>1 DEF DrbgInv, Blocks, DrbgTypes
<1>3. v' \in Counters /\ Successive' /\ Len(calls') = Len(calls) + 1
  BY <1>1, <1>2, OneMoreCall
<1>4. Len(calls') = BlocksOf(Len(x')) + turn'
  <2>1. PICK n, k, t : n = BlocksOf(Len(x)) /\ k = Len(calls) /\ t = turn
    OBVIOUS
  <2>2. k = n + t /\ k \in Nat /\ t \in Nat
    BY <1>2, <2>1, LenProperties DEF Successive
  <2>3. n \in Int
    <3>1. Len(x) \in Nat /\ DBlock \in Nat \ {0}
      BY DrbgConstants DEF DrbgInv, DrbgTypes, IsSequence
    <3> QED BY <2>1, <3>1 DEF BlocksOf
  <2>4. k + 1 = n + (t + 1)
    BY <2>2, <2>3
  <2> QED BY <1>1, <1>3, <2>1, <2>4
<1>5. BytesOf(dkey)'
  BY <1>1, <1>2 DEF BytesOf
<1>6. Blocks'
  BY <1>1, <1>4, <1>5 DEF Blocks, BlocksOf
<1>7. DrbgTypes'
  BY <1>1, <1>2, <1>3 DEF DrbgInv, DrbgTypes, IsSequence
<1> QED BY <1>1, <1>3, <1>6, <1>7 DEF DrbgInv

LEMMA NewStateStep == DrbgInv /\ NewState => DrbgInv'
<1> SUFFICES ASSUME DrbgInv, NewState PROVE DrbgInv'
  OBVIOUS
<1>1. /\ at = "update" /\ turn = 3 /\ dkey' = Append(dkey, Len(calls) - 3) /\ v' \in Counters
      /\ calls' = <<>> /\ reseed' = reseed + 1 /\ at' = "idle" /\ want' = want /\ turn' = turn
      /\ x' = x
  BY DEF NewState
<1>2. /\ BytesOf(dkey) /\ Len(calls) = BlocksOf(Len(x)) + 3 /\ IsSequence(dkey)
      /\ Len(dkey) = reseed + 1 /\ reseed \in Nat
  BY <1>1 DEF DrbgInv, Blocks, DrbgTypes
<1>3. Len(calls) - 3 = BlocksOf(Len(x))
  <2>1. Len(x) \in Nat /\ DBlock \in Nat \ {0}
    BY DrbgConstants DEF DrbgInv, DrbgTypes, IsSequence
  <2>2. BlocksOf(Len(x)) \in Int
    BY <2>1 DEF BlocksOf
  <2>3. PICK n, k : n = BlocksOf(Len(x)) /\ k = Len(calls)
    OBVIOUS
  <2>4. k - 3 = n
    BY <1>2, <2>2, <2>3
  <2> QED BY <2>3, <2>4
<1>4. PICK d, n : d = dkey /\ n = BlocksOf(Len(x))
  OBVIOUS
<1>5. IsSequence(Append(d, n)) /\ Len(Append(d, n)) = Len(d) + 1
  <2>1. IsSequence(d)
    BY <1>2, <1>4
  <2>2. Append(d, n) = d \o <<n>> /\ IsSequence(<<n>>) /\ Len(<<n>>) = 1
    BY ONLY <2>1, Appended
  <2> QED BY ONLY <2>1, <2>2, Concatenated
<1>6. dkey' = Append(d, n) /\ BytesOf(d)
  BY <1>1, <1>2, <1>3, <1>4
<1>7. DrbgTypes'
  BY <1>1, <1>2, <1>5, <1>6 DEF DrbgInv, DrbgTypes, IsSequence
<1>8. Successive'
  BY <1>1, NothingYet DEF Successive
<1>9. Blocks'
  <2>1. BytesOf(d)'
    BY <1>1, <1>6 DEF BytesOf
  <2>2. dkey' = Append(d, BlocksOf(Len(x)))
    BY <1>4, <1>6
  <2>3. BlocksOf(Len(x))' = BlocksOf(Len(x))
    BY <1>1 DEF BlocksOf
  <2> QED BY <1>1, <2>1, <2>2, <2>3 DEF Blocks
<1>10. Len(dkey') = reseed' + 1
  BY <1>1, <1>2, <1>4, <1>5, <1>6
<1> QED BY <1>7, <1>8, <1>9, <1>10 DEF DrbgInv

LEMMA DrbgNextStep == DrbgInv /\ [DNext]_dvars => DrbgInv'
<1>1. DrbgInv /\ UNCHANGED dvars => DrbgInv'
  <2> SUFFICES ASSUME DrbgInv, UNCHANGED dvars PROVE DrbgInv'
    OBVIOUS
  <2>1. /\ dkey' = dkey /\ v' = v /\ reseed' = reseed /\ want' = want /\ at' = at
        /\ turn' = turn /\ x' = x /\ calls' = calls
    BY DEF dvars
  <2>2. DrbgTypes' /\ Successive'
    BY <2>1 DEF DrbgInv, DrbgTypes, IsSequence, Successive
  <2>3. \A key : BytesOf(key)' <=> BytesOf(key)
    BY <2>1 DEF BytesOf
  <2>4. BytesOf(dkey)' <=> BytesOf(dkey)
    BY <2>1 DEF BytesOf
  <2>5. Blocks'
    BY <2>1, <2>3, <2>4 DEF DrbgInv, Blocks, BlocksOf
  <2> QED BY <2>1, <2>2, <2>5 DEF DrbgInv
<1> QED BY <1>1, SeedStep, DCallStep, FillBlockStep, FillEndStep, UpdateTurnStep, NewStateStep
    DEF DNext

LEMMA DrbgGood == DrbgInv => DrbgStream
<1> SUFFICES ASSUME DrbgInv PROVE DrbgStream
  OBVIOUS
<1>1. /\ Successive /\ Blocks /\ (at = "idle" => Len(dkey) = reseed + 1)
      /\ at \in {"none", "idle", "fill", "update"} /\ Len(x) \in Nat
  BY DEF DrbgInv, DrbgTypes, IsSequence
<1>2. ASSUME NEW b \in 1..Len(x)
      PROVE  LET key == x[b][1] IN
             /\ key = x[1][1] /\ x[b] = <<key, (b-1) \div DBlock + 1, ((b-1) % DBlock) + 1>>
             /\ at = "idle" => dkey = Append(key, (Len(x) + DBlock - 1) \div DBlock)
  <2>1. Len(x) > 0 /\ 1 \in 1..Len(x) /\ (at = "none" => x = <<>>)
    BY <1>1 DEF Blocks
  <2>2. at # "none"
    BY <2>1, NothingYet
  <2>3. PICK key : BytesOf(key) /\ (at = "idle" => dkey = Append(key, BlocksOf(Len(x))))
    BY <1>1, <2>1, <2>2 DEF Blocks
  <2>4. /\ x[b] = <<key, (b-1) \div DBlock + 1, ((b-1) % DBlock) + 1>>
        /\ x[1][1] = key /\ x[b][1] = key
    BY <2>1, <2>3 DEF BytesOf
  <2> QED BY <2>3, <2>4 DEF BlocksOf
<1> QED BY <1>1, <1>2 DEF DrbgStream, Successive

\* Under one key the counter takes successive numbers, whatever bytes carry; a
\* request's bytes are those of its own blocks in order, and the key after it is
\* made of the three blocks behind them (rng.c:155-186, rng.c:191-213).
THEOREM DrbgBlocksOnce == DSpec => []DrbgStream
<1>1. DInit => DrbgInv
  BY DrbgStart
<1>2. DrbgInv /\ [DNext]_dvars => DrbgInv'
  BY DrbgNextStep
<1>3. DrbgInv => DrbgStream
  BY DrbgGood
<1> QED BY <1>1, <1>2, <1>3, PTL DEF DSpec

(***************************************************************************)
(* KatGenerator.  The files so far, line by line.                          *)
(***************************************************************************)
Labels == << "count", "seed", "mlen", "msg", "pk", "sk", "smlen", "sm" >>

\* Line i of request c; only the last line of the file may be cut.
RequestsInv ==
    /\ IsSequence(req)
    /\ \A c \in Nat : \A i \in 1..8 : 8*c + i <= Len(req) =>
          /\ req[8*c + i][1] = Labels[i] /\ (i = 1 => req[8*c + i][2] = c)
          /\ 8*c + i < Len(req) => req[8*c + i][3] = "whole"

\* Line i of the response to request c.
ResponseLine(c, i) ==
    LET seed == ReadHex(req[8*c + 2])
        msg == ReadHex(req[8*c + 4])
        key == Random(32, <<seed>>) IN
    CASE i = 1 -> <<"count", c>>
      [] i = 2 -> <<"seed", seed>>
      [] i = 3 -> <<"mlen", req[8*c + 3][2]>>
      [] i = 4 -> <<"msg", msg>>
      [] i = 5 -> <<"pk", <<"pk", key>>>>
      [] i = 6 -> <<"sk", <<"sk", key>>>>
      [] i = 7 -> <<"smlen", <<req[8*c + 3][2], "CRYPTO_BYTES">>>>
      [] i = 8 -> <<"sm", <<msg, <<"sk", key>>, Random(32, <<seed, 32>>)>>>>

\* A line of a response answers one that was found; a number cut off may have
\* been read as another.
LineOk(c, i, ln) ==
    /\ i <= 4 => 8*c + i <= Len(req)
    /\ ln = ResponseLine(c, i) \/ (i \in {1, 3} /\ Len(req) = 8*c + i)

ResponsesInv ==
    /\ IsSequence(rsp)
    /\ \A c \in Nat : \A i \in 1..8 : 8*c + i <= Len(rsp) => LineOk(c, i, rsp[8*c + i])

\* What is known of request c where its response is begun.
EntryIs(c, n) ==
    /\ DOMAIN entry = {"count", "seed", "mlen", "msg", "pk", "sk", "sm"}
    /\ n >= 2 => entry.seed = ReadHex(req[8*c + 2])
    /\ n >= 3 => entry.mlen = req[8*c + 3][2] \/ Len(req) = 8*c + 3
    /\ n >= 4 => entry.msg = ReadHex(req[8*c + 4]) /\ Len(req) >= 8*c + 4

WholeFile == \A m \in 1..Len(req) : req[m][3] = "whole"

\* n lines of response c are written.
At(c, n) == Len(rsp) = 8*c + n /\ EntryIs(c, n)

ProgressInv == \E c \in Nat :
    \/ /\ where = "request" /\ c = 0 /\ rsp = <<>> /\ from = 0 /\ Len(req) = 8*round /\ round \in Nat
       /\ WholeFile /\ DOMAIN entry = {"count", "seed", "mlen", "msg", "pk", "sk", "sm"}
    \/ /\ where = "count" /\ DOMAIN entry = {"count", "seed", "mlen", "msg", "pk", "sk", "sm"}
       /\ Len(rsp) = 8*c /\ from = (IF c = 0 THEN 0 ELSE 8*c - 4)
    \/ where = "seed" /\ At(c, 1) /\ from = 8*c + 1
    \/ where = "mlen" /\ At(c, 2) /\ from = 8*c + 2 /\ drbg = <<entry.seed>>
    \/ where = "msg" /\ At(c, 3) /\ from = 8*c + 3 /\ drbg = <<entry.seed>>
    \/ where = "keypair" /\ At(c, 4) /\ from = 8*c + 4 /\ drbg = <<entry.seed>>
    \/ /\ where = "sign" /\ At(c, 6) /\ from = 8*c + 4 /\ drbg = <<entry.seed, 32>>
       /\ entry.sk = <<"sk", Random(32, <<entry.seed>>)>>
    \/ /\ where = "open" /\ DOMAIN entry = {"count", "seed", "mlen", "msg", "pk", "sk", "sm"}
       /\ Len(rsp) = 8*(c + 1) /\ from = 8*c + 4
    \/ where = "success" /\ Len(rsp) = 8*c /\ Len(req) <= 8*c
    \/ where = "error"

KatInv == RequestsInv /\ ResponsesInv /\ ProgressInv

LEMMA KatStart == KatInit => KatInv
<1> SUFFICES ASSUME KatInit PROVE KatInv
  OBVIOUS
<1>1. /\ req = <<>> /\ rsp = <<>> /\ from = 0 /\ where = "request" /\ round = 0
      /\ DOMAIN entry = {"count", "seed", "mlen", "msg", "pk", "sk", "sm"}
  BY DEF KatInit, Blank
<1>2. Len(<<>>) = 0 /\ <<>> = [n \in 1..0 |-> <<>>[n]]
  OBVIOUS
<1>3. IsSequence(req) /\ IsSequence(rsp)
  BY <1>1, <1>2 DEF IsSequence
<1>4. \A c \in Nat : \A i \in 1..8 : ~(8*c + i <= 0)
  OBVIOUS
<1>5. RequestsInv /\ ResponsesInv
  BY <1>1, <1>2, <1>3, <1>4 DEF RequestsInv, ResponsesInv
<1>6. 0 \in Nat /\ Len(req) = 8*0 /\ WholeFile
  BY <1>1, <1>2 DEF WholeFile
<1>7. ProgressInv
  BY <1>1, <1>6 DEF ProgressInv
<1> QED BY <1>5, <1>7 DEF KatInv

LEMMA LabelsDiffer == \A i, j \in 1..8 : Labels[i] = Labels[j] => i = j
<1>1. \A i \in 1..8 : i = 1 \/ i = 2 \/ i = 3 \/ i = 4 \/ i = 5 \/ i = 6 \/ i = 7 \/ i = 8
  OBVIOUS
<1>2. /\ Labels[1] = "count" /\ Labels[2] = "seed" /\ Labels[3] = "mlen"
      /\ Labels[4] = "msg" /\ Labels[5] = "pk" /\ Labels[6] = "sk"
      /\ Labels[7] = "smlen" /\ Labels[8] = "sm"
  BY DEF Labels
<1> QED BY <1>1, <1>2

LEMMA LineNumbers ==
    /\ \A n \in Nat \ {0} : \E c \in Nat : \E i \in 1..8 : n = 8*c + i
    /\ \A c, d \in Nat : \A i, j \in 1..8 : 8*c + i = 8*d + j => c = d /\ i = j
<1>1. ASSUME NEW n \in Nat \ {0} PROVE \E c \in Nat : \E i \in 1..8 : n = 8*c + i
  <2>1. PICK c \in Nat, r \in 0..7 : n - 1 = 8*c + r
    <3>1. (n-1) \div 8 \in Nat /\ (n-1) % 8 \in 0..7 /\ n - 1 = 8*((n-1) \div 8) + ((n-1) % 8)
      OBVIOUS
    <3> QED BY <3>1
  <2>2. r + 1 \in 1..8 /\ n = 8*c + (r + 1)
    BY <2>1
  <2> QED BY <2>2
<1>2. \A c, d \in Nat : \A i, j \in 1..8 : 8*c + i = 8*d + j => c = d /\ i = j
  OBVIOUS
<1> QED BY <1>1, <1>2

\* FindMarker finds line i of request c, when what was read ends before it and
\* behind the same line of the request before.
LEMMA FindsLine ==
    ASSUME RequestsInv, NEW c \in Nat, NEW i \in 1..8, NEW k \in 1..Len(req),
           FirstOf(Labels[i], k), from \in Nat, from < 8*c + i, 8*c + i <= from + 8
    PROVE  k = 8*c + i
<1>1. Len(req) \in Nat
  BY DEF RequestsInv, IsSequence
<1>2. PICK d \in Nat, j \in 1..8 : k = 8*d + j
  <2>1. k \in Nat \ {0}
    BY <1>1
  <2> QED BY <2>1, LineNumbers
<1>3. k > from /\ k <= Len(req) /\ req[k][1] = Labels[i]
      /\ \A m \in from+1..k-1 : ~Found(Labels[i], m)
  BY DEF FirstOf, Found
<1>4. j = i
  <2>1. req[8*d + j][1] = Labels[j]
    BY <1>2, <1>3 DEF RequestsInv
  <2> QED BY <1>2, <1>3, <2>1, LabelsDiffer
<1>5. d >= c
  BY <1>2, <1>3, <1>4
<1>6. ~(d > c)
  <2> SUFFICES ASSUME d > c PROVE FALSE
    OBVIOUS
  <2>1. PICK m : m = 8*c + i
    OBVIOUS
  <2>2. m \in from+1..k-1 /\ m <= Len(req)
    BY <1>1, <1>2, <1>3, <1>4, <2>1
  <2>3. req[m][1] = Labels[i]
    BY <2>1, <2>2 DEF RequestsInv
  <2> QED BY <1>3, <2>2, <2>3 DEF Found
<1> QED BY <1>2, <1>4, <1>5, <1>6

\* Lines h written behind n lines of response c.
LEMMA RespGrows ==
    ASSUME ResponsesInv, NEW c \in Nat, NEW n \in 0..7, NEW h, IsSequence(h), n + Len(h) <= 8,
           Len(rsp) = 8*c + n, rsp' = rsp \o h, req' = req,
           \A i \in 1..Len(h) : LineOk(c, n + i, h[i])
    PROVE  ResponsesInv' /\ Len(rsp') = 8*c + n + Len(h)
<1>1. IsSequence(rsp) /\ Len(h) \in Nat
  BY DEF ResponsesInv, IsSequence
<1>2. /\ IsSequence(rsp') /\ Len(rsp') = 8*c + n + Len(h)
      /\ \A m \in 1..Len(rsp) : rsp'[m] = rsp[m]
      /\ \A m \in 1..Len(h) : rsp'[Len(rsp) + m] = h[m]
  <2>1. /\ IsSequence(rsp \o h) /\ Len(rsp \o h) = Len(rsp) + Len(h)
        /\ \A m \in 1..Len(rsp) : (rsp \o h)[m] = rsp[m]
        /\ \A m \in 1..Len(h) : (rsp \o h)[Len(rsp) + m] = h[m]
    <3>1. PICK f : f = rsp
      OBVIOUS
    <3>2. IsSequence(f) /\ IsSequence(h)
      BY <1>1, <3>1
    <3>3. /\ IsSequence(f \o h) /\ Len(f \o h) = Len(f) + Len(h)
          /\ \A m \in 1..Len(f) : (f \o h)[m] = f[m]
          /\ \A m \in 1..Len(h) : (f \o h)[Len(f) + m] = h[m]
      BY ONLY <3>2, Concatenated
    <3> QED BY <3>1, <3>3
  <2> QED BY <2>1
<1>3. ASSUME NEW d \in Nat, NEW i \in 1..8, 8*d + i <= Len(rsp')
      PROVE  LineOk(d, i, rsp'[8*d + i])
  <2>1. CASE 8*d + i <= Len(rsp)
    <3>1. 8*d + i \in 1..Len(rsp)
      BY <2>1
    <3> QED BY <1>2, <2>1, <3>1 DEF ResponsesInv
  <2>2. CASE ~(8*d + i <= Len(rsp))
    <3>1. PICK m \in Nat : m = 8*d + i - (8*c + n)
      BY <2>2
    <3>2. m \in 1..Len(h) /\ 8*d + i = 8*c + (n + m) /\ n + m \in 1..8
      BY <1>1, <1>2, <1>3, <2>2, <3>1
    <3>3. d = c /\ i = n + m
      <4>1. PICK j \in 1..8 : j = n + m
        BY <3>2
      <4>2. 8*d + i = 8*c + j
        BY <3>2, <4>1
      <4> QED BY <4>1, <4>2, LineNumbers
    <3>4. LineOk(c, n + m, rsp'[Len(rsp) + m]) /\ Len(rsp) + m = 8*d + i
      BY <1>2, <3>2
    <3> QED BY <3>3, <3>4
  <2> QED BY <2>1, <2>2
<1>4. ASSUME NEW d \in Nat, NEW i \in 1..8, 8*d + i <= Len(rsp')
      PROVE  LineOk(d, i, rsp[8*d + i])'
  <2>1. LineOk(d, i, rsp'[8*d + i])
    BY <1>3, <1>4
  <2> QED BY <2>1 DEF LineOk, ResponseLine
<1> QED BY <1>2, <1>4 DEF ResponsesInv

\* One line, as Append writes it.
LEMMA RespLine ==
    ASSUME ResponsesInv, NEW c \in Nat, NEW n \in 0..7, NEW ln,
           Len(rsp) = 8*c + n, rsp' = Append(rsp, ln), req' = req, LineOk(c, n + 1, ln)
    PROVE  ResponsesInv' /\ Len(rsp') = 8*c + (n + 1)
<1>1. rsp' = rsp \o <<ln>> /\ IsSequence(<<ln>>) /\ Len(<<ln>>) = 1 /\ <<ln>>[1] = ln
  BY Appended DEF ResponsesInv
<1>2. PICK h : h = <<ln>>
  OBVIOUS
<1>3. /\ IsSequence(h) /\ Len(h) = 1 /\ n + Len(h) <= 8 /\ rsp' = rsp \o h
      /\ \A i \in 1..Len(h) : LineOk(c, n + i, h[i])
  <2>1. IsSequence(h) /\ Len(h) = 1 /\ n + Len(h) <= 8 /\ rsp' = rsp \o h /\ h[1] = ln
    BY <1>1, <1>2
  <2>2. ASSUME NEW i \in 1..Len(h) PROVE LineOk(c, n + i, h[i])
    <3>1. i = 1
      BY <2>1
    <3> QED BY <2>1, <3>1
  <2> QED BY <2>1, <2>2
<1>4. ResponsesInv' /\ Len(rsp') = 8*c + n + Len(h)
  BY <1>3, RespGrows
<1>5. 8*c + n + 1 = 8*c + (n + 1)
  OBVIOUS
<1> QED BY <1>3, <1>4, <1>5

\* The request file is made of whole requests, each with its number.
LEMMA RequestTurnStep == KatInv /\ RequestTurn => KatInv'
<1> SUFFICES ASSUME KatInv, RequestTurn PROVE KatInv'
  OBVIOUS
<1>1. /\ where = "request" /\ where' = where /\ round' = round + 1
      /\ rsp' = rsp /\ from' = from
      /\ \E l : entry' = [entry EXCEPT !.mlen = l]
  BY DEF RequestTurn
<1>2. /\ rsp = <<>> /\ from = 0 /\ Len(req) = 8*round /\ round \in Nat /\ IsSequence(req)
      /\ WholeFile /\ DOMAIN entry = {"count", "seed", "mlen", "msg", "pk", "sk", "sm"}
  BY <1>1 DEF KatInv, ProgressInv, RequestsInv
<1>3. PICK a, b, e : req' = req \o << Whole("count", round), Whole("seed", a),
           Whole("mlen", b), Whole("msg", e), Whole("pk", "none"), Whole("sk", "none"),
           Whole("smlen", "none"), Whole("sm", "none") >>
  BY DEF RequestTurn
<1>4. PICK h : h = << Whole("count", round), Whole("seed", a),
           Whole("mlen", b), Whole("msg", e), Whole("pk", "none"), Whole("sk", "none"),
           Whole("smlen", "none"), Whole("sm", "none") >>
  OBVIOUS
<1>5. /\ IsSequence(h) /\ Len(h) = 8
      /\ \A i \in 1..8 : h[i][1] = Labels[i] /\ (i = 1 => h[i][2] = round) /\ h[i][3] = "whole"
  <2>1. Len(h) = 8 /\ h = [n \in 1..8 |-> h[n]]
    BY <1>4
  <2>2. /\ h[1] = Whole("count", round) /\ h[2] = Whole("seed", a) /\ h[3] = Whole("mlen", b)
        /\ h[4] = Whole("msg", e) /\ h[5] = Whole("pk", "none") /\ h[6] = Whole("sk", "none")
        /\ h[7] = Whole("smlen", "none") /\ h[8] = Whole("sm", "none")
    BY <1>4
  <2>6. \A l, y : Whole(l, y)[1] = l /\ Whole(l, y)[2] = y /\ Whole(l, y)[3] = "whole"
    BY DEF Whole
  <2>3. /\ Labels[1] = "count" /\ Labels[2] = "seed" /\ Labels[3] = "mlen"
        /\ Labels[4] = "msg" /\ Labels[5] = "pk" /\ Labels[6] = "sk"
        /\ Labels[7] = "smlen" /\ Labels[8] = "sm"
    BY DEF Labels
  <2>4. \A i \in 1..8 : i = 1 \/ i = 2 \/ i = 3 \/ i = 4 \/ i = 5 \/ i = 6 \/ i = 7 \/ i = 8
    OBVIOUS
  <2>5. \A i \in 1..8 : h[i][1] = Labels[i] /\ (i = 1 => h[i][2] = round) /\ h[i][3] = "whole"
    BY <2>2, <2>3, <2>4, <2>6
  <2> QED BY <2>1, <2>5 DEF IsSequence
<1>6. PICK f : f = req
  OBVIOUS
<1>7. /\ IsSequence(f \o h) /\ Len(f \o h) = Len(f) + Len(h)
      /\ \A n \in 1..Len(f) : (f \o h)[n] = f[n]
      /\ \A n \in 1..Len(h) : (f \o h)[Len(f) + n] = h[n]
  <2>1. IsSequence(f) /\ IsSequence(h)
    BY <1>2, <1>5, <1>6
  <2> QED BY ONLY <2>1, Concatenated
<1>8. /\ IsSequence(req') /\ Len(req') = 8*(round + 1)
      /\ \A n \in 1..8*round : req'[n] = req[n]
      /\ \A n \in 1..8 : req'[8*round + n] = h[n]
  <2>1. 8*round + 8 = 8*(round + 1)
    BY <1>2
  <2> QED BY <1>2, <1>3, <1>4, <1>5, <1>6, <1>7, <2>1
<1>9. ASSUME NEW c \in Nat, NEW i \in 1..8, 8*c + i <= Len(req')
      PROVE  /\ req'[8*c + i][1] = Labels[i] /\ (i = 1 => req'[8*c + i][2] = c)
             /\ 8*c + i < Len(req') => req'[8*c + i][3] = "whole"
  <2>1. CASE c < round
    <3>1. PICK m : m = 8*c + i
      OBVIOUS
    <3>2. m \in 1..8*round /\ m <= Len(req)
      BY <1>2, <2>1, <3>1
    <3>3. req'[m] = req[m]
      BY <1>8, <3>2
    <3>4. req[m][1] = Labels[i] /\ (i = 1 => req[m][2] = c) /\ req[m][3] = "whole"
      <4>1. m \in 1..Len(req)
        BY <1>2, <3>2
      <4>2. req[m][3] = "whole"
        BY <1>2, <4>1 DEF WholeFile
      <4>3. req[8*c + i][1] = Labels[i] /\ (i = 1 => req[8*c + i][2] = c)
        BY <3>1, <3>2 DEF KatInv, RequestsInv
      <4> QED BY <3>1, <4>2, <4>3
    <3> QED BY <3>1, <3>3, <3>4
  <2>2. CASE c >= round
    <3>1. 8*c + i <= 8*(round + 1)
      BY <1>8, <1>9
    <3>2. c = round
      BY <1>2, <2>2, <3>1
    <3> QED BY <1>5, <1>8, <3>2
  <2> QED BY <1>2, <2>1, <2>2
<1>10. RequestsInv'
  BY <1>8, <1>9 DEF RequestsInv
<1>11. ResponsesInv'
  <2>1. IsSequence(rsp)' /\ Len(rsp') = 0
    BY <1>1, <1>2 DEF KatInv, ResponsesInv
  <2>2. \A c \in Nat : \A i \in 1..8 : ~(8*c + i <= 0)
    OBVIOUS
  <2> QED BY <2>1, <2>2 DEF ResponsesInv
<1>12. ProgressInv'
  <2>1. 0 \in Nat /\ round' \in Nat /\ rsp' = <<>> /\ from' = 0 /\ Len(req') = 8*round'
    <3>1. round \in Nat /\ round' = round + 1 /\ Len(req') = 8*(round + 1)
      BY <1>1, <1>2, <1>8
    <3>2. rsp' = <<>> /\ from' = 0
      BY <1>1, <1>2
    <3> QED BY <3>1, <3>2
  <2>2. DOMAIN entry' = {"count", "seed", "mlen", "msg", "pk", "sk", "sm"}
    BY <1>1, <1>2
  <2>3. ASSUME NEW m \in 1..Len(req') PROVE req'[m][3] = "whole"
    <3>1. CASE m <= 8*round
      <4>1. m \in 1..8*round /\ m \in 1..Len(req)
        BY <1>2, <1>8, <3>1
      <4> QED BY <1>2, <1>8, <4>1 DEF WholeFile
    <3>2. CASE m > 8*round
      <4>1. PICK i : i = m - 8*round
        OBVIOUS
      <4>2. i \in 1..8 /\ m = 8*round + i
        BY <1>2, <1>8, <3>2, <4>1
      <4> QED BY <1>5, <1>8, <4>2
    <3> QED BY <1>2, <1>8, <3>1, <3>2
  <2>4. WholeFile'
    BY <2>3 DEF WholeFile
  <2> QED BY <1>1, <2>1, <2>2, <2>4 DEF ProgressInv
<1> QED BY <1>10, <1>11, <1>12 DEF KatInv

\* The beginning of a file.
LEMMA Beginning ==
    ASSUME NEW f, IsSequence(f), NEW n \in 0..Len(f)
    PROVE  /\ IsSequence(SubSeq(f, 1, n)) /\ Len(SubSeq(f, 1, n)) = n
           /\ \A m \in 1..n : SubSeq(f, 1, n)[m] = f[m]
<1>0. Len(f) \in Nat
  BY DEF IsSequence
<1>1. PICK S : S = {f[m] : m \in 1..Len(f)}
  OBVIOUS
<1>2. f \in Seq(S) /\ \A m \in 1..n : f[m] \in S
  BY <1>0, <1>1, ElementsIn
<1>3. /\ SubSeq(f, 1, n) \in Seq(S)
      /\ Len(SubSeq(f, 1, n)) = IF 1 <= n THEN n - 1 + 1 ELSE 0
      /\ \A m \in 1..n-1+1 : SubSeq(f, 1, n)[m] = f[1 + m - 1]
  BY <1>0, <1>2, SubSeqProperties
<1>4. Len(SubSeq(f, 1, n)) = n /\ n-1+1 = n /\ \A m \in 1..n : 1 + m - 1 = m
  BY <1>0, <1>3
<1>5. \A m \in 1..n : SubSeq(f, 1, n)[m] = f[m]
  BY <1>3, <1>4
<1> QED BY <1>3, <1>4, <1>5, SeqIsSequence

\* The file is read back up to a line n, the last of which may be cut.
LEMMA CutFile ==
    ASSUME NEW f, IsSequence(f), NEW n \in 1..Len(f), NEW ln
    PROVE  LET g == Append(SubSeq(f, 1, n-1), ln) IN
           /\ IsSequence(g) /\ Len(g) = n /\ g[n] = ln
           /\ \A m \in 1..n-1 : g[m] = f[m]
<1>0. Len(f) \in Nat /\ n-1 \in 0..Len(f) /\ n-1+1 = n
  BY DEF IsSequence
<1>1. PICK q : q = n-1
  OBVIOUS
<1>2. PICK b : b = SubSeq(f, 1, q)
  OBVIOUS
<1>3. IsSequence(b) /\ Len(b) = q /\ \A m \in 1..q : b[m] = f[m]
  BY <1>0, <1>1, <1>2, Beginning
<1>4. Append(b, ln) = b \o <<ln>> /\ IsSequence(<<ln>>) /\ Len(<<ln>>) = 1 /\ <<ln>>[1] = ln
  BY <1>3, Appended
<1>5. PICK h : h = <<ln>>
  OBVIOUS
<1>6. IsSequence(h) /\ Len(h) = 1 /\ h[1] = ln /\ 1 \in 1..Len(h)
  BY <1>4, <1>5
<1>7. /\ IsSequence(b \o h) /\ Len(b \o h) = Len(b) + Len(h)
      /\ \A m \in 1..Len(b) : (b \o h)[m] = b[m]
      /\ \A m \in 1..Len(h) : (b \o h)[Len(b) + m] = h[m]
  <2>1. IsSequence(b) /\ IsSequence(h)
    BY <1>3, <1>6
  <2> QED BY ONLY <2>1, Concatenated
<1>8. PICK g : g = Append(b, ln)
  OBVIOUS
<1>9. g = b \o h
  BY <1>4, <1>5, <1>8
<1>10. /\ IsSequence(g) /\ Len(g) = q + 1 /\ g[q + 1] = ln
       /\ \A m \in 1..q : g[m] = f[m]
  BY <1>3, <1>6, <1>7, <1>9
<1> QED BY <1>0, <1>1, <1>2, <1>8, <1>10

LEMMA ReopenStep == KatInv /\ Reopen => KatInv'
<1> SUFFICES ASSUME KatInv, Reopen PROVE KatInv'
  OBVIOUS
<1>1. PICK n \in 0..Len(req) :
         \/ req' = SubSeq(req, 1, n)
         \/ \E ln : /\ n > 0 /\ req' = Append(SubSeq(req, 1, n-1), ln)
                    /\ ln[1] = req[n][1] /\ ln[2] = req[n][2]
  BY DEF Reopen, Cut
<1>2. where = "request" /\ where' = "count" /\ rsp' = rsp /\ from' = from /\ entry' = entry
  BY DEF Reopen
<1>3. /\ rsp = <<>> /\ from = 0 /\ IsSequence(req) /\ Len(req) \in Nat /\ WholeFile
      /\ DOMAIN entry = {"count", "seed", "mlen", "msg", "pk", "sk", "sm"}
  BY <1>2 DEF KatInv, ProgressInv, RequestsInv, IsSequence
<1>4. /\ IsSequence(req') /\ Len(req') = n
      /\ \A m \in 1..n : /\ req'[m][1] = req[m][1] /\ req'[m][2] = req[m][2]
                         /\ m < n => req'[m] = req[m]
  <2>1. CASE req' = SubSeq(req, 1, n)
    <3>1. /\ IsSequence(SubSeq(req, 1, n)) /\ Len(SubSeq(req, 1, n)) = n
          /\ \A m \in 1..n : SubSeq(req, 1, n)[m] = req[m]
      BY <1>3, Beginning
    <3> QED BY <2>1, <3>1
  <2>2. CASE \E ln : /\ n > 0 /\ req' = Append(SubSeq(req, 1, n-1), ln)
                     /\ ln[1] = req[n][1] /\ ln[2] = req[n][2]
    <3>1. PICK ln : /\ n > 0 /\ req' = Append(SubSeq(req, 1, n-1), ln)
                    /\ ln[1] = req[n][1] /\ ln[2] = req[n][2]
      BY <2>2
    <3>2. n \in 1..Len(req)
      BY <1>3, <3>1
    <3>3. /\ IsSequence(req') /\ Len(req') = n /\ req'[n] = ln
          /\ \A m \in 1..n-1 : req'[m] = req[m]
      BY <1>3, <3>1, <3>2, CutFile
    <3>4. \A m \in 1..n : m = n \/ m \in 1..n-1
      BY <3>2
    <3> QED BY <3>1, <3>3, <3>4
  <2> QED BY <1>1, <2>1, <2>2
<1>5. RequestsInv'
  <2>1. \A c \in Nat : \A i \in 1..8 : 8*c + i <= n => 8*c + i \in 1..n /\ 8*c + i <= Len(req)
    BY <1>3
  <2>2. ASSUME NEW c \in Nat, NEW i \in 1..8, 8*c + i <= n
        PROVE  /\ req'[8*c + i][1] = Labels[i] /\ (i = 1 => req'[8*c + i][2] = c)
               /\ 8*c + i < n => req'[8*c + i][3] = "whole"
    <3>1. PICK m : m = 8*c + i
      OBVIOUS
    <3>2. m \in 1..n /\ m <= Len(req) /\ m \in 1..Len(req)
      BY <1>3, <2>1, <2>2, <3>1
    <3>3. /\ req'[m][1] = req[m][1] /\ req'[m][2] = req[m][2]
          /\ m < n => req'[m] = req[m]
      BY <1>4, <3>2
    <3>4. req[m][1] = Labels[i] /\ (i = 1 => req[m][2] = c) /\ req[m][3] = "whole"
      <4>1. req[m][3] = "whole"
        BY <1>3, <3>2 DEF WholeFile
      <4>2. req[8*c + i][1] = Labels[i] /\ (i = 1 => req[8*c + i][2] = c)
        BY <3>1, <3>2 DEF KatInv, RequestsInv
      <4> QED BY <3>1, <4>1, <4>2
    <3> QED BY <3>1, <3>3, <3>4
  <2> QED BY <1>4, <2>2 DEF RequestsInv
<1>6. ResponsesInv'
  <2>1. IsSequence(rsp)' /\ Len(rsp') = 0
    BY <1>2, <1>3 DEF KatInv, ResponsesInv
  <2>2. \A c \in Nat : \A i \in 1..8 : ~(8*c + i <= 0)
    OBVIOUS
  <2> QED BY <2>1, <2>2 DEF ResponsesInv
<1>7. ProgressInv'
  <2>1. 0 \in Nat /\ Len(rsp') = 8*0 /\ from' = (IF 0 = 0 THEN 0 ELSE 8*0 - 4)
    BY <1>2, <1>3
  <2> QED BY <1>2, <1>3, <2>1 DEF ProgressInv
<1> QED BY <1>5, <1>6, <1>7 DEF KatInv

\* A number is read as it was written, but at the very end of the file.
LEMMA NumberRead ==
    ASSUME RequestsInv, NEW c \in Nat, NEW i \in 1..8, 8*c + i <= Len(req),
           NEW kept, NEW num \in Numbers(req[8*c + i], kept)
    PROVE  num = req[8*c + i][2] \/ Len(req) = 8*c + i
<1> SUFFICES ASSUME Len(req) # 8*c + i PROVE num = req[8*c + i][2]
  OBVIOUS
<1>1. Len(req) \in Nat
  BY DEF RequestsInv, IsSequence
<1>2. 8*c + i < Len(req)
  BY <1>1
<1>3. req[8*c + i][3] = "whole"
  BY <1>2 DEF RequestsInv
<1> QED BY <1>3 DEF Numbers

LEMMA ReadCountStep == KatInv /\ ReadCount => KatInv'
<1> SUFFICES ASSUME KatInv, ReadCount PROVE KatInv'
  OBVIOUS
<1>1. PICK k \in 1..Len(req) :
        /\ where = "count" /\ FirstOf("count", k)
        /\ from' = k /\ where' = "seed" /\ req' = req
        /\ \E num \in Numbers(req[k], entry.count) : /\ entry' = [entry EXCEPT !.count = num]
                                                    /\ rsp' = Append(rsp, <<"count", num>>)
  BY DEF ReadCount, Line
<1>x. PICK num \in Numbers(req[k], entry.count) : /\ entry' = [entry EXCEPT !.count = num]
                                                  /\ rsp' = Append(rsp, <<"count", num>>)
  BY <1>1
<1>2. PICK c \in Nat : /\ Len(rsp) = 8*c /\ from = (IF c = 0 THEN 0 ELSE 8*c - 4)
                       /\ DOMAIN entry = {"count", "seed", "mlen", "msg", "pk", "sk", "sm"}
  BY <1>1 DEF KatInv, ProgressInv
<1>3. k = 8*c + 1
  <2>1. "count" = Labels[1]
    BY DEF Labels
  <2>2. from \in Nat /\ from < 8*c + 1 /\ 8*c + 1 <= from + 8
    BY <1>2
  <2> QED BY <1>1, <2>1, <2>2, FindsLine DEF KatInv
<1>4. 8*c + 1 <= Len(req) /\ (num = c \/ Len(req) = 8*c + 1)
  <2>1. k <= Len(req)
    BY <1>1, <1>3 DEF KatInv, RequestsInv, IsSequence
  <2>2. req[8*c + 1][2] = c
    BY <1>3, <2>1 DEF KatInv, RequestsInv
  <2>3. num = req[8*c + 1][2] \/ Len(req) = 8*c + 1
    <3>1. 1 \in 1..8 /\ 8*c + 1 <= Len(req)
      BY <1>3, <2>1
    <3>2. num \in Numbers(req[8*c + 1], entry.count)
      BY <1>3, <1>x
    <3>3. RequestsInv
      BY DEF KatInv
    <3> QED BY ONLY <3>1, <3>2, <3>3, c \in Nat, NumberRead
  <2> QED BY <1>3, <2>1, <2>2, <2>3
<1>5. ResponsesInv' /\ Len(rsp') = 8*c + 1
  <2>1. PICK ln : ln = <<"count", num>>
    OBVIOUS
  <2>2. ResponseLine(c, 1) = <<"count", c>>
    BY DEF ResponseLine
  <2>3. LineOk(c, 0 + 1, ln) /\ Len(rsp) = 8*c + 0 /\ 8*c + (0 + 1) = 8*c + 1
    BY <1>2, <1>4, <2>1, <2>2 DEF LineOk
  <2> QED BY <1>1, <1>x, <2>1, <2>3, RespLine DEF KatInv
<1>6. DOMAIN entry' = {"count", "seed", "mlen", "msg", "pk", "sk", "sm"}
  BY <1>2, <1>x
<1>7. At(c, 1)'
  BY <1>5, <1>6 DEF At, EntryIs
<1>8. ProgressInv'
  BY <1>1, <1>3, <1>7 DEF ProgressInv
<1> QED BY <1>1, <1>5, <1>8 DEF KatInv, RequestsInv

LEMMA ReadSeedStep == KatInv /\ ReadSeed => KatInv'
<1> SUFFICES ASSUME KatInv, ReadSeed PROVE KatInv'
  OBVIOUS
<1>1. PICK k \in 1..Len(req) :
        /\ where = "seed" /\ FirstOf("seed", k)
        /\ from' = k /\ entry' = [entry EXCEPT !.seed = ReadHex(req[k])]
        /\ rsp' = Append(rsp, <<"seed", ReadHex(req[k])>>) /\ drbg' = <<ReadHex(req[k])>>
        /\ where' = "mlen" /\ req' = req
  BY DEF ReadSeed, Line, Seeded
<1>2. PICK c \in Nat : At(c, 1) /\ from = 8*c + 1
  BY <1>1 DEF KatInv, ProgressInv
<1>3. k = 8*c + 2
  <2>1. "seed" = Labels[2]
    BY DEF Labels
  <2>2. from \in Nat /\ from < 8*c + 2 /\ 8*c + 2 <= from + 8
    BY <1>2
  <2> QED BY <1>1, <2>1, <2>2, FindsLine DEF KatInv
<1>4. ResponsesInv' /\ Len(rsp') = 8*c + 2
  <2>1. PICK ln : ln = <<"seed", ReadHex(req[k])>>
    OBVIOUS
  <2>2. 8*c + 2 <= Len(req)
    BY <1>1, <1>3 DEF KatInv, RequestsInv, IsSequence
  <2>3. ResponseLine(c, 2) = ln
    BY <1>3, <2>1 DEF ResponseLine
  <2>4. LineOk(c, 1 + 1, ln) /\ Len(rsp) = 8*c + 1 /\ 8*c + (1 + 1) = 8*c + 2
    BY <1>2, <2>2, <2>3 DEF LineOk, At
  <2> QED BY <1>1, <2>1, <2>4, RespLine DEF KatInv
<1>5. DOMAIN entry = {"count", "seed", "mlen", "msg", "pk", "sk", "sm"}
  BY <1>2 DEF At, EntryIs
<1>6. /\ DOMAIN entry' = {"count", "seed", "mlen", "msg", "pk", "sk", "sm"}
      /\ entry'.seed = ReadHex(req[8*c + 2]) /\ drbg' = <<entry'.seed>>
  BY <1>1, <1>3, <1>5
<1>7. At(c, 2)'
  BY <1>1, <1>4, <1>6 DEF At, EntryIs
<1>8. ProgressInv'
  BY <1>1, <1>3, <1>6, <1>7 DEF ProgressInv
<1> QED BY <1>1, <1>4, <1>8 DEF KatInv, RequestsInv

LEMMA ReadMlenStep == KatInv /\ ReadMlen => KatInv'
<1> SUFFICES ASSUME KatInv, ReadMlen PROVE KatInv'
  OBVIOUS
<1>1. PICK k \in 1..Len(req) :
        /\ where = "mlen" /\ FirstOf("mlen", k)
        /\ from' = k /\ where' = "msg" /\ req' = req /\ drbg' = drbg
        /\ \E num \in Numbers(req[k], entry.mlen) : /\ entry' = [entry EXCEPT !.mlen = num]
                                                   /\ rsp' = Append(rsp, <<"mlen", num>>)
  BY DEF ReadMlen, Line
<1>x. PICK num \in Numbers(req[k], entry.mlen) : /\ entry' = [entry EXCEPT !.mlen = num]
                                                 /\ rsp' = Append(rsp, <<"mlen", num>>)
  BY <1>1
<1>2. PICK c \in Nat : At(c, 2) /\ from = 8*c + 2 /\ drbg = <<entry.seed>>
  BY <1>1 DEF KatInv, ProgressInv
<1>3. k = 8*c + 3
  <2>1. "mlen" = Labels[3]
    BY DEF Labels
  <2>2. from \in Nat /\ from < 8*c + 3 /\ 8*c + 3 <= from + 8
    BY <1>2
  <2> QED BY <1>1, <2>1, <2>2, FindsLine DEF KatInv
<1>9. 8*c + 3 <= Len(req) /\ (num = req[8*c + 3][2] \/ Len(req) = 8*c + 3)
  <2>1. k <= Len(req)
    BY <1>1, <1>3 DEF KatInv, RequestsInv, IsSequence
  <2>2. num = req[8*c + 3][2] \/ Len(req) = 8*c + 3
    <3>1. 3 \in 1..8 /\ 8*c + 3 <= Len(req)
      BY <1>3, <2>1
    <3>2. num \in Numbers(req[8*c + 3], entry.mlen)
      BY <1>3, <1>x
    <3>3. RequestsInv
      BY DEF KatInv
    <3> QED BY ONLY <3>1, <3>2, <3>3, c \in Nat, NumberRead
  <2> QED BY <1>3, <2>1, <2>2
<1>4. ResponsesInv' /\ Len(rsp') = 8*c + 3
  <2>1. PICK ln : ln = <<"mlen", num>>
    OBVIOUS
  <2>2. ResponseLine(c, 3) = <<"mlen", req[8*c + 3][2]>>
    BY DEF ResponseLine
  <2>3. LineOk(c, 2 + 1, ln) /\ Len(rsp) = 8*c + 2 /\ 8*c + (2 + 1) = 8*c + 3
    BY <1>2, <1>9, <2>1, <2>2 DEF LineOk, At
  <2> QED BY <1>1, <1>x, <2>1, <2>3, RespLine DEF KatInv
<1>5. DOMAIN entry = {"count", "seed", "mlen", "msg", "pk", "sk", "sm"}
      /\ entry.seed = ReadHex(req[8*c + 2])
  BY <1>2 DEF At, EntryIs
<1>6. /\ DOMAIN entry' = {"count", "seed", "mlen", "msg", "pk", "sk", "sm"}
      /\ entry'.seed = entry.seed /\ entry'.mlen = num /\ drbg' = <<entry'.seed>>
  BY <1>1, <1>x, <1>2, <1>3, <1>5
<1>7. At(c, 3)'
  BY <1>1, <1>4, <1>5, <1>6, <1>9 DEF At, EntryIs
<1>8. ProgressInv'
  BY <1>1, <1>3, <1>6, <1>7 DEF ProgressInv
<1> QED BY <1>1, <1>4, <1>8 DEF KatInv, RequestsInv

LEMMA ReadMsgStep == KatInv /\ ReadMsg => KatInv'
<1> SUFFICES ASSUME KatInv, ReadMsg PROVE KatInv'
  OBVIOUS
<1>1. PICK k \in 1..Len(req) :
        /\ where = "msg" /\ FirstOf("msg", k)
        /\ from' = k /\ entry' = [entry EXCEPT !.msg = ReadHex(req[k])]
        /\ rsp' = Append(rsp, <<"msg", ReadHex(req[k])>>)
        /\ where' = "keypair" /\ req' = req /\ drbg' = drbg
  BY DEF ReadMsg, Line
<1>2. PICK c \in Nat : At(c, 3) /\ from = 8*c + 3 /\ drbg = <<entry.seed>>
  BY <1>1 DEF KatInv, ProgressInv
<1>3. k = 8*c + 4
  <2>1. "msg" = Labels[4]
    BY DEF Labels
  <2>2. from \in Nat /\ from < 8*c + 4 /\ 8*c + 4 <= from + 8
    BY <1>2
  <2> QED BY <1>1, <2>1, <2>2, FindsLine DEF KatInv
<1>4. ResponsesInv' /\ Len(rsp') = 8*c + 4
  <2>1. PICK ln : ln = <<"msg", ReadHex(req[k])>>
    OBVIOUS
  <2>2. 8*c + 4 <= Len(req)
    BY <1>1, <1>3 DEF KatInv, RequestsInv, IsSequence
  <2>3. ResponseLine(c, 4) = ln
    BY <1>3, <2>1 DEF ResponseLine
  <2>4. LineOk(c, 3 + 1, ln) /\ Len(rsp) = 8*c + 3 /\ 8*c + (3 + 1) = 8*c + 4
    BY <1>2, <2>2, <2>3 DEF LineOk, At
  <2> QED BY <1>1, <2>1, <2>4, RespLine DEF KatInv
<1>5. /\ DOMAIN entry = {"count", "seed", "mlen", "msg", "pk", "sk", "sm"}
      /\ entry.seed = ReadHex(req[8*c + 2])
      /\ entry.mlen = req[8*c + 3][2] \/ Len(req) = 8*c + 3
  BY <1>2 DEF At, EntryIs
<1>9. 8*c + 4 <= Len(req)
  BY <1>1, <1>3 DEF KatInv, RequestsInv, IsSequence
<1>6. /\ DOMAIN entry' = {"count", "seed", "mlen", "msg", "pk", "sk", "sm"}
      /\ entry'.seed = entry.seed /\ entry'.mlen = entry.mlen
      /\ entry'.msg = ReadHex(req[8*c + 4]) /\ drbg' = <<entry'.seed>>
  BY <1>1, <1>2, <1>3, <1>5
<1>7. At(c, 4)'
  BY <1>1, <1>4, <1>5, <1>6, <1>9 DEF At, EntryIs
<1>8. ProgressInv'
  BY <1>1, <1>3, <1>6, <1>7 DEF ProgressInv
<1> QED BY <1>1, <1>4, <1>8 DEF KatInv, RequestsInv

\* A step that writes neither file.
LEMMA FilesStand ==
    ASSUME RequestsInv, ResponsesInv, req' = req, rsp' = rsp
    PROVE  RequestsInv' /\ ResponsesInv'
<1>1. RequestsInv'
  BY DEF RequestsInv, IsSequence
<1>2. IsSequence(rsp)' /\ Len(rsp') = Len(rsp)
  BY DEF ResponsesInv, IsSequence
<1>3. ASSUME NEW c \in Nat, NEW i \in 1..8, 8*c + i <= Len(rsp')
      PROVE  LineOk(c, i, rsp[8*c + i])'
  <2>1. LineOk(c, i, rsp[8*c + i])
    BY <1>2, <1>3 DEF ResponsesInv
  <2> QED BY <2>1 DEF LineOk, ResponseLine
<1>4. ResponsesInv'
  BY <1>2, <1>3 DEF ResponsesInv
<1> QED BY <1>1, <1>4

LEMMA TwoLengths == \A d : Append(<<d>>, 32) = <<d, 32>>
<1> TAKE d
<1>1. PICK S : S = {d, 32}
  OBVIOUS
<1>2. <<d>> \in Seq(S) /\ 32 \in S /\ Len(<<d>>) = 1 /\ <<d>>[1] = d
  BY <1>1
<1>3. PICK t : t = Append(<<d>>, 32)
  OBVIOUS
<1>4. t \in Seq(S) /\ Len(t) = 2 /\ t[1] = d /\ t[2] = 32
  BY <1>2, <1>3, AppendProperties
<1>5. t = <<d, 32>>
  BY <1>4
<1> QED BY <1>3, <1>5

\* The end of the file: whatever a request lacks, no whole one is left.
LEMMA NoCountStep == KatInv /\ NoCount => KatInv'
<1> SUFFICES ASSUME KatInv, NoCount PROVE KatInv'
  OBVIOUS
<1>1. /\ where = "count" /\ where' = "success" /\ Missing("count")
      /\ req' = req /\ rsp' = rsp
  BY DEF NoCount
<1>2. PICK c \in Nat : Len(rsp) = 8*c /\ from = (IF c = 0 THEN 0 ELSE 8*c - 4)
  BY <1>1 DEF KatInv, ProgressInv
<1>3. Len(req) <= 8*c
  <2> SUFFICES ASSUME ~(Len(req) <= 8*c) PROVE FALSE
    OBVIOUS
  <2>1. PICK m : m = 8*c + 1
    OBVIOUS
  <2>2. Len(req) \in Nat
    BY DEF KatInv, RequestsInv, IsSequence
  <2>3. m \in 1..Len(req) /\ m <= Len(req) /\ m > from
    BY <1>2, <2>1, <2>2
  <2>4. req[m][1] = Labels[1]
    <3>1. 1 \in 1..8
      OBVIOUS
    <3> QED BY <2>1, <2>3, <3>1 DEF KatInv, RequestsInv
  <2>5. Labels[1] = "count"
    BY DEF Labels
  <2>6. Found("count", m)
    BY <2>3, <2>4, <2>5 DEF Found
  <2> QED BY <1>1, <2>3, <2>6 DEF Missing
<1>4. ProgressInv'
  BY <1>1, <1>2, <1>3 DEF ProgressInv
<1> QED BY <1>1, <1>4, FilesStand DEF KatInv

LEMMA DataErrorStep == KatInv /\ DataError => KatInv'
<1> SUFFICES ASSUME KatInv, DataError PROVE KatInv'
  OBVIOUS
<1>1. where' = "error" /\ req' = req /\ rsp' = rsp
  BY DEF DataError
<1>2. ProgressInv'
  BY <1>1 DEF KatInv, ProgressInv
<1> QED BY <1>1, <1>2, FilesStand DEF KatInv

LEMMA KeyPairLinesStep == KatInv /\ KeyPairLines => KatInv'
<1> SUFFICES ASSUME KatInv, KeyPairLines PROVE KatInv'
  OBVIOUS
<1>1. /\ where = "keypair" /\ where' = "sign" /\ req' = req /\ from' = from
      /\ drbg' = Append(drbg, 32)
      /\ entry' = [entry EXCEPT !.pk = <<"pk", Random(32, drbg)>>, !.sk = <<"sk", Random(32, drbg)>>]
      /\ rsp' = rsp \o << <<"pk", entry'.pk>>, <<"sk", entry'.sk>> >>
  BY DEF KeyPairLines
<1>2. PICK c \in Nat : At(c, 4) /\ from = 8*c + 4 /\ drbg = <<entry.seed>>
  BY <1>1 DEF KatInv, ProgressInv
<1>3. /\ DOMAIN entry = {"count", "seed", "mlen", "msg", "pk", "sk", "sm"}
      /\ entry.seed = ReadHex(req[8*c + 2]) /\ entry.mlen = req[8*c + 3][2]
      /\ entry.msg = ReadHex(req[8*c + 4]) /\ Len(rsp) = 8*c + 4 /\ Len(req) >= 8*c + 4
  <2>1. Len(req) \in Nat /\ Len(req) >= 8*c + 4
    BY <1>2 DEF At, EntryIs, KatInv, RequestsInv, IsSequence
  <2>2. Len(req) # 8*c + 3
    BY <2>1
  <2> QED BY <1>2, <2>1, <2>2 DEF At, EntryIs
<1>4. PICK e : e = entry
  OBVIOUS
<1>5. PICK p, s : p = <<"pk", Random(32, drbg)>> /\ s = <<"sk", Random(32, drbg)>>
  OBVIOUS
<1>6. /\ DOMAIN entry' = {"count", "seed", "mlen", "msg", "pk", "sk", "sm"}
      /\ entry'.seed = entry.seed /\ entry'.mlen = entry.mlen /\ entry'.msg = entry.msg
      /\ entry'.pk = p /\ entry'.sk = s
  BY <1>1, <1>3, <1>5
<1>7. drbg' = <<entry'.seed, 32>>
  <2>1. PICK d : d = entry.seed
    OBVIOUS
  <2>2. Append(<<d>>, 32) = <<d, 32>>
    BY TwoLengths
  <2> QED BY <1>1, <1>2, <1>6, <2>1, <2>2
<1>8. ResponsesInv' /\ Len(rsp') = 8*c + 6
  <2>1. PICK h : h = << <<"pk", p>>, <<"sk", s>> >>
    OBVIOUS
  <2>2. Len(h) = 2 /\ h = [n \in 1..2 |-> h[n]] /\ h[1] = <<"pk", p>> /\ h[2] = <<"sk", s>>
    BY <2>1
  <2>3. IsSequence(h) /\ 4 + Len(h) <= 8
    BY <2>2 DEF IsSequence
  <2>8. rsp' = rsp \o h
    BY <1>1, <1>6, <2>1
  <2>4. h[1] = ResponseLine(c, 4 + 1) /\ h[2] = ResponseLine(c, 4 + 2)
    <3>1. 4 + 1 = 5 /\ 4 + 2 = 6
      OBVIOUS
    <3>2. ResponseLine(c, 5) = <<"pk", <<"pk", Random(32, <<entry.seed>>)>>>>
      BY <1>3 DEF ResponseLine
    <3>3. ResponseLine(c, 6) = <<"sk", <<"sk", Random(32, <<entry.seed>>)>>>>
      BY <1>3 DEF ResponseLine
    <3> QED BY <1>2, <1>5, <2>2, <3>1, <3>2, <3>3
  <2>5. \A i \in 1..Len(h) : LineOk(c, 4 + i, h[i])
    <3>1. \A i \in 1..Len(h) : i = 1 \/ i = 2
      BY <2>2
    <3>2. LineOk(c, 4 + 1, h[1]) /\ LineOk(c, 4 + 2, h[2])
      BY <2>4 DEF LineOk
    <3> QED BY <3>1, <3>2
  <2>6. 8*c + 4 + 2 = 8*c + 6
    OBVIOUS
  <2>7. ResponsesInv' /\ Len(rsp') = 8*c + 4 + Len(h)
    <3>1. PICK n \in 0..7 : n = 4
      OBVIOUS
    <3>2. /\ IsSequence(h) /\ n + Len(h) <= 8 /\ Len(rsp) = 8*c + n /\ rsp' = rsp \o h /\ req' = req
          /\ \A i \in 1..Len(h) : LineOk(c, n + i, h[i])
      BY <1>1, <1>3, <2>3, <2>5, <2>8, <3>1
    <3>3. ResponsesInv' /\ Len(rsp') = 8*c + n + Len(h)
      BY <3>2, RespGrows DEF KatInv
    <3> QED BY <3>1, <3>3
  <2> QED BY <2>2, <2>6, <2>7
<1>9. At(c, 6)'
  BY <1>1, <1>3, <1>6, <1>8 DEF At, EntryIs
<1>10. entry'.sk = <<"sk", Random(32, <<entry'.seed>>)>>
  BY <1>2, <1>5, <1>6
<1>11. ProgressInv'
  BY <1>1, <1>2, <1>7, <1>9, <1>10 DEF ProgressInv, Random
<1> QED BY <1>1, <1>8, <1>11 DEF KatInv, RequestsInv, IsSequence

LEMMA SignLinesStep == KatInv /\ SignLines => KatInv'
<1> SUFFICES ASSUME KatInv, SignLines PROVE KatInv'
  OBVIOUS
<1>1. /\ where = "sign" /\ where' = "open" /\ req' = req /\ from' = from
      /\ entry' = [entry EXCEPT !.sm = <<entry.msg, entry.sk, Random(32, drbg)>>]
      /\ rsp' = rsp \o << <<"smlen", <<entry.mlen, "CRYPTO_BYTES">>>>, <<"sm", entry'.sm>> >>
  BY DEF SignLines
<1>2. PICK c \in Nat : /\ At(c, 6) /\ from = 8*c + 4 /\ drbg = <<entry.seed, 32>>
                       /\ entry.sk = <<"sk", Random(32, <<entry.seed>>)>>
  BY <1>1 DEF KatInv, ProgressInv
<1>3. /\ DOMAIN entry = {"count", "seed", "mlen", "msg", "pk", "sk", "sm"}
      /\ entry.seed = ReadHex(req[8*c + 2]) /\ entry.mlen = req[8*c + 3][2]
      /\ entry.msg = ReadHex(req[8*c + 4]) /\ Len(rsp) = 8*c + 6
  <2>1. Len(req) \in Nat /\ Len(req) >= 8*c + 4
    BY <1>2 DEF At, EntryIs, KatInv, RequestsInv, IsSequence
  <2>2. Len(req) # 8*c + 3
    BY <2>1
  <2> QED BY <1>2, <2>1, <2>2 DEF At, EntryIs
<1>4. PICK s : s = <<entry.msg, entry.sk, Random(32, drbg)>>
  OBVIOUS
<1>5. entry'.sm = s
  BY <1>1, <1>3, <1>4
<1>6. PICK n : n = <<entry.mlen, "CRYPTO_BYTES">>
  OBVIOUS
<1>7. ResponsesInv' /\ Len(rsp') = 8*(c + 1)
  <2>1. PICK h : h = << <<"smlen", n>>, <<"sm", s>> >>
    OBVIOUS
  <2>2. Len(h) = 2 /\ h = [m \in 1..2 |-> h[m]] /\ h[1] = <<"smlen", n>> /\ h[2] = <<"sm", s>>
    BY <2>1
  <2>3. IsSequence(h) /\ 6 + Len(h) <= 8
    BY <2>2 DEF IsSequence
  <2>8. rsp' = rsp \o h
    BY <1>1, <1>5, <1>6, <2>1
  <2>4. h[1] = ResponseLine(c, 6 + 1) /\ h[2] = ResponseLine(c, 6 + 2)
    <3>1. 6 + 1 = 7 /\ 6 + 2 = 8
      OBVIOUS
    <3>2. ResponseLine(c, 7) = <<"smlen", <<entry.mlen, "CRYPTO_BYTES">>>>
      BY <1>3 DEF ResponseLine
    <3>3. ResponseLine(c, 8)
            = <<"sm", <<entry.msg, <<"sk", Random(32, <<entry.seed>>)>>, Random(32, <<entry.seed, 32>>)>>>>
      BY <1>3 DEF ResponseLine
    <3> QED BY <1>2, <1>4, <1>6, <2>2, <3>1, <3>2, <3>3
  <2>5. \A i \in 1..Len(h) : LineOk(c, 6 + i, h[i])
    <3>1. \A i \in 1..Len(h) : i = 1 \/ i = 2
      BY <2>2
    <3>2. LineOk(c, 6 + 1, h[1]) /\ LineOk(c, 6 + 2, h[2])
      BY <2>4 DEF LineOk
    <3> QED BY <3>1, <3>2
  <2>6. 8*c + 6 + 2 = 8*(c + 1)
    OBVIOUS
  <2>7. ResponsesInv' /\ Len(rsp') = 8*c + 6 + Len(h)
    <3>1. PICK q \in 0..7 : q = 6
      OBVIOUS
    <3>2. /\ IsSequence(h) /\ q + Len(h) <= 8 /\ Len(rsp) = 8*c + q /\ rsp' = rsp \o h /\ req' = req
          /\ \A i \in 1..Len(h) : LineOk(c, q + i, h[i])
      BY <1>1, <1>3, <2>3, <2>5, <2>8, <3>1
    <3>3. ResponsesInv' /\ Len(rsp') = 8*c + q + Len(h)
      BY <3>2, RespGrows DEF KatInv
    <3> QED BY <3>1, <3>3
  <2> QED BY <2>2, <2>6, <2>7
<1>9. DOMAIN entry' = {"count", "seed", "mlen", "msg", "pk", "sk", "sm"}
  BY <1>1, <1>3
<1>8. ProgressInv'
  BY <1>1, <1>2, <1>7, <1>9 DEF ProgressInv
<1> QED BY <1>1, <1>7, <1>8 DEF KatInv, RequestsInv, IsSequence

LEMMA CompareStep == KatInv /\ Compare => KatInv'
<1> SUFFICES ASSUME KatInv, Compare PROVE KatInv'
  OBVIOUS
<1>1. /\ where = "open" /\ where' = "count" /\ req' = req /\ rsp' = rsp /\ from' = from
      /\ entry' = entry
  BY DEF Compare
<1>2. PICK c \in Nat : /\ Len(rsp) = 8*(c + 1) /\ from = 8*c + 4
                       /\ DOMAIN entry = {"count", "seed", "mlen", "msg", "pk", "sk", "sm"}
  BY <1>1 DEF KatInv, ProgressInv
<1>3. c + 1 \in Nat /\ from = (IF c + 1 = 0 THEN 0 ELSE 8*(c + 1) - 4)
  BY <1>2
<1>4. ProgressInv'
  BY <1>1, <1>2, <1>3 DEF ProgressInv
<1> QED BY <1>1, <1>4, FilesStand DEF KatInv

LEMMA KatStands == KatInv /\ UNCHANGED katvars => KatInv'
<1> SUFFICES ASSUME KatInv, UNCHANGED katvars PROVE KatInv'
  OBVIOUS
<1>1. /\ req' = req /\ rsp' = rsp /\ from' = from /\ where' = where /\ round' = round
      /\ entry' = entry /\ drbg' = drbg
  BY DEF katvars
<1>2. RequestsInv' /\ ResponsesInv'
  BY <1>1, FilesStand DEF KatInv
<1>3. ProgressInv'
  BY <1>1 DEF KatInv, ProgressInv, At, EntryIs, WholeFile
<1> QED BY <1>2, <1>3 DEF KatInv

LEMMA KatNextStep == KatInv /\ [KatNext]_katvars => KatInv'
  BY RequestTurnStep, ReopenStep, ReadCountStep, NoCountStep, ReadSeedStep, ReadMlenStep,
     ReadMsgStep, DataErrorStep, KeyPairLinesStep, SignLinesStep, CompareStep, KatStands
  DEF KatNext

\* Eight lines of the responses are the response to a request, and those a
\* success leaves answer every line of the requests.
LEMMA KatGood == KatInv => RespondsToRequests
<1> SUFFICES ASSUME KatInv PROVE RespondsToRequests
  OBVIOUS
<1> DEFINE Answered == Len(rsp) \div 8
<1> DEFINE Message(c) == IF Len(req) = 8*c + 4 THEN ReadHex(req[8*c + 4]) ELSE req[8*c + 4][2]
<1>1. IsSequence(rsp) /\ Len(rsp) \in Nat /\ Answered \in Nat /\ 8*Answered <= Len(rsp)
  BY DEF KatInv, ResponsesInv, IsSequence
<1>2. ASSUME NEW c \in 0..Answered-1
      PROVE  SubSeq(rsp, 8*c + 1, 8*c + 8)
                = ResponseTo(c, req[8*c + 2][2], req[8*c + 3][2], Message(c))
  <2>1. c \in Nat /\ 8*c + 8 <= Len(rsp)
    BY <1>1
  <2>2. PICK a, b : a = 8*c + 1 /\ b = 8*c + 8
    OBVIOUS
  <2>3. a \in 1..Len(rsp) + 1 /\ b \in 0..Len(rsp) /\ a <= b /\ b - a + 1 = 8
    BY <1>1, <2>1, <2>2
  <2>4. PICK S : S = {rsp[m] : m \in 1..Len(rsp)}
    OBVIOUS
  <2>5. rsp \in Seq(S) /\ \A m \in a..b : rsp[m] \in S
    BY <1>1, <2>3, <2>4, ElementsIn
  <2>6. /\ SubSeq(rsp, a, b) \in Seq(S) /\ Len(SubSeq(rsp, a, b)) = 8
        /\ \A m \in 1..b-a+1 : SubSeq(rsp, a, b)[m] = rsp[a + m - 1]
    BY <2>1, <2>2, <2>3, <2>5, SubSeqProperties
  <2>16. Len(req) \in Nat /\ 8*c + 4 <= Len(req)
    <3>1. 4 \in 1..8 /\ 8*c + 4 <= Len(rsp)
      BY <2>1, <1>1
    <3>2. LineOk(c, 4, rsp[8*c + 4])
      BY <2>1, <3>1 DEF KatInv, ResponsesInv
    <3> QED BY <3>2 DEF LineOk, KatInv, RequestsInv, IsSequence
  <2>17. ReadHex(req[8*c + 2]) = req[8*c + 2][2] /\ ReadHex(req[8*c + 4]) = Message(c)
    <3>1. \A ln : ln[3] = "whole" => ReadHex(ln) = ln[2]
      BY DEF ReadHex
    <3>2. ASSUME NEW i \in 1..8, 8*c + i < Len(req) PROVE req[8*c + i][3] = "whole"
      <4>1. 8*c + i <= Len(req)
        BY <2>1, <2>16, <3>2
      <4> QED BY <2>1, <3>2, <4>1 DEF KatInv, RequestsInv
    <3>3. req[8*c + 2][3] = "whole"
      BY <2>1, <2>16, <3>2
    <3>4. Len(req) # 8*c + 4 => req[8*c + 4][3] = "whole"
      BY <2>1, <2>16, <3>2
    <3> QED BY <3>1, <3>3, <3>4
  <2>7. ASSUME NEW i \in 1..8 PROVE SubSeq(rsp, a, b)[i] = ResponseLine(c, i)
    <3>1. i \in 1..b-a+1 /\ a + i - 1 = 8*c + i /\ 8*c + i <= Len(rsp)
      BY <2>1, <2>2, <2>3
    <3>2. LineOk(c, i, rsp[8*c + i])
      BY <2>1, <3>1 DEF KatInv, ResponsesInv
    <3>3. ~(i \in {1, 3} /\ Len(req) = 8*c + i)
      BY <2>16
    <3>4. SubSeq(rsp, a, b)[i] = rsp[8*c + i]
      BY <2>6, <3>1
    <3> QED BY <3>2, <3>3, <3>4 DEF LineOk
  <2>8. PICK t : t = SubSeq(rsp, a, b)
    OBVIOUS
  <2>9. PICK u : u = ResponseTo(c, ReadHex(req[8*c + 2]), req[8*c + 3][2], ReadHex(req[8*c + 4]))
    OBVIOUS
  <2>10. /\ Len(u) = 8 /\ u = [i \in 1..8 |-> u[i]]
         /\ u[1] = ResponseLine(c, 1) /\ u[2] = ResponseLine(c, 2)
         /\ u[3] = ResponseLine(c, 3) /\ u[4] = ResponseLine(c, 4)
         /\ u[5] = ResponseLine(c, 5) /\ u[6] = ResponseLine(c, 6)
         /\ u[7] = ResponseLine(c, 7) /\ u[8] = ResponseLine(c, 8)
    BY <2>9 DEF ResponseTo, ResponseLine
  <2>11. \A i \in 1..8 : i = 1 \/ i = 2 \/ i = 3 \/ i = 4 \/ i = 5 \/ i = 6 \/ i = 7 \/ i = 8
    OBVIOUS
  <2>12. \A i \in 1..8 : u[i] = ResponseLine(c, i)
    BY <2>10, <2>11
  <2>13. \A i \in 1..8 : t[i] = u[i]
    BY <2>7, <2>8, <2>12
  <2>15. t = [i \in 1..8 |-> t[i]]
    <3>1. t \in Seq(S) /\ Len(t) = 8
      BY <2>6, <2>8
    <3> QED BY <3>1
  <2>14. t = u
    BY <2>10, <2>13, <2>15
  <2> QED BY <2>2, <2>8, <2>9, <2>14, <2>17
<1>3. where = "success" => 8*Answered >= Len(req) /\ Len(rsp) = 8*Answered
  <2> SUFFICES ASSUME where = "success" PROVE 8*Answered >= Len(req) /\ Len(rsp) = 8*Answered
    OBVIOUS
  <2>1. PICK c \in Nat : Len(rsp) = 8*c /\ Len(req) <= 8*c
    BY DEF KatInv, ProgressInv
  <2>2. Answered = c
    BY <2>1
  <2> QED BY <2>1, <2>2
<1> QED BY <1>2, <1>3 DEF RespondsToRequests

\* Wherever the file of requests was cut off, also within a line, the responses
\* are those to its requests, in order, each made from that request's own lines
\* after the DRBG was seeded anew, whatever was drawn before; only the last one
\* may answer a message that was cut.  A run that ends well has answered all the
\* file has (PQCgenKAT_sign.c:79-155).
THEOREM AnswersRequests == KatSpec => []RespondsToRequests
<1>1. KatInit => KatInv
  BY KatStart
<1>2. KatInv /\ [KatNext]_katvars => KatInv'
  BY KatNextStep
<1>3. KatInv => RespondsToRequests
  BY KatGood
<1> QED BY <1>1, <1>2, <1>3, PTL DEF KatSpec
=============================================================================
