--------------------------- MODULE HintCodec_proofs ---------------------------
(***************************************************************************)
(* For every size of the hint area and every area: the loops of unpack_sig *)
(* decide what HintsOk says and give the vector that UnpackHints says, an  *)
(* area pack_sig wrote comes back as it was, and no other is accepted.     *)
(***************************************************************************)
EXTENDS HintCodec, TLAPS, FiniteSetTheorems

\* What a row of an accepted area satisfies, and what unpacking makes of it.
RowOk(r) ==
    /\ From(area, r) <= To(area, r) /\ To(area, r) <= OMEGA
    /\ \A x \in From(area, r)+1 .. To(area, r)-1 : area[x] > area[x-1]
RowRead(r) == h[r] = {area[x] : x \in From(area, r) .. To(area, r)-1}

CodecTypes ==
    /\ area \in [HintArea -> Nat]
    /\ h \in [0..K-1 -> SUBSET Nat]
    /\ i \in 0..K /\ j \in Nat /\ k \in Nat
    /\ pc \in {"pack", "row", "index", "tail", "done"}

\* The rows before i are in order and read.
RowsBefore == \A r \in 0..i-1 : RowOk(r) /\ RowRead(r)

RowInv == pc = "row" => RowsBefore /\ k = From(area, i) /\ k <= OMEGA

\* The indices of row i up to j are in order and read.
IndexInv == pc = "index" =>
    /\ i < K /\ RowsBefore
    /\ k = From(area, i) /\ k <= j /\ j <= To(area, i) /\ To(area, i) <= OMEGA
    /\ \A x \in k+1 .. j-1 : area[x] > area[x-1]
    /\ h[i] = {area[x] : x \in k .. j-1}

TailInv == pc = "tail" =>
    /\ i = K /\ RowsBefore
    /\ k = To(area, K-1) /\ k <= j /\ j <= OMEGA
    /\ \A x \in k .. j-1 : area[x] = 0

CInv == CodecTypes /\ RowInv /\ IndexInv /\ TailInv /\ ComputesHintsOk

LEMMA Sizes == N \in Nat \ {0} /\ K \in Nat \ {0} /\ OMEGA \in Nat
  BY HintAssumption

\* The bytes the loops look at are bytes of the area.
LEMMA Looks ==
    ASSUME CodecTypes
    PROVE  /\ \A r \in 0..K-1 : To(area, r) \in Nat /\ From(area, r) \in Nat
           /\ \A r \in 0..K : From(area, r) \in Nat
           /\ \A r \in 0..K-1 : From(area, r+1) = To(area, r)
           /\ \A x \in 0..OMEGA-1 : x \in HintArea /\ area[x] \in Nat
  BY Sizes DEF CodecTypes, HintArea, From, To

LEMMA CInvStarts == Init => CInv
<1> SUFFICES ASSUME Init PROVE CInv
  OBVIOUS
<1>1. CodecTypes
  <2>1. area \in [HintArea -> Nat]
    BY Sizes DEF Init, HintArea, Byte
  <2>2. h \in [0..K-1 -> SUBSET Nat]
    BY Sizes DEF Init, Indeterminate
  <2> QED BY <2>1, <2>2, Sizes DEF Init, CodecTypes
<1>2. RowInv
  BY Sizes DEF Init, RowInv, RowsBefore, From
<1>3. pc \in {"pack", "row"}
  BY DEF Init
<1> QED BY <1>1, <1>2, <1>3 DEF CInv, IndexInv, TailInv, ComputesHintsOk

LEMMA CInvStays == CInv /\ [Next]_vars => CInv'
<1> SUFFICES ASSUME CInv, [Next]_vars PROVE CInv'
  OBVIOUS
<1>1. /\ area \in [HintArea -> Nat] /\ h \in [0..K-1 -> SUBSET Nat]
      /\ i \in 0..K /\ j \in Nat /\ k \in Nat /\ CodecTypes
  BY DEF CInv, CodecTypes
<1>2. CASE PackCoeff
  <2>1. CodecTypes'
    BY <1>1, <1>2, Sizes DEF PackCoeff, CodecTypes
  <2> QED BY <1>2, <2>1 DEF PackCoeff, CInv, RowInv, IndexInv, TailInv, ComputesHintsOk
<1>3. CASE PackCount
  <2>1. CodecTypes'
    <3>1. /\ area' = [area EXCEPT ![OMEGA + i] = k] /\ i' = i + 1 /\ j' = 0
          /\ i < K /\ h' = h /\ k' = k /\ pc' = pc
      BY <1>3 DEF PackCount, WithCount
    <3>2. area' \in [HintArea -> Nat]
      BY <1>1, <3>1
    <3>3. i' \in 0..K
      BY <1>1, <3>1, Sizes
    <3> QED BY <1>1, <3>1, <3>2, <3>3 DEF CodecTypes
  <2> QED BY <1>3, <2>1 DEF PackCount, CInv, RowInv, IndexInv, TailInv, ComputesHintsOk
<1>4. CASE Packed
  <2>1. CodecTypes'
    BY <1>1, <1>4, Sizes DEF Packed, CodecTypes
  <2>2. RowInv'
    BY <1>4, Sizes DEF Packed, RowInv, RowsBefore, From
  <2> QED BY <1>4, <2>1, <2>2 DEF Packed, CInv, IndexInv, TailInv, ComputesHintsOk
<1>5. CASE RowStart
  <2>1. /\ i \in 0..K-1 /\ area' = area /\ i' = i /\ k' = k
        /\ h' = [h EXCEPT ![i] = {}]
        /\ RowsBefore /\ k = From(area, i) /\ k <= OMEGA
    <3>1. pc = "row" /\ i < K /\ area' = area /\ i' = i /\ k' = k /\ h' = [h EXCEPT ![i] = {}]
      BY <1>5 DEF RowStart
    <3>2. i \in 0..K-1
      BY <1>1, <3>1, Sizes
    <3>3. RowsBefore /\ k = From(area, i) /\ k <= OMEGA
      BY <3>1 DEF CInv, RowInv
    <3> QED BY <3>1, <3>2, <3>3
  <2>2. CodecTypes'
    <3>1. h' \in [0..K-1 -> SUBSET Nat]
      BY <1>1, <2>1
    <3>2. j' \in Nat
      BY <1>1, <1>5 DEF RowStart
    <3>3. pc' \in {"pack", "row", "index", "tail", "done"}
      BY <1>5 DEF RowStart, Return
    <3> QED BY <1>1, <2>1, <3>1, <3>2, <3>3 DEF CodecTypes
  <2>3. CASE CountOk(area, i, k)
    <3>1. pc' = "index" /\ j' = k /\ k <= To(area, i) /\ To(area, i) <= OMEGA
      BY <1>5, <2>3 DEF RowStart, CountOk, To
    <3>2. RowsBefore'
      BY <1>1, <2>1 DEF RowsBefore, RowOk, RowRead, From, To
    <3>3. h'[i] = {} /\ k .. k-1 = {}
      BY <1>1, <2>1
    <3>4. IndexInv'
      <4>0. /\ i' < K /\ k' = From(area', i') /\ k' <= j' /\ j' <= To(area', i') /\ To(area', i') <= OMEGA
        BY <1>1, <2>1, <3>1, Sizes DEF From, To
      <4>1. \A x \in k+1 .. k-1 : area[x] > area[x-1]
        BY <1>1
      <4>2. {area[x] : x \in k .. k-1} = {}
        BY <3>3
      <4>3. h'[i'] = {area'[x] : x \in k' .. j'-1}
        <5>1. {area'[x] : x \in k' .. j'-1} = {area[x] : x \in k .. k-1}
          BY <2>1, <3>1
        <5> QED BY <2>1, <3>3, <4>2, <5>1
      <4>4. \A x \in k'+1 .. j'-1 : area'[x] > area'[x-1]
        BY <2>1, <3>1, <4>1
      <4> QED BY <3>2, <4>0, <4>3, <4>4 DEF IndexInv
    <3> QED BY <2>2, <3>1, <3>4 DEF CInv, RowInv, TailInv, ComputesHintsOk
  <2>4. CASE ~CountOk(area, i, k)
    <3>1. pc' = "done" /\ ret' = 1
      BY <1>5, <2>4 DEF RowStart, Return
    <3>2. ~(From(area, i) <= To(area, i) /\ To(area, i) <= OMEGA)
      BY <1>1, <2>1, <2>4, Looks DEF CountOk, To
    <3>3. ~HintsOk(area)
      BY <2>1, <3>2 DEF HintsOk
    <3> QED BY <2>1, <2>2, <3>1, <3>3 DEF CInv, RowInv, IndexInv, TailInv, ComputesHintsOk
  <2> QED BY <2>3, <2>4
<1>6. CASE RowIndex
  <2>1. /\ i \in 0..K-1 /\ area' = area /\ i' = i /\ k' = k
        /\ RowsBefore /\ k = From(area, i) /\ k <= j /\ j < To(area, i) /\ To(area, i) <= OMEGA
        /\ \A x \in k+1 .. j-1 : area[x] > area[x-1]
        /\ h[i] = {area[x] : x \in k .. j-1}
    <3>1. pc = "index" /\ area' = area /\ i' = i /\ k' = k /\ j < To(area, i)
      BY <1>6 DEF RowIndex, To
    <3>2. /\ i < K /\ RowsBefore /\ k = From(area, i) /\ k <= j /\ To(area, i) <= OMEGA
          /\ \A x \in k+1 .. j-1 : area[x] > area[x-1]
          /\ h[i] = {area[x] : x \in k .. j-1}
      BY <3>1 DEF CInv, IndexInv
    <3>3. i \in 0..K-1
      BY <1>1, <3>2, Sizes
    <3> QED BY <3>1, <3>2, <3>3
  <2>2. j \in 0..OMEGA-1 /\ area[j] \in Nat /\ To(area, i) \in Nat
    BY <1>1, <2>1, Looks, Sizes
  <2>3. CodecTypes'
    <3>1. h' = h \/ h' = [h EXCEPT ![i] = @ \cup {area[j]}]
      BY <1>6 DEF RowIndex
    <3>2. h' \in [0..K-1 -> SUBSET Nat]
      BY <1>1, <2>1, <2>2, <3>1
    <3>3. j' \in Nat
      BY <1>1, <1>6 DEF RowIndex
    <3>4. pc' \in {"pack", "row", "index", "tail", "done"}
      BY <1>1, <1>6 DEF RowIndex, Return, CodecTypes
    <3> QED BY <1>1, <2>1, <3>2, <3>3, <3>4 DEF CodecTypes
  <2>4. CASE NotIncreasing(area, j, k)
    <3>1. pc' = "done" /\ ret' = 1
      BY <1>6, <2>4 DEF RowIndex, Return
    <3>2. j-1 \in 0..OMEGA-1 /\ j \in From(area, i)+1 .. To(area, i)-1
      <4>1. k \in Nat /\ j \in Nat /\ j > k /\ j <= OMEGA - 1 /\ OMEGA \in Nat
        BY <1>1, <2>2, <2>4, Sizes DEF NotIncreasing
      <4>2. k = From(area, i) /\ j < To(area, i) /\ To(area, i) \in Nat
        BY <2>1, <2>2
      <4>3. j-1 \in 0..OMEGA-1
        BY <4>1
      <4>4. j \in k+1 .. To(area, i)-1
        BY <4>1, <4>2
      <4> QED BY <4>2, <4>3, <4>4
    <3>3. ~(area[j] > area[j-1])
      BY <1>1, <2>2, <2>4, <3>2, Looks DEF NotIncreasing
    <3>4. ~HintsOk(area)
      BY <2>1, <3>2, <3>3 DEF HintsOk
    <3> QED BY <2>1, <2>3, <3>1, <3>4 DEF CInv, RowInv, IndexInv, TailInv, ComputesHintsOk
  <2>5. CASE ~NotIncreasing(area, j, k)
    <3>1. pc' = "index" /\ j' = j + 1 /\ h' = [h EXCEPT ![i] = @ \cup {area[j]}]
      BY <1>6, <2>5 DEF RowIndex, CInv, CodecTypes
    <3>2. RowsBefore'
      BY <1>1, <2>1, <3>1 DEF RowsBefore, RowOk, RowRead, From, To
    <3>3. h'[i] = {area[x] : x \in k .. j}
      <4>1. h'[i] = h[i] \cup {area[j]}
        BY <1>1, <2>1, <3>1
      <4>2. k .. j = (k .. j-1) \cup {j}
        BY <1>1, <2>1
      <4> QED BY <2>1, <4>1, <4>2
    <3>4. \A x \in k+1 .. j : area[x] > area[x-1]
      <4>1. j > k => area[j] > area[j-1]
        <5> SUFFICES ASSUME j > k PROVE area[j] > area[j-1]
          OBVIOUS
        <5>0. k \in Nat /\ j \in Nat /\ j <= OMEGA - 1 /\ OMEGA \in Nat
          BY <1>1, <2>2, Sizes
        <5>1. j-1 \in 0..OMEGA-1
          BY <5>0
        <5> QED BY <1>1, <2>2, <2>5, <5>1, Looks DEF NotIncreasing
      <4>2. \A x \in k+1 .. j : x \in k+1 .. j-1 \/ (x = j /\ j > k)
        BY <1>1
      <4> QED BY <2>1, <4>1, <4>2
    <3>5. j' - 1 = j /\ k' .. j'-1 = k .. j /\ k'+1 .. j'-1 = k+1 .. j
      BY <1>1, <2>1, <3>1
    <3>6. IndexInv'
      <4>1. /\ i' < K /\ k' = From(area', i') /\ k' <= j' /\ j' <= To(area', i') /\ To(area', i') <= OMEGA
        <5>1. i' < K /\ k' <= j' /\ j' <= To(area, i)
          BY <1>1, <2>1, <2>2, <3>1, Sizes
        <5> QED BY <2>1, <5>1 DEF From, To
      <4>2. h'[i'] = {area'[x] : x \in k' .. j'-1}
        <5>1. {area'[x] : x \in k' .. j'-1} = {area[x] : x \in k .. j}
          BY <2>1, <3>5
        <5> QED BY <2>1, <3>3, <5>1
      <4>3. \A x \in k'+1 .. j'-1 : area'[x] > area'[x-1]
        BY <2>1, <3>4, <3>5
      <4> QED BY <3>2, <4>1, <4>2, <4>3 DEF IndexInv
    <3> QED BY <2>3, <3>1, <3>6 DEF CInv, RowInv, TailInv, ComputesHintsOk
  <2> QED BY <2>4, <2>5
<1>7. CASE RowEnd
  <2>1. /\ i \in 0..K-1 /\ area' = area /\ i' = i + 1 /\ h' = h /\ k' = To(area, i) /\ pc' = "row"
        /\ RowsBefore /\ k = From(area, i) /\ k <= j /\ j = To(area, i) /\ To(area, i) <= OMEGA
        /\ \A x \in k+1 .. j-1 : area[x] > area[x-1]
        /\ h[i] = {area[x] : x \in k .. j-1}
    <3>1. /\ pc = "index" /\ area' = area /\ i' = i + 1 /\ h' = h /\ k' = To(area, i) /\ pc' = "row"
          /\ ~(j < To(area, i))
      BY <1>7 DEF RowEnd, To
    <3>2. /\ i < K /\ RowsBefore /\ k = From(area, i) /\ k <= j /\ j <= To(area, i) /\ To(area, i) <= OMEGA
          /\ \A x \in k+1 .. j-1 : area[x] > area[x-1]
          /\ h[i] = {area[x] : x \in k .. j-1}
      BY <3>1 DEF CInv, IndexInv
    <3>3. i \in 0..K-1
      BY <1>1, <3>2, Sizes
    <3>4. To(area, i) \in Nat
      BY <1>1, <3>3, Looks
    <3>5. j = To(area, i)
      BY <1>1, <3>1, <3>2, <3>4
    <3> QED BY <3>1, <3>2, <3>3, <3>5
  <2>2. CodecTypes'
    <3>1. To(area, i) \in Nat
      BY <1>1, <2>1, Looks
    <3>2. i + 1 \in 0..K
      BY <2>1, Sizes
    <3>3. j' = j
      BY <1>7 DEF RowEnd
    <3> QED BY <1>1, <2>1, <3>1, <3>2, <3>3 DEF CodecTypes
  <2>3. RowOk(i) /\ RowRead(i)
    BY <1>1, <2>1, Looks DEF RowOk, RowRead
  <2>4. \A r \in 0..i : RowOk(r) /\ RowRead(r)
    BY <1>1, <2>1, <2>3 DEF RowsBefore
  <2>5. RowsBefore'
    <3>1. 0..i'-1 = 0..i
      BY <1>1, <2>1
    <3> QED BY <2>1, <2>4, <3>1 DEF RowsBefore, RowOk, RowRead, From, To
  <2>6. k' = From(area, i+1)
    BY <1>1, <2>1, Looks
  <2> QED BY <2>1, <2>2, <2>5, <2>6 DEF CInv, RowInv, IndexInv, TailInv, ComputesHintsOk, From
<1>8. CASE TailStart
  <2>1. /\ i = K /\ area' = area /\ i' = i /\ h' = h /\ k' = k /\ j' = k /\ pc' = "tail"
        /\ RowsBefore /\ k = From(area, i) /\ k <= OMEGA
    BY <1>8 DEF TailStart, CInv, RowInv
  <2>2. CodecTypes'
    BY <1>1, <1>8, <2>1 DEF TailStart, CodecTypes
  <2>3. k = To(area, K-1)
    BY <1>1, <2>1, Sizes, Looks DEF From, To
  <2>4. RowsBefore'
    BY <2>1 DEF RowsBefore, RowOk, RowRead, From, To
  <2>5. TailInv'
    <3>1. k .. k-1 = {}
      BY <1>1
    <3> QED BY <1>1, <2>1, <2>3, <2>4, <3>1 DEF TailInv, To
  <2> QED BY <2>1, <2>2, <2>5 DEF CInv, RowInv, IndexInv, ComputesHintsOk
<1>9. CASE Tail
  <2>1. /\ pc = "tail" /\ i = K /\ area' = area /\ i' = i /\ h' = h /\ k' = k
        /\ RowsBefore /\ k = To(area, K-1) /\ k <= j /\ j <= OMEGA
        /\ \A x \in k .. j-1 : area[x] = 0
    BY <1>9 DEF Tail, CInv, TailInv
  <2>2. CodecTypes'
    BY <1>1, <1>9, <2>1 DEF Tail, Return, CodecTypes
  <2>3. CASE j = OMEGA
    <3>1. pc' = "done" /\ ret' = 0
      BY <1>9, <2>3 DEF Tail, Return
    <3>2. 0..i-1 = 0..K-1
      BY <2>1
    <3>3. HintsOk(area)
      BY <1>1, <2>1, <2>3, <3>2 DEF RowsBefore, RowOk, HintsOk
    <3>4. h = UnpackHints(area)
      BY <1>1, <2>1, <3>2 DEF RowsBefore, RowRead, UnpackHints
    <3> QED BY <2>1, <2>2, <3>1, <3>3, <3>4 DEF CInv, RowInv, IndexInv, TailInv, ComputesHintsOk
  <2>4. CASE j # OMEGA /\ area[j] # 0
    <3>1. pc' = "done" /\ ret' = 1
      BY <1>9, <2>4 DEF Tail, Return
    <3>2. j \in To(area, K-1) .. OMEGA-1
      BY <1>1, <2>1, <2>4, Sizes
    <3>3. ~HintsOk(area)
      BY <2>4, <3>2 DEF HintsOk
    <3> QED BY <2>1, <2>2, <3>1, <3>3 DEF CInv, RowInv, IndexInv, TailInv, ComputesHintsOk
  <2>5. CASE j # OMEGA /\ area[j] = 0
    <3>1. pc' = "tail" /\ j' = j + 1 /\ j' <= OMEGA
      BY <1>1, <1>9, <2>1, <2>5, Sizes DEF Tail
    <3>2. \A x \in k .. j'-1 : area[x] = 0
      BY <1>1, <2>1, <2>5, <3>1
    <3>3. RowsBefore'
      BY <2>1 DEF RowsBefore, RowOk, RowRead, From, To
    <3>4. TailInv'
      BY <1>1, <2>1, <3>1, <3>2, <3>3 DEF TailInv, To
    <3> QED BY <2>2, <3>1, <3>4 DEF CInv, RowInv, IndexInv, ComputesHintsOk
  <2> QED BY <2>3, <2>4, <2>5
<1>10. CASE UNCHANGED vars
  <2>1. /\ area' = area /\ h' = h /\ i' = i /\ j' = j /\ k' = k /\ pc' = pc /\ ret' = ret
    BY <1>10 DEF vars
  <2>2. RowsBefore' = RowsBefore
    BY <2>1 DEF RowsBefore, RowOk, RowRead, From, To
  <2>3. CodecTypes'
    BY <1>1, <2>1 DEF CodecTypes
  <2>4. RowInv'
    BY <2>1, <2>2 DEF CInv, RowInv, From
  <2>5. IndexInv'
    BY <2>1, <2>2 DEF CInv, IndexInv, From, To
  <2>6. TailInv'
    BY <2>1, <2>2 DEF CInv, TailInv, To
  <2>7. ComputesHintsOk'
    BY <2>1 DEF CInv, ComputesHintsOk
  <2> QED BY <2>3, <2>4, <2>5, <2>6, <2>7 DEF CInv
<1> QED BY <1>2, <1>3, <1>4, <1>5, <1>6, <1>7, <1>8, <1>9, <1>10 DEF Next

\* When unpack_sig returns, it has accepted exactly the areas that have rows
\* in order within OMEGA and zeros behind them, and h is what they hold
\* (packing.c:148-168), whether the area was packed or came from elsewhere.
THEOREM UnpackComputes == Spec => []ComputesHintsOk
<1>1. CInv => ComputesHintsOk
  BY DEF CInv
<1> QED BY <1>1, CInvStarts, CInvStays, PTL DEF Spec

-----------------------------------------------------------------------------
(* Ranks: the place of a coefficient among those of a hint vector.         *)

Pairs == (0..K-1) \X (0..N-1)

LEMMA PairParts ==
    ASSUME NEW q \in Pairs
    PROVE  q[1] \in 0..K-1 /\ q[2] \in 0..N-1 /\ q = <<q[1], q[2]>>
  BY DEF Pairs

LEMMA PairsFinite ==
    ASSUME NEW S \in SUBSET Pairs
    PROVE  IsFiniteSet(S) /\ Cardinality(S) \in Nat
<1>1. IsFiniteSet(0..K-1) /\ IsFiniteSet(0..N-1)
  BY FS_Interval, HintAssumption
<1>2. IsFiniteSet(Pairs)
  BY <1>1, FS_Product DEF Pairs
<1> QED BY <1>2, FS_Subset, FS_CardinalityType

LEMMA EntriesArePairs == \A hh : Entries(hh) \in SUBSET Pairs
  BY DEF Entries, Pairs

\* Of two sets, one in the other, the larger has more elements.
LEMMA FewerPairs ==
    ASSUME NEW S \in SUBSET Pairs, NEW T \in SUBSET S
    PROVE  /\ Cardinality(T) \in Nat /\ Cardinality(T) <= Cardinality(S)
           /\ T # S => Cardinality(T) < Cardinality(S)
<1>1. IsFiniteSet(S) /\ Cardinality(S) \in Nat /\ IsFiniteSet(T) /\ Cardinality(T) \in Nat
  BY PairsFinite
<1>2. Cardinality(T) <= Cardinality(S) /\ (Cardinality(S) = Cardinality(T) => S = T)
  BY <1>1, FS_Subset
<1> QED BY <1>1, <1>2

\* Two coefficients of one set have different ranks.
LEMMA EarlierIsOrder ==
    ASSUME NEW a \in Pairs, NEW b \in Pairs
    PROVE  /\ ~Earlier(a, a) /\ (a = b \/ Earlier(a, b) \/ Earlier(b, a))
           /\ \A c \in Pairs : Earlier(c, a) /\ Earlier(a, b) => Earlier(c, b)
<1>1. /\ a[1] \in Int /\ a[2] \in Int /\ b[1] \in Int /\ b[2] \in Int
      /\ a = <<a[1], a[2]>> /\ b = <<b[1], b[2]>>
  BY PairParts, HintAssumption
<1>2. \A c \in Pairs : c[1] \in Int /\ c[2] \in Int
  BY PairParts, HintAssumption
<1> QED BY <1>1, <1>2 DEF Earlier

LEMMA RankGrows ==
    ASSUME NEW S \in SUBSET Pairs, NEW a \in S, NEW b \in Pairs, Earlier(a, b)
    PROVE  Rank(S, a) < Rank(S, b)
<1> DEFINE A == {e \in S : Earlier(e, a)}
           B == {e \in S : Earlier(e, b)}
<1>1. A \in SUBSET B /\ B \in SUBSET Pairs /\ a \in B /\ a \notin A
  BY EarlierIsOrder
<1> QED BY <1>1, FewerPairs DEF Rank

LEMMA RanksDiffer ==
    ASSUME NEW S \in SUBSET Pairs, NEW a \in S, NEW b \in S, Rank(S, a) = Rank(S, b)
    PROVE  a = b
<1>1. Rank(S, a) \in Nat
  <2>1. {e \in S : Earlier(e, a)} \in SUBSET Pairs
    OBVIOUS
  <2> QED BY <2>1, PairsFinite DEF Rank
<1> QED BY <1>1, RankGrows, EarlierIsOrder

\* A coefficient behind all others has their number as its rank, and moves
\* no other.
LEMMA RankOfLast ==
    ASSUME NEW S \in SUBSET Pairs, NEW q \in Pairs, \A e \in S : Earlier(e, q)
    PROVE  /\ Cardinality(S \cup {q}) = Cardinality(S) + 1
           /\ Rank(S \cup {q}, q) = Cardinality(S)
           /\ \A e \in S : Rank(S \cup {q}, e) = Rank(S, e)
<1>1. q \notin S /\ ~Earlier(q, q)
  BY EarlierIsOrder
<1>2. Cardinality(S \cup {q}) = Cardinality(S) + 1
  BY <1>1, PairsFinite, FS_AddElement
<1>3. {e \in S \cup {q} : Earlier(e, q)} = S
  BY <1>1
<1>4. \A e \in S : {x \in S \cup {q} : Earlier(x, e)} = {x \in S : Earlier(x, e)}
  BY EarlierIsOrder
<1> QED BY <1>2, <1>3, <1>4 DEF Rank
-----------------------------------------------------------------------------
(* pack_sig: the rows before i are in the area, row i up to the index j.    *)

RowHolds(r) == {area[x] : x \in From(area, r) .. To(area, r)-1} = hints[r]
PackInv == pc = "pack" =>
    /\ hints \in HintVector /\ h = Indeterminate
    /\ i \in 0..K /\ j \in 0..N /\ (i = K => j = 0)
    /\ k = Rank(Entries(hints), <<i, j>>)
    /\ \A r \in 0..i-1 : RowOk(r) /\ RowHolds(r) /\ To(area, r) <= From(area, i)
    /\ From(area, i) <= k
    /\ \A x \in From(area, i)+1 .. k-1 : area[x] > area[x-1]
    /\ i < K => {area[x] : x \in From(area, i) .. k-1} = {v \in hints[i] : v < j}
    /\ i = K => k = From(area, K)
    /\ \A x \in k..OMEGA-1 : area[x] = 0
PackedInv == pc # "pack" /\ hints # <<>> => hints \in HintVector /\ HintsOk(area) /\ UnpackHints(area) = hints
\* What unpack_sig has read: after n indices it knows n coefficients, each at
\* the place of its rank, and the counts of the rows before.
Seen == {q \in Entries(h) : q[1] < i \/ (q[1] = i /\ pc = "index")}
Reads(S, n) ==
    /\ Cardinality(S) = n
    /\ \A x \in 0..n-1 : \E q \in S : q[2] = area[x] /\ Rank(S, q) = x
ReadInv == pc \in {"row", "index", "tail"} =>
    /\ Reads(Seen, IF pc = "index" THEN j ELSE k)
    /\ \A r \in 0..i-1 : To(area, r) = Rank(Seen, <<r+1, 0>>)
LastInv == pc = "index" =>
    \A q \in Seen : q[1] = i => j > k /\ q[2] <= area[j-1]

FullTypes ==
    /\ hints \in HintVector \cup {<<>>}
    /\ area \in [HintArea -> Byte]
    /\ h \in [0..K-1 -> SUBSET (0..N-1)]
    /\ i \in 0..K /\ j \in Nat /\ k \in 0..OMEGA
    /\ pc \in {"pack", "row", "index", "tail", "done"} /\ ret \in {-1, 0, 1}
    /\ pc = "pack" => j \in 0..N
    /\ pc # "pack" => j \in 0..OMEGA

\* How many coefficients pack_sig has met after one more, and after a row.
LEMMA RankSteps ==
    ASSUME NEW hh, NEW ii \in 0..K-1, NEW jj \in 0..N-1
    PROVE  /\ <<ii, jj>> \in Entries(hh) =>
                  /\ Rank(Entries(hh), <<ii, jj>>) < Cardinality(Entries(hh))
                  /\ Rank(Entries(hh), <<ii, jj+1>>) = Rank(Entries(hh), <<ii, jj>>) + 1
           /\ <<ii, jj>> \notin Entries(hh) =>
                  Rank(Entries(hh), <<ii, jj+1>>) = Rank(Entries(hh), <<ii, jj>>)
<1> DEFINE E == Entries(hh)
           A == {e \in E : Earlier(e, <<ii, jj>>)}
           B == {e \in E : Earlier(e, <<ii, jj+1>>)}
<1>1. E \in SUBSET Pairs /\ A \in SUBSET E
  BY EntriesArePairs
<1>2. \A e \in E : Earlier(e, <<ii, jj+1>>) <=> Earlier(e, <<ii, jj>>) \/ e = <<ii, jj>>
  <2> SUFFICES ASSUME NEW e \in E
               PROVE  Earlier(e, <<ii, jj+1>>) <=> Earlier(e, <<ii, jj>>) \/ e = <<ii, jj>>
    OBVIOUS
  <2>1. e[1] \in Int /\ e[2] \in Int /\ e = <<e[1], e[2]>> /\ jj \in Int
    BY <1>1, PairParts, Sizes
  <2> QED BY <2>1 DEF Earlier
<1>3. <<ii, jj>> \notin A
  BY Sizes DEF Earlier
<1>4. CASE <<ii, jj>> \in E
  <2>1. B = A \cup {<<ii, jj>>}
    BY <1>2, <1>4
  <2>2. IsFiniteSet(A) /\ A # E
    BY <1>1, <1>3, <1>4, PairsFinite
  <2>3. Cardinality(A) < Cardinality(E)
    BY <1>1, <2>2, FewerPairs
  <2>4. Cardinality(B) = Cardinality(A) + 1
    BY <1>3, <2>1, <2>2, FS_AddElement
  <2> QED BY <1>4, <2>3, <2>4 DEF Rank
<1>5. CASE <<ii, jj>> \notin E
  <2>1. B = A
    BY <1>2, <1>5
  <2> QED BY <1>5, <2>1 DEF Rank
<1> QED BY <1>4, <1>5

LEMMA RankOfRow ==
    ASSUME NEW hh, NEW ii \in 0..K-1
    PROVE  Rank(Entries(hh), <<ii+1, 0>>) = Rank(Entries(hh), <<ii, N>>)
<1>1. \A e \in Entries(hh) : Earlier(e, <<ii+1, 0>>) <=> Earlier(e, <<ii, N>>)
  <2> SUFFICES ASSUME NEW e \in Entries(hh)
               PROVE  Earlier(e, <<ii+1, 0>>) <=> Earlier(e, <<ii, N>>)
    OBVIOUS
  <2>1. e[1] \in Int /\ e[2] \in 0..N-1 /\ ii \in Int /\ N \in Nat
    BY EntriesArePairs, PairParts, Sizes
  <2> QED BY <2>1 DEF Earlier
<1>2. {e \in Entries(hh) : Earlier(e, <<ii+1, 0>>)} = {e \in Entries(hh) : Earlier(e, <<ii, N>>)}
  BY <1>1
<1> QED BY <1>2 DEF Rank

LEMMA RankAtStart == \A hh : Rank(Entries(hh), <<0, 0>>) = 0
<1> TAKE hh
<1>1. \A e \in Entries(hh) : ~Earlier(e, <<0, 0>>)
  <2> SUFFICES ASSUME NEW e \in Entries(hh) PROVE ~Earlier(e, <<0, 0>>)
    OBVIOUS
  <2>1. e[1] \in Int /\ e[1] >= 0 /\ e[2] \in Int /\ e[2] >= 0
    BY EntriesArePairs, PairParts, Sizes
  <2> QED BY <2>1 DEF Earlier
<1>2. {e \in Entries(hh) : Earlier(e, <<0, 0>>)} = {}
  BY <1>1
<1> QED BY <1>2, FS_EmptySet DEF Rank

LEMMA RankBounded ==
    ASSUME NEW hh, NEW q
    PROVE  /\ Rank(Entries(hh), q) \in Nat
           /\ Rank(Entries(hh), q) <= Cardinality(Entries(hh))
<1>1. {e \in Entries(hh) : Earlier(e, q)} \in SUBSET Entries(hh)
  OBVIOUS
<1> QED BY <1>1, EntriesArePairs, FewerPairs DEF Rank

LEMMA EntryOf ==
    ASSUME NEW hh \in [0..K-1 -> SUBSET (0..N-1)], NEW r \in 0..K-1, NEW v
    PROVE  <<r, v>> \in Entries(hh) <=> v \in hh[r]
  BY DEF Entries

\* Changing a byte of the index area leaves the counts alone.
LEMMA CountsStay ==
    ASSUME NEW a \in [HintArea -> Byte], NEW b \in [HintArea -> Byte],
           \A y \in HintArea : y >= OMEGA => b[y] = a[y]
    PROVE  /\ \A r \in 0..K-1 : To(b, r) = To(a, r)
           /\ \A r \in 0..K : From(b, r) = From(a, r)
<1>1. \A r \in 0..K-1 : OMEGA + r \in HintArea /\ OMEGA + r >= OMEGA
  BY Sizes DEF HintArea
<1>2. \A r \in 0..K-1 : To(b, r) = To(a, r)
  BY <1>1 DEF To
<1>3. \A r \in 1..K : OMEGA + r - 1 \in HintArea /\ OMEGA + r - 1 >= OMEGA
  BY Sizes DEF HintArea
<1>4. \A r \in 0..K : From(b, r) = From(a, r)
  BY <1>3 DEF From
<1> QED BY <1>2, <1>4

LEMMA CountTypes ==
    ASSUME NEW a \in [HintArea -> Byte]
    PROVE  /\ \A r \in 0..K-1 : To(a, r) \in Nat /\ From(a, r+1) = To(a, r)
           /\ \A r \in 0..K : From(a, r) \in Nat
           /\ \A x \in 0..OMEGA-1 : x \in HintArea /\ a[x] \in Byte
<1>1. \A x \in 0..OMEGA-1 : x \in HintArea /\ a[x] \in Byte
  BY Sizes DEF HintArea
<1>2. \A r \in 0..K-1 : OMEGA + r \in HintArea
  BY Sizes DEF HintArea
<1>3. \A r \in 0..K-1 : To(a, r) \in Nat
  BY <1>2, Sizes DEF To, Byte
<1>4. \A r \in 0..K-1 : From(a, r+1) = To(a, r)
  BY Sizes DEF From, To
<1>5. \A r \in 1..K : OMEGA + r - 1 \in HintArea
  BY Sizes DEF HintArea
<1>6. \A r \in 0..K : From(a, r) \in Nat
  BY <1>5, Sizes DEF From, Byte
<1> QED BY <1>1, <1>3, <1>4, <1>6

LEMMA StoreIndex ==
    ASSUME FullTypes, PackInv, PackCoeff, j \in hints[i]
    PROVE  FullTypes' /\ PackInv'
<1>1. /\ pc = "pack" /\ i < K /\ i \in 0..K-1 /\ j \in 0..N-1 /\ hints \in HintVector
      /\ area \in [HintArea -> Byte] /\ k \in Nat
  BY Sizes DEF FullTypes, PackInv, PackCoeff
<1>2. /\ area' = [area EXCEPT ![k] = j] /\ k' = k + 1 /\ j' = j + 1
      /\ hints' = hints /\ h' = h /\ i' = i /\ pc' = pc /\ ret' = ret
  BY DEF PackCoeff
<1>3. /\ k = Rank(Entries(hints), <<i, j>>)
      /\ \A r \in 0..i-1 : RowOk(r) /\ RowHolds(r) /\ To(area, r) <= From(area, i)
      /\ From(area, i) <= k
      /\ \A x \in From(area, i)+1 .. k-1 : area[x] > area[x-1]
      /\ {area[x] : x \in From(area, i) .. k-1} = {v \in hints[i] : v < j}
      /\ \A x \in k..OMEGA-1 : area[x] = 0
  BY <1>1 DEF PackInv
<1>4. /\ hints \in [0..K-1 -> SUBSET (0..N-1)] /\ Cardinality(Entries(hints)) <= OMEGA
      /\ Cardinality(Entries(hints)) \in Nat
  BY <1>1, EntriesArePairs, PairsFinite DEF HintVector
<1>5. k \in 0..OMEGA-1 /\ k' = Rank(Entries(hints), <<i, j+1>>)
  <2>1. <<i, j>> \in Entries(hints)
    BY <1>1, <1>4, EntryOf
  <2>2. /\ k < Cardinality(Entries(hints))
        /\ Rank(Entries(hints), <<i, j+1>>) = k + 1
    BY <1>1, <1>3, <2>1, RankSteps
  <2>3. k \in 0..OMEGA-1
    BY <1>1, <1>4, <2>2, Sizes
  <2> QED BY <1>2, <2>2, <2>3
<1>6. /\ area' \in [HintArea -> Byte] /\ area'[k] = j
      /\ \A y \in 0..OMEGA-1 : y # k => area'[y] = area[y]
      /\ \A r \in 0..K-1 : To(area', r) = To(area, r)
      /\ \A r \in 0..K : From(area', r) = From(area, r)
  <2>1. j \in Byte
    BY <1>1 DEF Byte
  <2>2. area \in [HintArea -> Byte] /\ k \in 0..OMEGA-1 /\ area' = [area EXCEPT ![k] = j]
    BY <1>1, <1>2, <1>5
  <2>3. k \in HintArea /\ \A y \in 0..OMEGA-1 : y \in HintArea
    BY <2>2, Sizes DEF HintArea
  <2>4. area' \in [HintArea -> Byte] /\ area'[k] = j /\ \A y \in HintArea : y # k => area'[y] = area[y]
    BY <2>1, <2>2, <2>3
  <2>5. \A y \in HintArea : y >= OMEGA => area'[y] = area[y]
    BY <2>2, <2>4, Sizes
  <2>6. /\ \A r \in 0..K-1 : To(area', r) = To(area, r)
        /\ \A r \in 0..K : From(area', r) = From(area, r)
    BY <2>2, <2>4, <2>5, CountsStay
  <2> QED BY <2>3, <2>4, <2>6
<1>7. /\ \A r \in 0..K-1 : To(area, r) \in Nat
      /\ \A r \in 0..K : From(area, r) \in Nat
      /\ \A x \in 0..OMEGA-1 : area[x] \in Byte
  BY <1>1, CountTypes
<1>8. \A r \in 0..i-1 : RowOk(r)' /\ RowHolds(r)' /\ To(area', r) <= From(area', i')
  <2> SUFFICES ASSUME NEW r \in 0..i-1
               PROVE  RowOk(r)' /\ RowHolds(r)' /\ To(area', r) <= From(area', i')
    OBVIOUS
  <2>1. /\ r \in 0..K-1 /\ r \in 0..K /\ i \in 0..K
        /\ RowOk(r) /\ RowHolds(r) /\ To(area, r) <= From(area, i) /\ From(area, i) <= k
        /\ To(area, r) \in Nat /\ From(area, r) \in Nat /\ From(area, i) \in Nat
    BY <1>1, <1>3, <1>7, Sizes
  <2>2. \A x \in From(area, r) .. To(area, r)-1 : area'[x] = area[x] 
    BY <1>1, <1>5, <1>6, <2>1, Sizes
  <2>3. \A x \in From(area, r)+1 .. To(area, r)-1 : area'[x] = area[x] /\ area'[x-1] = area[x-1]
    BY <2>1, <2>2
  <2>4. From(area', r) = From(area, r) /\ To(area', r) = To(area, r) /\ From(area', i) = From(area, i)
    BY <1>6, <2>1
  <2>5. RowOk(r)'
    BY <2>1, <2>3, <2>4 DEF RowOk
  <2>6. {area'[x] : x \in From(area, r) .. To(area, r)-1} = {area[x] : x \in From(area, r) .. To(area, r)-1}
    BY <2>2
  <2>7. RowHolds(r)'
    BY <1>2, <2>1, <2>4, <2>6 DEF RowHolds
  <2> QED BY <1>2, <2>1, <2>4, <2>5, <2>7
<1>9. From(area', i') = From(area, i) /\ From(area, i) \in Nat /\ From(area, i) <= k'
  <2>1. i \in 0..K
    BY <1>1, Sizes
  <2>2. From(area', i) = From(area, i) /\ From(area, i) \in Nat
    BY <1>6, <1>7, <2>1
  <2> QED BY <1>1, <1>2, <1>3, <2>2
<1>10. \A x \in From(area, i) .. k-1 : x \in 0..OMEGA-1 /\ x # k /\ area'[x] = area[x]
  <2>1. \A x \in From(area, i) .. k-1 : x \in 0..OMEGA-1 /\ x # k
    BY <1>5, <1>9, Sizes
  <2> QED BY <1>6, <2>1
<1>11. {area'[x] : x \in From(area, i) .. k'-1} = {v \in hints[i] : v < j+1}
  <2>1. From(area, i) .. k'-1 = (From(area, i) .. k-1) \cup {k}
    BY <1>1, <1>2, <1>3, <1>9
  <2>2. {area'[x] : x \in From(area, i) .. k'-1} = {area[x] : x \in From(area, i) .. k-1} \cup {j}
    BY <1>6, <1>10, <2>1
  <2>3. hints[i] \subseteq 0..N-1
    BY <1>1, <1>4
  <2>4. {v \in hints[i] : v < j+1} = {v \in hints[i] : v < j} \cup {j}
    BY <1>1, <2>3
  <2> QED BY <1>3, <2>2, <2>4
<1>12. \A x \in From(area, i)+1 .. k'-1 : area'[x] > area'[x-1]
  <2>1. \A x \in From(area, i)+1 .. k-1 : area'[x] > area'[x-1]
    BY <1>1, <1>3, <1>9, <1>10
  <2>2. k > From(area, i) => area'[k] > area'[k-1]
    <3> SUFFICES ASSUME k > From(area, i) PROVE area'[k] > area'[k-1]
      OBVIOUS
    <3>1. k-1 \in From(area, i) .. k-1
      BY <1>1, <1>9
    <3>2. area[k-1] \in {v \in hints[i] : v < j}
      BY <1>3, <3>1
    <3>3. area'[k-1] = area[k-1] /\ area[k-1] < j /\ area[k-1] \in Int
      BY <1>7, <1>10, <3>1, <3>2, Sizes DEF Byte
    <3> QED BY <1>1, <1>6, <3>3
  <2>3. \A x \in From(area, i)+1 .. k'-1 : x \in From(area, i)+1 .. k-1 \/ (x = k /\ k > From(area, i))
    BY <1>1, <1>2, <1>9
  <2> QED BY <2>1, <2>2, <2>3
<1>13. \A x \in k'..OMEGA-1 : area'[x] = 0
  BY <1>1, <1>2, <1>3, <1>5, <1>6
<1>14. FullTypes'
  BY <1>1, <1>2, <1>5, <1>6, Sizes DEF FullTypes
<1>15. h' = Indeterminate /\ hints' \in HintVector /\ i' \in 0..K /\ j' \in 0..N /\ i' # K
  BY <1>1, <1>2, Sizes DEF PackInv
<1> QED BY <1>2, <1>5, <1>8, <1>9, <1>11, <1>12, <1>13, <1>14, <1>15 DEF PackInv

LEMMA SkipIndex ==
    ASSUME FullTypes, PackInv, PackCoeff, j \notin hints[i]
    PROVE  FullTypes' /\ PackInv'
<1>1. /\ pc = "pack" /\ i < K /\ i \in 0..K-1 /\ j \in 0..N-1 /\ hints \in HintVector
      /\ area \in [HintArea -> Byte] /\ k \in Nat
  BY Sizes DEF FullTypes, PackInv, PackCoeff
<1>2. /\ area' = area /\ k' = k /\ j' = j + 1
      /\ hints' = hints /\ h' = h /\ i' = i /\ pc' = pc /\ ret' = ret
  BY DEF PackCoeff
<1>3. hints \in [0..K-1 -> SUBSET (0..N-1)]
  BY <1>1 DEF HintVector
<1>4. k' = Rank(Entries(hints), <<i, j+1>>)
  <2>1. <<i, j>> \notin Entries(hints)
    BY <1>1, <1>3, EntryOf
  <2>2. k = Rank(Entries(hints), <<i, j>>)
    BY <1>1 DEF PackInv
  <2> QED BY <1>1, <1>2, <2>1, <2>2, RankSteps
<1>5. {v \in hints[i] : v < j+1} = {v \in hints[i] : v < j}
  <2>1. hints[i] \subseteq 0..N-1
    BY <1>1, <1>3
  <2> QED BY <1>1, <2>1
<1>6. FullTypes'
  BY <1>1, <1>2, Sizes DEF FullTypes
<1>7. \A r \in 0..i-1 : RowOk(r)' /\ RowHolds(r)' /\ To(area', r) <= From(area', i')
  BY <1>1, <1>2 DEF PackInv, RowOk, RowHolds
<1>8. /\ From(area', i') <= k'
      /\ \A x \in From(area', i')+1 .. k'-1 : area'[x] > area'[x-1]
      /\ {area'[x] : x \in From(area', i') .. k'-1} = {v \in hints'[i'] : v < j'}
      /\ \A x \in k'..OMEGA-1 : area'[x] = 0
  BY <1>1, <1>2, <1>5 DEF PackInv
<1>9. h' = Indeterminate /\ hints' \in HintVector /\ i' \in 0..K /\ j' \in 0..N /\ i' # K
  BY <1>1, <1>2, Sizes DEF PackInv
<1> QED BY <1>2, <1>4, <1>6, <1>7, <1>8, <1>9 DEF PackInv

LEMMA StoreCount ==
    ASSUME FullTypes, PackInv, PackCount
    PROVE  FullTypes' /\ PackInv'
<1>1. /\ pc = "pack" /\ i < K /\ i \in 0..K-1 /\ j = N /\ hints \in HintVector
      /\ area \in [HintArea -> Byte] /\ k \in 0..OMEGA
  BY Sizes DEF FullTypes, PackInv, PackCount
<1>2. /\ area' = [area EXCEPT ![OMEGA + i] = k] /\ i' = i + 1 /\ j' = 0
      /\ k' = k /\ hints' = hints /\ h' = h /\ pc' = pc /\ ret' = ret
  BY DEF PackCount, WithCount
<1>3. /\ k = Rank(Entries(hints), <<i, N>>)
      /\ \A r \in 0..i-1 : RowOk(r) /\ RowHolds(r) /\ To(area, r) <= From(area, i)
      /\ From(area, i) <= k
      /\ \A x \in From(area, i)+1 .. k-1 : area[x] > area[x-1]
      /\ {area[x] : x \in From(area, i) .. k-1} = {v \in hints[i] : v < N}
      /\ \A x \in k..OMEGA-1 : area[x] = 0
  BY <1>1 DEF PackInv
<1>4. hints \in [0..K-1 -> SUBSET (0..N-1)] /\ hints[i] \subseteq 0..N-1
  BY <1>1 DEF HintVector
<1>5. k' = Rank(Entries(hints), <<i+1, 0>>)
  BY <1>1, <1>2, <1>3, RankOfRow
<1>6. /\ area' \in [HintArea -> Byte] /\ area'[OMEGA + i] = k
      /\ \A y \in HintArea : y # OMEGA + i => area'[y] = area[y]
  <2>1. OMEGA + i \in HintArea
    BY <1>1, Sizes DEF HintArea
  <2>2. k \in Byte
    BY <1>1, HintAssumption DEF Byte
  <2> QED BY <1>1, <1>2, <2>1, <2>2
<1>7. /\ \A r \in 0..K-1 : To(area, r) \in Nat
      /\ \A r \in 0..K : From(area, r) \in Nat
      /\ \A x \in 0..OMEGA-1 : x \in HintArea /\ area[x] \in Byte
  BY <1>1, CountTypes
<1>8. /\ To(area', i) = k /\ From(area', i+1) = k
      /\ \A r \in 0..i-1 : To(area', r) = To(area, r)
      /\ \A r \in 0..i : From(area', r) = From(area, r)
  <2>1. To(area', i) = k
    BY <1>6 DEF To
  <2>2. From(area', i+1) = k
    BY <1>1, <2>1 DEF From, To
  <2>3. \A r \in 0..i-1 : OMEGA + r \in HintArea /\ OMEGA + r # OMEGA + i
    BY <1>1, Sizes DEF HintArea
  <2>4. \A r \in 0..i-1 : To(area', r) = To(area, r)
    BY <1>6, <2>3 DEF To
  <2>5. \A r \in 1..i : OMEGA + r - 1 \in HintArea /\ OMEGA + r - 1 # OMEGA + i
    BY <1>1, Sizes DEF HintArea
  <2>6. \A r \in 0..i : From(area', r) = From(area, r)
    BY <1>6, <2>5 DEF From
  <2> QED BY <2>1, <2>2, <2>4, <2>6
<1>9. \A x \in 0..OMEGA-1 : area'[x] = area[x]
  BY <1>1, <1>6, <1>7, Sizes
<1>10. \A r \in 0..i : RowOk(r)' /\ RowHolds(r)' /\ To(area', r) <= From(area', i')
  <2> SUFFICES ASSUME NEW r \in 0..i
               PROVE  RowOk(r)' /\ RowHolds(r)' /\ To(area', r) <= From(area', i')
    OBVIOUS
  <2>1. i \in 0..K /\ r \in 0..K-1 /\ r \in 0..K /\ From(area, i) \in Nat /\ From(area, r) \in Nat
    BY <1>1, <1>7, Sizes
  <2>2. From(area', i') = k
    BY <1>2, <1>8
  <2>3. CASE r = i
    <3>1. From(area', r) = From(area, i) /\ To(area', r) = k
      BY <1>8, <2>3
    <3>2. \A x \in From(area, i) .. k-1 : area'[x] = area[x]
      <4>1. \A x \in From(area, i) .. k-1 : x \in 0..OMEGA-1
        BY <1>1, <2>1, Sizes
      <4> QED BY <1>9, <4>1
    <3>3. \A x \in From(area, i)+1 .. k-1 : area'[x] = area[x] /\ area'[x-1] = area[x-1]
      BY <1>1, <2>1, <3>2
    <3>4. RowOk(r)'
      <4>1. From(area, i) <= k /\ k <= OMEGA
        BY <1>1, <1>3
      <4>2. \A x \in From(area, i)+1 .. k-1 : area'[x] > area'[x-1]
        BY <1>3, <3>3
      <4> QED BY <3>1, <4>1, <4>2 DEF RowOk
    <3>5. {v \in hints[i] : v < N} = hints[i]
      BY <1>4, Sizes
    <3>6. {area'[x] : x \in From(area, i) .. k-1} = hints[i]
      BY <1>3, <3>2, <3>5
    <3>7. RowHolds(r)'
      BY <1>2, <2>3, <3>1, <3>6 DEF RowHolds
    <3> QED BY <1>1, <2>2, <3>1, <3>4, <3>7
  <2>4. CASE r # i
    <3>0. r \in 0..i-1
      BY <1>1, <2>4
    <3>1. /\ RowOk(r) /\ RowHolds(r) /\ To(area, r) <= From(area, i) /\ From(area, i) <= k
          /\ To(area, r) \in Nat
      BY <1>3, <1>7, <2>1, <3>0
    <3>2. From(area', r) = From(area, r) /\ To(area', r) = To(area, r)
      BY <1>8, <3>0
    <3>3. \A x \in From(area, r) .. To(area, r)-1 : area'[x] = area[x]
      <4>1. \A x \in From(area, r) .. To(area, r)-1 : x \in 0..OMEGA-1
        BY <1>1, <2>1, <3>1, Sizes
      <4> QED BY <1>9, <4>1
    <3>4. \A x \in From(area, r)+1 .. To(area, r)-1 : area'[x] = area[x] /\ area'[x-1] = area[x-1]
      BY <2>1, <3>1, <3>3
    <3>5. RowOk(r)'
      BY <3>1, <3>2, <3>4 DEF RowOk
    <3>6. {area'[x] : x \in From(area, r) .. To(area, r)-1} = {area[x] : x \in From(area, r) .. To(area, r)-1}
      BY <3>3
    <3>7. RowHolds(r)'
      BY <1>2, <3>1, <3>2, <3>6 DEF RowHolds
    <3>8. To(area', r) <= From(area', i')
      BY <1>1, <2>1, <2>2, <3>1, <3>2
    <3> QED BY <3>5, <3>7, <3>8
  <2> QED BY <2>3, <2>4
<1>11. \A x \in k'..OMEGA-1 : area'[x] = 0
  BY <1>1, <1>2, <1>3, <1>9
<1>12. FullTypes'
  <2>1. i' \in 0..K /\ j' \in 0..N
    BY <1>1, <1>2, Sizes
  <2> QED BY <1>1, <1>2, <1>6, <2>1 DEF FullTypes
<1>13. h' = Indeterminate /\ hints' \in HintVector /\ i' \in 0..K /\ j' \in 0..N /\ j' = 0
  BY <1>1, <1>2, Sizes DEF PackInv
<1>14. From(area', i') = k' /\ k \in Nat /\ k' \in Nat
  BY <1>1, <1>2, <1>8
<1>15. \A r \in 0..i'-1 : RowOk(r)' /\ RowHolds(r)' /\ To(area', r) <= From(area', i')
  <2>1. 0..i'-1 = 0..i
    BY <1>1, <1>2
  <2> QED BY <1>10, <2>1
<1>16. i' < K => {area'[x] : x \in From(area', i') .. k'-1} = {v \in hints'[i'] : v < j'}
  <2> SUFFICES ASSUME i' < K PROVE {area'[x] : x \in From(area', i') .. k'-1} = {v \in hints'[i'] : v < j'}
    OBVIOUS
  <2>1. From(area', i') .. k'-1 = {}
    BY <1>2, <1>14
  <2>2. i' \in 0..K-1
    BY <1>1, <1>2, Sizes
  <2>3. hints'[i'] \subseteq 0..N-1
    BY <1>2, <1>4, <2>2
  <2>4. {v \in hints'[i'] : v < j'} = {}
    BY <1>2, <2>3, Sizes
  <2> QED BY <2>1, <2>4
<1>17. /\ k' = Rank(Entries(hints'), <<i', j'>>)
       /\ From(area', i') <= k' /\ \A x \in From(area', i')+1 .. k'-1 : area'[x] > area'[x-1]
       /\ i' = K => k' = From(area', K)
  <2>1. \A n \in Nat : n <= n /\ \A x \in n+1 .. n-1 : FALSE
    OBVIOUS
  <2>2. From(area', i') <= k' /\ \A x \in From(area', i')+1 .. k'-1 : area'[x] > area'[x-1]
    BY <1>14, <2>1
  <2>3. k' = Rank(Entries(hints'), <<i', j'>>)
    BY <1>2, <1>5
  <2>4. i' = K => k' = From(area', K)
    BY <1>14
  <2> QED BY <2>2, <2>3, <2>4
<1> QED BY <1>11, <1>12, <1>13, <1>15, <1>16, <1>17 DEF PackInv

LEMMA PackingDone ==
    ASSUME FullTypes, PackInv, Packed
    PROVE  FullTypes' /\ PackInv' /\ PackedInv'
<1>1. /\ pc = "pack" /\ i = K /\ hints \in HintVector /\ area \in [HintArea -> Byte]
      /\ i' = 0 /\ j' = 0 /\ k' = 0 /\ pc' = "row"
      /\ hints' = hints /\ h' = h /\ area' = area /\ ret' = ret
  BY DEF FullTypes, PackInv, Packed
<1>2. /\ \A r \in 0..K-1 : RowOk(r) /\ RowHolds(r)
      /\ k = From(area, K)
      /\ \A x \in k..OMEGA-1 : area[x] = 0
  BY <1>1 DEF PackInv
<1>3. k = To(area, K-1)
  BY <1>1, <1>2, Sizes, CountTypes DEF From, To
<1>4. HintsOk(area)
  BY <1>2, <1>3 DEF HintsOk, RowOk
<1>5. UnpackHints(area) = hints
  <2>1. hints \in [0..K-1 -> SUBSET (0..N-1)]
    BY <1>1 DEF HintVector
  <2>2. \A r \in 0..K-1 : {area[x] : x \in From(area, r) .. To(area, r)-1} = hints[r]
    BY <1>2 DEF RowHolds
  <2> QED BY <2>1, <2>2 DEF UnpackHints
<1>6. FullTypes'
  BY <1>1, Sizes DEF FullTypes
<1> QED BY <1>1, <1>4, <1>5, <1>6 DEF PackInv, PackedInv

LEMMA PackingStarts == Init => FullTypes /\ PackInv /\ PackedInv
<1> SUFFICES ASSUME Init PROVE FullTypes /\ PackInv /\ PackedInv
  OBVIOUS
<1>1. /\ h = Indeterminate /\ i = 0 /\ j = 0 /\ k = 0 /\ ret = -1
      /\ Indeterminate \in [0..K-1 -> SUBSET (0..N-1)] /\ 0 \in Byte
  BY Sizes DEF Init, Indeterminate, Byte
<1>2. CASE hints \in HintVector /\ area = [p \in HintArea |-> 0] /\ pc = "pack"
  <2>1. area \in [HintArea -> Byte] /\ \A x \in 0..OMEGA-1 : area[x] = 0
    <3>1. \A x \in 0..OMEGA-1 : x \in HintArea
      BY Sizes DEF HintArea
    <3> QED BY <1>1, <1>2, <3>1
  <2>2. FullTypes
    BY <1>1, <1>2, <2>1, Sizes DEF FullTypes
  <2>3. k = Rank(Entries(hints), <<i, j>>)
    BY <1>1, RankAtStart
  <2>4. From(area, 0) = 0 /\ 0..0-1 = {} /\ 0 # K /\ 0 \in 0..K /\ 0 \in 0..N
    BY Sizes DEF From
  <2>5. {v \in hints[0] : v < 0} = {}
    <3>1. hints[0] \subseteq 0..N-1
      BY <1>2, Sizes DEF HintVector
    <3> QED BY <3>1, Sizes
  <2>6. PackInv
    BY <1>1, <1>2, <2>1, <2>3, <2>4, <2>5 DEF PackInv
  <2> QED BY <1>2, <2>2, <2>6 DEF PackedInv
<1>3. CASE hints = <<>> /\ area \in [HintArea -> Byte] /\ pc = "row"
  BY <1>1, <1>3, Sizes DEF FullTypes, PackInv, PackedInv
<1> QED BY <1>2, <1>3 DEF Init

-----------------------------------------------------------------------------
(* unpack_sig reads what pack_sig would write for the vector it leaves.    *)

LEMMA SeenArePairs == Seen \in SUBSET Pairs /\ Seen \in SUBSET Entries(h)
  BY EntriesArePairs DEF Seen

LEMMA NothingRead == i = 0 /\ pc = "row" /\ k = 0 => ReadInv /\ LastInv
<1> SUFFICES ASSUME i = 0, pc = "row", k = 0 PROVE ReadInv /\ LastInv
  OBVIOUS
<1>1. Seen = {}
  <2> SUFFICES ASSUME NEW q \in Seen PROVE FALSE
    OBVIOUS
  <2>1. q[1] \in Int /\ q[1] >= 0 /\ (q[1] < i \/ (q[1] = i /\ pc = "index"))
    BY SeenArePairs, PairParts, Sizes DEF Seen
  <2> QED BY <2>1
<1>2. Reads(Seen, k)
  BY <1>1, FS_EmptySet DEF Reads
<1> QED BY <1>2 DEF ReadInv, LastInv

LEMMA RowStartReads ==
    ASSUME FullTypes, ReadInv, RowStart
    PROVE  FullTypes' /\ ReadInv' /\ LastInv'
<1>1. /\ pc = "row" /\ i \in 0..K-1 /\ h' = [h EXCEPT ![i] = {}]
      /\ hints' = hints /\ area' = area /\ i' = i /\ k' = k
      /\ h \in [0..K-1 -> SUBSET (0..N-1)] /\ k \in 0..OMEGA
  BY Sizes DEF FullTypes, RowStart
<1>2. h' \in [0..K-1 -> SUBSET (0..N-1)]
  BY <1>1
<1>3. CASE CountOk(area, i, k)
  <2>1. pc' = "index" /\ j' = k /\ ret' = ret
    BY <1>3 DEF RowStart
  <2>2. FullTypes'
    BY <1>1, <1>2, <2>1, Sizes DEF FullTypes
  <2>3. \A q \in Pairs : q \in Seen' <=> q \in Seen
    <3> SUFFICES ASSUME NEW q \in Pairs PROVE q \in Seen' <=> q \in Seen
      OBVIOUS
    <3>1. q[1] \in 0..K-1 /\ (q[1] # i => h'[q[1]] = h[q[1]]) /\ h'[i] = {}
      BY <1>1, PairParts
    <3>2. q \in Seen <=> q[2] \in h[q[1]] /\ q[1] < i
      BY <1>1, <3>1 DEF Seen, Entries, Pairs
    <3>3. q \in Seen' <=> q[2] \in h'[q[1]] /\ (q[1] < i \/ q[1] = i)
      BY <1>1, <2>1, <3>1 DEF Seen, Entries, Pairs
    <3> QED BY <1>1, <3>1, <3>2, <3>3, Sizes
  <2>4. Seen' = Seen
    <3>1. Seen' \in SUBSET Pairs
      BY EntriesArePairs DEF Seen
    <3> QED BY <2>3, <3>1, SeenArePairs
  <2>5. Reads(Seen, k) /\ \A r \in 0..i-1 : To(area, r) = Rank(Seen, <<r+1, 0>>)
    BY <1>1 DEF ReadInv
  <2>6. ReadInv'
    BY <1>1, <2>1, <2>4, <2>5 DEF ReadInv, Reads
  <2>7. \A q \in Seen : q[1] < i
    BY <1>1 DEF Seen
  <2>8. LastInv'
    <3>1. \A q \in Seen : q[1] # i
      BY <1>1, <2>7, Sizes
    <3> QED BY <1>1, <2>4, <3>1 DEF LastInv
  <2> QED BY <2>2, <2>6, <2>8
<1>4. CASE ~CountOk(area, i, k)
  <2>1. pc' = "done" /\ j' = j /\ ret' = 1
    BY <1>4 DEF RowStart, Return
  <2>2. FullTypes'
    BY <1>1, <1>2, <2>1, Sizes DEF FullTypes
  <2> QED BY <2>1, <2>2 DEF ReadInv, LastInv
<1> QED BY <1>3, <1>4

LEMMA RowIndexReads ==
    ASSUME FullTypes, CInv, ReadInv, LastInv, RowIndex
    PROVE  FullTypes' /\ ReadInv' /\ LastInv'
<1>1. /\ pc = "index" /\ i \in 0..K-1 /\ j \in Nat /\ k \in 0..OMEGA /\ k <= j /\ j < To(area, i)
      /\ hints' = hints /\ area' = area /\ i' = i /\ k' = k
      /\ h \in [0..K-1 -> SUBSET (0..N-1)] /\ area \in [HintArea -> Byte]
  BY Sizes DEF FullTypes, CInv, IndexInv, RowIndex, To
<1>2. j \in 0..OMEGA-1 /\ area[j] \in 0..N-1
  <2>1. To(area, i) \in Nat /\ To(area, i) <= OMEGA
    BY <1>1, CountTypes DEF CInv, IndexInv
  <2>2. j \in 0..OMEGA-1
    BY <1>1, <2>1, Sizes
  <2> QED BY <1>1, <2>2, CountTypes DEF Byte
<1>3. CASE NotIncreasing(area, j, k)
  <2>1. pc' = "done" /\ ret' = 1 /\ h' = h /\ j' = j
    BY <1>3 DEF RowIndex, Return
  <2>2. FullTypes'
    BY <1>1, <1>2, <2>1, Sizes DEF FullTypes
  <2> QED BY <2>1, <2>2 DEF ReadInv, LastInv
<1>4. CASE ~NotIncreasing(area, j, k)
  <2>1. pc' = pc /\ ret' = ret /\ h' = [h EXCEPT ![i] = @ \cup {area[j]}] /\ j' = j + 1
    BY <1>4 DEF RowIndex
  <2>2. h' \in [0..K-1 -> SUBSET (0..N-1)]
    BY <1>1, <1>2, <2>1
  <2>3. FullTypes'
    <3>1. j' \in 0..OMEGA /\ j' \in Nat
      BY <1>2, <2>1, Sizes
    <3> QED BY <1>1, <2>1, <2>2, <3>1 DEF FullTypes
  <2> DEFINE new == <<i, area[j]>>
  <2>4. new \in Pairs /\ new[1] = i /\ new[2] = area[j]
    BY <1>1, <1>2 DEF Pairs
  <2>5. Seen' = Seen \cup {new}
    <3>1. \A q \in Pairs : q \in Seen' <=> q \in Seen \/ q = new
      <4> SUFFICES ASSUME NEW q \in Pairs PROVE q \in Seen' <=> q \in Seen \/ q = new
        OBVIOUS
      <4>1. /\ q[1] \in 0..K-1 /\ q = <<q[1], q[2]>>
            /\ (q[1] # i => h'[q[1]] = h[q[1]]) /\ h'[i] = h[i] \cup {area[j]}
        BY <1>1, <2>1, PairParts
      <4>2. q \in Seen <=> q[2] \in h[q[1]] /\ (q[1] < i \/ q[1] = i)
        BY <1>1 DEF Seen, Entries, Pairs
      <4>3. q \in Seen' <=> q[2] \in h'[q[1]] /\ (q[1] < i \/ q[1] = i)
        BY <1>1, <2>1 DEF Seen, Entries, Pairs
      <4>4. q = new <=> q[1] = i /\ q[2] = area[j]
        BY <2>4, <4>1
      <4> QED BY <4>1, <4>2, <4>3, <4>4
    <3>2. Seen' \in SUBSET Pairs
      BY EntriesArePairs DEF Seen
    <3> QED BY <2>4, <3>1, <3>2, SeenArePairs
  <2>6. \A e \in Seen : Earlier(e, new)
    <3> SUFFICES ASSUME NEW e \in Seen PROVE Earlier(e, new)
      OBVIOUS
    <3>1. e \in Pairs /\ (e[1] < i \/ e[1] = i)
      BY SeenArePairs DEF Seen
    <3>2. CASE e[1] = i
      <4>1. j > k /\ e[2] <= area[j-1]
        BY <1>1, <3>2 DEF LastInv
      <4>2. j-1 \in 0..OMEGA-1 /\ ~(area[j] <= area[j-1])
        BY <1>1, <1>2, <1>4, <4>1, Sizes DEF NotIncreasing
      <4>3. area[j-1] \in Int /\ area[j] \in Int /\ e[2] \in Int
        BY <1>1, <1>2, <3>1, <4>2, CountTypes, PairParts, Sizes DEF Byte
      <4> QED BY <2>4, <3>2, <4>1, <4>2, <4>3 DEF Earlier
    <3> QED BY <2>4, <3>1, <3>2 DEF Earlier
  <2> HIDE DEF new
  <2>7. /\ Reads(Seen, j) /\ Cardinality(Seen) = j
        /\ \A r \in 0..i-1 : To(area, r) = Rank(Seen, <<r+1, 0>>)
    BY <1>1 DEF ReadInv, Reads
  <2>8. /\ Cardinality(Seen') = j + 1
        /\ Rank(Seen', new) = j
        /\ \A e \in Seen : Rank(Seen', e) = Rank(Seen, e)
    BY <2>4, <2>5, <2>6, <2>7, SeenArePairs, RankOfLast
  <2>9. Reads(Seen, j)'
    <3>1. \A x \in 0..j : \E q \in Seen' : q[2] = area[x] /\ Rank(Seen', q) = x
      <4> SUFFICES ASSUME NEW x \in 0..j
                   PROVE  \E q \in Seen' : q[2] = area[x] /\ Rank(Seen', q) = x
        OBVIOUS
      <4>1. CASE x = j
        BY <2>4, <2>5, <2>8, <4>1
      <4>2. CASE x # j
        <5>1. x \in 0..j-1
          BY <1>1, <4>2
        <5>2. PICK q \in Seen : q[2] = area[x] /\ Rank(Seen, q) = x
          BY <2>7, <5>1 DEF Reads
        <5> QED BY <2>5, <2>8, <5>2
      <4> QED BY <4>1, <4>2
    <3>2. 0..j'-1 = 0..j
      BY <1>1, <2>1
    <3> QED BY <1>1, <2>1, <2>8, <3>1, <3>2 DEF Reads
  <2>10. \A r \in 0..i-1 : To(area, r) = Rank(Seen', <<r+1, 0>>)
    <3> SUFFICES ASSUME NEW r \in 0..i-1 PROVE Rank(Seen', <<r+1, 0>>) = Rank(Seen, <<r+1, 0>>)
      BY <2>7
    <3>1. ~Earlier(new, <<r+1, 0>>)
      BY <1>1, <1>2, <2>4, Sizes DEF Earlier
    <3>2. {e \in Seen' : Earlier(e, <<r+1, 0>>)} = {e \in Seen : Earlier(e, <<r+1, 0>>)}
      BY <2>5, <3>1
    <3> QED BY <3>2 DEF Rank
  <2>11. ReadInv'
    BY <1>1, <2>1, <2>9, <2>10 DEF ReadInv, To
  <2>12. LastInv'
    <3>1. j' > k' /\ j'-1 = j
      BY <1>1, <2>1
    <3>2. \A q \in Seen' : q[1] = i => q[2] <= area[j]
      <4> SUFFICES ASSUME NEW q \in Seen', q[1] = i PROVE q[2] <= area[j]
        OBVIOUS
      <4>1. q = new \/ Earlier(q, new)
        BY <2>5, <2>6
      <4>2. i \in Int /\ area[j] \in Int
        BY <1>1, <1>2, Sizes
      <4>3. CASE q = new
        BY <2>4, <4>2, <4>3
      <4>4. CASE Earlier(q, new)
        <5>1. q \in Pairs
          BY <2>5, <4>4, <2>4, SeenArePairs
        <5>2. q[2] \in Int
          BY <5>1, PairParts, Sizes
        <5> QED BY <2>4, <4>2, <4>4, <5>2 DEF Earlier
      <4> QED BY <4>1, <4>3, <4>4
    <3> QED BY <1>1, <3>1, <3>2 DEF LastInv
  <2> QED BY <2>3, <2>11, <2>12
<1> QED BY <1>3, <1>4

LEMMA RowEndReads ==
    ASSUME FullTypes, CInv, ReadInv, RowEnd
    PROVE  FullTypes' /\ ReadInv' /\ LastInv'
<1>1. /\ pc = "index" /\ i \in 0..K-1 /\ j \in 0..OMEGA /\ j = To(area, i)
      /\ hints' = hints /\ area' = area /\ i' = i + 1 /\ k' = To(area, i) /\ j' = j
      /\ h' = h /\ pc' = "row" /\ ret' = ret
      /\ area \in [HintArea -> Byte]
  <2>1. pc = "index" /\ i < K /\ j <= To(area, i) /\ ~(j < To(area, i))
    BY DEF CInv, IndexInv, RowEnd, To
  <2>2. i \in 0..K-1 /\ j \in 0..OMEGA /\ area \in [HintArea -> Byte]
    BY <2>1, Sizes DEF FullTypes
  <2>3. To(area, i) \in Nat
    BY <2>2, CountTypes
  <2>4. j = To(area, i)
    BY <2>1, <2>2, <2>3
  <2> QED BY <2>1, <2>2, <2>4 DEF RowEnd, To
<1>2. FullTypes'
  <2>1. i' \in 0..K
    BY <1>1, Sizes
  <2> QED BY <1>1, <2>1 DEF FullTypes
<1>3. Seen' = Seen /\ \A q \in Seen : Earlier(q, <<i+1, 0>>)
  <2>1. \A q \in Pairs : q[1] \in Int
    BY PairParts, Sizes
  <2>2. \A q \in Pairs : q[1] < i+1 <=> q[1] < i \/ q[1] = i
    BY <1>1, <2>1
  <2>3. Seen' = {q \in Entries(h) : q[1] < i+1}
    BY <1>1 DEF Seen
  <2>4. Seen = {q \in Entries(h) : q[1] < i \/ q[1] = i}
    BY <1>1 DEF Seen
  <2>5. Seen' = Seen
    BY <2>2, <2>3, <2>4, EntriesArePairs
  <2>6. \A q \in Seen : q[1] < i+1
    BY <2>3, <2>5
  <2> QED BY <2>5, <2>6 DEF Earlier
<1>4. Reads(Seen, j) /\ Cardinality(Seen) = j /\ \A r \in 0..i-1 : To(area, r) = Rank(Seen, <<r+1, 0>>)
  BY <1>1 DEF ReadInv, Reads
<1>5. To(area, i) = Rank(Seen, <<i+1, 0>>)
  <2>1. {e \in Seen : Earlier(e, <<i+1, 0>>)} = Seen
    BY <1>3
  <2> QED BY <1>1, <1>4, <2>1 DEF Rank
<1>6. \A r \in 0..i'-1 : To(area, r) = Rank(Seen, <<r+1, 0>>)
  <2>1. \A r \in 0..i'-1 : r \in 0..i-1 \/ r = i
    BY <1>1
  <2> QED BY <1>4, <1>5, <2>1
<1>7. ReadInv'
  BY <1>1, <1>3, <1>4, <1>6 DEF ReadInv, Reads, To
<1> QED BY <1>1, <1>2, <1>7 DEF LastInv

LEMMA TailReads ==
    ASSUME FullTypes, ReadInv, TailStart \/ Tail
    PROVE  FullTypes' /\ ReadInv' /\ LastInv'
<1>1. /\ pc \in {"row", "tail"} /\ pc' \in {"tail", "done"} /\ pc' # "index"
      /\ hints' = hints /\ area' = area /\ i' = i /\ k' = k /\ h' = h
      /\ ret' \in {-1, 0, 1}
  BY DEF TailStart, Tail, Return, FullTypes
<1>2. j' \in 0..OMEGA /\ j' \in Nat
  <2>1. CASE TailStart
    BY <2>1, Sizes DEF TailStart, FullTypes
  <2>2. CASE Tail
    <3>1. j \in 0..OMEGA /\ (j' = j \/ (j # OMEGA /\ j' = j + 1))
      BY <2>2 DEF Tail, FullTypes
    <3> QED BY <3>1, Sizes
  <2> QED BY <2>1, <2>2
<1>3. FullTypes'
  BY <1>1, <1>2 DEF FullTypes
<1>4. Seen' = Seen
  BY <1>1 DEF Seen
<1>5. Reads(Seen, k) /\ \A r \in 0..i-1 : To(area, r) = Rank(Seen, <<r+1, 0>>)
  BY <1>1 DEF ReadInv
<1>6. ReadInv'
  BY <1>1, <1>4, <1>5 DEF ReadInv, Reads, To
<1> QED BY <1>1, <1>3, <1>6 DEF LastInv

\* At the end of an accepted area, it is what pack_sig writes for h.
LEMMA ReadAll ==
    ASSUME FullTypes, CInv, ReadInv, pc = "tail", j = OMEGA
    PROVE  h \in HintVector /\ area = PackHints(h)
<1> DEFINE E == Entries(h)
<1>1. /\ i = K /\ k = To(area, K-1) /\ k \in 0..OMEGA
      /\ \A x \in k .. OMEGA-1 : area[x] = 0
      /\ h \in [0..K-1 -> SUBSET (0..N-1)] /\ area \in [HintArea -> Byte]
  BY DEF FullTypes, CInv, TailInv
<1>2. Seen = E
  <2>1. \A q \in E : q[1] < K
    BY EntriesArePairs, PairParts, Sizes
  <2> QED BY <1>1, <2>1 DEF Seen
<1>3. /\ Cardinality(E) = k
      /\ \A x \in 0..k-1 : \E q \in E : q[2] = area[x] /\ Rank(E, q) = x
      /\ \A r \in 0..K-1 : To(area, r) = Rank(E, <<r+1, 0>>)
  BY <1>1, <1>2 DEF ReadInv, Reads
<1>4. h \in HintVector
  BY <1>1, <1>3 DEF HintVector
<1>5. \A p \in HintArea : area[p] = PackHints(h)[p]
  <2> SUFFICES ASSUME NEW p \in HintArea PROVE area[p] = PackHints(h)[p]
    OBVIOUS
  <2>1. p \in Nat /\ p <= OMEGA+K-1
    BY Sizes DEF HintArea
  <2>2. CASE p >= OMEGA
    <3>1. p - OMEGA \in 0..K-1 /\ OMEGA + (p - OMEGA) = p
      BY <2>1, <2>2, Sizes
    <3>2. To(area, p - OMEGA) = area[p]
      BY <3>1 DEF To
    <3>3. area[p] = Rank(E, <<p - OMEGA + 1, 0>>)
      BY <1>3, <3>1, <3>2
    <3> QED BY <2>2, <3>3 DEF PackHints
  <2>3. CASE p < OMEGA /\ p < k
    <3>1. PICK q \in E : q[2] = area[p] /\ Rank(E, q) = p
      <4>1. p \in 0..k-1
        BY <1>1, <2>1, <2>3
      <4> QED BY <1>3, <4>1
    <3>2. \A a \in E : Rank(E, a) = p => a = q
      BY <3>1, RanksDiffer, EntriesArePairs
    <3>3. (CHOOSE a \in E : Rank(E, a) = p) = q
      BY <3>1, <3>2
    <3>4. ~(p >= OMEGA) /\ p < Cardinality(E)
      BY <1>3, <2>1, <2>3, Sizes
    <3>5. PackHints(h)[p] = (CHOOSE a \in E : Rank(E, a) = p)[2]
      BY <3>4 DEF PackHints
    <3> QED BY <3>1, <3>3, <3>5
  <2>4. CASE p < OMEGA /\ ~(p < k)
    <3>1. p \in k .. OMEGA-1 /\ ~(p >= OMEGA) /\ ~(p < Cardinality(E))
      BY <1>1, <1>3, <2>1, <2>4, Sizes
    <3> QED BY <1>1, <3>1 DEF PackHints
  <2> QED BY <2>1, <2>2, <2>3, <2>4, Sizes
<1>6. PackHints(h) = [p \in HintArea |-> PackHints(h)[p]]
  BY DEF PackHints
<1>7. area = [p \in HintArea |-> area[p]]
  BY <1>1
<1> QED BY <1>4, <1>5, <1>6, <1>7

-----------------------------------------------------------------------------
HInv == CInv /\ FullTypes /\ PackInv /\ PackedInv /\ ReadInv /\ LastInv /\ Canonical

LEMMA HInvStarts == Init => HInv
<1> SUFFICES ASSUME Init PROVE HInv
  OBVIOUS
<1>1. i = 0 /\ k = 0 /\ pc \in {"pack", "row"}
  BY DEF Init
<1>2. ReadInv /\ LastInv
  BY <1>1, NothingRead DEF ReadInv, LastInv
<1> QED BY <1>1, <1>2, CInvStarts, PackingStarts DEF HInv, Canonical

LEMMA HInvStays == HInv /\ [Next]_vars => HInv'
<1> SUFFICES ASSUME HInv, [Next]_vars PROVE HInv'
  OBVIOUS
<1>1. CInv /\ FullTypes /\ PackInv /\ PackedInv /\ ReadInv /\ LastInv /\ Canonical
  BY DEF HInv
<1>2. CInv'
  BY <1>1, CInvStays
<1>3. CASE PackCoeff
  <2>1. FullTypes' /\ PackInv'
    BY <1>1, <1>3, StoreIndex, SkipIndex
  <2>2. pc' = "pack"
    BY <1>3 DEF PackCoeff
  <2> QED BY <1>2, <2>1, <2>2 DEF HInv, PackedInv, ReadInv, LastInv, Canonical
<1>4. CASE PackCount
  <2>1. FullTypes' /\ PackInv'
    BY <1>1, <1>4, StoreCount
  <2>2. pc' = "pack"
    BY <1>4 DEF PackCount
  <2> QED BY <1>2, <2>1, <2>2 DEF HInv, PackedInv, ReadInv, LastInv, Canonical
<1>5. CASE Packed
  <2>1. FullTypes' /\ PackInv' /\ PackedInv'
    BY <1>1, <1>5, PackingDone
  <2>2. (i = 0 /\ pc = "row" /\ k = 0)'
    BY <1>5 DEF Packed
  <2>3. ReadInv' /\ LastInv'
    BY <2>2, NothingRead, PTL
  <2> QED BY <1>2, <2>1, <2>2, <2>3 DEF HInv, Canonical
<1>6. CASE RowStart \/ RowIndex \/ RowEnd \/ TailStart \/ Tail
  <2>1. FullTypes' /\ ReadInv' /\ LastInv'
    BY <1>1, <1>6, RowStartReads, RowIndexReads, RowEndReads, TailReads
  <2>2. pc # "pack" /\ pc' # "pack" /\ hints' = hints /\ area' = area
    <3>1. CASE RowStart
      BY <3>1 DEF RowStart, Return
    <3>2. CASE RowIndex
      BY <3>2 DEF RowIndex, Return
    <3>3. CASE RowEnd \/ TailStart \/ Tail
      BY <3>3 DEF RowEnd, TailStart, Tail, Return
    <3> QED BY <1>6, <3>1, <3>2, <3>3
  <2>3. PackInv' /\ PackedInv'
    BY <1>1, <2>2 DEF PackInv, PackedInv
  <2>4. Canonical'
    <3>1. CASE RowStart
      BY <1>1, <3>1 DEF RowStart, Return, Canonical
    <3>2. CASE RowIndex
      BY <1>1, <3>2 DEF RowIndex, Return, Canonical
    <3>3. CASE RowEnd \/ TailStart
      BY <3>3 DEF RowEnd, TailStart, Canonical
    <3>4. CASE Tail
      <4>1. pc' = "done" /\ ret' = 0 => pc = "tail" /\ j = OMEGA
        BY <3>4 DEF Tail, Return
      <4>2. area' = area /\ h' = h
        BY <3>4 DEF Tail
      <4> QED BY <1>1, <4>1, <4>2, ReadAll DEF Canonical
    <3> QED BY <1>6, <3>1, <3>2, <3>3, <3>4
  <2> QED BY <1>2, <2>1, <2>3, <2>4 DEF HInv
<1>7. CASE UNCHANGED vars
  <2>1. FullTypes'
    BY <1>1, <1>7 DEF vars, FullTypes
  <2>2. PackInv'
    BY <1>1, <1>7 DEF vars, PackInv, RowOk, RowHolds
  <2>3. PackedInv' /\ Canonical'
    BY <1>1, <1>7 DEF vars, PackedInv, Canonical
  <2>4. ReadInv' /\ LastInv'
    BY <1>1, <1>7 DEF vars, ReadInv, LastInv, Reads, Seen
  <2> QED BY <1>2, <2>1, <2>2, <2>3, <2>4 DEF HInv
<1> QED BY <1>3, <1>4, <1>5, <1>6, <1>7 DEF Next

\* The types; in particular the next index byte never lies behind the index
\* area while pack_sig stores (packing.c:105-117) and while unpack_sig reads.
THEOREM TypeCorrect == Spec => []TypeOK
<1>1. HInv => TypeOK
  BY DEF HInv, FullTypes, TypeOK
<1> QED BY <1>1, HInvStarts, HInvStays, PTL DEF Spec

\* Every vector of at most OMEGA hints that pack_sig packs is accepted by
\* unpack_sig and comes back as it was (packing.c:105-169).
THEOREM HintsComeBack == Spec => []RoundTrip
<1>1. HInv => RoundTrip
  BY DEF HInv, CInv, ComputesHintsOk, PackedInv, RoundTrip
<1> QED BY <1>1, HInvStarts, HInvStays, PTL DEF Spec

\* unpack_sig accepts one area only for each hint vector: the area pack_sig
\* writes for it (packing.c:148-168).
THEOREM OneAreaPerVector == Spec => []Canonical
<1>1. HInv => Canonical
  BY DEF HInv
<1> QED BY <1>1, HInvStarts, HInvStays, PTL DEF Spec
=============================================================================
