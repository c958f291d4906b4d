--------------------------- MODULE Samplers_proofs ---------------------------
(***************************************************************************)
(* Theorems about the samplers and the streams they draw from, for every   *)
(* value of their constants.                                               *)
(***************************************************************************)
EXTENDS Challenge, SpongeLanes, LaneSampler, MatrixExpansion, FiniteSetTheorems,
        SequenceTheorems, WellFoundedInduction, TLAPS

(***************************************************************************)
(* Challenge: poly_challenge gives each sign bit exactly one place,        *)
(* whatever bytes the stream holds, for every N, TAU and rate.             *)
(***************************************************************************)

Places == 0..CN-1

CTypes ==
    /\ c \in [Places -> Nat] /\ ci \in CN - Tau .. CN
    /\ cpos \in 0..SRate /\ cblocks \in Nat /\ turns \in Nat

\* p is the one place of sign s in d.
OnlyAt(d, s, p) == d[p] = s /\ \A q \in Places : d[q] = s => q = p

EachOnce == \A s \in 1..Placed : \E p \in Places : OnlyAt(c, s, p)
Within == \A k \in Places : c[k] \in 0..Placed /\ (c[k] # 0 => k < ci)
BytesCounted == (cblocks-1)*SRate + cpos = SignBytes + turns

ChInv == CTypes /\ EachOnce /\ Within /\ BytesCounted

LEMMA Sizes ==
    /\ CN \in Nat \ {0} /\ Tau \in Nat /\ Tau <= CN
    /\ SignBytes \in Nat /\ SRate \in Nat /\ SignBytes < SRate
  BY ChallengeAssumption

\* A block more adds SRate bytes.
LEMMA NextBlock ==
    ASSUME NEW n \in Int, NEW r \in Nat
    PROVE  (n + 1 - 1)*r = (n - 1)*r + r /\ (n - 1)*r \in Int
  BY SMT

LEMMA ChInvStarts == CInit => ChInv
<1> SUFFICES ASSUME CInit PROVE ChInv
  OBVIOUS
<1>1. c = [k \in Places |-> 0] /\ ci = CN - Tau /\ cpos = SignBytes /\ cblocks = 1 /\ turns = 0
  BY DEF CInit, Places
<1>2. Placed = 0 /\ 1..Placed = {}
  BY <1>1, Sizes DEF Placed
<1>3. CTypes
  BY <1>1, Sizes DEF CTypes
<1>4. EachOnce
  BY <1>2 DEF EachOnce
<1>5. Within
  BY <1>1, <1>2 DEF Within
<1>6. BytesCounted
  BY <1>1, Sizes DEF BytesCounted
<1> QED BY <1>3, <1>4, <1>5, <1>6 DEF ChInv

\* A turn whose byte b is taken: the sign that stood at b moves to ci, which
\* was free, and the new one comes to b.
LEMMA PlaceKeeps ==
    ASSUME ChInv, ci < CN, NEW b \in Places, b <= ci,
           c' = Place(b), ci' = ci + 1
    PROVE  c' \in [Places -> Nat] /\ EachOnce' /\ Within'
<1> DEFINE S == Placed + 1
<1>1. /\ c \in [Places -> Nat] /\ ci \in Places /\ ci \in Nat /\ Placed \in Nat /\ S \in Nat
      /\ SignNumber = S /\ Placed' = S
  BY Sizes DEF ChInv, CTypes, Places, Placed, SignNumber
<1>2. c' = [[c EXCEPT ![ci] = c[b]] EXCEPT ![b] = S]
  BY <1>1 DEF Place
<1> HIDE DEF S
<1>3. c' \in [Places -> Nat]
  BY <1>1, <1>2
<1>4. \A q \in Places : c'[q] = IF q = b THEN S ELSE IF q = ci THEN c[b] ELSE c[q]
  BY <1>1, <1>2
<1>5. \A q \in Places : c[q] \in 0..Placed /\ (c[q] # 0 => q < ci) /\ c[q] # S
  BY <1>1 DEF ChInv, Within, S
<1>6. c[ci] = 0
  BY <1>1, <1>5
<1>7. EachOnce'
  <2>1. ASSUME NEW s \in 1..S PROVE \E p \in Places : OnlyAt(c', s, p)
    <3>1. CASE s = S
      <4>1. c'[b] = s
        BY <1>4, <3>1
      <4>2. ASSUME NEW q \in Places, c'[q] = s PROVE q = b
        BY <1>1, <1>4, <1>5, <3>1, <4>2
      <4> QED BY <4>1, <4>2 DEF OnlyAt
    <3>2. CASE s # S
      <4>1. s \in 1..Placed
        BY <1>1, <3>2 DEF S
      <4>2. PICK p \in Places : OnlyAt(c, s, p)
        BY <4>1 DEF ChInv, EachOnce
      <4>3. p # ci /\ s # 0
        BY <1>1, <1>6, <4>1, <4>2 DEF OnlyAt
      <4>4. CASE p = b
        <5>1. c'[ci] = s
          BY <1>1, <1>4, <4>2, <4>3, <4>4 DEF OnlyAt
        <5>2. ASSUME NEW q \in Places, c'[q] = s PROVE q = ci
          BY <1>4, <3>2, <4>2, <4>4, <5>2 DEF OnlyAt
        <5> QED BY <1>1, <5>1, <5>2 DEF OnlyAt
      <4>5. CASE p # b
        <5>1. c'[p] = s
          BY <1>4, <4>2, <4>3, <4>5 DEF OnlyAt
        <5>2. ASSUME NEW q \in Places, c'[q] = s PROVE q = p
          BY <1>4, <3>2, <4>2, <4>5, <5>2 DEF OnlyAt
        <5> QED BY <5>1, <5>2 DEF OnlyAt
      <4> QED BY <4>4, <4>5
    <3> QED BY <3>1, <3>2
  <2> QED BY <1>1, <2>1 DEF EachOnce, OnlyAt
<1>8. Within'
  <2>1. ASSUME NEW q \in Places PROVE c'[q] \in 0..S /\ (c'[q] # 0 => q < ci + 1)
    <3>1. CASE q = b
      BY <1>1, <1>4, <3>1 DEF Places
    <3>2. CASE q # b /\ q = ci
      <4>1. c'[q] = c[b] /\ c[b] \in 0..Placed
        BY <1>4, <1>5, <3>2
      <4> QED BY <1>1, <3>2, <4>1 DEF S
    <3>3. CASE q # b /\ q # ci
      <4>1. c'[q] = c[q] /\ c[q] \in 0..Placed /\ (c[q] # 0 => q < ci)
        BY <1>4, <1>5, <3>3
      <4> QED BY <1>1, <4>1 DEF S, Places
    <3> QED BY <3>1, <3>2, <3>3
  <2> QED BY <1>1, <2>1 DEF Within
<1> QED BY <1>3, <1>7, <1>8

LEMMA ChInvStays == ChInv /\ [CNext]_cvars => ChInv'
<1> SUFFICES ASSUME ChInv, [CNext]_cvars PROVE ChInv'
  OBVIOUS
<1>1. CASE TryByte
  <2>1. /\ ci \in Int /\ ci < CN /\ cpos \in 0..SRate /\ cblocks \in Nat /\ turns \in Nat
        /\ turns' = turns + 1
    BY <1>1, Sizes DEF TryByte, ChInv, CTypes
  <2>2. cpos' \in 0..SRate /\ cblocks' \in Nat /\ turns' \in Nat /\ BytesCounted'
    <3>1. (cblocks - 1)*SRate + cpos = SignBytes + turns
      BY DEF ChInv, BytesCounted
    <3>2. CASE cpos >= SRate
      <4>1. cpos = SRate /\ cpos' = 1 /\ cblocks' = cblocks + 1
        BY <1>1, <2>1, <3>2, Sizes DEF TryByte, MustRefill
      <4>2. (cblocks' - 1)*SRate = (cblocks - 1)*SRate + SRate /\ (cblocks - 1)*SRate \in Int
        BY <2>1, <4>1, Sizes, NextBlock
      <4> QED BY <2>1, <3>1, <4>1, <4>2, Sizes DEF BytesCounted
    <3>3. CASE ~(cpos >= SRate)
      <4>1. cpos' = cpos + 1 /\ cblocks' = cblocks
        BY <1>1, <3>3 DEF TryByte, MustRefill
      <4>2. (cblocks - 1)*SRate \in Int
        BY <2>1, Sizes, NextBlock
      <4> QED BY <2>1, <3>1, <3>3, <4>1, <4>2, Sizes DEF BytesCounted
    <3> QED BY <3>2, <3>3
  <2>3. PICK b \in 0..CN-1 : IF Rejected(b) THEN UNCHANGED <<c, ci>>
                             ELSE c' = Place(b) /\ ci' = ci + 1
    BY <1>1 DEF TryByte
  <2>4. CASE Rejected(b)
    <3>1. c' = c /\ ci' = ci
      BY <2>3, <2>4
    <3> QED BY <2>2, <3>1 DEF ChInv, CTypes, EachOnce, OnlyAt, Within, Placed
  <2>5. CASE ~Rejected(b)
    <3>1. c' = Place(b) /\ ci' = ci + 1 /\ b \in Places /\ b <= ci
      BY <2>1, <2>3, <2>5, Sizes DEF Rejected, Places
    <3>2. c' \in [Places -> Nat] /\ EachOnce' /\ Within'
      BY <2>1, <3>1, PlaceKeeps
    <3>3. ci' \in CN - Tau .. CN
      BY <2>1, <3>1, Sizes DEF ChInv, CTypes
    <3> QED BY <2>2, <3>2, <3>3 DEF ChInv, CTypes
  <2> QED BY <2>4, <2>5
<1>2. CASE UNCHANGED cvars
  BY <1>2 DEF cvars, ChInv, CTypes, EachOnce, OnlyAt, Within, BytesCounted, Placed
<1> QED BY <1>1, <1>2 DEF CNext

LEMMA ChInvShape == ChInv => ChallengeShape
<1> SUFFICES ASSUME ChInv PROVE ChallengeShape
  OBVIOUS
<1>1. ASSUME NEW s \in 1..Placed PROVE Cardinality({k \in 0..CN-1 : c[k] = s}) = 1
  <2>1. PICK p \in Places : OnlyAt(c, s, p)
    BY DEF ChInv, EachOnce
  <2>2. {k \in 0..CN-1 : c[k] = s} = {p}
    BY <2>1 DEF OnlyAt, Places
  <2> QED BY <2>2, FS_Singleton
<1>2. cpos <= SRate
  BY Sizes DEF ChInv, CTypes
<1> QED BY <1>1, <1>2 DEF ChInv, Within, BytesCounted, Places, ChallengeShape

\* Whatever bytes SHAKE256 gives, after every turn of poly_challenge each sign
\* bit used so far stands at exactly one place and all other coefficients are
\* zero, so that the challenge has TAU of them, and the bytes compared are the
\* stream behind the sign bits, each once.
THEOREM ChallengeHasItsShape == CSpec => []ChallengeShape
BY ChInvStarts, ChInvStays, ChInvShape, PTL DEF CSpec

(***************************************************************************)
(* SpongeLanes: q blocks in, each element holds the first q blocks of its  *)
(* own message, and m blocks out, m applications more and m*R bytes of its *)
(* own output.                                                             *)
(***************************************************************************)

NBlocks == mlen \div R + 1
OneBlock == { Block(e, b) : e \in Elems, b \in Nat } \cup {Zeros}
GivenBytes == { <<SpongeOf(e, n), j>> : e \in Elems, n \in Nat, j \in 0..R-1 }

\* After q whole blocks element e is the first q blocks of its message.
Absorbing(e, q) == [b \in 1..q+1 |-> IF b <= q THEN Block(e, b-1) ELSE Zeros]

\* out is the beginning of the output of element e.
OfElement(e, out) == \A k \in 1..Len(out) :
    out[k] = << SpongeOf(e, mlen \div R + 2 + (k-1) \div R), (k-1) % R >>

AbsorbInv ==
    xpc = "absorb" => \E q \in Nat :
        /\ xpos = q*R /\ mlen = q*R + xin
        /\ \A e \in Elems : xs[e] = Absorbing(e, q) /\ xout[e] = <<>>

SqueezeInv ==
    xpc = "squeeze" => \E m \in Nat : \A e \in Elems :
        /\ xs[e] = SpongeOf(e, NBlocks + m)
        /\ xout[e] \in Seq(GivenBytes) /\ OfElement(e, xout[e])
        /\ xlen > 0 => Len(xout[e]) = m*R

LanesInv ==
    /\ mlen \in Nat /\ xin \in Nat /\ xpos \in Nat /\ xlen \in Nat
    /\ xpc \in {"absorb", "squeeze"}
    /\ xs = [e \in Elems |-> xs[e]] /\ xout = [e \in Elems |-> xout[e]]
    /\ AbsorbInv /\ SqueezeInv

LEMMA BlockSize == R \in Nat \ {0} /\ Word \in Nat \ {0}
BY LanesAssumption DEF R

\* R is a constant: these facts about it are about every positive number.
LEMMA Times ==
    ASSUME NEW r \in Nat \ {0}, NEW q \in Nat, NEW p \in Nat, p < r
    PROVE  /\ q*r \in Nat /\ (q + 1)*r = q*r + r
           /\ (q*r + p) \div r = q /\ (q*r + p) % r = p
  OBVIOUS

LEMMA Apart ==
    ASSUME NEW r \in Nat \ {0}, NEW a \in Nat, NEW b \in Nat, a < b
    PROVE  a*r + r <= b*r
<1>1. PICK d \in Nat : b = a + 1 + d
  <2>1. b - a - 1 \in Nat /\ b = a + 1 + (b - a - 1)
    OBVIOUS
  <2> QED BY <2>1
<1>2. b*r = a*r + r + d*r /\ d*r \in Nat /\ a*r \in Nat
  BY <1>1
<1> QED BY <1>2

LEMMA Parts ==
    ASSUME NEW r \in Nat \ {0}, NEW n \in Nat
    PROVE  n \div r \in Nat /\ n % r \in 0..r-1 /\ n = (n \div r)*r + (n % r)
  OBVIOUS

\* The bytes a masked gather keeps are those before inlen.
LEMMA TakenBytes ==
    ASSUME xin \in Nat, NEW j \in Nat
    PROVE  (Taken(j) <=> j < xin) /\ (Domain(j) <=> j = xin)
<1>1. /\ j \div Word \in Nat /\ j % Word \in 0..Word-1 /\ j = (j \div Word)*Word + (j % Word)
      /\ xin \div Word \in Nat /\ xin % Word \in 0..Word-1
      /\ xin = (xin \div Word)*Word + (xin % Word)
  BY BlockSize, Parts
<1>2. PICK a \in Nat, b \in Nat, x \in 0..Word-1, y \in 0..Word-1 :
        /\ a = j \div Word /\ x = j % Word /\ b = xin \div Word /\ y = xin % Word
  BY <1>1
<1>3. j = a*Word + x /\ xin = b*Word + y
  BY <1>1, <1>2
<1>4. a < b => j < xin
  <2> SUFFICES ASSUME a < b PROVE j < xin
    OBVIOUS
  <2>1. a*Word + Word <= b*Word
    BY BlockSize, Apart
  <2>2. a*Word \in Nat /\ b*Word \in Nat
    BY BlockSize
  <2> QED BY <1>3, <2>1, <2>2, BlockSize
<1>5. b < a => xin < j
  <2> SUFFICES ASSUME b < a PROVE xin < j
    OBVIOUS
  <2>1. b*Word + Word <= a*Word
    BY BlockSize, Apart
  <2>2. a*Word \in Nat /\ b*Word \in Nat
    BY BlockSize
  <2> QED BY <1>3, <2>1, <2>2, BlockSize
<1>6. a = b => (j < xin <=> x < y) /\ (j = xin <=> x = y)
  <2>1. a*Word \in Nat
    BY BlockSize
  <2> QED BY <1>3, <2>1
<1>7. Taken(j) <=> a < b \/ (a = b /\ x < y)
  BY <1>2 DEF Taken
<1>8. Domain(j) <=> a = b /\ x = y
  BY <1>2 DEF Domain
<1> QED BY <1>4, <1>5, <1>6, <1>7, <1>8

LEMMA StateTypes ==
    /\ \A e \in Elems, q \in Nat :
          Absorbing(e, q) \in Seq(OneBlock) /\ Len(Absorbing(e, q)) = q + 1
    /\ \A e \in Elems, n \in Nat : mlen \in Nat =>
          SpongeOf(e, n) \in Seq(OneBlock) /\ Len(SpongeOf(e, n)) = n
<1>1. ASSUME NEW e \in Elems, NEW q \in Nat
      PROVE  Absorbing(e, q) \in Seq(OneBlock) /\ Len(Absorbing(e, q)) = q + 1
  <2>1. \A b \in 1..q+1 : (IF b <= q THEN Block(e, b-1) ELSE Zeros) \in OneBlock
    BY DEF OneBlock
  <2>2. q + 1 \in Nat
    OBVIOUS
  <2> QED BY <2>1, <2>2 DEF Absorbing
<1>2. ASSUME NEW e \in Elems, NEW n \in Nat, mlen \in Nat
      PROVE  SpongeOf(e, n) \in Seq(OneBlock) /\ Len(SpongeOf(e, n)) = n
  <2>1. \A b \in 1..n : (IF b-1 <= mlen \div R THEN Block(e, b-1) ELSE Zeros) \in OneBlock
    BY DEF OneBlock
  <2> QED BY <2>1 DEF SpongeOf
<1> QED BY <1>1, <1>2

LEMMA Longer ==
    ASSUME NEW S, NEW t \in Seq(S), NEW z \in S
    PROVE  Append(t, z) = [b \in 1..Len(t)+1 |-> IF b <= Len(t) THEN t[b] ELSE z]
<1>1. Len(t) \in Nat
  OBVIOUS
<1>2. Append(t, z) \in Seq(S) /\ Len(Append(t, z)) = Len(t) + 1
  BY AppendProperties
<1>3. \A b \in 1..Len(t)+1 : Append(t, z)[b] = IF b <= Len(t) THEN t[b] ELSE z
  BY <1>1, AppendProperties
<1>4. Append(t, z) = [b \in 1..Len(t)+1 |-> Append(t, z)[b]]
  <2>1. \A w \in Seq(S) : w = [b \in 1..Len(w) |-> w[b]]
    OBVIOUS
  <2> QED BY <1>2, <2>1
<1> QED BY <1>3, <1>4

\* XORing T, which has a value for each byte, into a block of zeros writes it.
Filling(T) == T = [j \in 0..R-1 |-> T[j]]

LEMMA Written ==
    ASSUME NEW e \in Elems, NEW q \in Nat, NEW T, Filling(T)
    PROVE  Xored(Absorbing(e, q), T)
           = [b \in 1..q+1 |-> IF b <= q THEN Block(e, b-1) ELSE T]
<1>1. Len(Absorbing(e, q)) = q + 1
  BY StateTypes
<1>2. Absorbing(e, q)[q + 1] = Zeros
  BY DEF Absorbing
<1>3. [j \in 0..R-1 |-> (Zeros[j] \ T[j]) \cup (T[j] \ Zeros[j])] = T
  <2>1. \A j \in 0..R-1 : (Zeros[j] \ T[j]) \cup (T[j] \ Zeros[j]) = T[j]
    BY DEF Zeros
  <2> QED BY <2>1 DEF Filling
<1>4. Xored(Absorbing(e, q), T) = [Absorbing(e, q) EXCEPT ![q + 1] = T]
  BY <1>1, <1>2, <1>3 DEF Xored
<1>5. [Absorbing(e, q) EXCEPT ![q + 1] = T]
        = [b \in 1..q+1 |-> IF b = q + 1 THEN T ELSE Absorbing(e, q)[b]]
  <2>1. DOMAIN Absorbing(e, q) = 1..q+1
    BY DEF Absorbing
  <2> QED BY <2>1
<1>6. \A b \in 1..q+1 : (IF b = q + 1 THEN T ELSE Absorbing(e, q)[b])
                           = IF b <= q THEN Block(e, b-1) ELSE T
  BY DEF Absorbing
<1> QED BY <1>4, <1>5, <1>6

LEMMA SameLength ==
    ASSUME mlen' = mlen
    PROVE  /\ \A e, n : SpongeOf(e, n)' = SpongeOf(e, n)
           /\ \A e, q : Absorbing(e, q)' = Absorbing(e, q)
           /\ GivenBytes' = GivenBytes /\ NBlocks' = NBlocks
<1>1. \A e, n : SpongeOf(e, n)' = SpongeOf(e, n)
  BY DEF SpongeOf, Block
<1>2. \A e, q : Absorbing(e, q)' = Absorbing(e, q)
  BY DEF Absorbing, Block
<1>3. GivenBytes' = GivenBytes
  BY <1>1 DEF GivenBytes
<1>4. NBlocks' = NBlocks
  BY DEF NBlocks
<1> QED BY <1>1, <1>2, <1>3, <1>4

\* The squeezing invariant after a step that keeps inlen.
LEMMA SqueezeInvNext ==
    ASSUME mlen' = mlen, NEW m \in Nat,
           \A e \in Elems : /\ xs'[e] = SpongeOf(e, NBlocks + m)
                            /\ xout'[e] \in Seq(GivenBytes) /\ OfElement(e, xout'[e])
                            /\ xlen' > 0 => Len(xout'[e]) = m*R
    PROVE  SqueezeInv'
<1>1. PICK q : q = mlen \div R
  OBVIOUS
<1>2. \A e \in Elems : \A k \in 1..Len(xout'[e]) :
          xout'[e][k] = << SpongeOf(e, q + 2 + (k-1) \div R)', (k-1) % R >>
  BY <1>1, SameLength DEF OfElement
<1>3. \A e \in Elems : OfElement(e, xout[e])'
  BY <1>1, <1>2 DEF OfElement
<1>4. \A e \in Elems : /\ xs'[e] = SpongeOf(e, NBlocks + m)'
                       /\ xout'[e] \in Seq(GivenBytes)'
  BY SameLength
<1> QED BY <1>3, <1>4 DEF SqueezeInv

LEMMA LanesStart == XInit => LanesInv
<1> SUFFICES ASSUME XInit PROVE LanesInv
  OBVIOUS
<1>1. /\ xs = [e \in Elems |-> <<Zeros>>] /\ xout = [e \in Elems |-> <<>>]
      /\ mlen \in Nat /\ xin = mlen /\ xpos = 0 /\ xlen \in Nat /\ xpc = "absorb"
  BY LanesAssumption DEF XInit
<1>2. \A e \in Elems : Absorbing(e, 0) = <<Zeros>>
  BY DEF Absorbing
<1>3. 0 \in Nat /\ 0*R = 0 /\ mlen = 0*R + xin
  BY <1>1, BlockSize
<1>4. AbsorbInv
  BY <1>1, <1>2, <1>3 DEF AbsorbInv
<1> QED BY <1>1, <1>4 DEF LanesInv, SqueezeInv

\* A whole block of the message, gathered.
LEMMA WholeBlock ==
    ASSUME NEW e \in Elems, NEW q \in Nat, mlen \in Nat, q*R + R <= mlen
    PROVE  [j \in 0..R-1 |-> {<<e, q*R + j>>}] = Block(e, q)
<1>1. q # mlen \div R
  <2>1. mlen \div R \in Nat /\ mlen % R \in 0..R-1 /\ mlen = (mlen \div R)*R + (mlen % R)
    BY BlockSize, Parts
  <2>2. q*R \in Nat
    BY BlockSize
  <2> QED BY <2>1, <2>2, BlockSize
<1>2. q*R \in Nat
  BY BlockSize
<1>3. \A j \in 0..R-1 : q*R + j < mlen /\ q*R + j # mlen
  BY <1>2, BlockSize
<1> QED BY <1>1, <1>3 DEF Block

\* The padded rest of it: its bytes, the domain byte, the top bit.
LEMMA RestOfBlock ==
    ASSUME NEW e \in Elems, NEW q \in Nat, mlen \in Nat, xin \in Nat, xpos = q*R,
           mlen = q*R + xin, xin < R
    PROVE  /\ [j \in 0..R-1 |-> LastBlock(e, j)] = Block(e, q)
           /\ mlen \div R = q
<1>1. mlen \div R = q
  BY BlockSize, Times
<1>2. q*R \in Nat
  BY BlockSize
<1>3. ASSUME NEW j \in 0..R-1
      PROVE  /\ Taken(j) <=> q*R + j < mlen
             /\ Domain(j) <=> q*R + j = mlen
  <2>1. (Taken(j) <=> j < xin) /\ (Domain(j) <=> j = xin)
    <3>1. j \in Nat
      BY BlockSize
    <3> QED BY <3>1, TakenBytes
  <2> QED BY <1>2, <2>1, BlockSize
<1>4. \A j \in 0..R-1 : LastBlock(e, j) =
          (IF q*R + j < mlen THEN {<<e, q*R + j>>} ELSE {})
          \cup (IF q*R + j = mlen THEN {DomainByte} ELSE {})
          \cup (IF q = mlen \div R /\ j = R-1 THEN {TopBit} ELSE {})
  BY <1>1, <1>3 DEF LastBlock
<1> QED BY <1>1, <1>4 DEF Block

LEMMA AbsorbBlockStep == LanesInv /\ AbsorbBlock => LanesInv'
<1> SUFFICES ASSUME LanesInv, AbsorbBlock PROVE LanesInv'
  OBVIOUS
<1>1. /\ xpc = "absorb" /\ xin >= R /\ xpos' = xpos + R /\ xin' = xin - R
      /\ mlen' = mlen /\ xlen' = xlen /\ xout' = xout /\ xpc' = xpc
      /\ mlen \in Nat /\ xin \in Nat /\ xlen \in Nat /\ xout = [e \in Elems |-> xout[e]]
  BY DEF AbsorbBlock, LanesInv
<1>2. PICK q \in Nat : /\ xpos = q*R /\ mlen = q*R + xin
                       /\ \A e \in Elems : xs[e] = Absorbing(e, q) /\ xout[e] = <<>>
  BY <1>1 DEF LanesInv, AbsorbInv
<1>3. q*R \in Nat /\ (q + 1)*R = q*R + R /\ q + 1 \in Nat
  BY BlockSize, Times
<1>4. /\ xpos' = (q + 1)*R /\ mlen' = (q + 1)*R + xin' /\ xin' \in Nat
      /\ xpos' \in Nat
  BY <1>1, <1>2, <1>3, BlockSize
<1>5. ASSUME NEW e \in Elems PROVE xs'[e] = Absorbing(e, q + 1)
  <2>1. xs'[e] = Append(Xored(xs[e], [j \in 0..R-1 |-> {<<e, xpos + j>>}]), Zeros)
    BY DEF AbsorbBlock
  <2>2. [j \in 0..R-1 |-> {<<e, xpos + j>>}] = Block(e, q)
    <3>1. q*R + R <= mlen
      BY <1>1, <1>2, <1>3, BlockSize
    <3> QED BY <1>1, <1>2, <3>1, WholeBlock
  <2>3. PICK T : T = Block(e, q)
    OBVIOUS
  <2>4. Filling(T)
    BY <2>3 DEF Block, Filling
  <2>5. Xored(Absorbing(e, q), T) = [b \in 1..q+1 |-> IF b <= q THEN Block(e, b-1) ELSE T]
    BY <2>4, Written
  <2>6. PICK w : w = [b \in 1..q+1 |-> Block(e, b-1)]
    OBVIOUS
  <2>7. Xored(Absorbing(e, q), T) = w
    <3>1. \A b \in 1..q+1 : (IF b <= q THEN Block(e, b-1) ELSE T) = Block(e, b-1)
      <4>1. \A b \in 1..q+1 : b <= q \/ b - 1 = q
        OBVIOUS
      <4> QED BY <2>3, <4>1
    <3> QED BY <2>5, <2>6, <3>1
  <2>8. w \in Seq(OneBlock) /\ Len(w) = q + 1
    <3>1. \A b \in 1..q+1 : Block(e, b-1) \in OneBlock
      BY DEF OneBlock
    <3> QED BY <1>3, <2>6, <3>1
  <2>9. Append(w, Zeros) = [b \in 1..q+2 |-> IF b <= q + 1 THEN w[b] ELSE Zeros]
    <3>1. Zeros \in OneBlock /\ (q + 1) + 1 = q + 2
      BY DEF OneBlock
    <3> QED BY <2>8, <3>1, Longer
  <2>10. \A b \in 1..q+2 : (IF b <= q + 1 THEN w[b] ELSE Zeros)
                              = IF b <= q + 1 THEN Block(e, b-1) ELSE Zeros
    BY <2>6
  <2>11. (q + 1) + 1 = q + 2
    OBVIOUS
  <2>12. Append(w, Zeros) = Absorbing(e, q + 1)
    BY <2>9, <2>10, <2>11 DEF Absorbing
  <2> QED BY <1>2, <2>1, <2>2, <2>3, <2>7, <2>12
<1>6. xs' = [e \in Elems |-> xs'[e]]
  BY DEF AbsorbBlock
<1>7. \A e \in Elems : xout'[e] = <<>>
  BY <1>1, <1>2
<1>8. AbsorbInv'
  <2> PICK p \in Nat : p = q + 1
    BY <1>3
  <2>1. \A e \in Elems : Absorbing(e, p)' = Absorbing(e, p)
    BY <1>1, SameLength
  <2> QED BY <1>4, <1>5, <1>7, <2>1 DEF AbsorbInv
<1> QED BY <1>1, <1>4, <1>6, <1>8 DEF LanesInv, SqueezeInv

LEMMA AbsorbTailStep == LanesInv /\ AbsorbTail => LanesInv'
<1> SUFFICES ASSUME LanesInv, AbsorbTail PROVE LanesInv'
  OBVIOUS
<1>1. /\ xpc = "absorb" /\ xin < R /\ xpc' = "squeeze"
      /\ mlen' = mlen /\ xlen' = xlen /\ xout' = xout /\ xpos' = xpos /\ xin' = xin
      /\ mlen \in Nat /\ xin \in Nat /\ xlen \in Nat /\ xpos \in Nat
      /\ xout = [e \in Elems |-> xout[e]]
  BY DEF AbsorbTail, LanesInv
<1>2. PICK q \in Nat : /\ xpos = q*R /\ mlen = q*R + xin
                       /\ \A e \in Elems : xs[e] = Absorbing(e, q) /\ xout[e] = <<>>
  BY <1>1 DEF LanesInv, AbsorbInv
<1>3. mlen \div R = q /\ NBlocks = q + 1 /\ q + 1 + 0 = q + 1
  <2>1. mlen \div R = q
    BY <1>1, <1>2, BlockSize, Times
  <2> QED BY <2>1 DEF NBlocks
<1>4. ASSUME NEW e \in Elems PROVE xs'[e] = SpongeOf(e, NBlocks + 0)
  <2>1. xs'[e] = Xored(xs[e], [j \in 0..R-1 |-> LastBlock(e, j)])
    BY DEF AbsorbTail
  <2>2. [j \in 0..R-1 |-> LastBlock(e, j)] = Block(e, q)
    BY <1>1, <1>2, RestOfBlock
  <2>3. PICK T : T = Block(e, q)
    OBVIOUS
  <2>4. Filling(T)
    BY <2>3 DEF Block, Filling
  <2>5. Xored(Absorbing(e, q), T) = [b \in 1..q+1 |-> IF b <= q THEN Block(e, b-1) ELSE T]
    BY <2>4, Written
  <2>6. \A b \in 1..q+1 : (IF b <= q THEN Block(e, b-1) ELSE T)
                             = IF b-1 <= q THEN Block(e, b-1) ELSE Zeros
    <3>1. \A b \in 1..q+1 : (b <= q \/ b - 1 = q) /\ b - 1 <= q
      OBVIOUS
    <3> QED BY <2>3, <3>1
  <2>7. Xored(Absorbing(e, q), T) = SpongeOf(e, q + 1)
    BY <1>3, <2>5, <2>6 DEF SpongeOf
  <2> QED BY <1>2, <1>3, <2>1, <2>2, <2>3, <2>7
<1>5. xs' = [e \in Elems |-> xs'[e]]
  BY DEF AbsorbTail
<1>6. SqueezeInv'
  <2>1. \A e \in Elems : /\ xout'[e] \in Seq(GivenBytes) /\ OfElement(e, xout'[e])
                         /\ Len(xout'[e]) = 0*R
    <3>1. <<>> \in Seq(GivenBytes) /\ Len(<<>>) = 0 /\ 0*R = 0
      BY BlockSize
    <3>2. \A k \in 1..0 : FALSE
      OBVIOUS
    <3> QED BY <1>1, <1>2, <3>1, <3>2 DEF OfElement
  <2>2. PICK m \in Nat : m = 0
    OBVIOUS
  <2> QED BY <1>1, <1>4, <2>1, <2>2, SqueezeInvNext
<1> QED BY <1>1, <1>5, <1>6 DEF LanesInv, AbsorbInv

LEMMA SqueezeBlockStep == LanesInv /\ SqueezeBlock => LanesInv'
<1> SUFFICES ASSUME LanesInv, SqueezeBlock PROVE LanesInv'
  OBVIOUS
<1>1. PICK n : n = IF xlen < R THEN xlen ELSE R
  OBVIOUS
<1>2. /\ xpc = "squeeze" /\ xlen > 0 /\ xpc' = xpc /\ xlen' = xlen - n
      /\ mlen' = mlen /\ xpos' = xpos /\ xin' = xin
      /\ mlen \in Nat /\ xin \in Nat /\ xlen \in Nat /\ xpos \in Nat
      /\ xs' = [e \in Elems |-> Append(xs[e], Zeros)]
      /\ xout' = [e \in Elems |-> xout[e] \o [k \in 1..n |-> <<xs'[e], k-1>>]]
  BY <1>1 DEF SqueezeBlock, LanesInv
<1>3. n \in 0..R /\ n \in Nat /\ xlen' \in Nat /\ (xlen' > 0 => n = R)
  BY <1>1, <1>2, BlockSize
<1>4. PICK m \in Nat : \A e \in Elems :
        /\ xs[e] = SpongeOf(e, NBlocks + m)
        /\ xout[e] \in Seq(GivenBytes) /\ OfElement(e, xout[e])
        /\ Len(xout[e]) = m*R
  BY <1>2 DEF LanesInv, SqueezeInv
<1>5. PICK q \in Nat : q = mlen \div R
  BY <1>2, BlockSize, Parts
<1>6. NBlocks = q + 1 /\ NBlocks + m \in Nat /\ q + 1 + m \in Nat /\ q + 2 + m \in Nat
  BY <1>5 DEF NBlocks
<1>7. m*R \in Nat /\ (m + 1)*R = m*R + R
  BY BlockSize, Times
<1>8. ASSUME NEW e \in Elems PROVE xs'[e] = SpongeOf(e, q + 2 + m)
  <2>1. xs[e] = SpongeOf(e, q + 1 + m)
    BY <1>4, <1>6
  <2>2. SpongeOf(e, q + 1 + m) \in Seq(OneBlock) /\ Len(SpongeOf(e, q + 1 + m)) = q + 1 + m
    BY <1>2, <1>6, StateTypes
  <2>3. Zeros \in OneBlock /\ (q + 1 + m) + 1 = q + 2 + m
    BY DEF OneBlock
  <2>4. Append(xs[e], Zeros)
          = [b \in 1..q+2+m |-> IF b <= q + 1 + m THEN SpongeOf(e, q + 1 + m)[b] ELSE Zeros]
    BY <2>1, <2>2, <2>3, Longer
  <2>5. \A b \in 1..q+2+m : (IF b <= q + 1 + m THEN SpongeOf(e, q + 1 + m)[b] ELSE Zeros)
            = IF b-1 <= q THEN Block(e, b-1) ELSE Zeros
    <3>1. \A b \in 1..q+2+m : /\ b <= q + 1 + m => b \in 1..q+1+m
                              /\ ~(b <= q + 1 + m) => ~(b - 1 <= q)
      OBVIOUS
    <3> QED BY <1>5, <3>1 DEF SpongeOf
  <2> QED BY <1>2, <1>5, <2>4, <2>5 DEF SpongeOf
<1>9. ASSUME NEW e \in Elems
      PROVE  /\ xout'[e] \in Seq(GivenBytes)
             /\ Len(xout'[e]) = m*R + n
             /\ OfElement(e, xout'[e])
  <2>1. PICK new : new = [k \in 1..n |-> <<SpongeOf(e, q + 2 + m), k-1>>]
    OBVIOUS
  <2>2. xout'[e] = xout[e] \o new
    BY <1>2, <1>8, <2>1
  <2>3. new \in Seq(GivenBytes) /\ Len(new) = n
    <3>1. \A k \in 1..n : k - 1 \in 0..R-1
      BY <1>3, BlockSize
    <3>2. \A k \in 1..n : <<SpongeOf(e, q + 2 + m), k-1>> \in GivenBytes
      BY <1>6, <3>1 DEF GivenBytes
    <3> QED BY <1>3, <2>1, <3>2
  <2>4. xout[e] \in Seq(GivenBytes) /\ Len(xout[e]) = m*R
    BY <1>4
  <2>5. PICK old \in Seq(GivenBytes) : old = xout[e]
    BY <2>4
  <2>6. old \o new \in Seq(GivenBytes) /\ Len(old \o new) = m*R + n
    BY <2>3, <2>4, <2>5, ConcatProperties
  <2>7. ASSUME NEW k \in 1..m*R + n
        PROVE  (old \o new)[k] = << SpongeOf(e, q + 2 + (k-1) \div R), (k-1) % R >>
    <3>1. CASE k <= m*R
      <4>1. k \in 1..Len(old)
        BY <1>7, <2>4, <2>5, <3>1
      <4>2. (old \o new)[k] = old[k]
        BY <2>3, <4>1, ConcatProperties
      <4> QED BY <1>4, <1>5, <2>5, <4>1, <4>2 DEF OfElement
    <3>2. CASE ~(k <= m*R)
      <4>1. PICK i \in 1..n : k = m*R + i
        <5>1. k - m*R \in 1..n /\ k = m*R + (k - m*R)
          BY <1>3, <1>7, <3>2
        <5> QED BY <5>1
      <4>2. (old \o new)[k] = new[i]
        <5>1. k \in 1..Len(old) + Len(new) /\ ~(k <= Len(old)) /\ k - Len(old) = i
          BY <1>3, <1>7, <2>3, <2>4, <2>5, <3>2, <4>1
        <5> QED BY <2>3, <5>1, ConcatProperties
      <4>3. (k-1) \div R = m /\ (k-1) % R = i - 1
        <5>1. i - 1 \in Nat /\ i - 1 < R /\ k - 1 = m*R + (i - 1)
          BY <1>3, <1>7, <4>1, BlockSize
        <5>2. PICK p \in Nat : p = i - 1 /\ p < R
          BY <5>1
        <5>3. (m*R + p) \div R = m /\ (m*R + p) % R = p
          BY <5>2, BlockSize, Times
        <5> QED BY <5>1, <5>2, <5>3
      <4> QED BY <2>1, <4>2, <4>3
    <3> QED BY <3>1, <3>2
  <2>8. OfElement(e, old \o new)
    BY <1>5, <2>6, <2>7 DEF OfElement
  <2> QED BY <2>2, <2>5, <2>6, <2>8
<1>10. SqueezeInv'
  <2>1. PICK p \in Nat : p = m + 1
    OBVIOUS
  <2>2. \A e \in Elems : xs'[e] = SpongeOf(e, NBlocks + p)
    <3>1. NBlocks + p = q + 2 + m
      BY <1>6, <2>1
    <3> QED BY <1>8, <3>1
  <2>3. \A e \in Elems : xlen' > 0 => Len(xout'[e]) = p*R
    BY <1>3, <1>7, <1>9, <2>1
  <2> QED BY <1>2, <1>9, <2>2, <2>3, SqueezeInvNext
<1>11. xs' = [e \in Elems |-> xs'[e]] /\ xout' = [e \in Elems |-> xout'[e]]
  BY <1>2
<1> QED BY <1>2, <1>3, <1>10, <1>11 DEF LanesInv, AbsorbInv

LEMMA LanesStep == LanesInv /\ [XNext]_xvars => LanesInv'
<1> SUFFICES ASSUME LanesInv, [XNext]_xvars PROVE LanesInv'
  OBVIOUS
<1>1. CASE UNCHANGED xvars
  <2>1. /\ mlen' = mlen /\ xin' = xin /\ xpos' = xpos /\ xlen' = xlen /\ xpc' = xpc
        /\ xs' = xs /\ xout' = xout
    BY <1>1 DEF xvars
  <2>2. \A e \in Elems, q \in Nat : Absorbing(e, q)' = Absorbing(e, q)
    BY <2>1 DEF Absorbing, Block
  <2>3. AbsorbInv'
    BY <2>1, <2>2 DEF LanesInv, AbsorbInv
  <2>4. \A e, n : SpongeOf(e, n)' = SpongeOf(e, n)
    BY <2>1 DEF SpongeOf, Block
  <2>5. SqueezeInv'
    <3>1. GivenBytes' = GivenBytes
      BY <2>4 DEF GivenBytes
    <3>2. \A e \in Elems : OfElement(e, xout[e])' <=> OfElement(e, xout[e])
      BY <2>1, <2>4 DEF OfElement
    <3>3. NBlocks' = NBlocks
      BY <2>1 DEF NBlocks
    <3> QED BY <2>1, <2>4, <3>1, <3>2, <3>3 DEF LanesInv, SqueezeInv
  <2> QED BY <2>1, <2>3, <2>5 DEF LanesInv
<1> QED BY <1>1, AbsorbBlockStep, AbsorbTailStep, SqueezeBlockStep DEF XNext

LEMMA LanesGood == LanesInv => FourSponges
<1> SUFFICES ASSUME LanesInv, xpc = "squeeze", NEW e \in Elems
             PROVE  /\ xs[e] = SpongeOf(e, Len(xs[e]))
                    /\ OfElement(e, xout[e])
  BY DEF FourSponges, OfElement
<1>1. PICK m \in Nat : xs[e] = SpongeOf(e, NBlocks + m) /\ OfElement(e, xout[e])
  BY DEF LanesInv, SqueezeInv
<1>2. NBlocks + m \in Nat /\ mlen \in Nat
  <2>1. mlen \in Nat /\ mlen \div R \in Nat
    BY BlockSize, Parts DEF LanesInv
  <2> QED BY <2>1 DEF NBlocks
<1>3. Len(SpongeOf(e, NBlocks + m)) = NBlocks + m
  BY <1>2, StateTypes
<1> QED BY <1>1, <1>3

\* shake128x4 and shake256x4: each of the four elements is the scalar sponge of
\* its own input and gives its own stream from its start, for every rate, word,
\* input and output length (fips202x4.c).
THEOREM FourIndependentSponges == XSpec => []FourSponges
BY LanesStart, LanesStep, LanesGood, PTL DEF XSpec

(***************************************************************************)
(* LaneSampler.  Induction first: the library states it for operators,     *)
(* which the provers do not instantiate, and for sets: a set of numbers    *)
(* has a least one.                                                        *)
(***************************************************************************)
LEMMA LeastNumber ==
    ASSUME NEW T, T \subseteq Nat, T # {}
    PROVE  \E n \in T : \A m \in T : n <= m
<1>1. PICK less : less = OpToRel(<, Nat)
  OBVIOUS
<1>2. IsWellFoundedOn(less, Nat)
  BY <1>1, NatLessThanWellFounded
<1>3. PICK n \in T : \A m \in T : ~(<<m, n>> \in less)
  BY <1>2, WFMin
<1>4. \A m, k \in Nat : m < k => <<m, k>> \in less
  BY <1>1 DEF OpToRel
<1>5. ASSUME NEW m \in T PROVE n <= m
  <2>1. n \in Nat /\ m \in Nat
    OBVIOUS
  <2>2. ~(m < n)
    BY <1>3, <1>4, <2>1
  <2> QED BY ONLY <2>1, <2>2
<1> QED BY <1>5

LEMMA InductionOver ==
    ASSUME NEW S, 0 \in S, \A n \in Nat : n \in S => n + 1 \in S
    PROVE  Nat \subseteq S
<1> SUFFICES ASSUME ~(Nat \subseteq S) PROVE FALSE
  OBVIOUS
<1>1. PICK T : T = Nat \ S
  OBVIOUS
<1>2. T \subseteq Nat /\ T # {}
  BY <1>1
<1>3. PICK n \in T : \A m \in T : n <= m
  BY <1>2, LeastNumber
<1>4. n \in Nat /\ n # 0
  BY <1>1
<1>5. n - 1 \in Nat /\ n - 1 \notin T /\ (n - 1) + 1 = n
  BY <1>3, <1>4
<1> QED BY <1>1, <1>5

(***************************************************************************)
(* Counting the accepted candidates, in a history and in a group.          *)
(***************************************************************************)
LEMMA RankStep ==
    ASSUME NEW h, NEW n \in Nat
    PROVE  /\ Rank(h, 0) = 0 /\ Rank(h, n) \in 0..n
           /\ Rank(h, n + 1) = Rank(h, n) + (IF h[n + 1].good THEN 1 ELSE 0)
<1>1. PICK T : T = {m \in 1..n : h[m].good}
  OBVIOUS
<1>2. IsFiniteSet(T) /\ Cardinality(T) \in 0..n
  <2>1. IsFiniteSet(1..n) /\ Cardinality(1..n) = n /\ T \in SUBSET (1..n)
    BY <1>1, FS_Interval
  <2>2. IsFiniteSet(T) /\ Cardinality(T) <= n
    BY <2>1, FS_Subset
  <2> QED BY <2>2, FS_CardinalityType
<1>3. {m \in 1..0 : h[m].good} = {}
  OBVIOUS
<1>4. {m \in 1..n+1 : h[m].good} = IF h[n + 1].good THEN T \cup {n + 1} ELSE T
  BY <1>1
<1>5. n + 1 \notin T
  BY <1>1
<1>6. Cardinality(T \cup {n + 1}) = Cardinality(T) + 1
  BY <1>2, <1>5, FS_AddElement
<1>7. Rank(h, 0) = 0
  BY <1>3, FS_EmptySet DEF Rank
<1>8. Rank(h, n) = Cardinality(T)
  BY <1>1 DEF Rank
<1>9. Rank(h, n + 1) = Cardinality(IF h[n + 1].good THEN T \cup {n + 1} ELSE T)
  BY <1>4 DEF Rank
<1>10. Rank(h, n + 1) = Cardinality(T) + (IF h[n + 1].good THEN 1 ELSE 0)
  BY <1>2, <1>6, <1>9
<1> QED BY <1>2, <1>7, <1>8, <1>10

LEMMA RankGrows ==
    ASSUME NEW h, NEW m \in Nat, NEW n \in Nat, m <= n
    PROVE  Rank(h, m) <= Rank(h, n)
<1>1. PICK T : T = {i \in 1..n : h[i].good}
  OBVIOUS
<1>2. {i \in 1..m : h[i].good} \in SUBSET T
  BY <1>1
<1>3. IsFiniteSet(1..n) /\ T \in SUBSET (1..n)
  BY <1>1, FS_Interval
<1>4. IsFiniteSet(T)
  BY <1>3, FS_Subset
<1> QED BY <1>1, <1>2, <1>4, FS_Subset DEF Rank

LEMMA SameRank ==
    ASSUME NEW h, NEW g, NEW n \in Nat, \A m \in 1..n : h[m] = g[m]
    PROVE  Rank(h, n) = Rank(g, n)
<1>1. {m \in 1..n : h[m].good} = {m \in 1..n : g[m].good}
  OBVIOUS
<1> QED BY <1>1 DEF Rank

Tests == [cand : (Int \X Int) \X Int, good : BOOLEAN]

\* Behind a history the ranks go on with those of what is appended.
LEMMA JoinedRank ==
    ASSUME NEW h \in Seq(Tests), NEW g \in Seq(Tests)
    PROVE  /\ \A n \in 0..Len(h) : Rank(h \o g, n) = Rank(h, n)
           /\ \A n \in 0..Len(g) : Rank(h \o g, Len(h) + n) = Rank(h, Len(h)) + Rank(g, n)
<1>1. PICK a \in Nat, b \in Nat : a = Len(h) /\ b = Len(g)
  BY LenProperties
<1>2. \A m \in 1..a : (h \o g)[m] = h[m]
  BY <1>1, ConcatProperties
<1>3. \A m \in 1..b : (h \o g)[a + m] = g[m]
  <2>1. ASSUME NEW m \in 1..b PROVE (h \o g)[a + m] = g[m]
    <3>1. a + m \in 1..Len(h) + Len(g) /\ ~(a + m <= Len(h)) /\ a + m - Len(h) = m
      BY <1>1
    <3> QED BY <3>1, ConcatProperties
  <2> QED BY <2>1
<1>4. ASSUME NEW n \in 0..a PROVE Rank(h \o g, n) = Rank(h, n)
  <2>1. n \in Nat /\ \A m \in 1..n : m \in 1..a
    BY <1>1
  <2>2. \A m \in 1..n : (h \o g)[m] = h[m]
    BY <1>2, <2>1
  <2> QED BY <2>1, <2>2, SameRank
<1>5. PICK S : S = {n \in Nat : n <= b => Rank(h \o g, a + n) = Rank(h, a) + Rank(g, n)}
  OBVIOUS
<1>6. 0 \in S
  <2>1. Rank(g, 0) = 0 /\ Rank(h, a) \in 0..a
    BY RankStep
  <2>2. Rank(h \o g, a + 0) = Rank(h, a) + Rank(g, 0)
    BY <1>4, <2>1
  <2> QED BY <1>5, <2>2
<1>7. ASSUME NEW n \in Nat, n \in S PROVE n + 1 \in S
  <2> SUFFICES ASSUME n + 1 <= b PROVE Rank(h \o g, a + (n + 1)) = Rank(h, a) + Rank(g, n + 1)
    BY <1>5
  <2>1. Rank(h \o g, a + n) = Rank(h, a) + Rank(g, n)
    BY <1>5, <1>7
  <2>2. n + 1 \in 1..b /\ a + n \in Nat /\ a + (n + 1) = (a + n) + 1
    BY <1>1
  <2>3. (h \o g)[(a + n) + 1] = g[n + 1]
    <3>1. PICK m \in 1..b : m = n + 1
      BY <2>2
    <3>2. (h \o g)[a + m] = g[m]
      BY <1>3, <3>1
    <3>3. a + m = (a + n) + 1
      BY <1>1, <3>1
    <3> QED BY <3>1, <3>2, <3>3
  <2>4. Rank(h \o g, (a + n) + 1)
          = Rank(h \o g, a + n) + (IF (h \o g)[(a + n) + 1].good THEN 1 ELSE 0)
    BY <2>2, RankStep
  <2>5. Rank(g, n + 1) = Rank(g, n) + (IF g[n + 1].good THEN 1 ELSE 0)
    BY RankStep
  <2>6. Rank(g, n) \in Nat /\ Rank(h, a) \in Nat
    BY RankStep
  <2> QED BY <2>1, <2>2, <2>3, <2>4, <2>5, <2>6
<1>8. Nat \subseteq S
  BY <1>6, <1>7, InductionOver
<1>9. ASSUME NEW n \in 0..b PROVE Rank(h \o g, a + n) = Rank(h, a) + Rank(g, n)
  BY <1>5, <1>8
<1> QED BY <1>1, <1>4, <1>9

LEMMA BeforeStep ==
    ASSUME NEW good, NEW n \in Nat
    PROVE  /\ Before(good, 0) = 0 /\ Before(good, n) \in 0..n
           /\ Before(good, n + 1) = Before(good, n) + (IF good[n] THEN 1 ELSE 0)
<1>1. PICK T : T = {e \in 0..n-1 : good[e]}
  OBVIOUS
<1>2. IsFiniteSet(T) /\ Cardinality(T) \in 0..n
  <2>1. IsFiniteSet(0..n-1) /\ Cardinality(0..n-1) = n /\ T \in SUBSET (0..n-1)
    BY <1>1, FS_Interval
  <2>2. IsFiniteSet(T) /\ Cardinality(T) <= n
    BY <2>1, FS_Subset
  <2> QED BY <2>2, FS_CardinalityType
<1>3. {e \in 0..0-1 : good[e]} = {}
  OBVIOUS
<1>4. {e \in 0..n+1-1 : good[e]} = IF good[n] THEN T \cup {n} ELSE T
  BY <1>1
<1>5. n \notin T
  BY <1>1
<1>6. Cardinality(T \cup {n}) = Cardinality(T) + 1
  BY <1>2, <1>5, FS_AddElement
<1>7. Before(good, 0) = 0
  BY <1>3, FS_EmptySet DEF Before
<1>8. Before(good, n) = Cardinality(T)
  BY <1>1 DEF Before
<1>9. Before(good, n + 1) = Cardinality(IF good[n] THEN T \cup {n} ELSE T)
  BY <1>4 DEF Before
<1>10. Before(good, n + 1) = Cardinality(T) + (IF good[n] THEN 1 ELSE 0)
  BY <1>2, <1>6, <1>9
<1> QED BY <1>2, <1>7, <1>8, <1>10

LEMMA BeforeGrows ==
    ASSUME NEW good, NEW m \in Nat, NEW n \in Nat, m <= n
    PROVE  Before(good, m) <= Before(good, n)
<1>1. PICK T : T = {i \in 0..n-1 : good[i]}
  OBVIOUS
<1>2. {i \in 0..m-1 : good[i]} \in SUBSET T
  BY <1>1
<1>3. IsFiniteSet(0..n-1) /\ T \in SUBSET (0..n-1)
  BY <1>1, FS_Interval
<1>4. IsFiniteSet(T)
  BY <1>3, FS_Subset
<1> QED BY <1>1, <1>2, <1>4, FS_Subset DEF Before

\* idxlut[good] puts each accepted candidate at the place the number of those
\* before it gives, and nothing else there.
LEMMA OnePlace ==
    ASSUME NEW good, NEW a \in 0..V-1, good[a]
    PROVE  AtPlace(good, Before(good, a)) = {a}
<1>1. V \in Nat /\ a \in Nat
  BY LaneAssumption
<1>2. ASSUME NEW b \in 0..V-1, NEW d \in 0..V-1, good[b], b < d
      PROVE  Before(good, b) # Before(good, d)
  <2>1. b \in Nat /\ d \in Nat /\ b + 1 \in Nat /\ b + 1 <= d
    BY <1>1, <1>2
  <2>2. Before(good, b + 1) = Before(good, b) + 1 /\ Before(good, b) \in Nat
    BY <1>2, <2>1, BeforeStep
  <2>3. Before(good, b + 1) <= Before(good, d) /\ Before(good, d) \in Nat
    BY <2>1, BeforeGrows, BeforeStep
  <2> QED BY <2>2, <2>3
<1>3. ASSUME NEW b \in 0..V-1, good[b], Before(good, b) = Before(good, a) PROVE b = a
  <2>1. ~(b < a) /\ ~(a < b)
    BY <1>2, <1>3
  <2> QED BY <1>1, <2>1
<1> QED BY <1>3 DEF AtPlace

LEMMA BeforeIsRank ==
    ASSUME NEW good, NEW g, \A m \in 1..V : g[m].good = good[m-1]
    PROVE  \A n \in 0..V : Before(good, n) = Rank(g, n)
<1>1. V \in Nat
  BY LaneAssumption
<1>2. PICK S : S = {n \in Nat : n <= V => Before(good, n) = Rank(g, n)}
  OBVIOUS
<1>3. 0 \in S
  BY <1>2, RankStep, BeforeStep
<1>4. ASSUME NEW n \in Nat, n \in S PROVE n + 1 \in S
  <2> SUFFICES ASSUME n + 1 <= V PROVE Before(good, n + 1) = Rank(g, n + 1)
    BY <1>2
  <2>1. Before(good, n) = Rank(g, n)
    BY <1>1, <1>2, <1>4
  <2>2. n + 1 \in 1..V /\ (n + 1) - 1 = n
    BY <1>1
  <2>3. g[n + 1].good = good[n]
    BY <2>2
  <2> QED BY <2>1, <2>3, RankStep, BeforeStep
<1>5. Nat \subseteq S
  BY <1>3, <1>4, InductionOver
<1> QED BY <1>1, <1>2, <1>5


\* Sampled, of one candidate and of one lane.
Stored(l, j, x, r, co) == x.cand = Candidate(l, j) /\ (x.good => co[r - 1] = x.cand)
LaneSampled(l, n, h, co) ==
    /\ n = Rank(h, Len(h))
    /\ \A j \in 1..Len(h) : Stored(l, j-1, h[j], Rank(h, j), co)

LEMMA IsStored ==
    ASSUME NEW l, NEW j, NEW x, NEW r, NEW co,
           x.cand = Candidate(l, j), x.good => co[r - 1] = x.cand
    PROVE  Stored(l, j, x, r, co)
  BY DEF Stored

LEMMA Extended ==
    ASSUME NEW l, NEW n, NEW h \in Seq(Tests), NEW g \in Seq(Tests), NEW co, NEW co2,
           LaneSampled(l, n, h, co),
           \A k \in Nat : k < n => co2[k] = co[k],
           \A i \in 1..Len(g) : Stored(l, Len(h) + i - 1, g[i], n + Rank(g, i), co2)
    PROVE  LaneSampled(l, n + Rank(g, Len(g)), h \o g, co2)
<1>1. PICK a \in Nat, b \in Nat : a = Len(h) /\ b = Len(g)
  BY LenProperties
<1>2. Len(h \o g) = a + b
  BY <1>1, ConcatProperties
<1>3. n = Rank(h, a) /\ n \in Nat
  BY <1>1, RankStep DEF LaneSampled
<1>4. Rank(h \o g, a + b) = n + Rank(g, b)
  <2>1. b \in 0..Len(g)
    BY <1>1
  <2> QED BY <1>1, <1>3, <2>1, JoinedRank
<1>5. ASSUME NEW j \in 1..a PROVE Stored(l, j-1, (h \o g)[j], Rank(h \o g, j), co2)
  <2>1. (h \o g)[j] = h[j] /\ Rank(h \o g, j) = Rank(h, j)
    BY <1>1, ConcatProperties, JoinedRank
  <2>2. Stored(l, j-1, h[j], Rank(h, j), co)
    BY <1>1 DEF LaneSampled
  <2>3. ASSUME h[j].good PROVE co2[Rank(h, j) - 1] = co[Rank(h, j) - 1]
    <3>1. PICK m \in Nat : m = j - 1 /\ m + 1 = j
      <4>1. j - 1 \in Nat /\ (j - 1) + 1 = j
        OBVIOUS
      <4> QED BY <4>1
    <3>2. Rank(h, m + 1) = Rank(h, m) + 1 /\ Rank(h, m) \in Nat
      <4>1. h[m + 1].good
        BY <2>3, <3>1
      <4>2. Rank(h, m + 1) = Rank(h, m) + (IF h[m + 1].good THEN 1 ELSE 0) /\ Rank(h, m) \in 0..m
        BY ONLY RankStep, <3>1, m \in Nat
      <4> QED BY ONLY <4>1, <4>2, m \in Nat
    <3>3. Rank(h, j) <= Rank(h, a)
      <4>1. j \in Nat /\ j <= a
        OBVIOUS
      <4> QED BY <4>1, RankGrows
    <3>4. Rank(h, j) - 1 \in Nat /\ Rank(h, j) - 1 < n
      <4>1. Rank(h, j) = Rank(h, m) + 1
        BY <3>1, <3>2
      <4> QED BY <1>3, <3>2, <3>3, <4>1
    <3> QED BY <3>4
  <2>4. Stored(l, j-1, h[j], Rank(h, j), co2)
    BY <2>2, <2>3 DEF Stored
  <2> QED BY <2>1, <2>4
<1>6. ASSUME NEW j \in 1..a+b, NEW i \in 1..b, j = a + i
      PROVE  Stored(l, j-1, (h \o g)[j], Rank(h \o g, j), co2)
  <2>1. (h \o g)[j] = g[i]
    <3>1. j \in 1..Len(h) + Len(g) /\ ~(j <= Len(h)) /\ j - Len(h) = i
      BY <1>1, <1>6
    <3> QED BY <3>1, ConcatProperties
  <2>2. Rank(h \o g, j) = n + Rank(g, i)
    BY <1>1, <1>3, <1>6, JoinedRank
  <2>3. j - 1 = Len(h) + i - 1
    BY <1>1, <1>6
  <2>4. Stored(l, Len(h) + i - 1, g[i], n + Rank(g, i), co2)
    BY <1>1
  <2> QED BY <2>1, <2>2, <2>3, <2>4
<1>7. ASSUME NEW j \in 1..a+b PROVE Stored(l, j-1, (h \o g)[j], Rank(h \o g, j), co2)
  <2>1. CASE j \in 1..a
    BY <1>5, <2>1
  <2>2. CASE ~(j \in 1..a)
    <3>1. PICK i \in 1..b : j = a + i
      <4>1. j - a \in 1..b /\ j = a + (j - a)
        BY <2>2
      <4> QED BY <4>1
    <3> QED BY <1>6, <3>1
  <2> QED BY <2>1, <2>2
<1> QED BY <1>1, <1>2, <1>4, <1>7 DEF LaneSampled

(***************************************************************************)
(* The buffer of each lane is a window on its stream that begins at Start; *)
(* the history of a lane that still lacks coefficients has reached a       *)
(* certain byte of it, or its middle.                                      *)
(***************************************************************************)
Start == blocks*env.rate - buflen
Used == buflen - Carried
Reached(l) == IF pc = "squeeze" \/ l < lane THEN Used ELSE IF l = lane THEN pos ELSE 0
Half(l) == IF pc = "scalar" /\ l = lane THEN group ELSE 0

LTypes ==
    /\ env \in Envs /\ blocks \in Nat /\ buflen \in Nat /\ pos \in Nat
    /\ lane \in Lanes /\ group \in 0..3
    /\ pc \in {"squeeze", "vector", "scalar", "done"}
    /\ ctr \in [Lanes -> 0..N] /\ tested \in [Lanes -> Seq(Tests)]
    /\ coeffs = [l \in Lanes |-> coeffs[l]]
    /\ \A l \in Lanes : coeffs[l] = [k \in 0..N+V-1 |-> coeffs[l][k]]

Buffers ==
    /\ Start \in Nat /\ buflen <= BufSize
    /\ (env.vector /\ Uniform => buflen % 3 = 0)
    /\ \A l \in Lanes : \A k \in 0..buflen-1 : buf[l][k] = <<l, Start + k>>

Fits == \A l \in Lanes : \A k \in N..N+V-1 : coeffs[l][k] = None

Squeezing == pc = "squeeze" =>
    /\ group = 0 /\ lane = 0 /\ pos = 0
    /\ blocks = 0 \/ blocks >= env.first
    /\ blocks = 0 => \A l \in Lanes : ctr[l] = 0

Scanning == pc \in {"vector", "scalar"} =>
    /\ pos + Half(lane) <= buflen /\ (Uniform => pos % 3 = 0 /\ group = 0)
    /\ blocks >= env.first
    /\ blocks = env.first =>
          buflen = env.first*env.rate /\ \A l \in Lanes : l > lane => ctr[l] = 0
    /\ pc = "scalar" => group <= 1
    /\ pc = "vector" =>
          /\ env.vector /\ blocks = env.first
          /\ Uniform \/ group # 0 => ctr[lane] <= N - V
          /\ group # 0 => pos + 2*V <= buflen + group*(V \div 2)

Progress(l) ==
    IF Uniform THEN 3*Len(tested[l]) = Start + Reached(l)
               ELSE Len(tested[l]) = 2*(Start + Reached(l)) + Half(l)
Progresses == pc # "done" => \A l \in Lanes : ctr[l] < N => Progress(l)

LInv == LTypes /\ Buffers /\ Fits /\ Squeezing /\ Scanning /\ Progresses /\ Sampled

\* H is half a register.
LEMMA LaneSizes ==
    /\ N \in Nat /\ V \in Nat \ {0} /\ V <= N
    /\ V \div 2 \in Nat \ {0} /\ V = 2*(V \div 2)
BY LaneAssumption

LEMMA EnvSizes ==
    ASSUME LTypes
    PROVE  /\ Lanes = 0..env.lanes-1 /\ env.lanes \in Nat \ {0}
           /\ env.rate \in Nat \ {0} /\ env.first \in Nat \ {0} /\ env.vector \in BOOLEAN
           /\ env.first*env.rate \in Nat /\ blocks*env.rate \in Nat
           /\ Start \in Int /\ BufSize \in Nat
           /\ BufSize >= env.first*env.rate + Carried
           /\ (env.vector /\ Uniform => BufSize = env.first*env.rate + V /\ env.rate % 3 = 0)
           /\ Carried \in 0..2 /\ Carried <= buflen
           /\ (env.vector => Carried = 0) /\ (~Uniform => Carried = 0)
           /\ (Uniform /\ ~env.vector => Carried = buflen % 3)
<1>1. /\ env \in Envs /\ blocks \in Nat /\ buflen \in Nat
  BY DEF LTypes
<1>2. /\ env.dist \in {"uniform", "eta"} /\ env.vector \in BOOLEAN
      /\ env.lanes \in Nat \ {0} /\ env.rate \in Nat \ {0} /\ env.first \in Nat \ {0}
      /\ env.vector /\ env.dist = "uniform" => env.rate % 3 = 0
  BY <1>1, LaneAssumption
<1>3. PICK r \in Nat \ {0}, f \in Nat \ {0} : r = env.rate /\ f = env.first
  BY <1>2
<1>4. f*r \in Nat /\ blocks*r \in Nat
  BY <1>1, <1>3
<1>5. Uniform <=> env.dist # "eta"
  BY <1>2 DEF Uniform
<1>6. Carried = IF Uniform /\ ~env.vector THEN buflen % 3 ELSE 0
  BY DEF Carried
<1>7. buflen % 3 \in 0..2 /\ buflen % 3 <= buflen
  BY <1>1
<1>8. Slack(env) = IF ~Uniform THEN 0 ELSE IF env.vector THEN V ELSE 2
  <2>1. CASE env.dist = "eta"
    BY <1>5, <2>1 DEF Slack
  <2>2. CASE env.dist # "eta" /\ env.vector
    BY <1>5, <2>2 DEF Slack
  <2>3. CASE env.dist # "eta" /\ ~env.vector
    BY <1>5, <2>3 DEF Slack
  <2> QED BY <1>2, <2>1, <2>2, <2>3
<1>9. Carried \in 0..2 /\ Carried <= buflen /\ Slack(env) \in Nat /\ Carried <= Slack(env)
  BY <1>1, <1>2, <1>6, <1>7, <1>8, LaneSizes
<1>10. BufSize = f*r + Slack(env)
  BY <1>3 DEF BufSize
<1>11. BufSize \in Nat /\ BufSize >= f*r + Carried
  BY <1>4, <1>9, <1>10
<1>12. Start \in Int
  BY <1>1, <1>3, <1>4 DEF Start
<1>13. env.vector /\ Uniform => BufSize = f*r + V
  BY <1>8, <1>10
<1> QED BY <1>2, <1>3, <1>4, <1>5, <1>6, <1>9, <1>11, <1>12, <1>13 DEF Lanes

LEMMA LaneNumbers ==
    ASSUME LTypes
    PROVE  Lanes \subseteq Nat /\ lane \in Nat /\ lane \in Lanes
<1>1. Lanes = 0..env.lanes-1 /\ env.lanes \in Nat
  BY EnvSizes
<1> QED BY <1>1 DEF LTypes

LEMMA LaneInvStarts == Init => LInv
<1> SUFFICES ASSUME Init PROVE LInv
  OBVIOUS
<1>1. /\ env \in Envs /\ buflen = 0 /\ blocks = 0 /\ lane = 0 /\ group = 0 /\ pos = 0
      /\ ctr = [l \in Lanes |-> 0] /\ tested = [l \in Lanes |-> <<>>] /\ pc = "squeeze"
      /\ coeffs = [l \in Lanes |-> [k \in 0..N+V-1 |-> None]]
  BY DEF Init
<1>2. LTypes
  <2>1. env.lanes \in Nat \ {0}
    BY <1>1, LaneAssumption
  <2>2. lane \in Lanes
    BY <1>1, <2>1 DEF Lanes
  <2>3. ctr \in [Lanes -> 0..N] /\ tested \in [Lanes -> Seq(Tests)]
    BY <1>1, LaneSizes
  <2>4. /\ coeffs = [l \in Lanes |-> coeffs[l]]
        /\ \A l \in Lanes : coeffs[l] = [k \in 0..N+V-1 |-> coeffs[l][k]]
    BY <1>1
  <2> QED BY <1>1, <2>2, <2>3, <2>4 DEF LTypes
<1>3. Carried = 0 /\ Start = 0 /\ Used = 0
  <2>1. Carried = 0
    BY <1>1 DEF Carried
  <2>2. env.rate \in Nat
    BY <1>2, EnvSizes
  <2> QED BY <1>1, <2>1, <2>2 DEF Start, Used
<1>4. Buffers
  BY <1>1, <1>2, <1>3, EnvSizes DEF Buffers
<1>5. Fits
  BY <1>1, LaneSizes DEF Fits
<1>6. Squeezing /\ Scanning
  BY <1>1 DEF Squeezing, Scanning
<1>7. Progresses
  <2>1. \A l \in Lanes : Len(tested[l]) = 0
    BY <1>1
  <2>2. \A l \in Lanes : Reached(l) = 0 /\ Half(l) = 0
    BY <1>1, <1>3 DEF Reached, Half
  <2> QED BY <1>3, <2>1, <2>2 DEF Progresses, Progress
<1>8. Sampled
  <2>1. ASSUME NEW l \in Lanes
        PROVE  /\ ctr[l] = Rank(tested[l], Len(tested[l]))
               /\ 1..Len(tested[l]) = {}
    <3>1. tested[l] = <<>> /\ Len(tested[l]) = 0 /\ ctr[l] = 0
      BY <1>1
    <3>2. Rank(tested[l], 0) = 0
      BY RankStep
    <3> QED BY <3>1, <3>2
  <2> QED BY <2>1 DEF Sampled
<1> QED BY <1>2, <1>4, <1>5, <1>6, <1>7, <1>8 DEF LInv

LEMMA SampledIs ==
    Sampled <=> \A l \in Lanes : LaneSampled(l, ctr[l], tested[l], coeffs[l])
BY DEF Sampled, LaneSampled, Stored

LEMMA SameSampled ==
    ASSUME Sampled, env' = env, ctr' = ctr, tested' = tested, coeffs' = coeffs
    PROVE  Sampled'
<1>1. Lanes' = Lanes /\ \A l, j : Candidate(l, j)' = Candidate(l, j)
  BY DEF Lanes, Candidate, Uniform
<1> QED BY <1>1 DEF Sampled

\* A multiple of a multiple of three is one.
LEMMA Threes ==
    ASSUME NEW n \in Nat, NEW r \in Nat, r % 3 = 0
    PROVE  (n*r) % 3 = 0
<1>1. PICK q \in Nat : r = 3*q
  <2>1. r \div 3 \in Nat /\ r = 3*(r \div 3)
    OBVIOUS
  <2> QED BY <2>1
<1>2. PICK p \in Nat : p = n*q
  OBVIOUS
<1>3. PICK z \in Nat : z = n*r
  OBVIOUS
<1>4. z = 3*p
  BY <1>1, <1>2, <1>3
<1>5. z % 3 = 0
  BY <1>2, <1>4
<1> QED BY <1>3, <1>5

LEMMA Factored ==
    ASSUME NEW a \in Nat, NEW b \in Nat, NEW r \in Nat
    PROVE  (a + b)*r = a*r + b*r /\ a*r \in Nat /\ b*r \in Nat
  OBVIOUS

LEMMA AtMost ==
    ASSUME NEW a \in Nat, NEW b \in Nat, NEW r \in Nat, a <= b
    PROVE  a*r <= b*r
<1>1. PICK d \in Nat : b = a + d
  <2>1. b - a \in Nat /\ b = a + (b - a)
    OBVIOUS
  <2> QED BY <2>1
<1>2. b*r = a*r + d*r /\ d*r \in Nat /\ a*r \in Nat
  BY <1>1
<1> QED BY <1>2

LEMMA SqueezeStep == LInv /\ Squeeze => LInv'
<1> SUFFICES ASSUME LInv, Squeeze PROVE LInv'
  OBVIOUS
<1>1. LTypes /\ Buffers /\ Fits /\ Squeezing /\ Progresses /\ Sampled
  BY DEF LInv
<1>2. PICK b : b = IF blocks = 0 THEN env.first ELSE 1
  OBVIOUS
<1>3. /\ pc = "squeeze"
      /\ buf' = [l \in Lanes |-> Refilled(l, Carried, b)]
      /\ buflen' = b*env.rate + Carried /\ blocks' = blocks + b
      /\ pc' = IF env.vector /\ blocks = 0 THEN "vector" ELSE "scalar"
      /\ env' = env /\ lane' = lane /\ group' = group /\ pos' = pos /\ ctr' = ctr
      /\ coeffs' = coeffs /\ tested' = tested
  BY <1>2 DEF Squeeze
<1>4. PICK r \in Nat \ {0}, f \in Nat \ {0}, o \in 0..2 :
          r = env.rate /\ f = env.first /\ o = Carried
  BY <1>1, EnvSizes
<1>5. b \in Nat \ {0} /\ b <= f /\ blocks \in Nat /\ buflen \in Nat
  BY <1>1, <1>2, <1>4 DEF LTypes
<1>6. PICK p \in Nat, q \in Nat, t \in Nat : p = blocks*r /\ q = b*r /\ t = f*r
  BY <1>4, <1>5
<1>7. blocks'*r = p + q /\ q <= t
  BY <1>3, <1>4, <1>5, <1>6, Factored, AtMost
<1>8. /\ o <= buflen /\ buflen <= p /\ Start = p - buflen
      /\ BufSize \in Nat /\ BufSize >= t + o
  <2>1. Start = p - buflen
    BY <1>4, <1>6 DEF Start
  <2>2. Start \in Nat
    BY <1>1 DEF Buffers
  <2>3. Carried <= buflen /\ BufSize \in Nat /\ BufSize >= env.first*env.rate + Carried
    BY <1>1, EnvSizes
  <2>4. BufSize >= t + o /\ o <= buflen
    BY <1>4, <1>6, <2>3
  <2>5. buflen <= p
    BY <1>5, <1>6, <2>1, <2>2
  <2> QED BY <2>1, <2>3, <2>4, <2>5
<1>9. buflen' = q + o /\ Start' = p - o /\ buflen' <= BufSize
  <2>1. buflen' = q + o
    BY <1>3, <1>4, <1>6
  <2>2. Start' = (p + q) - buflen'
    BY <1>3, <1>4, <1>7 DEF Start
  <2> QED BY <1>7, <1>8, <2>1, <2>2
<1>10. /\ Lanes' = Lanes /\ BufSize' = BufSize /\ (Uniform' <=> Uniform)
  BY <1>3 DEF Lanes, BufSize, Slack, Uniform
<1>11. blocks' \in Nat /\ buflen' \in Nat /\ blocks' >= f /\ (blocks' = f => blocks = 0)
       /\ (blocks = 0 => blocks' = f)
  <2>1. blocks = 0 \/ blocks >= f
    BY <1>1, <1>3, <1>4 DEF Squeezing
  <2> QED BY <1>2, <1>3, <1>4, <1>5, <1>9, <2>1
<1>12. LTypes'
  <2>1. pc' \in {"squeeze", "vector", "scalar", "done"}
    BY <1>3
  <2> QED BY <1>1, <1>3, <1>10, <1>11, <2>1 DEF LTypes
<1>13. Buffers'
  <2>1. ASSUME NEW l \in Lanes, NEW k \in 0..buflen'-1 PROVE buf'[l][k] = <<l, Start' + k>>
    <3>1. k \in 0..BufSize-1 /\ k < o + q /\ k \in Nat
      BY <1>8, <1>9, <1>11
    <3>2. buf'[l][k] = IF k < o THEN buf[l][buflen - o + k]
                       ELSE IF k < o + q THEN <<l, p + k - o>> ELSE buf[l][k]
      BY <1>3, <1>4, <1>6, <3>1 DEF Refilled, LaneOut
    <3>3. CASE k < o
      <4>1. PICK j \in 0..buflen-1 : j = buflen - o + k
        BY <1>5, <1>8, <3>1, <3>3
      <4>2. buf[l][j] = <<l, Start + j>>
        BY <1>1 DEF Buffers
      <4>3. Start + j = Start' + k
        BY <1>5, <1>8, <1>9, <3>1, <4>1
      <4> QED BY <3>2, <3>3, <4>1, <4>2, <4>3
    <3>4. CASE ~(k < o)
      <4>1. p + k - o = Start' + k
        BY <1>9, <3>1
      <4> QED BY <3>1, <3>2, <3>4, <4>1
    <3> QED BY <3>3, <3>4
  <2>2. env.vector /\ Uniform => buflen' % 3 = 0
    <3> SUFFICES ASSUME env.vector, Uniform PROVE buflen' % 3 = 0
      OBVIOUS
    <3>1. o = 0 /\ r % 3 = 0
      BY <1>1, <1>4, EnvSizes
    <3>2. (b*r) % 3 = 0
      BY <1>5, <3>1, Threes
    <3>3. buflen' = q
      BY <1>6, <1>9, <3>1
    <3> QED BY <1>6, <3>2, <3>3
  <2>3. Start' \in Nat
    <3>1. o <= p /\ Start' = p - o
      BY <1>5, <1>8, <1>9
    <3> QED BY <1>4, <1>6, <3>1
  <2> QED BY <1>3, <1>9, <1>10, <2>1, <2>2, <2>3 DEF Buffers
<1>14. Fits'
  BY <1>1, <1>3, <1>10 DEF Fits
<1>15. Squeezing'
  BY <1>3 DEF Squeezing
<1>16. group = 0 /\ lane = 0 /\ pos = 0 /\ (blocks = 0 => \A l \in Lanes : ctr[l] = 0)
  BY <1>1, <1>3 DEF Squeezing
<1>17. \A l : Half(l)' = 0 /\ Half(l) = 0
  BY <1>3, <1>16 DEF Half
<1>18. Scanning'
  <2>1. 0 <= buflen' /\ lane \in Lanes
    BY <1>1, <1>11 DEF LTypes
  <2>2. ASSUME pc' = "vector"
        PROVE  env.vector /\ blocks' = f /\ ctr[lane] <= N - V
    <3>1. env.vector /\ blocks = 0
      BY <1>3, <2>2
    <3> QED BY <1>11, <1>16, <2>1, <3>1, LaneSizes
  <2>3. pos' + Half(lane)' <= buflen' /\ (Uniform => pos' % 3 = 0 /\ group' = 0)
    BY <1>3, <1>11, <1>16, <1>17, <2>1
  <2>4. blocks' = f => buflen' = f*r /\ \A l \in Lanes : ctr[l] = 0
    <3> SUFFICES ASSUME blocks' = f PROVE buflen' = f*r /\ \A l \in Lanes : ctr[l] = 0
      OBVIOUS
    <3>1. blocks = 0 /\ b = f /\ p = 0
      BY <1>2, <1>4, <1>6, <1>11
    <3>2. buflen = 0 /\ o = 0
      BY <1>4, <1>5, <1>8, <3>1
    <3> QED BY <1>6, <1>9, <1>16, <3>1, <3>2
  <2> QED BY <1>3, <1>4, <1>10, <1>11, <1>16, <2>2, <2>3, <2>4 DEF Scanning
<1>19. Progresses'
  <2>1. ASSUME NEW l \in Lanes, ctr[l] < N PROVE Progress(l)'
    <3>1. Progress(l) /\ Reached(l) = buflen - o
      BY <1>1, <1>3, <1>4, <2>1 DEF Progresses, Reached, Used
    <3>2. Reached(l)' = 0
      <4>1. ~(l < lane')
        BY <1>1, <1>3, <1>16, EnvSizes
      <4> QED BY <1>3, <1>16, <4>1 DEF Reached
    <3>3. Start + Reached(l) = Start' + Reached(l)'
      BY <1>5, <1>8, <1>9, <3>1, <3>2
    <3> QED BY <1>3, <1>10, <1>17, <3>1, <3>3 DEF Progress
  <2> QED BY <1>3, <1>10, <2>1 DEF Progresses
<1>20. Sampled'
  BY <1>1, <1>3, SameSampled
<1> QED BY <1>12, <1>13, <1>14, <1>15, <1>18, <1>19, <1>20 DEF LInv

\* A step that tests the candidates g of the running call.
LEMMA LaneExtends ==
    ASSUME LTypes, Fits, Sampled, env' = env, NEW g \in Seq(Tests), NEW co,
           tested' = [tested EXCEPT ![lane] = @ \o g],
           coeffs' = [coeffs EXCEPT ![lane] = co],
           ctr' = [ctr EXCEPT ![lane] = @ + Rank(g, Len(g))],
           ctr[lane] + Rank(g, Len(g)) <= N,
           co = [k \in 0..N+V-1 |-> co[k]],
           \A k \in 0..N+V-1 : k < ctr[lane] \/ k >= N => co[k] = coeffs[lane][k],
           \A i \in 1..Len(g) :
              Stored(lane, Len(tested[lane]) + i - 1, g[i], ctr[lane] + Rank(g, i), co)
    PROVE  /\ Sampled' /\ Fits'
           /\ ctr' \in [Lanes -> 0..N] /\ tested' \in [Lanes -> Seq(Tests)]
           /\ coeffs' = [l \in Lanes |-> coeffs'[l]]
           /\ \A l \in Lanes : coeffs'[l] = [k \in 0..N+V-1 |-> coeffs'[l][k]]
           /\ \A l \in Lanes : l # lane => ctr'[l] = ctr[l] /\ tested'[l] = tested[l]
           /\ Len(tested'[lane]) = Len(tested[lane]) + Len(g)
<1>1. /\ lane \in Lanes /\ ctr \in [Lanes -> 0..N] /\ tested \in [Lanes -> Seq(Tests)]
      /\ coeffs = [l \in Lanes |-> coeffs[l]]
      /\ \A l \in Lanes : coeffs[l] = [k \in 0..N+V-1 |-> coeffs[l][k]]
  BY DEF LTypes
<1>2. PICK n \in 0..N, h \in Seq(Tests) : n = ctr[lane] /\ h = tested[lane]
  BY <1>1
<1>3. Rank(g, Len(g)) \in Nat
  BY LenProperties, RankStep
<1>4. Lanes' = Lanes /\ \A l, j : Candidate(l, j)' = Candidate(l, j)
  BY DEF Lanes, Candidate, Uniform
<1>5. h \o g \in Seq(Tests) /\ Len(h \o g) = Len(h) + Len(g)
  BY ConcatProperties
<1>6. \A l \in Lanes : /\ ctr'[l] = IF l = lane THEN n + Rank(g, Len(g)) ELSE ctr[l]
                       /\ tested'[l] = IF l = lane THEN h \o g ELSE tested[l]
                       /\ coeffs'[l] = IF l = lane THEN co ELSE coeffs[l]
  BY <1>1, <1>2
<1>7. ctr' \in [Lanes -> 0..N]
  <2>1. n + Rank(g, Len(g)) <= N
    BY <1>2
  <2>2. n + Rank(g, Len(g)) \in 0..N
    <3>1. PICK y \in Nat : y = Rank(g, Len(g))
      BY <1>3
    <3>2. n \in Nat /\ N \in Nat /\ n + y <= N
      BY <2>1, <3>1, LaneSizes
    <3>3. n + y \in 0..N
      BY <3>2
    <3> QED BY <3>1, <3>3
  <2> QED BY <1>1, <1>2, <2>2
<1>8. tested' \in [Lanes -> Seq(Tests)]
  BY <1>1, <1>2, <1>5
<1>9. /\ coeffs' = [l \in Lanes |-> coeffs'[l]]
      /\ \A l \in Lanes : coeffs'[l] = [k \in 0..N+V-1 |-> coeffs'[l][k]]
  BY <1>1, <1>6
<1>10. ASSUME NEW l \in Lanes, NEW k \in N..N+V-1 PROVE coeffs'[l][k] = None
  <2>1. k \in 0..N+V-1 /\ k >= N /\ coeffs[l][k] = None
    BY LaneSizes DEF Fits
  <2> QED BY <1>2, <1>6, <2>1
<1>11. LaneSampled(lane, n + Rank(g, Len(g)), h \o g, co)
  <2>1. LaneSampled(lane, n, h, coeffs[lane])
    BY <1>1, <1>2, SampledIs
  <2>2. ASSUME NEW k \in Nat, k < n PROVE co[k] = coeffs[lane][k]
    <3>1. k \in 0..N+V-1
      BY <2>2, LaneSizes
    <3> QED BY <1>2, <2>2, <3>1
  <2>3. \A i \in 1..Len(g) : Stored(lane, Len(h) + i - 1, g[i], n + Rank(g, i), co)
    BY <1>2
  <2> QED BY <2>1, <2>2, <2>3, Extended
<1>12. ASSUME NEW l \in Lanes PROVE LaneSampled(l, ctr'[l], tested'[l], coeffs'[l])
  <2>1. CASE l = lane
    BY <1>6, <1>11, <2>1
  <2>2. CASE l # lane
    BY <1>6, <2>2, SampledIs
  <2> QED BY <2>1, <2>2
<1>13. Sampled'
  BY <1>4, <1>12 DEF Sampled, LaneSampled, Stored
<1>14. Fits'
  BY <1>4, <1>10 DEF Fits
<1> QED BY <1>1, <1>2, <1>5, <1>6, <1>7, <1>8, <1>9, <1>13, <1>14

\* The lanes that are not running stay where they are.
LEMMA OtherLane ==
    ASSUME Progresses, pc \in {"vector", "scalar"}, pc' \in {"vector", "scalar"},
           env' = env, buflen' = buflen, blocks' = blocks, lane' = lane,
           NEW l \in Lanes, l # lane, ctr'[l] = ctr[l], tested'[l] = tested[l], ctr[l] < N
    PROVE  Progress(l)'
<1>1. Progress(l)
  BY DEF Progresses
<1>2. Start' = Start /\ Used' = Used /\ (Uniform' <=> Uniform)
  BY DEF Start, Used, Carried, Uniform
<1>3. Reached(l)' = Reached(l) /\ Half(l)' = Half(l)
  BY <1>2 DEF Reached, Half
<1> QED BY <1>1, <1>2, <1>3 DEF Progress

\* A step that keeps the buffers.
LEMMA SameBuffers ==
    ASSUME Buffers, env' = env, buf' = buf, buflen' = buflen, blocks' = blocks
    PROVE  Buffers' /\ Start' = Start /\ Used' = Used /\ (Uniform' <=> Uniform) /\ Lanes' = Lanes
<1>1. Start' = Start /\ Used' = Used /\ (Uniform' <=> Uniform) /\ Lanes' = Lanes /\ BufSize' = BufSize
  BY DEF Start, Used, Carried, Uniform, Lanes, BufSize, Slack
<1> QED BY <1>1 DEF Buffers

\* What the candidates of the call that runs are read from.
LEMMA CellIs ==
    ASSUME LTypes, Buffers, NEW k \in 0..buflen-1
    PROVE  Cell(k) = <<lane, Start + k>>
<1>1. k < BufSize /\ lane \in Lanes
  <2>1. buflen \in Nat /\ buflen <= BufSize /\ BufSize \in Nat
    BY EnvSizes DEF LTypes, Buffers
  <2> QED BY <2>1 DEF LTypes
<1> QED BY <1>1 DEF Cell, Buffers

LEMMA VectorEndStep == LInv /\ VectorEnd => LInv'
<1> SUFFICES ASSUME LInv, VectorEnd PROVE LInv'
  OBVIOUS
<1>1. LTypes /\ Buffers /\ Fits /\ Squeezing /\ Scanning /\ Progresses /\ Sampled
  BY DEF LInv
<1>2. /\ pc = "vector" /\ pc' = "scalar" /\ group = 0
      /\ env' = env /\ buf' = buf /\ buflen' = buflen /\ blocks' = blocks /\ lane' = lane
      /\ group' = group /\ pos' = pos /\ ctr' = ctr /\ coeffs' = coeffs /\ tested' = tested
  BY DEF VectorEnd
<1>3. Buffers' /\ Start' = Start /\ Used' = Used /\ (Uniform' <=> Uniform) /\ Lanes' = Lanes
  BY <1>1, <1>2, SameBuffers
<1>4. LTypes'
  BY <1>1, <1>2, <1>3 DEF LTypes
<1>5. Fits' /\ Squeezing' /\ Sampled'
  BY <1>1, <1>2, <1>3, SameSampled DEF Fits, Squeezing
<1>6. \A l : Half(l)' = 0 /\ Half(l) = 0 /\ Reached(l)' = Reached(l)
  BY <1>2, <1>3 DEF Half, Reached
<1>7. Half(lane)' = 0 /\ Half(lane) = 0
  BY <1>2 DEF Half
<1>8. Scanning'
  BY <1>1, <1>2, <1>3, <1>7 DEF Scanning
<1>9. Progresses'
  BY <1>1, <1>2, <1>3, <1>6 DEF Progresses, Progress
<1> QED BY <1>3, <1>4, <1>5, <1>8, <1>9 DEF LInv

\* The candidates of the call that runs, from the byte and nibble it stands at.
LEMMA NextCandidate ==
    ASSUME LTypes, Buffers, NEW n \in Nat, NEW k \in Nat, NEW e \in 0..1,
           IF Uniform THEN 3*n = Start + k /\ e = 0 ELSE n = 2*(Start + k) + e,
           k < buflen
    PROVE  << Cell(k), e >> = Candidate(lane, n) /\ << Cell(k), e >> \in (Int \X Int) \X Int
<1>1. buflen \in Nat /\ lane \in Int /\ Start \in Nat
  BY LaneNumbers DEF LTypes, Buffers
<1>2. k \in 0..buflen-1
  BY <1>1
<1>3. Cell(k) = <<lane, Start + k>>
  BY <1>2, CellIs
<1>4. << Cell(k), e >> \in (Int \X Int) \X Int
  <2>1. Start + k \in Int /\ e \in Int
    BY <1>1
  <2>2. Cell(k) \in Int \X Int
    BY <1>1, <1>3, <2>1
  <2> QED BY <2>1, <2>2
<1>5. << Cell(k), e >> = Candidate(lane, n)
  <2>1. CASE Uniform
    <3>1. 3*n = Start + k /\ e = 0
      BY <2>1
    <3> QED BY <1>3, <2>1, <3>1 DEF Candidate
  <2>2. CASE ~Uniform
    <3>1. n = 2*(Start + k) + e
      BY <2>2
    <3>2. n \div 2 = Start + k /\ n % 2 = e
      BY <1>1, <3>1
    <3> QED BY <1>3, <2>2, <3>2 DEF Candidate
  <2> QED BY <2>1, <2>2
<1> QED BY <1>4, <1>5

LEMMA OneTest ==
    ASSUME NEW x \in Tests
    PROVE  /\ <<x>> \in Seq(Tests) /\ Len(<<x>>) = 1 /\ <<x>>[1] = x
           /\ Rank(<<x>>, 1) = IF x.good THEN 1 ELSE 0
<1>1. PICK g : g = <<x>>
  OBVIOUS
<1>2. g \in Seq(Tests) /\ Len(g) = 1 /\ g[1] = x
  BY <1>1
<1>3. Rank(g, 0) = 0 /\ Rank(g, 0 + 1) = Rank(g, 0) + (IF g[0 + 1].good THEN 1 ELSE 0)
  BY RankStep
<1>4. Rank(g, 1) = IF x.good THEN 1 ELSE 0
  BY <1>2, <1>3
<1> QED BY <1>1, <1>2, <1>4

LEMMA ScalarTryStep == LInv /\ ScalarTry => LInv'
<1> SUFFICES ASSUME LInv, ScalarTry PROVE LInv'
  OBVIOUS
<1>1. LTypes /\ Buffers /\ Fits /\ Squeezing /\ Scanning /\ Progresses /\ Sampled
  BY DEF LInv
<1>2. PICK ok \in BOOLEAN :
        /\ coeffs' = IF ok THEN [coeffs EXCEPT ![lane][ctr[lane]] = <<Cell(pos), group>>] ELSE coeffs
        /\ ctr' = IF ok THEN [ctr EXCEPT ![lane] = @ + 1] ELSE ctr
        /\ tested' = [tested EXCEPT ![lane] =
              Append(@, [cand |-> <<Cell(pos), group>>, good |-> ok])]
  BY DEF ScalarTry
<1>3. /\ pc = "scalar" /\ ctr[lane] < N /\ (group = 1 \/ InBuffer)
      /\ IF Uniform THEN pos' = pos + 3 /\ group' = group
                    ELSE pos' = pos + group /\ group' = 1 - group
      /\ env' = env /\ buf' = buf /\ buflen' = buflen /\ blocks' = blocks
      /\ lane' = lane /\ pc' = pc
  BY DEF ScalarTry
<1>4. Buffers' /\ Start' = Start /\ Used' = Used /\ (Uniform' <=> Uniform) /\ Lanes' = Lanes
  BY <1>1, <1>3, SameBuffers
<1>5. /\ pos \in Nat /\ buflen \in Nat /\ lane \in Lanes /\ group \in 0..1 /\ Start \in Nat
      /\ (Uniform => pos % 3 = 0 /\ group = 0)
      /\ pos + group <= buflen /\ blocks >= env.first
      /\ blocks = env.first =>
            buflen = env.first*env.rate /\ \A l \in Lanes : l > lane => ctr[l] = 0
  BY <1>1, <1>3 DEF LTypes, Buffers, Scanning, Half
<1>6. pos < buflen /\ (Uniform => pos + 3 <= buflen)
  <2>1. CASE group = 1
    BY <1>5, <2>1
  <2>2. CASE group # 1
    BY <1>3, <1>5, <2>2 DEF InBuffer
  <2> QED BY <2>1, <2>2
<1>0. PICK co : co = coeffs[lane]
  OBVIOUS
<1>7. PICK n \in 0..N, h \in Seq(Tests) :
          n = ctr[lane] /\ h = tested[lane] /\ co = coeffs[lane]
  BY <1>0, <1>1, <1>5 DEF LTypes
<1>8. n < N /\ co = [k \in 0..N+V-1 |-> co[k]] /\ Len(h) \in Nat
  BY <1>1, <1>3, <1>5, <1>7, LenProperties DEF LTypes
<1>9. IF Uniform THEN 3*Len(h) = Start + pos ELSE Len(h) = 2*(Start + pos) + group
  <2>1. Progress(lane)
    BY <1>1, <1>3, <1>5 DEF Progresses
  <2>2. ~(lane < lane)
    BY <1>1, <1>5, EnvSizes
  <2>3. Reached(lane) = pos /\ Half(lane) = group
    BY <1>3, <2>2 DEF Reached, Half
  <2> QED BY <1>7, <2>1, <2>3 DEF Progress
<1>10. PICK x : x = [cand |-> <<Cell(pos), group>>, good |-> ok]
  OBVIOUS
<1>11. x \in Tests /\ x.cand = Candidate(lane, Len(h)) /\ x.good = ok
  <2>1. << Cell(pos), group >> = Candidate(lane, Len(h))
        /\ << Cell(pos), group >> \in (Int \X Int) \X Int
    BY <1>1, <1>5, <1>6, <1>8, <1>9, NextCandidate
  <2> QED BY <1>10, <2>1 DEF Tests
<1>12. PICK g \in Seq(Tests) : g = <<x>>
  BY <1>11, OneTest
<1>13. /\ Len(g) = 1 /\ g[1] = x
       /\ Rank(g, 1) = (IF ok THEN 1 ELSE 0) /\ Rank(g, Len(g)) \in 0..1
  BY <1>11, <1>12, OneTest
<1>14. PICK do : do = IF ok THEN [co EXCEPT ![n] = x.cand] ELSE co
  OBVIOUS
<1>15. /\ do = [k \in 0..N+V-1 |-> do[k]]
       /\ \A k \in Nat : k # n => do[k] = co[k]
       /\ ok => do[n] = x.cand
  <2>1. n \in 0..N+V-1
    BY <1>8, LaneSizes
  <2>2. CASE ok
    <3>1. do = [co EXCEPT ![n] = x.cand]
      BY <1>14, <2>2
    <3>2. do = [k \in 0..N+V-1 |-> IF k = n THEN x.cand ELSE co[k]]
      BY <1>8, <2>1, <3>1
    <3>3. \A k \in Nat : k # n => do[k] = co[k]
      BY <1>8, <2>1, <3>1
    <3> QED BY <2>1, <3>2, <3>3
  <2>3. CASE ~ok
    BY <1>8, <1>14, <2>3
  <2> QED BY <2>2, <2>3
<1>16. tested' = [tested EXCEPT ![lane] = @ \o g]
  <2>1. Append(h, x) = h \o g
    BY <1>11, <1>12
  <2> QED BY <1>2, <1>7, <1>10, <2>1
<1>17. coeffs' = [coeffs EXCEPT ![lane] = do]
  <2>1. coeffs = [l \in Lanes |-> coeffs[l]]
    BY <1>1 DEF LTypes
  <2>2. CASE ok
    BY <1>2, <1>7, <1>10, <1>14, <2>1, <2>2
  <2>3. CASE ~ok
    BY <1>2, <1>5, <1>7, <1>14, <2>1, <2>3
  <2> QED BY <2>2, <2>3
<1>18. ctr' = [ctr EXCEPT ![lane] = @ + Rank(g, Len(g))]
  <2>1. ctr \in [Lanes -> 0..N]
    BY <1>1 DEF LTypes
  <2>2. CASE ok
    BY <1>2, <1>13, <2>2
  <2>3. CASE ~ok
    <3>1. ctr' = ctr /\ ctr[lane] + Rank(g, Len(g)) = ctr[lane]
      BY <1>2, <1>7, <1>13, <2>3
    <3> QED BY <1>5, <2>1, <3>1
  <2> QED BY <2>2, <2>3
<1>19. ctr[lane] + Rank(g, Len(g)) <= N
  BY <1>7, <1>8, <1>13, LaneSizes
<1>20. \A k \in 0..N+V-1 : k < ctr[lane] \/ k >= N => do[k] = coeffs[lane][k]
  <2>1. \A k \in 0..N+V-1 : k \in Nat
    OBVIOUS
  <2>2. \A k \in Nat : k < n \/ k >= N => k # n
    BY <1>8, LaneSizes
  <2> QED BY <1>7, <1>15, <2>1, <2>2
<1>21. \A i \in 1..Len(g) :
          Stored(lane, Len(tested[lane]) + i - 1, g[i], ctr[lane] + Rank(g, i), do)
  <2>1. Len(h) + 1 - 1 = Len(h) 
    BY <1>8
  <2>2. Stored(lane, Len(h), x, n + Rank(g, 1), do)
    <3>1. ok => do[n] = x.cand
      BY <1>15
    <3>2. x.cand = Candidate(lane, Len(h))
      BY <1>11
    <3>3. PICK r : r = n + Rank(g, 1)
      OBVIOUS
    <3>4. x.good => do[r - 1] = x.cand
      <4>1. ok => r - 1 = n
        BY <1>8, <1>13, <3>3
      <4> QED BY <1>11, <3>1, <4>1
    <3>5. Stored(lane, Len(h), x, r, do)
      BY <3>2, <3>4, IsStored
    <3> QED BY <3>3, <3>5
  <2>3. Stored(lane, Len(h) + 1 - 1, g[1], n + Rank(g, 1), do)
    BY <1>13, <2>1, <2>2
  <2>4. \A i \in 1..Len(g) : i = 1
    BY <1>13
  <2> QED BY <1>7, <2>3, <2>4
<1>22. /\ Sampled' /\ Fits'
       /\ ctr' \in [Lanes -> 0..N] /\ tested' \in [Lanes -> Seq(Tests)]
       /\ coeffs' = [l \in Lanes |-> coeffs'[l]]
       /\ \A l \in Lanes : coeffs'[l] = [k \in 0..N+V-1 |-> coeffs'[l][k]]
       /\ \A l \in Lanes : l # lane => ctr'[l] = ctr[l] /\ tested'[l] = tested[l]
       /\ Len(tested'[lane]) = Len(tested[lane]) + Len(g)
  BY <1>1, <1>3, <1>15, <1>16, <1>17, <1>18, <1>19, <1>20, <1>21, LaneExtends
<1>23. /\ pos' \in Nat /\ group' \in 0..1 /\ pos' + group' <= buflen
       /\ (Uniform => pos' % 3 = 0 /\ group' = 0)
  BY <1>3, <1>5, <1>6
<1>24. LTypes'
  BY <1>1, <1>3, <1>4, <1>22, <1>23 DEF LTypes
<1>25. Squeezing'
  BY <1>3 DEF Squeezing
<1>26. Scanning'
  <2>1. Half(lane)' = group'
    BY <1>3 DEF Half
  <2>2. \A l \in Lanes : l > lane => l # lane
    BY <1>1, <1>5, EnvSizes
  <2>3. blocks = env.first =>
          buflen = env.first*env.rate /\ \A l \in Lanes : l > lane => ctr'[l] = 0
    BY <1>5, <1>22, <2>2
  <2>4. group' <= 1
    BY <1>23
  <2> QED BY <1>3, <1>4, <1>5, <1>23, <2>1, <2>3, <2>4 DEF Scanning
<1>27. Progresses'
  <2>1. ASSUME NEW l \in Lanes, l # lane, ctr'[l] < N PROVE Progress(l)'
    BY <1>1, <1>3, <1>22, <2>1, OtherLane
  <2>2. ASSUME NEW l \in Lanes, l = lane PROVE Progress(l)'
    <3>1. ~(l < lane)
      BY <1>1, <1>5, <2>2, EnvSizes
    <3>2. Reached(l)' = pos' /\ Half(l)' = group'
      BY <1>3, <2>2, <3>1 DEF Reached, Half
    <3>3. Len(tested'[l]) = Len(h) + 1
      BY <1>7, <1>13, <1>22, <2>2
    <3>4. CASE Uniform
      <4>1. pos' = pos + 3 /\ 3*Len(h) = Start + pos
        BY <1>3, <1>9, <3>4
      <4>2. Start' + Reached(l)' = Start + (pos + 3)
        BY <1>4, <3>2, <4>1
      <4>3. 3*Len(tested'[l]) = Start' + Reached(l)'
        BY <1>5, <1>8, <3>3, <4>1, <4>2
      <4> QED BY <1>4, <3>4, <4>3 DEF Progress
    <3>5. CASE ~Uniform
      <4>1. Len(tested'[l]) = 2*(Start' + Reached(l)') + Half(l)'
        BY <1>3, <1>4, <1>5, <1>8, <1>9, <3>2, <3>3, <3>5
      <4> QED BY <1>4, <3>5, <4>1 DEF Progress
    <3> QED BY <3>4, <3>5
  <2> QED BY <1>4, <2>1, <2>2 DEF Progresses
<1> QED BY <1>4, <1>22, <1>24, <1>25, <1>26, <1>27 DEF LInv

LEMMA HighLeftStep == LInv /\ HighLeft => LInv'
<1> SUFFICES ASSUME LInv, HighLeft PROVE LInv'
  OBVIOUS
<1>1. LTypes /\ Buffers /\ Fits /\ Squeezing /\ Scanning /\ Progresses /\ Sampled
  BY DEF LInv
<1>2. /\ pc = "scalar" /\ group = 1 /\ ctr[lane] = N /\ pos' = pos + 1 /\ group' = 0
      /\ env' = env /\ buf' = buf /\ buflen' = buflen /\ blocks' = blocks /\ lane' = lane
      /\ ctr' = ctr /\ coeffs' = coeffs /\ tested' = tested /\ pc' = pc
  BY DEF HighLeft
<1>3. Buffers' /\ Start' = Start /\ Used' = Used /\ (Uniform' <=> Uniform) /\ Lanes' = Lanes
  BY <1>1, <1>2, SameBuffers
<1>4. /\ pos \in Nat /\ pos' \in Nat /\ pos' + Half(lane)' <= buflen /\ ~Uniform
      /\ blocks >= env.first
      /\ blocks = env.first =>
            buflen = env.first*env.rate /\ \A l \in Lanes : l > lane => ctr[l] = 0
  <2>1. Half(lane) = 1 /\ Half(lane)' = 0
    BY <1>2 DEF Half
  <2> QED BY <1>1, <1>2, <2>1 DEF LTypes, Scanning
<1>5. LTypes'
  BY <1>1, <1>2, <1>3, <1>4 DEF LTypes
<1>6. Fits' /\ Squeezing' /\ Sampled'
  BY <1>1, <1>2, <1>3, SameSampled DEF Fits, Squeezing
<1>7. Scanning'
  BY <1>1, <1>2, <1>3, <1>4 DEF Scanning
<1>8. ASSUME NEW l \in Lanes, ctr'[l] < N PROVE Progress(l)'
  <2>1. l # lane
    BY <1>2, <1>8, LaneSizes
  <2> QED BY <1>1, <1>2, <1>8, <2>1, OtherLane
<1>9. Progresses'
  BY <1>3, <1>8 DEF Progresses
<1> QED BY <1>3, <1>5, <1>6, <1>7, <1>9 DEF LInv

LEMMA LaneReturnStep == LInv /\ LaneReturn => LInv'
<1> SUFFICES ASSUME LInv, LaneReturn PROVE LInv'
  OBVIOUS
<1>1. LTypes /\ Buffers /\ Fits /\ Squeezing /\ Scanning /\ Progresses /\ Sampled
  BY DEF LInv
<1>2. /\ pc = "scalar" /\ group = 0 /\ ~(ctr[lane] < N /\ InBuffer) /\ pos' = 0
      /\ group' = group
      /\ env' = env /\ buf' = buf /\ buflen' = buflen /\ blocks' = blocks
      /\ ctr' = ctr /\ coeffs' = coeffs /\ tested' = tested
      /\ IF lane + 1 < env.lanes
         THEN /\ lane' = lane + 1
              /\ pc' = IF env.vector /\ blocks = env.first THEN "vector" ELSE pc
         ELSE lane' = 0 /\ pc' = IF Starved THEN "squeeze" ELSE "done"
  BY DEF LaneReturn
<1>3. Buffers' /\ Start' = Start /\ Used' = Used /\ (Uniform' <=> Uniform) /\ Lanes' = Lanes
  BY <1>1, <1>2, SameBuffers
<1>4. /\ pos \in Nat /\ buflen \in Nat /\ blocks \in Nat /\ pos <= buflen
      /\ (Uniform => pos % 3 = 0) /\ blocks >= env.first
      /\ blocks = env.first =>
            buflen = env.first*env.rate /\ \A l \in Lanes : l > lane => ctr[l] = 0
  <2>1. Half(lane) = 0
    BY <1>2 DEF Half
  <2> QED BY <1>1, <1>2, <2>1 DEF LTypes, Scanning
<1>5. Lanes = 0..env.lanes-1 /\ env.lanes \in Nat \ {0} /\ lane \in Nat /\ lane \in Lanes
  BY <1>1, EnvSizes, LaneNumbers
<1>6. /\ Carried \in 0..2 /\ (env.vector => Carried = 0) /\ (~Uniform => Carried = 0)
      /\ (Uniform /\ ~env.vector => Carried = buflen % 3)
      /\ env.first \in Nat \ {0} /\ env.vector \in BOOLEAN
      /\ (env.vector /\ Uniform => buflen % 3 = 0)
  BY <1>1, EnvSizes DEF Buffers
<1>7. ctr[lane] < N => pos = Used
  <2> SUFFICES ASSUME ctr[lane] < N PROVE pos = buflen - Carried
    BY DEF Used
  <2>1. ~InBuffer
    BY <1>2
  <2>2. CASE Uniform
    <3>1. pos + 3 > buflen /\ pos % 3 = 0
      BY <1>4, <2>1, <2>2 DEF InBuffer
    <3>2. pos = buflen - (buflen % 3)
      BY <1>4, <3>1
    <3>3. Carried = buflen % 3
      BY <1>6, <2>2
    <3> QED BY <3>2, <3>3
  <2>3. CASE ~Uniform
    BY <1>4, <1>6, <2>1, <2>3 DEF InBuffer
  <2> QED BY <2>2, <2>3
<1>8. \A l : Half(l) = 0 /\ Half(l)' = 0
  BY <1>2 DEF Half
<1>9. LTypes'
  <2>1. lane' \in Lanes /\ pc' \in {"squeeze", "vector", "scalar", "done"}
    BY <1>2, <1>5
  <2> QED BY <1>1, <1>2, <1>3, <2>1 DEF LTypes
<1>10. Fits' /\ Sampled'
  BY <1>1, <1>2, <1>3, SameSampled DEF Fits
<1>11. Squeezing'
  <2>1. pc' = "squeeze" => lane' = 0
    BY <1>2
  <2>2. blocks # 0
    BY <1>4, <1>6
  <2> QED BY <1>2, <1>4, <2>1, <2>2 DEF Squeezing
<1>12. Scanning'
  <2> SUFFICES ASSUME pc' \in {"vector", "scalar"} PROVE Scanning'
    BY DEF Scanning
  <2>1. /\ lane + 1 < env.lanes /\ lane' = lane + 1
        /\ pc' = "vector" => env.vector /\ blocks = env.first
    BY <1>2
  <2>2. blocks = env.first =>
          buflen = env.first*env.rate /\ \A l \in Lanes : l > lane' => ctr[l] = 0
    BY <1>4, <1>5, <2>1
  <2>3. pos' + Half(lane)' <= buflen' /\ (Uniform => pos' % 3 = 0 /\ group' = 0)
    BY <1>2, <1>4, <1>8
  <2>4. pc' = "vector" => ctr[lane'] <= N - V
    <3>1. lane' \in Lanes /\ lane' > lane
      BY <1>5, <2>1
    <3>2. pc' = "vector" => ctr[lane'] = 0
      BY <1>4, <2>1, <3>1
    <3> QED BY <3>2, LaneSizes
  <2> QED BY <1>2, <1>3, <1>4, <2>1, <2>2, <2>3, <2>4 DEF Scanning
<1>13. Progresses'
  <2> SUFFICES ASSUME pc' # "done", NEW l \in Lanes, ctr[l] < N PROVE Progress(l)'
    BY <1>2, <1>3 DEF Progresses
  <2>1. Progress(l)
    BY <1>1, <1>2 DEF Progresses
  <2>2. Reached(l)' = Reached(l)
    <3>1. l \in Nat
      BY <1>5
    <3>2. CASE l < lane
      BY <1>2, <1>3, <1>5, <3>1, <3>2 DEF Reached
    <3>3. CASE l = lane
      <4>1. Reached(l) = pos /\ pos = Used
        BY <1>2, <1>5, <1>7, <3>3 DEF Reached
      <4>2. pc' = "squeeze" \/ l < lane'
        BY <1>2, <1>5, <3>3
      <4> QED BY <1>3, <4>1, <4>2 DEF Reached
    <3>4. CASE l > lane
      <4>1. Reached(l) = 0
        BY <1>2, <1>5, <3>1, <3>4 DEF Reached
      <4>2. lane' = lane + 1 /\ pc' # "squeeze" /\ ~(l < lane')
        BY <1>2, <1>5, <3>1, <3>4
      <4> QED BY <1>2, <4>1, <4>2 DEF Reached
    <3> QED BY <1>5, <3>1, <3>2, <3>3, <3>4
  <2> QED BY <1>2, <1>3, <1>8, <2>1, <2>2 DEF Progress
<1> QED BY <1>3, <1>9, <1>10, <1>11, <1>12, <1>13 DEF LInv

\* Where the group that comes next stands in the buffer: its bytes are there.
LEMMA GroupFits ==
    ASSUME LInv, pc = "vector", group # 0 \/ LoopHolds
    PROVE  /\ ctr[lane] <= N - V
           /\ IF Uniform THEN pos + 3*V <= buflen ELSE pos + V \div 2 <= buflen
           /\ group = 0 /\ ~Uniform => pos + 2*V <= buflen
<1>1. /\ ctr[lane] \in Nat /\ pos \in Nat /\ buflen \in Nat /\ group \in 0..3
      /\ (Uniform => group = 0)
      /\ Uniform \/ group # 0 => ctr[lane] <= N - V
      /\ group # 0 => pos + 2*V <= buflen + group*(V \div 2)
  BY LaneNumbers DEF LInv, LTypes, Scanning
<1>2. PICK w \in Nat : w = V \div 2 /\ V = 2*w
  BY LaneSizes
<1>3. CASE Uniform
  <2>1. pos <= buflen - 3*V
    BY <1>1, <1>3 DEF LoopHolds
  <2> QED BY <1>1, <1>3, <2>1, LaneSizes
<1>4. CASE ~Uniform /\ group = 0
  <2>1. ~(ctr[lane] > N - V) /\ pos <= buflen - 2*V
    BY <1>4 DEF LoopHolds, Spaced
  <2>2. ctr[lane] <= N - V /\ pos + 2*V <= buflen
    BY <1>1, <2>1, LaneSizes
  <2>3. pos + w <= buflen
    BY <1>1, <1>2, <2>2
  <2> QED BY <1>2, <1>4, <2>2, <2>3
<1>5. CASE ~Uniform /\ group # 0
  <2>1. pos + 2*(2*w) <= buflen + group*w
    BY <1>1, <1>2, <1>5
  <2>2. group = 1 \/ group = 2 \/ group = 3
    BY <1>1, <1>5
  <2>3. pos + w <= buflen
    <3>1. CASE group = 1
      BY <1>1, <1>2, <2>1, <3>1
    <3>2. CASE group = 2
      BY <1>1, <1>2, <2>1, <3>2
    <3>3. CASE group = 3
      BY <1>1, <1>2, <2>1, <3>3
    <3> QED BY <2>2, <3>1, <3>2, <3>3
  <2> QED BY <1>1, <1>2, <1>5, <2>3
<1> QED BY <1>3, <1>4, <1>5

LEMMA GroupCands ==
    ASSUME LInv, pc = "vector", group # 0 \/ LoopHolds, NEW k \in 0..V-1
    PROVE  /\ GroupCand(k) = Candidate(lane, Len(tested[lane]) + k)
           /\ GroupCand(k) \in (Int \X Int) \X Int
<1>1. LTypes /\ Buffers /\ Progresses
  BY DEF LInv
<1>2. /\ pos \in Nat /\ buflen \in Nat /\ k \in Nat /\ k < V /\ lane \in Lanes /\ Start \in Nat
      /\ ctr[lane] < N /\ lane \in Nat
  <2>1. ctr[lane] \in Nat /\ lane \in Lanes /\ lane \in Nat
    BY <1>1, LaneNumbers DEF LTypes
  <2>2. ctr[lane] <= N - V
    BY GroupFits
  <2>3. ctr[lane] < N /\ k \in Nat /\ k < V
    BY <2>1, <2>2, LaneSizes
  <2>4. pos \in Nat /\ buflen \in Nat /\ Start \in Nat
    BY <1>1 DEF LTypes, Buffers
  <2> QED BY <2>1, <2>3, <2>4
<1>3. PICK a \in Nat : a = Len(tested[lane])
  BY <1>1, <1>2, LenProperties DEF LTypes
<1>4. IF Uniform THEN 3*a = Start + pos ELSE a = 2*(Start + pos)
  <2>1. Progress(lane)
    BY <1>1, <1>2 DEF Progresses
  <2>2. Reached(lane) = pos /\ Half(lane) = 0
    <3>1. ~(lane < lane)
      BY <1>2
    <3> QED BY <3>1 DEF Reached, Half
  <2> QED BY <1>2, <1>3, <2>1, <2>2 DEF Progress
<1>5. CASE Uniform
  <2>1. PICK p \in Nat : p = pos + 3*k
    BY <1>2
  <2>2. 3*(a + k) = Start + p /\ p < buflen /\ a + k \in Nat
    <3>1. pos + 3*V <= buflen
      BY <1>5, GroupFits
    <3> QED BY <1>2, <1>3, <1>4, <1>5, <2>1, <3>1, LaneSizes
  <2>3. PICK e \in 0..1 : e = 0
    OBVIOUS
  <2>4. << Cell(p), e >> = Candidate(lane, a + k) /\ << Cell(p), e >> \in (Int \X Int) \X Int
    BY <1>1, <1>5, <2>2, <2>3, NextCandidate
  <2>5. GroupCand(k) = << Cell(p), e >>
    BY <1>5, <2>1, <2>3 DEF GroupCand
  <2> QED BY <1>3, <2>4, <2>5
<1>6. CASE ~Uniform
  <2>1. PICK p \in Nat, e \in 0..1 : p = pos + k \div 2 /\ e = k % 2
    <3>1. pos + k \div 2 \in Nat /\ k % 2 \in 0..1
      BY <1>2
    <3> QED BY <3>1
  <2>2. a + k = 2*(Start + p) + e /\ p < buflen /\ a + k \in Nat
    <3>1. PICK w \in Nat : w = V \div 2 /\ V = 2*w
      BY LaneSizes
    <3>2. pos + w <= buflen
      BY <1>6, <3>1, GroupFits
    <3>3. k \div 2 < w
      BY <1>2, <3>1
    <3>4. p < buflen
      BY <1>2, <2>1, <3>2, <3>3
    <3>5. k = 2*(k \div 2) + (k % 2)
      BY <1>2
    <3> QED BY <1>2, <1>3, <1>4, <1>6, <2>1, <3>4, <3>5
  <2>3. << Cell(p), e >> = Candidate(lane, a + k) /\ << Cell(p), e >> \in (Int \X Int) \X Int
    BY <1>1, <1>6, <2>2, NextCandidate
  <2>4. GroupCand(k) = << Cell(p), e >>
    BY <1>6, <2>1 DEF GroupCand
  <2> QED BY <1>3, <2>3, <2>4
<1> QED BY <1>5, <1>6

LEMMA VectorGroupStep == LInv /\ VectorGroup => LInv'
<1> SUFFICES ASSUME LInv, VectorGroup PROVE LInv'
  OBVIOUS
<1>1. LTypes /\ Buffers /\ Fits /\ Squeezing /\ Scanning /\ Progresses /\ Sampled
  BY DEF LInv
<1>2. PICK good \in [0..V-1 -> BOOLEAN] :
        /\ coeffs' = [coeffs EXCEPT ![lane] = [k \in DOMAIN @ |->
              IF k - ctr[lane] \notin 0..V-1 THEN @[k]
              ELSE IF AtPlace(good, k - ctr[lane]) = {} THEN Junk
              ELSE GroupCand(CHOOSE a \in AtPlace(good, k - ctr[lane]) : TRUE)]]
        /\ ctr' = [ctr EXCEPT ![lane] = @ + Before(good, V)]
        /\ tested' = [tested EXCEPT ![lane] = @ \o
              [k \in 1..V |-> [cand |-> GroupCand(k-1), good |-> good[k-1]]]]
  BY DEF VectorGroup
<1>3. /\ pc = "vector" /\ (group # 0 \/ LoopHolds)
      /\ pos' = IF Uniform THEN pos + 3*V ELSE pos + V \div 2
      /\ IF Spaced(ctr'[lane]) /\ (Uniform \/ group < 3)
         THEN pc' = "scalar" /\ group' = 0
         ELSE pc' = pc /\ group' = IF Uniform THEN 0 ELSE (group + 1) % 4
      /\ env' = env /\ buf' = buf /\ buflen' = buflen /\ blocks' = blocks /\ lane' = lane
  BY DEF VectorGroup
<1>4. Buffers' /\ Start' = Start /\ Used' = Used /\ (Uniform' <=> Uniform) /\ Lanes' = Lanes
  BY <1>1, <1>3, SameBuffers
<1>5. /\ pos \in Nat /\ buflen \in Nat /\ lane \in Lanes /\ lane \in Nat /\ group \in 0..3
      /\ Start \in Nat
      /\ (Uniform => pos % 3 = 0 /\ group = 0) /\ env.vector /\ blocks = env.first
      /\ blocks >= env.first
      /\ blocks = env.first =>
            buflen = env.first*env.rate /\ \A l \in Lanes : l > lane => ctr[l] = 0
      /\ group # 0 => pos + 2*V <= buflen + group*(V \div 2)
  BY <1>1, <1>3, LaneNumbers DEF LTypes, Buffers, Scanning
<1>0. PICK co : co = coeffs[lane]
  OBVIOUS
<1>6. PICK n \in 0..N, h \in Seq(Tests) :
          n = ctr[lane] /\ h = tested[lane] /\ co = coeffs[lane]
  BY <1>0, <1>1, <1>5 DEF LTypes
<1>7. n + V <= N /\ co = [k \in 0..N+V-1 |-> co[k]] /\ Len(h) \in Nat
  <2>1. n <= N - V
    BY <1>3, <1>6, GroupFits
  <2>2. n + V <= N
    BY <2>1, LaneSizes
  <2>3. co = [k \in 0..N+V-1 |-> co[k]]
    BY <1>1, <1>5, <1>6 DEF LTypes
  <2> QED BY <2>2, <2>3, LenProperties
<1>8. \A k \in 0..V-1 : /\ GroupCand(k) = Candidate(lane, Len(h) + k)
                        /\ GroupCand(k) \in (Int \X Int) \X Int
  BY <1>3, <1>6, GroupCands
<1>9. PICK g : g = [k \in 1..V |-> [cand |-> GroupCand(k-1), good |-> good[k-1]]]
  OBVIOUS
<1>10. g \in Seq(Tests) /\ Len(g) = V
  <2>1. ASSUME NEW k \in 1..V PROVE [cand |-> GroupCand(k-1), good |-> good[k-1]] \in Tests
    <3>1. k - 1 \in 0..V-1
      BY LaneSizes
    <3>2. GroupCand(k-1) \in (Int \X Int) \X Int /\ good[k-1] \in BOOLEAN
      BY <1>8, <3>1
    <3> QED BY <3>2 DEF Tests
  <2> QED BY <1>9, <2>1, LaneSizes
<1>11. \A k \in 1..V : g[k].cand = GroupCand(k-1) /\ g[k].good = good[k-1]
  BY <1>9
<1>12. \A m \in 0..V : Before(good, m) = Rank(g, m)
  BY <1>11, BeforeIsRank
<1>13. Rank(g, Len(g)) = Before(good, V) /\ Rank(g, Len(g)) \in 0..V
  BY <1>10, <1>12, RankStep, LaneSizes
<1>14. PICK do : do = [k \in 0..N+V-1 |->
            IF k - n \notin 0..V-1 THEN co[k]
            ELSE IF AtPlace(good, k - n) = {} THEN Junk
            ELSE GroupCand(CHOOSE a \in AtPlace(good, k - n) : TRUE)]
  OBVIOUS
<1>15. coeffs' = [coeffs EXCEPT ![lane] = do]
  <2>1. DOMAIN co = 0..N+V-1
    BY <1>7
  <2> QED BY <1>2, <1>6, <1>14, <2>1
<1>16. tested' = [tested EXCEPT ![lane] = @ \o g]
  BY <1>2, <1>9
<1>17. ctr' = [ctr EXCEPT ![lane] = @ + Rank(g, Len(g))]
  BY <1>2, <1>13
<1>18. ctr[lane] + Rank(g, Len(g)) <= N
  <2>1. PICK y \in 0..V : y = Rank(g, Len(g))
    BY <1>13
  <2>2. n + y <= N
    <3>1. n \in Nat /\ y \in Nat /\ y <= V /\ V \in Nat /\ N \in Nat /\ n + V <= N
      BY <1>7, LaneSizes
    <3> QED BY <3>1
  <2> QED BY <1>6, <2>1, <2>2
<1>19. do = [k \in 0..N+V-1 |-> do[k]]
  BY <1>14
<1>20. \A k \in 0..N+V-1 : k < ctr[lane] \/ k >= N => do[k] = coeffs[lane][k]
  <2>1. ASSUME NEW k \in 0..N+V-1, k < n \/ k >= N PROVE do[k] = co[k]
    <3>1. n + V <= N /\ n \in Nat /\ k \in Nat /\ V \in Nat
      BY <1>7, LaneSizes
    <3>2. k - n \notin 0..V-1
      BY <2>1, <3>1, LaneSizes
    <3> QED BY <1>14, <3>2
  <2> QED BY <1>6, <2>1
<1>21. ASSUME NEW i \in 1..Len(g)
       PROVE  Stored(lane, Len(tested[lane]) + i - 1, g[i], ctr[lane] + Rank(g, i), do)
  <2>1. PICK k \in 0..V-1 : k = i - 1 /\ k + 1 = i /\ i \in 1..V /\ k \in Nat
    <3>1. i - 1 \in 0..V-1 /\ (i - 1) + 1 = i /\ i \in 1..V /\ i - 1 \in Nat
      BY <1>10, LaneSizes
    <3> QED BY <3>1
  <2>2. g[i].cand = GroupCand(k) /\ g[i].good = good[k]
    BY <1>11, <2>1
  <2>3. g[i].cand = Candidate(lane, Len(tested[lane]) + i - 1)
    <3>1. Len(h) + i - 1 = Len(h) + k
      BY <1>7, <2>1
    <3> QED BY <1>6, <1>8, <2>2, <3>1
  <2>4. PICK r : r = ctr[lane] + Rank(g, i)
    OBVIOUS
  <2>5. ASSUME g[i].good PROVE do[r - 1] = g[i].cand
    <3>1. PICK m \in 0..V-1 : m = Before(good, k)
      <4>1. Before(good, k) \in 0..k
        BY <2>1, BeforeStep
      <4> QED BY <4>1, LaneSizes
    <3>2. Before(good, k + 1) = m + 1
      BY <2>1, <2>2, <2>5, <3>1, BeforeStep
    <3>3. Rank(g, i) = m + 1
      BY <1>12, <2>1, <3>2
    <3>4. r - 1 = n + m
      <4>1. n \in Nat /\ m \in Nat /\ r = n + (m + 1)
        BY <1>6, <2>4, <3>3, LaneSizes
      <4> QED BY <4>1
    <3>5. AtPlace(good, m) = {k}
      BY <2>2, <2>5, <3>1, OnePlace
    <3>6. n + m \in 0..N+V-1 /\ (n + m) - n = m
      <4>1. n \in Nat /\ m \in Nat /\ m < V /\ n <= N /\ V \in Nat /\ N \in Nat
        BY LaneSizes
      <4> QED BY <4>1
    <3>7. do[n + m] = GroupCand(CHOOSE a \in {k} : TRUE)
      <4>1. PICK p \in 0..N+V-1 : p = n + m /\ p - n = m
        BY <3>6
      <4>2. do[p] = IF p - n \notin 0..V-1 THEN co[p]
                    ELSE IF AtPlace(good, p - n) = {} THEN Junk
                    ELSE GroupCand(CHOOSE a \in AtPlace(good, p - n) : TRUE)
        BY <1>14
      <4> QED BY <3>5, <4>1, <4>2
    <3>8. (CHOOSE a \in {k} : TRUE) = k
      OBVIOUS
    <3> QED BY <2>2, <3>4, <3>7, <3>8
  <2>6. Stored(lane, Len(tested[lane]) + i - 1, g[i], r, do)
    BY <2>3, <2>5, IsStored
  <2> QED BY <2>4, <2>6
<1>22. /\ Sampled' /\ Fits'
       /\ ctr' \in [Lanes -> 0..N] /\ tested' \in [Lanes -> Seq(Tests)]
       /\ coeffs' = [l \in Lanes |-> coeffs'[l]]
       /\ \A l \in Lanes : coeffs'[l] = [k \in 0..N+V-1 |-> coeffs'[l][k]]
       /\ \A l \in Lanes : l # lane => ctr'[l] = ctr[l] /\ tested'[l] = tested[l]
       /\ Len(tested'[lane]) = Len(tested[lane]) + Len(g)
  BY <1>1, <1>3, <1>10, <1>15, <1>16, <1>17, <1>18, <1>19, <1>20, <1>21, LaneExtends
<1>23. PICK w \in Nat : w = V \div 2 /\ V = 2*w
  BY LaneSizes
<1>24. /\ pos' \in Nat /\ pos' <= buflen /\ (Uniform => pos' % 3 = 0 /\ group' = 0)
       /\ Uniform => pos' = pos + 3*V
       /\ ~Uniform => pos' = pos + w
  <2>1. CASE Uniform
    BY <1>1, <1>3, <1>5, <2>1, GroupFits, LaneSizes
  <2>2. CASE ~Uniform
    BY <1>3, <1>5, <1>23, <2>2, GroupFits
  <2> QED BY <2>1, <2>2
<1>25. pc' \in {"vector", "scalar"} /\ group' \in 0..3 /\ (pc' = "scalar" => group' = 0)
  BY <1>3, <1>5
<1>26. \A l : Half(l)' = 0 /\ Half(l) = 0
  BY <1>3, <1>25 DEF Half
<1>27. LTypes'
  BY <1>1, <1>3, <1>4, <1>22, <1>24, <1>25 DEF LTypes
<1>28. Squeezing'
  BY <1>25 DEF Squeezing
<1>29. ASSUME pc' = "vector"
       PROVE  /\ Uniform \/ group' # 0 => ctr'[lane] <= N - V
              /\ group' # 0 => pos' + 2*V <= buflen + group'*(V \div 2)
  <2>1. /\ ~(Spaced(ctr'[lane]) /\ (Uniform \/ group < 3))
        /\ group' = IF Uniform THEN 0 ELSE (group + 1) % 4
    BY <1>3, <1>29
  <2>2. ctr'[lane] \in Nat
    BY <1>5, <1>22
  <2>3. Uniform \/ group < 3 => ctr'[lane] <= N - V
    BY <2>1, <2>2, LaneSizes DEF Spaced
  <2>4. group' # 0 => ~Uniform /\ group < 3 /\ group' = group + 1
    BY <1>5, <2>1
  <2>5. ASSUME group' # 0 PROVE pos' + 2*V <= buflen + group'*(V \div 2)
    <3>1. pos' = pos + w /\ group' = group + 1 /\ ~Uniform /\ group < 3
      BY <1>24, <2>4, <2>5
    <3>2. pos + 2*V <= buflen + group*w
      <4>1. CASE group = 0
        BY <1>3, <1>5, <1>23, <3>1, <4>1, GroupFits
      <4>2. CASE group # 0
        BY <1>5, <1>23, <4>2
      <4> QED BY <4>1, <4>2
    <3>3. (group + 1)*w = group*w + w /\ group*w \in Nat
      BY <1>5, Factored
    <3>4. pos + w + 2*V <= buflen + (group + 1)*w
      BY <1>5, <3>2, <3>3, LaneSizes
    <3> QED BY <1>23, <3>1, <3>4
  <2> QED BY <2>3, <2>4, <2>5
<1>30. Scanning'
  <2>1. \A l \in Lanes : l > lane => l # lane
    BY <1>1, <1>5, EnvSizes
  <2>2. blocks = env.first =>
          buflen = env.first*env.rate /\ \A l \in Lanes : l > lane => ctr'[l] = 0
    BY <1>5, <1>22, <2>1
  <2>3. pos' + Half(lane)' <= buflen
    <3>1. Half(lane)' = 0
      BY <1>3, <1>25 DEF Half
    <3> QED BY <1>24, <3>1
  <2>4. pc' = "scalar" => group' <= 1
    BY <1>25
  <2> QED BY <1>3, <1>4, <1>5, <1>24, <1>29, <2>2, <2>3, <2>4 DEF Scanning
<1>31. Progresses'
  <2>1. ASSUME NEW l \in Lanes, l # lane, ctr'[l] < N PROVE Progress(l)'
    BY <1>1, <1>3, <1>22, <1>25, <2>1, OtherLane
  <2>2. ASSUME NEW l \in Lanes, l = lane PROVE Progress(l)'
    <3>1. ~(l < lane)
      BY <1>5, <2>2
    <3>2. Reached(l)' = pos' /\ Reached(l) = pos
      BY <1>3, <1>25, <2>2, <3>1 DEF Reached
    <3>3. Len(tested'[l]) = Len(h) + V
      BY <1>6, <1>10, <1>22, <2>2
    <3>4. Progress(l)
      <4>1. ctr[l] < N
        <5>1. ctr[l] = n /\ n + V <= N
          BY <1>6, <1>7, <2>2
        <5>2. N \in Nat /\ V \in Nat \ {0} /\ n \in Nat
          BY LaneSizes
        <5> QED BY <5>1, <5>2
      <4> QED BY <1>1, <1>3, <4>1 DEF Progresses
    <3>5. CASE Uniform
      <4>1. 3*Len(h) = Start + pos
        BY <1>6, <2>2, <3>2, <3>4, <3>5 DEF Progress
      <4>2. pos' = pos + 3*V /\ Start' + Reached(l)' = Start + pos'
        BY <1>4, <1>24, <3>2, <3>5
      <4>3. Start + pos' = 3*Len(h) + 3*V
        BY <1>5, <4>1, <4>2, LaneSizes
      <4>4. 3*Len(tested'[l]) = Start' + Reached(l)'
        BY <1>7, <3>3, <4>2, <4>3, LaneSizes
      <4> QED BY <1>4, <3>5, <4>4 DEF Progress
    <3>6. CASE ~Uniform
      <4>1. Len(h) = 2*(Start + pos)
        BY <1>5, <1>6, <1>26, <2>2, <3>2, <3>4, <3>6 DEF Progress
      <4>2. Len(tested'[l]) = 2*(Start' + Reached(l)')
        BY <1>4, <1>5, <1>7, <1>23, <1>24, <3>2, <3>3, <3>6, <4>1
      <4>3. Half(l)' = 0 /\ Start' + Reached(l)' \in Nat
        <5>1. Half(l)' = 0
          BY <1>26
        <5>2. Start' + Reached(l)' = Start + pos'
          BY <1>4, <3>2
        <5> QED BY <1>5, <1>24, <5>1, <5>2
      <4> QED BY <1>4, <3>6, <4>2, <4>3 DEF Progress
    <3> QED BY <3>5, <3>6
  <2> QED BY <1>4, <2>1, <2>2 DEF Progresses
<1> QED BY <1>4, <1>22, <1>27, <1>28, <1>30, <1>31 DEF LInv

LEMMA LaneInvStays == LInv /\ [Next]_vars => LInv'
<1> SUFFICES ASSUME LInv, [Next]_vars PROVE LInv'
  OBVIOUS
<1>1. CASE UNCHANGED vars
  <2>1. /\ env' = env /\ buf' = buf /\ buflen' = buflen /\ blocks' = blocks /\ lane' = lane
        /\ group' = group /\ pos' = pos /\ ctr' = ctr /\ coeffs' = coeffs /\ tested' = tested
        /\ pc' = pc
    BY <1>1 DEF vars
  <2>2. Buffers' /\ Start' = Start /\ Used' = Used /\ (Uniform' <=> Uniform) /\ Lanes' = Lanes
    BY <2>1, SameBuffers DEF LInv
  <2>3. \A l : Half(l)' = Half(l) /\ Reached(l)' = Reached(l)
    BY <2>1, <2>2 DEF Half, Reached
  <2>4. Half(lane)' = Half(lane)
    BY <2>1 DEF Half
  <2>5. Sampled'
    BY <2>1, SameSampled DEF LInv
  <2>6. LTypes'
    BY <2>1, <2>2 DEF LInv, LTypes
  <2>7. Fits' /\ Squeezing' /\ Scanning'
    BY <2>1, <2>2, <2>4 DEF LInv, Fits, Squeezing, Scanning
  <2>8. Progresses'
    BY <2>1, <2>2, <2>3 DEF LInv, Progresses, Progress
  <2> QED BY <2>2, <2>5, <2>6, <2>7, <2>8 DEF LInv
<1> QED BY <1>1, SqueezeStep, VectorGroupStep, VectorEndStep, ScalarTryStep, HighLeftStep,
           LaneReturnStep DEF Next

LEMMA LaneInvFits == LInv => InPolynomial
<1> SUFFICES ASSUME LInv PROVE InPolynomial
  OBVIOUS
<1>1. \A l \in Lanes : ctr[l] <= N /\ \A k \in N..N+V-1 : coeffs[l][k] = None
  <2>1. \A l \in Lanes : ctr[l] \in 0..N
    BY DEF LInv, LTypes
  <2> QED BY <2>1, LaneSizes DEF LInv, Fits
<1>2. ASSUME pc = "vector", group = 0, LoopHolds PROVE LoadEnd <= BufSize
  <2>1. /\ env.vector /\ buflen = env.first*env.rate /\ pos \in Nat /\ buflen \in Nat
    BY <1>2 DEF LInv, LTypes, Scanning
  <2>2. BufSize \in Nat /\ buflen <= BufSize /\ (Uniform => BufSize = buflen + V)
    BY <2>1, EnvSizes DEF LInv, Buffers
  <2>3. CASE Uniform
    <3>1. pos + 3*V <= buflen
      BY <1>2, <2>3, GroupFits
    <3>2. pos + 4*V <= BufSize
      BY <2>1, <2>2, <2>3, <3>1, LaneSizes
    <3> QED BY <2>3, <3>2 DEF LoadEnd
  <2>4. CASE ~Uniform
    <3>1. pos + 2*V <= buflen
      BY <1>2, <2>4, GroupFits
    <3>2. pos + 2*V <= BufSize
      BY <2>1, <2>2, <3>1, LaneSizes
    <3> QED BY <2>4, <3>2 DEF LoadEnd
  <2> QED BY <2>3, <2>4
<1> QED BY <1>1, <1>2 DEF InPolynomial

\* poly_uniform and poly_uniform_eta, scalar, vectorised or several lanes side
\* by side: each polynomial begins with the accepted candidates of its own
\* stream, each tested once and in order, for every number of lanes, rate,
\* number of first blocks and register width (poly.c, avx2/rejsample.c).
THEOREM PolynomialsAreSampled == Spec => []Sampled
<1>1. LInv => Sampled
  BY DEF LInv
<1> QED BY <1>1, LaneInvStarts, LaneInvStays, PTL DEF Spec

\* No vector store of rej_uniform_avx or rej_eta_avx reaches behind the
\* polynomial and no load behind the buffer, for every register width, rate
\* and number of first blocks.
THEOREM StoresStayInside == Spec => []InPolynomial
BY LaneInvStarts, LaneInvStays, LaneInvFits, PTL DEF Spec

(***************************************************************************)
(* MatrixExpansion: the row functions fill the matrix as one sequence of   *)
(* places, row after row: place l*i + j is entry <<i, j>>.  What is said   *)
(* of one row function: it fits, has the nonces of ref/, and the one after *)
(* it begins at place `then' of its own row, where this one ends.          *)
(***************************************************************************)
Nonce(l, p, x) == IF x < l THEN 256*p + x ELSE 256*(p + 1) + (x - l)

RowFits(k, l, p, at, rowb, v, then) ==
    LET m == Len(v) IN
    /\ at \in 0..l-1 /\ m \in {4, 8} /\ l <= at + m /\ at + m <= l + then
    /\ then \in 0..l-1
    /\ at + m > l => (rowb = "next" /\ p + 1 < k) \/ (rowb = "tmp" /\ p + 1 = k)
    /\ p + 1 < k => at + m = l + then
    /\ \A n \in 0..m-1 : p*l + at + n < k*l => v[n + 1] = Nonce(l, p, at + n)

TableFits(k, l, T) ==
    /\ Len(T) = k /\ T[1].at = 0
    /\ \A p \in 0..k-1 : \E then \in 0..l-1 :
          /\ RowFits(k, l, p, T[p + 1].at, T[p + 1].rowb, T[p + 1].nonces, then)
          /\ p + 1 < k => T[p + 2].at = then

LEMMA Table44Fits == TableFits(4, 4, Table44)
<1>1. RowFits(4, 4, 0, 0, "null", <<0, 1, 2, 3>>, 0)
  <2> DEFINE v == <<0, 1, 2, 3>>
  <2>1. /\ Len(v) = 4
        /\ v[1] = 0 /\ v[2] = 1 /\ v[3] = 2 /\ v[4] = 3
    OBVIOUS
  <2> HIDE DEF v
  <2>2. \A n \in 0..3 : n = 0 \/ n = 1 \/ n = 2 \/ n = 3
    OBVIOUS
  <2>3. \A n \in 0..3 : 0*4 + 0 + n < 4*4 => v[n + 1] = Nonce(4, 0, 0 + n)
    BY <2>1, <2>2 DEF Nonce
  <2>4. RowFits(4, 4, 0, 0, "null", v, 0)
    BY <2>1, <2>3 DEF RowFits
  <2> QED BY <2>4 DEF v
<1>2. RowFits(4, 4, 1, 0, "null", <<256, 257, 258, 259>>, 0)
  <2> DEFINE v == <<256, 257, 258, 259>>
  <2>1. /\ Len(v) = 4
        /\ v[1] = 256 /\ v[2] = 257 /\ v[3] = 258 /\ v[4] = 259
    OBVIOUS
  <2> HIDE DEF v
  <2>2. \A n \in 0..3 : n = 0 \/ n = 1 \/ n = 2 \/ n = 3
    OBVIOUS
  <2>3. \A n \in 0..3 : 1*4 + 0 + n < 4*4 => v[n + 1] = Nonce(4, 1, 0 + n)
    BY <2>1, <2>2 DEF Nonce
  <2>4. RowFits(4, 4, 1, 0, "null", v, 0)
    BY <2>1, <2>3 DEF RowFits
  <2> QED BY <2>4 DEF v
<1>3. RowFits(4, 4, 2, 0, "null", <<512, 513, 514, 515>>, 0)
  <2> DEFINE v == <<512, 513, 514, 515>>
  <2>1. /\ Len(v) = 4
        /\ v[1] = 512 /\ v[2] = 513 /\ v[3] = 514 /\ v[4] = 515
    OBVIOUS
  <2> HIDE DEF v
  <2>2. \A n \in 0..3 : n = 0 \/ n = 1 \/ n = 2 \/ n = 3
    OBVIOUS
  <2>3. \A n \in 0..3 : 2*4 + 0 + n < 4*4 => v[n + 1] = Nonce(4, 2, 0 + n)
    BY <2>1, <2>2 DEF Nonce
  <2>4. RowFits(4, 4, 2, 0, "null", v, 0)
    BY <2>1, <2>3 DEF RowFits
  <2> QED BY <2>4 DEF v
<1>4. RowFits(4, 4, 3, 0, "null", <<768, 769, 770, 771>>, 0)
  <2> DEFINE v == <<768, 769, 770, 771>>
  <2>1. /\ Len(v) = 4
        /\ v[1] = 768 /\ v[2] = 769 /\ v[3] = 770 /\ v[4] = 771
    OBVIOUS
  <2> HIDE DEF v
  <2>2. \A n \in 0..3 : n = 0 \/ n = 1 \/ n = 2 \/ n = 3
    OBVIOUS
  <2>3. \A n \in 0..3 : 3*4 + 0 + n < 4*4 => v[n + 1] = Nonce(4, 3, 0 + n)
    BY <2>1, <2>2 DEF Nonce
  <2>4. RowFits(4, 4, 3, 0, "null", v, 0)
    BY <2>1, <2>3 DEF RowFits
  <2> QED BY <2>4 DEF v
<1>5. \A p \in 0..3 : p = 0 \/ p = 1 \/ p = 2 \/ p = 3
  OBVIOUS
<1>6. PICK T : T = Table44
  OBVIOUS
<1>7. /\ Len(T) = 4
      /\ T[1] = Row(0, "null", <<0, 1, 2, 3>>)
      /\ T[2] = Row(0, "null", <<256, 257, 258, 259>>)
      /\ T[3] = Row(0, "null", <<512, 513, 514, 515>>)
      /\ T[4] = Row(0, "null", <<768, 769, 770, 771>>)
  BY <1>6 DEF Table44
<1>8. T[1].at = 0 /\ T[1].rowb = "null" /\ T[1].nonces = <<0, 1, 2, 3>>
  BY <1>7 DEF Row
<1>9. T[2].at = 0 /\ T[2].rowb = "null" /\ T[2].nonces = <<256, 257, 258, 259>>
  BY <1>7 DEF Row
<1>10. T[3].at = 0 /\ T[3].rowb = "null" /\ T[3].nonces = <<512, 513, 514, 515>>
  BY <1>7 DEF Row
<1>11. T[4].at = 0 /\ T[4].rowb = "null" /\ T[4].nonces = <<768, 769, 770, 771>>
  BY <1>7 DEF Row
<1>12. ASSUME NEW p \in 0..3
      PROVE  \E then \in 0..3 :
                /\ RowFits(4, 4, p, T[p + 1].at, T[p + 1].rowb, T[p + 1].nonces, then)
                /\ p + 1 < 4 => T[p + 2].at = then
  <2>1. CASE p = 0
    <3>1. /\ RowFits(4, 4, 0, T[0+1].at, T[0+1].rowb, T[0+1].nonces, 0)
          /\ T[0+2].at = 0
      BY <1>1, <1>8, <1>9
    <3> QED BY <2>1, <3>1
  <2>2. CASE p = 1
    <3>1. /\ RowFits(4, 4, 1, T[1+1].at, T[1+1].rowb, T[1+1].nonces, 0)
          /\ T[1+2].at = 0
      BY <1>2, <1>9, <1>10
    <3> QED BY <2>2, <3>1
  <2>3. CASE p = 2
    <3>1. /\ RowFits(4, 4, 2, T[2+1].at, T[2+1].rowb, T[2+1].nonces, 0)
          /\ T[2+2].at = 0
      BY <1>3, <1>10, <1>11
    <3> QED BY <2>3, <3>1
  <2>4. CASE p = 3
    <3>1. /\ RowFits(4, 4, 3, T[3+1].at, T[3+1].rowb, T[3+1].nonces, 0)
          /\ ~(3+1 < 4)
      BY <1>4, <1>11
    <3> QED BY <2>4, <3>1
  <2> QED BY <1>5, <2>1, <2>2, <2>3, <2>4
<1> QED BY <1>6, <1>7, <1>8, <1>12 DEF TableFits

LEMMA Table65Fits == TableFits(6, 5, Table65)
<1>1. RowFits(6, 5, 0, 0, "next", <<0, 1, 2, 3, 4, 256, 257, 258>>, 3)
  <2> DEFINE v == <<0, 1, 2, 3, 4, 256, 257, 258>>
  <2>1. /\ Len(v) = 8
        /\ v[1] = 0 /\ v[2] = 1 /\ v[3] = 2 /\ v[4] = 3 /\ v[5] = 4
          /\ v[6] = 256 /\ v[7] = 257 /\ v[8] = 258
    OBVIOUS
  <2> HIDE DEF v
  <2>2. \A n \in 0..7 : n = 0 \/ n = 1 \/ n = 2 \/ n = 3 \/ n = 4 \/ n = 5 \/ n = 6 \/ n = 7
    OBVIOUS
  <2>3. \A n \in 0..7 : 0*5 + 0 + n < 6*5 => v[n + 1] = Nonce(5, 0, 0 + n)
    BY <2>1, <2>2 DEF Nonce
  <2>4. RowFits(6, 5, 0, 0, "next", v, 3)
    BY <2>1, <2>3 DEF RowFits
  <2> QED BY <2>4 DEF v
<1>2. RowFits(6, 5, 1, 3, "next", <<259, 260, 512, 513>>, 2)
  <2> DEFINE v == <<259, 260, 512, 513>>
  <2>1. /\ Len(v) = 4
        /\ v[1] = 259 /\ v[2] = 260 /\ v[3] = 512 /\ v[4] = 513
    OBVIOUS
  <2> HIDE DEF v
  <2>2. \A n \in 0..3 : n = 0 \/ n = 1 \/ n = 2 \/ n = 3
    OBVIOUS
  <2>3. \A n \in 0..3 : 1*5 + 3 + n < 6*5 => v[n + 1] = Nonce(5, 1, 3 + n)
    BY <2>1, <2>2 DEF Nonce
  <2>4. RowFits(6, 5, 1, 3, "next", v, 2)
    BY <2>1, <2>3 DEF RowFits
  <2> QED BY <2>4 DEF v
<1>3. RowFits(6, 5, 2, 2, "next", <<514, 515, 516, 768>>, 1)
  <2> DEFINE v == <<514, 515, 516, 768>>
  <2>1. /\ Len(v) = 4
        /\ v[1] = 514 /\ v[2] = 515 /\ v[3] = 516 /\ v[4] = 768
    OBVIOUS
  <2> HIDE DEF v
  <2>2. \A n \in 0..3 : n = 0 \/ n = 1 \/ n = 2 \/ n = 3
    OBVIOUS
  <2>3. \A n \in 0..3 : 2*5 + 2 + n < 6*5 => v[n + 1] = Nonce(5, 2, 2 + n)
    BY <2>1, <2>2 DEF Nonce
  <2>4. RowFits(6, 5, 2, 2, "next", v, 1)
    BY <2>1, <2>3 DEF RowFits
  <2> QED BY <2>4 DEF v
<1>4. RowFits(6, 5, 3, 1, "null", <<769, 770, 771, 772>>, 0)
  <2> DEFINE v == <<769, 770, 771, 772>>
  <2>1. /\ Len(v) = 4
        /\ v[1] = 769 /\ v[2] = 770 /\ v[3] = 771 /\ v[4] = 772
    OBVIOUS
  <2> HIDE DEF v
  <2>2. \A n \in 0..3 : n = 0 \/ n = 1 \/ n = 2 \/ n = 3
    OBVIOUS
  <2>3. \A n \in 0..3 : 3*5 + 1 + n < 6*5 => v[n + 1] = Nonce(5, 3, 1 + n)
    BY <2>1, <2>2 DEF Nonce
  <2>4. RowFits(6, 5, 3, 1, "null", v, 0)
    BY <2>1, <2>3 DEF RowFits
  <2> QED BY <2>4 DEF v
<1>5. RowFits(6, 5, 4, 0, "next", <<1024, 1025, 1026, 1027, 1028, 1280, 1281, 1282>>, 3)
  <2> DEFINE v == <<1024, 1025, 1026, 1027, 1028, 1280, 1281, 1282>>
  <2>1. /\ Len(v) = 8
        /\ v[1] = 1024 /\ v[2] = 1025 /\ v[3] = 1026 /\ v[4] = 1027 /\ v[5] = 1028
          /\ v[6] = 1280 /\ v[7] = 1281 /\ v[8] = 1282
    OBVIOUS
  <2> HIDE DEF v
  <2>2. \A n \in 0..7 : n = 0 \/ n = 1 \/ n = 2 \/ n = 3 \/ n = 4 \/ n = 5 \/ n = 6 \/ n = 7
    OBVIOUS
  <2>3. \A n \in 0..7 : 4*5 + 0 + n < 6*5 => v[n + 1] = Nonce(5, 4, 0 + n)
    BY <2>1, <2>2 DEF Nonce
  <2>4. RowFits(6, 5, 4, 0, "next", v, 3)
    BY <2>1, <2>3 DEF RowFits
  <2> QED BY <2>4 DEF v
<1>6. RowFits(6, 5, 5, 3, "tmp", <<1283, 1284, 1536, 1537>>, 2)
  <2> DEFINE v == <<1283, 1284, 1536, 1537>>
  <2>1. /\ Len(v) = 4
        /\ v[1] = 1283 /\ v[2] = 1284 /\ v[3] = 1536 /\ v[4] = 1537
    OBVIOUS
  <2> HIDE DEF v
  <2>2. \A n \in 0..3 : n = 0 \/ n = 1 \/ n = 2 \/ n = 3
    OBVIOUS
  <2>3. \A n \in 0..3 : 5*5 + 3 + n < 6*5 => v[n + 1] = Nonce(5, 5, 3 + n)
    BY <2>1, <2>2 DEF Nonce
  <2>4. RowFits(6, 5, 5, 3, "tmp", v, 2)
    BY <2>1, <2>3 DEF RowFits
  <2> QED BY <2>4 DEF v
<1>7. \A p \in 0..5 : p = 0 \/ p = 1 \/ p = 2 \/ p = 3 \/ p = 4 \/ p = 5
  OBVIOUS
<1>8. PICK T : T = Table65
  OBVIOUS
<1>9. /\ Len(T) = 6
      /\ T[1] = Row(0, "next", <<0, 1, 2, 3, 4, 256, 257, 258>>)
      /\ T[2] = Row(3, "next", <<259, 260, 512, 513>>)
      /\ T[3] = Row(2, "next", <<514, 515, 516, 768>>)
      /\ T[4] = Row(1, "null", <<769, 770, 771, 772>>)
      /\ T[5] = Row(0, "next", <<1024, 1025, 1026, 1027, 1028, 1280, 1281, 1282>>)
      /\ T[6] = Row(3, "tmp", <<1283, 1284, 1536, 1537>>)
  BY <1>8 DEF Table65
<1>10. T[1].at = 0 /\ T[1].rowb = "next" /\ T[1].nonces = <<0, 1, 2, 3, 4, 256, 257, 258>>
  BY <1>9 DEF Row
<1>11. T[2].at = 3 /\ T[2].rowb = "next" /\ T[2].nonces = <<259, 260, 512, 513>>
  BY <1>9 DEF Row
<1>12. T[3].at = 2 /\ T[3].rowb = "next" /\ T[3].nonces = <<514, 515, 516, 768>>
  BY <1>9 DEF Row
<1>13. T[4].at = 1 /\ T[4].rowb = "null" /\ T[4].nonces = <<769, 770, 771, 772>>
  BY <1>9 DEF Row
<1>14. T[5].at = 0 /\ T[5].rowb = "next" /\ T[5].nonces = <<1024, 1025, 1026, 1027, 1028, 1280, 1281, 1282>>
  BY <1>9 DEF Row
<1>15. T[6].at = 3 /\ T[6].rowb = "tmp" /\ T[6].nonces = <<1283, 1284, 1536, 1537>>
  BY <1>9 DEF Row
<1>16. ASSUME NEW p \in 0..5
      PROVE  \E then \in 0..4 :
                /\ RowFits(6, 5, p, T[p + 1].at, T[p + 1].rowb, T[p + 1].nonces, then)
                /\ p + 1 < 6 => T[p + 2].at = then
  <2>1. CASE p = 0
    <3>1. /\ RowFits(6, 5, 0, T[0+1].at, T[0+1].rowb, T[0+1].nonces, 3)
          /\ T[0+2].at = 3
      BY <1>1, <1>10, <1>11
    <3> QED BY <2>1, <3>1
  <2>2. CASE p = 1
    <3>1. /\ RowFits(6, 5, 1, T[1+1].at, T[1+1].rowb, T[1+1].nonces, 2)
          /\ T[1+2].at = 2
      BY <1>2, <1>11, <1>12
    <3> QED BY <2>2, <3>1
  <2>3. CASE p = 2
    <3>1. /\ RowFits(6, 5, 2, T[2+1].at, T[2+1].rowb, T[2+1].nonces, 1)
          /\ T[2+2].at = 1
      BY <1>3, <1>12, <1>13
    <3> QED BY <2>3, <3>1
  <2>4. CASE p = 3
    <3>1. /\ RowFits(6, 5, 3, T[3+1].at, T[3+1].rowb, T[3+1].nonces, 0)
          /\ T[3+2].at = 0
      BY <1>4, <1>13, <1>14
    <3> QED BY <2>4, <3>1
  <2>5. CASE p = 4
    <3>1. /\ RowFits(6, 5, 4, T[4+1].at, T[4+1].rowb, T[4+1].nonces, 3)
          /\ T[4+2].at = 3
      BY <1>5, <1>14, <1>15
    <3> QED BY <2>5, <3>1
  <2>6. CASE p = 5
    <3>1. /\ RowFits(6, 5, 5, T[5+1].at, T[5+1].rowb, T[5+1].nonces, 2)
          /\ ~(5+1 < 6)
      BY <1>6, <1>15
    <3> QED BY <2>6, <3>1
  <2> QED BY <1>7, <2>1, <2>2, <2>3, <2>4, <2>5, <2>6
<1> QED BY <1>8, <1>9, <1>10, <1>16 DEF TableFits

LEMMA Table87Fits == TableFits(8, 7, Table87)
<1>1. RowFits(8, 7, 0, 0, "next", <<0, 1, 2, 3, 4, 5, 6, 256>>, 1)
  <2> DEFINE v == <<0, 1, 2, 3, 4, 5, 6, 256>>
  <2>1. /\ Len(v) = 8
        /\ v[1] = 0 /\ v[2] = 1 /\ v[3] = 2 /\ v[4] = 3 /\ v[5] = 4
          /\ v[6] = 5 /\ v[7] = 6 /\ v[8] = 256
    OBVIOUS
  <2> HIDE DEF v
  <2>2. \A n \in 0..7 : n = 0 \/ n = 1 \/ n = 2 \/ n = 3 \/ n = 4 \/ n = 5 \/ n = 6 \/ n = 7
    OBVIOUS
  <2>3. \A n \in 0..7 : 0*7 + 0 + n < 8*7 => v[n + 1] = Nonce(7, 0, 0 + n)
    BY <2>1, <2>2 DEF Nonce
  <2>4. RowFits(8, 7, 0, 0, "next", v, 1)
    BY <2>1, <2>3 DEF RowFits
  <2> QED BY <2>4 DEF v
<1>2. RowFits(8, 7, 1, 1, "next", <<257, 258, 259, 260, 261, 262, 512, 513>>, 2)
  <2> DEFINE v == <<257, 258, 259, 260, 261, 262, 512, 513>>
  <2>1. /\ Len(v) = 8
        /\ v[1] = 257 /\ v[2] = 258 /\ v[3] = 259 /\ v[4] = 260 /\ v[5] = 261
          /\ v[6] = 262 /\ v[7] = 512 /\ v[8] = 513
    OBVIOUS
  <2> HIDE DEF v
  <2>2. \A n \in 0..7 : n = 0 \/ n = 1 \/ n = 2 \/ n = 3 \/ n = 4 \/ n = 5 \/ n = 6 \/ n = 7
    OBVIOUS
  <2>3. \A n \in 0..7 : 1*7 + 1 + n < 8*7 => v[n + 1] = Nonce(7, 1, 1 + n)
    BY <2>1, <2>2 DEF Nonce
  <2>4. RowFits(8, 7, 1, 1, "next", v, 2)
    BY <2>1, <2>3 DEF RowFits
  <2> QED BY <2>4 DEF v
<1>3. RowFits(8, 7, 2, 2, "next", <<514, 515, 516, 517, 518, 768, 769, 770>>, 3)
  <2> DEFINE v == <<514, 515, 516, 517, 518, 768, 769, 770>>
  <2>1. /\ Len(v) = 8
        /\ v[1] = 514 /\ v[2] = 515 /\ v[3] = 516 /\ v[4] = 517 /\ v[5] = 518
          /\ v[6] = 768 /\ v[7] = 769 /\ v[8] = 770
    OBVIOUS
  <2> HIDE DEF v
  <2>2. \A n \in 0..7 : n = 0 \/ n = 1 \/ n = 2 \/ n = 3 \/ n = 4 \/ n = 5 \/ n = 6 \/ n = 7
    OBVIOUS
  <2>3. \A n \in 0..7 : 2*7 + 2 + n < 8*7 => v[n + 1] = Nonce(7, 2, 2 + n)
    BY <2>1, <2>2 DEF Nonce
  <2>4. RowFits(8, 7, 2, 2, "next", v, 3)
    BY <2>1, <2>3 DEF RowFits
  <2> QED BY <2>4 DEF v
<1>4. RowFits(8, 7, 3, 3, "null", <<771, 772, 773, 774>>, 0)
  <2> DEFINE v == <<771, 772, 773, 774>>
  <2>1. /\ Len(v) = 4
        /\ v[1] = 771 /\ v[2] = 772 /\ v[3] = 773 /\ v[4] = 774
    OBVIOUS
  <2> HIDE DEF v
  <2>2. \A n \in 0..3 : n = 0 \/ n = 1 \/ n = 2 \/ n = 3
    OBVIOUS
  <2>3. \A n \in 0..3 : 3*7 + 3 + n < 8*7 => v[n + 1] = Nonce(7, 3, 3 + n)
    BY <2>1, <2>2 DEF Nonce
  <2>4. RowFits(8, 7, 3, 3, "null", v, 0)
    BY <2>1, <2>3 DEF RowFits
  <2> QED BY <2>4 DEF v
<1>5. RowFits(8, 7, 4, 0, "next", <<1024, 1025, 1026, 1027, 1028, 1029, 1030, 1280>>, 1)
  <2> DEFINE v == <<1024, 1025, 1026, 1027, 1028, 1029, 1030, 1280>>
  <2>1. /\ Len(v) = 8
        /\ v[1] = 1024 /\ v[2] = 1025 /\ v[3] = 1026 /\ v[4] = 1027 /\ v[5] = 1028
          /\ v[6] = 1029 /\ v[7] = 1030 /\ v[8] = 1280
    OBVIOUS
  <2> HIDE DEF v
  <2>2. \A n \in 0..7 : n = 0 \/ n = 1 \/ n = 2 \/ n = 3 \/ n = 4 \/ n = 5 \/ n = 6 \/ n = 7
    OBVIOUS
  <2>3. \A n \in 0..7 : 4*7 + 0 + n < 8*7 => v[n + 1] = Nonce(7, 4, 0 + n)
    BY <2>1, <2>2 DEF Nonce
  <2>4. RowFits(8, 7, 4, 0, "next", v, 1)
    BY <2>1, <2>3 DEF RowFits
  <2> QED BY <2>4 DEF v
<1>6. RowFits(8, 7, 5, 1, "next", <<1281, 1282, 1283, 1284, 1285, 1286, 1536, 1537>>, 2)
  <2> DEFINE v == <<1281, 1282, 1283, 1284, 1285, 1286, 1536, 1537>>
  <2>1. /\ Len(v) = 8
        /\ v[1] = 1281 /\ v[2] = 1282 /\ v[3] = 1283 /\ v[4] = 1284 /\ v[5] = 1285
          /\ v[6] = 1286 /\ v[7] = 1536 /\ v[8] = 1537
    OBVIOUS
  <2> HIDE DEF v
  <2>2. \A n \in 0..7 : n = 0 \/ n = 1 \/ n = 2 \/ n = 3 \/ n = 4 \/ n = 5 \/ n = 6 \/ n = 7
    OBVIOUS
  <2>3. \A n \in 0..7 : 5*7 + 1 + n < 8*7 => v[n + 1] = Nonce(7, 5, 1 + n)
    BY <2>1, <2>2 DEF Nonce
  <2>4. RowFits(8, 7, 5, 1, "next", v, 2)
    BY <2>1, <2>3 DEF RowFits
  <2> QED BY <2>4 DEF v
<1>7. RowFits(8, 7, 6, 2, "next", <<1538, 1539, 1540, 1541, 1542, 1792, 1793, 1794>>, 3)
  <2> DEFINE v == <<1538, 1539, 1540, 1541, 1542, 1792, 1793, 1794>>
  <2>1. /\ Len(v) = 8
        /\ v[1] = 1538 /\ v[2] = 1539 /\ v[3] = 1540 /\ v[4] = 1541 /\ v[5] = 1542
          /\ v[6] = 1792 /\ v[7] = 1793 /\ v[8] = 1794
    OBVIOUS
  <2> HIDE DEF v
  <2>2. \A n \in 0..7 : n = 0 \/ n = 1 \/ n = 2 \/ n = 3 \/ n = 4 \/ n = 5 \/ n = 6 \/ n = 7
    OBVIOUS
  <2>3. \A n \in 0..7 : 6*7 + 2 + n < 8*7 => v[n + 1] = Nonce(7, 6, 2 + n)
    BY <2>1, <2>2 DEF Nonce
  <2>4. RowFits(8, 7, 6, 2, "next", v, 3)
    BY <2>1, <2>3 DEF RowFits
  <2> QED BY <2>4 DEF v
<1>8. RowFits(8, 7, 7, 3, "null", <<1795, 1796, 1797, 1798>>, 0)
  <2> DEFINE v == <<1795, 1796, 1797, 1798>>
  <2>1. /\ Len(v) = 4
        /\ v[1] = 1795 /\ v[2] = 1796 /\ v[3] = 1797 /\ v[4] = 1798
    OBVIOUS
  <2> HIDE DEF v
  <2>2. \A n \in 0..3 : n = 0 \/ n = 1 \/ n = 2 \/ n = 3
    OBVIOUS
  <2>3. \A n \in 0..3 : 7*7 + 3 + n < 8*7 => v[n + 1] = Nonce(7, 7, 3 + n)
    BY <2>1, <2>2 DEF Nonce
  <2>4. RowFits(8, 7, 7, 3, "null", v, 0)
    BY <2>1, <2>3 DEF RowFits
  <2> QED BY <2>4 DEF v
<1>9. \A p \in 0..7 : p = 0 \/ p = 1 \/ p = 2 \/ p = 3 \/ p = 4 \/ p = 5 \/ p = 6 \/ p = 7
  OBVIOUS
<1>10. PICK T : T = Table87
  OBVIOUS
<1>11. /\ Len(T) = 8
      /\ T[1] = Row(0, "next", <<0, 1, 2, 3, 4, 5, 6, 256>>)
      /\ T[2] = Row(1, "next", <<257, 258, 259, 260, 261, 262, 512, 513>>)
      /\ T[3] = Row(2, "next", <<514, 515, 516, 517, 518, 768, 769, 770>>)
      /\ T[4] = Row(3, "null", <<771, 772, 773, 774>>)
      /\ T[5] = Row(0, "next", <<1024, 1025, 1026, 1027, 1028, 1029, 1030, 1280>>)
      /\ T[6] = Row(1, "next", <<1281, 1282, 1283, 1284, 1285, 1286, 1536, 1537>>)
      /\ T[7] = Row(2, "next", <<1538, 1539, 1540, 1541, 1542, 1792, 1793, 1794>>)
      /\ T[8] = Row(3, "null", <<1795, 1796, 1797, 1798>>)
  BY <1>10 DEF Table87
<1>12. T[1].at = 0 /\ T[1].rowb = "next" /\ T[1].nonces = <<0, 1, 2, 3, 4, 5, 6, 256>>
  BY <1>11 DEF Row
<1>13. T[2].at = 1 /\ T[2].rowb = "next" /\ T[2].nonces = <<257, 258, 259, 260, 261, 262, 512, 513>>
  BY <1>11 DEF Row
<1>14. T[3].at = 2 /\ T[3].rowb = "next" /\ T[3].nonces = <<514, 515, 516, 517, 518, 768, 769, 770>>
  BY <1>11 DEF Row
<1>15. T[4].at = 3 /\ T[4].rowb = "null" /\ T[4].nonces = <<771, 772, 773, 774>>
  BY <1>11 DEF Row
<1>16. T[5].at = 0 /\ T[5].rowb = "next" /\ T[5].nonces = <<1024, 1025, 1026, 1027, 1028, 1029, 1030, 1280>>
  BY <1>11 DEF Row
<1>17. T[6].at = 1 /\ T[6].rowb = "next" /\ T[6].nonces = <<1281, 1282, 1283, 1284, 1285, 1286, 1536, 1537>>
  BY <1>11 DEF Row
<1>18. T[7].at = 2 /\ T[7].rowb = "next" /\ T[7].nonces = <<1538, 1539, 1540, 1541, 1542, 1792, 1793, 1794>>
  BY <1>11 DEF Row
<1>19. T[8].at = 3 /\ T[8].rowb = "null" /\ T[8].nonces = <<1795, 1796, 1797, 1798>>
  BY <1>11 DEF Row
<1>20. ASSUME NEW p \in 0..7
      PROVE  \E then \in 0..6 :
                /\ RowFits(8, 7, p, T[p + 1].at, T[p + 1].rowb, T[p + 1].nonces, then)
                /\ p + 1 < 8 => T[p + 2].at = then
  <2>1. CASE p = 0
    <3>1. /\ RowFits(8, 7, 0, T[0+1].at, T[0+1].rowb, T[0+1].nonces, 1)
          /\ T[0+2].at = 1
      BY <1>1, <1>12, <1>13
    <3> QED BY <2>1, <3>1
  <2>2. CASE p = 1
    <3>1. /\ RowFits(8, 7, 1, T[1+1].at, T[1+1].rowb, T[1+1].nonces, 2)
          /\ T[1+2].at = 2
      BY <1>2, <1>13, <1>14
    <3> QED BY <2>2, <3>1
  <2>3. CASE p = 2
    <3>1. /\ RowFits(8, 7, 2, T[2+1].at, T[2+1].rowb, T[2+1].nonces, 3)
          /\ T[2+2].at = 3
      BY <1>3, <1>14, <1>15
    <3> QED BY <2>3, <3>1
  <2>4. CASE p = 3
    <3>1. /\ RowFits(8, 7, 3, T[3+1].at, T[3+1].rowb, T[3+1].nonces, 0)
          /\ T[3+2].at = 0
      BY <1>4, <1>15, <1>16
    <3> QED BY <2>4, <3>1
  <2>5. CASE p = 4
    <3>1. /\ RowFits(8, 7, 4, T[4+1].at, T[4+1].rowb, T[4+1].nonces, 1)
          /\ T[4+2].at = 1
      BY <1>5, <1>16, <1>17
    <3> QED BY <2>5, <3>1
  <2>6. CASE p = 5
    <3>1. /\ RowFits(8, 7, 5, T[5+1].at, T[5+1].rowb, T[5+1].nonces, 2)
          /\ T[5+2].at = 2
      BY <1>6, <1>17, <1>18
    <3> QED BY <2>6, <3>1
  <2>7. CASE p = 6
    <3>1. /\ RowFits(8, 7, 6, T[6+1].at, T[6+1].rowb, T[6+1].nonces, 3)
          /\ T[6+2].at = 3
      BY <1>7, <1>18, <1>19
    <3> QED BY <2>7, <3>1
  <2>8. CASE p = 7
    <3>1. /\ RowFits(8, 7, 7, T[7+1].at, T[7+1].rowb, T[7+1].nonces, 0)
          /\ ~(7+1 < 8)
      BY <1>8, <1>19
    <3> QED BY <2>8, <3>1
  <2> QED BY <1>9, <2>1, <2>2, <2>3, <2>4, <2>5, <2>6, <2>7, <2>8
<1> QED BY <1>10, <1>11, <1>12, <1>20 DEF TableFits

(***************************************************************************)
(* The inductive invariant of MatrixExpansion: of the places in order,     *)
(* those before the function that runs and those it unpacked are ready,    *)
(* the others it sampled are in standard order, the rest is untouched.     *)
(***************************************************************************)
Destination(k, l, r, at, rowb, n) ==
    IF at + n < l THEN <<r, at + n>>
    ELSE << CASE rowb = "next" -> r + 1 [] rowb = "tmp" -> k [] OTHER -> -1, (at + n) - l>>

EntryOf(l, from, d, u, i, j) ==
    IF l*i + j < from + u THEN [nonce |-> 256*i + j, order |-> "ntt"]
    ELSE IF l*i + j < from + d THEN [nonce |-> 256*i + j, order |-> "standard"]
    ELSE Unsampled

FilledTo(k, l, from, d, u, M) ==
    \A i \in 0..k-1, j \in 0..l-1 : M[<<i, j>>] = EntryOf(l, from, d, u, i, j)

Counts(k, l, r, d, u, m) ==
    /\ r \in 0..k /\ d \in {0, 4, 8} /\ u \in 0..d
    /\ r < k => d <= m /\ (u > 0 => d = m)
    /\ r = k => d = 0

From == IF row < K THEN L*row + Prog.at ELSE L*K

MatrixInv ==
    /\ shape \in Shapes
    /\ Counts(K, L, row, done, unp, Len(Prog.nonces))
    /\ DOMAIN mat = (0..K) \X (0..L-1)
    /\ FilledTo(K, L, From, done, unp, mat)

Sizes3(s, k, l, T) == k = s[1] /\ l = s[2] /\ T = Table(s)
                      /\ k \in Nat \ {0} /\ l \in {4, 5, 7} /\ TableFits(k, l, T)

LEMMA EveryTableFits ==
    ASSUME NEW s \in Shapes
    PROVE  \E k, l, T : Sizes3(s, k, l, T)
<1>1. s = <<4, 4>> \/ s = <<6, 5>> \/ s = <<8, 7>>
  BY ShapeAssumption
<1>2. CASE s = <<4, 4>>
  <2>1. Table(s) = Table44
    BY <1>2 DEF Table
  <2> QED BY <1>2, <2>1, Table44Fits DEF Sizes3
<1>3. CASE s = <<6, 5>>
  <2>1. Table(s) = Table65
    BY <1>3 DEF Table
  <2> QED BY <1>3, <2>1, Table65Fits DEF Sizes3
<1>4. CASE s = <<8, 7>>
  <2>1. Table(s) = Table87
    BY <1>4 DEF Table
  <2> QED BY <1>4, <2>1, Table87Fits DEF Sizes3
<1> QED BY <1>1, <1>2, <1>3, <1>4

\* A call of poly_uniform_4x that is due has four polynomials left.
LEMMA FourMore ==
    ASSUME NEW d \in {0, 4, 8}, NEW m \in {4, 8}, d < m
    PROVE  d + 4 \in {4, 8} /\ d + 4 <= m /\ \A n \in d..d+3 : n \in 0..m-1
  OBVIOUS

\* Two places in order with the same number are the same place.
LEMMA OneEntry ==
    ASSUME NEW l \in {4, 5, 7}, NEW i \in Int, NEW j \in 0..l-1,
           NEW p \in Int, NEW q \in 0..l-1, l*i + j = l*p + q
    PROVE  i = p /\ j = q
<1>1. CASE l = 4
  BY <1>1, SMT
<1>2. CASE l = 5
  BY <1>2, SMT
<1>3. CASE l = 7
  BY <1>3, SMT
<1> QED BY <1>1, <1>2, <1>3

\* Where the n-th polynomial of a row function goes: the place with the
\* number of the function's first place plus n, in the matrix or in tmp.
IsAt(k, l, r, at, rowb, v, n, p, q) ==
    /\ p \in 0..k /\ q \in 0..l-1
    /\ Destination(k, l, r, at, rowb, n) = <<p, q>>
    /\ l*p + q = l*r + at + n
    /\ p < k => v[n + 1] = 256*p + q

LEMMA WhereItGoes ==
    ASSUME NEW k \in Nat \ {0}, NEW l \in {4, 5, 7}, NEW r \in 0..k-1, NEW at, NEW rowb,
           NEW v, NEW then, RowFits(k, l, r, at, rowb, v, then), NEW n \in 0..Len(v)-1
    PROVE  \E p, q : IsAt(k, l, r, at, rowb, v, n, p, q)
<1>1. /\ at \in 0..l-1 /\ then \in 0..l-1 /\ Len(v) \in {4, 8}
      /\ at + Len(v) <= l + then
      /\ (at + Len(v) > l => (rowb = "next" /\ r + 1 < k) \/ (rowb = "tmp" /\ r + 1 = k))
      /\ (r*l + at + n < k*l => v[n + 1] = Nonce(l, r, at + n))
  BY DEF RowFits
<1>2. n \in Nat /\ n < Len(v)
  BY <1>1
<1>3. CASE at + n < l
  <2>1. r*l + at + n < k*l
    <3>1. CASE l = 4
      BY <1>1, <1>2, <1>3, <3>1
    <3>2. CASE l = 5
      BY <1>1, <1>2, <1>3, <3>2
    <3>3. CASE l = 7
      BY <1>1, <1>2, <1>3, <3>3
    <3> QED BY <3>1, <3>2, <3>3
  <2>2. v[n + 1] = 256*r + (at + n)
    BY <1>1, <1>3, <2>1 DEF Nonce
  <2>3. Destination(k, l, r, at, rowb, n) = <<r, at + n>>
    BY <1>3 DEF Destination
  <2>4. l*r + (at + n) = l*r + at + n
    BY <1>1, <1>2
  <2>5. r \in 0..k /\ at + n \in 0..l-1
    BY <1>1, <1>2, <1>3
  <2>6. PICK q : q = at + n
    OBVIOUS
  <2>7. IsAt(k, l, r, at, rowb, v, n, r, q)
    BY <2>2, <2>3, <2>4, <2>5, <2>6 DEF IsAt
  <2> QED BY <2>7
<1>4. CASE ~(at + n < l)
  <2>1. (rowb = "next" /\ r + 1 < k) \/ (rowb = "tmp" /\ r + 1 = k)
    BY <1>1, <1>2, <1>4
  <2>2. (at + n) - l \in 0..l-1
    BY <1>1, <1>2, <1>4
  <2>3. Destination(k, l, r, at, rowb, n) = <<r + 1, (at + n) - l>>
    BY <1>4, <2>1 DEF Destination
  <2>4. l*(r + 1) + ((at + n) - l) = l*r + at + n
    <3>1. CASE l = 4
      BY <1>1, <1>2, <3>1
    <3>2. CASE l = 5
      BY <1>1, <1>2, <3>2
    <3>3. CASE l = 7
      BY <1>1, <1>2, <3>3
    <3> QED BY <3>1, <3>2, <3>3
  <2>5. ASSUME r + 1 < k
        PROVE  v[n + 1] = 256*(r + 1) + ((at + n) - l)
    <3>1. r*l + at + n < k*l
      <4>1. CASE l = 4
        BY <2>2, <2>5, <4>1, <1>1, <1>2
      <4>2. CASE l = 5
        BY <2>2, <2>5, <4>2, <1>1, <1>2
      <4>3. CASE l = 7
        BY <2>2, <2>5, <4>3, <1>1, <1>2
      <4> QED BY <4>1, <4>2, <4>3
    <3> QED BY <1>1, <1>4, <3>1 DEF Nonce
  <2>6. r + 1 \in 0..k
    OBVIOUS
  <2>7. PICK p, q : p = r + 1 /\ q = (at + n) - l
    OBVIOUS
  <2>8. p \in 0..k /\ q \in 0..l-1 /\ Destination(k, l, r, at, rowb, n) = <<p, q>>
    BY <2>2, <2>3, <2>6, <2>7
  <2>9. l*p + q = l*r + at + n /\ (p < k => v[n + 1] = 256*p + q)
    BY <2>4, <2>5, <2>7
  <2>10. IsAt(k, l, r, at, rowb, v, n, p, q)
    BY <2>8, <2>9 DEF IsAt
  <2> QED BY <2>10
<1> QED BY <1>3, <1>4

(***************************************************************************)
(* What poly_uniform_4x and poly_nttunpack do to the places in order.      *)
(***************************************************************************)
SampledMatrix(k, l, r, at, rowb, v, d, M) ==
    [e \in DOMAIN M |->
        IF \E n \in d..d+3 : Destination(k, l, r, at, rowb, n) = e
        THEN [nonce |-> v[1 + CHOOSE n \in d..d+3 : Destination(k, l, r, at, rowb, n) = e],
              order |-> "standard"]
        ELSE M[e]]

UnpackedMatrix(k, l, r, at, rowb, u, M) ==
    IF Destination(k, l, r, at, rowb, u)[1] # k
       /\ Destination(k, l, r, at, rowb, u) \in DOMAIN M
    THEN [M EXCEPT ![Destination(k, l, r, at, rowb, u)].order =
             IF @ = "standard" THEN "ntt" ELSE "scrambled"]
    ELSE M

Running(k, l, r, at, rowb, v, then) ==
    /\ k \in Nat \ {0} /\ l \in {4, 5, 7} /\ r \in 0..k-1
    /\ RowFits(k, l, r, at, rowb, v, then)

MatrixIs(k, l, from, d, u, M) ==
    DOMAIN M = (0..k) \X (0..l-1) /\ FilledTo(k, l, from, d, u, M)

\* Entry <<i, j>> is the n-th polynomial of the function exactly if its
\* number says so, and then it has the nonce of ref/.
LEMMA EntryOfCall ==
    ASSUME NEW k, NEW l, NEW r, NEW at, NEW rowb, NEW v, NEW then,
           Running(k, l, r, at, rowb, v, then),
           NEW n \in 0..Len(v)-1, NEW i \in 0..k-1, NEW j \in 0..l-1
    PROVE  /\ Destination(k, l, r, at, rowb, n) = <<i, j>> <=> l*i + j = l*r + at + n
           /\ l*i + j = l*r + at + n => v[n + 1] = 256*i + j
<1>1. /\ k \in Nat \ {0} /\ l \in {4, 5, 7} /\ r \in 0..k-1
      /\ RowFits(k, l, r, at, rowb, v, then)
  BY DEF Running
<1>2. PICK p, q : IsAt(k, l, r, at, rowb, v, n, p, q)
  BY <1>1, WhereItGoes
<1>3. /\ p \in 0..k /\ q \in 0..l-1
      /\ Destination(k, l, r, at, rowb, n) = <<p, q>>
      /\ l*p + q = l*r + at + n
      /\ p < k => v[n + 1] = 256*p + q
  BY <1>2 DEF IsAt
<1>4. p \in Int /\ i \in Int /\ i < k
  BY <1>1, <1>3
<1>5. ASSUME l*i + j = l*r + at + n
      PROVE  i = p /\ j = q
  <2>1. l*i + j = l*p + q
    BY <1>3, <1>5
  <2> QED BY <1>1, <1>3, <1>4, <2>1, OneEntry
<1>6. ASSUME <<p, q>> = <<i, j>>
      PROVE  p = i /\ q = j
  BY <1>6
<1> QED BY <1>3, <1>4, <1>5, <1>6

LEMMA EntryNumber ==
    ASSUME NEW k, NEW l, NEW r, NEW at, NEW rowb, NEW v, NEW then,
           Running(k, l, r, at, rowb, v, then), NEW i \in 0..k-1, NEW j \in 0..l-1
    PROVE  l*i + j \in Nat /\ l*r + at \in Nat /\ Len(v) \in {4, 8}
<1>1. k \in Nat /\ l \in {4, 5, 7} /\ r \in 0..k-1 /\ at \in 0..l-1 /\ Len(v) \in {4, 8}
  BY DEF Running, RowFits
<1>2. l*i \in Nat /\ l*r \in Nat
  BY <1>1
<1> QED BY <1>1, <1>2

LEMMA Uniform4xFills ==
    ASSUME NEW k, NEW l, NEW r, NEW at, NEW rowb, NEW v, NEW then,
           Running(k, l, r, at, rowb, v, then),
           NEW d \in {0, 4, 8}, d < Len(v), NEW M, MatrixIs(k, l, l*r + at, d, 0, M)
    PROVE  MatrixIs(k, l, l*r + at, d + 4, 0, SampledMatrix(k, l, r, at, rowb, v, d, M))
<1> DEFINE D(n) == Destination(k, l, r, at, rowb, n)
           S == SampledMatrix(k, l, r, at, rowb, v, d, M)
           from == l*r + at
<1>1. DOMAIN M = (0..k) \X (0..l-1)
  BY DEF MatrixIs
<1>2. DOMAIN S = (0..k) \X (0..l-1)
  BY <1>1 DEF SampledMatrix
<1>3. ASSUME NEW i \in 0..k-1, NEW j \in 0..l-1
      PROVE  S[<<i, j>>] = EntryOf(l, from, d + 4, 0, i, j)
  <2>1. PICK x : x = l*i + j
    OBVIOUS
  <2>2. x \in Nat /\ from \in Nat /\ Len(v) \in {4, 8}
    BY <2>1, EntryNumber
  <2>3. \A n \in d..d+3 : n \in 0..Len(v)-1
    BY <2>2, FourMore
  <2>4. \A n \in d..d+3 : /\ D(n) = <<i, j>> <=> x = from + n
                          /\ x = from + n => v[n + 1] = 256*i + j
    BY <2>1, <2>3, EntryOfCall
  <2>5. M[<<i, j>>] = EntryOf(l, from, d, 0, i, j)
    BY DEF MatrixIs, FilledTo
  <2>6. <<i, j>> \in DOMAIN M
    <3>1. k \in Nat
      BY DEF Running
    <3> QED BY <1>1, <3>1
  <2>7. S[<<i, j>>] = IF \E n \in d..d+3 : D(n) = <<i, j>>
                      THEN [nonce |-> v[1 + CHOOSE n \in d..d+3 : D(n) = <<i, j>>],
                            order |-> "standard"]
                      ELSE M[<<i, j>>]
    BY <2>6 DEF SampledMatrix
  <2> HIDE DEF D, S, from
  <2>8. CASE \E n \in d..d+3 : D(n) = <<i, j>>
    <3>1. PICK n : n = CHOOSE y \in d..d+3 : D(y) = <<i, j>>
      OBVIOUS
    <3>2. n \in d..d+3 /\ D(n) = <<i, j>>
      BY <2>8, <3>1
    <3>3. x = from + n /\ v[n + 1] = 256*i + j /\ 1 + n = n + 1
      BY <2>4, <3>2
    <3>4. S[<<i, j>>] = [nonce |-> v[1 + n], order |-> "standard"]
      BY <2>7, <2>8, <3>1
    <3>5. ~(x < from + 0) /\ x < from + (d + 4)
      BY <2>2, <3>2, <3>3
    <3> QED BY <2>1, <3>3, <3>4, <3>5 DEF EntryOf
  <2>9. CASE ~\E n \in d..d+3 : D(n) = <<i, j>>
    <3>1. ~(x >= from + d /\ x < from + (d + 4))
      <4>1. SUFFICES ASSUME x >= from + d, x < from + (d + 4)
                     PROVE  FALSE
        OBVIOUS
      <4>2. x - from \in d..d+3 /\ x = from + (x - from)
        BY <2>2, <4>1
      <4> QED BY <2>4, <2>9, <4>2
    <3>2. x < from + (d + 4) <=> x < from + d
      BY <2>2, <3>1
    <3> QED BY <2>1, <2>5, <2>7, <2>9, <3>2 DEF EntryOf
  <2> QED BY <2>8, <2>9
<1> QED BY <1>2, <1>3 DEF MatrixIs, FilledTo

LEMMA NttUnpackReady ==
    ASSUME NEW k, NEW l, NEW r, NEW at, NEW rowb, NEW v, NEW then,
           Running(k, l, r, at, rowb, v, then),
           NEW u \in 0..Len(v)-1, NEW M, MatrixIs(k, l, l*r + at, Len(v), u, M)
    PROVE  MatrixIs(k, l, l*r + at, Len(v), u + 1, UnpackedMatrix(k, l, r, at, rowb, u, M))
<1> DEFINE e == Destination(k, l, r, at, rowb, u)
           S == UnpackedMatrix(k, l, r, at, rowb, u, M)
           from == l*r + at
<1>1. DOMAIN M = (0..k) \X (0..l-1)
  BY DEF MatrixIs
<1>2. DOMAIN S = (0..k) \X (0..l-1)
  BY <1>1 DEF UnpackedMatrix
<1>3. ASSUME NEW i \in 0..k-1, NEW j \in 0..l-1
      PROVE  S[<<i, j>>] = EntryOf(l, from, Len(v), u + 1, i, j)
  <2>1. PICK x : x = l*i + j
    OBVIOUS
  <2>2. x \in Nat /\ from \in Nat /\ Len(v) \in {4, 8}
    BY <2>1, EntryNumber
  <2>4. e = <<i, j>> <=> x = from + u
    BY <2>1, EntryOfCall
  <2>5. M[<<i, j>>] = EntryOf(l, from, Len(v), u, i, j)
    BY DEF MatrixIs, FilledTo
  <2>6. <<i, j>> \in DOMAIN M /\ i # k
    <3>1. k \in Nat
      BY DEF Running
    <3> QED BY <1>1, <3>1
  <2>7. u \in Nat /\ u < Len(v)
    BY <2>2
  <2>8. S = IF e[1] # k /\ e \in DOMAIN M
            THEN [M EXCEPT ![e] = [M[e] EXCEPT !.order =
                     IF M[e].order = "standard" THEN "ntt" ELSE "scrambled"]]
            ELSE M
    BY DEF UnpackedMatrix
  <2> HIDE DEF e, S, from
  <2>9. CASE e = <<i, j>>
    <3>1. e[1] # k /\ e \in DOMAIN M
      BY <2>6, <2>9
    <3>2. M[e] = [nonce |-> 256*i + j, order |-> "standard"]
      BY <2>1, <2>2, <2>4, <2>5, <2>7, <2>9 DEF EntryOf
    <3>3. S[e] = [M[e] EXCEPT !.order = IF M[e].order = "standard" THEN "ntt" ELSE "scrambled"]
      BY <2>8, <3>1
    <3>4. S[e] = [nonce |-> 256*i + j, order |-> "ntt"]
      BY <3>2, <3>3
    <3>5. x < from + (u + 1)
      BY <2>2, <2>4, <2>7, <2>9
    <3> QED BY <2>1, <2>9, <3>4, <3>5 DEF EntryOf
  <2>10. CASE e # <<i, j>>
    <3>1. S[<<i, j>>] = M[<<i, j>>]
      BY <2>6, <2>8, <2>10
    <3>2. x < from + (u + 1) <=> x < from + u
      BY <2>2, <2>4, <2>7, <2>10
    <3> QED BY <2>1, <2>5, <3>1, <3>2 DEF EntryOf
  <2> QED BY <2>9, <2>10
<1> QED BY <1>2, <1>3 DEF MatrixIs, FilledTo

\* When all is sampled and unpacked, the next function begins behind it.
LEMMA NextFunction ==
    ASSUME NEW k, NEW l, NEW r, NEW at, NEW rowb, NEW v, NEW then,
           Running(k, l, r, at, rowb, v, then),
           NEW M, MatrixIs(k, l, l*r + at, Len(v), Len(v), M)
    PROVE  /\ r + 1 < k => MatrixIs(k, l, l*(r + 1) + then, 0, 0, M)
           /\ r + 1 = k => MatrixIs(k, l, l*k, 0, 0, M)
<1>1. /\ k \in Nat /\ l \in {4, 5, 7} /\ r \in 0..k-1 /\ at \in 0..l-1
      /\ Len(v) \in {4, 8} /\ l <= at + Len(v) /\ then \in 0..l-1
      /\ (r + 1 < k => at + Len(v) = l + then)
  BY DEF Running, RowFits
<1>2. l*(r + 1) = l*r + l /\ l*r \in Nat
  BY <1>1
<1>3. DOMAIN M = (0..k) \X (0..l-1)
  BY DEF MatrixIs
<1>4. ASSUME NEW i \in 0..k-1, NEW j \in 0..l-1
      PROVE  M[<<i, j>>] = EntryOf(l, l*r + at, Len(v), Len(v), i, j)
  BY DEF MatrixIs, FilledTo
<1>5. ASSUME r + 1 < k, NEW i \in 0..k-1, NEW j \in 0..l-1
      PROVE  M[<<i, j>>] = EntryOf(l, l*(r + 1) + then, 0, 0, i, j)
  <2>1. l*r + at + Len(v) = l*(r + 1) + then /\ l*(r + 1) + then + 0 = l*(r + 1) + then
    BY <1>1, <1>2, <1>5
  <2> QED BY <1>4, <2>1 DEF EntryOf
<1>6. ASSUME r + 1 = k, NEW i \in 0..k-1, NEW j \in 0..l-1
      PROVE  M[<<i, j>>] = EntryOf(l, l*k, 0, 0, i, j)
  <2>1. l*i + j < l*k
    <3>1. CASE l = 4
      BY <1>1, <3>1
    <3>2. CASE l = 5
      BY <1>1, <3>2
    <3>3. CASE l = 7
      BY <1>1, <3>3
    <3> QED BY <1>1, <3>1, <3>2, <3>3
  <2>2. PICK x, a : x = l*i + j /\ a = l*r
    OBVIOUS
  <2>3. x \in Nat /\ a \in Nat /\ l*k = a + l
    BY <1>1, <1>2, <1>6, <2>2
  <2>4. x < a + at + Len(v) /\ x < l*k + 0
    BY <1>1, <2>1, <2>2, <2>3
  <2> QED BY <1>4, <2>2, <2>4 DEF EntryOf
<1> QED BY <1>3, <1>5, <1>6 DEF MatrixIs, FilledTo

RunningNow(k, l, at, rowb, v, then) ==
    /\ Prog.at = at /\ Prog.rowb = rowb /\ Prog.nonces = v
    /\ Running(k, l, row, at, rowb, v, then)

LEMMA GoesTo ==
    ASSUME NEW n
    PROVE  Dest(n) = Destination(K, L, row, Prog.at, Prog.rowb, n)
  BY DEF Dest, RowB, Destination

LEMMA SampledByCall ==
    Uniform4x => mat' = SampledMatrix(K, L, row, Prog.at, Prog.rowb, Prog.nonces, done, mat)
  BY DEF Uniform4x, SampledMatrix, Dest, RowB, Destination

LEMMA TheRunningRow ==
    ASSUME NEW k, NEW l, NEW T, Sizes3(shape, k, l, T), row \in 0..k-1
    PROVE  \E at, rowb, v, then :
              /\ RunningNow(k, l, at, rowb, v, then)
              /\ row + 1 < k => T[row + 2].at = then
<1>1. k \in Nat \ {0} /\ l \in {4, 5, 7} /\ T = Table(shape) /\ TableFits(k, l, T)
  BY DEF Sizes3
<1>2. PICK then \in 0..l-1 :
          /\ RowFits(k, l, row, T[row + 1].at, T[row + 1].rowb, T[row + 1].nonces, then)
          /\ row + 1 < k => T[row + 2].at = then
  BY <1>1 DEF TableFits
<1>3. RunningNow(k, l, Prog.at, Prog.rowb, Prog.nonces, then)
  BY <1>1, <1>2 DEF RunningNow, Running, Prog
<1> QED BY <1>2, <1>3

LEMMA MatrixStarts == MInit => MatrixInv
<1> SUFFICES ASSUME MInit PROVE MatrixInv
  OBVIOUS
<1>1. shape \in Shapes /\ row = 0 /\ done = 0 /\ unp = 0
      /\ mat = [e \in (0..K) \X (0..L-1) |-> Unsampled]
  BY DEF MInit
<1>2. PICK k, l, T : Sizes3(shape, k, l, T)
  BY <1>1, EveryTableFits
<1>3. k = K /\ l = L /\ T = Table(shape) /\ k \in Nat \ {0} /\ l \in {4, 5, 7} /\ T[1].at = 0
  BY <1>2 DEF Sizes3, K, L, TableFits
<1>4. Counts(k, l, 0, 0, 0, Len(Prog.nonces))
  <2>1. PICK at, rowb, v, then : RunningNow(k, l, at, rowb, v, then)
    BY <1>1, <1>2, <1>3, TheRunningRow
  <2>2. Len(Prog.nonces) \in {4, 8}
    BY <2>1 DEF RunningNow, Running, RowFits
  <2> QED BY <1>3, <2>2 DEF Counts
<1>5. From = l*0 + 0
  BY <1>1, <1>3 DEF From, Prog
<1>6. ASSUME NEW i \in 0..k-1, NEW j \in 0..l-1
      PROVE  mat[<<i, j>>] = EntryOf(l, l*0 + 0, 0, 0, i, j)
  <2>1. l*i + j \in Nat /\ l*0 + 0 = 0
    BY <1>3
  <2>2. <<i, j>> \in (0..K) \X (0..L-1)
    BY <1>3
  <2>3. mat[<<i, j>>] = Unsampled
    BY <1>1, <2>2
  <2> QED BY <2>1, <2>3 DEF EntryOf
<1> QED BY <1>1, <1>3, <1>4, <1>5, <1>6 DEF MatrixInv, FilledTo

\* The invariant while a row function runs, with its sizes named.
RunsAt(k, l, at, rowb, v, then, r, d, u, M) ==
    /\ Running(k, l, r, at, rowb, v, then)
    /\ Counts(k, l, r, d, u, Len(v))
    /\ MatrixIs(k, l, l*r + at, d, u, M)

LEMMA NamedWhileRunning ==
    ASSUME MatrixInv, row < K
    PROVE  \E k, l, T, at, rowb, v, then :
              /\ Sizes3(shape, k, l, T)
              /\ RunningNow(k, l, at, rowb, v, then)
              /\ row + 1 < k => T[row + 2].at = then
              /\ RunsAt(k, l, at, rowb, v, then, row, done, unp, mat)
<1>1. /\ shape \in Shapes
      /\ Counts(K, L, row, done, unp, Len(Prog.nonces))
      /\ DOMAIN mat = (0..K) \X (0..L-1)
      /\ FilledTo(K, L, From, done, unp, mat)
  BY DEF MatrixInv
<1>2. PICK k, l, T : Sizes3(shape, k, l, T)
  BY <1>1, EveryTableFits
<1>3. k = K /\ l = L /\ k \in Nat \ {0}
  BY <1>2 DEF Sizes3, K, L
<1>4. row \in 0..k-1
  BY <1>1, <1>3 DEF Counts
<1>5. PICK at, rowb, v, then :
              /\ RunningNow(k, l, at, rowb, v, then)
              /\ row + 1 < k => T[row + 2].at = then
  BY <1>2, <1>4, TheRunningRow
<1>6. Prog.at = at /\ Prog.nonces = v /\ Running(k, l, row, at, rowb, v, then)
  BY <1>5 DEF RunningNow
<1>7. From = l*row + at
  BY <1>3, <1>6 DEF From
<1>8. RunsAt(k, l, at, rowb, v, then, row, done, unp, mat)
  BY <1>1, <1>3, <1>6, <1>7 DEF RunsAt, MatrixIs
<1> QED BY <1>2, <1>5, <1>8

\* The same backwards, for the state behind a step of the same function.
LEMMA StillRunning ==
    ASSUME NEW s, NEW k, NEW l, NEW T, s \in Shapes, Sizes3(s, k, l, T),
           NEW at, NEW rowb, NEW v, NEW then, NEW r, NEW d, NEW u, NEW M,
           RunsAt(k, l, at, rowb, v, then, r, d, u, M),
           T[r + 1].at = at, T[r + 1].nonces = v,
           shape' = s, row' = r, done' = d, unp' = u, mat' = M
    PROVE  MatrixInv'
<1>1. k = K' /\ l = L' /\ T = Table(shape')
  BY DEF Sizes3, K, L
<1>2. Prog'.at = at /\ Prog'.nonces = v
  BY <1>1 DEF Prog
<1>3. r < k
  BY DEF RunsAt, Running
<1>4. From' = l*r + at
  BY <1>1, <1>2, <1>3 DEF From
<1>5. /\ Counts(K', L', row', done', unp', Len(Prog'.nonces))
      /\ DOMAIN mat' = (0..K') \X (0..L'-1)
      /\ FilledTo(K', L', From', done', unp', mat')
  BY <1>1, <1>2, <1>4 DEF RunsAt, MatrixIs
<1>6. shape' \in Shapes
  OBVIOUS
<1> QED BY <1>5, <1>6 DEF MatrixInv

LEMMA MatrixSteps == MatrixInv /\ [MNext]_mvars => MatrixInv'
<1> SUFFICES ASSUME MatrixInv, [MNext]_mvars PROVE MatrixInv'
  OBVIOUS
<1>1. shape \in Shapes /\ Counts(K, L, row, done, unp, Len(Prog.nonces))
  BY DEF MatrixInv
<1>2. ASSUME row < K, NEW k, NEW l, NEW T, NEW at, NEW rowb, NEW v, NEW then,
             Sizes3(shape, k, l, T), RunningNow(k, l, at, rowb, v, then)
      PROVE  /\ k = K /\ l = L /\ Prog.at = at /\ Prog.rowb = rowb /\ Prog.nonces = v
             /\ T[row + 1].at = at /\ T[row + 1].nonces = v
  BY <1>2 DEF Sizes3, RunningNow, Prog, K, L
<1>3. CASE Uniform4x
  <2>1. /\ row < K /\ done < Len(Prog.nonces) /\ done' = done + 4
        /\ shape' = shape /\ row' = row /\ unp' = unp
    BY <1>3 DEF Uniform4x
  <2>2. mat' = SampledMatrix(K, L, row, Prog.at, Prog.rowb, Prog.nonces, done, mat)
    BY <1>3, SampledByCall
  <2>3. PICK k, l, T, at, rowb, v, then :
              /\ Sizes3(shape, k, l, T)
              /\ RunningNow(k, l, at, rowb, v, then)
              /\ RunsAt(k, l, at, rowb, v, then, row, done, unp, mat)
    BY <2>1, NamedWhileRunning
  <2>4. /\ k = K /\ l = L /\ Prog.at = at /\ Prog.rowb = rowb /\ Prog.nonces = v
        /\ T[row + 1].at = at /\ T[row + 1].nonces = v
    BY <1>2, <2>1, <2>3
  <2>5. /\ Running(k, l, row, at, rowb, v, then) /\ Counts(k, l, row, done, unp, Len(v))
        /\ MatrixIs(k, l, l*row + at, done, unp, mat)
    BY <2>3 DEF RunsAt
  <2>6. k \in Nat \ {0} /\ row \in 0..k-1 /\ Len(v) \in {4, 8}
    BY <2>5 DEF Running, RowFits
  <2>7. done \in {0, 4, 8} /\ done < Len(v) /\ unp = 0
    BY <2>1, <2>4, <2>5, <2>6 DEF Counts
  <2>8. MatrixIs(k, l, l*row + at, done + 4, 0,
                 SampledMatrix(k, l, row, at, rowb, v, done, mat))
    BY <2>5, <2>7, Uniform4xFills
  <2>9. Counts(k, l, row, done + 4, 0, Len(v))
    <3>1. done + 4 \in {4, 8} /\ done + 4 <= Len(v)
      BY <2>6, <2>7, FourMore
    <3>2. row \in 0..k /\ row < k
      BY <2>6
    <3> QED BY <3>1, <3>2 DEF Counts
  <2>10. RunsAt(k, l, at, rowb, v, then, row, done + 4, 0, mat')
    BY <2>2, <2>4, <2>5, <2>8, <2>9 DEF RunsAt
  <2> QED BY <1>1, <2>1, <2>3, <2>4, <2>7, <2>10, StillRunning
<1>4. CASE NttUnpack
  <2>1. /\ row < K /\ done = Len(Prog.nonces) /\ unp < done /\ unp' = unp + 1
        /\ shape' = shape /\ row' = row /\ done' = done
    BY <1>4 DEF NttUnpack
  <2>2. mat' = UnpackedMatrix(K, L, row, Prog.at, Prog.rowb, unp, mat)
    <3>1. Dest(unp) = Destination(K, L, row, Prog.at, Prog.rowb, unp)
      BY GoesTo
    <3> QED BY <1>4, <3>1 DEF NttUnpack, UnpackedMatrix, Unpacked
  <2>3. PICK k, l, T, at, rowb, v, then :
              /\ Sizes3(shape, k, l, T)
              /\ RunningNow(k, l, at, rowb, v, then)
              /\ RunsAt(k, l, at, rowb, v, then, row, done, unp, mat)
    BY <2>1, NamedWhileRunning
  <2>4. /\ k = K /\ l = L /\ Prog.at = at /\ Prog.rowb = rowb /\ Prog.nonces = v
        /\ T[row + 1].at = at /\ T[row + 1].nonces = v
    BY <1>2, <2>1, <2>3
  <2>5. /\ Running(k, l, row, at, rowb, v, then) /\ Counts(k, l, row, done, unp, Len(v))
        /\ MatrixIs(k, l, l*row + at, done, unp, mat)
    BY <2>3 DEF RunsAt
  <2>6. k \in Nat \ {0} /\ row \in 0..k-1 /\ Len(v) \in {4, 8} /\ done = Len(v)
    BY <2>1, <2>4, <2>5 DEF Running, RowFits
  <2>7. unp \in 0..Len(v)-1
    BY <2>1, <2>5, <2>6 DEF Counts
  <2>8. MatrixIs(k, l, l*row + at, done, unp + 1,
                 UnpackedMatrix(k, l, row, at, rowb, unp, mat))
    BY <2>5, <2>6, <2>7, NttUnpackReady
  <2>9. Counts(k, l, row, done, unp + 1, Len(v))
    BY <2>5, <2>6, <2>7 DEF Counts
  <2>10. RunsAt(k, l, at, rowb, v, then, row, done, unp + 1, mat')
    BY <2>2, <2>4, <2>5, <2>8, <2>9 DEF RunsAt
  <2> QED BY <1>1, <2>1, <2>3, <2>4, <2>10, StillRunning
<1>5. CASE RowReturn
  <2>1. /\ row < K /\ done = Len(Prog.nonces) /\ unp = done
        /\ shape' = shape /\ row' = row + 1 /\ done' = 0 /\ unp' = 0 /\ mat' = mat
    BY <1>5 DEF RowReturn
  <2>3. PICK k, l, T, at, rowb, v, then :
              /\ Sizes3(shape, k, l, T)
              /\ RunningNow(k, l, at, rowb, v, then)
              /\ row + 1 < k => T[row + 2].at = then
              /\ RunsAt(k, l, at, rowb, v, then, row, done, unp, mat)
    BY <2>1, NamedWhileRunning
  <2>4. k = K /\ l = L /\ Prog.nonces = v
    BY <1>2, <2>1, <2>3
  <2>5. /\ Running(k, l, row, at, rowb, v, then)
        /\ MatrixIs(k, l, l*row + at, done, unp, mat)
    BY <2>3 DEF RunsAt
  <2>6. k \in Nat \ {0} /\ row \in 0..k-1 /\ done = Len(v) /\ unp = Len(v)
    BY <2>1, <2>4, <2>5 DEF Running
  <2>7. /\ row + 1 < k => MatrixIs(k, l, l*(row + 1) + then, 0, 0, mat)
        /\ row + 1 = k => MatrixIs(k, l, l*k, 0, 0, mat)
    BY <2>5, <2>6, NextFunction
  <2>8. K' = k /\ L' = l
    BY <2>1, <2>4 DEF K, L
  <2>9. CASE row + 1 < k
    <3>1. Sizes3(shape', k, l, T)
      BY <2>1, <2>3
    <3>2. row' \in 0..k-1
      BY <2>1, <2>6, <2>9
    <3>3. Prog'.at = then /\ T = Table(shape')
      <4>1. T = Table(shape')
        BY <3>1 DEF Sizes3
      <4>2. row' + 1 = row + 2
        BY <2>1, <2>6
      <4> QED BY <2>3, <2>9, <4>1, <4>2 DEF Prog
    <3>4. From' = l*(row + 1) + then
      BY <2>1, <2>8, <2>9, <3>3 DEF From
    <3>5. Len(Prog'.nonces) \in {4, 8}
      <4>1. PICK y \in 0..l-1 : RowFits(k, l, row', T[row' + 1].at, T[row' + 1].rowb,
                                        T[row' + 1].nonces, y)
        BY <3>1, <3>2 DEF Sizes3, TableFits
      <4> QED BY <3>3, <4>1 DEF RowFits, Prog
    <3>6. Counts(K', L', row', done', unp', Len(Prog'.nonces))
      BY <2>1, <2>6, <2>8, <3>2, <3>5 DEF Counts
    <3> QED BY <1>1, <2>1, <2>7, <2>8, <2>9, <3>4, <3>6 DEF MatrixInv, MatrixIs
  <2>10. CASE ~(row + 1 < k)
    <3>1. row' = k /\ row + 1 = k
      BY <2>1, <2>6, <2>10
    <3>2. From' = l*k
      BY <2>6, <2>8, <3>1 DEF From
    <3>3. Counts(K', L', row', done', unp', Len(Prog'.nonces))
      BY <2>1, <2>6, <2>8, <3>1 DEF Counts
    <3> QED BY <1>1, <2>1, <2>7, <2>8, <3>1, <3>2, <3>3 DEF MatrixInv, MatrixIs
  <2> QED BY <2>9, <2>10
<1>6. CASE UNCHANGED mvars
  <2>1. shape' = shape /\ row' = row /\ done' = done /\ unp' = unp /\ mat' = mat
    BY <1>6 DEF mvars
  <2> QED BY <2>1 DEF MatrixInv, From, Prog, K, L
<1> QED BY <1>3, <1>4, <1>5, <1>6 DEF MNext

\* The entries of the rows that returned are before the place reached.
LEMMA MatrixInvReady == MatrixInv => RowsReady
<1> SUFFICES ASSUME MatrixInv PROVE RowsReady
  OBVIOUS
<1>1. /\ shape \in Shapes
      /\ Counts(K, L, row, done, unp, Len(Prog.nonces))
      /\ DOMAIN mat = (0..K) \X (0..L-1)
      /\ FilledTo(K, L, From, done, unp, mat)
  BY DEF MatrixInv
<1>2. PICK k, l, T : Sizes3(shape, k, l, T)
  BY <1>1, EveryTableFits
<1>3. k = K /\ l = L /\ k \in Nat \ {0} /\ l \in {4, 5, 7}
  BY <1>2 DEF Sizes3, K, L
<1>4. row \in 0..k /\ done \in {0, 4, 8} /\ unp \in 0..done
  BY <1>1, <1>3 DEF Counts
<1>5. ASSUME row < K
      PROVE  /\ From \in Int /\ From >= l*row
             /\ \A n \in 0..Len(Prog.nonces)-1 : Dest(n) \in DOMAIN mat
  <2>1. PICK at, rowb, v, then : RunningNow(k, l, at, rowb, v, then)
    BY <1>2, <1>3, <1>4, <1>5, TheRunningRow
  <2>2. /\ Prog.at = at /\ Prog.rowb = rowb /\ Prog.nonces = v
        /\ row \in 0..k-1 /\ RowFits(k, l, row, at, rowb, v, then)
    BY <2>1 DEF RunningNow, Running
  <2>3. From \in Int /\ From >= l*row
    <3>1. at \in Nat /\ l*row \in Nat
      BY <1>3, <1>4, <2>2 DEF RowFits
    <3>2. From = l*row + at
      BY <1>3, <1>5, <2>2 DEF From
    <3> QED BY <3>1, <3>2
  <2>4. ASSUME NEW n \in 0..Len(Prog.nonces)-1
        PROVE  Dest(n) \in DOMAIN mat
    <3>1. PICK p, q : IsAt(k, l, row, at, rowb, v, n, p, q)
      BY <1>3, <2>2, WhereItGoes
    <3>2. p \in 0..k /\ q \in 0..l-1 /\ Destination(k, l, row, at, rowb, n) = <<p, q>>
      BY <3>1 DEF IsAt
    <3>3. Dest(n) = Destination(K, L, row, Prog.at, Prog.rowb, n)
      BY GoesTo
    <3>4. Dest(n) = <<p, q>>
      BY <1>3, <2>2, <3>2, <3>3
    <3> QED BY <1>1, <1>3, <3>2, <3>4
  <2> QED BY <2>3, <2>4
<1>6. ASSUME NEW i \in 0..row-1, NEW j \in 0..L-1
      PROVE  Ready(<<i, j>>)
  <2>1. i \in 0..k-1 /\ j \in 0..l-1 /\ i + 1 <= row
    BY <1>3, <1>4
  <2>2. mat[<<i, j>>] = EntryOf(l, From, done, unp, i, j)
    BY <1>1, <1>3, <2>1 DEF FilledTo
  <2>3. l*i + j < l*row
    <3>1. CASE l = 4
      BY <1>4, <2>1, <3>1
    <3>2. CASE l = 5
      BY <1>4, <2>1, <3>2
    <3>3. CASE l = 7
      BY <1>4, <2>1, <3>3
    <3> QED BY <1>3, <3>1, <3>2, <3>3
  <2>4. From \in Int /\ l*row <= From
    <3>1. l*row \in Nat
      BY <1>3, <1>4
    <3>2. CASE row < K
      <4>1. From \in Int /\ From >= l*row
        BY <1>5, <3>2
      <4> QED BY <3>1, <4>1
    <3>3. CASE ~(row < K)
      <4>1. row = k
        BY <1>3, <1>4, <3>3
      <4> QED BY <1>3, <3>1, <3>3, <4>1 DEF From
    <3> QED BY <3>2, <3>3
  <2>5. l*i + j \in Nat /\ l*row \in Nat
    BY <1>3, <1>4, <2>1
  <2>6. l*i + j < From + unp
    <3>1. PICK x, y : x = l*i + j /\ y = l*row
      OBVIOUS
    <3>2. x \in Int /\ y \in Int /\ x < y /\ y <= From /\ From \in Int /\ unp \in Nat
      BY <1>4, <2>3, <2>4, <2>5, <3>1
    <3>3. x < From + unp
      BY ONLY <3>2
    <3> QED BY <3>1, <3>3
  <2>7. mat[<<i, j>>] = [nonce |-> 256*i + j, order |-> "ntt"]
    BY <2>2, <2>6 DEF EntryOf
  <2>8. RefNonce(<<i, j>>) = 256*i + j
    BY DEF RefNonce
  <2> QED BY <2>7, <2>8 DEF Ready
<1> QED BY <1>5, <1>6 DEF RowsReady

(***************************************************************************)
(* polyvec_matrix_expand: when a row function has returned, every entry of *)
(* its row and of the rows above was sampled with the nonce of ref/ and    *)
(* put into the order of the NTT exactly once, also the entries an earlier *)
(* row function began, and no row function writes through a null pointer:  *)
(* for each of the three parameter sets.                                   *)
(***************************************************************************)
THEOREM RowsAreReady == MSpec => []RowsReady
<1>1. MInit => MatrixInv
  BY MatrixStarts
<1>2. MatrixInv /\ [MNext]_mvars => MatrixInv'
  BY MatrixSteps
<1>3. MatrixInv => RowsReady
  BY MatrixInvReady
<1> QED BY <1>1, <1>2, <1>3, PTL DEF MSpec
=============================================================================
