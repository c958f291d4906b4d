------------------------- MODULE Coefficients_proofs -------------------------
(***************************************************************************)
(* Theorems about coefficients, their transforms and where they are        *)
(* packed, for every value of the constants.                               *)
(***************************************************************************)
EXTENDS Rounding, KeyLayout, CoefficientRanges, BitPacking, Ntt,
        SequenceTheorems, WellFoundedInduction, TLAPS

(***************************************************************************)
(* What Rounding says, for every coefficient: a behaviour looks at the     *)
(* inputs one after the other, so that it is enough to prove each fact for *)
(* an arbitrary a in 0..Q-1.                                               *)
(***************************************************************************)

LEMMA Numbers == Gamma88 = 95232 /\ Gamma32 = 261888 /\ Q = 8380417
BY SMT DEF Gamma88, Gamma32, Q

\* The quotient by 128 of a coefficient and 127.
LEMMA Div128 ==
    ASSUME NEW x \in Int, 0 <= x, x <= 8380416
    PROVE  /\ (x + 127) \div 128 \in Int
           /\ 128*((x + 127) \div 128) <= x + 127
           /\ x < 128*((x + 127) \div 128) + 1
BY SMT

LEMMA Div22 ==
    ASSUME NEW y \in Int, 0 <= y
    PROVE  /\ y \div 4194304 \in Int
           /\ 4194304*(y \div 4194304) <= y
           /\ y < 4194304*(y \div 4194304) + 4194304
BY SMT

LEMMA Div24 ==
    ASSUME NEW y \in Int, 0 <= y
    PROVE  /\ y \div 16777216 \in Int
           /\ 16777216*(y \div 16777216) <= y
           /\ y < 16777216*(y \div 16777216) + 16777216
BY SMT

\* The high bits of a for GAMMA2 = (Q-1)/32.
LEMMA High32 ==
    ASSUME NEW x \in Int, 0 <= x, x <= 8380416
    PROVE  /\ HighBits(Gamma32, x) \in Int
           /\ 0 <= HighBits(Gamma32, x) /\ HighBits(Gamma32, x) <= 15
           /\ \/ /\ -261888 < x - HighBits(Gamma32, x)*523776
                 /\ x - HighBits(Gamma32, x)*523776 <= 261888
              \/ HighBits(Gamma32, x) = 0 /\ x > 8380416 - 261888
<1> DEFINE w == (x + 127) \div 128
           v == (w*1025 + 2097152) \div 4194304
<1>1. w \in Int /\ 128*w <= x + 127 /\ x < 128*w + 1
  BY Div128, SMT
<1>h. HighBits(Gamma32, x) = v % 16
  BY SMT DEF HighBits
<1> HIDE DEF w
<1>2. v \in Int /\ 4194304*v <= w*1025 + 2097152 /\ w*1025 + 2097152 < 4194304*v + 4194304
  <2>1. w*1025 + 2097152 \in Int /\ 0 <= w*1025 + 2097152
    BY SMT, <1>1
  <2> QED BY <2>1, Div22, SMT
<1> HIDE DEF v
<1>3. 0 <= v /\ v <= 16
  BY SMT, <1>1, <1>2
<1>4. CASE v = 16
  <2>1. v % 16 = 0 BY SMT, <1>4
  <2>2. x > 8380416 - 261888 BY SMT, <1>1, <1>2, <1>4
  <2> QED BY SMT, <1>h, <2>1, <2>2
<1>5. CASE v # 16
  <2>1. v % 16 = v
    BY SMT, <1>2, <1>3, <1>5
  <2>2. -261888 < x - v*523776 /\ x - v*523776 <= 261888
    <3>1. v \in 0..15 BY SMT, <1>2, <1>3, <1>5
    <3> QED BY SMT, <1>1, <1>2, <3>1
  <2> QED BY SMT, <1>h, <1>2, <1>3, <1>5, <2>1, <2>2
<1> QED BY SMT, <1>4, <1>5

\* The high bits of a for GAMMA2 = (Q-1)/88.
LEMMA High88 ==
    ASSUME NEW x \in Int, 0 <= x, x <= 8380416
    PROVE  /\ HighBits(Gamma88, x) \in Int
           /\ 0 <= HighBits(Gamma88, x) /\ HighBits(Gamma88, x) <= 43
           /\ \/ /\ -95232 < x - HighBits(Gamma88, x)*190464
                 /\ x - HighBits(Gamma88, x)*190464 <= 95232
              \/ HighBits(Gamma88, x) = 0 /\ x > 8380416 - 95232
<1> DEFINE w == (x + 127) \div 128
           v == (w*11275 + 8388608) \div 16777216
<1>1. w \in Int /\ 128*w <= x + 127 /\ x < 128*w + 1
  BY Div128, SMT
<1>h. HighBits(Gamma88, x) = IF v > 43 THEN 0 ELSE v
  BY Numbers, SMT DEF HighBits
<1> HIDE DEF w
<1>2. v \in Int /\ 16777216*v <= w*11275 + 8388608 /\ w*11275 + 8388608 < 16777216*v + 16777216
  <2>1. w*11275 + 8388608 \in Int /\ 0 <= w*11275 + 8388608
    BY SMT, <1>1
  <2> QED BY <2>1, Div24, SMT
<1> HIDE DEF v
<1>3. 0 <= v /\ v <= 44
  BY SMT, <1>1, <1>2
<1>4. CASE v = 44
  <2>2. x > 8380416 - 95232 BY SMT, <1>1, <1>2, <1>4
  <2> QED BY SMT, <1>h, <1>4, <2>2
<1>5. CASE v # 44
  <2>1. v \in 0..43
    BY SMT, <1>2, <1>3, <1>5
  <2>2. -95232 < x - v*190464 /\ x - v*190464 <= 95232
    BY SMT, <1>1, <1>2, <2>1
  <2> QED BY SMT, <1>h, <2>1, <2>2
<1> QED BY SMT, <1>4, <1>5

\* What decompose returns for a coefficient, for both values of GAMMA2.
Decomposed(gam, x) ==
    /\ HighBits(gam, x) \in Int /\ LowBits(gam, x) \in Int
    /\ 0 <= HighBits(gam, x) /\ HighBits(gam, x) < (Q - 1) \div (2*gam)
    /\ \/ x = HighBits(gam, x)*2*gam + LowBits(gam, x) /\ -gam < LowBits(gam, x) /\ LowBits(gam, x) <= gam
       \/ HighBits(gam, x) = 0 /\ LowBits(gam, x) = x - Q /\ -gam <= LowBits(gam, x) /\ LowBits(gam, x) < 0

LEMMA Splits ==
    ASSUME NEW gam \in {Gamma88, Gamma32}, NEW x \in Int, 0 <= x, x < Q
    PROVE  Decomposed(gam, x)
<1>n. Gamma88 = 95232 /\ Gamma32 = 261888 /\ Q = 8380417
  BY Numbers, SMT
<1>q. (Q - 1) \div 2 = 4190208
  BY <1>n, SMT
<1>x. x \in Int /\ 0 <= x /\ x <= 8380416
  BY <1>n, SMT
<1>1. CASE gam = Gamma32
  <2> DEFINE h == HighBits(Gamma32, x)
  <2>1. /\ h \in Int /\ 0 <= h /\ h <= 15
        /\ \/ -261888 < x - h*523776 /\ x - h*523776 <= 261888
           \/ h = 0 /\ x > 8380416 - 261888
    BY <1>x, High32, SMT
  <2>2. LowBits(Gamma32, x) = Centred(x - h*2*261888)
    BY <1>n, SMT DEF LowBits
  <2>3. (Q - 1) \div (2*Gamma32) = 16
    BY <1>n, SMT
  <2> HIDE DEF h
  <2>5. h*2*261888 = h*523776
    BY <2>1, SMT
  <2>4. \/ /\ LowBits(Gamma32, x) = x - h*523776
           /\ -261888 < x - h*523776 /\ x - h*523776 <= 261888
        \/ /\ LowBits(Gamma32, x) = x - Q /\ h = 0 
           /\ x > 8380416 - 261888
    BY <1>n, <1>q, <1>x, <2>1, <2>2, <2>5, SMT DEF Centred
  <2>6. gam = 261888
    BY <1>1, <1>n, SMT
  <2>7. h = HighBits(gam, x) /\ LowBits(gam, x) = LowBits(Gamma32, x) /\ (Q - 1) \div (2*gam) = 16
    BY <1>1, <2>3, SMT DEF h
  <2> QED BY <1>n, <1>x, <2>1, <2>4, <2>5, <2>6, <2>7, SMT DEF Decomposed
<1>2. CASE gam = Gamma88
  <2> DEFINE h == HighBits(Gamma88, x)
  <2>1. /\ h \in Int /\ 0 <= h /\ h <= 43
        /\ \/ -95232 < x - h*190464 /\ x - h*190464 <= 95232
           \/ h = 0 /\ x > 8380416 - 95232
    BY <1>x, High88, SMT
  <2>2. LowBits(Gamma88, x) = Centred(x - h*2*95232)
    BY <1>n, SMT DEF LowBits
  <2>3. (Q - 1) \div (2*Gamma88) = 44
    BY <1>n, SMT
  <2> HIDE DEF h
  <2>5. h*2*95232 = h*190464
    BY <2>1, SMT
  <2>4. \/ /\ LowBits(Gamma88, x) = x - h*190464
           /\ -95232 < x - h*190464 /\ x - h*190464 <= 95232
        \/ /\ LowBits(Gamma88, x) = x - Q /\ h = 0
           /\ x > 8380416 - 95232
    BY <1>n, <1>q, <1>x, <2>1, <2>2, <2>5, SMT DEF Centred
  <2>6. gam = 95232
    BY <1>2, <1>n, SMT
  <2>7. h = HighBits(gam, x) /\ LowBits(gam, x) = LowBits(Gamma88, x) /\ (Q - 1) \div (2*gam) = 44
    BY <1>2, <2>3, SMT DEF h
  <2> QED BY <1>n, <1>x, <2>1, <2>4, <2>5, <2>6, <2>7, SMT DEF Decomposed
<1> QED BY <1>1, <1>2, SMT

\* A behaviour keeps its GAMMA2 and a place in the list of inputs.
RInv == g \in {Gamma88, Gamma32} /\ u \in Nat

LEMMA RInvHolds == RSpec => []RInv
<1>1. RInit => RInv
  BY SMT DEF RInit, RInv
<1>2. RInv /\ [RNext]_rvars => RInv'
  <2> SUFFICES ASSUME RInv, [RNext]_rvars PROVE RInv'
    OBVIOUS
  <2>1. CASE RNext
    BY <2>1, RoundingAssumption, SMT DEF RNext, RInv, Gamma88, Gamma32, Q
  <2>2. CASE UNCHANGED rvars
    BY <2>2, SMT DEF RInv, rvars, Gamma88, Gamma32, Q
  <2> QED BY <2>1, <2>2
<1> QED BY <1>1, <1>2, PTL DEF RSpec

\* Only coefficients are looked at.
LEMMA InputsAreCoefficients ==
    ASSUME RInv
    PROVE  \A x \in Inputs : x \in Int /\ 0 <= x /\ x < Q
<1> SUFFICES ASSUME NEW x \in Inputs PROVE x \in Int /\ 0 <= x /\ x < Q
  OBVIOUS
<1>1. PICK k \in 0..Step-1, c \in Corners : x = 128*(u + k) - c
  BY SMT DEF Inputs
<1>2. u \in Nat /\ c \in 0..127 /\ k \in Int
  BY RoundingAssumption DEF RInv
<1>3. x \in Int
  BY <1>1, <1>2, SMT
<1>4. 0 <= x /\ x < Q
  BY SMT DEF Inputs
<1> QED BY <1>3, <1>4

\* decompose (ref/rounding.c:39-54) writes every coefficient as its comment
\* says, for both values of GAMMA2 and at the wrap of the last run.
THEOREM DecomposeIsCorrect == RSpec => []DecomposeOk
<1>1. RInv => DecomposeOk
  <2> SUFFICES ASSUME RInv, NEW a \in Inputs
               PROVE  /\ 0 <= HighBits(g, a) /\ HighBits(g, a) < (Q - 1) \div (2*g)
                      /\ \/ /\ a = HighBits(g, a)*2*g + LowBits(g, a)
                            /\ -g < LowBits(g, a) /\ LowBits(g, a) <= g
                         \/ /\ HighBits(g, a) = 0 /\ LowBits(g, a) = a - Q
                            /\ -g <= LowBits(g, a) /\ LowBits(g, a) < 0
    BY Zenon DEF DecomposeOk
  <2>1. a \in Int /\ 0 <= a /\ a < Q
    BY InputsAreCoefficients
  <2>2. Decomposed(g, a)
    BY <2>1, Splits DEF RInv
  <2> QED BY <2>2, Zenon DEF Decomposed
<1> QED BY <1>1, RInvHolds, PTL

-----------------------------------------------------------------------------
(* The vector code rounds twice, once in each product of 16 bits: the      *)
(* first rounds down by less than the second one's unit.                   *)

LEMMA Div16 ==
    ASSUME NEW y \in Int, 0 <= y
    PROVE  /\ y \div 65536 \in Int
           /\ 65536*(y \div 65536) <= y
           /\ y < 65536*(y \div 65536) + 65536
           /\ 0 <= y \div 65536
BY SMT

LEMMA Div15 ==
    ASSUME NEW y \in Int, 0 <= y
    PROVE  /\ y \div 32768 \in Int
           /\ 32768*(y \div 32768) <= y
           /\ y < 32768*(y \div 32768) + 32768
BY SMT

LEMMA TwoRoundings22 ==
    ASSUME NEW y \in Int, 0 <= y
    PROVE  MulHrs(y \div 65536, 512) = (y + 2097152) \div 4194304
<1> DEFINE p == y \div 65536
           q == (p*512 + 16384) \div 32768
           res == (y + 2097152) \div 4194304
<1>1. p \in Int /\ 65536*p <= y /\ y < 65536*p + 65536 /\ 0 <= p
  BY Div16, SMT
<1>2. res \in Int /\ 4194304*res <= y + 2097152 /\ y + 2097152 < 4194304*res + 4194304
  <2>1. y + 2097152 \in Int /\ 0 <= y + 2097152
    BY SMT
  <2> QED BY <2>1, Div22, SMT
<1>e. MulHrs(y \div 65536, 512) = q
  BY SMT DEF MulHrs
<1> HIDE DEF p
<1>3. q \in Int /\ 32768*q <= p*512 + 16384 /\ p*512 + 16384 < 32768*q + 32768
  <2>1. p*512 + 16384 \in Int /\ 0 <= p*512 + 16384
    BY <1>1, SMT
  <2> QED BY <2>1, Div15, SMT
<1> HIDE DEF q, res
<1>4. 4194304*q <= y + 2097152
  BY <1>1, <1>3, SMT
<1>5. y + 2097152 < 4194304*q + 4194304
  BY <1>1, <1>3, SMT
<1>6. q = res
  BY <1>2, <1>3, <1>4, <1>5, SMT
<1> QED BY <1>e, <1>6, SMT DEF res

LEMMA TwoRoundings24 ==
    ASSUME NEW y \in Int, 0 <= y
    PROVE  MulHrs(y \div 65536, 128) = (y + 8388608) \div 16777216
<1> DEFINE p == y \div 65536
           q == (p*128 + 16384) \div 32768
           res == (y + 8388608) \div 16777216
<1>1. p \in Int /\ 65536*p <= y /\ y < 65536*p + 65536 /\ 0 <= p
  BY Div16, SMT
<1>2. res \in Int /\ 16777216*res <= y + 8388608 /\ y + 8388608 < 16777216*res + 16777216
  <2>1. y + 8388608 \in Int /\ 0 <= y + 8388608
    BY SMT
  <2> QED BY <2>1, Div24, SMT
<1>e. MulHrs(y \div 65536, 128) = q
  BY SMT DEF MulHrs
<1> HIDE DEF p
<1>3. q \in Int /\ 32768*q <= p*128 + 16384 /\ p*128 + 16384 < 32768*q + 32768
  <2>1. p*128 + 16384 \in Int /\ 0 <= p*128 + 16384
    BY <1>1, SMT
  <2> QED BY <2>1, Div15, SMT
<1> HIDE DEF q, res
<1>4. 16777216*q <= y + 8388608
  BY <1>1, <1>3, SMT
<1>5. y + 8388608 < 16777216*q + 16777216
  BY <1>1, <1>3, SMT
<1>6. q = res
  BY <1>2, <1>3, <1>4, <1>5, SMT
<1> QED BY <1>e, <1>6, SMT DEF res

LEMMA SameHighBits ==
    ASSUME NEW gam \in {Gamma88, Gamma32}, NEW x \in Int, 0 <= x, x < Q
    PROVE  HighAvx(gam, x) = HighBits(gam, x)
<1> DEFINE w == (x + 127) \div 128
<1>n. Gamma88 # Gamma32 /\ x <= 8380416
  BY Numbers, SMT
<1>w. w \in Int /\ 0 <= w*1025 /\ 0 <= w*11275 /\ w*1025 \in Int /\ w*11275 \in Int
  BY <1>n, Div128, SMT
<1>1. CASE gam = Gamma32
  <2> DEFINE v == (w*1025 + 2097152) \div 4194304
  <2>1. MulHrs(MulHi(w, 1025), 512) = v
    <3> HIDE DEF w
    <3>1. MulHi(w, 1025) = (w*1025) \div 65536
      BY SMT DEF MulHi
    <3> QED BY <1>w, <3>1, TwoRoundings22, SMT
  <2>2. HighBits(gam, x) = v % 16
    BY <1>1, SMT DEF HighBits
  <2>3. HighAvx(gam, x) = MulHrs(MulHi(w, 1025), 512) % 16
    BY <1>1, SMT DEF HighAvx
  <2> QED BY <2>1, <2>2, <2>3, SMT
<1>2. CASE gam = Gamma88
  <2> DEFINE v == (w*11275 + 8388608) \div 16777216
  <2>1. MulHrs(MulHi(w, 11275), 128) = v
    <3> HIDE DEF w
    <3>1. MulHi(w, 11275) = (w*11275) \div 65536
      BY SMT DEF MulHi
    <3> QED BY <1>w, <3>1, TwoRoundings24, SMT
  <2>2. HighBits(gam, x) = IF v > 43 THEN 0 ELSE v
    BY <1>2, <1>n, SMT DEF HighBits
  <2>3. HighAvx(gam, x) = IF 43 - v < 0 THEN 0 ELSE v
    <3> HIDE DEF v
    <3> QED BY <1>2, <1>n, <2>1, SMT DEF HighAvx
  <2>4. v \in Int
    <3>1. w*11275 + 8388608 \in Int /\ 0 <= w*11275 + 8388608
      BY <1>w, SMT
    <3> QED BY <3>1, Div24, SMT
  <2> HIDE DEF v
  <2> QED BY <2>2, <2>3, <2>4, SMT
<1> QED BY <1>1, <1>2, SMT

LEMMA SameLowBits ==
    ASSUME NEW gam \in {Gamma88, Gamma32}, NEW x \in Int, 0 <= x, x < Q
    PROVE  LowAvx(gam, x) = LowBits(gam, x)
<1>1. HighAvx(gam, x) = HighBits(gam, x)
  BY SameHighBits, SMT
<1>2. Q \div 2 = (Q - 1) \div 2
  BY Numbers, SMT
<1> QED BY <1>1, <1>2, SMT DEF LowAvx, LowBits, Centred

LEMMA SamePower2Round ==
    ASSUME NEW x \in Int, 0 <= x
    PROVE  Power2RoundAvx(x) = Power2Round(x)
<1> DEFINE y == x + 4095
<1>1. y - (y % 8192) = (y \div 8192)*8192
  BY SMT
<1> QED BY <1>1, SMT DEF Power2RoundAvx, Power2Round

LEMMA SameHints ==
    ASSUME NEW gam \in Int, NEW a0 \in Int, NEW a1 \in Int, 0 <= a1, 0 < gam
    PROVE  MakeHintAvx(gam, a0, a1) = MakeHint(gam, a0, a1)
<1>1. MakeHintAvx(gam, a0, a1) \in BOOLEAN /\ MakeHint(gam, a0, a1) \in BOOLEAN
  BY SMT DEF MakeHintAvx, MakeHint
<1>2. MakeHintAvx(gam, a0, a1) <=> MakeHint(gam, a0, a1)
  BY SMT DEF MakeHintAvx, MakeHint
<1> QED BY <1>1, <1>2, SMT

\* avx2/rounding.c gives what ref/rounding.c gives, for every coefficient: the
\* two roundings of its high bits lose nothing.
THEOREM VectorRoundingIsTheSame == RSpec => []AvxRounds
<1>1. RInv => AvxRounds
  <2> SUFFICES ASSUME RInv, NEW a \in Inputs
               PROVE  /\ Power2RoundAvx(a) = Power2Round(a)
                      /\ HighAvx(g, a) = HighBits(g, a) /\ LowAvx(g, a) = LowBits(g, a)
                      /\ \A z \in Changes :
                            MakeHintAvx(g, LowBits(g, a) + z, HighBits(g, a))
                              = MakeHint(g, LowBits(g, a) + z, HighBits(g, a))
    BY Zenon DEF AvxRounds
  <2>1. a \in Int /\ 0 <= a /\ a < Q
    BY InputsAreCoefficients
  <2>2. g \in {Gamma88, Gamma32}
    BY DEF RInv
  <2>3. g \in Int /\ 0 < g
    BY <2>2, Numbers, SMT
  <2>4. LowBits(g, a) \in Int /\ HighBits(g, a) \in Int /\ 0 <= HighBits(g, a)
    BY <2>1, <2>2, Splits DEF Decomposed
  <2>5. Power2RoundAvx(a) = Power2Round(a)
    BY <2>1, SamePower2Round
  <2>6. HighAvx(g, a) = HighBits(g, a) /\ LowAvx(g, a) = LowBits(g, a)
    BY <2>1, <2>2, SameHighBits, SameLowBits
  <2>7. ASSUME NEW z \in Changes
        PROVE  MakeHintAvx(g, LowBits(g, a) + z, HighBits(g, a)) = MakeHint(g, LowBits(g, a) + z, HighBits(g, a))
    <3>z. z \in Int
      BY RoundingAssumption
    <3>1. LowBits(g, a) + z \in Int
      BY <2>4, <3>z, SMT
    <3> QED BY <2>3, <2>4, <3>1, SameHints
  <2> QED BY <2>5, <2>6, <2>7
<1> QED BY <1>1, RInvHolds, PTL

-----------------------------------------------------------------------------
(* The hint.  a + z and its own high and low bits k and lo stand for the    *)
(* same number modulo Q as h, l and z: so k is h, or a neighbour of h on   *)
(* the side that the sign of lo tells.                                      *)

LEMMA Moves32 ==
    ASSUME NEW h \in Int, NEW l \in Int, NEW k \in Int, NEW lo \in Int, NEW z \in Int, NEW j \in Int,
           0 <= h, h <= 15, 0 <= k, k <= 15, -261888 <= z, z <= 261888,
           -261888 <= l, l <= 261888, l = -261888 => h = 0,
           -261888 <= lo, lo <= 261888, lo = -261888 => k = 0,
           523776*h + l + z = 523776*k + lo + 8380417*j
    PROVE  /\ (-261888 <= l + z /\ l + z <= 261888 /\ ~(l + z = -261888 /\ h # 0)) => k = h
           /\ (l + z > 261888 \/ l + z < -261888 \/ (l + z = -261888 /\ h # 0)) =>
                IF lo > 0 THEN h = (k + 1) % 16 ELSE h = (k - 1) % 16
<1>1. j = -1 \/ j = 0 \/ j = 1
  BY SMT
<1>2. ASSUME -261888 <= l + z, l + z <= 261888, ~(l + z = -261888 /\ h # 0) PROVE k = h
  BY <1>1, <1>2, SMT
<1>3. ASSUME l + z > 261888 PROVE lo <= 0 /\ (h = k - 1 \/ (h = 15 /\ k = 0))
  BY <1>1, <1>3, SMT
<1>4. ASSUME l + z < -261888 \/ (l + z = -261888 /\ h # 0) PROVE lo > 0 /\ (h = k + 1 \/ (h = 0 /\ k = 15))
  BY <1>1, <1>4, SMT
<1>5. (k < 15 => (k + 1) % 16 = k + 1) /\ (k = 15 => (k + 1) % 16 = 0)
  BY SMT
<1>6. (k > 0 => (k - 1) % 16 = k - 1) /\ (k = 0 => (k - 1) % 16 = 15)
  BY SMT
<1> QED BY <1>2, <1>3, <1>4, <1>5, <1>6, SMT

LEMMA Moves88 ==
    ASSUME NEW h \in Int, NEW l \in Int, NEW k \in Int, NEW lo \in Int, NEW z \in Int, NEW j \in Int,
           0 <= h, h <= 43, 0 <= k, k <= 43, -95232 <= z, z <= 95232,
           -95232 <= l, l <= 95232, l = -95232 => h = 0,
           -95232 <= lo, lo <= 95232, lo = -95232 => k = 0,
           190464*h + l + z = 190464*k + lo + 8380417*j
    PROVE  /\ (-95232 <= l + z /\ l + z <= 95232 /\ ~(l + z = -95232 /\ h # 0)) => k = h
           /\ (l + z > 95232 \/ l + z < -95232 \/ (l + z = -95232 /\ h # 0)) =>
                IF lo > 0 THEN h = (k + 1) % 44 ELSE h = (k - 1) % 44
<1>1. j = -1 \/ j = 0 \/ j = 1
  BY SMT
<1>2. ASSUME -95232 <= l + z, l + z <= 95232, ~(l + z = -95232 /\ h # 0) PROVE k = h
  BY <1>1, <1>2, SMT
<1>3. ASSUME l + z > 95232 PROVE lo <= 0 /\ (h = k - 1 \/ (h = 43 /\ k = 0))
  BY <1>1, <1>3, SMT
<1>4. ASSUME l + z < -95232 \/ (l + z = -95232 /\ h # 0) PROVE lo > 0 /\ (h = k + 1 \/ (h = 0 /\ k = 43))
  BY <1>1, <1>4, SMT
<1>5. (k < 43 => (k + 1) % 44 = k + 1) /\ (k = 43 => (k + 1) % 44 = 0)
  BY SMT
<1>6. (k > 0 => (k - 1) % 44 = k - 1) /\ (k = 0 => (k - 1) % 44 = 43)
  BY SMT
<1> QED BY <1>2, <1>3, <1>4, <1>5, <1>6, SMT

LEMMA Recovers32 ==
    ASSUME NEW x \in Int, 0 <= x, x < Q, NEW z \in Int, -261888 <= z, z <= 261888
    PROVE  UseHint(Gamma32, (x + z) % Q, MakeHint(Gamma32, LowBits(Gamma32, x) + z, HighBits(Gamma32, x)))
             = HighBits(Gamma32, x)
<1> DEFINE h == HighBits(Gamma32, x)
           l == LowBits(Gamma32, x)
           y == (x + z) % Q
           k == HighBits(Gamma32, y)
           lo == LowBits(Gamma32, y)
<1>n. Gamma32 = 261888 /\ Q = 8380417 /\ Values(Gamma32) = 16 /\ (Q - 1) \div (2*Gamma32) = 16
  BY Numbers, SMT DEF Values
<1>1. y \in Int /\ 0 <= y /\ y < Q /\ (y = x + z \/ y = x + z + Q \/ y = x + z - Q)
  BY <1>n, SMT
<1>2. Decomposed(Gamma32, x) /\ Decomposed(Gamma32, y)
  <2> HIDE DEF y
  <2> QED BY <1>1, Splits, SMT
<1>3. /\ h \in Int /\ l \in Int /\ 0 <= h /\ h <= 15 /\ -261888 <= l /\ l <= 261888 /\ (l = -261888 => h = 0)
      /\ x = 523776*h + l \/ x = 523776*h + l + 8380417
  <2>1. /\ h \in Int /\ l \in Int /\ 0 <= h /\ h < 16
        /\ \/ x = h*2*261888 + l /\ -261888 < l /\ l <= 261888
           \/ h = 0 /\ l = x - 8380417 /\ -261888 <= l /\ l < 0
    BY <1>2, <1>n, SMT DEF Decomposed
  <2> HIDE DEF h, l, y, k, lo
  <2> QED BY <2>1, SMT
<1>4. /\ k \in Int /\ lo \in Int /\ 0 <= k /\ k <= 15 /\ -261888 <= lo /\ lo <= 261888 /\ (lo = -261888 => k = 0)
      /\ y = 523776*k + lo \/ y = 523776*k + lo + 8380417
  <2> HIDE DEF y
  <2>1. /\ k \in Int /\ lo \in Int /\ 0 <= k /\ k < 16
        /\ \/ y = k*2*261888 + lo /\ -261888 < lo /\ lo <= 261888
           \/ k = 0 /\ lo = y - 8380417 /\ -261888 <= lo /\ lo < 0
    BY <1>1, <1>2, <1>n, SMT DEF Decomposed
  <2> HIDE DEF h, l, k, lo
  <2> QED BY <1>1, <2>1, SMT
<1>5. MakeHint(Gamma32, l + z, h) <=> (l + z > 261888 \/ l + z < -261888 \/ (l + z = -261888 /\ h # 0))
  <2> HIDE DEF h, l
  <2> QED BY <1>n, <1>3, SMT DEF MakeHint
<1>6. ASSUME MakeHint(Gamma32, l + z, h)
      PROVE  UseHint(Gamma32, y, MakeHint(Gamma32, l + z, h)) = IF lo > 0 THEN (k + 1) % 16 ELSE (k - 1) % 16
  <2> HIDE DEF h, l, y
  <2> QED BY <1>n, <1>6, SMT DEF UseHint
<1>7. ASSUME ~MakeHint(Gamma32, l + z, h)
      PROVE  UseHint(Gamma32, y, MakeHint(Gamma32, l + z, h)) = k
  <2> HIDE DEF h, l, y
  <2> QED BY <1>n, <1>7, SMT DEF UseHint
<1> HIDE DEF h, l, y, k, lo
<1>8. PICK j \in Int : 523776*h + l + z = 523776*k + lo + 8380417*j
  <2>1. \E j \in {-2, -1, 0, 1, 2} : 523776*h + l + z = 523776*k + lo + 8380417*j
    BY <1>n, <1>1, <1>3, <1>4, SMT
  <2> QED BY <2>1, SMT
<1>9. /\ (-261888 <= l + z /\ l + z <= 261888 /\ ~(l + z = -261888 /\ h # 0)) => k = h
      /\ (l + z > 261888 \/ l + z < -261888 \/ (l + z = -261888 /\ h # 0)) =>
           IF lo > 0 THEN h = (k + 1) % 16 ELSE h = (k - 1) % 16
  BY <1>3, <1>4, <1>8, Moves32, SMT
<1>10. UseHint(Gamma32, y, MakeHint(Gamma32, l + z, h)) = h
  <2>1. CASE MakeHint(Gamma32, l + z, h)
    BY <1>5, <1>6, <1>9, <2>1, SMT
  <2>2. CASE ~MakeHint(Gamma32, l + z, h)
    BY <1>3, <1>5, <1>7, <1>9, <2>2, SMT
  <2> QED BY <2>1, <2>2, SMT
<1> QED BY <1>10, SMT DEF h, l, y

LEMMA Recovers88 ==
    ASSUME NEW x \in Int, 0 <= x, x < Q, NEW z \in Int, -95232 <= z, z <= 95232
    PROVE  UseHint(Gamma88, (x + z) % Q, MakeHint(Gamma88, LowBits(Gamma88, x) + z, HighBits(Gamma88, x)))
             = HighBits(Gamma88, x)
<1> DEFINE h == HighBits(Gamma88, x)
           l == LowBits(Gamma88, x)
           y == (x + z) % Q
           k == HighBits(Gamma88, y)
           lo == LowBits(Gamma88, y)
<1>n. Gamma88 = 95232 /\ Q = 8380417 /\ Values(Gamma88) = 44 /\ (Q - 1) \div (2*Gamma88) = 44
  BY Numbers, SMT DEF Values
<1>1. y \in Int /\ 0 <= y /\ y < Q /\ (y = x + z \/ y = x + z + Q \/ y = x + z - Q)
  BY <1>n, SMT
<1>2. Decomposed(Gamma88, x) /\ Decomposed(Gamma88, y)
  <2> HIDE DEF y
  <2> QED BY <1>1, Splits, SMT
<1>3. /\ h \in Int /\ l \in Int /\ 0 <= h /\ h <= 43 /\ -95232 <= l /\ l <= 95232 /\ (l = -95232 => h = 0)
      /\ x = 190464*h + l \/ x = 190464*h + l + 8380417
  <2>1. /\ h \in Int /\ l \in Int /\ 0 <= h /\ h < 44
        /\ \/ x = h*2*95232 + l /\ -95232 < l /\ l <= 95232
           \/ h = 0 /\ l = x - 8380417 /\ -95232 <= l /\ l < 0
    BY <1>2, <1>n, SMT DEF Decomposed
  <2> HIDE DEF h, l, y, k, lo
  <2> QED BY <2>1, SMT
<1>4. /\ k \in Int /\ lo \in Int /\ 0 <= k /\ k <= 43 /\ -95232 <= lo /\ lo <= 95232 /\ (lo = -95232 => k = 0)
      /\ y = 190464*k + lo \/ y = 190464*k + lo + 8380417
  <2> HIDE DEF y
  <2>1. /\ k \in Int /\ lo \in Int /\ 0 <= k /\ k < 44
        /\ \/ y = k*2*95232 + lo /\ -95232 < lo /\ lo <= 95232
           \/ k = 0 /\ lo = y - 8380417 /\ -95232 <= lo /\ lo < 0
    BY <1>1, <1>2, <1>n, SMT DEF Decomposed
  <2> HIDE DEF h, l, k, lo
  <2> QED BY <1>1, <2>1, SMT
<1>5. MakeHint(Gamma88, l + z, h) <=> (l + z > 95232 \/ l + z < -95232 \/ (l + z = -95232 /\ h # 0))
  <2> HIDE DEF h, l
  <2> QED BY <1>n, <1>3, SMT DEF MakeHint
<1>6. ASSUME MakeHint(Gamma88, l + z, h)
      PROVE  UseHint(Gamma88, y, MakeHint(Gamma88, l + z, h)) = IF lo > 0 THEN (k + 1) % 44 ELSE (k - 1) % 44
  <2> HIDE DEF h, l, y
  <2> QED BY <1>n, <1>6, SMT DEF UseHint
<1>7. ASSUME ~MakeHint(Gamma88, l + z, h)
      PROVE  UseHint(Gamma88, y, MakeHint(Gamma88, l + z, h)) = k
  <2> HIDE DEF h, l, y
  <2> QED BY <1>n, <1>7, SMT DEF UseHint
<1> HIDE DEF h, l, y, k, lo
<1>8. PICK j \in Int : 190464*h + l + z = 190464*k + lo + 8380417*j
  <2>1. \E j \in {-2, -1, 0, 1, 2} : 190464*h + l + z = 190464*k + lo + 8380417*j
    BY <1>n, <1>1, <1>3, <1>4, SMT
  <2> QED BY <2>1, SMT
<1>9. /\ (-95232 <= l + z /\ l + z <= 95232 /\ ~(l + z = -95232 /\ h # 0)) => k = h
      /\ (l + z > 95232 \/ l + z < -95232 \/ (l + z = -95232 /\ h # 0)) =>
           IF lo > 0 THEN h = (k + 1) % 44 ELSE h = (k - 1) % 44
  BY <1>3, <1>4, <1>8, Moves88, SMT
<1>10. UseHint(Gamma88, y, MakeHint(Gamma88, l + z, h)) = h
  <2>1. CASE MakeHint(Gamma88, l + z, h)
    BY <1>5, <1>6, <1>9, <2>1, SMT
  <2>2. CASE ~MakeHint(Gamma88, l + z, h)
    BY <1>3, <1>5, <1>7, <1>9, <2>2, SMT
  <2> QED BY <2>1, <2>2, SMT
<1> QED BY <1>10, SMT DEF h, l, y

\* Whoever has only a + z and the hint finds the high bits of a, for every
\* coefficient a and every z of at most GAMMA2 to either side (Changes is any set
\* of integers): the reason why a signature can be verified
\* (ref/rounding.c:57-102).
THEOREM HintsRecover == RSpec => []HintRecovers
<1>1. RInv => HintRecovers
  <2> SUFFICES ASSUME RInv, NEW a \in Inputs, NEW z \in Changes, -g <= z, z <= g
               PROVE  UseHint(g, (a + z) % Q, MakeHint(g, LowBits(g, a) + z, HighBits(g, a))) = HighBits(g, a)
    BY Zenon DEF HintRecovers
  <2>1. a \in Int /\ 0 <= a /\ a < Q
    BY InputsAreCoefficients
  <2>2. g = Gamma88 \/ g = Gamma32
    BY DEF RInv
  <2>z. z \in Int
    BY RoundingAssumption
  <2>3. CASE g = Gamma32
    <3>1. z \in Int /\ -261888 <= z /\ z <= 261888
      BY <2>3, <2>z, Numbers, SMT
    <3> QED BY <2>1, <2>3, <3>1, Recovers32, SMT
  <2>4. CASE g = Gamma88
    <3>1. z \in Int /\ -95232 <= z /\ z <= 95232
      BY <2>4, <2>z, Numbers, SMT
    <3> QED BY <2>1, <2>4, <3>1, Recovers88, SMT
  <2> QED BY <2>2, <2>3, <2>4
<1> QED BY <1>1, RInvHolds, PTL

(***************************************************************************)
(* What ref/reduce.c returns, for every input.  The ranges that            *)
(* CoefficientRanges hands from one call to the next come from here: they  *)
(* are out of TLC's reach, whose integers have 32 bits.                    *)
(***************************************************************************)

LEMMA DivideBy2to23 ==
    ASSUME NEW y \in Int
    PROVE  /\ y \div 8388608 \in Int
           /\ 8388608*(y \div 8388608) <= y
           /\ y < 8388608*(y \div 8388608) + 8388608
BY SMT

LEMMA DivideBy2to32 ==
    ASSUME NEW y \in Int
    PROVE  /\ y \div 4294967296 \in Int /\ y % 4294967296 \in Int
           /\ y = 4294967296*(y \div 4294967296) + (y % 4294967296)
           /\ 0 <= y % 4294967296 /\ y % 4294967296 <= 4294967295
BY SMT

\* reduce32 returns a number that is congruent to a modulo Q, and within
\* -6283009 and 6283008 for every a that does not overflow; its comment
\* (reduce.c:27-28) has -6283008, which a = -2143289344 does not keep.
THEOREM Reduce32Range ==
    ASSUME NEW a \in Int, -2147483648 <= a, a <= 2147483647 - 4194304
    PROVE  /\ -6283009 <= Reduce32(a) /\ Reduce32(a) <= 6283008
           /\ \E n \in Int : Reduce32(a) = a - n*Q
<1> DEFINE t == Quotient(a)
<1>1. t \in Int /\ 8388608*t <= a + 4194304 /\ a + 4194304 < 8388608*t + 8388608
  <2>1. a + 4194304 \in Int
    BY SMT
  <2> QED BY <2>1, DivideBy2to23, SMT DEF Quotient
<1>2. Reduce32(a) = a - t*Q /\ Q = 8380417
  BY SMT DEF Reduce32, Q
<1> HIDE DEF t
<1>3. -256 <= t /\ t <= 255
  BY <1>1, SMT
<1>4. -6283009 <= a - t*8380417 /\ a - t*8380417 <= 6283008
  BY <1>1, <1>3, SMT
<1> QED BY <1>1, <1>2, <1>4, SMT

\* freeze returns the standard representative of a.
THEOREM FreezeRange ==
    ASSUME NEW a \in Int, -2147483648 <= a, a <= 2147483647 - 4194304
    PROVE  /\ 0 <= Freeze(a) /\ Freeze(a) < Q
           /\ \E n \in Int : Freeze(a) = a - n*Q
<1> DEFINE res == Reduce32(a)
<1>1. -6283009 <= res /\ res <= 6283008 /\ \E n \in Int : res = a - n*Q
  BY Reduce32Range, SMT
<1>2. Freeze(a) = IF res < 0 THEN res + Q ELSE res
  BY SMT DEF Freeze, Caddq
<1> HIDE DEF res
<1>3. PICK n \in Int : res = a - n*Q
  BY <1>1, SMT
<1>4. res \in Int /\ res + Q = a - (n - 1)*Q
  BY <1>3, SMT DEF Q
<1>5. CASE res < 0
  <2>1. Freeze(a) = a - (n - 1)*Q /\ n - 1 \in Int
    BY <1>2, <1>3, <1>4, <1>5, SMT
  <2>2. 0 <= Freeze(a) /\ Freeze(a) < Q
    BY <1>1, <1>2, <1>4, <1>5, SMT DEF Q
  <2> QED BY <2>1, <2>2, SMT
<1>6. CASE res >= 0
  <2>1. 0 <= Freeze(a) /\ Freeze(a) < Q
    BY <1>1, <1>2, <1>4, <1>6, SMT DEF Q
  <2> QED BY <1>2, <1>3, <1>4, <1>6, <2>1, SMT
<1> QED BY <1>4, <1>5, <1>6, SMT

-----------------------------------------------------------------------------
\* The low word of y, as a signed number.
LEMMA LowWord ==
    ASSUME NEW y \in Int
    PROVE  /\ Low(4294967296, y) \in Int
           /\ -2147483648 <= Low(4294967296, y) /\ Low(4294967296, y) <= 2147483647
           /\ \E n \in Int : Low(4294967296, y) = y - 4294967296*n
<1> DEFINE d == y \div 4294967296
           res == y % 4294967296
<1>1. d \in Int /\ res \in Int /\ y = 4294967296*d + res /\ 0 <= res /\ res <= 4294967295
  BY DivideBy2to32, SMT
<1>2. Low(4294967296, y) = IF res < 2147483648 THEN res ELSE res - 4294967296
  BY SMT DEF Low
<1> HIDE DEF d, res
<1>3. Low(4294967296, y) = y - 4294967296*d \/ Low(4294967296, y) = y - 4294967296*(d + 1)
  BY <1>1, <1>2, SMT
<1>4. \E n \in Int : Low(4294967296, y) = y - 4294967296*n
  <2> DEFINE e == d + 1
  <2>1. e \in Int /\ d \in Int
    BY <1>1, SMT
  <2>2. Low(4294967296, y) = y - 4294967296*d \/ Low(4294967296, y) = y - 4294967296*e
    BY <1>3, SMT
  <2> HIDE DEF e
  <2> QED BY <2>1, <2>2, SMT
<1>5. /\ Low(4294967296, y) \in Int
      /\ -2147483648 <= Low(4294967296, y) /\ Low(4294967296, y) <= 2147483647
  BY <1>1, <1>2, SMT
<1> QED BY <1>4, <1>5, SMT

\* montgomery_reduce: the division by 2^32 leaves no remainder, the result is
\* a*2^-32 modulo Q, and it is in (-Q, Q) for -2^31*Q <= a < 2^31*Q.
THEOREM MontgomeryRange ==
    ASSUME NEW a \in Int, -17996808470921216 <= a, a < 17996808470921216
    PROVE  /\ -Q < Montgomery(4294967296, Q, 58728449, a) /\ Montgomery(4294967296, Q, 58728449, a) < Q
           /\ \E t \in Int : 4294967296*Montgomery(4294967296, Q, 58728449, a) = a - t*Q
<1> DEFINE x == Low(4294967296, a)
           t == Low(4294967296, x*58728449)
           res == (a - t*8380417) \div 4294967296
<1>1. x \in Int /\ \E n \in Int : x = a - 4294967296*n
  BY LowWord, SMT
<1>m. Montgomery(4294967296, Q, 58728449, a) = res
  BY SMT DEF Montgomery, Q
<1> HIDE DEF x
<1>2. t \in Int /\ -2147483648 <= t /\ t <= 2147483647 /\ \E n \in Int : t = x*58728449 - 4294967296*n
  <2> DEFINE y == x*58728449
  <2>1. y \in Int
    BY <1>1, SMT
  <2> HIDE DEF y
  <2>2. /\ Low(4294967296, y) \in Int
        /\ -2147483648 <= Low(4294967296, y) /\ Low(4294967296, y) <= 2147483647
        /\ \E n \in Int : Low(4294967296, y) = y - 4294967296*n
    BY <2>1, LowWord, SMT
  <2> QED BY <2>2, SMT DEF y
<1> HIDE DEF t
<1>3. PICK n1 \in Int : x = a - 4294967296*n1
  BY <1>1, SMT
<1>4. PICK n2 \in Int : t = x*58728449 - 4294967296*n2
  BY <1>2, SMT
\* Q*QINV is 2^32*114592 + 1.
<1>5. (x*58728449)*8380417 = 492168892383232*x + x
  BY <1>1, SMT
<1>6. a - t*8380417 = 4294967296*(n1 - 114592*x + n2*8380417)
  <2>1. t*8380417 = (x*58728449)*8380417 - 35993616941842432*n2
    BY <1>1, <1>4, SMT
  <2>2. a - t*8380417 = 4294967296*n1 - 492168892383232*x + 35993616941842432*n2
    BY <1>1, <1>2, <1>3, <1>5, <2>1, SMT
  <2> QED BY <1>1, <2>2, SMT
<1>7. res = n1 - 114592*x + n2*8380417 /\ res \in Int
  <2> DEFINE m == n1 - 114592*x + n2*8380417
  <2>1. m \in Int
    BY <1>1, SMT
  <2>2. a - t*8380417 = 4294967296*m
    BY <1>6, SMT
  <2> HIDE DEF m
  <2>3. (4294967296*m) \div 4294967296 = m
    BY <2>1, SMT
  <2>4. res = m
    BY <2>2, <2>3, SMT
  <2> QED BY <2>1, <2>4, SMT DEF m
<1> HIDE DEF res
<1>8. 4294967296*res = a - t*8380417
  BY <1>6, <1>7, SMT
<1>9. -8380417 < res /\ res < 8380417
  BY <1>2, <1>7, <1>8, SMT
<1> QED BY <1>m, <1>2, <1>8, <1>9, SMT DEF Q

\* For a = 2^31*Q, the last value of the range that the comment gives
\* (reduce.c:8-9), the result is Q, which is not below Q.
THEOREM MontgomeryAtTheEnd == Montgomery(4294967296, Q, 58728449, 17996808470921216) = Q
<1>1. Low(4294967296, 17996808470921216) = -2147483648
  BY SMT DEF Low
<1>2. Low(4294967296, (-2147483648)*58728449) = -2147483648
  BY SMT DEF Low
<1> QED BY <1>1, <1>2, SMT DEF Montgomery, Q

(***************************************************************************)
(* KeyLayout: the parts before the loop's index lie one behind another, in *)
(* the order in which they are found again.                                *)
(***************************************************************************)

KH == NHeads
KP == Polys(kind, sizes)
KS == Stride(kind, sizes)

\* The length of part p and where it starts: the heads one after another, then
\* the polynomials a stride apart.
PartLength(p) == IF p <= KH THEN Heads(kind, sizes)[p][2] ELSE KS
HeadEnd == IF KH = 1 THEN PartLength(1) ELSE PartLength(1) + PartLength(2)
Start(p) == IF p = 1 THEN 0 ELSE IF p <= KH THEN PartLength(1)
            ELSE HeadEnd + (p - KH - 1)*KS

\* The parts before p are in memory.
Laid(p) == \A res \in 1..p-1 : \A b \in 1..PartLength(res) : mem[Start(res) + b - 1] = <<res, b-1>>

LayoutInv ==
    /\ sizes \in Layouts /\ kind \in {"pk", "sk", "sig"}
    /\ phase \in {"pack", "unpack", "read"}
    /\ part \in 1..KH + KP + 1
    /\ ptr = IF part <= KH THEN Start(part) ELSE HeadEnd
    /\ phase = "pack" => DOMAIN mem = 0..Start(part)-1 /\ Laid(part) /\ got = <<>>
    /\ phase # "pack" =>
          /\ DOMAIN mem = 0..Total(kind, sizes)-1 /\ Laid(KH + KP + 1)
          /\ got = [p \in 1..part-1 |-> [b \in 1..PartLength(p) |-> <<p, b-1>>]]
    /\ phase = "read" => part = KH + KP + 1

LEMMA KeySizes ==
    ASSUME sizes \in Layouts
    PROVE  /\ sizes.k \in Nat \ {0} /\ sizes.l \in Nat \ {0} /\ sizes.omega \in Nat \ {0}
           /\ sizes.seed \in Nat \ {0} /\ sizes.tr \in Nat \ {0} /\ sizes.ctilde \in Nat \ {0}
           /\ sizes.tbar \in Nat \ {0} /\ sizes.eta \in Nat \ {0} /\ sizes.z \in Nat \ {0}
  BY LayoutAssumption

LEMMA KeyShape ==
    ASSUME sizes \in Layouts, kind \in {"pk", "sk", "sig"}
    PROVE  /\ KH \in {1, 2} /\ KP \in Nat \ {0} /\ KS \in Nat \ {0}
           /\ \A p \in 1..KH : PartLength(p) \in Nat \ {0}
           /\ \A p \in KH+1..KH+KP : PartLength(p) = KS
           /\ HeadEnd \in Nat
           /\ Total(kind, sizes) = IF kind = "sig" THEN HeadEnd + KP*KS + sizes.omega + sizes.k
                                                   ELSE HeadEnd + KP*KS
<1>0. /\ sizes.k \in Nat \ {0} /\ sizes.l \in Nat \ {0} /\ sizes.omega \in Nat \ {0}
      /\ sizes.seed \in Nat \ {0} /\ sizes.tr \in Nat \ {0} /\ sizes.ctilde \in Nat \ {0}
      /\ sizes.tbar \in Nat \ {0} /\ sizes.eta \in Nat \ {0} /\ sizes.z \in Nat \ {0}
  BY KeySizes
<1>1. CASE kind = "pk"
  <2>1. KH = 1 /\ KP = sizes.k /\ KS = sizes.tbar /\ Heads(kind, sizes)[1][2] = sizes.seed
    BY <1>1 DEF KH, NHeads, KP, KS, Heads, Polys, Stride
  <2>2. Total(kind, sizes) = sizes.seed + sizes.k*sizes.tbar
    BY <1>1 DEF Total
  <2> QED BY <1>0, <1>1, <2>1, <2>2 DEF PartLength, HeadEnd
<1>2. CASE kind = "sk"
  <2>1. /\ KH = 2 /\ KP = sizes.l /\ KS = sizes.eta
        /\ Heads(kind, sizes)[1][2] = sizes.seed /\ Heads(kind, sizes)[2][2] = sizes.tr
    BY <1>2 DEF KH, NHeads, KP, KS, Heads, Polys, Stride
  <2>2. Total(kind, sizes) = sizes.seed + sizes.tr + sizes.l*sizes.eta
    BY <1>2 DEF Total
  <2>3. \A p \in 1..2 : p = 1 \/ p = 2
    OBVIOUS
  <2> QED BY <1>0, <1>2, <2>1, <2>2, <2>3 DEF PartLength, HeadEnd
<1>3. CASE kind = "sig"
  <2>1. KH = 1 /\ KP = sizes.l /\ KS = sizes.z /\ Heads(kind, sizes)[1][2] = sizes.ctilde
    BY <1>3 DEF KH, NHeads, KP, KS, Heads, Polys, Stride
  <2>2. Total(kind, sizes) = sizes.ctilde + sizes.l*sizes.z + sizes.omega + sizes.k
    BY <1>3 DEF Total
  <2> QED BY <1>0, <1>3, <2>1, <2>2 DEF PartLength, HeadEnd
<1> QED BY <1>1, <1>2, <1>3

\* Where polynomial j starts.
LEMMA StartPoly ==
    ASSUME KH \in {1, 2}, NEW j \in Nat, NEW q \in Nat, q = KH + 1 + j
    PROVE  Start(q) = HeadEnd + j*KS
<1>1. q # 1 /\ ~(q <= KH) /\ q - KH - 1 = j
  OBVIOUS
<1> QED BY <1>1 DEF Start

\* Parts follow each other without a gap.
LEMMA StartNext ==
    ASSUME sizes \in Layouts, kind \in {"pk", "sk", "sig"}, NEW p \in 1..KH+KP
    PROVE  /\ Start(p) \in Nat /\ PartLength(p) \in Nat \ {0}
           /\ Start(p+1) = Start(p) + PartLength(p)
           /\ Start(KH+KP+1) = HeadEnd + KP*KS
           /\ Start(KH+1) = HeadEnd
<1>0. /\ KH \in {1, 2} /\ KP \in Nat \ {0} /\ KS \in Nat \ {0} /\ HeadEnd \in Nat
      /\ \A res \in 1..KH : PartLength(res) \in Nat \ {0}
      /\ \A res \in KH+1..KH+KP : PartLength(res) = KS
  BY KeyShape
<1>1. Start(KH+KP+1) = HeadEnd + KP*KS /\ Start(KH+1) = HeadEnd
  <2>1. KH+KP+1 # 1 /\ ~(KH+KP+1 <= KH) /\ KH+KP+1 - KH - 1 = KP
    BY <1>0
  <2>2. KH+1 # 1 /\ ~(KH+1 <= KH) /\ KH+1 - KH - 1 = 0 /\ 0*KS = 0
    BY <1>0
  <2> QED BY <1>0, <2>1, <2>2 DEF Start
<1>2. CASE p <= KH
  <2>1. p \in 1..KH /\ PartLength(p) \in Nat \ {0}
    BY <1>0, <1>2
  <2>2. CASE p = 1 /\ KH = 1
    BY <1>0, <1>1, <2>1, <2>2 DEF Start, HeadEnd
  <2>3. CASE p = 1 /\ KH = 2
    BY <1>0, <1>1, <2>1, <2>3 DEF Start, HeadEnd
  <2>4. CASE p = 2
    <3>1. KH = 2 /\ PartLength(1) \in Nat
      BY <1>0, <1>2, <2>4
    <3> QED BY <1>0, <1>1, <2>1, <2>4, <3>1 DEF Start, HeadEnd
  <2> QED BY <1>0, <2>1, <2>2, <2>3, <2>4
<1>3. CASE ~(p <= KH)
  <2>1. PICK nth \in Nat : p = KH + 1 + nth
    <3>1. p - KH - 1 \in Nat /\ p = KH + 1 + (p - KH - 1)
      BY <1>0, <1>3
    <3> QED BY <3>1
  <2>2. /\ p # 1 /\ p - KH - 1 = nth
        /\ p + 1 # 1 /\ ~(p + 1 <= KH) /\ p + 1 - KH - 1 = nth + 1
        /\ p \in KH+1..KH+KP
    BY <1>0, <1>3, <2>1
  <2>3. (nth + 1)*KS = nth*KS + KS /\ nth*KS \in Nat
    BY <1>0
  <2>4. Start(p) = HeadEnd + nth*KS
    BY <1>0, <2>1, StartPoly
  <2>5. Start(p+1) = HeadEnd + (nth + 1)*KS
    <3>1. p + 1 \in Nat /\ nth + 1 \in Nat /\ p + 1 = KH + 1 + (nth + 1)
      BY <1>0, <2>1
    <3> QED BY <1>0, <3>1, StartPoly
  <2> QED BY <1>0, <1>1, <2>2, <2>3, <2>4, <2>5
<1> QED BY <1>2, <1>3

\* A part ends before a later one starts.
LEMMA StartAfter ==
    ASSUME sizes \in Layouts, kind \in {"pk", "sk", "sig"},
           NEW p \in 1..KH+KP+1, NEW res \in 1..p-1
    PROVE  Start(res) \in Nat /\ Start(res) + PartLength(res) <= Start(p)
<1>0. /\ KH \in {1, 2} /\ KP \in Nat \ {0} /\ KS \in Nat \ {0} /\ HeadEnd \in Nat
      /\ \A q \in 1..KH : PartLength(q) \in Nat \ {0}
  BY KeyShape
<1>1. /\ res \in 1..KH+KP /\ res < p
      /\ Start(res) \in Nat /\ PartLength(res) \in Nat
      /\ Start(res+1) = Start(res) + PartLength(res)
      /\ Start(KH+1) = HeadEnd
  <2>1. res \in 1..KH+KP /\ res < p
    BY <1>0
  <2> QED BY <2>1, StartNext
<1>2. CASE p <= KH
  <2>1. res = 1 /\ p = res + 1
    BY <1>0, <1>1, <1>2
  <2> QED BY <1>1, <2>1
<1>3. CASE ~(p <= KH)
  <2>1. PICK nth \in Nat : p = KH + 1 + nth
    <3>1. p - KH - 1 \in Nat /\ p = KH + 1 + (p - KH - 1)
      BY <1>0, <1>3
    <3> QED BY <3>1
  <2>2. p # 1 /\ p - KH - 1 = nth /\ Start(p) = HeadEnd + nth*KS /\ nth*KS \in Nat
    BY <1>0, <1>3, <2>1 DEF Start
  <2>3. CASE res + 1 <= KH
    <3>1. res = 1 /\ KH = 2 /\ PartLength(1) \in Nat /\ PartLength(2) \in Nat
      BY <1>0, <1>1, <2>3
    <3> QED BY <1>0, <1>1, <2>2, <3>1 DEF Start, HeadEnd
  <2>4. CASE ~(res + 1 <= KH)
    <3>1. PICK j \in Nat, d \in Nat : res + 1 = KH + 1 + j /\ nth = j + d
      <4>1. /\ res + 1 - KH - 1 \in Nat /\ res + 1 = KH + 1 + (res + 1 - KH - 1)
            /\ nth - (res + 1 - KH - 1) \in Nat /\ nth = (res + 1 - KH - 1) + (nth - (res + 1 - KH - 1))
        BY <1>0, <1>1, <2>1, <2>4
      <4> QED BY <4>1
    <3>2. res + 1 \in Nat
      BY <1>1
    <3>3. Start(res+1) = HeadEnd + j*KS
      BY <1>0, <3>1, <3>2, StartPoly
    <3>4. nth*KS = j*KS + d*KS /\ j*KS \in Nat /\ d*KS \in Nat
      BY <1>0, <3>1
    <3> QED BY <1>0, <1>1, <2>2, <3>3, <3>4
  <2> QED BY <2>3, <2>4
<1> QED BY <1>2, <1>3

\* What the loop of pack_* or unpack_* computes for its part.
LEMMA PartIsThere ==
    ASSUME LayoutInv, InHeads \/ InPolys
    PROVE  /\ part \in 1..KH+KP /\ Length = PartLength(part) /\ Address = Start(part)
           /\ (IF InHeads THEN ptr + Length ELSE ptr)
                = IF part + 1 <= KH THEN Start(part + 1) ELSE HeadEnd
<1>0. /\ sizes \in Layouts /\ kind \in {"pk", "sk", "sig"}
      /\ KH \in {1, 2} /\ KP \in Nat \ {0} /\ KS \in Nat \ {0} /\ HeadEnd \in Nat
      /\ part \in 1..KH+KP+1 /\ ptr = IF part <= KH THEN Start(part) ELSE HeadEnd
  BY KeyShape DEF LayoutInv
<1>1. CASE InHeads
  <2>1. part <= KH /\ Length = PartLength(part) /\ ptr = Start(part) /\ Address = ptr
    BY <1>0, <1>1 DEF InHeads, Length, PartLength, Address, KH
  <2>2. part \in 1..KH+KP
    BY <1>0, <2>1
  <2>3. Start(part + 1) = Start(part) + PartLength(part) /\ Start(KH+1) = HeadEnd
    BY <1>0, <2>2, StartNext
  <2>4. ~(part + 1 <= KH) => part + 1 = KH + 1
    BY <1>0, <2>1
  <2> QED BY <1>1, <2>1, <2>2, <2>3, <2>4
<1>2. CASE ~InHeads
  <2>1. ~(part <= KH) /\ Poly < KP /\ Poly = part - KH - 1 /\ ptr = HeadEnd
    BY <1>0, <1>2 DEF InHeads, InPolys, KH, KP, Poly
  <2>2. PICK j \in Nat : j = Poly /\ part = KH + 1 + j
    BY <1>0, <2>1
  <2>3. part \in 1..KH+KP /\ part \in Nat /\ ~(part + 1 <= KH)
    BY <1>0, <2>1
  <2>4. Start(part) = HeadEnd + j*KS
    BY <1>0, <2>2, <2>3, StartPoly
  <2>5. Length = PartLength(part)
    BY <1>0, <1>2, <2>1 DEF Length, PartLength, KS, Stride
  <2>6. Address = HeadEnd + j*KS
    BY <1>2, <2>1, <2>2 DEF Address, KS
  <2> QED BY <1>2, <2>1, <2>3, <2>4, <2>5, <2>6
<1> QED BY <1>1, <1>2

LEMMA SamePlaces ==
    ASSUME kind' = kind, sizes' = sizes
    PROVE  /\ KH' = KH /\ KP' = KP /\ KS' = KS /\ HeadEnd' = HeadEnd
           /\ \A p : PartLength(p)' = PartLength(p) /\ Start(p)' = Start(p)
           /\ Total(kind, sizes)' = Total(kind, sizes)
<1>1. KH' = KH /\ KP' = KP /\ KS' = KS
  BY DEF KH, KP, KS, NHeads
<1>2. \A p : PartLength(p)' = PartLength(p)
  BY <1>1 DEF PartLength
<1>3. HeadEnd' = HeadEnd
  BY <1>1, <1>2 DEF HeadEnd
<1>4. \A p : Start(p)' = Start(p)
  BY <1>1, <1>2, <1>3 DEF Start
<1> QED BY <1>1, <1>2, <1>3, <1>4

LEMMA LayoutStart == KInit => LayoutInv
<1> SUFFICES ASSUME KInit PROVE LayoutInv
  OBVIOUS
<1>1. /\ sizes \in Layouts /\ kind \in {"pk", "sk", "sig"} /\ phase = "pack"
      /\ part = 1 /\ ptr = 0 /\ mem = <<>> /\ got = <<>>
  BY DEF KInit
<1>2. /\ KH \in {1, 2} /\ KP \in Nat \ {0}
  BY <1>1, KeyShape
<1>3. Start(1) = 0 /\ DOMAIN <<>> = 0..0-1
  BY DEF Start
<1>4. Laid(1)
  <2>1. \A res \in 1..1-1 : FALSE
    OBVIOUS
  <2> QED BY <2>1 DEF Laid
<1> QED BY <1>1, <1>2, <1>3, <1>4 DEF LayoutInv

LEMMA PackPartStep == LayoutInv /\ PackPart => LayoutInv'
<1> SUFFICES ASSUME LayoutInv, PackPart PROVE LayoutInv'
  OBVIOUS
<1>1. PICK a, n : a = Start(part) /\ n = PartLength(part)
  OBVIOUS
<1>2. /\ part \in 1..KH+KP /\ Length = n /\ Address = a
      /\ (IF InHeads THEN ptr + Length ELSE ptr)
           = IF part + 1 <= KH THEN Start(part + 1) ELSE HeadEnd
  BY <1>1, PartIsThere DEF PackPart
<1>3. /\ phase = "pack" /\ phase' = phase /\ kind' = kind /\ sizes' = sizes /\ got' = got
      /\ part' = part + 1 /\ ptr' = IF InHeads THEN ptr + Length ELSE ptr
      /\ mem' = [x \in DOMAIN mem \cup a..a+n-1 |->
                   IF x >= a /\ x < a + n THEN Cells(part)[x - a + 1] ELSE mem[x]]
      /\ Cells(part) = [b \in 1..n |-> <<part, b - 1>>]
  BY <1>2 DEF PackPart, Cells
<1>4. /\ sizes \in Layouts /\ kind \in {"pk", "sk", "sig"} /\ got = <<>>
      /\ KH \in {1, 2} /\ KP \in Nat \ {0} /\ part \in Nat
      /\ DOMAIN mem = 0..a-1 /\ Laid(part)
  BY <1>1, <1>2, <1>3, KeyShape DEF LayoutInv
<1>5. a \in Nat /\ n \in Nat \ {0} /\ Start(part + 1) = a + n
  BY <1>1, <1>2, <1>4, StartNext
<1>6. DOMAIN mem' = 0..Start(part + 1)-1
  <2>1. 0..a-1 \cup a..a+n-1 = 0..a+n-1
    BY <1>5
  <2> QED BY <1>3, <1>4, <1>5, <2>1
<1>7. ASSUME NEW res \in 1..part, NEW b \in 1..PartLength(res)
      PROVE  mem'[Start(res) + b - 1] = <<res, b-1>>
  <2>1. CASE res = part
    <3>1. PICK x : x = a + b - 1
      OBVIOUS
    <3>2. b \in 1..n /\ x \in a..a+n-1 /\ x >= a /\ x < a + n /\ x - a + 1 = b
      BY <1>1, <1>5, <2>1, <3>1
    <3>3. mem'[x] = Cells(part)[b]
      BY <1>3, <3>2
    <3>4. Cells(part)[b] = <<part, b-1>>
      BY <1>3, <3>2
    <3> QED BY <1>1, <2>1, <3>1, <3>3, <3>4
  <2>2. CASE res # part
    <3>1. res \in 1..part-1 /\ part \in 1..KH+KP+1
      BY <1>2, <1>4, <2>2
    <3>2. Start(res) \in Nat /\ Start(res) + PartLength(res) <= a
      BY <1>1, <1>4, <3>1, StartAfter
    <3>3. PartLength(res) \in Nat
      <4>1. res \in 1..KH+KP
        BY <1>2, <1>4, <3>1
      <4> QED BY <1>4, <4>1, StartNext
    <3>4. Start(res) + b - 1 \in 0..a-1 /\ ~(Start(res) + b - 1 >= a)
      BY <1>5, <3>2, <3>3
    <3>5. mem'[Start(res) + b - 1] = mem[Start(res) + b - 1]
      BY <1>3, <1>4, <3>4
    <3> QED BY <1>4, <3>1, <3>5 DEF Laid
  <2> QED BY <2>1, <2>2
<1>8. Laid(part)'
  <2>1. \A res \in 1..part'-1 : res \in 1..part
    BY <1>3, <1>4
  <2>2. \A res \in 1..part'-1 : \A b \in 1..PartLength(res) : mem'[Start(res) + b - 1] = <<res, b-1>>
    BY <1>7, <2>1
  <2>3. \A p : PartLength(p)' = PartLength(p) /\ Start(p)' = Start(p)
    BY <1>3, SamePlaces
  <2>4. \A res \in 1..part'-1 : \A b \in 1..PartLength(res)' : mem'[Start(res)' + b - 1] = <<res, b-1>>
    BY <2>2, <2>3
  <2> QED BY <2>4 DEF Laid
<1>9. part' \in 1..KH+KP+1
  BY <1>2, <1>3, <1>4
<1> QED BY <1>2, <1>3, <1>4, <1>6, <1>8, <1>9, SamePlaces DEF LayoutInv

LEMMA PackEndStep == LayoutInv /\ PackEnd => LayoutInv'
<1> SUFFICES ASSUME LayoutInv, PackEnd PROVE LayoutInv'
  OBVIOUS
<1>1. PICK h, T, area :
        /\ h = ptr + Polys(kind, sizes)*Stride(kind, sizes)
        /\ T = Total(kind, sizes)
        /\ area = IF kind = "sig" THEN h..h + sizes.omega + sizes.k - 1 ELSE {}
  OBVIOUS
<1>2. /\ phase = "pack" /\ ~InHeads /\ ~InPolys /\ phase' = "unpack"
      /\ part' = 1 /\ ptr' = 0 /\ kind' = kind /\ sizes' = sizes /\ got' = got
      /\ mem' = [x \in DOMAIN mem \cup area |-> IF x \in area THEN <<"hint", x - h>> ELSE mem[x]]
  BY <1>1 DEF PackEnd
<1>3. /\ sizes \in Layouts /\ kind \in {"pk", "sk", "sig"} /\ got = <<>>
      /\ KH \in {1, 2} /\ KP \in Nat \ {0} /\ KS \in Nat \ {0} /\ HeadEnd \in Nat
      /\ T = (IF kind = "sig" THEN HeadEnd + KP*KS + sizes.omega + sizes.k ELSE HeadEnd + KP*KS)
      /\ sizes.omega \in Nat /\ sizes.k \in Nat
  BY <1>1, <1>2, KeyShape, KeySizes DEF LayoutInv
<1>4. part = KH + KP + 1 /\ ptr = HeadEnd
  <2>1. part \in 1..KH+KP+1 /\ ~(part <= KH) /\ ~(part - KH - 1 < KP)
    BY <1>2 DEF LayoutInv, InHeads, InPolys, Poly, KH, KP
  <2> QED BY <1>3, <2>1 DEF LayoutInv
<1>5. Start(part) = HeadEnd + KP*KS /\ h = Start(part) /\ h \in Nat
  <2>1. 1 \in 1..KH+KP /\ KP*KS \in Nat
    BY <1>3
  <2>2. Start(KH+KP+1) = HeadEnd + KP*KS
    BY <1>3, <2>1, StartNext
  <2>3. Polys(kind, sizes)*Stride(kind, sizes) = KP*KS
    BY DEF KP, KS
  <2>4. h = HeadEnd + KP*KS
    BY <1>1, <1>4, <2>3
  <2>5. HeadEnd + KP*KS \in Nat
    BY <1>3, <2>1
  <2> QED BY <1>4, <2>2, <2>4, <2>5
<1>6. DOMAIN mem = 0..h-1 /\ Laid(KH+KP+1)
  BY <1>2, <1>4, <1>5 DEF LayoutInv
<1>7. DOMAIN mem' = 0..T-1
  <2>1. CASE kind = "sig"
    <3>1. PICK o \in Nat : o = sizes.omega + sizes.k
      BY <1>3
    <3>2. T = h + o /\ area = h..h+o-1
      <4>1. T = HeadEnd + KP*KS + sizes.omega + sizes.k /\ h = HeadEnd + KP*KS
        BY <1>3, <1>4, <1>5, <2>1
      <4>2. T = h + sizes.omega + sizes.k
        BY <4>1
      <4>3. h + sizes.omega + sizes.k = h + o /\ h + sizes.omega + sizes.k - 1 = h + o - 1
        BY <1>3, <1>5, <3>1
      <4> QED BY <1>1, <2>1, <4>2, <4>3
    <3>3. 0..h-1 \cup h..h+o-1 = 0..h+o-1
      BY <1>5, <3>1
    <3>4. DOMAIN mem' = DOMAIN mem \cup area
      BY <1>2
    <3>5. T - 1 = h+o-1
      BY <1>5, <3>1, <3>2
    <3> QED BY <1>6, <3>2, <3>3, <3>4, <3>5
  <2>2. CASE kind # "sig"
    <3>1. T = h /\ area = {}
      BY <1>1, <1>3, <1>4, <1>5, <2>2
    <3>2. 0..h-1 \cup {} = 0..h-1
      OBVIOUS
    <3> QED BY <1>2, <1>6, <3>1, <3>2
  <2> QED BY <2>1, <2>2
<1>8. ASSUME NEW res \in 1..KH+KP, NEW b \in 1..PartLength(res)
      PROVE  mem'[Start(res) + b - 1] = <<res, b-1>>
  <2>1. res \in 1..(KH+KP+1)-1 /\ KH+KP+1 \in 1..KH+KP+1
    BY <1>3
  <2>2. Start(res) \in Nat /\ Start(res) + PartLength(res) <= h
    BY <1>3, <1>4, <1>5, <2>1, StartAfter
  <2>3. PartLength(res) \in Nat
    BY <1>3, StartNext
  <2>4. PICK x : x = Start(res) + b - 1
    OBVIOUS
  <2>5. x \in 0..h-1 /\ x \notin area
    <3>1. x \in 0..h-1
      BY <1>5, <2>2, <2>3, <2>4
    <3>2. \A y \in area : y >= h
      BY <1>1, <1>3, <1>5
    <3> QED BY <1>5, <3>1, <3>2
  <2>6. mem'[x] = mem[x]
    BY <1>2, <1>6, <2>5
  <2> QED BY <1>6, <2>1, <2>4, <2>6 DEF Laid
<1>9. \A res \in 1..(KH+KP+1)-1 : \A b \in 1..PartLength(res) : mem'[Start(res) + b - 1] = <<res, b-1>>
  <2>1. \A res \in 1..(KH+KP+1)-1 : res \in 1..KH+KP
    BY <1>3
  <2> QED BY <1>8, <2>1
<1>10. Laid(KH+KP+1)'
  BY <1>2, <1>9, SamePlaces DEF Laid
<1>11. got' = [p \in 1..0 |-> [b \in 1..PartLength(p) |-> <<p, b-1>>]]
  BY <1>2, <1>3
<1>12. Start(1) = 0 /\ 1 <= KH /\ 1 \in 1..KH+KP+1 /\ 1 - 1 = 0
  BY <1>3 DEF Start
<1> QED BY <1>1, <1>2, <1>3, <1>7, <1>10, <1>11, <1>12, SamePlaces DEF LayoutInv

\* What is unpacked is looked for where it was packed.
LEMMA SameAddress == Source = Address
BY DEF Source, Address, UnpackStride, Stride

LEMMA UnpackPartStep == LayoutInv /\ UnpackPart => LayoutInv'
<1> SUFFICES ASSUME LayoutInv, UnpackPart PROVE LayoutInv'
  OBVIOUS
<1>1. PICK a, n : a = Start(part) /\ n = PartLength(part)
  OBVIOUS
<1>2. /\ part \in 1..KH+KP /\ Length = n /\ Source = a
      /\ (IF InHeads THEN ptr + Length ELSE ptr)
           = IF part + 1 <= KH THEN Start(part + 1) ELSE HeadEnd
  BY <1>1, PartIsThere, SameAddress DEF UnpackPart
<1>3. /\ phase = "unpack" /\ phase' = phase /\ kind' = kind /\ sizes' = sizes /\ mem' = mem
      /\ part' = part + 1 /\ ptr' = IF InHeads THEN ptr + Length ELSE ptr
      /\ got' = Append(got, [b \in 1..n |->
                   IF a + b - 1 \in DOMAIN mem THEN mem[a + b - 1] ELSE <<0, 0>>])
  BY <1>2 DEF UnpackPart
<1>4. /\ sizes \in Layouts /\ kind \in {"pk", "sk", "sig"}
      /\ KH \in {1, 2} /\ KP \in Nat \ {0} /\ KS \in Nat \ {0} /\ HeadEnd \in Nat /\ part \in Nat
      /\ DOMAIN mem = 0..Total(kind, sizes)-1 /\ Laid(KH + KP + 1)
      /\ got = [p \in 1..part-1 |-> [b \in 1..PartLength(p) |-> <<p, b-1>>]]
      /\ Total(kind, sizes) = IF kind = "sig" THEN HeadEnd + KP*KS + sizes.omega + sizes.k
                                              ELSE HeadEnd + KP*KS
      /\ sizes.omega \in Nat /\ sizes.k \in Nat
  <2>1. /\ sizes \in Layouts /\ kind \in {"pk", "sk", "sig"} /\ part \in 1..KH+KP+1
        /\ DOMAIN mem = 0..Total(kind, sizes)-1 /\ Laid(KH + KP + 1)
        /\ got = [p \in 1..part-1 |-> [b \in 1..PartLength(p) |-> <<p, b-1>>]]
    BY <1>3 DEF LayoutInv
  <2>2. sizes.omega \in Nat /\ sizes.k \in Nat
    BY <2>1, KeySizes
  <2>3. KH \in {1, 2} /\ KP \in Nat \ {0} /\ KS \in Nat \ {0} /\ HeadEnd \in Nat
        /\ Total(kind, sizes) = IF kind = "sig" THEN HeadEnd + KP*KS + sizes.omega + sizes.k
                                                ELSE HeadEnd + KP*KS
    BY <2>1, KeyShape
  <2>4. part \in Nat
    BY <2>1, <2>3
  <2> QED BY <2>1, <2>2, <2>3, <2>4
<1>5. a \in Nat /\ n \in Nat \ {0} /\ a + n <= Total(kind, sizes) /\ Total(kind, sizes) \in Nat
  <2>1. a \in Nat /\ n \in Nat \ {0} /\ Start(KH+KP+1) = HeadEnd + KP*KS
    BY <1>1, <1>2, <1>4, StartNext
  <2>2. part \in 1..(KH+KP+1)-1 /\ KH+KP+1 \in 1..KH+KP+1 /\ KP*KS \in Nat
    BY <1>2, <1>4
  <2>3. a + n <= HeadEnd + KP*KS
    BY <1>1, <1>4, <2>1, <2>2, StartAfter
  <2> QED BY <1>4, <2>1, <2>2, <2>3
<1>6. [b \in 1..n |-> IF a + b - 1 \in DOMAIN mem THEN mem[a + b - 1] ELSE <<0, 0>>]
        = [b \in 1..n |-> <<part, b-1>>]
  <2>1. ASSUME NEW b \in 1..n
        PROVE  a + b - 1 \in DOMAIN mem /\ mem[a + b - 1] = <<part, b-1>>
    <3>1. a + b - 1 \in 0..Total(kind, sizes)-1
      BY <1>5
    <3>2. part \in 1..(KH+KP+1)-1
      BY <1>2, <1>4
    <3> QED BY <1>1, <1>4, <3>1, <3>2 DEF Laid
  <2> QED BY <2>1
<1>7. got' = [p \in 1..part |-> [b \in 1..PartLength(p) |-> <<p, b-1>>]]
  <2>1. PICK w : w = [b \in 1..n |-> <<part, b-1>>]
    OBVIOUS
  <2>2. PICK S : S = {[b \in 1..PartLength(p) |-> <<p, b-1>>] : p \in Nat}
    OBVIOUS
  <2>3. w \in S /\ got \in Seq(S) /\ Len(got) = part - 1
    <3>1. \A p \in 1..part-1 : [b \in 1..PartLength(p) |-> <<p, b-1>>] \in S
      BY <2>2
    <3>2. part - 1 \in Nat
      BY <1>2, <1>4
    <3>3. w \in S
      BY <1>1, <1>4, <2>1, <2>2
    <3> QED BY <1>4, <3>1, <3>2, <3>3
  <2>4. Append(got, w) \in Seq(S) /\ Len(Append(got, w)) = part
    <3>1. Append(got, w) \in Seq(S) /\ Len(Append(got, w)) = Len(got) + 1
      BY <2>3, AppendProperties
    <3>2. (part - 1) + 1 = part
      BY <1>4
    <3> QED BY <2>3, <3>1, <3>2
  <2>5. \A p \in 1..part : Append(got, w)[p] = IF p <= part - 1 THEN got[p] ELSE w
    BY <1>4, <2>3, AppendProperties
  <2>6. \A p \in 1..part : Append(got, w)[p] = [b \in 1..PartLength(p) |-> <<p, b-1>>]
    <3>1. \A p \in 1..part : (p <= part - 1 => p \in 1..part-1) /\ (~(p <= part - 1) => p = part)
      BY <1>2, <1>4
    <3> QED BY <1>1, <1>4, <2>1, <2>5, <3>1
  <2>7. Append(got, w) = [p \in 1..part |-> Append(got, w)[p]]
    <3>1. \A t \in Seq(S) : t = [p \in 1..Len(t) |-> t[p]]
      OBVIOUS
    <3> QED BY <2>4, <3>1
  <2> QED BY <1>3, <1>6, <2>1, <2>6, <2>7
<1>8. part' \in 1..KH+KP+1 /\ part' - 1 = part
  BY <1>2, <1>3, <1>4
<1>9. Laid(KH+KP+1)'
  BY <1>3, <1>4, SamePlaces DEF Laid
<1> QED BY <1>2, <1>3, <1>4, <1>7, <1>8, <1>9, SamePlaces DEF LayoutInv

LEMMA UnpackEndStep == LayoutInv /\ UnpackEnd => LayoutInv'
<1> SUFFICES ASSUME LayoutInv, UnpackEnd PROVE LayoutInv'
  OBVIOUS
<1>1. /\ phase = "unpack" /\ ~InHeads /\ ~InPolys /\ phase' = "read"
      /\ kind' = kind /\ sizes' = sizes /\ mem' = mem /\ part' = part /\ ptr' = ptr /\ got' = got
  BY DEF UnpackEnd
<1>2. part = KH + KP + 1
  <2>1. part \in 1..KH+KP+1 /\ ~(part <= KH) /\ ~(part - KH - 1 < KP)
        /\ KH \in {1, 2} /\ KP \in Nat \ {0}
    BY <1>1, KeyShape DEF LayoutInv, InHeads, InPolys, Poly, KH, KP
  <2> QED BY <2>1
<1>3. Laid(KH+KP+1)'
  BY <1>1, SamePlaces DEF Laid, LayoutInv
<1> QED BY <1>1, <1>2, <1>3, SamePlaces DEF LayoutInv

LEMMA LayoutStep == LayoutInv /\ [KNext]_kvars => LayoutInv'
<1> SUFFICES ASSUME LayoutInv, [KNext]_kvars PROVE LayoutInv'
  OBVIOUS
<1>1. CASE UNCHANGED kvars
  <2>1. /\ kind' = kind /\ sizes' = sizes /\ mem' = mem /\ part' = part /\ ptr' = ptr /\ got' = got
        /\ phase' = phase
    BY <1>1 DEF kvars
  <2>2. \A p : Laid(p)' <=> Laid(p)
    BY <2>1, SamePlaces DEF Laid
  <2>3. KH' = KH /\ KP' = KP
    BY <2>1, SamePlaces
  <2> QED BY <2>1, <2>2, <2>3, SamePlaces DEF LayoutInv
<1> QED BY <1>1, PackPartStep, PackEndStep, UnpackPartStep, UnpackEndStep DEF KNext

LEMMA LayoutGood == LayoutInv => KeysComeBack
<1> SUFFICES ASSUME LayoutInv PROVE KeysComeBack
  OBVIOUS
<1>0. KH \in {1, 2} /\ KP \in Nat \ {0} /\ part \in 1..KH+KP+1
      /\ \A p \in 1..KH+KP : PartLength(p) \in Nat
  BY KeyShape, StartNext DEF LayoutInv
<1>1. CASE phase = "pack"
  BY <1>1 DEF LayoutInv, KeysComeBack
<1>2. CASE phase # "pack"
  <2>1. /\ DOMAIN mem = 0..Total(kind, sizes)-1
        /\ got = [p \in 1..part-1 |-> [b \in 1..PartLength(p) |-> <<p, b-1>>]]
        /\ phase = "read" => part = KH + KP + 1
    BY <1>2 DEF LayoutInv
  <2>2. Len(got) = part - 1
    BY <1>0, <2>1
  <2>3. \A p \in 1..part-1 : p \in 1..KH+KP
    BY <1>0
  <2>4. ASSUME NEW p \in 1..part-1, NEW b \in 1..Len(got[p])
        PROVE  got[p][b] = <<p, b - 1>>
    <3>1. got[p] = [c \in 1..PartLength(p) |-> <<p, c-1>>] /\ PartLength(p) \in Nat
      BY <1>0, <2>1, <2>3
    <3>2. Len(got[p]) = PartLength(p)
      BY <3>1
    <3> QED BY <3>1, <3>2
  <2>5. phase = "read" => Len(got) = KH + KP
    BY <1>0, <2>1, <2>2
  <2> QED BY <2>1, <2>2, <2>4, <2>5 DEF KeysComeBack, KH, KP
<1> QED BY <1>1, <1>2

\* pack_pk, pack_sk and pack_sig fill exactly the bytes params.h gives them, no
\* part on top of another, and unpack_pk, unpack_sk and unpack_sig return each
\* part as it was packed, for all sizes (packing.c:39-118, 133-146).
THEOREM KeysAndSignaturesComeBack == KSpec => []KeysComeBack
BY LayoutStart, LayoutStep, LayoutGood, PTL DEF KSpec

-----------------------------------------------------------------------------
(***************************************************************************)
(* CoefficientRanges.  What a call wants depends on its name alone, and so *)
(* does what it gives: a program is safe if each call gives what the next  *)
(* one wants.                                                              *)
(***************************************************************************)
Samples == {"eta", "gamma1", "uniform"}
Others == {"ntt", "acc", "reduce", "invntt", "adddpk", "quantize", "packtbar", "packeta",
           "chknorm", "packz", "caddq", "decompose", "power2round", "packt0", "mul"}
Call == (Samples \cup Others) \X (Nat \ {0})

Top == 8380416                      \* Q - 1
Reduced == 6291200                  \* 256*(2^23 - Q) + 2^22

Between(lo, hi) == {v \in Int \X Int : lo <= v[1] /\ v[2] <= hi}
UpTo(b) == Between(-b, b)
Standard == Between(0, Top)
Ordered(S) == {v \in S : v[1] <= v[2]}

Wants(s, c) ==
    CASE c = "ntt" -> Ordered(UpTo(Top))
      [] c \in {"chknorm", "caddq", "invntt"} -> UpTo(Top)
      [] c \in {"acc", "mul"} -> Ordered(UpTo(9*Top))
      [] c = "reduce" -> UpTo(255*Top)
      [] c = "adddpk" -> UpTo(Reduced)
      [] c = "quantize" -> Ordered(Standard)
      [] c \in {"decompose", "power2round"} -> Standard
      [] c = "packtbar" -> Between(0, 2^s.tpk - 1)
      [] c = "packeta" -> UpTo(s.eta)
      [] c = "packz" -> UpTo(s.gamma1 - 1)
      [] c = "packt0" -> Between(-4095, 4096)
      [] OTHER -> Int \X Int

Gives(s, c) ==
    CASE c = "eta" -> Ordered(UpTo(s.eta))
      [] c = "gamma1" -> Ordered(UpTo(s.gamma1))
      [] c \in {"uniform", "adddpk"} -> Ordered(Standard)
      [] c = "ntt" -> Ordered(UpTo(9*Top))
      [] c = "acc" -> UpTo(255*Top)
      [] c = "reduce" -> UpTo(Reduced)
      [] c \in {"invntt", "mul"} -> UpTo(Top)
      [] c = "caddq" -> Standard
      [] c = "quantize" -> Between(0, 2^s.tpk - 1)
      [] c = "chknorm" -> UpTo(s.gamma1 - 1)
      [] c = "power2round" -> Between(-4095, 4096)
      [] OTHER -> Int \X Int

\* The polynomial a call is at, before layer k.
Doubled == <<Top, 2*Top, 4*Top, 8*Top, 16*Top, 32*Top, 64*Top, 128*Top>>
Midway(s, c, k) ==
    CASE c = "ntt" -> Ordered(UpTo(k*Top))
      [] c = "invntt" /\ k <= 8 -> UpTo(Doubled[k])
      [] c = "invntt" /\ k > 8 -> Int \X Int
      [] OTHER -> Wants(s, c)

\* Which call may come after which, and the vectors they go over.
Next2 == {<<"eta", "ntt">>, <<"eta", "packeta">>, <<"gamma1", "ntt">>, <<"gamma1", "reduce">>,
          <<"gamma1", "chknorm">>, <<"uniform", "ntt">>, <<"ntt", "acc">>, <<"ntt", "mul">>,
          <<"acc", "reduce">>, <<"reduce", "invntt">>, <<"reduce", "adddpk">>,
          <<"reduce", "chknorm">>, <<"mul", "invntt">>, <<"invntt", "reduce">>,
          <<"invntt", "caddq">>, <<"adddpk", "quantize">>, <<"quantize", "packtbar">>,
          <<"chknorm", "packz">>, <<"caddq", "decompose">>, <<"caddq", "power2round">>,
          <<"power2round", "packt0">>}
Follows(c, d) == <<c[1], d[1]>> \in Next2 /\ IF d[1] = "acc" THEN c[2] <= 255 ELSE d[2] = c[2]
Linked == prog \in Seq(Call) /\ \A n \in 1..Len(prog)-1 : Follows(prog[n], prog[n+1])

Head1 == prog[1][1]
Polys1 == prog[1][2]

VecInv ==
    IF Head1 = "acc"
    THEN /\ Len(vec) \in 1..255 /\ \A j \in 1..Len(vec) : vec[j] \in Wants(set, "acc")
         /\ out \in Seq(Int \X Int) /\ Len(out) = i - 1
         /\ \A j \in 1..i-1 : out[j] \in Gives(set, "acc")
    ELSE /\ out = <<>> /\ Len(vec) = Polys1
         /\ \A j \in 1..Polys1 :
               vec[j] \in (IF j < i THEN Gives(set, Head1) ELSE IF j = i THEN Midway(set, Head1, layer)
                           ELSE Wants(set, Head1))

HeadInv == prog # <<>> =>
    IF Head1 \in Samples THEN i = 1 /\ layer = 1 /\ out = <<>>
    ELSE /\ i \in 1..Polys1 /\ vec \in Seq(Int \X Int) /\ VecInv
         /\ layer \in 1..9 /\ (Head1 # "invntt" => layer <= 8)
         /\ (Head1 \notin {"ntt", "invntt"} => layer = 1)

RgInv == set \in Sets /\ failed = "no" /\ Linked /\ HeadInv

(***************************************************************************)
(* Induction.  The library states it for operators, which the provers do   *)
(* not instantiate, and for sets: a set of numbers has a least one.        *)
(***************************************************************************)
LEMMA LeastNumber ==
    ASSUME NEW T, T \subseteq Nat, T # {}
    PROVE  \E n \in T : \A m \in T : n <= m
<1>1. PICK R : R = OpToRel(<, Nat)
  OBVIOUS
<1>2. IsWellFoundedOn(R, Nat)
  BY <1>1, NatLessThanWellFounded
<1>3. PICK n \in T : \A m \in T : ~(<<m, n>> \in R)
  BY <1>2, WFMin
<1>4. \A m, k \in Nat : m < k => <<m, k>> \in R
  BY <1>1 DEF OpToRel
<1>5. ASSUME NEW m \in T PROVE n <= m
  <2>1. n \in Nat /\ m \in Nat
    OBVIOUS
  <2>2. ~(m < n)
    BY <1>3, <1>4, <2>1
  <2> QED BY ONLY <2>1, <2>2
<1> QED BY <1>5

LEMMA InductionOver ==
    ASSUME NEW S, 0 \in S, \A n \in Nat : n \in S => n + 1 \in S
    PROVE  Nat \subseteq S
<1> SUFFICES ASSUME ~(Nat \subseteq S) PROVE FALSE
  OBVIOUS
<1>1. PICK T : T = Nat \ S
  OBVIOUS
<1>2. T \subseteq Nat /\ T # {}
  BY <1>1
<1>3. PICK n \in T : \A m \in T : n <= m
  BY <1>2, LeastNumber
<1>4. n \in Nat /\ n # 0
  BY <1>1
<1>5. n - 1 \in Nat /\ n - 1 \notin T /\ (n - 1) + 1 = n
  BY <1>3, <1>4
<1> QED BY <1>1, <1>5

\* One more binary digit of the quotient by Q, and the remainder.
MoreDigits(d) == IF 2*d[2] >= Q THEN <<2*d[1] + 1, 2*d[2] - Q>> ELSE <<2*d[1], 2*d[2]>>
DigitsOf(x, m, f) == f = [k \in 0..m |-> IF k = 0 THEN <<0, x>> ELSE MoreDigits(f[k-1])]

LEMMA HasDigits ==
    ASSUME NEW x
    PROVE  \A m \in Nat : \E f : DigitsOf(x, m, f)
<1>1. PICK S : S = {m \in Nat : \E f : DigitsOf(x, m, f)}
  OBVIOUS
<1>2. 0 \in S
  <2>1. PICK f : f = [k \in 0..0 |-> <<0, x>>]
    OBVIOUS
  <2>2. f = [k \in 0..0 |-> IF k = 0 THEN <<0, x>> ELSE MoreDigits(f[k-1])]
    BY <2>1
  <2> QED BY <1>1, <2>2 DEF DigitsOf
<1>3. ASSUME NEW m \in Nat, m \in S PROVE m + 1 \in S
  <2>1. PICK f : f = [k \in 0..m |-> IF k = 0 THEN <<0, x>> ELSE MoreDigits(f[k-1])]
    BY <1>1, <1>3 DEF DigitsOf
  <2>2. PICK h : h = [k \in 0..m+1 |-> IF k = m + 1 THEN MoreDigits(f[m]) ELSE f[k]]
    OBVIOUS
  <2>3. ASSUME NEW k \in 0..m+1
        PROVE  h[k] = IF k = 0 THEN <<0, x>> ELSE MoreDigits(h[k-1])
    <3>1. CASE k = m + 1
      <4>1. k - 1 = m /\ m \in 0..m+1 /\ m # m + 1 /\ k # 0
        BY <3>1
      <4>2. h[k] = MoreDigits(f[m]) /\ h[m] = f[m]
        BY <2>2, <3>1, <4>1
      <4> QED BY <3>1, <4>1, <4>2
    <3>2. CASE k # m + 1
      <4>1. k \in 0..m /\ (k # 0 => k - 1 \in 0..m+1 /\ k - 1 # m + 1)
        BY <3>2
      <4>2. h[k] = f[k] /\ (k # 0 => h[k-1] = f[k-1])
        BY <2>2, <3>2, <4>1
      <4>3. f[k] = IF k = 0 THEN <<0, x>> ELSE MoreDigits(f[k-1])
        BY <2>1, <4>1
      <4> QED BY <4>2, <4>3
    <3> QED BY <3>1, <3>2
  <2>4. h = [k \in 0..m+1 |-> h[k]]
    BY <2>2
  <2>5. DigitsOf(x, m + 1, h)
    BY <2>3, <2>4 DEF DigitsOf
  <2> QED BY <1>1, <1>3, <2>5
<1>4. Nat \subseteq S
  BY <1>2, <1>3, InductionOver
<1> QED BY <1>1, <1>4

LEMMA QIsNatural == Q \in Nat /\ Q \div 2 \in Nat
BY SMT DEF Q

\* The scaled coefficient is a natural number.
LEMMA QuotientNatural ==
    ASSUME NEW bits \in Nat, NEW x \in 0..Q-1
    PROVE  QuotientTimes(bits, x) \in Nat
<1>0. Q \in Nat /\ Q \div 2 \in Nat /\ x \in Nat
  <2>1. x \in Nat
    BY QIsNatural
  <2> QED BY <2>1, QIsNatural
<1>1. \E f : f = [k \in 0..bits |-> IF k = 0 THEN <<0, x>> ELSE
                  IF 2*f[k-1][2] >= Q THEN <<2*f[k-1][1] + 1, 2*f[k-1][2] - Q>>
                                      ELSE <<2*f[k-1][1], 2*f[k-1][2]>>]
  <2>1. PICK f : DigitsOf(x, bits, f)
    BY HasDigits
  <2>2. f = [k \in 0..bits |-> IF k = 0 THEN <<0, x>> ELSE
                  IF 2*f[k-1][2] >= Q THEN <<2*f[k-1][1] + 1, 2*f[k-1][2] - Q>>
                                      ELSE <<2*f[k-1][1], 2*f[k-1][2]>>]
    BY <2>1, Zenon DEF DigitsOf, MoreDigits
  <2> QED BY <2>2, Zenon
<1> DEFINE Digits[k \in 0..bits] ==
             IF k = 0 THEN <<0, x>>
             ELSE LET d == Digits[k-1] IN
                  IF 2*d[2] >= Q THEN <<2*d[1] + 1, 2*d[2] - Q>> ELSE <<2*d[1], 2*d[2]>>
<1>2. Digits = [k \in 0..bits |-> IF k = 0 THEN <<0, x>> ELSE
                  IF 2*Digits[k-1][2] >= Q THEN <<2*Digits[k-1][1] + 1, 2*Digits[k-1][2] - Q>>
                                           ELSE <<2*Digits[k-1][1], 2*Digits[k-1][2]>>]
  BY <1>1
<1>3. QuotientTimes(bits, x) =
        Digits[bits][1] + (IF Digits[bits][2] + Q \div 2 >= Q THEN 1 ELSE 0)
  BY DEF QuotientTimes
<1> HIDE DEF Digits
<1>4. PICK S : S = {k \in Nat : k <= bits => Digits[k] \in Nat \X Nat}
  OBVIOUS
<1>5. 0 \in S
  <2>1. Digits[0] = <<0, x>>
    BY <1>2
  <2>2. <<0, x>> \in Nat \X Nat
    BY <1>0
  <2>3. 0 \in Nat /\ Digits[0] \in Nat \X Nat
    BY <2>1, <2>2
  <2> QED BY <1>4, <2>3
<1>6. ASSUME NEW k \in Nat, k \in S PROVE k + 1 \in S
  <2> SUFFICES ASSUME k + 1 <= bits PROVE Digits[k+1] \in Nat \X Nat
    BY <1>4
  <2>1. PICK d : d = Digits[k]
    OBVIOUS
  <2>2. d \in Nat \X Nat
    BY <1>4, <1>6, <2>1
  <2>3. k + 1 \in 0..bits /\ k + 1 # 0 /\ (k + 1) - 1 = k
    OBVIOUS
  <2>4. Digits[k+1] = IF 2*d[2] >= Q THEN <<2*d[1] + 1, 2*d[2] - Q>> ELSE <<2*d[1], 2*d[2]>>
    BY <1>2, <2>1, <2>3
  <2> QED BY <1>0, <2>2, <2>4
<1>7. Nat \subseteq S
  BY <1>5, <1>6, InductionOver
<1>8. Digits[bits] \in Nat \X Nat
  BY <1>4, <1>7
<1> QED BY <1>0, <1>3, <1>8

\* What a parameter set may be.
LEMMA Parameters ==
    ASSUME set \in Sets
    PROVE  /\ set.k \in Nat \ {0} /\ set.l \in Nat \ {0} /\ set.eta \in Nat \ {0}
           /\ set.gamma1 \in Nat \ {0} /\ set.gamma2 \in Nat \ {0}
           /\ set.beta \in Nat \ {0} /\ set.tpk \in Nat \ {0}
           /\ set.l <= 255 /\ set.eta <= Top /\ set.gamma1 <= Top
           /\ set.gamma1 - set.beta <= 1047552
<1>1. (Q - 1) \div 8 = 1047552 /\ Q = 8380417
  BY SMT DEF Q
<1>2. /\ {set.k, set.l, set.eta, set.gamma1, set.gamma2, set.beta, set.tpk} \subseteq Nat \ {0}
      /\ set.l <= 255 /\ set.eta < Q /\ set.gamma1 < Q
      /\ set.gamma1 - set.beta <= (Q-1) \div 8
  BY RangesAssumption
<1>3. /\ set.k \in Nat \ {0} /\ set.l \in Nat \ {0} /\ set.eta \in Nat \ {0}
      /\ set.gamma1 \in Nat \ {0} /\ set.gamma2 \in Nat \ {0}
      /\ set.beta \in Nat \ {0} /\ set.tpk \in Nat \ {0}
  BY <1>2
<1>4. set.eta <= Top /\ set.gamma1 <= Top
  BY <1>1, <1>2, <1>3, SMT DEF Top
<1>5. set.gamma1 - set.beta <= 1047552
  BY <1>1, <1>2, SMT
<1> QED BY <1>2, <1>3, <1>4, <1>5

\* A call gives what the next one wants.
LEMMA GivesWanted ==
    ASSUME set \in Sets, NEW c, NEW d, <<c, d>> \in Next2
    PROVE  Gives(set, c) \subseteq Wants(set, d)
<1>1. set.gamma1 \in Int /\ 1 <= set.gamma1 /\ set.gamma1 <= 8380416
      /\ set.eta \in Int /\ 1 <= set.eta /\ set.eta <= 8380416
  BY Parameters, SMT DEF Top
<1> SUFFICES ASSUME NEW v \in Gives(set, c) PROVE v \in Wants(set, d)
  OBVIOUS
<1>2. /\ c = "eta" => v \in Ordered(UpTo(set.eta))
      /\ c = "gamma1" => v \in Ordered(UpTo(set.gamma1))
      /\ c \in {"uniform", "adddpk"} => v \in Ordered(Standard)
      /\ c = "ntt" => v \in Ordered(UpTo(9*Top))
      /\ c = "acc" => v \in UpTo(255*Top)
      /\ c = "reduce" => v \in UpTo(Reduced)
      /\ c \in {"invntt", "mul"} => v \in UpTo(Top)
      /\ c = "caddq" => v \in Standard
      /\ c = "quantize" => v \in Between(0, 2^set.tpk - 1)
      /\ c = "chknorm" => v \in UpTo(set.gamma1 - 1)
      /\ c = "power2round" => v \in Between(-4095, 4096)
  BY SMT DEF Gives
<1>3. CASE d = "ntt"
  <2>1. v \in Ordered(UpTo(Top))
    BY <1>1, <1>2, <1>3, SMT DEF Next2, UpTo, Between, Standard, Top, Ordered
  <2> QED BY <2>1, <1>3 DEF Wants
<1>4. CASE d = "packeta"
  BY <1>2, <1>4, SMT DEF Next2, Wants, Ordered
<1>5. CASE d = "reduce"
  <2>1. v \in UpTo(255*Top)
    BY <1>1, <1>2, <1>5, SMT DEF Next2, UpTo, Between, Top, Ordered
  <2> QED BY <2>1, <1>5 DEF Wants
<1>6. CASE d = "chknorm"
  <2>1. v \in UpTo(Top)
    BY <1>1, <1>2, <1>6, SMT DEF Next2, UpTo, Between, Top, Reduced, Ordered
  <2> QED BY <2>1, <1>6 DEF Wants
<1>7. CASE d \in {"acc", "mul"}
  BY <1>2, <1>7, SMT DEF Next2, Wants
<1>8. CASE d = "invntt"
  <2>1. v \in UpTo(Top)
    BY <1>2, <1>8, SMT DEF Next2, UpTo, Between, Top, Reduced, Ordered
  <2> QED BY <2>1, <1>8 DEF Wants
<1>9. CASE d \in {"adddpk", "packtbar", "packt0", "packz"}
  BY <1>2, <1>9, SMT DEF Next2, Wants
<1>10. CASE d = "caddq"
  BY <1>2, <1>10, SMT DEF Next2, Wants
<1>11. CASE d \in {"quantize", "decompose", "power2round"}
  BY <1>2, <1>11, SMT DEF Next2, Wants, Ordered
<1> QED
  <2>1. d \in {"ntt", "packeta", "reduce", "chknorm", "acc", "mul", "invntt", "adddpk",
               "packtbar", "packt0", "packz", "caddq", "quantize", "decompose", "power2round"}
    BY DEF Next2
  <2> QED BY <2>1, <1>3, <1>4, <1>5, <1>6, <1>7, <1>8, <1>9, <1>10, <1>11

\* No sample comes after another call.
LEMMA OthersFollow ==
    ASSUME NEW c, NEW d, <<c, d>> \in Next2
    PROVE  d \in Others
BY DEF Next2, Others

\* The call is over: the next one finds what it wants.
LEMMA CallEnds ==
    ASSUME RgInv, prog # <<>>, prog' = Tail(prog), i' = 1, layer' = 1, out' = <<>>,
           set' = set, failed' = "no", vec' \in Seq(Int \X Int), Len(vec') = Polys1,
           \A j \in 1..Polys1 : vec'[j] \in Gives(set, Head1)
    PROVE  RgInv'
<1>0. set \in Sets /\ prog \in Seq(Call) /\ \A n \in 1..Len(prog)-1 : Follows(prog[n], prog[n+1])
  BY DEF RgInv, Linked
<1>1. /\ prog' \in Seq(Call) /\ Len(prog') = Len(prog) - 1 /\ Len(prog) \in Nat \ {0}
      /\ \A n \in 1..Len(prog') : prog'[n] = prog[n+1]
  BY <1>0
<1>2. Linked'
  <2>1. ASSUME NEW n \in 1..Len(prog')-1 PROVE Follows(prog'[n], prog'[n+1])
    <3>1. n + 1 \in 1..Len(prog)-1 /\ prog'[n] = prog[n+1] /\ prog'[n+1] = prog[(n+1)+1]
      BY <1>1
    <3> QED BY <3>1, <1>0
  <2> QED BY <2>1, <1>1 DEF Linked
<1>3. HeadInv'
  <2> SUFFICES ASSUME prog' # <<>>
               PROVE  /\ Head1' \notin Samples
                      /\ i' \in 1..Polys1' /\ vec' \in Seq(Int \X Int) /\ VecInv'
                      /\ layer' \in 1..9 /\ (Head1' # "invntt" => layer' <= 8)
                      /\ (Head1' \notin {"ntt", "invntt"} => layer' = 1)
    BY DEF HeadInv
  <2>1. Len(prog') >= 1 /\ 1 \in 1..Len(prog)-1 /\ prog'[1] = prog[2] /\ prog'[1] \in Call
    BY <1>1
  <2>2. Follows(prog[1], prog'[1])
    BY <2>1, <1>0
  <2>3. PICK c, d, n : c = Head1 /\ d = Head1' /\ n = Polys1
    OBVIOUS
  <2>4. /\ <<c, d>> \in Next2 /\ d = prog'[1][1] /\ prog'[1][2] = Polys1'
        /\ IF d = "acc" THEN n <= 255 ELSE Polys1' = n
    BY <2>2, <2>3 DEF Follows, Head1, Polys1
  <2>5. d \in Others /\ d \notin Samples
    BY <2>4, OthersFollow DEF Others, Samples
  <2>6. n \in Nat \ {0} /\ Polys1' \in Nat \ {0}
    <3>1. prog[1] \in Call
      BY <1>0, <1>1
    <3> QED BY <3>1, <2>1, <2>3, <2>4 DEF Call, Polys1
  <2>7. \A j \in 1..n : vec'[j] \in Wants(set, d)
    BY <2>3, <2>4, <1>0, GivesWanted
  <2>8. Wants(set, d) = Wants(set, d) /\ Wants(set, "acc") = Wants(set, "acc")
    BY DEF Wants
  <2>9. VecInv'
    <3>1. CASE d = "acc"
      <4>1. Len(vec') \in 1..255
        BY <3>1, <2>3, <2>4, <2>6
      <4>2. \A j \in 1..Len(vec') : vec'[j] \in Wants(set, "acc")
        BY <3>1, <2>3, <2>7, <2>8
      <4>3. out' \in Seq(Int \X Int) /\ Len(out') = i' - 1 /\ 1..i'-1 = {}
        OBVIOUS
      <4> QED BY <3>1, <2>3, <4>1, <4>2, <4>3 DEF VecInv
    <3>2. CASE d # "acc"
      <4>1. Polys1' = n /\ Len(vec') = n
        BY <3>2, <2>3, <2>4
      <4>2. Midway(set, d, layer') = Wants(set, d)
        <5>1. /\ Midway(set, d, layer') = CASE d = "ntt" -> Ordered(UpTo(1*Top))
                 [] d = "invntt" -> UpTo(Top)
                 [] OTHER -> Wants(set, d)
          BY <2>8, SMT DEF Midway, Doubled
        <5>2. /\ d = "ntt" => Wants(set, d) = Ordered(UpTo(Top))
              /\ d = "invntt" => Wants(set, d) = UpTo(Top)
          BY DEF Wants
        <5>3. 1*Top = Top
          BY SMT DEF Top
        <5> QED BY <5>1, <5>2, <5>3
      <4>3. ASSUME NEW j \in 1..n
            PROVE  vec'[j] \in (IF j < i' THEN Gives(set, d) ELSE IF j = i' THEN Midway(set, d, layer')
                                ELSE Wants(set, d))
        <5>1. ~(j < i')
          OBVIOUS
        <5>2. vec'[j] \in Wants(set, d)
          BY <2>7
        <5> QED BY <5>1, <5>2, <4>2, <2>8
      <4> QED BY <3>2, <2>3, <4>1, <4>3 DEF VecInv
    <3> QED BY <3>1, <3>2
  <2> QED BY <2>3, <2>5, <2>6, <2>9
<1> QED BY <1>0, <1>2, <1>3 DEF RgInv

\* The call goes on to the next polynomial.
LEMMA OnePolynomial ==
    ASSUME RgInv, NEW c \in Others \ {"acc"}, prog # <<>>, Head1 = c, NEW w,
           w \in Gives(set, c), vec' = [vec EXCEPT ![i] = w], Advance, layer' = 1,
           set' = set, out' = out, failed' = "no"
    PROVE  RgInv'
<1>0. /\ c \notin Samples /\ i \in 1..Polys1 /\ vec \in Seq(Int \X Int) /\ out = <<>>
      /\ Len(vec) = Polys1
      /\ \A j \in 1..Polys1 :
            vec[j] \in (IF j < i THEN Gives(set, c) ELSE IF j = i THEN Midway(set, c, layer) ELSE Wants(set, c))
  BY DEF RgInv, HeadInv, VecInv, Others, Samples
<1>1. prog \in Seq(Call) /\ set \in Sets
  BY DEF RgInv, Linked
<1>2. Polys1 \in Nat \ {0}
  BY <1>1 DEF Call, Polys1
<1>3. Gives(set, c) \subseteq Int \X Int
  BY Parameters, <1>1 DEF Gives, UpTo, Between, Standard, Ordered
<1>4. /\ vec' \in Seq(Int \X Int) /\ Len(vec') = Polys1
      /\ \A j \in 1..Polys1 : vec'[j] = IF j = i THEN w ELSE vec[j]
  BY <1>0, <1>2, <1>3
<1>5. CASE i < Polys1
  <2>1. i' = i + 1 /\ prog' = prog
    BY <1>5 DEF Advance, Polys1
  <2>2. Head1' = c /\ Polys1' = Polys1
    BY <2>1 DEF Head1, Polys1
  <2>3. Gives(set, c) = Gives(set, c) /\ Wants(set, c) = Wants(set, c)
    BY DEF Gives, Wants
  <2>4. Midway(set, c, layer') = Wants(set, c)
    <3>1. CASE c = "ntt"
      <4>1. Midway(set, c, layer') = Ordered(UpTo(1*Top))
        BY <3>1, SMT DEF Midway
      <4>2. 1*Top = Top
        BY SMT DEF Top
      <4> QED BY <3>1, <4>1, <4>2 DEF Wants
    <3>2. CASE c = "invntt"
      BY <3>2, SMT DEF Midway, Doubled, Wants
    <3>3. CASE c \notin {"ntt", "invntt"}
      BY <3>3, <2>3 DEF Midway
    <3> QED BY <3>1, <3>2, <3>3
  <2>5. ASSUME NEW j \in 1..Polys1
        PROVE  vec'[j] \in (IF j < i' THEN Gives(set, c) ELSE IF j = i' THEN Midway(set, c, layer') ELSE Wants(set, c))
    <3>1. CASE j = i
      BY <3>1, <2>1, <2>3, <1>0, <1>4
    <3>2. CASE j < i
      BY <3>2, <2>1, <2>3, <1>0, <1>4
    <3>3. CASE j > i
      BY <3>3, <2>1, <2>3, <2>4, <1>0, <1>4
    <3> QED BY <3>1, <3>2, <3>3, <1>0, <1>2
  <2>6. VecInv'
    BY <2>2, <2>5, <1>0, <1>4 DEF VecInv
  <2>7. HeadInv'
    BY <2>1, <2>2, <2>6, <1>0, <1>2, <1>4, <1>5 DEF HeadInv
  <2> QED BY <2>1, <2>7, <1>1 DEF RgInv, Linked
<1>6. CASE ~(i < Polys1)
  <2>1. i' = 1 /\ prog' = Tail(prog) /\ i = Polys1
    <3>1. i' = 1 /\ prog' = Tail(prog)
      BY <1>6 DEF Advance, Polys1
    <3>2. i = Polys1
      BY <1>0, <1>2, <1>6
    <3> QED BY <3>1, <3>2
  <2>2. \A j \in 1..Polys1 : vec'[j] \in Gives(set, Head1)
    BY <2>1, <1>0, <1>2, <1>4
  <2> QED BY <2>1, <2>2, <1>0, <1>4, CallEnds
<1> QED BY <1>5, <1>6

\* The call goes on with the polynomial it is at.
LEMMA OneLayer ==
    ASSUME RgInv, NEW c \in {"ntt", "invntt"}, prog # <<>>, Head1 = c, NEW w,
           w \in Midway(set, c, layer'), vec' = [vec EXCEPT ![i] = w], w \in Int \X Int,
           layer' \in 1..9, c # "invntt" => layer' <= 8,
           set' = set, prog' = prog, i' = i, out' = out, failed' = "no"
    PROVE  RgInv'
<1>0. /\ c \notin Samples /\ i \in 1..Polys1 /\ vec \in Seq(Int \X Int) /\ out = <<>>
      /\ Len(vec) = Polys1
      /\ \A j \in 1..Polys1 :
            vec[j] \in (IF j < i THEN Gives(set, c) ELSE IF j = i THEN Midway(set, c, layer) ELSE Wants(set, c))
  BY DEF RgInv, HeadInv, VecInv, Samples
<1>1. prog \in Seq(Call) /\ set \in Sets
  BY DEF RgInv, Linked
<1>2. Polys1 \in Nat \ {0}
  BY <1>1 DEF Call, Polys1
<1>3. /\ vec' \in Seq(Int \X Int) /\ Len(vec') = Polys1
      /\ \A j \in 1..Polys1 : vec'[j] = IF j = i THEN w ELSE vec[j]
  BY <1>0, <1>2
<1>4. Head1' = c /\ Polys1' = Polys1 /\ Gives(set, c) = Gives(set, c) /\ Wants(set, c) = Wants(set, c)
  BY DEF Head1, Polys1, Gives, Wants
<1>5. ASSUME NEW j \in 1..Polys1
      PROVE  vec'[j] \in (IF j < i' THEN Gives(set, c) ELSE IF j = i' THEN Midway(set, c, layer') ELSE Wants(set, c))
  <2>1. CASE j = i
    BY <2>1, <1>0, <1>3
  <2>2. CASE j # i
    BY <2>2, <1>0, <1>3, <1>4
  <2> QED BY <2>1, <2>2
<1>6. VecInv'
  BY <1>3, <1>4, <1>5, <1>0 DEF VecInv
<1>7. HeadInv'
  BY <1>0, <1>3, <1>4, <1>6 DEF HeadInv
<1> QED BY <1>7, <1>1 DEF RgInv, Linked

\* What the call finds.
LEMMA AtPolynomial ==
    ASSUME RgInv, prog # <<>>, NEW c \in Others \ {"acc"}, Head1 = c
    PROVE  /\ vec[i] \in Midway(set, c, layer) /\ layer \in 1..9 /\ (c # "invntt" => layer <= 8)
           /\ set \in Sets
           /\ c \notin {"ntt", "invntt"} => layer = 1 /\ vec[i] \in Wants(set, c)
<1>1. /\ i \in 1..Polys1 /\ layer \in 1..9 /\ (c # "invntt" => layer <= 8)
      /\ c \notin {"ntt", "invntt"} => layer = 1
      /\ vec[i] \in Midway(set, c, layer) /\ set \in Sets
  BY DEF RgInv, HeadInv, VecInv, Others, Samples
<1>2. c \notin {"ntt", "invntt"} => Midway(set, c, layer) = Wants(set, c)
  BY DEF Midway
<1> QED BY <1>1, <1>2

\* What its name says of a call's step.
LEMMA CallNamed ==
    ASSUME NEW c, Running(c)
    PROVE  prog # <<>> /\ Head1 = c
BY DEF Running, Head1

\* A pair of integers.
LEMMA Pairs ==
    ASSUME NEW a \in Int, NEW b \in Int
    PROVE  <<a, b>> \in Int \X Int /\ <<a, b>>[1] = a /\ <<a, b>>[2] = b
OBVIOUS

LEMMA SampleKeeps ==
    ASSUME RgInv, NEW c \in Samples, NEW lo \in Int, NEW hi \in Int,
           <<lo, hi>> \in Gives(set, c), Sample(c, lo, hi)
    PROVE  RgInv'
<1>1. prog # <<>> /\ Head1 = c
  BY CallNamed DEF Sample
<1>2. i = 1 /\ layer = 1 /\ out = <<>> /\ prog \in Seq(Call) /\ failed = "no"
  BY <1>1 DEF RgInv, HeadInv, Linked
<1>3. Polys1 \in Nat \ {0}
  BY <1>1, <1>2 DEF Call, Polys1
<1>4. vec' = [k \in 1..Polys1 |-> <<lo, hi>>]
  BY DEF Sample, Polys1
<1>5. /\ vec' \in Seq(Int \X Int) /\ Len(vec') = Polys1
      /\ \A j \in 1..Polys1 : vec'[j] \in Gives(set, Head1)
  BY <1>1, <1>3, <1>4
<1>6. /\ prog' = Tail(prog) /\ i' = 1 /\ layer' = 1 /\ out' = <<>> /\ set' = set
      /\ failed' = "no"
  BY <1>2 DEF Sample
<1> QED BY <1>1, <1>5, <1>6, CallEnds

LEMMA SamplesKeep ==
    ASSUME RgInv, SampleEta \/ SampleGamma1 \/ SampleUniform
    PROVE  RgInv'
<1>1. set \in Sets
  BY DEF RgInv
<1>2. set.eta \in Nat /\ set.gamma1 \in Nat \ {0}
  BY <1>1, Parameters
<1>3. CASE SampleEta
  <2>1. PICK e : e = set.eta
    OBVIOUS
  <2>2. <<-e, e>> \in Gives(set, "eta")
    BY <1>2, <2>1 DEF Gives, Ordered, UpTo, Between
  <2>3. Sample("eta", -e, e)
    BY <1>3, <2>1 DEF SampleEta, Sample
  <2> QED BY <2>1, <2>2, <2>3, <1>2, SampleKeeps DEF Samples
<1>4. CASE SampleGamma1
  <2>1. PICK g1 : g1 = set.gamma1
    OBVIOUS
  <2>2. <<1 - g1, g1>> \in Gives(set, "gamma1")
    BY <1>2, <2>1 DEF Gives, Ordered, UpTo, Between
  <2>3. Sample("gamma1", 1 - g1, g1)
    BY <1>4, <2>1 DEF SampleGamma1, Sample
  <2> QED BY <2>1, <2>2, <2>3, <1>2, SampleKeeps DEF Samples
<1>5. CASE SampleUniform
  <2>1. <<0, Q - 1>> \in Gives(set, "uniform") /\ Q - 1 \in Int
    BY SMT DEF Gives, Ordered, Standard, Between, Top, Q
  <2> QED BY <2>1, <1>5, SampleKeeps DEF Samples, SampleUniform
<1> QED BY <1>3, <1>4, <1>5

\* Min and Max of two integers.
LEMMA OneOfTwo ==
    ASSUME NEW a \in Int, NEW b \in Int
    PROVE  /\ Min({a, b}) \in {a, b} /\ Min({a, b}) <= a /\ Min({a, b}) <= b
           /\ Max({a, b}) \in {a, b} /\ Max({a, b}) >= a /\ Max({a, b}) >= b
<1>1. \E x \in {a, b} : \A y \in {a, b} : x <= y
  <2>1. CASE a <= b
    BY <2>1
  <2>2. CASE b <= a
    BY <2>2
  <2> QED BY <2>1, <2>2
<1>2. \E x \in {a, b} : \A y \in {a, b} : x >= y
  <2>1. CASE a <= b
    BY <2>1
  <2>2. CASE b <= a
    BY <2>2
  <2> QED BY <2>1, <2>2
<1>3. Min({a, b}) \in {a, b} /\ \A y \in {a, b} : Min({a, b}) <= y
  BY <1>1 DEF Min
<1>4. Max({a, b}) \in {a, b} /\ \A y \in {a, b} : Max({a, b}) >= y
  BY <1>2 DEF Max
<1> QED BY <1>3, <1>4

\* What power2round and poly_reduce leave.
T0Range == <<-4095, 4096>>
ReducedRange(v) ==
    IF Quotient(v[1]) = Quotient(v[2]) THEN <<Reduce32(v[1]), Reduce32(v[2])>>
    ELSE <<Quotient(v[1])*(8388608 - Q) - 4194304, Quotient(v[2])*(8388608 - Q) + 4194303>>

LEMMA LayersKeep ==
    ASSUME RgInv, NttLayer \/ InvNttLayer \/ ToMont
    PROVE  RgInv'
<1>1. /\ Max32 - (Q-1) = 2139103231 /\ Max32 \div 2 = 1073741823
      /\ Q - 1 = 8380416 /\ 1 - Q = -8380416
  BY SMT DEF Q, Max32
<1>2. prog # <<>> /\ set' = set
  BY CallNamed DEF NttLayer, InvNttLayer, ToMont
<1>3. PICK v : v = vec[i]
  OBVIOUS
<1>4. CASE NttLayer
  <2>1. Head1 = "ntt"
    BY <1>4, CallNamed DEF NttLayer
  <2>2. v \in Midway(set, "ntt", layer) /\ layer \in 1..8
    BY <2>1, <1>2, <1>3, AtPolynomial DEF Others
  <2>3. PICK n : n = layer
    OBVIOUS
  <2>4. /\ v[1] \in Int /\ v[2] \in Int /\ n \in 1..8 /\ v[1] <= v[2]
        /\ -(n*8380416) <= v[1] /\ v[2] <= n*8380416
    BY <2>2, <2>3, SMT DEF Midway, Ordered, UpTo, Between, Top
  <2>5. Small(v, Max32 - (Q-1))
    BY <1>1, <2>4, SMT DEF Small, Within
  <2>6. PICK w : w = <<v[1] - (Q-1), v[2] + (Q-1)>>
    OBVIOUS
  <2>7. /\ w \in Int \X Int /\ w[1] <= w[2]
        /\ -((n+1)*8380416) <= w[1] /\ w[2] <= (n+1)*8380416
    BY <1>1, <2>4, <2>6, SMT
  <2>8. vec' = [vec EXCEPT ![i] = w] /\ failed' = "no" /\ out' = out
    BY <1>3, <1>4, <2>5, <2>6 DEF NttLayer
  <2>9. CASE n < 8
    <3>1. layer' = n + 1 /\ i' = i /\ prog' = prog
      BY <1>4, <2>3, <2>9 DEF NttLayer
    <3>2. w \in Midway(set, "ntt", layer')
      BY <2>7, <3>1, SMT DEF Midway, Ordered, UpTo, Between, Top
    <3>3. layer' \in 1..9 /\ layer' <= 8
      BY <3>1, <2>4, <2>9
    <3>4. w \in Int \X Int
      BY <2>7
    <3> QED BY <1>2, <2>1, <2>8, <3>1, <3>2, <3>3, <3>4, OneLayer
  <2>10. CASE ~(n < 8)
    <3>1. layer' = 1 /\ Advance
      BY <1>4, <2>3, <2>10 DEF NttLayer
    <3>2. n = 8
      BY <2>4, <2>10
    <3>3. w \in Gives(set, "ntt")
      BY <2>7, <3>2, SMT DEF Gives, Ordered, UpTo, Between, Top
    <3> QED BY <1>2, <2>1, <2>8, <3>1, <3>3, OnePolynomial DEF Others
  <2> QED BY <2>9, <2>10
<1>5. CASE InvNttLayer
  <2>1. Head1 = "invntt" /\ layer <= 8
    BY <1>5, CallNamed DEF InvNttLayer
  <2>2. v \in Midway(set, "invntt", layer) /\ layer \in 1..8
    BY <2>1, <1>2, <1>3, AtPolynomial DEF Others
  <2>3. PICK d : d = Doubled[layer]
    OBVIOUS
  <2>4. /\ d \in Int /\ 8380416 <= d /\ d <= 1072693248
        /\ layer <= 7 => Doubled[layer + 1] = 2*d
    BY <2>2, <2>3, SMT DEF Doubled, Top
  <2>5. v[1] \in Int /\ v[2] \in Int /\ -d <= v[1] /\ v[2] <= d
    BY <2>2, <2>3, SMT DEF Midway, UpTo, Between
  <2>6. Small(v, Max32 \div 2)
    BY <1>1, <2>4, <2>5, SMT DEF Small, Within
  <2>7. PICK w : w = Hull(<<2*v[1], 2*v[2]>>, <<1-Q, Q-1>>)
    OBVIOUS
  <2>8. w \in Int \X Int /\ -(2*d) <= w[1] /\ w[2] <= 2*d
    <3>1. w = <<Min({2*v[1], 1 - Q}), Max({2*v[2], Q - 1})>>
      BY <2>7 DEF Hull
    <3>2. /\ 2*v[1] \in Int /\ 2*v[2] \in Int /\ 1 - Q \in Int /\ Q - 1 \in Int
          /\ -(2*d) <= 2*v[1] /\ 2*v[2] <= 2*d /\ -(2*d) <= 1 - Q /\ Q - 1 <= 2*d
      BY <1>1, <2>4, <2>5, SMT
    <3>3. Min({2*v[1], 1 - Q}) \in {2*v[1], 1 - Q} /\ Max({2*v[2], Q - 1}) \in {2*v[2], Q - 1}
      BY <3>2, OneOfTwo
    <3> QED BY <2>4, <3>1, <3>2, <3>3
  <2>9. vec' = [vec EXCEPT ![i] = w] /\ failed' = "no" /\ out' = out
    BY <1>3, <1>5, <2>6, <2>7 DEF InvNttLayer
  <2>10. layer' = layer + 1 /\ i' = i /\ prog' = prog
    BY <1>5 DEF InvNttLayer
  <2>11. w \in Midway(set, "invntt", layer')
    <3>1. CASE layer <= 7
      <4>1. layer' \in Nat /\ layer' <= 8 /\ Doubled[layer'] = 2*d
        BY <3>1, <2>2, <2>4, <2>10
      <4>2. Midway(set, "invntt", layer') = UpTo(Doubled[layer'])
        BY <4>1, SMT DEF Midway
      <4> QED BY <2>8, <4>1, <4>2, SMT DEF UpTo, Between
    <3>2. CASE ~(layer <= 7)
      <4>1. layer' > 8 /\ ~(layer' <= 8)
        BY <3>2, <2>2, <2>10
      <4>2. Midway(set, "invntt", layer') = Int \X Int
        BY <4>1, SMT DEF Midway
      <4> QED BY <2>8, <4>2
    <3> QED BY <3>1, <3>2
  <2>12. layer' \in 1..9
    BY <2>2, <2>10
  <2> QED BY <1>2, <2>1, <2>8, <2>9, <2>10, <2>11, <2>12, OneLayer
<1>6. CASE ToMont
  <2>1. Head1 = "invntt"
    BY <1>6, CallNamed DEF ToMont
  <2>2. PICK w : w = <<1 - Q, Q - 1>>
    OBVIOUS
  <2>3. w \in Gives(set, "invntt")
    BY <1>1, <2>2, SMT DEF Gives, UpTo, Between, Top
  <2>4. /\ vec' = [vec EXCEPT ![i] = w] /\ failed' = "no" /\ out' = out /\ layer' = 1 /\ Advance
    BY <1>6, <2>2 DEF ToMont, RgInv
  <2> QED BY <1>2, <2>1, <2>3, <2>4, OnePolynomial DEF Others
<1> QED BY <1>4, <1>5, <1>6

\* A step of a loop over the polynomials.
LEMMA EachKeeps ==
    ASSUME RgInv, NEW c \in Others \ {"acc", "ntt", "invntt"}, prog # <<>>, Head1 = c,
           NEW w, w \in Gives(set, c), vec' = [vec EXCEPT ![i] = w], failed' = "no",
           Advance, UNCHANGED <<set, layer, out>>
    PROVE  RgInv'
<1>1. layer = 1
  BY AtPolynomial
<1> QED BY <1>1, OnePolynomial

LEMMA PacksKeep ==
    ASSUME RgInv, PackEta \/ PackZ \/ PackTbar \/ PackT0
    PROVE  RgInv'
<1>0. set \in Sets
  BY DEF RgInv
<1>1. /\ set.eta \in Nat /\ set.gamma1 \in Nat
      /\ set.tpk \in Nat
  BY <1>0, Parameters
<1>2. PICK v : v = vec[i]
  OBVIOUS
<1>3. CASE PackEta
  <2>1. prog # <<>> /\ Head1 = "packeta"
    BY <1>3, CallNamed DEF PackEta, Pack, Each
  <2>2. v \in Wants(set, "packeta")
    BY <2>1, <1>2, AtPolynomial DEF Others
  <2>3. Within(v, -set.eta, set.eta) /\ v \in Gives(set, "packeta")
    BY <2>2, <1>1 DEF Wants, Gives, UpTo, Between, Within
  <2>4. vec' = [vec EXCEPT ![i] = v] /\ failed' = "no" /\ Advance /\ UNCHANGED <<set, layer, out>>
    BY <1>3, <1>2, <2>3 DEF PackEta, Pack, Each
  <2> QED BY <2>1, <2>3, <2>4, EachKeeps DEF Others
<1>4. CASE PackZ
  <2>1. prog # <<>> /\ Head1 = "packz"
    BY <1>4, CallNamed DEF PackZ, Pack, Each
  <2>2. v \in Wants(set, "packz")
    BY <2>1, <1>2, AtPolynomial DEF Others
  <2>3. Within(v, 1 - set.gamma1, set.gamma1) /\ v \in Gives(set, "packz")
    BY <2>2, <1>1 DEF Wants, Gives, UpTo, Between, Within
  <2>4. vec' = [vec EXCEPT ![i] = v] /\ failed' = "no" /\ Advance /\ UNCHANGED <<set, layer, out>>
    BY <1>4, <1>2, <2>3 DEF PackZ, Pack, Each
  <2> QED BY <2>1, <2>3, <2>4, EachKeeps DEF Others
<1>5. CASE PackTbar
  <2>1. prog # <<>> /\ Head1 = "packtbar"
    BY <1>5, CallNamed DEF PackTbar, Pack, Each
  <2>2. v \in Wants(set, "packtbar")
    BY <2>1, <1>2, AtPolynomial DEF Others
  <2>3. Within(v, 0, 2^set.tpk - 1) /\ v \in Gives(set, "packtbar")
    BY <2>2 DEF Wants, Gives, Between, Within
  <2>4. vec' = [vec EXCEPT ![i] = v] /\ failed' = "no" /\ Advance /\ UNCHANGED <<set, layer, out>>
    BY <1>5, <1>2, <2>3 DEF PackTbar, Pack, Each
  <2> QED BY <2>1, <2>3, <2>4, EachKeeps DEF Others
<1>6. CASE PackT0
  <2>1. prog # <<>> /\ Head1 = "packt0"
    BY <1>6, CallNamed DEF PackT0, Pack, Each
  <2>2. v \in Wants(set, "packt0")
    BY <2>1, <1>2, AtPolynomial DEF Others
  <2>3. Within(v, -4095, 4096)
    BY <2>2, SMT DEF Wants, Gives, Between, Within
  <2>4. vec' = [vec EXCEPT ![i] = v] /\ failed' = "no" /\ Advance /\ UNCHANGED <<set, layer, out>>
    BY <1>6, <1>2, <2>3, SMT DEF PackT0, Pack, Each
  <2>5. v \in Gives(set, "packt0")
    BY <2>2, SMT DEF Wants, Gives, Between
  <2> QED BY <2>1, <2>4, <2>5, EachKeeps DEF Others
<1> QED BY <1>3, <1>4, <1>5, <1>6

LEMMA ReductionsKeep ==
    ASSUME RgInv, CaddQ \/ AddDpk \/ Decompose \/ Power2 \/ ReduceAll
    PROVE  RgInv'
<1>0. set \in Sets
  BY DEF RgInv
<1>1. /\ Q = 8380417 /\ Max32 = 2147483647
  BY SMT DEF Q, Max32
<1>2. PICK v : v = vec[i]
  OBVIOUS
<1>3. CASE CaddQ
  <2>1. prog # <<>> /\ Head1 = "caddq"
    BY <1>3, CallNamed DEF CaddQ, Each
  <2>2. v \in Wants(set, "caddq")
    BY <2>1, <1>2, AtPolynomial DEF Others
  <2>3. PICK w : w = (IF v[1] >= 0 THEN v ELSE <<0, Q-1>>)
    OBVIOUS
  <2>4. v[1] \in Int /\ v[2] \in Int /\ -8380416 <= v[1] /\ v[2] <= 8380416 /\ v \in Int \X Int
    BY <2>2, SMT DEF Wants, UpTo, Between, Top
  <2>5. Small(v, Q-1)
    BY <1>1, <2>4, SMT DEF Small, Within
  <2>6. w \in Standard
    BY <1>1, <2>3, <2>4, SMT DEF Standard, Between, Top
  <2>7. vec' = [vec EXCEPT ![i] = w] /\ failed' = "no" /\ Advance /\ UNCHANGED <<set, layer, out>>
    BY <1>3, <1>2, <2>3, <2>5 DEF CaddQ, Each
  <2>8. w \in Gives(set, "caddq")
    BY <2>6 DEF Gives
  <2> QED BY <2>1, <2>7, <2>8, EachKeeps DEF Others
<1>4. CASE AddDpk
  <2>1. prog # <<>> /\ Head1 = "adddpk"
    BY <1>4, CallNamed DEF AddDpk, Each
  <2>2. v \in Wants(set, "adddpk")
    BY <2>1, <1>2, AtPolynomial DEF Others
  <2>3. PICK w : w = <<0, Q-1>>
    OBVIOUS
  <2>4. v[1] >= -Max32 /\ v[2] <= Max32 - (Q-1)
    BY <1>1, <2>2, SMT DEF Wants, UpTo, Between, Reduced
  <2>5. w \in Gives(set, "adddpk")
    BY <1>1, <2>3, SMT DEF Gives, Standard, Between, Top, Ordered
  <2>6. vec' = [vec EXCEPT ![i] = w] /\ failed' = "no" /\ Advance /\ UNCHANGED <<set, layer, out>>
    BY <1>4, <1>2, <2>3, <2>4 DEF AddDpk, Each
  <2> QED BY <2>1, <2>5, <2>6, EachKeeps DEF Others
<1>5. CASE Decompose
  <2>1. prog # <<>> /\ Head1 = "decompose"
    BY <1>5, CallNamed DEF Decompose, Each
  <2>2. v \in Wants(set, "decompose")
    BY <2>1, <1>2, AtPolynomial DEF Others
  <2>3. PICK g1 : g1 = set.gamma2 /\ g1 \in Int
    BY <1>0, Parameters
  <2>4. PICK w : w = <<-g1, g1>>
    OBVIOUS
  <2>5. Within(v, 0, Q - 1)
    BY <1>1, <2>2, SMT DEF Wants, Standard, Between, Top, Within
  <2>6. w \in Gives(set, "decompose")
    BY <2>3, <2>4 DEF Gives
  <2>7. vec' = [vec EXCEPT ![i] = w] /\ failed' = "no" /\ Advance /\ UNCHANGED <<set, layer, out>>
    BY <1>5, <1>2, <2>3, <2>4, <2>5 DEF Decompose, Each
  <2> QED BY <2>1, <2>6, <2>7, EachKeeps DEF Others
<1>6. CASE Power2
  <2>1. prog # <<>> /\ Head1 = "power2round"
    BY <1>6, CallNamed DEF Power2, Each
  <2>2. v \in Wants(set, "power2round")
    BY <2>1, <1>2, AtPolynomial DEF Others
  <2>3. PICK w : w = T0Range
    OBVIOUS
  <2>4. Within(v, 0, Q - 1)
    BY <1>1, <2>2, SMT DEF Wants, Standard, Between, Top, Within
  <2>5. w \in Gives(set, "power2round")
    BY <2>3, SMT DEF Gives, Between, T0Range
  <2>6. vec' = [vec EXCEPT ![i] = w] /\ failed' = "no" /\ Advance /\ UNCHANGED <<set, layer, out>>
    BY <1>6, <1>2, <2>3, <2>4, SMT DEF Power2, Each, T0Range
  <2> QED BY <2>1, <2>5, <2>6, EachKeeps DEF Others
<1>7. CASE ReduceAll
  <2>1. prog # <<>> /\ Head1 = "reduce"
    BY <1>7, CallNamed DEF ReduceAll, Each
  <2>2. v \in Wants(set, "reduce")
    BY <2>1, <1>2, AtPolynomial DEF Others
  <2>3. /\ v[1] \in Int /\ v[2] \in Int /\ -2137006080 <= v[1] /\ v[2] <= 2137006080
    BY <2>2, SMT DEF Wants, UpTo, Between, Top
  <2>4. PICK w : w = ReducedRange(v)
    OBVIOUS
  <2>5. v[2] <= Max32 - 4194304 /\ v[1] >= -Max32
    BY <1>1, <2>3, SMT
  <2>6. /\ Quotient(v[1]) \in Int /\ Quotient(v[1]) >= -255
        /\ Quotient(v[1])*8388608 - 4194304 <= v[1]
        /\ v[1] <= Quotient(v[1])*8388608 + 4194303
    BY <2>3, SMT DEF Quotient
  <2>7. /\ Quotient(v[2]) \in Int /\ Quotient(v[2]) <= 255
        /\ Quotient(v[2])*8388608 - 4194304 <= v[2]
        /\ v[2] <= Quotient(v[2])*8388608 + 4194303
    BY <2>3, SMT DEF Quotient
  <2>8. /\ Reduce32(v[1]) = v[1] - Quotient(v[1])*8380417
        /\ Reduce32(v[2]) = v[2] - Quotient(v[2])*8380417
    BY <1>1 DEF Reduce32
  <2>9. w \in Int \X Int /\ -6291200 <= w[1] /\ w[2] <= 6291200
    <3>1. PICK p, q : p = Quotient(v[1]) /\ q = Quotient(v[2])
      OBVIOUS
    <3>2. CASE p = q
      <4>1. w = <<v[1] - p*8380417, v[2] - q*8380417>>
        <5>1. Quotient(v[1]) = Quotient(v[2])
          BY <3>1, <3>2
        <5>2. w = <<Reduce32(v[1]), Reduce32(v[2])>>
          BY <5>1, <2>4, SMT DEF ReducedRange
        <5>3. /\ Reduce32(v[1]) = v[1] - p*8380417
              /\ Reduce32(v[2]) = v[2] - q*8380417
          BY <2>8, <3>1, SMT
        <5> QED BY <5>2, <5>3, SMT
      <4> QED BY <4>1, <2>3, <2>6, <2>7, <3>1, <3>2, SMT
    <3>3. CASE p # q
      <4>1. w = <<p*8191 - 4194304, q*8191 + 4194303>>
        <5>1. 8388608 - Q = 8191
          BY <1>1, SMT
        <5> QED BY <5>1, <3>1, <3>3, <2>4, SMT DEF ReducedRange
      <4> QED BY <4>1, <2>6, <2>7, <3>1, SMT
    <3> QED BY <3>2, <3>3
  <2>10. w \in Gives(set, "reduce")
    BY <2>9, SMT DEF Gives, UpTo, Between, Reduced
  <2>11. vec' = [vec EXCEPT ![i] = w] /\ failed' = "no" /\ Advance /\ UNCHANGED <<set, layer, out>>
    BY <1>7, <1>2, <2>4, <2>5, SMT DEF ReduceAll, Each, ReducedRange
  <2> QED BY <2>1, <2>10, <2>11, EachKeeps DEF Others
<1> QED BY <1>3, <1>4, <1>5, <1>6, <1>7

LEMMA ChknormKeeps ==
    ASSUME RgInv, Chknorm
    PROVE  RgInv'
<1>1. /\ (Q-1) \div 8 = 1047552 /\ Max32 \div 2 = 1073741823
  BY SMT DEF Q, Max32
<1>2. PICK v : v = vec[i]
  OBVIOUS
<1>3. prog # <<>> /\ Head1 = "chknorm"
  BY CallNamed DEF Chknorm, Each
<1>4. v \in Wants(set, "chknorm") /\ set \in Sets
  BY <1>2, <1>3, AtPolynomial DEF Others
<1>5. v[1] \in Int /\ v[2] \in Int /\ -8380416 <= v[1] /\ v[2] <= 8380416
  BY <1>4, SMT DEF Wants, UpTo, Between, Top
<1>6. PICK B, g1 : B = set.gamma1 - set.beta /\ g1 = set.gamma1
  OBVIOUS
<1>7. B \in Int /\ g1 \in Int /\ B <= 1047552 /\ B <= g1 - 1
  BY <1>4, <1>6, Parameters, SMT
<1>8. B <= (Q-1) \div 8 /\ Small(v, Max32 \div 2)
  BY <1>1, <1>5, <1>7, SMT DEF Small, Within
<1>9. PICK w : w = Meet(v, <<1-B, B-1>>)
  OBVIOUS
<1>10. w \in Int \X Int /\ w[1] >= -(g1 - 1) /\ w[2] <= g1 - 1
  <2>1. w = <<Max({v[1], 1 - B}), Min({v[2], B - 1})>>
    BY <1>9 DEF Meet
  <2>2. v[1] \in Int /\ v[2] \in Int /\ 1 - B \in Int /\ B - 1 \in Int
    BY <1>5, <1>7
  <2>3. /\ Max({v[1], 1 - B}) \in Int /\ Max({v[1], 1 - B}) >= 1 - B
        /\ Min({v[2], B - 1}) \in Int /\ Min({v[2], B - 1}) <= B - 1
    <3>1. /\ Max({v[1], 1 - B}) \in {v[1], 1 - B} /\ Max({v[1], 1 - B}) >= 1 - B
          /\ Min({v[2], B - 1}) \in {v[2], B - 1} /\ Min({v[2], B - 1}) <= B - 1
      BY <2>2, OneOfTwo
    <3> QED BY <2>2, <3>1
  <2> QED BY <1>7, <2>1, <2>3
<1>11. w \in Gives(set, "chknorm")
  BY <1>6, <1>7, <1>10 DEF Gives, UpTo, Between
<1>12. vec' = [vec EXCEPT ![i] = w] /\ failed' = "no" /\ Advance /\ UNCHANGED <<set, layer, out>>
  BY <1>2, <1>6, <1>8, <1>9 DEF Chknorm, Each
<1> QED BY <1>3, <1>11, <1>12, EachKeeps DEF Others

\* The product fits: of at most 8 multiples of Q and a coefficient above.
LEMMA MulKeeps ==
    ASSUME RgInv, Mul
    PROVE  RgInv'
<1>1. Q = 8380417 /\ Max32 = 2147483647 /\ 1 - Q = -8380416 /\ Q - 1 = 8380416
  BY SMT DEF Q, Max32
<1>2. PICK v : v = vec[i]
  OBVIOUS
<1>3. prog # <<>> /\ Head1 = "mul"
  BY CallNamed DEF Mul, Each
<1>4. v \in Wants(set, "mul")
  BY <1>2, <1>3, AtPolynomial DEF Others
<1>5. /\ v[1] \in Int /\ v[2] \in Int /\ v[1] <= v[2]
      /\ -75423744 <= v[1] /\ v[2] <= 75423744
  BY <1>4, SMT DEF Wants, Ordered, UpTo, Between, Top
<1>6. PICK m : m = Max({v[2], -v[1]})
  OBVIOUS
<1>7. m \in Int /\ 0 <= m /\ m <= 75423744
  <2>1. PICK x, y : x = v[2] /\ y = -v[1]
    OBVIOUS
  <2>2. x \in Int /\ y \in Int /\ x <= 75423744 /\ y <= 75423744 /\ (0 <= x \/ 0 <= y)
    BY <1>5, <2>1, SMT
  <2>3. x \in Int /\ y \in Int /\ m = Max({x, y})
    BY <1>6, <2>1, <2>2
  <2>4. m \in {x, y} /\ m >= x /\ m >= y
    BY <2>3, OneOfTwo
  <2> QED BY <2>2, <2>4, SMT
<1>8. PICK n : n = m \div Q + 1
  OBVIOUS
<1>9. n \in 1..9
  BY <1>1, <1>7, <1>8, SMT
<1>10. Max32 \div n \in Int /\ 75423744 <= Max32 \div n
  <2>1. CASE n = 1
    BY <2>1, <1>1, SMT
  <2>2. CASE n = 2
    BY <2>2, <1>1, SMT
  <2>3. CASE n = 3
    BY <2>3, <1>1, SMT
  <2>4. CASE n = 4
    BY <2>4, <1>1, SMT
  <2>5. CASE n = 5
    BY <2>5, <1>1, SMT
  <2>6. CASE n = 6
    BY <2>6, <1>1, SMT
  <2>7. CASE n = 7
    BY <2>7, <1>1, SMT
  <2>8. CASE n = 8
    BY <2>8, <1>1, SMT
  <2>9. CASE n = 9
    BY <2>9, <1>1, SMT
  <2> QED BY <1>9, <2>1, <2>2, <2>3, <2>4, <2>5, <2>6, <2>7, <2>8, <2>9
<1>11. Small(v, Max32 \div n)
  BY <1>5, <1>10, SMT DEF Small, Within
<1>12. PICK w : w = <<1-Q, Q-1>>
  OBVIOUS
<1>13. w \in Gives(set, "mul")
  BY <1>1, <1>12, SMT DEF Gives, UpTo, Between, Top
<1>14. vec' = [vec EXCEPT ![i] = w] /\ failed' = "no" /\ Advance /\ UNCHANGED <<set, layer, out>>
  BY <1>2, <1>6, <1>8, <1>11, <1>12 DEF Mul, Each
<1> QED BY <1>3, <1>13, <1>14, EachKeeps DEF Others

LEMMA AccKeeps ==
    ASSUME RgInv, Acc
    PROVE  RgInv'
<1>1. prog # <<>> /\ Head1 = "acc"
  BY CallNamed DEF Acc
<1>2. PICK n, l : n = Polys1 /\ l = Len(vec)
  OBVIOUS
<1>3. /\ i \in 1..n /\ vec \in Seq(Int \X Int) /\ layer = 1 /\ set \in Sets
      /\ l \in 1..255 /\ \A j \in 1..l : vec[j] \in Wants(set, "acc")
      /\ out \in Seq(Int \X Int) /\ Len(out) = i - 1
      /\ \A j \in 1..i-1 : out[j] \in Gives(set, "acc")
  <2>1. ~(Head1 \in Samples) /\ HeadInv /\ set \in Sets
    BY <1>1 DEF RgInv, Samples
  <2>2. i \in 1..n /\ vec \in Seq(Int \X Int) /\ VecInv /\ layer = 1
    BY <1>1, <1>2, <2>1 DEF HeadInv
  <2> QED BY <1>1, <1>2, <2>1, <2>2 DEF VecInv
<1>4. prog \in Seq(Call)
  BY DEF RgInv, Linked
<1>5. n \in Nat \ {0}
  BY <1>1, <1>2, <1>4 DEF Call, Polys1
<1>6. \A k \in 1..l : Small(vec[k], Max32)
  <2>1. Max32 = 2147483647
    BY SMT DEF Max32
  <2>2. ASSUME NEW k \in 1..l PROVE Small(vec[k], Max32)
    <3>1. vec[k] \in Ordered(UpTo(9*Top))
      BY <1>3, SMT DEF Wants
    <3> QED BY <2>1, <3>1, SMT DEF Small, Within, Ordered, UpTo, Between, Top
  <2> QED BY <2>2
<1>7. PICK w : w = <<l*(1-Q), l*(Q-1)>>
  OBVIOUS
<1>8. w \in Gives(set, "acc") /\ w \in Int \X Int
  <2>1. 1 - Q = -8380416 /\ Q - 1 = 8380416
    BY SMT DEF Q
  <2>2. w \in Int \X Int /\ -2137006080 <= w[1] /\ w[2] <= 2137006080
    BY <1>3, <1>7, <2>1, SMT
  <2> QED BY <2>2, SMT DEF Gives, UpTo, Between, Top
<1>9. PICK done : done = Append(out, w)
  OBVIOUS
<1>10. /\ done \in Seq(Int \X Int) /\ Len(done) = i
       /\ \A j \in 1..i : done[j] = IF j = i THEN w ELSE out[j]
  BY <1>3, <1>8, <1>9
<1>11. \A j \in 1..i : done[j] \in Gives(set, "acc")
  <2> SUFFICES ASSUME NEW j \in 1..i PROVE done[j] \in Gives(set, "acc")
    OBVIOUS
  <2>1. CASE j = i
    BY <2>1, <1>8, <1>10
  <2>2. CASE j # i
    <3>1. j \in 1..i-1
      BY <2>2, <1>3
    <3> QED BY <3>1, <2>2, <1>3, <1>10
  <2> QED BY <2>1, <2>2
<1>12. /\ failed' = "no" /\ Advance /\ set' = set /\ layer' = 1
       /\ IF i < n THEN out' = done /\ vec' = vec ELSE out' = <<>> /\ vec' = done
  BY <1>2, <1>3, <1>6, <1>7, <1>9 DEF Acc, Polys1
<1>13. CASE i < n
  <2>1. i' = i + 1 /\ prog' = prog /\ out' = done /\ vec' = vec
    BY <1>12, <1>13, <1>2 DEF Advance, Polys1
  <2>2. Head1' = "acc" /\ Polys1' = n
    BY <2>1, <1>1, <1>2 DEF Head1, Polys1
  <2>3. /\ Len(vec') \in 1..255 /\ \A j \in 1..Len(vec') : vec'[j] \in Wants(set', "acc")
        /\ out' \in Seq(Int \X Int) /\ Len(out') = i' - 1
        /\ \A j \in 1..i'-1 : out'[j] \in Gives(set', "acc")
    <3>1. i' - 1 = i
      BY <2>1, <1>3
    <3> QED BY <3>1, <2>1, <1>2, <1>3, <1>10, <1>11, <1>12
  <2>4. VecInv'
    BY <2>2, <2>3 DEF VecInv
  <2>5. i' \in 1..n /\ vec' \in Seq(Int \X Int) /\ layer' = 1
    BY <2>1, <1>3, <1>5, <1>12, <1>13
  <2>6. HeadInv'
    BY <2>2, <2>4, <2>5 DEF HeadInv, Samples
  <2> QED BY <2>1, <2>6, <1>3, <1>12 DEF RgInv, Linked
<1>14. CASE ~(i < n)
  <2>0. i = n
    BY <1>3, <1>5, <1>14
  <2>1. i = n /\ i' = 1 /\ prog' = Tail(prog) /\ out' = <<>> /\ vec' = done
    BY <2>0, <1>12, <1>14, <1>2 DEF Advance, Polys1
  <2>2. \A j \in 1..Polys1 : vec'[j] \in Gives(set, Head1)
    BY <2>1, <1>1, <1>2, <1>11
  <2>3. Len(vec') = Polys1 /\ vec' \in Seq(Int \X Int)
    BY <2>1, <1>2, <1>10
  <2> QED BY <2>1, <2>2, <2>3, <1>1, <1>12, CallEnds
<1> QED BY <1>13, <1>14

LEMMA QuantizeKeeps ==
    ASSUME RgInv, Quantize
    PROVE  RgInv'
<1>1. PICK v, n : v = vec[i] /\ n = set.tpk
  OBVIOUS
<1>2. prog # <<>> /\ Head1 = "quantize"
  BY CallNamed DEF Quantize, Each
<1>3. v \in Wants(set, "quantize") /\ set \in Sets
  BY <1>1, <1>2, AtPolynomial DEF Others
<1>4. v[1] \in Int /\ v[2] \in Int /\ 0 <= v[1] /\ v[1] <= v[2] /\ v[2] <= 8380416
  BY <1>3, SMT DEF Wants, Standard, Between, Top, Ordered
<1>5. Within(v, 0, Q-1) /\ v[1] \in 0..Q-1 /\ v[2] \in 0..Q-1
  <2>1. Q - 1 = 8380416
    BY SMT DEF Q
  <2>2. Within(v, 0, Q-1)
    BY <1>4, <2>1, SMT DEF Within
  <2> QED BY <1>4, <2>1, <2>2, SMT
<1>6. n \in Nat
  BY <1>1, <1>3, Parameters
<1>7. PICK a, b, w : a = QuotientTimes(n, v[1]) /\ b = QuotientTimes(n, v[2]) /\ w = Masked(<<a, b>>)
  OBVIOUS
<1>8. vec' = [vec EXCEPT ![i] = w] /\ failed' = "no" /\ Advance /\ UNCHANGED <<set, layer, out>>
  BY <1>1, <1>5, <1>7 DEF Quantize, Each
<1>9. a \in Nat /\ b \in Nat
  BY <1>5, <1>6, <1>7, QuotientNatural
<1>10. PICK p : p = 2^n /\ p \in Int
  <2>1. 2^n \in Int
    BY <1>6, SMT
  <2> QED BY <2>1
<1>11. w = IF b >= p THEN <<0, p - 1>> ELSE <<a, b>>
  BY <1>1, <1>7, <1>10 DEF Masked
<1>12. w \in Between(0, p - 1)
  BY <1>9, <1>10, <1>11 DEF Between
<1>14. w \in Gives(set, "quantize")
  BY <1>1, <1>10, <1>12 DEF Gives
<1> QED BY <1>2, <1>8, <1>14, EachKeeps DEF Others

\* The two tests that go on after test_vectors.
LEMMA OneMore ==
    ASSUME NEW a, NEW b, NEW c, NEW d, NEW e, NEW f, NEW x
    PROVE  <<a, b, c, d, e, f>> \o <<x>> = <<a, b, c, d, e, f, x>>
<1>1. PICK p, S : p = <<a, b, c, d, e, f>> \o <<x>> /\ S = {a, b, c, d, e, f, x}
  OBVIOUS
<1>2. <<a, b, c, d, e, f>> \in Seq(S) /\ <<x>> \in Seq(S)
  BY <1>1
<1>3. p \in Seq(S) /\ Len(p) = 7
  BY <1>1, <1>2
<1>4. p[1] = a /\ p[2] = b /\ p[3] = c /\ p[4] = d /\ p[5] = e /\ p[6] = f /\ p[7] = x
  BY <1>1, <1>2
<1>5. PICK q : q = <<a, b, c, d, e, f, x>>
  OBVIOUS
<1>6. q \in Seq(S) /\ Len(q) = 7
  BY <1>1, <1>5
<1>7. q[1] = a /\ q[2] = b /\ q[3] = c /\ q[4] = d /\ q[5] = e /\ q[6] = f /\ q[7] = x
  BY <1>5
<1>8. p = q
  BY <1>3, <1>4, <1>6, <1>7
<1> QED BY <1>1, <1>5, <1>8

LEMMA TwoMore ==
    ASSUME NEW a, NEW b, NEW c, NEW d, NEW e, NEW f, NEW x, NEW y
    PROVE  <<a, b, c, d, e, f>> \o <<x, y>> = <<a, b, c, d, e, f, x, y>>
<1>1. PICK p, S : p = <<a, b, c, d, e, f>> \o <<x, y>> /\ S = {a, b, c, d, e, f, x, y}
  OBVIOUS
<1>2. <<a, b, c, d, e, f>> \in Seq(S) /\ <<x, y>> \in Seq(S)
  BY <1>1
<1>3. p \in Seq(S) /\ Len(p) = 8
  BY <1>1, <1>2
<1>4. /\ p[1] = a /\ p[2] = b /\ p[3] = c /\ p[4] = d /\ p[5] = e /\ p[6] = f /\ p[7] = x
      /\ p[8] = y
  BY <1>1, <1>2
<1>5. PICK q : q = <<a, b, c, d, e, f, x, y>>
  OBVIOUS
<1>6. q \in Seq(S) /\ Len(q) = 8
  BY <1>1, <1>5
<1>7. /\ q[1] = a /\ q[2] = b /\ q[3] = c /\ q[4] = d /\ q[5] = e /\ q[6] = f /\ q[7] = x
      /\ q[8] = y
  BY <1>5
<1>8. p = q
  BY <1>3, <1>4, <1>6, <1>7
<1> QED BY <1>1, <1>5, <1>8

\* The programs: every call may come after the one before.
LEMMA ProgramsLinked ==
    ASSUME NEW s \in Sets, set = s, prog \in Programs(s)
    PROVE  Linked /\ prog # <<>> /\ Head1 \in Samples
<1>1. /\ s.k \in Nat \ {0} /\ s.l \in Nat \ {0} /\ s.l <= 255
  BY Parameters
<1>2. PICK k, l : k = s.k /\ l = s.l
  OBVIOUS
<1>3. PICK p : p = prog
  OBVIOUS
<1>4. k \in Nat \ {0} /\ l \in Nat \ {0} /\ l <= 255
  BY <1>1, <1>2
<1> DEFINE Fine(q) == /\ q \in Seq(Call) /\ q # <<>> /\ q[1][1] \in Samples
                      /\ \A n \in 1..Len(q)-1 : Follows(q[n], q[n+1])
<1>5. Fine(<< <<"eta", l>>, <<"ntt", l>>, <<"acc", k>>, <<"reduce", k>>, <<"invntt", k>>,
              <<"reduce", k>>, <<"adddpk", k>>, <<"quantize", k>>, <<"packtbar", k>> >>)
  BY <1>4 DEF Call, Samples, Others, Follows, Next2
<1>6. Fine(<< <<"eta", l>>, <<"packeta", l>> >>)
  BY <1>4 DEF Call, Samples, Others, Follows, Next2
<1>7. Fine(<< <<"gamma1", l>>, <<"reduce", l>>, <<"chknorm", l>>, <<"packz", l>> >>)
  BY <1>4 DEF Call, Samples, Others, Follows, Next2
<1>8. Fine(<< <<"gamma1", l>>, <<"chknorm", l>>, <<"packz", l>> >>)
  BY <1>4 DEF Call, Samples, Others, Follows, Next2
<1>9. Fine(<< <<"gamma1", l>>, <<"ntt", l>>, <<"acc", k>>, <<"reduce", k>>, <<"invntt", k>>,
              <<"caddq", k>>, <<"decompose", k>> >>)
  BY <1>4 DEF Call, Samples, Others, Follows, Next2
<1>10. Fine(<< <<"gamma1", l>>, <<"ntt", l>>, <<"acc", k>>, <<"reduce", k>>, <<"invntt", k>>,
               <<"caddq", k>>, <<"power2round", k>>, <<"packt0", k>> >>)
  BY <1>4 DEF Call, Samples, Others, Follows, Next2
<1>11. Fine(<< <<"uniform", 1>>, <<"ntt", 1>>, <<"mul", 1>>, <<"invntt", 1>> >>)
  BY DEF Call, Samples, Others, Follows, Next2
<1>12. p \in {Keygen(s), SecretKey(s), Signing(s), Verification(s), TestDecompose(s),
              TestRound(s), TestMul(s)}
  BY <1>3 DEF Programs
<1>13. Fine(p)
  <2> HIDE DEF Fine
  <2>1. CASE p = Keygen(s)
    BY <2>1, <1>2, <1>5 DEF Keygen
  <2>2. CASE p = SecretKey(s)
    BY <2>2, <1>2, <1>6 DEF SecretKey
  <2>3. CASE p = Signing(s)
    BY <2>3, <1>2, <1>7 DEF Signing
  <2>4. CASE p = Verification(s)
    BY <2>4, <1>2, <1>8 DEF Verification
  <2>5. CASE p = TestDecompose(s)
    <3>1. PICK t, c1, c2, c3, c4, c5, c6, c7 :
             /\ c1 = <<"gamma1", l>> /\ c2 = <<"ntt", l>> /\ c3 = <<"acc", k>>
             /\ c4 = <<"reduce", k>> /\ c5 = <<"invntt", k>> /\ c6 = <<"caddq", k>>
             /\ c7 = <<"decompose", k>> /\ t = TestDecompose(s)
      OBVIOUS
    <3>2. t = <<c1, c2, c3, c4, c5, c6>> \o <<c7>>
      BY <3>1, <1>2 DEF TestDecompose, TestVectors
    <3>3. t = <<c1, c2, c3, c4, c5, c6, c7>>
      BY <3>2, OneMore
    <3> QED BY <2>5, <3>1, <3>3, <1>9
  <2>6. CASE p = TestRound(s)
    <3>1. PICK t, c1, c2, c3, c4, c5, c6, c7, c8 :
             /\ c1 = <<"gamma1", l>> /\ c2 = <<"ntt", l>> /\ c3 = <<"acc", k>>
             /\ c4 = <<"reduce", k>> /\ c5 = <<"invntt", k>> /\ c6 = <<"caddq", k>>
             /\ c7 = <<"power2round", k>> /\ c8 = <<"packt0", k>> /\ t = TestRound(s)
      OBVIOUS
    <3>2. t = <<c1, c2, c3, c4, c5, c6>> \o <<c7, c8>>
      BY <3>1, <1>2 DEF TestRound, TestVectors
    <3>3. t = <<c1, c2, c3, c4, c5, c6, c7, c8>>
      BY <3>2, TwoMore
    <3> QED BY <2>6, <3>1, <3>3, <1>10
  <2>7. CASE p = TestMul(s)
    BY <2>7, <1>11 DEF TestMul
  <2> QED BY <1>12, <2>1, <2>2, <2>3, <2>4, <2>5, <2>6, <2>7
<1> QED BY <1>3, <1>13 DEF Linked, Head1

LEMMA RgInvInit == RgInit => RgInv
<1> SUFFICES ASSUME RgInit PROVE RgInv
  OBVIOUS
<1>1. set \in Sets /\ prog \in Programs(set) /\ i = 1 /\ layer = 1 /\ out = <<>> /\ failed = "no"
  BY DEF RgInit
<1>2. PICK s : s = set
  OBVIOUS
<1>3. Linked /\ prog # <<>> /\ Head1 \in Samples
  BY <1>1, <1>2, ProgramsLinked
<1> QED BY <1>1, <1>3 DEF RgInv, HeadInv

LEMMA RgInvStep == RgInv /\ [RgNext]_rgvars => RgInv'
<1> SUFFICES ASSUME RgInv, [RgNext]_rgvars PROVE RgInv'
  OBVIOUS
<1>1. CASE SampleEta \/ SampleGamma1 \/ SampleUniform
  BY <1>1, SamplesKeep
<1>2. CASE NttLayer \/ InvNttLayer \/ ToMont
  BY <1>2, LayersKeep
<1>3. CASE Acc
  BY <1>3, AccKeeps
<1>4. CASE Mul
  BY <1>4, MulKeeps
<1>5. CASE CaddQ \/ AddDpk \/ Decompose \/ Power2 \/ ReduceAll
  BY <1>5, ReductionsKeep
<1>6. CASE Quantize
  BY <1>6, QuantizeKeeps
<1>7. CASE Chknorm
  BY <1>7, ChknormKeeps
<1>8. CASE PackEta \/ PackZ \/ PackTbar \/ PackT0
  BY <1>8, PacksKeep
<1>9. CASE UNCHANGED rgvars
  BY <1>9 DEF rgvars, RgInv, Linked, HeadInv, VecInv, Head1, Polys1
<1> QED BY <1>1, <1>2, <1>3, <1>4, <1>5, <1>6, <1>7, <1>8, <1>9 DEF RgNext

\* No call gets coefficients outside of the range its comment asks for and no
\* sum leaves int32_t (ref/reduce.c:9, 28, ref/ntt.c:42-76), from sampling to
\* packing: for every parameter set with at most 255 columns, ETA and GAMMA1
\* below Q, and B at most (Q-1)/8.
THEOREM CallsGetTheirRanges == RgSpec => []RangesOk
<1>1. RgInv => RangesOk
  BY DEF RgInv, RangesOk
<1> QED BY <1>1, RgInvInit, RgInvStep, PTL DEF RgSpec

-----------------------------------------------------------------------------
(***************************************************************************)
(* BitPacking.  All bits of a polynomial make one stream; a word the code  *)
(* works on is always a span of it: place p holds bit d + p of the stream, *)
(* for the places from lo to hi - 1.                                       *)
(***************************************************************************)
Widths == {3, 4, 6, 10, 11, 13, 18, 20}
Bit(w, x) == <<x \div w, x % w>>
Span(w, d, lo, hi) == {<<p, Bit(w, d + p)>> : p \in lo..hi-1}

\* Shifted, the same bits are at other places.
LEMMA ShiftedSpan ==
    ASSUME NEW w, NEW d \in Int, NEW lo \in Int, NEW hi \in Int, NEW s \in Int
    PROVE  Shl(Span(w, d, lo, hi), s) = Span(w, d - s, lo + s, hi + s)
<1>1. ASSUME NEW e \in Shl(Span(w, d, lo, hi), s) PROVE e \in Span(w, d - s, lo + s, hi + s)
  <2>1. PICK p \in lo..hi-1 : e = <<p + s, Bit(w, d + p)>>
    BY DEF Shl, Span
  <2>2. p + s \in lo+s..(hi+s)-1 /\ (d - s) + (p + s) = d + p
    OBVIOUS
  <2> QED BY <2>1, <2>2 DEF Span
<1>2. ASSUME NEW e \in Span(w, d - s, lo + s, hi + s) PROVE e \in Shl(Span(w, d, lo, hi), s)
  <2>1. PICK p \in lo+s..(hi+s)-1 : e = <<p, Bit(w, (d - s) + p)>>
    BY DEF Span
  <2>2. PICK k : k = p - s
    OBVIOUS
  <2>3. k \in lo..hi-1 /\ (d - s) + p = d + k /\ p = k + s
    BY <2>2
  <2>4. PICK f : f = <<k, Bit(w, d + k)>>
    OBVIOUS
  <2>5. f \in Span(w, d, lo, hi) /\ e = <<f[1] + s, f[2]>>
    BY <2>1, <2>3, <2>4 DEF Span
  <2> QED BY <2>5 DEF Shl
<1> QED BY <1>1, <1>2

\* Cut to n places.
LEMMA CutSpan ==
    ASSUME NEW w, NEW d \in Int, NEW lo \in Int, NEW hi \in Int, NEW n \in Int, NEW m \in Int,
           lo <= 0, m <= n, m <= hi, m = n \/ m = hi
    PROVE  Cut(Span(w, d, lo, hi), n) = Span(w, d, 0, m)
<1>1. ASSUME NEW e \in Cut(Span(w, d, lo, hi), n) PROVE e \in Span(w, d, 0, m)
  <2>1. PICK p \in lo..hi-1 : e = <<p, Bit(w, d + p)>> /\ 0 <= p /\ p < n
    BY DEF Cut, Span
  <2>2. p \in 0..m-1
    BY <2>1
  <2> QED BY <2>1, <2>2 DEF Span
<1>2. ASSUME NEW e \in Span(w, d, 0, m) PROVE e \in Cut(Span(w, d, lo, hi), n)
  <2>1. PICK p \in 0..m-1 : e = <<p, Bit(w, d + p)>>
    BY DEF Span
  <2>2. p \in lo..hi-1 /\ 0 <= p /\ p < n
    OBVIOUS
  <2> QED BY <2>1, <2>2 DEF Span, Cut
<1> QED BY <1>1, <1>2

\* Two spans of which the second begins where the first ends.
Joined(w, d, lo, mid, hi) ==
    Span(w, d, lo, mid) \cup Span(w, d, mid, hi) = Span(w, d, lo, hi)

LEMMA JoinedSpans ==
    ASSUME NEW w, NEW d \in Int, NEW lo \in Int, NEW mid \in Int, NEW hi \in Int,
           lo <= mid, mid <= hi
    PROVE  Joined(w, d, lo, mid, hi)
<1>1. \A p : p \in lo..hi-1 <=> p \in lo..mid-1 \/ p \in mid..hi-1
  OBVIOUS
<1> QED BY <1>1 DEF Span, Joined

LEMMA EmptySpan ==
    ASSUME NEW w, NEW d
    PROVE  Span(w, d, 0, 0) = {}
BY DEF Span

\* What the packers are given is a span of the stream, and so is a byte.
LEMMA GivenSpan ==
    ASSUME NEW f \in DOMAIN Width, NEW c \in Nat
    PROVE  Given(f, c) = Span(Width[f], Width[f]*c, 0, Width[f])
<1>1. Width[f] \in Widths
  BY DEF Width, Widths
<1>2. PICK w : w = Width[f]
  OBVIOUS
<1>3. ASSUME NEW b \in 0..w-1 PROVE Bit(w, w*c + b) = <<c, b>>
  BY <1>1, <1>2, SMT DEF Bit, Widths
<1> QED BY <1>2, <1>3 DEF Given, Span

(***************************************************************************)
(* The tables.  Each term of a byte shifts its coefficient to where the    *)
(* byte's bits are in the stream, and every bit of the byte is in one.     *)
(***************************************************************************)
Packs(T, w, j) ==
    /\ \A t \in T : t[1] \in Nat /\ t[2] \in Int /\ w*t[1] + t[2] = 8*j
    /\ \A p \in 0..7 : \E t \in T : -t[2] <= p /\ p < w - t[2]

\* The same for a coefficient's terms; none but its w bits pass the mask.
Unpacks(T, w, m, c, mask) ==
    /\ \A t \in T : t[1] \in 0..m-1 /\ t[2] \in Int /\ 8*t[1] + t[2] = w*c
    /\ \A p \in 0..w-1 : \E t \in T : -t[2] <= p /\ p < 8 - t[2]
    /\ w <= mask /\ \A t \in T : w < mask => 8 - t[2] <= w

LEMMA EtaPack2Right == \A j \in 1..3 : Packs(EtaPack2[j], 3, j - 1)
<1>1. /\ EtaPack2[1] = {<<0,0>>,<<1,-3>>,<<2,-6>>}
      /\ EtaPack2[2] = {<<2,2>>,<<3,-1>>,<<4,-4>>,<<5,-7>>}
      /\ EtaPack2[3] = {<<5,1>>,<<6,-2>>,<<7,-5>>}
  BY DEF EtaPack2
<1>2. Packs(EtaPack2[1], 3, 0)
  BY <1>1 DEF Packs
<1>3. Packs(EtaPack2[2], 3, 1)
  BY <1>1 DEF Packs
<1>4. Packs(EtaPack2[3], 3, 2)
  BY <1>1 DEF Packs
<1> QED BY <1>2, <1>3, <1>4

LEMMA EtaPack4Right == \A j \in 1..1 : Packs(EtaPack4[j], 4, j - 1)
<1>1. /\ EtaPack4[1] = {<<0,0>>,<<1,-4>>}
  BY DEF EtaPack4
<1>2. Packs(EtaPack4[1], 4, 0)
  BY <1>1 DEF Packs
<1> QED BY <1>2

LEMMA T1PackRight == \A j \in 1..5 : Packs(T1Pack[j], 10, j - 1)
<1>1. /\ T1Pack[1] = {<<0,0>>} /\ T1Pack[2] = {<<0,8>>,<<1,-2>>}
      /\ T1Pack[3] = {<<1,6>>,<<2,-4>>} /\ T1Pack[4] = {<<2,4>>,<<3,-6>>}
      /\ T1Pack[5] = {<<3,2>>}
  BY DEF T1Pack
<1>2. Packs(T1Pack[1], 10, 0)
  BY <1>1 DEF Packs
<1>3. Packs(T1Pack[2], 10, 1)
  BY <1>1 DEF Packs
<1>4. Packs(T1Pack[3], 10, 2)
  BY <1>1 DEF Packs
<1>5. Packs(T1Pack[4], 10, 3)
  BY <1>1 DEF Packs
<1>6. Packs(T1Pack[5], 10, 4)
  BY <1>1 DEF Packs
<1> QED BY <1>2, <1>3, <1>4, <1>5, <1>6

LEMMA T0PackRight == \A j \in 1..13 : Packs(T0Pack[j], 13, j - 1)
<1>1. /\ T0Pack[1] = {<<0,0>>} /\ T0Pack[2] = {<<0,8>>,<<1,-5>>} /\ T0Pack[3] = {<<1,3>>}
      /\ T0Pack[4] = {<<1,11>>,<<2,-2>>} /\ T0Pack[5] = {<<2,6>>,<<3,-7>>}
      /\ T0Pack[6] = {<<3,1>>} /\ T0Pack[7] = {<<3,9>>,<<4,-4>>} /\ T0Pack[8] = {<<4,4>>}
      /\ T0Pack[9] = {<<4,12>>,<<5,-1>>} /\ T0Pack[10] = {<<5,7>>,<<6,-6>>}
      /\ T0Pack[11] = {<<6,2>>} /\ T0Pack[12] = {<<6,10>>,<<7,-3>>} /\ T0Pack[13] = {<<7,5>>}
  BY DEF T0Pack
<1>2. Packs(T0Pack[1], 13, 0)
  BY <1>1 DEF Packs
<1>3. Packs(T0Pack[2], 13, 1)
  BY <1>1 DEF Packs
<1>4. Packs(T0Pack[3], 13, 2)
  BY <1>1 DEF Packs
<1>5. Packs(T0Pack[4], 13, 3)
  BY <1>1 DEF Packs
<1>6. Packs(T0Pack[5], 13, 4)
  BY <1>1 DEF Packs
<1>7. Packs(T0Pack[6], 13, 5)
  BY <1>1 DEF Packs
<1>8. Packs(T0Pack[7], 13, 6)
  BY <1>1 DEF Packs
<1>9. Packs(T0Pack[8], 13, 7)
  BY <1>1 DEF Packs
<1>10. Packs(T0Pack[9], 13, 8)
  BY <1>1 DEF Packs
<1>11. Packs(T0Pack[10], 13, 9)
  BY <1>1 DEF Packs
<1>12. Packs(T0Pack[11], 13, 10)
  BY <1>1 DEF Packs
<1>13. Packs(T0Pack[12], 13, 11)
  BY <1>1 DEF Packs
<1>14. Packs(T0Pack[13], 13, 12)
  BY <1>1 DEF Packs
<1> QED BY <1>2, <1>3, <1>4, <1>5, <1>6, <1>7, <1>8, <1>9, <1>10, <1>11, <1>12, <1>13, <1>14

LEMMA ZPack17Right == \A j \in 1..9 : Packs(ZPack17[j], 18, j - 1)
<1>1. /\ ZPack17[1] = {<<0,0>>} /\ ZPack17[2] = {<<0,8>>} /\ ZPack17[3] = {<<0,16>>,<<1,-2>>}
      /\ ZPack17[4] = {<<1,6>>} /\ ZPack17[5] = {<<1,14>>,<<2,-4>>} /\ ZPack17[6] = {<<2,4>>}
      /\ ZPack17[7] = {<<2,12>>,<<3,-6>>} /\ ZPack17[8] = {<<3,2>>} /\ ZPack17[9] = {<<3,10>>}
  BY DEF ZPack17
<1>2. Packs(ZPack17[1], 18, 0)
  BY <1>1 DEF Packs
<1>3. Packs(ZPack17[2], 18, 1)
  BY <1>1 DEF Packs
<1>4. Packs(ZPack17[3], 18, 2)
  BY <1>1 DEF Packs
<1>5. Packs(ZPack17[4], 18, 3)
  BY <1>1 DEF Packs
<1>6. Packs(ZPack17[5], 18, 4)
  BY <1>1 DEF Packs
<1>7. Packs(ZPack17[6], 18, 5)
  BY <1>1 DEF Packs
<1>8. Packs(ZPack17[7], 18, 6)
  BY <1>1 DEF Packs
<1>9. Packs(ZPack17[8], 18, 7)
  BY <1>1 DEF Packs
<1>10. Packs(ZPack17[9], 18, 8)
  BY <1>1 DEF Packs
<1> QED BY <1>2, <1>3, <1>4, <1>5, <1>6, <1>7, <1>8, <1>9, <1>10

LEMMA ZPack19Right == \A j \in 1..5 : Packs(ZPack19[j], 20, j - 1)
<1>1. /\ ZPack19[1] = {<<0,0>>} /\ ZPack19[2] = {<<0,8>>} /\ ZPack19[3] = {<<0,16>>,<<1,-4>>}
      /\ ZPack19[4] = {<<1,4>>} /\ ZPack19[5] = {<<1,12>>}
  BY DEF ZPack19
<1>2. Packs(ZPack19[1], 20, 0)
  BY <1>1 DEF Packs
<1>3. Packs(ZPack19[2], 20, 1)
  BY <1>1 DEF Packs
<1>4. Packs(ZPack19[3], 20, 2)
  BY <1>1 DEF Packs
<1>5. Packs(ZPack19[4], 20, 3)
  BY <1>1 DEF Packs
<1>6. Packs(ZPack19[5], 20, 4)
  BY <1>1 DEF Packs
<1> QED BY <1>2, <1>3, <1>4, <1>5, <1>6

LEMMA W1Pack88Right == \A j \in 1..3 : Packs(W1Pack88[j], 6, j - 1)
<1>1. /\ W1Pack88[1] = {<<0,0>>,<<1,-6>>} /\ W1Pack88[2] = {<<1,2>>,<<2,-4>>}
      /\ W1Pack88[3] = {<<2,4>>,<<3,-2>>}
  BY DEF W1Pack88
<1>2. Packs(W1Pack88[1], 6, 0)
  BY <1>1 DEF Packs
<1>3. Packs(W1Pack88[2], 6, 1)
  BY <1>1 DEF Packs
<1>4. Packs(W1Pack88[3], 6, 2)
  BY <1>1 DEF Packs
<1> QED BY <1>2, <1>3, <1>4

LEMMA W1Pack32Right == \A j \in 1..1 : Packs(W1Pack32[j], 4, j - 1)
<1>1. /\ W1Pack32[1] = {<<0,0>>,<<1,-4>>}
  BY DEF W1Pack32
<1>2. Packs(W1Pack32[1], 4, 0)
  BY <1>1 DEF Packs
<1> QED BY <1>2

LEMMA EtaUnpack2Right == \A c \in 1..8 : Unpacks(EtaUnpack2[c], 3, 3, c - 1, MaskBits("eta2", c - 1))
<1>1. /\ EtaUnpack2[1] = {<<0,0>>} /\ EtaUnpack2[2] = {<<0,3>>}
      /\ EtaUnpack2[3] = {<<0,6>>,<<1,-2>>} /\ EtaUnpack2[4] = {<<1,1>>}
      /\ EtaUnpack2[5] = {<<1,4>>} /\ EtaUnpack2[6] = {<<1,7>>,<<2,-1>>}
      /\ EtaUnpack2[7] = {<<2,2>>} /\ EtaUnpack2[8] = {<<2,5>>}
  BY DEF EtaUnpack2
<1>2. Unpacks(EtaUnpack2[1], 3, 3, 0, 3)
  BY <1>1 DEF Unpacks
<1>3. Unpacks(EtaUnpack2[2], 3, 3, 1, 3)
  BY <1>1 DEF Unpacks
<1>4. Unpacks(EtaUnpack2[3], 3, 3, 2, 3)
  BY <1>1 DEF Unpacks
<1>5. Unpacks(EtaUnpack2[4], 3, 3, 3, 3)
  BY <1>1 DEF Unpacks
<1>6. Unpacks(EtaUnpack2[5], 3, 3, 4, 3)
  BY <1>1 DEF Unpacks
<1>7. Unpacks(EtaUnpack2[6], 3, 3, 5, 3)
  BY <1>1 DEF Unpacks
<1>8. Unpacks(EtaUnpack2[7], 3, 3, 6, 3)
  BY <1>1 DEF Unpacks
<1>9. Unpacks(EtaUnpack2[8], 3, 3, 7, 3)
  BY <1>1 DEF Unpacks
<1>10. \A c \in 0..7 : MaskBits("eta2", c) = 3
  BY DEF MaskBits, Width
<1> QED BY <1>2, <1>3, <1>4, <1>5, <1>6, <1>7, <1>8, <1>9, <1>10

LEMMA EtaUnpack4Right == \A c \in 1..2 : Unpacks(EtaUnpack4[c], 4, 1, c - 1, MaskBits("eta4", c - 1))
<1>1. /\ EtaUnpack4[1] = {<<0,0>>} /\ EtaUnpack4[2] = {<<0,4>>}
  BY DEF EtaUnpack4
<1>2. Unpacks(EtaUnpack4[1], 4, 1, 0, 4)
  BY <1>1 DEF Unpacks
<1>3. Unpacks(EtaUnpack4[2], 4, 1, 1, 4)
  BY <1>1 DEF Unpacks
<1>4. \A c \in 0..1 : MaskBits("eta4", c) = 4
  BY DEF MaskBits, Width
<1> QED BY <1>2, <1>3, <1>4

LEMMA T1UnpackRight == \A c \in 1..4 : Unpacks(T1Unpack[c], 10, 5, c - 1, MaskBits("t1", c - 1))
<1>1. /\ T1Unpack[1] = {<<0,0>>,<<1,-8>>} /\ T1Unpack[2] = {<<1,2>>,<<2,-6>>}
      /\ T1Unpack[3] = {<<2,4>>,<<3,-4>>} /\ T1Unpack[4] = {<<3,6>>,<<4,-2>>}
  BY DEF T1Unpack
<1>2. Unpacks(T1Unpack[1], 10, 5, 0, 10)
  BY <1>1 DEF Unpacks
<1>3. Unpacks(T1Unpack[2], 10, 5, 1, 10)
  BY <1>1 DEF Unpacks
<1>4. Unpacks(T1Unpack[3], 10, 5, 2, 10)
  BY <1>1 DEF Unpacks
<1>5. Unpacks(T1Unpack[4], 10, 5, 3, 10)
  BY <1>1 DEF Unpacks
<1>6. \A c \in 0..3 : MaskBits("t1", c) = 10
  BY DEF MaskBits, Width
<1> QED BY <1>2, <1>3, <1>4, <1>5, <1>6

LEMMA T0UnpackRight == \A c \in 1..8 : Unpacks(T0Unpack[c], 13, 13, c - 1, MaskBits("t0", c - 1))
<1>1. /\ T0Unpack[1] = {<<0,0>>,<<1,-8>>} /\ T0Unpack[2] = {<<1,5>>,<<2,-3>>,<<3,-11>>}
      /\ T0Unpack[3] = {<<3,2>>,<<4,-6>>} /\ T0Unpack[4] = {<<4,7>>,<<5,-1>>,<<6,-9>>}
      /\ T0Unpack[5] = {<<6,4>>,<<7,-4>>,<<8,-12>>} /\ T0Unpack[6] = {<<8,1>>,<<9,-7>>}
      /\ T0Unpack[7] = {<<9,6>>,<<10,-2>>,<<11,-10>>} /\ T0Unpack[8] = {<<11,3>>,<<12,-5>>}
  BY DEF T0Unpack
<1>2. Unpacks(T0Unpack[1], 13, 13, 0, 13)
  BY <1>1 DEF Unpacks
<1>3. Unpacks(T0Unpack[2], 13, 13, 1, 13)
  BY <1>1 DEF Unpacks
<1>4. Unpacks(T0Unpack[3], 13, 13, 2, 13)
  BY <1>1 DEF Unpacks
<1>5. Unpacks(T0Unpack[4], 13, 13, 3, 13)
  BY <1>1 DEF Unpacks
<1>6. Unpacks(T0Unpack[5], 13, 13, 4, 13)
  BY <1>1 DEF Unpacks
<1>7. Unpacks(T0Unpack[6], 13, 13, 5, 13)
  BY <1>1 DEF Unpacks
<1>8. Unpacks(T0Unpack[7], 13, 13, 6, 13)
  BY <1>1 DEF Unpacks
<1>9. Unpacks(T0Unpack[8], 13, 13, 7, 13)
  BY <1>1 DEF Unpacks
<1>10. \A c \in 0..7 : MaskBits("t0", c) = 13
  BY DEF MaskBits, Width
<1> QED BY <1>2, <1>3, <1>4, <1>5, <1>6, <1>7, <1>8, <1>9, <1>10

LEMMA ZUnpack17Right == \A c \in 1..4 : Unpacks(ZUnpack17[c], 18, 9, c - 1, MaskBits("z17", c - 1))
<1>1. /\ ZUnpack17[1] = {<<0,0>>,<<1,-8>>,<<2,-16>>}
      /\ ZUnpack17[2] = {<<2,2>>,<<3,-6>>,<<4,-14>>}
      /\ ZUnpack17[3] = {<<4,4>>,<<5,-4>>,<<6,-12>>}
      /\ ZUnpack17[4] = {<<6,6>>,<<7,-2>>,<<8,-10>>}
  BY DEF ZUnpack17
<1>2. Unpacks(ZUnpack17[1], 18, 9, 0, 18)
  BY <1>1 DEF Unpacks
<1>3. Unpacks(ZUnpack17[2], 18, 9, 1, 18)
  BY <1>1 DEF Unpacks
<1>4. Unpacks(ZUnpack17[3], 18, 9, 2, 18)
  BY <1>1 DEF Unpacks
<1>5. Unpacks(ZUnpack17[4], 18, 9, 3, 18)
  BY <1>1 DEF Unpacks
<1>6. \A c \in 0..3 : MaskBits("z17", c) = 18
  BY DEF MaskBits, Width
<1> QED BY <1>2, <1>3, <1>4, <1>5, <1>6

LEMMA ZUnpack19Right == \A c \in 1..2 : Unpacks(ZUnpack19[c], 20, 5, c - 1, MaskBits("z19", c - 1))
<1>1. /\ ZUnpack19[1] = {<<0,0>>,<<1,-8>>,<<2,-16>>}
      /\ ZUnpack19[2] = {<<2,4>>,<<3,-4>>,<<4,-12>>}
  BY DEF ZUnpack19
<1>2. Unpacks(ZUnpack19[1], 20, 5, 0, 20)
  BY <1>1 DEF Unpacks
<1>3. Unpacks(ZUnpack19[2], 20, 5, 1, 32)
  BY <1>1 DEF Unpacks
<1>4. MaskBits("z19", 0) = 20 /\ MaskBits("z19", 1) = 32
  BY DEF MaskBits, Width
<1> QED BY <1>2, <1>3, <1>4

\* A group: so many coefficients, and so many bytes.
Together(f) == (Len(PackTerms[f])*8) \div Width[f]

Sides(f, w, m, n) ==
    /\ f \in DOMAIN Width /\ Width[f] = w /\ Len(PackTerms[f]) = m /\ Together(f) = n
    /\ \A j \in 1..m : Packs(PackTerms[f][j], w, j - 1)
    /\ f \notin VectorW1 => /\ Len(UnpackTerms[f]) = n
                            /\ \A c \in 1..n : Unpacks(UnpackTerms[f][c], w, m, c - 1, MaskBits(f, c - 1))

LEMMA EtaSides == Sides("eta2", 3, 3, 8) /\ Sides("eta4", 4, 1, 2)
<1>1. /\ PackTerms["eta2"] = EtaPack2 /\ UnpackTerms["eta2"] = EtaUnpack2 /\ Width["eta2"] = 3
      /\ PackTerms["eta4"] = EtaPack4 /\ UnpackTerms["eta4"] = EtaUnpack4 /\ Width["eta4"] = 4
      /\ "eta2" \in DOMAIN Width /\ "eta4" \in DOMAIN Width
  BY DEF PackTerms, UnpackTerms, Width
<1>2. /\ Len(EtaPack2) = 3 /\ Len(EtaUnpack2) = 8 /\ Len(EtaPack4) = 1 /\ Len(EtaUnpack4) = 2
  BY DEF EtaPack2, EtaUnpack2, EtaPack4, EtaUnpack4
<1>3. Together("eta2") = 8 /\ Together("eta4") = 2
  BY <1>1, <1>2 DEF Together
<1> QED BY <1>1, <1>2, <1>3, EtaPack2Right, EtaPack4Right, EtaUnpack2Right, EtaUnpack4Right DEF Sides

LEMMA TSides == Sides("t1", 10, 5, 4) /\ Sides("t0", 13, 13, 8)
<1>1. /\ PackTerms["t1"] = T1Pack /\ UnpackTerms["t1"] = T1Unpack /\ Width["t1"] = 10
      /\ PackTerms["t0"] = T0Pack /\ UnpackTerms["t0"] = T0Unpack /\ Width["t0"] = 13
      /\ "t1" \in DOMAIN Width /\ "t0" \in DOMAIN Width
  BY DEF PackTerms, UnpackTerms, Width
<1>2. /\ Len(T1Pack) = 5 /\ Len(T1Unpack) = 4 /\ Len(T0Pack) = 13 /\ Len(T0Unpack) = 8
  BY DEF T1Pack, T1Unpack, T0Pack, T0Unpack
<1>3. Together("t1") = 4 /\ Together("t0") = 8
  BY <1>1, <1>2 DEF Together
<1> QED BY <1>1, <1>2, <1>3, T1PackRight, T0PackRight, T1UnpackRight, T0UnpackRight DEF Sides

LEMMA ZSides == Sides("z17", 18, 9, 4) /\ Sides("z19", 20, 5, 2)
<1>1. /\ PackTerms["z17"] = ZPack17 /\ UnpackTerms["z17"] = ZUnpack17 /\ Width["z17"] = 18
      /\ PackTerms["z19"] = ZPack19 /\ UnpackTerms["z19"] = ZUnpack19 /\ Width["z19"] = 20
      /\ "z17" \in DOMAIN Width /\ "z19" \in DOMAIN Width
  BY DEF PackTerms, UnpackTerms, Width
<1>2. /\ Len(ZPack17) = 9 /\ Len(ZUnpack17) = 4 /\ Len(ZPack19) = 5 /\ Len(ZUnpack19) = 2
  BY DEF ZPack17, ZUnpack17, ZPack19, ZUnpack19
<1>3. Together("z17") = 4 /\ Together("z19") = 2
  BY <1>1, <1>2 DEF Together
<1> QED BY <1>1, <1>2, <1>3, ZPack17Right, ZPack19Right, ZUnpack17Right, ZUnpack19Right DEF Sides

LEMMA W1Sides == Sides("w88", 6, 3, 4) /\ Sides("w32", 4, 1, 2)
<1>1. /\ PackTerms["w88"] = W1Pack88 /\ Width["w88"] = 6
      /\ PackTerms["w32"] = W1Pack32 /\ Width["w32"] = 4
      /\ "w88" \in DOMAIN Width /\ "w32" \in DOMAIN Width
  BY DEF PackTerms, Width
<1>2. /\ Len(W1Pack88) = 3 /\ Len(W1Pack32) = 1
  BY DEF W1Pack88, W1Pack32
<1>3. Together("w88") = 4 /\ Together("w32") = 2
  BY <1>1, <1>2 DEF Together
<1>4. "w88" \in VectorW1 /\ "w32" \in VectorW1
  BY DEF VectorW1
<1> QED BY <1>1, <1>2, <1>3, <1>4, W1Pack88Right, W1Pack32Right DEF Sides

\* Every format, and how often its group is in the polynomial.
LEMMA TableShape ==
    ASSUME NEW f \in Tables
    PROVE  \E w \in Widths, m \in 1..13, n \in {2, 4, 8}, k \in Nat :
              /\ Sides(f, w, m, n) /\ n*w = 8*m
              /\ Coeffs = n*k /\ Bytes(f) = m*k /\ Bytes(f) \div m = k
<1>1. PICK q \in Nat : Coeffs = 64*q
  <2>1. Coeffs \in Nat /\ Coeffs % 64 = 0
    BY PackingAssumption
  <2> QED BY <2>1
<1>2. f \in {"eta2", "eta4", "t1", "t0", "z17", "z19", "w88", "w32"}
  BY DEF Tables, PackTerms
<1>3. CASE f = "eta2"
  <2>1. Sides(f, 3, 3, 8) /\ 3 \in Widths /\ 3 \in 1..13 /\ 8*3 = 8*3
    BY <1>3, EtaSides DEF Widths
  <2>2. Coeffs = 8*(8*q) /\ Bytes(f) = 3*(8*q) /\ Bytes(f) \div 3 = 8*q /\ 8*q \in Nat
    BY <1>1, <2>1 DEF Bytes, Sides
  <2> QED BY <2>1, <2>2
<1>4. CASE f = "eta4"
  <2>1. Sides(f, 4, 1, 2) /\ 4 \in Widths /\ 1 \in 1..13 /\ 2*4 = 8*1
    BY <1>4, EtaSides DEF Widths
  <2>2. Coeffs = 2*(32*q) /\ Bytes(f) = 1*(32*q) /\ Bytes(f) \div 1 = 32*q /\ 32*q \in Nat
    BY <1>1, <2>1 DEF Bytes, Sides
  <2> QED BY <2>1, <2>2
<1>5. CASE f = "t1"
  <2>1. Sides(f, 10, 5, 4) /\ 10 \in Widths /\ 5 \in 1..13 /\ 4*10 = 8*5
    BY <1>5, TSides DEF Widths
  <2>2. Coeffs = 4*(16*q) /\ Bytes(f) = 5*(16*q) /\ Bytes(f) \div 5 = 16*q /\ 16*q \in Nat
    BY <1>1, <2>1 DEF Bytes, Sides
  <2> QED BY <2>1, <2>2
<1>6. CASE f = "t0"
  <2>1. Sides(f, 13, 13, 8) /\ 13 \in Widths /\ 13 \in 1..13 /\ 8*13 = 8*13
    BY <1>6, TSides DEF Widths
  <2>2. Coeffs = 8*(8*q) /\ Bytes(f) = 13*(8*q) /\ Bytes(f) \div 13 = 8*q /\ 8*q \in Nat
    BY <1>1, <2>1 DEF Bytes, Sides
  <2> QED BY <2>1, <2>2
<1>7. CASE f = "z17"
  <2>1. Sides(f, 18, 9, 4) /\ 18 \in Widths /\ 9 \in 1..13 /\ 4*18 = 8*9
    BY <1>7, ZSides DEF Widths
  <2>2. Coeffs = 4*(16*q) /\ Bytes(f) = 9*(16*q) /\ Bytes(f) \div 9 = 16*q /\ 16*q \in Nat
    BY <1>1, <2>1 DEF Bytes, Sides
  <2> QED BY <2>1, <2>2
<1>8. CASE f = "z19"
  <2>1. Sides(f, 20, 5, 2) /\ 20 \in Widths /\ 5 \in 1..13 /\ 2*20 = 8*5
    BY <1>8, ZSides DEF Widths
  <2>2. Coeffs = 2*(32*q) /\ Bytes(f) = 5*(32*q) /\ Bytes(f) \div 5 = 32*q /\ 32*q \in Nat
    BY <1>1, <2>1 DEF Bytes, Sides
  <2> QED BY <2>1, <2>2
<1>9. CASE f = "w88"
  <2>1. Sides(f, 6, 3, 4) /\ 6 \in Widths /\ 3 \in 1..13 /\ 4*6 = 8*3
    BY <1>9, W1Sides DEF Widths
  <2>2. Coeffs = 4*(16*q) /\ Bytes(f) = 3*(16*q) /\ Bytes(f) \div 3 = 16*q /\ 16*q \in Nat
    BY <1>1, <2>1 DEF Bytes, Sides
  <2> QED BY <2>1, <2>2
<1>10. CASE f = "w32"
  <2>1. Sides(f, 4, 1, 2) /\ 4 \in Widths /\ 1 \in 1..13 /\ 2*4 = 8*1
    BY <1>10, W1Sides DEF Widths
  <2>2. Coeffs = 2*(32*q) /\ Bytes(f) = 1*(32*q) /\ Bytes(f) \div 1 = 32*q /\ 32*q \in Nat
    BY <1>1, <2>1 DEF Bytes, Sides
  <2> QED BY <2>1, <2>2
<1> QED BY <1>2, <1>3, <1>4, <1>5, <1>6, <1>7, <1>8, <1>9, <1>10

\* The byte of a table's terms is the byte of the stream.
LEMMA PackedByte ==
    ASSUME NEW f \in DOMAIN Width, NEW x \in Nat, NEW y \in Nat, NEW T, NEW j \in Nat,
           Width[f]*x = 8*y, Packs(T, Width[f], j)
    PROVE  Byte(UNION {Shl(Given(f, x + t[1]), -t[2]) : t \in T})
             = Span(Width[f], 8*(y + j), 0, 8)
<1>1. PICK w, d, U : /\ w = Width[f] /\ d = 8*(y + j)
                     /\ U = UNION {Shl(Given(f, x + t[1]), -t[2]) : t \in T}
  OBVIOUS
<1>2. w \in Nat
  BY <1>1 DEF Width
<1>3. ASSUME NEW t \in T
      PROVE  Shl(Given(f, x + t[1]), -t[2]) = Span(w, d, -t[2], w - t[2]) /\ t[2] \in Int
  <2>1. PICK a, b : a = t[1] /\ b = t[2]
    OBVIOUS
  <2>2. a \in Nat /\ b \in Int /\ w*a + b = 8*j
    BY <1>1, <2>1 DEF Packs
  <2>3. Given(f, x + a) = Span(w, w*(x + a), 0, w)
    BY <1>1, <2>2, GivenSpan
  <2>4. w*(x + a) \in Int /\ w*(x + a) = w*x + w*a
    BY <1>2, <2>2
  <2>5. w*(x + a) - (-b) = d
    <3>1. PICK wx, wa : wx = w*x /\ wa = w*a
      OBVIOUS
    <3>2. wx \in Int /\ wa \in Int /\ wx = 8*y /\ wa + b = 8*j /\ d = 8*(y + j)
      BY <1>1, <1>2, <2>2, <3>1
    <3>3. wx + wa - (-b) = d
      BY <2>2, <3>2
    <3>4. PICK v : v = w*(x + a)
      OBVIOUS
    <3>5. v = wx + wa /\ v \in Int
      BY <2>4, <3>1, <3>4
    <3>6. v - (-b) = d
      BY <3>2, <3>3, <3>5, <2>2
    <3> QED BY <3>4, <3>6
  <2>6. Shl(Span(w, w*(x + a), 0, w), -b) = Span(w, w*(x + a) - (-b), 0 + (-b), w + (-b))
    BY <1>2, <2>2, <2>4, ShiftedSpan
  <2>7. 0 + (-b) = -b /\ w + (-b) = w - b
    BY <1>2, <2>2
  <2> QED BY <2>1, <2>2, <2>3, <2>5, <2>6, <2>7
<1>4. ASSUME NEW e \in Byte(U) PROVE e \in Span(w, d, 0, 8)
  <2>1. e \in U /\ 0 <= e[1] /\ e[1] < 8
    BY DEF Byte, Cut
  <2>2. PICK t \in T : e \in Shl(Given(f, x + t[1]), -t[2])
    BY <1>1, <2>1
  <2>3. PICK p \in -t[2]..(w-t[2])-1 : e = <<p, Bit(w, d + p)>>
    BY <1>3, <2>2 DEF Span
  <2>4. p \in 0..8-1
    BY <1>2, <1>3, <2>1, <2>3
  <2> QED BY <2>3, <2>4 DEF Span
<1>5. ASSUME NEW e \in Span(w, d, 0, 8) PROVE e \in Byte(U)
  <2>1. PICK p \in 0..7 : e = <<p, Bit(w, d + p)>>
    BY DEF Span
  <2>2. PICK t \in T : -t[2] <= p /\ p < w - t[2]
    BY <1>1 DEF Packs
  <2>3. p \in -t[2]..(w-t[2])-1
    BY <1>2, <1>3, <2>2
  <2>4. e \in Shl(Given(f, x + t[1]), -t[2])
    BY <1>3, <2>1, <2>3 DEF Span
  <2>5. e \in U /\ e[1] = p
    BY <1>1, <2>1, <2>4
  <2> QED BY <2>5 DEF Byte, Cut
<1> QED BY <1>1, <1>4, <1>5

\* Bytes of the stream, m of them from number y.
Stands(bytes, w, y, m) == \A b \in 0..m-1 : bytes[y + b + 1] = Span(w, 8*(y + b), 0, 8)

OrOf(T, bytes, y) == UNION {Shl(bytes[y + t[1] + 1], -t[2]) : t \in T}
GivesBack(f, bytes, y, T, mask, x, c) == Cut(OrOf(T, bytes, y), mask) = Given(f, x + c)

\* The coefficient of a table's terms is the one that was given.
LEMMA UnpackedCoefficient ==
    ASSUME NEW f \in DOMAIN Width, NEW x \in Nat, NEW y \in Nat, NEW T, NEW c \in Nat,
           NEW m \in Nat, NEW mask \in Nat, NEW bytes,
           Width[f]*x = 8*y, Unpacks(T, Width[f], m, c, mask), Stands(bytes, Width[f], y, m)
    PROVE  GivesBack(f, bytes, y, T, mask, x, c)
<1>1. PICK w, d, U : /\ w = Width[f] /\ d = w*(x + c)
                     /\ U = OrOf(T, bytes, y)
  OBVIOUS
<1>2. w \in Nat
  BY <1>1 DEF Width
<1>3. ASSUME NEW t \in T
      PROVE  /\ Shl(bytes[y + t[1] + 1], -t[2]) = Span(w, d, -t[2], 8 - t[2]) /\ t[2] \in Int
             /\ w < mask => 8 - t[2] <= w
  <2>1. PICK a, b : a = t[1] /\ b = t[2]
    OBVIOUS
  <2>2. a \in 0..m-1 /\ b \in Int /\ 8*a + b = w*c /\ (w < mask => 8 - b <= w)
    BY <1>1, <2>1 DEF Unpacks
  <2>3. bytes[y + a + 1] = Span(w, 8*(y + a), 0, 8)
    BY <1>1, <2>2 DEF Stands
  <2>4. d = w*x + w*c
    BY <1>1, <1>2
  <2>5. 8*(y + a) \in Int /\ 8*(y + a) - (-b) = d
    BY <1>1, <1>2, <2>2, <2>4
  <2>6. Shl(Span(w, 8*(y + a), 0, 8), -b) = Span(w, 8*(y + a) - (-b), 0 + (-b), 8 + (-b))
    BY <2>2, <2>5, ShiftedSpan
  <2>7. 0 + (-b) = -b /\ 8 + (-b) = 8 - b
    BY <2>2
  <2> QED BY <2>1, <2>2, <2>3, <2>5, <2>6, <2>7
<1>4. ASSUME NEW e \in Cut(U, mask) PROVE e \in Span(w, d, 0, w)
  <2>1. e \in U /\ 0 <= e[1] /\ e[1] < mask
    BY DEF Cut
  <2>2. PICK t \in T : e \in Shl(bytes[y + t[1] + 1], -t[2])
    BY <1>1, <2>1 DEF OrOf
  <2>3. PICK p \in -t[2]..(8-t[2])-1 : e = <<p, Bit(w, d + p)>>
    BY <1>3, <2>2 DEF Span
  <2>4. p \in 0..w-1
    <3>1. w <= mask
      BY <1>1 DEF Unpacks
    <3> QED BY <3>1, <1>2, <1>3, <2>1, <2>3
  <2> QED BY <2>3, <2>4 DEF Span
<1>5. ASSUME NEW e \in Span(w, d, 0, w) PROVE e \in Cut(U, mask)
  <2>1. PICK p \in 0..w-1 : e = <<p, Bit(w, d + p)>>
    BY DEF Span
  <2>2. PICK t \in T : -t[2] <= p /\ p < 8 - t[2]
    BY <1>1 DEF Unpacks
  <2>3. p \in -t[2]..(8-t[2])-1
    BY <1>2, <1>3, <2>2
  <2>4. e \in Shl(bytes[y + t[1] + 1], -t[2])
    BY <1>3, <2>1, <2>3 DEF Span
  <2>5. e \in U /\ e[1] = p
    BY <1>1, <2>1, <2>4 DEF OrOf
  <2>6. w <= mask
    BY <1>1 DEF Unpacks
  <2> QED BY <1>2, <2>5, <2>6 DEF Cut
<1>6. Given(f, x + c) = Span(w, d, 0, w)
  BY <1>1, GivenSpan
<1> QED BY <1>1, <1>4, <1>5, <1>6 DEF GivesBack

\* Sequences of a known length, one behind the other.
Chain(S, v, n) == v \in Seq(S) /\ Len(v) = n
Joins(S, s, v, n, w, m) ==
    /\ Chain(S, s, n + m)
    /\ \A nth \in 1..n : s[nth] = v[nth]
    /\ \A nth \in 1..m : s[n + nth] = w[nth]

LEMMA Joining ==
    ASSUME NEW S, NEW v, NEW w, NEW n \in Nat, NEW m \in Nat, Chain(S, v, n), Chain(S, w, m)
    PROVE  Joins(S, v \o w, v, n, w, m)
<1>1. PICK s : s = v \o w
  OBVIOUS
<1>2. v \in Seq(S) /\ w \in Seq(S) /\ Len(v) = n /\ Len(w) = m
  BY DEF Chain
<1>3. /\ s \in Seq(S) /\ Len(s) = n + m
      /\ \A nth \in 1..n+m : s[nth] = IF nth <= n THEN v[nth] ELSE w[nth - n]
  BY <1>1, <1>2, ConcatProperties
<1>4. \A nth \in 1..n : nth \in 1..n+m /\ nth <= n
  OBVIOUS
<1>5. \A nth \in 1..m : n + nth \in 1..n+m /\ ~(n + nth <= n) /\ (n + nth) - n = nth
  OBVIOUS
<1>6. \A nth \in 1..n : s[nth] = v[nth]
  BY <1>3, <1>4
<1>7. \A nth \in 1..m : s[n + nth] = w[nth]
  BY <1>3, <1>5
<1> QED BY <1>1, <1>3, <1>6, <1>7 DEF Joins, Chain

\* The bytes of the stream, the coefficients, and the first ones of either.
StreamOf(w) == [j \in Nat \ {0} |-> Span(w, 8*(j - 1), 0, 8)]
GivenAll(f) == [c \in Nat \ {0} |-> Given(f, c - 1)]
First(F, n) == [j \in 1..n |-> F[j]]

Piece(F, n, m) == [b \in 1..m |-> F[n + b]]

LEMMA FirstGrows ==
    ASSUME NEW F, NEW n \in Nat, NEW m \in Nat
    PROVE  First(F, n) \o Piece(F, n, m) = First(F, n + m)
<1>1. PICK S : S = {F[j] : j \in 1..n+m}
  OBVIOUS
<1>2. PICK p, q : p = First(F, n) /\ q = Piece(F, n, m)
  OBVIOUS
<1>3. p \in Seq(S) /\ Len(p) = n /\ \A j \in 1..n : p[j] = F[j]
  BY <1>1, <1>2 DEF First
<1>4. q \in Seq(S) /\ Len(q) = m /\ \A b \in 1..m : q[b] = F[n + b]
  <2>1. \A b \in 1..m : n + b \in 1..n+m
    OBVIOUS
  <2> QED BY <1>1, <1>2, <2>1 DEF Piece
<1>5. /\ p \o q \in Seq(S) /\ Len(p \o q) = n + m
      /\ \A j \in 1..n+m : (p \o q)[j] = IF j <= n THEN p[j] ELSE q[j - n]
  <2>1. Chain(S, p, n) /\ Chain(S, q, m)
    BY <1>3, <1>4 DEF Chain
  <2>2. Joins(S, p \o q, p, n, q, m)
    BY <2>1, Joining
  <2>3. /\ p \o q \in Seq(S) /\ Len(p \o q) = n + m
        /\ \A j \in 1..n : (p \o q)[j] = p[j]
        /\ \A j \in 1..m : (p \o q)[n + j] = q[j]
    BY <2>2 DEF Joins, Chain
  <2>4. ASSUME NEW j \in 1..n+m PROVE (p \o q)[j] = IF j <= n THEN p[j] ELSE q[j - n]
    <3>1. CASE j <= n
      BY <2>3, <3>1
    <3>2. CASE ~(j <= n)
      <4>1. j - n \in 1..m /\ n + (j - n) = j
        BY <3>2
      <4> QED BY <2>3, <3>2, <4>1
    <3> QED BY <3>1, <3>2
  <2> QED BY <2>3, <2>4
<1>6. ASSUME NEW j \in 1..n+m PROVE (p \o q)[j] = F[j]
  <2>1. CASE j <= n
    BY <2>1, <1>3, <1>5
  <2>2. CASE ~(j <= n)
    <3>1. j - n \in 1..m /\ n + (j - n) = j
      BY <2>2
    <3> QED BY <2>2, <3>1, <1>4, <1>5
  <2> QED BY <2>1, <2>2
<1>7. PICK s : s = p \o q
  OBVIOUS
<1>8. s = [j \in 1..n+m |-> s[j]]
  <2>1. s \in Seq(S) /\ Len(s) = n + m
    BY <1>5, <1>7
  <2> QED BY <2>1
<1>9. \A j \in 1..n+m : s[j] = F[j]
  BY <1>6, <1>7
<1>10. s = First(F, n + m)
  BY <1>8, <1>9 DEF First
<1> QED BY <1>2, <1>7, <1>10

LEMMA FirstIs ==
    ASSUME NEW F, NEW n \in Nat
    PROVE  Len(First(F, n)) = n /\ \A j \in 1..n : First(F, n)[j] = F[j]
BY DEF First

\* The formats: those of a table and those of the bit buffer.
LEMMA Formats ==
    /\ DOMAIN Width = Tables \cup Buffered /\ Tables \cap Buffered = {}
    /\ VectorZ \subseteq Tables /\ VectorW1 \subseteq Tables /\ VectorZ \cap VectorW1 = {}
    /\ Width["tbar11"] = 11 /\ Width["tbar10"] = 10
    /\ Width["z17"] = 18 /\ Width["z19"] = 20 /\ Width["w88"] = 6 /\ Width["w32"] = 4
<1>1. DOMAIN Width = {"eta2", "eta4", "t1", "t0", "z17", "z19", "w88", "w32", "tbar11", "tbar10"}
  BY DEF Width
<1>2. Tables = {"eta2", "eta4", "t1", "t0", "z17", "z19", "w88", "w32"}
  BY DEF Tables, PackTerms
<1>3. /\ Width["tbar11"] = 11 /\ Width["tbar10"] = 10
      /\ Width["z17"] = 18 /\ Width["z19"] = 20 /\ Width["w88"] = 6 /\ Width["w32"] = 4
  BY DEF Width
<1> QED BY <1>1, <1>2, <1>3 DEF Buffered, VectorZ, VectorW1

LEMMA WidthIs == ASSUME NEW f \in DOMAIN Width PROVE Width[f] \in 3..20 /\ Width[f] \in Widths
BY DEF Width, Widths

\* A polynomial is a whole number of bytes.
LEMMA WholeBytes ==
    ASSUME NEW f \in DOMAIN Width
    PROVE  /\ Bytes(f) \in Nat /\ 8*Bytes(f) = Width[f]*Coeffs
           /\ \E q \in Nat : Coeffs = 8*q /\ Bytes(f) = Width[f]*q
<1>1. PICK w : w = Width[f]
  OBVIOUS
<1>2. w \in Nat
  BY <1>1, WidthIs
<1>3. PICK q \in Nat : Coeffs = 8*q
  <2>1. Coeffs \in Nat /\ Coeffs % 64 = 0
    BY PackingAssumption
  <2>2. PICK h \in Nat : Coeffs = 64*h
    BY <2>1
  <2> QED BY <2>2
<1>4. PICK v : v = w*q
  OBVIOUS
<1>5. v \in Nat /\ Coeffs*w = 8*v /\ w*Coeffs = 8*v
  BY <1>2, <1>3, <1>4
<1>6. (8*v) \div 8 = v
  BY <1>5
<1>7. Bytes(f) = v
  BY <1>1, <1>5, <1>6 DEF Bytes
<1> QED BY <1>1, <1>3, <1>4, <1>5, <1>7

LEMMA OneTurnMore ==
    ASSUME NEW m \in Nat, NEW g0 \in Nat
    PROVE  m*g0 \in Nat /\ m*(g0 + 1) = m*g0 + m
BY SMT

LEMMA MoreTurns ==
    ASSUME NEW m \in Nat, NEW a \in Nat, NEW b \in Nat, a <= b
    PROVE  m*a <= m*b
<1>1. PICK d : d = b - a
  OBVIOUS
<1>2. d \in Nat /\ b = a + d
  BY <1>1
<1>3. m*d \in Nat /\ m*a \in Nat /\ m*(a + d) = m*a + m*d
  BY <1>2, SMT
<1> QED BY <1>2, <1>3

\* What a turn of the table loops writes.
BytesOf(f, m, n, gr) ==
    [b \in 1..m |-> Byte(UNION {Shl(Given(f, n*gr + t[1]), -t[2]) : t \in PackTerms[f][b]})]

LEMMA GroupOfBytes ==
    ASSUME NEW f \in Tables, NEW gr \in Nat, NEW m, NEW n,
           m = Len(PackTerms[f]), n = Together(f)
    PROVE  /\ m \in Nat /\ n \in Nat
           /\ First(StreamOf(Width[f]), m*gr) \o BytesOf(f, m, n, gr) = First(StreamOf(Width[f]), m*(gr + 1))
<1>1. PICK w \in Widths, m0 \in 1..13, n0 \in {2, 4, 8} : Sides(f, w, m0, n0) /\ n0*w = 8*m0
  BY TableShape
<1>2. /\ f \in DOMAIN Width /\ Width[f] = w /\ m = m0 /\ n = n0
      /\ \A j \in 1..m : Packs(PackTerms[f][j], w, j - 1)
  BY <1>1 DEF Sides
<1>3. PICK x, y : x = n*gr /\ y = m*gr
  OBVIOUS
<1>4. w \in Nat /\ m \in Nat /\ n \in Nat
  BY <1>2, WidthIs
<1>5. x \in Nat /\ y \in Nat /\ m*(gr + 1) = y + m
  <2>1. n*gr \in Nat /\ m*gr \in Nat /\ m*(gr + 1) = m*gr + m
    BY <1>4, OneTurnMore
  <2> QED BY <1>3, <2>1
<1>6. w*x = 8*y
  BY <1>1, <1>2, <1>3, <1>4, SMT
<1>7. PICK q : /\ q = [b \in 1..m |-> Byte(UNION {Shl(Given(f, x + t[1]), -t[2]) : t \in PackTerms[f][b]})]
               /\ q = BytesOf(f, m, n, gr)
  BY <1>3 DEF BytesOf
<1>8. ASSUME NEW b \in 1..m PROVE q[b] = StreamOf(w)[y + b]
  <2>1. b - 1 \in Nat /\ y + b \in Nat \ {0} /\ (y + b) - 1 = y + (b - 1)
    BY <1>4, <1>5
  <2>2. Packs(PackTerms[f][b], w, b - 1)
    BY <1>2
  <2>3. q[b] = Span(w, 8*(y + (b - 1)), 0, 8)
    <3>1. PICK T, d : T = PackTerms[f][b] /\ d = b - 1
      OBVIOUS
    <3>2. d \in Nat /\ Packs(T, Width[f], d) /\ Width[f]*x = 8*y
      BY <1>2, <1>6, <2>1, <2>2, <3>1
    <3>3. Byte(UNION {Shl(Given(f, x + t[1]), -t[2]) : t \in T}) = Span(Width[f], 8*(y + d), 0, 8)
      BY <1>2, <1>5, <3>2, PackedByte
    <3>4. q[b] = Byte(UNION {Shl(Given(f, x + t[1]), -t[2]) : t \in T})
      BY <1>7, <3>1
    <3> QED BY <1>2, <3>1, <3>3, <3>4
  <2>4. StreamOf(w)[y + b] = Span(w, 8*((y + b) - 1), 0, 8)
    BY <2>1 DEF StreamOf
  <2> QED BY <2>1, <2>3, <2>4
<1>9. First(StreamOf(w), y) \o q = First(StreamOf(w), y + m)
  <2>1. PICK F : F = StreamOf(w)
    OBVIOUS
  <2>2. \A b \in 1..m : q[b] = F[y + b]
    BY <1>8, <2>1
  <2>3. q = Piece(F, y, m)
    BY <1>7, <2>2 DEF Piece
  <2>4. First(F, y) \o Piece(F, y, m) = First(F, y + m)
    BY <1>4, <1>5, FirstGrows
  <2> QED BY <2>1, <2>3, <2>4
<1> QED BY <1>2, <1>3, <1>4, <1>5, <1>7, <1>9

\* What a turn of the table loops reads.
CoefficientsOf(f, bytes, m, n, gr) ==
    [c \in 1..n |-> Cut(UNION {Shl(bytes[m*gr + t[1] + 1], -t[2]) : t \in UnpackTerms[f][c]},
                       MaskBits(f, c - 1))]

GroupRead(f, bytes, m, n, gr) ==
    /\ n \in Nat /\ Len(UnpackTerms[f]) = n /\ n*(gr + 1) <= Coeffs
    /\ First(GivenAll(f), n*gr) \o CoefficientsOf(f, bytes, m, n, gr) = First(GivenAll(f), n*(gr + 1))

LEMMA GroupOfCoefficients ==
    ASSUME NEW f \in Tables \ VectorW1, NEW gr \in Nat, NEW m, NEW n, NEW bytes,
           m = Len(PackTerms[f]), n = Together(f), n*gr < Coeffs,
           bytes = First(StreamOf(Width[f]), Bytes(f))
    PROVE  GroupRead(f, bytes, m, n, gr)
<1>1. PICK w \in Widths, m0 \in 1..13, n0 \in {2, 4, 8}, k \in Nat :
         /\ Sides(f, w, m0, n0) /\ n0*w = 8*m0
         /\ Coeffs = n0*k /\ Bytes(f) = m0*k /\ Bytes(f) \div m0 = k
  <2>1. f \in Tables
    OBVIOUS
  <2> QED BY <2>1, TableShape
<1>2. /\ f \in DOMAIN Width /\ Width[f] = w /\ m = m0 /\ n = n0 /\ Len(UnpackTerms[f]) = n
      /\ \A c \in 1..n : Unpacks(UnpackTerms[f][c], w, m, c - 1, MaskBits(f, c - 1))
  BY <1>1 DEF Sides
<1>3. PICK x, y, z : x = n*gr /\ y = m*gr /\ z = m*k
  OBVIOUS
<1>4. w \in Nat /\ m \in Nat /\ n \in Nat
  <2>1. w \in Nat
    BY DEF Widths
  <2>2. m0 \in Nat /\ n0 \in Nat
    OBVIOUS
  <2> QED BY <1>2, <2>1, <2>2
<1>5. x \in Nat /\ y \in Nat /\ n*(gr + 1) = x + n
  <2>1. n*gr \in Nat /\ m*gr \in Nat /\ n*(gr + 1) = n*gr + n
    BY <1>4, OneTurnMore
  <2> QED BY <1>3, <2>1
<1>6. w*x = 8*y
  BY <1>1, <1>2, <1>3, <1>4, SMT
<1>7. gr < k
  BY <1>1, <1>2, SMT
<1>8. y + m <= z /\ x + n <= Coeffs /\ z \in Nat
  <2>1. gr + 1 \in Nat /\ gr + 1 <= k
    BY <1>7
  <2>2. m*(gr + 1) <= m*k /\ n*(gr + 1) <= n*k
    BY <1>4, <2>1, MoreTurns
  <2> QED BY <1>1, <1>2, <1>3, <1>4, <1>5, <2>2
<1>9. Stands(bytes, w, y, m)
  <2> SUFFICES ASSUME NEW b \in 0..m-1 PROVE bytes[y + b + 1] = Span(w, 8*(y + b), 0, 8)
    BY DEF Stands
  <2>1. y + b + 1 \in 1..z /\ y + b + 1 \in Nat \ {0} /\ (y + b + 1) - 1 = y + b
    BY <1>4, <1>5, <1>8
  <2>2. bytes[y + b + 1] = StreamOf(w)[y + b + 1]
    BY <1>1, <1>2, <1>3, <2>1 DEF First
  <2>3. StreamOf(w)[y + b + 1] = Span(w, 8*((y + b + 1) - 1), 0, 8)
    BY <2>1 DEF StreamOf
  <2> QED BY <2>1, <2>2, <2>3
<1>10. PICK q : /\ q = [c \in 1..n |-> Cut(UNION {Shl(bytes[y + t[1] + 1], -t[2]) : t \in UnpackTerms[f][c]},
                                           MaskBits(f, c - 1))]
                /\ q = CoefficientsOf(f, bytes, m, n, gr)
  BY <1>3 DEF CoefficientsOf
<1>11. ASSUME NEW c \in 1..n PROVE q[c] = GivenAll(f)[x + c]
  <2>1. c - 1 \in Nat /\ x + c \in Nat \ {0} /\ (x + c) - 1 = x + (c - 1)
    BY <1>4, <1>5
  <2>2. Unpacks(UnpackTerms[f][c], w, m, c - 1, MaskBits(f, c - 1)) /\ MaskBits(f, c - 1) \in Nat
    BY <1>2, <1>4 DEF MaskBits
  <2>3. PICK T, mask, d : T = UnpackTerms[f][c] /\ mask = MaskBits(f, c - 1) /\ d = c - 1
    OBVIOUS
  <2>4. q[c] = Cut(OrOf(T, bytes, y), mask)
    BY <1>10, <2>3 DEF OrOf
  <2>5. Cut(OrOf(T, bytes, y), mask) = Given(f, x + (c - 1))
    <3>1. d \in Nat /\ mask \in Nat /\ Unpacks(T, Width[f], m, d, mask)
      BY <1>2, <2>1, <2>2, <2>3
    <3>2. Width[f]*x = 8*y /\ Stands(bytes, Width[f], y, m)
      BY <1>2, <1>6, <1>9
    <3>3. GivesBack(f, bytes, y, T, mask, x, d)
      BY <1>2, <1>4, <1>5, <3>1, <3>2, UnpackedCoefficient
    <3>4. Cut(OrOf(T, bytes, y), mask) = Given(f, x + d)
      BY <3>3 DEF GivesBack
    <3> QED BY <2>3, <3>4
  <2>6. GivenAll(f)[x + c] = Given(f, (x + c) - 1)
    BY <2>1 DEF GivenAll
  <2> QED BY <2>1, <2>4, <2>5, <2>6
<1>12. First(GivenAll(f), x) \o q = First(GivenAll(f), x + n)
  <2>1. PICK F : F = GivenAll(f)
    OBVIOUS
  <2>2. \A c \in 1..n : q[c] = F[x + c]
    BY <1>11, <2>1
  <2>3. q = Piece(F, x, n)
    BY <1>10, <2>2 DEF Piece
  <2>4. First(F, x) \o Piece(F, x, n) = First(F, x + n)
    BY <1>4, <1>5, FirstGrows
  <2> QED BY <2>1, <2>3, <2>4
<1> QED BY <1>2, <1>3, <1>4, <1>5, <1>8, <1>10, <1>12 DEF GroupRead

\* Bits brought in on top of those that wait.
Brings(w, d, a, b, n) ==
    Cut(Span(w, d, 0, a) \cup Shl(Span(w, d + a, 0, b), a), n) = Span(w, d, 0, a + b)

LEMMA BitsOnTop ==
    ASSUME NEW w, NEW d \in Int, NEW a \in Nat, NEW b \in Nat, NEW n \in Int, a + b <= n
    PROVE  Brings(w, d, a, b, n)
<1>1. d + a \in Int /\ (d + a) - a = d /\ 0 + a = a /\ b + a = a + b
  OBVIOUS
<1>2. Shl(Span(w, d + a, 0, b), a) = Span(w, (d + a) - a, 0 + a, b + a)
  BY <1>1, ShiftedSpan
<1>3. Span(w, d, 0, a) \cup Span(w, d, a, a + b) = Span(w, d, 0, a + b)
  <2>1. PICK h : h = a + b
    OBVIOUS
  <2>2. 0 \in Int /\ h \in Int /\ 0 <= a /\ a <= h
    BY <2>1
  <2>3. Joined(w, d, 0, a, h)
    BY <2>2, JoinedSpans
  <2> QED BY <2>1, <2>3 DEF Joined
<1>4. Cut(Span(w, d, 0, a + b), n) = Span(w, d, 0, a + b)
  <2>1. PICK h : h = a + b
    OBVIOUS
  <2>2. h \in Int /\ h <= n /\ 0 <= 0
    BY <2>1
  <2>3. Cut(Span(w, d, 0, h), n) = Span(w, d, 0, h)
    BY <2>2, CutSpan
  <2> QED BY <2>1, <2>3
<1> QED BY <1>1, <1>2, <1>3, <1>4 DEF Brings

\* Bits cut out of those that wait.
LEMMA BitsBelow ==
    ASSUME NEW w, NEW d \in Int, NEW a \in Nat, NEW s \in Nat, NEW n \in Int, NEW m \in Int,
           m = n \/ m = a - s, m <= n, m <= a - s
    PROVE  Cut(Shl(Span(w, d, 0, a), -s), n) = Span(w, d + s, 0, m)
<1>1. PICK t : t = -s
  OBVIOUS
<1>2. t \in Int /\ d - t = d + s /\ 0 + t = t /\ a + t = a - s /\ t <= 0
  BY <1>1
<1>3. Shl(Span(w, d, 0, a), t) = Span(w, d - t, 0 + t, a + t)
  BY <1>2, ShiftedSpan
<1>4. PICK h, e : h = a - s /\ e = d + s
  OBVIOUS
<1>5. h \in Int /\ e \in Int /\ m <= h /\ (m = n \/ m = h)
  BY <1>4
<1>6. Cut(Span(w, e, t, h), n) = Span(w, e, 0, m)
  BY <1>2, <1>5, CutSpan
<1> QED BY <1>1, <1>2, <1>3, <1>4, <1>6

\* A turn of polytbar_pack's loop.
Writes(w, k, word, cnt) ==
    /\ First(StreamOf(w), k) \o OutBytes(word, cnt) = First(StreamOf(w), k + cnt \div 8)
    /\ Kept(word, cnt) = Span(w, 8*(k + cnt \div 8), 0, cnt % 8)

LEMMA BufferedOut ==
    ASSUME NEW w \in {10, 11}, NEW k \in Nat, NEW bc \in 0..7, NEW word, NEW cnt,
           word = Span(w, 8*k, 0, cnt), cnt = bc + w
    PROVE  Writes(w, k, word, cnt)
<1>1. PICK o, rest : o = cnt \div 8 /\ rest = cnt % 8
  OBVIOUS
<1>2. o \in Nat /\ rest \in 0..7 /\ cnt = 8*o + rest /\ cnt \in 0..18
  BY <1>1
<1>3. ASSUME NEW b \in 1..o PROVE Byte(Shl(word, -8*(b-1))) = StreamOf(w)[k + b]
  <2>1. PICK s, d : s = 8*(b - 1) /\ d = 8*k
    OBVIOUS
  <2>2. s \in Nat /\ d \in Int /\ cnt \in Nat /\ 8 <= cnt - s /\ d + s = 8*((k + b) - 1)
        /\ -8*(b-1) = -s /\ k + b \in Nat \ {0}
    BY <1>2, <2>1
  <2>3. Cut(Shl(Span(w, d, 0, cnt), -s), 8) = Span(w, d + s, 0, 8)
    BY <2>2, BitsBelow
  <2>4. StreamOf(w)[k + b] = Span(w, 8*((k + b) - 1), 0, 8)
    BY <2>2 DEF StreamOf
  <2> QED BY <2>1, <2>2, <2>3, <2>4 DEF Byte
<1>4. PICK F : F = StreamOf(w)
  OBVIOUS
<1>5. OutBytes(word, cnt) = Piece(F, k, o)
  BY <1>1, <1>3, <1>4 DEF OutBytes, Piece
<1>6. First(F, k) \o Piece(F, k, o) = First(F, k + o)
  BY <1>2, FirstGrows
<1>7. PICK s, d : s = 8*o /\ d = 8*k
  OBVIOUS
<1>8. s \in Nat /\ d \in Int /\ cnt \in Nat /\ rest \in Int /\ rest = cnt - s /\ rest <= 32
      /\ d + s = 8*(k + o) /\ -8*o = -s
  BY <1>2, <1>7
<1>9. Cut(Shl(Span(w, d, 0, cnt), -s), 32) = Span(w, d + s, 0, rest)
  BY <1>8, BitsBelow
<1>10. Kept(word, cnt) = Span(w, 8*(k + o), 0, rest)
  BY <1>1, <1>7, <1>8, <1>9 DEF Kept
<1> QED BY <1>1, <1>4, <1>5, <1>6, <1>10 DEF Writes

\* A turn of polytbar_unpack's loop.
Brought(bytes, nx, bc, n) == UNION {Shl(bytes[nx + b], bc + 8*(b-1)) : b \in 1..n}

Gets(w, gr, bc, n, nx, bytes) ==
    Cut(Span(w, w*gr, 0, bc) \cup Brought(bytes, nx, bc, n), 32) = Span(w, w*gr, 0, bc + 8*n)

LEMMA BufferedIn ==
    ASSUME NEW w \in {10, 11}, NEW gr \in Nat, NEW bc \in 0..7, NEW n \in 1..2, NEW nx \in Nat,
           NEW bytes, 8*nx = w*gr + bc, Stands(bytes, w, nx, n)
    PROVE  Gets(w, gr, bc, n, nx, bytes)
<1>1. PICK d : d = w*gr
  OBVIOUS
<1>2. d \in Int /\ 8*nx = d + bc
  BY <1>1
<1>3. ASSUME NEW b \in 1..n
      PROVE  Shl(bytes[nx + b], bc + 8*(b-1)) = Span(w, d, bc + 8*(b-1), bc + 8*b)
  <2>1. PICK c, s, e : c = b - 1 /\ s = bc + 8*(b-1) /\ e = 8*(nx + (b - 1))
    OBVIOUS
  <2>2. c \in 0..n-1 /\ nx + c + 1 = nx + b /\ s \in Int /\ e \in Int /\ e - s = d
        /\ 0 + s = s /\ 8 + s = bc + 8*b
    BY <1>2, <2>1
  <2>3. bytes[nx + b] = Span(w, e, 0, 8)
    BY <2>1, <2>2 DEF Stands
  <2>4. Shl(Span(w, e, 0, 8), s) = Span(w, e - s, 0 + s, 8 + s)
    BY <2>2, ShiftedSpan
  <2> QED BY <2>1, <2>2, <2>3, <2>4
<1>4. Brought(bytes, nx, bc, n) = Span(w, d, bc, bc + 8*n)
  <2>1. CASE n = 1
    <3>1. Brought(bytes, nx, bc, n) = Shl(bytes[nx + 1], bc + 8*(1-1))
      <4>1. \A b : b \in 1..n <=> b = 1
        BY <2>1
      <4> QED BY <4>1 DEF Brought
    <3>2. Shl(bytes[nx + 1], bc + 8*(1-1)) = Span(w, d, bc + 8*(1-1), bc + 8*1)
      BY <2>1, <1>3
    <3>3. bc + 8*(1-1) = bc /\ bc + 8*1 = bc + 8*n
      BY <2>1
    <3> QED BY <3>1, <3>2, <3>3
  <2>2. CASE n = 2
    <3>1. Brought(bytes, nx, bc, n) = Shl(bytes[nx + 1], bc + 8*(1-1)) \cup Shl(bytes[nx + 2], bc + 8*(2-1))
      <4>1. \A b : b \in 1..n <=> b = 1 \/ b = 2
        BY <2>2
      <4> QED BY <4>1 DEF Brought
    <3>2. /\ Shl(bytes[nx + 1], bc + 8*(1-1)) = Span(w, d, bc + 8*(1-1), bc + 8*1)
          /\ Shl(bytes[nx + 2], bc + 8*(2-1)) = Span(w, d, bc + 8*(2-1), bc + 8*2)
      BY <2>2, <1>3
    <3>3. bc + 8*(1-1) = bc /\ bc + 8*1 = bc + 8 /\ bc + 8*(2-1) = bc + 8 /\ bc + 8*2 = bc + 8*n
      BY <2>2
    <3>4. Span(w, d, bc, bc + 8) \cup Span(w, d, bc + 8, bc + 8*n) = Span(w, d, bc, bc + 8*n)
      <4>1. PICK mid, hi : mid = bc + 8 /\ hi = bc + 8*n
        OBVIOUS
      <4>2. mid \in Int /\ hi \in Int /\ bc <= mid /\ mid <= hi
        BY <2>2, <4>1
      <4>3. Joined(w, d, bc, mid, hi)
        BY <1>2, <4>2, JoinedSpans
      <4> QED BY <4>1, <4>3 DEF Joined
    <3> QED BY <3>1, <3>2, <3>3, <3>4
  <2> QED BY <2>1, <2>2
<1>5. PICK h : h = bc + 8*n
  OBVIOUS
<1>6. h \in Int /\ bc <= h /\ h <= 32 /\ 0 <= bc
  BY <1>5
<1>7. Span(w, d, 0, bc) \cup Span(w, d, bc, h) = Span(w, d, 0, h)
  <2>1. Joined(w, d, 0, bc, h)
    BY <1>2, <1>6, JoinedSpans
  <2> QED BY <2>1 DEF Joined
<1>8. Cut(Span(w, d, 0, h), 32) = Span(w, d, 0, h)
  BY <1>2, <1>6, CutSpan
<1> QED BY <1>1, <1>4, <1>5, <1>7, <1>8 DEF Gets

(***************************************************************************)
(* The vector code: where each element of a register comes from.           *)
(***************************************************************************)
Lanes(S, v, h, a, b) ==
    /\ Chain(S, a, h) /\ Chain(S, b, h)
    /\ \A nth \in 1..h : a[nth] = v[nth] /\ b[nth] = v[h + nth]

LEMMA LaneIs ==
    ASSUME NEW S, NEW v, NEW h \in Nat, Chain(S, v, 2*h)
    PROVE  Lanes(S, v, h, Lane(v, 0), Lane(v, 1))
<1>0. v \in Seq(S) /\ Len(v) = 2*h
  BY DEF Chain
<1>1. Len(v) \div 2 = h
  BY <1>0
<1>2. Lane(v, 0) = SubSeq(v, 1, h) /\ Lane(v, 1) = SubSeq(v, h + 1, 2*h)
  <2>1. 0*h + 1 = 1 /\ (0+1)*h = h /\ 1*h + 1 = h + 1 /\ (1+1)*h = 2*h
    OBVIOUS
  <2> QED BY <1>1, <2>1 DEF Lane
<1>3. /\ SubSeq(v, 1, h) \in Seq(S) /\ Len(SubSeq(v, 1, h)) = h
      /\ \A nth \in 1..h : SubSeq(v, 1, h)[nth] = v[nth]
  BY <1>0
<1>4. PICK a, b, s : a = h + 1 /\ b = 2*h /\ s = SubSeq(v, a, b)
  OBVIOUS
<1>5. s \in Seq(S) /\ Len(s) = h /\ \A nth \in 1..h : s[nth] = v[h + nth]
  <2>1. a \in 1..Len(v) + 1 /\ b \in 0..Len(v) /\ b - a + 1 = h /\ a <= b + 1
    BY <1>0, <1>4
  <2>2. s \in Seq(S) /\ Len(s) = h
    BY <1>0, <1>4, <2>1
  <2>3. \A nth \in 1..h : s[nth] = v[a + nth - 1] /\ a + nth - 1 = h + nth
    BY <1>0, <1>4, <2>1
  <2> QED BY <2>2, <2>3
<1> QED BY <1>2, <1>3, <1>4, <1>5 DEF Lanes, Chain

Packed(S, p, v, w, h) ==
    /\ Chain(S, p, 4*h)
    /\ \A nth \in 1..h : /\ p[nth] = v[nth] /\ p[h + nth] = w[nth]
                       /\ p[2*h + nth] = v[h + nth] /\ p[3*h + nth] = w[h + nth]

LEMMA PackUsIs ==
    ASSUME NEW S, NEW v, NEW w, NEW h \in Nat, Chain(S, v, 2*h), Chain(S, w, 2*h)
    PROVE  Packed(S, PackUs(v, w), v, w, h)
<1>1. PICK a, b, c, d : a = Lane(v, 0) /\ b = Lane(w, 0) /\ c = Lane(v, 1) /\ d = Lane(w, 1)
  OBVIOUS
<1>2. Lanes(S, v, h, a, c)
  BY <1>1, LaneIs
<1>3. Lanes(S, w, h, b, d)
  BY <1>1, LaneIs
<1>4. PICK x : x = a \o b
  OBVIOUS
<1>5. /\ Chain(S, a, h) /\ Chain(S, b, h) /\ Chain(S, c, h) /\ Chain(S, d, h)
  BY <1>2, <1>3 DEF Lanes
<1>6. PICK e, t : e = h + h /\ t = e + h
  OBVIOUS
<1>7. e \in Nat /\ e = 2*h /\ t \in Nat /\ t = 3*h
  BY <1>6
<1>8. Joins(S, x, a, h, b, h) /\ Chain(S, x, e)
  <2>1. Joins(S, x, a, h, b, h)
    BY <1>4, <1>5, Joining
  <2> QED BY <2>1, <1>6 DEF Joins
<1>9. PICK y, z : y = x \o c /\ z = y \o d
  OBVIOUS
<1>10. Joins(S, y, x, e, c, h) /\ Chain(S, y, t)
  <2>1. Joins(S, y, x, e, c, h)
    BY <1>5, <1>7, <1>8, <1>9, Joining
  <2> QED BY <2>1, <1>6 DEF Joins
<1>11. Joins(S, z, y, t, d, h)
  BY <1>5, <1>7, <1>10, <1>9, Joining
<1>12. PackUs(v, w) = z
  <2>1. z = ((a \o b) \o c) \o d
    BY <1>4, <1>9
  <2>2. a \o b \o c \o d = ((a \o b) \o c) \o d
    OBVIOUS
  <2> QED BY <1>1, <2>1, <2>2 DEF PackUs
<1>13. \A nth \in 1..h : /\ z[nth] = v[nth] /\ z[h + nth] = w[nth]
                       /\ z[e + nth] = v[h + nth] /\ z[t + nth] = w[h + nth]
  <2> TAKE nth \in 1..h
  <2>1. nth \in 1..e /\ nth \in 1..t /\ h + nth \in 1..e /\ h + nth \in 1..t /\ e + nth \in 1..t
    BY <1>6
  <2>2. z[nth] = y[nth] /\ z[h + nth] = y[h + nth] /\ z[e + nth] = y[e + nth] /\ z[t + nth] = d[nth]
    BY <2>1, <1>11 DEF Joins
  <2>3. y[nth] = x[nth] /\ y[h + nth] = x[h + nth] /\ y[e + nth] = c[nth]
    BY <2>1, <1>10 DEF Joins
  <2>4. x[nth] = a[nth] /\ x[h + nth] = b[nth]
    BY <2>1, <1>8 DEF Joins
  <2>5. a[nth] = v[nth] /\ b[nth] = w[nth] /\ c[nth] = v[h + nth] /\ d[nth] = w[h + nth]
    BY <1>2, <1>3 DEF Lanes
  <2> QED BY <2>2, <2>3, <2>4, <2>5
<1>14. Chain(S, z, 4*h)
  <2>1. t + h = 4*h
    BY <1>7
  <2> QED BY <1>11, <2>1 DEF Joins
<1> QED BY <1>7, <1>12, <1>13, <1>14 DEF Packed

Added(s, v, n, h) ==
    Len(s) = h /\ \A k \in 1..h : s[k] = v[2*k - 1] \cup Shl(v[2*k], n)

LEMMA MAddIs ==
    ASSUME NEW v, NEW n, NEW h \in Nat, Len(v) = 2*h
    PROVE  Added(MAdd(v, n), v, n, h)
<1>1. Len(v) \div 2 = h
  OBVIOUS
<1>2. MAdd(v, n) = [k \in 1..h |-> v[2*k - 1] \cup Shl(v[2*k], n)]
  BY <1>1 DEF MAdd
<1> QED BY <1>2 DEF Added

Quartered(S, v, idx, q) ==
    Chain(S, q, 32) /\ \A k \in 0..3, nth \in 1..8 : q[8*k + nth] = v[8*idx[k + 1] + nth]

LEMMA QuadsAre ==
    ASSUME NEW S, NEW v, NEW idx, Chain(S, v, 32), Len(idx) = 4, \A k \in 1..4 : idx[k] \in 0..3
    PROVE  Quartered(S, v, idx, Quads(v, idx))
<1>0. v \in Seq(S) /\ Len(v) = 32
  BY DEF Chain
<1>1. ASSUME NEW k \in 1..4
      PROVE  /\ ToQuads(v)[k] \in Seq(S) /\ Len(ToQuads(v)[k]) = 8
             /\ \A nth \in 1..8 : ToQuads(v)[k][nth] = v[8*(k - 1) + nth]
  <2>1. PICK a, b, s : a = 8*k - 7 /\ b = 8*k /\ s = SubSeq(v, a, b)
    OBVIOUS
  <2>2. ToQuads(v)[k] = s
    BY <2>1 DEF ToQuads
  <2>3. a \in 1..Len(v) + 1 /\ b \in 0..Len(v) /\ b - a + 1 = 8 /\ a <= b + 1
    BY <1>0, <2>1
  <2>4. s \in Seq(S)
    <3>1. a \in Int /\ b \in Int
      BY <2>1
    <3>2. \A nth \in a..b : v[nth] \in S
      <4>1. a..b \subseteq 1..Len(v)
        BY <1>0, <2>1
      <4>2. \A nth \in 1..Len(v) : v[nth] \in S
        BY <1>0, ElementOfSeq
      <4> QED BY <4>1, <4>2
    <3> QED BY <2>1, <3>1, <3>2, SubSeqProperties
  <2>5. Len(s) = 8
    <3>1. a \in Int /\ b \in Int /\ IF a <= b THEN b - a + 1 = 8 ELSE FALSE
      BY <2>1
    <3> QED BY <2>1, <3>1
  <2>6. \A nth \in 1..8 : s[nth] = v[a + nth - 1] /\ a + nth - 1 = 8*(k - 1) + nth
    BY <1>0, <2>1, <2>3
  <2> QED BY <2>2, <2>4, <2>5, <2>6
<1>2. PICK q : q = Pick(ToQuads(v), idx)
  OBVIOUS
<1>3. ASSUME NEW k \in 1..4
      PROVE q[k] \in Seq(S) /\ Len(q[k]) = 8 /\ \A nth \in 1..8 : q[k][nth] = v[8*idx[k] + nth]
  <2>1. idx[k] \in 0..3
    OBVIOUS
  <2>2. q[k] = ToQuads(v)[idx[k] + 1]
    BY <1>2, <2>1 DEF Pick
  <2>3. idx[k] + 1 \in 1..4 /\ (idx[k] + 1) - 1 = idx[k]
    BY <2>1
  <2> QED BY <1>1, <2>2, <2>3
<1>4. PICK a, b, c, d : a = q[1] /\ b = q[2] /\ c = q[3] /\ d = q[4]
  OBVIOUS
<1>5. Chain(S, a, 8) /\ Chain(S, b, 8) /\ Chain(S, c, 8) /\ Chain(S, d, 8)
  BY <1>3, <1>4 DEF Chain
<1>6. PICK x, y, z : x = a \o b /\ y = x \o c /\ z = y \o d
  OBVIOUS
<1>7. Joins(S, x, a, 8, b, 8) /\ Chain(S, x, 16)
  <2>1. Joins(S, x, a, 8, b, 8) /\ 8 + 8 = 16
    BY <1>5, <1>6, Joining
  <2> QED BY <2>1 DEF Joins
<1>8. Joins(S, y, x, 16, c, 8) /\ Chain(S, y, 24)
  <2>1. Joins(S, y, x, 16, c, 8) /\ 16 + 8 = 24
    BY <1>5, <1>6, <1>7, Joining
  <2> QED BY <2>1 DEF Joins
<1>9. Joins(S, z, y, 24, d, 8) /\ Chain(S, z, 32)
  <2>1. Joins(S, z, y, 24, d, 8) /\ 24 + 8 = 32
    BY <1>5, <1>6, <1>8, Joining
  <2> QED BY <2>1 DEF Joins
<1>10. Quads(v, idx) = z
  <2>1. z = ((a \o b) \o c) \o d
    BY <1>6
  <2> QED BY <1>2, <1>4, <2>1 DEF Quads, OfQuads
<1>11. ASSUME NEW nth \in 1..8
       PROVE z[nth] = a[nth] /\ z[8 + nth] = b[nth] /\ z[16 + nth] = c[nth] /\ z[24 + nth] = d[nth]
  <2>1. nth \in 1..16 /\ 8 + nth \in 1..16 /\ nth \in 1..24 /\ 8 + nth \in 1..24 /\ 16 + nth \in 1..24
    OBVIOUS
  <2>2. z[nth] = y[nth] /\ z[8 + nth] = y[8 + nth] /\ z[16 + nth] = y[16 + nth] /\ z[24 + nth] = d[nth]
    BY <2>1, <1>9 DEF Joins
  <2>3. y[nth] = x[nth] /\ y[8 + nth] = x[8 + nth] /\ y[16 + nth] = c[nth]
    BY <2>1, <1>8 DEF Joins
  <2>4. x[nth] = a[nth] /\ x[8 + nth] = b[nth]
    BY <2>1, <1>7 DEF Joins
  <2> QED BY <2>2, <2>3, <2>4
<1>12. ASSUME NEW k \in 0..3, NEW nth \in 1..8 PROVE z[8*k + nth] = v[8*idx[k + 1] + nth]
  <2>1. q[k + 1][nth] = v[8*idx[k + 1] + nth]
    <3>1. k + 1 \in 1..4
      OBVIOUS
    <3> QED BY <1>3, <3>1
  <2>2. CASE k = 0
    <3>1. 8*k + nth = nth /\ k + 1 = 1
      BY <2>2
    <3>2. z[nth] = q[1][nth]
      BY <1>4, <1>11
    <3> QED BY <2>1, <3>1, <3>2
  <2>3. CASE k = 1
    <3>1. 8*k + nth = 8 + nth /\ k + 1 = 2
      BY <2>3
    <3>2. z[8 + nth] = q[2][nth]
      BY <1>4, <1>11
    <3> QED BY <2>1, <3>1, <3>2
  <2>4. CASE k = 2
    <3>1. 8*k + nth = 16 + nth /\ k + 1 = 3
      BY <2>4
    <3>2. z[16 + nth] = q[3][nth]
      BY <1>4, <1>11
    <3> QED BY <2>1, <3>1, <3>2
  <2>5. CASE k = 3
    <3>1. 8*k + nth = 24 + nth /\ k + 1 = 4
      BY <2>5
    <3>2. z[24 + nth] = q[4][nth]
      BY <1>4, <1>11
    <3> QED BY <2>1, <3>1, <3>2
  <2> QED BY <2>2, <2>3, <2>4, <2>5
<1> QED BY <1>9, <1>10, <1>12 DEF Quartered

\* Two lanes shuffled, each by its own list of places.
Places(idx) == Len(idx) = 16 /\ \A j \in 1..16 : idx[j] \in Int /\ -1 <= idx[j] /\ idx[j] <= 15
Picked(T, v, idx, jdx, s) ==
    /\ Chain(T \cup {{}}, s, 32)
    /\ \A j \in 1..16 : /\ s[j] = IF idx[j] < 0 THEN {} ELSE v[idx[j] + 1]
                        /\ s[16 + j] = IF jdx[j] < 0 THEN {} ELSE v[16 + (jdx[j] + 1)]

LEMMA PickedIs ==
    ASSUME NEW T, NEW v, Chain(T, v, 32), NEW idx, NEW jdx, Places(idx), Places(jdx)
    PROVE  Picked(T, v, idx, jdx, Pick(Lane(v, 0), idx) \o Pick(Lane(v, 1), jdx))
<1>0. PICK s : s = Pick(Lane(v, 0), idx) \o Pick(Lane(v, 1), jdx)
  OBVIOUS
<1>1. PICK a, b, U : a = Lane(v, 0) /\ b = Lane(v, 1) /\ U = T \cup {{}}
  OBVIOUS
<1>2. /\ a \in Seq(T) /\ Len(a) = 16 /\ \A nth \in 1..16 : a[nth] = v[nth]
      /\ b \in Seq(T) /\ Len(b) = 16 /\ \A nth \in 1..16 : b[nth] = v[16 + nth]
  <2>1. Chain(T, v, 2*16)
    <3>1. 2*16 = 32
      OBVIOUS
    <3> QED BY <3>1
  <2>2. Lanes(T, v, 16, a, b)
    BY <1>1, <2>1, LaneIs
  <2> QED BY <2>2 DEF Lanes, Chain
<1>3. PICK x, y : x = Pick(a, idx) /\ y = Pick(b, jdx)
  OBVIOUS
<1>4. \A j \in 1..16 : ~(idx[j] < 0) => idx[j] + 1 \in 1..16
  <2> TAKE j \in 1..16
  <2>1. PICK n : n = idx[j]
    OBVIOUS
  <2>2. n \in Int /\ -1 <= n /\ n <= 15
    BY <2>1 DEF Places
  <2>3. ~(n < 0) => n + 1 \in 1..16
    BY <2>2
  <2> QED BY <2>1, <2>3
<1>5. \A j \in 1..16 : ~(jdx[j] < 0) => jdx[j] + 1 \in 1..16
  <2> TAKE j \in 1..16
  <2>1. PICK n : n = jdx[j]
    OBVIOUS
  <2>2. n \in Int /\ -1 <= n /\ n <= 15
    BY <2>1 DEF Places
  <2>3. ~(n < 0) => n + 1 \in 1..16
    BY <2>2
  <2> QED BY <2>1, <2>3
<1>6. \A nth \in 1..16 : a[nth] \in T /\ b[nth] \in T
  BY <1>2, ElementOfSeq
<1>7. x = [j \in 1..16 |-> IF idx[j] < 0 THEN {} ELSE a[idx[j] + 1]]
  BY <1>3 DEF Pick, Places
<1>8. y = [j \in 1..16 |-> IF jdx[j] < 0 THEN {} ELSE b[jdx[j] + 1]]
  BY <1>3 DEF Pick, Places
<1>9. Chain(U, x, 16)
  <2>1. \A j \in 1..16 : (IF idx[j] < 0 THEN {} ELSE a[idx[j] + 1]) \in U
    BY <1>1, <1>4, <1>6
  <2> QED BY <1>7, <2>1 DEF Chain
<1>10. Chain(U, y, 16)
  <2>1. \A j \in 1..16 : (IF jdx[j] < 0 THEN {} ELSE b[jdx[j] + 1]) \in U
    BY <1>1, <1>5, <1>6
  <2> QED BY <1>8, <2>1 DEF Chain
<1>11. Joins(U, s, x, 16, y, 16)
  <2>1. s = x \o y
    BY <1>0, <1>1, <1>3
  <2> QED BY <1>9, <1>10, <2>1, Joining
<1>12. Chain(U, s, 32)
  <2>1. 16 + 16 = 32
    OBVIOUS
  <2> QED BY <1>11, <2>1 DEF Joins
<1>13. ASSUME NEW j \in 1..16
       PROVE  /\ s[j] = IF idx[j] < 0 THEN {} ELSE v[idx[j] + 1]
              /\ s[16 + j] = IF jdx[j] < 0 THEN {} ELSE v[16 + (jdx[j] + 1)]
  <2>1. s[j] = x[j] /\ s[16 + j] = y[j]
    BY <1>11 DEF Joins
  <2>2. x[j] = IF idx[j] < 0 THEN {} ELSE v[idx[j] + 1]
    <3>1. CASE idx[j] < 0
      BY <1>7, <3>1
    <3>2. CASE ~(idx[j] < 0)
      <4>1. x[j] = a[idx[j] + 1]
        BY <1>7, <3>2
      <4>2. a[idx[j] + 1] = v[idx[j] + 1]
        BY <1>2, <1>4, <3>2
      <4> QED BY <3>2, <4>1, <4>2
    <3> QED BY <3>1, <3>2
  <2>3. y[j] = IF jdx[j] < 0 THEN {} ELSE v[16 + (jdx[j] + 1)]
    <3>1. CASE jdx[j] < 0
      BY <1>8, <3>1
    <3>2. CASE ~(jdx[j] < 0)
      <4>1. y[j] = b[jdx[j] + 1]
        BY <1>8, <3>2
      <4>2. b[jdx[j] + 1] = v[16 + (jdx[j] + 1)]
        BY <1>2, <1>5, <3>2
      <4> QED BY <3>2, <4>1, <4>2
    <3> QED BY <3>1, <3>2
  <2> QED BY <2>1, <2>2, <2>3
<1> QED BY <1>0, <1>1, <1>12, <1>13 DEF Picked

\* Words that lie side by side, added.
SideBySide(w, low, v, d, e, a, b, c) == low \cup Shl(v, a) = Span(w, d, 0, c)

LEMMA OnTop ==
    ASSUME NEW w, NEW d \in Int, NEW e \in Int, NEW a \in Nat, NEW b \in Nat, NEW c \in Nat,
           NEW low, NEW v, e = d + a, c = a + b, low = Span(w, d, 0, a), v = Span(w, e, 0, b)
    PROVE  SideBySide(w, low, v, d, e, a, b, c)
<1>1. e - a = d /\ 0 + a = a /\ b + a = c
  OBVIOUS
<1>2. Shl(Span(w, e, 0, b), a) = Span(w, e - a, 0 + a, b + a)
  BY ShiftedSpan
<1>3. Joined(w, d, 0, a, c)
  BY JoinedSpans
<1> QED BY <1>1, <1>2, <1>3 DEF Joined, SideBySide

\* A register of eight coefficients, from number x on.
Coefficient(w, c) == Span(w, w*c, 0, w)
Register(S, w, v, x) == Chain(S, v, 8) /\ \A e \in 1..8 : v[e] = Coefficient(w, x + e - 1)

\* Four of them packed: groups of four, in this order.
Of(z) == 8*(z % 4) + 4*(z \div 4)

Grouped(S, w, x, p) ==
    Chain(S, p, 32) /\ \A z \in 0..7, e \in 1..4 : p[4*z + e] = Coefficient(w, x + Of(z) + e - 1)

LEMMA FourPacked ==
    ASSUME NEW S, NEW w, NEW x \in Nat, NEW a, NEW b, NEW c, NEW d, NEW p,
           Register(S, w, a, x), Register(S, w, b, x + 8),
           Register(S, w, c, x + 16), Register(S, w, d, x + 24),
           p = PackUs(PackUs(a, b), PackUs(c, d))
    PROVE  Grouped(S, w, x, p)
<1>1. PICK low, v : low = PackUs(a, b) /\ v = PackUs(c, d)
  OBVIOUS
<1>2. Chain(S, a, 2*4) /\ Chain(S, b, 2*4) /\ Chain(S, c, 2*4) /\ Chain(S, d, 2*4)
  <2>1. 2*4 = 8
    OBVIOUS
  <2> QED BY <2>1 DEF Register
<1>3. Packed(S, low, a, b, 4) /\ Packed(S, v, c, d, 4)
  BY <1>1, <1>2, PackUsIs
<1>4. Chain(S, low, 2*8) /\ Chain(S, v, 2*8)
  <2>1. 4*4 = 2*8
    OBVIOUS
  <2> QED BY <1>3, <2>1 DEF Packed
<1>5. Packed(S, p, low, v, 8)
  BY <1>1, <1>4, PackUsIs
<1>6. ASSUME NEW z \in 0..7, NEW e \in 1..4
      PROVE  p[4*z + e] = Coefficient(w, x + Of(z) + e - 1)
  <2>0. e \in 1..8 /\ 4 + e \in 1..8
    OBVIOUS
  <2>1. CASE z = 0
    <3>1. 4*z + e = e /\ Of(z) = 0 /\ e = e /\ x + e - 1 = x + 0 + e - 1
      BY <2>1 DEF Of
    <3>2. p[e] = low[e]
      BY <2>0, <1>5 DEF Packed
    <3>3. low[e] = a[e]
      BY <1>3 DEF Packed
    <3>4. a[e] = Coefficient(w, x + e - 1)
      BY <2>0 DEF Register
    <3> QED BY <3>1, <3>2, <3>3, <3>4
  <2>2. CASE z = 1
    <3>1. 4*z + e = 4 + e /\ Of(z) = 8 /\ 4 + e = 4 + e /\ x + 8 + e - 1 = x + 8 + e - 1
      BY <2>2 DEF Of
    <3>2. p[4 + e] = low[4 + e]
      BY <2>0, <1>5 DEF Packed
    <3>3. low[4 + e] = b[e]
      BY <1>3 DEF Packed
    <3>4. b[e] = Coefficient(w, x + 8 + e - 1)
      BY <2>0 DEF Register
    <3> QED BY <3>1, <3>2, <3>3, <3>4
  <2>3. CASE z = 2
    <3>1. 4*z + e = 8 + e /\ Of(z) = 16 /\ e = e /\ x + 16 + e - 1 = x + 16 + e - 1
      BY <2>3 DEF Of
    <3>2. p[8 + e] = v[e]
      BY <2>0, <1>5 DEF Packed
    <3>3. v[e] = c[e]
      BY <1>3 DEF Packed
    <3>4. c[e] = Coefficient(w, x + 16 + e - 1)
      BY <2>0 DEF Register
    <3> QED BY <3>1, <3>2, <3>3, <3>4
  <2>4. CASE z = 3
    <3>1. 4*z + e = 8 + (4 + e) /\ Of(z) = 24 /\ 4 + e = 4 + e /\ x + 24 + e - 1 = x + 24 + e - 1
      BY <2>4 DEF Of
    <3>2. p[8 + (4 + e)] = v[4 + e]
      BY <2>0, <1>5 DEF Packed
    <3>3. v[4 + e] = d[e]
      BY <1>3 DEF Packed
    <3>4. d[e] = Coefficient(w, x + 24 + e - 1)
      BY <2>0 DEF Register
    <3> QED BY <3>1, <3>2, <3>3, <3>4
  <2>5. CASE z = 4
    <3>1. 4*z + e = 2*8 + e /\ Of(z) = 4 /\ 8 + e = 2*4 + e /\ x + (4 + e) - 1 = x + 4 + e - 1
      BY <2>5 DEF Of
    <3>2. p[2*8 + e] = low[8 + e]
      BY <2>0, <1>5 DEF Packed
    <3>3. low[2*4 + e] = a[4 + e]
      BY <1>3 DEF Packed
    <3>4. a[4 + e] = Coefficient(w, x + (4 + e) - 1)
      BY <2>0 DEF Register
    <3> QED BY <3>1, <3>2, <3>3, <3>4
  <2>6. CASE z = 5
    <3>1. 4*z + e = 2*8 + (4 + e) /\ Of(z) = 12 /\ 8 + (4 + e) = 3*4 + e /\ x + 8 + (4 + e) - 1 = x + 12 + e - 1
      BY <2>6 DEF Of
    <3>2. p[2*8 + (4 + e)] = low[8 + (4 + e)]
      BY <2>0, <1>5 DEF Packed
    <3>3. low[3*4 + e] = b[4 + e]
      BY <1>3 DEF Packed
    <3>4. b[4 + e] = Coefficient(w, x + 8 + (4 + e) - 1)
      BY <2>0 DEF Register
    <3> QED BY <3>1, <3>2, <3>3, <3>4
  <2>7. CASE z = 6
    <3>1. 4*z + e = 3*8 + e /\ Of(z) = 20 /\ 8 + e = 2*4 + e /\ x + 16 + (4 + e) - 1 = x + 20 + e - 1
      BY <2>7 DEF Of
    <3>2. p[3*8 + e] = v[8 + e]
      BY <2>0, <1>5 DEF Packed
    <3>3. v[2*4 + e] = c[4 + e]
      BY <1>3 DEF Packed
    <3>4. c[4 + e] = Coefficient(w, x + 16 + (4 + e) - 1)
      BY <2>0 DEF Register
    <3> QED BY <3>1, <3>2, <3>3, <3>4
  <2>8. CASE z = 7
    <3>1. 4*z + e = 3*8 + (4 + e) /\ Of(z) = 28 /\ 8 + (4 + e) = 3*4 + e /\ x + 24 + (4 + e) - 1 = x + 28 + e - 1
      BY <2>8 DEF Of
    <3>2. p[3*8 + (4 + e)] = v[8 + (4 + e)]
      BY <2>0, <1>5 DEF Packed
    <3>3. v[3*4 + e] = d[4 + e]
      BY <1>3 DEF Packed
    <3>4. d[4 + e] = Coefficient(w, x + 24 + (4 + e) - 1)
      BY <2>0 DEF Register
    <3> QED BY <3>1, <3>2, <3>3, <3>4
  <2> QED BY <2>1, <2>2, <2>3, <2>4, <2>5, <2>6, <2>7, <2>8
<1>7. 4*8 = 32
  OBVIOUS
<1> QED BY <1>5, <1>6, <1>7 DEF Packed, Grouped

\* The sum of a group of four coefficients of 6 bits, and of two of 4 bits.
Summed(w, v, o, d, n) == v[o] = Span(w, d, 0, n)

LEMMA Sums88 ==
    ASSUME NEW S, NEW x \in Nat, NEW p, Chain(S, p, 32),
           \A z \in 0..7, e \in 1..4 : p[4*z + e] = Coefficient(6, x + Of(z) + e - 1)
    PROVE  /\ Len(MAdd(MAdd(p, 6), 12)) = 8
           /\ \A z \in 0..7 : Summed(6, MAdd(MAdd(p, 6), 12), z + 1, 6*(x + Of(z)), 24)
<1>1. PICK y, d : y = MAdd(p, 6) /\ d = MAdd(y, 12)
  OBVIOUS
<1>2. Len(y) = 16 /\ \A k \in 1..16 : y[k] = p[2*k - 1] \cup Shl(p[2*k], 6)
  <2>1. Len(p) = 2*16
    BY DEF Chain
  <2>2. Added(y, p, 6, 16)
    BY <1>1, <2>1, MAddIs
  <2> QED BY <2>2 DEF Added
<1>3. Len(d) = 8 /\ \A k \in 1..8 : d[k] = y[2*k - 1] \cup Shl(y[2*k], 12)
  <2>1. Len(y) = 2*8
    BY <1>2
  <2>2. Added(d, y, 12, 8)
    BY <1>1, <2>1, MAddIs
  <2> QED BY <2>2 DEF Added
<1>4. ASSUME NEW z \in 0..7 PROVE d[z + 1] = Span(6, 6*(x + Of(z)), 0, 24)
  <2>1. PICK c, k, b : c = x + Of(z) /\ k = 2*z /\ b = 6*c
    OBVIOUS
  <2>2. Of(z) \in Nat
    BY DEF Of
  <2>3. c \in Nat /\ k \in 0..14 /\ b \in Int
    BY <2>1, <2>2
  <2>4. /\ p[4*z + 1] = Coefficient(6, x + Of(z) + 1 - 1)
        /\ p[4*z + 2] = Coefficient(6, x + Of(z) + 2 - 1)
        /\ p[4*z + 3] = Coefficient(6, x + Of(z) + 3 - 1)
        /\ p[4*z + 4] = Coefficient(6, x + Of(z) + 4 - 1)
    OBVIOUS
  <2>5. /\ x + Of(z) + 1 - 1 = c /\ x + Of(z) + 2 - 1 = c + 1
        /\ x + Of(z) + 3 - 1 = c + 2 /\ x + Of(z) + 4 - 1 = c + 3
    BY <2>1, <2>2
  <2>6. 6*c = b /\ 6*(c + 1) = b + 6 /\ 6*(c + 2) = b + 12 /\ 6*(c + 3) = b + 18
    BY <2>1, <2>3
  <2>7. /\ p[4*z + 1] = Span(6, b, 0, 6) /\ p[4*z + 2] = Span(6, b + 6, 0, 6)
        /\ p[4*z + 3] = Span(6, b + 12, 0, 6) /\ p[4*z + 4] = Span(6, b + 18, 0, 6)
    BY <2>4, <2>5, <2>6 DEF Coefficient
  <2>8. /\ b + 6 \in Int /\ b + 12 \in Int /\ b + 18 \in Int /\ b + 18 = (b + 12) + 6
        /\ 12 = 6 + 6 /\ 24 = 12 + 12
    BY <2>3
  <2>9. p[4*z + 1] \cup Shl(p[4*z + 2], 6) = Span(6, b, 0, 12)
    <3>1. SideBySide(6, p[4*z + 1], p[4*z + 2], b, b + 6, 6, 6, 12)
      BY <2>3, <2>7, <2>8, OnTop
    <3> QED BY <3>1 DEF SideBySide
  <2>10. p[4*z + 3] \cup Shl(p[4*z + 4], 6) = Span(6, b + 12, 0, 12)
    <3>1. PICK f : f = b + 12
      OBVIOUS
    <3>2. f \in Int /\ f + 6 \in Int /\ b + 18 = f + 6 /\ 12 = 6 + 6
      BY <2>3, <3>1
    <3>3. p[4*z + 3] = Span(6, f, 0, 6) /\ p[4*z + 4] = Span(6, f + 6, 0, 6)
      BY <2>7, <3>1, <3>2
    <3>4. SideBySide(6, p[4*z + 3], p[4*z + 4], f, f + 6, 6, 6, 12)
      BY <3>2, <3>3, OnTop
    <3> QED BY <3>1, <3>4 DEF SideBySide
  <2>11. y[2*z + 1] = Span(6, b, 0, 12)
    <3>1. 2*z + 1 \in 1..16 /\ 2*(2*z + 1) - 1 = 4*z + 1 /\ 2*(2*z + 1) = 4*z + 2
      OBVIOUS
    <3>2. y[2*z + 1] = p[2*(2*z + 1) - 1] \cup Shl(p[2*(2*z + 1)], 6)
      BY <1>2, <3>1
    <3> QED BY <2>9, <3>1, <3>2
  <2>12. y[2*z + 2] = Span(6, b + 12, 0, 12)
    <3>1. 2*z + 2 \in 1..16 /\ 2*(2*z + 2) - 1 = 4*z + 3 /\ 2*(2*z + 2) = 4*z + 4
      OBVIOUS
    <3>2. y[2*z + 2] = p[2*(2*z + 2) - 1] \cup Shl(p[2*(2*z + 2)], 6)
      BY <1>2, <3>1
    <3> QED BY <2>10, <3>1, <3>2
  <2>13. y[2*z + 1] \cup Shl(y[2*z + 2], 12) = Span(6, b, 0, 24)
    <3>1. SideBySide(6, y[2*z + 1], y[2*z + 2], b, b + 12, 12, 12, 24)
      BY <2>3, <2>8, <2>11, <2>12, OnTop
    <3> QED BY <3>1 DEF SideBySide
  <2>14. d[z + 1] = y[2*z + 1] \cup Shl(y[2*z + 2], 12)
    <3>1. z + 1 \in 1..8 /\ 2*(z + 1) - 1 = 2*z + 1 /\ 2*(z + 1) = 2*z + 2
      OBVIOUS
    <3>2. d[z + 1] = y[2*(z + 1) - 1] \cup Shl(y[2*(z + 1)], 12)
      BY <1>3, <3>1
    <3> QED BY <3>1, <3>2
  <2> QED BY <2>1, <2>13, <2>14
<1> QED BY <1>1, <1>3, <1>4 DEF Summed

LEMMA Sums32 ==
    ASSUME NEW S, NEW x \in Nat, NEW p, Chain(S, p, 32),
           \A z \in 0..7, e \in 1..4 : p[4*z + e] = Coefficient(4, x + Of(z) + e - 1)
    PROVE  /\ Len(MAdd(p, 4)) = 16
           /\ \A z \in 0..7, h \in 0..1 : Summed(4, MAdd(p, 4), 2*z + h + 1, 4*(x + Of(z)) + 8*h, 8)
<1>1. PICK y : y = MAdd(p, 4)
  OBVIOUS
<1>2. Len(y) = 16 /\ \A k \in 1..16 : y[k] = p[2*k - 1] \cup Shl(p[2*k], 4)
  <2>1. Len(p) = 2*16
    BY DEF Chain
  <2>2. Added(y, p, 4, 16)
    BY <1>1, <2>1, MAddIs
  <2> QED BY <2>2 DEF Added
<1>3. ASSUME NEW z \in 0..7, NEW h \in 0..1
      PROVE  y[2*z + h + 1] = Span(4, 4*(x + Of(z)) + 8*h, 0, 8)
  <2>1. PICK b : b = 4*(x + Of(z)) + 8*h
    OBVIOUS
  <2>2. Of(z) \in Nat
    BY DEF Of
  <2>3. b \in Int /\ b + 4 \in Int /\ 8 = 4 + 4
    BY <2>1, <2>2
  <2>4. PICK e : e = 2*h + 1
    OBVIOUS
  <2>5. e \in 1..4 /\ e + 1 \in 1..4
    BY <2>4
  <2>6. /\ p[4*z + e] = Coefficient(4, x + Of(z) + e - 1)
        /\ p[4*z + (e + 1)] = Coefficient(4, x + Of(z) + (e + 1) - 1)
    BY <2>5
  <2>7. 4*(x + Of(z) + e - 1) = b /\ 4*(x + Of(z) + (e + 1) - 1) = b + 4
    BY <2>1, <2>2, <2>4
  <2>8. p[4*z + e] = Span(4, b, 0, 4) /\ p[4*z + (e + 1)] = Span(4, b + 4, 0, 4)
    BY <2>6, <2>7 DEF Coefficient
  <2>9. p[4*z + e] \cup Shl(p[4*z + (e + 1)], 4) = Span(4, b, 0, 8)
    <3>1. SideBySide(4, p[4*z + e], p[4*z + (e + 1)], b, b + 4, 4, 4, 8)
      BY <2>3, <2>8, OnTop
    <3> QED BY <3>1 DEF SideBySide
  <2>10. PICK k : k = 2*z + h + 1
    OBVIOUS
  <2>11. k \in 1..16 /\ 2*k - 1 = 4*z + e /\ 2*k = 4*z + (e + 1)
    BY <2>4, <2>10
  <2>12. y[k] = p[2*k - 1] \cup Shl(p[2*k], 4)
    BY <1>2, <2>11
  <2> QED BY <2>1, <2>9, <2>10, <2>11, <2>12
<1> QED BY <1>1, <1>2, <1>3 DEF Summed

\* The bytes of each sum, in four lists of places.
LEMMA Regrouped ==
    /\ Len(Regroup88) = 8
    /\ \A z \in 0..7 : Regroup88[z + 1] \in 0..7 /\ Of(Regroup88[z + 1]) = 4*z
<1>1. /\ Len(Regroup88) = 8
      /\ Regroup88[1] = 0 /\ Regroup88[2] = 4 /\ Regroup88[3] = 1 /\ Regroup88[4] = 5
      /\ Regroup88[5] = 2 /\ Regroup88[6] = 6 /\ Regroup88[7] = 3 /\ Regroup88[8] = 7
  BY DEF Regroup88
<1>2. /\ Of(0) = 0 /\ Of(4) = 4 /\ Of(1) = 8 /\ Of(5) = 12
      /\ Of(2) = 16 /\ Of(6) = 20 /\ Of(3) = 24 /\ Of(7) = 28
  BY DEF Of
<1>3. \A z \in 0..7 : z = 0 \/ z = 1 \/ z = 2 \/ z = 3 \/ z = 4 \/ z = 5 \/ z = 6 \/ z = 7
  OBVIOUS
<1> QED BY <1>1, <1>2, <1>3

LEMMA Gathered88 ==
    /\ Places(Gather88)
    /\ \A j \in 1..12 : \E z \in 0..3, b \in 0..2 : Gather88[j] = 4*z + b /\ j = 3*z + b + 1
<1>1. /\ Len(Gather88) = 16
      /\ Gather88[1] = 0 /\ Gather88[2] = 1 /\ Gather88[3] = 2 /\ Gather88[4] = 4
      /\ Gather88[5] = 5 /\ Gather88[6] = 6 /\ Gather88[7] = 8 /\ Gather88[8] = 9
      /\ Gather88[9] = 10 /\ Gather88[10] = 12 /\ Gather88[11] = 13 /\ Gather88[12] = 14
      /\ Gather88[13] = -1 /\ Gather88[14] = -1 /\ Gather88[15] = -1 /\ Gather88[16] = -1
  BY DEF Gather88
<1>2. Places(Gather88)
  <2>1. \A j \in 1..16 : \/ j = 1 \/ j = 2 \/ j = 3 \/ j = 4 \/ j = 5 \/ j = 6 \/ j = 7 \/ j = 8
                         \/ j = 9 \/ j = 10 \/ j = 11 \/ j = 12 \/ j = 13 \/ j = 14 \/ j = 15 \/ j = 16
    OBVIOUS
  <2> QED BY <1>1, <2>1 DEF Places
<1>3. ASSUME NEW j \in 1..12
      PROVE  \E z \in 0..3, b \in 0..2 : Gather88[j] = 4*z + b /\ j = 3*z + b + 1
  <2>1. CASE j \in 1..6
    <3>1. j = 1 \/ j = 2 \/ j = 3 \/ j = 4 \/ j = 5 \/ j = 6
      BY <2>1
    <3>2. /\ Gather88[1] = 4*0 + 0 /\ 1 = 3*0 + 0 + 1 /\ Gather88[2] = 4*0 + 1 /\ 2 = 3*0 + 1 + 1
          /\ Gather88[3] = 4*0 + 2 /\ 3 = 3*0 + 2 + 1 /\ Gather88[4] = 4*1 + 0 /\ 4 = 3*1 + 0 + 1
          /\ Gather88[5] = 4*1 + 1 /\ 5 = 3*1 + 1 + 1 /\ Gather88[6] = 4*1 + 2 /\ 6 = 3*1 + 2 + 1
      BY <1>1
    <3> QED BY <3>1, <3>2
  <2>2. CASE j \in 7..12
    <3>1. j = 7 \/ j = 8 \/ j = 9 \/ j = 10 \/ j = 11 \/ j = 12
      BY <2>2
    <3>2. /\ Gather88[7] = 4*2 + 0 /\ 7 = 3*2 + 0 + 1 /\ Gather88[8] = 4*2 + 1 /\ 8 = 3*2 + 1 + 1
          /\ Gather88[9] = 4*2 + 2 /\ 9 = 3*2 + 2 + 1 /\ Gather88[10] = 4*3 + 0 /\ 10 = 3*3 + 0 + 1
          /\ Gather88[11] = 4*3 + 1 /\ 11 = 3*3 + 1 + 1 /\ Gather88[12] = 4*3 + 2 /\ 12 = 3*3 + 2 + 1
      BY <1>1
    <3> QED BY <3>1, <3>2
  <2> QED BY <2>1, <2>2
<1> QED BY <1>2, <1>3

LEMMA Gathered32 ==
    /\ Places(Gather32)
    /\ \A j \in 1..16 : \E z \in 0..7, h \in 0..1 :
          Gather32[j] = 2*z + h /\ Of(z) + 2*h = 2*(j - 1)
<1>1. /\ Len(Gather32) = 16
      /\ Gather32[1] = 0 /\ Gather32[2] = 1 /\ Gather32[3] = 8 /\ Gather32[4] = 9
      /\ Gather32[5] = 2 /\ Gather32[6] = 3 /\ Gather32[7] = 10 /\ Gather32[8] = 11
      /\ Gather32[9] = 4 /\ Gather32[10] = 5 /\ Gather32[11] = 12 /\ Gather32[12] = 13
      /\ Gather32[13] = 6 /\ Gather32[14] = 7 /\ Gather32[15] = 14 /\ Gather32[16] = 15
  BY DEF Gather32
<1>2. \A j \in 1..16 : \/ j = 1 \/ j = 2 \/ j = 3 \/ j = 4 \/ j = 5 \/ j = 6 \/ j = 7 \/ j = 8
                       \/ j = 9 \/ j = 10 \/ j = 11 \/ j = 12 \/ j = 13 \/ j = 14 \/ j = 15 \/ j = 16
  OBVIOUS
<1>3. Places(Gather32)
  BY <1>1, <1>2 DEF Places
<1>4. /\ Of(0) = 0 /\ Of(4) = 4 /\ Of(1) = 8 /\ Of(5) = 12
      /\ Of(2) = 16 /\ Of(6) = 20 /\ Of(3) = 24 /\ Of(7) = 28
  BY DEF Of
<1>5. ASSUME NEW j \in 1..16
      PROVE  \E z \in 0..7, h \in 0..1 : Gather32[j] = 2*z + h /\ Of(z) + 2*h = 2*(j - 1)
  <2>1. CASE j \in 1..8
    <3>1. \/ j = 1 \/ j = 2 \/ j = 3 \/ j = 4 \/ j = 5 \/ j = 6 \/ j = 7 \/ j = 8
      BY <2>1
    <3>2. /\ Gather32[1] = 2*0 + 0 /\ Of(0) + 2*0 = 2*(1 - 1)
          /\ Gather32[2] = 2*0 + 1 /\ Of(0) + 2*1 = 2*(2 - 1)
          /\ Gather32[3] = 2*4 + 0 /\ Of(4) + 2*0 = 2*(3 - 1)
          /\ Gather32[4] = 2*4 + 1 /\ Of(4) + 2*1 = 2*(4 - 1)
          /\ Gather32[5] = 2*1 + 0 /\ Of(1) + 2*0 = 2*(5 - 1)
          /\ Gather32[6] = 2*1 + 1 /\ Of(1) + 2*1 = 2*(6 - 1)
          /\ Gather32[7] = 2*5 + 0 /\ Of(5) + 2*0 = 2*(7 - 1)
          /\ Gather32[8] = 2*5 + 1 /\ Of(5) + 2*1 = 2*(8 - 1)
      BY <1>1, <1>4
    <3> QED BY <3>1, <3>2
  <2>2. CASE j \in 9..16
    <3>1. \/ j = 9 \/ j = 10 \/ j = 11 \/ j = 12 \/ j = 13 \/ j = 14 \/ j = 15 \/ j = 16
      BY <2>2
    <3>2. /\ Gather32[9] = 2*2 + 0 /\ Of(2) + 2*0 = 2*(9 - 1)
          /\ Gather32[10] = 2*2 + 1 /\ Of(2) + 2*1 = 2*(10 - 1)
          /\ Gather32[11] = 2*6 + 0 /\ Of(6) + 2*0 = 2*(11 - 1)
          /\ Gather32[12] = 2*6 + 1 /\ Of(6) + 2*1 = 2*(12 - 1)
          /\ Gather32[13] = 2*3 + 0 /\ Of(3) + 2*0 = 2*(13 - 1)
          /\ Gather32[14] = 2*3 + 1 /\ Of(3) + 2*1 = 2*(14 - 1)
          /\ Gather32[15] = 2*7 + 0 /\ Of(7) + 2*0 = 2*(15 - 1)
          /\ Gather32[16] = 2*7 + 1 /\ Of(7) + 2*1 = 2*(16 - 1)
      BY <1>1, <1>4
    <3> QED BY <3>1, <3>2
  <2> QED BY <2>1, <2>2
<1> QED BY <1>3, <1>5

\* 32 coefficients of 6 bits make the next 24 bytes.
LEMMA VectorBytes88 ==
    ASSUME NEW S, NEW x \in Nat, NEW k \in Nat, NEW f, 6*x = 8*k,
           Register(S, 6, f[1], x), Register(S, 6, f[2], x + 8),
           Register(S, 6, f[3], x + 16), Register(S, 6, f[4], x + 24)
    PROVE  W1Bytes88(f) = Piece(StreamOf(6), k, 24)
<1>1. PICK p, a, d, tb, s : /\ p = PackUs(PackUs(f[1], f[2]), PackUs(f[3], f[4]))
                            /\ a = MAdd(MAdd(p, 6), 12)
                            /\ d = Pick(a, Regroup88) /\ tb = ToBytes(d)
                            /\ s = ShuffleLanes(tb, Gather88)
  OBVIOUS
<1>2. Chain(S, p, 32) /\ \A z \in 0..7, e \in 1..4 : p[4*z + e] = Coefficient(6, x + Of(z) + e - 1)
  <2>1. Grouped(S, 6, x, p)
    BY <1>1, FourPacked
  <2> QED BY <2>1 DEF Grouped
<1>3. \A z \in 0..7 : a[z + 1] = Span(6, 6*(x + Of(z)), 0, 24)
  BY <1>1, <1>2, Sums88 DEF Summed
<1>4. Len(d) = 8 /\ \A z \in 0..7 : d[z + 1] = Span(6, 6*x + 24*z, 0, 24)
  <2>1. d = [z \in 1..8 |-> IF Regroup88[z] < 0 THEN {} ELSE a[Regroup88[z] + 1]]
    BY <1>1, Regrouped DEF Pick
  <2>2. ASSUME NEW z \in 0..7 PROVE d[z + 1] = Span(6, 6*x + 24*z, 0, 24)
    <3>1. PICK y : y = Regroup88[z + 1]
      OBVIOUS
    <3>2. y \in 0..7 /\ Of(y) = 4*z
      BY <3>1, Regrouped
    <3>3. d[z + 1] = a[y + 1]
      <4>1. z + 1 \in 1..8 /\ ~(y < 0)
        BY <3>2
      <4> QED BY <2>1, <3>1, <4>1
    <3>4. 6*(x + Of(y)) = 6*x + 24*z
      BY <3>2
    <3> QED BY <1>3, <3>2, <3>3, <3>4
  <2> QED BY <2>1, <2>2
<1>5. PICK T : T = {tb[c] : c \in 1..32}
  OBVIOUS
<1>6. tb = [q \in 1..32 |-> Byte(Shl(d[(q-1) \div 4 + 1], -8*((q-1) % 4)))]
  <2>1. 4*Len(d) = 32
    BY <1>4
  <2>2. tb = ToBytes(d)
    BY <1>1
  <2> QED BY <2>1, <2>2 DEF ToBytes
<1>7. Chain(T, tb, 32)
  BY <1>5, <1>6 DEF Chain
<1>8. ASSUME NEW z \in 0..7, NEW b \in 0..2 PROVE tb[4*z + b + 1] = Span(6, 6*x + 24*z + 8*b, 0, 8)
  <2>1. PICK c : c = 4*z + b + 1
    OBVIOUS
  <2>2. c \in 1..32 /\ (c-1) \div 4 = z /\ (c-1) % 4 = b
    BY <2>1
  <2>3. tb[c] = Byte(Shl(d[z + 1], -8*b))
    <3>1. tb[c] = Byte(Shl(d[(c-1) \div 4 + 1], -8*((c-1) % 4)))
      BY <2>2, <1>6
    <3> QED BY <2>2, <3>1
  <2>4. PICK e, t : e = 6*x + 24*z /\ t = 8*b
    OBVIOUS
  <2>5. e \in Int /\ t \in Nat /\ -8*b = -t /\ 8 <= 24 - t
    BY <2>4
  <2>6. Cut(Shl(Span(6, e, 0, 24), -t), 8) = Span(6, e + t, 0, 8)
    BY <2>5, BitsBelow
  <2>7. d[z + 1] = Span(6, e, 0, 24)
    BY <1>4, <2>4
  <2> QED BY <2>1, <2>3, <2>4, <2>5, <2>6, <2>7 DEF Byte
<1>9. Picked(T, tb, Gather88, Gather88, s)
  <2>1. Places(Gather88)
    BY Gathered88
  <2>2. ShuffleLanes(tb, Gather88) = Pick(Lane(tb, 0), Gather88) \o Pick(Lane(tb, 1), Gather88)
    BY DEF ShuffleLanes
  <2>3. Picked(T, tb, Gather88, Gather88, Pick(Lane(tb, 0), Gather88) \o Pick(Lane(tb, 1), Gather88))
    BY <1>7, <2>1, PickedIs
  <2> QED BY <1>1, <2>2, <2>3
<1>10. ASSUME NEW j \in 1..12, NEW l \in 0..1
      PROVE  s[16*l + j] = StreamOf(6)[k + (12*l + j)]
  <2>1. PICK y : y = Gather88[j]
    OBVIOUS
  <2>2. PICK z \in 0..3, b \in 0..2 : Gather88[j] = 4*z + b /\ j = 3*z + b + 1
    BY Gathered88
  <2>3. y = 4*z + b
    BY <2>1, <2>2
  <2>4. j \in 1..16 /\ ~(y < 0) /\ 16 + (y + 1) = 4*(z + 4) + b + 1
    BY <2>2, <2>3
  <2>5. s[j] = tb[4*z + b + 1] /\ s[16 + j] = tb[4*(z + 4) + b + 1]
    BY <1>9, <2>1, <2>3, <2>4 DEF Picked
  <2>6. s[16*l + j] = tb[4*(z + 4*l) + b + 1] /\ z + 4*l \in 0..7
    <3>1. CASE l = 0
      <4>1. 16*l + j = j /\ z + 4*l = z
        BY <3>1, <2>2
      <4> QED BY <2>2, <2>5, <4>1
    <3>2. CASE l = 1
      <4>1. 16*l + j = 16 + j /\ z + 4*l = z + 4
        BY <3>2
      <4> QED BY <2>2, <2>5, <4>1
    <3> QED BY <3>1, <3>2
  <2>7. tb[4*(z + 4*l) + b + 1] = Span(6, 6*x + 24*(z + 4*l) + 8*b, 0, 8)
    BY <1>8, <2>2, <2>6
  <2>8. PICK n : n = k + (12*l + j)
    OBVIOUS
  <2>9. 6*x + 24*(z + 4*l) + 8*b = 8*(n - 1) /\ n \in Nat \ {0}
    BY <2>2, <2>8
  <2>10. StreamOf(6)[n] = Span(6, 8*(n - 1), 0, 8)
    BY <2>9 DEF StreamOf
  <2> QED BY <2>6, <2>7, <2>8, <2>9, <2>10
<1>11. W1Bytes88(f) = SubSeq(s, 1, 12) \o SubSeq(s, 17, 28)
  BY <1>1 DEF W1Bytes88
<1>12. PICK U, v, w : U = T \cup {{}} /\ v = SubSeq(s, 1, 12) /\ w = SubSeq(s, 17, 28)
  OBVIOUS
<1>13. s \in Seq(U) /\ Len(s) = 32 /\ \A nth \in 1..32 : s[nth] \in U
  BY <1>9, <1>12, ElementOfSeq DEF Picked, Chain
<1>14. Chain(U, v, 12) /\ \A j \in 1..12 : v[j] = s[j]
  <2>1. \A nth \in 1..12 : s[nth] \in U
    <3>1. \A nth \in 1..12 : nth \in 1..32
      OBVIOUS
    <3> QED BY <1>13, <3>1
  <2> QED BY <1>12, <2>1, SubSeqProperties DEF Chain
<1>15. Chain(U, w, 12) /\ \A j \in 1..12 : w[j] = s[16 + j]
  <2>1. \A nth \in 17..28 : s[nth] \in U
    <3>1. \A nth \in 17..28 : nth \in 1..32
      OBVIOUS
    <3> QED BY <1>13, <3>1
  <2>2. \A j \in 1..12 : 17 + j - 1 = 16 + j
    OBVIOUS
  <2>3. w \in Seq(U) /\ Len(w) = 12 /\ \A j \in 1..12 : w[j] = s[17 + j - 1]
    BY <1>12, <2>1, SubSeqProperties
  <2> QED BY <2>2, <2>3 DEF Chain
<1>16. PICK o : o = v \o w
  OBVIOUS
<1>17. Joins(U, o, v, 12, w, 12) /\ Chain(U, o, 24)
  <2>1. Joins(U, o, v, 12, w, 12)
    <3>1. Chain(U, v, 12) /\ Chain(U, w, 12)
      BY <1>14, <1>15
    <3> QED BY <1>16, <3>1, Joining
  <2>2. 12 + 12 = 24
    OBVIOUS
  <2> QED BY <2>1, <2>2 DEF Joins
<1>18. \A j \in 1..24 : o[j] = StreamOf(6)[k + j]
  <2> TAKE j \in 1..24
  <2>1. CASE j \in 1..12
    <3>1. o[j] = s[16*0 + j] /\ 12*0 + j = j
      <4>1. o[j] = v[j] /\ v[j] = s[j]
        BY <1>14, <1>17, <2>1 DEF Joins
      <4>2. 16*0 + j = j /\ 12*0 + j = j
        OBVIOUS
      <4> QED BY <4>1, <4>2
    <3>2. s[16*0 + j] = StreamOf(6)[k + (12*0 + j)]
      BY <1>10, <2>1
    <3> QED BY <3>1, <3>2
  <2>2. CASE ~(j \in 1..12)
    <3>1. PICK h : h = j - 12
      OBVIOUS
    <3>2. h \in 1..12 /\ 12 + h = j /\ 16*1 + h = 16 + h /\ 12*1 + h = j
      BY <2>2, <3>1
    <3>3. o[12 + h] = w[h] /\ w[h] = s[16 + h]
      BY <1>15, <1>17, <3>2 DEF Joins
    <3>4. s[16*1 + h] = StreamOf(6)[k + (12*1 + h)]
      BY <1>10, <3>2
    <3> QED BY <3>2, <3>3, <3>4
  <2> QED BY <2>1, <2>2
<1>19. o = [j \in 1..24 |-> o[j]]
  BY <1>17 DEF Chain
<1>20. o = Piece(StreamOf(6), k, 24)
  BY <1>18, <1>19 DEF Piece
<1> QED BY <1>11, <1>12, <1>16, <1>20

\* 64 coefficients of 4 bits make the next 32 bytes.
Registers8(S, f, x) ==
    /\ Register(S, 4, f[1], x) /\ Register(S, 4, f[2], x + 8)
    /\ Register(S, 4, f[3], x + 16) /\ Register(S, 4, f[4], x + 24)
    /\ Register(S, 4, f[5], x + 32) /\ Register(S, 4, f[6], x + 32 + 8)
    /\ Register(S, 4, f[7], x + 32 + 16) /\ Register(S, 4, f[8], x + 32 + 24)

LEMMA VectorBytes32 ==
    ASSUME NEW S, NEW x \in Nat, NEW k \in Nat, NEW f, 4*x = 8*k, Registers8(S, f, x)
    PROVE  W1Bytes32(f) = Piece(StreamOf(4), k, 32)
<1>1. PICK p, low, a, b : /\ p = PackUs(PackUs(f[1], f[2]), PackUs(f[3], f[4]))
                        /\ low = PackUs(PackUs(f[5], f[6]), PackUs(f[7], f[8]))
                        /\ a = MAdd(p, 4) /\ b = MAdd(low, 4)
  OBVIOUS
<1>2. /\ Len(p) = 32 /\ Len(a) = 16
      /\ \A z \in 0..7, h \in 0..1 : a[2*z + h + 1] = Span(4, 4*(x + Of(z)) + 8*h, 0, 8)
  <2>1. Chain(S, p, 32) /\ \A z \in 0..7, e \in 1..4 : p[4*z + e] = Coefficient(4, x + Of(z) + e - 1)
    <3>1. Grouped(S, 4, x, p)
      BY <1>1, FourPacked DEF Registers8
    <3> QED BY <3>1 DEF Grouped
  <2>2. Len(p) = 32
    BY <2>1 DEF Chain
  <2> QED BY <1>1, <2>1, <2>2, Sums32 DEF Summed
<1>3. /\ Len(low) = 32 /\ Len(b) = 16
      /\ \A z \in 0..7, h \in 0..1 : b[2*z + h + 1] = Span(4, 4*((x + 32) + Of(z)) + 8*h, 0, 8)
  <2>1. PICK y : y = x + 32
    OBVIOUS
  <2>2. /\ y \in Nat /\ Register(S, 4, f[5], y) /\ Register(S, 4, f[6], y + 8)
        /\ Register(S, 4, f[7], y + 16) /\ Register(S, 4, f[8], y + 24)
    BY <2>1 DEF Registers8
  <2>3. Chain(S, low, 32) /\ \A z \in 0..7, e \in 1..4 : low[4*z + e] = Coefficient(4, y + Of(z) + e - 1)
    <3>1. Grouped(S, 4, y, low)
      BY <1>1, <2>2, FourPacked
    <3> QED BY <3>1 DEF Grouped
  <2>4. /\ Len(b) = 16
        /\ \A z \in 0..7, h \in 0..1 : b[2*z + h + 1] = Span(4, 4*(y + Of(z)) + 8*h, 0, 8)
    BY <1>1, <2>2, <2>3, Sums32 DEF Summed
  <2>5. Len(low) = 32
    BY <2>3 DEF Chain
  <2> QED BY <2>1, <2>4, <2>5
<1>4. PICK U, v, q, idx : /\ U = {a[nth] : nth \in 1..16} \cup {b[nth] : nth \in 1..16}
                          /\ v = PackUs(a, b) /\ idx = <<0, 2, 1, 3>> /\ q = Quads(v, idx)
  OBVIOUS
<1>5. Chain(U, a, 2*8) /\ Chain(U, b, 2*8)
  <2>1. /\ a = [c \in 1..16 |-> p[2*c-1] \cup Shl(p[2*c], 4)]
        /\ b = [c \in 1..16 |-> low[2*c-1] \cup Shl(low[2*c], 4)]
    <3>1. Len(p) \div 2 = 16 /\ Len(low) \div 2 = 16
      BY <1>2, <1>3
    <3> QED BY <1>1, <3>1 DEF MAdd
  <2>2. 2*8 = 16
    OBVIOUS
  <2> QED BY <1>4, <2>1, <2>2 DEF Chain
<1>6. Packed(U, v, a, b, 8) /\ Chain(U, v, 32)
  <2>1. Packed(U, v, a, b, 8)
    BY <1>4, <1>5, PackUsIs
  <2>2. 4*8 = 32
    OBVIOUS
  <2> QED BY <2>1, <2>2 DEF Packed
<1>7. Len(idx) = 4 /\ idx[1] = 0 /\ idx[2] = 2 /\ idx[3] = 1 /\ idx[4] = 3
  BY <1>4
<1>8. Quartered(U, v, idx, q)
  <2>1. \A h \in 1..4 : idx[h] \in 0..3
    <3>1. \A h \in 1..4 : h = 1 \/ h = 2 \/ h = 3 \/ h = 4
      OBVIOUS
    <3> QED BY <1>7, <3>1
  <2> QED BY <1>4, <1>6, <1>7, <2>1, QuadsAre
<1>9. ASSUME NEW j \in 1..16 PROVE q[j] = a[j] /\ q[16 + j] = b[j]
  <2>1. CASE j \in 1..8
    <3>1. q[8*0 + j] = v[8*idx[0 + 1] + j] /\ q[8*2 + j] = v[8*idx[2 + 1] + j]
      BY <1>8, <2>1 DEF Quartered
    <3>2. 8*0 + j = j /\ 8*idx[0 + 1] + j = j /\ 8*2 + j = 16 + j /\ 8*idx[2 + 1] + j = 8 + j
      BY <1>7
    <3>3. v[j] = a[j] /\ v[8 + j] = b[j]
      BY <1>6, <2>1 DEF Packed
    <3> QED BY <3>1, <3>2, <3>3
  <2>2. CASE ~(j \in 1..8)
    <3>0. PICK h : h = j - 8
      OBVIOUS
    <3>1. h \in 1..8 /\ 8 + h = j
      BY <2>2, <3>0
    <3>2. q[8*1 + h] = v[8*idx[1 + 1] + h] /\ q[8*3 + h] = v[8*idx[3 + 1] + h]
      BY <1>8, <3>1 DEF Quartered
    <3>3. /\ 8*1 + h = j /\ 8*idx[1 + 1] + h = 2*8 + h
          /\ 8*3 + h = 16 + j /\ 8*idx[3 + 1] + h = 3*8 + h
      BY <1>7, <3>1
    <3>4. v[2*8 + h] = a[8 + h] /\ v[3*8 + h] = b[8 + h]
      BY <1>6, <3>1 DEF Packed
    <3> QED BY <3>1, <3>2, <3>3, <3>4
  <2> QED BY <2>1, <2>2
<1>10. PICK s : s = ShuffleLanes(q, Gather32)
  OBVIOUS
<1>11. Picked(U, q, Gather32, Gather32, s)
  <2>1. Chain(U, q, 32)
    BY <1>8 DEF Quartered
  <2> QED BY <1>10, <2>1, Gathered32, PickedIs DEF ShuffleLanes
<1>12. ASSUME NEW j \in 1..16
       PROVE  s[j] = StreamOf(4)[k + j] /\ s[16 + j] = StreamOf(4)[k + (16 + j)]
  <2>1. PICK y : y = Gather32[j]
    OBVIOUS
  <2>2. PICK z \in 0..7, h \in 0..1 : Gather32[j] = 2*z + h /\ Of(z) + 2*h = 2*(j - 1)
    BY Gathered32
  <2>3. y = 2*z + h /\ ~(y < 0) /\ y + 1 = 2*z + h + 1 /\ y + 1 \in 1..16
    BY <2>1, <2>2
  <2>4. s[j] = q[y + 1] /\ s[16 + j] = q[16 + (y + 1)]
    BY <1>11, <2>1, <2>3 DEF Picked
  <2>5. s[j] = a[2*z + h + 1] /\ s[16 + j] = b[2*z + h + 1]
    BY <1>9, <2>3, <2>4
  <2>6. Of(z) \in Nat
    BY DEF Of
  <2>7. PICK n, m : n = k + j /\ m = k + (16 + j)
    OBVIOUS
  <2>8. n \in Nat \ {0} /\ m \in Nat \ {0}
    BY <2>7
  <2>9. 4*(x + Of(z)) + 8*h = 8*(n - 1) /\ 4*((x + 32) + Of(z)) + 8*h = 8*(m - 1)
    BY <2>2, <2>6, <2>7
  <2>10. StreamOf(4)[n] = Span(4, 8*(n - 1), 0, 8) /\ StreamOf(4)[m] = Span(4, 8*(m - 1), 0, 8)
    BY <2>8 DEF StreamOf
  <2>11. s[j] = Span(4, 8*(n - 1), 0, 8)
    BY <1>2, <2>5, <2>9
  <2>12. s[16 + j] = Span(4, 8*(m - 1), 0, 8)
    BY <1>3, <2>5, <2>9
  <2> QED BY <2>7, <2>10, <2>11, <2>12
<1>13. \A j \in 1..32 : s[j] = StreamOf(4)[k + j]
  <2> TAKE j \in 1..32
  <2>1. CASE j \in 1..16
    BY <1>12, <2>1
  <2>2. CASE ~(j \in 1..16)
    <3>1. PICK h : h = j - 16
      OBVIOUS
    <3>2. h \in 1..16 /\ 16 + h = j
      BY <2>2, <3>1
    <3>3. s[16 + h] = StreamOf(4)[k + (16 + h)]
      BY <1>12, <3>2
    <3> QED BY <3>2, <3>3
  <2> QED BY <2>1, <2>2
<1>14. s = [j \in 1..32 |-> s[j]]
  BY <1>11 DEF Picked, Chain
<1>15. s = Piece(StreamOf(4), k, 32)
  BY <1>13, <1>14 DEF Piece
<1>16. W1Bytes32(f) = s
  <2>1. PackUs(MAdd(p, 4), MAdd(low, 4)) = v
    BY <1>1, <1>4
  <2>2. W1Bytes32(f) = ShuffleLanes(Quads(PackUs(MAdd(p, 4), MAdd(low, 4)), <<0, 2, 1, 3>>), Gather32)
    <3>1. 1 + 1 = 2 /\ 1 + 2 = 3 /\ 1 + 3 = 4 /\ 5 + 1 = 6 /\ 5 + 2 = 7 /\ 5 + 3 = 8
      OBVIOUS
    <3> QED BY <1>1, <3>1 DEF W1Bytes32
  <2> QED BY <1>4, <1>10, <2>1, <2>2
<1> QED BY <1>15, <1>16

\* avx2 polyz_unpack: where the three bytes of each of the eight coefficients
\* begin, and that the shift then brings the coefficient to the front.
ZFrom(f, c) == ((Width[f]*(c - 1)) \div 8)

LEMMA ZPlaces ==
    ASSUME NEW f \in VectorZ
    PROVE  /\ Places(ZShuffle[f][1]) /\ Places(ZShuffle[f][2])
           /\ \A c \in 1..4, b \in 1..3 : ZShuffle[f][1][4*(c - 1) + b] = ZFrom(f, c) + b - 1
           /\ \A c \in 1..4, b \in 1..3 : ZShuffle[f][2][4*(c - 1) + b] + 8 = ZFrom(f, c + 4) + b - 1
           /\ \A c \in 1..4 : ZShuffle[f][1][4*c] = -1 /\ ZShuffle[f][2][4*c] = -1
           /\ \A c \in 1..8 : /\ ZShift[f][c] \in 0..6 /\ ZFrom(f, c) \in 0..17
                              /\ 8*ZFrom(f, c) + ZShift[f][c] = Width[f]*(c - 1)
                              /\ ZFrom(f, c) + 3 <= Width[f] /\ ZShift[f][c] + Width[f] <= 24
<1>1. \A j \in 1..16 : \/ j = 1 \/ j = 2 \/ j = 3 \/ j = 4 \/ j = 5 \/ j = 6 \/ j = 7 \/ j = 8
                       \/ j = 9 \/ j = 10 \/ j = 11 \/ j = 12 \/ j = 13 \/ j = 14 \/ j = 15 \/ j = 16
  OBVIOUS
<1>2. \A c \in 1..8 : c = 1 \/ c = 2 \/ c = 3 \/ c = 4 \/ c = 5 \/ c = 6 \/ c = 7 \/ c = 8
  OBVIOUS
<1>3. \A c \in 1..4 : c = 1 \/ c = 2 \/ c = 3 \/ c = 4
  OBVIOUS
<1>4. \A b \in 1..3 : b = 1 \/ b = 2 \/ b = 3
  OBVIOUS
<1>5. CASE f = "z17"
  <2>1. PICK v, w : v = ZShuffle[f][1] /\ w = ZShuffle[f][2]
    OBVIOUS
  <2>2. /\ v = <<0,1,2,-1,2,3,4,-1,4,5,6,-1,6,7,8,-1>>
        /\ w = <<1,2,3,-1,3,4,5,-1,5,6,7,-1,7,8,9,-1>>
    BY <1>5, <2>1 DEF ZShuffle
  <2>3. /\ Len(v) = 16 /\ v[1] = 0 /\ v[2] = 1 /\ v[3] = 2 /\ v[4] = -1
        /\ v[5] = 2 /\ v[6] = 3 /\ v[7] = 4 /\ v[8] = -1 /\ v[9] = 4 /\ v[10] = 5 /\ v[11] = 6
        /\ v[12] = -1 /\ v[13] = 6 /\ v[14] = 7 /\ v[15] = 8 /\ v[16] = -1
    BY <2>2
  <2>4. /\ Len(w) = 16 /\ w[1] = 1 /\ w[2] = 2 /\ w[3] = 3 /\ w[4] = -1
        /\ w[5] = 3 /\ w[6] = 4 /\ w[7] = 5 /\ w[8] = -1 /\ w[9] = 5 /\ w[10] = 6 /\ w[11] = 7
        /\ w[12] = -1 /\ w[13] = 7 /\ w[14] = 8 /\ w[15] = 9 /\ w[16] = -1
    BY <2>2
  <2>5. Places(v) /\ Places(w)
    BY <1>1, <2>3, <2>4 DEF Places
  <2>6. Width[f] = 18
    BY <1>5, Formats
  <2>7. /\ ZFrom(f, 1) = 0 /\ ZFrom(f, 2) = 2 /\ ZFrom(f, 3) = 4 /\ ZFrom(f, 4) = 6
        /\ ZFrom(f, 5) = 9 /\ ZFrom(f, 6) = 11 /\ ZFrom(f, 7) = 13 /\ ZFrom(f, 8) = 15
    BY <2>6 DEF ZFrom
  <2>8. ASSUME NEW c \in 1..4, NEW b \in 1..3
        PROVE v[4*(c - 1) + b] = ZFrom(f, c) + b - 1 /\ w[4*(c - 1) + b] + 8 = ZFrom(f, c + 4) + b - 1
    <3>1. CASE c = 1
      BY <3>1, <1>4, <2>3, <2>4, <2>7
    <3>2. CASE c = 2
      BY <3>2, <1>4, <2>3, <2>4, <2>7
    <3>3. CASE c = 3
      BY <3>3, <1>4, <2>3, <2>4, <2>7
    <3>4. CASE c = 4
      BY <3>4, <1>4, <2>3, <2>4, <2>7
    <3> QED BY <1>3, <3>1, <3>2, <3>3, <3>4
  <2>9. \A c \in 1..4 : v[4*c] = -1 /\ w[4*c] = -1
    BY <1>3, <2>3, <2>4
  <2>10. /\ ZShift[f][1] = 0 /\ ZShift[f][2] = 2 /\ ZShift[f][3] = 4 /\ ZShift[f][4] = 6
         /\ ZShift[f][5] = 0 /\ ZShift[f][6] = 2 /\ ZShift[f][7] = 4 /\ ZShift[f][8] = 6
    <3>1. ZShift[f] = <<0,2,4,6,0,2,4,6>>
      BY <1>5 DEF ZShift
    <3> QED BY <3>1
  <2>11. \A c \in 1..8 : /\ ZShift[f][c] \in 0..6 /\ ZFrom(f, c) \in 0..17
                         /\ 8*ZFrom(f, c) + ZShift[f][c] = Width[f]*(c - 1)
                         /\ ZFrom(f, c) + 3 <= Width[f] /\ ZShift[f][c] + Width[f] <= 24
    BY <1>2, <2>6, <2>7, <2>10
  <2> QED BY <2>1, <2>5, <2>8, <2>9, <2>11
<1>6. CASE f = "z19"
  <2>1. PICK v, w : v = ZShuffle[f][1] /\ w = ZShuffle[f][2]
    OBVIOUS
  <2>2. /\ v = <<0,1,2,-1,2,3,4,-1,5,6,7,-1,7,8,9,-1>>
        /\ w = <<2,3,4,-1,4,5,6,-1,7,8,9,-1,9,10,11,-1>>
    BY <1>6, <2>1 DEF ZShuffle
  <2>3. /\ Len(v) = 16 /\ v[1] = 0 /\ v[2] = 1 /\ v[3] = 2 /\ v[4] = -1
        /\ v[5] = 2 /\ v[6] = 3 /\ v[7] = 4 /\ v[8] = -1 /\ v[9] = 5 /\ v[10] = 6 /\ v[11] = 7
        /\ v[12] = -1 /\ v[13] = 7 /\ v[14] = 8 /\ v[15] = 9 /\ v[16] = -1
    BY <2>2
  <2>4. /\ Len(w) = 16 /\ w[1] = 2 /\ w[2] = 3 /\ w[3] = 4 /\ w[4] = -1
        /\ w[5] = 4 /\ w[6] = 5 /\ w[7] = 6 /\ w[8] = -1 /\ w[9] = 7 /\ w[10] = 8 /\ w[11] = 9
        /\ w[12] = -1 /\ w[13] = 9 /\ w[14] = 10 /\ w[15] = 11 /\ w[16] = -1
    BY <2>2
  <2>5. Places(v) /\ Places(w)
    BY <1>1, <2>3, <2>4 DEF Places
  <2>6. Width[f] = 20
    BY <1>6, Formats
  <2>7. /\ ZFrom(f, 1) = 0 /\ ZFrom(f, 2) = 2 /\ ZFrom(f, 3) = 5 /\ ZFrom(f, 4) = 7
        /\ ZFrom(f, 5) = 10 /\ ZFrom(f, 6) = 12 /\ ZFrom(f, 7) = 15 /\ ZFrom(f, 8) = 17
    BY <2>6 DEF ZFrom
  <2>8. ASSUME NEW c \in 1..4, NEW b \in 1..3
        PROVE v[4*(c - 1) + b] = ZFrom(f, c) + b - 1 /\ w[4*(c - 1) + b] + 8 = ZFrom(f, c + 4) + b - 1
    <3>1. CASE c = 1
      BY <3>1, <1>4, <2>3, <2>4, <2>7
    <3>2. CASE c = 2
      BY <3>2, <1>4, <2>3, <2>4, <2>7
    <3>3. CASE c = 3
      BY <3>3, <1>4, <2>3, <2>4, <2>7
    <3>4. CASE c = 4
      BY <3>4, <1>4, <2>3, <2>4, <2>7
    <3> QED BY <1>3, <3>1, <3>2, <3>3, <3>4
  <2>9. \A c \in 1..4 : v[4*c] = -1 /\ w[4*c] = -1
    BY <1>3, <2>3, <2>4
  <2>10. /\ ZShift[f][1] = 0 /\ ZShift[f][2] = 4 /\ ZShift[f][3] = 0 /\ ZShift[f][4] = 4
         /\ ZShift[f][5] = 0 /\ ZShift[f][6] = 4 /\ ZShift[f][7] = 0 /\ ZShift[f][8] = 4
    <3>1. ZShift[f] = <<0,4,0,4,0,4,0,4>>
      BY <1>6 DEF ZShift
    <3> QED BY <3>1
  <2>11. \A c \in 1..8 : /\ ZShift[f][c] \in 0..6 /\ ZFrom(f, c) \in 0..17
                         /\ 8*ZFrom(f, c) + ZShift[f][c] = Width[f]*(c - 1)
                         /\ ZFrom(f, c) + 3 <= Width[f] /\ ZShift[f][c] + Width[f] <= 24
    BY <1>2, <2>6, <2>7, <2>10
  <2> QED BY <2>1, <2>5, <2>8, <2>9, <2>11
<1>7. f = "z17" \/ f = "z19"
  BY DEF VectorZ
<1> QED BY <1>5, <1>6, <1>7

\* Three bytes of the stream and an empty one, as a word.
WordAt(bytes, c) == UNION {Shl(bytes[4*(c-1) + b], 8*(b-1)) : b \in 1..4}

ThreeAt(bytes, o, w, d) ==
    /\ bytes[o + 1] = Span(w, d, 0, 8) /\ bytes[o + 2] = Span(w, d + 8, 0, 8)
    /\ bytes[o + 3] = Span(w, d + 16, 0, 8) /\ bytes[o + 4] = {}

LEMMA ThreeBytes ==
    ASSUME NEW w, NEW d \in Int, NEW bytes, NEW c \in 1..8, ThreeAt(bytes, 4*(c-1), w, d)
    PROVE  WordAt(bytes, c) = Span(w, d, 0, 24)
<1>1. PICK o, x1, x2, x3 : /\ o = 4*(c-1)
                           /\ x1 = Span(w, d, 0, 8) /\ x2 = Span(w, d + 8, 0, 8)
                           /\ x3 = Span(w, d + 16, 0, 8)
  OBVIOUS
<1>2. \A b : b \in 1..4 <=> b = 1 \/ b = 2 \/ b = 3 \/ b = 4
  OBVIOUS
<1>3. WordAt(bytes, c) = Shl(x1, 8*(1-1)) \cup Shl(x2, 8*(2-1)) \cup Shl(x3, 8*(3-1)) \cup Shl({}, 8*(4-1))
  <2>1. bytes[o + 1] = x1 /\ bytes[o + 2] = x2 /\ bytes[o + 3] = x3 /\ bytes[o + 4] = {}
    BY <1>1 DEF ThreeAt
  <2>2. WordAt(bytes, c) = UNION {Shl(bytes[o + b], 8*(b-1)) : b \in 1..4}
    BY <1>1 DEF WordAt
  <2>3. UNION {Shl(bytes[o + b], 8*(b-1)) : b \in 1..4}
          = Shl(bytes[o + 1], 8*(1-1)) \cup Shl(bytes[o + 2], 8*(2-1))
            \cup Shl(bytes[o + 3], 8*(3-1)) \cup Shl(bytes[o + 4], 8*(4-1))
    BY <1>2
  <2> QED BY <2>1, <2>2, <2>3
<1>4. Shl({}, 8*(4-1)) = {}
  BY DEF Shl
<1>5. Shl(x1, 8*(1-1)) = x1
  <2>1. Shl(Span(w, d, 0, 8), 0) = Span(w, d - 0, 0 + 0, 8 + 0)
    BY ShiftedSpan
  <2>2. d - 0 = d /\ 0 + 0 = 0 /\ 8 + 0 = 8 /\ 8*(1-1) = 0
    OBVIOUS
  <2> QED BY <1>1, <2>1, <2>2
<1>6. d + 8 \in Int /\ d + 16 \in Int /\ 8*(2-1) = 8 /\ 8*(3-1) = 16 /\ 8 + 8 = 16 /\ 16 + 8 = 24
  OBVIOUS
<1>7. x1 \cup Shl(x2, 8) = Span(w, d, 0, 16)
  <2>1. SideBySide(w, x1, x2, d, d + 8, 8, 8, 16)
    BY <1>1, <1>6, OnTop
  <2> QED BY <2>1 DEF SideBySide
<1>8. PICK x4 : x4 = Span(w, d, 0, 16)
  OBVIOUS
<1>9. x4 \cup Shl(x3, 16) = Span(w, d, 0, 24)
  <2>1. SideBySide(w, x4, x3, d, d + 16, 16, 8, 24)
    BY <1>1, <1>6, <1>8, OnTop
  <2> QED BY <2>1 DEF SideBySide
<1> QED BY <1>3, <1>4, <1>5, <1>6, <1>7, <1>8, <1>9

\* A turn of avx2 polyz_unpack.
Loaded(v, w, from) == \A b \in 1..w : v[b] = Span(w, 8*(from + b - 1), 0, 8)

Shuffled(f, q) == Pick(Lane(q, 0), ZShuffle[f][1]) \o Pick(Lane(q, 1), ZShuffle[f][2])
Read(S, f, gr, load, bytes) ==
    /\ Chain(S, load, 32) /\ Loaded(load, Width[f], Width[f]*gr)
    /\ bytes = Shuffled(f, Quads(load, Quarters))

LEMMA VectorCoefficients ==
    ASSUME NEW f \in VectorZ, NEW gr \in Nat, NEW S, NEW load, NEW bytes,
           Read(S, f, gr, load, bytes)
    PROVE  \A c \in 1..8 : Cut(Shl(WordAt(bytes, c), -ZShift[f][c]), Width[f]) = GivenAll(f)[8*gr + c]
<1>1. PICK w, from, idx, jdx, q : /\ w = Width[f] /\ from = w*gr
                                  /\ idx = ZShuffle[f][1] /\ jdx = ZShuffle[f][2]
                                  /\ q = Quads(load, Quarters)
  OBVIOUS
<1>2. w \in 18..20 /\ from \in Nat /\ f \in DOMAIN Width
  <2>1. (f = "z17" \/ f = "z19") /\ f \in DOMAIN Width
    BY Formats DEF VectorZ
  <2>2. w \in 18..20
    BY <1>1, <2>1, Formats
  <2> QED BY <1>1, <2>1, <2>2
<1>3. Quartered(S, load, Quarters, q)
  <2>1. Len(Quarters) = 4 /\ Quarters[1] = 0 /\ Quarters[2] = 1 /\ Quarters[3] = 1 /\ Quarters[4] = 2
    BY DEF Quarters
  <2>2. \A h \in 1..4 : h = 1 \/ h = 2 \/ h = 3 \/ h = 4
    OBVIOUS
  <2>3. \A h \in 1..4 : Quarters[h] \in 0..3
    BY <2>1, <2>2
  <2>4. Chain(S, load, 32)
    BY DEF Read
  <2> QED BY <1>1, <2>1, <2>3, <2>4, QuadsAre
<1>4. \A nth \in 1..16 : q[nth] = load[nth] /\ q[16 + nth] = load[8 + nth]
  <2> TAKE nth \in 1..16
  <2>1. Quarters[1] = 0 /\ Quarters[2] = 1 /\ Quarters[3] = 1 /\ Quarters[4] = 2
    BY DEF Quarters
  <2>2. CASE nth \in 1..8
    <3>1. q[8*0 + nth] = load[8*Quarters[0 + 1] + nth] /\ q[8*2 + nth] = load[8*Quarters[2 + 1] + nth]
      BY <1>3, <2>2 DEF Quartered
    <3>2. 8*0 + nth = nth /\ 8*Quarters[0 + 1] + nth = nth /\ 8*2 + nth = 16 + nth /\ 8*Quarters[2 + 1] + nth = 8 + nth
      BY <2>1
    <3> QED BY <3>1, <3>2
  <2>3. CASE ~(nth \in 1..8)
    <3>0. PICK h : h = nth - 8
      OBVIOUS
    <3>1. h \in 1..8
      BY <2>3, <3>0
    <3>2. q[8*1 + h] = load[8*Quarters[1 + 1] + h] /\ q[8*3 + h] = load[8*Quarters[3 + 1] + h]
      BY <1>3, <3>1 DEF Quartered
    <3>3. 8*1 + h = nth /\ 8*Quarters[1 + 1] + h = nth /\ 8*3 + h = 16 + nth /\ 8*Quarters[3 + 1] + h = 8 + nth
      BY <2>1, <3>0
    <3> QED BY <3>2, <3>3
  <2> QED BY <2>2, <2>3
<1>5. Picked(S, q, idx, jdx, bytes)
  <2>1. Chain(S, q, 32)
    BY <1>3 DEF Quartered
  <2>2. Places(idx) /\ Places(jdx)
    BY <1>1, ZPlaces
  <2>3. Picked(S, q, idx, jdx, Pick(Lane(q, 0), idx) \o Pick(Lane(q, 1), jdx))
    BY <2>1, <2>2, PickedIs
  <2>4. bytes = Pick(Lane(q, 0), idx) \o Pick(Lane(q, 1), jdx)
    BY <1>1 DEF Read, Shuffled
  <2> QED BY <2>3, <2>4
\* Byte b of the three of coefficient c.
<1>6. ASSUME NEW c \in 1..8, NEW b \in 1..3
      PROVE  bytes[4*(c-1) + b] = Span(w, 8*(from + ZFrom(f, c)) + 8*(b - 1), 0, 8)
  <2>1. PICK o, n : o = ZFrom(f, c) /\ n = o + b
    OBVIOUS
  <2>2. o \in 0..17 /\ o + 3 <= w
    BY <1>1, <2>1, ZPlaces
  <2>3. n \in 1..w /\ n \in Int /\ 8*(from + n - 1) = 8*(from + o) + 8*(b - 1)
    BY <1>2, <2>1, <2>2
  <2>4. load[n] = Span(w, 8*(from + n - 1), 0, 8)
    BY <1>1, <2>3 DEF Loaded, Read
  <2>5. bytes[4*(c-1) + b] = load[n]
    <3>1. CASE c \in 1..4
      <4>1. PICK j : j = 4*(c-1) + b
        OBVIOUS
      <4>2. j \in 1..16
        BY <3>1, <4>1
      <4>3. idx[j] = o + b - 1
        BY <1>1, <2>1, <3>1, <4>1, ZPlaces
      <4>4. ~(idx[j] < 0) /\ idx[j] + 1 = n
        BY <2>1, <2>2, <4>3
      <4>5. bytes[j] = q[n]
        BY <1>5, <4>2, <4>4 DEF Picked
      <4>6. n \in 1..16
        <5>1. PICK y : y = idx[j]
          OBVIOUS
        <5>2. y \in Int /\ y <= 15
          BY <1>1, <4>2, <5>1, ZPlaces DEF Places
        <5>3. y + 1 = n /\ ~(y < 0)
          BY <4>4, <5>1
        <5> QED BY <2>3, <5>2, <5>3
      <4> QED BY <1>4, <4>1, <4>5, <4>6
    <3>2. CASE ~(c \in 1..4)
      <4>0. PICK d, j : d = c - 4 /\ j = 4*(d-1) + b
        OBVIOUS
      <4>1. d \in 1..4 /\ d + 4 = c /\ j \in 1..16 /\ 16 + j = 4*(c-1) + b
        BY <3>2, <4>0
      <4>2. jdx[j] + 8 = o + b - 1
        BY <1>1, <2>1, <4>0, <4>1, ZPlaces
      <4>3. jdx[j] \in Int /\ -1 <= jdx[j] /\ jdx[j] <= 15
        BY <1>1, <4>1, ZPlaces DEF Places
      <4>4. jdx[j] + 1 + 8 = n
        BY <2>1, <2>2, <4>2, <4>3
      <4>5. ~(jdx[j] < 0)
        <5>1. o \in 9..17
          <6>1. c \in 5..8
            BY <3>2
          <6>2. 8*o + ZShift[f][c] = w*(c - 1) /\ ZShift[f][c] \in 0..6
            BY <1>1, <2>1, ZPlaces
          <6>3. c - 1 \in 4..7 /\ w*(c - 1) >= 72
            <7>1. c = 5 \/ c = 6 \/ c = 7 \/ c = 8
              BY <6>1
            <7> QED BY <1>2, <7>1
          <6> QED BY <2>2, <6>2, <6>3
        <5> QED BY <2>1, <4>3, <4>4, <5>1
      <4>6. bytes[16 + j] = q[16 + (jdx[j] + 1)]
        BY <1>5, <4>1, <4>5 DEF Picked
      <4>7. jdx[j] + 1 \in 1..16 /\ 8 + (jdx[j] + 1) = n
        BY <4>3, <4>4, <4>5
      <4>8. q[16 + (jdx[j] + 1)] = load[8 + (jdx[j] + 1)]
        BY <1>4, <4>7
      <4> QED BY <4>1, <4>6, <4>7, <4>8
    <3> QED BY <3>1, <3>2
  <2> QED BY <2>1, <2>3, <2>4, <2>5
<1>7. ASSUME NEW c \in 1..8 PROVE bytes[4*(c-1) + 4] = {}
  <2>1. CASE c \in 1..4
    <3>1. 4*c \in 1..16 /\ 4*(c-1) + 4 = 4*c
      BY <2>1
    <3>2. idx[4*c] = -1
      BY <1>1, <2>1, ZPlaces
    <3>3. idx[4*c] < 0
      BY <3>2
    <3> QED BY <1>5, <3>1, <3>3 DEF Picked
  <2>2. CASE ~(c \in 1..4)
    <3>0. PICK d : d = c - 4
      OBVIOUS
    <3>1. d \in 1..4 /\ 4*d \in 1..16 /\ 4*(c-1) + 4 = 16 + 4*d
      BY <2>2, <3>0
    <3>2. jdx[4*d] = -1
      BY <1>1, <3>1, ZPlaces
    <3>3. jdx[4*d] < 0
      BY <3>2
    <3> QED BY <1>5, <3>1, <3>3 DEF Picked
  <2> QED BY <2>1, <2>2
<1>8. ASSUME NEW c \in 1..8
      PROVE  Cut(Shl(WordAt(bytes, c), -ZShift[f][c]), w) = GivenAll(f)[8*gr + c]
  <2>1. PICK o, t, d, x : o = ZFrom(f, c) /\ t = ZShift[f][c] /\ d = 8*(from + o) /\ x = 8*gr + (c - 1)
    OBVIOUS
  <2>2. o \in 0..17 /\ t \in 0..6 /\ 8*o + t = w*(c - 1)
    BY <1>1, <2>1, ZPlaces
  <2>3. d \in Int
    BY <1>2, <2>1, <2>2
  <2>4. WordAt(bytes, c) = Span(w, d, 0, 24)
    <3>1. /\ bytes[4*(c-1) + 1] = Span(w, d + 8*(1 - 1), 0, 8)
          /\ bytes[4*(c-1) + 2] = Span(w, d + 8*(2 - 1), 0, 8)
          /\ bytes[4*(c-1) + 3] = Span(w, d + 8*(3 - 1), 0, 8)
      BY <1>6, <2>1
    <3>2. d + 8*(1 - 1) = d /\ d + 8*(2 - 1) = d + 8 /\ d + 8*(3 - 1) = d + 16
      BY <2>3
    <3>3. ThreeAt(bytes, 4*(c-1), w, d)
      BY <1>7, <3>1, <3>2 DEF ThreeAt
    <3> QED BY <2>3, <3>3, ThreeBytes
  <2>5. t \in Nat /\ w <= 24 - t /\ w \in Int
    <3>1. ZShift[f][c] + Width[f] <= 24
      BY ZPlaces
    <3>2. t + w <= 24
      BY <1>1, <2>1, <3>1
    <3> QED BY <1>2, <2>2, <3>2
  <2>6. Cut(Shl(Span(w, d, 0, 24), -t), w) = Span(w, d + t, 0, w)
    BY <2>3, <2>5, BitsBelow
  <2>7. d + t = w*x /\ x \in Nat
    <3>1. PICK m, n : m = w*gr /\ n = w*(c - 1)
      OBVIOUS
    <3>2. m \in Int /\ n \in Int /\ d + t = 8*m + n
      BY <1>1, <1>2, <2>1, <2>2, <3>1
    <3>3. w*x = w*(8*gr) + w*(c - 1)
      <4>1. w = 18 \/ w = 19 \/ w = 20
        BY <1>2
      <4>2. x = 8*gr + (c - 1)
        BY <2>1
      <4> QED BY <4>1, <4>2
    <3>4. w*(8*gr) = 8*(w*gr)
      BY <1>2
    <3>5. x \in Nat
      BY <2>1
    <3> QED BY <3>1, <3>2, <3>3, <3>4, <3>5
  <2>8. Given(f, x) = Span(w, w*x, 0, w)
    BY <1>1, <1>2, <2>7, GivenSpan
  <2>9. GivenAll(f)[8*gr + c] = Given(f, x)
    <3>1. 8*gr + c \in Nat \ {0} /\ (8*gr + c) - 1 = x
      BY <2>1
    <3> QED BY <3>1 DEF GivenAll
  <2> QED BY <2>1, <2>4, <2>6, <2>7, <2>8, <2>9
<1> QED BY <1>1, <1>8

(***************************************************************************)
(* The invariant: so many whole bytes of the stream are written and the    *)
(* bits of the coefficients that follow wait; so many coefficients are     *)
(* read and the bits behind them wait.                                     *)
(***************************************************************************)
PackedIn(f, v) == IF v /\ f = "w88" THEN 24 ELSE IF v /\ f = "w32" THEN 32 ELSE Len(PackTerms[f])
ReadIn(f, v) == IF f \in Buffered THEN 1 ELSE IF v THEN 8 ELSE Together(f)

AtPack(f, v, gr, bytes, bb, bc, k) ==
    /\ bytes = First(StreamOf(Width[f]), k)
    /\ f \in Buffered => bc \in 0..7 /\ 8*k + bc = Width[f]*gr /\ bb = Span(Width[f], 8*k, 0, bc)
    /\ f \in Tables => k = PackedIn(f, v)*gr

AtUnpack(f, v, gr, cs, bb, bc, nx, k) ==
    /\ cs = First(GivenAll(f), k) /\ k < Coeffs /\ k = ReadIn(f, v)*gr
    /\ f \in Buffered => /\ bc \in 0..7 /\ nx \in Nat /\ 8*nx = Width[f]*gr + bc
                         /\ bb = Span(Width[f], Width[f]*gr, 0, bc)

AllBytes(f) == First(StreamOf(Width[f]), Bytes(f))
AllCoefficients(f) == First(GivenAll(f), Coeffs)

BInv ==
    /\ fmt \in DOMAIN Width /\ avx \in BOOLEAN /\ (avx => fmt \in VectorZ \cup VectorW1)
    /\ stage \in {"pack", "unpack", "done"} /\ group \in Nat
    /\ stage = "pack" => /\ coeffs = <<>> /\ next = 0 /\ (fmt \notin VectorW1 => reach = 0)
                         /\ \E k \in Nat : AtPack(fmt, avx, group, r, bitbuf, bitcnt, k)
    /\ stage = "unpack" => /\ fmt \notin VectorW1 /\ r = AllBytes(fmt) /\ reach \in 0..Bytes(fmt)+14
                           /\ \E k \in Nat : AtUnpack(fmt, avx, group, coeffs, bitbuf, bitcnt, next, k)
    /\ stage = "done" => /\ r = AllBytes(fmt)
                         /\ fmt \in VectorW1 => coeffs = <<>>
                         /\ fmt \notin VectorW1 => coeffs = AllCoefficients(fmt) /\ reach \in 0..Bytes(fmt)+14

LEMMA FirstNone == ASSUME NEW F PROVE First(F, 0) = <<>>
<1>1. PICK S, s : s = First(F, 0) /\ S = {F}
  OBVIOUS
<1>2. s \in Seq(S) /\ Len(s) = 0
  BY <1>1 DEF First
<1>3. s = <<>>
  BY <1>2
<1> QED BY <1>1, <1>3

LEMMA StreamInit == PInit => BInv
<1> SUFFICES ASSUME PInit PROVE BInv
  OBVIOUS
<1>1. /\ fmt \in DOMAIN Width /\ avx \in BOOLEAN /\ (avx => fmt \in VectorZ \cup VectorW1)
      /\ stage = "pack" /\ group = 0 /\ r = <<>> /\ coeffs = <<>>
      /\ bitbuf = {} /\ bitcnt = 0 /\ next = 0 /\ reach = 0
  BY DEF PInit
<1>2. AtPack(fmt, avx, group, r, bitbuf, bitcnt, 0)
  <2>1. r = First(StreamOf(Width[fmt]), 0)
    BY <1>1, FirstNone
  <2>2. 0 \in 0..7 /\ 8*0 + 0 = Width[fmt]*0
    BY <1>1, WidthIs
  <2>3. bitbuf = Span(Width[fmt], 8*0, 0, 0)
    BY <1>1, EmptySpan
  <2>4. fmt \in Tables => 0 = PackedIn(fmt, avx)*0
    <3>1. CASE fmt \in Tables
      <4>1. Len(PackTerms[fmt]) \in Nat
        BY <3>1, GroupOfBytes
      <4>2. PackedIn(fmt, avx) \in Nat
        BY <4>1 DEF PackedIn
      <4> QED BY <4>2
    <3> QED BY <3>1
  <2> QED BY <1>1, <2>1, <2>2, <2>3, <2>4 DEF AtPack
<1>3. 0 \in Nat
  OBVIOUS
<1> QED BY <1>1, <1>2, <1>3 DEF BInv

LEMMA PackGroupStep == BInv /\ PackGroup => BInv'
<1> SUFFICES ASSUME BInv, PackGroup PROVE BInv'
  OBVIOUS
<1>1. /\ fmt \in Tables /\ ~(avx /\ fmt \in VectorW1) /\ stage = "pack"
      /\ group' = group + 1 /\ fmt' = fmt /\ avx' = avx /\ stage' = stage /\ coeffs' = coeffs
      /\ bitbuf' = bitbuf /\ bitcnt' = bitcnt /\ next' = next /\ reach' = reach
  BY DEF PackGroup
<1>2. /\ fmt \in DOMAIN Width /\ group \in Nat /\ coeffs = <<>> /\ next = 0
      /\ (fmt \notin VectorW1 => reach = 0)
  BY <1>1 DEF BInv
<1>3. PICK k \in Nat : AtPack(fmt, avx, group, r, bitbuf, bitcnt, k)
  BY <1>1 DEF BInv
<1>4. PICK m, n : m = Len(PackTerms[fmt]) /\ n = Together(fmt)
  OBVIOUS
<1>5. PackedIn(fmt, avx) = m
  BY <1>1, <1>4 DEF PackedIn, VectorW1
<1>6. r = First(StreamOf(Width[fmt]), m*group)
  BY <1>1, <1>3, <1>5 DEF AtPack
<1>7. r' = r \o BytesOf(fmt, m, n, group)
  BY <1>4 DEF PackGroup, Together, BytesOf
<1>8. m \in Nat /\ r' = First(StreamOf(Width[fmt]), m*(group + 1))
  BY <1>1, <1>2, <1>4, <1>6, <1>7, GroupOfBytes
<1>9. m*(group + 1) \in Nat
  BY <1>2, <1>8, OneTurnMore
<1>10. AtPack(fmt', avx', group', r', bitbuf', bitcnt', m*(group + 1))
  <2>1. fmt \notin Buffered
    BY <1>1, Formats
  <2> QED BY <1>1, <1>5, <1>8, <2>1 DEF AtPack
<1>11. \E c \in Nat : AtPack(fmt', avx', group', r', bitbuf', bitcnt', c)
  BY <1>9, <1>10
<1>12. group + 1 \in Nat
  BY <1>2
<1> QED BY <1>1, <1>2, <1>11, <1>12 DEF BInv

LEMMA PackBufferedStep == BInv /\ PackBuffered => BInv'
<1> SUFFICES ASSUME BInv, PackBuffered PROVE BInv'
  OBVIOUS
<1>1. /\ fmt \in Buffered /\ stage = "pack"
      /\ group' = group + 1 /\ fmt' = fmt /\ avx' = avx /\ stage' = stage /\ coeffs' = coeffs
      /\ next' = next /\ reach' = reach
  BY DEF PackBuffered
<1>2. /\ fmt \in DOMAIN Width /\ group \in Nat /\ coeffs = <<>> /\ next = 0
      /\ (fmt \notin VectorW1 => reach = 0)
  BY <1>1 DEF BInv
<1>3. PICK k \in Nat : AtPack(fmt, avx, group, r, bitbuf, bitcnt, k)
  BY <1>1 DEF BInv
<1>4. PICK w, cnt, d, word : /\ w = Width[fmt] /\ cnt = bitcnt + w /\ d = 8*k
                             /\ word = Cut(bitbuf \cup Shl(Given(fmt, group), bitcnt), 32)
  OBVIOUS
<1>5. w \in {10, 11}
  BY <1>1, <1>4, Formats DEF Buffered
<1>6. /\ bitcnt \in 0..7 /\ d + bitcnt = w*group /\ bitbuf = Span(w, d, 0, bitcnt)
      /\ r = First(StreamOf(w), k)
  BY <1>1, <1>3, <1>4 DEF AtPack
<1>7. word = Span(w, d, 0, cnt)
  <2>1. Given(fmt, group) = Span(w, d + bitcnt, 0, w)
    BY <1>2, <1>4, <1>6, GivenSpan
  <2>2. d \in Int /\ bitcnt \in Nat /\ w \in Nat /\ bitcnt + w <= 32
    BY <1>4, <1>5, <1>6
  <2>3. Cut(Span(w, d, 0, bitcnt) \cup Shl(Span(w, d + bitcnt, 0, w), bitcnt), 32) = Span(w, d, 0, bitcnt + w)
    <3>1. PICK bc : bc = bitcnt
      OBVIOUS
    <3>2. Brings(w, d, bc, w, 32)
      BY <2>2, <3>1, BitsOnTop
    <3> QED BY <3>1, <3>2 DEF Brings
  <2> QED BY <1>4, <1>6, <2>1, <2>3
<1>8. r' = r \o OutBytes(word, cnt) /\ bitbuf' = Kept(word, cnt) /\ bitcnt' = cnt % 8
  BY <1>4 DEF PackBuffered
<1>9. PICK k1, rest, bc, y : k1 = k + cnt \div 8 /\ rest = cnt % 8 /\ bc = bitcnt /\ y = w*group
  OBVIOUS
<1>10. k1 \in Nat /\ rest \in 0..7 /\ 8*k1 + rest = 8*k + cnt
  <2>1. bc \in 0..7 /\ cnt = bc + w
    BY <1>4, <1>6, <1>9
  <2>2. cnt \in 0..18
    BY <1>5, <2>1
  <2> QED BY <1>9, <2>2
<1>11. r' = First(StreamOf(w), k1) /\ bitbuf' = Span(w, 8*k1, 0, rest)
  <2>1. word = Span(w, 8*k, 0, cnt) /\ bc \in 0..7 /\ cnt = bc + w
    BY <1>4, <1>6, <1>7, <1>9
  <2>2. Writes(w, k, word, cnt)
    BY <1>5, <2>1, BufferedOut
  <2> QED BY <1>6, <1>8, <1>9, <2>2 DEF Writes
<1>12. 8*k1 + bitcnt' = w*(group + 1) /\ bitcnt' = rest
  <2>1. w*(group + 1) = y + w /\ y \in Nat
    BY <1>2, <1>5, <1>9, OneTurnMore
  <2>2. 8*k + bc = y /\ bc \in 0..7 /\ cnt = bc + w
    BY <1>4, <1>6, <1>9
  <2>3. 8*k + cnt = y + w
    BY <1>5, <2>1, <2>2
  <2> QED BY <1>8, <1>9, <1>10, <2>1, <2>3
<1>13. AtPack(fmt', avx', group', r', bitbuf', bitcnt', k1)
  <2>1. fmt \notin Tables
    BY <1>1, Formats
  <2> QED BY <1>1, <1>4, <1>10, <1>11, <1>12, <2>1 DEF AtPack
<1>14. \E c \in Nat : AtPack(fmt', avx', group', r', bitbuf', bitcnt', c)
  BY <1>10, <1>13
<1>15. group + 1 \in Nat
  BY <1>2
<1> QED BY <1>1, <1>2, <1>14, <1>15 DEF BInv

LEMMA ToReaderStep == BInv /\ ToReader => BInv'
<1> SUFFICES ASSUME BInv, ToReader PROVE BInv'
  OBVIOUS
<1>1. /\ stage = "pack" /\ Len(r) = Bytes(fmt)
      /\ stage' = IF fmt \in VectorW1 THEN "done" ELSE "unpack"
      /\ group' = 0 /\ bitbuf' = {} /\ bitcnt' = 0
      /\ fmt' = fmt /\ avx' = avx /\ r' = r /\ coeffs' = coeffs /\ next' = next /\ reach' = reach
  BY DEF ToReader
<1>2. /\ fmt \in DOMAIN Width /\ group \in Nat /\ coeffs = <<>> /\ next = 0
      /\ avx \in BOOLEAN /\ (avx => fmt \in VectorZ \cup VectorW1)
      /\ (fmt \notin VectorW1 => reach = 0)
  BY <1>1 DEF BInv
<1>3. PICK k \in Nat : AtPack(fmt, avx, group, r, bitbuf, bitcnt, k)
  BY <1>1 DEF BInv
<1>4. r = AllBytes(fmt)
  <2>1. r = First(StreamOf(Width[fmt]), k)
    BY <1>3 DEF AtPack
  <2>2. Len(r) = k
    BY <2>1, FirstIs
  <2> QED BY <1>1, <2>1, <2>2 DEF AllBytes
<1>5. Bytes(fmt) \in Nat
  BY <1>2, WholeBytes
<1>6. 0 \in 0..Bytes(fmt)+14 /\ 0 \in Nat /\ 0 < Coeffs
  BY <1>5, PackingAssumption
<1>7. AtUnpack(fmt', avx', group', coeffs', bitbuf', bitcnt', next', 0)
  <2>1. coeffs' = First(GivenAll(fmt), 0)
    BY <1>1, <1>2, FirstNone
  <2>2. ReadIn(fmt, avx) \in Nat
    <3>1. fmt \notin Buffered => Together(fmt) \in Nat
      BY <1>2, Formats, GroupOfBytes
    <3> QED BY <3>1 DEF ReadIn
  <2>3. 0 = ReadIn(fmt, avx)*0
    BY <2>2
  <2>4. Width[fmt]*0 = 0 /\ 8*0 = Width[fmt]*0 + 0 /\ 0 \in 0..7
    BY <1>2, WidthIs
  <2>5. bitbuf' = Span(Width[fmt], 0, 0, 0)
    BY <1>1, EmptySpan
  <2> QED BY <1>1, <1>2, <1>6, <2>1, <2>3, <2>4, <2>5 DEF AtUnpack
<1>8. \E c \in Nat : AtUnpack(fmt', avx', group', coeffs', bitbuf', bitcnt', next', c)
  BY <1>6, <1>7
<1>9. CASE fmt \in VectorW1
  BY <1>1, <1>2, <1>4, <1>6, <1>9 DEF BInv
<1>10. CASE fmt \notin VectorW1
  BY <1>1, <1>2, <1>4, <1>6, <1>8, <1>10 DEF BInv
<1> QED BY <1>9, <1>10

\* What a turn of an unpacking loop must show: k coefficients are read now.
Turned(f, v, gr, cs, bb, bc, nx, k, stg) ==
    /\ cs = First(GivenAll(f), k) /\ k \in Nat /\ k <= Coeffs
    /\ stg = IF k = Coeffs THEN "done" ELSE "unpack"
    /\ k # Coeffs => AtUnpack(f, v, gr, cs, bb, bc, nx, k)

LEMMA TurnedIs ==
    ASSUME BInv, stage = "unpack", fmt' = fmt, avx' = avx, r' = r, group' = group + 1,
           reach' \in 0..Bytes(fmt)+14,
           NEW k \in Nat, Turned(fmt, avx, group', coeffs', bitbuf', bitcnt', next', k, stage')
    PROVE  BInv'
<1>1. /\ fmt \in DOMAIN Width /\ avx \in BOOLEAN /\ (avx => fmt \in VectorZ \cup VectorW1)
      /\ group \in Nat /\ fmt \notin VectorW1 /\ r = AllBytes(fmt)
  BY DEF BInv
<1>2. group' \in Nat
  BY <1>1
<1>3. CASE k = Coeffs
  <2>1. stage' = "done" /\ coeffs' = AllCoefficients(fmt)
    BY <1>3 DEF Turned, AllCoefficients
  <2> QED BY <1>1, <1>2, <2>1 DEF BInv
<1>4. CASE k # Coeffs
  <2>1. stage' = "unpack" /\ AtUnpack(fmt', avx', group', coeffs', bitbuf', bitcnt', next', k)
    BY <1>4 DEF Turned
  <2>2. \E c \in Nat : AtUnpack(fmt', avx', group', coeffs', bitbuf', bitcnt', next', c)
    BY <2>1
  <2> QED BY <1>1, <1>2, <2>1, <2>2 DEF BInv
<1> QED BY <1>3, <1>4

LEMMA UnpackGroupStep == BInv /\ UnpackGroup => BInv'
<1> SUFFICES ASSUME BInv, UnpackGroup PROVE BInv'
  OBVIOUS
<1>1. /\ stage = "unpack" /\ fmt \in Tables /\ ~avx /\ group' = group + 1
      /\ stage' = IF Len(coeffs') = Coeffs THEN "done" ELSE stage
      /\ fmt' = fmt /\ avx' = avx /\ r' = r /\ bitbuf' = bitbuf /\ bitcnt' = bitcnt
      /\ next' = next /\ reach' = reach
  BY DEF UnpackGroup
<1>2. /\ fmt \in Tables \ VectorW1 /\ group \in Nat /\ r = AllBytes(fmt) /\ reach \in 0..Bytes(fmt)+14
  BY <1>1 DEF BInv
<1>3. PICK k \in Nat : AtUnpack(fmt, avx, group, coeffs, bitbuf, bitcnt, next, k)
  BY <1>1 DEF BInv
<1>4. PICK m, n : m = Len(PackTerms[fmt]) /\ n = Together(fmt)
  OBVIOUS
<1>5. ReadIn(fmt, avx) = n /\ fmt \notin Buffered
  BY <1>1, <1>4, Formats DEF ReadIn
<1>6. coeffs = First(GivenAll(fmt), n*group) /\ n*group < Coeffs
  BY <1>3, <1>5 DEF AtUnpack
<1>7. PICK bytes : bytes = r
  OBVIOUS
<1>8. /\ n \in Nat /\ Len(UnpackTerms[fmt]) = n /\ n*(group + 1) <= Coeffs
      /\ First(GivenAll(fmt), n*group) \o CoefficientsOf(fmt, bytes, m, n, group)
           = First(GivenAll(fmt), n*(group + 1))
  <2>1. bytes = First(StreamOf(Width[fmt]), Bytes(fmt))
    BY <1>2, <1>7 DEF AllBytes
  <2>2. GroupRead(fmt, bytes, m, n, group)
    BY <1>2, <1>4, <1>6, <2>1, GroupOfCoefficients
  <2> QED BY <2>2 DEF GroupRead
<1>9. coeffs' = coeffs \o CoefficientsOf(fmt, bytes, m, n, group)
  BY <1>4, <1>7, <1>8 DEF UnpackGroup, CoefficientsOf
<1>10. coeffs' = First(GivenAll(fmt), n*(group + 1))
  BY <1>6, <1>8, <1>9
<1>11. n*(group + 1) \in Nat
  BY <1>2, <1>8, OneTurnMore
<1>12. Len(coeffs') = n*(group + 1)
  BY <1>10, <1>11, FirstIs
<1>13. PICK k1 : k1 = n*(group + 1)
  OBVIOUS
<1>14. Turned(fmt, avx, group', coeffs', bitbuf', bitcnt', next', k1, stage')
  <2>1. k1 \in Nat /\ k1 <= Coeffs /\ Coeffs \in Nat
    BY <1>8, <1>11, <1>13, PackingAssumption
  <2>2. stage' = IF k1 = Coeffs THEN "done" ELSE "unpack"
    BY <1>1, <1>12, <1>13
  <2>3. k1 # Coeffs => AtUnpack(fmt, avx, group', coeffs', bitbuf', bitcnt', next', k1)
    <3>1. k1 # Coeffs => k1 < Coeffs
      BY <2>1
    <3> QED BY <1>1, <1>5, <1>10, <1>13, <3>1 DEF AtUnpack
  <2> QED BY <1>10, <1>13, <2>1, <2>2, <2>3 DEF Turned
<1>15. k1 \in Nat /\ reach' \in 0..Bytes(fmt)+14
  BY <1>1, <1>2, <1>11, <1>13
<1> QED BY <1>1, <1>14, <1>15, TurnedIs

LEMMA UnpackBufferedStep == BInv /\ UnpackBuffered => BInv'
<1> SUFFICES ASSUME BInv, UnpackBuffered PROVE BInv'
  OBVIOUS
<1>1. /\ stage = "unpack" /\ fmt \in Buffered /\ group' = group + 1
      /\ stage' = IF group + 1 = Coeffs THEN "done" ELSE stage
      /\ fmt' = fmt /\ avx' = avx /\ r' = r /\ reach' = reach
  BY DEF UnpackBuffered
<1>2. /\ fmt \in DOMAIN Width /\ group \in Nat /\ r = AllBytes(fmt) /\ reach \in 0..Bytes(fmt)+14
  BY <1>1 DEF BInv
<1>3. PICK k \in Nat : AtUnpack(fmt, avx, group, coeffs, bitbuf, bitcnt, next, k)
  BY <1>1 DEF BInv
<1>4. PICK w, n, bc, nx, gr, bytes, bb, y :
          /\ w = Width[fmt] /\ n = More(bitcnt) /\ bc = bitcnt /\ nx = next /\ gr = group
          /\ bytes = r /\ bb = bitbuf /\ y = w*group
  OBVIOUS
<1>5. w \in {10, 11}
  BY <1>1, <1>4, Formats DEF Buffered
<1>6. /\ bc \in 0..7 /\ nx \in Nat /\ 8*nx = y + bc /\ bb = Span(w, w*gr, 0, bc)
      /\ coeffs = First(GivenAll(fmt), gr) /\ gr < Coeffs /\ gr \in Nat /\ y \in Nat
  <2>1. ReadIn(fmt, avx) = 1
    BY <1>1 DEF ReadIn
  <2>2. k = gr
    BY <1>2, <1>3, <1>4, <2>1 DEF AtUnpack
  <2>3. gr \in Nat /\ y \in Nat
    BY <1>2, <1>4, <1>5
  <2> QED BY <1>1, <1>3, <1>4, <2>2, <2>3 DEF AtUnpack
<1>7. n \in 1..2 /\ bc + 8*n - w \in 0..7
  <2>1. n = IF bc >= w THEN 0 ELSE (w - bc + 7) \div 8
    BY <1>4 DEF More
  <2> QED BY <1>5, <1>6, <2>1
\* The bytes it takes are there.
<1>8. Stands(bytes, w, nx, n)
  <2>1. PICK q \in Nat : Coeffs = 8*q /\ Bytes(fmt) = w*q
    BY <1>2, <1>4, WholeBytes
  <2>2. PICK p : p = w*q
    OBVIOUS
  <2>3. nx + n <= p /\ p \in Nat
    <3>1. y + w <= 8*p /\ p \in Nat
      <4>1. gr + 1 <= 8*q
        BY <1>6, <2>1
      <4>2. CASE w = 10
        BY <1>4, <1>6, <2>2, <4>1, <4>2
      <4>3. CASE w = 11
        BY <1>4, <1>6, <2>2, <4>1, <4>3
      <4> QED BY <1>5, <4>2, <4>3
    <3>2. 8*(nx + n) <= y + w + 7
      BY <1>5, <1>6, <1>7
    <3> QED BY <1>5, <1>6, <1>7, <3>1, <3>2
  <2>4. bytes = First(StreamOf(w), p)
    BY <1>2, <1>4, <2>1, <2>2 DEF AllBytes
  <2>5. ASSUME NEW b \in 0..n-1 PROVE bytes[nx + b + 1] = Span(w, 8*(nx + b), 0, 8)
    <3>1. PICK j : j = nx + b + 1
      OBVIOUS
    <3>2. j \in 1..p /\ j \in Nat \ {0} /\ j - 1 = nx + b
      BY <1>6, <1>7, <2>3, <3>1
    <3>3. bytes[j] = StreamOf(w)[j]
      BY <2>3, <2>4, <3>2, FirstIs
    <3>4. StreamOf(w)[j] = Span(w, 8*(j - 1), 0, 8)
      BY <3>2 DEF StreamOf
    <3> QED BY <3>1, <3>2, <3>3, <3>4
  <2> QED BY <2>5 DEF Stands
<1>9. Gets(w, gr, bc, n, nx, bytes)
  <2>1. 8*nx = w*gr + bc
    BY <1>4, <1>6
  <2> QED BY <1>5, <1>6, <1>7, <1>8, <2>1, BufferedIn
<1>10. PICK word, hi : word = Cut(bb \cup Brought(bytes, nx, bc, n), 32) /\ hi = bc + 8*n
  OBVIOUS
<1>11. word = Span(w, y, 0, hi) /\ y = w*gr
  BY <1>4, <1>6, <1>9, <1>10 DEF Gets
<1>12. /\ coeffs' = Append(coeffs, Cut(word, w)) /\ bitbuf' = Cut(Shl(word, -w), 32)
       /\ bitcnt' = bc + 8*n - w /\ next' = nx + n
  BY <1>4, <1>10 DEF UnpackBuffered, Brought
<1>13. y \in Int /\ hi \in Nat /\ w <= hi /\ hi - w <= 32 /\ w \in Nat /\ w \in Int /\ 0 \in Int /\ 0 <= 0
  BY <1>5, <1>6, <1>7, <1>10
<1>14. Cut(word, w) = Given(fmt, gr)
  <2>1. Cut(Span(w, y, 0, hi), w) = Span(w, y, 0, w)
    BY <1>13, CutSpan
  <2>2. Given(fmt, gr) = Span(w, w*gr, 0, w)
    BY <1>2, <1>4, <1>6, GivenSpan
  <2> QED BY <1>11, <2>1, <2>2
<1>15. bitbuf' = Span(w, y + w, 0, hi - w)
  <2>1. PICK m : m = hi - w
    OBVIOUS
  <2>2. m \in Int /\ m <= 32 /\ m <= hi - w
    BY <1>13, <2>1
  <2>3. Cut(Shl(Span(w, y, 0, hi), -w), 32) = Span(w, y + w, 0, m)
    BY <1>13, <2>1, <2>2, BitsBelow
  <2> QED BY <1>11, <1>12, <2>1, <2>3
<1>16. coeffs' = First(GivenAll(fmt), gr + 1)
  <2>1. First(GivenAll(fmt), gr) \o Piece(GivenAll(fmt), gr, 1) = First(GivenAll(fmt), gr + 1)
    BY <1>6, FirstGrows
  <2>2. PICK c, S : c = Cut(word, w) /\ S = {c} \cup {Given(fmt, x) : x \in Nat}
    OBVIOUS
  <2>3. Piece(GivenAll(fmt), gr, 1) = <<c>>
    <3>1. GivenAll(fmt)[gr + 1] = c
      <4>1. gr + 1 \in Nat \ {0} /\ (gr + 1) - 1 = gr
        BY <1>6
      <4> QED BY <1>14, <2>2, <4>1 DEF GivenAll
    <3>2. <<c>> = [b \in 1..1 |-> c]
      OBVIOUS
    <3>3. \A b \in 1..1 : GivenAll(fmt)[gr + b] = c
      <4>1. \A b \in 1..1 : b = 1
        OBVIOUS
      <4> QED BY <3>1, <4>1
    <3> QED BY <3>2, <3>3 DEF Piece
  <2>4. coeffs \in Seq(S)
    <3>1. \A x \in 1..gr : GivenAll(fmt)[x] \in S
      <4>1. \A x \in 1..gr : x \in Nat \ {0} /\ x - 1 \in Nat
        BY <1>6
      <4> QED BY <2>2, <4>1 DEF GivenAll
    <3>2. coeffs = [x \in 1..gr |-> GivenAll(fmt)[x]]
      BY <1>6 DEF First
    <3> QED BY <1>6, <3>1, <3>2
  <2>5. Append(coeffs, c) = coeffs \o <<c>>
    <3>1. c \in S
      BY <2>2
    <3> QED BY <2>4, <3>1, AppendIsConcat
  <2> QED BY <1>6, <1>12, <2>1, <2>2, <2>3, <2>5
<1>17. PICK g1 : g1 = gr + 1
  OBVIOUS
<1>18. Turned(fmt, avx, g1, coeffs', bitbuf', bitcnt', next', g1, stage')
  <2>1. g1 \in Nat /\ g1 <= Coeffs /\ Coeffs \in Nat
    BY <1>6, <1>17, PackingAssumption
  <2>2. stage' = IF g1 = Coeffs THEN "done" ELSE "unpack"
    BY <1>1, <1>4, <1>17
  <2>3. w*g1 = y + w
    BY <1>4, <1>5, <1>6, <1>17, OneTurnMore
  <2>4. /\ bitcnt' \in 0..7 /\ next' \in Nat /\ 8*next' = w*g1 + bitcnt'
        /\ bitbuf' = Span(w, w*g1, 0, bitcnt')
    <3>1. PICK b1, n1 : b1 = bitcnt' /\ n1 = next'
      OBVIOUS
    <3>2. b1 = bc + 8*n - w /\ n1 = nx + n
      BY <1>12, <3>1
    <3>3. b1 \in 0..7 /\ n1 \in Nat /\ 8*n1 = y + w + b1 /\ hi - w = b1
      BY <1>5, <1>6, <1>7, <1>10, <3>2
    <3> QED BY <1>15, <2>3, <3>1, <3>3
  <2>5. g1 # Coeffs => AtUnpack(fmt, avx, g1, coeffs', bitbuf', bitcnt', next', g1)
    <3>1. g1 # Coeffs => g1 < Coeffs
      BY <2>1
    <3>2. g1 = ReadIn(fmt, avx)*g1
      BY <1>1, <2>1 DEF ReadIn
    <3> QED BY <1>4, <1>16, <1>17, <2>4, <3>1, <3>2 DEF AtUnpack
  <2> QED BY <1>16, <1>17, <2>1, <2>2, <2>5 DEF Turned
<1>19. g1 \in Nat /\ reach' \in 0..Bytes(fmt)+14 /\ g1 = group'
  BY <1>1, <1>2, <1>4, <1>6, <1>17
<1> QED BY <1>1, <1>18, <1>19, TurnedIs

LoadOf(w, gr, bytes) == [b \in 1..32 |-> IF w*gr + b <= Len(bytes) THEN bytes[w*gr + b]
                                         ELSE {<<p, <<"beyond", p>>>> : p \in 0..7}]
LoadedZ(f, w, load) ==
    [c \in 1..8 |-> Cut(Shl(WordAt(Shuffled(f, Quads(load, Quarters)), c), -ZShift[f][c]), w)]

LEMMA UnpackVectorZStep == BInv /\ UnpackVectorZ => BInv'
<1> SUFFICES ASSUME BInv, UnpackVectorZ PROVE BInv'
  OBVIOUS
<1>1. /\ stage = "unpack" /\ avx /\ group' = group + 1
      /\ stage' = IF Len(coeffs') = Coeffs THEN "done" ELSE stage
      /\ fmt' = fmt /\ avx' = avx /\ r' = r /\ bitbuf' = bitbuf /\ bitcnt' = bitcnt
      /\ next' = next
  BY DEF UnpackVectorZ
<1>2. fmt \in VectorZ /\ fmt \in DOMAIN Width /\ group \in Nat /\ r = AllBytes(fmt)
  BY <1>1 DEF BInv
<1>3. PICK k \in Nat : AtUnpack(fmt, avx, group, coeffs, bitbuf, bitcnt, next, k)
  BY <1>1 DEF BInv
<1>4. PICK f, w, gr, from, bytesin : /\ f = fmt /\ w = Width[fmt] /\ gr = group /\ from = w*gr
                                     /\ bytesin = r
  OBVIOUS
<1>5. w \in 18..20 /\ gr \in Nat /\ from \in Nat /\ f \in VectorZ
  <2>1. fmt = "z17" \/ fmt = "z19"
    BY <1>2 DEF VectorZ
  <2>2. w \in 18..20
    BY <1>4, <2>1, Formats
  <2> QED BY <1>2, <1>4, <2>2
<1>6. ReadIn(f, avx) = 8 /\ f \notin Buffered
  BY <1>1, <1>4, <1>5, Formats DEF ReadIn
<1>7. coeffs = First(GivenAll(f), 8*gr) /\ 8*gr < Coeffs
  BY <1>3, <1>4, <1>6 DEF AtUnpack
<1>8. PICK q \in Nat : Coeffs = 8*q /\ Bytes(fmt) = w*q
  BY <1>2, <1>4, WholeBytes
<1>9. PICK p : p = w*q
  OBVIOUS
\* The w bytes of the eight coefficients are there, those behind may not be.
<1>10. p \in Nat /\ from + w <= p /\ 8*(gr + 1) <= Coeffs
  <2>1. gr + 1 <= q
    BY <1>5, <1>7, <1>8
  <2>2. w = 18 \/ w = 19 \/ w = 20
    BY <1>5
  <2> QED BY <1>4, <1>5, <1>8, <1>9, <2>1, <2>2
<1>11. PICK load : load = LoadOf(w, gr, bytesin)
  OBVIOUS
<1>12. PICK bytes : bytes = Shuffled(f, Quads(load, Quarters))
  OBVIOUS
<1>13. coeffs' = coeffs \o [c \in 1..8 |-> Cut(Shl(WordAt(bytes, c), -ZShift[f][c]), w)]
  <2>1. coeffs' = coeffs \o LoadedZ(fmt, Width[fmt], LoadOf(Width[fmt], group, r))
    BY DEF UnpackVectorZ, LoadedZ, LoadOf, Shuffled, WordAt
  <2>2. coeffs' = coeffs \o LoadedZ(f, w, load)
    BY <1>4, <1>11, <2>1
  <2> QED BY <1>12, <2>2 DEF LoadedZ
<1>14. Loaded(load, w, from)
  <2>1. bytesin = First(StreamOf(w), p)
    BY <1>2, <1>4, <1>8, <1>9 DEF AllBytes
  <2>2. Len(bytesin) = p /\ \A j \in 1..p : bytesin[j] = StreamOf(w)[j]
    BY <1>10, <2>1, FirstIs
  <2>3. ASSUME NEW b \in 1..w PROVE load[b] = Span(w, 8*(from + b - 1), 0, 8)
    <3>1. PICK j : j = from + b
      OBVIOUS
    <3>2. j \in 1..p /\ j \in Nat \ {0} /\ j - 1 = from + b - 1 /\ b \in 1..32 /\ j <= p
      BY <1>5, <1>10, <3>1
    <3>3. load[b] = bytesin[j]
      BY <1>4, <1>11, <2>2, <3>1, <3>2 DEF LoadOf
    <3>4. StreamOf(w)[j] = Span(w, 8*(j - 1), 0, 8)
      BY <3>2 DEF StreamOf
    <3> QED BY <2>2, <3>1, <3>2, <3>3, <3>4
  <2> QED BY <2>3 DEF Loaded
<1>15. PICK S : S = {load[b] : b \in 1..32}
  OBVIOUS
<1>16. Chain(S, load, 32)
  <2>1. \A b \in 1..32 : load[b] \in S
    BY <1>15
  <2>2. load = [b \in 1..32 |-> load[b]]
    BY <1>11 DEF LoadOf
  <2>3. load \in Seq(S) /\ Len(load) = 32
    BY <2>1, <2>2
  <2> QED BY <2>3 DEF Chain
<1>17. \A c \in 1..8 : Cut(Shl(WordAt(bytes, c), -ZShift[f][c]), w) = GivenAll(f)[8*gr + c]
  <2>1. w = Width[f]
    BY <1>4
  <2>2. Read(S, f, gr, load, bytes)
    BY <1>4, <1>12, <1>14, <1>16, <2>1 DEF Read
  <2>3. \A c \in 1..8 : Cut(Shl(WordAt(bytes, c), -ZShift[f][c]), Width[f]) = GivenAll(f)[8*gr + c]
    BY <1>5, <2>2, VectorCoefficients
  <2> QED BY <2>1, <2>3
<1>18. PICK k1 : k1 = 8*gr + 8
  OBVIOUS
<1>19. coeffs' = First(GivenAll(f), k1) /\ k1 \in Nat
  <2>1. coeffs' = First(GivenAll(f), 8*gr) \o Piece(GivenAll(f), 8*gr, 8)
    BY <1>7, <1>13, <1>17 DEF Piece
  <2>2. 8*gr \in Nat /\ k1 \in Nat
    BY <1>5, <1>18
  <2>3. First(GivenAll(f), 8*gr) \o Piece(GivenAll(f), 8*gr, 8) = First(GivenAll(f), 8*gr + 8)
    BY <2>2, FirstGrows
  <2> QED BY <1>18, <2>1, <2>2, <2>3
<1>20. Len(coeffs') = k1
  BY <1>19, FirstIs
<1>21. Turned(fmt, avx, group', coeffs', bitbuf', bitcnt', next', k1, stage')
  <2>1. k1 <= Coeffs /\ Coeffs \in Nat /\ k1 = 8*(gr + 1)
    BY <1>5, <1>10, <1>18, PackingAssumption
  <2>2. stage' = IF k1 = Coeffs THEN "done" ELSE "unpack"
    BY <1>1, <1>20
  <2>3. k1 # Coeffs => AtUnpack(fmt, avx, group', coeffs', bitbuf', bitcnt', next', k1)
    <3>1. k1 # Coeffs => k1 < Coeffs
      BY <1>19, <2>1
    <3> QED BY <1>1, <1>4, <1>6, <1>19, <2>1, <3>1 DEF AtUnpack
  <2> QED BY <1>4, <1>19, <2>1, <2>2, <2>3 DEF Turned
<1>22. reach' \in 0..Bytes(fmt)+14
  <2>1. reach' = from + 32
    BY <1>4 DEF UnpackVectorZ
  <2> QED BY <1>5, <1>8, <1>9, <1>10, <2>1
<1> QED BY <1>1, <1>19, <1>21, <1>22, TurnedIs

\* The registers that avx2 polyw1_pack loads.
AllGiven(f) == {Given(f, c) : c \in Nat}

LEMMA RegisterIs ==
    ASSUME NEW f \in DOMAIN Width, NEW x \in Nat, NEW n \in Nat, NEW v, NEW c \in 1..n,
           v = [h \in 1..n |-> [e \in 1..8 |-> Given(f, x + 8*(h-1) + e - 1)]]
    PROVE  Register(AllGiven(f), Width[f], v[c], x + 8*(c-1))
<1>1. PICK y : y = x + 8*(c-1)
  OBVIOUS
<1>2. y \in Nat
  BY <1>1
<1>3. v[c] = [e \in 1..8 |-> Given(f, y + e - 1)]
  BY <1>1
<1>4. \A e \in 1..8 : y + e - 1 \in Nat
  BY <1>2
<1>5. \A e \in 1..8 : v[c][e] \in AllGiven(f) /\ v[c][e] = Coefficient(Width[f], y + e - 1)
  <2> TAKE e \in 1..8
  <2>1. PICK z : z = y + e - 1
    OBVIOUS
  <2>2. z \in Nat /\ v[c][e] = Given(f, z)
    BY <1>3, <1>4, <2>1
  <2>3. Given(f, z) = Span(Width[f], Width[f]*z, 0, Width[f])
    BY <2>2, GivenSpan
  <2> QED BY <2>1, <2>2, <2>3 DEF AllGiven, Coefficient
<1>6. v[c] \in Seq(AllGiven(f)) /\ Len(v[c]) = 8
  BY <1>3, <1>5
<1> QED BY <1>1, <1>5, <1>6 DEF Register, Chain

\* A turn of avx2 polyw1_pack.
TakenIn(f) == IF f = "w88" THEN 32 ELSE 64
LoadedW1(f, gr) ==
    [c \in 1..TakenIn(f) \div 8 |-> [e \in 1..8 |-> Given(f, TakenIn(f)*gr + 8*(c-1) + e - 1)]]

LEMMA GroupOfBytes88 ==
    ASSUME NEW gr \in Nat
    PROVE  First(StreamOf(6), 24*gr) \o W1Bytes88(LoadedW1("w88", gr)) = First(StreamOf(6), 24*(gr + 1))
<1>1. PICK f, x, k, v, S : /\ f = "w88" /\ x = 32*gr /\ k = 24*gr /\ v = LoadedW1("w88", gr)
                           /\ S = AllGiven("w88")
  OBVIOUS
<1>2. f \in DOMAIN Width /\ Width[f] = 6 /\ x \in Nat /\ k \in Nat /\ 6*x = 8*k
  <2>1. "w88" \in DOMAIN Width /\ Width["w88"] = 6
    BY Formats DEF VectorW1
  <2> QED BY <1>1, <2>1
<1>3. v = [h \in 1..4 |-> [e \in 1..8 |-> Given(f, x + 8*(h-1) + e - 1)]]
  <2>1. TakenIn("w88") = 32 /\ TakenIn("w88") \div 8 = 4
    BY DEF TakenIn
  <2> QED BY <1>1, <2>1 DEF LoadedW1
<1>4. \A c \in 1..4 : Register(S, 6, v[c], x + 8*(c-1))
  <2>1. \A c \in 1..4 : Register(AllGiven(f), Width[f], v[c], x + 8*(c-1))
    BY <1>2, <1>3, RegisterIs
  <2> QED BY <1>1, <1>2, <2>1
<1>5. /\ Register(S, 6, v[1], x) /\ Register(S, 6, v[2], x + 8)
      /\ Register(S, 6, v[3], x + 16) /\ Register(S, 6, v[4], x + 24)
  <2>1. /\ Register(S, 6, v[1], x + 8*(1-1)) /\ Register(S, 6, v[2], x + 8*(2-1))
        /\ Register(S, 6, v[3], x + 8*(3-1)) /\ Register(S, 6, v[4], x + 8*(4-1))
    BY <1>4
  <2>2. x + 8*(1-1) = x /\ x + 8*(2-1) = x + 8 /\ x + 8*(3-1) = x + 16 /\ x + 8*(4-1) = x + 24
    BY <1>2
  <2> QED BY <2>1, <2>2
<1>6. W1Bytes88(v) = Piece(StreamOf(6), k, 24)
  BY <1>2, <1>5, VectorBytes88
<1>7. First(StreamOf(6), k) \o Piece(StreamOf(6), k, 24) = First(StreamOf(6), k + 24)
  BY <1>2, FirstGrows
<1>8. k + 24 = 24*(gr + 1)
  BY <1>1
<1> QED BY <1>1, <1>6, <1>7, <1>8

LEMMA GroupOfBytes32 ==
    ASSUME NEW gr \in Nat
    PROVE  First(StreamOf(4), 32*gr) \o W1Bytes32(LoadedW1("w32", gr)) = First(StreamOf(4), 32*(gr + 1))
<1>1. PICK f, x, k, v, S : /\ f = "w32" /\ x = 64*gr /\ k = 32*gr /\ v = LoadedW1("w32", gr)
                           /\ S = AllGiven("w32")
  OBVIOUS
<1>2. f \in DOMAIN Width /\ Width[f] = 4 /\ x \in Nat /\ k \in Nat /\ 4*x = 8*k
  <2>1. "w32" \in DOMAIN Width /\ Width["w32"] = 4
    BY Formats DEF VectorW1
  <2> QED BY <1>1, <2>1
<1>3. v = [h \in 1..8 |-> [e \in 1..8 |-> Given(f, x + 8*(h-1) + e - 1)]]
  <2>1. TakenIn("w32") = 64 /\ TakenIn("w32") \div 8 = 8
    BY DEF TakenIn
  <2> QED BY <1>1, <2>1 DEF LoadedW1
<1>4. \A c \in 1..8 : Register(S, 4, v[c], x + 8*(c-1))
  <2>1. \A c \in 1..8 : Register(AllGiven(f), Width[f], v[c], x + 8*(c-1))
    BY <1>2, <1>3, RegisterIs
  <2> QED BY <1>1, <1>2, <2>1
<1>5. Registers8(S, v, x)
  <2>1. /\ Register(S, 4, v[1], x + 8*(1-1)) /\ Register(S, 4, v[2], x + 8*(2-1))
        /\ Register(S, 4, v[3], x + 8*(3-1)) /\ Register(S, 4, v[4], x + 8*(4-1))
        /\ Register(S, 4, v[5], x + 8*(5-1)) /\ Register(S, 4, v[6], x + 8*(6-1))
        /\ Register(S, 4, v[7], x + 8*(7-1)) /\ Register(S, 4, v[8], x + 8*(8-1))
    BY <1>4
  <2>2. /\ x + 8*(1-1) = x /\ x + 8*(2-1) = x + 8 /\ x + 8*(3-1) = x + 16 /\ x + 8*(4-1) = x + 24
        /\ x + 8*(5-1) = x + 32 /\ x + 8*(6-1) = x + 32 + 8
        /\ x + 8*(7-1) = x + 32 + 16 /\ x + 8*(8-1) = x + 32 + 24
    BY <1>2
  <2> QED BY <2>1, <2>2 DEF Registers8
<1>6. W1Bytes32(v) = Piece(StreamOf(4), k, 32)
  BY <1>2, <1>5, VectorBytes32
<1>7. First(StreamOf(4), k) \o Piece(StreamOf(4), k, 32) = First(StreamOf(4), k + 32)
  BY <1>2, FirstGrows
<1>8. k + 32 = 32*(gr + 1)
  BY <1>1
<1> QED BY <1>1, <1>6, <1>7, <1>8

LEMMA PackVectorW1Step == BInv /\ PackVectorW1 => BInv'
<1> SUFFICES ASSUME BInv, PackVectorW1 PROVE BInv'
  OBVIOUS
<1>1. /\ stage = "pack" /\ avx /\ fmt \in VectorW1 /\ group' = group + 1
      /\ fmt' = fmt /\ avx' = avx /\ stage' = stage /\ coeffs' = coeffs
      /\ bitbuf' = bitbuf /\ bitcnt' = bitcnt /\ next' = next
  BY DEF PackVectorW1
<1>2. fmt \in DOMAIN Width /\ group \in Nat /\ coeffs = <<>> /\ next = 0
  BY <1>1 DEF BInv
<1>3. PICK k \in Nat : AtPack(fmt, avx, group, r, bitbuf, bitcnt, k)
  BY <1>1 DEF BInv
<1>4. fmt \in Tables /\ fmt \notin Buffered
  BY <1>1, Formats
<1>5. r' = r \o (IF fmt = "w88" THEN W1Bytes88(LoadedW1(fmt, group)) ELSE W1Bytes32(LoadedW1(fmt, group)))
  BY DEF PackVectorW1, LoadedW1, TakenIn
<1>6. PICK n : n = PackedIn(fmt, avx)
  OBVIOUS
<1>7. r = First(StreamOf(Width[fmt]), n*group)
  BY <1>3, <1>4, <1>6 DEF AtPack
<1>8. n \in Nat /\ r' = First(StreamOf(Width[fmt]), n*(group + 1))
  <2>1. CASE fmt = "w88"
    <3>1. n = 24 /\ Width[fmt] = 6
      BY <1>1, <1>6, <2>1, Formats DEF PackedIn
    <3>2. First(StreamOf(6), 24*group) \o W1Bytes88(LoadedW1("w88", group)) = First(StreamOf(6), 24*(group + 1))
      BY <1>2, GroupOfBytes88
    <3> QED BY <1>5, <1>7, <2>1, <3>1, <3>2
  <2>2. CASE fmt = "w32"
    <3>1. n = 32 /\ Width[fmt] = 4 /\ fmt # "w88"
      BY <1>1, <1>6, <2>2, Formats DEF PackedIn
    <3>2. First(StreamOf(4), 32*group) \o W1Bytes32(LoadedW1("w32", group)) = First(StreamOf(4), 32*(group + 1))
      BY <1>2, GroupOfBytes32
    <3> QED BY <1>5, <1>7, <2>2, <3>1, <3>2
  <2> QED BY <1>1, <2>1, <2>2 DEF VectorW1
<1>9. n*(group + 1) \in Nat
  BY <1>2, <1>8, OneTurnMore
<1>10. AtPack(fmt', avx', group', r', bitbuf', bitcnt', n*(group + 1))
  BY <1>1, <1>4, <1>6, <1>8 DEF AtPack
<1>11. \E c \in Nat : AtPack(fmt', avx', group', r', bitbuf', bitcnt', c)
  BY <1>9, <1>10
<1>12. group + 1 \in Nat
  BY <1>2
<1> QED BY <1>1, <1>2, <1>11, <1>12 DEF BInv

LEMMA StreamStep == BInv /\ [PNext]_pvars => BInv'
<1> SUFFICES ASSUME BInv, [PNext]_pvars PROVE BInv'
  OBVIOUS
<1>1. CASE PackGroup
  BY <1>1, PackGroupStep
<1>2. CASE PackBuffered
  BY <1>2, PackBufferedStep
<1>3. CASE PackVectorW1
  BY <1>3, PackVectorW1Step
<1>4. CASE ToReader
  BY <1>4, ToReaderStep
<1>5. CASE UnpackGroup
  BY <1>5, UnpackGroupStep
<1>6. CASE UnpackBuffered
  BY <1>6, UnpackBufferedStep
<1>7. CASE UnpackVectorZ
  BY <1>7, UnpackVectorZStep
<1>8. CASE UNCHANGED pvars
  BY <1>8 DEF BInv, AtPack, AtUnpack, pvars
<1> QED BY <1>1, <1>2, <1>3, <1>4, <1>5, <1>6, <1>7, <1>8 DEF PNext

\* A byte of the stream, as OneBitStream writes it.
LEMMA StreamByte ==
    ASSUME NEW w, NEW j \in Nat \ {0}
    PROVE  StreamOf(w)[j] = {<<p, <<(8*(j-1) + p) \div w, (8*(j-1) + p) % w>>>> : p \in 0..7}
<1>1. StreamOf(w)[j] = Span(w, 8*(j-1), 0, 8)
  BY DEF StreamOf
<1>2. 0..8-1 = 0..7
  OBVIOUS
<1> QED BY <1>1, <1>2 DEF Span, Bit

LEMMA StreamSafe == BInv => OneBitStream /\ UnpacksWhatWasPacked
<1> SUFFICES ASSUME BInv PROVE OneBitStream /\ UnpacksWhatWasPacked
  OBVIOUS
<1>1. fmt \in DOMAIN Width /\ stage \in {"pack", "unpack", "done"} /\ Bytes(fmt) \in Nat /\ Coeffs \in Nat
  BY WholeBytes, PackingAssumption DEF BInv
<1>2. \E k \in Nat : r = First(StreamOf(Width[fmt]), k)
  <2>1. CASE stage = "pack"
    BY <2>1 DEF BInv, AtPack
  <2>2. CASE stage # "pack"
    BY <1>1, <2>2 DEF BInv, AllBytes
  <2> QED BY <2>1, <2>2
<1>3. OneBitStream
  <2>1. PICK k \in Nat : r = First(StreamOf(Width[fmt]), k)
    BY <1>2
  <2>2. Len(r) = k /\ \A j \in 1..k : r[j] = StreamOf(Width[fmt])[j]
    BY <2>1, FirstIs
  <2>3. \A j \in 1..k : j \in Nat \ {0}
    OBVIOUS
  <2> QED BY <2>2, <2>3, StreamByte DEF OneBitStream
<1>4. \E k \in Nat : coeffs = First(GivenAll(fmt), k)
  <2>1. CASE stage = "unpack"
    BY <2>1 DEF BInv, AtUnpack
  <2>2. CASE stage = "done" /\ fmt \notin VectorW1
    BY <1>1, <2>2 DEF BInv, AllCoefficients
  <2>3. CASE stage = "pack" \/ (stage = "done" /\ fmt \in VectorW1)
    <3>1. coeffs = <<>>
      BY <2>3 DEF BInv
    <3> QED BY <3>1, FirstNone
  <2> QED BY <1>1, <2>1, <2>2, <2>3
<1>5. \A c \in 1..Len(coeffs) : coeffs[c] = Given(fmt, c - 1)
  <2>1. PICK k \in Nat : coeffs = First(GivenAll(fmt), k)
    BY <1>4
  <2>2. Len(coeffs) = k /\ \A c \in 1..k : coeffs[c] = GivenAll(fmt)[c]
    BY <2>1, FirstIs
  <2>3. \A c \in 1..k : GivenAll(fmt)[c] = Given(fmt, c - 1)
    BY DEF GivenAll
  <2> QED BY <2>2, <2>3
<1>6. stage = "unpack" => reach <= Bytes(fmt) + 14
  BY <1>1 DEF BInv
<1>7. stage = "done" /\ fmt \notin VectorW1 => Len(coeffs) = Coeffs /\ reach <= Bytes(fmt) + 14
  <2> SUFFICES ASSUME stage = "done", fmt \notin VectorW1
               PROVE  Len(coeffs) = Coeffs /\ reach <= Bytes(fmt) + 14
    OBVIOUS
  <2>1. coeffs = First(GivenAll(fmt), Coeffs) /\ reach \in 0..Bytes(fmt)+14
    BY DEF BInv, AllCoefficients
  <2> QED BY <1>1, <2>1, FirstIs
<1> QED BY <1>3, <1>5, <1>6, <1>7 DEF UnpacksWhatWasPacked

\* Whatever the number of coefficients, every packer of ref/poly.c, the bit
\* buffer of ref/packing.c and the registers of avx2/poly.c's polyw1_pack make
\* one and the same stream of bits.
THEOREM OneStreamAlways == PSpec => []OneBitStream
<1>1. PInit => BInv
  BY StreamInit
<1>2. BInv /\ [PNext]_pvars => BInv'
  BY StreamStep
<1>3. BInv => OneBitStream
  BY StreamSafe
<1> QED BY <1>1, <1>2, <1>3, PTL DEF PSpec

\* What was packed comes back bit for bit from the tables of ref/poly.c, from
\* polytbar_unpack and from the loads, shuffles and shifts of avx2 polyz_unpack,
\* which never reach more than 14 bytes behind the polynomial.
THEOREM PackedComesBack == PSpec => []UnpacksWhatWasPacked
<1>1. PInit => BInv
  BY StreamInit
<1>2. BInv /\ [PNext]_pvars => BInv'
  BY StreamStep
<1>3. BInv => UnpacksWhatWasPacked
  BY StreamSafe
<1> QED BY <1>1, <1>2, <1>3, PTL DEF PSpec

(***************************************************************************)
(* Ntt.  Numbers are compared modulo Q.                                    *)
(***************************************************************************)
Differ(x, y, m) == x = y + 8380417*m
Congruent(x, y) == x \in Int /\ y \in Int /\ \E m \in Int : Differ(x, y, m)

LEMMA CongruentSame == ASSUME NEW x \in Int PROVE Congruent(x, x)
<1>1. Differ(x, x, 0)
  BY SMT DEF Differ
<1> QED BY <1>1 DEF Congruent

LEMMA CongruentBack == ASSUME NEW x, NEW y, Congruent(x, y) PROVE Congruent(y, x)
<1>1. PICK m \in Int : Differ(x, y, m)
  BY DEF Congruent
<1>2. x \in Int /\ y \in Int /\ -m \in Int
  BY DEF Congruent
<1>3. Differ(y, x, -m)
  BY <1>1, <1>2, SMT DEF Differ
<1> QED BY <1>2, <1>3 DEF Congruent

LEMMA CongruentOn ==
    ASSUME NEW x, NEW y, NEW z, Congruent(x, y), Congruent(y, z)
    PROVE  Congruent(x, z)
<1>1. PICK m \in Int : Differ(x, y, m)
  BY DEF Congruent
<1>2. PICK n \in Int : Differ(y, z, n)
  BY DEF Congruent
<1>3. x \in Int /\ y \in Int /\ z \in Int /\ m + n \in Int
  BY DEF Congruent
<1>4. Differ(x, z, m + n)
  BY <1>1, <1>2, <1>3, SMT DEF Differ
<1> QED BY <1>3, <1>4 DEF Congruent

LEMMA CongruentSum ==
    ASSUME NEW x, NEW y, NEW res, NEW v, Congruent(x, y), Congruent(res, v)
    PROVE  Congruent(x + res, y + v) /\ Congruent(x - res, y - v)
<1>1. PICK m \in Int : Differ(x, y, m)
  BY DEF Congruent
<1>2. PICK n \in Int : Differ(res, v, n)
  BY DEF Congruent
<1>3. x \in Int /\ y \in Int /\ res \in Int /\ v \in Int
  BY DEF Congruent
<1>4. Differ(x + res, y + v, m + n) /\ Differ(x - res, y - v, m - n)
  BY <1>1, <1>2, <1>3, SMT DEF Differ
<1>5. /\ x + res \in Int /\ y + v \in Int /\ x - res \in Int /\ y - v \in Int
      /\ m + n \in Int /\ m - n \in Int
  BY <1>3
<1> QED BY <1>4, <1>5 DEF Congruent

LEMMA CongruentTimesOne ==
    ASSUME NEW x, NEW y, NEW res \in Int, Congruent(x, y)
    PROVE  Congruent(x*res, y*res) /\ Congruent(res*x, res*y)
<1>1. PICK m \in Int : Differ(x, y, m)
  BY DEF Congruent
<1>2. x \in Int /\ y \in Int
  BY DEF Congruent
<1>3. Differ(x*res, y*res, m*res) /\ x*res = res*x /\ y*res = res*y
  BY <1>1, <1>2, SMT DEF Differ
<1>4. x*res \in Int /\ y*res \in Int /\ m*res \in Int
  BY <1>2, SMT
<1> QED BY <1>3, <1>4 DEF Congruent

LEMMA CongruentTimes ==
    ASSUME NEW x, NEW y, NEW res, NEW v, Congruent(x, y), Congruent(res, v)
    PROVE  Congruent(x*res, y*v)
<1>1. res \in Int /\ y \in Int
  BY DEF Congruent
<1>2. Congruent(x*res, y*res) /\ Congruent(y*res, y*v)
  BY <1>1, CongruentTimesOne
<1> QED BY <1>2, CongruentOn

LEMMA UpToLast == \A m \in Int : \A x : x \in 0..m <=> x \in Int /\ 0 <= x /\ x <= m
  OBVIOUS

\* A number in 0..Q-1.
BelowQ(x) == x < 8380417
Residue(x) == x \in Int /\ 0 <= x /\ BelowQ(x)

LEMMA QLess == Q - 1 \in Int /\ \A x \in Int : x <= Q - 1 <=> BelowQ(x)
  BY SMT DEF Q, BelowQ

LEMMA Residues == \A x : x \in 0..Q-1 <=> Residue(x)
  BY QLess, UpToLast, Zenon DEF Residue

LEMMA DivideByQ ==
    ASSUME NEW x \in Int
    PROVE  /\ x \div Q \in Int /\ -(x \div Q) \in Int /\ x % Q \in Int /\ Residue(x % Q)
           /\ Differ(x % Q, x, -(x \div Q))
<1>1. /\ x \div 8380417 \in Int /\ x % 8380417 \in Int
      /\ 0 <= x % 8380417 /\ x % 8380417 < 8380417
      /\ x = 8380417*(x \div 8380417) + (x % 8380417)
  BY SMT
<1>2. /\ x \div Q = x \div 8380417 /\ x % Q = x % 8380417
  BY SMT DEF Q
<1>3. PICK d, arr : d = x \div Q /\ arr = x % Q
  BY SMT
<1>4. d \in Int /\ arr \in Int /\ 0 <= arr /\ arr < 8380417 /\ x = 8380417*d + arr
  BY <1>1, <1>2, <1>3, SMT
<1>5. Residue(arr) /\ Differ(arr, x, -d) /\ d \in Int /\ -d \in Int /\ arr \in Int
  BY ONLY <1>4, SMT DEF Residue, BelowQ, Differ
<1> HIDE DEF Q
<1> QED BY ONLY <1>3, <1>5, SMT

LEMMA CongruentMod == ASSUME NEW x \in Int PROVE x % Q \in 0..Q-1 /\ Congruent(x % Q, x)
  BY DivideByQ, Residues, Zenon DEF Congruent

LEMMA CongruentEqual ==
    ASSUME NEW x \in 0..Q-1, NEW y \in 0..Q-1, Congruent(x, y)
    PROVE  x = y
<1>1. PICK m \in Int : Differ(x, y, m)
  BY Zenon DEF Congruent
<1>2. Residue(x) /\ Residue(y)
  BY Residues, Zenon
<1>3. ASSUME Differ(x, y, m), Residue(x), Residue(y) PROVE x = y
  BY ONLY m \in Int, <1>3, SMT DEF Differ, Residue, BelowQ
<1> QED BY <1>1, <1>2, <1>3, Zenon

LEMMA Pieces ==
    ASSUME NEW y \in Int, Residue(y)
    PROVE  /\ (y \div 65536) % 256 \in Int /\ (y \div 256) % 256 \in Int /\ (y \div 1) % 256 \in Int
           /\ y = 65536*((y \div 65536) % 256) + 256*((y \div 256) % 256) + ((y \div 1) % 256)
  BY SMT DEF Residue, BelowQ

\* The sum of the shifted pieces differs from that of the products by a
\* multiple of Q.
LEMMA PiecesDiffer ==
    ASSUME NEW x \in Int, NEW y2 \in Int, NEW y1 \in Int, NEW y0 \in Int,
           NEW p2 \in Int, NEW p1 \in Int, NEW p0 \in Int,
           NEW s \in Int, NEW t \in Int, NEW w \in Int,
           Congruent(p2, x*y2), Congruent(p1, x*y1), Congruent(p0, x*y0),
           Congruent(s, p2*256), Congruent(t, s + p1), Congruent(w, t*256)
    PROVE  Congruent(w + p0, ((x*y2)*256 + x*y1)*256 + x*y0)
<1>1. PICK c2, c1, c0 : c2 = x*y2 /\ c1 = x*y1 /\ c0 = x*y0
  OBVIOUS
<1>2. c2 \in Int /\ c1 \in Int /\ c0 \in Int
  BY <1>1 DEF Congruent
<1>3. Congruent(p2, c2) /\ Congruent(p1, c1) /\ Congruent(p0, c0)
  BY <1>1
<1>4. Congruent(s, c2*256)
  <2>1. Congruent(p2*256, c2*256)
    BY <1>3, 256 \in Int, CongruentTimesOne
  <2> QED BY <2>1, CongruentOn
<1>5. Congruent(t, c2*256 + c1)
  <2>1. Congruent(s + p1, c2*256 + c1)
    BY <1>3, <1>4, CongruentSum
  <2> QED BY <2>1, CongruentOn
<1>6. PICK c : c = c2*256 + c1
  OBVIOUS
<1>7. Congruent(t, c) /\ 256 \in Int
  BY <1>5, <1>6
<1>8. Congruent(t*256, c*256)
  BY ONLY <1>7, CongruentTimesOne
<1>9. Congruent(w, c*256)
  BY <1>8, CongruentOn
<1>10. Congruent(w + p0, c*256 + c0)
  BY ONLY <1>3, <1>9, CongruentSum, Zenon
<1> QED BY <1>1, <1>6, <1>10

\* The product in pieces is the product.
LEMMA TimesIs ==
    ASSUME NEW x \in 0..Q-1, NEW y \in 0..Q-1
    PROVE  Times(x, y) \in 0..Q-1 /\ Congruent(Times(x, y), x*y)
<1>0. Residue(x) /\ Residue(y)
  BY Residues, Zenon
<1>1. PICK y2, y1, y0 : y2 = (y \div 65536) % 256 /\ y1 = (y \div 256) % 256 /\ y0 = (y \div 1) % 256
  OBVIOUS
<1>2. y2 \in Int /\ y1 \in Int /\ y0 \in Int /\ y = 65536*y2 + 256*y1 + y0 /\ x \in Int /\ y \in Int
  <2>1. x \in Int /\ y \in Int
    BY <1>0, Zenon DEF Residue
  <2> QED BY <1>0, <1>1, <2>1, Pieces
<1>3. PICK p2, p1, p0 : p2 = (x*y2) % Q /\ p1 = (x*y1) % Q /\ p0 = (x*y0) % Q
  OBVIOUS
<1>4. x*y2 \in Int /\ x*y1 \in Int /\ x*y0 \in Int
  BY <1>2, SMT
<1>5. Congruent(p2, x*y2) /\ Congruent(p1, x*y1) /\ Congruent(p0, x*y0)
  BY <1>3, <1>4, CongruentMod
<1>6. p2 \in Int /\ p1 \in Int /\ p0 \in Int /\ p2*256 \in Int
  BY <1>5 DEF Congruent
<1>7. PICK s : s = (p2*256) % Q
  OBVIOUS
<1>8. s \in Int /\ Congruent(s, p2*256) /\ s + p1 \in Int
  BY <1>6, <1>7, CongruentMod DEF Congruent
<1>9. PICK t : t = (s + p1) % Q
  OBVIOUS
<1>10. t \in Int /\ Congruent(t, s + p1) /\ t*256 \in Int
  BY <1>8, <1>9, CongruentMod DEF Congruent
<1>11. PICK w : w = (t*256) % Q
  OBVIOUS
<1>12. w \in Int /\ Congruent(w, t*256) /\ w + p0 \in Int
  BY <1>6, <1>10, <1>11, CongruentMod DEF Congruent
<1>13. Times(x, y) = (w + p0) % Q
  BY <1>1, <1>3, <1>7, <1>9, <1>11 DEF Times
<1>14. (w + p0) % Q \in 0..Q-1 /\ Congruent((w + p0) % Q, w + p0)
  BY <1>12, CongruentMod
<1>15. Congruent(w + p0, ((x*y2)*256 + x*y1)*256 + x*y0)
  BY <1>2, <1>5, <1>6, <1>8, <1>10, <1>12, PiecesDiffer
<1>16. ((x*y2)*256 + x*y1)*256 + x*y0 = x*y
  BY <1>2, SMT
<1> QED BY <1>13, <1>14, <1>15, <1>16, CongruentOn

LEMMA ResidueInt == \A x \in 0..Q-1 : x \in Int
  BY Residues DEF Residue

LEMMA RootIs == ROOT_OF_UNITY \in 0..Q-1 /\ ROOT_OF_UNITY \in Int /\ 1 \in 0..Q-1
<1>1. Residue(ROOT_OF_UNITY) /\ Residue(1)
  BY SMT DEF ROOT_OF_UNITY, Residue, BelowQ
<1> QED BY <1>1, Residues DEF Residue

\* f[e] is the e-th power of the root for e < n.
RootPowers(f, n) ==
    /\ f \in [0..n-1 -> 0..Q-1] /\ f[0] = 1
    /\ \A e \in 0..n-1 : e + 1 \in 0..n-1 => Congruent(f[e+1], f[e]*ROOT_OF_UNITY)

LEMMA TwiceGrows ==
    ASSUME NEW n \in Nat \ {0}, NEW f, RootPowers(f, n)
    PROVE  RootPowers(Twice(f, n), 2*n)
<1> USE RootIs, ResidueInt
<1> DEFINE arr == ROOT_OF_UNITY
<1>1. PICK c : c = Times(f[n-1], arr)
  OBVIOUS
<1>2. f \in [0..n-1 -> 0..Q-1] /\ f[0] = 1 /\ \A e \in 0..n-1 : e + 1 \in 0..n-1 => Congruent(f[e+1], f[e]*arr)
  BY DEF RootPowers
<1> HIDE DEF arr
<1>3. arr \in Int /\ arr \in 0..Q-1
  BY DEF arr
<1>4. c \in 0..Q-1 /\ c \in Int /\ Congruent(c, f[n-1]*arr)
  <2>1. n - 1 \in 0..n-1
    OBVIOUS
  <2>2. f[n-1] \in 0..Q-1
    BY <1>2, <2>1
  <2> QED BY <1>1, <1>3, <2>2, TimesIs
<1>5. PICK h : h = Twice(f, n)
  OBVIOUS
<1>6. h = [e \in 0..2*n-1 |-> IF e < n THEN f[e] ELSE Times(f[e-n], c)]
  BY <1>1, <1>5 DEF Twice, arr
<1>7. \A e \in 0..2*n-1 : (e < n => e \in 0..n-1) /\ (~(e < n) => e - n \in 0..n-1)
  OBVIOUS
<1>8. \A e \in 0..2*n-1 : h[e] \in 0..Q-1
  <2> SUFFICES ASSUME NEW e \in 0..2*n-1 PROVE h[e] \in 0..Q-1
    OBVIOUS
  <2>1. CASE e < n
    BY <1>2, <1>6, <1>7, <2>1
  <2>2. CASE ~(e < n)
    <3>1. f[e-n] \in 0..Q-1
      BY <1>2, <1>7, <2>2
    <3> QED BY <1>4, <1>6, <2>2, <3>1, TimesIs
  <2> QED BY <2>1, <2>2
<1>9. h \in [0..2*n-1 -> 0..Q-1]
  BY <1>6, <1>8
<1>10. h[0] = 1
  <2>1. 0 \in 0..2*n-1 /\ 0 < n
    OBVIOUS
  <2> QED BY <1>2, <1>6, <2>1
<1>11. ASSUME NEW e \in 0..2*n-1, e + 1 \in 0..2*n-1 PROVE Congruent(h[e+1], h[e]*arr)
  <2>1. CASE e + 1 < n
    <3>1. e \in 0..n-1 /\ e + 1 \in 0..n-1 /\ e < n
      BY <2>1
    <3>2. h[e] = f[e] /\ h[e+1] = f[e+1]
      BY <1>6, <1>11, <2>1, <3>1
    <3> QED BY <1>2, <3>1, <3>2
  <2>2. CASE e + 1 = n
    <3>1. e < n /\ ~(e + 1 < n) /\ (e + 1) - n = 0 /\ e = n - 1
      BY <2>2
    <3>2. h[e] = f[n-1] /\ h[e+1] = Times(f[0], c)
      <4>1. h[e+1] = Times(f[(e+1)-n], c)
        BY <1>6, <1>11, <3>1
      <4>2. h[e] = f[e]
        BY <1>6, <3>1
      <4> QED BY <3>1, <4>1, <4>2
    <3>3. f[0] \in 0..Q-1 /\ f[0]*c = c
      BY <1>2, <1>4
    <3>4. Congruent(Times(f[0], c), c)
      BY <1>4, <3>3, TimesIs
    <3>5. Congruent(h[e+1], f[n-1]*arr)
      BY <1>4, <3>2, <3>4, CongruentOn
    <3> QED BY <3>2, <3>5
  <2>3. CASE n < e + 1
    <3>1. PICK d : d = e - n
      OBVIOUS
    <3>2. d \in 0..n-1 /\ d + 1 \in 0..n-1 /\ ~(e < n) /\ ~(e + 1 < n) /\ (e + 1) - n = d + 1
      BY <1>11, <2>3, <3>1
    <3>3. h[e] = Times(f[d], c) /\ h[e+1] = Times(f[d+1], c)
      <4>1. h[e+1] = Times(f[(e+1)-n], c)
        BY <1>6, <1>11, <3>2
      <4>2. h[e] = Times(f[e-n], c)
        BY <1>6, <3>2
      <4> QED BY <3>1, <3>2, <4>1, <4>2
    <3>4. PICK x, y : x = f[d] /\ y = f[d+1]
      OBVIOUS
    <3>5. x \in 0..Q-1 /\ y \in 0..Q-1 /\ Congruent(y, x*arr) /\ x \in Int
      BY <1>2, <3>2, <3>4
    <3>6. Congruent(h[e], x*c) /\ Congruent(h[e+1], y*c)
      BY <1>4, <3>3, <3>4, <3>5, TimesIs
    <3>7. Congruent(y*c, (x*arr)*c) /\ Congruent(h[e]*arr, (x*c)*arr)
      BY <1>3, <1>4, <3>5, <3>6, CongruentTimesOne
    <3>8. (x*arr)*c = (x*c)*arr
      BY <1>3, <1>4, <3>5, SMT
    <3>9. Congruent(h[e+1], (x*c)*arr) /\ Congruent((x*c)*arr, h[e]*arr)
      BY <3>6, <3>7, <3>8, CongruentOn, CongruentBack
    <3> QED BY <3>9, CongruentOn
  <2>4. e + 1 < n \/ e + 1 = n \/ n < e + 1
    OBVIOUS
  <2> QED BY <2>1, <2>2, <2>3, <2>4
<1> QED BY <1>5, <1>9, <1>10, <1>11 DEF RootPowers, arr

LEMMA PowersAre == RootPowers(Powers, 512)
<1>1. PICK f0 : f0 = [e \in 0..0 |-> 1]
  OBVIOUS
<1>2. RootPowers(f0, 1)
  <2>1. f0 \in [0..1-1 -> 0..Q-1] /\ f0[0] = 1
    BY <1>1, RootIs
  <2>2. \A e \in 0..1-1 : ~(e + 1 \in 0..1-1)
    OBVIOUS
  <2> QED BY <2>1, <2>2 DEF RootPowers
<1>3. PICK f1, f2, f3, f4 :
        f1 = Twice(f0, 1) /\ f2 = Twice(f1, 2) /\ f3 = Twice(f2, 4) /\ f4 = Twice(f3, 8)
  OBVIOUS
<1>4. PICK f5, f6, f7, f8, f9 :
        /\ f5 = Twice(f4, 16) /\ f6 = Twice(f5, 32) /\ f7 = Twice(f6, 64) /\ f8 = Twice(f7, 128)
        /\ f9 = Twice(f8, 256)
  OBVIOUS
<1>5. Powers = f9
  BY <1>1, <1>3, <1>4 DEF Powers
<1> HIDE DEF RootPowers
<1>6. RootPowers(f1, 2)
  <2>1. RootPowers(Twice(f0, 1), 2*1)
    BY <1>2, TwiceGrows
  <2> QED BY <1>3, <2>1
<1>7. RootPowers(f2, 4)
  <2>1. RootPowers(Twice(f1, 2), 2*2)
    BY <1>6, TwiceGrows
  <2> QED BY <1>3, <2>1
<1>8. RootPowers(f3, 8)
  <2>1. RootPowers(Twice(f2, 4), 2*4)
    BY <1>7, TwiceGrows
  <2> QED BY <1>3, <2>1
<1>9. RootPowers(f4, 16)
  <2>1. RootPowers(Twice(f3, 8), 2*8)
    BY <1>8, TwiceGrows
  <2> QED BY <1>3, <2>1
<1>10. RootPowers(f5, 32)
  <2>1. RootPowers(Twice(f4, 16), 2*16)
    BY <1>9, TwiceGrows
  <2> QED BY <1>4, <2>1
<1>11. RootPowers(f6, 64)
  <2>1. RootPowers(Twice(f5, 32), 2*32)
    BY <1>10, TwiceGrows
  <2> QED BY <1>4, <2>1
<1>12. RootPowers(f7, 128)
  <2>1. RootPowers(Twice(f6, 64), 2*64)
    BY <1>11, TwiceGrows
  <2> QED BY <1>4, <2>1
<1>13. RootPowers(f8, 256)
  <2>1. RootPowers(Twice(f7, 128), 2*128)
    BY <1>12, TwiceGrows
  <2> QED BY <1>4, <2>1
<1>14. RootPowers(f9, 512)
  <2>1. RootPowers(Twice(f8, 256), 2*256)
    BY <1>13, TwiceGrows
  <2> QED BY <1>4, <2>1
<1> QED BY <1>5, <1>14

\* A product of powers is the power of the sum.
LEMMA PowersMultiply ==
    ASSUME NEW f, NEW last \in Nat, RootPowers(f, last + 1)
    PROVE  \A m \in Nat : \A e \in Nat : e + m <= last => Congruent(f[e+m], f[e]*f[m])
<1> DEFINE Law(m) == \A e \in Nat : e + m <= last => Congruent(f[e+m], f[e]*f[m])
<1>1. PICK arr : arr = ROOT_OF_UNITY
  OBVIOUS
<1>2. /\ arr \in Int /\ f \in [0..last -> 0..Q-1] /\ f[0] = 1
      /\ \A e \in Nat : e + 1 <= last => Congruent(f[e+1], f[e]*arr)
  <2>1. (last + 1) - 1 = last
    OBVIOUS
  <2>2. /\ f \in [0..last -> 0..Q-1] /\ f[0] = 1
        /\ \A e \in 0..last : e + 1 \in 0..last => Congruent(f[e+1], f[e]*arr)
    BY <1>1, <2>1 DEF RootPowers
  <2>3. \A e \in Nat : e + 1 <= last => e \in 0..last /\ e + 1 \in 0..last
    OBVIOUS
  <2> QED BY <1>1, <2>2, <2>3, RootIs
<1>3. \A e \in Nat : e <= last => f[e] \in Int
  <2>1. \A e \in Nat : e <= last => e \in 0..last
    OBVIOUS
  <2> QED BY <1>2, <2>1, ResidueInt
<1>4. PICK S : S = {m \in Nat : Law(m)}
  OBVIOUS
<1>5. 0 \in S
  <2>1. ASSUME NEW e \in Nat, e + 0 <= last PROVE Congruent(f[e+0], f[e]*f[0])
    <3>1. e + 0 = e /\ f[e] \in Int
      BY <1>3, <2>1
    <3>2. f[e]*f[0] = f[e]
      BY <1>2, <3>1
    <3> QED BY <3>1, <3>2, CongruentSame
  <2> QED BY <1>4, <2>1
<1>6. ASSUME NEW m \in Nat, m \in S PROVE m + 1 \in S
  <2>1. ASSUME NEW e \in Nat, e + (m + 1) <= last PROVE Congruent(f[e+(m+1)], f[e]*f[m+1])
    <3>1. PICK d : d = e + m
      OBVIOUS
    <3>2. d \in Nat /\ d + 1 = e + (m + 1) /\ e + m <= last /\ d + 1 <= last /\ m + 1 <= last /\ e <= last /\ m <= last
      BY <2>1, <3>1
    <3>3. PICK x, y, z : x = f[e] /\ y = f[m] /\ z = f[m+1]
      OBVIOUS
    <3>4. x \in Int /\ y \in Int /\ z \in Int
      BY <1>3, <3>2, <3>3
    <3>5. Congruent(f[d], x*y)
      BY <1>4, <1>6, <3>1, <3>2, <3>3
    <3>6. Congruent(f[d+1], f[d]*arr) /\ Congruent(z, y*arr)
      BY <1>2, <3>2, <3>3
    <3>7. Congruent(f[d]*arr, (x*y)*arr) /\ Congruent(x*z, x*(y*arr))
      BY <1>2, <3>4, <3>5, <3>6, CongruentTimesOne
    <3>8. (x*y)*arr = x*(y*arr)
      BY <1>2, <3>4, SMT
    <3>9. Congruent(f[d+1], x*(y*arr)) /\ Congruent(x*(y*arr), x*z)
      BY <3>6, <3>7, <3>8, CongruentOn, CongruentBack
    <3>10. Congruent(f[d+1], x*z)
      BY <3>9, CongruentOn
    <3> QED BY <3>2, <3>3, <3>10
  <2> QED BY <1>4, <2>1
<1>7. Nat \subseteq S
  BY <1>5, <1>6, InductionOver
<1> QED BY <1>4, <1>7

\* ROOT_OF_UNITY^Reversed(e) modulo Q, at e + 1: the table of the code
\* without the factor 2^32.
Plain == <<
    1, 4808194, 3765607, 3761513, 5178923, 5496691, 5234739, 5178987, 7778734,
    3542485, 2682288, 2129892, 3764867, 7375178, 557458, 7159240, 5010068,
    4317364, 2663378, 6705802, 4855975, 7946292, 676590, 7044481, 5152541,
    1714295, 2453983, 1460718, 7737789, 4795319, 2815639, 2283733, 3602218,
    3182878, 2740543, 4793971, 5269599, 2101410, 3704823, 1159875, 394148,
    928749, 1095468, 4874037, 2071829, 4361428, 3241972, 2156050, 3415069,
    1759347, 7562881, 4805951, 3756790, 6444618, 6663429, 4430364, 5483103,
    3192354, 556856, 3870317, 2917338, 1853806, 3345963, 1858416, 3073009,
    1277625, 5744944, 3852015, 4183372, 5157610, 5258977, 8106357, 2508980,
    2028118, 1937570, 4564692, 2811291, 5396636, 7270901, 4158088, 1528066,
    482649, 1148858, 5418153, 7814814, 169688, 2462444, 5046034, 4213992,
    4892034, 1987814, 5183169, 1736313, 235407, 5130263, 3258457, 5801164,
    1787943, 5989328, 6125690, 3482206, 4197502, 7080401, 6018354, 7062739,
    2461387, 3035980, 621164, 3901472, 7153756, 2925816, 3374250, 1356448,
    5604662, 2683270, 5601629, 4912752, 2312838, 7727142, 7921254, 348812,
    8052569, 1011223, 6026202, 4561790, 6458164, 6143691, 1744507, 1753,
    6444997, 5720892, 6924527, 2660408, 6600190, 8321269, 2772600, 1182243,
    87208, 636927, 4415111, 4423672, 6084020, 5095502, 4663471, 8352605,
    822541, 1009365, 5926272, 6400920, 1596822, 4423473, 4620952, 6695264,
    4969849, 2678278, 4611469, 4829411, 635956, 8129971, 5925040, 4234153,
    6607829, 2192938, 6653329, 2387513, 4768667, 8111961, 5199961, 3747250,
    2296099, 1239911, 4541938, 3195676, 2642980, 1254190, 8368000, 2998219,
    141835, 8291116, 2513018, 7025525, 613238, 7070156, 6161950, 7921677,
    6458423, 4040196, 4908348, 2039144, 6500539, 7561656, 6201452, 6757063,
    2105286, 6006015, 6346610, 586241, 7200804, 527981, 5637006, 6903432,
    1994046, 2491325, 6987258, 507927, 7192532, 7655613, 6545891, 5346675,
    8041997, 2647994, 3009748, 5767564, 4148469, 749577, 4357667, 3980599,
    2569011, 6764887, 1723229, 1665318, 2028038, 1163598, 5011144, 3994671,
    8368538, 7009900, 3020393, 3363542, 214880, 545376, 7609976, 3105558,
    7277073, 508145, 7826699, 860144, 3430436, 140244, 6866265, 6195333,
    3123762, 2358373, 6187330, 5365997, 6663603, 2926054, 7987710, 8077412,
    3531229, 4405932, 4606686, 1900052, 7598542, 1054478, 7648983 >>

\* The entries of both tables at place e, and e - 1 reversed.
Row(e, p, z, x) == Plain[e] = p /\ zetas[e] = z /\ Reversed(e - 1) = x

Scaled(x, v, y) == (x*v) % 8380417 = y

\* Entry e of the second half of the first 2*n follows from entry e - n, and
\* is what the code's zeta is a multiple of.
FollowsFrom(e, n, h, v) ==
    /\ Reversed(e) = Reversed(e - n) + h
    /\ Plain[(e - n) + 1] \in Int /\ Residue(Plain[e+1])
    /\ Scaled(Plain[(e - n) + 1], v, Plain[e+1])
    /\ zetas[e+1] \in Int /\ Scaled(zetas[e+1], InverseOf32, Plain[e+1])

FollowsTo(m, n, h, v) == \A e \in n..m-1 : FollowsFrom(e, n, h, v)

LEMMA Rows1 ==
    /\ Row(1, 1, 0, 0) /\ Row(2, 4808194, 25847, 128)
    /\ Row(3, 3765607, -2608894, 64) /\ Row(4, 3761513, -518909, 192)
    /\ Row(5, 5178923, 237124, 32) /\ Row(6, 5496691, -777960, 160)
    /\ Row(7, 5234739, -876248, 96) /\ Row(8, 5178987, 466468, 224)
    /\ Row(9, 7778734, 1826347, 16) /\ Row(10, 3542485, 2353451, 144)
    /\ Row(11, 2682288, -359251, 80) /\ Row(12, 2129892, -2091905, 208)
    /\ Row(13, 3764867, 3119733, 48) /\ Row(14, 7375178, -2884855, 176)
    /\ Row(15, 557458, 3111497, 112) /\ Row(16, 7159240, 2680103, 240)
  BY SMT DEF Row, Plain, zetas, Reversed

LEMMA Rows17 ==
    /\ Row(17, 5010068, 2725464, 8) /\ Row(18, 4317364, 1024112, 136)
    /\ Row(19, 2663378, -1079900, 72) /\ Row(20, 6705802, 3585928, 200)
    /\ Row(21, 4855975, -549488, 40) /\ Row(22, 7946292, -1119584, 168)
    /\ Row(23, 676590, 2619752, 104) /\ Row(24, 7044481, -2108549, 232)
    /\ Row(25, 5152541, -2118186, 24) /\ Row(26, 1714295, -3859737, 152)
    /\ Row(27, 2453983, -1399561, 88) /\ Row(28, 1460718, -3277672, 216)
    /\ Row(29, 7737789, 1757237, 56) /\ Row(30, 4795319, -19422, 184)
    /\ Row(31, 2815639, 4010497, 120) /\ Row(32, 2283733, 280005, 248)
  BY SMT DEF Row, Plain, zetas, Reversed

LEMMA Rows33 ==
    /\ Row(33, 3602218, 2706023, 4) /\ Row(34, 3182878, 95776, 132)
    /\ Row(35, 2740543, 3077325, 68) /\ Row(36, 4793971, 3530437, 196)
    /\ Row(37, 5269599, -1661693, 36) /\ Row(38, 2101410, -3592148, 164)
    /\ Row(39, 3704823, -2537516, 100) /\ Row(40, 1159875, 3915439, 228)
    /\ Row(41, 394148, -3861115, 20) /\ Row(42, 928749, -3043716, 148)
    /\ Row(43, 1095468, 3574422, 84) /\ Row(44, 4874037, -2867647, 212)
    /\ Row(45, 2071829, 3539968, 52) /\ Row(46, 4361428, -300467, 180)
    /\ Row(47, 3241972, 2348700, 116) /\ Row(48, 2156050, -539299, 244)
  BY SMT DEF Row, Plain, zetas, Reversed

LEMMA Rows49 ==
    /\ Row(49, 3415069, -1699267, 12) /\ Row(50, 1759347, -1643818, 140)
    /\ Row(51, 7562881, 3505694, 76) /\ Row(52, 4805951, -3821735, 204)
    /\ Row(53, 3756790, 3507263, 44) /\ Row(54, 6444618, -2140649, 172)
    /\ Row(55, 6663429, -1600420, 108) /\ Row(56, 4430364, 3699596, 236)
    /\ Row(57, 5483103, 811944, 28) /\ Row(58, 3192354, 531354, 156)
    /\ Row(59, 556856, 954230, 92) /\ Row(60, 3870317, 3881043, 220)
    /\ Row(61, 2917338, 3900724, 60) /\ Row(62, 1853806, -2556880, 188)
    /\ Row(63, 3345963, 2071892, 124) /\ Row(64, 1858416, -2797779, 252)
  BY SMT DEF Row, Plain, zetas, Reversed

LEMMA Rows65 ==
    /\ Row(65, 3073009, -3930395, 2) /\ Row(66, 1277625, -1528703, 130)
    /\ Row(67, 5744944, -3677745, 66) /\ Row(68, 3852015, -3041255, 194)
    /\ Row(69, 4183372, -1452451, 34) /\ Row(70, 5157610, 3475950, 162)
    /\ Row(71, 5258977, 2176455, 98) /\ Row(72, 8106357, -1585221, 226)
    /\ Row(73, 2508980, -1257611, 18) /\ Row(74, 2028118, 1939314, 146)
    /\ Row(75, 1937570, -4083598, 82) /\ Row(76, 4564692, -1000202, 210)
    /\ Row(77, 2811291, -3190144, 50) /\ Row(78, 5396636, -3157330, 178)
    /\ Row(79, 7270901, -3632928, 114) /\ Row(80, 4158088, 126922, 242)
  BY SMT DEF Row, Plain, zetas, Reversed

LEMMA Rows81 ==
    /\ Row(81, 1528066, 3412210, 10) /\ Row(82, 482649, -983419, 138)
    /\ Row(83, 1148858, 2147896, 74) /\ Row(84, 5418153, 2715295, 202)
    /\ Row(85, 7814814, -2967645, 42) /\ Row(86, 169688, -3693493, 170)
    /\ Row(87, 2462444, -411027, 106) /\ Row(88, 5046034, -2477047, 234)
    /\ Row(89, 4213992, -671102, 26) /\ Row(90, 4892034, -1228525, 154)
    /\ Row(91, 1987814, -22981, 90) /\ Row(92, 5183169, -1308169, 218)
    /\ Row(93, 1736313, -381987, 58) /\ Row(94, 235407, 1349076, 186)
    /\ Row(95, 5130263, 1852771, 122) /\ Row(96, 3258457, -1430430, 250)
  BY SMT DEF Row, Plain, zetas, Reversed

LEMMA Rows97 ==
    /\ Row(97, 5801164, -3343383, 6) /\ Row(98, 1787943, 264944, 134)
    /\ Row(99, 5989328, 508951, 70) /\ Row(100, 6125690, 3097992, 198)
    /\ Row(101, 3482206, 44288, 38) /\ Row(102, 4197502, -1100098, 166)
    /\ Row(103, 7080401, 904516, 102) /\ Row(104, 6018354, 3958618, 230)
    /\ Row(105, 7062739, -3724342, 22) /\ Row(106, 2461387, -8578, 150)
    /\ Row(107, 3035980, 1653064, 86) /\ Row(108, 621164, -3249728, 214)
    /\ Row(109, 3901472, 2389356, 54) /\ Row(110, 7153756, -210977, 182)
    /\ Row(111, 2925816, 759969, 118) /\ Row(112, 3374250, -1316856, 246)
  BY SMT DEF Row, Plain, zetas, Reversed

LEMMA Rows113 ==
    /\ Row(113, 1356448, 189548, 14) /\ Row(114, 5604662, -3553272, 142)
    /\ Row(115, 2683270, 3159746, 78) /\ Row(116, 5601629, -1851402, 206)
    /\ Row(117, 4912752, -2409325, 46) /\ Row(118, 2312838, -177440, 174)
    /\ Row(119, 7727142, 1315589, 110) /\ Row(120, 7921254, 1341330, 238)
    /\ Row(121, 348812, 1285669, 30) /\ Row(122, 8052569, -1584928, 158)
    /\ Row(123, 1011223, -812732, 94) /\ Row(124, 6026202, -1439742, 222)
    /\ Row(125, 4561790, -3019102, 62) /\ Row(126, 6458164, -3881060, 190)
    /\ Row(127, 6143691, -3628969, 126) /\ Row(128, 1744507, 3839961, 254)
  BY SMT DEF Row, Plain, zetas, Reversed

LEMMA Rows129 ==
    /\ Row(129, 1753, 2091667, 1) /\ Row(130, 6444997, 3407706, 129)
    /\ Row(131, 5720892, 2316500, 65) /\ Row(132, 6924527, 3817976, 193)
    /\ Row(133, 2660408, -3342478, 33) /\ Row(134, 6600190, 2244091, 161)
    /\ Row(135, 8321269, -2446433, 97) /\ Row(136, 2772600, -3562462, 225)
    /\ Row(137, 1182243, 266997, 17) /\ Row(138, 87208, 2434439, 145)
    /\ Row(139, 636927, -1235728, 81) /\ Row(140, 4415111, 3513181, 209)
    /\ Row(141, 4423672, -3520352, 49) /\ Row(142, 6084020, -3759364, 177)
    /\ Row(143, 5095502, -1197226, 113) /\ Row(144, 4663471, -3193378, 241)
  BY SMT DEF Row, Plain, zetas, Reversed

LEMMA Rows145 ==
    /\ Row(145, 8352605, 900702, 9) /\ Row(146, 822541, 1859098, 137)
    /\ Row(147, 1009365, 909542, 73) /\ Row(148, 5926272, 819034, 201)
    /\ Row(149, 6400920, 495491, 41) /\ Row(150, 1596822, -1613174, 169)
    /\ Row(151, 4423473, -43260, 105) /\ Row(152, 4620952, -522500, 233)
    /\ Row(153, 6695264, -655327, 25) /\ Row(154, 4969849, -3122442, 153)
    /\ Row(155, 2678278, 2031748, 89) /\ Row(156, 4611469, 3207046, 217)
    /\ Row(157, 4829411, -3556995, 57) /\ Row(158, 635956, -525098, 185)
    /\ Row(159, 8129971, -768622, 121) /\ Row(160, 5925040, -3595838, 249)
  BY SMT DEF Row, Plain, zetas, Reversed

LEMMA Rows161 ==
    /\ Row(161, 4234153, 342297, 5) /\ Row(162, 6607829, 286988, 133)
    /\ Row(163, 2192938, -2437823, 69) /\ Row(164, 6653329, 4108315, 197)
    /\ Row(165, 2387513, 3437287, 37) /\ Row(166, 4768667, -3342277, 165)
    /\ Row(167, 8111961, 1735879, 101) /\ Row(168, 5199961, 203044, 229)
    /\ Row(169, 3747250, 2842341, 21) /\ Row(170, 2296099, 2691481, 149)
    /\ Row(171, 1239911, -2590150, 85) /\ Row(172, 4541938, 1265009, 213)
    /\ Row(173, 3195676, 4055324, 53) /\ Row(174, 2642980, 1247620, 181)
    /\ Row(175, 1254190, 2486353, 117) /\ Row(176, 8368000, 1595974, 245)
  BY SMT DEF Row, Plain, zetas, Reversed

LEMMA Rows177 ==
    /\ Row(177, 2998219, -3767016, 13) /\ Row(178, 141835, 1250494, 141)
    /\ Row(179, 8291116, 2635921, 77) /\ Row(180, 2513018, -3548272, 205)
    /\ Row(181, 7025525, -2994039, 45) /\ Row(182, 613238, 1869119, 173)
    /\ Row(183, 7070156, 1903435, 109) /\ Row(184, 6161950, -1050970, 237)
    /\ Row(185, 7921677, -1333058, 29) /\ Row(186, 6458423, 1237275, 157)
    /\ Row(187, 4040196, -3318210, 93) /\ Row(188, 4908348, -1430225, 221)
    /\ Row(189, 2039144, -451100, 61) /\ Row(190, 6500539, 1312455, 189)
    /\ Row(191, 7561656, 3306115, 125) /\ Row(192, 6201452, -1962642, 253)
  BY SMT DEF Row, Plain, zetas, Reversed

LEMMA Rows193 ==
    /\ Row(193, 6757063, -1279661, 3) /\ Row(194, 2105286, 1917081, 131)
    /\ Row(195, 6006015, -2546312, 67) /\ Row(196, 6346610, -1374803, 195)
    /\ Row(197, 586241, 1500165, 35) /\ Row(198, 7200804, 777191, 163)
    /\ Row(199, 527981, 2235880, 99) /\ Row(200, 5637006, 3406031, 227)
    /\ Row(201, 6903432, -542412, 19) /\ Row(202, 1994046, -2831860, 147)
    /\ Row(203, 2491325, -1671176, 83) /\ Row(204, 6987258, -1846953, 211)
    /\ Row(205, 507927, -2584293, 51) /\ Row(206, 7192532, -3724270, 179)
    /\ Row(207, 7655613, 594136, 115) /\ Row(208, 6545891, -3776993, 243)
  BY SMT DEF Row, Plain, zetas, Reversed

LEMMA Rows209 ==
    /\ Row(209, 5346675, -2013608, 11) /\ Row(210, 8041997, 2432395, 139)
    /\ Row(211, 2647994, 2454455, 75) /\ Row(212, 3009748, -164721, 203)
    /\ Row(213, 5767564, 1957272, 43) /\ Row(214, 4148469, 3369112, 171)
    /\ Row(215, 749577, 185531, 107) /\ Row(216, 4357667, -1207385, 235)
    /\ Row(217, 3980599, -3183426, 27) /\ Row(218, 2569011, 162844, 155)
    /\ Row(219, 6764887, 1616392, 91) /\ Row(220, 1723229, 3014001, 219)
    /\ Row(221, 1665318, 810149, 59) /\ Row(222, 2028038, 1652634, 187)
    /\ Row(223, 1163598, -3694233, 123) /\ Row(224, 5011144, -1799107, 251)
  BY SMT DEF Row, Plain, zetas, Reversed

LEMMA Rows225 ==
    /\ Row(225, 3994671, -3038916, 7) /\ Row(226, 8368538, 3523897, 135)
    /\ Row(227, 7009900, 3866901, 71) /\ Row(228, 3020393, 269760, 199)
    /\ Row(229, 3363542, 2213111, 39) /\ Row(230, 214880, -975884, 167)
    /\ Row(231, 545376, 1717735, 103) /\ Row(232, 7609976, 472078, 231)
    /\ Row(233, 3105558, -426683, 23) /\ Row(234, 7277073, 1723600, 151)
    /\ Row(235, 508145, -1803090, 87) /\ Row(236, 7826699, 1910376, 215)
    /\ Row(237, 860144, -1667432, 55) /\ Row(238, 3430436, -1104333, 183)
    /\ Row(239, 140244, -260646, 119) /\ Row(240, 6866265, -3833893, 247)
  BY SMT DEF Row, Plain, zetas, Reversed

LEMMA Rows241 ==
    /\ Row(241, 6195333, -2939036, 15) /\ Row(242, 3123762, -2235985, 143)
    /\ Row(243, 2358373, -420899, 79) /\ Row(244, 6187330, -2286327, 207)
    /\ Row(245, 5365997, 183443, 47) /\ Row(246, 6663603, -976891, 175)
    /\ Row(247, 2926054, 1612842, 111) /\ Row(248, 7987710, -3545687, 239)
    /\ Row(249, 8077412, -554416, 31) /\ Row(250, 3531229, 3919660, 159)
    /\ Row(251, 4405932, -48306, 95) /\ Row(252, 4606686, -1362209, 223)
    /\ Row(253, 1900052, 3937738, 63) /\ Row(254, 7598542, 1400424, 191)
    /\ Row(255, 1054478, -846154, 127) /\ Row(256, 7648983, 1976782, 255)
  BY SMT DEF Row, Plain, zetas, Reversed

LEMMA Follows1 == \A e \in 1..1 : FollowsFrom(e, 1, 128, 4808194)
<1>1. \A e \in 1..1 : FollowsFrom(e, 1, 128, 4808194)
  <2>1. /\ FollowsFrom(1, 1, 128, 4808194)
    BY Rows1, SMT DEF FollowsFrom, Scaled, InverseOf32, Row, Residue, BelowQ
  <2>2. \A e \in 1..1 : \/ e = 1
    OBVIOUS
  <2> QED BY ONLY <2>1, <2>2, SMT
<1> QED BY <1>1, SMT

LEMMA FollowsTo2 == FollowsTo(2, 1, 128, 4808194)
<1>1. 2 - 1 = 1
  BY SMT
<1> QED BY <1>1, Follows1 DEF FollowsTo

LEMMA Follows2 == \A e \in 2..3 : FollowsFrom(e, 2, 64, 3765607)
<1>1. \A e \in 2..3 : FollowsFrom(e, 2, 64, 3765607)
  <2>1. /\ FollowsFrom(2, 2, 64, 3765607) /\ FollowsFrom(3, 2, 64, 3765607)
    BY Rows1, SMT DEF FollowsFrom, Scaled, InverseOf32, Row, Residue, BelowQ
  <2>2. \A e \in 2..3 : \/ e = 2 \/ e = 3
    OBVIOUS
  <2> QED BY ONLY <2>1, <2>2, SMT
<1> QED BY <1>1, SMT

LEMMA FollowsTo4 == FollowsTo(4, 2, 64, 3765607)
<1>1. 4 - 1 = 3
  BY SMT
<1> QED BY <1>1, Follows2 DEF FollowsTo

LEMMA Follows4 == \A e \in 4..7 : FollowsFrom(e, 4, 32, 5178923)
<1>1. \A e \in 4..7 : FollowsFrom(e, 4, 32, 5178923)
  <2>1. /\ FollowsFrom(4, 4, 32, 5178923) /\ FollowsFrom(5, 4, 32, 5178923) /\ FollowsFrom(6, 4, 32, 5178923)
        /\ FollowsFrom(7, 4, 32, 5178923)
    BY Rows1, SMT DEF FollowsFrom, Scaled, InverseOf32, Row, Residue, BelowQ
  <2>2. \A e \in 4..7 : \/ e = 4 \/ e = 5 \/ e = 6 \/ e = 7
    OBVIOUS
  <2> QED BY ONLY <2>1, <2>2, SMT
<1> QED BY <1>1, SMT

LEMMA FollowsTo8 == FollowsTo(8, 4, 32, 5178923)
<1>1. 8 - 1 = 7
  BY SMT
<1> QED BY <1>1, Follows4 DEF FollowsTo

LEMMA Follows8 == \A e \in 8..15 : FollowsFrom(e, 8, 16, 7778734)
<1>1. \A e \in 8..15 : FollowsFrom(e, 8, 16, 7778734)
  <2>1. /\ FollowsFrom(8, 8, 16, 7778734) /\ FollowsFrom(9, 8, 16, 7778734) /\ FollowsFrom(10, 8, 16, 7778734)
        /\ FollowsFrom(11, 8, 16, 7778734) /\ FollowsFrom(12, 8, 16, 7778734) /\ FollowsFrom(13, 8, 16, 7778734)
        /\ FollowsFrom(14, 8, 16, 7778734) /\ FollowsFrom(15, 8, 16, 7778734)
    BY Rows1, SMT DEF FollowsFrom, Scaled, InverseOf32, Row, Residue, BelowQ
  <2>2. \A e \in 8..15 : \/ e = 8 \/ e = 9 \/ e = 10 \/ e = 11 \/ e = 12 \/ e = 13 \/ e = 14 \/ e = 15
    OBVIOUS
  <2> QED BY ONLY <2>1, <2>2, SMT
<1> QED BY <1>1, SMT

LEMMA FollowsTo16 == FollowsTo(16, 8, 16, 7778734)
<1>1. 16 - 1 = 15
  BY SMT
<1> QED BY <1>1, Follows8 DEF FollowsTo

LEMMA Follows16 == \A e \in 16..31 : FollowsFrom(e, 16, 8, 5010068)
<1>1. \A e \in 16..31 : FollowsFrom(e, 16, 8, 5010068)
  <2>1. /\ FollowsFrom(16, 16, 8, 5010068) /\ FollowsFrom(17, 16, 8, 5010068) /\ FollowsFrom(18, 16, 8, 5010068)
        /\ FollowsFrom(19, 16, 8, 5010068) /\ FollowsFrom(20, 16, 8, 5010068) /\ FollowsFrom(21, 16, 8, 5010068)
        /\ FollowsFrom(22, 16, 8, 5010068) /\ FollowsFrom(23, 16, 8, 5010068) /\ FollowsFrom(24, 16, 8, 5010068)
        /\ FollowsFrom(25, 16, 8, 5010068) /\ FollowsFrom(26, 16, 8, 5010068) /\ FollowsFrom(27, 16, 8, 5010068)
        /\ FollowsFrom(28, 16, 8, 5010068) /\ FollowsFrom(29, 16, 8, 5010068) /\ FollowsFrom(30, 16, 8, 5010068)
        /\ FollowsFrom(31, 16, 8, 5010068)
    BY Rows1, Rows17, SMT DEF FollowsFrom, Scaled, InverseOf32, Row, Residue, BelowQ
  <2>2. \A e \in 16..31 : \/ e = 16 \/ e = 17 \/ e = 18 \/ e = 19 \/ e = 20 \/ e = 21 \/ e = 22 \/ e = 23
          \/ e = 24 \/ e = 25 \/ e = 26 \/ e = 27 \/ e = 28 \/ e = 29 \/ e = 30 \/ e = 31
    OBVIOUS
  <2> QED BY ONLY <2>1, <2>2, SMT
<1> QED BY <1>1, SMT

LEMMA FollowsTo32 == FollowsTo(32, 16, 8, 5010068)
<1>1. 32 - 1 = 31
  BY SMT
<1> QED BY <1>1, Follows16 DEF FollowsTo

LEMMA Follows32 == \A e \in 32..63 : FollowsFrom(e, 32, 4, 3602218)
<1>1. \A e \in 32..47 : FollowsFrom(e, 32, 4, 3602218)
  <2>1. /\ FollowsFrom(32, 32, 4, 3602218) /\ FollowsFrom(33, 32, 4, 3602218) /\ FollowsFrom(34, 32, 4, 3602218)
        /\ FollowsFrom(35, 32, 4, 3602218) /\ FollowsFrom(36, 32, 4, 3602218) /\ FollowsFrom(37, 32, 4, 3602218)
        /\ FollowsFrom(38, 32, 4, 3602218) /\ FollowsFrom(39, 32, 4, 3602218) /\ FollowsFrom(40, 32, 4, 3602218)
        /\ FollowsFrom(41, 32, 4, 3602218) /\ FollowsFrom(42, 32, 4, 3602218) /\ FollowsFrom(43, 32, 4, 3602218)
        /\ FollowsFrom(44, 32, 4, 3602218) /\ FollowsFrom(45, 32, 4, 3602218) /\ FollowsFrom(46, 32, 4, 3602218)
        /\ FollowsFrom(47, 32, 4, 3602218)
    BY Rows1, Rows33, SMT DEF FollowsFrom, Scaled, InverseOf32, Row, Residue, BelowQ
  <2>2. \A e \in 32..47 : \/ e = 32 \/ e = 33 \/ e = 34 \/ e = 35 \/ e = 36 \/ e = 37 \/ e = 38 \/ e = 39
          \/ e = 40 \/ e = 41 \/ e = 42 \/ e = 43 \/ e = 44 \/ e = 45 \/ e = 46 \/ e = 47
    OBVIOUS
  <2> QED BY ONLY <2>1, <2>2, SMT
<1>2. \A e \in 48..63 : FollowsFrom(e, 32, 4, 3602218)
  <2>1. /\ FollowsFrom(48, 32, 4, 3602218) /\ FollowsFrom(49, 32, 4, 3602218) /\ FollowsFrom(50, 32, 4, 3602218)
        /\ FollowsFrom(51, 32, 4, 3602218) /\ FollowsFrom(52, 32, 4, 3602218) /\ FollowsFrom(53, 32, 4, 3602218)
        /\ FollowsFrom(54, 32, 4, 3602218) /\ FollowsFrom(55, 32, 4, 3602218) /\ FollowsFrom(56, 32, 4, 3602218)
        /\ FollowsFrom(57, 32, 4, 3602218) /\ FollowsFrom(58, 32, 4, 3602218) /\ FollowsFrom(59, 32, 4, 3602218)
        /\ FollowsFrom(60, 32, 4, 3602218) /\ FollowsFrom(61, 32, 4, 3602218) /\ FollowsFrom(62, 32, 4, 3602218)
        /\ FollowsFrom(63, 32, 4, 3602218)
    BY Rows17, Rows49, SMT DEF FollowsFrom, Scaled, InverseOf32, Row, Residue, BelowQ
  <2>2. \A e \in 48..63 : \/ e = 48 \/ e = 49 \/ e = 50 \/ e = 51 \/ e = 52 \/ e = 53 \/ e = 54 \/ e = 55
          \/ e = 56 \/ e = 57 \/ e = 58 \/ e = 59 \/ e = 60 \/ e = 61 \/ e = 62 \/ e = 63
    OBVIOUS
  <2> QED BY ONLY <2>1, <2>2, SMT
<1> QED BY <1>1, <1>2, SMT

LEMMA FollowsTo64 == FollowsTo(64, 32, 4, 3602218)
<1>1. 64 - 1 = 63
  BY SMT
<1> QED BY <1>1, Follows32 DEF FollowsTo

LEMMA Follows64 == \A e \in 64..127 : FollowsFrom(e, 64, 2, 3073009)
<1>1. \A e \in 64..79 : FollowsFrom(e, 64, 2, 3073009)
  <2>1. /\ FollowsFrom(64, 64, 2, 3073009) /\ FollowsFrom(65, 64, 2, 3073009) /\ FollowsFrom(66, 64, 2, 3073009)
        /\ FollowsFrom(67, 64, 2, 3073009) /\ FollowsFrom(68, 64, 2, 3073009) /\ FollowsFrom(69, 64, 2, 3073009)
        /\ FollowsFrom(70, 64, 2, 3073009) /\ FollowsFrom(71, 64, 2, 3073009) /\ FollowsFrom(72, 64, 2, 3073009)
        /\ FollowsFrom(73, 64, 2, 3073009) /\ FollowsFrom(74, 64, 2, 3073009) /\ FollowsFrom(75, 64, 2, 3073009)
        /\ FollowsFrom(76, 64, 2, 3073009) /\ FollowsFrom(77, 64, 2, 3073009) /\ FollowsFrom(78, 64, 2, 3073009)
        /\ FollowsFrom(79, 64, 2, 3073009)
    BY Rows1, Rows65, SMT DEF FollowsFrom, Scaled, InverseOf32, Row, Residue, BelowQ
  <2>2. \A e \in 64..79 : \/ e = 64 \/ e = 65 \/ e = 66 \/ e = 67 \/ e = 68 \/ e = 69 \/ e = 70 \/ e = 71
          \/ e = 72 \/ e = 73 \/ e = 74 \/ e = 75 \/ e = 76 \/ e = 77 \/ e = 78 \/ e = 79
    OBVIOUS
  <2> QED BY ONLY <2>1, <2>2, SMT
<1>2. \A e \in 80..95 : FollowsFrom(e, 64, 2, 3073009)
  <2>1. /\ FollowsFrom(80, 64, 2, 3073009) /\ FollowsFrom(81, 64, 2, 3073009) /\ FollowsFrom(82, 64, 2, 3073009)
        /\ FollowsFrom(83, 64, 2, 3073009) /\ FollowsFrom(84, 64, 2, 3073009) /\ FollowsFrom(85, 64, 2, 3073009)
        /\ FollowsFrom(86, 64, 2, 3073009) /\ FollowsFrom(87, 64, 2, 3073009) /\ FollowsFrom(88, 64, 2, 3073009)
        /\ FollowsFrom(89, 64, 2, 3073009) /\ FollowsFrom(90, 64, 2, 3073009) /\ FollowsFrom(91, 64, 2, 3073009)
        /\ FollowsFrom(92, 64, 2, 3073009) /\ FollowsFrom(93, 64, 2, 3073009) /\ FollowsFrom(94, 64, 2, 3073009)
        /\ FollowsFrom(95, 64, 2, 3073009)
    BY Rows17, Rows81, SMT DEF FollowsFrom, Scaled, InverseOf32, Row, Residue, BelowQ
  <2>2. \A e \in 80..95 : \/ e = 80 \/ e = 81 \/ e = 82 \/ e = 83 \/ e = 84 \/ e = 85 \/ e = 86 \/ e = 87
          \/ e = 88 \/ e = 89 \/ e = 90 \/ e = 91 \/ e = 92 \/ e = 93 \/ e = 94 \/ e = 95
    OBVIOUS
  <2> QED BY ONLY <2>1, <2>2, SMT
<1>3. \A e \in 96..111 : FollowsFrom(e, 64, 2, 3073009)
  <2>1. /\ FollowsFrom(96, 64, 2, 3073009) /\ FollowsFrom(97, 64, 2, 3073009) /\ FollowsFrom(98, 64, 2, 3073009)
        /\ FollowsFrom(99, 64, 2, 3073009) /\ FollowsFrom(100, 64, 2, 3073009) /\ FollowsFrom(101, 64, 2, 3073009)
        /\ FollowsFrom(102, 64, 2, 3073009) /\ FollowsFrom(103, 64, 2, 3073009) /\ FollowsFrom(104, 64, 2, 3073009)
        /\ FollowsFrom(105, 64, 2, 3073009) /\ FollowsFrom(106, 64, 2, 3073009) /\ FollowsFrom(107, 64, 2, 3073009)
        /\ FollowsFrom(108, 64, 2, 3073009) /\ FollowsFrom(109, 64, 2, 3073009) /\ FollowsFrom(110, 64, 2, 3073009)
        /\ FollowsFrom(111, 64, 2, 3073009)
    BY Rows33, Rows97, SMT DEF FollowsFrom, Scaled, InverseOf32, Row, Residue, BelowQ
  <2>2. \A e \in 96..111 : \/ e = 96 \/ e = 97 \/ e = 98 \/ e = 99 \/ e = 100 \/ e = 101 \/ e = 102 \/ e = 103
          \/ e = 104 \/ e = 105 \/ e = 106 \/ e = 107 \/ e = 108 \/ e = 109 \/ e = 110 \/ e = 111
    OBVIOUS
  <2> QED BY ONLY <2>1, <2>2, SMT
<1>4. \A e \in 112..127 : FollowsFrom(e, 64, 2, 3073009)
  <2>1. /\ FollowsFrom(112, 64, 2, 3073009) /\ FollowsFrom(113, 64, 2, 3073009) /\ FollowsFrom(114, 64, 2, 3073009)
        /\ FollowsFrom(115, 64, 2, 3073009) /\ FollowsFrom(116, 64, 2, 3073009) /\ FollowsFrom(117, 64, 2, 3073009)
        /\ FollowsFrom(118, 64, 2, 3073009) /\ FollowsFrom(119, 64, 2, 3073009) /\ FollowsFrom(120, 64, 2, 3073009)
        /\ FollowsFrom(121, 64, 2, 3073009) /\ FollowsFrom(122, 64, 2, 3073009) /\ FollowsFrom(123, 64, 2, 3073009)
        /\ FollowsFrom(124, 64, 2, 3073009) /\ FollowsFrom(125, 64, 2, 3073009) /\ FollowsFrom(126, 64, 2, 3073009)
        /\ FollowsFrom(127, 64, 2, 3073009)
    BY Rows113, Rows49, SMT DEF FollowsFrom, Scaled, InverseOf32, Row, Residue, BelowQ
  <2>2. \A e \in 112..127 : \/ e = 112 \/ e = 113 \/ e = 114 \/ e = 115 \/ e = 116 \/ e = 117 \/ e = 118 \/ e = 119
          \/ e = 120 \/ e = 121 \/ e = 122 \/ e = 123 \/ e = 124 \/ e = 125 \/ e = 126 \/ e = 127
    OBVIOUS
  <2> QED BY ONLY <2>1, <2>2, SMT
<1> QED BY <1>1, <1>2, <1>3, <1>4, SMT

LEMMA FollowsTo128 == FollowsTo(128, 64, 2, 3073009)
<1>1. 128 - 1 = 127
  BY SMT
<1> QED BY <1>1, Follows64 DEF FollowsTo

LEMMA Follows128 == \A e \in 128..255 : FollowsFrom(e, 128, 1, 1753)
<1>1. \A e \in 128..143 : FollowsFrom(e, 128, 1, 1753)
  <2>1. /\ FollowsFrom(128, 128, 1, 1753) /\ FollowsFrom(129, 128, 1, 1753) /\ FollowsFrom(130, 128, 1, 1753)
        /\ FollowsFrom(131, 128, 1, 1753) /\ FollowsFrom(132, 128, 1, 1753) /\ FollowsFrom(133, 128, 1, 1753)
        /\ FollowsFrom(134, 128, 1, 1753) /\ FollowsFrom(135, 128, 1, 1753) /\ FollowsFrom(136, 128, 1, 1753)
        /\ FollowsFrom(137, 128, 1, 1753) /\ FollowsFrom(138, 128, 1, 1753) /\ FollowsFrom(139, 128, 1, 1753)
        /\ FollowsFrom(140, 128, 1, 1753) /\ FollowsFrom(141, 128, 1, 1753) /\ FollowsFrom(142, 128, 1, 1753)
        /\ FollowsFrom(143, 128, 1, 1753)
    BY Rows1, Rows129, SMT DEF FollowsFrom, Scaled, InverseOf32, Row, Residue, BelowQ
  <2>2. \A e \in 128..143 : \/ e = 128 \/ e = 129 \/ e = 130 \/ e = 131 \/ e = 132 \/ e = 133 \/ e = 134 \/ e = 135
          \/ e = 136 \/ e = 137 \/ e = 138 \/ e = 139 \/ e = 140 \/ e = 141 \/ e = 142 \/ e = 143
    OBVIOUS
  <2> QED BY ONLY <2>1, <2>2, SMT
<1>2. \A e \in 144..159 : FollowsFrom(e, 128, 1, 1753)
  <2>1. /\ FollowsFrom(144, 128, 1, 1753) /\ FollowsFrom(145, 128, 1, 1753) /\ FollowsFrom(146, 128, 1, 1753)
        /\ FollowsFrom(147, 128, 1, 1753) /\ FollowsFrom(148, 128, 1, 1753) /\ FollowsFrom(149, 128, 1, 1753)
        /\ FollowsFrom(150, 128, 1, 1753) /\ FollowsFrom(151, 128, 1, 1753) /\ FollowsFrom(152, 128, 1, 1753)
        /\ FollowsFrom(153, 128, 1, 1753) /\ FollowsFrom(154, 128, 1, 1753) /\ FollowsFrom(155, 128, 1, 1753)
        /\ FollowsFrom(156, 128, 1, 1753) /\ FollowsFrom(157, 128, 1, 1753) /\ FollowsFrom(158, 128, 1, 1753)
        /\ FollowsFrom(159, 128, 1, 1753)
    BY Rows145, Rows17, SMT DEF FollowsFrom, Scaled, InverseOf32, Row, Residue, BelowQ
  <2>2. \A e \in 144..159 : \/ e = 144 \/ e = 145 \/ e = 146 \/ e = 147 \/ e = 148 \/ e = 149 \/ e = 150 \/ e = 151
          \/ e = 152 \/ e = 153 \/ e = 154 \/ e = 155 \/ e = 156 \/ e = 157 \/ e = 158 \/ e = 159
    OBVIOUS
  <2> QED BY ONLY <2>1, <2>2, SMT
<1>3. \A e \in 160..175 : FollowsFrom(e, 128, 1, 1753)
  <2>1. /\ FollowsFrom(160, 128, 1, 1753) /\ FollowsFrom(161, 128, 1, 1753) /\ FollowsFrom(162, 128, 1, 1753)
        /\ FollowsFrom(163, 128, 1, 1753) /\ FollowsFrom(164, 128, 1, 1753) /\ FollowsFrom(165, 128, 1, 1753)
        /\ FollowsFrom(166, 128, 1, 1753) /\ FollowsFrom(167, 128, 1, 1753) /\ FollowsFrom(168, 128, 1, 1753)
        /\ FollowsFrom(169, 128, 1, 1753) /\ FollowsFrom(170, 128, 1, 1753) /\ FollowsFrom(171, 128, 1, 1753)
        /\ FollowsFrom(172, 128, 1, 1753) /\ FollowsFrom(173, 128, 1, 1753) /\ FollowsFrom(174, 128, 1, 1753)
        /\ FollowsFrom(175, 128, 1, 1753)
    BY Rows161, Rows33, SMT DEF FollowsFrom, Scaled, InverseOf32, Row, Residue, BelowQ
  <2>2. \A e \in 160..175 : \/ e = 160 \/ e = 161 \/ e = 162 \/ e = 163 \/ e = 164 \/ e = 165 \/ e = 166 \/ e = 167
          \/ e = 168 \/ e = 169 \/ e = 170 \/ e = 171 \/ e = 172 \/ e = 173 \/ e = 174 \/ e = 175
    OBVIOUS
  <2> QED BY ONLY <2>1, <2>2, SMT
<1>4. \A e \in 176..191 : FollowsFrom(e, 128, 1, 1753)
  <2>1. /\ FollowsFrom(176, 128, 1, 1753) /\ FollowsFrom(177, 128, 1, 1753) /\ FollowsFrom(178, 128, 1, 1753)
        /\ FollowsFrom(179, 128, 1, 1753) /\ FollowsFrom(180, 128, 1, 1753) /\ FollowsFrom(181, 128, 1, 1753)
        /\ FollowsFrom(182, 128, 1, 1753) /\ FollowsFrom(183, 128, 1, 1753) /\ FollowsFrom(184, 128, 1, 1753)
        /\ FollowsFrom(185, 128, 1, 1753) /\ FollowsFrom(186, 128, 1, 1753) /\ FollowsFrom(187, 128, 1, 1753)
        /\ FollowsFrom(188, 128, 1, 1753) /\ FollowsFrom(189, 128, 1, 1753) /\ FollowsFrom(190, 128, 1, 1753)
        /\ FollowsFrom(191, 128, 1, 1753)
    BY Rows177, Rows49, SMT DEF FollowsFrom, Scaled, InverseOf32, Row, Residue, BelowQ
  <2>2. \A e \in 176..191 : \/ e = 176 \/ e = 177 \/ e = 178 \/ e = 179 \/ e = 180 \/ e = 181 \/ e = 182 \/ e = 183
          \/ e = 184 \/ e = 185 \/ e = 186 \/ e = 187 \/ e = 188 \/ e = 189 \/ e = 190 \/ e = 191
    OBVIOUS
  <2> QED BY ONLY <2>1, <2>2, SMT
<1>5. \A e \in 192..207 : FollowsFrom(e, 128, 1, 1753)
  <2>1. /\ FollowsFrom(192, 128, 1, 1753) /\ FollowsFrom(193, 128, 1, 1753) /\ FollowsFrom(194, 128, 1, 1753)
        /\ FollowsFrom(195, 128, 1, 1753) /\ FollowsFrom(196, 128, 1, 1753) /\ FollowsFrom(197, 128, 1, 1753)
        /\ FollowsFrom(198, 128, 1, 1753) /\ FollowsFrom(199, 128, 1, 1753) /\ FollowsFrom(200, 128, 1, 1753)
        /\ FollowsFrom(201, 128, 1, 1753) /\ FollowsFrom(202, 128, 1, 1753) /\ FollowsFrom(203, 128, 1, 1753)
        /\ FollowsFrom(204, 128, 1, 1753) /\ FollowsFrom(205, 128, 1, 1753) /\ FollowsFrom(206, 128, 1, 1753)
        /\ FollowsFrom(207, 128, 1, 1753)
    BY Rows193, Rows65, SMT DEF FollowsFrom, Scaled, InverseOf32, Row, Residue, BelowQ
  <2>2. \A e \in 192..207 : \/ e = 192 \/ e = 193 \/ e = 194 \/ e = 195 \/ e = 196 \/ e = 197 \/ e = 198 \/ e = 199
          \/ e = 200 \/ e = 201 \/ e = 202 \/ e = 203 \/ e = 204 \/ e = 205 \/ e = 206 \/ e = 207
    OBVIOUS
  <2> QED BY ONLY <2>1, <2>2, SMT
<1>6. \A e \in 208..223 : FollowsFrom(e, 128, 1, 1753)
  <2>1. /\ FollowsFrom(208, 128, 1, 1753) /\ FollowsFrom(209, 128, 1, 1753) /\ FollowsFrom(210, 128, 1, 1753)
        /\ FollowsFrom(211, 128, 1, 1753) /\ FollowsFrom(212, 128, 1, 1753) /\ FollowsFrom(213, 128, 1, 1753)
        /\ FollowsFrom(214, 128, 1, 1753) /\ FollowsFrom(215, 128, 1, 1753) /\ FollowsFrom(216, 128, 1, 1753)
        /\ FollowsFrom(217, 128, 1, 1753) /\ FollowsFrom(218, 128, 1, 1753) /\ FollowsFrom(219, 128, 1, 1753)
        /\ FollowsFrom(220, 128, 1, 1753) /\ FollowsFrom(221, 128, 1, 1753) /\ FollowsFrom(222, 128, 1, 1753)
        /\ FollowsFrom(223, 128, 1, 1753)
    BY Rows209, Rows81, SMT DEF FollowsFrom, Scaled, InverseOf32, Row, Residue, BelowQ
  <2>2. \A e \in 208..223 : \/ e = 208 \/ e = 209 \/ e = 210 \/ e = 211 \/ e = 212 \/ e = 213 \/ e = 214 \/ e = 215
          \/ e = 216 \/ e = 217 \/ e = 218 \/ e = 219 \/ e = 220 \/ e = 221 \/ e = 222 \/ e = 223
    OBVIOUS
  <2> QED BY ONLY <2>1, <2>2, SMT
<1>7. \A e \in 224..239 : FollowsFrom(e, 128, 1, 1753)
  <2>1. /\ FollowsFrom(224, 128, 1, 1753) /\ FollowsFrom(225, 128, 1, 1753) /\ FollowsFrom(226, 128, 1, 1753)
        /\ FollowsFrom(227, 128, 1, 1753) /\ FollowsFrom(228, 128, 1, 1753) /\ FollowsFrom(229, 128, 1, 1753)
        /\ FollowsFrom(230, 128, 1, 1753) /\ FollowsFrom(231, 128, 1, 1753) /\ FollowsFrom(232, 128, 1, 1753)
        /\ FollowsFrom(233, 128, 1, 1753) /\ FollowsFrom(234, 128, 1, 1753) /\ FollowsFrom(235, 128, 1, 1753)
        /\ FollowsFrom(236, 128, 1, 1753) /\ FollowsFrom(237, 128, 1, 1753) /\ FollowsFrom(238, 128, 1, 1753)
        /\ FollowsFrom(239, 128, 1, 1753)
    BY Rows225, Rows97, SMT DEF FollowsFrom, Scaled, InverseOf32, Row, Residue, BelowQ
  <2>2. \A e \in 224..239 : \/ e = 224 \/ e = 225 \/ e = 226 \/ e = 227 \/ e = 228 \/ e = 229 \/ e = 230 \/ e = 231
          \/ e = 232 \/ e = 233 \/ e = 234 \/ e = 235 \/ e = 236 \/ e = 237 \/ e = 238 \/ e = 239
    OBVIOUS
  <2> QED BY ONLY <2>1, <2>2, SMT
<1>8. \A e \in 240..255 : FollowsFrom(e, 128, 1, 1753)
  <2>1. /\ FollowsFrom(240, 128, 1, 1753) /\ FollowsFrom(241, 128, 1, 1753) /\ FollowsFrom(242, 128, 1, 1753)
        /\ FollowsFrom(243, 128, 1, 1753) /\ FollowsFrom(244, 128, 1, 1753) /\ FollowsFrom(245, 128, 1, 1753)
        /\ FollowsFrom(246, 128, 1, 1753) /\ FollowsFrom(247, 128, 1, 1753) /\ FollowsFrom(248, 128, 1, 1753)
        /\ FollowsFrom(249, 128, 1, 1753) /\ FollowsFrom(250, 128, 1, 1753) /\ FollowsFrom(251, 128, 1, 1753)
        /\ FollowsFrom(252, 128, 1, 1753) /\ FollowsFrom(253, 128, 1, 1753) /\ FollowsFrom(254, 128, 1, 1753)
        /\ FollowsFrom(255, 128, 1, 1753)
    BY Rows113, Rows241, SMT DEF FollowsFrom, Scaled, InverseOf32, Row, Residue, BelowQ
  <2>2. \A e \in 240..255 : \/ e = 240 \/ e = 241 \/ e = 242 \/ e = 243 \/ e = 244 \/ e = 245 \/ e = 246 \/ e = 247
          \/ e = 248 \/ e = 249 \/ e = 250 \/ e = 251 \/ e = 252 \/ e = 253 \/ e = 254 \/ e = 255
    OBVIOUS
  <2> QED BY ONLY <2>1, <2>2, SMT
<1> QED BY <1>1, <1>2, <1>3, <1>4, <1>5, <1>6, <1>7, <1>8, SMT

LEMMA FollowsTo256 == FollowsTo(256, 128, 1, 1753)
<1>1. 256 - 1 = 255
  BY SMT
<1> QED BY <1>1, Follows128 DEF FollowsTo

TopPower == 511
PowersLaw ==
    /\ Powers \in [0..TopPower -> 0..Q-1] /\ Powers[0] = 1
    /\ \A d, e \in Nat : d + e <= TopPower => Congruent(Powers[d+e], Powers[d]*Powers[e])
    /\ Congruent(Powers[1], ROOT_OF_UNITY)

LEMMA TopIs == TopPower \in Nat /\ TopPower + 1 = 512 /\ \A e \in Int : e <= 511 <=> e <= TopPower
  BY SMT DEF TopPower

LEMMA PowersLawHolds == PowersLaw
<1>1. TopPower \in Nat /\ (TopPower + 1) - 1 = TopPower /\ 1 <= TopPower
  BY TopIs, SMT
<1>2. RootPowers(Powers, TopPower + 1)
  BY TopIs, PowersAre, SMT
<1>3. ASSUME NEW last \in Nat, RootPowers(Powers, last + 1)
      PROVE  \A d, e \in Nat : d + e <= last => Congruent(Powers[d+e], Powers[d]*Powers[e])
  BY <1>3, PowersMultiply
<1>4. \A d, e \in Nat : d + e <= TopPower => Congruent(Powers[d+e], Powers[d]*Powers[e])
  BY ONLY <1>1, <1>2, <1>3
<1>5. /\ Powers \in [0..TopPower -> 0..Q-1] /\ Powers[0] = 1
      /\ \A e \in 0..TopPower : e + 1 \in 0..TopPower => Congruent(Powers[e+1], Powers[e]*ROOT_OF_UNITY)
  BY ONLY <1>1, <1>2 DEF RootPowers
<1>6. Congruent(Powers[1], ROOT_OF_UNITY)
  <2>1. 0 \in 0..TopPower /\ 0 + 1 \in 0..TopPower /\ 0 + 1 = 1
    BY ONLY <1>1
  <2>2. Congruent(Powers[0+1], Powers[0]*ROOT_OF_UNITY)
    BY ONLY <1>5, <2>1
  <2>3. 1*ROOT_OF_UNITY = ROOT_OF_UNITY
    BY ONLY RootIs
  <2> QED BY ONLY <1>5, <2>1, <2>2, <2>3
<1> QED BY <1>4, <1>5, <1>6 DEF PowersLaw

PowerIs(e, x) == Powers[e] = x
Squares(x, y) == x \in Int /\ y \in Int /\ Residue(y) /\ (x*x) % 8380417 = y

LEMMA QIs == \A x \in Int : x % Q = x % 8380417
  BY SMT DEF Q

LEMMA SquareIs ==
    ASSUME NEW e \in Nat, NEW x, NEW y, e + e <= 511, PowerIs(e, x), Squares(x, y)
    PROVE  PowerIs(e + e, y)
<1>0. e + e <= TopPower
  BY TopIs, SMT
<1>1. x \in Int /\ x*x \in Int /\ y = (x*x) % Q /\ Residue(y)
  <2>1. x \in Int /\ x*x \in Int
    BY SMT DEF Squares
  <2> QED BY <2>1, QIs DEF Squares
<1>2. Congruent(y, x*x) /\ y \in 0..Q-1
  BY <1>1, CongruentMod
<1>3. Congruent(Powers[e+e], x*x) /\ Powers[e+e] \in 0..Q-1
  <2>1. e + e \in 0..TopPower
    BY <1>0, TopIs
  <2> QED BY <1>0, <2>1, PowersLawHolds DEF PowersLaw, PowerIs
<1>4. Congruent(Powers[e+e], y)
  BY <1>2, <1>3, CongruentOn, CongruentBack
<1> QED BY <1>2, <1>3, <1>4, CongruentEqual DEF PowerIs

LEMMA Halvings ==
    /\ PowerIs(1, 1753) /\ PowerIs(2, 3073009) /\ PowerIs(4, 3602218)
    /\ PowerIs(8, 5010068) /\ PowerIs(16, 7778734) /\ PowerIs(32, 5178923)
    /\ PowerIs(64, 3765607) /\ PowerIs(128, 4808194) /\ PowerIs(256, 8380416)
<1>1. PowerIs(1, 1753)
  <2>0. ROOT_OF_UNITY = 1753
    BY SMT DEF ROOT_OF_UNITY
  <2>1. 1 \in 0..TopPower
    BY TopIs, SMT
  <2>2. Powers[1] = ROOT_OF_UNITY
    BY <2>1, PowersLawHolds, RootIs, CongruentEqual DEF PowersLaw
  <2> QED BY <2>0, <2>2, SMT DEF PowerIs
<1>2. PowerIs(2, 3073009)
  <2>1. Squares(1753, 3073009)
    BY SMT DEF Squares, Residue, BelowQ
  <2>2. 1 \in Nat /\ 1 + 1 <= 511 /\ 1 + 1 = 2
    BY SMT
  <2> QED BY ONLY <1>1, <2>1, <2>2, SquareIs, SMT
<1>3. PowerIs(4, 3602218)
  <2>1. Squares(3073009, 3602218)
    BY SMT DEF Squares, Residue, BelowQ
  <2>2. 2 \in Nat /\ 2 + 2 <= 511 /\ 2 + 2 = 4
    BY SMT
  <2> QED BY ONLY <1>2, <2>1, <2>2, SquareIs, SMT
<1>4. PowerIs(8, 5010068)
  <2>1. Squares(3602218, 5010068)
    BY SMT DEF Squares, Residue, BelowQ
  <2>2. 4 \in Nat /\ 4 + 4 <= 511 /\ 4 + 4 = 8
    BY SMT
  <2> QED BY ONLY <1>3, <2>1, <2>2, SquareIs, SMT
<1>5. PowerIs(16, 7778734)
  <2>1. Squares(5010068, 7778734)
    BY SMT DEF Squares, Residue, BelowQ
  <2>2. 8 \in Nat /\ 8 + 8 <= 511 /\ 8 + 8 = 16
    BY SMT
  <2> QED BY ONLY <1>4, <2>1, <2>2, SquareIs, SMT
<1>6. PowerIs(32, 5178923)
  <2>1. Squares(7778734, 5178923)
    BY SMT DEF Squares, Residue, BelowQ
  <2>2. 16 \in Nat /\ 16 + 16 <= 511 /\ 16 + 16 = 32
    BY SMT
  <2> QED BY ONLY <1>5, <2>1, <2>2, SquareIs, SMT
<1>7. PowerIs(64, 3765607)
  <2>1. Squares(5178923, 3765607)
    BY SMT DEF Squares, Residue, BelowQ
  <2>2. 32 \in Nat /\ 32 + 32 <= 511 /\ 32 + 32 = 64
    BY SMT
  <2> QED BY ONLY <1>6, <2>1, <2>2, SquareIs, SMT
<1>8. PowerIs(128, 4808194)
  <2>1. Squares(3765607, 4808194)
    BY SMT DEF Squares, Residue, BelowQ
  <2>2. 64 \in Nat /\ 64 + 64 <= 511 /\ 64 + 64 = 128
    BY SMT
  <2> QED BY ONLY <1>7, <2>1, <2>2, SquareIs, SMT
<1>9. PowerIs(256, 8380416)
  <2>1. Squares(4808194, 8380416)
    BY SMT DEF Squares, Residue, BelowQ
  <2>2. 128 \in Nat /\ 128 + 128 <= 511 /\ 128 + 128 = 256
    BY SMT
  <2> QED BY ONLY <1>8, <2>1, <2>2, SquareIs, SMT
<1> QED BY <1>1, <1>2, <1>3, <1>4, <1>5, <1>6, <1>7, <1>8, <1>9, SMT

LEMMA ReversedRange == \A e \in 0..N-1 : Reversed(e) \in 0..N-1
  BY SMT DEF Reversed, N

Agrees(e) == Powers[Reversed(e)] = Plain[e+1]
AgreesTo(m) == \A e \in 0..m-1 : Agrees(e)

Doubling(m, n, h, v) ==
    /\ n \in 1..128 /\ h \in 1..128 /\ m = 2*n
    /\ PowerIs(h, v) /\ AgreesTo(n) /\ FollowsTo(m, n, h, v)

LEMMA TwiceAsMany ==
    ASSUME NEW m, NEW n, NEW h, NEW v, Doubling(m, n, h, v)
    PROVE  AgreesTo(m)
<1>0. /\ n \in 1..128 /\ h \in 1..128 /\ m = 2*n
      /\ PowerIs(h, v) /\ AgreesTo(n) /\ FollowsTo(m, n, h, v)
  BY Zenon DEF Doubling
<1> SUFFICES ASSUME NEW e \in n..2*n-1 PROVE Agrees(e)
  <2>1. \A e \in 0..2*n-1 : e \in 0..n-1 \/ e \in n..2*n-1
    BY <1>0
  <2> QED BY <1>0, <2>1 DEF AgreesTo
<1>1. PICK b : b = e - n
  OBVIOUS
<1>2. b \in 0..n-1 /\ b \in 0..N-1 /\ e \in 0..N-1 /\ b \in Int /\ e \in Int
  BY <1>0, <1>1 DEF N
<1>3. PICK x, y, w, p : x = Reversed(b) /\ y = Reversed(e) /\ w = Plain[b+1] /\ p = Plain[e+1]
  OBVIOUS
<1>4. x \in Nat /\ y \in 0..N-1 /\ N = 256
  <2>1. x \in 0..N-1 /\ y \in 0..N-1
    BY ONLY <1>2, <1>3, ReversedRange
  <2> QED BY <2>1 DEF N
<1>5. y = x + h /\ Residue(p) /\ w \in Int /\ Scaled(w, v, p)
  <2>1. FollowsFrom(e, n, h, v)
    BY <1>0 DEF FollowsTo
  <2>2. e - n = b
    BY <1>0, <1>1
  <2>3. /\ Reversed(e) = Reversed(b) + h
        /\ Plain[b + 1] \in Int /\ Residue(Plain[e+1]) /\ Scaled(Plain[b+1], v, Plain[e+1])
    BY ONLY <2>1, <2>2, Zenon DEF FollowsFrom
  <2> QED BY ONLY <1>3, <2>3, Zenon
<1>6. Powers[x] = w
  BY <1>0, <1>2, <1>3 DEF Agrees, AgreesTo
<1>7. v \in 0..Q-1 /\ v \in Int
  <2>1. h \in 0..TopPower
    BY <1>0, TopIs
  <2>2. Powers[h] \in 0..Q-1
    BY <2>1, PowersLawHolds DEF PowersLaw
  <2> QED BY <1>0, <2>2, ResidueInt DEF PowerIs
<1>8. w*v \in Int
  BY <1>5, <1>7, SMT
<1>9. (w*v) % Q = p
  BY <1>5, <1>8, QIs, SMT DEF Scaled
<1>10. Congruent(p, w*v) /\ p \in 0..Q-1
  BY <1>8, <1>9, CongruentMod
<1>11. x \in Nat /\ h \in Nat /\ x + h <= TopPower /\ y \in 0..TopPower
  BY <1>0, <1>4, <1>5, TopIs
<1>12. Congruent(Powers[y], w*v) /\ Powers[y] \in 0..Q-1
  BY <1>0, <1>5, <1>6, <1>11, PowersLawHolds DEF PowersLaw, PowerIs
<1>13. Congruent(Powers[y], p)
  BY <1>10, <1>12, CongruentOn, CongruentBack
<1>14. Powers[y] = p
  BY <1>10, <1>12, <1>13, CongruentEqual
<1> QED BY <1>3, <1>14 DEF Agrees

LEMMA PlainIs == AgreesTo(256)
<1>1. AgreesTo(1)
  <2>1. Reversed(0) = 0 /\ 0 + 1 = 1
    BY SMT DEF Reversed
  <2>2. Plain[1] = 1
    BY SMT DEF Plain
  <2>3. Agrees(0)
    BY <2>1, <2>2, PowersLawHolds DEF Agrees, PowersLaw
  <2>4. \A e \in 0..1-1 : e = 0
    OBVIOUS
  <2> QED BY <2>3, <2>4 DEF AgreesTo
<1>2. AgreesTo(2)
  <2>0. PICK v : v = 4808194
    BY SMT
  <2>1. PICK n, h, m \in Nat : n = 1 /\ h = 128 /\ m = 2
    BY SMT
  <2>2. n \in 1..128 /\ h \in 1..128 /\ m = 2*n
    BY <2>1
  <2>3. PowerIs(h, v) /\ AgreesTo(n) /\ FollowsTo(m, n, h, v)
    BY ONLY <1>1, <2>0, <2>1, Halvings, FollowsTo2, SMT
  <2>4. AgreesTo(m)
    BY ONLY <2>2, <2>3, TwiceAsMany, Zenon DEF Doubling
  <2> QED BY ONLY <2>1, <2>4, SMT
<1>3. AgreesTo(4)
  <2>0. PICK v : v = 3765607
    BY SMT
  <2>1. PICK n, h, m \in Nat : n = 2 /\ h = 64 /\ m = 4
    BY SMT
  <2>2. n \in 1..128 /\ h \in 1..128 /\ m = 2*n
    BY <2>1
  <2>3. PowerIs(h, v) /\ AgreesTo(n) /\ FollowsTo(m, n, h, v)
    BY ONLY <1>2, <2>0, <2>1, Halvings, FollowsTo4, SMT
  <2>4. AgreesTo(m)
    BY ONLY <2>2, <2>3, TwiceAsMany, Zenon DEF Doubling
  <2> QED BY ONLY <2>1, <2>4, SMT
<1>4. AgreesTo(8)
  <2>0. PICK v : v = 5178923
    BY SMT
  <2>1. PICK n, h, m \in Nat : n = 4 /\ h = 32 /\ m = 8
    BY SMT
  <2>2. n \in 1..128 /\ h \in 1..128 /\ m = 2*n
    BY <2>1
  <2>3. PowerIs(h, v) /\ AgreesTo(n) /\ FollowsTo(m, n, h, v)
    BY ONLY <1>3, <2>0, <2>1, Halvings, FollowsTo8, SMT
  <2>4. AgreesTo(m)
    BY ONLY <2>2, <2>3, TwiceAsMany, Zenon DEF Doubling
  <2> QED BY ONLY <2>1, <2>4, SMT
<1>5. AgreesTo(16)
  <2>0. PICK v : v = 7778734
    BY SMT
  <2>1. PICK n, h, m \in Nat : n = 8 /\ h = 16 /\ m = 16
    BY SMT
  <2>2. n \in 1..128 /\ h \in 1..128 /\ m = 2*n
    BY <2>1
  <2>3. PowerIs(h, v) /\ AgreesTo(n) /\ FollowsTo(m, n, h, v)
    BY ONLY <1>4, <2>0, <2>1, Halvings, FollowsTo16, SMT
  <2>4. AgreesTo(m)
    BY ONLY <2>2, <2>3, TwiceAsMany, Zenon DEF Doubling
  <2> QED BY ONLY <2>1, <2>4, SMT
<1>6. AgreesTo(32)
  <2>0. PICK v : v = 5010068
    BY SMT
  <2>1. PICK n, h, m \in Nat : n = 16 /\ h = 8 /\ m = 32
    BY SMT
  <2>2. n \in 1..128 /\ h \in 1..128 /\ m = 2*n
    BY <2>1
  <2>3. PowerIs(h, v) /\ AgreesTo(n) /\ FollowsTo(m, n, h, v)
    BY ONLY <1>5, <2>0, <2>1, Halvings, FollowsTo32, SMT
  <2>4. AgreesTo(m)
    BY ONLY <2>2, <2>3, TwiceAsMany, Zenon DEF Doubling
  <2> QED BY ONLY <2>1, <2>4, SMT
<1>7. AgreesTo(64)
  <2>0. PICK v : v = 3602218
    BY SMT
  <2>1. PICK n, h, m \in Nat : n = 32 /\ h = 4 /\ m = 64
    BY SMT
  <2>2. n \in 1..128 /\ h \in 1..128 /\ m = 2*n
    BY <2>1
  <2>3. PowerIs(h, v) /\ AgreesTo(n) /\ FollowsTo(m, n, h, v)
    BY ONLY <1>6, <2>0, <2>1, Halvings, FollowsTo64, SMT
  <2>4. AgreesTo(m)
    BY ONLY <2>2, <2>3, TwiceAsMany, Zenon DEF Doubling
  <2> QED BY ONLY <2>1, <2>4, SMT
<1>8. AgreesTo(128)
  <2>0. PICK v : v = 3073009
    BY SMT
  <2>1. PICK n, h, m \in Nat : n = 64 /\ h = 2 /\ m = 128
    BY SMT
  <2>2. n \in 1..128 /\ h \in 1..128 /\ m = 2*n
    BY <2>1
  <2>3. PowerIs(h, v) /\ AgreesTo(n) /\ FollowsTo(m, n, h, v)
    BY ONLY <1>7, <2>0, <2>1, Halvings, FollowsTo128, SMT
  <2>4. AgreesTo(m)
    BY ONLY <2>2, <2>3, TwiceAsMany, Zenon DEF Doubling
  <2> QED BY ONLY <2>1, <2>4, SMT
<1>9. AgreesTo(256)
  <2>0. PICK v : v = 1753
    BY SMT
  <2>1. PICK n, h, m \in Nat : n = 128 /\ h = 1 /\ m = 256
    BY SMT
  <2>2. n \in 1..128 /\ h \in 1..128 /\ m = 2*n
    BY <2>1
  <2>3. PowerIs(h, v) /\ AgreesTo(n) /\ FollowsTo(m, n, h, v)
    BY ONLY <1>8, <2>0, <2>1, Halvings, FollowsTo256, SMT
  <2>4. AgreesTo(m)
    BY ONLY <2>2, <2>3, TwiceAsMany, Zenon DEF Doubling
  <2> QED BY ONLY <2>1, <2>4, SMT
<1> QED BY <1>9, SMT

\* The places of a layer: which half, which block, the place in the table.
LowOf(j, l) == (j \div l) % 2 = 0
Entry(j, l) == 128 \div l + j \div (2*l)
BackEntry(j, l) == 256 \div l - 1 - j \div (2*l)
PartStart(j, l) == l*(j \div l)

Halving(l) ==
    /\ l \in 1..128
    /\ \A j \in 0..N-1 :
         /\ Entry(j, l) \in 1..N-1 /\ BackEntry(j, l) \in 1..N-1
         /\ Reversed(Entry(j, l)) + Reversed(BackEntry(j, l)) = 256
Partners(l) ==
    \A j \in 0..N-1 :
      /\ LowOf(j, l) => /\ j + l \in 0..N-1 /\ ~LowOf(j + l, l) /\ Entry(j + l, l) = Entry(j, l)
      /\ ~LowOf(j, l) => /\ j - l \in 0..N-1 /\ LowOf(j - l, l) /\ Entry(j - l, l) = Entry(j, l)
Turns(l) ==
    \A j \in 0..N-1 :
      (l*(2*Reversed(j) + 1)) % 512 = Reversed(Entry(j, l)) + IF LowOf(j, l) THEN 0 ELSE 256
Starts(l) ==
    \A j \in 0..N-1 : \A idx \in 0..l-1 :
      /\ PartStart(j, l) + idx \in 0..N-1
      /\ LowOf(PartStart(j, l) + idx, l) <=> LowOf(j, l)
      /\ Entry(PartStart(j, l) + idx, l) = Entry(j, l)
      /\ PartStart(j, 2*l) + idx = IF LowOf(j, l) THEN PartStart(j, l) + idx ELSE (PartStart(j, l) + idx) - l

LEMMA Halving1 == Halving(1)
  BY SMT DEF Halving, Entry, BackEntry, Reversed, N

LEMMA Partners1 == Partners(1)
  BY SMT DEF Partners, LowOf, Entry, N

LEMMA Turns1 == Turns(1)
<1> SUFFICES ASSUME NEW j \in 0..255
             PROVE  (1*(2*Reversed(j) + 1)) % 512 = Reversed(Entry(j, 1)) + IF LowOf(j, 1) THEN 0 ELSE 256
  BY SMT DEF Turns, N
<1>1. PICK b0, b1, b2, b3, b4, b5, b6, b7 \in 0..1 :
        j = b0 + 2*b1 + 4*b2 + 8*b3 + 16*b4 + 32*b5 + 64*b6 + 128*b7
  <2>1. j = (j % 2) + 2*((j \div 2) % 2) + 4*((j \div 4) % 2) + 8*((j \div 8) % 2)
            + 16*((j \div 16) % 2) + 32*((j \div 32) % 2) + 64*((j \div 64) % 2) + 128*((j \div 128) % 2)
    BY SMT
  <2>2. \A x \in Int : x % 2 \in 0..1
    BY SMT
  <2> QED BY <2>1, <2>2, SMT
<1>2. Reversed(j) = b7 + 2*b6 + 4*b5 + 8*b4 + 16*b3 + 32*b2 + 64*b1 + 128*b0
  BY <1>1, SMT DEF Reversed
<1>3. Entry(j, 1) = b1 + 2*b2 + 4*b3 + 8*b4 + 16*b5 + 32*b6 + 64*b7 + 128
  BY <1>1, SMT DEF Entry
<1>4. Reversed(Entry(j, 1)) = 1 + 128*b1 + 64*b2 + 32*b3 + 16*b4 + 8*b5 + 4*b6 + 2*b7
  <2>1. PICK e \in Nat : e = Entry(j, 1)
    BY <1>3
  <2>2. e = b1 + 2*b2 + 4*b3 + 8*b4 + 16*b5 + 32*b6 + 64*b7 + 128
    BY <1>3, <2>1
  <2>3. Reversed(e) = 1 + 128*b1 + 64*b2 + 32*b3 + 16*b4 + 8*b5 + 4*b6 + 2*b7
    BY ONLY <2>2, b1 \in 0..1, b2 \in 0..1, b3 \in 0..1, b4 \in 0..1, b5 \in 0..1, b6 \in 0..1, b7 \in 0..1, SMT DEF Reversed
  <2> QED BY <2>1, <2>3, Zenon
<1>5. LowOf(j, 1) <=> b0 = 0
  BY <1>1, SMT DEF LowOf
<1> QED BY <1>1, <1>2, <1>4, <1>5, SMT

LEMMA Starts1 == Starts(1)
  BY SMT DEF Starts, LowOf, Entry, PartStart, N

LEMMA Halving2 == Halving(2)
  BY SMT DEF Halving, Entry, BackEntry, Reversed, N

LEMMA Partners2 == Partners(2)
  BY SMT DEF Partners, LowOf, Entry, N

LEMMA Turns2 == Turns(2)
<1> SUFFICES ASSUME NEW j \in 0..255
             PROVE  (2*(2*Reversed(j) + 1)) % 512 = Reversed(Entry(j, 2)) + IF LowOf(j, 2) THEN 0 ELSE 256
  BY SMT DEF Turns, N
<1>1. PICK b0, b1, b2, b3, b4, b5, b6, b7 \in 0..1 :
        j = b0 + 2*b1 + 4*b2 + 8*b3 + 16*b4 + 32*b5 + 64*b6 + 128*b7
  <2>1. j = (j % 2) + 2*((j \div 2) % 2) + 4*((j \div 4) % 2) + 8*((j \div 8) % 2)
            + 16*((j \div 16) % 2) + 32*((j \div 32) % 2) + 64*((j \div 64) % 2) + 128*((j \div 128) % 2)
    BY SMT
  <2>2. \A x \in Int : x % 2 \in 0..1
    BY SMT
  <2> QED BY <2>1, <2>2, SMT
<1>2. Reversed(j) = b7 + 2*b6 + 4*b5 + 8*b4 + 16*b3 + 32*b2 + 64*b1 + 128*b0
  BY <1>1, SMT DEF Reversed
<1>3. Entry(j, 2) = b2 + 2*b3 + 4*b4 + 8*b5 + 16*b6 + 32*b7 + 64
  BY <1>1, SMT DEF Entry
<1>4. Reversed(Entry(j, 2)) = 2 + 128*b2 + 64*b3 + 32*b4 + 16*b5 + 8*b6 + 4*b7
  <2>1. PICK e \in Nat : e = Entry(j, 2)
    BY <1>3
  <2>2. e = b2 + 2*b3 + 4*b4 + 8*b5 + 16*b6 + 32*b7 + 64
    BY <1>3, <2>1
  <2>3. Reversed(e) = 2 + 128*b2 + 64*b3 + 32*b4 + 16*b5 + 8*b6 + 4*b7
    BY ONLY <2>2, b2 \in 0..1, b3 \in 0..1, b4 \in 0..1, b5 \in 0..1, b6 \in 0..1, b7 \in 0..1, SMT DEF Reversed
  <2> QED BY <2>1, <2>3, Zenon
<1>5. LowOf(j, 2) <=> b1 = 0
  BY <1>1, SMT DEF LowOf
<1> QED BY <1>1, <1>2, <1>4, <1>5, SMT

LEMMA Starts2 == Starts(2)
  BY SMT DEF Starts, LowOf, Entry, PartStart, N

LEMMA Halving4 == Halving(4)
  BY SMT DEF Halving, Entry, BackEntry, Reversed, N

LEMMA Partners4 == Partners(4)
  BY SMT DEF Partners, LowOf, Entry, N

LEMMA Turns4 == Turns(4)
  BY SMT DEF Turns, LowOf, Entry, Reversed, N

LEMMA Starts4 == Starts(4)
  BY SMT DEF Starts, LowOf, Entry, PartStart, N

LEMMA Halving8 == Halving(8)
  BY SMT DEF Halving, Entry, BackEntry, Reversed, N

LEMMA Partners8 == Partners(8)
  BY SMT DEF Partners, LowOf, Entry, N

LEMMA Turns8 == Turns(8)
  BY SMT DEF Turns, LowOf, Entry, Reversed, N

LEMMA Starts8 == Starts(8)
  BY SMT DEF Starts, LowOf, Entry, PartStart, N

LEMMA Halving16 == Halving(16)
  BY SMT DEF Halving, Entry, BackEntry, Reversed, N

LEMMA Partners16 == Partners(16)
  BY SMT DEF Partners, LowOf, Entry, N

LEMMA Turns16 == Turns(16)
  BY SMT DEF Turns, LowOf, Entry, Reversed, N

LEMMA Starts16 == Starts(16)
  BY SMT DEF Starts, LowOf, Entry, PartStart, N

LEMMA Halving32 == Halving(32)
  BY SMT DEF Halving, Entry, BackEntry, Reversed, N

LEMMA Partners32 == Partners(32)
  BY SMT DEF Partners, LowOf, Entry, N

LEMMA Turns32 == Turns(32)
  BY SMT DEF Turns, LowOf, Entry, Reversed, N

LEMMA Starts32 == Starts(32)
  BY SMT DEF Starts, LowOf, Entry, PartStart, N

LEMMA Halving64 == Halving(64)
  BY SMT DEF Halving, Entry, BackEntry, Reversed, N

LEMMA Partners64 == Partners(64)
  BY SMT DEF Partners, LowOf, Entry, N

LEMMA Turns64 == Turns(64)
  BY SMT DEF Turns, LowOf, Entry, Reversed, N

LEMMA Starts64 == Starts(64)
  BY SMT DEF Starts, LowOf, Entry, PartStart, N

LEMMA Halving128 == Halving(128)
  BY SMT DEF Halving, Entry, BackEntry, Reversed, N

LEMMA Partners128 == Partners(128)
  BY SMT DEF Partners, LowOf, Entry, N

LEMMA Turns128 == Turns(128)
  BY SMT DEF Turns, LowOf, Entry, Reversed, N

LEMMA Starts128 == Starts(128)
  BY SMT DEF Starts, LowOf, Entry, PartStart, N


\* Any power of the root: the table is one turn.
PW(d) == Powers[d % 512]

LEMMA PowersIn == \A e \in Nat : e <= TopPower => Powers[e] \in 0..Q-1 /\ Powers[e] \in Int
<1>1. \A e \in Nat : e <= TopPower => e \in 0..TopPower
  BY TopIs
<1> QED BY <1>1, PowersLawHolds, ResidueInt DEF PowersLaw

LEMMA PWIn == \A d \in Nat : PW(d) \in 0..Q-1 /\ PW(d) \in Int
<1>1. \A d \in Nat : d % 512 \in Nat /\ d % 512 <= 511
  BY SMT
<1>2. \A d \in Nat : d % 512 \in Nat /\ d % 512 <= TopPower
  BY <1>1, TopIs
<1> QED BY <1>2, PowersIn DEF PW

LEMMA MinusOne == Congruent(Powers[256], -1)
<1>1. PICK x \in Int : x = 8380416
  BY SMT
<1>2. Differ(x, -1, 1) /\ -1 \in Int /\ 1 \in Int
  BY <1>1, SMT DEF Differ
<1>3. Congruent(x, -1)
  BY ONLY <1>2, x \in Int, Zenon DEF Congruent
<1>4. Powers[256] = x
  BY <1>1, Halvings, SMT DEF PowerIs
<1> QED BY ONLY <1>3, <1>4, Zenon

LEMMA OneTurn == Congruent(Powers[511]*ROOT_OF_UNITY, 1)
<1>1. PICK x, y, z, arr : x = Powers[256] /\ y = Powers[255] /\ z = Powers[511] /\ arr = ROOT_OF_UNITY
  OBVIOUS
<1>2. 256 \in Nat /\ 255 \in Nat /\ 1 \in Nat /\ 511 \in Nat /\ 256 <= TopPower /\ 255 <= TopPower /\ 511 <= TopPower
      /\ 256 + 255 = 511 /\ 255 + 1 = 256
  BY TopIs, SMT
<1>3. x \in Int /\ y \in Int /\ z \in Int /\ arr \in Int
  BY <1>1, <1>2, PowersIn, RootIs
<1>4. Congruent(z, x*y)
  <2>1. 256 + 255 <= TopPower
    BY <1>2
  <2>2. Congruent(Powers[256+255], Powers[256]*Powers[255])
    BY <1>2, <2>1, PowersLawHolds DEF PowersLaw
  <2> QED BY <1>1, <1>2, <2>2
<1>5. Congruent(x, y*arr)
  <2>1. 255 + 1 <= TopPower
    BY <1>2
  <2>2. Congruent(Powers[255+1], Powers[255]*Powers[1]) /\ Congruent(Powers[1], arr)
    BY <1>1, <1>2, <2>1, PowersLawHolds DEF PowersLaw
  <2>3. Congruent(x, y*Powers[1]) /\ Congruent(y*Powers[1], y*arr)
    BY <1>1, <1>2, <1>3, <2>2, CongruentTimesOne
  <2> QED BY <2>3, CongruentOn
<1>6. Congruent(z*arr, (x*y)*arr) /\ Congruent(x*(y*arr), x*x)
  BY <1>3, <1>4, <1>5, CongruentTimesOne, CongruentBack
<1>7. (x*y)*arr = x*(y*arr)
  BY <1>3, SMT
<1>8. Congruent(x*x, (-1)*(-1)) /\ (-1)*(-1) = 1
  <2>1. Congruent(x, -1)
    BY <1>1, MinusOne
  <2>2. (-1)*(-1) = 1
    BY SMT
  <2> QED BY <2>1, <2>2, CongruentTimes
<1> QED BY <1>1, <1>6, <1>7, <1>8, CongruentOn

LEMMA PowerLaw == ASSUME NEW d \in Nat, NEW e \in Nat PROVE Congruent(PW(d+e), PW(d)*PW(e))
<1>1. PICK last \in Nat : last = d + e
  OBVIOUS
<1>2. PICK f : f = [x \in 0..last |-> PW(x)]
  OBVIOUS
<1>3. (last + 1) - 1 = last /\ \A x \in 0..last : x \in Nat
  OBVIOUS
<1>4. f \in [0..last -> 0..Q-1]
  BY <1>2, <1>3, PWIn
<1>5. PW(0) = 1
  <2>1. 0 % 512 = 0
    BY SMT
  <2> QED BY <2>1, PowersLawHolds DEF PW, PowersLaw
<1>6. \A x \in Nat : Congruent(PW(x+1), PW(x)*ROOT_OF_UNITY)
  <2> SUFFICES ASSUME NEW x \in Nat PROVE Congruent(PW(x+1), PW(x)*ROOT_OF_UNITY)
    OBVIOUS
  <2>1. PICK y \in Nat : y = x % 512
    OBVIOUS
  <2>2. CASE y = 511
    <3>1. (x + 1) % 512 = 0
      BY <2>1, <2>2, SMT
    <3> QED BY <2>1, <2>2, <3>1, OneTurn, CongruentBack, PowersLawHolds DEF PW, PowersLaw
  <2>3. CASE y # 511
    <3>1. (x + 1) % 512 = y + 1 /\ y + 1 <= 511
      BY <2>1, <2>3, SMT
    <3>2. y + 1 <= TopPower /\ y <= TopPower
      BY <3>1, TopIs
    <3>3. Congruent(Powers[y+1], Powers[y]*Powers[1]) /\ Congruent(Powers[1], ROOT_OF_UNITY)
      BY <3>2, PowersLawHolds DEF PowersLaw
    <3>4. Powers[y] \in Int
      BY <3>2, PowersIn
    <3>5. Congruent(Powers[y]*Powers[1], Powers[y]*ROOT_OF_UNITY)
      BY <3>3, <3>4, CongruentTimesOne
    <3> QED BY <2>1, <3>1, <3>3, <3>5, CongruentOn DEF PW
  <2> QED BY <2>2, <2>3
<1>7. RootPowers(f, last + 1)
  <2>1. f[0] = 1 /\ \A x \in 0..last : x + 1 \in 0..last => Congruent(f[x+1], f[x]*ROOT_OF_UNITY)
    BY <1>2, <1>3, <1>5, <1>6
  <2> QED BY <1>3, <1>4, <2>1 DEF RootPowers
<1>8. Congruent(f[d+e], f[d]*f[e])
  <2>1. \A m \in Nat : \A x \in Nat : x + m <= last => Congruent(f[x+m], f[x]*f[m])
    BY ONLY <1>7, last \in Nat, PowersMultiply, Zenon
  <2>2. d + e <= last
    BY <1>1
  <2> QED BY <2>1, <2>2
<1>9. d + e \in 0..last /\ d \in 0..last /\ e \in 0..last
  BY <1>1
<1> QED BY <1>2, <1>8, <1>9

LEMMA HalfTurn == ASSUME NEW d \in Nat PROVE Congruent(PW(d + 256), -PW(d))
<1>1. 256 \in Nat /\ 256 % 512 = 256
  BY SMT
<1>2. PW(256) = Powers[256]
  BY <1>1 DEF PW
<1>3. PICK x : x = PW(d)
  OBVIOUS
<1>4. x \in Int
  BY <1>3, PWIn
<1>5. Congruent(PW(d + 256), x*PW(256))
  BY <1>1, <1>3, PowerLaw
<1>6. Congruent(x*PW(256), x*(-1))
  BY <1>2, <1>4, MinusOne, CongruentTimesOne
<1>7. x*(-1) = -x
  BY <1>4, SMT
<1> QED BY <1>3, <1>5, <1>6, <1>7, CongruentOn

\* The code's entry is 2^32 times the power.
Scales(e) == zetas[e+1] \in Int /\ Residue(Plain[e+1]) /\ Scaled(zetas[e+1], InverseOf32, Plain[e+1])

LEMMA FollowsScales ==
    ASSUME NEW m, NEW n, NEW h, NEW v, FollowsTo(m, n, h, v)
    PROVE  \A e \in n..m-1 : Scales(e)
  BY Zenon DEF FollowsTo, FollowsFrom, Scales

LEMMA AllScale == \A e \in 1..255 : Scales(e)
<1>1. \A e \in 1..2-1 : Scales(e)
  <2>1. PICK v : v = 4808194
    BY SMT
  <2>2. FollowsTo(2, 1, 128, v)
    BY ONLY <2>1, FollowsTo2, SMT
  <2> QED BY ONLY <2>2, FollowsScales, Zenon
<1>2. \A e \in 2..4-1 : Scales(e)
  <2>1. PICK v : v = 3765607
    BY SMT
  <2>2. FollowsTo(4, 2, 64, v)
    BY ONLY <2>1, FollowsTo4, SMT
  <2> QED BY ONLY <2>2, FollowsScales, Zenon
<1>3. \A e \in 4..8-1 : Scales(e)
  <2>1. PICK v : v = 5178923
    BY SMT
  <2>2. FollowsTo(8, 4, 32, v)
    BY ONLY <2>1, FollowsTo8, SMT
  <2> QED BY ONLY <2>2, FollowsScales, Zenon
<1>4. \A e \in 8..16-1 : Scales(e)
  <2>1. PICK v : v = 7778734
    BY SMT
  <2>2. FollowsTo(16, 8, 16, v)
    BY ONLY <2>1, FollowsTo16, SMT
  <2> QED BY ONLY <2>2, FollowsScales, Zenon
<1>5. \A e \in 16..32-1 : Scales(e)
  <2>1. PICK v : v = 5010068
    BY SMT
  <2>2. FollowsTo(32, 16, 8, v)
    BY ONLY <2>1, FollowsTo32, SMT
  <2> QED BY ONLY <2>2, FollowsScales, Zenon
<1>6. \A e \in 32..64-1 : Scales(e)
  <2>1. PICK v : v = 3602218
    BY SMT
  <2>2. FollowsTo(64, 32, 4, v)
    BY ONLY <2>1, FollowsTo64, SMT
  <2> QED BY ONLY <2>2, FollowsScales, Zenon
<1>7. \A e \in 64..128-1 : Scales(e)
  <2>1. PICK v : v = 3073009
    BY SMT
  <2>2. FollowsTo(128, 64, 2, v)
    BY ONLY <2>1, FollowsTo128, SMT
  <2> QED BY ONLY <2>2, FollowsScales, Zenon
<1>8. \A e \in 128..256-1 : Scales(e)
  <2>1. PICK v : v = 1753
    BY SMT
  <2>2. FollowsTo(256, 128, 1, v)
    BY ONLY <2>1, FollowsTo256, SMT
  <2> QED BY ONLY <2>2, FollowsScales, Zenon
<1>9. \A e \in 1..255 : \/ e \in 1..2-1 \/ e \in 2..4-1 \/ e \in 4..8-1 \/ e \in 8..16-1
                        \/ e \in 16..32-1 \/ e \in 32..64-1 \/ e \in 64..128-1 \/ e \in 128..256-1
  BY SMT
<1> QED BY ONLY <1>1, <1>2, <1>3, <1>4, <1>5, <1>6, <1>7, <1>8, <1>9, Zenon

LEMMA InverseIs == InverseOf32 \in 0..Q-1 /\ InverseOf32 \in Int
<1>1. Residue(InverseOf32)
  BY SMT DEF InverseOf32, Residue, BelowQ
<1> QED BY <1>1, Residues, ResidueInt

LEMMA ConstIs == ASSUME NEW c \in Int PROVE Const(c) \in 0..Q-1 /\ Congruent(Const(c), c*InverseOf32)
<1>1. PICK y, v : y = c % Q /\ v = InverseOf32
  OBVIOUS
<1>2. y \in 0..Q-1 /\ Congruent(y, c) /\ v \in 0..Q-1 /\ v \in Int
  BY <1>1, CongruentMod, InverseIs
<1>3. Const(c) = Times(y, v)
  BY <1>1 DEF Const
<1>4. Times(y, v) \in 0..Q-1 /\ Congruent(Times(y, v), y*v)
  BY <1>2, TimesIs
<1>5. Congruent(y*v, c*v)
  BY <1>2, CongruentTimesOne
<1> QED BY <1>1, <1>3, <1>4, <1>5, CongruentOn

LEMMA ZetaIs ==
    ASSUME NEW e \in 1..N-1
    PROVE  /\ Reversed(e) \in 0..N-1 /\ Reversed(e) \in Nat
           /\ PW(Reversed(e)) = Powers[Reversed(e)]
           /\ ZetaOver32[e] = PW(Reversed(e))
           /\ MinusZetaOver32[e] \in 0..Q-1 /\ Congruent(MinusZetaOver32[e], -PW(Reversed(e)))
<1>1. e \in 0..N-1 /\ e \in 1..255 /\ e \in 0..256-1
  BY DEF N
<1>2. PICK z, p, v : z = zetas[e+1] /\ p = Plain[e+1] /\ v = InverseOf32
  OBVIOUS
<1>3. z \in Int /\ Residue(p) /\ Scaled(z, v, p) /\ v \in Int
  BY <1>1, <1>2, AllScale, InverseIs DEF Scales
<1>4. z*v \in Int /\ p \in 0..Q-1
  BY <1>3, Residues, SMT
<1>5. Congruent(p, z*v)
  <2>1. p = (z*v) % Q
    BY <1>3, <1>4, QIs DEF Scaled
  <2> QED BY <1>4, <2>1, CongruentMod
<1>6. PICK y : y = Reversed(e)
  OBVIOUS
<1>7. y \in 0..N-1 /\ y \in Nat /\ y % 512 = y /\ Powers[y] = p
  <2>1. y \in 0..N-1
    BY <1>1, <1>6, ReversedRange
  <2>2. y \in Nat /\ y % 512 = y
    BY <2>1, SMT DEF N
  <2>3. Powers[y] = p
    BY <1>1, <1>2, <1>6, PlainIs DEF AgreesTo, Agrees
  <2> QED BY <2>1, <2>2, <2>3
<1>8. PW(y) = p
  BY <1>7 DEF PW
<1>9. ZetaOver32[e] = p
  <2>1. ZetaOver32[e] = Const(z)
    BY <1>1, <1>2 DEF ZetaOver32
  <2>2. Const(z) \in 0..Q-1 /\ Congruent(Const(z), z*v)
    BY <1>2, <1>3, ConstIs
  <2>3. Congruent(Const(z), p)
    BY <1>5, <2>2, CongruentBack, CongruentOn
  <2> QED BY <1>4, <2>1, <2>2, <2>3, CongruentEqual
<1>10. MinusZetaOver32[e] \in 0..Q-1 /\ Congruent(MinusZetaOver32[e], -p)
  <2>1. MinusZetaOver32[e] = Const(-z) /\ -z \in Int
    BY <1>1, <1>2, <1>3 DEF MinusZetaOver32
  <2>2. Const(-z) \in 0..Q-1 /\ Congruent(Const(-z), (-z)*v)
    BY <1>2, <2>1, ConstIs
  <2>3. (-z)*v = 0 - z*v /\ 0 - p = -p /\ 0 \in Int
    BY <1>3, <1>4, ResidueInt, SMT
  <2>4. Congruent(0 - p, 0 - z*v)
    BY <1>5, <2>3, CongruentSame, CongruentSum
  <2>5. Congruent((-z)*v, -p)
    BY <2>3, <2>4, CongruentBack
  <2> QED BY <2>1, <2>2, <2>5, CongruentOn
<1> QED BY <1>6, <1>7, <1>8, <1>9, <1>10

\* The lengths of the halves.
Lens == {1, 2, 4, 8, 16, 32, 64, 128}

LEMMA LensIs == ASSUME NEW l \in Lens PROVE l \in Nat /\ l \in 1..128 /\ 2*l \in 2..256 /\ 2*l = l + l
  BY SMT DEF Lens

LEMMA LayersFit ==
    ASSUME NEW l \in Lens
    PROVE  Halving(l) /\ Partners(l) /\ Turns(l) /\ Starts(l)
<1>1. \/ l = 1 \/ l = 2 \/ l = 4 \/ l = 8 \/ l = 16 \/ l = 32 \/ l = 64 \/ l = 128
  BY DEF Lens
<1>2. Halving(l)
  BY ONLY <1>1, Halving1, Halving2, Halving4, Halving8, Halving16, Halving32, Halving64, Halving128, SMT
<1>3. Partners(l)
  BY ONLY <1>1, Partners1, Partners2, Partners4, Partners8, Partners16, Partners32, Partners64, Partners128, SMT
<1>4. Turns(l)
  BY ONLY <1>1, Turns1, Turns2, Turns4, Turns8, Turns16, Turns32, Turns64, Turns128, SMT
<1>5. Starts(l)
  BY ONLY <1>1, Starts1, Starts2, Starts4, Starts8, Starts16, Starts32, Starts64, Starts128, SMT
<1> QED BY <1>2, <1>3, <1>4, <1>5

\* A layer of ntt.
ButterfliesAt(p, l) ==
    LET t(j) == Times(ZetaOver32[Entry(j, l)], p[j])
    IN  [j \in 0..N-1 |-> IF LowOf(j, l) THEN (p[j] + t(j+l)) % Q ELSE (p[j-l] - t(j)) % Q]

\* The power a layer multiplies by.
Turn(j, l) == PW(Reversed(Entry(j, l)))

LEMMA TurnIs ==
    ASSUME NEW l \in Lens, NEW j \in 0..N-1
    PROVE  Turn(j, l) \in 0..Q-1 /\ Turn(j, l) \in Int /\ ZetaOver32[Entry(j, l)] = Turn(j, l)
<1>1. Entry(j, l) \in 1..N-1
  BY LayersFit DEF Halving
<1> QED BY <1>1, ZetaIs, PWIn DEF Turn

LEMMA ButterflyLow ==
    ASSUME NEW l \in Lens, NEW p \in Polynomials, NEW j \in 0..N-1, LowOf(j, l)
    PROVE  /\ j + l \in 0..N-1 /\ ButterfliesAt(p, l)[j] \in 0..Q-1
           /\ Congruent(ButterfliesAt(p, l)[j], p[j] + Turn(j, l)*p[j+l])
<1>1. j + l \in 0..N-1 /\ Entry(j + l, l) = Entry(j, l)
  BY LayersFit DEF Partners
<1>2. PICK x, y, z : x = p[j] /\ y = p[j+l] /\ z = Turn(j, l)
  OBVIOUS
<1>3. x \in 0..Q-1 /\ y \in 0..Q-1 /\ z \in 0..Q-1 /\ x \in Int
  BY <1>1, <1>2, TurnIs, ResidueInt DEF Polynomials
<1>4. Times(z, y) \in 0..Q-1 /\ Congruent(Times(z, y), z*y) /\ Times(z, y) \in Int
  BY <1>3, TimesIs, ResidueInt
<1>5. ButterfliesAt(p, l)[j] = (x + Times(z, y)) % Q
  BY <1>1, <1>2, TurnIs DEF ButterfliesAt
<1>6. x + Times(z, y) \in Int
  BY <1>3, <1>4
<1>7. Congruent(x + Times(z, y), x + z*y)
  BY <1>3, <1>4, CongruentSame, CongruentSum
<1> QED BY <1>1, <1>2, <1>5, <1>6, <1>7, CongruentMod, CongruentOn

LEMMA ButterflyHigh ==
    ASSUME NEW l \in Lens, NEW p \in Polynomials, NEW j \in 0..N-1, ~LowOf(j, l)
    PROVE  /\ j - l \in 0..N-1 /\ ButterfliesAt(p, l)[j] \in 0..Q-1
           /\ Congruent(ButterfliesAt(p, l)[j], p[j-l] - Turn(j, l)*p[j])
<1>1. j - l \in 0..N-1
  BY LayersFit DEF Partners
<1>2. PICK x, y, z : x = p[j-l] /\ y = p[j] /\ z = Turn(j, l)
  OBVIOUS
<1>3. x \in 0..Q-1 /\ y \in 0..Q-1 /\ z \in 0..Q-1 /\ x \in Int
  BY <1>1, <1>2, TurnIs, ResidueInt DEF Polynomials
<1>4. Times(z, y) \in 0..Q-1 /\ Congruent(Times(z, y), z*y) /\ Times(z, y) \in Int
  BY <1>3, TimesIs, ResidueInt
<1>5. ButterfliesAt(p, l)[j] = (x - Times(z, y)) % Q
  BY <1>1, <1>2, TurnIs DEF ButterfliesAt
<1>6. x - Times(z, y) \in Int
  BY <1>3, <1>4
<1>7. Congruent(x - Times(z, y), x - z*y)
  BY <1>3, <1>4, CongruentSame, CongruentSum
<1> QED BY <1>1, <1>2, <1>5, <1>6, <1>7, CongruentMod, CongruentOn

LEMMA ButterfliesPolynomial ==
    ASSUME NEW l \in Lens, NEW p \in Polynomials
    PROVE  ButterfliesAt(p, l) \in Polynomials
<1>1. \A j \in 0..N-1 : ButterfliesAt(p, l)[j] \in 0..Q-1
  BY ButterflyLow, ButterflyHigh
<1> QED BY <1>1 DEF ButterfliesAt, Polynomials

\* pol after the layers down to l.
Stage128(pol) == ButterfliesAt(pol, 128)
Stage64(pol) == ButterfliesAt(Stage128(pol), 64)
Stage32(pol) == ButterfliesAt(Stage64(pol), 32)
Stage16(pol) == ButterfliesAt(Stage32(pol), 16)
Stage8(pol) == ButterfliesAt(Stage16(pol), 8)
Stage4(pol) == ButterfliesAt(Stage8(pol), 4)
Stage2(pol) == ButterfliesAt(Stage4(pol), 2)
Stage1(pol) == ButterfliesAt(Stage2(pol), 1)
Stage(pol, l) ==
    CASE l = 256 -> pol [] l = 128 -> Stage128(pol) [] l = 64 -> Stage64(pol) [] l = 32 -> Stage32(pol)
      [] l = 16 -> Stage16(pol) [] l = 8 -> Stage8(pol) [] l = 4 -> Stage4(pol) [] l = 2 -> Stage2(pol)
      [] l = 1 -> Stage1(pol)

LEMMA StageIs ==
    ASSUME NEW pol
    PROVE  /\ Stage(pol, 256) = pol /\ Stage(pol, 128) = Stage128(pol) /\ Stage(pol, 64) = Stage64(pol)
           /\ Stage(pol, 32) = Stage32(pol) /\ Stage(pol, 16) = Stage16(pol) /\ Stage(pol, 8) = Stage8(pol)
           /\ Stage(pol, 4) = Stage4(pol) /\ Stage(pol, 2) = Stage2(pol) /\ Stage(pol, 1) = Stage1(pol)
  BY SMT DEF Stage

LEMMA StageNext ==
    ASSUME NEW pol, NEW l \in Lens
    PROVE  Stage(pol, l) = ButterfliesAt(Stage(pol, 2*l), l)
<1>1. \/ l = 1 \/ l = 2 \/ l = 4 \/ l = 8 \/ l = 16 \/ l = 32 \/ l = 64 \/ l = 128
  BY DEF Lens
<1> QED BY ONLY <1>1, StageIs, SMT DEF Stage128, Stage64, Stage32, Stage16, Stage8, Stage4, Stage2, Stage1

LEMMA StagePolynomial ==
    ASSUME NEW pol \in Polynomials
    PROVE  Stage(pol, 256) \in Polynomials /\ \A l \in Lens : Stage(pol, l) \in Polynomials
<1>1. \A l \in Lens : Stage(pol, 2*l) \in Polynomials => Stage(pol, l) \in Polynomials
  BY StageNext, ButterfliesPolynomial
<1>2. 1 \in Lens /\ 2 \in Lens /\ 4 \in Lens /\ 8 \in Lens /\ 16 \in Lens /\ 32 \in Lens /\ 64 \in Lens /\ 128 \in Lens
  BY DEF Lens
<1>3. 2*1 = 2 /\ 2*2 = 4 /\ 2*4 = 8 /\ 2*8 = 16 /\ 2*16 = 32 /\ 2*32 = 64 /\ 2*64 = 128 /\ 2*128 = 256
  BY SMT
<1>4. Stage(pol, 256) \in Polynomials
  BY StageIs
<1>5. Stage(pol, 128) \in Polynomials
  BY ONLY <1>1, <1>2, <1>3, <1>4, SMT
<1>6. Stage(pol, 64) \in Polynomials
  BY ONLY <1>1, <1>2, <1>3, <1>5, SMT
<1>7. Stage(pol, 32) \in Polynomials
  BY ONLY <1>1, <1>2, <1>3, <1>6, SMT
<1>8. Stage(pol, 16) \in Polynomials
  BY ONLY <1>1, <1>2, <1>3, <1>7, SMT
<1>9. Stage(pol, 8) \in Polynomials
  BY ONLY <1>1, <1>2, <1>3, <1>8, SMT
<1>10. Stage(pol, 4) \in Polynomials
  BY ONLY <1>1, <1>2, <1>3, <1>9, SMT
<1>11. Stage(pol, 2) \in Polynomials
  BY ONLY <1>1, <1>2, <1>3, <1>10, SMT
<1>12. Stage(pol, 1) \in Polynomials
  BY ONLY <1>1, <1>2, <1>3, <1>11, SMT
<1> QED BY <1>4, <1>5, <1>6, <1>7, <1>8, <1>9, <1>10, <1>11, <1>12, SMT DEF Lens


NumbersIn(h, m) == \A idx \in 0..m-1 : h[idx] \in Int

LEMMA HalvesIs ==
    ASSUME NEW n \in Nat, NEW h, NumbersIn(h, 2*n), NEW idx \in 0..n-1
    PROVE  /\ h[idx] \in Int /\ h[idx+n] \in Int
           /\ Halves(h, n)[idx] \in 0..Q-1 /\ Halves(h, n)[idx] \in Int
           /\ Congruent(Halves(h, n)[idx], h[idx] + h[idx+n])
<1>1. idx \in 0..2*n-1 /\ idx + n \in 0..2*n-1
  OBVIOUS
<1>2. h[idx] \in Int /\ h[idx+n] \in Int /\ h[idx] + h[idx+n] \in Int
  BY <1>1 DEF NumbersIn
<1>3. Halves(h, n)[idx] = (h[idx] + h[idx+n]) % Q
  BY DEF Halves
<1> QED BY <1>2, <1>3, CongruentMod, ResidueInt

LEMMA HalvesNumbers ==
    ASSUME NEW n \in Nat, NEW h, NumbersIn(h, 2*n)
    PROVE  NumbersIn(Halves(h, n), n)
  BY HalvesIs DEF NumbersIn

\* The power that the value at place j of the transform belongs to.
Point(j) == 2*Reversed(j) + 1

LEMMA PointIs == ASSUME NEW j \in 0..N-1 PROVE Point(j) \in Nat
<1>1. Reversed(j) \in 0..N-1 /\ \A x \in 0..N-1 : x \in Nat
  <2>1. \A x \in 0..N-1 : x \in Nat
    BY SMT DEF N
  <2> QED BY <2>1, ReversedRange
<1>2. Reversed(j) \in Nat
  BY ONLY <1>1, Zenon
<1> QED BY <1>2 DEF Point

LEMMA TurnSign ==
    ASSUME NEW l \in Lens, NEW j \in 0..N-1
    PROVE  /\ l*Point(j) \in Nat
           /\ LowOf(j, l) => Congruent(PW(l*Point(j)), Turn(j, l))
           /\ ~LowOf(j, l) => Congruent(PW(l*Point(j)), -Turn(j, l))
<1>1. PICK x : x = l*Point(j)
  OBVIOUS
<1>2. x \in Nat
  BY <1>1, LensIs, PointIs, SMT
<1>3. PICK y : y = Reversed(Entry(j, l))
  OBVIOUS
<1>4. y \in Nat /\ y <= 255
  <2>1. Entry(j, l) \in 0..N-1
    <3>1. Entry(j, l) \in 1..N-1
      BY LayersFit DEF Halving
    <3> QED BY <3>1 DEF N
  <2>2. y \in 0..N-1
    BY <1>3, <2>1, ReversedRange
  <2> QED BY <2>2, SMT DEF N
<1>5. x % 512 = y + IF LowOf(j, l) THEN 0 ELSE 256
  BY <1>1, <1>3, LayersFit DEF Turns, Point
<1>6. LowOf(j, l) => PW(x) = PW(y)
  <2>1. LowOf(j, l) => x % 512 = y % 512
    BY <1>4, <1>5, SMT
  <2> QED BY <2>1 DEF PW
<1>7. ~LowOf(j, l) => PW(x) = PW(y + 256)
  <2>1. ~LowOf(j, l) => x % 512 = (y + 256) % 512
    BY <1>4, <1>5, SMT
  <2> QED BY <2>1 DEF PW
<1>8. PW(y) \in Int /\ Congruent(PW(y + 256), -PW(y)) /\ Turn(j, l) = PW(y)
  BY <1>3, <1>4, PWIn, HalfTurn DEF Turn
<1> QED BY <1>1, <1>2, <1>6, <1>7, <1>8, CongruentSame

\* Half of the terms added to the others, with their power of x.
Folded(v, l, x) == [idx \in 0..l-1 |-> v[idx] + PW(l*x)*v[idx+l]]

\* Before a layer the part of arr with place j holds the v that the value at
\* j's point is found from, and w the terms of the sum for that value.
EvaluatedBy(arr, w, v, m, j) ==
    /\ arr \in Polynomials /\ NumbersIn(w, m) /\ NumbersIn(v, m)
    /\ \A idx \in 0..m-1 : Congruent(arr[PartStart(j, m) + idx], v[idx])
    /\ \A idx \in 0..m-1 : Congruent(w[idx], v[idx]*PW(idx*Point(j)))

LEMMA EvaluateOne ==
    ASSUME NEW l \in Lens, NEW j \in 0..N-1, NEW arr, NEW w, NEW v,
           EvaluatedBy(arr, w, v, 2*l, j), NEW idx \in 0..l-1
    PROVE  /\ v[idx] + PW(l*Point(j))*v[idx+l] \in Int
           /\ Congruent(ButterfliesAt(arr, l)[PartStart(j, l) + idx], v[idx] + PW(l*Point(j))*v[idx+l])
<1>1. PICK a : a = PartStart(j, l) + idx
  OBVIOUS
<1>2. /\ a \in 0..N-1 /\ (LowOf(a, l) <=> LowOf(j, l)) /\ Turn(a, l) = Turn(j, l)
      /\ PartStart(j, 2*l) + idx = IF LowOf(j, l) THEN a ELSE a - l
  BY <1>1, LayersFit DEF Starts, Turn
<1>3. idx \in 0..2*l-1 /\ idx + l \in 0..2*l-1 /\ l \in Int /\ idx \in Int /\ a \in Int
  BY <1>2, LensIs
<1>4. PICK x, y, z, t : x = v[idx] /\ y = v[idx+l] /\ z = Turn(j, l) /\ t = PW(l*Point(j))
  OBVIOUS
<1>5. x \in Int /\ y \in Int /\ z \in Int /\ t \in Int
  <2>1. v[idx] \in Int /\ v[idx+l] \in Int
    BY <1>3 DEF EvaluatedBy, NumbersIn
  <2> QED BY <1>4, <2>1, TurnIs, TurnSign, PWIn
<1>6. arr \in Polynomials
  BY DEF EvaluatedBy
<1>7. t*y \in Int /\ x + t*y \in Int /\ z*y \in Int
  BY <1>5, SMT
<1>8. PICK s : s = PartStart(j, 2*l)
  OBVIOUS
<1>9. Congruent(arr[s + idx], x) /\ Congruent(arr[s + (idx + l)], y)
  BY <1>3, <1>4, <1>8 DEF EvaluatedBy
<1>10. s \in Int
  <2>1. j \div (2*l) \in Int /\ 2*l \in Int
    <3>1. PICK m \in Nat \ {0} : m = 2*l
      BY LensIs
    <3>2. j \in Int
      BY DEF N
    <3>3. j \div m \in Int
      BY <3>2, SMT
    <3> QED BY <3>1, <3>3
  <2>2. (2*l)*(j \div (2*l)) \in Int
    BY <2>1, SMT
  <2> QED BY <1>8, <2>2 DEF PartStart
<1>11. CASE LowOf(j, l)
  <2>1. s + idx = a /\ s + (idx + l) = a + l
    BY <1>2, <1>3, <1>8, <1>10, <1>11
  <2>2. Congruent(arr[a], x) /\ Congruent(arr[a+l], y)
    BY <1>9, <2>1
  <2>3. Congruent(ButterfliesAt(arr, l)[a], arr[a] + z*arr[a+l])
    BY <1>2, <1>4, <1>6, <1>11, ButterflyLow
  <2>4. Congruent(z*arr[a+l], z*y)
    BY <1>5, <2>2, CongruentTimesOne
  <2>5. Congruent(arr[a] + z*arr[a+l], x + z*y)
    BY <2>2, <2>4, CongruentSum
  <2>6. Congruent(x + z*y, x + t*y)
    <3>1. Congruent(z, t)
      BY <1>4, <1>11, TurnSign, CongruentBack
    <3>2. Congruent(z*y, t*y)
      BY <1>5, <3>1, CongruentTimesOne
    <3> QED BY <1>5, <3>2, CongruentSame, CongruentSum
  <2>7. Congruent(ButterfliesAt(arr, l)[a], x + z*y)
    BY <2>3, <2>5, CongruentOn
  <2>8. Congruent(ButterfliesAt(arr, l)[a], x + t*y)
    BY <2>6, <2>7, CongruentOn
  <2> QED BY <1>1, <1>4, <1>7, <2>8
<1>12. CASE ~LowOf(j, l)
  <2>1. s + idx = a - l /\ s + (idx + l) = a
    BY <1>2, <1>3, <1>8, <1>10, <1>12
  <2>2. Congruent(arr[a-l], x) /\ Congruent(arr[a], y)
    BY <1>9, <2>1
  <2>3. Congruent(ButterfliesAt(arr, l)[a], arr[a-l] - z*arr[a])
    BY <1>2, <1>4, <1>6, <1>12, ButterflyHigh
  <2>4. Congruent(z*arr[a], z*y)
    BY <1>5, <2>2, CongruentTimesOne
  <2>5. Congruent(arr[a-l] - z*arr[a], x - z*y)
    BY <2>2, <2>4, CongruentSum
  <2>6. Congruent(x - z*y, x + t*y)
    <3>1. Congruent(-z, t)
      BY <1>4, <1>12, TurnSign, CongruentBack
    <3>2. Congruent((-z)*y, t*y)
      BY <1>5, <3>1, CongruentTimesOne
    <3>3. x - z*y = x + (-z)*y
      BY <1>5, SMT
    <3> QED BY <1>5, <3>2, <3>3, CongruentSame, CongruentSum
  <2>7. Congruent(ButterfliesAt(arr, l)[a], x - z*y)
    BY <2>3, <2>5, CongruentOn
  <2>8. Congruent(ButterfliesAt(arr, l)[a], x + t*y)
    BY <2>6, <2>7, CongruentOn
  <2> QED BY <1>1, <1>4, <1>7, <2>8
<1> QED BY <1>11, <1>12

LEMMA TermsFold ==
    ASSUME NEW l \in Nat, NEW x \in Nat, NEW w, NEW v, NumbersIn(w, 2*l), NumbersIn(v, 2*l),
           \A idx \in 0..2*l-1 : Congruent(w[idx], v[idx]*PW(idx*x)), NEW idx \in 0..l-1
    PROVE  Congruent(Halves(w, l)[idx], (v[idx] + PW(l*x)*v[idx+l])*PW(idx*x))
<1>1. idx \in 0..2*l-1 /\ idx + l \in 0..2*l-1 /\ idx \in Nat
  OBVIOUS
<1>2. idx*x \in Nat /\ l*x \in Nat /\ (idx + l)*x = idx*x + l*x
  BY <1>1, SMT
<1>3. PICK a, b, s, t, res : a = v[idx] /\ b = v[idx+l] /\ s = PW(idx*x) /\ t = PW(l*x) /\ res = PW((idx+l)*x)
  OBVIOUS
<1>4. a \in Int /\ b \in Int /\ s \in Int /\ t \in Int /\ res \in Int /\ Congruent(res, s*t)
  <2>1. a \in Int /\ b \in Int
    BY <1>1, <1>3 DEF NumbersIn
  <2>2. Congruent(PW(idx*x + l*x), PW(idx*x)*PW(l*x))
    BY <1>2, PowerLaw
  <2>3. s \in Int /\ t \in Int /\ res \in Int
    <3>1. idx*x + l*x \in Nat
      BY <1>2
    <3> QED BY <1>2, <1>3, <3>1, PWIn
  <2> QED BY <1>2, <1>3, <2>1, <2>2, <2>3
<1>5. Congruent(w[idx], a*s) /\ Congruent(w[idx+l], b*res)
  BY <1>1, <1>3
<1>6. Congruent(b*res, b*(s*t))
  BY <1>4, CongruentTimesOne
<1>7. Congruent(w[idx+l], b*(s*t))
  BY <1>5, <1>6, CongruentOn
<1>8. Congruent(w[idx] + w[idx+l], a*s + b*(s*t))
  BY <1>5, <1>7, CongruentSum
<1>9. a*s + b*(s*t) = (a + t*b)*s
  BY <1>4, SMT
<1>10. Congruent(Halves(w, l)[idx], w[idx] + w[idx+l])
  BY HalvesIs
<1> QED BY <1>3, <1>8, <1>9, <1>10, CongruentOn

LEMMA EvaluateStep ==
    ASSUME NEW l \in Lens, NEW j \in 0..N-1, NEW arr, NEW w, NEW v, EvaluatedBy(arr, w, v, 2*l, j)
    PROVE  EvaluatedBy(ButterfliesAt(arr, l), Halves(w, l), Folded(v, l, Point(j)), l, j)
<1>1. PICK x : x = Point(j)
  OBVIOUS
<1>2. x \in Nat /\ l \in Nat
  BY <1>1, PointIs, LensIs
<1>3. /\ arr \in Polynomials /\ NumbersIn(w, 2*l) /\ NumbersIn(v, 2*l)
      /\ \A idx \in 0..2*l-1 : Congruent(w[idx], v[idx]*PW(idx*x))
  BY <1>1 DEF EvaluatedBy
<1>4. ButterfliesAt(arr, l) \in Polynomials /\ NumbersIn(Halves(w, l), l)
  BY <1>2, <1>3, ButterfliesPolynomial, HalvesNumbers
<1>5. PICK res : res = Folded(v, l, x)
  OBVIOUS
<1>6. \A idx \in 0..l-1 : res[idx] = v[idx] + PW(l*x)*v[idx+l]
  BY <1>5 DEF Folded
<1>7. \A idx \in 0..l-1 : res[idx] \in Int /\ Congruent(ButterfliesAt(arr, l)[PartStart(j, l) + idx], res[idx])
  BY <1>1, <1>6, EvaluateOne
<1>8. \A idx \in 0..l-1 : Congruent(Halves(w, l)[idx], res[idx]*PW(idx*x))
  BY <1>2, <1>3, <1>6, TermsFold
<1> QED BY <1>1, <1>4, <1>5, <1>7, <1>8 DEF EvaluatedBy, NumbersIn

\* What holds before the layers and is kept by each holds after all.
LEMMA Down ==
    ASSUME NEW S, 256 \in S, \A l \in Lens : 2*l \in S => l \in S
    PROVE  Lens \subseteq S
<1>1. 1 \in Lens /\ 2 \in Lens /\ 4 \in Lens /\ 8 \in Lens /\ 16 \in Lens /\ 32 \in Lens /\ 64 \in Lens /\ 128 \in Lens
  BY DEF Lens
<1>2. 2*1 = 2 /\ 2*2 = 4 /\ 2*4 = 8 /\ 2*8 = 16 /\ 2*16 = 32 /\ 2*32 = 64 /\ 2*64 = 128 /\ 2*128 = 256
  BY SMT
<1>3. 128 \in S
  BY <1>1, <1>2, SMT
<1>4. 64 \in S
  BY <1>1, <1>2, <1>3, SMT
<1>5. 32 \in S
  BY <1>1, <1>2, <1>4, SMT
<1>6. 16 \in S
  BY <1>1, <1>2, <1>5, SMT
<1>7. 8 \in S
  BY <1>1, <1>2, <1>6, SMT
<1>8. 4 \in S
  BY <1>1, <1>2, <1>7, SMT
<1>9. 2 \in S
  BY <1>1, <1>2, <1>8, SMT
<1>10. 1 \in S
  BY <1>1, <1>2, <1>9, SMT
<1> QED BY <1>3, <1>4, <1>5, <1>6, <1>7, <1>8, <1>9, <1>10, SMT DEF Lens

\* h after the halvings down to l.
Part128(h) == Halves(h, 128)
Part64(h) == Halves(Part128(h), 64)
Part32(h) == Halves(Part64(h), 32)
Part16(h) == Halves(Part32(h), 16)
Part8(h) == Halves(Part16(h), 8)
Part4(h) == Halves(Part8(h), 4)
Part2(h) == Halves(Part4(h), 2)
Part1(h) == Halves(Part2(h), 1)
Part(h, l) ==
    CASE l = 256 -> h [] l = 128 -> Part128(h) [] l = 64 -> Part64(h) [] l = 32 -> Part32(h)
      [] l = 16 -> Part16(h) [] l = 8 -> Part8(h) [] l = 4 -> Part4(h) [] l = 2 -> Part2(h)
      [] l = 1 -> Part1(h)

LEMMA PartIs ==
    ASSUME NEW h
    PROVE  /\ Part(h, 256) = h /\ Part(h, 128) = Part128(h) /\ Part(h, 64) = Part64(h)
           /\ Part(h, 32) = Part32(h) /\ Part(h, 16) = Part16(h) /\ Part(h, 8) = Part8(h)
           /\ Part(h, 4) = Part4(h) /\ Part(h, 2) = Part2(h) /\ Part(h, 1) = Part1(h)
  BY SMT DEF Part

LEMMA PartNext ==
    ASSUME NEW h, NEW l \in Lens
    PROVE  Part(h, l) = Halves(Part(h, 2*l), l)
<1>1. \/ l = 1 \/ l = 2 \/ l = 4 \/ l = 8 \/ l = 16 \/ l = 32 \/ l = 64 \/ l = 128
  BY DEF Lens
<1> QED BY ONLY <1>1, PartIs, SMT DEF Part128, Part64, Part32, Part16, Part8, Part4, Part2, Part1

LEMMA SumIs == ASSUME NEW h PROVE SumModQ(h) = Part(h, 1)[0]
  BY PartIs, Zenon DEF SumModQ, Part128, Part64, Part32, Part16, Part8, Part4, Part2, Part1

LEMMA OneIn == 1 \in Lens /\ 0 \in 0..1-1 /\ 256 = N
  BY SMT DEF Lens, N

LEMMA SumRange == ASSUME NEW h, NumbersIn(h, N) PROVE SumModQ(h) \in 0..Q-1 /\ SumModQ(h) \in Int
<1>1. PICK S : S = {m \in Nat : NumbersIn(Part(h, m), m)}
  OBVIOUS
<1>2. 256 \in S
  <2>1. 256 \in Nat /\ NumbersIn(Part(h, 256), 256)
    BY OneIn, PartIs
  <2> QED BY <1>1, <2>1
<1>3. ASSUME NEW l \in Lens, 2*l \in S PROVE l \in S
  <2>1. l \in Nat
    BY LensIs
  <2>2. NumbersIn(Part(h, 2*l), 2*l)
    BY <1>1, <1>3
  <2>3. NumbersIn(Part(h, l), l)
    BY <2>1, <2>2, PartNext, HalvesNumbers
  <2> QED BY <1>1, <2>1, <2>3
<1>4. Lens \subseteq S
  BY <1>2, <1>3, Down
<1>5. 2 \in Lens /\ 2*1 = 2 /\ 1 \in Nat
  BY SMT DEF Lens
<1>6. NumbersIn(Part(h, 2*1), 2*1)
  BY <1>1, <1>4, <1>5
<1>7. Halves(Part(h, 2*1), 1)[0] \in 0..Q-1
  BY <1>5, <1>6, OneIn, HalvesIs
<1> QED BY <1>7, OneIn, PartNext, SumIs, ResidueInt

Terms(pol, x) == [idx \in 0..N-1 |-> Times(pol[idx], PW(idx*x))]

LEMMA TermsAre ==
    ASSUME NEW pol \in Polynomials, NEW x \in Nat
    PROVE  /\ NumbersIn(Terms(pol, x), N) /\ ValueAt(pol, x) = SumModQ(Terms(pol, x))
           /\ \A idx \in 0..N-1 : /\ Terms(pol, x)[idx] \in 0..Q-1 /\ Terms(pol, x)[idx] \in Int
                                  /\ Congruent(Terms(pol, x)[idx], pol[idx]*PW(idx*x))
<1>1. 2*N = 512
  BY SMT DEF N
<1>2. ValueAt(pol, x) = SumModQ(Terms(pol, x))
  BY <1>1 DEF ValueAt, Terms, PW
<1>3. ASSUME NEW idx \in 0..N-1
      PROVE  /\ Terms(pol, x)[idx] \in 0..Q-1 /\ Terms(pol, x)[idx] \in Int
             /\ Congruent(Terms(pol, x)[idx], pol[idx]*PW(idx*x))
  <2>1. idx \in Nat
    BY SMT DEF N
  <2>2. idx*x \in Nat
    BY <2>1, SMT
  <2>3. pol[idx] \in 0..Q-1 /\ PW(idx*x) \in 0..Q-1
    BY <2>2, PWIn DEF Polynomials
  <2>4. Terms(pol, x)[idx] = Times(pol[idx], PW(idx*x))
    BY DEF Terms
  <2> QED BY <2>3, <2>4, TimesIs, ResidueInt
<1> QED BY <1>2, <1>3 DEF NumbersIn

\* The layers of ntt leave the values at the odd powers of the root.
LEMMA Evaluates ==
    ASSUME NEW pol \in Polynomials, NEW j \in 0..N-1
    PROVE  Stage(pol, 1)[j] = ValueAt(pol, 2*Reversed(j) + 1)
<1>1. PICK x, h : x = Point(j) /\ h = Terms(pol, x)
  OBVIOUS
<1>2. x \in Nat
  BY <1>1, PointIs
<1>3. PICK S : S = {m \in Nat : \E v : EvaluatedBy(Stage(pol, m), Part(h, m), v, m, j)}
  OBVIOUS
<1>4. 256 \in S
  <2>1. NumbersIn(pol, N) /\ \A idx \in 0..N-1 : Congruent(h[idx], pol[idx]*PW(idx*x))
    <3>1. \A idx \in 0..N-1 : pol[idx] \in Int
      BY ResidueInt DEF Polynomials
    <3> QED BY <1>1, <1>2, <3>1, TermsAre DEF NumbersIn
  <2>2. \A idx \in 0..N-1 : PartStart(j, N) + idx = idx
    BY SMT DEF PartStart, N
  <2>3. \A idx \in 0..N-1 : Congruent(pol[PartStart(j, N) + idx], pol[idx])
    BY <2>1, <2>2, CongruentSame DEF NumbersIn
  <2>4. EvaluatedBy(pol, h, pol, N, j)
    BY <1>1, <1>2, <2>1, <2>3, TermsAre DEF EvaluatedBy
  <2>5. 256 \in Nat /\ EvaluatedBy(Stage(pol, 256), Part(h, 256), pol, 256, j)
    BY <2>4, OneIn, StageIs, PartIs
  <2> QED BY <1>3, <2>5
<1>5. ASSUME NEW l \in Lens, 2*l \in S PROVE l \in S
  <2>1. PICK v : EvaluatedBy(Stage(pol, 2*l), Part(h, 2*l), v, 2*l, j)
    BY <1>3, <1>5
  <2>2. EvaluatedBy(Stage(pol, l), Part(h, l), Folded(v, l, Point(j)), l, j)
    BY <2>1, EvaluateStep, StageNext, PartNext
  <2>3. l \in Nat
    BY LensIs
  <2> QED BY <1>3, <2>2, <2>3
<1>6. 1 \in S
  BY <1>4, <1>5, Down, OneIn
<1>7. PICK v : EvaluatedBy(Stage(pol, 1), Part(h, 1), v, 1, j)
  BY <1>3, <1>6
<1>8. /\ v[0] \in Int /\ Congruent(Stage(pol, 1)[PartStart(j, 1) + 0], v[0])
      /\ Congruent(Part(h, 1)[0], v[0]*PW(0*x))
  BY <1>1, <1>7, OneIn DEF EvaluatedBy, NumbersIn
<1>9. PartStart(j, 1) + 0 = j
  BY SMT DEF PartStart, N
<1>10. v[0]*PW(0*x) = v[0]
  <2>1. 0*x = 0 /\ 0 % 512 = 0
    BY <1>2, SMT
  <2>2. PW(0*x) = 1
    BY <2>1, PowersLawHolds DEF PW, PowersLaw
  <2> QED BY <1>8, <2>2
<1>11. Congruent(Stage(pol, 1)[j], Part(h, 1)[0])
  BY <1>8, <1>9, <1>10, CongruentBack, CongruentOn
<1>12. Stage(pol, 1)[j] \in 0..Q-1
  <2>1. Stage(pol, 1) \in [0..N-1 -> 0..Q-1]
    BY StagePolynomial, OneIn, Zenon DEF Polynomials
  <2>2. j \in 0..N-1
    OBVIOUS
  <2> QED BY ONLY <2>1, <2>2, Zenon
<1>13. Part(h, 1)[0] = ValueAt(pol, x) /\ ValueAt(pol, x) \in 0..Q-1
  BY <1>1, <1>2, TermsAre, SumIs, SumRange
<1> QED BY <1>1, <1>11, <1>12, <1>13, CongruentEqual DEF Point

\* A place of the whole and the two it comes from.
HalfPlaces(n) ==
    \A d \in Int :
      /\ d % n \in 0..n-1 /\ d % (2*n) \in 0..2*n-1
      /\ \/ d % (2*n) = d % n /\ (d + n) % (2*n) = (d % n) + n
         \/ d % (2*n) = (d % n) + n /\ (d + n) % (2*n) = d % n

LEMMA HalfPlacesHold == ASSUME NEW n \in Lens PROVE HalfPlaces(n)
<1>1. \/ n = 1 \/ n = 2 \/ n = 4 \/ n = 8 \/ n = 16 \/ n = 32 \/ n = 64 \/ n = 128
  BY DEF Lens
<1>2. HalfPlaces(1)
  BY ONLY SMT DEF HalfPlaces
<1>3. HalfPlaces(2)
  BY ONLY SMT DEF HalfPlaces
<1>4. HalfPlaces(4)
  BY ONLY SMT DEF HalfPlaces
<1>5. HalfPlaces(8)
  BY ONLY SMT DEF HalfPlaces
<1>6. HalfPlaces(16)
  BY ONLY SMT DEF HalfPlaces
<1>7. HalfPlaces(32)
  BY ONLY SMT DEF HalfPlaces
<1>8. HalfPlaces(64)
  BY ONLY SMT DEF HalfPlaces
<1>9. HalfPlaces(128)
  BY ONLY SMT DEF HalfPlaces
<1> QED BY ONLY <1>1, <1>2, <1>3, <1>4, <1>5, <1>6, <1>7, <1>8, <1>9, SMT

\* pol is c times h, turned by idx places.
TurnedBy(pol, h, c, idx, m) ==
    /\ NumbersIn(pol, m) /\ NumbersIn(h, m)
    /\ \A j \in 0..m-1 : Congruent(pol[j], c*h[(j-idx) % m])

LEMMA TurnHalves ==
    ASSUME NEW n \in Lens, NEW c \in Int, NEW idx \in Int, NEW pol, NEW h, TurnedBy(pol, h, c, idx, 2*n)
    PROVE  TurnedBy(Halves(pol, n), Halves(h, n), c, idx, n)
<1>1. n \in Nat /\ NumbersIn(pol, 2*n) /\ NumbersIn(h, 2*n)
  BY LensIs DEF TurnedBy
<1>2. ASSUME NEW j \in 0..n-1
      PROVE  Congruent(Halves(pol, n)[j], c*Halves(h, n)[(j-idx) % n])
  <2>1. PICK d \in Int : d = j - idx
    BY <1>1
  <2>2. PICK e : e = d % n
    OBVIOUS
  <2>3. /\ e \in 0..n-1 /\ d % (2*n) \in 0..2*n-1 /\ (d + n) % (2*n) \in 0..2*n-1
        /\ \/ d % (2*n) = e /\ (d + n) % (2*n) = e + n
           \/ d % (2*n) = e + n /\ (d + n) % (2*n) = e
    <3>1. d + n \in Int
      BY <1>1
    <3> QED BY <2>2, <3>1, HalfPlacesHold DEF HalfPlaces
  <2>4. PICK x, y : x = h[e] /\ y = h[e+n]
    OBVIOUS
  <2>5. x \in Int /\ y \in Int /\ Congruent(Halves(h, n)[e], x + y)
    BY <1>1, <2>3, <2>4, HalvesIs
  <2>6. j \in 0..2*n-1 /\ j + n \in 0..2*n-1 /\ (j + n) - idx = d + n
    BY <1>1, <2>1
  <2>7. Congruent(pol[j], c*h[d % (2*n)]) /\ Congruent(pol[j+n], c*h[(d+n) % (2*n)])
    BY <2>1, <2>6 DEF TurnedBy
  <2>8. Congruent(pol[j] + pol[j+n], c*(x + y))
    <3>1. Congruent(pol[j] + pol[j+n], c*h[d % (2*n)] + c*h[(d+n) % (2*n)])
      BY <2>7, CongruentSum
    <3>2. c*h[d % (2*n)] + c*h[(d+n) % (2*n)] = c*(x + y)
      <4>1. c*x + c*y = c*(x + y) /\ c*y + c*x = c*(x + y)
        BY <2>5, SMT
      <4> QED BY <2>3, <2>4, <4>1
    <3> QED BY <3>1, <3>2
  <2>9. Congruent(Halves(pol, n)[j], pol[j] + pol[j+n])
    BY <1>1, HalvesIs
  <2>10. Congruent(c*(x + y), c*Halves(h, n)[e])
    BY <2>5, CongruentBack, CongruentTimesOne
  <2>11. Congruent(Halves(pol, n)[j], c*(x + y))
    BY <2>8, <2>9, CongruentOn
  <2> QED BY <2>1, <2>2, <2>10, <2>11, CongruentOn
<1> QED BY <1>1, <1>2, HalvesNumbers DEF TurnedBy

LEMMA SumTurned ==
    ASSUME NEW c \in Int, NEW idx \in Int, NEW pol, NEW h, TurnedBy(pol, h, c, idx, N)
    PROVE  Congruent(SumModQ(pol), c*SumModQ(h))
<1>1. PICK S : S = {m \in Nat : TurnedBy(Part(pol, m), Part(h, m), c, idx, m)}
  OBVIOUS
<1>2. 256 \in S
  <2>1. 256 \in Nat /\ TurnedBy(Part(pol, 256), Part(h, 256), c, idx, 256)
    BY OneIn, PartIs
  <2> QED BY <1>1, <2>1
<1>3. ASSUME NEW l \in Lens, 2*l \in S PROVE l \in S
  <2>1. l \in Nat
    BY LensIs
  <2>2. TurnedBy(Part(pol, 2*l), Part(h, 2*l), c, idx, 2*l)
    BY <1>1, <1>3
  <2>3. TurnedBy(Part(pol, l), Part(h, l), c, idx, l)
    BY <2>2, PartNext, TurnHalves
  <2> QED BY <1>1, <2>1, <2>3
<1>4. TurnedBy(Part(pol, 1), Part(h, 1), c, idx, 1)
  BY <1>1, <1>2, <1>3, Down, OneIn
<1>5. (0 - idx) % 1 = 0
  BY SMT
<1> QED BY <1>4, <1>5, OneIn, SumIs DEF TurnedBy

LEMMA Unturned == \A j \in 0..N-1 : (j - 0) % N = j
  BY SMT DEF N

LEMMA SumScaled ==
    ASSUME NEW c \in Int, NEW pol, NEW h, NumbersIn(pol, N), NumbersIn(h, N),
           \A j \in 0..N-1 : Congruent(pol[j], c*h[j])
    PROVE  Congruent(SumModQ(pol), c*SumModQ(h))
<1>1. TurnedBy(pol, h, c, 0, N)
  <2>1. ASSUME NEW j \in 0..N-1 PROVE Congruent(pol[j], c*h[(j-0) % N])
    <3>1. Congruent(pol[j], c*h[j]) /\ (j - 0) % N = j
      BY Unturned
    <3> QED BY ONLY <3>1, Zenon
  <2> QED BY <2>1, Zenon DEF TurnedBy
<1> QED BY <1>1, SumTurned, 0 \in Int

\* h is the sum of f and pol.
Adds(h, f, pol, m) ==
    /\ NumbersIn(h, m) /\ NumbersIn(f, m) /\ NumbersIn(pol, m)
    /\ \A j \in 0..m-1 : Congruent(h[j], f[j] + pol[j])

LEMMA AddHalves ==
    ASSUME NEW n \in Lens, NEW h, NEW f, NEW pol, Adds(h, f, pol, 2*n)
    PROVE  Adds(Halves(h, n), Halves(f, n), Halves(pol, n), n)
<1>1. n \in Nat /\ NumbersIn(h, 2*n) /\ NumbersIn(f, 2*n) /\ NumbersIn(pol, 2*n)
  BY LensIs DEF Adds
<1>2. ASSUME NEW j \in 0..n-1
      PROVE  Congruent(Halves(h, n)[j], Halves(f, n)[j] + Halves(pol, n)[j])
  <2>1. PICK x, y, z, t : x = f[j] /\ y = f[j+n] /\ z = pol[j] /\ t = pol[j+n]
    OBVIOUS
  <2>2. /\ x \in Int /\ y \in Int /\ z \in Int /\ t \in Int
        /\ Congruent(Halves(h, n)[j], h[j] + h[j+n])
        /\ Congruent(Halves(f, n)[j], x + y) /\ Congruent(Halves(pol, n)[j], z + t)
    BY <1>1, <2>1, HalvesIs
  <2>3. j \in 0..2*n-1 /\ j + n \in 0..2*n-1
    BY <1>1
  <2>4. Congruent(h[j], x + z) /\ Congruent(h[j+n], y + t)
    BY <2>1, <2>3 DEF Adds
  <2>5. Congruent(h[j] + h[j+n], (x + z) + (y + t))
    BY <2>4, CongruentSum
  <2>6. Congruent((x + y) + (z + t), Halves(f, n)[j] + Halves(pol, n)[j])
    BY <2>2, CongruentBack, CongruentSum
  <2>7. (x + z) + (y + t) = (x + y) + (z + t)
    BY <2>2
  <2>8. Congruent(Halves(h, n)[j], (x + y) + (z + t))
    BY <2>2, <2>5, <2>7, CongruentOn
  <2> QED BY <2>6, <2>8, CongruentOn
<1> QED BY <1>1, <1>2, HalvesNumbers DEF Adds

LEMMA SumAdds ==
    ASSUME NEW h, NEW f, NEW pol, Adds(h, f, pol, N)
    PROVE  Congruent(SumModQ(h), SumModQ(f) + SumModQ(pol))
<1>1. PICK S : S = {m \in Nat : Adds(Part(h, m), Part(f, m), Part(pol, m), m)}
  OBVIOUS
<1>2. 256 \in S
  <2>1. 256 \in Nat /\ Adds(Part(h, 256), Part(f, 256), Part(pol, 256), 256)
    BY OneIn, PartIs
  <2> QED BY <1>1, <2>1
<1>3. ASSUME NEW l \in Lens, 2*l \in S PROVE l \in S
  <2>1. l \in Nat
    BY LensIs
  <2>2. Adds(Part(h, 2*l), Part(f, 2*l), Part(pol, 2*l), 2*l)
    BY <1>1, <1>3
  <2>3. Adds(Part(h, l), Part(f, l), Part(pol, l), l)
    BY <2>2, PartNext, AddHalves
  <2> QED BY <1>1, <2>1, <2>3
<1>4. Adds(Part(h, 1), Part(f, 1), Part(pol, 1), 1)
  BY <1>1, <1>2, <1>3, Down, OneIn
<1> QED BY <1>4, OneIn, SumIs DEF Adds

\* res[j] is the sum of the row j, for the columns c.
RowOf(c, j) == [idx \in 0..N-1 |-> c[idx][j]]
RowSums(res, c, m) ==
    /\ NumbersIn(res, m) /\ \A idx \in 0..N-1 : NumbersIn(c[idx], m)
    /\ \A j \in 0..m-1 : Congruent(res[j], SumModQ(RowOf(c, j)))

LEMMA RowHalves ==
    ASSUME NEW n \in Lens, NEW res, NEW c, RowSums(res, c, 2*n)
    PROVE  RowSums(Halves(res, n), [idx \in 0..N-1 |-> Halves(c[idx], n)], n)
<1>1. n \in Nat /\ NumbersIn(res, 2*n) /\ \A idx \in 0..N-1 : NumbersIn(c[idx], 2*n)
  BY LensIs DEF RowSums
<1>2. PICK d : d = [idx \in 0..N-1 |-> Halves(c[idx], n)]
  OBVIOUS
<1>3. \A idx \in 0..N-1 : NumbersIn(d[idx], n)
  BY <1>1, <1>2, HalvesNumbers
<1>4. ASSUME NEW j \in 0..n-1
      PROVE  Congruent(Halves(res, n)[j], SumModQ(RowOf(d, j)))
  <2>1. j \in 0..2*n-1 /\ j + n \in 0..2*n-1
    BY <1>1
  <2>2. Congruent(res[j], SumModQ(RowOf(c, j))) /\ Congruent(res[j+n], SumModQ(RowOf(c, j+n)))
    BY <2>1 DEF RowSums
  <2>3. Adds(RowOf(d, j), RowOf(c, j), RowOf(c, j+n), N)
    <3>1. \A idx \in 0..N-1 : /\ RowOf(d, j)[idx] = Halves(c[idx], n)[j]
                              /\ RowOf(c, j)[idx] = c[idx][j] /\ RowOf(c, j+n)[idx] = c[idx][j+n]
      BY <1>2 DEF RowOf
    <3>2. \A idx \in 0..N-1 : /\ c[idx][j] \in Int /\ c[idx][j+n] \in Int /\ Halves(c[idx], n)[j] \in Int
                              /\ Congruent(Halves(c[idx], n)[j], c[idx][j] + c[idx][j+n])
      BY <1>1, HalvesIs
    <3> QED BY <3>1, <3>2 DEF Adds, NumbersIn
  <2>4. Congruent(SumModQ(RowOf(c, j)) + SumModQ(RowOf(c, j+n)), SumModQ(RowOf(d, j)))
    BY <2>3, SumAdds, CongruentBack
  <2>5. Congruent(res[j] + res[j+n], SumModQ(RowOf(c, j)) + SumModQ(RowOf(c, j+n)))
    BY <2>2, CongruentSum
  <2>6. Congruent(Halves(res, n)[j], res[j] + res[j+n])
    BY <1>1, HalvesIs
  <2>7. Congruent(Halves(res, n)[j], SumModQ(RowOf(c, j)) + SumModQ(RowOf(c, j+n)))
    BY <2>5, <2>6, CongruentOn
  <2> QED BY <2>4, <2>7, CongruentOn
<1> QED BY <1>1, <1>2, <1>3, <1>4, HalvesNumbers DEF RowSums

\* The order of summation does not matter.
LEMMA SumExchange ==
    ASSUME NEW res, NEW c, RowSums(res, c, N)
    PROVE  Congruent(SumModQ(res), SumModQ([idx \in 0..N-1 |-> SumModQ(c[idx])]))
<1> DEFINE Cols(m) == [idx \in 0..N-1 |-> Part(c[idx], m)]
<1>1. PICK S : S = {m \in Nat : RowSums(Part(res, m), Cols(m), m)}
  OBVIOUS
<1>2. 256 \in S
  <2>1. \A idx \in 0..N-1 : Cols(256)[idx] = c[idx]
    BY PartIs
  <2>2. \A j \in 0..N-1 : RowOf(Cols(256), j) = RowOf(c, j)
    BY <2>1 DEF RowOf
  <2>3. RowSums(res, Cols(256), N)
    BY <2>1, <2>2 DEF RowSums
  <2>4. 256 \in Nat /\ RowSums(Part(res, 256), Cols(256), 256)
    BY <2>3, OneIn, PartIs
  <2> QED BY <1>1, <2>4
<1>3. ASSUME NEW l \in Lens, 2*l \in S PROVE l \in S
  <2>1. l \in Nat
    BY LensIs
  <2>2. RowSums(Part(res, 2*l), Cols(2*l), 2*l)
    BY <1>1, <1>3
  <2>3. RowSums(Halves(Part(res, 2*l), l), [idx \in 0..N-1 |-> Halves(Cols(2*l)[idx], l)], l)
    BY <2>2, RowHalves
  <2>4. [idx \in 0..N-1 |-> Halves(Cols(2*l)[idx], l)] = Cols(l)
    <3>1. \A idx \in 0..N-1 : Halves(Cols(2*l)[idx], l) = Part(c[idx], l)
      BY PartNext
    <3> QED BY <3>1
  <2>5. RowSums(Part(res, l), Cols(l), l)
    BY <2>3, <2>4, PartNext
  <2> QED BY <1>1, <2>1, <2>5
<1>4. RowSums(Part(res, 1), Cols(1), 1)
  BY <1>1, <1>2, <1>3, Down, OneIn
<1>5. RowOf(Cols(1), 0) = [idx \in 0..N-1 |-> SumModQ(c[idx])]
  BY SumIs DEF RowOf
<1> QED BY <1>4, <1>5, OneIn, SumIs DEF RowSums

LEMMA Distance ==
    ASSUME NEW idx \in 0..N-1, NEW j \in 0..N-1
    PROVE  /\ idx \in Nat /\ j \in Nat /\ j - idx \in Int /\ (j - idx) % N \in 0..N-1 /\ (j - idx) % N \in Nat
           /\ (j - idx >= 0 => (j - idx) % N = j - idx)
           /\ (~(j - idx >= 0) => (j - idx) % N = N + (j - idx) /\ idx + ((j - idx) % N) = j + 256)
<1>1. \A x, y \in Int : 0 <= x /\ x <= 255 /\ 0 <= y /\ y <= 255 =>
        /\ x \in Nat /\ y \in Nat /\ y - x \in Int /\ 0 <= (y - x) % 256 /\ (y - x) % 256 <= 255
        /\ (y - x) % 256 \in Nat /\ (y - x >= 0 => (y - x) % 256 = y - x)
        /\ (~(y - x >= 0) => (y - x) % 256 = 256 + (y - x) /\ x + ((y - x) % 256) = y + 256)
  BY SMT
<1>2. \A x : x \in 0..N-1 <=> x \in Int /\ 0 <= x /\ x <= 255
  BY SMT DEF N
<1>3. idx \in Int /\ 0 <= idx /\ idx <= 255 /\ j \in Int /\ 0 <= j /\ j <= 255 /\ N = 256
  BY ONLY idx \in 0..N-1, j \in 0..N-1, <1>2, SMT DEF N
<1>4. PICK x, y, n \in Int : x = idx /\ y = j /\ n = N
  BY <1>3
<1>5. /\ x \in Nat /\ y \in Nat /\ y - x \in Int /\ 0 <= (y - x) % n /\ (y - x) % n <= 255
      /\ (y - x) % n \in Nat /\ (y - x >= 0 => (y - x) % n = y - x)
      /\ (~(y - x >= 0) => (y - x) % n = n + (y - x) /\ x + ((y - x) % n) = y + 256)
  BY ONLY <1>1, <1>3, <1>4, SMT
<1>6. (y - x) % n \in 0..N-1
  BY ONLY <1>2, <1>5, SMT
<1> QED BY ONLY <1>4, <1>5, <1>6, Zenon

LEMMA WrappedIs ==
    ASSUME NEW q \in Polynomials, NEW idx \in 0..N-1, NEW j \in 0..N-1
    PROVE  /\ Wrapped(q, j - idx) \in 0..Q-1 /\ Wrapped(q, j - idx) \in Int
           /\ j - idx >= 0 => Wrapped(q, j - idx) = q[(j-idx) % N]
           /\ ~(j - idx >= 0) => Congruent(Wrapped(q, j - idx), -q[(j-idx) % N])
<1>1. PICK d : d = (j - idx) % N
  OBVIOUS
<1>2. d \in 0..N-1 /\ (j - idx >= 0 => d = j - idx) /\ (~(j - idx >= 0) => d = N + (j - idx))
  BY <1>1, Distance
<1>3. q[d] \in 0..Q-1 /\ q[d] \in Int /\ -q[d] \in Int
  BY <1>2, ResidueInt DEF Polynomials
<1>4. Wrapped(q, j - idx) = IF j - idx >= 0 THEN q[d] ELSE (-q[d]) % Q
  BY <1>2 DEF Wrapped
<1>5. (-q[d]) % Q \in 0..Q-1 /\ Congruent((-q[d]) % Q, -q[d])
  BY <1>3, CongruentMod
<1> QED BY <1>1, <1>3, <1>4, <1>5, ResidueInt

\* A term of the product is a term of q, turned.
LEMMA WrappedTurns ==
    ASSUME NEW q \in Polynomials, NEW y \in Nat, NEW x, x = 2*y + 1,
           NEW idx \in 0..N-1, NEW j \in 0..N-1
    PROVE  Congruent(Wrapped(q, j - idx)*PW(j*x), PW(idx*x)*Terms(q, x)[(j-idx) % N])
<1>1. PICK d : d = (j - idx) % N
  OBVIOUS
<1>2. /\ idx \in Nat /\ j \in Nat /\ d \in Nat /\ d \in 0..N-1 /\ x \in Nat
      /\ (j - idx >= 0 => idx + d = j) /\ (~(j - idx >= 0) => idx + d = j + 256)
  <2>1. x \in Nat
    OBVIOUS
  <2>2. /\ idx \in Nat /\ j \in Nat /\ d \in Nat /\ d \in 0..N-1
        /\ (j - idx >= 0 => d = j - idx) /\ (~(j - idx >= 0) => idx + d = j + 256)
    <3>1. /\ idx \in Nat /\ j \in Nat /\ j - idx \in Int /\ (j - idx) % N \in 0..N-1 /\ (j - idx) % N \in Nat
          /\ (j - idx >= 0 => (j - idx) % N = j - idx)
          /\ (~(j - idx >= 0) => (j - idx) % N = N + (j - idx) /\ idx + ((j - idx) % N) = j + 256)
      BY Distance
    <3> QED BY ONLY <1>1, <3>1, Zenon
  <2>3. j - idx >= 0 => idx + d = j
    BY ONLY <2>2, SMT
  <2> QED BY <2>1, <2>2, <2>3
<1>3. PICK ix, jx, dx : ix = idx*x /\ jx = j*x /\ dx = d*x
  OBVIOUS
<1>4. ix \in Nat /\ jx \in Nat /\ dx \in Nat
  BY <1>2, <1>3, SMT
<1>5. PICK arr, s, t, v, w :
        arr = PW(ix) /\ s = PW(jx) /\ t = PW(dx) /\ v = q[d] /\ w = Wrapped(q, j - idx)
  OBVIOUS
<1>6. arr \in Int /\ s \in Int /\ t \in Int /\ v \in Int /\ w \in Int
  BY <1>2, <1>4, <1>5, PWIn, ResidueInt, WrappedIs DEF Polynomials
<1>7. Congruent(PW(ix + dx), arr*t)
  BY <1>4, <1>5, PowerLaw
<1>8. Congruent(w*s, v*(arr*t))
  <2>1. CASE j - idx >= 0
    <3>1. ix + dx = jx
      BY <1>2, <1>3, <2>1, SMT
    <3>2. w = v
      BY <1>1, <1>5, <2>1, WrappedIs
    <3>3. Congruent(s, arr*t)
      BY <1>5, <1>7, <3>1
    <3> QED BY <1>6, <3>2, <3>3, CongruentTimesOne
  <2>2. CASE ~(j - idx >= 0)
    <3>1. ix + dx = jx + 256*x
      <4>1. idx*x + d*x = (idx + d)*x /\ (j + 256)*x = j*x + 256*x
        BY <1>2, SMT
      <4> QED BY <1>2, <1>3, <2>2, <4>1
    <3>2. (jx + 256*x) % 512 = (jx + 256) % 512
      <4>1. jx + 256*x = (jx + 256) + 512*y
        BY <1>4
      <4> QED BY <1>4, <4>1, SMT
    <3>3. PW(ix + dx) = PW(jx + 256)
      BY <3>1, <3>2 DEF PW
    <3>4. Congruent(PW(jx + 256), -s)
      BY <1>4, <1>5, HalfTurn
    <3>5. Congruent(-s, arr*t)
      BY <1>7, <3>3, <3>4, CongruentBack, CongruentOn
    <3>6. Congruent(v*(-s), v*(arr*t))
      BY <1>6, <3>5, CongruentTimesOne
    <3>7. Congruent(w*s, (-v)*s)
      <4>1. Congruent(w, -v)
        BY <1>1, <1>5, <2>2, WrappedIs
      <4> QED BY <1>6, <4>1, CongruentTimesOne
    <3>8. (-v)*s = v*(-s)
      BY <1>6, SMT
    <3> QED BY <3>6, <3>7, <3>8, CongruentOn
  <2> QED BY <2>1, <2>2
<1>9. PICK h : h = Terms(q, x)[d]
  OBVIOUS
<1>10. Congruent(h, v*t)
  BY <1>2, <1>3, <1>5, <1>9, TermsAre
<1>11. Congruent(arr*(v*t), arr*h)
  BY <1>6, <1>10, CongruentBack, CongruentTimesOne
<1>12. v*(arr*t) = arr*(v*t)
  BY <1>6, SMT
<1>13. Congruent(w*s, arr*h)
  BY <1>8, <1>11, <1>12, CongruentOn
<1> QED BY <1>1, <1>3, <1>5, <1>9, <1>13

ProductRow(p, q, j) == [idx \in 0..N-1 |-> Times(p[idx], Wrapped(q, j - idx))]

LEMMA ProductRowIs ==
    ASSUME NEW p \in Polynomials, NEW q \in Polynomials, NEW j \in 0..N-1
    PROVE  /\ NumbersIn(ProductRow(p, q, j), N)
           /\ NaiveMul(p, q)[j] = SumModQ(ProductRow(p, q, j))
           /\ \A idx \in 0..N-1 : Congruent(ProductRow(p, q, j)[idx], p[idx]*Wrapped(q, j - idx))
<1>1. ASSUME NEW idx \in 0..N-1
      PROVE  /\ ProductRow(p, q, j)[idx] \in Int
             /\ Congruent(ProductRow(p, q, j)[idx], p[idx]*Wrapped(q, j - idx))
  <2>1. p[idx] \in 0..Q-1 /\ Wrapped(q, j - idx) \in 0..Q-1
    BY WrappedIs DEF Polynomials
  <2>2. ProductRow(p, q, j)[idx] = Times(p[idx], Wrapped(q, j - idx))
    BY DEF ProductRow
  <2> QED BY <2>1, <2>2, TimesIs, ResidueInt
<1>2. NaiveMul(p, q)[j] = SumModQ(ProductRow(p, q, j))
  BY DEF NaiveMul, ProductRow
<1> QED BY <1>1, <1>2 DEF NumbersIn

LEMMA NaiveMulPolynomial ==
    ASSUME NEW p \in Polynomials, NEW q \in Polynomials
    PROVE  NaiveMul(p, q) \in Polynomials
<1>1. \A j \in 0..N-1 : NaiveMul(p, q)[j] \in 0..Q-1
  BY ProductRowIs, SumRange
<1> QED BY <1>1 DEF NaiveMul, Polynomials

\* The value of the product modulo x^N + 1, at an odd power of the root, is
\* the product of the values.
LEMMA ProductEvaluates ==
    ASSUME NEW p \in Polynomials, NEW q \in Polynomials, NEW y \in Nat, NEW x, x = 2*y + 1
    PROVE  /\ x \in Nat /\ ValueAt(p, x) \in 0..Q-1 /\ ValueAt(q, x) \in 0..Q-1
           /\ Congruent(ValueAt(NaiveMul(p, q), x), ValueAt(p, x)*ValueAt(q, x))
<1>1. x \in Nat
  OBVIOUS
<1>2. PICK c, res, f, h : c = NaiveMul(p, q) /\ res = Terms(c, x) /\ f = Terms(p, x) /\ h = Terms(q, x)
  OBVIOUS
<1>3. c \in Polynomials
  BY <1>2, NaiveMulPolynomial
<1>4. /\ ValueAt(c, x) = SumModQ(res) /\ ValueAt(p, x) = SumModQ(f) /\ ValueAt(q, x) = SumModQ(h)
      /\ NumbersIn(res, N) /\ NumbersIn(f, N) /\ NumbersIn(h, N)
  BY <1>1, <1>2, <1>3, TermsAre
<1>5. PICK a, b : a = SumModQ(f) /\ b = SumModQ(h)
  OBVIOUS
<1>6. a \in 0..Q-1 /\ b \in 0..Q-1 /\ a \in Int /\ b \in Int
  BY <1>4, <1>5, SumRange
<1>7. PICK C : C = [idx \in 0..N-1 |-> [j \in 0..N-1 |-> (p[idx]*Wrapped(q, j - idx))*PW(j*x)]]
  OBVIOUS
<1>8. ASSUME NEW idx \in 0..N-1, NEW j \in 0..N-1
      PROVE  /\ p[idx] \in Int /\ Wrapped(q, j - idx) \in Int /\ PW(j*x) \in Int /\ PW(idx*x) \in Int
             /\ C[idx][j] = (p[idx]*Wrapped(q, j - idx))*PW(j*x) /\ C[idx][j] \in Int
  <2>1. idx*x \in Nat /\ j*x \in Nat
    <3>1. idx \in Nat /\ j \in Nat
      BY Distance
    <3> QED BY <1>1, <3>1, SMT
  <2>2. p[idx] \in Int /\ Wrapped(q, j - idx) \in Int /\ PW(j*x) \in Int /\ PW(idx*x) \in Int
    BY <2>1, PWIn, WrappedIs, ResidueInt DEF Polynomials
  <2>3. (p[idx]*Wrapped(q, j - idx))*PW(j*x) \in Int
    BY <2>2, SMT
  <2>4. C[idx][j] = (p[idx]*Wrapped(q, j - idx))*PW(j*x)
    BY <1>7
  <2> QED BY <2>2, <2>3, <2>4
<1>9. \A idx \in 0..N-1 : NumbersIn(C[idx], N)
  BY <1>8 DEF NumbersIn
<1>10. ASSUME NEW j \in 0..N-1 PROVE Congruent(res[j], SumModQ(RowOf(C, j)))
  <2>1. PICK z, s, row : z = PW(j*x) /\ s = c[j] /\ row = ProductRow(p, q, j)
    OBVIOUS
  <2>2. z \in Int /\ s \in Int
    BY <1>3, <1>8, <2>1, ResidueInt DEF Polynomials
  <2>3. Congruent(res[j], s*z)
    BY <1>1, <1>2, <1>3, <2>1, TermsAre
  <2>4. NumbersIn(row, N) /\ s = SumModQ(row)
    BY <1>2, <2>1, ProductRowIs
  <2>5. ASSUME NEW idx \in 0..N-1 PROVE RowOf(C, j)[idx] \in Int /\ Congruent(RowOf(C, j)[idx], z*row[idx])
    <3>1. PICK t : t = p[idx]*Wrapped(q, j - idx)
      OBVIOUS
    <3>2. t \in Int
      <4>1. \A a1, a2 \in Int : a1*a2 \in Int
        BY SMT
      <4> QED BY <1>8, <3>1, <4>1, Zenon
    <3>3. RowOf(C, j)[idx] = t*z /\ t*z \in Int
      <4>1. RowOf(C, j)[idx] = C[idx][j]
        BY DEF RowOf
      <4>2. C[idx][j] = t*z /\ C[idx][j] \in Int
        BY <1>8, <2>1, <3>1, Zenon
      <4> QED BY ONLY <4>1, <4>2, Zenon
    <3>4. Congruent(t, row[idx])
      BY <2>1, <3>1, ProductRowIs, CongruentBack
    <3>5. Congruent(z*t, z*row[idx]) /\ t*z = z*t
      <4>1. \A a1, a2 \in Int : a1*a2 = a2*a1
        BY SMT
      <4>2. t*z = z*t
        BY <2>2, <3>2, <4>1, Zenon
      <4> QED BY ONLY <2>2, <3>4, <4>2, CongruentTimesOne, Zenon
    <3> QED BY ONLY <3>3, <3>5, Zenon
  <2>6. Congruent(SumModQ(RowOf(C, j)), z*s)
    BY <2>2, <2>4, <2>5, SumScaled DEF NumbersIn
  <2>7. s*z = z*s
    BY <2>2, SMT
  <2> QED BY <2>3, <2>6, <2>7, CongruentBack, CongruentOn
<1>11. RowSums(res, C, N)
  BY <1>4, <1>9, <1>10 DEF RowSums
<1>12. PICK pol : pol = [idx \in 0..N-1 |-> SumModQ(C[idx])]
  OBVIOUS
<1>13. Congruent(SumModQ(res), SumModQ(pol))
  BY <1>11, <1>12, SumExchange
<1>14. ASSUME NEW idx \in 0..N-1 PROVE pol[idx] \in Int /\ Congruent(pol[idx], b*f[idx])
  <2>1. PICK z, t, k : z = PW(idx*x) /\ t = p[idx] /\ k = p[idx]*PW(idx*x)
    OBVIOUS
  <2>2. z \in Int /\ t \in Int /\ k = t*z /\ k \in Int /\ idx \in Int
    <3>1. z \in Int /\ t \in Int
      BY <1>8, <2>1
    <3>2. t*z \in Int
      BY <3>1, SMT
    <3> QED BY <2>1, <3>1, <3>2, Distance
  <2>3. ASSUME NEW j \in 0..N-1 PROVE Congruent(C[idx][j], k*h[(j-idx) % N])
    <3>1. PICK w, s, e : w = Wrapped(q, j - idx) /\ s = PW(j*x) /\ e = h[(j-idx) % N]
      OBVIOUS
    <3>2. w \in Int /\ s \in Int /\ e \in Int /\ C[idx][j] = (t*w)*s
      <4>1. (j - idx) % N \in 0..N-1
        BY Distance
      <4> QED BY <1>4, <1>8, <2>1, <3>1, <4>1 DEF NumbersIn
    <3>3. Congruent(w*s, z*e)
      BY <1>2, <2>1, <3>1, WrappedTurns
    <3>4. Congruent(t*(w*s), t*(z*e))
      BY <2>2, <3>3, CongruentTimesOne
    <3>5. (t*w)*s = t*(w*s) /\ t*(z*e) = (t*z)*e
      BY <2>2, <3>2, SMT
    <3> QED BY <2>2, <3>1, <3>2, <3>4, <3>5
  <2>4. TurnedBy(C[idx], h, k, idx, N)
    BY <1>4, <1>9, <2>3 DEF TurnedBy
  <2>5. Congruent(pol[idx], k*b)
    BY <1>5, <1>12, <2>2, <2>4, SumTurned
  <2>6. Congruent(t*z, f[idx])
    BY <1>1, <1>2, <2>1, TermsAre, CongruentBack
  <2>7. Congruent(b*(t*z), b*f[idx]) /\ (t*z)*b = b*(t*z)
    <3>1. b \in Int /\ t*z \in Int
      BY <1>6, <2>2, SMT
    <3>2. Congruent(b*(t*z), b*f[idx])
      BY ONLY <2>6, <3>1, CongruentTimesOne, Zenon
    <3>3. (t*z)*b = b*(t*z)
      BY ONLY <3>1, SMT
    <3> QED BY <3>2, <3>3
  <2>8. pol[idx] \in Int
    BY <2>5 DEF Congruent
  <2> QED BY <2>2, <2>5, <2>7, <2>8, CongruentOn
<1>15. Congruent(SumModQ(pol), b*a)
  BY <1>4, <1>5, <1>6, <1>14, SumScaled DEF NumbersIn
<1>16. b*a = a*b
  BY <1>6, SMT
<1> QED BY <1>1, <1>2, <1>4, <1>5, <1>6, <1>13, <1>15, <1>16, CongruentOn

\* arr is c times p.
Multiple(arr, c, p) ==
    /\ arr \in Polynomials /\ c \in Int /\ p \in Polynomials
    /\ \A j \in 0..N-1 : Congruent(arr[j], c*p[j])

\* A layer of invntt_tomont.
InverseButterfliesAt(p, l) ==
    [j \in 0..N-1 |-> IF LowOf(j, l) THEN (p[j] + p[j+l]) % Q
                      ELSE Times(MinusZetaOver32[BackEntry(j, l)], (p[j-l] - p[j]) % Q)]

LEMMA IntProduct == \A x, y \in Int : x*y \in Int /\ x*y = y*x
  BY SMT

LEMMA ZetasCancel ==
    ASSUME NEW l \in Lens, NEW j \in 0..N-1
    PROVE  /\ MinusZetaOver32[BackEntry(j, l)] \in 0..Q-1
           /\ Congruent(MinusZetaOver32[BackEntry(j, l)]*Turn(j, l), 1)
<1>1. PICK e, b : e = Entry(j, l) /\ b = BackEntry(j, l)
  OBVIOUS
<1>2. e \in 1..N-1 /\ b \in 1..N-1 /\ Reversed(e) + Reversed(b) = 256
  BY <1>1, LayersFit DEF Halving
<1>3. PICK m, x, y : m = MinusZetaOver32[b] /\ x = Reversed(e) /\ y = Reversed(b)
  OBVIOUS
<1>4. x \in Nat /\ y \in Nat /\ m \in 0..Q-1 /\ Congruent(m, -PW(y)) /\ x + y = 256
  BY <1>2, <1>3, ZetaIs
<1>5. PICK z, t : z = PW(x) /\ t = PW(y)
  OBVIOUS
<1>6. z \in Int /\ t \in Int /\ m \in Int
  BY <1>4, <1>5, PWIn, ResidueInt
<1>7. Congruent(z*t, -1)
  <2>1. Congruent(PW(x + y), z*t)
    BY <1>4, <1>5, PowerLaw
  <2>2. 256 % 512 = 256
    BY SMT
  <2>3. PW(x + y) = Powers[256]
    BY <1>4, <2>2 DEF PW
  <2> QED BY <2>1, <2>3, MinusOne, CongruentBack, CongruentOn
<1>8. Congruent(m*z, (-t)*z)
  BY <1>4, <1>5, <1>6, CongruentTimesOne
<1>9. (-t)*z = 0 - z*t /\ 0 - (-1) = 1 /\ 0 \in Int
  BY <1>6, SMT
<1>10. Congruent(0 - z*t, 0 - (-1))
  BY <1>7, <1>9, CongruentSame, CongruentSum
<1>11. Congruent(m*z, 1)
  BY <1>8, <1>9, <1>10, CongruentOn
<1> QED BY <1>1, <1>3, <1>4, <1>5, <1>11 DEF Turn

\* Both halves of a layer's result, of a place in the low half.
LEMMA LayerPair ==
    ASSUME NEW l \in Lens, NEW p, NEW c, NEW arr, p \in Polynomials, Multiple(arr, c, ButterfliesAt(p, l)),
           NEW j \in 0..N-1, LowOf(j, l)
    PROVE  /\ j + l \in 0..N-1 /\ ~LowOf(j + l, l) /\ (j + l) - l = j
           /\ p[j] \in Int /\ p[j+l] \in Int /\ Turn(j + l, l) = Turn(j, l)
           /\ Congruent(arr[j], c*(p[j] + Turn(j, l)*p[j+l]))
           /\ Congruent(arr[j+l], c*(p[j] - Turn(j, l)*p[j+l]))
<1>1. PICK k : k = j + l
  OBVIOUS
<1>2. k \in 0..N-1 /\ ~LowOf(k, l) /\ Entry(k, l) = Entry(j, l)
  BY <1>1, LayersFit DEF Partners
<1>3. k - l = j
  <2>1. j \in Int /\ l \in Int
    BY LensIs DEF N
  <2> QED BY <1>1, <2>1
<1>4. PICK x, y, z : x = p[j] /\ y = p[k] /\ z = Turn(j, l)
  OBVIOUS
<1>5. x \in Int /\ y \in Int /\ z \in Int /\ Turn(k, l) = z /\ c \in Int
  BY <1>2, <1>4, TurnIs, ResidueInt DEF Polynomials, Turn, Multiple
<1>6. PICK b : b = ButterfliesAt(p, l)
  OBVIOUS
<1>7. Congruent(b[j], x + z*y)
  BY <1>1, <1>4, <1>6, ButterflyLow
<1>8. Congruent(b[k], x - z*y)
  BY <1>2, <1>3, <1>4, <1>5, <1>6, ButterflyHigh
<1>9. Congruent(arr[j], c*b[j]) /\ Congruent(arr[k], c*b[k])
  BY <1>2, <1>6 DEF Multiple
<1>10. Congruent(c*b[j], c*(x + z*y)) /\ Congruent(c*b[k], c*(x - z*y))
  BY <1>5, <1>7, <1>8, CongruentTimesOne
<1>11. Congruent(arr[j], c*(x + z*y)) /\ Congruent(arr[k], c*(x - z*y))
  BY <1>9, <1>10, CongruentOn
<1> QED BY <1>1, <1>2, <1>3, <1>4, <1>5, <1>11

\* A layer of invntt_tomont undoes one of ntt, but for a factor 2.
LEMMA LayerUndone ==
    ASSUME NEW l \in Lens, NEW p \in Polynomials, NEW c, NEW arr, Multiple(arr, c, ButterfliesAt(p, l))
    PROVE  Multiple(InverseButterfliesAt(arr, l), 2*c, p)
<1>1. arr \in Polynomials /\ c \in Int /\ 2*c \in Int
  BY SMT DEF Multiple
<1>2. PICK res : res = InverseButterfliesAt(arr, l)
  OBVIOUS
<1>3. ASSUME NEW j \in 0..N-1, LowOf(j, l) PROVE res[j] \in 0..Q-1 /\ Congruent(res[j], (2*c)*p[j])
  <2>1. PICK x, y, z, t : x = p[j] /\ y = p[j+l] /\ z = Turn(j, l) /\ t = Turn(j, l)*p[j+l]
    OBVIOUS
  <2>2. /\ x \in Int /\ t \in Int /\ Congruent(arr[j], c*(x + t)) /\ Congruent(arr[j+l], c*(x - t))
    BY <1>3, <2>1, LayerPair, TurnIs, IntProduct
  <2>3. arr[j] + arr[j+l] \in Int
    BY <2>2 DEF Congruent
  <2>4. res[j] = (arr[j] + arr[j+l]) % Q
    BY <1>2, <1>3 DEF InverseButterfliesAt
  <2>5. res[j] \in 0..Q-1 /\ Congruent(res[j], arr[j] + arr[j+l])
    BY <2>3, <2>4, CongruentMod
  <2>6. Congruent(arr[j] + arr[j+l], c*(x + t) + c*(x - t))
    BY <2>2, CongruentSum
  <2>7. c*(x + t) + c*(x - t) = (2*c)*x
    BY <1>1, <2>2, SMT
  <2> QED BY <2>1, <2>5, <2>6, <2>7, CongruentOn
<1>4. ASSUME NEW j \in 0..N-1, ~LowOf(j, l) PROVE res[j] \in 0..Q-1 /\ Congruent(res[j], (2*c)*p[j])
  <2>1. PICK idx : idx = j - l
    OBVIOUS
  <2>2. idx \in 0..N-1 /\ LowOf(idx, l) /\ Entry(idx, l) = Entry(j, l)
    BY <1>4, <2>1, LayersFit DEF Partners
  <2>3. idx + l = j
    <3>1. j \in Int /\ l \in Int
      BY LensIs DEF N
    <3> QED BY <2>1, <3>1
  <2>4. PICK x, y, z, t : x = p[idx] /\ y = p[j] /\ z = Turn(j, l) /\ t = Turn(j, l)*p[j]
    OBVIOUS
  <2>5. z = Turn(idx, l)
    BY <2>2, <2>4 DEF Turn
  <2>6. /\ x \in Int /\ y \in Int /\ z \in Int /\ t \in Int /\ t = z*y
        /\ Congruent(arr[idx], c*(x + t)) /\ Congruent(arr[j], c*(x - t))
    <3>1. /\ p[idx] \in Int /\ p[idx+l] \in Int /\ Congruent(arr[idx], c*(p[idx] + Turn(idx, l)*p[idx+l]))
          /\ Congruent(arr[idx+l], c*(p[idx] - Turn(idx, l)*p[idx+l]))
      BY <2>2, LayerPair
    <3> QED BY <2>3, <2>4, <2>5, <3>1, TurnIs, IntProduct
  <2>7. PICK m, d : m = MinusZetaOver32[BackEntry(j, l)] /\ d = (arr[idx] - arr[j]) % Q
    OBVIOUS
  <2>8. m \in 0..Q-1 /\ Congruent(m*z, 1) /\ m \in Int
    BY <2>4, <2>7, ZetasCancel, ResidueInt
  <2>9. d \in 0..Q-1 /\ Congruent(d, arr[idx] - arr[j])
    <3>1. arr[idx] - arr[j] \in Int
      BY <2>6 DEF Congruent
    <3> QED BY <2>7, <3>1, CongruentMod
  <2>10. res[j] = Times(m, d)
    BY <1>2, <1>4, <2>1, <2>7 DEF InverseButterfliesAt
  <2>11. res[j] \in 0..Q-1 /\ Congruent(res[j], m*d)
    BY <2>8, <2>9, <2>10, TimesIs
  <2>12. Congruent(arr[idx] - arr[j], c*(x + t) - c*(x - t))
    BY <2>6, CongruentSum
  <2>13. c*(x + t) - c*(x - t) = (2*c)*(z*y)
    BY <1>1, <2>6, SMT
  <2>14. Congruent(d, (2*c)*(z*y))
    BY <2>9, <2>12, <2>13, CongruentOn
  <2>15. Congruent(m*d, m*((2*c)*(z*y)))
    BY <2>8, <2>14, CongruentTimesOne
  <2>16. PICK k, s : k = 2*c /\ s = (2*c)*y
    OBVIOUS
  <2>17. k \in Int /\ s \in Int /\ s = k*y
    BY <1>1, <2>6, <2>16, SMT
  <2>18. m*(k*(z*y)) = (m*z)*s
    BY <2>6, <2>8, <2>17, SMT
  <2>19. Congruent((m*z)*s, 1*s) /\ 1*s = s
    BY <2>8, <2>17, CongruentTimesOne
  <2>20. Congruent(m*d, s)
    BY <2>15, <2>16, <2>18, <2>19, CongruentOn
  <2> QED BY <2>4, <2>11, <2>16, <2>20, CongruentOn
<1>5. res \in Polynomials
  <2>1. \A j \in 0..N-1 : res[j] \in 0..Q-1
    BY <1>3, <1>4
  <2> QED BY <1>2, <2>1 DEF InverseButterfliesAt, Polynomials
<1> QED BY <1>1, <1>2, <1>3, <1>4, <1>5 DEF Multiple

\* c*p with the factor of the inverse transform is p.
LEMMA FactorIs == Congruent((41978*InverseOf32)*(InverseOf32*256), 1)
<1>1. PICK x \in Int : x = 8265825
  BY SMT
<1>2. InverseOf32 = x
  BY <1>1, SMT DEF InverseOf32
<1>3. PICK y, z \in Int : y = 41978*x /\ z = x*256
  BY <1>1, SMT
<1>4. Congruent(y, 16382)
  <2>1. Differ(y, 16382, 41404) /\ 16382 \in Int /\ 41404 \in Int
    BY <1>1, <1>3, SMT DEF Differ
  <2> QED BY <2>1 DEF Congruent
<1>5. PICK t \in Int : t = 4186116
  BY SMT
<1>6. Congruent(z, t)
  <2>1. Differ(z, t, 252) /\ 252 \in Int
    BY <1>1, <1>3, <1>5, SMT DEF Differ
  <2> QED BY ONLY <2>1, z \in Int, t \in Int, Zenon DEF Congruent
<1>7. PICK f, w \in Int : f = 16382 /\ w = 16382*t
  BY <1>5, SMT
<1>8. Congruent(w, 1)
  <2>1. PICK m \in Int : m = 8183
    BY SMT
  <2>2. Differ(w, 1, m) /\ 1 \in Int
    BY <1>5, <1>7, <2>1, SMT DEF Differ
  <2> QED BY ONLY <2>2, w \in Int, m \in Int, Zenon DEF Congruent
<1>9. Congruent(y*z, w)
  <2>1. Congruent(y*z, 16382*t)
    BY <1>4, <1>6, CongruentTimes
  <2> QED BY <1>7, <2>1
<1> QED BY <1>2, <1>3, <1>8, <1>9, CongruentOn

\* What the polynomials are at each point of a run.
Target == IF test = "inverse" THEN given[1] ELSE NaiveMul(given[1], given[2])

OperandsAre ==
    /\ given[1] \in Polynomials /\ given[2] \in Polynomials /\ test \in {"inverse", "product"}
    /\ cur \in {1, 2} /\ DOMAIN polys = {1, 2}
OtherIs ==
    /\ cur = 1 => polys[2] = given[2]
    /\ cur = 2 => polys[1] = Stage(given[1], 1)

NttInv ==
    /\ OperandsAre /\ pc \in {"ntt", "transformed", "invntt", "final", "done"}
    /\ pc = "ntt" => /\ len \in Lens /\ place = 128 \div len - 1 /\ OtherIs
                     /\ polys[cur] = Stage(given[cur], 2*len)
    /\ pc = "transformed" => OtherIs /\ polys[cur] = Stage(given[cur], 1)
    /\ pc = "invntt" => /\ len \in Lens /\ place = 256 \div len
                        /\ Multiple(polys[1], InverseOf32*len, Stage(Target, len))
    /\ pc = "final" => Multiple(polys[1], InverseOf32*256, Target)
    /\ pc = "done" => polys[1] = Target

LEMMA LenSteps ==
    ASSUME NEW l \in Lens
    PROVE  /\ 128 \div l \in Int /\ 256 \div l \in Int /\ l \in Nat
           /\ l > 1 => /\ l \div 2 \in Lens /\ 2*(l \div 2) = l
                       /\ (128 \div l - 1) + N \div (2*l) = 128 \div (l \div 2) - 1
           /\ ~(l > 1) => l = 1
           /\ 256 \div l - N \div (2*l) = 256 \div (2*l)
           /\ l < N \div 2 => 2*l \in Lens
           /\ ~(l < N \div 2) => 2*l = 256
<1>1. \/ l = 1 \/ l = 2 \/ l = 4 \/ l = 8 \/ l = 16 \/ l = 32 \/ l = 64 \/ l = 128
  BY DEF Lens
<1> QED BY ONLY <1>1, SMT DEF Lens, N

LEMMA TargetPolynomial == ASSUME OperandsAre PROVE Target \in Polynomials
  BY NaiveMulPolynomial DEF OperandsAre, Target

LEMMA ButterfliesAre ==
    ASSUME NEW p, len \in Lens, place = 128 \div len - 1
    PROVE  Butterflies(p) = ButterfliesAt(p, len)
<1>1. place + 1 = 128 \div len
  BY LenSteps
<1> QED BY <1>1 DEF Butterflies, ButterfliesAt, ForwardZeta, Block, LowHalf, LowOf, Entry

LEMMA InverseButterfliesAre ==
    ASSUME NEW p, len \in Lens, place = 256 \div len
    PROVE  InverseButterflies(p) = InverseButterfliesAt(p, len)
  BY DEF InverseButterflies, InverseButterfliesAt, BackwardZeta, Block, LowHalf, LowOf, BackEntry

LEMMA NttStarts == NInit => NttInv
<1> SUFFICES ASSUME NInit PROVE NttInv
  OBVIOUS
<1>1. given[1] \in Polynomials /\ given[2] \in Polynomials /\ DOMAIN given = {1, 2}
  <2>1. given \in Polynomials \X Polynomials
    BY NttAssumption DEF NInit
  <2> HIDE DEF Polynomials
  <2> QED BY <2>1
<1>2. N \div 2 \in Lens /\ 0 = 128 \div (N \div 2) - 1 /\ 2*(N \div 2) = 256
  BY SMT DEF Lens, N
<1> QED BY <1>1, <1>2, StageIs DEF NInit, NttInv, OperandsAre, OtherIs

LEMMA LayerKeeps == ASSUME NttInv, Layer PROVE NttInv'
<1>1. /\ OperandsAre /\ len \in Lens /\ place = 128 \div len - 1 /\ OtherIs
      /\ polys[cur] = Stage(given[cur], 2*len)
  BY DEF NttInv, Layer
<1>2. given' = given /\ test' = test /\ cur' = cur
  BY DEF Layer
<1>3. polys'[cur] = Stage(given[cur], len) /\ DOMAIN polys' = {1, 2}
      /\ \A idx \in {1, 2} : idx # cur => polys'[idx] = polys[idx]
  BY <1>1, ButterfliesAre, StageNext DEF Layer, OperandsAre
<1>4. OperandsAre' /\ OtherIs'
  BY <1>1, <1>2, <1>3 DEF OperandsAre, OtherIs
<1>5. CASE len > 1
  <2>1. len' = len \div 2 /\ pc' = "ntt" /\ place' = place + N \div (2*len)
    BY <1>5 DEF Layer
  <2>2. len' \in Lens /\ 2*len' = len /\ place' = 128 \div len' - 1
    BY <1>1, <1>5, <2>1, LenSteps
  <2> QED BY <1>2, <1>3, <1>4, <2>1, <2>2 DEF NttInv
<1>6. CASE ~(len > 1)
  <2>1. len = 1 /\ pc' = "transformed"
    BY <1>1, <1>6, LenSteps DEF Layer
  <2> QED BY <1>2, <1>3, <1>4, <2>1 DEF NttInv
<1> QED BY <1>5, <1>6

LEMMA SecondKeeps == ASSUME NttInv, SecondNtt PROVE NttInv'
<1>1. /\ OperandsAre /\ cur = 1 /\ polys[2] = given[2] /\ polys[1] = Stage(given[1], 1)
  BY DEF NttInv, SecondNtt, OtherIs
<1>2. /\ given' = given /\ test' = test /\ polys' = polys /\ cur' = 2
      /\ len' = N \div 2 /\ place' = 0 /\ pc' = "ntt"
  BY DEF SecondNtt
<1>3. N \div 2 \in Lens /\ 0 = 128 \div (N \div 2) - 1 /\ 2*(N \div 2) = 256
  BY SMT DEF Lens, N
<1> QED BY <1>1, <1>2, <1>3, StageIs DEF NttInv, OperandsAre, OtherIs

LEMMA ScaleIs == (-114592) % Q = InverseOf32
<1>1. PICK x \in Int : x = -114592
  BY SMT
<1>2. Differ(InverseOf32, x, 1) /\ 1 \in Int
  BY <1>1, SMT DEF InverseOf32, Differ
<1>3. Congruent(InverseOf32, x)
  BY <1>2, InverseIs, Zenon DEF Congruent
<1>4. x % Q \in 0..Q-1 /\ Congruent(x % Q, x)
  BY CongruentMod
<1>5. x % Q = InverseOf32
  BY <1>3, <1>4, InverseIs, CongruentBack, CongruentOn, CongruentEqual
<1> QED BY <1>1, <1>5, SMT

LEMMA IntAssoc == \A b, k, y \in Int : b*(k*y) = (b*k)*y /\ 1*y = y /\ b*1 = b
  BY SMT

LEMMA WholeIs == N = 256 \div 1
  BY SMT DEF N

\* The inverse transform is called with a multiple of a transform.
LEMMA NttInverseCalled ==
    ASSUME OperandsAre, CallInverse, DOMAIN polys' = {1, 2}, polys'[1] \in Polynomials,
           \A j \in 0..N-1 : Congruent(polys'[1][j], InverseOf32*Stage(Target, 1)[j])
    PROVE  NttInv'
<1>1. given' = given /\ test' = test /\ cur' = 1 /\ pc' = "invntt" /\ len' = 1 /\ place' = N
  BY DEF CallInverse
<1>2. OperandsAre' /\ Target' = Target
  BY <1>1 DEF OperandsAre, Target
<1>3. Stage(Target, 1) \in Polynomials
  BY TargetPolynomial, StagePolynomial, OneIn
<1>4. InverseOf32*1 = InverseOf32 /\ N = 256 \div 1
  BY ONLY WholeIs, InverseIs, IntAssoc, Zenon
<1>5. Multiple(polys'[1], InverseOf32*1, Stage(Target, 1))
  BY <1>3, <1>4, InverseIs DEF Multiple
<1> QED BY <1>1, <1>2, <1>4, <1>5, OneIn DEF NttInv

LEMMA ScaleKeeps == ASSUME NttInv, Scale PROVE NttInv'
<1>1. OperandsAre /\ polys[1] = Stage(given[1], 1) /\ Target = given[1] /\ CallInverse
  BY DEF NttInv, Scale, OtherIs, OperandsAre, Target
<1>2. PICK c : c = (-114592) % Q
  OBVIOUS
<1>3. c = InverseOf32
  BY <1>2, ScaleIs
<1>4. c \in 0..Q-1 /\ c \in Int
  BY <1>3, InverseIs
<1>5. PICK p : p = Stage(given[1], 1)
  OBVIOUS
<1>6. p \in Polynomials
  BY <1>1, <1>5, StagePolynomial, OneIn DEF OperandsAre
<1>7. polys'[1] = [j \in 0..N-1 |-> Times(p[j], c)] /\ DOMAIN polys' = {1, 2}
  BY <1>1, <1>2, <1>5 DEF Scale, OperandsAre
<1>8. ASSUME NEW j \in 0..N-1 PROVE polys'[1][j] \in 0..Q-1 /\ Congruent(polys'[1][j], c*p[j])
  <2>1. p[j] \in 0..Q-1 /\ p[j] \in Int
    BY <1>6, ResidueInt DEF Polynomials
  <2>2. Times(p[j], c) \in 0..Q-1 /\ Congruent(Times(p[j], c), p[j]*c) /\ p[j]*c = c*p[j]
    BY <1>4, <2>1, TimesIs, IntProduct
  <2> QED BY <1>7, <2>2
<1>9. polys'[1] \in Polynomials
  BY <1>7, <1>8 DEF Polynomials
<1> QED BY <1>1, <1>3, <1>5, <1>7, <1>8, <1>9, NttInverseCalled

LEMMA PointwiseKeeps == ASSUME NttInv, PointwiseMontgomery PROVE NttInv'
<1>1. /\ OperandsAre /\ polys[1] = Stage(given[1], 1) /\ polys[2] = Stage(given[2], 1)
      /\ Target = NaiveMul(given[1], given[2]) /\ CallInverse
  BY DEF NttInv, PointwiseMontgomery, OtherIs, Target
<1>2. PICK a, b, p, q, c : /\ a = given[1] /\ b = given[2] /\ p = Stage(a, 1) /\ q = Stage(b, 1)
                           /\ c = InverseOf32
  OBVIOUS
<1>3. /\ a \in Polynomials /\ b \in Polynomials /\ p \in Polynomials /\ q \in Polynomials
      /\ c \in 0..Q-1 /\ c \in Int
  BY <1>1, <1>2, StagePolynomial, OneIn, InverseIs DEF OperandsAre
<1>4. /\ polys'[1] = [j \in 0..N-1 |-> Times(Times(p[j], q[j]), c)] /\ DOMAIN polys' = {1, 2}
  BY <1>1, <1>2 DEF PointwiseMontgomery, OperandsAre
<1>5. ASSUME NEW j \in 0..N-1
      PROVE  polys'[1][j] \in 0..Q-1 /\ Congruent(polys'[1][j], c*Stage(Target, 1)[j])
  <2>1. PICK x, y, z, t : x = p[j] /\ y = q[j] /\ z = Times(p[j], q[j]) /\ t = Stage(NaiveMul(a, b), 1)[j]
    OBVIOUS
  <2>2. x \in 0..Q-1 /\ y \in 0..Q-1 /\ x \in Int /\ y \in Int
    BY <1>3, <2>1, ResidueInt DEF Polynomials
  <2>3. z \in 0..Q-1 /\ z \in Int /\ Congruent(z, x*y)
    BY <2>1, <2>2, TimesIs, ResidueInt
  <2>4. Congruent(t, x*y)
    <3>1. Reversed(j) \in Nat
      <4>1. Reversed(j) \in 0..N-1 /\ \A k \in 0..N-1 : k \in Nat
        BY ReversedRange, Distance
      <4> QED BY ONLY <4>1, Zenon
    <3>2. PICK k : k = 2*Reversed(j) + 1
      OBVIOUS
    <3>3. x = ValueAt(a, k) /\ y = ValueAt(b, k) /\ t = ValueAt(NaiveMul(a, b), k)
      BY <1>2, <1>3, <2>1, <3>2, Evaluates, NaiveMulPolynomial
    <3> QED BY <1>3, <3>1, <3>2, <3>3, ProductEvaluates
  <2>5. polys'[1][j] = Times(z, c)
    BY <1>4, <2>1
  <2>6. polys'[1][j] \in 0..Q-1 /\ Congruent(polys'[1][j], z*c)
    BY <1>3, <2>3, <2>5, TimesIs
  <2>7. Congruent(z, t)
    BY <2>3, <2>4, CongruentBack, CongruentOn
  <2>8. Congruent(c*z, c*t) /\ z*c = c*z
    BY <1>3, <2>3, <2>7, CongruentTimesOne, IntProduct
  <2> QED BY <1>1, <1>2, <2>1, <2>6, <2>8, CongruentOn
<1>6. polys'[1] \in Polynomials
  BY <1>4, <1>5 DEF Polynomials
<1> QED BY <1>1, <1>2, <1>4, <1>5, <1>6, NttInverseCalled

LEMMA InvLayerKeeps == ASSUME NttInv, InvLayer PROVE NttInv'
<1>1. /\ OperandsAre /\ len \in Lens /\ place = 256 \div len
      /\ Multiple(polys[1], InverseOf32*len, Stage(Target, len))
  BY DEF NttInv, InvLayer
<1>2. /\ given' = given /\ test' = test /\ cur' = cur /\ len' = 2*len /\ place' = place - N \div (2*len)
      /\ pc' = IF len < N \div 2 THEN "invntt" ELSE "final"
  BY DEF InvLayer
<1>3. polys'[1] = InverseButterfliesAt(polys[1], len) /\ DOMAIN polys' = {1, 2}
  BY <1>1, InverseButterfliesAre DEF InvLayer, OperandsAre
<1>4. OperandsAre' /\ Target' = Target
  BY <1>1, <1>2, <1>3 DEF OperandsAre, Target
<1>5. Stage(Target, 2*len) \in Polynomials
  <2>1. 2*len \in Lens \/ 2*len = 256
    BY <1>1, LenSteps
  <2> QED BY <1>1, <2>1, TargetPolynomial, StagePolynomial
<1>6. Multiple(polys'[1], 2*(InverseOf32*len), Stage(Target, 2*len))
  BY <1>1, <1>3, <1>5, StageNext, LayerUndone
<1>7. 2*(InverseOf32*len) = InverseOf32*(2*len)
  <2>1. len \in Int
    BY <1>1, LenSteps
  <2> QED BY <2>1, InverseIs, SMT
<1>8. Multiple(polys'[1], InverseOf32*len', Stage(Target, len'))
  BY <1>2, <1>6, <1>7
<1>9. place' = 256 \div len'
  BY <1>1, <1>2, LenSteps
<1>10. CASE len < N \div 2
  <2>1. len' \in Lens /\ pc' = "invntt"
    BY <1>1, <1>2, <1>10, LenSteps
  <2> QED BY <1>4, <1>8, <1>9, <2>1 DEF NttInv
<1>11. CASE ~(len < N \div 2)
  <2>1. len' = 256 /\ pc' = "final"
    BY <1>1, <1>2, <1>11, LenSteps
  <2>2. Multiple(polys'[1], InverseOf32*256, Target)
    BY <1>8, <2>1, StageIs
  <2> QED BY <1>4, <2>1, <2>2 DEF NttInv
<1> QED BY <1>10, <1>11

LEMMA FinalKeeps == ASSUME NttInv, Final PROVE NttInv'
<1>1. OperandsAre /\ Multiple(polys[1], InverseOf32*256, Target)
  BY DEF NttInv, Final
<1>2. given' = given /\ test' = test /\ cur' = cur /\ pc' = "done"
  BY DEF Final
<1>3. PICK c, k, p, t : c = Const(41978) /\ k = InverseOf32*256 /\ p = polys[1] /\ t = Target
  OBVIOUS
<1>4. polys'[1] = [j \in 0..N-1 |-> Times(c, p[j])] /\ DOMAIN polys' = {1, 2}
  BY <1>1, <1>3 DEF Final, OperandsAre
<1>5. OperandsAre' /\ Target' = Target
  BY <1>1, <1>2, <1>4 DEF OperandsAre, Target
<1>6. PICK b : b = 41978*InverseOf32
  OBVIOUS
<1>7. c \in 0..Q-1 /\ c \in Int /\ b \in Int /\ Congruent(c, b)
  <2>1. 41978 \in Int
    OBVIOUS
  <2>2. c \in 0..Q-1 /\ Congruent(c, b)
    BY <1>3, <1>6, <2>1, ConstIs
  <2> QED BY <2>2 DEF Congruent
<1>8. p \in Polynomials /\ t \in Polynomials /\ k \in Int /\ \A j \in 0..N-1 : Congruent(p[j], k*t[j])
  BY <1>1, <1>3 DEF Multiple
<1>9. ASSUME NEW j \in 0..N-1 PROVE polys'[1][j] = t[j]
  <2>1. PICK x, y : x = p[j] /\ y = t[j]
    OBVIOUS
  <2>2. x \in 0..Q-1 /\ y \in 0..Q-1 /\ x \in Int /\ y \in Int /\ Congruent(x, k*y)
    BY <1>8, <2>1, ResidueInt DEF Polynomials
  <2>3. polys'[1][j] \in 0..Q-1 /\ Congruent(polys'[1][j], c*x)
    <3>1. polys'[1][j] = Times(c, x)
      BY <1>4, <2>1
    <3>2. Times(c, x) \in 0..Q-1 /\ Congruent(Times(c, x), c*x)
      BY ONLY <1>7, <2>2, TimesIs
    <3> QED BY ONLY <3>1, <3>2, Zenon
  <2>4. Congruent(c*x, b*(k*y))
    BY <1>7, <2>2, CongruentTimes
  <2>5. b*(k*y) = (b*k)*y /\ 1*y = y
    <3>1. b \in Int /\ k \in Int /\ y \in Int
      BY <1>7, <1>8, <2>2
    <3> QED BY ONLY <3>1, IntAssoc
  <2>6. Congruent((b*k)*y, 1*y)
    <3>1. Congruent(b*k, 1)
      BY ONLY <1>3, <1>6, FactorIs, SMT
    <3> QED BY ONLY <2>2, <3>1, CongruentTimesOne, Zenon
  <2>7. Congruent(c*x, y)
    BY <2>4, <2>5, <2>6, CongruentOn
  <2>8. Congruent(polys'[1][j], y)
    BY <2>3, <2>7, CongruentOn
  <2> QED BY <2>1, <2>2, <2>3, <2>8, CongruentEqual
<1>10. polys'[1] = t
  BY <1>4, <1>8, <1>9 DEF Polynomials
<1> QED BY <1>2, <1>3, <1>5, <1>10 DEF NttInv

LEMMA NttInvariant == NSpec => []NttInv
<1>1. NInit => NttInv
  BY NttStarts
<1>2. NttInv /\ [NNext]_nvars => NttInv'
  <2> SUFFICES ASSUME NttInv, [NNext]_nvars PROVE NttInv'
    OBVIOUS
  <2>1. CASE UNCHANGED nvars
    BY <2>1 DEF nvars, NttInv, OperandsAre, OtherIs, Target
  <2> QED BY <2>1, LayerKeeps, SecondKeeps, ScaleKeeps, PointwiseKeeps, InvLayerKeeps, FinalKeeps DEF NNext
<1> QED BY <1>1, <1>2, PTL DEF NSpec

\* Whatever the polynomials, ntt leaves their values at the odd powers of the
\* 512-th root of unity of params.h, in bit-reversed order (ref/ntt.c:43-67).
THEOREM TransformEvaluates == NSpec => []NttOk
<1>1. NttInv => NttOk
  <2> SUFFICES ASSUME NttInv, pc = "transformed", NEW j \in 0..N-1
               PROVE  polys[cur][j] = ValueAt(given[cur], 2*Reversed(j) + 1)
    BY DEF NttOk
  <2>1. polys[cur] = Stage(given[cur], 1) /\ given[cur] \in Polynomials
    BY DEF NttInv, OperandsAre
  <2> QED BY <2>1, Evaluates
<1> QED BY <1>1, NttInvariant, PTL

\* Whatever the polynomials, invntt_tomont takes the scaled transform of a
\* polynomial back to it, and the product of two transforms to the product of
\* the polynomials modulo x^N + 1 (ref/test/test_mul.c).
THEOREM TransformsMultiply == NSpec => []MultiplyOk
<1>1. NttInv => MultiplyOk
  BY DEF NttInv, MultiplyOk, Target
<1> QED BY <1>1, NttInvariant, PTL
=============================================================================
