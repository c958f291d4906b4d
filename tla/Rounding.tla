------------------------------ MODULE Rounding ------------------------------
(***************************************************************************)
(* High and low bits of coefficients and the hints that correct them, as   *)
(* ref/rounding.c computes them and as avx2/rounding.c does.  The high     *)
(* bits depend on a only through (a + 127) >> 7, so a behaviour goes       *)
(* through the values of that (u), and for each one through the inputs a   *)
(* that have it (Inputs).                                                  *)
(***************************************************************************)
EXTENDS Reduce

CONSTANTS
    Corners,    \* places in a run of 128 inputs with one u
    Step,       \* values of u looked at together
    Changes     \* changes of a coefficient, positive and negative

ASSUME RoundingAssumption ==
    Corners \subseteq 0..127 /\ Step \in Nat \ {0} /\ Changes \subseteq Int

Gamma88 == (Q - 1) \div 88
Gamma32 == (Q - 1) \div 32

VARIABLES
    g,          \* GAMMA2
    u           \* the least of the Step values of (a + 127) >> 7

rvars == <<g, u>>
LastU == (Q - 1 + 127) \div 128

RInit == g \in {Gamma88, Gamma32} /\ u = 0
RNext == u + Step <= LastU /\ u' = u + Step /\ g' = g

RSpec == RInit /\ [][RNext]_rvars

Inputs == {a \in {128*(u + k) - c : k \in 0..Step-1, c \in Corners} : 0 <= a /\ a < Q}

-----------------------------------------------------------------------------
(* ref/rounding.c; one branch for each of the two values of GAMMA2.  1<<D  *)
(* is 8192, and the powers of two of the shifts are written out.           *)

Power2Round(a) == LET a1 == (a + 4095) \div 8192 IN <<a1, a - a1*8192>>

\* for 88, 44 becomes 0; also as if it stayed.
HighLate(gam, a) == LET w == (a + 127) \div 128 IN
    IF gam = Gamma32 THEN ((w*1025 + 2097152) \div 4194304) % 16
    ELSE (w*11275 + 8388608) \div 16777216
HighBits(gam, a) == LET w == (a + 127) \div 128 IN
    IF gam = Gamma32 THEN ((w*1025 + 2097152) \div 4194304) % 16
    ELSE LET v == (w*11275 + 8388608) \div 16777216 IN IF v > 43 THEN 0 ELSE v

Centred(v) == IF v > (Q-1) \div 2 THEN v - Q ELSE v
LowBits(gam, a) == Centred(a - HighBits(gam, a)*2*gam)

MakeHint(gam, a0, a1) == a0 > gam \/ a0 < -gam \/ (a0 = -gam /\ a1 # 0)

Values(gam) == IF gam = Gamma32 THEN 16 ELSE 44    \* of the high bits

\* a0 > 0 moves up, otherwise down; also as if zero moved up.
UseHintZeroUp(gam, a, h) == LET a1 == HighBits(gam, a) IN
    IF ~h THEN a1 ELSE IF LowBits(gam, a) >= 0 THEN (a1 + 1) % Values(gam)
                                           ELSE (a1 - 1) % Values(gam)
UseHint(gam, a, h) == LET a1 == HighBits(gam, a) IN
    IF ~h THEN a1 ELSE IF LowBits(gam, a) > 0 THEN (a1 + 1) % Values(gam)
                                          ELSE (a1 - 1) % Values(gam)

-----------------------------------------------------------------------------
(* avx2/rounding.c, for one lane.  The products of 16 bits are              *)
(* _mm256_mulhi_epu16 and _mm256_mulhrs_epi16.                             *)

MulHi(x, y) == (x * y) \div 65536
MulHrs(x, y) == (x*y + 16384) \div 32768

Power2RoundAvx(a) == LET f1 == a + 4095 IN <<f1 \div 8192, a - (f1 - (f1 % 8192))>>

\* the rounding shifts; also with the shift of the other GAMMA2.
HighAvxShift(gam, a) == LET w == (a + 127) \div 128 IN
    IF gam = Gamma32 THEN MulHrs(MulHi(w, 1025), 512) % 16
    ELSE LET v == MulHrs(MulHi(w, 11275), 127) IN IF 43 - v < 0 THEN 0 ELSE v
HighAvx(gam, a) == LET w == (a + 127) \div 128 IN
    IF gam = Gamma32 THEN MulHrs(MulHi(w, 1025), 512) % 16
    ELSE LET v == MulHrs(MulHi(w, 11275), 128) IN IF 43 - v < 0 THEN 0 ELSE v
LowAvx(gam, a) == LET f0 == a - HighAvx(gam, a)*2*gam IN
    IF f0 > Q \div 2 THEN f0 - Q ELSE f0

\* cmpeq gives -1, sign keeps it only where a1 is positive.
MakeHintAvx(gam, a0, a1) ==
    (IF a0 < 0 THEN -a0 ELSE a0) > gam \/ (a0 = -gam /\ a1 > 0)

\* blendv takes h, to be doubled and subtracted, where a0 has its sign bit set;
\* for GAMMA2 = (Q-1)/88 two more blends bring -1 to 43 and 44 to 0.
UseHintAvx(gam, a, h) ==
    LET one == IF h THEN 1 ELSE 0
        t   == IF LowAvx(gam, a) < 0 THEN one ELSE 0
        v   == HighAvx(gam, a) + one - 2*t
    IN  IF gam = Gamma32 THEN v % 16
        ELSE IF v < 0 THEN 43 ELSE IF v > 43 THEN 0 ELSE v

-----------------------------------------------------------------------------
\* decompose returns what its comment says (rounding.c:30-36): a is
\* a1*2*GAMMA2 + a0 modulo Q, a0 is in (-GAMMA2, GAMMA2], or, where a1 would
\* be (Q-1)/(2*GAMMA2), a1 is 0 and a0 = a - Q is in [-GAMMA2, 0).
DecomposeOk == \A a \in Inputs :
    LET a1 == HighBits(g, a)
        a0 == LowBits(g, a)
    IN  /\ 0 <= a1 /\ a1 < (Q - 1) \div (2*g)
        /\ \/ a = a1*2*g + a0 /\ -g < a0 /\ a0 <= g
           \/ a1 = 0 /\ a0 = a - Q /\ -g <= a0 /\ a0 < 0

\* The vector code gives the bits and hints of the reference code for every
\* coefficient and every low part (avx2/rounding.c:26-171), although it rounds
\* twice.
AvxRounds == \A a \in Inputs :
    /\ Power2RoundAvx(a) = Power2Round(a)
    /\ HighAvx(g, a) = HighBits(g, a) /\ LowAvx(g, a) = LowBits(g, a)
    /\ \A z \in Changes :
          MakeHintAvx(g, LowBits(g, a) + z, HighBits(g, a)) = MakeHint(g, LowBits(g, a) + z, HighBits(g, a))

\* The hint does what it is for: who adds z with |z| <= GAMMA2 to a, and keeps
\* the hint made from the low bits, gets the high bits of a back from a + z
\* (rounding.c:57-102), also at both ends of the ranges and around 0.
HintRecovers == \A a \in Inputs, z \in Changes : -g <= z /\ z <= g =>
    UseHint(g, (a + z) % Q, MakeHint(g, LowBits(g, a) + z, HighBits(g, a))) = HighBits(g, a)

\* avx2/rounding.c:174-178, "Correct high parts according to hint": the same
\* correction as the reference code's, for both hints.
AvxUsesHints == \A a \in Inputs, h \in BOOLEAN : UseHintAvx(g, a, h) = UseHint(g, a, h)
=============================================================================
