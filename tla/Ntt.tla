-------------------------------- MODULE Ntt --------------------------------
(***************************************************************************)
(* The number-theoretic transform and its inverse, ref/ntt.c, with the     *)
(* table of the code, as ref/test/test_mul.c calls them: a polynomial is   *)
(* transformed and back, or two are transformed, multiplied value by value *)
(* and the product is transformed back.  Coefficients are kept modulo Q,   *)
(* since all the code does to them commutes with that (CoefficientRanges   *)
(* shows that nothing overflows).                                          *)
(***************************************************************************)
EXTENDS Reduce

CONSTANT Operands  \* the polynomials a and b

N == 256
ROOT_OF_UNITY == 1753
Polynomials == [0..N-1 -> 0..Q-1]

ASSUME NttAssumption == Operands \subseteq Polynomials \X Polynomials

zetas == <<
    0, 25847, -2608894, -518909, 237124, -777960, -876248, 466468, 1826347,
    2353451, -359251, -2091905, 3119733, -2884855, 3111497, 2680103, 2725464,
    1024112, -1079900, 3585928, -549488, -1119584, 2619752, -2108549,
    -2118186, -3859737, -1399561, -3277672, 1757237, -19422, 4010497, 280005,
    2706023, 95776, 3077325, 3530437, -1661693, -3592148, -2537516, 3915439,
    -3861115, -3043716, 3574422, -2867647, 3539968, -300467, 2348700, -539299,
    -1699267, -1643818, 3505694, -3821735, 3507263, -2140649, -1600420,
    3699596, 811944, 531354, 954230, 3881043, 3900724, -2556880, 2071892,
    -2797779, -3930395, -1528703, -3677745, -3041255, -1452451, 3475950,
    2176455, -1585221, -1257611, 1939314, -4083598, -1000202, -3190144,
    -3157330, -3632928, 126922, 3412210, -983419, 2147896, 2715295, -2967645,
    -3693493, -411027, -2477047, -671102, -1228525, -22981, -1308169, -381987,
    1349076, 1852771, -1430430, -3343383, 264944, 508951, 3097992, 44288,
    -1100098, 904516, 3958618, -3724342, -8578, 1653064, -3249728, 2389356,
    -210977, 759969, -1316856, 189548, -3553272, 3159746, -1851402, -2409325,
    -177440, 1315589, 1341330, 1285669, -1584928, -812732, -1439742, -3019102,
    -3881060, -3628969, 3839961, 2091667, 3407706, 2316500, 3817976, -3342478,
    2244091, -2446433, -3562462, 266997, 2434439, -1235728, 3513181, -3520352,
    -3759364, -1197226, -3193378, 900702, 1859098, 909542, 819034, 495491,
    -1613174, -43260, -522500, -655327, -3122442, 2031748, 3207046, -3556995,
    -525098, -768622, -3595838, 342297, 286988, -2437823, 4108315, 3437287,
    -3342277, 1735879, 203044, 2842341, 2691481, -2590150, 1265009, 4055324,
    1247620, 2486353, 1595974, -3767016, 1250494, 2635921, -3548272, -2994039,
    1869119, 1903435, -1050970, -1333058, 1237275, -3318210, -1430225,
    -451100, 1312455, 3306115, -1962642, -1279661, 1917081, -2546312,
    -1374803, 1500165, 777191, 2235880, 3406031, -542412, -2831860, -1671176,
    -1846953, -2584293, -3724270, 594136, -3776993, -2013608, 2432395,
    2454455, -164721, 1957272, 3369112, 185531, -1207385, -3183426, 162844,
    1616392, 3014001, 810149, 1652634, -3694233, -1799107, -3038916, 3523897,
    3866901, 269760, 2213111, -975884, 1717735, 472078, -426683, 1723600,
    -1803090, 1910376, -1667432, -1104333, -260646, -3833893, -2939036,
    -2235985, -420899, -2286327, 183443, -976891, 1612842, -3545687, -554416,
    3919660, -48306, -1362209, 3937738, 1400424, -846154, 1976782>>

\* Products modulo Q, in pieces of 8 bits that fit an integer.
Times(x, y) ==
    LET Part(b) == (x * ((y \div b) % 256)) % Q
        Shifted(v, b) == ((v*256) % Q) + Part(b)
    IN  Shifted(Shifted(Part(65536), 256) % Q, 1) % Q

InverseOf32 == 8265825                  \* 2^-32 modulo Q
\* montgomery_reduce of a product with a constant c.
Const(c) == Times(c % Q, InverseOf32)
ZetaOver32 == [k \in 0..N-1 |-> Const(zetas[k+1])]
MinusZetaOver32 == [k \in 0..N-1 |-> Const(-zetas[k+1])]

VARIABLES
    given,  \* history: the polynomials a and b
    test,   \* "inverse" or "product"
    polys,  \* the arrays, modulo Q
    cur,    \* the one that is transformed
    len,    \* of the halves a layer combines
    place,  \* k, the place in zetas
    pc      \* "ntt", "transformed", "invntt", "final", "done"

nvars == <<given, test, polys, cur, len, place, pc>>

NInit ==
    /\ given \in Operands /\ polys = given /\ test \in {"inverse", "product"}
    /\ cur = 1 /\ len = N \div 2 /\ place = 0 /\ pc = "ntt"

LowHalf(j) == (j \div len) % 2 = 0
Block(j) == j \div (2*len)

\* zeta = zetas[++k] for each block of the layer; also with k not advanced
\* before the first.
ForwardZetaLate(j) == ZetaOver32[place + Block(j)]
ForwardZeta(j) == ZetaOver32[place + 1 + Block(j)]

\* All blocks of one len of ntt.
Butterflies(p) ==
    LET t(j) == Times(ForwardZeta(j), p[j])
    IN  [j \in 0..N-1 |-> IF LowHalf(j) THEN (p[j] + t(j+len)) % Q ELSE (p[j-len] - t(j)) % Q]
Layer ==
    /\ pc = "ntt"
    /\ polys' = [polys EXCEPT ![cur] = Butterflies(@)]
    /\ place' = place + N \div (2*len)
    /\ IF len > 1 THEN len' = len \div 2 /\ pc' = pc ELSE len' = len /\ pc' = "transformed"
    /\ UNCHANGED <<given, test, cur>>

SecondNtt ==
    /\ pc = "transformed" /\ test = "product" /\ cur = 1
    /\ cur' = 2 /\ len' = N \div 2 /\ place' = 0 /\ pc' = "ntt"
    /\ UNCHANGED <<given, test, polys>>

\* invntt_tomont begins at the other end of the table.
CallInverse == place' = N /\ len' = 1 /\ cur' = 1 /\ pc' = "invntt" /\ UNCHANGED <<given, test>>

\* c.coeffs[j] = (int64_t)c.coeffs[j]*-114592 % Q
Scale ==
    /\ pc = "transformed" /\ test = "inverse"
    /\ polys' = [polys EXCEPT ![1] = [j \in 0..N-1 |-> Times(@[j], (-114592) % Q)]]
    /\ CallInverse

PointwiseMontgomery ==
    /\ pc = "transformed" /\ test = "product" /\ cur = 2
    /\ polys' = [polys EXCEPT ![1] = [j \in 0..N-1 |-> Times(Times(polys[1][j], polys[2][j]), InverseOf32)]]
    /\ CallInverse

\* zeta = -zetas[--k] for each block; also with the blocks of a layer in the
\* order of ntt.
BackwardZetaUp(j) == MinusZetaOver32[place - N \div (2*len) + Block(j)]
BackwardZeta(j) == MinusZetaOver32[place - 1 - Block(j)]

\* All blocks of one len of invntt_tomont.
InverseButterflies(p) ==
    [j \in 0..N-1 |-> IF LowHalf(j) THEN (p[j] + p[j+len]) % Q
                      ELSE Times(BackwardZeta(j), (p[j-len] - p[j]) % Q)]
InvLayer ==
    /\ pc = "invntt"
    /\ polys' = [polys EXCEPT ![1] = InverseButterflies(@)]
    /\ place' = place - N \div (2*len)
    /\ len' = 2*len /\ pc' = IF len < N \div 2 THEN pc ELSE "final"
    /\ UNCHANGED <<given, test, cur>>

\* The products with f = mont^2/256.
Final ==
    /\ pc = "final"
    /\ polys' = [polys EXCEPT ![1] = [j \in 0..N-1 |-> Times(Const(41978), @[j])]]
    /\ pc' = "done" /\ UNCHANGED <<given, test, cur, len, place>>

NNext == Layer \/ SecondNtt \/ Scale \/ PointwiseMontgomery \/ InvLayer \/ Final

NSpec == NInit /\ [][NNext]_nvars

-----------------------------------------------------------------------------
\* j with its eight bits in reverse order.
Reversed(j) ==
    LET Bit(w) == (j \div w) % 2
    IN  Bit(1)*128 + Bit(2)*64 + Bit(4)*32 + Bit(8)*16 + Bit(16)*8 + Bit(32)*4 + Bit(64)*2 + Bit(128)

\* ROOT_OF_UNITY^e modulo Q for e < 2*N; each turn doubles the table.
Twice(p, n) ==
    [e \in 0..2*n-1 |-> IF e < n THEN p[e] ELSE Times(p[e-n], Times(p[n-1], ROOT_OF_UNITY))]
Powers ==
    LET first == Twice(Twice(Twice(Twice([e \in 0..0 |-> 1], 1), 2), 4), 8)
    IN  Twice(Twice(Twice(Twice(Twice(first, 16), 32), 64), 128), 256)

\* The sum of N numbers modulo Q, one half added to the other until one is left.
Halves(h, n) == [i \in 0..n-1 |-> (h[i] + h[i+n]) % Q]
SumModQ(h) ==
    LET sixteen == Halves(Halves(Halves(Halves(h, 128), 64), 32), 16)
    IN  Halves(Halves(Halves(Halves(sixteen, 8), 4), 2), 1)[0]

\* The value of p at the x-th power of the root.
ValueAt(p, x) == SumModQ([i \in 0..N-1 |-> Times(p[i], Powers[(i*x) % (2*N)])])

\* poly_naivemul of the test: a product of degree N or more wraps with its
\* sign changed.
Wrapped(q, d) == IF d >= 0 THEN q[d] ELSE (-q[N+d]) % Q
NaiveMul(p, q) ==
    [j \in 0..N-1 |-> SumModQ([i \in 0..N-1 |-> Times(p[i], Wrapped(q, j - i))])]

\* ntt evaluates its polynomial at the odd powers of the 512-th root of unity
\* of params.h, in bit-reversed order (ref/ntt.c:43-67).
NttOk ==
    pc = "transformed" => \A j \in 0..N-1 : polys[cur][j] = ValueAt(given[cur], 2*Reversed(j) + 1)

\* What ref/test/test_mul.c says on random polynomials: the inverse transform
\* takes a scaled transform back, and the product of two transforms to the
\* product of the polynomials modulo x^N + 1.
MultiplyOk ==
    pc = "done" => polys[1] = IF test = "inverse" THEN given[1] ELSE NaiveMul(given[1], given[2])
=============================================================================
