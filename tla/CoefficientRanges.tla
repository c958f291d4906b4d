------------------------- MODULE CoefficientRanges -------------------------
(***************************************************************************)
(* The ranges of the coefficients, function call after function call, in   *)
(* key generation, signing, verification and the two test programs.  The   *)
(* code reduces as rarely as it can: whether a sum still fits an int32_t,  *)
(* and whether a function gets the range its comment asks for, depends on  *)
(* what was called before and on the parameter set.  vec[i] is the least   *)
(* and the largest coefficient polynomial i can have.                      *)
(***************************************************************************)
EXTENDS Reduce, Sequences, FiniteSetsExt

CONSTANT Sets   \* parameter sets: records of k, l, eta, gamma1, gamma2, beta, tpk

ASSUME RangesAssumption == \A s \in Sets :
    /\ {s.k, s.l, s.eta, s.gamma1, s.gamma2, s.beta, s.tpk} \subseteq Nat \ {0}
    \* the most columns of which a sum of products is small enough to reduce
    /\ s.l <= 255
    /\ s.eta < Q /\ s.gamma1 < Q
    \* ref/poly.c:274: B must be at most (Q-1)/8
    /\ s.gamma1 - s.beta <= (Q-1) \div 8

\* The calls of crypto_sign_keypair (also as if one were missing), for s1 and
\* for t; of crypto_sign_signature_internal and crypto_sign_verify_internal
\* for z; of test_vectors for w and of test_mul for a product.
KeygenShort(s) == << <<"eta", s.l>>, <<"ntt", s.l>>, <<"acc", s.k>>,
    <<"invntt", s.k>>, <<"reduce", s.k>>, <<"adddpk", s.k>>, <<"quantize", s.k>>,
    <<"packtbar", s.k>> >>
Keygen(s) == << <<"eta", s.l>>, <<"ntt", s.l>>, <<"acc", s.k>>, <<"reduce", s.k>>,
    <<"invntt", s.k>>, <<"reduce", s.k>>, <<"adddpk", s.k>>,
    <<"quantize", s.k>>, <<"packtbar", s.k>> >>
SecretKey(s) == << <<"eta", s.l>>, <<"packeta", s.l>> >>
Signing(s) == << <<"gamma1", s.l>>, <<"reduce", s.l>>, <<"chknorm", s.l>>, <<"packz", s.l>> >>
Verification(s) == << <<"gamma1", s.l>>, <<"chknorm", s.l>>, <<"packz", s.l>> >>
TestVectors(s) == << <<"gamma1", s.l>>, <<"ntt", s.l>>, <<"acc", s.k>>, <<"reduce", s.k>>,
    <<"invntt", s.k>>, <<"caddq", s.k>> >>
TestDecompose(s) == TestVectors(s) \o << <<"decompose", s.k>> >>
TestRound(s) == TestVectors(s) \o << <<"power2round", s.k>>, <<"packt0", s.k>> >>
TestMul(s) == << <<"uniform", 1>>, <<"ntt", 1>>, <<"mul", 1>>, <<"invntt", 1>> >>

Programs(s) == {Keygen(s), SecretKey(s), Signing(s), Verification(s), TestDecompose(s),
                TestRound(s), TestMul(s)}

VARIABLES
    set,        \* the parameter set
    prog,       \* the calls to make, the current one first
    vec,        \* the ranges of the vector's polynomials
    i,          \* the polynomial the call is at
    layer,      \* the layer of ntt and invntt
    out,        \* the vector the call writes, where it is not the one it reads
    failed      \* the call whose argument was out of its range, or "no"

rgvars == <<set, prog, vec, i, layer, out, failed>>

RgInit ==
    /\ set \in Sets /\ prog \in Programs(set)
    /\ vec = <<>> /\ i = 1 /\ layer = 1 /\ out = <<>> /\ failed = "no"

Running(call) == prog # <<>> /\ prog[1][1] = call /\ failed = "no"
Within(v, lo, hi) == lo <= v[1] /\ v[2] <= hi
Small(v, b) == Within(v, -b, b)

\* The loop over the polynomials of the vector; the call gives the range to if
\* its argument is ok.
Advance == IF i < prog[1][2] THEN i' = i + 1 /\ prog' = prog
                             ELSE i' = 1 /\ prog' = Tail(prog)
Each(call, ok, to) ==
    /\ Running(call)
    /\ IF ok THEN vec' = [vec EXCEPT ![i] = to] /\ failed' = "no"
             ELSE vec' = vec /\ failed' = call
    /\ Advance /\ UNCHANGED <<set, layer, out>>

Hull(v, w) == <<Min({v[1], w[1]}), Max({v[2], w[2]})>>
Meet(v, w) == <<Max({v[1], w[1]}), Min({v[2], w[2]})>>

-----------------------------------------------------------------------------
Sample(call, lo, hi) ==
    /\ Running(call)
    /\ vec' = [k \in 1..prog[1][2] |-> <<lo, hi>>]
    /\ prog' = Tail(prog) /\ UNCHANGED <<set, i, layer, out, failed>>

SampleEta == Sample("eta", -set.eta, set.eta)
SampleGamma1 == Sample("gamma1", 1 - set.gamma1, set.gamma1)
SampleUniform == Sample("uniform", 0, Q - 1)

\* A layer of ntt: a[j] +- montgomery_reduce(zeta*a[j+len]).
NttLayer ==
    /\ Running("ntt")
    /\ IF Small(vec[i], Max32 - (Q-1))
       THEN vec' = [vec EXCEPT ![i] = <<@[1] - (Q-1), @[2] + (Q-1)>>] /\ failed' = "no"
       ELSE vec' = vec /\ failed' = "ntt"
    /\ IF layer < 8 THEN layer' = layer + 1 /\ UNCHANGED <<i, prog>>
                    ELSE layer' = 1 /\ Advance
    /\ UNCHANGED <<set, out>>

\* A layer of invntt_tomont: a sum that doubles, and a product of the
\* difference, which must fit as well.
InvNttLayer ==
    /\ Running("invntt") /\ layer <= 8
    /\ IF Small(vec[i], Max32 \div 2)
       THEN /\ vec' = [vec EXCEPT ![i] = Hull(<<2*@[1], 2*@[2]>>, <<1-Q, Q-1>>)]
            /\ failed' = "no"
       ELSE vec' = vec /\ failed' = "invntt"
    /\ layer' = layer + 1 /\ UNCHANGED <<set, prog, i, out>>

\* Its last loop, a product with a constant below Q.
ToMont ==
    /\ Running("invntt") /\ layer = 9
    /\ vec' = [vec EXCEPT ![i] = <<1-Q, Q-1>>] /\ layer' = 1
    /\ Advance /\ UNCHANGED <<set, out, failed>>

\* polyvecl_pointwise_acc_montgomery for one row of the matrix: one product
\* with a coefficient in [0, Q-1] for each column, and their sum.
Acc ==
    /\ Running("acc")
    /\ LET l == Len(vec)
           row == <<l*(1-Q), l*(Q-1)>>
           done == Append(out, row)
       IN  /\ failed' = IF \A k \in 1..l : Small(vec[k], Max32) THEN "no" ELSE "acc"
           /\ IF i < prog[1][2] THEN out' = done /\ vec' = vec
                                ELSE out' = <<>> /\ vec' = done
    /\ Advance /\ UNCHANGED <<set, layer>>

\* poly_pointwise_montgomery of two polynomials of this range: the product of
\* two coefficients must be below 2^31*Q.
Mul ==
    LET Times(v) == Max({v[2], -v[1]}) \div Q + 1
        ProductFits(v) == Small(v, Max32 \div Times(v))
        Reduced(v) == <<1-Q, Q-1>>
    IN  Each("mul", ProductFits(vec[i]), Reduced(vec[i]))

-----------------------------------------------------------------------------
\* poly_reduce, for a <= 2^31 - 2^22 - 1 (4194304 is 2^22, 8388608 is 2^23);
\* over a range with more than one quotient the result is anything a quotient
\* of the range can leave.
ReduceAll ==
    LET Pre(v) == v[2] <= Max32 - 4194304 /\ v[1] >= -Max32
        F(v) == IF Quotient(v[1]) = Quotient(v[2]) THEN <<Reduce32(v[1]), Reduce32(v[2])>>
                ELSE <<Quotient(v[1])*(8388608 - Q) - 4194304,
                       Quotient(v[2])*(8388608 - Q) + 4194303>>
    IN  Each("reduce", Pre(vec[i]), F(vec[i]))

CaddQ == LET Pre(v) == Small(v, Q - 1)
             F(v) == IF v[1] >= 0 THEN v ELSE <<0, Q-1>>
         IN  Each("caddq", Pre(vec[i]), F(vec[i]))

\* t + dpk, brought to [0, Q-1] by u %= Q and a conditional Q.
AddDpk == LET Pre(v) == v[1] >= -Max32 /\ v[2] <= Max32 - (Q-1)
              F(v) == <<0, Q-1>>
          IN  Each("adddpk", Pre(vec[i]), F(vec[i]))

\* t_quantize's scaling: (u*PPK + Q/2)/Q, then the low TPK bits.
Masked(v) == IF v[2] >= 2^set.tpk THEN <<0, 2^set.tpk - 1>> ELSE v
Quantize ==
    LET Pre(v) == Within(v, 0, Q-1)
        F(v) == Masked(<<QuotientTimes(set.tpk, v[1]), QuotientTimes(set.tpk, v[2])>>)
    IN  Each("quantize", Pre(vec[i]), F(vec[i]))

\* decompose and power2round want standard representatives; what goes on is
\* the low part.
Decompose == LET Pre(v) == Within(v, 0, Q-1)
                 F(v) == <<-set.gamma2, set.gamma2>>
             IN  Each("decompose", Pre(vec[i]), F(vec[i]))
Power2 == LET Pre(v) == Within(v, 0, Q-1)
              F(v) == <<-4095, 4096>>
          IN  Each("power2round", Pre(vec[i]), F(vec[i]))

\* The vector passes if every polynomial does; then its norm is below B, and B
\* is at most (Q-1)/8.  A vector that does not pass goes no further.
Chknorm == LET B == set.gamma1 - set.beta
               Pre(v) == B <= (Q-1) \div 8 /\ Small(v, Max32 \div 2)
               F(v) == Meet(v, <<1-B, B-1>>)
           IN  Each("chknorm", Pre(vec[i]), F(vec[i]))

Pack(call, lo, hi) == LET Pre(v) == Within(v, lo, hi) IN Each(call, Pre(vec[i]), vec[i])
PackEta == Pack("packeta", -set.eta, set.eta)
PackZ == Pack("packz", 1 - set.gamma1, set.gamma1)
PackTbar == Pack("packtbar", 0, 2^set.tpk - 1)
PackT0 == Pack("packt0", -4095, 4096)

RgNext ==
    \/ SampleEta \/ SampleGamma1 \/ SampleUniform
    \/ NttLayer \/ InvNttLayer \/ ToMont \/ Acc \/ Mul
    \/ ReduceAll \/ CaddQ \/ AddDpk \/ Quantize \/ Decompose \/ Power2 \/ Chknorm
    \/ PackEta \/ PackZ \/ PackTbar \/ PackT0

RgSpec == RgInit /\ [][RgNext]_rgvars

-----------------------------------------------------------------------------
\* No call gets coefficients outside of the range its comment asks for, and no
\* sum leaves int32_t (ref/reduce.c:9, 28, ref/ntt.c:42-76, ref/poly.c:169-263,
\* 525-900), from sampling to packing and for every parameter set.
RangesOk == failed = "no"
=============================================================================
