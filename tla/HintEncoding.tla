---------------------------- MODULE HintEncoding ----------------------------
(***************************************************************************)
(* The hint area of a signature (ref/packing.c, pack_sig and unpack_sig):  *)
(* OMEGA index bytes followed by K running counts.  Byte p of the area is  *)
(* a[p], p \in 0..OMEGA+K-1, as in the C array.  A hint vector h gives for *)
(* each of the K polynomials the set of its non-zero coefficients.         *)
(***************************************************************************)
EXTENDS Integers, FiniteSets

CONSTANTS
    N,      \* coefficients per polynomial; also the number of byte values
    K,      \* polynomials in a hint vector
    OMEGA   \* index bytes of the area

ASSUME HintAssumption == /\ N \in Nat \ {0} /\ K \in Nat \ {0}
                         /\ OMEGA \in Nat /\ OMEGA < N

Byte == 0..N-1
HintArea == 0..OMEGA+K-1

\* The non-zero coefficients of h, each with its polynomial.
Entries(h) == {q \in (0..K-1) \X (0..N-1) : q[2] \in h[q[1]]}

\* Every hint vector the signer may pack: at most OMEGA coefficients are set.
HintVector == {h \in [0..K-1 -> SUBSET (0..N-1)] : Cardinality(Entries(h)) <= OMEGA}

\* The order in which pack_sig meets coefficients, and how many of the set S
\* it has met when it comes to q.
Earlier(e, q) == e[1] < q[1] \/ (e[1] = q[1] /\ e[2] < q[2])
Rank(S, q) == Cardinality({e \in S : Earlier(e, q)})

\* pack_sig, from the memset-like loop on: the indices in that order, zeros,
\* then for each polynomial the number of indices up to its last.
PackHints(h) ==
    [p \in HintArea |->
        IF p >= OMEGA THEN Rank(Entries(h), <<p - OMEGA + 1, 0>>)
        ELSE IF p < Cardinality(Entries(h))
        THEN (CHOOSE q \in Entries(h) : Rank(Entries(h), q) = p)[2]
        ELSE 0]

\* unpack_sig: where the indices of polynomial i start and end.
From(a, i) == IF i = 0 THEN 0 ELSE a[OMEGA + i - 1]
To(a, i) == a[OMEGA + i]

\* unpack_sig returns 0.
HintsOk(a) ==
    /\ \A i \in 0..K-1 : From(a, i) <= To(a, i) /\ To(a, i) <= OMEGA
    /\ \A i \in 0..K-1 : \A j \in From(a, i)+1 .. To(a, i)-1 : a[j] > a[j-1]
    /\ \A j \in To(a, K-1) .. OMEGA-1 : a[j] = 0

\* unpack_sig: the hint vector of an accepted area.
UnpackHints(a) == [i \in 0..K-1 |-> {a[j] : j \in From(a, i) .. To(a, i)-1}]
=============================================================================
