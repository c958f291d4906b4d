-------------------------- MODULE RejectionSampling --------------------------
(***************************************************************************)
(* What uniform sampling promises, without buffers: the candidates of a    *)
(* polynomial are the consecutive triples of bytes of an output stream,    *)
(* none skipped and none used twice; its coefficients are the first N      *)
(* candidates that are accepted, in order; the bytes of a block behind the *)
(* last of them are dropped.                                               *)
(***************************************************************************)
EXTENDS Integers, Sequences

CONSTANTS
    N,          \* coefficients per polynomial
    Polys,      \* polynomials sampled from one stream
    Drop(_)     \* where the next polynomial starts, from where this one ended

VARIABLES
    poly,   \* polynomials completed before this one
    from,   \* number of stream bytes used up
    coeffs, \* the candidates accepted for this polynomial
    tries   \* candidates compared with Q: a rejection is not a skipped triple

vars == <<poly, from, coeffs, tries>>

Init == poly = 0 /\ from = 0 /\ coeffs = <<>> /\ tries = 0

Candidate(f) == <<f, f+1, f+2>>

Accept ==
    /\ Len(coeffs) < N
    /\ coeffs' = Append(coeffs, Candidate(from))
    /\ from' = IF Len(coeffs') = N THEN Drop(from + 3) ELSE from + 3
    /\ tries' = tries + 1
    /\ poly' = poly

Reject ==
    /\ Len(coeffs) < N
    /\ from' = from + 3
    /\ tries' = tries + 1
    /\ UNCHANGED <<poly, coeffs>>

NextPoly ==
    /\ Len(coeffs) = N /\ poly < Polys - 1
    /\ poly' = poly + 1 /\ coeffs' = <<>>
    /\ UNCHANGED <<from, tries>>

Next == Accept \/ Reject \/ NextPoly

Spec == Init /\ [][Next]_vars
=============================================================================
