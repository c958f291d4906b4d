------------------------------- MODULE Reduce -------------------------------
(***************************************************************************)
(* Modular reduction of one coefficient, ref/reduce.c.  Integers are those *)
(* of the code wherever it does not overflow; the modules that use these   *)
(* operators say where that is.                                            *)
(***************************************************************************)
EXTENDS Integers

Q == 8380417
Max32 == 2147483647

\* (a + (1 << 22)) >> 23, rounds a/2^23 to an integer.
Quotient(a) == (a + 4194304) \div 8388608
Reduce32(a) == a - Quotient(a)*Q
Caddq(a) == IF a < 0 THEN a + Q ELSE a
Freeze(a) == Caddq(Reduce32(a))

\* The signed value of the low word (w = 2^32) of v.
Low(w, v) == LET r == v % w IN IF r < w \div 2 THEN r ELSE r - w

\* montgomery_reduce for words of w values, modulus q and q*qinv % w = 1.
Montgomery(w, q, qinv, a) == (a - Low(w, Low(w, a)*qinv)*q) \div w

\* (u*2^bits + Q/2)/Q for 0 <= u < Q, digit after digit: all of it stays below
\* 2Q, where u*2^bits does not fit 32 bits.
QuotientTimes(bits, u) ==
    LET Digits[k \in 0..bits] ==
          IF k = 0 THEN <<0, u>>
          ELSE LET d == Digits[k-1] IN
               IF 2*d[2] >= Q THEN <<2*d[1] + 1, 2*d[2] - Q>> ELSE <<2*d[1], 2*d[2]>>
    IN  Digits[bits][1] + (IF Digits[bits][2] + Q \div 2 >= Q THEN 1 ELSE 0)
=============================================================================
