----------------------------- MODULE BitPacking -----------------------------
(***************************************************************************)
(* Polynomials as bytes: the packers and unpackers of ref/poly.c, the bit  *)
(* buffer of ref/packing.c and the vector code of avx2/poly.c.  A word is  *)
(* the set of <<place, bit>> that were brought into it, where a bit is     *)
(* <<coefficient, place>> for the coefficients the packers are given and   *)
(* OR is union: a bit that is lost, doubled or on top of another is seen   *)
(* whatever the values are.  The subtraction from ETA, 2^(D-1) or GAMMA1   *)
(* on both sides is left out, the ranges are those of CoefficientRanges.   *)
(***************************************************************************)
EXTENDS Integers, Sequences, FiniteSets

CONSTANT
    Coeffs      \* coefficients of a polynomial, 256

ASSUME PackingAssumption == Coeffs \in Nat \ {0} /\ Coeffs % 64 = 0

Shl(word, n) == {<<e[1] + n, e[2]>> : e \in word}
Cut(word, n) == {e \in word : 0 <= e[1] /\ e[1] < n}
Byte(word) == Cut(word, 8)

\* The bytes of a group, as <<coefficient of the group, shift right>> terms
\* that are OR-ed (a negative shift is one to the left), and the coefficients
\* of a group as <<byte, shift right>> terms under a mask of so many bits.  The
\* same code is in ref/poly.c and avx2/poly.c.
EtaPack2 == << {<<0,0>>,<<1,-3>>,<<2,-6>>}, {<<2,2>>,<<3,-1>>,<<4,-4>>,<<5,-7>>},
               {<<5,1>>,<<6,-2>>,<<7,-5>>} >>
EtaUnpack2 == << {<<0,0>>}, {<<0,3>>}, {<<0,6>>,<<1,-2>>}, {<<1,1>>}, {<<1,4>>},
                 {<<1,7>>,<<2,-1>>}, {<<2,2>>}, {<<2,5>>} >>
EtaPack4 == << {<<0,0>>,<<1,-4>>} >>
EtaUnpack4 == << {<<0,0>>}, {<<0,4>>} >>

T1Pack == << {<<0,0>>}, {<<0,8>>,<<1,-2>>}, {<<1,6>>,<<2,-4>>}, {<<2,4>>,<<3,-6>>}, {<<3,2>>} >>
T1Unpack == << {<<0,0>>,<<1,-8>>}, {<<1,2>>,<<2,-6>>}, {<<2,4>>,<<3,-4>>}, {<<3,6>>,<<4,-2>>} >>

T0Pack == << {<<0,0>>}, {<<0,8>>,<<1,-5>>}, {<<1,3>>}, {<<1,11>>,<<2,-2>>},
             {<<2,6>>,<<3,-7>>}, {<<3,1>>}, {<<3,9>>,<<4,-4>>}, {<<4,4>>},
             {<<4,12>>,<<5,-1>>}, {<<5,7>>,<<6,-6>>}, {<<6,2>>}, {<<6,10>>,<<7,-3>>}, {<<7,5>>} >>
T0Unpack == << {<<0,0>>,<<1,-8>>}, {<<1,5>>,<<2,-3>>,<<3,-11>>}, {<<3,2>>,<<4,-6>>},
               {<<4,7>>,<<5,-1>>,<<6,-9>>}, {<<6,4>>,<<7,-4>>,<<8,-12>>}, {<<8,1>>,<<9,-7>>},
               {<<9,6>>,<<10,-2>>,<<11,-10>>}, {<<11,3>>,<<12,-5>>} >>

ZPack17 == << {<<0,0>>}, {<<0,8>>}, {<<0,16>>,<<1,-2>>}, {<<1,6>>}, {<<1,14>>,<<2,-4>>},
              {<<2,4>>}, {<<2,12>>,<<3,-6>>}, {<<3,2>>}, {<<3,10>>} >>
ZUnpack17 == << {<<0,0>>,<<1,-8>>,<<2,-16>>}, {<<2,2>>,<<3,-6>>,<<4,-14>>},
                {<<4,4>>,<<5,-4>>,<<6,-12>>}, {<<6,6>>,<<7,-2>>,<<8,-10>>} >>
ZPack19 == << {<<0,0>>}, {<<0,8>>}, {<<0,16>>,<<1,-4>>}, {<<1,4>>}, {<<1,12>>} >>
ZUnpack19 == << {<<0,0>>,<<1,-8>>,<<2,-16>>}, {<<2,4>>,<<3,-4>>,<<4,-12>>} >>

W1Pack88 == << {<<0,0>>,<<1,-6>>}, {<<1,2>>,<<2,-4>>}, {<<2,4>>,<<3,-2>>} >>
W1Pack32 == << {<<0,0>>,<<1,-4>>} >>

PackTerms == [eta2 |-> EtaPack2, eta4 |-> EtaPack4, t1 |-> T1Pack, t0 |-> T0Pack,
              z17 |-> ZPack17, z19 |-> ZPack19, w88 |-> W1Pack88, w32 |-> W1Pack32]
UnpackTerms == [eta2 |-> EtaUnpack2, eta4 |-> EtaUnpack4, t1 |-> T1Unpack,
                t0 |-> T0Unpack, z17 |-> ZUnpack17, z19 |-> ZUnpack19]

Width == [eta2 |-> 3, eta4 |-> 4, t1 |-> 10, t0 |-> 13, z17 |-> 18, z19 |-> 20,
          w88 |-> 6, w32 |-> 4, tbar11 |-> 11, tbar10 |-> 10]

\* All are masked but the second coefficient of z19, which has 20 bits anyway.
MaskBits(f, c) == IF f = "z19" /\ c = 1 THEN 32 ELSE Width[f]

Tables == DOMAIN PackTerms
Buffered == {"tbar11", "tbar10"}        \* polytbar_pack, TPK 11 and 10
VectorZ == {"z17", "z19"}               \* unpacked by avx2 code as well
VectorW1 == {"w88", "w32"}              \* packed by avx2 code as well

VARIABLES
    fmt,        \* the format
    avx,        \* the vector code, where there is one
    stage,      \* "pack", "unpack", "done"
    group,          \* the group, or the coefficient for the bit buffer
    r,          \* the bytes
    coeffs,     \* the coefficients read back
    bitbuf,     \* of polytbar_pack and _unpack
    bitcnt,
    next,       \* the byte polytbar_unpack reads next
    reach       \* history: one more than the last byte a load or store touched

pvars == <<fmt, avx, stage, group, r, coeffs, bitbuf, bitcnt, next, reach>>

Bytes(f) == (Coeffs*Width[f]) \div 8
Given(f, c) == {<<b, <<c, b>>>> : b \in 0..Width[f]-1}

PInit ==
    /\ fmt \in DOMAIN Width /\ avx \in BOOLEAN /\ (avx => fmt \in VectorZ \cup VectorW1)
    /\ stage = "pack" /\ group = 0 /\ r = <<>> /\ coeffs = <<>>
    /\ bitbuf = {} /\ bitcnt = 0 /\ next = 0 /\ reach = 0

PackGroup ==
    /\ stage = "pack" /\ fmt \in Tables /\ ~(avx /\ fmt \in VectorW1)
    /\ group < Bytes(fmt) \div Len(PackTerms[fmt])
    /\ LET n == (Len(PackTerms[fmt])*8) \div Width[fmt]
           Term(t) == Shl(Given(fmt, n*group + t[1]), -t[2])
       IN  r' = r \o [b \in 1..Len(PackTerms[fmt]) |->
                        Byte(UNION {Term(t) : t \in PackTerms[fmt][b]})]
    /\ group' = group + 1 /\ UNCHANGED <<fmt, avx, stage, coeffs, bitbuf, bitcnt, next, reach>>

\* A turn of polytbar_pack's loop: the value goes in on top of what waits, and
\* whole bytes go out; also with the buffer emptied after each coefficient.
OutBytes(word, cnt) == [b \in 1..cnt \div 8 |-> Byte(Shl(word, -8*(b-1)))]
KeptNone(word, cnt) == {}
Kept(word, cnt) == Cut(Shl(word, -8*(cnt \div 8)), 32)
PackBuffered ==
    /\ stage = "pack" /\ fmt \in Buffered /\ group < Coeffs
    /\ LET word == Cut(bitbuf \cup Shl(Given(fmt, group), bitcnt), 32)
           cnt  == bitcnt + Width[fmt]
       IN  /\ r' = r \o OutBytes(word, cnt)
           /\ bitbuf' = Kept(word, cnt) /\ bitcnt' = cnt % 8
    /\ group' = group + 1 /\ UNCHANGED <<fmt, avx, stage, coeffs, next, reach>>

-----------------------------------------------------------------------------
(* Vector registers are sequences of bytes or wider elements, two lanes.   *)

Lane(v, k) == SubSeq(v, k*(Len(v) \div 2) + 1, (k+1)*(Len(v) \div 2))
PackUs(v, w) == Lane(v, 0) \o Lane(w, 0) \o Lane(v, 1) \o Lane(w, 1)
\* _mm256_maddubs_epi16 and _mm256_madd_epi16 with 1 and 2^n: pairs are added.
MAdd(v, n) == [k \in 1..Len(v) \div 2 |-> v[2*k-1] \cup Shl(v[2*k], n)]
Pick(v, idx) == [k \in 1..Len(idx) |-> IF idx[k] < 0 THEN {} ELSE v[idx[k] + 1]]
ShuffleLanes(v, idx) == Pick(Lane(v, 0), idx) \o Pick(Lane(v, 1), idx)
ToBytes(v) == [k \in 1..4*Len(v) |-> Byte(Shl(v[(k-1) \div 4 + 1], -8*((k-1) % 4)))]
ToQuads(v) == [k \in 1..4 |-> SubSeq(v, 8*k - 7, 8*k)]
OfQuads(q) == q[1] \o q[2] \o q[3] \o q[4]
Quads(v, idx) == OfQuads(Pick(ToQuads(v), idx))

\* 32 coefficients of 6 bits to 24 bytes; the store writes 8 more. 
Regroup88 == <<0, 4, 1, 5, 2, 6, 3, 7>>
Gather88 == <<0, 1, 2, 4, 5, 6, 8, 9, 10, 12, 13, 14, -1, -1, -1, -1>>
W1Bytes88(f) ==
    LET b == PackUs(PackUs(f[1], f[2]), PackUs(f[3], f[4]))
        d == Pick(MAdd(MAdd(b, 6), 12), Regroup88)
        s == ShuffleLanes(ToBytes(d), Gather88)
    IN  SubSeq(s, 1, 12) \o SubSeq(s, 17, 28)

\* 64 coefficients of 4 bits to 32 bytes.
Gather32 == <<0, 1, 8, 9, 2, 3, 10, 11, 4, 5, 12, 13, 6, 7, 14, 15>>
W1Bytes32(f) ==
    LET b(k) == MAdd(PackUs(PackUs(f[k], f[k+1]), PackUs(f[k+2], f[k+3])), 4)
        q == Quads(PackUs(b(1), b(5)), <<0, 2, 1, 3>>)
    IN  ShuffleLanes(q, Gather32)

PackVectorW1 ==
    /\ stage = "pack" /\ avx /\ fmt \in VectorW1
    /\ LET n == IF fmt = "w88" THEN 32 ELSE 64
           f == [k \in 1..n \div 8 |-> [e \in 1..8 |-> Given(fmt, n*group + 8*(k-1) + e - 1)]]
       IN  /\ group < Coeffs \div n
           /\ r' = r \o (IF fmt = "w88" THEN W1Bytes88(f) ELSE W1Bytes32(f))
           /\ reach' = ((n*Width[fmt]) \div 8)*group + 32
    /\ group' = group + 1 /\ UNCHANGED <<fmt, avx, stage, coeffs, bitbuf, bitcnt, next>>

-----------------------------------------------------------------------------
\* The caller unpacks; of w1 there is no unpacker.
ToReader ==
    /\ stage = "pack" /\ Len(r) = Bytes(fmt)
    /\ stage' = IF fmt \in VectorW1 THEN "done" ELSE "unpack"
    /\ group' = 0 /\ bitbuf' = {} /\ bitcnt' = 0
    /\ UNCHANGED <<fmt, avx, r, coeffs, next, reach>>

UnpackGroup ==
    /\ stage = "unpack" /\ fmt \in Tables /\ ~avx
    /\ LET m == Len(PackTerms[fmt])
           Term(t) == Shl(r[m*group + t[1] + 1], -t[2])
       IN  coeffs' = coeffs \o [c \in 1..Len(UnpackTerms[fmt]) |->
                Cut(UNION {Term(t) : t \in UnpackTerms[fmt][c]}, MaskBits(fmt, c - 1))]
    /\ group' = group + 1 /\ stage' = IF Len(coeffs') = Coeffs THEN "done" ELSE stage
    /\ UNCHANGED <<fmt, avx, r, bitbuf, bitcnt, next, reach>>

\* A turn of polytbar_unpack's loop: bytes come in while fewer than TPK bits
\* wait.
More(cnt) == IF cnt >= Width[fmt] THEN 0 ELSE (Width[fmt] - cnt + 7) \div 8
UnpackBuffered ==
    /\ stage = "unpack" /\ fmt \in Buffered
    /\ LET n == More(bitcnt)
           word == Cut(bitbuf \cup UNION {Shl(r[next + b], bitcnt + 8*(b-1)) : b \in 1..n}, 32)
       IN  /\ coeffs' = Append(coeffs, Cut(word, Width[fmt]))
           /\ bitbuf' = Cut(Shl(word, -Width[fmt]), 32)
           /\ bitcnt' = bitcnt + 8*n - Width[fmt] /\ next' = next + n
    /\ group' = group + 1 /\ stage' = IF group + 1 = Coeffs THEN "done" ELSE stage
    /\ UNCHANGED <<fmt, avx, r, reach>>

\* avx2 polyz_unpack: 32 bytes are loaded from the first one of 8 coefficients;
\* the upper lane gets those from byte 8 on.  Also with the quarters in place.
QuartersStraight == <<0, 1, 2, 3>>
Quarters == <<0, 1, 1, 2>>
ZShuffle == [
  z17 |-> << <<0,1,2,-1,2,3,4,-1,4,5,6,-1,6,7,8,-1>>, <<1,2,3,-1,3,4,5,-1,5,6,7,-1,7,8,9,-1>> >>,
  z19 |-> << <<0,1,2,-1,2,3,4,-1,5,6,7,-1,7,8,9,-1>>, <<2,3,4,-1,4,5,6,-1,7,8,9,-1,9,10,11,-1>> >>]
ZShift == [z17 |-> <<0,2,4,6,0,2,4,6>>, z19 |-> <<0,4,0,4,0,4,0,4>>]

UnpackVectorZ ==
    /\ stage = "unpack" /\ avx
    /\ LET from  == Width[fmt]*group
           load  == [b \in 1..32 |-> IF from + b <= Len(r) THEN r[from + b]
                                     ELSE {<<p, <<"beyond", p>>>> : p \in 0..7}]
           q     == Quads(load, Quarters)
           bytes == Pick(Lane(q, 0), ZShuffle[fmt][1]) \o Pick(Lane(q, 1), ZShuffle[fmt][2])
           Dword(c) == UNION {Shl(bytes[4*(c-1) + b], 8*(b-1)) : b \in 1..4}
       IN  /\ coeffs' = coeffs \o [c \in 1..8 |-> Cut(Shl(Dword(c), -ZShift[fmt][c]), Width[fmt])]
           /\ reach' = from + 32
    /\ group' = group + 1 /\ stage' = IF Len(coeffs') = Coeffs THEN "done" ELSE stage
    /\ UNCHANGED <<fmt, avx, r, bitbuf, bitcnt, next>>

PNext == \/ PackGroup \/ PackBuffered \/ PackVectorW1 \/ ToReader
         \/ UnpackGroup \/ UnpackBuffered \/ UnpackVectorZ

PSpec == PInit /\ [][PNext]_pvars

-----------------------------------------------------------------------------
\* Every packer, table, bit buffer or shuffle, makes the same thing: bit b of
\* coefficient c is bit c*Width + b of the bytes, each byte has eight bits, and
\* none is left over (ref/poly.c:532-907, packing.c:6-22, avx2/poly.c:1064-1127).
OneBitStream == \A j \in 1..Len(r) :
    r[j] = {<<p, <<(8*(j-1) + p) \div Width[fmt], (8*(j-1) + p) % Width[fmt]>>>> : p \in 0..7}

\* Unpacking gives every coefficient back, with the vector code of polyz_unpack
\* also, which reads at most the 14 bytes behind the polynomial that
\* avx2/poly.c:603 makes room for, and uses none of them.
UnpacksWhatWasPacked ==
    /\ \A c \in 1..Len(coeffs) : coeffs[c] = Given(fmt, c - 1)
    /\ stage = "unpack" => reach <= Bytes(fmt) + 14
    /\ stage = "done" /\ fmt \notin VectorW1 => Len(coeffs) = Coeffs /\ reach <= Bytes(fmt) + 14
=============================================================================
