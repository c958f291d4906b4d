------------------------------ MODULE HintCodec ------------------------------
(***************************************************************************)
(* The loops of pack_sig and unpack_sig (ref/packing.c) over the hint area *)
(* of a signature, one turn per step.  A behaviour packs a hint vector and *)
(* unpacks the result, or unpacks an area that came from elsewhere.        *)
(***************************************************************************)
EXTENDS HintEncoding

VARIABLES
    hints,      \* the vector packed, <<>> when the area came from elsewhere
    area,       \* sig from byte CTILDEBYTES + L*POLYZ_PACKEDBYTES on
    h,          \* the vector unpack_sig writes
    i, j, k,    \* the loop variables of both functions
    pc,
    ret         \* what unpack_sig returned, -1 before

vars == <<hints, area, h, i, j, k, pc, ret>>

\* What the caller's h holds before unpack_sig clears it, row by row.
Indeterminate == [r \in 0..K-1 |-> 0..N-1]

Init ==
    /\ \/ hints \in HintVector /\ area = [p \in HintArea |-> 0] /\ pc = "pack"
       \/ hints = <<>> /\ area \in [HintArea -> Byte] /\ pc = "row"
    /\ h = Indeterminate /\ i = 0 /\ j = 0 /\ k = 0 /\ ret = -1

-----------------------------------------------------------------------------
(* pack_sig *)

PackCoeff ==
    /\ pc = "pack" /\ i < K /\ j < N
    /\ IF j \in hints[i] THEN area' = [area EXCEPT ![k] = j] /\ k' = k + 1
                         ELSE UNCHANGED <<area, k>>
    /\ j' = j + 1
    /\ UNCHANGED <<hints, h, i, pc, ret>>

\* The count byte of a row; one that counts the row's own indices only.
RowCountOnly(a, r, n) == [a EXCEPT ![OMEGA + r] = Cardinality(hints[r])]
WithCount(a, r, n) == [a EXCEPT ![OMEGA + r] = n]

PackCount ==
    /\ pc = "pack" /\ i < K /\ j = N
    /\ area' = WithCount(area, i, k)
    /\ i' = i + 1 /\ j' = 0
    /\ UNCHANGED <<hints, h, k, pc, ret>>

\* The packed signature reaches unpack_sig.
Packed ==
    /\ pc = "pack" /\ i = K
    /\ i' = 0 /\ j' = 0 /\ k' = 0 /\ pc' = "row"
    /\ UNCHANGED <<hints, area, h, ret>>

-----------------------------------------------------------------------------
(* unpack_sig *)

Return(r) == pc' = "done" /\ ret' = r

\* The count of a row: not below the one before, not above OMEGA.  The faulty
\* form forgets the second.
CountOkBelow(a, r, n) == a[OMEGA + r] >= n
CountOk(a, r, n) == a[OMEGA + r] >= n /\ a[OMEGA + r] <= OMEGA

RowStart ==
    /\ pc = "row" /\ i < K
    /\ h' = [h EXCEPT ![i] = {}]
    /\ IF CountOk(area, i, k) THEN pc' = "index" /\ j' = k /\ UNCHANGED ret
                              ELSE Return(1) /\ UNCHANGED j
    /\ UNCHANGED <<hints, area, i, k>>

\* sig[j] <= sig[j-1] inside of a row; the faulty form lets equal ones pass.
NotIncreasingWeak(a, x, first) == x > first /\ a[x] < a[x-1]
NotIncreasing(a, x, first) == x > first /\ a[x] <= a[x-1]

RowIndex ==
    /\ pc = "index" /\ j < area[OMEGA + i]
    /\ IF NotIncreasing(area, j, k)
       THEN Return(1) /\ UNCHANGED <<h, j>>
       ELSE /\ h' = [h EXCEPT ![i] = @ \cup {area[j]}]
            /\ j' = j + 1 /\ UNCHANGED <<pc, ret>>
    /\ UNCHANGED <<hints, area, i, k>>

RowEnd ==
    /\ pc = "index" /\ ~(j < area[OMEGA + i])
    /\ k' = area[OMEGA + i] /\ i' = i + 1 /\ pc' = "row"
    /\ UNCHANGED <<hints, area, h, j, ret>>

TailStart ==
    /\ pc = "row" /\ i = K
    /\ j' = k /\ pc' = "tail"
    /\ UNCHANGED <<hints, area, h, i, k, ret>>

Tail ==
    /\ pc = "tail"
    /\ IF j = OMEGA THEN Return(0) /\ UNCHANGED j
       ELSE IF area[j] # 0 THEN Return(1) /\ UNCHANGED j
       ELSE j' = j + 1 /\ UNCHANGED <<pc, ret>>
    /\ UNCHANGED <<hints, area, h, i, k>>

Next == PackCoeff \/ PackCount \/ Packed \/ RowStart \/ RowIndex \/ RowEnd \/ TailStart \/ Tail

Spec == Init /\ [][Next]_vars

-----------------------------------------------------------------------------
\* Types; k, the index byte to come, never passes the count bytes, so that
\* neither function touches a byte outside of the index area.
TypeOK ==
    /\ hints \in HintVector \cup {<<>>}
    /\ area \in [HintArea -> Byte]
    /\ \A r \in 0..K-1 : h[r] \subseteq 0..N-1
    /\ i \in 0..K /\ k \in 0..OMEGA
    /\ pc \in {"pack", "row", "index", "tail", "done"} /\ ret \in {-1, 0, 1}
    /\ pc = "pack" => j \in 0..N
    /\ pc # "pack" => j \in 0..OMEGA

\* A packed vector is accepted and comes back as it was (packing.c:105-169).
RoundTrip == pc = "done" /\ hints # <<>> => ret = 0 /\ h = hints

\* The encoding is unique: an accepted area is the one pack_sig gives for the
\* vector it holds.
Canonical == pc = "done" /\ ret = 0 => h \in HintVector /\ area = PackHints(h)

\* The loops compute HintsOk and UnpackHints, which Sign uses for them.
ComputesHintsOk ==
    pc = "done" => /\ ret = (IF HintsOk(area) THEN 0 ELSE 1)
                   /\ ret = 0 => h = UnpackHints(area)
=============================================================================
