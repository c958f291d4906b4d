--------------------------- MODULE MatrixExpansion ---------------------------
(***************************************************************************)
(* polyvec_matrix_expand of avx2/polyvec.c: the K*L polynomials of the     *)
(* matrix four at a time, row after row. A row function fills what is left *)
(* of its row and, with the lanes that remain, begins the next; the last   *)
(* lanes of an odd matrix go to a temporary vector.                        *)
(*                                                                         *)
(* The places 0..L-1 of a row function are rowa, those from L on rowb. All *)
(* row functions fill consecutive places, so a row of a table is           *)
(* [at |-> first place, nonces |-> those of its calls of poly_uniform_4x,  *)
(*  rowb |-> what the caller passes as the second vector].                 *)
(***************************************************************************)
EXTENDS Integers, Sequences

CONSTANT Shapes     \* the pairs <<K, L>> that are built

ASSUME ShapeAssumption == Shapes \subseteq {<<4, 4>>, <<6, 5>>, <<8, 7>>}

Rows(s) == 0..s[1]-1

Row(at, rowb, nonces) == [at |-> at, rowb |-> rowb, nonces |-> nonces]

Table44 == <<
    Row(0, "null", <<0, 1, 2, 3>>),
    Row(0, "null", <<256, 257, 258, 259>>),
    Row(0, "null", <<512, 513, 514, 515>>),
    Row(0, "null", <<768, 769, 770, 771>>) >>

Table65 == <<
    Row(0, "next", <<0, 1, 2, 3,  4, 256, 257, 258>>),
    Row(3, "next", <<259, 260, 512, 513>>),
    Row(2, "next", <<514, 515, 516, 768>>),
    Row(1, "null", <<769, 770, 771, 772>>),
    Row(0, "next", <<1024, 1025, 1026, 1027,  1028, 1280, 1281, 1282>>),
    Row(3, "tmp",  <<1283, 1284, 1536, 1537>>) >>

Table87 == <<
    Row(0, "next", <<0, 1, 2, 3,  4, 5, 6, 256>>),
    Row(1, "next", <<257, 258, 259, 260,  261, 262, 512, 513>>),
    Row(2, "next", <<514, 515, 516, 517,  518, 768, 769, 770>>),
    Row(3, "null", <<771, 772, 773, 774>>),
    Row(0, "next", <<1024, 1025, 1026, 1027,  1028, 1029, 1030, 1280>>),
    Row(1, "next", <<1281, 1282, 1283, 1284,  1285, 1286, 1536, 1537>>),
    Row(2, "next", <<1538, 1539, 1540, 1541,  1542, 1792, 1793, 1794>>),
    Row(3, "null", <<1795, 1796, 1797, 1798>>) >>

Table(s) == CASE s = <<4, 4>> -> Table44 [] s = <<6, 5>> -> Table65
              [] OTHER -> Table87

VARIABLES
    shape,  \* <<K, L>>
    row,    \* row functions that returned
    done,   \* polynomials sampled by the row function that runs
    unp,    \* of those, the ones brought into the order of the NTT
    mat     \* entry -> the nonce it was sampled with and its order; row K is tmp

mvars == <<shape, row, done, unp, mat>>

K == shape[1]
L == shape[2]
Unsampled == [nonce |-> -1, order |-> "none"]
NoMatrix == [e \in {} |-> Unsampled]

MInit ==
    /\ shape \in Shapes
    /\ row = 0 /\ done = 0 /\ unp = 0
    /\ mat = [e \in (0..K) \X (0..L-1) |-> Unsampled]

Prog == Table(shape)[row + 1]
RowB == CASE Prog.rowb = "next" -> row + 1 [] Prog.rowb = "tmp" -> K
          [] OTHER -> -1                \* NULL: no such place
\* The n-th polynomial that the row function that runs fills.
\* Also with the row wrapped onto itself.
DestStuck(n) == <<row, (Prog.at + n) % L>>
Dest(n) == LET p == Prog.at + n IN IF p < L THEN <<row, p>> ELSE <<RowB, p - L>>
\* The function passes what it samples, except for tmp, to poly_nttunpack.
Unpacked(n) == Dest(n)[1] # K

Uniform4x ==
    /\ row < K /\ done < Len(Prog.nonces)
    /\ mat' = [e \in DOMAIN mat |->
          IF \E n \in done..done+3 : Dest(n) = e
          THEN [nonce |-> Prog.nonces[1 + CHOOSE n \in done..done+3 : Dest(n) = e],
                order |-> "standard"]
          ELSE mat[e]]
    /\ done' = done + 4
    /\ UNCHANGED <<shape, row, unp>>

NttUnpack ==
    /\ row < K /\ done = Len(Prog.nonces) /\ unp < done
    /\ mat' = IF Unpacked(unp) /\ Dest(unp) \in DOMAIN mat
              THEN [mat EXCEPT ![Dest(unp)].order =
                       IF @ = "standard" THEN "ntt" ELSE "scrambled"]
              ELSE mat
    /\ unp' = unp + 1
    /\ UNCHANGED <<shape, row, done>>

RowReturn ==
    /\ row < K /\ done = Len(Prog.nonces) /\ unp = done
    /\ row' = row + 1 /\ done' = 0 /\ unp' = 0
    /\ UNCHANGED <<shape, mat>>

MNext == Uniform4x \/ NttUnpack \/ RowReturn

MSpec == MInit /\ [][MNext]_mvars
-----------------------------------------------------------------------------
\* ref/polyvec.c: poly_uniform(&mat[i].vec[j], rho, (i << 8) + j)
RefNonce(e) == 256*e[1] + e[2]
Ready(e) == mat[e] = [nonce |-> RefNonce(e), order |-> "ntt"]

(***************************************************************************)
(* When a row function has returned its row can be used: every entry up to *)
(* it was sampled with the nonce ref/ uses and put into the order of the   *)
(* NTT exactly once, also those an earlier function left begun. Nothing    *)
(* was written through a null pointer.                                     *)
(***************************************************************************)
RowsReady ==
    /\ \A i \in 0..row-1, j \in 0..L-1 : Ready(<<i, j>>)
    /\ row < K => \A n \in 0..Len(Prog.nonces)-1 : Dest(n) \in DOMAIN mat
=============================================================================
