----------------------------- MODULE LaneSampler -----------------------------
(***************************************************************************)
(* The rejection samplers of poly.c and avx2/rejsample.c: poly_uniform and *)
(* poly_uniform_eta, scalar (ref/) or with a vector loop over the first    *)
(* buffer (avx2/), for one polynomial or for several lanes side by side    *)
(* (the _4x functions), which share each call of squeezeblocks.            *)
(*                                                                         *)
(* A byte is a pair <<stream, position>>. A candidate is the first byte of *)
(* its triple, or a byte with the number of its nibble; whether it is      *)
(* accepted is open. An environment says which function is called:         *)
(* [dist, vector, lanes, rate, first, max], first being *_NBLOCKS and max a *)
(* bound on the blocks squeezed.                                           *)
(***************************************************************************)
EXTENDS Integers, Sequences, FiniteSets

CONSTANTS
    N,          \* coefficients of a polynomial
    V,          \* coefficients of a vector register: 8
    Envs        \* the functions that are called

ASSUME LaneAssumption ==
    /\ N \in Nat /\ V \in Nat \ {0} /\ V % 2 = 0 /\ V <= N
    /\ \A e \in Envs :
        /\ e.dist \in {"uniform", "eta"} /\ e.vector \in BOOLEAN
        /\ e.lanes \in Nat \ {0} /\ e.rate \in Nat \ {0} /\ e.first \in Nat \ {0}
        /\ e.max \in Nat
        \* avx2/poly.c:402: the length of buf is always divisible by 3
        /\ e.vector /\ e.dist = "uniform" => e.rate % 3 = 0
        \* the unsigned bounds BUFLEN - 24 and BUFLEN - 16 do not wrap
        /\ e.vector => e.first*e.rate >= (IF e.dist = "uniform" THEN 3*V ELSE 2*V)

VARIABLES
    env,        \* the function that runs
    buf,        \* of each lane
    buflen, blocks,
    lane, group, pos,   \* the lane, group or nibble, and position of the call that runs
    ctr, coeffs,    \* of each lane; coeffs with V places behind the polynomial
    tested,     \* history: the candidates of each lane compared with the bound
    pc

vars == <<env, buf, buflen, blocks, lane, group, pos, ctr, coeffs, tested, pc>>

Uniform == env.dist = "uniform"
Lanes == 0..env.lanes-1
None == <<-1, -1>>          \* a place nobody has written
Junk == <<-2, -2>>          \* what a store leaves behind the accepted ones

\* The uniform buffers have room for two carried bytes, or for an overlong load.
Slack(e) == IF e.dist = "eta" THEN 0 ELSE IF e.vector THEN V ELSE 2
BufSize == env.first*env.rate + Slack(env)

Init ==
    /\ env \in Envs
    /\ buf = [l \in Lanes |-> [k \in 0..BufSize-1 |-> None]]
    /\ buflen = 0 /\ blocks = 0 /\ lane = 0 /\ group = 0 /\ pos = 0
    /\ ctr = [l \in Lanes |-> 0]
    /\ coeffs = [l \in Lanes |-> [k \in 0..N+V-1 |-> None]]
    /\ tested = [l \in Lanes |-> <<>>]
    /\ pc = "squeeze"

(***************************************************************************)
(* A block, or the first blocks, for every lane, behind what the scalar    *)
(* poly_uniform carries over.                                              *)
(***************************************************************************)
Starved == \E l \in Lanes : ctr[l] < N
\* off, also as if no byte were left.
CarriedNone == 0
Carried == IF Uniform /\ ~env.vector THEN buflen % 3 ELSE 0
LaneOut(l) == l             \* out_l is stored from the words of in_l
Refilled(l, off, blks) == [k \in 0..BufSize-1 |->
    IF k < off THEN buf[l][buflen - off + k]
    ELSE IF k < off + blks*env.rate
         THEN <<LaneOut(l), blocks*env.rate + k - off>>
         ELSE buf[l][k]]

Squeeze ==
    LET blks == IF blocks = 0 THEN env.first ELSE 1 IN
    /\ pc = "squeeze" /\ Starved
    /\ blocks + blks <= env.max
    /\ buf' = [l \in Lanes |-> Refilled(l, Carried, blks)]
    /\ buflen' = blks*env.rate + Carried
    /\ blocks' = blocks + blks
    /\ pc' = IF env.vector /\ blocks = 0 THEN "vector" ELSE "scalar"
    /\ UNCHANGED <<env, lane, group, pos, ctr, coeffs, tested>>

(***************************************************************************)
(* rej_uniform_avx and rej_eta_avx. A group is V candidates. For eta four  *)
(* groups make a turn of the loop; the break stands between them.          *)
(***************************************************************************)
\* No room for a register; also tested against N alone.
SpacedFull(c) == c > N
Spaced(c) == c > N - V
LoopHolds == IF Uniform THEN pos <= buflen - 3*V
             ELSE ~Spaced(ctr[lane]) /\ pos <= buflen - 2*V
LoadEnd == pos + (IF Uniform THEN 4*V ELSE 2*V)   \* bytes a turn loads
Cell(k) == IF k < BufSize THEN buf[lane][k] ELSE None
GroupCand(k) == IF Uniform THEN <<Cell(pos + 3*k), 0>>
                ELSE <<Cell(pos + k \div 2), k % 2>>
\* idxlut[good]: the accepted candidates in ascending order, those accepted
\* before a candidate giving its place.
Before(good, c) == Cardinality({e \in 0..c-1 : good[e]})
AtPlace(good, n) == {c \in 0..V-1 : good[c] /\ Before(good, c) = n}

VectorGroup ==
    /\ pc = "vector" /\ (group # 0 \/ LoopHolds)
    /\ \E good \in [0..V-1 -> BOOLEAN] :
        /\ coeffs' = [coeffs EXCEPT ![lane] = [k \in DOMAIN @ |->
              IF k - ctr[lane] \notin 0..V-1 THEN @[k]
              ELSE IF AtPlace(good, k - ctr[lane]) = {} THEN Junk
              ELSE GroupCand(CHOOSE c \in AtPlace(good, k - ctr[lane]) : TRUE)]]
        /\ ctr' = [ctr EXCEPT ![lane] = @ + Before(good, V)]
        /\ tested' = [tested EXCEPT ![lane] = @ \o
              [k \in 1..V |-> [cand |-> GroupCand(k-1), good |-> good[k-1]]]]
    /\ pos' = IF Uniform THEN pos + 3*V ELSE pos + V \div 2
    /\ IF Spaced(ctr'[lane]) /\ (Uniform \/ group < 3)
       THEN pc' = "scalar" /\ group' = 0
       ELSE pc' = pc /\ group' = IF Uniform THEN 0 ELSE (group + 1) % 4
    /\ UNCHANGED <<env, buf, buflen, blocks, lane>>

VectorEnd ==
    /\ pc = "vector" /\ group = 0 /\ ~LoopHolds
    /\ pc' = "scalar"
    /\ UNCHANGED <<env, buf, buflen, blocks, lane, group, pos, ctr, coeffs, tested>>

(***************************************************************************)
(* The scalar loops: rej_uniform takes a triple, rej_eta the low and the   *)
(* high nibble of a byte, the high one only if a coefficient is missing.   *)
(***************************************************************************)
InBuffer == IF Uniform THEN pos + 3 <= buflen ELSE pos < buflen

ScalarTry ==
    /\ pc = "scalar" /\ ctr[lane] < N /\ (group = 1 \/ InBuffer)
    /\ \E good \in BOOLEAN :
        /\ coeffs' = IF good THEN [coeffs EXCEPT ![lane][ctr[lane]] = <<Cell(pos), group>>] ELSE coeffs
        /\ ctr' = IF good THEN [ctr EXCEPT ![lane] = @ + 1] ELSE ctr
        /\ tested' = [tested EXCEPT ![lane] =
              Append(@, [cand |-> <<Cell(pos), group>>, good |-> good])]
    /\ IF Uniform THEN pos' = pos + 3 /\ group' = group
                  ELSE pos' = pos + group /\ group' = 1 - group
    /\ UNCHANGED <<env, buf, buflen, blocks, lane, pc>>

HighLeft ==
    /\ pc = "scalar" /\ group = 1 /\ ctr[lane] = N
    /\ pos' = pos + 1 /\ group' = 0
    /\ UNCHANGED <<env, buf, buflen, blocks, lane, ctr, coeffs, tested, pc>>

\* The call returns ctr; the next lane's call, or the head of the outer loop.
LaneReturn ==
    /\ pc = "scalar" /\ group = 0 /\ ~(ctr[lane] < N /\ InBuffer)
    /\ pos' = 0
    /\ IF lane + 1 < env.lanes
       THEN /\ lane' = lane + 1
            /\ pc' = IF env.vector /\ blocks = env.first THEN "vector" ELSE pc
       ELSE lane' = 0 /\ pc' = IF Starved THEN "squeeze" ELSE "done"
    /\ UNCHANGED <<env, buf, buflen, blocks, group, ctr, coeffs, tested>>

Next == Squeeze \/ VectorGroup \/ VectorEnd \/ ScalarTry \/ HighLeft \/ LaneReturn

Spec == Init /\ [][Next]_vars
-----------------------------------------------------------------------------
\* The j-th candidate (from 0) of the stream of lane l.
Candidate(l, j) == IF Uniform THEN << <<l, 3*j>>, 0 >>
                   ELSE << <<l, j \div 2>>, j % 2 >>
\* The accepted ones of the first n entries of a history.
Rank(hist, n) == Cardinality({m \in 1..n : hist[m].good})

(***************************************************************************)
(* Each lane tests the candidates of its own stream, each once and in      *)
(* order, and its polynomial begins with those accepted, in order, however *)
(* blocks, vector groups and the other lanes end.                          *)
(***************************************************************************)
Sampled == \A l \in Lanes :
    /\ ctr[l] = Rank(tested[l], Len(tested[l]))
    /\ \A j \in 1..Len(tested[l]) :
          /\ tested[l][j].cand = Candidate(l, j-1)
          /\ tested[l][j].good => coeffs[l][Rank(tested[l], j) - 1] = tested[l][j].cand

(***************************************************************************)
(* No store of eight coefficients reaches behind the polynomial, and no    *)
(* load behind the buffer.                                                 *)
(***************************************************************************)
InPolynomial ==
    /\ \A l \in Lanes : ctr[l] <= N /\ \A k \in N..N+V-1 : coeffs[l][k] = None
    /\ pc = "vector" /\ group = 0 /\ LoopHolds => LoadEnd <= BufSize
=============================================================================
