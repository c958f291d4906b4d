--------------------------- MODULE MCCoefficients ---------------------------
(***************************************************************************)
(* Arithmetic and packing for TLC: a behaviour does one of five things,    *)
(* the state of the others stays as it is.                                 *)
(***************************************************************************)
EXTENDS Rounding, CoefficientRanges, Ntt, BitPacking, KeyLayout

VARIABLE task       \* what is done

\* The ends of a run of equal u.
MCCorners == {0, 1, 127}

\* The ends of what a hint may correct for both GAMMA2 and just behind them,
\* around 0, and in between.
MCChanges == {s * x : s \in {-1, 1}, x \in {0, 1, 2, 30000, 60000, 140000, 200000, 400000}
                      \cup {Gamma88 - 1, Gamma88, Gamma88 + 1, Gamma32 - 1, Gamma32, Gamma32 + 1}}

\* x^e, and polynomials with no coefficient zero.
MCUnit(e) == [j \in 0..N-1 |-> IF j = e THEN 1 ELSE 0]
MCDense(x, y) == [j \in 0..N-1 |-> (x*j + y) % Q]
MCOperands ==
    {<<MCUnit(e), MCUnit(255 - ((7*e) % 256))>> : e \in {0, 1, 2, 5, 31, 64, 127, 128, 200, 255}}
    \cup {<<MCDense(32000, 77), MCDense(8000, Q-1)>>, <<MCDense(0, Q-1), MCDense(0, Q-1)>>,
          <<MCUnit(255), MCDense(31, 4190208)>>}

\* The three parameter sets of params.h.
MCSet(kk, ll, e, g1, g2, b, t) == [k |-> kk, l |-> ll, eta |-> e, gamma1 |-> g1,
                                   gamma2 |-> g2, beta |-> b, tpk |-> t]
MCSets == { MCSet(4, 4, 2, 2^17, (Q-1) \div 88, 78, 11),
            MCSet(6, 5, 4, 2^19, (Q-1) \div 32, 196, 10),
            MCSet(8, 7, 2, 2^19, (Q-1) \div 32, 120, 10) }
MCLayout(kk, ll, om, ct, tb, e, zz) == [k |-> kk, l |-> ll, omega |-> om, seed |-> 32,
                              tr |-> 64, ctilde |-> ct, tbar |-> tb, eta |-> e, z |-> zz]
MCLayouts == { MCLayout(4, 4, 80, 32, 352, 96, 576), MCLayout(6, 5, 55, 48, 320, 128, 640),
               MCLayout(8, 7, 75, 64, 320, 96, 640) }

RIdle == g = Gamma32 /\ u = LastU + 1
RgIdle == /\ set = MCSet(1, 1, 1, 1, 1, 1, 1) /\ prog = <<>> /\ vec = <<>> /\ i = 1
          /\ layer = 1 /\ out = <<>> /\ failed = "no"
NIdle == /\ given = <<>> /\ test = "no" /\ polys = <<>> /\ cur = 0 /\ len = 0 /\ place = 0
         /\ pc = "idle"
PIdle == PInit /\ fmt = "t1"
KIdle == /\ kind = "pk" /\ sizes = MCLayout(1, 1, 1, 1, 1, 1, 1) /\ phase = "pack"
         /\ part = 0 /\ ptr = 0 /\ mem = <<>> /\ got = <<>>

MCInit ==
    \/ task = "rounding" /\ RInit /\ RgIdle /\ NIdle /\ PIdle /\ KIdle
    \/ task = "ranges" /\ RIdle /\ RgInit /\ NIdle /\ PIdle /\ KIdle
    \/ task = "ntt" /\ RIdle /\ RgIdle /\ NInit /\ PIdle /\ KIdle
    \/ task = "packing" /\ RIdle /\ RgIdle /\ NIdle /\ PInit /\ KIdle
    \/ task = "layout" /\ RIdle /\ RgIdle /\ NIdle /\ PIdle /\ KInit

MCNext ==
    /\ task' = task
    /\ \/ task = "rounding" /\ RNext /\ UNCHANGED <<rgvars, nvars, pvars, kvars>>
       \/ task = "ranges" /\ RgNext /\ UNCHANGED <<rvars, nvars, pvars, kvars>>
       \/ task = "ntt" /\ NNext /\ UNCHANGED <<rvars, rgvars, pvars, kvars>>
       \/ task = "packing" /\ PNext /\ UNCHANGED <<rvars, rgvars, nvars, kvars>>
       \/ task = "layout" /\ KNext /\ UNCHANGED <<rvars, rgvars, nvars, pvars>>

MCSpec == MCInit /\ [][MCNext]_<<task, rvars, rgvars, nvars, pvars, kvars>>
=============================================================================
