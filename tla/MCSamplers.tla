----------------------------- MODULE MCSamplers -----------------------------
(***************************************************************************)
(* The samplers for TLC: a behaviour runs one of them, the others wait.    *)
(***************************************************************************)
EXTENDS LaneSampler, MatrixExpansion, Challenge, SpongeLanes

\* uniform and eta, scalar and vectorised, alone and side by side.
Fn(d, v, lanes, rate, first, max) == [dist |-> d, vector |-> v,
    lanes |-> lanes, rate |-> rate, first |-> first, max |-> max]
MCEnvs == { Fn("uniform", FALSE, 1, 7, 1, 4), Fn("uniform", FALSE, 1, 8, 2, 4),
            Fn("uniform", TRUE, 1, 6, 3, 5), Fn("uniform", TRUE, 2, 6, 1, 3),
            Fn("eta", FALSE, 1, 3, 1, 3), Fn("eta", FALSE, 1, 2, 2, 4),
            Fn("eta", TRUE, 1, 5, 1, 3), Fn("eta", TRUE, 2, 4, 1, 1),
            Fn("eta", TRUE, 1, 9, 1, 1) }
MCShapes == {<<4, 4>>, <<6, 5>>, <<8, 7>>}

VARIABLE part    \* the function that runs

Nothing == Fn("eta", FALSE, 0, 1, 1, 0)
LanesIdle ==
    /\ env = Nothing /\ buf = <<>> /\ buflen = 0 /\ blocks = 0 /\ lane = 0
    /\ group = 0 /\ pos = 0 /\ ctr = <<>> /\ coeffs = <<>> /\ tested = <<>>
    /\ pc = "done"
MatrixIdle == shape = <<0, 0>> /\ row = 0 /\ done = 0 /\ unp = 0 /\ mat = NoMatrix

XIdle == XInit /\ mlen = 0 /\ xlen = 0

MCInit ==
    \/ part = "lanes" /\ Init /\ MatrixIdle /\ CInit /\ XIdle
    \/ part = "matrix" /\ LanesIdle /\ MInit /\ CInit /\ XIdle
    \/ part = "challenge" /\ LanesIdle /\ MatrixIdle /\ CInit /\ XIdle
    \/ part = "sponges" /\ LanesIdle /\ MatrixIdle /\ CInit /\ XInit

MCNext ==
    /\ part' = part
    /\ \/ part = "lanes" /\ Next /\ UNCHANGED <<mvars, cvars, xvars>>
       \/ part = "matrix" /\ MNext /\ UNCHANGED <<vars, cvars, xvars>>
       \/ part = "challenge" /\ CNext /\ UNCHANGED <<vars, mvars, xvars>>
       \/ part = "sponges" /\ XNext /\ UNCHANGED <<vars, mvars, cvars>>

MCSpec == MCInit /\ [][MCNext]_<<part, vars, mvars, cvars, xvars>>
=============================================================================
