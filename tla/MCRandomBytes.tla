---------------------------- MODULE MCRandomBytes ----------------------------
(* RandomBytes for TLC: one thread whose calls are interrupted and which    *)
(* asks for a 32-byte seed; two threads whose calls are interrupted, and    *)
(* not; three threads; two with getrandom.                                  *)
EXTENDS RandomBytes
CONSTANTS t1, t2, t3
MCThread == {t1, t2, t3}
Env(ts, g, e, n) == [threads |-> ts, getrandom |-> g, interrupts |-> e, outlen |-> n]
MCEnvironment == { Env({t1}, FALSE, TRUE, 32),
                   Env({t1, t2}, FALSE, TRUE, 2),
                   Env({t1, t2}, FALSE, FALSE, 4),
                   Env(MCThread, FALSE, FALSE, 1),
                   Env({t1, t2}, TRUE, FALSE, 6) }
=============================================================================
