--------------------------------- MODULE Xof ---------------------------------
(***************************************************************************)
(* An extendable-output function as its callers see it: it takes a message *)
(* in any number of pieces, then gives the bytes of one output stream of   *)
(* that message in any number of pieces, none twice and none left out.     *)
(***************************************************************************)
EXTENDS Integers, Sequences

CONSTANT StreamByte(_, _)   \* byte i >= 0 of the output for a message

VARIABLES
    phase,  \* "absorbing" or "squeezing"
    msg,    \* the message so far
    given   \* the output so far

vars == <<phase, msg, given>>

\* new is old with more behind it.
Extends(old, new) ==
    Len(old) <= Len(new) /\ \A k \in 1..Len(old) : new[k] = old[k]

Init == phase = "absorbing" /\ msg = <<>> /\ given = <<>>

Start == phase' = "absorbing" /\ msg' = <<>> /\ given' = <<>>

Absorb ==
    /\ phase = "absorbing" /\ phase' \in {"absorbing", "squeezing"}
    /\ Extends(msg, msg')
    /\ given' = given

Squeeze ==
    /\ phase = "squeezing" /\ phase' = "squeezing"
    /\ msg' = msg
    /\ Extends(given, given')
    /\ \A k \in Len(given)+1 .. Len(given') : given'[k] = StreamByte(msg, k - 1)

Next == Start \/ Absorb \/ Squeeze

Spec == Init /\ [][Next]_vars
=============================================================================
