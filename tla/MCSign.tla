------------------------------- MODULE MCSign -------------------------------
(* Small instances of Sign for TLC. *)
EXTENDS SignInvariant

CONSTANTS s1, s2

MCSeed == {s1, s2}
One == {s1}
Zero == {0}
b0 == B(0)
b1 == B(1)
MCText == {<<>>, <<b1>>, <<b0, b1>>}
MCContext == {<<>>, <<b1>>, <<b0, b1>>}
MCMsgPtr == {SigBytes - 1, SigBytes + 1, SmBytes}

\* sign_loop: one message signed in place, a stride that does not divide the
\* nonce space
InPlaceOnly == {SmBytes}
LoopText == {<<b1>>}
LoopContext == {<<>>}
TwoRnd == {0, 1}
Unassigned == {0, 7}
=============================================================================
