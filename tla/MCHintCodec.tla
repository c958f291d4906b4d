----------------------------- MODULE MCHintCodec -----------------------------
(* HintCodec for TLC: every hint area of a small parameter set.            *)
EXTENDS HintCodec
=============================================================================
