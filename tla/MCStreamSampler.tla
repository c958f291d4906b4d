-------------------------- MODULE MCStreamSampler --------------------------
(* StreamSampler for TLC: its constants are numbers.                       *)
EXTENDS StreamSampler
=============================================================================
