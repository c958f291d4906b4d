--------------------------- MODULE MCKnownAnswers ---------------------------
(***************************************************************************)
(* The known-answer generator's random bytes and files for TLC: a          *)
(* behaviour runs the seed expander, the DRBG or the generator.            *)
(***************************************************************************)
EXTENDS SeedExpander, CtrDrbg, KatGenerator

VARIABLE program    \* the one that runs

MCRequests == 0..7  \* below, at and above a block
MCTwoBytes == {0, 2}

MCInit == Init /\ DInit /\ KatInit /\ program \in {"expander", "drbg", "kat"}

MCNext ==
    /\ program' = program
    /\ \/ program = "expander" /\ Next /\ UNCHANGED <<dvars, katvars>>
       \/ program = "drbg" /\ DNext /\ UNCHANGED <<vars, katvars>>
       \/ program = "kat" /\ KatNext /\ UNCHANGED <<vars, dvars>>

MCSpec == MCInit /\ [][MCNext]_<<program, vars, dvars, katvars>>
=============================================================================
