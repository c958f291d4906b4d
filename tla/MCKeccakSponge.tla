--------------------------- MODULE MCKeccakSponge ---------------------------
(* A small instance of KeccakSponge for TLC: a zero byte and one that equals *)
(* the domain byte, so that padding could be taken for data.                 *)
EXTENDS KeccakSponge
MCData == {{}, {"domain"}}
=============================================================================
