---------------------------- MODULE MCRiScService ---------------------------
(* Model-checking instance of RiScService.                                 *)
EXTENDS RiScServiceProperties, TLC

CONSTANTS v0, v1  \* contents written before

MCContent == Request \cup {v0, v1}

Symmetry == Permutations(Request) \cup Permutations({v0, v1})
=============================================================================
