----------------------------- MODULE MCRiScIndex ----------------------------
(* Model-checking instance of RiScIndex.                                   *)
EXTENDS RiScIndexProperties

CONSTANTS ra, rb, c1, c2, system, component

\* c1 applies to the system, c2 to its component.
MCAppliesTo == [c \in {c1, c2} |-> IF c = c1 THEN {system} ELSE {component}]

\* The index is up to date; one repository has a draft that deletes its RiSc.
MCInit ==
    /\ Init
    /\ catalog = Repo
    /\ main = [r \in Repo |-> c1] /\ index = main
    /\ branch[ra] = NoFile /\ branch[rb] = NoBranch

MCSpec == MCInit /\ [][Next]_vars /\ Fairness
=============================================================================
