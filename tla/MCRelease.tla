------------------------------ MODULE MCRelease ------------------------------
(* Model-checking instance of Release.                                     *)
EXTENDS ReleaseProperties

CONSTANTS ros, backend, p1

\* Two packages: the first one, which takes the version, and one after it.
MCOrder == <<ros, backend>>

\* What a third commit can do, to the queue and to later releases, is the same
\* for all kinds: there are three only where two kinds occur.
MCCommon == {"feat", "other"}

MCSmall ==
    \/ Len(main) <= 2
    \/ /\ \A c \in Commits : main[c].kind \in MCCommon
       /\ \A p \in Pull : {pull[p].title} \cup check[p].work \subseteq MCCommon

MCSpec == Init /\ [][Next /\ MCSmall']_vars /\ Fairness
==============================================================================
