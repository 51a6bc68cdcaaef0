--------------------------- MODULE MCActionRowList --------------------------
(* Small instances of ActionRowList. *)
EXTENDS ActionRowListProperties

\* A RiSc that is published or about to be, and one that is a draft or yet to be
\* created.
MCInit ==
    /\ Init
    /\ server["a"].status \in {"Published", "SentForApproval"} /\ server["a"].published
    /\ server["b"].status \in {"Draft", "Unborn"} /\ ~server["b"].published
    /\ page.url \in {None}

MCSpec == MCInit /\ [][Next]_vars /\ Fairness
=============================================================================
