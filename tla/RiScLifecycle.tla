---------------------------- MODULE RiScLifecycle ---------------------------
(***************************************************************************)
(* The life of a risk scorecard as its users know it: one status, and the  *)
(* ways it may change.  A published RiSc is replaced or removed by the     *)
(* approval of something sent for approval, and by nothing else; nothing   *)
(* is sent for approval that was not a draft before.                       *)
(***************************************************************************)

VARIABLE status

\* What a status says: is a pull request open, and what does the draft hold.
Sent == {"SentForApproval", "DeletionSentForApproval"}

Init == status \in {"Draft", "SentForApproval", "Published",
                    "DeletionDraft", "DeletionSentForApproval", "Deleted"}

\* Saving a change makes or keeps a draft; what was sent stays sent.  A deletion
\* that was overtaken by other requests can empty the draft of an open pull
\* request, and the next save then fills it again.
SaveDraft ==
    \/ status \notin Sent /\ status' = "Draft"
    \/ status \in Sent \cup {"Deleted"} /\ status' = "SentForApproval"

\* A deletion is staged for a RiSc that is published.
StageDeletion ==
    /\ status \in {"Published", "Draft", "SentForApproval"}
    /\ status' = IF status \in Sent THEN "DeletionSentForApproval"
                                    ELSE "DeletionDraft"

SendForApproval ==
    \/ status = "Draft" /\ status' = "SentForApproval"
    \/ status = "DeletionDraft" /\ status' = "DeletionSentForApproval"

\* The pull request is closed: the change becomes a draft again.
Withdraw ==
    \/ status = "SentForApproval" /\ status' = "Draft"
    \/ status = "DeletionSentForApproval" /\ status' = "DeletionDraft"

Approve ==
    \/ status = "SentForApproval" /\ status' = "Published"
    \/ status = "DeletionSentForApproval" /\ status' = "Deleted"

\* The draft branch is removed: what was published, if anything, remains.
DiscardDraft ==
    \/ status \in {"Draft", "SentForApproval"}
       /\ status' \in {"Published", "Deleted"}
    \/ status \in {"DeletionDraft", "DeletionSentForApproval"}
       /\ status' = "Published"

Next == SaveDraft \/ StageDeletion \/ SendForApproval \/ Withdraw \/ Approve
        \/ DiscardDraft

Spec == Init /\ [][Next]_status
=============================================================================
