----------------------------- MODULE RiScStatus -----------------------------
(***************************************************************************)
(* The status of a risk scorecard, derived from what was read of the       *)
(* repository: the status shown in the plugin is stored nowhere.           *)
(***************************************************************************)

Statuses == {"Draft", "SentForApproval", "Published",
             "DeletionDraft", "DeletionSentForApproval", "Deleted"}

IsText(content) == content \notin {"NoFile", "Failed", "Unread"}

\* Mutant of GetRiScStatus: a branch is a draft, whatever it holds.
FaultyGetRiScStatus(stored, hasBranch, hasPR, mainContent, branchContent) ==
    LET branchHasNoFile == hasBranch /\ branchContent = "NoFile"
        differs == hasBranch /\ ~branchHasNoFile
    IN  CASE stored /\ branchHasNoFile ->
                IF hasPR THEN "DeletionSentForApproval" ELSE "DeletionDraft"
          [] differs -> IF hasPR THEN "SentForApproval" ELSE "Draft"
          [] stored /\ ~branchHasNoFile /\ ~differs -> "Published"
          [] OTHER -> "Deleted"

(***************************************************************************)
(* getRiScStatus: stored, hasBranch and hasPR come from listings, the two  *)
(* contents from later reads of the files.  Only a 404 counts as a missing *)
(* file on the branch; any other failure counts as a difference.           *)
(***************************************************************************)
GetRiScStatus(stored, hasBranch, hasPR, mainContent, branchContent) ==
    LET branchHasNoFile == hasBranch /\ branchContent = "NoFile"
        sameContent == IsText(mainContent) /\ mainContent = branchContent
        differs == hasBranch /\ ~branchHasNoFile /\ ~sameContent
    IN  CASE stored /\ branchHasNoFile ->
                IF hasPR THEN "DeletionSentForApproval" ELSE "DeletionDraft"
          [] differs -> IF hasPR THEN "SentForApproval" ELSE "Draft"
          [] stored /\ ~branchHasNoFile /\ ~differs -> "Published"
          [] OTHER -> "Deleted"

\* Mutant of StagedForDeletion: forgets the deletions sent for approval.
FaultyStagedForDeletion(status) == status = "DeletionDraft"

StagedForDeletion(status) ==
    status \in {"DeletionDraft", "DeletionSentForApproval"}

\* chooseContentFromStatus: the draft if there is one, else what is published.
ChooseContent(status, branchContent, mainContent) ==
    CASE status \in {"SentForApproval", "Draft"} -> branchContent
      [] status \in {"Published", "DeletionDraft", "DeletionSentForApproval"} ->
            mainContent
      [] OTHER -> "Failed"
=============================================================================
