------------------------ MODULE RiScServiceProperties -----------------------
(***************************************************************************)
(* What the backend's handling of one risk scorecard guarantees, and what  *)
(* its texts claim of it.                                                  *)
(***************************************************************************)
EXTENDS RiScService

\* The status of the repository as it is, in terms of the change the draft
\* branch carries.
RepositoryStatus ==
    LET change == branch \notin {NoBranch, main}
    IN  CASE ~change -> IF main = NoFile THEN "Deleted" ELSE "Published"
          [] change /\ branch # NoFile ->
                IF pr.open THEN "SentForApproval" ELSE "Draft"
          [] change /\ branch = NoFile ->
                IF pr.open THEN "DeletionSentForApproval" ELSE "DeletionDraft"

\* The content a user should see: the draft, or what is published.
CurrentContent ==
    CASE RepositoryStatus \in {"Draft", "SentForApproval"} -> branch
      [] RepositoryStatus = "Deleted" -> Failed
      [] OTHER -> main

-----------------------------------------------------------------------------
(* Approval.                                                               *)

\* An update that needs a new approval has written its content, and has not
\* got as far as closing the pull request, or failed to.
ApprovalPending(r) ==
    /\ req[r].op = "update" /\ req[r].needs
    /\ At(r, "pulls") \/ At(r, "close") \/ req[r].answer = "Error"

\* Content that may be in an open pull request: what the publishing user
\* vouched for and updates that need no new approval.
Vouched(c) ==
    \/ c = pr.approved
    \/ c \in Request /\ req[c].op = "update" /\ ~req[c].needs

\* updateRiSc closes the pull request only after it has written.  Once it has
\* answered, no open pull request carries content that needs an approval
\* nobody gave, however the requests interleave; only an update that is still
\* under way or that ended in an error may leave such a pull request open.
OpenPullRequestIsApproved ==
    pr.open /\ branch \in Content =>
        Vouched(branch) \/ (branch \in Request /\ ApprovalPending(branch))

\* deleteRiSc commits "... requires new approval": an open pull request
\* removes the RiSc only if somebody sent its removal for approval.
DeletionIsApproved ==
    pr.open /\ DeletionStaged => pr.approved = NoFile

-----------------------------------------------------------------------------
(* Conflicting writes.                                                     *)

Succeeded(r) ==
    req[r].answer \in {"CreatedRiSc", "UpdatedRiSc", "UpdatedRiScRequiresNewApproval"}

\* A request that is past its call to the contents API.
PastWrite(r) == req[r].pc \in {"pulls", "close", "done"}

\* The sha passed to the contents API is the conflict detection: content whose
\* write was acknowledged is what the draft branch holds, or a request that had
\* read it replaced or removed it, or the draft branch was deleted since.  Of
\* two writers that read the same file, one fails.
AcknowledgedWriteIsNotLost ==
    \A r \in Request : Succeeded(r) /\ watch[r].kept =>
        \/ branch = r
        \/ \E q \in Request : PastWrite(q) /\ req[q].sha = r

\* updateRiSc "checks existing file SHA for conflict detection": an update
\* replaces the content that its user edited, not one the user never saw.
UpdateReplacesWhatWasEdited ==
    [][\A r \in Request :
          At(r, "write") /\ req[r].op = "update" /\ branch' = r =>
              branch \in {req[r].base, NoFile}]_vars

-----------------------------------------------------------------------------
(* Deletions and edits.                                                    *)

PastGuard(r) ==
    /\ req[r].op = "update"
    /\ req[r].pc \in {"head", "createBranch", "sha", "write"}

\* A RiSc that stays staged for deletion while an update is served is not
\* edited by it, unless reading the draft's content failed.
StagedDeletionBlocksUpdate ==
    \A r \in Request : PastGuard(r) /\ watch[r].staged =>
        req[r].branchContent = Failed

\* "RiSc is staged for deletion ... Undo deletion (or publish deletion) before
\* editing": an update never edits a RiSc staged for deletion all along.
StagedDeletionIsNotEdited ==
    [][\A r \in Request :
          At(r, "write") /\ req[r].op = "update" /\ branch' = r =>
              ~watch[r].staged]_vars

-----------------------------------------------------------------------------
(* Fetching.                                                               *)

\* A fetch that met no error in a repository nobody changed meanwhile answers
\* with the status and the content of that repository.
QuietFetchIsExact ==
    [][\A r \in Request :
          /\ req[r].op = "fetch" /\ InFlight(r) /\ req'[r].answer \in Statuses
          /\ watch[r].quiet
          /\ Failed \notin {req[r].mainContent, req[r].branchContent}
          => /\ req'[r].answer = RepositoryStatus
             /\ ResolvedContent(r) = CurrentContent]_vars

\* fetchAllRiScs "fetches all RiScs in a repository": it does not leave out, as
\* Deleted, a RiSc that existed from the first read to the last.
FetchLeavesNoneOut ==
    \A r \in Request :
        req[r].op = "fetch" /\ req[r].answer = "Deleted" => ~watch[r].alive

-----------------------------------------------------------------------------
(* The lifecycle.                                                          *)

Lifecycle == INSTANCE RiScLifecycle WITH status <- RepositoryStatus

\* Every step of every interleaving changes the status as the lifecycle does.
ImplementsLifecycle == Lifecycle!Spec
=============================================================================
