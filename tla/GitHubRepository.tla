-------------------------- MODULE GitHubRepository --------------------------
(***************************************************************************)
(* The part of a GitHub repository that holds one risk scorecard (RiSc):   *)
(* its file on the default branch, its draft branch (named after the RiSc  *)
(* id) and the pull request from the one to the other.  The operations are *)
(* those of services/GitHubService.ts, each a single REST call that GitHub *)
(* executes atomically.  Every encryption yields fresh ciphertext, so a    *)
(* file content is identified with the write that produced it, and Git's   *)
(* blob sha, a hash of the content, is represented by the content itself.  *)
(*                                                                         *)
(* A call that GitHub refuses (404, 409, 422) is a disabled action here;   *)
(* the service sees it as an error, like a call that gets no answer.       *)
(***************************************************************************)
EXTENDS Naturals

CONSTANTS
    Content,                \* file contents, one per write
    PullRequestsFitOnePage  \* are all open pull requests on the first page?

VARIABLES
    main,    \* the RiSc file on the default branch
    branch,  \* the RiSc file on the draft branch, or NoBranch
    pr       \* the latest pull request of the draft branch

repo == <<main, branch, pr>>

NoFile   == "NoFile"     \* a 404 for a file; also "no sha" in a write
NoBranch == "NoBranch"   \* a 404 for the draft branch
Failed   == "Failed"     \* a content response that is neither Success nor 404
Unread   == "Unread"     \* a value a request has not read yet

Sentinels == {NoFile, NoBranch, Failed, Unread}

ASSUME RepositoryAssumption ==
    /\ Content \cap Sentinels = {}
    /\ PullRequestsFitOnePage \in BOOLEAN

File == Content \cup {NoFile}

\* number   number of the pull request (0: there never was one)
\* open     its state
\* approved what was on the draft branch when the publishing user vouched for it
PullRequest == [number : Nat, open : BOOLEAN, approved : File]

RepoTypeOK ==
    /\ main \in File
    /\ branch \in File \cup {NoBranch}
    /\ pr \in PullRequest

-----------------------------------------------------------------------------
(* Reads.                                                                  *)

FileOnBranch == IF branch = NoBranch THEN NoFile ELSE branch

\* fetchFileContent turns every error but 404 into a response with no data.
ContentResponses(file) == {file, Failed}

\* GET pulls?state=open is not paginated: an open pull request that is not
\* among the newest ones of the repository is missing from the answer.
OpenPullRequestListings ==
    IF ~pr.open THEN {0}
    ELSE IF PullRequestsFitOnePage THEN {pr.number} ELSE {pr.number, 0}

-----------------------------------------------------------------------------
(* Writes.                                                                 *)

\* The contents API takes the sha of the file it is to replace, none for a
\* file that is to be created, and refuses any other.
WriteFile(sha, content) ==
    /\ branch # NoBranch
    /\ branch = sha
    /\ branch' = content
    /\ UNCHANGED <<main, pr>>

DeleteFile(sha) ==
    /\ branch \in Content
    /\ branch = sha
    /\ branch' = NoFile
    /\ UNCHANGED <<main, pr>>

CreateBranch(head) ==
    /\ branch = NoBranch
    /\ branch' = head
    /\ UNCHANGED <<main, pr>>

\* Deleting the head branch of an open pull request closes the pull request.
DeleteBranch ==
    /\ branch # NoBranch
    /\ branch' = NoBranch
    /\ pr' = [pr EXCEPT !.open = FALSE]
    /\ UNCHANGED main

\* One open pull request per branch, and only for a branch that differs.
CreatePullRequest ==
    /\ branch \notin {NoBranch, main}
    /\ ~pr.open
    /\ pr' = [number |-> pr.number + 1, open |-> TRUE, approved |-> branch]
    /\ UNCHANGED <<main, branch>>

\* Closing is idempotent: a number that is no longer open stays as it is.
ClosePullRequest(number) ==
    /\ pr' = IF pr.number = number THEN [pr EXCEPT !.open = FALSE] ELSE pr
    /\ UNCHANGED <<main, branch>>

-----------------------------------------------------------------------------
(* What people and GitHub do to the repository outside the plugin.         *)

MergePullRequest ==
    /\ pr.open
    /\ main' = branch
    /\ pr' = [pr EXCEPT !.open = FALSE]
    /\ UNCHANGED branch

RejectPullRequest ==
    /\ pr.open
    /\ ClosePullRequest(pr.number)

\* The draft branch of a merged pull request may be kept or deleted.
DeleteMergedBranch ==
    /\ branch = main
    /\ DeleteBranch
=============================================================================
