---------------------------- MODULE RiScService -----------------------------
(***************************************************************************)
(* Requests to the backend about one risk scorecard, as                    *)
(* services/RiScService.ts serves them: each request is a sequence of      *)
(* GitHub calls, and the calls of concurrent requests (of several users,   *)
(* or of one user's browser tabs) interleave.  The backend holds no lock   *)
(* and keeps no state between requests.  Any call may fail, or take effect *)
(* without its answer arriving; either ends the request with an error and  *)
(* leaves whatever it did before in the repository.                        *)
(*                                                                         *)
(* Left out: encryption, schema validation and migration (functions of the *)
(* content), names, messages.                                              *)
(***************************************************************************)
EXTENDS GitHubRepository, RiScStatus

CONSTANT Request  \* each request is made once; its write is content Request

ASSUME RequestAssumption == Request \subseteq Content

VARIABLES
    req,   \* local state of each request
    watch  \* history: what held while the request was served

vars == <<main, branch, pr, req, watch>>

Operations == {"create", "update", "delete", "publish", "fetch"}

Metadata == {"published", "branches", "pulls"}

PCs == {"idle", "resolve", "head", "createBranch", "sha", "write", "pulls",
        "close", "published", "branchHead", "deleteBranch", "deleteFile",
        "createPull", "done"}

Answers == {"CreatedRiSc", "UpdatedRiSc", "UpdatedRiScRequiresNewApproval",
            "DeletedRiSc", "DeletedRiScRequiresApproval", "CreatedPullRequest",
            "ErrorWhenUpdatingRiSc", "ErrorWhenCreatingPullRequest",
            "Failure", "Error", "none"} \cup Statuses

\* base           update: the content the user edited
\* needs          update: isRequiresNewApproval, decided by the frontend
\* todo           metadata reads of Promise.all that are not answered yet
\* main           what the first read of the default branch returned
\* hasBranch, pull  what the branch and pull request reads returned
\* mainContent, branchContent  what fetchFileContent returned
\* head           content at the default branch's head when its sha was read
\* sha            sha passed to the contents API
RequestState ==
    [pc : PCs, op : Operations, needs : BOOLEAN, base : File,
     todo : SUBSET Metadata, main : File, hasBranch : BOOLEAN, pull : Nat,
     mainContent : File \cup {Failed, Unread},
     branchContent : File \cup {Failed, Unread},
     head : File, sha : File, answer : Answers]

\* quiet   fetch: the repository did not change while the request was served
\* alive   fetch: the RiSc existed, as a draft or published, all that time
\* staged  update: the RiSc was staged for deletion all that time
\* kept    the draft branch was not deleted since the request began
WatchState ==
    [quiet : BOOLEAN, alive : BOOLEAN, staged : BOOLEAN, kept : BOOLEAN]

TypeOK ==
    /\ RepoTypeOK
    /\ req \in [Request -> RequestState]
    /\ watch \in [Request -> WatchState]

Idle == [pc |-> "idle", op |-> "fetch", needs |-> FALSE, base |-> NoFile,
         todo |-> Metadata, main |-> NoFile, hasBranch |-> FALSE, pull |-> 0,
         mainContent |-> Unread, branchContent |-> Unread, head |-> NoFile,
         sha |-> NoFile, answer |-> "none"]

\* Any repository earlier requests can have left behind.
Init ==
    /\ main \in File \ Request
    /\ branch \in (File \cup {NoBranch}) \ Request
    /\ \/ pr = [number |-> 0, open |-> FALSE, approved |-> NoFile]
       \/ /\ branch \notin {NoBranch, main}
          /\ pr = [number |-> 1, open |-> TRUE, approved |-> branch]
    /\ req = [r \in Request |-> Idle]
    /\ watch = [r \in Request |->
          [quiet |-> TRUE, alive |-> TRUE, staged |-> TRUE, kept |-> TRUE]]

At(r, pc) == req[r].pc = pc

InFlight(r) == req[r].pc \notin {"idle", "done"}

Goto(r, pc) == req' = [req EXCEPT ![r].pc = pc]

\* A request's local state ends with it; the fields kept are for properties.
Over(q, answer) == [Idle EXCEPT !.pc = "done", !.op = q.op, !.needs = q.needs,
                                !.sha = q.sha, !.answer = answer]

Reply(r, answer) == req' = [req EXCEPT ![r] = Over(@, answer)]

\* The reply to a call that had an effect may be lost on its way.
ReplyOrLose(r, answer) == \E a \in {answer, "Error"} : Reply(r, a)

-----------------------------------------------------------------------------
(* What a step does to the history.                                        *)

\* The RiSc is published and its draft branch has no file.
DeletionStaged == main # NoFile /\ branch = NoFile

Exists == main # NoFile \/ FileOnBranch # NoFile

Observe ==
    watch' = [r \in Request |->
        [quiet  |-> watch[r].quiet /\
                    (req[r].op = "fetch" /\ InFlight(r) => UNCHANGED repo),
         alive  |-> watch[r].alive /\
                    (req'[r].op = "fetch" /\ InFlight(r)' => Exists'),
         staged |-> watch[r].staged /\
                    (req'[r].op = "update" /\ InFlight(r)' => DeletionStaged'),
         kept   |-> watch[r].kept /\
                    (InFlight(r) \/ At(r, "done") =>
                        ~(branch # NoBranch /\ branch' = NoBranch))]]

ReadOnly == UNCHANGED repo /\ Observe

-----------------------------------------------------------------------------
(* Arrival.  A RiSc's id is drawn at random by the create request and      *)
(* nobody else can name it before that request is over.                    *)

StartCreate(r) ==
    /\ \A q \in Request : At(q, "idle")
    /\ main = NoFile /\ branch = NoBranch
    /\ req' = [req EXCEPT ![r].pc = "head", ![r].op = "create"]
    /\ ReadOnly

Known == \A q \in Request : InFlight(q) => req[q].op # "create"

StartUpdate(r, needs) ==
    /\ At(r, "idle") /\ Known
    /\ req' = [req EXCEPT ![r].pc = "resolve", ![r].op = "update",
                          ![r].needs = needs,
                          ![r].base = IF FileOnBranch = NoFile THEN main
                                                               ELSE branch]
    /\ ReadOnly

StartDelete(r) ==
    /\ At(r, "idle") /\ Known
    /\ req' = [req EXCEPT ![r].pc = "published", ![r].op = "delete"]
    /\ ReadOnly

StartPublish(r) ==
    /\ At(r, "idle") /\ Known
    /\ req' = [req EXCEPT ![r].pc = "branchHead", ![r].op = "publish"]
    /\ ReadOnly

StartFetch(r) ==
    /\ At(r, "idle") /\ Known
    /\ req' = [req EXCEPT ![r].pc = "resolve", ![r].op = "fetch"]
    /\ ReadOnly

-----------------------------------------------------------------------------
(* The status, as fetchAllRiScs with fetchSingleRiSc and resolveRiscStatus *)
(* determine it: three metadata reads in parallel, then the two contents   *)
(* in parallel.                                                            *)

ReadPublished(r) ==
    /\ At(r, "resolve") /\ "published" \in req[r].todo
    /\ req' = [req EXCEPT ![r].main = main, ![r].todo = @ \ {"published"}]
    /\ ReadOnly

ReadBranches(r) ==
    /\ At(r, "resolve") /\ "branches" \in req[r].todo
    /\ req' = [req EXCEPT ![r].hasBranch = (branch # NoBranch),
                          ![r].todo = @ \ {"branches"}]
    /\ ReadOnly

ReadPulls(r) ==
    /\ At(r, "resolve") /\ "pulls" \in req[r].todo
    /\ \E n \in OpenPullRequestListings :
          req' = [req EXCEPT ![r].pull = n, ![r].todo = @ \ {"pulls"}]
    /\ ReadOnly

ReadMainContent(r) ==
    /\ At(r, "resolve") /\ req[r].todo = {} /\ req[r].mainContent = Unread
    /\ \E c \in ContentResponses(main) :
          req' = [req EXCEPT ![r].mainContent = c]
    /\ ReadOnly

ReadBranchContent(r) ==
    /\ At(r, "resolve") /\ req[r].todo = {} /\ req[r].branchContent = Unread
    /\ req[r].hasBranch
    /\ \E c \in ContentResponses(FileOnBranch) :
          req' = [req EXCEPT ![r].branchContent = c]
    /\ ReadOnly

Resolved(r) ==
    /\ At(r, "resolve") /\ req[r].todo = {} /\ req[r].mainContent # Unread
    /\ req[r].hasBranch => req[r].branchContent # Unread

ResolvedStatus(r) ==
    GetRiScStatus(req[r].main # NoFile, req[r].hasBranch, req[r].pull # 0,
                  req[r].mainContent, req[r].branchContent)

\* What chooseContentFromStatus puts in the answer to a fetch.
ResolvedContent(r) ==
    ChooseContent(ResolvedStatus(r), req[r].branchContent, req[r].mainContent)

AnswerFetch(r) ==
    /\ Resolved(r) /\ req[r].op = "fetch"
    /\ Reply(r, IF req[r].hasBranch /\ req[r].branchContent = Failed
                THEN "Failure" ELSE ResolvedStatus(r))
    /\ ReadOnly

-----------------------------------------------------------------------------
(* updateRiSc, and what it shares with createRiSc and deleteRiSc.          *)

RefuseUpdate(r) ==
    /\ Resolved(r) /\ req[r].op = "update"
    /\ StagedForDeletion(ResolvedStatus(r))
    /\ Reply(r, "ErrorWhenUpdatingRiSc")
    /\ ReadOnly

AcceptUpdate(r) ==
    /\ Resolved(r) /\ req[r].op = "update"
    /\ ~StagedForDeletion(ResolvedStatus(r))
    /\ Goto(r, IF req[r].hasBranch THEN "sha" ELSE "head")
    /\ ReadOnly

ReadHead(r) ==
    /\ At(r, "head")
    /\ req' = [req EXCEPT ![r].pc = "createBranch", ![r].head = main]
    /\ ReadOnly

CreateDraftBranch(r) ==
    /\ At(r, "createBranch")
    /\ CreateBranch(req[r].head)
    /\ Goto(r, CASE req[r].op = "create" -> "write"
                 [] req[r].op = "update" -> "sha"
                 [] OTHER -> "deleteFile")
    /\ Observe

\* Mutant of ReadSha: takes the sha of a file that is not there.
FaultyReadSha(r) ==
    /\ At(r, "sha")
    /\ req' = [req EXCEPT
          ![r].pc = IF req[r].op = "update" THEN "write" ELSE "deleteFile",
          ![r].sha = branch]
    /\ ReadOnly

\* An update of a file that is gone creates it; a deletion then falls back on
\* the sha of the published file.
ReadSha(r) ==
    /\ At(r, "sha")
    /\ req' = [req EXCEPT
          ![r].pc = IF req[r].op = "update" THEN "write" ELSE "deleteFile",
          ![r].sha = IF FileOnBranch = NoFile THEN @ ELSE branch]
    /\ ReadOnly

\* Mutant of Write: answers a conflict by writing again with the current sha.
FaultyWrite(r) ==
    /\ At(r, "write")
    /\ WriteFile(branch, r)
    /\ \/ req[r].op = "create" /\ ReplyOrLose(r, "CreatedRiSc")
       \/ req[r].op = "update" /\ ~req[r].needs /\ ReplyOrLose(r, "UpdatedRiSc")
       \/ req[r].op = "update" /\ req[r].needs /\ Goto(r, "pulls")
    /\ Observe

Write(r) ==
    /\ At(r, "write")
    /\ WriteFile(req[r].sha, r)
    /\ \/ req[r].op = "create" /\ ReplyOrLose(r, "CreatedRiSc")
       \/ req[r].op = "update" /\ ~req[r].needs /\ ReplyOrLose(r, "UpdatedRiSc")
       \/ req[r].op = "update" /\ req[r].needs /\ Goto(r, "pulls")
    /\ Observe

FindPull(r) ==
    /\ At(r, "pulls")
    /\ \E n \in OpenPullRequestListings \ {0} :
          req' = [req EXCEPT ![r].pc = "close", ![r].pull = n]
    /\ ReadOnly

\* Mutant of FindNoPull: compares pr.head.ref with a name it never has.
FaultyFindNoPull(r) ==
    /\ At(r, "pulls")
    /\ Reply(r, "UpdatedRiSc")
    /\ ReadOnly

FindNoPull(r) ==
    /\ At(r, "pulls")
    /\ 0 \in OpenPullRequestListings
    /\ Reply(r, "UpdatedRiSc")
    /\ ReadOnly

ClosePull(r) ==
    /\ At(r, "close")
    /\ ClosePullRequest(req[r].pull)
    /\ ReplyOrLose(r, "UpdatedRiScRequiresNewApproval")
    /\ Observe

-----------------------------------------------------------------------------
(* deleteRiSc.                                                             *)

CheckPublished(r) ==
    /\ At(r, "published")
    /\ req' = [req EXCEPT
          ![r].pc = IF main = NoFile THEN "deleteBranch" ELSE "branchHead",
          ![r].main = main, ![r].sha = main]
    /\ ReadOnly

DeleteDraftBranch(r) ==
    /\ At(r, "deleteBranch")
    /\ DeleteBranch
    /\ ReplyOrLose(r, "DeletedRiSc")
    /\ Observe

CheckBranch(r) ==
    /\ At(r, "branchHead") /\ req[r].op = "delete"
    /\ Goto(r, IF branch = NoBranch THEN "head" ELSE "sha")
    /\ ReadOnly

\* Mutant of StageDeletion: does not name the branch, so that GitHub deletes
\* the file on the default branch.
FaultyStageDeletion(r) ==
    /\ At(r, "deleteFile")
    /\ main \in Content /\ main = req[r].sha
    /\ main' = NoFile
    /\ UNCHANGED <<branch, pr>>
    /\ ReplyOrLose(r, "DeletedRiScRequiresApproval")
    /\ Observe

StageDeletion(r) ==
    /\ At(r, "deleteFile")
    /\ DeleteFile(req[r].sha)
    /\ ReplyOrLose(r, "DeletedRiScRequiresApproval")
    /\ Observe

-----------------------------------------------------------------------------
(* publishRiSc.                                                            *)

FindNoDraft(r) ==
    /\ At(r, "branchHead") /\ req[r].op = "publish"
    /\ branch = NoBranch
    /\ Reply(r, "ErrorWhenCreatingPullRequest")
    /\ ReadOnly

FindDraft(r) ==
    /\ At(r, "branchHead") /\ req[r].op = "publish"
    /\ branch # NoBranch
    /\ Goto(r, "createPull")
    /\ ReadOnly

Publish(r) ==
    /\ At(r, "createPull")
    /\ CreatePullRequest
    /\ ReplyOrLose(r, "CreatedPullRequest")
    /\ Observe

-----------------------------------------------------------------------------

\* A GitHub call is refused or gets no answer, or the backend goes down: the
\* error handler answers 500, if anything, and nothing is undone.
Fail(r) ==
    /\ InFlight(r)
    /\ Reply(r, "Error")
    /\ ReadOnly

Start(r) ==
    \/ StartCreate(r) \/ StartDelete(r) \/ StartPublish(r) \/ StartFetch(r)
    \/ \E needs \in BOOLEAN : StartUpdate(r, needs)

Resolve(r) ==
    \/ ReadPublished(r) \/ ReadBranches(r) \/ ReadPulls(r)
    \/ ReadMainContent(r) \/ ReadBranchContent(r)
    \/ AnswerFetch(r) \/ RefuseUpdate(r) \/ AcceptUpdate(r)

Serve(r) ==
    \/ ReadHead(r) \/ CreateDraftBranch(r) \/ ReadSha(r) \/ Write(r)
    \/ FindPull(r) \/ FindNoPull(r) \/ ClosePull(r)
    \/ CheckPublished(r) \/ DeleteDraftBranch(r) \/ CheckBranch(r)
    \/ StageDeletion(r)
    \/ FindNoDraft(r) \/ FindDraft(r) \/ Publish(r)
    \/ Fail(r)

\* What people and GitHub do outside the plugin.
Elsewhere ==
    /\ MergePullRequest \/ RejectPullRequest \/ DeleteMergedBranch
    /\ UNCHANGED req
    /\ Observe

Next == Elsewhere \/ \E r \in Request : Start(r) \/ Resolve(r) \/ Serve(r)

Spec == Init /\ [][Next]_vars
=============================================================================
