------------------------ MODULE RiScServiceRefinement ------------------------
(***************************************************************************)
(* The proof that RiScService implements RiScLifecycle, for any set of     *)
(* requests and of contents: whatever calls of whatever requests           *)
(* interleave, each step changes the status of the RiSc as its users know  *)
(* it, or not at all.                                                      *)
(***************************************************************************)
EXTENDS RiScServiceProofs

\* The content of a request is nowhere before the request has written it: what
\* is written differs from what is published.
Unwritten(c) ==
    ~PastWrite(c) => c \notin {main, branch} /\ \A q \in Request : req[q].head # c

\* An open pull request changes something, unless the deletion of what it was to
\* publish has emptied it.
PullRequestDiffers == pr.open /\ branch = main => main = NoFile

LifeInv == Inv /\ (\A c \in Request : Unwritten(c)) /\ PullRequestDiffers

-----------------------------------------------------------------------------
(* The invariant.                                                          *)

\* Of the default branch a request keeps what it has read there.
LEMMA HeadFrame ==
    ASSUME TypeOK, NEW r \in Request, Start(r) \/ Resolve(r) \/ Serve(r)
    PROVE  req'[r].head \in {req[r].head, main, NoFile}
<1> USE DEF TypeOK, RequestState
<1>1. ASSUME NEW pc, Goto(r, pc) PROVE req'[r].head = req[r].head
  BY <1>1 DEF Goto
<1>2. ASSUME NEW answer, Reply(r, answer) PROVE req'[r].head = NoFile
  BY <1>2 DEF Reply, Over, Idle
<1>3. ASSUME NEW answer, ReplyOrLose(r, answer) PROVE req'[r].head = NoFile
  BY <1>2, <1>3 DEF ReplyOrLose
<1>4. CASE Start(r)
  <2>1. ASSUME NEW needs \in BOOLEAN, StartUpdate(r, needs) PROVE req'[r].head = req[r].head
    BY <2>1 DEF StartUpdate
  <2>2. CASE StartCreate(r) \/ StartDelete(r) \/ StartPublish(r) \/ StartFetch(r)
    BY <2>2 DEF StartCreate, StartDelete, StartPublish, StartFetch
  <2> QED BY <1>4, <2>1, <2>2 DEF Start
<1>5. CASE ReadPublished(r) \/ ReadBranches(r) \/ ReadPulls(r)
  BY <1>5 DEF ReadPublished, ReadBranches, ReadPulls
<1>6. CASE ReadMainContent(r) \/ ReadBranchContent(r)
  BY <1>6 DEF ReadMainContent, ReadBranchContent
<1>7. CASE AnswerFetch(r) \/ RefuseUpdate(r) \/ AcceptUpdate(r)
  BY <1>1, <1>2, <1>7 DEF AnswerFetch, RefuseUpdate, AcceptUpdate
<1>8. CASE ReadHead(r) \/ ReadSha(r) \/ CheckPublished(r) \/ FindPull(r)
  BY <1>8 DEF ReadHead, ReadSha, CheckPublished, FindPull
<1>9. CASE CreateDraftBranch(r) \/ Write(r) \/ CheckBranch(r) \/ FindDraft(r)
  BY <1>1, <1>3, <1>9 DEF CreateDraftBranch, Write, CheckBranch, FindDraft
<1>10. CASE FindNoPull(r) \/ FindNoDraft(r) \/ Fail(r)
  BY <1>2, <1>10 DEF FindNoPull, FindNoDraft, Fail
<1>11. CASE ClosePull(r) \/ DeleteDraftBranch(r) \/ StageDeletion(r) \/ Publish(r)
  BY <1>3, <1>11 DEF ClosePull, DeleteDraftBranch, StageDeletion, Publish
<1> QED BY <1>4, <1>5, <1>6, <1>7, <1>8, <1>9, <1>10, <1>11 DEF Resolve, Serve

\* The steps of the repository, with what the invariant knows of their arguments.
Branches ==
    \E r \in Request :
        CreateBranch(req[r].head)

WritesOwn ==
    \E r \in Request :
        ~PastWrite(r) /\ PastWrite(r)' /\ (\E sha \in File : WriteFile(sha, r))

Closes == \E n \in Nat : ClosePullRequest(n)

Deletes == DeleteBranch \/ \E sha \in File : DeleteFile(sha)

LEMMA RepositorySteps ==
    ASSUME Inv, Next
    PROVE  \/ UNCHANGED repo \/ Branches \/ WritesOwn \/ Closes \/ Deletes
           \/ CreatePullRequest \/ MergePullRequest
<1>1. TypeOK
  BY DEF Inv, TypeInv
<1>2. CASE Elsewhere
  <2>1. pr.number \in Nat
    BY <1>1 DEF TypeOK, RepoTypeOK, PullRequest
  <2> QED BY <1>2, <2>1 DEF Elsewhere, RejectPullRequest, DeleteMergedBranch, Closes, Deletes
<1>3. ASSUME NEW r \in Request, Start(r) \/ Resolve(r)
      PROVE  UNCHANGED repo
  BY <1>1, <1>3, StartFrame, ResolveFrame DEF ReadOnly
<1>4. ASSUME NEW r \in Request, Serve(r)
      PROVE  \/ UNCHANGED repo \/ Branches \/ WritesOwn \/ Closes \/ Deletes
             \/ CreatePullRequest
  <2>1. req[r].sha \in File /\ req[r].pull \in Nat
    BY <1>1 DEF TypeOK, RequestState
  <2>2. CASE ReadsOn(r) \/ FindsPull(r) \/ FindsNoPull(r) \/ Fails(r)
    BY <2>2 DEF ReadsOn, FindsPull, FindsNoPull, Fails, ReadOnly
  <2>3. CASE BranchesOff(r)
    BY <2>3 DEF BranchesOff, Branches
  <2>4. CASE Writes(r)
    BY <2>1, <2>4 DEF Writes, WritesOwn, PastWrite, At
  <2>5. CASE ClosesPull(r)
    BY <2>1, <2>5 DEF ClosesPull, Closes
  <2>6. CASE EndsOtherwise(r)
    BY <2>1, <2>6 DEF EndsOtherwise, Deletes
  <2> QED BY <1>1, <1>4, <2>2, <2>3, <2>4, <2>5, <2>6, ServeEffect
<1> QED BY <1>2, <1>3, <1>4 DEF Next

LEMMA UnwrittenStep ==
    ASSUME LifeInv, Next, NEW c \in Request
    PROVE  Unwritten(c)'
<1>1. Inv /\ TypeOK /\ \A d \in Request : Unwritten(d)
  BY DEF LifeInv, Inv, TypeInv
<1>2. c \notin {NoFile, NoBranch}
  BY RepositoryAssumption, RequestAssumption DEF Sentinels
<1> SUFFICES ASSUME ~PastWrite(c)'
             PROVE  c \notin {main', branch'} /\ \A q \in Request : req'[q].head # c
  BY DEF Unwritten
<1>3. /\ ~PastWrite(c) /\ c \notin {main, branch}
      /\ \A q \in Request : req[q].head # c
  BY <1>1, PastWriteStays DEF Unwritten
<1>4. \A q \in Request : req'[q].head # c
  BY <1>1, <1>2, <1>3, NextFrame, HeadFrame DEF OthersUnchanged
<1>5. c \notin {main', branch'}
  <2>1. CASE UNCHANGED repo
    BY <1>3, <2>1 DEF repo
  <2>2. CASE Branches
    BY <1>3, <2>2 DEF Branches, CreateBranch
  <2>3. CASE WritesOwn
    BY <1>3, <2>3 DEF WritesOwn, WriteFile
  <2>4. CASE Closes \/ Deletes
    BY <1>2, <1>3, <2>4 DEF Closes, ClosePullRequest, Deletes, DeleteBranch, DeleteFile
  <2>5. CASE CreatePullRequest \/ MergePullRequest
    BY <1>3, <2>5 DEF CreatePullRequest, MergePullRequest
  <2> QED BY <1>1, <2>1, <2>2, <2>3, <2>4, <2>5, RepositorySteps
<1> QED BY <1>4, <1>5

LEMMA PullRequestDiffersStep ==
    ASSUME LifeInv, Next
    PROVE  PullRequestDiffers'
<1>1. /\ Inv /\ TypeOK /\ PullRequestHasBranch /\ pr \in PullRequest
      /\ PullRequestDiffers /\ \A d \in Request : Unwritten(d)
  BY DEF LifeInv, Inv, TypeInv, TypeOK, RepoTypeOK
<1> USE DEF PullRequestDiffers
<1>2. CASE UNCHANGED repo
  BY <1>1, <1>2 DEF repo
<1>3. CASE Branches
  BY <1>1, <1>3 DEF Branches, CreateBranch, PullRequestHasBranch
<1>4. CASE WritesOwn
  BY <1>1, <1>4 DEF WritesOwn, WriteFile, Unwritten
<1>5. CASE Closes
  BY <1>1, <1>5 DEF Closes, ClosePullRequest, PullRequest
<1>6. CASE Deletes
  BY <1>1, <1>6 DEF Deletes, DeleteBranch, DeleteFile, PullRequest
<1>7. CASE CreatePullRequest \/ MergePullRequest
  BY <1>1, <1>7 DEF CreatePullRequest, MergePullRequest, PullRequest
<1> QED BY <1>1, <1>2, <1>3, <1>4, <1>5, <1>6, <1>7, RepositorySteps

LEMMA LifeInvInit == Init => LifeInv
<1> SUFFICES ASSUME Init PROVE LifeInv
  OBVIOUS
<1>1. ASSUME NEW c \in Request PROVE Unwritten(c)
  <2>1. c \notin {main, branch, NoFile}
    BY RepositoryAssumption, RequestAssumption DEF Init, Sentinels
  <2>2. \A q \in Request : req[q].head = NoFile
    BY DEF Init, Idle
  <2> QED BY <2>1, <2>2 DEF Unwritten
<1>2. PullRequestDiffers
  BY DEF Init, PullRequestDiffers
<1> QED BY <1>1, <1>2, InitInv DEF LifeInv

LEMMA LifeInvStep == LifeInv /\ [Next]_vars => LifeInv'
<1> SUFFICES ASSUME LifeInv, [Next]_vars PROVE LifeInv'
  OBVIOUS
<1>1. CASE Next
  BY <1>1, InvStep, UnwrittenStep, PullRequestDiffersStep DEF LifeInv
<1>2. CASE UNCHANGED vars
  <2>1. Inv'
    BY <1>2, InvStep DEF LifeInv
  <2> QED BY <1>2, <2>1 DEF LifeInv, vars, Unwritten, PullRequestDiffers, PastWrite
<1> QED BY <1>1, <1>2

-----------------------------------------------------------------------------
(* The steps of the lifecycle.                                             *)

\* What the users see, of a repository that is well typed.
LEMMA StatusMeans ==
    ASSUME TypeInv
    PROVE  LET s == RepositoryStatus IN
           /\ branch \in {NoBranch, main} =>
                 s = IF main = NoFile THEN "Deleted" ELSE "Published"
           /\ branch \notin {NoBranch, main, NoFile} =>
                 s = IF pr.open THEN "SentForApproval" ELSE "Draft"
           /\ branch = NoFile /\ main # NoFile =>
                 s = IF pr.open THEN "DeletionSentForApproval" ELSE "DeletionDraft"
<1>1. NoFile # NoBranch
  BY DEF NoFile, NoBranch
<1> QED BY <1>1 DEF RepositoryStatus

LEMMA LifecycleStep ==
    ASSUME LifeInv, LifeInv', Next
    PROVE  Lifecycle!Next \/ UNCHANGED RepositoryStatus
<1> DEFINE s == RepositoryStatus
           t == RepositoryStatus'
<1>1. /\ TypeInv /\ TypeInv' /\ pr \in PullRequest /\ NoFile # NoBranch
      /\ main \in File /\ NoBranch \notin File /\ branch \in File \cup {NoBranch}
      /\ PullRequestHasBranch /\ PullRequestDiffers
  BY RepositoryAssumption
     DEF LifeInv, Inv, TypeInv, TypeOK, RepoTypeOK, File, Sentinels, NoFile, NoBranch
<1>2. CASE UNCHANGED repo
  BY <1>2 DEF repo, RepositoryStatus
<1>3. CASE Branches
  <2>1. branch = NoBranch /\ ~pr.open /\ main' = main /\ pr' = pr
    BY <1>1, <1>3 DEF Branches, CreateBranch, PullRequestHasBranch
  <2>2. s = IF main = NoFile THEN "Deleted" ELSE "Published"
    BY <1>1, <2>1, StatusMeans
  <2>3. \/ t = s
        \/ t = "Draft"
        \/ s = "Published" /\ t = "DeletionDraft"
    BY <1>1, <2>1, <2>2, StatusMeans DEF RepositoryStatus
  <2> QED BY <2>2, <2>3 DEF Lifecycle!Next, Lifecycle!SaveDraft, Lifecycle!StageDeletion,
                            Lifecycle!Sent
<1>4. CASE WritesOwn
  <2>1. PICK r \in Request : branch # NoBranch /\ branch' = r /\ main' = main /\ pr' = pr
                             /\ r # main
    BY <1>4 DEF WritesOwn, WriteFile, LifeInv, Unwritten
  <2>2. r \notin {NoBranch, NoFile}
    BY RepositoryAssumption, RequestAssumption DEF Sentinels
  <2>3. t = IF pr.open THEN "SentForApproval" ELSE "Draft"
    BY <2>1, <2>2 DEF RepositoryStatus
  <2>4. /\ branch = main => s = IF main = NoFile THEN "Deleted" ELSE "Published"
        /\ branch = main /\ pr.open => main = NoFile
        /\ branch \notin {main, NoFile} => s = IF pr.open THEN "SentForApproval" ELSE "Draft"
        /\ branch = NoFile /\ main # NoFile =>
              s = IF pr.open THEN "DeletionSentForApproval" ELSE "DeletionDraft"
    BY <1>1, <2>1, StatusMeans DEF PullRequestDiffers
  <2> QED BY <2>3, <2>4 DEF Lifecycle!Next, Lifecycle!SaveDraft, Lifecycle!Sent
<1>5. CASE Closes
  <2>1. main' = main /\ branch' = branch /\ (pr' = pr \/ ~pr'.open)
    BY <1>1, <1>5 DEF Closes, ClosePullRequest, PullRequest
  <2>2. \/ t = s
        \/ s = "SentForApproval" /\ t = "Draft"
        \/ s = "DeletionSentForApproval" /\ t = "DeletionDraft"
    BY <1>1, <2>1 DEF RepositoryStatus
  <2> QED BY <2>2 DEF Lifecycle!Next, Lifecycle!Withdraw
<1>6. CASE DeleteBranch
  <2>1. branch # NoBranch /\ branch' = NoBranch /\ main' = main
    BY <1>6 DEF DeleteBranch
  <2>2. t = IF main = NoFile THEN "Deleted" ELSE "Published"
    BY <2>1 DEF RepositoryStatus
  <2>3. \/ s = t
        \/ s \in {"Draft", "SentForApproval"}
        \/ s \in {"DeletionDraft", "DeletionSentForApproval"} /\ main # NoFile
    BY <1>1, <2>1, <2>2 DEF RepositoryStatus
  <2> QED BY <2>2, <2>3 DEF Lifecycle!Next, Lifecycle!DiscardDraft
<1>7. CASE \E sha \in File : DeleteFile(sha)
  <2>1. branch \in Content /\ branch' = NoFile /\ main' = main /\ pr' = pr
    BY <1>7 DEF DeleteFile
  <2>2. branch \notin {NoFile, NoBranch}
    BY <2>1, RepositoryAssumption DEF Sentinels
  <2>3. CASE main = NoFile
    <3>1. t = "Deleted" /\ s \in {"SentForApproval", "Draft"}
      BY <1>1, <2>1, <2>2, <2>3 DEF RepositoryStatus
    <3> QED BY <3>1 DEF Lifecycle!Next, Lifecycle!DiscardDraft
  <2>4. CASE main # NoFile
    <3>1. t = IF pr.open THEN "DeletionSentForApproval" ELSE "DeletionDraft"
      BY <1>1, <2>1, <2>4 DEF RepositoryStatus
    <3>2. s = IF branch = main THEN "Published"
              ELSE IF pr.open THEN "SentForApproval" ELSE "Draft"
      BY <1>1, <2>2, <2>4 DEF RepositoryStatus
    <3>3. branch = main => ~pr.open
      BY <1>1, <2>4 DEF PullRequestDiffers
    <3> QED BY <3>1, <3>2, <3>3 DEF Lifecycle!Next, Lifecycle!StageDeletion, Lifecycle!Sent
  <2> QED BY <2>3, <2>4
<1>8. CASE CreatePullRequest
  <2>1. /\ branch \notin {NoBranch, main} /\ ~pr.open /\ pr'.open
        /\ main' = main /\ branch' = branch
    BY <1>8 DEF CreatePullRequest
  <2>2. \/ s = "Draft" /\ t = "SentForApproval"
        \/ s = "DeletionDraft" /\ t = "DeletionSentForApproval"
    BY <2>1 DEF RepositoryStatus
  <2> QED BY <2>2 DEF Lifecycle!Next, Lifecycle!SendForApproval
<1>9. CASE MergePullRequest
  <2>1. pr.open /\ main' = branch /\ branch' = branch /\ branch # NoBranch
    BY <1>1, <1>9 DEF MergePullRequest, PullRequestHasBranch
  <2>2. t = IF branch = NoFile THEN "Deleted" ELSE "Published"
    BY <2>1 DEF RepositoryStatus
  <2>3. \/ s = t
        \/ s = "SentForApproval" /\ t = "Published"
        \/ s = "DeletionSentForApproval" /\ t = "Deleted"
    BY <1>1, <2>1, <2>2 DEF RepositoryStatus, PullRequestDiffers
  <2> QED BY <2>3 DEF Lifecycle!Next, Lifecycle!Approve
<1> QED
  BY <1>1, <1>2, <1>3, <1>4, <1>5, <1>6, <1>7, <1>8, <1>9, RepositorySteps
     DEF Deletes, LifeInv

\* RiScService.ts, GitHubService.ts: however the calls of however many requests
\* interleave, fail or lose their answers, nothing is published but by the
\* approval of what was sent, and nothing is sent that was not a draft before.
THEOREM ServiceImplementsLifecycle == Spec => ImplementsLifecycle
<1>1. Init => Lifecycle!Init
  BY DEF Lifecycle!Init, RepositoryStatus
<1>2. LifeInv /\ LifeInv' /\ [Next]_vars => [Lifecycle!Next]_RepositoryStatus
  <2> SUFFICES ASSUME LifeInv, LifeInv', [Next]_vars
               PROVE  [Lifecycle!Next]_RepositoryStatus
    OBVIOUS
  <2>1. CASE Next
    BY <2>1, LifecycleStep
  <2>2. CASE UNCHANGED vars
    BY <2>2 DEF vars, RepositoryStatus
  <2> QED BY <2>1, <2>2
<1> QED
  BY <1>1, <1>2, LifeInvInit, LifeInvStep, PTL
     DEF Spec, ImplementsLifecycle, Lifecycle!Spec
=============================================================================
