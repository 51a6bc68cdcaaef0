-------------------------- MODULE RiScServiceProofs -------------------------
(***************************************************************************)
(* Proofs about RiScService for any set of requests and of contents.       *)
(***************************************************************************)
EXTENDS RiScServiceProperties, TLAPS

\* Merging writes what is on the draft branch to the default branch, so that
\* TypeOK is inductive only together with this; 0 stands for no pull request.
PullRequestHasBranch == pr.open => branch # NoBranch /\ pr.number # 0

TypeInv == TypeOK /\ PullRequestHasBranch

-----------------------------------------------------------------------------
\* The initial state is well typed.
LEMMA InitTypeOK == Init => TypeOK
<1> SUFFICES ASSUME Init PROVE TypeOK
  OBVIOUS
<1>1. RepoTypeOK
  <2>1. main \in File /\ branch \in File \cup {NoBranch}
    BY DEF Init
  <2>2. NoFile \in File
    BY DEF File
  <2>3. pr \in PullRequest
    <3>1. CASE pr = [number |-> 0, open |-> FALSE, approved |-> NoFile]
      BY <3>1, <2>2 DEF PullRequest
    <3>2. CASE /\ branch \notin {NoBranch, main}
               /\ pr = [number |-> 1, open |-> TRUE, approved |-> branch]
      BY <3>2, <2>1 DEF PullRequest
    <3> QED
      BY <3>1, <3>2 DEF Init
  <2> QED
    BY <2>1, <2>3 DEF RepoTypeOK
<1>2. Idle \in RequestState
  BY DEF Idle, RequestState, PCs, Operations, Answers, Statuses, Metadata, File, NoFile, Unread
<1>3. req \in [Request -> RequestState]
  BY <1>2 DEF Init
<1>4. watch \in [Request -> WatchState]
  BY DEF Init, WatchState
<1> QED
  BY <1>1, <1>3, <1>4 DEF TypeOK

-----------------------------------------------------------------------------
(* Types: the parts that the actions share.                                *)

\* Moving on to the next call keeps a request well typed.
LEMMA GotoType ==
    ASSUME TypeOK, NEW r \in Request, NEW pc \in PCs, Goto(r, pc)
    PROVE  req' \in [Request -> RequestState]
BY DEF TypeOK, Goto, RequestState

\* So does the end of the request.
LEMMA ReplyType ==
    ASSUME TypeOK, NEW r \in Request, NEW answer \in Answers, Reply(r, answer)
    PROVE  req' \in [Request -> RequestState]
<1>1. Idle \in RequestState
  BY DEF Idle, RequestState, PCs, Operations, Answers, Statuses, Metadata, File,
         NoFile, Unread
<1>2. req[r] \in RequestState
  BY DEF TypeOK
<1>3. Over(req[r], answer) \in RequestState
  BY <1>1, <1>2 DEF Over, RequestState, PCs
<1> QED
  BY <1>3 DEF TypeOK, Reply

\* The history stays a function to records of booleans.
LEMMA ObserveType ==
    ASSUME TypeOK, Observe
    PROVE  watch' \in [Request -> WatchState]
<1>1. ASSUME NEW r \in Request
      PROVE  watch'[r] \in WatchState
  <2>1. watch[r] \in WatchState
    BY DEF TypeOK
  <2> QED
    BY <2>1 DEF Observe, WatchState
<1> QED
  BY <1>1 DEF Observe

\* A step that only reads leaves the repository, and so its type, alone.
LEMMA ReadOnlyType ==
    ASSUME TypeOK, ReadOnly, req' \in [Request -> RequestState]
    PROVE  TypeOK'
<1>1. RepoTypeOK'
  BY DEF TypeOK, RepoTypeOK, ReadOnly, repo
<1> QED
  BY <1>1, ObserveType DEF TypeOK, ReadOnly

-----------------------------------------------------------------------------
(* Types: the actions.                                                     *)

\* The arrival of a request keeps the state well typed.
LEMMA StartType ==
    ASSUME TypeOK, NEW r \in Request, Start(r)
    PROVE  TypeOK'
<1>1. req[r] \in RequestState /\ main \in File /\ branch \in File \cup {NoBranch}
  BY DEF TypeOK, RepoTypeOK
<1>2. CASE StartCreate(r)
  <2>1. req' \in [Request -> RequestState]
    BY <1>1, <1>2 DEF StartCreate, TypeOK, RequestState, PCs, Operations
  <2> QED
    BY <1>2, <2>1, ReadOnlyType DEF StartCreate
<1>3. CASE StartDelete(r)
  <2>1. req' \in [Request -> RequestState]
    BY <1>1, <1>3 DEF StartDelete, TypeOK, RequestState, PCs, Operations
  <2> QED
    BY <1>3, <2>1, ReadOnlyType DEF StartDelete
<1>4. CASE StartPublish(r)
  <2>1. req' \in [Request -> RequestState]
    BY <1>1, <1>4 DEF StartPublish, TypeOK, RequestState, PCs, Operations
  <2> QED
    BY <1>4, <2>1, ReadOnlyType DEF StartPublish
<1>5. CASE StartFetch(r)
  <2>1. req' \in [Request -> RequestState]
    BY <1>1, <1>5 DEF StartFetch, TypeOK, RequestState, PCs, Operations
  <2> QED
    BY <1>5, <2>1, ReadOnlyType DEF StartFetch
<1>6. ASSUME NEW needs \in BOOLEAN, StartUpdate(r, needs)
      PROVE  TypeOK'
  <2> DEFINE edited == IF FileOnBranch = NoFile THEN main ELSE branch
  <2>1. edited \in File
    BY <1>1 DEF FileOnBranch, File
  <2>2. req' = [req EXCEPT ![r].pc = "resolve", ![r].op = "update",
                           ![r].needs = needs, ![r].base = edited]
    BY <1>6 DEF StartUpdate
  <2> HIDE DEF edited
  <2>3. req' \in [Request -> RequestState]
    BY <1>1, <2>1, <2>2 DEF TypeOK, RequestState, PCs, Operations
  <2> QED
    BY <1>6, <2>3, ReadOnlyType DEF StartUpdate
<1> QED
  BY <1>2, <1>3, <1>4, <1>5, <1>6 DEF Start

\* Each read that determines the status, and each decision taken on it, keeps
\* the state well typed.
LEMMA ResolveType ==
    ASSUME TypeOK, NEW r \in Request, Resolve(r)
    PROVE  TypeOK'
<1>1. req[r] \in RequestState /\ main \in File /\ branch \in File \cup {NoBranch}
  BY DEF TypeOK, RepoTypeOK
<1>2. CASE ReadPublished(r)
  <2>1. req' \in [Request -> RequestState]
    BY <1>1, <1>2 DEF ReadPublished, TypeOK, RequestState
  <2> QED
    BY <1>2, <2>1, ReadOnlyType DEF ReadPublished
<1>3. CASE ReadBranches(r)
  <2>1. req' \in [Request -> RequestState]
    BY <1>1, <1>3 DEF ReadBranches, TypeOK, RequestState
  <2> QED
    BY <1>3, <2>1, ReadOnlyType DEF ReadBranches
<1>4. CASE ReadPulls(r)
  <2>1. OpenPullRequestListings \subseteq Nat
    BY DEF OpenPullRequestListings, TypeOK, RepoTypeOK, PullRequest
  <2>2. req' \in [Request -> RequestState]
    BY <1>1, <1>4, <2>1 DEF ReadPulls, TypeOK, RequestState
  <2> QED
    BY <1>4, <2>2, ReadOnlyType DEF ReadPulls
<1>5. CASE ReadMainContent(r)
  <2>1. req' \in [Request -> RequestState]
    BY <1>1, <1>5 DEF ReadMainContent, ContentResponses, TypeOK, RequestState
  <2> QED
    BY <1>5, <2>1, ReadOnlyType DEF ReadMainContent
<1>6. CASE ReadBranchContent(r)
  <2>1. ContentResponses(FileOnBranch) \subseteq File \cup {Failed}
    BY <1>1 DEF ContentResponses, FileOnBranch, File
  <2>2. req' \in [Request -> RequestState]
    BY <1>1, <1>6, <2>1 DEF ReadBranchContent, TypeOK, RequestState
  <2> QED
    BY <1>6, <2>2, ReadOnlyType DEF ReadBranchContent
<1>7. CASE AnswerFetch(r)
  <2>1. ResolvedStatus(r) \in Statuses
    BY DEF ResolvedStatus, GetRiScStatus, Statuses
  <2>2. PICK answer \in Answers : Reply(r, answer)
    BY <1>7, <2>1 DEF AnswerFetch, Answers
  <2> QED
    BY <1>7, <2>2, ReplyType, ReadOnlyType DEF AnswerFetch
<1>8. CASE RefuseUpdate(r)
  <2>1. "ErrorWhenUpdatingRiSc" \in Answers
    BY DEF Answers
  <2> QED
    BY <1>8, <2>1, ReplyType, ReadOnlyType DEF RefuseUpdate
<1>9. CASE AcceptUpdate(r)
  <2>1. PICK pc \in PCs : Goto(r, pc)
    BY <1>9 DEF AcceptUpdate, PCs
  <2> QED
    BY <1>9, <2>1, GotoType, ReadOnlyType DEF AcceptUpdate
<1> QED
  BY <1>2, <1>3, <1>4, <1>5, <1>6, <1>7, <1>8, <1>9 DEF Resolve

\* What a request may do to the repository.
Written(sha, content, head, number) ==
    \/ WriteFile(sha, content) \/ DeleteFile(sha) \/ CreateBranch(head)
    \/ DeleteBranch \/ CreatePullRequest \/ ClosePullRequest(number)

\* Each write of GitHubService keeps the repository well typed and the other
\* variables out of it.
LEMMA WriteType ==
    ASSUME RepoTypeOK, NEW content \in Content, NEW head \in File,
           NEW sha, NEW number, Written(sha, content, head, number)
    PROVE  RepoTypeOK'
<1> USE DEF RepoTypeOK, PullRequest
<1>1. CASE WriteFile(sha, content)
  BY <1>1 DEF WriteFile, File
<1>2. CASE DeleteFile(sha)
  BY <1>2 DEF DeleteFile, File
<1>3. CASE CreateBranch(head)
  BY <1>3 DEF CreateBranch
<1>4. CASE DeleteBranch
  BY <1>4 DEF DeleteBranch
<1>5. CASE CreatePullRequest
  BY <1>5 DEF CreatePullRequest
<1>6. CASE ClosePullRequest(number)
  BY <1>6 DEF ClosePullRequest
<1> QED
  BY <1>1, <1>2, <1>3, <1>4, <1>5, <1>6 DEF Written

\* A step that writes: the request and the repository are typed separately.
LEMMA WritingStepType ==
    ASSUME TypeOK, Observe, RepoTypeOK', req' \in [Request -> RequestState]
    PROVE  TypeOK'
BY ObserveType DEF TypeOK

\* A reply that may be lost is a reply.
LEMMA ReplyOrLoseType ==
    ASSUME TypeOK, NEW r \in Request, NEW answer \in Answers,
           ReplyOrLose(r, answer)
    PROVE  req' \in [Request -> RequestState]
<1>1. PICK a \in Answers : Reply(r, a)
  BY DEF ReplyOrLose, Answers
<1> QED
  BY <1>1, ReplyType

\* Each other call of createRiSc, updateRiSc, deleteRiSc and publishRiSc keeps
\* the state well typed.
LEMMA ServeType ==
    ASSUME TypeOK, NEW r \in Request, Serve(r)
    PROVE  TypeOK'
<1>1. /\ req[r] \in RequestState
      /\ main \in File
      /\ branch \in File \cup {NoBranch}
      /\ pr \in PullRequest
      /\ RepoTypeOK
      /\ r \in Content
  BY RequestAssumption DEF TypeOK, RepoTypeOK
<1>2. /\ "CreatedRiSc" \in Answers /\ "UpdatedRiSc" \in Answers
      /\ "UpdatedRiScRequiresNewApproval" \in Answers
      /\ "DeletedRiSc" \in Answers /\ "DeletedRiScRequiresApproval" \in Answers
      /\ "CreatedPullRequest" \in Answers /\ "Error" \in Answers
      /\ "ErrorWhenCreatingPullRequest" \in Answers
  BY DEF Answers
<1>3. CASE ReadHead(r)
  <2>1. req' \in [Request -> RequestState]
    BY <1>1, <1>3 DEF ReadHead, TypeOK, RequestState, PCs
  <2> QED
    BY <1>3, <2>1, ReadOnlyType DEF ReadHead
<1>4. CASE CreateDraftBranch(r)
  <2>1. PICK pc \in PCs : Goto(r, pc)
    BY <1>4 DEF CreateDraftBranch, PCs
  <2>2. req' \in [Request -> RequestState]
    BY <2>1, GotoType
  <2>3. req[r].head \in File
    BY <1>1 DEF RequestState
  <2>4. RepoTypeOK'
    BY <1>1, <1>4, <2>3, WriteType DEF Written, CreateDraftBranch
  <2> QED
    BY <1>4, <2>2, <2>4, WritingStepType DEF CreateDraftBranch
<1>5. CASE ReadSha(r)
  <2> DEFINE sha == IF FileOnBranch = NoFile THEN req[r].sha ELSE branch
             pc == IF req[r].op = "update" THEN "write" ELSE "deleteFile"
  <2>1. sha \in File /\ pc \in PCs
    BY <1>1 DEF FileOnBranch, RequestState, File, PCs
  <2>2. req' = [req EXCEPT ![r].pc = pc, ![r].sha = sha]
    BY <1>5 DEF ReadSha
  <2> HIDE DEF sha, pc
  <2>3. req' \in [Request -> RequestState]
    BY <1>1, <2>1, <2>2 DEF TypeOK, RequestState
  <2> QED
    BY <1>5, <2>3, ReadOnlyType DEF ReadSha
<1>6. CASE Write(r)
  <2>1. req' \in [Request -> RequestState]
    <3>1. CASE ReplyOrLose(r, "CreatedRiSc") \/ ReplyOrLose(r, "UpdatedRiSc")
      BY <3>1, <1>2, ReplyOrLoseType
    <3>2. CASE Goto(r, "pulls")
      <4>1. "pulls" \in PCs
        BY DEF PCs
      <4> QED
        BY <3>2, <4>1, GotoType
    <3> QED
      BY <1>6, <3>1, <3>2 DEF Write
  <2>2. RepoTypeOK'
    <3>1. WriteFile(req[r].sha, r)
      BY <1>6 DEF Write
    <3> QED
      BY <1>1, <3>1, WriteType DEF Written
  <2> QED
    BY <1>6, <2>1, <2>2, WritingStepType DEF Write
<1>7. CASE FindPull(r)
  <2>1. OpenPullRequestListings \subseteq Nat
    BY <1>1 DEF OpenPullRequestListings, PullRequest
  <2>2. PICK n \in Nat : req' = [req EXCEPT ![r].pc = "close", ![r].pull = n]
    BY <1>7, <2>1 DEF FindPull
  <2>3. req' \in [Request -> RequestState]
    BY <1>1, <2>2 DEF TypeOK, RequestState, PCs
  <2> QED
    BY <1>7, <2>3, ReadOnlyType DEF FindPull
<1>8. CASE FindNoPull(r)
  BY <1>2, <1>8, ReplyType, ReadOnlyType DEF FindNoPull
<1>9. CASE ClosePull(r)
  <2>1. req' \in [Request -> RequestState]
    BY <1>2, <1>9, ReplyOrLoseType DEF ClosePull
  <2>2. RepoTypeOK'
    BY <1>1, <1>9, WriteType DEF Written, ClosePull
  <2> QED
    BY <1>9, <2>1, <2>2, WritingStepType DEF ClosePull
<1>10. CASE CheckPublished(r)
  <2>1. req' \in [Request -> RequestState]
    BY <1>1, <1>10 DEF CheckPublished, TypeOK, RequestState, PCs
  <2> QED
    BY <1>10, <2>1, ReadOnlyType DEF CheckPublished
<1>11. CASE DeleteDraftBranch(r)
  <2>1. req' \in [Request -> RequestState]
    BY <1>2, <1>11, ReplyOrLoseType DEF DeleteDraftBranch
  <2>2. RepoTypeOK'
    BY <1>1, <1>11, WriteType DEF Written, DeleteDraftBranch
  <2> QED
    BY <1>11, <2>1, <2>2, WritingStepType DEF DeleteDraftBranch
<1>12. CASE CheckBranch(r)
  <2>1. PICK pc \in PCs : Goto(r, pc)
    BY <1>12 DEF CheckBranch, PCs
  <2> QED
    BY <1>12, <2>1, GotoType, ReadOnlyType DEF CheckBranch
<1>13. CASE StageDeletion(r)
  <2>1. req' \in [Request -> RequestState]
    BY <1>2, <1>13, ReplyOrLoseType DEF StageDeletion
  <2>2. RepoTypeOK'
    BY <1>1, <1>13, WriteType DEF Written, StageDeletion
  <2> QED
    BY <1>13, <2>1, <2>2, WritingStepType DEF StageDeletion
<1>14. CASE FindNoDraft(r)
  BY <1>2, <1>14, ReplyType, ReadOnlyType DEF FindNoDraft
<1>15. CASE FindDraft(r)
  <2>1. "createPull" \in PCs
    BY DEF PCs
  <2> QED
    BY <1>15, <2>1, GotoType, ReadOnlyType DEF FindDraft
<1>16. CASE Publish(r)
  <2>1. req' \in [Request -> RequestState]
    BY <1>2, <1>16, ReplyOrLoseType DEF Publish
  <2>2. RepoTypeOK'
    BY <1>1, <1>16, WriteType DEF Written, Publish
  <2> QED
    BY <1>16, <2>1, <2>2, WritingStepType DEF Publish
<1>17. CASE Fail(r)
  BY <1>2, <1>17, ReplyType, ReadOnlyType DEF Fail
<1> QED
  BY <1>3, <1>4, <1>5, <1>6, <1>7, <1>8, <1>9, <1>10, <1>11, <1>12, <1>13,
     <1>14, <1>15, <1>16, <1>17 DEF Serve

\* What people do on GitHub keeps the state well typed: a merged pull request
\* has a draft branch.
LEMMA ElsewhereType ==
    ASSUME TypeInv, Elsewhere
    PROVE  TypeOK'
<1>1. TypeOK /\ req' \in [Request -> RequestState]
  BY DEF Elsewhere, TypeInv, TypeOK
<1>2. RepoTypeOK'
  <2> USE DEF RepoTypeOK, PullRequest
  <2>1. CASE MergePullRequest
    <3>1. branch \in File
      BY <1>1, <2>1 DEF TypeOK, TypeInv, PullRequestHasBranch, MergePullRequest
    <3> QED
      BY <1>1, <2>1, <3>1 DEF MergePullRequest, TypeOK
  <2>2. CASE RejectPullRequest
    BY <1>1, <2>2 DEF RejectPullRequest, ClosePullRequest, TypeOK
  <2>3. CASE DeleteMergedBranch
    BY <1>1, <2>3 DEF DeleteMergedBranch, DeleteBranch, TypeOK
  <2> QED
    BY <2>1, <2>2, <2>3 DEF Elsewhere
<1> QED
  BY <1>1, <1>2, WritingStepType DEF Elsewhere

-----------------------------------------------------------------------------
(* Every step that changes the repository does so by one of its writes.    *)

RepoStep ==
    \/ UNCHANGED repo
    \/ MergePullRequest \/ RejectPullRequest \/ DeleteMergedBranch
    \/ \E r \in Request, head \in File, number \in Nat :
          Written(req[r].sha, r, head, number)

\* Whatever a step is, it does to the repository one of the things GitHub
\* offers.
LEMMA NextIsRepoStep ==
    ASSUME TypeOK, Next
    PROVE  RepoStep
<1>1. CASE Elsewhere
  BY <1>1 DEF Elsewhere, RepoStep
<1>2. ASSUME NEW r \in Request, Start(r) \/ Resolve(r)
      PROVE  RepoStep
  <2>1. ReadOnly
    BY <1>2 DEF Start, StartCreate, StartUpdate, StartDelete, StartPublish,
        StartFetch, Resolve, ReadPublished, ReadBranches, ReadPulls,
        ReadMainContent, ReadBranchContent, AnswerFetch, RefuseUpdate,
        AcceptUpdate
  <2> QED
    BY <2>1 DEF ReadOnly, RepoStep
<1>3. ASSUME NEW r \in Request, Serve(r)
      PROVE  RepoStep
  <2>1. req[r].head \in File /\ req[r].pull \in Nat
    BY DEF TypeOK, RequestState
  <2>2. \/ ReadOnly
        \/ Written(req[r].sha, r, req[r].head, req[r].pull)
    BY <1>3 DEF Serve, ReadHead, CreateDraftBranch, ReadSha, Write, FindPull,
        FindNoPull, ClosePull, CheckPublished, DeleteDraftBranch, CheckBranch,
        StageDeletion, FindNoDraft, FindDraft, Publish, Fail, Written
  <2> QED
    BY <2>1, <2>2 DEF ReadOnly, RepoStep
<1> QED
  BY <1>1, <1>2, <1>3 DEF Next

\* A step opens a pull request only for a draft branch that exists, and a
\* draft branch that is deleted takes its pull request with it.
LEMMA NextPullRequestHasBranch ==
    ASSUME TypeInv, Next
    PROVE  PullRequestHasBranch'
<1> USE DEF PullRequestHasBranch
<1>1. TypeOK /\ PullRequestHasBranch /\ pr \in PullRequest /\ RepoStep
  BY NextIsRepoStep DEF TypeInv, TypeOK, RepoTypeOK
<1>2. CASE UNCHANGED repo
  BY <1>1, <1>2 DEF repo
<1>3. CASE MergePullRequest
  BY <1>1, <1>3 DEF MergePullRequest, PullRequest
<1>4. CASE RejectPullRequest
  BY <1>1, <1>4 DEF RejectPullRequest, ClosePullRequest, PullRequest
<1>5. CASE DeleteMergedBranch
  BY <1>1, <1>5 DEF DeleteMergedBranch, DeleteBranch, PullRequest
<1>6. ASSUME NEW r \in Request, NEW head \in File, NEW number \in Nat,
             Written(req[r].sha, r, head, number)
      PROVE  PullRequestHasBranch'
  <2>1. r # NoBranch /\ NoFile # NoBranch
    BY RepositoryAssumption, RequestAssumption DEF Sentinels, NoFile, NoBranch
  <2>2. CASE WriteFile(req[r].sha, r) \/ DeleteFile(req[r].sha)
    <3>1. pr' = pr /\ branch # NoBranch /\ branch' \in {r, NoFile}
      BY <2>1, <2>2, RepositoryAssumption DEF WriteFile, DeleteFile, Sentinels
    <3> QED
      BY <1>1, <2>1, <3>1
  <2>3. CASE CreateBranch(head)
    BY <1>1, <2>3 DEF CreateBranch
  <2>4. CASE DeleteBranch
    BY <1>1, <2>4 DEF DeleteBranch, PullRequest
  <2>5. CASE CreatePullRequest
    BY <1>1, <2>5 DEF CreatePullRequest, PullRequest
  <2>6. CASE ClosePullRequest(number)
    BY <1>1, <2>6 DEF ClosePullRequest, PullRequest
  <2> QED
    BY <1>6, <2>2, <2>3, <2>4, <2>5, <2>6 DEF Written
<1> QED
  BY <1>1, <1>2, <1>3, <1>4, <1>5, <1>6 DEF RepoStep

\* The inductive step of TypeCorrect.
LEMMA NextTypeInv == TypeInv /\ [Next]_vars => TypeInv'
<1> SUFFICES ASSUME TypeInv, [Next]_vars PROVE TypeInv'
  OBVIOUS
<1>1. CASE Next
  <2>1. TypeOK'
    <3>1. TypeOK
      BY DEF TypeInv
    <3>2. CASE Elsewhere
      BY <3>2, ElsewhereType
    <3>3. ASSUME NEW r \in Request, Start(r) \/ Resolve(r) \/ Serve(r)
          PROVE  TypeOK'
      BY <3>1, <3>3, StartType, ResolveType, ServeType
    <3> QED
      BY <1>1, <3>2, <3>3 DEF Next
  <2> QED
    BY <1>1, <2>1, NextPullRequestHasBranch DEF TypeInv
<1>2. CASE UNCHANGED vars
  BY <1>2 DEF vars, TypeInv, TypeOK, RepoTypeOK, PullRequestHasBranch
<1> QED
  BY <1>1, <1>2

\* Whatever the requests, the contents and the interleaving of GitHub calls,
\* every request, the repository and the history stay well typed: no step
\* takes the sha of a missing file, or publishes a branch that is gone.
THEOREM TypeCorrect == Spec => []TypeOK
<1>1. Init => TypeInv
  <2>1. Init => PullRequestHasBranch
    BY DEF Init, PullRequestHasBranch
  <2> QED
    BY <2>1, InitTypeOK DEF TypeInv
<1>2. TypeInv => TypeOK
  BY DEF TypeInv
<1> QED
  BY <1>1, <1>2, NextTypeInv, PTL DEF Spec

-----------------------------------------------------------------------------
(* What a step of one request does to the requests.                        *)

OthersUnchanged(r) == \A q \in Request \ {r} : req'[q] = req[q]

\* A request that arrives only reads, and leaves the other requests alone; a
\* create request arrives before any other.
LEMMA StartFrame ==
    ASSUME TypeOK, NEW r \in Request, Start(r)
    PROVE  /\ ReadOnly /\ OthersUnchanged(r) /\ At(r, "idle")
           /\ req'[r].pc \in {"head", "resolve", "published", "branchHead"}
           /\ req'[r].answer = req[r].answer
           /\ \/ /\ req'[r].op = "create" /\ req'[r].pc = "head"
                 /\ branch = NoBranch
                 /\ \A q \in Request : At(q, "idle")
              \/ /\ req'[r].op # "create"
                 /\ Known
<1> USE DEF OthersUnchanged, At, RequestState, TypeOK
<1>1. CASE StartCreate(r)
  BY <1>1 DEF StartCreate
<1>2. CASE StartDelete(r)
  BY <1>2 DEF StartDelete
<1>3. CASE StartPublish(r)
  BY <1>3 DEF StartPublish
<1>4. CASE StartFetch(r)
  BY <1>4 DEF StartFetch
<1>5. ASSUME NEW needs \in BOOLEAN, StartUpdate(r, needs)
      PROVE  /\ ReadOnly /\ OthersUnchanged(r) /\ At(r, "idle") /\ Known
             /\ req'[r].pc = "resolve" /\ req'[r].op = "update"
             /\ req'[r].answer = req[r].answer
  BY <1>5 DEF StartUpdate
<1> QED
  BY <1>1, <1>2, <1>3, <1>4, <1>5 DEF Start

\* A step of a request in flight: it stays the request it is, and it gets an
\* answer only when it ends.
StaysItself(r) ==
    /\ req'[r].op = req[r].op /\ req'[r].needs = req[r].needs
    /\ req'[r].pc # "idle"
    /\ req'[r].pc # "done" => req'[r].answer = req[r].answer

\* Moving on to the next call changes where the request is and nothing else.
LEMMA GotoFrame ==
    ASSUME TypeOK, NEW r \in Request, NEW pc \in PCs \ {"idle"}, Goto(r, pc)
    PROVE  /\ OthersUnchanged(r) /\ StaysItself(r)
           /\ req'[r].pc = pc /\ req'[r].sha = req[r].sha
BY DEF Goto, OthersUnchanged, StaysItself, TypeOK, RequestState

\* A reply ends the request and leaves the other requests alone.
LEMMA ReplyFrame ==
    ASSUME TypeOK, NEW r \in Request, NEW answer, Reply(r, answer)
    PROVE  /\ OthersUnchanged(r) /\ StaysItself(r)
           /\ req'[r].pc = "done" /\ req'[r].sha = req[r].sha
           /\ req'[r].answer = answer
BY DEF Reply, Over, Idle, OthersUnchanged, StaysItself, TypeOK, RequestState

\* So does a reply that may be lost: the request ends with it or with an error.
LEMMA ReplyOrLoseFrame ==
    ASSUME TypeOK, NEW r \in Request, NEW answer, ReplyOrLose(r, answer)
    PROVE  /\ OthersUnchanged(r) /\ StaysItself(r)
           /\ req'[r].pc = "done" /\ req'[r].sha = req[r].sha
           /\ req'[r].answer \in {answer, "Error"}
<1>1. PICK a \in {answer, "Error"} : Reply(r, a)
  BY DEF ReplyOrLose
<1> QED
  BY <1>1, ReplyFrame

\* Determining the status only reads, and leads an update to its next call or
\* to a refusal, a fetch to its answer.
LEMMA ResolveFrame ==
    ASSUME TypeOK, NEW r \in Request, Resolve(r)
    PROVE  /\ ReadOnly /\ At(r, "resolve")
           /\ OthersUnchanged(r) /\ StaysItself(r)
           /\ \/ req'[r].pc = "resolve"
              \/ req[r].op = "update" /\ req'[r].pc \in {"sha", "head"}
              \/ /\ req'[r].pc = "done"
                 /\ req'[r].answer \in {"ErrorWhenUpdatingRiSc", "Failure"} \cup Statuses
<1> DEFINE Goal ==
      /\ ReadOnly /\ At(r, "resolve") /\ OthersUnchanged(r) /\ StaysItself(r)
      /\ \/ req'[r].pc = "resolve"
         \/ req[r].op = "update" /\ req'[r].pc \in {"sha", "head"}
         \/ /\ req'[r].pc = "done"
            /\ req'[r].answer \in {"ErrorWhenUpdatingRiSc", "Failure"} \cup Statuses
<1>1. CASE \/ ReadPublished(r) \/ ReadBranches(r) \/ ReadPulls(r)
           \/ ReadMainContent(r) \/ ReadBranchContent(r)
  <2> USE DEF OthersUnchanged, StaysItself, At, RequestState, TypeOK
  <2>1. CASE ReadPublished(r)
    BY <2>1 DEF ReadPublished
  <2>2. CASE ReadBranches(r)
    BY <2>2 DEF ReadBranches
  <2>3. CASE ReadPulls(r)
    BY <2>3 DEF ReadPulls
  <2>4. CASE ReadMainContent(r)
    BY <2>4 DEF ReadMainContent
  <2>5. CASE ReadBranchContent(r)
    BY <2>5 DEF ReadBranchContent
  <2> QED
    BY <1>1, <2>1, <2>2, <2>3, <2>4, <2>5
<1>2. CASE AnswerFetch(r)
  <2>1. ResolvedStatus(r) \in Statuses
    BY DEF ResolvedStatus, GetRiScStatus, Statuses
  <2>2. PICK answer \in {"Failure"} \cup Statuses : Reply(r, answer)
    BY <1>2, <2>1 DEF AnswerFetch
  <2> QED
    BY <1>2, <2>2, ReplyFrame DEF AnswerFetch, Resolved
<1>3. CASE RefuseUpdate(r)
  BY <1>3, ReplyFrame DEF RefuseUpdate, Resolved
<1>4. CASE AcceptUpdate(r)
  <2>1. PICK pc \in {"sha", "head"} : Goto(r, pc)
    BY <1>4 DEF AcceptUpdate
  <2>2. pc \in PCs \ {"idle"}
    BY <2>1 DEF PCs
  <2> QED
    BY <1>4, <2>1, <2>2, GotoFrame DEF AcceptUpdate, Resolved
<1> QED
  BY <1>1, <1>2, <1>3, <1>4 DEF Resolve

\* The calls of createRiSc, updateRiSc, deleteRiSc and publishRiSc.
LEMMA ServeFrame ==
    ASSUME TypeOK, NEW r \in Request, Serve(r)
    PROVE  InFlight(r) /\ OthersUnchanged(r) /\ StaysItself(r)
<1> USE DEF InFlight, At
<1>1. CASE \/ ReadHead(r) \/ ReadSha(r) \/ FindPull(r) \/ CheckPublished(r)
  <2> USE DEF OthersUnchanged, StaysItself, RequestState, TypeOK
  <2>1. CASE ReadHead(r)
    BY <2>1 DEF ReadHead
  <2>2. CASE ReadSha(r)
    BY <2>2 DEF ReadSha
  <2>3. CASE FindPull(r)
    BY <2>3 DEF FindPull
  <2>4. CASE CheckPublished(r)
    BY <2>4 DEF CheckPublished
  <2> QED
    BY <1>1, <2>1, <2>2, <2>3, <2>4
<1>2. CASE CreateDraftBranch(r) \/ CheckBranch(r) \/ FindDraft(r)
  <2>1. PICK pc \in {"write", "sha", "deleteFile", "head", "createPull"} :
            Goto(r, pc)
    BY <1>2 DEF CreateDraftBranch, CheckBranch, FindDraft
  <2>2. pc \in PCs \ {"idle"}
    BY <2>1 DEF PCs
  <2> QED
    BY <1>2, <2>1, <2>2, GotoFrame DEF CreateDraftBranch, CheckBranch, FindDraft
<1>3. CASE Write(r)
  <2>1. CASE Goto(r, "pulls")
    <3>1. "pulls" \in PCs \ {"idle"}
      BY DEF PCs
    <3> QED
      BY <1>3, <2>1, <3>1, GotoFrame DEF Write
  <2>2. CASE ReplyOrLose(r, "CreatedRiSc") \/ ReplyOrLose(r, "UpdatedRiSc")
    BY <1>3, <2>2, ReplyOrLoseFrame DEF Write
  <2> QED
    BY <1>3, <2>1, <2>2 DEF Write
<1>4. CASE ClosePull(r)
  BY <1>4, ReplyOrLoseFrame DEF ClosePull
<1>5. CASE DeleteDraftBranch(r)
  BY <1>5, ReplyOrLoseFrame DEF DeleteDraftBranch
<1>6. CASE StageDeletion(r)
  BY <1>6, ReplyOrLoseFrame DEF StageDeletion
<1>7. CASE Publish(r)
  BY <1>7, ReplyOrLoseFrame DEF Publish
<1>8. CASE FindNoPull(r) \/ FindNoDraft(r) \/ Fail(r)
  BY <1>8, ReplyFrame DEF FindNoPull, FindNoDraft, Fail
<1> QED
  BY <1>1, <1>2, <1>3, <1>4, <1>5, <1>6, <1>7, <1>8 DEF Serve

Acknowledgements ==
    {"CreatedRiSc", "UpdatedRiSc", "UpdatedRiScRequiresNewApproval"}

\* The calls by what they do to the repository and to the course of the request.
ReadsOn(r) ==
    /\ ReadOnly
    /\ {req[r].pc, req'[r].pc} \cap {"pulls", "close"} = {}
    /\ req[r].pc \notin {"createBranch", "write"}
    /\ At(r, "head") => req'[r].pc = "createBranch"
    /\ req'[r].pc = "done" => req'[r].answer \notin Acknowledgements

FindsPull(r) ==
    /\ ReadOnly /\ At(r, "pulls")
    /\ req'[r].pc = "close" /\ req'[r].sha = req[r].sha
    /\ pr.open /\ req'[r].pull = pr.number

FindsNoPull(r) ==
    /\ ReadOnly /\ At(r, "pulls") /\ 0 \in OpenPullRequestListings
    /\ req'[r].pc = "done" /\ req'[r].sha = req[r].sha

Fails(r) ==
    /\ ReadOnly /\ req'[r].pc = "done"
    /\ req'[r].answer = "Error" /\ req'[r].sha = req[r].sha

BranchesOff(r) ==
    /\ At(r, "createBranch") /\ CreateBranch(req[r].head) /\ Observe
    /\ req'[r].pc \in {"write", "sha", "deleteFile"}
    /\ req[r].op = "create" => req'[r].pc = "write"

Writes(r) ==
    /\ At(r, "write") /\ WriteFile(req[r].sha, r) /\ Observe
    /\ req'[r].sha = req[r].sha
    /\ \/ req[r].op = "create" /\ req'[r].pc = "done"
       \/ req[r].op = "update" /\ ~req[r].needs /\ req'[r].pc = "done"
       \/ req[r].op = "update" /\ req[r].needs /\ req'[r].pc = "pulls"

ClosesPull(r) ==
    /\ At(r, "close") /\ ClosePullRequest(req[r].pull) /\ Observe
    /\ req'[r].pc = "done" /\ req'[r].sha = req[r].sha

EndsOtherwise(r) ==
    /\ \/ At(r, "deleteBranch") /\ DeleteBranch
       \/ At(r, "deleteFile") /\ DeleteFile(req[r].sha)
       \/ At(r, "createPull") /\ CreatePullRequest
    /\ Observe
    /\ req'[r].pc = "done" /\ req'[r].sha = req[r].sha
    /\ req'[r].answer \notin Acknowledgements

\* The calls of the four changing operations, classified by what they do to the
\* request and to the repository.
LEMMA ServeEffect ==
    ASSUME TypeOK, NEW r \in Request, Serve(r)
    PROVE  \/ ReadsOn(r) \/ FindsPull(r) \/ FindsNoPull(r) \/ Fails(r)
           \/ BranchesOff(r) \/ Writes(r) \/ ClosesPull(r) \/ EndsOtherwise(r)
<1> USE DEF At
<1>1. CASE ReadHead(r) \/ ReadSha(r) \/ CheckPublished(r)
  <2> USE DEF RequestState, TypeOK, ReadsOn
  <2>1. CASE ReadHead(r)
    BY <2>1 DEF ReadHead
  <2>2. CASE ReadSha(r)
    BY <2>2 DEF ReadSha
  <2>3. CASE CheckPublished(r)
    BY <2>3 DEF CheckPublished
  <2> QED
    BY <1>1, <2>1, <2>2, <2>3
<1>2. CASE FindPull(r)
  <2>1. OpenPullRequestListings \ {0} \subseteq {pr.number}
    BY DEF OpenPullRequestListings
  <2>2. ~pr.open => OpenPullRequestListings \ {0} = {}
    BY DEF OpenPullRequestListings
  <2>3. PICK n \in OpenPullRequestListings \ {0} :
            req' = [req EXCEPT ![r].pc = "close", ![r].pull = n]
    BY <1>2 DEF FindPull
  <2>4. pr.open /\ n = pr.number
    BY <2>1, <2>2, <2>3
  <2>5. /\ req'[r].pc = "close" /\ req'[r].sha = req[r].sha
        /\ req'[r].pull = n
    BY <2>3 DEF TypeOK, RequestState
  <2> QED
    BY <1>2, <2>4, <2>5 DEF FindPull, FindsPull
<1>3. CASE CheckBranch(r) \/ FindDraft(r)
  <2>1. PICK pc \in {"sha", "head", "createPull"} : Goto(r, pc)
    BY <1>3 DEF CheckBranch, FindDraft
  <2>2. pc \in PCs \ {"idle"}
    BY <2>1 DEF PCs
  <2> QED
    BY <1>3, <2>1, <2>2, GotoFrame DEF CheckBranch, FindDraft, ReadsOn
<1>4. CASE CreateDraftBranch(r)
  <2>1. PICK pc \in {"write", "sha", "deleteFile"} :
            Goto(r, pc) /\ (req[r].op = "create" => pc = "write")
    BY <1>4 DEF CreateDraftBranch
  <2>2. pc \in PCs \ {"idle"}
    BY <2>1 DEF PCs
  <2> QED
    BY <1>4, <2>1, <2>2, GotoFrame DEF CreateDraftBranch, BranchesOff
<1>5. CASE Write(r)
  <2>1. CASE req[r].op = "update" /\ req[r].needs /\ Goto(r, "pulls")
    <3>1. "pulls" \in PCs \ {"idle"}
      BY DEF PCs
    <3> QED
      BY <1>5, <2>1, <3>1, GotoFrame DEF Write, Writes
  <2>2. CASE req[r].op = "create" /\ ReplyOrLose(r, "CreatedRiSc")
    BY <1>5, <2>2, ReplyOrLoseFrame DEF Write, Writes
  <2>3. CASE req[r].op = "update" /\ ~req[r].needs /\ ReplyOrLose(r, "UpdatedRiSc")
    BY <1>5, <2>3, ReplyOrLoseFrame DEF Write, Writes
  <2> QED
    BY <1>5, <2>1, <2>2, <2>3 DEF Write
<1>6. CASE ClosePull(r)
  BY <1>6, ReplyOrLoseFrame DEF ClosePull, ClosesPull
<1>7. CASE DeleteDraftBranch(r)
  BY <1>7, ReplyOrLoseFrame DEF DeleteDraftBranch, EndsOtherwise, Acknowledgements
<1>8. CASE StageDeletion(r)
  BY <1>8, ReplyOrLoseFrame DEF StageDeletion, EndsOtherwise, Acknowledgements
<1>9. CASE Publish(r)
  BY <1>9, ReplyOrLoseFrame DEF Publish, EndsOtherwise, Acknowledgements
<1>10. CASE FindNoPull(r)
  BY <1>10, ReplyFrame DEF FindNoPull, FindsNoPull
<1>11. CASE FindNoDraft(r)
  BY <1>11, ReplyFrame DEF FindNoDraft, ReadsOn, Acknowledgements
<1>12. CASE Fail(r)
  BY <1>12, ReplyFrame DEF Fail, Fails
<1> QED
  BY <1>1, <1>2, <1>3, <1>4, <1>5, <1>6, <1>7, <1>8, <1>9, <1>10, <1>11, <1>12
     DEF Serve

-----------------------------------------------------------------------------
(* The inductive invariant.                                                *)

\* Only a request that was started is something, and only one that is over has
\* an answer.
NotStarted(r) ==
    /\ At(r, "idle") => req[r].op = "fetch"
    /\ ~At(r, "done") => req[r].answer = "none"

\* Nobody else can name the RiSc that is being created, so that no pull request
\* is opened before the first write of its content.
CreateIsAlone(r) ==
    InFlight(r) /\ req[r].op = "create" =>
        /\ req[r].pc \in {"head", "createBranch", "write"}
        /\ ~pr.open
        /\ \A q \in Request \ {r} : ~InFlight(q)

\* An update that is to close a pull request closes the one that is open, unless
\* its content was sent for approval in the meantime.
ClosesWhatIsOpen(r) ==
    At(r, "close") /\ pr.open /\ branch = r /\ pr.approved # r =>
        req[r].pull = pr.number

\* Content once written stays, in the words of AcknowledgedWriteIsNotLost.
WrittenIsNotLost(r) ==
    (req[r].pc \in {"pulls", "close"} \/ Succeeded(r)) /\ watch[r].kept =>
        \/ branch = r
        \/ \E q \in Request : PastWrite(q) /\ req[q].sha = r

Inv ==
    /\ TypeInv
    /\ \A r \in Request : NotStarted(r)
    /\ \A r \in Request : CreateIsAlone(r)
    /\ \A r \in Request : ClosesWhatIsOpen(r)
    /\ \A r \in Request : WrittenIsNotLost(r)

\* The three ways a request can step, without its own definition.
LEMMA NextFrame ==
    ASSUME TypeOK, Next
    PROVE  \/ /\ Elsewhere
              /\ req' = req
           \/ \E r \in Request :
                 OthersUnchanged(r) /\ (Start(r) \/ Resolve(r) \/ Serve(r))
<1>1. CASE Elsewhere
  BY <1>1 DEF Elsewhere
<1>2. ASSUME NEW r \in Request, Start(r) \/ Resolve(r) \/ Serve(r)
      PROVE  OthersUnchanged(r)
  BY <1>2, StartFrame, ResolveFrame, ServeFrame
<1> QED
  BY <1>1, <1>2 DEF Next

\* A request that has not arrived has no answer and no sha: every step keeps it.
LEMMA NotStartedStep ==
    ASSUME Inv, Next
    PROVE  \A c \in Request : NotStarted(c)'
<1>1. TypeOK /\ \A c \in Request : NotStarted(c)
  BY DEF Inv, TypeInv
<1> USE DEF NotStarted, At
<1>2. CASE req' = req
  BY <1>1, <1>2
<1>3. ASSUME NEW r \in Request, OthersUnchanged(r),
             Start(r) \/ Resolve(r) \/ Serve(r)
      PROVE  \A c \in Request : NotStarted(c)'
  <2>1. CASE Start(r)
    BY <1>1, <1>3, <2>1, StartFrame DEF OthersUnchanged
  <2>2. CASE Resolve(r) \/ Serve(r)
    <3>1. InFlight(r) /\ StaysItself(r)
      BY <1>1, <2>2, ResolveFrame, ServeFrame DEF InFlight
    <3> QED
      BY <1>1, <1>3, <3>1 DEF OthersUnchanged, StaysItself, InFlight
  <2> QED
    BY <1>3, <2>1, <2>2
<1> QED
  BY <1>1, <1>2, <1>3, NextFrame

\* While a RiSc is being created its file is in no pull request: every step
\* keeps it.
LEMMA CreateIsAloneStep ==
    ASSUME Inv, Next
    PROVE  \A c \in Request : CreateIsAlone(c)'
<1>1. /\ TypeOK /\ PullRequestHasBranch /\ pr \in PullRequest
      /\ \A c \in Request : CreateIsAlone(c)
  BY DEF Inv, TypeInv, TypeOK, RepoTypeOK
<1> USE DEF CreateIsAlone, At, InFlight
<1>2. CASE Elsewhere /\ req' = req
  <2>1. ~pr'.open
    BY <1>1, <1>2 DEF Elsewhere, MergePullRequest, RejectPullRequest,
       ClosePullRequest, DeleteMergedBranch, DeleteBranch, PullRequest
  <2> QED
    BY <1>1, <1>2, <2>1
<1>3. ASSUME NEW r \in Request, OthersUnchanged(r),
             Start(r) \/ Resolve(r) \/ Serve(r)
      PROVE  \A c \in Request : CreateIsAlone(c)'
  <2>1. CASE Start(r)
    <3>1. pr' = pr
      BY <1>1, <2>1, StartFrame DEF ReadOnly, repo
    <3>2. CASE req'[r].op = "create"
      BY <1>1, <1>3, <2>1, <3>1, <3>2, StartFrame
         DEF OthersUnchanged, PullRequestHasBranch, Known
    <3>3. CASE req'[r].op # "create"
      <4>1. \A q \in Request : InFlight(q) => req[q].op # "create"
        BY <1>1, <2>1, <3>3, StartFrame DEF Known
      <4> QED
        BY <1>3, <3>3, <4>1 DEF OthersUnchanged
    <3> QED
      BY <3>2, <3>3
  <2>2. CASE Resolve(r)
    <3>1. pr' = pr /\ req'[r].op = req[r].op /\ req[r].pc = "resolve"
      BY <1>1, <2>2, ResolveFrame DEF ReadOnly, repo, StaysItself
    <3> QED
      BY <1>1, <1>3, <3>1 DEF OthersUnchanged
  <2>3. CASE Serve(r)
    <3>1. InFlight(r) /\ req'[r].op = req[r].op
      BY <1>1, <2>3, ServeFrame DEF StaysItself
    <3>2. CASE req[r].op = "create"
      <4>1. req[r].pc \in {"head", "createBranch", "write"} /\ ~pr.open
        BY <1>1, <3>1, <3>2
      <4>2. ~pr'.open /\ req'[r].pc \in {"createBranch", "write", "done"}
        BY <1>1, <2>3, <3>2, <4>1, ServeEffect
           DEF ReadsOn, FindsPull, FindsNoPull, Fails, BranchesOff, Writes,
               ClosesPull, EndsOtherwise, ReadOnly, repo, CreateBranch, WriteFile
      <4> QED
        BY <1>1, <1>3, <3>1, <3>2, <4>2 DEF OthersUnchanged
    <3>3. CASE req[r].op # "create"
      BY <1>1, <1>3, <3>1, <3>3 DEF OthersUnchanged
    <3> QED
      BY <3>2, <3>3
  <2> QED
    BY <1>3, <2>1, <2>2, <2>3
<1> QED
  BY <1>1, <1>2, <1>3, NextFrame

\* An update that is about to close a pull request has the number of the one
\* that is open with its content: every step keeps it.
LEMMA ClosesWhatIsOpenStep ==
    ASSUME Inv, Next
    PROVE  \A c \in Request : ClosesWhatIsOpen(c)'
<1>1. /\ TypeOK /\ PullRequestHasBranch /\ pr \in PullRequest
      /\ \A c \in Request : ClosesWhatIsOpen(c)
      /\ \A c \in Request : c # NoFile
  BY RepositoryAssumption, RequestAssumption
     DEF Inv, TypeInv, TypeOK, RepoTypeOK, Sentinels
<1> USE DEF ClosesWhatIsOpen, At
<1>2. CASE Elsewhere
  <2>1. ~pr'.open
    BY <1>1, <1>2 DEF Elsewhere, MergePullRequest, RejectPullRequest,
       ClosePullRequest, DeleteMergedBranch, DeleteBranch, PullRequest
  <2> QED
    BY <2>1
<1>3. ASSUME NEW r \in Request, OthersUnchanged(r),
             Start(r) \/ Resolve(r) \/ Serve(r)
      PROVE  \A c \in Request : ClosesWhatIsOpen(c)'
  <2>1. CASE Start(r) \/ Resolve(r)
    <3>1. pr' = pr /\ branch' = branch /\ req'[r].pc # "close"
      BY <1>1, <2>1, StartFrame, ResolveFrame DEF ReadOnly, repo
    <3> QED
      BY <1>1, <1>3, <3>1 DEF OthersUnchanged
  <2>2. CASE ReadsOn(r) \/ FindsPull(r) \/ FindsNoPull(r) \/ Fails(r)
    <3>1. pr' = pr /\ branch' = branch
      BY <2>2 DEF ReadsOn, FindsPull, FindsNoPull, Fails, ReadOnly, repo
    <3>2. req'[r].pc = "close" => req'[r].pull = pr.number
      BY <2>2 DEF ReadsOn, FindsPull, FindsNoPull, Fails
    <3> QED
      BY <1>1, <1>3, <3>1, <3>2 DEF OthersUnchanged
  <2>3. CASE BranchesOff(r)
    BY <1>1, <2>3 DEF BranchesOff, CreateBranch, PullRequestHasBranch
  <2>4. CASE Writes(r)
    BY <1>1, <1>3, <2>4 DEF Writes, WriteFile, OthersUnchanged
  <2>5. CASE ClosesPull(r)
    <3>1. req'[r].pc = "done" /\ branch' = branch
      BY <2>5 DEF ClosesPull, ClosePullRequest
    <3>2. pr' = pr \/ ~pr'.open
      BY <1>1, <2>5 DEF ClosesPull, ClosePullRequest, PullRequest
    <3> QED
      BY <1>1, <1>3, <3>1, <3>2 DEF OthersUnchanged
  <2>6. CASE EndsOtherwise(r)
    <3>1. ~pr'.open \/ branch' = NoFile \/ pr'.approved = branch'
      BY <1>1, <2>6 DEF EndsOtherwise, DeleteBranch, DeleteFile,
         CreatePullRequest, PullRequest
    <3> QED
      BY <1>1, <3>1
  <2> QED
    BY <1>1, <1>3, <2>1, <2>2, <2>3, <2>4, <2>5, <2>6, ServeEffect
<1> QED
  BY <1>1, <1>2, <1>3, NextFrame

\* A request that is past its write stays so, with the sha it wrote with.
LEMMA PastWriteStays ==
    ASSUME Inv, Next, NEW q \in Request, PastWrite(q)
    PROVE  PastWrite(q)' /\ req'[q].sha = req[q].sha
<1>1. TypeOK
  BY DEF Inv, TypeInv
<1> USE DEF PastWrite, At
<1>2. CASE req' = req
  BY <1>2
<1>3. ASSUME NEW r \in Request, OthersUnchanged(r),
             Start(r) \/ Resolve(r) \/ Serve(r)
      PROVE  PastWrite(q)' /\ req'[q].sha = req[q].sha
  <2>1. CASE q # r
    BY <1>3, <2>1 DEF OthersUnchanged
  <2>2. CASE q = r
    <3>1. Serve(r) /\ InFlight(r)
      BY <1>1, <1>3, <2>2, StartFrame, ResolveFrame, ServeFrame
    <3> QED
      BY <1>1, <2>2, <3>1, ServeEffect
         DEF ReadsOn, FindsPull, FindsNoPull, Fails, BranchesOff, Writes,
             ClosesPull, EndsOtherwise, InFlight
  <2> QED
    BY <2>1, <2>2
<1> QED
  BY <1>1, <1>2, <1>3, NextFrame

\* Content leaves the draft branch with the branch, or by the hand of a request
\* that had read it.
LEMMA ContentStays ==
    ASSUME Inv, Next, NEW c \in Content, branch = c
    PROVE  \/ branch' \in {c, NoBranch}
           \/ \E q \in Request : PastWrite(q)' /\ req'[q].sha = c
<1>1. TypeOK /\ c # NoBranch
  BY RepositoryAssumption DEF Inv, TypeInv, Sentinels
<1>2. CASE Elsewhere
  BY <1>2 DEF Elsewhere, MergePullRequest, RejectPullRequest, ClosePullRequest,
     DeleteMergedBranch, DeleteBranch
<1>3. ASSUME NEW r \in Request, Start(r) \/ Resolve(r) \/ Serve(r)
      PROVE  \/ branch' \in {c, NoBranch}
             \/ \E q \in Request : PastWrite(q)' /\ req'[q].sha = c
  <2>1. CASE Start(r) \/ Resolve(r)
    BY <1>1, <2>1, StartFrame, ResolveFrame DEF ReadOnly, repo
  <2>2. CASE ReadsOn(r) \/ FindsPull(r) \/ FindsNoPull(r) \/ Fails(r)
    BY <2>2 DEF ReadsOn, FindsPull, FindsNoPull, Fails, ReadOnly, repo
  <2>3. CASE BranchesOff(r) \/ ClosesPull(r)
    BY <1>1, <2>3 DEF BranchesOff, CreateBranch, ClosesPull, ClosePullRequest
  <2>4. CASE Writes(r)
    BY <2>4 DEF Writes, WriteFile, PastWrite
  <2>5. CASE EndsOtherwise(r)
    BY <2>5 DEF EndsOtherwise, DeleteBranch, DeleteFile, CreatePullRequest,
       PastWrite
  <2> QED
    BY <1>1, <1>3, <2>1, <2>2, <2>3, <2>4, <2>5, ServeEffect
<1> QED
  BY <1>1, <1>2, <1>3 DEF Next

\* Between two calls, what is owed stays owed; a write is the only way to owe.
Owes(c) == req[c].pc \in {"pulls", "close"} \/ Succeeded(c)

\* A request whose content is owed to its user after a step that did not write
\* it was owed it before.
LEMMA OwesBefore ==
    ASSUME Inv, Next, NEW c \in Request, Owes(c)', branch' # c
    PROVE  Owes(c) /\ (InFlight(c) \/ At(c, "done"))
<1>1. TypeOK /\ NotStarted(c)
  BY DEF Inv, TypeInv
<1> USE DEF Owes, Succeeded, At, NotStarted, InFlight
<1>2. Owes(c) => InFlight(c) \/ At(c, "done")
  BY <1>1
<1>3. Owes(c)
  <2>1. CASE req' = req
    BY <2>1
  <2>2. ASSUME NEW r \in Request, OthersUnchanged(r),
               Start(r) \/ Resolve(r) \/ Serve(r)
        PROVE  Owes(c)
    <3>1. CASE c # r
      BY <2>2, <3>1 DEF OthersUnchanged
    <3>2. CASE c = r
      <4>1. CASE Start(r)
        BY <1>1, <3>2, <4>1, StartFrame
      <4>2. CASE Resolve(r)
        BY <1>1, <3>2, <4>2, ResolveFrame DEF StaysItself, Statuses
      <4>3. CASE Serve(r)
        <5>1. req'[r].pc # "done" => req'[r].answer = req[r].answer
          BY <1>1, <4>3, ServeFrame DEF StaysItself
        <5>2. CASE ReadsOn(r)
          BY <1>1, <3>2, <5>1, <5>2 DEF ReadsOn, Acknowledgements
        <5>3. CASE FindsPull(r) \/ FindsNoPull(r) \/ Fails(r) \/ ClosesPull(r)
          BY <1>1, <3>2, <5>1, <5>3
             DEF FindsPull, FindsNoPull, Fails, ClosesPull
        <5>4. CASE BranchesOff(r)
          BY <1>1, <3>2, <5>1, <5>4 DEF BranchesOff
        <5>5. CASE Writes(r)
          BY <3>2, <5>5 DEF Writes, WriteFile
        <5>6. CASE EndsOtherwise(r)
          BY <3>2, <5>6 DEF EndsOtherwise, Acknowledgements
        <5> QED
          BY <1>1, <4>3, <5>2, <5>3, <5>4, <5>5, <5>6, ServeEffect
      <4> QED
        BY <2>2, <4>1, <4>2, <4>3
    <3> QED
      BY <3>1, <3>2
  <2> QED
    BY <1>1, <2>1, <2>2, NextFrame
<1> QED
  BY <1>2, <1>3

\* Acknowledged content is lost to nobody but to a later write that had read
\* it: every step keeps it.
LEMMA WrittenIsNotLostStep ==
    ASSUME Inv, Next
    PROVE  \A c \in Request : WrittenIsNotLost(c)'
<1> SUFFICES ASSUME NEW c \in Request, Owes(c)', watch'[c].kept, branch' # c
             PROVE  \E q \in Request : PastWrite(q)' /\ req'[q].sha = c
  BY DEF WrittenIsNotLost, Owes
<1>1. Owes(c) /\ (InFlight(c) \/ At(c, "done"))
  BY OwesBefore
<1>2. Observe
  <2>1. TypeOK
    BY DEF Inv, TypeInv
  <2>2. ASSUME NEW r \in Request, Start(r) \/ Resolve(r) \/ Serve(r)
        PROVE  Observe
    <3>1. CASE Start(r) \/ Resolve(r)
      BY <2>1, <3>1, StartFrame, ResolveFrame DEF ReadOnly
    <3>2. CASE Serve(r)
      BY <2>1, <3>2, ServeEffect DEF ReadsOn, FindsPull, FindsNoPull, Fails,
         BranchesOff, Writes, ClosesPull, EndsOtherwise, ReadOnly
    <3> QED
      BY <2>2, <3>1, <3>2
  <2> QED
    BY <2>2 DEF Next, Elsewhere
<1>3. watch[c].kept /\ ~(branch # NoBranch /\ branch' = NoBranch)
  BY <1>1, <1>2 DEF Observe
<1>4. \/ branch = c
      \/ \E q \in Request : PastWrite(q) /\ req[q].sha = c
  BY <1>1, <1>3 DEF Inv, WrittenIsNotLost, Owes
<1>5. CASE branch = c
  <2>1. c \in Content /\ c # NoBranch
    BY RepositoryAssumption, RequestAssumption DEF Sentinels
  <2> QED
    BY <1>3, <1>5, <2>1, ContentStays
<1>6. CASE \E q \in Request : PastWrite(q) /\ req[q].sha = c
  BY <1>6, PastWriteStays
<1> QED
  BY <1>4, <1>5, <1>6

\* The inductive step of the safety theorems.
LEMMA InvStep == Inv /\ [Next]_vars => Inv'
<1> SUFFICES ASSUME Inv, [Next]_vars PROVE Inv'
  OBVIOUS
<1>1. CASE Next
  <2>1. TypeInv'
    BY <1>1, NextTypeInv DEF Inv
  <2> QED
    BY <1>1, <2>1, NotStartedStep, CreateIsAloneStep, ClosesWhatIsOpenStep,
       WrittenIsNotLostStep DEF Inv
<1>2. CASE UNCHANGED vars
  <2>1. TypeInv'
    BY NextTypeInv DEF Inv
  <2> QED
    BY <1>2, <2>1 DEF vars, Inv, NotStarted, CreateIsAlone, ClosesWhatIsOpen,
       WrittenIsNotLost, Succeeded, PastWrite, At, InFlight
<1> QED
  BY <1>1, <1>2

\* The invariant holds in every repository that earlier requests can leave.
LEMMA InitInv == Init => Inv
<1> SUFFICES ASSUME Init PROVE Inv
  OBVIOUS
<1>1. TypeInv
  BY InitTypeOK DEF Init, TypeInv, PullRequestHasBranch
<1>2. \A r \in Request : req[r] = Idle
  BY DEF Init
<1> QED
  BY <1>1, <1>2 DEF Inv, NotStarted, CreateIsAlone, ClosesWhatIsOpen,
     WrittenIsNotLost, Succeeded, At, InFlight, Idle

\* The conflict detection of the contents API is enough for concurrent requests
\* of any number: an acknowledged write is replaced only by a request that had
\* read it.
THEOREM ConflictsAreDetected == Spec => []AcknowledgedWriteIsNotLost
<1>1. Inv => AcknowledgedWriteIsNotLost
  BY DEF Inv, WrittenIsNotLost, AcknowledgedWriteIsNotLost
<1> QED
  BY <1>1, InitInv, InvStep, PTL DEF Spec

-----------------------------------------------------------------------------
(* Approval.                                                               *)

\* What makes the content c of an open pull request acceptable, apart from the
\* publishing user: the request c that wrote it.
Excused(c) ==
    c \in Request /\ ((req[c].op = "update" /\ ~req[c].needs) \/ ApprovalPending(c))

\* A request stays an excuse for its content, unless it ends without error at
\* the point where it should have closed the pull request.
LEMMA ExcusedStays ==
    ASSUME Inv, Next, NEW c, Excused(c)
    PROVE  Excused(c)' \/ FindsNoPull(c) \/ ClosesPull(c)
<1>1. TypeOK /\ c \in Request /\ NotStarted(c)
  BY DEF Inv, TypeInv, Excused
<1> USE DEF Excused, ApprovalPending, At, NotStarted
<1>2. CASE req' = req
  BY <1>2
<1>3. ASSUME NEW r \in Request, OthersUnchanged(r),
             Start(r) \/ Resolve(r) \/ Serve(r)
      PROVE  Excused(c)' \/ FindsNoPull(c) \/ ClosesPull(c)
  <2>1. CASE c # r
    BY <1>1, <1>3, <2>1 DEF OthersUnchanged
  <2>2. CASE c = r
    <3>1. CASE Start(r)
      BY <1>1, <2>2, <3>1, StartFrame
    <3>2. CASE Resolve(r)
      BY <1>1, <2>2, <3>2, ResolveFrame DEF StaysItself
    <3>3. CASE Serve(r)
      <4>1. StaysItself(r) /\ InFlight(r)
        BY <1>1, <3>3, ServeFrame
      <4>2. CASE ~req[r].needs /\ req[r].op = "update"
        BY <1>1, <2>2, <4>1, <4>2 DEF StaysItself
      <4>3. CASE req[r].op = "update" /\ req[r].needs /\ ApprovalPending(r)
        <5>1. req[r].pc \in {"pulls", "close"}
          BY <1>1, <2>2, <4>1, <4>3 DEF InFlight
        <5>2. CASE FindsPull(r) \/ Fails(r)
          BY <1>1, <2>2, <4>1, <4>3, <5>2 DEF FindsPull, Fails, StaysItself
        <5>3. CASE FindsNoPull(r) \/ ClosesPull(r)
          BY <2>2, <5>3
        <5> QED
          BY <1>1, <3>3, <5>1, <5>2, <5>3, ServeEffect
             DEF ReadsOn, BranchesOff, Writes, EndsOtherwise
      <4> QED
        BY <2>2, <4>2, <4>3
    <3> QED
      BY <1>3, <3>1, <3>2, <3>3
  <2> QED
    BY <2>1, <2>2
<1> QED
  BY <1>1, <1>2, <1>3, NextFrame

\* Every step keeps what is in an open pull request approved, as long as the
\* listing of pull requests shows the one that is open.
LEMMA ApprovalStep ==
    ASSUME PullRequestsFitOnePage, Inv, OpenPullRequestIsApproved, Next
    PROVE  OpenPullRequestIsApproved'
<1> SUFFICES ASSUME pr'.open, branch' \in Content, branch' # pr'.approved
             PROVE  Excused(branch)'
  BY DEF OpenPullRequestIsApproved, Vouched, Excused
<1>1. /\ TypeOK /\ PullRequestHasBranch /\ pr \in PullRequest
      /\ \A c \in Request : CreateIsAlone(c) /\ ClosesWhatIsOpen(c)
      /\ NoFile \notin Content
  BY RepositoryAssumption DEF Inv, TypeInv, TypeOK, RepoTypeOK, Sentinels
\* As long as the pull request is the same, its content is excused as before.
<1>2. ASSUME pr' = pr, branch' = branch
      PROVE  Excused(branch)'
  <2>1. PICK c \in Content : branch = c
    BY <1>2
  <2>2. Excused(c) /\ pr.open /\ pr.approved # c
    BY <1>2, <2>1 DEF OpenPullRequestIsApproved, Vouched, Excused
  <2>3. ~FindsNoPull(c)
    BY <1>1, <2>2 DEF FindsNoPull, OpenPullRequestListings, PullRequestHasBranch
  <2>4. ~ClosesPull(c)
    <3> SUFFICES ASSUME ClosesPull(c) PROVE FALSE
      OBVIOUS
    <3>1. req[c].pull = pr.number
      BY <1>1, <2>1, <2>2 DEF ClosesPull, ClosesWhatIsOpen, Excused
    <3>2. ~pr'.open
      BY <1>1, <3>1 DEF ClosesPull, ClosePullRequest, PullRequest
    <3> QED
      BY <3>2
  <2>5. Excused(c)'
    BY <2>2, <2>3, <2>4, ExcusedStays
  <2> QED
    BY <1>2, <2>1, <2>5
<1>3. CASE Elsewhere
  BY <1>1, <1>3 DEF Elsewhere, MergePullRequest, RejectPullRequest,
     ClosePullRequest, DeleteMergedBranch, DeleteBranch, PullRequest
<1>4. ASSUME NEW r \in Request, OthersUnchanged(r),
             Start(r) \/ Resolve(r) \/ Serve(r)
      PROVE  Excused(branch)'
  <2>1. CASE Start(r) \/ Resolve(r)
    BY <1>1, <1>2, <2>1, StartFrame, ResolveFrame DEF ReadOnly, repo
  <2>2. CASE ReadsOn(r) \/ FindsPull(r) \/ FindsNoPull(r) \/ Fails(r)
    BY <1>2, <2>2 DEF ReadsOn, FindsPull, FindsNoPull, Fails, ReadOnly, repo
  <2>3. CASE BranchesOff(r)
    BY <1>1, <2>3 DEF BranchesOff, CreateBranch, PullRequestHasBranch
  <2>4. CASE Serve(r) /\ Writes(r)
    <3>1. branch' = r /\ pr.open /\ req[r].pc = "write"
      BY <2>4 DEF Writes, WriteFile, At
    <3>2. req[r].op = "update"
      BY <1>1, <2>4, <3>1 DEF Writes, CreateIsAlone, InFlight
    <3>3. req'[r].op = "update" /\ req'[r].needs = req[r].needs
      BY <1>1, <2>4, <3>2, ServeFrame DEF StaysItself
    <3>4. ~req[r].needs \/ req'[r].pc = "pulls"
      BY <2>4, <3>2 DEF Writes
    <3> QED
      BY <3>1, <3>3, <3>4 DEF Excused, ApprovalPending, At
  <2>5. CASE ClosesPull(r)
    <3>1. branch' = branch /\ (pr' = pr \/ ~pr'.open)
      BY <1>1, <2>5 DEF ClosesPull, ClosePullRequest, PullRequest
    <3> QED
      BY <1>2, <3>1
  <2>6. CASE EndsOtherwise(r)
    <3>1. ~pr'.open \/ branch' = NoFile \/ pr'.approved = branch'
      BY <1>1, <2>6 DEF EndsOtherwise, DeleteBranch, DeleteFile,
         CreatePullRequest, PullRequest
    <3> QED
      BY <1>1, <3>1
  <2> QED
    BY <1>1, <1>4, <2>1, <2>2, <2>3, <2>4, <2>5, <2>6, ServeEffect
<1> QED
  BY <1>1, <1>3, <1>4, NextFrame

\* If the listing of open pull requests is complete, no interleaving of requests
\* and merges leaves a pull request open over content that needs an approval
\* nobody gave, once the update that wrote it has answered without error.
THEOREM ApprovalIsRequired ==
    ASSUME PullRequestsFitOnePage
    PROVE  Spec => []OpenPullRequestIsApproved
<1> DEFINE IInv == Inv /\ OpenPullRequestIsApproved
<1>1. Init => IInv
  <2>1. Init => OpenPullRequestIsApproved
    BY DEF Init, OpenPullRequestIsApproved, Vouched
  <2> QED
    BY <2>1, InitInv
<1>2. IInv /\ [Next]_vars => IInv'
  <2>1. CASE Next
    BY <2>1, InvStep, ApprovalStep
  <2>2. CASE UNCHANGED vars
    BY <2>2, InvStep DEF vars, OpenPullRequestIsApproved, Vouched,
       ApprovalPending, At
  <2> QED
    BY <2>1, <2>2
<1>3. IInv => OpenPullRequestIsApproved
  OBVIOUS
<1> HIDE DEF IInv
<1> QED
  BY <1>1, <1>2, <1>3, PTL DEF Spec
-----------------------------------------------------------------------------
(* What a request has read.                                                *)

OpenPullRequestHasNumber == pr.open => pr.number # 0

FreshWhenIdle(r) == At(r, "idle") => req[r] = Idle

\* As long as the RiSc stays staged for deletion, what an update has read of it
\* says so, but for a content that could not be read.
GuardHasSeen(r) ==
    InFlight(r) /\ req[r].op = "update" /\ watch[r].staged =>
        /\ DeletionStaged
        /\ At(r, "resolve") =>
              /\ "published" \notin req[r].todo => req[r].main # NoFile
              /\ "branches" \notin req[r].todo => req[r].hasBranch
              /\ req[r].branchContent \in {Unread, NoFile, Failed}
        /\ PastGuard(r) => req[r].branchContent = Failed

\* As long as the repository stays as it is, what a fetch has read is what is
\* there, but for a content that could not be read.
HasReadWhatIs(r) ==
    /\ "published" \notin req[r].todo => req[r].main = main
    /\ "branches" \notin req[r].todo => req[r].hasBranch = (branch # NoBranch)
    /\ "pulls" \notin req[r].todo => (req[r].pull # 0) = pr.open
    /\ req[r].mainContent \in {Unread, main, Failed}
    /\ req[r].branchContent \in {Unread, FileOnBranch, Failed}

FetchHasSeen(r) ==
    InFlight(r) /\ req[r].op = "fetch" =>
        At(r, "resolve") /\ (watch[r].quiet => HasReadWhatIs(r))

ReadInv ==
    /\ Inv /\ OpenPullRequestHasNumber
    /\ \A r \in Request : FreshWhenIdle(r)
    /\ \A r \in Request : GuardHasSeen(r)
    /\ PullRequestsFitOnePage => \A r \in Request : FetchHasSeen(r)

\* Every step is recorded in the history.
LEMMA NextObserves ==
    ASSUME TypeOK, Next
    PROVE  Observe
<1>1. ASSUME NEW r \in Request, Start(r) \/ Resolve(r) PROVE Observe
  BY <1>1, StartFrame, ResolveFrame DEF ReadOnly
<1>2. ASSUME NEW r \in Request, Serve(r) PROVE Observe
  BY <1>2, ServeEffect DEF ReadsOn, FindsPull, FindsNoPull, Fails, BranchesOff,
     Writes, ClosesPull, EndsOtherwise, ReadOnly
<1> QED
  BY <1>1, <1>2 DEF Next, Elsewhere

\* What held all along still does.
LEMMA ObserveWatches ==
    ASSUME Observe, NEW r \in Request
    PROVE  /\ watch'[r].staged =>
                 /\ watch[r].staged
                 /\ (InFlight(r)' /\ req'[r].op = "update" => DeletionStaged')
           /\ watch'[r].quiet =>
                 /\ watch[r].quiet
                 /\ (InFlight(r) /\ req[r].op = "fetch" => UNCHANGED repo)
<1>1. /\ watch'[r].staged = (watch[r].staged /\
            (req'[r].op = "update" /\ InFlight(r)' => DeletionStaged'))
      /\ watch'[r].quiet = (watch[r].quiet /\
            (req[r].op = "fetch" /\ InFlight(r) => UNCHANGED repo))
  BY DEF Observe
<1> QED
  BY <1>1, Zenon

\* Each pull request has a number of its own, from 1.
LEMMA OpenPullRequestHasNumberStep ==
    ASSUME TypeOK, OpenPullRequestHasNumber, Next
    PROVE  OpenPullRequestHasNumber'
<1>1. pr \in PullRequest /\ RepoStep
  BY NextIsRepoStep DEF TypeOK, RepoTypeOK
<1> QED
  BY <1>1 DEF OpenPullRequestHasNumber, PullRequest, RepoStep, Written, repo,
     MergePullRequest, RejectPullRequest, DeleteMergedBranch, ClosePullRequest,
     DeleteBranch, CreatePullRequest, WriteFile, DeleteFile, CreateBranch

\* No step makes a request idle.
LEMMA FreshWhenIdleStep ==
    ASSUME TypeOK, \A r \in Request : FreshWhenIdle(r), Next
    PROVE  \A r \in Request : FreshWhenIdle(r)'
<1> USE DEF FreshWhenIdle, At
<1>1. ASSUME NEW r \in Request, OthersUnchanged(r),
             Start(r) \/ Resolve(r) \/ Serve(r)
      PROVE  \A q \in Request : FreshWhenIdle(q)'
  <2>1. req'[r].pc # "idle"
    BY <1>1, StartFrame, ResolveFrame, ServeFrame DEF StaysItself
  <2> QED
    BY <1>1, <2>1 DEF OthersUnchanged
<1> QED
  BY <1>1, NextFrame

\* What a request that arrives has read: nothing.
LEMMA StartsUnread ==
    ASSUME TypeOK, NEW r \in Request, FreshWhenIdle(r), Start(r)
    PROVE  /\ req'[r].todo = Metadata
           /\ req'[r].mainContent = Unread /\ req'[r].branchContent = Unread
           /\ req'[r].op \in {"fetch", "update"} <=> req'[r].pc = "resolve"
<1>1. req[r] = Idle
  BY StartFrame DEF FreshWhenIdle
<1> USE <1>1 DEF Idle, TypeOK
<1>2. CASE StartCreate(r) \/ StartDelete(r) \/ StartPublish(r) \/ StartFetch(r)
  BY <1>2 DEF StartCreate, StartDelete, StartPublish, StartFetch
<1>3. ASSUME NEW needs \in BOOLEAN, StartUpdate(r, needs)
      PROVE  /\ req'[r].todo = Metadata
             /\ req'[r].mainContent = Unread /\ req'[r].branchContent = Unread
             /\ req'[r].op = "update" /\ req'[r].pc = "resolve"
  BY <1>3 DEF StartUpdate
<1> QED
  BY <1>2, <1>3 DEF Start

\* What serving an accepted request does to what its status was resolved from:
\* nothing.
LEMMA ServeKeepsContent ==
    ASSUME TypeOK, NEW r \in Request, Serve(r)
    PROVE  \/ req'[r].pc = "done"
           \/ /\ req'[r].branchContent = req[r].branchContent
              /\ req[r].pc # "resolve" /\ req'[r].pc # "resolve"
              /\ PastGuard(r)' => PastGuard(r)
<1> USE DEF TypeOK, At, PastGuard
<1>1. ASSUME NEW answer, Reply(r, answer) PROVE req'[r].pc = "done"
  BY <1>1, ReplyFrame
<1>2. ASSUME NEW answer, ReplyOrLose(r, answer) PROVE req'[r].pc = "done"
  BY <1>2, ReplyOrLoseFrame
<1>3. ASSUME NEW pc, Goto(r, pc)
      PROVE  /\ req'[r].branchContent = req[r].branchContent
             /\ req'[r].pc = pc /\ req'[r].op = req[r].op
  BY <1>3 DEF Goto, RequestState
<1>4. CASE ReadHead(r)
  BY <1>4 DEF ReadHead, RequestState
<1>5. CASE ReadSha(r)
  <2>1. /\ req[r].pc = "sha" /\ req'[r].branchContent = req[r].branchContent
        /\ req'[r].op = req[r].op
        /\ req'[r].pc = IF req[r].op = "update" THEN "write" ELSE "deleteFile"
    BY <1>5 DEF ReadSha, RequestState
  <2> QED
    BY <2>1
<1>6. CASE FindPull(r)
  BY <1>6 DEF FindPull, RequestState
<1>7. CASE CheckPublished(r)
  <2>1. /\ req[r].pc = "published" /\ req'[r].branchContent = req[r].branchContent
        /\ req'[r].pc = IF main = NoFile THEN "deleteBranch" ELSE "branchHead"
    BY <1>7 DEF CheckPublished, RequestState
  <2> QED
    BY <2>1
<1>8. CASE CreateDraftBranch(r)
  <2>1. /\ req[r].pc = "createBranch" /\ req'[r].branchContent = req[r].branchContent
        /\ req'[r].pc \in {"write", "sha", "deleteFile"} /\ req'[r].op = req[r].op
    BY <1>3, <1>8 DEF CreateDraftBranch
  <2> QED
    BY <2>1
<1>9. CASE CheckBranch(r)
  BY <1>3, <1>9 DEF CheckBranch
<1>10. CASE FindDraft(r)
  BY <1>3, <1>10 DEF FindDraft
<1>11. CASE Write(r)
  <2>1. CASE Goto(r, "pulls")
    BY <1>3, <1>11, <2>1 DEF Write
  <2>2. CASE ReplyOrLose(r, "CreatedRiSc") \/ ReplyOrLose(r, "UpdatedRiSc")
    BY <1>2, <2>2
  <2> QED
    BY <1>11, <2>1, <2>2 DEF Write
<1>12. CASE ClosePull(r) \/ DeleteDraftBranch(r) \/ StageDeletion(r) \/ Publish(r)
  BY <1>2, <1>12 DEF ClosePull, DeleteDraftBranch, StageDeletion, Publish
<1>13. CASE FindNoPull(r) \/ FindNoDraft(r) \/ Fail(r)
  BY <1>1, <1>13 DEF FindNoPull, FindNoDraft, Fail
<1> QED
  BY <1>4, <1>5, <1>6, <1>7, <1>8, <1>9, <1>10, <1>11, <1>12, <1>13 DEF Serve

\* Resolving the status ends, moves an update on, or adds one answer to what has
\* been read.
ReadsMore(r) ==
    \/ /\ req'[r].todo = req[r].todo \ {"published"} /\ req'[r].main = main
       /\ req'[r].hasBranch = req[r].hasBranch /\ req'[r].pull = req[r].pull
       /\ req'[r].mainContent = req[r].mainContent /\ req'[r].branchContent = req[r].branchContent
    \/ /\ req'[r].todo = req[r].todo \ {"branches"}
       /\ req'[r].hasBranch = (branch # NoBranch)
       /\ req'[r].main = req[r].main /\ req'[r].pull = req[r].pull
       /\ req'[r].mainContent = req[r].mainContent /\ req'[r].branchContent = req[r].branchContent
    \/ /\ req'[r].todo = req[r].todo \ {"pulls"}
       /\ req'[r].pull \in OpenPullRequestListings
       /\ req'[r].main = req[r].main /\ req'[r].hasBranch = req[r].hasBranch
       /\ req'[r].mainContent = req[r].mainContent /\ req'[r].branchContent = req[r].branchContent
    \/ /\ req'[r].mainContent \in ContentResponses(main)
       /\ req'[r].todo = req[r].todo /\ req'[r].main = req[r].main
       /\ req'[r].hasBranch = req[r].hasBranch /\ req'[r].pull = req[r].pull
       /\ req'[r].branchContent = req[r].branchContent
    \/ /\ req'[r].branchContent \in ContentResponses(FileOnBranch)
       /\ req'[r].todo = req[r].todo /\ req'[r].main = req[r].main
       /\ req'[r].hasBranch = req[r].hasBranch /\ req'[r].pull = req[r].pull
       /\ req'[r].mainContent = req[r].mainContent

LEMMA ResolveReads ==
    ASSUME TypeOK, NEW r \in Request, Resolve(r)
    PROVE  \/ req'[r].pc = "done"
           \/ req'[r].pc = "resolve" /\ ReadsMore(r)
           \/ /\ req'[r].pc \in {"sha", "head"} /\ req[r].op = "update"
              /\ Resolved(r) /\ ~StagedForDeletion(ResolvedStatus(r))
              /\ req'[r].branchContent = req[r].branchContent
<1> USE DEF TypeOK, RequestState, At
<1>1. CASE ReadPublished(r)
  <2>1. req'[r].todo = req[r].todo \ {"published"} /\ req'[r].pc = "resolve"
    BY <1>1 DEF ReadPublished
  <2>2. req'[r].main = main
    BY <1>1 DEF ReadPublished
  <2>3. /\ req'[r].hasBranch = req[r].hasBranch /\ req'[r].pull = req[r].pull
        /\ req'[r].mainContent = req[r].mainContent /\ req'[r].branchContent = req[r].branchContent
    BY <1>1 DEF ReadPublished
  <2> QED
    BY <2>1, <2>2, <2>3 DEF ReadsMore
<1>2. CASE ReadBranches(r)
  <2>1. req'[r].todo = req[r].todo \ {"branches"} /\ req'[r].pc = "resolve"
    BY <1>2 DEF ReadBranches
  <2>2. req'[r].hasBranch = (branch # NoBranch)
    BY <1>2 DEF ReadBranches
  <2>3. /\ req'[r].main = req[r].main /\ req'[r].pull = req[r].pull
        /\ req'[r].mainContent = req[r].mainContent /\ req'[r].branchContent = req[r].branchContent
    BY <1>2 DEF ReadBranches
  <2> QED
    BY <2>1, <2>2, <2>3 DEF ReadsMore
<1>3. CASE ReadPulls(r)
  <2>1. req'[r].todo = req[r].todo \ {"pulls"} /\ req'[r].pc = "resolve"
    BY <1>3 DEF ReadPulls
  <2>2. req'[r].pull \in OpenPullRequestListings
    BY <1>3 DEF ReadPulls
  <2>3. /\ req'[r].main = req[r].main /\ req'[r].hasBranch = req[r].hasBranch
        /\ req'[r].mainContent = req[r].mainContent /\ req'[r].branchContent = req[r].branchContent
    BY <1>3 DEF ReadPulls
  <2> QED
    BY <2>1, <2>2, <2>3 DEF ReadsMore
<1>4. CASE ReadMainContent(r)
  BY <1>4 DEF ReadMainContent, ReadsMore
<1>5. CASE ReadBranchContent(r)
  BY <1>5 DEF ReadBranchContent, ReadsMore
<1>6. CASE AnswerFetch(r) \/ RefuseUpdate(r)
  BY <1>6, ReplyFrame DEF AnswerFetch, RefuseUpdate
<1>7. CASE AcceptUpdate(r)
  BY <1>7 DEF AcceptUpdate, Goto
<1> QED
  BY <1>1, <1>2, <1>3, <1>4, <1>5, <1>6, <1>7 DEF Resolve

\* The guard of updateRiSc accepts a RiSc that stays staged for deletion only if
\* the content of its draft could not be read.
LEMMA GuardHasSeenStep ==
    ASSUME TypeOK, Next, NEW r \in Request, FreshWhenIdle(r), GuardHasSeen(r)
    PROVE  GuardHasSeen(r)'
<1> SUFFICES ASSUME InFlight(r)', req'[r].op = "update", watch'[r].staged
             PROVE  /\ DeletionStaged'
                    /\ req'[r].pc = "resolve" =>
                          /\ "published" \notin req'[r].todo => req'[r].main # NoFile
                          /\ "branches" \notin req'[r].todo => req'[r].hasBranch
                          /\ req'[r].branchContent \in {Unread, NoFile, Failed}
                    /\ PastGuard(r)' => req'[r].branchContent = Failed
  BY DEF GuardHasSeen, At
<1>1. watch[r].staged /\ DeletionStaged'
  BY NextObserves, ObserveWatches
<1> USE DEF InFlight, At
<1>2. CASE req'[r] = req[r]
  BY <1>1, <1>2 DEF GuardHasSeen, PastGuard
<1>3. CASE Start(r)
  <2>1. /\ req'[r].todo = {"published", "branches", "pulls"}
        /\ req'[r].branchContent = Unread /\ req'[r].pc = "resolve"
    BY <1>3, StartsUnread DEF Metadata
  <2> QED
    BY <1>1, <2>1 DEF PastGuard
<1>4. CASE Resolve(r)
  <2>1. /\ req[r].pc = "resolve" /\ req[r].op = "update"
        /\ req'[r].pc # "done"
    BY <1>4, ResolveFrame DEF StaysItself
  <2>2. /\ main # NoFile /\ branch = NoFile
        /\ "published" \notin req[r].todo => req[r].main # NoFile
        /\ "branches" \notin req[r].todo => req[r].hasBranch
        /\ req[r].branchContent \in {Unread, NoFile, Failed}
    BY <1>1, <2>1 DEF GuardHasSeen, DeletionStaged
  <2>3. CASE req'[r].pc = "resolve" /\ ReadsMore(r)
    BY <1>1, <2>2, <2>3 DEF ReadsMore, PastGuard, ContentResponses,
       FileOnBranch, NoFile, NoBranch
  <2>4. CASE /\ req'[r].pc \in {"sha", "head"}
             /\ Resolved(r) /\ ~StagedForDeletion(ResolvedStatus(r))
             /\ req'[r].branchContent = req[r].branchContent
    <3>1. req[r].main # NoFile /\ req[r].hasBranch
      BY <2>2, <2>4 DEF Resolved
    <3>2. req[r].branchContent # Unread
      BY <2>4, <3>1 DEF Resolved
    <3>3. req[r].branchContent # NoFile
      <4> SUFFICES ASSUME req[r].branchContent = NoFile
                   PROVE  StagedForDeletion(ResolvedStatus(r))
        BY <2>4
      <4> QED
        BY <3>1 DEF ResolvedStatus, GetRiScStatus, StagedForDeletion, NoFile
    <3> QED
      BY <1>1, <2>2, <2>4, <3>2, <3>3
  <2> QED
    BY <1>4, <2>1, <2>3, <2>4, ResolveReads
<1>5. CASE Serve(r)
  <2>1. req'[r].pc # "done" /\ InFlight(r) /\ req[r].op = "update"
    BY <1>5, ServeFrame DEF StaysItself
  <2> QED
    BY <1>1, <1>5, <2>1, ServeKeepsContent DEF GuardHasSeen
<1> QED
  BY <1>2, <1>3, <1>4, <1>5, NextFrame DEF OthersUnchanged

\* What a fetch has read stays true while nothing changes.
LEMMA FetchHasSeenStep ==
    ASSUME TypeOK, OpenPullRequestHasNumber, PullRequestsFitOnePage, Next,
           NEW r \in Request, FreshWhenIdle(r), FetchHasSeen(r)
    PROVE  FetchHasSeen(r)'
<1> USE DEF InFlight, At
<1> SUFFICES ASSUME InFlight(r)', req'[r].op = "fetch"
             PROVE  /\ req'[r].pc = "resolve"
                    /\ watch'[r].quiet => HasReadWhatIs(r)'
  BY DEF FetchHasSeen
<1>1. /\ watch'[r].quiet => watch[r].quiet
      /\ watch'[r].quiet /\ req[r].op = "fetch" /\ InFlight(r) => UNCHANGED repo
  BY NextObserves, ObserveWatches
<1>2. CASE req'[r] = req[r]
  BY <1>1, <1>2 DEF FetchHasSeen, HasReadWhatIs, repo, FileOnBranch
<1>3. CASE Start(r)
  <2>1. /\ req'[r].todo = {"published", "branches", "pulls"}
        /\ req'[r].mainContent = Unread /\ req'[r].branchContent = Unread
        /\ req'[r].pc = "resolve"
    BY <1>3, StartsUnread DEF Metadata
  <2> QED
    BY <2>1 DEF HasReadWhatIs
<1>4. CASE Resolve(r)
  <2>1. /\ req[r].pc = "resolve" /\ req[r].op = "fetch"
        /\ req'[r].pc # "done" /\ UNCHANGED repo
    BY <1>4, ResolveFrame DEF StaysItself, ReadOnly
  <2>2. req'[r].pc = "resolve" /\ ReadsMore(r)
    BY <1>4, <2>1, ResolveReads
  <2>3. ASSUME NEW n \in OpenPullRequestListings PROVE (n # 0) = pr.open
    BY <2>3 DEF OpenPullRequestListings, OpenPullRequestHasNumber, TypeOK,
       RepoTypeOK, PullRequest
  <2>4. main' = main /\ branch' = branch /\ pr' = pr /\ FileOnBranch' = FileOnBranch
    BY <2>1 DEF repo, FileOnBranch
  <2>5. ASSUME watch'[r].quiet PROVE HasReadWhatIs(r)'
    <3>1. HasReadWhatIs(r)
      BY <1>1, <2>1, <2>5 DEF FetchHasSeen
    <3> QED
      BY <2>2, <2>3, <2>4, <3>1 DEF ReadsMore, HasReadWhatIs, ContentResponses
  <2> QED
    BY <2>2, <2>5
<1>5. CASE Serve(r)
  BY <1>5, ServeFrame, ServeKeepsContent DEF StaysItself, FetchHasSeen
<1> QED
  BY <1>2, <1>3, <1>4, <1>5, NextFrame DEF OthersUnchanged

\* The inductive step.
LEMMA ReadInvStep == ReadInv /\ [Next]_vars => ReadInv'
<1> SUFFICES ASSUME ReadInv, [Next]_vars PROVE ReadInv'
  OBVIOUS
<1>1. Inv' /\ TypeOK
  BY InvStep DEF ReadInv, Inv, TypeInv
<1>2. CASE Next
  BY <1>1, <1>2, OpenPullRequestHasNumberStep, FreshWhenIdleStep,
     GuardHasSeenStep, FetchHasSeenStep DEF ReadInv
<1>3. CASE UNCHANGED vars
  BY <1>1, <1>3 DEF ReadInv, vars, OpenPullRequestHasNumber, FreshWhenIdle,
     GuardHasSeen, FetchHasSeen, HasReadWhatIs, DeletionStaged, PastGuard,
     FileOnBranch, At, InFlight
<1> QED
  BY <1>2, <1>3 DEF vars

LEMMA ReadInvInit == Init => ReadInv
<1> SUFFICES ASSUME Init PROVE ReadInv
  OBVIOUS
<1>1. \A r \in Request : req[r] = Idle
  BY DEF Init
<1>2. OpenPullRequestHasNumber
  BY DEF Init, OpenPullRequestHasNumber
<1>3. \A r \in Request : FreshWhenIdle(r)
  BY <1>1, Zenon DEF FreshWhenIdle
<1>4. \A r \in Request : ~InFlight(r)
  BY <1>1 DEF InFlight, Idle
<1> QED
  BY <1>2, <1>3, <1>4, InitInv DEF ReadInv, GuardHasSeen, FetchHasSeen

\* RiScService.ts:updateRiSc: whatever the other requests do, a RiSc that stays
\* staged for deletion gets past the guard only if its draft could not be read.
THEOREM GuardHolds == Spec => []StagedDeletionBlocksUpdate
<1>1. ReadInv => StagedDeletionBlocksUpdate
  BY DEF ReadInv, GuardHasSeen, StagedDeletionBlocksUpdate, PastGuard, InFlight
<1> QED
  BY <1>1, ReadInvInit, ReadInvStep, PTL DEF Spec

\* The status and the content that follow from what is there, if it was read.
LEMMA ResolvedIsExact ==
    ASSUME TypeOK, NEW r \in Request, HasReadWhatIs(r), Resolved(r),
           Failed \notin {req[r].mainContent, req[r].branchContent}
    PROVE  /\ ResolvedStatus(r) = RepositoryStatus
           /\ ResolvedContent(r) = CurrentContent
<1> USE DEF NoFile, NoBranch, Failed, Unread
<1>1. /\ main \in File /\ branch \in File \cup {NoBranch}
      /\ \A c \in Content : c \notin {NoFile, NoBranch, Failed, Unread}
  BY RepositoryAssumption DEF TypeOK, RepoTypeOK, Sentinels
<1>2. /\ req[r].main = main /\ req[r].mainContent = main
      /\ req[r].hasBranch = (branch # NoBranch)
      /\ (req[r].pull # 0) = pr.open
      /\ branch # NoBranch => req[r].branchContent = branch
  BY DEF HasReadWhatIs, Resolved, FileOnBranch
<1>3. ResolvedStatus(r) = RepositoryStatus
  <2>1. CASE branch = NoBranch
    BY <1>1, <1>2, <2>1 DEF ResolvedStatus, GetRiScStatus, RepositoryStatus, IsText
  <2>2. CASE branch = NoFile
    BY <1>1, <1>2, <2>2 DEF ResolvedStatus, GetRiScStatus, RepositoryStatus, IsText
  <2>3. CASE branch \in Content
    BY <1>1, <1>2, <2>3 DEF ResolvedStatus, GetRiScStatus, RepositoryStatus, IsText,
       File
  <2> QED
    BY <1>1, <2>1, <2>2, <2>3 DEF File
<1>4. ResolvedContent(r) = CurrentContent
  <2>1. RepositoryStatus \in {"Draft", "SentForApproval"} => branch # NoBranch
    BY DEF RepositoryStatus
  <2>2. RepositoryStatus \in Statuses
    BY <1>3 DEF ResolvedStatus, GetRiScStatus, Statuses
  <2> QED
    BY <1>2, <1>3, <2>1, <2>2 DEF ResolvedContent, CurrentContent, ChooseContent,
       Statuses
<1> QED
  BY <1>3, <1>4

\* RiScService.ts:fetchAllRiScs puts an answer together from five reads: if all
\* open pull requests are listed, nothing changed between them and none failed,
\* it is exact.
THEOREM QuietFetches ==
    ASSUME PullRequestsFitOnePage
    PROVE  Spec => QuietFetchIsExact
<1>1. ASSUME ReadInv, Next, NEW r \in Request,
             req[r].op = "fetch", InFlight(r), req'[r].answer \in Statuses,
             watch[r].quiet,
             Failed \notin {req[r].mainContent, req[r].branchContent}
      PROVE  /\ req'[r].answer = RepositoryStatus
             /\ ResolvedContent(r) = CurrentContent
  <2>1. /\ TypeOK /\ HasReadWhatIs(r) /\ req[r].pc = "resolve"
        /\ req[r].answer = "none"
    BY <1>1 DEF ReadInv, Inv, TypeInv, FetchHasSeen, NotStarted, At, InFlight
  <2>2. req'[r].answer # "none" /\ req'[r].answer # "Error"
    BY <1>1 DEF Statuses
  <2>3. Resolve(r) \/ Serve(r)
    <3>1. PICK q \in Request : OthersUnchanged(q) /\ (Start(q) \/ Resolve(q) \/ Serve(q))
      BY <1>1, <2>1, <2>2, NextFrame
    <3>2. q = r
      BY <2>1, <2>2, <3>1 DEF OthersUnchanged
    <3>3. ~Start(r)
      BY <2>1, StartFrame DEF At
    <3> QED
      BY <3>1, <3>2, <3>3
  <2>4. ~Serve(r)
    <3> SUFFICES ASSUME Serve(r) PROVE FALSE
      OBVIOUS
    <3>1. req'[r].pc = "done"
      BY <2>1, ServeKeepsContent
    <3>2. Fail(r)
      BY <1>1, <2>1 DEF Serve, ReadHead, CreateDraftBranch, ReadSha, Write, FindPull,
         FindNoPull, ClosePull, CheckPublished, DeleteDraftBranch, CheckBranch,
         StageDeletion, FindNoDraft, FindDraft, Publish, At
    <3> QED
      BY <2>1, <2>2, <3>2, ReplyFrame DEF Fail
  <2>5. AnswerFetch(r)
    <3>1. CASE \/ ReadPublished(r) \/ ReadBranches(r) \/ ReadPulls(r)
               \/ ReadMainContent(r) \/ ReadBranchContent(r)
      <4>1. req'[r].answer = req[r].answer
        <5> USE <2>1 DEF TypeOK, RequestState
        <5>1. CASE ReadPublished(r)
          BY <5>1 DEF ReadPublished
        <5>2. CASE ReadBranches(r)
          BY <5>2 DEF ReadBranches
        <5>3. CASE ReadPulls(r)
          BY <5>3 DEF ReadPulls
        <5>4. CASE ReadMainContent(r) \/ ReadBranchContent(r)
          BY <5>4 DEF ReadMainContent, ReadBranchContent
        <5> QED
          BY <3>1, <5>1, <5>2, <5>3, <5>4
      <4> QED
        BY <2>1, <2>2, <4>1
    <3> QED
      BY <1>1, <2>3, <2>4, <3>1 DEF Resolve, RefuseUpdate, AcceptUpdate
  <2>6. Resolved(r) /\ req'[r].answer \in {"Failure", ResolvedStatus(r)}
    BY <2>1, <2>5, ReplyFrame DEF AnswerFetch
  <2>7. req'[r].answer = ResolvedStatus(r)
    BY <1>1, <2>6 DEF Statuses
  <2> QED
    BY <1>1, <2>1, <2>6, <2>7, ResolvedIsExact
<1>2. ReadInv /\ [Next]_vars =>
        [\A r \in Request :
          /\ req[r].op = "fetch" /\ InFlight(r) /\ req'[r].answer \in Statuses
          /\ watch[r].quiet
          /\ Failed \notin {req[r].mainContent, req[r].branchContent}
          => /\ req'[r].answer = RepositoryStatus
             /\ ResolvedContent(r) = CurrentContent]_vars
  BY <1>1
<1> QED
  BY <1>2, ReadInvInit, ReadInvStep, PTL DEF Spec, QuietFetchIsExact
=============================================================================
