------------------------------- MODULE Release -------------------------------
(***************************************************************************)
(* The release tooling (build-tools) and the workflow that runs it: every  *)
(* push to main releases the packages from a fresh checkout, and a pull    *)
(* request is checked for the release its merge will make.                 *)
(*                                                                         *)
(* A commit is represented by its position on main (pull requests are      *)
(* squashed, so main has no branches) and by the kind of its message.      *)
(* Prereleases, which the workflow never makes, are left out.              *)
(***************************************************************************)
EXTENDS Naturals, Sequences, FiniteSetsExt

CONSTANTS
    Order,       \* the packages in the order they are built and published
    Pull,        \* pull requests
    Kinds,       \* kinds of commit messages that occur
    MaxCommits,  \* bounds: commits on main,
    MaxFaults,   \*         steps that fail,
    MaxReruns    \*         failed jobs that are started again

\* breaking       a type that starts with feat or fix, with !
\* otherBreaking  any other type with !
\* feat, fix      these types, and feature like feat
\* perf           perf or revert, the other types with a section in the changelog
\* fixes          any other type that starts with feat or fix
\* other          anything else: docs, chore, refactor, no type at all
CommitKinds == {"breaking", "otherBreaking", "feat", "fix", "perf", "fixes", "other"}

ASSUME ReleaseAssumption ==
    /\ Order # << >> /\ Order \in Seq({Order[i] : i \in DOMAIN Order})
    /\ \A i, j \in DOMAIN Order : Order[i] = Order[j] => i = j
    /\ Kinds \subseteq CommitKinds
    /\ {MaxCommits, MaxFaults, MaxReruns} \subseteq Nat

VARIABLES
    main,      \* the commits on main, oldest first
    tags,      \* the tags of the repository
    releases,  \* the versions with a GitHub release
    npm,       \* what the registry has of each package
    comment,   \* the bot's comment on each pull request
    pull,      \* each pull request
    check,     \* the last workflow run of each pull request
    job,       \* the running workflow run on main
    pending,   \* the commit whose run waits for it, 0 if none
    failed,    \* commits whose last run failed or was cancelled
    promise,   \* history: what the pull request last merged was promised
    marred,    \* history: did a release stop between its first package and its tag?
    used       \* how much of each bound is used

pullVars == <<comment, pull, check, promise>>
vars == <<main, tags, releases, npm, comment, pull, check, job, pending, failed,
          promise, marred, used>>

Package == {Order[i] : i \in DOMAIN Order}
Commits == 1..Len(main)
NoVersion == <<0, 0, 0>>

------------------------------------------------------------------------------
(* Versions                                                                *)

Newer(v, w) ==
    \/ v[1] > w[1]
    \/ v[1] = w[1] /\ v[2] > w[2]
    \/ v[1] = w[1] /\ v[2] = w[2] /\ v[3] > w[3]

\* The tag that git describe finds from a commit.
GetLatestTag(head) ==
    LET reachable == {t \in tags : t.commit <= head}
    IN IF reachable = {} THEN [version |-> NoVersion, commit |-> 0]
       ELSE CHOOSE t \in reachable : \A u \in reachable : u.commit <= t.commit

GetCommitsSince(tag, head) == (tag.commit + 1)..head

KindsOf(commits) == {main[c].kind : c \in commits}

\* The recommendation is at least a patch, whatever the commits are.
RecommendedBump(kinds) ==
    CASE kinds \cap {"breaking", "otherBreaking"} # {} -> "major"
      [] kinds \cap {"breaking", "otherBreaking"} = {} /\ "feat" \in kinds -> "minor"
      [] OTHER -> "patch"

\* A title implies a release only if it starts with feat or fix.
BumpFromTitle(title) ==
    CASE title \in {"feat", "fix", "fixes", "breaking"} -> RecommendedBump({title})
      [] OTHER -> "none"

CalculateNewVersion(v, bump) ==
    CASE bump = "major" -> <<v[1] + 1, 0, 0>>
      [] bump = "minor" -> <<v[1], v[2] + 1, 0>>
      [] bump = "patch" -> <<v[1], v[2], v[3] + 1>>

\* Is there anything in the changelog?  The preset hides the types without a
\* section, unless they are breaking.
HasReleaseNotes(kinds) == kinds \ {"fixes", "other"} # {}

\* The version runRelease determines, if it releases at all.
VersionToRelease(tag, kinds) ==
    IF HasReleaseNotes(kinds)
    THEN CalculateNewVersion(tag.version, RecommendedBump(kinds))
    ELSE NoVersion

\* Mutant of ValidTitle: only the presence of conventional commits is compared.
FaultyValidTitle(kinds, title) ==
    HasReleaseNotes(kinds) <=> BumpFromTitle(title) # "none"

ValidTitle(kinds, title) ==
    IF HasReleaseNotes(kinds)
    THEN BumpFromTitle(title) = RecommendedBump(kinds)
    ELSE BumpFromTitle(title) = "none"

------------------------------------------------------------------------------
NoComment == [what |-> "none", version |-> NoVersion]
NoPull    == [state |-> "none", title |-> "other"]
NoCheck   == [pc |-> "none", work |-> {}, base |-> 0, tag |-> 0,
              version |-> NoVersion, valid |-> FALSE]
NoJob     == [pc |-> "idle", commit |-> 0, since |-> {}, version |-> NoVersion,
              next |-> 1]
\* What a checked pull request was told, when it is merged as it was checked.
NoPromise == [commit |-> 0, version |-> NoVersion, tag |-> 0]

Init ==
    /\ main = << >>
    /\ tags = {} /\ releases = {}
    /\ npm = [p \in Package |-> {}]
    /\ comment = [p \in Pull |-> NoComment]
    /\ pull = [p \in Pull |-> NoPull]
    /\ check = [p \in Pull |-> NoCheck]
    /\ job = NoJob
    /\ pending = 0 /\ failed = {}
    /\ promise = NoPromise
    /\ marred = FALSE
    /\ used = [faults |-> 0, reruns |-> 0]

------------------------------------------------------------------------------
(* Pushes and the queue of the workflow: on main one run at a time, which  *)
(* is never cancelled, and one that waits, which a later one replaces.     *)

\* Mutant of Enqueue: the run that waits is kept, and the new one dropped.
FaultyEnqueue(c, others) ==
    /\ pending' = IF pending = 0 THEN c ELSE pending
    /\ failed' = others \ {0, c}

Enqueue(c, others) ==
    /\ pending' = c
    /\ failed' = (others \cup {pending}) \ {0, c}

PushCommit(kind, from) ==
    /\ Len(main) < MaxCommits
    /\ main' = Append(main, [kind |-> kind, pulls |-> from])
    /\ Enqueue(Len(main) + 1, failed)
    /\ UNCHANGED <<tags, releases, npm, comment, job, marred, used>>

PushToMain(kind) ==
    /\ PushCommit(kind, {})
    /\ UNCHANGED <<pull, check, promise>>

\* The commit has the title of the pull request and names its number.
Merge(p) ==
    LET c == check[p]
        asChecked == c.pc = "done" /\ c.base = Len(main)
    IN /\ pull[p].state = "open"
       /\ PushCommit(pull[p].title, {p})
       /\ promise' = IF asChecked
                     THEN [commit |-> Len(main) + 1, version |-> c.version, tag |-> c.tag]
                     ELSE NoPromise
       /\ pull' = [pull EXCEPT ![p] = [NoPull EXCEPT !.state = "merged"]]
       /\ check' = [check EXCEPT ![p] = IF c.pc = "running" THEN c ELSE NoCheck]

\* Somebody starts a failed or cancelled run again.
Rerun(c) ==
    /\ used.reruns < MaxReruns /\ c \in failed
    /\ Enqueue(c, failed)
    /\ used' = [used EXCEPT !.reruns = @ + 1]
    /\ UNCHANGED <<main, tags, releases, npm, job, marred, pullVars>>

------------------------------------------------------------------------------
(* The run on main                                                         *)

Stop(others) ==
    /\ job' = NoJob
    /\ failed' = others

\* Steps 1 to 4 of runRelease: nothing else changes what they read.
Checkout ==
    /\ job.pc = "idle" /\ pending # 0
    /\ LET tag == GetLatestTag(pending)
           since == GetCommitsSince(tag, pending)
           version == VersionToRelease(tag, KindsOf(since))
       IN job' = IF since = {} \/ version = NoVersion THEN NoJob
                 ELSE [NoJob EXCEPT !.pc = "build", !.commit = pending,
                                    !.since = since, !.version = version]
    /\ pending' = 0
    /\ promise' = IF promise.commit = pending THEN NoPromise ELSE promise
    /\ UNCHANGED <<main, tags, releases, npm, failed, marred, used, comment, pull, check>>

Build ==
    /\ job.pc = "build"
    /\ job' = [job EXCEPT !.pc = "publish"]
    /\ UNCHANGED <<main, tags, releases, npm, pending, failed, marred, used, pullVars>>

Current == Order[job.next]

\* npm accepts a version once, and none that is not the newest without a tag.
Refused(p, v) == \E e \in npm[p] : ~Newer(v, e.version)

Upload == [npm EXCEPT ![Current] = @ \cup {[version |-> job.version, commit |-> job.commit]}]

\* Mutant of Published: the end of the list is missed.
FaultyPublished == [job EXCEPT !.next = @ + 1]

Published ==
    IF job.next = Len(Order) THEN [job EXCEPT !.pc = "tag"]
    ELSE [job EXCEPT !.next = @ + 1]

PublishToNpm ==
    /\ job.pc = "publish" /\ ~Refused(Current, job.version)
    /\ npm' = Upload
    /\ job' = Published
    /\ UNCHANGED <<main, tags, releases, pending, failed, marred, used, pullVars>>

\* Mutant of AfterRefusal: what the registry already has is taken for published.
FaultyAfterRefusal == job' = Published /\ UNCHANGED failed

\* A package that cannot be published ends the release.
AfterRefusal == Stop(failed \cup {job.commit})

PublishIsRefused ==
    /\ job.pc = "publish" /\ Refused(Current, job.version)
    /\ AfterRefusal
    /\ UNCHANGED <<main, tags, releases, npm, pending, marred, used, pullVars>>

PushGitTag ==
    /\ job.pc = "tag"
    /\ \A t \in tags : t.version # job.version
    /\ tags' = tags \cup {[version |-> job.version, commit |-> job.commit]}
    /\ job' = [job EXCEPT !.pc = "release"]
    /\ UNCHANGED <<main, releases, npm, pending, failed, marred, used, pullVars>>

CreateRelease ==
    /\ job.pc = "release"
    /\ releases' = releases \cup {job.version}
    /\ job' = [job EXCEPT !.pc = "comment"]
    /\ UNCHANGED <<main, tags, npm, pending, failed, marred, used, pullVars>>

\* Mutant of ExtractPRNumbers: the log is that of main, not of the release.
FaultyExtractPRNumbers(commits) == UNION {main[c].pulls : c \in Commits}

\* The pull requests the commits since the last tag name.
ExtractPRNumbers(commits) == UNION {main[c].pulls : c \in commits}

\* Each comment may fail, which is only logged.
CommentOnPRs(reached) ==
    /\ job.pc = "comment"
    /\ comment' = [p \in Pull |-> IF p \in reached
                                  THEN [what |-> "released", version |-> job.version]
                                  ELSE comment[p]]
    /\ Stop(failed \ {job.commit})
    /\ UNCHANGED <<main, tags, releases, npm, pull, check, promise, pending, marred>>

CommentOnAll == CommentOnPRs(ExtractPRNumbers(job.since)) /\ UNCHANGED used

------------------------------------------------------------------------------
(* What may fail                                                           *)

Fault ==
    /\ used.faults < MaxFaults
    /\ used' = [used EXCEPT !.faults = @ + 1]

\* Has the registry a package of the version while the tag is missing?
HalfReleased(published) ==
    \/ job.pc = "tag"
    \/ job.pc = "publish" /\ (job.next > 1 \/ published)

\* Mutant of AfterFailure: the failure to publish one package is only logged.
FaultyAfterFailure ==
    IF job.pc = "publish" THEN job' = Published /\ UNCHANGED failed
    ELSE Stop(failed \cup {job.commit})

AfterFailure == Stop(failed \cup {job.commit})

\* The build fails, the runner is lost, or npm fails: with or without effect.
FailRun(published) ==
    /\ job.pc # "idle" /\ Fault
    /\ published => job.pc = "publish" /\ ~Refused(Current, job.version)
    /\ npm' = IF published THEN Upload ELSE npm
    /\ marred' = (marred \/ HalfReleased(published))
    /\ AfterFailure
    /\ UNCHANGED <<main, tags, releases, pending, pullVars>>

\* A failed tag or release is only logged: "npm publish already succeeded".
AfterFailedRelease == job' = [job EXCEPT !.pc = "comment"] /\ UNCHANGED failed

FailRelease ==
    /\ job.pc \in {"tag", "release"} /\ Fault
    /\ marred' = (marred \/ job.pc = "tag")
    /\ AfterFailedRelease
    /\ UNCHANGED <<main, tags, releases, npm, pending, pullVars>>

FailComments ==
    /\ Fault
    /\ \E reached \in SUBSET ExtractPRNumbers(job.since) : CommentOnPRs(reached)

------------------------------------------------------------------------------
(* Pull requests: the title is validated, then the release is made dry.    *)

\* A pull request as its last edit left it: a new title or new commits start a
\* run and cancel the one that runs.
OpenPull(p, work, title) ==
    /\ pull[p].state = "none" /\ Len(main) < MaxCommits
    /\ pull' = [pull EXCEPT ![p] = [state |-> "open", title |-> title]]
    /\ check' = [check EXCEPT ![p] = [NoCheck EXCEPT !.pc = "queued", !.work = work]]
    /\ UNCHANGED <<main, tags, releases, npm, comment, promise, job, pending, failed,
                   marred, used>>

\* The checkout is the merge of the pull request with main.
StartCheck(p) ==
    LET base == Len(main)
        tag == GetLatestTag(base)
        kinds == KindsOf(GetCommitsSince(tag, base)) \cup check[p].work
    IN /\ check[p].pc = "queued" /\ pull[p].state = "open"
       /\ check' = [check EXCEPT ![p] =
              [pc |-> "running", work |-> {}, base |-> base, tag |-> tag.commit,
               version |-> VersionToRelease(tag, kinds),
               valid |-> ValidTitle(kinds, pull[p].title)]]
       /\ UNCHANGED <<main, tags, releases, npm, comment, pull, promise, job, pending,
                      failed, marred, used>>

\* A title that is not valid ends the run before the release is made dry.
\* The comment of the bot is updated, whatever it says.
FinishCheck(p) ==
    LET c == check[p]
    IN /\ c.pc = "running"
       /\ check' = [check EXCEPT ![p] = IF c.valid /\ pull[p].state = "open"
                                       THEN [c EXCEPT !.pc = "done"] ELSE NoCheck]
       /\ comment' = IF ~c.valid THEN comment
                     ELSE [comment EXCEPT ![p] =
                              [what |-> IF c.version = NoVersion THEN "noRelease" ELSE "preview",
                               version |-> c.version]]
       /\ UNCHANGED <<main, tags, releases, npm, pull, promise, job, pending, failed,
                      marred, used>>

------------------------------------------------------------------------------
Job == Checkout \/ Build \/ PublishToNpm \/ PublishIsRefused \/ PushGitTag
       \/ CreateRelease \/ CommentOnAll

Failures == (\E published \in BOOLEAN : FailRun(published)) \/ FailRelease \/ FailComments

PullRequests ==
    \E p \in Pull :
        \/ \E work \in {{k} : k \in Kinds} : \E title \in Kinds : OpenPull(p, work, title)
        \/ StartCheck(p) \/ FinishCheck(p) \/ Merge(p)

Developers == (\E k \in Kinds : PushToMain(k)) \/ (\E c \in failed : Rerun(c))

Next == Job \/ Failures \/ PullRequests \/ Developers

\* GitHub starts what is queued, and a run goes on until it ends.
Fairness == WF_vars(Job)

Spec == Init /\ [][Next]_vars /\ Fairness
==============================================================================
