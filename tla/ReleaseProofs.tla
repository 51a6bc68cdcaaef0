---------------------------- MODULE ReleaseProofs ----------------------------
(***************************************************************************)
(* Proofs of the safety properties of Release, for any list of packages,   *)
(* any set of pull requests and any bounds.                                *)
(***************************************************************************)
EXTENDS ReleaseProperties, WellFoundedInduction, TLAPS

\* A version is not above the commit it was made of: every release raises one
\* number by one, and has a later commit than the last one.
VersionUpTo(n) == {<<i, j, k>> : i, j, k \in 0..n}

Commit == [kind : CommitKinds, pulls : SUBSET Pull]

\* What the job publishes, and what a tag of it says.
Built == [version |-> job.version, commit |-> job.commit]

\* Builds and tags name a commit of main and a version that goes with it.
GoodBuild(b) ==
    /\ b = [version |-> b.version, commit |-> b.commit]
    /\ b.commit \in 1..Len(main)
    /\ b.version \in VersionUpTo(b.commit)

MainTyped ==
    /\ main \in Seq(Commit) /\ Len(main) <= MaxCommits
    /\ pending \in 0..Len(main) /\ failed \subseteq 0..Len(main)

BuildsTyped ==
    /\ \A t \in tags : GoodBuild(t)
    /\ npm = [p \in Package |-> npm[p]]
    /\ \A p \in Package : \A b \in npm[p] : GoodBuild(b)
    /\ releases \subseteq Version

JobTyped ==
    /\ job \in [pc : {"idle", "build", "publish", "tag", "release", "comment"},
                commit : 0..Len(main), since : SUBSET (1..job.commit),
                version : VersionUpTo(job.commit), next : DOMAIN Order]
    /\ job.pc # "idle" => job.commit >= 1
    /\ job.pc = "build" => job.next = 1

PullsTyped ==
    /\ comment \in [Pull -> [what : {"none", "noRelease", "preview", "released"},
                             version : Version]]
    /\ pull \in [Pull -> [state : {"none", "open", "merged"}, title : CommitKinds]]
    /\ check \in [Pull -> [pc : {"none", "queued", "running", "done"},
                           work : SUBSET CommitKinds, base : 0..Len(main),
                           tag : 0..Len(main), version : Version, valid : BOOLEAN]]
    /\ promise \in [commit : 0..Len(main), version : Version, tag : 0..Len(main)]

HistoryTyped == marred \in BOOLEAN /\ used \in [faults : Nat, reruns : Nat]

Typed == MainTyped /\ BuildsTyped /\ JobTyped /\ PullsTyped /\ HistoryTyped

-----------------------------------------------------------------------------
(* The strengthening of the three invariants of the registry.              *)

\* The first package takes the version: what any package has, the first has,
\* and no two builds of the first have one version.
FirstTakesVersion ==
    /\ \A p \in Package : npm[p] \subseteq npm[Order[1]]
    /\ \A d, e \in npm[Order[1]] : d.version = e.version => d = e

HasPublished(i) ==
    job.pc \in {"tag", "release", "comment"} \/ (job.pc = "publish" /\ i < job.next)

JobHasPublished == \A i \in DOMAIN Order : HasPublished(i) => Built \in npm[Order[i]]

ReleaseInv ==
    Typed /\ FirstTakesVersion /\ JobHasPublished
    /\ TaggedReleaseIsWhole /\ ReleasedCommentIsTrue

-----------------------------------------------------------------------------
(* The strengthening of PreviewIsKept.                                     *)

\* A commit is tagged once, and the job is at a commit without a tag until it
\* makes one.
TaggedOnce ==
    /\ \A t, u \in tags : t.commit = u.commit => t = u
    /\ job.pc \in {"build", "publish", "tag"} => \A t \in tags : t.commit # job.commit

\* The tag that was the last one when a check started: it is still there.
TagAt(commit, version) ==
    \/ commit = 0 /\ version = NoVersion
    \/ [version |-> version, commit |-> commit] \in tags

FromTag(commit, version, kinds) ==
    VersionToRelease([version |-> version, commit |-> commit], kinds)

\* The version is that of the commits since the tag together with those of the
\* pull request; the title was compared with all of them.
FoundFrom(p, v, kinds) ==
    /\ TagAt(check[p].tag, v)
    /\ check[p].version = FromTag(check[p].tag, v, kinds)
    /\ KindsOf((check[p].tag + 1)..check[p].base) \subseteq kinds
    /\ pull[p].state = "open" => check[p].valid = ValidTitle(kinds, pull[p].title)

CheckIsTrue(p) ==
    check[p].pc \in {"running", "done"} =>
        /\ check[p].tag <= check[p].base
        /\ \E v \in Version, kinds \in SUBSET CommitKinds : FoundFrom(p, v, kinds)
        /\ check[p].pc = "done" => check[p].valid

\* What a pull request with the title was told, and what its release makes.
Announced(title, told, made) ==
    \/ told = made
    \/ title \in {"perf", "otherBreaking"} /\ told = NoVersion
    \/ title = "fixes" /\ made = NoVersion

\* The version goes with that of the commits since the tag, the merged one included.
PromiseIsTrue ==
    promise.commit # 0 =>
        /\ promise.tag < promise.commit
        /\ \E v \in Version :
              /\ TagAt(promise.tag, v)
              /\ Announced(main[promise.commit].kind, promise.version,
                    FromTag(promise.tag, v, KindsOf((promise.tag + 1)..promise.commit)))

PreviewInv ==
    Typed /\ TaggedOnce /\ (\A p \in Pull : CheckIsTrue(p)) /\ PromiseIsTrue

-----------------------------------------------------------------------------
(* Versions, commits and tags.                                             *)

LEMMA NoVersionIsVersion == \A n \in Nat : NoVersion \in VersionUpTo(n)
BY DEF NoVersion, VersionUpTo

LEMMA VersionsGrow ==
    ASSUME NEW m \in Nat, NEW n \in Nat, m <= n
    PROVE  VersionUpTo(m) \subseteq VersionUpTo(n)
<1> SUFFICES ASSUME NEW i \in 0..m, NEW j \in 0..m, NEW k \in 0..m
             PROVE  <<i, j, k>> \in VersionUpTo(n)
  BY DEF VersionUpTo
<1>1. i \in 0..n /\ j \in 0..n /\ k \in 0..n
  OBVIOUS
<1> QED BY <1>1 DEF VersionUpTo

\* The versions of the type invariant.
LEMMA VersionIsVersion ==
    ASSUME NEW n \in Nat, n <= MaxCommits + 1
    PROVE  VersionUpTo(n) \subseteq Version
<1>1. VersionUpTo(MaxCommits + 1) = Version
  BY DEF VersionUpTo, Version
<1> QED BY <1>1, VersionsGrow, ReleaseAssumption

\* A release raises a number by one.
LEMMA NewVersionType ==
    ASSUME NEW n \in Nat, NEW v \in VersionUpTo(n), NEW kinds
    PROVE  CalculateNewVersion(v, RecommendedBump(kinds)) \in VersionUpTo(n + 1)
<1>1. PICK i, j, k \in 0..n : v = <<i, j, k>>
  BY DEF VersionUpTo
<1>2. {i, j, k, i + 1, j + 1, k + 1, 0} \subseteq 0..(n + 1)
  OBVIOUS
<1>3. RecommendedBump(kinds) \in {"major", "minor", "patch"}
  BY DEF RecommendedBump
<1>4. CalculateNewVersion(v, RecommendedBump(kinds)) \in
         {<<i + 1, 0, 0>>, <<i, j + 1, 0>>, <<i, j, k + 1>>}
  BY <1>1, <1>3 DEF CalculateNewVersion
<1> QED BY <1>2, <1>4 DEF VersionUpTo

\* What a run determines to release after a tag of commit n, if anything.
LEMMA VersionToReleaseType ==
    ASSUME NEW n \in Nat, NEW tag, tag.version \in VersionUpTo(n), NEW kinds
    PROVE  VersionToRelease(tag, kinds) \in VersionUpTo(n + 1)
BY NewVersionType, NoVersionIsVersion DEF VersionToRelease

\* No version is newer than itself.
LEMMA NewerIrreflexive ==
    ASSUME NEW n \in Nat, NEW v \in VersionUpTo(n)
    PROVE  ~Newer(v, v)
BY DEF VersionUpTo, Newer

\* A set of numbers with an upper bound has a greatest one.
LEMMA GreatestExists ==
    ASSUME NEW n \in Nat, NEW S \in SUBSET (0..n), S # {}
    PROVE  \E x \in S : \A y \in S : y <= x
<1> DEFINE T == {n - x : x \in S}
<1>1. T \subseteq Nat /\ T # {}
  <2>1. \A x \in S : n - x \in Nat
    OBVIOUS
  <2> QED BY <2>1
<1>2. PICK m \in T : \A y \in T : ~(<<y, m>> \in OpToRel(<, Nat))
  BY <1>1, WFMin, NatLessThanWellFounded, Zenon
<1>3. \A y \in T : ~(y < m)
  BY <1>1, <1>2 DEF OpToRel
<1>4. PICK x \in S : m = n - x
  OBVIOUS
<1>5. ASSUME NEW y \in S PROVE y <= x
  <2>1. n - y \in T
    OBVIOUS
  <2>2. ~(n - y < n - x)
    BY <1>3, <1>4, <2>1
  <2> QED BY <2>2
<1> QED BY <1>5

\* What git describe finds: the tag of the latest tagged commit, if there is one.
IsLatestTag(tag, head) ==
    /\ tag = [version |-> tag.version, commit |-> tag.commit]
    /\ tag.commit \in 0..head /\ tag.version \in VersionUpTo(tag.commit)
    /\ TagAt(tag.commit, tag.version)
    /\ tag.commit # 0 => tag \in tags
    /\ \A t \in tags : t.commit <= head => t.commit <= tag.commit

\* GetLatestTag finds one: there are finitely many commits.
LEMMA LatestTag ==
    ASSUME Typed, NEW head \in 0..Len(main)
    PROVE  IsLatestTag(GetLatestTag(head), head)
<1> DEFINE reachable == {t \in tags : t.commit <= head}
           Latest(t) == \A u \in reachable : u.commit <= t.commit
           tag == GetLatestTag(head)
<1>0. Len(main) \in Nat
  BY DEF Typed, MainTyped
<1>1. CASE reachable = {}
  <2>1. tag = [version |-> NoVersion, commit |-> 0]
    BY <1>1 DEF GetLatestTag
  <2> HIDE DEF tag
  <2>2. IsLatestTag(tag, head)
    BY <1>0, <1>1, <2>1, NoVersionIsVersion DEF IsLatestTag, TagAt
  <2> QED BY <2>2 DEF tag
<1>2. CASE reachable # {}
  <2> DEFINE commits == {t.commit : t \in reachable}
  <2>1. \A t \in reachable : t.commit \in 0..head
    BY <1>0 DEF Typed, BuildsTyped, GoodBuild
  <2>2. \E c \in commits : \A d \in commits : d <= c
    <3> HIDE DEF reachable
    <3>1. commits \in SUBSET (0..head) /\ commits # {}
      BY <1>2, <2>1
    <3>2. head \in Nat
      BY <1>0
    <3> HIDE DEF commits
    <3> QED BY <3>1, <3>2, GreatestExists
  <2>3. \E t \in reachable : Latest(t)
    BY <2>2
  <2>4. tag = CHOOSE t \in reachable : Latest(t)
    BY <1>2 DEF GetLatestTag
  <2> HIDE DEF tag
  <2>5. tag \in reachable /\ Latest(tag)
    <3> HIDE DEF reachable, Latest
    <3> QED BY <2>3, <2>4
  <2>6. GoodBuild(tag)
    BY <2>5 DEF Typed, BuildsTyped
  <2>7. IsLatestTag(tag, head)
    BY <1>0, <2>1, <2>5, <2>6 DEF GoodBuild, IsLatestTag, TagAt
  <2> QED BY <2>7 DEF tag
<1> QED BY <1>1, <1>2

LEMMA CommitType ==
    ASSUME Typed, NEW c \in 1..Len(main)
    PROVE  main[c] \in Commit /\ main[c].kind \in CommitKinds /\ main[c].pulls \subseteq Pull
<1>1. main[c] \in Commit
  BY DEF Typed, MainTyped
<1> QED BY <1>1 DEF Commit

-----------------------------------------------------------------------------
(* Types: what an action leaves alone stays well typed when main grows.    *)

MainGrows == Len(main) \in Nat /\ Len(main') \in Nat /\ Len(main) <= Len(main')

LEMMA BuildsKept ==
    ASSUME BuildsTyped, MainGrows, UNCHANGED <<tags, npm, releases>>
    PROVE  BuildsTyped'
BY DEF BuildsTyped, MainGrows, GoodBuild

LEMMA JobKept ==
    ASSUME JobTyped, MainGrows, UNCHANGED job
    PROVE  JobTyped'
BY DEF JobTyped, MainGrows

LEMMA PullsKept ==
    ASSUME PullsTyped, MainGrows, UNCHANGED pullVars
    PROVE  PullsTyped'
<1>1. 0..Len(main) \subseteq 0..Len(main')
  BY DEF MainGrows
<1> QED BY <1>1 DEF PullsTyped, pullVars

LEMMA MainKept ==
    ASSUME Typed, UNCHANGED main
    PROVE  MainGrows
BY DEF Typed, MainTyped, MainGrows

\* A push appends one commit, queues its run, and leaves the builds alone.
LEMMA PushCommitTyped ==
    ASSUME Typed, NEW kind \in CommitKinds, NEW from \in SUBSET Pull,
           PushCommit(kind, from)
    PROVE  /\ MainGrows /\ Len(main') = Len(main) + 1
           /\ MainTyped' /\ BuildsTyped' /\ JobTyped' /\ HistoryTyped'
           /\ \A c \in Commits : main'[c] = main[c]
           /\ main'[Len(main) + 1] = [kind |-> kind, pulls |-> from]
<1> DEFINE new == [kind |-> kind, pulls |-> from]
<1>1. new \in Commit
  BY DEF Commit
<1>2. main \in Seq(Commit) /\ Len(main) \in Nat /\ Len(main) < MaxCommits
      /\ MaxCommits \in Nat
  BY ReleaseAssumption DEF PushCommit, Typed, MainTyped
<1>3. main' = Append(main, new)
  BY DEF PushCommit
<1>4. /\ main' \in Seq(Commit) /\ Len(main') = Len(main) + 1
      /\ \A c \in 1..Len(main) : main'[c] = main[c]
      /\ main'[Len(main) + 1] = new
  BY <1>1, <1>2, <1>3
<1>5. MainGrows
  BY <1>2, <1>4 DEF MainGrows
<1>6. MainTyped'
  <2>1. pending' = Len(main) + 1 /\ failed' \subseteq failed \cup {pending}
    BY DEF PushCommit, Enqueue
  <2>2. pending \in 0..Len(main) /\ failed \subseteq 0..Len(main)
    BY DEF Typed, MainTyped
  <2> QED BY <1>2, <1>4, <2>1, <2>2 DEF MainTyped
<1>7. BuildsTyped' /\ JobTyped' /\ HistoryTyped'
  BY <1>5, BuildsKept, JobKept DEF PushCommit, Typed, HistoryTyped
<1> QED BY <1>4, <1>5, <1>6, <1>7 DEF Commits

LEMMA PushToMainTyped ==
    ASSUME Typed, NEW kind \in Kinds, PushToMain(kind)
    PROVE  Typed'
<1>1. kind \in CommitKinds /\ {} \in SUBSET Pull /\ PushCommit(kind, {})
  BY ReleaseAssumption DEF PushToMain
<1>2. UNCHANGED pullVars
  BY DEF PushToMain, PushCommit, pullVars
<1> QED BY <1>1, <1>2, PushCommitTyped, PullsKept DEF Typed

LEMMA MergeTyped ==
    ASSUME Typed, NEW p \in Pull, Merge(p)
    PROVE  Typed'
<1>1. /\ pull[p].title \in CommitKinds /\ {p} \in SUBSET Pull
      /\ PushCommit(pull[p].title, {p})
  BY DEF Merge, Typed, PullsTyped
<1>2. /\ MainGrows /\ Len(main') = Len(main) + 1
      /\ MainTyped' /\ BuildsTyped' /\ JobTyped' /\ HistoryTyped'
  BY <1>1, PushCommitTyped
<1>3. /\ 0..Len(main) \subseteq 0..Len(main') /\ 0 \in 0..Len(main')
      /\ Len(main) + 1 \in 0..Len(main')
  BY <1>2 DEF MainGrows
<1>4. NoVersion \in Version
  BY NoVersionIsVersion, VersionIsVersion, ReleaseAssumption
<1>5. comment' = comment
  BY <1>1 DEF PushCommit
<1>6. pull' \in [Pull -> [state : {"none", "open", "merged"}, title : CommitKinds]]
  BY DEF Merge, Typed, PullsTyped, NoPull, CommitKinds
<1>7. check' \in [Pull -> [pc : {"none", "queued", "running", "done"},
                           work : SUBSET CommitKinds, base : 0..Len(main'),
                           tag : 0..Len(main'), version : Version, valid : BOOLEAN]]
  BY <1>3, <1>4 DEF Merge, Typed, PullsTyped, NoCheck
<1>8. promise' \in [commit : 0..Len(main'), version : Version, tag : 0..Len(main')]
  BY <1>3, <1>4 DEF Merge, Typed, PullsTyped, NoPromise
<1> QED BY <1>2, <1>3, <1>5, <1>6, <1>7, <1>8 DEF Typed, PullsTyped

LEMMA RerunTyped ==
    ASSUME Typed, NEW c \in failed, Rerun(c)
    PROVE  Typed'
<1>1. MainGrows
  BY MainKept DEF Rerun
<1>2. BuildsTyped' /\ JobTyped' /\ PullsTyped'
  BY <1>1, BuildsKept, JobKept, PullsKept DEF Rerun, Typed
<1>3. MainTyped'
  BY DEF Rerun, Enqueue, Typed, MainTyped
<1>4. HistoryTyped'
  BY DEF Rerun, Typed, HistoryTyped
<1> QED BY <1>2, <1>3, <1>4 DEF Typed

-----------------------------------------------------------------------------
(* Types: the job.                                                         *)

LEMMA NoJobTyped ==
    ASSUME Typed, job' = NoJob, UNCHANGED main
    PROVE  JobTyped'
<1>1. 1 \in DOMAIN Order /\ 0 \in 0..Len(main)
  BY ReleaseAssumption DEF Typed, MainTyped
<1>2. NoVersion \in VersionUpTo(0) /\ {} \in SUBSET (1..0)
  BY NoVersionIsVersion
<1>3. job'.commit = 0
  BY DEF NoJob
<1> QED BY <1>1, <1>2, <1>3 DEF JobTyped, NoJob

\* What Checkout makes of the job, as far as it releases anything.
LEMMA CheckoutFrame ==
    ASSUME Typed, Checkout
    PROVE  /\ pending \in 1..Len(main)
           /\ IsLatestTag(GetLatestTag(pending), pending)
           /\ LET tag == GetLatestTag(pending)
                  since == (tag.commit + 1)..pending
                  version == VersionToRelease(tag, KindsOf(since))
              IN  /\ version \in VersionUpTo(pending)
                  /\ \/ job' = NoJob /\ (since = {} \/ version = NoVersion)
                     \/ /\ since # {} /\ tag.commit < pending
                        /\ job' = [pc |-> "build", commit |-> pending, since |-> since,
                                   version |-> version, next |-> 1]
<1> DEFINE tag == GetLatestTag(pending)
           since == (tag.commit + 1)..pending
           version == VersionToRelease(tag, KindsOf(since))
<1>1. pending \in 1..Len(main) /\ Len(main) \in Nat
  BY DEF Checkout, Typed, MainTyped
<1>2. IsLatestTag(tag, pending)
  BY <1>1, LatestTag
<1>3. \/ job' = NoJob /\ (since = {} \/ version = NoVersion)
      \/ /\ since # {} /\ version # NoVersion
         /\ job' = [pc |-> "build", commit |-> pending, since |-> since,
                    version |-> version, next |-> 1]
  BY DEF Checkout, GetCommitsSince, NoJob
<1> HIDE DEF tag
<1>4. tag.commit \in 0..pending /\ tag.version \in VersionUpTo(tag.commit)
  BY <1>2 DEF IsLatestTag
<1>5. since # {} => tag.commit < pending
  BY <1>1, <1>4
<1>6. version \in VersionUpTo(pending)
  <2>1. version = NoVersion => version \in VersionUpTo(pending)
    BY <1>1, NoVersionIsVersion
  <2>2. since = {} => version = NoVersion
    <3>1. since = {} => KindsOf(since) = {}
      BY DEF KindsOf
    <3> QED BY <3>1 DEF VersionToRelease, HasReleaseNotes
  <2>3. ASSUME since # {} PROVE version \in VersionUpTo(pending)
    <3>1. version \in VersionUpTo(tag.commit + 1)
      BY <1>4, VersionToReleaseType
    <3>2. tag.commit + 1 \in Nat /\ tag.commit + 1 <= pending /\ pending \in Nat
      BY <1>1, <1>4, <1>5, <2>3
    <3> QED BY <3>1, <3>2, VersionsGrow
  <2> QED BY <2>1, <2>2, <2>3
<1> QED BY <1>1, <1>2, <1>3, <1>5, <1>6 DEF tag

LEMMA CheckoutTyped ==
    ASSUME Typed, Checkout
    PROVE  Typed'
<1>1. MainGrows /\ UNCHANGED main
  BY MainKept DEF Checkout
<1>2. BuildsTyped' /\ HistoryTyped'
  BY <1>1, BuildsKept DEF Checkout, Typed, HistoryTyped
<1>3. MainTyped'
  BY DEF Checkout, Typed, MainTyped
<1>4. PullsTyped'
  <2>1. NoVersion \in Version /\ 0 \in 0..Len(main)
    BY NoVersionIsVersion, VersionIsVersion, ReleaseAssumption DEF Typed, MainTyped
  <2>2. promise' \in {promise, NoPromise} /\ UNCHANGED <<main, comment, pull, check>>
    BY DEF Checkout
  <2> QED BY <2>1, <2>2 DEF Typed, PullsTyped, NoPromise
<1>5. JobTyped'
  <2>1. CASE job' = NoJob
    BY <1>1, <2>1, NoJobTyped
  <2>2. CASE job' # NoJob
    <3> DEFINE tag == GetLatestTag(pending)
               since == (tag.commit + 1)..pending
               version == VersionToRelease(tag, KindsOf(since))
    <3>1. /\ pending \in 1..Len(main) /\ version \in VersionUpTo(pending)
          /\ IsLatestTag(tag, pending)
          /\ job' = [pc |-> "build", commit |-> pending, since |-> since,
                     version |-> version, next |-> 1]
      BY <2>2, CheckoutFrame
    <3> HIDE DEF version, tag
    <3>2. tag.commit \in 0..pending
      BY <3>1 DEF IsLatestTag
    <3>3. since \in SUBSET (1..pending)
      BY <3>1, <3>2
    <3>4. 1 \in DOMAIN Order /\ Len(main) \in Nat
      BY ReleaseAssumption DEF Typed, MainTyped
    <3> HIDE DEF since
    <3>5. job'.commit = pending
      BY <3>1
    <3> QED BY <1>1, <3>1, <3>3, <3>4, <3>5 DEF JobTyped
  <2> QED BY <2>1, <2>2
<1> QED BY <1>2, <1>3, <1>4, <1>5 DEF Typed

\* The other steps of the run leave main and the pull requests alone; what is
\* left to show is the job and what it builds.
LEMMA RunTyped ==
    ASSUME Typed, UNCHANGED <<main, pending, pullVars>>,
           failed' \subseteq failed \cup {job.commit}, BuildsTyped', JobTyped', HistoryTyped'
    PROVE  Typed'
<1>1. MainGrows
  BY MainKept
<1>2. PullsTyped'
  BY <1>1, PullsKept DEF Typed
<1>3. MainTyped'
  BY DEF Typed, MainTyped, JobTyped
<1> QED BY <1>2, <1>3 DEF Typed

\* The job moves on, and publishes what it publishes.
LEMMA JobMoves ==
    ASSUME Typed, UNCHANGED main, NEW pc \in {"publish", "tag", "release", "comment"},
           job.pc # "idle", NEW next \in DOMAIN Order,
           job' = [job EXCEPT !.pc = pc, !.next = next]
    PROVE  JobTyped'
BY DEF Typed, JobTyped

LEMMA BuiltIsGood ==
    ASSUME Typed, job.pc # "idle"
    PROVE  GoodBuild(Built)
<1>1. job.commit \in 1..Len(main)
  BY DEF Typed, JobTyped, MainTyped
<1> QED BY <1>1 DEF Typed, JobTyped, GoodBuild, Built

LEMMA PublishedMoves ==
    ASSUME Typed, UNCHANGED main, job.pc = "publish", job' = Published
    PROVE  JobTyped'
<1>1. CASE job.next = Len(Order)
  <2>1. job' = [job EXCEPT !.pc = "tag", !.next = job.next] /\ job.next \in DOMAIN Order
    BY <1>1 DEF Published, Typed, JobTyped
  <2> QED BY <2>1, JobMoves
<1>2. CASE job.next # Len(Order)
  <2>1. job.next + 1 \in DOMAIN Order
    BY <1>2, ReleaseAssumption DEF Typed, JobTyped
  <2>2. job' = [job EXCEPT !.pc = "publish", !.next = job.next + 1]
    BY <1>2 DEF Published, Typed, JobTyped
  <2> QED BY <2>1, <2>2, JobMoves
<1> QED BY <1>1, <1>2

\* What the registry has after an upload.
LEMMA UploadAdds ==
    ASSUME Typed, job.pc # "idle", npm' = Upload
    PROVE  /\ npm' = [p \in Package |-> npm'[p]] /\ Current \in Package
           /\ npm'[Current] = npm[Current] \cup {Built}
           /\ \A p \in Package : p # Current => npm'[p] = npm[p]
BY DEF Typed, BuildsTyped, JobTyped, Upload, Current, Package, Built

LEMMA UploadTyped ==
    ASSUME Typed, job.pc # "idle", npm' = Upload, UNCHANGED <<main, tags, releases>>
    PROVE  BuildsTyped'
<1>1. \A b : GoodBuild(b)' <=> GoodBuild(b)
  BY DEF GoodBuild
<1> QED BY <1>1, UploadAdds, BuiltIsGood DEF Typed, BuildsTyped

LEMMA BuildTyped ==
    ASSUME Typed, Build
    PROVE  Typed'
<1>1. job' = [job EXCEPT !.pc = "publish", !.next = job.next] /\ job.next \in DOMAIN Order
  BY DEF Build, Typed, JobTyped
<1>2. JobTyped'
  BY <1>1, JobMoves DEF Build
<1>3. BuildsTyped' /\ HistoryTyped'
  BY MainKept, BuildsKept DEF Build, Typed, HistoryTyped
<1> QED BY <1>2, <1>3, RunTyped DEF Build

LEMMA PublishToNpmTyped ==
    ASSUME Typed, PublishToNpm
    PROVE  Typed'
<1>1. JobTyped' /\ BuildsTyped'
  BY PublishedMoves, UploadTyped DEF PublishToNpm
<1>2. HistoryTyped'
  BY DEF PublishToNpm, Typed, HistoryTyped
<1> QED BY <1>1, <1>2, RunTyped DEF PublishToNpm

LEMMA PublishIsRefusedTyped ==
    ASSUME Typed, PublishIsRefused
    PROVE  Typed'
<1>1. JobTyped' /\ BuildsTyped' /\ HistoryTyped'
  BY NoJobTyped, MainKept, BuildsKept
  DEF PublishIsRefused, AfterRefusal, Stop, Typed, HistoryTyped
<1> QED BY <1>1, RunTyped DEF PublishIsRefused, AfterRefusal, Stop

LEMMA PushGitTagTyped ==
    ASSUME Typed, PushGitTag
    PROVE  Typed'
<1>1. job' = [job EXCEPT !.pc = "release", !.next = job.next] /\ job.next \in DOMAIN Order
  BY DEF PushGitTag, Typed, JobTyped
<1>2. JobTyped'
  BY <1>1, JobMoves DEF PushGitTag
<1>3. BuildsTyped'
  <2>1. \A b : GoodBuild(b)' <=> GoodBuild(b)
    BY DEF GoodBuild, PushGitTag
  <2>2. tags' = tags \cup {Built} /\ GoodBuild(Built)
    BY BuiltIsGood DEF PushGitTag, Built
  <2> QED BY <2>1, <2>2 DEF PushGitTag, Typed, BuildsTyped
<1>4. HistoryTyped'
  BY DEF PushGitTag, Typed, HistoryTyped
<1> QED BY <1>2, <1>3, <1>4, RunTyped DEF PushGitTag

LEMMA CreateReleaseTyped ==
    ASSUME Typed, CreateRelease
    PROVE  Typed'
<1>1. job' = [job EXCEPT !.pc = "comment", !.next = job.next] /\ job.next \in DOMAIN Order
  BY DEF CreateRelease, Typed, JobTyped
<1>2. JobTyped'
  BY <1>1, JobMoves DEF CreateRelease
<1>3. job.version \in Version
  BY VersionIsVersion, ReleaseAssumption DEF Typed, JobTyped, MainTyped
<1>4. BuildsTyped' /\ HistoryTyped'
  BY <1>3 DEF CreateRelease, Typed, BuildsTyped, GoodBuild, HistoryTyped
<1> QED BY <1>2, <1>4, RunTyped DEF CreateRelease

LEMMA CommentTyped ==
    ASSUME Typed, NEW reached \in SUBSET Pull, CommentOnPRs(reached), HistoryTyped'
    PROVE  Typed'
<1>1. MainGrows /\ JobTyped' /\ BuildsTyped'
  BY NoJobTyped, MainKept, BuildsKept DEF CommentOnPRs, Stop, Typed
<1>2. MainTyped'
  <2>1. failed' \subseteq failed /\ UNCHANGED <<main, pending>>
    BY DEF CommentOnPRs, Stop
  <2> QED BY <2>1 DEF Typed, MainTyped
<1>3. job.version \in Version
  BY VersionIsVersion, ReleaseAssumption DEF Typed, JobTyped, MainTyped
<1>4. PullsTyped'
  BY <1>3 DEF CommentOnPRs, Typed, PullsTyped
<1> QED BY <1>1, <1>2, <1>4 DEF Typed

\* The pull requests that a release mentions are pull requests.
LEMMA ExtractedArePulls ==
    ASSUME Typed
    PROVE  ExtractPRNumbers(job.since) \subseteq Pull
<1>1. \A c \in job.since : main[c].pulls \subseteq Pull
  <2>1. job.since \subseteq 1..Len(main)
    BY DEF Typed, JobTyped, MainTyped
  <2> QED BY <2>1, CommitType
<1> QED BY <1>1 DEF ExtractPRNumbers

LEMMA FailRunTyped ==
    ASSUME Typed, NEW published \in BOOLEAN, FailRun(published)
    PROVE  Typed'
<1>1. JobTyped'
  BY NoJobTyped DEF FailRun, AfterFailure, Stop
<1>2. BuildsTyped'
  BY UploadTyped, MainKept, BuildsKept DEF FailRun, Typed
<1>3. HistoryTyped'
  BY DEF FailRun, Fault, HalfReleased, Typed, HistoryTyped
<1> QED BY <1>1, <1>2, <1>3, RunTyped DEF FailRun, AfterFailure, Stop

LEMMA FailReleaseTyped ==
    ASSUME Typed, FailRelease
    PROVE  Typed'
<1>1. job' = [job EXCEPT !.pc = "comment", !.next = job.next] /\ job.next \in DOMAIN Order
  BY DEF FailRelease, AfterFailedRelease, Typed, JobTyped
<1>2. JobTyped'
  BY <1>1, JobMoves DEF FailRelease
<1>3. BuildsTyped'
  BY MainKept, BuildsKept DEF FailRelease, Typed
<1>4. HistoryTyped'
  BY DEF FailRelease, Fault, Typed, HistoryTyped
<1> QED BY <1>2, <1>3, <1>4, RunTyped DEF FailRelease, AfterFailedRelease

-----------------------------------------------------------------------------
(* Types: the pull requests.                                               *)

LEMMA PullsMove ==
    ASSUME Typed, PullsTyped',
           UNCHANGED <<main, tags, releases, npm, job, pending, failed, marred, used>>
    PROVE  Typed'
<1>1. BuildsTyped' /\ JobTyped'
  BY MainKept, BuildsKept, JobKept DEF Typed
<1>2. MainTyped' /\ HistoryTyped'
  BY DEF Typed, MainTyped, HistoryTyped
<1> QED BY <1>1, <1>2 DEF Typed

LEMMA OpenPullTyped ==
    ASSUME Typed, NEW p \in Pull, NEW k \in Kinds, NEW title \in Kinds,
           OpenPull(p, {k}, title)
    PROVE  Typed'
<1>1. {k} \in SUBSET CommitKinds /\ title \in CommitKinds
  BY ReleaseAssumption
<1>2. NoVersion \in Version /\ 0 \in 0..Len(main)
  BY NoVersionIsVersion, VersionIsVersion, ReleaseAssumption DEF Typed, MainTyped
<1>3. PullsTyped'
  BY <1>1, <1>2 DEF OpenPull, Typed, PullsTyped, NoCheck
<1> QED BY <1>3, PullsMove DEF OpenPull

\* What a check finds when it starts.
LEMMA StartCheckFrame ==
    ASSUME Typed, NEW p \in Pull, StartCheck(p)
    PROVE  /\ Len(main) \in 0..Len(main) /\ pull[p].state = "open"
           /\ IsLatestTag(GetLatestTag(Len(main)), Len(main))
           /\ LET tag == GetLatestTag(Len(main))
                  kinds == KindsOf((tag.commit + 1)..Len(main)) \cup check[p].work
              IN  /\ kinds \subseteq CommitKinds
                  /\ VersionToRelease(tag, kinds) \in Version
                  /\ check' = [check EXCEPT ![p] =
                        [pc |-> "running", work |-> {}, base |-> Len(main), tag |-> tag.commit,
                         version |-> VersionToRelease(tag, kinds),
                         valid |-> ValidTitle(kinds, pull[p].title)]]
<1> DEFINE tag == GetLatestTag(Len(main))
           kinds == KindsOf((tag.commit + 1)..Len(main)) \cup check[p].work
<1>1. Len(main) \in 0..Len(main) /\ Len(main) + 1 <= MaxCommits + 1 /\ MaxCommits \in Nat
  BY ReleaseAssumption DEF Typed, MainTyped
<1>2. IsLatestTag(tag, Len(main))
  BY <1>1, LatestTag
<1>3. /\ pull[p].state = "open"
      /\ check' = [check EXCEPT ![p] =
            [pc |-> "running", work |-> {}, base |-> Len(main), tag |-> tag.commit,
             version |-> VersionToRelease(tag, kinds),
             valid |-> ValidTitle(kinds, pull[p].title)]]
  BY DEF StartCheck, GetCommitsSince
<1> HIDE DEF tag
<1>4. tag.commit \in 0..Len(main) /\ tag.version \in VersionUpTo(tag.commit)
  BY <1>2 DEF IsLatestTag
<1>5. kinds \subseteq CommitKinds
  <2>1. \A c \in (tag.commit + 1)..Len(main) : main[c].kind \in CommitKinds
    BY <1>1, <1>4, CommitType
  <2>2. check[p].work \subseteq CommitKinds
    BY DEF Typed, PullsTyped
  <2> QED BY <2>1, <2>2 DEF KindsOf
<1>6. VersionToRelease(tag, kinds) \in Version
  <2> HIDE DEF kinds
  <2>1. VersionToRelease(tag, kinds) \in VersionUpTo(tag.commit + 1)
    BY <1>4, VersionToReleaseType
  <2>2. tag.commit + 1 \in Nat /\ tag.commit + 1 <= MaxCommits + 1
    BY <1>1, <1>4
  <2> QED BY <2>1, <2>2, VersionIsVersion
<1> QED BY <1>1, <1>2, <1>3, <1>5, <1>6 DEF tag

LEMMA StartCheckTyped ==
    ASSUME Typed, NEW p \in Pull, StartCheck(p)
    PROVE  Typed'
<1> DEFINE tag == GetLatestTag(Len(main))
           kinds == KindsOf((tag.commit + 1)..Len(main)) \cup check[p].work
           valid == ValidTitle(kinds, pull[p].title)
           version == VersionToRelease(tag, kinds)
           new == [pc |-> "running", work |-> {}, base |-> Len(main), tag |-> tag.commit,
                   version |-> version, valid |-> valid]
<1>1. /\ Len(main) \in 0..Len(main) /\ IsLatestTag(tag, Len(main))
      /\ version \in Version
      /\ check' = [check EXCEPT ![p] = new]
  BY StartCheckFrame
<1>2. valid \in BOOLEAN
  BY DEF ValidTitle
<1> HIDE DEF valid, version, tag
<1>3. tag.commit \in 0..Len(main)
  BY <1>1 DEF IsLatestTag
<1>4. new \in [pc : {"none", "queued", "running", "done"}, work : SUBSET CommitKinds,
               base : 0..Len(main), tag : 0..Len(main), version : Version, valid : BOOLEAN]
  BY <1>1, <1>2, <1>3
<1> HIDE DEF new
<1>5. UNCHANGED <<main, tags, releases, npm, comment, pull, promise, job, pending,
                  failed, marred, used>>
  BY DEF StartCheck
<1>6. PullsTyped'
  BY <1>1, <1>4, <1>5 DEF Typed, PullsTyped
<1> QED BY <1>5, <1>6, PullsMove

LEMMA FinishCheckTyped ==
    ASSUME Typed, NEW p \in Pull, FinishCheck(p)
    PROVE  Typed'
<1>1. NoVersion \in Version /\ 0 \in 0..Len(main)
  BY NoVersionIsVersion, VersionIsVersion, ReleaseAssumption DEF Typed, MainTyped
<1>2. check' \in [Pull -> [pc : {"none", "queued", "running", "done"},
                           work : SUBSET CommitKinds, base : 0..Len(main),
                           tag : 0..Len(main), version : Version, valid : BOOLEAN]]
  <2> DEFINE C == [pc : {"none", "queued", "running", "done"}, work : SUBSET CommitKinds,
                   base : 0..Len(main), tag : 0..Len(main), version : Version,
                   valid : BOOLEAN]
             done == [check[p] EXCEPT !.pc = "done"]
  <2>1. check \in [Pull -> C]
    BY DEF Typed, PullsTyped
  <2>2. NoCheck \in C
    BY <1>1 DEF NoCheck
  <2>3. check[p] \in C => done \in C
    OBVIOUS
  <2> HIDE DEF C, done
  <2>4. \E c \in C : check' = [check EXCEPT ![p] = c]
    <3>1. check' = [check EXCEPT ![p] = done] \/ check' = [check EXCEPT ![p] = NoCheck]
      BY DEF FinishCheck, done
    <3> QED BY <2>1, <2>2, <2>3, <3>1
  <2>5. check' \in [Pull -> C]
    BY <2>1, <2>4
  <2> QED BY <2>5 DEF C
<1>3. comment' \in [Pull -> [what : {"none", "noRelease", "preview", "released"},
                             version : Version]]
  BY DEF FinishCheck, Typed, PullsTyped
<1>4. UNCHANGED <<main, pull, promise>>
  BY DEF FinishCheck
<1>5. PullsTyped'
  BY <1>2, <1>3, <1>4 DEF Typed, PullsTyped
<1> QED BY <1>5, PullsMove DEF FinishCheck

LEMMA TypedInit == ASSUME Init PROVE Typed
<1>1. NoVersion \in Version /\ NoVersion \in VersionUpTo(0) /\ 1 \in DOMAIN Order
  BY NoVersionIsVersion, VersionIsVersion, ReleaseAssumption
<1>2. Len(main) = 0 /\ main \in Seq(Commit) /\ MaxCommits \in Nat
  BY ReleaseAssumption DEF Init
<1>3. MainTyped /\ BuildsTyped /\ HistoryTyped
  <2>1. MainTyped
    BY <1>2 DEF Init, MainTyped
  <2>2. BuildsTyped
    BY DEF Init, BuildsTyped
  <2>3. HistoryTyped
    BY DEF Init, HistoryTyped
  <2> QED BY <2>1, <2>2, <2>3
<1>4. JobTyped
  BY <1>1, <1>2 DEF Init, JobTyped, NoJob
<1>5. PullsTyped
  BY <1>1, <1>2 DEF Init, PullsTyped, NoComment, NoPull, NoCheck, NoPromise, CommitKinds
<1> QED BY <1>3, <1>4, <1>5 DEF Typed

LEMMA TypedStep == ASSUME Typed, [Next]_vars PROVE Typed'
<1>1. CASE Job
  <2>1. ASSUME CommentOnAll PROVE Typed'
    BY <2>1, CommentTyped, ExtractedArePulls DEF CommentOnAll, Typed, HistoryTyped, CommentOnPRs
  <2> QED
    BY <1>1, <2>1, CheckoutTyped, BuildTyped, PublishToNpmTyped, PublishIsRefusedTyped,
       PushGitTagTyped, CreateReleaseTyped DEF Job
<1>2. CASE Failures
  <2>1. ASSUME FailComments PROVE Typed'
    <3>1. PICK reached \in SUBSET ExtractPRNumbers(job.since) : CommentOnPRs(reached)
      BY <2>1 DEF FailComments
    <3>2. reached \in SUBSET Pull
      BY <3>1, ExtractedArePulls
    <3>3. HistoryTyped'
      BY <2>1, <3>1 DEF FailComments, Fault, CommentOnPRs, Typed, HistoryTyped
    <3> QED BY <3>1, <3>2, <3>3, CommentTyped
  <2> QED BY <1>2, <2>1, FailRunTyped, FailReleaseTyped DEF Failures
<1>3. CASE PullRequests
  <2>1. PICK p \in Pull :
          \/ \E work \in {{k} : k \in Kinds} : \E title \in Kinds : OpenPull(p, work, title)
          \/ StartCheck(p) \/ FinishCheck(p) \/ Merge(p)
    BY <1>3 DEF PullRequests
  <2>2. ASSUME NEW k \in Kinds, NEW title \in Kinds, OpenPull(p, {k}, title) PROVE Typed'
    BY <2>2, OpenPullTyped
  <2> QED BY <2>1, <2>2, StartCheckTyped, FinishCheckTyped, MergeTyped
<1>4. CASE Developers
  BY <1>4, PushToMainTyped, RerunTyped DEF Developers
<1>5. CASE UNCHANGED vars
  BY <1>5, PullsMove, PullsKept, MainKept DEF vars, pullVars, Typed
<1> QED BY <1>1, <1>2, <1>3, <1>4, <1>5 DEF Next

-----------------------------------------------------------------------------
(* The registry, the tags and the comments.                                *)

RegistryGrows == \A p \in Package : npm[p] \subseteq npm'[p]

MainExtends == MainGrows /\ \A c \in 1..Len(main) : main'[c] = main[c]

\* No step makes a comment say released but the one of a release.
NoneReleased ==
    \A p \in Pull : comment'[p].what = "released" => comment'[p] = comment[p]

LEMMA MainUnchanged == ASSUME Typed, UNCHANGED main PROVE MainExtends
BY MainKept DEF MainExtends

LEMMA TagsKept ==
    ASSUME TaggedReleaseIsWhole, RegistryGrows, UNCHANGED tags
    PROVE  TaggedReleaseIsWhole'
BY DEF TaggedReleaseIsWhole, RegistryGrows

LEMMA CommentsKept ==
    ASSUME Typed, ReleasedCommentIsTrue, RegistryGrows, MainExtends, NoneReleased
    PROVE  ReleasedCommentIsTrue'
<1> SUFFICES ASSUME NEW p \in Pull, comment'[p].what = "released", NEW q \in Package
             PROVE  \E e \in npm'[q] : /\ e.version = comment'[p].version
                                       /\ \E c \in 1..e.commit : p \in main'[c].pulls
  BY DEF ReleasedCommentIsTrue
<1>1. comment[p] = comment'[p]
  BY DEF NoneReleased
<1>2. PICK e \in npm[q] : /\ e.version = comment[p].version
                          /\ \E c \in 1..e.commit : p \in main[c].pulls
  BY <1>1 DEF ReleasedCommentIsTrue
<1>3. e.commit \in 1..Len(main) /\ Len(main) \in Nat
  BY DEF Typed, BuildsTyped, GoodBuild, MainTyped
<1>4. \A c \in 1..e.commit : main'[c] = main[c]
  BY <1>3 DEF MainExtends
<1>5. e \in npm'[q]
  BY DEF RegistryGrows
<1> QED BY <1>1, <1>2, <1>4, <1>5

\* Steps that publish and tag nothing.
LEMMA NothingPublished ==
    ASSUME ReleaseInv, Typed', JobHasPublished', UNCHANGED <<npm, tags>>,
           MainExtends, NoneReleased
    PROVE  ReleaseInv'
<1>1. RegistryGrows
  BY DEF RegistryGrows
<1>2. FirstTakesVersion'
  BY DEF ReleaseInv, FirstTakesVersion
<1> QED BY <1>1, <1>2, TagsKept, CommentsKept DEF ReleaseInv

LEMMA NoJobPublished == ASSUME job' = NoJob PROVE JobHasPublished'
BY DEF NoJob, JobHasPublished, HasPublished

LEMMA JobKeepsPublished ==
    ASSUME JobHasPublished, UNCHANGED <<job, npm>> PROVE JobHasPublished'
BY DEF JobHasPublished, HasPublished, Built

\* The packages differ, so the first one is published at the first position.
LEMMA FirstIsFirst ==
    ASSUME Typed
    PROVE  /\ 1 \in DOMAIN Order /\ Order[1] \in Package
           /\ Current = Order[1] <=> job.next = 1
BY ReleaseAssumption DEF Typed, JobTyped, Current, Package

\* An upload keeps one build for each version: the registry refuses the first
\* package a version it has, and the others follow the first one.
LEMMA UploadInOrder ==
    ASSUME ReleaseInv, job.pc = "publish", ~Refused(Current, job.version), npm' = Upload
    PROVE  FirstTakesVersion' /\ RegistryGrows /\ Built \in npm'[Current]
<1> USE DEF ReleaseInv
<1>1. /\ npm' = [p \in Package |-> npm'[p]] /\ Current \in Package
      /\ npm'[Current] = npm[Current] \cup {Built}
      /\ \A p \in Package : p # Current => npm'[p] = npm[p]
  BY UploadAdds
<1>2. RegistryGrows
  BY <1>1 DEF RegistryGrows
<1>3. 1 \in DOMAIN Order /\ Order[1] \in Package /\ (Current = Order[1] <=> job.next = 1)
  BY FirstIsFirst
<1>4. CASE job.next = 1
  <2>1. npm'[Order[1]] = npm[Order[1]] \cup {Built}
    BY <1>1, <1>3, <1>4
  <2>2. ASSUME NEW d \in npm[Order[1]] PROVE d.version # Built.version
    <3>1. GoodBuild(d)
      BY <1>3 DEF Typed, BuildsTyped
    <3>2. d.commit \in Nat /\ d.version \in VersionUpTo(d.commit)
      BY <3>1 DEF GoodBuild
    <3>3. ~Newer(d.version, d.version)
      BY <3>2, NewerIrreflexive
    <3>4. Newer(job.version, d.version)
      BY <1>3, <1>4 DEF Refused
    <3> QED BY <3>3, <3>4 DEF Built
  <2>3. \A p \in Package : npm'[p] \subseteq npm'[Order[1]]
    BY <1>1, <1>3, <1>4, <2>1 DEF FirstTakesVersion
  <2>4. \A d, e \in npm'[Order[1]] : d.version = e.version => d = e
    BY <2>1, <2>2 DEF FirstTakesVersion
  <2> QED BY <1>1, <1>2, <2>3, <2>4 DEF FirstTakesVersion
<1>5. CASE job.next # 1
  <2>1. HasPublished(1)
    BY <1>5, ReleaseAssumption DEF HasPublished, Typed, JobTyped
  <2>2. Built \in npm[Order[1]]
    BY <1>3, <2>1 DEF JobHasPublished
  <2>3. npm'[Order[1]] = npm[Order[1]]
    BY <1>1, <1>3, <1>5
  <2>4. \A p \in Package : npm'[p] \subseteq npm'[Order[1]]
    BY <1>1, <2>2, <2>3 DEF FirstTakesVersion
  <2> QED BY <1>1, <1>2, <2>3, <2>4 DEF FirstTakesVersion
<1> QED BY <1>4, <1>5

LEMMA PublishedInOrder ==
    ASSUME ReleaseInv, job.pc = "publish", ~Refused(Current, job.version),
           npm' = Upload, job' = Published
    PROVE  JobHasPublished'
<1>1. RegistryGrows /\ Built \in npm'[Order[job.next]]
  BY UploadInOrder DEF Current
<1>2. Built' = Built /\ job.next \in DOMAIN Order
  BY DEF ReleaseInv, Typed, JobTyped, Published, Built
<1> SUFFICES ASSUME NEW i \in DOMAIN Order, HasPublished(i)' PROVE Built' \in npm'[Order[i]]
  BY DEF JobHasPublished
<1>3. i < job.next \/ i = job.next
  <2>1. job.next \in Nat /\ i \in 1..Len(Order) /\ Len(Order) \in Nat
    BY <1>2, ReleaseAssumption
  <2> QED BY <2>1 DEF ReleaseInv, Typed, JobTyped, HasPublished, Published
<1>4. i < job.next => Built \in npm[Order[i]]
  BY DEF ReleaseInv, JobHasPublished, HasPublished
<1>5. Order[i] \in Package
  BY DEF Package
<1> QED BY <1>1, <1>2, <1>3, <1>4, <1>5 DEF RegistryGrows

\* A run that goes on without publishing has published what it had.
LEMMA JobGoesOn ==
    ASSUME JobHasPublished, UNCHANGED npm, NEW pc \in {"publish", "release", "comment"},
           job.pc # "idle",
           job' = [job EXCEPT !.pc = pc],
           pc = "publish" => job.pc = "build" /\ job.next = 1,
           pc # "publish" => job.pc \in {"tag", "release"},
           Typed
    PROVE  JobHasPublished' /\ Built' = Built
<1>1. Built' = Built /\ job'.next = job.next /\ job'.pc = pc
  BY DEF Typed, JobTyped, Built
<1>2. \A i \in DOMAIN Order : ~(i < 1)
  BY ReleaseAssumption
<1> QED BY <1>1, <1>2 DEF JobHasPublished, HasPublished

LEMMA PublishToNpmSafe ==
    ASSUME ReleaseInv, Typed', PublishToNpm
    PROVE  ReleaseInv'
<1>1. FirstTakesVersion' /\ RegistryGrows /\ JobHasPublished'
  BY UploadInOrder, PublishedInOrder DEF PublishToNpm
<1>2. MainExtends /\ NoneReleased
  BY MainUnchanged DEF PublishToNpm, pullVars, NoneReleased, ReleaseInv
<1> QED BY <1>1, <1>2, TagsKept, CommentsKept DEF PublishToNpm, ReleaseInv

LEMMA PushGitTagSafe ==
    ASSUME ReleaseInv, Typed', PushGitTag
    PROVE  ReleaseInv'
<1>1. UNCHANGED npm /\ RegistryGrows /\ FirstTakesVersion'
  BY DEF PushGitTag, RegistryGrows, ReleaseInv, FirstTakesVersion
<1>2. MainExtends /\ NoneReleased
  BY MainUnchanged DEF PushGitTag, pullVars, NoneReleased, ReleaseInv
<1>3. JobHasPublished'
  BY JobGoesOn DEF PushGitTag, ReleaseInv
<1>4. \A p \in Package : Built \in npm[p]
  BY DEF PushGitTag, ReleaseInv, JobHasPublished, HasPublished, Package
<1>5. tags' = tags \cup {Built}
  BY DEF PushGitTag, Built
<1>6. TaggedReleaseIsWhole'
  BY <1>1, <1>4, <1>5 DEF ReleaseInv, TaggedReleaseIsWhole
<1> QED BY <1>1, <1>2, <1>3, <1>6, CommentsKept DEF ReleaseInv

\* The commits of a release are on main up to its own, and every package has
\* been published of it.
LEMMA CommentSafe ==
    ASSUME ReleaseInv, Typed', NEW reached \in SUBSET ExtractPRNumbers(job.since),
           CommentOnPRs(reached)
    PROVE  ReleaseInv'
<1>1. UNCHANGED <<npm, tags, main>> /\ RegistryGrows
  BY DEF CommentOnPRs, RegistryGrows
<1>2. FirstTakesVersion' /\ JobHasPublished' /\ TaggedReleaseIsWhole'
  BY <1>1, NoJobPublished, TagsKept
  DEF CommentOnPRs, Stop, ReleaseInv, FirstTakesVersion
<1>3. ASSUME NEW p \in Pull, comment'[p].what = "released", NEW q \in Package
      PROVE  \E e \in npm'[q] : /\ e.version = comment'[p].version
                                /\ \E c \in 1..e.commit : p \in main'[c].pulls
  <2>1. CASE p \in reached
    <3>1. Built \in npm[q]
      BY DEF CommentOnPRs, ReleaseInv, JobHasPublished, HasPublished, Package
    <3>2. PICK c \in job.since : p \in main[c].pulls
      BY <2>1 DEF ExtractPRNumbers
    <3>3. c \in 1..Built.commit
      BY <3>2 DEF ReleaseInv, Typed, JobTyped, Built
    <3>4. comment'[p].version = Built.version
      BY <2>1 DEF CommentOnPRs, Built
    <3> QED BY <1>1, <3>1, <3>2, <3>3, <3>4
  <2>2. CASE p \notin reached
    <3>1. comment'[p] = comment[p]
      BY <2>2 DEF CommentOnPRs
    <3> QED BY <1>1, <1>3, <3>1 DEF ReleaseInv, ReleasedCommentIsTrue
  <2> QED BY <2>1, <2>2
<1> QED BY <1>2, <1>3 DEF ReleaseInv, ReleasedCommentIsTrue

LEMMA FailRunSafe ==
    ASSUME ReleaseInv, Typed', NEW published \in BOOLEAN, FailRun(published)
    PROVE  ReleaseInv'
<1>1. FirstTakesVersion' /\ RegistryGrows
  <2>1. CASE published
    BY <2>1, UploadInOrder DEF FailRun
  <2>2. CASE ~published
    BY <2>2 DEF FailRun, ReleaseInv, FirstTakesVersion, RegistryGrows
  <2> QED BY <2>1, <2>2
<1>2. JobHasPublished'
  BY NoJobPublished DEF FailRun, AfterFailure, Stop
<1>3. MainExtends /\ NoneReleased /\ UNCHANGED tags
  BY MainUnchanged DEF FailRun, pullVars, NoneReleased, ReleaseInv
<1> QED BY <1>1, <1>2, <1>3, TagsKept, CommentsKept DEF ReleaseInv

\* The other steps publish and tag nothing.
LEMMA JobSafe ==
    ASSUME ReleaseInv, Typed', Job
    PROVE  ReleaseInv'
<1>1. CASE Checkout
  <2>1. JobHasPublished'
    <3>1. job' = NoJob \/ job'.pc = "build"
      BY <1>1, CheckoutFrame DEF ReleaseInv
    <3> QED BY <3>1, NoJobPublished DEF JobHasPublished, HasPublished
  <2> QED
    BY <1>1, <2>1, NothingPublished, MainUnchanged DEF Checkout, NoneReleased, ReleaseInv
<1>2. CASE Build
  <2>1. JobHasPublished'
    <3>1. job.next = 1
      BY <1>2 DEF Build, ReleaseInv, Typed, JobTyped
    <3> QED BY <1>2, <3>1, JobGoesOn DEF Build, ReleaseInv
  <2> QED
    BY <1>2, <2>1, NothingPublished, MainUnchanged
    DEF Build, pullVars, NoneReleased, ReleaseInv
<1>3. CASE PublishIsRefused
  BY <1>3, NoJobPublished, NothingPublished, MainUnchanged
  DEF PublishIsRefused, AfterRefusal, Stop, pullVars, NoneReleased, ReleaseInv
<1>4. CASE CreateRelease
  <2>1. JobHasPublished'
    BY <1>4, JobGoesOn DEF CreateRelease, ReleaseInv
  <2> QED
    BY <1>4, <2>1, NothingPublished, MainUnchanged
    DEF CreateRelease, pullVars, NoneReleased, ReleaseInv
<1>5. CASE CommentOnAll
  BY <1>5, CommentSafe DEF CommentOnAll
<1> QED
  BY <1>1, <1>2, <1>3, <1>4, <1>5, PublishToNpmSafe, PushGitTagSafe DEF Job

LEMMA FailuresSafe ==
    ASSUME ReleaseInv, Typed', Failures
    PROVE  ReleaseInv'
<1>1. CASE FailRelease
  <2>1. JobHasPublished'
    BY <1>1, JobGoesOn DEF FailRelease, AfterFailedRelease, ReleaseInv
  <2> QED
    BY <1>1, <2>1, NothingPublished, MainUnchanged
    DEF FailRelease, pullVars, NoneReleased, ReleaseInv
<1>2. CASE FailComments
  BY <1>2, CommentSafe DEF FailComments
<1> QED BY <1>1, <1>2, FailRunSafe DEF Failures

LEMMA DevelopersSafe ==
    ASSUME ReleaseInv, Typed', PullRequests \/ Developers
    PROVE  ReleaseInv'
<1>1. ASSUME NEW kind \in CommitKinds, NEW from \in SUBSET Pull, PushCommit(kind, from)
      PROVE  ReleaseInv'
  <2>1. MainExtends
    BY <1>1, PushCommitTyped DEF ReleaseInv, MainExtends, Commits
  <2> QED
    BY <1>1, <2>1, NothingPublished, JobKeepsPublished
    DEF PushCommit, NoneReleased, ReleaseInv
<1>2. ASSUME NEW c \in failed, Rerun(c) PROVE ReleaseInv'
  BY <1>2, NothingPublished, JobKeepsPublished, MainUnchanged
  DEF Rerun, pullVars, NoneReleased, ReleaseInv
<1>3. ASSUME NEW p \in Pull, NEW work, NEW title, OpenPull(p, work, title)
      PROVE  ReleaseInv'
  BY <1>3, NothingPublished, JobKeepsPublished, MainUnchanged
  DEF OpenPull, NoneReleased, ReleaseInv
<1>4. ASSUME NEW p \in Pull, StartCheck(p) PROVE ReleaseInv'
  BY <1>4, NothingPublished, JobKeepsPublished, MainUnchanged
  DEF StartCheck, NoneReleased, ReleaseInv
<1>5. ASSUME NEW p \in Pull, FinishCheck(p) PROVE ReleaseInv'
  <2>1. NoneReleased
    BY <1>5 DEF FinishCheck, NoneReleased, ReleaseInv, Typed, PullsTyped
  <2> QED
    BY <1>5, <2>1, NothingPublished, JobKeepsPublished, MainUnchanged
    DEF FinishCheck, ReleaseInv
<1>6. ASSUME NEW p \in Pull, Merge(p) PROVE ReleaseInv'
  <2>1. pull[p].title \in CommitKinds /\ {p} \in SUBSET Pull
    BY DEF ReleaseInv, Typed, PullsTyped
  <2> QED BY <1>1, <1>6, <2>1 DEF Merge
<1>7. ASSUME NEW k \in Kinds, PushToMain(k) PROVE ReleaseInv'
  <2>1. k \in CommitKinds /\ {} \in SUBSET Pull
    BY ReleaseAssumption
  <2> QED BY <1>1, <1>7, <2>1 DEF PushToMain
<1> QED BY <1>2, <1>3, <1>4, <1>5, <1>6, <1>7 DEF PullRequests, Developers

LEMMA ReleaseInvInit == ASSUME Init PROVE ReleaseInv
<1>1. Typed /\ Order[1] \in Package
  BY TypedInit, FirstIsFirst
<1>2. FirstTakesVersion /\ JobHasPublished
  BY <1>1 DEF Init, NoJob, FirstTakesVersion, JobHasPublished, HasPublished
<1>3. TaggedReleaseIsWhole /\ ReleasedCommentIsTrue
  BY DEF Init, NoComment, TaggedReleaseIsWhole, ReleasedCommentIsTrue
<1> QED BY <1>1, <1>2, <1>3 DEF ReleaseInv

LEMMA ReleaseInvStep == ASSUME ReleaseInv, [Next]_vars PROVE ReleaseInv'
<1>1. Typed'
  BY TypedStep DEF ReleaseInv
<1>2. CASE UNCHANGED vars
  BY <1>1, <1>2, NothingPublished, JobKeepsPublished, MainUnchanged
  DEF vars, pullVars, NoneReleased, ReleaseInv
<1> QED BY <1>1, <1>2, JobSafe, FailuresSafe, DevelopersSafe DEF Next

LEMMA TypedIsTypeOK == ASSUME Typed PROVE TypeOK
<1>1. /\ MaxCommits \in Nat /\ Len(main) \in Nat /\ 0..Len(main) \subseteq 0..MaxCommits
      /\ 0 \in 0..Len(main)
  BY ReleaseAssumption DEF Typed, MainTyped
<1>2. \A c \in Commits : main[c] \in [kind : CommitKinds, pulls : SUBSET Pull]
  BY CommitType DEF Commits, Commit
<1>3. ASSUME NEW b, GoodBuild(b) PROVE b \in PackageBuild
  <2>1. b.version \in Version
    BY <1>1, <1>3, VersionIsVersion DEF GoodBuild
  <2> QED BY <1>1, <1>3, <2>1 DEF GoodBuild, PackageBuild
<1>4. npm \in [Package -> SUBSET PackageBuild]
  <2>1. \A p \in Package : npm[p] \in SUBSET PackageBuild
    BY <1>3 DEF Typed, BuildsTyped
  <2>2. npm = [p \in Package |-> npm[p]]
    BY DEF Typed, BuildsTyped
  <2> QED BY <2>1, <2>2
<1>5. tags \subseteq PackageBuild /\ releases \subseteq Version
  BY <1>3 DEF Typed, BuildsTyped
<1>6. promise \in [commit : 0..MaxCommits, version : Version, tag : 0..MaxCommits]
  BY <1>1 DEF Typed, PullsTyped
<1>7. /\ job.pc \in {"idle", "build", "publish", "tag", "release", "comment"}
      /\ job.next \in DOMAIN Order /\ job.since \subseteq Commits
      /\ job.commit \in 0..Len(main)
  BY <1>1 DEF Typed, JobTyped, Commits
<1> QED
  BY <1>2, <1>4, <1>5, <1>6, <1>7
  DEF TypeOK, Typed, MainTyped, PullsTyped, HistoryTyped

-----------------------------------------------------------------------------
(* What a title promises.                                                  *)

\* The commits that were there and a commit with the title together make the
\* version that was made of them and the commits of the pull request, if the
\* title is valid for those and is read as the release reads it.
LEMMA TitleDecides ==
    ASSUME NEW kinds \in SUBSET CommitKinds, NEW before \in SUBSET kinds,
           NEW title \in CommitKinds, ValidTitle(kinds, title), NEW tag
    PROVE  Announced(title, VersionToRelease(tag, kinds),
                     VersionToRelease(tag, before \cup {title}))
<1> DEFINE after == before \cup {title}
<1>1. CASE HasReleaseNotes(kinds)
  <2>1. /\ title \in {"feat", "fix", "fixes", "breaking"}
        /\ RecommendedBump({title}) = RecommendedBump(kinds)
    BY <1>1 DEF ValidTitle, BumpFromTitle, RecommendedBump
  <2>2. RecommendedBump(after) = RecommendedBump(kinds)
    BY <2>1 DEF RecommendedBump
  <2>3. HasReleaseNotes(after) \/ title = "fixes"
    BY <2>1 DEF HasReleaseNotes
  <2> QED BY <1>1, <2>2, <2>3 DEF VersionToRelease, Announced
<1>2. CASE ~HasReleaseNotes(kinds)
  <2>1. title \in {"other", "perf", "otherBreaking"}
    BY <1>2 DEF ValidTitle, BumpFromTitle, RecommendedBump, CommitKinds
  <2>2. title = "other" => ~HasReleaseNotes(after)
    BY <1>2 DEF HasReleaseNotes
  <2> QED BY <1>2, <2>1, <2>2 DEF VersionToRelease, Announced
<1> QED BY <1>1, <1>2

-----------------------------------------------------------------------------
(* Tags are made once for each commit.                                     *)

LEMMA TaggedOnceKept ==
    ASSUME TaggedOnce, UNCHANGED tags, job'.commit = job.commit,
           job'.pc \in {"build", "publish", "tag"} => job.pc \in {"build", "publish", "tag"}
    PROVE  TaggedOnce'
BY DEF TaggedOnce

LEMMA TaggedOnceNoJob ==
    ASSUME TaggedOnce, UNCHANGED tags, job'.pc \notin {"build", "publish", "tag"}
    PROVE  TaggedOnce'
BY DEF TaggedOnce

LEMMA TaggedOnceCheckout ==
    ASSUME Typed, TaggedOnce, Checkout
    PROVE  TaggedOnce'
<1>1. UNCHANGED tags
  BY DEF Checkout
<1>2. CASE job' = NoJob
  BY <1>1, <1>2, TaggedOnceNoJob DEF NoJob
<1>3. CASE job' # NoJob
  <2> DEFINE tag == GetLatestTag(pending)
  <2>1. /\ pending \in 1..Len(main) /\ IsLatestTag(tag, pending)
        /\ tag.commit < pending /\ job'.commit = pending
    BY <1>3, CheckoutFrame
  <2> HIDE DEF tag
  <2>2. tag.commit \in Nat /\ pending \in Nat
    BY <2>1 DEF IsLatestTag
  <2>3. ASSUME NEW t \in tags PROVE t.commit # pending
    BY <2>1, <2>2 DEF IsLatestTag
  <2> QED BY <1>1, <2>1, <2>3 DEF TaggedOnce
<1> QED BY <1>2, <1>3

LEMMA TaggedOnceStep ==
    ASSUME Typed, TaggedOnce, [Next]_vars
    PROVE  TaggedOnce'
<1> USE DEF Typed, JobTyped
<1>1. CASE Build \/ PublishToNpm
  <2>1. job'.commit = job.commit /\ job.pc \in {"build", "publish", "tag"} /\ UNCHANGED tags
    BY <1>1 DEF Build, PublishToNpm, Published
  <2> QED BY <2>1, TaggedOnceKept
<1>2. CASE PushGitTag
  <2>1. tags' = tags \cup {Built} /\ job'.pc = "release" /\ job.pc = "tag"
    BY <1>2 DEF PushGitTag, Built
  <2>2. \A t \in tags : t.commit # Built.commit
    BY <2>1 DEF TaggedOnce, Built
  <2> QED BY <2>1, <2>2 DEF TaggedOnce
<1>3. CASE PublishIsRefused \/ CreateRelease \/ CommentOnAll
  <2>1. UNCHANGED tags /\ job'.pc \notin {"build", "publish", "tag"}
    BY <1>3 DEF PublishIsRefused, AfterRefusal, CreateRelease, CommentOnAll, CommentOnPRs, Stop, NoJob
  <2> QED BY <2>1, TaggedOnceNoJob
<1>4. CASE Failures
  <2>1. UNCHANGED tags /\ job'.pc \notin {"build", "publish", "tag"}
    BY <1>4 DEF Failures, FailRun, AfterFailure, FailRelease, AfterFailedRelease, FailComments,
                CommentOnPRs, Stop, NoJob
  <2> QED BY <2>1, TaggedOnceNoJob
<1>5. CASE PullRequests \/ Developers \/ UNCHANGED vars
  <2>1. UNCHANGED <<tags, job>>
    BY <1>5 DEF PullRequests, OpenPull, StartCheck, FinishCheck, Merge, Developers, PushToMain,
                PushCommit, Rerun, vars
  <2> QED BY <2>1, TaggedOnceKept
<1> QED
  BY <1>1, <1>2, <1>3, <1>4, <1>5, TaggedOnceCheckout DEF Next, Job

-----------------------------------------------------------------------------
(* What a check found stays true.                                          *)

TagsGrow == tags \subseteq tags'

LEMMA KindsOfKept ==
    ASSUME Typed, MainExtends, NEW i \in Nat, NEW j \in 0..Len(main)
    PROVE  KindsOf((i + 1)..j)' = KindsOf((i + 1)..j)
<1>1. \A c \in (i + 1)..j : c \in 1..Len(main)
  BY DEF MainExtends, MainGrows
<1>2. \A c \in (i + 1)..j : main'[c] = main[c]
  BY <1>1 DEF MainExtends
<1> QED BY <1>2 DEF KindsOf

LEMMA CheckKept ==
    ASSUME Typed, MainExtends, TagsGrow, NEW p \in Pull, CheckIsTrue(p),
           check'[p] = check[p], pull'[p] = pull[p] \/ pull'[p].state # "open"
    PROVE  CheckIsTrue(p)'
<1>1. check[p].tag \in Nat /\ check[p].base \in 0..Len(main)
  BY DEF Typed, PullsTyped, MainTyped
<1>2. KindsOf((check[p].tag + 1)..check[p].base)' = KindsOf((check[p].tag + 1)..check[p].base)
  BY <1>1, KindsOfKept
<1>3. \A v : TagAt(check[p].tag, v) => TagAt(check[p].tag, v)'
  BY DEF TagAt, TagsGrow
<1>4. ASSUME NEW v, NEW kinds, FoundFrom(p, v, kinds) PROVE FoundFrom(p, v, kinds)'
  BY <1>2, <1>3, <1>4 DEF FoundFrom, FromTag
<1> QED BY <1>4 DEF CheckIsTrue

LEMMA PromiseKept ==
    ASSUME Typed, MainExtends, TagsGrow, PromiseIsTrue, promise' \in {promise, NoPromise}
    PROVE  PromiseIsTrue'
<1>1. CASE promise' = NoPromise
  BY <1>1 DEF PromiseIsTrue, NoPromise
<1>2. CASE promise' = promise
  <2>1. promise.tag \in Nat /\ promise.commit \in 0..Len(main) /\ Len(main) \in Nat
    BY DEF Typed, PullsTyped, MainTyped
  <2>2. KindsOf((promise.tag + 1)..promise.commit)' = KindsOf((promise.tag + 1)..promise.commit)
    BY <1>2, <2>1, KindsOfKept
  <2>3. promise.commit # 0 => main'[promise.commit] = main[promise.commit]
    BY <2>1 DEF MainExtends
  <2>4. \A v : TagAt(promise.tag, v) => TagAt(promise.tag, v)'
    BY <1>2 DEF TagAt, TagsGrow
  <2> QED BY <1>2, <2>2, <2>3, <2>4 DEF PromiseIsTrue, FromTag
<1> QED BY <1>1, <1>2

\* A check starts from the latest tag and compares the title with all commits.
LEMMA StartCheckIsTrue ==
    ASSUME Typed, NEW p \in Pull, StartCheck(p)
    PROVE  CheckIsTrue(p)'
<1>1. PICK tag, kinds :
        /\ IsLatestTag(tag, Len(main)) /\ kinds \in SUBSET CommitKinds
        /\ KindsOf((tag.commit + 1)..Len(main)) \subseteq kinds
        /\ check' = [check EXCEPT ![p] =
            [pc |-> "running", work |-> {}, base |-> Len(main), tag |-> tag.commit,
             version |-> VersionToRelease(tag, kinds),
             valid |-> ValidTitle(kinds, pull[p].title)]]
  BY StartCheckFrame
<1>2. UNCHANGED <<main, tags, pull>>
  BY DEF StartCheck
<1>3. /\ tag = [version |-> tag.version, commit |-> tag.commit] /\ tag.commit \in 0..Len(main)
      /\ tag.version \in VersionUpTo(tag.commit) /\ TagAt(tag.commit, tag.version)
  BY <1>1 DEF IsLatestTag
<1>4. tag.version \in Version
  <2>1. tag.commit \in Nat /\ tag.commit <= MaxCommits + 1
    BY <1>3, ReleaseAssumption DEF Typed, MainTyped
  <2> QED BY <1>3, <2>1, VersionIsVersion
<1>5. /\ check'[p].pc = "running" /\ check'[p].tag = tag.commit /\ check'[p].base = Len(main)
      /\ check'[p].version = FromTag(tag.commit, tag.version, kinds)
      /\ check'[p].valid = ValidTitle(kinds, pull'[p].title)
  BY <1>1, <1>2, <1>3 DEF FromTag, Typed, PullsTyped
<1>6. TagAt(check[p].tag, tag.version)'
  BY <1>2, <1>3, <1>5 DEF TagAt
<1>7. KindsOf((check[p].tag + 1)..check[p].base)' \subseteq kinds
  BY <1>1, <1>2, <1>5 DEF KindsOf
<1>8. FoundFrom(p, tag.version, kinds)'
  BY <1>5, <1>6, <1>7 DEF FoundFrom, FromTag
<1>9. check'[p].tag <= check'[p].base
  BY <1>3, <1>5 DEF Typed, MainTyped
<1> QED BY <1>1, <1>4, <1>5, <1>8, <1>9 DEF CheckIsTrue

\* A check that ends with a promise had a valid title.
LEMMA FinishCheckIsTrue ==
    ASSUME Typed, NEW p \in Pull, CheckIsTrue(p), FinishCheck(p)
    PROVE  CheckIsTrue(p)'
<1>1. UNCHANGED <<main, tags, pull>> /\ check[p].pc = "running"
  BY DEF FinishCheck
<1>2. check'[p] = NoCheck \/ (check[p].valid /\ check'[p] = [check[p] EXCEPT !.pc = "done"])
  BY DEF FinishCheck, Typed, PullsTyped
<1>3. \A i, j : KindsOf(i..j)' = KindsOf(i..j)
  BY <1>1 DEF KindsOf
<1>4. \A i, v : TagAt(i, v)' <=> TagAt(i, v)
  BY <1>1 DEF TagAt
<1>5. CASE check'[p] = NoCheck
  BY <1>5 DEF CheckIsTrue, NoCheck
<1>6. CASE check[p].valid /\ check'[p] = [check[p] EXCEPT !.pc = "done"]
  <2>1. /\ check'[p].tag = check[p].tag /\ check'[p].base = check[p].base
        /\ check'[p].version = check[p].version /\ check'[p].valid = check[p].valid
        /\ check'[p].pc = "done"
    <3>1. check[p] \in [pc : {"none", "queued", "running", "done"}, work : SUBSET CommitKinds,
                        base : 0..Len(main), tag : 0..Len(main), version : Version,
                        valid : BOOLEAN]
      BY DEF Typed, PullsTyped
    <3> QED BY <1>6, <3>1, Zenon
  <2>2. ASSUME NEW v, NEW kinds, FoundFrom(p, v, kinds) PROVE FoundFrom(p, v, kinds)'
    BY <1>1, <1>3, <1>4, <2>1, <2>2 DEF FoundFrom, FromTag
  <2> QED BY <1>1, <1>6, <2>1, <2>2 DEF CheckIsTrue
<1> QED BY <1>2, <1>5, <1>6

\* A pull request merged as it was checked keeps its promise.
LEMMA MergeIsTrue ==
    ASSUME Typed, NEW p \in Pull, CheckIsTrue(p), Merge(p)
    PROVE  PromiseIsTrue'
<1> DEFINE c == check[p]
           title == pull[p].title
<1>1. /\ title \in CommitKinds /\ {p} \in SUBSET Pull /\ PushCommit(title, {p})
      /\ pull[p].state = "open" /\ UNCHANGED tags
  BY DEF Merge, PushCommit, Typed, PullsTyped
<1>2. /\ MainExtends /\ Len(main') = Len(main) + 1 /\ Len(main) \in Nat
      /\ main'[Len(main) + 1].kind = title
  <2>1. /\ MainGrows /\ Len(main') = Len(main) + 1 /\ \A d \in Commits : main'[d] = main[d]
        /\ main'[Len(main) + 1] = [kind |-> title, pulls |-> {p}]
    BY <1>1, PushCommitTyped
  <2> QED BY <2>1 DEF MainExtends, Commits, MainGrows
<1>3. CASE ~(c.pc = "done" /\ c.base = Len(main))
  BY <1>3 DEF Merge, PromiseIsTrue, NoPromise
<1>4. CASE c.pc = "done" /\ c.base = Len(main)
  <2>1. promise' = [commit |-> Len(main) + 1, version |-> c.version, tag |-> c.tag]
    BY <1>4 DEF Merge
  <2>2. c.tag \in Nat /\ c.tag <= Len(main) /\ c.valid
    BY <1>4 DEF CheckIsTrue, Typed, PullsTyped
  <2>3. PICK v \in Version, kinds \in SUBSET CommitKinds :
           /\ TagAt(c.tag, v) /\ c.version = FromTag(c.tag, v, kinds)
           /\ KindsOf((c.tag + 1)..Len(main)) \subseteq kinds
           /\ c.valid = ValidTitle(kinds, title)
    BY <1>1, <1>4 DEF CheckIsTrue, FoundFrom
  <2> DEFINE before == KindsOf((c.tag + 1)..Len(main))
             after == {main'[d].kind : d \in (c.tag + 1)..(Len(main) + 1)}
  <2>4. after = before \cup {title}
    <3>1. (c.tag + 1)..(Len(main) + 1) = ((c.tag + 1)..Len(main)) \cup {Len(main) + 1}
      BY <1>2, <2>2
    <3>2. \A d \in (c.tag + 1)..Len(main) : main'[d] = main[d]
      BY <1>2, <2>2 DEF MainExtends
    <3> QED BY <1>2, <3>1, <3>2 DEF KindsOf
  <2>5. Announced(title, c.version, VersionToRelease([version |-> v, commit |-> c.tag], after))
    <3> HIDE DEF after, before
    <3>1. before \in SUBSET kinds /\ title \in CommitKinds /\ ValidTitle(kinds, title)
      BY <1>1, <2>2, <2>3 DEF before
    <3>2. Announced(title, VersionToRelease([version |-> v, commit |-> c.tag], kinds),
                    VersionToRelease([version |-> v, commit |-> c.tag], before \cup {title}))
      BY <3>1, TitleDecides
    <3> QED BY <2>3, <2>4, <3>2 DEF FromTag
  <2>6. TagAt(promise.tag, v)'
    BY <1>1, <2>1, <2>3 DEF TagAt
  <2>7. Announced(main[promise.commit].kind, promise.version,
                  FromTag(promise.tag, v, KindsOf((promise.tag + 1)..promise.commit)))'
    BY <1>2, <2>1, <2>5 DEF FromTag, KindsOf, Announced
  <2>8. promise'.tag < promise'.commit
    BY <1>2, <2>1, <2>2
  <2> QED BY <2>6, <2>7, <2>8 DEF PromiseIsTrue
<1> QED BY <1>3, <1>4

\* After a merge the check is void, or runs on for a pull request that is closed.
LEMMA MergedIsTrue ==
    ASSUME Typed, NEW p \in Pull, CheckIsTrue(p), Merge(p), MainExtends
    PROVE  CheckIsTrue(p)'
<1>1. pull'[p].state = "merged" /\ UNCHANGED tags
  BY DEF Merge, PushCommit, NoPull, Typed, PullsTyped
<1>2. CASE check'[p] = NoCheck
  BY <1>2 DEF CheckIsTrue, NoCheck
<1>3. CASE check'[p] = check[p]
  BY <1>1, <1>3, CheckKept DEF TagsGrow
<1> QED BY <1>2, <1>3 DEF Merge, Typed, PullsTyped

\* What leaves the checks and the promise alone keeps them true.
LEMMA ChecksKept ==
    ASSUME PreviewInv, MainExtends, TagsGrow, UNCHANGED <<check, pull>>,
           promise' \in {promise, NoPromise}
    PROVE  (\A p \in Pull : CheckIsTrue(p)') /\ PromiseIsTrue'
BY CheckKept, PromiseKept DEF PreviewInv

LEMMA ChecksOfOthers ==
    ASSUME PreviewInv, MainExtends, TagsGrow, NEW p \in Pull, NEW q \in Pull \ {p},
           NEW c, NEW d, check' = [check EXCEPT ![p] = c],
           pull' = [pull EXCEPT ![p] = d] \/ pull' = pull
    PROVE  CheckIsTrue(q)'
<1>1. check'[q] = check[q] /\ pull'[q] = pull[q]
  BY DEF PreviewInv, Typed, PullsTyped
<1> QED BY <1>1, CheckKept DEF PreviewInv

\* The steps of a run leave the pull requests alone, Checkout but for the promise.
LEMMA RunKeepsChecks ==
    ASSUME PreviewInv, Job \/ Failures \/ Developers \/ UNCHANGED vars
    PROVE  (\A p \in Pull : CheckIsTrue(p)') /\ PromiseIsTrue'
<1>1. CASE Job
  <2>1. UNCHANGED <<main, check, pull>> /\ TagsGrow /\ promise' \in {promise, NoPromise}
    BY <1>1 DEF Job, Checkout, Build, PublishToNpm, PublishIsRefused, PushGitTag, CreateRelease,
                CommentOnAll, CommentOnPRs, pullVars, TagsGrow
  <2> QED BY <2>1, MainUnchanged, ChecksKept DEF PreviewInv
<1>2. CASE Failures \/ UNCHANGED vars
  <2>1. UNCHANGED <<main, tags, check, pull, promise>>
    BY <1>2 DEF Failures, FailRun, FailRelease, FailComments, CommentOnPRs, vars, pullVars
  <2> QED BY <2>1, MainUnchanged, ChecksKept DEF PreviewInv, TagsGrow
<1>3. CASE Developers
  <2>1. ASSUME NEW k \in Kinds, PushToMain(k) PROVE MainExtends
    <3>1. k \in CommitKinds /\ {} \in SUBSET Pull /\ PushCommit(k, {})
      BY <2>1, ReleaseAssumption DEF PushToMain
    <3> QED BY <3>1, PushCommitTyped DEF MainExtends, Commits, PreviewInv
  <2>2. ASSUME NEW c \in failed, Rerun(c) PROVE MainExtends
    BY <2>2, MainUnchanged DEF Rerun, PreviewInv
  <2>3. UNCHANGED <<tags, check, pull, promise>>
    BY <1>3 DEF Developers, PushToMain, PushCommit, Rerun, pullVars
  <2> QED BY <1>3, <2>1, <2>2, <2>3, ChecksKept DEF Developers, TagsGrow
<1> QED BY <1>1, <1>2, <1>3

LEMMA PullRequestsKeepChecks ==
    ASSUME PreviewInv, PullRequests
    PROVE  (\A p \in Pull : CheckIsTrue(p)') /\ PromiseIsTrue'
<1> USE DEF PreviewInv
<1>1. PICK p \in Pull :
        \/ \E work \in {{k} : k \in Kinds} : \E title \in Kinds : OpenPull(p, work, title)
        \/ StartCheck(p) \/ FinishCheck(p) \/ Merge(p)
  BY DEF PullRequests
<1>2. CASE \E work \in {{k} : k \in Kinds} : \E title \in Kinds : OpenPull(p, work, title)
  <2>1. PICK work, title : OpenPull(p, work, title)
    BY <1>2
  <2>2. MainExtends /\ TagsGrow /\ promise' = promise
    BY <2>1, MainUnchanged DEF OpenPull, TagsGrow
  <2>3. CheckIsTrue(p)'
    BY <2>1 DEF OpenPull, CheckIsTrue, Typed, PullsTyped
  <2>4. \A q \in Pull \ {p} : CheckIsTrue(q)'
    BY <2>1, <2>2, ChecksOfOthers DEF OpenPull
  <2> QED BY <2>2, <2>3, <2>4, PromiseKept
<1>3. CASE StartCheck(p)
  <2>1. MainExtends /\ TagsGrow /\ promise' = promise /\ pull' = pull
    BY <1>3, MainUnchanged DEF StartCheck, TagsGrow
  <2>2. \A q \in Pull \ {p} : CheckIsTrue(q)'
    BY <1>3, <2>1, ChecksOfOthers DEF StartCheck
  <2> QED BY <1>3, <2>1, <2>2, StartCheckIsTrue, PromiseKept
<1>4. CASE FinishCheck(p)
  <2>1. MainExtends /\ TagsGrow /\ promise' = promise /\ pull' = pull
    BY <1>4, MainUnchanged DEF FinishCheck, TagsGrow
  <2>2. \A q \in Pull \ {p} : CheckIsTrue(q)'
    BY <1>4, <2>1, ChecksOfOthers DEF FinishCheck
  <2> QED BY <1>4, <2>1, <2>2, FinishCheckIsTrue, PromiseKept
<1>5. CASE Merge(p)
  <2>1. pull[p].title \in CommitKinds /\ {p} \in SUBSET Pull /\ PushCommit(pull[p].title, {p})
    BY <1>5 DEF Merge, Typed, PullsTyped
  <2>2. MainExtends /\ TagsGrow
    BY <2>1, PushCommitTyped DEF MainExtends, Commits, PushCommit, TagsGrow
  <2>3. \A q \in Pull \ {p} : CheckIsTrue(q)'
    BY <1>5, <2>2, ChecksOfOthers DEF Merge
  <2> QED BY <1>5, <2>2, <2>3, MergedIsTrue, MergeIsTrue
<1> QED BY <1>1, <1>2, <1>3, <1>4, <1>5

LEMMA PreviewInvInit == ASSUME Init PROVE PreviewInv
<1>1. TaggedOnce /\ PromiseIsTrue
  BY DEF Init, NoJob, NoPromise, TaggedOnce, PromiseIsTrue
<1>2. \A p \in Pull : CheckIsTrue(p)
  BY DEF Init, NoCheck, CheckIsTrue
<1> QED BY <1>1, <1>2, TypedInit DEF PreviewInv

LEMMA PreviewInvStep == ASSUME PreviewInv, [Next]_vars PROVE PreviewInv'
<1>1. Typed' /\ TaggedOnce'
  BY TypedStep, TaggedOnceStep DEF PreviewInv
<1>2. (\A p \in Pull : CheckIsTrue(p)') /\ PromiseIsTrue'
  BY RunKeepsChecks, PullRequestsKeepChecks DEF Next
<1> QED BY <1>1, <1>2 DEF PreviewInv

\* The tag the promise was made from is the one git describe finds, so the run
\* comes to the version the promise goes with.
LEMMA CheckoutKeepsPromise ==
    ASSUME PreviewInv, Checkout, promise.commit = pending,
           promise.tag = GetLatestTag(pending).commit
    PROVE  Announced(main[pending].kind, promise.version, job'.version)
<1> DEFINE tag == GetLatestTag(pending)
           since == (tag.commit + 1)..pending
           version == VersionToRelease(tag, KindsOf(since))
<1>1. /\ pending \in 1..Len(main) /\ IsLatestTag(tag, pending)
      /\ \/ job' = NoJob /\ (since = {} \/ version = NoVersion)
         \/ job' = [pc |-> "build", commit |-> pending, since |-> since,
                    version |-> version, next |-> 1]
  BY CheckoutFrame DEF PreviewInv
<1>2. pending # 0 /\ promise.tag < promise.commit
  BY <1>1 DEF PreviewInv, PromiseIsTrue
<1>3. PICK v \in Version :
        /\ TagAt(promise.tag, v)
        /\ Announced(main[pending].kind, promise.version,
              FromTag(promise.tag, v, KindsOf((promise.tag + 1)..promise.commit)))
  BY <1>2 DEF PreviewInv, PromiseIsTrue
<1> HIDE DEF tag
<1>4. promise.tag = tag.commit
  BY DEF tag
<1>5. tag = [version |-> tag.version, commit |-> tag.commit] /\ TagAt(tag.commit, tag.version)
  BY <1>1 DEF IsLatestTag
<1>6. \A t \in tags : t.commit # 0
  BY DEF PreviewInv, Typed, BuildsTyped, GoodBuild
<1>7. tag = [version |-> v, commit |-> promise.tag]
  BY <1>3, <1>4, <1>5, <1>6 DEF TagAt, PreviewInv, TaggedOnce
<1>8. Announced(main[pending].kind, promise.version, version)
  BY <1>3, <1>4, <1>7 DEF FromTag
<1>9. since # {}
  <2>1. pending \in since
    BY <1>1, <1>2, <1>4 DEF IsLatestTag
  <2> QED BY <2>1
<1> HIDE DEF since, version
<1> QED BY <1>1, <1>8, <1>9 DEF NoJob

-----------------------------------------------------------------------------
(* The theorems.                                                           *)

\* What the others rest on: the tooling keeps its inductive invariant.
THEOREM ReleaseInvariant == Spec => []ReleaseInv
<1>1. Init => ReleaseInv
  BY ReleaseInvInit
<1>2. ReleaseInv /\ [Next]_vars => ReleaseInv'
  BY ReleaseInvStep
<1> QED BY <1>1, <1>2, PTL DEF Spec

\* Type correctness of the tooling, with every version a release can reach.
THEOREM TypeCorrect == Spec => []TypeOK
<1>1. ReleaseInv => TypeOK
  BY TypedIsTypeOK DEF ReleaseInv
<1> QED BY <1>1, ReleaseInvariant, PTL

\* Whatever fails and is started again, no version of two packages is built
\* from two commits: the first package takes the version (release.ts:180).
THEOREM VersionsAreOneBuild == Spec => []VersionIsOneBuild
<1>1. ReleaseInv => VersionIsOneBuild
  BY DEF ReleaseInv, FirstTakesVersion, VersionIsOneBuild
<1> QED BY <1>1, ReleaseInvariant, PTL

\* A tag is made after every package has been published (release.ts:200).
THEOREM TaggedReleasesAreWhole == Spec => []TaggedReleaseIsWhole
<1>1. ReleaseInv => TaggedReleaseIsWhole
  BY DEF ReleaseInv
<1> QED BY <1>1, ReleaseInvariant, PTL

\* Nobody is told of a release that does not hold the pull request.
THEOREM ReleasedCommentsAreTrue == Spec => []ReleasedCommentIsTrue
<1>1. ReleaseInv => ReleasedCommentIsTrue
  BY DEF ReleaseInv
<1> QED BY <1>1, ReleaseInvariant, PTL

\* A pull request that is merged as it was checked is released as announced, but
\* for the titles the validation misreads, and those err in one direction each.
THEOREM PreviewsAreKept == Spec => PreviewIsKept
<1> DEFINE Kept == Checkout /\ promise.commit = pending
                     /\ promise.tag = GetLatestTag(pending).commit
                   => \/ job'.version = promise.version
                      \/ ReleasedThoughNoneAnnounced
                      \/ NoneReleasedThoughAnnounced
<1>1. Init => PreviewInv
  BY PreviewInvInit
<1>2. PreviewInv /\ [Next]_vars => PreviewInv'
  BY PreviewInvStep
<1>3. PreviewInv /\ [Next]_vars => [Kept]_vars
  BY CheckoutKeepsPromise
     DEF Announced, ReleasedThoughNoneAnnounced, NoneReleasedThoughAnnounced
<1> QED BY <1>1, <1>2, <1>3, PTL DEF Spec, PreviewIsKept

=============================================================================
