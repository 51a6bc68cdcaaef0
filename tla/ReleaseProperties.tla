-------------------------- MODULE ReleaseProperties --------------------------
(***************************************************************************)
(* What the release tooling promises to those who install the packages and *)
(* to those who develop them.                                              *)
(***************************************************************************)
EXTENDS Release

Version == {<<i, j, k>> : i, j, k \in 0..(MaxCommits + 1)}

PackageBuild == [version : Version, commit : 0..MaxCommits]

\* Type correctness of the state of the tooling (build-tools/release.ts).
TypeOK ==
    /\ \A c \in Commits : main[c] \in
           [kind : CommitKinds, pulls : SUBSET Pull]
    /\ tags \subseteq PackageBuild /\ releases \subseteq Version
    /\ npm \in [Package -> SUBSET PackageBuild]
    /\ comment \in [Pull -> [what : {"none", "noRelease", "preview", "released"},
                             version : Version]]
    /\ promise \in [commit : 0..MaxCommits, version : Version, tag : 0..MaxCommits]
    /\ job.pc \in {"idle", "build", "publish", "tag", "release", "comment"}
    /\ job.next \in DOMAIN Order /\ job.since \subseteq Commits
    /\ {job.commit, pending} \cup failed \subseteq 0..Len(main)
    /\ marred \in BOOLEAN

\* Every package that exists in one version was built from the same commit,
\* although a release may stop between two packages and the next one, of
\* another commit, determines the same version (release.ts:180).
VersionIsOneBuild ==
    \A p, q \in Package : \A d \in npm[p], e \in npm[q] :
        d.version = e.version => d.commit = e.commit

\* A tag stands for a release that is complete: every package is published in
\* that version and was built from the tagged commit.
TaggedReleaseIsWhole == \A t \in tags : \A p \in Package : t \in npm[p]

\* "This PR was released as part of" a version: every package has that version
\* and was built from a commit that contains the pull request, also where the
\* tag or the GitHub release failed.
ReleasedCommentIsTrue ==
    \A p \in Pull : comment[p].what = "released" =>
        \A q \in Package : \E e \in npm[q] :
            /\ e.version = comment[p].version
            /\ \E c \in 1..e.commit : p \in main[c].pulls

\* The title of the commit to release does not say what the release makes of it.
\* perf:, revert: and chore!: seem to imply no release (version.ts:65) but have a
\* section in the changelog (changelog.ts:14); fixes: seems to imply a patch and
\* has none.
ReleasedThoughNoneAnnounced ==
    main[pending].kind \in {"perf", "otherBreaking"} /\ promise.version = NoVersion

NoneReleasedThoughAnnounced ==
    main[pending].kind = "fixes" /\ job'.version = NoVersion

\* A pull request whose title was found valid, merged while main was as it was
\* then, is released in the version the bot announced (or not released if it
\* announced that), unless another tag was made in between.  Titles that the
\* validation reads in another way than the release are the exceptions, and only
\* in one direction each: a release nobody announced, or none at all, but never
\* another version than the one announced.
PreviewIsKept ==
    [][Checkout /\ promise.commit = pending /\ promise.tag = GetLatestTag(pending).commit
       => \/ job'.version = promise.version
          \/ ReleasedThoughNoneAnnounced
          \/ NoneReleasedThoughAnnounced]_vars

\* Unless a release stopped between its first package and its tag, everything
\* that should be released is covered by a tag in the end, also the commits
\* whose own run was replaced by a later one in the queue; only a failed or
\* cancelled run of the last commit that nobody repeats leaves something out.
CommitsAreReleased ==
    <>[](marred \/ Len(main) \in failed \/
         \A c \in Commits : HasReleaseNotes({main[c].kind}) => \E t \in tags : c <= t.commit)
==============================================================================
