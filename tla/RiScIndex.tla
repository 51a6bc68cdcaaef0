------------------------------ MODULE RiScIndex ------------------------------
(***************************************************************************)
(* The index of the risk scorecards of all repositories in the catalog:    *)
(* the scheduled refresh that builds it (riscIndexScheduledRefresh.ts,     *)
(* riscIndex.ts), the two tables it is stored in (riscIndexStore.ts) and   *)
(* the query for a system (service/router.ts).                             *)
(*                                                                         *)
(* One RiSc stands for those of a repository: they are read together and   *)
(* fall back on the previous index together.  An entry is represented by   *)
(* the content it was made of.                                             *)
(*                                                                         *)
(* The scheduler starts no refresh while another one runs, unless that one *)
(* exceeded its timeout: the refresh ignores the abort signal and goes on. *)
(***************************************************************************)
EXTENDS Naturals

CONSTANTS
    Repo, Content, EntityRef,
    AppliesTo,    \* the entity refs a content applies to
    System,       \* the entity ref of a system
    Components,   \* the entity refs of its components
    Refresh,      \* invocations of the scheduled task that may coexist
    MaxChanges,   \* bounds: changes of the catalog and of the repositories,
    MaxFaults,    \*         failing calls and restarts,
    MaxTimeouts   \*         refreshes that exceed their timeout

NoFile   == "NoFile"    \* a 404 for a file; also: no entry in the index
NoBranch == "NoBranch"  \* no branch named after the RiSc

ASSUME IndexAssumption ==
    /\ Repo # {}
    /\ Content \cap {NoFile, NoBranch} = {}
    /\ AppliesTo \in [Content -> SUBSET EntityRef]
    /\ System \in EntityRef /\ Components \subseteq EntityRef
    /\ {MaxChanges, MaxFaults, MaxTimeouts} \subseteq Nat

VARIABLES
    catalog,  \* repositories of the components in the catalog
    main,     \* the RiSc file on the default branch of each repository
    branch,   \* the RiSc file on its draft branch
    index,    \* table risk_scorecard_risc_index, by source_file_path
    refs,     \* table risk_scorecard_risc_index_entity
    job,      \* local state of each refresh
    query,    \* a query for the system
    settled,  \* history: did the last replacement overlap no other one?
    used      \* how much of each bound is used

world == <<catalog, main, branch>>
tables == <<index, refs>>
vars == <<catalog, main, branch, index, refs, job, query, settled, used>>

File == Content \cup {NoFile}

Entries == [Repo -> File]

PCs == {"idle", "load", "catalog", "list", "main", "branches", "branch",
        "commit"}

\* late        the timeout has passed
\* prev        previousIndex; loaded: it could be read
\* todo        repositories still to read; repo: the one that is being read
\* found       what was found on its default branch
\* result      the index being built; failed: what fell back on prev
\* overlapped  another replacement was under way during this one
\* alone       history: no other refresh was under way during this one
\* changed     history: repositories that changed during this refresh
Job == [pc : PCs, late : BOOLEAN, prev : Entries, loaded : BOOLEAN,
        todo : SUBSET Repo, repo : Repo, found : File, result : Entries,
        failed : SUBSET Repo, overlapped : BOOLEAN, alone : BOOLEAN,
        changed : SUBSET Repo]

\* steady  history: repositories whose entry has been the same since the query
\*         began, in settled tables
Query == [pc : {"idle", "components"}, todo : SUBSET EntityRef,
          found : SUBSET Repo, steady : SUBSET Repo]

TypeOK ==
    /\ catalog \subseteq Repo
    /\ main \in Entries /\ branch \in [Repo -> File \cup {NoBranch}]
    /\ index \in Entries /\ refs \subseteq EntityRef \X Repo
    /\ job \in [Refresh -> Job]
    /\ query \in Query
    /\ settled \in BOOLEAN
    /\ used \in [changes : 0..MaxChanges, faults : 0..MaxFaults,
                 timeouts : 0..MaxTimeouts]

Empty == [r \in Repo |-> NoFile]

\* toRiScEntityIndexRows of every entry.
RefsOf(entries) ==
    {x \in EntityRef \X Repo : /\ entries[x[2]] # NoFile
                               /\ x[1] \in AppliesTo[entries[x[2]]]}

Idle == [pc |-> "idle", late |-> FALSE, prev |-> Empty, loaded |-> TRUE,
         todo |-> {}, repo |-> CHOOSE r \in Repo : TRUE, found |-> NoFile,
         result |-> Empty, failed |-> {}, overlapped |-> FALSE, alone |-> TRUE,
         changed |-> {}]

NoQuery == [pc |-> "idle", todo |-> {}, found |-> {}, steady |-> {}]

\* Any index an earlier refresh may have stored.
Init ==
    /\ catalog \in SUBSET Repo
    /\ main \in Entries /\ branch \in [Repo -> File \cup {NoBranch}]
    /\ index \in Entries /\ refs = RefsOf(index)
    /\ job = [f \in Refresh |-> Idle]
    /\ query = NoQuery
    /\ settled = TRUE
    /\ used = [changes |-> 0, faults |-> 0, timeouts |-> 0]

At(f, pc) == job[f].pc = pc

Running(f) == ~At(f, "idle")

Others(f) == Refresh \ {f}

\* A step of a refresh that touches neither the world nor the tables.
Local == UNCHANGED <<catalog, main, branch, index, refs, query, settled>>

Fault == /\ used.faults < MaxFaults
         /\ used' = [used EXCEPT !.faults = @ + 1]

NoFault == UNCHANGED used

-----------------------------------------------------------------------------
(* The scheduled task: RiScIndexScheduledRefresh.refreshIndex.             *)

Start(f) ==
    /\ At(f, "idle")
    /\ \A g \in Others(f) : Running(g) => job[g].late
    /\ job' = [g \in Refresh |->
          IF g = f THEN [Idle EXCEPT !.pc = "load",
                            !.alone = \A h \in Others(f) : ~Running(h)]
                   ELSE [job[g] EXCEPT !.alone = @ /\ ~Running(g)]]
    /\ Local /\ NoFault

Timeout(f) ==
    /\ Running(f) /\ ~job[f].late
    /\ used.timeouts < MaxTimeouts
    /\ used' = [used EXCEPT !.timeouts = @ + 1]
    /\ job' = [job EXCEPT ![f].late = TRUE]
    /\ Local

LoadPrevious(f) ==
    /\ At(f, "load")
    /\ job' = [job EXCEPT ![f].pc = "catalog", ![f].prev = index]
    /\ Local /\ NoFault

\* getPreviousIndex goes on with no previous index when it cannot be read.
FailToLoadPrevious(f) ==
    /\ At(f, "load")
    /\ job' = [job EXCEPT ![f].pc = "catalog", ![f].loaded = FALSE]
    /\ Local /\ Fault

FetchRepos(f) ==
    /\ At(f, "catalog")
    /\ job' = [job EXCEPT ![f].pc = "list", ![f].todo = catalog]
    /\ Local /\ NoFault

\* An error outside the loop over the repositories ends the refresh, and so
\* does a restart of the backend.  A transaction that was open is rolled back.
Abandon(f) ==
    /\ Running(f)
    /\ job' = [job EXCEPT ![f] = Idle]
    /\ Local
    /\ Fault \/ (At(f, "commit") /\ job[f].overlapped /\ NoFault)

-----------------------------------------------------------------------------
(* Reading one repository: getRiScFiles.                                   *)

\* The repository is done with this entry; the loop goes on with the next.
Indexed(f, entry) ==
    [job[f] EXCEPT !.pc = "list", !.todo = @ \ {job[f].repo}, !.found = NoFile,
                   !.result = [@ EXCEPT ![job[f].repo] = entry]]

\* In the order of the catalog.
NextRepo(f) == CHOOSE r \in job[f].todo : TRUE

ListFiles(f) ==
    /\ At(f, "list")
    /\ job[f].todo # {}
    /\ LET r == NextRepo(f)
       IN  job' = [job EXCEPT
              ![f].pc = IF main[r] = NoFile THEN "branches" ELSE "main",
              ![f].repo = r]
    /\ Local /\ NoFault

ReadMainFile(f) ==
    /\ At(f, "main") /\ main[job[f].repo] # NoFile
    /\ job' = [job EXCEPT ![f].pc = "branches", ![f].found = main[job[f].repo]]
    /\ Local /\ NoFault

\* Mutant of ListBranches: the branches are no part of the index.
FaultyListBranches(f) ==
    /\ At(f, "branches")
    /\ job' = [job EXCEPT ![f] = Indexed(f, job[f].found)]
    /\ Local /\ NoFault

ListBranches(f) ==
    /\ At(f, "branches")
    /\ job' = [job EXCEPT ![f] =
          IF branch[job[f].repo] = NoBranch THEN Indexed(f, job[f].found)
                                            ELSE [@ EXCEPT !.pc = "branch"]]
    /\ Local /\ NoFault

\* Mutant of ReadBranchFile: does not expect the branch to be gone.
FaultyReadBranchFile(f) ==
    /\ At(f, "branch")
    /\ job' = [job EXCEPT ![f] =
          Indexed(f, IF branch[job[f].repo] # NoFile
                     THEN branch[job[f].repo] ELSE job[f].found)]
    /\ Local /\ NoFault

\* A RiSc that is deleted in its branch keeps its entry until that is merged.
ReadBranchFile(f) ==
    /\ At(f, "branch")
    /\ job' = [job EXCEPT ![f] =
          Indexed(f, IF branch[job[f].repo] \in Content
                     THEN branch[job[f].repo] ELSE job[f].found)]
    /\ Local /\ NoFault

\* Mutant of FallBack: leaves the repository out.
FaultyFallBack(f) ==
    [Indexed(f, NoFile) EXCEPT !.failed = @ \cup {job[f].repo}]

FallBack(f) ==
    [Indexed(f, job[f].prev[job[f].repo]) EXCEPT
        !.failed = @ \cup {job[f].repo}]

\* A file that was listed is gone when it is read.
MissMainFile(f) ==
    /\ At(f, "main") /\ main[job[f].repo] = NoFile
    /\ job' = [job EXCEPT ![f] = FallBack(f)]
    /\ Local /\ NoFault

\* A call fails for good: after two more attempts if the error is transient.  A
\* failing listing is seen at the call that follows it.
FailToRead(f) ==
    /\ job[f].pc \in {"main", "branches", "branch"}
    /\ job' = [job EXCEPT ![f] = FallBack(f)]
    /\ Local /\ Fault

-----------------------------------------------------------------------------
(* replaceIndex: one transaction that empties and fills both tables.       *)

BeginReplace(f) ==
    /\ At(f, "list") /\ job[f].todo = {}
    /\ LET Concurrent(g) == g # f /\ At(g, "commit")
       IN  job' = [g \in Refresh |->
              IF g = f THEN [job[f] EXCEPT !.pc = "commit",
                                !.overlapped = \E h \in Refresh : Concurrent(h)]
              ELSE [job[g] EXCEPT !.overlapped = @ \/ Concurrent(g)]]
    /\ Local /\ NoFault

\* What happens to rows that another transaction committed meanwhile depends on
\* the isolation level: any of them may survive, except an entry with the key
\* of a new one.
Survivors(f, rows) == IF job[f].overlapped THEN SUBSET rows ELSE {{}}

\* Mutant of Replaced: keeps the rows of risk_scorecard_risc_index_entity.
FaultyReplaced(f, keptEntries, keptRefs) ==
    /\ index' = [r \in Repo |-> IF r \in keptEntries /\ job[f].result[r] = NoFile
                                THEN index[r] ELSE job[f].result[r]]
    /\ refs' = refs \cup RefsOf(job[f].result)

\* Mutant of Replaced: updates entries but never deletes one.
UpsertingReplaced(f, keptEntries, keptRefs) ==
    /\ index' = [r \in Repo |-> IF job[f].result[r] = NoFile
                                THEN index[r] ELSE job[f].result[r]]
    /\ refs' = RefsOf(index')

Replaced(f, keptEntries, keptRefs) ==
    /\ index' = [r \in Repo |-> IF r \in keptEntries /\ job[f].result[r] = NoFile
                                THEN index[r] ELSE job[f].result[r]]
    /\ refs' = keptRefs \cup RefsOf(job[f].result)

CommitReplace(f) ==
    /\ At(f, "commit")
    /\ \E keptEntries \in Survivors(f, Repo), keptRefs \in Survivors(f, refs) :
          Replaced(f, keptEntries, keptRefs)
    /\ settled' = ~job[f].overlapped
    /\ job' = [job EXCEPT ![f] = Idle]
    /\ query' = [query EXCEPT
          !.steady = {r \in @ : settled' /\ index'[r] = index[r]}]
    /\ UNCHANGED world /\ NoFault

-----------------------------------------------------------------------------
(* GET /riscs of a system: the RiScs of the system itself, then those of   *)
(* its components, in parallel; each read joins the tables in one          *)
(* statement, and what is found is merged by source_file_path.             *)

RiScsForEntityRef(e) == {r \in Repo : index[r] # NoFile /\ <<e, r>> \in refs}

QueryStep == UNCHANGED <<catalog, main, branch, index, refs, job, settled, used>>

\* Mutant of ReadSystem: the components' RiScs replace the system's own.
FaultyReadSystem ==
    /\ query.pc = "idle"
    /\ query' = [pc |-> "components", todo |-> Components, found |-> {},
                 steady |-> IF settled THEN Repo ELSE {}]
    /\ QueryStep

ReadSystem ==
    /\ query.pc = "idle"
    /\ query' = [pc |-> "components", todo |-> Components,
                 found |-> RiScsForEntityRef(System),
                 steady |-> IF settled THEN Repo ELSE {}]
    /\ QueryStep

ReadComponent ==
    /\ query.pc = "components"
    /\ \E e \in query.todo :
          query' = [query EXCEPT !.todo = @ \ {e},
                                 !.found = @ \cup RiScsForEntityRef(e)]
    /\ QueryStep

AnswerQuery ==
    /\ query.pc = "components" /\ query.todo = {}
    /\ query' = NoQuery
    /\ QueryStep

-----------------------------------------------------------------------------
(* What happens in the catalog and on GitHub.                              *)

Change(changed) ==
    /\ used.changes < MaxChanges
    /\ used' = [used EXCEPT !.changes = @ + 1]
    /\ job' = [f \in Refresh |->
          IF Running(f) THEN [job[f] EXCEPT !.changed = @ \cup changed]
                        ELSE job[f]]
    /\ UNCHANGED <<index, refs, query, settled>>

ChangeCatalog(r) ==
    /\ catalog' = IF r \in catalog THEN catalog \ {r} ELSE catalog \cup {r}
    /\ UNCHANGED <<main, branch>>
    /\ Change({r})

SaveDraft(r) ==
    /\ \E file \in File \ {branch[r]} : branch' = [branch EXCEPT ![r] = file]
    /\ UNCHANGED <<catalog, main>>
    /\ Change({r})

MergeDraft(r) ==
    /\ branch[r] \notin {NoBranch, main[r]}
    /\ main' = [main EXCEPT ![r] = branch[r]]
    /\ UNCHANGED <<catalog, branch>>
    /\ Change({r})

DeleteBranch(r) ==
    /\ branch[r] # NoBranch
    /\ branch' = [branch EXCEPT ![r] = NoBranch]
    /\ UNCHANGED <<catalog, main>>
    /\ Change({r})

-----------------------------------------------------------------------------

\* What a refresh does when nothing goes wrong.
Advance(f) ==
    \/ LoadPrevious(f) \/ FetchRepos(f)
    \/ ListFiles(f) \/ ReadMainFile(f) \/ MissMainFile(f)
    \/ ListBranches(f) \/ ReadBranchFile(f)
    \/ BeginReplace(f) \/ CommitReplace(f)

GoWrong(f) == Timeout(f) \/ FailToLoadPrevious(f) \/ FailToRead(f) \/ Abandon(f)

AnswerSystem == ReadSystem \/ ReadComponent \/ AnswerQuery

Elsewhere ==
    \E r \in Repo : ChangeCatalog(r) \/ SaveDraft(r) \/ MergeDraft(r) \/ DeleteBranch(r)

Next ==
    \/ \E f \in Refresh : Start(f) \/ Advance(f) \/ GoWrong(f)
    \/ AnswerSystem
    \/ Elsewhere

\* The scheduler invokes the task again and again, and every call a refresh
\* awaits is answered or fails.
Fairness ==
    /\ WF_vars(\E f \in Refresh : Start(f))
    /\ \A f \in Refresh : WF_vars(Advance(f))

Spec == Init /\ [][Next]_vars

FairSpec == Spec /\ Fairness
=============================================================================
