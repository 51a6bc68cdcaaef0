--------------------------- MODULE RiScIndexProofs --------------------------
(***************************************************************************)
(* Proofs about RiScIndex for any set of repositories, contents, entity    *)
(* refs and overlapping refreshes, and for any bounds.                     *)
(***************************************************************************)
EXTENDS RiScIndexProperties, TLAPS

USE DEF Entries

-----------------------------------------------------------------------------
(* Types.                                                                  *)

\* A refresh that is not running, and an index without entries, are well typed.
LEMMA IdleType == Idle \in Job /\ Empty \in Entries /\ NoQuery \in Query
<1>1. (CHOOSE r \in Repo : TRUE) \in Repo
  BY IndexAssumption
<1> QED
  BY <1>1 DEF Idle, Job, PCs, Empty, File, NoQuery, Query

\* The rows of table risk_scorecard_risc_index_entity are pairs.
LEMMA RefsType == \A entries : RefsOf(entries) \subseteq EntityRef \X Repo
BY DEF RefsOf

\* The initial state is well typed.
LEMMA InitType == Init => TypeOK
BY IdleType, RefsType, IndexAssumption DEF Init, TypeOK

\* The bookkeeping of the bounds stays within them.
LEMMA UsedType ==
    ASSUME TypeOK, Fault \/ NoFault
    PROVE  used' \in [changes : 0..MaxChanges, faults : 0..MaxFaults,
                      timeouts : 0..MaxTimeouts]
BY IndexAssumption DEF TypeOK, Fault, NoFault

\* The next repository of the loop is one that is still to be read.
LEMMA NextRepoType ==
    ASSUME NEW f \in Refresh, job[f].todo # {}
    PROVE  NextRepo(f) \in job[f].todo
BY DEF NextRepo

\* Whatever is put into the index being built, the refresh stays well typed.
LEMMA IndexedType ==
    ASSUME TypeOK, NEW f \in Refresh, NEW entry \in File
    PROVE  Indexed(f, entry) \in Job /\ FallBack(f) \in Job
<1>1. job[f] \in Job
  BY DEF TypeOK
<1>2. \A e \in File : Indexed(f, e) \in Job
  BY <1>1 DEF Indexed, Job, PCs, File
<1>3. job[f].prev[job[f].repo] \in File
  BY <1>1 DEF Job
<1> QED
  BY <1>1, <1>2, <1>3 DEF FallBack, Job

\* Each step of a refresh before its transaction keeps it well typed.
LEMMA LocalStepType ==
    ASSUME TypeOK, NEW f \in Refresh,
           \/ LoadPrevious(f) \/ FetchRepos(f) \/ ListFiles(f) \/ ReadMainFile(f)
           \/ MissMainFile(f) \/ ListBranches(f) \/ ReadBranchFile(f)
           \/ Timeout(f) \/ FailToLoadPrevious(f) \/ FailToRead(f) \/ Abandon(f)
    PROVE  TypeOK'
<1>1. job[f] \in Job /\ index \in Entries /\ catalog \subseteq Repo
  BY DEF TypeOK
<1>2. main \in [Repo -> File] /\ branch \in [Repo -> File \cup {NoBranch}]
  BY DEF TypeOK
<1>3. SUFFICES ASSUME \E j \in Job : job' = [job EXCEPT ![f] = j],
                      Local,
                      used' \in [changes : 0..MaxChanges, faults : 0..MaxFaults,
                                 timeouts : 0..MaxTimeouts]
               PROVE  TypeOK'
  <2>1. CASE LoadPrevious(f)
    BY <1>1, <2>1, UsedType DEF LoadPrevious, TypeOK, Job, PCs
  <2>2. CASE FetchRepos(f)
    BY <1>1, <2>2, UsedType DEF FetchRepos, TypeOK, Job, PCs
  <2>3. CASE ListFiles(f)
    <3>1. NextRepo(f) \in Repo
      BY <1>1, <2>3, NextRepoType DEF ListFiles, Job
    <3> QED
      BY <1>1, <2>3, <3>1, UsedType DEF ListFiles, TypeOK, Job, PCs
  <2>4. CASE ReadMainFile(f)
    BY <1>1, <1>2, <2>4, UsedType DEF ReadMainFile, TypeOK, Job, PCs
  <2>5. CASE MissMainFile(f)
    BY <2>5, UsedType, IndexedType DEF MissMainFile, TypeOK, File
  <2>6. CASE ListBranches(f)
    <3>1. job[f].found \in File
      BY <1>1 DEF Job
    <3>2. Indexed(f, job[f].found) \in Job /\ [job[f] EXCEPT !.pc = "branch"] \in Job
      BY <1>1, <3>1, IndexedType DEF Job, PCs
    <3> QED
      BY <2>6, <3>2, UsedType DEF ListBranches, TypeOK
  <2>7. CASE ReadBranchFile(f)
    <3>1. job[f].found \in File
      BY <1>1 DEF Job
    <3> QED
      BY <2>7, <3>1, UsedType, IndexedType DEF ReadBranchFile, TypeOK, File
  <2>8. CASE Timeout(f)
    <3>1. [job[f] EXCEPT !.late = TRUE] \in Job
      BY <1>1 DEF Job
    <3>2. used' \in [changes : 0..MaxChanges, faults : 0..MaxFaults,
                    timeouts : 0..MaxTimeouts]
      BY <2>8, IndexAssumption DEF Timeout, TypeOK
    <3> QED
      BY <2>8, <3>1, <3>2 DEF Timeout
  <2>9. CASE FailToLoadPrevious(f)
    BY <1>1, <2>9, UsedType DEF FailToLoadPrevious, TypeOK, Job, PCs
  <2>10. CASE FailToRead(f)
    BY <2>10, UsedType, IndexedType DEF FailToRead, TypeOK, File
  <2>11. CASE Abandon(f)
    BY <2>11, UsedType, IdleType DEF Abandon, TypeOK
  <2> QED
    BY <2>1, <2>2, <2>3, <2>4, <2>5, <2>6, <2>7, <2>8, <2>9, <2>10, <2>11
<1> QED
  BY <1>3 DEF TypeOK, Local

\* A refresh that starts, or begins to replace the index, tells the others of it
\* and nothing else.
LEMMA ConcurrentStepType ==
    ASSUME TypeOK, NEW f \in Refresh, Start(f) \/ BeginReplace(f)
    PROVE  TypeOK'
<1>1. job \in [Refresh -> Job] /\ \A g \in Refresh : job[g] \in Job
  BY DEF TypeOK
<1>2. job' \in [Refresh -> Job]
  <2>1. CASE Start(f)
    <3>1. ASSUME NEW alone \in BOOLEAN
          PROVE  [Idle EXCEPT !.pc = "load", !.alone = alone] \in Job
      BY IdleType DEF Job, PCs
    <3>2. ASSUME NEW g \in Refresh, NEW alone \in BOOLEAN
          PROVE  [job[g] EXCEPT !.alone = alone] \in Job
      BY <1>1 DEF Job
    <3>3. \A g \in Refresh : job[g].alone \in BOOLEAN
      BY <1>1 DEF Job
    <3>4. ASSUME NEW g \in Refresh
          PROVE  job'[g] \in Job
      BY <2>1, <3>1, <3>2, <3>3 DEF Start, Running, At
    <3> QED
      BY <2>1, <3>4 DEF Start
  <2>2. CASE BeginReplace(f)
    <3> DEFINE Concurrent(g) == g # f /\ At(g, "commit")
    <3>1. ASSUME NEW overlapped \in BOOLEAN
          PROVE  [job[f] EXCEPT !.pc = "commit", !.overlapped = overlapped] \in Job
      BY <1>1 DEF Job, PCs
    <3>2. ASSUME NEW g \in Refresh
          PROVE  [job[g] EXCEPT !.overlapped = @ \/ Concurrent(g)] \in Job
      BY <1>1 DEF Job
    <3>3. ASSUME NEW g \in Refresh
          PROVE  job'[g] \in Job
      BY <2>2, <3>1, <3>2 DEF BeginReplace
    <3> QED
      BY <2>2, <3>3 DEF BeginReplace
  <2> QED
    BY <2>1, <2>2
<1> QED
  BY <1>2 DEF Start, BeginReplace, Local, NoFault, TypeOK

\* A replacement leaves well-typed tables, whatever survives of the old ones.
LEMMA CommitType ==
    ASSUME TypeOK, NEW f \in Refresh, CommitReplace(f)
    PROVE  TypeOK'
<1>1. PICK keptEntries \in Survivors(f, Repo), keptRefs \in Survivors(f, refs) :
          Replaced(f, keptEntries, keptRefs)
  BY DEF CommitReplace
<1>2. keptRefs \subseteq EntityRef \X Repo
  BY DEF Survivors, TypeOK
<1>3. job[f].result \in Entries /\ index \in Entries /\ job[f].overlapped \in BOOLEAN
  BY DEF TypeOK, Job
<1>4. index' \in Entries /\ refs' \subseteq EntityRef \X Repo
  BY <1>1, <1>2, <1>3, RefsType DEF Replaced
<1>5. query' \in Query
  BY DEF CommitReplace, TypeOK, Query
<1>6. job' \in [Refresh -> Job]
  BY IdleType DEF CommitReplace, TypeOK
<1> QED
  BY <1>3, <1>4, <1>5, <1>6 DEF CommitReplace, NoFault, world, TypeOK

\* A query finds repositories, and changes nothing but itself.
LEMMA AnswerSystemType ==
    ASSUME TypeOK, AnswerSystem
    PROVE  TypeOK'
<1>1. query' \in Query
  <2>1. query \in Query /\ \A e : RiScsForEntityRef(e) \subseteq Repo
    BY DEF TypeOK, RiScsForEntityRef
  <2>2. CASE ReadSystem
    BY <2>1, <2>2, IndexAssumption DEF ReadSystem, Query
  <2>3. CASE ReadComponent
    BY <2>1, <2>3 DEF ReadComponent, Query
  <2>4. CASE AnswerQuery
    BY <2>4, IdleType DEF AnswerQuery
  <2> QED
    BY <2>2, <2>3, <2>4 DEF AnswerSystem
<1> QED
  BY <1>1 DEF AnswerSystem, ReadSystem, ReadComponent, AnswerQuery, QueryStep, TypeOK

\* What happens on GitHub and in the catalog keeps both well typed.
LEMMA ElsewhereType ==
    ASSUME TypeOK, Elsewhere
    PROVE  TypeOK'
<1>1. PICK r \in Repo : ChangeCatalog(r) \/ SaveDraft(r) \/ MergeDraft(r) \/ DeleteBranch(r)
  BY DEF Elsewhere
<1>2. Change({r})
  BY <1>1 DEF ChangeCatalog, SaveDraft, MergeDraft, DeleteBranch
<1>3. job' \in [Refresh -> Job]
  <2>1. ASSUME NEW f \in Refresh
        PROVE  job'[f] \in Job
    <3>1. job[f] \in Job
      BY DEF TypeOK
    <3> QED
      BY <1>2, <3>1 DEF Change, Job
  <2> QED
    BY <1>2, <2>1 DEF Change
<1>4. used' \in [changes : 0..MaxChanges, faults : 0..MaxFaults,
                timeouts : 0..MaxTimeouts]
  BY <1>2, IndexAssumption DEF Change, TypeOK
<1>5. catalog' \subseteq Repo
  BY <1>1 DEF ChangeCatalog, SaveDraft, MergeDraft, DeleteBranch, TypeOK
<1>6. main' \in Entries
  BY <1>1 DEF ChangeCatalog, SaveDraft, MergeDraft, DeleteBranch, TypeOK
<1>7. branch' \in [Repo -> File \cup {NoBranch}]
  BY <1>1 DEF ChangeCatalog, SaveDraft, MergeDraft, DeleteBranch, TypeOK
<1> QED
  BY <1>2, <1>3, <1>4, <1>5, <1>6, <1>7 DEF Change, TypeOK

\* The inductive step of IndexTypeCorrect.
LEMMA NextType == TypeOK /\ [Next]_vars => TypeOK'
<1> SUFFICES ASSUME TypeOK, [Next]_vars PROVE TypeOK'
  OBVIOUS
<1>1. CASE UNCHANGED vars
  BY <1>1 DEF vars, TypeOK
<1>2. ASSUME NEW f \in Refresh, Start(f) \/ Advance(f) \/ GoWrong(f)
      PROVE  TypeOK'
  BY <1>2, LocalStepType, ConcurrentStepType, CommitType DEF Advance, GoWrong
<1> QED
  BY <1>1, <1>2, AnswerSystemType, ElsewhereType DEF Next

\* The index holds no entry for a missing file or branch, its rows point to
\* repositories, and a refresh reads only repositories that were in the catalog.
THEOREM IndexTypeCorrect == Spec => []TypeOK
BY InitType, NextType, PTL DEF Spec

-----------------------------------------------------------------------------
(* The replacement.                                                        *)

\* The initial tables agree.
LEMMA InitRepaired == Init => LoneReplacementRepairs
BY DEF Init, LoneReplacementRepairs, TablesAgree

\* A replacement that overlaps no other one stores the rows of its own entries;
\* nothing else touches the tables.
LEMMA NextRepaired ==
    ASSUME TypeOK, LoneReplacementRepairs, [Next]_vars
    PROVE  LoneReplacementRepairs'
<1> USE DEF LoneReplacementRepairs, TablesAgree
<1>1. CASE UNCHANGED <<index, refs, settled>>
  BY <1>1 DEF RefsOf
<1>2. ASSUME NEW f \in Refresh, CommitReplace(f), settled'
      PROVE  refs' = RefsOf(index')
  <2>1. ~job[f].overlapped /\ job[f].result \in Entries
    BY <1>2 DEF CommitReplace, TypeOK, Job
  <2>2. PICK keptEntries \in Survivors(f, Repo), keptRefs \in Survivors(f, refs) :
            Replaced(f, keptEntries, keptRefs)
    BY <1>2 DEF CommitReplace
  <2>3. keptEntries = {} /\ keptRefs = {}
    BY <2>1 DEF Survivors
  <2>4. index' = job[f].result
    BY <2>1, <2>2, <2>3 DEF Replaced
  <2> QED
    BY <2>2, <2>3, <2>4 DEF Replaced
<1> QED
  BY <1>1, <1>2
     DEF vars, Next, Advance, GoWrong, AnswerSystem, Elsewhere, Start, Local,
         LoadPrevious, FetchRepos, ListFiles, ReadMainFile, MissMainFile,
         ListBranches, ReadBranchFile, BeginReplace, Timeout, Abandon,
         FailToLoadPrevious, FailToRead, ReadSystem, ReadComponent, AnswerQuery,
         QueryStep, ChangeCatalog, SaveDraft, MergeDraft, DeleteBranch, Change

\* Whatever overlapping replacements have made of the two tables, they agree
\* after the next replacement that overlaps no other one.
THEOREM TablesAreRepaired == Spec => []LoneReplacementRepairs
<1>1. Init => TypeOK /\ LoneReplacementRepairs
  BY InitType, InitRepaired
<1>2. TypeOK /\ LoneReplacementRepairs /\ [Next]_vars
        => (TypeOK /\ LoneReplacementRepairs)'
  BY NextType, NextRepaired
<1> QED
  BY <1>1, <1>2, PTL DEF Spec

-----------------------------------------------------------------------------
(* The work of a refresh.                                                  *)

\* A refresh without company overlaps no replacement, and the previous index it
\* has read is still the index.
WorksAlone(f) ==
    job[f].alone /\ Running(f) =>
        /\ \A g \in Others(f) : ~Running(g)
        /\ ~job[f].overlapped
        /\ job[f].loaded /\ ~At(f, "load") => job[f].prev = index

\* Repositories are read one after the other, each one once.
ReadsInTurn(f) ==
    /\ job[f].pc \in {"main", "branches", "branch"} => job[f].repo \in job[f].todo
    /\ At(f, "commit") => job[f].todo = {}
    /\ job[f].failed \cap job[f].todo = {}
    /\ job[f].pc \in {"load", "catalog"} => job[f].failed = {}

\* What could not be read is as in the previous index.
KeepsPrevious(f) ==
    \A r \in job[f].failed : job[f].result[r] = job[f].prev[r]

\* What was read so far of repositories that did not change is as it is.
FoundSoFar(f) ==
    /\ job[f].pc \in {"load", "catalog"} => job[f].result = Empty
    /\ job[f].pc \in {"load", "catalog", "list"} => job[f].found = NoFile
    /\ job[f].pc \in {"main", "branches", "branch", "list", "commit"} =>
          \A r \in Repo \ job[f].changed :
              /\ r \in job[f].todo => r \in catalog
              /\ r \notin job[f].todo \cup job[f].failed =>
                    job[f].result[r] = Current(r)
    /\ At(f, "main") => job[f].found = NoFile
    /\ job[f].pc \in {"branches", "branch"} /\ job[f].repo \notin job[f].changed =>
          job[f].found = main[job[f].repo]

WorkInv(f) ==
    WorksAlone(f) /\ ReadsInTurn(f) /\ KeepsPrevious(f) /\ FoundSoFar(f)

IndexInv == TypeOK /\ \A f \in Refresh : WorkInv(f)

\* No refresh works at the start.
LEMMA InitWork == Init => \A f \in Refresh : WorkInv(f)
<1> SUFFICES ASSUME Init, NEW f \in Refresh PROVE WorkInv(f)
  OBVIOUS
<1>1. job[f].pc = "idle" /\ job[f].failed = {}
  BY DEF Init, Idle
<1> QED
  BY <1>1 DEF WorkInv, WorksAlone, ReadsInTurn, KeepsPrevious, FoundSoFar,
              Running, At

\* A step of one refresh that changes neither world nor tables leaves the work
\* of the others as it is: whoever is alone is not among them.
LEMMA OthersKeepWork ==
    ASSUME IndexInv, NEW f \in Refresh, Running(f), Local,
           NEW j, job' = [job EXCEPT ![f] = j],
           NEW g \in Others(f)
    PROVE  WorkInv(g)'
<1>1. TypeOK /\ WorkInv(g) /\ g \in Refresh /\ f \in Others(g)
  BY DEF IndexInv, Others
<1>2. job'[g] = job[g]
  BY <1>1 DEF TypeOK, Others
<1>3. WorksAlone(g)'
  BY <1>1, <1>2 DEF WorkInv, WorksAlone, Running, At
<1>4. ReadsInTurn(g)' /\ KeepsPrevious(g)'
  BY <1>1, <1>2 DEF WorkInv, ReadsInTurn, KeepsPrevious, At
<1>5. \A r : Current(r)' = Current(r)
  BY DEF Local, Current
<1>6. FoundSoFar(g)'
  BY <1>1, <1>2, <1>5 DEF WorkInv, FoundSoFar, At, Local
<1> QED
  BY <1>3, <1>4, <1>6 DEF WorkInv

\* What a refresh adds to the index it builds, and marks as read.
LEMMA IndexedFields ==
    ASSUME TypeOK, NEW f \in Refresh, NEW entry \in File
    PROVE  LET j == Indexed(f, entry)
           IN  /\ j.pc = "list" /\ j.todo = job[f].todo \ {job[f].repo}
               /\ j.found = NoFile /\ j.failed = job[f].failed
               /\ j.result = [job[f].result EXCEPT ![job[f].repo] = entry]
               /\ j.prev = job[f].prev /\ j.loaded = job[f].loaded
               /\ j.alone = job[f].alone /\ j.overlapped = job[f].overlapped
               /\ j.changed = job[f].changed
BY DEF TypeOK, Indexed, Job

\* The repository that was read has the entry it should have, or has not been
\* the same all along: the work goes on with the others.
LEMMA IndexedWork ==
    ASSUME IndexInv, NEW f \in Refresh, Local,
           job[f].pc \in {"main", "branches", "branch"},
           NEW entry \in File, job' = [job EXCEPT ![f] = Indexed(f, entry)],
           job[f].repo \in job[f].changed \/ entry = Current(job[f].repo)
    PROVE  \A g \in Refresh : WorkInv(g)'
<1>1. TypeOK /\ WorkInv(f) /\ Running(f) /\ job[f] \in Job
  BY DEF IndexInv, TypeOK, Running, At
<1>2. LET j == job'[f]
      IN  /\ j.pc = "list" /\ j.todo = job[f].todo \ {job[f].repo}
          /\ j.found = NoFile /\ j.failed = job[f].failed
          /\ j.result = [job[f].result EXCEPT ![job[f].repo] = entry]
          /\ j.prev = job[f].prev /\ j.loaded = job[f].loaded
          /\ j.alone = job[f].alone /\ j.overlapped = job[f].overlapped
          /\ j.changed = job[f].changed
  <2>1. job'[f] = Indexed(f, entry)
    BY <1>1 DEF TypeOK
  <2> QED
    BY <1>1, <2>1, IndexedFields
<1>3. job[f].repo \in job[f].todo /\ job[f].repo \notin job[f].failed
  BY <1>1 DEF WorkInv, ReadsInTurn
<1>4. job[f].result \in [Repo -> File] /\ job[f].repo \in Repo
      /\ job[f].failed \subseteq Repo
  BY <1>1 DEF Job
<1>5. \A g \in Others(f) : job'[g] = job[g]
  BY <1>1 DEF TypeOK, Others
<1>6. WorksAlone(f)'
  BY <1>1, <1>2, <1>5 DEF WorkInv, WorksAlone, Running, At, Local, Others
<1>7. ReadsInTurn(f)'
  BY <1>1, <1>2, <1>3 DEF WorkInv, ReadsInTurn, At
<1>8. KeepsPrevious(f)'
  BY <1>1, <1>2, <1>3, <1>4 DEF WorkInv, KeepsPrevious
<1>9. \A r : Current(r)' = Current(r)
  BY DEF Local, Current
<1>10. FoundSoFar(f)'
  BY <1>1, <1>2, <1>3, <1>4, <1>9 DEF WorkInv, FoundSoFar, At, Local
<1>11. WorkInv(f)'
  BY <1>6, <1>7, <1>8, <1>10 DEF WorkInv
<1> QED
  BY <1>1, <1>11, OthersKeepWork DEF Others

\* A repository that could not be read has the entry of the previous index.
LEMMA FallBackWork ==
    ASSUME IndexInv, NEW f \in Refresh, Local,
           job[f].pc \in {"main", "branches", "branch"},
           job' = [job EXCEPT ![f] = FallBack(f)]
    PROVE  \A g \in Refresh : WorkInv(g)'
<1>1. TypeOK /\ WorkInv(f) /\ Running(f) /\ job[f] \in Job
  BY DEF IndexInv, TypeOK, Running, At
<1> DEFINE entry == job[f].prev[job[f].repo]
<1>2. entry \in File /\ job[f].repo \in Repo /\ job[f].failed \subseteq Repo
      /\ job[f].result \in [Repo -> File]
  BY <1>1 DEF Job
<1>3. job[f].repo \in job[f].todo /\ job[f].repo \notin job[f].failed
  BY <1>1 DEF WorkInv, ReadsInTurn
<1>4. LET j == job'[f]
      IN  /\ j.pc = "list" /\ j.todo = job[f].todo \ {job[f].repo}
          /\ j.found = NoFile /\ j.failed = job[f].failed \cup {job[f].repo}
          /\ j.result = [job[f].result EXCEPT ![job[f].repo] = entry]
          /\ j.prev = job[f].prev /\ j.loaded = job[f].loaded
          /\ j.alone = job[f].alone /\ j.overlapped = job[f].overlapped
          /\ j.changed = job[f].changed
  <2> DEFINE i == Indexed(f, entry)
  <2>1. i \in Job
    BY <1>1, <1>2, IndexedType
  <2>2. /\ i.pc = "list" /\ i.todo = job[f].todo \ {job[f].repo}
        /\ i.found = NoFile /\ i.failed = job[f].failed
        /\ i.result = [job[f].result EXCEPT ![job[f].repo] = entry]
        /\ i.prev = job[f].prev /\ i.loaded = job[f].loaded
        /\ i.alone = job[f].alone /\ i.overlapped = job[f].overlapped
        /\ i.changed = job[f].changed
    BY <1>1, <1>2, IndexedFields
  <2>3. job'[f] = [i EXCEPT !.failed = @ \cup {job[f].repo}]
    BY <1>1 DEF TypeOK, FallBack
  <2> HIDE DEF i, entry
  <2> QED
    BY <2>1, <2>2, <2>3 DEF Job
<1> HIDE DEF entry
<1>5. \A g \in Others(f) : job'[g] = job[g]
  BY <1>1 DEF TypeOK, Others
<1>6. WorksAlone(f)'
  BY <1>1, <1>4, <1>5 DEF WorkInv, WorksAlone, Running, At, Local, Others
<1>7. ReadsInTurn(f)'
  BY <1>1, <1>3, <1>4 DEF WorkInv, ReadsInTurn, At
<1>8. KeepsPrevious(f)'
  BY <1>1, <1>2, <1>3, <1>4 DEF WorkInv, KeepsPrevious, entry
<1>9. \A r : Current(r)' = Current(r)
  BY DEF Local, Current
<1>10. FoundSoFar(f)'
  BY <1>1, <1>2, <1>3, <1>4, <1>9 DEF WorkInv, FoundSoFar, At, Local
<1>11. WorkInv(f)'
  BY <1>6, <1>7, <1>8, <1>10 DEF WorkInv
<1> QED
  BY <1>1, <1>11, OthersKeepWork DEF Others

\* A step of a refresh that goes on alone, or in company, as before: what is
\* left to show is what it has read.
LEMMA PlainWork ==
    ASSUME IndexInv, NEW f \in Refresh, Running(f), Local,
           NEW j, job' = [job EXCEPT ![f] = j],
           j.pc # "idle", j.alone = job[f].alone, j.overlapped = job[f].overlapped,
           j.loaded /\ j.pc # "load" =>
              \/ j.prev = index
              \/ job[f].loaded /\ ~At(f, "load") /\ j.prev = job[f].prev,
           ReadsInTurn(f)', KeepsPrevious(f)', FoundSoFar(f)'
    PROVE  \A g \in Refresh : WorkInv(g)'
<1>1. WorkInv(f) /\ job'[f] = j /\ \A g \in Others(f) : job'[g] = job[g]
  BY DEF IndexInv, TypeOK, Others
<1>2. WorksAlone(f)'
  BY <1>1 DEF WorkInv, WorksAlone, Running, At, Local, Others
<1>3. WorkInv(f)'
  BY <1>2 DEF WorkInv
<1> QED
  BY <1>3, OthersKeepWork DEF Others

\* The steps that read nothing of a repository, or only the first half.
LEMMA PlainStepWork ==
    ASSUME IndexInv, NEW f \in Refresh,
           \/ LoadPrevious(f) \/ FailToLoadPrevious(f) \/ FetchRepos(f)
           \/ ListFiles(f) \/ ReadMainFile(f) \/ Timeout(f) \/ Abandon(f)
    PROVE  \A g \in Refresh : WorkInv(g)'
<1>1. TypeOK /\ WorkInv(f) /\ job[f] \in Job
  BY DEF IndexInv, TypeOK
<1>2. Running(f) /\ Local
  BY DEF LoadPrevious, FailToLoadPrevious, FetchRepos, ListFiles, ReadMainFile,
         Timeout, Abandon, Running, At
<1>3. \A r : Current(r)' = Current(r)
  BY <1>2 DEF Local, Current
<1>4. CASE LoadPrevious(f)
  <2> DEFINE j == [job[f] EXCEPT !.pc = "catalog", !.prev = index]
  <2>1. job' = [job EXCEPT ![f] = j]
    BY <1>4 DEF LoadPrevious
  <2>2. job'[f] = j
    BY <1>1, <2>1 DEF TypeOK
  <2>3. /\ j.pc = "catalog" /\ j.todo = job[f].todo
        /\ j.repo = job[f].repo /\ j.found = job[f].found
        /\ j.result = job[f].result /\ j.failed = job[f].failed
        /\ j.prev = index /\ j.loaded = job[f].loaded
        /\ j.alone = job[f].alone /\ j.overlapped = job[f].overlapped
        /\ j.changed = job[f].changed
    BY <1>1 DEF Job
  <2> HIDE DEF j
  <2>4. ReadsInTurn(f)'
    BY <1>1, <1>4, <2>2, <2>3 DEF WorkInv, ReadsInTurn, At, LoadPrevious
  <2>5. KeepsPrevious(f)'
    BY <1>1, <1>4, <2>2, <2>3 DEF WorkInv, KeepsPrevious, ReadsInTurn, At, LoadPrevious
  <2>6. FoundSoFar(f)'
    BY <1>1, <1>2, <1>3, <1>4, <2>2, <2>3
       DEF WorkInv, FoundSoFar, At, Local, LoadPrevious
  <2>7. j.pc # "idle"
    BY <1>2, <1>4, <2>3 DEF Running, At
  <2> QED
    BY <1>2, <1>4, <2>1, <2>3, <2>4, <2>5, <2>6, <2>7, PlainWork DEF At, LoadPrevious
<1>5. CASE FailToLoadPrevious(f)
  <2> DEFINE j == [job[f] EXCEPT !.pc = "catalog", !.loaded = FALSE]
  <2>1. job' = [job EXCEPT ![f] = j]
    BY <1>5 DEF FailToLoadPrevious
  <2>2. job'[f] = j
    BY <1>1, <2>1 DEF TypeOK
  <2>3. /\ j.pc = "catalog" /\ j.todo = job[f].todo
        /\ j.repo = job[f].repo /\ j.found = job[f].found
        /\ j.result = job[f].result /\ j.failed = job[f].failed
        /\ j.prev = job[f].prev /\ j.loaded = FALSE
        /\ j.alone = job[f].alone /\ j.overlapped = job[f].overlapped
        /\ j.changed = job[f].changed
    BY <1>1 DEF Job
  <2> HIDE DEF j
  <2>4. ReadsInTurn(f)'
    BY <1>1, <1>5, <2>2, <2>3 DEF WorkInv, ReadsInTurn, At, FailToLoadPrevious
  <2>5. KeepsPrevious(f)'
    BY <1>1, <1>5, <2>2, <2>3 DEF WorkInv, KeepsPrevious, ReadsInTurn, At, FailToLoadPrevious
  <2>6. FoundSoFar(f)'
    BY <1>1, <1>2, <1>3, <1>5, <2>2, <2>3
       DEF WorkInv, FoundSoFar, At, Local, FailToLoadPrevious
  <2>7. j.pc # "idle"
    BY <1>2, <1>5, <2>3 DEF Running, At
  <2> QED
    BY <1>2, <1>5, <2>1, <2>3, <2>4, <2>5, <2>6, <2>7, PlainWork DEF At, FailToLoadPrevious
<1>6. CASE FetchRepos(f)
  <2> DEFINE j == [job[f] EXCEPT !.pc = "list", !.todo = catalog]
  <2>1. job' = [job EXCEPT ![f] = j]
    BY <1>6 DEF FetchRepos
  <2>2. job'[f] = j
    BY <1>1, <2>1 DEF TypeOK
  <2>3. /\ j.pc = "list" /\ j.todo = catalog
        /\ j.repo = job[f].repo /\ j.found = job[f].found
        /\ j.result = job[f].result /\ j.failed = job[f].failed
        /\ j.prev = job[f].prev /\ j.loaded = job[f].loaded
        /\ j.alone = job[f].alone /\ j.overlapped = job[f].overlapped
        /\ j.changed = job[f].changed
    BY <1>1 DEF Job
  <2> HIDE DEF j
  <2>4. ReadsInTurn(f)'
    BY <1>1, <1>6, <2>2, <2>3 DEF WorkInv, ReadsInTurn, At, FetchRepos
  <2>5. KeepsPrevious(f)'
    BY <1>1, <1>6, <2>2, <2>3 DEF WorkInv, KeepsPrevious, ReadsInTurn, At, FetchRepos
  <2>6. FoundSoFar(f)'
    BY <1>1, <1>2, <1>3, <1>6, <2>2, <2>3
       DEF WorkInv, FoundSoFar, At, Local, FetchRepos, Current, Empty, ReadsInTurn
  <2>7. j.pc # "idle"
    BY <1>2, <1>6, <2>3 DEF Running, At
  <2> QED
    BY <1>2, <1>6, <2>1, <2>3, <2>4, <2>5, <2>6, <2>7, PlainWork DEF At, FetchRepos
<1>7. CASE ListFiles(f)
  <2> DEFINE r == NextRepo(f)
             pc == IF main[r] = NoFile THEN "branches" ELSE "main"
  <2>0. r \in job[f].todo /\ r \in Repo /\ pc \in {"branches", "main"}
    BY <1>1, <1>7, NextRepoType DEF ListFiles, Job
  <2> DEFINE j == [job[f] EXCEPT !.pc = pc, !.repo = r]
  <2>1. job' = [job EXCEPT ![f] = j]
    BY <1>7 DEF ListFiles
  <2>2. job'[f] = j
    BY <1>1, <2>1 DEF TypeOK
  <2>3. /\ j.pc = pc /\ j.todo = job[f].todo
        /\ j.repo = r /\ j.found = job[f].found
        /\ j.result = job[f].result /\ j.failed = job[f].failed
        /\ j.prev = job[f].prev /\ j.loaded = job[f].loaded
        /\ j.alone = job[f].alone /\ j.overlapped = job[f].overlapped
        /\ j.changed = job[f].changed
    BY <1>1, <2>0 DEF Job
  <2> HIDE DEF j
  <2>4. ReadsInTurn(f)'
    BY <1>1, <1>7, <2>0, <2>2, <2>3 DEF WorkInv, ReadsInTurn, At, ListFiles
  <2>5. KeepsPrevious(f)'
    BY <1>1, <2>2, <2>3 DEF WorkInv, KeepsPrevious
  <2>6. FoundSoFar(f)'
    <3>1. pc = "main" \/ main[r] = NoFile
      OBVIOUS
    <3> HIDE DEF pc, r
    <3> QED
      BY <1>1, <1>2, <1>3, <1>7, <2>0, <2>2, <2>3, <3>1
         DEF WorkInv, FoundSoFar, At, Local, ListFiles
  <2> HIDE DEF pc
  <2>7. j.pc # "idle"
    BY <1>2, <1>7, <2>3, <2>0 DEF Running, At
  <2> QED
    BY <1>2, <1>7, <2>1, <2>3, <2>4, <2>5, <2>6, <2>7, <2>0, PlainWork DEF At, ListFiles
<1>8. CASE ReadMainFile(f)
  <2> DEFINE found == main[job[f].repo]
  <2>0. found \in File
    BY <1>1 DEF TypeOK, Entries, Job
  <2> DEFINE j == [job[f] EXCEPT !.pc = "branches", !.found = found]
  <2>1. job' = [job EXCEPT ![f] = j]
    BY <1>8 DEF ReadMainFile
  <2>2. job'[f] = j
    BY <1>1, <2>1 DEF TypeOK
  <2>3. /\ j.pc = "branches" /\ j.todo = job[f].todo
        /\ j.repo = job[f].repo /\ j.found = found
        /\ j.result = job[f].result /\ j.failed = job[f].failed
        /\ j.prev = job[f].prev /\ j.loaded = job[f].loaded
        /\ j.alone = job[f].alone /\ j.overlapped = job[f].overlapped
        /\ j.changed = job[f].changed
    BY <1>1, <2>0 DEF Job
  <2> HIDE DEF j, found
  <2>4. ReadsInTurn(f)'
    BY <1>1, <1>8, <2>2, <2>3 DEF WorkInv, ReadsInTurn, At, ReadMainFile
  <2>5. KeepsPrevious(f)'
    BY <1>1, <1>8, <2>2, <2>3 DEF WorkInv, KeepsPrevious, ReadsInTurn, At, ReadMainFile
  <2>6. FoundSoFar(f)'
    BY <1>1, <1>2, <1>3, <1>8, <2>2, <2>3
       DEF WorkInv, FoundSoFar, At, Local, ReadMainFile, found
  <2>7. j.pc # "idle"
    BY <1>2, <1>8, <2>3, <2>0 DEF Running, At
  <2> QED
    BY <1>2, <1>8, <2>1, <2>3, <2>4, <2>5, <2>6, <2>7, <2>0, PlainWork DEF At, ReadMainFile
<1>9. CASE Timeout(f)
  <2> DEFINE j == [job[f] EXCEPT !.late = TRUE]
  <2>1. job' = [job EXCEPT ![f] = j]
    BY <1>9 DEF Timeout
  <2>2. job'[f] = j
    BY <1>1, <2>1 DEF TypeOK
  <2>3. /\ j.pc = job[f].pc /\ j.todo = job[f].todo
        /\ j.repo = job[f].repo /\ j.found = job[f].found
        /\ j.result = job[f].result /\ j.failed = job[f].failed
        /\ j.prev = job[f].prev /\ j.loaded = job[f].loaded
        /\ j.alone = job[f].alone /\ j.overlapped = job[f].overlapped
        /\ j.changed = job[f].changed
    BY <1>1 DEF Job
  <2> HIDE DEF j
  <2>4. ReadsInTurn(f)'
    BY <1>1, <1>9, <2>2, <2>3 DEF WorkInv, ReadsInTurn, At, Timeout
  <2>5. KeepsPrevious(f)'
    BY <1>1, <1>9, <2>2, <2>3 DEF WorkInv, KeepsPrevious, ReadsInTurn, At, Timeout
  <2>6. FoundSoFar(f)'
    BY <1>1, <1>2, <1>3, <1>9, <2>2, <2>3
       DEF WorkInv, FoundSoFar, At, Local, Timeout
  <2>7. j.pc # "idle"
    BY <1>2, <1>9, <2>3 DEF Running, At
  <2> QED
    BY <1>2, <1>9, <2>1, <2>3, <2>4, <2>5, <2>6, <2>7, PlainWork DEF At, Timeout
<1>10. CASE Abandon(f)
  <2>1. job' = [job EXCEPT ![f] = Idle]
    BY <1>10 DEF Abandon
  <2>2. job'[f].pc = "idle" /\ job'[f].failed = {}
    BY <1>1, <2>1 DEF TypeOK, Idle
  <2>3. WorkInv(f)'
    BY <2>2 DEF WorkInv, WorksAlone, ReadsInTurn, KeepsPrevious, FoundSoFar,
                Running, At
  <2> QED
    BY <1>2, <2>1, <2>3, OthersKeepWork DEF Others
<1> QED
  BY <1>4, <1>5, <1>6, <1>7, <1>8, <1>9, <1>10

\* The steps that end the reading of a repository, or go on to its branch.
LEMMA ReadStepWork ==
    ASSUME IndexInv, NEW f \in Refresh,
           \/ MissMainFile(f) \/ FailToRead(f)
           \/ ListBranches(f) \/ ReadBranchFile(f)
    PROVE  \A g \in Refresh : WorkInv(g)'
<1>1. TypeOK /\ WorkInv(f) /\ job[f] \in Job /\ Local
  BY DEF IndexInv, TypeOK, MissMainFile, FailToRead, ListBranches, ReadBranchFile
<1>2. job[f].found \in File /\ branch \in [Repo -> File \cup {NoBranch}]
      /\ job[f].repo \in Repo
  BY <1>1 DEF Job, TypeOK
<1>3. ASSUME job[f].pc \in {"branches", "branch"}, job[f].repo \notin job[f].changed
      PROVE  job[f].found = main[job[f].repo] /\ job[f].repo \in catalog
  BY <1>1, <1>2, <1>3 DEF WorkInv, FoundSoFar, ReadsInTurn
<1>4. CASE MissMainFile(f) \/ FailToRead(f)
  BY <1>1, <1>4, FallBackWork DEF MissMainFile, FailToRead, At
<1>5. CASE ListBranches(f)
  <2>1. CASE branch[job[f].repo] = NoBranch
    <3>1. job[f].repo \in job[f].changed \/ job[f].found = Current(job[f].repo)
      BY <1>3, <1>5, <2>1, IndexAssumption DEF ListBranches, At, Current
    <3> QED
      BY <1>1, <1>2, <1>5, <2>1, <3>1, IndexedWork DEF ListBranches, At
  <2>2. CASE branch[job[f].repo] # NoBranch
    <3>1. job' = [job EXCEPT ![f] = [job[f] EXCEPT !.pc = "branch"]]
      BY <1>5, <2>2 DEF ListBranches
    <3>2. job'[f] = [job[f] EXCEPT !.pc = "branch"]
          /\ \A g \in Others(f) : job'[g] = job[g]
      BY <1>1, <3>1 DEF TypeOK, Others
    <3>3. \A r : Current(r)' = Current(r)
      BY <1>1 DEF Local, Current
    <3>4. WorkInv(f)'
      BY <1>1, <1>5, <3>2, <3>3
         DEF ListBranches, Job, Local, Others, WorkInv, WorksAlone, ReadsInTurn,
             KeepsPrevious, FoundSoFar, Running, At
    <3> QED
      BY <1>1, <1>5, <3>1, <3>4, OthersKeepWork DEF Others, ListBranches, Running, At
  <2> QED
    BY <2>1, <2>2
<1>6. CASE ReadBranchFile(f)
  <2> DEFINE entry == IF branch[job[f].repo] \in Content
                      THEN branch[job[f].repo] ELSE job[f].found
  <2>1. job[f].repo \in job[f].changed \/ entry = Current(job[f].repo)
    BY <1>3, <1>6 DEF ReadBranchFile, At, Current
  <2>2. entry \in File
    BY <1>2 DEF File
  <2> QED
    BY <1>1, <1>6, <2>1, <2>2, IndexedWork DEF ReadBranchFile, At
<1> QED
  BY <1>4, <1>5, <1>6

\* What a refresh has read stays the same.
SameReads(g) ==
    LET j == job'[g]
    IN  /\ j.pc = job[g].pc /\ j.todo = job[g].todo /\ j.repo = job[g].repo
        /\ j.found = job[g].found /\ j.result = job[g].result
        /\ j.failed = job[g].failed /\ j.prev = job[g].prev
        /\ j.loaded = job[g].loaded /\ j.changed = job[g].changed

\* What becomes of a refresh when another one starts, or replaces the index: it
\* may lose its solitude, and may be overlapped if it replaces the index too.
LEMMA CompanyWork ==
    ASSUME IndexInv, NEW g \in Refresh, Local, SameReads(g),
           job'[g].alone /\ Running(g) =>
               /\ job[g].alone /\ ~job'[g].overlapped
               /\ \A h \in Others(g) : job'[h].pc = "idle"
    PROVE  WorkInv(g)'
<1>1. WorkInv(g)
  BY DEF IndexInv
<1>2. \A r : Current(r)' = Current(r)
  BY DEF Local, Current
<1>3. WorksAlone(g)'
  BY <1>1 DEF WorkInv, WorksAlone, Running, At, Local, SameReads
<1>4. ReadsInTurn(g)' /\ KeepsPrevious(g)'
  BY <1>1 DEF WorkInv, ReadsInTurn, KeepsPrevious, At, SameReads
<1>5. FoundSoFar(g)'
  BY <1>1, <1>2 DEF WorkInv, FoundSoFar, At, Local, SameReads
<1> QED
  BY <1>3, <1>4, <1>5 DEF WorkInv

\* A refresh that starts beside another one is not alone, and neither is the
\* other one.
LEMMA StartWork ==
    ASSUME IndexInv, NEW f \in Refresh, Start(f)
    PROVE  \A g \in Refresh : WorkInv(g)'
<1>1. \A g \in Refresh : job[g] \in Job
  BY DEF IndexInv, TypeOK
<1>2. /\ Local
      /\ job'[f] = [Idle EXCEPT !.pc = "load",
                               !.alone = \A h \in Others(f) : ~Running(h)]
      /\ \A g \in Others(f) :
            job'[g] = [job[g] EXCEPT !.alone = @ /\ ~Running(g)]
  BY DEF Start, Others
<1>3. ASSUME NEW g \in Others(f)
      PROVE  SameReads(g) /\ job'[g].alone = (job[g].alone /\ ~Running(g))
  <2>1. job'[g] = [job[g] EXCEPT !.alone = @ /\ ~Running(g)] /\ job[g] \in Job
    BY <1>1, <1>2 DEF Others
  <2> QED
    BY <2>1 DEF Job, SameReads
<1>4. ASSUME NEW g \in Others(f)
      PROVE  WorkInv(g)'
  <2>1. SameReads(g) /\ job'[g].alone = (job[g].alone /\ ~Running(g))
    BY <1>3
  <2>2. ~(job'[g].alone /\ Running(g))
    BY <2>1
  <2> QED
    BY <1>2, <2>1, <2>2, CompanyWork DEF Others
<1>5. WorkInv(f)'
  <2>1. /\ job'[f].pc = "load" /\ job'[f].failed = {} /\ job'[f].result = Empty
        /\ job'[f].found = NoFile /\ ~job'[f].overlapped
        /\ job'[f].alone = \A h \in Others(f) : ~Running(h)
    BY <1>2 DEF Idle
  <2>2. WorksAlone(f)'
    BY <1>3, <2>1 DEF WorksAlone, Running, At, SameReads
  <2>3. ReadsInTurn(f)' /\ KeepsPrevious(f)' /\ FoundSoFar(f)'
    BY <2>1 DEF ReadsInTurn, KeepsPrevious, FoundSoFar, At
  <2> QED
    BY <2>2, <2>3 DEF WorkInv
<1> QED
  BY <1>4, <1>5 DEF Others

\* Replacements that overlap are those of refreshes that are not alone.
LEMMA BeginReplaceWork ==
    ASSUME IndexInv, NEW f \in Refresh, BeginReplace(f)
    PROVE  \A g \in Refresh : WorkInv(g)'
<1> DEFINE Concurrent(g) == g # f /\ At(g, "commit")
<1>1. \A g \in Refresh : WorkInv(g) /\ job[g] \in Job
  BY DEF IndexInv, TypeOK
<1>2. /\ Local /\ At(f, "list") /\ job[f].todo = {}
      /\ job'[f] = [job[f] EXCEPT !.pc = "commit",
                         !.overlapped = \E h \in Refresh : Concurrent(h)]
      /\ \A g \in Others(f) :
            job'[g] = [job[g] EXCEPT !.overlapped = @ \/ Concurrent(g)]
  BY DEF BeginReplace, Others
<1>3. ASSUME NEW g \in Others(f)
      PROVE  SameReads(g) /\ job'[g].alone = job[g].alone
  <2>1. job'[g] = [job[g] EXCEPT !.overlapped = @ \/ Concurrent(g)] /\ job[g] \in Job
    BY <1>1, <1>2 DEF Others
  <2> QED
    BY <2>1 DEF Job, SameReads
<1>4. ASSUME NEW g \in Others(f)
      PROVE  WorkInv(g)'
  <2>1. SameReads(g) /\ job'[g].alone = job[g].alone
    BY <1>3
  <2>2. ~(job'[g].alone /\ Running(g))
    BY <1>1, <1>2, <2>1 DEF WorkInv, WorksAlone, Running, At, Others
  <2> QED
    BY <1>2, <2>1, <2>2, CompanyWork DEF Others
<1>5. WorkInv(f)'
  <2> DEFINE j == job'[f]
  <2>1. /\ j.pc = "commit" /\ j.todo = job[f].todo /\ j.found = job[f].found
        /\ j.result = job[f].result /\ j.failed = job[f].failed
        /\ j.prev = job[f].prev /\ j.loaded = job[f].loaded
        /\ j.changed = job[f].changed /\ j.alone = job[f].alone
        /\ j.overlapped = \E h \in Refresh : Concurrent(h)
    BY <1>1, <1>2 DEF Job
  <2>2. \A r : Current(r)' = Current(r)
    BY <1>2 DEF Local, Current
  <2>3. WorksAlone(f)'
    BY <1>1, <1>2, <1>3, <2>1
       DEF WorkInv, WorksAlone, Running, At, Local, Others, SameReads
  <2>4. ReadsInTurn(f)' /\ KeepsPrevious(f)'
    BY <1>1, <1>2, <2>1 DEF WorkInv, ReadsInTurn, KeepsPrevious, At
  <2>5. FoundSoFar(f)'
    BY <1>1, <1>2, <2>1, <2>2 DEF WorkInv, FoundSoFar, At, Local
  <2> QED
    BY <2>3, <2>4, <2>5 DEF WorkInv
<1> QED
  BY <1>4, <1>5 DEF Others

\* A replacement ends the work of its refresh; a refresh that is alone is not
\* among the others.
LEMMA CommitWork ==
    ASSUME IndexInv, NEW f \in Refresh, CommitReplace(f)
    PROVE  \A g \in Refresh : WorkInv(g)'
<1>1. TypeOK /\ \A g \in Refresh : WorkInv(g)
  BY DEF IndexInv
<1>2. job' = [job EXCEPT ![f] = Idle] /\ UNCHANGED world /\ At(f, "commit")
  BY DEF CommitReplace
<1>3. \A r : Current(r)' = Current(r)
  BY <1>2 DEF world, Current
<1> USE DEF WorkInv, WorksAlone, ReadsInTurn, KeepsPrevious, FoundSoFar, Running, At
<1>4. job'[f].pc = "idle" /\ job'[f].failed = {}
  BY <1>1, <1>2 DEF TypeOK, Idle
<1>5. ASSUME NEW g \in Others(f)
      PROVE  WorkInv(g)'
  <2>1. g \in Refresh /\ f \in Others(g) /\ job'[g] = job[g]
    BY <1>1, <1>2 DEF Others, TypeOK
  <2>2. ~(job[g].alone /\ Running(g))
    BY <1>1, <1>2, <2>1
  <2> QED
    BY <1>1, <1>2, <1>3, <2>1, <2>2 DEF world
<1> QED
  BY <1>4, <1>5 DEF Others

\* A change elsewhere is noted by every refresh that runs.
LEMMA ElsewhereWork ==
    ASSUME IndexInv, Elsewhere
    PROVE  \A g \in Refresh : WorkInv(g)'
<1>1. PICK r \in Repo : ChangeCatalog(r) \/ SaveDraft(r) \/ MergeDraft(r) \/ DeleteBranch(r)
  BY DEF Elsewhere
<1>2. Change({r})
  BY <1>1 DEF ChangeCatalog, SaveDraft, MergeDraft, DeleteBranch
<1>3. \A q \in Repo \ {r} :
          /\ q \in catalog' <=> q \in catalog
          /\ main'[q] = main[q] /\ branch'[q] = branch[q]
          /\ Current(q)' = Current(q)
  BY <1>1 DEF ChangeCatalog, SaveDraft, MergeDraft, DeleteBranch, Current,
              IndexInv, TypeOK
<1>4. SUFFICES ASSUME NEW g \in Refresh PROVE WorkInv(g)'
  OBVIOUS
<1>5. TypeOK /\ WorkInv(g) /\ job[g] \in Job
  BY DEF IndexInv, TypeOK
<1> USE DEF WorkInv, WorksAlone, ReadsInTurn, KeepsPrevious, FoundSoFar, Running, At
<1>6. CASE ~Running(g)
  BY <1>2, <1>5, <1>6 DEF Change
<1>7. CASE Running(g)
  <2>1. job'[g] = [job[g] EXCEPT !.changed = @ \cup {r}]
    BY <1>2, <1>7 DEF Change
  <2>2. \A h \in Refresh : job'[h].pc = job[h].pc
    BY <1>2 DEF Change, IndexInv, TypeOK, Job
  <2>3. job[g].changed \subseteq Repo /\ job[g].repo \in Repo
    BY <1>5 DEF Job
  <2>4. /\ job'[g].changed = job[g].changed \cup {r}
        /\ job'[g].pc = job[g].pc /\ job'[g].todo = job[g].todo
        /\ job'[g].repo = job[g].repo /\ job'[g].found = job[g].found
        /\ job'[g].result = job[g].result /\ job'[g].failed = job[g].failed
        /\ job'[g].prev = job[g].prev /\ job'[g].loaded = job[g].loaded
        /\ job'[g].alone = job[g].alone /\ job'[g].overlapped = job[g].overlapped
    BY <1>5, <2>1 DEF Job
  <2>5. FoundSoFar(g)'
    BY <1>3, <1>5, <2>3, <2>4
  <2>6. WorksAlone(g)'
    BY <1>2, <1>5, <2>2, <2>4 DEF Change, Others
  <2> QED
    BY <1>5, <2>4, <2>5, <2>6
<1> QED
  BY <1>6, <1>7

\* IndexInv is an invariant: what the query does leaves the refreshes alone.
LEMMA NextWork == IndexInv /\ [Next]_vars => IndexInv'
<1> SUFFICES ASSUME IndexInv, [Next]_vars
             PROVE  \A g \in Refresh : WorkInv(g)'
  BY NextType DEF IndexInv
<1>1. CASE UNCHANGED <<catalog, main, branch, index, job>>
  <2>1. \A r : Current(r)' = Current(r)
    BY <1>1 DEF Current
  <2>2. ASSUME NEW g \in Refresh
        PROVE  WorkInv(g)'
    BY <1>1, <2>1 DEF IndexInv, WorkInv, WorksAlone, ReadsInTurn, KeepsPrevious,
                      FoundSoFar, Running, At
  <2> QED
    BY <2>2
<1>2. CASE UNCHANGED vars \/ AnswerSystem
  BY <1>1, <1>2 DEF vars, AnswerSystem, ReadSystem, ReadComponent, AnswerQuery,
                    QueryStep
<1>3. CASE Elsewhere
  BY <1>3, ElsewhereWork
<1>4. CASE \E f \in Refresh : Start(f) \/ Advance(f) \/ GoWrong(f)
  <2>1. PICK f \in Refresh : Start(f) \/ Advance(f) \/ GoWrong(f)
    BY <1>4
  <2>2. CASE \/ LoadPrevious(f) \/ FailToLoadPrevious(f) \/ FetchRepos(f)
             \/ ListFiles(f) \/ ReadMainFile(f) \/ Timeout(f) \/ Abandon(f)
    BY <2>2, PlainStepWork
  <2>3. CASE \/ MissMainFile(f) \/ FailToRead(f)
             \/ ListBranches(f) \/ ReadBranchFile(f)
    BY <2>3, ReadStepWork
  <2>4. CASE Start(f)
    BY <2>4, StartWork
  <2>5. CASE BeginReplace(f)
    BY <2>5, BeginReplaceWork
  <2>6. CASE CommitReplace(f)
    BY <2>6, CommitWork
  <2> QED
    BY <2>1, <2>2, <2>3, <2>4, <2>5, <2>6 DEF Advance, GoWrong
<1> QED
  BY <1>2, <1>3, <1>4 DEF Next

\* The index that a refresh stores is exact for every repository that stayed
\* the same and could be read, however many refreshes, changes and failures
\* there are besides.
THEOREM RefreshStaysExact == Spec => []RefreshIsExact
<1>1. Init => IndexInv
  BY InitType, InitWork DEF IndexInv
<1>2. IndexInv => RefreshIsExact
  BY DEF IndexInv, WorkInv, FoundSoFar, ReadsInTurn, RefreshIsExact, At
<1> QED
  BY <1>1, <1>2, NextWork, PTL DEF Spec

\* A refresh that works alone and had read the previous index never loses or
\* changes the entry of a repository that it could not read.
LEMMA StepKeepsEntry ==
    ASSUME IndexInv, [Next]_vars, NEW f \in Refresh,
           At(f, "commit"), job[f].alone, job[f].loaded, ~At(f, "commit")',
           NEW r \in job[f].failed
    PROVE  index'[r] = index[r]
<1>1. TypeOK /\ WorkInv(f) /\ job[f] \in Job /\ Running(f)
  BY DEF IndexInv, TypeOK, Running, At
<1>2. job[f].prev = index /\ ~job[f].overlapped
      /\ \A g \in Others(f) : ~Running(g)
  BY <1>1 DEF WorkInv, WorksAlone, At
<1>3. job[f].result[r] = index[r] /\ r \in Repo
  BY <1>1, <1>2 DEF WorkInv, KeepsPrevious, Job
<1>4. CASE CommitReplace(f)
  <2>1. index' = [q \in Repo |-> IF q \in {} /\ job[f].result[q] = NoFile
                                 THEN index[q] ELSE job[f].result[q]]
    BY <1>2, <1>4 DEF CommitReplace, Survivors, Replaced
  <2> QED
    BY <1>3, <2>1
<1>5. CASE \E g \in Others(f) : CommitReplace(g)
  BY <1>2, <1>5 DEF CommitReplace, Running, At
<1>6. CASE ~\E g \in Refresh : CommitReplace(g)
  BY <1>6 DEF vars, Next, Advance, GoWrong, AnswerSystem, Elsewhere, Start, Local,
         LoadPrevious, FetchRepos, ListFiles, ReadMainFile, MissMainFile,
         ListBranches, ReadBranchFile, BeginReplace, Timeout, Abandon,
         FailToLoadPrevious, FailToRead, ReadSystem, ReadComponent, AnswerQuery,
         QueryStep, ChangeCatalog, SaveDraft, MergeDraft, DeleteBranch, Change
<1> QED
  BY <1>4, <1>5, <1>6 DEF Others

\* No repository loses its entry for the time it cannot be read, for every
\* catalog and whatever else fails.
THEOREM FailingRepoIsNotLost == Spec => FailingRepoKeepsItsEntry
<1> DEFINE Kept == \A f \in Refresh :
          At(f, "commit") /\ job[f].alone /\ job[f].loaded /\ ~At(f, "commit")'
          => \A r \in job[f].failed : index'[r] = index[r]
<1>1. Init => IndexInv
  BY InitType, InitWork DEF IndexInv
<1>2. IndexInv /\ [Next]_vars => [Kept]_vars
  BY StepKeepsEntry
<1>3. FailingRepoKeepsItsEntry <=> [][Kept]_vars
  BY DEF FailingRepoKeepsItsEntry
<1> HIDE DEF Kept
<1> QED
  BY <1>1, <1>2, <1>3, NextWork, PTL DEF Spec

-----------------------------------------------------------------------------
(* A query.                                                                *)

\* The entity refs a query has looked up so far.
LookedUp == {System} \cup (Components \ query.todo)

\* Of the RiScs whose entry has stayed the same in settled tables, exactly those
\* are found that apply to what was looked up.
FoundWhatApplies ==
    /\ query.todo \subseteq Components
    /\ query.pc = "idle" => query.steady = {}
    /\ \A r \in query.steady :
          /\ settled
          /\ r \in query.found <=> /\ index[r] # NoFile
                                   /\ AppliesTo[index[r]] \cap LookedUp # {}

\* The strengthening of UnchangedRiScIsFound: settled tables agree.
QueryInv == TypeOK /\ LoneReplacementRepairs /\ FoundWhatApplies

\* In settled tables a look-up finds the RiScs that apply to an entity.
LEMMA LookUp ==
    ASSUME LoneReplacementRepairs, settled, NEW e \in EntityRef, NEW r \in Repo
    PROVE  r \in RiScsForEntityRef(e) <=> index[r] # NoFile /\ e \in AppliesTo[index[r]]
BY DEF LoneReplacementRepairs, TablesAgree, RiScsForEntityRef, RefsOf

\* A query looks up one entity after the other.
LEMMA QueryFinds ==
    ASSUME QueryInv, AnswerSystem
    PROVE  FoundWhatApplies'
<1>1. TypeOK /\ LoneReplacementRepairs /\ FoundWhatApplies /\ query \in Query
  BY DEF QueryInv, TypeOK
<1>2. UNCHANGED <<index, settled>>
  BY DEF AnswerSystem, ReadSystem, ReadComponent, AnswerQuery, QueryStep
<1>3. System \in EntityRef /\ Components \subseteq EntityRef
  BY IndexAssumption
<1>4. CASE ReadSystem
  <2>1. /\ query'.pc = "components" /\ query'.todo = Components
        /\ query'.found = RiScsForEntityRef(System)
        /\ query'.steady = IF settled THEN Repo ELSE {}
    BY <1>4 DEF ReadSystem
  <2>2. LookedUp' = {System}
    BY <2>1 DEF LookedUp
  <2>3. ASSUME NEW r \in query'.steady
        PROVE  /\ settled
               /\ r \in query'.found <=> index[r] # NoFile /\ System \in AppliesTo[index[r]]
    <3>1. settled /\ r \in Repo
      BY <2>1, <2>3
    <3> QED BY <1>1, <1>3, <2>1, <3>1, LookUp
  <2> QED BY <1>2, <2>1, <2>2, <2>3 DEF FoundWhatApplies
<1>5. CASE ReadComponent
  <2>1. PICK e \in query.todo :
            query' = [query EXCEPT !.todo = query.todo \ {e},
                                   !.found = query.found \cup RiScsForEntityRef(e)]
    BY <1>1, <1>5 DEF ReadComponent, Query
  <2>2. /\ query'.pc = query.pc /\ query'.todo = query.todo \ {e}
        /\ query'.found = query.found \cup RiScsForEntityRef(e)
        /\ query'.steady = query.steady
    BY <1>1, <2>1 DEF Query
  <2>3. e \in Components /\ e \in EntityRef /\ query.todo \subseteq Components
    BY <1>1, <1>3 DEF FoundWhatApplies
  <2>4. LookedUp' = LookedUp \cup {e}
    BY <2>2, <2>3 DEF LookedUp
  <2>5. ASSUME NEW r \in query.steady
        PROVE  /\ settled
               /\ r \in query'.found <=> /\ index[r] # NoFile
                                         /\ AppliesTo[index[r]] \cap LookedUp' # {}
    <3>1. /\ settled /\ r \in Repo
          /\ r \in query.found <=> /\ index[r] # NoFile
                                   /\ AppliesTo[index[r]] \cap LookedUp # {}
      BY <1>1 DEF FoundWhatApplies, Query
    <3>2. r \in RiScsForEntityRef(e) <=> index[r] # NoFile /\ e \in AppliesTo[index[r]]
      BY <1>1, <2>3, <3>1, LookUp
    <3> QED BY <2>2, <2>4, <3>1, <3>2
  <2> QED BY <1>1, <1>2, <2>2, <2>3, <2>5 DEF FoundWhatApplies
<1>6. CASE AnswerQuery
  BY <1>6 DEF AnswerQuery, NoQuery, FoundWhatApplies
<1> QED BY <1>4, <1>5, <1>6 DEF AnswerSystem

\* A replacement takes away from the steady ones whose entry it changes, and all
\* of them if it leaves tables that are not settled.
LEMMA ReplacementFinds ==
    ASSUME QueryInv, NEW f \in Refresh, CommitReplace(f)
    PROVE  FoundWhatApplies'
<1>1. FoundWhatApplies /\ query \in Query
  BY DEF QueryInv, TypeOK
<1>2. query' = [query EXCEPT !.steady = {r \in query.steady : settled' /\ index'[r] = index[r]}]
  BY <1>1 DEF CommitReplace, Query
<1>3. /\ query'.pc = query.pc /\ query'.todo = query.todo /\ query'.found = query.found
      /\ query'.steady = {r \in query.steady : settled' /\ index'[r] = index[r]}
  BY <1>1, <1>2 DEF Query
<1>4. LookedUp' = LookedUp
  BY <1>3 DEF LookedUp
<1> QED BY <1>1, <1>3, <1>4 DEF FoundWhatApplies

\* The inductive step of UnchangedIsFound.
LEMMA NextFinds == QueryInv /\ [Next]_vars => QueryInv'
<1> SUFFICES ASSUME QueryInv, [Next]_vars PROVE FoundWhatApplies'
  BY NextType, NextRepaired DEF QueryInv
<1>1. CASE UNCHANGED <<index, query, settled>>
  BY <1>1 DEF QueryInv, FoundWhatApplies, LookedUp
<1>2. CASE AnswerSystem
  BY <1>2, QueryFinds
<1>3. CASE \E f \in Refresh : CommitReplace(f)
  BY <1>3, ReplacementFinds
<1> QED
  BY <1>1, <1>2, <1>3
     DEF vars, Next, Advance, GoWrong, Elsewhere, Start, Local,
         LoadPrevious, FetchRepos, ListFiles, ReadMainFile, MissMainFile,
         ListBranches, ReadBranchFile, BeginReplace, Timeout, Abandon,
         FailToLoadPrevious, FailToRead,
         ChangeCatalog, SaveDraft, MergeDraft, DeleteBranch, Change

\* A query for a system, although it reads the tables once for the system and once
\* for each component while refreshes replace them, finds a RiSc whose entry stays
\* the same exactly if it applies to one of them.
THEOREM UnchangedIsFound == Spec => UnchangedRiScIsFound
<1> DEFINE Found ==
        AnswerQuery =>
          \A r \in query.steady :
              r \in query.found <=>
                  /\ index[r] # NoFile
                  /\ AppliesTo[index[r]] \cap ({System} \cup Components) # {}
<1>1. Init => QueryInv
  BY InitType, InitRepaired DEF Init, NoQuery, QueryInv, FoundWhatApplies
<1>2. QueryInv /\ [Next]_vars => [Found]_vars
  <2>1. SUFFICES ASSUME QueryInv, AnswerQuery PROVE Found
    OBVIOUS
  <2>2. LookedUp = {System} \cup Components
    BY <2>1 DEF AnswerQuery, LookedUp
  <2> QED BY <2>1, <2>2 DEF QueryInv, FoundWhatApplies
<1>3. UnchangedRiScIsFound <=> [][Found]_vars
  BY DEF UnchangedRiScIsFound
<1> HIDE DEF Found
<1> QED
  BY <1>1, <1>2, <1>3, NextFinds, PTL DEF Spec
=============================================================================
