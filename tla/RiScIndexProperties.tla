------------------------- MODULE RiScIndexProperties ------------------------
(***************************************************************************)
(* What the RiSc index promises to those who query it.                     *)
(***************************************************************************)
EXTENDS RiScIndex

\* The entry a repository should have: its draft, or what is published.
Current(r) ==
    IF r \notin catalog THEN NoFile
    ELSE IF branch[r] \in Content THEN branch[r] ELSE main[r]

TablesAgree == refs = RefsOf(index)

\* replaceIndex "in one database transaction": whatever replacements that
\* overlapped have left in the two tables, the next one that overlaps no other
\* makes them agree again, and they stay so until replacements overlap again.
LoneReplacementRepairs == settled => TablesAgree

\* A repository that is in the catalog and cannot be read keeps the entry it
\* has: a refresh that could read the previous index, and that no other one
\* overlapped, replaces the index without losing or changing that entry.
FailingRepoKeepsItsEntry ==
    [][\A f \in Refresh :
          At(f, "commit") /\ job[f].alone /\ job[f].loaded /\ ~At(f, "commit")'
          => \A r \in job[f].failed : index'[r] = index[r]]_vars

\* The entry of a repository that did not change during a refresh, and that
\* could be read, is its draft or what is published, although it is put
\* together from four reads.
RefreshIsExact ==
    \A f \in Refresh : At(f, "commit") =>
        \A r \in Repo \ (job[f].changed \cup job[f].failed) :
            job[f].result[r] = Current(r)

\* A query for a system reads the tables once for the system and once for each
\* component, while the index may be replaced.  A RiSc whose entry stays the
\* same all that time is in the answer exactly if it applies to one of them.
UnchangedRiScIsFound ==
    [][AnswerQuery =>
          \A r \in query.steady :
              r \in query.found <=>
                  /\ index[r] # NoFile
                  /\ AppliesTo[index[r]] \cap ({System} \cup Components) # {}]_vars

\* When repositories and catalog no longer change, calls no longer fail and
\* refreshes no longer exceed their timeout, the index becomes and stays what
\* it should be, whatever happened before.
IndexCatchesUp == <>[](TablesAgree /\ \A r \in Repo : index[r] = Current(r))
=============================================================================
