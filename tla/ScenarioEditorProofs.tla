------------------------- MODULE ScenarioEditorProofs -------------------------
(***************************************************************************)
(* Proofs about ScenarioEditor, for any files, edits and failures.  That   *)
(* of the differences holds whatever the functions on documents compute;   *)
(* the invariants of the page, of what is stored, of the table and of the  *)
(* open pull request need what migration, conversion, forms and edits do   *)
(* to any document, which is proved first.  That of the keys is about any  *)
(* groups of keys a file may have.                                         *)
(***************************************************************************)
EXTENDS ScenarioEditorProperties, FiniteSetTheorems, WellFoundedInduction, TLAPS

-----------------------------------------------------------------------------
(* Differences.                                                            *)

\* The page and its fetch are records of their fields.
PageShape ==
    page = [selected |-> page.selected, update |-> page.update, request |-> page.request]

\* So is the difference.
DifferenceShape ==
    difference = [loading |-> difference.loading, asked |-> difference.asked,
                  late |-> difference.late, shown |-> difference.shown,
                  value |-> difference.value, of |-> difference.of]

\* What was asked about, or is shown, is what the page shows.
Current ==
    /\ difference.asked # None /\ ~difference.late => difference.asked = riScToDTO(content)
    /\ difference.shown /\ ~difference.late => difference.of = riScToDTO(content)

\* The strengthened invariant of the difference.
DifferenceInv == PageShape /\ DifferenceShape /\ Current

\* Whatever is rendered, a difference of another RiSc is forgotten, or late.
LEMMA ShowKeepsCurrent ==
    ASSUME DifferenceInv, NEW p, NEW t, NEW d, Show(p, t, d),
           p = [selected |-> p.selected, update |-> p.update, request |-> p.request]
    PROVE  DifferenceInv'
<1>1. page' = p /\ difference' = RiScStatusComponent(difference, p)
  BY DEF Show
<1>2. PageShape'
  BY <1>1 DEF PageShape
<1>3. CASE p.selected = page.selected /\ difference' = difference
  BY <1>1, <1>2, <1>3 DEF DifferenceInv, DifferenceShape, Current, content
<1>4. CASE difference' = [NoDifference EXCEPT !.asked = difference.asked,
                                              !.late = difference.asked # None]
  <2>1. difference' = [loading |-> FALSE, asked |-> difference.asked,
                       late |-> difference.asked # None, shown |-> FALSE,
                       value |-> None, of |-> None]
    BY <1>4 DEF NoDifference
  <2>2. DifferenceShape'
    BY <2>1 DEF DifferenceShape
  <2>3. Current'
    BY <2>1 DEF Current
  <2> QED
    BY <1>2, <2>2, <2>3 DEF DifferenceInv
<1> QED
  BY <1>1, <1>3, <1>4 DEF RiScStatusComponent

\* What the user does leaves the fetch of differences alone, or renders the RiSc
\* that is there, with an update or without.
Renders ==
    \E p, t, d :
        /\ Show(p, t, d)
        /\ p = [selected |-> p.selected, update |-> p.update, request |-> p.request]

\* What the page shows and its difference are left alone.
LeavesAlone == page'.selected = page.selected /\ PageShape' /\ difference' = difference

\* An update renders the page.
LEMMA UpdateRenders ==
    ASSUME NEW s, NEW c, NEW n, NEW a, NEW t, NEW d, Show(UpdateRiSc(s, c, n, a), t, d)
    PROVE  Renders
<1> DEFINE p == UpdateRiSc(s, c, n, a)
<1>1. p = [selected |-> p.selected, update |-> p.update, request |-> p.request]
  BY DEF UpdateRiSc
<1> QED
  BY <1>1 DEF Renders

\* What the user does in the drawer.
LEMMA InDrawerSteps == ASSUME PageShape, InDrawer PROVE Renders \/ LeavesAlone
<1>1. PageShape => page = [selected |-> page.selected, update |-> page.update,
                           request |-> page.request]
  BY DEF PageShape
<1>2. ASSUME UNCHANGED <<page, table, difference>> PROVE LeavesAlone
  BY <1>2 DEF LeavesAlone, PageShape
<1>3. ASSUME NEW d, Show(page, table, d) PROVE Renders
  BY <1>1, <1>3 DEF Renders
<1>4. ASSUME NEW f, Type(f) PROVE LeavesAlone
  BY <1>2, <1>4 DEF Type
<1>5. ASSUME NEW id \in ScenarioId, OpenScenarioDrawer(id) PROVE Renders
  BY <1>3, <1>5 DEF OpenScenarioDrawer
<1>6. CASE Edit \/ OnCancel
  BY <1>2, <1>6 DEF Edit, OnCancel
<1>7. CASE TypeText \/ AddAction \/ \E i \in 1..2 : TypeAction(i) \/ RemoveAction(i)
  BY <1>4, <1>7 DEF TypeText, AddAction, TypeAction, RemoveAction
<1>8. CASE CloseDrawer
  BY <1>3, <1>8 DEF CloseDrawer
<1>9. CASE SubmitEditedScenario
  BY <1>9, UpdateRenders DEF SubmitEditedScenario, Update
<1> QED
  BY <1>5, <1>6, <1>7, <1>8, <1>9 DEF InDrawer

\* In the wizard.
LEMMA InWizardSteps == ASSUME PageShape, InWizard PROVE Renders
<1>1. ASSUME NEW d, Show(page, table, d) PROVE Renders
  BY <1>1 DEF Renders, PageShape
<1>2. CASE OpenNewScenarioWizard \/ CloseWizard
  BY <1>1, <1>2 DEF OpenNewScenarioWizard, CloseWizard
<1>3. ASSUME NEW risks, SubmitNewScenario(risks) PROVE Renders
  BY <1>3, UpdateRenders DEF SubmitNewScenario, Update
<1> QED
  BY <1>2, <1>3 DEF InWizard

\* In the table.
LEMMA InTableSteps == ASSUME PageShape, InTable PROVE Renders \/ LeavesAlone
<1>1. ASSUME NEW from, NEW to, MoveRowLocal(from, to) PROVE LeavesAlone
  BY <1>1 DEF MoveRowLocal, LeavesAlone, PageShape
<1>2. ASSUME NEW id, DeleteScenario(id) \/ DropRow(id) PROVE Renders
  BY <1>2, UpdateRenders DEF DeleteScenario, DropRow, Update
<1>3. CASE AddPredefinedScenarios
  BY <1>3, UpdateRenders DEF AddPredefinedScenarios, Update
<1> QED
  BY <1>1, <1>2, <1>3 DEF InTable

\* An approval renders the page.
LEMMA ApproveRenders == ASSUME PageShape, ApproveRiSc PROVE Renders
<1>1. page = [selected |-> page.selected, update |-> page.update, request |-> page.request]
  BY DEF PageShape
<1>2. ASSUME Show([page EXCEPT !.update = "error"], table, drawer) PROVE Renders
  <2> DEFINE p == [page EXCEPT !.update = "error"]
  <2>1. p = [selected |-> page.selected, update |-> "error", request |-> page.request]
    BY <1>1
  <2>2. p = [selected |-> p.selected, update |-> p.update, request |-> p.request]
    BY <2>1
  <2> QED
    BY <1>2, <2>2 DEF Renders
<1>3. ASSUME Show([page EXCEPT !.update = "success",
                               !.selected.status = "SentForApproval"], table, drawer)
      PROVE Renders
  <2> DEFINE p == [page EXCEPT !.update = "success",
                               !.selected.status = "SentForApproval"]
  <2>1. p = [selected |-> [page.selected EXCEPT !.status = "SentForApproval"],
             update |-> "success", request |-> page.request]
    <3> DEFINE q == [selected |-> page.selected, update |-> "success",
                     request |-> page.request]
    <3>1. q = [page EXCEPT !.update = "success"]
      BY <1>1
    <3>2. p = [q EXCEPT !.selected.status = "SentForApproval"]
      BY <3>1
    <3> QED
      BY <3>2
  <2>2. p = [selected |-> p.selected, update |-> p.update, request |-> p.request]
    BY <2>1
  <2> QED
    BY <1>3, <2>2 DEF Renders
<1> QED
  BY <1>2, <1>3 DEF ApproveRiSc

\* On the page.
LEMMA InPageSteps ==
    ASSUME PageShape, InPage PROVE Renders \/ LeavesAlone \/ GetDifferences
<1>1. CASE OpenDialog
  BY <1>1 DEF OpenDialog, LeavesAlone, PageShape
<1>2. ASSUME NEW appliesTo, SubmitDialog(appliesTo) PROVE Renders
  BY <1>2, UpdateRenders DEF SubmitDialog
<1>3. CASE SaveMigration
  BY <1>3, UpdateRenders DEF SaveMigration, Update
<1> QED
  BY <1>1, <1>2, <1>3, ApproveRenders DEF InPage

\* The answers render the page, leave it alone or are those to a fetch of a
\* difference.
LEMMA AnswersSteps ==
    ASSUME PageShape, Answers
    PROVE  Renders \/ LeavesAlone \/ OnDifference \/ OnDifferenceError
<1>1. page = [selected |-> page.selected, update |-> page.update, request |-> page.request]
  BY DEF PageShape
<1>2. ASSUME NEW a, page' = [page EXCEPT !.request.answer = a], UNCHANGED difference
      PROVE  LeavesAlone
  <2>1. page' = [selected |-> page.selected, update |-> page.update,
                 request |-> [page.request EXCEPT !.answer = a]]
    BY <1>1, <1>2
  <2> QED
    BY <1>2, <2>1 DEF LeavesAlone, PageShape
<1>3. CASE Serve \/ Fail
  BY <1>2, <1>3 DEF Serve, Fail
<1>4. ASSUME NEW s, NEW u, NEW d,
             Show([selected |-> s, update |-> u, request |-> None], table, d)
      PROVE  Renders
  <2> DEFINE p == [selected |-> s, update |-> u, request |-> None]
  <2>1. p = [selected |-> p.selected, update |-> p.update, request |-> p.request]
    OBVIOUS
  <2> QED
    BY <1>4, <2>1 DEF Renders
<1>5. CASE OnSaved \/ OnError
  BY <1>4, <1>5 DEF OnSaved, OnError
<1> QED
  BY <1>3, <1>5 DEF Answers

\* A fetch of the RiScs renders the page.
LEMMA FetchRenders == ASSUME PageShape, FetchRiScs PROVE Renders
<1> DEFINE p == [page EXCEPT !.selected = Selected(files)]
<1>1. p = [selected |-> Selected(files), update |-> page.update, request |-> page.request]
  BY DEF PageShape
<1>2. p = [selected |-> p.selected, update |-> p.update, request |-> p.request]
  BY <1>1
<1>3. Show(p, table, drawer)
  BY DEF FetchRiScs
<1> HIDE DEF p
<1> QED
  BY <1>2, <1>3 DEF Renders

\* The steps, by what they do to the page and its difference.
LEMMA StepsOfThePage ==
    ASSUME PageShape, Next
    PROVE  Renders \/ LeavesAlone \/ GetDifferences \/ OnDifference \/ OnDifferenceError
BY FetchRenders, InDrawerSteps, InWizardSteps, InTableSteps, InPageSteps, AnswersSteps DEF Next

\* Every step keeps a difference current, or late.
LEMMA DifferenceInvStep == DifferenceInv /\ [Next]_vars => DifferenceInv'
<1> SUFFICES ASSUME DifferenceInv, [Next]_vars PROVE DifferenceInv'
  OBVIOUS
<1>1. PageShape /\ DifferenceShape /\ Current
  BY DEF DifferenceInv
<1>2. CASE Renders
  BY <1>2, ShowKeepsCurrent DEF Renders
<1>3. CASE LeavesAlone \/ UNCHANGED vars
  BY <1>1, <1>3 DEF LeavesAlone, vars, DifferenceInv, PageShape, DifferenceShape, Current,
     content
<1>4. CASE GetDifferences
  <2>1. page' = page /\ difference.asked = None /\ ~difference.shown
    BY <1>4 DEF GetDifferences
  <2>2. difference' = [loading |-> TRUE, asked |-> riScToDTO(content),
                       late |-> difference.late, shown |-> difference.shown,
                       value |-> difference.value, of |-> difference.of]
    BY <1>1, <1>4 DEF GetDifferences, DifferenceShape
  <2>3. DifferenceShape' /\ PageShape'
    BY <1>1, <2>1, <2>2 DEF DifferenceShape, PageShape
  <2>4. Current'
    BY <2>1, <2>2 DEF Current, content
  <2> QED
    BY <2>3, <2>4 DEF DifferenceInv
<1>5. CASE OnDifference
  <2>1. page' = page /\ difference.asked # None
    BY <1>5 DEF OnDifference
  <2>2. difference' = [loading |-> FALSE, asked |-> None, late |-> difference.late,
                       shown |-> TRUE, value |-> FetchedDifference(files, difference.asked),
                       of |-> difference.asked]
    BY <1>5 DEF OnDifference, NoDifference
  <2>3. DifferenceShape' /\ PageShape'
    BY <1>1, <2>1, <2>2 DEF DifferenceShape, PageShape
  <2>4. Current'
    BY <1>1, <2>1, <2>2 DEF Current, content
  <2> QED
    BY <2>3, <2>4 DEF DifferenceInv
<1>6. CASE OnDifferenceError
  BY <1>1, <1>6 DEF OnDifferenceError, NoDifference, DifferenceInv, PageShape,
     DifferenceShape, Current
<1> QED
  BY <1>1, <1>2, <1>3, <1>4, <1>5, <1>6, StepsOfThePage

\* No difference is shown at first.
LEMMA DifferenceInvInit == Init => DifferenceInv
BY DEF Init, DifferenceInv, PageShape, DifferenceShape, Current, NoDifference

\* RiScStatusComponent.tsx: whatever the functions on documents compute, however
\* saves, rollbacks and the fetch of a difference overlap, a difference that is
\* shown is that of what the page shows, unless a save was begun or taken back
\* while it was fetched.
THEOREM DifferencesAreCurrent == Spec => []DifferenceIsCurrent
<1>1. DifferenceInv => DifferenceIsCurrent
  BY DEF DifferenceInv, Current, DifferenceIsCurrent
<1> QED
  BY <1>1, DifferenceInvInit, DifferenceInvStep, PTL DEF Spec

-----------------------------------------------------------------------------
(* Sets of numbers.                                                        *)

\* A set of numbers that is not empty has a least one.
LEMMA LeastExists ==
    ASSUME NEW T \in SUBSET Nat, T # {}
    PROVE  \E x \in T : \A y \in T : x <= y
<1>1. PICK x \in T : \A y \in T : ~(<<y, x>> \in OpToRel(<, Nat))
  BY WFMin, NatLessThanWellFounded, Zenon
<1>2. \A y \in T : ~(y < x)
  BY <1>1 DEF OpToRel
<1>3. \A y \in T : x <= y
  BY <1>2
<1> QED BY <1>3

\* The same, of the greatest of some indices.
LEMMA GreatestExists ==
    ASSUME NEW m \in Nat, NEW T \in SUBSET (1..m), T # {}
    PROVE  \E x \in T : \A y \in T : y <= x
<1> DEFINE U == {n \in Nat : m - n \in T}
<1>1. U # {}
  <2>1. PICK x \in T : TRUE
    OBVIOUS
  <2>2. m - x \in Nat /\ m - (m - x) = x
    OBVIOUS
  <2> QED BY <2>1, <2>2
<1>2. PICK n \in U : \A k \in U : n <= k
  BY <1>1, LeastExists
<1>3. ASSUME NEW y \in T PROVE y <= m - n
  <2>1. m - y \in U
    <3>1. m - y \in Nat /\ m - (m - y) = y
      OBVIOUS
    <3> QED BY <3>1
  <2>2. n <= m - y
    BY <1>2, <2>1
  <2> QED BY <2>2
<1> QED BY <1>2, <1>3

-----------------------------------------------------------------------------
(* Lists.                                                                  *)

\* How many indices come up to one of them.
Rank(indices, i) == Cardinality({j \in indices : j <= i})

\* Ranks are numbers up to the number of indices.
LEMMA RankIsNumber ==
    ASSUME NEW m \in Nat, NEW indices \in SUBSET (1..m), NEW i \in indices
    PROVE  Rank(indices, i) \in 1..Cardinality(indices) /\ Cardinality(indices) \in 0..m
<1> DEFINE T == {j \in indices : j <= i}
<1>1. IsFiniteSet(1..m) /\ Cardinality(1..m) = m
  BY FS_Interval
<1>2. IsFiniteSet(indices) /\ Cardinality(indices) <= m
  BY <1>1, FS_Subset
<1>3. IsFiniteSet(T) /\ Cardinality(T) <= Cardinality(indices)
  BY <1>2, FS_Subset
<1>4. i \in T
  OBVIOUS
<1> HIDE DEF T
<1>5. Cardinality(T) # 0
  BY <1>3, <1>4, FS_EmptySet
<1>6. Cardinality(T) \in Nat /\ Cardinality(indices) \in Nat
  BY <1>2, <1>3, FS_CardinalityType
<1>7. Rank(indices, i) = Cardinality(T)
  BY DEF Rank, T
<1> QED BY <1>2, <1>3, <1>5, <1>6, <1>7

\* Indices have different ranks.
LEMMA RanksDiffer ==
    ASSUME NEW m \in Nat, NEW indices \in SUBSET (1..m), NEW i \in indices, NEW k \in indices,
           Rank(indices, i) = Rank(indices, k)
    PROVE  i = k
<1>1. \A j \in indices : j \in Nat
  OBVIOUS
<1>2. ASSUME NEW a \in indices, NEW b \in indices, a < b,
             Rank(indices, a) = Rank(indices, b)
      PROVE  FALSE
  <2> DEFINE S == {j \in indices : j <= a}
             T == {j \in indices : j <= b}
  <2>1. a \in Nat /\ b \in Nat
    BY <1>1
  <2>2. b \in T /\ b \notin S
    BY <1>2, <2>1
  <2>3. \A j \in S : j \in T
    BY <1>1, <1>2, <2>1
  <2>4. IsFiniteSet(T)
    <3>1. IsFiniteSet(1..m)
      BY FS_Interval
    <3>2. T \in SUBSET (1..m)
      OBVIOUS
    <3> QED BY <3>1, <3>2, FS_Subset
  <2>5. Cardinality(S) = Cardinality(T)
    BY <1>2 DEF Rank
  <2> HIDE DEF S, T
  <2> QED BY <2>2, <2>3, <2>4, <2>5, FS_Subset
<1>3. i \in Nat /\ k \in Nat
  BY <1>1
<1> QED BY <1>2, <1>3

\* Every rank is that of an index.
LEMMA RanksAreTaken ==
    ASSUME NEW m \in Nat, NEW indices \in SUBSET (1..m), NEW n \in 1..Cardinality(indices)
    PROVE  \E i \in indices : Rank(indices, i) = n
<1>1. IsFiniteSet(indices) /\ Cardinality(indices) \in Nat
  <2>1. IsFiniteSet(1..m)
    BY FS_Interval
  <2> QED BY <2>1, FS_Subset, FS_CardinalityType
<1> DEFINE U == {i \in indices : Rank(indices, i) >= n}
<1>2. U # {}
  <2>1. indices # {}
    BY <1>1, FS_EmptySet
  <2>2. PICK g \in indices : \A j \in indices : j <= g
    BY <2>1, GreatestExists
  <2>3. {j \in indices : j <= g} = indices
    BY <2>2
  <2>4. g \in U
    BY <1>1, <2>3 DEF Rank
  <2> QED BY <2>4
<1>3. PICK i \in U : \A k \in U : i <= k
  <2>1. \A j \in indices : j \in Nat
    OBVIOUS
  <2>2. U \in SUBSET Nat
    BY <2>1
  <2> QED BY <1>2, <2>2, LeastExists
<1>4. SUFFICES ASSUME Rank(indices, i) # n PROVE FALSE
  BY <1>3
<1> DEFINE T == {j \in indices : j <= i}
           B == T \ {i}
<1>5. IsFiniteSet(T) /\ i \in T /\ Cardinality(T) = Rank(indices, i) /\ Cardinality(T) \in Nat
  BY <1>1, FS_Subset, FS_CardinalityType DEF Rank
<1>6. Cardinality(T) > n
  BY <1>4, <1>5
<1>7. IsFiniteSet(B) /\ Cardinality(B) = Cardinality(T) - 1
  <2> HIDE DEF T
  <2> QED BY <1>5, FS_RemoveElement
<1>8. B # {}
  <2>1. Cardinality(B) # 0
    BY <1>5, <1>6, <1>7
  <2> HIDE DEF B
  <2> QED BY <1>7, <2>1, FS_EmptySet
<1>9. B \in SUBSET (1..m) /\ \A j \in indices : j \in Nat
  <2>1. B \subseteq indices
    OBVIOUS
  <2>2. \A j \in indices : j \in 1..m /\ j \in Nat
    OBVIOUS
  <2> HIDE DEF B
  <2> QED BY <2>1, <2>2
<1>10. PICK k \in B : \A j \in B : j <= k
  <2> HIDE DEF B
  <2> QED BY <1>8, <1>9, GreatestExists
<1>11. {j \in indices : j <= k} = B
  <2>1. i \in Nat /\ k \in Nat /\ k <= i /\ k # i
    BY <1>9
  <2>2. ASSUME NEW j \in indices, j <= k PROVE j \in B
    BY <1>9, <2>1, <2>2
  <2>3. ASSUME NEW j \in B PROVE j \in indices /\ j <= k
    BY <1>10, <2>3
  <2> QED BY <2>2, <2>3
<1>12. Rank(indices, k) >= n
  BY <1>5, <1>6, <1>7, <1>11 DEF Rank
<1>13. k \in U /\ k < i
  BY <1>10, <1>12
<1> QED BY <1>3, <1>13

\* Picking items of a list, in their order, makes a list of them.
LEMMA ItemsAtIsSeq ==
    ASSUME NEW S, NEW items \in Seq(S), NEW indices \in SUBSET (DOMAIN items)
    PROVE  /\ ItemsAt(items, indices) \in Seq(S)
           /\ Range(ItemsAt(items, indices)) = {items[i] : i \in indices}
           /\ Ids(ItemsAt(items, indices)) = {items[i].id : i \in indices}
           /\ UniqueIds(items) => UniqueIds(ItemsAt(items, indices))
<1> DEFINE m == Len(items)
           card == Cardinality(indices)
           At0(n) == CHOOSE i \in indices : Rank(indices, i) = n
           list == ItemsAt(items, indices)
<1>1. m \in Nat /\ indices \in SUBSET (1..m)
  OBVIOUS
<1>2. card \in Nat
  <2>1. IsFiniteSet(1..m)
    BY <1>1, FS_Interval
  <2> QED BY <1>1, <2>1, FS_Subset, FS_CardinalityType
<1>3. list = [n \in 1..card |-> items[At0(n)]]
  BY DEF ItemsAt, Rank
<1>4. \A n \in 1..card : At0(n) \in indices /\ Rank(indices, At0(n)) = n
  <2> SUFFICES ASSUME NEW n \in 1..card PROVE At0(n) \in indices /\ Rank(indices, At0(n)) = n
    OBVIOUS
  <2>1. \E i \in indices : Rank(indices, i) = n
    BY <1>1, RanksAreTaken
  <2> QED BY <2>1
<1>5. \A i \in indices : Rank(indices, i) \in 1..card /\ At0(Rank(indices, i)) = i
  <2> SUFFICES ASSUME NEW i \in indices
               PROVE  Rank(indices, i) \in 1..card /\ At0(Rank(indices, i)) = i
    OBVIOUS
  <2>1. Rank(indices, i) \in 1..card
    BY <1>1, RankIsNumber
  <2> DEFINE k == At0(Rank(indices, i))
  <2>2. k \in indices /\ Rank(indices, k) = Rank(indices, i)
    BY <1>4, <2>1
  <2> HIDE DEF k
  <2>3. k = i
    BY <1>1, <2>2, RanksDiffer
  <2> QED BY <2>1, <2>3 DEF k
<1> HIDE DEF At0, list, card, m
<1>6. \A i \in indices : items[i] \in S
  BY <1>1 DEF m
<1>7. list \in [1..card -> S]
  BY <1>3, <1>4, <1>6
<1>8. list \in Seq(S) /\ DOMAIN list = 1..card
  BY <1>2, <1>7
<1>9. {list[n] : n \in DOMAIN list} = {items[i] : i \in indices}
  <2>1. ASSUME NEW n \in 1..card PROVE list[n] \in {items[i] : i \in indices}
    BY <1>3, <1>4
  <2>2. ASSUME NEW i \in indices PROVE items[i] \in {list[n] : n \in 1..card}
    <3>1. list[Rank(indices, i)] = items[i] /\ Rank(indices, i) \in 1..card
      BY <1>3, <1>5
    <3> QED BY <3>1
  <2> QED BY <1>8, <2>1, <2>2
<1>10. {list[n].id : n \in DOMAIN list} = {items[i].id : i \in indices}
  <2>1. ASSUME NEW n \in 1..card PROVE list[n].id \in {items[i].id : i \in indices}
    BY <1>3, <1>4
  <2>2. ASSUME NEW i \in indices PROVE items[i].id \in {list[n].id : n \in 1..card}
    <3>1. list[Rank(indices, i)] = items[i] /\ Rank(indices, i) \in 1..card
      BY <1>3, <1>5
    <3> QED BY <3>1
  <2> QED BY <1>8, <2>1, <2>2
<1>11. ASSUME UniqueIds(items) PROVE UniqueIds(list)
  <2> SUFFICES ASSUME NEW k \in 1..card, NEW n \in 1..card, list[k].id = list[n].id
               PROVE  k = n
    BY <1>8 DEF UniqueIds
  <2>1. items[At0(k)].id = items[At0(n)].id
    BY <1>3
  <2>2. At0(k) = At0(n)
    BY <1>4, <1>11, <2>1 DEF UniqueIds
  <2> QED BY <1>4, <2>2
<1> QED BY <1>8, <1>9, <1>10, <1>11 DEF list, Range, Ids

\* find gives an item of that id, if there is one.
LEMMA FindFinds ==
    ASSUME NEW S, NEW items \in Seq(S), NEW id \in Ids(items)
    PROVE  \E i \in DOMAIN items : Find(items, id) = items[i] /\ items[i].id = id
<1> DEFINE T == {i \in DOMAIN items : items[i].id = id}
<1>1. T \in SUBSET Nat /\ T # {}
  BY DEF Ids
<1>2. PICK i \in T : \A j \in T : i <= j
  BY <1>1, LeastExists
<1>3. items[i].id = id /\ \A j \in 1..(i - 1) : items[j].id # id
  <2>1. ASSUME NEW j \in 1..(i - 1) PROVE items[j].id # id
    <3>1. j \in DOMAIN items /\ ~(i <= j)
      BY <1>1
    <3> QED BY <1>2, <3>1
  <2> QED BY <2>1
<1> DEFINE k == CHOOSE n \in DOMAIN items :
                    items[n].id = id /\ \A j \in 1..(n - 1) : items[j].id # id
<1>4. k \in DOMAIN items /\ items[k].id = id
  BY <1>2, <1>3
<1>5. Find(items, id) = items[k]
  BY DEF Find
<1> QED BY <1>4, <1>5

-----------------------------------------------------------------------------
(* Versions and migration.                                                 *)

\* The versions there are, in order.
LEMMA VersionsAre ==
    /\ VersionSet = {"3.2", "3.3", "4.0", "4.1", "4.2", "5.0", "5.1", "5.2"}
    /\ DOMAIN Versions = 1..8 /\ Len(Versions) = 8
<1>1. DOMAIN Versions = 1..8 /\ Len(Versions) = 8
  BY DEF Versions
<1>2. \A i \in 1..8 : Versions[i] \in {"3.2", "3.3", "4.0", "4.1", "4.2", "5.0", "5.1", "5.2"}
  BY DEF Versions
<1>3. /\ Versions[1] = "3.2" /\ Versions[2] = "3.3" /\ Versions[3] = "4.0"
      /\ Versions[4] = "4.1" /\ Versions[5] = "4.2" /\ Versions[6] = "5.0"
      /\ Versions[7] = "5.1" /\ Versions[8] = "5.2"
  BY DEF Versions
<1> QED BY <1>1, <1>2, <1>3 DEF VersionSet

\* The place of a version is that in their list.
LEMMA Indices ==
    /\ IndexOf("3.2") = 1 /\ IndexOf("3.3") = 2 /\ IndexOf("4.0") = 3 /\ IndexOf("4.1") = 4
    /\ IndexOf("4.2") = 5 /\ IndexOf("5.0") = 6 /\ IndexOf("5.1") = 7 /\ IndexOf("5.2") = 8
<1>1. DOMAIN Versions = 1..8
  BY VersionsAre
<1>2. /\ Versions[1] = "3.2" /\ Versions[2] = "3.3" /\ Versions[3] = "4.0"
      /\ Versions[4] = "4.1" /\ Versions[5] = "4.2" /\ Versions[6] = "5.0"
      /\ Versions[7] = "5.1" /\ Versions[8] = "5.2"
  BY DEF Versions
<1>3. \A i \in 1..8 : i \in {1, 2, 3, 4, 5, 6, 7, 8}
  OBVIOUS
<1>4. \A i, j \in 1..8 : Versions[i] = Versions[j] => i = j
  BY <1>2, <1>3
<1>5. \A i \in 1..8 : IndexOf(Versions[i]) = i
  <2> SUFFICES ASSUME NEW i \in 1..8 PROVE IndexOf(Versions[i]) = i
    OBVIOUS
  <2> DEFINE k == CHOOSE j \in DOMAIN Versions : Versions[j] = Versions[i]
  <2>1. k \in 1..8 /\ Versions[k] = Versions[i]
    BY <1>1
  <2> QED BY <1>4, <2>1 DEF IndexOf
<1> QED BY <1>2, <1>5

\* What Since says of two versions.
LEMMA Majors ==
    /\ \A v \in {"3.2", "3.3"} : Major(v) = 3
    /\ \A v \in {"4.0", "4.1", "4.2"} : Major(v) = 4
    /\ \A v \in {"5.0", "5.1", "5.2"} : Major(v) = 5
BY Indices DEF Major, Since

\* What a document has that the maps of a migration expect.
FitsItsVersion(doc) ==
    /\ doc.schemaVersion \in {"3.2", "3.3"} =>
           \A i \in DOMAIN doc.scenarios :
               doc.scenarios[i].vulnerabilities \subseteq Vulnerabilities3X
    /\ doc.schemaVersion \in {"3.2", "3.3", "4.0", "4.1", "4.2"} =>
           \A i \in DOMAIN doc.scenarios : \A j \in DOMAIN doc.scenarios[i].actions :
               doc.scenarios[i].actions[j].status \in Statuses3X4X

\* A document that fits its version.
Fit(doc) == doc \in RiScDocuments /\ FitsItsVersion(doc)

\* What is valid fits its version.
LEMMA ValidFits ==
    ASSUME NEW doc \in RiScDocuments, Valid(doc)
    PROVE  Fit(doc) /\ doc.schemaVersion \in VersionSet
<1>1. /\ doc.schemaVersion \in VersionSet
      /\ \A i \in DOMAIN doc.scenarios : ValidScenario(doc.scenarios[i], doc.schemaVersion)
  BY DEF Valid
<1>2. ASSUME doc.schemaVersion \in {"3.2", "3.3"}, NEW i \in DOMAIN doc.scenarios
      PROVE  doc.scenarios[i].vulnerabilities \subseteq Vulnerabilities3X
  BY <1>1, <1>2, Majors DEF ValidScenario, Vulnerabilities
<1>3. ASSUME doc.schemaVersion \in {"3.2", "3.3", "4.0", "4.1", "4.2"},
             NEW i \in DOMAIN doc.scenarios, NEW j \in DOMAIN doc.scenarios[i].actions
      PROVE  doc.scenarios[i].actions[j].status \in Statuses3X4X
  <2>1. ValidAction(doc.scenarios[i].actions[j], doc.schemaVersion)
    BY <1>1 DEF ValidScenario
  <2>2. Statuses(doc.schemaVersion) = Statuses3X4X
    BY <1>3, Majors DEF Statuses
  <2> QED BY <2>1, <2>2 DEF ValidAction
<1> QED BY <1>1, <1>2, <1>3 DEF Fit, FitsItsVersion

\* A list of scenarios that are changed one by one.
LEMMA MappedList ==
    ASSUME NEW S, NEW items \in Seq(S), NEW T, NEW list, DOMAIN list = DOMAIN items,
           list = [i \in DOMAIN list |-> list[i]], \A i \in DOMAIN items : list[i] \in T
    PROVE  list \in Seq(T)
<1>1. DOMAIN items = 1..Len(items) /\ Len(items) \in Nat
  OBVIOUS
<1> QED BY <1>1

\* The parts of a scenario a migration changes.
LEMMA ScenarioParts ==
    ASSUME NEW s \in Scenarios
    PROVE  /\ s.actions \in Seq(Actions) /\ s.risk \in RiScRisk /\ s.remainingRisk \in RiScRisk
           /\ \A a \in Seq(Actions) : [s EXCEPT !.actions = a] \in Scenarios
BY DEF Scenarios

\* The actions of a scenario, changed one by one.
LEMMA MappedActions ==
    ASSUME NEW s \in Scenarios, NEW actions, DOMAIN actions = DOMAIN s.actions,
           actions = [i \in DOMAIN actions |-> actions[i]],
           \A i \in DOMAIN s.actions : actions[i] \in Actions
    PROVE  [s EXCEPT !.actions = actions] \in Scenarios
<1>1. actions \in Seq(Actions)
  BY ScenarioParts, MappedList
<1> QED BY <1>1, ScenarioParts

\* The scenarios of a document, changed one by one, in another version.
ChangesOf(doc, scenarios) ==
    /\ DOMAIN scenarios = DOMAIN doc.scenarios
    /\ scenarios = [i \in DOMAIN scenarios |-> scenarios[i]]
    /\ \A i \in DOMAIN doc.scenarios : scenarios[i] \in Scenarios

\* The document in a version, with other scenarios.
InVersion(doc, v, scenarios) == [doc EXCEPT !.schemaVersion = v, !.scenarios = scenarios]

\* All scenarios of a document, changed one by one.
LEMMA MappedScenarios ==
    ASSUME NEW doc \in RiScDocuments, NEW scenarios, ChangesOf(doc, scenarios),
           NEW v \in VersionSet
    PROVE  /\ InVersion(doc, v, scenarios) \in RiScDocuments
           /\ InVersion(doc, v, scenarios).schemaVersion = v
           /\ InVersion(doc, v, scenarios).scenarios = scenarios
<1>1. doc.scenarios \in Seq(Scenarios)
  BY DEF RiScDocuments
<1>2. scenarios \in Seq(Scenarios)
  BY <1>1, MappedList DEF ChangesOf
<1>3. v \in STRING
  BY DocumentAssumption
<1> QED BY <1>2, <1>3 DEF RiScDocuments, InVersion

\* The vulnerabilities of 4.0 are vulnerabilities.
LEMMA VulnerabilitiesMap ==
    \A v \in Vulnerabilities3X : VULNERABILITY_3X_TO_4X_MAP[v] \in Vulnerabilities4X5X
BY DEF VULNERABILITY_3X_TO_4X_MAP, Vulnerabilities3X, Vulnerabilities4X5X

\* A scenario that is migrated to 4.0 is one.
LEMMA Scenario33To40 ==
    ASSUME NEW s \in Scenarios, s.vulnerabilities \subseteq Vulnerabilities3X
    PROVE  LET new == updateScenarioFrom33To40(s)
           IN  /\ new \in Scenarios
               /\ DOMAIN new.actions = DOMAIN s.actions
               /\ \A j \in DOMAIN s.actions : new.actions[j].status = s.actions[j].status
<1> DEFINE actions == [i \in DOMAIN s.actions |->
                          [s.actions[i] EXCEPT !.owner = None, !.deadline = None]]
           vs == {VULNERABILITY_3X_TO_4X_MAP[v] : v \in s.vulnerabilities}
           t == [s EXCEPT !.actions = actions]
<1>1. \A i \in DOMAIN s.actions : /\ actions[i] \in Actions
                                  /\ actions[i].status = s.actions[i].status
  <2> SUFFICES ASSUME NEW i \in DOMAIN s.actions
               PROVE  actions[i] \in Actions /\ actions[i].status = s.actions[i].status
    OBVIOUS
  <2>1. s.actions[i] \in Actions
    BY ScenarioParts
  <2> QED BY <2>1 DEF Actions
<1>2. t \in Scenarios
  <2> HIDE DEF t
  <2>1. DOMAIN actions = DOMAIN s.actions /\ actions = [i \in DOMAIN actions |-> actions[i]]
    OBVIOUS
  <2> HIDE DEF actions
  <2> QED BY <1>1, <2>1, MappedActions DEF t
<1>3. vs \subseteq Vulnerabilities4X5X
  BY VulnerabilitiesMap
<1>4. t.vulnerabilities = s.vulnerabilities /\ t.actions = actions
  BY DEF Scenarios
<1>5. updateScenarioFrom33To40(s) = [t EXCEPT !.existingActions = None, !.vulnerabilities = vs]
  BY <1>4 DEF updateScenarioFrom33To40, MapActions, Map
<1> HIDE DEF t, vs, actions
<1>6. DOMAIN actions = DOMAIN s.actions
  BY DEF actions
<1> DEFINE new == [t EXCEPT !.existingActions = None, !.vulnerabilities = vs]
<1>7. new \in Scenarios /\ new.actions = actions
  BY <1>2, <1>3, <1>4 DEF Scenarios
<1> QED BY <1>1, <1>5, <1>6, <1>7

\* The step to 4.0 makes a document of 4.0 of one of 3.3.
LEMMA From33To40 ==
    ASSUME NEW doc, Fit(doc), doc.schemaVersion = "3.3", NEW status
    PROVE  LET new == migrateFrom33To40(doc, status).doc
           IN  Fit(new) /\ new.schemaVersion = "4.0"
<1> DEFINE scenarios == Map(doc.scenarios, updateScenarioFrom33To40)
           new == [doc EXCEPT !.schemaVersion = "4.0", !.scenarios = scenarios]
<1>1. doc \in RiScDocuments /\ doc.scenarios \in Seq(Scenarios)
  BY DEF Fit, RiScDocuments
<1>2. /\ DOMAIN scenarios = DOMAIN doc.scenarios
      /\ scenarios = [i \in DOMAIN scenarios |-> scenarios[i]]
      /\ \A i \in DOMAIN doc.scenarios : scenarios[i] = updateScenarioFrom33To40(doc.scenarios[i])
  BY DEF Map
<1>3. \A i \in DOMAIN doc.scenarios :
         /\ scenarios[i] \in Scenarios
         /\ \A j \in DOMAIN scenarios[i].actions : scenarios[i].actions[j].status \in Statuses3X4X
  <2> SUFFICES ASSUME NEW i \in DOMAIN doc.scenarios
               PROVE  /\ scenarios[i] \in Scenarios
                      /\ \A j \in DOMAIN scenarios[i].actions :
                             scenarios[i].actions[j].status \in Statuses3X4X
    OBVIOUS
  <2>1. /\ doc.scenarios[i] \in Scenarios
        /\ doc.scenarios[i].vulnerabilities \subseteq Vulnerabilities3X
        /\ \A j \in DOMAIN doc.scenarios[i].actions :
               doc.scenarios[i].actions[j].status \in Statuses3X4X
    BY <1>1 DEF Fit, FitsItsVersion
  <2> HIDE DEF scenarios
  <2> QED BY <1>2, <2>1, Scenario33To40
<1>4. migrateFrom33To40(doc, status).doc = new
  BY DEF migrateFrom33To40, Migrated
<1> HIDE DEF scenarios
<1>5. new = InVersion(doc, "4.0", scenarios)
  BY DEF InVersion
<1> HIDE DEF new
<1>6. new \in RiScDocuments /\ new.schemaVersion = "4.0" /\ new.scenarios = scenarios
  <2>1. ChangesOf(doc, scenarios)
    BY <1>2, <1>3 DEF ChangesOf
  <2>2. "4.0" \in VersionSet
    BY VersionsAre
  <2> QED BY <1>1, <1>5, <2>1, <2>2, MappedScenarios
<1> QED BY <1>2, <1>3, <1>4, <1>6 DEF Fit, FitsItsVersion

\* The step to 3.3.
LEMMA From32To33 ==
    ASSUME NEW doc, Fit(doc), doc.schemaVersion = "3.2", NEW status
    PROVE  LET new == migrateFrom32To33(doc, status).doc
           IN  Fit(new) /\ new.schemaVersion = "3.3"
<1> DEFINE new == [doc EXCEPT !.schemaVersion = "3.3"]
<1>1. new \in RiScDocuments /\ new.schemaVersion = "3.3" /\ new.scenarios = doc.scenarios
  <2>1. doc \in RiScDocuments
    BY DEF Fit
  <2>2. "3.3" \in STRING
    BY VersionsAre, DocumentAssumption
  <2> QED BY <2>1, <2>2 DEF RiScDocuments
<1>2. migrateFrom32To33(doc, status).doc = new
  BY DEF migrateFrom32To33, Migrated
<1> HIDE DEF new
<1> QED BY <1>1, <1>2 DEF Fit, FitsItsVersion

\* The numbers of the scale of 4.0 are mapped to options.
LEMMA RescaledIsRisk ==
    ASSUME NEW risk, InScale(risk.probability, Probabilities40),
           InScale(risk.consequence, Consequences40)
    PROVE  Rescaled(risk) \in RiScRisk
<1>1. MapValue(risk.probability, Probabilities40, ProbabilityOptions) \in Nat
  <2> DEFINE k == CHOOSE i \in DOMAIN Probabilities40 : Probabilities40[i] = risk.probability
  <2>1. k \in DOMAIN Probabilities40
    BY DEF InScale
  <2>2. k \in 1..5
    BY <2>1 DEF Probabilities40
  <2> HIDE DEF k
  <2>3. ProbabilityOptions[k] \in Nat
    BY <2>2 DEF ProbabilityOptions
  <2> QED BY <2>3 DEF MapValue, k
<1>2. MapValue(risk.consequence, Consequences40, ConsequenceOptions) \in Nat
  <2> DEFINE k == CHOOSE i \in DOMAIN Consequences40 : Consequences40[i] = risk.consequence
  <2>1. k \in DOMAIN Consequences40
    BY DEF InScale
  <2>2. k \in 1..5
    BY <2>1 DEF Consequences40
  <2> HIDE DEF k
  <2>3. ConsequenceOptions[k] \in Nat
    BY <2>2 DEF ConsequenceOptions
  <2> QED BY <2>3 DEF MapValue, k
<1> QED BY <1>1, <1>2 DEF Rescaled, RiScRisk

\* A scenario with numbers of 4.0 gets those of 4.1, or the migration fails.
LEMMA Scenario40To41 ==
    ASSUME NEW s \in Scenarios, Mappable(s)
    PROVE  LET new == updateScenarioFrom40To41(s)
           IN  new \in Scenarios /\ new.actions = s.actions
<1>1. Rescaled(s.risk) \in RiScRisk /\ Rescaled(s.remainingRisk) \in RiScRisk
  BY RescaledIsRisk DEF Mappable
<1> QED BY <1>1 DEF updateScenarioFrom40To41, Scenarios

\* The step to 4.1.
LEMMA From40To41 ==
    ASSUME NEW doc, Fit(doc), doc.schemaVersion = "4.0", NEW status,
           ~migrateFrom40To41(doc, status).failed
    PROVE  LET new == migrateFrom40To41(doc, status).doc
           IN  Fit(new) /\ new.schemaVersion = "4.1"
<1> DEFINE scenarios == Map(doc.scenarios, updateScenarioFrom40To41)
           new == [doc EXCEPT !.schemaVersion = "4.1", !.scenarios = scenarios]
<1>1. doc \in RiScDocuments /\ doc.scenarios \in Seq(Scenarios)
  BY DEF Fit, RiScDocuments
<1>2. /\ DOMAIN scenarios = DOMAIN doc.scenarios
      /\ scenarios = [i \in DOMAIN scenarios |-> scenarios[i]]
      /\ \A i \in DOMAIN doc.scenarios : scenarios[i] = updateScenarioFrom40To41(doc.scenarios[i])
  BY DEF Map
<1>3. (\A i \in DOMAIN doc.scenarios : Mappable(doc.scenarios[i]))
      /\ migrateFrom40To41(doc, status).doc = new
  BY DEF migrateFrom40To41, Migrated, Failed
<1>4. \A i \in DOMAIN doc.scenarios :
         /\ scenarios[i] \in Scenarios
         /\ \A j \in DOMAIN scenarios[i].actions : scenarios[i].actions[j].status \in Statuses3X4X
  <2> SUFFICES ASSUME NEW i \in DOMAIN doc.scenarios
               PROVE  /\ scenarios[i] \in Scenarios
                      /\ \A j \in DOMAIN scenarios[i].actions :
                             scenarios[i].actions[j].status \in Statuses3X4X
    OBVIOUS
  <2>1. /\ doc.scenarios[i] \in Scenarios
        /\ \A j \in DOMAIN doc.scenarios[i].actions :
               doc.scenarios[i].actions[j].status \in Statuses3X4X
    BY <1>1 DEF Fit, FitsItsVersion
  <2> HIDE DEF scenarios
  <2> QED BY <1>2, <1>3, <2>1, Scenario40To41
<1> HIDE DEF scenarios
<1>5. new = InVersion(doc, "4.1", scenarios)
  BY DEF InVersion
<1> HIDE DEF new
<1>6. new \in RiScDocuments /\ new.schemaVersion = "4.1" /\ new.scenarios = scenarios
  <2>1. ChangesOf(doc, scenarios)
    BY <1>2, <1>4 DEF ChangesOf
  <2>2. "4.1" \in VersionSet
    BY VersionsAre
  <2> QED BY <1>1, <1>5, <2>1, <2>2, MappedScenarios
<1> QED BY <1>2, <1>3, <1>4, <1>6 DEF Fit, FitsItsVersion

\* The actions of a document, changed one by one, in another version.
ActionsOf(doc, actions) ==
    /\ DOMAIN actions = DOMAIN doc.scenarios
    /\ \A i \in DOMAIN doc.scenarios :
           /\ DOMAIN actions[i] = DOMAIN doc.scenarios[i].actions
           /\ actions[i] = [j \in DOMAIN actions[i] |-> actions[i][j]]
           /\ \A j \in DOMAIN doc.scenarios[i].actions : actions[i][j] \in Actions

\* The document in a version, with other actions of its scenarios.
WithActions(doc, v, actions) ==
    InVersion(doc, v, [i \in DOMAIN doc.scenarios |->
                          [doc.scenarios[i] EXCEPT !.actions = actions[i]]])

\* All actions of all scenarios, changed one by one.
LEMMA MappedActionsOf ==
    ASSUME NEW doc \in RiScDocuments, NEW actions, ActionsOf(doc, actions),
           NEW v \in VersionSet
    PROVE  LET new == WithActions(doc, v, actions)
           IN  /\ new \in RiScDocuments /\ new.schemaVersion = v
               /\ DOMAIN new.scenarios = DOMAIN doc.scenarios
               /\ \A i \in DOMAIN doc.scenarios :
                      new.scenarios[i] = [doc.scenarios[i] EXCEPT !.actions = actions[i]]
               /\ \A i \in DOMAIN doc.scenarios : new.scenarios[i].actions = actions[i]
<1> DEFINE scenarios == [i \in DOMAIN doc.scenarios |->
                            [doc.scenarios[i] EXCEPT !.actions = actions[i]]]
<1>1. doc.scenarios \in Seq(Scenarios)
  BY DEF RiScDocuments
<1>2. \A i \in DOMAIN doc.scenarios :
         scenarios[i] \in Scenarios /\ scenarios[i].actions = actions[i]
  <2> SUFFICES ASSUME NEW i \in DOMAIN doc.scenarios
               PROVE  scenarios[i] \in Scenarios /\ scenarios[i].actions = actions[i]
    OBVIOUS
  <2>1. doc.scenarios[i] \in Scenarios
    BY <1>1
  <2>2. scenarios[i] = [doc.scenarios[i] EXCEPT !.actions = actions[i]]
    OBVIOUS
  <2> HIDE DEF scenarios
  <2>3. /\ DOMAIN actions[i] = DOMAIN doc.scenarios[i].actions
        /\ actions[i] = [j \in DOMAIN actions[i] |-> actions[i][j]]
        /\ \A j \in DOMAIN doc.scenarios[i].actions : actions[i][j] \in Actions
    BY DEF ActionsOf
  <2>5. scenarios[i] \in Scenarios
    BY <2>1, <2>2, <2>3, MappedActions
  <2>4. scenarios[i].actions = actions[i]
    BY <2>1, <2>2 DEF Scenarios
  <2> QED BY <2>4, <2>5
<1>3. ChangesOf(doc, scenarios)
  BY <1>2 DEF ChangesOf
<1>4. WithActions(doc, v, actions) = InVersion(doc, v, scenarios)
  BY DEF WithActions
<1>5. /\ DOMAIN scenarios = DOMAIN doc.scenarios
      /\ \A i \in DOMAIN doc.scenarios :
             scenarios[i] = [doc.scenarios[i] EXCEPT !.actions = actions[i]]
  OBVIOUS
<1> HIDE DEF scenarios
<1> QED BY <1>2, <1>3, <1>4, <1>5, MappedScenarios

\* The step to 4.2.
LEMMA From41To42 ==
    ASSUME NEW doc, Fit(doc), doc.schemaVersion = "4.1", NEW status,
           NEW lastPublished \in OrNone(Times)
    PROVE  LET new == migrateFrom41To42(doc, lastPublished, status).doc
           IN  Fit(new) /\ new.schemaVersion = "4.2"
<1> DEFINE actions == [i \in DOMAIN doc.scenarios |-> [j \in DOMAIN doc.scenarios[i].actions |->
                         [doc.scenarios[i].actions[j] EXCEPT !.lastUpdated =
                             WhenUpdated(doc.scenarios[i].actions[j], lastPublished)]]]
           new == WithActions(doc, "4.2", actions)
<1>1. doc \in RiScDocuments /\ doc.scenarios \in Seq(Scenarios)
  BY DEF Fit, RiScDocuments
<1>2. migrateFrom41To42(doc, lastPublished, status).doc = new
  BY DEF migrateFrom41To42, Migrated, Map, MapActions, WithActions, InVersion
<1>3. \A i \in DOMAIN doc.scenarios : \A j \in DOMAIN doc.scenarios[i].actions :
         actions[i][j] \in Actions /\ actions[i][j].status \in Statuses3X4X
  <2> SUFFICES ASSUME NEW i \in DOMAIN doc.scenarios, NEW j \in DOMAIN doc.scenarios[i].actions
               PROVE  actions[i][j] \in Actions /\ actions[i][j].status \in Statuses3X4X
    OBVIOUS
  <2> DEFINE a == doc.scenarios[i].actions[j]
  <2>1. a \in Actions /\ a.status \in Statuses3X4X
    BY <1>1, ScenarioParts DEF Fit, FitsItsVersion
  <2>2. actions[i][j] = [a EXCEPT !.lastUpdated = WhenUpdated(a, lastPublished)]
    OBVIOUS
  <2> HIDE DEF a, actions
  <2>3. WhenUpdated(a, lastPublished) \in Times \cup {None}
    BY <2>1 DEF WhenUpdated, Actions, OrNone
  <2> QED BY <2>1, <2>2, <2>3 DEF Actions
<1>4. ActionsOf(doc, actions)
  BY <1>3 DEF ActionsOf
<1>5. "4.2" \in VersionSet
  BY VersionsAre
<1> HIDE DEF actions
<1>6. /\ new \in RiScDocuments /\ new.schemaVersion = "4.2"
      /\ DOMAIN new.scenarios = DOMAIN doc.scenarios
      /\ \A i \in DOMAIN doc.scenarios : new.scenarios[i].actions = actions[i]
  BY <1>1, <1>4, <1>5, MappedActionsOf
<1>7. \A i \in DOMAIN doc.scenarios : DOMAIN actions[i] = DOMAIN doc.scenarios[i].actions
  BY <1>4 DEF ActionsOf
<1> HIDE DEF new
<1> QED BY <1>2, <1>3, <1>6, <1>7 DEF Fit, FitsItsVersion

\* The states of 5.0 are states of an action.
LEMMA StatusMap ==
    \A s \in Statuses3X4X : ACTION_STATUS_4X_TO_5X_MAP[s] \in Statuses5X
BY DEF ACTION_STATUS_4X_TO_5X_MAP, Statuses3X4X, Statuses5X

\* The step to 5.0.
LEMMA From42To50 ==
    ASSUME NEW doc, Fit(doc), doc.schemaVersion = "4.2", NEW status
    PROVE  LET new == migrateFrom42To50(doc, status).doc
           IN  Fit(new) /\ new.schemaVersion = "5.0"
<1> DEFINE actions == [i \in DOMAIN doc.scenarios |-> [j \in DOMAIN doc.scenarios[i].actions |->
                         [doc.scenarios[i].actions[j] EXCEPT !.status =
                             ACTION_STATUS_4X_TO_5X_MAP[doc.scenarios[i].actions[j].status]]]]
           new == WithActions(doc, "5.0", actions)
<1>1. doc \in RiScDocuments /\ doc.scenarios \in Seq(Scenarios)
  BY DEF Fit, RiScDocuments
<1>2. migrateFrom42To50(doc, status).doc = new
  BY DEF migrateFrom42To50, Migrated, Map, MapActions, WithActions, InVersion
<1>3. \A i \in DOMAIN doc.scenarios : \A j \in DOMAIN doc.scenarios[i].actions :
         actions[i][j] \in Actions
  <2> SUFFICES ASSUME NEW i \in DOMAIN doc.scenarios, NEW j \in DOMAIN doc.scenarios[i].actions
               PROVE  actions[i][j] \in Actions
    OBVIOUS
  <2> DEFINE a == doc.scenarios[i].actions[j]
  <2>1. a \in Actions /\ a.status \in Statuses3X4X
    BY <1>1, ScenarioParts DEF Fit, FitsItsVersion
  <2>2. actions[i][j] = [a EXCEPT !.status = ACTION_STATUS_4X_TO_5X_MAP[a.status]]
    OBVIOUS
  <2> HIDE DEF a, actions
  <2>3. ACTION_STATUS_4X_TO_5X_MAP[a.status] \in Statuses5X
    BY <2>1, StatusMap
  <2> QED BY <2>1, <2>2, <2>3 DEF Actions
<1>4. ActionsOf(doc, actions)
  BY <1>3 DEF ActionsOf
<1>5. "5.0" \in VersionSet
  BY VersionsAre
<1> HIDE DEF actions
<1>6. new \in RiScDocuments /\ new.schemaVersion = "5.0"
  BY <1>1, <1>4, <1>5, MappedActionsOf
<1> HIDE DEF new
<1> QED BY <1>2, <1>6 DEF Fit, FitsItsVersion

\* The step to 5.1.
LEMMA From50To51 ==
    ASSUME NEW doc, Fit(doc), doc.schemaVersion = "5.0", NEW status
    PROVE  LET new == migrateFrom50To51(doc, status).doc
           IN  Fit(new) /\ new.schemaVersion = "5.1"
<1> DEFINE actions == [i \in DOMAIN doc.scenarios |-> [j \in DOMAIN doc.scenarios[i].actions |->
                         [doc.scenarios[i].actions[j] EXCEPT !.lastUpdatedBy = ""]]]
           new == WithActions(doc, "5.1", actions)
<1>1. doc \in RiScDocuments /\ doc.scenarios \in Seq(Scenarios)
  BY DEF Fit, RiScDocuments
<1>2. migrateFrom50To51(doc, status).doc = new
  BY DEF migrateFrom50To51, Migrated, Map, MapActions, WithActions, InVersion
<1>3. \A i \in DOMAIN doc.scenarios : \A j \in DOMAIN doc.scenarios[i].actions :
         actions[i][j] \in Actions
  <2> SUFFICES ASSUME NEW i \in DOMAIN doc.scenarios, NEW j \in DOMAIN doc.scenarios[i].actions
               PROVE  actions[i][j] \in Actions
    OBVIOUS
  <2> DEFINE a == doc.scenarios[i].actions[j]
  <2>1. a \in Actions
    BY <1>1, ScenarioParts
  <2>3. "" \in STRING
    BY DocumentAssumption
  <2>2. actions[i][j] = [a EXCEPT !.lastUpdatedBy = ""]
    OBVIOUS
  <2> HIDE DEF a, actions
  <2> QED BY <2>1, <2>2, <2>3 DEF Actions
<1>4. ActionsOf(doc, actions)
  BY <1>3 DEF ActionsOf
<1>5. "5.1" \in VersionSet
  BY VersionsAre
<1> HIDE DEF actions
<1>6. new \in RiScDocuments /\ new.schemaVersion = "5.1"
  BY <1>1, <1>4, <1>5, MappedActionsOf
<1> HIDE DEF new
<1> QED BY <1>2, <1>6 DEF Fit, FitsItsVersion

\* The step to 5.2.
LEMMA From51To52 ==
    ASSUME NEW doc, Fit(doc), doc.schemaVersion = "5.1", NEW status
    PROVE  LET new == migrateFrom51To52(doc, status).doc
           IN  Fit(new) /\ new.schemaVersion = "5.2"
<1> DEFINE new == [doc EXCEPT !.schemaVersion = "5.2", !.valuations = {}]
<1>1. new \in RiScDocuments /\ new.schemaVersion = "5.2"
  <2>1. doc \in RiScDocuments
    BY DEF Fit
  <2>2. "5.2" \in STRING
    BY VersionsAre, DocumentAssumption
  <2> QED BY <2>1, <2>2 DEF RiScDocuments
<1>2. migrateFrom51To52(doc, status).doc = new
  BY DEF migrateFrom51To52, Migrated
<1> HIDE DEF new
<1> QED BY <1>1, <1>2 DEF Fit, FitsItsVersion

\* One step of a migration that does not fail leads to the next version.
LEMMA MigrationStep ==
    ASSUME NEW doc, Fit(doc), doc.schemaVersion \in VersionSet, NEW status,
           NEW lastPublished \in OrNone(Times),
           ~executeMigration(doc, lastPublished, status).failed
    PROVE  LET new == executeMigration(doc, lastPublished, status).doc
           IN  /\ Fit(new) /\ new.schemaVersion \in VersionSet
               /\ IndexOf(new.schemaVersion) = IndexOf(doc.schemaVersion) + 1
<1> DEFINE Goal(new) == /\ Fit(new) /\ new.schemaVersion \in VersionSet
                        /\ IndexOf(new.schemaVersion) = IndexOf(doc.schemaVersion) + 1
<1>1. CASE doc.schemaVersion = "3.2"
  BY <1>1, From32To33, VersionsAre, Indices DEF executeMigration
<1>2. CASE doc.schemaVersion = "3.3"
  BY <1>2, From33To40, VersionsAre, Indices DEF executeMigration
<1>3. CASE doc.schemaVersion = "4.0"
  BY <1>3, From40To41, VersionsAre, Indices DEF executeMigration
<1>4. CASE doc.schemaVersion = "4.1"
  BY <1>4, From41To42, VersionsAre, Indices DEF executeMigration
<1>5. CASE doc.schemaVersion = "4.2"
  BY <1>5, From42To50, VersionsAre, Indices DEF executeMigration
<1>6. CASE doc.schemaVersion = "5.0"
  BY <1>6, From50To51, VersionsAre, Indices DEF executeMigration
<1>7. CASE doc.schemaVersion = "5.1"
  BY <1>7, From51To52, VersionsAre, Indices DEF executeMigration
<1>8. CASE doc.schemaVersion = "5.2"
  BY <1>8 DEF executeMigration, Failed
<1> QED BY <1>1, <1>2, <1>3, <1>4, <1>5, <1>6, <1>7, <1>8, VersionsAre

\* One round of handleMigrate.
Advance(last, lastPublished, toVersion) ==
    IF last.failed \/ last.doc.schemaVersion = toVersion THEN last
    ELSE executeMigration(last.doc, lastPublished, last.status)

\* What the rounds of a migration made of the document, after so many of them.
Rounds(doc, lastPublished, status, toVersion, after) ==
    after = [steps \in 0..Len(Versions) |->
                IF steps = 0 THEN Migrated(doc, status)
                ELSE Advance(after[steps - 1], lastPublished, toVersion)]

\* The rounds are a function that is defined by its recursion.
LEMMA RoundsExist ==
    ASSUME NEW doc, NEW lastPublished, NEW status, NEW toVersion
    PROVE  \E after : Rounds(doc, lastPublished, status, toVersion, after)
<1> DEFINE Next1(last) == Advance(last, lastPublished, toVersion)
           g0 == Migrated(doc, status)
           g1 == Next1(g0)
           g2 == Next1(g1)
           g3 == Next1(g2)
           g4 == Next1(g3)
           g5 == Next1(g4)
           g6 == Next1(g5)
           g7 == Next1(g6)
           g8 == Next1(g7)
           g == [n \in 0..8 |-> CASE n = 0 -> g0 [] n = 1 -> g1 [] n = 2 -> g2 [] n = 3 -> g3
                                  [] n = 4 -> g4 [] n = 5 -> g5 [] n = 6 -> g6 [] n = 7 -> g7
                                  [] OTHER -> g8]
<1>1. g[0] = g0 /\ g[1] = g1 /\ g[2] = g2 /\ g[3] = g3 /\ g[4] = g4 /\ g[5] = g5
      /\ g[6] = g6 /\ g[7] = g7 /\ g[8] = g8
  <2> HIDE DEF g0, g1, g2, g3, g4, g5, g6, g7, g8
  <2> QED OBVIOUS
<1>2. g1 = Next1(g0) /\ g2 = Next1(g1) /\ g3 = Next1(g2) /\ g4 = Next1(g3) /\ g5 = Next1(g4)
      /\ g6 = Next1(g5) /\ g7 = Next1(g6) /\ g8 = Next1(g7)
  <2> HIDE DEF Next1
  <2> QED OBVIOUS
<1>3. DOMAIN g = 0..8 /\ g = [n \in 0..8 |-> g[n]]
  <2> HIDE DEF g0, g1, g2, g3, g4, g5, g6, g7, g8
  <2> QED OBVIOUS
<1> HIDE DEF g, g0, g1, g2, g3, g4, g5, g6, g7, g8, Next1
<1>4. \A n \in 0..8 : g[n] = IF n = 0 THEN g0 ELSE Next1(g[n - 1])
  <2>1. \A n \in 0..8 : n \in {0, 1, 2, 3, 4, 5, 6, 7, 8}
    OBVIOUS
  <2>2. /\ 1 - 1 = 0 /\ 2 - 1 = 1 /\ 3 - 1 = 2 /\ 4 - 1 = 3 /\ 5 - 1 = 4 /\ 6 - 1 = 5
        /\ 7 - 1 = 6 /\ 8 - 1 = 7
    OBVIOUS
  <2> QED BY <1>1, <1>2, <2>1, <2>2
<1>5. g = [n \in 0..8 |-> IF n = 0 THEN g0 ELSE Next1(g[n - 1])]
  BY <1>3, <1>4
<1>6. Len(Versions) = 8
  BY VersionsAre
<1> QED BY <1>5, <1>6 DEF g0, Next1, Rounds

\* The migration is the last of its rounds.
LEMMA MigratesInRounds ==
    ASSUME NEW doc, NEW lastPublished, NEW status, NEW toVersion
    PROVE  \E after : /\ Rounds(doc, lastPublished, status, toVersion, after)
                      /\ handleMigrate(doc, lastPublished, status, toVersion) = after[8]
<1> DEFINE after == CHOOSE f : Rounds(doc, lastPublished, status, toVersion, f)
<1>1. Rounds(doc, lastPublished, status, toVersion, after)
  BY RoundsExist
<1>2. handleMigrate(doc, lastPublished, status, toVersion) = after[Len(Versions)]
  BY DEF handleMigrate, Rounds, Advance
<1>3. Len(Versions) = 8
  BY VersionsAre
<1> QED BY <1>1, <1>2, <1>3

\* After so many rounds the document has the wanted version, or a version so
\* much newer.
ReachedIn(last, first, n, toVersion) ==
    ~last.failed =>
        /\ Fit(last.doc) /\ last.doc.schemaVersion \in VersionSet
        /\ \/ last.doc.schemaVersion = toVersion
           \/ IndexOf(last.doc.schemaVersion) = first + n

\* The n-th round has come n versions further, or has failed.
LEMMA RoundReaches ==
    ASSUME NEW last, NEW first \in Nat, NEW n \in Nat, NEW toVersion,
           NEW lastPublished \in OrNone(Times), ReachedIn(last, first, n, toVersion)
    PROVE  ReachedIn(Advance(last, lastPublished, toVersion), first, n + 1, toVersion)
<1>1. CASE last.failed \/ last.doc.schemaVersion = toVersion
  BY <1>1 DEF ReachedIn, Advance
<1>2. CASE ~last.failed /\ last.doc.schemaVersion # toVersion
  <2> DEFINE new == executeMigration(last.doc, lastPublished, last.status)
  <2>1. Advance(last, lastPublished, toVersion) = new
    BY <1>2 DEF Advance
  <2>2. /\ Fit(last.doc) /\ last.doc.schemaVersion \in VersionSet
        /\ IndexOf(last.doc.schemaVersion) = first + n
    BY <1>2 DEF ReachedIn
  <2>3. ~new.failed => /\ Fit(new.doc) /\ new.doc.schemaVersion \in VersionSet
                       /\ IndexOf(new.doc.schemaVersion) = IndexOf(last.doc.schemaVersion) + 1
    BY <2>2, MigrationStep
  <2> HIDE DEF new
  <2> QED BY <2>1, <2>2, <2>3 DEF ReachedIn
<1> QED BY <1>1, <1>2

\* There are eight versions.
LEMMA IndicesAreNumbers == \A v \in VersionSet : IndexOf(v) \in 1..8
BY VersionsAre, Indices

\* A migration that does not fail leads to a document of the wanted version.
LEMMA MigrationLeads ==
    ASSUME NEW doc, Fit(doc), doc.schemaVersion \in VersionSet, NEW status, NEW toVersion,
           NEW lastPublished \in OrNone(Times),
           ~handleMigrate(doc, lastPublished, status, toVersion).failed
    PROVE  LET new == handleMigrate(doc, lastPublished, status, toVersion).doc
           IN  Fit(new) /\ new.schemaVersion = toVersion /\ toVersion \in VersionSet
<1>1. PICK after : /\ Rounds(doc, lastPublished, status, toVersion, after)
                   /\ handleMigrate(doc, lastPublished, status, toVersion) = after[8]
  BY MigratesInRounds
<1> DEFINE first == IndexOf(doc.schemaVersion)
           Reached(n) == ReachedIn(after[n], first, n, toVersion)
<1>2. first \in 1..8
  BY IndicesAreNumbers
<1>3. after[0] = Migrated(doc, status)
  BY <1>1, VersionsAre DEF Rounds
<1>4. Reached(0)
  BY <1>2, <1>3 DEF ReachedIn, Migrated
<1>5. ASSUME NEW n \in 0..7, Reached(n) PROVE Reached(n + 1)
  <2>1. after[n + 1] = Advance(after[n], lastPublished, toVersion)
    <3>1. n + 1 \in 0..8 /\ n + 1 # 0 /\ (n + 1) - 1 = n
      OBVIOUS
    <3> QED BY <1>1, <3>1, VersionsAre DEF Rounds
  <2> QED BY <1>2, <1>5, <2>1, RoundReaches
<1> HIDE DEF first, Reached
<1>6. Reached(8)
  <2>1. Reached(1)
    BY <1>4, <1>5
  <2>2. Reached(2)
    BY <1>5, <2>1
  <2>3. Reached(3)
    BY <1>5, <2>2
  <2>4. Reached(4)
    BY <1>5, <2>3
  <2>5. Reached(5)
    BY <1>5, <2>4
  <2>6. Reached(6)
    BY <1>5, <2>5
  <2>7. Reached(7)
    BY <1>5, <2>6
  <2> QED BY <1>5, <2>7
<1>7. ReachedIn(after[8], first, 8, toVersion)
  BY <1>6 DEF Reached
<1>8. IndexOf(after[8].doc.schemaVersion) # first + 8 \/ after[8].doc.schemaVersion \notin VersionSet
  BY <1>2, IndicesAreNumbers
<1> QED BY <1>1, <1>7, <1>8 DEF ReachedIn

\* The file that the page fetches, if it can be validated and migrated.
LEMMA FetchedIsDocument ==
    ASSUME NEW f, {f.published, f.draft} \ {None} \subseteq RiScDocuments, ToShow(f) # None,
           ~Fetched(f).failed
    PROVE  /\ Fetched(f).doc \in RiScDocuments /\ Valid(Fetched(f).doc)
           /\ Fetched(f).doc.schemaVersion = latestSupportedVersion
<1> DEFINE doc == ToShow(f)
           last == LastPublished(f)
           status == [NoChanges EXCEPT !.fromVersion = doc.schemaVersion,
                                       !.toVersion = latestSupportedVersion]
           result == handleMigrate(doc, last, status, latestSupportedVersion)
<1>1. doc \in RiScDocuments
  BY DEF ToShow
<1>2. Valid(doc) /\ Fetched(f) = migrate(doc, last, latestSupportedVersion)
  BY DEF Fetched, Failed
<1>3. Fetched(f) = result /\ ~result.failed /\ Valid(result.doc)
  <2> HIDE DEF result, doc, last
  <2>1. migrate(doc, last, latestSupportedVersion).failed = FALSE
    BY <1>2
  <2> USE DEF result
  <2> QED BY <1>2, <2>1 DEF migrate, Failed
<1>4. last \in OrNone(Times)
  BY DEF LastPublished, OrNone, Times
<1>5. Fit(doc) /\ doc.schemaVersion \in VersionSet
  BY <1>1, <1>2, ValidFits
<1> HIDE DEF doc, last, status
<1>6. Fit(result.doc) /\ result.doc.schemaVersion = latestSupportedVersion
  BY <1>3, <1>4, <1>5, MigrationLeads
<1> QED BY <1>3, <1>6 DEF Fit

-----------------------------------------------------------------------------
(* Forms, and what is made of a document.                                  *)

\* A document is the record of its fields, and stays one when a field changes.
LEMMA ContentParts ==
    ASSUME NEW c \in RiScDocuments
    PROVE  /\ c.scenarios \in Seq(Scenarios)
           /\ \A list \in Seq(Scenarios) :
                 LET new == [c EXCEPT !.scenarios = list]
                 IN  /\ new \in RiScDocuments /\ new.schemaVersion = c.schemaVersion
                     /\ new.scenarios = list
BY DEF RiScDocuments

\* What is sent of an action is an action.
LEMMA DTOAction ==
    ASSUME NEW a \in Actions PROVE actionToDTO(a) \in Actions /\ actionToDTO(a).id = a.id
<1>1. DateToJson(a.lastUpdated) \in Times \cup {None}
  <2>1. a.lastUpdated \in Times \cup {None}
    BY DEF Actions
  <2>2. ASSUME NEW t \in Times PROVE [t EXCEPT !.kind = "string"] \in Times
    BY DEF Times
  <2> QED BY <2>1, <2>2 DEF DateToJson
<1> QED BY <1>1 DEF actionToDTO, Actions

\* What is sent of a scenario is a scenario.
LEMMA DTOScenario ==
    ASSUME NEW s \in Scenarios
    PROVE  scenarioToDTO(s) \in Scenarios /\ scenarioToDTO(s).id = s.id
<1> DEFINE actions == [i \in DOMAIN s.actions |-> actionToDTO(s.actions[i])]
           t == [s EXCEPT !.actions = actions]
<1>1. t \in Scenarios
  <2>1. \A i \in DOMAIN s.actions : actions[i] \in Actions
    BY ScenarioParts, DTOAction
  <2>2. DOMAIN actions = DOMAIN s.actions /\ actions = [i \in DOMAIN actions |-> actions[i]]
    OBVIOUS
  <2> HIDE DEF actions
  <2> QED BY <2>1, <2>2, MappedActions
<1>2. t.id = s.id
  BY DEF Scenarios
<1>3. scenarioToDTO(s) = [t EXCEPT !.existingActions = None]
  BY DEF scenarioToDTO, Scenarios
<1> HIDE DEF t
<1> QED BY <1>1, <1>2, <1>3 DEF Scenarios

\* What is sent of a document is a document of the same version.
LEMMA DTODocument ==
    ASSUME NEW c \in RiScDocuments
    PROVE  /\ riScToDTO(c) \in RiScDocuments
           /\ riScToDTO(c).schemaVersion = c.schemaVersion
<1> DEFINE scenarios == [i \in DOMAIN c.scenarios |-> scenarioToDTO(c.scenarios[i])]
           new == [c EXCEPT !.scenarios = scenarios]
<1>1. scenarios \in Seq(Scenarios)
  <2>1. \A i \in DOMAIN c.scenarios : scenarios[i] \in Scenarios
    BY ContentParts, DTOScenario
  <2>2. DOMAIN scenarios = DOMAIN c.scenarios
        /\ scenarios = [i \in DOMAIN scenarios |-> scenarios[i]]
    OBVIOUS
  <2> HIDE DEF scenarios
  <2> QED BY <2>1, <2>2, ContentParts, MappedList
<1>2. new \in RiScDocuments /\ new.schemaVersion = c.schemaVersion
  <2> HIDE DEF scenarios
  <2> QED BY <1>1, ContentParts
<1>3. riScToDTO(c) = [new EXCEPT !.valuations = {}]
  BY DEF riScToDTO, RiScDocuments
<1> HIDE DEF new
<1> QED BY <1>2, <1>3 DEF RiScDocuments

\* What is found in a document has the id that was looked for.
LEMMA FoundScenario ==
    ASSUME NEW c \in RiScDocuments, NEW id
    PROVE  LET found == getScenarioOfIdFromRiSc(id, c)
           IN  /\ found \in OrNone(Scenarios)
               /\ found # None => found.id = id
               /\ found # None <=> id \in Ids(c.scenarios)
<1>1. CASE id \in Ids(c.scenarios)
  <2>1. c.scenarios \in Seq(Scenarios)
    BY ContentParts
  <2>2. PICK i \in DOMAIN c.scenarios :
            Find(c.scenarios, id) = c.scenarios[i] /\ c.scenarios[i].id = id
    BY <1>1, <2>1, FindFinds
  <2>3. c.scenarios[i] \in Scenarios
    BY <2>1
  <2> QED BY <1>1, <2>2, <2>3, DocumentAssumption DEF getScenarioOfIdFromRiSc, OrNone
<1>2. CASE id \notin Ids(c.scenarios)
  BY <1>2 DEF getScenarioOfIdFromRiSc, OrNone
<1> QED BY <1>1, <1>2

\* The five levels of a risk are options of the form.
LEMMA LevelsAreOptions ==
    ASSUME NEW n \in Nat
    PROVE  findProbabilityIndex(n) \in 0..4 /\ findConsequenceIndex(n) \in 0..4
<1>1. ASSUME NEW bounds, IsFiniteSet(bounds), Cardinality(bounds) = 4
      PROVE  Level(n, bounds) \in 0..4
  <2> DEFINE T == {b \in bounds : n >= b}
  <2>1. IsFiniteSet(T) /\ Cardinality(T) <= 4
    BY <1>1, FS_Subset
  <2>2. Cardinality(T) \in Nat
    BY <2>1, FS_CardinalityType
  <2> QED BY <2>1, <2>2 DEF Level
<1>2. ASSUME NEW a, NEW b, NEW c, NEW d, a # b, a # c, a # d, b # c, b # d, c # d
      PROVE  IsFiniteSet({a, b, c, d}) /\ Cardinality({a, b, c, d}) = 4
  <2>1. IsFiniteSet({}) /\ Cardinality({}) = 0
    BY FS_EmptySet
  <2>2. IsFiniteSet({a}) /\ Cardinality({a}) = 1
    BY FS_Singleton
  <2>3. IsFiniteSet({a, b}) /\ Cardinality({a, b}) = 2
    <3>1. {a, b} = {a} \cup {b} /\ b \notin {a}
      BY <1>2
    <3> QED BY <2>2, <3>1, FS_AddElement
  <2>4. IsFiniteSet({a, b, c}) /\ Cardinality({a, b, c}) = 3
    <3>1. {a, b, c} = {a, b} \cup {c} /\ c \notin {a, b}
      BY <1>2
    <3> QED BY <2>3, <3>1, FS_AddElement
  <2> QED
    <3>1. {a, b, c, d} = {a, b, c} \cup {d} /\ d \notin {a, b, c}
      BY <1>2
    <3> QED BY <2>4, <3>1, FS_AddElement
<1>3. Level(n, ProbabilityBounds) \in 0..4
  <2> DEFINE a == 112
             b == 2237
             c == 44722
             d == 894428
  <2>1. a # b /\ a # c /\ a # d /\ b # c /\ b # d /\ c # d /\ ProbabilityBounds = {a, b, c, d}
    BY DEF ProbabilityBounds
  <2> HIDE DEF a, b, c, d
  <2>2. IsFiniteSet(ProbabilityBounds) /\ Cardinality(ProbabilityBounds) = 4
    BY <1>2, <2>1
  <2> QED BY <1>1, <2>2
<1>4. Level(n, ConsequenceBounds) \in 0..4
  <2> DEFINE a == 35778
             b == 715542
             c == 14310836
             d == 286216702
  <2>1. a # b /\ a # c /\ a # d /\ b # c /\ b # d /\ c # d /\ ConsequenceBounds = {a, b, c, d}
    BY DEF ConsequenceBounds
  <2> HIDE DEF a, b, c, d
  <2>2. IsFiniteSet(ConsequenceBounds) /\ Cardinality(ConsequenceBounds) = 4
    BY <1>2, <2>1
  <2> QED BY <1>1, <2>2
<1> QED BY <1>3, <1>4 DEF findProbabilityIndex, findConsequenceIndex

\* A rounded risk is one of the options.
LEMMA RoundedIsOption == ASSUME NEW risk \in RiScRisk PROVE RoundedRisk(risk) \in FormRisks
<1>1. risk.probability \in Nat /\ risk.consequence \in Nat
  BY DEF RiScRisk
<1>2. DOMAIN ProbabilityOptions = 1..5 /\ DOMAIN ConsequenceOptions = 1..5
  BY DEF ProbabilityOptions, ConsequenceOptions
<1>3. findProbabilityIndex(risk.probability) + 1 \in 1..5
  BY <1>1, LevelsAreOptions
<1>4. findConsequenceIndex(risk.consequence) + 1 \in 1..5
  BY <1>1, LevelsAreOptions
<1> QED BY <1>2, <1>3, <1>4
        DEF RoundedRisk, FormRisks, roundProbabilityToNearestProbabilityOption,
            roundConsequenceToNearestConsequenceOption, Range

\* The options of the form are risks.
LEMMA FormRisksAreRisks == FormRisks \subseteq RiScRisk
<1>1. Range(ProbabilityOptions) \subseteq Nat /\ Range(ConsequenceOptions) \subseteq Nat
  BY DEF Range, ProbabilityOptions, ConsequenceOptions
<1> QED BY <1>1 DEF FormRisks, RiScRisk

\* The form of a scenario is one that can be stored, with its id.
LEMMA FormOfScenario ==
    ASSUME NEW s \in Scenarios
    PROVE  /\ mapScenarioToFormScenario(s) \in FormScenarios
           /\ mapScenarioToFormScenario(s).id = s.id
<1>1. RoundedRisk(s.risk) \in FormRisks /\ RoundedRisk(s.remainingRisk) \in FormRisks
  BY ScenarioParts, RoundedIsOption
<1> DEFINE r == RoundedRisk(s.risk)
           q == RoundedRisk(s.remainingRisk)
<1> HIDE DEF r, q
<1>2. [s EXCEPT !.risk = r, !.remainingRisk = q] \in FormScenarios
  BY <1>1, FormRisksAreRisks DEF FormScenarios, Scenarios, r, q
<1> QED BY <1>2 DEF mapScenarioToFormScenario, FormScenarios, Scenarios, r, q

\* A form whose actions are replaced.
LEMMA FormActions ==
    ASSUME NEW form \in FormScenarios, NEW actions \in Seq(Actions)
    PROVE  LET new == [form EXCEPT !.actions = actions]
           IN  new \in FormScenarios /\ new \in Scenarios /\ new.id = form.id
               /\ new.actions = actions
BY DEF FormScenarios, Scenarios

\* A form is the record of its fields.
LEMMA FormParts ==
    ASSUME NEW form \in FormScenarios
    PROVE  /\ form \in Scenarios /\ form.actions \in Seq(Actions)
           /\ DOMAIN form.actions = 1..Len(form.actions) /\ Len(form.actions) \in Nat
           /\ \A i \in DOMAIN form.actions : form.actions[i] \in Actions
<1>1. form \in Scenarios /\ form.actions \in Seq(Actions)
  BY ScenarioParts DEF FormScenarios
<1> QED BY <1>1

\* Registering the fields keeps the id.
LEMMA RegisteredForm ==
    ASSUME NEW form \in FormScenarios
    PROVE  Registered(form) \in FormScenarios /\ Registered(form).id = form.id
<1> DEFINE actions == [i \in DOMAIN form.actions |->
                          [form.actions[i] EXCEPT !.comment = IF @ = None THEN "" ELSE @]]
<1>1. \A i \in DOMAIN form.actions : actions[i] \in Actions
  <2> SUFFICES ASSUME NEW i \in DOMAIN form.actions PROVE actions[i] \in Actions
    OBVIOUS
  <2>1. form.actions[i] \in Actions
    BY FormParts
  <2>2. "" \in STRING
    BY DocumentAssumption
  <2> QED BY <2>1, <2>2 DEF Actions
<1>2. DOMAIN actions = DOMAIN form.actions /\ actions = [i \in DOMAIN actions |-> actions[i]]
  OBVIOUS
<1>3. Registered(form) = [form EXCEPT !.actions = actions]
  BY DEF Registered
<1> HIDE DEF actions
<1>4. actions \in Seq(Actions)
  BY <1>1, <1>2, FormParts, MappedList
<1> QED BY <1>3, <1>4, FormActions

\* An action with a new date is an action.
LEMMA StampedIsAction ==
    ASSUME NEW a \in Actions, NEW now \in Nat PROVE Stamped(a, now) \in Actions
<1>1. [time |-> now, kind |-> "Date"] \in Times
  BY DEF Times
<1>2. "user" \in STRING
  BY DocumentAssumption
<1> DEFINE t == [time |-> now, kind |-> "Date"]
<1> HIDE DEF t
<1>3. [a EXCEPT !.lastUpdated = t, !.lastUpdatedBy = "user"] \in Actions
  BY <1>1, <1>2 DEF Actions, t
<1> QED BY <1>3 DEF Stamped, t

\* So are all that are saved from a form.
LEMMA StampedActions ==
    ASSUME NEW old, NEW new \in Seq(Actions), NEW forced, NEW now \in Nat
    PROVE  getActionsWithLastUpdated(old, new, forced, now) \in Seq(Actions)
<1> DEFINE list == getActionsWithLastUpdated(old, new, forced, now)
<1>1. \A i \in DOMAIN new : list[i] \in Actions
  <2> SUFFICES ASSUME NEW i \in DOMAIN new PROVE list[i] \in Actions
    OBVIOUS
  <2>1. new[i] \in Actions
    OBVIOUS
  <2>2. list[i] \in {new[i], Stamped(new[i], now)}
    BY DEF getActionsWithLastUpdated
  <2> QED BY <2>1, <2>2, StampedIsAction
<1>2. DOMAIN list = DOMAIN new /\ list = [i \in DOMAIN list |-> list[i]]
  BY DEF getActionsWithLastUpdated
<1> HIDE DEF list
<1> QED BY <1>1, <1>2, MappedList DEF list

\* The form of the wizard to begin with.
LEMMA EmptyForm ==
    ASSUME NEW id \in ScenarioId
    PROVE  emptyFormScenario(id) \in FormScenarios /\ emptyFormScenario(id).id = id
<1>1. LowestRisk \in FormRisks
  <2>1. 1 \in DOMAIN ProbabilityOptions /\ 1 \in DOMAIN ConsequenceOptions
    BY DEF ProbabilityOptions, ConsequenceOptions
  <2> QED BY <2>1 DEF LowestRisk, FormRisks, Range
<1>2. LowestRisk \in RiScRisk /\ <<>> \in Seq(Actions)
  BY <1>1, FormRisksAreRisks
<1> DEFINE r == LowestRisk
           none == <<>>
<1> HIDE DEF r, none
<1>3. [id |-> id, text |-> 0, threatActors |-> {}, vulnerabilities |-> {}, risk |-> r,
       remainingRisk |-> r, actions |-> none, existingActions |-> None] \in FormScenarios
  BY <1>1, <1>2 DEF FormScenarios, Scenarios, r, none
<1> QED BY <1>3 DEF emptyFormScenario, r, none

\* An action that is added is one.
LEMMA EmptyAction == ASSUME NEW id \in ActionId PROVE emptyAction(id) \in Actions
<1>1. "" \in STRING
  BY DocumentAssumption
<1>2. "Not OK" \in Statuses5X
  BY DEF Statuses5X
<1> QED BY <1>1, <1>2 DEF emptyAction, Actions

\* A list without one of its items.
LEMMA ListWithout ==
    ASSUME NEW S, NEW items \in Seq(S), NEW i \in DOMAIN items
    PROVE  RemoveAt(items, i) \in Seq(S)
BY DEF RemoveAt

\* A document without one of its scenarios.
LEMMA DeletedContent ==
    ASSUME NEW c \in RiScDocuments, NEW id
    PROVE  /\ WithoutScenario(c, id) \in RiScDocuments
           /\ WithoutScenario(c, id).schemaVersion = c.schemaVersion
<1>1. c.scenarios \in Seq(Scenarios)
  BY ContentParts
<1> DEFINE kept == {i \in DOMAIN c.scenarios : c.scenarios[i].id # id}
<1>2. kept \in SUBSET (DOMAIN c.scenarios)
  OBVIOUS
<1>3. WithoutScenario(c, id) = [c EXCEPT !.scenarios = ItemsAt(c.scenarios, kept)]
  BY DEF WithoutScenario
<1> HIDE DEF kept
<1>4. ItemsAt(c.scenarios, kept) \in Seq(Scenarios)
  BY <1>1, <1>2, ItemsAtIsSeq
<1> QED BY <1>3, <1>4, ContentParts

\* A document with a scenario changed.
LEMMA EditedContent ==
    ASSUME NEW c \in RiScDocuments, NEW scenario \in Scenarios
    PROVE  /\ WithScenario(c, scenario) \in RiScDocuments
           /\ WithScenario(c, scenario).schemaVersion = c.schemaVersion
<1> DEFINE list == [i \in DOMAIN c.scenarios |->
                       IF c.scenarios[i].id = scenario.id THEN scenario ELSE c.scenarios[i]]
<1>1. c.scenarios \in Seq(Scenarios)
  BY ContentParts
<1>2. \A i \in DOMAIN c.scenarios : list[i] \in Scenarios
  BY <1>1
<1>3. DOMAIN list = DOMAIN c.scenarios /\ list = [i \in DOMAIN list |-> list[i]]
  OBVIOUS
<1>4. WithScenario(c, scenario) = [c EXCEPT !.scenarios = list]
  BY DEF WithScenario
<1> HIDE DEF list
<1>5. list \in Seq(Scenarios)
  BY <1>1, <1>2, <1>3, MappedList
<1> QED BY <1>4, <1>5, ContentParts

\* A document with scenarios added.
LEMMA AddedContent ==
    ASSUME NEW c \in RiScDocuments, NEW scenarios \in Seq(Scenarios)
    PROVE  /\ WithNewScenarios(c, scenarios) \in RiScDocuments
           /\ WithNewScenarios(c, scenarios).schemaVersion = c.schemaVersion
<1>1. scenarios \o c.scenarios \in Seq(Scenarios)
  BY ContentParts
<1> QED BY <1>1, ContentParts DEF WithNewScenarios

\* The predefined scenarios are scenarios.
LEMMA PredefinedScenarios ==
    ASSUME NEW now \in Nat
    PROVE  buildPredefinedScenarios(Predefined, now) \in Seq(Scenarios)
<1> DEFINE list == buildPredefinedScenarios(Predefined, now)
<1>1. Predefined \in Seq(Scenarios)
  BY EditorAssumption
<1>2. \A i \in DOMAIN Predefined : list[i] \in Scenarios
  <2> SUFFICES ASSUME NEW i \in DOMAIN Predefined PROVE list[i] \in Scenarios
    OBVIOUS
  <2>1. Predefined[i] \in Scenarios
    BY <1>1
  <2>2. list[i] = [Predefined[i] EXCEPT !.actions =
                      getActionsWithLastUpdated(<<>>, Predefined[i].actions, TRUE, now)]
    BY DEF buildPredefinedScenarios
  <2>3. getActionsWithLastUpdated(<<>>, Predefined[i].actions, TRUE, now) \in Seq(Actions)
    BY <2>1, ScenarioParts, StampedActions
  <2> QED BY <2>1, <2>2, <2>3, ScenarioParts
<1>3. DOMAIN list = DOMAIN Predefined /\ list = [i \in DOMAIN list |-> list[i]]
  BY DEF buildPredefinedScenarios
<1> HIDE DEF list
<1>4. list \in Seq(Scenarios)
  BY <1>1, <1>2, <1>3, MappedList
<1> QED BY <1>4 DEF list

\* What the table shows after a success: all of the page's scenarios, as they are.
LEMMA SynchronisedList ==
    ASSUME NEW temp \in Seq(Scenarios), NEW scenarios \in Seq(Scenarios)
    PROVE  Synchronised(temp, scenarios) \in Seq(Scenarios)
<1> DEFINE old == {i \in DOMAIN temp : temp[i].id \in Ids(scenarios)}
           known == ItemsAt(temp, old)
           updated == [i \in DOMAIN known |-> Find(scenarios, known[i].id)]
           new == {i \in DOMAIN scenarios : scenarios[i].id \notin Ids(known)}
<1>1. Synchronised(temp, scenarios) = updated \o ItemsAt(scenarios, new)
  BY DEF Synchronised
<1>2. known \in Seq(Scenarios) /\ Ids(known) = {temp[i].id : i \in old}
  <2>1. old \in SUBSET (DOMAIN temp)
    OBVIOUS
  <2> HIDE DEF old
  <2> QED BY <2>1, ItemsAtIsSeq
<1>3. ItemsAt(scenarios, new) \in Seq(Scenarios)
  <2>1. new \in SUBSET (DOMAIN scenarios)
    OBVIOUS
  <2> HIDE DEF new
  <2> QED BY <2>1, ItemsAtIsSeq
<1>4. \A i \in DOMAIN known : known[i].id \in Ids(scenarios)
  <2>1. \A i \in DOMAIN known : known[i].id \in Ids(known)
    BY DEF Ids
  <2>2. \A id \in {temp[i].id : i \in old} : id \in Ids(scenarios)
    OBVIOUS
  <2> HIDE DEF old, known
  <2> QED BY <1>2, <2>1, <2>2
<1> HIDE DEF old, known, new
<1>5. \A i \in DOMAIN known : updated[i] \in Scenarios
  <2> SUFFICES ASSUME NEW i \in DOMAIN known PROVE updated[i] \in Scenarios
    OBVIOUS
  <2>1. PICK k \in DOMAIN scenarios : Find(scenarios, known[i].id) = scenarios[k]
    BY <1>4, FindFinds
  <2> QED BY <2>1
<1>6. updated \in Seq(Scenarios)
  <2>1. DOMAIN updated = DOMAIN known /\ updated = [i \in DOMAIN updated |-> updated[i]]
    OBVIOUS
  <2> HIDE DEF updated
  <2> QED BY <1>2, <1>5, <2>1, MappedList
<1> HIDE DEF updated
<1> QED BY <1>1, <1>3, <1>6

-----------------------------------------------------------------------------
(* The inductive invariant of the page.                                    *)

\* What the page edits.
Contents == {doc \in RiScDocuments : doc.schemaVersion = latestSupportedVersion}

\* A selection is nothing, or a document of the latest version.
SelectionOK(s) ==
    /\ s = [content |-> s.content, objects |-> s.objects, status |-> s.status,
            migrationStatus |-> s.migrationStatus, sopsConfig |-> s.sopsConfig]
    /\ s.content \in OrNone(Contents)

\* A save sends what is selected, over a document that was selected before.
RequestOK(r, selected) ==
    /\ r = [old |-> r.old, new |-> r.new, requiresApproval |-> r.requiresApproval,
            body |-> r.body, after |-> r.after, answer |-> r.answer]
    /\ SelectionOK(r.old) /\ r.old.content # None
    /\ r.new = selected /\ selected.content # None
    /\ r.body = riScToDTO(selected.content)

\* The page has a selection, and while it is loading the save of it.
PageOK(p) ==
    /\ p = [selected |-> p.selected, update |-> p.update, request |-> p.request]
    /\ SelectionOK(p.selected)
    /\ p.update = "loading" => RequestOK(p.request, p.selected)

\* The scenario that is shown, and the one that is written, are in the form.
DrawerOK(d) ==
    /\ d = [url |-> d.url, step |-> d.step, open |-> d.open, editing |-> d.editing,
            shown |-> d.shown, objects |-> d.objects, form |-> d.form]
    /\ d.url \in OrNone(ScenarioId) /\ d.step \in BOOLEAN /\ d.open \in BOOLEAN
    /\ d.editing \in BOOLEAN
    /\ d.shown \in OrNone(Scenarios) /\ d.form \in OrNone(FormScenarios)
    /\ ~d.step /\ d.shown # None => d.form # None /\ d.form.id = d.shown.id
    /\ d.step => ~d.open /\ d.url # None /\ d.form # None /\ d.form.id = d.url

\* The drawer is open on the scenario of the URL, as the page has it.
Follows(d, p) ==
    /\ d.step => p.selected.content # None
    /\ ~d.step =>
          IF d.open
          THEN /\ d.url # None /\ p.selected.content # None
               /\ d.shown = getScenarioOfIdFromRiSc(d.url, p.selected.content)
               /\ d.shown # None /\ d.shown.id = d.url
               /\ d.objects = p.selected.objects
          ELSE d.url = None /\ d.shown = None

\* The table is there for a document, and has a closure for each of its rows.
TableOK(t, p) ==
    /\ t = [mounted |-> t.mounted, scenarios |-> t.scenarios, objects |-> t.objects,
            early |-> t.early, rows |-> t.rows]
    /\ t.mounted \in BOOLEAN
    /\ t.scenarios \in Seq(Scenarios) /\ DOMAIN t.rows = Ids(t.scenarios)
    /\ \A id \in DOMAIN t.rows : SelectionOK(t.rows[id]) /\ t.rows[id].content # None
    /\ t.mounted => p.selected.content # None

\* What is stored are documents, one of which is shown.
FilesOK ==
    /\ files = [published |-> files.published, draft |-> files.draft, pr |-> files.pr,
                sops |-> files.sops]
    /\ Docs \subseteq RiScDocuments /\ ToShow(files) # None

\* The dialog is open on a document, without the drawer.
DialogOK ==
    /\ dialog \in OrNone(Contents)
    /\ dialog # None => content # None /\ ~drawer.open /\ ~drawer.step

\* The inductive invariant of the page.
EditorInv ==
    /\ FilesOK /\ PageOK(page) /\ TableOK(table, page)
    /\ DrawerOK(drawer) /\ Follows(drawer, page) /\ DialogOK /\ clock \in Nat

\* None is neither a scenario nor a document.
LEMMA FormNotNone == None \notin Scenarios /\ None \notin FormScenarios /\ None \notin RiScDocuments
BY DocumentAssumption DEF FormScenarios

\* The form that is filled with the scenario that is shown.
LEMMA FilledForm ==
    ASSUME NEW d, d.shown \in OrNone(Scenarios)
    PROVE  /\ FormOf(d) \in OrNone(FormScenarios)
           /\ d.shown # None => FormOf(d) # None /\ FormOf(d).id = d.shown.id
<1>1. CASE d.shown = None
  BY <1>1 DEF FormOf, OrNone
<1>2. CASE d.shown \in Scenarios
  <2> DEFINE form == mapScenarioToFormScenario(d.shown)
  <2>1. d.shown # None
    BY <1>2, FormNotNone
  <2>2. form \in FormScenarios /\ form.id = d.shown.id
    BY <1>2, FormOfScenario
  <2>3. FormOf(d) \in {form, Registered(form)}
    BY <2>1 DEF FormOf
  <2> HIDE DEF form
  <2>4. Registered(form) \in FormScenarios /\ Registered(form).id = d.shown.id
    BY <2>2, RegisteredForm
  <2> QED BY <2>2, <2>3, <2>4, FormNotNone DEF OrNone
<1> QED BY <1>1, <1>2 DEF OrNone

\* Rendering makes the drawer follow the page.
LEMMA DrawerFollows ==
    ASSUME NEW p, PageOK(p), p.selected.content # None, NEW d, DrawerOK(d)
    PROVE  DrawerOK(ScenarioDrawer(d, p)) /\ Follows(ScenarioDrawer(d, p), p)
<1>1. CASE d.step
  <2>1. ScenarioDrawer(d, p) = d
    BY <1>1 DEF ScenarioDrawer, Followed
  <2> QED BY <1>1, <2>1 DEF Follows
<1>2. CASE ~d.step
  <2> DEFINE c == p.selected.content
             found == getScenarioOfIdFromRiSc(d.url, c)
             f == Followed(d, p)
             g == ScenarioDrawer(d, p)
  <2>1. c \in RiScDocuments
    BY DEF PageOK, SelectionOK, OrNone, Contents
  <2>2. /\ found \in OrNone(Scenarios)
        /\ found # None => found.id = d.url
    BY <2>1, FoundScenario
  <2>3. d = [url |-> d.url, step |-> d.step, open |-> d.open, editing |-> d.editing,
             shown |-> d.shown, objects |-> d.objects, form |-> d.form]
    BY DEF DrawerOK
  <2>4. /\ d.url \in OrNone(ScenarioId) /\ d.step = FALSE /\ d.editing \in BOOLEAN
        /\ d.shown \in OrNone(Scenarios) /\ d.form \in OrNone(FormScenarios)
        /\ d.shown # None => d.form # None /\ d.form.id = d.shown.id
    BY <1>2 DEF DrawerOK
  <2>5. CASE d.url = None \/ found = None
    <3>1. f = [url |-> None, step |-> FALSE, open |-> FALSE, editing |-> d.editing,
               shown |-> None, objects |-> 0, form |-> d.form]
      <4>1. f = [d EXCEPT !.url = None, !.open = FALSE, !.shown = None, !.objects = 0]
        BY <1>2, <2>5 DEF Followed
      <4> HIDE DEF f
      <4>2. DOMAIN d = {"url", "step", "open", "editing", "shown", "objects", "form"}
        BY <2>3
      <4> QED BY <2>4, <4>1, <4>2
    <3> HIDE DEF f
    <3>2. FormOf(f) = None
      BY <3>1 DEF FormOf
    <3>3. g = f \/ g = [f EXCEPT !.form = None]
      BY <3>2 DEF ScenarioDrawer, f
    <3> HIDE DEF g
    <3>4. \E form \in OrNone(FormScenarios) :
              g = [url |-> None, step |-> FALSE, open |-> FALSE, editing |-> d.editing,
                   shown |-> None, objects |-> 0, form |-> form]
      BY <2>4, <3>1, <3>3 DEF OrNone
    <3>5. DrawerOK(g)
      BY <2>4, <3>4 DEF DrawerOK, OrNone
    <3>6. Follows(g, p)
      BY <3>4 DEF Follows
    <3> QED BY <3>5, <3>6 DEF g
  <2>6. CASE d.url # None /\ found # None
    <3>1. f = [url |-> d.url, step |-> FALSE, open |-> TRUE, editing |-> d.editing,
               shown |-> found, objects |-> p.selected.objects, form |-> d.form]
      <4>1. f = [d EXCEPT !.open = TRUE, !.shown = found, !.objects = p.selected.objects]
        BY <1>2, <2>6 DEF Followed
      <4> HIDE DEF f, found
      <4> QED BY <2>3, <2>4, <4>1
    <3>2. \/ g = [f EXCEPT !.form = FormOf(f)]
          \/ g = f /\ d.shown = found
      BY <1>2, <3>1 DEF ScenarioDrawer
    <3> HIDE DEF f
    <3>3. FormOf(f) \in OrNone(FormScenarios) /\ FormOf(f) # None /\ FormOf(f).id = found.id
      <4>1. f.shown = found
        BY <3>1
      <4> HIDE DEF found
      <4> QED BY <2>2, <2>6, <4>1, FilledForm
    <3> DEFINE G(form) == [url |-> d.url, step |-> FALSE, open |-> TRUE, editing |-> d.editing,
                           shown |-> found, objects |-> p.selected.objects, form |-> form]
    <3> HIDE DEF g
    <3>4. g = G(FormOf(f)) \/ (g = G(d.form) /\ d.form # None /\ d.form.id = found.id)
      BY <2>4, <2>6, <3>1, <3>2
    <3>5. PICK form \in OrNone(FormScenarios) :
              g = G(form) /\ form # None /\ form.id = found.id
      <4> HIDE DEF G
      <4> QED BY <2>4, <3>3, <3>4
    <3>6. DrawerOK(g)
      <4> HIDE DEF found
      <4>1. g = [url |-> d.url, step |-> FALSE, open |-> TRUE, editing |-> d.editing,
                 shown |-> found, objects |-> p.selected.objects, form |-> form]
        BY <3>5
      <4> QED BY <2>2, <2>4, <3>5, <4>1 DEF DrawerOK
    <3>7. Follows(g, p)
      <4>1. /\ g.url = d.url /\ g.step = FALSE /\ g.open = TRUE /\ g.shown = found
            /\ g.objects = p.selected.objects
        BY <3>5
      <4> QED BY <2>2, <2>6, <4>1 DEF Follows
    <3> QED BY <3>6, <3>7 DEF g
  <2> QED BY <2>5, <2>6
<1> QED BY <1>1, <1>2 DEF DrawerOK

\* Rendering makes the table one of the page.
LEMMA TableFollows ==
    ASSUME NEW p, PageOK(p), NEW t, NEW q, TableOK(t, q), NEW d
    PROVE  TableOK(ScenarioTable(t, p, d), p)
<1> DEFINE u == ScenarioTable(t, p, d)
<1>1. CASE d.step \/ p.selected.content = None
  <2>1. u = Unmounted
    BY <1>1 DEF ScenarioTable
  <2> HIDE DEF u
  <2>2. u.scenarios = <<>> /\ u.rows = <<>> /\ u.mounted = FALSE
    BY <2>1 DEF Unmounted
  <2>3. DOMAIN u.rows = {} /\ Ids(u.scenarios) = {} /\ u.scenarios \in Seq(Scenarios)
    BY <2>2 DEF Ids
  <2>4. u = [mounted |-> u.mounted, scenarios |-> u.scenarios, objects |-> u.objects,
             early |-> u.early, rows |-> u.rows]
    BY <2>1 DEF Unmounted
  <2> QED BY <2>2, <2>3, <2>4 DEF TableOK, u
<1>2. CASE ~d.step /\ p.selected.content # None
  <2> DEFINE c == p.selected.content
             scenarios == IF ~(~t.mounted \/ p.update = "success") THEN t.scenarios
                          ELSE IF ~t.mounted THEN c.scenarios
                          ELSE Synchronised(t.scenarios, c.scenarios)
             rows == [id \in Ids(scenarios) |->
                         IF id \in DOMAIN t.rows THEN t.rows[id] ELSE p.selected]
  <2>1. c.scenarios \in Seq(Scenarios)
    BY <1>2, ContentParts DEF PageOK, SelectionOK, OrNone, Contents
  <2>2. scenarios \in Seq(Scenarios)
    BY <2>1, SynchronisedList DEF TableOK
  <2>3. u = [mounted |-> TRUE, scenarios |-> scenarios,
             objects |-> IF ~t.mounted \/ p.update = "success" THEN p.selected.objects
                         ELSE t.objects,
             early |-> IF t.mounted THEN t.early ELSE p.update = "loading", rows |-> rows]
    BY <1>2 DEF ScenarioTable
  <2> HIDE DEF scenarios, u
  <2>4. \A id \in DOMAIN rows : SelectionOK(rows[id]) /\ rows[id].content # None
    BY <1>2 DEF TableOK, PageOK
  <2>5. DOMAIN rows = Ids(scenarios)
    OBVIOUS
  <2> HIDE DEF rows
  <2> QED BY <1>2, <2>2, <2>3, <2>4, <2>5 DEF TableOK, u
<1> QED BY <1>1, <1>2

\* What is rendered is as it should be if the page and the drawer that were
\* asked for are.
LEMMA ShowKeepsPage ==
    ASSUME TableOK(table, page), NEW p, PageOK(p), p.selected.content # None,
           NEW d, DrawerOK(d), Show(p, table, d)
    PROVE  /\ PageOK(page') /\ TableOK(table', page') /\ content' # None
           /\ DrawerOK(drawer') /\ Follows(drawer', page')
<1>1. page' = p /\ drawer' = ScenarioDrawer(d, p) /\ table' = ScenarioTable(table, p, drawer')
  BY DEF Show
<1>2. TableOK(ScenarioTable(table, p, drawer'), p)
  BY TableFollows
<1> QED BY <1>1, <1>2, DrawerFollows DEF content

\* A save that is begun shows what it sends.
LEMMA UpdatedPage ==
    ASSUME NEW selected, SelectionOK(selected), selected.content # None,
           NEW c \in Contents, NEW objects, NEW after
    PROVE  LET p == UpdateRiSc(selected, c, objects, after)
           IN  /\ PageOK(p) /\ p.selected.content = c /\ c # None /\ p.update = "loading"
               /\ p.selected.objects = objects /\ p.request.old = selected
               /\ p.request.after = after
<1> DEFINE p == UpdateRiSc(selected, c, objects, after)
           requires == \/ selected.migrationStatus.migrationRequiresNewApproval
                       \/ requiresNewApproval(selected.content, c)
           updated == [content |-> c, objects |-> objects,
                       status |-> IF requires THEN "Draft" ELSE selected.status,
                       migrationStatus |-> NoChanges, sopsConfig |-> selected.sopsConfig]
           request == [old |-> selected, new |-> updated, requiresApproval |-> requires,
                       body |-> riScToDTO(c), after |-> after, answer |-> "none"]
<1>1. p = [selected |-> updated, update |-> "loading", request |-> request]
  BY DEF UpdateRiSc
<1>2. c # None
  BY FormNotNone DEF Contents
<1>3. SelectionOK(updated) /\ updated.content = c /\ updated.objects = objects
  <2> HIDE DEF requires
  <2>1. updated = [content |-> updated.content, objects |-> updated.objects,
                   status |-> updated.status, migrationStatus |-> updated.migrationStatus,
                   sopsConfig |-> updated.sopsConfig]
    OBVIOUS
  <2>2. updated.content = c /\ updated.objects = objects
    OBVIOUS
  <2> HIDE DEF updated
  <2> QED BY <2>1, <2>2 DEF SelectionOK, OrNone
<1> HIDE DEF requires, updated
<1>4. RequestOK(request, updated)
  <2>1. request = [old |-> request.old, new |-> request.new,
                   requiresApproval |-> request.requiresApproval, body |-> request.body,
                   after |-> request.after, answer |-> request.answer]
    OBVIOUS
  <2>2. request.old = selected /\ request.new = updated /\ request.body = riScToDTO(c)
    OBVIOUS
  <2> HIDE DEF request
  <2> QED BY <1>2, <1>3, <2>1, <2>2 DEF RequestOK
<1>5. request.old = selected /\ request.after = after
  OBVIOUS
<1> HIDE DEF request, p
<1>6. p.selected = updated /\ p.update = "loading" /\ p.request = request
      /\ p = [selected |-> p.selected, update |-> p.update, request |-> p.request]
  BY <1>1
<1>7. PageOK(p)
  BY <1>3, <1>4, <1>6 DEF PageOK
<1> QED BY <1>2, <1>3, <1>5, <1>6, <1>7 DEF p

\* The invariant, without what a step that only renders does not change.
PageInv ==
    /\ PageOK(page) /\ TableOK(table, page) /\ DrawerOK(drawer) /\ Follows(drawer, page)

\* What the user's update makes of it.
LEMMA UpdateKeeps ==
    ASSUME TableOK(table, page), NEW selected, SelectionOK(selected), selected.content # None,
           NEW c \in Contents, NEW objects, NEW after, NEW d, DrawerOK(d),
           Show(UpdateRiSc(selected, c, objects, after), table, d)
    PROVE  PageInv' /\ content' # None
BY UpdatedPage, ShowKeepsPage DEF PageInv

\* What is shown is a document of the newest version.
LEMMA ContentIsOne == ASSUME PageOK(page), content # None PROVE content \in Contents
BY DEF PageOK, SelectionOK, content, OrNone

\* The parts of the drawer.
LEMMA DrawerShape ==
    ASSUME NEW d, DrawerOK(d)
    PROVE  /\ d = [url |-> d.url, step |-> d.step, open |-> d.open, editing |-> d.editing,
                   shown |-> d.shown, objects |-> d.objects, form |-> d.form]
           /\ d.url \in OrNone(ScenarioId) /\ d.step \in BOOLEAN /\ d.open \in BOOLEAN
           /\ d.editing \in BOOLEAN
           /\ d.shown \in OrNone(Scenarios) /\ d.form \in OrNone(FormScenarios)
           /\ (~d.step /\ d.shown # None) => (d.form # None /\ d.form.id = d.shown.id)
           /\ d.step => (~d.open /\ d.url # None /\ d.form # None /\ d.form.id = d.url)
BY DEF DrawerOK

\* The closed drawer is one.
LEMMA ClosedDrawer == DrawerOK(Closed)
<1>1. Closed.shown = None /\ Closed.step = FALSE /\ Closed.form = None
  BY DEF Closed
<1> QED BY <1>1 DEF Closed, DrawerOK, OrNone

\* Beginning or ending to edit changes nothing else.
LEMMA OtherEditing ==
    ASSUME NEW d, DrawerOK(d), NEW editing \in BOOLEAN
    PROVE  DrawerOK([d EXCEPT !.editing = editing])
<1> DEFINE g == [url |-> d.url, step |-> d.step, open |-> d.open, editing |-> editing,
                 shown |-> d.shown, objects |-> d.objects, form |-> d.form]
<1>1. DOMAIN d = {"url", "step", "open", "editing", "shown", "objects", "form"}
  BY DrawerShape
<1>2. [d EXCEPT !.editing = editing] = g
  BY <1>1
<1>3. /\ g = [url |-> g.url, step |-> g.step, open |-> g.open, editing |-> g.editing,
              shown |-> g.shown, objects |-> g.objects, form |-> g.form]
      /\ g.url = d.url /\ g.step = d.step /\ g.open = d.open /\ g.editing = editing
      /\ g.shown = d.shown /\ g.form = d.form
  OBVIOUS
<1> HIDE DEF g
<1>4. DrawerOK(g)
  BY <1>3, DrawerShape DEF DrawerOK
<1> QED BY <1>2, <1>4

\* A drawer with another URL or another state of editing.
LEMMA OtherUrl ==
    ASSUME NEW d, DrawerOK(d), ~d.step, NEW url \in OrNone(ScenarioId), NEW editing \in BOOLEAN
    PROVE  /\ DrawerOK([d EXCEPT !.url = url])
           /\ DrawerOK([d EXCEPT !.editing = editing])
           /\ DrawerOK([d EXCEPT !.url = url, !.editing = editing])
<1> DEFINE D(u, e) == [url |-> u, step |-> d.step, open |-> d.open, editing |-> e,
                       shown |-> d.shown, objects |-> d.objects, form |-> d.form]
<1>1. DOMAIN d = {"url", "step", "open", "editing", "shown", "objects", "form"}
  BY DrawerShape
<1>2. [d EXCEPT !.url = url] = D(url, d.editing)
  BY <1>1
<1>5. [d EXCEPT !.editing = editing] = D(d.url, editing)
  BY <1>1
<1>6. [d EXCEPT !.url = url, !.editing = editing] = D(url, editing)
  <2>1. [d EXCEPT !.url = url, !.editing = editing]
            = [[d EXCEPT !.url = url] EXCEPT !.editing = editing]
    OBVIOUS
  <2>2. [D(url, d.editing) EXCEPT !.editing = editing] = D(url, editing)
    OBVIOUS
  <2> QED BY <1>2, <2>1, <2>2, Zenon
<1>3. ASSUME NEW u \in OrNone(ScenarioId), NEW e \in BOOLEAN PROVE DrawerOK(D(u, e))
  <2> DEFINE g == D(u, e)
  <2>1. /\ g = [url |-> g.url, step |-> g.step, open |-> g.open, editing |-> g.editing,
                shown |-> g.shown, objects |-> g.objects, form |-> g.form]
        /\ g.url = u /\ g.step = d.step /\ g.open = d.open /\ g.editing = e
        /\ g.shown = d.shown /\ g.form = d.form
    OBVIOUS
  <2> HIDE DEF g
  <2>2. DrawerOK(g)
    BY <2>1, DrawerShape DEF DrawerOK
  <2> QED BY <2>2 DEF g
<1>4. d.url \in OrNone(ScenarioId) /\ d.editing \in BOOLEAN
  BY DrawerShape
<1> HIDE DEF D
<1> QED BY <1>2, <1>3, <1>4, <1>5, <1>6

\* A drawer with another form of the same scenario, or another state of editing.
LEMMA OtherForm ==
    ASSUME NEW d, DrawerOK(d), NEW form \in FormScenarios, form.id = d.form.id,
           NEW editing \in BOOLEAN
    PROVE  /\ DrawerOK([d EXCEPT !.form = form])
           /\ DrawerOK([d EXCEPT !.editing = editing, !.form = form])
<1> DEFINE D(f, e) == [url |-> d.url, step |-> d.step, open |-> d.open, editing |-> e,
                       shown |-> d.shown, objects |-> d.objects, form |-> f]
<1>1. DOMAIN d = {"url", "step", "open", "editing", "shown", "objects", "form"}
  BY DrawerShape
<1>2. [d EXCEPT !.form = form] = D(form, d.editing)
  BY <1>1
<1>5. [d EXCEPT !.editing = editing, !.form = form] = D(form, editing)
  <2>1. [d EXCEPT !.editing = editing, !.form = form]
            = [[d EXCEPT !.form = form] EXCEPT !.editing = editing]
    OBVIOUS
  <2>2. [D(form, d.editing) EXCEPT !.editing = editing] = D(form, editing)
    OBVIOUS
  <2> QED BY <1>2, <2>1, <2>2, Zenon
<1>3. ASSUME NEW e \in BOOLEAN PROVE DrawerOK(D(form, e))
  <2> DEFINE g == D(form, e)
  <2>1. /\ g = [url |-> g.url, step |-> g.step, open |-> g.open, editing |-> g.editing,
                shown |-> g.shown, objects |-> g.objects, form |-> g.form]
        /\ g.url = d.url /\ g.step = d.step /\ g.open = d.open /\ g.editing = e
        /\ g.shown = d.shown /\ g.form = form
    OBVIOUS
  <2> HIDE DEF g
  <2>2. form # None
    BY FormNotNone
  <2>3. DrawerOK(g)
    BY <2>1, <2>2, DrawerShape DEF DrawerOK, OrNone
  <2> QED BY <2>3 DEF g
<1>4. d.editing \in BOOLEAN
  BY DrawerShape
<1> HIDE DEF D
<1> QED BY <1>2, <1>3, <1>4, <1>5

\* A step that renders nothing, and one that changes the form only.
LEMMA NothingRendered ==
    ASSUME PageInv, UNCHANGED <<page, table, drawer>> PROVE PageInv' /\ content' = content
BY DEF PageInv, content

\* A form with the same id can take the place of the form.
LEMMA FormChanged ==
    ASSUME PageInv, UNCHANGED <<page, table>>, NEW form \in FormScenarios,
           form.id = drawer.form.id, NEW editing \in BOOLEAN,
           \/ drawer' = [drawer EXCEPT !.form = form]
           \/ drawer' = [drawer EXCEPT !.editing = editing, !.form = form]
    PROVE  PageInv' /\ drawer'.open = drawer.open /\ drawer'.step = drawer.step
           /\ drawer'.shown = drawer.shown /\ drawer'.url = drawer.url
           /\ drawer'.objects = drawer.objects
<1>1. DrawerOK(drawer)
  BY DEF PageInv
<1> DEFINE d == [drawer EXCEPT !.form = form]
           e == [drawer EXCEPT !.editing = editing, !.form = form]
<1>5. drawer' = d \/ drawer' = e
  OBVIOUS
<1>6. DrawerOK(d) /\ DrawerOK(e)
  BY <1>1, OtherForm
<1>7. /\ d.open = drawer.open /\ d.step = drawer.step /\ d.shown = drawer.shown
      /\ d.url = drawer.url /\ d.objects = drawer.objects
  BY <1>1, DrawerShape
<1>8. /\ e.open = drawer.open /\ e.step = drawer.step /\ e.shown = drawer.shown
      /\ e.url = drawer.url /\ e.objects = drawer.objects
  BY <1>1, DrawerShape
<1> HIDE DEF d, e
<1>2. DrawerOK(drawer')
  BY <1>5, <1>6
<1>3. /\ drawer'.open = drawer.open /\ drawer'.step = drawer.step
      /\ drawer'.shown = drawer.shown /\ drawer'.url = drawer.url
      /\ drawer'.objects = drawer.objects
  BY <1>5, <1>7, <1>8
<1>4. Follows(drawer', page')
  BY <1>3 DEF PageInv, Follows
<1> QED BY <1>2, <1>3, <1>4 DEF PageInv

\* What the user types makes a form of the same scenario.
LEMMA TypedForm ==
    ASSUME NEW form \in FormScenarios, NEW n \in Nat
    PROVE  /\ [form EXCEPT !.text = n] \in FormScenarios
           /\ [form EXCEPT !.text = n].id = form.id
BY DEF FormScenarios, Scenarios

\* Typing into an action of the form.
LEMMA TypedAction ==
    ASSUME NEW form \in FormScenarios, NEW i \in DOMAIN form.actions, NEW n \in Nat
    PROVE  /\ [form EXCEPT !.actions[i].text = n] \in FormScenarios
           /\ [form EXCEPT !.actions[i].text = n].id = form.id
<1> DEFINE actions == [form.actions EXCEPT ![i].text = n]
<1>1. form.actions \in Seq(Actions) /\ form.actions[i] \in Actions
  BY FormParts
<1>2. [form.actions[i] EXCEPT !.text = n] \in Actions
  BY <1>1 DEF Actions
<1>3. actions \in Seq(Actions)
  BY <1>1, <1>2
<1>4. [form EXCEPT !.actions[i].text = n] = [form EXCEPT !.actions = actions]
  OBVIOUS
<1> HIDE DEF actions
<1> QED BY <1>3, <1>4, FormActions

\* Each action of the user and the invariant: typing.
LEMMA TypingKeeps ==
    ASSUME PageInv, clock \in Nat,
           TypeText \/ AddAction \/ \E i \in 1..2 : TypeAction(i) \/ RemoveAction(i)
    PROVE  PageInv' /\ page' = page /\ drawer'.open = drawer.open /\ drawer'.step = drawer.step
<1>1. ASSUME drawer.step \/ drawer.open PROVE drawer.form \in FormScenarios
  <2>1. drawer.form # None
    BY <1>1 DEF PageInv, Follows, DrawerOK
  <2> QED BY <2>1, DrawerShape DEF PageInv, OrNone
<1>2. ASSUME NEW form, form \in FormScenarios, form.id = drawer.form.id, Type(form)
      PROVE  PageInv' /\ page' = page /\ drawer'.open = drawer.open
             /\ drawer'.step = drawer.step
  <2>1. drawer' = [drawer EXCEPT !.form = form] /\ UNCHANGED <<page, table>>
    BY <1>2 DEF Type
  <2> QED BY <1>2, <2>1, FormChanged
<1>3. ASSUME NEW form, Type(form) PROVE drawer.form \in FormScenarios
  BY <1>1, <1>3 DEF Type
<1>4. CASE TypeText
  <2>1. drawer.form \in FormScenarios /\ Now \in Nat
    BY <1>3, <1>4 DEF TypeText, Now
  <2> QED BY <1>2, <1>4, <2>1, TypedForm DEF TypeText
<1>5. CASE AddAction
  <2>1. drawer.form \in FormScenarios
    BY <1>3, <1>5 DEF AddAction
  <2> DEFINE actions == Append(drawer.form.actions, emptyAction(NewAction))
             form == [drawer.form EXCEPT !.actions = actions]
  <2>2. actions \in Seq(Actions)
    BY <2>1, FormParts, EmptyAction, EditorAssumption
  <2>3. Type(form)
    BY <1>5 DEF AddAction
  <2> HIDE DEF actions
  <2>4. form \in FormScenarios /\ form.id = drawer.form.id
    BY <2>1, <2>2, FormActions
  <2> HIDE DEF form
  <2> QED BY <1>2, <2>3, <2>4
<1>6. ASSUME NEW i, TypeAction(i)
      PROVE  PageInv' /\ page' = page /\ drawer'.open = drawer.open
             /\ drawer'.step = drawer.step
  <2>1. i \in DOMAIN drawer.form.actions /\ Type([drawer.form EXCEPT !.actions[i].text = Now])
    BY <1>6 DEF TypeAction
  <2>2. drawer.form \in FormScenarios /\ Now \in Nat
    BY <1>3, <2>1 DEF Now
  <2> QED BY <1>2, <2>1, <2>2, TypedAction
<1>7. ASSUME NEW i, RemoveAction(i)
      PROVE  PageInv' /\ page' = page /\ drawer'.open = drawer.open
             /\ drawer'.step = drawer.step
  <2> DEFINE actions == RemoveAt(drawer.form.actions, i)
             form == [drawer.form EXCEPT !.actions = actions]
  <2>1. i \in DOMAIN drawer.form.actions /\ Type(form)
    BY <1>7 DEF RemoveAction
  <2>2. drawer.form \in FormScenarios
    BY <1>3, <2>1
  <2>3. actions \in Seq(Actions)
    BY <2>1, <2>2, FormParts, ListWithout
  <2> HIDE DEF actions
  <2>4. form \in FormScenarios /\ form.id = drawer.form.id
    BY <2>2, <2>3, FormActions
  <2> HIDE DEF form
  <2> QED BY <1>2, <2>1, <2>4
<1> QED BY <1>4, <1>5, <1>6, <1>7

\* The drawer only ever closes on its own.
LEMMA DrawerKeepsUrl ==
    ASSUME NEW p, NEW d, DrawerOK(d)
    PROVE  /\ ScenarioDrawer(d, p).step = d.step /\ ScenarioDrawer(d, p).editing = d.editing
           /\ ScenarioDrawer(d, p).url \in {d.url, None}
<1> DEFINE found == getScenarioOfIdFromRiSc(d.url, p.selected.content)
           f == Followed(d, p)
<1>1. DOMAIN d = {"url", "step", "open", "editing", "shown", "objects", "form"}
  BY DrawerShape
<1>2. \/ f = d
      \/ f = [d EXCEPT !.url = None, !.open = FALSE, !.shown = None, !.objects = 0]
      \/ f = [d EXCEPT !.open = TRUE, !.shown = found, !.objects = p.selected.objects]
  BY DEF Followed
<1> HIDE DEF f, found
<1>3. /\ f.step = d.step /\ f.editing = d.editing /\ f.url \in {d.url, None}
      /\ DOMAIN f = DOMAIN d
  BY <1>1, <1>2
<1>4. ScenarioDrawer(d, p) \in {f, [f EXCEPT !.form = FormOf(f)]}
  BY DEF ScenarioDrawer, f
<1>5. LET g == [f EXCEPT !.form = FormOf(f)]
      IN  g.step = f.step /\ g.editing = f.editing /\ g.url = f.url
  BY <1>1, <1>3
<1> QED BY <1>3, <1>4, <1>5

\* An open drawer has a form.
LEMMA FormIsThere ==
    ASSUME PageInv, drawer.open \/ drawer.step
    PROVE  /\ drawer.form \in FormScenarios /\ content \in Contents
           /\ drawer.open => drawer.shown \in Scenarios /\ ~drawer.step
                             /\ drawer.form.id = drawer.shown.id
<1>1. DrawerOK(drawer) /\ Follows(drawer, page) /\ PageOK(page)
  BY DEF PageInv
<1>2. drawer.form # None /\ page.selected.content # None
  BY <1>1 DEF Follows, DrawerOK
<1>3. drawer.open => ~drawer.step /\ drawer.shown # None /\ drawer.form.id = drawer.shown.id
  BY <1>1 DEF Follows, DrawerOK
<1> QED BY <1>1, <1>2, <1>3, DrawerShape, ContentIsOne DEF OrNone, content

\* Opening the drawer.
LEMMA OpeningKeeps ==
    ASSUME PageInv, NEW id \in ScenarioId, OpenScenarioDrawer(id) PROVE PageInv' /\ content' # None
<1>1. content # None /\ ~drawer.step /\ Show(page, table, [drawer EXCEPT !.url = id])
  BY DEF OpenScenarioDrawer, AtTable
<1>2. DrawerOK([drawer EXCEPT !.url = id])
  BY <1>1, OtherUrl DEF PageInv, OrNone
<1> DEFINE d == [drawer EXCEPT !.url = id]
<1> HIDE DEF d
<1> QED BY <1>1, <1>2, ShowKeepsPage DEF PageInv, content, d

\* Beginning and cancelling to edit.
LEMMA EditingKeeps ==
    ASSUME PageInv, Edit \/ OnCancel
    PROVE  PageInv' /\ page' = page /\ drawer'.open = drawer.open /\ drawer'.step = drawer.step
<1>1. CASE Edit
  <2> DEFINE form == Registered(drawer.form)
  <2>1. drawer.open /\ drawer' = [drawer EXCEPT !.editing = TRUE, !.form = form]
        /\ UNCHANGED <<page, table>>
    BY <1>1 DEF Edit
  <2>2. form \in FormScenarios /\ form.id = drawer.form.id
    BY <2>1, FormIsThere, RegisteredForm
  <2> HIDE DEF form
  <2> QED BY <2>1, <2>2, FormChanged
<1>2. CASE OnCancel
  <2> DEFINE form == mapScenarioToFormScenario(drawer.shown)
  <2>1. drawer.open /\ drawer' = [drawer EXCEPT !.editing = FALSE, !.form = form]
        /\ UNCHANGED <<page, table>>
    BY <1>2 DEF OnCancel
  <2>2. form \in FormScenarios /\ form.id = drawer.form.id
    BY <2>1, FormIsThere, FormOfScenario
  <2> HIDE DEF form
  <2> QED BY <2>1, <2>2, FormChanged
<1> QED BY <1>1, <1>2

\* Closing the drawer.
LEMMA ClosingKeeps == ASSUME PageInv, CloseDrawer PROVE PageInv' /\ content' # None
<1> DEFINE d == [drawer EXCEPT !.url = None, !.editing = FALSE]
<1>1. drawer.open /\ Show(page, table, d)
  BY DEF CloseDrawer
<1>2. content \in Contents /\ ~drawer.step
  BY <1>1, FormIsThere
<1>3. DrawerOK(d)
  BY <1>2, OtherUrl DEF PageInv, OrNone
<1> HIDE DEF d
<1>4. page.selected.content # None
  BY <1>2, FormNotNone DEF Contents, content
<1> QED BY <1>1, <1>3, <1>4, ShowKeepsPage DEF PageInv

\* A save of any document of the newest version.
LEMMA UpdatingKeeps ==
    ASSUME PageInv, NEW c \in Contents, NEW after, NEW d, DrawerOK(d), content # None,
           Update(c, after, d)
    PROVE  PageInv' /\ content' # None
<1>1. SelectionOK(page.selected) /\ TableOK(table, page)
  BY DEF PageInv, PageOK
<1>2. Show(UpdateRiSc(page.selected, c, page.selected.objects, after), table, d)
  BY DEF Update
<1> QED BY <1>1, <1>2, UpdateKeeps DEF content

\* The form that is submitted.
LEMMA SubmittingKeeps ==
    ASSUME PageInv, clock \in Nat, SubmitEditedScenario PROVE PageInv' /\ content' # None
<1> DEFINE old == getScenarioOfIdFromRiSc(drawer.form.id, content)
           actions == getActionsWithLastUpdated(old.actions, drawer.form.actions, FALSE, clock)
           edited == [drawer.form EXCEPT !.actions = actions]
<1>1. drawer.open /\ Update(WithScenario(content, edited), "endEditing", drawer)
  BY DEF SubmitEditedScenario
<1>2. drawer.form \in FormScenarios /\ content \in Contents
  BY <1>1, FormIsThere
<1>3. actions \in Seq(Actions)
  BY <1>2, FormParts, StampedActions
<1> HIDE DEF actions
<1>4. edited \in Scenarios
  BY <1>2, <1>3, FormActions
<1> HIDE DEF edited
<1>5. WithScenario(content, edited) \in Contents
  BY <1>2, <1>4, EditedContent DEF Contents
<1>6. content # None
  BY <1>2, FormNotNone DEF Contents
<1> QED BY <1>1, <1>5, <1>6, UpdatingKeeps DEF PageInv

\* A scenario that is deleted.
LEMMA DeletingKeeps ==
    ASSUME PageInv, NEW id, DeleteScenario(id) PROVE PageInv' /\ content' # None
<1>1. Update(WithoutScenario(content, id), "nothing", drawer)
  BY DEF DeleteScenario
<1>2. content # None
  BY FormIsThere, FormNotNone DEF DeleteScenario, AtTable, Contents
<1>3. content \in Contents
  BY <1>2, ContentIsOne DEF PageInv
<1>4. WithoutScenario(content, id) \in Contents
  BY <1>3, DeletedContent DEF Contents
<1> QED BY <1>1, <1>2, <1>4, UpdatingKeeps DEF PageInv

\* Predefined scenarios.
LEMMA AddingKeeps ==
    ASSUME PageInv, clock \in Nat, AddPredefinedScenarios PROVE PageInv' /\ content' # None
<1> DEFINE new == buildPredefinedScenarios(Predefined, clock)
<1>1. content # None /\ Update(WithNewScenarios(content, new), "nothing", drawer)
  BY DEF AddPredefinedScenarios, AtTable
<1>2. content \in Contents
  BY <1>1, ContentIsOne DEF PageInv
<1>3. new \in Seq(Scenarios)
  BY PredefinedScenarios
<1> HIDE DEF new
<1>4. WithNewScenarios(content, new) \in Contents
  BY <1>2, <1>3, AddedContent DEF Contents
<1> QED BY <1>1, <1>4, UpdatingKeeps DEF PageInv

\* The wizard.
LEMMA WizardKeeps ==
    ASSUME PageInv, clock \in Nat, InWizard PROVE PageInv' /\ content' # None
<1>1. CASE OpenNewScenarioWizard
  <2> DEFINE form == emptyFormScenario(NewScenario)
             d == [Closed EXCEPT !.url = NewScenario, !.step = TRUE, !.form = form]
  <2>1. content # None /\ Show(page, table, d)
    BY <1>1 DEF OpenNewScenarioWizard, AtTable
  <2>2. form \in FormScenarios /\ form.id = NewScenario /\ NewScenario \in ScenarioId
    BY EmptyForm, EditorAssumption
  <2>3. form # None /\ NewScenario # None
    BY <2>2, FormNotNone, DocumentAssumption
  <2> HIDE DEF form
  <2>4. d = [url |-> NewScenario, step |-> TRUE, open |-> FALSE, editing |-> FALSE,
             shown |-> None, objects |-> 0, form |-> form]
    <3> DEFINE no == FALSE
               yes == TRUE
    <3>1. Closed = [url |-> None, step |-> no, open |-> no, editing |-> no, shown |-> None,
                    objects |-> 0, form |-> None]
      BY DEF Closed
    <3>2. d = [Closed EXCEPT !.url = NewScenario, !.step = yes, !.form = form]
      OBVIOUS
    <3> HIDE DEF no, yes, d
    <3>3. d = [url |-> NewScenario, step |-> yes, open |-> no, editing |-> no, shown |-> None,
               objects |-> 0, form |-> form]
      BY <3>1, <3>2
    <3> QED BY <3>3 DEF yes, no
  <2> HIDE DEF d
  <2>5. DrawerOK(d)
    BY <2>2, <2>3, <2>4 DEF DrawerOK, OrNone
  <2> QED BY <2>1, <2>5, ShowKeepsPage DEF PageInv, content
<1>2. CASE CloseWizard
  <2>1. Show(page, table, Closed) /\ drawer.step
    BY <1>2 DEF CloseWizard
  <2>2. page.selected.content # None
    BY <2>1 DEF PageInv, Follows
  <2> QED BY <2>1, <2>2, ClosedDrawer, ShowKeepsPage DEF PageInv
<1>3. ASSUME NEW risks \in WizardRisks, SubmitNewScenario(risks)
      PROVE  PageInv' /\ content' # None
  <2> DEFINE form == [drawer.form EXCEPT !.risk = risks.risk,
                                         !.remainingRisk = risks.remainingRisk]
             actions == getActionsWithLastUpdated(<<>>, form.actions, FALSE, clock)
             new == [form EXCEPT !.actions = actions]
             d == [drawer EXCEPT !.form = form]
  <2>1. drawer.step /\ Update(WithNewScenarios(content, <<new>>), "closeScenarioForm", d)
    BY <1>3 DEF SubmitNewScenario
  <2>2. drawer.form \in FormScenarios /\ content \in Contents
    BY <2>1, FormIsThere
  <2>3. risks.risk \in FormRisks /\ risks.remainingRisk \in FormRisks
    BY EditorAssumption
  <2>4. form \in FormScenarios /\ form.id = drawer.form.id
    BY <2>2, <2>3, FormRisksAreRisks DEF FormScenarios, Scenarios
  <2> HIDE DEF form
  <2>5. actions \in Seq(Actions)
    BY <2>4, FormParts, StampedActions
  <2> HIDE DEF actions
  <2>6. new \in Scenarios
    BY <2>4, <2>5, FormActions
  <2> HIDE DEF new
  <2>7. <<new>> \in Seq(Scenarios)
    BY <2>6
  <2>8. WithNewScenarios(content, <<new>>) \in Contents
    BY <2>2, <2>7, AddedContent DEF Contents
  <2>9. DrawerOK(d)
    BY <2>4, OtherForm DEF PageInv
  <2>10. content # None
    BY <2>2, FormNotNone DEF Contents
  <2> HIDE DEF d
  <2> QED BY <2>1, <2>8, <2>9, <2>10, UpdatingKeeps
<1> QED BY <1>1, <1>2, <1>3 DEF InWizard

\* Lists of the same items have the same ids.
LEMMA IdsOfRange == ASSUME NEW a, NEW b, Range(a) = Range(b) PROVE Ids(a) = Ids(b)
<1>1. Ids(a) = {x.id : x \in Range(a)} /\ Ids(b) = {x.id : x \in Range(b)}
  BY DEF Ids, Range
<1> QED BY <1>1

\* Two lists, one after the other.
LEMMA JoinedLists ==
    ASSUME NEW S, NEW a \in Seq(S), NEW b \in Seq(S)
    PROVE  /\ a \o b \in Seq(S) /\ Len(a \o b) = Len(a) + Len(b)
           /\ \A k \in 1..(Len(a) + Len(b)) :
                  (a \o b)[k] = IF k <= Len(a) THEN a[k] ELSE b[k - Len(a)]
OBVIOUS

\* A row that is dragged is still there.
LEMMA MovedList ==
    ASSUME NEW S, NEW items \in Seq(S), NEW from \in DOMAIN items, NEW to \in DOMAIN items
    PROVE  LET moved == InsertAt(RemoveAt(items, from), to, items[from])
           IN  /\ moved \in Seq(S) /\ Range(moved) = Range(items)
               /\ UniqueIds(items) => UniqueIds(moved)
<1> DEFINE n == Len(items)
           rest == RemoveAt(items, from)
           moved == InsertAt(rest, to, items[from])
<1>1. n \in Nat /\ from \in 1..n /\ to \in 1..n /\ DOMAIN items = 1..n
  OBVIOUS
<1>2. /\ rest \in Seq(S) /\ Len(rest) = n - 1 /\ DOMAIN rest = 1..(n - 1)
      /\ \A k \in 1..(n - 1) : rest[k] = IF k < from THEN items[k] ELSE items[k + 1]
  <2> DEFINE a == SubSeq(items, 1, from - 1)
             b == SubSeq(items, from + 1, n)
  <2>1. /\ a \in Seq(S) /\ Len(a) = from - 1 /\ \A k \in 1..(from - 1) : a[k] = items[k]
        /\ b \in Seq(S) /\ Len(b) = n - from /\ \A k \in 1..(n - from) : b[k] = items[k + from]
    BY <1>1
  <2>2. rest = a \o b
    BY DEF RemoveAt
  <2> HIDE DEF a, b, rest
  <2>3. /\ rest \in Seq(S) /\ Len(rest) = n - 1
        /\ \A k \in 1..(n - 1) : rest[k] = IF k <= from - 1 THEN a[k] ELSE b[k - (from - 1)]
    <3>1. (from - 1) + (n - from) = n - 1
      BY <1>1
    <3>2. /\ rest \in Seq(S) /\ Len(rest) = Len(a) + Len(b)
          /\ \A k \in 1..(Len(a) + Len(b)) :
                 rest[k] = IF k <= Len(a) THEN a[k] ELSE b[k - Len(a)]
      BY <2>1, <2>2, JoinedLists
    <3> QED BY <2>1, <3>1, <3>2, Zenon
  <2>4. ASSUME NEW k \in 1..(n - 1)
        PROVE  rest[k] = IF k < from THEN items[k] ELSE items[k + 1]
    <3>1. CASE k < from
      <4>1. k \in 1..(from - 1) /\ k <= from - 1
        BY <1>1, <3>1
      <4> QED BY <2>1, <2>3, <3>1, <4>1
    <3>2. CASE ~(k < from)
      <4>1. ~(k <= from - 1) /\ k - (from - 1) \in 1..(n - from)
            /\ (k - (from - 1)) + from = k + 1
        BY <1>1, <3>2
      <4> QED BY <2>1, <2>3, <3>2, <4>1
    <3> QED BY <3>1, <3>2
  <2>5. DOMAIN rest = 1..(n - 1)
    BY <2>3
  <2> QED BY <2>3, <2>4, <2>5
<1> HIDE DEF rest
<1>3. /\ moved \in Seq(S) /\ DOMAIN moved = 1..n
      /\ \A k \in 1..n : moved[k] = IF k < to THEN rest[k]
                                    ELSE IF k = to THEN items[from] ELSE rest[k - 1]
  <2> DEFINE a == SubSeq(rest, 1, to - 1)
             x == <<items[from]>>
             b == SubSeq(rest, to, n - 1)
  <2>1. /\ a \in Seq(S) /\ Len(a) = to - 1 /\ \A k \in 1..(to - 1) : a[k] = rest[k]
        /\ b \in Seq(S) /\ Len(b) = n - to /\ \A k \in 1..(n - to) : b[k] = rest[k + (to - 1)]
    <3>1. Len(rest) = n - 1 /\ to \in 1..n /\ n \in Nat /\ rest \in Seq(S)
      BY <1>1, <1>2
    <3>2. ASSUME NEW k \in 1..(to - 1) PROVE k \in 1..(n - 1)
      BY <3>1
    <3>3. ASSUME NEW k \in 1..(n - to) PROVE k + (to - 1) \in 1..(n - 1)
      BY <3>1
    <3>4. a \in Seq(S) /\ Len(a) = to - 1 /\ \A k \in 1..(to - 1) : a[k] = rest[k]
      BY <3>1, <3>2
    <3>5. b \in Seq(S)
      BY <3>1, <3>3
    <3>6. Len(b) = n - to
      BY <3>1
    <3>7. \A k \in 1..(n - to) : b[k] = rest[k + (to - 1)]
      BY <3>1
    <3> QED BY <3>4, <3>5, <3>6, <3>7
  <2>2. x \in Seq(S) /\ Len(x) = 1 /\ x[1] = items[from]
    BY <1>1
  <2>3. moved = a \o x \o b
    BY <1>2 DEF InsertAt
  <2> HIDE DEF a, b, x, moved
  <2> DEFINE c == a \o x
  <2>4. /\ c \in Seq(S) /\ Len(c) = to
        /\ \A k \in 1..to : c[k] = IF k < to THEN a[k] ELSE x[1]
    <3>1. (to - 1) + 1 = to
      BY <1>1
    <3>2. /\ c \in Seq(S) /\ Len(c) = Len(a) + Len(x)
          /\ \A k \in 1..(Len(a) + Len(x)) :
                 c[k] = IF k <= Len(a) THEN a[k] ELSE x[k - Len(a)]
      BY <2>1, <2>2, JoinedLists
    <3> HIDE DEF c
    <3>3. \A k \in 1..to : c[k] = IF k <= to - 1 THEN a[k] ELSE x[k - (to - 1)]
      BY <2>1, <2>2, <3>1, <3>2, Zenon
    <3>4. ASSUME NEW k \in 1..to PROVE c[k] = IF k < to THEN a[k] ELSE x[1]
      <4>1. CASE k < to
        <5>1. k <= to - 1
          BY <1>1, <4>1
        <5> QED BY <3>3, <4>1, <5>1
      <4>2. CASE k = to
        <5>1. ~(k <= to - 1) /\ k - (to - 1) = 1
          BY <1>1, <4>2
        <5> QED BY <1>1, <3>3, <4>2, <5>1
      <4> QED BY <1>1, <4>1, <4>2
    <3>5. Len(c) = to
      BY <2>1, <2>2, <3>1, <3>2
    <3> QED BY <3>2, <3>4, <3>5
  <2>5. moved = c \o b
    BY <2>3
  <2> HIDE DEF c
  <2>6. /\ moved \in Seq(S) /\ Len(moved) = n
        /\ \A k \in 1..n : moved[k] = IF k <= to THEN c[k] ELSE b[k - to]
    <3>1. to + (n - to) = n
      BY <1>1
    <3>2. /\ moved \in Seq(S) /\ Len(moved) = Len(c) + Len(b)
          /\ \A k \in 1..(Len(c) + Len(b)) :
                 moved[k] = IF k <= Len(c) THEN c[k] ELSE b[k - Len(c)]
      <4>1. c \in Seq(S) /\ b \in Seq(S)
        BY <2>1, <2>4
      <4>2. /\ c \o b \in Seq(S) /\ Len(c \o b) = Len(c) + Len(b)
            /\ \A k \in 1..(Len(c) + Len(b)) :
                   (c \o b)[k] = IF k <= Len(c) THEN c[k] ELSE b[k - Len(c)]
        BY <4>1, JoinedLists, Zenon
      <4> QED BY <2>5, <4>2, Zenon
    <3> QED BY <2>1, <2>4, <3>1, <3>2, Zenon
  <2>7. ASSUME NEW k \in 1..n
        PROVE  moved[k] = IF k < to THEN rest[k]
                          ELSE IF k = to THEN items[from] ELSE rest[k - 1]
    <3>1. CASE k < to
      <4>1. k \in 1..(to - 1) /\ k \in 1..to
        BY <1>1, <3>1
      <4> QED BY <2>1, <2>4, <2>6, <3>1, <4>1
    <3>2. CASE k = to
      BY <1>1, <2>2, <2>4, <2>6, <3>2
    <3>3. CASE k > to
      <4>1. k - to \in 1..(n - to) /\ (k - to) + (to - 1) = k - 1 /\ ~(k <= to)
        BY <1>1, <3>3
      <4> QED BY <2>1, <2>6, <3>3, <4>1
    <3> QED BY <1>1, <3>1, <3>2, <3>3
  <2>8. DOMAIN moved = 1..n
    BY <2>6
  <2> QED BY <2>6, <2>7, <2>8
<1> HIDE DEF moved
<1>4. ASSUME NEW k \in 1..n PROVE \E j \in 1..n : moved[k] = items[j]
  <2>1. CASE k < to
    <3>1. k \in 1..(n - 1) /\ k + 1 \in 1..n
      BY <1>1, <2>1
    <3> QED BY <1>2, <1>3, <2>1, <3>1
  <2>2. CASE k = to
    BY <1>1, <1>3, <2>2
  <2>3. CASE k > to
    <3>1. k - 1 \in 1..(n - 1) /\ k - 1 \in 1..n /\ (k - 1) + 1 = k /\ ~(k < to) /\ k # to
      BY <1>1, <2>3
    <3>2. moved[k] = rest[k - 1]
      BY <1>3, <3>1
    <3>3. rest[k - 1] \in {items[k - 1], items[k]}
      BY <1>2, <3>1
    <3> QED BY <3>1, <3>2, <3>3
  <2> QED BY <1>1, <2>1, <2>2, <2>3
<1>5. ASSUME NEW j \in 1..n PROVE \E k \in 1..n : moved[k] = items[j]
  <2>1. CASE j = from
    BY <1>1, <1>3, <2>1
  <2>2. CASE j # from
    <3>1. PICK i \in 1..(n - 1) : rest[i] = items[j]
      <4>1. CASE j < from
        <5>1. j \in 1..(n - 1)
          BY <1>1, <4>1
        <5> QED BY <1>2, <4>1, <5>1
      <4>2. CASE j > from
        <5>1. j - 1 \in 1..(n - 1) /\ (j - 1) + 1 = j /\ ~(j - 1 < from)
          BY <1>1, <4>2
        <5> QED BY <1>2, <5>1
      <4> QED BY <1>1, <2>2, <4>1, <4>2
    <3>2. CASE i < to
      <4>1. i \in 1..n
        BY <1>1
      <4> QED BY <1>3, <3>1, <3>2, <4>1
    <3>3. CASE ~(i < to)
      <4>1. i + 1 \in 1..n /\ ~(i + 1 < to) /\ i + 1 # to /\ (i + 1) - 1 = i
        BY <1>1, <3>3
      <4>2. moved[i + 1] = rest[i]
        BY <1>3, <4>1
      <4> QED BY <3>1, <4>1, <4>2
    <3> QED BY <3>2, <3>3
  <2> QED BY <2>1, <2>2
<1>6. Range(moved) = Range(items)
  <2>1. Range(moved) = {moved[k] : k \in 1..n} /\ Range(items) = {items[k] : k \in 1..n}
    BY <1>1, <1>3 DEF Range
  <2> HIDE DEF n
  <2> QED BY <1>4, <1>5, <2>1
<1>7. ASSUME UniqueIds(items) PROVE UniqueIds(moved)
  <2> DEFINE Place(k) == IF k < to THEN k ELSE k - 1
             At0(k) == IF k = to THEN from
                       ELSE IF Place(k) < from THEN Place(k) ELSE Place(k) + 1
  <2>1. ASSUME NEW k \in 1..n PROVE At0(k) \in 1..n /\ moved[k] = items[At0(k)]
    <3>1. At0(k) \in 1..n
      BY <1>1
    <3>2. CASE k = to
      BY <1>1, <1>3, <3>2
    <3>3. CASE k # to
      <4>1. Place(k) \in 1..(n - 1) /\ moved[k] = rest[Place(k)]
        BY <1>1, <1>3, <3>3
      <4> HIDE DEF Place
      <4>2. rest[Place(k)] = items[At0(k)]
        BY <1>2, <3>3, <4>1
      <4> QED BY <3>1, <4>1, <4>2
    <3> QED BY <3>2, <3>3, <3>1
  <2>2. \A j, k \in 1..n : At0(j) = At0(k) => j = k
    BY <1>1
  <2> HIDE DEF At0
  <2>3. ASSUME NEW j \in 1..n, NEW k \in 1..n, moved[j].id = moved[k].id PROVE j = k
    <3>1. items[At0(j)].id = items[At0(k)].id
      BY <2>1, <2>3
    <3>2. At0(j) = At0(k)
      BY <1>1, <1>7, <2>1, <3>1 DEF UniqueIds
    <3> QED BY <2>2, <3>2
  <2> QED BY <1>3, <2>3 DEF UniqueIds
<1> QED BY <1>3, <1>6, <1>7 DEF moved, rest

\* A row that is dragged.
LEMMA MovingKeeps ==
    ASSUME PageInv, NEW from, NEW to, MoveRowLocal(from, to)
    PROVE  PageInv' /\ UNCHANGED <<page, drawer>>
<1> DEFINE moved == InsertAt(RemoveAt(table.scenarios, from), to, table.scenarios[from])
<1>1. /\ from \in DOMAIN table.scenarios /\ to \in DOMAIN table.scenarios
      /\ table' = [table EXCEPT !.scenarios = moved] /\ UNCHANGED <<page, drawer>>
  BY DEF MoveRowLocal
<1>2. TableOK(table, page)
  BY DEF PageInv
<1>3. moved \in Seq(Scenarios) /\ Ids(moved) = Ids(table.scenarios)
  <2>1. table.scenarios \in Seq(Scenarios)
    BY <1>2 DEF TableOK
  <2>2. moved \in Seq(Scenarios) /\ Range(moved) = Range(table.scenarios)
    BY <1>1, <2>1, MovedList
  <2> HIDE DEF moved
  <2> QED BY <2>2, IdsOfRange
<1> HIDE DEF moved
<1>4. DOMAIN table = {"mounted", "scenarios", "objects", "early", "rows"}
  BY <1>2 DEF TableOK
<1>5. table' = [mounted |-> table.mounted, scenarios |-> moved, objects |-> table.objects,
                early |-> table.early, rows |-> table.rows]
  BY <1>1, <1>4
<1>6. table'.mounted = table.mounted /\ table'.scenarios = moved /\ table'.rows = table.rows
      /\ table' = [mounted |-> table'.mounted, scenarios |-> table'.scenarios,
                   objects |-> table'.objects, early |-> table'.early, rows |-> table'.rows]
  BY <1>5
<1>7. TableOK(table', page)
  BY <1>2, <1>3, <1>6 DEF TableOK
<1> QED BY <1>1, <1>7 DEF PageInv

\* A row that is dropped, with whatever closure.
LEMMA DroppingKeeps == ASSUME PageInv, NEW id, DropRow(id) PROVE PageInv' /\ content' # None
<1> DEFINE row == table.rows[id]
           c == [row.content EXCEPT !.scenarios = table.scenarios]
<1>1. id \in DOMAIN table.rows
      /\ Show(UpdateRiSc(row, c, table.objects, "nothing"), table, drawer)
  BY DEF DropRow
<1>2. SelectionOK(row) /\ row.content # None /\ table.scenarios \in Seq(Scenarios)
  BY <1>1 DEF PageInv, TableOK
<1> HIDE DEF row
<1>3. row.content \in Contents
  BY <1>2 DEF SelectionOK, OrNone
<1>4. c \in Contents
  BY <1>2, <1>3, ContentParts DEF Contents
<1> HIDE DEF c
<1> QED BY <1>1, <1>2, <1>4, UpdateKeeps DEF PageInv

\* The dialog.
LEMMA DialogKeeps ==
    ASSUME PageInv, clock \in Nat, dialog \in OrNone(Contents), content # None,
           NEW appliesTo \in {None, 1}, SubmitDialog(appliesTo)
    PROVE  PageInv' /\ content' # None
<1> DEFINE c == [dialog EXCEPT !.text = Now, !.appliesTo = appliesTo]
<1>1. Show(UpdateRiSc(page.selected, c, Now, "nothing"), table, drawer) /\ dialog # None
  BY DEF SubmitDialog
<1>2. c \in Contents
  <2>1. dialog \in RiScDocuments /\ dialog.schemaVersion = latestSupportedVersion
    BY <1>1 DEF OrNone, Contents
  <2>2. Now \in Nat /\ appliesTo \in Nat \cup {None}
    BY DEF Now
  <2> DEFINE n == Now
  <2> HIDE DEF n
  <2>3. LET d == [dialog EXCEPT !.text = n, !.appliesTo = appliesTo]
        IN  d \in RiScDocuments /\ d.schemaVersion = dialog.schemaVersion
    BY <2>1, <2>2 DEF RiScDocuments, n
  <2> QED BY <2>1, <2>3 DEF Contents, n
<1> HIDE DEF c
<1> QED BY <1>1, <1>2, UpdateKeeps DEF PageInv, PageOK, content

\* The page with another state of its update.
LEMMA PageParts ==
    ASSUME NEW p, PageOK(p), NEW update, update # "loading"
    PROVE  /\ PageOK([p EXCEPT !.update = update])
           /\ [p EXCEPT !.update = update].selected = p.selected
<1> DEFINE q == [p EXCEPT !.update = update]
<1>1. q = [selected |-> p.selected, update |-> update, request |-> p.request]
  BY DEF PageOK
<1> HIDE DEF q
<1>2. q.selected = p.selected /\ q.update = update
      /\ q = [selected |-> q.selected, update |-> q.update, request |-> q.request]
  BY <1>1
<1> QED BY <1>2 DEF PageOK, q

\* An approval, or a failed one, leaves content and request.
LEMMA SentPage ==
    ASSUME PageOK(page)
    PROVE  LET p == [page EXCEPT !.update = "success", !.selected.status = "SentForApproval"]
           IN  /\ PageOK(p) /\ p.selected.content = page.selected.content
               /\ p.selected.objects = page.selected.objects
<1> DEFINE p == [page EXCEPT !.update = "success", !.selected.status = "SentForApproval"]
           s == [page.selected EXCEPT !.status = "SentForApproval"]
<1>1. p = [selected |-> s, update |-> "success", request |-> page.request]
  <2> DEFINE q == [page EXCEPT !.update = "success"]
  <2>1. q = [selected |-> page.selected, update |-> "success", request |-> page.request]
    BY DEF PageOK
  <2>2. p = [q EXCEPT !.selected.status = "SentForApproval"]
    OBVIOUS
  <2> HIDE DEF q, p
  <2> QED BY <2>1, <2>2
<1>2. s = [content |-> page.selected.content, objects |-> page.selected.objects,
           status |-> "SentForApproval", migrationStatus |-> page.selected.migrationStatus,
           sopsConfig |-> page.selected.sopsConfig]
  BY DEF PageOK, SelectionOK
<1>3. SelectionOK(s) /\ s.content = page.selected.content
      /\ s.objects = page.selected.objects
  <2> HIDE DEF s
  <2>1. s.content = page.selected.content /\ s.objects = page.selected.objects
    BY <1>2
  <2>2. s = [content |-> s.content, objects |-> s.objects, status |-> s.status,
             migrationStatus |-> s.migrationStatus, sopsConfig |-> s.sopsConfig]
    BY <1>2
  <2> QED BY <2>1, <2>2 DEF PageOK, SelectionOK
<1> HIDE DEF s, p
<1>4. p.selected = s /\ p.update = "success"
      /\ p = [selected |-> p.selected, update |-> p.update, request |-> p.request]
  BY <1>1
<1> QED BY <1>3, <1>4 DEF PageOK, p

\* Approving.
LEMMA ApprovingKeeps ==
    ASSUME PageInv, ApproveRiSc PROVE PageInv' /\ content' # None
<1>1. content # None
  BY DEF ApproveRiSc, AtTable
<1>2. CASE Show([page EXCEPT !.update = "error"], table, drawer)
  <2> DEFINE p == [page EXCEPT !.update = "error"]
  <2>1. PageOK(p) /\ p.selected = page.selected
    BY PageParts DEF PageInv
  <2>2. Show(p, table, drawer)
    BY <1>2
  <2> HIDE DEF p
  <2> QED BY <1>1, <2>1, <2>2, ShowKeepsPage DEF PageInv, content
<1>3. CASE Show([page EXCEPT !.update = "success",
                            !.selected.status = "SentForApproval"], table, drawer)
  <2> DEFINE p == [page EXCEPT !.update = "success", !.selected.status = "SentForApproval"]
  <2>1. PageOK(p) /\ p.selected.content = page.selected.content
    BY SentPage DEF PageInv
  <2>2. Show(p, table, drawer)
    BY <1>3
  <2> HIDE DEF p
  <2> QED BY <1>1, <2>1, <2>2, ShowKeepsPage DEF PageInv, content
<1> QED BY <1>2, <1>3 DEF ApproveRiSc

\* The answer of the service is not the RiSc.
LEMMA AnswerKeeps ==
    ASSUME PageInv, ~Quiet, NEW answer, page' = [page EXCEPT !.request.answer = answer],
           UNCHANGED <<table, drawer>>
    PROVE  PageInv' /\ page'.selected = page.selected
<1> DEFINE r == [page.request EXCEPT !.answer = answer]
           q == page.request
<1>1. PageOK(page) /\ RequestOK(q, page.selected)
  BY DEF PageInv, PageOK, Quiet
<1>2. page' = [selected |-> page.selected, update |-> page.update, request |-> r]
  BY <1>1 DEF PageOK
<1>3. r = [old |-> q.old, new |-> q.new, requiresApproval |-> q.requiresApproval,
           body |-> q.body, after |-> q.after, answer |-> answer]
  BY <1>1 DEF RequestOK
<1> HIDE DEF r, q
<1>4. RequestOK(r, page.selected)
  <2>1. r.old = q.old /\ r.new = q.new /\ r.body = q.body
        /\ r = [old |-> r.old, new |-> r.new, requiresApproval |-> r.requiresApproval,
                body |-> r.body, after |-> r.after, answer |-> r.answer]
    BY <1>3
  <2> QED BY <1>1, <2>1 DEF RequestOK
<1>5. page'.selected = page.selected /\ page'.update = page.update /\ page'.request = r
  BY <1>2
<1>7. page' = [selected |-> page'.selected, update |-> page'.update, request |-> page'.request]
  BY <1>2, <1>5
<1>6. PageOK(page')
  BY <1>1, <1>4, <1>5, <1>7 DEF PageOK
<1> QED BY <1>5, <1>6 DEF PageInv, TableOK, Follows

\* The page after an answer.
LEMMA AnsweredPage ==
    ASSUME NEW s, SelectionOK(s), NEW update, update # "loading"
    PROVE  LET p == [selected |-> s, update |-> update, request |-> None]
           IN  PageOK(p) /\ p.selected = s
<1> DEFINE p == [selected |-> s, update |-> update, request |-> None]
<1>1. p.selected = s /\ p.update = update
      /\ p = [selected |-> p.selected, update |-> p.update, request |-> p.request]
  OBVIOUS
<1> HIDE DEF p
<1> QED BY <1>1 DEF PageOK, p

\* The callbacks leave a drawer that follows.
LEMMA AfterAnswer ==
    ASSUME NEW d, DrawerOK(d), NEW request
    PROVE  /\ DrawerOK(After(d, request))
           /\ ~d.step => After(d, request).url \in {d.url, None} /\ ~After(d, request).step
<1>1. After(d, request) \in {d, [d EXCEPT !.editing = FALSE], Closed, [d EXCEPT !.url = None]}
      /\ (d.step => After(d, request) \in {d, [d EXCEPT !.editing = FALSE], Closed})
  BY DEF After
<1>2. CASE d.step
  <2>1. DrawerOK([d EXCEPT !.editing = FALSE])
    BY OtherEditing
  <2> QED BY <1>1, <1>2, <2>1, ClosedDrawer
<1>3. CASE ~d.step
  <2>1. DrawerOK([d EXCEPT !.editing = FALSE]) /\ DrawerOK([d EXCEPT !.url = None])
    BY <1>3, OtherUrl DEF OrNone
  <2>2. [d EXCEPT !.editing = FALSE].url = d.url /\ [d EXCEPT !.editing = FALSE].step = d.step
        /\ [d EXCEPT !.url = None].url = None /\ [d EXCEPT !.url = None].step = d.step
    BY DrawerShape
  <2>3. Closed.url = None /\ Closed.step = FALSE
    BY DEF Closed
  <2> QED BY <1>1, <1>3, <2>1, <2>2, <2>3, ClosedDrawer
<1> QED BY <1>2, <1>3

\* The answers to a save, and rolling back.
LEMMA AnsweringKeeps ==
    ASSUME PageInv, OnSaved \/ OnError
    PROVE  /\ PageInv' /\ content' # None
           /\ drawer.url = None /\ ~drawer.step => ~drawer'.open /\ ~drawer'.step
<1>1. PageOK(page) /\ RequestOK(page.request, page.selected) /\ DrawerOK(drawer)
      /\ TableOK(table, page)
  <2>1. ~Quiet
    BY DEF OnSaved, OnError
  <2> QED BY <2>1 DEF PageInv, PageOK, Quiet
<1>2. ASSUME NEW s, SelectionOK(s), s.content # None, NEW update, update # "loading", NEW d,
             DrawerOK(d), ~drawer.step => d.url \in {drawer.url, None} /\ ~d.step,
             Show([selected |-> s, update |-> update, request |-> None], table, d)
      PROVE  /\ PageInv' /\ content' # None
             /\ drawer.url = None /\ ~drawer.step => ~drawer'.open /\ ~drawer'.step
  <2> DEFINE p == [selected |-> s, update |-> update, request |-> None]
  <2>1. PageOK(p) /\ p.selected = s
    BY <1>2, AnsweredPage
  <2> HIDE DEF p
  <2>2. Show(p, table, d)
    BY <1>2 DEF p
  <2>3. PageInv' /\ content' # None
    BY <1>1, <1>2, <2>1, <2>2, ShowKeepsPage DEF PageInv
  <2>4. drawer' = ScenarioDrawer(d, p)
    BY <2>2 DEF Show
  <2>5. ASSUME drawer.url = None, ~drawer.step PROVE ~drawer'.open /\ ~drawer'.step
    <3>1. d.url = None /\ ~d.step
      BY <1>2, <2>5
    <3>2. drawer'.url = None /\ ~drawer'.step
      BY <1>2, <2>4, <3>1, DrawerKeepsUrl
    <3> QED BY <2>3, <3>2 DEF PageInv, Follows
  <2> QED BY <2>3, <2>5
<1>3. CASE OnSaved
  <2>1. Show([selected |-> page.request.new, update |-> "success", request |-> None],
             table, After(drawer, page.request))
    BY <1>3 DEF OnSaved
  <2>2. SelectionOK(page.request.new) /\ page.request.new.content # None
    BY <1>1 DEF RequestOK, PageOK
  <2> QED BY <1>1, <1>2, <2>1, <2>2, AfterAnswer
<1>4. CASE OnError
  <2>1. Show([selected |-> page.request.old, update |-> "error", request |-> None],
             table, drawer)
    BY <1>4 DEF OnError
  <2>2. SelectionOK(page.request.old) /\ page.request.old.content # None
    BY <1>1 DEF RequestOK
  <2> QED BY <1>1, <1>2, <2>1, <2>2
<1> QED BY <1>3, <1>4

\* A RiSc that is fetched is migrated to the newest version.
LEMMA FetchingKeeps ==
    ASSUME PageInv, FilesOK, FetchRiScs PROVE PageInv' /\ content' # None
<1> DEFINE p == [page EXCEPT !.selected = Selected(files)]
           s == Selected(files)
<1>1. ~Fetched(files).failed /\ page.selected.content = None /\ Show(p, table, drawer)
  BY DEF FetchRiScs
<1>2. Fetched(files).doc \in Contents
  BY <1>1, FetchedIsDocument DEF FilesOK, Docs, Contents
<1>3. s.content = Fetched(files).doc
      /\ s = [content |-> s.content, objects |-> s.objects, status |-> s.status,
              migrationStatus |-> s.migrationStatus, sopsConfig |-> s.sopsConfig]
  BY DEF Selected, dtoToRiSc
<1> HIDE DEF s
<1>4. SelectionOK(s) /\ s.content # None
  BY <1>2, <1>3, FormNotNone DEF SelectionOK, OrNone, Contents
<1>5. p = [selected |-> s, update |-> page.update, request |-> page.request]
  BY DEF PageInv, PageOK, s
<1>6. page.update # "loading"
  <2>1. page.update = "loading" => page.selected.content # None
    BY DEF PageInv, PageOK, RequestOK
  <2> QED BY <1>1, <2>1
<1> HIDE DEF p
<1>7. PageOK(p) /\ p.selected = s
  <2>1. p.selected = s /\ p.update = page.update
        /\ p = [selected |-> p.selected, update |-> p.update, request |-> p.request]
    BY <1>5
  <2> QED BY <1>4, <1>6, <2>1 DEF PageOK
<1> QED BY <1>1, <1>4, <1>7, ShowKeepsPage DEF PageInv

\* What is stored, when it is not written.
LEMMA FilesKept ==
    ASSUME FilesOK, NEW pr, files' = files \/ files' = [files EXCEPT !.pr = pr] PROVE FilesOK'
<1>1. CASE files' = files
  BY <1>1 DEF FilesOK, Docs
<1>2. CASE files' = [files EXCEPT !.pr = pr]
  <2>1. files' = [published |-> files.published, draft |-> files.draft, pr |-> pr,
                  sops |-> files.sops]
    BY <1>2 DEF FilesOK
  <2>2. files'.published = files.published /\ files'.draft = files.draft
        /\ files'.pr = pr /\ files'.sops = files.sops
    BY <2>1
  <2>3. Docs' = Docs /\ ToShow(files') = ToShow(files)
    BY <2>2 DEF Docs, ToShow
  <2> QED BY <2>1, <2>2, <2>3 DEF FilesOK
<1> QED BY <1>1, <1>2

\* What is stored by a save.
LEMMA FilesStored == ASSUME FilesOK, PageInv, Serve PROVE FilesOK'
<1>1. RequestOK(page.request, page.selected) /\ SelectionOK(page.selected)
  BY DEF PageInv, PageOK, Serve, Quiet
<1> DEFINE body == page.request.body
<1>2. body \in RiScDocuments
  <2>1. page.selected.content \in RiScDocuments
    BY <1>1 DEF RequestOK, SelectionOK, OrNone, Contents
  <2> QED BY <1>1, <2>1, DTODocument DEF RequestOK
<1>3. CASE files' = files
  BY <1>3, FilesKept
<1>4. CASE files' = Stored(files, page.request)
  <2> DEFINE pr == files.pr /\ ~page.request.requiresApproval
             sops == encrypt(page.request.new.sopsConfig)
  <2>1. files' = [files EXCEPT !.draft = body, !.pr = pr, !.sops = sops]
    BY <1>4 DEF Stored
  <2> HIDE DEF pr, sops, body
  <2>2. DOMAIN files = {"published", "draft", "pr", "sops"}
    BY DEF FilesOK
  <2>3. files' = [published |-> files.published, draft |-> body, pr |-> pr, sops |-> sops]
    BY <2>1, <2>2
  <2>4. files'.published = files.published /\ files'.draft = body /\ files'.pr = pr
        /\ files'.sops = sops
    BY <2>3
  <2>5. body # None
    BY <1>2, FormNotNone
  <2>6. Docs' \subseteq RiScDocuments /\ ToShow(files') # None
    BY <1>2, <2>4, <2>5 DEF FilesOK, Docs, ToShow
  <2> QED BY <2>3, <2>4, <2>6 DEF FilesOK
<1> QED BY <1>3, <1>4 DEF Serve

\* Every step keeps the invariant.
LEMMA EditorInvStep == EditorInv /\ [Next]_vars => EditorInv'
<1> SUFFICES ASSUME EditorInv, [Next]_vars PROVE EditorInv'
  OBVIOUS
<1>1. PageInv /\ FilesOK /\ DialogOK /\ clock \in Nat
  BY DEF EditorInv, PageInv
<1>2. ASSUME PageInv', FilesOK', DialogOK', clock' \in Nat PROVE EditorInv'
  BY <1>2 DEF EditorInv, PageInv
<1>3. UNCHANGED files => FilesOK'
  BY <1>1, FilesKept
<1>4. UNCHANGED clock \/ Edits => clock' \in Nat
  BY <1>1 DEF Edits, Now
<1>5. ASSUME dialog = None \/ dialog' = None, dialog' = dialog \/ dialog' = None PROVE DialogOK'
  BY <1>5 DEF DialogOK, OrNone
<1>6. ASSUME UNCHANGED dialog, content' = content, drawer'.open = drawer.open,
             drawer'.step = drawer.step
      PROVE  DialogOK'
  BY <1>1, <1>6 DEF DialogOK
<1>7. drawer.open \/ drawer.step => dialog = None
  BY <1>1 DEF DialogOK
<1>8. CASE FetchRiScs
  <2>1. dialog = None
    BY <1>1, <1>8 DEF FetchRiScs, DialogOK, content
  <2> QED BY <1>1, <1>2, <1>3, <1>4, <1>5, <1>8, <2>1, FetchingKeeps DEF FetchRiScs
<1>9. CASE InDrawer
  <2>1. ASSUME NEW id \in ScenarioId, OpenScenarioDrawer(id) PROVE EditorInv'
    BY <1>1, <1>2, <1>3, <1>4, <1>5, <2>1, OpeningKeeps
       DEF OpenScenarioDrawer, AtTable, Rest, Still
  <2>2. CASE Edit \/ OnCancel
    BY <1>1, <1>2, <1>3, <1>4, <1>6, <2>2, EditingKeeps DEF Edit, OnCancel, Rest, content
  <2>3. CASE TypeText \/ AddAction \/ \E i \in 1..2 : TypeAction(i) \/ RemoveAction(i)
    <3>1. UNCHANGED <<files, dialog>> /\ Edits
      BY <2>3 DEF TypeText, AddAction, TypeAction, RemoveAction, Type, Rest
    <3>2. PageInv' /\ page' = page /\ drawer'.open = drawer.open /\ drawer'.step = drawer.step
      BY <1>1, <2>3, TypingKeeps
    <3> QED BY <1>2, <1>3, <1>4, <1>6, <3>1, <3>2 DEF content
  <2>4. CASE CloseDrawer
    BY <1>1, <1>2, <1>3, <1>4, <1>5, <1>7, <2>4, ClosingKeeps DEF CloseDrawer, Rest, Still
  <2>5. CASE SubmitEditedScenario
    <3>1. drawer.open /\ UNCHANGED <<files, dialog, clock>>
      BY <2>5 DEF SubmitEditedScenario, Rest
    <3> QED BY <1>1, <1>2, <1>3, <1>4, <1>5, <1>7, <2>5, <3>1, SubmittingKeeps
  <2> QED BY <1>9, <2>1, <2>2, <2>3, <2>4, <2>5 DEF InDrawer
<1>10. CASE InWizard
  <2>1. (drawer.step \/ dialog = None) /\ UNCHANGED <<files, dialog, clock>>
    BY <1>10 DEF InWizard, OpenNewScenarioWizard, CloseWizard, SubmitNewScenario, AtTable,
       Rest, Still
  <2> QED BY <1>1, <1>2, <1>3, <1>4, <1>5, <1>7, <1>10, <2>1, WizardKeeps
<1>11. CASE InTable
  <2>1. ASSUME NEW from, NEW to, MoveRowLocal(from, to) PROVE EditorInv'
    <3>1. UNCHANGED <<files, dialog, clock>>
      BY <2>1 DEF MoveRowLocal, Rest
    <3>2. PageInv' /\ UNCHANGED <<page, drawer>>
      BY <1>1, <2>1, MovingKeeps
    <3> QED BY <1>2, <1>3, <1>4, <1>6, <3>1, <3>2 DEF content
  <2>2. ASSUME NEW id, DeleteScenario(id) PROVE EditorInv'
    <3>1. dialog = None /\ UNCHANGED <<files, dialog, clock>>
      BY <1>7, <2>2 DEF DeleteScenario, AtTable, Rest
    <3> QED BY <1>1, <1>2, <1>3, <1>4, <1>5, <2>2, <3>1, DeletingKeeps
  <2>3. ASSUME NEW id, DropRow(id) PROVE EditorInv'
    <3>1. dialog = None /\ UNCHANGED <<files, dialog, clock>>
      BY <2>3 DEF DropRow, AtTable
    <3> QED BY <1>1, <1>2, <1>3, <1>4, <1>5, <2>3, <3>1, DroppingKeeps
  <2>4. CASE AddPredefinedScenarios
    <3>1. dialog = None /\ UNCHANGED <<files, dialog, clock>>
      BY <2>4 DEF AddPredefinedScenarios, AtTable, Rest
    <3> QED BY <1>1, <1>2, <1>3, <1>4, <1>5, <2>4, <3>1, AddingKeeps
  <2> QED BY <1>11, <2>1, <2>2, <2>3, <2>4 DEF InTable
<1>12. CASE InPage
  <2>1. CASE OpenDialog
    <3>1. UNCHANGED <<files, page, table, drawer, clock>> /\ dialog' = content /\ AtTable
      BY <2>1 DEF OpenDialog
    <3>2. DialogOK'
      BY <1>1, <3>1, ContentIsOne DEF DialogOK, AtTable, PageInv, content, OrNone
    <3> QED BY <1>1, <1>2, <1>3, <1>4, <3>1, <3>2, NothingRendered
  <2>2. ASSUME NEW appliesTo \in {None, 1}, SubmitDialog(appliesTo) PROVE EditorInv'
    <3>1. dialog # None /\ dialog' = None /\ UNCHANGED files /\ Edits
      BY <2>2 DEF SubmitDialog
    <3>2. dialog \in OrNone(Contents) /\ content # None
      BY <1>1, <3>1 DEF DialogOK
    <3> QED BY <1>1, <1>2, <1>3, <1>4, <1>5, <2>2, <3>1, <3>2, DialogKeeps
  <2>3. CASE SaveMigration
    <3>1. AtTable /\ Update(content, "nothing", drawer) /\ UNCHANGED <<files, dialog, clock>>
      BY <2>3 DEF SaveMigration, Rest
    <3>2. content \in Contents /\ content # None /\ dialog = None /\ DrawerOK(drawer)
      BY <1>1, <3>1, ContentIsOne DEF AtTable, PageInv
    <3>3. PageInv' /\ content' # None
      BY <1>1, <3>1, <3>2, UpdatingKeeps
    <3> QED BY <1>2, <1>3, <1>4, <1>5, <3>1, <3>2, <3>3
  <2>4. CASE ApproveRiSc
    <3>1. dialog = None /\ UNCHANGED <<dialog, clock>>
          /\ (files' = files \/ files' = [files EXCEPT !.pr = files.draft # None])
      BY <2>4 DEF ApproveRiSc, AtTable
    <3>2. FilesOK'
      BY <1>1, <3>1, FilesKept
    <3> QED BY <1>1, <1>2, <1>4, <1>5, <2>4, <3>1, <3>2, ApprovingKeeps
  <2>5. CASE GetDifferences
    <3>1. UNCHANGED <<files, page, table, drawer, clock, dialog>>
      BY <2>5 DEF GetDifferences, Rest
    <3> QED BY <1>1, <1>2, <1>3, <1>4, <1>6, <3>1, NothingRendered
  <2> QED BY <1>12, <2>1, <2>2, <2>3, <2>4, <2>5 DEF InPage
<1>13. CASE Answers
  <2>1. CASE Serve
    <3>1. ~Quiet /\ page' = [page EXCEPT !.request.answer = "ok"]
          /\ UNCHANGED <<table, drawer, dialog, clock>>
      BY <2>1 DEF Serve
    <3>2. PageInv' /\ page'.selected = page.selected
      BY <1>1, <3>1, AnswerKeeps
    <3>3. FilesOK'
      BY <1>1, <2>1, FilesStored
    <3> QED BY <1>2, <1>4, <1>6, <3>1, <3>2, <3>3 DEF content
  <2>2. CASE Fail
    <3>1. ~Quiet /\ page' = [page EXCEPT !.request.answer = "error"]
          /\ UNCHANGED <<files, table, drawer, dialog, clock>>
      BY <2>2 DEF Fail
    <3>2. PageInv' /\ page'.selected = page.selected
      BY <1>1, <3>1, AnswerKeeps
    <3> QED BY <1>2, <1>3, <1>4, <1>6, <3>1, <3>2 DEF content
  <2>3. CASE OnSaved \/ OnError
    <3>1. UNCHANGED <<files, dialog, clock>>
      BY <2>3 DEF OnSaved, OnError, Rest, Still
    <3>2. PageInv' /\ content' # None
          /\ (drawer.url = None /\ ~drawer.step => ~drawer'.open /\ ~drawer'.step)
      BY <1>1, <2>3, AnsweringKeeps
    <3>3. dialog # None => drawer.url = None /\ ~drawer.step
      BY <1>1 DEF DialogOK, PageInv, Follows
    <3>4. DialogOK'
      BY <1>1, <3>1, <3>2, <3>3 DEF DialogOK
    <3> QED BY <1>2, <1>3, <1>4, <3>1, <3>2, <3>4
  <2>4. CASE OnDifference \/ OnDifferenceError
    <3>1. UNCHANGED <<files, page, table, drawer, clock, dialog>>
      BY <2>4 DEF OnDifference, OnDifferenceError, Rest
    <3> QED BY <1>1, <1>2, <1>3, <1>4, <1>6, <3>1, NothingRendered
  <2> QED BY <1>13, <2>1, <2>2, <2>3, <2>4 DEF Answers
<1>14. CASE UNCHANGED vars
  <2>1. UNCHANGED <<files, page, table, drawer, clock, dialog>>
    BY <1>14 DEF vars
  <2> QED BY <1>1, <1>2, <1>3, <1>4, <1>6, <2>1, NothingRendered
<1> QED BY <1>8, <1>9, <1>10, <1>11, <1>12, <1>13, <1>14 DEF Next

\* It holds to begin with.
LEMMA EditorInvInit == Init => EditorInv
<1> SUFFICES ASSUME Init PROVE EditorInv
  OBVIOUS
<1>1. FilesOK
  <2>1. PICK f \in Files : files = [published |-> f.published, draft |-> f.draft,
                                    pr |-> f.pr, sops |-> f.sops]
    BY DEF Init
  <2>2. {f.published, f.draft} \ {None} \subseteq RiScDocuments
        /\ {f.published, f.draft} # {None}
    BY EditorAssumption
  <2>3. files.published = f.published /\ files.draft = f.draft /\ files.pr = f.pr
        /\ files.sops = f.sops
    BY <2>1
  <2> QED BY <2>1, <2>2, <2>3 DEF FilesOK, Docs, ToShow
<1>2. page = [selected |-> NotSelected, update |-> "idle", request |-> None]
  BY DEF Init
<1>3. PageOK(page)
  <2>1. SelectionOK(NotSelected)
    BY DEF NotSelected, SelectionOK, OrNone
  <2> QED BY <1>2, <2>1 DEF PageOK
<1>4. TableOK(table, page)
  <2>1. table = Unmounted
    BY DEF Init
  <2>2. table.scenarios = <<>> /\ table.rows = <<>> /\ table.mounted = FALSE
    BY <2>1 DEF Unmounted
  <2>3. DOMAIN table.rows = {} /\ Ids(table.scenarios) = {} /\ table.scenarios \in Seq(Scenarios)
    BY <2>2 DEF Ids
  <2>4. table = [mounted |-> table.mounted, scenarios |-> table.scenarios,
                 objects |-> table.objects, early |-> table.early, rows |-> table.rows]
    BY <2>1 DEF Unmounted
  <2> QED BY <2>2, <2>3, <2>4 DEF TableOK
<1>5. DrawerOK(drawer) /\ Follows(drawer, page)
  <2>1. drawer = Closed
    BY DEF Init
  <2>2. Closed.step = FALSE /\ Closed.open = FALSE /\ Closed.url = None /\ Closed.shown = None
    BY DEF Closed
  <2> QED BY <2>1, <2>2, ClosedDrawer DEF Follows
<1>6. dialog = None /\ clock = 0
  BY DEF Init
<1> QED BY <1>1, <1>3, <1>4, <1>5, <1>6 DEF EditorInv, DialogOK, OrNone
-----------------------------------------------------------------------------
(* What is typed.                                                         *)

\* The drawer stays open on what it shows, and keeps what is typed, as long as
\* the scenario of the URL and the objects of the page are the same.
LEMMA FormStays ==
    ASSUME NEW d, NEW p, ~d.step,
           d.url # None, d.shown # None,
           d.shown = getScenarioOfIdFromRiSc(d.url, p.selected.content),
           d.objects = p.selected.objects,
           d = [url |-> d.url, step |-> d.step, open |-> d.open, editing |-> d.editing,
                shown |-> d.shown, objects |-> d.objects, form |-> d.form]
    PROVE  ScenarioDrawer(d, p).form = d.form
<1> DEFINE found == getScenarioOfIdFromRiSc(d.url, p.selected.content)
           f == Followed(d, p)
<1>1. f = [d EXCEPT !.open = TRUE, !.shown = found, !.objects = p.selected.objects]
  BY DEF Followed
<1>2. found = d.shown
  OBVIOUS
<1> HIDE DEF found
<1>3. f.shown = d.shown /\ f.objects = d.objects /\ f.form = d.form
  <2> HIDE DEF f
  <2> QED BY <1>1, <1>2
<1>4. ScenarioDrawer(d, p) = f
  <2>1. <<f.shown, f.objects>> = <<d.shown, d.objects>>
    BY <1>3
  <2> QED BY <2>1 DEF ScenarioDrawer
<1> QED BY <1>3, <1>4

\* If the form is filled anew, the scenario or the objects are others.
LEMMA FormIsFilled ==
    ASSUME NEW d, NEW p, DrawerOK(d), ~d.step, d.url # None,  d.shown # None,
           ScenarioDrawer(d, p).form # d.form
    PROVE  \/ d.shown # getScenarioOfIdFromRiSc(d.url, p.selected.content)
           \/ d.objects # p.selected.objects
BY FormStays DEF DrawerOK

\* Something that is written in the drawer changes.
OpenDrawer == drawer.open /\ drawer.editing /\ drawer'.form # drawer.form

\* What may change it.
OwnDoing ==
    \/ TypeText \/ AddAction \/ OnCancel \/ CloseDrawer \/ SubmitEditedScenario
    \/ \E i \in DOMAIN drawer.form.actions : TypeAction(i) \/ RemoveAction(i)
    \/ DeleteScenario(drawer.shown.id)
    \/ OnError /\ TakesBack(page.request, drawer.shown.id)
    \/ OnSaved /\ page.request.after = "closeScenarioForm"

\* What is known of a drawer in which something is written.
LEMMA OpenDrawerFollows ==
    ASSUME EditorInv, OpenDrawer
    PROVE  /\ drawer = [url |-> drawer.url, step |-> drawer.step, open |-> drawer.open,
                        editing |-> drawer.editing, shown |-> drawer.shown,
                        objects |-> drawer.objects, form |-> drawer.form]
           /\ ~drawer.step /\ drawer.url # None /\ drawer.shown # None
           /\ drawer.shown.id = drawer.url /\ content # None /\ dialog = None
           /\ drawer.shown = getScenarioOfIdFromRiSc(drawer.url, page.selected.content)
           /\ drawer.objects = page.selected.objects
BY DEF EditorInv, OpenDrawer, DrawerOK, Follows, DialogOK, content

\* The answer to a save leaves the form of the drawer, unless it is that of the wizard.
LEMMA SavedFormStays ==
    ASSUME EditorInv, OpenDrawer, OnSaved
    PROVE  page.request.after = "closeScenarioForm"
<1> SUFFICES ASSUME page.request.after # "closeScenarioForm"
             PROVE  FALSE
  OBVIOUS
<1> DEFINE d == After(drawer, page.request)
           p == [selected |-> page.request.new, update |-> "success", request |-> None]
<1>1. drawer' = ScenarioDrawer(d, p)
  BY DEF OnSaved, Show
<1>2. p.selected = page.selected
  BY DEF EditorInv, PageOK, RequestOK, OnSaved, Quiet
<1>3. d = drawer \/ d = [drawer EXCEPT !.editing = FALSE]
  BY DEF After
<1> DEFINE no == FALSE
<1> HIDE DEF d, p, no
<1>4. d = drawer \/ d = [drawer EXCEPT !.editing = no]
  BY <1>3 DEF no
<1>5. /\ d.url = drawer.url /\ d.shown = drawer.shown /\ d.form = drawer.form
      /\ d.objects = drawer.objects
      /\ d = [url |-> d.url, step |-> d.step, open |-> d.open, editing |-> d.editing,
              shown |-> d.shown, objects |-> d.objects, form |-> d.form]
  BY <1>4, OpenDrawerFollows
<1>6. ~d.step
  BY <1>4, OpenDrawerFollows
<1>7. ScenarioDrawer(d, p).form = d.form
  BY <1>2, <1>5, <1>6, OpenDrawerFollows, FormStays
<1> QED BY <1>1, <1>5, <1>7 DEF OpenDrawer

\* A rollback changes the form of a scenario only if it takes it back.
LEMMA RefusedFormIsTakenBack ==
    ASSUME EditorInv, OpenDrawer, OnError
    PROVE  TakesBack(page.request, drawer.shown.id)
<1> DEFINE p == [selected |-> page.request.old, update |-> "error", request |-> None]
<1>1. drawer' = ScenarioDrawer(drawer, p)
  BY DEF OnError, Show
<1>2. page.request.new = page.selected
  BY DEF EditorInv, PageOK, RequestOK, OnError, Quiet
<1>3. p.selected = page.request.old
  OBVIOUS
<1> HIDE DEF p
<1>4. \/ drawer.shown # getScenarioOfIdFromRiSc(drawer.url, p.selected.content)
      \/ drawer.objects # p.selected.objects
  BY <1>1, OpenDrawerFollows, FormIsFilled DEF EditorInv, OpenDrawer
<1> QED BY <1>2, <1>3, <1>4, OpenDrawerFollows DEF TakesBack

\* No other step changes the form.
LEMMA TypingStep == EditorInv /\ [Next]_vars => [OpenDrawer => OwnDoing]_vars
<1> SUFFICES ASSUME EditorInv, Next, OpenDrawer
             PROVE  OwnDoing
  BY DEF OpenDrawer, vars
<1>0. /\ ~drawer.step /\ drawer.open = TRUE /\ drawer.editing /\ content # None
      /\ dialog = None /\ ~AtTable
  BY OpenDrawerFollows DEF OpenDrawer, AtTable, EditorInv, DrawerOK
<1>1. CASE FetchRiScs
  BY <1>0, <1>1 DEF FetchRiScs, content
<1>2. CASE InDrawer
  <2>1. ~\E id \in ScenarioId : OpenScenarioDrawer(id)
    BY <1>0 DEF OpenScenarioDrawer
  <2>2. ~Edit
    BY <1>0 DEF Edit
  <2>3. ASSUME NEW i \in 1..2, TypeAction(i) \/ RemoveAction(i)
        PROVE  i \in DOMAIN drawer.form.actions
    BY <2>3 DEF TypeAction, RemoveAction
  <2> QED BY <1>2, <2>1, <2>2, <2>3 DEF InDrawer, OwnDoing
<1>3. CASE InWizard
  BY <1>0, <1>3 DEF InWizard, OpenNewScenarioWizard, CloseWizard, SubmitNewScenario
<1>4. CASE InTable
  <2>1. ASSUME NEW id \in ScenarioId, DeleteScenario(id)
        PROVE  DeleteScenario(drawer.shown.id)
    <3>1. id = drawer.shown.id
      BY <1>0, <2>1 DEF DeleteScenario
    <3> QED BY <2>1, <3>1
  <2> QED BY <1>0, <1>4, <2>1 DEF InTable, OwnDoing, MoveRowLocal, DropRow, AddPredefinedScenarios
<1>5. CASE InPage
  BY <1>0, <1>5 DEF InPage, OpenDialog, SubmitDialog, SaveMigration, ApproveRiSc, GetDifferences
<1>6. CASE Answers
  <2>1. ~Serve /\ ~Fail /\ ~OnDifference /\ ~OnDifferenceError
    BY DEF OpenDrawer, Serve, Fail, OnDifference, OnDifferenceError
  <2> QED BY <1>6, <2>1, SavedFormStays, RefusedFormIsTakenBack DEF Answers, OwnDoing
<1> QED BY <1>1, <1>2, <1>3, <1>4, <1>5, <1>6 DEF Next

\* ScenarioContext.tsx, ScenarioTable.tsx, RiScContext.tsx: whatever was stored
\* in whatever version, and however editing, dragging, saving, failing and
\* rolling back overlap, the page shows a document of the newest version, a save
\* under way is that of what is shown and can be taken back, every row can still
\* be saved, and a drawer that is open shows the scenario of its URL as the page
\* has it, with the form of that scenario.
THEOREM EditorIsConsistent == Spec => []EditorInv
BY EditorInvInit, EditorInvStep, PTL DEF Spec

\* ScenarioContext.tsx:169, ScenarioDrawer.tsx:108: what is typed in the drawer
\* is only lost by the user's own submitting, deleting or leaving, by a failed
\* save of the same scenario, and by the answer to a wizard the user has left.
THEOREM TypingIsKept == Spec => TypedIsKept
<1>1. EditorInv /\ [Next]_vars =>
          [drawer.open /\ drawer.editing /\ drawer'.form # drawer.form =>
          \/ TypeText \/ AddAction \/ OnCancel \/ CloseDrawer \/ SubmitEditedScenario
          \/ \E i \in DOMAIN drawer.form.actions : TypeAction(i) \/ RemoveAction(i)
          \/ DeleteScenario(drawer.shown.id)
          \/ OnError /\ TakesBack(page.request, drawer.shown.id)
          \/ OnSaved /\ page.request.after = "closeScenarioForm"]_vars
  BY TypingStep DEF OpenDrawer, OwnDoing
<1> QED BY <1>1, EditorIsConsistent, PTL DEF Spec, TypedIsKept

-----------------------------------------------------------------------------
(* What is stored.                                                         *)

\* What is sent of an action.
LEMMA SentAction ==
    ASSUME NEW a \in Actions
    PROVE  actionToDTO(a) =
               [id |-> a.id, text |-> a.text, status |-> a.status, owner |-> None,
                deadline |-> None, lastUpdated |-> DateToJson(a.lastUpdated),
                lastUpdatedBy |-> a.lastUpdatedBy, comment |-> a.comment]
<1> DEFINE date == DateToJson(a.lastUpdated)
           x == [a EXCEPT !.owner = None]
           y == [x EXCEPT !.deadline = None]
           z == [y EXCEPT !.lastUpdated = date]
<1>1. actionToDTO(a) = z
  BY DEF actionToDTO, Actions
<1> HIDE DEF date
<1>2. x = [id |-> a.id, text |-> a.text, status |-> a.status, owner |-> None,
           deadline |-> a.deadline, lastUpdated |-> a.lastUpdated,
           lastUpdatedBy |-> a.lastUpdatedBy, comment |-> a.comment]
  BY DEF Actions
<1> HIDE DEF x
<1>3. y = [id |-> a.id, text |-> a.text, status |-> a.status, owner |-> None,
           deadline |-> None, lastUpdated |-> a.lastUpdated,
           lastUpdatedBy |-> a.lastUpdatedBy, comment |-> a.comment]
  BY <1>2
<1> HIDE DEF y
<1>4. z = [id |-> a.id, text |-> a.text, status |-> a.status, owner |-> None,
           deadline |-> None, lastUpdated |-> date,
           lastUpdatedBy |-> a.lastUpdatedBy, comment |-> a.comment]
  BY <1>3
<1> QED BY <1>1, <1>4 DEF date

\* What was sent is sent as it is.
LEMMA DTOActionAgain ==
    ASSUME NEW a \in Actions PROVE actionToDTO(actionToDTO(a)) = actionToDTO(a)
<1> DEFINE date == DateToJson(a.lastUpdated)
           b == actionToDTO(a)
<1>1. DateToJson(date) = date
  <2>1. CASE a.lastUpdated = None
    BY <2>1 DEF DateToJson
  <2>2. CASE a.lastUpdated \in Times
    <3>1. a.lastUpdated # None
      BY <2>2, DocumentAssumption
    <3>2. date = [time |-> a.lastUpdated.time, kind |-> "string"]
      BY <2>2, <3>1 DEF DateToJson, Times
    <3>3. date \in Times
      BY <2>2, <3>2 DEF Times
    <3>4. date # None
      BY <3>3, DocumentAssumption
    <3>5. DateToJson(date) = [date EXCEPT !.kind = "string"]
      BY <3>4 DEF DateToJson
    <3> HIDE DEF date
    <3> QED BY <3>2, <3>5
  <2> QED BY <2>1, <2>2 DEF Actions
<1>2. b \in Actions
  BY DTOAction
<1>3. b = [id |-> a.id, text |-> a.text, status |-> a.status, owner |-> None,
           deadline |-> None, lastUpdated |-> date,
           lastUpdatedBy |-> a.lastUpdatedBy, comment |-> a.comment]
  BY SentAction
<1> HIDE DEF date, b
<1>4. actionToDTO(b) = [id |-> b.id, text |-> b.text, status |-> b.status, owner |-> None,
                        deadline |-> None, lastUpdated |-> DateToJson(b.lastUpdated),
                        lastUpdatedBy |-> b.lastUpdatedBy, comment |-> b.comment]
  BY <1>2, SentAction
<1>5. actionToDTO(b) = b
  BY <1>1, <1>3, <1>4
<1> QED BY <1>5 DEF b

\* What is sent of a scenario.
LEMMA SentScenario ==
    ASSUME NEW s \in Scenarios
    PROVE  scenarioToDTO(s) =
               [id |-> s.id, text |-> s.text, threatActors |-> s.threatActors,
                vulnerabilities |-> s.vulnerabilities, risk |-> s.risk,
                remainingRisk |-> s.remainingRisk,
                actions |-> [i \in DOMAIN s.actions |-> actionToDTO(s.actions[i])],
                existingActions |-> None]
<1> DEFINE actions == [i \in DOMAIN s.actions |-> actionToDTO(s.actions[i])]
           x == [s EXCEPT !.existingActions = None]
           y == [x EXCEPT !.actions = actions]
<1>1. scenarioToDTO(s) = y
  BY DEF scenarioToDTO, Scenarios
<1> HIDE DEF actions
<1>2. x = [id |-> s.id, text |-> s.text, threatActors |-> s.threatActors,
           vulnerabilities |-> s.vulnerabilities, risk |-> s.risk,
           remainingRisk |-> s.remainingRisk, actions |-> s.actions, existingActions |-> None]
  BY DEF Scenarios
<1> HIDE DEF x
<1>3. y = [id |-> s.id, text |-> s.text, threatActors |-> s.threatActors,
           vulnerabilities |-> s.vulnerabilities, risk |-> s.risk,
           remainingRisk |-> s.remainingRisk, actions |-> actions, existingActions |-> None]
  BY <1>2
<1> QED BY <1>1, <1>3 DEF actions

\* Nor does a scenario change that is sent again,
LEMMA DTOScenarioAgain ==
    ASSUME NEW s \in Scenarios PROVE scenarioToDTO(scenarioToDTO(s)) = scenarioToDTO(s)
<1> DEFINE actions == [i \in DOMAIN s.actions |-> actionToDTO(s.actions[i])]
           again == [i \in DOMAIN actions |-> actionToDTO(actions[i])]
           t == scenarioToDTO(s)
<1>1. again = actions
  <2>1. \A i \in DOMAIN s.actions : actionToDTO(actionToDTO(s.actions[i])) = actionToDTO(s.actions[i])
    BY ScenarioParts, DTOActionAgain
  <2> QED BY <2>1
<1>2. t \in Scenarios
  BY DTOScenario
<1>3. t = [id |-> s.id, text |-> s.text, threatActors |-> s.threatActors,
           vulnerabilities |-> s.vulnerabilities, risk |-> s.risk,
           remainingRisk |-> s.remainingRisk, actions |-> actions, existingActions |-> None]
  BY SentScenario
<1> DEFINE sent == [i \in DOMAIN t.actions |-> actionToDTO(t.actions[i])]
<1>4. scenarioToDTO(t) =
        [id |-> t.id, text |-> t.text, threatActors |-> t.threatActors,
         vulnerabilities |-> t.vulnerabilities, risk |-> t.risk,
         remainingRisk |-> t.remainingRisk, actions |-> sent, existingActions |-> None]
  <2> HIDE DEF t
  <2> QED BY <1>2, SentScenario
<1>5. sent = again
  <2> HIDE DEF t, actions
  <2>1. t.actions = actions
    BY <1>3
  <2> QED BY <2>1
<1> HIDE DEF t, actions, again, sent
<1>6. scenarioToDTO(t) = t
  BY <1>1, <1>3, <1>4, <1>5
<1> QED BY <1>6 DEF t

\* What is sent of a document.
LEMMA SentDocument ==
    ASSUME NEW c \in RiScDocuments
    PROVE  riScToDTO(c) =
               [schemaVersion |-> c.schemaVersion, text |-> c.text, appliesTo |-> c.appliesTo,
                valuations |-> {},
                scenarios |-> [i \in DOMAIN c.scenarios |-> scenarioToDTO(c.scenarios[i])]]
<1> DEFINE scenarios == [i \in DOMAIN c.scenarios |-> scenarioToDTO(c.scenarios[i])]
           x == [c EXCEPT !.valuations = {}]
           y == [x EXCEPT !.scenarios = scenarios]
<1>0. x.scenarios = c.scenarios /\ c.scenarios \in Seq(Scenarios)
  BY DEF RiScDocuments
<1>1. riScToDTO(c) = y
  BY <1>0 DEF riScToDTO
<1> HIDE DEF scenarios
<1>2. x = [schemaVersion |-> c.schemaVersion, text |-> c.text, appliesTo |-> c.appliesTo,
           valuations |-> {}, scenarios |-> c.scenarios]
  <2>1. c = [schemaVersion |-> c.schemaVersion, text |-> c.text, appliesTo |-> c.appliesTo,
             valuations |-> c.valuations, scenarios |-> c.scenarios]
    BY DEF RiScDocuments
  <2> QED BY <2>1
<1> HIDE DEF x
<1>3. y = [schemaVersion |-> c.schemaVersion, text |-> c.text, appliesTo |-> c.appliesTo,
           valuations |-> {}, scenarios |-> scenarios]
  BY <1>2
<1> QED BY <1>1, <1>3 DEF scenarios

\* nor a document.
LEMMA DTOAgain ==
    ASSUME NEW c \in RiScDocuments PROVE riScToDTO(riScToDTO(c)) = riScToDTO(c)
<1> DEFINE scenarios == [i \in DOMAIN c.scenarios |-> scenarioToDTO(c.scenarios[i])]
           again == [i \in DOMAIN scenarios |-> scenarioToDTO(scenarios[i])]
           d == riScToDTO(c)
<1>1. again = scenarios
  <2>1. \A i \in DOMAIN c.scenarios :
            scenarioToDTO(scenarioToDTO(c.scenarios[i])) = scenarioToDTO(c.scenarios[i])
    BY ContentParts, DTOScenarioAgain
  <2> QED BY <2>1
<1>2. d \in RiScDocuments
  BY DTODocument
<1>3. d = [schemaVersion |-> c.schemaVersion, text |-> c.text, appliesTo |-> c.appliesTo,
           valuations |-> {}, scenarios |-> scenarios]
  BY SentDocument
<1> DEFINE sent == [i \in DOMAIN d.scenarios |-> scenarioToDTO(d.scenarios[i])]
<1>4. riScToDTO(d) =
        [schemaVersion |-> d.schemaVersion, text |-> d.text, appliesTo |-> d.appliesTo,
         valuations |-> {}, scenarios |-> sent]
  <2> HIDE DEF d
  <2> QED BY <1>2, SentDocument
<1>5. sent = again
  <2> HIDE DEF d, scenarios
  <2>1. d.scenarios = scenarios
    BY <1>3
  <2> QED BY <2>1
<1> HIDE DEF d, scenarios, again, sent
<1>6. riScToDTO(d) = d
  BY <1>1, <1>3, <1>4, <1>5
<1> QED BY <1>6 DEF d

\* A document of the newest version is not migrated.
LEMMA NewestStays ==
    ASSUME NEW doc, Valid(doc), doc.schemaVersion = latestSupportedVersion, NEW lastPublished
    PROVE  LET result == migrate(doc, lastPublished, latestSupportedVersion)
           IN  ~result.failed /\ result.doc = doc
<1> DEFINE status == [NoChanges EXCEPT !.fromVersion = doc.schemaVersion,
                                       !.toVersion = latestSupportedVersion]
           first == Migrated(doc, status)
<1>0. ~first.failed /\ first.doc = doc
  BY DEF Migrated
<1>1. PICK after : /\ Rounds(doc, lastPublished, status, latestSupportedVersion, after)
                   /\ handleMigrate(doc, lastPublished, status, latestSupportedVersion) = after[8]
  BY MigratesInRounds
<1> HIDE DEF status
<1>2. after[0] = first
  BY <1>1, VersionsAre DEF Rounds
<1>3. ASSUME NEW n \in 0..7, after[n] = first PROVE after[n + 1] = first
  <2>1. after[n + 1] = Advance(after[n], lastPublished, latestSupportedVersion)
    <3>1. n + 1 \in 0..8 /\ n + 1 # 0 /\ (n + 1) - 1 = n
      OBVIOUS
    <3> QED BY <1>1, <3>1, VersionsAre DEF Rounds
  <2> HIDE DEF first
  <2>2. Advance(first, lastPublished, latestSupportedVersion) = first
    BY <1>0 DEF Advance
  <2> QED BY <1>3, <2>1, <2>2
<1> HIDE DEF first
<1>4. after[8] = first
  <2>1. after[1] = first
    BY <1>2, <1>3
  <2>2. after[2] = first
    BY <1>3, <2>1
  <2>3. after[3] = first
    BY <1>3, <2>2
  <2>4. after[4] = first
    BY <1>3, <2>3
  <2>5. after[5] = first
    BY <1>3, <2>4
  <2>6. after[6] = first
    BY <1>3, <2>5
  <2>7. after[7] = first
    BY <1>3, <2>6
  <2> QED BY <1>3, <2>7
<1>5. latestSupportedVersion \in VersionSet /\ Since(latestSupportedVersion, doc.schemaVersion)
  <2>1. IndexOf(latestSupportedVersion) \in 1..8 /\ latestSupportedVersion \in VersionSet
    BY IndicesAreNumbers DEF Valid
  <2> QED BY <2>1 DEF Since
<1>6. handleMigrate(doc, lastPublished, status, latestSupportedVersion) = first
  BY <1>1, <1>4
<1>7. migrate(doc, lastPublished, latestSupportedVersion)
        = IF \/ latestSupportedVersion \notin VersionSet
             \/ ~Since(latestSupportedVersion, doc.schemaVersion)
             \/ first.failed \/ ~Valid(first.doc)
          THEN Failed(status) ELSE first
  BY <1>6 DEF migrate, status
<1> QED BY <1>0, <1>5, <1>7

\* A draft of the newest version is fetched as it is.
LEMMA DraftIsFetched ==
    ASSUME NEW f, f.draft # None, Valid(f.draft), f.draft.schemaVersion = latestSupportedVersion
    PROVE  ~Fetched(f).failed /\ Fetched(f).doc = f.draft
BY NewestStays DEF Fetched, ToShow

\* What would be fetched is what is sent of this content, if it can be saved.
IsStored(c) ==
    Valid(riScToDTO(c)) =>
        ~Fetched(files).failed /\ riScToDTO(c) = riScToDTO(Fetched(files).doc)

\* The history is a record of its four parts.
HistoryShape ==
    history = [orderly |-> history.orderly, parted |-> history.parted, lost |-> history.lost,
               covered |-> history.covered]

\* What the user sees is stored, or will be when the save under way is answered,
\* or will be shown again.
StoredInv ==
    /\ HistoryShape
    /\ history.orderly /\ ~history.lost /\ content # None =>
          IF Quiet \/ page.request.answer = "ok" THEN IsStored(content)
                                                 ELSE IsStored(page.request.old.content)

\* Steps that store nothing and are no answer leave content and request, or
\* begin a save.
Undisturbed ==
    /\ files'.published = files.published /\ files'.draft = files.draft
    /\ HistoryShape' /\ (history'.orderly => history.orderly) /\ history'.lost = history.lost

\* The page shows what it showed, and the same save is under way, or none.
KeepsContent ==
    /\ Undisturbed /\ content' = content /\ (Quiet' <=> Quiet)
    /\ ~Quiet => page'.request = page.request

\* A save begins, of the page as it is as far as history is orderly.
BeginsSave ==
    /\ Undisturbed /\ Quiet /\ ~Quiet' /\ page'.request.answer = "none"
    /\ history'.orderly => page'.request.old.content = content

\* What is fetched only depends on the two documents.
LEMMA FetchesTheSame ==
    ASSUME files'.published = files.published, files'.draft = files.draft
    PROVE  Fetched(files)' = Fetched(files)
BY DEF Fetched, ToShow, LastPublished

\* A handler that renders the page as it is, or changes only what is beside it.
LEMMA PageStays ==
    ASSUME StoredInv, page' = page, UNCHANGED <<files, history>>
    PROVE  KeepsContent
BY DEF StoredInv, KeepsContent, Undisturbed, HistoryShape, content, Quiet

\* A handler that saves.
LEMMA SaveBegins ==
    ASSUME StoredInv, NEW new, NEW after, NEW d, Update(new, after, d),
           UNCHANGED <<files, history>>
    PROVE  BeginsSave
<1>1. /\ page'.update = "loading" /\ page'.request.answer = "none"
      /\ page'.request.old = page.selected
  BY DEF Update, Show, UpdateRiSc
<1>2. Quiet
  BY DEF Update, Saves
<1> QED BY <1>1, <1>2
       DEF StoredInv, BeginsSave, Undisturbed, HistoryShape, content, Quiet

\* What is done in drawer and wizard,
LEMMA DrawerLeavesStored ==
    ASSUME StoredInv, InDrawer \/ InWizard PROVE KeepsContent \/ BeginsSave
<1>1. CASE \E id \in ScenarioId : OpenScenarioDrawer(id)
  BY <1>1, PageStays DEF OpenScenarioDrawer, Show, Rest
<1>2. CASE Edit \/ OnCancel \/ CloseDrawer
  BY <1>2, PageStays DEF Edit, OnCancel, CloseDrawer, Show, Rest
<1>3. CASE TypeText \/ AddAction \/ \E i \in 1..2 : TypeAction(i) \/ RemoveAction(i)
  BY <1>3, PageStays DEF TypeText, AddAction, TypeAction, RemoveAction, Type, Rest
<1>4. CASE SubmitEditedScenario
  BY <1>4, SaveBegins DEF SubmitEditedScenario, Rest
<1>5. CASE OpenNewScenarioWizard \/ CloseWizard
  BY <1>5, PageStays DEF OpenNewScenarioWizard, CloseWizard, Show, Rest
<1>6. CASE \E risks \in WizardRisks : SubmitNewScenario(risks)
  BY <1>6, SaveBegins DEF SubmitNewScenario, Rest
<1> QED BY <1>1, <1>2, <1>3, <1>4, <1>5, <1>6 DEF InDrawer, InWizard

\* A row that is dropped saves the page as it is, or from then on nothing is
\* orderly.
LEMMA DropBegins ==
    ASSUME StoredInv, NEW id, DropRow(id) PROVE BeginsSave
<1> DEFINE row == table.rows[id]
           orderly == history.orderly /\ row = page.selected
           parted == history.parted \/ table.early \/ (row # page.selected /\ Refused)
<1>1. /\ page'.update = "loading" /\ page'.request.answer = "none"
      /\ page'.request.old = row
  BY DEF DropRow, Show, UpdateRiSc
<1>2. Quiet /\ files' = files
  BY DEF DropRow, Saves
<1>3. history' = [history EXCEPT !.orderly = orderly, !.parted = parted]
  BY DEF DropRow
<1>4. orderly => history.orderly /\ row = page.selected
  OBVIOUS
<1>5. history = [orderly |-> history.orderly, parted |-> history.parted,
                 lost |-> history.lost, covered |-> history.covered]
  BY DEF StoredInv, HistoryShape
<1> HIDE DEF row, orderly, parted
<1>6. history' = [orderly |-> orderly, parted |-> parted, lost |-> history.lost,
                  covered |-> history.covered]
  BY <1>3, <1>5
<1>7. HistoryShape' /\ history'.lost = history.lost
  BY <1>6 DEF HistoryShape
<1>8. history'.orderly = orderly
  BY <1>6
<1>9. history'.orderly => history.orderly /\ page'.request.old.content = content
  BY <1>1, <1>4, <1>8, Zenon DEF content
<1> QED BY <1>1, <1>2, <1>7, <1>9 DEF BeginsSave, Undisturbed, Quiet

\* in the table,
LEMMA TableLeavesStored ==
    ASSUME StoredInv, InTable PROVE KeepsContent \/ BeginsSave
<1>1. CASE \E from, to \in 1..Cardinality(ScenarioId) : MoveRowLocal(from, to)
  BY <1>1, PageStays DEF MoveRowLocal, Rest
<1>2. CASE \E id \in ScenarioId : DeleteScenario(id)
  BY <1>2, SaveBegins DEF DeleteScenario, Rest
<1>3. CASE \E id \in ScenarioId : DropRow(id)
  BY <1>3, DropBegins
<1>4. CASE AddPredefinedScenarios
  BY <1>4, SaveBegins DEF AddPredefinedScenarios, Rest
<1> QED BY <1>1, <1>2, <1>3, <1>4 DEF InTable

\* by an approval
LEMMA ApprovalLeavesStored ==
    ASSUME EditorInv, StoredInv, ApproveRiSc PROVE KeepsContent
<1>1. Quiet
  BY DEF ApproveRiSc
<1>2. CASE files.pr
  <2>1. page' = [page EXCEPT !.update = "error"] /\ UNCHANGED <<files, history>>
    BY <1>2 DEF ApproveRiSc, Show
  <2>2. page'.selected = page.selected /\ page'.update = "error"
    BY <2>1 DEF EditorInv, PageOK
  <2> QED BY <1>1, <2>1, <2>2
         DEF StoredInv, KeepsContent, Undisturbed, HistoryShape, content, Quiet
<1>3. CASE ~files.pr
  <2> DEFINE p == [page EXCEPT !.update = "success", !.selected.status = "SentForApproval"]
             pr == files.draft # None
  <2>1. page' = p
    BY <1>3 DEF ApproveRiSc, Show
  <2>2. files' = [files EXCEPT !.pr = pr]
    BY <1>3 DEF ApproveRiSc
  <2>3. history' = [history EXCEPT !.covered = files.draft]
    BY <1>3 DEF ApproveRiSc
  <2>4. p.selected.content = content
    BY SentPage DEF EditorInv, content
  <2>5. p.update = "success"
    BY DEF EditorInv, PageOK
  <2> HIDE DEF p, pr
  <2>6. files'.published = files.published /\ files'.draft = files.draft
    BY <2>2 DEF EditorInv, FilesOK
  <2>7. HistoryShape' /\ history'.orderly = history.orderly /\ history'.lost = history.lost
    BY <2>3 DEF StoredInv, HistoryShape
  <2>8. content' = content /\ Quiet'
    BY <2>1, <2>4, <2>5 DEF content, Quiet
  <2> QED BY <1>1, <2>6, <2>7, <2>8 DEF KeepsContent, Undisturbed
<1> QED BY <1>2, <1>3

\* and in the page leaves what is stored, or begins a save.
LEMMA PageLeavesStored ==
    ASSUME EditorInv, StoredInv, InPage PROVE KeepsContent \/ BeginsSave
<1>1. CASE OpenDialog
  BY <1>1, PageStays DEF OpenDialog
<1>2. CASE \E appliesTo \in {None, 1} : SubmitDialog(appliesTo)
  <2>1. PICK appliesTo \in {None, 1} : SubmitDialog(appliesTo)
    BY <1>2
  <2> DEFINE new == [dialog EXCEPT !.text = Now, !.appliesTo = appliesTo]
  <2>2. /\ page' = UpdateRiSc(page.selected, new, Now, "nothing")
        /\ Quiet /\ UNCHANGED <<files, history>>
    BY <2>1 DEF SubmitDialog, Show, Saves
  <2> HIDE DEF new
  <2>3. /\ page'.update = "loading" /\ page'.request.answer = "none"
        /\ page'.request.old = page.selected
    BY <2>2 DEF UpdateRiSc
  <2> QED BY <2>2, <2>3
         DEF StoredInv, BeginsSave, Undisturbed, HistoryShape, content, Quiet
<1>3. CASE SaveMigration
  BY <1>3, SaveBegins DEF SaveMigration, Rest
<1>4. CASE ApproveRiSc
  BY <1>4, ApprovalLeavesStored
<1>5. CASE GetDifferences
  BY <1>5, PageStays DEF GetDifferences, Rest
<1> QED BY <1>1, <1>2, <1>3, <1>4, <1>5 DEF InPage

\* What stays the same stays stored,
LEMMA StoredStays ==
    ASSUME StoredInv, KeepsContent PROVE StoredInv'
<1>1. HistoryShape'
  BY DEF KeepsContent, Undisturbed
<1>2. ASSUME (history.orderly /\ ~history.lost /\ content # None)'
      PROVE  (IF Quiet \/ page.request.answer = "ok" THEN IsStored(content)
                                                     ELSE IsStored(page.request.old.content))'
  <2>1. history.orderly /\ ~history.lost /\ content # None
    BY <1>2 DEF KeepsContent, Undisturbed
  <2>2. Fetched(files)' = Fetched(files)
    BY FetchesTheSame DEF KeepsContent, Undisturbed
  <2>3. CASE Quiet \/ page.request.answer = "ok"
    <3>1. IsStored(content)
      BY <2>1, <2>3 DEF StoredInv
    <3>2. (Quiet \/ page.request.answer = "ok")'
      BY <2>3 DEF KeepsContent
    <3> QED BY <2>2, <3>1, <3>2 DEF KeepsContent, IsStored
  <2>4. CASE ~(Quiet \/ page.request.answer = "ok")
    <3>1. IsStored(page.request.old.content)
      BY <2>1, <2>4 DEF StoredInv
    <3>2. page'.request = page.request /\ ~(Quiet \/ page.request.answer = "ok")'
      BY <2>4 DEF KeepsContent
    <3> QED BY <2>2, <3>1, <3>2 DEF IsStored
  <2> QED BY <2>3, <2>4
<1> QED BY <1>1, <1>2 DEF StoredInv

\* and what was stored is kept by the save that begins.
LEMMA StoredIsKeptForRollback ==
    ASSUME StoredInv, BeginsSave, EditorInv' PROVE StoredInv'
<1>1. HistoryShape'
  BY DEF BeginsSave, Undisturbed
<1>2. ASSUME (history.orderly /\ ~history.lost /\ content # None)'
      PROVE  IsStored(page.request.old.content)'
  <2>1. history.orderly /\ ~history.lost /\ page'.request.old.content = content
    BY <1>2 DEF BeginsSave, Undisturbed
  <2>2. page'.request.old.content # None
    BY DEF BeginsSave, EditorInv, PageOK, RequestOK, Quiet
  <2>3. IsStored(content)
    BY <2>1, <2>2 DEF StoredInv, BeginsSave
  <2>4. Fetched(files)' = Fetched(files)
    BY FetchesTheSame DEF BeginsSave, Undisturbed
  <2> QED BY <2>1, <2>3, <2>4 DEF IsStored
<1>3. ~(Quiet \/ page.request.answer = "ok")'
  BY DEF BeginsSave
<1> QED BY <1>1, <1>2, <1>3 DEF StoredInv

\* What the service stores is what the page shows.
LEMMA ServedIsStored ==
    ASSUME EditorInv, StoredInv, Serve PROVE StoredInv'
<1> DEFINE body == page.request.body
<1>1. /\ ~Quiet /\ page' = [page EXCEPT !.request.answer = "ok"]
      /\ files' = IF Valid(body) THEN Stored(files, page.request) ELSE files
      /\ history' = history
  BY DEF Serve
<1>2. /\ PageOK(page) /\ RequestOK(page.request, page.selected)
      /\ body = riScToDTO(content) /\ content # None /\ content \in Contents
  BY <1>1, ContentIsOne DEF EditorInv, PageOK, RequestOK, Quiet, content
<1>3. page'.selected = page.selected /\ page'.request.answer = "ok"
  <2>1. page'.selected = page.selected
    BY <1>1, <1>2 DEF PageOK
  <2>2. page'.request = [page.request EXCEPT !.answer = "ok"]
    BY <1>1, <1>2 DEF PageOK
  <2>3. page'.request.answer = "ok"
    BY <1>2, <2>2 DEF RequestOK
  <2> QED BY <2>1, <2>3
<1>4. content' = content
  BY <1>3 DEF content
<1>5. IsStored(content)'
  <2> SUFFICES ASSUME Valid(body)
               PROVE  ~Fetched(files').failed /\ body = riScToDTO(Fetched(files').doc)
    BY <1>2, <1>4 DEF IsStored
  <2>1. /\ body \in RiScDocuments /\ body.schemaVersion = latestSupportedVersion
        /\ body # None /\ riScToDTO(body) = body
    BY <1>2, DTODocument, DTOAgain, DocumentAssumption DEF Contents
  <2>2. files'.draft = body
    BY <1>1 DEF Stored, EditorInv, FilesOK
  <2> HIDE DEF body
  <2> QED BY <2>1, <2>2, DraftIsFetched
<1>6. HistoryShape'
  BY <1>1 DEF StoredInv, HistoryShape
<1> QED BY <1>3, <1>5, <1>6 DEF StoredInv

\* A save that fails before it took effect leaves what the page had before.
LEMMA FailedIsTakenBack ==
    ASSUME EditorInv, StoredInv, Fail PROVE StoredInv'
<1> DEFINE lost == history.lost \/ page.request.answer = "ok"
<1>1. /\ ~Quiet /\ page' = [page EXCEPT !.request.answer = "error"]
      /\ files' = files /\ history' = [history EXCEPT !.lost = lost]
  BY DEF Fail
<1>2. PageOK(page) /\ RequestOK(page.request, page.selected) /\ content # None
  BY <1>1 DEF EditorInv, PageOK, RequestOK, Quiet, content
<1>3. /\ page'.update = page.update /\ page'.request.answer = "error"
      /\ page'.request.old = page.request.old
  <2>1. page'.update = page.update /\ page'.request = [page.request EXCEPT !.answer = "error"]
    BY <1>1, <1>2 DEF PageOK
  <2> QED BY <1>2, <2>1 DEF RequestOK
<1>4. ~lost => page.request.answer # "ok" /\ ~history.lost
  OBVIOUS
<1> HIDE DEF lost
<1>5. HistoryShape' /\ history'.orderly = history.orderly /\ history'.lost = lost
  BY <1>1 DEF StoredInv, HistoryShape
<1>6. history'.lost => lost
  BY <1>5, Zenon
<1>7. lost => history'.lost
  BY <1>5, Zenon
<1>8. history.orderly' /\ ~history.lost' => IsStored(page.request.old.content)
  BY <1>1, <1>2, <1>4, <1>5, <1>7 DEF StoredInv
<1>9. ~(Quiet \/ page.request.answer = "ok")'
  BY <1>1, <1>3 DEF Quiet
<1>10. IsStored(page.request.old.content) => IsStored(page.request.old.content)'
  BY <1>1, <1>3 DEF IsStored
<1> QED BY <1>5, <1>8, <1>9, <1>10 DEF StoredInv

\* The page shows what was saved, or goes back to what is stored.
LEMMA AnswerIsStored ==
    ASSUME EditorInv, StoredInv, OnSaved \/ OnError PROVE StoredInv'
<1>1. CASE OnSaved
  <2>1. /\ ~Quiet /\ page.request.answer = "ok" /\ files' = files /\ history' = history
        /\ page'.selected = page.request.new /\ page'.update = "success"
    BY <1>1 DEF OnSaved, Show, Rest
  <2>2. page.request.new = page.selected
    BY <2>1 DEF EditorInv, PageOK, RequestOK, Quiet
  <2>3. content' = content /\ Quiet'
    BY <2>1, <2>2 DEF content, Quiet
  <2>4. IsStored(content) => IsStored(content)'
    BY <2>1, <2>3 DEF IsStored
  <2> QED BY <2>1, <2>3, <2>4 DEF StoredInv, HistoryShape
<1>2. CASE OnError
  <2> DEFINE parted == history.parted \/ ~history.orderly
  <2>1. /\ ~Quiet /\ page.request.answer = "error" /\ files' = files
        /\ history' = [history EXCEPT !.parted = parted]
        /\ page'.selected = page.request.old /\ page'.update = "error"
    BY <1>2 DEF OnError, Show
  <2> HIDE DEF parted
  <2>2. HistoryShape' /\ history'.orderly = history.orderly /\ history'.lost = history.lost
    BY <2>1 DEF StoredInv, HistoryShape
  <2>3. content' = page.request.old.content /\ Quiet' /\ content # None
    BY <2>1 DEF content, Quiet, EditorInv, PageOK, RequestOK
  <2>4. IsStored(page.request.old.content) => IsStored(content)'
    BY <2>1, <2>3 DEF IsStored
  <2> QED BY <2>1, <2>2, <2>3, <2>4 DEF StoredInv
<1> QED BY <1>1, <1>2

\* What is fetched is stored.
LEMMA FetchedIsStored ==
    ASSUME EditorInv, StoredInv, FetchRiScs PROVE StoredInv'
<1>1. /\ ~Fetched(files).failed /\ files' = files /\ history' = history
      /\ page' = [page EXCEPT !.selected = Selected(files)] /\ content = None
  BY DEF FetchRiScs, Show, content
<1>2. page'.selected = Selected(files) /\ page'.update = page.update /\ Quiet
  BY <1>1 DEF EditorInv, PageOK, RequestOK, Quiet, content
<1>3. content' = Fetched(files).doc
  BY <1>2 DEF Selected, dtoToRiSc, content
<1>4. IsStored(content)'
  BY <1>1, <1>3 DEF IsStored
<1>5. Quiet'
  BY <1>2 DEF Quiet
<1> QED BY <1>1, <1>4, <1>5 DEF StoredInv, HistoryShape

\* Every step keeps it.
LEMMA StoredInvStep == EditorInv /\ EditorInv' /\ StoredInv /\ [Next]_vars => StoredInv'
<1> SUFFICES ASSUME EditorInv, EditorInv', StoredInv, [Next]_vars
             PROVE  StoredInv'
  OBVIOUS
<1>1. CASE FetchRiScs
  BY <1>1, FetchedIsStored
<1>2. CASE InDrawer \/ InWizard \/ InTable \/ InPage
  BY <1>2, DrawerLeavesStored, TableLeavesStored, PageLeavesStored, StoredStays,
     StoredIsKeptForRollback
<1>3. CASE Answers
  <2>1. CASE Serve \/ Fail
    BY <2>1, ServedIsStored, FailedIsTakenBack
  <2>2. CASE OnSaved \/ OnError
    BY <2>2, AnswerIsStored
  <2>3. CASE OnDifference \/ OnDifferenceError
    BY <2>3, PageStays, StoredStays DEF OnDifference, OnDifferenceError, Rest
  <2> QED BY <1>3, <2>1, <2>2, <2>3 DEF Answers
<1>4. CASE UNCHANGED vars
  BY <1>4, PageStays, StoredStays DEF vars
<1> QED BY <1>1, <1>2, <1>3, <1>4 DEF Next

\* At first nothing is shown.
LEMMA StoredInvInit == Init => StoredInv
BY DEF Init, StoredInv, HistoryShape, content, NotSelected

\* RiScContext.tsx:580: whatever was stored in whatever version, and whatever is
\* refused and taken back: without a save under way the page shows what the
\* service would return, if that could be saved at all, unless an answer was
\* lost or a row was dropped with the content of an earlier rendering.
THEOREM OrderlyPagesAreStored == Spec => []OrderlyPageIsStored
<1>1. StoredInv => OrderlyPageIsStored
  BY DEF StoredInv, IsStored, OrderlyPageIsStored
<1>2. EditorInv /\ StoredInv /\ [Next]_vars => (EditorInv /\ StoredInv)'
  BY EditorInvStep, StoredInvStep
<1> QED BY <1>1, <1>2, EditorInvInit, StoredInvInit, PTL DEF Spec

-----------------------------------------------------------------------------
(* Ids.                                                                    *)

\* Two documents with the same ids in the same order.
SameIds(old, new) ==
    /\ DOMAIN new.scenarios = DOMAIN old.scenarios
    /\ \A i \in DOMAIN old.scenarios : new.scenarios[i].id = old.scenarios[i].id

\* A document in another version has the scenarios it was given.
LEMMA InVersionHas ==
    ASSUME NEW doc \in RiScDocuments, NEW v, NEW scenarios
    PROVE  InVersion(doc, v, scenarios).scenarios = scenarios
BY DEF InVersion, RiScDocuments

\* Other actions leave the ids of the scenarios alone.
LEMMA WithActionsIds ==
    ASSUME NEW doc \in RiScDocuments, NEW v, NEW actions
    PROVE  SameIds(doc, WithActions(doc, v, actions))
<1> DEFINE scenarios == [i \in DOMAIN doc.scenarios |->
                            [doc.scenarios[i] EXCEPT !.actions = actions[i]]]
<1>1. WithActions(doc, v, actions).scenarios = scenarios
  BY InVersionHas DEF WithActions
<1>2. \A i \in DOMAIN doc.scenarios : scenarios[i].id = doc.scenarios[i].id
  <2>1. \A s \in Scenarios : \A list : [s EXCEPT !.actions = list].id = s.id
    BY DEF Scenarios
  <2>2. \A i \in DOMAIN doc.scenarios : doc.scenarios[i] \in Scenarios
    BY ContentParts
  <2> QED BY <2>1, <2>2
<1> QED BY <1>1, <1>2 DEF SameIds

\* No step of a migration changes an id.
LEMMA StepKeepsIds ==
    ASSUME NEW doc, Fit(doc), doc.schemaVersion \in VersionSet, NEW status,
           NEW lastPublished,
           ~executeMigration(doc, lastPublished, status).failed
    PROVE  SameIds(doc, executeMigration(doc, lastPublished, status).doc)
<1>0. /\ doc \in RiScDocuments
      /\ \A i \in DOMAIN doc.scenarios : doc.scenarios[i] \in Scenarios
  BY ContentParts DEF Fit
<1>1. CASE doc.schemaVersion = "3.2"
  <2>1. migrateFrom32To33(doc, status).doc.scenarios = doc.scenarios
    BY <1>0 DEF migrateFrom32To33, Migrated, RiScDocuments
  <2>2. executeMigration(doc, lastPublished, status) = migrateFrom32To33(doc, status)
    BY <1>1 DEF executeMigration
  <2> QED BY <2>1, <2>2 DEF SameIds
<1>2. CASE doc.schemaVersion = "3.3"
  <2> DEFINE scenarios == Map(doc.scenarios, updateScenarioFrom33To40)
  <2>1. migrateFrom33To40(doc, status).doc = InVersion(doc, "4.0", scenarios)
    BY <1>2 DEF migrateFrom33To40, Migrated, InVersion
  <2>2. executeMigration(doc, lastPublished, status) = migrateFrom33To40(doc, status)
    BY <1>2 DEF executeMigration
  <2>3. scenarios = [i \in DOMAIN doc.scenarios |-> updateScenarioFrom33To40(doc.scenarios[i])]
    BY DEF Map
  <2>4. \A s \in Scenarios : updateScenarioFrom33To40(s).id = s.id
    BY DEF updateScenarioFrom33To40, MapActions, Scenarios
  <2> HIDE DEF scenarios
  <2> QED BY <1>0, <2>1, <2>2, <2>3, <2>4, InVersionHas DEF SameIds
<1>3. CASE doc.schemaVersion = "4.0"
  <2> DEFINE scenarios == Map(doc.scenarios, updateScenarioFrom40To41)
  <2>1. executeMigration(doc, lastPublished, status) = migrateFrom40To41(doc, status)
    BY <1>3 DEF executeMigration
  <2>2. migrateFrom40To41(doc, status).doc = InVersion(doc, "4.1", scenarios)
    BY <2>1 DEF migrateFrom40To41, Migrated, Failed, InVersion
  <2>3. scenarios = [i \in DOMAIN doc.scenarios |-> updateScenarioFrom40To41(doc.scenarios[i])]
    BY DEF Map
  <2>4. \A s \in Scenarios : updateScenarioFrom40To41(s).id = s.id
    BY DEF updateScenarioFrom40To41, Scenarios
  <2> HIDE DEF scenarios
  <2> QED BY <1>0, <2>1, <2>2, <2>3, <2>4, InVersionHas DEF SameIds
<1>4. CASE doc.schemaVersion = "4.1"
  <2> DEFINE actions == [i \in DOMAIN doc.scenarios |-> [j \in DOMAIN doc.scenarios[i].actions |->
                         [doc.scenarios[i].actions[j] EXCEPT !.lastUpdated =
                             WhenUpdated(doc.scenarios[i].actions[j], lastPublished)]]]
  <2>1. migrateFrom41To42(doc, lastPublished, status).doc = WithActions(doc, "4.2", actions)
    BY DEF migrateFrom41To42, Migrated, Map, MapActions, WithActions, InVersion
  <2>2. executeMigration(doc, lastPublished, status)
            = migrateFrom41To42(doc, lastPublished, status)
    BY <1>4 DEF executeMigration
  <2> HIDE DEF actions
  <2> QED BY <1>0, <2>1, <2>2, WithActionsIds
<1>5. CASE doc.schemaVersion = "4.2"
  <2> DEFINE actions == [i \in DOMAIN doc.scenarios |-> [j \in DOMAIN doc.scenarios[i].actions |->
                         [doc.scenarios[i].actions[j] EXCEPT !.status =
                             ACTION_STATUS_4X_TO_5X_MAP[doc.scenarios[i].actions[j].status]]]]
  <2>1. migrateFrom42To50(doc, status).doc = WithActions(doc, "5.0", actions)
    BY DEF migrateFrom42To50, Migrated, Map, MapActions, WithActions, InVersion
  <2>2. executeMigration(doc, lastPublished, status) = migrateFrom42To50(doc, status)
    BY <1>5 DEF executeMigration
  <2> HIDE DEF actions
  <2> QED BY <1>0, <2>1, <2>2, WithActionsIds
<1>6. CASE doc.schemaVersion = "5.0"
  <2> DEFINE actions == [i \in DOMAIN doc.scenarios |-> [j \in DOMAIN doc.scenarios[i].actions |->
                         [doc.scenarios[i].actions[j] EXCEPT !.lastUpdatedBy = ""]]]
  <2>1. migrateFrom50To51(doc, status).doc = WithActions(doc, "5.1", actions)
    BY DEF migrateFrom50To51, Migrated, Map, MapActions, WithActions, InVersion
  <2>2. executeMigration(doc, lastPublished, status) = migrateFrom50To51(doc, status)
    BY <1>6 DEF executeMigration
  <2> HIDE DEF actions
  <2> QED BY <1>0, <2>1, <2>2, WithActionsIds
<1>7. CASE doc.schemaVersion = "5.1"
  <2>1. migrateFrom51To52(doc, status).doc.scenarios = doc.scenarios
    BY <1>0 DEF migrateFrom51To52, Migrated, RiScDocuments
  <2>2. executeMigration(doc, lastPublished, status) = migrateFrom51To52(doc, status)
    BY <1>7 DEF executeMigration
  <2> QED BY <2>1, <2>2 DEF SameIds
<1>8. CASE doc.schemaVersion = "5.2"
  BY <1>8 DEF executeMigration, Failed
<1> QED BY <1>1, <1>2, <1>3, <1>4, <1>5, <1>6, <1>7, <1>8, VersionsAre

\* What a round has made of a document, unless it failed.
Keeps(doc, last) ==
    ~last.failed => /\ Fit(last.doc) /\ last.doc.schemaVersion \in VersionSet
                    /\ SameIds(doc, last.doc)

\* Nor does a round of a migration,
LEMMA RoundKeepsIds ==
    ASSUME NEW doc, NEW last, NEW toVersion, NEW lastPublished \in OrNone(Times),
           Keeps(doc, last)
    PROVE  Keeps(doc, Advance(last, lastPublished, toVersion))
<1>1. CASE last.failed \/ last.doc.schemaVersion = toVersion
  BY <1>1 DEF Advance
<1>2. CASE ~last.failed /\ last.doc.schemaVersion # toVersion
  <2> DEFINE new == executeMigration(last.doc, lastPublished, last.status)
  <2>1. Advance(last, lastPublished, toVersion) = new
    BY <1>2 DEF Advance
  <2>2. Fit(last.doc) /\ last.doc.schemaVersion \in VersionSet /\ SameIds(doc, last.doc)
    BY <1>2 DEF Keeps
  <2>3. ~new.failed => /\ Fit(new.doc) /\ new.doc.schemaVersion \in VersionSet
                       /\ SameIds(last.doc, new.doc)
    BY <2>2, MigrationStep, StepKeepsIds
  <2> HIDE DEF new
  <2>4. ~new.failed => SameIds(doc, new.doc)
    BY <2>2, <2>3 DEF SameIds
  <2> QED BY <2>1, <2>3, <2>4 DEF Keeps
<1> QED BY <1>1, <1>2

\* nor all of them.
LEMMA MigrationKeepsIds ==
    ASSUME NEW doc, Fit(doc), doc.schemaVersion \in VersionSet, NEW status, NEW toVersion,
           NEW lastPublished \in OrNone(Times)
    PROVE  Keeps(doc, handleMigrate(doc, lastPublished, status, toVersion))
<1>1. PICK after : /\ Rounds(doc, lastPublished, status, toVersion, after)
                   /\ handleMigrate(doc, lastPublished, status, toVersion) = after[8]
  BY MigratesInRounds
<1> DEFINE Kept(n) == Keeps(doc, after[n])
<1>2. Kept(0)
  <2>1. after[0] = Migrated(doc, status)
    BY <1>1, VersionsAre DEF Rounds
  <2> QED BY <2>1 DEF Keeps, Migrated, SameIds
<1>3. ASSUME NEW n \in 0..7, Kept(n) PROVE Kept(n + 1)
  <2>1. after[n + 1] = Advance(after[n], lastPublished, toVersion)
    <3>1. n + 1 \in 0..8 /\ n + 1 # 0 /\ (n + 1) - 1 = n
      OBVIOUS
    <3> QED BY <1>1, <3>1, VersionsAre DEF Rounds
  <2> QED BY <1>3, <2>1, RoundKeepsIds
<1> HIDE DEF Kept
<1>4. Kept(8)
  <2>1. Kept(1)
    BY <1>2, <1>3
  <2>2. Kept(2)
    BY <1>3, <2>1
  <2>3. Kept(3)
    BY <1>3, <2>2
  <2>4. Kept(4)
    BY <1>3, <2>3
  <2>5. Kept(5)
    BY <1>3, <2>4
  <2>6. Kept(6)
    BY <1>3, <2>5
  <2>7. Kept(7)
    BY <1>3, <2>6
  <2> QED BY <1>3, <2>7
<1> QED BY <1>1, <1>4 DEF Kept

\* What is fetched has the ids of what is stored.
LEMMA FetchedKeepsIds ==
    ASSUME NEW f, {f.published, f.draft} \ {None} \subseteq RiScDocuments, ToShow(f) # None,
           ~Fetched(f).failed
    PROVE  SameIds(ToShow(f), Fetched(f).doc)
<1> DEFINE doc == ToShow(f)
           last == LastPublished(f)
           status == [NoChanges EXCEPT !.fromVersion = doc.schemaVersion,
                                       !.toVersion = latestSupportedVersion]
           result == handleMigrate(doc, last, status, latestSupportedVersion)
<1>1. doc \in RiScDocuments
  BY DEF ToShow
<1>2. Valid(doc) /\ Fetched(f) = migrate(doc, last, latestSupportedVersion)
  BY DEF Fetched, Failed
<1>3. Fetched(f) = result
  <2> HIDE DEF result, doc, last
  <2>1. migrate(doc, last, latestSupportedVersion).failed = FALSE
    BY <1>2
  <2> USE DEF result
  <2> QED BY <1>2, <2>1 DEF migrate, Failed
<1>4. last \in OrNone(Times)
  BY DEF LastPublished, OrNone, Times
<1>5. Fit(doc) /\ doc.schemaVersion \in VersionSet
  BY <1>1, <1>2, ValidFits
<1> HIDE DEF doc, last, status
<1>6. Keeps(doc, result)
  BY <1>4, <1>5, MigrationKeepsIds
<1> HIDE DEF result
<1> QED BY <1>3, <1>6 DEF Keeps, doc

-----------------------------------------------------------------------------
(* Lists in which every id is there once.                                  *)

\* Two lists with other ids, one after the other.
LEMMA JoinedUnique ==
    ASSUME NEW S, NEW a \in Seq(S), NEW b \in Seq(S), UniqueIds(a), UniqueIds(b),
           Ids(a) \cap Ids(b) = {}
    PROVE  /\ UniqueIds(a \o b) /\ Range(a \o b) = Range(a) \cup Range(b)
           /\ Ids(a \o b) = Ids(a) \cup Ids(b)
<1> DEFINE c == a \o b
           m == Len(a)
           n == Len(b)
<1>1. /\ c \in Seq(S) /\ Len(c) = m + n /\ m \in Nat /\ n \in Nat
      /\ DOMAIN a = 1..m /\ DOMAIN b = 1..n
      /\ \A k \in 1..(m + n) : c[k] = IF k <= m THEN a[k] ELSE b[k - m]
  BY JoinedLists
<1>2. DOMAIN c = 1..(m + n)
  BY <1>1
<1> HIDE DEF c, m, n
<1>3. \A k \in 1..m : k \in 1..(m + n) /\ c[k] = a[k]
  BY <1>1
<1>4. ASSUME NEW k \in 1..n PROVE k + m \in 1..(m + n) /\ c[k + m] = b[k]
  <2>1. k + m \in 1..(m + n) /\ ~(k + m <= m) /\ (k + m) - m = k
    BY <1>1
  <2> QED BY <1>1, <2>1
<1>5. ASSUME NEW k \in 1..(m + n)
      PROVE  (k \in 1..m /\ c[k] = a[k]) \/ (k - m \in 1..n /\ c[k] = b[k - m])
  <2>1. CASE k <= m
    BY <1>1, <2>1
  <2>2. CASE ~(k <= m)
    <3>1. k - m \in 1..n
      BY <1>1, <2>2
    <3> QED BY <1>1, <2>2, <3>1
  <2> QED BY <2>1, <2>2
<1>6. Range(c) = Range(a) \cup Range(b)
  <2>1. Range(c) = {c[k] : k \in 1..(m + n)}
    BY <1>2 DEF Range
  <2>2. Range(a) = {a[k] : k \in 1..m} /\ Range(b) = {b[k] : k \in 1..n}
    BY <1>1 DEF Range
  <2>3. \A x \in Range(c) : x \in Range(a) \cup Range(b)
    BY <1>5, <2>1, <2>2
  <2>4. \A x \in Range(a) : x \in Range(c)
    BY <1>3, <2>1, <2>2
  <2>5. ASSUME NEW x \in Range(b) PROVE x \in Range(c)
    <3>1. PICK k \in 1..n : x = b[k]
      BY <2>2
    <3>2. k + m \in 1..(m + n) /\ c[k + m] = x
      BY <1>4, <3>1
    <3> QED BY <2>1, <3>2
  <2> QED BY <2>3, <2>4, <2>5
<1>7. Ids(c) = Ids(a) \cup Ids(b)
  <2>1. Ids(c) = {x.id : x \in Range(c)}
    BY DEF Ids, Range
  <2>2. Ids(a) = {x.id : x \in Range(a)} /\ Ids(b) = {x.id : x \in Range(b)}
    BY DEF Ids, Range
  <2> QED BY <1>6, <2>1, <2>2
<1>8. \A j \in 1..m, k \in 1..n : a[j].id # b[k].id
  BY <1>1 DEF Ids
<1>9. ASSUME NEW j \in 1..(m + n), NEW k \in 1..(m + n), c[j].id = c[k].id PROVE j = k
  <2>1. CASE j \in 1..m /\ c[j] = a[j] /\ k \in 1..m /\ c[k] = a[k]
    BY <1>1, <1>9, <2>1 DEF UniqueIds
  <2>2. CASE j - m \in 1..n /\ c[j] = b[j - m] /\ k - m \in 1..n /\ c[k] = b[k - m]
    <3>1. j - m = k - m
      BY <1>1, <1>9, <2>2 DEF UniqueIds
    <3> QED BY <1>1, <3>1
  <2>3. CASE j \in 1..m /\ c[j] = a[j] /\ k - m \in 1..n /\ c[k] = b[k - m]
    BY <1>8, <1>9, <2>3
  <2>4. CASE j - m \in 1..n /\ c[j] = b[j - m] /\ k \in 1..m /\ c[k] = a[k]
    BY <1>8, <1>9, <2>4
  <2> QED BY <1>5, <2>1, <2>2, <2>3, <2>4
<1>10. UniqueIds(c)
  BY <1>2, <1>9 DEF UniqueIds
<1> QED BY <1>6, <1>7, <1>10 DEF c

\* The first scenario of an id is the only one.
LEMMA FindsTheOnly ==
    ASSUME NEW S, NEW items \in Seq(S), UniqueIds(items), NEW i \in DOMAIN items
    PROVE  Find(items, items[i].id) = items[i]
<1>1. items[i].id \in Ids(items)
  BY DEF Ids
<1>2. PICK k \in DOMAIN items : Find(items, items[i].id) = items[k] /\ items[k].id = items[i].id
  BY <1>1, FindFinds
<1> QED BY <1>2 DEF UniqueIds

\* What the table shows after a success: each of the page's scenarios, once.
LEMMA SynchronisedScenarios ==
    ASSUME NEW temp \in Seq(Scenarios), NEW scenarios \in Seq(Scenarios),
           UniqueIds(temp), UniqueIds(scenarios)
    PROVE  /\ UniqueIds(Synchronised(temp, scenarios))
           /\ Range(Synchronised(temp, scenarios)) = Range(scenarios)
<1> DEFINE old == {i \in DOMAIN temp : temp[i].id \in Ids(scenarios)}
           known == ItemsAt(temp, old)
           updated == [i \in DOMAIN known |-> Find(scenarios, known[i].id)]
           new == {i \in DOMAIN scenarios : scenarios[i].id \notin Ids(known)}
           added == ItemsAt(scenarios, new)
<1>1. Synchronised(temp, scenarios) = updated \o added
  BY DEF Synchronised
<1>2. /\ known \in Seq(Scenarios) /\ Ids(known) = {temp[i].id : i \in old}
      /\ UniqueIds(known)
  <2>1. old \in SUBSET (DOMAIN temp)
    OBVIOUS
  <2> HIDE DEF old
  <2> QED BY <2>1, ItemsAtIsSeq
<1>3. /\ added \in Seq(Scenarios) /\ Range(added) = {scenarios[i] : i \in new}
      /\ Ids(added) = {scenarios[i].id : i \in new} /\ UniqueIds(added)
  <2>1. new \in SUBSET (DOMAIN scenarios)
    OBVIOUS
  <2> HIDE DEF new
  <2> QED BY <2>1, ItemsAtIsSeq
<1>4. \A i \in DOMAIN known : known[i].id \in Ids(scenarios)
  <2>1. \A i \in DOMAIN known : known[i].id \in Ids(known)
    BY DEF Ids
  <2>2. \A id \in {temp[i].id : i \in old} : id \in Ids(scenarios)
    OBVIOUS
  <2> HIDE DEF old, known
  <2> QED BY <1>2, <2>1, <2>2
<1>5. \A i \in DOMAIN scenarios : i \in new <=> scenarios[i].id \notin Ids(known)
  OBVIOUS
<1>5a. new \subseteq DOMAIN scenarios
  OBVIOUS
<1>6. DOMAIN updated = DOMAIN known
  OBVIOUS
<1> HIDE DEF old, known, new, added
<1>7. ASSUME NEW i \in DOMAIN known
      PROVE  \E k \in DOMAIN scenarios : updated[i] = scenarios[k] /\ scenarios[k].id = known[i].id
  BY <1>4, FindFinds
<1>8. updated \in Seq(Scenarios)
  <2>1. \A i \in DOMAIN known : updated[i] \in Scenarios
    BY <1>7
  <2>2. updated = [i \in DOMAIN updated |-> updated[i]]
    OBVIOUS
  <2> HIDE DEF updated
  <2> QED BY <1>2, <1>6, <2>1, <2>2, MappedList
<1>9. ASSUME NEW i \in DOMAIN scenarios, scenarios[i].id \in Ids(known)
      PROVE  scenarios[i] \in Range(updated)
  <2>1. PICK k \in DOMAIN known : known[k].id = scenarios[i].id
    BY <1>9 DEF Ids
  <2>2. updated[k] = scenarios[i]
    BY <2>1, FindsTheOnly
  <2> HIDE DEF updated
  <2> QED BY <1>6, <2>1, <2>2 DEF Range
<1> HIDE DEF updated
<1>10. \A i \in DOMAIN known : updated[i].id = known[i].id
  BY <1>7
<1>11. UniqueIds(updated) /\ Ids(updated) = Ids(known)
  BY <1>2, <1>6, <1>10 DEF UniqueIds, Ids
<1>12. Ids(updated) \cap Ids(added) = {}
  BY <1>3, <1>5, <1>5a, <1>11
<1>13. /\ UniqueIds(updated \o added)
       /\ Range(updated \o added) = Range(updated) \cup Range(added)
  BY <1>3, <1>8, <1>11, <1>12, JoinedUnique
<1>14. Range(updated) \subseteq Range(scenarios)
  BY <1>6, <1>7 DEF Range
<1>15. Range(added) \subseteq Range(scenarios)
  BY <1>3, <1>5a DEF Range
<1>16. ASSUME NEW i \in DOMAIN scenarios
       PROVE  scenarios[i] \in Range(updated) \cup Range(added)
  BY <1>3, <1>5, <1>9
<1>17. Range(scenarios) \subseteq Range(updated) \cup Range(added)
  BY <1>16 DEF Range
<1> QED BY <1>1, <1>13, <1>14, <1>15, <1>17

-----------------------------------------------------------------------------
(* Documents in which every id is there once.                              *)

\* With the same ids, one document has each once if the other has.
LEMMA SameIdsUnique ==
    ASSUME NEW old, NEW new, SameIds(old, new)
    PROVE  /\ Ids(new.scenarios) = Ids(old.scenarios)
           /\ UniqueIds(old.scenarios) => UniqueIds(new.scenarios)
BY DEF SameIds, Ids, UniqueIds

\* What is sent of a document has its ids.
LEMMA DTOKeepsIds == ASSUME NEW c \in RiScDocuments PROVE SameIds(c, riScToDTO(c))
<1> DEFINE scenarios == [i \in DOMAIN c.scenarios |-> scenarioToDTO(c.scenarios[i])]
<1>1. riScToDTO(c).scenarios = scenarios
  BY SentDocument
<1>2. \A i \in DOMAIN c.scenarios : c.scenarios[i] \in Scenarios
  BY ContentParts
<1>3. \A s \in Scenarios : scenarioToDTO(s).id = s.id
  BY SentScenario
<1> QED BY <1>1, <1>2, <1>3 DEF SameIds

\* So has a document of which a scenario is edited.
LEMMA EditedIds ==
    ASSUME NEW c \in RiScDocuments, NEW scenario PROVE SameIds(c, WithScenario(c, scenario))
BY DEF SameIds, WithScenario, RiScDocuments

\* A document of which a scenario was deleted has the others once,
LEMMA DeletedIds ==
    ASSUME NEW c \in RiScDocuments, NEW id, UniqueIds(c.scenarios)
    PROVE  UniqueIds(WithoutScenario(c, id).scenarios)
<1> DEFINE kept == {i \in DOMAIN c.scenarios : c.scenarios[i].id # id}
<1>1. kept \in SUBSET (DOMAIN c.scenarios)
  OBVIOUS
<1>2. WithoutScenario(c, id).scenarios = ItemsAt(c.scenarios, kept)
  BY DEF WithoutScenario, RiScDocuments
<1> HIDE DEF kept
<1> QED BY <1>1, <1>2, ContentParts, ItemsAtIsSeq

\* and one to which new scenarios were added has all of them once.
LEMMA AddedIds ==
    ASSUME NEW c \in RiScDocuments, NEW scenarios \in Seq(Scenarios), UniqueIds(scenarios),
           UniqueIds(c.scenarios), Ids(scenarios) \cap Ids(c.scenarios) = {}
    PROVE  UniqueIds(WithNewScenarios(c, scenarios).scenarios)
<1>1. WithNewScenarios(c, scenarios).scenarios = scenarios \o c.scenarios
  BY DEF WithNewScenarios, RiScDocuments
<1> QED BY <1>1, ContentParts, JoinedUnique

\* The predefined scenarios keep their ids.
LEMMA PredefinedIds ==
    ASSUME NEW now
    PROVE  /\ UniqueIds(buildPredefinedScenarios(Predefined, now))
           /\ Ids(buildPredefinedScenarios(Predefined, now)) = Ids(Predefined)
<1> DEFINE list == buildPredefinedScenarios(Predefined, now)
<1>1. Predefined \in Seq(Scenarios) /\ UniqueIds(Predefined)
  BY EditorAssumption
<1>2. DOMAIN list = DOMAIN Predefined
  BY DEF buildPredefinedScenarios
<1>3. \A i \in DOMAIN Predefined : list[i].id = Predefined[i].id
  <2>1. \A s \in Scenarios : \A actions : [s EXCEPT !.actions = actions].id = s.id
    BY DEF Scenarios
  <2>2. \A i \in DOMAIN Predefined : Predefined[i] \in Scenarios
    BY <1>1
  <2> QED BY <2>1, <2>2 DEF buildPredefinedScenarios
<1> HIDE DEF list
<1>4. UniqueIds(list) /\ Ids(list) = Ids(Predefined)
  BY <1>1, <1>2, <1>3 DEF UniqueIds, Ids
<1> QED BY <1>4 DEF list

-----------------------------------------------------------------------------
(* What the table shows.                                                   *)

\* What is selected has each id once; so has what a failed save brings back, and
\* what the table and the closures of its rows have.
UniqueSelection(s) == s.content # None => UniqueIds(s.content.scenarios)

\* So has the page.
UniquePage(p) ==
    /\ UniqueSelection(p.selected)
    /\ p.update = "loading" => UniqueSelection(p.request.old)

\* So has the table.
UniqueTable(t) ==
    /\ UniqueIds(t.scenarios)
    /\ \A id \in DOMAIN t.rows : UniqueSelection(t.rows[id])

\* The scenario of the wizard is new to the page, unless it was just submitted,
\* and to what a failed save would bring back.
NewIsNew(d, p) ==
    d.step =>
        /\ d.url = NewScenario
        /\ IF p.update # "loading" THEN NewScenario \notin Ids(p.selected.content.scenarios)
           ELSE /\ NewScenario \notin Ids(p.request.old.content.scenarios)
                /\ p.request.after # "closeScenarioForm" =>
                       NewScenario \notin Ids(p.selected.content.scenarios)

\* What the page shows, or showed before the save that is under way.
Before(p) == IF p.update = "loading" THEN p.request.old.content ELSE p.selected.content

\* The table has the scenarios of the page, or of what a failed save brings back.
Agrees(t, p) ==
    t.mounted /\ (p.update = "success" \/ ~t.early) =>
        Range(t.scenarios) = Range(Before(p).scenarios)

\* The scenarios of the page, of the table and of every closure have ids of
\* their own, and the table has those of the page.
ViewInv ==
    /\ UniquePage(page) /\ UniqueTable(table) /\ NewIsNew(drawer, page)
    /\ history.orderly => Agrees(table, page)

\* What is stored has each id once, and what the dialog was filled with.
UniqueFiles == \A doc \in Docs : UniqueIds(doc.scenarios)

\* So has what the dialog edits.
UniqueDialog == dialog # None => UniqueIds(dialog.scenarios)

\* The strengthened invariant of the table.
TableInv == ViewInv /\ UniqueFiles /\ UniqueDialog

\* Rendering keeps the ids apart, and the table with the page.
LEMMA RenderedTable ==
    ASSUME NEW p, PageOK(p), UniquePage(p), NEW t, NEW q, TableOK(t, q), UniqueTable(t), NEW d
    PROVE  /\ UniqueTable(ScenarioTable(t, p, d))
           /\ (p.update # "success" => Agrees(t, p)) => Agrees(ScenarioTable(t, p, d), p)
<1> DEFINE u == ScenarioTable(t, p, d)
<1>1. CASE d.step \/ p.selected.content = None
  <2>1. u = Unmounted
    BY <1>1 DEF ScenarioTable
  <2> HIDE DEF u
  <2>2. u.scenarios = <<>> /\ u.rows = <<>> /\ u.mounted = FALSE
    BY <2>1 DEF Unmounted
  <2> QED BY <2>2 DEF UniqueTable, UniqueIds, Agrees, u
<1>2. CASE ~d.step /\ p.selected.content # None
  <2> DEFINE c == p.selected.content
             takesOver == ~t.mounted \/ p.update = "success"
             scenarios == IF ~takesOver THEN t.scenarios
                          ELSE IF ~t.mounted THEN c.scenarios
                          ELSE Synchronised(t.scenarios, c.scenarios)
             early == IF t.mounted THEN t.early ELSE p.update = "loading"
             rows == [id \in Ids(scenarios) |->
                         IF id \in DOMAIN t.rows THEN t.rows[id] ELSE p.selected]
  <2>1. c.scenarios \in Seq(Scenarios) /\ t.scenarios \in Seq(Scenarios)
    BY <1>2, ContentParts DEF PageOK, SelectionOK, OrNone, Contents, TableOK
  <2>2. UniqueIds(c.scenarios) /\ UniqueIds(t.scenarios)
    BY <1>2 DEF UniquePage, UniqueSelection, UniqueTable
  <2>3. UniqueIds(scenarios) /\ (takesOver => Range(scenarios) = Range(c.scenarios))
    BY <2>1, <2>2, SynchronisedScenarios
  <2>4. u = [mounted |-> TRUE, scenarios |-> scenarios,
             objects |-> IF takesOver THEN p.selected.objects ELSE t.objects,
             early |-> early, rows |-> rows]
    BY <1>2 DEF ScenarioTable
  <2>5. ~takesOver => scenarios = t.scenarios
    OBVIOUS
  <2>6. takesOver <=> ~t.mounted \/ p.update = "success"
    OBVIOUS
  <2>7. early <=> (t.mounted /\ t.early) \/ (~t.mounted /\ p.update = "loading")
    OBVIOUS
  <2>8. \A id \in DOMAIN rows : UniqueSelection(rows[id])
    BY DEF UniqueTable, UniquePage
  <2> HIDE DEF scenarios, u, takesOver, early, rows
  <2>9. u.scenarios = scenarios /\ u.rows = rows /\ u.mounted /\ u.early = early
    BY <2>4
  <2>10. UniqueTable(u)
    BY <2>3, <2>8, <2>9 DEF UniqueTable
  <2>11. ASSUME p.update # "success" => Agrees(t, p) PROVE Agrees(u, p)
    <3>1. SUFFICES ASSUME p.update = "success" \/ ~early
                   PROVE  Range(scenarios) = Range(Before(p).scenarios)
      BY <2>9, Zenon DEF Agrees
    <3>2. CASE p.update = "success"
      BY <2>3, <2>6, <3>2 DEF Before
    <3>3. CASE p.update # "success" /\ ~t.mounted
      BY <2>3, <2>6, <2>7, <3>1, <3>3 DEF Before
    <3>4. CASE p.update # "success" /\ t.mounted
      <4>1. ~t.early
        BY <2>7, <3>1, <3>4
      <4>2. Range(t.scenarios) = Range(Before(p).scenarios)
        BY <2>11, <3>4, <4>1 DEF Agrees
      <4> QED BY <2>5, <2>6, <3>4, <4>2
    <3> QED BY <3>2, <3>3, <3>4
  <2> QED BY <2>10, <2>11 DEF u
<1> QED BY <1>1, <1>2

\* Where the wizard is shown it stays as it is.
LEMMA WizardStays ==
    ASSUME NEW d, d.step \/ DrawerOK(d), NEW p
    PROVE  ScenarioDrawer(d, p).step => d.step /\ ScenarioDrawer(d, p) = d
<1>1. CASE d.step
  BY <1>1 DEF ScenarioDrawer, Followed
<1>2. CASE ~d.step /\ DrawerOK(d)
  BY <1>2, DrawerKeepsUrl
<1> QED BY <1>1, <1>2

\* Whatever is rendered has ids of its own if the page has, and the table has
\* the scenarios of the page.
LEMMA ShownInv ==
    ASSUME TableOK(table, page), UniqueTable(table), NEW p, PageOK(p), UniquePage(p),
           NEW d, d.step \/ DrawerOK(d), NewIsNew(d, p), Show(p, table, d),
           history'.orderly => (p.update # "success" => Agrees(table, p))
    PROVE  ViewInv'
<1>1. page' = p /\ drawer' = ScenarioDrawer(d, p) /\ table' = ScenarioTable(table, p, drawer')
  BY DEF Show
<1>2. /\ UniqueTable(table')
      /\ (p.update # "success" => Agrees(table, p)) => Agrees(table', p)
  BY <1>1, RenderedTable
<1>3. NewIsNew(drawer', p)
  <2>1. drawer'.step => d.step /\ drawer' = d
    BY <1>1, WizardStays
  <2> QED BY <2>1 DEF NewIsNew
<1> QED BY <1>1, <1>2, <1>3 DEF ViewInv, NewIsNew, UniquePage, UniqueTable, Agrees, Before,
                                UniqueSelection

\* The page is rendered as it is.
LEMMA SameShown ==
    ASSUME EditorInv, ViewInv, NEW d, d.step \/ DrawerOK(d), NewIsNew(d, page),
           Show(page, table, d), history' = history
    PROVE  ViewInv'
BY ShownInv DEF EditorInv, ViewInv

\* A save begins.
LEMMA SaveShown ==
    ASSUME EditorInv, EditorInv', ViewInv, Quiet, NEW selected, UniqueSelection(selected),
           NEW c, UniqueIds(c.scenarios), NEW objects, NEW after,
           NEW d, d.step \/ DrawerOK(d), NewIsNew(d, UpdateRiSc(selected, c, objects, after)),
           Show(UpdateRiSc(selected, c, objects, after), table, d),
           history'.orderly => history.orderly /\ selected.content = content
    PROVE  ViewInv'
<1> DEFINE p == UpdateRiSc(selected, c, objects, after)
<1>1. /\ p.selected.content = c /\ p.update = "loading" /\ p.request.old = selected
      /\ page' = p
  BY DEF UpdateRiSc, Show
<1>2. Show(p, table, d) /\ NewIsNew(d, p)
  OBVIOUS
<1> HIDE DEF p
<1>3. PageOK(p) /\ TableOK(table, page)
  BY <1>1 DEF EditorInv
<1>4. UniquePage(p)
  BY <1>1 DEF UniquePage, UniqueSelection
<1>6. history'.orderly => Agrees(table, p)
  <2>1. SUFFICES ASSUME history'.orderly PROVE Agrees(table, p)
    OBVIOUS
  <2>2. Agrees(table, page) /\ selected.content = content
    BY <2>1 DEF ViewInv
  <2>3. Before(p) = selected.content /\ Before(page) = content
    BY <1>1 DEF Before, Quiet, content
  <2> QED BY <1>1, <2>2, <2>3 DEF Agrees
<1> QED BY <1>2, <1>3, <1>4, <1>6, ShownInv DEF ViewInv

\* A save of the user's, from the drawer, the table or the page.
LEMMA UpdateShown ==
    ASSUME EditorInv, EditorInv', ViewInv, NEW c, UniqueIds(c.scenarios), NEW after,
           Update(c, after, drawer), ~drawer.step, history' = history
    PROVE  ViewInv'
<1>1. Quiet /\ Show(UpdateRiSc(page.selected, c, page.selected.objects, after), table, drawer)
  BY DEF Update, Saves
<1>2. UniqueSelection(page.selected)
  BY DEF ViewInv, UniquePage
<1>3. DrawerOK(drawer)
  BY DEF EditorInv
<1> QED BY <1>1, <1>2, <1>3, SaveShown DEF content, NewIsNew

\* What is shown has ids of its own.
LEMMA ContentIsUnique ==
    ASSUME EditorInv, ViewInv, content # None
    PROVE  content \in RiScDocuments /\ UniqueIds(content.scenarios)
BY ContentIsOne DEF EditorInv, ViewInv, UniquePage, UniqueSelection, content, Contents

\* Nothing that the view has changes.
LEMMA SameView ==
    ASSUME ViewInv, page' = page, table' = table, drawer' = drawer, history' = history
    PROVE  ViewInv'
BY DEF ViewInv

\* The form changes, in the drawer or the wizard.
LEMMA SameStep ==
    ASSUME ViewInv, page' = page, table' = table, history' = history,
           drawer'.step => drawer.step /\ drawer'.url = drawer.url
    PROVE  ViewInv'
BY DEF ViewInv, NewIsNew

\* What is done in the drawer,
LEMMA DrawerShown ==
    ASSUME EditorInv, EditorInv', ViewInv, InDrawer PROVE ViewInv'
<1>1. CASE \E id \in ScenarioId : OpenScenarioDrawer(id)
  <2>1. PICK id \in ScenarioId : OpenScenarioDrawer(id)
    BY <1>1
  <2> DEFINE d == [drawer EXCEPT !.url = id]
  <2>2. Show(page, table, d) /\ ~drawer.step /\ history' = history
    BY <2>1 DEF OpenScenarioDrawer, AtTable, Rest
  <2>3. DrawerOK(drawer) /\ id \in OrNone(ScenarioId)
    BY DEF EditorInv, OrNone
  <2>4. DrawerOK(d)
    <3>1. drawer.editing \in BOOLEAN
      BY <2>3, DrawerShape
    <3> QED BY <2>2, <2>3, <3>1, OtherUrl
  <2>5. d.step = drawer.step
    BY <2>3, DrawerShape
  <2> HIDE DEF d
  <2> QED BY <2>2, <2>4, <2>5, SameShown DEF NewIsNew
<1>2. CASE Edit \/ OnCancel
  <2>1. page' = page /\ table' = table /\ history' = history /\ drawer.open
    BY <1>2 DEF Edit, OnCancel, Rest
  <2>2. drawer'.step = drawer.step /\ ~drawer.step
    BY <1>2, <2>1 DEF Edit, OnCancel, EditorInv, DrawerOK
  <2> QED BY <2>1, <2>2, SameStep
<1>3. CASE TypeText \/ AddAction \/ \E i \in 1..2 : TypeAction(i) \/ RemoveAction(i)
  <2>1. PICK form : Type(form)
    <3>1. TypeText => \E form : Type(form)
      BY DEF TypeText
    <3>2. AddAction => \E form : Type(form)
      BY DEF AddAction
    <3>3. \A i : TypeAction(i) => \E form : Type(form)
      BY DEF TypeAction
    <3>4. \A i : RemoveAction(i) => \E form : Type(form)
      BY DEF RemoveAction
    <3> QED BY <1>3, <3>1, <3>2, <3>3, <3>4
  <2>2. /\ page' = page /\ table' = table /\ history' = history
        /\ drawer' = [drawer EXCEPT !.form = form]
    BY <2>1 DEF Type, Rest
  <2>3. drawer'.step = drawer.step /\ drawer'.url = drawer.url
    BY <2>2 DEF EditorInv, DrawerOK
  <2> QED BY <2>2, <2>3, SameStep
<1>4. CASE CloseDrawer
  <2> DEFINE d == [drawer EXCEPT !.url = None, !.editing = FALSE]
  <2>1. Show(page, table, d) /\ drawer.open /\ history' = history
    BY <1>4 DEF CloseDrawer, Rest
  <2>2. ~drawer.step /\ DrawerOK(d)
    <3>1. DrawerOK(drawer) /\ None \in OrNone(ScenarioId)
      BY DEF EditorInv, OrNone
    <3>2. ~drawer.step
      BY <2>1, <3>1, DrawerShape
    <3> QED BY <3>1, <3>2, OtherUrl
  <2>3. d.step = drawer.step
    BY <2>1, DrawerShape DEF EditorInv
  <2> HIDE DEF d
  <2> QED BY <2>1, <2>2, <2>3, SameShown DEF NewIsNew
<1>5. CASE SubmitEditedScenario
  <2>1. PICK edited : Update(WithScenario(content, edited), "endEditing", drawer)
    BY <1>5 DEF SubmitEditedScenario
  <2>2. drawer.open /\ history' = history
    BY <1>5 DEF SubmitEditedScenario, Rest
  <2>3. ~drawer.step /\ content # None
    BY <2>2 DEF EditorInv, DrawerOK, Follows, content
  <2>4. UniqueIds(WithScenario(content, edited).scenarios)
    BY <2>3, ContentIsUnique, EditedIds, SameIdsUnique
  <2> QED BY <2>1, <2>2, <2>3, <2>4, UpdateShown
<1> QED BY <1>1, <1>2, <1>3, <1>4, <1>5 DEF InDrawer

\* in the wizard,
LEMMA WizardShown ==
    ASSUME EditorInv, EditorInv', TableInv, InWizard PROVE ViewInv'
<1>0. ViewInv
  BY DEF TableInv
<1>1. CASE OpenNewScenarioWizard
  <2> DEFINE d == [Closed EXCEPT !.url = NewScenario, !.step = TRUE,
                                 !.form = emptyFormScenario(NewScenario)]
  <2>1. /\ Show(page, table, d) /\ history' = history
        /\ NewScenario \notin Ids(content.scenarios)
        /\ ~Quiet => NewScenario \notin Ids(page.request.old.content.scenarios)
    BY <1>1 DEF OpenNewScenarioWizard, Rest
  <2>2. d.step /\ d.url = NewScenario
    BY DEF Closed
  <2> HIDE DEF d
  <2>3. NewIsNew(d, page)
    BY <2>1, <2>2 DEF NewIsNew, Quiet, content
  <2> QED BY <1>0, <2>1, <2>2, <2>3, SameShown
<1>2. CASE CloseWizard
  <2>1. Show(page, table, Closed) /\ history' = history /\ ~Closed.step
    BY <1>2 DEF CloseWizard, Rest, Closed
  <2> QED BY <1>0, <2>1, ClosedDrawer, SameShown DEF NewIsNew
<1>3. CASE \E risks \in WizardRisks : SubmitNewScenario(risks)
  <2> PICK risks \in WizardRisks : SubmitNewScenario(risks)
    BY <1>3
  <2> DEFINE form == [drawer.form EXCEPT !.risk = risks.risk,
                                         !.remainingRisk = risks.remainingRisk]
             actions == getActionsWithLastUpdated(<<>>, form.actions, FALSE, clock)
             new == [form EXCEPT !.actions = actions]
             d == [drawer EXCEPT !.form = form]
             c == WithNewScenarios(content, <<new>>)
  <2>1. drawer.step /\ Update(c, "closeScenarioForm", d) /\ history' = history
    BY DEF SubmitNewScenario, Rest
  <2>2. drawer.form \in FormScenarios /\ content \in Contents /\ drawer.form.id = drawer.url
    BY <2>1, FormIsThere DEF EditorInv, PageInv, DrawerOK
  <2>3. risks.risk \in FormRisks /\ risks.remainingRisk \in FormRisks
    BY EditorAssumption
  <2>4. form \in FormScenarios /\ form.id = drawer.form.id
    BY <2>2, <2>3, FormRisksAreRisks DEF FormScenarios, Scenarios
  <2>5. d.step = drawer.step /\ d.url = drawer.url
    BY DEF EditorInv, DrawerOK
  <2> HIDE DEF form, d
  <2>6. clock \in Nat
    BY DEF EditorInv
  <2>7. actions \in Seq(Actions)
    BY <2>4, <2>6, FormParts, StampedActions
  <2> HIDE DEF actions
  <2>8. new \in Scenarios /\ new.id = form.id
    BY <2>4, <2>7, FormActions
  <2> HIDE DEF new
  <2>9. Quiet /\ Show(UpdateRiSc(page.selected, c, page.selected.objects, "closeScenarioForm"), table, d)
    BY <2>1 DEF Update, Saves
  <2>10. drawer.url = NewScenario /\ NewScenario \notin Ids(content.scenarios)
    BY <1>0, <2>1, <2>9 DEF ViewInv, NewIsNew, Quiet, content
  <2>11. UniqueIds(c.scenarios)
    <3>1. <<new>> \in Seq(Scenarios) /\ UniqueIds(<<new>>) /\ Ids(<<new>>) = {new.id}
      BY <2>8 DEF UniqueIds, Ids
    <3>2. content # None
      BY <2>2, FormNotNone DEF Contents
    <3>3. content \in RiScDocuments /\ UniqueIds(content.scenarios)
      BY <1>0, <3>2, ContentIsUnique
    <3>4. Ids(<<new>>) \cap Ids(content.scenarios) = {}
      BY <2>2, <2>4, <2>8, <2>10, <3>1
    <3> QED BY <3>1, <3>3, <3>4, AddedIds
  <2> HIDE DEF c
  <2>12. NewIsNew(d, UpdateRiSc(page.selected, c, page.selected.objects, "closeScenarioForm"))
    BY <2>5, <2>10 DEF NewIsNew, UpdateRiSc, content
  <2>13. UniqueSelection(page.selected)
    BY <1>0 DEF ViewInv, UniquePage
  <2>14. d.step
    BY <2>1, <2>5
  <2> QED BY <1>0, <2>1, <2>9, <2>11, <2>12, <2>13, <2>14, SaveShown DEF content
<1> QED BY <1>1, <1>2, <1>3 DEF InWizard

\* with the rows of the table
LEMMA RowsShown ==
    ASSUME EditorInv, EditorInv', HistoryShape, ViewInv, InTable PROVE ViewInv'
<1>1. CASE \E from, to \in 1..Cardinality(ScenarioId) : MoveRowLocal(from, to)
  <2>1. PICK from, to : MoveRowLocal(from, to)
    BY <1>1
  <2> DEFINE moved == InsertAt(RemoveAt(table.scenarios, from), to, table.scenarios[from])
  <2>2. /\ from \in DOMAIN table.scenarios /\ to \in DOMAIN table.scenarios
        /\ table' = [table EXCEPT !.scenarios = moved] /\ UNCHANGED <<page, drawer, history>>
    BY <2>1 DEF MoveRowLocal, Rest
  <2>3. TableOK(table, page) /\ UniqueTable(table)
    BY DEF EditorInv, ViewInv
  <2>4. Range(moved) = Range(table.scenarios) /\ UniqueIds(moved)
    BY <2>2, <2>3, MovedList DEF TableOK, UniqueTable
  <2> HIDE DEF moved
  <2>5. table' = [mounted |-> table.mounted, scenarios |-> moved, objects |-> table.objects,
                  early |-> table.early, rows |-> table.rows]
    <3>1. DOMAIN table = {"mounted", "scenarios", "objects", "early", "rows"}
      BY <2>3 DEF TableOK
    <3> QED BY <2>2, <3>1
  <2>6. /\ table'.mounted = table.mounted /\ table'.scenarios = moved
        /\ table'.early = table.early /\ table'.rows = table.rows
    BY <2>5
  <2>7. UniqueTable(table')
    BY <2>3, <2>4, <2>6 DEF UniqueTable
  <2>8. Agrees(table, page) => Agrees(table', page)
    BY <2>4, <2>6 DEF Agrees
  <2> QED BY <2>2, <2>7, <2>8 DEF ViewInv
<1>2. CASE \E id \in ScenarioId : DeleteScenario(id)
  <2>1. PICK id \in ScenarioId : DeleteScenario(id)
    BY <1>2
  <2>2. /\ Update(WithoutScenario(content, id), "nothing", drawer) /\ history' = history
        /\ drawer.open \/ AtTable
    BY <2>1 DEF DeleteScenario, Rest
  <2>3. content # None /\ ~drawer.step
    BY <2>2 DEF AtTable, EditorInv, DrawerOK, Follows, content
  <2>4. UniqueIds(WithoutScenario(content, id).scenarios)
    BY <2>3, ContentIsUnique, DeletedIds
  <2> QED BY <2>2, <2>3, <2>4, UpdateShown
<1>3. CASE \E id \in ScenarioId : DropRow(id)
  <2>1. PICK id \in ScenarioId : DropRow(id)
    BY <1>3
  <2> DEFINE row == table.rows[id]
             c == [row.content EXCEPT !.scenarios = table.scenarios]
             orderly == history.orderly /\ row = page.selected
             parted == history.parted \/ table.early \/ (row # page.selected /\ Refused)
  <2>2. /\ id \in DOMAIN table.rows /\ AtTable /\ Quiet
        /\ Show(UpdateRiSc(row, c, table.objects, "nothing"), table, drawer)
        /\ history' = [history EXCEPT !.orderly = orderly, !.parted = parted]
    BY <2>1 DEF DropRow, Saves
  <2>3. /\ SelectionOK(row) /\ row.content # None /\ UniqueSelection(row)
        /\ UniqueIds(table.scenarios)
    BY <2>2 DEF EditorInv, TableOK, ViewInv, UniqueTable
  <2>4. c.scenarios = table.scenarios
    <3>1. row.content \in RiScDocuments
      BY <2>3 DEF SelectionOK, OrNone, Contents
    <3> HIDE DEF row
    <3> QED BY <3>1 DEF RiScDocuments
  <2>5. orderly => history.orderly /\ row.content = content
    BY DEF content
  <2> HIDE DEF row, c, orderly, parted
  <2>6. history'.orderly => orderly
    <3>1. DOMAIN history = {"orderly", "parted", "lost", "covered"}
      BY DEF HistoryShape
    <3>2. history'.orderly = orderly
      BY <2>2, <3>1
    <3> QED BY <3>2, Zenon
  <2>7. ~drawer.step /\ DrawerOK(drawer)
    BY <2>2 DEF AtTable, EditorInv
  <2>8. NewIsNew(drawer, UpdateRiSc(row, c, table.objects, "nothing"))
    BY <2>7 DEF NewIsNew
  <2> QED BY <2>2, <2>3, <2>4, <2>5, <2>6, <2>7, <2>8, SaveShown
<1>4. CASE AddPredefinedScenarios
  <2> DEFINE new == buildPredefinedScenarios(Predefined, clock)
  <2>1. /\ Update(WithNewScenarios(content, new), "nothing", drawer) /\ history' = history
        /\ AtTable /\ Ids(content.scenarios) \cap Ids(Predefined) = {}
    BY <1>4 DEF AddPredefinedScenarios, Rest, hasAnyPredefinedScenario
  <2>2. content # None /\ ~drawer.step /\ clock \in Nat
    BY <2>1 DEF AtTable, EditorInv
  <2>3. new \in Seq(Scenarios) /\ UniqueIds(new) /\ Ids(new) = Ids(Predefined)
    BY <2>2, PredefinedScenarios, PredefinedIds
  <2> HIDE DEF new
  <2>4. UniqueIds(WithNewScenarios(content, new).scenarios)
    <3>1. Ids(new) \cap Ids(content.scenarios) = {}
      BY <2>1, <2>3
    <3> QED BY <2>2, <2>3, <3>1, ContentIsUnique, AddedIds
  <2> QED BY <2>1, <2>2, <2>4, UpdateShown
<1> QED BY <1>1, <1>2, <1>3, <1>4 DEF InTable

\* and in the page keeps ids and table;
LEMMA PageShown ==
    ASSUME EditorInv, EditorInv', HistoryShape, TableInv, InPage PROVE ViewInv'
<1>0. ViewInv
  BY DEF TableInv
<1>1. CASE OpenDialog
  BY <1>0, <1>1, SameView DEF OpenDialog
<1>2. CASE \E appliesTo \in {None, 1} : SubmitDialog(appliesTo)
  <2>1. PICK appliesTo \in {None, 1} : SubmitDialog(appliesTo)
    BY <1>2
  <2> DEFINE c == [dialog EXCEPT !.text = Now, !.appliesTo = appliesTo]
  <2>2. /\ Show(UpdateRiSc(page.selected, c, Now, "nothing"), table, drawer)
        /\ dialog # None /\ Quiet /\ history' = history
    BY <2>1 DEF SubmitDialog, Saves
  <2>3. c.scenarios = dialog.scenarios
    <3>1. dialog \in RiScDocuments
      BY <2>2 DEF EditorInv, DialogOK, OrNone, Contents
    <3> QED BY <3>1 DEF RiScDocuments
  <2>4. UniqueIds(c.scenarios) /\ UniqueSelection(page.selected)
    BY <2>2, <2>3 DEF TableInv, UniqueDialog, ViewInv, UniquePage
  <2>5. ~drawer.step /\ DrawerOK(drawer)
    BY <2>2 DEF EditorInv, DialogOK
  <2> HIDE DEF c
  <2>6. NewIsNew(drawer, UpdateRiSc(page.selected, c, Now, "nothing"))
    BY <2>5 DEF NewIsNew
  <2> QED BY <1>0, <2>2, <2>4, <2>5, <2>6, SaveShown DEF content
<1>3. CASE SaveMigration
  <2>1. Update(content, "nothing", drawer) /\ history' = history /\ AtTable
    BY <1>3 DEF SaveMigration, Rest
  <2>2. ~drawer.step /\ content # None
    BY <2>1 DEF AtTable
  <2> QED BY <1>0, <2>1, <2>2, ContentIsUnique, UpdateShown
<1>4. CASE ApproveRiSc
  <2>0. /\ Quiet /\ content # None /\ ~drawer.step /\ DrawerOK(drawer)
        /\ TableOK(table, page) /\ UniqueTable(table) /\ PageOK(page) /\ UniquePage(page)
    BY <1>0, <1>4 DEF ApproveRiSc, AtTable, EditorInv, ViewInv
  <2>1. CASE files.pr
    <3> DEFINE p == [page EXCEPT !.update = "error"]
    <3>1. Show(p, table, drawer) /\ history' = history
      BY <1>4, <2>1 DEF ApproveRiSc
    <3>2. PageOK(p) /\ p.selected = page.selected
      BY <2>0, PageParts
    <3>3. p.update = "error"
      BY <2>0 DEF PageOK
    <3> HIDE DEF p
    <3>4. UniquePage(p) /\ NewIsNew(drawer, p)
      BY <2>0, <3>2, <3>3 DEF UniquePage, NewIsNew
    <3>5. history.orderly => Agrees(table, p)
      BY <1>0, <2>0, <3>2, <3>3 DEF ViewInv, Agrees, Before, Quiet
    <3> QED BY <2>0, <3>1, <3>2, <3>4, <3>5, ShownInv
  <2>2. CASE ~files.pr
    <3> DEFINE p == [page EXCEPT !.update = "success", !.selected.status = "SentForApproval"]
    <3>1. Show(p, table, drawer)
      BY <1>4, <2>2 DEF ApproveRiSc
    <3>2. PageOK(p) /\ p.selected.content = page.selected.content
      BY <2>0, SentPage
    <3>3. p.update = "success"
      BY <2>0 DEF PageOK
    <3> HIDE DEF p
    <3>4. UniquePage(p) /\ NewIsNew(drawer, p)
      BY <2>0, <3>2, <3>3 DEF UniquePage, UniqueSelection, NewIsNew
    <3> QED BY <2>0, <3>1, <3>2, <3>3, <3>4, ShownInv
  <2> QED BY <2>1, <2>2
<1>5. CASE GetDifferences
  BY <1>0, <1>5, SameView DEF GetDifferences, Rest
<1> QED BY <1>1, <1>2, <1>3, <1>4, <1>5 DEF InPage

\* so do the answers,
LEMMA AnswerShown ==
    ASSUME EditorInv, EditorInv', HistoryShape, ViewInv, Answers PROVE ViewInv'
<1>0. /\ TableOK(table, page) /\ UniqueTable(table) /\ PageOK(page) /\ UniquePage(page)
      /\ DrawerOK(drawer) /\ NewIsNew(drawer, page)
  BY DEF EditorInv, ViewInv
<1>1. CASE Serve \/ Fail
  <2> DEFINE answer == IF Serve THEN "ok" ELSE "error"
  <2>1. PICK a : page' = [page EXCEPT !.request.answer = a]
    BY <1>1 DEF Serve, Fail
  <2>2. table' = table /\ drawer' = drawer /\ ~Quiet
    BY <1>1 DEF Serve, Fail
  <2>3. history'.orderly => history.orderly
    BY <1>1 DEF Serve, Fail, HistoryShape
  <2>4. /\ page'.selected = page.selected /\ page'.update = page.update
        /\ page'.request = [page.request EXCEPT !.answer = a]
    BY <1>0, <2>1 DEF PageOK
  <2>5. RequestOK(page.request, page.selected)
    BY <1>0, <2>2 DEF PageOK, Quiet
  <2>6. page'.request.old = page.request.old /\ page'.request.after = page.request.after
    BY <2>4, <2>5 DEF RequestOK
  <2>7. UniquePage(page') /\ NewIsNew(drawer, page')
    BY <1>0, <2>4, <2>6 DEF UniquePage, NewIsNew
  <2>8. Agrees(table, page) => Agrees(table, page')
    BY <2>4, <2>6 DEF Agrees, Before
  <2> QED BY <1>0, <2>2, <2>3, <2>7, <2>8 DEF ViewInv
<1>2. CASE OnSaved
  <2> DEFINE p == [selected |-> page.request.new, update |-> "success", request |-> None]
             d == After(drawer, page.request)
  <2>1. ~Quiet /\ Show(p, table, d) /\ history' = history
    BY <1>2 DEF OnSaved, Rest
  <2>2. page' = p
    BY <2>1 DEF Show
  <2>3. p.selected = page.request.new /\ p.update = "success"
    OBVIOUS
  <2>4. RequestOK(page.request, page.selected)
    BY <1>0, <2>1 DEF PageOK, Quiet
  <2>5. page.request.new = page.selected
    BY <2>4 DEF RequestOK
  <2> HIDE DEF p
  <2>6. PageOK(p)
    BY <2>2 DEF EditorInv
  <2>7. UniquePage(p)
    BY <1>0, <2>3, <2>5 DEF UniquePage
  <2>8. DrawerOK(d)
    BY <1>0, AfterAnswer
  <2>9. d.step => drawer.step /\ d.url = drawer.url /\ page.request.after # "closeScenarioForm"
    <3>1. CASE page.request.after = "closeScenarioForm"
      <4>1. d.step = FALSE
        BY <1>0, <3>1, DrawerShape DEF After, Closed
      <4> QED BY <4>1
    <3>2. CASE page.request.after # "closeScenarioForm"
      BY <1>0, <3>2, DrawerShape DEF After
    <3> QED BY <3>1, <3>2
  <2> HIDE DEF d
  <2>10. NewIsNew(d, p)
    BY <1>0, <2>1, <2>3, <2>5, <2>9 DEF NewIsNew, Quiet
  <2> QED BY <1>0, <2>1, <2>3, <2>6, <2>7, <2>8, <2>10, ShownInv
<1>3. CASE OnError
  <2> DEFINE p == [selected |-> page.request.old, update |-> "error", request |-> None]
             parted == history.parted \/ ~history.orderly
  <2>1. ~Quiet /\ Show(p, table, drawer) /\ history' = [history EXCEPT !.parted = parted]
    BY <1>3 DEF OnError
  <2>2. page' = p
    BY <2>1 DEF Show
  <2>3. p.selected = page.request.old /\ p.update = "error"
    OBVIOUS
  <2> HIDE DEF p, parted
  <2>4. PageOK(p)
    BY <2>2 DEF EditorInv
  <2>5. UniquePage(p)
    BY <1>0, <2>1, <2>3 DEF UniquePage, Quiet
  <2>6. NewIsNew(drawer, p)
    BY <1>0, <2>1, <2>3 DEF NewIsNew, Quiet
  <2>7. history'.orderly = history.orderly
    BY <2>1 DEF HistoryShape
  <2>8. history.orderly => Agrees(table, p)
    BY <2>1, <2>3 DEF ViewInv, Agrees, Before, Quiet
  <2>9. history'.orderly => Agrees(table, p)
    BY <2>7, <2>8, Zenon
  <2> QED BY <1>0, <2>1, <2>4, <2>5, <2>6, <2>9, ShownInv
<1>4. CASE OnDifference \/ OnDifferenceError
  BY <1>4, SameView DEF OnDifference, OnDifferenceError, Rest
<1> QED BY <1>1, <1>2, <1>3, <1>4 DEF Answers

\* and what is fetched.
LEMMA FetchShown ==
    ASSUME EditorInv, EditorInv', TableInv, FetchRiScs PROVE ViewInv'
<1>0. /\ TableOK(table, page) /\ UniqueTable(table) /\ PageOK(page) /\ FilesOK
      /\ DrawerOK(drawer) /\ Follows(drawer, page)
  BY DEF EditorInv, TableInv, ViewInv
<1> DEFINE p == [page EXCEPT !.selected = Selected(files)]
<1>1. /\ page.selected.content = None /\ ~Fetched(files).failed /\ history' = history
      /\ Show(p, table, drawer)
  BY DEF FetchRiScs
<1>2. p.selected = Selected(files) /\ p.update = page.update /\ page' = p
  BY <1>0, <1>1 DEF PageOK, Show
<1> HIDE DEF p
<1>3. ~table.mounted /\ ~drawer.step /\ page.update # "loading"
  BY <1>0, <1>1 DEF TableOK, Follows, PageOK, RequestOK
<1>4. p.selected.content = Fetched(files).doc
  BY <1>2 DEF Selected, dtoToRiSc
<1>5. UniqueIds(Fetched(files).doc.scenarios)
  <2>1. SameIds(ToShow(files), Fetched(files).doc)
    BY <1>0, <1>1, FetchedKeepsIds DEF FilesOK, Docs
  <2>2. ToShow(files) \in Docs
    BY <1>0 DEF FilesOK, ToShow, Docs
  <2> QED BY <2>1, <2>2, SameIdsUnique DEF TableInv, UniqueFiles
<1>6. UniquePage(p)
  BY <1>2, <1>3, <1>4, <1>5 DEF UniquePage, UniqueSelection
<1>7. PageOK(p)
  BY <1>2 DEF EditorInv
<1> QED BY <1>0, <1>1, <1>3, <1>6, <1>7, ShownInv DEF NewIsNew, Agrees

\* Only an answer of the service and an approval change what is stored.
LEMMA FilesUntouched ==
    ASSUME [Next]_vars PROVE UNCHANGED files \/ Serve \/ ApproveRiSc
<1>1. CASE InDrawer
  BY <1>1 DEF InDrawer, OpenScenarioDrawer, Edit, TypeText, AddAction, OnCancel, CloseDrawer,
              TypeAction, RemoveAction, SubmitEditedScenario, Type, Rest
<1>2. CASE InWizard
  BY <1>2 DEF InWizard, OpenNewScenarioWizard, CloseWizard, SubmitNewScenario, Rest
<1>3. CASE InTable
  BY <1>3 DEF InTable, MoveRowLocal, DeleteScenario, DropRow, AddPredefinedScenarios, Rest
<1>4. CASE InPage
  BY <1>4 DEF InPage, OpenDialog, SubmitDialog, SaveMigration, GetDifferences, Rest
<1>5. CASE Answers
  BY <1>5 DEF Answers, Fail, OnSaved, OnError, OnDifference, OnDifferenceError, Rest
<1>6. CASE FetchRiScs \/ UNCHANGED vars
  BY <1>6 DEF FetchRiScs, vars
<1> QED BY <1>1, <1>2, <1>3, <1>4, <1>5, <1>6 DEF Next

\* A dialog is filled with what the page shows.
LEMMA DialogUntouched ==
    ASSUME [Next]_vars
    PROVE  dialog' = dialog \/ dialog' = None \/ (dialog' = content /\ content # None)
<1>1. CASE InDrawer
  BY <1>1 DEF InDrawer, OpenScenarioDrawer, Edit, TypeText, AddAction, OnCancel, CloseDrawer,
              TypeAction, RemoveAction, SubmitEditedScenario, Type, Rest
<1>2. CASE InWizard
  BY <1>2 DEF InWizard, OpenNewScenarioWizard, CloseWizard, SubmitNewScenario, Rest
<1>3. CASE InTable
  BY <1>3 DEF InTable, MoveRowLocal, DeleteScenario, DropRow, AddPredefinedScenarios, Rest
<1>4. CASE InPage
  BY <1>4 DEF InPage, OpenDialog, SubmitDialog, SaveMigration, ApproveRiSc, GetDifferences,
              Rest, AtTable
<1>5. CASE Answers
  BY <1>5 DEF Answers, Serve, Fail, OnSaved, OnError, OnDifference, OnDifferenceError, Rest
<1>6. CASE FetchRiScs \/ UNCHANGED vars
  BY <1>6 DEF FetchRiScs, vars
<1> QED BY <1>1, <1>2, <1>3, <1>4, <1>5, <1>6 DEF Next

\* What is stored, and what the dialog is filled with, comes from the page.
LEMMA FilesAreUnique ==
    ASSUME EditorInv, TableInv, [Next]_vars PROVE UniqueFiles' /\ UniqueDialog'
<1>0. UniqueFiles /\ UniqueDialog /\ ViewInv
  BY DEF TableInv
<1>1. UniqueFiles'
  <2>1. CASE UNCHANGED files \/ (files'.published = files.published /\ files'.draft = files.draft)
    BY <1>0, <2>1 DEF UniqueFiles, Docs
  <2>2. CASE Serve
    <3>1. CASE ~Valid(page.request.body)
      BY <1>0, <2>2, <3>1 DEF Serve, UniqueFiles, Docs
    <3>2. CASE Valid(page.request.body)
      <4>1. files' = Stored(files, page.request) /\ ~Quiet
        BY <2>2, <3>2 DEF Serve
      <4>2. files'.draft = page.request.body /\ files'.published = files.published
        BY <4>1 DEF Stored, EditorInv, FilesOK
      <4>3. page.request.body = riScToDTO(content) /\ content # None
        BY <4>1 DEF EditorInv, PageOK, RequestOK, Quiet, content
      <4>4. UniqueIds(page.request.body.scenarios)
        BY <1>0, <4>3, ContentIsUnique, DTOKeepsIds, SameIdsUnique
      <4> QED BY <1>0, <4>2, <4>4 DEF UniqueFiles, Docs
    <3> QED BY <3>1, <3>2
  <2>3. CASE ApproveRiSc
    <3> DEFINE pr == files.draft # None
    <3>1. files' = files \/ files' = [files EXCEPT !.pr = pr]
      BY <2>3 DEF ApproveRiSc
    <3> HIDE DEF pr
    <3>2. files'.published = files.published /\ files'.draft = files.draft
      BY <3>1 DEF EditorInv, FilesOK
    <3> QED BY <2>1, <3>2
  <2>4. UNCHANGED files \/ Serve \/ ApproveRiSc
    BY FilesUntouched
  <2> QED BY <2>1, <2>2, <2>3, <2>4
<1>2. UniqueDialog'
  <2>1. dialog' = dialog \/ dialog' = None \/ (dialog' = content /\ content # None)
    BY DialogUntouched
  <2> QED BY <1>0, <2>1, ContentIsUnique DEF UniqueDialog
<1> QED BY <1>1, <1>2

\* Every step keeps it.
LEMMA TableInvStep ==
    EditorInv /\ EditorInv' /\ HistoryShape /\ TableInv /\ [Next]_vars => TableInv'
<1> SUFFICES ASSUME EditorInv, EditorInv', HistoryShape, TableInv, [Next]_vars
             PROVE  TableInv'
  OBVIOUS
<1>1. UniqueFiles' /\ UniqueDialog'
  BY FilesAreUnique
<1>2. ViewInv'
  <2>0. ViewInv
    BY DEF TableInv
  <2>1. CASE FetchRiScs
    BY <2>1, FetchShown
  <2>2. CASE InDrawer \/ InWizard \/ InTable \/ InPage
    BY <2>0, <2>2, DrawerShown, WizardShown, RowsShown, PageShown
  <2>3. CASE Answers
    BY <2>0, <2>3, AnswerShown
  <2>4. CASE UNCHANGED vars
    BY <2>0, <2>4, SameView DEF vars
  <2> QED BY <2>1, <2>2, <2>3, <2>4 DEF Next
<1> QED BY <1>1, <1>2 DEF TableInv

\* At first there is no table.
LEMMA TableInvInit == Init => TableInv
<1> SUFFICES ASSUME Init PROVE TableInv
  OBVIOUS
<1>1. UniqueFiles
  <2>1. PICK f \in Files : files = [published |-> f.published, draft |-> f.draft, pr |-> f.pr,
                                    sops |-> f.sops]
    BY DEF Init
  <2>2. Docs = {f.published, f.draft} \ {None}
    BY <2>1 DEF Docs
  <2> QED BY <2>2, EditorAssumption DEF UniqueFiles
<1>2. page.selected.content = None /\ page.update = "idle"
  BY DEF Init, NotSelected
<1>3. table.scenarios = <<>> /\ table.rows = <<>> /\ ~table.mounted /\ ~drawer.step
      /\ dialog = None
  BY DEF Init, Unmounted, Closed
<1> QED BY <1>1, <1>2, <1>3
       DEF TableInv, ViewInv, UniqueDialog, UniquePage, UniqueSelection, UniqueTable, UniqueIds,
           NewIsNew, Agrees

\* ScenarioTable.tsx:41: whatever is added, deleted, dragged, saved and taken
\* back: without a save under way the table has the scenarios of the page, unless
\* it was mounted during a save that then failed.
THEOREM TablesShowScenarios == Spec => []TableShowsScenarios
<1>1. TableInv => TableShowsScenarios
  <2> SUFFICES ASSUME ViewInv, table.mounted, Quiet, history.orderly,
                      table.early => page.update = "success"
               PROVE  Range(table.scenarios) = Range(content.scenarios)
    BY DEF TableInv, TableShowsScenarios
  <2> QED BY DEF ViewInv, Agrees, Before, Quiet, content
<1>2. StoredInv => HistoryShape
  BY DEF StoredInv
<1>3. EditorInv /\ StoredInv /\ TableInv /\ [Next]_vars => (EditorInv /\ StoredInv /\ TableInv)'
  BY <1>2, EditorInvStep, StoredInvStep, TableInvStep
<1> QED BY <1>1, <1>3, EditorInvInit, StoredInvInit, TableInvInit, PTL DEF Spec


-----------------------------------------------------------------------------
(* What an approval covers.                                                *)

\* What an approval covers of an action that is sent: all but its dates.
CoveredAction(a) ==
    [id |-> a.id, text |-> a.text, status |-> a.status, owner |-> None, deadline |-> None,
     lastUpdated |-> None, lastUpdatedBy |-> None, comment |-> a.comment]

\* What it covers of a scenario that is sent.
CoveredScenario(s) ==
    [id |-> s.id, text |-> s.text, threatActors |-> s.threatActors,
     vulnerabilities |-> s.vulnerabilities, risk |-> s.risk, remainingRisk |-> s.remainingRisk,
     actions |-> [i \in DOMAIN s.actions |-> CoveredAction(s.actions[i])],
     existingActions |-> None]

\* An action without the dates of its last update.
LEMMA UndatedActions ==
    ASSUME NEW b \in Actions
    PROVE  [b EXCEPT !.lastUpdated = None, !.lastUpdatedBy = None]
               = [id |-> b.id, text |-> b.text, status |-> b.status, owner |-> b.owner,
                  deadline |-> b.deadline, lastUpdated |-> None, lastUpdatedBy |-> None,
                  comment |-> b.comment]
<1> DEFINE x == [b EXCEPT !.lastUpdated = None]
           y == [x EXCEPT !.lastUpdatedBy = None]
<1>1. [b EXCEPT !.lastUpdated = None, !.lastUpdatedBy = None] = y
  OBVIOUS
<1>2. x = [id |-> b.id, text |-> b.text, status |-> b.status, owner |-> b.owner,
           deadline |-> b.deadline, lastUpdated |-> None, lastUpdatedBy |-> b.lastUpdatedBy,
           comment |-> b.comment]
  BY DEF Actions
<1> HIDE DEF x
<1>3. y = [id |-> b.id, text |-> b.text, status |-> b.status, owner |-> b.owner,
           deadline |-> b.deadline, lastUpdated |-> None, lastUpdatedBy |-> None,
           comment |-> b.comment]
  BY <1>2
<1> QED BY <1>1, <1>3

\* Of an action that is sent, that is what is covered: what is sent has neither
\* owner nor deadline.
LEMMA SentActionIsCovered ==
    ASSUME NEW a \in Actions
    PROVE  [actionToDTO(a) EXCEPT !.lastUpdated = None, !.lastUpdatedBy = None]
               = CoveredAction(a)
<1> DEFINE b == actionToDTO(a)
<1>1. b \in Actions
  BY DTOAction
<1>2. /\ b.id = a.id /\ b.text = a.text /\ b.status = a.status /\ b.owner = None
      /\ b.deadline = None /\ b.comment = a.comment
  BY SentAction
<1> HIDE DEF b
<1>3. [b EXCEPT !.lastUpdated = None, !.lastUpdatedBy = None] = CoveredAction(a)
  BY <1>1, <1>2, UndatedActions DEF CoveredAction
<1> QED BY <1>3 DEF b

\* A scenario whose actions are without the dates of their last updates.
LEMMA WithoutDatesHas ==
    ASSUME NEW t \in Scenarios
    PROVE  WithoutDates(t) =
               [id |-> t.id, text |-> t.text, threatActors |-> t.threatActors,
                vulnerabilities |-> t.vulnerabilities, risk |-> t.risk,
                remainingRisk |-> t.remainingRisk,
                actions |-> [i \in DOMAIN t.actions |->
                                [t.actions[i] EXCEPT !.lastUpdated = None, !.lastUpdatedBy = None]],
                existingActions |-> t.existingActions]
<1> DEFINE actions == [i \in DOMAIN t.actions |->
                          [t.actions[i] EXCEPT !.lastUpdated = None, !.lastUpdatedBy = None]]
<1>1. WithoutDates(t) = [t EXCEPT !.actions = actions]
  BY DEF WithoutDates
<1> HIDE DEF actions
<1>2. [t EXCEPT !.actions = actions] =
        [id |-> t.id, text |-> t.text, threatActors |-> t.threatActors,
         vulnerabilities |-> t.vulnerabilities, risk |-> t.risk,
         remainingRisk |-> t.remainingRisk, actions |-> actions,
         existingActions |-> t.existingActions]
  BY DEF Scenarios
<1> QED BY <1>1, <1>2 DEF actions

\* Of a scenario that is sent, that is what is covered.
LEMMA SentScenarioIsCovered ==
    ASSUME NEW s \in Scenarios PROVE WithoutDates(scenarioToDTO(s)) = CoveredScenario(s)
<1> DEFINE t == scenarioToDTO(s)
           sent == [i \in DOMAIN s.actions |-> actionToDTO(s.actions[i])]
           bare == [i \in DOMAIN t.actions |->
                       [t.actions[i] EXCEPT !.lastUpdated = None, !.lastUpdatedBy = None]]
           covered == [i \in DOMAIN s.actions |-> CoveredAction(s.actions[i])]
<1>1. t \in Scenarios
  BY DTOScenario
<1>2. /\ t.id = s.id /\ t.text = s.text /\ t.threatActors = s.threatActors
      /\ t.vulnerabilities = s.vulnerabilities /\ t.risk = s.risk
      /\ t.remainingRisk = s.remainingRisk /\ t.existingActions = None
      /\ t.actions = sent
  BY SentScenario
<1> HIDE DEF t
<1>3. \A i \in DOMAIN s.actions : s.actions[i] \in Actions
  BY ScenarioParts
<1>4. bare = covered
  <2>1. DOMAIN t.actions = DOMAIN s.actions
    BY <1>2
  <2>2. \A i \in DOMAIN s.actions : t.actions[i] = actionToDTO(s.actions[i])
    BY <1>2
  <2>3. \A i \in DOMAIN s.actions : bare[i] = covered[i]
    BY <1>3, <2>1, <2>2, SentActionIsCovered
  <2> QED BY <2>1, <2>3
<1>5. WithoutDates(t) = CoveredScenario(s)
  <2>1. WithoutDates(t) =
          [id |-> t.id, text |-> t.text, threatActors |-> t.threatActors,
           vulnerabilities |-> t.vulnerabilities, risk |-> t.risk,
           remainingRisk |-> t.remainingRisk, actions |-> bare,
           existingActions |-> t.existingActions]
    BY <1>1, WithoutDatesHas
  <2> HIDE DEF bare
  <2>2. CoveredScenario(s) =
          [id |-> s.id, text |-> s.text, threatActors |-> s.threatActors,
           vulnerabilities |-> s.vulnerabilities, risk |-> s.risk,
           remainingRisk |-> s.remainingRisk, actions |-> covered, existingActions |-> None]
    BY DEF CoveredScenario
  <2> HIDE DEF covered
  <2> QED BY <1>2, <1>4, <2>1, <2>2
<1> QED BY <1>5 DEF t

\* What an approval covers of a document that is sent depends on its version and
\* on what scenarios it has, in whatever order.
LEMMA CoveredOfSent ==
    ASSUME NEW c \in RiScDocuments
    PROVE  Covered(riScToDTO(c)) = [version |-> c.schemaVersion,
                                    scenarios |-> {CoveredScenario(s) : s \in Range(c.scenarios)}]
<1> DEFINE d == riScToDTO(c)
           sent == [i \in DOMAIN c.scenarios |-> scenarioToDTO(c.scenarios[i])]
<1>1. d.schemaVersion = c.schemaVersion /\ d.scenarios = sent
  BY SentDocument
<1> HIDE DEF d
<1>2. \A i \in DOMAIN c.scenarios : c.scenarios[i] \in Scenarios
  BY ContentParts
<1>3. \A i \in DOMAIN c.scenarios : WithoutDates(d.scenarios[i]) = CoveredScenario(c.scenarios[i])
  BY <1>1, <1>2, SentScenarioIsCovered
<1>4. DOMAIN d.scenarios = DOMAIN c.scenarios
  BY <1>1
<1>5. {WithoutDates(d.scenarios[i]) : i \in DOMAIN d.scenarios}
        = {CoveredScenario(s) : s \in Range(c.scenarios)}
  <2>1. {CoveredScenario(s) : s \in Range(c.scenarios)}
          = {CoveredScenario(c.scenarios[i]) : i \in DOMAIN c.scenarios}
    BY DEF Range
  <2> QED BY <1>3, <1>4, <2>1
<1> QED BY <1>1, <1>5 DEF Covered, d

\* What is sent of a document is valid if the scenarios sent are, and no metadata
\* is.
LEMMA ValidWhenSent ==
    ASSUME NEW c \in Contents
    PROVE  Valid(riScToDTO(c)) <=>
               /\ c.appliesTo = None
               /\ \A i \in DOMAIN c.scenarios : ValidScenario(scenarioToDTO(c.scenarios[i]), "5.2")
<1> DEFINE d == riScToDTO(c)
           sent == [i \in DOMAIN c.scenarios |-> scenarioToDTO(c.scenarios[i])]
<1>1. /\ d.schemaVersion = "5.2" /\ d.appliesTo = c.appliesTo /\ d.valuations = {}
      /\ d.scenarios = sent
  BY SentDocument DEF Contents, latestSupportedVersion
<1> HIDE DEF d
<1>2. "5.2" \in VersionSet
  BY VersionsAre
<1>3. Valid(d) <=> /\ c.appliesTo = None
                   /\ \A i \in DOMAIN sent : ValidScenario(sent[i], "5.2")
  <2> HIDE DEF sent
  <2> QED BY <1>1, <1>2 DEF Valid
<1> QED BY <1>3 DEF d

\* What is compared of a scenario.
LEMMA UndatedHas ==
    ASSUME NEW s \in Scenarios
    PROVE  Undated(s) =
               [id |-> s.id, text |-> s.text, threatActors |-> s.threatActors,
                vulnerabilities |-> s.vulnerabilities, risk |-> s.risk,
                remainingRisk |-> s.remainingRisk,
                actions |-> [i \in DOMAIN s.actions |-> UndatedAction(s.actions[i])],
                existingActions |-> s.existingActions]
<1> DEFINE actions == [i \in DOMAIN s.actions |-> UndatedAction(s.actions[i])]
<1>1. Undated(s) = [s EXCEPT !.actions = actions]
  BY DEF Undated
<1> HIDE DEF actions
<1>2. [s EXCEPT !.actions = actions] =
        [id |-> s.id, text |-> s.text, threatActors |-> s.threatActors,
         vulnerabilities |-> s.vulnerabilities, risk |-> s.risk,
         remainingRisk |-> s.remainingRisk, actions |-> actions,
         existingActions |-> s.existingActions]
  BY DEF Scenarios
<1> QED BY <1>1, <1>2 DEF actions

\* What is compared of an action.
LEMMA UndatedActionHas ==
    ASSUME NEW a \in Actions
    PROVE  LET u == UndatedAction(a)
           IN  /\ u.id = a.id /\ u.text = a.text /\ u.status = a.status
               /\ u.lastUpdatedBy = a.lastUpdatedBy /\ u.comment = a.comment
               /\ u.lastUpdated = None <=> a.lastUpdated = None
<1> DEFINE date == Undate(a.lastUpdated)
           u == [a EXCEPT !.lastUpdated = date]
<1>1. UndatedAction(a) = u
  BY DEF UndatedAction
<1>2. date = None <=> a.lastUpdated = None
  <2>1. [time |-> 0, kind |-> "Date"] \in Times
    BY DEF Times
  <2>2. [time |-> 0, kind |-> "Date"] # None
    BY <2>1, DocumentAssumption
  <2> QED BY <2>2 DEF Undate
<1> HIDE DEF date
<1>3. /\ u.id = a.id /\ u.text = a.text /\ u.status = a.status
      /\ u.lastUpdatedBy = a.lastUpdatedBy /\ u.comment = a.comment /\ u.lastUpdated = date
  BY DEF Actions
<1> HIDE DEF u
<1> QED BY <1>1, <1>2, <1>3

\* Actions that the page takes for equal are covered alike, and one can be saved
\* if the other can.
LEMMA EqualActions ==
    ASSUME NEW a \in Actions, NEW b \in Actions, UndatedAction(a) = UndatedAction(b)
    PROVE  /\ CoveredAction(a) = CoveredAction(b)
           /\ ValidAction(actionToDTO(a), "5.2") => ValidAction(actionToDTO(b), "5.2")
<1>1. /\ a.id = b.id /\ a.text = b.text /\ a.status = b.status
      /\ a.lastUpdatedBy = b.lastUpdatedBy /\ a.comment = b.comment
      /\ a.lastUpdated = None <=> b.lastUpdated = None
  BY UndatedActionHas
<1>2. CoveredAction(a) = CoveredAction(b)
  BY <1>1 DEF CoveredAction
<1>3. \A x \in Actions : x.lastUpdated # None => DateToJson(x.lastUpdated) # None
                                                 /\ DateToJson(x.lastUpdated).kind = "string"
  <2> SUFFICES ASSUME NEW x \in Actions, x.lastUpdated # None
               PROVE  DateToJson(x.lastUpdated) # None /\ DateToJson(x.lastUpdated).kind = "string"
    OBVIOUS
  <2>1. x.lastUpdated \in Times
    BY DEF Actions
  <2>2. DateToJson(x.lastUpdated) = [time |-> x.lastUpdated.time, kind |-> "string"]
    BY <2>1 DEF DateToJson, Times
  <2>3. [time |-> x.lastUpdated.time, kind |-> "string"] \in Times
    BY <2>1 DEF Times
  <2> DEFINE t == [time |-> x.lastUpdated.time, kind |-> "string"]
  <2>4. t # None /\ t.kind = "string"
    BY <2>3, DocumentAssumption
  <2> QED BY <2>2, <2>4
<1>4. DateToJson(None) = None
  BY DEF DateToJson
<1>5. ASSUME ValidAction(actionToDTO(a), "5.2") PROVE ValidAction(actionToDTO(b), "5.2")
  <2> DEFINE x == actionToDTO(a)
             y == actionToDTO(b)
  <2>1. /\ y.status = x.status /\ y.owner = x.owner /\ y.deadline = x.deadline
        /\ y.lastUpdatedBy = x.lastUpdatedBy /\ y.comment = x.comment
    BY <1>1, SentAction
  <2>2. y.lastUpdated # None => x.lastUpdated # None /\ y.lastUpdated.kind = "string"
    <3>1. x.lastUpdated = DateToJson(a.lastUpdated) /\ y.lastUpdated = DateToJson(b.lastUpdated)
      BY SentAction
    <3> QED BY <1>1, <1>3, <1>4, <3>1
  <2>3. ValidAction(x, "5.2")
    BY <1>5
  <2> HIDE DEF x, y
  <2>4. ValidAction(y, "5.2")
    BY <2>1, <2>2, <2>3 DEF ValidAction
  <2> QED BY <2>4 DEF y
<1> QED BY <1>2, <1>5

\* So are scenarios,
LEMMA EqualScenarios ==
    ASSUME NEW s \in Scenarios, NEW t \in Scenarios, Undated(s) = Undated(t)
    PROVE  /\ CoveredScenario(s) = CoveredScenario(t)
           /\ ValidScenario(scenarioToDTO(s), "5.2") => ValidScenario(scenarioToDTO(t), "5.2")
<1> DEFINE of(x) == [i \in DOMAIN x.actions |-> UndatedAction(x.actions[i])]
           covered(x) == [i \in DOMAIN x.actions |-> CoveredAction(x.actions[i])]
<1>1. /\ s.id = t.id /\ s.text = t.text /\ s.threatActors = t.threatActors
      /\ s.vulnerabilities = t.vulnerabilities /\ s.risk = t.risk
      /\ s.remainingRisk = t.remainingRisk /\ of(s) = of(t)
  BY UndatedHas
<1>2. DOMAIN s.actions = DOMAIN t.actions
  <2>1. DOMAIN of(s) = DOMAIN of(t)
    BY <1>1
  <2> QED BY <2>1
<1>3. \A i \in DOMAIN s.actions : UndatedAction(s.actions[i]) = UndatedAction(t.actions[i])
  <2>1. \A i \in DOMAIN s.actions : of(s)[i] = UndatedAction(s.actions[i])
                                    /\ of(t)[i] = UndatedAction(t.actions[i])
    BY <1>2
  <2> QED BY <1>1, <2>1
<1>4. \A i \in DOMAIN s.actions : s.actions[i] \in Actions /\ t.actions[i] \in Actions
  BY <1>2, ScenarioParts
<1>5. covered(s) = covered(t)
  BY <1>2, <1>3, <1>4, EqualActions
<1>6. CoveredScenario(s) = CoveredScenario(t)
  <2> HIDE DEF covered
  <2>1. \A x : CoveredScenario(x) =
            [id |-> x.id, text |-> x.text, threatActors |-> x.threatActors,
             vulnerabilities |-> x.vulnerabilities, risk |-> x.risk,
             remainingRisk |-> x.remainingRisk, actions |-> covered(x), existingActions |-> None]
    BY DEF CoveredScenario, covered
  <2> QED BY <1>1, <1>5, <2>1
<1>7. ASSUME ValidScenario(scenarioToDTO(s), "5.2") PROVE ValidScenario(scenarioToDTO(t), "5.2")
  <2> DEFINE sent(x) == [i \in DOMAIN x.actions |-> actionToDTO(x.actions[i])]
  <2>1. \A x \in Scenarios : /\ scenarioToDTO(x).vulnerabilities = x.vulnerabilities
                             /\ scenarioToDTO(x).existingActions = None
                             /\ scenarioToDTO(x).actions = sent(x)
    BY SentScenario
  <2>2. \A i \in DOMAIN sent(s) : ValidAction(sent(s)[i], "5.2")
    <3> HIDE DEF sent
    <3> QED BY <1>7, <2>1 DEF ValidScenario
  <2>3. \A i \in DOMAIN s.actions : ValidAction(actionToDTO(s.actions[i]), "5.2")
    BY <2>2
  <2>4. \A i \in DOMAIN t.actions : ValidAction(actionToDTO(t.actions[i]), "5.2")
    BY <1>2, <1>3, <1>4, <2>3, EqualActions
  <2>5. \A i \in DOMAIN sent(t) : ValidAction(sent(t)[i], "5.2")
    BY <2>4
  <2> HIDE DEF sent
  <2>6. s.vulnerabilities \subseteq Vulnerabilities("5.2")
    BY <1>7, <2>1 DEF ValidScenario
  <2> QED BY <1>1, <2>1, <2>5, <2>6 DEF ValidScenario
<1> QED BY <1>6, <1>7

\* and what asks for no new approval.
LEMMA EqualContents ==
    ASSUME NEW b \in Contents, NEW c \in Contents, ~requiresNewApproval(b, c),
           Valid(riScToDTO(c))
    PROVE  Valid(riScToDTO(b)) /\ Covered(riScToDTO(b)) = Covered(riScToDTO(c))
<1>1. /\ DOMAIN b.scenarios = DOMAIN c.scenarios /\ b.appliesTo = c.appliesTo
      /\ \A i \in DOMAIN b.scenarios : Undated(b.scenarios[i]) = Undated(c.scenarios[i])
  BY DEF requiresNewApproval, isDeeplyEqual
<1>2. \A i \in DOMAIN b.scenarios : b.scenarios[i] \in Scenarios /\ c.scenarios[i] \in Scenarios
  BY <1>1, ContentParts DEF Contents
<1>3. Valid(riScToDTO(b))
  <2>1. /\ c.appliesTo = None
        /\ \A i \in DOMAIN c.scenarios : ValidScenario(scenarioToDTO(c.scenarios[i]), "5.2")
    BY ValidWhenSent
  <2>2. ASSUME NEW i \in DOMAIN b.scenarios
        PROVE  ValidScenario(scenarioToDTO(b.scenarios[i]), "5.2")
    <3>1. Undated(c.scenarios[i]) = Undated(b.scenarios[i])
      BY <1>1
    <3> QED BY <1>1, <1>2, <2>1, <3>1, EqualScenarios
  <2> QED BY <1>1, <2>1, <2>2, ValidWhenSent
<1>4. {CoveredScenario(s) : s \in Range(b.scenarios)} = {CoveredScenario(s) : s \in Range(c.scenarios)}
  <2>1. \A i \in DOMAIN b.scenarios : CoveredScenario(b.scenarios[i]) = CoveredScenario(c.scenarios[i])
    BY <1>1, <1>2, EqualScenarios
  <2>2. \A x \in RiScDocuments :
            {CoveredScenario(s) : s \in Range(x.scenarios)}
                = {CoveredScenario(x.scenarios[i]) : i \in DOMAIN x.scenarios}
    BY DEF Range
  <2>3. {CoveredScenario(b.scenarios[i]) : i \in DOMAIN b.scenarios}
          = {CoveredScenario(c.scenarios[i]) : i \in DOMAIN c.scenarios}
    BY <1>1, <2>1
  <2>4. b \in RiScDocuments /\ c \in RiScDocuments
    BY DEF Contents
  <2> HIDE DEF CoveredScenario
  <2> QED BY <2>2, <2>3, <2>4
<1> QED BY <1>3, <1>4, CoveredOfSent DEF Contents

\* What is valid in the newest version is sent as it is:
LEMMA ValidActionIsSent ==
    ASSUME NEW a \in Actions, ValidAction(a, "5.2") PROVE actionToDTO(a) = a
<1>1. a.owner = None /\ a.deadline = None
  BY Majors DEF ValidAction
<1>2. DateToJson(a.lastUpdated) = a.lastUpdated
  <2>1. CASE a.lastUpdated = None
    BY <2>1 DEF DateToJson
  <2>2. CASE a.lastUpdated # None
    <3>1. a.lastUpdated \in Times /\ a.lastUpdated.kind = "string"
      BY <2>2 DEF Actions, ValidAction
    <3>2. [a.lastUpdated EXCEPT !.kind = "string"] = a.lastUpdated
      BY <3>1 DEF Times
    <3> QED BY <2>2, <3>2 DEF DateToJson
  <2> QED BY <2>1, <2>2
<1> DEFINE date == DateToJson(a.lastUpdated)
<1>3. actionToDTO(a) = [id |-> a.id, text |-> a.text, status |-> a.status, owner |-> None,
                        deadline |-> None, lastUpdated |-> date,
                        lastUpdatedBy |-> a.lastUpdatedBy, comment |-> a.comment]
  BY SentAction
<1>4. a = [id |-> a.id, text |-> a.text, status |-> a.status, owner |-> a.owner,
           deadline |-> a.deadline, lastUpdated |-> a.lastUpdated,
           lastUpdatedBy |-> a.lastUpdatedBy, comment |-> a.comment]
  BY DEF Actions
<1>5. date = a.lastUpdated
  BY <1>2
<1> HIDE DEF date
<1> QED BY <1>1, <1>3, <1>4, <1>5

\* an action, a scenario,
LEMMA ValidScenarioIsSent ==
    ASSUME NEW s \in Scenarios, ValidScenario(s, "5.2") PROVE scenarioToDTO(s) = s
<1> DEFINE sent == [i \in DOMAIN s.actions |-> actionToDTO(s.actions[i])]
<1>1. s.existingActions = None /\ \A i \in DOMAIN s.actions : ValidAction(s.actions[i], "5.2")
  BY Majors DEF ValidScenario
<1>2. s.actions \in Seq(Actions)
  BY ScenarioParts
<1>3. sent = s.actions
  BY <1>1, <1>2, ValidActionIsSent
<1>4. scenarioToDTO(s) =
        [id |-> s.id, text |-> s.text, threatActors |-> s.threatActors,
         vulnerabilities |-> s.vulnerabilities, risk |-> s.risk,
         remainingRisk |-> s.remainingRisk, actions |-> sent, existingActions |-> None]
  BY SentScenario
<1>5. s = [id |-> s.id, text |-> s.text, threatActors |-> s.threatActors,
           vulnerabilities |-> s.vulnerabilities, risk |-> s.risk,
           remainingRisk |-> s.remainingRisk, actions |-> s.actions,
           existingActions |-> s.existingActions]
  BY DEF Scenarios
<1> HIDE DEF sent
<1> QED BY <1>1, <1>3, <1>4, <1>5

\* and a document.
LEMMA ValidIsSent ==
    ASSUME NEW d \in Contents, Valid(d) PROVE riScToDTO(d) = d
<1> DEFINE sent == [i \in DOMAIN d.scenarios |-> scenarioToDTO(d.scenarios[i])]
<1>1. d \in RiScDocuments /\ d.schemaVersion = "5.2"
  BY DEF Contents, latestSupportedVersion
<1>2. /\ d.valuations = {}
      /\ \A i \in DOMAIN d.scenarios : ValidScenario(d.scenarios[i], "5.2")
  BY <1>1, Indices DEF Valid, Since
<1>3. d.scenarios \in Seq(Scenarios)
  BY <1>1, ContentParts
<1>4. sent = d.scenarios
  BY <1>2, <1>3, ValidScenarioIsSent
<1>5. riScToDTO(d) =
        [schemaVersion |-> d.schemaVersion, text |-> d.text, appliesTo |-> d.appliesTo,
         valuations |-> {}, scenarios |-> sent]
  BY <1>1, SentDocument
<1>6. d = [schemaVersion |-> d.schemaVersion, text |-> d.text, appliesTo |-> d.appliesTo,
           valuations |-> d.valuations, scenarios |-> d.scenarios]
  BY <1>1 DEF RiScDocuments
<1> HIDE DEF sent
<1> QED BY <1>2, <1>4, <1>5, <1>6

-----------------------------------------------------------------------------
(* What a migration asks for.                                              *)

\* A status says whether an approval is required.
Says(status) == "migrationRequiresNewApproval" \in DOMAIN status

\* Every step of a migration keeps that, and the step to 5.2 requires one.
LEMMA StepSays ==
    ASSUME NEW doc, NEW lastPublished, NEW status, Says(status)
    PROVE  LET result == executeMigration(doc, lastPublished, status)
           IN  /\ Says(result.status)
               /\ doc.schemaVersion = "5.1" => result.status.migrationRequiresNewApproval
<1>2. Says(Approved(status))
  BY DEF Says, Approved
<1>3. Says(Failed(status).status) /\ Says(migrateFrom32To33(doc, status).status)
  BY DEF Failed, migrateFrom32To33, Migrated
<1>4. Says(migrateFrom33To40(doc, status).status)
  <2> DEFINE changes == OrNull(Changed(doc.scenarios, Change40, HasChange40))
  <2>1. migrateFrom33To40(doc, status).status
          = [Approved(status) EXCEPT !.migrationChanges40 = changes]
    BY DEF migrateFrom33To40, Migrated
  <2> HIDE DEF changes
  <2> QED BY <1>2, <2>1 DEF Says
<1>5. Says(migrateFrom40To41(doc, status).status)
  <2> DEFINE changes == OrNull(Changed(doc.scenarios, Change41, HasChange41))
  <2>1. \/ migrateFrom40To41(doc, status).status
             = [Approved(status) EXCEPT !.migrationChanges41 = changes]
        \/ migrateFrom40To41(doc, status).status = status
    BY DEF migrateFrom40To41, Migrated, Failed
  <2> HIDE DEF changes
  <2> QED BY <1>2, <2>1 DEF Says
<1>6. Says(migrateFrom41To42(doc, lastPublished, status).status)
  <2> DEFINE changes == OrNull(Changed(doc.scenarios, LAMBDA s : Change42(s, lastPublished),
                                       HasActions))
  <2>1. migrateFrom41To42(doc, lastPublished, status).status
          = [status EXCEPT !.migrationChanges42 = changes]
    BY DEF migrateFrom41To42, Migrated
  <2> HIDE DEF changes
  <2> QED BY <2>1 DEF Says
<1>7. Says(migrateFrom42To50(doc, status).status)
  <2> DEFINE changes == OrNull(Changed(doc.scenarios, Change50, HasActions))
  <2>1. migrateFrom42To50(doc, status).status
          = [Approved(status) EXCEPT !.migrationChanges50 = changes]
    BY DEF migrateFrom42To50, Migrated
  <2> HIDE DEF changes
  <2> QED BY <1>2, <2>1 DEF Says
<1>8. Says(migrateFrom50To51(doc, status).status)
  <2> DEFINE changes == OrNull(Changed(doc.scenarios, Change51, HasActions))
  <2>1. migrateFrom50To51(doc, status).status
          = [Approved(status) EXCEPT !.migrationChanges51 = changes]
    BY DEF migrateFrom50To51, Migrated
  <2> HIDE DEF changes
  <2> QED BY <1>2, <2>1 DEF Says
<1>9. /\ Says(migrateFrom51To52(doc, status).status)
      /\ migrateFrom51To52(doc, status).status.migrationRequiresNewApproval
  <2> DEFINE changes == status.migrationChanges \/ doc.valuations # {}
             number == Cardinality(doc.valuations)
             x == [status EXCEPT !.migrationChanges = changes]
             y == [x EXCEPT !.migrationRequiresNewApproval = TRUE]
             z == [y EXCEPT !.migrationChanges52 = number]
  <2>1. migrateFrom51To52(doc, status).status = z
    BY DEF migrateFrom51To52, Migrated
  <2> HIDE DEF changes, number
  <2>2. Says(x)
    BY DEF Says
  <2> HIDE DEF x
  <2>3. Says(y) /\ y.migrationRequiresNewApproval = TRUE
    BY <2>2 DEF Says
  <2> HIDE DEF y
  <2>4. Says(z) /\ z.migrationRequiresNewApproval = TRUE
    BY <2>3 DEF Says
  <2> QED BY <2>1, <2>4
<1> DEFINE result == executeMigration(doc, lastPublished, status)
<1>10. doc.schemaVersion = "5.1" => result = migrateFrom51To52(doc, status)
  BY DEF executeMigration
<1>11. Says(result.status)
  BY <1>3, <1>4, <1>5, <1>6, <1>7, <1>8, <1>9 DEF executeMigration
<1> QED BY <1>9, <1>10, <1>11

\* As long as a migration has not failed, a document that has come to the newest
\* version asks for an approval.
Asks(last) ==
    /\ Says(last.status)
    /\ ~last.failed =>
           /\ Fit(last.doc) /\ last.doc.schemaVersion \in VersionSet
           /\ last.doc.schemaVersion = "5.2" => last.status.migrationRequiresNewApproval

\* The next round does so too,
LEMMA RoundAsks ==
    ASSUME NEW last, NEW lastPublished \in OrNone(Times), Asks(last)
    PROVE  Asks(Advance(last, lastPublished, "5.2"))
<1>1. CASE last.failed \/ last.doc.schemaVersion = "5.2"
  BY <1>1 DEF Advance
<1>2. CASE ~last.failed /\ last.doc.schemaVersion # "5.2"
  <2> DEFINE new == executeMigration(last.doc, lastPublished, last.status)
  <2>1. Advance(last, lastPublished, "5.2") = new
    BY <1>2 DEF Advance
  <2>2. Fit(last.doc) /\ last.doc.schemaVersion \in VersionSet /\ Says(last.status)
    BY <1>2 DEF Asks
  <2>3. ~new.failed => /\ Fit(new.doc) /\ new.doc.schemaVersion \in VersionSet
                       /\ IndexOf(new.doc.schemaVersion) = IndexOf(last.doc.schemaVersion) + 1
    BY <2>2, MigrationStep
  <2>4. Says(new.status)
        /\ (last.doc.schemaVersion = "5.1" => new.status.migrationRequiresNewApproval)
    BY <2>2, StepSays
  <2> HIDE DEF new
  <2>5. ~new.failed /\ new.doc.schemaVersion = "5.2" => last.doc.schemaVersion = "5.1"
    BY <2>2, <2>3, VersionsAre, Indices
  <2> QED BY <2>1, <2>3, <2>4, <2>5 DEF Asks
<1> QED BY <1>1, <1>2

\* and what was migrated to the newest version.
LEMMA MigratedAsks ==
    ASSUME NEW doc, Fit(doc), doc.schemaVersion \in VersionSet, doc.schemaVersion # "5.2",
           NEW status, Says(status), NEW lastPublished \in OrNone(Times)
    PROVE  Asks(handleMigrate(doc, lastPublished, status, "5.2"))
<1>1. PICK after : /\ Rounds(doc, lastPublished, status, "5.2", after)
                   /\ handleMigrate(doc, lastPublished, status, "5.2") = after[8]
  BY MigratesInRounds
<1>2. after[0] = Migrated(doc, status)
  BY <1>1, VersionsAre DEF Rounds
<1>3. Asks(after[0])
  BY <1>2 DEF Asks, Migrated
<1>4. ASSUME NEW n \in 0..7, Asks(after[n]) PROVE Asks(after[n + 1])
  <2>1. after[n + 1] = Advance(after[n], lastPublished, "5.2")
    <3>1. n + 1 \in 0..8 /\ n + 1 # 0 /\ (n + 1) - 1 = n
      OBVIOUS
    <3> QED BY <1>1, <3>1, VersionsAre DEF Rounds
  <2> QED BY <1>4, <2>1, RoundAsks
<1>5. Asks(after[8])
  <2>1. Asks(after[1])
    BY <1>3, <1>4
  <2>2. Asks(after[2])
    BY <1>4, <2>1
  <2>3. Asks(after[3])
    BY <1>4, <2>2
  <2>4. Asks(after[4])
    BY <1>4, <2>3
  <2>5. Asks(after[5])
    BY <1>4, <2>4
  <2>6. Asks(after[6])
    BY <1>4, <2>5
  <2>7. Asks(after[7])
    BY <1>4, <2>6
  <2> QED BY <1>4, <2>7
<1> QED BY <1>1, <1>5

\* What is stored in the newest version.
Newest(f) == ToShow(f).schemaVersion = latestSupportedVersion

\* What is fetched is of the newest version, or asks for an approval.
LEMMA FetchedAsks ==
    ASSUME NEW f, {f.published, f.draft} \ {None} \subseteq RiScDocuments, ToShow(f) # None,
           ~Fetched(f).failed
    PROVE  Fetched(f).status.migrationRequiresNewApproval \/ Newest(f)
<1> DEFINE doc == ToShow(f)
           last == LastPublished(f)
           status == [NoChanges EXCEPT !.fromVersion = doc.schemaVersion,
                                       !.toVersion = latestSupportedVersion]
           result == handleMigrate(doc, last, status, latestSupportedVersion)
<1>1. doc \in RiScDocuments
  BY DEF ToShow
<1>2. Valid(doc) /\ Fetched(f) = migrate(doc, last, latestSupportedVersion)
  BY DEF Fetched, Failed
<1>3. Fetched(f) = result /\ ~result.failed
  <2> HIDE DEF result, doc, last
  <2>1. migrate(doc, last, latestSupportedVersion).failed = FALSE
    BY <1>2
  <2> USE DEF result
  <2> QED BY <1>2, <2>1 DEF migrate, Failed
<1>4. last \in OrNone(Times)
  BY DEF LastPublished, OrNone, Times
<1>5. Fit(doc) /\ doc.schemaVersion \in VersionSet
  BY <1>1, <1>2, ValidFits
<1>6. Says(status)
  BY DEF Says, NoChanges
<1>7. Fetched(f).doc.schemaVersion = "5.2"
  BY FetchedIsDocument DEF latestSupportedVersion
<1> HIDE DEF doc, last, status, result
<1>8. CASE doc.schemaVersion # "5.2"
  <2>1. Asks(result)
    BY <1>4, <1>5, <1>6, <1>8, MigratedAsks DEF result, latestSupportedVersion
  <2> QED BY <1>3, <1>7, <2>1 DEF Asks
<1>9. CASE doc.schemaVersion = "5.2"
  BY <1>9 DEF Newest, latestSupportedVersion, doc
<1> QED BY <1>8, <1>9

-----------------------------------------------------------------------------
(* The invariant of an open pull request.                                  *)

\* A selection shows what would be fetched, if that can be saved, and asks for an
\* approval if what is stored is older.
Shows(f, s) ==
    s.content # None /\ Valid(riScToDTO(s.content)) =>
        /\ ~Fetched(f).failed /\ riScToDTO(s.content) = riScToDTO(Fetched(f).doc)
        /\ s.migrationStatus.migrationRequiresNewApproval \/ Newest(f)

\* A closure asks for an approval if what is stored is older.
Knows(f, row) ==
    Valid(riScToDTO(row.content)) /\ ~row.migrationStatus.migrationRequiresNewApproval => Newest(f)

\* So does every row of a table that was not mounted during a save.
RowsKnow(f, t) ==
    /\ ~t.mounted => DOMAIN t.rows = {}
    /\ ~t.early => \A id \in DOMAIN t.rows : Knows(f, t.rows[id])

\* A request that asks for no approval sends what an open pull request covers.
CoversDraft(f, request) ==
    f.pr /\ ~request.requiresApproval /\ Valid(request.body) =>
        Covered(request.body) = Covered(f.draft)

\* The open pull request is none of the exceptions the property names.
Trusted == ~history.lost /\ ~history.parted

\* An open pull request covers the draft. The page, what a save that failed would
\* bring back and the closures of the rows know if what is stored is older, and a
\* save that asks for no approval sends what is covered.
CoverInv ==
    /\ files.pr => Covered(files.draft) = Covered(history.covered)
    /\ IF Quiet \/ page.request.answer = "ok" THEN Shows(files, page.selected)
       ELSE history.orderly => Shows(files, page.request.old)
    /\ ~Quiet /\ page.request.answer = "none" => CoversDraft(files, page.request)
    /\ Quiet => Agrees(table, page)
    /\ RowsKnow(files, table)

\* A pull request is that of a draft.
HasDraft == files.pr => files.draft # None

\* The strengthened invariant of an open pull request.
ApprovalInv == HasDraft /\ (Trusted => CoverInv)

\* What is known only depends on the two documents.
LEMMA SameKnown ==
    ASSUME files'.published = files.published, files'.draft = files.draft
    PROVE  /\ Newest(files)' <=> Newest(files)
           /\ \A s : Shows(files', s) <=> Shows(files, s)
           /\ \A s : Knows(files', s) <=> Knows(files, s)
           /\ \A t : RowsKnow(files', t) <=> RowsKnow(files, t)
<1>1. Fetched(files') = Fetched(files)
  BY FetchesTheSame
<1>2. ToShow(files') = ToShow(files)
  BY DEF ToShow
<1>3. Newest(files') <=> Newest(files)
  BY <1>2 DEF Newest
<1>4. \A s : Shows(files', s) <=> Shows(files, s)
  BY <1>1, <1>3 DEF Shows
<1>5. \A s : Knows(files', s) <=> Knows(files, s)
  BY <1>3 DEF Knows
<1>6. \A t : RowsKnow(files', t) <=> RowsKnow(files, t)
  BY <1>5 DEF RowsKnow
<1> QED BY <1>3, <1>4, <1>5, <1>6

\* A closure of what is shown knows what is stored.
LEMMA ShownKnows ==
    ASSUME NEW f, NEW s, Shows(f, s), s.content # None PROVE Knows(f, s)
BY DEF Shows, Knows

\* Rows that are rendered know it if the old ones do and what is selected does.
LEMMA RenderedRows ==
    ASSUME NEW f, NEW t, NEW q, TableOK(t, q), RowsKnow(f, t), NEW p, NEW d,
           p.selected.content # None /\ p.update # "loading" => Knows(f, p.selected)
    PROVE  RowsKnow(f, ScenarioTable(t, p, d))
<1> DEFINE u == ScenarioTable(t, p, d)
<1>1. CASE d.step \/ p.selected.content = None
  <2>1. u = Unmounted
    BY <1>1 DEF ScenarioTable
  <2> HIDE DEF u
  <2>2. DOMAIN u.rows = {}
    BY <2>1 DEF Unmounted
  <2> QED BY <2>2 DEF RowsKnow, u
<1>2. CASE ~d.step /\ p.selected.content # None
  <2> DEFINE takesOver == ~t.mounted \/ p.update = "success"
             scenarios == IF ~takesOver THEN t.scenarios
                          ELSE IF ~t.mounted THEN p.selected.content.scenarios
                          ELSE Synchronised(t.scenarios, p.selected.content.scenarios)
             early == IF t.mounted THEN t.early ELSE p.update = "loading"
             rows == [id \in Ids(scenarios) |->
                         IF id \in DOMAIN t.rows THEN t.rows[id] ELSE p.selected]
  <2>1. u = [mounted |-> TRUE, scenarios |-> scenarios,
             objects |-> IF takesOver THEN p.selected.objects ELSE t.objects,
             early |-> early, rows |-> rows]
    BY <1>2 DEF ScenarioTable
  <2>2. ~takesOver => scenarios = t.scenarios
    OBVIOUS
  <2>3. takesOver <=> ~t.mounted \/ p.update = "success"
    OBVIOUS
  <2>4. early <=> (t.mounted /\ t.early) \/ (~t.mounted /\ p.update = "loading")
    OBVIOUS
  <2> HIDE DEF scenarios, u, takesOver, early
  <2>5. ASSUME ~early, NEW id \in DOMAIN rows PROVE Knows(f, rows[id])
    <3>0. id \in Ids(scenarios)
      OBVIOUS
    <3>1. CASE id \in DOMAIN t.rows
      <4>1. t.mounted
        BY <3>1 DEF RowsKnow
      <4>2. Knows(f, t.rows[id])
        BY <2>4, <2>5, <3>1, <4>1 DEF RowsKnow
      <4> QED BY <3>0, <3>1, <4>2
    <3>2. CASE id \notin DOMAIN t.rows
      <4>1. rows[id] = p.selected
        BY <3>0, <3>2
      <4>2. p.update # "loading"
        <5>1. SUFFICES ASSUME p.update = "loading" PROVE FALSE
          OBVIOUS
        <5>2. t.mounted /\ ~takesOver
          BY <2>3, <2>4, <2>5, <5>1
        <5>3. Ids(t.scenarios) = DOMAIN t.rows
          BY DEF TableOK
        <5> QED BY <2>2, <3>0, <3>2, <5>2, <5>3
      <4> QED BY <1>2, <4>1, <4>2
    <3> QED BY <3>1, <3>2
  <2> HIDE DEF rows
  <2>6. u.mounted = TRUE /\ u.early = early /\ u.rows = rows
    BY <2>1
  <2>7. early => u.early
    BY <2>6, Zenon
  <2> QED BY <2>5, <2>6, <2>7 DEF RowsKnow, u
<1> QED BY <1>1, <1>2

\* What is fetched of a draft of the newest version is the draft.
LEMMA NewestIsDraft ==
    ASSUME FilesOK, HasDraft, files.pr, Newest(files), ~Fetched(files).failed
    PROVE  /\ Fetched(files).doc = files.draft /\ files.draft \in Contents
           /\ riScToDTO(files.draft) = files.draft
<1>1. files.draft # None /\ ToShow(files) = files.draft
  BY DEF HasDraft, ToShow
<1>2. files.draft \in Contents
  BY <1>1 DEF FilesOK, Docs, Contents, Newest
<1>3. Valid(files.draft)
  BY <1>1 DEF Fetched, Failed
<1> QED BY <1>1, <1>2, <1>3, DraftIsFetched, ValidIsSent DEF Contents

\* The parts of a request that was just made.
LEMMA RequestParts ==
    ASSUME NEW selected, NEW c, NEW objects, NEW after,
           NEW p, p = UpdateRiSc(selected, c, objects, after)
    PROVE  /\ p.update = "loading" /\ p.selected.content = c
           /\ p.request.old = selected /\ p.request.body = riScToDTO(c)
           /\ p.request.answer = "none"
           /\ ~p.request.requiresApproval =>
                  /\ ~selected.migrationStatus.migrationRequiresNewApproval
                  /\ ~requiresNewApproval(selected.content, c)
<1> DEFINE requires == \/ selected.migrationStatus.migrationRequiresNewApproval
                       \/ requiresNewApproval(selected.content, c)
           updated == [content |-> c, objects |-> objects,
                       status |-> IF requires THEN "Draft" ELSE selected.status,
                       migrationStatus |-> NoChanges, sopsConfig |-> selected.sopsConfig]
           request == [old |-> selected, new |-> updated, requiresApproval |-> requires,
                       body |-> riScToDTO(c), after |-> after, answer |-> "none"]
<1>1. p = [selected |-> updated, update |-> "loading", request |-> request]
  BY DEF UpdateRiSc
<1>2. requires <=> \/ selected.migrationStatus.migrationRequiresNewApproval
                   \/ requiresNewApproval(selected.content, c)
  OBVIOUS
<1>3. updated.content = c
  OBVIOUS
<1> HIDE DEF requires, updated
<1>4. /\ request.old = selected /\ request.body = riScToDTO(c) /\ request.answer = "none"
      /\ request.requiresApproval = requires
  OBVIOUS
<1> HIDE DEF request
<1>5. /\ p.update = "loading" /\ p.selected = updated /\ p.request = request
  BY <1>1
<1>6. requires => p.request.requiresApproval
  <2>1. p.request.requiresApproval = requires
    BY <1>4, <1>5
  <2> QED BY <2>1, Zenon
<1> QED BY <1>2, <1>3, <1>4, <1>5, <1>6

\* A save of what is stored covers what was covered, or asks for an approval.
LEMMA SaveCovers ==
    ASSUME FilesOK, HasDraft, NEW selected, Shows(files, selected), SelectionOK(selected),
           selected.content # None, NEW c \in Contents, NEW objects, NEW after,
           NEW p, p = UpdateRiSc(selected, c, objects, after)
    PROVE  CoversDraft(files, p.request)
<1>1. SUFFICES ASSUME files.pr, ~p.request.requiresApproval, Valid(p.request.body)
               PROVE  Covered(p.request.body) = Covered(files.draft)
  BY DEF CoversDraft
<1>2. /\ ~selected.migrationStatus.migrationRequiresNewApproval
      /\ ~requiresNewApproval(selected.content, c) /\ p.request.body = riScToDTO(c)
  BY <1>1, RequestParts
<1>3. selected.content \in Contents
  BY DEF SelectionOK, OrNone
<1>4. /\ Valid(riScToDTO(selected.content))
      /\ Covered(riScToDTO(selected.content)) = Covered(riScToDTO(c))
  BY <1>1, <1>2, <1>3, EqualContents
<1>5. /\ ~Fetched(files).failed /\ Newest(files)
      /\ riScToDTO(selected.content) = riScToDTO(Fetched(files).doc)
  BY <1>2, <1>4 DEF Shows
<1>6. riScToDTO(selected.content) = files.draft
  BY <1>1, <1>5, NewestIsDraft
<1> QED BY <1>2, <1>4, <1>6

\* So does the save of a row with an old closure, if the table has the scenarios
\* of what is stored.
LEMMA DropCovers ==
    ASSUME FilesOK, HasDraft, content \in Contents, Shows(files, page.selected),
           Valid(riScToDTO(content)), NEW row, Knows(files, row), SelectionOK(row),
           row.content # None, NEW c \in Contents,
           Range(c.scenarios) = Range(content.scenarios), NEW objects, NEW after,
           NEW p, p = UpdateRiSc(row, c, objects, after)
    PROVE  CoversDraft(files, p.request)
<1>1. SUFFICES ASSUME files.pr, ~p.request.requiresApproval, Valid(p.request.body)
               PROVE  Covered(p.request.body) = Covered(files.draft)
  BY DEF CoversDraft
<1>2. /\ ~row.migrationStatus.migrationRequiresNewApproval
      /\ ~requiresNewApproval(row.content, c) /\ p.request.body = riScToDTO(c)
  BY <1>1, RequestParts
<1>3. row.content \in Contents
  BY DEF SelectionOK, OrNone
<1>4. Valid(riScToDTO(row.content))
  BY <1>1, <1>2, <1>3, EqualContents
<1>5. Newest(files)
  BY <1>2, <1>4 DEF Knows
<1>6. ~Fetched(files).failed /\ riScToDTO(content) = riScToDTO(Fetched(files).doc)
  BY FormNotNone DEF Shows, content, Contents
<1>7. riScToDTO(content) = files.draft
  BY <1>1, <1>5, <1>6, NewestIsDraft
<1>8. Covered(riScToDTO(content)) = Covered(riScToDTO(c))
  BY CoveredOfSent DEF Contents
<1> QED BY <1>2, <1>7, <1>8

\* A save begins.
LEMMA BeginningCovers ==
    ASSUME EditorInv, CoverInv, Quiet, files' = files, history'.covered = history.covered,
           NEW selected, NEW c, NEW objects, NEW after,
           page' = UpdateRiSc(selected, c, objects, after),
           table' = ScenarioTable(table, page', drawer'),
           history'.orderly => Shows(files, selected), CoversDraft(files, page'.request)
    PROVE  CoverInv'
<1>1. page'.update = "loading" /\ page'.request.old = selected /\ page'.request.answer = "none"
  BY RequestParts
<1>2. RowsKnow(files, table')
  <2>1. TableOK(table, page) /\ RowsKnow(files, table)
    BY DEF EditorInv, CoverInv
  <2> QED BY <1>1, <2>1, RenderedRows
<1>3. ~Quiet'
  BY <1>1 DEF Quiet
<1>4. (files.pr => Covered(files.draft) = Covered(history.covered))'
  BY DEF CoverInv
<1> QED BY <1>1, <1>2, <1>3, <1>4 DEF CoverInv

\* What the sender of a save does when it is taken.
Afters == {"nothing", "endEditing", "closeScenarioForm"}

\* A step that leaves the page, and may only render or drag the table,
Rerenders ==
    /\ UNCHANGED <<page, files, history>>
    /\ \/ table' = table \/ table' = ScenarioTable(table, page, drawer')
       \/ \E from, to : MoveRowLocal(from, to)

\* and one that saves what is edited of what is shown.
SavesShown ==
    /\ Quiet /\ files' = files /\ history' = history
    /\ \E c : \E objects \in {page.selected.objects, Now}, after \in Afters :
           page' = UpdateRiSc(page.selected, c, objects, after)
    /\ table' = ScenarioTable(table, page', drawer')

\* A handler that renders the page as it is.
LEMMA ShowRerenders ==
    ASSUME NEW d, Show(page, table, d), UNCHANGED <<files, history>> PROVE Rerenders
BY DEF Show, Rerenders

\* A handler that saves.
LEMMA UpdateSaves ==
    ASSUME NEW new, NEW after \in Afters, NEW d, Update(new, after, d),
           UNCHANGED <<files, history>>
    PROVE  SavesShown
BY DEF Update, Saves, Show, SavesShown

\* What is done in drawer and wizard,
LEMMA DrawerSaves == ASSUME InDrawer \/ InWizard PROVE Rerenders \/ SavesShown
<1>1. CASE \E id \in ScenarioId : OpenScenarioDrawer(id)
  BY <1>1, ShowRerenders DEF OpenScenarioDrawer, Rest
<1>2. CASE Edit \/ OnCancel
  BY <1>2 DEF Edit, OnCancel, Rest, Rerenders
<1>3. CASE CloseDrawer
  BY <1>3, ShowRerenders DEF CloseDrawer, Rest
<1>4. CASE TypeText \/ AddAction \/ \E i \in 1..2 : TypeAction(i) \/ RemoveAction(i)
  BY <1>4 DEF TypeText, AddAction, TypeAction, RemoveAction, Type, Rest, Rerenders
<1>5. CASE SubmitEditedScenario
  BY <1>5, UpdateSaves DEF SubmitEditedScenario, Rest, Afters
<1>6. CASE OpenNewScenarioWizard \/ CloseWizard
  BY <1>6, ShowRerenders DEF OpenNewScenarioWizard, CloseWizard, Rest
<1>7. CASE \E risks \in WizardRisks : SubmitNewScenario(risks)
  BY <1>7, UpdateSaves DEF SubmitNewScenario, Rest, Afters
<1> QED BY <1>1, <1>2, <1>3, <1>4, <1>5, <1>6, <1>7 DEF InDrawer, InWizard

\* in the table
LEMMA TableSaves ==
    ASSUME InTable PROVE Rerenders \/ SavesShown \/ \E id \in ScenarioId : DropRow(id)
<1>1. CASE \E from, to \in 1..Cardinality(ScenarioId) : MoveRowLocal(from, to)
  BY <1>1 DEF MoveRowLocal, Rest, Rerenders
<1>2. CASE \E id \in ScenarioId : DeleteScenario(id)
  BY <1>2, UpdateSaves DEF DeleteScenario, Rest, Afters
<1>3. CASE AddPredefinedScenarios
  BY <1>3, UpdateSaves DEF AddPredefinedScenarios, Rest, Afters
<1> QED BY <1>1, <1>2, <1>3 DEF InTable

\* and in the page.
LEMMA PageSaves == ASSUME InPage PROVE Rerenders \/ SavesShown \/ ApproveRiSc
<1>1. CASE OpenDialog
  BY <1>1 DEF OpenDialog, Rerenders
<1>2. CASE \E appliesTo \in {None, 1} : SubmitDialog(appliesTo)
  <2>1. PICK appliesTo \in {None, 1} : SubmitDialog(appliesTo)
    BY <1>2
  <2> DEFINE new == [dialog EXCEPT !.text = Now, !.appliesTo = appliesTo]
  <2>2. /\ Show(UpdateRiSc(page.selected, new, Now, "nothing"), table, drawer)
        /\ Quiet /\ UNCHANGED <<files, history>>
    BY <2>1 DEF SubmitDialog, Saves
  <2> HIDE DEF new
  <2> QED BY <2>2 DEF Show, SavesShown, Afters
<1>3. CASE SaveMigration
  BY <1>3, UpdateSaves DEF SaveMigration, Rest, Afters
<1>4. CASE GetDifferences
  BY <1>4 DEF GetDifferences, Rest, Rerenders
<1> QED BY <1>1, <1>2, <1>3, <1>4 DEF InPage

\* What is covered stays covered when nothing is saved,
LEMMA RerenderedCovers ==
    ASSUME EditorInv, ViewInv, CoverInv, Rerenders PROVE CoverInv'
<1>1. UNCHANGED <<page, files, history>>
  BY DEF Rerenders
<1>2. /\ TableOK(table, page) /\ RowsKnow(files, table) /\ PageOK(page)
      /\ UniquePage(page) /\ UniqueTable(table)
  BY DEF EditorInv, CoverInv, ViewInv
<1>3. (Quiet => Agrees(table, page)) => (Quiet => Agrees(table', page))
      /\ RowsKnow(files, table')
  <2>1. CASE table' = table
    BY <1>2, <2>1
  <2>2. CASE table' = ScenarioTable(table, page, drawer')
    <3>1. Agrees(table, page) => Agrees(table', page)
      BY <1>2, <2>2, RenderedTable
    <3>2. page.selected.content # None /\ Quiet => Knows(files, page.selected)
      BY ShownKnows DEF CoverInv
    <3>3. RowsKnow(files, table')
      BY <1>2, <2>2, <3>2, RenderedRows DEF Quiet
    <3> QED BY <3>1, <3>3
  <2>3. CASE \E from, to : MoveRowLocal(from, to)
    <3>1. PICK from, to : MoveRowLocal(from, to)
      BY <2>3
    <3> DEFINE moved == InsertAt(RemoveAt(table.scenarios, from), to, table.scenarios[from])
    <3>2. /\ from \in DOMAIN table.scenarios /\ to \in DOMAIN table.scenarios
          /\ table' = [table EXCEPT !.scenarios = moved]
      BY <3>1 DEF MoveRowLocal
    <3>3. Range(moved) = Range(table.scenarios)
      BY <1>2, <3>2, MovedList DEF TableOK
    <3> HIDE DEF moved
    <3>4. table' = [mounted |-> table.mounted, scenarios |-> moved, objects |-> table.objects,
                    early |-> table.early, rows |-> table.rows]
      <4>1. DOMAIN table = {"mounted", "scenarios", "objects", "early", "rows"}
        BY <1>2 DEF TableOK
      <4> QED BY <3>2, <4>1
    <3>5. /\ table'.mounted = table.mounted /\ table'.scenarios = moved
          /\ table'.early = table.early /\ table'.rows = table.rows
      BY <3>4
    <3> QED BY <1>2, <3>3, <3>5 DEF Agrees, RowsKnow
  <2> QED BY <2>1, <2>2, <2>3 DEF Rerenders
<1> QED BY <1>1, <1>3 DEF CoverInv, Quiet

\* when the user saves,
LEMMA SavedCovers ==
    ASSUME EditorInv, EditorInv', HasDraft, CoverInv, SavesShown PROVE CoverInv'
<1>1. PICK c, objects, after : page' = UpdateRiSc(page.selected, c, objects, after)
  BY DEF SavesShown
<1>2. /\ Quiet /\ files' = files /\ history' = history
      /\ table' = ScenarioTable(table, page', drawer')
  BY DEF SavesShown
<1>3. /\ page'.update = "loading" /\ page'.request.old = page.selected
      /\ page'.selected.content = c
  BY <1>1, RequestParts
<1>4. /\ SelectionOK(page.selected) /\ page.selected.content # None /\ c \in Contents
  BY <1>3 DEF EditorInv, PageOK, RequestOK, SelectionOK, OrNone
<1>5. Shows(files, page.selected)
  BY <1>2 DEF CoverInv
<1>6. FilesOK
  BY DEF EditorInv
<1>7. CoversDraft(files, page'.request)
  BY <1>1, <1>4, <1>5, <1>6, SaveCovers
<1> QED BY <1>1, <1>2, <1>5, <1>7, BeginningCovers

\* and when a row is dropped that is no exception.
LEMMA DroppedCovers ==
    ASSUME EditorInv, EditorInv', HistoryShape, ApprovalInv, NEW id, DropRow(id), Trusted'
    PROVE  CoverInv'
<1> DEFINE row == table.rows[id]
           c == [row.content EXCEPT !.scenarios = table.scenarios]
           orderly == history.orderly /\ row = page.selected
           parted == history.parted \/ table.early \/ (row # page.selected /\ Refused)
<1>1. /\ id \in DOMAIN table.rows /\ AtTable /\ Quiet /\ files' = files
      /\ Show(UpdateRiSc(row, c, table.objects, "nothing"), table, drawer)
      /\ history' = [history EXCEPT !.orderly = orderly, !.parted = parted]
  BY DEF DropRow, Saves
<1>2. /\ SelectionOK(row) /\ row.content # None /\ table.scenarios \in Seq(Scenarios)
      /\ PageOK(page) /\ FilesOK
  BY <1>1 DEF EditorInv, TableOK
<1>3. orderly => row = page.selected
  OBVIOUS
<1>4. ~parted => ~history.parted /\ ~table.early /\ (row = page.selected \/ ~Refused)
  OBVIOUS
<1>5. c \in Contents /\ c.scenarios = table.scenarios
  <2>1. row.content \in Contents
    BY <1>2 DEF SelectionOK, OrNone
  <2> HIDE DEF row
  <2> QED BY <1>2, <2>1, ContentParts DEF Contents
<1> HIDE DEF orderly, parted
<1>6. history' = [orderly |-> orderly, parted |-> parted, lost |-> history.lost,
                  covered |-> history.covered]
  BY <1>1 DEF HistoryShape
<1>7. /\ history'.orderly = orderly /\ history'.parted = parted
      /\ history'.lost = history.lost /\ history'.covered = history.covered
  BY <1>6
<1>8. ~parted /\ (history'.orderly => orderly)
  BY <1>7, Zenon DEF Trusted
<1>9. ~history.lost
  BY <1>7, Zenon DEF Trusted
<1>10. CoverInv /\ HasDraft
  BY <1>4, <1>8, <1>9 DEF ApprovalInv, Trusted
<1>11. Shows(files, page.selected)
  BY <1>1, <1>10 DEF CoverInv
<1>12. page' = UpdateRiSc(row, c, table.objects, "nothing")
       /\ table' = ScenarioTable(table, page', drawer')
  BY <1>1 DEF Show
<1> HIDE DEF row, c
<1>13. CoversDraft(files, page'.request)
  <2>1. CASE row = page.selected
    BY <1>2, <1>5, <1>10, <1>11, <1>12, <2>1, SaveCovers
  <2>2. CASE row # page.selected
    <3>1. Valid(riScToDTO(content)) /\ ~table.early
      BY <1>4, <1>8, <2>2 DEF Refused
    <3>2. content \in Contents /\ table.mounted
      <4>1. content # None
        BY <1>1 DEF AtTable
      <4>2. table.mounted
        BY <1>1, <1>10 DEF CoverInv, RowsKnow
      <4> QED BY <1>2, <4>1, <4>2, ContentIsOne
    <3>3. Range(c.scenarios) = Range(content.scenarios)
      BY <1>1, <1>5, <1>10, <3>1, <3>2 DEF CoverInv, Agrees, Before, Quiet, content
    <3>4. Knows(files, row)
      BY <1>1, <1>10, <3>1 DEF CoverInv, RowsKnow, row
    <3> QED BY <1>2, <1>5, <1>10, <1>11, <1>12, <3>1, <3>2, <3>3, <3>4, DropCovers
  <2> QED BY <2>1, <2>2
<1>14. history'.orderly => Shows(files, row)
  BY <1>3, <1>8, <1>11
<1> QED BY <1>1, <1>7, <1>10, <1>12, <1>13, <1>14, BeginningCovers

\* A page of which only the update's state has changed is rendered.
LEMMA EndedCovers ==
    ASSUME EditorInv, ViewInv, NEW p, PageOK(p), p.update # "loading",
           UniqueSelection(p.selected), p.update # "success" => Agrees(table, p),
           Shows(files, p.selected), RowsKnow(files, table),
           page' = p, table' = ScenarioTable(table, p, drawer'),
           files'.published = files.published, files'.draft = files.draft,
           files'.pr => Covered(files.draft) = Covered(history'.covered)
    PROVE  CoverInv'
<1>1. TableOK(table, page) /\ UniqueTable(table) /\ UniquePage(p)
  BY DEF EditorInv, ViewInv, UniquePage
<1>2. Agrees(table', p)
  BY <1>1, RenderedTable
<1>3. p.selected.content # None => Knows(files, p.selected)
  BY ShownKnows
<1>4. RowsKnow(files, table')
  BY <1>1, <1>3, RenderedRows
<1>5. Shows(files', p.selected) /\ RowsKnow(files', table')
  BY <1>4, SameKnown
<1>6. Quiet'
  BY DEF Quiet
<1> QED BY <1>2, <1>5, <1>6 DEF CoverInv

\* An approval covers the draft there is.
LEMMA ApprovedCovers ==
    ASSUME EditorInv, HistoryShape, ViewInv, ApprovalInv, ApproveRiSc PROVE ApprovalInv'
<1>1. /\ Quiet /\ PageOK(page) /\ FilesOK /\ UniqueSelection(page.selected)
  BY DEF ApproveRiSc, EditorInv, ViewInv, UniquePage
<1>2. CASE files.pr
  <2> DEFINE p == [page EXCEPT !.update = "error"]
  <2>1. Show(p, table, drawer) /\ files' = files /\ history' = history
    BY <1>2 DEF ApproveRiSc
  <2>2. PageOK(p) /\ p.selected = page.selected
    BY <1>1, PageParts
  <2>3. p.update = "error"
    BY <1>1 DEF PageOK
  <2>4. page' = p /\ table' = ScenarioTable(table, p, drawer')
    BY <2>1 DEF Show
  <2> HIDE DEF p
  <2>5. Agrees(table, page) => Agrees(table, p)
    BY <1>1, <2>2, <2>3 DEF Agrees, Before, Quiet
  <2>6. CoverInv => CoverInv'
    <3> SUFFICES ASSUME CoverInv PROVE CoverInv'
      OBVIOUS
    <3>1. /\ Shows(files, p.selected) /\ RowsKnow(files, table) /\ Agrees(table, p)
          /\ Covered(files.draft) = Covered(history.covered)
      BY <1>1, <1>2, <2>2, <2>5 DEF CoverInv
    <3> QED BY <1>1, <2>1, <2>2, <2>3, <2>4, <3>1, EndedCovers
  <2> QED BY <2>1, <2>6 DEF ApprovalInv, HasDraft, Trusted
<1>3. CASE ~files.pr
  <2> DEFINE p == [page EXCEPT !.update = "success", !.selected.status = "SentForApproval"]
             pr == files.draft # None
  <2>1. /\ Show(p, table, drawer) /\ files' = [files EXCEPT !.pr = pr]
        /\ history' = [history EXCEPT !.covered = files.draft]
    BY <1>3 DEF ApproveRiSc
  <2>2. PageOK(p) /\ p.selected.content = page.selected.content
    BY <1>1, SentPage
  <2>3. p.update = "success"
    BY <1>1 DEF PageOK
  <2>4. p.selected.migrationStatus = page.selected.migrationStatus
    BY <1>1 DEF PageOK, SelectionOK
  <2>5. page' = p /\ table' = ScenarioTable(table, p, drawer')
    BY <2>1 DEF Show
  <2> HIDE DEF p, pr
  <2>6. files' = [published |-> files.published, draft |-> files.draft, pr |-> pr,
                  sops |-> files.sops]
    BY <1>1, <2>1 DEF FilesOK
  <2>7. /\ files'.published = files.published /\ files'.draft = files.draft
        /\ files'.pr = pr
    BY <2>6
  <2>8. files'.pr => pr
    BY <2>7, Zenon
  <2>9. HasDraft'
    BY <2>7, <2>8 DEF HasDraft, pr
  <2>10. /\ history'.covered = files.draft /\ history'.lost = history.lost
         /\ history'.parted = history.parted
    BY <2>1 DEF HistoryShape
  <2>11. CoverInv => CoverInv'
    <3> SUFFICES ASSUME CoverInv PROVE CoverInv'
      OBVIOUS
    <3>1. Shows(files, page.selected) /\ RowsKnow(files, table)
      BY <1>1 DEF CoverInv
    <3>2. Shows(files, p.selected)
      BY <2>2, <2>4, <3>1 DEF Shows
    <3>3. UniqueSelection(p.selected)
      BY <1>1, <2>2 DEF UniqueSelection
    <3> QED BY <2>2, <2>3, <2>5, <2>7, <2>10, <3>1, <3>2, <3>3, EndedCovers
  <2>12. Trusted' => Trusted
    BY <2>10, Zenon DEF Trusted
  <2> QED BY <2>9, <2>11, <2>12 DEF ApprovalInv
<1> QED BY <1>2, <1>3

\* What the service stores is covered.
LEMMA ServedCovers == ASSUME EditorInv, ApprovalInv, Serve PROVE ApprovalInv'
<1> DEFINE body == page.request.body
           pr == files.pr /\ ~page.request.requiresApproval
           sops == encrypt(page.request.new.sopsConfig)
<1>1. /\ ~Quiet /\ page' = [page EXCEPT !.request.answer = "ok"] /\ page.request.answer = "none"
      /\ files' = IF Valid(body) THEN Stored(files, page.request) ELSE files
      /\ history' = history /\ table' = table
  BY DEF Serve
<1>2. /\ PageOK(page) /\ RequestOK(page.request, page.selected) /\ FilesOK
      /\ body = riScToDTO(content) /\ content # None /\ content \in Contents
  BY <1>1, ContentIsOne DEF EditorInv, PageOK, RequestOK, Quiet, content
<1>3. page'.selected = page.selected /\ page'.request.answer = "ok" /\ page'.update = page.update
  <2>1. page'.selected = page.selected /\ page'.update = page.update
    BY <1>1, <1>2 DEF PageOK
  <2>2. page'.request = [page.request EXCEPT !.answer = "ok"]
    BY <1>1, <1>2 DEF PageOK
  <2>3. page'.request.answer = "ok"
    BY <1>2, <2>2 DEF RequestOK
  <2> QED BY <2>1, <2>3
<1>4. ~Quiet'
  BY <1>1, <1>3 DEF Quiet
<1>5. CASE ~Valid(body)
  <2>1. files' = files
    BY <1>1, <1>5
  <2>2. Shows(files, page.selected)
    BY <1>2, <1>5 DEF Shows, content
  <2>3. CoverInv => CoverInv'
    BY <1>1, <1>3, <1>4, <2>1, <2>2 DEF CoverInv
  <2> QED BY <1>1, <2>1, <2>3 DEF ApprovalInv, HasDraft, Trusted
<1>6. CASE Valid(body)
  <2>1. files' = [files EXCEPT !.draft = body, !.pr = pr, !.sops = sops]
    BY <1>1, <1>6 DEF Stored
  <2>2. pr => files.pr /\ ~page.request.requiresApproval
    OBVIOUS
  <2>3. /\ body \in RiScDocuments /\ body.schemaVersion = latestSupportedVersion
        /\ body # None /\ riScToDTO(body) = body
    BY <1>2, DTODocument, DTOAgain, DocumentAssumption DEF Contents
  <2> HIDE DEF pr, sops
  <2>4. files' = [published |-> files.published, draft |-> body, pr |-> pr, sops |-> sops]
    <3> HIDE DEF body
    <3> QED BY <1>2, <2>1 DEF FilesOK
  <2>5. files'.draft = body /\ files'.pr = pr
    BY <2>4
  <2>6. files'.pr => files.pr /\ ~page.request.requiresApproval
    <3>1. files'.pr => pr
      BY <2>5, Zenon
    <3> QED BY <2>2, <3>1
  <2>7. ~Fetched(files').failed /\ Fetched(files').doc = body /\ Newest(files')
    <3> HIDE DEF body
    <3> QED BY <1>6, <2>3, <2>5, DraftIsFetched DEF Newest, ToShow
  <2>8. HasDraft'
    BY <2>3, <2>5 DEF HasDraft
  <2>9. Shows(files', page.selected)
    BY <1>2, <2>3, <2>7 DEF Shows, content
  <2>10. RowsKnow(files, table) => RowsKnow(files', table')
    BY <1>1, <2>7 DEF RowsKnow, Knows
  <2>11. CoverInv => CoverInv'
    <3> SUFFICES ASSUME CoverInv PROVE CoverInv'
      OBVIOUS
    <3>1. files'.pr => Covered(body) = Covered(history.covered)
      <4>1. CoversDraft(files, page.request)
        BY <1>1 DEF CoverInv
      <4> QED BY <1>6, <2>6, <4>1 DEF CoverInv, CoversDraft
    <3>2. (files.pr => Covered(files.draft) = Covered(history.covered))'
      <4> HIDE DEF body
      <4> QED BY <1>1, <2>5, <3>1
    <3> QED BY <1>3, <1>4, <2>9, <2>10, <3>2 DEF CoverInv
  <2> QED BY <1>1, <2>8, <2>11 DEF ApprovalInv, Trusted
<1> QED BY <1>5, <1>6

\* A failure leaves what is stored, or its answer is lost.
LEMMA FailedCovers == ASSUME EditorInv, HistoryShape, ApprovalInv, Fail PROVE ApprovalInv'
<1> DEFINE lost == history.lost \/ page.request.answer = "ok"
<1>1. /\ ~Quiet /\ page' = [page EXCEPT !.request.answer = "error"] /\ page.request.answer # "error"
      /\ files' = files /\ table' = table /\ history' = [history EXCEPT !.lost = lost]
  BY DEF Fail
<1>2. PageOK(page) /\ RequestOK(page.request, page.selected)
  BY <1>1 DEF EditorInv, PageOK, Quiet
<1>3. /\ page'.update = page.update /\ page'.request.answer = "error"
      /\ page'.request.old = page.request.old
  <2>1. page'.update = page.update /\ page'.request = [page.request EXCEPT !.answer = "error"]
    BY <1>1, <1>2 DEF PageOK
  <2> QED BY <1>2, <2>1 DEF RequestOK
<1>4. ~lost => ~history.lost /\ page.request.answer # "ok"
  OBVIOUS
<1> HIDE DEF lost
<1>5. /\ history'.lost = lost /\ history'.orderly = history.orderly
      /\ history'.parted = history.parted /\ history'.covered = history.covered
  BY <1>1 DEF HistoryShape
<1>6. Trusted' => ~lost
  BY <1>5, Zenon DEF Trusted
<1>7. Trusted' => Trusted /\ page.request.answer # "ok"
  <2>1. Trusted' => ~history.parted
    BY <1>5, Zenon DEF Trusted
  <2> QED BY <1>4, <1>6, <2>1 DEF Trusted
<1>8. ~Quiet'
  BY <1>1, <1>3 DEF Quiet
<1>9. CoverInv /\ page.request.answer # "ok" => CoverInv'
  BY <1>1, <1>3, <1>5, <1>8 DEF CoverInv
<1> QED BY <1>1, <1>7, <1>9 DEF ApprovalInv, HasDraft

\* The page shows what was saved,
LEMMA AnsweredCovers ==
    ASSUME EditorInv, EditorInv', ViewInv, ApprovalInv, OnSaved PROVE ApprovalInv'
<1> DEFINE p == [selected |-> page.request.new, update |-> "success", request |-> None]
<1>1. /\ ~Quiet /\ page.request.answer = "ok" /\ files' = files /\ history' = history
      /\ page' = p /\ table' = ScenarioTable(table, p, drawer')
  BY DEF OnSaved, Show, Rest
<1>2. p.selected = page.request.new /\ p.update = "success"
  OBVIOUS
<1> HIDE DEF p
<1>3. page.request.new = page.selected
  BY <1>1 DEF EditorInv, PageOK, RequestOK, Quiet
<1>4. PageOK(p) /\ UniqueSelection(p.selected)
  BY <1>1, <1>2, <1>3 DEF EditorInv, ViewInv, UniquePage
<1>5. CoverInv => CoverInv'
  <2> SUFFICES ASSUME CoverInv PROVE CoverInv'
    OBVIOUS
  <2>1. Shows(files, p.selected) /\ RowsKnow(files, table)
    BY <1>1, <1>2, <1>3 DEF CoverInv
  <2>2. files'.pr => Covered(files.draft) = Covered(history'.covered)
    BY <1>1 DEF CoverInv
  <2> QED BY <1>1, <1>2, <1>4, <2>1, <2>2, EndedCovers
<1> QED BY <1>1, <1>5 DEF ApprovalInv, HasDraft, Trusted

\* or what it showed before, unless a row with an old closure was dropped.
LEMMA TakenBackCovers ==
    ASSUME EditorInv, EditorInv', HistoryShape, ViewInv, ApprovalInv, OnError
    PROVE  ApprovalInv'
<1> DEFINE p == [selected |-> page.request.old, update |-> "error", request |-> None]
           parted == history.parted \/ ~history.orderly
<1>1. /\ ~Quiet /\ page.request.answer = "error" /\ files' = files
      /\ history' = [history EXCEPT !.parted = parted]
      /\ page' = p /\ table' = ScenarioTable(table, p, drawer')
  BY DEF OnError, Show
<1>2. p.selected = page.request.old /\ p.update = "error"
  OBVIOUS
<1>3. ~parted => ~history.parted /\ history.orderly
  OBVIOUS
<1> HIDE DEF p, parted
<1>4. /\ history'.parted = parted /\ history'.lost = history.lost
      /\ history'.covered = history.covered
  BY <1>1 DEF HistoryShape
<1>5. Trusted' => Trusted /\ history.orderly
  <2>1. Trusted' => ~parted /\ ~history.lost
    BY <1>4, Zenon DEF Trusted
  <2> QED BY <1>3, <2>1 DEF Trusted
<1>6. PageOK(p) /\ UniqueSelection(p.selected)
  BY <1>1, <1>2 DEF EditorInv, ViewInv, UniquePage, Quiet
<1>7. CoverInv /\ history.orderly => CoverInv'
  <2> SUFFICES ASSUME CoverInv, history.orderly PROVE CoverInv'
    OBVIOUS
  <2>1. Shows(files, p.selected) /\ RowsKnow(files, table)
    BY <1>1, <1>2 DEF CoverInv
  <2>2. files'.pr => Covered(files.draft) = Covered(history'.covered)
    BY <1>1, <1>4 DEF CoverInv
  <2>3. Agrees(table, p)
    BY <1>1, <1>2 DEF ViewInv, Agrees, Before, Quiet
  <2> QED BY <1>1, <1>2, <1>6, <2>1, <2>2, <2>3, EndedCovers
<1> QED BY <1>1, <1>5, <1>7 DEF ApprovalInv, HasDraft

\* What is fetched is what is stored.
LEMMA FetchCovers ==
    ASSUME EditorInv, EditorInv', TableInv, TableInv', ApprovalInv, FetchRiScs
    PROVE  ApprovalInv'
<1>1. /\ page.selected.content = None /\ ~Fetched(files).failed /\ files' = files
      /\ history' = history /\ page' = [page EXCEPT !.selected = Selected(files)]
      /\ table' = ScenarioTable(table, page', drawer')
  BY DEF FetchRiScs, Show
<1>2. PageOK(page) /\ TableOK(table, page) /\ FilesOK /\ PageOK(page')
  BY DEF EditorInv
<1>3. page'.selected = Selected(files) /\ page'.update = page.update /\ page.update # "loading"
  BY <1>1, <1>2 DEF PageOK, RequestOK
<1>4. ~table.mounted
  BY <1>1, <1>2 DEF TableOK
<1>5. page'.selected.content = Fetched(files).doc
      /\ page'.selected.migrationStatus = Fetched(files).status
  BY <1>3 DEF Selected, dtoToRiSc
<1>6. Fetched(files).status.migrationRequiresNewApproval \/ Newest(files)
  BY <1>1, <1>2, FetchedAsks DEF FilesOK, Docs
<1>7. Shows(files, page'.selected)
  BY <1>1, <1>5, <1>6 DEF Shows
<1>8. UniqueSelection(page'.selected)
  BY DEF TableInv, ViewInv, UniquePage, UniqueSelection
<1>9. Agrees(table, page')
  BY <1>4 DEF Agrees
<1>10. CoverInv => CoverInv'
  <2> SUFFICES ASSUME CoverInv PROVE CoverInv'
    OBVIOUS
  <2>1. RowsKnow(files, table) /\ ViewInv
    BY DEF CoverInv, TableInv
  <2>2. files'.pr => Covered(files.draft) = Covered(history'.covered)
    BY <1>1 DEF CoverInv
  <2> QED BY <1>1, <1>2, <1>3, <1>7, <1>8, <1>9, <2>1, <2>2, EndedCovers
<1> QED BY <1>1, <1>10 DEF ApprovalInv, HasDraft, Trusted

\* Every step keeps it.
LEMMA ApprovalInvStep ==
    /\ EditorInv /\ EditorInv' /\ HistoryShape /\ TableInv /\ TableInv'
    /\ ApprovalInv /\ [Next]_vars
    => ApprovalInv'
<1> SUFFICES ASSUME EditorInv, EditorInv', HistoryShape, TableInv, TableInv', ApprovalInv,
                    [Next]_vars
             PROVE  ApprovalInv'
  OBVIOUS
<1>1. ViewInv
  BY DEF TableInv
<1>2. CASE Rerenders
  <2>1. UNCHANGED <<files, history>>
    BY <1>2 DEF Rerenders
  <2>2. CoverInv => CoverInv'
    BY <1>1, <1>2, RerenderedCovers
  <2> QED BY <2>1, <2>2 DEF ApprovalInv, HasDraft, Trusted
<1>3. CASE SavesShown
  <2>1. UNCHANGED <<files, history>>
    BY <1>3 DEF SavesShown
  <2>2. CoverInv => CoverInv'
    BY <1>3, SavedCovers DEF ApprovalInv
  <2> QED BY <2>1, <2>2 DEF ApprovalInv, HasDraft, Trusted
<1>4. CASE \E id \in ScenarioId : DropRow(id)
  <2>1. files' = files
    BY <1>4 DEF DropRow
  <2>2. Trusted' => CoverInv'
    BY <1>4, DroppedCovers
  <2> QED BY <2>1, <2>2 DEF ApprovalInv, HasDraft
<1>5. CASE InDrawer \/ InWizard \/ InTable \/ InPage
  BY <1>1, <1>2, <1>3, <1>4, <1>5, DrawerSaves, TableSaves, PageSaves, ApprovedCovers
<1>6. CASE Answers
  <2>1. CASE Serve \/ Fail
    BY <2>1, ServedCovers, FailedCovers
  <2>2. CASE OnSaved \/ OnError
    BY <1>1, <2>2, AnsweredCovers, TakenBackCovers
  <2>3. CASE OnDifference \/ OnDifferenceError
    BY <1>2, <2>3 DEF OnDifference, OnDifferenceError, Rest, Rerenders
  <2> QED BY <1>6, <2>1, <2>2, <2>3 DEF Answers
<1>7. CASE FetchRiScs
  BY <1>7, FetchCovers
<1>8. CASE UNCHANGED vars
  BY <1>2, <1>8 DEF vars, Rerenders
<1> QED BY <1>5, <1>6, <1>7, <1>8 DEF Next

\* At first the open pull request covers the draft there is.
LEMMA ApprovalInvInit == Init => ApprovalInv
<1> SUFFICES ASSUME Init PROVE ApprovalInv
  OBVIOUS
<1>1. HasDraft
  <2>1. PICK f \in Files : files = [published |-> f.published, draft |-> f.draft, pr |-> f.pr,
                                    sops |-> f.sops]
    BY DEF Init
  <2>2. files.draft = f.draft /\ files.pr = f.pr
    BY <2>1
  <2>3. files.pr => f.pr
    BY <2>2, Zenon
  <2> QED BY <2>2, <2>3, EditorAssumption DEF HasDraft
<1>2. files.pr => history.covered = files.draft
  BY DEF Init
<1>3. page.selected.content = None /\ Quiet
  BY DEF Init, NotSelected, Quiet
<1>4. ~table.mounted /\ DOMAIN table.rows = {}
  BY DEF Init, Unmounted
<1> QED BY <1>1, <1>2, <1>3, <1>4 DEF ApprovalInv, CoverInv, Shows, Agrees, RowsKnow

\* utilityfunctions.ts:178, RiScContext.tsx:580: while a pull request is open, its
\* file has the version and the scenarios it was opened with, whatever is saved,
\* refused and taken back in between and with whatever closure of a row, with the
\* exceptions the property names.
THEOREM ApprovalsCoverScenarios == Spec => []ApprovalCoversScenarios
<1>1. ApprovalInv => ApprovalCoversScenarios
  BY DEF ApprovalInv, Trusted, CoverInv, ApprovalCoversScenarios
<1>2. StoredInv => HistoryShape
  BY DEF StoredInv
<1>3. EditorInv /\ StoredInv /\ TableInv /\ ApprovalInv /\ [Next]_vars
      => (EditorInv /\ StoredInv /\ TableInv /\ ApprovalInv)'
  BY <1>2, EditorInvStep, StoredInvStep, TableInvStep, ApprovalInvStep
<1> QED BY <1>1, <1>3, EditorInvInit, StoredInvInit, TableInvInit, ApprovalInvInit, PTL DEF Spec

-----------------------------------------------------------------------------
(* The keys of a file.                                                     *)

\* The lists that flatten joins one after the other.
Joins(lists, joined) ==
    joined = [i \in 1..Len(lists) |-> IF i = 1 THEN lists[i] ELSE joined[i - 1] \o lists[i]]

\* The first m of them can be joined.
JoinedUpTo(S, lists, m, joined) ==
    /\ joined \in [1..m -> Seq(S)]
    /\ \A i \in 1..m : joined[i] = IF i = 1 THEN lists[i] ELSE joined[i - 1] \o lists[i]

\* Lists can be joined one after the other.
LEMMA JoinsExist ==
    ASSUME NEW S, NEW lists \in Seq(Seq(S))
    PROVE  \E joined : Joins(lists, joined)
<1> DEFINE n == Len(lists)
           failing == {m \in Nat : m <= n /\ ~\E joined : JoinedUpTo(S, lists, m, joined)}
<1>1. n \in Nat /\ \A i \in 1..n : lists[i] \in Seq(S)
  OBVIOUS
<1>2. failing = {}
  <2> SUFFICES ASSUME failing # {} PROVE FALSE
    OBVIOUS
  <2>1. PICK m \in failing : \A k \in failing : m <= k
    <3>1. failing \in SUBSET Nat
      OBVIOUS
    <3> HIDE DEF failing
    <3> QED BY <3>1, LeastExists
  <2>2. m \in Nat /\ m <= n /\ ~\E joined : JoinedUpTo(S, lists, m, joined)
    BY <2>1
  <2>3. m # 0
    <3>1. JoinedUpTo(S, lists, 0, [i \in 1..0 |-> <<>>])
      BY DEF JoinedUpTo
    <3> QED BY <2>2, <3>1
  <2>4. m - 1 \in Nat /\ m - 1 \notin failing /\ m - 1 <= n
    <3>1. m - 1 \in Nat /\ m - 1 <= n /\ ~(m <= m - 1)
      BY <1>1, <2>2, <2>3
    <3> HIDE DEF failing
    <3> QED BY <2>1, <3>1
  <2>5. PICK before : JoinedUpTo(S, lists, m - 1, before)
    BY <2>4
  <2> DEFINE last == IF m = 1 THEN lists[m] ELSE before[m - 1] \o lists[m]
             joined == [i \in 1..m |-> IF i = m THEN last ELSE before[i]]
  <2>6. before \in [1..(m - 1) -> Seq(S)]
        /\ \A i \in 1..(m - 1) : before[i] = IF i = 1 THEN lists[i] ELSE before[i - 1] \o lists[i]
    BY <2>5 DEF JoinedUpTo
  <2>7. m \in 1..n /\ lists[m] \in Seq(S) /\ (m # 1 => m - 1 \in 1..(m - 1))
    BY <1>1, <2>2, <2>3
  <2>8. last \in Seq(S)
    <3>1. CASE m = 1
      BY <2>7, <3>1
    <3>2. CASE m # 1
      <4>1. before[m - 1] \in Seq(S)
        BY <2>6, <2>7, <3>2
      <4> QED BY <2>7, <3>2, <4>1
    <3> QED BY <3>1, <3>2
  <2>9. joined[m] = last /\ \A i \in 1..(m - 1) : joined[i] = before[i]
    <3> HIDE DEF last
    <3> QED BY <2>2, <2>3
  <2>10. \A i \in 1..m : i = m \/ i \in 1..(m - 1)
    BY <2>2
  <2>11. joined \in [1..m -> Seq(S)]
    <3> HIDE DEF last
    <3> QED BY <2>6, <2>8, <2>10
  <2>12. \A i \in 1..m : joined[i] = IF i = 1 THEN lists[i] ELSE joined[i - 1] \o lists[i]
    <3> SUFFICES ASSUME NEW i \in 1..m
                 PROVE  joined[i] = IF i = 1 THEN lists[i] ELSE joined[i - 1] \o lists[i]
      OBVIOUS
    <3>1. i # 1 => i - 1 \in 1..(m - 1)
      BY <2>2
    <3>2. CASE i = m
      <4>1. joined[i] = last /\ (i # 1 => joined[i - 1] = before[i - 1])
        BY <2>9, <3>1, <3>2
      <4> HIDE DEF joined
      <4> QED BY <3>2, <4>1
    <3>3. CASE i \in 1..(m - 1)
      <4>1. joined[i] = before[i] /\ (i # 1 => joined[i - 1] = before[i - 1])
        BY <2>9, <3>1, <3>3
      <4> HIDE DEF joined
      <4> QED BY <2>6, <3>3, <4>1
    <3> QED BY <2>10, <3>2, <3>3
  <2> HIDE DEF joined, last
  <2> QED BY <2>2, <2>11, <2>12 DEF JoinedUpTo
<1>3. PICK joined : JoinedUpTo(S, lists, n, joined)
  <2>1. n \notin failing /\ n <= n
    BY <1>1, <1>2
  <2> QED BY <1>1, <2>1
<1>4. joined \in [1..n -> Seq(S)]
      /\ \A i \in 1..n : joined[i] = IF i = 1 THEN lists[i] ELSE joined[i - 1] \o lists[i]
  BY <1>3 DEF JoinedUpTo
<1>5. joined = [i \in 1..n |-> joined[i]]
  BY <1>4
<1> QED BY <1>4, <1>5 DEF Joins

\* flat makes a list of everything that is in the lists.
LEMMA FlatList ==
    ASSUME NEW S, NEW lists \in Seq(Seq(S))
    PROVE  /\ FlattenSeq(lists) \in Seq(S)
           /\ ToSet(FlattenSeq(lists)) = UNION {ToSet(lists[i]) : i \in DOMAIN lists}
<1> DEFINE n == Len(lists)
           In(m) == UNION {ToSet(lists[i]) : i \in 1..m}
<1>1. n \in Nat /\ DOMAIN lists = 1..n /\ \A i \in 1..n : lists[i] \in Seq(S)
  OBVIOUS
<1>2. CASE n = 0
  <2>1. lists = <<>> /\ FlattenSeq(lists) = lists
    BY <1>2 DEF FlattenSeq
  <2>2. DOMAIN lists = {}
    BY <2>1
  <2>3. ToSet(lists) = {} /\ UNION {ToSet(lists[i]) : i \in DOMAIN lists} = {}
    BY <2>2 DEF ToSet
  <2>4. lists \in Seq(S)
    BY <2>1
  <2> QED BY <2>1, <2>3, <2>4
<1>3. CASE n # 0
  <2>1. PICK joined : Joins(lists, joined) /\ FlattenSeq(lists) = joined[n]
    <3> DEFINE flat == CHOOSE joined : Joins(lists, joined)
    <3>1. PICK g : Joins(lists, g)
      BY JoinsExist
    <3>2. Joins(lists, flat)
      BY <3>1
    <3>3. FlattenSeq(lists) = flat[n]
      <4>1. Len(lists) # 0
        BY <1>3
      <4> QED BY <4>1, Zenon DEF FlattenSeq, Joins
    <3> QED BY <3>2, <3>3
  <2>2. ASSUME NEW m \in 1..n PROVE joined[m] = IF m = 1 THEN lists[1] ELSE joined[m - 1] \o lists[m]
    BY <2>1 DEF Joins
  <2> DEFINE Good(m) == joined[m] \in Seq(S) /\ ToSet(joined[m]) = In(m)
             failing == {m \in Nat : m \in 1..n /\ ~Good(m)}
  <2>3. failing = {}
    <3> SUFFICES ASSUME failing # {} PROVE FALSE
      OBVIOUS
    <3>1. PICK m \in failing : \A k \in failing : m <= k
      <4>1. failing \in SUBSET Nat
        OBVIOUS
      <4> HIDE DEF failing
      <4> QED BY <4>1, LeastExists
    <3>2. m \in 1..n /\ ~Good(m)
      BY <3>1
    <3>3. CASE m = 1
      <4>1. joined[m] = lists[1] /\ In(m) = ToSet(lists[1])
        BY <2>2, <3>2, <3>3
      <4> QED BY <1>1, <3>2, <3>3, <4>1
    <3>4. CASE m # 1
      <4>1. m - 1 \in Nat /\ m - 1 \in 1..n /\ m - 1 \notin failing
        <5>1. m \in Nat /\ m - 1 \in Nat /\ m - 1 \in 1..n /\ ~(m <= m - 1)
          BY <1>1, <3>2, <3>4
        <5> HIDE DEF failing
        <5> QED BY <3>1, <5>1
      <4>2. Good(m - 1)
        BY <4>1
      <4>3. joined[m] = joined[m - 1] \o lists[m] /\ lists[m] \in Seq(S)
        BY <1>1, <2>2, <3>2, <3>4
      <4>4. In(m) = In(m - 1) \cup ToSet(lists[m])
        <5>1. 1..m = 1..(m - 1) \cup {m}
          BY <3>2
        <5> QED BY <5>1
      <4>5. ASSUME NEW a \in Seq(S), NEW b \in Seq(S)
            PROVE  a \o b \in Seq(S) /\ ToSet(a \o b) = ToSet(a) \cup ToSet(b)
        <5>1. a \o b \in Seq(S) /\ Len(a \o b) = Len(a) + Len(b)
              /\ \A i \in 1..(Len(a) + Len(b)) :
                     (a \o b)[i] = IF i <= Len(a) THEN a[i] ELSE b[i - Len(a)]
          OBVIOUS
        <5>2. \A i \in 1..Len(a) : i \in 1..(Len(a) + Len(b)) /\ (a \o b)[i] = a[i]
          BY <5>1
        <5>3. \A i \in 1..Len(b) : /\ i + Len(a) \in 1..(Len(a) + Len(b))
                                   /\ (a \o b)[i + Len(a)] = b[i]
          BY <5>1
        <5>4. \A i \in 1..(Len(a) + Len(b)) :
                 \/ i \in 1..Len(a) /\ (a \o b)[i] = a[i]
                 \/ i - Len(a) \in 1..Len(b) /\ (a \o b)[i] = b[i - Len(a)]
          BY <5>1
        <5>5. /\ ToSet(a \o b) = {(a \o b)[i] : i \in 1..(Len(a) + Len(b))}
              /\ ToSet(a) = {a[i] : i \in 1..Len(a)} /\ ToSet(b) = {b[i] : i \in 1..Len(b)}
          <6>1. DOMAIN (a \o b) = 1..(Len(a) + Len(b)) /\ DOMAIN a = 1..Len(a) /\ DOMAIN b = 1..Len(b)
            BY <5>1
          <6> QED BY <6>1 DEF ToSet
        <5>6. ToSet(a \o b) \subseteq ToSet(a) \cup ToSet(b)
          BY <5>4, <5>5
        <5>7. ToSet(a) \cup ToSet(b) \subseteq ToSet(a \o b)
          BY <5>2, <5>3, <5>5
        <5> QED BY <5>1, <5>6, <5>7
      <4> HIDE DEF In
      <4>6. joined[m - 1] \in Seq(S) /\ ToSet(joined[m - 1]) = In(m - 1)
        BY <4>2
      <4>7. Good(m)
        BY <4>3, <4>4, <4>5, <4>6
      <4> QED BY <3>2, <4>7
    <3> QED BY <3>3, <3>4
  <2>4. n \in 1..n /\ n \notin failing /\ n \in Nat
    <3>1. n \in 1..n /\ n \in Nat
      BY <1>1, <1>3
    <3> HIDE DEF failing
    <3> QED BY <2>3, <3>1
  <2>5. Good(n)
    BY <2>4
  <2> QED BY <1>1, <2>1, <2>5
<1> QED BY <1>1, <1>2, <1>3

\* The first numbers are finitely many.
LEMMA FirstNumbers == ASSUME NEW n \in Nat PROVE IsFiniteSet(1..n)
BY FS_Interval

\* The three groups that a file is encrypted with anew, of which those without a
\* key are left out.
NewGroups(config) ==
    <<[gcp_kms |-> First(config.gcp_kms), age |-> {securityTeamPublicKey} \ {""}],
      [gcp_kms |-> <<>>, age |-> {backendPublicKey, securityPlatformPublicKey} \ {""}],
      [gcp_kms |-> <<>>, age |-> config.age \ ManagedKeys]>>

\* A key of one of them is in a group of the encrypted file, another for each.
LEMMA GroupsAreWritten ==
    ASSUME NEW config \in SopsConfigs
    PROVE  \E place \in [1..3 -> Nat] :
               /\ \A g \in 1..3 : KeysIn(NewGroups(config)[g]) # {} =>
                      /\ place[g] \in DOMAIN encrypt(config).key_groups
                      /\ encrypt(config).key_groups[place[g]] = NewGroups(config)[g]
               /\ \A g, h \in 1..3 :
                      /\ KeysIn(NewGroups(config)[g]) # {} /\ KeysIn(NewGroups(config)[h]) # {}
                      /\ place[g] = place[h]
                      => g = h
<1> DEFINE groups == NewGroups(config)
           indices == {i \in 1..3 : groups[i].gcp_kms # <<>> \/ groups[i].age # {}}
           written == encrypt(config).key_groups
           place == [g \in 1..3 |-> IF g \in indices THEN Rank(indices, g) ELSE 0]
<1>1. written = ItemsAt(groups, indices)
  BY DEF encrypt, buildKeyGroups, NewGroups
<1>2. indices \in SUBSET (1..3) /\ 3 \in Nat
  OBVIOUS
<1>3. \A g \in 1..3 : KeysIn(groups[g]) # {} => g \in indices
  BY DEF KeysIn, ToSet
<1> HIDE DEF groups, indices, written
<1>4. Cardinality(indices) \in Nat
  <2>1. IsFiniteSet(1..3)
    BY FirstNumbers
  <2> QED BY <1>2, <2>1, FS_Subset, FS_CardinalityType
<1>5. \A i \in indices : Rank(indices, i) \in 1..Cardinality(indices)
  BY <1>2, RankIsNumber
<1>6. \A i, k \in indices : Rank(indices, i) = Rank(indices, k) => i = k
  BY <1>2, RanksDiffer
<1>7. DOMAIN written = 1..Cardinality(indices)
      /\ \A n \in 1..Cardinality(indices) :
             written[n] = groups[CHOOSE i \in indices : Rank(indices, i) = n]
  BY <1>1 DEF ItemsAt, Rank
<1>8. ASSUME NEW i \in indices
      PROVE  written[Rank(indices, i)] = groups[i]
  <2> DEFINE n == Rank(indices, i)
             k == CHOOSE j \in indices : Rank(indices, j) = n
  <2>1. k \in indices /\ Rank(indices, k) = Rank(indices, i)
    OBVIOUS
  <2>2. n \in 1..Cardinality(indices)
    BY <1>5
  <2>3. written[n] = groups[k]
    BY <1>7, <2>2
  <2> HIDE DEF k
  <2> QED BY <1>6, <2>1, <2>3
<1>9. place \in [1..3 -> Nat]
  BY <1>4, <1>5
<1>10. \A g \in indices : place[g] = Rank(indices, g)
  BY <1>2
<1> HIDE DEF place
<1>11. \A g \in indices : place[g] \in DOMAIN written /\ written[place[g]] = groups[g]
  BY <1>5, <1>7, <1>8, <1>10
<1>12. \A g, h \in indices : place[g] = place[h] => g = h
  BY <1>6, <1>10
<1>13. /\ \A g \in 1..3 : KeysIn(groups[g]) # {} =>
               place[g] \in DOMAIN written /\ written[place[g]] = groups[g]
       /\ \A g, h \in 1..3 :
               KeysIn(groups[g]) # {} /\ KeysIn(groups[h]) # {} /\ place[g] = place[h] => g = h
  BY <1>3, <1>11, <1>12
<1> QED BY <1>9, <1>13 DEF groups, written

\* What comes into each of the three groups.
Together(node, g) ==
    LET groups == node.key_groups
        kms == UNION {ToSet(groups[i].gcp_kms) : i \in DOMAIN groups}
        age == UNION {groups[i].age : i \in DOMAIN groups}
    IN  IF g = 1 THEN kms \cup {securityTeamPublicKey}
        ELSE IF g = 2 THEN {backendPublicKey, securityPlatformPublicKey}
        ELSE age \ ManagedKeys

\* No two groups of a file have keys that come together.
LEMMA ApartStaysApart ==
    ASSUME NEW node, Regroupable(node), NEW g \in 1..3,
           NEW i \in DOMAIN node.key_groups, NEW j \in DOMAIN node.key_groups,
           NEW k \in KeysIn(node.key_groups[i]), NEW l \in KeysIn(node.key_groups[j]),
           k \in Together(node, g), l \in Together(node, g)
    PROVE  i = j
<1> DEFINE groups == node.key_groups
           kms == UNION {ToSet(groups[n].gcp_kms) : n \in DOMAIN groups}
           age == UNION {groups[n].age : n \in DOMAIN groups}
           joined == {kms \cup {securityTeamPublicKey},
                      {backendPublicKey, securityPlatformPublicKey}, age \ ManagedKeys}
<1>1. \A keys \in joined : \A m, n \in DOMAIN groups :
          {} \notin {keys \cap KeysIn(groups[m]), keys \cap KeysIn(groups[n])} => m = n
  BY DEF Regroupable
<1>2. Together(node, g) \in joined
  BY DEF Together
<1> HIDE DEF joined
<1>3. Together(node, g) \cap KeysIn(groups[i]) # {} /\ Together(node, g) \cap KeysIn(groups[j]) # {}
  OBVIOUS
<1> QED BY <1>1, <1>2, <1>3

\* The page gets the KMS keys and those of developers.
LEMMA ExtractedKeys ==
    ASSUME NEW node \in SopsConfigs
    PROVE  LET config == extractSopsConfig(node)
               groups == node.key_groups
               kms == UNION {ToSet(groups[i].gcp_kms) : i \in DOMAIN groups}
               age == UNION {groups[i].age : i \in DOMAIN groups}
           IN  /\ config \in SopsConfigs /\ config.shamir_threshold = node.shamir_threshold
               /\ config.age = age \ ManagedKeys
               /\ kms # {} => ToSet(config.gcp_kms) = kms
<1> DEFINE groups == node.key_groups
           lists == [i \in DOMAIN groups |-> groups[i].gcp_kms]
           flat == FlattenSeq(lists)
           kms == UNION {ToSet(groups[i].gcp_kms) : i \in DOMAIN groups}
           age == UNION {groups[i].age : i \in DOMAIN groups}
           config == extractSopsConfig(node)
<1>1. /\ groups \in Seq(KeyGroups) /\ node.gcp_kms \in Seq(STRING)
      /\ node.shamir_threshold \in Nat
  BY DEF SopsConfigs
<1>2. \A i \in DOMAIN groups : groups[i].gcp_kms \in Seq(STRING) /\ groups[i].age \subseteq STRING
  <2> SUFFICES ASSUME NEW i \in DOMAIN groups
               PROVE  groups[i].gcp_kms \in Seq(STRING) /\ groups[i].age \subseteq STRING
    OBVIOUS
  <2>1. groups[i] \in KeyGroups
    BY <1>1
  <2> HIDE DEF groups
  <2> QED BY <2>1 DEF KeyGroups
<1>3. lists \in Seq(Seq(STRING)) /\ DOMAIN lists = DOMAIN groups
  <2>1. DOMAIN groups = 1..Len(groups) /\ Len(groups) \in Nat
    BY <1>1
  <2> HIDE DEF groups
  <2>2. lists \in [1..Len(groups) -> Seq(STRING)]
    BY <1>2, <2>1
  <2> QED BY <2>1, <2>2
<1>4. flat \in Seq(STRING) /\ ToSet(flat) = UNION {ToSet(lists[i]) : i \in DOMAIN lists}
  BY <1>3, FlatList
<1>5. ToSet(flat) = kms
  <2>1. \A i \in DOMAIN groups : lists[i] = groups[i].gcp_kms
    OBVIOUS
  <2> HIDE DEF lists, flat
  <2> QED BY <1>3, <1>4, <2>1
<1>6. age \subseteq STRING
  BY <1>2
<1>7. config = [shamir_threshold |-> node.shamir_threshold,
                gcp_kms |-> IF flat # <<>> THEN flat ELSE node.gcp_kms,
                age |-> age \ ManagedKeys, key_groups |-> <<>>]
  BY DEF extractSopsConfig
<1>8. kms # {} => flat # <<>>
  <2>1. flat = <<>> => ToSet(flat) = {}
    <3> HIDE DEF flat
    <3>1. DOMAIN <<>> = {}
      OBVIOUS
    <3> QED BY <3>1 DEF ToSet
  <2> HIDE DEF flat, kms
  <2> QED BY <1>5, <2>1
<1>9. <<>> \in Seq(KeyGroups)
  OBVIOUS
<1> HIDE DEF config, flat, lists, age, kms, groups
<1>10. config \in SopsConfigs
  BY <1>1, <1>4, <1>6, <1>7, <1>9 DEF SopsConfigs
<1>11. config.shamir_threshold = node.shamir_threshold /\ config.age = age \ ManagedKeys
       /\ (kms # {} => ToSet(config.gcp_kms) = kms)
  BY <1>5, <1>7, <1>8
<1> QED BY <1>10, <1>11 DEF config, groups, kms, age

\* Every key of a file comes into one of the new groups, with those it may be
\* together with.
LEMMA KeysHaveGroups ==
    ASSUME NEW node \in SopsConfigs, Regroupable(node),
           NEW i \in DOMAIN node.key_groups, NEW k \in KeysIn(node.key_groups[i])
    PROVE  \E g \in 1..3 : /\ k \in KeysIn(NewGroups(extractSopsConfig(node))[g])
                           /\ k \in Together(node, g)
<1> DEFINE config == extractSopsConfig(node)
           groups == node.key_groups
           kms == UNION {ToSet(groups[n].gcp_kms) : n \in DOMAIN groups}
           age == UNION {groups[n].age : n \in DOMAIN groups}
           new == NewGroups(config)
<1>1. /\ config \in SopsConfigs /\ config.age = age \ ManagedKeys
      /\ kms # {} => ToSet(config.gcp_kms) = kms
  BY ExtractedKeys
<1>2. "" \notin kms \cup age /\ \A a, b \in kms : a = b
  BY DEF Regroupable
<1>3. k \in kms \/ k \in age
  BY DEF KeysIn
<1>4. /\ KeysIn(new[1]) = ({securityTeamPublicKey} \ {""}) \cup ToSet(First(config.gcp_kms))
      /\ KeysIn(new[2]) = ({backendPublicKey, securityPlatformPublicKey} \ {""}) \cup ToSet(<<>>)
      /\ KeysIn(new[3]) = (config.age \ ManagedKeys) \cup ToSet(<<>>)
  BY DEF NewGroups, KeysIn
<1>5. /\ Together(node, 1) = kms \cup {securityTeamPublicKey}
      /\ Together(node, 2) = {backendPublicKey, securityPlatformPublicKey}
      /\ Together(node, 3) = age \ ManagedKeys
  BY DEF Together
<1> HIDE DEF new, kms, age, groups
<1>6. CASE k \in kms
  <2>1. config.gcp_kms \in Seq(STRING) /\ ToSet(config.gcp_kms) = kms
    BY <1>1, <1>6 DEF SopsConfigs
  <2> HIDE DEF config
  <2>2. config.gcp_kms # <<>>
    BY <1>6, <2>1 DEF ToSet
  <2>3. 1 \in DOMAIN config.gcp_kms
    BY <2>1, <2>2
  <2>4. config.gcp_kms[1] \in kms
    BY <2>1, <2>3 DEF ToSet
  <2>5. config.gcp_kms[1] = k
    BY <1>2, <1>6, <2>4
  <2>6. k \in ToSet(First(config.gcp_kms))
    <3>1. First(config.gcp_kms) = <<k>>
      BY <2>2, <2>5 DEF First
    <3>2. 1 \in DOMAIN <<k>> /\ <<k>>[1] = k
      OBVIOUS
    <3> QED BY <3>1, <3>2 DEF ToSet
  <2>7. k \in KeysIn(new[1]) /\ k \in Together(node, 1)
    BY <1>4, <1>5, <1>6, <2>6
  <2> QED BY <2>7 DEF new, config
<1>7. CASE k \in age
  <2>1. k # ""
    BY <1>2, <1>7
  <2>2. CASE k = securityTeamPublicKey
    <3>1. k \in KeysIn(new[1]) /\ k \in Together(node, 1)
      BY <1>4, <1>5, <2>1, <2>2
    <3> QED BY <3>1 DEF new
  <2>3. CASE k \in {backendPublicKey, securityPlatformPublicKey}
    <3>1. k \in KeysIn(new[2]) /\ k \in Together(node, 2)
      BY <1>4, <1>5, <2>1, <2>3
    <3> QED BY <3>1 DEF new
  <2>4. CASE k \notin ManagedKeys
    <3>1. k \in KeysIn(new[3]) /\ k \in Together(node, 3)
      BY <1>1, <1>4, <1>5, <1>7, <2>4
    <3> QED BY <3>1 DEF new
  <2> QED BY <2>2, <2>3, <2>4 DEF ManagedKeys
<1> QED BY <1>3, <1>6, <1>7

\* A file that is encrypted anew can be opened by whoever could open it.
LEMMA StillOpens ==
    ASSUME NEW node \in SopsConfigs, Regroupable(node), NEW keys, Opens(keys, node)
    PROVE  Opens(keys, encrypt(extractSopsConfig(node)))
<1> DEFINE config == extractSopsConfig(node)
           again == encrypt(config)
           new == NewGroups(config)
           old == node.key_groups
           A == {i \in DOMAIN old : keys \cap KeysIn(old[i]) # {}}
           B == {n \in DOMAIN again.key_groups : keys \cap KeysIn(again.key_groups[n]) # {}}
<1>1. config \in SopsConfigs /\ config.shamir_threshold = node.shamir_threshold
  BY ExtractedKeys
<1>2. again.shamir_threshold = node.shamir_threshold
  BY <1>1 DEF encrypt
<1>3. PICK place \in [1..3 -> Nat] :
          /\ \A g \in 1..3 : KeysIn(new[g]) # {} =>
                 /\ place[g] \in DOMAIN again.key_groups
                 /\ again.key_groups[place[g]] = new[g]
          /\ \A g, h \in 1..3 : /\ KeysIn(new[g]) # {} /\ KeysIn(new[h]) # {}
                                /\ place[g] = place[h]
                                => g = h
  BY <1>1, GroupsAreWritten
<1> DEFINE Into(i, g) == \E k \in keys \cap KeysIn(old[i]) :
                             k \in KeysIn(new[g]) /\ k \in Together(node, g)
           group == [i \in A |-> CHOOSE g \in 1..3 : Into(i, g)]
           to == [i \in A |-> place[group[i]]]
<1>4. \A i \in A : \E g \in 1..3 : Into(i, g)
  BY KeysHaveGroups
<1> HIDE DEF new, config, again
<1>5. \A i \in A : group[i] \in 1..3 /\ Into(i, group[i])
  <2> SUFFICES ASSUME NEW i \in A PROVE group[i] \in 1..3 /\ Into(i, group[i])
    OBVIOUS
  <2>1. group[i] = CHOOSE g \in 1..3 : Into(i, g)
    OBVIOUS
  <2>2. \E g \in 1..3 : Into(i, g)
    BY <1>4
  <2> HIDE DEF Into, group
  <2> QED BY <2>1, <2>2
<1> HIDE DEF group
<1>6. \A i \in A : to[i] \in B
  <2> SUFFICES ASSUME NEW i \in A PROVE to[i] \in B
    OBVIOUS
  <2>1. PICK k \in keys \cap KeysIn(old[i]) : k \in KeysIn(new[group[i]])
    BY <1>5
  <2>2. to[i] = place[group[i]] /\ group[i] \in 1..3
    BY <1>5
  <2>3. to[i] \in DOMAIN again.key_groups /\ again.key_groups[to[i]] = new[group[i]]
    BY <1>3, <2>1, <2>2
  <2> HIDE DEF to
  <2> QED BY <2>1, <2>3
<1>7. ASSUME NEW i \in A, NEW j \in A, to[i] = to[j] PROVE i = j
  <2>1. /\ to[i] = place[group[i]] /\ group[i] \in 1..3 /\ to[j] = place[group[j]]
        /\ group[j] \in 1..3
    BY <1>5
  <2>2. PICK k \in keys \cap KeysIn(old[i]) : k \in KeysIn(new[group[i]]) /\ k \in Together(node, group[i])
    BY <1>5
  <2>3. PICK l \in keys \cap KeysIn(old[j]) : l \in KeysIn(new[group[j]]) /\ l \in Together(node, group[j])
    BY <1>5
  <2>4. group[i] = group[j]
    BY <1>3, <1>7, <2>1, <2>2, <2>3
  <2>5. i \in DOMAIN old /\ j \in DOMAIN old
    OBVIOUS
  <2> QED BY <2>1, <2>2, <2>3, <2>4, <2>5, ApartStaysApart
<1>8. IsFiniteSet(B) /\ IsFiniteSet(A)
  <2>1. old \in Seq(KeyGroups)
    BY DEF SopsConfigs
  <2>2. IsFiniteSet(DOMAIN old)
    <3>1. DOMAIN old = 1..Len(old) /\ Len(old) \in Nat
      BY <2>1
    <3> QED BY <3>1, FirstNumbers
  <2>3. \E n \in Nat : DOMAIN again.key_groups = 1..n
    <3> DEFINE indices == {i \in 1..3 : new[i].gcp_kms # <<>> \/ new[i].age # {}}
    <3>1. again.key_groups = ItemsAt(new, indices)
      BY DEF again, encrypt, buildKeyGroups, new, NewGroups
    <3>2. indices \in SUBSET (1..3)
      OBVIOUS
    <3> HIDE DEF indices
    <3>3. Cardinality(indices) \in Nat
      <4>1. IsFiniteSet(1..3)
        BY FirstNumbers
      <4> QED BY <3>2, <4>1, FS_Subset, FS_CardinalityType
    <3> QED BY <3>1, <3>3 DEF ItemsAt
  <2>4. IsFiniteSet(DOMAIN again.key_groups)
    <3>1. PICK n \in Nat : DOMAIN again.key_groups = 1..n
      BY <2>3
    <3>2. IsFiniteSet(1..n)
      BY FirstNumbers
    <3> QED BY <3>1, <3>2
  <2> QED BY <2>2, <2>4, FS_Subset
<1>9. Cardinality(A) <= Cardinality(B)
  <2>1. to \in [A -> B] /\ \A i, j \in A : to[i] = to[j] => i = j
    BY <1>6, <1>7
  <2>2. to \in Injection(A, B)
    BY <2>1 DEF Injection, IsInjective
  <2> HIDE DEF A, B, to
  <2> QED BY <1>8, <2>2, FS_Injection
<1>10. Cardinality(A) >= node.shamir_threshold
  BY DEF Opens
<1>11. Cardinality(A) \in Nat /\ Cardinality(B) \in Nat /\ node.shamir_threshold \in Nat
  BY <1>8, FS_CardinalityType DEF SopsConfigs
<1>12. Cardinality(B) >= again.shamir_threshold
  BY <1>2, <1>9, <1>10, <1>11
<1> QED BY <1>12 DEF Opens, again, config


\* The keys the page holds, in what is selected, in what a failed save would bring
\* back and in the closures of the rows.
PageHolds(p, config) ==
    /\ p.selected.content # None => p.selected.sopsConfig = config
    /\ p.update = "loading" => p.request.old.sopsConfig = config

TableHolds(t, config) == \A id \in DOMAIN t.rows : t.rows[id].sopsConfig = config

\* The file is as it was at first, or was encrypted with the keys that the page
\* got then and still holds.
KeysFrom(node) ==
    LET config == extractSopsConfig(node)
    IN  /\ node \in SopsConfigs /\ Regroupable(node)
        /\ files.sops \in {node, encrypt(config)}
        /\ content = None => files.sops = node
        /\ PageHolds(page, config) /\ TableHolds(table, config)

\* The invariant of the keys.
KeysInv == \E node : KeysFrom(node)

\* The table is rendered with the keys that it has.
LEMMA RenderedKeys ==
    ASSUME NEW config, NEW t, TableHolds(t, config), NEW p, PageHolds(p, config), NEW d
    PROVE  TableHolds(ScenarioTable(t, p, d), config)
<1> DEFINE u == ScenarioTable(t, p, d)
<1>1. CASE d.step \/ p.selected.content = None
  <2>1. u = Unmounted
    BY <1>1 DEF ScenarioTable
  <2> HIDE DEF u
  <2>2. DOMAIN u.rows = {}
    BY <2>1 DEF Unmounted
  <2> QED BY <2>2 DEF TableHolds, u
<1>2. CASE ~d.step /\ p.selected.content # None
  <2> DEFINE takesOver == ~t.mounted \/ p.update = "success"
             scenarios == IF ~takesOver THEN t.scenarios
                          ELSE IF ~t.mounted THEN p.selected.content.scenarios
                          ELSE Synchronised(t.scenarios, p.selected.content.scenarios)
             rows == [id \in Ids(scenarios) |->
                         IF id \in DOMAIN t.rows THEN t.rows[id] ELSE p.selected]
  <2>1. u = [mounted |-> TRUE, scenarios |-> scenarios,
             objects |-> IF takesOver THEN p.selected.objects ELSE t.objects,
             early |-> IF t.mounted THEN t.early ELSE p.update = "loading", rows |-> rows]
    BY <1>2 DEF ScenarioTable
  <2>2. \A id \in DOMAIN rows : rows[id] = p.selected \/ (id \in DOMAIN t.rows /\ rows[id] = t.rows[id])
    <3> HIDE DEF scenarios
    <3> QED OBVIOUS
  <2> HIDE DEF scenarios, rows, u, takesOver
  <2>3. u.rows = rows
    BY <2>1
  <2> QED BY <1>2, <2>2, <2>3 DEF TableHolds, PageHolds, u
<1> QED BY <1>1, <1>2

\* A save holds the keys of what it saves,
LEMMA SavedKeys ==
    ASSUME NEW config, NEW selected, selected.sopsConfig = config,
           NEW c, NEW objects, NEW after, NEW p, p = UpdateRiSc(selected, c, objects, after)
    PROVE  PageHolds(p, config)
<1> DEFINE requires == \/ selected.migrationStatus.migrationRequiresNewApproval
                       \/ requiresNewApproval(selected.content, c)
           updated == [content |-> c, objects |-> objects,
                       status |-> IF requires THEN "Draft" ELSE selected.status,
                       migrationStatus |-> NoChanges, sopsConfig |-> selected.sopsConfig]
           request == [old |-> selected, new |-> updated, requiresApproval |-> requires,
                       body |-> riScToDTO(c), after |-> after, answer |-> "none"]
<1>1. p = [selected |-> updated, update |-> "loading", request |-> request]
  BY DEF UpdateRiSc
<1>2. updated.sopsConfig = config /\ request.old = selected
  OBVIOUS
<1> HIDE DEF updated, request
<1>3. p.selected = updated /\ p.request = request
  BY <1>1
<1> QED BY <1>2, <1>3 DEF PageHolds

\* and so does a page of which only something else has changed.
LEMMA SameKeys ==
    ASSUME NEW node, KeysFrom(node), NEW p,
           p.update = "loading" =>
               page.update = "loading" /\ p.request.old.sopsConfig = page.request.old.sopsConfig,
           p.selected.sopsConfig = page.selected.sopsConfig,
           p.selected.content = page.selected.content,
           page' = p, table' = table \/ table' = ScenarioTable(table, p, drawer'),
           files'.sops = files.sops
    PROVE  KeysFrom(node)'
<1> DEFINE config == extractSopsConfig(node)
<1>1. PageHolds(p, config) /\ TableHolds(table, config)
  BY DEF KeysFrom, PageHolds
<1>2. TableHolds(table', config)
  BY <1>1, RenderedKeys
<1> QED BY <1>1, <1>2 DEF KeysFrom, content

\* The page is rendered, or saves what is shown,
LEMMA RenderedKeepsKeys ==
    ASSUME EditorInv, EditorInv', NEW node, KeysFrom(node), Rerenders \/ SavesShown
    PROVE  KeysFrom(node)'
<1> DEFINE config == extractSopsConfig(node)
<1>1. CASE Rerenders
  <2>1. page' = page /\ files' = files
    BY <1>1 DEF Rerenders
  <2>2. CASE \E from, to : MoveRowLocal(from, to)
    <3>1. PICK from, to : MoveRowLocal(from, to)
      BY <2>2
    <3>2. table'.rows = table.rows
      BY <3>1 DEF MoveRowLocal, EditorInv, TableOK
    <3> QED BY <2>1, <3>2 DEF KeysFrom, TableHolds, content
  <2> QED BY <1>1, <2>1, <2>2, SameKeys DEF Rerenders
<1>2. CASE SavesShown
  <2>1. PICK c, objects, after : page' = UpdateRiSc(page.selected, c, objects, after)
    BY <1>2 DEF SavesShown
  <2>2. files' = files /\ table' = ScenarioTable(table, page', drawer')
    BY <1>2 DEF SavesShown
  <2>3. content # None /\ content' # None
    BY <2>1, RequestParts DEF EditorInv, PageOK, RequestOK, content
  <2>4. page.selected.sopsConfig = config
    BY <2>3 DEF KeysFrom, PageHolds, content
  <2>5. PageHolds(page', config)
    BY <2>1, <2>4, SavedKeys
  <2>6. TableHolds(table', config)
    BY <2>2, <2>5, RenderedKeys DEF KeysFrom
  <2> QED BY <2>2, <2>3, <2>5, <2>6 DEF KeysFrom
<1> QED BY <1>1, <1>2

\* or saves what a row has,
LEMMA DroppingKeepsKeys ==
    ASSUME EditorInv, EditorInv', NEW node, KeysFrom(node), NEW id, DropRow(id)
    PROVE  KeysFrom(node)'
<1> DEFINE config == extractSopsConfig(node)
           row == table.rows[id]
           c == [row.content EXCEPT !.scenarios = table.scenarios]
<1>1. /\ id \in DOMAIN table.rows /\ AtTable /\ files' = files
      /\ Show(UpdateRiSc(row, c, table.objects, "nothing"), table, drawer)
  BY DEF DropRow
<1>2. row.sopsConfig = config /\ content # None
  BY <1>1 DEF KeysFrom, TableHolds, AtTable
<1>3. page' = UpdateRiSc(row, c, table.objects, "nothing")
      /\ table' = ScenarioTable(table, page', drawer')
  BY <1>1 DEF Show
<1> HIDE DEF row, c
<1>4. content' # None
  BY <1>3, RequestParts DEF EditorInv, PageOK, RequestOK, content
<1>5. PageHolds(page', config)
  BY <1>2, <1>3, SavedKeys
<1>6. TableHolds(table', config)
  BY <1>3, <1>5, RenderedKeys DEF KeysFrom
<1> QED BY <1>1, <1>2, <1>4, <1>5, <1>6 DEF KeysFrom

\* or has a review approved.
LEMMA ApprovingKeepsKeys ==
    ASSUME EditorInv, NEW node, KeysFrom(node), ApproveRiSc PROVE KeysFrom(node)'
<1>1. PageOK(page) /\ SelectionOK(page.selected) /\ FilesOK
  BY DEF EditorInv, PageOK
<1>2. CASE files.pr
  <2> DEFINE p == [page EXCEPT !.update = "error"]
  <2>1. Show(p, table, drawer) /\ files' = files
    BY <1>2 DEF ApproveRiSc
  <2>2. page' = p /\ table' = ScenarioTable(table, p, drawer')
    BY <2>1 DEF Show
  <2>3. p.update = "error" /\ p.selected = page.selected
    BY <1>1 DEF PageOK
  <2> HIDE DEF p
  <2> QED BY <2>1, <2>2, <2>3, SameKeys
<1>3. CASE ~files.pr
  <2> DEFINE p == [page EXCEPT !.update = "success", !.selected.status = "SentForApproval"]
             s == [page.selected EXCEPT !.status = "SentForApproval"]
  <2>1. Show(p, table, drawer) /\ files' = [files EXCEPT !.pr = files.draft # None]
    BY <1>3 DEF ApproveRiSc
  <2>2. page' = p /\ table' = ScenarioTable(table, p, drawer')
    BY <2>1 DEF Show
  <2>3. p = [selected |-> s, update |-> "success", request |-> page.request]
    <3> DEFINE q == [page EXCEPT !.update = "success"]
    <3>1. q = [selected |-> page.selected, update |-> "success", request |-> page.request]
      BY <1>1 DEF PageOK
    <3>2. p = [q EXCEPT !.selected.status = "SentForApproval"]
      OBVIOUS
    <3> HIDE DEF q, p
    <3> QED BY <3>1, <3>2
  <2>4. s.content = page.selected.content /\ s.sopsConfig = page.selected.sopsConfig
    BY <1>1 DEF SelectionOK
  <2> HIDE DEF s
  <2>5. p.update = "success" /\ p.selected = s
    BY <2>3
  <2>6. files'.sops = files.sops
    BY <1>1, <2>1 DEF FilesOK
  <2> HIDE DEF p
  <2> QED BY <2>2, <2>4, <2>5, <2>6, SameKeys
<1> QED BY <1>2, <1>3

\* The service encrypts with the keys that the page got.
LEMMA ServingKeepsKeys ==
    ASSUME EditorInv, NEW node, KeysFrom(node), Serve \/ Fail
    PROVE  /\ KeysFrom(node)'
           /\ files'.sops \in {files.sops, encrypt(extractSopsConfig(node))}
<1> DEFINE q == page.request
<1>1. /\ ~Quiet /\ table' = table
      /\ \E answer : page' = [page EXCEPT !.request.answer = answer]
      /\ files' = files \/ files' = Stored(files, q)
  BY DEF Serve, Fail
<1>2. /\ PageOK(page) /\ RequestOK(q, page.selected) /\ FilesOK /\ content # None
      /\ page.update = "loading"
  BY <1>1 DEF EditorInv, PageOK, RequestOK, Quiet, content
<1>3. PICK answer : page' = [page EXCEPT !.request.answer = answer]
  BY <1>1
<1>4. page'.selected = page.selected /\ page'.update = page.update
      /\ page'.request = [q EXCEPT !.answer = answer]
  BY <1>2, <1>3 DEF PageOK
<1>5. page'.request.old = q.old
  BY <1>2, <1>4 DEF RequestOK
<1>6. page.selected.sopsConfig = extractSopsConfig(node) /\ q.new = page.selected
  BY <1>2 DEF KeysFrom, PageHolds, RequestOK, content
<1>7. files'.sops \in {files.sops, encrypt(extractSopsConfig(node))}
  <2>1. CASE files' = Stored(files, q)
    <3>1. files'.sops = encrypt(q.new.sopsConfig)
      BY <1>2, <2>1 DEF Stored, FilesOK
    <3> QED BY <1>6, <3>1
  <2> QED BY <1>1, <2>1
<1>8. PageHolds(page', extractSopsConfig(node)) /\ TableHolds(table', extractSopsConfig(node))
  BY <1>1, <1>4, <1>5 DEF KeysFrom, PageHolds
<1>9. content' # None
  BY <1>2, <1>4 DEF content
<1> QED BY <1>7, <1>8, <1>9 DEF KeysFrom

\* What was sent, or what it replaced, is shown with the same keys,
LEMMA AnsweringKeepsKeys ==
    ASSUME EditorInv, NEW node, KeysFrom(node), OnSaved \/ OnError PROVE KeysFrom(node)'
<1> DEFINE config == extractSopsConfig(node)
<1>1. PICK s, update, d :
          /\ s \in {page.request.new, page.request.old} /\ update # "loading" /\ ~Quiet
          /\ Show([selected |-> s, update |-> update, request |-> None], table, d)
          /\ files' = files
  BY DEF OnSaved, OnError, Rest
<1>2. /\ RequestOK(page.request, page.selected) /\ content # None /\ page.update = "loading"
      /\ page.request.new = page.selected /\ page.request.old.content # None
  BY <1>1 DEF EditorInv, PageOK, RequestOK, Quiet, content
<1>3. s.sopsConfig = config /\ s.content # None
  BY <1>1, <1>2 DEF KeysFrom, PageHolds, content
<1> DEFINE p == [selected |-> s, update |-> update, request |-> None]
<1>4. page' = p /\ table' = ScenarioTable(table, p, drawer')
  BY <1>1 DEF Show
<1>5. p.selected = s /\ p.update = update
  OBVIOUS
<1> HIDE DEF p
<1>6. PageHolds(p, config)
  BY <1>1, <1>3, <1>5 DEF PageHolds
<1>7. TableHolds(table', config)
  BY <1>4, <1>6, RenderedKeys DEF KeysFrom
<1> QED BY <1>1, <1>2, <1>3, <1>4, <1>5, <1>6, <1>7 DEF KeysFrom, content

\* and what is fetched, with those of the file.
LEMMA FetchingKeepsKeys ==
    ASSUME EditorInv, NEW node, KeysFrom(node), FetchRiScs PROVE KeysFrom(node)'
<1> DEFINE config == extractSopsConfig(node)
           s == Selected(files)
           p == [page EXCEPT !.selected = s]
<1>1. content = None /\ Show(p, table, drawer) /\ files' = files
  BY DEF FetchRiScs, content
<1>2. s.sopsConfig = config
  BY <1>1 DEF KeysFrom, Selected
<1> HIDE DEF s
<1>3. page.update # "loading" /\ PageOK(page)
  BY <1>1 DEF EditorInv, PageOK, RequestOK, content
<1>4. p.selected = s /\ p.update = page.update
  BY <1>3 DEF PageOK
<1>5. page' = p /\ table' = ScenarioTable(table, p, drawer')
  BY <1>1 DEF Show
<1> HIDE DEF p
<1>6. PageHolds(p, config)
  BY <1>2, <1>3, <1>4 DEF PageHolds
<1>7. TableHolds(table', config)
  BY <1>5, <1>6, RenderedKeys DEF KeysFrom
<1> QED BY <1>1, <1>5, <1>6, <1>7 DEF KeysFrom

\* In every step the file keeps its keys, or is encrypted anew with those that the
\* page got from it.
LEMMA KeysStep ==
    ASSUME EditorInv, EditorInv', NEW node, KeysFrom(node), [Next]_vars
    PROVE  /\ KeysFrom(node)'
           /\ files'.sops \in {files.sops, encrypt(extractSopsConfig(node))}
<1>1. ASSUME UNCHANGED <<page, table, files>> PROVE Rerenders \/ KeysFrom(node)'
  BY <1>1 DEF KeysFrom, content
<1>2. CASE Rerenders \/ SavesShown
  BY <1>2, RenderedKeepsKeys DEF Rerenders, SavesShown
<1>3. CASE \E id \in ScenarioId : DropRow(id)
  BY <1>3, DroppingKeepsKeys DEF DropRow
<1>4. CASE ApproveRiSc
  <2>1. files'.sops = files.sops
    BY <1>4 DEF ApproveRiSc, EditorInv, FilesOK
  <2> QED BY <1>4, <2>1, ApprovingKeepsKeys
<1>5. CASE Serve \/ Fail
  BY <1>5, ServingKeepsKeys
<1>6. CASE OnSaved \/ OnError
  BY <1>6, AnsweringKeepsKeys DEF OnSaved, OnError, Rest
<1>7. CASE FetchRiScs
  BY <1>7, FetchingKeepsKeys DEF FetchRiScs
<1>8. CASE OnDifference \/ OnDifferenceError \/ UNCHANGED vars
  BY <1>8 DEF OnDifference, OnDifferenceError, Rest, vars, KeysFrom, content
<1>9. CASE InDrawer \/ InWizard \/ InTable \/ InPage
  BY <1>2, <1>3, <1>4, <1>9, DrawerSaves, TableSaves, PageSaves
<1> QED BY <1>2, <1>5, <1>6, <1>7, <1>8, <1>9 DEF Next, Answers

\* Every step keeps the invariant of the keys.
LEMMA KeysInvStep == EditorInv /\ EditorInv' /\ KeysInv /\ [Next]_vars => KeysInv'
<1> SUFFICES ASSUME EditorInv, EditorInv', KeysInv, [Next]_vars PROVE KeysInv'
  OBVIOUS
<1>1. PICK node : KeysFrom(node)
  BY DEF KeysInv
<1>2. KeysFrom(node)'
  BY <1>1, KeysStep
<1> QED BY <1>2 DEF KeysInv

\* At first the keys are those of a file.
LEMMA KeysInvInit == Init => KeysInv
<1> SUFFICES ASSUME Init PROVE KeysInv
  OBVIOUS
<1>1. PICK f \in Files : files = [published |-> f.published, draft |-> f.draft, pr |-> f.pr,
                                  sops |-> f.sops]
  BY DEF Init
<1>2. files.sops = f.sops
  BY <1>1
<1>3. f.sops \in SopsConfigs /\ Regroupable(f.sops)
  BY KeysAssumption
<1>4. page.selected.content = None /\ page.update = "idle" /\ DOMAIN table.rows = {}
  BY DEF Init, NotSelected, Unmounted
<1>5. KeysFrom(f.sops)
  BY <1>2, <1>3, <1>4 DEF KeysFrom, PageHolds, TableHolds, content
<1> QED BY <1>5 DEF KeysInv

\* No step shuts anyone out.
LEMMA KeysAreKeptStep ==
    ASSUME EditorInv, EditorInv', KeysInv, [Next]_vars, files.sops' # files.sops,
           NEW keys, Opens(keys, files.sops)
    PROVE  Opens(keys, files.sops')
<1>1. PICK node : KeysFrom(node)
  BY DEF KeysInv
<1>2. files'.sops = encrypt(extractSopsConfig(node))
  BY <1>1, KeysStep
<1>3. files.sops = node /\ node \in SopsConfigs /\ Regroupable(node)
  BY <1>1, <1>2 DEF KeysFrom
<1> QED BY <1>2, <1>3, StillOpens

\* SopsCryptoService.ts:80: whoever could open a file, alone or with the keys of
\* others, can still open it when it was fetched and saved through the page.
THEOREM KeysStayWithTheFile == Spec => KeysAreKept
<1>1. EditorInv /\ EditorInv' /\ KeysInv /\ [Next]_vars =>
          [files.sops' # files.sops =>
               \A keys \in SUBSET KeysOf(files.sops) :
                   Opens(keys, files.sops) => Opens(keys, files.sops')]_vars
  BY KeysAreKeptStep
<1>2. KeysAreKept <=> [][files.sops' # files.sops =>
                            \A keys \in SUBSET KeysOf(files.sops) :
                                Opens(keys, files.sops) => Opens(keys, files.sops')]_vars
  BY DEF KeysAreKept
<1> QED BY <1>1, <1>2, EditorInvInit, EditorInvStep, KeysInvInit, KeysInvStep, PTL DEF Spec
=============================================================================
