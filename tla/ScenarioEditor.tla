---------------------------- MODULE ScenarioEditor ---------------------------
(***************************************************************************)
(* One risk scorecard in the page against the native service: it is        *)
(* fetched and migrated, its scenarios are edited in the drawer, added     *)
(* with the wizard, dragged in the table and deleted, its title in the     *)
(* dialog, and each change is saved (contexts/ScenarioContext.tsx,         *)
(* scenarioDrawer, scenarioWizard, scenarioTable, riScStatus).             *)
(*                                                                         *)
(* A handler or callback, and the rendering and the effects it causes, are *)
(* one step.  While a save is under way the user does not start another;   *)
(* ActionRowList has saves side by side.                                   *)
(***************************************************************************)
EXTENDS RiScComparison, RiScConversion, SopsConfig

CONSTANTS
    Files,        \* what there is to begin with: the published file, the draft,
                  \* whether it has a pull request, and the sops node; and as
                  \* bounds how many saves there are, and whether differences
                  \* are fetched
    NewScenario,  \* the id that the wizard draws
    NewAction,    \* and that of an added action
    WizardRisks,  \* risk and remaining risk as they are set in the wizard
    Predefined,   \* the predefined scenarios
    MaxEdits,     \* bounds: edits
    MaxFaults     \* and requests that fail

ASSUME EditorAssumption ==
    /\ \A f \in Files :
           /\ {f.published, f.draft} \ {None} \subseteq RiScDocuments
           /\ {f.published, f.draft} # {None}
           /\ \A doc \in {f.published, f.draft} \ {None} :
                  UniqueIds(doc.scenarios) /\ IsFiniteSet(doc.valuations)
           /\ f.pr \in BOOLEAN /\ f.saves \in Nat
           /\ f.pr => f.draft # None
    /\ WizardRisks \subseteq [risk : FormRisks, remainingRisk : FormRisks]
    /\ Predefined \in Seq(Scenarios) /\ UniqueIds(Predefined)
    /\ NewScenario \in ScenarioId /\ NewAction \in ActionId
    /\ {MaxEdits, MaxFaults} \subseteq Nat

\* The files are such as the service writes them, or wrote before there was a key
\* of the security platform.
ASSUME KeysAssumption ==
    /\ ManagedKeys \subseteq STRING
    /\ \A f \in Files : f.sops \in SopsConfigs /\ Regroupable(f.sops)

\* A text is the number of the edit it was typed in: what there is to begin with
\* was typed before the first.
ASSUME EditsAssumption ==
    /\ \A f \in Files : \A doc \in {f.published, f.draft} \ {None} :
           doc.text = 0 /\ \A i \in DOMAIN doc.scenarios : doc.scenarios[i].text = 0
    /\ \A i \in DOMAIN Predefined : Predefined[i].text = 0

\* The actions of a scenario have ids of their own, as scenarios have.
ASSUME ActionsAssumption ==
    /\ \A f \in Files : \A doc \in {f.published, f.draft} \ {None} :
           \A i \in DOMAIN doc.scenarios : UniqueIds(doc.scenarios[i].actions)
    /\ \A i \in DOMAIN Predefined : UniqueIds(Predefined[i].actions)

VARIABLES
    files,       \* what is stored: the published file, that of the draft branch,
                 \* whether there is a pull request, and the sops node of the
                 \* file that is shown
    page,        \* the selected RiSc, and the save that is under way
    table,       \* the rows of the scenario table
    drawer,      \* the scenario context, and the form of drawer or wizard
    dialog,      \* the content an open RiScDialog was filled with
    difference,  \* the state of the fetch of differences
    clock,       \* how many edits there have been
    count,       \* bounds: how many saves and faults are still to come
    history

vars == <<files, page, table, drawer, dialog, difference, clock, count, history>>

-----------------------------------------------------------------------------
(* The service.                                                            *)

\* lastUpdated: a document that was published was at time 0.
LastPublished(f) ==
    IF f.published = None THEN None ELSE [time |-> 0, kind |-> "string"]

ToShow(f) == IF f.draft = None THEN f.published ELSE f.draft

\* fetchAllRiScs: the file is validated and migrated.
Fetched(f) ==
    IF Valid(ToShow(f)) THEN migrate(ToShow(f), LastPublished(f), latestSupportedVersion)
                        ELSE Failed(NoChanges)

\* updateRiSc, of a document that is valid.  If it has to be approved again, an
\* open pull request is closed.
Stored(f, request) ==
    [f EXCEPT !.draft = request.body, !.pr = @ /\ ~request.requiresApproval,
              !.sops = encrypt(request.new.sopsConfig)]

\* fetchDifference: what can be said of the difference, or None.
FetchedDifference(f, draft) ==
    IF f.published = None \/ ~Valid(draft) THEN None
    ELSE IF ~Valid(f.published) THEN None ELSE compare(draft, f.published, None)

-----------------------------------------------------------------------------
(* The page.                                                               *)

Selections ==
    [content : OrNone(RiScDocuments), status : {"Published", "Draft", "SentForApproval"},
     migrationStatus : MigrationStatuses, objects : Nat, sopsConfig : OrNone(SopsConfigs)]

NotSelected ==
    [content |-> None, status |-> "Draft", migrationStatus |-> NoChanges, objects |-> 0,
     sopsConfig |-> None]

\* The saves: what is shown when the service has refused one or has taken it, what
\* it is sent, what the sender does then, and how it was answered.
Requests ==
    [old : Selections, new : Selections, requiresApproval : BOOLEAN, body : RiScDocuments,
     after : {"nothing", "endEditing", "closeScenarioForm"}, answer : {"none", "ok", "error"}]

\* Again, only the prover does not know it.
ASSUME RequestAssumption == None \notin Requests

\* mapRiScDtoToRiScWithMetadata.  Where the scenarios are copied they are other
\* objects, which `objects` tells apart.
Selected(f) ==
    [content |-> dtoToRiSc(Fetched(f).doc), objects |-> 0,
     status |-> IF f.draft = None THEN "Published"
                ELSE IF f.pr THEN "SentForApproval" ELSE "Draft",
     migrationStatus |-> Fetched(f).status, sopsConfig |-> extractSopsConfig(f.sops)]

\* updateRiSc: `selected` is the selected RiSc of the closure.  `after` is what
\* onSuccess does besides.
UpdateRiSc(selected, content, objects, after) ==
    LET requires == \/ selected.migrationStatus.migrationRequiresNewApproval
                    \/ requiresNewApproval(selected.content, content)
        updated == [content |-> content, objects |-> objects,
                    status |-> IF requires THEN "Draft" ELSE selected.status,
                    migrationStatus |-> NoChanges, sopsConfig |-> selected.sopsConfig]
    IN  [selected |-> updated, update |-> "loading",
         request |-> [old |-> selected, new |-> updated, requiresApproval |-> requires,
                      body |-> riScToDTO(content), after |-> after, answer |-> "none"]]

\* The effect of ScenarioTable: the scenarios keep the order they are shown in.
Synchronised(temp, scenarios) ==
    LET known == ItemsAt(temp, {i \in DOMAIN temp : temp[i].id \in Ids(scenarios)})
    IN  [i \in DOMAIN known |-> Find(scenarios, known[i].id)]
        \o ItemsAt(scenarios, {i \in DOMAIN scenarios : scenarios[i].id \notin Ids(known)})

\* early: history, was it mounted while a save was under way?
Unmounted ==
    [mounted |-> FALSE, scenarios |-> <<>>, objects |-> 0, early |-> FALSE, rows |-> <<>>]

\* Mutant of ScenarioTable: new scenarios are not added to the table.
FaultyScenarioTable(t, p, d) ==
    LET scenarios == IF ~t.mounted THEN p.selected.content.scenarios
                     ELSE SelectSeq(t.scenarios,
                                    LAMBDA s : s.id \in Ids(p.selected.content.scenarios))
    IN  IF d.step \/ p.selected.content = None THEN Unmounted
        ELSE [mounted |-> TRUE, scenarios |-> scenarios, objects |-> p.selected.objects,
              early |-> t.early,
              rows |-> [id \in Ids(scenarios) |->
                           IF id \in DOMAIN t.rows THEN t.rows[id] ELSE p.selected]]

\* The table is there unless the wizard is.  It takes the scenarios over when it
\* is mounted and after a success; a row keeps the closure of its first rendering.
ScenarioTable(t, p, d) ==
    LET takesOver == ~t.mounted \/ p.update = "success"
        scenarios == IF ~takesOver THEN t.scenarios
                     ELSE IF ~t.mounted THEN p.selected.content.scenarios
                     ELSE Synchronised(t.scenarios, p.selected.content.scenarios)
    IN  IF d.step \/ p.selected.content = None THEN Unmounted
        ELSE [mounted |-> TRUE, scenarios |-> scenarios,
              objects |-> IF takesOver THEN p.selected.objects ELSE t.objects,
              early |-> IF t.mounted THEN t.early ELSE p.update = "loading",
              rows |-> [id \in Ids(scenarios) |->
                           IF id \in DOMAIN t.rows THEN t.rows[id] ELSE p.selected]]

\* url, step: the scenario in the URL, and whether it is one for the wizard
\* shown, objects: the scenario of the context
Closed == [url |-> None, step |-> FALSE, open |-> FALSE, editing |-> FALSE,
           shown |-> None, objects |-> 0, form |-> None]

\* The effect of ScenarioContext that follows URL and selected RiSc.
Followed(d, p) ==
    LET found == getScenarioOfIdFromRiSc(d.url, p.selected.content)
    IN  IF d.step THEN d
        ELSE IF d.url = None \/ found = None
             THEN [d EXCEPT !.url = None, !.open = FALSE, !.shown = None, !.objects = 0]
        ELSE [d EXCEPT !.open = TRUE, !.shown = found, !.objects = p.selected.objects]

FormOf(d) ==
    IF d.shown = None THEN None
    ELSE IF d.editing THEN Registered(mapScenarioToFormScenario(d.shown))
    ELSE mapScenarioToFormScenario(d.shown)

\* Mutant of ScenarioDrawer: the form is reset whenever it is rendered.
FaultyScenarioDrawer(d, p) ==
    LET f == Followed(d, p)
    IN  IF d.step THEN f ELSE [f EXCEPT !.form = FormOf(f)]

\* The form is reset when the scenario has become another object.
ScenarioDrawer(d, p) ==
    LET f == Followed(d, p)
    IN  IF ~d.step /\ <<f.shown, f.objects>> # <<d.shown, d.objects>>
        THEN [f EXCEPT !.form = FormOf(f)] ELSE f

Differences ==
    [loading : BOOLEAN, asked : OrNone(RiScDocuments), late : BOOLEAN, shown : BOOLEAN,
     value : OrNone(RiScChanges), of : OrNone(RiScDocuments)]

NoDifference == [loading |-> FALSE, asked |-> None, late |-> FALSE, shown |-> FALSE,
                 value |-> None, of |-> None]

\* Mutant of RiScStatusComponent: the difference stays.
FaultyRiScStatusComponent(diff, p) == diff

\* The difference is forgotten when another RiSc object is selected, but not
\* the fetch that is under way.
RiScStatusComponent(diff, p) ==
    LET begins == page.update # "loading" /\ p.update = "loading"
        rolledBack == page.update = "loading" /\ p.update = "error"
    IN  IF ~begins /\ ~rolledBack /\ p.selected = page.selected THEN diff
        ELSE [NoDifference EXCEPT !.asked = diff.asked, !.late = diff.asked # None]

\* What is rendered when a handler has made p, d and diff of the state.
Show(p, t, d) ==
    LET followed == ScenarioDrawer(d, p)
    IN  /\ page' = p
        /\ drawer' = followed
        /\ table' = ScenarioTable(t, p, followed)
        /\ difference' = RiScStatusComponent(difference, p)

-----------------------------------------------------------------------------

Init ==
    /\ \E f \in Files :
           /\ files = [published |-> f.published, draft |-> f.draft, pr |-> f.pr,
                       sops |-> f.sops]
           /\ count = [saves |-> f.saves, faults |-> MaxFaults, differences |-> f.differences]
    /\ page = [selected |-> NotSelected, update |-> "idle", request |-> None]
    /\ table = Unmounted /\ drawer = Closed /\ dialog = None
    /\ difference = NoDifference
    /\ clock = 0
    /\ history = [orderly |-> TRUE, parted |-> FALSE, lost |-> FALSE,
                  covered |-> IF files.pr THEN files.draft ELSE None]

\* A RiSc that cannot be validated or migrated is not shown at all.
FetchRiScs ==
    /\ page.selected.content = None
    /\ ~Fetched(files).failed
    /\ Show([page EXCEPT !.selected = Selected(files)], table, drawer)
    /\ UNCHANGED <<files, dialog, clock, count, history>>

-----------------------------------------------------------------------------
(* What the user does.                                                     *)

Now == clock + 1

Edits == clock < MaxEdits /\ clock' = Now

content == page.selected.content

Quiet == page.update # "loading"

\* One save at a time.
Saves == Quiet /\ count.saves > 0 /\ count' = [count EXCEPT !.saves = @ - 1]

\* Drawer, dialog and wizard are modal.
AtTable == content # None /\ ~drawer.open /\ ~drawer.step /\ dialog = None

Update(newContent, after, d) ==
    /\ Saves
    /\ Show(UpdateRiSc(page.selected, newContent, page.selected.objects, after), table, d)

Rest == UNCHANGED <<files, dialog, history>>

Still == UNCHANGED <<clock, count>>

OpenScenarioDrawer(id) ==
    /\ AtTable /\ id \in Ids(content.scenarios)
    /\ Show(page, table, [drawer EXCEPT !.url = id])
    /\ Rest /\ Still

\* The fields of the form are registered as they are rendered.
Edit ==
    /\ drawer.open /\ ~drawer.editing
    /\ drawer' = [drawer EXCEPT !.editing = TRUE, !.form = Registered(@)]
    /\ Rest /\ UNCHANGED <<page, table, difference, clock, count>>

Type(form) ==
    /\ drawer.step \/ (drawer.open /\ drawer.editing)
    /\ drawer' = [drawer EXCEPT !.form = form]
    /\ Rest /\ UNCHANGED <<page, table, difference, count>>

TypeText == Edits /\ Type([drawer.form EXCEPT !.text = Now])

TypeAction(i) ==
    /\ drawer.form # None /\ i \in DOMAIN drawer.form.actions
    /\ Edits /\ Type([drawer.form EXCEPT !.actions[i].text = Now])

AddAction ==
    /\ drawer.form # None /\ NewAction \notin Ids(drawer.form.actions)
    /\ Edits /\ Type([drawer.form EXCEPT !.actions = Append(@, emptyAction(NewAction))])

RemoveAction(i) ==
    /\ drawer.form # None /\ i \in DOMAIN drawer.form.actions
    /\ Edits /\ Type([drawer.form EXCEPT !.actions = RemoveAt(@, i)])

OnCancel ==
    /\ drawer.open /\ drawer.editing
    /\ drawer' = [drawer EXCEPT !.editing = FALSE,
                                !.form = mapScenarioToFormScenario(drawer.shown)]
    /\ Rest /\ UNCHANGED <<page, table, difference, clock, count>>

\* handleClose: also of a form that was changed, if the user confirms.
CloseDrawer ==
    /\ drawer.open
    /\ Show(page, table, [drawer EXCEPT !.url = None, !.editing = FALSE])
    /\ Rest /\ Still

\* submitEditedScenarioToRiSc
SubmitEditedScenario ==
    /\ drawer.open /\ drawer.editing
    /\ drawer.form # mapScenarioToFormScenario(drawer.shown)
    /\ LET old == getScenarioOfIdFromRiSc(drawer.form.id, content)
           edited == [drawer.form EXCEPT !.actions =
                         getActionsWithLastUpdated(old.actions, @, FALSE, clock)]
       IN  Update(WithScenario(content, edited), "endEditing", drawer)
    /\ Rest /\ UNCHANGED clock

\* Mutant of DeleteScenario: a row deletes from the content of its old closure.
FaultyDeleteScenario(id) ==
    /\ AtTable /\ id \in DOMAIN table.rows
    /\ Update(WithoutScenario(table.rows[id].content, id), "nothing", drawer)
    /\ Rest /\ UNCHANGED clock

\* From the drawer, or from the row of a table that is edited.
DeleteScenario(id) ==
    /\ IF drawer.open THEN id = drawer.shown.id ELSE AtTable /\ id \in DOMAIN table.rows
    /\ Update(WithoutScenario(content, id), "nothing", drawer)
    /\ Rest /\ UNCHANGED clock

\* The drawer is unmounted while the wizard is there.  The id is random: one
\* that no scenario has that is shown or stored, or that a failed save would
\* bring back.
OpenNewScenarioWizard ==
    /\ AtTable /\ NewScenario \notin Ids(content.scenarios)
    /\ ~Quiet => NewScenario \notin Ids(page.request.old.content.scenarios)
    /\ NewScenario \notin Ids(ToShow(files).scenarios)
    /\ Show(page, table, [Closed EXCEPT !.url = NewScenario, !.step = TRUE,
                                        !.form = emptyFormScenario(NewScenario)])
    /\ Rest /\ Still

CloseWizard ==
    /\ drawer.step
    /\ Show(page, table, Closed)
    /\ Rest /\ Still

\* onSubmit of ScenarioWizard, and submitNewScenario.
SubmitNewScenario(risks) ==
    /\ drawer.step /\ drawer.form.text > 0
    /\ LET form == [drawer.form EXCEPT !.risk = risks.risk,
                                       !.remainingRisk = risks.remainingRisk]
           new == [form EXCEPT !.actions = getActionsWithLastUpdated(<<>>, @, FALSE, clock)]
       IN  /\ validateRemainingRiskNotHigher(form)
           /\ Update(WithNewScenarios(content, <<new>>), "closeScenarioForm",
                     [drawer EXCEPT !.form = form])
    /\ Rest /\ UNCHANGED clock

\* onAdd of PredefinedScenariosBanner
AddPredefinedScenarios ==
    /\ AtTable /\ ~hasAnyPredefinedScenario(content, Predefined)
    /\ Update(WithNewScenarios(content, buildPredefinedScenarios(Predefined, clock)),
              "nothing", drawer)
    /\ Rest /\ UNCHANGED clock

\* hover: the dragged row takes the place of the one it is over.
MoveRowLocal(from, to) ==
    /\ AtTable /\ from # to /\ {from, to} \subseteq DOMAIN table.scenarios
    /\ table' = [table EXCEPT !.scenarios =
                    InsertAt(RemoveAt(@, from), to, @[from])]
    /\ Rest /\ UNCHANGED <<page, drawer, difference, clock, count>>

\* The service refuses what the page shows, and the page took it for saved.
Refused == ~Valid(riScToDTO(content))

\* moveRowFinal moves nothing any more: it saves the order that is shown, and
\* whatever else the RiSc of the row's closure had.
DropRow(id) ==
    /\ AtTable /\ Saves /\ id \in DOMAIN table.rows
    /\ LET row == table.rows[id]
       IN  /\ Show(UpdateRiSc(row, [row.content EXCEPT !.scenarios = table.scenarios],
                              table.objects, "nothing"), table, drawer)
           /\ history' = [history EXCEPT !.orderly = @ /\ row = page.selected,
                                         !.parted = \/ @ \/ table.early
                                                    \/ row # page.selected /\ Refused]
    /\ UNCHANGED <<files, dialog, clock>>

\* RiScDialog is filled when it is opened.
OpenDialog ==
    /\ AtTable
    /\ dialog' = content
    /\ UNCHANGED <<files, page, table, drawer, difference, clock, count, history>>

\* handleFinish: the form has copied the content.
SubmitDialog(appliesTo) ==
    /\ dialog # None /\ Saves /\ Edits
    /\ Show(UpdateRiSc(page.selected, [dialog EXCEPT !.text = Now, !.appliesTo = appliesTo],
                       Now, "nothing"), table, drawer)
    /\ dialog' = None
    /\ UNCHANGED <<files, history>>

\* handleUpdate of the migration dialog
SaveMigration ==
    /\ AtTable /\ page.selected.migrationStatus.migrationRequiresNewApproval
    /\ Update(content, "nothing", drawer)
    /\ Rest /\ UNCHANGED clock

\* approveRiSc, which is answered at once.  A denial is answered like a success.
ApproveRiSc ==
    /\ AtTable /\ Quiet /\ page.selected.status = "Draft"
    /\ IF files.pr
       THEN /\ Show([page EXCEPT !.update = "error"], table, drawer)
            /\ UNCHANGED <<files, history>>
       ELSE /\ Show([page EXCEPT !.update = "success",
                                 !.selected.status = "SentForApproval"], table, drawer)
            /\ files' = [files EXCEPT !.pr = files.draft # None]
            /\ history' = [history EXCEPT !.covered = files.draft]
    /\ UNCHANGED <<dialog, clock, count>>

\* getDifferences; the last fetch has been answered.
GetDifferences ==
    /\ AtTable /\ ~difference.loading /\ ~difference.shown
    /\ difference.asked = None /\ count.differences
    /\ difference' = [difference EXCEPT !.loading = TRUE, !.asked = riScToDTO(content)]
    /\ Rest /\ UNCHANGED <<page, table, drawer, clock, count>>

-----------------------------------------------------------------------------
(* Answers.                                                                *)

\* A body that is not valid is refused, with an answer like any other.
Serve ==
    /\ ~Quiet /\ page.request.answer = "none"
    /\ page' = [page EXCEPT !.request.answer = "ok"]
    /\ files' = IF Valid(page.request.body) THEN Stored(files, page.request) ELSE files
    /\ UNCHANGED <<table, drawer, dialog, difference, clock, count, history>>

\* A request fails, before or after it took effect.
Fail ==
    /\ ~Quiet /\ page.request.answer # "error"
    /\ count.faults > 0 /\ count' = [count EXCEPT !.faults = @ - 1]
    /\ page' = [page EXCEPT !.request.answer = "error"]
    /\ history' = [history EXCEPT !.lost = @ \/ page.request.answer = "ok"]
    /\ UNCHANGED <<files, table, drawer, dialog, difference, clock>>

\* Mutant of After: the wizard's step stays in the URL.
FaultyAfter(d, request) ==
    CASE request.after = "endEditing" -> [d EXCEPT !.editing = FALSE]
      [] request.after = "closeScenarioForm" -> [d EXCEPT !.url = None]
      [] OTHER -> d

\* The callbacks that the senders have given.
After(d, request) ==
    CASE request.after = "endEditing" -> [d EXCEPT !.editing = FALSE]
      [] request.after = "closeScenarioForm" ->
            IF d.step THEN Closed ELSE [d EXCEPT !.url = None]
      [] OTHER -> d

\* The RiSc stays the object that was shown when the request was sent.
OnSaved ==
    /\ ~Quiet /\ page.request.answer = "ok"
    /\ Show([selected |-> page.request.new, update |-> "success", request |-> None],
            table, After(drawer, page.request))
    /\ Rest /\ Still

\* Mutant of OnError: nothing is taken back.
FaultyOnError ==
    /\ ~Quiet /\ page.request.answer = "error"
    /\ Show([selected |-> page.request.new, update |-> "error", request |-> None],
            table, drawer)
    /\ history' = [history EXCEPT !.parted = @ \/ ~history.orderly]
    /\ UNCHANGED <<files, dialog, clock, count>>

OnError ==
    /\ ~Quiet /\ page.request.answer = "error"
    /\ Show([selected |-> page.request.old, update |-> "error", request |-> None],
            table, drawer)
    /\ history' = [history EXCEPT !.parted = @ \/ ~history.orderly]
    /\ UNCHANGED <<files, dialog, clock, count>>

OnDifference ==
    /\ difference.asked # None
    /\ difference' = [NoDifference EXCEPT !.shown = TRUE, !.of = difference.asked,
                         !.late = difference.late,
                         !.value = FetchedDifference(files, difference.asked)]
    /\ Rest /\ UNCHANGED <<page, table, drawer, clock, count>>

OnDifferenceError ==
    /\ difference.asked # None
    /\ difference' = NoDifference
    /\ Rest /\ UNCHANGED <<page, table, drawer, clock, count>>

-----------------------------------------------------------------------------

InDrawer ==
    \/ \E id \in ScenarioId : OpenScenarioDrawer(id)
    \/ Edit \/ TypeText \/ AddAction \/ OnCancel \/ CloseDrawer
    \/ \E i \in 1..2 : TypeAction(i) \/ RemoveAction(i)
    \/ SubmitEditedScenario

InWizard ==
    \/ OpenNewScenarioWizard \/ CloseWizard
    \/ \E risks \in WizardRisks : SubmitNewScenario(risks)

InTable ==
    \/ \E from, to \in 1..Cardinality(ScenarioId) : MoveRowLocal(from, to)
    \/ \E id \in ScenarioId : DeleteScenario(id) \/ DropRow(id)
    \/ AddPredefinedScenarios

InPage ==
    \/ OpenDialog \/ (\E appliesTo \in {None, 1} : SubmitDialog(appliesTo))
    \/ SaveMigration \/ ApproveRiSc \/ GetDifferences

Answers == Serve \/ Fail \/ OnSaved \/ OnError \/ OnDifference \/ OnDifferenceError

Next == FetchRiScs \/ InDrawer \/ InWizard \/ InTable \/ InPage \/ Answers

Spec == Init /\ [][Next]_vars
=============================================================================
