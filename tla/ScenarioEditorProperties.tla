----------------------- MODULE ScenarioEditorProperties ----------------------
(* What holds of a RiSc that is edited in the page, and of its documents.  *)
EXTENDS ScenarioEditor

Docs == {files.published, files.draft} \ {None}

\* The type invariant of the page, its parts and what is stored.
TypeOK ==
    /\ Docs \subseteq RiScDocuments
    /\ files.pr \in BOOLEAN /\ files.sops \in SopsConfigs
    /\ page.update \in {"idle", "loading", "success", "error"}
    /\ page.request \in OrNone(Requests)
    /\ page.request # None <=> page.update = "loading"
    /\ page.selected \in Selections
    /\ difference \in Differences
    /\ content # None => content.schemaVersion = latestSupportedVersion
    /\ table.mounted => DOMAIN table.rows = Ids(table.scenarios)
    /\ drawer.url \in ScenarioId \cup {None}
    /\ drawer.open => drawer.shown.id = drawer.url /\ ~drawer.step
    /\ drawer.step \/ drawer.open => drawer.form.id = drawer.url
    /\ drawer.form \in OrNone(FormScenarios)
    /\ dialog # None => AtTable \/ ~drawer.open
    /\ clock \in 0..MaxEdits /\ count.saves \in Nat /\ count.faults \in 0..MaxFaults

-----------------------------------------------------------------------------
(* Migration.                                                              *)

\* What a list of changes says of the scenario or action of that id, or None.
Told(changes, id) ==
    IF changes = None THEN None
    ELSE IF id \in Ids(changes) THEN Find(changes, id) ELSE None

ToldOfAction(changes, scenario, action) ==
    LET told == Told(changes, scenario.id)
    IN  IF told = None THEN None ELSE Told(told.changedActions, action.id)

\* Each risk that is another now was announced, with both numbers.
RiskIsReported(told, old, new) ==
    \A part \in {"probability", "consequence"} :
        old[part] # new[part] => told[part] = [old |-> old[part], new |-> new[part]]

ActionIsReported(status, scenario, old, new) ==
    /\ \A field \in {old.owner, old.deadline} \ {None, ""} :
           LET told == ToldOfAction(status.migrationChanges40, scenario, old)
           IN  told # None /\ field \in {told.removedOwner, told.removedDeadline}
    /\ old.status # new.status =>
           ToldOfAction(status.migrationChanges50, scenario, old)
               = [id |-> old.id, old |-> old.status, new |-> new.status]
    /\ old.lastUpdated # new.lastUpdated =>
           ToldOfAction(status.migrationChanges42, scenario, old)
               = [id |-> old.id, lastUpdated |-> new.lastUpdated]
    /\ old.lastUpdatedBy # new.lastUpdatedBy =>
           ToldOfAction(status.migrationChanges51, scenario, old)
               = [id |-> old.id, lastUpdatedBy |-> new.lastUpdatedBy]
    /\ old.text = new.text

ScenarioIsReported(status, old, new) ==
    LET told40 == Told(status.migrationChanges40, old.id)
        told41 == Told(status.migrationChanges41, old.id)
    IN  /\ old.existingActions \notin {None, ""} =>
               told40 # None /\ told40.removedExistingActions = old.existingActions
        /\ \A v \in old.vulnerabilities \ new.vulnerabilities :
               told40 # None /\ \E c \in told40.changedVulnerabilities :
                                    c.old = v /\ c.new \in new.vulnerabilities
        /\ old.risk # new.risk => told41 # None /\ RiskIsReported(told41.risk, old.risk, new.risk)
        /\ old.remainingRisk # new.remainingRisk =>
               /\ told41 # None
               /\ RiskIsReported(told41.remainingRisk, old.remainingRisk, new.remainingRisk)
        /\ old.threatActors = new.threatActors /\ old.text = new.text
        /\ Ids(old.actions) = Ids(new.actions)
        /\ \A i \in DOMAIN old.actions :
               ActionIsReported(status, old, old.actions[i], Find(new.actions, old.actions[i].id))

\* As long as the migration status that came with a document is there,
\* everything that the migration replaced or dropped is in it with its old
\* value, nothing else is lost, the result is valid in the newest version, and
\* saving it asks for approval (SchemaService.ts:261).  After an answer that
\* was lost, or the failed save of a row with an old closure, the page shows
\* the status of what is no longer stored.
MigrationIsReported ==
    LET status == page.selected.migrationStatus
        doc == ToShow(files)
    IN  status.fromVersion # None /\ history.orderly /\ ~history.lost =>
            /\ Valid(content) /\ status.fromVersion = doc.schemaVersion
            /\ status.migrationRequiresNewApproval <=> doc.schemaVersion # latestSupportedVersion
            /\ doc.valuations # {} => status.migrationChanges52 = Cardinality(doc.valuations)
            /\ doc.text = content.text /\ Ids(doc.scenarios) = Ids(content.scenarios)
            /\ \A i \in DOMAIN doc.scenarios :
                   ScenarioIsReported(status, doc.scenarios[i],
                                      Find(content.scenarios, doc.scenarios[i].id))

Position(number, scale) == (CHOOSE i \in DOMAIN scale : scale[i] = number) - 1

\* The levels of a risk in a document of that version.
LevelsOf(risk, version) ==
    IF Since(version, "4.1") THEN Levels(risk)
    ELSE [probability |-> Position(risk.probability, Probabilities40),
          consequence |-> Position(risk.consequence, Consequences40)]

\* The levels of the initial risk of a scenario in a document of any version.
LevelsIn(doc, id) == LevelsOf(Find(doc.scenarios, id).risk, doc.schemaVersion)

\* Those of the predefined scenario of that id.
Preset(id, levels) ==
    \E i \in DOMAIN Predefined : Predefined[i].id = id /\ Levels(Predefined[i].risk) = levels

\* Whatever is migrated, rounded in a form and saved, the level at which the
\* risk of a scenario is shown stays what it was: a stored number of any
\* version and the options of the form fall on the same five levels
\* (utilityfunctions.ts:343, SchemaService.ts:543).  Excepted are a predefined
\* scenario, which can be added again after it was deleted, and the wizard's,
\* which is submitted again if the answer was lost.
RiskLevelsAreKept ==
    [][\A id \in Ids(ToShow(files).scenarios) \cap Ids(ToShow(files)'.scenarios) :
          \/ LevelsIn(ToShow(files), id) = LevelsIn(ToShow(files)', id)
          \/ Preset(id, LevelsIn(ToShow(files), id)) \/ Preset(id, LevelsIn(ToShow(files)', id))
          \/ id = NewScenario /\ history.lost]_vars

-----------------------------------------------------------------------------
(* Differences.                                                            *)

New(change, old) == IF change = None THEN old ELSE change.new

PatchedSet(change, old) == (old \ change.deleted) \cup change.added

PatchedItems(change, old, PatchItem(_, _)) ==
    {old[i] : i \in {j \in DOMAIN old : /\ old[j].id \notin Ids(change.changed)
                                        /\ old[j] \notin Range(change.deleted)}}
    \cup {PatchItem(change.changed[i], Find(old, change.changed[i].id)) :
             i \in DOMAIN change.changed}
    \cup Range(change.added)

Field(change, name, old) ==
    IF name \in DOMAIN change THEN New(change[name], old) ELSE old

PatchedRisk(change, old) ==
    [probability |-> New(change.probability, old.probability),
     consequence |-> New(change.consequence, old.consequence)]

PatchedAction(change, old) ==
    [name \in DOMAIN old |-> IF name = "id" THEN old.id ELSE Field(change, name, old[name])]

\* The order of actions is not compared.
Unordered(scenario) == [scenario EXCEPT !.actions = Range(@)]

PatchedScenario(change, old) ==
    [id |-> old.id,
     text |-> New(change.text, old.text),
     threatActors |-> PatchedSet(change.threatActors, old.threatActors),
     vulnerabilities |-> PatchedSet(change.vulnerabilities, old.vulnerabilities),
     risk |-> PatchedRisk(change.risk, old.risk),
     remainingRisk |-> PatchedRisk(change.remainingRisk, old.remainingRisk),
     existingActions |-> Field(change, "existingActions", old.existingActions),
     actions |-> PatchedItems(change.actions, old.actions, PatchedAction)]

\* A scenario that was patched has a set of actions already.
Scenarios0(change, old) ==
    {IF Ids(<<s>>) \subseteq Ids(change.changed) THEN s ELSE Unordered(s) :
        s \in PatchedItems(change, old, PatchedScenario)}

\* The difference, applied to the older document in the version of the newer,
\* is the newer document.
Explains(difference0, new, old) ==
    LET base == migrate(old, None, new.schemaVersion).doc
    IN  /\ new.text = New(difference0.text, base.text)
        /\ new.valuations = PatchedSet(difference0.valuations, base.valuations)
        /\ Scenarios0(difference0.scenarios, base.scenarios)
               = {Unordered(new.scenarios[i]) : i \in DOMAIN new.scenarios}

\* What the service says is different between the published file and what is
\* stored as a draft, of any versions, or what the page has asked about, is
\* all that is different: scenarios that were added, deleted or dragged, with
\* their actions (ComparisonService.ts:497).
DifferenceIsExact ==
    /\ difference.value # None => Explains(difference.value, difference.of, files.published)
    /\ files.published # None /\ files.draft # None
       /\ Valid(files.published) /\ Valid(files.draft) =>
           LET told == compare(files.draft, files.published, None)
           IN  told # None => Explains(told, files.draft, files.published)

\* A difference that is shown is that of what the page shows, unless a save
\* was begun or taken back while it was fetched (RiScStatusComponent.tsx:126).
DifferenceIsCurrent ==
    difference.shown /\ ~difference.late => difference.of = riScToDTO(content)

-----------------------------------------------------------------------------
(* What is saved.                                                          *)

KeysOf(node) == UNION {KeysIn(node.key_groups[i]) : i \in DOMAIN node.key_groups}

\* Whoever could open a file, alone or with the keys of others, can still open
\* it when it was fetched and saved through the page, though the page knows
\* neither the groups nor the keys of the backend (SopsCryptoService.ts:80).
KeysAreKept ==
    [][files.sops' # files.sops =>
          \A keys \in SUBSET KeysOf(files.sops) :
              Opens(keys, files.sops) => Opens(keys, files.sops')]_vars

WithoutDates(scenario) ==
    [scenario EXCEPT !.actions =
        [i \in DOMAIN @ |-> [@[i] EXCEPT !.lastUpdated = None, !.lastUpdatedBy = None]]]

Covered(doc) ==
    [version |-> doc.schemaVersion,
     scenarios |-> {WithoutDates(doc.scenarios[i]) : i \in DOMAIN doc.scenarios}]

\* While a pull request is open, its file has the version and the scenarios it
\* was opened with, in some order, whatever is saved, refused and taken back in
\* between and with whatever closure of a row.  Excepted are an answer that was
\* lost, a row with an old closure that was dropped before a failure or while
\* what was shown had been refused, and a table that was mounted during a save:
\* the page then compares with what is not stored (utilityfunctions.ts:178,
\* RiScContext.tsx:580).
ApprovalCoversScenarios ==
    files.pr /\ ~history.lost /\ ~history.parted => Covered(files.draft) = Covered(history.covered)

\* Without a save under way the page shows what the service would return, if
\* that could be saved at all: a document with a comment or metadata is refused
\* by the native service, and the page takes it for saved (router.ts:264).  An
\* answer that is lost, and a row that was dropped with the content of an
\* earlier rendering, part the two.
OrderlyPageIsStored ==
    content # None /\ Quiet /\ history.orderly /\ ~history.lost /\ Valid(riScToDTO(content)) =>
        ~Fetched(files).failed /\ riScToDTO(content) = riScToDTO(Fetched(files).doc)

\* A predefined scenario that was deleted is as it was at first when it is added
\* again.
AddedAgain(id, text) == text = 0 /\ id \in Ids(Predefined)

\* Nothing that was stored gives way to an older text of the same scenario, or
\* of the RiSc: forms, dialogs and rollbacks bring no old content back.
EditsAreKept ==
    [][history'.orderly /\ ~history.lost =>
          /\ ToShow(files)'.text >= ToShow(files).text
          /\ \A id \in Ids(ToShow(files).scenarios) \cap Ids(ToShow(files)'.scenarios) :
                 LET text == Find(ToShow(files)'.scenarios, id).text
                 IN  text >= Find(ToShow(files).scenarios, id).text \/ AddedAgain(id, text)]_vars

\* Without a save under way the table has the scenarios of the page, in an
\* order of its own if a row was dragged.  A table that was mounted during a
\* save that then failed does not get back what the page gets back
\* (ScenarioTable.tsx:41).
TableShowsScenarios ==
    table.mounted /\ Quiet /\ history.orderly /\ (table.early => page.update = "success") =>
        Range(table.scenarios) = Range(content.scenarios)

\* A save that fails takes the form of a scenario back that it has changed or
\* copied.
TakesBack(request, id) ==
    \/ request.old.objects # request.new.objects
    \/ getScenarioOfIdFromRiSc(id, request.old.content)
           # getScenarioOfIdFromRiSc(id, request.new.content)

\* What is typed in the drawer is only lost by the user's own submitting,
\* deleting or leaving, by a failed save of the same scenario, and by the
\* answer to a wizard the user has left (ScenarioContext.tsx:169,
\* ScenarioDrawer.tsx:108).
TypedIsKept ==
    [][drawer.open /\ drawer.editing /\ drawer'.form # drawer.form =>
          \/ TypeText \/ AddAction \/ OnCancel \/ CloseDrawer \/ SubmitEditedScenario
          \/ \E i \in DOMAIN drawer.form.actions : TypeAction(i) \/ RemoveAction(i)
          \/ DeleteScenario(drawer.shown.id)
          \/ OnError /\ TakesBack(page.request, drawer.shown.id)
          \/ OnSaved /\ page.request.after = "closeScenarioForm"]_vars
=============================================================================
