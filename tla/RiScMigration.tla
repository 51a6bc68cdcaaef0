---------------------------- MODULE RiScMigration ----------------------------
(***************************************************************************)
(* SchemaService: a document is migrated one version at a time, and what   *)
(* each step changed is reported in the migration status that the page     *)
(* shows to the user.  A step that throws leaves no document: `failed`.    *)
(***************************************************************************)
EXTENDS RiScDocument, FiniteSets

OrNone(S) == S \cup {None}

ChangedValues(S, T) == [old : S, new : T]

NumberChanges ==
    [{"probability", "consequence"} -> OrNone(ChangedValues(Nat, Nat))]

\* What is said of an action, and of a scenario, in the step to that version.
ActionChanges40 ==
    [id : ActionId, removedOwner : OrNone(STRING), removedDeadline : OrNone(STRING)]

ScenarioChanges40 ==
    [id : ScenarioId, removedExistingActions : OrNone(STRING),
     changedVulnerabilities : SUBSET ChangedValues(Vulnerabilities3X, Vulnerabilities4X5X),
     changedActions : Seq(ActionChanges40)]

ScenarioChanges41 == [id : ScenarioId, risk : NumberChanges, remainingRisk : NumberChanges]

ActionChanges42 == [id : ActionId, lastUpdated : OrNone(Times)]

ActionChanges50 == [id : ActionId, old : Statuses3X4X, new : Statuses5X]

ActionChanges51 == [id : ActionId, lastUpdatedBy : STRING]

\* The changes of scenarios of which only actions have changed, as `changes`.
ActionChanges(changes) == [id : ScenarioId, changedActions : Seq(changes)]

\* Neither a change nor a list of them is taken for the lack of one.
ASSUME ChangesAssumption ==
    LET values == Nat \cup Times \cup STRING \cup {None}
        Lists(changes) == changes \cup Seq(changes)
        OfActions(changes) == Lists(changes) \cup Lists(ActionChanges(changes))
    IN  None \notin ChangedValues(values, values)
            \cup Lists(ActionChanges40) \cup Lists(ScenarioChanges40) \cup Lists(ScenarioChanges41)
            \cup OfActions(ActionChanges42) \cup OfActions(ActionChanges50)
            \cup OfActions(ActionChanges51)

MigrationStatuses ==
    [migrationChanges : BOOLEAN, migrationRequiresNewApproval : BOOLEAN,
     fromVersion : OrNone(VersionSet), toVersion : OrNone(VersionSet),
     migrationChanges40 : OrNone(Seq(ScenarioChanges40)),
     migrationChanges41 : OrNone(Seq(ScenarioChanges41)),
     migrationChanges42 : OrNone(Seq(ActionChanges(ActionChanges42))),
     migrationChanges50 : OrNone(Seq(ActionChanges(ActionChanges50))),
     migrationChanges51 : OrNone(Seq(ActionChanges(ActionChanges51))),
     migrationChanges52 : OrNone(Nat)]

\* Changes that were not reported yet are None.
NoChanges ==
    [migrationChanges |-> FALSE, migrationRequiresNewApproval |-> FALSE,
     fromVersion |-> None, toVersion |-> None, migrationChanges40 |-> None,
     migrationChanges41 |-> None, migrationChanges42 |-> None,
     migrationChanges50 |-> None, migrationChanges51 |-> None,
     migrationChanges52 |-> None]

Failed(status) == [failed |-> TRUE, doc |-> None, status |-> status]

Migrated(doc, status) == [failed |-> FALSE, doc |-> doc, status |-> status]

Approved(status) ==
    [status EXCEPT !.migrationChanges = TRUE, !.migrationRequiresNewApproval = TRUE]

Map(items, Update(_)) == [i \in DOMAIN items |-> Update(items[i])]

\* migrateScenarios: the changes of the scenarios that have any.
Changed(items, Change(_), Has(_)) ==
    LET changes == Map(items, Change)
    IN  ItemsAt(changes, {i \in DOMAIN changes : Has(changes[i])})

OrNull(changes) == IF changes = <<>> THEN None ELSE changes

MapActions(scenario, Update(_)) ==
    [scenario EXCEPT !.actions = Map(scenario.actions, Update)]

-----------------------------------------------------------------------------
(* 3.2 to 3.3, and 3.3 to 4.0: vulnerabilities are renamed, owners,        *)
(* deadlines and existing actions are dropped.                             *)

VULNERABILITY_3X_TO_4X_MAP ==
    [v \in Vulnerabilities3X |->
        CASE v = "User repudiation" -> "Unmonitored use"
          [] v \in {"Compromised admin user", "Escalation of rights"} -> "Unauthorized access"
          [] v = "Disclosed secret" -> "Information leak"
          [] v = "Denial of service" -> "Excessive use"
          [] OTHER -> v]

migrateFrom32To33(doc, status) ==
    Migrated([doc EXCEPT !.schemaVersion = "3.3"], status)

\* An empty string counts as nothing.
Truthy(value) == IF value = "" THEN None ELSE value

Change40Action(action) ==
    [id |-> action.id, removedOwner |-> Truthy(action.owner),
     removedDeadline |-> Truthy(action.deadline)]

Change40(scenario) ==
    [id |-> scenario.id,
     removedExistingActions |-> Truthy(scenario.existingActions),
     changedVulnerabilities |->
        {[old |-> v, new |-> VULNERABILITY_3X_TO_4X_MAP[v]] :
            v \in {w \in scenario.vulnerabilities : VULNERABILITY_3X_TO_4X_MAP[w] # w}},
     changedActions |->
        Changed(scenario.actions, Change40Action,
                LAMBDA c : {c.removedOwner, c.removedDeadline} # {None})]

\* Mutant of HasChange40: existing actions alone are not reported.
FaultyHasChange40(c) ==
    c.changedActions # <<>> \/ c.changedVulnerabilities # {}

HasChange40(c) ==
    \/ c.removedExistingActions # None
    \/ c.changedActions # <<>>
    \/ c.changedVulnerabilities # {}

updateScenarioFrom33To40(scenario) ==
    [MapActions(scenario, LAMBDA a : [a EXCEPT !.owner = None, !.deadline = None])
        EXCEPT !.existingActions = None,
               !.vulnerabilities = {VULNERABILITY_3X_TO_4X_MAP[v] : v \in @}]

migrateFrom33To40(doc, status) ==
    Migrated([doc EXCEPT !.schemaVersion = "4.0",
                         !.scenarios = Map(@, updateScenarioFrom33To40)],
             [Approved(status) EXCEPT !.migrationChanges40 =
                OrNull(Changed(doc.scenarios, Change40, HasChange40))])

-----------------------------------------------------------------------------
(* 4.0 to 4.1: probabilities and consequences move to a scale of base 20.  *)
(* The schema of 4.0 allows any number, the map has only five.             *)

InScale(number, scale) == \E i \in DOMAIN scale : scale[i] = number

MapValue(number, scale, options) ==
    options[CHOOSE i \in DOMAIN scale : scale[i] = number]

Mappable(scenario) ==
    \A risk \in {scenario.risk, scenario.remainingRisk} :
        InScale(risk.probability, Probabilities40) /\ InScale(risk.consequence, Consequences40)

Rescaled(risk) ==
    [probability |-> MapValue(risk.probability, Probabilities40, ProbabilityOptions),
     consequence |-> MapValue(risk.consequence, Consequences40, ConsequenceOptions)]

ChangeValue(old, new) == IF old # new THEN [old |-> old, new |-> new] ELSE None

RiskChange41(risk) ==
    [probability |-> ChangeValue(risk.probability, Rescaled(risk).probability),
     consequence |-> ChangeValue(risk.consequence, Rescaled(risk).consequence)]

Change41(scenario) ==
    [id |-> scenario.id, risk |-> RiskChange41(scenario.risk),
     remainingRisk |-> RiskChange41(scenario.remainingRisk)]

HasChange41(c) ==
    {c.risk.probability, c.risk.consequence, c.remainingRisk.probability,
     c.remainingRisk.consequence} # {None}

updateScenarioFrom40To41(scenario) ==
    [scenario EXCEPT !.risk = Rescaled(@), !.remainingRisk = Rescaled(@)]

migrateFrom40To41(doc, status) ==
    IF \E i \in DOMAIN doc.scenarios : ~Mappable(doc.scenarios[i]) THEN Failed(status)
    ELSE Migrated([doc EXCEPT !.schemaVersion = "4.1",
                              !.scenarios = Map(@, updateScenarioFrom40To41)],
                  [Approved(status) EXCEPT !.migrationChanges41 =
                     OrNull(Changed(doc.scenarios, Change41, HasChange41))])

-----------------------------------------------------------------------------
(* 4.1 to 4.2, 4.2 to 5.0 and 5.0 to 5.1: the actions.                     *)

WhenUpdated(action, lastPublished) ==
    IF lastPublished = None THEN action.lastUpdated ELSE lastPublished

Change42(scenario, lastPublished) ==
    [id |-> scenario.id,
     changedActions |->
        Map(scenario.actions, LAMBDA a : [id |-> a.id, lastUpdated |-> lastPublished])]

HasActions(c) == c.changedActions # <<>>

\* Does not set migrationChanges and migrationRequiresNewApproval.
migrateFrom41To42(doc, lastPublished, status) ==
    Migrated([doc EXCEPT !.schemaVersion = "4.2",
                         !.scenarios = Map(@, LAMBDA s : MapActions(s,
                            LAMBDA a : [a EXCEPT !.lastUpdated = WhenUpdated(a, lastPublished)]))],
             [status EXCEPT !.migrationChanges42 =
                OrNull(Changed(doc.scenarios, LAMBDA s : Change42(s, lastPublished), HasActions))])

ACTION_STATUS_4X_TO_5X_MAP ==
    [status \in Statuses3X4X |->
        CASE status = "Completed" -> "OK"
          [] status = "Aborted" -> "Not relevant"
          [] OTHER -> "Not OK"]

\* No status of 4.2 is one of 5.0.
Change50(scenario) ==
    [id |-> scenario.id,
     changedActions |->
        Map(scenario.actions,
            LAMBDA a : [id |-> a.id, old |-> a.status,
                        new |-> ACTION_STATUS_4X_TO_5X_MAP[a.status]])]

migrateFrom42To50(doc, status) ==
    Migrated([doc EXCEPT !.schemaVersion = "5.0",
                         !.scenarios = Map(@, LAMBDA s : MapActions(s,
                            LAMBDA a : [a EXCEPT !.status = ACTION_STATUS_4X_TO_5X_MAP[@]]))],
             [Approved(status) EXCEPT !.migrationChanges50 =
                OrNull(Changed(doc.scenarios, Change50, HasActions))])

Change51(scenario) ==
    [id |-> scenario.id,
     changedActions |-> Map(scenario.actions, LAMBDA a : [id |-> a.id, lastUpdatedBy |-> ""])]

migrateFrom50To51(doc, status) ==
    Migrated([doc EXCEPT !.schemaVersion = "5.1",
                         !.scenarios = Map(@, LAMBDA s : MapActions(s,
                            LAMBDA a : [a EXCEPT !.lastUpdatedBy = ""]))],
             [Approved(status) EXCEPT !.migrationChanges51 =
                OrNull(Changed(doc.scenarios, Change51, HasActions))])

-----------------------------------------------------------------------------
(* 5.1 to 5.2: valuations are dropped, and only counted in the report.     *)

migrateFrom51To52(doc, status) ==
    Migrated([doc EXCEPT !.schemaVersion = "5.2", !.valuations = {}],
             [status EXCEPT !.migrationChanges = @ \/ doc.valuations # {},
                            !.migrationRequiresNewApproval = TRUE,
                            !.migrationChanges52 = Cardinality(doc.valuations)])

-----------------------------------------------------------------------------
(* The chain of migrations.                                                *)

\* There is no migration from 5.2 yet.
executeMigration(doc, lastPublished, status) ==
    CASE doc.schemaVersion = "3.2" -> migrateFrom32To33(doc, status)
      [] doc.schemaVersion = "3.3" -> migrateFrom33To40(doc, status)
      [] doc.schemaVersion = "4.0" -> migrateFrom40To41(doc, status)
      [] doc.schemaVersion = "4.1" -> migrateFrom41To42(doc, lastPublished, status)
      [] doc.schemaVersion = "4.2" -> migrateFrom42To50(doc, status)
      [] doc.schemaVersion = "5.0" -> migrateFrom50To51(doc, status)
      [] doc.schemaVersion = "5.1" -> migrateFrom51To52(doc, status)
      [] OTHER -> Failed(status)

handleMigrate(doc, lastPublished, status, toVersion) ==
    LET after[steps \in 0..Len(Versions)] ==
          IF steps = 0 THEN Migrated(doc, status)
          ELSE LET last == after[steps - 1]
               IN  IF last.failed \/ last.doc.schemaVersion = toVersion THEN last
                   ELSE executeMigration(last.doc, lastPublished, last.status)
    IN  after[Len(Versions)]

\* The document is one that parseContent has returned.
migrate(doc, lastPublished, toVersion) ==
    LET status == [NoChanges EXCEPT !.fromVersion = doc.schemaVersion, !.toVersion = toVersion]
        result == handleMigrate(doc, lastPublished, status, toVersion)
    IN  IF \/ toVersion \notin VersionSet \/ ~Since(toVersion, doc.schemaVersion)
           \/ result.failed \/ ~Valid(result.doc)
        THEN Failed(status) ELSE result
=============================================================================
