---------------------------- MODULE RiScComparison ---------------------------
(***************************************************************************)
(* ComparisonService: what is different between the published content of a *)
(* risk scorecard and an updated one.  The older one is migrated first;    *)
(* scenarios and actions are matched by their ids.                         *)
(***************************************************************************)
EXTENDS RiScMigration, SequencesExt

(* What there is to say of each version: a property that is unchanged is    *)
(* None.                                                                   *)

SimpleChanges(S) == OrNone([old : S, new : S])

ListChanges(S) == [deleted : SUBSET S, added : SUBSET S]

TrackedChanges(changes, items) ==
    [deleted : Seq(items), changed : Seq(changes), added : Seq(items)]

RiScRiskChanges ==
    [probability : SimpleChanges(Nat), consequence : SimpleChanges(Nat)]

RiSc5XActionChanges ==
    [id : ActionId, text : SimpleChanges(Nat), status : SimpleChanges(Statuses5X),
     lastUpdated : SimpleChanges(OrNone(Times)), lastUpdatedBy : SimpleChanges(OrNone(STRING))]

RiSc5XScenarioChanges ==
    [id : ScenarioId, text : SimpleChanges(Nat), threatActors : ListChanges(STRING),
     vulnerabilities : ListChanges(Vulnerabilities4X5X), risk : RiScRiskChanges,
     remainingRisk : RiScRiskChanges, actions : TrackedChanges(RiSc5XActionChanges, Actions)]

RiSc4XActionChanges ==
    [id : ActionId, text : SimpleChanges(Nat), status : SimpleChanges(Statuses3X4X),
     lastUpdated : SimpleChanges(OrNone(Times))]

RiSc4XScenarioChanges ==
    [id : ScenarioId, text : SimpleChanges(Nat), threatActors : ListChanges(STRING),
     vulnerabilities : ListChanges(Vulnerabilities4X5X), risk : RiScRiskChanges,
     remainingRisk : RiScRiskChanges, actions : TrackedChanges(RiSc4XActionChanges, Actions)]

RiSc3XActionChanges ==
    [id : ActionId, text : SimpleChanges(Nat), status : SimpleChanges(Statuses3X4X),
     deadline : SimpleChanges(OrNone(STRING)), owner : SimpleChanges(OrNone(STRING))]

RiSc3XScenarioChanges ==
    [id : ScenarioId, text : SimpleChanges(Nat), threatActors : ListChanges(STRING),
     vulnerabilities : ListChanges(Vulnerabilities3X), risk : RiScRiskChanges,
     remainingRisk : RiScRiskChanges, actions : TrackedChanges(RiSc3XActionChanges, Actions),
     existingActions : SimpleChanges(OrNone(STRING))]

RiScChangesOf(major, scenarioChanges) ==
    [type : {major}, text : SimpleChanges(Nat), valuations : ListChanges(Nat),
     scenarios : TrackedChanges(scenarioChanges, Scenarios),
     migrationChanges : MigrationStatuses]

RiScChanges ==
    RiScChangesOf(3, RiSc3XScenarioChanges) \cup RiScChangesOf(4, RiSc4XScenarioChanges)
        \cup RiScChangesOf(5, RiSc5XScenarioChanges)

-----------------------------------------------------------------------------
(* The comparison.                                                         *)

\* A property that is unchanged is None; so is one that is reported as it is,
\* because it must be there.
changeForSimpleProperty(old, new) ==
    IF old = new THEN None ELSE [old |-> old, new |-> new]

\* Mutant of changeForListOfSimpleProperty: additions are left out if something
\* was deleted.
FaultychangeForListOfSimpleProperty(old, new) ==
    [deleted |-> old \ new, added |-> IF old \ new = {} THEN new \ old ELSE {}]

changeForListOfSimpleProperty(old, new) ==
    [deleted |-> old \ new, added |-> new \ old]

\* What is changed is the pair of the two items, until Compared compares them.
changeForListOfComplexProperty(old, new) ==
    LET changed == ItemsAt(old, {i \in DOMAIN old : /\ old[i].id \in Ids(new)
                                                    /\ old[i] # Find(new, old[i].id)})
    IN  [deleted |-> ItemsAt(old, {i \in DOMAIN old : old[i].id \notin Ids(new)}),
         changed |-> Map(changed, LAMBDA item : <<item, Find(new, item.id)>>),
         added |-> ItemsAt(new, {i \in DOMAIN new : new[i].id \notin Ids(old)})]

Compared(tracked, changeMapper(_, _)) ==
    [tracked EXCEPT !.changed =
        [i \in DOMAIN tracked.changed |->
            changeMapper(tracked.changed[i][1], tracked.changed[i][2])]]

\* What every version has, and what one has besides: @@, which the prover does
\* not know.
Extended(common, own) ==
    [name \in DOMAIN common \cup DOMAIN own |->
        IF name \in DOMAIN own THEN own[name] ELSE common[name]]

compareRisk(old, new) ==
    [probability |-> changeForSimpleProperty(old.probability, new.probability),
     consequence |-> changeForSimpleProperty(old.consequence, new.consequence)]

\* What every version compares, of an action, a scenario and a RiSc.
compareCommonActionFields(old, new) ==
    [id |-> new.id,
     text |-> changeForSimpleProperty(old.text, new.text),
     status |-> changeForSimpleProperty(old.status, new.status)]

compareCommonScenarioFields(old, new) ==
    [id |-> new.id,
     text |-> changeForSimpleProperty(old.text, new.text),
     threatActors |-> changeForListOfSimpleProperty(old.threatActors, new.threatActors),
     vulnerabilities |-> changeForListOfSimpleProperty(old.vulnerabilities, new.vulnerabilities),
     risk |-> compareRisk(old.risk, new.risk),
     remainingRisk |-> compareRisk(old.remainingRisk, new.remainingRisk)]

compareCommonRiScFields(old, new, status) ==
    [text |-> changeForSimpleProperty(old.text, new.text),
     valuations |-> changeForListOfSimpleProperty(old.valuations, new.valuations),
     migrationChanges |-> status]

\* Who updated an action, and when, of versions 4 and 5.
compareAction4X(old, new) ==
    Extended(compareCommonActionFields(old, new),
             [lastUpdated |-> changeForSimpleProperty(old.lastUpdated, new.lastUpdated)])

compareAction5X(old, new) ==
    Extended(compareAction4X(old, new),
             [lastUpdatedBy |-> changeForSimpleProperty(old.lastUpdatedBy, new.lastUpdatedBy)])

compareAction3X(old, new) ==
    Extended(compareCommonActionFields(old, new),
             [owner |-> changeForSimpleProperty(old.owner, new.owner),
              deadline |-> changeForSimpleProperty(old.deadline, new.deadline)])

compareScenario5X(old, new) ==
    Extended(compareCommonScenarioFields(old, new),
             [actions |-> Compared(changeForListOfComplexProperty(old.actions, new.actions),
                                   compareAction5X)])

compareScenario4X(old, new) ==
    Extended(compareCommonScenarioFields(old, new),
             [actions |-> Compared(changeForListOfComplexProperty(old.actions, new.actions),
                                   compareAction4X)])

compareScenario3X(old, new) ==
    Extended(compareCommonScenarioFields(old, new),
             [actions |-> Compared(changeForListOfComplexProperty(old.actions, new.actions),
                                   compareAction3X),
              existingActions |->
                 changeForSimpleProperty(old.existingActions, new.existingActions)])

comparison(updated, old, status, major, compareScenario(_, _)) ==
    Extended(compareCommonRiScFields(old, updated, status),
             [type |-> major,
              scenarios |-> Compared(changeForListOfComplexProperty(old.scenarios,
                                                                    updated.scenarios),
                                     compareScenario)])

comparison5X(updated, old, status) == comparison(updated, old, status, 5, compareScenario5X)

comparison4X(updated, old, status) == comparison(updated, old, status, 4, compareScenario4X)

comparison3X(updated, old, status) == comparison(updated, old, status, 3, compareScenario3X)

\* None: a ComparisonError.
compare(updated, oldRiSc, lastPublished) ==
    LET old == migrate(oldRiSc, lastPublished, updated.schemaVersion)
    IN  IF old.failed THEN None
        ELSE CASE Major(updated.schemaVersion) = 5 -> comparison5X(updated, old.doc, old.status)
               [] Major(updated.schemaVersion) = 4 -> comparison4X(updated, old.doc, old.status)
               [] OTHER -> comparison3X(updated, old.doc, old.status)
=============================================================================
