---------------------------- MODULE RiScConversion ---------------------------
(***************************************************************************)
(* What the page makes of a document: the levels and forms in which it is  *)
(* shown and edited (utils/utilityfunctions.ts, ScenarioContext.tsx), and  *)
(* what it sends (utils/DTOs.ts).                                          *)
(*                                                                         *)
(* The native service migrates what the page fetches to version 5.2.       *)
(***************************************************************************)
EXTENDS RiScDocument, FiniteSets, SequencesExt

\* Level i begins at 20^(i - 1/2) times the lowest of the options.
ProbabilityBounds == {112, 2237, 44722, 894428}

ConsequenceBounds == {35778, 715542, 14310836, 286216702}

Level(number, bounds) == Cardinality({b \in bounds : number >= b})

findProbabilityIndex(probability) == Level(probability, ProbabilityBounds)

\* Mutant of findConsequenceIndex: the scale is off by one.
FaultyfindConsequenceIndex(consequence) ==
    Level(consequence, ConsequenceBounds \ {35778})

findConsequenceIndex(consequence) == Level(consequence, ConsequenceBounds)

Levels(risk) ==
    [probability |-> findProbabilityIndex(risk.probability),
     consequence |-> findConsequenceIndex(risk.consequence)]

roundConsequenceToNearestConsequenceOption(consequence) ==
    ConsequenceOptions[findConsequenceIndex(consequence) + 1]

roundProbabilityToNearestProbabilityOption(probability) ==
    ProbabilityOptions[findProbabilityIndex(probability) + 1]

RoundedRisk(risk) ==
    [probability |-> roundProbabilityToNearestProbabilityOption(risk.probability),
     consequence |-> roundConsequenceToNearestConsequenceOption(risk.consequence)]

mapScenarioToFormScenario(scenario) ==
    [scenario EXCEPT !.risk = RoundedRisk(@), !.remainingRisk = RoundedRisk(@)]

\* A form only has the options.
FormRisks == [probability : Range(ProbabilityOptions), consequence : Range(ConsequenceOptions)]

FormScenarios ==
    {s \in Scenarios : s.risk \in FormRisks /\ s.remainingRisk \in FormRisks}

validateRemainingRiskNotHigher(scenario) ==
    /\ scenario.remainingRisk.probability <= scenario.risk.probability
    /\ scenario.remainingRisk.consequence <= scenario.risk.consequence

\* A field that is registered with a form has a value.
Registered(form) ==
    LET Commented(action) == [action EXCEPT !.comment = IF @ = None THEN "" ELSE @]
    IN  [form EXCEPT !.actions = [i \in DOMAIN @ |-> Commented(@[i])]]

emptyAction(id) ==
    [id |-> id, text |-> 0, status |-> "Not OK", owner |-> None, deadline |-> None,
     lastUpdated |-> None, lastUpdatedBy |-> None, comment |-> ""]

LowestRisk == [probability |-> ProbabilityOptions[1], consequence |-> ConsequenceOptions[1]]

emptyFormScenario(id) ==
    [id |-> id, text |-> 0, threatActors |-> {}, vulnerabilities |-> {},
     risk |-> LowestRisk, remainingRisk |-> LowestRisk, actions |-> <<>>,
     existingActions |-> None]

-----------------------------------------------------------------------------
(* Who updated an action, and when.                                        *)

isActionsEqual(a, b) ==
    /\ a.id = b.id /\ a.text = b.text /\ a.status = b.status
    /\ a.lastUpdated = b.lastUpdated

Stamped(action, now) ==
    [action EXCEPT !.lastUpdated = [time |-> now, kind |-> "Date"], !.lastUpdatedBy = "user"]

\* Only actions that are new or changed are stamped, unless all are `forced`.
getActionsWithLastUpdated(old, new, forced, now) ==
    [i \in DOMAIN new |->
        IF /\ ~forced /\ new[i].id \in Ids(old)
           /\ isActionsEqual(new[i], Find(old, new[i].id))
        THEN new[i] ELSE Stamped(new[i], now)]

buildPredefinedScenarios(scenarios, now) ==
    [i \in DOMAIN scenarios |->
        [scenarios[i] EXCEPT !.actions = getActionsWithLastUpdated(<<>>, @, TRUE, now)]]

hasAnyPredefinedScenario(content, scenarios) ==
    Ids(content.scenarios) \cap Ids(scenarios) # {}

-----------------------------------------------------------------------------
(* Equality, and what the page sends.                                      *)

\* isDeeplyEqual compares properties, of which a Date has none: a date is equal
\* to another, and to no string.
Undate(date) ==
    IF date # None /\ date.kind = "Date" THEN [time |-> 0, kind |-> "Date"] ELSE date

UndatedAction(action) == [action EXCEPT !.lastUpdated = Undate(@)]

Undated(scenario) ==
    [scenario EXCEPT !.actions = [i \in DOMAIN @ |-> UndatedAction(@[i])]]

isDeeplyEqual(old, new) ==
    /\ DOMAIN old = DOMAIN new
    /\ \A i \in DOMAIN old : Undated(old[i]) = Undated(new[i])

\* Mutant of requiresNewApproval: only looks whether scenarios come and go.
FaultyrequiresNewApproval(old, updated) ==
    Ids(old.scenarios) # Ids(updated.scenarios)

\* The scenarios are sorted by the number that their id is; for an id with
\* letters that is none, and the order stays as it is.
requiresNewApproval(old, updated) ==
    \/ ~isDeeplyEqual(old.scenarios, updated.scenarios)
    \/ old.appliesTo # updated.appliesTo

\* JSON has only strings for dates.
DateToJson(date) ==
    IF date = None THEN None ELSE [date EXCEPT !.kind = "string"]

actionToDTO(action) ==
    [action EXCEPT !.owner = None, !.deadline = None, !.lastUpdated = DateToJson(@)]

scenarioToDTO(scenario) ==
    [scenario EXCEPT !.existingActions = None,
                     !.actions = [i \in DOMAIN @ |-> actionToDTO(@[i])]]

riScToDTO(content) ==
    [content EXCEPT !.valuations = {},
                    !.scenarios = [i \in DOMAIN @ |-> scenarioToDTO(@[i])]]

\* What is parsed from JSON is kept as it is.
dtoToRiSc(dto) == dto

getScenarioOfIdFromRiSc(id, content) ==
    IF id \in Ids(content.scenarios) THEN Find(content.scenarios, id) ELSE None

\* deleteScenario
WithoutScenario(content, id) ==
    [content EXCEPT !.scenarios = ItemsAt(@, {i \in DOMAIN @ : @[i].id # id})]

\* submitEditedScenarioToRiSc
WithScenario(content, scenario) ==
    [content EXCEPT !.scenarios = [i \in DOMAIN @ |->
        IF @[i].id = scenario.id THEN scenario ELSE @[i]]]

WithNewScenarios(content, scenarios) ==
    [content EXCEPT !.scenarios = scenarios \o @]
=============================================================================
