----------------------------- MODULE RiScDocument ----------------------------
(***************************************************************************)
(* The content of a risk scorecard (ros-common/src/types.ts) and the JSON  *)
(* schemas that tell a document of each version (schemas/*.json).          *)
(*                                                                         *)
(* One shape of record serves every version: what a version does not have  *)
(* is None, or empty.  Title, description and url are one field `text`, as *)
(* are title and scope of the document: they are always kept, compared and *)
(* reported alike.  Lists whose order nothing depends on are sets.         *)
(***************************************************************************)
EXTENDS Naturals, Sequences, FiniteSets

CONSTANTS
    None,        \* null, undefined, or a property that is not there
    ScenarioId,  \* ids of scenarios
    ActionId     \* ids of actions


\* RiScVersion, in its order.
Versions == <<"3.2", "3.3", "4.0", "4.1", "4.2", "5.0", "5.1", "5.2">>

latestSupportedVersion == "5.2"

VersionSet == {Versions[i] : i \in DOMAIN Versions}

IndexOf(version) == CHOOSE i \in DOMAIN Versions : Versions[i] = version

Since(version, first) == IndexOf(version) >= IndexOf(first)

Major(version) == IF Since(version, "5.0") THEN 5
                  ELSE IF Since(version, "4.0") THEN 4 ELSE 3

Vulnerabilities3X ==
    {"User repudiation", "Compromised admin user", "Escalation of rights",
     "Disclosed secret", "Denial of service", "Dependency vulnerability",
     "Information leak", "Input tampering", "Misconfiguration"}

Vulnerabilities4X5X ==
    {"Flawed design", "Misconfiguration", "Dependency vulnerability",
     "Unauthorized access", "Unmonitored use", "Input tampering",
     "Information leak", "Excessive use"}

Statuses3X4X == {"Not started", "In progress", "On hold", "Completed", "Aborted"}

Statuses5X == {"OK", "Not OK", "Not relevant"}

\* Events a year, in ten-thousandths, and kroner an event: the five options of
\* a form in the scales before and since version 4.1.
Probabilities40 == <<100, 1000, 10000, 500000, 3000000>>

Consequences40 == <<1000, 30000, 1000000, 30000000, 1000000000>>

ProbabilityOptions == <<25, 500, 10000, 200000, 4000000>>

ConsequenceOptions == <<8000, 160000, 3200000, 64000000, 1280000000>>

RiScRisk == [probability : Nat, consequence : Nat]

\* A date is a string in a document and, in the page, a Date once it was set
\* there.
Times == [time : Nat, kind : {"string", "Date"}]

Actions ==
    [id : ActionId, text : Nat, status : Statuses3X4X \cup Statuses5X,
     owner : STRING \cup {None}, deadline : STRING \cup {None},
     lastUpdated : Times \cup {None}, lastUpdatedBy : STRING \cup {None},
     comment : STRING \cup {None}]

Scenarios ==
    [id : ScenarioId, text : Nat, threatActors : SUBSET STRING,
     vulnerabilities : SUBSET (Vulnerabilities3X \cup Vulnerabilities4X5X),
     risk : RiScRisk, remainingRisk : RiScRisk, actions : Seq(Actions),
     existingActions : STRING \cup {None}]

RiScDocuments ==
    [schemaVersion : STRING, text : Nat, appliesTo : Nat \cup {None},
     valuations : SUBSET Nat, scenarios : Seq(Scenarios)]

\* The second is only said because the prover does not know it.
ASSUME DocumentAssumption ==
    /\ None \notin ScenarioId \cup ActionId \cup Times \cup Scenarios \cup RiScDocuments
    /\ VersionSet \cup Statuses3X4X \cup Statuses5X \cup {"", "user"} \subseteq STRING

Ids(items) == {items[i].id : i \in DOMAIN items}

\* Ids are drawn at random where an item is made.
UniqueIds(items) == \A i, j \in DOMAIN items : items[i].id = items[j].id => i = j

\* The first item of that id, as find.
Find(items, id) ==
    items[CHOOSE i \in DOMAIN items :
            items[i].id = id /\ \A j \in 1..(i - 1) : items[j].id # id]

\* The items at these indices, in their order: what filter keeps.  SelectSeq
\* without recursion, so that it can be reasoned about.
ItemsAt(items, indices) ==
    [n \in 1..Cardinality(indices) |->
        items[CHOOSE i \in indices : Cardinality({j \in indices : j <= i}) = n]]

-----------------------------------------------------------------------------
(* Schemas: nothing is allowed that a schema does not name.                *)

Vulnerabilities(version) ==
    IF Major(version) = 3 THEN Vulnerabilities3X ELSE Vulnerabilities4X5X

Statuses(version) == IF Major(version) = 5 THEN Statuses5X ELSE Statuses3X4X

ValidAction(action, version) ==
    /\ action.status \in Statuses(version)
    /\ version = "3.2" => None \notin {action.owner, action.deadline}
    /\ Major(version) > 3 => {action.owner, action.deadline} = {None}
    /\ action.lastUpdated # None =>
           Since(version, "4.2") /\ action.lastUpdated.kind = "string"
    /\ action.lastUpdatedBy # None => Since(version, "5.1")
    /\ action.comment = None

ValidScenario(scenario, version) ==
    /\ scenario.vulnerabilities \subseteq Vulnerabilities(version)
    /\ scenario.existingActions # None => Major(version) = 3
    /\ \A i \in DOMAIN scenario.actions : ValidAction(scenario.actions[i], version)

\* Mutant of Valid: a version that is not known is not refused.
FaultyValid(doc) ==
    doc.schemaVersion \in VersionSet =>
        \A i \in DOMAIN doc.scenarios :
            ValidScenario(doc.scenarios[i], doc.schemaVersion)

\* validate, and the assertion of parseContent.
Valid(doc) ==
    /\ doc.schemaVersion \in VersionSet
    /\ doc.appliesTo = None
    /\ doc.valuations # {} => ~Since(doc.schemaVersion, "5.2")
    /\ \A i \in DOMAIN doc.scenarios :
           ValidScenario(doc.scenarios[i], doc.schemaVersion)
=============================================================================
