---------------------------- MODULE ScenarioKeptProofs ------------------------
(***************************************************************************)
(* Proofs of what becomes of scenarios in ScenarioEditor, for any files    *)
(* and any edits: what is migrated, compared, saved and brought back; and  *)
(* of the types of all there is.                                           *)
(***************************************************************************)
EXTENDS ScenarioEditorProofs

-----------------------------------------------------------------------------
(* What every conversion of a scenario keeps.                              *)

\* The ids of a list, in its order.
IdList(items) == [i \in DOMAIN items |-> items[i].id]

\* Id and text of a scenario, the level of its risk in a document of that
\* version, and the ids of its actions.
Traits(s, version) ==
    [id |-> s.id, text |-> s.text, levels |-> LevelsOf(s.risk, version),
     actions |-> IdList(s.actions)]

\* Two documents with the same scenarios, as far as conversions keep them.
Retells(old, new) ==
    /\ new.text = old.text /\ DOMAIN new.scenarios = DOMAIN old.scenarios
    /\ \A i \in DOMAIN old.scenarios :
           Traits(new.scenarios[i], new.schemaVersion) = Traits(old.scenarios[i], old.schemaVersion)

\* Since 4.1 the levels do not depend on the version, nor do they before.
LEMMA LevelsOfVersions ==
    ASSUME NEW risk
    PROVE  /\ \A v \in {"4.1", "4.2", "5.0", "5.1", "5.2"} : LevelsOf(risk, v) = Levels(risk)
           /\ \A v \in {"3.2", "3.3", "4.0"} :
                 LevelsOf(risk, v) =
                     [probability |-> Position(risk.probability, Probabilities40),
                      consequence |-> Position(risk.consequence, Consequences40)]
<1>1. \A v \in {"4.1", "4.2", "5.0", "5.1", "5.2"} : Since(v, "4.1")
  BY Indices DEF Since
<1>2. \A v \in {"3.2", "3.3", "4.0"} : ~Since(v, "4.1")
  BY Indices DEF Since
<1> QED BY <1>1, <1>2 DEF LevelsOf

\* Each option has a level of its own, in its order.
LEMMA OptionLevels ==
    /\ \A k \in 1..5 : findProbabilityIndex(ProbabilityOptions[k]) = k - 1
    /\ \A k \in 1..5 : findConsequenceIndex(ConsequenceOptions[k]) = k - 1
<1>1. ASSUME NEW k \in 1..5 PROVE k \in {1, 2, 3, 4, 5}
  OBVIOUS
<1>2. /\ ProbabilityOptions[1] = 25 /\ ProbabilityOptions[2] = 500
      /\ ProbabilityOptions[3] = 10000 /\ ProbabilityOptions[4] = 200000
      /\ ProbabilityOptions[5] = 4000000
  BY DEF ProbabilityOptions
<1>3. /\ ConsequenceOptions[1] = 8000 /\ ConsequenceOptions[2] = 160000
      /\ ConsequenceOptions[3] = 3200000 /\ ConsequenceOptions[4] = 64000000
      /\ ConsequenceOptions[5] = 1280000000
  BY DEF ConsequenceOptions
<1>4. /\ {b \in ProbabilityBounds : 25 >= b} = {}
      /\ {b \in ProbabilityBounds : 500 >= b} = {112}
      /\ {b \in ProbabilityBounds : 10000 >= b} = {112, 2237}
      /\ {b \in ProbabilityBounds : 200000 >= b} = {112, 2237, 44722}
      /\ {b \in ProbabilityBounds : 4000000 >= b} = {112, 2237, 44722, 894428}
  BY DEF ProbabilityBounds
<1>5. /\ {b \in ConsequenceBounds : 8000 >= b} = {}
      /\ {b \in ConsequenceBounds : 160000 >= b} = {35778}
      /\ {b \in ConsequenceBounds : 3200000 >= b} = {35778, 715542}
      /\ {b \in ConsequenceBounds : 64000000 >= b} = {35778, 715542, 14310836}
      /\ {b \in ConsequenceBounds : 1280000000 >= b} = {35778, 715542, 14310836, 286216702}
  BY DEF ConsequenceBounds
<1> DEFINE a == 112
           b == 2237
           c == 44722
           d == 894428
           e == 35778
           f == 715542
           g == 14310836
           h == 286216702
<1>6. /\ a # b /\ a # c /\ a # d /\ b # c /\ b # d /\ c # d
      /\ e # f /\ e # g /\ e # h /\ f # g /\ f # h /\ g # h
  OBVIOUS
<1>7. /\ Cardinality({}) = 0 /\ Cardinality({a}) = 1 /\ Cardinality({a, b}) = 2
      /\ Cardinality({a, b, c}) = 3 /\ Cardinality({a, b, c, d}) = 4
      /\ Cardinality({e}) = 1 /\ Cardinality({e, f}) = 2
      /\ Cardinality({e, f, g}) = 3 /\ Cardinality({e, f, g, h}) = 4
  <2> HIDE DEF a, b, c, d, e, f, g, h
  <2>1. Cardinality({}) = 0
    BY FS_EmptySet
  <2>2. IsFiniteSet({a}) /\ Cardinality({a}) = 1
    BY FS_Singleton
  <2>3. IsFiniteSet({a, b}) /\ Cardinality({a, b}) = 2
    <3>1. {a, b} = {a} \cup {b} /\ b \notin {a}
      BY <1>6
    <3> QED BY <2>2, <3>1, FS_AddElement
  <2>4. IsFiniteSet({a, b, c}) /\ Cardinality({a, b, c}) = 3
    <3>1. {a, b, c} = {a, b} \cup {c} /\ c \notin {a, b}
      BY <1>6
    <3> QED BY <2>3, <3>1, FS_AddElement
  <2>5. IsFiniteSet({a, b, c, d}) /\ Cardinality({a, b, c, d}) = 4
    <3>1. {a, b, c, d} = {a, b, c} \cup {d} /\ d \notin {a, b, c}
      BY <1>6
    <3> QED BY <2>4, <3>1, FS_AddElement
  <2>6. IsFiniteSet({e}) /\ Cardinality({e}) = 1
    BY FS_Singleton
  <2>7. IsFiniteSet({e, f}) /\ Cardinality({e, f}) = 2
    <3>1. {e, f} = {e} \cup {f} /\ f \notin {e}
      BY <1>6
    <3> QED BY <2>6, <3>1, FS_AddElement
  <2>8. IsFiniteSet({e, f, g}) /\ Cardinality({e, f, g}) = 3
    <3>1. {e, f, g} = {e, f} \cup {g} /\ g \notin {e, f}
      BY <1>6
    <3> QED BY <2>7, <3>1, FS_AddElement
  <2>9. IsFiniteSet({e, f, g, h}) /\ Cardinality({e, f, g, h}) = 4
    <3>1. {e, f, g, h} = {e, f, g} \cup {h} /\ h \notin {e, f, g}
      BY <1>6
    <3> QED BY <2>8, <3>1, FS_AddElement
  <2> QED BY <2>1, <2>2, <2>3, <2>4, <2>5, <2>6, <2>7, <2>8, <2>9
<1>8. /\ findProbabilityIndex(25) = 0 /\ findProbabilityIndex(500) = 1
      /\ findProbabilityIndex(10000) = 2 /\ findProbabilityIndex(200000) = 3
      /\ findProbabilityIndex(4000000) = 4
  BY <1>4, <1>7 DEF findProbabilityIndex, Level
<1>9. /\ findConsequenceIndex(8000) = 0 /\ findConsequenceIndex(160000) = 1
      /\ findConsequenceIndex(3200000) = 2 /\ findConsequenceIndex(64000000) = 3
      /\ findConsequenceIndex(1280000000) = 4
  BY <1>5, <1>7 DEF findConsequenceIndex, Level
<1>10. \A k \in 1..5 : findProbabilityIndex(ProbabilityOptions[k]) = k - 1
  BY <1>1, <1>2, <1>8
<1>11. \A k \in 1..5 : findConsequenceIndex(ConsequenceOptions[k]) = k - 1
  BY <1>1, <1>3, <1>9
<1> QED BY <1>10, <1>11

\* A rounded risk has the levels it had,
LEMMA RoundedLevels ==
    ASSUME NEW risk \in RiScRisk PROVE Levels(RoundedRisk(risk)) = Levels(risk)
<1> DEFINE p == findProbabilityIndex(risk.probability)
           c == findConsequenceIndex(risk.consequence)
<1>1. risk.probability \in Nat /\ risk.consequence \in Nat
  BY DEF RiScRisk
<1>2. p \in 0..4 /\ c \in 0..4
  BY <1>1, LevelsAreOptions
<1> HIDE DEF p, c
<1>3. p + 1 \in 1..5 /\ (p + 1) - 1 = p /\ c + 1 \in 1..5 /\ (c + 1) - 1 = c
  BY <1>2
<1>4. /\ findProbabilityIndex(ProbabilityOptions[p + 1]) = p
      /\ findConsequenceIndex(ConsequenceOptions[c + 1]) = c
  BY <1>3, OptionLevels
<1>5. RoundedRisk(risk) = [probability |-> ProbabilityOptions[p + 1],
                           consequence |-> ConsequenceOptions[c + 1]]
  BY DEF RoundedRisk, p, c, roundProbabilityToNearestProbabilityOption,
         roundConsequenceToNearestConsequenceOption
<1>6. Levels(risk) = [probability |-> p, consequence |-> c]
  BY DEF Levels, p, c
<1> QED BY <1>4, <1>5, <1>6 DEF Levels

\* and so has one that is migrated to the options of 4.1.
LEMMA RescaledLevels ==
    ASSUME NEW risk, InScale(risk.probability, Probabilities40),
           InScale(risk.consequence, Consequences40)
    PROVE  Levels(Rescaled(risk)) =
               [probability |-> Position(risk.probability, Probabilities40),
                consequence |-> Position(risk.consequence, Consequences40)]
<1> DEFINE p == CHOOSE i \in DOMAIN Probabilities40 : Probabilities40[i] = risk.probability
           c == CHOOSE i \in DOMAIN Consequences40 : Consequences40[i] = risk.consequence
<1>1. DOMAIN Probabilities40 = 1..5 /\ DOMAIN Consequences40 = 1..5
  BY DEF Probabilities40, Consequences40
<1>2. p \in DOMAIN Probabilities40 /\ c \in DOMAIN Consequences40
  BY DEF InScale
<1>3. /\ Position(risk.probability, Probabilities40) = p - 1
      /\ Position(risk.consequence, Consequences40) = c - 1
  BY DEF Position
<1>4. Rescaled(risk) = [probability |-> ProbabilityOptions[p],
                        consequence |-> ConsequenceOptions[c]]
  BY DEF Rescaled, MapValue
<1> HIDE DEF p, c
<1>5. /\ findProbabilityIndex(ProbabilityOptions[p]) = p - 1
      /\ findConsequenceIndex(ConsequenceOptions[c]) = c - 1
  BY <1>1, <1>2, OptionLevels
<1> QED BY <1>3, <1>4, <1>5 DEF Levels

-----------------------------------------------------------------------------
(* What one step of a migration makes of a scenario.                       *)

\* The actions of a scenario as migrateFrom41To42,
Dated42(s, lastPublished) ==
    [j \in DOMAIN s.actions |->
        [s.actions[j] EXCEPT !.lastUpdated = WhenUpdated(s.actions[j], lastPublished)]]

\* migrateFrom42To50
Stated50(s) ==
    [j \in DOMAIN s.actions |->
        [s.actions[j] EXCEPT !.status = ACTION_STATUS_4X_TO_5X_MAP[s.actions[j].status]]]

\* and migrateFrom50To51 leave them.
Signed51(s) == [j \in DOMAIN s.actions |-> [s.actions[j] EXCEPT !.lastUpdatedBy = ""]]

\* A scenario of a document of that version after one step.
Stepped(s, version, lastPublished) ==
    CASE version = "3.3" -> updateScenarioFrom33To40(s)
      [] version = "4.0" -> updateScenarioFrom40To41(s)
      [] version = "4.1" -> [s EXCEPT !.actions = Dated42(s, lastPublished)]
      [] version = "4.2" -> [s EXCEPT !.actions = Stated50(s)]
      [] version = "5.0" -> [s EXCEPT !.actions = Signed51(s)]
      [] OTHER -> s

\* What a step keeps of a document, and makes of its scenarios.
StepsTo(old, new, lastPublished) ==
    /\ new.text = old.text /\ DOMAIN new.scenarios = DOMAIN old.scenarios
    /\ new.schemaVersion = Versions[IndexOf(old.schemaVersion) + 1]
    /\ \A i \in DOMAIN old.scenarios :
           new.scenarios[i] = Stepped(old.scenarios[i], old.schemaVersion, lastPublished)

\* The version after each.
LEMMA VersionAfter ==
    /\ Versions[IndexOf("3.2") + 1] = "3.3" /\ Versions[IndexOf("3.3") + 1] = "4.0"
    /\ Versions[IndexOf("4.0") + 1] = "4.1" /\ Versions[IndexOf("4.1") + 1] = "4.2"
    /\ Versions[IndexOf("4.2") + 1] = "5.0" /\ Versions[IndexOf("5.0") + 1] = "5.1"
    /\ Versions[IndexOf("5.1") + 1] = "5.2"
BY Indices DEF Versions

\* A document in another version with other scenarios is still of that text.
LEMMA InVersionParts ==
    ASSUME NEW doc \in RiScDocuments, NEW v, NEW scenarios
    PROVE  LET new == InVersion(doc, v, scenarios)
           IN  new.scenarios = scenarios /\ new.text = doc.text /\ new.schemaVersion = v
BY DEF InVersion, RiScDocuments

\* A step that does not fail is that of the scenarios one by one.
LEMMA StepIsOfScenarios ==
    ASSUME NEW doc \in RiScDocuments, doc.schemaVersion \in VersionSet, NEW status,
           NEW lastPublished,
           ~executeMigration(doc, lastPublished, status).failed
    PROVE  StepsTo(doc, executeMigration(doc, lastPublished, status).doc, lastPublished)
<1>1. CASE doc.schemaVersion = "3.2"
  <2>1. executeMigration(doc, lastPublished, status).doc = [doc EXCEPT !.schemaVersion = "3.3"]
    BY <1>1 DEF executeMigration, migrateFrom32To33, Migrated
  <2>2. [doc EXCEPT !.schemaVersion = "3.3"] = InVersion(doc, "3.3", doc.scenarios)
    BY DEF InVersion, RiScDocuments
  <2> QED BY <1>1, <2>1, <2>2, InVersionParts, VersionAfter DEF StepsTo, Stepped
<1>2. CASE doc.schemaVersion = "3.3"
  <2> DEFINE scenarios == [i \in DOMAIN doc.scenarios |->
                              updateScenarioFrom33To40(doc.scenarios[i])]
  <2>1. executeMigration(doc, lastPublished, status).doc = InVersion(doc, "4.0", scenarios)
    BY <1>2 DEF executeMigration, migrateFrom33To40, Migrated, Map, InVersion
  <2>2. \A i \in DOMAIN doc.scenarios :
            scenarios[i] = Stepped(doc.scenarios[i], doc.schemaVersion, lastPublished)
    BY <1>2 DEF Stepped
  <2>3. DOMAIN scenarios = DOMAIN doc.scenarios
    OBVIOUS
  <2> HIDE DEF scenarios
  <2> QED BY <1>2, <2>1, <2>2, <2>3, InVersionParts, VersionAfter DEF StepsTo
<1>3. CASE doc.schemaVersion = "4.0"
  <2> DEFINE scenarios == [i \in DOMAIN doc.scenarios |->
                              updateScenarioFrom40To41(doc.scenarios[i])]
  <2>1. executeMigration(doc, lastPublished, status) = migrateFrom40To41(doc, status)
    BY <1>3 DEF executeMigration
  <2>2. migrateFrom40To41(doc, status).doc = InVersion(doc, "4.1", scenarios)
    BY <2>1 DEF migrateFrom40To41, Migrated, Failed, Map, InVersion
  <2>3. \A i \in DOMAIN doc.scenarios :
            scenarios[i] = Stepped(doc.scenarios[i], doc.schemaVersion, lastPublished)
    BY <1>3 DEF Stepped
  <2>4. DOMAIN scenarios = DOMAIN doc.scenarios
    OBVIOUS
  <2> HIDE DEF scenarios
  <2> QED BY <1>3, <2>1, <2>2, <2>3, <2>4, InVersionParts, VersionAfter DEF StepsTo
<1>4. CASE doc.schemaVersion = "4.1"
  <2> DEFINE scenarios == [i \in DOMAIN doc.scenarios |->
                              [doc.scenarios[i] EXCEPT !.actions =
                                  Dated42(doc.scenarios[i], lastPublished)]]
  <2>1. executeMigration(doc, lastPublished, status).doc = InVersion(doc, "4.2", scenarios)
    BY <1>4 DEF executeMigration, migrateFrom41To42, Migrated, Map, MapActions, InVersion,
                Dated42
  <2>2. \A i \in DOMAIN doc.scenarios :
            scenarios[i] = Stepped(doc.scenarios[i], doc.schemaVersion, lastPublished)
    BY <1>4 DEF Stepped
  <2>3. DOMAIN scenarios = DOMAIN doc.scenarios
    OBVIOUS
  <2> HIDE DEF scenarios
  <2> QED BY <1>4, <2>1, <2>2, <2>3, InVersionParts, VersionAfter DEF StepsTo
<1>5. CASE doc.schemaVersion = "4.2"
  <2> DEFINE scenarios == [i \in DOMAIN doc.scenarios |->
                              [doc.scenarios[i] EXCEPT !.actions = Stated50(doc.scenarios[i])]]
  <2>1. executeMigration(doc, lastPublished, status).doc = InVersion(doc, "5.0", scenarios)
    BY <1>5 DEF executeMigration, migrateFrom42To50, Migrated, Map, MapActions, InVersion,
                Stated50
  <2>2. \A i \in DOMAIN doc.scenarios :
            scenarios[i] = Stepped(doc.scenarios[i], doc.schemaVersion, lastPublished)
    BY <1>5 DEF Stepped
  <2>3. DOMAIN scenarios = DOMAIN doc.scenarios
    OBVIOUS
  <2> HIDE DEF scenarios
  <2> QED BY <1>5, <2>1, <2>2, <2>3, InVersionParts, VersionAfter DEF StepsTo
<1>6. CASE doc.schemaVersion = "5.0"
  <2> DEFINE scenarios == [i \in DOMAIN doc.scenarios |->
                              [doc.scenarios[i] EXCEPT !.actions = Signed51(doc.scenarios[i])]]
  <2>1. executeMigration(doc, lastPublished, status).doc = InVersion(doc, "5.1", scenarios)
    BY <1>6 DEF executeMigration, migrateFrom50To51, Migrated, Map, MapActions, InVersion,
                Signed51
  <2>2. \A i \in DOMAIN doc.scenarios :
            scenarios[i] = Stepped(doc.scenarios[i], doc.schemaVersion, lastPublished)
    BY <1>6 DEF Stepped
  <2>3. DOMAIN scenarios = DOMAIN doc.scenarios
    OBVIOUS
  <2> HIDE DEF scenarios
  <2> QED BY <1>6, <2>1, <2>2, <2>3, InVersionParts, VersionAfter DEF StepsTo
<1>7. CASE doc.schemaVersion = "5.1"
  <2> DEFINE new == [doc EXCEPT !.schemaVersion = "5.2", !.valuations = {}]
  <2>1. executeMigration(doc, lastPublished, status).doc = new
    BY <1>7 DEF executeMigration, migrateFrom51To52, Migrated
  <2>2. new.text = doc.text /\ new.scenarios = doc.scenarios /\ new.schemaVersion = "5.2"
    BY DEF RiScDocuments
  <2> QED BY <1>7, <2>1, <2>2, VersionAfter DEF StepsTo, Stepped
<1>8. CASE doc.schemaVersion = "5.2"
  BY <1>8 DEF executeMigration, Failed
<1> QED BY <1>1, <1>2, <1>3, <1>4, <1>5, <1>6, <1>7, <1>8, VersionsAre

-----------------------------------------------------------------------------
(* Migration, as far as it keeps scenarios.                                *)

\* Lists of as many items with the same ids.
LEMMA SameIdList ==
    ASSUME NEW old, NEW new, DOMAIN new = DOMAIN old,
           \A i \in DOMAIN old : new[i].id = old[i].id
    PROVE  IdList(new) = IdList(old)
BY DEF IdList

\* The actions of a scenario in new states are those actions.
LEMMA SteppedActions ==
    ASSUME NEW s \in Scenarios, NEW lastPublished
    PROVE  /\ IdList(Dated42(s, lastPublished)) = IdList(s.actions)
           /\ IdList(Stated50(s)) = IdList(s.actions)
           /\ IdList(Signed51(s)) = IdList(s.actions)
<1>1. \A j \in DOMAIN s.actions : s.actions[j] \in Actions
  BY ScenarioParts
<1>2. \A a \in Actions : \A x : /\ [a EXCEPT !.lastUpdated = x].id = a.id
                                /\ [a EXCEPT !.status = x].id = a.id
                                /\ [a EXCEPT !.lastUpdatedBy = x].id = a.id
  BY DEF Actions
<1>3. IdList(Dated42(s, lastPublished)) = IdList(s.actions)
  <2> DEFINE new == Dated42(s, lastPublished)
  <2>1. /\ DOMAIN new = DOMAIN s.actions
        /\ \A j \in DOMAIN s.actions :
               new[j] = [s.actions[j] EXCEPT !.lastUpdated = WhenUpdated(s.actions[j], lastPublished)]
    BY DEF Dated42
  <2> HIDE DEF new
  <2>2. ASSUME NEW j \in DOMAIN s.actions PROVE new[j].id = s.actions[j].id
    <3> DEFINE a == s.actions[j]
    <3>1. a \in Actions
      BY <1>1
    <3> QED BY <2>1, <3>1 DEF Actions
  <2> QED BY <2>1, <2>2, SameIdList DEF new
<1>4. IdList(Stated50(s)) = IdList(s.actions)
  <2> DEFINE new == Stated50(s)
  <2>1. /\ DOMAIN new = DOMAIN s.actions
        /\ \A j \in DOMAIN s.actions :
               new[j] = [s.actions[j] EXCEPT !.status = ACTION_STATUS_4X_TO_5X_MAP[s.actions[j].status]]
    BY DEF Stated50
  <2> HIDE DEF new
  <2>2. ASSUME NEW j \in DOMAIN s.actions PROVE new[j].id = s.actions[j].id
    <3> DEFINE a == s.actions[j]
    <3>1. a \in Actions
      BY <1>1
    <3> QED BY <2>1, <3>1 DEF Actions
  <2> QED BY <2>1, <2>2, SameIdList DEF new
<1>5. IdList(Signed51(s)) = IdList(s.actions)
  <2> DEFINE new == Signed51(s)
  <2>1. /\ DOMAIN new = DOMAIN s.actions
        /\ \A j \in DOMAIN s.actions :
               new[j] = [s.actions[j] EXCEPT !.lastUpdatedBy = ""]
    BY DEF Signed51
  <2> HIDE DEF new
  <2>2. ASSUME NEW j \in DOMAIN s.actions PROVE new[j].id = s.actions[j].id
    <3> DEFINE a == s.actions[j]
    <3>1. a \in Actions
      BY <1>1
    <3> QED BY <2>1, <3>1 DEF Actions
  <2> QED BY <2>1, <2>2, SameIdList DEF new
<1> QED BY <1>3, <1>4, <1>5

\* A scenario with other actions of the same ids is alike.
LEMMA TraitsOfActions ==
    ASSUME NEW s \in Scenarios, NEW actions, IdList(actions) = IdList(s.actions), NEW v, NEW w,
           LevelsOf(s.risk, v) = LevelsOf(s.risk, w)
    PROVE  Traits([s EXCEPT !.actions = actions], w) = Traits(s, v)
<1>1. LET t == [s EXCEPT !.actions = actions]
      IN  t.id = s.id /\ t.text = s.text /\ t.risk = s.risk /\ t.actions = actions
  BY DEF Scenarios
<1> QED BY <1>1 DEF Traits

\* A step keeps the traits of a scenario.
LEMMA SteppedTraits ==
    ASSUME NEW s \in Scenarios, NEW v \in VersionSet, v # "5.2", NEW lastPublished,
           v = "4.0" => Mappable(s)
    PROVE  Traits(Stepped(s, v, lastPublished), Versions[IndexOf(v) + 1]) = Traits(s, v)
<1>0. /\ LevelsOf(s.risk, "4.1") = LevelsOf(s.risk, "4.2")
      /\ LevelsOf(s.risk, "4.2") = LevelsOf(s.risk, "5.0")
      /\ LevelsOf(s.risk, "5.0") = LevelsOf(s.risk, "5.1")
      /\ LevelsOf(s.risk, "5.1") = LevelsOf(s.risk, "5.2")
      /\ LevelsOf(s.risk, "3.2") = LevelsOf(s.risk, "3.3")
      /\ LevelsOf(s.risk, "3.3") = LevelsOf(s.risk, "4.0")
  BY LevelsOfVersions
<1>1. CASE v = "3.2"
  BY <1>0, <1>1, VersionAfter DEF Stepped, Traits
<1>2. CASE v = "3.3"
  <2> DEFINE actions == [i \in DOMAIN s.actions |->
                            [s.actions[i] EXCEPT !.owner = None, !.deadline = None]]
             t == [s EXCEPT !.actions = actions]
             vs == {VULNERABILITY_3X_TO_4X_MAP[w] : w \in s.vulnerabilities}
  <2>1. IdList(actions) = IdList(s.actions)
    <3>1. \A j \in DOMAIN s.actions : s.actions[j] \in Actions
      BY ScenarioParts
    <3>2. \A a \in Actions : [a EXCEPT !.owner = None, !.deadline = None].id = a.id
      BY DEF Actions
    <3> QED BY <3>1, <3>2, SameIdList
  <2>2. Traits(t, "4.0") = Traits(s, "3.3")
    <3> HIDE DEF actions
    <3> QED BY <1>0, <2>1, TraitsOfActions
  <2>3. updateScenarioFrom33To40(s)
            = [t EXCEPT !.existingActions = None, !.vulnerabilities = vs]
    BY DEF updateScenarioFrom33To40, MapActions, Map, Scenarios
  <2>4. LET u == updateScenarioFrom33To40(s)
        IN  u.id = t.id /\ u.text = t.text /\ u.risk = t.risk /\ u.actions = t.actions
    <3> HIDE DEF actions, vs
    <3> QED BY <2>3 DEF Scenarios
  <2>5. Traits(updateScenarioFrom33To40(s), "4.0") = Traits(t, "4.0")
    BY <2>4 DEF Traits
  <2> HIDE DEF actions, t, vs
  <2> QED BY <1>2, <2>2, <2>5, VersionAfter DEF Stepped
<1>3. CASE v = "4.0"
  <2> DEFINE t == updateScenarioFrom40To41(s)
  <2>1. t.id = s.id /\ t.text = s.text /\ t.risk = Rescaled(s.risk) /\ t.actions = s.actions
    BY DEF updateScenarioFrom40To41, Scenarios
  <2>2. Levels(Rescaled(s.risk)) = LevelsOf(s.risk, "4.0")
    BY <1>3, RescaledLevels, LevelsOfVersions DEF Mappable
  <2>3. LevelsOf(t.risk, "4.1") = LevelsOf(s.risk, "4.0")
    BY <2>1, <2>2, LevelsOfVersions
  <2> HIDE DEF t
  <2>4. Traits(t, "4.1") = Traits(s, "4.0")
    BY <2>1, <2>3 DEF Traits
  <2> QED BY <1>3, <2>4, VersionAfter DEF Stepped, t
<1>4. CASE v = "4.1"
  BY <1>0, <1>4, SteppedActions, TraitsOfActions, VersionAfter DEF Stepped
<1>5. CASE v = "4.2"
  BY <1>0, <1>5, SteppedActions, TraitsOfActions, VersionAfter DEF Stepped
<1>6. CASE v = "5.0"
  BY <1>0, <1>6, SteppedActions, TraitsOfActions, VersionAfter DEF Stepped
<1>7. CASE v = "5.1"
  BY <1>0, <1>7, VersionAfter DEF Stepped, Traits
<1> QED BY <1>1, <1>2, <1>3, <1>4, <1>5, <1>6, <1>7, VersionsAre

\* No step of a migration changes the traits of a scenario.
LEMMA StepRetells ==
    ASSUME NEW doc, Fit(doc), doc.schemaVersion \in VersionSet, NEW status, NEW lastPublished,
           ~executeMigration(doc, lastPublished, status).failed
    PROVE  Retells(doc, executeMigration(doc, lastPublished, status).doc)
<1> DEFINE new == executeMigration(doc, lastPublished, status).doc
           v == doc.schemaVersion
<1>1. doc \in RiScDocuments /\ \A i \in DOMAIN doc.scenarios : doc.scenarios[i] \in Scenarios
  BY ContentParts DEF Fit
<1>2. StepsTo(doc, new, lastPublished)
  BY <1>1, StepIsOfScenarios
<1>3. v # "5.2"
  BY DEF executeMigration, Failed
<1>4. ASSUME v = "4.0" PROVE \A i \in DOMAIN doc.scenarios : Mappable(doc.scenarios[i])
  <2>1. executeMigration(doc, lastPublished, status) = migrateFrom40To41(doc, status)
    BY <1>4 DEF executeMigration
  <2>2. ~migrateFrom40To41(doc, status).failed
    BY <2>1
  <2> QED BY <2>2 DEF migrateFrom40To41, Failed
<1>5. ASSUME NEW i \in DOMAIN doc.scenarios
      PROVE  Traits(new.scenarios[i], new.schemaVersion) = Traits(doc.scenarios[i], v)
  <2> HIDE DEF new
  <2>1. doc.scenarios[i] \in Scenarios /\ (v = "4.0" => Mappable(doc.scenarios[i]))
    BY <1>1, <1>4
  <2>2. Traits(Stepped(doc.scenarios[i], v, lastPublished), Versions[IndexOf(v) + 1])
            = Traits(doc.scenarios[i], v)
    BY <1>3, <2>1, SteppedTraits
  <2> QED BY <1>2, <2>2 DEF StepsTo
<1> QED BY <1>2, <1>5 DEF Retells, StepsTo

\* What a round has told again of a document, unless it failed.
Retold(doc, last) ==
    ~last.failed => /\ Fit(last.doc) /\ last.doc.schemaVersion \in VersionSet
                    /\ Retells(doc, last.doc)

\* Nor does a round of a migration,
LEMMA RoundRetells ==
    ASSUME NEW doc, NEW last, NEW toVersion, NEW lastPublished \in OrNone(Times),
           Retold(doc, last)
    PROVE  Retold(doc, Advance(last, lastPublished, toVersion))
<1>1. CASE last.failed \/ last.doc.schemaVersion = toVersion
  BY <1>1 DEF Advance
<1>2. CASE ~last.failed /\ last.doc.schemaVersion # toVersion
  <2> DEFINE new == executeMigration(last.doc, lastPublished, last.status)
  <2>1. Advance(last, lastPublished, toVersion) = new
    BY <1>2 DEF Advance
  <2>2. Fit(last.doc) /\ last.doc.schemaVersion \in VersionSet /\ Retells(doc, last.doc)
    BY <1>2 DEF Retold
  <2>3. ~new.failed => /\ Fit(new.doc) /\ new.doc.schemaVersion \in VersionSet
                       /\ Retells(last.doc, new.doc)
    BY <2>2, MigrationStep, StepRetells
  <2> HIDE DEF new
  <2>4. ~new.failed => Retells(doc, new.doc)
    BY <2>2, <2>3 DEF Retells
  <2> QED BY <2>1, <2>3, <2>4 DEF Retold
<1> QED BY <1>1, <1>2

\* nor all of them.
LEMMA MigrationRetells ==
    ASSUME NEW doc, Fit(doc), doc.schemaVersion \in VersionSet, NEW status, NEW toVersion,
           NEW lastPublished \in OrNone(Times)
    PROVE  Retold(doc, handleMigrate(doc, lastPublished, status, toVersion))
<1>1. PICK after : /\ Rounds(doc, lastPublished, status, toVersion, after)
                   /\ handleMigrate(doc, lastPublished, status, toVersion) = after[8]
  BY MigratesInRounds
<1> DEFINE Kept(n) == Retold(doc, after[n])
<1>2. Kept(0)
  <2>1. after[0] = Migrated(doc, status)
    BY <1>1, VersionsAre DEF Rounds
  <2> QED BY <2>1 DEF Retold, Migrated, Retells
<1>3. ASSUME NEW n \in 0..7, Kept(n) PROVE Kept(n + 1)
  <2>1. after[n + 1] = Advance(after[n], lastPublished, toVersion)
    <3>1. n + 1 \in 0..8 /\ n + 1 # 0 /\ (n + 1) - 1 = n
      OBVIOUS
    <3> QED BY <1>1, <3>1, VersionsAre DEF Rounds
  <2> QED BY <1>3, <2>1, RoundRetells
<1> HIDE DEF Kept
<1>4. Kept(8)
  <2>1. Kept(1)
    BY <1>2, <1>3
  <2>2. Kept(2)
    BY <1>3, <2>1
  <2>3. Kept(3)
    BY <1>3, <2>2
  <2>4. Kept(4)
    BY <1>3, <2>3
  <2>5. Kept(5)
    BY <1>3, <2>4
  <2>6. Kept(6)
    BY <1>3, <2>5
  <2>7. Kept(7)
    BY <1>3, <2>6
  <2> QED BY <1>3, <2>7
<1> QED BY <1>1, <1>4 DEF Kept

\* What is fetched tells again what is stored.
LEMMA FetchedRetells ==
    ASSUME NEW f, {f.published, f.draft} \ {None} \subseteq RiScDocuments, ToShow(f) # None,
           ~Fetched(f).failed
    PROVE  Retells(ToShow(f), Fetched(f).doc)
<1> DEFINE doc == ToShow(f)
           last == LastPublished(f)
           status == [NoChanges EXCEPT !.fromVersion = doc.schemaVersion,
                                       !.toVersion = latestSupportedVersion]
           result == handleMigrate(doc, last, status, latestSupportedVersion)
<1>1. doc \in RiScDocuments
  BY DEF ToShow
<1>2. Valid(doc) /\ Fetched(f) = migrate(doc, last, latestSupportedVersion)
  BY DEF Fetched, Failed
<1>3. Fetched(f) = result
  <2> HIDE DEF result, doc, last
  <2>1. migrate(doc, last, latestSupportedVersion).failed = FALSE
    BY <1>2
  <2> USE DEF result
  <2> QED BY <1>2, <2>1 DEF migrate, Failed
<1>4. last \in OrNone(Times)
  BY DEF LastPublished, OrNone, Times
<1>5. Fit(doc) /\ doc.schemaVersion \in VersionSet
  BY <1>1, <1>2, ValidFits
<1> HIDE DEF doc, last, status
<1>6. Retold(doc, result)
  BY <1>4, <1>5, MigrationRetells
<1> HIDE DEF result
<1> QED BY <1>3, <1>6 DEF Retold, doc

-----------------------------------------------------------------------------
(* What forms and saves keep of a scenario.                                *)

\* A scenario of the page as far as conversions keep it,
Seen(s) == Traits(s, latestSupportedVersion)

\* and a list of them.
SeenIn(items) == {Seen(items[i]) : i \in DOMAIN items}

\* What is seen of a scenario of the page.
LEMMA SeenIs ==
    ASSUME NEW s
    PROVE  Seen(s) = [id |-> s.id, text |-> s.text, levels |-> Levels(s.risk),
                      actions |-> IdList(s.actions)]
BY LevelsOfVersions DEF Seen, Traits, latestSupportedVersion

\* A scenario with other actions of the same ids looks alike.
LEMMA SeenOfActions ==
    ASSUME NEW s \in Scenarios, NEW actions, IdList(actions) = IdList(s.actions)
    PROVE  Seen([s EXCEPT !.actions = actions]) = Seen(s)
<1> DEFINE t == [s EXCEPT !.actions = actions]
<1>1. t.id = s.id /\ t.text = s.text /\ t.risk = s.risk /\ t.actions = actions
  BY DEF Scenarios
<1> HIDE DEF t
<1>2. Seen(t) = Seen(s)
  BY <1>1, SeenIs
<1> QED BY <1>2 DEF t

\* The form of a scenario looks like it,
LEMMA SeenForm ==
    ASSUME NEW s \in Scenarios PROVE Seen(mapScenarioToFormScenario(s)) = Seen(s)
<1> DEFINE r == RoundedRisk(s.risk)
           q == RoundedRisk(s.remainingRisk)
           t == [s EXCEPT !.risk = r, !.remainingRisk = q]
<1>1. Levels(r) = Levels(s.risk)
  BY ScenarioParts, RoundedLevels
<1>2. mapScenarioToFormScenario(s) = t
  BY DEF mapScenarioToFormScenario, Scenarios
<1> HIDE DEF r, q
<1>3. t.id = s.id /\ t.text = s.text /\ t.risk = r /\ t.actions = s.actions
  BY DEF Scenarios
<1> HIDE DEF t
<1> QED BY <1>1, <1>2, <1>3, SeenIs

\* also when its fields are registered,
LEMMA SeenRegistered ==
    ASSUME NEW form \in FormScenarios PROVE Seen(Registered(form)) = Seen(form)
<1> DEFINE actions == [i \in DOMAIN form.actions |->
                          [form.actions[i] EXCEPT !.comment = IF @ = None THEN "" ELSE @]]
<1>1. \A i \in DOMAIN form.actions : actions[i].id = form.actions[i].id
  <2> SUFFICES ASSUME NEW i \in DOMAIN form.actions PROVE actions[i].id = form.actions[i].id
    OBVIOUS
  <2>1. form.actions[i] \in Actions
    BY FormParts
  <2> QED BY <2>1 DEF Actions
<1>2. DOMAIN actions = DOMAIN form.actions
  OBVIOUS
<1>3. Registered(form) = [form EXCEPT !.actions = actions]
  BY DEF Registered
<1> HIDE DEF actions
<1>4. IdList(actions) = IdList(form.actions)
  BY <1>1, <1>2, SameIdList
<1> QED BY <1>3, <1>4, FormParts, SeenOfActions

\* What is stamped of a list of actions.
StampsOf(list, actions, now) ==
    /\ DOMAIN list = DOMAIN actions
    /\ \A i \in DOMAIN actions : list[i] \in {actions[i], Stamped(actions[i], now)}

\* or its actions get new dates,
LEMMA SeenStamped ==
    ASSUME NEW s \in Scenarios, NEW now, NEW list, StampsOf(list, s.actions, now)
    PROVE  Seen([s EXCEPT !.actions = list]) = Seen(s)
<1>1. ASSUME NEW i \in DOMAIN s.actions PROVE list[i].id = s.actions[i].id
  <2>1. s.actions[i] \in Actions
    BY ScenarioParts
  <2>2. list[i] \in {s.actions[i], Stamped(s.actions[i], now)}
    BY DEF StampsOf
  <2>3. Stamped(s.actions[i], now).id = s.actions[i].id
    BY <2>1 DEF Stamped, Actions
  <2> QED BY <2>2, <2>3
<1>3. IdList(list) = IdList(s.actions)
  BY <1>1, SameIdList DEF StampsOf
<1> QED BY <1>3, SeenOfActions

\* as they do when they are saved,
LEMMA StampedList ==
    ASSUME NEW old, NEW actions, NEW forced, NEW now
    PROVE  StampsOf(getActionsWithLastUpdated(old, actions, forced, now), actions, now)
BY DEF getActionsWithLastUpdated, StampsOf

\* and what is sent of it.
LEMMA SeenSent ==
    ASSUME NEW s \in Scenarios PROVE Seen(scenarioToDTO(s)) = Seen(s)
<1> DEFINE list == [i \in DOMAIN s.actions |-> actionToDTO(s.actions[i])]
           t == scenarioToDTO(s)
<1>1. \A i \in DOMAIN s.actions : list[i].id = s.actions[i].id
  BY ScenarioParts, DTOAction
<1>2. DOMAIN list = DOMAIN s.actions
  OBVIOUS
<1>3. t.id = s.id /\ t.text = s.text /\ t.risk = s.risk /\ t.actions = list
  BY SentScenario
<1> HIDE DEF list, t
<1>4. IdList(list) = IdList(s.actions)
  BY <1>1, <1>2, SameIdList
<1> QED BY <1>3, <1>4, SeenIs DEF t

\* What is sent of a document looks like it.
LEMMA SentIsSeen ==
    ASSUME NEW c \in RiScDocuments
    PROVE  LET d == riScToDTO(c)
           IN  /\ d.text = c.text /\ d.schemaVersion = c.schemaVersion
               /\ SeenIn(d.scenarios) = SeenIn(c.scenarios)
<1> DEFINE list == [i \in DOMAIN c.scenarios |-> scenarioToDTO(c.scenarios[i])]
           d == riScToDTO(c)
<1>1. d.text = c.text /\ d.schemaVersion = c.schemaVersion /\ d.scenarios = list
  BY SentDocument
<1>2. DOMAIN list = DOMAIN c.scenarios
  OBVIOUS
<1>3. \A i \in DOMAIN c.scenarios : Seen(list[i]) = Seen(c.scenarios[i])
  BY ContentParts, SeenSent
<1> HIDE DEF list, d
<1>4. SeenIn(list) = SeenIn(c.scenarios)
  BY <1>2, <1>3 DEF SeenIn
<1> QED BY <1>1, <1>4 DEF d

\* What is fetched looks like what is stored.
LEMMA FetchedIsSeen ==
    ASSUME NEW f, {f.published, f.draft} \ {None} \subseteq RiScDocuments, ToShow(f) # None,
           ~Fetched(f).failed, Fetched(f).doc.schemaVersion = latestSupportedVersion
    PROVE  LET old == ToShow(f)
               new == Fetched(f).doc
           IN  /\ new.text = old.text
               /\ SeenIn(new.scenarios) = {Traits(old.scenarios[i], old.schemaVersion) :
                                              i \in DOMAIN old.scenarios}
<1> DEFINE old == ToShow(f)
           new == Fetched(f).doc
<1>1. Retells(old, new) /\ new.schemaVersion = latestSupportedVersion
  BY FetchedRetells
<1> HIDE DEF old, new
<1>2. /\ new.text = old.text
      /\ SeenIn(new.scenarios) = {Traits(old.scenarios[i], old.schemaVersion) :
                                     i \in DOMAIN old.scenarios}
  BY <1>1 DEF Retells, SeenIn, Seen
<1> QED BY <1>2 DEF old, new

\* A list with the same items looks the same.
LEMMA SeenOfRange ==
    ASSUME NEW S, NEW a \in Seq(S), NEW b, Range(a) \subseteq Range(b)
    PROVE  SeenIn(a) \subseteq SeenIn(b)
BY DEF SeenIn, Range

\* A document of which a scenario is edited has that besides its own,
LEMMA SeenEdited ==
    ASSUME NEW c \in RiScDocuments, NEW s
    PROVE  LET new == WithScenario(c, s)
           IN  new.text = c.text /\ SeenIn(new.scenarios) \subseteq SeenIn(c.scenarios) \cup {Seen(s)}
<1> DEFINE list == [i \in DOMAIN c.scenarios |->
                       IF c.scenarios[i].id = s.id THEN s ELSE c.scenarios[i]]
           new == WithScenario(c, s)
<1>1. new.scenarios = list /\ new.text = c.text
  BY DEF WithScenario, RiScDocuments
<1>2. SeenIn(list) \subseteq SeenIn(c.scenarios) \cup {Seen(s)}
  BY DEF SeenIn
<1> QED BY <1>1, <1>2

\* one of which a scenario is deleted, none,
LEMMA SeenDeleted ==
    ASSUME NEW c \in RiScDocuments, NEW id
    PROVE  LET new == WithoutScenario(c, id)
           IN  new.text = c.text /\ SeenIn(new.scenarios) \subseteq SeenIn(c.scenarios)
<1> DEFINE kept == {i \in DOMAIN c.scenarios : c.scenarios[i].id # id}
           list == ItemsAt(c.scenarios, kept)
           new == WithoutScenario(c, id)
<1>1. new.scenarios = list /\ new.text = c.text
  BY DEF WithoutScenario, RiScDocuments
<1>2. kept \in SUBSET (DOMAIN c.scenarios) /\ c.scenarios \in Seq(Scenarios)
  BY ContentParts
<1> HIDE DEF kept
<1>3. list \in Seq(Scenarios) /\ Range(list) = {c.scenarios[i] : i \in kept}
  BY <1>2, ItemsAtIsSeq
<1> HIDE DEF list, new
<1>4. Range(list) \subseteq Range(c.scenarios)
  BY <1>2, <1>3 DEF Range
<1>5. SeenIn(list) \subseteq SeenIn(c.scenarios)
  BY <1>3, <1>4, SeenOfRange
<1> QED BY <1>1, <1>5 DEF new

\* and one to which some are added, those.
LEMMA SeenAdded ==
    ASSUME NEW c \in RiScDocuments, NEW scenarios \in Seq(Scenarios)
    PROVE  LET new == WithNewScenarios(c, scenarios)
           IN  /\ new.text = c.text
               /\ SeenIn(new.scenarios) \subseteq SeenIn(c.scenarios) \cup SeenIn(scenarios)
<1> DEFINE list == scenarios \o c.scenarios
           new == WithNewScenarios(c, scenarios)
<1>1. new.scenarios = list /\ new.text = c.text
  BY DEF WithNewScenarios, RiScDocuments
<1>2. ASSUME NEW k \in DOMAIN list
      PROVE  \/ \E i \in DOMAIN scenarios : list[k] = scenarios[i]
             \/ \E i \in DOMAIN c.scenarios : list[k] = c.scenarios[i]
  <2>1. c.scenarios \in Seq(Scenarios)
    BY ContentParts
  <2> QED BY <2>1
<1> HIDE DEF list, new
<1>3. SeenIn(list) \subseteq SeenIn(c.scenarios) \cup SeenIn(scenarios)
  BY <1>2 DEF SeenIn
<1> QED BY <1>1, <1>3 DEF new

\* The predefined scenarios look like those that are added.
LEMMA SeenPredefined ==
    ASSUME NEW now
    PROVE  SeenIn(buildPredefinedScenarios(Predefined, now)) = SeenIn(Predefined)
<1> DEFINE list == buildPredefinedScenarios(Predefined, now)
<1>1. DOMAIN list = DOMAIN Predefined
  BY DEF buildPredefinedScenarios
<1>2. ASSUME NEW i \in DOMAIN Predefined PROVE Seen(list[i]) = Seen(Predefined[i])
  <2> DEFINE s == Predefined[i]
  <2>1. s \in Scenarios
    BY EditorAssumption
  <2> DEFINE stamped == getActionsWithLastUpdated(<<>>, s.actions, TRUE, now)
  <2>2. list[i] = [s EXCEPT !.actions = stamped]
    BY DEF buildPredefinedScenarios
  <2>3. StampsOf(stamped, s.actions, now)
    BY DEF getActionsWithLastUpdated, StampsOf
  <2> HIDE DEF s, list, stamped
  <2>4. Seen(list[i]) = Seen(s)
    BY <2>1, <2>2, <2>3, SeenStamped
  <2> QED BY <2>4 DEF s
<1> HIDE DEF list
<1>3. SeenIn(list) = SeenIn(Predefined)
  BY <1>1, <1>2 DEF SeenIn
<1> QED BY <1>3 DEF list

-----------------------------------------------------------------------------
(* Everything that is stored, shown or kept of scenarios.                  *)

\* What is stored,
StoredSeen(f) ==
    {Traits(ToShow(f).scenarios[i], ToShow(f).schemaVersion) : i \in DOMAIN ToShow(f).scenarios}

\* what a document of the page has,
ContentSeen(c) == IF c = None THEN {} ELSE SeenIn(c.scenarios)

\* what a failed save brings back,
OldSeen(p) == IF p.update = "loading" THEN ContentSeen(p.request.old.content) ELSE {}

\* what the closures of the rows have,
RowsSeen(t) == UNION {ContentSeen(t.rows[id].content) : id \in DOMAIN t.rows}

\* and all of it.
Held ==
    StoredSeen(files) \cup ContentSeen(page.selected.content) \cup OldSeen(page)
    \cup SeenIn(table.scenarios) \cup RowsSeen(table) \cup ContentSeen(dialog)

\* A table that has what it had, or the page has,
TableFrom(u, t, p) ==
    /\ SeenIn(u.scenarios) \subseteq SeenIn(t.scenarios) \cup ContentSeen(p.selected.content)
    /\ RowsSeen(u) \subseteq RowsSeen(t) \cup ContentSeen(p.selected.content)

\* and after a success only the latter.
TakesOver(u, p) ==
    p.update = "success" => SeenIn(u.scenarios) \subseteq ContentSeen(p.selected.content)

\* Rendering the table.
LEMMA RenderedSeen ==
    ASSUME NEW p, PageOK(p), UniquePage(p), NEW t, NEW q, TableOK(t, q), UniqueTable(t), NEW d
    PROVE  TableFrom(ScenarioTable(t, p, d), t, p) /\ TakesOver(ScenarioTable(t, p, d), p)
<1> DEFINE u == ScenarioTable(t, p, d)
<1>1. CASE d.step \/ p.selected.content = None
  <2>1. u = Unmounted
    BY <1>1 DEF ScenarioTable
  <2> HIDE DEF u
  <2>2. u.scenarios = <<>> /\ u.rows = <<>>
    BY <2>1 DEF Unmounted
  <2>3. SeenIn(u.scenarios) = {} /\ RowsSeen(u) = {}
    BY <2>2 DEF SeenIn, RowsSeen
  <2> QED BY <2>3 DEF TableFrom, TakesOver, u
<1>2. CASE ~d.step /\ p.selected.content # None
  <2> DEFINE c == p.selected.content
             takesOver == ~t.mounted \/ p.update = "success"
             scenarios == IF ~takesOver THEN t.scenarios
                          ELSE IF ~t.mounted THEN c.scenarios
                          ELSE Synchronised(t.scenarios, c.scenarios)
             early == IF t.mounted THEN t.early ELSE p.update = "loading"
             rows == [id \in Ids(scenarios) |->
                         IF id \in DOMAIN t.rows THEN t.rows[id] ELSE p.selected]
  <2>1. c.scenarios \in Seq(Scenarios) /\ t.scenarios \in Seq(Scenarios)
    BY <1>2, ContentParts DEF PageOK, SelectionOK, OrNone, Contents, TableOK
  <2>2. UniqueIds(c.scenarios) /\ UniqueIds(t.scenarios)
    BY <1>2 DEF UniquePage, UniqueSelection, UniqueTable
  <2>3. takesOver => Range(scenarios) = Range(c.scenarios)
    BY <2>1, <2>2, SynchronisedScenarios
  <2>4. u = [mounted |-> TRUE, scenarios |-> scenarios,
             objects |-> IF takesOver THEN p.selected.objects ELSE t.objects,
             early |-> early, rows |-> rows]
    BY <1>2 DEF ScenarioTable
  <2>5. ~takesOver => scenarios = t.scenarios
    OBVIOUS
  <2>6. p.update = "success" => takesOver
    OBVIOUS
  <2>7. \A id \in DOMAIN rows : \/ id \in DOMAIN t.rows /\ rows[id] = t.rows[id]
                                \/ rows[id] = p.selected
    OBVIOUS
  <2> HIDE DEF scenarios, u, takesOver, early, rows
  <2>8. u.scenarios = scenarios /\ u.rows = rows
    BY <2>4
  <2>9. takesOver => SeenIn(scenarios) \subseteq SeenIn(c.scenarios)
    BY <2>3 DEF SeenIn, Range
  <2>10. RowsSeen(u) \subseteq RowsSeen(t) \cup ContentSeen(c)
    <3>1. \A x \in RowsSeen(u) : \E id \in DOMAIN rows : x \in ContentSeen(rows[id].content)
      BY <2>8 DEF RowsSeen
    <3>2. \A id \in DOMAIN t.rows : ContentSeen(t.rows[id].content) \subseteq RowsSeen(t)
      BY DEF RowsSeen
    <3> QED BY <2>7, <3>1, <3>2
  <2>11. ContentSeen(c) = SeenIn(c.scenarios)
    BY <1>2 DEF ContentSeen
  <2> QED BY <2>5, <2>6, <2>8, <2>9, <2>10, <2>11 DEF TableFrom, TakesOver, u
<1> QED BY <1>1, <1>2

\* Where the wizard is, the table is empty.
LEMMA WizardHidesTable ==
    ASSUME NEW t, NEW p, NEW d, d.step PROVE ScenarioTable(t, p, d).scenarios = <<>>
BY DEF ScenarioTable, Unmounted

\* The form of what is rendered looks like the scenario that is shown, or form
\* and scenario are those there were.
LEMMA RenderedForm ==
    ASSUME NEW p, PageOK(p), p.selected.content # None, NEW d, DrawerOK(d), ~d.step
    PROVE  LET g == ScenarioDrawer(d, p)
           IN  /\ ~g.step
               /\ g.shown # None => \/ Seen(g.form) = Seen(g.shown)
                                    \/ g.form = d.form /\ g.shown = d.shown
<1> DEFINE found == getScenarioOfIdFromRiSc(d.url, p.selected.content)
           f == Followed(d, p)
           g == ScenarioDrawer(d, p)
<1>1. DOMAIN d = {"url", "step", "open", "editing", "shown", "objects", "form"}
  BY DrawerShape
<1>2. p.selected.content \in RiScDocuments
  BY DEF PageOK, SelectionOK, OrNone, Contents
<1>3. found \in OrNone(Scenarios)
  BY <1>2, FoundScenario
<1>4. \/ f = [d EXCEPT !.url = None, !.open = FALSE, !.shown = None, !.objects = 0]
      \/ f = [d EXCEPT !.open = TRUE, !.shown = found, !.objects = p.selected.objects]
  BY DEF Followed
<1> HIDE DEF f, found
<1>5. /\ f.step = d.step /\ f.form = d.form /\ DOMAIN f = DOMAIN d
      /\ f.shown \in OrNone(Scenarios)
  BY <1>1, <1>3, <1>4 DEF OrNone
<1>6. \/ g = [f EXCEPT !.form = FormOf(f)]
      \/ g = f /\ f.shown = d.shown
  BY DEF ScenarioDrawer, f
<1> HIDE DEF g
<1>7. CASE g = f /\ f.shown = d.shown
  BY <1>5, <1>7 DEF g
<1>8. CASE g = [f EXCEPT !.form = FormOf(f)]
  <2>1. g.step = f.step /\ g.shown = f.shown /\ g.form = FormOf(f)
    BY <1>1, <1>5, <1>8
  <2>2. ASSUME f.shown # None PROVE Seen(FormOf(f)) = Seen(f.shown)
    <3> DEFINE form == mapScenarioToFormScenario(f.shown)
    <3>1. f.shown \in Scenarios
      BY <1>5, <2>2 DEF OrNone
    <3>2. Seen(form) = Seen(f.shown) /\ form \in FormScenarios
      BY <3>1, SeenForm, FormOfScenario
    <3>3. FormOf(f) \in {form, Registered(form)}
      BY <2>2 DEF FormOf
    <3> HIDE DEF form
    <3> QED BY <3>2, <3>3, SeenRegistered
  <2> QED BY <1>5, <2>1, <2>2 DEF g
<1> QED BY <1>6, <1>7, <1>8

-----------------------------------------------------------------------------
(* The inductive invariant of what is held of the scenarios.               *)

\* Two looks at a scenario have the same levels, unless one is the predefined
\* scenario or it is the wizard's and an answer was lost.
Alike(x, y, lost) ==
    x.id = y.id => \/ x.levels = y.levels
                   \/ Preset(x.id, x.levels) \/ Preset(y.id, y.levels)
                   \/ x.id = NewScenario /\ lost

\* Every item of a list is there once.
Apart(list) == \A i, j \in DOMAIN list : list[i] = list[j] => i = j

\* What is held of a scenario agrees, and its actions have ids of their own.
HeldInv ==
    /\ \A x, y \in Held : Alike(x, y, history.lost)
    /\ \A x \in Held : Apart(x.actions)

\* So have those of a form, and its risk has the levels of the scenario it shows.
FormInv(d) ==
    /\ d.step \/ d.shown # None => Apart(IdList(d.form.actions))
    /\ ~d.step /\ d.shown # None => Levels(d.form.risk) = Levels(d.shown.risk)

\* The scenario of the wizard was not stored yet, unless it was just submitted;
\* and beside the wizard there is no table.
WizardInv ==
    /\ drawer.step => table.scenarios = <<>>
    /\ /\ drawer.step /\ ~history.lost
       /\ ~Quiet /\ page.request.after = "closeScenarioForm" => page.request.answer # "ok"
       => NewScenario \notin Ids(ToShow(files).scenarios)

\* No answer was lost, and no row dropped with an earlier closure.
Orderly == history.orderly /\ ~history.lost

\* Scenarios of S with texts that are not older than those of F.
Newer(S, F) ==
    \A x \in S : \A y \in F : x.id = y.id => x.text >= y.text \/ AddedAgain(x.id, x.text)

\* Texts were typed in one of the edits there were.
Dated(S, now) == \A x \in S : x.text \in 0..now

\* A form that is not older than any of S, unless it is as it is shown.
FormNew(d, S, now) ==
    /\ d.step \/ d.shown # None => d.form.text \in 0..now
    /\ ~d.step /\ d.shown # None =>
           \/ d.form.text = d.shown.text
           \/ \A x \in S : x.id = d.form.id => x.text <= d.form.text

\* A document of the page that is not older than what is stored.
NewerContent(c) ==
    c # None => Newer(ContentSeen(c), StoredSeen(files)) /\ c.text >= ToShow(files).text

\* What can be saved or brought back is not older than what is stored.
NewerInv ==
    /\ NewerContent(content)
    /\ ~Quiet /\ page.request.answer # "ok" => NewerContent(page.request.old.content)
    /\ Quiet \/ page.request.answer # "ok" =>
           Newer(SeenIn(table.scenarios), StoredSeen(files))
    /\ dialog # None => NewerContent(dialog) /\ (~Quiet => dialog = content)

\* The documents there are were typed in one of the edits, too.
DocumentsDated ==
    /\ ToShow(files).text \in 0..clock
    /\ content # None => content.text \in 0..clock
    /\ ~Quiet => page.request.old.content.text \in 0..clock

\* What an orderly history has besides.
TextsInv ==
    Dated(Held, clock) /\ DocumentsDated /\ FormNew(drawer, Held, clock) /\ NewerInv

\* The strengthened invariant.
KeptInv ==
    HeldInv /\ FormInv(drawer) /\ WizardInv /\ (Orderly => TextsInv)

-----------------------------------------------------------------------------
(* What is held after a step.                                              *)

\* What may be held besides.
Fitting(N, S) ==
    \A n \in N : Apart(n.actions) /\ \A x \in S \cup N : Alike(n, x, history.lost)

\* A look at a scenario is as much alike to another as that to it.
LEMMA AlikeBothWays ==
    ASSUME NEW x, NEW y, NEW lost, Alike(x, y, lost) PROVE Alike(y, x, lost)
BY DEF Alike

\* What fits keeps the looks alike.
LEMMA HeldInvStays ==
    ASSUME HeldInv, NEW N, Held' \subseteq Held \cup N, Fitting(N, Held),
           history.lost => history'.lost
    PROVE  HeldInv'
<1>1. \A x, y \in Held \cup N : Alike(x, y, history.lost)
  BY AlikeBothWays DEF HeldInv, Fitting
<1>2. \A x \in Held \cup N : Apart(x.actions)
  BY DEF HeldInv, Fitting
<1>3. \A x, y \in Held' : Alike(x, y, history.lost)
  BY <1>1
<1>4. \A x, y \in Held' : Alike(x, y, history'.lost)
  BY <1>3 DEF Alike
<1>5. \A x \in Held' : Apart(x.actions)
  BY <1>2
<1> QED BY <1>4, <1>5 DEF HeldInv

\* A scenario that is found is one that is seen.
LEMMA FoundIsSeen ==
    ASSUME NEW c \in RiScDocuments, NEW id, NEW s, s = getScenarioOfIdFromRiSc(id, c), s # None
    PROVE  Seen(s) \in SeenIn(c.scenarios)
<1>1. id \in Ids(c.scenarios) /\ s = Find(c.scenarios, id)
  BY DEF getScenarioOfIdFromRiSc
<1>2. PICK i \in DOMAIN c.scenarios : s = c.scenarios[i]
  BY <1>1, ContentParts, FindFinds
<1> QED BY <1>2 DEF SeenIn

\* What is rendered of a drawer keeps the form apart, and its levels,
LEMMA FormInvStays ==
    ASSUME NEW p, PageOK(p), p.selected.content # None,
           \A x \in ContentSeen(p.selected.content) : Apart(x.actions),
           NEW d, d.step \/ DrawerOK(d), FormInv(d)
    PROVE  FormInv(ScenarioDrawer(d, p))
<1> DEFINE g == ScenarioDrawer(d, p)
<1>1. CASE d.step
  <2>1. g = d
    BY <1>1 DEF ScenarioDrawer, Followed
  <2> QED BY <2>1
<1>2. CASE ~d.step /\ DrawerOK(d)
  <2>1. /\ ~g.step
        /\ g.shown # None => \/ Seen(g.form) = Seen(g.shown)
                             \/ g.form = d.form /\ g.shown = d.shown
    BY <1>2, RenderedForm
  <2>2. DrawerOK(g) /\ Follows(g, p)
    BY <1>2, DrawerFollows
  <2>3. p.selected.content \in RiScDocuments
    BY DEF PageOK, SelectionOK, OrNone, Contents
  <2> HIDE DEF g
  <2>4. SUFFICES ASSUME g.shown # None
                 PROVE  Apart(IdList(g.form.actions)) /\ Levels(g.form.risk) = Levels(g.shown.risk)
    BY <2>1 DEF FormInv, g
  <2>5. g.open /\ g.shown = getScenarioOfIdFromRiSc(g.url, p.selected.content)
    BY <2>1, <2>2, <2>4 DEF Follows
  <2>6. Seen(g.shown) \in ContentSeen(p.selected.content)
    BY <2>3, <2>4, <2>5, FoundIsSeen DEF ContentSeen
  <2>7. Apart(Seen(g.shown).actions)
    BY <2>6
  <2>8. CASE Seen(g.form) = Seen(g.shown)
    BY <2>7, <2>8, SeenIs
  <2>9. CASE g.form = d.form /\ g.shown = d.shown
    BY <1>2, <2>4, <2>9 DEF FormInv
  <2> QED BY <2>1, <2>4, <2>8, <2>9
<1> QED BY <1>1, <1>2

\* and the form as new as it was.
LEMMA FormNewStays ==
    ASSUME NEW p, PageOK(p), p.selected.content # None, NEW now \in Nat, NEW S,
           Dated(ContentSeen(p.selected.content), now),
           NEW d, d.step \/ DrawerOK(d), FormNew(d, S, now)
    PROVE  FormNew(ScenarioDrawer(d, p), S, now)
<1> DEFINE g == ScenarioDrawer(d, p)
<1>1. CASE d.step
  <2>1. g = d
    BY <1>1 DEF ScenarioDrawer, Followed
  <2> QED BY <2>1
<1>2. CASE ~d.step /\ DrawerOK(d)
  <2>1. /\ ~g.step
        /\ g.shown # None => \/ Seen(g.form) = Seen(g.shown)
                             \/ g.form = d.form /\ g.shown = d.shown
    BY <1>2, RenderedForm
  <2>2. DrawerOK(g) /\ Follows(g, p)
    BY <1>2, DrawerFollows
  <2>3. p.selected.content \in RiScDocuments
    BY DEF PageOK, SelectionOK, OrNone, Contents
  <2> HIDE DEF g
  <2>4. SUFFICES ASSUME g.shown # None
                 PROVE  /\ g.form.text \in 0..now
                        /\ \/ g.form.text = g.shown.text
                           \/ \A x \in S : x.id = g.form.id => x.text <= g.form.text
    BY <2>1 DEF FormNew, g
  <2>5. g.open /\ g.shown = getScenarioOfIdFromRiSc(g.url, p.selected.content)
    BY <2>1, <2>2, <2>4 DEF Follows
  <2>6. Seen(g.shown) \in ContentSeen(p.selected.content)
    BY <2>3, <2>4, <2>5, FoundIsSeen DEF ContentSeen
  <2>7. Seen(g.shown).text \in 0..now
    BY <2>6 DEF Dated
  <2>8. CASE Seen(g.form) = Seen(g.shown)
    <3>1. g.form.text = g.shown.text /\ g.shown.text \in 0..now
      BY <2>7, <2>8, SeenIs
    <3> QED BY <3>1
  <2>9. CASE g.form = d.form /\ g.shown = d.shown
    BY <1>2, <2>4, <2>9 DEF FormNew
  <2> QED BY <2>1, <2>4, <2>8, <2>9
<1> QED BY <1>1, <1>2

\* Rendering a page.
LEMMA ShowsTable ==
    ASSUME EditorInv, ViewInv, NEW p, PageOK(p), UniquePage(p), NEW d, Show(p, table, d)
    PROVE  /\ page' = p /\ drawer' = ScenarioDrawer(d, p)
           /\ TableFrom(table', table, p) /\ TakesOver(table', p)
           /\ drawer'.step => table'.scenarios = <<>>
<1>1. /\ page' = p /\ drawer' = ScenarioDrawer(d, p)
      /\ table' = ScenarioTable(table, p, drawer')
  BY DEF Show
<1>2. TableOK(table, page) /\ UniqueTable(table)
  BY DEF EditorInv, ViewInv
<1>3. TableFrom(table', table, p) /\ TakesOver(table', p)
  BY <1>1, <1>2, RenderedSeen
<1>4. drawer'.step => table'.scenarios = <<>>
  BY <1>1, WizardHidesTable
<1> QED BY <1>1, <1>3, <1>4

\* A step that only renders or fills forms.
Looks ==
    /\ UNCHANGED <<page, files, history>>
    /\ TableFrom(table', table, page)
    /\ dialog' = dialog \/ dialog' = content
    /\ clock' = clock \/ clock' = clock + 1

\* It holds nothing that was not held,
LEMMA LooksHold ==
    ASSUME Looks PROVE Held' \subseteq Held
<1>1. /\ page' = page /\ files' = files
      /\ TableFrom(table', table, page)
      /\ dialog' = dialog \/ dialog' = page.selected.content
  BY DEF Looks, content
<1>2. /\ StoredSeen(files') = StoredSeen(files) /\ OldSeen(page') = OldSeen(page)
      /\ ContentSeen(page'.selected.content) = ContentSeen(page.selected.content)
      /\ ContentSeen(dialog') \subseteq ContentSeen(dialog)
                                        \cup ContentSeen(page.selected.content)
  BY <1>1
<1>3. Held' = StoredSeen(files') \cup ContentSeen(page'.selected.content) \cup OldSeen(page')
              \cup SeenIn(table'.scenarios) \cup RowsSeen(table') \cup ContentSeen(dialog')
  BY DEF Held, StoredSeen, OldSeen, SeenIn, RowsSeen, ContentSeen
<1> QED BY <1>1, <1>2, <1>3 DEF Held, TableFrom

\* and nothing older.
LEMMA LooksAreNew ==
    ASSUME EditorInv, Looks, TextsInv
    PROVE  (Dated(Held, clock) /\ DocumentsDated /\ NewerInv)'
<1>0. /\ page' = page /\ files' = files
      /\ TableFrom(table', table, page)
      /\ dialog' = dialog \/ dialog' = content
      /\ clock \in Nat /\ (clock' = clock \/ clock' = clock + 1)
  BY DEF Looks, EditorInv
<1>1. \A n \in 0..clock : n \in 0..clock'
  BY <1>0
<1>2. Dated(Held, clock)'
  BY <1>1, LooksHold DEF TextsInv, Dated
<1>3. DocumentsDated'
  BY <1>0, <1>1 DEF TextsInv, DocumentsDated, content, Quiet
<1>4. NewerInv'
  <2>1. content' = content /\ (Quiet' <=> Quiet) /\ StoredSeen(files)' = StoredSeen(files)
    BY <1>0 DEF content, Quiet, StoredSeen
  <2>3. NewerContent(content)'
    BY <1>0, <2>1 DEF TextsInv, NewerInv, NewerContent, Newer, StoredSeen
  <2>4. (~Quiet /\ page.request.answer # "ok" => NewerContent(page.request.old.content))'
    BY <1>0, <2>1 DEF TextsInv, NewerInv, NewerContent, Newer, StoredSeen
  <2>5. (Quiet \/ page.request.answer # "ok" => Newer(SeenIn(table.scenarios), StoredSeen(files)))'
    <3>1. SUFFICES ASSUME Quiet \/ page.request.answer # "ok"
                   PROVE  Newer(SeenIn(table'.scenarios), StoredSeen(files'))
      BY <1>0, <2>1 DEF Newer, SeenIn, StoredSeen
    <3>2. Newer(SeenIn(table.scenarios), StoredSeen(files))
      BY <3>1 DEF TextsInv, NewerInv
    <3>3. Newer(ContentSeen(content), StoredSeen(files))
      BY DEF TextsInv, NewerInv, NewerContent, Newer, ContentSeen
    <3>4. SeenIn(table'.scenarios) \subseteq SeenIn(table.scenarios) \cup ContentSeen(content)
      BY <1>0 DEF TableFrom, content
    <3> QED BY <1>0, <3>2, <3>3, <3>4 DEF Newer
  <2>6. (dialog # None => NewerContent(dialog) /\ (~Quiet => dialog = content))'
    <3>1. NewerContent(content) /\ (dialog # None => NewerContent(dialog)
                                        /\ (~Quiet => dialog = content))
      BY DEF TextsInv, NewerInv
    <3>2. CASE dialog' = dialog
      BY <1>0, <2>1, <3>1, <3>2 DEF NewerContent, Newer, StoredSeen
    <3>3. CASE dialog' = content
      BY <1>0, <2>1, <3>1, <3>3 DEF NewerContent, Newer, StoredSeen
    <3> QED BY <1>0, <3>2, <3>3
  <2> QED BY <2>3, <2>4, <2>5, <2>6 DEF NewerInv
<1> QED BY <1>2, <1>3, <1>4

\* A save of c over what was selected.
SavesOver(selected, c) ==
    /\ Quiet /\ files' = files /\ c # None
    /\ \E objects, after : page' = UpdateRiSc(selected, c, objects, after)
    /\ TableFrom(table', table, page')
    /\ dialog' = dialog \/ dialog' = None

\* What a save leaves of the page.
LEMMA SavedPage ==
    ASSUME NEW selected, NEW c, SavesOver(selected, c)
    PROVE  /\ page'.selected.content = c /\ page'.update = "loading"
           /\ page'.request.old = selected /\ page'.request.answer = "none"
           /\ content' = c /\ ~Quiet'
<1>1. PICK objects, after : page' = UpdateRiSc(selected, c, objects, after)
  BY DEF SavesOver
<1>2. /\ page'.selected.content = c /\ page'.update = "loading"
      /\ page'.request.old = selected /\ page'.request.answer = "none"
  BY <1>1 DEF UpdateRiSc
<1> QED BY <1>2 DEF content, Quiet

\* A save holds what was held, and what is saved.
LEMMA SavingHolds ==
    ASSUME NEW selected, NEW c, SavesOver(selected, c),
           ContentSeen(selected.content) \subseteq Held,
           NEW N, SeenIn(c.scenarios) \subseteq Held \cup N
    PROVE  Held' \subseteq Held \cup N
<1>1. /\ page'.selected.content = c /\ OldSeen(page') = ContentSeen(selected.content)
      /\ files' = files /\ ContentSeen(c) = SeenIn(c.scenarios)
      /\ TableFrom(table', table, page')
      /\ ContentSeen(dialog') \subseteq ContentSeen(dialog)
  BY SavedPage DEF OldSeen, SavesOver, ContentSeen
<1>2. Held' = StoredSeen(files') \cup ContentSeen(page'.selected.content) \cup OldSeen(page')
              \cup SeenIn(table'.scenarios) \cup RowsSeen(table') \cup ContentSeen(dialog')
  BY DEF Held, StoredSeen, OldSeen, SeenIn, RowsSeen, ContentSeen
<1>3. /\ StoredSeen(files) \subseteq Held /\ SeenIn(table.scenarios) \subseteq Held
      /\ RowsSeen(table) \subseteq Held /\ ContentSeen(dialog) \subseteq Held
  BY DEF Held
<1> QED BY <1>1, <1>2, <1>3 DEF TableFrom

\* A save of what is not older, over what is shown, leaves nothing that is older.
LEMMA SavingIsNew ==
    ASSUME EditorInv, TextsInv, content # None, NEW selected, selected.content = content, NEW c,
           SavesOver(selected, c), NewerContent(c), dialog' = None,
           clock' = clock \/ clock' = clock + 1, c.text \in 0..clock'
    PROVE  (DocumentsDated /\ NewerInv)'
<1>1. /\ page'.request.old = selected /\ page'.request.answer = "none"
      /\ content' = c /\ ~Quiet' /\ page'.selected.content = c
  BY SavedPage
<1>2. files' = files /\ Quiet /\ c # None /\ TableFrom(table', table, page') /\ clock \in Nat
  BY DEF SavesOver, EditorInv
<1>3. \A n \in 0..clock : n \in 0..clock'
  BY <1>2
<1>4. NewerContent(content) /\ Newer(SeenIn(table.scenarios), StoredSeen(files))
  BY <1>2 DEF TextsInv, NewerInv
<1>5. DocumentsDated'
  BY <1>1, <1>2, <1>3 DEF TextsInv, DocumentsDated
<1>6. StoredSeen(files)' = StoredSeen(files) /\ ToShow(files)' = ToShow(files)
  BY <1>2 DEF StoredSeen
<1>7. NewerContent(content)'
  BY <1>1, <1>2, <1>6 DEF NewerContent, Newer, ContentSeen
<1>8. NewerContent(page.request.old.content)'
  <2>1. page'.request.old.content = content
    BY <1>1
  <2>2. Newer(ContentSeen(content), StoredSeen(files')) /\ content.text >= ToShow(files').text
    BY <1>2, <1>4 DEF NewerContent
  <2> QED BY <2>1, <2>2 DEF NewerContent, StoredSeen, ContentSeen, Newer, SeenIn
<1>9. Newer(SeenIn(table'.scenarios), StoredSeen(files'))
  <2>1. SeenIn(table'.scenarios) \subseteq SeenIn(table.scenarios) \cup ContentSeen(c)
    BY <1>1, <1>2 DEF TableFrom
  <2>2. Newer(ContentSeen(c), StoredSeen(files))
    BY <1>2 DEF NewerContent
  <2> QED BY <1>2, <1>4, <2>1, <2>2 DEF Newer
<1>10. NewerInv'
  <2>1. dialog' = None
    OBVIOUS
  <2>2. Newer(SeenIn(table.scenarios), StoredSeen(files))'
    BY <1>9 DEF Newer, SeenIn, StoredSeen
  <2> QED BY <1>7, <1>8, <2>1, <2>2 DEF NewerInv
<1> QED BY <1>5, <1>10

\* Nothing besides what was held.
LEMMA NothingFits == ASSUME NEW S PROVE Fitting({}, S)
BY DEF Fitting

\* A step that looks keeps the invariant, if drawer and wizard do.
LEMMA LooksKeep ==
    ASSUME EditorInv, KeptInv, Looks, FormInv(drawer'), Orderly => FormNew(drawer', Held, clock'),
           drawer'.step => /\ table'.scenarios = <<>>
                           /\ drawer.step \/ NewScenario \notin Ids(ToShow(files).scenarios)
    PROVE  KeptInv'
<1>1. page' = page /\ files' = files /\ history' = history
  BY DEF Looks
<1>2. Held' \subseteq Held
  BY LooksHold
<1>3. HeldInv'
  <2>1. Held' \subseteq Held \cup {}
    BY <1>2
  <2> QED BY <1>1, <2>1, HeldInvStays, NothingFits DEF KeptInv
<1>4. FormInv(drawer)'
  BY DEF FormInv
<1>5. WizardInv'
  BY <1>1 DEF KeptInv, WizardInv, Quiet
<1>6. ASSUME Orderly' PROVE TextsInv'
  <2>1. Orderly /\ TextsInv
    BY <1>1, <1>6 DEF Orderly, KeptInv
  <2>2. (Dated(Held, clock) /\ DocumentsDated /\ NewerInv)'
    BY <2>1, LooksAreNew
  <2>3. FormNew(drawer', Held, clock')
    BY <2>1
  <2>4. FormNew(drawer, Held, clock)'
    BY <1>2, <2>3 DEF FormNew
  <2> QED BY <2>2, <2>4 DEF TextsInv
<1> QED BY <1>3, <1>4, <1>5, <1>6 DEF KeptInv

\* A page that is rendered as it is.
LEMMA ShownKeeps ==
    ASSUME EditorInv, ViewInv, KeptInv, content # None, NEW d, d.step \/ DrawerOK(d), FormInv(d),
           Orderly => FormNew(d, Held, clock), Show(page, table, d),
           UNCHANGED <<files, history, clock, dialog>>,
           d.step => drawer.step \/ NewScenario \notin Ids(ToShow(files).scenarios)
    PROVE  KeptInv'
<1>1. PageOK(page) /\ UniquePage(page) /\ page.selected.content # None /\ clock \in Nat
  BY DEF EditorInv, ViewInv, content
<1>2. /\ page' = page /\ drawer' = ScenarioDrawer(d, page)
      /\ TableFrom(table', table, page) /\ (drawer'.step => table'.scenarios = <<>>)
  BY <1>1, ShowsTable
<1>3. Looks
  BY <1>2 DEF Looks
<1>4. ContentSeen(page.selected.content) \subseteq Held
  BY DEF Held
<1>5. FormInv(drawer')
  <2>1. \A x \in ContentSeen(page.selected.content) : Apart(x.actions)
    BY <1>4 DEF KeptInv, HeldInv
  <2> QED BY <1>1, <1>2, <2>1, FormInvStays
<1>6. Orderly => FormNew(drawer', Held, clock')
  <2>1. SUFFICES ASSUME Orderly PROVE FormNew(drawer', Held, clock)
    OBVIOUS
  <2>2. Dated(ContentSeen(page.selected.content), clock)
    BY <1>4, <2>1 DEF KeptInv, TextsInv, Dated
  <2>3. FormNew(d, Held, clock)
    BY <2>1
  <2> QED BY <1>1, <1>2, <2>2, <2>3, FormNewStays
<1>7. drawer'.step => d.step
  BY <1>2, WizardStays
<1> QED BY <1>2, <1>3, <1>5, <1>6, <1>7, LooksKeep

\* A form that changes.
LEMMA FormKeeps ==
    ASSUME EditorInv, KeptInv, UNCHANGED <<page, files, table, history, dialog>>,
           clock' = clock \/ clock' = clock + 1, drawer'.step = drawer.step,
           FormInv(drawer'), Orderly => FormNew(drawer', Held, clock')
    PROVE  KeptInv'
<1>1. Looks
  BY DEF Looks, TableFrom
<1>2. drawer.step => table.scenarios = <<>>
  BY DEF KeptInv, WizardInv
<1> QED BY <1>1, <1>2, LooksKeep

-----------------------------------------------------------------------------
(* The steps of the user and of the service keep it.                       *)

\* A drawer with the same form of the same scenario.
LEMMA SameFormKeeps ==
    ASSUME KeptInv, NEW d, d.step = drawer.step, d.form = drawer.form, d.shown = drawer.shown
    PROVE  FormInv(d) /\ (Orderly => FormNew(d, Held, clock))
BY DEF KeptInv, FormInv, TextsInv, FormNew

\* Opening and closing the drawer.
LEMMA OpeningHolds ==
    ASSUME EditorInv, ViewInv, KeptInv, NEW id \in ScenarioId, OpenScenarioDrawer(id)
    PROVE  KeptInv'
<1> DEFINE d == [drawer EXCEPT !.url = id]
<1>1. /\ Show(page, table, d) /\ ~drawer.step /\ content # None
      /\ UNCHANGED <<files, history, clock, dialog>>
  BY DEF OpenScenarioDrawer, AtTable, Rest, Still
<1>2. DrawerOK(drawer) /\ id \in OrNone(ScenarioId)
  BY DEF EditorInv, OrNone
<1>3. DrawerOK(d)
  <2>1. drawer.editing \in BOOLEAN
    BY <1>2, DrawerShape
  <2> QED BY <1>1, <1>2, <2>1, OtherUrl
<1>4. d.step = drawer.step /\ d.form = drawer.form /\ d.shown = drawer.shown
  BY <1>2, DrawerShape
<1> HIDE DEF d
<1> QED BY <1>1, <1>3, <1>4, SameFormKeeps, ShownKeeps

\* A drawer is closed.
LEMMA ClosingHolds ==
    ASSUME EditorInv, ViewInv, KeptInv, CloseDrawer PROVE KeptInv'
<1> DEFINE d == [drawer EXCEPT !.url = None, !.editing = FALSE]
<1>1. /\ Show(page, table, d) /\ drawer.open
      /\ UNCHANGED <<files, history, clock, dialog>>
  BY DEF CloseDrawer, Rest, Still
<1>2. DrawerOK(drawer) /\ None \in OrNone(ScenarioId) /\ content # None
  BY <1>1 DEF EditorInv, OrNone, Follows, content
<1>3. ~drawer.step
  BY <1>1, <1>2, DrawerShape
<1>4. DrawerOK(d)
  BY <1>2, <1>3, OtherUrl
<1>5. d.step = drawer.step /\ d.form = drawer.form /\ d.shown = drawer.shown
  BY <1>2, DrawerShape
<1> HIDE DEF d
<1> QED BY <1>1, <1>2, <1>3, <1>4, <1>5, SameFormKeeps, ShownKeeps

\* A form that looks like the one there was, in a drawer or wizard that stays.
LEMMA SameLooks ==
    ASSUME KeptInv, NEW form, Seen(form) = Seen(drawer.form),
           NEW d, d.form = form, d.step = drawer.step, d.shown = drawer.shown
    PROVE  FormInv(d) /\ (Orderly => FormNew(d, Held, clock))
<1>1. /\ form.id = drawer.form.id /\ form.text = drawer.form.text
      /\ Levels(form.risk) = Levels(drawer.form.risk)
      /\ IdList(form.actions) = IdList(drawer.form.actions)
  <2>1. /\ Seen(form).id = Seen(drawer.form).id /\ Seen(form).text = Seen(drawer.form).text
        /\ Seen(form).levels = Seen(drawer.form).levels
        /\ Seen(form).actions = Seen(drawer.form).actions
    OBVIOUS
  <2> QED BY <2>1, SeenIs
<1> QED BY <1>1 DEF KeptInv, FormInv, TextsInv, FormNew

\* Beginning to edit.
LEMMA EditingHolds ==
    ASSUME EditorInv, KeptInv, Edit PROVE KeptInv'
<1> DEFINE form == Registered(drawer.form)
<1>1. /\ drawer.open /\ drawer' = [drawer EXCEPT !.editing = TRUE, !.form = form]
      /\ UNCHANGED <<page, table, files, history, dialog, clock>>
  BY DEF Edit, Rest
<1>2. PageInv
  BY DEF EditorInv, PageInv
<1>3. drawer.form \in FormScenarios
  BY <1>1, <1>2, FormIsThere
<1>4. form \in FormScenarios /\ form.id = drawer.form.id /\ Seen(form) = Seen(drawer.form)
  BY <1>3, RegisteredForm, SeenRegistered
<1> HIDE DEF form
<1>5. drawer'.step = drawer.step /\ drawer'.shown = drawer.shown
  BY <1>1, <1>2, <1>4, FormChanged
<1>6. drawer'.form = form
  <2>1. DOMAIN drawer = {"url", "step", "open", "editing", "shown", "objects", "form"}
    BY <1>2, DrawerShape DEF PageInv
  <2> QED BY <1>1, <2>1
<1>7. FormInv(drawer') /\ (Orderly => FormNew(drawer', Held, clock))
  BY <1>4, <1>5, <1>6, SameLooks
<1> QED BY <1>1, <1>5, <1>7, FormKeeps

\* A form that is filled with the scenario that is shown.
LEMMA CancellingHolds ==
    ASSUME EditorInv, KeptInv, OnCancel PROVE KeptInv'
<1> DEFINE form == mapScenarioToFormScenario(drawer.shown)
<1>1. /\ drawer.open /\ drawer' = [drawer EXCEPT !.editing = FALSE, !.form = form]
      /\ UNCHANGED <<page, table, files, history, dialog, clock>>
  BY DEF OnCancel, Rest
<1>2. PageInv
  BY DEF EditorInv, PageInv
<1>3. drawer.shown \in Scenarios /\ ~drawer.step /\ drawer.form.id = drawer.shown.id
  BY <1>1, <1>2, FormIsThere
<1>4. form \in FormScenarios /\ form.id = drawer.form.id /\ Seen(form) = Seen(drawer.shown)
  BY <1>3, FormOfScenario, SeenForm
<1> HIDE DEF form
<1>5. drawer'.step = drawer.step /\ drawer'.shown = drawer.shown
  BY <1>1, <1>2, <1>4, FormChanged
<1>6. drawer'.form = form
  <2>1. DOMAIN drawer = {"url", "step", "open", "editing", "shown", "objects", "form"}
    BY <1>2, DrawerShape DEF PageInv
  <2> QED BY <1>1, <2>1
<1>7. Seen(drawer.shown) \in Held
  <2>1. /\ content \in RiScDocuments /\ content # None
        /\ drawer.shown = getScenarioOfIdFromRiSc(drawer.url, content)
        /\ drawer.shown # None
    <3>1. /\ drawer.shown = getScenarioOfIdFromRiSc(drawer.url, content)
          /\ drawer.shown # None /\ content # None
      BY <1>1, <1>2, <1>3 DEF PageInv, Follows, content
    <3> QED BY <1>2, <3>1, ContentIsOne DEF PageInv, Contents
  <2>2. Seen(drawer.shown) \in ContentSeen(content)
    BY <2>1, FoundIsSeen DEF ContentSeen
  <2> QED BY <2>2 DEF Held, content
<1>8. /\ form.text = drawer.shown.text /\ Levels(form.risk) = Levels(drawer.shown.risk)
      /\ IdList(form.actions) = IdList(drawer.shown.actions)
  <2> DEFINE s == Seen(form)
             t == Seen(drawer.shown)
  <2>1. s.text = t.text /\ s.levels = t.levels /\ s.actions = t.actions
    BY <1>4
  <2> QED BY <2>1, SeenIs
<1>9. Apart(IdList(form.actions))
  <2>1. Apart(Seen(drawer.shown).actions)
    BY <1>7 DEF KeptInv, HeldInv
  <2> QED BY <1>8, <2>1, SeenIs
<1>10. FormInv(drawer')
  BY <1>3, <1>5, <1>6, <1>8, <1>9 DEF FormInv
<1>11. Orderly => FormNew(drawer', Held, clock)
  <2>1. SUFFICES ASSUME Orderly PROVE FormNew(drawer', Held, clock)
    OBVIOUS
  <2>2. Seen(drawer.shown).text \in 0..clock
    BY <1>7, <2>1 DEF KeptInv, TextsInv, Dated
  <2>3. drawer.shown.text \in 0..clock
    BY <2>2, SeenIs
  <2> QED BY <1>3, <1>5, <1>6, <1>8, <2>3 DEF FormNew
<1> QED BY <1>1, <1>5, <1>10, <1>11, FormKeeps

\* Actions are apart by their ids.
LEMMA ApartIds == ASSUME NEW items PROVE Apart(IdList(items)) <=> UniqueIds(items)
BY DEF Apart, IdList, UniqueIds

\* A list without one of its items.
LEMMA RemovedList ==
    ASSUME NEW S, NEW items \in Seq(S), NEW i \in DOMAIN items, UniqueIds(items)
    PROVE  UniqueIds(RemoveAt(items, i))
<1> DEFINE n == Len(items)
           rest == RemoveAt(items, i)
<1>1. n \in Nat /\ i \in 1..n /\ DOMAIN items = 1..n
  OBVIOUS
<1>2. /\ DOMAIN rest = 1..(n - 1)
      /\ \A k \in 1..(n - 1) : rest[k] = IF k < i THEN items[k] ELSE items[k + 1]
  <2> DEFINE a == SubSeq(items, 1, i - 1)
             b == SubSeq(items, i + 1, n)
  <2>1. /\ a \in Seq(S) /\ Len(a) = i - 1 /\ \A k \in 1..(i - 1) : a[k] = items[k]
        /\ b \in Seq(S) /\ Len(b) = n - i /\ \A k \in 1..(n - i) : b[k] = items[k + i]
    BY <1>1
  <2>2. rest = a \o b
    BY DEF RemoveAt
  <2> HIDE DEF a, b, rest
  <2>3. /\ rest \in Seq(S) /\ Len(rest) = n - 1
        /\ \A k \in 1..(n - 1) : rest[k] = IF k <= i - 1 THEN a[k] ELSE b[k - (i - 1)]
    <3>1. (i - 1) + (n - i) = n - 1
      BY <1>1
    <3>2. /\ rest \in Seq(S) /\ Len(rest) = Len(a) + Len(b)
          /\ \A k \in 1..(Len(a) + Len(b)) :
                 rest[k] = IF k <= Len(a) THEN a[k] ELSE b[k - Len(a)]
      BY <2>1, <2>2, JoinedLists
    <3> QED BY <2>1, <3>1, <3>2, Zenon
  <2>4. ASSUME NEW k \in 1..(n - 1)
        PROVE  rest[k] = IF k < i THEN items[k] ELSE items[k + 1]
    <3>1. CASE k < i
      <4>1. k \in 1..(i - 1) /\ k <= i - 1
        BY <1>1, <3>1
      <4> QED BY <2>1, <2>3, <3>1, <4>1
    <3>2. CASE ~(k < i)
      <4>1. ~(k <= i - 1) /\ k - (i - 1) \in 1..(n - i) /\ (k - (i - 1)) + i = k + 1
        BY <1>1, <3>2
      <4> QED BY <2>1, <2>3, <3>2, <4>1
    <3> QED BY <3>1, <3>2
  <2>5. DOMAIN rest = 1..(n - 1)
    BY <2>3
  <2> QED BY <2>4, <2>5
<1> HIDE DEF rest
<1> DEFINE At0(k) == IF k < i THEN k ELSE k + 1
<1>3. \A k \in 1..(n - 1) : At0(k) \in 1..n /\ rest[k] = items[At0(k)]
  BY <1>1, <1>2
<1>4. \A j, k \in 1..(n - 1) : At0(j) = At0(k) => j = k
  BY <1>1
<1> HIDE DEF At0
<1>5. UniqueIds(rest)
  BY <1>1, <1>2, <1>3, <1>4 DEF UniqueIds
<1> QED BY <1>5 DEF rest

\* A list with an item of another id besides.
LEMMA AppendedList ==
    ASSUME NEW S, NEW items \in Seq(S), UniqueIds(items), NEW x \in S, x.id \notin Ids(items)
    PROVE  UniqueIds(Append(items, x))
<1> DEFINE n == Len(items)
           new == Append(items, x)
<1>1. /\ n \in Nat /\ DOMAIN items = 1..n /\ DOMAIN new = 1..(n + 1)
      /\ new[n + 1] = x /\ \A k \in 1..n : new[k] = items[k]
  OBVIOUS
<1> HIDE DEF n, new
<1>2. \A k \in 1..n : items[k].id # x.id
  BY <1>1 DEF Ids
<1>3. \A k \in 1..(n + 1) : k = n + 1 \/ k \in 1..n
  BY <1>1
<1>4. ASSUME NEW j \in 1..(n + 1), NEW k \in 1..(n + 1), new[j].id = new[k].id PROVE j = k
  <2>1. CASE j = n + 1 /\ k = n + 1
    BY <2>1
  <2>2. CASE j \in 1..n /\ k \in 1..n
    BY <1>1, <1>4, <2>2 DEF UniqueIds
  <2>3. CASE j = n + 1 /\ k \in 1..n
    <3>1. new[j].id = x.id /\ new[k].id = items[k].id
      BY <1>1, <2>3
    <3> QED BY <1>2, <1>4, <2>3, <3>1
  <2>4. CASE j \in 1..n /\ k = n + 1
    <3>1. new[k].id = x.id /\ new[j].id = items[j].id
      BY <1>1, <2>4
    <3> QED BY <1>2, <1>4, <2>4, <3>1
  <2> QED BY <1>3, <2>1, <2>2, <2>3, <2>4
<1>5. UniqueIds(new)
  BY <1>1, <1>4 DEF UniqueIds
<1> QED BY <1>5 DEF new

\* Typing into the form.
LEMMA TypingHolds ==
    ASSUME EditorInv, KeptInv,
           TypeText \/ AddAction \/ \E i \in 1..2 : TypeAction(i) \/ RemoveAction(i)
    PROVE  KeptInv'
<1>0. PageInv /\ clock \in Nat
  BY DEF EditorInv, PageInv
<1>1. ASSUME NEW form, Type(form)
      PROVE  /\ drawer.form \in FormScenarios
             /\ UNCHANGED <<page, table, files, history, dialog>>
             /\ drawer' = [drawer EXCEPT !.form = form]
             /\ drawer'.form = form /\ drawer'.step = drawer.step /\ drawer'.shown = drawer.shown
             /\ drawer.step \/ drawer.shown # None
  <2>1. /\ drawer.step \/ drawer.open
        /\ drawer' = [drawer EXCEPT !.form = form]
    BY <1>1 DEF Type, Rest
  <2>2. DOMAIN drawer = {"url", "step", "open", "editing", "shown", "objects", "form"}
    BY <1>0, DrawerShape DEF PageInv
  <2>3. drawer.form \in FormScenarios /\ (drawer.open => drawer.shown \in Scenarios)
    BY <1>0, <1>1, FormIsThere DEF Type
  <2>4. drawer'.form = form /\ drawer'.step = drawer.step /\ drawer'.shown = drawer.shown
    BY <2>1, <2>2
  <2>5. UNCHANGED <<page, table, files, history, dialog>>
    BY <1>1 DEF Type, Rest
  <2>6. drawer.step \/ drawer.shown # None
    BY <1>1, <2>3, FormNotNone DEF Type
  <2> QED BY <2>1, <2>3, <2>4, <2>5, <2>6
<1>2. ASSUME NEW form, Type(form), Edits, form.id = drawer.form.id, form.risk = drawer.form.risk,
             form.text \in {drawer.form.text, Now}, UniqueIds(form.actions)
      PROVE  KeptInv'
  <2>1. /\ UNCHANGED <<page, table, files, history, dialog>>
        /\ drawer'.form = form /\ drawer'.step = drawer.step /\ drawer'.shown = drawer.shown
        /\ clock' = clock + 1
        /\ drawer.step \/ drawer.shown # None
    BY <1>1, <1>2 DEF Edits, Now
  <2>2. FormInv(drawer')
    <3>1. Apart(IdList(form.actions))
      BY <1>2, ApartIds
    <3> QED BY <1>2, <2>1, <3>1 DEF KeptInv, FormInv
  <2>3. Orderly => FormNew(drawer', Held, clock')
    <3>1. SUFFICES ASSUME Orderly PROVE FormNew(drawer', Held, clock')
      OBVIOUS
    <3>2. FormNew(drawer, Held, clock) /\ Dated(Held, clock)
      BY <3>1 DEF KeptInv, TextsInv
    <3>3. CASE form.text = drawer.form.text
      <4>1. \A n \in 0..clock : n \in 0..clock'
        BY <1>0, <2>1
      <4> QED BY <1>2, <2>1, <3>2, <3>3, <4>1 DEF FormNew
    <3>4. CASE form.text = Now
      <4>1. form.text \in 0..clock' /\ \A n \in 0..clock : n <= form.text
        BY <1>0, <2>1, <3>4 DEF Now
      <4>2. \A x \in Held : x.text <= form.text
        BY <3>2, <4>1 DEF Dated
      <4> QED BY <2>1, <4>1, <4>2 DEF FormNew
    <3> QED BY <1>2, <3>3, <3>4
  <2>4. clock' = clock + 1 /\ drawer'.step = drawer.step
    BY <2>1
  <2> QED BY <2>1, <2>2, <2>3, <2>4, FormKeeps
<1>3. ASSUME NEW form, Type(form)
      PROVE  /\ UniqueIds(drawer.form.actions) /\ drawer.form \in FormScenarios
             /\ drawer.form \in Scenarios /\ drawer.form.actions \in Seq(Actions)
  <2>1. drawer.form \in FormScenarios /\ (drawer.step \/ drawer.shown # None)
    BY <1>1, <1>3
  <2>2. Apart(IdList(drawer.form.actions))
    BY <2>1 DEF KeptInv, FormInv
  <2> QED BY <2>1, <2>2, ApartIds, FormParts
<1>4. CASE TypeText
  <2> DEFINE form == [drawer.form EXCEPT !.text = Now]
  <2>1. Edits /\ Type(form)
    BY <1>4 DEF TypeText
  <2>2. drawer.form \in Scenarios /\ UniqueIds(drawer.form.actions)
    BY <1>3, <2>1
  <2>3. /\ form.id = drawer.form.id /\ form.risk = drawer.form.risk /\ form.text = Now
        /\ form.actions = drawer.form.actions
    BY <2>2 DEF Scenarios
  <2> HIDE DEF form
  <2> QED BY <1>2, <2>1, <2>2, <2>3
<1>5. ASSUME NEW actions, Edits, Type([drawer.form EXCEPT !.actions = actions]),
             UniqueIds(actions)
      PROVE  KeptInv'
  <2> DEFINE form == [drawer.form EXCEPT !.actions = actions]
  <2>1. Type(form)
    BY <1>5
  <2>2. drawer.form \in Scenarios
    BY <1>3, <2>1
  <2>3. /\ form.id = drawer.form.id /\ form.risk = drawer.form.risk
        /\ form.text = drawer.form.text /\ form.actions = actions
    BY <2>2 DEF Scenarios
  <2> HIDE DEF form
  <2> QED BY <1>2, <1>5, <2>1, <2>3
<1>6. CASE AddAction
  <2> DEFINE actions == Append(drawer.form.actions, emptyAction(NewAction))
  <2>1. /\ Edits /\ Type([drawer.form EXCEPT !.actions = actions])
        /\ NewAction \notin Ids(drawer.form.actions)
    BY <1>6 DEF AddAction
  <2>2. drawer.form.actions \in Seq(Actions) /\ UniqueIds(drawer.form.actions)
    BY <1>3, <2>1
  <2>3. emptyAction(NewAction) \in Actions /\ emptyAction(NewAction).id = NewAction
    BY EmptyAction, EditorAssumption DEF emptyAction
  <2>4. UniqueIds(actions)
    BY <2>1, <2>2, <2>3, AppendedList
  <2> HIDE DEF actions
  <2> QED BY <1>5, <2>1, <2>4
<1>7. ASSUME NEW i, TypeAction(i) PROVE KeptInv'
  <2> DEFINE actions == [drawer.form.actions EXCEPT ![i].text = Now]
             form == [drawer.form EXCEPT !.actions[i].text = Now]
  <2>1. i \in DOMAIN drawer.form.actions /\ Edits /\ Type(form)
    BY <1>7 DEF TypeAction
  <2>2. form = [drawer.form EXCEPT !.actions = actions]
    OBVIOUS
  <2>3. drawer.form.actions \in Seq(Actions) /\ UniqueIds(drawer.form.actions)
    BY <1>3, <2>1
  <2>4. DOMAIN actions = DOMAIN drawer.form.actions
    OBVIOUS
  <2>5. ASSUME NEW k \in DOMAIN drawer.form.actions
        PROVE  actions[k].id = drawer.form.actions[k].id
    <3>1. drawer.form.actions[k] \in Actions
      BY <2>3
    <3>2. [drawer.form.actions[k] EXCEPT !.text = Now].id = drawer.form.actions[k].id
      BY <3>1 DEF Actions
    <3>3. actions[k] = IF k = i THEN [drawer.form.actions[k] EXCEPT !.text = Now]
                                ELSE drawer.form.actions[k]
      OBVIOUS
    <3> QED BY <3>2, <3>3
  <2> HIDE DEF actions, form
  <2>6. UniqueIds(actions)
    BY <2>3, <2>4, <2>5 DEF UniqueIds
  <2> QED BY <1>5, <2>1, <2>2, <2>6
<1>8. ASSUME NEW i, RemoveAction(i) PROVE KeptInv'
  <2> DEFINE actions == RemoveAt(drawer.form.actions, i)
  <2>1. /\ i \in DOMAIN drawer.form.actions /\ Edits
        /\ Type([drawer.form EXCEPT !.actions = actions])
    BY <1>8 DEF RemoveAction
  <2>2. drawer.form.actions \in Seq(Actions) /\ UniqueIds(drawer.form.actions)
    BY <1>3, <2>1
  <2>3. UniqueIds(actions)
    BY <2>1, <2>2, RemovedList
  <2> HIDE DEF actions
  <2> QED BY <1>5, <2>1, <2>3
<1> QED BY <1>4, <1>6, <1>7, <1>8

\* Opening and closing the wizard.
LEMMA WizardOpeningHolds ==
    ASSUME EditorInv, ViewInv, KeptInv, OpenNewScenarioWizard PROVE KeptInv'
<1> DEFINE form == emptyFormScenario(NewScenario)
           d == [Closed EXCEPT !.url = NewScenario, !.step = TRUE, !.form = form]
<1>1. /\ Show(page, table, d) /\ content # None
      /\ UNCHANGED <<files, history, clock, dialog>>
      /\ NewScenario \notin Ids(ToShow(files).scenarios)
  BY DEF OpenNewScenarioWizard, AtTable, Rest, Still
<1>2. d.step = TRUE /\ d.form = form /\ form.actions = <<>> /\ form.text = 0
  BY DEF Closed, emptyFormScenario
<1>3. clock \in Nat
  BY DEF EditorInv
<1> HIDE DEF d, form
<1>4. Apart(IdList(form.actions))
  BY <1>2 DEF Apart, IdList
<1>5. FormInv(d)
  BY <1>2, <1>4 DEF FormInv
<1>6. FormNew(d, Held, clock)
  <2>1. d.form.text \in 0..clock
    BY <1>2, <1>3
  <2> QED BY <1>2, <2>1 DEF FormNew
<1> QED BY <1>1, <1>2, <1>5, <1>6, ShownKeeps

\* The wizard is closed.
LEMMA WizardClosingHolds ==
    ASSUME EditorInv, ViewInv, KeptInv, CloseWizard PROVE KeptInv'
<1>1. /\ Show(page, table, Closed) /\ drawer.step
      /\ UNCHANGED <<files, history, clock, dialog>>
  BY DEF CloseWizard, Rest, Still
<1>2. content # None
  BY <1>1 DEF EditorInv, Follows, content
<1>3. ~Closed.step /\ Closed.shown = None
  BY DEF Closed
<1>4. FormInv(Closed) /\ FormNew(Closed, Held, clock)
  BY <1>3 DEF FormInv, FormNew
<1> QED BY <1>1, <1>2, <1>3, <1>4, ClosedDrawer, ShownKeeps

\* A drawer that is left alone.
LEMMA SameDrawer ==
    ASSUME EditorInv, KeptInv, Looks, drawer' = drawer, clock' = clock,
           drawer.step => table' = table
    PROVE  KeptInv'
<1>1. FormInv(drawer') /\ (Orderly => FormNew(drawer', Held, clock'))
  BY DEF KeptInv, TextsInv
<1>2. drawer'.step => table'.scenarios = <<>> /\ drawer.step
  BY DEF KeptInv, WizardInv
<1> QED BY <1>1, <1>2, LooksKeep

\* Dragging a row.
LEMMA MovingHolds ==
    ASSUME EditorInv, KeptInv, NEW from, NEW to, MoveRowLocal(from, to) PROVE KeptInv'
<1> DEFINE moved == InsertAt(RemoveAt(table.scenarios, from), to, table.scenarios[from])
<1>1. /\ from \in DOMAIN table.scenarios /\ to \in DOMAIN table.scenarios /\ ~drawer.step
      /\ table' = [table EXCEPT !.scenarios = moved]
      /\ UNCHANGED <<page, drawer, history, files, dialog, clock>>
  BY DEF MoveRowLocal, Rest, AtTable
<1>2. TableOK(table, page)
  BY DEF EditorInv
<1>3. moved \in Seq(Scenarios) /\ Range(moved) = Range(table.scenarios)
  BY <1>1, <1>2, MovedList DEF TableOK
<1> HIDE DEF moved
<1>4. SeenIn(moved) \subseteq SeenIn(table.scenarios)
  BY <1>3, SeenOfRange
<1>5. table'.scenarios = moved /\ table'.rows = table.rows
  <2>1. DOMAIN table = {"mounted", "scenarios", "objects", "early", "rows"}
    BY <1>2 DEF TableOK
  <2> QED BY <1>1, <2>1
<1>6. TableFrom(table', table, page)
  BY <1>4, <1>5 DEF TableFrom, RowsSeen
<1>7. Looks
  BY <1>1, <1>6 DEF Looks
<1> QED BY <1>1, <1>7, SameDrawer

\* Opening the dialog.
LEMMA DialogOpeningHolds ==
    ASSUME EditorInv, KeptInv, OpenDialog PROVE KeptInv'
<1>1. Looks
  BY DEF OpenDialog, Looks, TableFrom
<1> QED BY <1>1, SameDrawer DEF OpenDialog

\* What is asked and answered of differences, or nothing.
LEMMA AskingHolds ==
    ASSUME EditorInv, KeptInv, UNCHANGED <<page, table, drawer, dialog, files, history, clock>>
    PROVE  KeptInv'
<1>1. Looks
  BY DEF Looks, TableFrom
<1> QED BY <1>1, SameDrawer

-----------------------------------------------------------------------------
(* Saving.                                                                 *)

\* What is saved of the drawer: a form of the page's or the wizard's.
Sends(selected, c, d, N) ==
    /\ SavesOver(selected, c)
    /\ \E objects, after : Show(UpdateRiSc(selected, c, objects, after), table, d)
    /\ ContentSeen(selected.content) \subseteq Held
    /\ SeenIn(c.scenarios) \subseteq Held \cup N
    /\ Fitting(N, Held)

\* A save keeps what is held alike, and the form it renders.
LEMMA SendingHolds ==
    ASSUME EditorInv, EditorInv', KeptInv, NEW selected, NEW c, NEW N, NEW d,
           Sends(selected, c, d, N), UniqueIds(c.scenarios), UniqueSelection(selected),
           history'.lost = history.lost, d.step \/ DrawerOK(d), FormInv(d)
    PROVE  /\ HeldInv' /\ FormInv(drawer')
           /\ Held' \subseteq Held \cup N
           /\ page' = page' /\ drawer' = ScenarioDrawer(d, page')
           /\ \A x \in ContentSeen(page'.selected.content) : Apart(x.actions)
<1>1. PICK objects, after : Show(UpdateRiSc(selected, c, objects, after), table, d)
  BY DEF Sends
<1>2. drawer' = ScenarioDrawer(d, page')
  BY <1>1 DEF Show
<1>3. Held' \subseteq Held \cup N
  BY SavingHolds DEF Sends
<1>4. HeldInv'
  BY <1>3, HeldInvStays DEF KeptInv, Sends
<1>5. PageOK(page') /\ page'.selected.content = c /\ c # None
  BY SavedPage DEF EditorInv, Sends, SavesOver
<1>6. ContentSeen(page'.selected.content) \subseteq Held'
  BY DEF Held
<1>7. \A x \in ContentSeen(page'.selected.content) : Apart(x.actions)
  <2>1. \A x \in Held' : Apart(x.actions)
    BY <1>4 DEF HeldInv
  <2> QED BY <1>6, <2>1
<1>8. page'.selected.content # None
  BY <1>5
<1>9. FormInv(drawer')
  BY <1>2, <1>5, <1>7, <1>8, FormInvStays
<1> QED BY <1>2, <1>3, <1>4, <1>7, <1>9

\* What an orderly save has to have besides.
SendsNew(selected, c, d, N) ==
    /\ selected.content = content /\ content # None /\ NewerContent(c)
    /\ c.text \in 0..clock' /\ Dated(N, clock') /\ FormNew(d, Held \cup N, clock')

\* A save of what is not older, of which the form stays.
LEMMA SavingKeeps ==
    ASSUME EditorInv, EditorInv', KeptInv, NEW selected, NEW c, NEW N, NEW d,
           Sends(selected, c, d, N), UniqueIds(c.scenarios), UniqueSelection(selected),
           d.step \/ DrawerOK(d), FormInv(d), d.step => drawer.step,
           history'.lost = history.lost, history'.orderly => history.orderly,
           clock' = clock \/ clock' = clock + 1, dialog' = None,
           Orderly' => SendsNew(selected, c, d, N)
    PROVE  KeptInv'
<1>1. /\ HeldInv' /\ FormInv(drawer') /\ Held' \subseteq Held \cup N
      /\ drawer' = ScenarioDrawer(d, page')
  BY SendingHolds
<1>2. PICK objects, after : Show(UpdateRiSc(selected, c, objects, after), table, d)
  BY DEF Sends
<1>3. /\ SavesOver(selected, c) /\ Quiet /\ files' = files
      /\ page'.request.answer = "none" /\ page'.selected.content = c /\ c # None
  BY SavedPage DEF Sends, SavesOver
<1>4. WizardInv'
  <2>1. SUFFICES ASSUME drawer'.step
                 PROVE  /\ table'.scenarios = <<>>
                        /\ ~history'.lost => NewScenario \notin Ids(ToShow(files').scenarios)
    BY DEF WizardInv
  <2>2. d.step
    BY <1>1, <2>1, WizardStays
  <2>3. drawer.step
    BY <2>2
  <2>4. ~history.lost => NewScenario \notin Ids(ToShow(files).scenarios)
    BY <1>3, <2>3 DEF KeptInv, WizardInv
  <2>5. table'.scenarios = <<>>
    <3>1. table' = ScenarioTable(table, page', drawer')
      BY <1>2 DEF Show
    <3> QED BY <2>1, <3>1, WizardHidesTable
  <2> QED BY <1>3, <2>4, <2>5
<1>5. ASSUME Orderly' PROVE TextsInv'
  <2>1. Orderly /\ TextsInv /\ SendsNew(selected, c, d, N) /\ clock \in Nat
    BY <1>5 DEF Orderly, KeptInv, EditorInv
  <2>2. (DocumentsDated /\ NewerInv)'
    <3>1. /\ content # None /\ selected.content = content /\ NewerContent(c)
          /\ c.text \in 0..clock'
      BY <2>1 DEF SendsNew
    <3> QED BY <1>3, <2>1, <3>1, SavingIsNew
  <2>3. Dated(Held \cup N, clock')
    <3>1. Dated(Held, clock) /\ Dated(N, clock')
      BY <2>1 DEF TextsInv, SendsNew
    <3>2. \A n \in 0..clock : n \in 0..clock'
      BY <2>1
    <3> QED BY <3>1, <3>2 DEF Dated
  <2>4. Dated(Held', clock')
    BY <1>1, <2>3 DEF Dated
  <2>5. Dated(ContentSeen(page'.selected.content), clock')
    <3>1. ContentSeen(page'.selected.content) \subseteq Held'
      BY DEF Held
    <3> QED BY <2>4, <3>1 DEF Dated
  <2>6. FormNew(drawer', Held \cup N, clock')
    <3>1. PageOK(page') /\ page'.selected.content # None /\ clock' \in Nat
      BY <1>3 DEF EditorInv
    <3>2. FormNew(d, Held \cup N, clock')
      BY <2>1 DEF SendsNew
    <3> QED BY <1>1, <2>5, <3>1, <3>2, FormNewStays
  <2>7. FormNew(drawer', Held', clock')
    BY <1>1, <2>6 DEF FormNew
  <2>8. Dated(Held, clock)' /\ FormNew(drawer, Held, clock)'
    BY <2>4, <2>7 DEF Dated, FormNew
  <2> QED BY <2>2, <2>8 DEF TextsInv
<1>6. FormInv(drawer)'
  BY <1>1 DEF FormInv
<1> QED BY <1>1, <1>4, <1>5, <1>6 DEF KeptInv

\* A save that is begun.
LEMMA SaveSends ==
    ASSUME EditorInv, EditorInv', ViewInv, ViewInv', Quiet, files' = files,
           dialog' = dialog \/ dialog' = None,
           NEW selected, NEW c, NEW objects, NEW after, NEW d,
           Show(UpdateRiSc(selected, c, objects, after), table, d),
           ContentSeen(selected.content) \subseteq Held,
           NEW N, SeenIn(c.scenarios) \subseteq Held \cup N, Fitting(N, Held)
    PROVE  Sends(selected, c, d, N) /\ UniqueIds(c.scenarios)
<1> DEFINE p == UpdateRiSc(selected, c, objects, after)
<1>1. Show(p, table, d) /\ page' = p
  BY DEF Show
<1>2. p.update = "loading" /\ p.selected.content = c
  BY DEF UpdateRiSc
<1> HIDE DEF p
<1>3. PageOK(p) /\ UniquePage(p)
  BY <1>1 DEF EditorInv, ViewInv, PageOK, UniquePage, UniqueSelection
<1>4. c # None /\ UniqueIds(c.scenarios)
  BY <1>2, <1>3 DEF PageOK, RequestOK, UniquePage, UniqueSelection
<1>5. TableFrom(table', table, page')
  BY <1>1, <1>3, ShowsTable
<1>6. SavesOver(selected, c)
  BY <1>1, <1>4, <1>5 DEF SavesOver, p
<1> QED BY <1>4, <1>6 DEF Sends

\* An update of what the page shows.
LEMMA UpdateHolds ==
    ASSUME EditorInv, EditorInv', ViewInv, ViewInv', KeptInv, NEW c, NEW after, NEW d,
           Update(c, after, d), UNCHANGED <<files, history, dialog, clock>>, dialog = None,
           content # None, c.text = content.text,
           d.step \/ DrawerOK(d), FormInv(d), d.step => drawer.step,
           NEW N, SeenIn(c.scenarios) \subseteq ContentSeen(content) \cup N, Fitting(N, Held),
           Orderly => /\ Dated(N, clock) /\ Newer(N, StoredSeen(files))
                      /\ FormNew(d, Held \cup N, clock)
    PROVE  KeptInv'
<1>1. /\ Quiet
      /\ Show(UpdateRiSc(page.selected, c, page.selected.objects, after), table, d)
  BY DEF Update, Saves
<1>2. ContentSeen(page.selected.content) \subseteq Held
  BY DEF Held
<1>3. SeenIn(c.scenarios) \subseteq Held \cup N
  BY <1>2 DEF content
<1>4. Sends(page.selected, c, d, N) /\ UniqueIds(c.scenarios)
  BY <1>1, <1>2, <1>3, SaveSends
<1>5. UniqueSelection(page.selected)
  BY DEF ViewInv, UniquePage
<1>6. Orderly' => SendsNew(page.selected, c, d, N)
  <2>1. SUFFICES ASSUME Orderly PROVE SendsNew(page.selected, c, d, N)
    BY DEF Orderly
  <2>2. c # None
    BY <1>4 DEF Sends, SavesOver
  <2>3. /\ NewerContent(content) /\ content.text \in 0..clock
    BY <2>1 DEF KeptInv, TextsInv, NewerInv, DocumentsDated
  <2>4. Newer(SeenIn(c.scenarios), StoredSeen(files)) /\ content.text >= ToShow(files).text
    BY <2>1, <2>3 DEF NewerContent, Newer
  <2>5. NewerContent(c)
    BY <2>2, <2>4 DEF NewerContent, ContentSeen
  <2> QED BY <2>1, <2>3, <2>5 DEF SendsNew, content
<1>7. history'.lost = history.lost /\ (history'.orderly => history.orderly)
      /\ dialog' = None /\ clock' = clock
  OBVIOUS
<1> QED BY <1>4, <1>5, <1>6, <1>7, SavingKeeps

\* An update that brings nothing new, with the drawer as it is.
LEMMA NothingNewHolds ==
    ASSUME EditorInv, EditorInv', ViewInv, ViewInv', KeptInv, NEW c, NEW after,
           Update(c, after, drawer), UNCHANGED <<files, history, dialog, clock>>, dialog = None,
           content # None, c.text = content.text,
           SeenIn(c.scenarios) \subseteq ContentSeen(content)
    PROVE  KeptInv'
<1>1. Fitting({}, Held)
  BY NothingFits
<1>2. SeenIn(c.scenarios) \subseteq ContentSeen(content) \cup {}
  OBVIOUS
<1>3. Orderly => /\ Dated({}, clock) /\ Newer({}, StoredSeen(files))
                 /\ FormNew(drawer, Held \cup {}, clock)
  BY DEF KeptInv, TextsInv, Dated, Newer
<1>4. DrawerOK(drawer) /\ FormInv(drawer)
  BY DEF EditorInv, KeptInv
<1> DEFINE N == {}
<1>5. N = {}
  OBVIOUS
<1> HIDE DEF N
<1>6. /\ Fitting(N, Held) /\ SeenIn(c.scenarios) \subseteq ContentSeen(content) \cup N
      /\ (Orderly => /\ Dated(N, clock) /\ Newer(N, StoredSeen(files))
                     /\ FormNew(drawer, Held \cup N, clock))
  BY <1>1, <1>2, <1>3, <1>5, Zenon
<1> QED BY <1>4, <1>6, UpdateHolds

\* Deleting a scenario.
LEMMA DeletingHolds ==
    ASSUME EditorInv, EditorInv', ViewInv, ViewInv', KeptInv, NEW id, DeleteScenario(id)
    PROVE  KeptInv'
<1> DEFINE c == WithoutScenario(content, id)
<1>1. /\ Update(c, "nothing", drawer) /\ UNCHANGED <<files, history, dialog, clock>>
      /\ drawer.open \/ AtTable
  BY DEF DeleteScenario, Rest
<1>2. content # None /\ dialog = None
  BY <1>1 DEF AtTable, EditorInv, DrawerOK, Follows, content, DialogOK
<1>3. content \in RiScDocuments
  BY <1>2, ContentIsUnique
<1>4. c.text = content.text /\ SeenIn(c.scenarios) \subseteq ContentSeen(content)
  BY <1>2, <1>3, SeenDeleted DEF ContentSeen
<1> HIDE DEF c
<1> QED BY <1>1, <1>2, <1>4, NothingNewHolds

\* Saving a migration.
LEMMA MigratingHolds ==
    ASSUME EditorInv, EditorInv', ViewInv, ViewInv', KeptInv, SaveMigration PROVE KeptInv'
<1>1. /\ Update(content, "nothing", drawer) /\ UNCHANGED <<files, history, dialog, clock>>
      /\ content # None /\ dialog = None
  BY DEF SaveMigration, Rest, AtTable
<1>2. SeenIn(content.scenarios) \subseteq ContentSeen(content) /\ content.text = content.text
  BY <1>1 DEF ContentSeen
<1> QED BY <1>1, <1>2, NothingNewHolds

\* What is seen of the predefined scenarios fits.
LEMMA PredefinedFits ==
    ASSUME NEW S
    PROVE  LET N == SeenIn(Predefined)
           IN  /\ Fitting(N, S)
               /\ \A n \in N : n.text = 0 /\ AddedAgain(n.id, n.text)
<1>1. ASSUME NEW n \in SeenIn(Predefined)
      PROVE  Preset(n.id, n.levels) /\ Apart(n.actions) /\ n.text = 0 /\ AddedAgain(n.id, n.text)
  <2>1. PICK i \in DOMAIN Predefined : n = Seen(Predefined[i])
    BY DEF SeenIn
  <2>2. /\ n.id = Predefined[i].id /\ n.text = Predefined[i].text
        /\ n.levels = Levels(Predefined[i].risk) /\ n.actions = IdList(Predefined[i].actions)
    BY <2>1, SeenIs
  <2>3. UniqueIds(Predefined[i].actions) /\ Predefined[i].text = 0
    BY ActionsAssumption, EditsAssumption
  <2> QED BY <2>2, <2>3, ApartIds DEF Preset, AddedAgain, Ids
<1> QED BY <1>1 DEF Fitting, Alike

\* Adding the predefined scenarios.
LEMMA AddingHolds ==
    ASSUME EditorInv, EditorInv', ViewInv, ViewInv', KeptInv, AddPredefinedScenarios
    PROVE  KeptInv'
<1> DEFINE new == buildPredefinedScenarios(Predefined, clock)
           c == WithNewScenarios(content, new)
           N == SeenIn(Predefined)
<1>1. /\ Update(c, "nothing", drawer) /\ UNCHANGED <<files, history, dialog, clock>>
      /\ content # None /\ dialog = None /\ ~drawer.open /\ ~drawer.step
  BY DEF AddPredefinedScenarios, Rest, AtTable
<1>2. new \in Seq(Scenarios) /\ SeenIn(new) = N
  BY PredefinedScenarios, SeenPredefined DEF EditorInv
<1>3. content \in RiScDocuments
  BY <1>1, ContentIsUnique
<1> HIDE DEF new
<1>4. c.text = content.text /\ SeenIn(c.scenarios) \subseteq ContentSeen(content) \cup N
  BY <1>1, <1>2, <1>3, SeenAdded DEF ContentSeen
<1>5. Fitting(N, Held) /\ \A n \in N : n.text = 0 /\ AddedAgain(n.id, n.text)
  BY PredefinedFits
<1> HIDE DEF c, N
<1>6. DrawerOK(drawer) /\ FormInv(drawer) /\ drawer.shown = None /\ clock \in Nat
  BY <1>1 DEF EditorInv, KeptInv, Follows
<1>7. /\ Dated(N, clock) /\ Newer(N, StoredSeen(files))
      /\ FormNew(drawer, Held \cup N, clock)
  <2>1. 0 \in 0..clock
    BY <1>6
  <2> QED BY <1>1, <1>5, <1>6, <2>1 DEF Dated, Newer, FormNew
<1> QED BY <1>1, <1>4, <1>5, <1>6, <1>7, UpdateHolds

\* Submitting the form of the drawer.
LEMMA SubmittingHolds ==
    ASSUME EditorInv, EditorInv', ViewInv, ViewInv', KeptInv, SubmitEditedScenario
    PROVE  KeptInv'
<1> DEFINE form == drawer.form
           old == getScenarioOfIdFromRiSc(form.id, content)
           actions == getActionsWithLastUpdated(old.actions, form.actions, FALSE, clock)
           edited == [form EXCEPT !.actions = actions]
           c == WithScenario(content, edited)
           N == {Seen(form)}
<1>1. /\ drawer.open /\ Update(c, "endEditing", drawer)
      /\ UNCHANGED <<files, history, dialog, clock>>
  BY DEF SubmitEditedScenario, Rest
<1>2. /\ form \in FormScenarios /\ drawer.shown \in Scenarios /\ ~drawer.step
      /\ form.id = drawer.shown.id
  BY <1>1, FormIsThere DEF EditorInv, PageInv
<1>3. /\ content \in RiScDocuments /\ content # None /\ dialog = None /\ DrawerOK(drawer)
      /\ drawer.shown # None /\ drawer.shown = getScenarioOfIdFromRiSc(drawer.url, content)
  <2>1. /\ content # None /\ dialog = None /\ DrawerOK(drawer)
        /\ drawer.shown # None /\ drawer.shown = getScenarioOfIdFromRiSc(drawer.url, content)
    BY <1>1, <1>2 DEF EditorInv, Follows, content, DialogOK
  <2> QED BY <2>1, ContentIsUnique
<1>4. StampsOf(actions, form.actions, clock) /\ form \in Scenarios
  BY <1>2, StampedList, FormParts
<1> HIDE DEF actions
<1>5. Seen(edited) = Seen(form)
  BY <1>4, SeenStamped
<1> HIDE DEF edited
<1>6. c.text = content.text /\ SeenIn(c.scenarios) \subseteq ContentSeen(content) \cup N
  BY <1>3, <1>5, SeenEdited DEF ContentSeen
<1> HIDE DEF c
<1> DEFINE x == Seen(form)
           y == Seen(drawer.shown)
<1>7. /\ x.id = form.id /\ x.text = form.text /\ x.levels = Levels(form.risk)
      /\ x.actions = IdList(form.actions)
      /\ y.id = form.id /\ y.text = drawer.shown.text /\ y.levels = Levels(drawer.shown.risk)
  BY <1>2, SeenIs
<1>8. y \in ContentSeen(content) /\ y \in Held
  <2>1. y \in SeenIn(content.scenarios)
    BY <1>3, FoundIsSeen
  <2> QED BY <1>3, <2>1 DEF ContentSeen, Held, content
<1>9. N = {x}
  OBVIOUS
<1> HIDE DEF x, y, N, form
<1>10. x.id = y.id /\ x.levels = y.levels /\ Apart(x.actions)
  BY <1>2, <1>3, <1>7 DEF KeptInv, FormInv, form
<1>11. Fitting(N, Held)
  <2>1. \A z \in Held : Alike(y, z, history.lost)
    BY <1>8 DEF KeptInv, HeldInv
  <2>2. \A z \in Held : Alike(x, z, history.lost)
    BY <1>10, <2>1 DEF Alike
  <2>3. Alike(x, x, history.lost)
    BY DEF Alike
  <2> QED BY <1>9, <1>10, <2>2, <2>3 DEF Fitting
<1>12. ASSUME Orderly
       PROVE  /\ Dated(N, clock) /\ Newer(N, StoredSeen(files))
              /\ FormNew(drawer, Held \cup N, clock)
  <2>1. /\ FormNew(drawer, Held, clock) /\ NewerContent(content) /\ Dated(Held, clock)
    BY <1>12 DEF KeptInv, TextsInv, NewerInv
  <2>2. /\ form.text \in 0..clock
        /\ form.text = drawer.shown.text \/ \A z \in Held : z.id = form.id => z.text <= form.text
    BY <1>2, <1>3, <2>1 DEF FormNew, form
  <2>3. Dated(N, clock)
    BY <1>7, <1>9, <2>2 DEF Dated
  <2>4. Newer(N, StoredSeen(files))
    <3>1. CASE form.text = drawer.shown.text
      <4>1. \A z \in StoredSeen(files) : y.id = z.id => y.text >= z.text \/ AddedAgain(y.id, y.text)
        BY <1>3, <1>8, <2>1 DEF NewerContent, Newer
      <4>2. x.id = y.id /\ x.text = y.text
        BY <1>7, <3>1
      <4> QED BY <1>9, <4>1, <4>2 DEF Newer
    <3>2. CASE \A z \in Held : z.id = form.id => z.text <= form.text
      <4>1. \A z \in StoredSeen(files) : z \in Held /\ z.text \in 0..clock
        BY <2>1 DEF Held, Dated
      <4>2. \A z \in StoredSeen(files) : z.id = x.id => x.text >= z.text
        BY <1>7, <2>2, <3>2, <4>1
      <4> QED BY <1>9, <4>2 DEF Newer
    <3> QED BY <2>2, <3>1, <3>2
  <2>5. FormNew(drawer, Held \cup N, clock)
    <3>1. \A z \in N : z.text <= form.text
      BY <1>7, <1>9, <2>2
    <3> QED BY <1>2, <2>1, <3>1 DEF FormNew, form
  <2> QED BY <2>3, <2>4, <2>5
<1>13. FormInv(drawer)
  BY DEF KeptInv
<1> QED BY <1>1, <1>3, <1>6, <1>11, <1>12, <1>13, UpdateHolds

\* Submitting the wizard.
LEMMA NewScenarioHolds ==
    ASSUME EditorInv, EditorInv', ViewInv, ViewInv', KeptInv,
           NEW risks \in WizardRisks, SubmitNewScenario(risks)
    PROVE  KeptInv'
<1> DEFINE form == [drawer.form EXCEPT !.risk = risks.risk,
                                       !.remainingRisk = risks.remainingRisk]
           actions == getActionsWithLastUpdated(<<>>, form.actions, FALSE, clock)
           new == [form EXCEPT !.actions = actions]
           d == [drawer EXCEPT !.form = form]
           c == WithNewScenarios(content, <<new>>)
           N == {Seen(new)}
<1>1. /\ drawer.step /\ Update(c, "closeScenarioForm", d)
      /\ UNCHANGED <<files, history, dialog, clock>>
  BY DEF SubmitNewScenario, Rest
<1>2. /\ drawer.form \in FormScenarios /\ content \in Contents /\ DrawerOK(drawer)
      /\ drawer.form.id = drawer.url
  BY <1>1, FormIsThere DEF EditorInv, PageInv, DrawerOK
<1>3. risks.risk \in FormRisks /\ risks.remainingRisk \in FormRisks
  BY EditorAssumption
<1>4. /\ form \in FormScenarios /\ form.id = drawer.form.id /\ form.text = drawer.form.text
      /\ form.actions = drawer.form.actions
  BY <1>2, <1>3, FormRisksAreRisks DEF FormScenarios, Scenarios
<1>5. d.step = drawer.step /\ d.form = form
  BY <1>2, DrawerShape
<1> HIDE DEF form, d
<1>6. clock \in Nat /\ content # None /\ content \in RiScDocuments /\ dialog = None
  <2>1. content # None /\ content \in RiScDocuments
    BY <1>2, FormNotNone DEF Contents
  <2> QED BY <1>1, <2>1 DEF EditorInv, DialogOK
<1>7. /\ actions \in Seq(Actions) /\ StampsOf(actions, form.actions, clock)
  BY <1>4, <1>6, FormParts, StampedActions, StampedList
<1> HIDE DEF actions
<1>8. new \in Scenarios /\ Seen(new) = Seen(form)
  BY <1>4, <1>7, FormActions, FormParts, SeenStamped
<1> HIDE DEF new
<1>9. c.text = content.text /\ SeenIn(c.scenarios) \subseteq ContentSeen(content) \cup N
  <2>1. <<new>> \in Seq(Scenarios) /\ SeenIn(<<new>>) = N
    BY <1>8 DEF SeenIn
  <2> DEFINE list == <<new>>
  <2> HIDE DEF list
  <2>2. /\ WithNewScenarios(content, list).text = content.text
        /\ SeenIn(WithNewScenarios(content, list).scenarios)
               \subseteq SeenIn(content.scenarios) \cup SeenIn(list)
    BY <1>6, <2>1, SeenAdded DEF list
  <2> QED BY <1>6, <2>1, <2>2 DEF ContentSeen, list
<1> HIDE DEF c
<1> DEFINE x == Seen(new)
<1>10. /\ x.id = NewScenario /\ x.text = drawer.form.text
       /\ x.actions = IdList(drawer.form.actions)
  <2>1. drawer.url = NewScenario
    BY <1>1 DEF ViewInv, NewIsNew
  <2> QED BY <1>2, <1>4, <1>8, <2>1, SeenIs
<1>11. N = {x}
  OBVIOUS
<1> HIDE DEF x, N
<1>12. Apart(x.actions) /\ FormInv(d)
  BY <1>1, <1>4, <1>5, <1>10 DEF KeptInv, FormInv
<1>13. ASSUME ~history.lost PROVE \A z \in Held : z.id # NewScenario
  <2>1. Quiet /\ page.update # "loading"
    BY <1>1 DEF Update, Saves, Quiet
  <2>2. NewScenario \notin Ids(content.scenarios) /\ table.scenarios = <<>>
        /\ NewScenario \notin Ids(ToShow(files).scenarios)
    BY <1>1, <1>13, <2>1 DEF ViewInv, NewIsNew, content, KeptInv, WizardInv
  <2>3. OldSeen(page) = {} /\ ContentSeen(dialog) = {}
    BY <1>6, <2>1 DEF OldSeen, ContentSeen
  <2>4. SeenIn(table.scenarios) = {} /\ RowsSeen(table) = {}
    <3>1. DOMAIN table.rows = {}
      BY <2>2 DEF EditorInv, TableOK, Ids
    <3> QED BY <2>2, <3>1 DEF SeenIn, RowsSeen
  <2>5. \A z \in ContentSeen(page.selected.content) : z.id # NewScenario
    BY <1>6, <2>2, SeenIs DEF ContentSeen, SeenIn, Ids, content
  <2>6. \A z \in StoredSeen(files) : z.id # NewScenario
    BY <2>2 DEF StoredSeen, Traits, Ids
  <2> QED BY <2>3, <2>4, <2>5, <2>6 DEF Held
<1>14. Fitting(N, Held)
  <2>1. \A z \in Held : Alike(x, z, history.lost)
    BY <1>10, <1>13 DEF Alike
  <2>2. Alike(x, x, history.lost)
    BY DEF Alike
  <2> QED BY <1>11, <1>12, <2>1, <2>2 DEF Fitting
<1>15. ASSUME Orderly
       PROVE  /\ Dated(N, clock) /\ Newer(N, StoredSeen(files))
              /\ FormNew(d, Held \cup N, clock)
  <2>1. drawer.form.text \in 0..clock
    BY <1>1, <1>15 DEF KeptInv, TextsInv, FormNew
  <2>2. Newer(N, StoredSeen(files))
    <3>1. StoredSeen(files) \subseteq Held
      BY DEF Held
    <3> QED BY <1>10, <1>11, <1>13, <1>15, <3>1 DEF Newer, Orderly
  <2> QED BY <1>1, <1>4, <1>5, <1>10, <1>11, <2>1, <2>2 DEF Dated, FormNew
<1> QED BY <1>1, <1>5, <1>6, <1>9, <1>12, <1>14, <1>15, UpdateHolds

\* Without drawer and wizard there is no form to be kept.
LEMMA NoForm ==
    ASSUME EditorInv, ~drawer.open, ~drawer.step, NEW S, NEW now
    PROVE  /\ DrawerOK(drawer) /\ FormInv(drawer) /\ FormNew(drawer, S, now)
BY DEF EditorInv, Follows, FormInv, FormNew

\* Submitting the dialog.
LEMMA DialogHolds ==
    ASSUME EditorInv, EditorInv', ViewInv, ViewInv', KeptInv, NEW appliesTo, SubmitDialog(appliesTo)
    PROVE  KeptInv'
<1> DEFINE c == [dialog EXCEPT !.text = Now, !.appliesTo = appliesTo]
           N == {}
<1>1. /\ Show(UpdateRiSc(page.selected, c, Now, "nothing"), table, drawer)
      /\ dialog # None /\ Quiet /\ UNCHANGED <<files, history>> /\ dialog' = None
      /\ clock' = clock + 1 /\ Now = clock'
  BY DEF SubmitDialog, Saves, Edits, Now
<1>2. /\ dialog \in RiScDocuments /\ content # None /\ ~drawer.open /\ ~drawer.step
      /\ clock \in Nat
  BY <1>1 DEF EditorInv, DialogOK, OrNone, Contents
<1>3. c.text = clock' /\ c.scenarios = dialog.scenarios
  BY <1>1, <1>2 DEF RiScDocuments
<1>4. N = {}
  OBVIOUS
<1> HIDE DEF c, N
<1>5. Fitting(N, Held) /\ ContentSeen(page.selected.content) \subseteq Held
  BY <1>4, NothingFits DEF Held
<1>6. SeenIn(c.scenarios) \subseteq Held \cup N
  <2>1. ContentSeen(dialog) \subseteq Held
    BY DEF Held
  <2> QED BY <1>1, <1>3, <2>1 DEF ContentSeen
<1>7. Sends(page.selected, c, drawer, N) /\ UniqueIds(c.scenarios)
  BY <1>1, <1>5, <1>6, SaveSends
<1>8. DrawerOK(drawer) /\ FormInv(drawer) /\ FormNew(drawer, Held \cup N, clock')
  BY <1>2, NoForm
<1>9. ASSUME Orderly' PROVE SendsNew(page.selected, c, drawer, N)
  <2>1. Orderly
    BY <1>1, <1>9 DEF Orderly
  <2>2. NewerContent(dialog) /\ ToShow(files).text \in 0..clock
    BY <1>1, <2>1 DEF KeptInv, TextsInv, NewerInv, DocumentsDated
  <2>3. c # None
    BY <1>7 DEF Sends, SavesOver
  <2>4. ContentSeen(c) = ContentSeen(dialog)
    BY <1>1, <1>3, <2>3 DEF ContentSeen
  <2>5. c.text >= ToShow(files).text /\ c.text \in 0..clock'
    BY <1>1, <1>2, <1>3, <2>2
  <2>6. NewerContent(c)
    BY <1>1, <2>2, <2>4, <2>5 DEF NewerContent
  <2> QED BY <1>2, <1>4, <1>8, <2>5, <2>6 DEF SendsNew, Dated, content
<1>10. UniqueSelection(page.selected)
  BY DEF ViewInv, UniquePage
<1>11. history'.lost = history.lost /\ (history'.orderly => history.orderly)
       /\ dialog' = None /\ clock' = clock + 1
  BY <1>1
<1>12. drawer.step => drawer.step
  OBVIOUS
<1> QED BY <1>7, <1>8, <1>9, <1>10, <1>11, <1>12, SavingKeeps

\* Dropping a row.
LEMMA DroppingHolds ==
    ASSUME EditorInv, EditorInv', ViewInv, ViewInv', HistoryShape, KeptInv, NEW id, DropRow(id)
    PROVE  KeptInv'
<1> DEFINE row == table.rows[id]
           c == [row.content EXCEPT !.scenarios = table.scenarios]
           orderly == history.orderly /\ row = page.selected
           parted == history.parted \/ table.early \/ (row # page.selected /\ Refused)
           N == {}
<1>1. /\ id \in DOMAIN table.rows /\ AtTable /\ Quiet
      /\ Show(UpdateRiSc(row, c, table.objects, "nothing"), table, drawer)
      /\ history' = [history EXCEPT !.orderly = orderly, !.parted = parted]
      /\ UNCHANGED <<files, dialog, clock>>
  BY DEF DropRow, Saves
<1>2. SelectionOK(row) /\ row.content # None /\ UniqueSelection(row)
  BY <1>1 DEF EditorInv, TableOK, ViewInv, UniqueTable
<1>3. row.content \in RiScDocuments
  BY <1>2 DEF SelectionOK, OrNone, Contents
<1>4. c.scenarios = table.scenarios /\ c.text = row.content.text
  BY <1>3 DEF RiScDocuments
<1>5. orderly => history.orderly /\ row.content = content
  BY DEF content
<1>6. ContentSeen(row.content) \subseteq Held
  <2>1. ContentSeen(table.rows[id].content) \subseteq RowsSeen(table)
    BY <1>1 DEF RowsSeen
  <2> QED BY <2>1 DEF Held
<1>7. N = {}
  OBVIOUS
<1> HIDE DEF row, c, orderly, parted, N
<1>8. (history'.orderly => orderly) /\ history'.lost = history.lost
  <2>1. DOMAIN history = {"orderly", "parted", "lost", "covered"}
    BY DEF HistoryShape
  <2>2. history'.orderly = orderly /\ history'.lost = history.lost
    BY <1>1, <2>1
  <2> QED BY <2>2, Zenon
<1>9. content # None /\ ~drawer.open /\ ~drawer.step /\ dialog' = None /\ dialog = None
  BY <1>1 DEF AtTable
<1>10. SeenIn(c.scenarios) \subseteq Held \cup N /\ Fitting(N, Held)
  BY <1>4, <1>7, NothingFits DEF Held
<1>11. Sends(row, c, drawer, N) /\ UniqueIds(c.scenarios)
  <2>1. files' = files /\ (dialog' = dialog \/ dialog' = None)
    BY <1>1
  <2> QED BY <1>1, <1>6, <1>10, <2>1, SaveSends
<1>12. DrawerOK(drawer) /\ FormInv(drawer) /\ FormNew(drawer, Held \cup N, clock')
  BY <1>9, NoForm
<1>13. ASSUME Orderly' PROVE SendsNew(row, c, drawer, N)
  <2>1. Orderly /\ row.content = content
    BY <1>5, <1>8, <1>13 DEF Orderly
  <2>2. /\ NewerContent(content) /\ content.text \in 0..clock
        /\ Newer(SeenIn(table.scenarios), StoredSeen(files))
    BY <1>1, <1>9, <2>1 DEF KeptInv, TextsInv, NewerInv, DocumentsDated
  <2>3. NewerContent(c)
    <3>1. c.text >= ToShow(files).text
      BY <1>4, <1>9, <2>1, <2>2 DEF NewerContent
    <3>2. c # None => ContentSeen(c) = SeenIn(table.scenarios)
      BY <1>4 DEF ContentSeen
    <3> QED BY <2>2, <3>1, <3>2 DEF NewerContent
  <2>4. c.text \in 0..clock'
    BY <1>1, <1>4, <2>1, <2>2
  <2> QED BY <1>7, <1>9, <1>12, <2>1, <2>3, <2>4 DEF SendsNew, Dated, content
<1>14. history'.lost = history.lost /\ (history'.orderly => history.orderly) /\ clock' = clock
  BY <1>1, <1>5, <1>8
<1>15. drawer.step => drawer.step
  OBVIOUS
<1> QED BY <1>2, <1>9, <1>11, <1>12, <1>13, <1>14, <1>15, SavingKeeps

-----------------------------------------------------------------------------
(* Answers.                                                                *)

\* Without a save under way the page is rendered with what was held.
LEMMA RenderedKeeps ==
    ASSUME EditorInv, EditorInv', ViewInv, ViewInv', KeptInv, NEW p, NEW d, Show(p, table, d),
           p.update # "loading", p.selected.content # None,
           ContentSeen(p.selected.content) \subseteq Held, ToShow(files') = ToShow(files),
           dialog' = dialog, clock' = clock, history'.lost = history.lost,
           history'.orderly => history.orderly,
           d.step \/ DrawerOK(d), FormInv(d), Orderly => FormNew(d, Held, clock),
           d.step /\ ~history.lost => NewScenario \notin Ids(ToShow(files).scenarios),
           p.update = "success" \/ Quiet \/ page.request.answer # "ok",
           Orderly => /\ NewerContent(p.selected.content)
                      /\ p.selected.content.text \in 0..clock
    PROVE  KeptInv'
<1>1. page' = p /\ drawer' = ScenarioDrawer(d, p) /\ table' = ScenarioTable(table, p, drawer')
  BY DEF Show
<1>2. PageOK(p) /\ UniquePage(p)
  BY <1>1 DEF EditorInv, ViewInv, PageOK, UniquePage, UniqueSelection
<1>3. TableFrom(table', table, p) /\ TakesOver(table', p) /\ (drawer'.step => table'.scenarios = <<>>)
  BY <1>2, ShowsTable
<1>4. Held' \subseteq Held
  <2>1. Held' = StoredSeen(files') \cup ContentSeen(page'.selected.content) \cup OldSeen(page')
                \cup SeenIn(table'.scenarios) \cup RowsSeen(table') \cup ContentSeen(dialog')
    BY DEF Held, StoredSeen, OldSeen, SeenIn, RowsSeen, ContentSeen
  <2>2. OldSeen(page') = {} /\ StoredSeen(files') = StoredSeen(files)
    BY <1>1 DEF OldSeen, StoredSeen
  <2>3. /\ StoredSeen(files) \subseteq Held /\ SeenIn(table.scenarios) \subseteq Held
        /\ RowsSeen(table) \subseteq Held /\ ContentSeen(dialog) \subseteq Held
    BY DEF Held
  <2>4. ContentSeen(dialog') = ContentSeen(dialog)
    OBVIOUS
  <2> QED BY <1>1, <1>3, <2>1, <2>2, <2>3, <2>4 DEF TableFrom
<1>5. HeldInv'
  <2> DEFINE N == {}
  <2>1. N = {}
    OBVIOUS
  <2> HIDE DEF N
  <2>2. Held' \subseteq Held \cup N /\ Fitting(N, Held)
    BY <1>4, <2>1, NothingFits
  <2> QED BY <2>2, HeldInvStays DEF KeptInv
<1>6. FormInv(drawer)'
  <2>1. \A x \in ContentSeen(p.selected.content) : Apart(x.actions)
    BY DEF KeptInv, HeldInv
  <2>2. FormInv(drawer')
    BY <1>1, <1>2, <2>1, FormInvStays
  <2> QED BY <2>2 DEF FormInv
<1>7. WizardInv'
  <2>1. drawer'.step => d.step
    BY <1>1, WizardStays
  <2> QED BY <1>3, <2>1 DEF WizardInv
<1>8. ASSUME Orderly' PROVE TextsInv'
  <2>1. Orderly /\ TextsInv /\ clock \in Nat
    BY <1>8 DEF Orderly, KeptInv, EditorInv
  <2>2. Dated(Held', clock)
    BY <1>4, <2>1 DEF TextsInv, Dated
  <2>3. FormNew(drawer', Held', clock)
    <3>1. Dated(ContentSeen(p.selected.content), clock) /\ FormNew(d, Held, clock)
      BY <2>1 DEF TextsInv, Dated
    <3>2. FormNew(drawer', Held, clock)
      BY <1>1, <1>2, <2>1, <3>1, FormNewStays
    <3> QED BY <1>4, <3>2 DEF FormNew
  <2>4. Quiet' /\ content' = p.selected.content /\ StoredSeen(files') = StoredSeen(files)
    BY <1>1 DEF Quiet, content, StoredSeen
  <2>5. DocumentsDated'
    BY <2>1, <2>4 DEF TextsInv, DocumentsDated
  <2>6. Newer(SeenIn(table'.scenarios), StoredSeen(files))
    <3>1. Newer(ContentSeen(p.selected.content), StoredSeen(files))
      BY <2>1 DEF NewerContent
    <3>2. CASE p.update = "success"
      BY <1>3, <3>1, <3>2 DEF TakesOver, Newer
    <3>3. CASE Quiet \/ page.request.answer # "ok"
      <4>1. Newer(SeenIn(table.scenarios), StoredSeen(files))
        BY <2>1, <3>3 DEF TextsInv, NewerInv
      <4> QED BY <1>3, <3>1, <4>1 DEF TableFrom, Newer
    <3> QED BY <3>2, <3>3
  <2>7. NewerContent(p.selected.content)
    BY <2>1
  <2>8. dialog # None => NewerContent(dialog)
    BY <2>1 DEF TextsInv, NewerInv
  <2>9. NewerContent(content)'
    BY <2>4, <2>7 DEF NewerContent, Newer, ContentSeen
  <2>10. (dialog # None => NewerContent(dialog))'
    BY <2>4, <2>8 DEF NewerContent, Newer, ContentSeen
  <2>11. Newer(SeenIn(table.scenarios), StoredSeen(files))'
    BY <2>4, <2>6 DEF Newer, SeenIn, StoredSeen
  <2>12. NewerInv'
    BY <2>4, <2>9, <2>10, <2>11 DEF NewerInv
  <2>13. Dated(Held, clock)' /\ FormNew(drawer, Held, clock)'
    BY <2>2, <2>3 DEF Dated, FormNew
  <2> QED BY <2>5, <2>12, <2>13 DEF TextsInv
<1> QED BY <1>5, <1>6, <1>7, <1>8 DEF KeptInv

\* Nothing is older than itself, where each id is there once.
LEMMA NotOlder ==
    ASSUME NEW items, UniqueIds(items), NEW version,
           \A i \in DOMAIN items : items[i].text \in Nat
    PROVE  LET S == {Traits(items[i], version) : i \in DOMAIN items} IN Newer(S, S)
<1> DEFINE S == {Traits(items[i], version) : i \in DOMAIN items}
<1>1. ASSUME NEW x \in S, NEW y \in S, x.id = y.id PROVE x.text >= y.text
  <2>1. PICK i \in DOMAIN items : x = Traits(items[i], version)
    OBVIOUS
  <2>2. PICK j \in DOMAIN items : y = Traits(items[j], version)
    OBVIOUS
  <2>3. /\ x.id = items[i].id /\ y.id = items[j].id
        /\ x.text = items[i].text /\ y.text = items[j].text
    BY <2>1, <2>2 DEF Traits
  <2>4. i = j
    BY <1>1, <2>3 DEF UniqueIds
  <2> QED BY <2>3, <2>4
<1> QED BY <1>1 DEF Newer

\* Fetching.
LEMMA FetchingHolds ==
    ASSUME EditorInv, EditorInv', TableInv, ViewInv', KeptInv, FetchRiScs PROVE KeptInv'
<1> DEFINE p == [page EXCEPT !.selected = Selected(files)]
<1>0. /\ PageOK(page) /\ FilesOK /\ DrawerOK(drawer) /\ Follows(drawer, page) /\ ViewInv
      /\ DialogOK /\ UniqueFiles
  BY DEF EditorInv, TableInv
<1>1. /\ page.selected.content = None /\ ~Fetched(files).failed
      /\ UNCHANGED <<history, files, dialog, clock>> /\ Show(p, table, drawer)
  BY DEF FetchRiScs
<1>2. p.selected = Selected(files) /\ p.update = page.update /\ page' = p
  BY <1>0, <1>1 DEF PageOK, Show
<1> HIDE DEF p
<1>3. ~drawer.open /\ ~drawer.step /\ p.update # "loading" /\ Quiet
  BY <1>0, <1>1, <1>2 DEF Follows, PageOK, RequestOK, Quiet
<1> DEFINE new == p.selected.content
           old == ToShow(files)
<1>4. new = Fetched(files).doc
  BY <1>2 DEF Selected, dtoToRiSc
<1>5. new \in RiScDocuments /\ new.schemaVersion = latestSupportedVersion /\ new # None
  <2>1. Fetched(files).doc \in RiScDocuments
        /\ Fetched(files).doc.schemaVersion = latestSupportedVersion
    BY <1>0, <1>1, FetchedIsDocument DEF FilesOK, Docs
  <2> QED BY <1>4, <2>1, FormNotNone
<1>6. new.text = old.text /\ ContentSeen(new) = StoredSeen(files)
  <2>1. {files.published, files.draft} \ {None} \subseteq RiScDocuments /\ old # None
    BY <1>0 DEF FilesOK, Docs
  <2>2. /\ Fetched(files).doc.text = old.text
        /\ SeenIn(Fetched(files).doc.scenarios)
               = {Traits(old.scenarios[i], old.schemaVersion) : i \in DOMAIN old.scenarios}
    BY <1>1, <1>4, <1>5, <2>1, FetchedIsSeen
  <2> QED BY <1>4, <1>5, <2>2 DEF ContentSeen, StoredSeen
<1> HIDE DEF new
<1>7. ContentSeen(new) \subseteq Held
  BY <1>6 DEF Held
<1>8. DrawerOK(drawer) /\ FormInv(drawer) /\ FormNew(drawer, Held, clock)
  BY <1>3, NoForm
<1>9. ASSUME Orderly PROVE NewerContent(new) /\ new.text \in 0..clock
  <2>1. old \in Docs /\ old \in RiScDocuments
    BY <1>0 DEF FilesOK, Docs, ToShow
  <2>2. UniqueIds(old.scenarios)
    BY <1>0, <2>1 DEF UniqueFiles
  <2>3. \A i \in DOMAIN old.scenarios : old.scenarios[i].text \in Nat
    <3> HIDE DEF old
    <3>1. \A i \in DOMAIN old.scenarios : old.scenarios[i] \in Scenarios
      BY <2>1, ContentParts
    <3> QED BY <3>1 DEF Scenarios
  <2>4. Newer(StoredSeen(files), StoredSeen(files))
    BY <2>2, <2>3, NotOlder DEF StoredSeen
  <2>5. old.text \in 0..clock /\ clock \in Nat
    BY <1>9 DEF KeptInv, TextsInv, DocumentsDated, EditorInv
  <2>6. new.text >= old.text
    BY <1>6, <2>5
  <2> QED BY <1>6, <2>4, <2>5, <2>6 DEF NewerContent
<1>10. /\ ToShow(files') = ToShow(files) /\ dialog' = dialog /\ clock' = clock
       /\ history'.lost = history.lost /\ (history'.orderly => history.orderly)
  BY <1>1
<1> QED BY <1>0, <1>1, <1>3, <1>5, <1>7, <1>8, <1>9, <1>10, RenderedKeeps DEF new

\* Without drawer and wizard, a page that is the same but for its status.
LEMMA ApprovingHolds ==
    ASSUME EditorInv, EditorInv', ViewInv, ViewInv', HistoryShape, KeptInv, ApproveRiSc
    PROVE  KeptInv'
<1>0. PageOK(page) /\ FilesOK
  BY DEF EditorInv
<1>1. AtTable /\ Quiet /\ UNCHANGED <<dialog, clock>>
  BY DEF ApproveRiSc
<1>2. content # None /\ ~drawer.open /\ ~drawer.step
  BY <1>1 DEF AtTable
<1>3. ASSUME NEW p, Show(p, table, drawer), p.update # "loading",
             p.selected.content = page.selected.content, ToShow(files') = ToShow(files),
             history'.lost = history.lost, history'.orderly = history.orderly
      PROVE  KeptInv'
  <2>1. p.selected.content # None /\ ContentSeen(p.selected.content) \subseteq Held
    BY <1>2, <1>3 DEF content, Held
  <2>2. DrawerOK(drawer) /\ FormInv(drawer) /\ FormNew(drawer, Held, clock)
    BY <1>2, NoForm
  <2>3. Orderly => NewerContent(p.selected.content) /\ p.selected.content.text \in 0..clock
    BY <1>2, <1>3 DEF KeptInv, TextsInv, NewerInv, DocumentsDated, content
  <2>4. history'.orderly => history.orderly
    BY <1>3
  <2> QED BY <1>1, <1>2, <1>3, <2>1, <2>2, <2>3, <2>4, RenderedKeeps
<1>4. CASE files.pr
  <2> DEFINE p == [page EXCEPT !.update = "error"]
  <2>1. Show(p, table, drawer) /\ UNCHANGED <<files, history>>
    BY <1>4 DEF ApproveRiSc
  <2>2. p.selected = page.selected /\ p.update = "error"
    BY <1>0 DEF PageOK
  <2> HIDE DEF p
  <2> QED BY <1>3, <2>1, <2>2
<1>5. CASE ~files.pr
  <2> DEFINE p == [page EXCEPT !.update = "success", !.selected.status = "SentForApproval"]
             pr == files.draft # None
  <2>1. /\ Show(p, table, drawer) /\ files' = [files EXCEPT !.pr = pr]
        /\ history' = [history EXCEPT !.covered = files.draft]
    BY <1>5 DEF ApproveRiSc
  <2>2. p.selected.content = page.selected.content
    BY <1>0, SentPage
  <2>3. p.update = "success"
    BY <1>0 DEF PageOK
  <2> HIDE DEF p, pr
  <2>4. ToShow(files') = ToShow(files)
    <3>1. files'.published = files.published /\ files'.draft = files.draft
      BY <1>0, <2>1 DEF FilesOK
    <3> QED BY <3>1 DEF ToShow
  <2>5. history'.lost = history.lost /\ history'.orderly = history.orderly
    BY <2>1 DEF HistoryShape
  <2> QED BY <1>3, <2>1, <2>2, <2>3, <2>4, <2>5
<1> QED BY <1>4, <1>5

\* The form after the callbacks.
LEMMA AfterKeeps ==
    ASSUME EditorInv, KeptInv, NEW request
    PROVE  LET d == After(drawer, request)
           IN  /\ FormInv(d) /\ (Orderly => FormNew(d, Held, clock))
               /\ d.step => drawer.step /\ request.after # "closeScenarioForm"
<1> DEFINE d == After(drawer, request)
<1>1. DrawerOK(drawer)
  BY DEF EditorInv
<1>2. CASE d = Closed
  <2>1. d.step = FALSE /\ d.shown = None
    BY <1>2 DEF Closed
  <2> HIDE DEF d
  <2>2. FormInv(d) /\ FormNew(d, Held, clock)
    BY <2>1 DEF FormInv, FormNew
  <2> QED BY <2>1, <2>2 DEF d
<1>3. CASE d # Closed
  <2>1. d \in {drawer, [drawer EXCEPT !.editing = FALSE], [drawer EXCEPT !.url = None]}
        /\ (request.after = "closeScenarioForm" => ~drawer.step)
    BY <1>3 DEF After
  <2>2. d.step = drawer.step /\ d.form = drawer.form /\ d.shown = drawer.shown
    BY <1>1, <2>1, DrawerShape
  <2> HIDE DEF d
  <2>3. FormInv(d) /\ (Orderly => FormNew(d, Held, clock))
    BY <2>2, SameFormKeeps
  <2> QED BY <2>1, <2>2, <2>3 DEF d
<1> QED BY <1>2, <1>3

\* A save that succeeds,
LEMMA SavedHolds ==
    ASSUME EditorInv, EditorInv', ViewInv, ViewInv', KeptInv, OnSaved PROVE KeptInv'
<1> DEFINE p == [selected |-> page.request.new, update |-> "success", request |-> None]
           d == After(drawer, page.request)
<1>1. /\ ~Quiet /\ page.request.answer = "ok" /\ Show(p, table, d)
      /\ UNCHANGED <<files, dialog, history, clock>>
  BY DEF OnSaved, Rest, Still
<1>2. p.selected = page.request.new /\ p.update = "success"
  OBVIOUS
<1> HIDE DEF p
<1>3. page.request.new = page.selected /\ content # None
  BY <1>1 DEF EditorInv, PageOK, RequestOK, Quiet, content
<1>4. p.selected.content = content /\ ContentSeen(p.selected.content) \subseteq Held
  BY <1>2, <1>3 DEF content, Held
<1>5. DrawerOK(d)
  BY AfterAnswer DEF EditorInv
<1>6. /\ FormInv(d) /\ (Orderly => FormNew(d, Held, clock))
      /\ d.step => drawer.step /\ page.request.after # "closeScenarioForm"
  BY AfterKeeps
<1> HIDE DEF d
<1>7. d.step /\ ~history.lost => NewScenario \notin Ids(ToShow(files).scenarios)
  BY <1>6 DEF KeptInv, WizardInv
<1>8. Orderly => NewerContent(p.selected.content) /\ p.selected.content.text \in 0..clock
  BY <1>3, <1>4 DEF KeptInv, TextsInv, NewerInv, DocumentsDated
<1>9. history'.lost = history.lost /\ (history'.orderly => history.orderly)
      /\ ToShow(files') = ToShow(files) /\ dialog' = dialog /\ clock' = clock
  BY <1>1
<1> QED BY <1>1, <1>2, <1>3, <1>4, <1>5, <1>6, <1>7, <1>8, <1>9, RenderedKeeps

\* and one that fails.
LEMMA TakenBackHolds ==
    ASSUME EditorInv, EditorInv', ViewInv, ViewInv', HistoryShape, KeptInv, OnError
    PROVE  KeptInv'
<1> DEFINE p == [selected |-> page.request.old, update |-> "error", request |-> None]
           parted == history.parted \/ ~history.orderly
<1>1. /\ ~Quiet /\ page.request.answer = "error" /\ Show(p, table, drawer)
      /\ history' = [history EXCEPT !.parted = parted] /\ UNCHANGED <<files, dialog, clock>>
  BY DEF OnError
<1>2. p.selected = page.request.old /\ p.update = "error"
  OBVIOUS
<1> HIDE DEF p, parted
<1>3. page.request.old.content # None /\ page.update = "loading"
  BY <1>1 DEF EditorInv, PageOK, RequestOK, Quiet
<1>4. p.selected.content # None /\ ContentSeen(p.selected.content) \subseteq Held
  BY <1>2, <1>3 DEF Held, OldSeen
<1>5. history'.lost = history.lost /\ history'.orderly = history.orderly
  BY <1>1 DEF HistoryShape
<1>6. DrawerOK(drawer) /\ FormInv(drawer) /\ (Orderly => FormNew(drawer, Held, clock))
  BY DEF EditorInv, KeptInv, TextsInv
<1>7. drawer.step /\ ~history.lost => NewScenario \notin Ids(ToShow(files).scenarios)
  BY <1>1 DEF KeptInv, WizardInv
<1>8. Orderly => NewerContent(p.selected.content) /\ p.selected.content.text \in 0..clock
  BY <1>1, <1>2 DEF KeptInv, TextsInv, NewerInv, DocumentsDated
<1>9. (history'.orderly => history.orderly)
      /\ ToShow(files') = ToShow(files) /\ dialog' = dialog /\ clock' = clock
  BY <1>1, <1>5
<1> QED BY <1>1, <1>2, <1>4, <1>5, <1>6, <1>7, <1>8, <1>9, RenderedKeeps

\* An answer that is on its way changes the request only.
LEMMA AnsweredRequest ==
    ASSUME EditorInv, ~Quiet, NEW answer, page' = [page EXCEPT !.request.answer = answer]
    PROVE  /\ page'.selected = page.selected /\ page'.update = page.update
           /\ page'.request.answer = answer /\ page'.request.old = page.request.old
           /\ page'.request.after = page.request.after
           /\ content' = content /\ ~Quiet' /\ OldSeen(page') = OldSeen(page)
<1>1. PageOK(page) /\ RequestOK(page.request, page.selected)
  BY DEF EditorInv, PageOK, Quiet
<1>2. /\ page'.selected = page.selected /\ page'.update = page.update
      /\ page'.request = [page.request EXCEPT !.answer = answer]
  BY <1>1 DEF PageOK
<1>3. /\ page'.request.answer = answer /\ page'.request.old = page.request.old
      /\ page'.request.after = page.request.after
  BY <1>1, <1>2 DEF RequestOK
<1> QED BY <1>2, <1>3 DEF content, Quiet, OldSeen

\* What is stored by an answer is what the page shows.
LEMMA ServedSeen ==
    ASSUME EditorInv, ViewInv, Serve
    PROVE  \/ files' = files
           \/ /\ StoredSeen(files') = ContentSeen(content)
              /\ Ids(ToShow(files').scenarios) = Ids(content.scenarios)
              /\ ToShow(files').text = content.text
              /\ content \in RiScDocuments /\ UniqueIds(content.scenarios)
<1> DEFINE body == page.request.body
<1>1. ~Quiet /\ files' = IF Valid(body) THEN Stored(files, page.request) ELSE files
  BY DEF Serve
<1>2. body = riScToDTO(content) /\ content # None
  BY <1>1 DEF EditorInv, PageOK, RequestOK, Quiet, content
<1>3. /\ content \in RiScDocuments /\ UniqueIds(content.scenarios)
      /\ content.schemaVersion = latestSupportedVersion
  BY <1>2, ContentIsUnique, ContentIsOne DEF EditorInv, Contents
<1>4. CASE ~Valid(body)
  BY <1>1, <1>4
<1>5. CASE Valid(body)
  <2>1. files'.draft = body
    BY <1>1, <1>5 DEF Stored, EditorInv, FilesOK
  <2>2. /\ body.text = content.text /\ body.schemaVersion = latestSupportedVersion
        /\ SeenIn(body.scenarios) = SeenIn(content.scenarios)
    BY <1>2, <1>3, SentIsSeen
  <2>3. Ids(body.scenarios) = Ids(content.scenarios)
    <3>1. SameIds(content, riScToDTO(content))
      BY <1>3, DTOKeepsIds
    <3> QED BY <1>2, <3>1 DEF SameIds, Ids
  <2>4. body # None
    <3>1. body \in RiScDocuments
      BY <1>2, <1>3, DTODocument
    <3> QED BY <3>1, FormNotNone
  <2> HIDE DEF body
  <2>5. ToShow(files') = body
    BY <2>1, <2>4 DEF ToShow
  <2>6. StoredSeen(files') = SeenIn(body.scenarios)
    BY <2>2, <2>5 DEF StoredSeen, SeenIn, Seen
  <2> QED BY <1>2, <1>3, <2>2, <2>3, <2>5, <2>6 DEF ContentSeen
<1> QED BY <1>4, <1>5

\* The service answers.
LEMMA ServingHolds ==
    ASSUME EditorInv, EditorInv', ViewInv, KeptInv, Serve PROVE KeptInv'
<1>1. /\ ~Quiet /\ page.request.answer = "none"
      /\ page' = [page EXCEPT !.request.answer = "ok"]
      /\ UNCHANGED <<table, drawer, dialog, clock, history>>
  BY DEF Serve
<1>2. /\ page'.selected = page.selected /\ page'.update = page.update
      /\ page'.request.answer = "ok" /\ page'.request.old = page.request.old
      /\ page'.request.after = page.request.after
      /\ content' = content /\ ~Quiet' /\ OldSeen(page') = OldSeen(page)
  BY <1>1, AnsweredRequest
<1>3. \/ files' = files
      \/ /\ StoredSeen(files') = ContentSeen(content)
         /\ Ids(ToShow(files').scenarios) = Ids(content.scenarios)
         /\ ToShow(files').text = content.text
         /\ content \in RiScDocuments /\ UniqueIds(content.scenarios)
  BY ServedSeen
<1>4. content # None
  BY <1>1 DEF EditorInv, PageOK, RequestOK, Quiet, content
<1>5. Held' \subseteq Held
  <2>1. Held' = StoredSeen(files') \cup ContentSeen(page'.selected.content) \cup OldSeen(page')
                \cup SeenIn(table'.scenarios) \cup RowsSeen(table') \cup ContentSeen(dialog')
    BY DEF Held, StoredSeen, OldSeen, SeenIn, RowsSeen, ContentSeen
  <2>2. StoredSeen(files') \subseteq StoredSeen(files) \cup ContentSeen(content)
    BY <1>3
  <2> QED BY <1>1, <1>2, <2>1, <2>2 DEF Held, content
<1>6. HeldInv'
  <2> DEFINE N == {}
  <2>1. N = {}
    OBVIOUS
  <2> HIDE DEF N
  <2>2. Held' \subseteq Held \cup N /\ Fitting(N, Held)
    BY <1>5, <2>1, NothingFits
  <2> QED BY <1>1, <2>2, HeldInvStays DEF KeptInv
<1>7. FormInv(drawer)'
  BY <1>1 DEF KeptInv, FormInv
<1>8. WizardInv'
  <2>1. drawer.step => table.scenarios = <<>>
    BY DEF KeptInv, WizardInv
  <2>2. ASSUME drawer.step, ~history.lost, page.request.after # "closeScenarioForm"
        PROVE  NewScenario \notin Ids(ToShow(files').scenarios)
    <3>1. NewScenario \notin Ids(ToShow(files).scenarios)
      BY <2>2 DEF KeptInv, WizardInv
    <3>2. NewScenario \notin Ids(content.scenarios)
      BY <1>1, <2>2 DEF ViewInv, NewIsNew, Quiet, content
    <3> QED BY <1>3, <3>1, <3>2
  <2> QED BY <1>1, <1>2, <2>1, <2>2 DEF WizardInv
<1>9. ASSUME Orderly' PROVE TextsInv'
  <2>1. Orderly /\ TextsInv /\ clock \in Nat
    BY <1>1, <1>9 DEF Orderly, KeptInv, EditorInv
  <2>2. Dated(Held', clock) /\ FormNew(drawer, Held', clock)
    BY <1>5, <2>1 DEF TextsInv, Dated, FormNew
  <2>3. /\ content.text \in 0..clock /\ ToShow(files).text \in 0..clock
        /\ page.request.old.content.text \in 0..clock
    BY <1>1, <1>4, <2>1 DEF TextsInv, DocumentsDated
  <2>4. DocumentsDated'
    <3>1. ToShow(files').text \in 0..clock
      BY <1>3, <2>3
    <3> QED BY <1>1, <1>2, <2>3, <3>1 DEF DocumentsDated
  <2>5. /\ Newer(ContentSeen(content), StoredSeen(files'))
        /\ content.text >= ToShow(files').text
    <3>1. CASE files' = files
      BY <1>4, <2>1, <3>1 DEF TextsInv, NewerInv, NewerContent, StoredSeen
    <3>2. CASE files' # files
      <4>1. \A i \in DOMAIN content.scenarios : content.scenarios[i].text \in Nat
        <5>1. \A i \in DOMAIN content.scenarios : content.scenarios[i] \in Scenarios
          BY <1>3, <3>2, ContentParts
        <5> QED BY <5>1 DEF Scenarios
      <4>2. Newer(SeenIn(content.scenarios), SeenIn(content.scenarios))
        BY <1>3, <3>2, <4>1, NotOlder DEF SeenIn, Seen
      <4>3. content.text >= content.text
        BY <2>1, <2>3
      <4> QED BY <1>3, <1>4, <3>2, <4>2, <4>3 DEF ContentSeen
    <3> QED BY <3>1, <3>2
  <2>6. NewerContent(content)'
    BY <1>2, <2>5 DEF NewerContent, Newer, ContentSeen
  <2>7. (dialog # None => NewerContent(dialog) /\ (~Quiet => dialog = content))'
    <3>1. dialog # None => dialog = content
      BY <1>1, <2>1 DEF TextsInv, NewerInv
    <3>2. dialog' # None => dialog' = content'
      BY <1>1, <1>2, <3>1
    <3>3. Newer(ContentSeen(content'), StoredSeen(files')) /\ content'.text >= ToShow(files').text
      BY <1>2, <2>5
    <3> QED BY <3>2, <3>3 DEF NewerContent, Newer, ContentSeen
  <2>8. NewerInv'
    <3>1. (Quiet \/ page.request.answer # "ok")' = FALSE
      BY <1>2
    <3> QED BY <1>2, <2>6, <2>7 DEF NewerInv
  <2>9. Dated(Held, clock)' /\ FormNew(drawer, Held, clock)'
    BY <1>1, <2>2 DEF Dated, FormNew
  <2> QED BY <2>4, <2>8, <2>9 DEF TextsInv
<1> QED BY <1>6, <1>7, <1>8, <1>9 DEF KeptInv

\* A request fails.
LEMMA FailingHolds ==
    ASSUME EditorInv, EditorInv', HistoryShape, KeptInv, Fail PROVE KeptInv'
<1> DEFINE lost == history.lost \/ page.request.answer = "ok"
<1>1. /\ ~Quiet /\ page' = [page EXCEPT !.request.answer = "error"]
      /\ UNCHANGED <<files, table, drawer, dialog, clock>>
      /\ history' = [history EXCEPT !.lost = lost]
  BY DEF Fail
<1>2. /\ page'.selected = page.selected /\ page'.update = page.update
      /\ page'.request.answer = "error" /\ page'.request.old = page.request.old
      /\ page'.request.after = page.request.after
      /\ content' = content /\ ~Quiet' /\ OldSeen(page') = OldSeen(page)
  BY <1>1, AnsweredRequest
<1>3. ~lost => ~history.lost /\ page.request.answer # "ok"
  OBVIOUS
<1>4. history.lost => lost
  OBVIOUS
<1> HIDE DEF lost
<1>5. history'.lost = lost /\ history'.orderly = history.orderly
  BY <1>1 DEF HistoryShape
<1>12. /\ history.lost => history'.lost
       /\ ~history'.lost => ~history.lost /\ page.request.answer # "ok"
  <2>1. history'.lost = lost
    BY <1>5
  <2> QED BY <1>3, <1>4, <2>1, Zenon
<1>6. Held' = Held
  <2>1. Held' = StoredSeen(files') \cup ContentSeen(page'.selected.content) \cup OldSeen(page')
                \cup SeenIn(table'.scenarios) \cup RowsSeen(table') \cup ContentSeen(dialog')
    BY DEF Held, StoredSeen, OldSeen, SeenIn, RowsSeen, ContentSeen
  <2> QED BY <1>1, <1>2, <2>1 DEF Held
<1>7. HeldInv'
  <2> DEFINE N == {}
  <2>1. N = {}
    OBVIOUS
  <2> HIDE DEF N
  <2>2. Held' \subseteq Held \cup N /\ Fitting(N, Held)
    BY <1>6, <2>1, NothingFits
  <2> QED BY <1>12, <2>2, HeldInvStays DEF KeptInv
<1>8. FormInv(drawer)'
  BY <1>1 DEF KeptInv, FormInv
<1>9. WizardInv'
  <2>1. drawer.step => table.scenarios = <<>>
    BY DEF KeptInv, WizardInv
  <2>2. drawer.step /\ ~history'.lost => NewScenario \notin Ids(ToShow(files).scenarios)
    BY <1>12 DEF KeptInv, WizardInv
  <2> QED BY <1>1, <2>1, <2>2 DEF WizardInv
<1>10. ASSUME Orderly' PROVE TextsInv'
  <2>1. Orderly /\ TextsInv /\ page.request.answer # "ok"
    BY <1>5, <1>10, <1>12 DEF Orderly, KeptInv
  <2>2. Dated(Held, clock)' /\ FormNew(drawer, Held, clock)'
    BY <1>1, <1>6, <2>1 DEF TextsInv, Dated, FormNew
  <2>3. DocumentsDated'
    BY <1>1, <1>2, <2>1 DEF TextsInv, DocumentsDated
  <2>4. NewerInv'
    <3>1. /\ NewerContent(content) /\ NewerContent(page.request.old.content)
          /\ Newer(SeenIn(table.scenarios), StoredSeen(files))
          /\ dialog # None => dialog = content
      BY <1>1, <2>1 DEF TextsInv, NewerInv
    <3>2. NewerContent(content)'
      BY <1>1, <1>2, <3>1 DEF NewerContent, Newer, ContentSeen, StoredSeen
    <3>3. NewerContent(page.request.old.content)'
      BY <1>1, <1>2, <3>1 DEF NewerContent, Newer, ContentSeen, StoredSeen
    <3>4. Newer(SeenIn(table.scenarios), StoredSeen(files))'
      BY <1>1, <3>1 DEF Newer, SeenIn, StoredSeen
    <3>5. (dialog # None => NewerContent(dialog) /\ (~Quiet => dialog = content))'
      <4>1. dialog' # None => dialog' = content'
        BY <1>1, <1>2, <3>1
      <4> QED BY <3>2, <4>1 DEF NewerContent, Newer, ContentSeen
    <3> QED BY <3>2, <3>3, <3>4, <3>5 DEF NewerInv
  <2> QED BY <2>2, <2>3, <2>4 DEF TextsInv
<1> QED BY <1>7, <1>8, <1>9, <1>10 DEF KeptInv

-----------------------------------------------------------------------------
(* The invariant is kept, and what it says of what is stored.               *)

\* Every step keeps it.
LEMMA KeptInvStep ==
    EditorInv /\ EditorInv' /\ HistoryShape /\ TableInv /\ TableInv' /\ KeptInv /\ [Next]_vars
        => KeptInv'
<1> SUFFICES ASSUME EditorInv, EditorInv', HistoryShape, TableInv, TableInv', KeptInv,
                    [Next]_vars
             PROVE  KeptInv'
  OBVIOUS
<1>0. ViewInv /\ ViewInv'
  BY DEF TableInv
<1>1. CASE FetchRiScs
  BY <1>0, <1>1, FetchingHolds
<1>2. CASE InDrawer
  <2>1. ASSUME NEW id \in ScenarioId, OpenScenarioDrawer(id) PROVE KeptInv'
    BY <1>0, <2>1, OpeningHolds
  <2>2. ASSUME TypeText \/ AddAction \/ \E i \in 1..2 : TypeAction(i) \/ RemoveAction(i)
        PROVE  KeptInv'
    BY <2>2, TypingHolds
  <2>3. CASE Edit \/ OnCancel
    BY <2>3, EditingHolds, CancellingHolds
  <2>4. CASE CloseDrawer
    BY <1>0, <2>4, ClosingHolds
  <2>5. CASE SubmitEditedScenario
    BY <1>0, <2>5, SubmittingHolds
  <2> QED BY <1>2, <2>1, <2>2, <2>3, <2>4, <2>5 DEF InDrawer
<1>3. CASE InWizard
  <2>1. CASE OpenNewScenarioWizard
    BY <1>0, <2>1, WizardOpeningHolds
  <2>2. CASE CloseWizard
    BY <1>0, <2>2, WizardClosingHolds
  <2>3. ASSUME NEW risks \in WizardRisks, SubmitNewScenario(risks) PROVE KeptInv'
    BY <1>0, <2>3, NewScenarioHolds
  <2> QED BY <1>3, <2>1, <2>2, <2>3 DEF InWizard
<1>4. CASE InTable
  <2>1. ASSUME NEW from, NEW to, MoveRowLocal(from, to) PROVE KeptInv'
    BY <2>1, MovingHolds
  <2>2. ASSUME NEW id, DeleteScenario(id) PROVE KeptInv'
    BY <1>0, <2>2, DeletingHolds
  <2>3. ASSUME NEW id, DropRow(id) PROVE KeptInv'
    BY <1>0, <2>3, DroppingHolds
  <2>4. CASE AddPredefinedScenarios
    BY <1>0, <2>4, AddingHolds
  <2> QED BY <1>4, <2>1, <2>2, <2>3, <2>4 DEF InTable
<1>5. ASSUME GetDifferences \/ OnDifference \/ OnDifferenceError \/ UNCHANGED vars
      PROVE  KeptInv'
  <2>1. UNCHANGED <<page, table, drawer, dialog, files, history, clock>>
    BY <1>5 DEF GetDifferences, OnDifference, OnDifferenceError, Rest, vars
  <2> QED BY <2>1, AskingHolds
<1>6. CASE InPage
  <2>1. ASSUME NEW appliesTo \in {None, 1}, SubmitDialog(appliesTo) PROVE KeptInv'
    BY <1>0, <2>1, DialogHolds
  <2>2. CASE OpenDialog
    BY <2>2, DialogOpeningHolds
  <2>3. CASE SaveMigration
    BY <1>0, <2>3, MigratingHolds
  <2>4. CASE ApproveRiSc
    BY <1>0, <2>4, ApprovingHolds
  <2> QED BY <1>5, <1>6, <2>1, <2>2, <2>3, <2>4 DEF InPage
<1>7. CASE Answers
  <2>1. CASE Serve
    BY <1>0, <2>1, ServingHolds
  <2>2. CASE Fail
    BY <2>2, FailingHolds
  <2>3. CASE OnSaved
    BY <1>0, <2>3, SavedHolds
  <2>4. CASE OnError
    BY <1>0, <2>4, TakenBackHolds
  <2> QED BY <1>5, <1>7, <2>1, <2>2, <2>3, <2>4 DEF Answers
<1> QED BY <1>1, <1>2, <1>3, <1>4, <1>5, <1>6, <1>7 DEF Next

\* At first there is only what is stored, without a text that was typed since.
LEMMA KeptInvInit == Init => KeptInv
<1> SUFFICES ASSUME Init PROVE KeptInv
  OBVIOUS
<1> DEFINE old == ToShow(files)
<1>1. PICK f \in Files : files = [published |-> f.published, draft |-> f.draft, pr |-> f.pr,
                                  sops |-> f.sops]
  BY DEF Init
<1>2. old \in {f.published, f.draft} \ {None}
  <2>1. files.published = f.published /\ files.draft = f.draft
    BY <1>1
  <2> QED BY <2>1, EditorAssumption DEF ToShow
<1>3. old \in RiScDocuments /\ UniqueIds(old.scenarios) /\ old.text = 0
      /\ \A i \in DOMAIN old.scenarios :
             old.scenarios[i].text = 0 /\ UniqueIds(old.scenarios[i].actions)
  BY <1>2, EditorAssumption, EditsAssumption, ActionsAssumption
<1> HIDE DEF old
<1>4. /\ page.selected.content = None /\ page.update = "idle" /\ content = None /\ Quiet
      /\ table.scenarios = <<>> /\ DOMAIN table.rows = {} /\ dialog = None
      /\ clock = 0
      /\ ~drawer.step /\ drawer.shown = None
      /\ history.lost = FALSE
  BY DEF Init, NotSelected, Unmounted, Closed, Quiet, content
<1>5. Held = StoredSeen(files)
  <2>1. SeenIn(table.scenarios) = {} /\ RowsSeen(table) = {} /\ OldSeen(page) = {}
        /\ ContentSeen(page.selected.content) = {} /\ ContentSeen(dialog) = {}
    BY <1>4 DEF SeenIn, RowsSeen, OldSeen, ContentSeen
  <2> QED BY <2>1 DEF Held
<1>6. ASSUME NEW x \in Held
      PROVE  \E i \in DOMAIN old.scenarios : /\ x.id = old.scenarios[i].id /\ x.text = 0
                                             /\ x = Traits(old.scenarios[i], old.schemaVersion)
                                             /\ Apart(x.actions)
  <2>1. PICK i \in DOMAIN old.scenarios : x = Traits(old.scenarios[i], old.schemaVersion)
    BY <1>5 DEF StoredSeen, old
  <2>2. x.id = old.scenarios[i].id /\ x.text = old.scenarios[i].text
        /\ x.actions = IdList(old.scenarios[i].actions)
    BY <2>1 DEF Traits
  <2> QED BY <1>3, <2>1, <2>2, ApartIds
<1>7. HeldInv
  <2>1. ASSUME NEW x \in Held, NEW y \in Held, x.id = y.id PROVE x.levels = y.levels
    <3>1. PICK i \in DOMAIN old.scenarios :
              x.id = old.scenarios[i].id /\ x = Traits(old.scenarios[i], old.schemaVersion)
      BY <1>6
    <3>2. PICK j \in DOMAIN old.scenarios :
              y.id = old.scenarios[j].id /\ y = Traits(old.scenarios[j], old.schemaVersion)
      BY <1>6
    <3>3. i = j
      BY <1>3, <2>1, <3>1, <3>2 DEF UniqueIds
    <3> QED BY <3>1, <3>2, <3>3
  <2> QED BY <1>6, <2>1 DEF HeldInv, Alike
<1>8. TextsInv
  <2>1. Dated(Held, clock)
    BY <1>4, <1>6 DEF Dated
  <2>2. DocumentsDated
    BY <1>3, <1>4 DEF DocumentsDated, old
  <2>3. FormNew(drawer, Held, clock)
    BY <1>4 DEF FormNew
  <2>4. NewerInv
    BY <1>4 DEF NewerInv, NewerContent, Newer, SeenIn
  <2> QED BY <2>1, <2>2, <2>3, <2>4 DEF TextsInv
<1> QED BY <1>4, <1>7, <1>8 DEF KeptInv, FormInv, WizardInv

\* What is found of a scenario in a stored document is seen there.
LEMMA FoundIsStored ==
    ASSUME NEW f, ToShow(f) \in RiScDocuments, NEW id \in Ids(ToShow(f).scenarios)
    PROVE  \E x \in StoredSeen(f) :
               /\ x.id = id /\ x.text = Find(ToShow(f).scenarios, id).text
               /\ x.levels = LevelsIn(ToShow(f), id)
<1> DEFINE old == ToShow(f)
<1>1. old.scenarios \in Seq(Scenarios)
  BY ContentParts
<1>2. PICK i \in DOMAIN old.scenarios :
          Find(old.scenarios, id) = old.scenarios[i] /\ old.scenarios[i].id = id
  BY <1>1, FindFinds
<1>3. Traits(old.scenarios[i], old.schemaVersion) \in StoredSeen(f)
  BY DEF StoredSeen
<1> QED BY <1>2, <1>3 DEF Traits, LevelsIn

\* What is shown is a document, before and after a step.
LEMMA ShownDocuments ==
    ASSUME EditorInv, EditorInv'
    PROVE  /\ ToShow(files) \in RiScDocuments /\ ToShow(files') \in RiScDocuments
           /\ ToShow(files)' = ToShow(files')
<1>1. FilesOK /\ FilesOK'
  BY DEF EditorInv
<1> QED BY <1>1 DEF FilesOK, Docs, ToShow

\* Only an answer of the service gives way to what the page has.
LEMMA StoredSteps ==
    ASSUME EditorInv, TableInv, [Next]_vars
    PROVE  \/ ToShow(files)' = ToShow(files)
           \/ /\ StoredSeen(files') = ContentSeen(content) /\ content # None
              /\ ToShow(files').text = content.text
              /\ history' = history
<1>1. CASE Serve
  <2>1. \/ files' = files
        \/ /\ StoredSeen(files') = ContentSeen(content)
           /\ ToShow(files').text = content.text /\ content \in RiScDocuments
    BY <1>1, ServedSeen DEF TableInv
  <2> QED BY <1>1, <2>1, FormNotNone DEF Serve, ToShow
<1>2. CASE ApproveRiSc
  <2> DEFINE pr == files.draft # None
  <2>1. files' = files \/ files' = [files EXCEPT !.pr = pr]
    BY <1>2 DEF ApproveRiSc
  <2> HIDE DEF pr
  <2>2. files'.published = files.published /\ files'.draft = files.draft
    BY <2>1 DEF EditorInv, FilesOK
  <2> QED BY <2>2 DEF ToShow
<1> QED BY <1>1, <1>2, FilesUntouched DEF ToShow

\* The levels that are stored stay what they were.
LEMMA LevelsStay ==
    ASSUME EditorInv, EditorInv', TableInv, KeptInv, [Next]_vars,
           NEW id \in Ids(ToShow(files).scenarios) \cap Ids(ToShow(files)'.scenarios)
    PROVE  \/ LevelsIn(ToShow(files), id) = LevelsIn(ToShow(files)', id)
           \/ Preset(id, LevelsIn(ToShow(files), id)) \/ Preset(id, LevelsIn(ToShow(files)', id))
           \/ id = NewScenario /\ history.lost
<1>1. PICK x \in StoredSeen(files) : x.id = id /\ x.levels = LevelsIn(ToShow(files), id)
  BY ShownDocuments, FoundIsStored
<1>2. CASE ToShow(files)' = ToShow(files)
  BY <1>2 DEF LevelsIn, LevelsOf
<1>3. CASE StoredSeen(files') = ContentSeen(content)
  <2>1. PICK y \in StoredSeen(files') : y.id = id /\ y.levels = LevelsIn(ToShow(files)', id)
    <3>1. ToShow(files') \in RiScDocuments /\ ToShow(files)' = ToShow(files')
      BY ShownDocuments
    <3> QED BY <3>1, FoundIsStored
  <2>2. x \in Held /\ y \in Held
    BY <1>3 DEF Held, content
  <2>3. Alike(x, y, history.lost)
    BY <2>2 DEF KeptInv, HeldInv
  <2> QED BY <1>1, <2>1, <2>3 DEF Alike
<1> QED BY <1>2, <1>3, StoredSteps

\* In an orderly history no text gives way to an older one.
LEMMA TextsStay ==
    ASSUME EditorInv, EditorInv', TableInv, KeptInv, [Next]_vars,
           history'.orderly, ~history.lost
    PROVE  /\ ToShow(files)'.text >= ToShow(files).text
           /\ \A id \in Ids(ToShow(files).scenarios) \cap Ids(ToShow(files)'.scenarios) :
                  LET text == Find(ToShow(files)'.scenarios, id).text
                  IN  text >= Find(ToShow(files).scenarios, id).text \/ AddedAgain(id, text)
<1>0. /\ ToShow(files) \in RiScDocuments /\ ToShow(files') \in RiScDocuments
      /\ ToShow(files)' = ToShow(files')
  BY ShownDocuments
<1>1. CASE ToShow(files)' = ToShow(files)
  <2>1. ToShow(files).text \in Nat
    BY <1>0 DEF RiScDocuments
  <2>2. ASSUME NEW id \in Ids(ToShow(files).scenarios)
        PROVE  Find(ToShow(files).scenarios, id).text \in Nat
    <3>1. ToShow(files).scenarios \in Seq(Scenarios)
      BY <1>0, ContentParts
    <3>2. PICK i \in DOMAIN ToShow(files).scenarios :
              Find(ToShow(files).scenarios, id) = ToShow(files).scenarios[i]
      BY <3>1, FindFinds
    <3> HIDE DEF ToShow
    <3>3. ToShow(files).scenarios[i] \in Scenarios
      BY <3>1
    <3> QED BY <3>2, <3>3 DEF Scenarios
  <2> QED BY <1>1, <2>1, <2>2
<1>2. CASE /\ StoredSeen(files') = ContentSeen(content) /\ content # None
           /\ ToShow(files').text = content.text
           /\ history' = history
  <2>1. NewerContent(content)
    BY <1>2 DEF KeptInv, Orderly, TextsInv, NewerInv
  <2>2. /\ Newer(StoredSeen(files'), StoredSeen(files))
        /\ ToShow(files').text >= ToShow(files).text
    BY <1>2, <2>1 DEF NewerContent
  <2>3. ASSUME NEW id \in Ids(ToShow(files).scenarios) \cap Ids(ToShow(files').scenarios)
        PROVE  LET text == Find(ToShow(files').scenarios, id).text
               IN  text >= Find(ToShow(files).scenarios, id).text \/ AddedAgain(id, text)
    <3>1. PICK y \in StoredSeen(files) :
              y.id = id /\ y.text = Find(ToShow(files).scenarios, id).text
      BY <1>0, FoundIsStored
    <3>2. PICK x \in StoredSeen(files') :
              x.id = id /\ x.text = Find(ToShow(files').scenarios, id).text
      BY <1>0, FoundIsStored
    <3> QED BY <2>2, <3>1, <3>2 DEF Newer
  <2> QED BY <1>0, <2>2, <2>3
<1> QED BY <1>1, <1>2, StoredSteps

\* All that the scenarios are kept by.
ScenariosInv == EditorInv /\ StoredInv /\ TableInv /\ KeptInv

\* It holds in every state.
LEMMA ScenariosInvHolds ==
    /\ Init => ScenariosInv
    /\ ScenariosInv /\ [Next]_vars => ScenariosInv'
<1>1. Init => ScenariosInv
  BY EditorInvInit, StoredInvInit, TableInvInit, KeptInvInit DEF ScenariosInv
<1>2. ASSUME ScenariosInv, [Next]_vars PROVE ScenariosInv'
  <2>1. EditorInv /\ StoredInv /\ HistoryShape /\ TableInv /\ KeptInv
    BY <1>2 DEF ScenariosInv, StoredInv
  <2>2. EditorInv'
    BY <1>2, <2>1, EditorInvStep
  <2>3. StoredInv' /\ TableInv'
    BY <1>2, <2>1, <2>2, StoredInvStep, TableInvStep
  <2>4. KeptInv'
    BY <1>2, <2>1, <2>2, <2>3, KeptInvStep
  <2> QED BY <2>2, <2>3, <2>4 DEF ScenariosInv
<1> QED BY <1>1, <1>2

\* utilityfunctions.ts:343, SchemaService.ts:543: whatever is migrated, rounded
\* in a form and saved, the level at which the risk of a scenario is shown stays
\* what it was, but for a predefined scenario that is added again and a wizard's
\* that is submitted again.
THEOREM RiskLevelsStay == Spec => RiskLevelsAreKept
<1>1. ScenariosInv /\ ScenariosInv' /\ [Next]_vars =>
          [\A id \in Ids(ToShow(files).scenarios) \cap Ids(ToShow(files)'.scenarios) :
              \/ LevelsIn(ToShow(files), id) = LevelsIn(ToShow(files)', id)
              \/ Preset(id, LevelsIn(ToShow(files), id)) \/ Preset(id, LevelsIn(ToShow(files)', id))
              \/ id = NewScenario /\ history.lost]_vars
  BY LevelsStay DEF ScenariosInv
<1>2. RiskLevelsAreKept <=>
          [][\A id \in Ids(ToShow(files).scenarios) \cap Ids(ToShow(files)'.scenarios) :
                \/ LevelsIn(ToShow(files), id) = LevelsIn(ToShow(files)', id)
                \/ Preset(id, LevelsIn(ToShow(files), id)) \/ Preset(id, LevelsIn(ToShow(files)', id))
                \/ id = NewScenario /\ history.lost]_vars
  BY DEF RiskLevelsAreKept
<1> QED BY <1>1, <1>2, ScenariosInvHolds, PTL DEF Spec

\* RiScContext.tsx:646: forms, dialogs and rollbacks bring no old content back:
\* nothing that was stored gives way to an older text of the same scenario, or of
\* the RiSc, unless an answer was lost or a row dropped with an earlier content.
THEOREM EditsStay == Spec => EditsAreKept
<1>1. ScenariosInv /\ ScenariosInv' /\ [Next]_vars =>
          [history'.orderly /\ ~history.lost =>
              /\ ToShow(files)'.text >= ToShow(files).text
              /\ \A id \in Ids(ToShow(files).scenarios) \cap Ids(ToShow(files)'.scenarios) :
                     LET text == Find(ToShow(files)'.scenarios, id).text
                     IN  text >= Find(ToShow(files).scenarios, id).text
                         \/ AddedAgain(id, text)]_vars
  BY TextsStay DEF ScenariosInv
<1>2. EditsAreKept <=>
          [][history'.orderly /\ ~history.lost =>
              /\ ToShow(files)'.text >= ToShow(files).text
              /\ \A id \in Ids(ToShow(files).scenarios) \cap Ids(ToShow(files)'.scenarios) :
                     LET text == Find(ToShow(files)'.scenarios, id).text
                     IN  text >= Find(ToShow(files).scenarios, id).text
                         \/ AddedAgain(id, text)]_vars
  BY DEF EditsAreKept
<1> QED BY <1>1, <1>2, ScenariosInvHolds, PTL DEF Spec

-----------------------------------------------------------------------------
(* What a comparison says, and what it leaves out.                         *)

\* The old and the new form of an item that has changed.
IsPair(pair, old, new) ==
    \E i \in DOMAIN old, j \in DOMAIN new :
        /\ pair = <<old[i], new[j]>>
        /\ old[i].id = new[j].id /\ old[i] # new[j]

\* What the comparison of two lists says of them.
TellsApart(t, old, new) ==
    /\ Range(t.deleted) = {old[i] : i \in {j \in DOMAIN old : old[j].id \notin Ids(new)}}
    /\ Range(t.added) = {new[i] : i \in {j \in DOMAIN new : new[j].id \notin Ids(old)}}
    /\ \A k \in DOMAIN t.changed : IsPair(t.changed[k], old, new)
    /\ \A i \in DOMAIN old, j \in DOMAIN new :
           old[i].id = new[j].id /\ old[i] # new[j] =>
               \E k \in DOMAIN t.changed : t.changed[k] = <<old[i], new[j]>>
    /\ t = [deleted |-> t.deleted, changed |-> t.changed, added |-> t.added]

\* Items are matched by their ids.
LEMMA ListsCompared ==
    ASSUME NEW S, NEW old \in Seq(S), NEW new \in Seq(S), UniqueIds(new)
    PROVE  TellsApart(changeForListOfComplexProperty(old, new), old, new)
<1> DEFINE t == changeForListOfComplexProperty(old, new)
           gone == {i \in DOMAIN old : old[i].id \notin Ids(new)}
           come == {i \in DOMAIN new : new[i].id \notin Ids(old)}
           other == {i \in DOMAIN old : old[i].id \in Ids(new) /\ old[i] # Find(new, old[i].id)}
           changed == ItemsAt(old, other)
           pairs == [k \in DOMAIN changed |-> <<changed[k], Find(new, changed[k].id)>>]
<1>1. t = [deleted |-> ItemsAt(old, gone), changed |-> pairs, added |-> ItemsAt(new, come)]
  BY DEF changeForListOfComplexProperty, Map
<1>2. Range(ItemsAt(old, gone)) = {old[i] : i \in gone}
  BY ItemsAtIsSeq
<1>3. Range(ItemsAt(new, come)) = {new[i] : i \in come}
  BY ItemsAtIsSeq
<1>4. Range(changed) = {old[i] : i \in other}
  BY ItemsAtIsSeq
<1>5. ASSUME NEW k \in DOMAIN pairs PROVE IsPair(pairs[k], old, new)
  <2>1. pairs[k] = <<changed[k], Find(new, changed[k].id)>>
    OBVIOUS
  <2>2. PICK i \in other : changed[k] = old[i]
    <3> HIDE DEF changed
    <3>1. changed[k] \in Range(changed)
      BY DEF Range
    <3> QED BY <1>4, <3>1
  <2>3. PICK j \in DOMAIN new : Find(new, old[i].id) = new[j] /\ new[j].id = old[i].id
    BY FindFinds
  <2> QED BY <2>1, <2>2, <2>3 DEF IsPair
<1>6. ASSUME NEW i \in DOMAIN old, NEW j \in DOMAIN new, old[i].id = new[j].id, old[i] # new[j]
      PROVE  \E k \in DOMAIN pairs : pairs[k] = <<old[i], new[j]>>
  <2>1. Find(new, old[i].id) = new[j]
    BY <1>6, FindsTheOnly
  <2>2. i \in other
    BY <1>6, <2>1 DEF Ids
  <2>3. PICK k \in DOMAIN changed : changed[k] = old[i]
    <3> HIDE DEF changed, other
    <3> QED BY <1>4, <2>2 DEF Range
  <2> HIDE DEF changed
  <2> QED BY <2>1, <2>3
<1> HIDE DEF pairs, t, changed
<1> QED BY <1>1, <1>2, <1>3, <1>5, <1>6 DEF TellsApart, t

\* What a list says that lists the changes in the form of a version.
Tells(c, t) ==
    /\ c.deleted = t.deleted /\ c.added = t.added
    /\ DOMAIN c.changed = DOMAIN t.changed
    /\ \A k \in DOMAIN t.changed : c.changed[k].id = t.changed[k][2].id

\* The items that are as they were.
Unchanged(c, old) ==
    {old[i] : i \in {j \in DOMAIN old : /\ old[j].id \notin Ids(c.changed)
                                        /\ old[j] \notin Range(c.deleted)}}

\* From the old list and what is told of it, the items of the new one follow.
LEMMA ListsPatched ==
    ASSUME NEW S, NEW old \in Seq(S), NEW new \in Seq(S), UniqueIds(old), UniqueIds(new),
           NEW t, TellsApart(t, old, new), NEW c, Tells(c, t)
    PROVE  LET changed == {t.changed[k][2] : k \in DOMAIN t.changed}
           IN  /\ Range(new) = Unchanged(c, old) \cup changed \cup Range(c.added)
               /\ \A s \in Unchanged(c, old) \cup Range(c.added) : s.id \notin Ids(c.changed)
               /\ \A k \in DOMAIN c.changed :
                      /\ Find(old, c.changed[k].id) = t.changed[k][1]
                      /\ IsPair(t.changed[k], old, new)
<1> DEFINE changed == {t.changed[k][2] : k \in DOMAIN t.changed}
<1>1. Ids(c.changed) = {t.changed[k][2].id : k \in DOMAIN t.changed}
  BY DEF Ids, Tells
<1>2. ASSUME NEW k \in DOMAIN t.changed
      PROVE  \E i \in DOMAIN old, j \in DOMAIN new :
                 /\ t.changed[k][1] = old[i] /\ t.changed[k][2] = new[j]
                 /\ old[i].id = new[j].id /\ old[i] # new[j]
  BY DEF TellsApart, IsPair
<1>3. ASSUME NEW j \in DOMAIN new
      PROVE  new[j] \in Unchanged(c, old) \cup changed \cup Range(c.added)
  <2>1. CASE new[j].id \notin Ids(old)
    BY <2>1 DEF TellsApart, Tells
  <2>2. CASE new[j].id \in Ids(old)
    <3>1. PICK i \in DOMAIN old : old[i].id = new[j].id
      BY <2>2 DEF Ids
    <3>2. CASE old[i] # new[j]
      <4>1. PICK k \in DOMAIN t.changed : t.changed[k] = <<old[i], new[j]>>
        BY <3>1, <3>2 DEF TellsApart
      <4>2. t.changed[k][2] = new[j]
        BY <4>1
      <4> QED BY <4>2
    <3>3. CASE old[i] = new[j]
      <4>1. old[i].id \notin Ids(c.changed)
        <5> SUFFICES ASSUME NEW k \in DOMAIN t.changed, t.changed[k][2].id = old[i].id
                     PROVE  FALSE
          BY <1>1
        <5>1. PICK m \in DOMAIN old, n \in DOMAIN new :
                  /\ t.changed[k][2] = new[n] /\ old[m].id = new[n].id /\ old[m] # new[n]
          BY <1>2
        <5>2. m = i /\ n = j
          BY <3>1, <5>1 DEF UniqueIds
        <5> QED BY <3>3, <5>1, <5>2
      <4>2. old[i] \notin Range(c.deleted)
        BY <3>1, <3>3 DEF TellsApart, Tells, Ids
      <4> QED BY <3>3, <4>1, <4>2 DEF Unchanged
    <3> QED BY <3>2, <3>3
  <2> QED BY <2>1, <2>2
<1>4. ASSUME NEW s \in Unchanged(c, old) PROVE s \in Range(new)
  <2>1. PICK i \in DOMAIN old : s = old[i] /\ s.id \notin Ids(c.changed) /\ s \notin Range(c.deleted)
    BY DEF Unchanged
  <2>2. s.id \in Ids(new)
    BY <2>1 DEF TellsApart, Tells
  <2>3. PICK j \in DOMAIN new : new[j].id = s.id
    BY <2>2 DEF Ids
  <2>4. ASSUME s # new[j] PROVE FALSE
    <3>1. PICK k \in DOMAIN t.changed : t.changed[k] = <<old[i], new[j]>>
      BY <2>1, <2>3, <2>4 DEF TellsApart
    <3>2. t.changed[k][2].id = s.id
      BY <2>3, <3>1
    <3> QED BY <1>1, <2>1, <3>2
  <2> QED BY <2>4 DEF Range
<1>5. changed \subseteq Range(new)
  BY <1>2 DEF Range
<1>6. \A s \in Range(c.added) : (\E j \in DOMAIN new : s = new[j]) /\ s.id \notin Ids(old)
  BY DEF TellsApart, Tells
<1>7. Range(new) = Unchanged(c, old) \cup changed \cup Range(c.added)
  <2>1. Range(c.added) \subseteq Range(new)
    <3>1. \A j \in DOMAIN new : new[j] \in Range(new)
      BY DEF Range
    <3> QED BY <1>6, <3>1
  <2>2. \A s \in Range(new) : \E j \in DOMAIN new : s = new[j]
    BY DEF Range
  <2> QED BY <1>3, <1>4, <1>5, <2>1, <2>2
<1>8. ASSUME NEW s \in Range(c.added) PROVE s.id \notin Ids(c.changed)
  <2>1. s.id \notin Ids(old)
    BY <1>6
  <2>2. ASSUME NEW k \in DOMAIN t.changed, t.changed[k][2].id = s.id PROVE FALSE
    <3>1. PICK i \in DOMAIN old : old[i].id = t.changed[k][2].id
      BY <1>2
    <3> QED BY <2>1, <2>2, <3>1 DEF Ids
  <2> QED BY <1>1, <2>2
<1>9. \A s \in Unchanged(c, old) : s.id \notin Ids(c.changed)
  BY DEF Unchanged
<1>10. ASSUME NEW k \in DOMAIN c.changed PROVE Find(old, c.changed[k].id) = t.changed[k][1]
  <2>1. k \in DOMAIN t.changed /\ c.changed[k].id = t.changed[k][2].id
    BY DEF Tells
  <2>2. PICK i \in DOMAIN old : t.changed[k][1] = old[i] /\ old[i].id = t.changed[k][2].id
    BY <1>2, <2>1
  <2> QED BY <2>1, <2>2, FindsTheOnly
<1> QED BY <1>7, <1>8, <1>9, <1>10 DEF TellsApart, Tells

\* What a property may be.
Values == Nat \cup Times \cup STRING \cup {None}

\* The change of a property leads to what it has become.
LEMMA PropertyPatched ==
    ASSUME NEW old \in Values, NEW new \in Values
    PROVE  New(changeForSimpleProperty(old, new), old) = new
<1>1. CASE old = new
  BY <1>1 DEF New, changeForSimpleProperty
<1>2. CASE old # new
  <2> DEFINE change == [old |-> old, new |-> new]
  <2>1. change \in ChangedValues(Values, Values)
    BY DEF ChangedValues
  <2>2. change # None
    BY <2>1, ChangesAssumption DEF Values
  <2>3. changeForSimpleProperty(old, new) = change
    BY <1>2 DEF changeForSimpleProperty
  <2>4. change.new = new
    OBVIOUS
  <2> HIDE DEF change
  <2> QED BY <2>2, <2>3, <2>4 DEF New
<1> QED BY <1>1, <1>2

\* So does that of a set.
LEMMA SetPatched ==
    ASSUME NEW old, NEW new
    PROVE  PatchedSet(changeForListOfSimpleProperty(old, new), old) = new
BY DEF PatchedSet, changeForListOfSimpleProperty

\* The fields of an action.
LEMMA ActionFields ==
    ASSUME NEW a \in Actions
    PROVE  /\ DOMAIN a = {"id", "text", "status", "owner", "deadline", "lastUpdated",
                          "lastUpdatedBy", "comment"}
           /\ a = [name \in DOMAIN a |-> a[name]]
           /\ {a.text, a.status, a.owner, a.deadline, a.lastUpdated, a.lastUpdatedBy,
               a.comment} \subseteq Values
BY DocumentAssumption DEF Actions, Values

\* Two actions with the same fields are the same.
LEMMA SameAction ==
    ASSUME NEW a \in Actions, NEW b, b = [name \in DOMAIN a |-> b[name]],
           b["id"] = a.id, b["text"] = a.text, b["status"] = a.status, b["owner"] = a.owner,
           b["deadline"] = a.deadline, b["lastUpdated"] = a.lastUpdated,
           b["lastUpdatedBy"] = a.lastUpdatedBy, b["comment"] = a.comment
    PROVE  b = a
<1>1. \A name \in DOMAIN a : b[name] = a[name]
  BY ActionFields
<1> QED BY <1>1, ActionFields

\* What a version compares of an action is all it has.
LEMMA ActionsPatched ==
    ASSUME NEW o \in Actions, NEW n \in Actions, o.id = n.id, NEW v \in VersionSet,
           ValidAction(o, v), ValidAction(n, v)
    PROVE  /\ Major(v) = 5 => PatchedAction(compareAction5X(o, n), o) = n
           /\ Major(v) = 4 => PatchedAction(compareAction4X(o, n), o) = n
           /\ Major(v) = 3 => PatchedAction(compareAction3X(o, n), o) = n
<1> DEFINE Patch(name) == New(changeForSimpleProperty(o[name], n[name]), o[name])
<1>1. /\ Patch("text") = n.text /\ Patch("status") = n.status
      /\ Patch("owner") = n.owner /\ Patch("deadline") = n.deadline
      /\ Patch("lastUpdated") = n.lastUpdated /\ Patch("lastUpdatedBy") = n.lastUpdatedBy
  <2>1. /\ {o.text, o.status, o.owner, o.deadline, o.lastUpdated, o.lastUpdatedBy} \subseteq Values
        /\ {n.text, n.status, n.owner, n.deadline, n.lastUpdated, n.lastUpdatedBy} \subseteq Values
    BY ActionFields
  <2> QED BY <2>1, PropertyPatched
<1>2. o.comment = n.comment
  BY DEF ValidAction
<1>3. DOMAIN o = {"id", "text", "status", "owner", "deadline", "lastUpdated", "lastUpdatedBy",
                  "comment"}
  BY ActionFields
<1>4. v \in {"3.2", "3.3", "4.0", "4.1", "4.2", "5.0", "5.1", "5.2"}
  BY VersionsAre
<1>5. Major(v) # 3 => o.owner = n.owner /\ o.deadline = n.deadline
  BY <1>4, Majors DEF ValidAction
<1>6. Major(v) # 5 => o.lastUpdatedBy = n.lastUpdatedBy
  BY <1>4, Majors, Indices DEF ValidAction, Since
<1>7. Major(v) = 3 => o.lastUpdated = n.lastUpdated
  BY <1>4, Majors, Indices DEF ValidAction, Since
<1>8. ASSUME NEW c, NEW p, p = PatchedAction(c, o),
             DOMAIN c \subseteq DOMAIN o \ {"comment"},
             \A name \in DOMAIN c \ {"id"} : c[name] = changeForSimpleProperty(o[name], n[name]),
             {"text", "status"} \subseteq DOMAIN c,
             "owner" \notin DOMAIN c => o.owner = n.owner,
             "deadline" \notin DOMAIN c => o.deadline = n.deadline,
             "lastUpdated" \notin DOMAIN c => o.lastUpdated = n.lastUpdated,
             "lastUpdatedBy" \notin DOMAIN c => o.lastUpdatedBy = n.lastUpdatedBy
      PROVE  p = n
  <2>1. p = [name \in DOMAIN o |-> IF name = "id" THEN o.id ELSE Field(c, name, o[name])]
    BY <1>8 DEF PatchedAction
  <2>2. DOMAIN n = DOMAIN o
    BY <1>3, ActionFields
  <2>3. p["id"] = n.id
    BY <1>3, <2>1
  <2>4. p["comment"] = n.comment
    BY <1>2, <1>3, <1>8, <2>1 DEF Field
  <2>5. ASSUME NEW name \in {"text", "status", "owner", "deadline", "lastUpdated", "lastUpdatedBy"}
        PROVE  p[name] = n[name]
    <3>1. p[name] = IF name \in DOMAIN c THEN New(c[name], o[name]) ELSE o[name]
      BY <1>3, <2>1 DEF Field
    <3>2. CASE name \in DOMAIN c
      <4>1. p[name] = Patch(name)
        BY <1>8, <3>1, <3>2
      <4> HIDE DEF Patch
      <4> QED BY <1>1, <4>1
    <3>3. CASE name \notin DOMAIN c
      BY <1>8, <3>1, <3>3
    <3> QED BY <3>2, <3>3
  <2>6. p = [name \in DOMAIN n |-> p[name]]
    BY <2>1, <2>2
  <2> QED BY <2>3, <2>4, <2>5, <2>6, SameAction
<1> DEFINE c4 == compareAction4X(o, n)
           c5 == compareAction5X(o, n)
           c3 == compareAction3X(o, n)
           Simple(name) == changeForSimpleProperty(o[name], n[name])
<1>9. /\ DOMAIN c4 = {"id", "text", "status", "lastUpdated"}
      /\ c4["text"] = Simple("text") /\ c4["status"] = Simple("status")
      /\ c4["lastUpdated"] = Simple("lastUpdated")
  BY DEF compareAction4X, compareCommonActionFields, Extended
<1>10. /\ DOMAIN c5 = {"id", "text", "status", "lastUpdated", "lastUpdatedBy"}
       /\ c5["text"] = Simple("text") /\ c5["status"] = Simple("status")
       /\ c5["lastUpdated"] = Simple("lastUpdated")
       /\ c5["lastUpdatedBy"] = Simple("lastUpdatedBy")
  <2> HIDE DEF c4
  <2>1. c5 = Extended(c4, [lastUpdatedBy |-> Simple("lastUpdatedBy")])
    BY DEF c4, compareAction5X
  <2> QED BY <1>9, <2>1 DEF Extended
<1>11. /\ DOMAIN c3 = {"id", "text", "status", "owner", "deadline"}
       /\ c3["text"] = Simple("text") /\ c3["status"] = Simple("status")
       /\ c3["owner"] = Simple("owner") /\ c3["deadline"] = Simple("deadline")
  BY DEF compareAction3X, compareCommonActionFields, Extended
<1> HIDE DEF c3, c4, c5
<1>12. Major(v) = 5 => PatchedAction(c5, o) = n
  BY <1>3, <1>5, <1>8, <1>10
<1>13. Major(v) = 4 => PatchedAction(c4, o) = n
  BY <1>3, <1>5, <1>6, <1>8, <1>9
<1>14. Major(v) = 3 => PatchedAction(c3, o) = n
  BY <1>3, <1>6, <1>7, <1>8, <1>11
<1> QED BY <1>12, <1>13, <1>14 DEF c3, c4, c5

\* The items a list of changes leads to.
LEMMA ItemsPatched ==
    ASSUME NEW old \in Seq(Actions), NEW new \in Seq(Actions), UniqueIds(old), UniqueIds(new),
           NEW t, t = changeForListOfComplexProperty(old, new), NEW c, Tells(c, t),
           \A k \in DOMAIN t.changed :
               PatchedAction(c.changed[k], t.changed[k][1]) = t.changed[k][2]
    PROVE  PatchedItems(c, old, PatchedAction) = Range(new)
<1>1. TellsApart(t, old, new)
  BY ListsCompared
<1>2. /\ Range(new) = Unchanged(c, old) \cup {t.changed[k][2] : k \in DOMAIN t.changed}
                      \cup Range(c.added)
      /\ \A k \in DOMAIN c.changed : Find(old, c.changed[k].id) = t.changed[k][1]
  BY <1>1, ListsPatched
<1>3. DOMAIN c.changed = DOMAIN t.changed
  BY DEF Tells
<1>4. {PatchedAction(c.changed[k], Find(old, c.changed[k].id)) : k \in DOMAIN c.changed}
          = {t.changed[k][2] : k \in DOMAIN t.changed}
  BY <1>2, <1>3
<1> QED BY <1>2, <1>4 DEF PatchedItems, Unchanged

\* What is told in the form of a version.
LEMMA ComparedTells ==
    ASSUME NEW t, t = [deleted |-> t.deleted, changed |-> t.changed, added |-> t.added],
           NEW changed, DOMAIN changed = DOMAIN t.changed,
           \A k \in DOMAIN t.changed : changed[k].id = t.changed[k][2].id
    PROVE  LET c == [t EXCEPT !.changed = changed] IN Tells(c, t) /\ c.changed = changed
<1>1. LET c == [t EXCEPT !.changed = changed]
      IN  c.deleted = t.deleted /\ c.added = t.added /\ c.changed = changed
  OBVIOUS
<1> QED BY <1>1 DEF Tells

\* What a version compares of an action has its id.
LEMMA ActionChangeIds ==
    ASSUME NEW o, NEW n
    PROVE  /\ compareAction3X(o, n).id = n.id /\ compareAction4X(o, n).id = n.id
           /\ compareAction5X(o, n).id = n.id
<1>1. compareAction4X(o, n).id = n.id /\ "id" \in DOMAIN compareAction4X(o, n)
  BY DEF compareAction4X, compareCommonActionFields, Extended
<1>2. compareAction3X(o, n).id = n.id
  BY DEF compareAction3X, compareCommonActionFields, Extended
<1>3. compareAction5X(o, n).id = n.id
  BY <1>1 DEF compareAction5X, Extended
<1> QED BY <1>1, <1>2, <1>3

\* What is told of the actions of a scenario is all that is different.
LEMMA ActionListsPatched ==
    ASSUME NEW old \in Seq(Actions), NEW new \in Seq(Actions), UniqueIds(old), UniqueIds(new),
           NEW v \in VersionSet, \A i \in DOMAIN old : ValidAction(old[i], v),
           \A i \in DOMAIN new : ValidAction(new[i], v)
    PROVE  LET t == changeForListOfComplexProperty(old, new)
           IN  /\ Major(v) = 5 =>
                      PatchedItems(Compared(t, compareAction5X), old, PatchedAction) = Range(new)
               /\ Major(v) = 4 =>
                      PatchedItems(Compared(t, compareAction4X), old, PatchedAction) = Range(new)
               /\ Major(v) = 3 =>
                      PatchedItems(Compared(t, compareAction3X), old, PatchedAction) = Range(new)
<1> DEFINE t == changeForListOfComplexProperty(old, new)
           c5 == Compared(t, compareAction5X)
           c4 == Compared(t, compareAction4X)
           c3 == Compared(t, compareAction3X)
           changed5 == [k \in DOMAIN t.changed |->
                           compareAction5X(t.changed[k][1], t.changed[k][2])]
           changed4 == [k \in DOMAIN t.changed |->
                           compareAction4X(t.changed[k][1], t.changed[k][2])]
           changed3 == [k \in DOMAIN t.changed |->
                           compareAction3X(t.changed[k][1], t.changed[k][2])]
<1>1. TellsApart(t, old, new)
  BY ListsCompared
<1>2. c5 = [t EXCEPT !.changed = changed5] /\ c4 = [t EXCEPT !.changed = changed4]
      /\ c3 = [t EXCEPT !.changed = changed3]
  BY DEF Compared
<1>3. t = [deleted |-> t.deleted, changed |-> t.changed, added |-> t.added]
  BY <1>1 DEF TellsApart
<1>4. ASSUME NEW k \in DOMAIN t.changed
      PROVE  LET o == t.changed[k][1]
                 n == t.changed[k][2]
             IN  o \in Actions /\ n \in Actions /\ o.id = n.id
                 /\ ValidAction(o, v) /\ ValidAction(n, v)
  <2>1. PICK i \in DOMAIN old, j \in DOMAIN new :
            t.changed[k] = <<old[i], new[j]>> /\ old[i].id = new[j].id
    BY <1>1 DEF TellsApart, IsPair
  <2>2. t.changed[k][1] = old[i] /\ t.changed[k][2] = new[j]
    BY <2>1
  <2> QED BY <2>1, <2>2
<1> HIDE DEF t
<1>5. /\ Tells(c5, t) /\ c5.changed = changed5 /\ Tells(c4, t) /\ c4.changed = changed4
      /\ Tells(c3, t) /\ c3.changed = changed3
  <2>1. \A k \in DOMAIN t.changed : /\ changed5[k].id = t.changed[k][2].id
                                    /\ changed4[k].id = t.changed[k][2].id
                                    /\ changed3[k].id = t.changed[k][2].id
    BY ActionChangeIds
  <2>2. DOMAIN changed5 = DOMAIN t.changed /\ DOMAIN changed4 = DOMAIN t.changed
        /\ DOMAIN changed3 = DOMAIN t.changed
    OBVIOUS
  <2> HIDE DEF changed5, changed4, changed3, c5, c4, c3
  <2> QED BY <1>2, <1>3, <2>1, <2>2, ComparedTells
<1>6. \A k \in DOMAIN t.changed :
          /\ Major(v) = 5 => PatchedAction(changed5[k], t.changed[k][1]) = t.changed[k][2]
          /\ Major(v) = 4 => PatchedAction(changed4[k], t.changed[k][1]) = t.changed[k][2]
          /\ Major(v) = 3 => PatchedAction(changed3[k], t.changed[k][1]) = t.changed[k][2]
  BY <1>4, ActionsPatched
<1>7. t = changeForListOfComplexProperty(old, new)
  BY DEF t
<1> HIDE DEF changed5, changed4, changed3, c5, c4, c3
<1>8. Major(v) = 5 => PatchedItems(c5, old, PatchedAction) = Range(new)
  BY <1>5, <1>6, <1>7, ItemsPatched
<1>9. Major(v) = 4 => PatchedItems(c4, old, PatchedAction) = Range(new)
  BY <1>5, <1>6, <1>7, ItemsPatched
<1>10. Major(v) = 3 => PatchedItems(c3, old, PatchedAction) = Range(new)
  BY <1>5, <1>6, <1>7, ItemsPatched
<1> QED BY <1>8, <1>9, <1>10 DEF c5, c4, c3, t

\* A risk that is changed is the new one.
LEMMA RiskPatched ==
    ASSUME NEW o \in RiScRisk, NEW n \in RiScRisk
    PROVE  PatchedRisk(compareRisk(o, n), o) = n
<1>1. /\ New(changeForSimpleProperty(o.probability, n.probability), o.probability) = n.probability
      /\ New(changeForSimpleProperty(o.consequence, n.consequence), o.consequence) = n.consequence
  <2>1. {o.probability, n.probability, o.consequence, n.consequence} \subseteq Values
    BY DEF RiScRisk, Values
  <2> QED BY <2>1, PropertyPatched
<1>2. n = [probability |-> n.probability, consequence |-> n.consequence]
  BY DEF RiScRisk
<1> QED BY <1>1, <1>2 DEF PatchedRisk, compareRisk

\* What every version tells of a scenario.
TellsCommon(c, o, n) ==
    /\ c.id = n.id
    /\ c.text = changeForSimpleProperty(o.text, n.text)
    /\ c.threatActors = changeForListOfSimpleProperty(o.threatActors, n.threatActors)
    /\ c.vulnerabilities = changeForListOfSimpleProperty(o.vulnerabilities, n.vulnerabilities)
    /\ c.risk = compareRisk(o.risk, n.risk)
    /\ c.remainingRisk = compareRisk(o.remainingRisk, n.remainingRisk)

\* What is told of a scenario leads to the new one.
LEMMA ScenarioPatched ==
    ASSUME NEW o \in Scenarios, NEW n \in Scenarios, o.id = n.id, NEW c, TellsCommon(c, o, n),
           IF "existingActions" \in DOMAIN c
           THEN c.existingActions = changeForSimpleProperty(o.existingActions, n.existingActions)
           ELSE o.existingActions = n.existingActions,
           PatchedItems(c.actions, o.actions, PatchedAction) = Range(n.actions)
    PROVE  PatchedScenario(c, o) = Unordered(n)
<1>1. {o.text, n.text, o.existingActions, n.existingActions} \subseteq Values
  BY DEF Scenarios, Values
<1>2. New(c.text, o.text) = n.text
  BY <1>1, PropertyPatched DEF TellsCommon
<1>3. Field(c, "existingActions", o.existingActions) = n.existingActions
  <2>1. CASE "existingActions" \in DOMAIN c
    <3>1. c["existingActions"] = changeForSimpleProperty(o.existingActions, n.existingActions)
      BY <2>1
    <3> QED BY <1>1, <2>1, <3>1, PropertyPatched DEF Field
  <2>2. CASE "existingActions" \notin DOMAIN c
    BY <2>2 DEF Field
  <2> QED BY <2>1, <2>2
<1>4. /\ PatchedSet(c.threatActors, o.threatActors) = n.threatActors
      /\ PatchedSet(c.vulnerabilities, o.vulnerabilities) = n.vulnerabilities
  BY SetPatched DEF TellsCommon
<1>5. /\ PatchedRisk(c.risk, o.risk) = n.risk
      /\ PatchedRisk(c.remainingRisk, o.remainingRisk) = n.remainingRisk
  BY RiskPatched, ScenarioParts DEF TellsCommon
<1>6. Unordered(n) = [id |-> n.id, text |-> n.text, threatActors |-> n.threatActors,
                      vulnerabilities |-> n.vulnerabilities, risk |-> n.risk,
                      remainingRisk |-> n.remainingRisk, existingActions |-> n.existingActions,
                      actions |-> Range(n.actions)]
  BY DEF Scenarios, Unordered
<1> QED BY <1>2, <1>3, <1>4, <1>5, <1>6 DEF PatchedScenario

\* What a version compares of a scenario is all it has.
LEMMA ScenariosPatched ==
    ASSUME NEW o \in Scenarios, NEW n \in Scenarios, o.id = n.id, NEW v \in VersionSet,
           ValidScenario(o, v), ValidScenario(n, v), UniqueIds(o.actions), UniqueIds(n.actions)
    PROVE  /\ Major(v) = 5 => PatchedScenario(compareScenario5X(o, n), o) = Unordered(n)
           /\ Major(v) = 4 => PatchedScenario(compareScenario4X(o, n), o) = Unordered(n)
           /\ Major(v) = 3 => PatchedScenario(compareScenario3X(o, n), o) = Unordered(n)
<1> DEFINE t == changeForListOfComplexProperty(o.actions, n.actions)
           a5 == Compared(t, compareAction5X)
           a4 == Compared(t, compareAction4X)
           a3 == Compared(t, compareAction3X)
           c5 == compareScenario5X(o, n)
           c4 == compareScenario4X(o, n)
           c3 == compareScenario3X(o, n)
           existing == changeForSimpleProperty(o.existingActions, n.existingActions)
<1>1. /\ Major(v) = 5 => PatchedItems(a5, o.actions, PatchedAction) = Range(n.actions)
      /\ Major(v) = 4 => PatchedItems(a4, o.actions, PatchedAction) = Range(n.actions)
      /\ Major(v) = 3 => PatchedItems(a3, o.actions, PatchedAction) = Range(n.actions)
  <2>1. o.actions \in Seq(Actions) /\ n.actions \in Seq(Actions)
    BY ScenarioParts
  <2> QED BY <2>1, ActionListsPatched DEF ValidScenario
<1>2. Major(v) # 3 => o.existingActions = n.existingActions
  BY DEF ValidScenario
<1>3. /\ c5 = Extended(compareCommonScenarioFields(o, n), [actions |-> a5])
      /\ c4 = Extended(compareCommonScenarioFields(o, n), [actions |-> a4])
      /\ c3 = Extended(compareCommonScenarioFields(o, n),
                       [actions |-> a3, existingActions |-> existing])
  BY DEF compareScenario5X, compareScenario4X, compareScenario3X
<1> HIDE DEF a5, a4, a3, c5, c4, c3, existing
<1>4. ASSUME NEW a, NEW c, c = Extended(compareCommonScenarioFields(o, n), [actions |-> a])
      PROVE  TellsCommon(c, o, n) /\ c.actions = a /\ "existingActions" \notin DOMAIN c
  BY <1>4 DEF Extended, compareCommonScenarioFields, TellsCommon
<1>5. TellsCommon(c3, o, n) /\ c3.actions = a3 /\ "existingActions" \in DOMAIN c3
      /\ c3.existingActions = existing
  BY <1>3 DEF Extended, compareCommonScenarioFields, TellsCommon
<1>6. Major(v) = 5 => PatchedScenario(c5, o) = Unordered(n)
  <2>1. TellsCommon(c5, o, n) /\ c5.actions = a5 /\ "existingActions" \notin DOMAIN c5
    BY <1>3, <1>4
  <2> QED BY <1>1, <1>2, <2>1, ScenarioPatched
<1>7. Major(v) = 4 => PatchedScenario(c4, o) = Unordered(n)
  <2>1. TellsCommon(c4, o, n) /\ c4.actions = a4 /\ "existingActions" \notin DOMAIN c4
    BY <1>3, <1>4
  <2> QED BY <1>1, <1>2, <2>1, ScenarioPatched
<1>8. Major(v) = 3 => PatchedScenario(c3, o) = Unordered(n)
  BY <1>1, <1>5, ScenarioPatched DEF existing
<1> QED BY <1>6, <1>7, <1>8 DEF c5, c4, c3

\* The scenarios a list of changes leads to.
LEMMA ChangesPatched ==
    ASSUME NEW old \in Seq(Scenarios), NEW new \in Seq(Scenarios), UniqueIds(old), UniqueIds(new),
           NEW t, t = changeForListOfComplexProperty(old, new), NEW c, Tells(c, t),
           \A k \in DOMAIN t.changed :
               PatchedScenario(c.changed[k], t.changed[k][1]) = Unordered(t.changed[k][2])
    PROVE  Scenarios0(c, old) = {Unordered(new[i]) : i \in DOMAIN new}
<1> DEFINE Shown(s) == IF Ids(<<s>>) \subseteq Ids(c.changed) THEN s ELSE Unordered(s)
           changed == {t.changed[k][2] : k \in DOMAIN t.changed}
           patched == {PatchedScenario(c.changed[k], Find(old, c.changed[k].id)) :
                           k \in DOMAIN c.changed}
           same == Unchanged(c, old) \cup Range(c.added)
<1>1. TellsApart(t, old, new)
  BY ListsCompared
<1>2. /\ Range(new) = Unchanged(c, old) \cup changed \cup Range(c.added)
      /\ \A s \in same : s.id \notin Ids(c.changed)
      /\ \A k \in DOMAIN c.changed : Find(old, c.changed[k].id) = t.changed[k][1]
  BY <1>1, ListsPatched
<1>3. DOMAIN c.changed = DOMAIN t.changed
      /\ \A k \in DOMAIN t.changed : c.changed[k].id = t.changed[k][2].id
  BY DEF Tells
<1>4. \A s \in Range(new) : s \in Scenarios
  BY DEF Range
<1>5. patched = {Unordered(s) : s \in changed}
  BY <1>2, <1>3
<1>6. PatchedItems(c, old, PatchedScenario) = same \cup {Unordered(s) : s \in changed}
  BY <1>5 DEF PatchedItems, Unchanged
<1>7. \A s : Ids(<<s>>) = {s.id}
  BY DEF Ids
<1>8. \A s \in same : Shown(s) = Unordered(s)
  BY <1>2, <1>7
<1>9. ASSUME NEW s \in changed PROVE Shown(Unordered(s)) = Unordered(s)
  <2>1. Unordered(s).id = s.id
    BY <1>2, <1>4 DEF Unordered, Scenarios
  <2>2. s.id \in Ids(c.changed)
    BY <1>3 DEF Ids
  <2> HIDE DEF changed
  <2> QED BY <1>7, <2>1, <2>2
<1>10. Scenarios0(c, old) = {Shown(s) : s \in same \cup {Unordered(s) : s \in changed}}
  BY <1>6 DEF Scenarios0
<1> HIDE DEF Shown
<1>11. {Shown(s) : s \in same \cup {Unordered(s) : s \in changed}}
           = {Unordered(s) : s \in same \cup changed}
  <2> HIDE DEF same, changed
  <2> QED BY <1>8, <1>9
<1>12. same \cup changed = Range(new)
  BY <1>2
<1>13. {Unordered(s) : s \in Range(new)} = {Unordered(new[i]) : i \in DOMAIN new}
  BY DEF Range
<1> HIDE DEF same, changed
<1> QED BY <1>10, <1>11, <1>12, <1>13

\* Scenarios with ids of their own, and so their actions.
OwnIds(items) == UniqueIds(items) /\ \A i \in DOMAIN items : UniqueIds(items[i].actions)

\* What a version compares of a scenario has its id.
LEMMA ScenarioChangeIds ==
    ASSUME NEW o, NEW n
    PROVE  /\ compareScenario3X(o, n).id = n.id /\ compareScenario4X(o, n).id = n.id
           /\ compareScenario5X(o, n).id = n.id
<1> DEFINE t == changeForListOfComplexProperty(o.actions, n.actions)
           a5 == Compared(t, compareAction5X)
           a4 == Compared(t, compareAction4X)
           a3 == Compared(t, compareAction3X)
           existing == changeForSimpleProperty(o.existingActions, n.existingActions)
<1>1. /\ compareScenario5X(o, n) = Extended(compareCommonScenarioFields(o, n), [actions |-> a5])
      /\ compareScenario4X(o, n) = Extended(compareCommonScenarioFields(o, n), [actions |-> a4])
      /\ compareScenario3X(o, n) = Extended(compareCommonScenarioFields(o, n),
                                      [actions |-> a3, existingActions |-> existing])
  BY DEF compareScenario5X, compareScenario4X, compareScenario3X
<1> HIDE DEF a5, a4, a3, existing
<1> QED BY <1>1 DEF Extended, compareCommonScenarioFields

\* What is told of the scenarios of a document is all that is different.
LEMMA ScenarioListsPatched ==
    ASSUME NEW old \in Seq(Scenarios), NEW new \in Seq(Scenarios), OwnIds(old), OwnIds(new),
           NEW v \in VersionSet, \A i \in DOMAIN old : ValidScenario(old[i], v),
           \A i \in DOMAIN new : ValidScenario(new[i], v)
    PROVE  LET t == changeForListOfComplexProperty(old, new)
               all == {Unordered(new[i]) : i \in DOMAIN new}
           IN  /\ Major(v) = 5 => Scenarios0(Compared(t, compareScenario5X), old) = all
               /\ Major(v) = 4 => Scenarios0(Compared(t, compareScenario4X), old) = all
               /\ Major(v) = 3 => Scenarios0(Compared(t, compareScenario3X), old) = all
<1> DEFINE t == changeForListOfComplexProperty(old, new)
           c5 == Compared(t, compareScenario5X)
           c4 == Compared(t, compareScenario4X)
           c3 == Compared(t, compareScenario3X)
           changed5 == [k \in DOMAIN t.changed |->
                           compareScenario5X(t.changed[k][1], t.changed[k][2])]
           changed4 == [k \in DOMAIN t.changed |->
                           compareScenario4X(t.changed[k][1], t.changed[k][2])]
           changed3 == [k \in DOMAIN t.changed |->
                           compareScenario3X(t.changed[k][1], t.changed[k][2])]
<1>1. TellsApart(t, old, new) /\ UniqueIds(old) /\ UniqueIds(new)
  BY ListsCompared DEF OwnIds
<1>2. c5 = [t EXCEPT !.changed = changed5] /\ c4 = [t EXCEPT !.changed = changed4]
      /\ c3 = [t EXCEPT !.changed = changed3]
  BY DEF Compared
<1>3. t = [deleted |-> t.deleted, changed |-> t.changed, added |-> t.added]
  BY <1>1 DEF TellsApart
<1>4. ASSUME NEW k \in DOMAIN t.changed
      PROVE  LET o == t.changed[k][1]
                 n == t.changed[k][2]
             IN  o \in Scenarios /\ n \in Scenarios /\ o.id = n.id
                 /\ ValidScenario(o, v) /\ ValidScenario(n, v)
                 /\ UniqueIds(o.actions) /\ UniqueIds(n.actions)
  <2>1. PICK i \in DOMAIN old, j \in DOMAIN new :
            t.changed[k] = <<old[i], new[j]>> /\ old[i].id = new[j].id
    BY <1>1 DEF TellsApart, IsPair
  <2>2. t.changed[k][1] = old[i] /\ t.changed[k][2] = new[j]
    BY <2>1
  <2> QED BY <2>1, <2>2 DEF OwnIds
<1> HIDE DEF t
<1>5. /\ Tells(c5, t) /\ c5.changed = changed5 /\ Tells(c4, t) /\ c4.changed = changed4
      /\ Tells(c3, t) /\ c3.changed = changed3
  <2>1. \A k \in DOMAIN t.changed : /\ changed5[k].id = t.changed[k][2].id
                                    /\ changed4[k].id = t.changed[k][2].id
                                    /\ changed3[k].id = t.changed[k][2].id
    BY ScenarioChangeIds
  <2>2. DOMAIN changed5 = DOMAIN t.changed /\ DOMAIN changed4 = DOMAIN t.changed
        /\ DOMAIN changed3 = DOMAIN t.changed
    OBVIOUS
  <2> HIDE DEF changed5, changed4, changed3, c5, c4, c3
  <2> QED BY <1>2, <1>3, <2>1, <2>2, ComparedTells
<1>6. \A k \in DOMAIN t.changed :
          LET o == t.changed[k][1]
              n == t.changed[k][2]
          IN  /\ Major(v) = 5 => PatchedScenario(changed5[k], o) = Unordered(n)
              /\ Major(v) = 4 => PatchedScenario(changed4[k], o) = Unordered(n)
              /\ Major(v) = 3 => PatchedScenario(changed3[k], o) = Unordered(n)
  BY <1>4, ScenariosPatched
<1>7. t = changeForListOfComplexProperty(old, new)
  BY DEF t
<1> DEFINE all == {Unordered(new[i]) : i \in DOMAIN new}
<1> HIDE DEF changed5, changed4, changed3, c5, c4, c3
<1>8. Major(v) = 5 => Scenarios0(c5, old) = all
  BY <1>1, <1>5, <1>6, <1>7, ChangesPatched
<1>9. Major(v) = 4 => Scenarios0(c4, old) = all
  BY <1>1, <1>5, <1>6, <1>7, ChangesPatched
<1>10. Major(v) = 3 => Scenarios0(c3, old) = all
  BY <1>1, <1>5, <1>6, <1>7, ChangesPatched
<1> QED BY <1>8, <1>9, <1>10 DEF c5, c4, c3, t

\* Documents whose scenarios and actions have ids of their own.
OwnDocuments == {doc \in RiScDocuments : OwnIds(doc.scenarios)}

\* A document retold has them, too.
LEMMA RetoldOwn ==
    ASSUME NEW old \in OwnDocuments, NEW new \in RiScDocuments, Retells(old, new)
    PROVE  OwnIds(new.scenarios)
<1>1. DOMAIN new.scenarios = DOMAIN old.scenarios /\ OwnIds(old.scenarios)
  BY DEF Retells, OwnDocuments
<1>2. ASSUME NEW i \in DOMAIN old.scenarios
      PROVE  /\ new.scenarios[i].id = old.scenarios[i].id
             /\ IdList(new.scenarios[i].actions) = IdList(old.scenarios[i].actions)
  BY DEF Retells, Traits
<1>3. UniqueIds(new.scenarios)
  BY <1>1, <1>2 DEF OwnIds, UniqueIds
<1>4. ASSUME NEW i \in DOMAIN new.scenarios PROVE UniqueIds(new.scenarios[i].actions)
  <2>1. UniqueIds(old.scenarios[i].actions)
    BY <1>1 DEF OwnIds
  <2> QED BY <1>1, <1>2, <2>1, ApartIds
<1> QED BY <1>3, <1>4 DEF OwnIds

\* The document that another is compared with.
LEMMA BaseOf ==
    ASSUME NEW old \in OwnDocuments, Valid(old), NEW toVersion,
           NEW m, m = migrate(old, None, toVersion), ~m.failed
    PROVE  /\ m.doc \in OwnDocuments /\ Valid(m.doc) /\ m.doc.schemaVersion = toVersion
           /\ toVersion \in VersionSet
<1> DEFINE status == [NoChanges EXCEPT !.fromVersion = old.schemaVersion, !.toVersion = toVersion]
           result == handleMigrate(old, None, status, toVersion)
<1>1. old \in RiScDocuments
  BY DEF OwnDocuments
<1>2. Fit(old) /\ old.schemaVersion \in VersionSet
  BY <1>1, ValidFits
<1>3. None \in OrNone(Times)
  BY DEF OrNone
<1>4. m = IF \/ toVersion \notin VersionSet \/ ~Since(toVersion, old.schemaVersion)
             \/ result.failed \/ ~Valid(result.doc)
          THEN Failed(status) ELSE result
  BY DEF migrate
<1> HIDE DEF status
<1>5. Failed(status).failed
  BY DEF Failed
<1>6. m = result /\ ~result.failed /\ Valid(result.doc)
  BY <1>4, <1>5
<1>7. Fit(result.doc) /\ result.doc.schemaVersion = toVersion /\ toVersion \in VersionSet
  BY <1>2, <1>3, <1>6, MigrationLeads
<1>8. Retold(old, result)
  BY <1>2, <1>3, MigrationRetells
<1> HIDE DEF result
<1>9. result.doc \in RiScDocuments
  BY <1>7 DEF Fit
<1>10. Retells(old, result.doc)
  BY <1>6, <1>8 DEF Retold
<1> QED BY <1>6, <1>7, <1>9, <1>10, RetoldOwn DEF OwnDocuments

\* What a comparison says of a document.
LEMMA ComparisonTells ==
    ASSUME NEW updated, NEW old, NEW status, NEW major, NEW scenarios,
           NEW told,
           told = Extended(compareCommonRiScFields(old, updated, status),
                           [type |-> major, scenarios |-> scenarios])
    PROVE  /\ told.text = changeForSimpleProperty(old.text, updated.text)
           /\ told.valuations = changeForListOfSimpleProperty(old.valuations, updated.valuations)
           /\ told.scenarios = scenarios
BY DEF Extended, compareCommonRiScFields

\* The parts of a document.
LEMMA DocumentParts ==
    ASSUME NEW doc \in RiScDocuments
    PROVE  doc.text \in Values /\ doc.scenarios \in Seq(Scenarios)
BY DEF RiScDocuments, Values

\* ComparisonService.ts:497: what is told of two documents is all that is
\* different.
LEMMA ExplainsAll ==
    ASSUME NEW updated \in OwnDocuments, NEW old \in OwnDocuments, Valid(updated), Valid(old),
           NEW told, told = compare(updated, old, None), told # None
    PROVE  Explains(told, updated, old)
<1> DEFINE v == updated.schemaVersion
           m == migrate(old, None, v)
           base == m.doc
           t == changeForListOfComplexProperty(base.scenarios, updated.scenarios)
           s5 == Compared(t, compareScenario5X)
           s4 == Compared(t, compareScenario4X)
           s3 == Compared(t, compareScenario3X)
           common == compareCommonRiScFields(base, updated, m.status)
           all == {Unordered(updated.scenarios[i]) : i \in DOMAIN updated.scenarios}
<1>1. ~m.failed
  BY DEF compare
<1>2. told = CASE Major(v) = 5 -> comparison5X(updated, base, m.status)
               [] Major(v) = 4 -> comparison4X(updated, base, m.status)
               [] OTHER -> comparison3X(updated, base, m.status)
  BY <1>1 DEF compare
<1>3. base \in OwnDocuments /\ Valid(base) /\ base.schemaVersion = v /\ v \in VersionSet
  BY <1>1, BaseOf
<1>4. Major(v) \in {3, 4, 5}
  BY <1>3, VersionsAre, Majors
<1>5. /\ comparison5X(updated, base, m.status) = Extended(common, [type |-> 5, scenarios |-> s5])
      /\ comparison4X(updated, base, m.status) = Extended(common, [type |-> 4, scenarios |-> s4])
      /\ comparison3X(updated, base, m.status) = Extended(common, [type |-> 3, scenarios |-> s3])
  BY DEF comparison5X, comparison4X, comparison3X, comparison
<1>6. updated \in RiScDocuments /\ OwnIds(updated.scenarios) /\ base \in RiScDocuments
      /\ OwnIds(base.scenarios)
  BY <1>3 DEF OwnDocuments
<1>7. /\ updated.text \in Values /\ updated.scenarios \in Seq(Scenarios)
      /\ base.text \in Values /\ base.scenarios \in Seq(Scenarios)
  BY <1>6, DocumentParts
<1>8. /\ \A i \in DOMAIN base.scenarios : ValidScenario(base.scenarios[i], v)
      /\ \A i \in DOMAIN updated.scenarios : ValidScenario(updated.scenarios[i], v)
  BY <1>3 DEF Valid
<1>9. /\ Major(v) = 5 => Scenarios0(s5, base.scenarios) = all
      /\ Major(v) = 4 => Scenarios0(s4, base.scenarios) = all
      /\ Major(v) = 3 => Scenarios0(s3, base.scenarios) = all
  <2> HIDE DEF base, m, v
  <2>0. v \in VersionSet
    BY <1>3
  <2> QED BY <1>6, <1>7, <1>8, <2>0, ScenarioListsPatched
<1> HIDE DEF s5, s4, s3, t, all, common
<1>10. PICK s \in {s5, s4, s3}, major \in {3, 4, 5} :
            /\ told = Extended(common, [type |-> major, scenarios |-> s])
            /\ Scenarios0(s, base.scenarios) = all
  BY <1>2, <1>4, <1>5, <1>9
<1>11. /\ told.text = changeForSimpleProperty(base.text, updated.text)
       /\ told.valuations = changeForListOfSimpleProperty(base.valuations, updated.valuations)
       /\ told.scenarios = s
  BY <1>10, ComparisonTells DEF common
<1>12. updated.text = New(told.text, base.text)
  BY <1>7, <1>11, PropertyPatched
<1>13. updated.valuations = PatchedSet(told.valuations, base.valuations)
  BY <1>11, SetPatched
<1>14. Scenarios0(told.scenarios, base.scenarios) = all
  BY <1>10, <1>11
<1> QED BY <1>12, <1>13, <1>14 DEF Explains, all

\* What is compared has ids of its own, and the difference is that of what is
\* published.
ComparedInv ==
    /\ files.published # None => files.published \in OwnDocuments
    /\ {difference.asked, difference.of} \ {None} \subseteq OwnDocuments
    /\ difference.value # None =>
           difference.of # None /\ difference.value = FetchedDifference(files, difference.of)

\* What is published never changes.
LEMMA PublishedStays ==
    ASSUME FilesOK, [Next]_vars PROVE files'.published = files.published
<1>1. CASE Serve
  BY <1>1 DEF Serve, Stored, FilesOK
<1>2. CASE ApproveRiSc
  <2> DEFINE pr == files.draft # None
  <2>1. files' = files \/ files' = [files EXCEPT !.pr = pr]
    BY <1>2 DEF ApproveRiSc
  <2> HIDE DEF pr
  <2> QED BY <2>1 DEF FilesOK
<1> QED BY <1>1, <1>2, FilesUntouched

\* A difference is that of what is published.
LEMMA DifferenceOfPublished ==
    ASSUME NEW f, NEW g, f.published = g.published, NEW doc
    PROVE  FetchedDifference(f, doc) = FetchedDifference(g, doc)
BY DEF FetchedDifference

\* What is sent of what the page shows.
LEMMA SentIsOwn ==
    ASSUME EditorInv, TableInv, HeldInv, content # None PROVE riScToDTO(content) \in OwnDocuments
<1> DEFINE d == riScToDTO(content)
<1>1. content \in RiScDocuments /\ UniqueIds(content.scenarios)
  BY ContentIsUnique DEF TableInv
<1>2. d \in RiScDocuments
  BY <1>1, DTODocument
<1>3. UniqueIds(d.scenarios)
  BY <1>1, DTOKeepsIds, SameIdsUnique
<1>4. SeenIn(d.scenarios) = SeenIn(content.scenarios)
  BY <1>1, SentIsSeen
<1> HIDE DEF d
<1>5. ASSUME NEW i \in DOMAIN d.scenarios PROVE UniqueIds(d.scenarios[i].actions)
  <2>1. Seen(d.scenarios[i]) \in SeenIn(content.scenarios)
    BY <1>4 DEF SeenIn
  <2>2. ContentSeen(content) = SeenIn(content.scenarios)
    BY DEF ContentSeen
  <2>3. Seen(d.scenarios[i]) \in Held
    BY <2>1, <2>2 DEF Held, content
  <2>4. Apart(Seen(d.scenarios[i]).actions)
    BY <2>3 DEF HeldInv
  <2>5. Seen(d.scenarios[i]).actions = IdList(d.scenarios[i].actions)
    BY SeenIs
  <2> QED BY <2>4, <2>5, ApartIds
<1> QED BY <1>2, <1>3, <1>5 DEF OwnDocuments, OwnIds, d

\* What is stored as a draft.
LEMMA DraftIsOwn ==
    ASSUME EditorInv, TableInv, HeldInv, files.draft # None PROVE files.draft \in OwnDocuments
<1>1. files.draft \in Docs
  BY DEF Docs
<1>2. files.draft \in RiScDocuments /\ UniqueIds(files.draft.scenarios)
  BY <1>1 DEF EditorInv, FilesOK, TableInv, UniqueFiles
<1>3. ToShow(files) = files.draft
  BY DEF ToShow
<1>4. ASSUME NEW i \in DOMAIN files.draft.scenarios
      PROVE  UniqueIds(files.draft.scenarios[i].actions)
  <2> DEFINE x == Traits(files.draft.scenarios[i], files.draft.schemaVersion)
  <2>1. x \in Held
    BY <1>3 DEF Held, StoredSeen
  <2>2. x.actions = IdList(files.draft.scenarios[i].actions)
    BY DEF Traits
  <2> HIDE DEF x
  <2>3. Apart(x.actions)
    BY <2>1 DEF HeldInv
  <2> QED BY <2>2, <2>3, ApartIds
<1> QED BY <1>2, <1>4 DEF OwnDocuments, OwnIds

\* At first nothing is compared.
LEMMA ComparedInvInit == Init => ComparedInv
<1> SUFFICES ASSUME Init PROVE ComparedInv
  OBVIOUS
<1>1. PICK f \in Files : files = [published |-> f.published, draft |-> f.draft, pr |-> f.pr,
                                  sops |-> f.sops]
  BY DEF Init
<1>2. files.published = f.published
  BY <1>1
<1>3. ASSUME f.published # None PROVE f.published \in OwnDocuments
  <2>1. f.published \in {f.published, f.draft} \ {None}
    BY <1>3
  <2>2. f.published \in RiScDocuments /\ UniqueIds(f.published.scenarios)
    BY <2>1, EditorAssumption
  <2>3. \A i \in DOMAIN f.published.scenarios : UniqueIds(f.published.scenarios[i].actions)
    BY <2>1, ActionsAssumption
  <2> QED BY <2>2, <2>3 DEF OwnDocuments, OwnIds
<1>4. difference = NoDifference
  BY DEF Init
<1>5. difference.asked = None /\ difference.of = None /\ difference.value = None
  BY <1>4 DEF NoDifference
<1> QED BY <1>2, <1>3, <1>5 DEF ComparedInv

\* Every step keeps it.
LEMMA ComparedInvStep ==
    ScenariosInv /\ DifferenceInv /\ ComparedInv /\ [Next]_vars => ComparedInv'
<1> SUFFICES ASSUME ScenariosInv, DifferenceInv, ComparedInv, [Next]_vars PROVE ComparedInv'
  OBVIOUS
<1>1. EditorInv /\ TableInv /\ HeldInv /\ FilesOK /\ PageShape /\ DifferenceShape
  BY DEF ScenariosInv, EditorInv, KeptInv, DifferenceInv
<1>2. files'.published = files.published
  BY <1>1, PublishedStays
<1>3. files'.published # None => files'.published \in OwnDocuments
  BY <1>2 DEF ComparedInv
<1>4. \A doc : FetchedDifference(files', doc) = FetchedDifference(files, doc)
  BY <1>2, DifferenceOfPublished
<1> DEFINE diff == difference
           Exact(e) == e.value # None =>
                          e.of # None /\ e.value = FetchedDifference(files, e.of)
           Own(e) == {e.asked, e.of} \ {None} \subseteq OwnDocuments
<1>5. Exact(difference) /\ Own(difference)
  BY DEF ComparedInv
<1>6. SUFFICES Exact(difference') /\ Own(difference')
  BY <1>3, <1>4 DEF ComparedInv
<1>7. CASE difference' = difference
  BY <1>5, <1>7
<1>8. CASE Renders
  <2>1. PICK p : difference' = RiScStatusComponent(difference, p)
    BY <1>8 DEF Renders, Show
  <2>2. CASE difference' = [NoDifference EXCEPT !.asked = difference.asked,
                                                !.late = difference.asked # None]
    <3>1. difference' = [loading |-> FALSE, asked |-> difference.asked,
                         late |-> difference.asked # None, shown |-> FALSE,
                         value |-> None, of |-> None]
      BY <2>2 DEF NoDifference
    <3>2. difference'.asked = difference.asked /\ difference'.value = None
          /\ difference'.of = None
      BY <3>1
    <3> QED BY <1>5, <3>2
  <2> QED BY <1>7, <2>1, <2>2 DEF RiScStatusComponent
<1>9. CASE GetDifferences
  <2>1. difference' = [loading |-> TRUE, asked |-> riScToDTO(content),
                       late |-> difference.late, shown |-> difference.shown,
                       value |-> difference.value, of |-> difference.of]
    BY <1>1, <1>9 DEF GetDifferences, DifferenceShape
  <2>2. content # None
    BY <1>9 DEF GetDifferences, AtTable
  <2>3. riScToDTO(content) \in OwnDocuments
    BY <1>1, <2>2, SentIsOwn
  <2>4. difference'.asked = riScToDTO(content) /\ difference'.value = difference.value
        /\ difference'.of = difference.of
    BY <2>1
  <2> QED BY <1>5, <2>3, <2>4
<1>10. CASE OnDifference
  <2>1. difference.asked # None
    BY <1>10 DEF OnDifference
  <2>2. difference' = [loading |-> FALSE, asked |-> None, late |-> difference.late,
                       shown |-> TRUE, value |-> FetchedDifference(files, difference.asked),
                       of |-> difference.asked]
    BY <1>10 DEF OnDifference, NoDifference
  <2>3. difference'.asked = None /\ difference'.of = difference.asked
        /\ difference'.value = FetchedDifference(files, difference.asked)
    BY <2>2
  <2> QED BY <1>5, <2>1, <2>3
<1>11. CASE OnDifferenceError
  <2>1. difference' = NoDifference
    BY <1>11 DEF OnDifferenceError
  <2>2. difference'.asked = None /\ difference'.of = None /\ difference'.value = None
    BY <2>1 DEF NoDifference
  <2> QED BY <2>2
<1>12. CASE UNCHANGED vars
  BY <1>7, <1>12 DEF vars
<1> QED BY <1>1, <1>7, <1>8, <1>9, <1>10, <1>11, <1>12, StepsOfThePage DEF LeavesAlone

\* ComparisonService.ts:497: what the service tells of a published file and a
\* draft, of any versions, and what the page has been told about what it shows,
\* is all that is different: applied to the older document it is the newer one.
THEOREM DifferencesAreExact == Spec => []DifferenceIsExact
<1> DEFINE Inv == ScenariosInv /\ DifferenceInv /\ ComparedInv
<1>1. Init => Inv
  BY ScenariosInvHolds, DifferenceInvInit, ComparedInvInit
<1>2. Inv /\ [Next]_vars => Inv'
  BY ScenariosInvHolds, DifferenceInvStep, ComparedInvStep
<1>3. Inv => DifferenceIsExact
  <2> SUFFICES ASSUME Inv PROVE DifferenceIsExact
    OBVIOUS
  <2>1. ComparedInv /\ EditorInv /\ TableInv /\ HeldInv
    BY DEF ScenariosInv, KeptInv
  <2>2. ASSUME difference.value # None
        PROVE  Explains(difference.value, difference.of, files.published)
    <3> DEFINE told == compare(difference.of, files.published, None)
    <3>1. difference.of # None /\ difference.value = FetchedDifference(files, difference.of)
      BY <2>1, <2>2 DEF ComparedInv
    <3>2. files.published # None /\ Valid(difference.of) /\ Valid(files.published)
          /\ difference.value = told
      BY <2>2, <3>1 DEF FetchedDifference
    <3>3. difference.of \in OwnDocuments /\ files.published \in OwnDocuments
      BY <2>1, <3>1, <3>2 DEF ComparedInv
    <3> HIDE DEF told
    <3>4. difference.value = compare(difference.of, files.published, None)
      BY <3>2 DEF told
    <3> QED BY <2>2, <3>2, <3>3, <3>4, ExplainsAll
  <2>3. ASSUME files.published # None, files.draft # None,
               Valid(files.published), Valid(files.draft),
               compare(files.draft, files.published, None) # None
        PROVE  Explains(compare(files.draft, files.published, None), files.draft,
                        files.published)
    <3>1. files.published \in OwnDocuments /\ files.draft \in OwnDocuments
      BY <2>1, <2>3, DraftIsOwn DEF ComparedInv
    <3> QED BY <2>3, <3>1, ExplainsAll
  <2> QED BY <2>2, <2>3 DEF DifferenceIsExact
<1> QED BY <1>1, <1>2, <1>3, PTL DEF Spec

-----------------------------------------------------------------------------
(* What a migration reports.                                               *)

\* What is found in a report about an item that is in it.
LEMMA ToldItem ==
    ASSUME NEW S, None \notin Seq(S), NEW list \in Seq(S), UniqueIds(list),
           NEW indices \in SUBSET (DOMAIN list), NEW i \in indices
    PROVE  Told(OrNull(ItemsAt(list, indices)), list[i].id) = list[i]
<1> DEFINE told == ItemsAt(list, indices)
<1>1. /\ told \in Seq(S) /\ Range(told) = {list[k] : k \in indices} /\ UniqueIds(told)
  BY ItemsAtIsSeq
<1> HIDE DEF told
<1>2. PICK k \in DOMAIN told : told[k] = list[i]
  BY <1>1 DEF Range
<1>3. told # <<>> /\ told # None
  BY <1>1, <1>2
<1>4. Find(told, told[k].id) = told[k]
  BY <1>1, FindsTheOnly
<1>5. list[i].id \in Ids(told)
  BY <1>2 DEF Ids
<1>6. OrNull(told) = told
  BY <1>3 DEF OrNull
<1>7. Told(told, list[i].id) = list[i]
  BY <1>2, <1>3, <1>4, <1>5 DEF Told
<1> QED BY <1>6, <1>7 DEF told

\* So is an item of a list of all of them.
LEMMA ToldOfAll ==
    ASSUME NEW S, None \notin Seq(S), NEW list \in Seq(S), UniqueIds(list), NEW i \in DOMAIN list
    PROVE  Told(list, list[i].id) = list[i]
<1>1. list # None
  OBVIOUS
<1>2. list[i].id \in Ids(list)
  BY DEF Ids
<1>3. Find(list, list[i].id) = list[i]
  BY FindsTheOnly
<1> QED BY <1>1, <1>2, <1>3 DEF Told

\* The reports of the steps that have one, of the scenarios they begin with.
Report40(items) == OrNull(Changed(items, Change40, HasChange40))

Report41(items) == OrNull(Changed(items, Change41, HasChange41))

Report42(items, lastPublished) ==
    OrNull(Changed(items, LAMBDA s : Change42(s, lastPublished), HasActions))

Report50(items) == OrNull(Changed(items, Change50, HasActions))

Report51(items) == OrNull(Changed(items, Change51, HasActions))

\* The parts of a status that report the changes of a step, and all of them.
ReportNames ==
    {"migrationChanges40", "migrationChanges41", "migrationChanges42", "migrationChanges50",
     "migrationChanges51", "migrationChanges52"}

StatusNames ==
    ReportNames
    \cup {"migrationChanges", "migrationRequiresNewApproval", "fromVersion", "toVersion"}

\* A status with one report more.
Adds(new, old, name, report) ==
    /\ DOMAIN new = StatusNames /\ new[name] = report /\ new.fromVersion = old.fromVersion
    /\ \A other \in ReportNames \ {name} : new[other] = old[other]

\* A report is added, by a step that asks for an approval.
LEMMA ReportAdded ==
    ASSUME NEW status, DOMAIN status = StatusNames, NEW report, NEW name \in ReportNames,
           NEW new, new = [Approved(status) EXCEPT ![name] = report]
    PROVE  Adds(new, status, name, report) /\ new.migrationRequiresNewApproval
<1> DEFINE approved == Approved(status)
<1>1. /\ DOMAIN approved = StatusNames /\ approved.fromVersion = status.fromVersion
      /\ approved.migrationRequiresNewApproval = TRUE
      /\ \A other \in ReportNames : approved[other] = status[other]
  BY DEF Approved, StatusNames, ReportNames
<1>2. new = [approved EXCEPT ![name] = report]
  OBVIOUS
<1> HIDE DEF approved
<1>3. Adds(new, status, name, report) /\ new.migrationRequiresNewApproval = TRUE
  BY <1>1, <1>2 DEF Adds, StatusNames, ReportNames
<1> QED BY <1>3

\* The step to version 4.2 asks for none.
LEMMA OnlyReportAdded ==
    ASSUME NEW status, DOMAIN status = StatusNames, NEW report,
           NEW new, new = [status EXCEPT !["migrationChanges42"] = report]
    PROVE  /\ Adds(new, status, "migrationChanges42", report)
           /\ new.migrationRequiresNewApproval = status.migrationRequiresNewApproval
  BY DEF Adds, StatusNames, ReportNames

\* What each step says.
LEMMA StatusSteps ==
    ASSUME NEW doc, NEW lastPublished, NEW status, DOMAIN status = StatusNames,
           NEW r, r = executeMigration(doc, lastPublished, status), ~r.failed
    PROVE  /\ doc.schemaVersion = "3.2" => r.status = status
           /\ doc.schemaVersion = "3.3" =>
                  /\ Adds(r.status, status, "migrationChanges40", Report40(doc.scenarios))
                  /\ r.status.migrationRequiresNewApproval
           /\ doc.schemaVersion = "4.0" =>
                  /\ Adds(r.status, status, "migrationChanges41", Report41(doc.scenarios))
                  /\ r.status.migrationRequiresNewApproval
           /\ doc.schemaVersion = "4.1" =>
                  /\ Adds(r.status, status, "migrationChanges42",
                          Report42(doc.scenarios, lastPublished))
                  /\ r.status.migrationRequiresNewApproval = status.migrationRequiresNewApproval
           /\ doc.schemaVersion = "4.2" =>
                  /\ Adds(r.status, status, "migrationChanges50", Report50(doc.scenarios))
                  /\ r.status.migrationRequiresNewApproval
           /\ doc.schemaVersion = "5.0" =>
                  /\ Adds(r.status, status, "migrationChanges51", Report51(doc.scenarios))
                  /\ r.status.migrationRequiresNewApproval
           /\ doc.schemaVersion = "5.1" =>
                  /\ Adds(r.status, status, "migrationChanges52", Cardinality(doc.valuations))
                  /\ r.status.migrationRequiresNewApproval
<1>1. ASSUME doc.schemaVersion = "3.2" PROVE r.status = status
  BY <1>1 DEF executeMigration, migrateFrom32To33, Migrated
<1>2. ASSUME doc.schemaVersion = "3.3"
      PROVE  r.status = [Approved(status) EXCEPT !["migrationChanges40"] = Report40(doc.scenarios)]
  BY <1>2 DEF executeMigration, migrateFrom33To40, Migrated, Report40
<1>3. ASSUME doc.schemaVersion = "4.0"
      PROVE  r.status = [Approved(status) EXCEPT !["migrationChanges41"] = Report41(doc.scenarios)]
  <2>1. r = migrateFrom40To41(doc, status)
    BY <1>3 DEF executeMigration
  <2> QED BY <2>1 DEF migrateFrom40To41, Migrated, Failed, Report41
<1>4. ASSUME doc.schemaVersion = "4.1"
      PROVE  r.status = [status EXCEPT !["migrationChanges42"] =
                            Report42(doc.scenarios, lastPublished)]
  BY <1>4 DEF executeMigration, migrateFrom41To42, Migrated, Report42
<1>5. ASSUME doc.schemaVersion = "4.2"
      PROVE  r.status = [Approved(status) EXCEPT !["migrationChanges50"] = Report50(doc.scenarios)]
  BY <1>5 DEF executeMigration, migrateFrom42To50, Migrated, Report50
<1>6. ASSUME doc.schemaVersion = "5.0"
      PROVE  r.status = [Approved(status) EXCEPT !["migrationChanges51"] = Report51(doc.scenarios)]
  BY <1>6 DEF executeMigration, migrateFrom50To51, Migrated, Report51
<1>7. ASSUME doc.schemaVersion = "5.1"
      PROVE  /\ Adds(r.status, status, "migrationChanges52", Cardinality(doc.valuations))
             /\ r.status.migrationRequiresNewApproval
  <2> DEFINE changes == status.migrationChanges \/ doc.valuations # {}
             number == Cardinality(doc.valuations)
             x == [status EXCEPT !.migrationChanges = changes]
             y == [x EXCEPT !.migrationRequiresNewApproval = TRUE]
             z == [y EXCEPT !.migrationChanges52 = number]
  <2>1. r.status = z
    BY <1>7 DEF executeMigration, migrateFrom51To52, Migrated
  <2> HIDE DEF changes, number
  <2>2. DOMAIN x = StatusNames /\ x.fromVersion = status.fromVersion
        /\ \A name \in ReportNames : x[name] = status[name]
    BY DEF StatusNames, ReportNames
  <2> HIDE DEF x
  <2>3. DOMAIN y = StatusNames /\ y.fromVersion = status.fromVersion
        /\ y.migrationRequiresNewApproval = TRUE
        /\ \A name \in ReportNames : y[name] = status[name]
    BY <2>2 DEF StatusNames, ReportNames
  <2> HIDE DEF y
  <2>4. /\ Adds(z, status, "migrationChanges52", number)
        /\ z.migrationRequiresNewApproval = TRUE
    BY <2>3 DEF StatusNames, ReportNames, Adds
  <2> QED BY <2>1, <2>4 DEF number
<1>8. ASSUME NEW name \in ReportNames, NEW report,
             r.status = [Approved(status) EXCEPT ![name] = report]
      PROVE  Adds(r.status, status, name, report) /\ r.status.migrationRequiresNewApproval
  BY <1>8, ReportAdded
<1>9. {"migrationChanges40", "migrationChanges41", "migrationChanges50", "migrationChanges51"}
          \subseteq ReportNames
  BY DEF ReportNames
<1>10. ASSUME doc.schemaVersion = "4.1"
       PROVE  /\ Adds(r.status, status, "migrationChanges42",
                      Report42(doc.scenarios, lastPublished))
              /\ r.status.migrationRequiresNewApproval = status.migrationRequiresNewApproval
  <2> DEFINE report == Report42(doc.scenarios, lastPublished)
             new == r.status
  <2>1. new = [status EXCEPT !["migrationChanges42"] = report]
    BY <1>4, <1>10
  <2> HIDE DEF report, new
  <2>2. /\ Adds(new, status, "migrationChanges42", report)
        /\ new.migrationRequiresNewApproval = status.migrationRequiresNewApproval
    BY <2>1, OnlyReportAdded
  <2> QED BY <2>2 DEF report, new
<1>11. doc.schemaVersion = "3.3" =>
           /\ Adds(r.status, status, "migrationChanges40", Report40(doc.scenarios))
           /\ r.status.migrationRequiresNewApproval
  BY <1>2, <1>8, <1>9
<1>12. doc.schemaVersion = "4.0" =>
           /\ Adds(r.status, status, "migrationChanges41", Report41(doc.scenarios))
           /\ r.status.migrationRequiresNewApproval
  BY <1>3, <1>8, <1>9
<1>13. doc.schemaVersion = "4.2" =>
           /\ Adds(r.status, status, "migrationChanges50", Report50(doc.scenarios))
           /\ r.status.migrationRequiresNewApproval
  BY <1>5, <1>8, <1>9
<1>14. doc.schemaVersion = "5.0" =>
           /\ Adds(r.status, status, "migrationChanges51", Report51(doc.scenarios))
           /\ r.status.migrationRequiresNewApproval
  BY <1>6, <1>8, <1>9
<1> QED BY <1>1, <1>7, <1>10, <1>11, <1>12, <1>13, <1>14

\* A change of that set for each item of a list.
EachChange(changes, items, S) ==
    /\ None \notin S /\ None \notin Seq(S)
    /\ DOMAIN changes = DOMAIN items /\ changes = [k \in DOMAIN changes |-> changes[k]]
    /\ \A k \in DOMAIN items : changes[k] \in S /\ changes[k].id = items[k].id

\* What is found in a report about an item is its change, if that is in it.
LEMMA ToldOfItem ==
    ASSUME NEW S, NEW T, NEW items \in Seq(T), UniqueIds(items), NEW changes,
           EachChange(changes, items, S), NEW indices \in SUBSET (DOMAIN items),
           NEW i \in indices
    PROVE  /\ Told(OrNull(ItemsAt(changes, indices)), items[i].id) = changes[i]
           /\ Told(ItemsAt(changes, indices), items[i].id) = changes[i]
           /\ changes[i] # None /\ ItemsAt(changes, indices) # <<>>
<1>0. /\ None \notin S /\ None \notin Seq(S)
      /\ DOMAIN changes = DOMAIN items /\ changes = [k \in DOMAIN changes |-> changes[k]]
      /\ \A k \in DOMAIN items : changes[k] \in S /\ changes[k].id = items[k].id
  BY DEF EachChange
<1> DEFINE told == ItemsAt(changes, indices)
<1>1. changes \in Seq(S)
  BY <1>0, MappedList
<1>2. UniqueIds(changes)
  BY <1>0 DEF UniqueIds
<1>3. indices \in SUBSET (DOMAIN changes)
  BY <1>0
<1>4. Told(OrNull(told), changes[i].id) = changes[i]
  BY <1>0, <1>1, <1>2, <1>3, ToldItem
<1>5. told \in Seq(S) /\ Range(told) = {changes[k] : k \in indices}
  BY <1>1, <1>3, ItemsAtIsSeq
<1> HIDE DEF told
<1>6. told # <<>>
  <2>1. changes[i] \in Range(told)
    BY <1>5
  <2>2. PICK k \in DOMAIN told : told[k] = changes[i]
    BY <2>1 DEF Range
  <2> QED BY <1>5, <2>2
<1>7. OrNull(told) = told
  BY <1>6 DEF OrNull
<1>8. i \in DOMAIN items /\ changes[i].id = items[i].id /\ changes[i] # None
  BY <1>0
<1>9. Told(told, items[i].id) = changes[i]
  BY <1>4, <1>7, <1>8
<1>10. /\ Told(OrNull(told), items[i].id) = changes[i]
       /\ Told(told, items[i].id) = changes[i] /\ changes[i] # None /\ told # <<>>
  BY <1>6, <1>7, <1>8, <1>9
<1> QED BY <1>10 DEF told

\* No list of changes is None, nor is a change.
LEMMA ChangesAreSome ==
    /\ \A S \in {ActionChanges40, ScenarioChanges40, ScenarioChanges41, ActionChanges42,
                 ActionChanges(ActionChanges42), ActionChanges50, ActionChanges(ActionChanges50),
                 ActionChanges51, ActionChanges(ActionChanges51)} :
           None \notin S /\ None \notin Seq(S)
    /\ \A x, y \in Nat : [old |-> x, new |-> y] # None
<1>1. \A x, y \in Nat : [old |-> x, new |-> y] # None
  BY ChangesAssumption DEF ChangedValues
<1>2. /\ None \notin ActionChanges40 /\ None \notin Seq(ActionChanges40)
      /\ None \notin ScenarioChanges40 /\ None \notin Seq(ScenarioChanges40)
      /\ None \notin ScenarioChanges41 /\ None \notin Seq(ScenarioChanges41)
  BY ChangesAssumption, Zenon
<1>3. /\ None \notin ActionChanges42 /\ None \notin Seq(ActionChanges42)
      /\ None \notin ActionChanges(ActionChanges42)
      /\ None \notin Seq(ActionChanges(ActionChanges42))
  BY ChangesAssumption, Zenon
<1>4. /\ None \notin ActionChanges50 /\ None \notin Seq(ActionChanges50)
      /\ None \notin ActionChanges(ActionChanges50)
      /\ None \notin Seq(ActionChanges(ActionChanges50))
  BY ChangesAssumption, Zenon
<1>5. /\ None \notin ActionChanges51 /\ None \notin Seq(ActionChanges51)
      /\ None \notin ActionChanges(ActionChanges51)
      /\ None \notin Seq(ActionChanges(ActionChanges51))
  BY ChangesAssumption, Zenon
<1>6. ASSUME NEW S \in {ActionChanges40, ScenarioChanges40, ScenarioChanges41, ActionChanges42,
                 ActionChanges(ActionChanges42), ActionChanges50, ActionChanges(ActionChanges50),
                 ActionChanges51, ActionChanges(ActionChanges51)}
      PROVE  None \notin S /\ None \notin Seq(S)
  BY <1>2, <1>3, <1>4, <1>5, <1>6, Zenon
<1> QED BY <1>1, <1>6

\* The parts of a scenario and of an action.
LEMMA ScenarioFields ==
    ASSUME NEW s \in Scenarios
    PROVE  /\ s.id \in ScenarioId /\ s.actions \in Seq(Actions)
           /\ s.existingActions \in STRING \cup {None}
           /\ s.risk \in RiScRisk /\ s.remainingRisk \in RiScRisk
           /\ \A j \in DOMAIN s.actions : s.actions[j] \in Actions
<1>1. /\ s.id \in ScenarioId /\ s.actions \in Seq(Actions)
      /\ s.existingActions \in STRING \cup {None}
      /\ s.risk \in RiScRisk /\ s.remainingRisk \in RiScRisk
  BY DEF Scenarios
<1> QED BY <1>1

\* What was dropped of an action by the step to 4.0.
LEMMA Change40ActionIs ==
    ASSUME NEW a \in Actions
    PROVE  Change40Action(a) \in ActionChanges40 /\ Change40Action(a).id = a.id
<1>1. a.id \in ActionId /\ a.owner \in OrNone(STRING) /\ a.deadline \in OrNone(STRING)
  BY DEF Actions, OrNone
<1>2. \A x \in OrNone(STRING) : Truthy(x) \in OrNone(STRING)
  BY DEF Truthy, OrNone
<1>3. Truthy(a.owner) \in OrNone(STRING) /\ Truthy(a.deadline) \in OrNone(STRING)
  BY <1>1, <1>2
<1> QED BY <1>1, <1>3 DEF Change40Action, ActionChanges40

\* What was changed of a scenario by the step to 4.0.
LEMMA Change40Is ==
    ASSUME NEW s \in Scenarios, s.vulnerabilities \subseteq Vulnerabilities3X
    PROVE  Change40(s) \in ScenarioChanges40 /\ Change40(s).id = s.id
<1> DEFINE changes == [j \in DOMAIN s.actions |-> Change40Action(s.actions[j])]
           indices == {j \in DOMAIN changes :
                          {changes[j].removedOwner, changes[j].removedDeadline} # {None}}
           told == ItemsAt(changes, indices)
           mapped == {[old |-> v, new |-> VULNERABILITY_3X_TO_4X_MAP[v]] :
                         v \in {w \in s.vulnerabilities : VULNERABILITY_3X_TO_4X_MAP[w] # w}}
           existing == Truthy(s.existingActions)
<1>1. changes \in Seq(ActionChanges40)
  <2>1. \A j \in DOMAIN s.actions : changes[j] \in ActionChanges40
    BY ScenarioFields, Change40ActionIs
  <2>2. DOMAIN changes = DOMAIN s.actions /\ changes = [j \in DOMAIN changes |-> changes[j]]
    OBVIOUS
  <2> HIDE DEF changes
  <2> QED BY <2>1, <2>2, ScenarioFields, MappedList
<1>2. told \in Seq(ActionChanges40)
  <2>1. indices \in SUBSET (DOMAIN changes)
    OBVIOUS
  <2> HIDE DEF changes, indices
  <2> QED BY <1>1, <2>1, ItemsAtIsSeq
<1>3. mapped \subseteq ChangedValues(Vulnerabilities3X, Vulnerabilities4X5X)
  BY VulnerabilitiesMap DEF ChangedValues
<1>4. existing \in OrNone(STRING)
  BY ScenarioFields DEF Truthy, OrNone
<1>5. Change40(s) = [id |-> s.id, removedExistingActions |-> existing,
                     changedVulnerabilities |-> mapped, changedActions |-> told]
  BY DEF Change40, Changed, Map
<1> HIDE DEF mapped, told, existing
<1> QED BY <1>2, <1>3, <1>4, <1>5, ScenarioFields DEF ScenarioChanges40

\* What the report of the step to 4.0 says of a scenario,
LEMMA Told40 ==
    ASSUME NEW items \in Seq(Scenarios), UniqueIds(items),
           \A k \in DOMAIN items : items[k].vulnerabilities \subseteq Vulnerabilities3X,
           NEW i \in DOMAIN items, HasChange40(Change40(items[i]))
    PROVE  /\ Told(Report40(items), items[i].id) = Change40(items[i])
           /\ Change40(items[i]) # None
<1> DEFINE changes == [k \in DOMAIN items |-> Change40(items[k])]
           indices == {k \in DOMAIN changes : HasChange40(changes[k])}
<1>1. \A k \in DOMAIN items : changes[k] \in ScenarioChanges40 /\ changes[k].id = items[k].id
  BY Change40Is
<1>2. /\ DOMAIN changes = DOMAIN items /\ changes = [k \in DOMAIN changes |-> changes[k]]
      /\ indices \in SUBSET (DOMAIN items) /\ i \in indices /\ changes[i] = Change40(items[i])
  OBVIOUS
<1>3. Report40(items) = OrNull(ItemsAt(changes, indices))
  BY DEF Report40, Changed, Map
<1>4. EachChange(changes, items, ScenarioChanges40)
  BY <1>1, <1>2, ChangesAreSome DEF EachChange
<1>5. indices \in SUBSET (DOMAIN items) /\ i \in indices
  BY <1>2
<1> HIDE DEF changes, indices
<1>6. Told(OrNull(ItemsAt(changes, indices)), items[i].id) = changes[i] /\ changes[i] # None
  BY <1>4, <1>5, ToldOfItem
<1> QED BY <1>2, <1>3, <1>6

\* and of an action of it.
LEMMA Told40OfAction ==
    ASSUME NEW s \in Scenarios, UniqueIds(s.actions), NEW j \in DOMAIN s.actions,
           {Change40Action(s.actions[j]).removedOwner,
            Change40Action(s.actions[j]).removedDeadline} # {None}
    PROVE  /\ HasChange40(Change40(s))
           /\ Told(Change40(s).changedActions, s.actions[j].id) = Change40Action(s.actions[j])
           /\ Change40Action(s.actions[j]) # None
<1> DEFINE items == s.actions
           changes == [k \in DOMAIN items |-> Change40Action(items[k])]
           indices == {k \in DOMAIN changes :
                          {changes[k].removedOwner, changes[k].removedDeadline} # {None}}
<1>1. \A k \in DOMAIN items : changes[k] \in ActionChanges40 /\ changes[k].id = items[k].id
  BY Change40ActionIs, ScenarioFields
<1>2. /\ DOMAIN changes = DOMAIN items /\ changes = [k \in DOMAIN changes |-> changes[k]]
      /\ indices \in SUBSET (DOMAIN items) /\ j \in indices
      /\ changes[j] = Change40Action(items[j])
  OBVIOUS
<1>3. Change40(s).changedActions = ItemsAt(changes, indices)
  BY DEF Change40, Changed, Map
<1>4. items \in Seq(Actions) /\ UniqueIds(items)
  BY ScenarioFields
<1>5. EachChange(changes, items, ActionChanges40)
  BY <1>1, <1>2, ChangesAreSome DEF EachChange
<1> HIDE DEF changes, indices, items
<1>6. /\ Told(ItemsAt(changes, indices), items[j].id) = changes[j]
      /\ changes[j] # None /\ ItemsAt(changes, indices) # <<>>
  BY <1>2, <1>4, <1>5, ToldOfItem
<1> QED BY <1>2, <1>3, <1>6 DEF HasChange40, items

\* What was changed of a scenario by the step to 4.1.
LEMMA Change41Is ==
    ASSUME NEW s \in Scenarios, Mappable(s)
    PROVE  Change41(s) \in ScenarioChanges41 /\ Change41(s).id = s.id
<1>1. s.id \in ScenarioId /\ s.risk \in RiScRisk /\ s.remainingRisk \in RiScRisk
  BY ScenarioFields
<1>2. \A risk \in {s.risk, s.remainingRisk} : risk \in RiScRisk /\ Rescaled(risk) \in RiScRisk
  BY <1>1, RescaledIsRisk DEF Mappable
<1>3. ASSUME NEW x \in Nat, NEW y \in Nat
      PROVE  ChangeValue(x, y) \in OrNone(ChangedValues(Nat, Nat))
  BY DEF ChangeValue, OrNone, ChangedValues
<1>4. \A risk \in {s.risk, s.remainingRisk} : RiskChange41(risk) \in NumberChanges
  <2> SUFFICES ASSUME NEW risk \in {s.risk, s.remainingRisk}
               PROVE  RiskChange41(risk) \in NumberChanges
    OBVIOUS
  <2> DEFINE p == ChangeValue(risk.probability, Rescaled(risk).probability)
             c == ChangeValue(risk.consequence, Rescaled(risk).consequence)
  <2>1. /\ risk.probability \in Nat /\ risk.consequence \in Nat
        /\ Rescaled(risk).probability \in Nat /\ Rescaled(risk).consequence \in Nat
    BY <1>2 DEF RiScRisk
  <2>2. p \in OrNone(ChangedValues(Nat, Nat)) /\ c \in OrNone(ChangedValues(Nat, Nat))
    BY <1>3, <2>1
  <2>3. RiskChange41(risk) = [probability |-> p, consequence |-> c]
    BY DEF RiskChange41
  <2> HIDE DEF p, c
  <2>4. [probability |-> p, consequence |-> c] \in NumberChanges
    BY <2>2 DEF NumberChanges
  <2> QED BY <2>3, <2>4
<1>5. Change41(s) = [id |-> s.id, risk |-> RiskChange41(s.risk),
                     remainingRisk |-> RiskChange41(s.remainingRisk)]
  BY DEF Change41
<1> QED BY <1>1, <1>4, <1>5 DEF ScenarioChanges41

\* What the report of the step to 4.1 says of a scenario.
LEMMA Told41 ==
    ASSUME NEW items \in Seq(Scenarios), UniqueIds(items),
           \A k \in DOMAIN items : Mappable(items[k]),
           NEW i \in DOMAIN items, HasChange41(Change41(items[i]))
    PROVE  /\ Told(Report41(items), items[i].id) = Change41(items[i])
           /\ Change41(items[i]) # None
<1> DEFINE changes == [k \in DOMAIN items |-> Change41(items[k])]
           indices == {k \in DOMAIN changes : HasChange41(changes[k])}
<1>1. \A k \in DOMAIN items : changes[k] \in ScenarioChanges41 /\ changes[k].id = items[k].id
  BY Change41Is
<1>2. /\ DOMAIN changes = DOMAIN items /\ changes = [k \in DOMAIN changes |-> changes[k]]
      /\ indices \in SUBSET (DOMAIN items) /\ i \in indices /\ changes[i] = Change41(items[i])
  OBVIOUS
<1>3. Report41(items) = OrNull(ItemsAt(changes, indices))
  BY DEF Report41, Changed, Map
<1>4. EachChange(changes, items, ScenarioChanges41)
  BY <1>1, <1>2, ChangesAreSome DEF EachChange
<1>5. indices \in SUBSET (DOMAIN items) /\ i \in indices
  BY <1>2
<1> HIDE DEF changes, indices
<1>6. Told(OrNull(ItemsAt(changes, indices)), items[i].id) = changes[i] /\ changes[i] # None
  BY <1>4, <1>5, ToldOfItem
<1> QED BY <1>2, <1>3, <1>6

\* A change of that set for each action of each scenario of a list,
EachAction(told, items, S) ==
    /\ {None} \cap (S \cup Seq(S) \cup ActionChanges(S) \cup Seq(ActionChanges(S))) = {}
    /\ items \in Seq(Scenarios) /\ UniqueIds(items) /\ DOMAIN told = DOMAIN items
    /\ \A k \in DOMAIN items :
          /\ DOMAIN told[k] = DOMAIN items[k].actions
          /\ told[k] = [l \in DOMAIN told[k] |-> told[k][l]]
          /\ \A l \in DOMAIN items[k].actions :
                told[k][l] \in S /\ told[k][l].id = items[k].actions[l].id

\* and a list of scenarios with them, of which those that have some are indexed.
EachOf(changes, items, told, indices) ==
    /\ DOMAIN changes = DOMAIN items /\ changes = [k \in DOMAIN changes |-> changes[k]]
    /\ \A k \in DOMAIN items :
          /\ changes[k] = [id |-> items[k].id, changedActions |-> told[k]]
          /\ HasActions(changes[k]) => k \in indices
    /\ indices \in SUBSET (DOMAIN items)

\* What a report says of the actions of such a list.
TellsOfEach(report, items, told) ==
    \A i \in DOMAIN items : UniqueIds(items[i].actions) =>
        \A j \in DOMAIN items[i].actions :
            ToldOfAction(report, items[i], items[i].actions[j]) = told[i][j]

\* What is found in a report about an action is its change.
LEMMA ToldOfEach ==
    ASSUME NEW S, NEW items, NEW told, EachAction(told, items, S),
           NEW changes, NEW indices, EachOf(changes, items, told, indices)
    PROVE  TellsOfEach(OrNull(ItemsAt(changes, indices)), items, told)
<1> SUFFICES ASSUME NEW i \in DOMAIN items, UniqueIds(items[i].actions),
                    NEW j \in DOMAIN items[i].actions
             PROVE  ToldOfAction(OrNull(ItemsAt(changes, indices)), items[i], items[i].actions[j])
                        = told[i][j]
  BY DEF TellsOfEach
<1>14. items \in Seq(Scenarios) /\ UniqueIds(items)
  BY DEF EachAction
<1>15. indices \in SUBSET (DOMAIN items)
  BY DEF EachOf
<1>11. /\ None \notin S /\ None \notin Seq(S) /\ None \notin ActionChanges(S)
      /\ None \notin Seq(ActionChanges(S))
  BY DEF EachAction
<1>12. /\ DOMAIN told = DOMAIN items
      /\ \A k \in DOMAIN items :
            /\ DOMAIN told[k] = DOMAIN items[k].actions
            /\ told[k] = [l \in DOMAIN told[k] |-> told[k][l]]
            /\ \A l \in DOMAIN items[k].actions :
                  told[k][l] \in S /\ told[k][l].id = items[k].actions[l].id
  BY DEF EachAction
<1>13. /\ DOMAIN changes = DOMAIN items /\ changes = [k \in DOMAIN changes |-> changes[k]]
      /\ \A k \in DOMAIN items :
            /\ changes[k] = [id |-> items[k].id, changedActions |-> told[k]]
            /\ HasActions(changes[k]) => k \in indices
  BY DEF EachOf
<1>1. \A k \in DOMAIN items : told[k] \in Seq(S)
  <2> SUFFICES ASSUME NEW k \in DOMAIN items PROVE told[k] \in Seq(S)
    OBVIOUS
  <2>1. items[k].actions \in Seq(Actions)
    BY <1>14, ScenarioFields
  <2> DEFINE list == told[k]
  <2>2. /\ DOMAIN list = DOMAIN items[k].actions /\ list = [l \in DOMAIN list |-> list[l]]
        /\ \A l \in DOMAIN items[k].actions : list[l] \in S
    BY <1>12
  <2> HIDE DEF list
  <2>3. list \in Seq(S)
    BY <2>1, <2>2, MappedList
  <2> QED BY <2>3 DEF list
<1>2. \A k \in DOMAIN items : changes[k] \in ActionChanges(S) /\ changes[k].id = items[k].id
  BY <1>13, <1>14, <1>1, ScenarioFields DEF ActionChanges
<1>3. changes[i].changedActions = told[i]
  BY <1>13
<1>4. told[i] \in Seq(S) /\ told[i] # <<>>
  <2>1. j \in DOMAIN told[i]
    BY <1>12
  <2> QED BY <1>1, <2>1
<1>5. i \in indices
  BY <1>13, <1>3, <1>4 DEF HasActions
<1> DEFINE report == ItemsAt(changes, indices)
<1>6. Told(OrNull(report), items[i].id) = changes[i] /\ changes[i] # None
  <2>1. EachChange(changes, items, ActionChanges(S))
    BY <1>11, <1>13, <1>2 DEF EachChange
  <2> QED BY <1>5, <1>14, <1>15, <2>1, ToldOfItem
<1> HIDE DEF report
<1>7. UniqueIds(told[i])
  BY <1>12 DEF UniqueIds
<1>8. Told(told[i], told[i][j].id) = told[i][j]
  <2>1. j \in DOMAIN told[i]
    BY <1>12
  <2> QED BY <1>11, <1>4, <1>7, <2>1, ToldOfAll
<1>9. told[i][j].id = items[i].actions[j].id
  BY <1>12
<1>10. ToldOfAction(OrNull(report), items[i], items[i].actions[j]) = told[i][j]
  BY <1>3, <1>6, <1>8, <1>9 DEF ToldOfAction
<1> QED BY <1>10 DEF report

\* What the report of the step to 4.2 says of an action,
LEMMA Told42 ==
    ASSUME NEW items \in Seq(Scenarios), UniqueIds(items),
           NEW lastPublished \in OrNone(Times),
           NEW i \in DOMAIN items, UniqueIds(items[i].actions), NEW j \in DOMAIN items[i].actions
    PROVE  ToldOfAction(Report42(items, lastPublished), items[i], items[i].actions[j])
               = [id |-> items[i].actions[j].id, lastUpdated |-> lastPublished]
<1> DEFINE told == [k \in DOMAIN items |-> [l \in DOMAIN items[k].actions |->
                      [id |-> items[k].actions[l].id, lastUpdated |-> lastPublished]]]
           changes == [k \in DOMAIN items |-> [id |-> items[k].id, changedActions |-> told[k]]]
           indices == {k \in DOMAIN changes : HasActions(changes[k])}
<1>1. {None} \cap (ActionChanges42 \cup Seq(ActionChanges42) \cup ActionChanges(ActionChanges42)
                    \cup Seq(ActionChanges(ActionChanges42))) = {}
  BY ChangesAreSome
<1>2. ASSUME NEW k \in DOMAIN items
      PROVE  /\ DOMAIN told[k] = DOMAIN items[k].actions
             /\ told[k] = [l \in DOMAIN told[k] |-> told[k][l]]
             /\ \A l \in DOMAIN items[k].actions :
                   told[k][l] \in ActionChanges42 /\ told[k][l].id = items[k].actions[l].id
  <2>1. ASSUME NEW l \in DOMAIN items[k].actions
        PROVE  told[k][l] \in ActionChanges42 /\ told[k][l].id = items[k].actions[l].id
    <3> DEFINE a == items[k].actions[l]
    <3>1. a.id \in ActionId
      BY ScenarioFields DEF Actions
    <3>2. told[k][l] = [id |-> a.id, lastUpdated |-> lastPublished]
      OBVIOUS
    <3> HIDE DEF told, a
    <3>3. [id |-> a.id, lastUpdated |-> lastPublished] \in ActionChanges42
      BY <3>1 DEF ActionChanges42
    <3>6. told[k][l] \in ActionChanges42 /\ told[k][l].id = a.id
      BY <3>2, <3>3
    <3> QED BY <3>6 DEF a
  <2>2. DOMAIN told[k] = DOMAIN items[k].actions /\ told[k] = [l \in DOMAIN told[k] |-> told[k][l]]
    OBVIOUS
  <2> HIDE DEF told
  <2> QED BY <2>1, <2>2
<1>3. Report42(items, lastPublished) = OrNull(ItemsAt(changes, indices))
  BY DEF Report42, Changed, Map, Change42, HasActions
<1>4. /\ DOMAIN changes = DOMAIN items /\ changes = [k \in DOMAIN changes |-> changes[k]]
      /\ indices \in SUBSET (DOMAIN items)
      /\ \A k \in DOMAIN items : HasActions(changes[k]) => k \in indices
  OBVIOUS
<1>5. /\ DOMAIN told = DOMAIN items
      /\ told[i][j] = [id |-> items[i].actions[j].id, lastUpdated |-> lastPublished]
  OBVIOUS
<1>6. \A k \in DOMAIN items : changes[k] = [id |-> items[k].id, changedActions |-> told[k]]
  <2> HIDE DEF told
  <2> QED OBVIOUS
<1> HIDE DEF told, changes, indices
<1>7. EachAction(told, items, ActionChanges42)
  BY <1>1, <1>2, <1>5 DEF EachAction
<1>8. EachOf(changes, items, told, indices)
  BY <1>4, <1>6 DEF EachOf
<1>9. TellsOfEach(OrNull(ItemsAt(changes, indices)), items, told)
  BY <1>7, <1>8, ToldOfEach
<1> QED BY <1>3, <1>5, <1>9 DEF TellsOfEach

\* that of the step to 5.0
LEMMA Told50 ==
    ASSUME NEW items \in Seq(Scenarios), UniqueIds(items),
           \A k \in DOMAIN items : \A l \in DOMAIN items[k].actions :
              items[k].actions[l].status \in Statuses3X4X,
           NEW i \in DOMAIN items, UniqueIds(items[i].actions), NEW j \in DOMAIN items[i].actions
    PROVE  ToldOfAction(Report50(items), items[i], items[i].actions[j])
               = [id |-> items[i].actions[j].id, old |-> items[i].actions[j].status,
                  new |-> ACTION_STATUS_4X_TO_5X_MAP[items[i].actions[j].status]]
<1> DEFINE told == [k \in DOMAIN items |-> [l \in DOMAIN items[k].actions |->
                      [id |-> items[k].actions[l].id, old |-> items[k].actions[l].status,
                  new |-> ACTION_STATUS_4X_TO_5X_MAP[items[k].actions[l].status]]]]
           changes == [k \in DOMAIN items |-> [id |-> items[k].id, changedActions |-> told[k]]]
           indices == {k \in DOMAIN changes : HasActions(changes[k])}
<1>1. {None} \cap (ActionChanges50 \cup Seq(ActionChanges50) \cup ActionChanges(ActionChanges50)
                    \cup Seq(ActionChanges(ActionChanges50))) = {}
  BY ChangesAreSome
<1>2. ASSUME NEW k \in DOMAIN items
      PROVE  /\ DOMAIN told[k] = DOMAIN items[k].actions
             /\ told[k] = [l \in DOMAIN told[k] |-> told[k][l]]
             /\ \A l \in DOMAIN items[k].actions :
                   told[k][l] \in ActionChanges50 /\ told[k][l].id = items[k].actions[l].id
  <2>1. ASSUME NEW l \in DOMAIN items[k].actions
        PROVE  told[k][l] \in ActionChanges50 /\ told[k][l].id = items[k].actions[l].id
    <3> DEFINE a == items[k].actions[l]
    <3>1. a.id \in ActionId /\ a.status \in Statuses3X4X
          /\ ACTION_STATUS_4X_TO_5X_MAP[a.status] \in Statuses5X
      BY ScenarioFields, StatusMap DEF Actions
    <3>2. told[k][l] = [id |-> a.id, old |-> a.status,
                  new |-> ACTION_STATUS_4X_TO_5X_MAP[a.status]]
      OBVIOUS
    <3> HIDE DEF told, a
    <3>3. [id |-> a.id, old |-> a.status,
                  new |-> ACTION_STATUS_4X_TO_5X_MAP[a.status]] \in ActionChanges50
      BY <3>1 DEF ActionChanges50
    <3>6. told[k][l] \in ActionChanges50 /\ told[k][l].id = a.id
      BY <3>2, <3>3
    <3> QED BY <3>6 DEF a
  <2>2. DOMAIN told[k] = DOMAIN items[k].actions /\ told[k] = [l \in DOMAIN told[k] |-> told[k][l]]
    OBVIOUS
  <2> HIDE DEF told
  <2> QED BY <2>1, <2>2
<1>3. Report50(items) = OrNull(ItemsAt(changes, indices))
  BY DEF Report50, Changed, Map, Change50, HasActions
<1>4. /\ DOMAIN changes = DOMAIN items /\ changes = [k \in DOMAIN changes |-> changes[k]]
      /\ indices \in SUBSET (DOMAIN items)
      /\ \A k \in DOMAIN items : HasActions(changes[k]) => k \in indices
  OBVIOUS
<1>5. /\ DOMAIN told = DOMAIN items
      /\ told[i][j] = [id |-> items[i].actions[j].id, old |-> items[i].actions[j].status,
                       new |-> ACTION_STATUS_4X_TO_5X_MAP[items[i].actions[j].status]]
  OBVIOUS
<1>6. \A k \in DOMAIN items : changes[k] = [id |-> items[k].id, changedActions |-> told[k]]
  <2> HIDE DEF told
  <2> QED OBVIOUS
<1> HIDE DEF told, changes, indices
<1>7. EachAction(told, items, ActionChanges50)
  BY <1>1, <1>2, <1>5 DEF EachAction
<1>8. EachOf(changes, items, told, indices)
  BY <1>4, <1>6 DEF EachOf
<1>9. TellsOfEach(OrNull(ItemsAt(changes, indices)), items, told)
  BY <1>7, <1>8, ToldOfEach
<1> QED BY <1>3, <1>5, <1>9 DEF TellsOfEach

\* and that of the step to 5.1.
LEMMA Told51 ==
    ASSUME NEW items \in Seq(Scenarios), UniqueIds(items),
           NEW i \in DOMAIN items, UniqueIds(items[i].actions), NEW j \in DOMAIN items[i].actions
    PROVE  ToldOfAction(Report51(items), items[i], items[i].actions[j])
               = [id |-> items[i].actions[j].id, lastUpdatedBy |-> ""]
<1> DEFINE told == [k \in DOMAIN items |-> [l \in DOMAIN items[k].actions |->
                      [id |-> items[k].actions[l].id, lastUpdatedBy |-> ""]]]
           changes == [k \in DOMAIN items |-> [id |-> items[k].id, changedActions |-> told[k]]]
           indices == {k \in DOMAIN changes : HasActions(changes[k])}
<1>1. {None} \cap (ActionChanges51 \cup Seq(ActionChanges51) \cup ActionChanges(ActionChanges51)
                    \cup Seq(ActionChanges(ActionChanges51))) = {}
  BY ChangesAreSome
<1>2. ASSUME NEW k \in DOMAIN items
      PROVE  /\ DOMAIN told[k] = DOMAIN items[k].actions
             /\ told[k] = [l \in DOMAIN told[k] |-> told[k][l]]
             /\ \A l \in DOMAIN items[k].actions :
                   told[k][l] \in ActionChanges51 /\ told[k][l].id = items[k].actions[l].id
  <2>1. ASSUME NEW l \in DOMAIN items[k].actions
        PROVE  told[k][l] \in ActionChanges51 /\ told[k][l].id = items[k].actions[l].id
    <3> DEFINE a == items[k].actions[l]
    <3>1. a.id \in ActionId
      BY ScenarioFields DEF Actions
    <3>4. "" \in STRING
      BY DocumentAssumption
    <3>2. told[k][l] = [id |-> a.id, lastUpdatedBy |-> ""]
      OBVIOUS
    <3> HIDE DEF told, a
    <3>5. \A x \in STRING : [id |-> a.id, lastUpdatedBy |-> x] \in ActionChanges51
      BY <3>1 DEF ActionChanges51
    <3>3. [id |-> a.id, lastUpdatedBy |-> ""] \in ActionChanges51
      BY <3>4, <3>5, Zenon
    <3>6. told[k][l] \in ActionChanges51
      BY <3>2, <3>3, Zenon
    <3>7. told[k][l].id = a.id
      <4>1. \A x : [id |-> a.id, lastUpdatedBy |-> x].id = a.id
        OBVIOUS
      <4> QED BY <3>2, <4>1, Zenon
    <3> QED BY <3>6, <3>7 DEF a
  <2>2. DOMAIN told[k] = DOMAIN items[k].actions /\ told[k] = [l \in DOMAIN told[k] |-> told[k][l]]
    OBVIOUS
  <2> HIDE DEF told
  <2> QED BY <2>1, <2>2
<1>3. Report51(items) = OrNull(ItemsAt(changes, indices))
  BY DEF Report51, Changed, Map, Change51, HasActions
<1>4. /\ DOMAIN changes = DOMAIN items /\ changes = [k \in DOMAIN changes |-> changes[k]]
      /\ indices \in SUBSET (DOMAIN items)
      /\ \A k \in DOMAIN items : HasActions(changes[k]) => k \in indices
  OBVIOUS
<1>5. /\ DOMAIN told = DOMAIN items
      /\ told[i][j] = [id |-> items[i].actions[j].id, lastUpdatedBy |-> ""]
  OBVIOUS
<1>6. \A k \in DOMAIN items : changes[k] = [id |-> items[k].id, changedActions |-> told[k]]
  <2> HIDE DEF told
  <2> QED OBVIOUS
<1> HIDE DEF told, changes, indices
<1>7. EachAction(told, items, ActionChanges51)
  BY <1>1, <1>2, <1>5 DEF EachAction
<1>8. EachOf(changes, items, told, indices)
  BY <1>4, <1>6 DEF EachOf
<1>9. TellsOfEach(OrNull(ItemsAt(changes, indices)), items, told)
  BY <1>7, <1>8, ToldOfEach
<1> QED BY <1>3, <1>5, <1>9 DEF TellsOfEach

\* What a report has to say of a scenario: what was dropped of it and of its
\* actions by the step to 4.0,
DropIsReported(report, s) ==
    /\ s.existingActions \notin {None, ""} =>
           /\ Told(report, s.id) # None
           /\ Told(report, s.id).removedExistingActions = s.existingActions
    /\ \A j \in DOMAIN s.actions :
          \A field \in {s.actions[j].owner, s.actions[j].deadline} \ {None, ""} :
              LET told == ToldOfAction(report, s, s.actions[j])
              IN  told # None /\ field \in {told.removedOwner, told.removedDeadline}

\* which vulnerabilities were renamed by it,
RenameIsReported(report, old, new) ==
    \A v \in old.vulnerabilities \ new.vulnerabilities :
        /\ Told(report, old.id) # None
        /\ \E c \in Told(report, old.id).changedVulnerabilities :
               c.old = v /\ c.new \in new.vulnerabilities

\* which numbers are others since 4.1,
ScaleIsReported(report, old, new) ==
    LET told == Told(report, old.id)
    IN  /\ old.risk # new.risk => told # None /\ RiskIsReported(told.risk, old.risk, new.risk)
        /\ old.remainingRisk # new.remainingRisk =>
               /\ told # None
               /\ RiskIsReported(told.remainingRisk, old.remainingRisk, new.remainingRisk)

\* when its actions were updated since 4.2,
DateIsReported(report, old, new) ==
    \A j \in DOMAIN old.actions :
        old.actions[j].lastUpdated # new.actions[j].lastUpdated =>
            ToldOfAction(report, old, old.actions[j])
                = [id |-> old.actions[j].id, lastUpdated |-> new.actions[j].lastUpdated]

\* what state they are in since 5.0
StateIsReported(report, old, new) ==
    \A j \in DOMAIN old.actions :
        old.actions[j].status # new.actions[j].status =>
            ToldOfAction(report, old, old.actions[j])
                = [id |-> old.actions[j].id, old |-> old.actions[j].status,
                   new |-> new.actions[j].status]

\* and by whom since 5.1.
NameIsReported(report, old, new) ==
    \A j \in DOMAIN old.actions :
        old.actions[j].lastUpdatedBy # new.actions[j].lastUpdatedBy =>
            ToldOfAction(report, old, old.actions[j])
                = [id |-> old.actions[j].id, lastUpdatedBy |-> new.actions[j].lastUpdatedBy]

\* The step to 4.0 reports what it drops,
LEMMA DropsAreReported ==
    ASSUME NEW items \in Seq(Scenarios), UniqueIds(items),
           \A k \in DOMAIN items : items[k].vulnerabilities \subseteq Vulnerabilities3X,
           NEW i \in DOMAIN items, UniqueIds(items[i].actions)
    PROVE  DropIsReported(Report40(items), items[i])
<1> DEFINE s == items[i]
           report == Report40(items)
<1>1. s \in Scenarios
  OBVIOUS
<1>2. HasChange40(Change40(s)) =>
          Told(report, s.id) = Change40(s) /\ Change40(s) # None
  BY Told40
<1>3. UniqueIds(s.actions)
  OBVIOUS
<1> HIDE DEF s, report
<1>4. ASSUME s.existingActions \notin {None, ""}
      PROVE  /\ Told(report, s.id) # None
             /\ Told(report, s.id).removedExistingActions = s.existingActions
  <2>1. Change40(s).removedExistingActions = s.existingActions
    BY <1>4 DEF Change40, Truthy
  <2>2. HasChange40(Change40(s))
    BY <1>4, <2>1 DEF HasChange40
  <2> QED BY <1>2, <2>1, <2>2
<1>5. ASSUME NEW j \in DOMAIN s.actions,
             NEW field \in {s.actions[j].owner, s.actions[j].deadline} \ {None, ""}
      PROVE  LET told == ToldOfAction(report, s, s.actions[j])
             IN  told # None /\ field \in {told.removedOwner, told.removedDeadline}
  <2> DEFINE c == Change40Action(s.actions[j])
  <2>1. /\ c.removedOwner = Truthy(s.actions[j].owner)
        /\ c.removedDeadline = Truthy(s.actions[j].deadline)
    BY DEF Change40Action
  <2>2. Truthy(field) = field
    BY DEF Truthy
  <2>3. field \in {c.removedOwner, c.removedDeadline} /\ field # None
    BY <2>1, <2>2
  <2>4. {c.removedOwner, c.removedDeadline} # {None}
    BY <2>3
  <2>5. /\ HasChange40(Change40(s)) /\ Told(Change40(s).changedActions, s.actions[j].id) = c
        /\ c # None
    BY <1>1, <1>3, <2>4, Told40OfAction
  <2> HIDE DEF c
  <2>6. ToldOfAction(report, s, s.actions[j]) = c
    BY <1>2, <2>5 DEF ToldOfAction
  <2> QED BY <2>3, <2>5, <2>6
<1>6. DropIsReported(report, s)
  BY <1>4, <1>5 DEF DropIsReported
<1> QED BY <1>6 DEF s, report

\* and what it renames.
LEMMA RenamesAreReported ==
    ASSUME NEW items \in Seq(Scenarios), UniqueIds(items),
           \A k \in DOMAIN items : items[k].vulnerabilities \subseteq Vulnerabilities3X,
           NEW i \in DOMAIN items, NEW new,
           new.vulnerabilities = {VULNERABILITY_3X_TO_4X_MAP[v] : v \in items[i].vulnerabilities}
    PROVE  RenameIsReported(Report40(items), items[i], new)
<1> DEFINE s == items[i]
           report == Report40(items)
           mapped == {[old |-> v, new |-> VULNERABILITY_3X_TO_4X_MAP[v]] :
                         v \in {w \in s.vulnerabilities : VULNERABILITY_3X_TO_4X_MAP[w] # w}}
<1>1. HasChange40(Change40(s)) =>
          Told(report, s.id) = Change40(s) /\ Change40(s) # None
  BY Told40
<1>2. Change40(s).changedVulnerabilities = mapped
  BY DEF Change40
<1> HIDE DEF report
<1>3. ASSUME NEW v \in s.vulnerabilities \ new.vulnerabilities
      PROVE  /\ Told(report, s.id) # None
             /\ \E c \in Told(report, s.id).changedVulnerabilities :
                    c.old = v /\ c.new \in new.vulnerabilities
  <2> DEFINE w == VULNERABILITY_3X_TO_4X_MAP[v]
             c == [old |-> v, new |-> w]
  <2>1. w \in new.vulnerabilities /\ w # v
    OBVIOUS
  <2>2. c \in mapped
    BY <2>1
  <2>3. c.old = v /\ c.new = w
    OBVIOUS
  <2> HIDE DEF mapped, w, c, s
  <2>4. HasChange40(Change40(s))
    BY <1>2, <2>2 DEF HasChange40
  <2> QED BY <1>1, <1>2, <2>1, <2>2, <2>3, <2>4
<1>4. RenameIsReported(report, s, new)
  <2> HIDE DEF s
  <2> QED BY <1>3 DEF RenameIsReported
<1> QED BY <1>4 DEF report

\* What is said of a risk that has been rescaled.
LEMMA RiskReported ==
    ASSUME NEW risk \in RiScRisk, Rescaled(risk) \in RiScRisk
    PROVE  /\ RiskIsReported(RiskChange41(risk), risk, Rescaled(risk))
           /\ risk # Rescaled(risk) =>
                 {RiskChange41(risk).probability, RiskChange41(risk).consequence} # {None}
<1> DEFINE p == risk.probability
           c == risk.consequence
           q == Rescaled(risk).probability
           d == Rescaled(risk).consequence
<1>1. /\ p \in Nat /\ c \in Nat /\ q \in Nat /\ d \in Nat
      /\ (risk # Rescaled(risk) => p # q \/ c # d)
  BY DEF RiScRisk
<1>2. /\ RiskChange41(risk).probability = ChangeValue(p, q)
      /\ RiskChange41(risk).consequence = ChangeValue(c, d)
  BY DEF RiskChange41
<1> HIDE DEF p, c, q, d
<1>3. /\ p # q => ChangeValue(p, q) = [old |-> p, new |-> q] /\ ChangeValue(p, q) # None
      /\ c # d => ChangeValue(c, d) = [old |-> c, new |-> d] /\ ChangeValue(c, d) # None
  BY <1>1, ChangesAreSome DEF ChangeValue
<1>4. risk # Rescaled(risk) =>
          {RiskChange41(risk).probability, RiskChange41(risk).consequence} # {None}
  BY <1>1, <1>2, <1>3
<1>5. RiskIsReported(RiskChange41(risk), risk, Rescaled(risk))
  <2>1. p # q => RiskChange41(risk)["probability"] = [old |-> p, new |-> q]
    BY <1>2, <1>3
  <2>2. c # d => RiskChange41(risk)["consequence"] = [old |-> c, new |-> d]
    BY <1>2, <1>3
  <2>3. /\ risk["probability"] = p /\ Rescaled(risk)["probability"] = q
        /\ risk["consequence"] = c /\ Rescaled(risk)["consequence"] = d
    BY DEF p, q, c, d
  <2> QED BY <2>1, <2>2, <2>3 DEF RiskIsReported
<1> QED BY <1>4, <1>5

\* The step to 4.1 reports the numbers that it changes.
LEMMA ScalesAreReported ==
    ASSUME NEW items \in Seq(Scenarios), UniqueIds(items),
           \A k \in DOMAIN items : Mappable(items[k]), NEW i \in DOMAIN items, NEW new,
           new.risk = Rescaled(items[i].risk), new.remainingRisk = Rescaled(items[i].remainingRisk)
    PROVE  ScaleIsReported(Report41(items), items[i], new)
<1> DEFINE s == items[i]
           report == Report41(items)
           told == Told(report, s.id)
           change == Change41(s)
<1>1. HasChange41(change) => told = change /\ change # None
  BY Told41
<1>2. /\ s.risk \in RiScRisk /\ s.remainingRisk \in RiScRisk
      /\ Rescaled(s.risk) \in RiScRisk /\ Rescaled(s.remainingRisk) \in RiScRisk
  BY ScenarioFields, RescaledIsRisk DEF Mappable
<1>3. new.risk = Rescaled(s.risk) /\ new.remainingRisk = Rescaled(s.remainingRisk)
  OBVIOUS
<1>4. change.risk = RiskChange41(s.risk) /\ change.remainingRisk = RiskChange41(s.remainingRisk)
  BY DEF Change41
<1> HIDE DEF s, report, told, change
<1>5. /\ s.risk # new.risk =>
            {change.risk.probability, change.risk.consequence} # {None}
      /\ s.remainingRisk # new.remainingRisk =>
            {change.remainingRisk.probability, change.remainingRisk.consequence} # {None}
      /\ RiskIsReported(change.risk, s.risk, new.risk)
      /\ RiskIsReported(change.remainingRisk, s.remainingRisk, new.remainingRisk)
  BY <1>2, <1>3, <1>4, RiskReported
<1>6. s.risk # new.risk \/ s.remainingRisk # new.remainingRisk => HasChange41(change)
  BY <1>5 DEF HasChange41
<1>7. /\ s.risk # new.risk => told # None /\ RiskIsReported(told.risk, s.risk, new.risk)
      /\ s.remainingRisk # new.remainingRisk =>
            told # None /\ RiskIsReported(told.remainingRisk, s.remainingRisk, new.remainingRisk)
  BY <1>1, <1>5, <1>6
<1> QED BY <1>7 DEF ScaleIsReported, told, report, s

\* The step to 4.2 reports the dates that it sets,
LEMMA DatesAreReported ==
    ASSUME NEW items \in Seq(Scenarios), UniqueIds(items), NEW lastPublished \in OrNone(Times),
           NEW i \in DOMAIN items, UniqueIds(items[i].actions), NEW new,
           \A j \in DOMAIN items[i].actions :
              new.actions[j].lastUpdated = WhenUpdated(items[i].actions[j], lastPublished)
    PROVE  DateIsReported(Report42(items, lastPublished), items[i], new)
<1> SUFFICES ASSUME NEW j \in DOMAIN items[i].actions,
                    items[i].actions[j].lastUpdated # new.actions[j].lastUpdated
             PROVE  ToldOfAction(Report42(items, lastPublished), items[i], items[i].actions[j])
                        = [id |-> items[i].actions[j].id,
                           lastUpdated |-> new.actions[j].lastUpdated]
  BY DEF DateIsReported
<1>1. new.actions[j].lastUpdated = lastPublished
  BY DEF WhenUpdated
<1>2. ToldOfAction(Report42(items, lastPublished), items[i], items[i].actions[j])
          = [id |-> items[i].actions[j].id, lastUpdated |-> lastPublished]
  BY Told42
<1> QED BY <1>1, <1>2

\* the step to 5.0 the states,
LEMMA StatesAreReported ==
    ASSUME NEW items \in Seq(Scenarios), UniqueIds(items),
           \A k \in DOMAIN items : \A l \in DOMAIN items[k].actions :
              items[k].actions[l].status \in Statuses3X4X,
           NEW i \in DOMAIN items, UniqueIds(items[i].actions), NEW new,
           \A j \in DOMAIN items[i].actions :
              new.actions[j].status = ACTION_STATUS_4X_TO_5X_MAP[items[i].actions[j].status]
    PROVE  StateIsReported(Report50(items), items[i], new)
<1> SUFFICES ASSUME NEW j \in DOMAIN items[i].actions
             PROVE  ToldOfAction(Report50(items), items[i], items[i].actions[j])
                        = [id |-> items[i].actions[j].id, old |-> items[i].actions[j].status,
                           new |-> new.actions[j].status]
  BY DEF StateIsReported
<1>1. ToldOfAction(Report50(items), items[i], items[i].actions[j])
          = [id |-> items[i].actions[j].id, old |-> items[i].actions[j].status,
             new |-> ACTION_STATUS_4X_TO_5X_MAP[items[i].actions[j].status]]
  BY Told50
<1> QED BY <1>1

\* and the step to 5.1 the names.
LEMMA NamesAreReported ==
    ASSUME NEW items \in Seq(Scenarios), UniqueIds(items),
           NEW i \in DOMAIN items, UniqueIds(items[i].actions), NEW new,
           \A j \in DOMAIN items[i].actions : new.actions[j].lastUpdatedBy = ""
    PROVE  NameIsReported(Report51(items), items[i], new)
<1> SUFFICES ASSUME NEW j \in DOMAIN items[i].actions
             PROVE  ToldOfAction(Report51(items), items[i], items[i].actions[j])
                        = [id |-> items[i].actions[j].id,
                           lastUpdatedBy |-> new.actions[j].lastUpdatedBy]
  BY DEF NameIsReported
<1>1. ToldOfAction(Report51(items), items[i], items[i].actions[j])
          = [id |-> items[i].actions[j].id, lastUpdatedBy |-> ""]
  BY Told51
<1> QED BY <1>1

-----------------------------------------------------------------------------
(* What becomes of a document in a migration, and what is said of it.      *)

\* The parts of a scenario and of an action are numbered by the place of the
\* version that changes them.  Two actions with these parts in common,
SameParts(parts, old, new) ==
    /\ new.id = old.id /\ new.text = old.text
    /\ 3 \in parts => new.owner = old.owner /\ new.deadline = old.deadline
    /\ 5 \in parts => new.lastUpdated = old.lastUpdated
    /\ 6 \in parts => new.status = old.status
    /\ 7 \in parts => new.lastUpdatedBy = old.lastUpdatedBy

\* and two scenarios.
SameScenario(parts, old, new) ==
    /\ new.id = old.id /\ new.text = old.text /\ new.threatActors = old.threatActors
    /\ 3 \in parts => /\ new.existingActions = old.existingActions
                      /\ new.vulnerabilities = old.vulnerabilities
    /\ 4 \in parts => new.risk = old.risk /\ new.remainingRisk = old.remainingRisk
    /\ DOMAIN new.actions = DOMAIN old.actions
    /\ \A j \in DOMAIN old.actions : SameParts(parts, old.actions[j], new.actions[j])

\* What is common to two and to two is common to the ends.
LEMMA SameScenarios ==
    ASSUME NEW a, NEW b, NEW c, NEW parts, NEW others, NEW common \in SUBSET (parts \cap others),
           SameScenario(parts, a, b), SameScenario(others, b, c)
    PROVE  SameScenario(common, a, c)
<1>1. \A j \in DOMAIN a.actions : SameParts(common, a.actions[j], c.actions[j])
  <2> SUFFICES ASSUME NEW j \in DOMAIN a.actions
               PROVE  SameParts(common, a.actions[j], c.actions[j])
    OBVIOUS
  <2>1. /\ SameParts(parts, a.actions[j], b.actions[j])
        /\ SameParts(others, b.actions[j], c.actions[j])
    BY DEF SameScenario
  <2>2. \A n \in common : n \in parts /\ n \in others
    OBVIOUS
  <2> QED BY <2>1, <2>2 DEF SameParts
<1> QED BY <1>1 DEF SameScenario

\* A scenario is the same with other actions, if these have the parts in common.
LEMMA WithOtherActions ==
    ASSUME NEW s \in Scenarios, NEW actions, NEW parts, DOMAIN actions = DOMAIN s.actions,
           \A j \in DOMAIN s.actions : SameParts(parts, s.actions[j], actions[j])
    PROVE  SameScenario(parts, s, [s EXCEPT !.actions = actions])
<1>1. LET t == [s EXCEPT !.actions = actions]
      IN  /\ t.id = s.id /\ t.text = s.text /\ t.threatActors = s.threatActors
          /\ t.existingActions = s.existingActions /\ t.vulnerabilities = s.vulnerabilities
          /\ t.risk = s.risk /\ t.remainingRisk = s.remainingRisk /\ t.actions = actions
  BY DEF Scenarios
<1> QED BY <1>1 DEF SameScenario

\* Every step changes the parts of its version, as the schemas ask.
LEMMA SteppedParts ==
    ASSUME NEW s \in Scenarios, NEW lastPublished
    PROVE  /\ \A v \in {"3.2", "5.1"} : Stepped(s, v, lastPublished) = s
           /\ LET t == Stepped(s, "3.3", lastPublished)
              IN  /\ SameScenario({4, 5, 6, 7}, s, t)
                  /\ t.vulnerabilities = {VULNERABILITY_3X_TO_4X_MAP[w] : w \in s.vulnerabilities}
           /\ LET t == Stepped(s, "4.0", lastPublished)
              IN  /\ SameScenario({3, 5, 6, 7}, s, t)
                  /\ t.risk = Rescaled(s.risk) /\ t.remainingRisk = Rescaled(s.remainingRisk)
           /\ LET t == Stepped(s, "4.1", lastPublished)
              IN  /\ SameScenario({3, 4, 6, 7}, s, t)
                  /\ \A j \in DOMAIN s.actions :
                        t.actions[j].lastUpdated = WhenUpdated(s.actions[j], lastPublished)
           /\ LET t == Stepped(s, "4.2", lastPublished)
              IN  /\ SameScenario({3, 4, 5, 7}, s, t)
                  /\ \A j \in DOMAIN s.actions :
                        t.actions[j].status = ACTION_STATUS_4X_TO_5X_MAP[s.actions[j].status]
           /\ LET t == Stepped(s, "5.0", lastPublished)
              IN  /\ SameScenario({3, 4, 5, 6}, s, t)
                  /\ \A j \in DOMAIN s.actions : t.actions[j].lastUpdatedBy = ""
<1>0. \A j \in DOMAIN s.actions : s.actions[j] \in Actions
  BY ScenarioFields
<1>1. \A v \in {"3.2", "5.1"} : Stepped(s, v, lastPublished) = s
  BY DEF Stepped
<1>2. LET t == Stepped(s, "3.3", lastPublished)
      IN  /\ SameScenario({4, 5, 6, 7}, s, t)
          /\ t.vulnerabilities = {VULNERABILITY_3X_TO_4X_MAP[w] : w \in s.vulnerabilities}
  <2> DEFINE actions == [i \in DOMAIN s.actions |->
                            [s.actions[i] EXCEPT !.owner = None, !.deadline = None]]
             t == [s EXCEPT !.actions = actions]
             vs == {VULNERABILITY_3X_TO_4X_MAP[w] : w \in s.vulnerabilities}
             u == Stepped(s, "3.3", lastPublished)
  <2>1. \A j \in DOMAIN s.actions : SameParts({4, 5, 6, 7}, s.actions[j], actions[j])
    <3>1. \A a \in Actions :
              SameParts({4, 5, 6, 7}, a, [a EXCEPT !.owner = None, !.deadline = None])
      BY DEF Actions, SameParts
    <3> QED BY <1>0, <3>1
  <2>2. u = [t EXCEPT !.existingActions = None, !.vulnerabilities = vs]
    BY DEF Stepped, updateScenarioFrom33To40, MapActions, Map, Scenarios
  <2>3. DOMAIN actions = DOMAIN s.actions
    OBVIOUS
  <2> HIDE DEF actions, vs
  <2>4. SameScenario({4, 5, 6, 7}, s, t)
    BY <2>1, <2>3, WithOtherActions
  <2>5. /\ u.id = t.id /\ u.text = t.text /\ u.threatActors = t.threatActors
        /\ u.risk = t.risk /\ u.remainingRisk = t.remainingRisk /\ u.actions = t.actions
        /\ u.vulnerabilities = vs
    <3> HIDE DEF u
    <3> QED BY <2>2 DEF Scenarios
  <2> HIDE DEF t, u
  <2>6. SameScenario({4, 5, 6, 7}, s, u)
    BY <2>4, <2>5 DEF SameScenario
  <2> QED BY <2>5, <2>6 DEF u, vs
<1>3. LET t == Stepped(s, "4.0", lastPublished)
      IN  /\ SameScenario({3, 5, 6, 7}, s, t)
          /\ t.risk = Rescaled(s.risk) /\ t.remainingRisk = Rescaled(s.remainingRisk)
  <2> DEFINE t == Stepped(s, "4.0", lastPublished)
  <2>1. /\ t.id = s.id /\ t.text = s.text /\ t.threatActors = s.threatActors
        /\ t.existingActions = s.existingActions /\ t.vulnerabilities = s.vulnerabilities
        /\ t.risk = Rescaled(s.risk) /\ t.remainingRisk = Rescaled(s.remainingRisk)
        /\ t.actions = s.actions
    BY DEF Stepped, updateScenarioFrom40To41, Scenarios
  <2> HIDE DEF t
  <2>2. SameScenario({3, 5, 6, 7}, s, t)
    BY <2>1 DEF SameScenario, SameParts
  <2> QED BY <2>1, <2>2 DEF t
<1>4. LET t == Stepped(s, "4.1", lastPublished)
      IN  /\ SameScenario({3, 4, 6, 7}, s, t)
          /\ \A j \in DOMAIN s.actions :
                t.actions[j].lastUpdated = WhenUpdated(s.actions[j], lastPublished)
  <2> DEFINE actions == Dated42(s, lastPublished)
             t == [s EXCEPT !.actions = actions]
  <2>1. ASSUME NEW j \in DOMAIN s.actions
        PROVE  /\ SameParts({3, 4, 6, 7}, s.actions[j], actions[j])
               /\ actions[j].lastUpdated = WhenUpdated(s.actions[j], lastPublished)
    <3>1. \A a \in Actions : \A x :
              LET b == [a EXCEPT !.lastUpdated = x]
              IN  /\ b.id = a.id /\ b.text = a.text /\ b.owner = a.owner
                  /\ b.deadline = a.deadline /\ b.status = a.status
                  /\ b.lastUpdatedBy = a.lastUpdatedBy /\ b.lastUpdated = x
      BY DEF Actions
    <3>2. actions[j] = [s.actions[j] EXCEPT !.lastUpdated =
                           WhenUpdated(s.actions[j], lastPublished)]
      BY DEF Dated42
    <3> HIDE DEF actions
    <3> QED BY <1>0, <3>1, <3>2 DEF SameParts
  <2>2. DOMAIN actions = DOMAIN s.actions
    BY DEF Dated42
  <2>3. Stepped(s, "4.1", lastPublished) = t
    BY DEF Stepped
  <2> HIDE DEF actions
  <2>4. SameScenario({3, 4, 6, 7}, s, t) /\ t.actions = actions
    BY <2>1, <2>2, WithOtherActions DEF Scenarios
  <2> QED BY <2>1, <2>3, <2>4
<1>5. LET t == Stepped(s, "4.2", lastPublished)
      IN  /\ SameScenario({3, 4, 5, 7}, s, t)
          /\ \A j \in DOMAIN s.actions :
                t.actions[j].status = ACTION_STATUS_4X_TO_5X_MAP[s.actions[j].status]
  <2> DEFINE actions == Stated50(s)
             t == [s EXCEPT !.actions = actions]
  <2>1. ASSUME NEW j \in DOMAIN s.actions
        PROVE  /\ SameParts({3, 4, 5, 7}, s.actions[j], actions[j])
               /\ actions[j].status = ACTION_STATUS_4X_TO_5X_MAP[s.actions[j].status]
    <3>1. \A a \in Actions : \A x :
              LET b == [a EXCEPT !.status = x]
              IN  /\ b.id = a.id /\ b.text = a.text /\ b.owner = a.owner
                  /\ b.deadline = a.deadline /\ b.lastUpdated = a.lastUpdated
                  /\ b.lastUpdatedBy = a.lastUpdatedBy /\ b.status = x
      BY DEF Actions
    <3>2. actions[j] = [s.actions[j] EXCEPT !.status =
                            ACTION_STATUS_4X_TO_5X_MAP[s.actions[j].status]]
      BY DEF Stated50
    <3> HIDE DEF actions
    <3> QED BY <1>0, <3>1, <3>2 DEF SameParts
  <2>2. DOMAIN actions = DOMAIN s.actions
    BY DEF Stated50
  <2>3. Stepped(s, "4.2", lastPublished) = t
    BY DEF Stepped
  <2> HIDE DEF actions
  <2>4. SameScenario({3, 4, 5, 7}, s, t) /\ t.actions = actions
    BY <2>1, <2>2, WithOtherActions DEF Scenarios
  <2> QED BY <2>1, <2>3, <2>4
<1>6. LET t == Stepped(s, "5.0", lastPublished)
      IN  /\ SameScenario({3, 4, 5, 6}, s, t)
          /\ \A j \in DOMAIN s.actions : t.actions[j].lastUpdatedBy = ""
  <2> DEFINE actions == Signed51(s)
             t == [s EXCEPT !.actions = actions]
  <2>1. ASSUME NEW j \in DOMAIN s.actions
        PROVE  /\ SameParts({3, 4, 5, 6}, s.actions[j], actions[j])
               /\ actions[j].lastUpdatedBy = ""
    <3>1. \A a \in Actions : \A x :
              /\ SameParts({3, 4, 5, 6}, a, [a EXCEPT !.lastUpdatedBy = x])
              /\ [a EXCEPT !.lastUpdatedBy = x].lastUpdatedBy = x
      BY DEF Actions, SameParts
    <3>2. /\ SameParts({3, 4, 5, 6}, s.actions[j], [s.actions[j] EXCEPT !.lastUpdatedBy = ""])
          /\ [s.actions[j] EXCEPT !.lastUpdatedBy = ""].lastUpdatedBy = ""
      BY <1>0, <3>1, Zenon
    <3>3. actions[j] = [s.actions[j] EXCEPT !.lastUpdatedBy = ""]
      BY DEF Signed51
    <3> HIDE DEF actions
    <3> QED BY <3>2, <3>3, Zenon
  <2>2. DOMAIN actions = DOMAIN s.actions
    BY DEF Signed51
  <2>3. Stepped(s, "5.0", lastPublished) = t
    BY DEF Stepped
  <2> HIDE DEF actions
  <2>4. SameScenario({3, 4, 5, 6}, s, t) /\ t.actions = actions
    BY <2>1, <2>2, WithOtherActions DEF Scenarios
  <2> QED BY <2>1, <2>3, <2>4
<1> QED BY <1>1, <1>2, <1>3, <1>4, <1>5, <1>6

\* What is said of an action depends on ids only.
LEMMA SameTold ==
    ASSUME NEW report, NEW s, NEW t, NEW a, NEW b, t.id = s.id, b.id = a.id
    PROVE  ToldOfAction(report, t, b) = ToldOfAction(report, s, a)
  BY DEF ToldOfAction

\* What is reported of a scenario is reported of one that is the same in that,
LEMMA SameBefore ==
    ASSUME NEW parts, NEW a, NEW b, SameScenario(parts, a, b), NEW c, NEW report
    PROVE  /\ 3 \in parts => /\ DropIsReported(report, b) => DropIsReported(report, a)
                             /\ RenameIsReported(report, b, c) => RenameIsReported(report, a, c)
           /\ 4 \in parts => (ScaleIsReported(report, b, c) => ScaleIsReported(report, a, c))
           /\ 5 \in parts => (DateIsReported(report, b, c) => DateIsReported(report, a, c))
           /\ 6 \in parts => (StateIsReported(report, b, c) => StateIsReported(report, a, c))
           /\ 7 \in parts => (NameIsReported(report, b, c) => NameIsReported(report, a, c))
<1>1. /\ b.id = a.id /\ DOMAIN b.actions = DOMAIN a.actions
      /\ \A j \in DOMAIN a.actions :
            /\ SameParts(parts, a.actions[j], b.actions[j])
            /\ ToldOfAction(report, b, b.actions[j]) = ToldOfAction(report, a, a.actions[j])
  <2>1. b.id = a.id /\ DOMAIN b.actions = DOMAIN a.actions
    BY DEF SameScenario
  <2>2. ASSUME NEW j \in DOMAIN a.actions
        PROVE  /\ SameParts(parts, a.actions[j], b.actions[j])
               /\ ToldOfAction(report, b, b.actions[j]) = ToldOfAction(report, a, a.actions[j])
    <3>1. SameParts(parts, a.actions[j], b.actions[j])
      BY DEF SameScenario
    <3>2. b.actions[j].id = a.actions[j].id
      BY <3>1 DEF SameParts
    <3> QED BY <2>1, <3>1, <3>2, SameTold
  <2> QED BY <2>1, <2>2
<1>2. ASSUME 3 \in parts, DropIsReported(report, b) PROVE DropIsReported(report, a)
  <2>1. b.existingActions = a.existingActions
    BY <1>2 DEF SameScenario
  <2>2. \A j \in DOMAIN a.actions : /\ b.actions[j].owner = a.actions[j].owner
                                    /\ b.actions[j].deadline = a.actions[j].deadline
    BY <1>1, <1>2 DEF SameParts
  <2> QED BY <1>1, <1>2, <2>1, <2>2 DEF DropIsReported
<1>3. ASSUME 3 \in parts, RenameIsReported(report, b, c) PROVE RenameIsReported(report, a, c)
  BY <1>1, <1>3 DEF RenameIsReported, SameScenario
<1>4. ASSUME 4 \in parts, ScaleIsReported(report, b, c) PROVE ScaleIsReported(report, a, c)
  BY <1>1, <1>4 DEF ScaleIsReported, SameScenario
<1>5. ASSUME 5 \in parts, DateIsReported(report, b, c) PROVE DateIsReported(report, a, c)
  BY <1>1, <1>5 DEF DateIsReported, SameParts
<1>6. ASSUME 6 \in parts, StateIsReported(report, b, c) PROVE StateIsReported(report, a, c)
  BY <1>1, <1>6 DEF StateIsReported, SameParts
<1>7. ASSUME 7 \in parts, NameIsReported(report, b, c) PROVE NameIsReported(report, a, c)
  BY <1>1, <1>7 DEF NameIsReported, SameParts
<1> QED BY <1>2, <1>3, <1>4, <1>5, <1>6, <1>7

\* and so is what has become of it.
LEMMA SameAfter ==
    ASSUME NEW parts, NEW a, NEW b, DOMAIN b.actions = DOMAIN a.actions,
           NEW c, SameScenario(parts, b, c), NEW report
    PROVE  /\ 3 \in parts => (RenameIsReported(report, a, b) => RenameIsReported(report, a, c))
           /\ 4 \in parts => (ScaleIsReported(report, a, b) => ScaleIsReported(report, a, c))
           /\ 5 \in parts => (DateIsReported(report, a, b) => DateIsReported(report, a, c))
           /\ 6 \in parts => (StateIsReported(report, a, b) => StateIsReported(report, a, c))
           /\ 7 \in parts => (NameIsReported(report, a, b) => NameIsReported(report, a, c))
<1>1. \A j \in DOMAIN a.actions : SameParts(parts, b.actions[j], c.actions[j])
  BY DEF SameScenario
<1>3. ASSUME 3 \in parts, RenameIsReported(report, a, b) PROVE RenameIsReported(report, a, c)
  BY <1>3 DEF RenameIsReported, SameScenario
<1>4. ASSUME 4 \in parts, ScaleIsReported(report, a, b) PROVE ScaleIsReported(report, a, c)
  BY <1>4 DEF ScaleIsReported, SameScenario
<1>5. ASSUME 5 \in parts, DateIsReported(report, a, b) PROVE DateIsReported(report, a, c)
  BY <1>1, <1>5 DEF DateIsReported, SameParts
<1>6. ASSUME 6 \in parts, StateIsReported(report, a, b) PROVE StateIsReported(report, a, c)
  BY <1>1, <1>6 DEF StateIsReported, SameParts
<1>7. ASSUME 7 \in parts, NameIsReported(report, a, b) PROVE NameIsReported(report, a, c)
  BY <1>1, <1>7 DEF NameIsReported, SameParts
<1> QED BY <1>3, <1>4, <1>5, <1>6, <1>7

\* What a status says of a scenario that has come to the k-th version.
SaysOf(status, k, old, new) ==
    /\ k >= 3 => DropIsReported(status.migrationChanges40, old)
    /\ RenameIsReported(status.migrationChanges40, old, new)
    /\ ScaleIsReported(status.migrationChanges41, old, new)
    /\ DateIsReported(status.migrationChanges42, old, new)
    /\ StateIsReported(status.migrationChanges50, old, new)
    /\ NameIsReported(status.migrationChanges51, old, new)

\* What comes after that version is the same yet.
Ahead(k, old, new) == SameScenario({n \in {3, 4, 5, 6, 7} : k < n}, old, new)

\* A step adds its report to what is said of a scenario.
LEMMA StepSaysOf ==
    ASSUME NEW doc, Fit(doc), doc.schemaVersion \in VersionSet, UniqueIds(doc.scenarios),
           \A i \in DOMAIN doc.scenarios : UniqueIds(doc.scenarios[i].actions),
           NEW status, DOMAIN status = StatusNames, NEW lastPublished \in OrNone(Times),
           NEW r, r = executeMigration(doc, lastPublished, status), ~r.failed,
           NEW i \in DOMAIN doc.scenarios, NEW old, NEW k, k = IndexOf(doc.schemaVersion),
           Ahead(k, old, doc.scenarios[i]), SaysOf(status, k, old, doc.scenarios[i])
    PROVE  /\ Ahead(k + 1, old, r.doc.scenarios[i])
           /\ SaysOf(r.status, k + 1, old, r.doc.scenarios[i])
<1> DEFINE items == doc.scenarios
           v == doc.schemaVersion
           s == items[i]
           t == r.doc.scenarios[i]
<1>1. items \in Seq(Scenarios) /\ UniqueIds(items) /\ s \in Scenarios
  BY ContentParts DEF Fit
<1>2. UniqueIds(s.actions) /\ i \in DOMAIN items
  OBVIOUS
<1>3. t = Stepped(s, v, lastPublished)
  <2>1. StepsTo(doc, r.doc, lastPublished)
    BY StepIsOfScenarios DEF Fit
  <2> QED BY <2>1 DEF StepsTo
<1>4. v = "4.0" => \A j \in DOMAIN items : Mappable(items[j])
  <2> SUFFICES ASSUME v = "4.0" PROVE \A j \in DOMAIN items : Mappable(items[j])
    OBVIOUS
  <2>1. r = migrateFrom40To41(doc, status)
    BY DEF executeMigration
  <2> QED BY <2>1 DEF migrateFrom40To41, Failed
<1>5. /\ v = "3.3" => \A j \in DOMAIN items : items[j].vulnerabilities \subseteq Vulnerabilities3X
      /\ v = "4.2" => \A j \in DOMAIN items : \A l \in DOMAIN items[j].actions :
                         items[j].actions[l].status \in Statuses3X4X
  BY DEF Fit, FitsItsVersion
<1>6. DOMAIN s.actions = DOMAIN old.actions
  BY DEF Ahead, SameScenario
<1>7. Ahead(k, old, s) /\ SaysOf(status, k, old, s)
  OBVIOUS
<1> DEFINE new == r.status
<1>8. /\ v = "3.2" => new = status
      /\ v = "3.3" => Adds(new, status, "migrationChanges40", Report40(items))
      /\ v = "4.0" => Adds(new, status, "migrationChanges41", Report41(items))
      /\ v = "4.1" => Adds(new, status, "migrationChanges42", Report42(items, lastPublished))
      /\ v = "4.2" => Adds(new, status, "migrationChanges50", Report50(items))
      /\ v = "5.0" => Adds(new, status, "migrationChanges51", Report51(items))
      /\ v = "5.1" => Adds(new, status, "migrationChanges52", Cardinality(doc.valuations))
  BY StatusSteps
<1> HIDE DEF items, v, s, t, new
<1>9. ASSUME v \in {"3.2", "5.1"} PROVE Ahead(k + 1, old, t) /\ SaysOf(new, k + 1, old, t)
  <2>1. t = s
    BY <1>1, <1>3, <1>9, SteppedParts
  <2>2. /\ new.migrationChanges40 = status.migrationChanges40
        /\ new.migrationChanges41 = status.migrationChanges41
        /\ new.migrationChanges42 = status.migrationChanges42
        /\ new.migrationChanges50 = status.migrationChanges50
        /\ new.migrationChanges51 = status.migrationChanges51
    BY <1>8, <1>9 DEF Adds, ReportNames
  <2>3. k \in {1, 7}
    BY <1>9, Indices DEF v
  <2>4. SaysOf(new, k + 1, old, t)
    <3>1. k + 1 >= 3 => k >= 3
      BY <2>3
    <3> QED BY <1>7, <2>1, <2>2, <3>1 DEF SaysOf
  <2>5. Ahead(k + 1, old, t)
    <3>1. {n \in {3, 4, 5, 6, 7} : k + 1 < n} \subseteq {n \in {3, 4, 5, 6, 7} : k < n}
      BY <2>3
    <3> DEFINE later == {n \in {3, 4, 5, 6, 7} : k + 1 < n}
               sooner == {n \in {3, 4, 5, 6, 7} : k < n}
    <3>2. SameScenario(sooner, old, t)
      BY <1>7, <2>1 DEF Ahead
    <3> HIDE DEF later, sooner
    <3>3. SameScenario(later, t, t)
      BY DEF SameScenario, SameParts
    <3>4. later \in SUBSET (sooner \cap later)
      BY <3>1 DEF later, sooner
    <3>5. SameScenario(later, old, t)
      BY <3>2, <3>3, <3>4, SameScenarios
    <3> QED BY <3>5 DEF Ahead, later
  <2> QED BY <2>4, <2>5
<1>10. ASSUME v = "3.3" PROVE Ahead(k + 1, old, t) /\ SaysOf(new, k + 1, old, t)
  <2>1. k = 2 /\ k + 1 = 3
    BY <1>10, Indices DEF v
  <2>2. SameScenario({3, 4, 5, 6, 7}, old, s)
    <3>1. {n \in {3, 4, 5, 6, 7} : k < n} = {3, 4, 5, 6, 7}
      BY <2>1
    <3> QED BY <1>7, <3>1 DEF Ahead
  <2>3. SameScenario({4, 5, 6, 7}, s, t)
    BY <1>1, <1>3, <1>10, SteppedParts
  <2>4. Ahead(k + 1, old, t)
    <3>1. {n \in {3, 4, 5, 6, 7} : k + 1 < n} = {4, 5, 6, 7}
      BY <2>1
    <3>2. {4, 5, 6, 7} \in SUBSET ({3, 4, 5, 6, 7} \cap {4, 5, 6, 7})
      OBVIOUS
    <3>3. SameScenario({4, 5, 6, 7}, old, t)
      BY <2>2, <2>3, <3>2, SameScenarios
    <3> QED BY <3>1, <3>3 DEF Ahead
  <2>5. new.migrationChanges40 = Report40(items)
    BY <1>8, <1>10 DEF Adds
  <2>6. /\ new.migrationChanges41 = status.migrationChanges41
        /\ new.migrationChanges42 = status.migrationChanges42
        /\ new.migrationChanges50 = status.migrationChanges50
        /\ new.migrationChanges51 = status.migrationChanges51
    BY <1>8, <1>10 DEF Adds, ReportNames
  <2>7. /\ ScaleIsReported(new.migrationChanges41, old, t)
        /\ DateIsReported(new.migrationChanges42, old, t)
        /\ StateIsReported(new.migrationChanges50, old, t)
        /\ NameIsReported(new.migrationChanges51, old, t)
    <3>1. /\ ScaleIsReported(new.migrationChanges41, old, s)
          /\ DateIsReported(new.migrationChanges42, old, s)
          /\ StateIsReported(new.migrationChanges50, old, s)
          /\ NameIsReported(new.migrationChanges51, old, s)
      BY <1>7, <2>6 DEF SaysOf
    <3>2. ScaleIsReported(new.migrationChanges41, old, t)
      BY <1>6, <2>3, <3>1, SameAfter
    <3>3. DateIsReported(new.migrationChanges42, old, t)
      BY <1>6, <2>3, <3>1, SameAfter
    <3>4. StateIsReported(new.migrationChanges50, old, t)
      BY <1>6, <2>3, <3>1, SameAfter
    <3>5. NameIsReported(new.migrationChanges51, old, t)
      BY <1>6, <2>3, <3>1, SameAfter
    <3> QED BY <3>2, <3>3, <3>4, <3>5
  <2>8. RenameIsReported(new.migrationChanges40, old, t)
    <3>1. t.vulnerabilities = {VULNERABILITY_3X_TO_4X_MAP[w] : w \in s.vulnerabilities}
      BY <1>1, <1>3, <1>10, SteppedParts
    <3>2. RenameIsReported(Report40(items), s, t)
      BY <1>1, <1>2, <1>5, <1>10, <3>1, RenamesAreReported DEF s
    <3> QED BY <2>2, <2>5, <3>2, SameBefore
  <2>9. DropIsReported(new.migrationChanges40, old)
    <3>1. DropIsReported(Report40(items), s)
      BY <1>1, <1>2, <1>5, <1>10, DropsAreReported DEF s
    <3> QED BY <2>2, <2>5, <3>1, SameBefore
  <2>10. SaysOf(new, k + 1, old, t)
    BY <2>7, <2>8, <2>9 DEF SaysOf
  <2> QED BY <2>4, <2>10
<1>11. ASSUME v = "4.0" PROVE Ahead(k + 1, old, t) /\ SaysOf(new, k + 1, old, t)
  <2>1. k = 3 /\ k + 1 = 4
    BY <1>11, Indices DEF v
  <2>2. SameScenario({4, 5, 6, 7}, old, s)
    <3>1. {n \in {3, 4, 5, 6, 7} : k < n} = {4, 5, 6, 7}
      BY <2>1
    <3> QED BY <1>7, <3>1 DEF Ahead
  <2>3. SameScenario({3, 5, 6, 7}, s, t)
    BY <1>1, <1>3, <1>11, SteppedParts
  <2>4. Ahead(k + 1, old, t)
    <3>1. {n \in {3, 4, 5, 6, 7} : k + 1 < n} = {5, 6, 7}
      BY <2>1
    <3>2. {5, 6, 7} \in SUBSET ({4, 5, 6, 7} \cap {3, 5, 6, 7})
      OBVIOUS
    <3>3. SameScenario({5, 6, 7}, old, t)
      BY <2>2, <2>3, <3>2, SameScenarios
    <3> QED BY <3>1, <3>3 DEF Ahead
  <2>5. new.migrationChanges41 = Report41(items)
    BY <1>8, <1>11 DEF Adds
  <2>6. /\ new.migrationChanges40 = status.migrationChanges40
        /\ new.migrationChanges42 = status.migrationChanges42
        /\ new.migrationChanges50 = status.migrationChanges50
        /\ new.migrationChanges51 = status.migrationChanges51
    BY <1>8, <1>11 DEF Adds, ReportNames
  <2>7. /\ RenameIsReported(new.migrationChanges40, old, t)
        /\ DateIsReported(new.migrationChanges42, old, t)
        /\ StateIsReported(new.migrationChanges50, old, t)
        /\ NameIsReported(new.migrationChanges51, old, t)
    <3>1. /\ RenameIsReported(new.migrationChanges40, old, s)
          /\ DateIsReported(new.migrationChanges42, old, s)
          /\ StateIsReported(new.migrationChanges50, old, s)
          /\ NameIsReported(new.migrationChanges51, old, s)
      BY <1>7, <2>6 DEF SaysOf
    <3>2. RenameIsReported(new.migrationChanges40, old, t)
      BY <1>6, <2>3, <3>1, SameAfter
    <3>3. DateIsReported(new.migrationChanges42, old, t)
      BY <1>6, <2>3, <3>1, SameAfter
    <3>4. StateIsReported(new.migrationChanges50, old, t)
      BY <1>6, <2>3, <3>1, SameAfter
    <3>5. NameIsReported(new.migrationChanges51, old, t)
      BY <1>6, <2>3, <3>1, SameAfter
    <3> QED BY <3>2, <3>3, <3>4, <3>5
  <2>8. ScaleIsReported(new.migrationChanges41, old, t)
    <3>1. t.risk = Rescaled(s.risk) /\ t.remainingRisk = Rescaled(s.remainingRisk)
      BY <1>1, <1>3, <1>11, SteppedParts
    <3>2. ScaleIsReported(Report41(items), s, t)
      BY <1>1, <1>2, <1>4, <1>11, <3>1, ScalesAreReported DEF s
    <3> QED BY <2>2, <2>5, <3>2, SameBefore
  <2>9. DropIsReported(new.migrationChanges40, old)
    BY <1>7, <2>1, <2>6 DEF SaysOf
  <2>10. SaysOf(new, k + 1, old, t)
    BY <2>7, <2>8, <2>9 DEF SaysOf
  <2> QED BY <2>4, <2>10
<1>12. ASSUME v = "4.1" PROVE Ahead(k + 1, old, t) /\ SaysOf(new, k + 1, old, t)
  <2>1. k = 4 /\ k + 1 = 5
    BY <1>12, Indices DEF v
  <2>2. SameScenario({5, 6, 7}, old, s)
    <3>1. {n \in {3, 4, 5, 6, 7} : k < n} = {5, 6, 7}
      BY <2>1
    <3> QED BY <1>7, <3>1 DEF Ahead
  <2>3. SameScenario({3, 4, 6, 7}, s, t)
    BY <1>1, <1>3, <1>12, SteppedParts
  <2>4. Ahead(k + 1, old, t)
    <3>1. {n \in {3, 4, 5, 6, 7} : k + 1 < n} = {6, 7}
      BY <2>1
    <3>2. {6, 7} \in SUBSET ({5, 6, 7} \cap {3, 4, 6, 7})
      OBVIOUS
    <3>3. SameScenario({6, 7}, old, t)
      BY <2>2, <2>3, <3>2, SameScenarios
    <3> QED BY <3>1, <3>3 DEF Ahead
  <2>5. new.migrationChanges42 = Report42(items, lastPublished)
    BY <1>8, <1>12 DEF Adds
  <2>6. /\ new.migrationChanges40 = status.migrationChanges40
        /\ new.migrationChanges41 = status.migrationChanges41
        /\ new.migrationChanges50 = status.migrationChanges50
        /\ new.migrationChanges51 = status.migrationChanges51
    BY <1>8, <1>12 DEF Adds, ReportNames
  <2>7. /\ RenameIsReported(new.migrationChanges40, old, t)
        /\ ScaleIsReported(new.migrationChanges41, old, t)
        /\ StateIsReported(new.migrationChanges50, old, t)
        /\ NameIsReported(new.migrationChanges51, old, t)
    <3>1. /\ RenameIsReported(new.migrationChanges40, old, s)
          /\ ScaleIsReported(new.migrationChanges41, old, s)
          /\ StateIsReported(new.migrationChanges50, old, s)
          /\ NameIsReported(new.migrationChanges51, old, s)
      BY <1>7, <2>6 DEF SaysOf
    <3>2. RenameIsReported(new.migrationChanges40, old, t)
      BY <1>6, <2>3, <3>1, SameAfter
    <3>3. ScaleIsReported(new.migrationChanges41, old, t)
      BY <1>6, <2>3, <3>1, SameAfter
    <3>4. StateIsReported(new.migrationChanges50, old, t)
      BY <1>6, <2>3, <3>1, SameAfter
    <3>5. NameIsReported(new.migrationChanges51, old, t)
      BY <1>6, <2>3, <3>1, SameAfter
    <3> QED BY <3>2, <3>3, <3>4, <3>5
  <2>8. DateIsReported(new.migrationChanges42, old, t)
    <3>1. \A j \in DOMAIN s.actions :
              t.actions[j].lastUpdated = WhenUpdated(s.actions[j], lastPublished)
      BY <1>1, <1>3, <1>12, SteppedParts
    <3>2. DateIsReported(Report42(items, lastPublished), s, t)
      BY <1>1, <1>2, <1>12, <3>1, DatesAreReported DEF s
    <3> QED BY <2>2, <2>5, <3>2, SameBefore
  <2>9. DropIsReported(new.migrationChanges40, old)
    BY <1>7, <2>1, <2>6 DEF SaysOf
  <2>10. SaysOf(new, k + 1, old, t)
    BY <2>7, <2>8, <2>9 DEF SaysOf
  <2> QED BY <2>4, <2>10
<1>13. ASSUME v = "4.2" PROVE Ahead(k + 1, old, t) /\ SaysOf(new, k + 1, old, t)
  <2>1. k = 5 /\ k + 1 = 6
    BY <1>13, Indices DEF v
  <2>2. SameScenario({6, 7}, old, s)
    <3>1. {n \in {3, 4, 5, 6, 7} : k < n} = {6, 7}
      BY <2>1
    <3> QED BY <1>7, <3>1 DEF Ahead
  <2>3. SameScenario({3, 4, 5, 7}, s, t)
    BY <1>1, <1>3, <1>13, SteppedParts
  <2>4. Ahead(k + 1, old, t)
    <3>1. {n \in {3, 4, 5, 6, 7} : k + 1 < n} = {7}
      BY <2>1
    <3>2. {7} \in SUBSET ({6, 7} \cap {3, 4, 5, 7})
      OBVIOUS
    <3>3. SameScenario({7}, old, t)
      BY <2>2, <2>3, <3>2, SameScenarios
    <3> QED BY <3>1, <3>3 DEF Ahead
  <2>5. new.migrationChanges50 = Report50(items)
    BY <1>8, <1>13 DEF Adds
  <2>6. /\ new.migrationChanges40 = status.migrationChanges40
        /\ new.migrationChanges41 = status.migrationChanges41
        /\ new.migrationChanges42 = status.migrationChanges42
        /\ new.migrationChanges51 = status.migrationChanges51
    BY <1>8, <1>13 DEF Adds, ReportNames
  <2>7. /\ RenameIsReported(new.migrationChanges40, old, t)
        /\ ScaleIsReported(new.migrationChanges41, old, t)
        /\ DateIsReported(new.migrationChanges42, old, t)
        /\ NameIsReported(new.migrationChanges51, old, t)
    <3>1. /\ RenameIsReported(new.migrationChanges40, old, s)
          /\ ScaleIsReported(new.migrationChanges41, old, s)
          /\ DateIsReported(new.migrationChanges42, old, s)
          /\ NameIsReported(new.migrationChanges51, old, s)
      BY <1>7, <2>6 DEF SaysOf
    <3>2. RenameIsReported(new.migrationChanges40, old, t)
      BY <1>6, <2>3, <3>1, SameAfter
    <3>3. ScaleIsReported(new.migrationChanges41, old, t)
      BY <1>6, <2>3, <3>1, SameAfter
    <3>4. DateIsReported(new.migrationChanges42, old, t)
      BY <1>6, <2>3, <3>1, SameAfter
    <3>5. NameIsReported(new.migrationChanges51, old, t)
      BY <1>6, <2>3, <3>1, SameAfter
    <3> QED BY <3>2, <3>3, <3>4, <3>5
  <2>8. StateIsReported(new.migrationChanges50, old, t)
    <3>1. \A j \in DOMAIN s.actions :
              t.actions[j].status = ACTION_STATUS_4X_TO_5X_MAP[s.actions[j].status]
      BY <1>1, <1>3, <1>13, SteppedParts
    <3>2. StateIsReported(Report50(items), s, t)
      BY <1>1, <1>2, <1>5, <1>13, <3>1, StatesAreReported DEF s
    <3> QED BY <2>2, <2>5, <3>2, SameBefore
  <2>9. DropIsReported(new.migrationChanges40, old)
    BY <1>7, <2>1, <2>6 DEF SaysOf
  <2>10. SaysOf(new, k + 1, old, t)
    BY <2>7, <2>8, <2>9 DEF SaysOf
  <2> QED BY <2>4, <2>10
<1>14. ASSUME v = "5.0" PROVE Ahead(k + 1, old, t) /\ SaysOf(new, k + 1, old, t)
  <2>1. k = 6 /\ k + 1 = 7
    BY <1>14, Indices DEF v
  <2>2. SameScenario({7}, old, s)
    <3>1. {n \in {3, 4, 5, 6, 7} : k < n} = {7}
      BY <2>1
    <3> QED BY <1>7, <3>1 DEF Ahead
  <2>3. SameScenario({3, 4, 5, 6}, s, t)
    BY <1>1, <1>3, <1>14, SteppedParts
  <2>4. Ahead(k + 1, old, t)
    <3>1. {n \in {3, 4, 5, 6, 7} : k + 1 < n} = {}
      BY <2>1
    <3>2. {} \in SUBSET ({7} \cap {3, 4, 5, 6})
      OBVIOUS
    <3>3. SameScenario({}, old, t)
      BY <2>2, <2>3, <3>2, SameScenarios
    <3> QED BY <3>1, <3>3 DEF Ahead
  <2>5. new.migrationChanges51 = Report51(items)
    BY <1>8, <1>14 DEF Adds
  <2>6. /\ new.migrationChanges40 = status.migrationChanges40
        /\ new.migrationChanges41 = status.migrationChanges41
        /\ new.migrationChanges42 = status.migrationChanges42
        /\ new.migrationChanges50 = status.migrationChanges50
    BY <1>8, <1>14 DEF Adds, ReportNames
  <2>7. /\ RenameIsReported(new.migrationChanges40, old, t)
        /\ ScaleIsReported(new.migrationChanges41, old, t)
        /\ DateIsReported(new.migrationChanges42, old, t)
        /\ StateIsReported(new.migrationChanges50, old, t)
    <3>1. /\ RenameIsReported(new.migrationChanges40, old, s)
          /\ ScaleIsReported(new.migrationChanges41, old, s)
          /\ DateIsReported(new.migrationChanges42, old, s)
          /\ StateIsReported(new.migrationChanges50, old, s)
      BY <1>7, <2>6 DEF SaysOf
    <3>2. RenameIsReported(new.migrationChanges40, old, t)
      BY <1>6, <2>3, <3>1, SameAfter
    <3>3. ScaleIsReported(new.migrationChanges41, old, t)
      BY <1>6, <2>3, <3>1, SameAfter
    <3>4. DateIsReported(new.migrationChanges42, old, t)
      BY <1>6, <2>3, <3>1, SameAfter
    <3>5. StateIsReported(new.migrationChanges50, old, t)
      BY <1>6, <2>3, <3>1, SameAfter
    <3> QED BY <3>2, <3>3, <3>4, <3>5
  <2>8. NameIsReported(new.migrationChanges51, old, t)
    <3>1. \A j \in DOMAIN s.actions : t.actions[j].lastUpdatedBy = ""
      BY <1>1, <1>3, <1>14, SteppedParts
    <3>2. NameIsReported(Report51(items), s, t)
      BY <1>1, <1>2, <1>14, <3>1, NamesAreReported DEF s
    <3> QED BY <2>2, <2>5, <3>2, SameBefore
  <2>9. DropIsReported(new.migrationChanges40, old)
    BY <1>7, <2>1, <2>6 DEF SaysOf
  <2>10. SaysOf(new, k + 1, old, t)
    BY <2>7, <2>8, <2>9 DEF SaysOf
  <2> QED BY <2>4, <2>10
<1>15. v # "5.2"
  BY DEF v, executeMigration, Failed
<1>16. Ahead(k + 1, old, t) /\ SaysOf(new, k + 1, old, t)
  BY <1>9, <1>10, <1>11, <1>12, <1>13, <1>14, <1>15, VersionsAre DEF v
<1> QED BY <1>16 DEF t, new

\* No step but that to 5.2 drops valuations.
LEMMA ValuationsStay ==
    ASSUME NEW doc \in RiScDocuments, doc.schemaVersion \in VersionSet, NEW lastPublished,
           NEW status, NEW r, r = executeMigration(doc, lastPublished, status), ~r.failed,
           doc.schemaVersion # "5.1"
    PROVE  r.doc.valuations = doc.valuations
<1>1. \A v, scenarios : InVersion(doc, v, scenarios).valuations = doc.valuations
  BY DEF InVersion, RiScDocuments
<1>2. CASE doc.schemaVersion = "3.2"
  <2>1. r.doc = [doc EXCEPT !.schemaVersion = "3.3"]
    BY <1>2 DEF executeMigration, migrateFrom32To33, Migrated
  <2> QED BY <2>1 DEF RiScDocuments
<1>3. CASE doc.schemaVersion = "3.3"
  <2>1. \E scenarios : r.doc = InVersion(doc, "4.0", scenarios)
    BY <1>3 DEF executeMigration, migrateFrom33To40, Migrated, InVersion
  <2> QED BY <1>1, <2>1
<1>4. CASE doc.schemaVersion = "4.0"
  <2>1. r = migrateFrom40To41(doc, status)
    BY <1>4 DEF executeMigration
  <2> DEFINE scenarios == [i \in DOMAIN doc.scenarios |->
                             updateScenarioFrom40To41(doc.scenarios[i])]
  <2>2. r.doc = InVersion(doc, "4.1", scenarios)
    BY <2>1 DEF migrateFrom40To41, Migrated, Failed, InVersion, Map
  <2> HIDE DEF scenarios
  <2> QED BY <1>1, <2>2
<1>5. CASE doc.schemaVersion = "4.1"
  <2>1. \E scenarios : r.doc = InVersion(doc, "4.2", scenarios)
    BY <1>5 DEF executeMigration, migrateFrom41To42, Migrated, InVersion
  <2> QED BY <1>1, <2>1
<1>6. CASE doc.schemaVersion = "4.2"
  <2>1. \E scenarios : r.doc = InVersion(doc, "5.0", scenarios)
    BY <1>6 DEF executeMigration, migrateFrom42To50, Migrated, InVersion
  <2> QED BY <1>1, <2>1
<1>7. CASE doc.schemaVersion = "5.0"
  <2>1. \E scenarios : r.doc = InVersion(doc, "5.1", scenarios)
    BY <1>7 DEF executeMigration, migrateFrom50To51, Migrated, InVersion
  <2> QED BY <1>1, <2>1
<1>8. CASE doc.schemaVersion = "5.2"
  BY <1>8 DEF executeMigration, Failed
<1> QED BY <1>2, <1>3, <1>4, <1>5, <1>6, <1>7, <1>8, VersionsAre

\* What a round has left of a document and said of it: k versions are done.
SaidOf(doc, new, status, k) ==
    /\ DOMAIN status = StatusNames /\ status.fromVersion = doc.schemaVersion
    /\ k = IndexOf(new.schemaVersion) /\ IndexOf(doc.schemaVersion) <= k
    /\ k = IndexOf(doc.schemaVersion) => ~status.migrationRequiresNewApproval
    /\ k = 8 /\ IndexOf(doc.schemaVersion) < 8 =>
           /\ status.migrationRequiresNewApproval
           /\ status.migrationChanges52 = Cardinality(doc.valuations)
    /\ k < 8 => new.valuations = doc.valuations
    /\ new.text = doc.text /\ DOMAIN new.scenarios = DOMAIN doc.scenarios
    /\ \A i \in DOMAIN doc.scenarios :
          /\ Ahead(k, doc.scenarios[i], new.scenarios[i])
          /\ SaysOf(status, k, doc.scenarios[i], new.scenarios[i])

\* So it is after a round that has not failed.
Said(doc, last) ==
    ~last.failed =>
        /\ Fit(last.doc) /\ last.doc.schemaVersion \in VersionSet /\ OwnIds(last.doc.scenarios)
        /\ SaidOf(doc, last.doc, last.status, IndexOf(last.doc.schemaVersion))

\* One step says what it does.
LEMMA StepSaysAll ==
    ASSUME NEW doc, doc.schemaVersion \in VersionSet, NEW old, Fit(old),
           old.schemaVersion \in VersionSet, OwnIds(old.scenarios),
           NEW status, NEW k, SaidOf(doc, old, status, k), NEW lastPublished \in OrNone(Times),
           NEW r, r = executeMigration(old, lastPublished, status), ~r.failed
    PROVE  /\ Fit(r.doc) /\ r.doc.schemaVersion \in VersionSet /\ OwnIds(r.doc.scenarios)
           /\ SaidOf(doc, r.doc, r.status, k + 1)
<1> DEFINE new == r.doc
           v == old.schemaVersion
<1>1. /\ Fit(new) /\ new.schemaVersion \in VersionSet
      /\ IndexOf(new.schemaVersion) = IndexOf(v) + 1
  BY MigrationStep
<1>2. old \in RiScDocuments /\ new \in RiScDocuments
  BY <1>1 DEF Fit
<1>3. StepsTo(old, new, lastPublished)
  BY <1>2, StepIsOfScenarios
<1>4. OwnIds(new.scenarios)
  <2>1. Retells(old, new)
    BY StepRetells
  <2>2. old \in OwnDocuments
    BY <1>2 DEF OwnDocuments
  <2> QED BY <1>2, <2>1, <2>2, RetoldOwn
<1>5. /\ DOMAIN status = StatusNames /\ status.fromVersion = doc.schemaVersion
      /\ k = IndexOf(v) /\ IndexOf(doc.schemaVersion) <= k
      /\ k < 8 => old.valuations = doc.valuations
      /\ old.text = doc.text /\ DOMAIN old.scenarios = DOMAIN doc.scenarios
  BY DEF SaidOf
<1>6. v # "5.2"
  BY DEF executeMigration, Failed
<1>7. k \in 1..8 /\ IndexOf(doc.schemaVersion) \in 1..8 /\ k # 8 /\ (k = 7 => v = "5.1")
  BY <1>5, <1>6, VersionsAre, Indices
<1>8. DOMAIN r.status = StatusNames /\ r.status.fromVersion = doc.schemaVersion
  <2>1. r.status = status \/ \E name, report : Adds(r.status, status, name, report)
    BY <1>5, <1>6, StatusSteps, VersionsAre
  <2> QED BY <1>5, <2>1 DEF Adds
<1>9. k + 1 = 8 => /\ r.status.migrationRequiresNewApproval
                   /\ r.status.migrationChanges52 = Cardinality(doc.valuations)
  <2> SUFFICES ASSUME k + 1 = 8
               PROVE  /\ r.status.migrationRequiresNewApproval
                      /\ r.status.migrationChanges52 = Cardinality(doc.valuations)
    OBVIOUS
  <2>1. v = "5.1" /\ old.valuations = doc.valuations
    BY <1>5, <1>7
  <2> QED BY <1>5, <2>1, StatusSteps DEF Adds
<1>10. k + 1 < 8 => new.valuations = doc.valuations
  <2>1. k + 1 < 8 => v # "5.1"
    BY <1>5, Indices
  <2> QED BY <1>2, <1>5, <1>7, <2>1, ValuationsStay
<1>11. new.text = doc.text /\ DOMAIN new.scenarios = DOMAIN doc.scenarios
  BY <1>3, <1>5 DEF StepsTo
<1>12. ASSUME NEW i \in DOMAIN doc.scenarios
       PROVE  /\ Ahead(k + 1, doc.scenarios[i], new.scenarios[i])
              /\ SaysOf(r.status, k + 1, doc.scenarios[i], new.scenarios[i])
  <2>1. Ahead(k, doc.scenarios[i], old.scenarios[i])
        /\ SaysOf(status, k, doc.scenarios[i], old.scenarios[i])
    BY DEF SaidOf
  <2>2. i \in DOMAIN old.scenarios
    BY <1>5
  <2>3. UniqueIds(old.scenarios)
        /\ \A j \in DOMAIN old.scenarios : UniqueIds(old.scenarios[j].actions)
    BY DEF OwnIds
  <2> QED BY <1>5, <2>1, <2>2, <2>3, StepSaysOf
<1>13. k + 1 = IndexOf(new.schemaVersion) /\ IndexOf(doc.schemaVersion) <= k + 1
       /\ k + 1 # IndexOf(doc.schemaVersion)
  BY <1>1, <1>5, <1>7
<1> HIDE DEF new, v
<1>14. SaidOf(doc, new, r.status, k + 1)
  BY <1>8, <1>9, <1>10, <1>11, <1>12, <1>13 DEF SaidOf
<1> QED BY <1>1, <1>4, <1>14 DEF new

\* So does a round of a migration,
LEMMA RoundSays ==
    ASSUME NEW doc, doc.schemaVersion \in VersionSet, NEW last, NEW toVersion,
           NEW lastPublished \in OrNone(Times), Said(doc, last)
    PROVE  Said(doc, Advance(last, lastPublished, toVersion))
<1>1. CASE last.failed \/ last.doc.schemaVersion = toVersion
  BY <1>1 DEF Advance
<1>2. CASE ~last.failed /\ last.doc.schemaVersion # toVersion
  <2> DEFINE new == executeMigration(last.doc, lastPublished, last.status)
             k == IndexOf(last.doc.schemaVersion)
  <2>1. Advance(last, lastPublished, toVersion) = new
    BY <1>2 DEF Advance
  <2>2. /\ Fit(last.doc) /\ last.doc.schemaVersion \in VersionSet /\ OwnIds(last.doc.scenarios)
        /\ SaidOf(doc, last.doc, last.status, k)
    BY <1>2 DEF Said
  <2>3. ~new.failed => /\ Fit(new.doc) /\ new.doc.schemaVersion \in VersionSet
                       /\ OwnIds(new.doc.scenarios)
                       /\ SaidOf(doc, new.doc, new.status, k + 1)
    BY <2>2, StepSaysAll
  <2> HIDE DEF new, k
  <2>4. ~new.failed => k + 1 = IndexOf(new.doc.schemaVersion)
    BY <2>3 DEF SaidOf
  <2> QED BY <2>1, <2>3, <2>4 DEF Said
<1> QED BY <1>1, <1>2

\* and all of them.
LEMMA MigrationSays ==
    ASSUME NEW doc, doc.schemaVersion \in VersionSet, NEW status, NEW toVersion,
           NEW lastPublished \in OrNone(Times), Said(doc, Migrated(doc, status))
    PROVE  Said(doc, handleMigrate(doc, lastPublished, status, toVersion))
<1>1. PICK after : /\ Rounds(doc, lastPublished, status, toVersion, after)
                   /\ handleMigrate(doc, lastPublished, status, toVersion) = after[8]
  BY MigratesInRounds
<1> DEFINE Kept(n) == Said(doc, after[n])
<1>2. Kept(0)
  <2>1. after[0] = Migrated(doc, status)
    BY <1>1, VersionsAre DEF Rounds
  <2> QED BY <2>1
<1>3. ASSUME NEW n \in 0..7, Kept(n) PROVE Kept(n + 1)
  <2>1. after[n + 1] = Advance(after[n], lastPublished, toVersion)
    <3>1. n + 1 \in 0..8 /\ n + 1 # 0 /\ (n + 1) - 1 = n
      OBVIOUS
    <3> QED BY <1>1, <3>1, VersionsAre DEF Rounds
  <2> QED BY <1>3, <2>1, RoundSays
<1> HIDE DEF Kept
<1>4. Kept(8)
  <2>1. Kept(1)
    BY <1>2, <1>3
  <2>2. Kept(2)
    BY <1>3, <2>1
  <2>3. Kept(3)
    BY <1>3, <2>2
  <2>4. Kept(4)
    BY <1>3, <2>3
  <2>5. Kept(5)
    BY <1>3, <2>4
  <2>6. Kept(6)
    BY <1>3, <2>5
  <2>7. Kept(7)
    BY <1>3, <2>6
  <2> QED BY <1>3, <2>7
<1> QED BY <1>1, <1>4 DEF Kept

\* Before the first round nothing is reported, and nothing has to be.
LEMMA SaidAtFirst ==
    ASSUME NEW doc \in OwnDocuments, Valid(doc), NEW toVersion, NEW status,
           status = [NoChanges EXCEPT !.fromVersion = doc.schemaVersion, !.toVersion = toVersion]
    PROVE  Said(doc, Migrated(doc, status))
<1> DEFINE k == IndexOf(doc.schemaVersion)
<1>1. doc \in RiScDocuments /\ OwnIds(doc.scenarios)
  BY DEF OwnDocuments
<1>2. Fit(doc) /\ doc.schemaVersion \in VersionSet
  BY <1>1, ValidFits
<1>3. /\ DOMAIN status = StatusNames /\ status.fromVersion = doc.schemaVersion
      /\ status.migrationRequiresNewApproval = FALSE
  BY DEF NoChanges, StatusNames, ReportNames
<1>4. k \in 1..8
  BY <1>2, IndicesAreNumbers
<1>5. ASSUME NEW i \in DOMAIN doc.scenarios
      PROVE  /\ Ahead(k, doc.scenarios[i], doc.scenarios[i])
             /\ SaysOf(status, k, doc.scenarios[i], doc.scenarios[i])
  <2> DEFINE s == doc.scenarios[i]
  <2>1. Ahead(k, s, s)
    BY DEF Ahead, SameScenario, SameParts
  <2>2. \A report : /\ RenameIsReported(report, s, s) /\ ScaleIsReported(report, s, s)
                    /\ DateIsReported(report, s, s) /\ StateIsReported(report, s, s)
                    /\ NameIsReported(report, s, s)
    BY DEF RenameIsReported, ScaleIsReported, DateIsReported, StateIsReported, NameIsReported
  <2>3. ASSUME k >= 3 PROVE \A report : DropIsReported(report, s)
    <3>1. doc.schemaVersion \notin {"3.2", "3.3"}
      BY <2>3, Indices
    <3>2. Major(doc.schemaVersion) > 3
      BY <1>2, <3>1, VersionsAre, Majors
    <3>3. ValidScenario(s, doc.schemaVersion)
      BY DEF Valid
    <3>4. s.existingActions = None
      BY <3>2, <3>3 DEF ValidScenario
    <3>5. \A j \in DOMAIN s.actions : {s.actions[j].owner, s.actions[j].deadline} = {None}
      BY <3>2, <3>3 DEF ValidScenario, ValidAction
    <3> HIDE DEF s
    <3>6. \A j \in DOMAIN s.actions :
              {s.actions[j].owner, s.actions[j].deadline} \ {None, ""} = {}
      BY <3>5
    <3> QED BY <3>4, <3>6 DEF DropIsReported
  <2> HIDE DEF s, k
  <2>4. SaysOf(status, k, s, s)
    BY <2>2, <2>3 DEF SaysOf
  <2> QED BY <2>1, <2>4 DEF s
<1>6. k = 8 => ~(IndexOf(doc.schemaVersion) < 8)
  BY <1>4
<1> HIDE DEF k
<1>7. k = IndexOf(doc.schemaVersion) /\ IndexOf(doc.schemaVersion) <= k
  BY <1>4 DEF k
<1>8. SaidOf(doc, doc, status, k)
  BY <1>3, <1>5, <1>6, <1>7 DEF SaidOf
<1> QED BY <1>1, <1>2, <1>8 DEF Said, Migrated, k

\* What a status reports of a document that was migrated and is now another.
Reports(status, doc, new) ==
    /\ Valid(new) /\ status.fromVersion = doc.schemaVersion
    /\ status.migrationRequiresNewApproval <=> doc.schemaVersion # latestSupportedVersion
    /\ doc.valuations # {} => status.migrationChanges52 = Cardinality(doc.valuations)
    /\ doc.text = new.text /\ Ids(doc.scenarios) = Ids(new.scenarios)
    /\ \A i \in DOMAIN doc.scenarios :
           ScenarioIsReported(status, doc.scenarios[i],
                              Find(new.scenarios, doc.scenarios[i].id))

\* In the newest version all of a scenario is reported.
LEMMA ScenarioReported ==
    ASSUME NEW status, NEW old, NEW new \in Scenarios, UniqueIds(new.actions),
           Ahead(8, old, new), SaysOf(status, 8, old, new)
    PROVE  ScenarioIsReported(status, old, new)
<1>1. {n \in {3, 4, 5, 6, 7} : 8 < n} = {}
  OBVIOUS
<1>2. SameScenario({}, old, new)
  BY <1>1 DEF Ahead
<1>3. /\ new.text = old.text /\ new.threatActors = old.threatActors
      /\ DOMAIN new.actions = DOMAIN old.actions
      /\ \A j \in DOMAIN old.actions :
            new.actions[j].id = old.actions[j].id /\ new.actions[j].text = old.actions[j].text
  BY <1>2 DEF SameScenario, SameParts
<1>4. /\ DropIsReported(status.migrationChanges40, old)
      /\ RenameIsReported(status.migrationChanges40, old, new)
      /\ ScaleIsReported(status.migrationChanges41, old, new)
      /\ DateIsReported(status.migrationChanges42, old, new)
      /\ StateIsReported(status.migrationChanges50, old, new)
      /\ NameIsReported(status.migrationChanges51, old, new)
  BY DEF SaysOf
<1>5. new.actions \in Seq(Actions)
  BY ScenarioParts
<1>6. Ids(old.actions) = Ids(new.actions)
  BY <1>3 DEF Ids
<1>7. ASSUME NEW j \in DOMAIN old.actions
      PROVE  ActionIsReported(status, old, old.actions[j], Find(new.actions, old.actions[j].id))
  <2>1. Find(new.actions, new.actions[j].id) = new.actions[j]
    BY <1>3, <1>5, FindsTheOnly
  <2>2. Find(new.actions, old.actions[j].id) = new.actions[j]
    BY <1>3, <2>1
  <2>3. \A field \in {old.actions[j].owner, old.actions[j].deadline} \ {None, ""} :
           LET told == ToldOfAction(status.migrationChanges40, old, old.actions[j])
           IN  told # None /\ field \in {told.removedOwner, told.removedDeadline}
    BY <1>4 DEF DropIsReported
  <2>4. old.actions[j].status # new.actions[j].status =>
            ToldOfAction(status.migrationChanges50, old, old.actions[j])
                = [id |-> old.actions[j].id, old |-> old.actions[j].status,
                   new |-> new.actions[j].status]
    BY <1>4 DEF StateIsReported
  <2>5. old.actions[j].lastUpdated # new.actions[j].lastUpdated =>
            ToldOfAction(status.migrationChanges42, old, old.actions[j])
                = [id |-> old.actions[j].id, lastUpdated |-> new.actions[j].lastUpdated]
    BY <1>4 DEF DateIsReported
  <2>6. old.actions[j].lastUpdatedBy # new.actions[j].lastUpdatedBy =>
            ToldOfAction(status.migrationChanges51, old, old.actions[j])
                = [id |-> old.actions[j].id, lastUpdatedBy |-> new.actions[j].lastUpdatedBy]
    BY <1>4 DEF NameIsReported
  <2>7. old.actions[j].text = new.actions[j].text
    BY <1>3
  <2>8. ActionIsReported(status, old, old.actions[j], new.actions[j])
    BY <2>3, <2>4, <2>5, <2>6, <2>7 DEF ActionIsReported
  <2> QED BY <2>2, <2>8
<1>8. old.existingActions \notin {None, ""} =>
          /\ Told(status.migrationChanges40, old.id) # None
          /\ Told(status.migrationChanges40, old.id).removedExistingActions = old.existingActions
  BY <1>4 DEF DropIsReported
<1>9. \A v \in old.vulnerabilities \ new.vulnerabilities :
          /\ Told(status.migrationChanges40, old.id) # None
          /\ \E c \in Told(status.migrationChanges40, old.id).changedVulnerabilities :
                 c.old = v /\ c.new \in new.vulnerabilities
  BY <1>4 DEF RenameIsReported
<1>10. /\ old.risk # new.risk =>
              /\ Told(status.migrationChanges41, old.id) # None
              /\ RiskIsReported(Told(status.migrationChanges41, old.id).risk, old.risk, new.risk)
       /\ old.remainingRisk # new.remainingRisk =>
              /\ Told(status.migrationChanges41, old.id) # None
              /\ RiskIsReported(Told(status.migrationChanges41, old.id).remainingRisk,
                                old.remainingRisk, new.remainingRisk)
  BY <1>4 DEF ScaleIsReported
<1> QED BY <1>3, <1>6, <1>7, <1>8, <1>9, <1>10 DEF ScenarioIsReported

\* What is fetched is reported.
LEMMA FetchedReports ==
    ASSUME NEW f, ToShow(f) \in OwnDocuments, ~Fetched(f).failed
    PROVE  Reports(Fetched(f).status, ToShow(f), Fetched(f).doc)
<1> DEFINE doc == ToShow(f)
           last == LastPublished(f)
           status == [NoChanges EXCEPT !.fromVersion = doc.schemaVersion,
                                       !.toVersion = latestSupportedVersion]
           result == handleMigrate(doc, last, status, latestSupportedVersion)
           new == result.doc
<1>1. Valid(doc) /\ Fetched(f) = migrate(doc, last, latestSupportedVersion)
  BY DEF Fetched, Failed
<1>2. Fetched(f) = result /\ ~result.failed /\ Valid(new)
  <2> HIDE DEF result, doc, last
  <2>1. migrate(doc, last, latestSupportedVersion).failed = FALSE
    BY <1>1
  <2> USE DEF result
  <2> QED BY <1>1, <2>1 DEF migrate, Failed
<1>3. last \in OrNone(Times)
  BY DEF LastPublished, OrNone, Times
<1>4. doc \in OwnDocuments /\ doc \in RiScDocuments
  BY DEF OwnDocuments
<1>5. Fit(doc) /\ doc.schemaVersion \in VersionSet
  BY <1>1, <1>4, ValidFits
<1>6. new.schemaVersion = "5.2"
  <2> HIDE DEF doc, last, status
  <2> QED BY <1>2, <1>3, <1>5, MigrationLeads DEF latestSupportedVersion
<1>7. Said(doc, result)
  <2>1. Said(doc, Migrated(doc, status))
    BY <1>1, <1>4, SaidAtFirst
  <2> HIDE DEF doc, last, status
  <2> QED BY <1>3, <1>5, <2>1, MigrationSays
<1> HIDE DEF doc, last, result
<1> DEFINE said == result.status
<1>8. /\ Fit(new) /\ OwnIds(new.scenarios) /\ SaidOf(doc, new, said, IndexOf(new.schemaVersion))
  BY <1>2, <1>7 DEF Said
<1>9. SaidOf(doc, new, said, 8)
  BY <1>6, <1>8, Indices
<1> HIDE DEF new, said
<1>10. /\ IndexOf(doc.schemaVersion) \in 1..8
       /\ IndexOf(doc.schemaVersion) = 8 <=> doc.schemaVersion = "5.2"
  BY <1>5, VersionsAre, Indices
<1>11. said.migrationRequiresNewApproval <=> doc.schemaVersion # latestSupportedVersion
  <2>1. IndexOf(doc.schemaVersion) = 8 => ~said.migrationRequiresNewApproval
    BY <1>9 DEF SaidOf
  <2>2. IndexOf(doc.schemaVersion) < 8 => said.migrationRequiresNewApproval
    BY <1>9 DEF SaidOf
  <2> QED BY <1>10, <2>1, <2>2 DEF latestSupportedVersion
<1>12. doc.valuations # {} => said.migrationChanges52 = Cardinality(doc.valuations)
  <2> SUFFICES ASSUME doc.valuations # {}
               PROVE  said.migrationChanges52 = Cardinality(doc.valuations)
    OBVIOUS
  <2>1. ~Since(doc.schemaVersion, "5.2")
    BY <1>1 DEF Valid
  <2>2. IndexOf(doc.schemaVersion) < 8
    BY <1>10, <2>1, Indices DEF Since
  <2> QED BY <1>9, <2>2 DEF SaidOf
<1>13. /\ new.text = doc.text /\ DOMAIN new.scenarios = DOMAIN doc.scenarios
       /\ \A i \in DOMAIN doc.scenarios :
             /\ Ahead(8, doc.scenarios[i], new.scenarios[i])
             /\ SaysOf(said, 8, doc.scenarios[i], new.scenarios[i])
  BY <1>9 DEF SaidOf
<1>14. new \in RiScDocuments /\ new.scenarios \in Seq(Scenarios) /\ UniqueIds(new.scenarios)
  BY <1>8, DocumentParts DEF Fit, OwnIds
<1>15. \A i \in DOMAIN doc.scenarios : new.scenarios[i].id = doc.scenarios[i].id
  BY <1>13 DEF Ahead, SameScenario
<1>16. Ids(doc.scenarios) = Ids(new.scenarios)
  BY <1>13, <1>15 DEF Ids
<1>17. ASSUME NEW i \in DOMAIN doc.scenarios
       PROVE  ScenarioIsReported(said, doc.scenarios[i],
                                 Find(new.scenarios, doc.scenarios[i].id))
  <2>1. i \in DOMAIN new.scenarios /\ new.scenarios[i] \in Scenarios
    BY <1>13, <1>14
  <2>2. Find(new.scenarios, new.scenarios[i].id) = new.scenarios[i]
    BY <1>14, <2>1, FindsTheOnly
  <2>3. Find(new.scenarios, doc.scenarios[i].id) = new.scenarios[i]
    BY <1>15, <2>2
  <2>4. UniqueIds(new.scenarios[i].actions)
    BY <1>8, <2>1 DEF OwnIds
  <2>5. ScenarioIsReported(said, doc.scenarios[i], new.scenarios[i])
    BY <1>13, <2>1, <2>4, ScenarioReported
  <2> QED BY <2>3, <2>5
<1>18. said.fromVersion = doc.schemaVersion
  BY <1>9 DEF SaidOf
<1>19. Valid(new)
  BY <1>2 DEF new
<1>20. Reports(said, doc, new)
  BY <1>11, <1>12, <1>13, <1>16, <1>17, <1>18, <1>19 DEF Reports
<1> QED BY <1>2, <1>20 DEF doc, new, said

-----------------------------------------------------------------------------
(* What the page announces.                                                *)

\* A selection reports what was migrated of what is stored, as long as it has the
\* status that came with it.
Announces(f, s) ==
    s.migrationStatus.fromVersion # None => Reports(s.migrationStatus, ToShow(f), s.content)

\* What the page shows reports it, and what a save that failed would bring back;
\* what is being saved has no such status.
ReportInv ==
    /\ ~Quiet => page.selected.migrationStatus.fromVersion = None
    /\ history.orderly /\ ~history.lost =>
          /\ Announces(files, page.selected)
          /\ ~Quiet /\ page.request.answer # "ok" => Announces(files, page.request.old)

\* What is told only depends on what is stored, and on two parts of a selection.
LEMMA SameAnnounced ==
    ASSUME NEW f, NEW g, g.published = f.published, g.draft = f.draft, NEW s, NEW t,
           t.content = s.content, t.migrationStatus = s.migrationStatus, Announces(f, s)
    PROVE  Announces(g, t)
BY DEF Announces, ToShow

\* A step that shows and stores the same.
LEMMA ReportStays ==
    ASSUME ReportInv, files'.published = files.published, files'.draft = files.draft,
           page'.selected.content = page.selected.content,
           page'.selected.migrationStatus = page.selected.migrationStatus,
           Quiet' <=> Quiet, ~Quiet => page'.request = page.request,
           history'.orderly => history.orderly, ~history'.lost => ~history.lost
    PROVE  ReportInv'
<1>1. ASSUME history'.orderly, ~history'.lost
      PROVE  /\ Announces(files', page'.selected)
             /\ ~Quiet' /\ page'.request.answer # "ok" => Announces(files', page'.request.old)
  <2>1. Announces(files, page.selected)
    BY <1>1 DEF ReportInv
  <2>2. Announces(files', page'.selected)
    BY <2>1, SameAnnounced
  <2>3. ASSUME ~Quiet', page'.request.answer # "ok" PROVE Announces(files', page'.request.old)
    <3>1. page'.request = page.request /\ Announces(files, page.request.old)
      BY <1>1, <2>3 DEF ReportInv
    <3> QED BY <3>1, SameAnnounced
  <2> QED BY <2>2, <2>3
<1> QED BY <1>1 DEF ReportInv

\* A save that begins has no status, and would bring back what was shown.
LEMMA SaveTells ==
    ASSUME NEW selected, NEW c, NEW objects, NEW after,
           page' = UpdateRiSc(selected, c, objects, after), files' = files,
           history'.orderly /\ ~history'.lost => Announces(files, selected)
    PROVE  ReportInv'
<1>1. /\ page'.update = "loading" /\ page'.request.old = selected
  BY RequestParts
<1>2. page'.selected.migrationStatus = NoChanges
  BY DEF UpdateRiSc
<1>3. page'.selected.migrationStatus.fromVersion = None
  BY <1>2 DEF NoChanges
<1>4. Announces(files', page'.selected)
  BY <1>3 DEF Announces
<1> QED BY <1>1, <1>3, <1>4 DEF ReportInv, Quiet

\* A row that is dropped is the page as it is, or from then on nothing is orderly.
LEMMA DropTells == ASSUME HistoryShape, ReportInv, NEW id, DropRow(id) PROVE ReportInv'
<1> DEFINE row == table.rows[id]
           orderly == history.orderly /\ row = page.selected
           parted == history.parted \/ table.early \/ (row # page.selected /\ Refused)
<1>1. page' = UpdateRiSc(row, [row.content EXCEPT !.scenarios = table.scenarios],
                         table.objects, "nothing")
  BY DEF DropRow, Show
<1>2. files' = files
  BY DEF DropRow
<1>3. history' = [history EXCEPT !.orderly = orderly, !.parted = parted]
  BY DEF DropRow
<1>4. orderly => history.orderly /\ row = page.selected
  OBVIOUS
<1> HIDE DEF row, orderly, parted
<1>5. history' = [orderly |-> orderly, parted |-> parted, lost |-> history.lost,
                  covered |-> history.covered]
  BY <1>3 DEF HistoryShape
<1>6. history'.lost = history.lost /\ history'.orderly = orderly
  BY <1>5
<1>7. (history'.orderly => orderly) /\ (~history'.lost => ~history.lost)
  BY <1>6, Zenon
<1>8. history'.orderly /\ ~history'.lost => Announces(files, row)
  BY <1>4, <1>7 DEF ReportInv
<1> QED BY <1>1, <1>2, <1>8, SaveTells

\* An approval stores and shows the same.
LEMMA ApprovalTells ==
    ASSUME EditorInv, HistoryShape, ReportInv, ApproveRiSc PROVE ReportInv'
<1>1. Quiet /\ PageOK(page) /\ FilesOK
  BY DEF ApproveRiSc, EditorInv
<1>2. CASE files.pr
  <2>1. page' = [page EXCEPT !.update = "error"] /\ UNCHANGED <<files, history>>
    BY <1>2 DEF ApproveRiSc, Show
  <2>2. page'.selected = page.selected /\ page'.update = "error"
    BY <1>1, <2>1 DEF PageOK
  <2> QED BY <1>1, <2>1, <2>2, ReportStays DEF Quiet
<1>3. CASE ~files.pr
  <2> DEFINE p == [page EXCEPT !.update = "success", !.selected.status = "SentForApproval"]
             pr == files.draft # None
  <2>1. /\ page' = p /\ files' = [files EXCEPT !.pr = pr]
        /\ history' = [history EXCEPT !.covered = files.draft]
    BY <1>3 DEF ApproveRiSc, Show
  <2>2. p.selected.content = page.selected.content
    BY <1>1, SentPage
  <2>3. p.update = "success"
    BY <1>1 DEF PageOK
  <2>4. p.selected.migrationStatus = page.selected.migrationStatus
    BY <1>1 DEF PageOK, SelectionOK
  <2> HIDE DEF p, pr
  <2>5. files'.published = files.published /\ files'.draft = files.draft
    BY <1>1, <2>1 DEF FilesOK
  <2>6. history'.orderly = history.orderly /\ history'.lost = history.lost
    BY <2>1 DEF HistoryShape
  <2>7. (history'.orderly => history.orderly) /\ (~history'.lost => ~history.lost)
    BY <2>6, Zenon
  <2>8. Quiet'
    BY <2>1, <2>3 DEF Quiet
  <2> QED BY <1>1, <2>1, <2>2, <2>4, <2>5, <2>7, <2>8, ReportStays
<1> QED BY <1>2, <1>3

\* What is shown while the service answers has no status, and once the answer is
\* there, what it replaced is not brought back.
LEMMA AnswersTell ==
    ASSUME EditorInv, HistoryShape, ReportInv, Serve \/ Fail PROVE ReportInv'
<1>1. ~Quiet /\ PageOK(page) /\ RequestOK(page.request, page.selected)
  BY DEF Serve, Fail, EditorInv, PageOK, Quiet
<1>2. page.selected.migrationStatus.fromVersion = None
  BY <1>1 DEF ReportInv
<1>3. CASE Serve
  <2>1. page' = [page EXCEPT !.request.answer = "ok"]
    BY <1>3 DEF Serve
  <2>2. page'.selected = page.selected /\ page'.update = page.update
        /\ page'.request = [page.request EXCEPT !.answer = "ok"]
    BY <1>1, <2>1 DEF PageOK
  <2>3. page'.request.answer = "ok"
    BY <1>1, <2>2 DEF RequestOK
  <2> QED BY <1>2, <2>2, <2>3 DEF ReportInv, Announces
<1>4. CASE Fail
  <2> DEFINE lost == history.lost \/ page.request.answer = "ok"
  <2>1. /\ page' = [page EXCEPT !.request.answer = "error"] /\ files' = files
        /\ history' = [history EXCEPT !.lost = lost]
    BY <1>4 DEF Fail
  <2>2. page'.selected = page.selected /\ page'.update = page.update
        /\ page'.request = [page.request EXCEPT !.answer = "error"]
    BY <1>1, <2>1 DEF PageOK
  <2>3. page'.request.old = page.request.old
    BY <1>1, <2>2 DEF RequestOK
  <2>4. ~lost => ~history.lost /\ page.request.answer # "ok"
    OBVIOUS
  <2> HIDE DEF lost
  <2>5. history'.orderly = history.orderly /\ history'.lost = lost
    BY <2>1 DEF HistoryShape
  <2>6. (history'.orderly => history.orderly) /\ (~history'.lost => ~lost)
    BY <2>5, Zenon
  <2>7. history'.orderly /\ ~history'.lost => Announces(files, page.request.old)
    BY <1>1, <2>4, <2>6 DEF ReportInv
  <2> QED BY <1>2, <2>1, <2>2, <2>3, <2>7 DEF ReportInv, Announces
<1> QED BY <1>3, <1>4

\* The page shows what was saved, or goes back to what it showed.
LEMMA CallbacksTell ==
    ASSUME EditorInv, HistoryShape, ReportInv, OnSaved \/ OnError PROVE ReportInv'
<1>1. ~Quiet /\ RequestOK(page.request, page.selected)
  BY DEF OnSaved, OnError, EditorInv, PageOK, Quiet
<1>2. CASE OnSaved
  <2>1. page'.selected = page.request.new /\ page'.update = "success"
    BY <1>2 DEF OnSaved, Show
  <2>2. page'.selected = page.selected
    BY <1>1, <2>1 DEF RequestOK
  <2>3. page'.selected.migrationStatus.fromVersion = None
    BY <1>1, <2>2 DEF ReportInv
  <2> QED BY <2>1, <2>3 DEF ReportInv, Announces, Quiet
<1>3. CASE OnError
  <2> DEFINE parted == history.parted \/ ~history.orderly
  <2>1. /\ page.request.answer = "error" /\ files' = files
        /\ history' = [history EXCEPT !.parted = parted]
        /\ page'.selected = page.request.old /\ page'.update = "error"
    BY <1>3 DEF OnError, Show
  <2> HIDE DEF parted
  <2>2. history'.orderly = history.orderly /\ history'.lost = history.lost
    BY <2>1 DEF HistoryShape
  <2>3. (history'.orderly => history.orderly) /\ (~history'.lost => ~history.lost)
    BY <2>2, Zenon
  <2>4. history'.orderly /\ ~history'.lost => Announces(files, page.request.old)
    BY <1>1, <2>1, <2>3 DEF ReportInv
  <2> QED BY <2>1, <2>4 DEF ReportInv, Quiet
<1> QED BY <1>2, <1>3

\* What is stored of the document that is shown has ids of its own.
LEMMA ShownIsOwn ==
    ASSUME EditorInv, TableInv, HeldInv PROVE ToShow(files) \in OwnDocuments
<1> DEFINE doc == ToShow(files)
<1>1. doc \in Docs
  BY DEF EditorInv, FilesOK, Docs, ToShow
<1>2. doc \in RiScDocuments /\ UniqueIds(doc.scenarios)
  BY <1>1 DEF EditorInv, FilesOK, TableInv, UniqueFiles
<1>3. ASSUME NEW i \in DOMAIN doc.scenarios PROVE UniqueIds(doc.scenarios[i].actions)
  <2> DEFINE x == Traits(doc.scenarios[i], doc.schemaVersion)
  <2>1. x \in Held
    BY DEF Held, StoredSeen
  <2>2. x.actions = IdList(doc.scenarios[i].actions)
    BY DEF Traits
  <2> HIDE DEF x
  <2>3. Apart(x.actions)
    BY <2>1 DEF HeldInv
  <2> QED BY <2>2, <2>3, ApartIds
<1> QED BY <1>2, <1>3 DEF OwnDocuments, OwnIds

\* What is fetched is reported.
LEMMA FetchTells ==
    ASSUME EditorInv, TableInv, HeldInv, FetchRiScs PROVE ReportInv'
<1>1. /\ page.selected.content = None /\ ~Fetched(files).failed /\ files' = files
      /\ page' = [page EXCEPT !.selected = Selected(files)]
  BY DEF FetchRiScs, Show
<1>2. page'.selected = Selected(files) /\ page'.update = page.update /\ page.update # "loading"
  BY <1>1 DEF EditorInv, PageOK, RequestOK
<1>3. page'.selected.content = Fetched(files).doc
      /\ page'.selected.migrationStatus = Fetched(files).status
  BY <1>2 DEF Selected, dtoToRiSc
<1>4. ToShow(files) \in OwnDocuments
  BY ShownIsOwn
<1>5. Reports(Fetched(files).status, ToShow(files), Fetched(files).doc)
  BY <1>1, <1>4, FetchedReports
<1>6. Announces(files', page'.selected)
  BY <1>1, <1>3, <1>5 DEF Announces
<1> QED BY <1>2, <1>6 DEF ReportInv, Quiet

\* Every step keeps it.
LEMMA ReportInvStep == ScenariosInv /\ ReportInv /\ [Next]_vars => ReportInv'
<1> SUFFICES ASSUME ScenariosInv, ReportInv, [Next]_vars PROVE ReportInv'
  OBVIOUS
<1>1. EditorInv /\ TableInv /\ HeldInv /\ HistoryShape
  BY DEF ScenariosInv, StoredInv, KeptInv
<1>2. CASE UNCHANGED <<page, files, history>>
  BY <1>2, ReportStays DEF Quiet
<1>3. CASE SavesShown
  <2>1. PICK c, objects, after : page' = UpdateRiSc(page.selected, c, objects, after)
    BY <1>3 DEF SavesShown
  <2>2. files' = files /\ history' = history
    BY <1>3 DEF SavesShown
  <2>3. history'.orderly /\ ~history'.lost => Announces(files, page.selected)
    BY <2>2 DEF ReportInv
  <2> QED BY <2>1, <2>2, <2>3, SaveTells
<1>4. CASE InDrawer \/ InWizard \/ InTable \/ InPage
  BY <1>1, <1>2, <1>3, <1>4, DrawerSaves, TableSaves, PageSaves, DropTells, ApprovalTells
     DEF Rerenders
<1>5. CASE Answers
  <2>1. CASE OnDifference \/ OnDifferenceError
    BY <1>2, <2>1 DEF OnDifference, OnDifferenceError, Rest
  <2> QED BY <1>1, <1>5, <2>1, AnswersTell, CallbacksTell DEF Answers
<1>6. CASE FetchRiScs
  BY <1>1, <1>6, FetchTells
<1>7. CASE UNCHANGED vars
  BY <1>2, <1>7 DEF vars
<1> QED BY <1>4, <1>5, <1>6, <1>7 DEF Next

\* At first nothing is shown.
LEMMA ReportInvInit == Init => ReportInv
<1> SUFFICES ASSUME Init PROVE ReportInv
  OBVIOUS
<1>1. page.selected.migrationStatus.fromVersion = None /\ Quiet
  BY DEF Init, NotSelected, NoChanges, Quiet
<1> QED BY <1>1 DEF ReportInv, Announces

\* SchemaService.ts:261: of whatever document in whatever version, everything that
\* its migration replaced or dropped is in the migration status with its old
\* value, nothing else is lost, what is shown is valid in the newest version, and
\* saving it asks for an approval, as long as the status is shown: unless an
\* answer was lost or a row was dropped with the content of an earlier rendering.
THEOREM MigrationsAreReported == Spec => []MigrationIsReported
<1>1. ReportInv => MigrationIsReported
  BY DEF ReportInv, Announces, Reports, MigrationIsReported, content
<1>2. (ScenariosInv /\ ReportInv) /\ [Next]_vars => (ScenariosInv /\ ReportInv)'
  BY ScenariosInvHolds, ReportInvStep
<1>3. Init => ScenariosInv /\ ReportInv
  BY ScenariosInvHolds, ReportInvInit
<1> QED BY <1>1, <1>2, <1>3, PTL DEF Spec

-----------------------------------------------------------------------------
(* Types.                                                                  *)

\* A report lists the changes of some items, or is none.
LEMMA ReportOfChanges ==
    ASSUME NEW S, NEW T, NEW items \in Seq(T), NEW changes, DOMAIN changes = DOMAIN items,
           changes = [k \in DOMAIN changes |-> changes[k]],
           \A k \in DOMAIN items : changes[k] \in S, NEW indices \in SUBSET (DOMAIN items)
    PROVE  OrNull(ItemsAt(changes, indices)) \in OrNone(Seq(S))
<1>1. changes \in Seq(S)
  BY MappedList
<1>2. ItemsAt(changes, indices) \in Seq(S)
  BY <1>1, ItemsAtIsSeq
<1> QED BY <1>2 DEF OrNull, OrNone

\* What is said of all actions of a scenario.
LEMMA ActionChangesAre ==
    ASSUME NEW S, NEW s \in Scenarios, NEW told, DOMAIN told = DOMAIN s.actions,
           told = [j \in DOMAIN told |-> told[j]], \A j \in DOMAIN s.actions : told[j] \in S
    PROVE  [id |-> s.id, changedActions |-> told] \in ActionChanges(S)
<1>1. told \in Seq(S)
  BY ScenarioFields, MappedList
<1> QED BY <1>1, ScenarioFields DEF ActionChanges

\* Of the step to 4.2,
LEMMA Change42Is ==
    ASSUME NEW s \in Scenarios, NEW lastPublished \in OrNone(Times)
    PROVE  Change42(s, lastPublished) \in ActionChanges(ActionChanges42)
<1> DEFINE told == [j \in DOMAIN s.actions |->
                       [id |-> s.actions[j].id, lastUpdated |-> lastPublished]]
<1>1. \A j \in DOMAIN s.actions : told[j] \in ActionChanges42
  <2>1. \A j \in DOMAIN s.actions : s.actions[j].id \in ActionId
    BY ScenarioFields DEF Actions
  <2> QED BY <2>1 DEF ActionChanges42
<1>2. /\ DOMAIN told = DOMAIN s.actions /\ told = [j \in DOMAIN told |-> told[j]]
      /\ Change42(s, lastPublished) = [id |-> s.id, changedActions |-> told]
  BY DEF Change42, Map
<1> HIDE DEF told
<1> QED BY <1>1, <1>2, ActionChangesAre

\* to 5.0
LEMMA Change50Is ==
    ASSUME NEW s \in Scenarios, \A j \in DOMAIN s.actions : s.actions[j].status \in Statuses3X4X
    PROVE  Change50(s) \in ActionChanges(ActionChanges50)
<1> DEFINE told == [j \in DOMAIN s.actions |->
                       [id |-> s.actions[j].id, old |-> s.actions[j].status,
                        new |-> ACTION_STATUS_4X_TO_5X_MAP[s.actions[j].status]]]
<1>1. \A j \in DOMAIN s.actions : told[j] \in ActionChanges50
  <2>1. \A j \in DOMAIN s.actions :
            /\ s.actions[j].id \in ActionId
            /\ ACTION_STATUS_4X_TO_5X_MAP[s.actions[j].status] \in Statuses5X
    BY ScenarioFields, StatusMap DEF Actions
  <2> QED BY <2>1 DEF ActionChanges50
<1>2. /\ DOMAIN told = DOMAIN s.actions /\ told = [j \in DOMAIN told |-> told[j]]
      /\ Change50(s) = [id |-> s.id, changedActions |-> told]
  BY DEF Change50, Map
<1> HIDE DEF told
<1> QED BY <1>1, <1>2, ActionChangesAre

\* and to 5.1.
LEMMA Change51Is ==
    ASSUME NEW s \in Scenarios PROVE Change51(s) \in ActionChanges(ActionChanges51)
<1> DEFINE Named(name) == [j \in DOMAIN s.actions |->
                              [id |-> s.actions[j].id, lastUpdatedBy |-> name]]
           told == Named("")
<1>1. \A j \in DOMAIN s.actions : told[j] \in ActionChanges51
  <2>1. \A j \in DOMAIN s.actions : s.actions[j].id \in ActionId
    BY ScenarioFields DEF Actions
  <2>2. ASSUME NEW name \in STRING PROVE \A j \in DOMAIN s.actions : Named(name)[j] \in ActionChanges51
    BY <2>1 DEF ActionChanges51
  <2>3. "" \in STRING
    BY DocumentAssumption
  <2> HIDE DEF Named
  <2> QED BY <2>2, <2>3, Zenon
<1>2. /\ DOMAIN told = DOMAIN s.actions /\ told = [j \in DOMAIN told |-> told[j]]
  OBVIOUS
<1>3. Change51(s) = [id |-> s.id, changedActions |-> told]
  BY DEF Change51, Map
<1> HIDE DEF told, Named
<1> QED BY <1>1, <1>2, <1>3, ActionChangesAre

\* What the steps report of the scenarios of a document that fits its version.
LEMMA ReportsAre ==
    ASSUME NEW items \in Seq(Scenarios)
    PROVE  /\ (\A k \in DOMAIN items : items[k].vulnerabilities \subseteq Vulnerabilities3X)
                  => Report40(items) \in OrNone(Seq(ScenarioChanges40))
           /\ (\A k \in DOMAIN items : Mappable(items[k]))
                  => Report41(items) \in OrNone(Seq(ScenarioChanges41))
           /\ \A lastPublished \in OrNone(Times) :
                  Report42(items, lastPublished) \in OrNone(Seq(ActionChanges(ActionChanges42)))
           /\ (\A k \in DOMAIN items : \A j \in DOMAIN items[k].actions :
                  items[k].actions[j].status \in Statuses3X4X)
                  => Report50(items) \in OrNone(Seq(ActionChanges(ActionChanges50)))
           /\ Report51(items) \in OrNone(Seq(ActionChanges(ActionChanges51)))
<1> DEFINE c40 == [k \in DOMAIN items |-> Change40(items[k])]
           c41 == [k \in DOMAIN items |-> Change41(items[k])]
           C42(last) == [k \in DOMAIN items |-> Change42(items[k], last)]
           c50 == [k \in DOMAIN items |-> Change50(items[k])]
           c51 == [k \in DOMAIN items |-> Change51(items[k])]
           Listed(c) == /\ DOMAIN c = DOMAIN items /\ c = [k \in DOMAIN c |-> c[k]]
<1>1. /\ Listed(c40) /\ Listed(c41) /\ Listed(c50) /\ Listed(c51)
      /\ \A last : Listed(C42(last))
  OBVIOUS
<1>2. \A k \in DOMAIN items : items[k] \in Scenarios
  OBVIOUS
<1>3. ASSUME \A k \in DOMAIN items : items[k].vulnerabilities \subseteq Vulnerabilities3X
      PROVE  Report40(items) \in OrNone(Seq(ScenarioChanges40))
  <2>1. \A k \in DOMAIN items : c40[k] \in ScenarioChanges40
    BY <1>2, <1>3, Change40Is
  <2> DEFINE indices == {k \in DOMAIN c40 : HasChange40(c40[k])}
  <2>2. Report40(items) = OrNull(ItemsAt(c40, indices))
    BY DEF Report40, Changed, Map
  <2>3. indices \in SUBSET (DOMAIN items)
    OBVIOUS
  <2> HIDE DEF c40, indices
  <2> QED BY <1>1, <2>1, <2>2, <2>3, ReportOfChanges
<1>4. ASSUME \A k \in DOMAIN items : Mappable(items[k])
      PROVE  Report41(items) \in OrNone(Seq(ScenarioChanges41))
  <2>1. \A k \in DOMAIN items : c41[k] \in ScenarioChanges41
    BY <1>2, <1>4, Change41Is
  <2> DEFINE indices == {k \in DOMAIN c41 : HasChange41(c41[k])}
  <2>2. Report41(items) = OrNull(ItemsAt(c41, indices))
    BY DEF Report41, Changed, Map
  <2>3. indices \in SUBSET (DOMAIN items)
    OBVIOUS
  <2> HIDE DEF c41, indices
  <2> QED BY <1>1, <2>1, <2>2, <2>3, ReportOfChanges
<1>5. ASSUME NEW last \in OrNone(Times)
      PROVE  Report42(items, last) \in OrNone(Seq(ActionChanges(ActionChanges42)))
  <2> DEFINE c42 == C42(last)
             indices == {k \in DOMAIN c42 : HasActions(c42[k])}
  <2>1. \A k \in DOMAIN items : c42[k] \in ActionChanges(ActionChanges42)
    BY <1>2, Change42Is
  <2>2. Report42(items, last) = OrNull(ItemsAt(c42, indices))
    BY DEF Report42, Changed, Map
  <2>3. indices \in SUBSET (DOMAIN items) /\ Listed(c42)
    OBVIOUS
  <2> HIDE DEF c42, indices
  <2> QED BY <2>1, <2>2, <2>3, ReportOfChanges
<1>6. ASSUME \A k \in DOMAIN items : \A j \in DOMAIN items[k].actions :
                 items[k].actions[j].status \in Statuses3X4X
      PROVE  Report50(items) \in OrNone(Seq(ActionChanges(ActionChanges50)))
  <2>1. \A k \in DOMAIN items : c50[k] \in ActionChanges(ActionChanges50)
    BY <1>2, <1>6, Change50Is
  <2> DEFINE indices == {k \in DOMAIN c50 : HasActions(c50[k])}
  <2>2. Report50(items) = OrNull(ItemsAt(c50, indices))
    BY DEF Report50, Changed, Map
  <2>3. indices \in SUBSET (DOMAIN items)
    OBVIOUS
  <2> HIDE DEF c50, indices
  <2> QED BY <1>1, <2>1, <2>2, <2>3, ReportOfChanges
<1>7. Report51(items) \in OrNone(Seq(ActionChanges(ActionChanges51)))
  <2>1. \A k \in DOMAIN items : c51[k] \in ActionChanges(ActionChanges51)
    BY <1>2, Change51Is
  <2> DEFINE indices == {k \in DOMAIN c51 : HasActions(c51[k])}
  <2>2. Report51(items) = OrNull(ItemsAt(c51, indices))
    BY DEF Report51, Changed, Map
  <2>3. indices \in SUBSET (DOMAIN items)
    OBVIOUS
  <2> HIDE DEF c51, indices
  <2> QED BY <1>1, <2>1, <2>2, <2>3, ReportOfChanges
<1> QED BY <1>3, <1>4, <1>5, <1>6, <1>7

\* A status with another report, or that asks for an approval, is one.
LEMMA StatusParts ==
    ASSUME NEW status \in MigrationStatuses
    PROVE  /\ DOMAIN status = StatusNames /\ Approved(status) \in MigrationStatuses
           /\ \A report \in OrNone(Seq(ScenarioChanges40)) :
                  [status EXCEPT !["migrationChanges40"] = report] \in MigrationStatuses
           /\ \A report \in OrNone(Seq(ScenarioChanges41)) :
                  [status EXCEPT !["migrationChanges41"] = report] \in MigrationStatuses
           /\ \A report \in OrNone(Seq(ActionChanges(ActionChanges42))) :
                  [status EXCEPT !["migrationChanges42"] = report] \in MigrationStatuses
           /\ \A report \in OrNone(Seq(ActionChanges(ActionChanges50))) :
                  [status EXCEPT !["migrationChanges50"] = report] \in MigrationStatuses
           /\ \A report \in OrNone(Seq(ActionChanges(ActionChanges51))) :
                  [status EXCEPT !["migrationChanges51"] = report] \in MigrationStatuses
           /\ \A changes \in BOOLEAN, number \in Nat :
                  [status EXCEPT !.migrationChanges = changes,
                                 !.migrationRequiresNewApproval = TRUE,
                                 !.migrationChanges52 = number] \in MigrationStatuses
<1> DEFINE S40 == OrNone(Seq(ScenarioChanges40))
           S41 == OrNone(Seq(ScenarioChanges41))
           S42 == OrNone(Seq(ActionChanges(ActionChanges42)))
           S50 == OrNone(Seq(ActionChanges(ActionChanges50)))
           S51 == OrNone(Seq(ActionChanges(ActionChanges51)))
           S52 == OrNone(Nat)
           V == OrNone(VersionSet)
<1>1. MigrationStatuses =
          [migrationChanges : BOOLEAN, migrationRequiresNewApproval : BOOLEAN,
           fromVersion : V, toVersion : V, migrationChanges40 : S40, migrationChanges41 : S41,
           migrationChanges42 : S42, migrationChanges50 : S50, migrationChanges51 : S51,
           migrationChanges52 : S52]
  BY DEF MigrationStatuses
<1>2. \A number \in Nat : number \in S52
  BY DEF OrNone
<1> HIDE DEF S40, S41, S42, S50, S51, S52, V
<1>3. DOMAIN status = StatusNames
  BY <1>1 DEF StatusNames, ReportNames
<1>4. Approved(status) \in MigrationStatuses
  BY <1>1 DEF Approved
<1>5. \A report \in S40 : [status EXCEPT !["migrationChanges40"] = report] \in MigrationStatuses
  BY <1>1
<1>6. \A report \in S41 : [status EXCEPT !["migrationChanges41"] = report] \in MigrationStatuses
  BY <1>1
<1>7. \A report \in S42 : [status EXCEPT !["migrationChanges42"] = report] \in MigrationStatuses
  BY <1>1
<1>8. \A report \in S50 : [status EXCEPT !["migrationChanges50"] = report] \in MigrationStatuses
  BY <1>1
<1>9. \A report \in S51 : [status EXCEPT !["migrationChanges51"] = report] \in MigrationStatuses
  BY <1>1
<1>10. \A changes \in BOOLEAN, number \in Nat :
           [status EXCEPT !.migrationChanges = changes, !.migrationRequiresNewApproval = TRUE,
                          !.migrationChanges52 = number] \in MigrationStatuses
  BY <1>1, <1>2
<1> QED BY <1>3, <1>4, <1>5, <1>6, <1>7, <1>8, <1>9, <1>10 DEF S40, S41, S42, S50, S51

\* A document that fits its version, the valuations of which can be counted.
Countable(doc) == Fit(doc) /\ doc.schemaVersion \in VersionSet /\ IsFiniteSet(doc.valuations)

\* Each step makes a status of a status, and leaves no more valuations.
LEMMA StepStatusIs ==
    ASSUME NEW doc, Countable(doc), NEW status \in MigrationStatuses,
           NEW lastPublished \in OrNone(Times),
           NEW r, r = executeMigration(doc, lastPublished, status), ~r.failed
    PROVE  r.status \in MigrationStatuses /\ IsFiniteSet(r.doc.valuations)
<1>1. /\ doc \in RiScDocuments /\ doc.scenarios \in Seq(Scenarios) /\ FitsItsVersion(doc)
      /\ IsFiniteSet(doc.valuations)
  BY DEF Countable, Fit, RiScDocuments
<1>2. CASE doc.schemaVersion = "3.2"
  <2>1. r = migrateFrom32To33(doc, status)
    BY <1>2 DEF executeMigration
  <2>2. r.status = status /\ r.doc.valuations = doc.valuations
    BY <1>1, <2>1 DEF migrateFrom32To33, Migrated, RiScDocuments
  <2> QED BY <1>1, <2>2
<1>3. CASE doc.schemaVersion = "3.3"
  <2> DEFINE scenarios == Map(doc.scenarios, updateScenarioFrom33To40)
  <2>1. r = migrateFrom33To40(doc, status)
    BY <1>3 DEF executeMigration
  <2>2. /\ r.status = [Approved(status) EXCEPT !["migrationChanges40"] = Report40(doc.scenarios)]
        /\ r.doc = [doc EXCEPT !.schemaVersion = "4.0", !.scenarios = scenarios]
    BY <2>1 DEF migrateFrom33To40, Migrated, Report40
  <2> HIDE DEF scenarios
  <2>3. r.doc.valuations = doc.valuations
    BY <1>1, <2>2 DEF RiScDocuments
  <2>4. Report40(doc.scenarios) \in OrNone(Seq(ScenarioChanges40))
    BY <1>1, <1>3, ReportsAre DEF FitsItsVersion
  <2>6. Approved(status) \in MigrationStatuses
    BY StatusParts
  <2>5. [Approved(status) EXCEPT !["migrationChanges40"] = Report40(doc.scenarios)]
            \in MigrationStatuses
    BY <2>4, <2>6, StatusParts, Zenon
  <2> QED BY <1>1, <2>2, <2>3, <2>5
<1>4. CASE doc.schemaVersion = "4.0"
  <2> DEFINE scenarios == Map(doc.scenarios, updateScenarioFrom40To41)
  <2>1. r = migrateFrom40To41(doc, status)
    BY <1>4 DEF executeMigration
  <2>2. /\ r.status = [Approved(status) EXCEPT !["migrationChanges41"] = Report41(doc.scenarios)]
        /\ r.doc = [doc EXCEPT !.schemaVersion = "4.1", !.scenarios = scenarios]
        /\ \A i \in DOMAIN doc.scenarios : Mappable(doc.scenarios[i])
    BY <2>1 DEF migrateFrom40To41, Migrated, Failed, Report41
  <2> HIDE DEF scenarios
  <2>3. r.doc.valuations = doc.valuations
    BY <1>1, <2>2 DEF RiScDocuments
  <2>4. Report41(doc.scenarios) \in OrNone(Seq(ScenarioChanges41))
    BY <1>1, <2>2, ReportsAre
  <2>6. Approved(status) \in MigrationStatuses
    BY StatusParts
  <2>5. [Approved(status) EXCEPT !["migrationChanges41"] = Report41(doc.scenarios)]
            \in MigrationStatuses
    BY <2>4, <2>6, StatusParts, Zenon
  <2> QED BY <1>1, <2>2, <2>3, <2>5
<1>5. CASE doc.schemaVersion = "4.1"
  <2> DEFINE scenarios == Map(doc.scenarios, LAMBDA s : MapActions(s,
                 LAMBDA a : [a EXCEPT !.lastUpdated = WhenUpdated(a, lastPublished)]))
  <2>1. r = migrateFrom41To42(doc, lastPublished, status)
    BY <1>5 DEF executeMigration
  <2>2. /\ r.status = [status EXCEPT !["migrationChanges42"] = Report42(doc.scenarios, lastPublished)]
        /\ r.doc = [doc EXCEPT !.schemaVersion = "4.2", !.scenarios = scenarios]
    BY <2>1 DEF migrateFrom41To42, Migrated, Report42
  <2> HIDE DEF scenarios
  <2>3. r.doc.valuations = doc.valuations
    BY <1>1, <2>2 DEF RiScDocuments
  <2>4. Report42(doc.scenarios, lastPublished) \in OrNone(Seq(ActionChanges(ActionChanges42)))
    BY <1>1, ReportsAre
  <2>6. status \in MigrationStatuses
    OBVIOUS
  <2>5. [status EXCEPT !["migrationChanges42"] = Report42(doc.scenarios, lastPublished)]
            \in MigrationStatuses
    BY <2>4, <2>6, StatusParts, Zenon
  <2> QED BY <1>1, <2>2, <2>3, <2>5
<1>6. CASE doc.schemaVersion = "4.2"
  <2> DEFINE scenarios == Map(doc.scenarios, LAMBDA s : MapActions(s,
                 LAMBDA a : [a EXCEPT !.status = ACTION_STATUS_4X_TO_5X_MAP[@]]))
  <2>1. r = migrateFrom42To50(doc, status)
    BY <1>6 DEF executeMigration
  <2>2. /\ r.status = [Approved(status) EXCEPT !["migrationChanges50"] = Report50(doc.scenarios)]
        /\ r.doc = [doc EXCEPT !.schemaVersion = "5.0", !.scenarios = scenarios]
    BY <2>1 DEF migrateFrom42To50, Migrated, Report50
  <2> HIDE DEF scenarios
  <2>3. r.doc.valuations = doc.valuations
    BY <1>1, <2>2 DEF RiScDocuments
  <2>4. Report50(doc.scenarios) \in OrNone(Seq(ActionChanges(ActionChanges50)))
    BY <1>1, <1>6, ReportsAre DEF FitsItsVersion
  <2>6. Approved(status) \in MigrationStatuses
    BY StatusParts
  <2>5. [Approved(status) EXCEPT !["migrationChanges50"] = Report50(doc.scenarios)]
            \in MigrationStatuses
    BY <2>4, <2>6, StatusParts, Zenon
  <2> QED BY <1>1, <2>2, <2>3, <2>5
<1>7. CASE doc.schemaVersion = "5.0"
  <2> DEFINE scenarios == Map(doc.scenarios, LAMBDA s : MapActions(s,
                 LAMBDA a : [a EXCEPT !.lastUpdatedBy = ""]))
  <2>1. r = migrateFrom50To51(doc, status)
    BY <1>7 DEF executeMigration
  <2>2. /\ r.status = [Approved(status) EXCEPT !["migrationChanges51"] = Report51(doc.scenarios)]
        /\ r.doc = [doc EXCEPT !.schemaVersion = "5.1", !.scenarios = scenarios]
    BY <2>1 DEF migrateFrom50To51, Migrated, Report51
  <2> HIDE DEF scenarios
  <2>3. r.doc.valuations = doc.valuations
    BY <1>1, <2>2 DEF RiScDocuments
  <2>4. Report51(doc.scenarios) \in OrNone(Seq(ActionChanges(ActionChanges51)))
    BY <1>1, ReportsAre
  <2>6. Approved(status) \in MigrationStatuses
    BY StatusParts
  <2>5. [Approved(status) EXCEPT !["migrationChanges51"] = Report51(doc.scenarios)]
            \in MigrationStatuses
    BY <2>4, <2>6, StatusParts, Zenon
  <2> QED BY <1>1, <2>2, <2>3, <2>5
<1>8. CASE doc.schemaVersion = "5.1"
  <2> DEFINE changes == status.migrationChanges \/ doc.valuations # {}
             number == Cardinality(doc.valuations)
             x == [status EXCEPT !.migrationChanges = changes]
             y == [x EXCEPT !.migrationRequiresNewApproval = TRUE]
             z == [y EXCEPT !.migrationChanges52 = number]
  <2>1. r.status = z
    BY <1>8 DEF executeMigration, migrateFrom51To52, Migrated
  <2>2. r.doc = [doc EXCEPT !.schemaVersion = "5.2", !.valuations = {}]
    BY <1>8 DEF executeMigration, migrateFrom51To52, Migrated
  <2>3. r.doc.valuations = {} /\ IsFiniteSet({})
    BY <1>1, <2>2, FS_EmptySet DEF RiScDocuments
  <2>4. number \in Nat
    BY <1>1, FS_CardinalityType
  <2>5. changes \in BOOLEAN
    <3>1. \A b \in BOOLEAN : (b \/ doc.valuations # {}) \in BOOLEAN
      BY Zenon
    <3>2. status.migrationChanges \in BOOLEAN
      BY DEF MigrationStatuses
    <3> QED BY <3>1, <3>2, Zenon
  <2> HIDE DEF changes, number
  <2>6. z \in MigrationStatuses
    BY <2>4, <2>5, StatusParts
  <2> QED BY <2>1, <2>3, <2>6
<1>9. CASE doc.schemaVersion = "5.2"
  BY <1>9 DEF executeMigration, Failed
<1> QED BY <1>2, <1>3, <1>4, <1>5, <1>6, <1>7, <1>8, <1>9, VersionsAre DEF Countable

\* What a round has come to, with its status.
Typed(last) ==
    ~last.failed => Countable(last.doc) /\ last.status \in MigrationStatuses

\* The next one has one, too.
LEMMA RoundIsTyped ==
    ASSUME NEW last, Typed(last), NEW lastPublished \in OrNone(Times), NEW toVersion
    PROVE  Typed(Advance(last, lastPublished, toVersion))
<1>1. CASE last.failed \/ last.doc.schemaVersion = toVersion
  BY <1>1 DEF Advance
<1>2. CASE ~(last.failed \/ last.doc.schemaVersion = toVersion)
  <2> DEFINE r == executeMigration(last.doc, lastPublished, last.status)
  <2>1. Countable(last.doc) /\ last.status \in MigrationStatuses
    BY <1>2 DEF Typed
  <2>2. ~r.failed => Fit(r.doc) /\ r.doc.schemaVersion \in VersionSet
    BY <2>1, MigrationStep DEF Countable
  <2>3. ~r.failed => r.status \in MigrationStatuses /\ IsFiniteSet(r.doc.valuations)
    BY <2>1, StepStatusIs
  <2>4. Advance(last, lastPublished, toVersion) = r
    BY <1>2 DEF Advance
  <2> HIDE DEF r
  <2> QED BY <2>2, <2>3, <2>4 DEF Typed, Countable
<1> QED BY <1>1, <1>2

\* A migration has a status.
LEMMA MigrationIsTyped ==
    ASSUME NEW doc \in RiScDocuments, Valid(doc), IsFiniteSet(doc.valuations),
           NEW lastPublished \in OrNone(Times), NEW toVersion \in VersionSet,
           NEW m, m = migrate(doc, lastPublished, toVersion), ~m.failed
    PROVE  m.status \in MigrationStatuses
<1> DEFINE status == [NoChanges EXCEPT !.fromVersion = doc.schemaVersion, !.toVersion = toVersion]
           result == handleMigrate(doc, lastPublished, status, toVersion)
<1>1. Countable(doc)
  BY ValidFits DEF Countable
<1>2. status \in MigrationStatuses
  <2>1. doc.schemaVersion \in OrNone(VersionSet) /\ toVersion \in OrNone(VersionSet)
    BY <1>1 DEF Countable, OrNone
  <2>2. \A S : None \in OrNone(S)
    BY DEF OrNone
  <2> QED BY <2>1, <2>2 DEF NoChanges, MigrationStatuses
<1>3. m = result
  BY DEF migrate, Failed
<1>4. PICK after : /\ Rounds(doc, lastPublished, status, toVersion, after)
                   /\ result = after[8]
  BY MigratesInRounds
<1>5. after[0] = Migrated(doc, status)
  BY <1>4, VersionsAre DEF Rounds
<1> HIDE DEF status, result
<1> DEFINE Ok(n) == Typed(after[n])
<1>6. Ok(0)
  BY <1>1, <1>2, <1>5 DEF Typed, Migrated
<1>7. ASSUME NEW n \in 0..7, Ok(n) PROVE Ok(n + 1)
  <2>1. after[n + 1] = Advance(after[n], lastPublished, toVersion)
    <3>1. n + 1 \in 0..8 /\ n + 1 # 0 /\ (n + 1) - 1 = n
      OBVIOUS
    <3> QED BY <1>4, <3>1, VersionsAre DEF Rounds
  <2> QED BY <1>7, <2>1, RoundIsTyped
<1> HIDE DEF Ok
<1>8. Ok(8)
  <2>1. Ok(1)
    BY <1>6, <1>7
  <2>2. Ok(2)
    BY <1>7, <2>1
  <2>3. Ok(3)
    BY <1>7, <2>2
  <2>4. Ok(4)
    BY <1>7, <2>3
  <2>5. Ok(5)
    BY <1>7, <2>4
  <2>6. Ok(6)
    BY <1>7, <2>5
  <2>7. Ok(7)
    BY <1>7, <2>6
  <2> QED BY <1>7, <2>7
<1> QED BY <1>3, <1>4, <1>8 DEF Ok, Typed

\* What is said of a property, and of a list.
LEMMA PropertyChangeIs ==
    ASSUME NEW S, NEW o \in S, NEW n \in S
    PROVE  changeForSimpleProperty(o, n) \in SimpleChanges(S)
BY DEF changeForSimpleProperty, SimpleChanges, OrNone

LEMMA ListChangeIs ==
    ASSUME NEW S, NEW o \in SUBSET S, NEW n \in SUBSET S
    PROVE  changeForListOfSimpleProperty(o, n) \in ListChanges(S)
BY DEF changeForListOfSimpleProperty, ListChanges

\* What is said of an action, in the form of its version.
LEMMA ActionChangeIs ==
    ASSUME NEW o \in Actions, NEW n \in Actions, NEW v \in VersionSet,
           ValidAction(o, v), ValidAction(n, v)
    PROVE  /\ Major(v) = 5 => compareAction5X(o, n) \in RiSc5XActionChanges
           /\ Major(v) = 4 => compareAction4X(o, n) \in RiSc4XActionChanges
           /\ Major(v) = 3 => compareAction3X(o, n) \in RiSc3XActionChanges
<1> DEFINE text == changeForSimpleProperty(o.text, n.text)
           status == changeForSimpleProperty(o.status, n.status)
           lastUpdated == changeForSimpleProperty(o.lastUpdated, n.lastUpdated)
           by == changeForSimpleProperty(o.lastUpdatedBy, n.lastUpdatedBy)
           owner == changeForSimpleProperty(o.owner, n.owner)
           deadline == changeForSimpleProperty(o.deadline, n.deadline)
           common == compareCommonActionFields(o, n)
           c4 == compareAction4X(o, n)
           c5 == compareAction5X(o, n)
           c3 == compareAction3X(o, n)
<1>1. /\ n.id \in ActionId /\ text \in SimpleChanges(Nat)
      /\ lastUpdated \in SimpleChanges(OrNone(Times))
      /\ by \in SimpleChanges(OrNone(STRING)) /\ owner \in SimpleChanges(OrNone(STRING))
      /\ deadline \in SimpleChanges(OrNone(STRING))
  <2>1. \A a \in {o, n} : /\ a.id \in ActionId /\ a.text \in Nat
                          /\ a.lastUpdated \in OrNone(Times)
                          /\ {a.lastUpdatedBy, a.owner, a.deadline} \subseteq OrNone(STRING)
    BY DEF Actions, OrNone
  <2> QED BY <2>1, PropertyChangeIs
<1>2. /\ Major(v) = 5 => status \in SimpleChanges(Statuses5X)
      /\ Major(v) # 5 => status \in SimpleChanges(Statuses3X4X)
  <2>1. /\ Major(v) = 5 => o.status \in Statuses5X /\ n.status \in Statuses5X
        /\ Major(v) # 5 => o.status \in Statuses3X4X /\ n.status \in Statuses3X4X
    BY DEF ValidAction, Statuses
  <2> QED BY <2>1, PropertyChangeIs
<1>3. common = [id |-> n.id, text |-> text, status |-> status]
  BY DEF compareCommonActionFields
<1> HIDE DEF text, status, lastUpdated, by, owner, deadline, common
<1>4. c4 = [id |-> n.id, text |-> text, status |-> status, lastUpdated |-> lastUpdated]
  BY <1>3 DEF compareAction4X, Extended, common, lastUpdated
<1>5. c5 = [id |-> n.id, text |-> text, status |-> status, lastUpdated |-> lastUpdated,
            lastUpdatedBy |-> by]
  BY <1>4 DEF compareAction5X, Extended, by
<1>6. c3 = [id |-> n.id, text |-> text, status |-> status, deadline |-> deadline,
            owner |-> owner]
  BY <1>3 DEF compareAction3X, Extended, common, owner, deadline
<1> QED BY <1>1, <1>2, <1>4, <1>5, <1>6
        DEF RiSc5XActionChanges, RiSc4XActionChanges, RiSc3XActionChanges

\* What is said of items that have changed, in a form that the changes of each
\* two of them have.
LEMMA TrackedIs ==
    ASSUME NEW S, NEW old \in Seq(S), NEW new \in Seq(S), UniqueIds(new), NEW changes,
           NEW t, t = changeForListOfComplexProperty(old, new),
           NEW changed, DOMAIN changed = DOMAIN t.changed,
           \A k \in DOMAIN t.changed : changed[k] \in changes,
           changed = [k \in DOMAIN t.changed |-> changed[k]]
    PROVE  [t EXCEPT !.changed = changed] \in TrackedChanges(changes, S)
<1> DEFINE gone == {i \in DOMAIN old : old[i].id \notin Ids(new)}
           come == {i \in DOMAIN new : new[i].id \notin Ids(old)}
           other == {i \in DOMAIN old : old[i].id \in Ids(new) /\ old[i] # Find(new, old[i].id)}
           others == ItemsAt(old, other)
           pairs == [k \in DOMAIN others |-> <<others[k], Find(new, others[k].id)>>]
<1>1. t = [deleted |-> ItemsAt(old, gone), changed |-> pairs, added |-> ItemsAt(new, come)]
  BY DEF changeForListOfComplexProperty, Map
<1>2. ItemsAt(old, gone) \in Seq(S) /\ ItemsAt(new, come) \in Seq(S) /\ others \in Seq(S)
  BY ItemsAtIsSeq
<1>3. DOMAIN pairs = 1..Len(others) /\ Len(others) \in Nat
  <2> HIDE DEF others
  <2> QED BY <1>2
<1> HIDE DEF gone, come, pairs, others
<1>4. t.changed = pairs /\ t = [deleted |-> t.deleted, changed |-> pairs, added |-> t.added]
      /\ t.deleted \in Seq(S) /\ t.added \in Seq(S)
  BY <1>1, <1>2
<1>5. changed \in Seq(changes)
  BY <1>3, <1>4
<1> QED BY <1>4, <1>5 DEF TrackedChanges

\* What is said of the actions of a scenario.
LEMMA ActionsComparedAre ==
    ASSUME NEW old \in Seq(Actions), NEW new \in Seq(Actions), UniqueIds(new),
           NEW v \in VersionSet, \A i \in DOMAIN old : ValidAction(old[i], v),
           \A i \in DOMAIN new : ValidAction(new[i], v)
    PROVE  LET t == changeForListOfComplexProperty(old, new)
           IN  /\ Major(v) = 5 => Compared(t, compareAction5X)
                                      \in TrackedChanges(RiSc5XActionChanges, Actions)
               /\ Major(v) = 4 => Compared(t, compareAction4X)
                                      \in TrackedChanges(RiSc4XActionChanges, Actions)
               /\ Major(v) = 3 => Compared(t, compareAction3X)
                                      \in TrackedChanges(RiSc3XActionChanges, Actions)
<1> DEFINE t == changeForListOfComplexProperty(old, new)
           c5 == [k \in DOMAIN t.changed |-> compareAction5X(t.changed[k][1], t.changed[k][2])]
           c4 == [k \in DOMAIN t.changed |-> compareAction4X(t.changed[k][1], t.changed[k][2])]
           c3 == [k \in DOMAIN t.changed |-> compareAction3X(t.changed[k][1], t.changed[k][2])]
<1>1. TellsApart(t, old, new)
  BY ListsCompared
<1>2. /\ Compared(t, compareAction5X) = [t EXCEPT !.changed = c5]
      /\ Compared(t, compareAction4X) = [t EXCEPT !.changed = c4]
      /\ Compared(t, compareAction3X) = [t EXCEPT !.changed = c3]
  BY DEF Compared
<1>3. ASSUME NEW k \in DOMAIN t.changed
      PROVE  LET o == t.changed[k][1]
                 n == t.changed[k][2]
             IN  o \in Actions /\ n \in Actions /\ ValidAction(o, v) /\ ValidAction(n, v)
  <2>1. PICK i \in DOMAIN old, j \in DOMAIN new : t.changed[k] = <<old[i], new[j]>>
    BY <1>1 DEF TellsApart, IsPair
  <2>2. t.changed[k][1] = old[i] /\ t.changed[k][2] = new[j]
    BY <2>1
  <2> QED BY <2>1, <2>2
<1>4. t = changeForListOfComplexProperty(old, new)
  OBVIOUS
<1> HIDE DEF t
<1>5. \A k \in DOMAIN t.changed : /\ Major(v) = 5 => c5[k] \in RiSc5XActionChanges
                                  /\ Major(v) = 4 => c4[k] \in RiSc4XActionChanges
                                  /\ Major(v) = 3 => c3[k] \in RiSc3XActionChanges
  BY <1>3, ActionChangeIs
<1>6. /\ DOMAIN c5 = DOMAIN t.changed /\ c5 = [k \in DOMAIN t.changed |-> c5[k]]
      /\ DOMAIN c4 = DOMAIN t.changed /\ c4 = [k \in DOMAIN t.changed |-> c4[k]]
      /\ DOMAIN c3 = DOMAIN t.changed /\ c3 = [k \in DOMAIN t.changed |-> c3[k]]
  OBVIOUS
<1> HIDE DEF c5, c4, c3
<1>7. CASE Major(v) = 5
  <2>1. [t EXCEPT !.changed = c5] \in TrackedChanges(RiSc5XActionChanges, Actions)
    BY <1>4, <1>5, <1>6, <1>7, TrackedIs
  <2> QED BY <1>2, <1>7, <2>1 DEF t
<1>8. CASE Major(v) = 4
  <2>1. [t EXCEPT !.changed = c4] \in TrackedChanges(RiSc4XActionChanges, Actions)
    BY <1>4, <1>5, <1>6, <1>8, TrackedIs
  <2> QED BY <1>2, <1>8, <2>1 DEF t
<1>9. CASE Major(v) = 3
  <2>1. [t EXCEPT !.changed = c3] \in TrackedChanges(RiSc3XActionChanges, Actions)
    BY <1>4, <1>5, <1>6, <1>9, TrackedIs
  <2> QED BY <1>2, <1>9, <2>1 DEF t
<1> QED BY <1>7, <1>8, <1>9

\* What is said of a risk.
LEMMA RiskChangeIs ==
    ASSUME NEW o \in RiScRisk, NEW n \in RiScRisk
    PROVE  compareRisk(o, n) \in RiScRiskChanges
<1>1. {o.probability, o.consequence, n.probability, n.consequence} \subseteq Nat
  BY DEF RiScRisk
<1> QED BY <1>1, PropertyChangeIs DEF compareRisk, RiScRiskChanges

\* What is said of a scenario, in the form of its version.
LEMMA ScenarioChangeIs ==
    ASSUME NEW o \in Scenarios, NEW n \in Scenarios, NEW v \in VersionSet,
           ValidScenario(o, v), ValidScenario(n, v), UniqueIds(n.actions)
    PROVE  /\ Major(v) = 5 => compareScenario5X(o, n) \in RiSc5XScenarioChanges
           /\ Major(v) = 4 => compareScenario4X(o, n) \in RiSc4XScenarioChanges
           /\ Major(v) = 3 => compareScenario3X(o, n) \in RiSc3XScenarioChanges
<1> DEFINE text == changeForSimpleProperty(o.text, n.text)
           actors == changeForListOfSimpleProperty(o.threatActors, n.threatActors)
           vuls == changeForListOfSimpleProperty(o.vulnerabilities, n.vulnerabilities)
           risk == compareRisk(o.risk, n.risk)
           remaining == compareRisk(o.remainingRisk, n.remainingRisk)
           existing == changeForSimpleProperty(o.existingActions, n.existingActions)
           t == changeForListOfComplexProperty(o.actions, n.actions)
           a5 == Compared(t, compareAction5X)
           a4 == Compared(t, compareAction4X)
           a3 == Compared(t, compareAction3X)
           common == compareCommonScenarioFields(o, n)
<1>1. /\ n.id \in ScenarioId /\ text \in SimpleChanges(Nat) /\ actors \in ListChanges(STRING)
      /\ existing \in SimpleChanges(OrNone(STRING))
  <2>1. \A s \in {o, n} : /\ s.id \in ScenarioId /\ s.text \in Nat
                          /\ s.threatActors \in SUBSET STRING
                          /\ s.existingActions \in OrNone(STRING)
    BY DEF Scenarios, OrNone
  <2> QED BY <2>1, PropertyChangeIs, ListChangeIs
<1>2. risk \in RiScRiskChanges /\ remaining \in RiScRiskChanges
  BY ScenarioFields, RiskChangeIs
<1>3. /\ Major(v) # 3 => vuls \in ListChanges(Vulnerabilities4X5X)
      /\ Major(v) = 3 => vuls \in ListChanges(Vulnerabilities3X)
  <2>1. \A s \in {o, n} :
            /\ Major(v) # 3 => s.vulnerabilities \in SUBSET Vulnerabilities4X5X
            /\ Major(v) = 3 => s.vulnerabilities \in SUBSET Vulnerabilities3X
    BY DEF ValidScenario, Vulnerabilities
  <2> QED BY <2>1, ListChangeIs
<1>4. /\ Major(v) = 5 => a5 \in TrackedChanges(RiSc5XActionChanges, Actions)
      /\ Major(v) = 4 => a4 \in TrackedChanges(RiSc4XActionChanges, Actions)
      /\ Major(v) = 3 => a3 \in TrackedChanges(RiSc3XActionChanges, Actions)
  <2>1. o.actions \in Seq(Actions) /\ n.actions \in Seq(Actions)
    BY ScenarioParts
  <2> QED BY <2>1, ActionsComparedAre DEF ValidScenario
<1>5. common = [id |-> n.id, text |-> text, threatActors |-> actors, vulnerabilities |-> vuls,
                risk |-> risk, remainingRisk |-> remaining]
  BY DEF compareCommonScenarioFields
<1>6. /\ compareScenario5X(o, n) = Extended(common, [actions |-> a5])
      /\ compareScenario4X(o, n) = Extended(common, [actions |-> a4])
      /\ compareScenario3X(o, n)
             = Extended(common, [actions |-> a3, existingActions |-> existing])
  BY DEF compareScenario5X, compareScenario4X, compareScenario3X
<1> HIDE DEF text, actors, vuls, risk, remaining, existing, t, a5, a4, a3, common
<1>7. ASSUME NEW a, NEW c, c = Extended(common, [actions |-> a])
      PROVE  c = [id |-> n.id, text |-> text, threatActors |-> actors, vulnerabilities |-> vuls,
                  risk |-> risk, remainingRisk |-> remaining, actions |-> a]
  BY <1>5, <1>7 DEF Extended
<1>8. ASSUME NEW c, c = Extended(common, [actions |-> a3, existingActions |-> existing])
      PROVE  c = [id |-> n.id, text |-> text, threatActors |-> actors, vulnerabilities |-> vuls,
                  risk |-> risk, remainingRisk |-> remaining, actions |-> a3,
                  existingActions |-> existing]
  BY <1>5, <1>8 DEF Extended
<1>9. CASE Major(v) = 5
  BY <1>1, <1>2, <1>3, <1>4, <1>6, <1>7, <1>9 DEF RiSc5XScenarioChanges
<1>10. CASE Major(v) = 4
  BY <1>1, <1>2, <1>3, <1>4, <1>6, <1>7, <1>10 DEF RiSc4XScenarioChanges
<1>11. CASE Major(v) = 3
  BY <1>1, <1>2, <1>3, <1>4, <1>6, <1>8, <1>11 DEF RiSc3XScenarioChanges
<1> QED BY <1>9, <1>10, <1>11

\* What is said of the scenarios of a document.
LEMMA ScenariosComparedAre ==
    ASSUME NEW old \in Seq(Scenarios), NEW new \in Seq(Scenarios), OwnIds(old), OwnIds(new),
           NEW v \in VersionSet, \A i \in DOMAIN old : ValidScenario(old[i], v),
           \A i \in DOMAIN new : ValidScenario(new[i], v)
    PROVE  LET t == changeForListOfComplexProperty(old, new)
           IN  /\ Major(v) = 5 => Compared(t, compareScenario5X)
                                      \in TrackedChanges(RiSc5XScenarioChanges, Scenarios)
               /\ Major(v) = 4 => Compared(t, compareScenario4X)
                                      \in TrackedChanges(RiSc4XScenarioChanges, Scenarios)
               /\ Major(v) = 3 => Compared(t, compareScenario3X)
                                      \in TrackedChanges(RiSc3XScenarioChanges, Scenarios)
<1> DEFINE t == changeForListOfComplexProperty(old, new)
           c5 == [k \in DOMAIN t.changed |-> compareScenario5X(t.changed[k][1], t.changed[k][2])]
           c4 == [k \in DOMAIN t.changed |-> compareScenario4X(t.changed[k][1], t.changed[k][2])]
           c3 == [k \in DOMAIN t.changed |-> compareScenario3X(t.changed[k][1], t.changed[k][2])]
<1>0. UniqueIds(new)
  BY DEF OwnIds
<1>1. TellsApart(t, old, new)
  BY <1>0, ListsCompared
<1>2. /\ Compared(t, compareScenario5X) = [t EXCEPT !.changed = c5]
      /\ Compared(t, compareScenario4X) = [t EXCEPT !.changed = c4]
      /\ Compared(t, compareScenario3X) = [t EXCEPT !.changed = c3]
  BY DEF Compared
<1>3. ASSUME NEW k \in DOMAIN t.changed
      PROVE  LET o == t.changed[k][1]
                 n == t.changed[k][2]
             IN  o \in Scenarios /\ n \in Scenarios /\ ValidScenario(o, v)
                 /\ ValidScenario(n, v) /\ UniqueIds(n.actions)
  <2>1. PICK i \in DOMAIN old, j \in DOMAIN new : t.changed[k] = <<old[i], new[j]>>
    BY <1>1 DEF TellsApart, IsPair
  <2>2. t.changed[k][1] = old[i] /\ t.changed[k][2] = new[j]
    BY <2>1
  <2> QED BY <2>1, <2>2 DEF OwnIds
<1>4. t = changeForListOfComplexProperty(old, new)
  OBVIOUS
<1> HIDE DEF t
<1>5. \A k \in DOMAIN t.changed : /\ Major(v) = 5 => c5[k] \in RiSc5XScenarioChanges
                                  /\ Major(v) = 4 => c4[k] \in RiSc4XScenarioChanges
                                  /\ Major(v) = 3 => c3[k] \in RiSc3XScenarioChanges
  BY <1>3, ScenarioChangeIs
<1>6. /\ DOMAIN c5 = DOMAIN t.changed /\ c5 = [k \in DOMAIN t.changed |-> c5[k]]
      /\ DOMAIN c4 = DOMAIN t.changed /\ c4 = [k \in DOMAIN t.changed |-> c4[k]]
      /\ DOMAIN c3 = DOMAIN t.changed /\ c3 = [k \in DOMAIN t.changed |-> c3[k]]
  OBVIOUS
<1> HIDE DEF c5, c4, c3
<1>7. CASE Major(v) = 5
  <2>1. [t EXCEPT !.changed = c5] \in TrackedChanges(RiSc5XScenarioChanges, Scenarios)
    BY <1>0, <1>4, <1>5, <1>6, <1>7, TrackedIs
  <2> QED BY <1>2, <1>7, <2>1 DEF t
<1>8. CASE Major(v) = 4
  <2>1. [t EXCEPT !.changed = c4] \in TrackedChanges(RiSc4XScenarioChanges, Scenarios)
    BY <1>0, <1>4, <1>5, <1>6, <1>8, TrackedIs
  <2> QED BY <1>2, <1>8, <2>1 DEF t
<1>9. CASE Major(v) = 3
  <2>1. [t EXCEPT !.changed = c3] \in TrackedChanges(RiSc3XScenarioChanges, Scenarios)
    BY <1>0, <1>4, <1>5, <1>6, <1>9, TrackedIs
  <2> QED BY <1>2, <1>9, <2>1 DEF t
<1> QED BY <1>7, <1>8, <1>9

\* What the comparison of two documents says.
LEMMA ComparisonIs ==
    ASSUME NEW updated \in OwnDocuments, NEW old \in OwnDocuments, Valid(updated), Valid(old),
           IsFiniteSet(old.valuations), NEW told, told = compare(updated, old, None)
    PROVE  told \in OrNone(RiScChanges)
<1> SUFFICES ASSUME told # None PROVE told \in RiScChanges
  BY DEF OrNone
<1> DEFINE v == updated.schemaVersion
           m == migrate(old, None, v)
           base == m.doc
           t == changeForListOfComplexProperty(base.scenarios, updated.scenarios)
           s5 == Compared(t, compareScenario5X)
           s4 == Compared(t, compareScenario4X)
           s3 == Compared(t, compareScenario3X)
           common == compareCommonRiScFields(base, updated, m.status)
           text == changeForSimpleProperty(base.text, updated.text)
           vals == changeForListOfSimpleProperty(base.valuations, updated.valuations)
<1>1. ~m.failed
  BY DEF compare
<1>2. told = CASE Major(v) = 5 -> comparison5X(updated, base, m.status)
               [] Major(v) = 4 -> comparison4X(updated, base, m.status)
               [] OTHER -> comparison3X(updated, base, m.status)
  BY <1>1 DEF compare
<1>3. base \in OwnDocuments /\ Valid(base) /\ base.schemaVersion = v /\ v \in VersionSet
  BY <1>1, BaseOf
<1>4. Major(v) \in {3, 4, 5}
  BY <1>3, VersionsAre, Majors
<1>5. /\ comparison5X(updated, base, m.status) = Extended(common, [type |-> 5, scenarios |-> s5])
      /\ comparison4X(updated, base, m.status) = Extended(common, [type |-> 4, scenarios |-> s4])
      /\ comparison3X(updated, base, m.status) = Extended(common, [type |-> 3, scenarios |-> s3])
  BY DEF comparison5X, comparison4X, comparison3X, comparison
<1>6. updated \in RiScDocuments /\ OwnIds(updated.scenarios) /\ base \in RiScDocuments
      /\ OwnIds(base.scenarios) /\ old \in RiScDocuments
  BY <1>3 DEF OwnDocuments
<1>7. /\ updated.scenarios \in Seq(Scenarios) /\ base.scenarios \in Seq(Scenarios)
      /\ updated.text \in Nat /\ base.text \in Nat
      /\ updated.valuations \in SUBSET Nat /\ base.valuations \in SUBSET Nat
  BY <1>6 DEF RiScDocuments
<1>8. /\ \A i \in DOMAIN base.scenarios : ValidScenario(base.scenarios[i], v)
      /\ \A i \in DOMAIN updated.scenarios : ValidScenario(updated.scenarios[i], v)
  BY <1>3 DEF Valid
<1>9. m.status \in MigrationStatuses
  <2>1. None \in OrNone(Times)
    BY DEF OrNone
  <2> HIDE DEF base
  <2> QED BY <1>1, <1>3, <1>6, <2>1, MigrationIsTyped
<1>10. /\ Major(v) = 5 => s5 \in TrackedChanges(RiSc5XScenarioChanges, Scenarios)
       /\ Major(v) = 4 => s4 \in TrackedChanges(RiSc4XScenarioChanges, Scenarios)
       /\ Major(v) = 3 => s3 \in TrackedChanges(RiSc3XScenarioChanges, Scenarios)
  <2> HIDE DEF base, m, v
  <2>0. v \in VersionSet
    BY <1>3
  <2> QED BY <1>6, <1>7, <1>8, <2>0, ScenariosComparedAre
<1>11. text \in SimpleChanges(Nat) /\ vals \in ListChanges(Nat)
  <2> HIDE DEF base
  <2> QED BY <1>7, PropertyChangeIs, ListChangeIs
<1>12. common = [text |-> text, valuations |-> vals, migrationChanges |-> m.status]
  BY DEF compareCommonRiScFields
<1> HIDE DEF s5, s4, s3, t, common, text, vals, base, m, v
<1>13. ASSUME NEW s, NEW major, NEW c, c = Extended(common, [type |-> major, scenarios |-> s])
       PROVE  c = [type |-> major, text |-> text, valuations |-> vals, scenarios |-> s,
                   migrationChanges |-> m.status]
  BY <1>12, <1>13 DEF Extended
<1>14. CASE Major(v) = 5
  <2>1. told = comparison5X(updated, base, m.status)
    BY <1>2, <1>14
  <2>2. told \in RiScChangesOf(5, RiSc5XScenarioChanges)
    BY <1>5, <1>9, <1>10, <1>11, <1>13, <1>14, <2>1 DEF RiScChangesOf
  <2> QED BY <2>2 DEF RiScChanges
<1>15. CASE Major(v) = 4
  <2>1. told = comparison4X(updated, base, m.status)
    BY <1>2, <1>15
  <2>2. told \in RiScChangesOf(4, RiSc4XScenarioChanges)
    BY <1>5, <1>9, <1>10, <1>11, <1>13, <1>15, <2>1 DEF RiScChangesOf
  <2> QED BY <2>2 DEF RiScChanges
<1>16. CASE Major(v) = 3
  <2>1. told = comparison3X(updated, base, m.status)
    BY <1>2, <1>16
  <2>2. told \in RiScChangesOf(3, RiSc3XScenarioChanges)
    BY <1>5, <1>9, <1>10, <1>11, <1>13, <1>16, <2>1 DEF RiScChangesOf
  <2> QED BY <2>2 DEF RiScChanges
<1> QED BY <1>4, <1>14, <1>15, <1>16

\* What is encrypted with keys has the form of a file's keys.
LEMMA EncryptedKeys == ASSUME NEW config \in SopsConfigs PROVE encrypt(config) \in SopsConfigs
<1> DEFINE groups == NewGroups(config)
           indices == {i \in 1..3 : groups[i].gcp_kms # <<>> \/ groups[i].age # {}}
           written == ItemsAt(groups, indices)
           list == First(config.gcp_kms)
           mine == {securityTeamPublicKey} \ {""}
           theirs == {backendPublicKey, securityPlatformPublicKey} \ {""}
           others == config.age \ ManagedKeys
<1>1. encrypt(config) = [shamir_threshold |-> config.shamir_threshold, gcp_kms |-> <<>>,
                         age |-> {}, key_groups |-> written]
  BY DEF encrypt, buildKeyGroups, NewGroups
<1>2. /\ config.shamir_threshold \in Nat /\ config.gcp_kms \in Seq(STRING)
      /\ config.age \in SUBSET STRING
  BY DEF SopsConfigs
<1>3. list \in Seq(STRING) /\ <<>> \in Seq(STRING)
  <2>1. CASE config.gcp_kms = <<>>
    BY <2>1 DEF First
  <2>2. CASE config.gcp_kms # <<>>
    <3>1. config.gcp_kms[1] \in STRING
      BY <1>2, <2>2
    <3> QED BY <2>2, <3>1 DEF First
  <2> QED BY <2>1, <2>2
<1>4. mine \in SUBSET STRING /\ theirs \in SUBSET STRING /\ others \in SUBSET STRING
  BY <1>2, KeysAssumption DEF ManagedKeys
<1>5. groups = <<[gcp_kms |-> list, age |-> mine], [gcp_kms |-> <<>>, age |-> theirs],
                 [gcp_kms |-> <<>>, age |-> others]>>
  BY DEF NewGroups
<1> HIDE DEF list, mine, theirs, others
<1>6. groups \in Seq(KeyGroups) /\ DOMAIN groups = 1..3
  <2> HIDE DEF groups
  <2> QED BY <1>3, <1>4, <1>5 DEF KeyGroups
<1>7. indices \in SUBSET (DOMAIN groups)
  BY <1>6
<1> HIDE DEF groups, indices
<1>8. written \in Seq(KeyGroups)
  BY <1>6, <1>7, ItemsAtIsSeq
<1> HIDE DEF written
<1> QED BY <1>1, <1>2, <1>3, <1>8 DEF SopsConfigs

\* The rows of a table have selections.
TableTyped(t) == t.objects \in Nat /\ \A id \in DOMAIN t.rows : t.rows[id] \in Selections

\* The page has one, and while it is loading a request.
PageTyped(p) ==
    /\ p.update \in {"idle", "loading", "success", "error"} /\ p.selected \in Selections
    /\ IF p.update = "loading" THEN p.request \in Requests ELSE p.request = None

\* What is said of the difference.
DifferenceTyped(diff) ==
    /\ {diff.loading, diff.late, diff.shown} \subseteq BOOLEAN
    /\ diff.value \in OrNone(RiScChanges)

\* What is stored, and how often may still be saved.
FilesTyped == files.pr \in BOOLEAN /\ \A doc \in Docs : IsFiniteSet(doc.valuations)

CountTyped ==
    /\ count = [saves |-> count.saves, faults |-> count.faults,
                differences |-> count.differences]
    /\ clock \in 0..MaxEdits /\ count.saves \in Nat /\ count.faults \in 0..MaxFaults

TypesInv ==
    FilesTyped /\ PageTyped(page) /\ TableTyped(table) /\ DifferenceTyped(difference) /\ CountTyped

\* The status of a document that was not migrated.
LEMMA NoChangesIs == NoChanges \in MigrationStatuses
BY DEF NoChanges, MigrationStatuses, OrNone

\* The table is rendered with selections.
LEMMA RenderedTypes ==
    ASSUME NEW t, TableTyped(t), NEW p, p.selected \in Selections, NEW d
    PROVE  TableTyped(ScenarioTable(t, p, d))
<1> DEFINE u == ScenarioTable(t, p, d)
<1>1. CASE d.step \/ p.selected.content = None
  <2>1. u = Unmounted
    BY <1>1 DEF ScenarioTable
  <2> HIDE DEF u
  <2>2. DOMAIN u.rows = {} /\ u.objects = 0
    BY <2>1 DEF Unmounted
  <2> QED BY <2>2 DEF TableTyped, u
<1>2. CASE ~d.step /\ p.selected.content # None
  <2> DEFINE takesOver == ~t.mounted \/ p.update = "success"
             scenarios == IF ~takesOver THEN t.scenarios
                          ELSE IF ~t.mounted THEN p.selected.content.scenarios
                          ELSE Synchronised(t.scenarios, p.selected.content.scenarios)
             rows == [id \in Ids(scenarios) |->
                         IF id \in DOMAIN t.rows THEN t.rows[id] ELSE p.selected]
             objects == IF takesOver THEN p.selected.objects ELSE t.objects
  <2>1. u = [mounted |-> TRUE, scenarios |-> scenarios, objects |-> objects,
             early |-> IF t.mounted THEN t.early ELSE p.update = "loading", rows |-> rows]
    BY <1>2 DEF ScenarioTable
  <2>2. \A id \in DOMAIN rows : rows[id] = p.selected \/ (id \in DOMAIN t.rows /\ rows[id] = t.rows[id])
    <3> HIDE DEF scenarios
    <3> QED OBVIOUS
  <2>3. objects \in Nat
    <3>1. p.selected.objects \in Nat
      BY DEF Selections
    <3> QED BY <3>1 DEF TableTyped
  <2> HIDE DEF scenarios, rows, u, takesOver, objects
  <2>4. u.rows = rows /\ u.objects = objects
    BY <2>1
  <2> QED BY <2>2, <2>3, <2>4 DEF TableTyped, u
<1> QED BY <1>1, <1>2

\* What a save makes of a selection.
LEMMA SavedTypes ==
    ASSUME NEW selected \in Selections, NEW c \in RiScDocuments, NEW objects \in Nat,
           NEW after \in Afters, NEW p, p = UpdateRiSc(selected, c, objects, after)
    PROVE  PageTyped(p)
<1> DEFINE asked == selected.migrationStatus.migrationRequiresNewApproval
           requires == asked \/ requiresNewApproval(selected.content, c)
           status == IF requires THEN "Draft" ELSE selected.status
           updated == [content |-> c, objects |-> objects, status |-> status,
                       migrationStatus |-> NoChanges, sopsConfig |-> selected.sopsConfig]
           body == riScToDTO(c)
           request == [old |-> selected, new |-> updated, requiresApproval |-> requires,
                       body |-> body, after |-> after, answer |-> "none"]
<1>1. p = [selected |-> updated, update |-> "loading", request |-> request]
  BY DEF UpdateRiSc
<1>2. body \in RiScDocuments
  BY DTODocument
<1>3. /\ selected.status \in {"Published", "Draft", "SentForApproval"}
      /\ selected.sopsConfig \in OrNone(SopsConfigs)
  BY DEF Selections
<1>4. status \in {"Published", "Draft", "SentForApproval"}
  <2> HIDE DEF requires
  <2> QED BY <1>3
<1>5. requires \in BOOLEAN
  BY Zenon
<1> HIDE DEF requires, status, body
<1>6. updated \in Selections
  <2>1. c \in OrNone(RiScDocuments)
    BY DEF OrNone
  <2> QED BY <1>3, <1>4, <2>1, NoChangesIs DEF Selections
<1> HIDE DEF updated
<1>7. request \in Requests
  BY <1>2, <1>5, <1>6 DEF Requests, Afters
<1> HIDE DEF request
<1>8. p.selected = updated /\ p.update = "loading" /\ p.request = request
  BY <1>1
<1> QED BY <1>6, <1>7, <1>8 DEF PageTyped

\* The page and its table.
ViewTyped == PageTyped(page) /\ TableTyped(table)

\* A save keeps the types,
LEMMA SavingTypes ==
    ASSUME EditorInv', ViewTyped, NEW selected \in Selections, NEW c, NEW objects \in Nat,
           NEW after \in Afters, page' = UpdateRiSc(selected, c, objects, after),
           table' = ScenarioTable(table, page', drawer')
    PROVE  ViewTyped'
<1>1. page'.update = "loading" /\ page'.selected.content = c
  BY RequestParts
<1>2. c \in RiScDocuments
  <2>1. PageOK(page')
    BY DEF EditorInv
  <2>2. SelectionOK(page'.selected) /\ page'.selected.content # None
    BY <1>1, <2>1 DEF PageOK, RequestOK
  <2> QED BY <1>1, <2>2 DEF SelectionOK, OrNone, Contents
<1>3. PageTyped(page')
  BY <1>2, SavedTypes
<1>4. TableTyped(table')
  BY <1>3, RenderedTypes DEF PageTyped, ViewTyped
<1> QED BY <1>3, <1>4 DEF ViewTyped

\* and so does what is rendered, or saved, of what is shown,
LEMMA ShownTypes ==
    ASSUME EditorInv, EditorInv', ViewTyped, Rerenders \/ SavesShown PROVE ViewTyped'
<1>1. page.selected \in Selections /\ TableTyped(table)
  BY DEF ViewTyped, PageTyped
<1>2. CASE Rerenders
  <2>1. page' = page
    BY <1>2 DEF Rerenders
  <2>2. CASE \E from, to : MoveRowLocal(from, to)
    <3>1. PICK from, to : MoveRowLocal(from, to)
      BY <2>2
    <3>2. table'.rows = table.rows /\ table'.objects = table.objects
      BY <3>1 DEF MoveRowLocal, EditorInv, TableOK
    <3> QED BY <1>1, <2>1, <3>2 DEF ViewTyped, TableTyped
  <2>3. CASE table' = ScenarioTable(table, page, drawer')
    <3>1. TableTyped(table')
      BY <1>1, <2>3, RenderedTypes
    <3> QED BY <2>1, <3>1 DEF ViewTyped
  <2> QED BY <1>2, <2>1, <2>2, <2>3 DEF Rerenders, ViewTyped
<1>3. CASE SavesShown
  <2>0. PICK c : \E objects \in {page.selected.objects, Now}, after \in Afters :
                     page' = UpdateRiSc(page.selected, c, objects, after)
    BY <1>3 DEF SavesShown
  <2>1. PICK objects \in {page.selected.objects, Now}, after \in Afters :
            page' = UpdateRiSc(page.selected, c, objects, after)
    BY <2>0
  <2>2. objects \in Nat
    <3>1. page.selected.objects \in Nat
      BY <1>1 DEF Selections
    <3>2. Now \in Nat
      BY DEF Now, EditorInv
    <3> QED BY <2>1, <3>1, <3>2
  <2>3. table' = ScenarioTable(table, page', drawer')
    BY <1>3 DEF SavesShown
  <2> QED BY <1>1, <2>1, <2>2, <2>3, SavingTypes
<1> QED BY <1>2, <1>3

\* what a row has, when it is saved,
LEMMA DroppingTypes ==
    ASSUME EditorInv', ViewTyped, NEW id, DropRow(id) PROVE ViewTyped'
<1> DEFINE row == table.rows[id]
           c == [row.content EXCEPT !.scenarios = table.scenarios]
           p == UpdateRiSc(row, c, table.objects, "nothing")
<1>1. id \in DOMAIN table.rows /\ Show(p, table, drawer)
  BY DEF DropRow
<1>2. row \in Selections /\ table.objects \in Nat /\ "nothing" \in Afters
  BY <1>1 DEF ViewTyped, TableTyped, Afters
<1>3. page' = p /\ table' = ScenarioTable(table, page', drawer')
  BY <1>1 DEF Show
<1> HIDE DEF row, c
<1> QED BY <1>2, <1>3, SavingTypes

\* an approval,
LEMMA ApprovingTypes == ASSUME EditorInv, ViewTyped, ApproveRiSc PROVE ViewTyped'
<1>1. /\ PageOK(page) /\ page.update # "loading" /\ TableTyped(table)
      /\ page.selected \in Selections /\ page.request = None
  BY DEF EditorInv, ViewTyped, PageTyped, ApproveRiSc, Quiet
<1>2. page = [selected |-> page.selected, update |-> page.update, request |-> page.request]
  BY <1>1 DEF PageOK
<1>3. ASSUME NEW s \in Selections, NEW update \in {"success", "error"}, NEW p,
             p = [selected |-> s, update |-> update, request |-> None], Show(p, table, drawer)
      PROVE  ViewTyped'
  <2>1. page' = p /\ table' = ScenarioTable(table, p, drawer')
    BY <1>3 DEF Show
  <2>2. p.selected = s /\ p.update = update /\ p.request = None
    BY <1>3
  <2>3. TableTyped(table')
    BY <1>1, <2>1, <2>2, RenderedTypes
  <2> QED BY <2>1, <2>2, <2>3 DEF ViewTyped, PageTyped
<1>4. CASE files.pr
  <2> DEFINE p == [page EXCEPT !.update = "error"]
  <2>1. Show(p, table, drawer)
    BY <1>4 DEF ApproveRiSc
  <2>2. p = [selected |-> page.selected, update |-> "error", request |-> None]
    BY <1>1, <1>2
  <2> HIDE DEF p
  <2> QED BY <1>1, <1>3, <2>1, <2>2
<1>5. CASE ~files.pr
  <2> DEFINE q == [page EXCEPT !.update = "success"]
             p == [page EXCEPT !.update = "success", !.selected.status = "SentForApproval"]
             s == [page.selected EXCEPT !.status = "SentForApproval"]
  <2>1. Show(p, table, drawer)
    BY <1>5 DEF ApproveRiSc
  <2>2. p = [selected |-> s, update |-> "success", request |-> None]
    <3>1. q = [selected |-> page.selected, update |-> "success", request |-> None]
      BY <1>1, <1>2
    <3>2. p = [q EXCEPT !.selected.status = "SentForApproval"]
      OBVIOUS
    <3> HIDE DEF q, p
    <3> QED BY <3>1, <3>2
  <2>3. s \in Selections
    BY <1>1 DEF Selections
  <2> HIDE DEF s, p
  <2> QED BY <1>3, <2>1, <2>2, <2>3
<1> QED BY <1>4, <1>5

\* the service, as long as it is there or fails,
LEMMA ServingTypes == ASSUME EditorInv, ViewTyped, Serve \/ Fail PROVE ViewTyped'
<1> DEFINE r == page.request
<1>1. PICK answer \in {"ok", "error"} : page' = [page EXCEPT !.request.answer = answer]
  BY DEF Serve, Fail
<1>2. ~Quiet /\ table' = table
  BY DEF Serve, Fail
<1>3. page.update = "loading" /\ r \in Requests /\ page.selected \in Selections /\ PageOK(page)
  BY <1>2 DEF ViewTyped, PageTyped, Quiet, EditorInv
<1>4. page'.selected = page.selected /\ page'.update = page.update
      /\ page'.request = [r EXCEPT !.answer = answer]
  BY <1>1, <1>3 DEF PageOK
<1>5. page'.request \in Requests
  BY <1>3, <1>4 DEF Requests
<1> QED BY <1>2, <1>3, <1>4, <1>5 DEF ViewTyped, PageTyped

\* its answers,
LEMMA AnsweringTypes == ASSUME ViewTyped, OnSaved \/ OnError PROVE ViewTyped'
<1>1. PICK s \in {page.request.new, page.request.old}, update \in {"success", "error"} :
          /\ \E d : Show([selected |-> s, update |-> update, request |-> None], table, d)
          /\ ~Quiet
  BY DEF OnSaved, OnError
<1>2. page.request \in Requests /\ TableTyped(table)
  BY <1>1 DEF ViewTyped, PageTyped, Quiet
<1>3. s \in Selections
  BY <1>2 DEF Requests
<1> DEFINE p == [selected |-> s, update |-> update, request |-> None]
<1>4. p.selected = s /\ p.update = update /\ p.request = None
  OBVIOUS
<1>5. page' = p /\ table' = ScenarioTable(table, p, drawer')
  BY <1>1 DEF Show
<1> HIDE DEF p
<1>6. TableTyped(table')
  BY <1>2, <1>3, <1>4, <1>5, RenderedTypes
<1> QED BY <1>3, <1>4, <1>5, <1>6 DEF ViewTyped, PageTyped

\* What is fetched.
LEMMA SelectedIs ==
    ASSUME FilesOK, FilesTyped, files.sops \in SopsConfigs, ~Fetched(files).failed
    PROVE  Selected(files) \in Selections
<1> DEFINE doc == ToShow(files)
           m == Fetched(files)
           status == IF files.draft = None THEN "Published"
                     ELSE IF files.pr THEN "SentForApproval" ELSE "Draft"
<1>1. doc \in Docs /\ doc # None /\ Docs \subseteq RiScDocuments
  BY DEF FilesOK, Docs, ToShow
<1>2. doc \in RiScDocuments /\ IsFiniteSet(doc.valuations)
  BY <1>1 DEF FilesTyped
<1>3. Valid(doc) /\ m = migrate(doc, LastPublished(files), latestSupportedVersion)
  BY DEF Fetched, Failed
<1>4. LastPublished(files) \in OrNone(Times)
  BY DEF LastPublished, OrNone, Times
<1>5. latestSupportedVersion \in VersionSet
  BY VersionsAre DEF latestSupportedVersion
<1>6. m.status \in MigrationStatuses
  <2> HIDE DEF doc, m
  <2> QED BY <1>2, <1>3, <1>4, <1>5, MigrationIsTyped DEF m
<1>7. m.doc \in RiScDocuments
  <2>1. {files.published, files.draft} \ {None} \subseteq RiScDocuments /\ ToShow(files) # None
    BY DEF FilesOK, Docs
  <2> QED BY <2>1, FetchedIsDocument
<1>8. extractSopsConfig(files.sops) \in SopsConfigs
  BY ExtractedKeys
<1>9. status \in {"Published", "Draft", "SentForApproval"}
  OBVIOUS
<1>10. Selected(files) = [content |-> m.doc, objects |-> 0, status |-> status,
                          migrationStatus |-> m.status,
                          sopsConfig |-> extractSopsConfig(files.sops)]
  BY DEF Selected, dtoToRiSc
<1> HIDE DEF m, status
<1> QED BY <1>6, <1>7, <1>8, <1>9, <1>10 DEF Selections, OrNone

\* and the fetch.
LEMMA FetchingTypes ==
    ASSUME EditorInv, FilesTyped, files.sops \in SopsConfigs, ViewTyped, FetchRiScs
    PROVE  ViewTyped'
<1> DEFINE s == Selected(files)
           p == [page EXCEPT !.selected = s]
<1>1. /\ page.selected.content = None /\ ~Fetched(files).failed /\ Show(p, table, drawer)
      /\ PageOK(page) /\ FilesOK /\ TableTyped(table) /\ PageTyped(page)
  BY DEF FetchRiScs, EditorInv, ViewTyped
<1>2. s \in Selections
  BY <1>1, SelectedIs
<1>3. page.update # "loading"
  BY <1>1 DEF PageOK, RequestOK
<1> HIDE DEF s
<1>4. p.selected = s /\ p.update = page.update /\ p.request = page.request
  BY <1>1 DEF PageOK
<1>5. page' = p /\ table' = ScenarioTable(table, p, drawer')
  BY <1>1 DEF Show
<1> HIDE DEF p
<1>6. TableTyped(table')
  BY <1>1, <1>2, <1>4, <1>5, RenderedTypes
<1> QED BY <1>1, <1>2, <1>3, <1>4, <1>5, <1>6 DEF ViewTyped, PageTyped

\* Every step keeps the types of page and table.
LEMMA ViewTypes ==
    ASSUME EditorInv, EditorInv', FilesTyped, files.sops \in SopsConfigs, ViewTyped, [Next]_vars
    PROVE  ViewTyped'
<1>1. CASE InDrawer \/ InWizard \/ InTable \/ InPage
  BY <1>1, ShownTypes, DroppingTypes, ApprovingTypes, DrawerSaves, TableSaves, PageSaves
<1>2. CASE Serve \/ Fail
  BY <1>2, ServingTypes
<1>3. CASE OnSaved \/ OnError
  BY <1>3, AnsweringTypes
<1>4. CASE FetchRiScs
  BY <1>4, FetchingTypes
<1>5. CASE OnDifference \/ OnDifferenceError \/ UNCHANGED vars
  BY <1>5 DEF OnDifference, OnDifferenceError, vars, ViewTyped
<1> QED BY <1>1, <1>2, <1>3, <1>4, <1>5 DEF Next, Answers

\* What the page sends has no valuations, and a pull request is closed at most.
LEMMA FilesTypes ==
    ASSUME EditorInv, FilesTyped, ViewTyped, [Next]_vars PROVE FilesTyped'
<1>1. FilesOK
  BY DEF EditorInv
<1>2. CASE files' = files
  BY <1>2 DEF FilesTyped, Docs
<1>3. CASE Serve /\ files' # files
  <2> DEFINE r == page.request
             pr == files.pr /\ ~r.requiresApproval
             body == riScToDTO(page.selected.content)
  <2>1. files' = Stored(files, r) /\ ~Quiet
    BY <1>3 DEF Serve
  <2>2. RequestOK(r, page.selected)
    BY <2>1 DEF EditorInv, PageOK, Quiet
  <2>3. r.body = body
    BY <2>2 DEF RequestOK
  <2>4. page.selected.content \in RiScDocuments
    BY <2>1, <2>2 DEF RequestOK, EditorInv, PageOK, SelectionOK, OrNone, Contents
  <2>5. body.valuations = {}
    BY <2>4, DTODocument DEF riScToDTO, RiScDocuments
  <2>6. files' = [published |-> files.published, draft |-> body, pr |-> pr,
                  sops |-> encrypt(r.new.sopsConfig)]
    BY <1>1, <2>1, <2>3 DEF FilesOK, Stored
  <2>7. pr \in BOOLEAN
    BY Zenon
  <2> HIDE DEF pr, body
  <2>8. files'.pr = pr /\ files'.draft = body /\ files'.published = files.published
    BY <2>6
  <2> QED BY <2>5, <2>7, <2>8, FS_EmptySet DEF FilesTyped, Docs
<1>4. CASE ApproveRiSc
  <2> DEFINE pr == files.draft # None
  <2>1. files' = files \/ files' = [files EXCEPT !.pr = pr]
    BY <1>4 DEF ApproveRiSc
  <2>2. pr \in BOOLEAN
    OBVIOUS
  <2> HIDE DEF pr
  <2>3. CASE files' = [files EXCEPT !.pr = pr]
    <3>1. files'.pr = pr /\ files'.draft = files.draft /\ files'.published = files.published
      BY <1>1, <2>3 DEF FilesOK
    <3> QED BY <2>2, <3>1 DEF FilesTyped, Docs
  <2> QED BY <1>2, <2>1, <2>3
<1> QED BY <1>2, <1>3, <1>4, FilesUntouched

\* The clock and the bounds are only changed by an edit, a save and a failure.
LEMMA Counts ==
    ASSUME [Next]_vars
    PROVE  (clock' = clock \/ Edits) /\ (count' = count \/ Saves \/ Fail)
<1>1. CASE InDrawer
  BY <1>1 DEF InDrawer, OpenScenarioDrawer, Edit, TypeText, AddAction, OnCancel, CloseDrawer,
              TypeAction, RemoveAction, SubmitEditedScenario, Type, Still, Update
<1>2. CASE InWizard
  BY <1>2 DEF InWizard, OpenNewScenarioWizard, CloseWizard, SubmitNewScenario, Still, Update
<1>3. CASE InTable
  BY <1>3 DEF InTable, MoveRowLocal, DeleteScenario, DropRow, AddPredefinedScenarios, Update
<1>4. CASE InPage
  BY <1>4 DEF InPage, OpenDialog, SubmitDialog, SaveMigration, ApproveRiSc, GetDifferences,
              Update
<1>5. CASE Answers
  BY <1>5 DEF Answers, Serve, Fail, OnSaved, OnError, OnDifference, OnDifferenceError, Still
<1>6. CASE FetchRiScs \/ UNCHANGED vars
  BY <1>6 DEF FetchRiScs, vars
<1> QED BY <1>1, <1>2, <1>3, <1>4, <1>5, <1>6 DEF Next

\* They stay within their bounds.
LEMMA CountTypes == ASSUME CountTyped, [Next]_vars PROVE CountTyped'
<1>1. clock' \in 0..MaxEdits
  <2>1. CASE Edits
    BY <2>1, EditorAssumption DEF Edits, Now, CountTyped
  <2> QED BY <2>1, Counts DEF CountTyped
<1>2. CASE count' = count
  BY <1>1, <1>2 DEF CountTyped
<1>3. CASE Saves
  <2>1. count' = [saves |-> count.saves - 1, faults |-> count.faults,
                  differences |-> count.differences] /\ count.saves > 0
    BY <1>3 DEF Saves, CountTyped
  <2> QED BY <1>1, <2>1 DEF CountTyped
<1>4. CASE Fail
  <2>1. count' = [saves |-> count.saves, faults |-> count.faults - 1,
                  differences |-> count.differences] /\ count.faults > 0
    BY <1>4 DEF Fail, CountTyped
  <2> QED BY <1>1, <2>1, EditorAssumption DEF CountTyped
<1> QED BY <1>2, <1>3, <1>4, Counts

\* The service answers with a difference.
LEMMA FetchedDifferenceIs ==
    ASSUME FilesTyped, NEW doc \in OwnDocuments,
           files.published # None => files.published \in OwnDocuments
    PROVE  FetchedDifference(files, doc) \in OrNone(RiScChanges)
<1> DEFINE told == FetchedDifference(files, doc)
<1>1. CASE told = None
  BY <1>1 DEF OrNone
<1>2. CASE told # None
  <2>1. /\ files.published # None /\ Valid(doc) /\ Valid(files.published)
        /\ told = compare(doc, files.published, None)
    BY <1>2 DEF FetchedDifference
  <2>2. IsFiniteSet(files.published.valuations)
    BY <2>1 DEF FilesTyped, Docs
  <2> HIDE DEF told
  <2> QED BY <2>1, <2>2, ComparisonIs DEF told
<1> QED BY <1>1, <1>2

\* What is said of the difference keeps its type.
LEMMA DifferenceTypes ==
    ASSUME DifferenceInv, ComparedInv, FilesTyped, DifferenceTyped(difference), [Next]_vars
    PROVE  DifferenceTyped(difference')
<1>1. PageShape /\ DifferenceShape
  BY DEF DifferenceInv
<1>2. None \in OrNone(RiScChanges)
  BY DEF OrNone
<1>3. CASE difference' = difference
  BY <1>3
<1>4. CASE Renders
  <2>1. PICK p : difference' = RiScStatusComponent(difference, p)
    BY <1>4 DEF Renders, Show
  <2> DEFINE late == difference.asked # None
  <2>2. CASE difference' = [NoDifference EXCEPT !.asked = difference.asked, !.late = late]
    <3>1. difference' = [loading |-> FALSE, asked |-> difference.asked, late |-> late,
                         shown |-> FALSE, value |-> None, of |-> None]
      BY <2>2 DEF NoDifference
    <3>2. late \in BOOLEAN
      OBVIOUS
    <3> HIDE DEF late
    <3> QED BY <1>2, <3>1, <3>2 DEF DifferenceTyped
  <2> QED BY <1>3, <2>1, <2>2 DEF RiScStatusComponent
<1>5. CASE GetDifferences
  <2>1. difference' = [loading |-> TRUE, asked |-> riScToDTO(content),
                       late |-> difference.late, shown |-> difference.shown,
                       value |-> difference.value, of |-> difference.of]
    BY <1>1, <1>5 DEF GetDifferences, DifferenceShape
  <2> QED BY <2>1 DEF DifferenceTyped
<1>6. CASE OnDifference
  <2> DEFINE told == FetchedDifference(files, difference.asked)
  <2>1. difference.asked \in OwnDocuments
    BY <1>6 DEF OnDifference, ComparedInv
  <2>2. told \in OrNone(RiScChanges)
    BY <2>1, FetchedDifferenceIs DEF ComparedInv
  <2>3. difference' = [loading |-> FALSE, asked |-> None, late |-> difference.late,
                       shown |-> TRUE, value |-> told, of |-> difference.asked]
    BY <1>6 DEF OnDifference, NoDifference
  <2> HIDE DEF told
  <2> QED BY <2>2, <2>3 DEF DifferenceTyped
<1>7. CASE OnDifferenceError
  <2>1. difference' = NoDifference
    BY <1>7 DEF OnDifferenceError
  <2> QED BY <1>2, <2>1 DEF NoDifference, DifferenceTyped
<1>8. CASE UNCHANGED vars
  BY <1>3, <1>8 DEF vars
<1> QED BY <1>1, <1>3, <1>4, <1>5, <1>6, <1>7, <1>8, StepsOfThePage DEF LeavesAlone

\* The keys of a file have the form of keys.
LEMMA KeysAreKeys == KeysInv => files.sops \in SopsConfigs
<1> SUFFICES ASSUME KeysInv PROVE files.sops \in SopsConfigs
  OBVIOUS
<1>1. PICK node : KeysFrom(node)
  BY DEF KeysInv
<1>2. extractSopsConfig(node) \in SopsConfigs
  BY <1>1, ExtractedKeys DEF KeysFrom
<1> QED BY <1>1, <1>2, EncryptedKeys DEF KeysFrom

\* Every step keeps the types.
LEMMA TypesInvStep ==
    EditorInv /\ EditorInv' /\ KeysInv /\ DifferenceInv /\ ComparedInv /\ TypesInv /\ [Next]_vars
        => TypesInv'
BY KeysAreKeys, FilesTypes, ViewTypes, DifferenceTypes, CountTypes DEF TypesInv, ViewTyped

\* At first everything has its type.
LEMMA TypesInvInit == Init => TypesInv
<1> SUFFICES ASSUME Init PROVE TypesInv
  OBVIOUS
<1>1. PICK f \in Files :
          /\ files = [published |-> f.published, draft |-> f.draft, pr |-> f.pr, sops |-> f.sops]
          /\ count = [saves |-> f.saves, faults |-> MaxFaults, differences |-> f.differences]
  BY DEF Init
<1>2. FilesTyped
  <2>1. files.pr = f.pr /\ files.published = f.published /\ files.draft = f.draft
    BY <1>1
  <2> QED BY <2>1, EditorAssumption DEF FilesTyped, Docs
<1>3. CountTyped
  <2>1. count.saves = f.saves /\ count.faults = MaxFaults /\ count.differences = f.differences
    BY <1>1
  <2>2. clock = 0
    BY DEF Init
  <2> QED BY <1>1, <2>1, <2>2, EditorAssumption DEF CountTyped
<1>4. NotSelected \in Selections
  <2>1. NotSelected.content \in OrNone(RiScDocuments) /\ None \in OrNone(SopsConfigs)
    BY DEF NotSelected, OrNone
  <2> QED BY <2>1, NoChangesIs DEF NotSelected, Selections
<1>5. PageTyped(page)
  <2>1. page.selected = NotSelected /\ page.update = "idle" /\ page.request = None
    BY DEF Init
  <2> QED BY <1>4, <2>1 DEF PageTyped
<1>6. TableTyped(table)
  BY DEF Init, Unmounted, TableTyped
<1>7. DifferenceTyped(difference)
  BY DEF Init, NoDifference, DifferenceTyped, OrNone
<1> QED BY <1>2, <1>3, <1>5, <1>6, <1>7 DEF TypesInv

\* What has its type, as the property says.
LEMMA TypesAreRight ==
    EditorInv /\ KeysInv /\ DifferenceInv /\ ComparedInv /\ TypesInv => TypeOK
<1> SUFFICES ASSUME EditorInv, KeysInv, DifferenceInv, ComparedInv, TypesInv PROVE TypeOK
  OBVIOUS
<1>1. /\ FilesOK /\ PageOK(page) /\ TableOK(table, page) /\ DrawerOK(drawer)
      /\ Follows(drawer, page) /\ DialogOK
      /\ FilesTyped /\ PageTyped(page) /\ DifferenceTyped(difference) /\ CountTyped
  BY DEF EditorInv, TypesInv
<1>2. Docs \subseteq RiScDocuments /\ files.pr \in BOOLEAN /\ files.sops \in SopsConfigs
  BY <1>1, KeysAreKeys DEF FilesOK, FilesTyped
<1>3. /\ page.update \in {"idle", "loading", "success", "error"}
      /\ page.request \in OrNone(Requests) /\ (page.request # None <=> page.update = "loading")
      /\ page.selected \in Selections
  BY <1>1, RequestAssumption DEF PageTyped, OrNone
<1>4. difference \in Differences
  <2>1. difference.asked \in OrNone(RiScDocuments) /\ difference.of \in OrNone(RiScDocuments)
    BY DEF ComparedInv, OwnDocuments, OrNone
  <2>2. DifferenceShape
    BY DEF DifferenceInv
  <2>3. /\ difference.loading \in BOOLEAN /\ difference.late \in BOOLEAN
        /\ difference.shown \in BOOLEAN /\ difference.value \in OrNone(RiScChanges)
    BY <1>1 DEF DifferenceTyped
  <2> QED BY <2>1, <2>2, <2>3 DEF DifferenceShape, Differences
<1>5. content # None => content.schemaVersion = latestSupportedVersion
  BY <1>1 DEF PageOK, SelectionOK, OrNone, Contents, content
<1>6. table.mounted => DOMAIN table.rows = Ids(table.scenarios)
  BY <1>1 DEF TableOK
<1>7. /\ drawer.url \in ScenarioId \cup {None}
      /\ drawer.open => drawer.shown.id = drawer.url /\ ~drawer.step
      /\ drawer.step \/ drawer.open => drawer.form.id = drawer.url
      /\ drawer.form \in OrNone(FormScenarios)
  BY <1>1 DEF DrawerOK, Follows, OrNone
<1>8. dialog # None => AtTable \/ ~drawer.open
  BY <1>1 DEF DialogOK
<1>9. clock \in 0..MaxEdits /\ count.saves \in Nat /\ count.faults \in 0..MaxFaults
  BY <1>1 DEF CountTyped
<1> QED BY <1>2, <1>3, <1>4, <1>5, <1>6, <1>7, <1>8, <1>9 DEF TypeOK

\* RiScContext.tsx:117, ScenarioContext.tsx:60: whatever is fetched, migrated,
\* edited, saved and compared, page, table, drawer and files are what their types
\* say: a request is there while a save is under way, the drawer is open on the
\* scenario of the URL, and each row of the table has its closure.
THEOREM TypesAreKept == Spec => []TypeOK
<1> DEFINE Inv == ScenariosInv /\ KeysInv /\ DifferenceInv /\ ComparedInv /\ TypesInv
<1>1. Init => Inv
  BY ScenariosInvHolds, KeysInvInit, DifferenceInvInit, ComparedInvInit, TypesInvInit
<1>2. Inv /\ [Next]_vars => Inv'
  <2>1. ScenariosInv => EditorInv
    BY DEF ScenariosInv
  <2> QED BY <2>1, ScenariosInvHolds, KeysInvStep, DifferenceInvStep, ComparedInvStep,
              TypesInvStep DEF ScenariosInv
<1>3. Inv => TypeOK
  BY TypesAreRight DEF ScenariosInv
<1> HIDE DEF Inv
<1> QED BY <1>1, <1>2, <1>3, PTL DEF Spec
=============================================================================
