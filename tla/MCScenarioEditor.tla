--------------------------- MODULE MCScenarioEditor --------------------------
(* Model-checking instance of ScenarioEditor: files of several versions.   *)
EXTENDS ScenarioEditorProperties

CONSTANTS s1, s2, s3, s4, a1, a2

Action(status) ==
    [id |-> a1, text |-> 0, status |-> status, owner |-> None, deadline |-> None,
     lastUpdated |-> None, lastUpdatedBy |-> None, comment |-> None]

Risk(p, c) == [probability |-> p, consequence |-> c]

Scenario(id, vulnerabilities, risk, actions) ==
    [id |-> id, text |-> 0, threatActors |-> {"Insider"}, vulnerabilities |-> vulnerabilities,
     risk |-> risk, remainingRisk |-> risk, actions |-> actions, existingActions |-> None]

Document(version, valuations, scenarios) ==
    [schemaVersion |-> version, text |-> 0, appliesTo |-> None,
     valuations |-> valuations, scenarios |-> scenarios]

Owned(owner) == [Action("Aborted") EXCEPT !.owner = owner, !.deadline = "2024-01-01"]

Doc32 ==
    Document("3.2", {1, 2},
      <<[Scenario(s1, {"Disclosed secret", "Information leak", "Denial of service"},
                  Risk(100, 1000000), <<Owned("Kari")>>)
            EXCEPT !.existingActions = "Backups"],
        [Scenario(s2, {"Misconfiguration"}, Risk(3000000, 1000), <<>>)
            EXCEPT !.existingActions = "None yet"]>>)

Doc33 ==
    Document("3.3", {},
      <<Scenario(s1, {"Disclosed secret"}, Risk(500000, 30000), <<Action("On hold")>>)>>)

Doc40 ==
    Document("4.0", {1},
      <<Scenario(s1, {"Flawed design"}, Risk(10000, 30000000), <<Action("Completed")>>),
        Scenario(s2, {"Excessive use"}, Risk(100, 1000), <<>>)>>)

\* A number that no option of 4.0 stands for.
Odd40 == [Doc40 EXCEPT !.scenarios[1].risk = Risk(20000, 1000)]

Doc42 ==
    Document("4.2", {},
      <<Scenario(s1, {"Flawed design"}, Risk(2236, 35777), <<Action("In progress")>>)>>)

Doc51 ==
    Document("5.1", {1, 2},
      <<Scenario(s2, {"Excessive use"}, Risk(2237, 35778), <<>>),
        Scenario(s1, {}, Risk(0, 286216702), <<Action("OK")>>)>>)

Doc52 ==
    Document("5.2", {},
      <<Scenario(s1, {"Flawed design"}, Risk(112, 14310836), <<Action("OK")>>),
        Scenario(s2, {}, Risk(25, 8000), <<>>)>>)

\* As the page writes it, in a version the native service does not know.
Doc54 == [Doc52 EXCEPT !.schemaVersion = "5.4", !.appliesTo = 1]

Plain42 == [Doc42 EXCEPT !.scenarios[1].actions = <<>>]

Group(gcp_kms, age) == [gcp_kms |-> gcp_kms, age |-> age]

\* Files of before and after the key of the security platform was introduced.
Sops(groups) ==
    [shamir_threshold |-> 2, gcp_kms |-> <<>>, age |-> {}, key_groups |-> groups]

OldSops == Sops(<<Group(<<"kms">>, {"developer"}), Group(<<>>, {"backend"})>>)

NewSops ==
    Sops(<<Group(<<"kms">>, {"team"}), Group(<<>>, {"backend", "platform"}),
           Group(<<>>, {"developer", "colleague"})>>)

\* A published file and a draft, and how much of its editing is explored.
File(published, draft, pr, saves, differences) ==
    [published |-> published, draft |-> draft, pr |-> pr,
     sops |-> IF pr THEN NewSops ELSE OldSops,
     saves |-> saves, differences |-> differences]

MCFiles ==
    {File(Plain42, Plain42, FALSE, 2, FALSE), File(Doc51, Doc52, TRUE, 1, TRUE),
     File(Doc52, None, FALSE, 1, TRUE), File(Doc32, None, FALSE, 0, TRUE),
     File(None, Doc51, FALSE, 0, TRUE)}
    \cup {File(f[1], f[2], TRUE, 0, TRUE) : f \in
             {<<Doc40, Doc52>>, <<Doc32, Doc40>>, <<Doc33, Doc33>>, <<Doc40, Doc42>>,
              <<Odd40, Doc51>>, <<Doc51, Odd40>>, <<Doc52, Doc54>>}}

MCWizardRisks ==
    {[risk |-> LowestRisk, remainingRisk |-> LowestRisk],
     [risk |-> LowestRisk, remainingRisk |-> Risk(500, 8000)]}

MCPredefined ==
    <<Scenario(s4, {"Input tampering"}, LowestRisk, <<[Action("Not OK") EXCEPT !.id = a2]>>)>>

\* What filter keeps is what SelectSeq selects, of any short list.
ASSUME ItemsAtSelects ==
    \A items \in UNION {[1..n -> 1..3] : n \in 0..4}, kept \in SUBSET (1..3) :
        ItemsAt(items, {i \in DOMAIN items : items[i] \in kept})
            = SelectSeq(items, LAMBDA x : x \in kept)

\* What the service has written can be grouped anew, whatever keys it was given.
ASSUME WrittenIsRegroupable ==
    \A kms \in {<<>>, <<"kms">>, <<"kms", "other">>},
       age \in SUBSET {"developer", "colleague", "team", "platform"} :
        Regroupable(encrypt([shamir_threshold |-> 2, gcp_kms |-> kms, age |-> age,
                             key_groups |-> <<>>]))
==============================================================================
