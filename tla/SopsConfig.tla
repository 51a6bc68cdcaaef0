----------------------------- MODULE SopsConfig -----------------------------
(***************************************************************************)
(* The keys a file is encrypted with (SopsCryptoService.ts).  The page     *)
(* gets them with the content, without those of the backend, and sends     *)
(* them back with what is saved; sops shares the data key among groups of  *)
(* keys, of which shamir_threshold have to open their share.               *)
(***************************************************************************)
EXTENDS RiScDocument, SequencesExt

CONSTANTS
    securityTeamPublicKey,     \* age keys of the configuration, "" when not set
    backendPublicKey,
    securityPlatformPublicKey

ManagedKeys == {securityTeamPublicKey, backendPublicKey, securityPlatformPublicKey}

KeyGroups == [gcp_kms : Seq(STRING), age : SUBSET STRING]

\* Also the sops node of a file with several groups: gcp_kms and age are then
\* empty.
SopsConfigs ==
    [shamir_threshold : Nat, gcp_kms : Seq(STRING), age : SUBSET STRING,
     key_groups : Seq(KeyGroups)]

extractSopsConfig(node) ==
    LET groups == node.key_groups
        flatGcpKms == FlattenSeq([i \in DOMAIN groups |-> groups[i].gcp_kms])
        flatAge == (UNION {groups[i].age : i \in DOMAIN groups}) \ ManagedKeys
    IN  [shamir_threshold |-> node.shamir_threshold,
         gcp_kms |-> IF flatGcpKms # <<>> THEN flatGcpKms ELSE node.gcp_kms,
         age |-> flatAge, key_groups |-> <<>>]

\* gcp_kms?.[0]
First(items) == IF items = <<>> THEN <<>> ELSE <<items[1]>>

\* Mutant of buildKeyGroups: keys of developers join the group of the backend.
FaultybuildKeyGroups(config) ==
    <<[gcp_kms |-> First(config.gcp_kms), age |-> {securityTeamPublicKey} \ {""}],
      [gcp_kms |-> <<>>, age |-> (config.age \cup ManagedKeys) \ {"", securityTeamPublicKey}]>>

\* Groups without a key are left out.
buildKeyGroups(config) ==
    LET group1 == [gcp_kms |-> First(config.gcp_kms),
                   age |-> {securityTeamPublicKey} \ {""}]
        group2 == [gcp_kms |-> <<>>,
                   age |-> {backendPublicKey, securityPlatformPublicKey} \ {""}]
        group3 == [gcp_kms |-> <<>>, age |-> config.age \ ManagedKeys]
        groups == <<group1, group2, group3>>
    IN  ItemsAt(groups, {i \in 1..3 : groups[i].gcp_kms # <<>> \/ groups[i].age # {}})

\* encrypt: the node of the encrypted file.
encrypt(config) ==
    [shamir_threshold |-> config.shamir_threshold, gcp_kms |-> <<>>, age |-> {},
     key_groups |-> buildKeyGroups(config)]

KeysIn(group) == group.age \cup ToSet(group.gcp_kms)

\* Whether sops can decrypt a file with these keys.
Opens(keys, node) ==
    Cardinality({i \in DOMAIN node.key_groups : keys \cap KeysIn(node.key_groups[i]) # {}})
        >= node.shamir_threshold

\* Whether the keys of a file can be grouped anew without shutting anyone out:
\* there is one KMS key at most, since only the first is kept, and no two groups
\* have keys that come together.
Regroupable(node) ==
    LET groups == node.key_groups
        kms == UNION {ToSet(groups[i].gcp_kms) : i \in DOMAIN groups}
        age == UNION {groups[i].age : i \in DOMAIN groups}
    IN  /\ "" \notin kms \cup age
        /\ \A k, l \in kms : k = l
        /\ \A keys \in {kms \cup {securityTeamPublicKey},
                        {backendPublicKey, securityPlatformPublicKey}, age \ ManagedKeys} :
               \A i, j \in DOMAIN groups :
                   {} \notin {keys \cap KeysIn(groups[i]), keys \cap KeysIn(groups[j])} => i = j
=============================================================================
