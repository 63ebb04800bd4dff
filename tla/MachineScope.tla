----------------------------- MODULE MachineScope -----------------------------
(***************************************************************************)
(* NewMachineScope (actuators/machine_scope.go): what an actuator call     *)
(* makes of the provider spec, of the Infrastructure object and of the     *)
(* credentials secret before it talks to Azure.  Every call builds a scope *)
(* of its own; every Azure service reads the place to work in from it.     *)
(*                                                                         *)
(*   provider spec  [credentials, group, netGroup, location, tags, ...]    *)
(*   infra          [id, group, tags, cloud, endpoint, identity, environ]  *)
(*   secret         a function on the keys it holds, or Nil if there is no *)
(*                  such secret; a value of blanks is Nil                  *)
(*                                                                         *)
(* infra.identity is the feature gate of workload identity, infra.environ  *)
(* the environment variables of the process, a function on the keys.       *)
(***************************************************************************)
EXTENDS Integers, Sequences, FiniteSets

CONSTANT Nil   \* the nil pointer or the empty string

\* A string that may be empty.
Text == STRING \cup {Nil}

\* Where a scope works, and as whom.
Place == [subscription : Text, group : Text, netGroup : Text, location : Text,
          credential : Text, cloud : Text]

ASSUME NilAssumption ==
  Nil \notin STRING /\ Nil \notin BOOLEAN /\ Nil \notin Place

\* What the provers have to be told: literals are strings.
ASSUME LiteralsAssumption ==
  {"token", "clientSecret", "custom", "AzurePublicCloud", "Spot", "priced", "unpriced",
   "generated", "key", "malformed", "ConfidentialVM", "TrustedLaunch", "Enabled",
   "Disabled", "MarketplaceWithPlan", "_", "-", "a", "s"} \subseteq STRING

-----------------------------------------------------------------------------
(***************************************************************************)
(* Credentials, cloud and placement                                        *)
(***************************************************************************)

\* The keys of the secret; the last four may come from the environment too.
SecretKeys == {"subscription", "group", "region",
               "clientID", "clientSecret", "tenantID", "tokenFile"}

\* A key that is present hides the environment variable, even if it is blank.
getValueFromSecretOrEnvironment(secret, environ, key) ==
  IF key \in DOMAIN secret THEN secret[key]
  ELSE IF key \in DOMAIN environ THEN environ[key] ELSE Nil

getInfraResourceGroup(infra) == infra.group

GetCloudEnvironment(infra) ==
  IF infra.cloud = Nil THEN "AzurePublicCloud" ELSE infra.cloud

IsStackHub(infra) == GetCloudEnvironment(infra) = "AzureStackCloud"

\* An unknown name, or an endpoint of Azure Stack that does not answer.
getEnvironmentFails(infra) ==
  IF IsStackHub(infra) THEN infra.endpoint = Nil
  ELSE GetCloudEnvironment(infra) = "unknown"

\* The clouds the SDK knows; the German one is configured like Azure Stack.
getCloudConfig(infra) ==
  IF GetCloudEnvironment(infra) \in {"AzureChinaCloud", "AzureUSGovernmentCloud",
                                     "AzurePublicCloud"}
  THEN GetCloudEnvironment(infra) ELSE "custom"

UsesWorkloadIdentity(infra, secret) ==
  /\ infra.identity
  /\ getValueFromSecretOrEnvironment(secret, infra.environ, "clientSecret") = Nil

UpdateFromSecretFails(infra, secret) ==
  \/ secret = Nil
  \/ \E key \in {"subscription", "clientID", "tenantID", "region"} :
        getValueFromSecretOrEnvironment(secret, infra.environ, key) = Nil
  \/ getEnvironmentFails(infra)
  \/ /\ ~infra.identity
     /\ getValueFromSecretOrEnvironment(secret, infra.environ, "clientSecret") = Nil

Default(value, otherwise) == IF value = Nil THEN otherwise ELSE value

\* The place of a scope.  The subscription comes from the secret every time.
updateFromSecret(config, infra, secret) ==
  IF ~config.credentials
  THEN [subscription |-> Nil, group |-> config.group, netGroup |-> config.netGroup,
        location |-> config.location, credential |-> Nil, cloud |-> Nil]
  ELSE LET value(key) == getValueFromSecretOrEnvironment(secret, infra.environ, key)
           group == Default(value("group"), getInfraResourceGroup(infra))
       IN [subscription |-> value("subscription"),
           group        |-> Default(config.group, group),
           netGroup     |-> Default(config.netGroup, group),
           location     |-> Default(config.location, value("region")),
           credential   |-> IF UsesWorkloadIdentity(infra, secret)
                            THEN "token" ELSE "clientSecret",
           cloud        |-> getCloudConfig(infra)]

-----------------------------------------------------------------------------
(***************************************************************************)
(* Tags.  A key is <<word, case>>: Azure compares the words only.  Words   *)
(* are numbered; word 0 is kubernetes.io_cluster.<id>.                     *)
(***************************************************************************)
OwnerKey == <<0, "lower">>

Merged(f, g) == [k \in DOMAIN f \cup DOMAIN g |-> IF k \in DOMAIN g THEN g[k] ELSE f[k]]

getOCPTagList == [k \in {OwnerKey} |-> "owned"]

getInfraResourceTags(infra) == infra.tags

\* Mutant: keys that differ in case only are taken for different keys.
findDuplicateTagKeysExact(tags) == FALSE

findDuplicateTagKeys(tags) ==
  tags # Nil /\ \E j, k \in DOMAIN tags : j # k /\ j[1] = k[1]

\* Infrastructure first, the machine's own over them, the reserved one last.
getTagList(infraTags, specTags) ==
  LET none == [k \in {} |-> Nil]
  IN Merged(Merged(Default(infraTags, none), Default(specTags, none)), getOCPTagList)

GetTagListFails(infraTags, specTags) ==
  /\ specTags # Nil \/ infraTags # Nil
  /\ \/ findDuplicateTagKeys(specTags)
     \/ Cardinality(DOMAIN getTagList(infraTags, specTags)) - 1 > 45

-----------------------------------------------------------------------------
NewMachineScopeFails(config, infra, secret) ==
  \/ infra.id = Nil
  \/ GetTagListFails(getInfraResourceTags(infra), config.tags)
  \/ config.credentials /\ UpdateFromSecretFails(infra, secret)

NewMachineScope(config, infra, secret) ==
  [at   |-> updateFromSecret(config, infra, secret),
   tags |-> getTagList(getInfraResourceTags(infra), config.tags)]

=============================================================================
