-------------------------- MODULE MCMachineCreation --------------------------
(***************************************************************************)
(* Instances of MachineCreation for TLC: one ordinary machine in an        *)
(* ordinary cluster, and variations of it in one respect at a time, or in  *)
(* a few that the code combines.                                           *)
(***************************************************************************)
EXTENDS MachineCreation

Disk == [suffix |-> "a", wellFormed |-> TRUE, size |-> 4, ultra |-> FALSE, caching |-> Nil,
         lun |-> 0, policy |-> "Delete", encryptionSet |-> FALSE]

Provider ==
  [credentials |-> TRUE, group |-> Nil, netGroup |-> Nil, location |-> Nil, tags |-> Nil,
   vnet |-> TRUE, subnet |-> TRUE, accelerated |-> TRUE, publicIP |-> TRUE,
   publicLB |-> "lb1", natRule |-> Nil, internalLB |-> Nil,
   securityGroup |-> "sg", appGroups |-> {}, availabilitySet |-> Nil,
   spot |-> Nil, zone |-> Nil, ssh |-> "key", userData |-> "secret",
   osDisk |-> [os |-> "Linux", encryptionSet |-> FALSE, encryptionType |-> Nil,
               caching |-> FALSE, ephemeral |-> FALSE],
   security |-> Nil, dataDisks |-> << >>,
   image |-> [type |-> Nil, complete |-> TRUE, resourceID |-> FALSE],
   ultraSSD |-> Nil, diagnostics |-> Nil, identity |-> "id", reservation |-> Nil]

Infra == [id |-> <<"c">>, group |-> "g1", tags |-> Nil, cloud |-> Nil, endpoint |-> Nil,
          identity |-> FALSE, environ |-> [k \in {} |-> Nil]]

Azure == [subnet |-> [group |-> "g1", prefix |-> "v4", more |-> {}],
          sku |-> [accelerated |-> TRUE, page |-> 1, zones |-> {}, locations |-> {"l1"}],
          lbs |-> [lb1 |-> [frontends |-> <<"v4">>, backends |-> 1, natRules |-> 1,
                            private |-> FALSE],
                   lb2 |-> [frontends |-> <<"v4", "v6">>, backends |-> 2, natRules |-> 0,
                            private |-> TRUE],
                   lb3 |-> [frontends |-> <<"v4">>, backends |-> 1, natRules |-> 0,
                            private |-> TRUE]],
          attached |-> {}, aligned |-> TRUE, security |-> {"sg", "asg"}]

Secret == [k \in SecretKeys |-> CASE k = "subscription" -> "s1" [] k = "group" -> "g1"
                                  [] k = "region" -> "l1"       [] OTHER -> "x"]

Ordinary == [spec |-> Provider, labels |-> [cluster |-> <<"c">>, set |-> <<"b">>],
             master |-> FALSE, name |-> <<"m">>, userData |-> "ok", infra |-> Infra, azure |-> Azure,
             secrets |-> <<Secret>>, edits |-> 0, faults |-> 1]

\* A variation that no fault adds anything to
Calm == [Ordinary EXCEPT !.faults = 0]

CalmSpecs(specs) == {[Calm EXCEPT !.spec = p] : p \in specs}

\* Settings of the VM
VMInputs == CalmSpecs(
  {[Provider EXCEPT !.security = p, !.osDisk.encryptionType = e] :
     p \in SecurityProfile \cup {Nil},
     e \in {Nil, "VMGuestStateOnly", "DiskWithVMGuestState"}}
  \cup {[Provider EXCEPT !.dataDisks = <<[Disk EXCEPT !.ultra = TRUE, !.caching = c]>>,
                         !.ultraSSD = u] :
          c \in {Nil, "None", "ReadOnly"}, u \in {Nil, "Enabled", "Disabled"}}
  \cup {[Provider EXCEPT !.dataDisks = <<Disk, [Disk EXCEPT !.suffix = n, !.lun = l]>>] :
          n \in {"a", "b"}, l \in {-1, 0, 63, 64}}
  \cup {[Provider EXCEPT !.dataDisks = <<d>>] :
          d \in {[Disk EXCEPT !.size = 3], [Disk EXCEPT !.policy = "other"],
                 [Disk EXCEPT !.wellFormed = FALSE], [Disk EXCEPT !.encryptionSet = TRUE]}}
  \cup {[Provider EXCEPT !.image = i] : i \in Image}
  \cup {[Provider EXCEPT !.spot = s] : s \in {"unpriced", "priced"}}
  \cup {[Provider EXCEPT !.diagnostics = d] :
          d \in {"managed", "customer", "customerWithoutURI", "unknown"}}
  \cup {[Provider EXCEPT !.osDisk.os = "Windows", !.ssh = k] : k \in {Nil, "key"}}
  \cup {[Provider EXCEPT !.osDisk.ephemeral = TRUE, !.osDisk.caching = TRUE,
                         !.osDisk.encryptionSet = TRUE, !.ssh = Nil, !.identity = Nil],
        [Provider EXCEPT !.ssh = "malformed"]})

\* Capacity reservations: every ID of up to four words, and a complete one
ReservationInputs == CalmSpecs(
  {[Provider EXCEPT !.reservation = [slash |-> TRUE, parts |-> p]] :
     p \in UNION {[1..n -> {"subscriptions", "providers", "x"}] : n \in 0..4}}
  \cup {[Provider EXCEPT !.reservation =
            [slash |-> b, parts |-> <<"subscriptions", "x", "resourcegroups", "x",
                                      "providers", "x", "x", "x">>]] : b \in BOOLEAN})

\* Interfaces: load balancers of both families, NAT rules, groups, subnets
Subnets == {[Azure.subnet EXCEPT !.prefix = p, !.more = f] :
              p \in Families, f \in {{}, {"v4", "v6"}}}

PublicLBs == {[frontends |-> f, backends |-> b, natRules |-> 1, private |-> FALSE] :
                f \in {<<"v4", "v6">>, <<"v6">>, <<"v4", "v4">>, << >>}, b \in 0..2}

StackInfra == [Infra EXCEPT !.cloud = "AzureStackCloud", !.endpoint = "url"]

InterfaceInputs ==
  {[Calm EXCEPT !.azure.subnet = s, !.azure.lbs["lb1"] = lb, !.infra = i,
                !.spec.natRule = n, !.spec.internalLB = "lb2"] :
     s \in Subnets, lb \in PublicLBs, i \in {Infra, StackInfra}, n \in {Nil, -1, 0, 1}}
  \cup {[Calm EXCEPT !.azure.subnet = s, !.infra = i,
                     !.spec.publicLB = "lb2", !.spec.internalLB = "lb2"] :
          s \in Subnets, i \in {Infra, StackInfra}}

\* Every read of an interface, and the application security groups
GroupInputs ==
  {[Ordinary EXCEPT !.spec.appGroups = g, !.spec.internalLB = lb] :
     g \in {{"asg"}, {"asg", "none"}}, lb \in {"lb2", "none"}}
  \cup {[Ordinary EXCEPT !.spec.publicLB = lb, !.spec.natRule = 0] : lb \in {Nil, "none"}}
  \cup {[Ordinary EXCEPT !.spec.securityGroup = "none"],
        [Ordinary EXCEPT !.spec.accelerated = FALSE, !.spec.publicIP = FALSE,
                         !.spec.appGroups = {"asg"}, !.spec.securityGroup = Nil],
        [Ordinary EXCEPT !.infra = StackInfra, !.spec.appGroups = {"asg"}],
        [Ordinary EXCEPT !.spec.netGroup = "net", !.azure.subnet.group = "net"],
        [Ordinary EXCEPT !.azure.subnet.group = "net"]}

\* Machines that are refused or retried
BadInputs ==
  {[Calm EXCEPT !.spec.vnet = FALSE], [Calm EXCEPT !.spec.subnet = FALSE],
   [Calm EXCEPT !.azure.sku = Nil], [Calm EXCEPT !.azure.sku.accelerated = FALSE],
   [Calm EXCEPT !.azure.sku = Nil, !.spec.accelerated = FALSE],
   [Calm EXCEPT !.name = <<"m", "m", "m", "m">>], [Calm EXCEPT !.azure.aligned = FALSE],
   [Calm EXCEPT !.azure.aligned = FALSE, !.infra = StackInfra],
   [Calm EXCEPT !.userData = "missing"], [Calm EXCEPT !.userData = "noField"]}

\* Availability sets and zones
SetInputs ==
  {[Calm EXCEPT !.spec.zone = z, !.spec.availabilitySet = a, !.azure.sku.zones = zs,
                !.azure.sku.page = p, !.spec.spot = s, !.infra = i] :
     z \in {Nil, "1"}, a \in {Nil, <<"own">>}, zs \in {{}, {"1", "2"}}, p \in {1, 2},
     s \in {Nil, "unpriced"}, i \in {Infra, StackInfra}}
  \cup {[Calm EXCEPT !.infra = StackInfra, !.spec.zone = "1", !.azure.sku.zones = {"1"},
                     !.azure.sku.locations = {"l2"}]}
  \cup {[Calm EXCEPT !.labels = [cluster |-> c, set |-> n]] :
          c \in {<<"c">>, <<"c", "b">>}, n \in {Nil} \cup UNION {[1..k -> {"b", "c"}] : k \in 1..3}}

\* Tags, and their limit
Tags(keys, value) == [k \in keys |-> value]
Many(n) == Tags({<<i, "lower">> : i \in 2..(n + 1)}, "v")
SomeTags == {Nil} \cup {Tags(keys, v) : v \in {"v", "w"},
                        keys \in SUBSET {<<1, "lower">>, <<1, "upper">>, OwnerKey}}

TagInputs ==
  {[Calm EXCEPT !.infra.tags = i, !.spec.tags = s] : i, s \in SomeTags}
  \cup {[Calm EXCEPT !.infra.tags = Many(n), !.spec.tags = Tags({<<1, "lower">>}, "v")] :
          n \in {44, 45}}

\* Credentials: keys that are missing or blank, environment, workload identity
Without(s, keys) == [k \in DOMAIN s \ keys |-> s[k]]
Environ == [k \in {"clientID", "clientSecret", "tenantID", "tokenFile"} |-> "x"]

ScopeInputs ==
  {[Calm EXCEPT !.secrets = <<Without(Secret, {k})>>, !.infra.environ = e,
                !.infra.identity = w] :
     k \in SecretKeys, e \in {Infra.environ, Environ}, w \in BOOLEAN}
  \cup {[Calm EXCEPT !.secrets = <<[Secret EXCEPT ![k] = Nil]>>, !.infra.environ = Environ,
                     !.infra.identity = w] : k \in SecretKeys, w \in BOOLEAN}
  \cup {[Calm EXCEPT !.infra.cloud = c] :
          c \in {"AzureUSGovernmentCloud", "AzureGermanCloud", "unknown", "AzureStackCloud"}}
  \cup {[Calm EXCEPT !.secrets = <<Nil>>], [Calm EXCEPT !.infra.id = Nil],
        [Calm EXCEPT !.spec.credentials = FALSE]}

\* The secret changes while the machine is created
Moving == [Ordinary EXCEPT !.spec.netGroup = "g1", !.edits = 2,
                           !.spec.publicIP = FALSE, !.spec.publicLB = Nil,
                           !.spec.securityGroup = Nil, !.spec.userData = Nil]

MovingInputs ==
  {[Moving EXCEPT !.spec.group = g,
                  !.secrets = <<Secret, [Secret EXCEPT !["group"] = "g2"],
                                Without(Secret, {"clientSecret"}), s>>] :
     g \in {Nil, "g3"},
     s \in {Without(Secret, {"group"}), [Secret EXCEPT !["subscription"] = "s2"]}}
  \cup {[Moving EXCEPT !.infra.group = Nil,
                       !.secrets = <<Without(Secret, {"group"}), Secret>>],
        [Moving EXCEPT !.edits = 1, !.faults = 2,
                       !.secrets = <<Secret, [Secret EXCEPT !["group"] = "g2"]>>]}

\* Control plane machines, behind load balancers of others
MasterInputs ==
  {[Moving EXCEPT !.edits = 0, !.master = TRUE, !.azure.attached = a,
                  !.spec.publicLB = p, !.spec.internalLB = i] :
     a \in {{}, {"lb1", "lb2"}, {"lb2", "lb3"}}, p \in {Nil, "lb2"}, i \in {Nil, "lb2"}}
  \cup {[Calm EXCEPT !.master = m, !.azure.attached = {"lb1", "lb2"}, !.infra = i] :
          m \in BOOLEAN, i \in {Infra, StackInfra}}

AllInputs == {Ordinary} \cup VMInputs \cup ReservationInputs \cup InterfaceInputs
             \cup GroupInputs \cup BadInputs \cup SetInputs \cup TagInputs
             \cup ScopeInputs \cup MovingInputs \cup MasterInputs
=============================================================================
