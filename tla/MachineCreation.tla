---------------------------- MODULE MachineCreation ----------------------------
(***************************************************************************)
(* The creation of one machine, seen from the requests it sends: which     *)
(* resources the actuator asks Azure for, where, with which settings, and  *)
(* whether a failed attempt is given up or tried again.                    *)
(*                                                                         *)
(* MachineLifecycle reduces a provider spec to what its control flow tells *)
(* apart.  This module keeps the spec: it composes MachineScope,           *)
(* InterfaceParameters and VMParameters in the order of CreateMachine, and *)
(* has the secret, the informer cache and crashes around them.  How a VM   *)
(* fares is MachineLifecycle's: here each read of it finds any state.      *)
(***************************************************************************)
EXTENDS VMParameters, InterfaceParameters

CONSTANTS
  Inputs,         \* the machines, clusters and states of Azure to look at
  NameLimit,      \* letters in the name of an availability set: 80 in Azure
  PublicIPLimit   \* letters in the name of a public IP: 64 are too many

(***************************************************************************)
(* An input is [spec, labels, master, name, userData, infra, azure,        *)
(* secrets, edits, faults]: the provider spec, labels, role and name of    *)
(* the machine, the state of its user data secret, the Infrastructure      *)
(* object, what exists in Azure (attached: the load balancers others put   *)
(* the interface behind; aligned: a SKU of that name tells the number of   *)
(* fault domains), the values the credentials secret takes, the first one  *)
(* first, and the two bounds.                                              *)
(***************************************************************************)

\* The part of a provider spec that reaches the VM.
SpecTyped(spec) ==
  /\ spec.security \in SecurityProfile \cup {Nil}
  /\ spec.osDisk \in OSDisk
  /\ spec.dataDisks \in Seq(DataDisk)
  /\ spec.image \in Image
  /\ spec.ssh \in {Nil, "key", "malformed"}
  /\ spec.spot \in {Nil, "unpriced", "priced"}
  /\ spec.ultraSSD \in {Nil, "Enabled", "Disabled"}
  /\ spec.reservation # Nil => spec.reservation.parts \in Seq(STRING)
  /\ Nil \notin spec.appGroups

TextValued(f) == \A key \in DOMAIN f : f[key] \in Text

\* The placement, and the secrets and names behind it.
PlacementTyped(i) ==
  /\ i.spec.credentials \in BOOLEAN
  /\ {i.spec.group, i.spec.netGroup, i.spec.location, i.infra.group, i.infra.cloud}
       \subseteq Text
  /\ 1 \in DOMAIN i.secrets
  /\ \A n \in DOMAIN i.secrets : i.secrets[n] = Nil \/ TextValued(i.secrets[n])
  /\ TextValued(i.infra.environ)
  /\ i.edits \in Nat /\ i.faults \in Nat

\* Tags are finite; a label is a sequence of letters.  The machine controller
\* stops a machine without a cluster label (validateMachine).  The name of a
\* machine set is a DNS name, which has no underscore.
LabelsTyped(i) ==
  /\ \A tags \in {i.spec.tags, i.infra.tags} \ {Nil} : IsFiniteSet(DOMAIN tags)
  /\ i.labels.cluster \in Seq(STRING)
  /\ i.labels.set \in Seq(STRING) \cup {Nil}
  /\ i.master \in BOOLEAN
  /\ i.labels.set # Nil => "_" \notin Range(i.labels.set)
  /\ i.infra.id \in Seq(STRING) \cup {Nil} /\ i.name \in Seq(STRING)

AzureTyped(azure) ==
  /\ \A lb \in DOMAIN azure.lbs :
       azure.lbs[lb] \in [frontends : Seq(Families), backends : Nat, natRules : Nat,
                          private : BOOLEAN]
  /\ Nil \notin DOMAIN azure.lbs
  /\ azure.aligned \in BOOLEAN
  /\ azure.sku # Nil => azure.sku.page \in Nat \ {0}

ASSUME InputsAssumption ==
  \A i \in Inputs :
    SpecTyped(i.spec) /\ PlacementTyped(i) /\ LabelsTyped(i) /\ AzureTyped(i.azure)

ASSUME LimitsAssumption ==
  /\ NameLimit \in Nat /\ NameLimit > 3
  /\ PublicIPLimit \in Nat

VARIABLES
  input,    \* the machine, its cluster and Azure; see below
  secret,   \* the credentials secret now
  api,      \* the stored Machine: its placement, internal load balancer, providerID
  cache,    \* the informer's copy of it
  pc,       \* the next step, or "idle", or "failed" for ever
  copy,     \* the reconcile's copy of the Machine
  scope,    \* the machine scope of the actuator call in progress
  fault,    \* the call of this attempt that is going to fail
  answer,   \* how the reconciler ended
  cloud,    \* the requests that Azure carried out
  moved,    \* the secret was changed under a machine that relied on it
  edits,    \* bound on the changes of the secret
  faults    \* bound on the failed calls, failed patches and crashes

vars == <<input, secret, api, cache, pc, copy, scope, fault, answer, cloud, moved,
          edits, faults>>

\* What reconciles record in a Machine.  patched: an attempt was persisted.
Blank(spec) == [group |-> spec.group, netGroup |-> spec.netGroup,
                location |-> spec.location, lb |-> spec.internalLB,
                pid |-> FALSE, patched |-> FALSE]

NoScope == [at |-> Nil, tags |-> Nil, set |-> Nil, lb |-> Nil]

Init ==
  /\ input \in Inputs
  /\ secret = input.secrets[1]
  /\ api = Blank(input.spec) /\ cache = api /\ copy = api
  /\ pc = "idle" /\ scope = NoScope /\ fault = NoFault /\ answer = "ok"
  /\ cloud = {} /\ moved = FALSE
  /\ edits = input.edits /\ faults = input.faults

-----------------------------------------------------------------------------
(***************************************************************************)
(* Shared pieces.                                                          *)
(***************************************************************************)
Config(machine) == [credentials |-> input.spec.credentials, tags |-> input.spec.tags,
                    group |-> machine.group, netGroup |-> machine.netGroup,
                    location |-> machine.location]

ScopeFails(machine) == NewMachineScopeFails(Config(machine), input.infra, secret)
ScopeOf(machine)    ==
  LET s == NewMachineScope(Config(machine), input.infra, secret)
  IN [at |-> s.at, tags |-> s.tags, set |-> Nil, lb |-> machine.lb]

PlaceOf(sc) == <<sc.at.subscription, sc.at.group>>

Stack == IsStackHub(input.infra)

Has(kind, sc) == \E r \in cloud : r.kind = kind /\ r.place = PlaceOf(sc)

\* Azure carries out a PUT: it creates or replaces the resource of that name.
Put(kind, request) ==
  {r \in cloud : r.kind # kind \/ r.place # PlaceOf(scope)}
    \cup {[kind |-> kind, place |-> PlaceOf(scope), request |-> request]}

\* actuator.Create: these are reported as an InvalidMachineConfiguration.
Terminal(a) == a \in {"invalid", "notFound", "client"}

\* The reconciler returns to the actuator; a panic unwinds the actuator too.
Ends(a) == /\ answer' = a
           /\ pc' = IF a = "panic" THEN "idle" ELSE "persist"

\* One step of CreateMachine: the error a ends the attempt, or else it goes on.
Step(label, a, next) ==
  /\ pc = label
  /\ IF a = "ok" THEN pc' = next /\ UNCHANGED answer ELSE Ends(a)
  /\ UNCHANGED <<input, secret, api, cache, copy, fault, moved, edits, faults>>

\* A PUT that fails may have been carried out nevertheless.
PutStep(label, kind, request, next) ==
  /\ Step(label, Answer(kind, TRUE, fault), next)
  /\ \/ cloud' = Put(kind, request)
     \/ fault.call = kind /\ UNCHANGED cloud
  /\ UNCHANGED scope

\* The reads of an attempt, the PUTs, named by the kind of the resource, the
\* deletions, and the reads of the Update that ends it.
Calls == {"sku", "subnet", "publicIP", "publicLB", "internalLB", "securityGroup",
          "appGroups", "zones", "getVM", "userData", "getInterface",
          "pip", "nic", "set", "vm", "delete"} \cup {"readVM", "interfaceLBs"}

Statuses == {"notFound", "client", "unauthorized", "server"}

(***************************************************************************)
(* At most one call of an attempt fails.  A VM that is reported missing is *)
(* missing, and what is missing needs no deletion.                         *)
(***************************************************************************)
Faults == {f \in [call : Calls, answer : Statuses] :
             f.call \in {"getVM", "delete"} => f.answer # "notFound"}

-----------------------------------------------------------------------------
(***************************************************************************)
(* Reconcile of the machine controller: Exists, then Update or Create.     *)
(***************************************************************************)

\* Without a scope, or without a secret to get a token with, Exists fails
\* and is tried again, as it is while a VM is being deleted.  A VM that failed
\* counts as missing.  A machine that had a VM and lost it is Failed.
Exists ==
  /\ pc = "idle"
  /\ input.spec.credentials /\ ~ScopeFails(cache)
  /\ copy' = cache
  /\ \E found \in BOOLEAN :
       /\ found => Has("vm", ScopeOf(cache))
       /\ pc' = IF found THEN "update" ELSE IF cache.pid THEN "failed" ELSE "create"
  /\ fault' = NoFault /\ answer' = "ok"
  /\ UNCHANGED <<input, secret, api, cache, scope, cloud, moved, edits, faults>>

\* Mutant: the error of NewMachineScope is not looked at.
UpdateScopeUnchecked ==
  /\ pc = "update"
  /\ scope' = IF ScopeFails(copy) THEN NoScope ELSE ScopeOf(copy)
  /\ pc' = "refresh"
  /\ UNCHANGED <<input, secret, api, cache, copy, fault, answer, cloud, moved, edits, faults>>

\* actuator.Update, up to the reconciler's Update.
UpdateScope ==
  /\ pc = "update"
  /\ \/ /\ ScopeFails(copy)
        /\ pc' = "idle" /\ UNCHANGED <<scope, fault, faults>>
     \/ /\ ~ScopeFails(copy)
        /\ scope' = ScopeOf(copy) /\ pc' = "refresh"
        /\ \/ UNCHANGED <<fault, faults>>
           \/ /\ faults > 0 /\ faults' = faults - 1
              /\ fault' \in {f \in Faults : f.call \in {"readVM", "interfaceLBs"}}
  /\ UNCHANGED <<input, secret, api, cache, copy, answer, cloud, moved, edits>>

\* Whatever keeps actuator.Create from building a scope is terminal.
CreateScopeFails ==
  /\ pc = "create"
  /\ \/ ScopeFails(copy) /\ UNCHANGED faults
     \/ faults > 0 /\ faults' = faults - 1
  /\ pc' = "failed"
  /\ UNCHANGED <<input, secret, api, cache, copy, scope, fault, answer, cloud, moved, edits>>

CreateScope ==
  /\ pc = "create" /\ ~ScopeFails(copy)
  /\ scope' = ScopeOf(copy)
  /\ pc' = "network"
  /\ \/ UNCHANGED <<fault, faults>>
     \/ faults > 0 /\ faults' = faults - 1 /\ fault' \in Faults
  /\ UNCHANGED <<input, secret, api, cache, copy, answer, cloud, moved, edits>>

-----------------------------------------------------------------------------
(***************************************************************************)
(* CreateMachine: createNetworkInterface.                                  *)
(***************************************************************************)
GenerateMachinePublicIPName == input.infra.id \o <<"-">> \o input.name

\* What is refused before anything is created.
NetworkSpecError ==
  FirstError(<<
    IF input.spec.vnet THEN "ok" ELSE "invalid",
    IF input.spec.accelerated THEN GetSKU(input.azure, fault) ELSE "ok",
    IF input.spec.accelerated /\ input.azure.sku # Nil /\ ~input.azure.sku.accelerated
    THEN "invalid" ELSE "ok",
    IF input.spec.subnet THEN "ok" ELSE "invalid",
    IF input.spec.publicIP /\ Len(GenerateMachinePublicIPName) >= PublicIPLimit
    THEN "invalid" ELSE "ok">>)

\* The networkinterfaces.Spec; a NAT rule counts with a public load balancer.
InterfaceSpec ==
  [publicLB      |-> input.spec.publicLB,
   natRule       |-> IF input.spec.publicLB # Nil THEN input.spec.natRule ELSE Nil,
   internalLB    |-> scope.lb,
   securityGroup |-> input.spec.securityGroup,
   appGroups     |-> input.spec.appGroups,
   publicIP      |-> input.spec.publicIP,
   accelerated   |-> input.spec.accelerated]

createNetworkInterface ==
  /\ Step("network", NetworkSpecError, IF input.spec.publicIP THEN "pip" ELSE "reads")
  /\ UNCHANGED <<scope, cloud>>

CreatePublicIP ==
  PutStep("pip", "pip", [location |-> scope.at.location,
                         tags |-> IF Stack THEN Nil ELSE scope.tags], "reads")

\* The reads of networkinterfaces.CreateOrUpdate.
ReadsError ==
  LET n == InterfaceSpec
      first == IF Stack THEN InterfaceErrorStackHub(n, scope.at, input.azure, fault)
               ELSE InterfaceError(n, scope.at, input.azure, fault)
  IN IF first # "ok" THEN first ELSE InterfaceErrorAfterLB(n, input.azure, fault)

ReadForInterface ==
  /\ Step("reads", ReadsError, "nic")
  /\ scope' = IF ReadsError = "panic" THEN NoScope ELSE scope
  /\ UNCHANGED cloud

NICRequest ==
  IF Stack THEN InterfaceRequestStackHub(InterfaceSpec, scope, input.azure, fault)
  ELSE InterfaceRequest(InterfaceSpec, scope, input.azure, fault)

CreateInterface == PutStep("nic", "nic", NICRequest, "set")

\* Azure may refuse a reference that has no ID.
InterfaceRefused ==
  /\ Step("nic", "client", "set")
  /\ Nil \in NICRequest.v4.appGroups
  /\ UNCHANGED <<scope, cloud>>

-----------------------------------------------------------------------------
(***************************************************************************)
(* CreateMachine: getOrCreateAvailabilitySet.                              *)
(***************************************************************************)

\* Mutant: the separator between the two names is forgotten.
getAvailabilitySetNameUnseparated(labels) ==
  LET name == IF IsPrefix(labels.cluster, labels.set) THEN labels.set
              ELSE labels.cluster \o labels.set
  IN (IF Len(name) >= NameLimit - 3 THEN SubSeq(name, 1, NameLimit - 3) ELSE name)
       \o <<"-", "a", "s">>

getAvailabilitySetName(labels) ==
  LET name == IF IsPrefix(labels.cluster, labels.set) THEN labels.set
              ELSE labels.cluster \o <<"_">> \o labels.set
  IN (IF Len(name) >= NameLimit - 3 THEN SubSeq(name, 1, NameLimit - 3) ELSE name)
       \o <<"-", "a", "s">>

\* Only the first page of the SKUs is looked at.
GetZones(sku) == IF sku # Nil /\ sku.page = 1 THEN sku.zones ELSE {}

\* The locations of the size stand in for its zones.
GetZonesStackHub(sku, location) ==
  IF sku # Nil /\ sku.page = 1 /\ location \in sku.locations THEN {location} ELSE {}

Zones == IF Stack THEN GetZonesStackHub(input.azure.sku, scope.at.location)
         ELSE GetZones(input.azure.sku)

NeedsSet ==
  Zones = {} /\ input.labels.set # Nil /\ input.spec.spot = Nil

GetZonesStep ==
  LET given == input.spec.availabilitySet
      needs == given = Nil /\ NeedsSet
      a == IF given # Nil THEN "ok" ELSE Answer("zones", TRUE, fault)
  IN /\ Step("set", a, IF needs THEN "domains" ELSE "vm")
     /\ scope' = [at |-> scope.at, tags |-> scope.tags, lb |-> scope.lb,
                  set |-> IF needs /\ a = "ok" THEN getAvailabilitySetName(input.labels)
                          ELSE given]
     /\ UNCHANGED cloud

\* From the list of SKUs; every error of the lookup itself is a plain one.
getMaximumFaultDomainCount ==
  /\ Step("domains", FirstError(<<Answer("sku", TRUE, fault),
                                  IF input.azure.aligned THEN "ok" ELSE "generic">>), "putSet")
  /\ UNCHANGED <<scope, cloud>>

CreateAvailabilitySet ==
  PutStep("putSet", "set", [name |-> scope.set, tags |-> scope.tags], "vm")

-----------------------------------------------------------------------------
(***************************************************************************)
(* CreateMachine: createVirtualMachine.                                    *)
(***************************************************************************)
createDiagnosticsConfigFails(boot) == boot \in {"customerWithoutURI", "unknown"}

(***************************************************************************)
(* A resource ID is [slash, parts]: it starts with a slash, and the words  *)
(* between its slashes, compared regardless of case.  The prefix azure://  *)
(* has been cut off.  next[k] tells whether its last k words are accepted. *)
(***************************************************************************)
appendNextAzureResourceIDValidation(parts) ==
  LET n == Len(parts)
      word(k, i) == parts[n - k + i]     \* word i of the last k
      next[k \in 0..n] ==
        CASE k = 0 -> TRUE
          [] k = 1 -> word(1, 1) \notin {"subscriptions", "resourcegroups"}
          [] k > 1 /\ word(k, 1) # "providers" -> next[k - 2]
          [] k > 1 /\ word(k, 1) = "providers" /\ (k = 2 \/ word(k, 3) = "providers") ->
               next[k - 2]
          [] k > 3 /\ word(k, 1) = "providers" /\ word(k, 3) # "providers" -> next[k - 4]
          [] OTHER -> FALSE
  IN next[n]

parseAzureResourceID(id) ==
  /\ id.slash
  /\ Len(id.parts) >= 2
  /\ id.parts[1] \in {"subscriptions", "providers"}
  /\ appendNextAzureResourceIDValidation(id.parts)

validateAzureCapacityReservationGroupIDFails(id) == id # Nil /\ ~parseAzureResourceID(id)

\* A missing secret, an unreadable one, and one without the field.
getCustomUserDataFails ==
  input.spec.userData # Nil /\ (input.userData # "ok" \/ fault.call = "userData")

\* The virtualmachines.Spec.
VMSpec ==
  [ssh         |-> input.spec.ssh,        userData  |-> input.spec.userData,
   osDisk      |-> input.spec.osDisk,     security  |-> input.spec.security,
   dataDisks   |-> input.spec.dataDisks,  spot      |-> input.spec.spot,
   image       |-> input.spec.image,      ultraSSD  |-> input.spec.ultraSSD,
   diagnostics |-> input.spec.diagnostics, zone     |-> input.spec.zone,
   identity    |-> {<<PlaceOf(scope), id>> : id \in {input.spec.identity} \ {Nil}},
   reservation |-> input.spec.reservation]

\* A request of virtualmachines.CreateOrUpdate.  If it is not sent, which for
\* the PUT is also any status but success, createVirtualMachine makes it an
\* InvalidMachineConfiguration.
SentAnswer(call, sent) ==
  IF fault.call = call /\ ~sent THEN "invalid" ELSE Answer(call, TRUE, fault)

\* Up to the PUT; the settings are validated last, and on Azure Stack not at all.
VMSpecError(sent) ==
  FirstError(<<
    IF createDiagnosticsConfigFails(input.spec.diagnostics) THEN "invalid" ELSE "ok",
    IF validateAzureCapacityReservationGroupIDFails(input.spec.reservation)
    THEN "generic" ELSE "ok",
    IF getCustomUserDataFails THEN "generic" ELSE "ok",
    SentAnswer("getInterface", sent),
    IF ~Stack /\ VMSpecInvalid(VMSpec) THEN "invalid" ELSE "ok">>)

GetVMError ==
  IF input.spec.ssh = "malformed" THEN "generic" ELSE Answer("getVM", TRUE, fault)

VMRequest ==
  IF Stack
  THEN deriveVirtualMachineParametersStackHub(VMSpec, scope.at.location, scope.set, scope.tags)
  ELSE deriveVirtualMachineParameters(VMSpec, scope.at.location, scope.set, scope.tags)

\* An operation that Azure has not completed is not an error, and one whose
\* result is an error has been accepted.
PutVM(sent) ==
  IF VMSpecError(sent) # "ok"
  THEN Step("vm", VMSpecError(sent), "refresh") /\ UNCHANGED cloud
  ELSE /\ Step("vm", SentAnswer("vm", sent), "refresh")
       /\ \/ cloud' = Put("vm", VMRequest)
          \/ fault.call = "vm" /\ ~sent /\ UNCHANGED cloud

\* Reconciler.Delete, in its order; it stops at a deletion that fails or that
\* Azure has not completed, and keeps a set in which there are VMs.
DeleteFailedVM ==
  /\ Step("vm", IF fault.call = "delete" THEN fault.answer ELSE "again", "refresh")
  /\ \E gone \in {{}, {"vm"}, {"vm", "nic"}, {"vm", "nic", "pip"},
                  {"vm", "nic", "pip", "set"}} :
       cloud' = {r \in cloud : r.place # PlaceOf(scope) \/ r.kind \notin gone}

createVirtualMachine ==
  /\ pc = "vm"
  /\ \/ /\ GetVMError # "ok"
        /\ Step("vm", GetVMError, "refresh") /\ UNCHANGED cloud
     \/ /\ GetVMError = "ok" /\ ~Has("vm", scope)
        /\ \E sent \in BOOLEAN : PutVM(sent)
     \/ /\ GetVMError = "ok" /\ Has("vm", scope)
        /\ \/ Step("vm", "ok", "refresh") /\ UNCHANGED cloud      \* Succeeded
           \/ Step("vm", "again", "refresh") /\ UNCHANGED cloud   \* not ready
           \/ DeleteFailedVM                                      \* Failed
  /\ UNCHANGED scope

-----------------------------------------------------------------------------
(***************************************************************************)
(* Reconciler.Update, of actuator.Update and at the end of CreateMachine.  *)
(***************************************************************************)

\* The load balancers of the interface: those it joined itself, and others.
InterfaceLBs ==
  LET joined(request) ==
        BagToSet(request.v4.pools)
          \cup IF request.v6 = Nil THEN {} ELSE BagToSet(request.v6.pools)
  IN input.azure.attached \cup
       UNION {{pool[1] : pool \in joined(r.request)} : r \in {r \in cloud : r.kind = "nic"}}

\* Mutant: a load balancer need not have a private frontend.
PopulatedLBAny ==
  LET found == InterfaceLBs \cap DOMAIN input.azure.lbs
  IN IF /\ input.master /\ scope.lb = Nil
        /\ fault.call # "interfaceLBs" /\ found # {}
     THEN found ELSE {scope.lb}

(***************************************************************************)
(* The internal load balancer of a control plane machine that names none:  *)
(* the last one found with a private frontend, in the order of Azure's     *)
(* answer.  A lookup that fails is passed over.                            *)
(***************************************************************************)
PopulatedLB ==
  LET found == {lb \in InterfaceLBs \cap DOMAIN input.azure.lbs : input.azure.lbs[lb].private}
  IN IF /\ input.master /\ scope.lb = Nil
        /\ fault.call # "interfaceLBs" /\ found # {}
     THEN found ELSE {scope.lb}

\* The error of the read loses its status.
Update ==
  /\ pc = "refresh"
  /\ \/ /\ Has("vm", scope) /\ fault.call # "readVM"
        /\ \E lb \in PopulatedLB :
             scope' = [at |-> scope.at, tags |-> scope.tags, set |-> scope.set, lb |-> lb]
        /\ Ends("ok")
     \/ /\ ~Has("vm", scope) \/ fault.call = "readVM"
        /\ Ends("generic") /\ UNCHANGED scope
  /\ UNCHANGED <<input, secret, api, cache, copy, fault, cloud, moved, edits, faults>>

-----------------------------------------------------------------------------
(***************************************************************************)
(* Persist, and the steps of the surroundings.                             *)
(***************************************************************************)

\* Mutant: only the status and the providerID are written back.
PersistedWithoutSpec ==
  [api EXCEPT !.pid = @ \/ answer = "ok", !.patched = TRUE]

\* A merge patch: what differs from the copy read at the start is written.
Persisted ==
  LET stored(new, old, now) == IF new # old THEN new ELSE now
  IN [group    |-> stored(scope.at.group, copy.group, api.group),
      netGroup |-> stored(scope.at.netGroup, copy.netGroup, api.netGroup),
      location |-> stored(scope.at.location, copy.location, api.location),
      lb       |-> stored(scope.lb, copy.lb, api.lb),
      pid      |-> api.pid \/ answer = "ok",
      patched  |-> TRUE]

\* A failed patch does not change what the actuator returns for an error.
Persist ==
  /\ pc = "persist"
  /\ \/ api' = Persisted /\ UNCHANGED faults
     \/ faults > 0 /\ faults' = faults - 1 /\ UNCHANGED api
  /\ pc' = IF Terminal(answer) THEN "failed" ELSE "idle"
  /\ scope' = NoScope
  /\ UNCHANGED <<input, secret, cache, copy, fault, answer, cloud, moved, edits>>

CacheSync ==
  /\ cache # api
  /\ cache' = api
  /\ UNCHANGED <<input, secret, api, pc, copy, scope, fault, answer, cloud, moved, edits,
                 faults>>

Crash ==
  /\ pc \notin {"idle", "failed"}
  /\ faults > 0 /\ faults' = faults - 1
  /\ pc' = "idle" /\ scope' = NoScope
  /\ UNCHANGED <<input, secret, api, cache, copy, fault, answer, cloud, moved, edits>>

\* Something was done for the machine, or is being done.
Started == pc # "idle" \/ api.patched \/ cloud # {}

\* Neither the secret nor the Infrastructure object names a group to record.
NoGroup ==
  Default(getValueFromSecretOrEnvironment(secret, input.infra.environ, "group"),
          getInfraResourceGroup(input.infra)) = Nil

\* The spec has no group, and a scope may yet be built from a copy in which no
\* Persist had one to record.
Unrecorded ==
  /\ input.spec.group = Nil
  /\ NoGroup \/ ~cache.patched \/ (pc \in {"create", "update"} /\ ~copy.patched)

(***************************************************************************)
(* The cloud credential operator or the user changes the secret.  moved:   *)
(* the place of the machine's resources was known from nowhere else, since *)
(* the subscription is never recorded, and the group only once a Persist   *)
(* succeeded and reached the copies that are worked from.                  *)
(***************************************************************************)
EditSecret ==
  /\ edits > 0 /\ edits' = edits - 1
  /\ \E i \in DOMAIN input.secrets :
        /\ input.secrets[i] # secret
        /\ secret' = input.secrets[i]
  /\ LET changes(key) == getValueFromSecretOrEnvironment(secret', input.infra.environ, key)
                        # getValueFromSecretOrEnvironment(secret, input.infra.environ, key)
     IN moved' = \/ moved
                 \/ Started /\ changes("subscription")
                 \/ Started /\ changes("group") /\ Unrecorded
  /\ UNCHANGED <<input, api, cache, pc, copy, scope, fault, answer, cloud, faults>>

Next ==
  \/ Exists \/ UpdateScope \/ CreateScopeFails \/ CreateScope
  \/ createNetworkInterface \/ CreatePublicIP \/ ReadForInterface
  \/ CreateInterface \/ InterfaceRefused
  \/ GetZonesStep \/ getMaximumFaultDomainCount \/ CreateAvailabilitySet
  \/ createVirtualMachine \/ Update
  \/ Persist \/ CacheSync \/ Crash \/ EditSecret

Spec == Init /\ [][Next]_vars

-----------------------------------------------------------------------------
Labels == {"idle", "failed", "update", "create", "network", "pip", "reads", "nic", "set",
           "domains", "putSet", "vm", "refresh", "persist"}

(***************************************************************************)
(* Type correctness: the steps, answers and kinds of request are those of  *)
(* the code, and a scope exists exactly while an actuator call runs.       *)
(***************************************************************************)
TypeOK ==
  /\ pc \in Labels /\ answer \in Answers
  /\ fault \in Faults \cup {NoFault}
  /\ scope.at = Nil <=> pc \in {"idle", "failed", "update", "create"}
  /\ \A r \in cloud : r.kind \in {"pip", "nic", "set", "vm"}
  /\ moved \in BOOLEAN /\ edits \in 0..input.edits /\ faults \in 0..input.faults

(***************************************************************************)
(* Every resource that was created can be found again: it is where the     *)
(* next actuator call, Delete included, is going to look, after crashes,   *)
(* failed patches and changes of the secret, as long as the secret was not *)
(* changed while it alone knew the place.                                  *)
(***************************************************************************)
Reachable ==
  ~moved /\ ~ScopeFails(api) =>
    LET place == PlaceOf(ScopeOf(api)) IN \A r \in cloud : r.place = place

Requests(kind) == {r.request : r \in {r \in cloud : r.kind = kind}}

-----------------------------------------------------------------------------
(***************************************************************************)
(* What the spec asks for, and what a request grants.                      *)
(***************************************************************************)
Asked ==
  LET v == input.spec
      typed(type) == v.security # Nil /\ v.security.type = type
      uefi == IF typed("ConfidentialVM") THEN v.security.confidential
              ELSE IF typed("TrustedLaunch") THEN v.security.trusted ELSE Nil
  IN [windows        |-> v.osDisk.os = "Windows",
      ownKey         |-> v.ssh # Nil /\ v.osDisk.os # "Windows",
      userData       |-> v.userData # Nil,
      confidential   |-> typed("ConfidentialVM"),
      trusted        |-> typed("TrustedLaunch"),
      secureBoot     |-> uefi # Nil /\ uefi.secureBoot,
      vTPM           |-> uefi # Nil /\ uefi.vTPM,
      atHost         |-> v.security # Nil /\ v.security.atHost,
      encryptionType |-> v.osDisk.encryptionType # Nil,
      encryptionSet  |-> v.osDisk.encryptionSet,
      ephemeral      |-> v.osDisk.ephemeral,
      caching        |-> v.osDisk.caching,
      dataDisks      |-> Len(v.dataDisks),
      ultra          |-> \/ v.ultraSSD = "Enabled"
                         \/ /\ v.ultraSSD = Nil
                            /\ \E i \in DOMAIN v.dataDisks : v.dataDisks[i].ultra,
      spot           |-> v.spot # Nil,
      maxPrice       |-> v.spot = "priced",
      plan           |-> v.image.type = "MarketplaceWithPlan",
      diagnostics    |-> v.diagnostics # Nil,
      identity       |-> v.identity # Nil,
      reservation    |-> v.reservation # Nil,
      zone           |-> v.zone # Nil]

Granted(request) ==
  LET s == request.security
      uefi == IF s = Nil THEN Nil ELSE s.uefi
  IN [windows        |-> request.osProfile.windows,
      ownKey         |-> request.osProfile.key \notin {Nil, "generated"},
      userData       |-> request.osProfile.customData,
      confidential   |-> s # Nil /\ s.type = "ConfidentialVM",
      trusted        |-> s # Nil /\ s.type = "TrustedLaunch",
      secureBoot     |-> uefi # Nil /\ uefi.secureBoot,
      vTPM           |-> uefi # Nil /\ uefi.vTPM,
      atHost         |-> s # Nil /\ s.atHost,
      encryptionType |-> request.osDisk.encryptionType # Nil,
      encryptionSet  |-> request.osDisk.encryptionSet,
      ephemeral      |-> request.osDisk.ephemeral,
      caching        |-> request.osDisk.caching,
      dataDisks      |-> Len(request.dataDisks),
      ultra          |-> request.ultraSSD = TRUE,
      spot           |-> request.spot.priority = "Spot",
      maxPrice       |-> request.spot.maxPrice = "priced",
      plan           |-> request.plan,
      diagnostics    |-> request.diagnostics # Nil,
      identity       |-> request.identity # {},
      reservation    |-> request.reservation,
      zone           |-> request.zone # Nil]

\* What is left out without an error.
Dropped ==
  LET s == input.spec.security
  IN IF Stack THEN DOMAIN Asked \ {"windows", "ownKey", "userData", "zone"}
     ELSE (IF s # Nil /\ s.type = "ConfidentialVM" /\ input.spec.osDisk.encryptionType = Nil
           THEN {"confidential", "secureBoot", "vTPM"} ELSE {})
          \cup (IF s # Nil /\ s.type = "TrustedLaunch" /\ ~s.trusted.secureBoot
                   /\ ~s.trusted.vTPM THEN {"trusted"} ELSE {})
          \cup (IF ~input.spec.image.complete THEN {"plan"} ELSE {})

Honoured(request) ==
  LET asked   == Asked
      granted == Granted(request)
  IN \A f \in DOMAIN asked \ Dropped : granted[f] = asked[f]

(***************************************************************************)
(* A VM is created with exactly the settings its provider spec asks for,   *)
(* or not at all.  The derivation leaves some out without an error: on     *)
(* Azure Stack Hub everything its API lacks; on Azure the security type    *)
(* ConfidentialVM of a machine whose OS disk names no encryption type,     *)
(* TrustedLaunch with both of its settings disabled, and the plan of an    *)
(* image that is not named in full.                                        *)
(***************************************************************************)
SettingsHonoured == \A request \in Requests("vm") : Honoured(request)

Distinct(disks) ==
  /\ \A i, j \in DOMAIN disks :
       i # j => disks[i].lun # disks[j].lun /\ disks[i].name # disks[j].name
  /\ \A i \in DOMAIN disks : disks[i].lun \in 0..63

(***************************************************************************)
(* generateDataDisks lets no two disks of a VM share a LUN or a name, and  *)
(* only LUNs that exist: otherwise the VM is refused before its PUT.       *)
(***************************************************************************)
DisksDistinct == \A request \in Requests("vm") : Distinct(request.dataDisks)

Joins(pool, pools) == IF BagIn(pool, pools) THEN pools[pool] ELSE 0

Joined(request) ==
  \A lb \in {input.spec.publicLB, input.spec.internalLB} \ {Nil} :
    \A i \in DOMAIN input.azure.lbs[lb].frontends :
      LET family == input.azure.lbs[lb].frontends[i]
          joins4 == Joins(<<lb, i>>, request.v4.pools)
          joins6 == IF request.v6 = Nil THEN 0 ELSE Joins(<<lb, i>>, request.v6.pools)
          once   == IF input.spec.publicLB = input.spec.internalLB THEN 2 ELSE 1
      IN CASE i > input.azure.lbs[lb].backends -> joins4 = 0 /\ joins6 = 0
           [] Stack /\ i <= input.azure.lbs[lb].backends -> joins4 = once /\ joins6 = 0
           [] OTHER -> /\ joins4 = IF family = "v4" THEN once ELSE 0
                       /\ joins6 = IF family = "v6" /\ request.v6 # Nil THEN once ELSE 0

(***************************************************************************)
(* The interface joins every backend that has a frontend, of both load     *)
(* balancers, exactly once, with its IP configuration of the frontend's    *)
(* family; twice where the spec names one load balancer as both.  Backends *)
(* of IPv6 frontends are skipped for a subnet without IPv6; on Azure Stack *)
(* Hub the IPv4 configuration joins the backends of both.                  *)
(***************************************************************************)
PoolsJoined == \A request \in Requests("nic") : Joined(request)

-----------------------------------------------------------------------------
(***************************************************************************)
(* A resource ID is a sequence of blocks that can be cut apart: names with *)
(* their values, provider namespaces with a type and a name or with        *)
(* nothing but another provider behind them, and a last word of its own.   *)
(***************************************************************************)
WellFormedBlock(parts, i, j) ==      \* words i + 1 to j
  LET n == Len(parts)
      w == parts[i + 1]
  IN \/ j = i + 1 /\ j = n /\ w \notin {"subscriptions", "resourcegroups"}
     \/ j = i + 2 /\ w # "providers"
     \/ j = i + 2 /\ w = "providers" /\ (j = n \/ parts[j + 1] = "providers")
     \/ j = i + 4 /\ w = "providers" /\ parts[i + 3] # "providers"

WellFormedID(id) ==
  LET n == Len(id.parts)
  IN /\ id.slash /\ n > 1 /\ id.parts[1] \in {"subscriptions", "providers"}
     /\ \E cuts \in SUBSET (0..n) :
          /\ {0, n} \subseteq cuts
          /\ \A i \in cuts \ {n} : \E j \in cuts :
               i < j /\ (i + 1)..(j - 1) \cap cuts = {} /\ WellFormedBlock(id.parts, i, j)

\* The machine cannot be created as it is, and the code says so at once.
Refused ==
  LET v == input.spec
      az == input.azure
  IN \/ ~v.vnet \/ ~v.subnet
     \/ az.sku = Nil \/ (v.accelerated /\ ~az.sku.accelerated)
     \/ v.publicIP /\ Len(input.infra.id) + 1 + Len(input.name) >= PublicIPLimit
     \/ v.diagnostics \in {"customerWithoutURI", "unknown"}
     \/ ~Stack /\ VMSpecInvalid(VMSpec)
     \/ az.subnet.group # scope.at.netGroup
     \/ ~({v.publicLB, v.internalLB} \ {Nil} \subseteq DOMAIN az.lbs)
     \/ ~({v.securityGroup} \ {Nil} \subseteq az.security)

\* It cannot be created either, and is tried again for ever.
Retried ==
  LET v == input.spec
  IN \/ v.ssh = "malformed"
     \/ v.availabilitySet = Nil /\ input.labels.set # Nil /\ ~input.azure.aligned
     \/ v.reservation # Nil /\ ~WellFormedID(v.reservation)
     \/ v.userData # Nil /\ input.userData # "ok"
     \/ ~(v.appGroups \subseteq input.azure.security)

HasCause(a) ==
  /\ Terminal(a) =>
       \/ Refused
       \/ fault.answer \in {"notFound", "client"}
       \/ fault.call \in {"vm", "getInterface"} /\ a = "invalid"
       \/ fault.call = "appGroups" /\ a = "client"
  /\ a \in {"generic", "unauthorized", "server"} =>
       \/ Retried
       \/ fault.answer \in {"unauthorized", "server"}
       \/ fault.call \in {"userData", "appGroups", "readVM"}
       \/ moved

(***************************************************************************)
(* An attempt is given up for a reason that waiting does not remove, and   *)
(* tried again for one that it does; and there are three ways for a        *)
(* machine to become Failed: such an attempt, a scope that actuator.Create *)
(* could not build, and a machine with a providerID whose VM is missing or *)
(* failed.  Exceptions, where a failure that passes makes a machine        *)
(* Failed: the PUT of the VM, and the read of its interface before it, if  *)
(* they are not sent, whatever the status; the reads from which the scope  *)
(* is built; and the lookup of the application security groups, whose      *)
(* error is not looked at, so that Azure may refuse the interface.  The    *)
(* other way round, the configurations of Retried, and whatever status the *)
(* Update that follows the creation meets, are tried again for ever.       *)
(***************************************************************************)
OutcomeHasCause ==
  [][/\ pc = "persist" /\ pc' # pc => HasCause(answer)
     /\ pc # "failed" /\ pc' = "failed" =>
          \/ pc = "persist" /\ Terminal(answer)
          \/ pc = "create" /\ (ScopeFails(copy) \/ faults' < faults)
          \/ pc = "idle" /\ cache.pid]_vars

-----------------------------------------------------------------------------
\* The private load balancers that the interface can have been found behind.
PrivateLBs ==
  {lb \in DOMAIN input.azure.lbs \cap (input.azure.attached \cup {input.spec.publicLB}) :
     input.azure.lbs[lb].private}

(***************************************************************************)
(* The internal load balancer that a replacement of a control plane        *)
(* machine is going to join: a load balancer the spec names is never       *)
(* replaced, and one that is recorded is never lost, through crashes,      *)
(* failed patches and outdated copies; only a load balancer with a private *)
(* frontend that the interface is behind is recorded; and the patch that   *)
(* first stores a providerID records one, if there is one and its lookup   *)
(* did not fail, which no step reports.                                    *)
(***************************************************************************)
InternalLBRecorded ==
  [][/\ api'.lb # api.lb => /\ input.master /\ input.spec.internalLB = Nil
                            /\ api'.lb \in PrivateLBs
     /\ /\ ~api.pid /\ api'.pid
        /\ input.master /\ input.azure.attached \cap PrivateLBs # {}
        /\ fault.call # "interfaceLBs"
        => api'.lb # Nil]_vars

-----------------------------------------------------------------------------
Siblings == {i.labels : i \in Inputs}

NamedApart(name) ==
  /\ Len(name) <= NameLimit
  /\ \A other \in Siblings :
       /\ other.cluster = input.labels.cluster
       /\ other.set \notin {Nil, input.labels.set}
       /\ getAvailabilitySetName(other) = name
       => Len(name) = NameLimit

(***************************************************************************)
(* The generated name of an availability set fits the limit of Azure, and  *)
(* two machine sets of a cluster share a set only if their names were cut. *)
(***************************************************************************)
SetsApart == \A request \in Requests("set") : NamedApart(request.name)

Tagged(tags) ==
  tags # Nil =>
    /\ OwnerKey \in DOMAIN tags /\ tags[OwnerKey] = "owned"
    /\ Cardinality(DOMAIN tags) <= 46
    /\ input.spec.tags # Nil =>
         /\ \A k \in DOMAIN input.spec.tags \ {OwnerKey} : tags[k] = input.spec.tags[k]
         /\ \A j, k \in DOMAIN input.spec.tags : j[1] = k[1] => j = k

(***************************************************************************)
(* Whatever tags the user and the installer choose, a tagged resource is   *)
(* marked as owned by the cluster, carries the machine's own tags, and has *)
(* no two tags of the provider spec that Azure would take for one.         *)
(***************************************************************************)
TagsSafe ==
  \A request \in UNION {Requests(kind) : kind \in {"pip", "nic", "set", "vm"}} :
    Tagged(request.tags)

=============================================================================
