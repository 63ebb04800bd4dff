# TLA+ models of machine-api-provider-azure

`machine-api-provider-azure` turns OpenShift `Machine` objects into Azure
virtual machines. This directory holds TLA+ models of the parts of it that
decide something, TLC configurations that check them on small instances, and
proofs, checked by TLAPS, of what matters most for every instance.
`PROJECT.json` lists components, runs, hazards, findings and theorems in
machine-readable form, and maps every definition to the source lines it models.

## The system

| Part | Source | State | Operations |
|---|---|---|---|
| machine controller | vendored `machine-api-operator/pkg/controller/machine/controller.go` | none of its own; works on a copy of the `Machine` read from the informer cache | `Reconcile` |
| drain controller | `drain_controller.go` beside it | the Drained condition | `Reconcile` |
| actuator | `pkg/cloud/azure/actuators/machine/actuator.go` | none | `Create`, `Update`, `Exists`, `Delete` |
| machine scope | `actuators/machine_scope.go` | copy of the machine, provider status, placement, tags, authorizer | `NewMachineScope`, `Persist` |
| reconciler | `actuators/machine/reconciler.go` | none | `Create`, `Update`, `Exists`, `Delete` |
| Azure services | `services/*` | the resources in Azure | `Get`, `CreateOrUpdate`, `Delete` |
| SKU cache | `services/resourceskus`, `pkg/util/cache/ttllru` | process-wide cache of SKU lists | `GetCache`, `Cache.Get` |
| machine set controller | `actuators/machineset/controller.go` | annotations for scaling from zero | `Reconcile` |
| termination handler | `pkg/termination`, `cmd/termination-handler` | the Terminating condition of the Node | `Run` |
| manager | `cmd/manager/main.go` | number of workers, sync period | start-up |

The controller calls the actuator, the actuator builds a scope (reading the
credentials secret) and a reconciler over it, the reconciler calls the services
one after the other, and the actuator persists the scope with two patches
whatever the reconciler returned. Reconciles of one machine never overlap;
reconciles of different machines do when `--max-concurrent-reconciles` is above
one, and the machine and machine set controllers always run beside each other.
They meet in the availability set of a machine set and in the SKU cache. Users,
the autoscaler and the cloud credential operator change Machines, MachineSets and
the secret under them at any time.

What is hard here: every step is a remote call that can fail, lose its answer
or be the last one before a crash; the object a reconcile starts from may be
outdated; Azure operations complete later; the same error means "retry" or "this
machine is lost" depending on its type in an error chain; and shared resources
are protected by no lock or reference count. The list `hazards` in
`PROJECT.json` gives each of these its line and the properties aimed at it.

What makes each part correct:

* lifecycle: no resource without an object that will remove it; nothing deleted
  before it may be; deletion and creation come to an end; a machine is marked
  Failed only for a reason;
* availability set: not leaked, and not pulled away from under a machine;
* creation: a VM has the settings its spec asks for, its resources stay where
  later calls look for them, and an attempt is given up exactly for a reason that
  waiting does not remove;
* machine set controller: the capacity it publishes becomes right, its patches
  come to an end, and other people's labels survive;
* SKU cache: answers are complete, and lookups recover;
* termination handler: every notice reaches the Node, once, and undoes nothing.

## Modules

| Module | Content |
|---|---|
| `MachineLifecycle` | one Machine from creation to the removal of its finalizer: controller, actuator, scope, reconciler, Azure resources |
| `ResourceOwner` | abstract specification: the finalizer protocol that `MachineLifecycle` implements |
| `MachineLifecycleProofs`, `MachineHistoryProofs` | proofs about `MachineLifecycle`: who owns the resources; what the stored object says about them |
| `ResourceOwnerProofs` | the proof that `MachineLifecycle` implements `ResourceOwner` |
| `MachineCreation` | the requests that the creation of a machine sends, composed of the next three |
| `MachineScope` | `NewMachineScope`: credentials, cloud, placement, tags |
| `InterfaceParameters` | the reads and the request of the network interface, on Azure and Azure Stack Hub |
| `VMParameters` | the derivation of the VM from its spec, on Azure and Azure Stack Hub |
| `MachineCreationProofs` | proofs about `MachineCreation` and the operators it is made of |
| `MachineSetAnnotations`, `MachineSetAnnotationsProofs` | the machine set controller and the users of one machine set |
| `AvailabilitySet`, `AvailabilitySetProofs` | the set shared by the machines of a machine set |
| `SkuCache`, `SkuCacheProofs` | the cache of resource SKUs shared by the controllers |
| `Termination`, `TerminationProofs` | the termination handler of one node |
| `MC*` | instances for TLC |

### MachineLifecycle

One action is one remote call with the local code up to the next one; the
variable `pc` names the next call and `op` the actuator operation it belongs to.
`api` is the stored object, `cache` the informer's copy, `m` the copy of the
running reconcile, `s` what the scope may change. Versions are not numbered:
`cacheFresh` and `fresh` say whether a copy has the latest resourceVersion,
which is all that optimistic locking looks at. `Store` clears them when the
object changes. `Update` calls (adding and removing the finalizer) need a fresh
copy; the merge patches of `updateStatus` and `Persist` do not, and they write
only the fields they changed relative to their own copy.

A provider spec is a record of what the control flow tells apart (`Config`). A
failing call has a class (401, other 4xx, 5xx) and the model follows whether the
class survives in the error chain up to the actuator, because that decides
between retry and Failed. `vm` goes through Creating, Succeeded, Failed and
Deleting by actions of Azure; the disk has a deletion in progress of its own,
the network interface and public IP are deleted synchronously (their services
wait for completion).

`MaxFaults` bounds failed calls, lost answers, crashes and interventions from
outside (a VM deleted or repaired by hand). The field `lag` of a configuration
says whether a reconcile may start from an outdated cache; `NoSecondVM` and
`FailedIsFinal` speak of the configurations in which it may not.

`Reconciler.Delete` has two callers, and `TerminationAllowed` speaks of both.
`actuator.Delete` runs only for a machine that the API server knows as deleted,
drained and free of hooks. `createVirtualMachine` deletes a VM it read as Failed
and asks for none of that: what protects a node is that the machine has no
providerID yet, which holds for current reads only, and a VM somebody repairs
between the read and the deletion is deleted in working order. Both exceptions
are in the formula and both are reached.

Abstractions: the migration gate of the vendored controller is off and machine
validation accepts; the availability set is a point of failure here and has its
own module; the instance-state annotation mirrors `vmState`; changes of messages
are ignored; of the re-serialised provider spec only that
filling it in changes the object (`filled` in `PatchObject`), what is filled in is
MachineCreation's; a VM that exists
has an OS profile, so `Update` finds providerID and addresses; power states are
folded into Succeeded; entering Failed writes two patches, taken as one step;
after a crash the informer lists again and is current; there is one leader;
pre-drain hooks and failing drains are part of the time until `Drain`; network
interface and public IP are not deleted from outside; a broken ssh key, user
data or capacity reservation is one kind of spec ("broken"); the accelerated
networking lookup may fail for any machine.

### MachineCreation

Two models share the creation path. `MachineLifecycle` keeps its control flow
and reduces the spec; `MachineCreation` keeps the spec and reduces the life of
the VM: each read finds it in any state. One action is one step of
`CreateMachine`: the checks of the network part, the public IP, the reads for
the interface, its PUT, the lookups of zones and fault domains, the availability
set, the VM (its PUT, or the deletion of one that failed), the `Update` that
follows and also serves `actuator.Update`, and `Persist`. A PUT of the VM, or the
read of its interface before it, that is not sent is an invalid configuration
whatever its status, as in the code (`SentAnswer`); one that was accepted and then
reports an error keeps its status. An `input` is a machine, its cluster and a state of Azure; `cloud` is
the set of requests Azure carried out, each with the place (subscription and
group) it went to.

The operators take over the functions of the code under their names. Where a
function returns an error or a value, two operators stand for it (`GetTagListFails`
and `getTagList`). An error is reduced to what `actuator.Create` tells apart: a
status in the chain, a `MachineError`, anything else, or a panic. At most one
call of an attempt is answered by an error (`fault`), chosen when the attempt
starts; attempts that fail on their input and attempts that fail on a call are
both reached, and the order of the checks decides which error wins. `OutcomeHasCause`
is about the steps out of `persist` and about every step into `failed`, the ones
that build no scope included.

`Update` looks up the load balancers of the interface of a control plane machine
whose spec names no internal one and records the last private one it finds
(`PopulatedLB`); a lookup that fails is passed over. Which other load balancers
the interface is behind is a choice of the input (`attached`).

Data: a nil pointer or empty string is `Nil`; a tag key is a word and a case; a
resource ID is a sequence of words; names that are cut are sequences of letters;
a load balancer is the families of its frontends, the lengths of its other
lists and whether a frontend is private; the pools an interface joins are a bag,
since nothing looks for duplicates. `api` records of the Machine what later calls
depend on: the placement, the internal load balancer and the providerID. `moved` becomes true when the secret is changed while it
alone knew the place of existing or pending resources; it is a history variable
for the exception of `Reachable`.

### MachineSetAnnotations

A reconcile has three steps, the cached read, the lookup of the size and the
merge patch; `orig` and `new` are the two copies whose difference is sent.
`seen` says whether the informer has received the last change (a change back to
the old value is one too and triggers a reconcile). The order in which
`MergeCommaSeparatedKeyValuePairs` lists a Go map is any order. Memory is in
tenths of a GiB, and rounding to MiB is the code's.

### AvailabilitySet

`MachineLifecycle` reduced to the calls that matter to the set, for a set of
machines. A worker ensures the set, looks for the VM, puts it; deletion removes
the VM (and everything up to the public IP, in one step), looks at the set, and
deletes it when it has no VMs. Azure refuses to delete a set with VMs and to
create a VM in a set that is gone. `workers` is `--max-concurrent-reconciles`,
chosen once.
A provisioned machine whose VM fails later is marked Failed in the code; that
makes no difference to the set and is left out.

### SkuCache

One location and subscription. `Cache` objects are model values; an object that
nobody can reach is reused, which keeps the model finite. `Peek` under the mutex,
`Touch` outside it, `Add`, the test of `data`, the listing, the assignment and the
search are separate steps. The age of an entry is counted up to `TTL + 1`. The order of
the accesses to `data` is modelled; what a torn read would return is not, the
race itself is the property `DataSynchronized`.

### Termination

The handler polls, reads the Node, updates its status. It has no retry: every
error ends the process and its pod is restarted, and so does its success.
`since` tells apart only the transition times of neighbouring runs.

## Runs

| Run | Bounds | Shows |
|---|---|---|
| `lifecycle_safety` | 2 faults, 8 provider specs with lagging reads and without; 2.9 million states | types, `NoOrphan`, `TeardownOrder`, `TerminationAllowed`, `ProviderIDFirst`, `OnlyFaultsFail`; the lifecycle implements `ResourceOwner`; without lag `NoSecondVM` and `FailedIsFinal` (both fail with it) |
| `lifecycle_liveness` | 1 fault, stale reads; 470 000 states | `DeletionCompletes`, `CreationSettles` |
| `failed_vm_replaced` | 1 fault | `FailedVMIsReplaced` violated, see findings |
| `credential_errors` | 1 fault | `CredentialErrorsRetried` violated |
| `invalid_machine_deletion` | no fault, bad specs | `InvalidMachineDeletable` violated |
| `creation_requests` | 1452 inputs; up to 2 faults and 2 changes of the secret where they matter; 1.5 million states | `Reachable`, `SettingsHonoured`, `DisksDistinct`, `PoolsJoined`, `SetsApart`, `TagsSafe`, `OutcomeHasCause`, `InternalLBRecorded` |
| `machine_set` | 3 sizes, 3 label lists, 2 edits, 1 fault | `CapacityConverges`, `ControllerRests`, `LabelsPreserved` |
| `shared_set` | 3 machines, 1 or 3 workers, 2 faults | `NoLeftoverSet` for any number of workers, `NoCasualty` for one |
| `sku_lookups` | 2 workers, 1 failed listing, 1 rotation | `NoFalseAbsence`, `RecoversUnlessRotated` |
| `sku_rotation` | 1 rotation | `RetryRecovers` violated |
| `sku_race` | no fault | `DataSynchronized` violated |
| `termination` | 3 faults, 5 initial nodes | `KeyedByType`, `OnlyTerminatingChanges`, `MarkedOnce`, `NoticeReachesNode` |

The inductive invariants of the proofs (`IInv`, `History`, `SetIInv`, `SkuIInv`,
`Placed`, ...) were checked with TLC on the same instances before they were
proved; since they are proved for all of them, no run repeats that.

Why the bounds are enough: two faults cover a lost answer followed by a crash or
a second failure of the retry, which is where recoveries meet; a third only
repeats them. The inputs of `creation_requests` are a
base machine with one group of options varied at a time and in full within the
group (security settings, disks, load balancers, placement and secrets, tags,
names, reservation IDs, roles, faults): the functions of different groups share no
variable, so that products across groups add states and no cases. Names are cut
at `NameLimit = PublicIPLimit = 6` letters instead of 80 and 64, with names
below, at and above it; the limit of 45 tags is the code's. Two edits of a
machine set allow a change and its reversal within one reconcile. Three machines let one create while two delete. Two users and
three caches let two workers miss at the same time and a third cache replace
theirs. A TTL of one tick distinguishes touched, alive and expired entries. The
theorems remove the bounds for the properties they cover.

Deadlock is not checked for the lifecycle, the creation, the machine set and the
availability set: a machine that is gone, a failed one that nobody deletes, and
a machine set whose annotations are right really are at rest. The others never
stop.

### Fairness

`MachineLifecycle`: weak fairness of the controller's steps (errors are requeued
and every object is reconciled again each sync period of ten minutes), of the
informer, the drain controller, the owner of a hook, the node link and Azure's
own operations. Faults and the user are not fair. `MachineSetAnnotations`:
weak fairness of the controller's steps and of the informer, and strong fairness
of the step in which the merged labels come out in the order they already have:
Go draws the order of a map anew for each loop, so that the same order comes up
again and again. Without it `ControllerRests` fails. `SkuCache`: weak fairness of
each worker's lookups. `Termination`: weak fairness of the handler (its pod is
restarted, endpoint and API server answer), strong fairness of the status
update, since the kubelet writes the Node every few seconds and does not get
between every read and the update that follows it within milliseconds.

## Findings

1. **A VM that fails provisioning is not replaced** (`failed_vm_replaced`).
   Creation runs `Update` as soon as the PUT is accepted and stores the
   providerID. When provisioning fails later, `actuator.Exists` answers false
   without an error and the machine is marked Failed because of its providerID;
   the branch that deletes and recreates the VM is not reached for it.
2. **A 401 on the PUT of the VM is terminal** (`credential_errors`), although
   `actuator.Create` means to retry it.
3. **A machine that never was valid cannot be deleted**
   (`invalid_machine_deletion`): a scope that cannot be built makes `actuator.Delete`
   return a `DeleteMachine` error (and `Exists` fails on it too), any other failure a
   `RequeueAfterError`. Neither is the invalid configuration for which the controller
   would have let the machine go.
4. **A replaced secret does not reach the SKU cache** (`sku_rotation`): the
   cached object keeps the authorizer it was created with.
5. **`Cache.data` is shared without synchronization** (`sku_race`).

Also shown, but documented nowhere as a promise. The properties of creation
state these exceptions, and each of them is reached in the run:

* the loop over application security groups tests the wrong error variable
  (`networkinterfaces.go:263`): a missing group is retried for ever, and a server
  error can send Azure a reference without an ID, whose refusal is terminal
  (`OutcomeHasCause`);
* a NAT rule index that is negative or past the load balancer's rules panics after the public IP was
  created (`networkinterfaces.go:195`);
* a malformed reservation ID, an undecodable SSH key, missing user data and a
  location without an aligned SKU for availability sets are retried for ever
  instead of being reported as an invalid configuration (`Retried` in
  `OutcomeHasCause`); a machine without a cluster label does not get that far, the
  controller's `validateMachine` stops it;
* a PUT of the VM that is not sent, and any read that fails while `actuator.Create`
  builds its scope, make a machine Failed whatever the status (`OutcomeHasCause`;
  the 401 is finding 2);
* a failed lookup of the interface's load balancers is only logged, and the internal
  load balancer stays unrecorded until an `Update` finds it (`InternalLBRecorded`);
* a secret that names another group before the first `Persist`, or another
  subscription at any time, leaves the resources that exist where no later call
  looks (`moved` in `Reachable`);
* the type ConfidentialVM without an encryption type of the OS disk, TrustedLaunch
  with both settings disabled, and the plan of an incomplete image are dropped
  without an error, and on Azure Stack Hub every setting its API lacks (`Dropped`
  in `SettingsHonoured`);
* a size on a later page of the SKU list counts as one without zones
  (`GetZones`); on Azure Stack Hub locations stand in for zones, so that a size
  on the first page that is listed for the machine's location never gets an
  availability set, and one that is not listed for it counts as without zones;
* tag keys that differ in case only are found within the provider spec, not
  between it and the tags of the Infrastructure object (`TagsSafe`).

The machine set controller loses a change of the labels annotation that falls
between its read and its patch (`LabelsPreserved`); keeps the annotations of the
size before when the new one is unknown, and the architecture label it wrote
itself when the new size has another (`CapacityConverges`). With more than one worker a
creating machine can become Failed because another machine's deletion removed
the shared set in between (`NoCasualty` needs `workers = 1`, the default). And
the time to live of SKU data is no maximum, as `ttllru.go:28` has it: each hit
extends it, so a list in use is never refreshed.

## Proofs

Every invariant and every safety action property of the passing runs is also a
theorem, for all values of the constants that satisfy the assumptions below. A
proof has one lemma per action or group of actions, and the lemmas about the
operators come before them.

### Lifecycle

`MachineLifecycleProofs`: `TypeCorrect`, `InvariantHolds`, `NoOrphanHolds`,
`TeardownOrderHolds`. `NoOrphan` alone is not inductive: a reconcile with an
outdated copy could acquire a resource after the finalizer went. `IInv` adds that
copies marked fresh equal the stored object (`CopiesCurrent`), that an outdated
informer copy never shows an unprotected machine as protected (`CacheBehind`),
that a reconcile past its first calls works for a protected object and that,
once one deletes, no copy shows the machine alive (`Stage`), and that deletion
reports success only for an empty cloud (`TearDown`).

`MachineHistoryProofs` proves a second invariant, `History`, on top of `IInv`:

* `Permitted`: from the check in `Reconcile` until the finalizer is removed, the
  *stored* machine is deleted, drained and free of hooks, although the check
  looked at a copy. It gives the first half of `TerminationAllowedHolds`.
* `Replacement`: a VM is Failed, or a creation deletes one, only after a fault; with
  current reads such a creation runs for a machine without a providerID; and a
  machine has a node only after its providerID. It gives the second half.
* `Identified`: addresses and a successful creation come after the providerID in
  the stored object, in every copy and in the scope. A merge patch leaves out
  what equals the copy it is computed from, so it matters that a providerID in a
  copy is still stored, and that the object patch precedes the status patch. It
  gives `ProviderIDFirstHolds`.
* `Blameless`, as long as nothing failed and the spec is valid: a reconcile that
  is past its first call either finds a VM alive or has a copy without a
  providerID, and a VM is gone only when no copy is alive any more. It gives
  `OnlyFaultsFailHolds`. `FaultsBound` ties "nothing failed" to the counter.
* `Informed`, with current reads: the copy of a reconcile has the stored phase
  and, until the end of a creation, the stored providerID. It gives
  `NoSecondVMHolds` and `FailedIsFinalHolds`.

`ResourceOwnerProofs` shows the refinement step by step
(`ImplementsResourceOwnerHolds`): no step both adds to the cloud and removes from
it (`CloudStep`), three steps change the ownership of the object and leave the
cloud alone (`ObjectStep`), and `IInv` supplies the guards of the protocol.

### Availability set, SKU cache, termination handler

`AvailabilitySetProofs`: `NoLeftoverSetHolds` for any number of machines and
workers. The invariant names the reason: an existing set has a machine that has
not taken its last look at it. A step affects one machine (`StepOthers`), keeps
that machine's part (`StepOwn`), and lets it take its last look only when the set
is gone or another VM is attached, whose machine then is the guard (`StepLook`).
`NoCasualtyHolds` is for one worker and any number of machines: reconciles do not
overlap (`Alone`), so that the set stays between `EnsureSet` and `PutVM`, and
empty between `GetSet` and `DeleteSet` (`Undisturbed`).

`SkuCacheProofs`: `NoFalseAbsenceHolds` for any number of workers: no list is
incomplete, and a Cache in use is not given away.

`TerminationProofs`: `KeyedByTypeHolds`, `OnlyTerminatingChangesHolds`,
`MarkedOnceHolds`, for condition lists of any length. The invariant says that a
copy with the current version equals the Node and that the Node has one condition
of each type. The second part came out of the proof: on a list with two
Terminating conditions, only one of which is a mark, the handler would not keep
its promise. The API server treats the list as a map keyed by type, so the
initial lists are assumed to be keyed, and `KeyedByType` shows that the handler
keeps them so.

### Creation

`MachineCreationProofs` has four groups of invariants, each for every set of inputs that
satisfies `InputsAssumption`, for names, tag lists, disk lists and resource IDs of
any length and for any number of faults and changes of the secret.

* `Placed`, for `ReachableHolds`: a copy that records the group is never ahead of
  the stored machine, a `Persist` has recorded a group if there was one (`Recorded`), a scope built from a copy with a group works in that
  group, and unless the secret moved the machine, the stored object, both copies,
  the scope and every resource agree on one place.
* `Typed`, `Prepared` and `RequestsFit` (`CIInv`), for the requests. `Sent` says
  what a request of each kind is in the state it is sent from; nothing else
  reaches Azure (`RequestsGrow`), what is sent fits (`SentFits`, from one lemma per
  property about the operators: `SettingsSent`, `DisksSent`, `PoolsSent`, `NameSent`,
  `SetSent`, `TagsSent`), and fitting depends on the input alone, so it lasts
  (`FittingLasts`). `Prepared` is what earlier steps of an attempt established and
  later ones rely on: the tags of the scope, load balancers that were found, the
  name of the set. The pools an interface joins depend on the load balancer in the
  scope, so that `SpecLB` is needed: a machine has the load balancer of its spec
  until it has a providerID, and `CreateMachine` runs only for one that has none in
  the copy. From it `SettingsHonouredHolds`, `DisksDistinctHolds`,
  `PoolsJoinedHolds`, `SetsApartHolds`, `TagsSafeHolds`, and
  `CreationTypeCorrect` from `Typed`.
* `Explained`, for `OutcomeHasCauseHolds`: an answer that is to be persisted has its
  cause, and what the place of an attempt tells about the errors that can no longer
  occur. A size without acceleration was refused before the reads, a missing
  application security group before the PUT of the interface, and `Update` runs
  only for a VM that was put or seen. The steps into `failed` are then gone through
  one by one.
* `Balanced`, for `InternalLBRecordedHolds`: the stored machine, both copies and the
  scope have the load balancer of the spec, or a private one that the interface is
  behind if the spec names none, and a successful `Update` leaves one in the scope
  wherever one can be found.

`ParserIsExact`: `parseAzureResourceID`, which walks over an ID, accepts it exactly
if it can be cut into blocks of its grammar (`WellFormedID`), for IDs of any
length. The walk is a recursive function; that it exists
(`ParserExists`) and what it computes (`CutIsAccepted` and its converse) are shown
by a least counterexample (`LeastNatural`, from the well-foundedness of `<`),
which needs no induction rule with an operator parameter.

What the proofs found, and the model now says:

* `SetsApart` needs machine set names without an underscore, the separator of
  `getAvailabilitySetName`. Names of MachineSets are DNS names, so this is assumed;
  a machine-set label put on a Machine by hand need not be one.
* Whether a change of the secret moves a machine depends on the copies a scope may
  yet be built from (`Unrecorded`): a spec that names its group is safe from the
  start, any other once a `Persist` had a group to record. Without a group in the
  secret and in the Infrastructure object (`NoGroup`) there is none, and `Persist`
  protects nothing.

### Machine sets

`MachineSetAnnotationsProofs`: `AnnotationsTypeCorrect` and `LabelsPreservedHolds`, for
all sizes, label lists of any length and any number of edits, faults and crashes.
The invariant `AInv` says that the copies are well-formed, that the lookup works
on the copy that was read, and that what is about to be patched keeps the pairs
of that copy, whatever order the merged labels are written in.

### Assumptions

| Name | Says |
|---|---|
| `ConstantsAssumption` | the specs are of type `Config`; `MaxFaults` is a natural number |
| `SetAssumption` | finitely many machines, at least one worker |
| `SkuAssumption` | finitely many users and more Cache objects than users, which memory provides |
| `TerminationAssumption` | the initial conditions of a Node are keyed by type |
| `InputsAssumption` | specs, placement, labels and load balancers have the types of their Go structs; names of machine sets have no underscore |
| `LimitsAssumption` | a name limit of at least four letters |
| `SizesAssumption`, `LabelsAssumption`, `BoundsAssumption` | memory is a natural number or unknown; labels are sequences of strings; bounds are natural numbers |
| `NilAssumption`, `ProfileAssumption`, `LiteralsAssumption` | the value for nil is none of the others; string literals are strings, which the provers have to be told |

### Only model-checked

`DeletionCompletes`, `CreationSettles`, `CapacityConverges`, `ControllerRests`,
`RecoversUnlessRotated` and `NoticeReachesNode`: they are liveness under fairness,
and fairness and ENABLED are out of the prover's reach. The five violated
properties of the findings are refuted by TLC.

## Not modelled

Event texts, metrics and logging. Code that no path of the program calls: the
`CreateOrUpdate` and `Delete` of subnets, security groups, load balancers and
application security groups; route tables, groups and VM extensions; `GetZones` and `GetZonesWithVMSize` of the SKU cache;
`HasCapabilityWithCapacity` and `HasLocationCapability`; the static IP address of
a network interface. Decoders and mocks, which convert or are generated. Start-up
code other than the number of workers. Cordoning and evicting pods in the drain
controller, which is vendored and talks to no part of this repository. The age of
SKU data (see above) and an instance metadata endpoint that never answers: both
are what the code does, and no property beyond it was found worth stating.

## Plan

Done: the models of all parts that decide something, and proofs of every safety
property the runs check. What is left:

1. Safety facts behind the liveness properties that TLC checks: that a patch of
   the machine set controller writes the capacity of the size it looked up, and
   that a deletion never goes back a step unless something failed.
2. Lemmas about operators that are used and not yet characterised for every
   input: the public IP name of a machine, and the merged labels as a function of
   the two lists.
