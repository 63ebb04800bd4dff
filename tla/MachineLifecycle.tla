--------------------------- MODULE MachineLifecycle ---------------------------
(***************************************************************************)
(* One Machine object, from its creation to the removal of its finalizer:  *)
(* the machine controller (vendored machine-api-operator), the Azure       *)
(* actuator it calls, the reconciler behind the actuator, the persistence  *)
(* of the machine scope, and the Azure resources owned by the machine.     *)
(*                                                                         *)
(* A reconcile is a sequence of remote calls, each of which may fail, may  *)
(* lose its answer, and may be the last one of a crashed process.  One     *)
(* action is one remote call with the local code that follows it.  The     *)
(* label pc names the next call.  Between two calls the user, the drain    *)
(* controller, the node link controller and Azure take their own steps.    *)
(***************************************************************************)
EXTENDS Naturals

CONSTANTS
  MaxFaults,    \* how many failed calls, crashes and outside interventions
  Configs       \* the machines and clusters to look at

(***************************************************************************)
(* A machine and its cluster, reduced to what the control flow tells apart *)
(* of the provider spec (the first five fields) and around it:             *)
(*   scope     NewMachineScope succeeds on it;                             *)
(*   vnet      the virtual network is set;                                 *)
(*   nicSpec   "invalid" when the subnet is missing, or the VM size does   *)
(*             not have the accelerated networking that is asked for;      *)
(*   publicIP  "no", "yes", or "toolong" when the generated name of the    *)
(*             public IP exceeds the limit of Azure;                       *)
(*   vmSpec    "ok"; "invalid" when deriving the VM parameters returns an  *)
(*             InvalidMachineConfiguration error; "broken" when it returns *)
(*             another error (ssh key, user data, capacity reservation);   *)
(*   hook      the machine carries a pre-terminate lifecycle hook;         *)
(*   lag       a reconcile may start from an outdated informer cache.      *)
(***************************************************************************)
Config == [scope : BOOLEAN, vnet : BOOLEAN, nicSpec : {"ok", "invalid"},
           publicIP : {"no", "yes", "toolong"}, vmSpec : {"ok", "invalid", "broken"},
           hook : BOOLEAN, lag : BOOLEAN]

ASSUME ConstantsAssumption ==
  /\ MaxFaults \in Nat
  /\ Configs \subseteq Config

VARIABLES
  cfg,          \* the machine's provider spec and what surrounds it
  api,          \* the Machine stored by the API server
  cache,        \* the copy held by the informer of the manager
  cacheFresh,   \* the copy has the latest resourceVersion
  pc,           \* the next call of the reconcile in progress, or "idle"
  op,           \* the actuator operation in progress
  m,            \* the reconcile's own copy of the Machine
  fresh,        \* that copy has the latest resourceVersion
  s,            \* the fields the machine scope may change
  res,          \* what the reconciler returned to the actuator
  code,         \* status class of the Azure call that failed, if one did
  vm, disk, nic, pip,  \* the resources of the machine in Azure
  faults        \* what is left of MaxFaults

kube  == <<api, cache, cacheFresh, fresh>>
cloud == <<vm, disk, nic, pip>>
vars  == <<cfg, api, cache, cacheFresh, pc, op, m, fresh, s, res, code,
           vm, disk, nic, pip, faults>>

-----------------------------------------------------------------------------
Phases   == {"", "Provisioning", "Provisioned", "Running", "Failed", "Deleting"}
VMStates == {"absent", "Creating", "Succeeded", "Failed", "Deleting"}
\* status.providerStatus.vmState, mirrored in the instance-state annotation
States   == (VMStates \ {"absent"}) \cup {"none", "Unknown"}
Statuses == {"none", "True", "False"}
Codes    == {"401", "4xx", "5xx"}
Ops      == {"none", "create", "update", "delete"}
Results  == {"ok", "requeue", "terminal"}

(***************************************************************************)
(* A stored Machine.  del: deletionTimestamp; fin: the machine finalizer;  *)
(* hook: spec.lifecycleHooks.preTerminate; pid: spec.providerID; addr:     *)
(* status.addresses; created, vmState: the provider status; node:          *)
(* status.nodeRef.  lc, inst, drained are the entries of the list          *)
(* status.conditions: Terminable, InstanceExists and Drained.              *)
(***************************************************************************)
Machine == [ex : BOOLEAN, del : BOOLEAN, fin : BOOLEAN, hook : BOOLEAN,
            phase : Phases, pid : BOOLEAN, addr : BOOLEAN,
            created : Statuses, vmState : States, node : BOOLEAN,
            lc : Statuses, inst : Statuses \cup {"Unknown"}, drained : BOOLEAN]

Scope == [pid : BOOLEAN, addr : BOOLEAN, created : Statuses, vmState : States]

Blank(exists, hook) ==
  [ex |-> exists, del |-> FALSE, fin |-> FALSE, hook |-> hook, phase |-> "",
   pid |-> FALSE, addr |-> FALSE, created |-> "none", vmState |-> "none",
   node |-> FALSE, lc |-> "none", inst |-> "none", drained |-> FALSE]

Gone    == Blank(FALSE, FALSE)
NoScope == [pid |-> FALSE, addr |-> FALSE, created |-> "none", vmState |-> "none"]

ScopeOf(a) == [pid |-> a.pid, addr |-> a.addr, created |-> a.created,
               vmState |-> a.vmState]

\* The calls of a reconcile.
Labels == {"idle", "addFinalizer", "exists", "existsErr", "setProvisioning",
           "setFailed", "crScope", "crNet", "crPIP", "crNIC", "crAS", "crGetVM", "crPutVM",
           "updScope", "update", "updErr", "updStatus", "patchObject", "patchStatus",
           "delStatus", "delScope", "delVM", "delDisk", "delNIC", "delPIP", "delAS",
           "delExists", "delNode", "removeFin"}

Init ==
  /\ cfg \in Configs
  /\ api = Blank(TRUE, cfg.hook)
  /\ cache = api /\ cacheFresh = TRUE
  /\ pc = "idle" /\ op = "none" /\ m = Gone /\ fresh = FALSE
  /\ s = NoScope /\ res = "ok" /\ code = "none"
  /\ vm = "absent" /\ disk = "absent" /\ nic = "absent" /\ pip = "absent"
  /\ faults = MaxFaults

-----------------------------------------------------------------------------
(***************************************************************************)
(* Shared pieces of the steps.                                             *)
(***************************************************************************)
Fault == faults > 0 /\ faults' = faults - 1

\* The API server stores a; a changed object has a new resourceVersion.
Store(a) == /\ api' = a
            /\ cacheFresh' = (cacheFresh /\ a = api)
            /\ fresh' = (fresh /\ a = api)

Goto(label) == pc' = label /\ UNCHANGED <<op, m, s, res, code>>

\* Reconcile returns: its local variables are gone.
Return == /\ pc' = "idle" /\ op' = "none" /\ m' = Gone /\ s' = NoScope
          /\ res' = "ok" /\ code' = "none"

\* Mutant: the address alone tells whether a machine was provisioned.
OnlyAddressCounts(a) == a.addr

machineIsProvisioned(a) == a.addr \/ a.pid

(***************************************************************************)
(* actuator.Create: a 4xx answer found in the error chain is terminal,     *)
(* except 401; everything else is retried after 20 seconds.                *)
(***************************************************************************)
Classify(c) == IF c = "4xx" THEN "terminal" ELSE "requeue"

(***************************************************************************)
(* The reconciler returns r to the actuator, which persists the scope sc   *)
(* in every case.  Reconciler.Create records its failure in the            *)
(* MachineCreated condition; actuator.Delete and actuator.Update answer    *)
(* every failure with a RequeueAfterError.                                 *)
(***************************************************************************)
ReconcilerReturns(sc, r, c) ==
  /\ res'  = IF r = "terminal" /\ op # "create" THEN "requeue" ELSE r
  /\ s'    = IF r # "ok" /\ op = "create" THEN [sc EXCEPT !.created = "False"] ELSE sc
  /\ code' = c
  /\ pc'   = "patchObject"
  /\ UNCHANGED <<op, m>>

\* An Azure call fails with a status that keeps its type in the error chain.
AzureFails == Fault /\ \E c \in Codes : ReconcilerReturns(s, Classify(c), c)

-----------------------------------------------------------------------------
(***************************************************************************)
(* Reconcile: entry, finalizer.                                            *)
(***************************************************************************)
\* Mutant: the finalizer is not added before anything else.
FirstCallUnguarded(a) == IF a.del THEN "delStatus" ELSE "exists"

FirstCall(a) ==
  IF ~a.del /\ ~a.fin THEN "addFinalizer" ELSE IF a.del THEN "delStatus" ELSE "exists"

\* Mutant: a failed machine is reconciled on.
StartReconcileFailed ==
  /\ pc = "idle"
  /\ cache.ex
  /\ cfg.lag \/ cacheFresh
  /\ pc' = FirstCall(cache)
  /\ m' = cache /\ fresh' = cacheFresh
  /\ UNCHANGED <<cfg, api, cache, cacheFresh, op, s, res, code, cloud, faults>>

StartReconcile ==
  /\ pc = "idle"
  /\ cache.ex
  /\ cfg.lag \/ cacheFresh
  /\ cache.del \/ ~cache.fin \/ cache.phase # "Failed"
  /\ pc' = FirstCall(cache)
  /\ m' = cache /\ fresh' = cacheFresh
  /\ UNCHANGED <<cfg, api, cache, cacheFresh, op, s, res, code, cloud, faults>>

\* Mutant: the finalizer is written without looking at the resourceVersion.
AddFinalizerUnconditionally ==
  /\ pc = "addFinalizer"
  /\ api.ex
  /\ Store([m EXCEPT !.fin = TRUE])
  /\ Return
  /\ UNCHANGED <<cfg, cache, cloud, faults>>

\* Client.Update carries the resourceVersion of m: it needs a fresh copy.
AddFinalizer ==
  /\ pc = "addFinalizer"
  /\ api.ex /\ fresh
  /\ Store([m EXCEPT !.fin = TRUE])
  /\ Return
  /\ UNCHANGED <<cfg, cache, cloud, faults>>

(***************************************************************************)
(* updateStatus: a merge patch of the status computed from the local copy. *)
(* A field is sent only if it differs from the local copy, and the list of *)
(* conditions is sent whole.  Entering Failed, the local copy is refreshed *)
(* by the annotation patch first, and a vmState that is set is overridden. *)
(***************************************************************************)
Patched(phase, inst) ==
  LET lc   == IF m.hook THEN "False" ELSE "True"
      same == m.lc = lc /\ m.inst = inst
  IN [api EXCEPT
        !.phase   = IF m.phase = phase /\ phase # "Failed" THEN @ ELSE phase,
        !.vmState = IF phase = "Failed" /\ @ # "none" THEN "Unknown" ELSE @,
        !.lc      = IF same THEN @ ELSE lc,
        !.inst    = IF same THEN @ ELSE inst,
        !.drained = IF same THEN @ ELSE m.drained]

updateStatus(phase, inst) ==
  /\ api.ex
  /\ api' = Patched(phase, inst)
  /\ cacheFresh' = (cacheFresh /\ api' = api)
  /\ fresh' = TRUE
  /\ UNCHANGED <<cfg, cache, cloud, faults>>

\* A call to the API server that ends the reconcile when it fails.
KubeCalls == {"addFinalizer", "existsErr", "setProvisioning", "setFailed", "updErr",
              "updStatus", "delStatus", "delNode", "removeFin"}

\* Not found, a resourceVersion conflict, or an API server that does not answer.
KubeCallFails ==
  /\ pc \in KubeCalls
  /\ \/ /\ ~api.ex \/ (pc \in {"addFinalizer", "removeFin"} /\ ~fresh)
        /\ UNCHANGED faults
     \/ Fault
  /\ Return
  /\ UNCHANGED <<cfg, kube, cloud>>

-----------------------------------------------------------------------------
(***************************************************************************)
(* Reconcile of a machine that is not being deleted: actuator.Exists, then *)
(* update, failure of a provisioned machine, or create.                    *)
(***************************************************************************)

\* NewMachineScope: fails on a bad provider spec, or for want of the
\* infrastructure object, the credentials secret or a token.
NewScopeFails == (~cfg.scope /\ UNCHANGED faults) \/ Fault

ExistsFails ==
  /\ pc = "exists"
  /\ NewScopeFails \/ (vm = "Deleting" /\ UNCHANGED faults)
  /\ Goto("existsErr")
  /\ UNCHANGED <<cfg, kube, cloud>>

ExistsTrue == cfg.scope /\ vm \in {"Creating", "Succeeded"}

\* Mutant: only a VM that is ready exists.
ExistsFalseUnlessReady == cfg.scope /\ vm \in {"absent", "Failed", "Creating"}

\* A VM whose provisioning failed counts as no VM (UnexpectedObjectError).
ExistsFalse == cfg.scope /\ vm \in {"absent", "Failed"}

InstanceFound ==
  /\ pc = "exists" /\ ExistsTrue
  /\ Goto("updScope")
  /\ UNCHANGED <<cfg, kube, cloud, faults>>

InstanceMissing ==
  /\ pc = "exists" /\ ExistsFalse
  /\ Goto(IF machineIsProvisioned(m) THEN "setFailed"
          ELSE IF m.phase = "" THEN "setProvisioning" ELSE "crScope")
  /\ UNCHANGED <<cfg, kube, cloud, faults>>

\* The reconciles that end in updateStatus.
StatusExistsErr ==
  /\ pc = "existsErr" /\ updateStatus(m.phase, "Unknown") /\ Return

StatusProvisioning ==
  /\ pc = "setProvisioning" /\ updateStatus("Provisioning", "False") /\ Return

StatusFailed ==
  /\ pc = "setFailed" /\ updateStatus("Failed", "False") /\ Return

StatusUpdateErr ==
  /\ pc = "updErr" /\ updateStatus(m.phase, m.inst) /\ Return

\* After actuator.Update: the decision is taken on the copy read before it.
StatusUpdated ==
  /\ pc = "updStatus"
  /\ updateStatus(IF ~machineIsProvisioned(m) THEN m.phase
                  ELSE IF ~m.node THEN "Provisioned" ELSE "Running", "True")
  /\ Return

-----------------------------------------------------------------------------
(***************************************************************************)
(* actuator.Create and Reconciler.CreateMachine.                           *)
(***************************************************************************)

\* A scope that cannot be built is an InvalidMachineConfiguration here.
CreateScopeFails ==
  /\ pc = "crScope" /\ NewScopeFails
  /\ Goto("setFailed")
  /\ UNCHANGED <<cfg, kube, cloud>>

CreateScope ==
  /\ pc = "crScope" /\ cfg.scope
  /\ op' = "create" /\ pc' = "crNet" /\ s' = ScopeOf(m)
  /\ UNCHANGED <<cfg, kube, m, res, code, cloud, faults>>

\* createNetworkInterface, up to the first call that creates something.
NetworkSpecInvalid == ~cfg.vnet \/ cfg.nicSpec = "invalid" \/ cfg.publicIP = "toolong"

CreateNetworkSpec ==
  /\ pc = "crNet"
  /\ IF NetworkSpecInvalid THEN ReconcilerReturns(s, "terminal", "none")
     ELSE Goto(IF cfg.publicIP = "yes" THEN "crPIP" ELSE "crNIC")
  /\ UNCHANGED <<cfg, kube, cloud, faults>>

\* The VM size cannot be looked up, which accelerated networking asks for.
CreateLookupFails ==
  /\ pc = "crNet" /\ cfg.vnet /\ AzureFails
  /\ UNCHANGED <<cfg, kube, cloud>>

CreatePublicIP ==
  /\ pc = "crPIP"
  /\ pip' = "present"
  /\ Goto("crNIC")
  /\ UNCHANGED <<cfg, kube, vm, disk, nic, faults>>

\* The request fails, or is carried out although waiting for it fails.
CreatePublicIPFails ==
  /\ pc = "crPIP" /\ AzureFails
  /\ pip' \in {pip, "present"}
  /\ UNCHANGED <<cfg, kube, vm, disk, nic>>

CreateNIC ==
  /\ pc = "crNIC"
  /\ nic' = "present"
  /\ Goto("crAS")
  /\ UNCHANGED <<cfg, kube, vm, disk, pip, faults>>

CreateNICFails ==
  /\ pc = "crNIC" /\ AzureFails
  /\ nic' \in {nic, "present"}
  /\ UNCHANGED <<cfg, kube, vm, disk, pip>>

\* getOrCreateAvailabilitySet; the set itself is shared between machines.
CreateAvailabilitySet ==
  /\ pc = "crAS"
  /\ \/ Goto("crGetVM") /\ UNCHANGED faults
     \/ AzureFails
  /\ UNCHANGED <<cfg, kube, cloud>>

(***************************************************************************)
(* createVirtualMachine.  A failed VM is deleted with all that belongs to  *)
(* it (Reconciler.Delete); a VM that is not ready is waited for.           *)
(***************************************************************************)
GetVM ==
  /\ pc = "crGetVM"
  /\ \/ vm = "absent" /\ Goto("crPutVM") /\ UNCHANGED faults
     \/ /\ vm = "Failed"
        /\ pc' = "delVM" /\ s' = [s EXCEPT !.vmState = "Deleting"]
        /\ UNCHANGED <<op, m, res, code, faults>>
     \/ /\ vm \in {"Creating", "Deleting"}
        /\ ReconcilerReturns([s EXCEPT !.vmState = vm], "requeue", "none")
        /\ UNCHANGED faults
     \/ /\ vm = "Succeeded"
        /\ pc' = "update" /\ s' = [s EXCEPT !.vmState = vm]
        /\ UNCHANGED <<op, m, res, code, faults>>
     \/ AzureFails
  /\ UNCHANGED <<cfg, kube, cloud>>

\* The parameters of the VM cannot be derived from the provider spec.
PutVMRejected ==
  /\ pc = "crPutVM"
  /\ \/ cfg.vmSpec = "invalid" /\ ReconcilerReturns(s, "terminal", "none")
     \/ cfg.vmSpec = "broken" /\ ReconcilerReturns(s, "requeue", "none")
  /\ UNCHANGED <<cfg, kube, cloud, faults>>

\* The PUT is accepted; its asynchronous result is not waited for.
PutVM ==
  /\ pc = "crPutVM" /\ cfg.vmSpec = "ok"
  /\ vm' = "Creating" /\ disk' = "present"
  /\ Goto("update")
  /\ UNCHANGED <<cfg, kube, nic, pip, faults>>

(***************************************************************************)
(* The PUT fails.  Whatever the status, autorest labels the error "Failure *)
(* sending request", and the code turns that into a configuration error.   *)
(* Reading the network interface before the PUT, and polling the accepted  *)
(* request, fail like any other call.  The VM is created although the call *)
(* fails when the answer is lost or the poll fails.                        *)
(***************************************************************************)
PutFailureKind(c) == "terminal"

PutVMRefused ==
  /\ pc = "crPutVM" /\ cfg.vmSpec = "ok" /\ Fault
  /\ \E c \in Codes : \E kind \in {Classify(c), PutFailureKind(c)} :
        ReconcilerReturns(s, kind, c)
  /\ UNCHANGED <<cfg, kube, cloud>>

PutVMAnswerLost ==
  /\ pc = "crPutVM" /\ cfg.vmSpec = "ok" /\ Fault
  /\ \/ \E c \in Codes : ReconcilerReturns(s, Classify(c), c)
     \/ ReconcilerReturns(s, PutFailureKind("5xx"), "5xx")
  /\ vm' = "Creating" /\ disk' = "present"
  /\ UNCHANGED <<cfg, kube, nic, pip>>

-----------------------------------------------------------------------------
(***************************************************************************)
(* Reconciler.Update, called by actuator.Update and at the end of create.  *)
(***************************************************************************)
UpdateScopeFails ==
  /\ pc = "updScope" /\ NewScopeFails
  /\ Goto("updErr")
  /\ UNCHANGED <<cfg, kube, cloud>>

UpdateScope ==
  /\ pc = "updScope" /\ cfg.scope
  /\ op' = "update" /\ pc' = "update" /\ s' = ScopeOf(m)
  /\ UNCHANGED <<cfg, kube, m, res, code, cloud, faults>>

\* A failed read of the VM loses its type (%+v): it is never terminal.
UpdateFails ==
  /\ pc = "update"
  /\ \/ vm = "absent" /\ UNCHANGED faults /\ ReconcilerReturns(s, "requeue", "4xx")
     \/ Fault /\ \E c \in Codes : ReconcilerReturns(s, "requeue", c)
     \/ ~cfg.vnet /\ UNCHANGED faults /\ ReconcilerReturns(s, "requeue", "none")
  /\ UNCHANGED <<cfg, kube, cloud>>

\* Mutant: an answer without a VM is not recognised.
UpdateUnchecked ==
  /\ pc = "update" /\ cfg.vnet
  /\ ReconcilerReturns([pid |-> TRUE, addr |-> TRUE, created |-> "True", vmState |-> vm],
                       "ok", "none")
  /\ UNCHANGED <<cfg, kube, cloud, faults>>

\* Mutant: the addresses of the network interface are not recorded.
UpdateWithoutAddresses ==
  /\ pc = "update" /\ vm # "absent" /\ cfg.vnet
  /\ ReconcilerReturns([pid |-> TRUE, addr |-> s.addr, created |-> "True", vmState |-> vm],
                       "ok", "none")
  /\ UNCHANGED <<cfg, kube, cloud, faults>>

\* The reads of interfaces, public IPs and load balancers are passed over when
\* they fail.  The load balancer that is recorded is in MachineCreation.
Update ==
  /\ pc = "update" /\ vm # "absent" /\ cfg.vnet
  /\ ReconcilerReturns([pid |-> TRUE, addr |-> TRUE, created |-> "True", vmState |-> vm],
                       "ok", "none")
  /\ UNCHANGED <<cfg, kube, cloud, faults>>

-----------------------------------------------------------------------------
(***************************************************************************)
(* scope.Persist: two merge patches, of the object and of its status, each *)
(* with the fields that differ from the copy the scope was built from.     *)
(* The controller's own copy is not refreshed by them.                     *)
(***************************************************************************)
ObjectPatched == [api EXCEPT !.pid = IF s.pid = m.pid THEN @ ELSE s.pid]

StatusPatched == [api EXCEPT
  !.addr    = IF s.addr = m.addr THEN @ ELSE s.addr,
  !.created = IF s.created = m.created THEN @ ELSE s.created,
  !.vmState = IF s.vmState = m.vmState THEN @ ELSE s.vmState]

(***************************************************************************)
(* The actuator returns to Reconcile.  A failed Persist after a successful *)
(* operation is an error; after a failed one it is only logged.  No error  *)
(* of actuator.Delete is an invalid configuration, so each one ends the    *)
(* reconcile.                                                              *)
(***************************************************************************)
ActuatorReturns(persisted) ==
  LET ok == res = "ok" /\ persisted
  IN CASE op = "delete" -> IF ok THEN Goto("delExists") ELSE Return
       [] op = "update" -> Goto(IF ok THEN "updStatus" ELSE "updErr")
       [] OTHER         -> IF res = "terminal" THEN Goto("setFailed") ELSE Return

\* Mutant: every patch of the object changes it.
PatchObjectAlwaysChanges ==
  /\ pc = "patchObject" /\ api.ex
  /\ api' = ObjectPatched
  /\ cacheFresh' = FALSE /\ fresh' = FALSE
  /\ pc' = "patchStatus"
  /\ UNCHANGED <<cfg, cache, op, m, s, res, code, cloud, faults>>

(***************************************************************************)
(* The annotation that mirrors vmState travels with the object patch, and  *)
(* so does what the scope filled into the provider spec: the location and  *)
(* groups it found, the internal load balancer that Update found.  What a  *)
(* deletion fills in comes with its first change of vmState.               *)
(***************************************************************************)
PatchObject ==
  /\ pc = "patchObject" /\ api.ex
  /\ api' = ObjectPatched
  /\ \E filled \in BOOLEAN :
       LET unchanged == api' = api /\ s.vmState = m.vmState /\ ~filled
       IN /\ filled => op # "delete"
          /\ cacheFresh' = (cacheFresh /\ unchanged)
          /\ fresh' = (fresh /\ unchanged)
  /\ pc' = "patchStatus"
  /\ UNCHANGED <<cfg, cache, op, m, s, res, code, cloud, faults>>

PatchStatus ==
  /\ pc = "patchStatus" /\ api.ex
  /\ Store(StatusPatched)
  /\ ActuatorReturns(TRUE)
  /\ UNCHANGED <<cfg, cache, cloud, faults>>

\* Mutant: the status is patched although the patch of the object failed.
PatchFailsIgnored ==
  /\ pc \in {"patchObject", "patchStatus"}
  /\ (~api.ex /\ UNCHANGED faults) \/ Fault
  /\ IF pc = "patchObject" THEN Goto("patchStatus") ELSE ActuatorReturns(FALSE)
  /\ UNCHANGED <<cfg, kube, cloud>>

PatchFails ==
  /\ pc \in {"patchObject", "patchStatus"}
  /\ (~api.ex /\ UNCHANGED faults) \/ Fault
  /\ ActuatorReturns(FALSE)
  /\ UNCHANGED <<cfg, kube, cloud>>

-----------------------------------------------------------------------------
(***************************************************************************)
(* Reconcile of a machine that is being deleted.                           *)
(***************************************************************************)

\* Mutant: the deletion does not wait for the drain.
DeleteStatusUndrained ==
  /\ pc = "delStatus"
  /\ updateStatus("Deleting", m.inst)
  /\ IF api'.fin /\ ~api'.hook
       THEN pc' = "delScope" /\ m' = api' /\ UNCHANGED <<op, s, res, code>>
       ELSE Return

\* The answer to the patch replaces the local copy, which is current then.
DeleteStatus ==
  /\ pc = "delStatus"
  /\ updateStatus("Deleting", m.inst)
  /\ IF api'.fin /\ api'.drained /\ ~api'.hook
       THEN pc' = "delScope" /\ m' = api' /\ UNCHANGED <<op, s, res, code>>
       ELSE Return

DeleteScopeFails ==
  /\ pc = "delScope" /\ NewScopeFails
  /\ Return
  /\ UNCHANGED <<cfg, kube, cloud>>

DeleteScope ==
  /\ pc = "delScope" /\ cfg.scope
  /\ op' = "delete" /\ pc' = "delVM"
  /\ s' = [ScopeOf(m) EXCEPT !.vmState = "Deleting"]
  /\ UNCHANGED <<cfg, kube, m, res, code, cloud, faults>>

(***************************************************************************)
(* Reconciler.Delete: VM, OS disk, network interface, public IP, and the   *)
(* availability set.  The deletions of the VM and the disk are polled once *)
(* and are an error while they are incomplete; the others are waited for.  *)
(***************************************************************************)
DeleteVM ==
  /\ pc = "delVM"
  /\ vm' = "absent"
  /\ Goto("delDisk")
  /\ UNCHANGED <<cfg, kube, disk, nic, pip, faults>>

\* Mutant: an unfinished deletion of the VM is taken for a finished one.
DeleteVMNotAwaited ==
  /\ pc = "delVM" /\ vm # "absent"
  /\ vm' = "Deleting"
  /\ Goto("delDisk")
  /\ UNCHANGED <<cfg, kube, disk, nic, pip, faults>>

DeleteVMIncomplete ==
  /\ pc = "delVM" /\ vm # "absent"
  /\ vm' = "Deleting"
  /\ ReconcilerReturns(s, "requeue", "none")
  /\ UNCHANGED <<cfg, kube, disk, nic, pip, faults>>

DeleteVMFails ==
  /\ pc = "delVM" /\ AzureFails
  /\ vm' \in {vm, IF vm = "absent" THEN vm ELSE "Deleting"}
  /\ UNCHANGED <<cfg, kube, disk, nic, pip>>

\* The disk is gone; the virtual network is looked at only now.
DeleteDisk ==
  /\ pc = "delDisk"
  /\ disk' = "absent"
  /\ IF cfg.vnet THEN Goto("delNIC") ELSE ReconcilerReturns(s, "requeue", "none")
  /\ UNCHANGED <<cfg, kube, vm, nic, pip, faults>>

DeleteDiskIncomplete ==
  /\ pc = "delDisk" /\ disk # "absent"
  /\ disk' = "deleting"
  /\ ReconcilerReturns(s, "requeue", "none")
  /\ UNCHANGED <<cfg, kube, vm, nic, pip, faults>>

DeleteDiskFails ==
  /\ pc = "delDisk" /\ AzureFails
  /\ disk' \in {disk, IF disk = "absent" THEN disk ELSE "deleting"}
  /\ UNCHANGED <<cfg, kube, vm, nic, pip>>

\* Reconciler.Delete succeeded; called from create, the VM is to be recreated.
Deleted == ReconcilerReturns(s, IF op = "create" THEN "requeue" ELSE "ok", "none")

\* A public IP whose name is too long was never created: nothing more to do.
DeleteNIC ==
  /\ pc = "delNIC"
  /\ nic' = "absent"
  /\ CASE cfg.publicIP = "yes" -> Goto("delPIP")
       [] cfg.publicIP = "no"  -> Goto("delAS")
       [] OTHER                -> Deleted
  /\ UNCHANGED <<cfg, kube, vm, disk, pip, faults>>

DeleteNICFails ==
  /\ pc = "delNIC" /\ AzureFails
  /\ nic' \in {nic, "absent"}
  /\ UNCHANGED <<cfg, kube, vm, disk, pip>>

DeletePublicIP ==
  /\ pc = "delPIP"
  /\ pip' = "absent"
  /\ Goto("delAS")
  /\ UNCHANGED <<cfg, kube, vm, disk, nic, faults>>

DeletePublicIPFails ==
  /\ pc = "delPIP" /\ AzureFails
  /\ pip' \in {pip, "absent"}
  /\ UNCHANGED <<cfg, kube, vm, disk, nic>>

DeleteAvailabilitySet ==
  /\ pc = "delAS"
  /\ (Deleted /\ UNCHANGED faults) \/ AzureFails
  /\ UNCHANGED <<cfg, kube, cloud>>

\* actuator.Exists after the deletion; a failed VM counts as none here too.
DeleteChecked ==
  /\ pc = "delExists" /\ ExistsFalse
  /\ Goto(IF m.node THEN "delNode" ELSE "removeFin")
  /\ UNCHANGED <<cfg, kube, cloud, faults>>

DeleteCheckFails ==
  /\ pc = "delExists"
  /\ (~ExistsFalse /\ UNCHANGED faults) \/ Fault
  /\ Return
  /\ UNCHANGED <<cfg, kube, cloud>>

DeleteNode ==
  /\ pc = "delNode"
  /\ Goto("removeFin")
  /\ UNCHANGED <<cfg, kube, cloud, faults>>

\* Client.Update again: without its last finalizer the object is gone.
RemoveFinalizer ==
  /\ pc = "removeFin"
  /\ api.ex /\ fresh
  /\ Store(Gone)
  /\ Return
  /\ UNCHANGED <<cfg, cache, cloud, faults>>
-----------------------------------------------------------------------------
(***************************************************************************)
(* Everyone else.                                                          *)
(***************************************************************************)
CacheSync ==
  /\ ~cacheFresh
  /\ cache' = api /\ cacheFresh' = TRUE
  /\ UNCHANGED <<cfg, api, fresh, pc, op, m, s, res, code, cloud, faults>>

\* The manager is killed at any call; its successor lists the Machines anew.
Crash ==
  /\ pc # "idle" /\ Fault
  /\ Return
  /\ cache' = api /\ cacheFresh' = TRUE
  /\ UNCHANGED <<cfg, api, fresh, cloud>>

UserDelete ==
  /\ api.ex /\ ~api.del
  /\ Store(IF api.fin THEN [api EXCEPT !.del = TRUE] ELSE Gone)
  /\ UNCHANGED <<cfg, cache, pc, op, m, s, res, code, cloud, faults>>

RemoveHook ==
  /\ api.ex /\ api.hook
  /\ Store([api EXCEPT !.hook = FALSE])
  /\ UNCHANGED <<cfg, cache, pc, op, m, s, res, code, cloud, faults>>

(***************************************************************************)
(* The drain controller reads the same informer cache and writes with      *)
(* Status().Update, which an outdated copy makes fail.                     *)
(***************************************************************************)
Drain ==
  /\ cacheFresh
  /\ cache.ex /\ cache.del /\ cache.phase = "Deleting" /\ ~cache.drained
  /\ Store([api EXCEPT !.drained = TRUE])
  /\ UNCHANGED <<cfg, cache, pc, op, m, s, res, code, cloud, faults>>

\* The node link controller finds the node that carries the machine's address.
NodeLink ==
  /\ api.ex /\ api.addr /\ ~api.node /\ vm = "Succeeded"
  /\ Store([api EXCEPT !.node = TRUE])
  /\ UNCHANGED <<cfg, cache, pc, op, m, s, res, code, cloud, faults>>

\* The asynchronous operations of Azure.
VMChanges(from, to) ==
  /\ vm \in from /\ vm' \in to
  /\ UNCHANGED <<cfg, kube, pc, op, m, s, res, code, disk, nic, pip>>

VMProvisioned == VMChanges({"Creating"}, {"Succeeded"}) /\ UNCHANGED faults
VMDeleted     == VMChanges({"Deleting"}, {"absent"}) /\ UNCHANGED faults

\* The creation or the deletion of the VM fails.
VMOperationFails == VMChanges({"Creating", "Deleting"}, {"Failed"}) /\ Fault

\* Somebody deletes the VM, or repairs a failed one, outside the machine API.
OutsideDelete == VMChanges({"Creating", "Succeeded", "Failed"}, {"Deleting"}) /\ Fault
OutsideRepair == VMChanges({"Failed"}, {"Creating", "Succeeded"}) /\ Fault

DiskDeleted ==
  /\ disk = "deleting" /\ disk' = "absent"
  /\ UNCHANGED <<cfg, kube, pc, op, m, s, res, code, vm, nic, pip, faults>>

-----------------------------------------------------------------------------
ReconcileStep ==
  \/ StartReconcile \/ AddFinalizer \/ KubeCallFails
  \/ ExistsFails \/ InstanceFound \/ InstanceMissing
  \/ StatusExistsErr \/ StatusProvisioning \/ StatusFailed
  \/ StatusUpdateErr \/ StatusUpdated

CreateStep ==
  \/ CreateScopeFails \/ CreateScope \/ CreateNetworkSpec \/ CreateLookupFails
  \/ CreatePublicIP \/ CreatePublicIPFails
  \/ CreateNIC \/ CreateNICFails \/ CreateAvailabilitySet
  \/ GetVM \/ PutVMRejected \/ PutVM \/ PutVMRefused \/ PutVMAnswerLost

UpdateStep ==
  \/ UpdateScopeFails \/ UpdateScope \/ UpdateFails \/ Update
  \/ PatchObject \/ PatchStatus \/ PatchFails

DeleteStep ==
  \/ DeleteStatus \/ DeleteScopeFails \/ DeleteScope
  \/ DeleteVM \/ DeleteVMIncomplete \/ DeleteVMFails
  \/ DeleteDisk \/ DeleteDiskIncomplete \/ DeleteDiskFails
  \/ DeleteNIC \/ DeleteNICFails \/ DeletePublicIP \/ DeletePublicIPFails
  \/ DeleteAvailabilitySet \/ DeleteChecked \/ DeleteCheckFails
  \/ DeleteNode \/ RemoveFinalizer

Controller == ReconcileStep \/ CreateStep \/ UpdateStep \/ DeleteStep

Environment ==
  \/ CacheSync \/ Crash \/ UserDelete \/ RemoveHook \/ Drain \/ NodeLink
  \/ VMProvisioned \/ VMDeleted \/ VMOperationFails \/ OutsideDelete
  \/ OutsideRepair \/ DiskDeleted

Next == Controller \/ Environment

Spec == Init /\ [][Next]_vars

(***************************************************************************)
(* The work queue keeps retrying (requeues, and a resync every 10 minutes),*)
(* the informer catches up, Azure finishes its operations, hooks are taken *)
(* off and nodes are drained and linked in the end.  Nobody has to delete  *)
(* the machine, and no fault has to happen.                                *)
(***************************************************************************)
Fairness ==
  /\ WF_vars(Controller)
  /\ WF_vars(CacheSync) /\ WF_vars(Drain) /\ WF_vars(RemoveHook) /\ WF_vars(NodeLink)
  /\ WF_vars(VMProvisioned) /\ WF_vars(VMDeleted) /\ WF_vars(DiskDeleted)

FairSpec == Spec /\ Fairness
-----------------------------------------------------------------------------
(***************************************************************************)
(* Type correctness: the variables keep the values the code can give them. *)
(***************************************************************************)
TypeOK ==
  /\ cfg \in Config
  /\ api \in Machine /\ cache \in Machine /\ m \in Machine
  /\ cacheFresh \in BOOLEAN /\ fresh \in BOOLEAN
  /\ pc \in Labels /\ op \in Ops /\ s \in Scope /\ res \in Results
  /\ code \in Codes \cup {"none"}
  /\ vm \in VMStates /\ disk \in {"absent", "present", "deleting"}
  /\ nic \in {"absent", "present"} /\ pip \in {"absent", "present"}
  /\ faults \in Nat

CloudEmpty == vm = "absent" /\ disk = "absent" /\ nic = "absent" /\ pip = "absent"

(***************************************************************************)
(* No resource of the machine outlives the Machine object, or exists       *)
(* before its finalizer does, whatever is stale, fails or crashes: the     *)
(* reason for the finalizer and for deleting before removing it.           *)
(***************************************************************************)
NoOrphan == ~CloudEmpty => api.ex /\ api.fin

(***************************************************************************)
(* Reconciler.Delete asks for the deletion of a resource only when what    *)
(* uses it is gone (Azure refuses to delete an attached disk, network      *)
(* interface or public IP), and the finalizer goes last.                   *)
(***************************************************************************)
TeardownOrder ==
  /\ pc \in {"delDisk", "delNIC", "delPIP", "delAS", "delExists", "delNode", "removeFin"}
       => vm = "absent"
  /\ pc \in {"delNIC", "delPIP", "delAS", "delExists", "delNode", "removeFin"}
       => disk = "absent"
  /\ pc \in {"delPIP", "delAS", "delExists", "delNode", "removeFin"} => nic = "absent"
  /\ pc \in {"delAS", "delExists", "delNode", "removeFin"} => pip = "absent"

(***************************************************************************)
(* Every deletion of a machine's resources, by either caller of            *)
(* Reconciler.Delete.  actuator.Delete deletes them for a machine that the *)
(* user deleted, that is drained, and that no pre-terminate hook holds     *)
(* back: according to the API server, not only to the controller's copy.   *)
(* createVirtualMachine asks for none of that, to replace a VM that it     *)
(* read as Failed: a VM has failed, and the machine was not provisioned    *)
(* yet, so there is no node to drain.  An outdated copy voids the latter;  *)
(* and a VM in working order is deleted if somebody repairs it after it    *)
(* was read, which takes a second event.                                   *)
(***************************************************************************)
TerminationAllowed ==
  /\ op = "delete" => api.ex /\ api.del /\ api.drained /\ ~api.hook
  /\ op = "create" /\ pc \in {"delVM", "delDisk", "delNIC", "delPIP", "delAS"} =>
       /\ ~cfg.lag => ~api.pid /\ ~api.node
       /\ faults < MaxFaults
       /\ vm \in {"Creating", "Succeeded"} => faults + 1 < MaxFaults

(***************************************************************************)
(* PatchMachine writes the object before the status, so a machine that     *)
(* reports addresses or a successful creation has its providerID, even if  *)
(* the process dies between the two patches or one of them fails.          *)
(***************************************************************************)
ProviderIDFirst == api.ex /\ (api.addr \/ api.created = "True") => api.pid

(***************************************************************************)
(* A usable machine is never marked Failed unless something failed: not by *)
(* any interleaving of reconciles, stale reads, retries and deletion.      *)
(***************************************************************************)
OnlyFaultsFail ==
  /\ cfg.scope /\ ~NetworkSpecInvalid /\ cfg.vmSpec # "invalid"
  /\ faults = MaxFaults
  => api.phase # "Failed"

(***************************************************************************)
(* With current reads, a machine that was once given a providerID never    *)
(* gets a second VM: a vanished instance makes it Failed instead.          *)
(***************************************************************************)
NoSecondVM ==
  [][~cfg.lag /\ pc = "crPutVM" /\ vm' = "Creating" => ~api.pid]_vars

(***************************************************************************)
(* With current reads, Failed is final: the phase is left only for         *)
(* Deleting, after the user's deletion.                                    *)
(***************************************************************************)
FailedIsFinal ==
  [][~cfg.lag /\ api.phase = "Failed" /\ api'.ex
       => api'.phase = "Failed" \/ (api'.phase = "Deleting" /\ api'.del)]_vars

(***************************************************************************)
(* A deleted machine goes away: conflicts between Persist and the removal  *)
(* of the finalizer, unfinished Azure operations, crashes and failed calls *)
(* only delay it.                                                          *)
(***************************************************************************)
DeletionCompletes == api.del ~> ~api.ex

(***************************************************************************)
(* A machine comes to rest: it runs, it is marked Failed, or the user      *)
(* deletes it.                                                             *)
(***************************************************************************)
CreationSettles ==
  api.ex ~> (api.phase \in {"Running", "Failed"} \/ api.del \/ ~api.ex)

(***************************************************************************)
(* The inductive invariant behind NoOrphan and TeardownOrder.  A copy      *)
(* marked as current equals the stored object; an outdated informer copy   *)
(* of a live machine is a copy of an object that still has its finalizer;  *)
(* a reconcile that may touch the cloud works for such an object; once a   *)
(* reconcile deletes, no copy shows the machine alive any more; and the    *)
(* deletion is reported as done only when the cloud is empty.              *)
(***************************************************************************)
CopiesCurrent ==
  /\ cacheFresh => cache = api
  /\ fresh /\ pc # "idle" => m = api

CacheBehind ==
  /\ cache.ex /\ cache.fin /\ ~cache.del => api.ex /\ api.fin
  /\ cache.del /\ api.ex => api.del

Early    == {"idle", "addFinalizer", "delStatus"}
Deleting == pc \in {"delStatus", "delScope", "delExists", "delNode", "removeFin"} \/ op = "delete"

Stage ==
  /\ pc \notin Early => api.ex /\ api.fin
  /\ pc \in Early => op = "none"
  /\ pc = "addFinalizer" => ~m.del
  /\ Deleting => (cache.ex => cache.del) /\ (api.ex => api.del)
  /\ pc \in {"delExists", "delNode", "removeFin"} => op = "delete"
  /\ op = "delete" => pc \in {"delVM", "delDisk", "delNIC", "delPIP", "delAS", "patchObject",
                              "patchStatus", "delExists", "delNode", "removeFin"}

TearDown ==
  /\ TeardownOrder
  /\ pc \in {"patchObject", "patchStatus"} /\ op = "delete" /\ res = "ok" => CloudEmpty
  /\ pip # "absent" \/ pc \in {"crPIP", "delPIP"} => cfg.publicIP = "yes"

Ownership == CopiesCurrent /\ CacheBehind /\ Stage /\ TearDown /\ NoOrphan

\* The inductive invariant: types, and who may own what at which step.
IInv == TypeOK /\ Ownership

(***************************************************************************)
(* The protocol of ResourceOwner, as this system carries it out.           *)
(***************************************************************************)
ObjectState == IF ~api.ex THEN "gone"
               ELSE IF api.del THEN "deleting"
               ELSE IF api.fin THEN "guarded" ELSE "bare"

HeldResources == {r \in {"vm", "disk", "nic", "pip"} :
                    \/ r = "vm" /\ vm # "absent"
                    \/ r = "disk" /\ disk # "absent"
                    \/ r = "nic" /\ nic # "absent"
                    \/ r = "pip" /\ pip # "absent"}

Owner == INSTANCE ResourceOwner
           WITH Resources <- {"vm", "disk", "nic", "pip"},
                object <- ObjectState, held <- HeldResources

(***************************************************************************)
(* The whole lifecycle, faults and stale reads included, implements the    *)
(* finalizer protocol: no step acquires a resource for an unprotected or   *)
(* vanished object, or lets the object vanish while it holds one.          *)
(***************************************************************************)
ImplementsResourceOwner == Owner!Spec

(***************************************************************************)
(* The comment in createVirtualMachine: "If VM failed provisioning, delete *)
(* it so it can be recreated".                                             *)
(***************************************************************************)
FailedVMIsReplaced == vm = "Failed" /\ ~api.del ~> vm # "Failed" \/ api.del

(***************************************************************************)
(* The comment in actuator.Create: invalid credentials are no terminal     *)
(* failure, the operation should be retried.                               *)
(***************************************************************************)
CredentialErrorsRetried == pc = "setFailed" => code # "401"

(***************************************************************************)
(* The comment in Reconcile: a configuration that was invalid from the     *)
(* beginning is taken care of, the machine can be deleted nevertheless.    *)
(***************************************************************************)
InvalidMachineDeletable == api.del ~> ~api.ex
=============================================================================
