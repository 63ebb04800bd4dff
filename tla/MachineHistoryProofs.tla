----------------------- MODULE MachineHistoryProofs -----------------------
(***************************************************************************)
(* What the lifecycle never gets wrong beyond the ownership of resources:  *)
(* the permission to delete a VM, the order in which an instance is        *)
(* recorded, the causes of the phase Failed, and, with current reads, that *)
(* a recorded instance is never replaced and Failed is never left.  They   *)
(* rest on a second inductive invariant, History, proved on top of the     *)
(* first one, IInv.                                                        *)
(***************************************************************************)
EXTENDS MachineLifecycleProofs

(***************************************************************************)
(* From the check in Reconcile until the finalizer is removed the stored   *)
(* machine is deleted, drained and free of hooks: TerminationAllowed for   *)
(* actuator.Delete, from the call before the one it speaks of.             *)
(***************************************************************************)
Permitted ==
  pc = "delScope" \/ op = "delete"
    => api.ex /\ api.del /\ api.drained /\ ~api.hook

-----------------------------------------------------------------------------
\* The calls between the making of a scope and the end of its persistence.
Scoped == {"crNet", "crPIP", "crNIC", "crAS", "crGetVM", "crPutVM", "update",
           "patchObject", "patchStatus", "delVM", "delDisk", "delNIC", "delPIP",
           "delAS"}

IDFirst(x) == x.addr \/ x.created = "True" => x.pid

(***************************************************************************)
(* ProviderIDFirst for every copy of the machine and for the scope.  A     *)
(* merge patch leaves out what equals the copy it is computed from, so it  *)
(* matters that a providerID, once in a copy, stays in the stored machine, *)
(* and that the object patch has been made when the status patch is.       *)
(***************************************************************************)
Identified ==
  /\ IDFirst(api) /\ IDFirst(cache) /\ IDFirst(m) /\ IDFirst(s)
  /\ api.ex => (cache.pid => api.pid) /\ (m.pid => api.pid)
  /\ pc \in Scoped => (m.pid => s.pid)
  /\ pc = "patchStatus" /\ s.pid => api.pid

-----------------------------------------------------------------------------
\* A machine that nothing is wrong with, and nothing has failed for yet.
Sound == /\ cfg.scope /\ ~NetworkSpecInvalid /\ cfg.vmSpec # "invalid"
         /\ faults = MaxFaults

Alive == vm \in {"Creating", "Succeeded"}

\* A reconcile beyond its first call that does not delete.
Working ==
  pc \notin {"idle", "addFinalizer", "delStatus", "delScope"} /\ op # "delete"

DeleteCalls == {"delVM", "delDisk", "delNIC", "delPIP", "delAS"}

(***************************************************************************)
(* Why a sound machine does not fail.  It fails when a reconcile finds no  *)
(* VM although its copy has a providerID.  As long as nothing fails, a VM  *)
(* is gone after its creation only by the deletion of the machine, and     *)
(* then no copy that a reconcile could start from is alive any more;       *)
(* before the creation no copy has a providerID.                           *)
(***************************************************************************)
Blameless ==
  /\ api.phase # "Failed" /\ cache.phase # "Failed" /\ m.phase # "Failed"
  /\ res # "terminal" /\ pc # "setFailed" /\ vm # "Failed"
  /\ pc \in DeleteCalls => op = "delete"
  /\ Working => Alive \/ (vm = "absent" /\ ~m.pid /\ ~s.pid)
  /\ \/ Alive
     \/ vm = "absent" /\ ~api.pid /\ ~cache.pid /\ ~m.pid /\ ~s.pid
     \/ (cache.ex => cache.del) /\ (api.ex => api.del)

FaultsBound == faults \in 0..MaxFaults

-----------------------------------------------------------------------------
CreateCalls == {"crScope", "crNet", "crPIP", "crNIC", "crAS", "crGetVM", "crPutVM"}

(***************************************************************************)
(* With current reads the reconcile's copy has the phase of the stored     *)
(* machine and, until the end of a creation, its providerID.               *)
(***************************************************************************)
Informed ==
  /\ pc # "idle" /\ api.ex => m.phase = api.phase
  /\ pc \in CreateCalls \cup {"exists"} => m.pid = api.pid
  /\ pc \in CreateCalls => ~m.pid
  /\ Working => m.phase # "Failed"

-----------------------------------------------------------------------------
(***************************************************************************)
(* TerminationAllowed for createVirtualMachine: a VM fails, and is         *)
(* repaired, by one fault each, and a node comes after the providerID.     *)
(***************************************************************************)
Replacement ==
  /\ vm = "Failed" => faults < MaxFaults
  /\ api.node => api.pid
  /\ op = "create" /\ pc \in DeleteCalls =>
       /\ faults < MaxFaults
       /\ Alive => faults + 1 < MaxFaults
       /\ ~cfg.lag => ~api.pid

History == /\ Permitted /\ Identified /\ FaultsBound /\ Replacement
           /\ Sound => Blameless
           /\ ~cfg.lag => Informed

-----------------------------------------------------------------------------
(***************************************************************************)
(* What the steps do to the fields these invariants are about.             *)
(***************************************************************************)

\* A machine that is gone, and a scope that is, record nothing.
LEMMA NothingRecorded ==
  /\ Gone.pid = FALSE /\ Gone.addr = FALSE /\ Gone.created = "none" /\ Gone.phase = ""
  /\ Gone.ex = FALSE /\ Gone.del = FALSE /\ Gone.node = FALSE
  /\ NoScope.pid = FALSE /\ NoScope.addr = FALSE /\ NoScope.created = "none"
  BY DEF Gone, Blank, NoScope

\* The record of an instance and the permission to delete it, as far as the
\* status patches of the machine controller leave them alone.
LEMMA StatusPatch ==
  ASSUME TypeOK, NEW ph, NEW i
  PROVE  /\ Patched(ph, i).pid = api.pid /\ Patched(ph, i).addr = api.addr
         /\ Patched(ph, i).created = api.created /\ Patched(ph, i).hook = api.hook
         /\ Patched(ph, i).node = api.node
         /\ Patched(ph, i).phase \in {api.phase, ph}
         /\ m.phase # ph => Patched(ph, i).phase = ph
  BY DEF TypeOK, Machine, Patched

\* The two patches of Persist.
LEMMA PersistPatches ==
  ASSUME TypeOK
  PROVE  LET o == ObjectPatched
             t == StatusPatched
         IN  /\ o.pid = (IF s.pid = m.pid THEN api.pid ELSE s.pid)
             /\ o.addr = api.addr /\ o.created = api.created
             /\ t.addr = (IF s.addr = m.addr THEN api.addr ELSE s.addr)
             /\ t.created = (IF s.created = m.created THEN api.created ELSE s.created)
             /\ t.pid = api.pid
             /\ o.phase = api.phase /\ o.drained = api.drained /\ o.hook = api.hook
             /\ t.phase = api.phase /\ t.drained = api.drained /\ t.hook = api.hook
             /\ o.node = api.node /\ t.node = api.node
             /\ SameObject(o, api) /\ SameObject(t, api)
  BY DEF TypeOK, Machine, Scope, ObjectPatched, StatusPatched, SameObject

\* Two objects that say the same of the instance.
SameRecord(a, b) ==
  a.pid = b.pid /\ a.addr = b.addr /\ a.created = b.created /\ a.phase = b.phase

\* The changes of everyone else.
LEMMA OthersPatches ==
  ASSUME NEW a \in Machine
  PROVE  /\ SameRecord([a EXCEPT !.fin = TRUE], a)
         /\ SameRecord([a EXCEPT !.del = TRUE], a)
         /\ SameRecord([a EXCEPT !.hook = FALSE], a)
         /\ SameRecord([a EXCEPT !.drained = TRUE], a)
         /\ SameRecord([a EXCEPT !.node = TRUE], a)
         /\ [a EXCEPT !.hook = FALSE].drained = a.drained
         /\ [a EXCEPT !.hook = FALSE].hook = FALSE
         /\ [a EXCEPT !.drained = TRUE].hook = a.hook
         /\ [a EXCEPT !.drained = TRUE].drained = TRUE
         /\ [a EXCEPT !.node = TRUE].hook = a.hook
         /\ [a EXCEPT !.node = TRUE].drained = a.drained
         /\ [a EXCEPT !.fin = TRUE].node = a.node /\ [a EXCEPT !.del = TRUE].node = a.node
         /\ [a EXCEPT !.hook = FALSE].node = a.node
         /\ [a EXCEPT !.drained = TRUE].node = a.node
  BY DEF Machine, SameRecord

-----------------------------------------------------------------------------
(***************************************************************************)
(* The deletion of the VM is permitted.                                    *)
(***************************************************************************)
\* The check in DeleteStatus is made on the answer of the API server, and no
\* step of anyone takes the permission back before the machine is gone.
LEMMA PermittedStep == IInv /\ Permitted /\ Next => Permitted'
<1> SUFFICES ASSUME IInv, Permitted, Next PROVE Permitted'
  OBVIOUS
<1>1. CASE ReconcileStep
  BY <1>1
     DEF IInv, Ownership, Stage, Early, Permitted, ReconcileStep,
         StartReconcile, FirstCall, AddFinalizer, KubeCallFails, ExistsFails,
         InstanceFound, InstanceMissing, StatusExistsErr, StatusProvisioning,
         StatusFailed, StatusUpdateErr, StatusUpdated, Goto, Return, kube
<1>2. CASE CreateStep
  BY <1>2, ReturnsControl, AzureFailsControl
     DEF IInv, Ownership, Stage, Permitted, CreateStep, CreateScopeFails,
         CreateScope, CreateNetworkSpec, CreateLookupFails, CreatePublicIP,
         CreatePublicIPFails, CreateNIC, CreateNICFails, CreateAvailabilitySet,
         GetVM, PutVMRejected, PutVM, PutVMRefused, PutVMAnswerLost, Goto, kube
<1>3. CASE UpdateStep
  <2>1. CASE PatchObject \/ PatchStatus
    BY <2>1, PersistPatches
       DEF IInv, Permitted, SameObject, PatchObject, PatchStatus, Store,
           ActuatorReturns, Goto, Return
  <2>2. CASE ~(PatchObject \/ PatchStatus)
    BY <1>3, <2>2, ReturnsControl
       DEF IInv, Ownership, Stage, Permitted, UpdateStep, UpdateScopeFails,
           UpdateScope, UpdateFails, Update, PatchFails, ActuatorReturns, Goto,
           Return, kube
  <2>3. QED
    BY <2>1, <2>2
<1>4. CASE DeleteStatus
  <2>1. Kept /\ api.ex
    BY <1>4, UpdateStatusKept DEF DeleteStatus, IInv
  <2>2. QED
    BY <1>4, <2>1
       DEF IInv, Ownership, Stage, Early, Deleting, Permitted, DeleteStatus,
           Kept, SameObject, Return
<1>5. CASE DeleteStep /\ ~DeleteStatus
  BY <1>5, ReturnsControl, AzureFailsControl
     DEF Permitted, DeleteStep, DeleteScopeFails, DeleteScope, DeleteVM,
         DeleteVMIncomplete, DeleteVMFails, DeleteDisk, DeleteDiskIncomplete,
         DeleteDiskFails, DeleteNIC, DeleteNICFails, DeletePublicIP,
         DeletePublicIPFails, DeleteAvailabilitySet, Deleted, DeleteChecked,
         DeleteCheckFails, DeleteNode, RemoveFinalizer, Goto, Return, kube
<1>6. CASE UserDelete \/ RemoveHook \/ Drain \/ NodeLink
  <2>1. CASE UserDelete
    BY <2>1 DEF Permitted, UserDelete
  <2>2. CASE RemoveHook
    BY <2>2, OthersPatches, ExceptFields
       DEF IInv, TypeOK, Permitted, SameObject, RemoveHook, Store
  <2>3. CASE Drain
    BY <2>3, OthersPatches, ExceptFields
       DEF IInv, TypeOK, Permitted, SameObject, Drain, Store
  <2>4. CASE NodeLink
    BY <2>4, OthersPatches, ExceptFields
       DEF IInv, TypeOK, Permitted, SameObject, NodeLink, Store
  <2>5. QED
    BY <1>6, <2>1, <2>2, <2>3, <2>4
<1>7. CASE Environment /\ ~(UserDelete \/ RemoveHook \/ Drain \/ NodeLink)
  BY <1>7
     DEF Permitted, Environment, CacheSync, Crash, Return, VMProvisioned,
         VMDeleted, VMOperationFails, OutsideDelete, OutsideRepair, DiskDeleted,
         VMChanges, kube
<1>8. QED
  BY <1>1, <1>2, <1>3, <1>4, <1>5, <1>6, <1>7 DEF Next, Controller

-----------------------------------------------------------------------------
(***************************************************************************)
(* The providerID is recorded first.                                       *)
(***************************************************************************)

\* A failure changes nothing of the scope but the MachineCreated condition.
LEMMA ReturnsRecord ==
  ASSUME NEW sc \in Scope, NEW r, NEW c, ReconcilerReturns(sc, r, c)
  PROVE  s'.pid = sc.pid /\ s'.addr = sc.addr /\ s'.created \in {sc.created, "False"}
  BY DEF ReconcilerReturns, Scope

\* So does an Azure call that fails.
LEMMA AzureFailsRecord ==
  ASSUME TypeOK, AzureFails
  PROVE  s'.pid = s.pid /\ s'.addr = s.addr /\ s'.created \in {s.created, "False"}
  BY ReturnsRecord DEF AzureFails, TypeOK

\* The scopes that GetVM passes on, and the ones that are made of a copy.
LEMMA ScopeRecord ==
  ASSUME TypeOK, NEW v
  PROVE  /\ LET t == [s EXCEPT !.vmState = v]
            IN  t.pid = s.pid /\ t.addr = s.addr /\ t.created = s.created
         /\ LET t == [ScopeOf(m) EXCEPT !.vmState = v]
            IN  t.pid = m.pid /\ t.addr = m.addr /\ t.created = m.created
         /\ ScopeOf(m).pid = m.pid /\ ScopeOf(m).addr = m.addr
         /\ ScopeOf(m).created = m.created
  BY DEF TypeOK, Scope, Machine, ScopeOf

\* A reconcile that ends without changing the record of the stored machine.
LEMMA IdentifiedReturn ==
  ASSUME Identified, api'.pid = api.pid, api'.addr = api.addr, api'.created = api.created,
         api'.ex => api.ex, cache' = cache, Return
  PROVE  Identified'
  BY NothingRecorded DEF Identified, IDFirst, Scoped, Return

\* A step of someone else that does not change it either.
LEMMA IdentifiedKept ==
  ASSUME Identified, api'.pid = api.pid, api'.addr = api.addr, api'.created = api.created,
         api'.ex => api.ex, cache' = cache, UNCHANGED <<pc, m, s>>
  PROVE  Identified'
  BY DEF Identified, IDFirst, Scoped

\* The first calls of a reconcile, and the status patches that end one.
LEMMA IdentifiedReconcile == IInv /\ Identified /\ ReconcileStep => Identified'
<1> SUFFICES ASSUME IInv, Identified, ReconcileStep PROVE Identified'
  OBVIOUS
<1> USE DEF IInv
<1>1. CASE StartReconcile
  BY <1>1 DEF Identified, IDFirst, Scoped, StartReconcile, FirstCall
<1>2. CASE AddFinalizer
  <2>1. m = api
    BY <1>2 DEF AddFinalizer, Ownership, CopiesCurrent
  <2>2. QED
    BY <1>2, <2>1, OthersPatches, ExceptFields, IdentifiedReturn
       DEF TypeOK, AddFinalizer, Store, SameRecord
<1>3. CASE KubeCallFails
  BY <1>3, IdentifiedReturn DEF KubeCallFails, kube
<1>4. CASE ExistsFails \/ InstanceFound \/ InstanceMissing
  BY <1>4
     DEF Identified, IDFirst, Scoped, ExistsFails, InstanceFound,
         InstanceMissing, Goto, kube
<1>5. ASSUME NEW ph, NEW i, updateStatus(ph, i), Return PROVE Identified'
  BY <1>5, StatusPatch, IdentifiedReturn DEF updateStatus
<1>6. CASE \/ StatusExistsErr \/ StatusProvisioning \/ StatusFailed
           \/ StatusUpdateErr \/ StatusUpdated
  BY <1>5, <1>6
     DEF StatusExistsErr, StatusProvisioning, StatusFailed, StatusUpdateErr,
         StatusUpdated
<1>7. QED
  BY <1>1, <1>2, <1>3, <1>4, <1>6 DEF ReconcileStep

\* A creation records nothing before its Update but a failure.
LEMMA IdentifiedCreate == IInv /\ Identified /\ CreateStep => Identified'
<1> SUFFICES ASSUME IInv, Identified, CreateStep PROVE Identified'
  OBVIOUS
<1> USE DEF IInv, Identified, IDFirst, Scoped, kube
<1>1. CASE CreateScopeFails \/ CreateScope
  BY <1>1, ScopeRecord DEF CreateScopeFails, CreateScope, Goto
<1>2. CASE CreateNetworkSpec \/ PutVMRejected
  BY <1>2, ReturnsRecord, ReturnsControl
     DEF TypeOK, CreateNetworkSpec, PutVMRejected, Goto
<1>3. CASE \/ CreateLookupFails \/ CreatePublicIPFails \/ CreateNICFails
           \/ CreateAvailabilitySet
  BY <1>3, AzureFailsRecord, AzureFailsControl
     DEF CreateLookupFails, CreatePublicIPFails, CreateNICFails,
         CreateAvailabilitySet, Goto
<1>4. CASE CreatePublicIP \/ CreateNIC \/ PutVM
  BY <1>4 DEF CreatePublicIP, CreateNIC, PutVM, Goto
<1>5. CASE GetVM
  <2>1. CASE AzureFails
    BY <1>5, <2>1, AzureFailsRecord, AzureFailsControl DEF GetVM
  <2>2. CASE ReconcilerReturns([s EXCEPT !.vmState = vm], "requeue", "none")
    <3>1. [s EXCEPT !.vmState = vm] \in Scope \/ vm = "absent"
      BY ScopeTypes, GoneType DEF TypeOK, States, VMStates
    <3>2. QED
      BY <1>5, <2>1, <2>2, <3>1, ScopeRecord, ReturnsRecord, ReturnsControl
         DEF GetVM, Goto
  <2>3. CASE /\ pc' \in {"delVM", "update"} /\ m' = m
             /\ s' = [s EXCEPT !.vmState = "Deleting"] \/ s' = [s EXCEPT !.vmState = vm]
    <3>1. s'.pid = s.pid /\ s'.addr = s.addr /\ s'.created = s.created
      BY <2>3, ScopeRecord
    <3>2. QED
      BY <1>5, <2>3, <3>1 DEF GetVM
  <2>4. CASE Goto("crPutVM")
    BY <1>5, <2>4 DEF GetVM, Goto
  <2>5. QED
    BY <1>5, <2>1, <2>2, <2>3, <2>4 DEF GetVM
<1>6. CASE PutVMRefused \/ PutVMAnswerLost
  BY <1>6, ReturnsRecord, ReturnsControl
     DEF TypeOK, PutVMRefused, PutVMAnswerLost
<1>7. QED
  BY <1>1, <1>2, <1>3, <1>4, <1>5, <1>6 DEF CreateStep

\* Update sets the providerID with the rest; Persist writes it first.
LEMMA IdentifiedUpdate == IInv /\ Identified /\ UpdateStep => Identified'
<1> SUFFICES ASSUME IInv, Identified, UpdateStep PROVE Identified'
  OBVIOUS
<1> USE DEF IInv, kube
<1>1. CASE UpdateScopeFails \/ UpdateScope
  BY <1>1, ScopeRecord
     DEF Identified, IDFirst, Scoped, UpdateScopeFails, UpdateScope, Goto
<1>2. CASE UpdateFails
  BY <1>2, ReturnsRecord, ReturnsControl
     DEF Identified, IDFirst, Scoped, TypeOK, UpdateFails
<1>3. CASE Update
  <2>1. s'.pid = TRUE /\ pc' = "patchObject" /\ m' = m
    BY <1>3 DEF Update, ReconcilerReturns
  <2>2. QED
    BY <1>3, <2>1 DEF Identified, IDFirst, Scoped, Update
<1>4. CASE PatchObject
  <2>1. /\ api'.pid = (IF s.pid = m.pid THEN api.pid ELSE s.pid)
        /\ api'.addr = api.addr /\ api'.created = api.created /\ SameObject(api', api)
    BY <1>4, PersistPatches DEF PatchObject
  <2>2. QED
    BY <1>4, <2>1
       DEF Identified, IDFirst, Scoped, SameObject, PatchObject, TypeOK, Scope,
           Machine
<1>5. CASE PatchStatus
  <2>1. /\ api'.addr = (IF s.addr = m.addr THEN api.addr ELSE s.addr)
        /\ api'.created = (IF s.created = m.created THEN api.created ELSE s.created)
        /\ api'.pid = api.pid /\ SameObject(api', api)
    BY <1>5, PersistPatches DEF PatchStatus, Store
  <2>2. IDFirst(api')
    BY <1>5, <2>1 DEF Identified, IDFirst, PatchStatus, TypeOK, Scope, Machine
  <2>3. QED
    BY <1>5, <2>1, <2>2, NothingRecorded
       DEF Identified, IDFirst, Scoped, SameObject, PatchStatus,
           ActuatorReturns, Goto, Return
<1>6. CASE PatchFails
  BY <1>6, NothingRecorded
     DEF Identified, IDFirst, Scoped, PatchFails, ActuatorReturns, Goto, Return
<1>7. QED
  BY <1>1, <1>2, <1>3, <1>4, <1>5, <1>6 DEF UpdateStep

\* A deletion keeps the record until the machine is gone.
LEMMA IdentifiedDelete == IInv /\ Identified /\ DeleteStep => Identified'
<1> SUFFICES ASSUME IInv, Identified, DeleteStep PROVE Identified'
  OBVIOUS
<1> USE DEF IInv
<1>1. CASE DeleteStatus
  <2>1. /\ api'.pid = api.pid /\ api'.addr = api.addr /\ api'.created = api.created
        /\ api.ex /\ cache' = cache
    BY <1>1, StatusPatch DEF DeleteStatus, updateStatus
  <2>2. CASE Return
    BY <2>1, <2>2, IdentifiedReturn
  <2>3. CASE ~Return
    BY <1>1, <2>1, <2>3 DEF DeleteStatus, Identified, IDFirst, Scoped
  <2>4. QED
    BY <2>2, <2>3
<1>2. CASE DeleteScopeFails \/ DeleteCheckFails
  BY <1>2, IdentifiedReturn DEF DeleteScopeFails, DeleteCheckFails, kube
<1>3. CASE DeleteScope
  BY <1>3, ScopeRecord DEF DeleteScope, Identified, IDFirst, Scoped, kube
<1>4. CASE DeleteVM \/ DeletePublicIP \/ DeleteChecked \/ DeleteNode
  BY <1>4
     DEF DeleteVM, DeletePublicIP, DeleteChecked, DeleteNode, Identified,
         IDFirst, Scoped, Goto, kube
<1>5. CASE DeleteVMIncomplete \/ DeleteDisk \/ DeleteDiskIncomplete \/ DeleteNIC
  BY <1>5, ReturnsRecord, ReturnsControl
     DEF TypeOK, DeleteVMIncomplete, DeleteDisk, DeleteDiskIncomplete,
         DeleteNIC, Deleted, Identified, IDFirst, Scoped, Goto, kube
<1>6. CASE \/ DeleteVMFails \/ DeleteDiskFails \/ DeleteNICFails
           \/ DeletePublicIPFails
  BY <1>6, AzureFailsRecord, AzureFailsControl
     DEF DeleteVMFails, DeleteDiskFails, DeleteNICFails, DeletePublicIPFails,
         Identified, IDFirst, Scoped, kube
<1>7. CASE DeleteAvailabilitySet
  BY <1>7, AzureFailsRecord, AzureFailsControl, ReturnsRecord, ReturnsControl
     DEF TypeOK, DeleteAvailabilitySet, Deleted, Identified, IDFirst, Scoped,
         kube
<1>8. CASE RemoveFinalizer
  BY <1>8, NothingRecorded
     DEF RemoveFinalizer, Store, Identified, IDFirst, Scoped, Return
<1>9. QED
  BY <1>1, <1>2, <1>3, <1>4, <1>5, <1>6, <1>7, <1>8 DEF DeleteStep

\* Nobody else touches the record, or only together with the machine.
LEMMA IdentifiedEnvironment == IInv /\ Identified /\ Environment => Identified'
<1> SUFFICES ASSUME IInv, Identified, Environment PROVE Identified'
  OBVIOUS
<1> USE DEF IInv
<1>1. CASE CacheSync
  BY <1>1 DEF CacheSync, Identified, IDFirst, Scoped
<1>2. CASE Crash
  BY <1>2, NothingRecorded DEF Crash, Return, Identified, IDFirst, Scoped
<1>3. CASE UserDelete
  <2>1. CASE api.fin
    BY <1>3, <2>1, OthersPatches, ExceptFields, IdentifiedKept
       DEF UserDelete, Store, TypeOK, SameRecord
  <2>2. CASE ~api.fin
    BY <1>3, <2>2, NothingRecorded
       DEF UserDelete, Store, Ownership, Stage, Early, Identified, IDFirst,
           Scoped
  <2>3. QED
    BY <2>1, <2>2
<1>4. CASE RemoveHook
  BY <1>4, OthersPatches, ExceptFields, IdentifiedKept
     DEF RemoveHook, Store, TypeOK, SameRecord, SameObject
<1>5. CASE Drain
  BY <1>5, OthersPatches, ExceptFields, IdentifiedKept
     DEF Drain, Store, TypeOK, SameRecord, SameObject
<1>6. CASE NodeLink
  BY <1>6, OthersPatches, ExceptFields, IdentifiedKept
     DEF NodeLink, Store, TypeOK, SameRecord, SameObject
<1>7. CASE \/ VMProvisioned \/ VMDeleted \/ VMOperationFails \/ OutsideDelete
           \/ OutsideRepair \/ DiskDeleted
  BY <1>7, IdentifiedKept
     DEF VMProvisioned, VMDeleted, VMOperationFails, OutsideDelete,
         OutsideRepair, DiskDeleted, VMChanges, kube
<1>8. QED
  BY <1>1, <1>2, <1>3, <1>4, <1>5, <1>6, <1>7 DEF Environment

-----------------------------------------------------------------------------
(***************************************************************************)
(* Only a fault, or a configuration that is wrong, makes a machine Failed. *)
(***************************************************************************)

\* A step changes neither the configuration nor, but for a fault, the count.
LEMMA CountsFaults == Next => cfg' = cfg /\ (faults' = faults \/ Fault)
<1>1. AzureFails => Fault
  BY DEF AzureFails
<1>2. NewScopeFails => faults' = faults \/ Fault
  BY DEF NewScopeFails
<1>3. ReconcileStep => cfg' = cfg /\ (faults' = faults \/ Fault)
  BY <1>2
     DEF ReconcileStep, StartReconcile, AddFinalizer, KubeCallFails,
         ExistsFails, InstanceFound, InstanceMissing, StatusExistsErr,
         StatusProvisioning, StatusFailed, StatusUpdateErr, StatusUpdated,
         updateStatus
<1>4. CreateStep => cfg' = cfg /\ (faults' = faults \/ Fault)
  BY <1>1, <1>2
     DEF CreateStep, CreateScopeFails, CreateScope, CreateNetworkSpec,
         CreateLookupFails, CreatePublicIP, CreatePublicIPFails, CreateNIC,
         CreateNICFails, CreateAvailabilitySet, GetVM, PutVMRejected, PutVM,
         PutVMRefused, PutVMAnswerLost
<1>5. UpdateStep => cfg' = cfg /\ (faults' = faults \/ Fault)
  BY <1>2
     DEF UpdateStep, UpdateScopeFails, UpdateScope, UpdateFails, Update,
         PatchObject, PatchStatus, PatchFails
<1>6. DeleteStep => cfg' = cfg /\ (faults' = faults \/ Fault)
  BY <1>1, <1>2
     DEF DeleteStep, DeleteStatus, updateStatus, DeleteScopeFails, DeleteScope,
         DeleteVM, DeleteVMIncomplete, DeleteVMFails, DeleteDisk,
         DeleteDiskIncomplete, DeleteDiskFails, DeleteNIC, DeleteNICFails,
         DeletePublicIP, DeletePublicIPFails, DeleteAvailabilitySet, Deleted,
         DeleteChecked, DeleteCheckFails, DeleteNode, RemoveFinalizer
<1>7. Environment => cfg' = cfg /\ (faults' = faults \/ Fault)
  BY DEF Environment, CacheSync, Crash, UserDelete, RemoveHook, Drain, NodeLink,
         VMProvisioned, VMDeleted, VMOperationFails, OutsideDelete,
         OutsideRepair, DiskDeleted, VMChanges
<1>8. QED
  BY <1>3, <1>4, <1>5, <1>6, <1>7 DEF Next, Controller

\* So a step that leaves the count as it was is none of the faults.
LEMMA FaultsStep ==
  ASSUME TypeOK, FaultsBound, Next
  PROVE  FaultsBound' /\ (Sound' => Sound /\ ~Fault)
<1>1. cfg' = cfg /\ (faults' = faults \/ Fault)
  BY CountsFaults
<1>2. CASE Fault
  BY <1>1, <1>2, ConstantsAssumption DEF FaultsBound, Sound, Fault
<1>3. CASE ~Fault
  BY <1>1, <1>3 DEF FaultsBound, Sound, NetworkSpecInvalid
<1>4. QED
  BY <1>2, <1>3

\* A reconcile that ends without changing much.
LEMMA BlamelessReturn ==
  ASSUME Blameless, api'.phase # "Failed", api'.pid = api.pid, cache' = cache, vm' = vm,
         api'.ex => api.ex /\ (api.del => api'.del), Return
  PROVE  Blameless'
  BY NothingRecorded DEF Blameless, Working, Alive, DeleteCalls, Return

\* A step of someone else that does not change much either.
LEMMA BlamelessKept ==
  ASSUME Blameless, api'.phase # "Failed", api'.pid = api.pid, cache' = cache, vm' = vm,
         api'.ex => api.ex /\ (api.del => api'.del), UNCHANGED <<pc, op, m, s, res>>
  PROVE  Blameless'
  BY DEF Blameless, Working, Alive, DeleteCalls

\* A reconcile that finds no VM works on a copy without a providerID.
LEMMA BlamelessReconcile ==
  ASSUME IInv, Identified, Sound, Blameless, ~Fault, ReconcileStep PROVE Blameless'
<1> USE DEF IInv
<1>1. CASE StartReconcile
  BY <1>1
     DEF Blameless, Working, Alive, DeleteCalls, StartReconcile, FirstCall, cloud
<1>2. CASE AddFinalizer
  <2>1. m = api
    BY <1>2 DEF AddFinalizer, Ownership, CopiesCurrent
  <2>2. SameRecord(api', api) /\ api'.ex = api.ex /\ api'.del = api.del
    BY <1>2, <2>1, OthersPatches, ExceptFields DEF TypeOK, AddFinalizer, Store
  <2>3. QED
    BY <1>2, <2>2, BlamelessReturn
       DEF AddFinalizer, SameRecord, Blameless, cloud
<1>3. CASE KubeCallFails
  BY <1>3, BlamelessReturn DEF KubeCallFails, kube, cloud, Blameless
<1>4. CASE ExistsFails \/ InstanceFound
  BY <1>4
     DEF Blameless, Working, Alive, DeleteCalls, ExistsFails, InstanceFound, Goto,
         kube, cloud
<1>5. CASE InstanceMissing
  <2>1. vm = "absent" /\ ~m.pid
    BY <1>5
       DEF Blameless, Working, Alive, InstanceMissing, ExistsFalse, Ownership,
           Stage
  <2>2. ~machineIsProvisioned(m)
    BY <2>1 DEF Identified, IDFirst, machineIsProvisioned
  <2>3. QED
    BY <1>5, <2>1, <2>2
       DEF Blameless, Working, Alive, DeleteCalls, InstanceMissing, Goto, kube,
           cloud
<1>6. ASSUME NEW ph, ph # "Failed", NEW i, updateStatus(ph, i), Return PROVE Blameless'
  <2>1. Kept /\ api.ex
    BY <1>6, UpdateStatusKept
  <2>2. api'.phase # "Failed" /\ api'.pid = api.pid
    BY <1>6, StatusPatch DEF updateStatus, Blameless
  <2>3. QED
    BY <1>6, <2>1, <2>2, BlamelessReturn DEF Kept, SameObject
<1>7. CASE \/ StatusExistsErr \/ StatusProvisioning \/ StatusUpdateErr
           \/ StatusUpdated
  BY <1>6, <1>7
     DEF Blameless, StatusExistsErr, StatusProvisioning, StatusUpdateErr,
         StatusUpdated
<1>8. CASE StatusFailed
  BY <1>8 DEF StatusFailed, Blameless
<1>9. QED
  BY <1>1, <1>2, <1>3, <1>4, <1>5, <1>7, <1>8 DEF ReconcileStep

\* A creation meets no error and no failed VM.
LEMMA BlamelessCreate ==
  ASSUME IInv, Sound, Blameless, ~Fault, CreateStep PROVE Blameless'
<1> USE DEF IInv, Blameless, Alive, DeleteCalls, Working, kube, cloud
<1>1. ~AzureFails
  BY DEF AzureFails
<1>2. CASE CreateScopeFails \/ CreateScope
  BY <1>2, ScopeRecord
     DEF CreateScopeFails, CreateScope, NewScopeFails, Sound, Ownership, Stage
<1>3. CASE CreateNetworkSpec \/ CreatePublicIP \/ CreateNIC
  BY <1>3 DEF CreateNetworkSpec, Sound, CreatePublicIP, CreateNIC, Goto
<1>4. CASE CreateAvailabilitySet
  BY <1>1, <1>4 DEF CreateAvailabilitySet, Goto
<1>5. CASE GetVM
  <2>1. op # "delete"
    BY <1>5 DEF GetVM, Ownership, Stage
  <2>2. vm \in {"absent", "Creating", "Succeeded"}
    BY <1>5, <2>1 DEF GetVM
  <2>3. CASE vm = "absent"
    BY <1>1, <1>5, <2>3 DEF GetVM, Goto
  <2>4. CASE vm = "Creating" \/ vm = "Succeeded"
    BY <1>1, <1>5, <2>1, <2>4 DEF GetVM, ReconcilerReturns
  <2>5. QED
    BY <2>2, <2>3, <2>4
<1>6. CASE PutVMRejected
  BY <1>6, ReturnsRecord, ReturnsControl
     DEF TypeOK, PutVMRejected, Sound, ReconcilerReturns
<1>7. CASE PutVM
  BY <1>7 DEF PutVM, Goto
<1>8. ~(\/ CreateLookupFails \/ CreatePublicIPFails \/ CreateNICFails
        \/ PutVMRefused \/ PutVMAnswerLost)
  BY <1>1
     DEF CreateLookupFails, CreatePublicIPFails, CreateNICFails, PutVMRefused,
         PutVMAnswerLost
<1>9. QED
  BY <1>2, <1>3, <1>4, <1>5, <1>6, <1>7, <1>8 DEF CreateStep

\* Only a VM that is alive gets a providerID recorded.
LEMMA BlamelessUpdate ==
  ASSUME IInv, Identified, Sound, Blameless, ~Fault, UpdateStep PROVE Blameless'
<1> USE DEF IInv
<1>1. CASE UpdateScopeFails \/ UpdateScope
  BY <1>1, ScopeRecord
     DEF Blameless, Alive, DeleteCalls, Working, UpdateScopeFails, UpdateScope,
         NewScopeFails, Sound, Ownership, Stage, kube, cloud
<1>2. CASE UpdateFails
  BY <1>2, ReturnsRecord, ReturnsControl
     DEF TypeOK, Blameless, Alive, DeleteCalls, Working, UpdateFails,
         ReconcilerReturns, kube, cloud
<1>3. CASE Update
  <2>1. op # "delete" /\ Alive
    BY <1>3 DEF Update, Ownership, Stage, Blameless, Working
  <2>2. QED
    BY <1>3, <2>1
       DEF Blameless, Alive, DeleteCalls, Working, Update, ReconcilerReturns, kube,
           cloud
<1>4. CASE PatchObject
  <2>1. /\ api'.pid = (IF s.pid = m.pid THEN api.pid ELSE s.pid)
        /\ api'.phase = api.phase /\ SameObject(api', api)
    BY <1>4, PersistPatches DEF PatchObject
  <2>2. QED
    BY <1>4, <2>1
       DEF Blameless, Alive, DeleteCalls, Working, SameObject, PatchObject, cloud
<1>5. CASE PatchStatus
  <2>1. api'.pid = api.pid /\ api'.phase = api.phase /\ SameObject(api', api)
    BY <1>5, PersistPatches DEF PatchStatus, Store
  <2>2. CASE Return
    BY <1>5, <2>1, <2>2, BlamelessReturn
       DEF Blameless, SameObject, PatchStatus, cloud
  <2>3. CASE ~Return
    BY <1>5, <2>1, <2>3
       DEF Blameless, Alive, DeleteCalls, Working, SameObject, PatchStatus,
           ActuatorReturns, Goto, cloud
  <2>4. QED
    BY <2>2, <2>3
<1>6. CASE PatchFails
  BY <1>6, NothingRecorded
     DEF Blameless, Alive, DeleteCalls, Working, PatchFails, ActuatorReturns, Goto,
         Return, kube, cloud
<1>7. QED
  BY <1>1, <1>2, <1>3, <1>4, <1>5, <1>6 DEF UpdateStep

\* A reconcile that deletes: every copy of the machine is marked as deleted.
LEMMA BlamelessDelete ==
  ASSUME IInv, Sound, Blameless, ~Fault, DeleteStep PROVE Blameless'
<1> USE DEF IInv
<1>1. ~AzureFails
  BY DEF AzureFails
<1>2. Deleting
  BY DEF DeleteStep, DeleteStatus, DeleteScopeFails, DeleteScope, DeleteVM,
         DeleteVMIncomplete, DeleteVMFails, DeleteDisk, DeleteDiskIncomplete,
         DeleteDiskFails, DeleteNIC, DeleteNICFails, DeletePublicIP,
         DeletePublicIPFails, DeleteAvailabilitySet, Deleted, DeleteChecked,
         DeleteCheckFails, DeleteNode, RemoveFinalizer, Blameless, DeleteCalls,
         Deleting
<1>3. (cache.ex => cache.del) /\ (api.ex => api.del)
  BY <1>2 DEF Ownership, Stage
<1>4. CASE DeleteStatus
  <2>1. Kept /\ api.ex
    BY <1>4, UpdateStatusKept DEF DeleteStatus
  <2>2. api'.phase # "Failed" /\ api'.pid = api.pid
    BY <1>4, StatusPatch DEF DeleteStatus, updateStatus, Blameless
  <2>3. CASE Return
    BY <2>1, <2>2, <2>3, BlamelessReturn DEF Kept, SameObject
  <2>4. CASE ~Return
    BY <1>3, <1>4, <2>1, <2>2, <2>4
       DEF DeleteStatus, Blameless, Alive, DeleteCalls, Working, Kept, SameObject
  <2>5. QED
    BY <2>3, <2>4
<1>5. CASE DeleteScopeFails \/ DeleteCheckFails
  BY <1>5, BlamelessReturn
     DEF DeleteScopeFails, DeleteCheckFails, Blameless, kube, cloud
<1>6. CASE RemoveFinalizer
  BY <1>3, <1>6, NothingRecorded
     DEF RemoveFinalizer, Store, Return, Blameless, Alive, DeleteCalls, Working,
         cloud
<1>7. CASE \/ DeleteScope \/ DeleteVM \/ DeletePublicIP \/ DeleteChecked
           \/ DeleteNode
  BY <1>3, <1>7
     DEF DeleteScope, DeleteVM, DeletePublicIP, DeleteChecked, DeleteNode,
         Blameless, Alive, DeleteCalls, Working, Ownership, Stage, Goto, kube,
         cloud
<1>8. CASE \/ DeleteVMIncomplete \/ DeleteDisk \/ DeleteDiskIncomplete
           \/ DeleteNIC \/ DeleteAvailabilitySet
  BY <1>1, <1>3, <1>8
     DEF DeleteVMIncomplete, DeleteDisk, DeleteDiskIncomplete, DeleteNIC,
         DeleteAvailabilitySet, Deleted, Blameless, Alive, DeleteCalls, Working,
         ReconcilerReturns, Goto, kube, cloud
<1>9. ~(DeleteVMFails \/ DeleteDiskFails \/ DeleteNICFails \/ DeletePublicIPFails)
  BY <1>1
     DEF DeleteVMFails, DeleteDiskFails, DeleteNICFails, DeletePublicIPFails
<1>10. QED
  BY <1>4, <1>5, <1>6, <1>7, <1>8, <1>9 DEF DeleteStep

\* Without a fault Azure only completes what was asked for.
LEMMA BlamelessEnvironment ==
  ASSUME IInv, Sound, Blameless, ~Fault, Environment PROVE Blameless'
<1> USE DEF IInv
<1>1. CASE CacheSync
  BY <1>1 DEF CacheSync, Blameless, Alive, DeleteCalls, Working, cloud
<1>2. CASE UserDelete
  <2>1. CASE api.fin
    BY <1>2, <2>1, OthersPatches, ExceptFields, BlamelessKept
       DEF UserDelete, Store, TypeOK, SameRecord, Blameless, cloud
  <2>2. CASE ~api.fin
    BY <1>2, <2>2, NothingRecorded
       DEF UserDelete, Store, Blameless, Alive, DeleteCalls, Working, Ownership,
           NoOrphan, CloudEmpty, CacheBehind, cloud
  <2>3. QED
    BY <2>1, <2>2
<1>3. CASE RemoveHook
  BY <1>3, OthersPatches, ExceptFields, BlamelessKept
     DEF RemoveHook, Store, TypeOK, SameRecord, SameObject, Blameless, cloud
<1>4. CASE Drain
  BY <1>4, OthersPatches, ExceptFields, BlamelessKept
     DEF Drain, Store, TypeOK, SameRecord, SameObject, Blameless, cloud
<1>5. CASE NodeLink
  BY <1>5, OthersPatches, ExceptFields, BlamelessKept
     DEF NodeLink, Store, TypeOK, SameRecord, SameObject, Blameless, cloud
<1>6. CASE VMProvisioned \/ VMDeleted
  BY <1>6
     DEF VMProvisioned, VMDeleted, VMChanges, Blameless, Alive, DeleteCalls,
         Working, kube
<1>7. CASE DiskDeleted
  BY <1>7, BlamelessKept DEF DiskDeleted, Blameless, kube
<1>8. ~(Crash \/ VMOperationFails \/ OutsideDelete \/ OutsideRepair)
  BY DEF Crash, VMOperationFails, OutsideDelete, OutsideRepair
<1>9. QED
  BY <1>1, <1>2, <1>3, <1>4, <1>5, <1>6, <1>7, <1>8 DEF Environment

-----------------------------------------------------------------------------
(***************************************************************************)
(* With current reads, a reconcile knows the phase and the providerID.     *)
(***************************************************************************)

\* Nobody but the reconcile itself changes them.
LEMMA InformedKept ==
  ASSUME Informed, api'.pid = api.pid, api'.phase = api.phase, api'.ex = api.ex,
         UNCHANGED <<pc, op, m>>
  PROVE  Informed'
  BY DEF Informed, Working, CreateCalls

\* Between two reconciles there is nothing to know.
LEMMA InformedReturn == Return => Informed'
  BY NothingRecorded DEF Return, Informed, Working, CreateCalls

\* A reconcile starts from the stored machine, which has not failed.
LEMMA InformedReconcile ==
  ASSUME IInv, ~cfg.lag, Informed, ReconcileStep PROVE Informed'
<1> USE DEF IInv
<1>1. CASE StartReconcile
  <2>1. m' = api /\ api' = api
    BY <1>1 DEF StartReconcile, Ownership, CopiesCurrent
  <2>2. QED
    BY <1>1, <2>1
       DEF Informed, Working, CreateCalls, StartReconcile, FirstCall, Ownership,
           CopiesCurrent
<1>2. CASE ExistsFails \/ InstanceFound
  BY <1>2
     DEF Informed, Working, CreateCalls, ExistsFails, InstanceFound, Goto, kube
<1>3. CASE InstanceMissing
  BY <1>3
     DEF Informed, Working, CreateCalls, InstanceMissing, machineIsProvisioned,
         Goto, kube
<1>4. CASE AddFinalizer \/ KubeCallFails
  BY <1>4, InformedReturn DEF AddFinalizer, KubeCallFails
<1>5. CASE \/ StatusExistsErr \/ StatusProvisioning \/ StatusFailed
           \/ StatusUpdateErr \/ StatusUpdated
  BY <1>5, InformedReturn
     DEF StatusExistsErr, StatusProvisioning, StatusFailed, StatusUpdateErr,
         StatusUpdated
<1>6. QED
  BY <1>1, <1>2, <1>3, <1>4, <1>5 DEF ReconcileStep

\* The calls of a creation do not touch the object.
LEMMA InformedCreate ==
  ASSUME IInv, Informed, CreateStep PROVE Informed'
  BY ReturnsControl, AzureFailsControl
     DEF IInv, Ownership, Stage, Informed, Working, CreateCalls, CreateStep,
         CreateScopeFails, CreateScope, CreateNetworkSpec, CreateLookupFails,
         CreatePublicIP, CreatePublicIPFails, CreateNIC, CreateNICFails,
         CreateAvailabilitySet, GetVM, PutVMRejected, PutVM, PutVMRefused,
         PutVMAnswerLost, Goto, kube

\* Persist leaves the phase alone, and comes after the last creation call.
LEMMA InformedUpdate ==
  ASSUME IInv, Informed, UpdateStep PROVE Informed'
<1> USE DEF IInv
<1>1. CASE UpdateScopeFails \/ UpdateScope \/ UpdateFails \/ Update
  BY <1>1, ReturnsControl
     DEF Ownership, Stage, Informed, Working, CreateCalls, UpdateScopeFails,
         UpdateScope, UpdateFails, Update, Goto, kube
<1>2. CASE PatchObject
  BY <1>2, PersistPatches
     DEF Informed, Working, CreateCalls, PatchObject, SameObject
<1>3. CASE PatchStatus
  BY <1>3, PersistPatches, InformedReturn
     DEF Informed, Working, CreateCalls, PatchStatus, Store, SameObject,
         ActuatorReturns, Goto
<1>4. CASE PatchFails
  BY <1>4, InformedReturn
     DEF Informed, Working, CreateCalls, PatchFails, ActuatorReturns, Goto, kube
<1>5. QED
  BY <1>1, <1>2, <1>3, <1>4 DEF UpdateStep

\* The answer to the patch of the phase replaces the copy.
LEMMA InformedDelete ==
  ASSUME IInv, Informed, DeleteStep PROVE Informed'
<1> USE DEF IInv
<1>1. CASE DeleteStatus
  BY <1>1, InformedReturn DEF DeleteStatus, Informed, Working, CreateCalls
<1>2. CASE DeleteScopeFails \/ DeleteCheckFails \/ RemoveFinalizer
  BY <1>2, InformedReturn
     DEF DeleteScopeFails, DeleteCheckFails, RemoveFinalizer
<1>3. CASE ~(\/ DeleteStatus \/ DeleteScopeFails
             \/ DeleteCheckFails \/ RemoveFinalizer)
  BY <1>3, ReturnsControl, AzureFailsControl
     DEF Ownership, Stage, Informed, Working, CreateCalls, DeleteStep,
         DeleteScopeFails, DeleteScope, DeleteVM, DeleteVMIncomplete,
         DeleteVMFails, DeleteDisk, DeleteDiskIncomplete, DeleteDiskFails,
         DeleteNIC, DeleteNICFails, DeletePublicIP, DeletePublicIPFails,
         DeleteAvailabilitySet, Deleted, DeleteChecked, DeleteCheckFails,
         DeleteNode, Goto, kube
<1>4. QED
  BY <1>1, <1>2, <1>3

\* Nobody else writes the phase or the providerID.
LEMMA InformedEnvironment ==
  ASSUME IInv, Informed, Environment PROVE Informed'
<1> USE DEF IInv
<1>1. CASE UserDelete
  <2>1. CASE api.fin
    BY <1>1, <2>1, OthersPatches, ExceptFields, InformedKept
       DEF UserDelete, Store, TypeOK, SameRecord
  <2>2. CASE ~api.fin
    BY <1>1, <2>2, NothingRecorded
       DEF UserDelete, Store, Ownership, Stage, Early, Informed, Working,
           CreateCalls
  <2>3. QED
    BY <2>1, <2>2
<1>2. CASE RemoveHook
  BY <1>2, OthersPatches, ExceptFields, InformedKept
     DEF RemoveHook, Store, TypeOK, SameRecord, SameObject
<1>3. CASE Drain
  BY <1>3, OthersPatches, ExceptFields, InformedKept
     DEF Drain, Store, TypeOK, SameRecord, SameObject
<1>4. CASE NodeLink
  BY <1>4, OthersPatches, ExceptFields, InformedKept
     DEF NodeLink, Store, TypeOK, SameRecord, SameObject
<1>5. CASE Crash
  BY <1>5, InformedReturn DEF Crash
<1>6. CASE CacheSync
  BY <1>6, InformedKept DEF CacheSync
<1>7. CASE \/ VMProvisioned \/ VMDeleted \/ VMOperationFails \/ OutsideDelete
           \/ OutsideRepair \/ DiskDeleted
  BY <1>7, InformedKept
     DEF VMProvisioned, VMDeleted, VMOperationFails, OutsideDelete,
         OutsideRepair, DiskDeleted, VMChanges, kube
<1>8. QED
  BY <1>1, <1>2, <1>3, <1>4, <1>5, <1>6, <1>7 DEF Environment

-----------------------------------------------------------------------------
(***************************************************************************)
(* What a creation deletes.                                                *)
(***************************************************************************)

\* A step that enters no deletion and neither fails nor repairs a VM.
LEMMA ReplacementKept ==
  ASSUME Replacement, FaultsBound, Next, api'.node => api'.pid,
         vm' = "Failed" => vm = "Failed",
         op' = "create" /\ pc' \in DeleteCalls =>
           /\ op = "create" /\ pc \in DeleteCalls
           /\ api'.pid = api.pid
           /\ vm' \in {"Creating", "Succeeded"} => Alive
  PROVE  Replacement'
<1>1. cfg' = cfg /\ faults' \in Nat /\ faults' <= faults /\ faults \in Nat
  BY CountsFaults, ConstantsAssumption DEF Fault, FaultsBound
<1>2. QED
  BY <1>1, ConstantsAssumption DEF Replacement, Alive

\* A reconcile decides what to do, and patches the status.
LEMMA ReplacementReconcile ==
  ASSUME IInv, FaultsBound, Replacement, ReconcileStep PROVE Replacement'
<1> USE DEF IInv
<1>1. vm' = vm /\ pc' \notin DeleteCalls
  BY DEF ReconcileStep, StartReconcile, FirstCall, AddFinalizer, KubeCallFails,
         ExistsFails, InstanceFound, InstanceMissing, StatusExistsErr,
         StatusProvisioning, StatusFailed, StatusUpdateErr, StatusUpdated, updateStatus,
         Goto, Return, DeleteCalls, cloud
<1>2. CASE AddFinalizer
  <2>1. m = api
    BY <1>2 DEF AddFinalizer, Ownership, CopiesCurrent
  <2>2. api'.pid = api.pid /\ api'.node = api.node
    BY <1>2, <2>1, OthersPatches DEF TypeOK, AddFinalizer, Store, SameRecord
  <2>3. QED
    BY <1>1, <2>2, ReplacementKept DEF Replacement, Next, Controller
<1>3. CASE \/ StatusExistsErr \/ StatusProvisioning \/ StatusFailed
           \/ StatusUpdateErr \/ StatusUpdated
  <2>1. api'.pid = api.pid /\ api'.node = api.node
    BY <1>3, StatusPatch
       DEF StatusExistsErr, StatusProvisioning, StatusFailed, StatusUpdateErr,
           StatusUpdated, updateStatus
  <2>2. QED
    BY <1>1, <2>1, ReplacementKept DEF Replacement, Next, Controller
<1>4. CASE StartReconcile \/ KubeCallFails \/ ExistsFails \/ InstanceFound \/ InstanceMissing
  <2>1. api' = api
    BY <1>4
       DEF StartReconcile, KubeCallFails, ExistsFails, InstanceFound, InstanceMissing, kube
  <2>2. QED
    BY <1>1, <2>1, ReplacementKept DEF Replacement, Next, Controller
<1>5. QED
  BY <1>2, <1>3, <1>4 DEF ReconcileStep

\* With current reads a creation works for a machine without a providerID.
LEMMA ReplacementCreate ==
  ASSUME IInv, FaultsBound, Replacement, ~cfg.lag => Informed, CreateStep
  PROVE  Replacement'
<1> USE DEF IInv
<1>1. api' = api
  BY DEF CreateStep, CreateScopeFails, CreateScope, CreateNetworkSpec,
         CreateLookupFails, CreatePublicIP, CreatePublicIPFails, CreateNIC,
         CreateNICFails, CreateAvailabilitySet, GetVM, PutVMRejected, PutVM,
         PutVMRefused, PutVMAnswerLost, kube
<1>2. CASE GetVM
  <2>1. vm' = vm /\ cfg' = cfg
    BY <1>2 DEF GetVM, cloud
  <2>2. CASE pc' = "delVM"
    <3>1. vm = "Failed" /\ faults' = faults
      BY <1>2, <2>2, ReturnsControl, AzureFailsControl DEF GetVM, Goto
    <3>2. ~cfg.lag => ~api.pid
      BY <1>2 DEF GetVM, Informed, CreateCalls
    <3>3. QED
      BY <1>1, <2>1, <3>1, <3>2 DEF Replacement, Alive
  <2>3. CASE pc' # "delVM"
    <3>1. pc' \notin DeleteCalls
      BY <1>2, <2>3, ReturnsControl, AzureFailsControl DEF GetVM, Goto, DeleteCalls
    <3>2. QED
      BY <1>1, <2>1, <3>1, ReplacementKept DEF Replacement, Next, Controller
  <2>4. QED
    BY <2>2, <2>3
<1>3. CASE CreateStep /\ ~GetVM
  <2>1. pc' \notin DeleteCalls /\ vm' \in {vm, "Creating"}
    BY <1>3, ReturnsControl, AzureFailsControl
       DEF CreateStep, CreateScopeFails, CreateScope, CreateNetworkSpec,
           CreateLookupFails, CreatePublicIP, CreatePublicIPFails, CreateNIC,
           CreateNICFails, CreateAvailabilitySet, PutVMRejected, PutVM,
           PutVMRefused, PutVMAnswerLost, Goto, DeleteCalls, cloud
  <2>2. QED
    BY <1>1, <2>1, ReplacementKept DEF Replacement, Next, Controller
<1>4. QED
  BY <1>2, <1>3

\* A providerID is stored after the deletions, and is not taken back.
LEMMA ReplacementUpdate ==
  ASSUME IInv, FaultsBound, Replacement, Identified, UpdateStep PROVE Replacement'
<1> USE DEF IInv
<1>1. vm' = vm /\ pc' \notin DeleteCalls
  BY ReturnsControl
     DEF UpdateStep, UpdateScopeFails, UpdateScope, UpdateFails, Update, PatchObject,
         PatchStatus, PatchFails, ActuatorReturns, Goto, Return, DeleteCalls, cloud
<1>2. api'.node => api'.pid
  <2>1. CASE PatchObject
    <3>1. api'.node = api.node /\ api'.pid = (IF s.pid = m.pid THEN api.pid ELSE s.pid)
      BY <2>1, PersistPatches DEF PatchObject
    <3>2. m.pid => s.pid
      BY <2>1 DEF PatchObject, Identified, Scoped
    <3>3. QED
      BY <3>1, <3>2 DEF TypeOK, Machine, Scope, Replacement
  <2>2. CASE PatchStatus
    BY <2>2, PersistPatches DEF PatchStatus, Store, Replacement
  <2>3. CASE ~(PatchObject \/ PatchStatus)
    BY <2>3
       DEF UpdateStep, UpdateScopeFails, UpdateScope, UpdateFails, Update, PatchFails,
           kube, Replacement
  <2>4. QED
    BY <2>1, <2>2, <2>3
<1>3. QED
  BY <1>1, <1>2, ReplacementKept DEF Next, Controller

\* The deletion goes on, or ends.
LEMMA ReplacementDelete ==
  ASSUME IInv, FaultsBound, Replacement, DeleteStep PROVE Replacement'
<1> USE DEF IInv
<1>1. CASE DeleteStatus
  <2>1. api'.pid = api.pid /\ api'.node = api.node
    BY <1>1, StatusPatch DEF DeleteStatus, updateStatus
  <2>2. vm' = vm /\ pc' \notin DeleteCalls
    BY <1>1 DEF DeleteStatus, updateStatus, Return, DeleteCalls, cloud
  <2>3. QED
    BY <2>1, <2>2, ReplacementKept DEF Replacement, Next, Controller
<1>2. CASE RemoveFinalizer
  <2>1. vm' = vm /\ pc' \notin DeleteCalls /\ ~api'.node
    BY <1>2, NothingRecorded DEF RemoveFinalizer, Store, Return, DeleteCalls, cloud
  <2>2. QED
    BY <2>1, ReplacementKept DEF Next, Controller
<1>3. CASE DeleteStep /\ ~DeleteStatus /\ ~RemoveFinalizer
  <2>1. api' = api
    BY <1>3
       DEF DeleteStep, DeleteScopeFails, DeleteScope, DeleteVM,
           DeleteVMIncomplete, DeleteVMFails, DeleteDisk, DeleteDiskIncomplete,
           DeleteDiskFails, DeleteNIC, DeleteNICFails, DeletePublicIP,
           DeletePublicIPFails, DeleteAvailabilitySet, DeleteChecked,
           DeleteCheckFails, DeleteNode, kube
  <2>2. vm' \in {vm, "absent", "Deleting"}
    BY <1>3
       DEF DeleteStep, DeleteScopeFails, DeleteScope, DeleteVM,
           DeleteVMIncomplete, DeleteVMFails, DeleteDisk, DeleteDiskIncomplete,
           DeleteDiskFails, DeleteNIC, DeleteNICFails, DeletePublicIP,
           DeletePublicIPFails, DeleteAvailabilitySet, DeleteChecked,
           DeleteCheckFails, DeleteNode, cloud
  <2>3. op' = "create" /\ pc' \in DeleteCalls => op = "create" /\ pc \in DeleteCalls
    BY <1>3, ReturnsControl, AzureFailsControl
       DEF DeleteStep, DeleteScopeFails, DeleteScope, DeleteVM,
           DeleteVMIncomplete, DeleteVMFails, DeleteDisk, DeleteDiskIncomplete,
           DeleteDiskFails, DeleteNIC, DeleteNICFails, DeletePublicIP,
           DeletePublicIPFails, DeleteAvailabilitySet, Deleted, DeleteChecked,
           DeleteCheckFails, DeleteNode, Goto, Return, DeleteCalls
  <2>4. QED
    BY <1>3, <2>1, <2>2, <2>3, ReplacementKept DEF Replacement, Alive, Next, Controller
<1>4. QED
  BY <1>1, <1>2, <1>3

\* A failed operation, and a repair, are faults.
LEMMA ReplacementEnvironment ==
  ASSUME IInv, FaultsBound, Replacement, Identified, Environment PROVE Replacement'
<1> USE DEF IInv
<1>1. CASE UserDelete
  <2>1. UNCHANGED <<vm, pc, op>>
    BY <1>1 DEF UserDelete, cloud
  <2>2. CASE api.fin
    <3>1. api'.pid = api.pid /\ api'.node = api.node
      BY <1>1, <2>2, OthersPatches DEF UserDelete, Store, TypeOK, SameRecord
    <3>2. QED
      BY <2>1, <3>1, ReplacementKept DEF Replacement, Next, Alive
  <2>3. CASE ~api.fin
    <3>1. ~api'.node /\ pc \notin DeleteCalls
      BY <1>1, <2>3, NothingRecorded
         DEF UserDelete, Store, Ownership, Stage, Early, DeleteCalls
    <3>2. QED
      BY <2>1, <3>1, ReplacementKept DEF Next
  <2>4. QED
    BY <2>2, <2>3
<1>2. CASE RemoveHook \/ Drain
  <2>1. api'.pid = api.pid /\ api'.node = api.node
    <3>1. CASE RemoveHook
      BY <3>1, OthersPatches DEF RemoveHook, Store, TypeOK, SameRecord
    <3>2. CASE Drain
      BY <3>2, OthersPatches DEF Drain, Store, TypeOK, SameRecord
    <3>3. QED
      BY <1>2, <3>1, <3>2
  <2>2. UNCHANGED <<vm, pc, op>>
    BY <1>2 DEF RemoveHook, Drain, cloud
  <2>3. QED
    BY <2>1, <2>2, ReplacementKept DEF Replacement, Next, Alive
<1>3. CASE NodeLink
  <2>1. api'.pid = api.pid /\ api.pid
    BY <1>3, OthersPatches
       DEF NodeLink, Store, TypeOK, SameRecord, Identified, IDFirst
  <2>2. UNCHANGED <<vm, pc, op>>
    BY <1>3 DEF NodeLink, cloud
  <2>3. QED
    BY <2>1, <2>2, ReplacementKept DEF Next, Alive
<1>4. CASE Crash
  BY <1>4, ReplacementKept DEF Crash, Return, Replacement, DeleteCalls, Next, kube, cloud
<1>5. CASE CacheSync \/ VMProvisioned \/ VMDeleted \/ OutsideDelete \/ DiskDeleted
  <2>1. /\ api' = api /\ UNCHANGED <<pc, op>> /\ (vm' = "Failed" => vm = "Failed")
        /\ vm' \in {"Creating", "Succeeded"} => Alive
    BY <1>5
       DEF CacheSync, VMProvisioned, VMDeleted, OutsideDelete, DiskDeleted, VMChanges,
           Alive, kube, cloud
  <2>2. QED
    BY <2>1, ReplacementKept DEF Replacement, Next
<1>6. CASE VMOperationFails \/ OutsideRepair
  <2>1. /\ api' = api /\ UNCHANGED <<cfg, pc, op>> /\ faults > 0 /\ faults' = faults - 1
        /\ vm' \in {"Creating", "Succeeded"} => vm = "Failed"
    BY <1>6 DEF VMOperationFails, OutsideRepair, VMChanges, Fault, kube
  <2>2. faults \in Nat /\ faults <= MaxFaults /\ MaxFaults \in Nat
    BY ConstantsAssumption DEF FaultsBound
  <2>3. QED
    BY <2>1, <2>2 DEF Replacement, Alive
<1>7. QED
  BY <1>1, <1>2, <1>3, <1>4, <1>5, <1>6 DEF Environment

-----------------------------------------------------------------------------
(***************************************************************************)
(* The theorems.                                                           *)
(***************************************************************************)
\* A new machine has no history.
LEMMA HistoryInit == Init => History
<1> SUFFICES ASSUME Init PROVE History
  OBVIOUS
<1>1. /\ api.pid = FALSE /\ api.addr = FALSE /\ api.created = "none" /\ api.phase = ""
      /\ cache = api /\ m = Gone /\ s = NoScope
  BY DEF Init, Blank
<1>2. Permitted /\ FaultsBound
  BY ConstantsAssumption DEF Init, Permitted, FaultsBound
<1>3. Identified
  BY <1>1, NothingRecorded DEF Init, Identified, IDFirst, Scoped
<1>4. Blameless
  BY <1>1, NothingRecorded DEF Init, Blameless, Working, DeleteCalls
<1>5. Informed
  BY DEF Init, Informed, CreateCalls, Working
<1>6. Replacement
  BY DEF Init, Blank, Replacement
<1>7. QED
  BY <1>2, <1>3, <1>4, <1>5, <1>6 DEF History

\* Every step keeps the invariant.
LEMMA HistoryNext == IInv /\ History /\ [Next]_vars => History'
<1> SUFFICES ASSUME IInv, History, [Next]_vars PROVE History'
  OBVIOUS
<1>1. CASE UNCHANGED vars
  BY <1>1
     DEF vars, History, Permitted, Identified, IDFirst, Scoped, FaultsBound,
         Sound, NetworkSpecInvalid, Blameless, Alive, Working, DeleteCalls,
         Informed, CreateCalls, Replacement
<1>2. CASE Next
  <2>1. Permitted'
    BY <1>2, PermittedStep DEF History
  <2>2. Identified'
    BY <1>2, IdentifiedReconcile, IdentifiedCreate, IdentifiedUpdate,
       IdentifiedDelete, IdentifiedEnvironment
       DEF History, Next, Controller
  <2>3. FaultsBound' /\ (Sound' => Sound /\ ~Fault)
    BY <1>2, FaultsStep DEF History, IInv
  <2>4. Sound' => Blameless'
    BY <1>2, <2>3, BlamelessReconcile, BlamelessCreate, BlamelessUpdate,
       BlamelessDelete, BlamelessEnvironment
       DEF History, Next, Controller
  <2>5. ~cfg'.lag => Informed'
    <3>1. cfg' = cfg
      BY <1>2, CountsFaults
    <3>2. QED
      BY <1>2, <3>1, InformedReconcile, InformedCreate, InformedUpdate,
         InformedDelete, InformedEnvironment
         DEF History, Next, Controller
  <2>6. Replacement'
    BY <1>2, ReplacementReconcile, ReplacementCreate, ReplacementUpdate,
       ReplacementDelete, ReplacementEnvironment
       DEF History, Next, Controller
  <2>7. QED
    BY <2>1, <2>2, <2>3, <2>4, <2>5, <2>6 DEF History
<1>3. QED
  BY <1>1, <1>2

(***************************************************************************)
(* The second inductive invariant, on top of the first.                    *)
(***************************************************************************)
THEOREM HistoryHolds == Spec => [](IInv /\ History)
<1>1. Init => History
  BY HistoryInit
<1>2. QED
  BY <1>1, HistoryNext, InvariantHolds, PTL DEF Spec

(***************************************************************************)
(* Both callers of Reconciler.Delete.  actuator.Delete deletes for a       *)
(* machine that the user deleted, that is drained and that no hook holds   *)
(* back, according to the API server, whatever copies the controllers      *)
(* worked from.  createVirtualMachine deletes after a VM has failed and,   *)
(* with current reads, only for a machine without a providerID and a node; *)
(* a VM in working order only if it was repaired after it was read.        *)
(***************************************************************************)
THEOREM TerminationAllowedHolds == Spec => []TerminationAllowed
<1>1. History => TerminationAllowed
  BY DEF History, Permitted, Replacement, Alive, DeleteCalls, TerminationAllowed
<1>2. QED
  BY <1>1, HistoryHolds, PTL

(***************************************************************************)
(* PatchMachine's order: addresses and a successful creation are reported  *)
(* only for a machine that has its providerID, after every crash between   *)
(* the two patches and with every outdated copy they are computed from.    *)
(***************************************************************************)
THEOREM ProviderIDFirstHolds == Spec => []ProviderIDFirst
<1>1. History => ProviderIDFirst
  BY DEF History, Identified, IDFirst, ProviderIDFirst
<1>2. QED
  BY <1>1, HistoryHolds, PTL

(***************************************************************************)
(* The phase Failed has a cause: without a fault or an invalid             *)
(* configuration no interleaving of reconciles, outdated copies, retries   *)
(* and deletion leads to it.                                               *)
(***************************************************************************)
THEOREM OnlyFaultsFailHolds == Spec => []OnlyFaultsFail
<1>1. History => OnlyFaultsFail
  BY DEF History, Sound, Blameless, OnlyFaultsFail
<1>2. QED
  BY <1>1, HistoryHolds, PTL

(***************************************************************************)
(* With current reads no VM is created for a machine with a providerID.    *)
(***************************************************************************)
THEOREM NoSecondVMHolds == Spec => NoSecondVM
<1>1. IInv /\ History /\ [Next]_vars
        => [~cfg.lag /\ pc = "crPutVM" /\ vm' = "Creating" => ~api.pid]_vars
  BY DEF History, Informed, CreateCalls
<1>2. QED
  BY <1>1, HistoryHolds, PTL DEF Spec, NoSecondVM

\* What a step makes of a machine that has failed.
LEMMA FailedStep ==
  ASSUME IInv, History, Next, ~cfg.lag, api.phase = "Failed", api'.ex
  PROVE  api'.phase = "Failed" \/ (api'.phase = "Deleting" /\ api'.del)
<1> USE DEF IInv
<1>1. Informed
  BY DEF History
<1>2. ~(\/ StatusExistsErr \/ StatusProvisioning \/ StatusFailed
        \/ StatusUpdateErr \/ StatusUpdated)
  BY <1>1
     DEF Informed, Working, StatusExistsErr, StatusProvisioning, StatusFailed,
         StatusUpdateErr, StatusUpdated, updateStatus, Ownership, Stage
<1>3. CASE AddFinalizer
  <2>1. m = api
    BY <1>3 DEF AddFinalizer, Ownership, CopiesCurrent
  <2>2. QED
    BY <1>3, <2>1, OthersPatches DEF AddFinalizer, Store, SameRecord, TypeOK
<1>4. CASE DeleteStatus
  <2>1. Kept /\ api.ex
    BY <1>4, UpdateStatusKept DEF DeleteStatus
  <2>2. m.phase = "Failed" /\ api.del
    BY <1>1, <1>4, <2>1 DEF Informed, DeleteStatus, Ownership, Stage, Deleting
  <2>3. api'.phase = "Deleting"
    BY <1>4, <2>2, StatusPatch DEF DeleteStatus, updateStatus
  <2>4. QED
    BY <2>1, <2>2, <2>3 DEF Kept, SameObject
<1>5. CASE PatchObject \/ PatchStatus
  BY <1>5, PersistPatches DEF PatchObject, PatchStatus, Store
<1>6. CASE RemoveFinalizer
  BY <1>6, NothingRecorded DEF RemoveFinalizer, Store
<1>7. CASE UserDelete
  BY <1>7, NothingRecorded, OthersPatches
     DEF UserDelete, Store, SameRecord, TypeOK
<1>8. CASE RemoveHook
  BY <1>8, OthersPatches DEF RemoveHook, Store, SameRecord, TypeOK
<1>9. CASE Drain
  BY <1>9, OthersPatches DEF Drain, Store, SameRecord, TypeOK
<1>10. CASE NodeLink
  BY <1>10, OthersPatches DEF NodeLink, Store, SameRecord, TypeOK
<1>11. QED
  BY <1>2, <1>3, <1>4, <1>5, <1>6, <1>7, <1>8, <1>9, <1>10
     DEF Next, Controller, ReconcileStep, StartReconcile, KubeCallFails,
         ExistsFails, InstanceFound, InstanceMissing, CreateStep,
         CreateScopeFails, CreateScope, CreateNetworkSpec, CreateLookupFails,
         CreatePublicIP, CreatePublicIPFails, CreateNIC, CreateNICFails,
         CreateAvailabilitySet, GetVM, PutVMRejected, PutVM, PutVMRefused,
         PutVMAnswerLost, UpdateStep, UpdateScopeFails, UpdateScope,
         UpdateFails, Update, PatchFails, DeleteStep, DeleteScopeFails,
         DeleteScope, DeleteVM, DeleteVMIncomplete, DeleteVMFails, DeleteDisk,
         DeleteDiskIncomplete, DeleteDiskFails, DeleteNIC, DeleteNICFails,
         DeletePublicIP, DeletePublicIPFails, DeleteAvailabilitySet, Deleted,
         DeleteChecked, DeleteCheckFails, DeleteNode, Environment, CacheSync,
         Crash, VMProvisioned, VMDeleted, VMOperationFails, OutsideDelete,
         OutsideRepair, DiskDeleted, VMChanges, kube

(***************************************************************************)
(* With current reads Failed is left only for Deleting, after the user's   *)
(* deletion.                                                               *)
(***************************************************************************)
THEOREM FailedIsFinalHolds == Spec => FailedIsFinal
<1>1. IInv /\ History /\ [Next]_vars
        => [~cfg.lag /\ api.phase = "Failed" /\ api'.ex
              => api'.phase = "Failed" \/ (api'.phase = "Deleting" /\ api'.del)]_vars
  BY FailedStep
<1>2. QED
  BY <1>1, HistoryHolds, PTL DEF Spec, FailedIsFinal
=============================================================================
