------------------------ MODULE ResourceOwnerProofs ------------------------
(***************************************************************************)
(* MachineLifecycle implements ResourceOwner: its initial states map to    *)
(* the initial state of the protocol, and each of its steps maps to a step *)
(* of the protocol or leaves the mapped state alone.                       *)
(***************************************************************************)
EXTENDS MachineLifecycleProofs

\* What a step does to the cloud: it only adds resources, or only removes.
Grows == /\ vm' = "absent" => vm = "absent"
         /\ disk' = "absent" => disk = "absent"
         /\ nic' = "absent" => nic = "absent"
         /\ pip' = "absent" => pip = "absent"

Shrinks == /\ vm = "absent" => vm' = "absent"
           /\ disk = "absent" => disk' = "absent"
           /\ nic = "absent" => nic' = "absent"
           /\ pip = "absent" => pip' = "absent"

\* No step does both: a creation only adds, everything else only removes.
LEMMA CloudStep == Next => Grows \/ Shrinks
<1>1. ReconcileStep => Grows
  BY DEF Grows, ReconcileStep, StartReconcile, AddFinalizer, KubeCallFails,
         ExistsFails, InstanceFound, InstanceMissing, StatusExistsErr,
         StatusProvisioning, StatusFailed, StatusUpdateErr, StatusUpdated,
         updateStatus, cloud
<1>2. CreateStep => Grows
  BY DEF Grows, CreateStep, CreateScopeFails, CreateScope, CreateNetworkSpec,
         CreateLookupFails, CreatePublicIP, CreatePublicIPFails, CreateNIC,
         CreateNICFails, CreateAvailabilitySet, GetVM, PutVMRejected, PutVM,
         PutVMRefused, PutVMAnswerLost, cloud
<1>3. UpdateStep => Grows
  BY DEF Grows, UpdateStep, UpdateScopeFails, UpdateScope, UpdateFails, Update,
         PatchObject, PatchStatus, PatchFails, cloud
<1>4. DeleteStep => Shrinks
  BY DEF Shrinks, DeleteStep, DeleteStatus, updateStatus, DeleteScopeFails,
         DeleteScope, DeleteVM, DeleteVMIncomplete, DeleteVMFails, DeleteDisk,
         DeleteDiskIncomplete, DeleteDiskFails, DeleteNIC, DeleteNICFails,
         DeletePublicIP, DeletePublicIPFails, DeleteAvailabilitySet,
         DeleteChecked, DeleteCheckFails, DeleteNode, RemoveFinalizer, cloud
<1>5. Environment => Shrinks
  BY DEF Shrinks, Environment, CacheSync, Crash, UserDelete, RemoveHook, Drain,
         NodeLink, VMProvisioned, VMDeleted, VMOperationFails, OutsideDelete,
         OutsideRepair, DiskDeleted, VMChanges, cloud
<1>6. QED
  BY <1>1, <1>2, <1>3, <1>4, <1>5 DEF Next, Controller

\* Three steps change the existence, the finalizer or the deletion timestamp
\* of the object, and these do not touch the cloud.
LEMMA ObjectStep ==
  ASSUME TypeOK, Next
  PROVE  \/ SameObject(api', api)
         \/ AddFinalizer \/ UserDelete \/ RemoveFinalizer
<1>1. ReconcileStep => SameObject(api', api) \/ AddFinalizer
  <2>1. ASSUME NEW ph, NEW i, updateStatus(ph, i) PROVE SameObject(api', api)
    BY <2>1, UpdateStatusKept DEF Kept
  <2>2. QED
    BY <2>1
       DEF ReconcileStep, StartReconcile, KubeCallFails, ExistsFails,
           InstanceFound, InstanceMissing, StatusExistsErr, StatusProvisioning,
           StatusFailed, StatusUpdateErr, StatusUpdated, SameObject, kube
<1>2. CreateStep => SameObject(api', api)
  BY DEF CreateStep, CreateScopeFails, CreateScope, CreateNetworkSpec,
         CreateLookupFails, CreatePublicIP, CreatePublicIPFails, CreateNIC,
         CreateNICFails, CreateAvailabilitySet, GetVM, PutVMRejected, PutVM,
         PutVMRefused, PutVMAnswerLost, SameObject, kube
<1>3. UpdateStep => SameObject(api', api)
  BY PersistFields
     DEF UpdateStep, UpdateScopeFails, UpdateScope, UpdateFails, Update,
         PatchObject, PatchStatus, PatchFails, Store, SameObject, TypeOK, kube
<1>4. DeleteStep => SameObject(api', api) \/ RemoveFinalizer
  <2>1. DeleteStatus => SameObject(api', api)
    BY UpdateStatusKept DEF DeleteStatus, Kept
  <2>2. QED
    BY <2>1
       DEF DeleteStep, DeleteScopeFails, DeleteScope, DeleteVM,
           DeleteVMIncomplete, DeleteVMFails, DeleteDisk, DeleteDiskIncomplete,
           DeleteDiskFails, DeleteNIC, DeleteNICFails, DeletePublicIP,
           DeletePublicIPFails, DeleteAvailabilitySet, DeleteChecked,
           DeleteCheckFails, DeleteNode, SameObject, kube
<1>5. Environment => SameObject(api', api) \/ UserDelete
  <2>1. RemoveHook \/ Drain \/ NodeLink => SameObject(api', api)
    BY ExceptFields DEF RemoveHook, Drain, NodeLink, Store, TypeOK
  <2>2. QED
    BY <2>1
       DEF Environment, CacheSync, Crash, VMProvisioned, VMDeleted,
           VMOperationFails, OutsideDelete, OutsideRepair, DiskDeleted,
           VMChanges, SameObject, kube
<1>6. QED
  BY <1>1, <1>2, <1>3, <1>4, <1>5 DEF Next, Controller

-----------------------------------------------------------------------------
\* The mapping of the cloud.
LEMMA HeldStep ==
  /\ Grows => HeldResources \subseteq HeldResources'
  /\ Shrinks => HeldResources' \subseteq HeldResources
  /\ CloudEmpty <=> HeldResources = {}
  /\ UNCHANGED cloud => UNCHANGED HeldResources
<1>1. Grows => HeldResources \subseteq HeldResources'
  BY DEF Grows, HeldResources
<1>2. Shrinks => HeldResources' \subseteq HeldResources
  BY DEF Shrinks, HeldResources
<1>3. CloudEmpty <=> HeldResources = {}
  BY DEF CloudEmpty, HeldResources
<1>4. UNCHANGED cloud => UNCHANGED HeldResources
  BY DEF cloud, HeldResources
<1>5. QED
  BY <1>1, <1>2, <1>3, <1>4

\* A step of the cloud alone acquires resources for an object that is
\* guarded, or releases some.
LEMMA OwnerCloudStep ==
  ASSUME IInv, IInv', Next, SameObject(api', api)
  PROVE  Owner!Next
<1>1. UNCHANGED ObjectState
  BY DEF ObjectState, SameObject
<1>2. HeldResources \in SUBSET {"vm", "disk", "nic", "pip"}
      /\ HeldResources' \in SUBSET {"vm", "disk", "nic", "pip"}
  BY DEF HeldResources
<1>3. CASE Shrinks
  <2>1. HeldResources' = HeldResources \ (HeldResources \ HeldResources')
    BY <1>3, HeldStep
  <2>2. Owner!Release(HeldResources \ HeldResources')
    BY <1>1, <2>1 DEF Owner!Release
  <2>3. QED
    BY <1>2, <2>2 DEF Owner!Next
<1>4. CASE Grows /\ ~Shrinks
  <2>1. ~CloudEmpty'
    BY <1>4 DEF Shrinks, CloudEmpty
  <2>2. ObjectState \in {"guarded", "deleting"}
    BY <2>1 DEF IInv, Ownership, NoOrphan, ObjectState, SameObject
  <2>3. HeldResources' = HeldResources \cup HeldResources'
    BY <1>4, HeldStep
  <2>4. Owner!Acquire(HeldResources')
    BY <1>1, <2>2, <2>3 DEF Owner!Acquire
  <2>5. QED
    BY <1>2, <2>4 DEF Owner!Next
<1>5. QED
  BY <1>3, <1>4, CloudStep

\* The finalizer is added, or was there already.
LEMMA OwnerAddFinalizer ==
  ASSUME IInv, AddFinalizer
  PROVE  Owner!Next \/ UNCHANGED Owner!ownerVars
<1>1. m = api /\ ~api.del /\ api.ex
  BY DEF IInv, Ownership, CopiesCurrent, Stage, AddFinalizer
<1>2. api'.ex /\ ~api'.del /\ api'.fin
  BY <1>1, ExceptFields DEF AddFinalizer, Store, IInv, TypeOK
<1>3. UNCHANGED HeldResources
  BY HeldStep DEF AddFinalizer
<1>4. CASE api.fin
  BY <1>1, <1>2, <1>3, <1>4 DEF ObjectState, Owner!ownerVars
<1>5. CASE ~api.fin
  BY <1>1, <1>2, <1>3, <1>5 DEF ObjectState, Owner!Guard, Owner!Next
<1>6. QED
  BY <1>4, <1>5

\* The user deletes an object that is guarded, or one that holds nothing.
LEMMA OwnerUserDelete == ASSUME IInv, UserDelete PROVE Owner!Next
<1>1. UNCHANGED HeldResources
  BY HeldStep DEF UserDelete
<1>2. CASE api.fin
  <2>1. api.ex /\ ~api.del /\ api'.ex /\ api'.del
    BY <1>2, ExceptFields DEF UserDelete, Store, IInv, TypeOK
  <2>2. QED
    BY <1>1, <1>2, <2>1 DEF ObjectState, Owner!RequestDelete, Owner!Next
<1>3. CASE ~api.fin
  <2>1. api.ex /\ ~api.del /\ ~api'.ex
    BY <1>3, GoneFields DEF UserDelete, Store
  <2>2. QED
    BY <1>1, <1>3, <2>1 DEF ObjectState, Owner!RequestDelete, Owner!Next
<1>4. QED
  BY <1>2, <1>3

\* The finalizer is removed from a deleted object that holds nothing any more.
LEMMA OwnerRemoveFinalizer == ASSUME IInv, RemoveFinalizer PROVE Owner!Next
<1>1. UNCHANGED HeldResources
  BY HeldStep DEF RemoveFinalizer
<1>2. CloudEmpty /\ api.ex /\ api.del
  BY DEF IInv, Ownership, TearDown, TeardownOrder, CloudEmpty, Stage, Deleting,
         RemoveFinalizer
<1>3. ~api'.ex
  BY GoneFields DEF RemoveFinalizer, Store
<1>4. QED
  BY <1>1, <1>2, <1>3, HeldStep DEF ObjectState, Owner!Finish, Owner!Next

(***************************************************************************)
(* The lifecycle implements the finalizer protocol, for every number of    *)
(* faults and every set of machines, with stale reads or without: no step  *)
(* acquires a resource for an unprotected or vanished object, or lets the  *)
(* object vanish while it holds one.                                       *)
(***************************************************************************)
THEOREM ImplementsResourceOwnerHolds == Spec => ImplementsResourceOwner
<1>1. ASSUME Init PROVE Owner!Init
  <2>1. api.ex = TRUE /\ api.del = FALSE /\ api.fin = FALSE
    BY <1>1 DEF Init, Blank
  <2>2. CloudEmpty
    BY <1>1 DEF Init, CloudEmpty
  <2>3. QED
    BY <2>1, <2>2, HeldStep DEF ObjectState, Owner!Init
<1>2. IInv /\ IInv' /\ [Next]_vars => [Owner!Next]_(Owner!ownerVars)
  <2>1. ASSUME UNCHANGED vars PROVE UNCHANGED Owner!ownerVars
    BY <2>1 DEF vars, ObjectState, HeldResources, Owner!ownerVars
  <2>2. ASSUME IInv, IInv', Next PROVE Owner!Next \/ UNCHANGED Owner!ownerVars
    BY <2>2, ObjectStep, OwnerCloudStep, OwnerAddFinalizer, OwnerUserDelete,
       OwnerRemoveFinalizer
       DEF IInv
  <2>3. QED
    BY <2>1, <2>2
<1>3. QED
  BY <1>1, <1>2, InvariantHolds, PTL DEF Spec, Owner!Spec, ImplementsResourceOwner
=============================================================================
