----------------------- MODULE MachineLifecycleProofs -----------------------
(***************************************************************************)
(* Proofs, for every number of faults, every set of provider specs and     *)
(* with or without stale reads, that MachineLifecycle is type correct, and *)
(* that no Azure resource outlives its Machine.                            *)
(***************************************************************************)
EXTENDS MachineLifecycle, TLAPS

-----------------------------------------------------------------------------
(***************************************************************************)
(* Types of the values the steps build.                                    *)
(***************************************************************************)

\* The empty machine and the empty scope are well typed.
LEMMA GoneType == Gone \in Machine
  BY DEF Gone, Blank, Machine, Phases, VMStates, States, Statuses

LEMMA NoScopeType == NoScope \in Scope
  BY DEF NoScope, Scope, VMStates, States, Statuses

\* A scope is built from a machine, and changed one field at a time.
LEMMA ScopeTypes ==
  ASSUME NEW a \in Machine, NEW x \in Scope
  PROVE  /\ ScopeOf(a) \in Scope
         /\ [x EXCEPT !.created = "False"] \in Scope
         /\ \A v \in States : [x EXCEPT !.vmState = v] \in Scope
  BY DEF ScopeOf, Scope, Machine, Statuses

\* The changes other components make to a machine.
LEMMA ExceptTypes ==
  ASSUME NEW a \in Machine
  PROVE  /\ [a EXCEPT !.fin = TRUE] \in Machine
         /\ [a EXCEPT !.del = TRUE] \in Machine
         /\ [a EXCEPT !.hook = FALSE] \in Machine
         /\ [a EXCEPT !.drained = TRUE] \in Machine
         /\ [a EXCEPT !.node = TRUE] \in Machine
  BY DEF Machine

\* The merge patch of updateStatus yields a machine.
LEMMA PatchedType ==
  ASSUME api \in Machine, m \in Machine,
         NEW ph \in Phases, NEW i \in Statuses \cup {"Unknown"}
  PROVE  Patched(ph, i) \in Machine
<1> DEFINE lc   == IF m.hook THEN "False" ELSE "True"
           same == m.lc = lc /\ m.inst = i
           p == IF m.phase = ph /\ ph # "Failed" THEN api.phase ELSE ph
           v == IF ph = "Failed" /\ api.vmState # "none" THEN "Unknown" ELSE api.vmState
           l == IF same THEN api.lc ELSE lc
           j == IF same THEN api.inst ELSE i
           d == IF same THEN api.drained ELSE m.drained
<1>1. p \in Phases
  BY DEF Machine
<1>2. v \in States
  BY DEF Machine, States
<1>3. l \in Statuses
  BY DEF Machine, Statuses
<1>4. j \in Statuses \cup {"Unknown"}
  BY DEF Machine
<1>5. d \in BOOLEAN
  BY DEF Machine
<1>6. Patched(ph, i) = [api EXCEPT !.phase = p, !.vmState = v, !.lc = l,
                                   !.inst = j, !.drained = d]
  BY DEF Patched
<1> HIDE DEF p, v, l, j, d
<1>7. QED
  BY <1>1, <1>2, <1>3, <1>4, <1>5, <1>6 DEF Machine

\* The two merge patches of Persist yield machines.
LEMMA ObjectPatchedType ==
  ASSUME TypeOK PROVE ObjectPatched \in Machine
<1>1. (IF s.pid = m.pid THEN api.pid ELSE s.pid) \in BOOLEAN
  BY DEF TypeOK, Machine, Scope
<1>2. QED
  BY <1>1 DEF ObjectPatched, TypeOK, Machine

LEMMA StatusPatchedType ==
  ASSUME TypeOK PROVE StatusPatched \in Machine
<1> DEFINE a == IF s.addr = m.addr THEN api.addr ELSE s.addr
           c == IF s.created = m.created THEN api.created ELSE s.created
           v == IF s.vmState = m.vmState THEN api.vmState ELSE s.vmState
<1>1. a \in BOOLEAN /\ c \in Statuses /\ v \in States
  BY DEF TypeOK, Machine, Scope
<1>2. StatusPatched = [api EXCEPT !.addr = a, !.created = c, !.vmState = v]
  BY DEF StatusPatched
<1> HIDE DEF a, c, v
<1>3. QED
  BY <1>1, <1>2 DEF TypeOK, Machine

-----------------------------------------------------------------------------
(***************************************************************************)
(* The three parts of the type invariant, and the shared pieces of steps.  *)
(***************************************************************************)
CtlType == /\ pc \in Labels /\ op \in Ops /\ m \in Machine /\ s \in Scope
           /\ res \in Results /\ code \in Codes \cup {"none"}

KubeType == /\ api \in Machine /\ cache \in Machine
            /\ cacheFresh \in BOOLEAN /\ fresh \in BOOLEAN

CloudType == /\ cfg \in Config /\ faults \in Nat
             /\ vm \in VMStates /\ disk \in {"absent", "present", "deleting"}
             /\ nic \in {"absent", "present"} /\ pip \in {"absent", "present"}

\* The parts make up the whole, before and after a step.
LEMMA TypeParts == TypeOK <=> CtlType /\ KubeType /\ CloudType
  BY DEF TypeOK, CtlType, KubeType, CloudType

LEMMA TypePartsNext == CtlType' /\ KubeType' /\ CloudType' => TypeOK'
  BY DEF TypeOK, CtlType, KubeType, CloudType

\* A reconcile that returns, or goes on, leaves its variables well typed.
LEMMA ReturnType == Return => CtlType'
  BY GoneType, NoScopeType DEF Return, CtlType, Labels, Ops, Results

LEMMA GotoType ==
  ASSUME TypeOK, NEW l \in Labels, Goto(l) PROVE CtlType'
  BY DEF Goto, CtlType, TypeOK

LEMMA ReturnsType ==
  ASSUME TypeOK, NEW sc \in Scope, NEW r \in Results, NEW c \in Codes \cup {"none"},
         ReconcilerReturns(sc, r, c)
  PROVE  CtlType'
  BY ScopeTypes DEF CtlType, TypeOK, ReconcilerReturns, Ops, Results, Labels

LEMMA FaultType == TypeOK /\ Fault => faults' \in Nat
  BY DEF TypeOK, Fault

LEMMA AzureFailsType ==
  ASSUME TypeOK, AzureFails PROVE CtlType' /\ faults' \in Nat
<1>1. PICK c \in Codes : ReconcilerReturns(s, Classify(c), c)
  BY DEF AzureFails
<1>2. Classify(c) \in Results
  BY DEF Classify, Results
<1>3. CtlType'
  BY <1>1, <1>2, ReturnsType DEF TypeOK
<1>4. QED
  BY <1>3, FaultType DEF AzureFails

\* A step that stores a machine, or patches its status.
LEMMA StoreType ==
  ASSUME TypeOK, NEW a \in Machine, Store(a), cache' = cache PROVE KubeType'
  BY DEF TypeOK, Store, KubeType

LEMMA UpdateStatusType ==
  ASSUME TypeOK, NEW ph \in Phases, NEW i \in Statuses \cup {"Unknown"},
         updateStatus(ph, i)
  PROVE  KubeType' /\ CloudType'
  BY PatchedType DEF updateStatus, TypeOK, KubeType, CloudType, cloud

\* The fields of a machine that the status patches are computed from.
LEMMA StatusFieldTypes ==
  ASSUME NEW a \in Machine
  PROVE  a.phase \in Phases /\ a.inst \in Statuses \cup {"Unknown"}
  BY DEF Machine

\* Every step of ReconcileStep preserves the types.
LEMMA TypeReconcile == TypeOK /\ ReconcileStep => TypeOK'
<1> SUFFICES ASSUME TypeOK, ReconcileStep PROVE TypeOK'
  OBVIOUS
<1>1. CASE StartReconcile
  <2>1. CtlType'
    BY <1>1
       DEF TypeOK, CtlType, Labels, Results, Ops, StartReconcile, FirstCall
  <2>2. KubeType' /\ CloudType'
    BY <1>1
       DEF TypeOK, KubeType, CloudType, kube, cloud, VMStates, StartReconcile,
           FirstCall
  <2>3. QED
    BY <2>1, <2>2, TypePartsNext
<1>2. CASE AddFinalizer
  <2>1. CtlType'
    BY <1>2, ReturnType, ScopeTypes
       DEF TypeOK, CtlType, Labels, Results, Ops, AddFinalizer
  <2>2. KubeType' /\ CloudType'
    BY <1>2, StoreType, ExceptTypes
       DEF TypeOK, KubeType, CloudType, kube, cloud, VMStates, AddFinalizer
  <2>3. QED
    BY <2>1, <2>2, TypePartsNext
<1>3. CASE KubeCallFails
  <2>1. CtlType'
    BY <1>3, ReturnType
       DEF TypeOK, CtlType, Labels, Results, Ops, KubeCallFails, KubeCalls
  <2>2. KubeType' /\ CloudType'
    BY <1>3, FaultType
       DEF TypeOK, KubeType, CloudType, kube, cloud, VMStates, KubeCallFails,
           KubeCalls
  <2>3. QED
    BY <2>1, <2>2, TypePartsNext
<1>4. CASE ExistsFails
  <2>1. CtlType'
    BY <1>4, GotoType
       DEF TypeOK, CtlType, Labels, Results, Ops, ExistsFails, NewScopeFails
  <2>2. KubeType' /\ CloudType'
    BY <1>4, FaultType
       DEF TypeOK, KubeType, CloudType, kube, cloud, VMStates, ExistsFails,
           NewScopeFails
  <2>3. QED
    BY <2>1, <2>2, TypePartsNext
<1>5. CASE InstanceFound
  <2>1. CtlType'
    BY <1>5, GotoType
       DEF TypeOK, CtlType, Labels, Results, Ops, InstanceFound, ExistsTrue
  <2>2. KubeType' /\ CloudType'
    BY <1>5
       DEF TypeOK, KubeType, CloudType, kube, cloud, VMStates, InstanceFound,
           ExistsTrue
  <2>3. QED
    BY <2>1, <2>2, TypePartsNext
<1>6. CASE InstanceMissing
  <2>1. CtlType'
    BY <1>6, GotoType
       DEF TypeOK, CtlType, Labels, Results, Ops, InstanceMissing, ExistsFalse,
           machineIsProvisioned
  <2>2. KubeType' /\ CloudType'
    BY <1>6
       DEF TypeOK, KubeType, CloudType, kube, cloud, VMStates, InstanceMissing,
           ExistsFalse, machineIsProvisioned
  <2>3. QED
    BY <2>1, <2>2, TypePartsNext
<1>7. CASE StatusExistsErr
  <2>1. KubeType' /\ CloudType'
    BY <1>7, UpdateStatusType, StatusFieldTypes
       DEF TypeOK, Phases, Statuses, StatusExistsErr
  <2>2. CtlType'
    BY <1>7, ReturnType DEF StatusExistsErr
  <2>3. QED
    BY <2>1, <2>2, TypePartsNext
<1>8. CASE StatusProvisioning
  <2>1. KubeType' /\ CloudType'
    BY <1>8, UpdateStatusType, StatusFieldTypes
       DEF TypeOK, Phases, Statuses, StatusProvisioning
  <2>2. CtlType'
    BY <1>8, ReturnType DEF StatusProvisioning
  <2>3. QED
    BY <2>1, <2>2, TypePartsNext
<1>9. CASE StatusFailed
  <2>1. KubeType' /\ CloudType'
    BY <1>9, UpdateStatusType, StatusFieldTypes
       DEF TypeOK, Phases, Statuses, StatusFailed
  <2>2. CtlType'
    BY <1>9, ReturnType DEF StatusFailed
  <2>3. QED
    BY <2>1, <2>2, TypePartsNext
<1>10. CASE StatusUpdateErr
  <2>1. KubeType' /\ CloudType'
    BY <1>10, UpdateStatusType, StatusFieldTypes
       DEF TypeOK, Phases, Statuses, StatusUpdateErr
  <2>2. CtlType'
    BY <1>10, ReturnType DEF StatusUpdateErr
  <2>3. QED
    BY <2>1, <2>2, TypePartsNext
<1>11. CASE StatusUpdated
  <2>1. KubeType' /\ CloudType'
    BY <1>11, UpdateStatusType, StatusFieldTypes
       DEF TypeOK, Phases, Statuses, StatusUpdated, machineIsProvisioned
  <2>2. CtlType'
    BY <1>11, ReturnType DEF StatusUpdated, machineIsProvisioned
  <2>3. QED
    BY <2>1, <2>2, TypePartsNext
<1> QED
  BY <1>1, <1>2, <1>3, <1>4, <1>5, <1>6, <1>7, <1>8, <1>9, <1>10, <1>11
     DEF ReconcileStep

\* Every step of CreateStep preserves the types.
LEMMA TypeCreate == TypeOK /\ CreateStep => TypeOK'
<1> SUFFICES ASSUME TypeOK, CreateStep PROVE TypeOK'
  OBVIOUS
<1>1. CASE CreateScopeFails
  <2>1. CtlType'
    BY <1>1, GotoType
       DEF TypeOK, CtlType, Labels, Results, Ops, CreateScopeFails,
           NewScopeFails
  <2>2. KubeType' /\ CloudType'
    BY <1>1, FaultType
       DEF TypeOK, KubeType, CloudType, kube, cloud, VMStates,
           CreateScopeFails, NewScopeFails
  <2>3. QED
    BY <2>1, <2>2, TypePartsNext
<1>2. CASE CreateScope
  <2>1. CtlType'
    BY <1>2, ScopeTypes DEF TypeOK, CtlType, Labels, Results, Ops, CreateScope
  <2>2. KubeType' /\ CloudType'
    BY <1>2 DEF TypeOK, KubeType, CloudType, kube, cloud, VMStates, CreateScope
  <2>3. QED
    BY <2>1, <2>2, TypePartsNext
<1>3. CASE CreateNetworkSpec
  <2>1. CtlType'
    BY <1>3, GotoType, ReturnsType
       DEF TypeOK, CtlType, Labels, Results, Ops, CreateNetworkSpec,
           NetworkSpecInvalid
  <2>2. KubeType' /\ CloudType'
    BY <1>3
       DEF TypeOK, KubeType, CloudType, kube, cloud, VMStates,
           CreateNetworkSpec, NetworkSpecInvalid
  <2>3. QED
    BY <2>1, <2>2, TypePartsNext
<1>4. CASE CreateLookupFails
  <2>1. CtlType'
    BY <1>4, AzureFailsType
       DEF TypeOK, CtlType, Labels, Results, Ops, CreateLookupFails
  <2>2. KubeType' /\ CloudType'
    BY <1>4, AzureFailsType
       DEF TypeOK, KubeType, CloudType, kube, cloud, VMStates,
           CreateLookupFails
  <2>3. QED
    BY <2>1, <2>2, TypePartsNext
<1>5. CASE CreatePublicIP
  <2>1. CtlType'
    BY <1>5, GotoType DEF TypeOK, CtlType, Labels, Results, Ops, CreatePublicIP
  <2>2. KubeType' /\ CloudType'
    BY <1>5
       DEF TypeOK, KubeType, CloudType, kube, cloud, VMStates, CreatePublicIP
  <2>3. QED
    BY <2>1, <2>2, TypePartsNext
<1>6. CASE CreatePublicIPFails
  <2>1. CtlType'
    BY <1>6, AzureFailsType
       DEF TypeOK, CtlType, Labels, Results, Ops, CreatePublicIPFails
  <2>2. KubeType' /\ CloudType'
    BY <1>6, AzureFailsType
       DEF TypeOK, KubeType, CloudType, kube, cloud, VMStates,
           CreatePublicIPFails
  <2>3. QED
    BY <2>1, <2>2, TypePartsNext
<1>7. CASE CreateNIC
  <2>1. CtlType'
    BY <1>7, GotoType DEF TypeOK, CtlType, Labels, Results, Ops, CreateNIC
  <2>2. KubeType' /\ CloudType'
    BY <1>7 DEF TypeOK, KubeType, CloudType, kube, cloud, VMStates, CreateNIC
  <2>3. QED
    BY <2>1, <2>2, TypePartsNext
<1>8. CASE CreateNICFails
  <2>1. CtlType'
    BY <1>8, AzureFailsType
       DEF TypeOK, CtlType, Labels, Results, Ops, CreateNICFails
  <2>2. KubeType' /\ CloudType'
    BY <1>8, AzureFailsType
       DEF TypeOK, KubeType, CloudType, kube, cloud, VMStates, CreateNICFails
  <2>3. QED
    BY <2>1, <2>2, TypePartsNext
<1>9. CASE CreateAvailabilitySet
  <2>1. CtlType'
    BY <1>9, GotoType, AzureFailsType
       DEF TypeOK, CtlType, Labels, Results, Ops, CreateAvailabilitySet
  <2>2. KubeType' /\ CloudType'
    BY <1>9, AzureFailsType
       DEF TypeOK, KubeType, CloudType, kube, cloud, VMStates,
           CreateAvailabilitySet
  <2>3. QED
    BY <2>1, <2>2, TypePartsNext
<1>10. CASE GetVM
  <2>1. CASE vm = "absent" /\ Goto("crPutVM") /\ UNCHANGED faults
    <3>1. CtlType'
      BY <2>1, GotoType DEF Labels
    <3>2. QED
      BY <1>10, <2>1, <3>1, TypePartsNext
         DEF GetVM, TypeOK, KubeType, CloudType, kube, cloud
  <2>2. CASE /\ vm = "Failed" /\ pc' = "delVM" /\ s' = [s EXCEPT !.vmState = "Deleting"]
             /\ UNCHANGED <<op, m, res, code, faults>>
    <3>1. s' \in Scope
      BY <2>2, ScopeTypes, GoneType DEF TypeOK, States, VMStates
    <3>2. QED
      BY <1>10, <2>2, <3>1 DEF GetVM, TypeOK, Labels, kube, cloud
  <2>3. CASE /\ vm \in {"Creating", "Deleting"}
             /\ ReconcilerReturns([s EXCEPT !.vmState = vm], "requeue", "none")
             /\ UNCHANGED faults
    <3>1. [s EXCEPT !.vmState = vm] \in Scope
      BY <2>3, ScopeTypes, GoneType DEF TypeOK, States, VMStates
    <3>2. CtlType'
      BY <2>3, <3>1, ReturnsType DEF Results
    <3>3. QED
      BY <1>10, <2>3, <3>2, TypePartsNext
         DEF GetVM, TypeOK, KubeType, CloudType, kube, cloud
  <2>4. CASE /\ vm = "Succeeded" /\ pc' = "update" /\ s' = [s EXCEPT !.vmState = vm]
             /\ UNCHANGED <<op, m, res, code, faults>>
    <3>1. s' \in Scope
      BY <2>4, ScopeTypes, GoneType DEF TypeOK, States, VMStates
    <3>2. QED
      BY <1>10, <2>4, <3>1 DEF GetVM, TypeOK, Labels, kube, cloud
  <2>5. CASE AzureFails
    BY <1>10, <2>5, AzureFailsType, TypePartsNext
       DEF GetVM, TypeOK, KubeType, CloudType, kube, cloud
  <2>6. QED
    BY <1>10, <2>1, <2>2, <2>3, <2>4, <2>5 DEF GetVM
<1>11. CASE PutVMRejected
  <2>1. CtlType'
    BY <1>11, ReturnsType
       DEF TypeOK, CtlType, Labels, Results, Ops, PutVMRejected
  <2>2. KubeType' /\ CloudType'
    BY <1>11
       DEF TypeOK, KubeType, CloudType, kube, cloud, VMStates, PutVMRejected
  <2>3. QED
    BY <2>1, <2>2, TypePartsNext
<1>12. CASE PutVM
  <2>1. CtlType'
    BY <1>12, GotoType DEF TypeOK, CtlType, Labels, Results, Ops, PutVM
  <2>2. KubeType' /\ CloudType'
    BY <1>12 DEF TypeOK, KubeType, CloudType, kube, cloud, VMStates, PutVM
  <2>3. QED
    BY <2>1, <2>2, TypePartsNext
<1>13. CASE PutVMRefused
  <2>1. PICK c \in Codes, r \in Results : ReconcilerReturns(s, r, c)
    BY <1>13 DEF PutVMRefused, Classify, PutFailureKind, Results
  <2>2. CtlType'
    BY <2>1, ReturnsType DEF TypeOK
  <2>3. KubeType' /\ CloudType'
    BY <1>13, FaultType
       DEF TypeOK, KubeType, CloudType, kube, cloud, PutVMRefused
  <2>4. QED
    BY <2>2, <2>3, TypePartsNext
<1>14. CASE PutVMAnswerLost
  <2>1. PICK c \in Codes, r \in Results : ReconcilerReturns(s, r, c)
    BY <1>14 DEF PutVMAnswerLost, Classify, PutFailureKind, Results, Codes
  <2>2. CtlType'
    BY <2>1, ReturnsType DEF TypeOK
  <2>3. KubeType' /\ CloudType'
    BY <1>14, FaultType
       DEF TypeOK, KubeType, CloudType, kube, VMStates, PutVMAnswerLost
  <2>4. QED
    BY <2>2, <2>3, TypePartsNext
<1> QED
  BY <1>1, <1>2, <1>3, <1>4, <1>5, <1>6, <1>7, <1>8, <1>9, <1>10, <1>11, <1>12,
     <1>13, <1>14
     DEF CreateStep

\* Every step of UpdateStep preserves the types.
LEMMA TypeUpdate == TypeOK /\ UpdateStep => TypeOK'
<1> SUFFICES ASSUME TypeOK, UpdateStep PROVE TypeOK'
  OBVIOUS
<1>1. CASE UpdateScopeFails
  <2>1. CtlType'
    BY <1>1, GotoType
       DEF TypeOK, CtlType, Labels, Results, Ops, UpdateScopeFails,
           NewScopeFails
  <2>2. KubeType' /\ CloudType'
    BY <1>1, FaultType
       DEF TypeOK, KubeType, CloudType, kube, cloud, VMStates,
           UpdateScopeFails, NewScopeFails
  <2>3. QED
    BY <2>1, <2>2, TypePartsNext
<1>2. CASE UpdateScope
  <2>1. CtlType'
    BY <1>2, ScopeTypes DEF TypeOK, CtlType, Labels, Results, Ops, UpdateScope
  <2>2. KubeType' /\ CloudType'
    BY <1>2 DEF TypeOK, KubeType, CloudType, kube, cloud, VMStates, UpdateScope
  <2>3. QED
    BY <2>1, <2>2, TypePartsNext
<1>3. CASE UpdateFails
  <2>1. PICK c \in Codes \cup {"none"} : ReconcilerReturns(s, "requeue", c)
    BY <1>3 DEF UpdateFails, Codes
  <2>2. CtlType'
    BY <2>1, ReturnsType DEF TypeOK, Results
  <2>3. KubeType' /\ CloudType'
    BY <1>3, FaultType
       DEF TypeOK, KubeType, CloudType, kube, cloud, UpdateFails
  <2>4. QED
    BY <2>2, <2>3, TypePartsNext
<1>4. CASE Update
  <2> DEFINE sc == [pid |-> TRUE, addr |-> TRUE, created |-> "True", vmState |-> vm]
  <2>1. sc \in Scope
    BY <1>4 DEF Update, TypeOK, Scope, Statuses, States
  <2>2. ReconcilerReturns(sc, "ok", "none")
    BY <1>4 DEF Update
  <2> HIDE DEF sc
  <2>3. CtlType'
    BY <2>1, <2>2, ReturnsType DEF Results
  <2>4. KubeType' /\ CloudType'
    BY <1>4 DEF TypeOK, KubeType, CloudType, kube, cloud, Update
  <2>5. QED
    BY <2>3, <2>4, TypePartsNext
<1>5. CASE PatchObject
  <2>1. CtlType'
    BY <1>5 DEF TypeOK, CtlType, Labels, Results, Ops, PatchObject
  <2>2. KubeType' /\ CloudType'
    BY <1>5, ObjectPatchedType
       DEF TypeOK, KubeType, CloudType, kube, cloud, VMStates, PatchObject
  <2>3. QED
    BY <2>1, <2>2, TypePartsNext
<1>6. CASE PatchStatus
  <2>1. CtlType'
    BY <1>6, ReturnType, GotoType
       DEF TypeOK, CtlType, Labels, Results, Ops, PatchStatus, ActuatorReturns
  <2>2. KubeType' /\ CloudType'
    BY <1>6, StoreType, ExceptTypes, StatusPatchedType
       DEF TypeOK, KubeType, CloudType, kube, cloud, VMStates, PatchStatus,
           ActuatorReturns
  <2>3. QED
    BY <2>1, <2>2, TypePartsNext
<1>7. CASE PatchFails
  <2>1. CtlType'
    BY <1>7, ReturnType, GotoType
       DEF TypeOK, CtlType, Labels, Results, Ops, PatchFails, ActuatorReturns
  <2>2. KubeType' /\ CloudType'
    BY <1>7, FaultType
       DEF TypeOK, KubeType, CloudType, kube, cloud, VMStates, PatchFails,
           ActuatorReturns
  <2>3. QED
    BY <2>1, <2>2, TypePartsNext
<1> QED
  BY <1>1, <1>2, <1>3, <1>4, <1>5, <1>6, <1>7 DEF UpdateStep

\* Every step of DeleteStep preserves the types.
LEMMA TypeDelete == TypeOK /\ DeleteStep => TypeOK'
<1> SUFFICES ASSUME TypeOK, DeleteStep PROVE TypeOK'
  OBVIOUS
<1>1. CASE DeleteStatus
  <2>1. KubeType' /\ CloudType'
    BY <1>1, UpdateStatusType, StatusFieldTypes
       DEF TypeOK, Phases, Statuses, DeleteStatus
  <2>2. CtlType'
    <3>1. CASE Return
      BY <3>1, ReturnType
    <3>2. CASE pc' = "delScope" /\ m' = api' /\ UNCHANGED <<op, s, res, code>>
      BY <3>2, <2>1 DEF TypeOK, CtlType, KubeType, Labels
    <3>3. QED
      BY <1>1, <3>1, <3>2 DEF DeleteStatus
  <2>3. QED
    BY <2>1, <2>2, TypePartsNext
<1>2. CASE DeleteScopeFails
  <2>1. CtlType'
    BY <1>2, ReturnType
       DEF TypeOK, CtlType, Labels, Results, Ops, DeleteScopeFails,
           NewScopeFails
  <2>2. KubeType' /\ CloudType'
    BY <1>2, FaultType
       DEF TypeOK, KubeType, CloudType, kube, cloud, VMStates,
           DeleteScopeFails, NewScopeFails
  <2>3. QED
    BY <2>1, <2>2, TypePartsNext
<1>3. CASE DeleteScope
  <2>1. s' \in Scope
    BY <1>3, ScopeTypes DEF DeleteScope, TypeOK, States, VMStates
  <2>2. QED
    BY <1>3, <2>1 DEF DeleteScope, TypeOK, Labels, Ops, kube, cloud
<1>4. CASE DeleteVM
  <2>1. CtlType'
    BY <1>4, GotoType DEF TypeOK, CtlType, Labels, Results, Ops, DeleteVM
  <2>2. KubeType' /\ CloudType'
    BY <1>4 DEF TypeOK, KubeType, CloudType, kube, cloud, VMStates, DeleteVM
  <2>3. QED
    BY <2>1, <2>2, TypePartsNext
<1>5. CASE DeleteVMIncomplete
  <2>1. CtlType'
    BY <1>5, ReturnsType
       DEF TypeOK, CtlType, Labels, Results, Ops, DeleteVMIncomplete
  <2>2. KubeType' /\ CloudType'
    BY <1>5
       DEF TypeOK, KubeType, CloudType, kube, cloud, VMStates,
           DeleteVMIncomplete
  <2>3. QED
    BY <2>1, <2>2, TypePartsNext
<1>6. CASE DeleteVMFails
  <2>1. CtlType'
    BY <1>6, AzureFailsType
       DEF TypeOK, CtlType, Labels, Results, Ops, DeleteVMFails
  <2>2. KubeType' /\ CloudType'
    BY <1>6, AzureFailsType
       DEF TypeOK, KubeType, CloudType, kube, cloud, VMStates, DeleteVMFails
  <2>3. QED
    BY <2>1, <2>2, TypePartsNext
<1>7. CASE DeleteDisk
  <2>1. CtlType'
    BY <1>7, GotoType, ReturnsType
       DEF TypeOK, CtlType, Labels, Results, Ops, DeleteDisk
  <2>2. KubeType' /\ CloudType'
    BY <1>7 DEF TypeOK, KubeType, CloudType, kube, cloud, VMStates, DeleteDisk
  <2>3. QED
    BY <2>1, <2>2, TypePartsNext
<1>8. CASE DeleteDiskIncomplete
  <2>1. CtlType'
    BY <1>8, ReturnsType
       DEF TypeOK, CtlType, Labels, Results, Ops, DeleteDiskIncomplete
  <2>2. KubeType' /\ CloudType'
    BY <1>8
       DEF TypeOK, KubeType, CloudType, kube, cloud, VMStates,
           DeleteDiskIncomplete
  <2>3. QED
    BY <2>1, <2>2, TypePartsNext
<1>9. CASE DeleteDiskFails
  <2>1. CtlType'
    BY <1>9, AzureFailsType
       DEF TypeOK, CtlType, Labels, Results, Ops, DeleteDiskFails
  <2>2. KubeType' /\ CloudType'
    BY <1>9, AzureFailsType
       DEF TypeOK, KubeType, CloudType, kube, cloud, VMStates, DeleteDiskFails
  <2>3. QED
    BY <2>1, <2>2, TypePartsNext
<1>10. CASE DeleteNIC
  <2>1. CtlType'
    BY <1>10, GotoType, ReturnsType
       DEF TypeOK, CtlType, Labels, Results, Ops, DeleteNIC, Deleted
  <2>2. KubeType' /\ CloudType'
    BY <1>10
       DEF TypeOK, KubeType, CloudType, kube, cloud, VMStates, DeleteNIC,
           Deleted
  <2>3. QED
    BY <2>1, <2>2, TypePartsNext
<1>11. CASE DeleteNICFails
  <2>1. CtlType'
    BY <1>11, AzureFailsType
       DEF TypeOK, CtlType, Labels, Results, Ops, DeleteNICFails
  <2>2. KubeType' /\ CloudType'
    BY <1>11, AzureFailsType
       DEF TypeOK, KubeType, CloudType, kube, cloud, VMStates, DeleteNICFails
  <2>3. QED
    BY <2>1, <2>2, TypePartsNext
<1>12. CASE DeletePublicIP
  <2>1. CtlType'
    BY <1>12, GotoType
       DEF TypeOK, CtlType, Labels, Results, Ops, DeletePublicIP
  <2>2. KubeType' /\ CloudType'
    BY <1>12
       DEF TypeOK, KubeType, CloudType, kube, cloud, VMStates, DeletePublicIP
  <2>3. QED
    BY <2>1, <2>2, TypePartsNext
<1>13. CASE DeletePublicIPFails
  <2>1. CtlType'
    BY <1>13, AzureFailsType
       DEF TypeOK, CtlType, Labels, Results, Ops, DeletePublicIPFails
  <2>2. KubeType' /\ CloudType'
    BY <1>13, AzureFailsType
       DEF TypeOK, KubeType, CloudType, kube, cloud, VMStates,
           DeletePublicIPFails
  <2>3. QED
    BY <2>1, <2>2, TypePartsNext
<1>14. CASE DeleteAvailabilitySet
  <2>1. CtlType'
    BY <1>14, ReturnsType, AzureFailsType
       DEF TypeOK, CtlType, Labels, Results, Ops, DeleteAvailabilitySet,
           Deleted
  <2>2. KubeType' /\ CloudType'
    BY <1>14, AzureFailsType
       DEF TypeOK, KubeType, CloudType, kube, cloud, VMStates,
           DeleteAvailabilitySet, Deleted
  <2>3. QED
    BY <2>1, <2>2, TypePartsNext
<1>15. CASE DeleteChecked
  <2>1. CtlType'
    BY <1>15, GotoType
       DEF TypeOK, CtlType, Labels, Results, Ops, DeleteChecked, ExistsFalse
  <2>2. KubeType' /\ CloudType'
    BY <1>15
       DEF TypeOK, KubeType, CloudType, kube, cloud, VMStates, DeleteChecked,
           ExistsFalse
  <2>3. QED
    BY <2>1, <2>2, TypePartsNext
<1>16. CASE DeleteCheckFails
  <2>1. CtlType'
    BY <1>16, ReturnType
       DEF TypeOK, CtlType, Labels, Results, Ops, DeleteCheckFails, ExistsFalse
  <2>2. KubeType' /\ CloudType'
    BY <1>16, FaultType
       DEF TypeOK, KubeType, CloudType, kube, cloud, VMStates,
           DeleteCheckFails, ExistsFalse
  <2>3. QED
    BY <2>1, <2>2, TypePartsNext
<1>17. CASE DeleteNode
  <2>1. CtlType'
    BY <1>17, GotoType DEF TypeOK, CtlType, Labels, Results, Ops, DeleteNode
  <2>2. KubeType' /\ CloudType'
    BY <1>17 DEF TypeOK, KubeType, CloudType, kube, cloud, VMStates, DeleteNode
  <2>3. QED
    BY <2>1, <2>2, TypePartsNext
<1>18. CASE RemoveFinalizer
  <2>1. CtlType'
    BY <1>18, ReturnType, GoneType
       DEF TypeOK, CtlType, Labels, Results, Ops, RemoveFinalizer
  <2>2. KubeType' /\ CloudType'
    BY <1>18, StoreType, GoneType, ExceptTypes
       DEF TypeOK, KubeType, CloudType, kube, cloud, VMStates, RemoveFinalizer
  <2>3. QED
    BY <2>1, <2>2, TypePartsNext
<1> QED
  BY <1>1, <1>2, <1>3, <1>4, <1>5, <1>6, <1>7, <1>8, <1>9, <1>10, <1>11, <1>12,
     <1>13, <1>14, <1>15, <1>16, <1>17, <1>18
     DEF DeleteStep

\* Every step of Environment preserves the types.
LEMMA TypeEnvironment == TypeOK /\ Environment => TypeOK'
<1> SUFFICES ASSUME TypeOK, Environment PROVE TypeOK'
  OBVIOUS
<1>1. CASE CacheSync
  <2>1. CtlType'
    BY <1>1 DEF TypeOK, CtlType, Labels, Results, Ops, CacheSync
  <2>2. KubeType' /\ CloudType'
    BY <1>1 DEF TypeOK, KubeType, CloudType, kube, cloud, VMStates, CacheSync
  <2>3. QED
    BY <2>1, <2>2, TypePartsNext
<1>2. CASE Crash
  <2>1. CtlType'
    BY <1>2, ReturnType DEF TypeOK, CtlType, Labels, Results, Ops, Crash
  <2>2. KubeType' /\ CloudType'
    BY <1>2, FaultType
       DEF TypeOK, KubeType, CloudType, kube, cloud, VMStates, Crash
  <2>3. QED
    BY <2>1, <2>2, TypePartsNext
<1>3. CASE UserDelete
  <2>1. CtlType'
    BY <1>3, GoneType, ScopeTypes
       DEF TypeOK, CtlType, Labels, Results, Ops, UserDelete
  <2>2. KubeType' /\ CloudType'
    BY <1>3, StoreType, GoneType, ExceptTypes
       DEF TypeOK, KubeType, CloudType, kube, cloud, VMStates, UserDelete
  <2>3. QED
    BY <2>1, <2>2, TypePartsNext
<1>4. CASE RemoveHook
  <2>1. CtlType'
    BY <1>4, ScopeTypes DEF TypeOK, CtlType, Labels, Results, Ops, RemoveHook
  <2>2. KubeType' /\ CloudType'
    BY <1>4, StoreType, ExceptTypes
       DEF TypeOK, KubeType, CloudType, kube, cloud, VMStates, RemoveHook
  <2>3. QED
    BY <2>1, <2>2, TypePartsNext
<1>5. CASE Drain
  <2>1. CtlType'
    BY <1>5, ScopeTypes DEF TypeOK, CtlType, Labels, Results, Ops, Drain
  <2>2. KubeType' /\ CloudType'
    BY <1>5, StoreType, ExceptTypes
       DEF TypeOK, KubeType, CloudType, kube, cloud, VMStates, Drain
  <2>3. QED
    BY <2>1, <2>2, TypePartsNext
<1>6. CASE NodeLink
  <2>1. CtlType'
    BY <1>6, ScopeTypes DEF TypeOK, CtlType, Labels, Results, Ops, NodeLink
  <2>2. KubeType' /\ CloudType'
    BY <1>6, StoreType, ExceptTypes
       DEF TypeOK, KubeType, CloudType, kube, cloud, VMStates, NodeLink
  <2>3. QED
    BY <2>1, <2>2, TypePartsNext
<1>7. CASE VMProvisioned
  <2>1. CtlType'
    BY <1>7 DEF TypeOK, CtlType, Labels, Results, Ops, VMProvisioned, VMChanges
  <2>2. KubeType' /\ CloudType'
    BY <1>7
       DEF TypeOK, KubeType, CloudType, kube, cloud, VMStates, VMProvisioned,
           VMChanges
  <2>3. QED
    BY <2>1, <2>2, TypePartsNext
<1>8. CASE VMDeleted
  <2>1. CtlType'
    BY <1>8 DEF TypeOK, CtlType, Labels, Results, Ops, VMDeleted, VMChanges
  <2>2. KubeType' /\ CloudType'
    BY <1>8
       DEF TypeOK, KubeType, CloudType, kube, cloud, VMStates, VMDeleted,
           VMChanges
  <2>3. QED
    BY <2>1, <2>2, TypePartsNext
<1>9. CASE VMOperationFails
  <2>1. CtlType'
    BY <1>9
       DEF TypeOK, CtlType, Labels, Results, Ops, VMOperationFails, VMChanges
  <2>2. KubeType' /\ CloudType'
    BY <1>9, FaultType
       DEF TypeOK, KubeType, CloudType, kube, cloud, VMStates,
           VMOperationFails, VMChanges
  <2>3. QED
    BY <2>1, <2>2, TypePartsNext
<1>10. CASE OutsideDelete
  <2>1. CtlType'
    BY <1>10
       DEF TypeOK, CtlType, Labels, Results, Ops, OutsideDelete, VMChanges
  <2>2. KubeType' /\ CloudType'
    BY <1>10, FaultType
       DEF TypeOK, KubeType, CloudType, kube, cloud, VMStates, OutsideDelete,
           VMChanges
  <2>3. QED
    BY <2>1, <2>2, TypePartsNext
<1>11. CASE OutsideRepair
  <2>1. CtlType'
    BY <1>11
       DEF TypeOK, CtlType, Labels, Results, Ops, OutsideRepair, VMChanges
  <2>2. KubeType' /\ CloudType'
    BY <1>11, FaultType
       DEF TypeOK, KubeType, CloudType, kube, cloud, VMStates, OutsideRepair,
           VMChanges
  <2>3. QED
    BY <2>1, <2>2, TypePartsNext
<1>12. CASE DiskDeleted
  <2>1. CtlType'
    BY <1>12 DEF TypeOK, CtlType, Labels, Results, Ops, DiskDeleted
  <2>2. KubeType' /\ CloudType'
    BY <1>12
       DEF TypeOK, KubeType, CloudType, kube, cloud, VMStates, DiskDeleted
  <2>3. QED
    BY <2>1, <2>2, TypePartsNext
<1> QED
  BY <1>1, <1>2, <1>3, <1>4, <1>5, <1>6, <1>7, <1>8, <1>9, <1>10, <1>11, <1>12
     DEF Environment

\* Every step preserves the types.
LEMMA TypeNext == TypeOK /\ [Next]_vars => TypeOK'
<1>1. TypeOK /\ UNCHANGED vars => TypeOK'
  BY DEF TypeOK, vars
<1>2. QED
  BY <1>1, TypeReconcile, TypeCreate, TypeUpdate, TypeDelete, TypeEnvironment
     DEF Next, Controller

LEMMA TypeInit == Init => TypeOK
<1> SUFFICES ASSUME Init PROVE TypeOK
  OBVIOUS
<1>1. cfg \in Config
  BY ConstantsAssumption DEF Init
<1>2. api \in Machine
  BY <1>1 DEF Init, Config, Blank, Machine, Phases, VMStates, States, Statuses
<1>3. QED
  BY <1>1, <1>2, GoneType, NoScopeType, ConstantsAssumption
     DEF Init, TypeOK, Labels, Ops, Results, VMStates

(***************************************************************************)
(* Type correctness of the lifecycle, for every number of faults.          *)
(***************************************************************************)
THEOREM TypeCorrect == Spec => []TypeOK
<1>1. QED
  BY TypeInit, TypeNext, PTL DEF Spec

-----------------------------------------------------------------------------
(***************************************************************************)
(* What the steps do to the fields the ownership argument is about.        *)
(***************************************************************************)
SameObject(a, b) == a.ex = b.ex /\ a.fin = b.fin /\ a.del = b.del

\* No patch, hook, drain or node link changes existence, finalizer or deletion.
LEMMA GoneFields == Gone.ex = FALSE /\ Gone.fin = FALSE /\ Gone.del = FALSE
  BY DEF Gone, Blank

LEMMA PatchedFields ==
  ASSUME api \in Machine, NEW ph, NEW i PROVE SameObject(Patched(ph, i), api)
  BY DEF Patched, Machine, SameObject

LEMMA PersistFields ==
  ASSUME api \in Machine
  PROVE  SameObject(ObjectPatched, api) /\ SameObject(StatusPatched, api)
<1>1. SameObject(ObjectPatched, api)
  BY DEF ObjectPatched, Machine, SameObject
<1>2. SameObject(StatusPatched, api)
  BY DEF StatusPatched, Machine, SameObject
<1>3. QED
  BY <1>1, <1>2

LEMMA ExceptFields ==
  ASSUME NEW a \in Machine
  PROVE  /\ SameObject([a EXCEPT !.hook = FALSE], a)
         /\ SameObject([a EXCEPT !.drained = TRUE], a)
         /\ SameObject([a EXCEPT !.node = TRUE], a)
         /\ LET b == [a EXCEPT !.del = TRUE]
            IN  b.ex = a.ex /\ b.fin = a.fin /\ b.del = TRUE
         /\ LET b == [a EXCEPT !.fin = TRUE]
            IN  b.ex = a.ex /\ b.del = a.del /\ b.fin = TRUE
  BY DEF Machine, SameObject

\* Whatever the reconciler answers, the actuator persists the scope next; a
\* failure is never reported as a success.
LEMMA ReturnsControl ==
  ASSUME NEW sc, NEW r, NEW c, ReconcilerReturns(sc, r, c)
  PROVE  pc' = "patchObject" /\ op' = op /\ m' = m /\ (res' = "ok" => r = "ok")
  BY DEF ReconcilerReturns

LEMMA AzureFailsControl ==
  ASSUME AzureFails
  PROVE  pc' = "patchObject" /\ op' = op /\ m' = m /\ res' # "ok"
<1>1. PICK c \in Codes : ReconcilerReturns(s, Classify(c), c)
  BY DEF AzureFails
<1>2. Classify(c) # "ok"
  BY DEF Classify
<1>3. QED
  BY <1>1, <1>2, ReturnsControl

\* A step that changes neither the cloud nor what matters of the object.
Kept == /\ SameObject(api', api) /\ cache' = cache
        /\ (cacheFresh' => cacheFresh /\ api' = api)
        /\ cfg' = cfg /\ vm' = vm /\ disk' = disk /\ nic' = nic /\ pip' = pip

LEMMA UpdateStatusKept ==
  ASSUME TypeOK, NEW ph, NEW i, updateStatus(ph, i) PROVE Kept /\ api.ex
<1>1. SameObject(api', api)
  BY PatchedFields DEF updateStatus, TypeOK
<1>2. QED
  BY <1>1 DEF Kept, updateStatus, cloud

-----------------------------------------------------------------------------
(***************************************************************************)
(* Ownership is preserved.                                                 *)
(***************************************************************************)

\* By a reconcile that ends with such a step,
LEMMA ReturnKept ==
  ASSUME TypeOK, Ownership, Kept, Return PROVE Ownership'
<1>1. CopiesCurrent'
  BY DEF Ownership, CopiesCurrent, Kept, Return
<1>2. CacheBehind'
  BY DEF Ownership, CacheBehind, Kept, SameObject
<1>3. Stage'
  BY DEF Stage, Return, Early, Deleting
<1>4. TearDown'
  BY DEF Ownership, TearDown, TeardownOrder, Return, Kept
<1>5. NoOrphan'
  BY DEF Ownership, NoOrphan, CloudEmpty, Kept, SameObject
<1>6. QED
  BY <1>1, <1>2, <1>3, <1>4, <1>5 DEF Ownership

\* and by a component other than the controller that takes such a step.
LEMMA BystanderKept ==
  ASSUME TypeOK, Ownership, Kept, fresh' => fresh /\ api' = api,
         UNCHANGED <<pc, op, m, s, res, code>>
  PROVE  Ownership'
<1>1. CopiesCurrent'
  BY DEF Ownership, CopiesCurrent, Kept
<1>2. CacheBehind'
  BY DEF Ownership, CacheBehind, Kept, SameObject
<1>3. Stage'
  BY DEF Ownership, Stage, Kept, SameObject, Early, Deleting
<1>4. TearDown'
  BY DEF Ownership, TearDown, TeardownOrder, CloudEmpty, Kept
<1>5. NoOrphan'
  BY DEF Ownership, NoOrphan, CloudEmpty, Kept, SameObject
<1>6. QED
  BY <1>1, <1>2, <1>3, <1>4, <1>5 DEF Ownership

\* The finalizer is added on a current copy, so it cannot revive an object.
LEMMA OwnAddFinalizer ==
  ASSUME TypeOK, Ownership, AddFinalizer PROVE Ownership'
<1>1. m = api /\ ~api.del
  BY DEF AddFinalizer, Ownership, CopiesCurrent, Stage
<1>2. api'.ex = api.ex /\ api'.del = api.del /\ api'.fin = TRUE
  BY <1>1, ExceptFields DEF AddFinalizer, Store, TypeOK
<1>3. CopiesCurrent'
  BY DEF Ownership, CopiesCurrent, AddFinalizer, Store, Return
<1>4. CacheBehind'
  BY <1>2 DEF Ownership, CacheBehind, AddFinalizer
<1>5. Stage'
  BY DEF Stage, AddFinalizer, Return, Early, Deleting
<1>6. TearDown'
  BY DEF Ownership, TearDown, TeardownOrder, AddFinalizer, Return, cloud
<1>7. NoOrphan'
  BY <1>2 DEF Ownership, NoOrphan, CloudEmpty, AddFinalizer, cloud
<1>8. QED
  BY <1>3, <1>4, <1>5, <1>6, <1>7 DEF Ownership

\* The finalizer is removed from an object whose resources are all gone, and
\* no cached copy is left from which a reconcile would create them again.
LEMMA OwnRemoveFinalizer ==
  ASSUME TypeOK, Ownership, RemoveFinalizer PROVE Ownership'
<1>1. api' = Gone /\ cacheFresh' = FALSE
  BY GoneFields DEF RemoveFinalizer, Store
<1>2. CopiesCurrent'
  BY <1>1 DEF CopiesCurrent, RemoveFinalizer, Return
<1>3. CacheBehind'
  BY <1>1, GoneFields
     DEF Ownership, CacheBehind, Stage, Deleting, RemoveFinalizer
<1>4. Stage'
  BY DEF Stage, RemoveFinalizer, Return, Early, Deleting
<1>5. TearDown'
  BY DEF Ownership, TearDown, TeardownOrder, RemoveFinalizer, Return, cloud
<1>6. NoOrphan'
  BY
     DEF Ownership, NoOrphan, CloudEmpty, TearDown, TeardownOrder,
         RemoveFinalizer,
         cloud
<1>7. QED
  BY <1>2, <1>3, <1>4, <1>5, <1>6 DEF Ownership

\* The user deletes a machine with its finalizer, or one that owns nothing yet.
LEMMA OwnUserDelete ==
  ASSUME TypeOK, Ownership, UserDelete PROVE Ownership'
<1>1. CopiesCurrent'
  BY DEF Ownership, CopiesCurrent, UserDelete, Store
<1>2. TearDown'
  BY DEF Ownership, TearDown, TeardownOrder, CloudEmpty, UserDelete, cloud
<1>3. CASE api.fin
  <2>1. api'.ex = api.ex /\ api'.fin = api.fin /\ api'.del = TRUE
    BY <1>3, ExceptFields DEF UserDelete, Store, TypeOK
  <2>2. CacheBehind'
    BY <2>1 DEF Ownership, CacheBehind, UserDelete
  <2>3. Stage'
    BY <2>1 DEF Ownership, Stage, UserDelete, Early, Deleting
  <2>4. NoOrphan'
    BY <2>1 DEF Ownership, NoOrphan, CloudEmpty, UserDelete, cloud
  <2>5. QED
    BY <1>1, <1>2, <2>2, <2>3, <2>4 DEF Ownership
<1>4. CASE ~api.fin
  <2>1. api' = Gone
    BY <1>4 DEF UserDelete, Store
  <2>2. CacheBehind'
    BY <1>4, <2>1, GoneFields DEF Ownership, CacheBehind, UserDelete
  <2>3. Stage'
    BY <1>4, <2>1, GoneFields DEF Ownership, Stage, UserDelete, Early, Deleting
  <2>4. NoOrphan'
    BY <1>4 DEF Ownership, NoOrphan, CloudEmpty, UserDelete, cloud
  <2>5. QED
    BY <1>1, <1>2, <2>2, <2>3, <2>4 DEF Ownership
<1>5. QED
  BY <1>3, <1>4

\* Every step of ReconcileStep preserves the ownership invariant.
LEMMA OwnReconcile == IInv /\ ReconcileStep => Ownership'
<1> SUFFICES ASSUME TypeOK, Ownership, ReconcileStep PROVE Ownership'
  BY DEF IInv
<1>1. CASE StartReconcile
  BY <1>1
     DEF Ownership, CopiesCurrent, CacheBehind, Stage, Early, Deleting,
         TearDown, TeardownOrder, CloudEmpty, NoOrphan, kube, cloud,
         StartReconcile, FirstCall
<1>2. CASE AddFinalizer
  BY <1>2, OwnAddFinalizer
<1>3. CASE KubeCallFails
  BY <1>3
     DEF Ownership, CopiesCurrent, CacheBehind, Stage, Early, Deleting,
         TearDown, TeardownOrder, CloudEmpty, NoOrphan, kube, cloud,
         KubeCallFails, KubeCalls, Return
<1>4. CASE ExistsFails
  BY <1>4
     DEF Ownership, CopiesCurrent, CacheBehind, Stage, Early, Deleting,
         TearDown, TeardownOrder, CloudEmpty, NoOrphan, kube, cloud,
         ExistsFails, Goto
<1>5. CASE InstanceFound
  BY <1>5
     DEF Ownership, CopiesCurrent, CacheBehind, Stage, Early, Deleting,
         TearDown, TeardownOrder, CloudEmpty, NoOrphan, kube, cloud,
         InstanceFound, Goto
<1>6. CASE InstanceMissing
  BY <1>6
     DEF Ownership, CopiesCurrent, CacheBehind, Stage, Early, Deleting,
         TearDown, TeardownOrder, CloudEmpty, NoOrphan, kube, cloud,
         InstanceMissing, ExistsFalse, Goto
<1>7. CASE StatusExistsErr
  BY <1>7, UpdateStatusKept, ReturnKept DEF StatusExistsErr
<1>8. CASE StatusProvisioning
  BY <1>8, UpdateStatusKept, ReturnKept DEF StatusProvisioning
<1>9. CASE StatusFailed
  BY <1>9, UpdateStatusKept, ReturnKept DEF StatusFailed
<1>10. CASE StatusUpdateErr
  BY <1>10, UpdateStatusKept, ReturnKept DEF StatusUpdateErr
<1>11. CASE StatusUpdated
  BY <1>11, UpdateStatusKept, ReturnKept DEF StatusUpdated
<1>12. QED
  BY <1>1, <1>2, <1>3, <1>4, <1>5, <1>6, <1>7, <1>8, <1>9, <1>10, <1>11
     DEF ReconcileStep

\* Every step of CreateStep preserves the ownership invariant.
LEMMA OwnCreate == IInv /\ CreateStep => Ownership'
<1> SUFFICES ASSUME TypeOK, Ownership, CreateStep PROVE Ownership'
  BY DEF IInv
<1>1. CASE CreateScopeFails
  BY <1>1
     DEF Ownership, CopiesCurrent, CacheBehind, Stage, Early, Deleting,
         TearDown, TeardownOrder, CloudEmpty, NoOrphan, kube, cloud,
         CreateScopeFails, Goto
<1>2. CASE CreateScope
  BY <1>2
     DEF Ownership, CopiesCurrent, CacheBehind, Stage, Early, Deleting,
         TearDown, TeardownOrder, CloudEmpty, NoOrphan, kube, cloud,
         CreateScope
<1>3. CASE CreateNetworkSpec
  BY <1>3, ReturnsControl
     DEF Ownership, CopiesCurrent, CacheBehind, Stage, Early, Deleting,
         TearDown, TeardownOrder, CloudEmpty, NoOrphan, kube, cloud,
         CreateNetworkSpec, NetworkSpecInvalid, Goto
<1>4. CASE CreateLookupFails
  BY <1>4, AzureFailsControl
     DEF Ownership, CopiesCurrent, CacheBehind, Stage, Early, Deleting,
         TearDown, TeardownOrder, CloudEmpty, NoOrphan, kube, cloud,
         CreateLookupFails
<1>5. CASE CreatePublicIP
  BY <1>5
     DEF Ownership, CopiesCurrent, CacheBehind, Stage, Early, Deleting,
         TearDown, TeardownOrder, CloudEmpty, NoOrphan, kube, cloud,
         CreatePublicIP, Goto
<1>6. CASE CreatePublicIPFails
  BY <1>6, AzureFailsControl
     DEF Ownership, CopiesCurrent, CacheBehind, Stage, Early, Deleting,
         TearDown, TeardownOrder, CloudEmpty, NoOrphan, kube, cloud,
         CreatePublicIPFails
<1>7. CASE CreateNIC
  BY <1>7
     DEF Ownership, CopiesCurrent, CacheBehind, Stage, Early, Deleting,
         TearDown, TeardownOrder, CloudEmpty, NoOrphan, kube, cloud, CreateNIC,
         Goto
<1>8. CASE CreateNICFails
  BY <1>8, AzureFailsControl
     DEF Ownership, CopiesCurrent, CacheBehind, Stage, Early, Deleting,
         TearDown, TeardownOrder, CloudEmpty, NoOrphan, kube, cloud,
         CreateNICFails
<1>9. CASE CreateAvailabilitySet
  BY <1>9, AzureFailsControl
     DEF Ownership, CopiesCurrent, CacheBehind, Stage, Early, Deleting,
         TearDown, TeardownOrder, CloudEmpty, NoOrphan, kube, cloud,
         CreateAvailabilitySet, Goto
<1>10. CASE GetVM
  BY <1>10, ReturnsControl, AzureFailsControl
     DEF Ownership, CopiesCurrent, CacheBehind, Stage, Early, Deleting,
         TearDown, TeardownOrder, CloudEmpty, NoOrphan, kube, cloud, GetVM,
         Goto
<1>11. CASE PutVMRejected
  BY <1>11, ReturnsControl
     DEF Ownership, CopiesCurrent, CacheBehind, Stage, Early, Deleting,
         TearDown, TeardownOrder, CloudEmpty, NoOrphan, kube, cloud,
         PutVMRejected
<1>12. CASE PutVM
  BY <1>12
     DEF Ownership, CopiesCurrent, CacheBehind, Stage, Early, Deleting,
         TearDown, TeardownOrder, CloudEmpty, NoOrphan, kube, cloud, PutVM,
         Goto
<1>13. CASE PutVMRefused
  BY <1>13, ReturnsControl
     DEF Ownership, CopiesCurrent, CacheBehind, Stage, Early, Deleting,
         TearDown, TeardownOrder, CloudEmpty, NoOrphan, kube, cloud,
         PutVMRefused, Classify, PutFailureKind
<1>14. CASE PutVMAnswerLost
  BY <1>14, ReturnsControl
     DEF Ownership, CopiesCurrent, CacheBehind, Stage, Early, Deleting,
         TearDown, TeardownOrder, CloudEmpty, NoOrphan, kube, cloud,
         PutVMAnswerLost, Classify, PutFailureKind
<1>15. QED
  BY <1>1, <1>2, <1>3, <1>4, <1>5, <1>6, <1>7, <1>8, <1>9, <1>10, <1>11, <1>12,
     <1>13, <1>14
     DEF CreateStep

\* Every step of UpdateStep preserves the ownership invariant.
LEMMA OwnUpdate == IInv /\ UpdateStep => Ownership'
<1> SUFFICES ASSUME TypeOK, Ownership, UpdateStep PROVE Ownership'
  BY DEF IInv
<1>1. CASE UpdateScopeFails
  BY <1>1
     DEF Ownership, CopiesCurrent, CacheBehind, Stage, Early, Deleting,
         TearDown, TeardownOrder, CloudEmpty, NoOrphan, kube, cloud,
         UpdateScopeFails, Goto
<1>2. CASE UpdateScope
  BY <1>2
     DEF Ownership, CopiesCurrent, CacheBehind, Stage, Early, Deleting,
         TearDown, TeardownOrder, CloudEmpty, NoOrphan, kube, cloud,
         UpdateScope
<1>3. CASE UpdateFails
  BY <1>3, ReturnsControl
     DEF Ownership, CopiesCurrent, CacheBehind, Stage, Early, Deleting,
         TearDown, TeardownOrder, CloudEmpty, NoOrphan, kube, cloud,
         UpdateFails
<1>4. CASE Update
  BY <1>4, ReturnsControl
     DEF Ownership, CopiesCurrent, CacheBehind, Stage, Early, Deleting,
         TearDown, TeardownOrder, CloudEmpty, NoOrphan, kube, cloud, Update
<1>5. CASE PatchObject
  <2>1. SameObject(api', api)
    BY <1>5, PersistFields DEF PatchObject, TypeOK
  <2>2. QED
    BY <1>5, <2>1
       DEF Ownership, CopiesCurrent, CacheBehind, Stage, Early, Deleting,
           TearDown, TeardownOrder, CloudEmpty, NoOrphan, SameObject,
           PatchObject, cloud
<1>6. CASE PatchStatus
  <2>1. SameObject(api', api)
    BY <1>6, PersistFields DEF PatchStatus, Store, TypeOK
  <2>2. QED
    BY <1>6, <2>1
       DEF Ownership, CopiesCurrent, CacheBehind, Stage, Early, Deleting,
           TearDown, TeardownOrder, CloudEmpty, NoOrphan, SameObject,
           PatchStatus, Store,
       ActuatorReturns, Goto, Return, cloud
<1>7. CASE PatchFails
  BY <1>7
     DEF Ownership, CopiesCurrent, CacheBehind, Stage, Early, Deleting,
         TearDown, TeardownOrder, CloudEmpty, NoOrphan, kube, cloud,
         PatchFails, ActuatorReturns, Goto, Return
<1>8. QED
  BY <1>1, <1>2, <1>3, <1>4, <1>5, <1>6, <1>7 DEF UpdateStep

\* Every step of DeleteStep preserves the ownership invariant.
LEMMA OwnDelete == IInv /\ DeleteStep => Ownership'
<1> SUFFICES ASSUME TypeOK, Ownership, DeleteStep PROVE Ownership'
  BY DEF IInv
<1>1. CASE DeleteStatus
  <2>1. Kept /\ api.ex
    BY <1>1, UpdateStatusKept DEF DeleteStatus
  <2>2. CASE Return
    BY <2>1, <2>2, ReturnKept
  <2>3. CASE api'.fin /\ pc' = "delScope" /\ m' = api' /\ UNCHANGED <<op, s, res, code>>
    <3>1. CopiesCurrent' /\ CacheBehind'
      BY <2>1, <2>3 DEF Ownership, CopiesCurrent, CacheBehind, Kept, SameObject
    <3>2. Stage'
      BY <1>1, <2>1, <2>3
         DEF Ownership, Stage, Early, Deleting, Kept, SameObject,
         DeleteStatus
    <3>3. TearDown' /\ NoOrphan'
      BY <2>1, <2>3
         DEF Ownership, TearDown, TeardownOrder, CloudEmpty, NoOrphan, Kept,
         SameObject
    <3>4. QED
      BY <3>1, <3>2, <3>3 DEF Ownership
  <2>4. QED
    BY <1>1, <2>2, <2>3 DEF DeleteStatus
<1>2. CASE DeleteScopeFails
  BY <1>2
     DEF Ownership, CopiesCurrent, CacheBehind, Stage, Early, Deleting,
         TearDown, TeardownOrder, CloudEmpty, NoOrphan, kube, cloud,
         DeleteScopeFails, Return
<1>3. CASE DeleteScope
  BY <1>3
     DEF Ownership, CopiesCurrent, CacheBehind, Stage, Early, Deleting,
         TearDown, TeardownOrder, CloudEmpty, NoOrphan, kube, cloud,
         DeleteScope
<1>4. CASE DeleteVM
  BY <1>4
     DEF Ownership, CopiesCurrent, CacheBehind, Stage, Early, Deleting,
         TearDown, TeardownOrder, CloudEmpty, NoOrphan, kube, cloud, DeleteVM,
         Goto
<1>5. CASE DeleteVMIncomplete
  BY <1>5, ReturnsControl
     DEF Ownership, CopiesCurrent, CacheBehind, Stage, Early, Deleting,
         TearDown, TeardownOrder, CloudEmpty, NoOrphan, kube, cloud,
         DeleteVMIncomplete
<1>6. CASE DeleteVMFails
  BY <1>6, AzureFailsControl
     DEF Ownership, CopiesCurrent, CacheBehind, Stage, Early, Deleting,
         TearDown, TeardownOrder, CloudEmpty, NoOrphan, kube, cloud,
         DeleteVMFails
<1>7. CASE DeleteDisk
  BY <1>7, ReturnsControl
     DEF Ownership, CopiesCurrent, CacheBehind, Stage, Early, Deleting,
         TearDown, TeardownOrder, CloudEmpty, NoOrphan, kube, cloud,
         DeleteDisk, Goto
<1>8. CASE DeleteDiskIncomplete
  BY <1>8, ReturnsControl
     DEF Ownership, CopiesCurrent, CacheBehind, Stage, Early, Deleting,
         TearDown, TeardownOrder, CloudEmpty, NoOrphan, kube, cloud,
         DeleteDiskIncomplete
<1>9. CASE DeleteDiskFails
  BY <1>9, AzureFailsControl
     DEF Ownership, CopiesCurrent, CacheBehind, Stage, Early, Deleting,
         TearDown, TeardownOrder, CloudEmpty, NoOrphan, kube, cloud,
         DeleteDiskFails
<1>10. CASE DeleteNIC
  BY <1>10, ReturnsControl
     DEF Ownership, CopiesCurrent, CacheBehind, Stage, Early, Deleting,
         TearDown, TeardownOrder, CloudEmpty, NoOrphan, kube, cloud, DeleteNIC,
         Goto, Deleted
<1>11. CASE DeleteNICFails
  BY <1>11, AzureFailsControl
     DEF Ownership, CopiesCurrent, CacheBehind, Stage, Early, Deleting,
         TearDown, TeardownOrder, CloudEmpty, NoOrphan, kube, cloud,
         DeleteNICFails
<1>12. CASE DeletePublicIP
  BY <1>12
     DEF Ownership, CopiesCurrent, CacheBehind, Stage, Early, Deleting,
         TearDown, TeardownOrder, CloudEmpty, NoOrphan, kube, cloud,
         DeletePublicIP, Goto
<1>13. CASE DeletePublicIPFails
  BY <1>13, AzureFailsControl
     DEF Ownership, CopiesCurrent, CacheBehind, Stage, Early, Deleting,
         TearDown, TeardownOrder, CloudEmpty, NoOrphan, kube, cloud,
         DeletePublicIPFails
<1>14. CASE DeleteAvailabilitySet
  BY <1>14, ReturnsControl, AzureFailsControl
     DEF Ownership, CopiesCurrent, CacheBehind, Stage, Early, Deleting,
         TearDown, TeardownOrder, CloudEmpty, NoOrphan, kube, cloud,
         DeleteAvailabilitySet, Deleted
<1>15. CASE DeleteChecked
  BY <1>15
     DEF Ownership, CopiesCurrent, CacheBehind, Stage, Early, Deleting,
         TearDown, TeardownOrder, CloudEmpty, NoOrphan, kube, cloud,
         DeleteChecked, ExistsFalse, Goto
<1>16. CASE DeleteCheckFails
  BY <1>16
     DEF Ownership, CopiesCurrent, CacheBehind, Stage, Early, Deleting,
         TearDown, TeardownOrder, CloudEmpty, NoOrphan, kube, cloud,
         DeleteCheckFails, ExistsFalse, Return
<1>17. CASE DeleteNode
  BY <1>17
     DEF Ownership, CopiesCurrent, CacheBehind, Stage, Early, Deleting,
         TearDown, TeardownOrder, CloudEmpty, NoOrphan, kube, cloud,
         DeleteNode, Goto
<1>18. CASE RemoveFinalizer
  BY <1>18, OwnRemoveFinalizer
<1>19. QED
  BY <1>1, <1>2, <1>3, <1>4, <1>5, <1>6, <1>7, <1>8, <1>9, <1>10, <1>11, <1>12,
     <1>13, <1>14, <1>15, <1>16, <1>17, <1>18
     DEF DeleteStep

\* Every step of Environment preserves the ownership invariant.
LEMMA OwnEnvironment == IInv /\ Environment => Ownership'
<1> SUFFICES ASSUME TypeOK, Ownership, Environment PROVE Ownership'
  BY DEF IInv
<1>1. CASE CacheSync
  BY <1>1
     DEF Ownership, CopiesCurrent, CacheBehind, Stage, Early, Deleting,
         TearDown, TeardownOrder, CloudEmpty, NoOrphan, kube, cloud, CacheSync
<1>2. CASE Crash
  BY <1>2
     DEF Ownership, CopiesCurrent, CacheBehind, Stage, Early, Deleting,
         TearDown, TeardownOrder, CloudEmpty, NoOrphan, kube, cloud, Crash,
         Return
<1>3. CASE UserDelete
  BY <1>3, OwnUserDelete
<1>4. CASE RemoveHook
  <2>1. Kept
    BY <1>4, ExceptFields DEF RemoveHook, Store, Kept, TypeOK, cloud
  <2>2. QED
    BY <1>4, <2>1, BystanderKept DEF RemoveHook, Store
<1>5. CASE Drain
  <2>1. Kept
    BY <1>5, ExceptFields DEF Drain, Store, Kept, TypeOK, cloud
  <2>2. QED
    BY <1>5, <2>1, BystanderKept DEF Drain, Store
<1>6. CASE NodeLink
  <2>1. Kept
    BY <1>6, ExceptFields DEF NodeLink, Store, Kept, TypeOK, cloud
  <2>2. QED
    BY <1>6, <2>1, BystanderKept DEF NodeLink, Store
<1>7. CASE VMProvisioned
  BY <1>7
     DEF Ownership, CopiesCurrent, CacheBehind, Stage, Early, Deleting,
         TearDown, TeardownOrder, CloudEmpty, NoOrphan, kube, cloud,
         VMProvisioned, VMChanges
<1>8. CASE VMDeleted
  BY <1>8
     DEF Ownership, CopiesCurrent, CacheBehind, Stage, Early, Deleting,
         TearDown, TeardownOrder, CloudEmpty, NoOrphan, kube, cloud, VMDeleted,
         VMChanges
<1>9. CASE VMOperationFails
  BY <1>9
     DEF Ownership, CopiesCurrent, CacheBehind, Stage, Early, Deleting,
         TearDown, TeardownOrder, CloudEmpty, NoOrphan, kube, cloud,
         VMOperationFails, VMChanges
<1>10. CASE OutsideDelete
  BY <1>10
     DEF Ownership, CopiesCurrent, CacheBehind, Stage, Early, Deleting,
         TearDown, TeardownOrder, CloudEmpty, NoOrphan, kube, cloud,
         OutsideDelete, VMChanges
<1>11. CASE OutsideRepair
  BY <1>11
     DEF Ownership, CopiesCurrent, CacheBehind, Stage, Early, Deleting,
         TearDown, TeardownOrder, CloudEmpty, NoOrphan, kube, cloud,
         OutsideRepair, VMChanges
<1>12. CASE DiskDeleted
  BY <1>12
     DEF Ownership, CopiesCurrent, CacheBehind, Stage, Early, Deleting,
         TearDown, TeardownOrder, CloudEmpty, NoOrphan, kube, cloud,
         DiskDeleted
<1>13. QED
  BY <1>1, <1>2, <1>3, <1>4, <1>5, <1>6, <1>7, <1>8, <1>9, <1>10, <1>11, <1>12
     DEF Environment

LEMMA OwnInit == Init => Ownership
  BY
     DEF Init, Ownership, CopiesCurrent, CacheBehind, Stage, Early, Deleting,
         TearDown, TeardownOrder, CloudEmpty, NoOrphan, Blank

LEMMA OwnNext == IInv /\ [Next]_vars => Ownership'
<1>1. IInv /\ UNCHANGED vars => Ownership'
  BY
     DEF IInv, Ownership, CopiesCurrent, CacheBehind, Stage, Early, Deleting,
         TearDown, TeardownOrder, CloudEmpty, NoOrphan, vars
<1>2. QED
  BY <1>1, OwnReconcile, OwnCreate, OwnUpdate, OwnDelete, OwnEnvironment
     DEF Next, Controller

(***************************************************************************)
(* The inductive invariant holds: its initial states, its steps.           *)
(***************************************************************************)
THEOREM InvariantHolds == Spec => []IInv
<1>1. Init => IInv
  BY TypeInit, OwnInit DEF IInv
<1>2. IInv /\ [Next]_vars => IInv'
  BY TypeNext, OwnNext DEF IInv
<1>3. QED
  BY <1>1, <1>2, PTL DEF Spec

(***************************************************************************)
(* No Azure resource outlives its Machine or precedes its finalizer, for   *)
(* every number of failed calls, crashes and outside interventions, every  *)
(* set of provider specs, with stale reads or without.                     *)
(***************************************************************************)
THEOREM NoOrphanHolds == Spec => []NoOrphan
<1>1. IInv => NoOrphan
  BY DEF IInv, Ownership
<1>2. QED
  BY <1>1, InvariantHolds, PTL

(***************************************************************************)
(* Reconciler.Delete takes the resources down in the order of their use,   *)
(* and the finalizer is removed only when all are gone.                    *)
(***************************************************************************)
THEOREM TeardownOrderHolds == Spec => []TeardownOrder
<1>1. IInv => TeardownOrder
  BY DEF IInv, Ownership, TearDown
<1>2. QED
  BY <1>1, InvariantHolds, PTL
=============================================================================
