--------------------------- MODULE AvailabilitySet ---------------------------
(***************************************************************************)
(* The availability set that the machines of one machine set share in a    *)
(* region without zones.  Whoever creates a VM ensures the set first;      *)
(* whoever has deleted its VM, disk, network interface and public IP       *)
(* deletes the set if it finds no VM in it.  Nobody counts references: the *)
(* reconciles of different machines meet in the set alone.                 *)
(*                                                                         *)
(* The steps of a machine are those of MachineLifecycle, seen from the     *)
(* set; one action is one remote call.                                     *)
(***************************************************************************)
EXTENDS Naturals, FiniteSets

CONSTANTS
  Machines,     \* the machines of the machine set
  WorkerCounts, \* the values of --max-concurrent-reconciles
  MaxFaults     \* how many failed calls and crashes

ASSUME SetAssumption ==
  /\ IsFiniteSet(Machines)
  /\ WorkerCounts \subseteq Nat \ {0}
  /\ MaxFaults \in Nat

VARIABLES
  workers,      \* how many machines are reconciled at a time
  set,          \* the availability set exists
  attached,     \* the machines whose VM is in the set
  broken,       \* those whose VM failed provisioning
  state,        \* of each Machine object
  pc,           \* the next call of each machine's reconcile, or "idle"
  op,           \* the operation that reconcile is in
  faults        \* what is left of MaxFaults

setVars == <<workers, set, attached, broken, state, pc, op, faults>>

States == {"new", "provisioned", "failed", "deleting", "gone"}
Labels == {"idle", "ensureSet", "getVM", "putVM", "delVM", "getSet", "delSet", "done"}

Init ==
  /\ workers \in WorkerCounts
  /\ set = FALSE /\ attached = {} /\ broken = {}
  /\ state = [x \in Machines |-> "new"]
  /\ pc = [x \in Machines |-> "idle"]
  /\ op = [x \in Machines |-> "none"]
  /\ faults = MaxFaults

Fault == faults > 0 /\ faults' = faults - 1

Goto(x, label) == pc' = [pc EXCEPT ![x] = label]

\* A call fails in a way that is retried by a later reconcile.
Retried(x) == Goto(x, "idle") /\ UNCHANGED state

\* Only a machine that is not deleted meanwhile is marked Failed.
Terminal(x) ==
  /\ Goto(x, "idle")
  /\ state' = [state EXCEPT ![x] = IF @ = "new" THEN "failed" ELSE @]

\* The error of a failed call while creating is a 4xx, or is retried.
Fails(x) == IF op[x] = "create" THEN Terminal(x) \/ Retried(x) ELSE Retried(x)

-----------------------------------------------------------------------------
Busy == {x \in Machines : pc[x] # "idle"}

\* A deleted machine is torn down, one that Exists does not find is created.
Begin(x) ==
  \/ /\ state[x] = "new" /\ x \notin attached \ broken
     /\ Goto(x, "ensureSet") /\ op' = [op EXCEPT ![x] = "create"]
  \/ state[x] = "deleting" /\ Goto(x, "delVM") /\ op' = [op EXCEPT ![x] = "delete"]

\* Mutant: machines are reconciled without a bound on the workers.
StartUnbounded(x) ==
  /\ pc[x] = "idle"
  /\ Begin(x)
  /\ UNCHANGED <<set, attached, broken, state, faults>>

Start(x) ==
  /\ pc[x] = "idle" /\ Cardinality(Busy) < workers
  /\ Begin(x)
  /\ UNCHANGED <<set, attached, broken, state, faults>>

\* getOrCreateAvailabilitySet, with the lookups of zones and fault domains.
EnsureSet(x) ==
  /\ pc[x] = "ensureSet"
  /\ set' = TRUE
  /\ Goto(x, "getVM")
  /\ UNCHANGED <<attached, broken, state, op, faults>>

EnsureSetFails(x) ==
  /\ pc[x] = "ensureSet" /\ Fault
  /\ set' \in {set, TRUE}
  /\ Fails(x)
  /\ UNCHANGED <<attached, broken, op>>

\* createVirtualMachine: there is no VM, or a failed one of an earlier attempt.
GetVM(x) ==
  /\ pc[x] = "getVM"
  /\ \/ x \notin attached /\ Goto(x, "putVM")
     \/ x \in broken /\ Goto(x, "delVM")
  /\ UNCHANGED <<set, attached, broken, state, op, faults>>

PutVM(x) ==
  /\ pc[x] = "putVM" /\ set
  /\ attached' = attached \cup {x}
  /\ Goto(x, "idle")
  /\ state' = [state EXCEPT ![x] = IF @ = "new" THEN "provisioned" ELSE @]
  /\ UNCHANGED <<set, broken, op, faults>>

\* Azure knows no such set: the error ends the life of the machine.
PutVMWithoutSet(x) ==
  /\ pc[x] = "putVM" /\ ~set
  /\ Terminal(x)
  /\ UNCHANGED <<set, attached, broken, op, faults>>

\* A call fails; the VM may be created although its PUT fails.
PutVMFails(x) ==
  /\ pc[x] \in {"getVM", "putVM"} /\ Fault
  /\ attached' \in IF pc[x] = "putVM" /\ set THEN {attached, attached \cup {x}} ELSE {attached}
  /\ Fails(x)
  /\ UNCHANGED <<set, broken, op>>

\* A later reconcile finds the VM of a failed call: Exists, then Update.
Adopt(x) ==
  /\ pc[x] = "idle" /\ state[x] = "new" /\ x \in attached \ broken
  /\ state' = [state EXCEPT ![x] = "provisioned"]
  /\ UNCHANGED <<set, attached, broken, pc, op, faults>>

-----------------------------------------------------------------------------
\* Reconciler.Delete up to the public IP; what it deletes is gone then.
DeleteVM(x) ==
  /\ pc[x] = "delVM"
  /\ attached' = attached \ {x} /\ broken' = broken \ {x}
  /\ Goto(x, "getSet")
  /\ UNCHANGED <<set, state, op, faults>>

DeleteVMIncomplete(x) ==
  /\ pc[x] = "delVM" /\ x \in attached
  /\ Retried(x)
  /\ UNCHANGED <<set, attached, broken, op, faults>>

\* Mutant: the set is kept for the other Machines, not for their VMs.
GetSetCountsMachines(x) ==
  /\ pc[x] = "getSet"
  /\ Goto(x, IF set /\ \A y \in Machines \ {x} : state[y] = "gone" THEN "delSet" ELSE "done")
  /\ UNCHANGED <<set, attached, broken, state, op, faults>>

\* Service.Delete of the set: look whether it has VMs, and delete it if not.
GetSet(x) ==
  /\ pc[x] = "getSet"
  /\ Goto(x, IF set /\ attached = {} THEN "delSet" ELSE "done")
  /\ UNCHANGED <<set, attached, broken, state, op, faults>>

\* Azure refuses to delete a set that has got a VM meanwhile.
DeleteSet(x) ==
  /\ pc[x] = "delSet"
  /\ IF attached = {} THEN set' = FALSE /\ Goto(x, "done") /\ UNCHANGED state
     ELSE UNCHANGED set /\ (IF op[x] = "create" THEN Terminal(x) ELSE Retried(x))
  /\ UNCHANGED <<attached, broken, op, faults>>

DeleteFails(x) ==
  /\ pc[x] \in {"delVM", "getSet", "delSet"} /\ Fault
  /\ set' \in IF pc[x] = "delSet" /\ attached = {} THEN {set, FALSE} ELSE {set}
  /\ Fails(x)
  /\ UNCHANGED <<attached, broken, op>>

\* The finalizer goes; after the deletion of a failed VM the creation is retried.
Done(x) ==
  /\ pc[x] = "done"
  /\ Goto(x, "idle")
  /\ state' = [state EXCEPT ![x] = IF op[x] = "delete" THEN "gone" ELSE @]
  /\ UNCHANGED <<set, attached, broken, op, faults>>

-----------------------------------------------------------------------------
UserDelete(x) ==
  /\ state[x] \in {"new", "provisioned", "failed"}
  /\ state' = [state EXCEPT ![x] = "deleting"]
  /\ UNCHANGED <<set, attached, broken, pc, op, faults>>

VMFails(x) ==
  /\ x \in attached \ broken /\ Fault
  /\ broken' = broken \cup {x}
  /\ UNCHANGED <<set, attached, state, pc, op>>

\* The manager is killed and starts again.
Crash ==
  /\ Busy # {} /\ Fault
  /\ pc' = [x \in Machines |-> "idle"]
  /\ UNCHANGED <<set, attached, broken, state, op>>

MachineStep(x) ==
  \/ Start(x) \/ EnsureSet(x) \/ EnsureSetFails(x) \/ GetVM(x)
  \/ PutVM(x) \/ PutVMWithoutSet(x) \/ PutVMFails(x) \/ Adopt(x)
  \/ DeleteVM(x) \/ DeleteVMIncomplete(x) \/ GetSet(x) \/ DeleteSet(x)
  \/ DeleteFails(x) \/ Done(x) \/ UserDelete(x) \/ VMFails(x)

\* The number of workers is a flag of the manager.
Next == ((\E x \in Machines : MachineStep(x)) \/ Crash) /\ UNCHANGED workers

Spec == Init /\ [][Next]_setVars

-----------------------------------------------------------------------------
\* Type correctness.
TypeOK ==
  /\ workers \in Nat /\ set \in BOOLEAN /\ attached \subseteq Machines /\ broken \subseteq attached
  /\ state \in [Machines -> States] /\ pc \in [Machines -> Labels]
  /\ op \in [Machines -> {"none", "create", "delete"}]
  /\ faults \in Nat

(***************************************************************************)
(* The set goes with the last machine: with any number of workers, faults  *)
(* and crashes, an existing set always has a machine left that will look   *)
(* after it, so no availability set is leaked when a machine set goes.     *)
(***************************************************************************)
NoLeftoverSet == set => \E x \in Machines : state[x] # "gone"

(***************************************************************************)
(* No machine is lost to another one's deletion: as long as one worker     *)
(* reconciles them all, a machine is marked Failed only by a failing call  *)
(* of its own, crashes included.  (With two workers a machine is lost when *)
(* the set is deleted between its EnsureSet and its PutVM.)                *)
(***************************************************************************)
NoCasualty ==
  [][\A x \in Machines :
       workers = 1 /\ state[x] # "failed" /\ state'[x] = "failed" => faults' # faults]_setVars

(***************************************************************************)
(* The inductive invariant behind NoLeftoverSet: an existing set has a     *)
(* machine that has not yet passed its last look at the set.               *)
(***************************************************************************)
LastLook(x) == state[x] = "gone" \/ (pc[x] = "done" /\ op[x] = "delete")

Guarded ==
  /\ set => \E x \in Machines : ~LastLook(x)
  /\ \A x \in attached : ~LastLook(x)
  /\ \A x \in Machines :
       /\ state[x] = "gone" => pc[x] = "idle"
       /\ pc[x] \in {"getSet", "delSet", "done"} => x \notin attached
       /\ pc[x] # "idle" /\ op[x] = "delete"
            => pc[x] \in {"delVM", "getSet", "delSet", "done"} /\ state[x] = "deleting"

\* The inductive invariant: types, and a machine that guards the set.
SetIInv == TypeOK /\ Guarded
=============================================================================
