----------------------- MODULE AvailabilitySetProofs -----------------------
(***************************************************************************)
(* Proofs that no availability set is leaked, for every number of          *)
(* machines, workers and faults, and that a single worker loses no machine *)
(* to the deletion of another one.                                         *)
(***************************************************************************)
EXTENDS AvailabilitySet, FiniteSetTheorems, TLAPS

-----------------------------------------------------------------------------
\* Every call preserves the types.
LEMMA TypeStep ==
  ASSUME TypeOK, NEW x \in Machines, MachineStep(x), UNCHANGED workers PROVE TypeOK'
<1> USE DEF TypeOK, States, Labels, Goto, Fault
<1>1. CASE Start(x)
  BY <1>1 DEF Start, Begin
<1>2. CASE EnsureSet(x)
  BY <1>2 DEF EnsureSet
<1>3. CASE EnsureSetFails(x)
  <2>1. set' \in BOOLEAN
    BY <1>3 DEF EnsureSetFails
  <2>2. faults' \in Nat
    BY <1>3 DEF EnsureSetFails
  <2>3. Fails(x) /\ UNCHANGED <<attached, broken, op>>
    BY <1>3 DEF EnsureSetFails
  <2>4. Terminal(x) \/ Retried(x)
    BY <2>3 DEF Fails
  <2>5. state' \in [Machines -> States] /\ pc' \in [Machines -> Labels]
    BY <2>4 DEF Terminal, Retried
  <2>6. QED
    BY <2>1, <2>2, <2>3, <2>5
<1>4. CASE GetVM(x)
  BY <1>4 DEF GetVM
<1>5. CASE PutVM(x)
  BY <1>5 DEF PutVM
<1>6. CASE PutVMWithoutSet(x)
  BY <1>6 DEF PutVMWithoutSet, Terminal
<1>7. CASE PutVMFails(x)
  BY <1>7 DEF PutVMFails, Fails, Terminal, Retried
<1>8. CASE DeleteVM(x)
  BY <1>8 DEF DeleteVM
<1>9. CASE DeleteVMIncomplete(x)
  BY <1>9 DEF DeleteVMIncomplete, Retried
<1>10. CASE GetSet(x)
  BY <1>10 DEF GetSet
<1>11. CASE DeleteSet(x)
  BY <1>11 DEF DeleteSet, Terminal, Retried
<1>12. CASE DeleteFails(x)
  <2>1. set' \in BOOLEAN
    BY <1>12 DEF DeleteFails
  <2>2. faults' \in Nat
    BY <1>12 DEF DeleteFails
  <2>3. Fails(x) /\ UNCHANGED <<attached, broken, op>>
    BY <1>12 DEF DeleteFails
  <2>4. Terminal(x) \/ Retried(x)
    BY <2>3 DEF Fails
  <2>5. state' \in [Machines -> States] /\ pc' \in [Machines -> Labels]
    BY <2>4 DEF Terminal, Retried
  <2>6. QED
    BY <2>1, <2>2, <2>3, <2>5
<1>13. CASE Done(x)
  BY <1>13 DEF Done
<1>14. CASE UserDelete(x)
  BY <1>14 DEF UserDelete
<1>15. CASE VMFails(x)
  BY <1>15 DEF VMFails
<1>16. CASE Adopt(x)
  BY <1>16 DEF Adopt
<1>17. QED
  BY <1>1, <1>2, <1>3, <1>4, <1>5, <1>6, <1>7, <1>8, <1>9, <1>10, <1>11, <1>12,
     <1>13, <1>14, <1>15, <1>16 DEF MachineStep

\* A call of x leaves the state and the calls of the other machines alone.
Others(x) == \A y \in Machines : y # x =>
  pc'[y] = pc[y] /\ state'[y] = state[y] /\ op'[y] = op[y] /\ (y \in attached' <=> y \in attached)

LEMMA StepOthers ==
  ASSUME TypeOK, NEW x \in Machines, MachineStep(x), UNCHANGED workers PROVE Others(x)
<1> USE DEF TypeOK, Goto, Others
<1>1. CASE Start(x) \/ UserDelete(x) \/ VMFails(x) \/ Adopt(x)
  BY <1>1 DEF Start, Begin, UserDelete, VMFails, Adopt
<1>2. CASE EnsureSet(x) \/ EnsureSetFails(x) \/ GetVM(x)
  BY <1>2 DEF EnsureSet, EnsureSetFails, GetVM, Fails, Terminal, Retried
<1>3. CASE PutVM(x) \/ PutVMWithoutSet(x) \/ PutVMFails(x)
  BY <1>3 DEF PutVM, PutVMWithoutSet, PutVMFails, Fails, Terminal, Retried
<1>4. CASE DeleteVM(x) \/ DeleteVMIncomplete(x) \/ GetSet(x)
  BY <1>4 DEF DeleteVM, DeleteVMIncomplete, GetSet, Retried
<1>5. CASE DeleteSet(x) \/ DeleteFails(x) \/ Done(x)
  BY <1>5 DEF DeleteSet, DeleteFails, Done, Fails, Terminal, Retried
<1>6. QED
  BY <1>1, <1>2, <1>3, <1>4, <1>5 DEF MachineStep

\* What a machine's own call does to its part of the invariant.
Own(x) ==
  /\ state[x] = "gone" => pc[x] = "idle"
  /\ pc[x] \in {"getSet", "delSet", "done"} => x \notin attached
  /\ pc[x] # "idle" /\ op[x] = "delete"
       => pc[x] \in {"delVM", "getSet", "delSet", "done"} /\ state[x] = "deleting"
  /\ x \in attached => ~LastLook(x)

LEMMA StepOwn ==
  ASSUME TypeOK, NEW x \in Machines, Own(x), MachineStep(x), UNCHANGED workers PROVE Own(x)'
<1> USE DEF TypeOK, Goto, Own, LastLook
<1>1. CASE Start(x)
  BY <1>1 DEF Start, Begin
<1>2. CASE EnsureSet(x)
  BY <1>2 DEF EnsureSet
<1>3. CASE EnsureSetFails(x)
  BY <1>3 DEF EnsureSetFails, Fails, Terminal, Retried
<1>4. CASE GetVM(x)
  BY <1>4 DEF GetVM
<1>5. CASE PutVM(x)
  BY <1>5 DEF PutVM
<1>6. CASE PutVMWithoutSet(x)
  BY <1>6 DEF PutVMWithoutSet, Terminal
<1>7. CASE PutVMFails(x)
  BY <1>7 DEF PutVMFails, Fails, Terminal, Retried
<1>8. CASE DeleteVM(x)
  BY <1>8 DEF DeleteVM
<1>9. CASE DeleteVMIncomplete(x)
  BY <1>9 DEF DeleteVMIncomplete, Retried
<1>10. CASE GetSet(x)
  BY <1>10 DEF GetSet
<1>11. CASE DeleteSet(x)
  BY <1>11 DEF DeleteSet, Terminal, Retried
<1>12. CASE DeleteFails(x)
  BY <1>12 DEF DeleteFails, Fails, Terminal, Retried
<1>13. CASE Done(x)
  BY <1>13 DEF Done
<1>14. CASE UserDelete(x)
  BY <1>14 DEF UserDelete
<1>15. CASE VMFails(x)
  BY <1>15 DEF VMFails
<1>16. CASE Adopt(x)
  BY <1>16 DEF Adopt
<1>17. QED
  BY <1>1, <1>2, <1>3, <1>4, <1>5, <1>6, <1>7, <1>8, <1>9, <1>10, <1>11, <1>12,
     <1>13, <1>14, <1>15, <1>16 DEF MachineStep

\* A machine takes its last look only at a set that is gone or has VMs; and
\* who creates the set has not taken it.
LEMMA StepLook ==
  ASSUME TypeOK, NEW x \in Machines, Own(x), MachineStep(x)
  PROVE  /\ ~LastLook(x) /\ LastLook(x)' => set' = FALSE \/ \E y \in attached' : y # x
         /\ ~set /\ set' => ~LastLook(x)'
<1> USE DEF TypeOK, Goto, Own, LastLook
<1>1. CASE Start(x) \/ EnsureSet(x) \/ UserDelete(x) \/ VMFails(x) \/ Adopt(x)
  BY <1>1 DEF Start, Begin, EnsureSet, UserDelete, VMFails, Adopt
<1>2. CASE EnsureSetFails(x) \/ GetVM(x) \/ DeleteVM(x) \/ DeleteVMIncomplete(x)
  BY <1>2 DEF EnsureSetFails, GetVM, DeleteVM, DeleteVMIncomplete, Fails, Terminal, Retried
<1>3. CASE PutVM(x) \/ PutVMWithoutSet(x) \/ PutVMFails(x)
  BY <1>3 DEF PutVM, PutVMWithoutSet, PutVMFails, Fails, Terminal, Retried
<1>4. CASE GetSet(x)
  BY <1>4 DEF GetSet
<1>5. CASE DeleteSet(x)
  BY <1>5 DEF DeleteSet, Terminal, Retried
<1>6. CASE DeleteFails(x)
  BY <1>6 DEF DeleteFails, Fails, Terminal, Retried
<1>7. CASE Done(x)
  BY <1>7 DEF Done
<1>8. QED
  BY <1>1, <1>2, <1>3, <1>4, <1>5, <1>6, <1>7 DEF MachineStep

\* The parts make up the invariant.
LEMMA GuardedParts ==
  ASSUME TypeOK
  PROVE  Guarded <=> /\ set => \E x \in Machines : ~LastLook(x)
                     /\ \A x \in Machines : Own(x)
  BY DEF TypeOK, Guarded, Own

LEMMA GuardedPartsNext ==
  ASSUME TypeOK', set' => \E x \in Machines : ~LastLook(x)',
         \A x \in Machines : Own(x)'
  PROVE  Guarded'
  BY DEF TypeOK, Guarded, Own

\* Every call preserves the invariant.
LEMMA GuardedStep ==
  ASSUME TypeOK, Guarded, NEW x \in Machines, MachineStep(x), UNCHANGED workers PROVE Guarded'
<1>1. TypeOK'
  BY TypeStep
<1>2. \A y \in Machines : Own(y)
  BY GuardedParts
<1>3. Others(x)
  BY StepOthers
<1>4. ASSUME NEW y \in Machines PROVE Own(y)'
  <2>1. CASE y = x
    BY <1>2, <2>1, StepOwn
  <2>2. CASE y # x
    BY <1>2, <1>3, <2>2 DEF Own, Others, LastLook
  <2>3. QED
    BY <2>1, <2>2
<1>5. ASSUME set' PROVE \E y \in Machines : ~LastLook(y)'
  <2>1. CASE ~LastLook(x)'
    BY <2>1
  <2>2. CASE LastLook(x)' /\ ~LastLook(x)
    <3>1. PICK y \in attached' : y # x
      BY <1>2, <1>5, <2>2, StepLook
    <3>2. y \in Machines /\ ~LastLook(y)'
      BY <1>1, <1>4, <3>1 DEF TypeOK, Own
    <3>3. QED
      BY <3>2
  <2>3. CASE LastLook(x)' /\ LastLook(x)
    <3>1. set
      BY <1>1, <1>2, <1>5, <2>3, StepLook DEF TypeOK
    <3>2. PICK y \in Machines : ~LastLook(y)
      BY <3>1, GuardedParts
    <3>3. ~LastLook(y)'
      BY <1>3, <2>3, <3>2 DEF Others, LastLook
    <3>4. QED
      BY <3>3
  <2>4. QED
    BY <2>1, <2>2, <2>3
<1>6. QED
  BY <1>1, <1>4, <1>5, GuardedPartsNext

\* A crash only forgets where the machines were.
LEMMA CrashStep ==
  ASSUME TypeOK, Guarded, Crash, UNCHANGED workers PROVE TypeOK' /\ Guarded'
<1>1. TypeOK'
  BY DEF TypeOK, Crash, Fault, Labels
<1>2. Guarded'
  BY <1>1 DEF TypeOK, Crash, Guarded, LastLook
<1>3. QED
  BY <1>1, <1>2

(***************************************************************************)
(* The inductive invariant of the shared set.                              *)
(***************************************************************************)
THEOREM SetInvariantHolds == Spec => []SetIInv
<1>1. Init => SetIInv
  BY SetAssumption DEF Init, SetIInv, TypeOK, Guarded, LastLook, States, Labels
<1>2. SetIInv /\ [Next]_setVars => SetIInv'
  <2> SUFFICES ASSUME SetIInv, [Next]_setVars PROVE SetIInv'
    OBVIOUS
  <2>1. CASE UNCHANGED setVars
    BY <2>1 DEF SetIInv, TypeOK, Guarded, LastLook, setVars
  <2>2. CASE Crash /\ UNCHANGED workers
    BY <2>2, CrashStep DEF SetIInv
  <2>3. ASSUME NEW x \in Machines, MachineStep(x), UNCHANGED workers PROVE SetIInv'
    BY <2>3, TypeStep, GuardedStep DEF SetIInv
  <2>4. QED
    BY <2>1, <2>2, <2>3 DEF Next
<1>3. QED
  BY <1>1, <1>2, PTL DEF Spec

(***************************************************************************)
(* No availability set is left behind when the last machine is gone,       *)
(* whatever the number of machines, workers, failed calls and crashes.     *)
(***************************************************************************)
THEOREM NoLeftoverSetHolds == Spec => []NoLeftoverSet
<1>1. SetIInv => NoLeftoverSet
  BY DEF SetIInv, Guarded, LastLook, NoLeftoverSet
<1>2. QED
  BY <1>1, SetInvariantHolds, PTL

-----------------------------------------------------------------------------
(***************************************************************************)
(* One worker.  Two reconciles are never under way together, so between    *)
(* EnsureSet and PutVM nobody deletes the set, and between GetSet and      *)
(* DeleteSet nobody puts a VM into it.                                     *)
(***************************************************************************)
Undisturbed(x) == /\ pc[x] \in {"getVM", "putVM"} => set
                  /\ pc[x] = "delSet" => attached = {}

Alone == /\ \A x, y \in Machines : pc[x] # "idle" /\ pc[y] # "idle" => x = y
         /\ \A x \in Machines : Undisturbed(x)

\* The only worker starts when nobody is busy.
LEMMA StartAlone ==
  ASSUME workers = 1, NEW x \in Machines, Start(x)
  PROVE  \A y \in Machines : pc[y] = "idle"
<1>1. IsFiniteSet(Busy)
  BY SetAssumption, FS_Subset DEF Busy
<1>2. Cardinality(Busy) \in Nat /\ Cardinality(Busy) < 1
  BY <1>1, FS_CardinalityType DEF Start
<1>3. Busy = {}
  BY <1>1, <1>2, FS_EmptySet
<1>4. QED
  BY <1>3 DEF Busy

\* A call is made by a reconcile, or it changes neither the set nor a label.
LEMMA StepByBusy ==
  ASSUME NEW x \in Machines, MachineStep(x)
  PROVE  \/ Start(x) \/ pc[x] # "idle"
         \/ UNCHANGED <<set, attached, pc>>
  BY DEF MachineStep, EnsureSet, EnsureSetFails, GetVM, PutVM, PutVMWithoutSet,
         PutVMFails, Adopt, DeleteVM, DeleteVMIncomplete, GetSet, DeleteSet,
         DeleteFails, Done, UserDelete, VMFails

\* What a reconcile has found out holds when it acts on it.
LEMMA StepUndisturbed ==
  ASSUME TypeOK, NEW x \in Machines, Undisturbed(x), MachineStep(x)
  PROVE  Undisturbed(x)'
<1> USE DEF TypeOK, Undisturbed, Goto
<1>1. CASE Start(x) \/ EnsureSet(x) \/ GetVM(x) \/ PutVM(x) \/ Done(x)
  BY <1>1 DEF Start, Begin, EnsureSet, GetVM, PutVM, Done
<1>2. CASE EnsureSetFails(x) \/ PutVMFails(x)
  BY <1>2 DEF EnsureSetFails, PutVMFails, Fails, Terminal, Retried
<1>3. CASE PutVMWithoutSet(x) \/ DeleteVM(x) \/ DeleteVMIncomplete(x) \/ GetSet(x)
  BY <1>3
     DEF PutVMWithoutSet, DeleteVM, DeleteVMIncomplete, GetSet, Terminal, Retried
<1>4. CASE DeleteSet(x) \/ DeleteFails(x)
  BY <1>4 DEF DeleteSet, DeleteFails, Fails, Terminal, Retried
<1>5. CASE Adopt(x) \/ UserDelete(x) \/ VMFails(x)
  BY <1>5 DEF Adopt, UserDelete, VMFails
<1>6. QED
  BY <1>1, <1>2, <1>3, <1>4, <1>5 DEF MachineStep

\* A worker that is alone stays alone.
LEMMA StepAlone ==
  ASSUME TypeOK, workers = 1, Alone, NEW x \in Machines, MachineStep(x),
         UNCHANGED workers
  PROVE  Alone'
<1>1. Others(x) /\ Undisturbed(x)'
  BY StepOthers, StepUndisturbed DEF Alone
<1>2. CASE Start(x) \/ pc[x] # "idle"
  <2>1. \A y \in Machines : y # x => pc'[y] = "idle"
    BY <1>1, <1>2, StartAlone DEF Alone, Others
  <2>2. \A y \in Machines : y # x => Undisturbed(y)'
    BY <2>1 DEF Undisturbed
  <2>3. QED
    BY <1>1, <2>1, <2>2 DEF Alone
<1>3. CASE UNCHANGED <<set, attached, pc>>
  BY <1>3 DEF Alone, Undisturbed
<1>4. QED
  BY <1>2, <1>3, StepByBusy

\* A machine is marked Failed by a call that fails, or by one that finds the
\* set in another state than its reconcile left it in.
LEMMA StepFailed ==
  ASSUME TypeOK, NEW x \in Machines, Undisturbed(x), MachineStep(x),
         state[x] # "failed", state'[x] = "failed"
  PROVE  Fault
<1> USE DEF TypeOK, Undisturbed, Goto
<1>1. ~(Start(x) \/ EnsureSet(x) \/ GetVM(x) \/ PutVM(x) \/ Adopt(x))
  BY DEF Start, EnsureSet, GetVM, PutVM, Adopt
<1>2. ~(\/ DeleteVM(x) \/ DeleteVMIncomplete(x) \/ GetSet(x)
        \/ Done(x) \/ UserDelete(x))
  BY DEF DeleteVM, DeleteVMIncomplete, GetSet, Done, UserDelete, Retried
<1>3. ~PutVMWithoutSet(x)
  BY DEF PutVMWithoutSet
<1>4. ~DeleteSet(x)
  BY DEF DeleteSet
<1>5. QED
  BY <1>1, <1>2, <1>3, <1>4
     DEF MachineStep, EnsureSetFails, PutVMFails, DeleteFails, VMFails

\* The invariant of a single worker, on top of the one of the set.
LEMMA AloneHolds == Spec => [](SetIInv /\ (workers = 1 => Alone))
<1>1. Init => (workers = 1 => Alone)
  BY DEF Init, Alone, Undisturbed
<1>2. SetIInv /\ (workers = 1 => Alone) /\ [Next]_setVars
        => (workers = 1 => Alone)'
  <2> SUFFICES ASSUME SetIInv, workers = 1 => Alone, [Next]_setVars, workers' = 1
               PROVE  Alone'
    OBVIOUS
  <2>1. workers = 1
    BY DEF Next, setVars
  <2>2. CASE UNCHANGED setVars
    BY <2>1, <2>2 DEF Alone, Undisturbed, setVars
  <2>3. CASE Crash
    BY <2>3 DEF Crash, Alone, Undisturbed
  <2>4. ASSUME NEW x \in Machines, MachineStep(x), UNCHANGED workers PROVE Alone'
    BY <2>1, <2>4, StepAlone DEF SetIInv
  <2>5. QED
    BY <2>2, <2>3, <2>4 DEF Next
<1>3. QED
  BY <1>1, <1>2, SetInvariantHolds, PTL DEF Spec

(***************************************************************************)
(* With one worker a machine is marked Failed only by a failing call of    *)
(* its own, whatever the other machines of its set go through: the set is  *)
(* never deleted under it, nor found occupied after it was found empty.    *)
(***************************************************************************)
THEOREM NoCasualtyHolds == Spec => NoCasualty
<1> DEFINE Casualty(x) == workers = 1 /\ state[x] # "failed" /\ state'[x] = "failed"
<1>1. SetIInv /\ (workers = 1 => Alone) /\ [Next]_setVars
        => [\A x \in Machines : Casualty(x) => faults' # faults]_setVars
  <2> SUFFICES ASSUME SetIInv, workers = 1 => Alone, Next,
                      NEW x \in Machines, Casualty(x)
               PROVE  faults' # faults
    OBVIOUS
  <2>1. ~Crash
    BY DEF Crash
  <2>2. PICK y \in Machines : MachineStep(y) /\ UNCHANGED workers
    BY <2>1 DEF Next
  <2>3. y = x
    BY <2>2, StepOthers DEF SetIInv, Others
  <2>4. Fault
    BY <2>2, <2>3, StepFailed DEF SetIInv, Alone
  <2>5. QED
    BY <2>4 DEF Fault, SetIInv, TypeOK
<1>2. QED
  BY <1>1, AloneHolds, PTL DEF Spec, NoCasualty
=============================================================================
