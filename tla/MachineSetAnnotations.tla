------------------------- MODULE MachineSetAnnotations -------------------------
(***************************************************************************)
(* The machine set controller (actuators/machineset/controller.go): it     *)
(* publishes the capacity of a machine set's VM size in annotations, for   *)
(* the autoscaler to scale the set from zero.                              *)
(*                                                                         *)
(* Reconcile reads the MachineSet from the informer cache, looks the size  *)
(* up, changes its copy and sends a merge patch of what it changed, with   *)
(* no lock on the version it read.  Users change the size and the labels   *)
(* annotation at any time.  Every change of the object, the controller's   *)
(* own included, queues another reconcile once the cache has seen it.      *)
(***************************************************************************)
EXTENDS Integers, Sequences, SequencesExt

CONSTANTS
  Nil,         \* no annotation; a size Azure does not list; no capability
  Sizes,       \* what Azure says of each VM size
  LabelLists,  \* what users put in the labels annotation
  MaxEdits,    \* bound on the users' changes
  MaxFaults    \* bound on failed lookups, failed patches and crashes

(***************************************************************************)
(* A size is Nil or [cpu, memory, gpu, arch], its capabilities.  Memory is *)
(* in tenths of a GiB, and Nil also when it is no number.  The labels      *)
(* annotation is a sequence of entries: <<key, value>>, or <<word>> for    *)
(* one that is no pair.                                                    *)
(***************************************************************************)
ASSUME BoundsAssumption == MaxEdits \in Nat /\ MaxFaults \in Nat

ASSUME SizesAssumption ==
  \A s \in DOMAIN Sizes : Sizes[s] # Nil => Sizes[s].memory \in Nat \cup {Nil}

ASSUME LabelsAssumption == LabelLists \subseteq Seq(Seq(STRING))

\* What the provers have to be told: literals are strings.
ASSUME LiteralsAssumption == {"kubernetes.io/arch", "amd64", "arm64"} \subseteq STRING

VARIABLES
  api,      \* the stored MachineSet: [size, cpu, memory, gpu, labels, del]
  cache,    \* the informer's copy
  seen,     \* the informer has received every change of the object
  queued,   \* a reconcile request is in the work queue
  pc,       \* "idle", "lookup", "patch"
  orig,     \* the copy a reconcile started from
  new,      \* the copy it works on
  retry,    \* it is going to return an error
  edits, faults

vars == <<api, cache, seen, queued, pc, orig, new, retry, edits, faults>>

ArchKey == "kubernetes.io/arch"

Init ==
  /\ \E size \in DOMAIN Sizes, labels \in LabelLists :
       api = [size |-> size, cpu |-> Nil, memory |-> Nil, gpu |-> Nil,
              labels |-> labels, del |-> FALSE]
  /\ cache = api /\ seen = TRUE /\ queued = TRUE
  /\ pc = "idle" /\ orig = api /\ new = api /\ retry = FALSE
  /\ edits = MaxEdits /\ faults = MaxFaults

-----------------------------------------------------------------------------
(***************************************************************************)
(* updateMachineSetAnnotations                                             *)
(***************************************************************************)
GetCapability(sku, name) == sku[name]

\* Mutant: what is no number is converted by way of not-a-number, which becomes negative.
memoryGiBtoMiBUnparsed(memory) ==
  IF memory = Nil THEN -1 ELSE (memory * 1024 + 5) \div 10

\* Rounded to whole MiB.  The error of ParseFloat is only printed: it gives 0.
memoryGiBtoMiB(memory) ==
  IF memory = Nil THEN 0 ELSE (memory * 1024 + 5) \div 10

normalizedArchitecture(arch) == IF arch = "Arm64" THEN "arm64" ELSE "amd64"

\* The pairs of a list, the last value of a key winning.
PairsOf(list) ==
  {list[i] : i \in {i \in DOMAIN list :
     /\ Len(list[i]) = 2
     /\ \A j \in (i + 1)..Len(list) : Len(list[j]) = 2 => list[j][1] # list[i][1]}}

\* Mutant: the labels that are there are replaced.
MergedListsReplaced(first, second) == {first}

\* The map is turned into a list in any order.
MergeCommaSeparatedKeyValuePairs(first, second) == SetToSeqs(PairsOf(first \o second))

\* The copies that updateMachineSetAnnotations may make of machine set ms.
updateMachineSetAnnotations(ms, sku) ==
  LET arch == <<<<ArchKey, normalizedArchitecture(GetCapability(sku, "arch"))>>>>
  IN {[ms EXCEPT !.cpu    = IF GetCapability(sku, "cpu") = Nil THEN "" ELSE sku.cpu,
                 !.memory = memoryGiBtoMiB(GetCapability(sku, "memory")),
                 !.gpu    = IF GetCapability(sku, "gpu") = Nil THEN "0" ELSE sku.gpu,
                 !.labels = l] :
        l \in MergeCommaSeparatedKeyValuePairs(arch, ms.labels)}

-----------------------------------------------------------------------------
(***************************************************************************)
(* Reconcile                                                               *)
(***************************************************************************)
Return == /\ pc' = "idle" /\ retry' = FALSE
          /\ orig' = cache' /\ new' = cache'

\* A machine set that is being deleted is left alone.
StartReconcile ==
  /\ pc = "idle" /\ queued
  /\ queued' = FALSE
  /\ pc' = IF cache.del THEN "idle" ELSE "lookup"
  /\ orig' = cache /\ new' = cache
  /\ UNCHANGED <<api, cache, seen, retry, edits, faults>>

getStockKeepUnit ==
  /\ pc = "lookup" /\ Sizes[new.size] # Nil
  /\ new' \in updateMachineSetAnnotations(new, Sizes[new.size])
  /\ pc' = "patch"
  /\ UNCHANGED <<api, cache, seen, queued, orig, retry, edits, faults>>

\* Mutant: a size that is not listed is reported like any other error.
SizeUnknownRetried ==
  /\ pc = "lookup" /\ Sizes[new.size] = Nil
  /\ pc' = "patch" /\ retry' = TRUE
  /\ UNCHANGED <<api, cache, seen, queued, orig, new, edits, faults>>

\* An InvalidMachineConfiguration: no error is returned, nothing is changed.
SizeUnknown ==
  /\ pc = "lookup" /\ Sizes[new.size] = Nil
  /\ pc' = "patch"
  /\ UNCHANGED <<api, cache, seen, queued, orig, new, retry, edits, faults>>

\* Mutant: every failed lookup is taken for an invalid configuration.
LookupFailsForGood ==
  /\ pc = "lookup"
  /\ faults > 0 /\ faults' = faults - 1
  /\ pc' = "patch"
  /\ UNCHANGED <<api, cache, seen, queued, orig, new, retry, edits>>

\* No scope, or the list of SKUs could not be had.
LookupFails ==
  /\ pc = "lookup"
  /\ faults > 0 /\ faults' = faults - 1
  /\ pc' = "patch" /\ retry' = TRUE
  /\ UNCHANGED <<api, cache, seen, queued, orig, new, edits>>

\* What the merge patch makes of the stored object.
Patched ==
  [f \in DOMAIN api |-> IF new[f] # orig[f] THEN new[f] ELSE api[f]]

\* Attempted after an error too.
Patch ==
  /\ pc = "patch"
  /\ api' = Patched /\ seen' = (seen /\ api' = api)
  /\ queued' = (queued \/ retry)
  /\ UNCHANGED <<cache, edits, faults>>
  /\ Return

PatchFails ==
  /\ pc = "patch"
  /\ faults > 0 /\ faults' = faults - 1
  /\ queued' = TRUE
  /\ UNCHANGED <<api, cache, seen, edits>>
  /\ Return

-----------------------------------------------------------------------------
(***************************************************************************)
(* The surroundings.                                                       *)
(***************************************************************************)
CacheSync ==
  /\ ~seen
  /\ cache' = api /\ seen' = TRUE /\ queued' = TRUE
  /\ IF pc = "idle" THEN orig' = api /\ new' = api ELSE UNCHANGED <<orig, new>>
  /\ UNCHANGED <<api, pc, retry, edits, faults>>

\* A new process lists the machine sets and queues each of them.
Crash ==
  /\ faults > 0 /\ faults' = faults - 1
  /\ cache' = api /\ seen' = TRUE /\ queued' = TRUE
  /\ UNCHANGED <<api, edits>>
  /\ Return

UserEdits ==
  /\ edits > 0 /\ edits' = edits - 1
  /\ \/ \E size \in DOMAIN Sizes : api' = [api EXCEPT !.size = size]
     \/ \E labels \in LabelLists : api' = [api EXCEPT !.labels = labels]
     \/ api' = [api EXCEPT !.del = TRUE]
  /\ api' # api /\ seen' = FALSE
  /\ UNCHANGED <<cache, queued, pc, orig, new, retry, faults>>

Controller == StartReconcile \/ getStockKeepUnit \/ SizeUnknown \/ Patch

Next == \/ Controller \/ LookupFails \/ PatchFails
        \/ CacheSync \/ Crash \/ UserEdits

(***************************************************************************)
(* The work queue and the informer go on.  The order of a Go map is drawn  *)
(* anew for each reconcile, so that again and again it is the order which  *)
(* the annotation has already.                                             *)
(***************************************************************************)
SameOrder == getStockKeepUnit /\ new'.labels = new.labels

Fairness == WF_vars(Controller) /\ WF_vars(CacheSync) /\ SF_vars(SameOrder)

Spec == Init /\ [][Next]_vars /\ Fairness

-----------------------------------------------------------------------------
UserEntries == UNION {ToSet(l) : l \in LabelLists}

Entries == UserEntries \cup {<<ArchKey, a>> : a \in {"amd64", "arm64"}}

Capacities(f) == {Nil, "", "0"} \cup {Sizes[s][f] : s \in {s \in DOMAIN Sizes : Sizes[s] # Nil}}

MachineSets(ms) ==
  /\ ms.size \in DOMAIN Sizes /\ ms.del \in BOOLEAN
  /\ ms.cpu \in Capacities("cpu") /\ ms.gpu \in Capacities("gpu")
  /\ ms.memory = Nil \/ ms.memory \in Nat
  /\ ToSet(ms.labels) \subseteq Entries

(***************************************************************************)
(* Type correctness: the annotations hold capacities of a size, a memory   *)
(* that is a natural number, and labels that somebody put there.           *)
(***************************************************************************)
TypeOK ==
  /\ MachineSets(api) /\ MachineSets(cache) /\ MachineSets(orig) /\ MachineSets(new)
  /\ seen \in BOOLEAN /\ queued \in BOOLEAN /\ retry \in BOOLEAN /\ pc \in {"idle", "lookup", "patch"}
  /\ edits \in 0..MaxEdits /\ faults \in 0..MaxFaults

\* The capacity annotations are those of the size, and the labels name an
\* architecture: the size's, unless it changed or there was a label before.
Published ==
  Sizes[api.size] # Nil =>
    LET sku == Sizes[api.size]
        archs == {p \in PairsOf(api.labels) : p[1] = ArchKey}
        right == <<ArchKey, normalizedArchitecture(sku.arch)>>
    IN /\ api.cpu = IF sku.cpu = Nil THEN "" ELSE sku.cpu
       /\ IF sku.memory = Nil THEN api.memory = 0
          ELSE 10 * api.memory - 1024 * sku.memory \in -4..5
       /\ api.gpu = IF sku.gpu = Nil THEN "0" ELSE sku.gpu
       /\ \E p \in archs : archs = {p} /\ (edits = MaxEdits => p = right \/ p \in UserEntries)

(***************************************************************************)
(* However lookups and patches fail, stale copies are patched and users    *)
(* interfere: in the end a machine set that is not being deleted publishes *)
(* the capacity of the size it has, if Azure lists it, and one             *)
(* architecture.  (For a size that is not listed, the annotations of the   *)
(* size before it stay.)                                                   *)
(***************************************************************************)
CapacityConverges == <>[](api.del \/ Published)

(***************************************************************************)
(* The controller comes to rest although each of its patches triggers it   *)
(* again and rewrites the labels in another order.                         *)
(***************************************************************************)
ControllerRests == <>[](pc = "idle" /\ ~queued)

(***************************************************************************)
(* The comment in updateMachineSetAnnotations promises that existing       *)
(* labels are preserved.  A patch loses a label, or changes its value,     *)
(* only if the annotation was changed after the reconcile had read it.     *)
(***************************************************************************)
LabelsPreserved ==
  [][pc = "patch" /\ pc' = "idle" =>
       PairsOf(api.labels) \subseteq PairsOf(api'.labels) \/ api.labels # orig.labels]_vars

=============================================================================
