--------------------- MODULE MachineSetAnnotationsProofs ---------------------
(***************************************************************************)
(* Proofs about MachineSetAnnotations, for all sizes, all label lists and  *)
(* any number of users' changes, failures and crashes.                     *)
(***************************************************************************)
EXTENDS MachineSetAnnotations, FiniteSetTheorems, FunctionTheorems, SequenceTheorems, TLAPS

-----------------------------------------------------------------------------
(***************************************************************************)
(* Lists of labels.                                                        *)
(***************************************************************************)
List == Seq(Seq(STRING))

\* Entries of a list are pairs, of which no two have the same key.
LEMMA PairsAreUnique ==
  ASSUME NEW list \in List
  PROVE  /\ PairsOf(list) \subseteq ToSet(list)
         /\ \A p \in PairsOf(list) : Len(p) = 2
         /\ \A p, q \in PairsOf(list) : p[1] = q[1] => p = q
<1>1. Len(list) \in Nat /\ DOMAIN list = 1..Len(list)
  BY DEF List
<1>2. PairsOf(list) \subseteq ToSet(list) /\ \A p \in PairsOf(list) : Len(p) = 2
  BY DEF PairsOf, ToSet
<1>3. ASSUME NEW p \in PairsOf(list), NEW q \in PairsOf(list), p[1] = q[1]
      PROVE  p = q
  <2>1. PICK i \in DOMAIN list :
          /\ p = list[i] /\ Len(list[i]) = 2
          /\ \A j \in (i + 1)..Len(list) : Len(list[j]) = 2 => list[j][1] # list[i][1]
    BY DEF PairsOf
  <2>2. PICK k \in DOMAIN list :
          /\ q = list[k] /\ Len(list[k]) = 2
          /\ \A j \in (k + 1)..Len(list) : Len(list[j]) = 2 => list[j][1] # list[k][1]
    BY DEF PairsOf
  <2>3. ~(i < k)
    BY <1>1, <1>3, <2>1, <2>2
  <2>4. ~(k < i)
    BY <1>1, <1>3, <2>1, <2>2
  <2>5. QED
    BY <1>1, <2>1, <2>2, <2>3, <2>4
<1>4. QED
  BY <1>2, <1>3

LEMMA PairsFinite ==
  ASSUME NEW list \in List
  PROVE  IsFiniteSet(PairsOf(list))
<1>1. list \in [1..Len(list) -> Seq(STRING)] /\ Len(list) \in Nat
  BY DEF List
<1>2. list \in Surjection(1..Len(list), Range(list))
  BY <1>1, Fun_RangeProperties
<1>3. IsFiniteSet(1..Len(list))
  BY <1>1, FS_Interval
<1>4. IsFiniteSet(Range(list))
  BY <1>2, <1>3, FS_Surjection
<1>5. PairsOf(list) \in SUBSET Range(list)
  BY PairsAreUnique DEF ToSet, Range
<1>6. QED
  BY <1>4, <1>5, FS_Subset

\* A list that is made of unique pairs, in any order, has them as its pairs.
LEMMA OrderIsImmaterial ==
  ASSUME NEW S \in SUBSET Seq(STRING), IsFiniteSet(S), NEW l \in SetToSeqs(S),
         \A p \in S : Len(p) = 2, \A p, q \in S : p[1] = q[1] => p = q
  PROVE  l \in List /\ ToSet(l) = S /\ PairsOf(l) = S
<1> DEFINE n == Cardinality(S)
<1>1. n \in Nat
  BY FS_CardinalityType
<1> HIDE DEF n
<1>2. l \in [1..n -> S] /\ \A i, j \in 1..n : i # j => l[i] # l[j]
  BY DEF SetToSeqs, n
<1>3. l \in Injection(1..n, S)
  BY <1>2, Fun_IsInj
<1>4. Cardinality(1..n) = n
  BY <1>1, FS_Interval
<1>5. l \in Surjection(1..n, S)
  BY <1>3, <1>4, FS_Injection DEF n
<1>6. \A p \in S : \E i \in 1..n : l[i] = p
  BY <1>5 DEF Surjection
<1>7. l \in List /\ DOMAIN l = 1..n /\ Len(l) = n
  BY <1>1, <1>2 DEF List
<1>8. ToSet(l) = S
  BY <1>2, <1>6, <1>7 DEF ToSet
<1>9. \A i \in 1..n : \A j \in (i + 1)..n : l[j][1] # l[i][1]
  BY <1>1, <1>2
<1>10. PairsOf(l) = {l[i] : i \in 1..n}
  BY <1>2, <1>7, <1>9 DEF PairsOf
<1>11. QED
  BY <1>7, <1>8, <1>10 DEF ToSet

\* The pairs of the second list win.
LEMMA SecondListWins ==
  ASSUME NEW pair \in Seq(STRING), NEW list \in List
  PROVE  /\ <<pair>> \o list \in List
         /\ ToSet(<<pair>> \o list) \subseteq {pair} \cup ToSet(list)
         /\ PairsOf(list) \subseteq PairsOf(<<pair>> \o list)
<1> DEFINE both == <<pair>> \o list
           n    == Len(list)
<1>1. /\ both \in List /\ Len(both) = n + 1 /\ n \in Nat
      /\ DOMAIN list = 1..n /\ DOMAIN both = 1..(n + 1)
      /\ both[1] = pair /\ \A i \in 1..n : both[i + 1] = list[i]
  BY DEF List
<1> HIDE DEF both, n
<1>2. ASSUME NEW i \in 2..(n + 1)
      PROVE  i - 1 \in 1..n /\ both[i] = list[i - 1]
  <2>1. i - 1 \in 1..n /\ (i - 1) + 1 = i
    BY <1>1
  <2>2. both[(i - 1) + 1] = list[i - 1]
    BY <1>1, <2>1
  <2>3. QED
    BY <2>1, <2>2
<1>3. ToSet(both) \subseteq {pair} \cup ToSet(list)
  <2> SUFFICES ASSUME NEW i \in 1..(n + 1)
               PROVE  both[i] = pair \/ both[i] \in ToSet(list)
    BY <1>1 DEF ToSet
  <2>1. CASE i = 1
    BY <1>1, <2>1
  <2>2. CASE i # 1
    <3>1. i \in 2..(n + 1)
      BY <1>1, <2>2
    <3>2. QED
      BY <1>1, <1>2, <3>1 DEF ToSet
  <2>3. QED
    BY <2>1, <2>2
<1>4. PairsOf(list) \subseteq PairsOf(both)
  <2> SUFFICES ASSUME NEW i \in 1..n, Len(list[i]) = 2,
                      \A j \in (i + 1)..n : Len(list[j]) = 2 => list[j][1] # list[i][1]
               PROVE  list[i] \in PairsOf(both)
    BY <1>1 DEF PairsOf, n
  <2>1. i + 1 \in DOMAIN both /\ both[i + 1] = list[i]
    BY <1>1
  <2>2. \A j \in ((i + 1) + 1)..(n + 1) : Len(both[j]) = 2 => both[j][1] # both[i + 1][1]
    <3> SUFFICES ASSUME NEW j \in ((i + 1) + 1)..(n + 1), Len(both[j]) = 2
                 PROVE  both[j][1] # both[i + 1][1]
      OBVIOUS
    <3>1. j \in 2..(n + 1) /\ j - 1 \in (i + 1)..n
      BY <1>1
    <3>2. both[j] = list[j - 1]
      BY <1>2, <3>1
    <3>3. QED
      BY <2>1, <3>1, <3>2
  <2>3. QED
    BY <1>1, <2>1, <2>2 DEF PairsOf
<1>5. QED
  BY <1>1, <1>3, <1>4 DEF both

-----------------------------------------------------------------------------
(***************************************************************************)
(* The invariant.  A reconcile looks the size up for the copy it has read, *)
(* and what it is going to patch keeps the labels of that copy.            *)
(***************************************************************************)
Stored(ms) ==
  /\ ms \in [size : DOMAIN Sizes, cpu : Capacities("cpu"), memory : Nat \cup {Nil},
             gpu : Capacities("gpu"), labels : List, del : BOOLEAN]
  /\ ToSet(ms.labels) \subseteq Entries

AInv ==
  /\ TypeOK
  /\ Stored(api) /\ Stored(cache) /\ Stored(orig) /\ Stored(new)
  /\ pc = "lookup" => new = orig
  /\ pc = "patch" =>
       new.labels = orig.labels \/ PairsOf(orig.labels) \subseteq PairsOf(new.labels)

LEMMA StoredTyped ==
  ASSUME NEW ms, Stored(ms)
  PROVE  MachineSets(ms)
  BY DEF Stored, MachineSets

LEMMA UserLabels ==
  ASSUME NEW labels \in LabelLists
  PROVE  labels \in List /\ ToSet(labels) \subseteq Entries
  BY LabelsAssumption DEF List, Entries, UserEntries

\* What updateMachineSetAnnotations makes of a machine set.
LEMMA UpdatedStored ==
  ASSUME NEW ms, Stored(ms), Sizes[ms.size] # Nil,
         NEW copy \in updateMachineSetAnnotations(ms, Sizes[ms.size])
  PROVE  Stored(copy) /\ PairsOf(ms.labels) \subseteq PairsOf(copy.labels)
<1> DEFINE sku    == Sizes[ms.size]
           arch   == normalizedArchitecture(GetCapability(sku, "arch"))
           pair   == <<ArchKey, arch>>
           cpu    == IF GetCapability(sku, "cpu") = Nil THEN "" ELSE sku.cpu
           memory == memoryGiBtoMiB(GetCapability(sku, "memory"))
           gpu    == IF GetCapability(sku, "gpu") = Nil THEN "0" ELSE sku.gpu
<1>1. PICK l \in SetToSeqs(PairsOf(<<pair>> \o ms.labels)) :
        copy = [ms EXCEPT !.cpu = cpu, !.memory = memory, !.gpu = gpu, !.labels = l]
  BY DEF updateMachineSetAnnotations, MergeCommaSeparatedKeyValuePairs
<1>2. cpu \in Capacities("cpu") /\ gpu \in Capacities("gpu")
  BY DEF Capacities, Stored, GetCapability
<1>3. memory \in Nat \cup {Nil}
  <2>1. sku.memory \in Nat \cup {Nil}
    BY SizesAssumption DEF Stored
  <2>2. \A m \in Nat : (m * 1024 + 5) \div 10 \in Nat
    OBVIOUS
  <2>3. QED
    BY <2>1, <2>2 DEF memoryGiBtoMiB, GetCapability
<1>4. pair \in Entries /\ pair \in Seq(STRING)
  <2>1. arch \in {"amd64", "arm64"}
    BY DEF normalizedArchitecture
  <2>2. {ArchKey, "amd64", "arm64"} \subseteq STRING
    BY LiteralsAssumption DEF ArchKey
  <2>3. ASSUME NEW S, NEW x \in S, NEW y \in S
        PROVE  <<x, y>> \in Seq(S)
    OBVIOUS
  <2> HIDE DEF arch
  <2>4. QED
    BY <2>1, <2>2, <2>3 DEF Entries
<1> HIDE DEF pair, cpu, gpu, memory
<1> DEFINE S == PairsOf(<<pair>> \o ms.labels)
<1>5. ms.labels \in List /\ ToSet(ms.labels) \subseteq Entries
  BY DEF Stored
<1>6. /\ <<pair>> \o ms.labels \in List
      /\ ToSet(<<pair>> \o ms.labels) \subseteq Entries
      /\ PairsOf(ms.labels) \subseteq S
  BY <1>4, <1>5, SecondListWins
<1>7. /\ IsFiniteSet(S) /\ S \subseteq Entries
      /\ \A p \in S : Len(p) = 2
      /\ \A p, q \in S : p[1] = q[1] => p = q
  BY <1>6, PairsFinite, PairsAreUnique
<1>8. S \in SUBSET Seq(STRING)
  <2>1. \A list \in List : ToSet(list) \subseteq Seq(STRING)
    BY DEF List, ToSet
  <2>2. QED
    BY <1>6, <2>1, PairsAreUnique
<1> HIDE DEF S
<1>9. l \in List /\ ToSet(l) = S /\ PairsOf(l) = S
  BY <1>1, <1>7, <1>8, OrderIsImmaterial DEF S
<1>10. copy.labels = l /\ copy \in [size : DOMAIN Sizes, cpu : Capacities("cpu"),
         memory : Nat \cup {Nil}, gpu : Capacities("gpu"), labels : List, del : BOOLEAN]
  BY <1>1, <1>2, <1>3, <1>9 DEF Stored
<1>11. QED
  BY <1>6, <1>7, <1>9, <1>10 DEF Stored

\* What a merge patch makes of the stored machine set.
LEMMA PatchedStored ==
  ASSUME Stored(api), Stored(orig), Stored(new)
  PROVE  /\ Stored(Patched)
         /\ Patched.labels = IF new.labels # orig.labels THEN new.labels ELSE api.labels
<1>1. DOMAIN api = {"size", "cpu", "memory", "gpu", "labels", "del"}
  BY DEF Stored
<1> DEFINE field(new0, orig0, api0) == IF new0 # orig0 THEN new0 ELSE api0
<1>2. Patched = [size   |-> field(new.size, orig.size, api.size),
                 cpu    |-> field(new.cpu, orig.cpu, api.cpu),
                 memory |-> field(new.memory, orig.memory, api.memory),
                 gpu    |-> field(new.gpu, orig.gpu, api.gpu),
                 labels |-> field(new.labels, orig.labels, api.labels),
                 del    |-> field(new.del, orig.del, api.del)]
  BY <1>1 DEF Patched
<1>3. QED
  BY <1>2 DEF Stored

LEMMA AInvInit == Init => AInv
<1> SUFFICES ASSUME Init
             PROVE  AInv
  OBVIOUS
<1>1. PICK size \in DOMAIN Sizes, labels \in LabelLists :
        api = [size |-> size, cpu |-> Nil, memory |-> Nil, gpu |-> Nil,
               labels |-> labels, del |-> FALSE]
  BY DEF Init
<1>2. Stored(api)
  BY <1>1, UserLabels DEF Stored, Capacities
<1>3. Stored(cache) /\ Stored(orig) /\ Stored(new) /\ pc = "idle"
  BY <1>2 DEF Init
<1>4. TypeOK
  <2>1. MachineSets(api) /\ MachineSets(cache) /\ MachineSets(orig) /\ MachineSets(new)
    BY <1>2, <1>3, StoredTyped
  <2>2. seen = TRUE /\ queued = TRUE /\ retry = FALSE /\ edits = MaxEdits /\ faults = MaxFaults
    BY DEF Init
  <2>3. edits \in 0..MaxEdits /\ faults \in 0..MaxFaults
    BY <2>2, BoundsAssumption
  <2>4. QED
    BY <1>3, <2>1, <2>2, <2>3 DEF TypeOK
<1>5. QED
  BY <1>2, <1>3, <1>4 DEF AInv

\* What is left of the two bounds.
LEMMA Spent ==
  ASSUME TypeOK
  PROVE  /\ faults > 0 /\ faults' = faults - 1 => faults' \in 0..MaxFaults
         /\ edits > 0 /\ edits' = edits - 1 => edits' \in 0..MaxEdits
  BY BoundsAssumption DEF TypeOK

\* The types of the copies a step leaves.
LEMMA TypesKept ==
  ASSUME Stored(api)', Stored(cache)', Stored(orig)', Stored(new)',
         seen' \in BOOLEAN, queued' \in BOOLEAN, retry' \in BOOLEAN,
         pc' \in {"idle", "lookup", "patch"},
         edits' \in 0..MaxEdits, faults' \in 0..MaxFaults
  PROVE  TypeOK'
<1>1. MachineSets(api)' /\ MachineSets(cache)' /\ MachineSets(orig)' /\ MachineSets(new)'
  BY StoredTyped DEF Stored, MachineSets
<1>2. QED
  BY <1>1 DEF TypeOK

LEMMA AInvNext == AInv /\ [Next]_vars => AInv'
<1> SUFFICES ASSUME AInv, [Next]_vars
             PROVE  AInv'
  OBVIOUS
<1>1. /\ Stored(api) /\ Stored(cache) /\ Stored(orig) /\ Stored(new)
      /\ seen \in BOOLEAN /\ queued \in BOOLEAN /\ retry \in BOOLEAN
      /\ pc \in {"idle", "lookup", "patch"}
      /\ edits \in 0..MaxEdits /\ faults \in 0..MaxFaults
      /\ TypeOK
  BY DEF AInv, TypeOK
<1>2. CASE StartReconcile
  <2>1. Stored(api)' /\ Stored(cache)' /\ Stored(orig)' /\ Stored(new)'
    BY <1>1, <1>2 DEF StartReconcile, Stored
  <2>2. pc' \in {"idle", "lookup"} /\ new' = orig'
    BY <1>2 DEF StartReconcile
  <2>3. TypeOK'
    BY <1>1, <1>2, <2>1, <2>2, TypesKept DEF StartReconcile
  <2>4. QED
    BY <2>1, <2>2, <2>3 DEF AInv
<1>3. CASE getStockKeepUnit
  <2>1. Stored(new') /\ PairsOf(new.labels) \subseteq PairsOf(new'.labels)
    BY <1>1, <1>3, UpdatedStored DEF getStockKeepUnit
  <2>2. new = orig /\ pc' = "patch" /\ orig' = orig
    BY <1>3 DEF getStockKeepUnit, AInv
  <2>3. Stored(api)' /\ Stored(cache)' /\ Stored(orig)' /\ Stored(new)'
    BY <1>1, <1>3, <2>1 DEF getStockKeepUnit, Stored
  <2>4. TypeOK'
    BY <1>1, <1>3, <2>2, <2>3, TypesKept DEF getStockKeepUnit
  <2>5. QED
    BY <2>1, <2>2, <2>3, <2>4 DEF AInv
<1>4. CASE SizeUnknown \/ LookupFails
  <2>1. UNCHANGED <<api, cache, orig, new, seen, queued, edits>> /\ new = orig
        /\ pc' = "patch" /\ retry' \in BOOLEAN
    BY <1>1, <1>4 DEF SizeUnknown, LookupFails, AInv
  <2>2. faults' \in 0..MaxFaults
    BY <1>1, <1>4, Spent DEF SizeUnknown, LookupFails
  <2>3. Stored(api)' /\ Stored(cache)' /\ Stored(orig)' /\ Stored(new)'
    BY <1>1, <2>1 DEF Stored
  <2>4. TypeOK'
    BY <1>1, <2>1, <2>2, <2>3, TypesKept
  <2>5. QED
    BY <2>1, <2>3, <2>4 DEF AInv
<1>5. CASE Patch \/ PatchFails \/ Crash
  <2>1. api' = Patched \/ api' = api
    BY <1>5 DEF Patch, PatchFails, Crash
  <2>2. Stored(api')
    BY <1>1, <2>1, PatchedStored
  <2>3. cache' = cache \/ cache' = api'
    BY <1>5 DEF Patch, PatchFails, Crash
  <2>4. Stored(cache')
    BY <1>1, <2>2, <2>3
  <2>5. orig' = cache' /\ new' = cache' /\ pc' = "idle" /\ retry' = FALSE
    BY <1>5 DEF Patch, PatchFails, Crash, Return
  <2>6. Stored(api)' /\ Stored(cache)' /\ Stored(orig)' /\ Stored(new)'
    BY <2>2, <2>4, <2>5 DEF Stored
  <2>7. seen' \in BOOLEAN /\ queued' \in BOOLEAN /\ edits' \in 0..MaxEdits
    BY <1>1, <1>5 DEF Patch, PatchFails, Crash
  <2>8. faults' \in 0..MaxFaults
    BY <1>1, <1>5, Spent DEF Patch, PatchFails, Crash
  <2>9. TypeOK'
    BY <2>5, <2>6, <2>7, <2>8, TypesKept
  <2>10. QED
    BY <2>5, <2>6, <2>9 DEF AInv
<1>6. CASE CacheSync
  <2>1. UNCHANGED <<api, pc, retry, edits, faults>> /\ cache' = api
        /\ seen' \in BOOLEAN /\ queued' \in BOOLEAN
    BY <1>6 DEF CacheSync
  <2>2. (orig' = api /\ new' = api /\ pc = "idle") \/ UNCHANGED <<orig, new>>
    BY <1>6 DEF CacheSync
  <2>3. Stored(api)' /\ Stored(cache)' /\ Stored(orig)' /\ Stored(new)'
    BY <1>1, <2>1, <2>2 DEF Stored
  <2>4. TypeOK'
    BY <1>1, <2>1, <2>3, TypesKept
  <2>5. QED
    BY <2>1, <2>2, <2>3, <2>4 DEF AInv
<1>7. CASE UserEdits
  <2>1. UNCHANGED <<cache, queued, pc, orig, new, retry, faults>> /\ seen' \in BOOLEAN
    BY <1>7 DEF UserEdits
  <2>2. edits' \in 0..MaxEdits
    BY <1>1, <1>7, Spent DEF UserEdits
  <2>3. Stored(api')
    <3>1. CASE \E size \in DOMAIN Sizes : api' = [api EXCEPT !.size = size]
      BY <1>1, <3>1 DEF Stored
    <3>2. CASE \E labels \in LabelLists : api' = [api EXCEPT !.labels = labels]
      BY <1>1, <3>2, UserLabels DEF Stored
    <3>3. CASE api' = [api EXCEPT !.del = TRUE]
      BY <1>1, <3>3 DEF Stored
    <3>4. QED
      BY <1>7, <3>1, <3>2, <3>3 DEF UserEdits
  <2>4. Stored(api)' /\ Stored(cache)' /\ Stored(orig)' /\ Stored(new)'
    BY <1>1, <2>1, <2>3 DEF Stored
  <2>5. TypeOK'
    BY <1>1, <2>1, <2>2, <2>4, TypesKept
  <2>6. QED
    BY <2>1, <2>4, <2>5 DEF AInv
<1>8. CASE UNCHANGED vars
  BY <1>8 DEF vars, AInv, TypeOK, Stored, MachineSets
<1>9. QED
  BY <1>2, <1>3, <1>4, <1>5, <1>6, <1>7, <1>8 DEF Next, Controller

LEMMA AInvHolds == Spec => []AInv
  BY AInvInit, AInvNext, PTL DEF Spec

(***************************************************************************)
(* What updateMachineSetAnnotations and its merge patches leave in a       *)
(* machine set: capacities of some size, a natural number for the memory,  *)
(* and labels that a user or the controller put there.                     *)
(***************************************************************************)
THEOREM AnnotationsTypeCorrect == Spec => []TypeOK
<1>1. AInv => TypeOK
  BY DEF AInv
<1>2. QED
  BY <1>1, AInvHolds, PTL

(***************************************************************************)
(* MergeCommaSeparatedKeyValuePairs keeps every label of the annotation it *)
(* reads, of any length and in whatever order it writes it back, and so    *)
(* does the patch, unless the annotation was changed in between.           *)
(***************************************************************************)
THEOREM LabelsPreservedHolds == Spec => LabelsPreserved
<1> DEFINE Kept == pc = "patch" /\ pc' = "idle" =>
                     \/ PairsOf(api.labels) \subseteq PairsOf(api'.labels)
                     \/ api.labels # orig.labels
<1>1. AInv /\ [Next]_vars => [Kept]_vars
  <2> SUFFICES ASSUME AInv, Next, pc = "patch", pc' = "idle", api.labels = orig.labels
               PROVE  PairsOf(api.labels) \subseteq PairsOf(api'.labels)
    OBVIOUS
  <2>1. api' = Patched \/ api' = api
    BY DEF Next, Controller, StartReconcile, getStockKeepUnit, SizeUnknown, Patch, LookupFails,
           PatchFails, CacheSync, Crash, UserEdits
  <2>2. CASE api' = api
    BY <2>2
  <2>3. CASE api' = Patched
    <3>1. api'.labels = IF new.labels # orig.labels THEN new.labels ELSE api.labels
      BY <2>3, PatchedStored DEF AInv
    <3>2. QED
      BY <3>1 DEF AInv
  <2>4. QED
    BY <2>1, <2>2, <2>3
<1>2. QED
  BY <1>1, AInvHolds, PTL DEF Spec, LabelsPreserved

=============================================================================
