--------------------------- MODULE SkuCacheProofs ---------------------------
(***************************************************************************)
(* Proof that no offered size is reported as missing, for every number of  *)
(* workers, failed listings and rotations of the secret.                   *)
(***************************************************************************)
EXTENDS SkuCache, TLAPS

-----------------------------------------------------------------------------
\* What the workers rely on, without the types.
Sound ==
  /\ \A c \in Caches : data[c] # "partial"
  /\ \A u \in Users :
       /\ pc[u] \in {"touch", "check", "list", "store", "scan"} => obj[u] \in Caches
       /\ pc[u] = "scan" => data[obj[u]] = "full"
  /\ NoFalseAbsence

LEMMA SplitInvariant == SkuIInv <=> TypeOK /\ Sound
BY DEF SkuIInv, Sound

\* The steps that only move a worker on, within the types.
LEMMA GotoTypes ==
  ASSUME TypeOK, NEW u \in Users, NEW label \in Labels, NEW c \in Caches \cup {None},
         Goto(u, label, c)
  PROVE  /\ pc' \in [Users -> Labels] /\ obj' \in [Users -> Caches \cup {None}]
         /\ cred' \in [Users -> 0..Rotations]
         /\ answer' \in [Users -> {"none", "error", "found", "notFound"}]
BY DEF TypeOK, Goto

LEMMA AnswerTypes ==
  ASSUME TypeOK, NEW u \in Users, NEW a \in {"error", "found", "notFound"}, Answer(u, a)
  PROVE  /\ pc' \in [Users -> Labels] /\ obj' \in [Users -> Caches \cup {None}]
         /\ cred' \in [Users -> 0..Rotations]
         /\ answer' \in [Users -> {"none", "error", "found", "notFound"}]
BY DEF TypeOK, Answer, Labels

-----------------------------------------------------------------------------
LEMMA TypeStep == ASSUME SkuIInv, [Next]_skuVars PROVE TypeOK'
<1> USE SkuAssumption
<1>a. TypeOK /\ Sound
  BY SplitInvariant
<1>b. CASE UNCHANGED skuVars
  BY <1>a, <1>b DEF TypeOK, skuVars
<1>c. CASE Tick
  BY <1>a, <1>c DEF Tick, TypeOK, userVars, cacheVars
<1>d. CASE Rotate
  BY <1>a, <1>d DEF Rotate, TypeOK, userVars, cacheVars
<1>e. ASSUME NEW u \in Users, Lookup(u) \/ ListFails(u) PROVE TypeOK'
  <2> USE <1>a DEF cacheVars
  <2>1. CASE NewScope(u)
    BY <2>1 DEF NewScope, TypeOK, Labels
  <2>2. CASE CacheHit(u)
    <3>1. Goto(u, "touch", entry) /\ "touch" \in Labels /\ entry \in Caches \cup {None}
      BY <2>2 DEF CacheHit, TypeOK, Labels
    <3>2. QED
      BY <2>2, <3>1, GotoTypes DEF CacheHit, TypeOK
  <2>3. CASE CacheMiss(u)
    <3>1. Goto(u, "add", None) /\ "add" \in Labels
      BY <2>3 DEF CacheMiss, Labels
    <3>2. QED
      BY <2>3, <3>1, GotoTypes DEF CacheMiss, TypeOK
  <2>4. CASE Touch(u)
    <3>1. Goto(u, "check", obj[u]) /\ "check" \in Labels /\ obj[u] \in Caches \cup {None}
      BY <2>4 DEF Touch, Labels, TypeOK
    <3>2. QED
      BY <2>4, <3>1, GotoTypes DEF Touch, TypeOK
  <2>5. CASE AddCache(u)
    <3>1. PICK c \in Unreachable :
            /\ client' = [client EXCEPT ![c] = cred[u]]
            /\ data' = [data EXCEPT ![c] = "nil"]
            /\ entry' = c /\ age' = 0
            /\ Goto(u, "check", c)
      BY <2>5 DEF AddCache
    <3>2. c \in Caches /\ "check" \in Labels
      BY DEF Unreachable, Labels
    <3>3. QED
      BY <2>5, <3>1, <3>2, GotoTypes DEF AddCache, TypeOK, Contents
  <2>6. CASE CheckData(u)
    <3>1. PICK label \in {"list", "scan"} : Goto(u, label, obj[u])
      BY <2>6 DEF CheckData
    <3>2. label \in Labels /\ obj[u] \in Caches \cup {None}
      BY DEF Labels, TypeOK
    <3>3. QED
      BY <2>6, <3>1, <3>2, GotoTypes DEF CheckData, TypeOK
  <2>7. CASE List(u)
    <3>1. Goto(u, "store", obj[u]) /\ "store" \in Labels /\ obj[u] \in Caches \cup {None}
      BY <2>7 DEF List, Labels, TypeOK
    <3>2. QED
      BY <2>7, <3>1, GotoTypes DEF List, TypeOK
  <2>8. CASE ListUnauthorized(u)
    BY <2>8, AnswerTypes DEF ListUnauthorized, TypeOK
  <2>9. CASE StoreData(u)
    <3>1. Goto(u, "scan", obj[u]) /\ "scan" \in Labels /\ obj[u] \in Caches \cup {None}
      BY <2>9 DEF StoreData, Labels, TypeOK
    <3>2. QED
      BY <2>9, <3>1, GotoTypes DEF StoreData, TypeOK, Contents
  <2>10. CASE ScanData(u)
    <3>1. PICK a \in {"found", "notFound"} : Answer(u, a)
      BY <2>10 DEF ScanData
    <3>2. QED
      BY <2>10, <3>1, AnswerTypes DEF ScanData, TypeOK
  <2>11. CASE ListFails(u)
    BY <2>11, AnswerTypes DEF ListFails, TypeOK
  <2>12. QED
    BY <1>e, <2>1, <2>2, <2>3, <2>4, <2>5, <2>6, <2>7, <2>8, <2>9, <2>10, <2>11 DEF Lookup
<1>f. QED
  BY <1>b, <1>c, <1>d, <1>e DEF Next

-----------------------------------------------------------------------------
LEMMA SoundStep == ASSUME SkuIInv, [Next]_skuVars PROVE Sound'
<1> USE SkuAssumption
<1>a. TypeOK /\ Sound
  BY SplitInvariant
<1>b. CASE UNCHANGED skuVars
  BY <1>a, <1>b DEF Sound, NoFalseAbsence, skuVars
<1>c. CASE Tick \/ Rotate
  BY <1>a, <1>c DEF Tick, Rotate, Sound, NoFalseAbsence, userVars, cacheVars
<1>e. ASSUME NEW u \in Users, Lookup(u) \/ ListFails(u) PROVE Sound'
  <2> USE <1>a DEF TypeOK, Sound, NoFalseAbsence, Goto, Answer, cacheVars
  <2>1. CASE NewScope(u)
    BY <2>1 DEF NewScope
  <2>2. CASE CacheHit(u)
    BY <2>2 DEF CacheHit
  <2>3. CASE CacheMiss(u)
    BY <2>3 DEF CacheMiss
  <2>4. CASE Touch(u)
    BY <2>4 DEF Touch
  <2>5. CASE AddCache(u)
    <3>1. PICK c \in Unreachable :
            /\ data' = [data EXCEPT ![c] = "nil"]
            /\ Goto(u, "check", c)
      BY <2>5 DEF AddCache
    <3>2. c \in Caches /\ \A v \in Users : obj[v] # c
      BY DEF Unreachable
    <3>3. QED
      BY <3>1, <3>2
  <2>6. CASE CheckData(u)
    <3>1. obj[u] \in Caches /\ data[obj[u]] # "partial"
      BY <2>6 DEF CheckData
    <3>2. data[obj[u]] # "nil" => data[obj[u]] = "full"
      BY <3>1 DEF Contents
    <3>3. QED
      BY <2>6, <3>1, <3>2 DEF CheckData
  <2>7. CASE List(u)
    BY <2>7 DEF List
  <2>8. CASE ListUnauthorized(u)
    BY <2>8 DEF ListUnauthorized
  <2>9. CASE StoreData(u)
    <3>1. obj[u] \in Caches
      BY <2>9 DEF StoreData
    <3>2. QED
      BY <2>9, <3>1 DEF StoreData
  <2>10. CASE ScanData(u)
    BY <2>10 DEF ScanData
  <2>11. CASE ListFails(u)
    BY <2>11 DEF ListFails
  <2>12. QED
    BY <1>e, <2>1, <2>2, <2>3, <2>4, <2>5, <2>6, <2>7, <2>8, <2>9, <2>10, <2>11 DEF Lookup
<1>f. QED
  BY <1>b, <1>c, <1>e DEF Next

(***************************************************************************)
(* The invariant of the shared Cache holds for any number of workers.      *)
(***************************************************************************)
THEOREM SkuInvariantHolds == Spec => []SkuIInv
<1>1. Init => SkuIInv
  BY SkuAssumption DEF Init, SkuIInv, TypeOK, NoFalseAbsence, Labels, Contents
<1>2. SkuIInv /\ [Next]_skuVars => SkuIInv'
  <2>1. ASSUME SkuIInv, [Next]_skuVars PROVE TypeOK' /\ Sound'
    BY <2>1, TypeStep, SoundStep
  <2>2. QED
    BY <2>1 DEF SkuIInv, Sound
<1>3. QED
  BY <1>1, <1>2, PTL DEF Spec

(***************************************************************************)
(* No size that Azure offers is reported as missing: whatever the workers  *)
(* interleave and whichever listings fail, Cache.Get searches only lists   *)
(* that were read to the end.                                              *)
(***************************************************************************)
THEOREM NoFalseAbsenceHolds == Spec => []NoFalseAbsence
<1>1. SkuIInv => NoFalseAbsence
  BY DEF SkuIInv
<1>2. QED
  BY <1>1, SkuInvariantHolds, PTL
=============================================================================
