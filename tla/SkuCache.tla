------------------------------ MODULE SkuCache ------------------------------
(***************************************************************************)
(* The cache of Azure resource SKUs.  The process keeps one Cache for each *)
(* location and subscription in an LRU cache with a time to live; the      *)
(* workers of the machine controller and of the machine set controller     *)
(* share it.  A Cache keeps the client it was built with, and the list it  *)
(* got from Azure once a listing succeeded.                                *)
(*                                                                         *)
(* The model follows one location and subscription.  A lookup asks for a   *)
(* VM size that Azure offers.                                              *)
(***************************************************************************)
EXTENDS Naturals, FiniteSets

CONSTANTS
  Users,        \* the workers that look SKUs up
  Caches,       \* the Cache objects in memory; unreachable ones are reused
  None,         \* no Cache
  TTL,          \* the time to live, in ticks of the clock
  Rotations,    \* how often the client secret is replaced
  MaxFaults     \* how many listings fail

ASSUME SkuAssumption ==
  /\ IsFiniteSet(Caches) /\ IsFiniteSet(Users) /\ Cardinality(Caches) > Cardinality(Users)
  /\ None \notin Caches
  /\ TTL \in Nat /\ Rotations \in Nat /\ MaxFaults \in Nat

VARIABLES
  entry,        \* the Cache under the key, or None
  age,          \* ticks since the LastTouch of that entry
  client,       \* the version of the secret in each Cache's client
  data,         \* what each Cache has: "nil", or the list of SKUs
  pc, cred, obj, answer,  \* of each user: next step, secret of its scope, Cache, last answer
  secret,       \* the version of the client secret that Azure accepts
  faults        \* what is left of MaxFaults

userVars  == <<pc, cred, obj, answer>>
cacheVars == <<client, data>>
skuVars   == <<entry, age, client, data, pc, cred, obj, answer, secret, faults>>

Labels   == {"idle", "get", "touch", "add", "check", "list", "store", "scan"}
Contents == {"nil", "partial", "full"}

Init ==
  /\ entry = None /\ age = 0
  /\ client = [c \in Caches |-> 0] /\ data = [c \in Caches |-> "nil"]
  /\ pc = [u \in Users |-> "idle"] /\ cred = [u \in Users |-> 0]
  /\ obj = [u \in Users |-> None] /\ answer = [u \in Users |-> "none"]
  /\ secret = 0 /\ faults = MaxFaults

\* User u goes on at label with Cache c.
Goto(u, label, c) ==
  /\ pc' = [pc EXCEPT ![u] = label]
  /\ obj' = [obj EXCEPT ![u] = c]
  /\ UNCHANGED <<cred, answer>>

Answer(u, a) ==
  /\ pc' = [pc EXCEPT ![u] = "idle"]
  /\ obj' = [obj EXCEPT ![u] = None]
  /\ answer' = [answer EXCEPT ![u] = a]
  /\ UNCHANGED cred

-----------------------------------------------------------------------------
\* A reconcile makes its scope, with an authorizer of the current secret.
NewScope(u) ==
  /\ pc[u] = "idle"
  /\ pc' = [pc EXCEPT ![u] = "get"] /\ cred' = [cred EXCEPT ![u] = secret]
  /\ UNCHANGED <<entry, age, cacheVars, obj, answer, secret, faults>>

\* peekItem, under the mutex: an entry past its time is removed.
CacheHit(u) ==
  /\ pc[u] = "get" /\ entry # None /\ age <= TTL
  /\ Goto(u, "touch", entry)
  /\ UNCHANGED <<entry, age, cacheVars, secret, faults>>

CacheMiss(u) ==
  /\ pc[u] = "get" /\ (entry = None \/ age > TTL)
  /\ entry' = None
  /\ Goto(u, "add", None)
  /\ UNCHANGED <<age, cacheVars, secret, faults>>

\* Cache.Get sets LastTouch after the mutex is released.
Touch(u) ==
  /\ pc[u] = "touch"
  /\ age' = IF entry = obj[u] THEN 0 ELSE age
  /\ Goto(u, "check", obj[u])
  /\ UNCHANGED <<entry, cacheVars, secret, faults>>

Unreachable == Caches \ ({entry} \cup {obj[u] : u \in Users})

\* The last Add wins; whoever added before keeps its own Cache for one lookup.
AddCache(u) ==
  /\ pc[u] = "add"
  /\ \E c \in Unreachable :
       /\ client' = [client EXCEPT ![c] = cred[u]]
       /\ data' = [data EXCEPT ![c] = "nil"]
       /\ entry' = c /\ age' = 0
       /\ Goto(u, "check", c)
  /\ UNCHANGED <<secret, faults>>

CheckData(u) ==
  /\ pc[u] = "check"
  /\ Goto(u, IF data[obj[u]] = "nil" THEN "list" ELSE "scan", obj[u])
  /\ UNCHANGED <<entry, age, cacheVars, secret, faults>>

List(u) ==
  /\ pc[u] = "list" /\ client[obj[u]] = secret
  /\ Goto(u, "store", obj[u])
  /\ UNCHANGED <<entry, age, cacheVars, secret, faults>>

ListUnauthorized(u) ==
  /\ pc[u] = "list" /\ client[obj[u]] # secret
  /\ Answer(u, "error")
  /\ UNCHANGED <<entry, age, cacheVars, secret, faults>>

\* Mutant: the pages read before the failure are kept.
ListFailsKeepsPages(u) ==
  /\ pc[u] = "list" /\ faults > 0 /\ faults' = faults - 1
  /\ data' = [data EXCEPT ![obj[u]] = "partial"]
  /\ Answer(u, "error")
  /\ UNCHANGED <<entry, age, client, secret>>

\* Mutant: a failed listing makes the client of the Cache unusable.
ListFailsClosesClient(u) ==
  /\ pc[u] = "list" /\ faults > 0 /\ faults' = faults - 1
  /\ client' = [client EXCEPT ![obj[u]] = secret + 1]
  /\ Answer(u, "error")
  /\ UNCHANGED <<entry, age, data, secret>>

\* The request, or one of its later pages, fails: refresh drops what it got.
ListFails(u) ==
  /\ pc[u] = "list" /\ faults > 0 /\ faults' = faults - 1
  /\ Answer(u, "error")
  /\ UNCHANGED <<entry, age, cacheVars, secret>>

StoreData(u) ==
  /\ pc[u] = "store"
  /\ data' = [data EXCEPT ![obj[u]] = "full"]
  /\ Goto(u, "scan", obj[u])
  /\ UNCHANGED <<entry, age, client, secret, faults>>

\* The search for the size; notFound is an invalid configuration to the callers.
ScanData(u) ==
  /\ pc[u] = "scan"
  /\ Answer(u, IF data[obj[u]] = "full" THEN "found" ELSE "notFound")
  /\ UNCHANGED <<entry, age, cacheVars, secret, faults>>

-----------------------------------------------------------------------------
\* The age is told apart only up to the time to live.
Tick ==
  /\ age <= TTL /\ age' = age + 1
  /\ UNCHANGED <<entry, cacheVars, userVars, secret, faults>>

\* The secret is replaced and the old one is no longer accepted.
Rotate ==
  /\ secret < Rotations
  /\ secret' = secret + 1
  /\ UNCHANGED <<entry, age, cacheVars, userVars, faults>>

Lookup(u) ==
  \/ NewScope(u) \/ CacheHit(u) \/ CacheMiss(u) \/ Touch(u) \/ AddCache(u)
  \/ CheckData(u) \/ List(u) \/ ListUnauthorized(u) \/ StoreData(u) \/ ScanData(u)

Next == (\E u \in Users : Lookup(u) \/ ListFails(u)) \/ Tick \/ Rotate

Spec == Init /\ [][Next]_skuVars

(***************************************************************************)
(* Every reconcile goes on, and another one follows it: errors are         *)
(* requeued, and every object is reconciled each sync period.              *)
(***************************************************************************)
FairSpec == Spec /\ \A u \in Users : WF_skuVars(Lookup(u))

-----------------------------------------------------------------------------
\* Type correctness.
TypeOK ==
  /\ entry \in Caches \cup {None} /\ age \in 0..(TTL + 1)
  /\ client \in [Caches -> 0..Rotations] /\ data \in [Caches -> Contents]
  /\ pc \in [Users -> Labels] /\ cred \in [Users -> 0..Rotations]
  /\ obj \in [Users -> Caches \cup {None}]
  /\ answer \in [Users -> {"none", "error", "found", "notFound"}]
  /\ secret \in 0..Rotations /\ faults \in 0..MaxFaults

(***************************************************************************)
(* No size that Azure offers is ever reported as missing, which would make *)
(* its machine Failed: a listing that fails half way, for whichever        *)
(* worker, leaves no incomplete list behind in the shared Cache.           *)
(***************************************************************************)
NoFalseAbsence == \A u \in Users : answer[u] # "notFound"

(***************************************************************************)
(* Lookups recover: every worker obtains the SKU again and again, however  *)
(* many listings failed before and whenever the entry expired, unless the  *)
(* secret is replaced.                                                     *)
(***************************************************************************)
RecoversUnlessRotated == <>(secret # 0) \/ \A u \in Users : []<>(answer[u] = "found")

(***************************************************************************)
(* The comment in actuator.Create on a secret that is replaced between the *)
(* creation of a scope and its use: we should retry as the credentials     *)
(* should be updated in the secret.                                        *)
(***************************************************************************)
RetryRecovers == \A u \in Users : []<>(answer[u] = "found")

(***************************************************************************)
(* The inductive invariant behind NoFalseAbsence: no Cache has an          *)
(* incomplete list, a Cache in use is not given away, and a search starts  *)
(* only in a Cache that has its list and cannot lose it any more.          *)
(***************************************************************************)
SkuIInv ==
  /\ TypeOK
  /\ \A c \in Caches : data[c] # "partial"
  /\ \A u \in Users :
       /\ pc[u] \in {"touch", "check", "list", "store", "scan"} => obj[u] \in Caches
       /\ pc[u] = "scan" => data[obj[u]] = "full"
  /\ NoFalseAbsence

(***************************************************************************)
(* The comment of Cache.data: synchronization is required if data is       *)
(* cached across reconciles.  No worker may be about to write the data of  *)
(* a Cache that another one is about to read or write.                     *)
(***************************************************************************)
DataSynchronized ==
  \A u, v \in Users :
    u # v /\ pc[u] = "store" /\ pc[v] \in {"check", "store", "scan"} => obj[u] # obj[v]
=============================================================================
