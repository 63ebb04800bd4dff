---------------------------- MODULE ResourceOwner ----------------------------
(***************************************************************************)
(* What the finalizer protocol promises, without saying how: an object     *)
(* owns external resources.  It acquires them only under the protection of *)
(* its finalizer, it may give some of them up at any time, and once its    *)
(* deletion is requested it goes away only when it holds none.             *)
(***************************************************************************)
CONSTANT Resources

VARIABLES
  object,   \* "bare" (no finalizer), "guarded", "deleting", "gone"
  held      \* the resources that exist for the object

ownerVars == <<object, held>>

Init == object = "bare" /\ held = {}

Guard == object = "bare" /\ object' = "guarded" /\ UNCHANGED held

\* A creation in progress may still complete after the deletion was requested.
Acquire(R) ==
  /\ object \in {"guarded", "deleting"}
  /\ held' = held \cup R
  /\ UNCHANGED object

Release(R) == held' = held \ R /\ UNCHANGED object

RequestDelete ==
  /\ \/ object = "bare" /\ object' = "gone"
     \/ object = "guarded" /\ object' = "deleting"
  /\ UNCHANGED held

Finish == object = "deleting" /\ held = {} /\ object' = "gone" /\ UNCHANGED held

Next ==
  \/ Guard \/ RequestDelete \/ Finish
  \/ \E R \in SUBSET Resources : Acquire(R) \/ Release(R)

Spec == Init /\ [][Next]_ownerVars
=============================================================================
