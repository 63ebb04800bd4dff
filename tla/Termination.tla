----------------------------- MODULE Termination -----------------------------
(***************************************************************************)
(* The termination handler of one spot node.  It polls the metadata        *)
(* endpoint of its instance; when Azure announces the preemption it gives  *)
(* the Node the condition Terminating, on which a machine health check     *)
(* deletes the machine.  The handler retries nothing by itself: on every   *)
(* error, and after its success, the process ends and its pod is started   *)
(* again.  Other writers, such as the kubelet, change the Node meanwhile.  *)
(***************************************************************************)
EXTENDS Naturals, Sequences

CONSTANTS
  InitialConditions,  \* the conditions the Node may have at first
  MaxFaults           \* how many failed calls and kills of the process

(***************************************************************************)
(* A condition of the Node.  since tells transition times of neighbouring  *)
(* runs of the handler apart, and nothing else.                            *)
(***************************************************************************)
Condition == [type : {"Ready", "Terminating"}, status : {"True", "False"}, since : {0, 1}]

\* The list of conditions is keyed by their type (listMapKey).
OnePerType(cs) == \A i, j \in DOMAIN cs : cs[i].type = cs[j].type => i = j

ASSUME TerminationAssumption ==
  /\ InitialConditions \subseteq Seq(Condition)
  /\ \A cs \in InitialConditions : OnePerType(cs)
  /\ MaxFaults \in Nat

VARIABLES
  notice,       \* the endpoint reports a Preempt event
  conditions,   \* status.conditions of the Node
  current,      \* the handler's copy has the latest resourceVersion
  copy,         \* the handler's copy of the conditions
  pc,           \* the next call of the handler; "down" while it is not running
  now,          \* the time, as far as since tells it apart
  faults        \* what is left of MaxFaults

terminationVars == <<notice, conditions, current, copy, pc, now, faults>>

Init ==
  /\ notice = FALSE /\ conditions \in InitialConditions
  /\ current = FALSE /\ copy = <<>> /\ pc = "down" /\ now = 0 /\ faults = MaxFaults

Fault == faults > 0 /\ faults' = faults - 1

nodeHasTerminationCondition(cs) == \E i \in DOMAIN cs : cs[i].type = "Terminating"

\* Mutant: the condition is set anew each time.
AddConditionAnew(cs) ==
  LET new == [type |-> "Terminating", status |-> "True", since |-> now] IN
  IF ~nodeHasTerminationCondition(cs) THEN Append(cs, new)
  ELSE [i \in DOMAIN cs |-> IF cs[i].type = "Terminating" THEN new ELSE cs[i]]

\* Mutant: a condition that is there is left as it is.
AddConditionUnlessPresent(cs) ==
  IF nodeHasTerminationCondition(cs) THEN cs
  ELSE Append(cs, [type |-> "Terminating", status |-> "True", since |-> now])

\* Mutant: the condition is added without looking for the one of an earlier run.
AddConditionBlindly(cs) ==
  Append(cs, [type |-> "Terminating", status |-> "True", since |-> now])

addNodeTerminationCondition(cs) ==
  LET new == [type |-> "Terminating", status |-> "True", since |-> now] IN
  IF ~nodeHasTerminationCondition(cs) THEN Append(cs, new)
  ELSE [i \in DOMAIN cs |->
          IF cs[i].type = "Terminating" /\ cs[i].status # "True" THEN new ELSE cs[i]]

-----------------------------------------------------------------------------
\* The kubelet of the pod starts the handler, which begins to poll.
StartHandler ==
  /\ pc = "down"
  /\ pc' = "poll" /\ now' = 1 - now
  /\ UNCHANGED <<notice, conditions, current, copy, faults>>

Poll ==
  /\ pc = "poll" /\ notice
  /\ pc' = "getNode"
  /\ UNCHANGED <<notice, conditions, current, copy, now, faults>>

\* The process ends; its copy of the Node is gone.
Down == pc' = "down" /\ current' = FALSE /\ copy' = <<>>

GetNode ==
  /\ pc = "getNode"
  /\ pc' = "updateNode" /\ copy' = conditions /\ current' = TRUE
  /\ UNCHANGED <<notice, conditions, now, faults>>

\* Mutant: the update does not carry the resourceVersion of the copy.
UpdateNodeForced ==
  /\ pc = "updateNode"
  /\ conditions' = addNodeTerminationCondition(copy)
  /\ Down
  /\ UNCHANGED <<notice, now, faults>>

UpdateNode ==
  /\ pc = "updateNode" /\ current
  /\ conditions' = addNodeTerminationCondition(copy)
  /\ Down
  /\ UNCHANGED <<notice, now, faults>>

UpdateConflict ==
  /\ pc = "updateNode" /\ ~current
  /\ Down
  /\ UNCHANGED <<notice, conditions, now, faults>>

\* A call fails, or the process is stopped or killed.
HandlerFails ==
  /\ pc # "down" /\ Fault
  /\ Down
  /\ UNCHANGED <<notice, conditions, now>>

\* The update is carried out but its answer is lost.
UpdateAnswerLost ==
  /\ pc = "updateNode" /\ current /\ Fault
  /\ conditions' = addNodeTerminationCondition(copy)
  /\ Down
  /\ UNCHANGED <<notice, now>>

-----------------------------------------------------------------------------
Preempt ==
  /\ ~notice /\ notice' = TRUE
  /\ UNCHANGED <<conditions, current, copy, pc, now, faults>>

\* Another writer changes the status of the conditions of its own.
OtherWriter ==
  /\ \E i \in DOMAIN conditions : conditions[i].type = "Ready"
  /\ conditions' = [i \in DOMAIN conditions |->
       IF conditions[i].type # "Ready" THEN conditions[i]
       ELSE [conditions[i] EXCEPT !.status = IF @ = "True" THEN "False" ELSE "True"]]
  /\ current' = FALSE
  /\ UNCHANGED <<notice, copy, pc, now, faults>>

Handler == StartHandler \/ Poll \/ GetNode \/ UpdateNode \/ UpdateConflict

Next == Handler \/ HandlerFails \/ UpdateAnswerLost \/ Preempt \/ OtherWriter

Spec == Init /\ [][Next]_terminationVars

(***************************************************************************)
(* A pod is restarted, and the endpoint and the API server answer.  The    *)
(* other writers write every few seconds, which is rare enough that they   *)
(* do not get between every GetNode and its UpdateNode: hence SF.          *)
(***************************************************************************)
FairSpec == Spec /\ WF_terminationVars(Handler) /\ SF_terminationVars(UpdateNode)

-----------------------------------------------------------------------------
\* Type correctness: the variables keep the values the code can give them.
TypeOK ==
  /\ notice \in BOOLEAN /\ current \in BOOLEAN /\ now \in {0, 1} /\ faults \in Nat
  /\ conditions \in Seq(Condition) /\ copy \in Seq(Condition)
  /\ pc \in {"down", "poll", "getNode", "updateNode"}

\* The conditions of other writers, and the marks of the handler, in their places.
Others(cs) == {<<i, cs[i]>> : i \in {j \in DOMAIN cs : cs[j].type # "Terminating"}}
IsMark(c)  == c.type = "Terminating" /\ c.status = "True"
Marks(cs)  == {<<i, cs[i]>> : i \in {j \in DOMAIN cs : IsMark(cs[j])}}

(***************************************************************************)
(* The Node never has two Terminating conditions, however often the        *)
(* handler is killed between its update and its knowledge of it, and       *)
(* restarted on a Node that is marked or was marked once.                  *)
(***************************************************************************)
KeyedByType == OnePerType(conditions)

(***************************************************************************)
(* The handler never undoes what another writer did between its reading    *)
(* and its writing of the Node: its update changes no condition but        *)
(* Terminating, and moves none.                                            *)
(***************************************************************************)
OnlyTerminatingChanges ==
  [][pc = "updateNode" /\ pc' = "down" => Others(conditions') = Others(conditions)]_terminationVars

(***************************************************************************)
(* A Node that is marked stays marked with its first transition time,      *)
(* however often the handler is restarted under the same notice.           *)
(***************************************************************************)
MarkedOnce ==
  [][Marks(conditions) # {} => Marks(conditions') = Marks(conditions)]_terminationVars

(***************************************************************************)
(* Every notice reaches the Node: failed polls, conflicts with the other   *)
(* writers, lost answers and kills only delay it.                          *)
(***************************************************************************)
NoticeReachesNode == notice ~> Marks(conditions) # {}

(***************************************************************************)
(* The inductive invariant behind the first three: a copy that is current  *)
(* equals the Node.                                                        *)
(***************************************************************************)
TIInv == TypeOK /\ KeyedByType /\ (current => copy = conditions)
=============================================================================
