-------------------------- MODULE TerminationProofs --------------------------
(***************************************************************************)
(* Proofs that the termination handler marks a Node once, adds no second   *)
(* condition and undoes no other writer's work, for every list of          *)
(* conditions and every number of faults.                                  *)
(***************************************************************************)
EXTENDS Termination, SequenceTheorems, TLAPS

\* The condition the handler sets.
New == [type |-> "Terminating", status |-> "True", since |-> now]

\* It is a condition, and a mark.
LEMMA NewCondition ==
  ASSUME TypeOK PROVE New \in Condition /\ IsMark(New)
  BY DEF TypeOK, New, Condition, IsMark

(***************************************************************************)
(* addNodeTerminationCondition, on a Node without the condition: the list  *)
(* gets longer by one.                                                     *)
(***************************************************************************)
LEMMA AddedCondition ==
  ASSUME TypeOK, NEW cs \in Seq(Condition), OnePerType(cs),
         ~nodeHasTerminationCondition(cs)
  PROVE  LET a == addNodeTerminationCondition(cs)
         IN  a \in Seq(Condition) /\ OnePerType(a) /\ Others(a) = Others(cs)
             /\ Marks(cs) = {}
<1> DEFINE a == addNodeTerminationCondition(cs)
           n == Len(cs)
<1>1. a = Append(cs, New)
  BY DEF addNodeTerminationCondition, New
<1>2. /\ n \in Nat /\ DOMAIN cs = 1..n
      /\ a \in Seq(Condition) /\ DOMAIN a = 1..(n + 1)
      /\ \A i \in 1..n : a[i] = cs[i]
      /\ a[n + 1] = New
  BY <1>1, NewCondition, AppendProperties, LenProperties
<1>3. \A i \in 1..n : cs[i].type # "Terminating"
  BY <1>2 DEF nodeHasTerminationCondition
<1>4. New.type = "Terminating"
  BY DEF New
<1> HIDE DEF a, n
<1>5. OnePerType(a)
  BY <1>2, <1>3, <1>4 DEF OnePerType
<1>6. {j \in DOMAIN a : a[j].type # "Terminating"}
        = {j \in DOMAIN cs : cs[j].type # "Terminating"}
  BY <1>2, <1>3, <1>4
<1>7. Others(a) = Others(cs)
  BY <1>2, <1>6 DEF Others
<1>8. Marks(cs) = {}
  BY <1>2, <1>3 DEF Marks, IsMark
<1>9. QED
  BY <1>2, <1>5, <1>7, <1>8 DEF a

(***************************************************************************)
(* On a Node that has it, the condition is set in its place; a Node that   *)
(* is marked is left as it is.                                             *)
(***************************************************************************)
LEMMA SetCondition ==
  ASSUME TypeOK, NEW cs \in Seq(Condition), OnePerType(cs),
         nodeHasTerminationCondition(cs)
  PROVE  LET a == addNodeTerminationCondition(cs)
         IN  a \in Seq(Condition) /\ OnePerType(a) /\ Others(a) = Others(cs)
             /\ (Marks(cs) # {} => Marks(a) = Marks(cs))
<1> DEFINE a == addNodeTerminationCondition(cs)
           n == Len(cs)
<1>1. n \in Nat /\ cs \in [1..n -> Condition] /\ DOMAIN cs = 1..n
  BY LenProperties
<1>2. a = [i \in 1..n |->
             IF cs[i].type = "Terminating" /\ cs[i].status # "True" THEN New
             ELSE cs[i]]
  BY <1>1 DEF addNodeTerminationCondition, New
<1>3. a \in [1..n -> Condition]
  BY <1>1, <1>2, NewCondition
<1>4. New.type = "Terminating" /\ New.status = "True"
  BY DEF New
<1> HIDE DEF a, n
<1>5. a \in Seq(Condition)
  BY <1>1, <1>3, IsASeq
<1>6. DOMAIN a = DOMAIN cs
      /\ \A i \in DOMAIN cs : /\ a[i].type = cs[i].type
                              /\ cs[i].type # "Terminating" => a[i] = cs[i]
  BY <1>1, <1>2, <1>4
<1>7. OnePerType(a)
  BY <1>6 DEF OnePerType
<1>8. Others(a) = Others(cs)
  BY <1>6 DEF Others
<1>9. ASSUME Marks(cs) # {} PROVE Marks(a) = Marks(cs)
  <2>1. PICK i \in DOMAIN cs : IsMark(cs[i])
    BY <1>9 DEF Marks
  <2>2. \A j \in DOMAIN cs : cs[j].type = "Terminating" => j = i
    BY <2>1 DEF OnePerType, IsMark
  <2>3. \A j \in DOMAIN cs : a[j] = cs[j]
    BY <1>1, <1>2, <2>1, <2>2 DEF IsMark
  <2>4. QED
    BY <1>6, <2>3 DEF Marks
<1>10. QED
  BY <1>5, <1>7, <1>8, <1>9 DEF a

\* Both together: what addNodeTerminationCondition promises.
LEMMA AddsCondition ==
  ASSUME TypeOK, NEW cs \in Seq(Condition), OnePerType(cs)
  PROVE  LET a == addNodeTerminationCondition(cs)
         IN  a \in Seq(Condition) /\ OnePerType(a) /\ Others(a) = Others(cs)
             /\ (Marks(cs) # {} => Marks(a) = Marks(cs))
  BY AddedCondition, SetCondition

-----------------------------------------------------------------------------
\* Another writer changes its own conditions in their places.
LEMMA OtherWriterStep ==
  ASSUME TIInv, OtherWriter
  PROVE  /\ conditions' \in Seq(Condition) /\ OnePerType(conditions')
         /\ Marks(conditions') = Marks(conditions)
<1> DEFINE n == Len(conditions)
           F(c) == [c EXCEPT !.status = IF @ = "True" THEN "False" ELSE "True"]
<1>1. n \in Nat /\ conditions \in [1..n -> Condition] /\ DOMAIN conditions = 1..n
  BY LenProperties DEF TIInv, TypeOK
<1>2. \A c \in Condition : F(c) \in Condition /\ F(c).type = c.type
  BY DEF Condition
<1>3. conditions' = [i \in 1..n |-> IF conditions[i].type # "Ready" THEN conditions[i]
                                    ELSE F(conditions[i])]
  BY <1>1 DEF OtherWriter
<1> HIDE DEF n, F
<1>4. /\ conditions' \in [1..n -> Condition] /\ DOMAIN conditions' = 1..n
      /\ \A i \in 1..n : /\ conditions'[i].type = conditions[i].type
                         /\ conditions[i].type # "Ready"
                              => conditions'[i] = conditions[i]
  BY <1>1, <1>2, <1>3
<1>5. conditions' \in Seq(Condition)
  BY <1>1, <1>4, IsASeq
<1>6. OnePerType(conditions')
  BY <1>1, <1>4 DEF OnePerType, TIInv, KeyedByType
<1>7. \A i \in 1..n : IsMark(conditions'[i]) <=> IsMark(conditions[i])
  BY <1>4 DEF IsMark
<1>8. \A i \in 1..n : IsMark(conditions[i]) => conditions'[i] = conditions[i]
  BY <1>4 DEF IsMark
<1>9. Marks(conditions') = Marks(conditions)
  BY <1>1, <1>4, <1>7, <1>8 DEF Marks
<1>10. QED
  BY <1>5, <1>6, <1>9

\* The handler's update is computed from the Node as it is.
LEMMA UpdateStep ==
  ASSUME TIInv, UpdateNode \/ UpdateAnswerLost
  PROVE  /\ conditions' \in Seq(Condition) /\ OnePerType(conditions')
         /\ Others(conditions') = Others(conditions)
         /\ Marks(conditions) # {} => Marks(conditions') = Marks(conditions)
<1>1. conditions' = addNodeTerminationCondition(conditions)
  BY DEF TIInv, UpdateNode, UpdateAnswerLost
<1>2. QED
  BY <1>1, AddsCondition DEF TIInv, TypeOK, KeyedByType

\* No other step changes the Node.
LEMMA NodeUnchanged ==
  ASSUME Next, ~(UpdateNode \/ UpdateAnswerLost \/ OtherWriter)
  PROVE  conditions' = conditions
  BY DEF Next, Handler, StartHandler, Poll, GetNode, UpdateConflict, HandlerFails,
         Preempt

\* The empty list is a list of conditions.
LEMMA EmptyCopy == <<>> \in Seq(Condition)
  BY EmptySeq

\* The inductive invariant, for every list of conditions.
THEOREM TerminationInvariantHolds == Spec => []TIInv
<1>1. Init => TIInv
  BY TerminationAssumption, EmptyCopy DEF Init, TIInv, TypeOK, KeyedByType
<1>2. TIInv /\ [Next]_terminationVars => TIInv'
  <2> SUFFICES ASSUME TIInv, [Next]_terminationVars PROVE TIInv'
    OBVIOUS
  <2>1. CASE UNCHANGED terminationVars
    BY <2>1 DEF TIInv, TypeOK, KeyedByType, terminationVars
  <2>2. CASE Next
    <3>1. conditions' \in Seq(Condition) /\ OnePerType(conditions')
      BY <2>2, UpdateStep, OtherWriterStep, NodeUnchanged
         DEF TIInv, TypeOK, KeyedByType
    <3>2. copy' \in {copy, conditions, <<>>} /\ copy' \in Seq(Condition)
      BY <2>2, EmptyCopy
         DEF Next, Handler, StartHandler, Poll, GetNode, UpdateNode, UpdateConflict,
             HandlerFails, UpdateAnswerLost, Preempt, OtherWriter, Down, TIInv, TypeOK
    <3>3. current' \in BOOLEAN /\ (current' => copy' = conditions')
      <4>1. CASE StartHandler \/ Poll \/ Preempt
        BY <4>1 DEF StartHandler, Poll, Preempt, TIInv, TypeOK
      <4>2. CASE GetNode
        BY <4>2 DEF GetNode
      <4>3. CASE current' = FALSE
        BY <4>3
      <4>4. QED
        BY <2>2, <4>1, <4>2, <4>3
           DEF Next, Handler, UpdateNode, UpdateConflict, HandlerFails,
               UpdateAnswerLost, OtherWriter, Down
    <3>4. faults' \in Nat
      BY <2>2
         DEF Next, Handler, StartHandler, Poll, GetNode, UpdateNode, UpdateConflict,
             HandlerFails, UpdateAnswerLost, Preempt, OtherWriter, Fault, TIInv, TypeOK
    <3>5. now' \in {0, 1}
      BY <2>2
         DEF Next, Handler, StartHandler, Poll, GetNode, UpdateNode, UpdateConflict,
             HandlerFails, UpdateAnswerLost, Preempt, OtherWriter, TIInv, TypeOK
    <3>6. notice' \in BOOLEAN /\ pc' \in {"down", "poll", "getNode", "updateNode"}
      BY <2>2
         DEF Next, Handler, StartHandler, Poll, GetNode, UpdateNode, UpdateConflict,
             HandlerFails, UpdateAnswerLost, Preempt, OtherWriter, Down, TIInv, TypeOK
    <3>7. QED
      BY <3>1, <3>2, <3>3, <3>4, <3>5, <3>6 DEF TIInv, TypeOK, KeyedByType
  <2>3. QED
    BY <2>1, <2>2
<1>3. QED
  BY <1>1, <1>2, PTL DEF Spec

(***************************************************************************)
(* A Node never gets a second Terminating condition.                       *)
(***************************************************************************)
THEOREM KeyedByTypeHolds == Spec => []KeyedByType
<1>1. TIInv => KeyedByType
  BY DEF TIInv
<1>2. QED
  BY <1>1, TerminationInvariantHolds, PTL

(***************************************************************************)
(* markNodeForDeletion writes the list of conditions whole, and undoes no  *)
(* other writer's change nevertheless: it carries the resourceVersion.     *)
(***************************************************************************)
THEOREM OnlyTerminatingChangesHolds == Spec => OnlyTerminatingChanges
<1>1. TIInv /\ [Next]_terminationVars
        => [pc = "updateNode" /\ pc' = "down"
              => Others(conditions') = Others(conditions)]_terminationVars
  <2> SUFFICES ASSUME TIInv, Next, pc = "updateNode", pc' = "down"
               PROVE  Others(conditions') = Others(conditions)
    OBVIOUS
  <2>1. ~OtherWriter
    BY DEF OtherWriter
  <2>2. CASE UpdateNode \/ UpdateAnswerLost
    BY <2>2, UpdateStep
  <2>3. CASE ~(UpdateNode \/ UpdateAnswerLost)
    BY <2>1, <2>3, NodeUnchanged
  <2>4. QED
    BY <2>2, <2>3
<1>2. QED
  BY <1>1, TerminationInvariantHolds, PTL DEF Spec, OnlyTerminatingChanges

(***************************************************************************)
(* A mark keeps its first transition time, however often the handler runs. *)
(***************************************************************************)
THEOREM MarkedOnceHolds == Spec => MarkedOnce
<1>1. TIInv /\ [Next]_terminationVars
        => [Marks(conditions) # {}
              => Marks(conditions') = Marks(conditions)]_terminationVars
  <2> SUFFICES ASSUME TIInv, Next, Marks(conditions) # {}
               PROVE  Marks(conditions') = Marks(conditions)
    OBVIOUS
  <2>1. CASE UpdateNode \/ UpdateAnswerLost
    BY <2>1, UpdateStep
  <2>2. CASE OtherWriter
    BY <2>2, OtherWriterStep
  <2>3. CASE ~(UpdateNode \/ UpdateAnswerLost \/ OtherWriter)
    BY <2>3, NodeUnchanged
  <2>4. QED
    BY <2>1, <2>2, <2>3
<1>2. QED
  BY <1>1, TerminationInvariantHolds, PTL DEF Spec, MarkedOnce
=============================================================================
