---------------------------- MODULE MCTermination ----------------------------
(* Instances of Termination for TLC. *)
EXTENDS Termination

Ready  == [type |-> "Ready", status |-> "True", since |-> 0]
Stale  == [type |-> "Terminating", status |-> "False", since |-> 0]
Marked == [type |-> "Terminating", status |-> "True", since |-> 0]

\* A new Node, and Nodes on which the condition was reset or is set already.
SomeConditions == {<<>>, <<Ready>>, <<Stale, Ready>>, <<Ready, Stale>>, <<Marked, Ready>>}
=============================================================================
