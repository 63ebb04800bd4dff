------------------------- MODULE MCMachineLifecycle -------------------------
(* Instances of MachineLifecycle for TLC. *)
EXTENDS MachineLifecycle

Good == [scope |-> TRUE, vnet |-> TRUE, nicSpec |-> "ok", publicIP |-> "yes",
         vmSpec |-> "ok", hook |-> FALSE, lag |-> TRUE]

\* A usable machine, with and without a public IP and a lifecycle hook.
GoodConfigs == {Good, [Good EXCEPT !.publicIP = "no", !.hook = TRUE]}

\* One machine for each way a provider spec may be wrong.
BadConfigs == {[Good EXCEPT !.scope = FALSE], [Good EXCEPT !.vnet = FALSE],
               [Good EXCEPT !.nicSpec = "invalid"], [Good EXCEPT !.publicIP = "toolong"],
               [Good EXCEPT !.vmSpec = "invalid"], [Good EXCEPT !.vmSpec = "broken"]}

\* The same machines where every reconcile starts from the current object.
CurrentConfigs == {[c EXCEPT !.lag = FALSE] : c \in GoodConfigs}
CurrentBadConfigs == {[c EXCEPT !.lag = FALSE] : c \in BadConfigs}

AllConfigs == GoodConfigs \cup BadConfigs \cup CurrentConfigs
=============================================================================
