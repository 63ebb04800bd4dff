-------------------------- MODULE InterfaceParameters --------------------------
(***************************************************************************)
(* services/networkinterfaces: the reads that precede the PUT of a network *)
(* interface, the first error among them, and the request they make, for   *)
(* Azure (networkinterfaces.go) and for Azure Stack Hub                    *)
(* (networkinterfaces_stack.go).                                           *)
(*                                                                         *)
(*   n      the networkinterfaces.Spec                                     *)
(*   at     the place of the scope                                         *)
(*   azure  what exists in Azure:                                          *)
(*            subnet    [group, prefix, more]: where it is, and the        *)
(*                      families of addressPrefix and addressPrefixes      *)
(*            sku       Nil, or [accelerated] of the VM size               *)
(*            lbs       a function on the names of the load balancers:     *)
(*                      [frontends, backends, natRules, private], the      *)
(*                      families of the frontends, the lengths of the      *)
(*                      other lists, and whether a frontend is private     *)
(*            security  the names of the security groups                   *)
(*   fault  the call that is answered by an error, [call, answer]          *)
(***************************************************************************)
EXTENDS MachineScope, SequencesExt

Families == {"v4", "v6"}

NoFault == [call |-> "none", answer |-> "ok"]

(***************************************************************************)
(* How a call is answered: ok, by a status (404, another 4xx, 401, 5xx),   *)
(* or by an error of the program itself: invalid for a MachineError,       *)
(* generic for a plain error, again for the plain error of a VM that is    *)
(* not ready yet or was deleted to be created anew, panic.                 *)
(***************************************************************************)
Answers == {"ok", "notFound", "client", "unauthorized", "server",
            "invalid", "generic", "again", "panic"}

Answer(call, exists, fault) ==
  IF fault.call = call THEN fault.answer ELSE IF exists THEN "ok" ELSE "notFound"

FirstError(answers) ==
  LET i == SelectInSeq(answers, LAMBDA a : a # "ok")
  IN IF i = 0 THEN "ok" ELSE answers[i]

-----------------------------------------------------------------------------
(***************************************************************************)
(* The reads.  Only the subnet is looked for in the network's own group;   *)
(* a name that is not set is not read.                                     *)
(***************************************************************************)
GetSubnet(at, azure, fault) ==
  Answer("subnet", azure.subnet.group = at.netGroup, fault)

GetPublicIP(n, fault) == IF n.publicIP THEN Answer("publicIP", TRUE, fault) ELSE "ok"

GetPublicLoadBalancer(n, azure, fault) ==
  IF n.publicLB = Nil THEN "ok"
  ELSE Answer("publicLB", n.publicLB \in DOMAIN azure.lbs, fault)

GetInternalLoadBalancer(n, azure, fault) ==
  IF n.internalLB = Nil THEN "ok"
  ELSE Answer("internalLB", n.internalLB \in DOMAIN azure.lbs, fault)

GetSecurityGroup(n, azure, fault) ==
  IF n.securityGroup = Nil THEN "ok"
  ELSE Answer("securityGroup", n.securityGroup \in azure.security, fault)

\* The lookup of the last group fails if one does.
GetApplicationSecurityGroups(n, azure, fault) ==
  IF n.appGroups = {} THEN "ok"
  ELSE Answer("appGroups", n.appGroups \subseteq azure.security, fault)

(***************************************************************************)
(* The loop over the groups tests err, not asgerr: a group that is missing *)
(* fails the type assertion, any other error is passed over.               *)
(***************************************************************************)
AppGroupsError(n, azure, fault) ==
  IF GetApplicationSecurityGroups(n, azure, fault) = "notFound" THEN "generic" ELSE "ok"

\* Mutant: every failed lookup of the size is blamed on the configuration.
GetSKUFlattened(azure, fault) ==
  IF Answer("sku", azure.sku # Nil, fault) = "ok" THEN "ok" ELSE "invalid"

\* A size Azure does not list is an InvalidMachineConfiguration.
GetSKU(azure, fault) ==
  IF fault.call # "sku" /\ azure.sku = Nil THEN "invalid"
  ELSE Answer("sku", TRUE, fault)

-----------------------------------------------------------------------------
(***************************************************************************)
(* Load balancers: frontend i belongs to backend i.                        *)
(***************************************************************************)
Paired(lb) == {i \in DOMAIN lb.frontends : i <= lb.backends}

Pools(azure, name, families) ==
  IF name = Nil THEN {}
  ELSE {<<name, i>> : i \in {i \in Paired(azure.lbs[name]) :
                               azure.lbs[name].frontends[i] \in families}}

\* The rule of that index is looked up once for every frontend with a backend.
NatRulePanics(n, azure) ==
  /\ n.publicLB # Nil /\ n.natRule # Nil
  /\ Paired(azure.lbs[n.publicLB]) # {}
  /\ n.natRule < 0 \/ n.natRule >= azure.lbs[n.publicLB].natRules

NatRules(n, azure, families) ==
  IF n.natRule = Nil THEN 0 ELSE Cardinality(Pools(azure, n.publicLB, families))

\* Mutant: the pools of the internal load balancer replace the public one's.
JoinedPoolsOverwritten(n, azure, families) ==
  IF n.internalLB # Nil THEN SetToBag(Pools(azure, n.internalLB, families))
  ELSE SetToBag(Pools(azure, n.publicLB, families))

\* The pools of both are appended to one list; nothing looks for duplicates.
JoinedPools(n, azure, families) ==
  SetToBag(Pools(azure, n.publicLB, families))
    (+) SetToBag(Pools(azure, n.internalLB, families))

\* Nil stands for a reference without an ID.
AppGroups(n, azure, fault) ==
  n.appGroups \cup
    (IF GetApplicationSecurityGroups(n, azure, fault) = "ok" THEN {} ELSE {Nil})

-----------------------------------------------------------------------------
(***************************************************************************)
(* Azure                                                                   *)
(***************************************************************************)
subnetHasIPv6(subnet) == subnet.prefix = "v6" \/ "v6" \in subnet.more

InterfaceError(n, at, azure, fault) ==
  FirstError(<<GetSubnet(at, azure, fault),
               GetSKU(azure, fault),
               IF n.accelerated /\ azure.sku # Nil /\ ~azure.sku.accelerated THEN "generic" ELSE "ok",
               GetPublicIP(n, fault),
               GetPublicLoadBalancer(n, azure, fault)>>)

InterfaceErrorAfterLB(n, azure, fault) ==
  FirstError(<<IF NatRulePanics(n, azure) THEN "panic" ELSE "ok",
               GetInternalLoadBalancer(n, azure, fault),
               GetSecurityGroup(n, azure, fault),
               AppGroupsError(n, azure, fault)>>)

InterfaceRequest(n, scope, azure, fault) ==
  [v4 |-> [pools |-> JoinedPools(n, azure, {"v4"}),
           natRules |-> NatRules(n, azure, {"v4"}),
           publicIP |-> n.publicIP,
           appGroups |-> AppGroups(n, azure, fault)],
   v6 |-> IF subnetHasIPv6(azure.subnet)
          THEN [pools |-> JoinedPools(n, azure, {"v6"}),
                natRules |-> NatRules(n, azure, {"v6"})]
          ELSE Nil,
   securityGroup |-> n.securityGroup,
   accelerated |-> n.accelerated,
   location |-> scope.at.location,
   tags |-> scope.tags]

-----------------------------------------------------------------------------
(***************************************************************************)
(* Azure Stack Hub: the size is not looked up, every pool and rule joins   *)
(* the IPv4 configuration, acceleration and tags are left out.             *)
(***************************************************************************)
subnetHasIPv6StackHub(subnet) == subnet.prefix = "v6"

InterfaceErrorStackHub(n, at, azure, fault) ==
  FirstError(<<GetSubnet(at, azure, fault),
               GetPublicIP(n, fault),
               GetPublicLoadBalancer(n, azure, fault)>>)

InterfaceRequestStackHub(n, scope, azure, fault) ==
  [v4 |-> [pools |-> JoinedPools(n, azure, Families),
           natRules |-> NatRules(n, azure, Families),
           publicIP |-> n.publicIP,
           appGroups |-> AppGroups(n, azure, fault)],
   v6 |-> IF subnetHasIPv6StackHub(azure.subnet)
          THEN [pools |-> EmptyBag, natRules |-> 0]
          ELSE Nil,
   securityGroup |-> n.securityGroup,
   accelerated |-> FALSE,
   location |-> scope.at.location,
   tags |-> Nil]

=============================================================================
