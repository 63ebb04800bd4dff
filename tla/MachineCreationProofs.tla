------------------------ MODULE MachineCreationProofs ------------------------
(***************************************************************************)
(* Proofs about MachineCreation, for every set of machines, clusters and   *)
(* states of Azure that satisfy InputsAssumption: its resources stay where *)
(* later calls look for them, and its requests say what they should.       *)
(***************************************************************************)
EXTENDS MachineCreation, SequenceTheorems, FiniteSetTheorems, WellFoundedInduction, TLAPS

(***************************************************************************)
(* Where the machine's resources belong, according to a copy of it.        *)
(***************************************************************************)
Value(key) == getValueFromSecretOrEnvironment(secret, input.infra.environ, key)

Home(machine) == Default(machine.group, Default(Value("group"), input.infra.group))

Here == <<Value("subscription"), Home(api)>>

\* The steps of CreateMachine, and those of an actuator call with a scope.
Creating == {"network", "pip", "reads", "nic", "set", "domains", "putSet", "vm"}

AtWork == Creating \cup {"refresh", "persist"}

(***************************************************************************)
(* A copy has the group of the spec, or the one its Persist found, if any. *)
(***************************************************************************)
Recorded(machine) ==
  /\ input.spec.group # Nil => machine.group # Nil
  /\ ~moved /\ machine.patched /\ machine.group = Nil => NoGroup

(***************************************************************************)
(* Why resources are found again.  A copy of the machine that records its  *)
(* group is never ahead of the stored one, a scope that was built from it  *)
(* works in that group, and unless the secret moved the machine, all of    *)
(* them and every resource agree on the place.                             *)
(***************************************************************************)
Placed ==
  /\ Started => input.spec.credentials
  /\ ~api.patched => api.group = input.spec.group
  /\ ~cache.patched => cache.group = input.spec.group
  /\ cache.patched => api.patched
  /\ Recorded(api) /\ Recorded(cache) /\ (pc \in {"create", "update"} => Recorded(copy))
  /\ cache.group # Nil => api.group # Nil
  /\ pc # "idle" /\ copy.group # Nil => api.group # Nil
  /\ pc \in AtWork /\ copy.group # Nil => scope.at.group = copy.group
  /\ ~moved =>
       /\ Home(cache) = Home(api)
       /\ pc \in {"create", "update"} => Home(copy) = Home(api)
       /\ pc \in AtWork => PlaceOf(scope) = Here
       /\ \A r \in cloud : r.place = Here

-----------------------------------------------------------------------------
\* What NewMachineScope makes of a copy of the machine.
LEMMA ScopeBuilt ==
  ASSUME NEW machine
  PROVE  /\ ScopeOf(machine).set = Nil
         /\ ScopeOf(machine).tags = getTagList(input.infra.tags, input.spec.tags)
         /\ ScopeOf(machine).lb = machine.lb
         /\ input.spec.credentials =>
              /\ PlaceOf(ScopeOf(machine)) = <<Value("subscription"), Home(machine)>>
              /\ ScopeOf(machine).at.group = Home(machine)
  BY DEF ScopeOf, NewMachineScope, Config, updateFromSecret, PlaceOf, Value, Home,
         getInfraResourceGroup, getInfraResourceTags

LEMMA PlacedInit == Init => Placed
  BY DEF Init, Placed, Recorded, NoGroup, Started, Blank, Home, AtWork, Creating

LEMMA PlacedExists == Placed /\ Exists => Placed'
  BY DEF Exists, Placed, Recorded, NoGroup, Started, Home, Here, Value, AtWork, Creating

LEMMA PlacedUpdateScope == Placed /\ UpdateScope => Placed'
  BY ScopeBuilt
  DEF UpdateScope, Placed, Recorded, NoGroup, Started, Home, Here, Value, AtWork, Creating,
      PlaceOf, Default

LEMMA PlacedCreateScope == Placed /\ CreateScope => Placed'
  BY ScopeBuilt
  DEF CreateScope, Placed, Recorded, NoGroup, Started, Home, Here, Value, AtWork, Creating,
      PlaceOf, Default

\* What Azure has after a PUT: what it had, and the request.
LEMMA PutPlaces ==
  ASSUME NEW kind, NEW request
  PROVE  /\ \E r \in Put(kind, request) : r.kind = kind
         /\ \A r \in Put(kind, request) :
              \/ r \in cloud
              \/ r.kind = kind /\ r.place = PlaceOf(scope) /\ r.request = request
<1> DEFINE new == [kind |-> kind, place |-> PlaceOf(scope), request |-> request]
<1>1. new \in Put(kind, request) /\ \A r \in Put(kind, request) : r \in cloud \/ r = new
  BY Zenon DEF Put
<1>2. new.kind = kind /\ new.place = PlaceOf(scope) /\ new.request = request
  OBVIOUS
<1>3. QED
  BY <1>1, <1>2

\* A step of CreateMachine, or the Update that ends it.
LEMMA PlacedStep ==
  ASSUME Placed, pc \in AtWork, pc' \in AtWork \cup {"idle"},
         UNCHANGED <<input, secret, api, cache, copy, moved>>,
         scope'.at = scope.at \/ pc' = "idle",
         \A r \in cloud' : r \in cloud \/ r.place = PlaceOf(scope)
  PROVE  Placed'
<1>1. Recorded(api)' /\ Recorded(cache)' /\ pc' \notin {"create", "update"}
  BY DEF Placed, Recorded, NoGroup, AtWork, Creating
<1>2. QED
  BY <1>1 DEF Placed, Started, Home, Here, Value, AtWork, Creating, PlaceOf

LEMMA PlacedPut ==
  ASSUME NEW label \in Creating, NEW kind, NEW request, NEW next \in AtWork, Placed,
         PutStep(label, kind, request, next)
  PROVE  Placed'
<1>1. \A r \in cloud' : r \in cloud \/ r.place = PlaceOf(scope)
  BY PutPlaces DEF PutStep
<1>2. QED
  BY <1>1, PlacedStep DEF PutStep, Step, Ends, AtWork, Creating

(***************************************************************************)
(* createVirtualMachine is a step of CreateMachine that deletes resources  *)
(* or puts the VM.                                                         *)
(***************************************************************************)
LEMMA VMStep ==
  ASSUME createVirtualMachine
  PROVE  /\ UNCHANGED scope
         /\ \/ GetVMError # "ok" /\ Step("vm", GetVMError, "refresh") /\ UNCHANGED cloud
            \/ Step("vm", "ok", "refresh") /\ UNCHANGED cloud /\ Has("vm", scope)
            \/ \E a \in {"again", fault.answer} :
                 /\ a = "again" \/ fault.call = "delete"
                 /\ Step("vm", a, "refresh") /\ cloud' \subseteq cloud
            \/ \E sent \in BOOLEAN :
                 /\ VMSpecError(sent) # "ok"
                 /\ Step("vm", VMSpecError(sent), "refresh") /\ UNCHANGED cloud
            \/ \E sent \in BOOLEAN :
                 /\ VMSpecError(sent) = "ok" /\ Step("vm", SentAnswer("vm", sent), "refresh")
                 /\ \/ cloud' = Put("vm", VMRequest)
                    \/ fault.call = "vm" /\ ~sent /\ UNCHANGED cloud
<1>1. UNCHANGED scope
  BY DEF createVirtualMachine
<1>2. CASE GetVMError # "ok"
  BY <1>1, <1>2 DEF createVirtualMachine
<1>3. CASE \E sent \in BOOLEAN : PutVM(sent)
  BY <1>1, <1>3 DEF PutVM
<1>4. CASE Step("vm", "ok", "refresh") /\ UNCHANGED cloud /\ Has("vm", scope)
  BY <1>1, <1>4
<1>5. CASE Step("vm", "again", "refresh") /\ UNCHANGED cloud
  BY <1>1, <1>5
<1>6. CASE DeleteFailedVM
  BY <1>1, <1>6 DEF DeleteFailedVM
<1>7. QED
  BY <1>2, <1>3, <1>4, <1>5, <1>6 DEF createVirtualMachine

LEMMA PlacedVM == Placed /\ createVirtualMachine => Placed'
<1> SUFFICES ASSUME Placed, createVirtualMachine PROVE Placed'
  OBVIOUS
<1>1. PICK a : Step("vm", a, "refresh")
  BY VMStep
<1>2. \A r \in cloud' : r \in cloud \/ r.place = PlaceOf(scope)
  BY VMStep, PutPlaces
<1>3. QED
  BY <1>1, <1>2, VMStep, PlacedStep DEF Step, Ends, AtWork, Creating

LEMMA PlacedUpdate == Placed /\ Update => Placed'
  BY PlacedStep DEF Update, Ends, AtWork, Creating

\* A Persist keeps the group of the stored machine, or writes that of the scope.
LEMMA PersistedGroup ==
  ASSUME Placed, pc = "persist"
  PROVE  /\ api.group # Nil => Persisted.group # Nil
         /\ ~moved /\ Persisted.group = Nil => NoGroup
         /\ ~moved => Home(Persisted) = Home(api)
<1>1. Persisted.group = IF scope.at.group # copy.group THEN scope.at.group ELSE api.group
  BY DEF Persisted
<1>2. copy.group # Nil => api.group # Nil /\ scope.at.group = copy.group
  BY DEF Placed, AtWork, Creating
<1>3. ~moved => scope.at.group = Home(api)
  BY DEF Placed, AtWork, Creating, PlaceOf, Here
<1>4. api.group # Nil => Home(api) = api.group
  BY DEF Home, Default
<1>5. Home(api) = Nil => NoGroup
  BY DEF Home, NoGroup, Default, Value, getInfraResourceGroup
<1>6. QED
  BY <1>1, <1>2, <1>3, <1>4, <1>5 DEF Home, Default

LEMMA PlacedPersist == Placed /\ Persist => Placed'
<1> SUFFICES ASSUME Placed, Persist PROVE Placed'
  OBVIOUS
<1>1. CASE api' = Persisted
  <2>1. Persisted.patched
    BY DEF Persisted
  <2>2. UNCHANGED <<input, secret, cache, copy, cloud, moved>> /\ pc = "persist"
        /\ pc' \in {"idle", "failed"}
    BY DEF Persist
  <2>3. (NoGroup' <=> NoGroup) /\ \A machine : Home(machine)' = Home(machine)
    BY <2>2 DEF NoGroup, Home, Value
  <2>4. Recorded(api)' /\ Recorded(cache)'
    BY <1>1, <2>2, <2>3, PersistedGroup DEF Placed, Recorded
  <2>5. ~moved => Home(api)' = Home(api) /\ Here' = Here
    BY <1>1, <2>2, PersistedGroup DEF Home, Here, Value
  <2>6. QED
    BY <1>1, <2>1, <2>2, <2>4, <2>5, PersistedGroup
    DEF Placed, Started, AtWork, Creating, Home, Value
<1>2. CASE UNCHANGED api
  BY <1>2 DEF Persist, Placed, Recorded, NoGroup, Started, Home, Here, Value, AtWork, Creating
<1>3. QED
  BY <1>1, <1>2 DEF Persist

LEMMA PlacedEditSecret == Placed /\ EditSecret => Placed'
  BY DEF EditSecret, Unrecorded, Placed, Recorded, NoGroup, Started, Home, Here, Value,
         AtWork, Creating, PlaceOf, Default, getInfraResourceGroup

LEMMA PlacedNext == Placed /\ [Next]_vars => Placed'
<1> SUFFICES ASSUME Placed, [Next]_vars
             PROVE  Placed'
  OBVIOUS
<1>1. CASE createNetworkInterface \/ InterfaceRefused \/ getMaximumFaultDomainCount
  BY <1>1, PlacedStep
  DEF createNetworkInterface, InterfaceRefused, getMaximumFaultDomainCount, Step, Ends,
      AtWork, Creating
<1>2. CASE CreatePublicIP
  BY <1>2, PlacedPut DEF CreatePublicIP, AtWork, Creating
<1>3. CASE CreateInterface
  BY <1>3, PlacedPut DEF CreateInterface, AtWork, Creating
<1>4. CASE CreateAvailabilitySet
  BY <1>4, PlacedPut DEF CreateAvailabilitySet, AtWork, Creating
<1>5. CASE CreateScopeFails \/ CacheSync \/ Crash \/ UNCHANGED vars
  BY <1>5 DEF CreateScopeFails, CacheSync, Crash, vars, Placed, Recorded, NoGroup, Started, Home,
              Here, Value, AtWork, Creating, PlaceOf
<1>6. CASE ReadForInterface
  BY <1>6, PlacedStep DEF ReadForInterface, Step, Ends, AtWork, Creating
<1>7. CASE GetZonesStep
  <2>1. scope'.at = scope.at /\ UNCHANGED cloud
    BY <1>7 DEF GetZonesStep
  <2>2. pc = "set" /\ pc' \in AtWork \cup {"idle"}
    BY <1>7 DEF GetZonesStep, Step, Ends, AtWork, Creating
  <2>3. QED
    BY <1>7, <2>1, <2>2, PlacedStep DEF GetZonesStep, Step, AtWork, Creating
<1>8. QED
  BY <1>1, <1>2, <1>3, <1>4, <1>5, <1>6, <1>7, PlacedExists, PlacedUpdateScope,
     PlacedCreateScope, PlacedVM, PlacedUpdate, PlacedPersist, PlacedEditSecret DEF Next

(***************************************************************************)
(* Every resource that was created is where the next call looks for it, as *)
(* long as the secret was not changed while it alone knew the place.       *)
(***************************************************************************)
THEOREM ReachableHolds == Spec => []Reachable
<1>1. Placed => Reachable
  BY ScopeBuilt DEF Placed, Reachable, Started, Here
<1>2. QED
  BY <1>1, PlacedInit, PlacedNext, PTL DEF Spec

-----------------------------------------------------------------------------
(***************************************************************************)
(* Types.  The strengthening of TypeOK has the types of what a scope is    *)
(* built from.                                                             *)
(***************************************************************************)
MachineTyped(machine) == {machine.group, machine.netGroup, machine.location} \subseteq Text

Typed ==
  /\ TypeOK
  /\ input \in Inputs
  /\ secret = Nil \/ TextValued(secret)
  /\ MachineTyped(api) /\ MachineTyped(cache) /\ MachineTyped(copy)
  /\ scope.at \in Place \cup {Nil}

\* Every nonempty set of natural numbers has a least element.
LEMMA LeastNatural ==
  ASSUME NEW T \in SUBSET Nat, T # {}
  PROVE  \E x \in T : \A y \in T : x <= y
<1> DEFINE R == OpToRel(<, Nat)
<1>1. IsWellFoundedOn(R, Nat)
  BY NatLessThanWellFounded
<1> HIDE DEF R
<1>2. PICK x \in T : \A y \in T : ~ (<<y, x>> \in R)
  BY <1>1, WFMin
<1>3. \A y \in T : y < x => <<y, x>> \in R
  BY DEF R, OpToRel
<1>4. \A y \in T : ~(y < x)
  BY <1>2, <1>3
<1>5. x \in Nat /\ \A y \in T : y \in Nat
  OBVIOUS
<1>6. \A y \in T : x <= y
  BY <1>4, <1>5
<1>7. QED
  BY <1>6

\* FirstError returns the first answer that is an error, and ok if none is.
LEMMA FirstErrorIsFirst ==
  ASSUME NEW S, NEW s \in Seq(S)
  PROVE  \/ FirstError(s) = "ok" /\ \A i \in DOMAIN s : s[i] = "ok"
         \/ \E i \in DOMAIN s : FirstError(s) = s[i] /\ s[i] # "ok"
<1> DEFINE I == {i \in 1..Len(s) : s[i] # "ok"}
<1>1. FirstError(s) = LET i == IF I # {} THEN Min(I) ELSE 0
                      IN IF i = 0 THEN "ok" ELSE s[i]
  BY DEF FirstError, SelectInSeq
<1>2. DOMAIN s = 1..Len(s) /\ I \subseteq Nat /\ 0 \notin I
  OBVIOUS
<1>3. CASE I = {}
  BY <1>1, <1>2, <1>3
<1>4. CASE I # {}
  <2>1. Min(I) \in I
    BY <1>2, <1>4, LeastNatural DEF Min
  <2>2. QED
    BY <1>1, <1>2, <1>4, <2>1
<1>5. QED
  BY <1>3, <1>4

\* The same for the lists of the code, which have two to five answers.
LEMMA FirstErrorOf2 ==
  ASSUME NEW a \in Answers, NEW b \in Answers
  PROVE  /\ FirstError(<<a, b>>) \in {a, b, "ok"}
         /\ FirstError(<<a, b>>) = "ok" => a = "ok" /\ b = "ok"
<1> DEFINE s == <<a, b>>
<1>1. s \in Seq(Answers) /\ DOMAIN s = 1..2
  OBVIOUS
<1>2. s[1] = a /\ s[2] = b
  OBVIOUS
<1> HIDE DEF s
<1>3. /\ FirstError(s) = "ok" \/ \E i \in 1..2 : FirstError(s) = s[i]
      /\ FirstError(s) = "ok" => \A i \in 1..2 : s[i] = "ok"
  BY <1>1, FirstErrorIsFirst
<1>4. QED
  BY <1>2, <1>3 DEF s

LEMMA FirstErrorOf3 ==
  ASSUME NEW a \in Answers, NEW b \in Answers, NEW c \in Answers
  PROVE  /\ FirstError(<<a, b, c>>) \in {a, b, c, "ok"}
         /\ FirstError(<<a, b, c>>) = "ok" =>
              a = "ok" /\ b = "ok" /\ c = "ok"
<1> DEFINE s == <<a, b, c>>
<1>1. s \in Seq(Answers) /\ DOMAIN s = 1..3
  OBVIOUS
<1>2. s[1] = a /\ s[2] = b /\ s[3] = c
  OBVIOUS
<1> HIDE DEF s
<1>3. /\ FirstError(s) = "ok" \/ \E i \in 1..3 : FirstError(s) = s[i]
      /\ FirstError(s) = "ok" => \A i \in 1..3 : s[i] = "ok"
  BY <1>1, FirstErrorIsFirst
<1>4. QED
  BY <1>2, <1>3 DEF s

LEMMA FirstErrorOf4 ==
  ASSUME NEW a \in Answers, NEW b \in Answers, NEW c \in Answers, NEW d \in Answers
  PROVE  /\ FirstError(<<a, b, c, d>>) \in {a, b, c, d, "ok"}
         /\ FirstError(<<a, b, c, d>>) = "ok" =>
              a = "ok" /\ b = "ok" /\ c = "ok" /\ d = "ok"
<1> DEFINE s == <<a, b, c, d>>
<1>1. s \in Seq(Answers) /\ DOMAIN s = 1..4
  OBVIOUS
<1>2. s[1] = a /\ s[2] = b /\ s[3] = c /\ s[4] = d
  OBVIOUS
<1> HIDE DEF s
<1>3. /\ FirstError(s) = "ok" \/ \E i \in 1..4 : FirstError(s) = s[i]
      /\ FirstError(s) = "ok" => \A i \in 1..4 : s[i] = "ok"
  BY <1>1, FirstErrorIsFirst
<1>4. QED
  BY <1>2, <1>3 DEF s

LEMMA FirstErrorOf5 ==
  ASSUME NEW a \in Answers, NEW b \in Answers, NEW c \in Answers, NEW d \in Answers,
         NEW e \in Answers
  PROVE  /\ FirstError(<<a, b, c, d, e>>) \in {a, b, c, d, e, "ok"}
         /\ FirstError(<<a, b, c, d, e>>) = "ok" =>
              a = "ok" /\ b = "ok" /\ c = "ok" /\ d = "ok" /\ e = "ok"
<1> DEFINE s == <<a, b, c, d, e>>
<1>1. s \in Seq(Answers) /\ DOMAIN s = 1..5
  OBVIOUS
<1>2. s[1] = a /\ s[2] = b /\ s[3] = c /\ s[4] = d /\ s[5] = e
  OBVIOUS
<1> HIDE DEF s
<1>3. /\ FirstError(s) = "ok" \/ \E i \in 1..5 : FirstError(s) = s[i]
      /\ FirstError(s) = "ok" => \A i \in 1..5 : s[i] = "ok"
  BY <1>1, FirstErrorIsFirst
<1>4. QED
  BY <1>2, <1>3 DEF s

\* A call is answered by ok, by the fault of the attempt or by 404.
LEMMA AnswerTyped ==
  ASSUME fault \in Faults \cup {NoFault}, NEW call, NEW exists
  PROVE  Answer(call, exists, fault) \in Answers \ {"panic", "invalid", "generic", "again"}
  BY DEF Answer, Faults, NoFault, Statuses, Answers

LEMMA ReadsTyped ==
  ASSUME fault \in Faults \cup {NoFault}
  PROVE  /\ NetworkSpecError \in Answers \ {"panic"}
         /\ ReadsError \in Answers
         /\ \A call : \A sent \in BOOLEAN : SentAnswer(call, sent) \in Answers \ {"panic"}
         /\ \A sent \in BOOLEAN : VMSpecError(sent) \in Answers \ {"panic"}
         /\ GetVMError \in Answers \ {"panic"}
<1> DEFINE n == InterfaceSpec
<1> HIDE DEF n
<1>0. {"ok", "invalid", "generic", "panic"} \subseteq Answers
  BY DEF Answers
<1>1. \A call, exists : Answer(call, exists, fault) \in Answers
  BY AnswerTyped
<1>2. /\ GetSKU(input.azure, fault) \in Answers
      /\ GetPublicIP(n, fault) \in Answers
      /\ GetSubnet(scope.at, input.azure, fault) \in Answers
      /\ GetPublicLoadBalancer(n, input.azure, fault) \in Answers
      /\ GetInternalLoadBalancer(n, input.azure, fault) \in Answers
      /\ GetSecurityGroup(n, input.azure, fault) \in Answers
      /\ AppGroupsError(n, input.azure, fault) \in Answers
      /\ GetVMError \in Answers
  BY <1>0, <1>1 DEF GetSKU, GetPublicIP, GetSubnet, GetPublicLoadBalancer,
     GetInternalLoadBalancer, GetSecurityGroup, AppGroupsError, GetVMError
<1>3. NetworkSpecError \in Answers \ {"panic"}
  <2> DEFINE A == Answers \ {"panic"}
             vnet   == IF input.spec.vnet THEN "ok" ELSE "invalid"
             sku    == IF input.spec.accelerated THEN GetSKU(input.azure, fault) ELSE "ok"
             fast   == IF input.spec.accelerated /\ input.azure.sku # Nil
                          /\ ~input.azure.sku.accelerated THEN "invalid" ELSE "ok"
             subnet == IF input.spec.subnet THEN "ok" ELSE "invalid"
             name   == IF input.spec.publicIP
                          /\ Len(GenerateMachinePublicIPName) >= PublicIPLimit
                       THEN "invalid" ELSE "ok"
  <2>1. GetSKU(input.azure, fault) \in A
    BY AnswerTyped DEF GetSKU, Answers
  <2>2. vnet \in A /\ sku \in A /\ fast \in A /\ subnet \in A /\ name \in A /\ "ok" \in A
    BY <2>1 DEF Answers
  <2>3. NetworkSpecError = FirstError(<<vnet, sku, fast, subnet, name>>)
    BY DEF NetworkSpecError
  <2> HIDE DEF vnet, sku, fast, subnet, name
  <2>4. QED
    BY <2>2, <2>3, FirstErrorOf5
<1>4. InterfaceErrorAfterLB(n, input.azure, fault) \in Answers
  BY <1>0, <1>2, FirstErrorOf4 DEF InterfaceErrorAfterLB
<1>5. InterfaceError(n, scope.at, input.azure, fault) \in Answers
  BY <1>0, <1>2, FirstErrorOf5 DEF InterfaceError
<1>6. InterfaceErrorStackHub(n, scope.at, input.azure, fault) \in Answers
  BY <1>0, <1>2, FirstErrorOf3 DEF InterfaceErrorStackHub
<1>7. /\ GetVMError \in Answers \ {"panic"}
      /\ \A call : \A sent \in BOOLEAN : SentAnswer(call, sent) \in Answers \ {"panic"}
  BY AnswerTyped DEF GetVMError, SentAnswer, Answers
<1>8. ASSUME NEW sent \in BOOLEAN
      PROVE  VMSpecError(sent) \in Answers \ {"panic"}
  <2> DEFINE A == Answers \ {"panic"}
             diagnostics == IF createDiagnosticsConfigFails(input.spec.diagnostics)
                            THEN "invalid" ELSE "ok"
             reservation == IF validateAzureCapacityReservationGroupIDFails(input.spec.reservation)
                            THEN "generic" ELSE "ok"
             userData    == IF getCustomUserDataFails THEN "generic" ELSE "ok"
             interface   == SentAnswer("getInterface", sent)
             settings    == IF ~Stack /\ VMSpecInvalid(VMSpec) THEN "invalid" ELSE "ok"
  <2>1. /\ diagnostics \in A /\ reservation \in A
        /\ userData \in A /\ settings \in A /\ "ok" \in A
    BY DEF Answers
  <2>2. VMSpecError(sent) = FirstError(<<diagnostics, reservation, userData, interface, settings>>)
    BY DEF VMSpecError
  <2>3. interface \in A
    BY <1>7
  <2> HIDE DEF diagnostics, reservation, userData, interface, settings
  <2>4. QED
    BY <2>1, <2>2, <2>3, FirstErrorOf5
<1>9. ReadsError \in Answers
  BY <1>4, <1>5, <1>6 DEF ReadsError, n
<1>10. QED
  BY <1>3, <1>7, <1>8, <1>9

\* A scope that NewMachineScope returns has a place.
LEMMA ScopeTyped ==
  ASSUME Typed, NEW machine, MachineTyped(machine), ~ScopeFails(machine)
  PROVE  ScopeOf(machine).at \in Place
<1> DEFINE at == updateFromSecret(Config(machine), input.infra, secret)
<1>1. ScopeOf(machine).at = at
  BY DEF ScopeOf, NewMachineScope
<1>2. PlacementTyped(input)
  BY InputsAssumption DEF Typed
<1>3. /\ machine.group \in Text /\ machine.netGroup \in Text /\ machine.location \in Text
      /\ input.infra.group \in Text /\ input.infra.cloud \in Text
      /\ Nil \in Text
  BY <1>2 DEF MachineTyped, PlacementTyped, Text
<1>4. CASE ~input.spec.credentials
  <2>1. at = [subscription |-> Nil, group |-> machine.group, netGroup |-> machine.netGroup,
              location |-> machine.location, credential |-> Nil, cloud |-> Nil]
    BY <1>4 DEF updateFromSecret, Config
  <2>2. QED
    BY <1>1, <1>3, <2>1 DEF Place
<1>5. CASE input.spec.credentials
  <2> DEFINE group == Default(Value("group"), input.infra.group)
  <2>1. TextValued(secret) /\ TextValued(input.infra.environ)
    BY <1>2, <1>5
       DEF ScopeFails, NewMachineScopeFails, Config, UpdateFromSecretFails, Typed, PlacementTyped
  <2>2. \A key : Value(key) \in Text
    BY <1>3, <2>1 DEF TextValued, Value, getValueFromSecretOrEnvironment
  <2>3. getCloudConfig(input.infra) \in Text
    <3>1. "AzurePublicCloud" \in Text /\ "custom" \in Text
      BY LiteralsAssumption DEF Text
    <3>2. GetCloudEnvironment(input.infra) \in Text
      BY <1>3, <3>1 DEF GetCloudEnvironment
    <3>3. QED
      BY <3>1, <3>2 DEF getCloudConfig
  <2>4. \A x, y \in Text : Default(x, y) \in Text
    BY DEF Default
  <2>5. at = [subscription |-> Value("subscription"),
              group        |-> Default(machine.group, group),
              netGroup     |-> Default(machine.netGroup, group),
              location     |-> Default(machine.location, Value("region")),
              credential   |-> IF UsesWorkloadIdentity(input.infra, secret)
                               THEN "token" ELSE "clientSecret",
              cloud        |-> getCloudConfig(input.infra)]
    BY <1>5 DEF updateFromSecret, Config, Value, getInfraResourceGroup
  <2>6. (IF UsesWorkloadIdentity(input.infra, secret) THEN "token" ELSE "clientSecret") \in Text
    BY LiteralsAssumption DEF Text
  <2>7. /\ Default(machine.group, group) \in Text
        /\ Default(machine.netGroup, group) \in Text
        /\ Default(machine.location, Value("region")) \in Text
    BY <1>3, <2>2, <2>4
  <2> HIDE DEF group, at
  <2>8. at \in Place
    BY <2>2, <2>3, <2>5, <2>6, <2>7 DEF Place
  <2>9. QED
    BY <1>1, <2>8 DEF at
<1>6. QED
  BY <1>2, <1>4, <1>5 DEF PlacementTyped

LEMMA TypedInit == Init => Typed
<1> SUFFICES ASSUME Init
             PROVE  Typed
  OBVIOUS
<1>1. PlacementTyped(input)
  BY InputsAssumption DEF Init
<1>2. MachineTyped(Blank(input.spec))
  BY <1>1 DEF MachineTyped, Blank, PlacementTyped
<1>3. TypeOK
  <2>1. input.edits \in Nat /\ input.faults \in Nat
    BY <1>1 DEF PlacementTyped
  <2>2. edits \in 0..input.edits /\ faults \in 0..input.faults
    BY <2>1 DEF Init
  <2>3. scope.at = Nil /\ pc = "idle" /\ answer = "ok" /\ fault = NoFault /\ cloud = {}
    BY DEF Init, NoScope
  <2>4. moved \in BOOLEAN
    BY DEF Init
  <2>5. QED
    BY <2>2, <2>3, <2>4 DEF TypeOK, Labels, Answers
<1>4. secret = Nil \/ TextValued(secret)
  <2>1. 1 \in DOMAIN input.secrets /\ secret = input.secrets[1]
    BY <1>1 DEF Init, PlacementTyped
  <2>2. \A n \in DOMAIN input.secrets :
          input.secrets[n] = Nil \/ TextValued(input.secrets[n])
    BY <1>1 DEF PlacementTyped
  <2>3. QED
    BY <2>1, <2>2, Zenon
<1>5. scope.at = Nil /\ input \in Inputs
  BY DEF Init, NoScope
<1>6. MachineTyped(api) /\ MachineTyped(cache) /\ MachineTyped(copy)
  BY <1>2 DEF Init
<1>7. QED
  BY <1>3, <1>4, <1>5, <1>6 DEF Typed

\* A scope is gone as soon as the attempt is.
NoPlace == {"idle", "failed", "update", "create"}

\* A step of CreateMachine.
LEMMA TypedStep ==
  ASSUME Typed, NEW label \in AtWork, NEW a \in Answers, NEW next \in AtWork,
         Step(label, a, next),
         scope'.at = IF a = "panic" THEN Nil ELSE scope.at,
         \A r \in cloud' : r \in cloud \/ r.kind \in {"pip", "nic", "set", "vm"}
  PROVE  Typed'
<1>1. /\ pc' \in Labels /\ answer' \in Answers
      /\ IF a = "panic" THEN pc' = "idle" ELSE pc' \in AtWork
  BY DEF Step, Ends, Typed, TypeOK, AtWork, Creating, Labels, Answers
<1>2. (scope.at = Nil <=> pc \in NoPlace)' 
  BY <1>1 DEF Typed, TypeOK, Step, AtWork, Creating, NoPlace
<1>3. QED
  BY <1>1, <1>2 DEF Typed, TypeOK, Step, NoPlace, TextValued, MachineTyped

LEMMA TypedPut ==
  ASSUME Typed, NEW label \in AtWork, NEW kind \in {"pip", "nic", "set"}, NEW request,
         NEW next \in AtWork, PutStep(label, kind, request, next)
  PROVE  Typed'
<1>1. Answer(kind, TRUE, fault) \in Answers \ {"panic"}
  BY AnswerTyped DEF Typed, TypeOK
<1>2. \A r \in cloud' : r \in cloud \/ r.kind \in {"pip", "nic", "set", "vm"}
  BY PutPlaces DEF PutStep
<1>3. QED
  BY <1>1, <1>2, TypedStep DEF PutStep

\* What is left of the two bounds.
LEMMA Spent ==
  ASSUME Typed, input' = input
  PROVE  /\ faults' = faults \/ (faults > 0 /\ faults' = faults - 1)
              => faults' \in 0..input'.faults
         /\ edits > 0 /\ edits' = edits - 1 => edits' \in 0..input'.edits
<1>1. input.edits \in Nat /\ input.faults \in Nat
  BY InputsAssumption DEF Typed, PlacementTyped
<1>2. QED
  BY <1>1 DEF Typed, TypeOK

LEMMA TypedScoped ==
  ASSUME Typed, UpdateScope \/ CreateScope
  PROVE  Typed'
<1>1. CASE UpdateScope /\ ScopeFails(copy)
  BY <1>1 DEF UpdateScope, Typed, TypeOK, Labels, TextValued, MachineTyped
<1>2. CASE ~ScopeFails(copy)
  <2>1. scope' = ScopeOf(copy) /\ scope'.at \in Place /\ scope'.at # Nil
    BY <1>2, ScopeTyped, NilAssumption DEF UpdateScope, CreateScope, Typed
  <2>2. pc' \in {"refresh", "network"} /\ answer' = answer
    BY <1>2 DEF UpdateScope, CreateScope
  <2>3. fault' \in Faults \cup {NoFault} /\ faults' \in 0..input'.faults
    BY <1>2, Spent DEF UpdateScope, CreateScope, Typed, TypeOK
  <2>4. /\ UNCHANGED <<input, secret, api, cache, copy, cloud, moved, edits>>
    BY DEF UpdateScope, CreateScope
  <2>5. QED
    BY <2>1, <2>2, <2>3, <2>4 DEF Typed, TypeOK, Labels, TextValued, MachineTyped
<1>3. QED
  BY <1>1, <1>2 DEF CreateScope

LEMMA TypedPersist == Typed /\ Persist => Typed'
<1> SUFFICES ASSUME Typed, Persist
             PROVE  Typed'
  OBVIOUS
<1>1. scope.at \in Place
  BY DEF Typed, TypeOK, Persist
<1>2. MachineTyped(Persisted)
  BY <1>1 DEF Persisted, Typed, MachineTyped, Place
<1>3. MachineTyped(api)'
  BY <1>2 DEF Persist, Typed, MachineTyped
<1>4. scope'.at = Nil /\ pc' \in {"failed", "idle"}
  BY DEF Persist, NoScope
<1>5. faults' \in 0..input'.faults
  BY Spent DEF Persist
<1>6. QED
  BY <1>3, <1>4, <1>5 DEF Persist, Typed, TypeOK, Labels, TextValued, MachineTyped

LEMMA TypedEditSecret == Typed /\ EditSecret => Typed'
<1> SUFFICES ASSUME Typed, EditSecret
             PROVE  Typed'
  OBVIOUS
<1>1. PlacementTyped(input)
  BY InputsAssumption DEF Typed
<1>2. secret' = Nil \/ TextValued(secret')
  BY <1>1 DEF EditSecret, PlacementTyped
<1>3. edits' \in 0..input'.edits /\ moved' \in BOOLEAN
  BY Spent DEF EditSecret, Typed, TypeOK
<1>4. QED
  BY <1>2, <1>3 DEF EditSecret, Typed, TypeOK, Labels, TextValued, MachineTyped

LEMMA TypedVM == Typed /\ createVirtualMachine => Typed'
<1> SUFFICES ASSUME Typed, createVirtualMachine
             PROVE  Typed'
  OBVIOUS
<1>1. fault.call # "none" => fault.answer \in Statuses
  BY DEF Typed, TypeOK, Faults, NoFault
<1>2. PICK a \in Answers \ {"panic"} : Step("vm", a, "refresh")
  BY <1>1, VMStep, ReadsTyped DEF Typed, TypeOK, Answers, Statuses
<1>3. \A r \in cloud' : r \in cloud \/ r.kind \in {"pip", "nic", "set", "vm"}
  BY VMStep, PutPlaces
<1>4. QED
  BY <1>2, <1>3, VMStep, TypedStep DEF AtWork, Creating

LEMMA TypedUpdate == Typed /\ Update => Typed'
<1> SUFFICES ASSUME Typed, Update
             PROVE  Typed'
  OBVIOUS
<1>1. scope'.at = scope.at /\ pc = "refresh" /\ pc' = "persist" /\ answer' \in Answers
  BY DEF Update, Ends, Answers
<1>2. QED
  BY <1>1 DEF Update, Typed, TypeOK, Labels, TextValued, MachineTyped

LEMMA TypedOthers ==
  ASSUME Typed, Exists \/ CreateScopeFails \/ CacheSync \/ Crash \/ UNCHANGED vars
  PROVE  Typed'
<1>1. CASE Exists
  BY <1>1 DEF Exists, Typed, TypeOK, Labels, Answers, TextValued, MachineTyped
<1>2. CASE CreateScopeFails
  BY <1>2, Spent DEF CreateScopeFails, Typed, TypeOK, Labels, TextValued, MachineTyped
<1>3. CASE CacheSync
  BY <1>3 DEF CacheSync, Typed, TypeOK, Labels, TextValued, MachineTyped
<1>4. CASE Crash
  BY <1>4, Spent DEF Crash, NoScope, Typed, TypeOK, Labels, TextValued, MachineTyped
<1>5. CASE UNCHANGED vars
  BY <1>5 DEF vars, Typed, TypeOK, Labels, TextValued, MachineTyped
<1>6. QED
  BY <1>1, <1>2, <1>3, <1>4, <1>5

LEMMA TypedNext == Typed /\ [Next]_vars => Typed'
<1> SUFFICES ASSUME Typed, [Next]_vars
             PROVE  Typed'
  OBVIOUS
<1>1. NetworkSpecError \in Answers \ {"panic"} /\ ReadsError \in Answers
  BY ReadsTyped DEF Typed, TypeOK
<1>2. CASE createNetworkInterface
  BY <1>1, <1>2, TypedStep DEF createNetworkInterface, AtWork, Creating
<1>3. CASE CreatePublicIP
  BY <1>3, TypedPut DEF CreatePublicIP, AtWork, Creating
<1>4. CASE ReadForInterface
  BY <1>1, <1>4, TypedStep DEF ReadForInterface, NoScope, AtWork, Creating
<1>5. CASE CreateInterface
  BY <1>5, TypedPut DEF CreateInterface, AtWork, Creating
<1>6. CASE InterfaceRefused
  BY <1>6, TypedStep DEF InterfaceRefused, AtWork, Creating, Answers
<1>7. CASE GetZonesStep
  <2>1. Answer("zones", TRUE, fault) \in Answers \ {"panic"}
    BY AnswerTyped DEF Typed, TypeOK
  <2>2. QED
    BY <1>7, <2>1, TypedStep DEF GetZonesStep, AtWork, Creating, Answers
<1>8. CASE CreateAvailabilitySet
  BY <1>8, TypedPut DEF CreateAvailabilitySet, AtWork, Creating
<1>9. CASE getMaximumFaultDomainCount
  <2> DEFINE listing == Answer("sku", TRUE, fault)
             aligned == IF input.azure.aligned THEN "ok" ELSE "generic"
  <2>1. listing \in Answers \ {"panic"} /\ aligned \in Answers \ {"panic"}
        /\ "ok" \in Answers \ {"panic"}
    BY AnswerTyped DEF Typed, TypeOK, Answers
  <2>2. Step("domains", FirstError(<<listing, aligned>>), "putSet") /\ UNCHANGED <<scope, cloud>>
    BY <1>9 DEF getMaximumFaultDomainCount
  <2> HIDE DEF listing, aligned
  <2>3. FirstError(<<listing, aligned>>) \in Answers \ {"panic"}
    BY <2>1, FirstErrorOf2
  <2>4. QED
    BY <2>2, <2>3, TypedStep DEF AtWork, Creating
<1>10. QED
  BY <1>2, <1>3, <1>4, <1>5, <1>6, <1>7, <1>8, <1>9, TypedOthers, TypedScoped, TypedVM,
     TypedUpdate, TypedPersist, TypedEditSecret DEF Next

(***************************************************************************)
(* Types of the creation, and that a scope exists exactly while an         *)
(* actuator call runs, panics and crashes included.                        *)
(***************************************************************************)
THEOREM CreationTypeCorrect == Spec => []TypeOK
<1>1. Typed => TypeOK
  BY DEF Typed
<1>2. QED
  BY <1>1, TypedInit, TypedNext, PTL DEF Spec

-----------------------------------------------------------------------------
(***************************************************************************)
(* The internal load balancer.  A machine has that of its spec until it    *)
(* has a providerID, and CreateMachine runs only for a machine without     *)
(* one, so that the interface is put with that of the spec.                *)
(***************************************************************************)
SpecLB ==
  /\ \A machine \in {api, cache, copy} : machine.lb # input.spec.internalLB => machine.pid
  /\ cache.pid \/ copy.pid => api.pid
  /\ pc \in Creating \cup {"create"} => ~copy.pid
  /\ pc \in Creating \cup {"refresh"} => scope.lb = copy.lb
  /\ pc = "persist" => scope.lb = copy.lb \/ answer = "ok"

LEMMA SpecLBInit == Init => SpecLB
  BY DEF Init, Blank, SpecLB, Creating

LEMMA SpecLBStep ==
  ASSUME SpecLB, NEW label \in Creating, NEW a, NEW next \in Creating \cup {"refresh"},
         Step(label, a, next), scope'.lb = scope.lb \/ a = "panic"
  PROVE  SpecLB'
  BY DEF Step, Ends, SpecLB, Creating

LEMMA SpecLBNext == SpecLB /\ [Next]_vars => SpecLB'
<1> SUFFICES ASSUME SpecLB, [Next]_vars
             PROVE  SpecLB'
  OBVIOUS
<1>1. CASE Exists \/ CreateScopeFails \/ CacheSync \/ Crash \/ EditSecret \/ UNCHANGED vars
  BY <1>1 DEF Exists, CreateScopeFails, CacheSync, Crash, EditSecret, vars, SpecLB, Creating
<1>2. CASE UpdateScope \/ CreateScope
  BY <1>2, ScopeBuilt DEF UpdateScope, CreateScope, SpecLB, Creating
<1>3. CASE createNetworkInterface \/ InterfaceRefused \/ getMaximumFaultDomainCount
  BY <1>3, SpecLBStep
  DEF createNetworkInterface, InterfaceRefused, getMaximumFaultDomainCount, Creating
<1>4. CASE CreatePublicIP \/ CreateInterface \/ CreateAvailabilitySet
  BY <1>4, SpecLBStep
  DEF CreatePublicIP, CreateInterface, CreateAvailabilitySet, PutStep, Creating
<1>5. CASE ReadForInterface
  <2>1. scope'.lb = scope.lb \/ ReadsError = "panic"
    BY <1>5 DEF ReadForInterface
  <2>2. QED
    BY <1>5, <2>1, SpecLBStep DEF ReadForInterface, Creating
<1>6. CASE GetZonesStep
  BY <1>6, SpecLBStep DEF GetZonesStep, Creating
<1>7. CASE createVirtualMachine
  <2>1. PICK a : Step("vm", a, "refresh")
    BY <1>7, VMStep
  <2>2. QED
    BY <1>7, <2>1, VMStep, SpecLBStep DEF Creating
<1>8. CASE Update
  BY <1>8 DEF Update, Ends, SpecLB, Creating
<1>9. CASE Persist
  <2>1. /\ UNCHANGED <<input, cache, copy>> /\ pc = "persist" /\ pc' \in {"idle", "failed"}
        /\ api' = Persisted \/ api' = api
    BY <1>9 DEF Persist
  <2>2. /\ Persisted.lb = IF scope.lb # copy.lb THEN scope.lb ELSE api.lb
        /\ Persisted.pid = (api.pid \/ answer = "ok")
    BY DEF Persisted
  <2>3. api.pid => api'.pid
    BY <2>1, <2>2
  <2>4. api'.lb # input.spec.internalLB => api'.pid
    BY <2>1, <2>2 DEF SpecLB
  <2>5. QED
    BY <2>1, <2>3, <2>4 DEF SpecLB, Creating
<1>10. QED
  BY <1>1, <1>2, <1>3, <1>4, <1>5, <1>6, <1>7, <1>8, <1>9 DEF Next

-----------------------------------------------------------------------------
(***************************************************************************)
(* Requests.  What the steps before a request make sure of.                *)
(***************************************************************************)
SpecTags == getTagList(input.infra.tags, input.spec.tags)

LoadBalancers == {input.spec.publicLB, input.spec.internalLB} \ {Nil}

Prepared ==
  /\ pc \in AtWork =>
       scope.tags = SpecTags /\ ~GetTagListFails(input.infra.tags, input.spec.tags)
  /\ pc \in {"create", "update"} => ~GetTagListFails(input.infra.tags, input.spec.tags)
  /\ pc = "nic" => LoadBalancers \subseteq DOMAIN input.azure.lbs
  /\ pc \in {"domains", "putSet"} =>
       /\ input.spec.availabilitySet = Nil
       /\ input.labels.set # Nil /\ scope.set = getAvailabilitySetName(input.labels)

\* A VM is put only if its settings were found valid.
LEMMA VMChecked ==
  ASSUME Typed, NEW sent \in BOOLEAN, VMSpecError(sent) = "ok"
  PROVE  Stack \/ ~VMSpecInvalid(VMSpec)
<1> DEFINE diagnostics == IF createDiagnosticsConfigFails(input.spec.diagnostics)
                          THEN "invalid" ELSE "ok"
           reservation == IF validateAzureCapacityReservationGroupIDFails(input.spec.reservation)
                          THEN "generic" ELSE "ok"
           userData    == IF getCustomUserDataFails THEN "generic" ELSE "ok"
           interface   == SentAnswer("getInterface", sent)
           settings    == IF ~Stack /\ VMSpecInvalid(VMSpec) THEN "invalid" ELSE "ok"
<1>1. /\ diagnostics \in Answers /\ reservation \in Answers
      /\ userData \in Answers /\ settings \in Answers
  BY DEF Answers
<1>2. interface \in Answers
  BY ReadsTyped DEF Typed, TypeOK
<1>3. FirstError(<<diagnostics, reservation, userData, interface, settings>>) = "ok"
  BY DEF VMSpecError
<1> HIDE DEF diagnostics, reservation, userData, interface, settings
<1>4. settings = "ok"
  BY <1>1, <1>2, <1>3, FirstErrorOf5
<1>5. QED
  BY <1>4 DEF settings

\* An interface is put only if the load balancers of its spec were found.
LEMMA ReadsChecked ==
  ASSUME Typed, ReadsError = "ok", scope.lb = input.spec.internalLB
  PROVE  LoadBalancers \subseteq DOMAIN input.azure.lbs
<1> DEFINE n == InterfaceSpec
           balancer == GetPublicLoadBalancer(n, input.azure, fault)
           internal == GetInternalLoadBalancer(n, input.azure, fault)
<1>1. n.publicLB = input.spec.publicLB /\ n.internalLB = input.spec.internalLB
  BY DEF InterfaceSpec
<1>2. fault.call = "none" \/ fault.answer # "ok"
  BY DEF Typed, TypeOK, Faults, NoFault, Statuses
<1> HIDE DEF n
<1>3. balancer = "ok" /\ internal = "ok" => LoadBalancers \subseteq DOMAIN input.azure.lbs
  BY <1>1, <1>2 DEF GetPublicLoadBalancer, GetInternalLoadBalancer, Answer, LoadBalancers
<1>4. /\ IF Stack THEN InterfaceErrorStackHub(n, scope.at, input.azure, fault) = "ok"
         ELSE InterfaceError(n, scope.at, input.azure, fault) = "ok"
      /\ InterfaceErrorAfterLB(n, input.azure, fault) = "ok"
  BY DEF ReadsError, n
<1>5. {"ok", "invalid", "generic", "panic"} \subseteq Answers
  BY DEF Answers
<1>6. \A call, exists : Answer(call, exists, fault) \in Answers
  BY AnswerTyped DEF Typed, TypeOK
<1>7. /\ GetSKU(input.azure, fault) \in Answers
      /\ GetPublicIP(n, fault) \in Answers
      /\ GetSubnet(scope.at, input.azure, fault) \in Answers
      /\ balancer \in Answers
      /\ internal \in Answers
      /\ GetSecurityGroup(n, input.azure, fault) \in Answers
      /\ AppGroupsError(n, input.azure, fault) \in Answers
  BY <1>5, <1>6 DEF GetSKU, GetPublicIP, GetSubnet, GetPublicLoadBalancer,
     GetInternalLoadBalancer, GetSecurityGroup, AppGroupsError
<1> HIDE DEF balancer, internal
<1>8. internal = "ok"
  BY <1>4, <1>5, <1>7, FirstErrorOf4 DEF InterfaceErrorAfterLB, internal
<1>9. balancer = "ok"
  <2>1. CASE Stack
    BY <1>4, <1>7, <2>1, FirstErrorOf3 DEF InterfaceErrorStackHub, balancer
  <2>2. CASE ~Stack
    BY <1>4, <1>5, <1>7, <2>2, FirstErrorOf5 DEF InterfaceError, balancer
  <2>3. QED
    BY <2>1, <2>2
<1>10. QED
  BY <1>3, <1>8, <1>9

LEMMA PreparedInit == Init => Prepared
  BY DEF Init, Prepared, AtWork, Creating

LEMMA PreparedNext == Typed /\ SpecLB /\ Prepared /\ [Next]_vars => Prepared'
<1> SUFFICES ASSUME Typed, SpecLB, Prepared, [Next]_vars
             PROVE  Prepared'
  OBVIOUS
<1> USE DEF Prepared, AtWork, Creating, SpecTags, LoadBalancers
<1>1. CASE Exists
  BY <1>1 DEF Exists, ScopeFails, NewMachineScopeFails, Config, getInfraResourceTags
<1>2. CASE UpdateScope
  BY <1>2, ScopeBuilt DEF UpdateScope
<1>3. CASE CreateScopeFails
  BY <1>3 DEF CreateScopeFails
<1>4. CASE CreateScope
  BY <1>4, ScopeBuilt DEF CreateScope
<1>5. CASE createNetworkInterface
  BY <1>5 DEF createNetworkInterface, Step, Ends
<1>6. CASE CreatePublicIP
  BY <1>6 DEF CreatePublicIP, PutStep, Step, Ends
<1>7. CASE ReadForInterface
  <2>1. scope.lb = input.spec.internalLB
    BY <1>7 DEF ReadForInterface, Step, SpecLB
  <2>2. QED
    BY <1>7, <2>1, ReadsChecked DEF ReadForInterface, Step, Ends
<1>8. CASE CreateInterface \/ InterfaceRefused
  BY <1>8 DEF CreateInterface, InterfaceRefused, PutStep, Step, Ends
<1>9. CASE GetZonesStep
  BY <1>9 DEF GetZonesStep, NeedsSet, Step, Ends
<1>10. CASE getMaximumFaultDomainCount
  BY <1>10 DEF getMaximumFaultDomainCount, Step, Ends
<1>11. CASE CreateAvailabilitySet
  BY <1>11 DEF CreateAvailabilitySet, PutStep, Step, Ends
<1>12. CASE createVirtualMachine
  <2>1. PICK a : Step("vm", a, "refresh") /\ UNCHANGED scope
    BY <1>12, VMStep
  <2>2. QED
    BY <2>1 DEF Step, Ends
<1>13. CASE Update
  BY <1>13 DEF Update, Ends
<1>14. CASE Persist \/ CacheSync \/ Crash \/ EditSecret \/ UNCHANGED vars
  BY <1>14 DEF Persist, CacheSync, Crash, EditSecret, vars
<1>15. QED
  BY <1>1, <1>2, <1>3, <1>4, <1>5, <1>6, <1>7, <1>8, <1>9, <1>10, <1>11, <1>12, <1>13, <1>14
     DEF Next

\* What a request of each kind says, in the state in which it is sent.
Sent(kind, request) ==
  \/ /\ kind = "pip" /\ pc = "pip"
     /\ request = [location |-> scope.at.location, tags |-> IF Stack THEN Nil ELSE scope.tags]
  \/ /\ kind = "nic" /\ pc = "nic"
     /\ request = NICRequest
  \/ /\ kind = "set" /\ pc = "putSet"
     /\ request = [name |-> scope.set, tags |-> scope.tags]
  \/ /\ kind = "vm" /\ pc = "vm" /\ \E sent \in BOOLEAN : VMSpecError(sent) = "ok"
     /\ request = VMRequest

\* What is asked for, and what there is in Azure, do not change.
LEMMA InputFixed == [Next]_vars => input' = input
  BY VMStep
  DEF Next, vars, Exists, UpdateScope, CreateScopeFails, CreateScope, createNetworkInterface,
      CreatePublicIP, ReadForInterface, CreateInterface, InterfaceRefused, GetZonesStep,
      getMaximumFaultDomainCount, CreateAvailabilitySet, Update, Persist, CacheSync, Crash,
      EditSecret, PutStep, Step

\* Azure has no request but those that were sent.
LEMMA RequestsGrow ==
  ASSUME [Next]_vars, NEW kind, NEW request \in Requests(kind)'
  PROVE  (request \in Requests(kind) \/ Sent(kind, request)) /\ input' = input
<1>1. input' = input
  BY InputFixed
<1>2. PICK r \in cloud' : r.kind = kind /\ r.request = request
  BY DEF Requests
<1>3. r \in cloud => request \in Requests(kind)
  BY <1>2 DEF Requests
<1>4. CASE UNCHANGED cloud
  BY <1>1, <1>2, <1>3, <1>4
<1>5. CASE CreatePublicIP
  BY <1>1, <1>2, <1>3, <1>5, PutPlaces DEF CreatePublicIP, PutStep, Step, Sent
<1>6. CASE CreateInterface
  BY <1>1, <1>2, <1>3, <1>6, PutPlaces DEF CreateInterface, PutStep, Step, Sent
<1>7. CASE CreateAvailabilitySet
  BY <1>1, <1>2, <1>3, <1>7, PutPlaces DEF CreateAvailabilitySet, PutStep, Step, Sent
<1>8. CASE createVirtualMachine
  <2>1. CASE cloud' \subseteq cloud
    BY <1>1, <1>2, <1>3, <2>1
  <2>2. CASE ~(cloud' \subseteq cloud)
    <3>1. /\ cloud' = Put("vm", VMRequest) /\ pc = "vm"
          /\ \E sent \in BOOLEAN : VMSpecError(sent) = "ok"
      BY <1>8, <2>2, VMStep DEF Step
    <3>2. QED
      BY <1>1, <1>2, <1>3, <3>1, PutPlaces DEF Sent
  <2>3. QED
    BY <2>1, <2>2
<1>9. QED
  BY <1>4, <1>5, <1>6, <1>7, <1>8
     DEF Next, vars, Exists, UpdateScope, CreateScopeFails, CreateScope, createNetworkInterface,
         ReadForInterface, InterfaceRefused, GetZonesStep, getMaximumFaultDomainCount, Update,
         Persist, CacheSync, Crash, EditSecret

\* A sequence of disks that passed the checks of generateDataDisks.
LEMMA DisksChecked ==
  ASSUME NEW disks \in Seq(DataDisk), ~DataDisksInvalid(disks)
  PROVE  Distinct(generateDataDisks(disks))
<1>1. DOMAIN generateDataDisks(disks) = DOMAIN disks
  BY DEF generateDataDisks
<1>2. \A i \in DOMAIN disks : /\ generateDataDisks(disks)[i].lun = disks[i].lun
                              /\ generateDataDisks(disks)[i].name = disks[i].suffix
  BY DEF generateDataDisks
<1>3. \A i \in DOMAIN disks : i \in Nat \ {0} /\ disks[i].lun \in Int
  <2>1. \A i \in DOMAIN disks : i \in Nat \ {0} /\ disks[i] \in DataDisk
    OBVIOUS
  <2>2. \A d \in DataDisk : d.lun \in Int
    BY DEF DataDisk
  <2>3. QED
    BY <2>1, <2>2
<1>4. \A i \in DOMAIN disks : disks[i].lun \in 0..63
  <2>1. \A i \in DOMAIN disks : ~(disks[i].lun < 0) /\ ~(disks[i].lun > 63)
    BY DEF DataDisksInvalid
  <2>2. \A x \in Int : ~(x < 0) /\ ~(x > 63) => x \in 0..63
    OBVIOUS
  <2>3. QED
    BY <1>3, <2>1, <2>2
<1>5. \A i, j \in DOMAIN disks :
        j < i => disks[i].lun # disks[j].lun /\ disks[i].suffix # disks[j].suffix
  BY <1>3 DEF DataDisksInvalid
<1>6. \A i, j \in DOMAIN disks : i # j => i < j \/ j < i
  BY <1>3
<1>7. \A i, j \in DOMAIN disks :
        i # j => disks[i].lun # disks[j].lun /\ disks[i].suffix # disks[j].suffix
  BY <1>5, <1>6
<1> DEFINE made == generateDataDisks(disks)
<1> HIDE DEF made
<1>8. /\ DOMAIN made = DOMAIN disks
      /\ \A i \in DOMAIN disks : made[i].lun = disks[i].lun /\ made[i].name = disks[i].suffix
  BY <1>1, <1>2 DEF made
<1>9. Distinct(made)
  <2>1. ASSUME NEW i \in DOMAIN made, NEW j \in DOMAIN made, i # j
        PROVE  made[i].lun # made[j].lun /\ made[i].name # made[j].name
    BY <1>7, <1>8, <2>1
  <2>2. ASSUME NEW i \in DOMAIN made
        PROVE  made[i].lun \in 0..63
    BY <1>4, <1>8
  <2>3. QED
    BY <2>1, <2>2 DEF Distinct
<1>10. QED
  BY <1>9 DEF made

LEMMA DisksSent ==
  ASSUME Typed, NEW request, Sent("vm", request)
  PROVE  Distinct(request.dataDisks)
<1>1. CASE Stack
  <2>1. request.dataDisks = << >>
    BY <1>1 DEF Sent, VMRequest, deriveVirtualMachineParametersStackHub
  <2>2. QED
    BY <2>1 DEF Distinct
<1>2. CASE ~Stack
  <2>1. input.spec.dataDisks \in Seq(DataDisk)
    BY InputsAssumption DEF Typed, SpecTyped
  <2>2. ~DataDisksInvalid(input.spec.dataDisks)
    BY <1>2, VMChecked DEF Sent, VMSpecInvalid, VMSpec
  <2>3. request.dataDisks = generateDataDisks(input.spec.dataDisks)
    BY <1>2 DEF Sent, VMRequest, deriveVirtualMachineParameters, VMSpec
  <2>4. QED
    BY <2>1, <2>2, <2>3, DisksChecked
<1>3. QED
  BY <1>1, <1>2

\* How often a pool is in the list made of two lists.
LEMMA JoinedTwice ==
  ASSUME NEW P, NEW Q, NEW pool
  PROVE  Joins(pool, SetToBag(P) (+) SetToBag(Q)) =
           IF pool \in P THEN IF pool \in Q THEN 2 ELSE 1
           ELSE IF pool \in Q THEN 1 ELSE 0
  BY DEF Joins, BagIn, BagToSet, SetToBag, (+)

\* The pools of a load balancer that exists, for an IP family or for both.
LEMMA PoolsPaired ==
  ASSUME Typed, scope.lb = input.spec.internalLB,
         NEW lb \in LoadBalancers, lb \in DOMAIN input.azure.lbs,
         NEW i \in DOMAIN input.azure.lbs[lb].frontends, NEW families
  PROVE  Joins(<<lb, i>>, JoinedPools(InterfaceSpec, input.azure, families)) =
           IF /\ ~(i > input.azure.lbs[lb].backends)
              /\ input.azure.lbs[lb].frontends[i] \in families
           THEN IF input.spec.publicLB = input.spec.internalLB THEN 2 ELSE 1
           ELSE 0
<1> DEFINE balancer == input.azure.lbs[lb]
<1>1. balancer \in [frontends : Seq(Families), backends : Nat, natRules : Nat,
                     private : BOOLEAN]
  BY InputsAssumption DEF Typed, AzureTyped
<1>2. i \in Nat /\ balancer.backends \in Nat
  BY <1>1
<1>3. /\ InterfaceSpec.publicLB = input.spec.publicLB
      /\ InterfaceSpec.internalLB = input.spec.internalLB
  BY DEF InterfaceSpec
<1>4. \A name, j : <<lb, i>> = <<name, j>> <=> lb = name /\ i = j
  OBVIOUS
<1>5. \A name : <<lb, i>> \in Pools(input.azure, name, families) <=>
          /\ name = lb /\ name # Nil
          /\ i <= balancer.backends /\ balancer.frontends[i] \in families
  BY <1>4 DEF Pools, Paired
<1>6. (lb = input.spec.publicLB \/ lb = input.spec.internalLB) /\ lb # Nil
  BY DEF LoadBalancers
<1>7. Joins(<<lb, i>>, JoinedPools(InterfaceSpec, input.azure, families)) =
        IF i <= balancer.backends /\ balancer.frontends[i] \in families
        THEN IF input.spec.publicLB = input.spec.internalLB THEN 2 ELSE 1
        ELSE 0
  BY <1>3, <1>5, <1>6, JoinedTwice DEF JoinedPools
<1>8. QED
  BY <1>2, <1>7

LEMMA PoolsSent ==
  ASSUME Typed, SpecLB, Prepared, NEW request, Sent("nic", request)
  PROVE  Joined(request)
<1> DEFINE joined(families) == JoinedPools(InterfaceSpec, input.azure, families)
<1>1. LoadBalancers \subseteq DOMAIN input.azure.lbs /\ scope.lb = input.spec.internalLB
  BY DEF Prepared, Sent, SpecLB, Creating
<1>2. Stack => /\ request.v4.pools = joined(Families)
               /\ request.v6 = Nil \/ request.v6.pools = EmptyBag
  BY DEF Sent, NICRequest, InterfaceRequestStackHub
<1>3. ~Stack => /\ request.v4.pools = joined({"v4"})
                /\ request.v6 = Nil \/ request.v6.pools = joined({"v6"})
  BY DEF Sent, NICRequest, InterfaceRequest
<1> DEFINE once == IF input.spec.publicLB = input.spec.internalLB THEN 2 ELSE 1
<1>4. SUFFICES ASSUME NEW lb \in LoadBalancers,
                      NEW i \in DOMAIN input.azure.lbs[lb].frontends
               PROVE  LET family == input.azure.lbs[lb].frontends[i]
                          joins4 == Joins(<<lb, i>>, request.v4.pools)
                          joins6 == IF request.v6 = Nil THEN 0
                                    ELSE Joins(<<lb, i>>, request.v6.pools)
                      IN CASE i > input.azure.lbs[lb].backends -> joins4 = 0 /\ joins6 = 0
                           [] Stack /\ i <= input.azure.lbs[lb].backends ->
                                joins4 = once /\ joins6 = 0
                           [] OTHER ->
                                /\ joins4 = IF family = "v4" THEN once ELSE 0
                                /\ joins6 = IF family = "v6" /\ request.v6 # Nil THEN once ELSE 0
  BY DEF Joined, LoadBalancers
<1> DEFINE balancer == input.azure.lbs[lb]
<1>5. /\ i \in Nat /\ balancer.backends \in Nat
      /\ balancer.frontends[i] \in Families
  <2>1. balancer \in [frontends : Seq(Families), backends : Nat, natRules : Nat,
                      private : BOOLEAN]
    BY <1>1, InputsAssumption DEF Typed, AzureTyped
  <2>2. QED
    BY <2>1
<1>6. \A families : Joins(<<lb, i>>, joined(families)) =
        IF ~(i > balancer.backends) /\ balancer.frontends[i] \in families THEN once ELSE 0
  BY <1>1, PoolsPaired
<1>7. Joins(<<lb, i>>, EmptyBag) = 0
  BY DEF Joins, BagIn, BagToSet, EmptyBag, SetToBag
<1> HIDE DEF joined, balancer, once
<1>8. CASE Stack
  BY <1>2, <1>5, <1>6, <1>7, <1>8 DEF balancer
<1>9. CASE ~Stack
  BY <1>3, <1>5, <1>6, <1>9 DEF balancer, Families
<1>10. QED
  BY <1>8, <1>9

\* The interface joins no pools but those of the load balancers of its spec.
OwnPools(request) ==
  \A pools \in {request.v4.pools} \cup (IF request.v6 = Nil THEN {} ELSE {request.v6.pools}) :
    \A pool \in BagToSet(pools) : pool[1] \in LoadBalancers

LEMMA OwnPoolsSent ==
  ASSUME SpecLB, NEW request, Sent("nic", request)
  PROVE  OwnPools(request)
<1>1. /\ InterfaceSpec.publicLB = input.spec.publicLB
      /\ InterfaceSpec.internalLB = input.spec.internalLB
  BY DEF InterfaceSpec, SpecLB, Sent, Creating
<1>2. ASSUME NEW families, NEW pool \in BagToSet(JoinedPools(InterfaceSpec, input.azure, families))
      PROVE  pool[1] \in LoadBalancers
  <2>1. PICK name \in {input.spec.publicLB, input.spec.internalLB} :
          pool \in Pools(input.azure, name, families)
    BY <1>1, <1>2 DEF JoinedPools, BagToSet, SetToBag, (+)
  <2>2. name # Nil /\ \E i : pool = <<name, i>>
    BY <2>1 DEF Pools
  <2>3. QED
    BY <2>2 DEF LoadBalancers
<1>3. BagToSet(EmptyBag) = {}
  BY DEF BagToSet, EmptyBag, SetToBag
<1>4. CASE Stack
  <2>1. /\ request.v4.pools = JoinedPools(InterfaceSpec, input.azure, Families)
        /\ request.v6 = Nil \/ request.v6.pools = EmptyBag
    BY <1>4 DEF Sent, NICRequest, InterfaceRequestStackHub
  <2>2. QED
    BY <1>2, <1>3, <2>1 DEF OwnPools
<1>5. CASE ~Stack
  <2>1. /\ request.v4.pools = JoinedPools(InterfaceSpec, input.azure, {"v4"})
        /\ request.v6 = Nil \/ request.v6.pools = JoinedPools(InterfaceSpec, input.azure, {"v6"})
    BY <1>5 DEF Sent, NICRequest, InterfaceRequest
  <2>2. QED
    BY <1>2, <2>1 DEF OwnPools
<1>6. QED
  BY <1>4, <1>5

\* What getTagList returns if it does not fail.
LEMMA TagsChecked ==
  ASSUME Typed, ~GetTagListFails(input.infra.tags, input.spec.tags)
  PROVE  Tagged(SpecTags)
<1> DEFINE none   == [k \in {} |-> Nil]
           infra  == Default(input.infra.tags, none)
           spec   == Default(input.spec.tags, none)
           theirs == Merged(infra, spec)
<1>1. SpecTags = Merged(theirs, getOCPTagList)
  BY DEF SpecTags, getTagList
<1>2. DOMAIN getOCPTagList = {OwnerKey} /\ getOCPTagList[OwnerKey] = "owned"
  BY DEF getOCPTagList
<1>3. DOMAIN theirs = DOMAIN infra \cup DOMAIN spec
  BY DEF Merged
<1>4. DOMAIN SpecTags = DOMAIN infra \cup DOMAIN spec \cup {OwnerKey}
  BY <1>1, <1>2, <1>3 DEF Merged
<1>5. SpecTags[OwnerKey] = "owned"
  BY <1>1, <1>2 DEF Merged
<1>6. \A k \in DOMAIN spec \ {OwnerKey} : SpecTags[k] = spec[k]
  BY <1>1, <1>2, <1>3 DEF Merged
<1>7. IsFiniteSet(DOMAIN infra) /\ IsFiniteSet(DOMAIN spec)
  <2>1. LabelsTyped(input)
    BY InputsAssumption DEF Typed
  <2>2. IsFiniteSet(DOMAIN none)
    BY FS_EmptySet
  <2>3. QED
    BY <2>1, <2>2 DEF LabelsTyped, Default
<1>8. Cardinality(DOMAIN SpecTags) <= 46
  <2>1. IsFiniteSet(DOMAIN SpecTags)
    <3>1. IsFiniteSet({OwnerKey})
      BY FS_Singleton
    <3>2. IsFiniteSet(DOMAIN infra \cup DOMAIN spec)
      BY <1>7, FS_Union
    <3> HIDE DEF infra, spec
    <3>3. IsFiniteSet((DOMAIN infra \cup DOMAIN spec) \cup {OwnerKey})
      BY <3>1, <3>2, FS_Union
    <3>4. QED
      BY <1>4, <3>3
  <2>2. Cardinality(DOMAIN SpecTags) \in Nat
    BY <2>1, FS_CardinalityType
  <2>3. CASE input.spec.tags = Nil /\ input.infra.tags = Nil
    <3>1. DOMAIN SpecTags = {OwnerKey}
      BY <1>4, <2>3 DEF Default
    <3>2. Cardinality({OwnerKey}) = 1
      BY FS_Singleton
    <3>3. QED
      BY <3>1, <3>2
  <2>4. CASE input.spec.tags # Nil \/ input.infra.tags # Nil
    BY <2>2, <2>4 DEF GetTagListFails, SpecTags
  <2>5. QED
    BY <2>3, <2>4
<1>9. ASSUME input.spec.tags # Nil
      PROVE  /\ \A k \in DOMAIN input.spec.tags \ {OwnerKey} : SpecTags[k] = input.spec.tags[k]
             /\ \A j, k \in DOMAIN input.spec.tags : j[1] = k[1] => j = k
  <2>1. spec = input.spec.tags
    BY <1>9 DEF Default
  <2>2. ~findDuplicateTagKeys(input.spec.tags)
    BY <1>9 DEF GetTagListFails
  <2>3. QED
    BY <1>6, <1>9, <2>1, <2>2 DEF findDuplicateTagKeys
<1>10. QED
  BY <1>4, <1>5, <1>8, <1>9 DEF Tagged

LEMMA TagsSent ==
  ASSUME Typed, Prepared, NEW kind, NEW request, Sent(kind, request)
  PROVE  Tagged(request.tags)
<1>1. scope.tags = SpecTags /\ Tagged(SpecTags)
  BY TagsChecked DEF Prepared, Sent, AtWork, Creating
<1>2. request.tags = Nil \/ request.tags = scope.tags
  BY DEF Sent, NICRequest, InterfaceRequest, InterfaceRequestStackHub, VMRequest,
         deriveVirtualMachineParameters, deriveVirtualMachineParametersStackHub
<1>3. QED
  BY <1>1, <1>2 DEF Tagged

\* The settings of the operating system, which both clouds have.
LEMMA ProfileSent ==
  ASSUME Typed, NEW request, Sent("vm", request)
  PROVE  /\ Granted(request).windows = Asked.windows
         /\ Granted(request).ownKey = Asked.ownKey
         /\ Granted(request).userData = Asked.userData
         /\ Granted(request).zone = Asked.zone
<1>1. request.osProfile = generateOSProfile(VMSpec) /\ request.zone = input.spec.zone
  BY DEF Sent, VMRequest, deriveVirtualMachineParameters, generateOSProfileStackHub,
         deriveVirtualMachineParametersStackHub, VMSpec
<1>2. input.spec.ssh \in {Nil, "key", "malformed"} /\ Nil \notin STRING
  BY InputsAssumption, NilAssumption DEF Typed, SpecTyped
<1>3. /\ request.osProfile.windows = (input.spec.osDisk.os = "Windows")
      /\ request.osProfile.customData = (input.spec.userData # Nil)
      /\ request.osProfile.key = CASE input.spec.osDisk.os = "Windows" -> Nil
                                   [] input.spec.ssh = Nil -> "generated"
                                   [] OTHER -> input.spec.ssh
  BY <1>1 DEF generateOSProfile, VMSpec
<1>4. request.osProfile.key \notin {Nil, "generated"} <=>
        input.spec.ssh # Nil /\ input.spec.osDisk.os # "Windows"
  BY <1>2, <1>3, LiteralsAssumption
<1>5. QED
  BY <1>1, <1>3, <1>4 DEF Granted, Asked

\* The security profile: what is asked for, or refused, or dropped.
LEMMA SecuritySent ==
  ASSUME Typed, ~Stack, NEW request, Sent("vm", request)
  PROVE  /\ Granted(request).atHost = Asked.atHost
         /\ \A f \in {"confidential", "secureBoot", "vTPM", "trusted"} :
              f \in Dropped \/ Granted(request)[f] = Asked[f]
<1> DEFINE p == input.spec.security
           e == input.spec.osDisk.encryptionType
           s == request.security
<1>1. s = generateSecurityProfile(VMSpec) /\ ~SecurityInvalid(VMSpec)
  BY VMChecked DEF Sent, VMRequest, deriveVirtualMachineParameters, VMSpecInvalid
<1>2. VMSpec.security = p /\ VMSpec.osDisk.encryptionType = e
  BY DEF VMSpec
<1>3. /\ p \in SecurityProfile \cup {Nil}
      /\ e \in {Nil, "VMGuestStateOnly", "DiskWithVMGuestState"}
  BY InputsAssumption DEF Typed, SpecTyped, OSDisk
<1>4. CASE p = Nil
  <2>1. s = Nil
    BY <1>1, <1>2, <1>4 DEF generateSecurityProfile
  <2>2. QED
    BY <1>4, <2>1 DEF Granted, Asked
<1>5. CASE p # Nil /\ e # Nil
  <2>1. s = [atHost |-> p.atHost, type |-> "ConfidentialVM",
             uefi |-> [secureBoot |-> p.confidential.secureBoot, vTPM |-> TRUE]]
    BY <1>1, <1>2, <1>5 DEF generateSecurityProfile
  <2>2. p.type = "ConfidentialVM" /\ p.confidential # Nil /\ p.confidential.vTPM
    BY <1>1, <1>2, <1>5 DEF SecurityInvalid
  <2>3. p \in SecurityProfile /\ p.confidential \in UEFI
    BY <1>3, <1>5, <2>2 DEF SecurityProfile
  <2>4. s.uefi \in UEFI /\ s \in RequestedProfile
    BY <2>1, <2>3 DEF UEFI, SecurityProfile, RequestedProfile
  <2>5. s # Nil /\ s.uefi # Nil
    BY <2>4, ProfileAssumption
  <2>6. /\ s.atHost = p.atHost /\ s.type = "ConfidentialVM"
        /\ s.uefi.secureBoot = p.confidential.secureBoot /\ s.uefi.vTPM = TRUE
    BY <2>1
  <2>7. p.atHost \in BOOLEAN /\ p.confidential.secureBoot \in BOOLEAN
        /\ p.confidential.vTPM = TRUE
    BY <2>2, <2>3 DEF SecurityProfile, UEFI
  <2>8. /\ Asked.atHost = p.atHost /\ Asked.confidential = TRUE /\ Asked.trusted = FALSE
        /\ Asked.secureBoot = p.confidential.secureBoot /\ Asked.vTPM = TRUE
    BY <1>5, <2>2, <2>7 DEF Asked
  <2>9. /\ Granted(request).atHost = s.atHost
        /\ Granted(request).confidential = TRUE /\ Granted(request).trusted = FALSE
        /\ Granted(request).secureBoot = s.uefi.secureBoot /\ Granted(request).vTPM = TRUE
    BY <2>5, <2>6, <2>7 DEF Granted
  <2>10. QED
    BY <2>6, <2>8, <2>9
<1>6. CASE p # Nil /\ e = Nil
  <2> DEFINE on == p.trusted # Nil /\ (p.trusted.secureBoot \/ p.trusted.vTPM)
  <2>1. /\ p.type = "TrustedLaunch" => p.trusted # Nil
        /\ on => p.type = "TrustedLaunch"
    BY <1>1, <1>2, <1>6 DEF SecurityInvalid
  <2>2. p \in SecurityProfile
    BY <1>3, <1>6
  <2>3. p.type = "ConfidentialVM" => {"confidential", "secureBoot", "vTPM"} \subseteq Dropped
    BY <1>6 DEF Dropped
  <2>4. CASE on
    <3>1. s = [atHost |-> p.atHost, type |-> "TrustedLaunch", uefi |-> p.trusted]
      BY <1>1, <1>2, <1>6, <2>4 DEF generateSecurityProfile
    <3>2. p.trusted \in UEFI
      BY <2>2, <2>4 DEF SecurityProfile
    <3>3. s \in RequestedProfile
      BY <2>2, <3>1, <3>2 DEF SecurityProfile, RequestedProfile
    <3>4. s # Nil /\ p.trusted # Nil
      BY <3>2, <3>3, ProfileAssumption
    <3>5. /\ p.atHost \in BOOLEAN /\ p.trusted.secureBoot \in BOOLEAN
          /\ p.trusted.vTPM \in BOOLEAN
      BY <2>2, <3>2 DEF SecurityProfile, UEFI
    <3>6. /\ Asked.atHost = p.atHost /\ Asked.confidential = FALSE /\ Asked.trusted = TRUE
          /\ Asked.secureBoot = p.trusted.secureBoot /\ Asked.vTPM = p.trusted.vTPM
      BY <1>6, <2>1, <2>4, <3>4, <3>5 DEF Asked
    <3>7. /\ Granted(request).atHost = p.atHost
          /\ Granted(request).confidential = FALSE /\ Granted(request).trusted = TRUE
          /\ Granted(request).secureBoot = p.trusted.secureBoot
          /\ Granted(request).vTPM = p.trusted.vTPM
      <4>1. s.atHost = p.atHost /\ s.type = "TrustedLaunch" /\ s.uefi = p.trusted
        BY <3>1
      <4>2. QED
        BY <3>4, <3>5, <4>1 DEF Granted
    <3>8. QED
      BY <3>6, <3>7
  <2>5. CASE ~on
    <3>1. s = [atHost |-> p.atHost, type |-> Nil, uefi |-> Nil]
      BY <1>1, <1>2, <1>6, <2>5 DEF generateSecurityProfile
    <3>2. s \in RequestedProfile
      BY <2>2, <3>1 DEF SecurityProfile, RequestedProfile
    <3>3. s # Nil /\ Nil # "ConfidentialVM" /\ Nil # "TrustedLaunch"
      BY <3>2, ProfileAssumption, NilAssumption, LiteralsAssumption
    <3>4. /\ Granted(request).atHost = p.atHost
          /\ Granted(request).confidential = FALSE /\ Granted(request).trusted = FALSE
          /\ Granted(request).secureBoot = FALSE /\ Granted(request).vTPM = FALSE
      <4>1. p.atHost \in BOOLEAN
        BY <2>2 DEF SecurityProfile
      <4>2. s.atHost = p.atHost /\ s.type = Nil /\ s.uefi = Nil
        BY <3>1
      <4>3. QED
        BY <3>3, <4>1, <4>2 DEF Granted
    <3>5. Asked.atHost = p.atHost
      BY <1>6, <2>2 DEF Asked, SecurityProfile
    <3>6. CASE p.type = "TrustedLaunch"
      <4>1. p.trusted # Nil /\ ~p.trusted.secureBoot /\ ~p.trusted.vTPM
        BY <2>1, <2>5, <3>6
      <4>2. "trusted" \in Dropped
        BY <1>6, <3>6, <4>1 DEF Dropped
      <4>3. /\ Asked.confidential = FALSE
            /\ Asked.secureBoot = FALSE /\ Asked.vTPM = FALSE
        BY <1>6, <3>6, <4>1 DEF Asked
      <4>4. QED
        BY <3>4, <3>5, <4>2, <4>3
    <3>7. CASE p.type # "TrustedLaunch"
      <4>1. Asked.trusted = FALSE
        BY <3>7 DEF Asked
      <4>2. CASE p.type = "ConfidentialVM"
        BY <2>3, <3>4, <3>5, <4>1, <4>2
      <4>3. CASE p.type # "ConfidentialVM"
        <5>1. /\ Asked.confidential = FALSE
              /\ Asked.secureBoot = FALSE /\ Asked.vTPM = FALSE
          BY <3>7, <4>3 DEF Asked
        <5>2. QED
          BY <3>4, <3>5, <4>1, <5>1
      <4>4. QED
        BY <4>2, <4>3
    <3>8. QED
      BY <3>6, <3>7
  <2>6. QED
    BY <2>4, <2>5
<1>7. QED
  BY <1>4, <1>5, <1>6

\* The settings of disks, price, identity and the rest, which Azure alone has.
LEMMA RestSent ==
  ASSUME Typed, ~Stack, NEW request, Sent("vm", request)
  PROVE  \A f \in {"encryptionType", "encryptionSet", "ephemeral", "caching", "dataDisks",
                   "ultra", "spot", "maxPrice", "plan", "diagnostics", "identity",
                   "reservation"} :
           f \in Dropped \/ Granted(request)[f] = Asked[f]
<1> DEFINE v == input.spec
<1>1. request = deriveVirtualMachineParameters(VMSpec, scope.at.location, scope.set, scope.tags)
  BY DEF Sent, VMRequest
<1>2. SpecTyped(v)
  BY InputsAssumption DEF Typed
<1>3. /\ Granted(request).encryptionType = Asked.encryptionType
      /\ Granted(request).encryptionSet = Asked.encryptionSet
      /\ Granted(request).ephemeral = Asked.ephemeral
      /\ Granted(request).caching = Asked.caching
  <2>1. request.osDisk = generateOSDisk(VMSpec) /\ VMSpec.osDisk = v.osDisk
    BY <1>1 DEF deriveVirtualMachineParameters, VMSpec
  <2>2. /\ request.osDisk.encryptionType = v.osDisk.encryptionType
        /\ request.osDisk.encryptionSet = v.osDisk.encryptionSet
        /\ request.osDisk.ephemeral = v.osDisk.ephemeral
        /\ request.osDisk.caching = v.osDisk.caching
    BY <2>1 DEF generateOSDisk
  <2>3. QED
    BY <2>2 DEF Granted, Asked
<1>4. Granted(request).dataDisks = Asked.dataDisks
  <2>1. request.dataDisks = generateDataDisks(v.dataDisks)
    BY <1>1 DEF deriveVirtualMachineParameters, VMSpec
  <2>2. v.dataDisks \in Seq(DataDisk)
    BY <1>2 DEF SpecTyped
  <2>3. Len(generateDataDisks(v.dataDisks)) = Len(v.dataDisks)
    BY <2>2 DEF generateDataDisks
  <2>4. QED
    BY <2>1, <2>3 DEF Granted, Asked
<1>5. Granted(request).ultra = Asked.ultra
  <2>1. request.ultraSSD = UltraSSD(VMSpec)
    BY <1>1 DEF deriveVirtualMachineParameters
  <2>2. VMSpec.ultraSSD = v.ultraSSD /\ VMSpec.dataDisks = v.dataDisks
    BY DEF VMSpec
  <2>3. v.ultraSSD \in {Nil, "Enabled", "Disabled"} /\ Nil # TRUE
        /\ Nil # "Enabled" /\ Nil # "Disabled"
    BY <1>2, NilAssumption, LiteralsAssumption DEF SpecTyped
  <2>4. (UltraSSD(VMSpec) = TRUE) <=>
          \/ v.ultraSSD = "Enabled"
          \/ v.ultraSSD = Nil /\ \E i \in DOMAIN v.dataDisks : v.dataDisks[i].ultra
    BY <2>2, <2>3 DEF UltraSSD
  <2>5. QED
    BY <2>1, <2>4 DEF Granted, Asked
<1>6. Granted(request).spot = Asked.spot /\ Granted(request).maxPrice = Asked.maxPrice
  <2>1. request.spot = getSpotVMOptions(VMSpec) /\ VMSpec.spot = v.spot
    BY <1>1 DEF deriveVirtualMachineParameters, VMSpec
  <2>2. Nil # "Spot" /\ Nil # "priced"
    BY NilAssumption, LiteralsAssumption
  <2>3. /\ (request.spot.priority = "Spot") <=> (v.spot # Nil)
        /\ (request.spot.maxPrice = "priced") <=> (v.spot = "priced")
    BY <2>1, <2>2 DEF getSpotVMOptions
  <2>4. QED
    BY <2>3 DEF Granted, Asked
<1>7. "plan" \in Dropped \/ Granted(request).plan = Asked.plan
  <2>1. request.plan = generateImagePlan(v.image)
    BY <1>1 DEF deriveVirtualMachineParameters, VMSpec
  <2>2. /\ v.image.type \in {Nil, "MarketplaceNoPlan", "MarketplaceWithPlan"}
        /\ v.image.complete \in BOOLEAN
    BY <1>2 DEF SpecTyped, Image
  <2>3. ~v.image.complete => "plan" \in Dropped
    BY DEF Dropped
  <2>4. Nil # "MarketplaceWithPlan"
    BY NilAssumption, LiteralsAssumption
  <2>5. v.image.complete =>
          (generateImagePlan(v.image) <=> v.image.type = "MarketplaceWithPlan")
    BY <2>2, <2>4 DEF generateImagePlan
  <2>6. QED
    BY <2>1, <2>3, <2>5 DEF Granted, Asked, generateImagePlan
<1>8. /\ Granted(request).diagnostics = Asked.diagnostics
      /\ Granted(request).identity = Asked.identity
      /\ Granted(request).reservation = Asked.reservation
  <2>1. /\ request.diagnostics = v.diagnostics
        /\ request.identity = {<<PlaceOf(scope), id>> : id \in {v.identity} \ {Nil}}
        /\ request.reservation = (v.reservation # Nil)
    BY <1>1 DEF deriveVirtualMachineParameters, VMSpec
  <2>2. request.identity # {} <=> v.identity # Nil
    BY <2>1
  <2>3. QED
    BY <2>1, <2>2 DEF Granted, Asked
<1>9. QED
  BY <1>3, <1>4, <1>5, <1>6, <1>7, <1>8

LEMMA SettingsSent ==
  ASSUME Typed, NEW request, Sent("vm", request)
  PROVE  Honoured(request)
<1>1. DOMAIN Asked = {"windows", "ownKey", "userData", "confidential", "trusted",
                      "secureBoot", "vTPM", "atHost", "encryptionType", "encryptionSet",
                      "ephemeral", "caching", "dataDisks", "ultra", "spot", "maxPrice",
                      "plan", "diagnostics", "identity", "reservation", "zone"}
  BY DEF Asked
<1>2. CASE Stack
  <2>1. DOMAIN Asked \ Dropped \subseteq {"windows", "ownKey", "userData", "zone"}
    BY <1>2 DEF Dropped
  <2>2. QED
    BY <2>1, ProfileSent DEF Honoured
<1>3. CASE ~Stack
  <2>1. \A f \in {"windows", "ownKey", "userData", "zone", "atHost"} :
          Granted(request)[f] = Asked[f]
    BY <1>3, ProfileSent, SecuritySent
  <2>2. \A f \in {"confidential", "secureBoot", "vTPM", "trusted"} :
          f \in Dropped \/ Granted(request)[f] = Asked[f]
    BY <1>3, SecuritySent
  <2>3. QED
    BY <1>1, <1>3, <2>1, <2>2, RestSent DEF Honoured
<1>4. QED
  BY <1>2, <1>3

-----------------------------------------------------------------------------
(***************************************************************************)
(* Names of availability sets: the full name, and what it is cut to.       *)
(***************************************************************************)
FullName(labels) ==
  IF IsPrefix(labels.cluster, labels.set) THEN labels.set
  ELSE labels.cluster \o <<"_">> \o labels.set

\* The separator and the ending.
LEMMA Words ==
  /\ <<"_">> \in Seq(STRING) /\ Len(<<"_">>) = 1 /\ <<"_">>[1] = "_"
  /\ <<"-", "a", "s">> \in Seq(STRING) /\ Len(<<"-", "a", "s">>) = 3
<1>1. ASSUME NEW S, NEW x \in S, NEW y \in S, NEW z \in S
      PROVE  <<x>> \in Seq(S) /\ <<x, y, z>> \in Seq(S)
  OBVIOUS
<1>2. {"_", "-", "a", "s"} \subseteq STRING
  BY LiteralsAssumption
<1>3. <<"_">> \in Seq(STRING) /\ <<"-", "a", "s">> \in Seq(STRING)
  BY <1>1, <1>2
<1>4. Len(<<"_">>) = 1 /\ <<"_">>[1] = "_" /\ Len(<<"-", "a", "s">>) = 3
  OBVIOUS
<1>5. QED
  BY <1>3, <1>4

\* What concatenation does to length and letters, and that it can be undone.
LEMMA Concatenated ==
  ASSUME NEW S, NEW s \in Seq(S), NEW t \in Seq(S)
  PROVE  s \o t \in Seq(S) /\ Len(s \o t) = Len(s) + Len(t)
OBVIOUS

LEMMA Separated ==
  ASSUME NEW S, NEW s \in Seq(S), NEW t \in Seq(S), NEW separator \in S
  PROVE  separator \in Range(s \o <<separator>> \o t)
<1> DEFINE start == s \o <<separator>>
           k     == Len(s) + 1
<1>1. start \in Seq(S) /\ k \in 1..Len(start) /\ start[k] = separator
  OBVIOUS
<1> HIDE DEF start, k
<1>2. k \in DOMAIN (start \o t) /\ (start \o t)[k] = separator
  BY <1>1
<1>3. QED
  BY <1>2 DEF Range, start

LEMMA Cancelled ==
  ASSUME NEW S, NEW s \in Seq(S), NEW t \in Seq(S), NEW u \in Seq(S)
  PROVE  (u \o s = u \o t => s = t) /\ (s \o u = t \o u => s = t)
BY ConcatSimplifications

LEMMA FullNameTyped ==
  ASSUME NEW labels, labels.cluster \in Seq(STRING), labels.set \in Seq(STRING)
  PROVE  FullName(labels) \in Seq(STRING)
<1>1. labels.cluster \o <<"_">> \in Seq(STRING)
  BY Words, Concatenated
<1>2. labels.cluster \o <<"_">> \o labels.set \in Seq(STRING)
  BY <1>1, Concatenated
<1>3. QED
  BY <1>2 DEF FullName

\* A name is the full one with its ending, or as long as may be.
LEMMA NameCut ==
  ASSUME NEW labels, labels.cluster \in Seq(STRING), labels.set \in Seq(STRING)
  PROVE  /\ Len(getAvailabilitySetName(labels)) <= NameLimit
         /\ \/ Len(getAvailabilitySetName(labels)) = NameLimit
            \/ getAvailabilitySetName(labels) = FullName(labels) \o <<"-", "a", "s">>
<1> DEFINE name == FullName(labels)
           cut  == IF Len(name) >= NameLimit - 3 THEN SubSeq(name, 1, NameLimit - 3) ELSE name
           end  == <<"-", "a", "s">>
<1>1. name \in Seq(STRING) /\ Len(name) \in Nat
  BY FullNameTyped, LenProperties
<1>2. getAvailabilitySetName(labels) = cut \o end
  BY DEF getAvailabilitySetName, FullName
<1>3. end \in Seq(STRING) /\ Len(end) = 3
  BY Words
<1> HIDE DEF name, end
<1>4. CASE Len(name) >= NameLimit - 3
  <2>1. NameLimit - 3 \in Nat /\ 1 <= NameLimit - 3
    BY LimitsAssumption
  <2>2. \A i \in 1..(NameLimit - 3) : name[i] \in STRING
    BY <1>1, <1>4, <2>1, ElementOfSeq
  <2>3. cut \in Seq(STRING) /\ Len(cut) = NameLimit - 3
    BY <1>4, <2>1, <2>2, SubSeqProperties
  <2> HIDE DEF cut
  <2>4. Len(cut \o end) = Len(cut) + Len(end)
    BY <1>3, <2>3, Concatenated
  <2>5. QED
    BY <1>2, <1>3, <2>3, <2>4, LimitsAssumption
<1>5. CASE ~(Len(name) >= NameLimit - 3)
  <2>1. cut = name
    BY <1>5
  <2>2. Len(name \o end) = Len(name) + Len(end)
    BY <1>1, <1>3, Concatenated
  <2>3. QED
    BY <1>1, <1>2, <1>3, <1>5, <2>1, <2>2, LimitsAssumption DEF name, end
<1>6. QED
  BY <1>4, <1>5

\* The separator keeps full names apart: a machine set's name has none.
LEMMA FullNamesApart ==
  ASSUME NEW a, NEW b, a.cluster = b.cluster,
         a.cluster \in Seq(STRING),
         a.set \in Seq(STRING), b.set \in Seq(STRING),
         "_" \notin Range(a.set), "_" \notin Range(b.set),
         FullName(a) = FullName(b)
  PROVE  a.set = b.set
<1> DEFINE cluster == a.cluster
           start   == cluster \o <<"_">>
<1>1. cluster \in Seq(STRING) /\ "_" \in STRING
  BY LiteralsAssumption
<1>2. /\ FullName(a) = IF IsPrefix(cluster, a.set) THEN a.set ELSE start \o a.set
      /\ FullName(b) = IF IsPrefix(cluster, b.set) THEN b.set ELSE start \o b.set
  BY DEF FullName
<1> HIDE DEF cluster
<1>3. "_" \in Range(start \o a.set) /\ "_" \in Range(start \o b.set)
  BY <1>1, Separated
<1>4. start \in Seq(STRING)
  BY <1>1, Words, Concatenated
<1> HIDE DEF start
<1>5. start \o a.set = start \o b.set => a.set = b.set
  BY <1>4, Cancelled
<1>6. QED
  BY <1>2, <1>3, <1>5

LEMMA NameSent ==
  ASSUME Typed, Prepared, NEW request, Sent("set", request)
  PROVE  NamedApart(request.name)
<1>1. /\ input.labels.set # Nil
      /\ request.name = getAvailabilitySetName(input.labels)
  BY DEF Sent, Prepared
<1>2. \A i \in Inputs :
        /\ i.labels.cluster \in Seq(STRING)
        /\ i.labels.set # Nil => i.labels.set \in Seq(STRING) /\ "_" \notin Range(i.labels.set)
  BY InputsAssumption DEF LabelsTyped
<1>3. input \in Inputs
  BY DEF Typed
<1>4. ASSUME NEW other \in Siblings, other.cluster = input.labels.cluster,
             other.set \notin {Nil, input.labels.set},
             getAvailabilitySetName(other) = request.name
      PROVE  Len(request.name) = NameLimit
  <2>1. PICK i \in Inputs : other = i.labels
    BY DEF Siblings
  <2>2. \/ Len(request.name) = NameLimit
        \/ /\ request.name = FullName(other) \o <<"-", "a", "s">>
           /\ request.name = FullName(input.labels) \o <<"-", "a", "s">>
    BY <1>1, <1>2, <1>3, <1>4, <2>1, NameCut
  <2>3. /\ FullName(other) \in Seq(STRING) /\ FullName(input.labels) \in Seq(STRING)
        /\ <<"-", "a", "s">> \in Seq(STRING)
    BY <1>1, <1>2, <1>3, <1>4, <2>1, FullNameTyped, Words
  <2>4. Len(request.name) = NameLimit \/ FullName(other) = FullName(input.labels)
    BY <2>2, <2>3, Cancelled
  <2>5. FullName(other) # FullName(input.labels)
    BY <1>1, <1>2, <1>3, <1>4, <2>1, FullNamesApart
  <2>6. QED
    BY <2>4, <2>5
<1>5. Len(request.name) <= NameLimit
  BY <1>1, <1>2, <1>3, NameCut
<1>6. QED
  BY <1>4, <1>5 DEF NamedApart

-----------------------------------------------------------------------------
(***************************************************************************)
(* The requests that Azure has carried out are as they should be, since    *)
(* each was when it was sent, and what is asked of it does not change.     *)
(***************************************************************************)
Kinds == {"pip", "nic", "set", "vm"}

Fitting(kind, request) ==
  /\ Tagged(request.tags)
  /\ kind = "nic" => Joined(request) /\ OwnPools(request)
  /\ kind = "set" => NamedApart(request.name)
  /\ kind = "vm" => Honoured(request) /\ Distinct(request.dataDisks)

RequestsFit == \A kind \in Kinds : \A request \in Requests(kind) : Fitting(kind, request)

CIInv == Typed /\ SpecLB /\ Prepared /\ RequestsFit

LEMMA SentFits ==
  ASSUME Typed, SpecLB, Prepared, NEW kind, NEW request, Sent(kind, request)
  PROVE  Fitting(kind, request)
<1>1. kind = "nic" => Joined(request) /\ OwnPools(request)
  BY PoolsSent, OwnPoolsSent
<1>2. kind = "set" => NamedApart(request.name)
  BY NameSent
<1>3. kind = "vm" => Honoured(request) /\ Distinct(request.dataDisks)
  BY SettingsSent, DisksSent
<1>4. QED
  BY <1>1, <1>2, <1>3, TagsSent DEF Fitting

\* Whether a request fits depends on the machine and Azure alone.
LEMMA FittingLasts ==
  ASSUME input' = input, NEW kind, NEW request, Fitting(kind, request)
  PROVE  Fitting(kind, request)'
<1>1. Stack' = Stack /\ Asked' = Asked /\ Granted(request)' = Granted(request)
  BY DEF Stack, Asked, Granted
<1>2. Dropped' = Dropped
  BY <1>1 DEF Dropped
<1>3. Honoured(request)' = Honoured(request)
  BY <1>1, <1>2 DEF Honoured
<1>4. /\ Tagged(request.tags)' = Tagged(request.tags)
      /\ OwnPools(request)' = OwnPools(request)
      /\ Joined(request)' = Joined(request)
      /\ NamedApart(request.name)' = NamedApart(request.name)
  BY <1>1 DEF Tagged, OwnPools, LoadBalancers, Joined, NamedApart
<1>5. QED
  BY <1>3, <1>4 DEF Fitting

LEMMA CreationInvariant == Spec => []CIInv
<1>1. Init => CIInv
  <2>1. Init => RequestsFit
    BY DEF Init, RequestsFit, Requests
  <2>2. QED
    BY <2>1, TypedInit, SpecLBInit, PreparedInit DEF CIInv
<1>2. CIInv /\ [Next]_vars => CIInv'
  <2> SUFFICES ASSUME CIInv, [Next]_vars PROVE CIInv'
    OBVIOUS
  <2>1. Typed' /\ SpecLB' /\ Prepared'
    BY TypedNext, SpecLBNext, PreparedNext DEF CIInv
  <2>2. ASSUME NEW kind \in Kinds, NEW request \in Requests(kind)'
        PROVE  Fitting(kind, request)'
    <3>1. input' = input /\ (request \in Requests(kind) \/ Sent(kind, request))
      BY RequestsGrow
    <3>2. Fitting(kind, request)
      BY <3>1, SentFits DEF CIInv, RequestsFit
    <3>3. QED
      BY <3>1, <3>2, FittingLasts
  <2>3. RequestsFit'
    BY <2>2 DEF RequestsFit, Kinds
  <2>4. QED
    BY <2>1, <2>3 DEF CIInv
<1>3. QED
  BY <1>1, <1>2, PTL DEF Spec

(***************************************************************************)
(* Every VM that createVirtualMachine puts has the settings its provider   *)
(* spec asks for, but for those the derivation is known to leave out.      *)
(***************************************************************************)
THEOREM SettingsHonouredHolds == Spec => []SettingsHonoured
<1>1. CIInv => SettingsHonoured
  BY DEF CIInv, RequestsFit, Fitting, Kinds, SettingsHonoured
<1>2. QED
  BY <1>1, CreationInvariant, PTL

(***************************************************************************)
(* However many data disks a spec lists, generateDataDisks lets no two of  *)
(* a VM share a LUN or a name.                                             *)
(***************************************************************************)
THEOREM DisksDistinctHolds == Spec => []DisksDistinct
<1>1. CIInv => DisksDistinct
  BY DEF CIInv, RequestsFit, Fitting, Kinds, DisksDistinct
<1>2. QED
  BY <1>1, CreationInvariant, PTL

(***************************************************************************)
(* Whatever frontends and backends the two load balancers have, the        *)
(* interface that networkinterfaces.CreateOrUpdate puts joins exactly the  *)
(* pools of its families that exist.                                       *)
(***************************************************************************)
THEOREM PoolsJoinedHolds == Spec => []PoolsJoined
<1>1. CIInv => PoolsJoined
  BY DEF CIInv, RequestsFit, Fitting, Kinds, PoolsJoined
<1>2. QED
  BY <1>1, CreationInvariant, PTL

(***************************************************************************)
(* getAvailabilitySetName keeps within the limit of Azure and, unless it   *)
(* cuts a name, keeps the machine sets of a cluster apart: the underscore  *)
(* it puts between the names occurs in no machine set's name.              *)
(***************************************************************************)
THEOREM SetsApartHolds == Spec => []SetsApart
<1>1. CIInv => SetsApart
  BY DEF CIInv, RequestsFit, Fitting, Kinds, SetsApart
<1>2. QED
  BY <1>1, CreationInvariant, PTL

(***************************************************************************)
(* getTagList marks every tagged resource as owned by the cluster, within  *)
(* the number of tags Azure allows, whatever the user's tags are.          *)
(***************************************************************************)
THEOREM TagsSafeHolds == Spec => []TagsSafe
<1>1. CIInv => TagsSafe
  <2> SUFFICES ASSUME CIInv, NEW kind \in Kinds, NEW request \in Requests(kind)
               PROVE  Tagged(request.tags)
    BY DEF TagsSafe, Kinds
  <2>1. QED
    BY DEF CIInv, RequestsFit, Fitting
<1>2. QED
  BY <1>1, CreationInvariant, PTL

-----------------------------------------------------------------------------
(***************************************************************************)
(* The parser of resource IDs.  A recursive function is a CHOOSE: first    *)
(* that there is a function that satisfies the recursion, built up one     *)
(* argument at a time; then, by induction over the words that are left,    *)
(* that it accepts exactly the IDs that can be cut into blocks.  Induction *)
(* is the choice of the least counterexample.                              *)
(***************************************************************************)
AcceptedBy(parts, f, k) ==
  LET n == Len(parts)
      word(i) == parts[n - k + i]
  IN CASE k = 0 -> TRUE
          [] k = 1 -> word(1) \notin {"subscriptions", "resourcegroups"}
          [] k > 1 /\ word(1) # "providers" -> f[k - 2]
          [] k > 1 /\ word(1) = "providers" /\ (k = 2 \/ word(3) = "providers") ->
               f[k - 2]
          [] k > 3 /\ word(1) = "providers" /\ word(3) # "providers" -> f[k - 4]
          [] OTHER -> FALSE

LEMMA ParserUnfolds ==
  ASSUME NEW parts
  PROVE  appendNextAzureResourceIDValidation(parts) =
           (CHOOSE f : f = [k \in 0..Len(parts) |-> AcceptedBy(parts, f, k)])[Len(parts)]
  BY DEF appendNextAzureResourceIDValidation, AcceptedBy

LEMMA AcceptedAlike ==
  ASSUME NEW parts, NEW k \in Nat, NEW f, NEW g, \A j \in 0..(k - 1) : f[j] = g[j]
  PROVE  AcceptedBy(parts, f, k) = AcceptedBy(parts, g, k)
<1>1. k > 1 => f[k - 2] = g[k - 2]
  OBVIOUS
<1>2. k > 3 => f[k - 4] = g[k - 4]
  OBVIOUS
<1>3. QED
  BY <1>1, <1>2 DEF AcceptedBy

Unfolded(parts, f, m) == f = [k \in 0..m |-> AcceptedBy(parts, f, k)]

LEMMA ParserExtends ==
  ASSUME NEW parts, NEW m \in Nat, NEW f, Unfolded(parts, f, m)
  PROVE  \E g : Unfolded(parts, g, m + 1)
<1> DEFINE g == [k \in 0..(m + 1) |-> IF k <= m THEN f[k] ELSE AcceptedBy(parts, f, m + 1)]
<1>1. \A j \in 0..m : g[j] = f[j]
  OBVIOUS
<1>2. ASSUME NEW k \in 0..(m + 1)
      PROVE  g[k] = AcceptedBy(parts, g, k)
  <2>1. \A j \in 0..(k - 1) : f[j] = g[j]
    BY <1>1
  <2>2. k \in Nat
    OBVIOUS
  <2>3. AcceptedBy(parts, f, k) = AcceptedBy(parts, g, k)
    BY <2>1, <2>2, AcceptedAlike
  <2>4. CASE k <= m
    <3>1. g[k] = f[k] /\ k \in 0..m
      BY <2>4
    <3>2. f[k] = AcceptedBy(parts, f, k)
      BY <3>1 DEF Unfolded
    <3>3. QED
      BY <2>3, <3>1, <3>2
  <2>5. CASE ~(k <= m)
    <3>1. k = m + 1
      BY <2>5
    <3>2. QED
      BY <2>3, <3>1
  <2>6. QED
    BY <2>4, <2>5
<1>3. g = [k \in 0..(m + 1) |-> g[k]]
  OBVIOUS
<1> HIDE DEF g
<1>4. g = [k \in 0..(m + 1) |-> AcceptedBy(parts, g, k)]
  BY <1>2, <1>3
<1>5. QED
  BY <1>4 DEF Unfolded

LEMMA ParserExists ==
  ASSUME NEW parts, NEW n \in Nat
  PROVE  \E f : Unfolded(parts, f, n)
<1> DEFINE T == {m \in Nat : ~\E f : Unfolded(parts, f, m)}
<1>1. SUFFICES T = {}
  OBVIOUS
<1>2. SUFFICES ASSUME T # {} PROVE FALSE
  OBVIOUS
<1>3. PICK m \in T : \A y \in T : m <= y
  BY <1>2, LeastNatural
<1>4. CASE m = 0
  <2> DEFINE g == [k \in 0..0 |-> TRUE]
  <2>1. g = [k \in 0..0 |-> AcceptedBy(parts, g, k)]
    <3>1. \A k \in 0..0 : AcceptedBy(parts, g, k) = TRUE
      BY DEF AcceptedBy
    <3>2. QED
      BY <3>1
  <2>2. QED
    BY <1>3, <1>4, <2>1 DEF Unfolded
<1>5. CASE m # 0
  <2>1. m - 1 \in Nat /\ m - 1 \notin T
    BY <1>3, <1>5
  <2>2. PICK f : Unfolded(parts, f, m - 1)
    BY <2>1
  <2>3. \E g : Unfolded(parts, g, (m - 1) + 1)
    BY <2>1, <2>2, ParserExtends
  <2>4. (m - 1) + 1 = m
    BY <1>3
  <2>5. QED
    BY <1>3, <2>3, <2>4
<1>6. QED
  BY <1>4, <1>5

LEMMA ParserEquation ==
  ASSUME NEW parts, Len(parts) \in Nat
  PROVE  \E f : /\ appendNextAzureResourceIDValidation(parts) = f[Len(parts)]
                /\ \A k \in 0..Len(parts) : f[k] = AcceptedBy(parts, f, k)
<1> DEFINE P(f) == f = [k \in 0..Len(parts) |-> AcceptedBy(parts, f, k)]
           next == CHOOSE f : P(f)
<1>1. \E f : P(f)
  BY ParserExists DEF Unfolded
<1>2. P(next)
  BY <1>1, Zenon
<1>3. appendNextAzureResourceIDValidation(parts) = next[Len(parts)]
  BY ParserUnfolds, Zenon
<1> HIDE DEF next
<1>4. \A k \in 0..Len(parts) : next[k] = AcceptedBy(parts, next, k)
  BY <1>2
<1>5. QED
  BY <1>3, <1>4

LEMMA ParserCases ==
  ASSUME NEW parts, NEW f, NEW k \in Nat
  PROVE  LET first == parts[Len(parts) - k + 1]
             third == parts[Len(parts) - k + 3]
         IN AcceptedBy(parts, f, k) <=>
              \/ k = 0
              \/ k = 1 /\ first \notin {"subscriptions", "resourcegroups"}
              \/ k > 1 /\ first # "providers" /\ f[k - 2]
              \/ k > 1 /\ first = "providers" /\ (k = 2 \/ third = "providers") /\ f[k - 2]
              \/ k > 3 /\ first = "providers" /\ third # "providers" /\ f[k - 4]
BY DEF AcceptedBy

LEMMA CutIsAccepted ==
  ASSUME NEW parts, Len(parts) \in Nat, NEW f,
         \A k \in 0..Len(parts) : f[k] = AcceptedBy(parts, f, k),
         NEW cuts, cuts \subseteq 0..Len(parts), 0 \in cuts,
         \A i \in cuts \ {Len(parts)} : \E j \in cuts : i < j /\ WellFormedBlock(parts, i, j)
  PROVE  f[Len(parts)]
<1> DEFINE n == Len(parts)
           T == {k \in 0..n : n - k \in cuts /\ ~f[k]}
<1>1. T = {}
  <2> SUFFICES ASSUME T # {} PROVE FALSE
    OBVIOUS
  <2>1. T \in SUBSET Nat
    OBVIOUS
  <2>2. PICK k \in T : \A y \in T : k <= y
    BY <2>1, LeastNatural
  <2> DEFINE i == n - k
  <2>3. k \in 0..n /\ i \in cuts /\ i \in Nat /\ ~AcceptedBy(parts, f, k)
    BY <2>2
  <2>4. \A d \in 1..k : i + d \in cuts => f[k - d]
    <3> SUFFICES ASSUME NEW d \in 1..k, i + d \in cuts, ~f[k - d] PROVE FALSE
      OBVIOUS
    <3>1. k - d \in 0..n /\ k - d < k /\ n - (k - d) = i + d
      BY <2>3
    <3>2. QED
      BY <2>2, <3>1
  <2>5. k # 0
    BY <2>3, ParserCases
  <2>6. PICK j \in cuts : i < j /\ WellFormedBlock(parts, i, j)
    BY <2>3, <2>5
  <2>7. j \in 0..n
    OBVIOUS
  <2>8. CASE j = i + 1 /\ j = n /\ parts[i + 1] \notin {"subscriptions", "resourcegroups"}
    <3>1. k = 1
      BY <2>3, <2>8
    <3>2. QED
      BY <2>3, <2>8, <3>1, ParserCases
  <2>9. CASE j = i + 2 /\ parts[i + 1] # "providers"
    <3>1. k > 1 /\ 2 \in 1..k
      BY <2>3, <2>7, <2>9
    <3>2. QED
      BY <2>3, <2>4, <2>9, <3>1, ParserCases
  <2>10. CASE j = i + 2 /\ parts[i + 1] = "providers" /\ (j = n \/ parts[j + 1] = "providers")
    <3>1. k > 1 /\ 2 \in 1..k
      BY <2>3, <2>7, <2>10
    <3>2. k = 2 \/ parts[i + 3] = "providers"
      BY <2>3, <2>10
    <3>3. QED
      BY <2>3, <2>4, <2>10, <3>1, <3>2, ParserCases
  <2>11. CASE j = i + 4 /\ parts[i + 1] = "providers" /\ parts[i + 3] # "providers"
    <3>1. k > 3 /\ 4 \in 1..k
      BY <2>3, <2>7, <2>11
    <3>2. QED
      BY <2>3, <2>4, <2>11, <3>1, ParserCases
  <2>12. QED
    BY <2>6, <2>8, <2>9, <2>10, <2>11 DEF WellFormedBlock
<1>2. n \in 0..n /\ n - n = 0
  OBVIOUS
<1>3. QED
  BY <1>1, <1>2

\* The words behind the first i can be cut into blocks.
Cut(parts, i, cuts) ==
  LET n == Len(parts)
  IN /\ cuts \subseteq i..n /\ {i, n} \subseteq cuts
     /\ \A a \in cuts \ {n} : \E b \in cuts :
          a < b /\ (a + 1)..(b - 1) \cap cuts = {} /\ WellFormedBlock(parts, a, b)

LEMMA CutExtends ==
  ASSUME NEW parts, Len(parts) \in Nat, NEW i \in Nat, NEW j \in Nat, NEW cuts,
         i < j, j <= Len(parts), Cut(parts, j, cuts), WellFormedBlock(parts, i, j)
  PROVE  Cut(parts, i, cuts \cup {i})
<1> DEFINE n == Len(parts)
           more == cuts \cup {i}
<1>1. cuts \subseteq j..n /\ {j, n} \subseteq cuts
  BY DEF Cut
<1>2. more \subseteq i..n /\ {i, n} \subseteq more
  BY <1>1
<1>3. ASSUME NEW a \in more \ {n}
      PROVE  \E b \in more : a < b /\ (a + 1)..(b - 1) \cap more = {} /\ WellFormedBlock(parts, a, b)
  <2>1. CASE a = i
    <3>1. (i + 1)..(j - 1) \cap more = {}
      BY <1>1
    <3>2. QED
      BY <1>1, <2>1, <3>1
  <2>2. CASE a # i
    <3>1. a \in cuts \ {n} /\ a \in j..n
      BY <1>1, <1>3, <2>2
    <3>2. PICK b \in cuts : a < b /\ (a + 1)..(b - 1) \cap cuts = {} /\ WellFormedBlock(parts, a, b)
      BY <3>1 DEF Cut
    <3>3. (a + 1)..(b - 1) \cap more = {}
      BY <3>1, <3>2
    <3>4. QED
      BY <3>2, <3>3
  <2>3. QED
    BY <2>1, <2>2
<1>4. QED
  BY <1>2, <1>3 DEF Cut

LEMMA AcceptedIsCut ==
  ASSUME NEW parts, Len(parts) \in Nat, NEW f,
         \A k \in 0..Len(parts) : f[k] = AcceptedBy(parts, f, k),
         f[Len(parts)]
  PROVE  \E cuts : Cut(parts, 0, cuts)
<1> DEFINE n == Len(parts)
           T == {k \in 0..n : f[k] /\ ~\E cuts : Cut(parts, n - k, cuts)}
<1>1. T = {}
  <2> SUFFICES ASSUME T # {} PROVE FALSE
    OBVIOUS
  <2>1. T \in SUBSET Nat
    OBVIOUS
  <2>2. PICK k \in T : \A y \in T : k <= y
    BY <2>1, LeastNatural
  <2> DEFINE i == n - k
  <2>3. k \in 0..n /\ i \in Nat /\ AcceptedBy(parts, f, k)
    BY <2>2
  <2>4. \A d \in 1..k : f[k - d] => \E cuts : Cut(parts, i + d, cuts)
    <3> SUFFICES ASSUME NEW d \in 1..k, f[k - d]
                 PROVE  \E cuts : Cut(parts, i + d, cuts)
      OBVIOUS
    <3>1. k - d \in 0..n /\ k - d < k /\ n - (k - d) = i + d
      BY <2>3
    <3>2. k - d \notin T
      BY <2>2, <3>1
    <3>3. QED
      BY <3>1, <3>2
  <2>5. \A d \in 1..k : (\E cuts : Cut(parts, i + d, cuts)) => ~WellFormedBlock(parts, i, i + d)
    <3> SUFFICES ASSUME NEW d \in 1..k, NEW cuts, Cut(parts, i + d, cuts),
                        WellFormedBlock(parts, i, i + d)
                 PROVE  FALSE
      OBVIOUS
    <3>1. i + d \in Nat /\ i < i + d /\ i + d <= n
      BY <2>3
    <3>2. Cut(parts, i, cuts \cup {i})
      BY <2>3, <3>1, CutExtends
    <3>3. QED
      BY <2>2, <3>2
  <2>6. k # 0
    <3>1. Cut(parts, n, {n})
      BY DEF Cut
    <3>2. n - 0 = n
      OBVIOUS
    <3>3. QED
      BY <2>2, <3>1, <3>2
  <2>7. CASE k = 1 /\ parts[i + 1] \notin {"subscriptions", "resourcegroups"}
    <3>1. Cut(parts, n, {n})
      BY DEF Cut
    <3>2. i + 1 = n /\ 1 \in 1..k
      BY <2>3, <2>7
    <3>3. WellFormedBlock(parts, i, i + 1)
      BY <2>7, <3>2 DEF WellFormedBlock
    <3>4. QED
      BY <2>5, <3>1, <3>2, <3>3
  <2>8. CASE k > 1 /\ parts[i + 1] # "providers" /\ f[k - 2]
    <3>1. WellFormedBlock(parts, i, i + 2)
      BY <2>8 DEF WellFormedBlock
    <3>2. 2 \in 1..k
      BY <2>3, <2>8
    <3>3. QED
      BY <2>4, <2>5, <2>8, <3>1, <3>2
  <2>9. CASE /\ k > 1 /\ parts[i + 1] = "providers"
             /\ k = 2 \/ parts[i + 3] = "providers"
             /\ f[k - 2]
    <3>1. i + 2 = n \/ parts[(i + 2) + 1] = "providers"
      BY <2>3, <2>9
    <3>2. WellFormedBlock(parts, i, i + 2)
      BY <2>9, <3>1 DEF WellFormedBlock
    <3>3. 2 \in 1..k
      BY <2>3, <2>9
    <3>4. QED
      BY <2>4, <2>5, <2>9, <3>2, <3>3
  <2>10. CASE k > 3 /\ parts[i + 1] = "providers" /\ parts[i + 3] # "providers" /\ f[k - 4]
    <3>1. WellFormedBlock(parts, i, i + 4)
      BY <2>10 DEF WellFormedBlock
    <3>2. 4 \in 1..k
      BY <2>3, <2>10
    <3>3. QED
      BY <2>4, <2>5, <2>10, <3>1, <3>2
  <2>11. QED
    BY <2>3, <2>6, <2>7, <2>8, <2>9, <2>10, ParserCases
<1>2. n \in 0..n /\ n - n = 0
  OBVIOUS
<1>3. QED
  BY <1>1, <1>2

(***************************************************************************)
(* parseAzureResourceID accepts an ID of any length exactly if it can be   *)
(* cut into blocks, each of which is of one of the forms of its grammar.   *)
(***************************************************************************)
THEOREM ParserIsExact ==
  ASSUME NEW id, id.parts \in Seq(STRING)
  PROVE  parseAzureResourceID(id) <=> WellFormedID(id)
<1> DEFINE parts == id.parts
           n     == Len(parts)
<1>1. n \in Nat
  OBVIOUS
<1>2. PICK f : /\ appendNextAzureResourceIDValidation(parts) = f[n]
               /\ \A k \in 0..n : f[k] = AcceptedBy(parts, f, k)
  BY <1>1, ParserEquation
<1>3. ASSUME f[n]
      PROVE  \E cuts \in SUBSET (0..n) :
               /\ {0, n} \subseteq cuts
               /\ \A i \in cuts \ {n} : \E j \in cuts :
                    i < j /\ (i + 1)..(j - 1) \cap cuts = {} /\ WellFormedBlock(parts, i, j)
  BY <1>1, <1>2, <1>3, AcceptedIsCut DEF Cut
<1>4. ASSUME NEW cuts \in SUBSET (0..n), {0, n} \subseteq cuts,
             \A i \in cuts \ {n} : \E j \in cuts : i < j /\ WellFormedBlock(parts, i, j)
      PROVE  f[n]
  BY <1>1, <1>2, <1>4, CutIsAccepted
<1>5. parseAzureResourceID(id) => WellFormedID(id)
  BY <1>1, <1>2, <1>3 DEF parseAzureResourceID, WellFormedID
<1>6. WellFormedID(id) => parseAzureResourceID(id)
  <2> SUFFICES ASSUME WellFormedID(id) PROVE parseAzureResourceID(id)
    OBVIOUS
  <2>1. PICK cuts \in SUBSET (0..n) :
          /\ {0, n} \subseteq cuts
          /\ \A i \in cuts \ {n} : \E j \in cuts :
               i < j /\ (i + 1)..(j - 1) \cap cuts = {} /\ WellFormedBlock(parts, i, j)
    BY DEF WellFormedID
  <2>2. f[n]
    BY <1>4, <2>1
  <2>3. QED
    BY <1>1, <1>2, <2>2 DEF parseAzureResourceID, WellFormedID
<1>7. QED
  BY <1>5, <1>6

-----------------------------------------------------------------------------
(***************************************************************************)
(* Outcomes.  Why an attempt ends as it does, and what the steps before it *)
(* make sure of: a size without acceleration was refused at once, a        *)
(* missing application security group before the interface is put, and     *)
(* Update is called only for a VM that Exists has seen or that was put.    *)
(***************************************************************************)
TooSlow == input.spec.accelerated /\ input.azure.sku # Nil /\ ~input.azure.sku.accelerated

Explained ==
  /\ pc \in AtWork \cup {"create", "update"} => input.infra.id # Nil
  /\ pc \in {"pip", "reads"} => ~TooSlow
  /\ pc = "nic" => AppGroupsError(InterfaceSpec, input.azure, fault) = "ok"
  /\ pc \in {"update", "refresh"} => \E r \in cloud : r.kind = "vm"
  /\ pc = "persist" => HasCause(answer)

\* Answers that need no cause; a failed call is the cause of its own answer.
LEMMA FaultIsCause ==
  ASSUME Typed
  PROVE  /\ HasCause("ok") /\ HasCause("panic") /\ HasCause("again")
         /\ HasCause(fault.answer)
         /\ \A call : HasCause(Answer(call, TRUE, fault))
         /\ \A call, exists : fault.call = call => HasCause(Answer(call, exists, fault))
<1>1. fault.answer \in Statuses \cup {"ok"}
  BY DEF Typed, TypeOK, Faults, NoFault
<1>2. HasCause("ok") /\ HasCause("panic") /\ HasCause("again")
  BY DEF HasCause, Terminal
<1>3. HasCause(fault.answer)
  BY <1>1 DEF HasCause, Terminal, Statuses
<1>4. QED
  BY <1>2, <1>3 DEF Answer

LEMMA RefusalIsCause == Refused => HasCause("invalid") /\ HasCause("notFound")
  BY DEF HasCause, Terminal

LEMMA RetryIsCause == Retried => HasCause("generic")
  BY DEF HasCause, Terminal

\* What the API lacks: a resource that is not there.
LEMMA AbsenceIsCause ==
  ASSUME Typed, NEW call, NEW exists, ~exists => Refused
  PROVE  HasCause(Answer(call, exists, fault))
<1>1. CASE fault.call = call
  BY <1>1, FaultIsCause
<1>2. CASE fault.call # call
  BY <1>2, FaultIsCause, RefusalIsCause DEF Answer
<1>3. QED
  BY <1>1, <1>2

LEMMA SKUHasCause ==
  ASSUME Typed
  PROVE  HasCause(GetSKU(input.azure, fault))
<1>1. input.azure.sku = Nil => Refused
  BY DEF Refused
<1>2. QED
  BY <1>1, FaultIsCause, RefusalIsCause DEF GetSKU

LEMMA NetworkHasCause ==
  ASSUME Typed, input.infra.id # Nil
  PROVE  HasCause(NetworkSpecError) /\ (NetworkSpecError = "ok" => ~TooSlow)
<1> DEFINE vnet   == IF input.spec.vnet THEN "ok" ELSE "invalid"
           sku    == IF input.spec.accelerated THEN GetSKU(input.azure, fault) ELSE "ok"
           fast   == IF input.spec.accelerated /\ input.azure.sku # Nil
                        /\ ~input.azure.sku.accelerated THEN "invalid" ELSE "ok"
           subnet == IF input.spec.subnet THEN "ok" ELSE "invalid"
           name   == IF input.spec.publicIP
                        /\ Len(GenerateMachinePublicIPName) >= PublicIPLimit
                     THEN "invalid" ELSE "ok"
<1>1. vnet \in Answers /\ fast \in Answers /\ subnet \in Answers /\ name \in Answers
      /\ sku \in Answers
  BY AnswerTyped DEF Answers, GetSKU, Typed, TypeOK
<1>2. NetworkSpecError = FirstError(<<vnet, sku, fast, subnet, name>>)
  BY DEF NetworkSpecError
<1>3. HasCause(vnet) /\ HasCause(fast) /\ HasCause(subnet)
  <2>1. ~input.spec.vnet \/ ~input.spec.subnet \/ TooSlow => Refused
    BY DEF Refused, TooSlow
  <2>2. QED
    BY <2>1, FaultIsCause, RefusalIsCause DEF TooSlow
<1>4. HasCause(sku)
  BY SKUHasCause, FaultIsCause
<1>5. HasCause(name)
  <2>1. input.infra.id \in Seq(STRING) /\ input.name \in Seq(STRING)
    BY InputsAssumption DEF Typed, LabelsTyped
  <2>2. ASSUME NEW S, NEW s \in Seq(S), NEW t \in Seq(S), NEW x \in S
        PROVE  Len(s \o <<x>> \o t) = Len(s) + 1 + Len(t)
    OBVIOUS
  <2>3. "-" \in STRING
    BY LiteralsAssumption
  <2>4. Len(input.infra.id \o <<"-">> \o input.name) =
          Len(input.infra.id) + 1 + Len(input.name)
    BY <2>1, <2>2, <2>3
  <2>5. input.spec.publicIP /\ Len(GenerateMachinePublicIPName) >= PublicIPLimit => Refused
    BY <2>4 DEF Refused, GenerateMachinePublicIPName
  <2>6. QED
    BY <2>5, FaultIsCause, RefusalIsCause
<1>6. fast = "ok" => ~TooSlow
  BY DEF TooSlow
<1> HIDE DEF vnet, sku, fast, subnet, name
<1>7. QED
  BY <1>1, <1>2, <1>3, <1>4, <1>5, <1>6, FaultIsCause, FirstErrorOf5

LEMMA ReadsHaveCause ==
  ASSUME Typed, scope.lb = input.spec.internalLB, ~TooSlow
  PROVE  /\ HasCause(ReadsError)
         /\ ReadsError = "ok" => AppGroupsError(InterfaceSpec, input.azure, fault) = "ok"
<1> DEFINE n == InterfaceSpec
           subnet == GetSubnet(scope.at, input.azure, fault)
           sku == GetSKU(input.azure, fault)
           fast == IF n.accelerated /\ input.azure.sku # Nil /\ ~input.azure.sku.accelerated
                   THEN "generic" ELSE "ok"
           publicIP == GetPublicIP(n, fault)
           balancer == GetPublicLoadBalancer(n, input.azure, fault)
           rule == IF NatRulePanics(n, input.azure) THEN "panic" ELSE "ok"
           internal == GetInternalLoadBalancer(n, input.azure, fault)
           security == GetSecurityGroup(n, input.azure, fault)
           groups == AppGroupsError(n, input.azure, fault)
<1>1. /\ n.publicLB = input.spec.publicLB /\ n.internalLB = input.spec.internalLB
      /\ n.securityGroup = input.spec.securityGroup /\ n.appGroups = input.spec.appGroups
      /\ n.accelerated = input.spec.accelerated
  BY DEF InterfaceSpec
<1> HIDE DEF n
<1>2. {"ok", "invalid", "generic", "panic"} \subseteq Answers
  BY DEF Answers
<1>3. \A call, exists : Answer(call, exists, fault) \in Answers
  BY AnswerTyped DEF Typed, TypeOK
<1>4. /\ subnet \in Answers /\ sku \in Answers /\ fast \in Answers /\ publicIP \in Answers
      /\ balancer \in Answers /\ rule \in Answers /\ internal \in Answers
      /\ security \in Answers /\ groups \in Answers
  BY <1>2, <1>3 DEF GetSKU, GetPublicIP, GetSubnet, GetPublicLoadBalancer,
     GetInternalLoadBalancer, GetSecurityGroup, AppGroupsError
<1>5. HasCause(subnet)
  BY AbsenceIsCause DEF GetSubnet, Refused
<1>6. HasCause(sku)
  BY SKUHasCause
<1>7. HasCause(fast) /\ HasCause(rule)
  BY <1>1, FaultIsCause DEF TooSlow
<1>8. HasCause(publicIP)
  BY FaultIsCause DEF GetPublicIP
<1>9. HasCause(balancer)
  <2>1. n.publicLB # Nil /\ n.publicLB \notin DOMAIN input.azure.lbs => Refused
    BY <1>1 DEF Refused
  <2>2. QED
    BY <2>1, AbsenceIsCause, FaultIsCause DEF GetPublicLoadBalancer
<1>10. HasCause(internal)
  <2>1. n.internalLB # Nil /\ n.internalLB \notin DOMAIN input.azure.lbs => Refused
    BY <1>1 DEF Refused
  <2>2. QED
    BY <2>1, AbsenceIsCause, FaultIsCause DEF GetInternalLoadBalancer
<1>11. HasCause(security)
  <2>1. n.securityGroup # Nil /\ n.securityGroup \notin input.azure.security => Refused
    BY <1>1 DEF Refused
  <2>2. QED
    BY <2>1, AbsenceIsCause, FaultIsCause DEF GetSecurityGroup
<1>12. HasCause(groups)
  <2>1. CASE groups = "ok"
    BY <2>1, FaultIsCause
  <2>2. CASE groups # "ok"
    <3>1. groups = "generic" /\ GetApplicationSecurityGroups(n, input.azure, fault) = "notFound"
      BY <2>2 DEF AppGroupsError
    <3>2. fault.call = "appGroups" \/ ~(input.spec.appGroups \subseteq input.azure.security)
      BY <1>1, <3>1 DEF GetApplicationSecurityGroups, Answer
    <3>3. fault.call = "appGroups" \/ Retried
      BY <3>2 DEF Retried
    <3>4. QED
      BY <3>1, <3>3 DEF HasCause, Terminal
  <2>3. QED
    BY <2>1, <2>2
<1>13. /\ InterfaceErrorStackHub(n, scope.at, input.azure, fault) =
            FirstError(<<subnet, publicIP, balancer>>)
       /\ InterfaceError(n, scope.at, input.azure, fault) =
            FirstError(<<subnet, sku, fast, publicIP, balancer>>)
       /\ InterfaceErrorAfterLB(n, input.azure, fault) =
            FirstError(<<rule, internal, security, groups>>)
  BY DEF InterfaceError, InterfaceErrorStackHub, InterfaceErrorAfterLB
<1> HIDE DEF subnet, sku, fast, publicIP, balancer, rule, internal, security, groups
<1>14. HasCause(InterfaceErrorStackHub(n, scope.at, input.azure, fault))
  BY <1>4, <1>5, <1>8, <1>9, <1>13, FaultIsCause, FirstErrorOf3
<1>15. HasCause(InterfaceError(n, scope.at, input.azure, fault))
  BY <1>4, <1>5, <1>6, <1>7, <1>8, <1>9, <1>13, FaultIsCause, FirstErrorOf5
<1>16. /\ HasCause(InterfaceErrorAfterLB(n, input.azure, fault))
       /\ InterfaceErrorAfterLB(n, input.azure, fault) = "ok" => groups = "ok"
  BY <1>4, <1>7, <1>10, <1>11, <1>12, <1>13, FaultIsCause, FirstErrorOf4
<1>17. QED
  BY <1>14, <1>15, <1>16 DEF ReadsError, n, groups

\* A request that createVirtualMachine could not send.
LEMMA SentHasCause ==
  ASSUME Typed, NEW call \in {"vm", "getInterface"}, NEW sent \in BOOLEAN
  PROVE  HasCause(SentAnswer(call, sent))
<1>1. CASE fault.call = call /\ ~sent
  BY <1>1 DEF SentAnswer, HasCause, Terminal
<1>2. CASE ~(fault.call = call /\ ~sent)
  BY <1>2, FaultIsCause DEF SentAnswer
<1>3. QED
  BY <1>1, <1>2

LEMMA GetVMHasCause ==
  ASSUME Typed
  PROVE  HasCause(GetVMError)
<1>1. input.spec.ssh = "malformed" => Retried
  BY DEF Retried
<1>2. QED
  BY <1>1, FaultIsCause, RetryIsCause DEF GetVMError

LEMMA VMHasCause ==
  ASSUME Typed, NEW sent \in BOOLEAN
  PROVE  HasCause(VMSpecError(sent))
<1> DEFINE diagnostics == IF createDiagnosticsConfigFails(input.spec.diagnostics)
                          THEN "invalid" ELSE "ok"
           reservation == IF validateAzureCapacityReservationGroupIDFails(input.spec.reservation)
                          THEN "generic" ELSE "ok"
           userData    == IF getCustomUserDataFails THEN "generic" ELSE "ok"
           interface   == SentAnswer("getInterface", sent)
           settings    == IF ~Stack /\ VMSpecInvalid(VMSpec) THEN "invalid" ELSE "ok"
<1>1. /\ diagnostics \in Answers /\ reservation \in Answers
      /\ userData \in Answers /\ settings \in Answers
  BY DEF Answers
<1>2. interface \in Answers
  BY ReadsTyped DEF Typed, TypeOK
<1>3. VMSpecError(sent) = FirstError(<<diagnostics, reservation, userData, interface, settings>>)
  BY DEF VMSpecError
<1>4. HasCause(diagnostics) /\ HasCause(settings)
  <2>1. /\ createDiagnosticsConfigFails(input.spec.diagnostics) => Refused
        /\ ~Stack /\ VMSpecInvalid(VMSpec) => Refused
    BY DEF Refused, createDiagnosticsConfigFails
  <2>2. QED
    BY <2>1, FaultIsCause, RefusalIsCause
<1>5. HasCause(reservation)
  <2>1. input.spec.reservation # Nil => input.spec.reservation.parts \in Seq(STRING)
    BY InputsAssumption DEF Typed, SpecTyped
  <2>2. validateAzureCapacityReservationGroupIDFails(input.spec.reservation) => Retried
    BY <2>1, ParserIsExact DEF validateAzureCapacityReservationGroupIDFails, Retried
  <2>3. QED
    BY <2>2, FaultIsCause, RetryIsCause
<1>6. HasCause(userData)
  <2>1. getCustomUserDataFails => fault.call = "userData" \/ Retried
    BY DEF getCustomUserDataFails, Retried
  <2>2. QED
    BY <2>1, FaultIsCause DEF HasCause, Terminal
<1>7. HasCause(interface)
  BY SentHasCause
<1> HIDE DEF diagnostics, reservation, userData, interface, settings
<1>8. QED
  BY <1>1, <1>2, <1>3, <1>4, <1>5, <1>6, <1>7, FaultIsCause, FirstErrorOf5

\* A cause remains one while the call that met it ends.
LEMMA CauseLasts ==
  ASSUME input' = input, scope'.at = scope.at, fault' = fault, moved => moved',
         NEW a, HasCause(a)
  PROVE  HasCause(a)'
<1>1. Stack' = Stack /\ VMSpec' = VMSpec
  BY DEF Stack, VMSpec, PlaceOf
<1>2. Refused => Refused'
  BY <1>1 DEF Refused
<1>3. Retried => Retried'
  BY DEF Retried
<1>4. QED
  BY <1>2, <1>3 DEF HasCause

\* A step of CreateMachine whose error has a cause.
LEMMA ExplainedStep ==
  ASSUME Explained, NEW label \in Creating, NEW a, NEW next \in Creating \cup {"refresh"},
         Step(label, a, next), HasCause(a), scope'.at = scope.at \/ a = "panic",
         scope'.lb = scope.lb \/ a = "panic",
         a = "ok" /\ next \in {"pip", "reads"} => ~TooSlow,
         a = "ok" /\ next = "nic" => AppGroupsError(InterfaceSpec, input.azure, fault) = "ok",
         a = "ok" /\ next = "refresh" => \E r \in cloud' : r.kind = "vm"
  PROVE  Explained'
<1>1. UNCHANGED <<input, fault, moved>> /\ input.infra.id # Nil
  BY DEF Step, Explained, AtWork
<1>2. CASE a = "ok"
  <2>1. pc' = next /\ scope'.lb = scope.lb
    BY <1>2 DEF Step
  <2>2. QED
    BY <1>1, <1>2, <2>1 DEF Explained, AtWork, Creating, TooSlow, InterfaceSpec
<1>3. CASE a # "ok"
  <2>1. answer' = a /\ pc' = IF a = "panic" THEN "idle" ELSE "persist"
    BY <1>3 DEF Step, Ends
  <2>2. a # "panic" => HasCause(a)'
    BY <1>1, CauseLasts
  <2>3. (pc = "persist" => HasCause(answer))'
    BY <2>1, <2>2
  <2>4. QED
    BY <1>1, <2>1, <2>3 DEF Explained, AtWork, Creating
<1>4. QED
  BY <1>2, <1>3

LEMMA ExplainedUpdate == Typed /\ Placed /\ Explained /\ Update => Explained'
<1> SUFFICES ASSUME Typed, Placed, Explained, Update
             PROVE  Explained'
  OBVIOUS
<1>1. /\ pc = "refresh" /\ pc' = "persist" /\ UNCHANGED <<input, moved, fault>>
      /\ scope'.at = scope.at /\ input.infra.id # Nil
  BY DEF Update, Ends, Explained, AtWork
<1>2. ~moved => Has("vm", scope)
  <2>1. ~moved => /\ PlaceOf(scope) = Here
                  /\ \E r \in cloud : r.kind = "vm" /\ r.place = Here
    BY <1>1 DEF Explained, Placed, AtWork
  <2>2. QED
    BY <2>1 DEF Has
<1>3. \/ answer' = "ok"
      \/ answer' = "generic" /\ (fault.call = "readVM" \/ moved)
  BY <1>2 DEF Update, Ends
<1>4. HasCause(answer)'
  BY <1>1, <1>3 DEF HasCause, Terminal
<1>5. QED
  BY <1>1, <1>4 DEF Explained, AtWork, Creating

LEMMA ExplainedVM == Typed /\ Explained /\ createVirtualMachine => Explained'
<1> SUFFICES ASSUME Typed, Explained, createVirtualMachine
             PROVE  Explained'
  OBVIOUS
<1>1. PICK a : /\ Step("vm", a, "refresh") /\ HasCause(a)
               /\ a = "ok" => \E r \in cloud' : r.kind = "vm"
  <2>1. Has("vm", scope) => \E r \in cloud : r.kind = "vm"
    BY DEF Has
  <2>2. \E r \in Put("vm", VMRequest) : r.kind = "vm"
    BY PutPlaces
  <2>3. fault.answer = "ok" => fault = NoFault
    BY DEF Typed, TypeOK, Faults, NoFault, Statuses
  <2>4. \A sent \in BOOLEAN : fault.call = "vm" /\ ~sent => SentAnswer("vm", sent) = "invalid"
    BY DEF SentAnswer
  <2>5. fault.call = "delete" => fault.answer # "ok"
    BY <2>3 DEF NoFault
  <2>6. CASE GetVMError # "ok" /\ Step("vm", GetVMError, "refresh")
    BY <2>6, GetVMHasCause
  <2>7. CASE Step("vm", "ok", "refresh") /\ UNCHANGED cloud /\ Has("vm", scope)
    BY <2>1, <2>7, FaultIsCause
  <2>8. CASE \E a \in {"again", fault.answer} :
               (a = "again" \/ fault.call = "delete") /\ Step("vm", a, "refresh")
    BY <2>5, <2>8, FaultIsCause
  <2>9. CASE \E sent \in BOOLEAN :
               VMSpecError(sent) # "ok" /\ Step("vm", VMSpecError(sent), "refresh")
    BY <2>9, VMHasCause
  <2>10. ASSUME NEW sent \in BOOLEAN, Step("vm", SentAnswer("vm", sent), "refresh"),
                \/ cloud' = Put("vm", VMRequest)
                \/ fault.call = "vm" /\ ~sent
         PROVE  \E a : /\ Step("vm", a, "refresh") /\ HasCause(a)
                       /\ a = "ok" => \E r \in cloud' : r.kind = "vm"
    BY <2>2, <2>4, <2>10, SentHasCause
  <2>11. QED
    BY <2>6, <2>7, <2>8, <2>9, <2>10, VMStep
<1>2. QED
  BY <1>1, VMStep, ExplainedStep DEF Creating

\* The interface is refused only for a lookup that failed unnoticed.
LEMMA RefusedInterfaceHasCause ==
  ASSUME Typed, Explained, InterfaceRefused
  PROVE  HasCause("client")
<1> DEFINE lookup == GetApplicationSecurityGroups(InterfaceSpec, input.azure, fault)
<1>1. AppGroupsError(InterfaceSpec, input.azure, fault) = "ok"
  BY DEF Explained, InterfaceRefused, Step
<1>2. Nil \in AppGroups(InterfaceSpec, input.azure, fault)
  BY DEF InterfaceRefused, NICRequest, InterfaceRequest, InterfaceRequestStackHub
<1>3. Nil \notin InterfaceSpec.appGroups
  BY InputsAssumption DEF Typed, SpecTyped, InterfaceSpec
<1>4. lookup \notin {"ok", "notFound"}
  BY <1>1, <1>2, <1>3 DEF AppGroups, AppGroupsError
<1>5. fault.call = "appGroups"
  BY <1>4 DEF GetApplicationSecurityGroups, Answer
<1>6. QED
  BY <1>5 DEF HasCause, Terminal

LEMMA ExplainedNext ==
  Typed /\ Placed /\ SpecLB /\ Prepared /\ Explained /\ [Next]_vars => Explained'
<1> SUFFICES ASSUME Typed, Placed, SpecLB, Prepared, Explained, [Next]_vars
             PROVE  Explained'
  OBVIOUS
<1>1. CASE Exists
  BY <1>1 DEF Exists, Explained, AtWork, Creating, ScopeFails, NewMachineScopeFails, Has
<1>2. CASE CreateScopeFails
  BY <1>2 DEF CreateScopeFails, Explained, AtWork, Creating
<1>3. CASE CreateScope \/ UpdateScope
  BY <1>3 DEF CreateScope, UpdateScope, Explained, AtWork, Creating
<1>4. CASE createNetworkInterface
  <2>1. input.infra.id # Nil
    BY <1>4 DEF createNetworkInterface, Step, Explained, AtWork, Creating
  <2>2. QED
    BY <1>4, <2>1, NetworkHasCause, ExplainedStep DEF createNetworkInterface, Creating
<1>5. CASE CreatePublicIP
  <2>1. ~TooSlow
    BY <1>5 DEF CreatePublicIP, PutStep, Step, Explained
  <2>2. QED
    BY <1>5, <2>1, FaultIsCause, ExplainedStep DEF CreatePublicIP, PutStep, Creating
<1>6. CASE ReadForInterface
  <2>1. ~TooSlow /\ scope.lb = input.spec.internalLB
    BY <1>6 DEF ReadForInterface, Step, Explained, SpecLB, Creating
  <2>2. (scope'.at = scope.at /\ scope'.lb = scope.lb) \/ ReadsError = "panic"
    BY <1>6 DEF ReadForInterface
  <2>3. QED
    BY <1>6, <2>1, <2>2, ReadsHaveCause, ExplainedStep DEF ReadForInterface, Creating
<1>7. CASE CreateInterface
  BY <1>7, FaultIsCause, ExplainedStep DEF CreateInterface, PutStep, Creating
<1>8. CASE InterfaceRefused
  BY <1>8, RefusedInterfaceHasCause, ExplainedStep DEF InterfaceRefused, Creating
<1>9. CASE GetZonesStep
  <2> DEFINE given == input.spec.availabilitySet
             a == IF given # Nil THEN "ok" ELSE Answer("zones", TRUE, fault)
  <2>1. HasCause(a)
    BY FaultIsCause
  <2>2. PICK next \in {"domains", "vm"} :
          Step("set", a, next) /\ scope'.at = scope.at /\ scope'.lb = scope.lb
    BY <1>9 DEF GetZonesStep
  <2> HIDE DEF a
  <2>3. QED
    BY <2>1, <2>2, ExplainedStep DEF Creating
<1>10. CASE getMaximumFaultDomainCount
  <2> DEFINE listing == Answer("sku", TRUE, fault)
             aligned == IF input.azure.aligned THEN "ok" ELSE "generic"
             a == FirstError(<<listing, aligned>>)
  <2>1. listing \in Answers /\ aligned \in Answers
    BY AnswerTyped DEF Typed, TypeOK, Answers
  <2>2. Step("domains", a, "putSet") /\ UNCHANGED scope
    BY <1>10 DEF getMaximumFaultDomainCount
  <2>3. HasCause(listing) /\ HasCause("ok")
    BY FaultIsCause
  <2>4. HasCause(aligned)
    <3>1. ~input.azure.aligned => Retried
      BY <1>10 DEF getMaximumFaultDomainCount, Step, Prepared, Retried
    <3>2. QED
      BY <2>3, <3>1, RetryIsCause
  <2> HIDE DEF listing, aligned
  <2>5. HasCause(a)
    BY <2>1, <2>3, <2>4, FirstErrorOf2
  <2> HIDE DEF a
  <2>6. QED
    BY <2>2, <2>5, ExplainedStep DEF Creating
<1>11. CASE CreateAvailabilitySet
  BY <1>11, FaultIsCause, ExplainedStep DEF CreateAvailabilitySet, PutStep, Creating
<1>12. CASE Persist \/ Crash
  BY <1>12 DEF Persist, Crash, Explained, AtWork, Creating
<1>13. CASE CacheSync \/ EditSecret \/ UNCHANGED vars
  <2>1. UNCHANGED <<input, pc, scope, fault, answer, cloud>> /\ (moved => moved')
    <3>1. EditSecret => (moved => moved')
      BY DEF EditSecret
    <3>2. CacheSync \/ UNCHANGED vars => moved' = moved
      BY DEF CacheSync, vars
    <3>3. UNCHANGED <<input, pc, scope, fault, answer, cloud>>
      BY <1>13 DEF CacheSync, EditSecret, vars
    <3>4. QED
      BY <1>13, <3>1, <3>2, <3>3
  <2>2. (pc = "persist" => HasCause(answer))'
    BY <2>1, CauseLasts DEF Explained
  <2>3. QED
    BY <2>1, <2>2 DEF Explained, AtWork, Creating, TooSlow, InterfaceSpec
<1>14. QED
  BY <1>1, <1>2, <1>3, <1>4, <1>5, <1>6, <1>7, <1>8, <1>9, <1>10, <1>11, <1>12, <1>13,
     ExplainedUpdate, ExplainedVM DEF Next

LEMMA ExplainedHolds == Spec => []Explained
<1>1. Init => Explained
  BY DEF Init, Explained, AtWork, Creating
<1>2. QED
  BY <1>1, ExplainedNext, TypedInit, TypedNext, PlacedInit, PlacedNext, SpecLBInit, SpecLBNext,
     PreparedInit, PreparedNext, PTL DEF Spec

(***************************************************************************)
(* The answer an attempt of actuator.Create or Update ends with has a      *)
(* cause of its class, with the exceptions the property lists; and a       *)
(* machine becomes Failed by a terminal answer, by a scope that Create     *)
(* could not build, or because its VM is gone, and in no other way.        *)
(***************************************************************************)
THEOREM OutcomeHasCauseHolds == Spec => OutcomeHasCause
<1>1. Typed /\ Explained /\ [Next]_vars
        => [/\ pc = "persist" /\ pc' # pc => HasCause(answer)
            /\ pc # "failed" /\ pc' = "failed" =>
                 \/ pc = "persist" /\ Terminal(answer)
                 \/ pc = "create" /\ (ScopeFails(copy) \/ faults' < faults)
                 \/ pc = "idle" /\ cache.pid]_vars
  <2> SUFFICES ASSUME Typed, Explained, Next
               PROVE  /\ pc = "persist" /\ pc' # pc => HasCause(answer)
                      /\ pc # "failed" /\ pc' = "failed" =>
                           \/ pc = "persist" /\ Terminal(answer)
                           \/ pc = "create" /\ (ScopeFails(copy) \/ faults' < faults)
                           \/ pc = "idle" /\ cache.pid
    OBVIOUS
  <2>1. pc = "persist" => HasCause(answer)
    BY DEF Explained
  <2>2. ASSUME pc # "failed", pc' = "failed"
        PROVE  Exists \/ CreateScopeFails \/ Persist
    BY <2>2, VMStep
    DEF Next, UpdateScope, CreateScope, createNetworkInterface, CreatePublicIP,
        ReadForInterface, CreateInterface, InterfaceRefused, GetZonesStep,
        getMaximumFaultDomainCount, CreateAvailabilitySet, Update, CacheSync, Crash,
        EditSecret, PutStep, Step, Ends
  <2>3. faults \in Int
    BY InputsAssumption DEF Typed, TypeOK, PlacementTyped
  <2>4. CreateScopeFails => pc = "create" /\ (ScopeFails(copy) \/ faults' < faults)
    BY <2>3 DEF CreateScopeFails
  <2>5. /\ Exists /\ pc' = "failed" => pc = "idle" /\ cache.pid
        /\ Persist /\ pc' = "failed" => pc = "persist" /\ Terminal(answer)
    BY DEF Exists, Persist
  <2>6. QED
    BY <2>1, <2>2, <2>4, <2>5
<1>2. QED
  BY <1>1, ExplainedHolds, TypedInit, TypedNext, PTL DEF Spec, OutcomeHasCause

-----------------------------------------------------------------------------
(***************************************************************************)
(* The internal load balancer that Update finds.  A copy of the machine    *)
(* has that of its spec, or one that Update found.                         *)
(***************************************************************************)
Found(lb) == input.master /\ input.spec.internalLB = Nil /\ lb \in PrivateLBs

Findable ==
  /\ input.master /\ input.azure.attached \cap PrivateLBs # {}
  /\ fault.call # "interfaceLBs"

Balanced ==
  /\ \A machine \in {api, cache, copy} :
       machine.lb = input.spec.internalLB \/ Found(machine.lb)
  /\ pc = "persist" =>
       /\ scope.lb = copy.lb \/ Found(scope.lb)
       /\ answer = "ok" /\ Findable => scope.lb # Nil

\* A load balancer that is found exists, so it is not Nil.
LEMMA FoundExists ==
  ASSUME Typed
  PROVE  Nil \notin PrivateLBs
  BY InputsAssumption DEF Typed, AzureTyped, PrivateLBs

LEMMA PopulatedIsFound ==
  ASSUME CIInv, Balanced, pc = "refresh", NEW lb \in PopulatedLB
  PROVE  /\ lb = scope.lb \/ Found(lb)
         /\ Findable => lb # Nil
<1>1. scope.lb = copy.lb /\ Nil \notin PrivateLBs
  BY FoundExists DEF CIInv, SpecLB
<1>2. CASE scope.lb # Nil \/ ~input.master
  BY <1>2 DEF PopulatedLB, Findable
<1>3. CASE scope.lb = Nil /\ input.master
  <2>1. input.spec.internalLB = Nil
    BY <1>1, <1>3 DEF Balanced, Found
  <2>2. ASSUME NEW x \in InterfaceLBs
        PROVE  x \in input.azure.attached \cup {input.spec.publicLB}
    <3>1. SUFFICES ASSUME x \notin input.azure.attached
                   PROVE  x = input.spec.publicLB
      OBVIOUS
    <3>2. PICK r \in cloud : /\ r.kind = "nic"
                            /\ \E pools \in {r.request.v4.pools} \cup
                                  (IF r.request.v6 = Nil THEN {} ELSE {r.request.v6.pools}) :
                                 \E pool \in BagToSet(pools) : x = pool[1]
      BY <2>2, <3>1 DEF InterfaceLBs
    <3>3. OwnPools(r.request)
      BY <3>2 DEF CIInv, RequestsFit, Kinds, Requests, Fitting
    <3>4. x \in LoadBalancers
      BY <3>2, <3>3 DEF OwnPools
    <3>5. QED
      BY <2>1, <3>4 DEF LoadBalancers
  <2> DEFINE found == {x \in InterfaceLBs \cap DOMAIN input.azure.lbs : input.azure.lbs[x].private}
  <2>3. found \subseteq PrivateLBs
    BY <2>2 DEF PrivateLBs
  <2>4. input.azure.attached \cap PrivateLBs \subseteq found
    BY DEF PrivateLBs, InterfaceLBs
  <2>5. lb \in IF fault.call # "interfaceLBs" /\ found # {} THEN found ELSE {scope.lb}
    BY <1>3 DEF PopulatedLB
  <2> HIDE DEF found
  <2>6. QED
    BY <1>1, <1>3, <2>1, <2>3, <2>4, <2>5 DEF Found, Findable
<1>4. QED
  BY <1>2, <1>3

LEMMA BalancedNext == CIInv /\ Balanced /\ [Next]_vars => Balanced'
<1> SUFFICES ASSUME CIInv, Balanced, [Next]_vars
             PROVE  Balanced'
  OBVIOUS
<1>1. input' = input
  BY InputFixed
<1>2. PrivateLBs' = PrivateLBs /\ \A lb : Found(lb)' = Found(lb)
  BY <1>1 DEF PrivateLBs, Found
<1>3. CASE Update
  <2>1. CASE answer' = "ok"
    <3>1. PICK lb \in PopulatedLB : scope'.lb = lb
      BY <1>3, <2>1 DEF Update, Ends
    <3>2. UNCHANGED <<api, cache, copy, fault>> /\ pc = "refresh"
      BY <1>3 DEF Update
    <3>3. scope.lb = copy.lb
      BY <3>2 DEF CIInv, SpecLB
    <3>4. (scope'.lb = copy.lb \/ Found(scope'.lb)) /\ (Findable => scope'.lb # Nil)
      BY <3>1, <3>2, <3>3, PopulatedIsFound
    <3>5. Findable' = Findable
      BY <1>1, <1>2, <3>2 DEF Findable
    <3>6. QED
      BY <1>1, <1>2, <3>2, <3>4, <3>5 DEF Balanced
  <2>2. CASE answer' # "ok"
    <3>1. UNCHANGED <<api, cache, copy, scope>> /\ scope.lb = copy.lb
      BY <1>3, <2>2 DEF Update, Ends, CIInv, SpecLB
    <3>2. QED
      BY <1>1, <1>2, <2>2, <3>1 DEF Balanced
  <2>3. QED
    BY <2>1, <2>2
<1>4. CASE Persist
  <2>1. pc' # "persist" /\ UNCHANGED <<cache, copy>> /\ api'.lb \in {api.lb, scope.lb}
    BY <1>4 DEF Persist, Persisted
  <2>2. scope.lb = copy.lb \/ Found(scope.lb)
    BY <1>4 DEF Persist, Balanced
  <2>3. QED
    BY <1>1, <1>2, <2>1, <2>2 DEF Balanced
<1>5. CASE ~Update /\ ~Persist
  <2>1. /\ api' = api /\ cache' \in {api, cache} /\ copy' \in {cache, copy}
        /\ \/ pc' # "persist"
           \/ pc \in Creating /\ UNCHANGED copy /\ answer' # "ok" /\ scope'.lb = scope.lb
           \/ pc = "persist" /\ UNCHANGED <<copy, scope, answer, fault>>
    <3>1. CASE createVirtualMachine
      BY <3>1, VMStep DEF Step, Ends, Creating
    <3>2. CASE ReadForInterface
      BY <3>2 DEF ReadForInterface, Step, Ends, Creating
    <3>3. ASSUME NEW label \in Creating, NEW a, NEW next \in Creating, Step(label, a, next),
                 scope'.lb = scope.lb
          PROVE  /\ UNCHANGED <<api, cache, copy>> /\ pc \in Creating
                 /\ pc' # "persist" \/ answer' # "ok"
      BY <3>3 DEF Step, Ends, Creating
    <3>4. CASE \/ Exists \/ UpdateScope \/ CreateScopeFails \/ CreateScope
               \/ CacheSync \/ Crash \/ EditSecret \/ UNCHANGED vars
      BY <3>4 DEF Exists, UpdateScope, CreateScopeFails, CreateScope, CacheSync, Crash,
                  EditSecret, vars
    <3>5. CASE createNetworkInterface \/ InterfaceRefused \/ getMaximumFaultDomainCount
      BY <3>3, <3>5
      DEF createNetworkInterface, InterfaceRefused, getMaximumFaultDomainCount, Creating
    <3>6. CASE CreatePublicIP \/ CreateInterface \/ CreateAvailabilitySet
      BY <3>3, <3>6
      DEF CreatePublicIP, CreateInterface, CreateAvailabilitySet, PutStep, Creating
    <3>7. CASE GetZonesStep
      BY <3>3, <3>7 DEF GetZonesStep, Creating
    <3>8. QED
      BY <1>5, <3>1, <3>2, <3>4, <3>5, <3>6, <3>7 DEF Next
  <2>2. pc \in Creating => scope.lb = copy.lb
    BY DEF CIInv, SpecLB
  <2>3. pc = "persist" /\ fault' = fault => Findable' = Findable
    BY <1>1, <1>2 DEF Findable
  <2>4. QED
    BY <1>1, <1>2, <2>1, <2>2, <2>3 DEF Balanced
<1>6. QED
  BY <1>3, <1>4, <1>5

(***************************************************************************)
(* Whatever is lost between the Update that finds an internal load         *)
(* balancer and the patch that stores it, the stored machine keeps the     *)
(* load balancer of its spec, gains only a private one that the interface  *)
(* is behind, and has one, if its lookup succeeds and finds one, as soon   *)
(* as it has a providerID.                                                 *)
(***************************************************************************)
THEOREM InternalLBRecordedHolds == Spec => InternalLBRecorded
<1>1. Init => Balanced
  BY DEF Init, Blank, Balanced
<1>2. CIInv /\ Balanced /\ [Next]_vars
        => [/\ api'.lb # api.lb => /\ input.master /\ input.spec.internalLB = Nil
                                   /\ api'.lb \in PrivateLBs
            /\ /\ ~api.pid /\ api'.pid
               /\ input.master /\ input.azure.attached \cap PrivateLBs # {}
               /\ fault.call # "interfaceLBs"
               => api'.lb # Nil]_vars
  <2> SUFFICES ASSUME CIInv, Balanced, Next, api' # api
               PROVE  /\ api'.lb # api.lb => Found(api'.lb)
                      /\ ~api.pid /\ api'.pid /\ Findable => api'.lb # Nil
    BY DEF Found, Findable
  <2>1. pc = "persist" /\ api' = Persisted
    BY VMStep
    DEF Next, Exists, UpdateScope, CreateScopeFails, CreateScope, createNetworkInterface,
        CreatePublicIP, ReadForInterface, CreateInterface, InterfaceRefused, GetZonesStep,
        getMaximumFaultDomainCount, CreateAvailabilitySet, Update, Persist, CacheSync, Crash,
        EditSecret, PutStep, Step
  <2>2. /\ api'.lb = IF scope.lb # copy.lb THEN scope.lb ELSE api.lb
        /\ api'.pid = (api.pid \/ answer = "ok")
    BY <2>1 DEF Persisted
  <2>3. scope.lb # copy.lb => Found(scope.lb)
    BY <2>1 DEF Balanced
  <2>4. Nil \notin PrivateLBs
    BY FoundExists DEF CIInv
  <2>5. ASSUME ~api.pid, api'.pid, Findable, scope.lb = copy.lb
        PROVE  api.lb # Nil
    <3>1. copy.lb # Nil
      BY <2>1, <2>2, <2>5 DEF Balanced
    <3>2. ~copy.pid
      BY <2>5 DEF CIInv, SpecLB
    <3>3. copy.lb = input.spec.internalLB /\ api.lb = input.spec.internalLB
      BY <2>5, <3>2 DEF CIInv, SpecLB
    <3>4. QED
      BY <3>1, <3>3
  <2>6. QED
    BY <2>2, <2>3, <2>4, <2>5 DEF Found
<1>3. QED
  BY <1>1, <1>2, BalancedNext, CreationInvariant, PTL DEF Spec, InternalLBRecorded

=============================================================================
