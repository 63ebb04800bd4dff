----------------------------- MODULE VMParameters -----------------------------
(***************************************************************************)
(* What the PUT of a virtual machine asks Azure for: the pure functions of *)
(* services/virtualmachines that derive the request from the provider      *)
(* spec, for Azure (virtualmachines.go) and for Azure Stack Hub            *)
(* (virtualmachines_stack.go).                                             *)
(*                                                                         *)
(* A pointer that may be nil, and a string that may be empty where the     *)
(* code treats it as unset, is Nil or the value.  Every error the security *)
(* profile and the data disks can meet is an InvalidMachineConfiguration,  *)
(* so which check fires first is not told apart.                           *)
(***************************************************************************)
EXTENDS MachineScope

-----------------------------------------------------------------------------
(***************************************************************************)
(* Types of the part of the provider spec that reaches the VM              *)
(***************************************************************************)

UEFI == [secureBoot: BOOLEAN, vTPM: BOOLEAN]

SecurityProfile ==
  [atHost: BOOLEAN, type: {Nil, "ConfidentialVM", "TrustedLaunch"},
   confidential: UEFI \cup {Nil}, trusted: UEFI \cup {Nil}]

OSDisk ==
  [os: {"Linux", "Windows"}, encryptionSet: BOOLEAN,
   encryptionType: {Nil, "VMGuestStateOnly", "DiskWithVMGuestState"},
   caching: BOOLEAN, ephemeral: BOOLEAN]

\* wellFormed: the suffix matches the pattern and the name has at most 80 letters
DataDisk ==
  [suffix: STRING, wellFormed: BOOLEAN, size: Int, ultra: BOOLEAN, caching: Text,
   lun: Int, policy: STRING, encryptionSet: BOOLEAN]

Image == [type: {Nil, "MarketplaceNoPlan", "MarketplaceWithPlan"},
          complete: BOOLEAN, resourceID: BOOLEAN]

\* The security profile of a request.
RequestedProfile ==
  [atHost: BOOLEAN, type: {Nil, "ConfidentialVM", "TrustedLaunch"}, uefi: UEFI \cup {Nil}]

ASSUME ProfileAssumption == Nil \notin UEFI /\ Nil \notin RequestedProfile

-----------------------------------------------------------------------------
(***************************************************************************)
(* Azure                                                                   *)
(***************************************************************************)

\* Without a key one is generated for Linux; Windows logs on by password.
generateOSProfile(v) ==
  [windows    |-> v.osDisk.os = "Windows",
   key        |-> CASE v.osDisk.os = "Windows" -> Nil
                    [] v.ssh = Nil             -> "generated"
                    [] OTHER                   -> v.ssh,
   customData |-> v.userData # Nil]

generateOSDisk(v) ==
  [encryptionSet  |-> v.osDisk.encryptionSet,
   encryptionType |-> v.osDisk.encryptionType,
   caching        |-> v.osDisk.caching,
   ephemeral      |-> v.osDisk.ephemeral]

\* The combinations generateSecurityProfile refuses.
SecurityInvalid(v) ==
  LET p == v.security
      e == v.osDisk.encryptionType
      trusted == p.trusted # Nil /\ (p.trusted.secureBoot \/ p.trusted.vTPM)
  IN /\ p # Nil
     /\ IF e # Nil
        THEN \/ p.type # "ConfidentialVM"
             \/ p.confidential = Nil
             \/ ~p.confidential.vTPM
             \/ /\ e = "DiskWithVMGuestState"
                /\ p.atHost \/ ~p.confidential.secureBoot
        ELSE \/ p.type = "TrustedLaunch" /\ p.trusted = Nil
             \/ trusted /\ p.type # "TrustedLaunch"

\* Mutant: an encryption type alone makes the VM confidential, the settings are dropped.
generateSecurityProfileNoSecureBoot(v) ==
  IF v.security = Nil THEN Nil
  ELSE [atHost |-> v.security.atHost,
        type   |-> IF v.osDisk.encryptionType # Nil THEN "ConfidentialVM" ELSE Nil,
        uefi   |-> IF v.osDisk.encryptionType # Nil
                   THEN [secureBoot |-> FALSE, vTPM |-> TRUE] ELSE Nil]

generateSecurityProfile(v) ==
  LET p == v.security
      trusted == p.trusted # Nil /\ (p.trusted.secureBoot \/ p.trusted.vTPM)
  IN CASE p = Nil -> Nil
       [] p # Nil /\ v.osDisk.encryptionType # Nil ->
            [atHost |-> p.atHost, type |-> "ConfidentialVM",
             uefi |-> [secureBoot |-> p.confidential.secureBoot, vTPM |-> TRUE]]
       [] p # Nil /\ v.osDisk.encryptionType = Nil /\ trusted ->
            [atHost |-> p.atHost, type |-> "TrustedLaunch", uefi |-> p.trusted]
       [] OTHER -> [atHost |-> p.atHost, type |-> Nil, uefi |-> Nil]

\* Mutant: the map of seen LUNs is never consulted.
DataDisksInvalidNoLun(disks) ==
  \E i \in DOMAIN disks :
     LET d == disks[i]
     IN \/ ~d.wellFormed
        \/ d.size < 4
        \/ \E j \in 1..(i - 1) : disks[j].suffix = d.suffix
        \/ d.ultra /\ d.caching \notin {Nil, "None"}
        \/ d.lun < 0 \/ d.lun > 63
        \/ d.policy \notin {"Delete", "Detach"}

\* The loop refuses disk i because of itself or of a disk it has seen before.
DataDisksInvalid(disks) ==
  \E i \in DOMAIN disks :
     LET d == disks[i]
     IN \/ ~d.wellFormed
        \/ d.size < 4
        \/ \E j \in 1..(i - 1) : disks[j].suffix = d.suffix
        \/ d.ultra /\ d.caching \notin {Nil, "None"}
        \/ d.lun < 0 \/ d.lun > 63
        \/ \E j \in 1..(i - 1) : disks[j].lun = d.lun
        \/ d.policy \notin {"Delete", "Detach"}

generateDataDisks(disks) ==
  [i \in DOMAIN disks |->
     [name |-> disks[i].suffix, size |-> disks[i].size, lun |-> disks[i].lun,
      ultra |-> disks[i].ultra, caching |-> disks[i].caching,
      policy |-> disks[i].policy, encryptionSet |-> disks[i].encryptionSet]]

\* Spot VMs are always deallocated when evicted.
getSpotVMOptions(v) ==
  IF v.spot = Nil THEN [priority |-> Nil, eviction |-> Nil, maxPrice |-> Nil]
  ELSE [priority |-> "Spot", eviction |-> "Deallocate",
        maxPrice |-> IF v.spot = "priced" THEN "priced" ELSE Nil]

generateImagePlan(image) ==
  image.type \notin {Nil, "MarketplaceNoPlan"} /\ image.complete

\* Unset, the capability follows the data disks.
UltraSSD(v) ==
  CASE v.ultraSSD = "Disabled" -> FALSE
    [] v.ultraSSD = "Enabled"  -> TRUE
    [] OTHER -> IF \E i \in DOMAIN v.dataDisks : v.dataDisks[i].ultra THEN TRUE ELSE Nil

deriveVirtualMachineParameters(v, location, setName, tags) ==
  [location    |-> location,
   image       |-> IF v.image.resourceID THEN "byID" ELSE "marketplace",
   plan        |-> generateImagePlan(v.image),
   osProfile   |-> generateOSProfile(v),
   osDisk      |-> generateOSDisk(v),
   dataDisks   |-> generateDataDisks(v.dataDisks),
   security    |-> generateSecurityProfile(v),
   spot        |-> getSpotVMOptions(v),
   diagnostics |-> v.diagnostics,
   ultraSSD    |-> UltraSSD(v),
   identity    |-> v.identity,
   zone        |-> v.zone,
   set         |-> setName,
   reservation |-> v.reservation # Nil,
   tags        |-> tags]

\* CreateOrUpdate gives up before the PUT.
VMSpecInvalid(v) == SecurityInvalid(v) \/ DataDisksInvalid(v.dataDisks)

-----------------------------------------------------------------------------
(***************************************************************************)
(* Azure Stack Hub: the settings its API of 2019 has no field for are left *)
(* out without an error, and nothing is validated.                         *)
(***************************************************************************)

generateOSProfileStackHub(v) == generateOSProfile(v)

deriveVirtualMachineParametersStackHub(v, location, setName, tags) ==
  [location    |-> location,
   image       |-> IF v.image.resourceID THEN "byID" ELSE "marketplace",
   plan        |-> FALSE,
   osProfile   |-> generateOSProfileStackHub(v),
   osDisk      |-> [encryptionSet |-> FALSE, encryptionType |-> Nil,
                    caching |-> FALSE, ephemeral |-> FALSE],
   dataDisks   |-> << >>,
   security    |-> Nil,
   spot        |-> [priority |-> Nil, eviction |-> Nil, maxPrice |-> Nil],
   diagnostics |-> Nil,
   ultraSSD    |-> Nil,
   identity    |-> {},
   zone        |-> v.zone,
   set         |-> setName,
   reservation |-> FALSE,
   tags        |-> tags]

=============================================================================
