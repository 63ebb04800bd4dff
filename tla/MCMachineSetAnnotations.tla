----------------------- MODULE MCMachineSetAnnotations -----------------------
(* An instance of MachineSetAnnotations for TLC. *)
EXTENDS MachineSetAnnotations

\* Two sizes of different architectures, one of them with the least Azure
\* reports, and one that is not listed.
ThreeSizes ==
  [large |-> [cpu |-> "8", memory |-> 7, gpu |-> "1", arch |-> "Arm64"],
   bare  |-> [cpu |-> "2", memory |-> Nil, gpu |-> Nil, arch |-> Nil],
   other |-> Nil]

Lists == {<< >>, <<<<"team", "a">>, <<"team", "b">>>>, <<<<ArchKey, "riscv">>, <<"word">>>>}
=============================================================================
