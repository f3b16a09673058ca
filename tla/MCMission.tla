------------------------------ MODULE MCMission ------------------------------
(* Instances of MissionStore for TLC: one verification gate that accepts test *)
(* evidence, small sets of ids.  Handlers and ids are only compared for       *)
(* equality, so permuting them is sound.                                      *)
EXTENDS MissionStore, TLC

AnyCompatible == [g \in VGates |-> {"test"}]

IdSymmetry ==
  Permutations(Handlers) \cup Permutations(GateIds) \cup Permutations(EvidenceIds)
=============================================================================
