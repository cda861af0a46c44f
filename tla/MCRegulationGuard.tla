-------------------------- MODULE MCRegulationGuard --------------------------
(* Instances of RegulationGuard for TLC. *)
EXTENDS RegulationGuard
=============================================================================
