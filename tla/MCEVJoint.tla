------------------------------ MODULE MCEVJoint ------------------------------
(* Instances of EVJoint for TLC. *)
EXTENDS EVJoint
=============================================================================
