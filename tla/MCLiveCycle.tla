---------------------------- MODULE MCLiveCycle ----------------------------
(* Instances of LiveCycle for TLC. *)
EXTENDS LiveCycle, TLC
=============================================================================
