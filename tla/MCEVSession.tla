----------------------------- MODULE MCEVSession -----------------------------
(* Instances of EVSession for TLC. *)
EXTENDS EVSession
=============================================================================
