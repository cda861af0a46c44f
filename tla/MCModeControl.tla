--------------------------- MODULE MCModeControl ---------------------------
(* Instances of ModeControl for TLC. *)
EXTENDS ModeControl, TLC

Symmetry == Permutations(Selectable) \cup Permutations(Requests)
=============================================================================
