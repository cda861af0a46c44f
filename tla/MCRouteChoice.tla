---------------------------- MODULE MCRouteChoice ----------------------------
(* Instances of RouteChoice for TLC. *)
EXTENDS RouteChoice

OneDay == {"today"}
=============================================================================
