---------------------------- MODULE MCRouteServer ----------------------------
(***************************************************************************)
(* An instance of RouteServer for TLC.                                     *)
(***************************************************************************)
EXTENDS RouteServer

CONSTANTS e1, e2
=============================================================================
