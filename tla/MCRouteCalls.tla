---------------------------- MODULE MCRouteCalls ----------------------------
(* Instances of RouteCalls for TLC, with the constants of MCRouteTree.     *)
EXTENDS RouteCalls, MCRouteTree
=============================================================================
