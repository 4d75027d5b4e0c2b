----------------------------- MODULE RouteCalls -----------------------------
(***************************************************************************)
(* RouteTree with a history of what insert_route is asked for, and that    *)
(* the tree then implements the table of routes.  A registration is a call *)
(* with a method and a pattern; it may return or throw, and the tree alone *)
(* does not say which call it was made by.                                 *)
(***************************************************************************)
EXTENDS RouteTree

VARIABLE lastCall  (* history: the last registration, and how it ended     *)

(* handle_impl is called, for one method or for all.                       *)
Called(method, p) ==
  lastCall' = [method |-> method, pattern |-> p, returned |-> InsertRoute(method, p).ok]

CallsInit ==
  /\ Init
  /\ lastCall = [method |-> "none", pattern |-> None, returned |-> FALSE]

CallsNext ==
  \/ \E p \in Patterns, m \in Methods \cup {"ALL"} : Handle(m, p) /\ Called(m, p)
  \/ \E p \in MountPatterns : Mount(p) /\ UNCHANGED lastCall
  \/ MountNext /\ Called("ALL", Head(pending))

CallsSpec == CallsInit /\ [][CallsNext]_<<vars, lastCall>>

-----------------------------------------------------------------------------
Abstract == INSTANCE RouteTable WITH routes <- Table, Patterns <- AllPatterns

(* Whatever order patterns are registered in, and whatever nodes are split *)
(* or added on the way, each registration does to the table of routes what *)
(* it was called for.  If the pattern is one the router takes, it returns, *)
(* and the pattern is now the one of its shape under the method of the     *)
(* call (under all methods for handle and mount) and every other entry is  *)
(* what it was; if it is not, insert_route throws and every entry is what  *)
(* it was, whatever nodes it has made before (router.tree.cpp:244-312,     *)
(* 470-511).  The check at the start of a mount changes no entry.          *)
ImplementsTable == Abstract!Spec
=============================================================================
