----------------------------- MODULE RouteTable -----------------------------
(***************************************************************************)
(* What the router's tree stands for: a table with one entry per shape of  *)
(* pattern, an entry being the pattern last registered for each method.    *)
(* Patterns have the same shape when they differ in the names of their     *)
(* parameters only.  A registration of a pattern that the router takes     *)
(* returns, and puts that pattern under the method it was made for, or     *)
(* under all of them; one of any other pattern throws and changes nothing. *)
(***************************************************************************)
CONSTANTS
  Methods,         (* the HTTP methods                                     *)
  Patterns,        (* the patterns that a program may register             *)
  None,            (* no pattern                                           *)
  Shape(_),        (* the pattern without the names of its parameters      *)
  Acceptable(_)    (* is it a pattern the router takes?                    *)

VARIABLES
  routes,          (* routes[s][m]: the pattern of shape s under method m  *)
  lastCall         (* the last registration, and whether it returned       *)

NoCall == [method |-> "none", pattern |-> None, returned |-> FALSE]

Init ==
  /\ routes = <<>>   \* the function with no argument
  /\ lastCall = NoCall

MethodsOf(method) == IF method = "ALL" THEN Methods ELSE {method}

Entry(table, s) == IF s \in DOMAIN table THEN table[s] ELSE [m \in Methods |-> None]

Put(table, methods, p) ==
  [s \in DOMAIN table \cup {Shape(p)} |->
     [m \in Methods |-> IF s = Shape(p) /\ m \in methods THEN p ELSE Entry(table, s)[m]]]

Register(method, p) ==
  /\ lastCall' = [method |-> method, pattern |-> p, returned |-> Acceptable(p)]
  /\ routes' = IF Acceptable(p) THEN Put(routes, MethodsOf(method), p) ELSE routes

Next == \E method \in Methods \cup {"ALL"}, p \in Patterns : Register(method, p)

Spec == Init /\ [][Next]_<<routes, lastCall>>
=============================================================================
