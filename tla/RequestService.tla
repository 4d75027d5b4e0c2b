-------------------------- MODULE RequestService ---------------------------
(***************************************************************************)
(* What Interview.Web promises the clients of its socket, with no thread,  *)
(* no pool and no sweep: a request is new, then accepted, then answered,   *)
(* once, in any order, for as long as the service is up.  The service is   *)
(* closed when it cannot start and when the event loop breaks; an accepted *)
(* request that the program cannot answer (its handler writes nothing, or  *)
(* the worker throws) crashes it.  Closed with accepted requests left, it  *)
(* may still crash, as their workers go on with a router that is gone.  It *)
(* never comes back, and answers nothing once it is not up.                *)
(***************************************************************************)
CONSTANTS
  Requests,      (* the requests that clients send                         *)
  Kinds,         (* what their handling does; only "plain" is answerable   *)
  LoopMayFail    (* can the event loop break?                              *)

VARIABLES
  kind,          (* kind[r]: fixed by the client's request and the routes  *)
  stage,         (* stage[r]: "new", "accepted" or "answered"              *)
  service        (* "starting", "up", "closed" or "crashed"                *)

vars == <<kind, stage, service>>

Init ==
  /\ kind \in [Requests -> Kinds]
  /\ stage = [r \in Requests |-> "new"]
  /\ service = "starting"

Move(r, from, to) ==
  /\ service = "up"
  /\ stage[r] = from
  /\ stage' = [stage EXCEPT ![r] = to]
  /\ UNCHANGED <<kind, service>>

Open ==
  /\ service = "starting"
  /\ service' = "up"
  /\ UNCHANGED <<kind, stage>>

Accept(r) == Move(r, "new", "accepted")

Answer(r) == kind[r] = "plain" /\ Move(r, "accepted", "answered")

(* An accepted request that cannot be answered.                            *)
Unanswerable == \E r \in Requests : stage[r] = "accepted" /\ kind[r] # "plain"

Unanswered == \E r \in Requests : stage[r] = "accepted"

Become(s) ==
  /\ service' = s
  /\ UNCHANGED <<kind, stage>>

FailToStart     == service = "starting" /\ Become("closed")
BreakLoop       == service = "up" /\ LoopMayFail /\ Become("closed")
StopForFault    == service = "up" /\ Unanswerable /\ Become("crashed")
CrashAfterClose == service = "closed" /\ Unanswered /\ Become("crashed")

Next ==
  \/ Open
  \/ FailToStart
  \/ BreakLoop
  \/ StopForFault
  \/ CrashAfterClose
  \/ \E r \in Requests : Accept(r) \/ Answer(r)

Fairness ==
  /\ WF_vars(StopForFault)
  /\ \A r \in Requests : WF_vars(Answer(r))

Spec == Init /\ [][Next]_vars /\ Fairness
=============================================================================
