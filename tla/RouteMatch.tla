----------------------------- MODULE RouteMatch -----------------------------
(***************************************************************************)
(* Mux::match (router.mux.cpp), next to the routing of a request.          *)
(***************************************************************************)
EXTENDS Routing

(* A variant for mutation: mount does not set the node's subroutes.        *)
SubroutesNowhere(m, p) == NoMux

(* node->subroutes: set on the wildcard's node by the last mount on it, and *)
(* by nothing else.                                                        *)
SubroutesAt(m, p) ==
  LET regs == Insertions(program[m])
      mounts == {i \in 1..Len(regs) : /\ regs[i].sub # NoMux
                                      /\ IsWildcard(regs[i].pattern)
                                      /\ Shape(regs[i].pattern) = Shape(p)}
  IN  IF mounts = {} THEN NoMux ELSE regs[Max(mounts)].sub

(* Mux::match: the tree, and then the sub-router of the node that it found. *)
RECURSIVE Match(_, _, _, _)
Match(m, ctx, method, path) ==
  LET found == Lookup(m, method, path)
      next == FindRoute(ctx, m, method, path)
      sub == SubroutesAt(m, found.pattern)
  IN  /\ found.hit
      /\ sub # NoMux => Match(sub, next, method, NextRoutePath(next))

-----------------------------------------------------------------------------
(* The path at the root of a mount: its pattern was matched, no wildcard.  *)
AtRootOfMount(i) == PassedOn(i) /\ ~ IsWildcard(trail[i].pattern)

(* A handler took the place of a mount's wildcard, whose node still has    *)
(* the sub-router.                                                         *)
ReplacesMount(i) ==
  ~ PassedOn(i) /\ SubroutesAt(trail[i].mux, trail[i].pattern) # NoMux

(* match says yes exactly when the request is routed to a handler, as its  *)
(* description says (router.h:42-44), except where it is known not to      *)
(* follow: at the root of a mount, where it does not ask the sub-router,   *)
(* and where a handler replaced the wildcard of a mount.                   *)
MatchAgrees ==
  /\ phase = "done"
  /\ \A i \in 1..Len(trail) : ~ AtRootOfMount(i) /\ ~ ReplacesMount(i)
  => (Match(TopMux, NewContext, request.method, RootPath(request.path)) <=> status # 404)
=============================================================================
