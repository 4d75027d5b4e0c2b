-------------------------------- MODULE Mux ---------------------------------
(***************************************************************************)
(* The HTTP router (router.mux.cpp, router.cpp): muxes, the inline muxes   *)
(* that with() and group() make, sub-routers mounted in one another, their *)
(* middlewares, and the way of a request through them.                     *)
(*                                                                         *)
(* A path is a sequence of segments, the last one empty when the path ends *)
(* with a slash: "/" is <<"">>, "/a" is <<"a">>, "/a/" is <<"a", "">>.  A  *)
(* pattern is a path, or ends with the segment "*".  The tree of a mux is  *)
(* the table of its endpoints, which RouteTree shows it to be.             *)
(***************************************************************************)
EXTENDS Naturals, Sequences, FiniteSets, SequencesExt

CONSTANTS
  Muxes,           (* the Mux objects a program makes                      *)
  Root,            (* the one that is given the requests                   *)
  Middlewares,     (* the middlewares, each of which calls the next        *)
  Fallbacks,       (* the handlers for set_not_found and the like          *)
  Methods,         (* the methods of methodsList                           *)
  Segments,        (* what is between two slashes of a path or a pattern   *)
  Patterns,        (* what the program passes to handle, get, post ...     *)
  MountPatterns,   (* what it passes to mount and route                    *)
  Paths,           (* the paths that are requested                         *)
  MaxCalls         (* how many calls make up the routing table             *)

(* A mux that is no mux.                                                   *)
NoMux == "no mux"

(* A path or a pattern has a segment, the one after its first slash.  The  *)
(* tree refuses a pattern with more behind a "*", so that mount, which     *)
(* adds a "*" or "/*", throws for a pattern that ends with one.  A method  *)
(* that is none of methodsList is "unknown".                               *)
ASSUME MuxAssumption ==
  /\ Root \in Muxes
  /\ NoMux \notin Muxes
  /\ {"", "*"} \subseteq Segments
  /\ Patterns \cup MountPatterns \cup Paths \subseteq Seq(Segments) \ {<<>>}
  /\ \A p \in MountPatterns : Last(p) # "*"
  /\ "unknown" \notin Methods
  /\ MaxCalls \in Nat

VARIABLES
  mux,             (* the state of each Mux                                *)
  table,           (* table[m]: the endpoints in the tree that m made      *)
  calls,           (* calls made so far                                    *)
  request          (* the request on its way                               *)

vars == <<mux, table, calls, request>>

NoFallback == [chain |-> <<>>, name |-> "none"]

(* A freshly constructed Mux.                                              *)
Fresh(m) ==
  [kind |-> "mux", parent |-> NoMux, owner |-> m, mws |-> <<>>, built |-> FALSE,
   chain |-> <<>>, notFound |-> NoFallback, notAllowed |-> NoFallback]

Unborn == [Fresh(NoMux) EXCEPT !.kind = "unborn"]

NoRequest ==
  [phase |-> "none", at |-> Root, asked |-> <<>>, path |-> <<>>, method |-> "unknown",
   hint |-> FALSE, ran |-> <<>>, trail |-> <<>>, answers |-> <<>>]

Born(m) == mux[m].kind # "unborn"

Init ==
  /\ mux = [m \in Muxes |-> IF m = Root THEN Fresh(m) ELSE Unborn]
  /\ table = [m \in Muxes |-> {}]
  /\ calls = 0
  /\ request = NoRequest

-----------------------------------------------------------------------------
(* Building the routes                                                     *)

Call ==
  /\ request.phase = "none"
  /\ calls < MaxCalls
  /\ calls' = calls + 1
  /\ UNCHANGED request

NewMux(m) ==
  /\ request.phase = "none"
  /\ ~ Born(m)
  /\ mux' = [mux EXCEPT ![m] = Fresh(m)]
  /\ UNCHANGED <<table, calls, request>>

(* A variant for mutation: middlewares are taken after routes as well.     *)
UseAnyTime(m, w) ==
  /\ Call
  /\ Born(m)
  /\ mux' = [mux EXCEPT ![m].mws = Append(@, w)]
  /\ UNCHANGED table

(* use throws once the handler is built.                                   *)
Use(m, w) ==
  /\ Call
  /\ Born(m)
  /\ ~ mux[m].built
  /\ mux' = [mux EXCEPT ![m].mws = Append(@, w)]
  /\ UNCHANGED table

(* update_route_handler, and its two callers' test: the chain of a mux     *)
(* that is not inline is fixed by the first route or the first with().     *)
Built(mx) ==
  IF mx.kind = "inline" \/ mx.built THEN mx
  ELSE [mx EXCEPT !.built = TRUE, !.chain = mx.mws]

(* A variant for mutation: an inline mux begins a tree of its own.         *)
WithOwnTree(m, i, ws) ==
  /\ Call
  /\ Born(m) /\ ~ Born(i)
  /\ mux' = [mux EXCEPT
               ![m] = Built(@),
               ![i] = [Fresh(i) EXCEPT !.kind = "inline", !.parent = m, !.mws = ws]]
  /\ UNCHANGED table

(* with: an inline mux on the same tree; it has the middlewares of the mux *)
(* it was made from only when that one is inline too.                      *)
With(m, i, ws) ==
  /\ Call
  /\ Born(m) /\ ~ Born(i)
  /\ mux' = [mux EXCEPT
               ![m] = Built(@),
               ![i] = [Fresh(mux[m].owner) EXCEPT
                         !.kind = "inline",
                         !.parent = m,
                         !.mws = (IF mux[m].kind = "inline" THEN mux[m].mws ELSE <<>>) \o ws,
                         !.notFound = mux[m].notFound,
                         !.notAllowed = mux[m].notAllowed]]
  /\ UNCHANGED table

(* What handle_impl does to the mux: an inline one gets a handler that     *)
(* only serves to refuse use() from then on.                               *)
AfterHandle(mx) ==
  IF mx.kind = "inline" THEN [mx EXCEPT !.built = TRUE] ELSE Built(mx)

(* An endpoint: who registered it, the inline middlewares around it, and   *)
(* the mux that is mounted there, if any.                                  *)
Endpoint(m, method, p, sub) ==
  [by |-> m, method |-> method, pattern |-> p, sub |-> sub,
   chain |-> IF mux[m].kind = "inline" THEN mux[m].mws ELSE <<>>]

(* insert_route: the endpoints replace those of the same pattern and method. *)
Inserted(eps, new) ==
  {e \in eps : \A n \in new : e.pattern # n.pattern \/ e.method # n.method} \cup new

MethodsOf(method) == IF method = "ALL" THEN Methods ELSE {method}

Handle(m, method, p) ==
  /\ Call
  /\ Born(m)
  /\ mux' = [mux EXCEPT ![m] = AfterHandle(@)]
  /\ table' = [table EXCEPT ![mux[m].owner] =
                 Inserted(@, {Endpoint(m, n, p, NoMux) : n \in MethodsOf(method)})]

EndsWithSlash(p) == Last(p) = ""

WildcardOf(p) == (IF EndsWithSlash(p) THEN Front(p) ELSE p) \o <<"*">>

(* The patterns a mount registers.                                         *)
MountedAt(p) == {WildcardOf(p)} \cup IF EndsWithSlash(p) THEN {} ELSE {p, p \o <<"">>}

IsMounted(s) == \E m \in Muxes : \E e \in table[m] : e.sub = s

(* mount's inheritance: what set_not_found and set_method_not_allowed make *)
(* of the sub-router's notFoundHandler.                                    *)
Inheriting(sub, parent) ==
  [sub EXCEPT !.notFound =
     IF sub.notAllowed = NoFallback /\ parent.notAllowed # NoFallback THEN parent.notAllowed
     ELSE IF @ = NoFallback THEN parent.notFound ELSE @]

(* mount, and route, which makes the sub-router first: the sub-router      *)
(* inherits the handlers it has not got, then three insertions.  A program *)
(* mounts a sub-router once, as route does.                                *)
Mount(m, p, s) ==
  /\ Call
  /\ Born(m) /\ mux[s].kind = "mux" /\ s # Root
  /\ ~ IsMounted(s) /\ s # m
  /\ \A e \in table[mux[m].owner] : e.pattern # WildcardOf(p)
  /\ mux' = [mux EXCEPT
               ![m] = AfterHandle(@),
               ![s] = Inheriting(@, mux[m])]
  /\ table' = [table EXCEPT ![mux[m].owner] =
                 Inserted(@, {Endpoint(m, n, q, s) : n \in Methods, q \in MountedAt(p)})]

(* set_not_found and set_method_not_allowed on an inline mux wrap the      *)
(* handler in its middlewares and set it on the mux it was made from; the  *)
(* second one assigns notFoundHandler all the same.  update_subroutes goes *)
(* over get_routes(), which is always empty, so no sub-router is told.     *)
SetFallback(m, f) ==
  /\ Call
  /\ Born(m)
  /\ mux' = IF mux[m].kind = "inline"
            THEN [mux EXCEPT ![mux[m].parent].notFound = [chain |-> mux[m].mws, name |-> f]]
            ELSE [mux EXCEPT ![m].notFound = [chain |-> <<>>, name |-> f]]
  /\ UNCHANGED table

SetNotFound(m, f) == SetFallback(m, f)
SetMethodNotAllowed(m, f) == SetFallback(m, f)

-----------------------------------------------------------------------------
(* The way of a request                                                    *)

Receive(path, method) ==
  /\ request.phase = "none"
  /\ request' = [NoRequest EXCEPT !.phase = "enter", !.asked = path, !.path = path,
                                  !.method = method]
  /\ UNCHANGED <<mux, table, calls>>

(* A fallback's middlewares and what it stands for, run by this request.   *)
Answered(r, status, fallback) ==
  [r EXCEPT !.phase = "done",
            !.ran = @ \o fallback.chain,
            !.answers = Append(@, [status |-> status, name |-> fallback.name])]

NotFound(r) == Answered(r, 404, mux[r.at].notFound)
MethodNotAllowed(r) == Answered(r, 405, mux[r.at].notAllowed)

(* Mux::handle_request: without a route no middleware runs either.         *)
Enter ==
  /\ request.phase = "enter"
  /\ request' = IF mux[request.at].built
                THEN [request EXCEPT !.phase = "route", !.ran = @ \o mux[request.at].chain]
                ELSE NotFound(request)
  /\ UNCHANGED <<mux, table, calls>>

(* The patterns that match a path, the static one before the wildcards and *)
(* of those the longer ones first, which is the order of the search.       *)
MatchesPath(p, path) ==
  \/ p = path
  \/ Last(p) = "*" /\ Len(p) <= Len(path) /\ IsPrefix(Front(p), path)

Before(p, q) ==
  \/ Last(p) # "*" /\ Last(q) = "*"
  \/ Last(p) = "*" /\ Last(q) = "*" /\ Len(p) > Len(q)

Matching(m, path) == {e \in table[m] : MatchesPath(e.pattern, path)}

Candidates(m, path, method) == {e \in Matching(m, path) : e.method = method}

(* A variant for mutation: the wildcard is found before the static route.  *)
HitLast(m, path, method) ==
  CHOOSE e \in Candidates(m, path, method) :
    \A f \in Candidates(m, path, method) : ~ Before(e.pattern, f.pattern)

Hit(m, path, method) ==
  CHOOSE e \in Candidates(m, path, method) :
    \A f \in Candidates(m, path, method) : ~ Before(f.pattern, e.pattern)

(* find_route passed a pattern that has other methods only.                *)
Hinted(m, path, method) ==
  \E e \in Matching(m, path) :
    \A f \in Candidates(m, path, method) :
      e.pattern # f.pattern /\ ~ Before(f.pattern, e.pattern)

(* A variant for mutation: the sub-router is given the whole path.         *)
SamePath(p, path) == path

(* next_route_path: what the wildcard took, after a slash.                 *)
NextPath(p, path) ==
  IF Last(p) = "*" THEN SubSeq(path, Len(p), Len(path)) ELSE <<"">>

(* route_http and, in the endpoint, ChainHandler and mount's function.     *)
Route ==
  /\ request.phase = "route"
  /\ LET m == request.at
         e == Hit(m, request.path, request.method)
         flagged == [request EXCEPT !.hint = @ \/ Hinted(m, request.path, request.method)]
         onward == [flagged EXCEPT !.ran = @ \o e.chain, !.trail = Append(@, e)]
     IN  request' =
           IF request.method = "unknown" THEN MethodNotAllowed(request)
           ELSE IF Candidates(m, request.path, request.method) = {}
           THEN NotFound(IF flagged.hint THEN MethodNotAllowed(flagged) ELSE flagged)
           ELSE IF e.sub = NoMux
           THEN [onward EXCEPT !.phase = "done",
                               !.answers = Append(@, [status |-> 200, name |-> "handler"])]
           ELSE [onward EXCEPT !.phase = "enter", !.at = e.sub,
                               !.path = NextPath(e.pattern, @)]
  /\ UNCHANGED <<mux, table, calls>>

-----------------------------------------------------------------------------
BuildRoutes ==
  \E m \in Muxes :
    \/ NewMux(m)
    \/ \E w \in Middlewares : Use(m, w)
    \/ \E i \in Muxes, ws \in {<<>>} \cup {<<w>> : w \in Middlewares} : With(m, i, ws)
    \/ \E n \in Methods \cup {"ALL"}, p \in Patterns : Handle(m, n, p)
    \/ \E p \in MountPatterns, s \in Muxes : Mount(m, p, s)
    \/ \E f \in Fallbacks : SetNotFound(m, f) \/ SetMethodNotAllowed(m, f)

Serve ==
  \/ \E path \in Paths, n \in Methods \cup {"unknown"} : Receive(path, n)
  \/ Enter
  \/ Route

Next == BuildRoutes \/ Serve

Spec == Init /\ [][Next]_vars

-----------------------------------------------------------------------------
Fallback == [chain : Seq(Middlewares), name : Fallbacks \cup {"none"}]

MuxRecord ==
  [kind : {"unborn", "mux", "inline"}, parent : Muxes \cup {NoMux},
   owner : Muxes \cup {NoMux}, mws : Seq(Middlewares), built : BOOLEAN,
   chain : Seq(Middlewares), notFound : Fallback, notAllowed : Fallback]

EndpointRecord ==
  [by : Muxes, method : Methods, pattern : Seq(Segments), sub : Muxes \cup {NoMux},
   chain : Seq(Middlewares)]

Answer == [status : {200, 404, 405}, name : Fallbacks \cup {"none", "handler"}]

RequestRecord ==
  [phase : {"none", "enter", "route", "done"}, at : Muxes, asked : Seq(Segments),
   path : Seq(Segments), method : Methods \cup {"unknown"}, hint : BOOLEAN,
   ran : Seq(Middlewares), trail : Seq(EndpointRecord),
   answers : Seq(Answer)]

(* Types; a mux that is not inline has the tree it made, an inline one     *)
(* that of its parent, and a tree holds the endpoints of its owner and of  *)
(* the inline muxes on it.                                                 *)
TypeOK ==
  /\ mux \in [Muxes -> MuxRecord]
  /\ \A m \in Muxes :
       /\ mux[m].kind = "mux" => mux[m].owner = m
       /\ mux[m].kind = "inline" => mux[m].owner = mux[mux[m].parent].owner
       /\ \A e \in table[m] : e \in EndpointRecord /\ mux[e.by].owner = m
  /\ calls \in 0..MaxCalls
  /\ request \in RequestRecord

HandlerRan == request.phase = "done" /\ Last(request.answers).status = 200

(* The mux that the i-th endpoint of the trail was found in.               *)
FoundIn(i) == IF i = 1 THEN Root ELSE request.trail[i - 1].sub

(* The middlewares of the mux that was passed through to the i-th endpoint *)
(* and those of the inline mux, if any, that the endpoint was made with.   *)
MiddlewaresOf(i) ==
  LET by == mux[request.trail[i].by]
  IN  mux[FoundIn(i)].mws \o IF by.kind = "inline" THEN by.mws ELSE <<>>

(* Every middleware that use() or with() has accepted runs, in order, for  *)
(* every request to a handler of that mux, and no other runs: whatever the *)
(* order of the calls, the chains captured when routes were registered     *)
(* are those of the muxes as they are when the request comes.              *)
MiddlewaresComplete ==
  HandlerRan =>
    request.ran = FlattenSeq([i \in 1..Len(request.trail) |-> MiddlewaresOf(i)])

(* The part of the path that the i-th endpoint of the trail stands for:    *)
(* at the root of a mount the path was used up by the mount itself.        *)
PartOf(i) ==
  LET p == request.trail[i].pattern
  IN  IF Last(p) = "*" THEN Front(p)
      ELSE IF i > 1 /\ Last(request.trail[i - 1].pattern) # "*" THEN <<>> ELSE p

(* The patterns on the way to the handler that ran, put together, give the *)
(* path that was asked for, but for a slash at its end, or begin it if the *)
(* last of them has a wildcard: no router on the way saw a part of the     *)
(* path twice or never.                                                    *)
RouteTrail ==
  HandlerRan =>
    LET parts == FlattenSeq([i \in 1..Len(request.trail) |-> PartOf(i)])
    IN  IF Last(Last(request.trail).pattern) = "*" THEN IsPrefix(parts, request.asked)
        ELSE parts \in {request.asked, request.asked \o <<"">>}

(* The request is for the endpoint e of the sub-router behind w, and the   *)
(* root has no route of its own for that path that is more specific.       *)
Promised(w, e) ==
  /\ Last(w.pattern) = "*"
  /\ w.method = request.method /\ e.method = request.method
  /\ e.sub = NoMux
  /\ request.asked = Front(w.pattern) \o e.pattern
  /\ \A f \in Candidates(Root, request.asked, request.method) :
       Before(f.pattern, w.pattern) => f.sub = w.sub

Mounts == {w \in table[Root] : w.sub # NoMux}

(* A route of a sub-router is reached through the mount, unless the root   *)
(* has a route of its own for that path that is more specific.             *)
MountedRoutesReached ==
  request.phase = "done" =>
    \A w \in Mounts : \A e \in table[w.sub] :
      Promised(w, e) => HandlerRan /\ Last(request.trail) = e

(* What the comment on method_not_allowed_handler says: when a method      *)
(* cannot be resolved for a route, the answer is its 405.                  *)
MethodNotAllowedAnswers ==
  (\E i \in DOMAIN request.answers : request.answers[i].status = 405)
    => Last(request.answers).status = 405
=============================================================================
