------------------------------ MODULE Routing -------------------------------
(***************************************************************************)
(* One request on its way through the routers of a program, with all that  *)
(* RoutingContext keeps of it (router.context.cpp): find_route's stacks of *)
(* parameters and patterns, the function that mount() registers,           *)
(* next_route_path, and the application's middlewares (middlewares.hpp).   *)
(*                                                                         *)
(* The routes were registered before; each router has the tree that its    *)
(* registrations build.  What a tree is, and what its operations do, are   *)
(* constants: RouteTree's for TLC, and for the proofs any that keep        *)
(* TreeAssumption.                                                         *)
(***************************************************************************)
EXTENDS Integers, RoutePatterns, StrUtils

CONSTANTS
  Characters,      (* the characters of patterns and paths                 *)
  Methods,         (* the methods of methodsList                           *)
  NewTree,         (* a tree without routes                                *)
  TreeInsert(_, _, _),       (* the tree with a pattern and a method more  *)
  TreeFind(_, _, _),         (* what is found for a method and a path      *)
  TreeFindPattern(_, _),     (* whether there is a route for a pattern     *)
  Muxes,           (* the Mux objects                                      *)
  TopMux,          (* the one that is given the requests                   *)
  NoMux,           (* no Mux                                               *)
  Programs,        (* what the programs register: for each Mux a sequence  *)
  Paths,           (* url.path of the requests                             *)
  DigitOf,         (* DigitOf[c]: the number that a digit stands for       *)
  LongLongMax      (* the largest number that an id may be                 *)

VARIABLES
  program,         (* the registrations of this program                    *)
  tree,            (* tree[m]: the tree that they build                    *)
  request,         (* url.path and the method                              *)
  rctx,            (* the RoutingContext of the request                    *)
  at,              (* the Mux that has the request                         *)
  phase,           (* where in that Mux it is                              *)
  end,             (* the registration that the last lookup found          *)
  id,              (* what extract_id put into the request's context       *)
  status,          (* the status that was answered, or 0                   *)
  trail            (* history: the patterns found, each with its values    *)

vars == <<program, tree, request, rctx, at, phase, end, id, status, trail>>

-----------------------------------------------------------------------------
(* What a program registers                                                *)

(* A registration: a handler, behind extract_id or not, or a sub-router.   *)
Registration == [method : Methods \cup {"ALL"}, pattern : Seq(Characters \cup Params \cup Regexps),
                 sub : Muxes \cup {NoMux}, extract : BOOLEAN]

(* mount makes up to three registrations of one.                           *)
Insertions(regs) ==
  FlattenSeq([i \in 1..Len(regs) |->
    IF regs[i].sub = NoMux THEN <<regs[i]>>
    ELSE LET ps == MountedPatterns(regs[i].pattern)
         IN  [j \in 1..Len(ps) |-> [regs[i] EXCEPT !.pattern = ps[j]]]])

TreeOf(regs) ==
  FoldLeft(LAMBDA t, r : TreeInsert(t, r.pattern, r.method), NewTree, Insertions(regs))

(* No mount throws: there is no route yet on the wildcards that it adds.   *)
Accepted(regs) ==
  \A i \in 1..Len(regs) :
    LET before == TreeOf(SubSeq(regs, 1, i - 1))
    IN  regs[i].sub # NoMux =>
          /\ ~ TreeFindPattern(before, regs[i].pattern \o <<"*">>)
          /\ ~ TreeFindPattern(before, regs[i].pattern \o <<"/", "*">>)

(* set_endpoint: the handler registered last is the one that stays.        *)
EndpointAt(m, method, p) ==
  LET regs == Insertions(program[m])
  IN  regs[Max({i \in 1..Len(regs) : regs[i].pattern = p /\ regs[i].method \in {method, "ALL"}})]

(* A wildcard is the last token of a pattern.                              *)
IsWildcard(p) == Last(p) = "*"

-----------------------------------------------------------------------------
(* What is assumed                                                         *)

(* The resize of trim_trailing_slash.                                      *)
Trimmed(path) == IF Len(path) > 1 /\ Last(path) = "/" THEN Front(path) ELSE path

(* The path that the root looks up.                                        *)
RootPath(path) == IF path = <<>> THEN <<"/">> ELSE Trimmed(path)

(* What can be left of a path: all of it, or what a wildcard took of it.   *)
LeftOf(path) ==
  {path} \cup {<<"/">> \o SubSeq(path, i, Len(path)) : i \in 1..Len(path) + 1}

(* The paths that a router can be asked for.                               *)
RoutePaths == UNION {LeftOf(RootPath(path)) : path \in Paths}

(* The routes are those of a program that starts: handle_impl and          *)
(* insert_route take them all, those that its mounts add as well.          *)
ASSUME RoutingAssumption ==
  /\ TopMux \in Muxes /\ NoMux \notin Muxes
  /\ {"/", "*"} \subseteq Characters
  /\ Paths \subseteq Seq(Characters)
  /\ LongLongMax \in Nat
  /\ DigitOf \in [DOMAIN DigitOf -> Nat]
  /\ \A p \in Programs : \A m \in Muxes :
       /\ p[m] \in Seq(Registration)
       /\ \A r \in Range(Insertions(p[m])) : Acceptable(r.pattern)

(* The values put into the pattern give the path.                          *)
FoundFor(found, regs, method, path) ==
  /\ \E r \in Range(Insertions(regs)) :
       r.pattern = found.pattern /\ r.method \in {method, "ALL"}
  /\ found.vals \in Seq(Seq(Characters))
  /\ Len(found.vals) = WildCount(found.pattern, Len(found.pattern))
  /\ Fill(found.pattern, found.vals) = path

(* A tree finds a pattern that was registered for the method, with values  *)
(* that make the path of it.  Which of several it finds is left open.      *)
ASSUME TreeAssumption ==
  \A regs \in {p[m] : p \in Programs, m \in Muxes} :
    Accepted(regs) =>
      \A method \in Methods, path \in RoutePaths :
        LET found == TreeFind(TreeOf(regs), method, path)
        IN  found.hit => FoundFor(found, regs, method, path)

-----------------------------------------------------------------------------
(* RoutingContext                                                          *)

NoParams == [keys |-> <<>>, values |-> <<>>]

NewContext ==
  [routePath |-> <<>>, routeParams |-> NoParams, urlParams |-> NoParams,
   routePatterns |-> <<>>, methodNotAllowed |-> FALSE]

Joined(p, q) == [keys |-> p.keys \o q.keys, values |-> p.values \o q.values]

Lookup(m, method, path) == TreeFind(tree[m], method, path)

(* What the tree and find_route add to the context for a handler found.    *)
Found(ctx, found) ==
  LET params == Joined(ctx.routeParams,
                       [keys |-> ParamKeys(found.pattern), values |-> found.vals])
  IN  [ctx EXCEPT !.routeParams = params,
                  !.urlParams = Joined(@, params),
                  !.routePatterns = Append(@, found.pattern)]

(* A variant for mutation: the parameters of the router before are kept.   *)
FindRouteKeepingParams(ctx, m, method, path) ==
  LET found == Lookup(m, method, path)
      hinted == [ctx EXCEPT !.methodNotAllowed = @ \/ found.hint]
  IN  IF found.hit THEN Found(hinted, found) ELSE hinted

(* find_route: what it leaves in the context.                              *)
FindRoute(ctx, m, method, path) ==
  LET found == Lookup(m, method, path)
      hinted == [ctx EXCEPT !.routeParams = NoParams,
                            !.methodNotAllowed = @ \/ found.hint]
  IN  IF found.hit THEN Found(hinted, found) ELSE hinted

(* A variant for mutation: the value of the wildcard without the slash.    *)
WildcardValue(ctx) ==
  LET params == ctx.routeParams
      n == Len(params.keys)
  IN  IF n > 0 /\ params.keys[n] = "*" THEN params.values[n] ELSE <<"/">>

(* next_route_path: what the wildcard took, behind a slash.                *)
NextRoutePath(ctx) ==
  LET params == ctx.routeParams
      n == Len(params.keys)
  IN  IF n > 0 /\ params.keys[n] = "*" /\ n <= Len(params.values)
      THEN <<"/">> \o params.values[n]
      ELSE <<"/">>

(* A variant for mutation: the wildcard of the mount keeps its value.      *)
ShiftedKeepingWildcard(ctx) == [ctx EXCEPT !.routePath = NextRoutePath(ctx)]

(* mount's function: the path goes on behind the sub-router's, and the     *)
(* wildcard that connects the two is emptied.                              *)
Shifted(ctx) ==
  LET n == Len(ctx.urlParams.keys)
      connects == n > 0 /\ ctx.urlParams.keys[n] = "*" /\ n <= Len(ctx.urlParams.values)
  IN  [ctx EXCEPT !.routePath = NextRoutePath(ctx),
                  !.urlParams.values = IF connects THEN [@ EXCEPT ![n] = <<>>] ELSE @]

(* A variant for mutation: the keys are searched from the front.           *)
OutermostUrlParam(ctx, key) ==
  LET i == SelectInSeq(ctx.urlParams.keys, LAMBDA k : k = key)
  IN  IF i = 0 \/ i > Len(ctx.urlParams.values) THEN <<>> ELSE ctx.urlParams.values[i]

(* get_url_param: the keys from the back, the value in the same place.     *)
GetUrlParam(ctx, key) ==
  LET i == SelectLastInSubSeq(ctx.urlParams.keys, 1,
             IF Len(ctx.urlParams.keys) < Len(ctx.urlParams.values)
             THEN Len(ctx.urlParams.keys) ELSE Len(ctx.urlParams.values),
             LAMBDA k : k = key)
  IN  IF i = 0 THEN <<>> ELSE ctx.urlParams.values[i]

(* A variant for mutation: the wildcard goes with the slashes around it.   *)
JoinWithoutSlash(ctx) ==
  ReplaceCopy(FlattenSeq(ctx.routePatterns), <<"/", "*", "/">>, <<>>, -1)

(* join_route_patterns *)
JoinRoutePatterns(ctx) ==
  ReplaceCopy(FlattenSeq(ctx.routePatterns), <<"/", "*", "/">>, <<"/">>, -1)

-----------------------------------------------------------------------------
(* The way of a request                                                    *)

Init ==
  /\ program \in {p \in Programs : \A m \in Muxes : Accepted(p[m])}
  /\ tree = [m \in Muxes |-> TreeOf(program[m])]
  /\ request = [path |-> <<>>, method |-> "none"]
  /\ rctx = NewContext
  /\ at = TopMux
  /\ phase = "idle"
  /\ end = "none"
  /\ id = -1
  /\ status = 0
  /\ trail = <<>>

(* Mux::handle_request of the root: the context is new.                    *)
Receive ==
  /\ phase = "idle"
  /\ \E path \in Paths, method \in Methods :
       request' = [path |-> path, method |-> method]
  /\ phase' = "trimming"
  /\ UNCHANGED <<program, tree, rctx, at, end, id, status, trail>>

(* trim_trailing_slash, which the root uses.  The size of an empty path    *)
(* less one is the largest number there is: the character read is no part  *)
(* of the path, and if it is a slash the resize throws.                    *)
TrimTrailingSlash ==
  /\ phase = "trimming"
  /\ LET path == IF rctx.routePath = <<>> THEN request.path ELSE rctx.routePath
     IN  \/ /\ path # <<>>
            /\ rctx' = [rctx EXCEPT !.routePath = Trimmed(path)]
            /\ phase' = "logging"
         \/ /\ path = <<>>
            /\ phase' \in {"logging", "thrown"}
            /\ UNCHANGED rctx
  /\ UNCHANGED <<program, tree, request, at, end, id, status, trail>>

(* logging: it takes the context there is.                                 *)
Logging ==
  /\ phase = "logging"
  /\ phase' = "routing"
  /\ UNCHANGED <<program, tree, request, rctx, at, end, id, status, trail>>

RoutePath ==
  IF rctx.routePath # <<>> THEN rctx.routePath
  ELSE IF request.path # <<>> THEN request.path ELSE <<"/">>

(* route_http: find the handler and call it, or answer 405 and 404.        *)
RouteHttp ==
  /\ phase = "routing"
  /\ LET found == Lookup(at, request.method, RoutePath)
         e == EndpointAt(at, request.method, found.pattern)
     IN  /\ rctx' = FindRoute(rctx, at, request.method, RoutePath)
         /\ \/ /\ found.hit
               /\ end' = e
               /\ trail' = Append(trail, [mux |-> at, pattern |-> found.pattern, vals |-> found.vals])
               /\ phase' = IF e.sub # NoMux THEN "mounted"
                           ELSE IF e.extract THEN "extracting" ELSE "handling"
               /\ UNCHANGED status
            \/ /\ ~ found.hit
               /\ status' = 404
               /\ phase' = "done"
               /\ UNCHANGED <<end, trail>>
  /\ UNCHANGED <<program, tree, request, at, id>>

(* mount's function, and handle_request of the sub-router, which finds the *)
(* context that is there; one without a route answers 404.                 *)
EnterSubrouter ==
  /\ phase = "mounted"
  /\ rctx' = Shifted(rctx)
  /\ at' = end.sub
  /\ \/ /\ program[end.sub] # <<>>
        /\ phase' = "routing"
        /\ UNCHANGED status
     \/ /\ program[end.sub] = <<>>
        /\ phase' = "done"
        /\ status' = 404
  /\ UNCHANGED <<program, tree, request, end, id, trail>>

(* extract_id: the parameter "id" as a number, or 400.                     *)
ExtractId ==
  /\ phase = "extracting"
  /\ LET parsed == FromChars(GetUrlParam(rctx, "id"), DigitOf, LongLongMax)
     IN  \/ /\ parsed.ok
            /\ id' = parsed.number
            /\ phase' = "handling"
            /\ UNCHANGED status
         \/ /\ ~ parsed.ok
            /\ status' = 400
            /\ phase' = "done"
            /\ UNCHANGED id
  /\ UNCHANGED <<program, tree, request, rctx, at, end, trail>>

Handle ==
  /\ phase = "handling"
  /\ status' = 200
  /\ phase' = "done"
  /\ UNCHANGED <<program, tree, request, rctx, at, end, id, trail>>

Next ==
  \/ Receive
  \/ TrimTrailingSlash
  \/ Logging
  \/ RouteHttp
  \/ EnterSubrouter
  \/ ExtractId
  \/ Handle

Spec == Init /\ [][Next]_vars

-----------------------------------------------------------------------------
(* Types; every sub-router is given a path that begins with a slash, a     *)
(* request that is done has its answer, and only then.                     *)
TypeOK ==
  /\ \A m \in Muxes : \A i \in 1..Len(program[m]) : program[m][i] \in Registration
  /\ at \in Muxes
  /\ phase \in {"idle", "trimming", "logging", "routing", "mounted", "extracting",
                "handling", "done", "thrown"}
  /\ at # TopMux => rctx.routePath # <<>> /\ rctx.routePath[1] = "/"
  /\ status \in {0, 200, 400, 404}
  /\ status # 0 <=> phase = "done"
  /\ id \in -1..LongLongMax

Shapes == [i \in 1..Len(trail) |-> ParamKeys(trail[i].pattern)]

(* However many routers a request goes through, urlParams has one value    *)
(* for each key, the keys are those of the patterns on the way and         *)
(* routePatterns holds these patterns: no lookup adds what an earlier one  *)
(* has left behind (find_route, get_url_param's indices).                  *)
StacksAligned ==
  /\ Len(rctx.urlParams.keys) = Len(rctx.urlParams.values)
  /\ Len(rctx.routeParams.keys) = Len(rctx.routeParams.values)
  /\ rctx.urlParams.keys = FlattenSeq(Shapes)
  /\ rctx.routePatterns = [i \in 1..Len(trail) |-> trail[i].pattern]

(* A router on the way that gave the request on to a sub-router.           *)
PassedOn(i) == i < Len(trail) \/ end.sub # NoMux

(* The value that the innermost pattern with this key took from the path;  *)
(* a wildcard that connects two routers counts as empty.                   *)
InnermostValue(key) ==
  LET i == SelectLastInSeq(Shapes, LAMBDA keys : Contains(keys, key))
  IN  IF i = 0 THEN <<>>
      ELSE IF key = "*" /\ PassedOn(i) THEN <<>>
      ELSE trail[i].vals[SelectInSeq(Shapes[i], LAMBDA k : k = key)]

Keys == Range(KeyOf) \cup {"*"}

AtHandler == phase \in {"extracting", "handling", "done"}

(* get_url_param gives a handler the value of the innermost router whose   *)
(* pattern has the key, also when outer routers use the same key and when  *)
(* mounts have put wildcards in between.                                   *)
InnermostWins ==
  AtHandler => \A key \in Keys : GetUrlParam(rctx, key) = InnermostValue(key)

(* The patterns on the way, filled with the values on the stack.           *)
FilledPatterns ==
  LET before(i) == Len(FlattenSeq(SubSeq(Shapes, 1, i - 1)))
      values(i) == SubSeq(rctx.urlParams.values, before(i) + 1, before(i) + Len(Shapes[i]))
  IN  [i \in 1..Len(trail) |-> Fill(rctx.routePatterns[i], values(i))]

(* Put together, with one slash where one ends and the next begins with    *)
(* one.                                                                    *)
SpelledPath ==
  LET parts == FilledPatterns
  IN  FlattenSeq([i \in 1..Len(parts) |->
        IF i > 1 /\ Last(parts[i - 1]) = "/" THEN Tail(parts[i]) ELSE parts[i]])

(* The stack of patterns with the stack of values put in spells the path   *)
(* that was asked for, but for one slash at its end: each part of the path *)
(* is in the stack once, whatever mounts it went through.                  *)
PathIsSpelled ==
  status \in {200, 400} =>
    \/ SpelledPath = request.path
    \/ SpelledPath = request.path \o <<"/">>
    \/ SpelledPath \o <<"/">> = request.path

IsDigit(c) == c \in DOMAIN DigitOf

DigitsOf(value) ==
  LET n == CHOOSE n \in 0..Len(value) :
             /\ \A i \in 1..n : IsDigit(value[i])
             /\ n < Len(value) => ~ IsDigit(value[n + 1])
  IN  SubSeq(value, 1, n)

(* The number that the digits of the "id" of the router's own pattern      *)
(* spell.                                                                  *)
IdNumber == NumberOf(DigitsOf(InnermostValue("id")), DigitOf)

(* The handler that the request came to, or was kept from, takes an id.    *)
AsksId == status # 404 /\ end.extract

(* A handler behind extract_id gets the number that the digits of its own  *)
(* router's "id" spell.  It is not called, and the answer is 400, if there *)
(* are none or if the number is too large for a long long; no other        *)
(* handler has an id.  Nothing is said here of digits that spell 0: that   *)
(* is ZeroIsRefused's.                                                     *)
IdIsExact ==
  phase = "done" =>
    LET digits == DigitsOf(InnermostValue("id"))
        valid == digits # <<>> /\ IdNumber <= LongLongMax
        zero == AsksId /\ digits # <<>> /\ IdNumber = 0
    IN  ~ zero =>
          /\ status = 400 <=> AsksId /\ ~ valid
          /\ id = IF AsksId /\ valid THEN IdNumber ELSE -1

(* No handler is given the id 0: the message of the answer 400 says "id    *)
(* not found or is 0" (middlewares.hpp:119).  The code asks only whether   *)
(* from_chars found a number (113).                                        *)
ZeroIsRefused == phase = "done" => id # 0

(* Slashes that follow one another, as one.                                *)
OneSlash(s) ==
  LET kept == SelectSeq([i \in 1..Len(s) |-> i],
                        LAMBDA i : i = 1 \/ s[i] # "/" \/ s[i - 1] # "/")
  IN  [k \in DOMAIN kept |-> s[kept[k]]]

(* The joined pattern with the named parameters on the stack put in, in    *)
(* their order, and what a wildcard at its end took.                       *)
SpelledJoined ==
  LET joined == JoinRoutePatterns(rctx)
      params == rctx.urlParams
      named == SelectSeq([i \in 1..Len(params.keys) |-> i], LAMBDA i : params.keys[i] # "*")
  IN  Fill(SelectSeq(joined, LAMBDA t : t # "*"), [k \in DOMAIN named |-> params.values[named[k]]])
        \o IF joined # <<>> /\ IsWildcard(joined) THEN Last(params.values) ELSE <<>>

(* What join_route_patterns folds away is never a part of the path: the    *)
(* joined pattern still has every parameter and every literal of the       *)
(* routers on the way, in order, so that it spells the path asked for but  *)
(* for the number of slashes, whether or not a wildcard of a mount is left *)
(* in it.                                                                  *)
JoinedSpells ==
  status \in {200, 400} =>
    LET spelled == OneSlash(SpelledJoined)
        asked == OneSlash(request.path)
    IN  spelled = asked \/ spelled = asked \o <<"/">> \/ spelled \o <<"/">> = asked
=============================================================================
