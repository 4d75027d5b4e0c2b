----------------------------- MODULE MuxProofs ------------------------------
(***************************************************************************)
(* Proofs about Mux, for any muxes, middlewares, patterns, paths and       *)
(* methods, and any number of calls: the type invariant, that every        *)
(* middleware runs once and in order, that the routers on the way divide   *)
(* the path among themselves, and that a mounted route is reached.         *)
(***************************************************************************)
EXTENDS Mux, SequenceLemmas

-----------------------------------------------------------------------------
(* The inductive invariant: the routers                                    *)

(* The muxes and what is on record for their trees.                        *)
Typed ==
  /\ mux \in [Muxes -> MuxRecord]
  /\ table \in [Muxes -> SUBSET EndpointRecord]
  /\ calls \in 0..MaxCalls
  /\ request \in RequestRecord

(* An inline mux has the tree of the mux it was made from, and making it   *)
(* has built the handler of the mux that made the tree.                    *)
OwnsTree(m) ==
  /\ mux[m].kind = "mux" => mux[m].owner = m
  /\ mux[m].kind = "inline" =>
       /\ mux[m].parent \in Muxes /\ Born(mux[m].parent)
       /\ mux[mux[m].parent].owner = mux[m].owner
       /\ mux[m].owner \in Muxes
       /\ mux[mux[m].owner].kind = "mux" /\ mux[mux[m].owner].built

TreesOwned ==
  /\ Born(Root) /\ mux[Root].kind = "mux"
  /\ \A m \in Muxes : OwnsTree(m)

(* The chain of a mux has all its middlewares.                             *)
ChainsFixed ==
  \A m \in Muxes : mux[m].kind = "mux" /\ mux[m].built => mux[m].chain = mux[m].mws

(* The middlewares that an endpoint made with this mux is wrapped in.      *)
InlineOf(m) == IF mux[m].kind = "inline" THEN mux[m].mws ELSE <<>>

(* An endpoint was registered through a mux that takes no middlewares any  *)
(* more, on a tree whose owner takes none either, and has a pattern.       *)
MadeIn(m, e) ==
  /\ mux[m].kind = "mux" /\ mux[m].built
  /\ Born(e.by) /\ mux[e.by].owner = m /\ mux[e.by].built
  /\ e.chain = InlineOf(e.by)
  /\ e.pattern # <<>>
  /\ e.sub # NoMux => mux[e.sub].kind = "mux" /\ e.sub # Root

EndpointsMade == \A m \in Muxes : \A e \in table[m] : MadeIn(m, e)

(* A tree has one endpoint for a pattern and a method.                     *)
EndpointsUnique ==
  \A m \in Muxes : \A e, f \in table[m] :
    e.pattern = f.pattern /\ e.method = f.method => e = f

(* Two endpoints of one sub-router are from one call of mount.             *)
MountsOnce ==
  \A m \in Muxes : \A e, f \in table[m] :
    e.sub # NoMux /\ e.sub = f.sub =>
      \E p \in MountPatterns : e.pattern \in MountedAt(p) /\ f.pattern \in MountedAt(p)

Routers ==
  TreesOwned /\ ChainsFixed /\ EndpointsMade /\ EndpointsUnique /\ MountsOnce

-----------------------------------------------------------------------------
(* The inductive invariant: the request                                    *)

Active == request.phase \in {"enter", "route"}

(* Each endpoint of the trail is in the mux that the one before leads to,  *)
(* and the request is at the mux that the last one leads to.               *)
TrailFound ==
  /\ request.phase = "none" => request.trail = <<>>
  /\ \A i \in 1..Len(request.trail) :
       FoundIn(i) \in Muxes /\ request.trail[i] \in table[FoundIn(i)]
  /\ Active => request.at = FoundIn(Len(request.trail) + 1) /\ mux[request.at].kind = "mux"

(* The middlewares of the endpoints so far have run, and those of the mux  *)
(* once it looks for a route.                                              *)
Expected == FlattenSeq([i \in 1..Len(request.trail) |-> MiddlewaresOf(i)])

RanSoFar ==
  /\ request.phase = "enter" => request.ran = Expected
  /\ request.phase = "route" =>
       mux[request.at].built /\ request.ran = Expected \o mux[request.at].mws
  /\ MiddlewaresComplete

(* The path that is left continues the parts of the endpoints so far; or   *)
(* they have used it up, and a slash is left.                              *)
Parts == FlattenSeq([i \in 1..Len(request.trail) |-> PartOf(i)])

WildTrail == Last(Last(request.trail).pattern) = "*"

PathSoFar ==
  /\ Active =>
       /\ request.path # <<>>
       /\ request.trail = <<>> => request.path = request.asked
       /\ \/ Parts \o request.path = request.asked /\ (request.trail = <<>> \/ WildTrail)
          \/ Parts = request.asked /\ request.path = <<"">> /\ request.trail # <<>>
  /\ RouteTrail

(* A request for a route of a sub-router is on its way there.              *)
OnItsWay(w, e) ==
  \/ Active /\ request.trail = <<>>
  \/ Active /\ request.at = w.sub /\ request.path = e.pattern
  \/ HandlerRan /\ Last(request.trail) = e

PromisesKept ==
  request.phase # "none" =>
    \A w \in Mounts : \A e \in table[w.sub] : Promised(w, e) => OnItsWay(w, e)

OneRequest == TrailFound /\ RanSoFar /\ PathSoFar /\ PromisesKept

IInv == Typed /\ Routers /\ OneRequest

-----------------------------------------------------------------------------
(* The search                                                              *)

(* The empty segment at the end of a path.                                 *)
LEMMA Slash == <<"">> \in Seq(Segments) \ {<<>>} /\ Len(<<"">>) = 1
BY MuxAssumption, Singleton

(* A pattern that matches is no longer than the path.                      *)
LEMMA MatchIsShort ==
  ASSUME NEW p \in Seq(Segments), NEW path \in Seq(Segments), MatchesPath(p, path)
  PROVE  Len(p) \in Nat /\ Len(path) \in Nat /\ Len(p) <= Len(path)
BY DEF MatchesPath

(* If an endpoint has the method and matches, the search finds one, and    *)
(* none that matches comes before it.                                      *)
LEMMA HitFound ==
  ASSUME Typed, NEW m \in Muxes, NEW path \in Seq(Segments), NEW method,
         Candidates(m, path, method) # {}
  PROVE  /\ Hit(m, path, method) \in Candidates(m, path, method)
         /\ \A f \in Candidates(m, path, method) :
              ~ Before(f.pattern, Hit(m, path, method).pattern)
<1> DEFINE C == Candidates(m, path, method)
<1>1. \A e \in C : /\ e \in EndpointRecord /\ e.pattern \in Seq(Segments)
                   /\ Len(e.pattern) \in Nat /\ Len(e.pattern) <= Len(path)
  <2>1. \A e \in C : e \in table[m] /\ MatchesPath(e.pattern, path)
    BY DEF Candidates, Matching
  <2>2. \A e \in C : e \in EndpointRecord
    BY <2>1 DEF Typed
  <2>3. \A e \in C : e.pattern \in Seq(Segments)
    BY <2>2 DEF EndpointRecord
  <2> QED BY <2>1, <2>2, <2>3, MatchIsShort
<1>2. \E e \in C : \A f \in C : ~ Before(f.pattern, e.pattern)
  <2> HIDE DEF C
  <2>1. CASE \E e \in C : Last(e.pattern) # "*"
    BY <2>1 DEF Before
  <2>2. CASE \A e \in C : Last(e.pattern) = "*"
    <3> DEFINE L == {Len(e.pattern) : e \in C}
    <3>1. L \in SUBSET Nat /\ L # {} /\ Len(path) \in Nat /\ \A k \in L : k <= Len(path)
      <4>1. \E e : e \in C
        BY DEF C
      <4>2. \A k \in L : k \in Nat /\ k <= Len(path)
        BY <1>1
      <4>3. Len(path) \in Nat
        OBVIOUS
      <4>4. L # {}
        BY <4>1
      <4> HIDE DEF L
      <4> QED BY <4>2, <4>3, <4>4
    <3>2. PICK k \in L : \A l \in L : l <= k
      <4> HIDE DEF L
      <4> QED BY <3>1, GreatestExists
    <3>3. PICK e \in C : k = Len(e.pattern)
      OBVIOUS
    <3>4. \A f \in C : Len(f.pattern) <= Len(e.pattern)
      BY <3>2, <3>3
    <3>5. \A f \in C : ~ (Len(f.pattern) > Len(e.pattern))
      BY <1>1, <3>3, <3>4
    <3> QED BY <2>2, <3>3, <3>5 DEF Before
  <2> QED BY <2>1, <2>2
<1> QED BY <1>2 DEF Hit

(* What a matching pattern takes and what it leaves make the path.         *)
LEMMA MatchSplits ==
  ASSUME NEW p \in Seq(Segments) \ {<<>>}, NEW path \in Seq(Segments) \ {<<>>},
         MatchesPath(p, path)
  PROVE  /\ NextPath(p, path) \in Seq(Segments) \ {<<>>}
         /\ Last(p) = "*" => /\ Front(p) \in Seq(Segments)
                             /\ Front(p) \o NextPath(p, path) = path
         /\ Last(p) # "*" => p = path /\ NextPath(p, path) = <<"">>
<1>1. CASE Last(p) # "*"
  <2>1. p = path /\ NextPath(p, path) = <<"">>
    BY <1>1 DEF MatchesPath, NextPath
  <2>2. <<"">> \in Seq(Segments) \ {<<>>}
    BY Slash
  <2> QED BY <1>1, <2>1, <2>2
<1>2. CASE Last(p) = "*"
  <2>1. /\ Front(p) \in Seq(Segments) /\ Len(p) \in Nat \ {0} /\ Len(path) \in Nat \ {0}
        /\ Len(Front(p)) = Len(p) - 1 /\ p = Front(p) \o <<Last(p)>>
    BY FrontLast, EmptySeq
  <2>2. IsPrefix(Front(p), path) /\ Len(p) <= Len(path)
    <3>1. CASE p = path
      <4> DEFINE f == Front(p)
                 l == <<Last(p)>>
      <4>1. l \in Seq(Segments) /\ f \in Seq(Segments) /\ path = f \o l
        BY <2>1, <3>1, FrontLast, Singleton
      <4> HIDE DEF f, l
      <4>2. IsPrefix(f, path)
        BY <4>1, ConcatPrefix
      <4> QED BY <2>1, <3>1, <4>2 DEF f
    <3> QED BY <3>1 DEF MatchesPath
  <2>3. NextPath(p, path) = SubSeq(path, Len(Front(p)) + 1, Len(path))
    BY <1>2, <2>1 DEF NextPath
  <2>4. /\ NextPath(p, path) \in Seq(Segments)
        /\ Len(NextPath(p, path)) = Len(path) - Len(Front(p))
        /\ path = Front(p) \o NextPath(p, path)
    <3> DEFINE f == Front(p)
    <3>1. f \in Seq(Segments) /\ path \in Seq(Segments) /\ IsPrefix(f, path)
      BY <2>1, <2>2
    <3>2. NextPath(p, path) = SubSeq(path, Len(f) + 1, Len(path))
      BY <2>3
    <3> HIDE DEF f
    <3>3. /\ NextPath(p, path) \in Seq(Segments)
          /\ Len(NextPath(p, path)) = Len(path) - Len(f)
          /\ path = f \o NextPath(p, path)
      BY <3>1, <3>2, PrefixAndRest
    <3> QED BY <3>3 DEF f
  <2>5. NextPath(p, path) # <<>>
    BY <2>1, <2>2, <2>4, EmptySeq
  <2> QED BY <1>2, <2>1, <2>4, <2>5
<1> QED BY <1>1, <1>2

-----------------------------------------------------------------------------
(* Types                                                                   *)

(* Records of a mux.                                                       *)
LEMMA FreshTyped ==
  \A m \in Muxes \cup {NoMux} : Fresh(m) \in MuxRecord
<1> SUFFICES ASSUME NEW m \in Muxes \cup {NoMux}
             PROVE  Fresh(m) \in MuxRecord
  OBVIOUS
<1>1. NoFallback \in Fallback
  BY EmptySeq DEF NoFallback, Fallback
<1>2. <<>> \in Seq(Middlewares)
  BY EmptySeq
<1> QED BY <1>1, <1>2 DEF Fresh, MuxRecord

(* A mux that has registered something is still a mux.                     *)
LEMMA BuiltTyped ==
  ASSUME NEW mx \in MuxRecord
  PROVE  Built(mx) \in MuxRecord /\ AfterHandle(mx) \in MuxRecord
BY DEF Built, AfterHandle, MuxRecord

(* So is a sub-router that takes the fallbacks of its parent.              *)
LEMMA InheritingTyped ==
  ASSUME NEW sub \in MuxRecord, NEW parent \in MuxRecord
  PROVE  Inheriting(sub, parent) \in MuxRecord
BY DEF Inheriting, MuxRecord

(* Initially.                                                              *)
LEMMA InitTyped == Init => Typed
<1> SUFFICES ASSUME Init PROVE Typed
  OBVIOUS
<1>1. mux \in [Muxes -> MuxRecord]
  <2>1. Fresh(NoMux) \in MuxRecord
    BY FreshTyped
  <2>2. Unborn \in MuxRecord
    BY <2>1 DEF Unborn, MuxRecord
  <2> QED BY <2>2, FreshTyped DEF Init
<1>2. table \in [Muxes -> SUBSET EndpointRecord]
  BY DEF Init
<1>3. calls \in 0..MaxCalls
  <2>1. MaxCalls \in Nat
    BY MuxAssumption
  <2> QED BY <2>1 DEF Init
<1>4. request \in RequestRecord
  <2>1. <<>> \in Seq(Segments) /\ <<>> \in Seq(Middlewares) /\ <<>> \in Seq(EndpointRecord)
        /\ <<>> \in Seq(Answer)
    BY EmptySeq
  <2> QED BY <2>1, MuxAssumption DEF Init, NoRequest, RequestRecord
<1> QED BY <1>1, <1>2, <1>3, <1>4 DEF Typed

(* An endpoint that is made has its type.                                  *)
LEMMA EndpointTyped ==
  ASSUME Typed, NEW m \in Muxes, NEW n \in Methods, NEW p \in Seq(Segments),
         NEW s \in Muxes \cup {NoMux}
  PROVE  Endpoint(m, n, p, s) \in EndpointRecord
<1>1. mux[m].mws \in Seq(Middlewares) /\ <<>> \in Seq(Middlewares)
  BY EmptySeq DEF Typed, MuxRecord
<1> QED BY <1>1 DEF Endpoint, EndpointRecord

(* The patterns of a mount: a wildcard, and two that have none.            *)
LEMMA MountedPatterns ==
  ASSUME NEW p \in MountPatterns
  PROVE  /\ WildcardOf(p) \in MountedAt(p)
         /\ Last(WildcardOf(p)) = "*"
         /\ \A q \in MountedAt(p) :
              /\ q \in Seq(Segments) \ {<<>>}
              /\ Last(q) = "*" => q = WildcardOf(p)
              /\ Last(q) # "*" => /\ Front(WildcardOf(p)) = p
                                  /\ q \in {p, p \o <<"">>}
                                  /\ q # <<"">>
<1>1. p \in Seq(Segments) \ {<<>>} /\ Last(p) # "*"
  BY MuxAssumption
<1> DEFINE b == IF EndsWithSlash(p) THEN Front(p) ELSE p
<1>2. b \in Seq(Segments)
  BY <1>1, FrontLast
<1>3. WildcardOf(p) = b \o <<"*">>
  BY DEF WildcardOf
<1>4. b = p \/ EndsWithSlash(p)
  OBVIOUS
<1> HIDE DEF b
<1>5. /\ b \o <<"*">> \in Seq(Segments) \ {<<>>}
      /\ Front(b \o <<"*">>) = b /\ Last(b \o <<"*">>) = "*"
  BY <1>2, MuxAssumption, FrontLastOfConcat
<1>6. /\ p \o <<"">> \in Seq(Segments) \ {<<>>}
      /\ Front(p \o <<"">>) = p /\ Last(p \o <<"">>) = ""
  <2>1. "" \in Segments
    BY MuxAssumption
  <2> QED BY <1>1, <2>1, FrontLastOfConcat
<1>7. p \o <<"">> # <<"">>
  <2>1. Len(p) \in Nat \ {0}
    BY <1>1, EmptySeq
  <2> DEFINE z == <<"">>
             q == p \o z
  <2>2. z \in Seq(Segments) /\ Len(z) = 1
    BY Slash
  <2> HIDE DEF z
  <2>3. Len(q) = Len(p) + Len(z)
    BY <1>1, <2>2, ConcatProperties
  <2> HIDE DEF q
  <2>4. Len(q) # Len(z)
    BY <2>1, <2>2, <2>3
  <2>5. q # z
    BY <2>4
  <2> QED BY <2>5 DEF q, z
<1>8. ~ EndsWithSlash(p) => p # <<"">>
  <2>1. Last(<<"">>) = ""
    BY DEF Last
  <2> QED BY <2>1 DEF EndsWithSlash
<1>9. "" # "*"
  OBVIOUS
<1> QED BY <1>1, <1>3, <1>4, <1>5, <1>6, <1>7, <1>8, <1>9 DEF MountedAt

(* The types of what the calls change.                                     *)
LEMMA CallTyped ==
  ASSUME Typed, Call
  PROVE  calls' \in 0..MaxCalls /\ request' \in RequestRecord
<1>1. MaxCalls \in Nat
  BY MuxAssumption
<1> QED BY <1>1 DEF Typed, Call

(* Every call of the program keeps the types.                              *)
LEMMA BuildTyped == Typed /\ BuildRoutes => Typed'
<1> SUFFICES ASSUME Typed, BuildRoutes PROVE Typed'
  OBVIOUS
<1>0. mux \in [Muxes -> MuxRecord] /\ table \in [Muxes -> SUBSET EndpointRecord]
  BY DEF Typed
<1>1. ASSUME NEW m \in Muxes, NewMux(m) PROVE Typed'
  BY <1>1, FreshTyped DEF NewMux, Typed
<1>2. ASSUME NEW m \in Muxes, NEW w \in Middlewares, Use(m, w) PROVE Typed'
  <2>1. \A mx \in MuxRecord : [mx EXCEPT !.mws = Append(@, w)] \in MuxRecord
    <3>1. \A mx \in MuxRecord : Append(mx.mws, w) \in Seq(Middlewares)
      BY AppendProperties DEF MuxRecord
    <3> QED BY <3>1 DEF MuxRecord
  <2>2. mux' \in [Muxes -> MuxRecord]
    BY <1>0, <1>2, <2>1 DEF Use
  <2> QED BY <1>0, <1>2, <2>2, CallTyped DEF Use, Typed
<1>3. ASSUME NEW m \in Muxes, NEW i \in Muxes, NEW ws \in {<<>>} \cup {<<w>> : w \in Middlewares},
             With(m, i, ws)
      PROVE  Typed'
  <2>1. ws \in Seq(Middlewares)
    BY EmptySeq, Singleton
  <2>2. (IF mux[m].kind = "inline" THEN mux[m].mws ELSE <<>>) \o ws \in Seq(Middlewares)
    <3>1. mux[m].mws \in Seq(Middlewares) /\ <<>> \in Seq(Middlewares)
      BY <1>0, EmptySeq DEF MuxRecord
    <3> QED BY <2>1, <3>1, ConcatProperties
  <2>3. mux[m].owner \in Muxes \cup {NoMux} /\ mux[m].notFound \in Fallback
        /\ mux[m].notAllowed \in Fallback
    BY <1>0 DEF MuxRecord
  <2> DEFINE new == [Fresh(mux[m].owner) EXCEPT
                       !.kind = "inline", !.parent = m,
                       !.mws = (IF mux[m].kind = "inline" THEN mux[m].mws ELSE <<>>) \o ws,
                       !.notFound = mux[m].notFound, !.notAllowed = mux[m].notAllowed]
  <2>4. new \in MuxRecord
    <3>1. Fresh(mux[m].owner) \in MuxRecord
      BY <2>3, FreshTyped
    <3> QED BY <2>2, <2>3, <3>1 DEF MuxRecord
  <2>5. mux' = [mux EXCEPT ![m] = Built(@), ![i] = new]
    BY <1>3 DEF With
  <2>6. Built(mux[m]) \in MuxRecord
    BY <1>0, BuiltTyped
  <2> HIDE DEF new
  <2>7. mux' \in [Muxes -> MuxRecord]
    BY <1>0, <2>4, <2>5, <2>6
  <2> QED BY <1>0, <1>3, <2>7, CallTyped DEF With, Typed
<1>4. ASSUME NEW m \in Muxes, NEW n \in Methods \cup {"ALL"}, NEW p \in Patterns, Handle(m, n, p)
      PROVE  Typed'
  <2>1. p \in Seq(Segments) /\ MethodsOf(n) \subseteq Methods
    BY MuxAssumption DEF MethodsOf
  <2>2. {Endpoint(m, o, p, NoMux) : o \in MethodsOf(n)} \subseteq EndpointRecord
    BY <2>1, EndpointTyped
  <2>3. table' \in [Muxes -> SUBSET EndpointRecord]
    BY <1>0, <1>4, <2>2 DEF Handle, Inserted
  <2>4. mux' \in [Muxes -> MuxRecord]
    BY <1>0, <1>4, BuiltTyped DEF Handle
  <2> QED BY <1>4, <2>3, <2>4, CallTyped DEF Handle, Typed
<1>5. ASSUME NEW m \in Muxes, NEW p \in MountPatterns, NEW s \in Muxes, Mount(m, p, s)
      PROVE  Typed'
  <2>1. \A q \in MountedAt(p) : q \in Seq(Segments)
    BY MountedPatterns
  <2> DEFINE N == {Endpoint(m, n, q, s) : n \in Methods, q \in MountedAt(p)}
  <2>2. N \subseteq EndpointRecord
    BY <2>1, EndpointTyped
  <2>3. table' = [table EXCEPT ![mux[m].owner] = Inserted(@, N)]
    BY <1>5 DEF Mount
  <2> HIDE DEF N
  <2>4. table' \in [Muxes -> SUBSET EndpointRecord]
    BY <1>0, <2>2, <2>3 DEF Inserted
  <2>5. mux' \in [Muxes -> MuxRecord]
    BY <1>0, <1>5, BuiltTyped, InheritingTyped DEF Mount
  <2> QED BY <1>5, <2>4, <2>5, CallTyped DEF Mount, Typed
<1>6. ASSUME NEW m \in Muxes, NEW f \in Fallbacks, SetFallback(m, f)
      PROVE  Typed'
  <2>1. mux[m].mws \in Seq(Middlewares) /\ <<>> \in Seq(Middlewares)
    BY <1>0, EmptySeq DEF MuxRecord
  <2>2. [chain |-> mux[m].mws, name |-> f] \in Fallback /\ [chain |-> <<>>, name |-> f] \in Fallback
    BY <2>1 DEF Fallback
  <2>3. \A x \in MuxRecord, g \in Fallback : [x EXCEPT !.notFound = g] \in MuxRecord
    BY DEF MuxRecord
  <2>4. mux' \in [Muxes -> MuxRecord]
    BY <1>0, <1>6, <2>2, <2>3 DEF SetFallback
  <2> QED BY <1>0, <1>6, <2>4, CallTyped DEF SetFallback, Typed
<1> QED BY <1>1, <1>2, <1>3, <1>4, <1>5, <1>6 DEF BuildRoutes, SetNotFound, SetMethodNotAllowed

(* The types of what a request goes through.                               *)
LEMMA AnsweredTyped ==
  ASSUME Typed, NEW r \in RequestRecord
  PROVE  NotFound(r) \in RequestRecord /\ MethodNotAllowed(r) \in RequestRecord
<1>1. r.at \in Muxes /\ r.ran \in Seq(Middlewares) /\ r.answers \in Seq(Answer)
  BY DEF RequestRecord
<1>2. ASSUME NEW f \in Fallback, NEW status \in {404, 405}
      PROVE  Answered(r, status, f) \in RequestRecord
  <2>1. r.ran \o f.chain \in Seq(Middlewares)
    BY <1>1, ConcatProperties DEF Fallback
  <2>2. [status |-> status, name |-> f.name] \in Answer
    BY DEF Fallback, Answer
  <2>3. Append(r.answers, [status |-> status, name |-> f.name]) \in Seq(Answer)
    BY <1>1, <2>2, AppendProperties
  <2> QED BY <2>1, <2>3 DEF Answered, RequestRecord
<1>3. mux[r.at].notFound \in Fallback /\ mux[r.at].notAllowed \in Fallback
  BY <1>1 DEF Typed, MuxRecord
<1> QED BY <1>2, <1>3 DEF NotFound, MethodNotAllowed

(* The last answer is an error.                                            *)
Failed == request.phase = "done" /\ Last(request.answers).status # 200

(* The answers 404 and 405 end the request with the status of an error.    *)
LEMMA AnsweredFails ==
  ASSUME Typed, NEW r \in RequestRecord, NEW s \in RequestRecord,
         s = NotFound(r) \/ s = MethodNotAllowed(r)
  PROVE  /\ s.phase = "done" /\ Last(s.answers).status # 200
         /\ s.asked = r.asked /\ s.method = r.method
<1>1. r.answers \in Seq(Answer)
  BY DEF RequestRecord
<1>2. ASSUME NEW f \in Fallback, NEW status \in {404, 405}
      PROVE  /\ Answered(r, status, f).phase = "done"
             /\ Last(Answered(r, status, f).answers).status = status
             /\ Answered(r, status, f).asked = r.asked
             /\ Answered(r, status, f).method = r.method
  <2> DEFINE a == [status |-> status, name |-> f.name]
  <2>1. a \in Answer /\ a.status = status
    BY DEF Fallback, Answer
  <2>2. Last(Append(r.answers, a)) = a
    <3> HIDE DEF a
    <3> QED BY <1>1, <2>1, AppendProperties DEF Last
  <2>3. Answered(r, status, f).answers = Append(r.answers, a)
    BY DEF Answered, RequestRecord
  <2> QED BY <2>1, <2>2, <2>3 DEF Answered, RequestRecord
<1>3. mux[r.at].notFound \in Fallback /\ mux[r.at].notAllowed \in Fallback
  BY DEF Typed, MuxRecord, RequestRecord
<1> QED BY <1>2, <1>3 DEF NotFound, MethodNotAllowed

(* What Enter does to a request.                                           *)
LEMMA EnterOutcome ==
  ASSUME Typed, Enter
  PROVE  /\ request.phase = "enter" /\ request' \in RequestRecord
         /\ request'.asked = request.asked /\ request'.method = request.method
         /\ \/ ~ mux[request.at].built /\ Failed'
            \/ /\ mux[request.at].built /\ request'.phase = "route"
               /\ request'.ran = request.ran \o mux[request.at].chain
               /\ request'.at = request.at /\ request'.path = request.path
               /\ request'.trail = request.trail
<1>1. request \in RequestRecord /\ request.at \in Muxes /\ request.ran \in Seq(Middlewares)
  BY DEF Typed, RequestRecord
<1>2. CASE ~ mux[request.at].built
  <2>1. request' = NotFound(request)
    BY <1>2 DEF Enter
  <2>2. request' \in RequestRecord
    BY <1>1, <2>1, AnsweredTyped
  <2>3. /\ request'.phase = "done" /\ Last(request'.answers).status # 200
        /\ request'.asked = request.asked /\ request'.method = request.method
    BY <1>1, <2>1, <2>2, AnsweredFails
  <2>4. request.phase = "enter" /\ Failed'
    BY <2>3 DEF Failed, Enter
  <2> QED BY <1>2, <2>2, <2>3, <2>4
<1>3. CASE mux[request.at].built
  <2>1. request' = [request EXCEPT !.phase = "route", !.ran = @ \o mux[request.at].chain]
    BY <1>3 DEF Enter
  <2>2. request.ran \o mux[request.at].chain \in Seq(Middlewares)
    BY <1>1, ConcatProperties DEF Typed, MuxRecord
  <2> QED BY <1>1, <1>3, <2>1, <2>2 DEF Enter, RequestRecord
<1> QED BY <1>2, <1>3

(* What Route does to a request.                                           *)
LEMMA RouteOutcome ==
  ASSUME Typed, EndpointsMade, Route,
         NEW e, e = Hit(request.at, request.path, request.method),
         NEW C, C = Candidates(request.at, request.path, request.method)
  PROVE  /\ request.phase = "route" /\ request' \in RequestRecord
         /\ request'.asked = request.asked /\ request'.method = request.method
         /\ \/ (request.method = "unknown" \/ C = {}) /\ Failed'
            \/ /\ e \in C /\ \A f \in C : ~ Before(f.pattern, e.pattern)
               /\ request'.ran = request.ran \o e.chain
               /\ request'.trail = Append(request.trail, e)
               /\ e.sub = NoMux => request'.phase = "done" /\ Last(request'.answers).status = 200
               /\ e.sub # NoMux => /\ request'.phase = "enter" /\ request'.at = e.sub
                                   /\ request'.path = NextPath(e.pattern, request.path)
<1>0. request.phase = "route" /\ request \in RequestRecord
  BY DEF Typed, Route
<1>1. /\ request.at \in Muxes /\ request.path \in Seq(Segments)
      /\ request.ran \in Seq(Middlewares) /\ request.trail \in Seq(EndpointRecord)
      /\ request.answers \in Seq(Answer) /\ request.hint \in BOOLEAN
  BY <1>0 DEF RequestRecord
<1> DEFINE hinted == Hinted(request.at, request.path, request.method)
           flagged == [request EXCEPT !.hint = @ \/ hinted]
           onward == [flagged EXCEPT !.ran = @ \o e.chain, !.trail = Append(@, e)]
           ok == [status |-> 200, name |-> "handler"]
<1>2. flagged \in RequestRecord /\ flagged.asked = request.asked
      /\ flagged.method = request.method
  <2>1. (request.hint \/ hinted) \in BOOLEAN
    BY <1>1
  <2> HIDE DEF hinted
  <2> QED BY <1>0, <2>1 DEF RequestRecord
<1>3. CASE request.method = "unknown"
  <2>1. request' = MethodNotAllowed(request)
    BY <1>3 DEF Route
  <2>2. request' \in RequestRecord
    BY <1>0, <2>1, AnsweredTyped
  <2> QED BY <1>0, <1>3, <2>1, <2>2, AnsweredFails DEF Failed
<1>4. CASE request.method # "unknown" /\ C = {}
  <2>1. request' = NotFound(IF flagged.hint THEN MethodNotAllowed(flagged) ELSE flagged)
    BY <1>4 DEF Route
  <2> DEFINE r == IF flagged.hint THEN MethodNotAllowed(flagged) ELSE flagged
  <2> HIDE DEF flagged
  <2>2. MethodNotAllowed(flagged) \in RequestRecord
    BY <1>2, AnsweredTyped
  <2>3. r \in RequestRecord /\ r.asked = request.asked /\ r.method = request.method
    BY <1>2, <2>2, AnsweredFails
  <2> HIDE DEF r
  <2>4. request' = NotFound(r)
    BY <2>1 DEF r
  <2>5. request' \in RequestRecord
    BY <2>3, <2>4, AnsweredTyped
  <2> QED BY <1>0, <1>4, <2>3, <2>4, <2>5, AnsweredFails DEF Failed
<1>5. CASE request.method # "unknown" /\ C # {}
  <2>1. e \in C /\ \A f \in C : ~ Before(f.pattern, e.pattern)
    BY <1>1, <1>5, HitFound
  <2>2. e \in table[request.at] /\ e \in EndpointRecord /\ MatchesPath(e.pattern, request.path)
    BY <1>1, <2>1 DEF Candidates, Matching, Typed
  <2>3. e.chain \in Seq(Middlewares) /\ e.pattern \in Seq(Segments) /\ e.sub \in Muxes \cup {NoMux}
    BY <2>2 DEF EndpointRecord
  <2>4. request.ran \o e.chain \in Seq(Middlewares)
    BY <1>1, <2>3, ConcatProperties
  <2>5. Append(request.trail, e) \in Seq(EndpointRecord)
    BY <1>1, <2>2, AppendProperties
  <2>6. onward \in RequestRecord /\ onward.asked = request.asked /\ onward.method = request.method
        /\ onward.ran = request.ran \o e.chain /\ onward.trail = Append(request.trail, e)
        /\ onward.path = request.path /\ onward.answers = request.answers
    <3> HIDE DEF hinted
    <3>1. /\ flagged.ran = request.ran /\ flagged.trail = request.trail
          /\ flagged.path = request.path /\ flagged.answers = request.answers
      BY <1>0 DEF RequestRecord
    <3> HIDE DEF flagged
    <3> QED BY <1>2, <2>4, <2>5, <3>1 DEF RequestRecord
  <2>7. CASE e.sub = NoMux
    <3>1. request' = [onward EXCEPT !.phase = "done", !.answers = Append(@, ok)]
      BY <1>5, <2>7 DEF Route
    <3>2. ok \in Answer /\ ok.status = 200
      BY DEF Answer
    <3> HIDE DEF onward, ok
    <3>3. Append(request.answers, ok) \in Seq(Answer) /\ Last(Append(request.answers, ok)) = ok
      BY <1>1, <3>2, AppendProperties DEF Last
    <3>4. request' \in RequestRecord
      BY <2>6, <3>1, <3>3 DEF RequestRecord
    <3>5. /\ request'.phase = "done" /\ request'.answers = Append(request.answers, ok)
          /\ request'.asked = request.asked /\ request'.method = request.method
          /\ request'.ran = request.ran \o e.chain /\ request'.trail = Append(request.trail, e)
      BY <2>6, <3>1 DEF RequestRecord
    <3> QED BY <1>0, <2>1, <2>7, <3>2, <3>3, <3>4, <3>5
  <2>8. CASE e.sub # NoMux
    <3>1. request' = [onward EXCEPT !.phase = "enter", !.at = e.sub,
                                    !.path = NextPath(e.pattern, @)]
      BY <1>5, <2>8 DEF Route
    <3> HIDE DEF onward
    <3>2. NextPath(e.pattern, request.path) \in Seq(Segments)
      <4>1. CASE Last(e.pattern) # "*"
        BY <4>1, Slash DEF NextPath
      <4>2. CASE Last(e.pattern) = "*"
        <5>1. e.pattern # <<>>
          BY <1>1, <2>2 DEF EndpointsMade, MadeIn
        <5>2. Len(e.pattern) \in Nat \ {0} /\ Len(request.path) \in Nat
          BY <1>1, <2>3, <5>1, EmptySeq
        <5>3. \A i \in Len(e.pattern)..Len(request.path) : request.path[i] \in Segments
          BY <1>1, <5>2
        <5> QED BY <4>2, <5>2, <5>3, SubSeqProperties DEF NextPath
      <4> QED BY <4>1, <4>2
    <3>3. request' \in RequestRecord
      BY <2>3, <2>6, <2>8, <3>1, <3>2 DEF RequestRecord
    <3>4. /\ request'.phase = "enter" /\ request'.at = e.sub
          /\ request'.path = NextPath(e.pattern, request.path)
          /\ request'.asked = request.asked /\ request'.method = request.method
          /\ request'.ran = request.ran \o e.chain /\ request'.trail = Append(request.trail, e)
      BY <2>6, <3>1 DEF RequestRecord
    <3> QED BY <1>0, <2>1, <2>8, <3>3, <3>4
  <2> QED BY <2>7, <2>8
<1> QED BY <1>3, <1>4, <1>5

(* What Receive makes.                                                     *)
LEMMA ReceiveOutcome ==
  ASSUME NEW path \in Paths, NEW method \in Methods \cup {"unknown"}, Receive(path, method)
  PROVE  /\ request' \in RequestRecord /\ request'.phase = "enter"
         /\ request'.at = Root /\ request'.asked = path /\ request'.path = path
         /\ request'.trail = <<>> /\ request'.ran = <<>>
         /\ path \in Seq(Segments) \ {<<>>}
<1>1. path \in Seq(Segments) \ {<<>>} /\ Root \in Muxes
  BY MuxAssumption
<1>2. <<>> \in Seq(Middlewares) /\ <<>> \in Seq(EndpointRecord)
      /\ <<>> \in Seq(Answer)
  BY EmptySeq
<1> QED BY <1>1, <1>2 DEF Receive, NoRequest, RequestRecord

(* A step of a request keeps the types and leaves the routers alone.       *)
LEMMA ServeTyped ==
  Typed /\ EndpointsMade /\ Serve => Typed' /\ UNCHANGED <<mux, table, calls>>
<1> SUFFICES ASSUME Typed, EndpointsMade, Serve
             PROVE  request' \in RequestRecord /\ UNCHANGED <<mux, table, calls>>
  BY DEF Typed
<1>1. UNCHANGED <<mux, table, calls>>
  BY DEF Serve, Receive, Enter, Route
<1>2. request' \in RequestRecord
  BY ReceiveOutcome, EnterOutcome, RouteOutcome DEF Serve
<1> QED BY <1>1, <1>2

-----------------------------------------------------------------------------
(* The routers                                                             *)

(* A mux stays what it is, and takes no middlewares once it is built.      *)
Grows ==
  \A m \in Muxes :
    Born(m) => /\ mux'[m].kind = mux[m].kind
               /\ mux'[m].owner = mux[m].owner /\ mux'[m].parent = mux[m].parent
               /\ mux[m].built => mux'[m].built /\ mux'[m].mws = mux[m].mws

(* What Built and AfterHandle do to a mux.                                 *)
LEMMA BuiltFields ==
  ASSUME NEW mx \in MuxRecord, NEW b, b = Built(mx) \/ b = AfterHandle(mx)
  PROVE  /\ b.kind = mx.kind /\ b.owner = mx.owner /\ b.parent = mx.parent /\ b.mws = mx.mws
         /\ mx.built => b.built
         /\ mx.kind # "inline" => b.built
         /\ mx.kind = "inline" \/ mx.built => b.chain = mx.chain
         /\ mx.kind # "inline" /\ ~ mx.built => b.chain = mx.mws
         /\ b = AfterHandle(mx) => b.built
BY DEF Built, AfterHandle, MuxRecord

(* An endpoint stays what it is while the muxes grow.                      *)
LEMMA GrowthKeeps ==
  ASSUME Typed, Grows, NEW m \in Muxes, NEW e \in EndpointRecord, MadeIn(m, e)
  PROVE  MadeIn(m, e)'
<1>1. e.by \in Muxes /\ (e.sub # NoMux => e.sub \in Muxes)
  BY DEF EndpointRecord
<1>2. Born(m)
  BY DEF MadeIn, Born
<1>3. e.sub # NoMux => Born(e.sub)
  BY DEF MadeIn, Born
<1>4. InlineOf(e.by)' = InlineOf(e.by) /\ Born(e.by)'
  BY <1>1 DEF MadeIn, Grows, Born, InlineOf
<1> QED BY <1>1, <1>2, <1>3, <1>4 DEF MadeIn, Grows, Born

(* The inline muxes and their owners, too, if the new ones are as they     *)
(* should be.                                                              *)
LEMMA GrowthOwns ==
  ASSUME Typed, TreesOwned, Grows,
         \A m \in Muxes : ~ Born(m) => mux'[m].kind = "unborn" \/ OwnsTree(m)'
  PROVE  TreesOwned'
<1>1. (Born(Root) /\ mux[Root].kind = "mux")'
  BY MuxAssumption DEF TreesOwned, Grows, Born
<1>2. ASSUME NEW m \in Muxes, Born(m) PROVE OwnsTree(m)'
  <2>1. OwnsTree(m)
    BY DEF TreesOwned
  <2>2. CASE mux[m].kind = "inline"
    <3>1. Born(mux[m].owner)
      BY <2>1, <2>2 DEF OwnsTree, Born
    <3> QED BY <1>2, <2>1, <2>2, <3>1 DEF OwnsTree, Grows, Born
  <2>3. CASE mux[m].kind # "inline"
    BY <1>2, <2>1, <2>3 DEF OwnsTree, Grows, Born
  <2> QED BY <2>2, <2>3
<1>3. ASSUME NEW m \in Muxes PROVE OwnsTree(m)'
  <2>1. mux'[m].kind = "unborn" => OwnsTree(m)'
    BY DEF OwnsTree
  <2> QED BY <1>2, <2>1
<1> QED BY <1>1, <1>3 DEF TreesOwned

(* A step that only lets the muxes grow, and the chains of those it builds *)
(* have their middlewares.                                                 *)
LEMMA MuxesStep ==
  ASSUME Typed, TreesOwned, ChainsFixed, BuildRoutes
  PROVE  Grows /\ TreesOwned' /\ ChainsFixed'
<1>0. mux \in [Muxes -> MuxRecord]
  BY DEF Typed
<1>1. ASSUME NEW m \in Muxes, NewMux(m) PROVE Grows /\ TreesOwned' /\ ChainsFixed'
  <2>1. mux' = [mux EXCEPT ![m] = Fresh(m)] /\ ~ Born(m)
    BY <1>1 DEF NewMux
  <2>2. Fresh(m).kind = "mux" /\ Fresh(m).owner = m /\ Fresh(m).built = FALSE
    BY DEF Fresh
  <2>3. Grows
    BY <1>0, <2>1 DEF Grows
  <2>4. OwnsTree(m)'
    BY <1>0, <2>1, <2>2 DEF OwnsTree
  <2>5. \A x \in Muxes : ~ Born(x) => mux'[x].kind = "unborn" \/ OwnsTree(x)'
    BY <1>0, <2>1, <2>4 DEF Born
  <2>6. ChainsFixed'
    BY <1>0, <2>1, <2>2 DEF ChainsFixed
  <2> QED BY <2>3, <2>5, <2>6, GrowthOwns
<1>2. ASSUME NEW m \in Muxes, NEW w \in Middlewares, Use(m, w)
      PROVE  Grows /\ TreesOwned' /\ ChainsFixed'
  <2>1. mux' = [mux EXCEPT ![m].mws = Append(@, w)] /\ Born(m) /\ ~ mux[m].built
    BY <1>2 DEF Use
  <2>2. \A x \in Muxes : /\ mux'[x].kind = mux[x].kind /\ mux'[x].owner = mux[x].owner
                         /\ mux'[x].parent = mux[x].parent /\ mux'[x].built = mux[x].built
                         /\ mux'[x].chain = mux[x].chain
                         /\ x # m => mux'[x].mws = mux[x].mws
    BY <1>0, <2>1 DEF MuxRecord
  <2>3. Grows
    BY <2>1, <2>2 DEF Grows
  <2>4. ChainsFixed'
    BY <2>1, <2>2 DEF ChainsFixed
  <2>5. \A x \in Muxes : ~ Born(x) => mux'[x].kind = "unborn"
    BY <2>2 DEF Born
  <2> QED BY <2>3, <2>4, <2>5, GrowthOwns
<1>3. ASSUME NEW m \in Muxes, NEW i \in Muxes, NEW ws \in {<<>>} \cup {<<w>> : w \in Middlewares},
             With(m, i, ws)
      PROVE  Grows /\ TreesOwned' /\ ChainsFixed'
  <2> DEFINE new == [Fresh(mux[m].owner) EXCEPT
                       !.kind = "inline", !.parent = m,
                       !.mws = (IF mux[m].kind = "inline" THEN mux[m].mws ELSE <<>>) \o ws,
                       !.notFound = mux[m].notFound, !.notAllowed = mux[m].notAllowed]
  <2>1. mux' = [mux EXCEPT ![m] = Built(@), ![i] = new] /\ Born(m) /\ ~ Born(i) /\ i # m
    BY <1>3 DEF With
  <2>2. new.kind = "inline" /\ new.parent = m /\ new.owner = mux[m].owner
    BY DEF Fresh
  <2> HIDE DEF new
  <2>3. /\ mux'[i] = new /\ mux'[m] = Built(mux[m])
        /\ \A x \in Muxes : x # i /\ x # m => mux'[x] = mux[x]
    BY <1>0, <2>1
  <2>4. mux[m] \in MuxRecord
    BY <1>0
  <2>5. /\ mux'[m].kind = mux[m].kind /\ mux'[m].owner = mux[m].owner
        /\ mux'[m].parent = mux[m].parent /\ mux'[m].mws = mux[m].mws
        /\ mux[m].built => mux'[m].built
        /\ mux[m].kind # "inline" => mux'[m].built
        /\ mux[m].kind = "inline" \/ mux[m].built => mux'[m].chain = mux[m].chain
        /\ mux[m].kind # "inline" /\ ~ mux[m].built => mux'[m].chain = mux[m].mws
    BY <2>3, <2>4, BuiltFields
  <2>6. Grows
    BY <2>1, <2>3, <2>5 DEF Grows
  <2>7. ChainsFixed'
    <3> SUFFICES ASSUME NEW x \in Muxes, mux'[x].kind = "mux", mux'[x].built
                 PROVE  mux'[x].chain = mux'[x].mws
      BY DEF ChainsFixed
    <3>1. CASE x = m
      BY <2>5, <3>1 DEF ChainsFixed
    <3>2. CASE x # m
      BY <2>2, <2>3, <3>2 DEF ChainsFixed
    <3> QED BY <3>1, <3>2
  <2>8. OwnsTree(i)'
    <3>1. mux[m].kind \in {"mux", "inline"} /\ OwnsTree(m)
      BY <2>1, <2>4 DEF MuxRecord, TreesOwned, Born
    <3>2. mux[m].owner \in Muxes /\ mux[mux[m].owner].kind = "mux"
          /\ (mux[m].kind = "mux" => mux[m].owner = m)
          /\ (mux[m].kind = "inline" => mux[mux[m].owner].built)
      BY <3>1 DEF OwnsTree
    <3>3. mux'[mux[m].owner].kind = "mux" /\ mux'[mux[m].owner].built
      BY <2>5, <2>6, <3>1, <3>2 DEF Grows, Born
    <3>4. mux'[i].kind = "inline" /\ mux'[i].parent = m /\ mux'[i].owner = mux[m].owner
      BY <2>2, <2>3
    <3>5. mux'[m].owner = mux[m].owner /\ mux'[m].kind # "unborn"
      BY <2>1, <2>5 DEF Born
    <3> QED BY <3>2, <3>3, <3>4, <3>5 DEF OwnsTree, Born
  <2>9. \A x \in Muxes : ~ Born(x) => mux'[x].kind = "unborn" \/ OwnsTree(x)'
    BY <2>1, <2>3, <2>8 DEF Born
  <2> QED BY <2>6, <2>7, <2>9, GrowthOwns
<1>4. ASSUME NEW m \in Muxes, Born(m),
             \A x \in Muxes : /\ mux'[x].kind = mux[x].kind /\ mux'[x].owner = mux[x].owner
                              /\ mux'[x].parent = mux[x].parent /\ mux'[x].mws = mux[x].mws
                              /\ x # m => mux'[x].built = mux[x].built
                                          /\ mux'[x].chain = mux[x].chain,
             mux[m].built => mux'[m].built,
             mux[m].kind = "inline" \/ mux[m].built => mux'[m].chain = mux[m].chain,
             mux[m].kind # "inline" /\ ~ mux[m].built => mux'[m].chain = mux[m].mws
      PROVE  Grows /\ TreesOwned' /\ ChainsFixed'
  <2>1. Grows
    BY <1>4 DEF Grows
  <2>2. ChainsFixed'
    <3> SUFFICES ASSUME NEW x \in Muxes, mux'[x].kind = "mux", mux'[x].built
                 PROVE  mux'[x].chain = mux'[x].mws
      BY DEF ChainsFixed
    <3> QED BY <1>4 DEF ChainsFixed
  <2>3. \A x \in Muxes : ~ Born(x) => mux'[x].kind = "unborn"
    BY <1>4 DEF Born
  <2> QED BY <2>1, <2>2, <2>3, GrowthOwns
<1>5. ASSUME NEW m \in Muxes, NEW n \in Methods \cup {"ALL"}, NEW p \in Patterns, Handle(m, n, p)
      PROVE  Grows /\ TreesOwned' /\ ChainsFixed'
  <2>1. mux' = [mux EXCEPT ![m] = AfterHandle(@)] /\ Born(m) /\ mux[m] \in MuxRecord
    BY <1>0, <1>5 DEF Handle
  <2>2. mux'[m] = AfterHandle(mux[m]) /\ \A x \in Muxes : x # m => mux'[x] = mux[x]
    BY <1>0, <2>1
  <2> QED BY <1>4, <2>1, <2>2, BuiltFields
<1>6. ASSUME NEW m \in Muxes, NEW p \in MountPatterns, NEW s \in Muxes, Mount(m, p, s)
      PROVE  Grows /\ TreesOwned' /\ ChainsFixed'
  <2>1. /\ mux' = [mux EXCEPT ![m] = AfterHandle(@), ![s] = Inheriting(@, mux[m])]
        /\ Born(m) /\ s # m /\ mux[m] \in MuxRecord /\ mux[s] \in MuxRecord
    BY <1>0, <1>6 DEF Mount
  <2>2. /\ mux'[m] = AfterHandle(mux[m]) /\ mux'[s] = Inheriting(mux[s], mux[m])
        /\ \A x \in Muxes : x # m /\ x # s => mux'[x] = mux[x]
    BY <1>0, <2>1
  <2>3. /\ mux'[s].kind = mux[s].kind /\ mux'[s].owner = mux[s].owner
        /\ mux'[s].parent = mux[s].parent /\ mux'[s].mws = mux[s].mws
        /\ mux'[s].built = mux[s].built /\ mux'[s].chain = mux[s].chain
    BY <2>1, <2>2 DEF Inheriting, MuxRecord
  <2>4. /\ mux'[m].kind = mux[m].kind /\ mux'[m].owner = mux[m].owner
        /\ mux'[m].parent = mux[m].parent /\ mux'[m].mws = mux[m].mws
        /\ mux[m].built => mux'[m].built
        /\ mux[m].kind = "inline" \/ mux[m].built => mux'[m].chain = mux[m].chain
        /\ mux[m].kind # "inline" /\ ~ mux[m].built => mux'[m].chain = mux[m].mws
    BY <2>1, <2>2, BuiltFields
  <2>5. \A x \in Muxes : /\ mux'[x].kind = mux[x].kind /\ mux'[x].owner = mux[x].owner
                         /\ mux'[x].parent = mux[x].parent /\ mux'[x].mws = mux[x].mws
                         /\ x # m => mux'[x].built = mux[x].built
                                     /\ mux'[x].chain = mux[x].chain
    BY <2>2, <2>3, <2>4
  <2> QED BY <1>4, <2>1, <2>4, <2>5
<1>7. ASSUME NEW m \in Muxes, NEW f \in Fallbacks, SetFallback(m, f)
      PROVE  Grows /\ TreesOwned' /\ ChainsFixed'
  <2>1. \A x \in Muxes : /\ mux'[x].kind = mux[x].kind /\ mux'[x].owner = mux[x].owner
                         /\ mux'[x].parent = mux[x].parent /\ mux'[x].mws = mux[x].mws
                         /\ mux'[x].built = mux[x].built
                         /\ mux'[x].chain = mux[x].chain
    BY <1>0, <1>7 DEF SetFallback, MuxRecord
  <2>2. Born(m)
    BY <1>7 DEF SetFallback
  <2>3. Grows
    BY <2>1 DEF Grows
  <2>4. ChainsFixed'
    BY <2>1 DEF ChainsFixed
  <2>5. \A x \in Muxes : ~ Born(x) => mux'[x].kind = "unborn"
    BY <2>1 DEF Born
  <2> QED BY <2>3, <2>4, <2>5, GrowthOwns
<1> QED BY <1>1, <1>2, <1>3, <1>5, <1>6, <1>7 DEF BuildRoutes, SetNotFound, SetMethodNotAllowed

(* The owner of the tree that a mux registers on, after it did.            *)
LEMMA OwnerBuilt ==
  ASSUME Typed, TreesOwned, Grows, NEW m \in Muxes, Born(m), mux'[m] = AfterHandle(mux[m])
  PROVE  /\ mux[m].owner \in Muxes /\ mux'[mux[m].owner].kind = "mux"
         /\ mux'[mux[m].owner].built
         /\ mux'[m].owner = mux[m].owner /\ mux'[m].built
         /\ mux'[m].kind = mux[m].kind /\ mux'[m].mws = mux[m].mws
<1>1. mux[m] \in MuxRecord /\ mux[m].kind \in {"mux", "inline"} /\ OwnsTree(m)
  BY DEF Typed, MuxRecord, TreesOwned, Born
<1>2. mux'[m].owner = mux[m].owner /\ mux'[m].built
      /\ mux'[m].kind = mux[m].kind /\ mux'[m].mws = mux[m].mws
  BY <1>1, BuiltFields
<1>3. mux[m].owner \in Muxes /\ mux[mux[m].owner].kind = "mux"
      /\ (mux[m].kind = "mux" => mux[m].owner = m)
      /\ (mux[m].kind = "inline" => mux[mux[m].owner].built)
  BY <1>1 DEF OwnsTree
<1> QED BY <1>1, <1>2, <1>3 DEF Grows, Born

(* So that what it registers was made as it should be.                     *)
LEMMA NewEndpointMade ==
  ASSUME Typed, TreesOwned, Grows, NEW m \in Muxes, Born(m), mux'[m] = AfterHandle(mux[m]),
         NEW n \in Methods, NEW p \in Seq(Segments) \ {<<>>}, NEW s \in Muxes \cup {NoMux},
         s # NoMux => mux[s].kind = "mux" /\ s # Root,
         NEW o, o = mux[m].owner, NEW e, e = Endpoint(m, n, p, s)
  PROVE  MadeIn(o, e)'
<1>0. /\ o \in Muxes /\ mux'[o].kind = "mux" /\ mux'[o].built
      /\ mux'[m].owner = o /\ mux'[m].built
      /\ mux'[m].kind = mux[m].kind /\ mux'[m].mws = mux[m].mws
  BY OwnerBuilt
<1>1. e.by = m /\ e.pattern = p /\ e.sub = s
      /\ e.chain = (IF mux[m].kind = "inline" THEN mux[m].mws ELSE <<>>)
  BY DEF Endpoint
<1>2. e.chain = InlineOf(e.by)'
  BY <1>0, <1>1 DEF InlineOf
<1>3. s # NoMux => mux'[s].kind = "mux"
  BY DEF Grows, Born
<1>4. Born(m)'
  BY <1>0 DEF Born
<1>5. p # <<>>
  OBVIOUS
<1> QED BY <1>0, <1>1, <1>2, <1>3, <1>4, <1>5 DEF MadeIn, Born

(* Endpoints inserted in a tree keep what is said of the trees.            *)
LEMMA InsertKeeps ==
  ASSUME Typed, Grows, EndpointsMade, EndpointsUnique, MountsOnce,
         NEW o \in Muxes, NEW N \in SUBSET EndpointRecord,
         table' = [table EXCEPT ![o] = Inserted(@, N)],
         \A e \in N : MadeIn(o, e)',
         \A e, f \in N : e.pattern = f.pattern /\ e.method = f.method => e = f,
         \A e, f \in N : e.sub # NoMux =>
           \E p \in MountPatterns : e.pattern \in MountedAt(p) /\ f.pattern \in MountedAt(p),
         \A e \in N, f \in table[o] : e.sub # NoMux => e.sub # f.sub
  PROVE  EndpointsMade' /\ EndpointsUnique' /\ MountsOnce'
<1>1. \A m \in Muxes : \A e \in table'[m] : e \in table[m] \/ (m = o /\ e \in N)
  BY DEF Typed, Inserted
<1>2. \A m \in Muxes : \A e, f \in table'[m] :
        m = o /\ e \in N /\ f \notin N => e.pattern # f.pattern \/ e.method # f.method
  BY DEF Typed, Inserted
<1>3. EndpointsMade'
  <2> SUFFICES ASSUME NEW m \in Muxes, NEW e \in table'[m] PROVE MadeIn(m, e)'
    BY DEF EndpointsMade
  <2>1. CASE e \in table[m]
    BY <2>1, GrowthKeeps DEF EndpointsMade, Typed
  <2>2. CASE m = o /\ e \in N
    BY <2>2
  <2> QED BY <1>1, <2>1, <2>2
<1>4. EndpointsUnique'
  <2> SUFFICES ASSUME NEW m \in Muxes, NEW e \in table'[m], NEW f \in table'[m],
                      e.pattern = f.pattern, e.method = f.method
               PROVE  e = f
    BY DEF EndpointsUnique
  <2>1. CASE e \in N /\ m = o
    BY <1>2, <2>1
  <2>2. CASE f \in N /\ m = o
    BY <1>2, <2>2
  <2>3. CASE e \in table[m] /\ f \in table[m]
    BY <2>3 DEF EndpointsUnique
  <2> QED BY <1>1, <2>1, <2>2, <2>3
<1>5. MountsOnce'
  <2> SUFFICES ASSUME NEW m \in Muxes, NEW e \in table'[m], NEW f \in table'[m],
                      e.sub # NoMux, e.sub = f.sub
               PROVE  \E p \in MountPatterns :
                        e.pattern \in MountedAt(p) /\ f.pattern \in MountedAt(p)
    BY DEF MountsOnce
  <2>1. CASE e \in table[m] /\ f \in table[m]
    BY <2>1 DEF MountsOnce
  <2>2. CASE m = o /\ e \in N /\ f \in N
    BY <2>2
  <2>3. m = o /\ e \in N => f \notin table[m]
    OBVIOUS
  <2>4. m = o /\ f \in N => e \notin table[m]
    OBVIOUS
  <2> QED BY <1>1, <2>1, <2>2, <2>3, <2>4
<1> QED BY <1>3, <1>4, <1>5

(* A step that inserts nothing keeps it, too.                              *)
LEMMA TableKeeps ==
  ASSUME Typed, Grows, EndpointsMade, EndpointsUnique, MountsOnce, table' = table
  PROVE  EndpointsMade' /\ EndpointsUnique' /\ MountsOnce'
<1>1. EndpointsMade'
  BY GrowthKeeps DEF EndpointsMade, Typed
<1> QED BY <1>1 DEF EndpointsUnique, MountsOnce

(* The calls of the program keep what is said of the routers.              *)
LEMMA BuildRouters == Typed /\ Routers /\ BuildRoutes => Routers'
<1> SUFFICES ASSUME Typed, Routers, BuildRoutes PROVE Routers'
  OBVIOUS
<1>1. TreesOwned /\ EndpointsMade /\ EndpointsUnique /\ MountsOnce
  BY DEF Routers
<1>2. Grows /\ TreesOwned' /\ ChainsFixed'
  BY MuxesStep DEF Routers
<1>3. CASE table' = table
  BY <1>1, <1>2, <1>3, TableKeeps DEF Routers
<1>4. ASSUME NEW m \in Muxes, NEW n \in Methods \cup {"ALL"}, NEW p \in Patterns, Handle(m, n, p)
      PROVE  Routers'
  <2>0. PICK o, N : o = mux[m].owner /\ N = {Endpoint(m, k, p, NoMux) : k \in MethodsOf(n)}
    OBVIOUS
  <2>1. /\ table' = [table EXCEPT ![o] = Inserted(@, N)]
        /\ mux' = [mux EXCEPT ![m] = AfterHandle(@)] /\ Born(m)
    BY <1>4, <2>0 DEF Handle
  <2>2. mux'[m] = AfterHandle(mux[m])
    BY <2>1 DEF Typed
  <2>3. p \in Seq(Segments) \ {<<>>} /\ MethodsOf(n) \subseteq Methods
    BY MuxAssumption DEF MethodsOf
  <2>4. o \in Muxes
    BY <1>1, <1>2, <2>0, <2>1, <2>2, OwnerBuilt
  <2>5. N \subseteq EndpointRecord
    BY <2>0, <2>3, EndpointTyped
  <2>6. \A e \in N : e.sub = NoMux /\ e.pattern = p
    BY <2>0 DEF Endpoint
  <2>7. \A e, f \in N : e.method = f.method => e = f
    BY <2>0 DEF Endpoint
  <2>8. \A e \in N : MadeIn(o, e)'
    BY <1>1, <1>2, <2>0, <2>1, <2>2, <2>3, NewEndpointMade
  <2>9. EndpointsMade' /\ EndpointsUnique' /\ MountsOnce'
    BY <1>1, <1>2, <2>1, <2>4, <2>5, <2>6, <2>7, <2>8, InsertKeeps
  <2> QED BY <1>2, <2>9 DEF Routers
<1>5. ASSUME NEW m \in Muxes, NEW p \in MountPatterns, NEW s \in Muxes, Mount(m, p, s)
      PROVE  Routers'
  <2> DEFINE new == {Endpoint(m, k, q, s) : k \in Methods, q \in MountedAt(p)}
  <2> HIDE DEF new
  <2>0. PICK o, N : o = mux[m].owner /\ N = new
    OBVIOUS
  <2>1. /\ table' = [table EXCEPT ![o] = Inserted(@, N)]
        /\ mux' = [mux EXCEPT ![m] = AfterHandle(@), ![s] = Inheriting(@, mux[m])] /\ Born(m)
        /\ s # m /\ mux[s].kind = "mux" /\ s # Root /\ ~ IsMounted(s)
    BY <1>5, <2>0 DEF Mount, new
  <2>2. mux'[m] = AfterHandle(mux[m])
    BY <2>1 DEF Typed
  <2>3. \A q \in MountedAt(p) : q \in Seq(Segments) \ {<<>>}
    BY MountedPatterns
  <2>4. o \in Muxes
    BY <1>1, <1>2, <2>0, <2>1, <2>2, OwnerBuilt
  <2>5. \A e \in N : \E k \in Methods, q \in MountedAt(p) : e = Endpoint(m, k, q, s)
    BY <2>0 DEF new
  <2>6. N \subseteq EndpointRecord
    BY <2>3, <2>5, EndpointTyped
  <2>7. \A e \in N : e.sub = s /\ e.pattern \in MountedAt(p)
    BY <2>5 DEF Endpoint
  <2>8. \A e, f \in N : e.pattern = f.pattern /\ e.method = f.method => e = f
    BY <2>5 DEF Endpoint
  <2>9. \A e \in N : MadeIn(o, e)'
    <3> SUFFICES ASSUME NEW e \in N PROVE MadeIn(o, e)'
      OBVIOUS
    <3>1. PICK k \in Methods, q \in MountedAt(p) : e = Endpoint(m, k, q, s)
      BY <2>5
    <3> QED BY <1>1, <1>2, <2>0, <2>1, <2>2, <2>3, <3>1, NewEndpointMade
  <2>10. \A f \in table[o] : f.sub # s
    BY <2>1, <2>4 DEF IsMounted
  <2>11. EndpointsMade' /\ EndpointsUnique' /\ MountsOnce'
    <3>1. \A e, f \in N : e.sub # NoMux =>
            \E r \in MountPatterns : e.pattern \in MountedAt(r) /\ f.pattern \in MountedAt(r)
      BY <2>7
    <3>2. \A e \in N, f \in table[o] : e.sub # NoMux => e.sub # f.sub
      BY <2>7, <2>10
    <3>3. N \in SUBSET EndpointRecord
      BY <2>6
    <3>4. table' = [table EXCEPT ![o] = Inserted(@, N)]
      BY <2>1
    <3> QED BY <1>1, <1>2, <2>4, <2>8, <2>9, <3>1, <3>2, <3>3, <3>4, InsertKeeps
  <2> QED BY <1>2, <2>11 DEF Routers
<1>6. \/ table' = table
      \/ \E m \in Muxes, n \in Methods \cup {"ALL"}, p \in Patterns : Handle(m, n, p)
      \/ \E m \in Muxes, p \in MountPatterns, s \in Muxes : Mount(m, p, s)
  BY DEF BuildRoutes, NewMux, Use, With, SetNotFound, SetMethodNotAllowed, SetFallback
<1> QED BY <1>3, <1>4, <1>5, <1>6

(* Initially there is the root alone, with nothing in its tree.            *)
LEMMA InitRouters == Init => Routers
<1> SUFFICES ASSUME Init PROVE Routers
  OBVIOUS
<1>1. /\ mux = [m \in Muxes |-> IF m = Root THEN Fresh(m) ELSE Unborn]
      /\ \A m \in Muxes : table[m] = {}
  BY DEF Init
<1>2. \A m \in Muxes : /\ m = Root => mux[m].kind = "mux" /\ mux[m].owner = m
                       /\ m # Root => mux[m].kind = "unborn"
                       /\ mux[m].built = FALSE
  BY <1>1 DEF Fresh, Unborn
<1>3. TreesOwned
  BY <1>2, MuxAssumption DEF TreesOwned, OwnsTree, Born
<1>4. ChainsFixed
  BY <1>2 DEF ChainsFixed
<1>5. EndpointsMade /\ EndpointsUnique /\ MountsOnce
  BY <1>1 DEF EndpointsMade, EndpointsUnique, MountsOnce
<1> QED BY <1>3, <1>4, <1>5 DEF Routers

-----------------------------------------------------------------------------
(* The trail of a request                                                  *)

(* A trail that is prolonged is the same up to there.                      *)
LEMMA Prolonged ==
  ASSUME Typed, TrailFound, Active, NEW e \in table[request.at],
         request' \in RequestRecord, request'.trail = Append(request.trail, e),
         UNCHANGED <<mux, table>>,
         NEW n, n = Len(request.trail)
  PROVE  /\ n \in Nat /\ Len(request'.trail) = n + 1
         /\ \A i \in 1..n : request'.trail[i] = request.trail[i]
         /\ request'.trail[n + 1] = e /\ Last(request'.trail) = e /\ request'.trail # <<>>
         /\ \A i \in 1..(n + 1) : FoundIn(i)' = FoundIn(i)
         /\ FoundIn(n + 1) = request.at
         /\ FoundIn(n + 2)' = e.sub
<1>1. request.trail \in Seq(EndpointRecord) /\ e \in EndpointRecord
  BY DEF Typed, RequestRecord
<1>2. n \in Nat
  BY <1>1
<1>3. /\ Len(request'.trail) = n + 1
      /\ \A i \in 1..n : request'.trail[i] = request.trail[i]
      /\ request'.trail[n + 1] = e /\ request'.trail # <<>>
  BY <1>1, AppendProperties
<1>4. Last(request'.trail) = e
  BY <1>3 DEF Last
<1>5. ASSUME NEW i \in 1..(n + 1) PROVE FoundIn(i)' = FoundIn(i)
  <2>1. i = 1 \/ i - 1 \in 1..n
    BY <1>2
  <2> QED BY <1>3, <2>1 DEF FoundIn
<1>6. FoundIn(n + 2)' = e.sub
  <2>1. n + 2 # 1 /\ (n + 2) - 1 = n + 1
    BY <1>2
  <2> QED BY <1>3, <2>1 DEF FoundIn
<1> QED BY <1>2, <1>3, <1>4, <1>5, <1>6 DEF TrailFound

(* The endpoint that Route finds is in the tree of the mux, and matches.   *)
LEMMA CandidateIs ==
  ASSUME Typed, Routers, NEW m \in Muxes, NEW path, NEW method,
         NEW e \in Candidates(m, path, method)
  PROVE  /\ e \in table[m] /\ e \in EndpointRecord /\ MadeIn(m, e)
         /\ e.method = method /\ MatchesPath(e.pattern, path)
         /\ e.pattern \in Seq(Segments) \ {<<>>}
<1>1. e \in table[m] /\ e.method = method /\ MatchesPath(e.pattern, path)
  BY DEF Candidates, Matching
<1>2. MadeIn(m, e) /\ e \in EndpointRecord
  BY <1>1 DEF Routers, EndpointsMade, Typed
<1>3. e.pattern \in Seq(Segments) /\ e.pattern # <<>>
  BY <1>2 DEF EndpointRecord, MadeIn
<1> QED BY <1>1, <1>2, <1>3

(* The routers are built before the first request.                         *)
LEMMA BuildsBefore == BuildRoutes => request.phase = "none" /\ UNCHANGED request
<1> SUFFICES ASSUME BuildRoutes PROVE Call \/ \E m \in Muxes : NewMux(m)
  BY DEF Call, NewMux
<1>1. \A m, w : Use(m, w) => Call
  BY DEF Use
<1>2. \A m, i, ws : With(m, i, ws) => Call
  BY DEF With
<1>3. \A m, n, p : Handle(m, n, p) => Call
  BY DEF Handle
<1>4. \A m, p, s : Mount(m, p, s) => Call
  BY DEF Mount
<1>5. \A m, f : SetNotFound(m, f) \/ SetMethodNotAllowed(m, f) => Call
  BY DEF SetNotFound, SetMethodNotAllowed, SetFallback
<1> QED BY <1>1, <1>2, <1>3, <1>4, <1>5 DEF BuildRoutes

(* The trail leads from mux to mux.                                        *)
LEMMA TrailStep ==
  ASSUME Typed, Routers, TrailFound, Next
  PROVE  TrailFound'
<1>1. CASE BuildRoutes
  <2>1. request.phase = "none" /\ request' = request
    BY <1>1, BuildsBefore
  <2>2. request.trail = <<>> /\ Len(<<>>) = 0
    BY <2>1, EmptySeq DEF TrailFound
  <2> QED BY <2>1, <2>2 DEF TrailFound, Active
<1>2. CASE Serve
  <2>1. UNCHANGED <<mux, table>> /\ request \in RequestRecord /\ request' \in RequestRecord
    BY <1>2, ServeTyped DEF Routers, Typed
  <2>2. ASSUME NEW path \in Paths, NEW method \in Methods \cup {"unknown"}, Receive(path, method)
        PROVE  TrailFound'
    <3>1. request'.phase = "enter" /\ request'.at = Root /\ request'.trail = <<>>
      BY <2>2, ReceiveOutcome
    <3>2. Len(<<>>) = 0 /\ 0 + 1 = 1
      BY EmptySeq
    <3>3. FoundIn(Len(request.trail) + 1)' = Root
      BY <3>1, <3>2 DEF FoundIn
    <3>4. mux[Root].kind = "mux"
      BY DEF Routers, TreesOwned
    <3> QED BY <2>1, <3>1, <3>2, <3>3, <3>4 DEF TrailFound, Active
  <2>3. ASSUME request'.trail = request.trail, request.phase # "none", request'.phase # "none",
               Active' => Active /\ request'.at = request.at
        PROVE  TrailFound'
    <3>1. \A i : FoundIn(i)' = FoundIn(i)
      BY <2>3 DEF FoundIn
    <3> QED BY <2>1, <2>3, <3>1 DEF TrailFound
  <2>4. CASE Enter
    <3>1. Active /\ (Failed' => ~ Active')
      BY <2>4, EnterOutcome DEF Failed, Active
    <3>2. Failed' => request'.trail = request.trail
      BY <2>1, <2>4, EnterOutcome DEF Enter, NotFound, Answered, RequestRecord
    <3> QED BY <2>3, <2>4, <3>1, <3>2, EnterOutcome DEF Active, Failed
  <2>5. CASE Route
    <3> DEFINE e == Hit(request.at, request.path, request.method)
               C == Candidates(request.at, request.path, request.method)
    <3>1. Active /\ request.phase = "route" /\ request.at \in Muxes
      BY <2>1, <2>5 DEF Route, Active, RequestRecord
    <3>2. CASE request.method = "unknown" \/ C = {}
      <4>1. request'.trail = request.trail /\ request'.phase = "done"
        BY <2>1, <2>5, <3>2 DEF Route, NotFound, MethodNotAllowed, Answered, RequestRecord
      <4> QED BY <2>3, <3>1, <4>1 DEF Active
    <3>3. CASE ~ (request.method = "unknown" \/ C = {})
      <4>0. PICK n, x : n = Len(request.trail) /\ x = e
        OBVIOUS
      <4>1. /\ x \in C /\ request'.trail = Append(request.trail, x)
            /\ x.sub = NoMux => request'.phase = "done"
            /\ x.sub # NoMux => request'.phase = "enter" /\ request'.at = x.sub
        BY <2>5, <3>3, <4>0, RouteOutcome DEF Routers
      <4>2. x \in table[request.at] /\ MadeIn(request.at, x) /\ x \in EndpointRecord
        BY <3>1, <4>1, CandidateIs
      <4>3. /\ n \in Nat /\ Len(request'.trail) = n + 1
            /\ \A i \in 1..n : request'.trail[i] = request.trail[i]
            /\ request'.trail[n + 1] = x
            /\ \A i \in 1..(n + 1) : FoundIn(i)' = FoundIn(i)
            /\ FoundIn(n + 1) = request.at
            /\ FoundIn(n + 2)' = x.sub
        BY <2>1, <3>1, <4>0, <4>1, <4>2, Prolonged
      <4>4. \A i \in 1..(n + 1) : FoundIn(i)' \in Muxes /\ request'.trail[i] \in table[FoundIn(i)']
        <5>1. \A i \in 1..(n + 1) : i \in 1..n \/ i = n + 1
          BY <4>3
        <5> QED BY <3>1, <4>0, <4>2, <4>3, <5>1 DEF TrailFound
      <4>5. Active' => request'.at = FoundIn(n + 2)' /\ mux[request'.at].kind = "mux"
        BY <4>1, <4>2, <4>3 DEF Active, MadeIn
      <4>6. (n + 1) + 1 = n + 2
        BY <4>3
      <4>7. Active' => request'.at = FoundIn(Len(request.trail) + 1)'
        BY <4>3, <4>5, <4>6
      <4> QED BY <2>1, <4>1, <4>3, <4>4, <4>5, <4>7 DEF TrailFound
    <3> QED BY <3>2, <3>3
  <2> QED BY <1>2, <2>2, <2>4, <2>5 DEF Serve
<1> QED BY <1>1, <1>2 DEF Next

-----------------------------------------------------------------------------
(* The middlewares                                                         *)

(* The middlewares of an endpoint on the trail are a sequence.             *)
LEMMA MiddlewaresTyped ==
  ASSUME Typed, TrailFound, NEW i \in 1..Len(request.trail)
  PROVE  MiddlewaresOf(i) \in Seq(Middlewares)
<1>1. FoundIn(i) \in Muxes
  BY DEF TrailFound
<1>2. request.trail[i] \in EndpointRecord
  <2>1. request.trail \in Seq(EndpointRecord)
    BY DEF Typed, RequestRecord
  <2> QED BY <2>1
<1>3. request.trail[i].by \in Muxes
  BY <1>2 DEF EndpointRecord
<1>4. mux[FoundIn(i)].mws \in Seq(Middlewares) /\ mux[request.trail[i].by].mws \in Seq(Middlewares)
  BY <1>1, <1>3 DEF Typed, MuxRecord
<1>5. <<>> \in Seq(Middlewares)
  BY EmptySeq
<1> QED BY <1>4, <1>5, ConcatProperties DEF MiddlewaresOf

(* So are those that a trail is to run.                                    *)
LEMMA ExpectedTyped ==
  ASSUME Typed, TrailFound
  PROVE  Expected \in Seq(Middlewares)
<1> DEFINE n == Len(request.trail)
           f == [i \in 1..n |-> MiddlewaresOf(i)]
<1>1. n \in Nat
  BY DEF Typed, RequestRecord
<1>2. f \in [1..n -> Seq(Middlewares)]
  BY MiddlewaresTyped
<1>3. f \in Seq(Seq(Middlewares))
  <2> HIDE DEF f, n
  <2> QED BY <1>1, <1>2, SeqDef
<1>4. FlattenSeq(f) \in Seq(Middlewares)
  <2> HIDE DEF f
  <2> QED BY <1>3, FlattenType
<1> QED BY <1>4 DEF Expected

(* One endpoint more on the trail: the middlewares of the mux it is in,    *)
(* and those around it.                                                    *)
LEMMA ExpectedStep ==
  ASSUME Typed, Typed', Routers, TrailFound, TrailFound', Active,
         NEW e \in table[request.at],
         request'.trail = Append(request.trail, e), UNCHANGED <<mux, table>>
  PROVE  Expected' = Expected \o (mux[request.at].mws \o e.chain)
<1>0. PICK n : n = Len(request.trail)
  OBVIOUS
<1>1. /\ n \in Nat /\ Len(request'.trail) = n + 1
      /\ \A i \in 1..n : request'.trail[i] = request.trail[i]
      /\ request'.trail[n + 1] = e
      /\ \A i \in 1..(n + 1) : FoundIn(i)' = FoundIn(i)
      /\ FoundIn(n + 1) = request.at
  BY <1>0, Prolonged DEF Typed
<1>2. \A i \in 1..n : MiddlewaresOf(i)' = MiddlewaresOf(i)
  <2>1. \A i \in 1..n : i \in 1..(n + 1)
    BY <1>1
  <2> QED BY <1>1, <2>1 DEF MiddlewaresOf
<1>3. MiddlewaresOf(n + 1)' = mux[request.at].mws \o e.chain
  <2>1. n + 1 \in 1..(n + 1)
    BY <1>1
  <2>2. request.at \in Muxes
    BY DEF Typed, RequestRecord
  <2>3. e.chain = InlineOf(e.by)
    BY <2>2 DEF Routers, EndpointsMade, MadeIn
  <2>4. FoundIn(n + 1)' = request.at
    BY <1>1, <2>1
  <2> QED BY <1>1, <2>3, <2>4 DEF MiddlewaresOf, InlineOf
<1>4. \A i \in 1..n : MiddlewaresOf(i) \in Seq(Middlewares)
  BY <1>0, MiddlewaresTyped
<1>5. mux[request.at].mws \o e.chain \in Seq(Middlewares)
  <2>1. mux[request.at].mws \in Seq(Middlewares)
    BY DEF Typed, RequestRecord, MuxRecord
  <2>2. e \in EndpointRecord
    BY DEF Typed, RequestRecord
  <2> QED BY <2>1, <2>2, ConcatProperties DEF EndpointRecord
<1>6. PICK f : f = [i \in 1..n |-> MiddlewaresOf(i)]
  OBVIOUS
<1>7. PICK g : g = [i \in 1..(n + 1) |-> MiddlewaresOf(i)']
  OBVIOUS
<1>8. f \in [1..n -> Seq(Middlewares)] /\ g \in [1..(n + 1) -> Seq(Middlewares)]
      /\ (\A i \in 1..n : f[i] = g[i]) /\ g[n + 1] = mux[request.at].mws \o e.chain
  <2>1. \A i \in 1..(n + 1) : i \in 1..n \/ i = n + 1
    BY <1>1
  <2>2. \A i \in 1..n : i \in 1..(n + 1)
    BY <1>1
  <2>3. n + 1 \in 1..(n + 1)
    BY <1>1
  <2>4. f \in [1..n -> Seq(Middlewares)] /\ \A i \in 1..n : f[i] = MiddlewaresOf(i)
    BY <1>4, <1>6
  <2>5. \A i \in 1..(n + 1) : g[i] = MiddlewaresOf(i)'
    BY <1>7
  <2>6. \A i \in 1..(n + 1) : MiddlewaresOf(i)' \in Seq(Middlewares)
    BY <1>2, <1>3, <1>4, <1>5, <2>1
  <2>7. g \in [1..(n + 1) -> Seq(Middlewares)]
    BY <1>7, <2>6
  <2>8. \A i \in 1..n : f[i] = g[i]
    BY <1>2, <2>2, <2>4, <2>5
  <2> QED BY <1>3, <2>3, <2>4, <2>5, <2>7, <2>8
<1>9. FlattenSeq(g) = FlattenSeq(f) \o g[n + 1]
  BY <1>1, <1>8, FlattenProlonged
<1>10. Expected = FlattenSeq(f)
  BY <1>0, <1>6 DEF Expected
<1>11. Expected' = FlattenSeq(g)
  BY <1>1, <1>7 DEF Expected
<1> QED BY <1>8, <1>9, <1>10, <1>11

(* The same trail has the same middlewares and the same parts.             *)
LEMMA SameTrail ==
  ASSUME request'.trail = request.trail, UNCHANGED mux
  PROVE  Expected' = Expected /\ Parts' = Parts
<1>1. \A i : FoundIn(i)' = FoundIn(i)
  BY DEF FoundIn
<1>2. \A i : MiddlewaresOf(i)' = MiddlewaresOf(i)
  BY <1>1 DEF MiddlewaresOf
<1>3. \A i : PartOf(i)' = PartOf(i)
  BY DEF PartOf
<1> QED BY <1>2, <1>3 DEF Expected, Parts

(* A trail that begins has none.                                           *)
LEMMA NoTrail ==
  ASSUME request'.trail = <<>>
  PROVE  Expected' = <<>> /\ Parts' = <<>>
<1>1. Len(<<>>) = 0
  BY EmptySeq
<1>2. PICK f : f = [i \in 1..0 |-> MiddlewaresOf(i)']
  OBVIOUS
<1>3. PICK g : g = [i \in 1..0 |-> PartOf(i)']
  OBVIOUS
<1>4. f \in [1..0 -> {}] /\ g \in [1..0 -> {}]
  BY <1>2, <1>3
<1>5. Expected' = FlattenSeq(f) /\ Parts' = FlattenSeq(g)
  BY <1>1, <1>2, <1>3 DEF Expected, Parts
<1> QED BY <1>4, <1>5, FlattenNone

(* Every step keeps that the middlewares that ran are those of the trail.  *)
LEMMA RanStep ==
  ASSUME Typed, Typed', Routers, TrailFound, TrailFound', RanSoFar, Next
  PROVE  RanSoFar'
<1>1. CASE BuildRoutes
  <2>1. request'.phase = "none"
    BY <1>1, BuildsBefore
  <2> QED BY <2>1 DEF RanSoFar, MiddlewaresComplete, HandlerRan
<1>2. CASE Serve
  <2>1. UNCHANGED <<mux, table>> /\ request \in RequestRecord /\ request' \in RequestRecord
    BY <1>2, ServeTyped DEF Routers, Typed
  <2>2. request.at \in Muxes
    BY <2>1 DEF RequestRecord
  <2>3. Failed' => RanSoFar'
    BY DEF Failed, RanSoFar, MiddlewaresComplete, HandlerRan
  <2>4. ASSUME NEW path \in Paths, NEW method \in Methods \cup {"unknown"}, Receive(path, method)
        PROVE  RanSoFar'
    <3>1. request'.phase = "enter" /\ request'.ran = <<>> /\ request'.trail = <<>>
      BY <2>4, ReceiveOutcome
    <3> QED BY <3>1, NoTrail DEF RanSoFar, MiddlewaresComplete, HandlerRan
  <2>5. CASE Enter
    <3>1. request.phase = "enter" /\ request.ran = Expected
      BY <2>5 DEF RanSoFar, Enter
    <3>2. CASE ~ Failed'
      <4>1. /\ mux[request.at].built /\ request'.phase = "route"
            /\ request'.ran = request.ran \o mux[request.at].chain
            /\ request'.at = request.at /\ request'.trail = request.trail
        BY <2>5, <3>2, EnterOutcome
      <4>2. mux[request.at].kind = "mux"
        BY <3>1 DEF TrailFound, Active
      <4>3. mux[request.at].chain = mux[request.at].mws
        BY <2>2, <4>1, <4>2 DEF Routers, ChainsFixed
      <4> QED BY <2>1, <3>1, <4>1, <4>3, SameTrail
              DEF RanSoFar, MiddlewaresComplete, HandlerRan
    <3> QED BY <2>3, <3>2
  <2>6. CASE Route
    <3>1. request.phase = "route" /\ request.ran = Expected \o mux[request.at].mws /\ Active
      BY <2>6 DEF RanSoFar, Route, Active
    <3>2. CASE ~ Failed'
      <4>1. PICK e : e = Hit(request.at, request.path, request.method)
        OBVIOUS
      <4>2. /\ e \in Candidates(request.at, request.path, request.method)
            /\ request'.ran = request.ran \o e.chain
            /\ request'.trail = Append(request.trail, e)
            /\ e.sub = NoMux => request'.phase = "done"
            /\ e.sub # NoMux => request'.phase = "enter"
        BY <2>6, <3>2, <4>1, RouteOutcome DEF Routers
      <4>3. e \in table[request.at] /\ e \in EndpointRecord
        BY <2>2, <4>2, CandidateIs
      <4>4. Expected' = Expected \o (mux[request.at].mws \o e.chain)
        BY <2>1, <3>1, <4>2, <4>3, ExpectedStep
      <4>5. e.chain \in Seq(Middlewares) /\ mux[request.at].mws \in Seq(Middlewares)
        BY <2>2, <4>3 DEF EndpointRecord, Typed, MuxRecord
      <4>6. Expected \in Seq(Middlewares)
        BY ExpectedTyped
      <4>7. request'.ran = Expected'
        <5>1. (Expected \o mux[request.at].mws) \o e.chain
                = Expected \o (mux[request.at].mws \o e.chain)
          <6>1. \A a, b, c \in Seq(Middlewares) : (a \o b) \o c = a \o (b \o c)
            BY ConcatAssociative
          <6> QED BY <4>5, <4>6, <6>1, Zenon
        <5> QED BY <3>1, <4>2, <4>4, <5>1
      <4>8. Expected' = FlattenSeq([i \in 1..Len(request.trail) |-> MiddlewaresOf(i)])'
        BY DEF Expected
      <4> QED BY <4>2, <4>7, <4>8 DEF RanSoFar, MiddlewaresComplete
    <3> QED BY <2>3, <3>2
  <2> QED BY <1>2, <2>4, <2>5, <2>6 DEF Serve
<1> QED BY <1>1, <1>2 DEF Next

-----------------------------------------------------------------------------
(* The path                                                                *)

(* The part of an endpoint on the trail is a path.                         *)
LEMMA PartTyped ==
  ASSUME Typed, Routers, TrailFound, NEW i \in 1..Len(request.trail)
  PROVE  PartOf(i) \in Seq(Segments)
<1>1. request.trail[i] \in table[FoundIn(i)] /\ FoundIn(i) \in Muxes
  BY DEF TrailFound
<1>2. request.trail[i].pattern \in Seq(Segments) \ {<<>>}
  BY <1>1 DEF Typed, EndpointRecord, Routers, EndpointsMade, MadeIn
<1>3. Front(request.trail[i].pattern) \in Seq(Segments)
  BY <1>2, FrontLast
<1>4. <<>> \in Seq(Segments)
  BY EmptySeq
<1> QED BY <1>2, <1>3, <1>4 DEF PartOf

(* So are the parts of a trail together.                                   *)
LEMMA PartsTyped ==
  ASSUME Typed, Routers, TrailFound
  PROVE  Parts \in Seq(Segments)
<1> DEFINE n == Len(request.trail)
           f == [i \in 1..n |-> PartOf(i)]
<1>1. n \in Nat
  BY DEF Typed, RequestRecord
<1>2. f \in [1..n -> Seq(Segments)]
  BY PartTyped
<1>3. f \in Seq(Seq(Segments))
  <2> HIDE DEF f, n
  <2> QED BY <1>1, <1>2, SeqDef
<1>4. FlattenSeq(f) \in Seq(Segments)
  <2> HIDE DEF f
  <2> QED BY <1>3, FlattenType
<1> QED BY <1>4 DEF Parts

(* One endpoint more on the trail: its part.                               *)
LEMMA PartsStep ==
  ASSUME Typed, Typed', Routers, TrailFound, TrailFound', Active,
         NEW e \in table[request.at], e.pattern \in Seq(Segments) \ {<<>>},
         request'.trail = Append(request.trail, e), UNCHANGED <<mux, table>>,
         NEW part, part = IF Last(e.pattern) = "*" THEN Front(e.pattern)
                          ELSE IF request.trail # <<>> /\ ~ WildTrail THEN <<>>
                          ELSE e.pattern
  PROVE  Parts' = Parts \o part
<1>0. PICK n : n = Len(request.trail)
  OBVIOUS
<1>1. /\ n \in Nat /\ Len(request'.trail) = n + 1
      /\ \A i \in 1..n : request'.trail[i] = request.trail[i]
      /\ request'.trail[n + 1] = e
  BY <1>0, Prolonged DEF Typed
<1>2. \A i \in 1..n : PartOf(i)' = PartOf(i)
  <2>1. \A i \in 1..n : i - 1 \in 1..n \/ ~ (i > 1)
    BY <1>1
  <2> QED BY <1>1, <2>1 DEF PartOf
<1>3. PartOf(n + 1)' = part
  <2>1. request.trail # <<>> <=> n + 1 > 1
    <3>1. request.trail \in Seq(EndpointRecord)
      BY DEF Typed, RequestRecord
    <3>2. request.trail # <<>> <=> n # 0
      BY <1>0, <3>1, EmptySeq
    <3> QED BY <1>1, <3>2
  <2>2. request.trail # <<>> => request'.trail[(n + 1) - 1] = Last(request.trail)
    <3>1. n + 1 > 1 => n \in 1..n /\ (n + 1) - 1 = n
      BY <1>1
    <3> QED BY <1>0, <1>1, <2>1, <3>1 DEF Last
  <2> QED BY <1>1, <2>1, <2>2 DEF PartOf, WildTrail
<1>4. \A i \in 1..n : PartOf(i) \in Seq(Segments)
  BY <1>0, PartTyped
<1>5. part \in Seq(Segments)
  BY FrontLast, EmptySeq
<1>6. PICK f : f = [i \in 1..n |-> PartOf(i)]
  OBVIOUS
<1>7. PICK g : g = [i \in 1..(n + 1) |-> PartOf(i)']
  OBVIOUS
<1>8. f \in [1..n -> Seq(Segments)] /\ g \in [1..(n + 1) -> Seq(Segments)]
      /\ (\A i \in 1..n : f[i] = g[i]) /\ g[n + 1] = part
  <2>1. \A i \in 1..(n + 1) : i \in 1..n \/ i = n + 1
    BY <1>1
  <2>2. \A i \in 1..n : i \in 1..(n + 1)
    BY <1>1
  <2>3. n + 1 \in 1..(n + 1)
    BY <1>1
  <2>4. f \in [1..n -> Seq(Segments)] /\ \A i \in 1..n : f[i] = PartOf(i)
    BY <1>4, <1>6
  <2>5. \A i \in 1..(n + 1) : g[i] = PartOf(i)'
    BY <1>7
  <2>6. \A i \in 1..(n + 1) : PartOf(i)' \in Seq(Segments)
    BY <1>2, <1>3, <1>4, <1>5, <2>1
  <2>7. g \in [1..(n + 1) -> Seq(Segments)]
    BY <1>7, <2>6
  <2>8. \A i \in 1..n : f[i] = g[i]
    BY <1>2, <2>2, <2>4, <2>5
  <2> QED BY <1>3, <2>3, <2>4, <2>5, <2>7, <2>8
<1>9. FlattenSeq(g) = FlattenSeq(f) \o g[n + 1]
  BY ONLY <1>1, <1>8, FlattenProlonged
<1>10. Parts = FlattenSeq(f)
  BY <1>0, <1>6 DEF Parts
<1>11. Parts' = FlattenSeq(g)
  BY <1>1, <1>7 DEF Parts
<1> QED BY <1>8, <1>9, <1>10, <1>11

(* Of two parts of a path of one segment, the first is empty.              *)
LEMMA OneSegment ==
  ASSUME NEW f \in Seq(Segments), NEW r \in Seq(Segments), r # <<>>,
         NEW z \in Seq(Segments), Len(z) = 1, z = f \o r
  PROVE  f = <<>> /\ r = z
<1>1. Len(f) \in Nat /\ Len(r) \in Nat /\ Len(r) # 0
  BY EmptySeq
<1>2. Len(f) + Len(r) = 1
  BY ConcatProperties
<1>3. Len(f) = 0
  BY <1>1, <1>2
<1>4. f = <<>>
  BY <1>3, EmptySeq
<1>5. f \o r = r
  BY <1>4, ConcatEmptySeq
<1> QED BY <1>4, <1>5

(* Three paths make one path in either order.                              *)
LEMMA PathsAssociative ==
  \A a, b, c \in Seq(Segments) : (a \o b) \o c = a \o (b \o c)
BY ConcatAssociative

(* What is left of the path before the next endpoint: the parts so far and *)
(* this path are the whole, or the parts are, and a slash is left.         *)
Left(asked, parts, path, first) ==
  \/ parts \o path = asked /\ first
  \/ parts = asked /\ path = <<"">>

(* And after it.                                                           *)
Divided(asked, more, next, p) ==
  /\ next # <<>>
  /\ Last(p) = "*" => /\ more \o next = asked \/ (more = asked /\ next = <<"">>)
                      /\ IsPrefix(more, asked)
  /\ Last(p) # "*" => /\ next = <<"">>
                      /\ more \in {asked, asked \o <<"">>}
                      /\ p # <<"">> => more = asked

(* The part of the path an endpoint stands for.                            *)
Part(p, first) == IF Last(p) = "*" THEN Front(p) ELSE IF first THEN p ELSE <<>>

(* The parts so far and the part of this pattern, with what it leaves, make *)
(* the path that was asked for.                                            *)
LEMMA PathDivided ==
  ASSUME NEW asked \in Seq(Segments), NEW parts \in Seq(Segments),
         NEW p \in Seq(Segments) \ {<<>>}, NEW path \in Seq(Segments) \ {<<>>},
         MatchesPath(p, path), NEW first \in BOOLEAN, Left(asked, parts, path, first)
  PROVE  Divided(asked, parts \o Part(p, first), NextPath(p, path), p)
<1> DEFINE part == Part(p, first)
           next == NextPath(p, path)
           more == parts \o part
<1> SUFFICES Divided(asked, more, next, p)
  OBVIOUS
<1>0. /\ part = IF Last(p) = "*" THEN Front(p) ELSE IF first THEN p ELSE <<>>
      /\ next = NextPath(p, path) /\ more = parts \o part
      /\ (parts \o path = asked /\ first) \/ (parts = asked /\ path = <<"">>)
  BY DEF Part, Left
<1> HIDE DEF part, next, more
<1>1. /\ next \in Seq(Segments) \ {<<>>}
      /\ Last(p) = "*" => Front(p) \in Seq(Segments) /\ Front(p) \o next = path
      /\ Last(p) # "*" => p = path /\ next = <<"">>
  BY <1>0, MatchSplits
<1>2. CASE Last(p) = "*"
  <2>1. part = Front(p) /\ part \in Seq(Segments) /\ part \o next = path /\ more \in Seq(Segments)
    BY <1>0, <1>1, <1>2, ConcatProperties
  <2>2. CASE parts \o path = asked
    <3>1. more \o next = parts \o (part \o next)
      <4>1. next \in Seq(Segments)
        BY <1>1
      <4>2. (parts \o part) \o next = parts \o (part \o next)
        <5>1. part \in Seq(Segments) /\ parts \in Seq(Segments)
          BY <2>1
        <5> QED BY ONLY <4>1, <5>1, PathsAssociative, Zenon
      <4> QED BY <1>0, <4>2
    <3>2. more \o next = asked
      BY <2>1, <2>2, <3>1
    <3>3. IsPrefix(more, more \o next)
      BY <1>1, <2>1, ConcatPrefix
    <3> QED BY <1>1, <1>2, <3>2, <3>3 DEF Divided
  <2>3. CASE parts = asked /\ path = <<"">>
    <3>1. part = <<>> /\ next = <<"">>
      <4>1. next \in Seq(Segments) /\ next # <<>> /\ path \in Seq(Segments) /\ Len(path) = 1
        BY <1>1, <2>3, Slash
      <4> QED BY <2>1, <2>3, <4>1, OneSegment
    <3>2. more = asked
      BY <1>0, <2>3, <3>1, ConcatEmptySeq
    <3>3. IsPrefix(asked, asked)
      BY PrefixOfItself
    <3> QED BY <1>1, <1>2, <3>1, <3>2, <3>3 DEF Divided
  <2> QED BY <1>0, <2>2, <2>3
<1>3. CASE Last(p) # "*"
  <2>1. p = path /\ next = <<"">>
    BY <1>1, <1>3
  <2>2. CASE first /\ parts \o path = asked
    BY <1>0, <1>1, <1>3, <2>1, <2>2 DEF Divided
  <2>3. CASE parts = asked /\ path = <<"">>
    <3>1. part = <<"">> \/ part = <<>>
      BY <1>0, <1>3, <2>1, <2>3
    <3>2. asked \o <<>> = asked
      BY ConcatEmptySeq
    <3> QED BY <1>0, <1>1, <1>3, <2>1, <2>3, <3>1, <3>2 DEF Divided
  <2> QED BY <1>0, <2>2, <2>3
<1> QED BY <1>2, <1>3

(* Every step keeps that the parts and the rest make the path asked for.   *)
LEMMA PathStep ==
  ASSUME Typed, Typed', Routers, TrailFound, TrailFound', PathSoFar, Next
  PROVE  PathSoFar'
<1>1. CASE BuildRoutes
  <2>1. request'.phase = "none"
    BY <1>1, BuildsBefore
  <2> QED BY <2>1 DEF PathSoFar, Active, RouteTrail, HandlerRan
<1>2. CASE Serve
  <2>1. UNCHANGED <<mux, table>> /\ request \in RequestRecord /\ request' \in RequestRecord
    BY <1>2, ServeTyped DEF Routers, Typed
  <2>2. /\ request.at \in Muxes /\ request.path \in Seq(Segments)
        /\ request.asked \in Seq(Segments) /\ request.trail \in Seq(EndpointRecord)
    BY <2>1 DEF RequestRecord
  <2>3. Failed' => PathSoFar'
    BY DEF Failed, PathSoFar, Active, RouteTrail, HandlerRan
  <2>4. ASSUME NEW path \in Paths, NEW method \in Methods \cup {"unknown"}, Receive(path, method)
        PROVE  PathSoFar'
    <3>1. /\ request'.phase = "enter" /\ request'.asked = path /\ request'.path = path
          /\ request'.trail = <<>> /\ path \in Seq(Segments) \ {<<>>}
      BY <2>4, ReceiveOutcome
    <3>2. Parts' = <<>>
      BY <3>1, NoTrail
    <3>3. <<>> \o path = path
      BY <3>1, ConcatEmptySeq
    <3> QED BY <3>1, <3>2, <3>3 DEF PathSoFar, Active, RouteTrail, HandlerRan
  <2>5. CASE Enter
    <3>1. Active /\ request.phase = "enter"
      BY <2>5 DEF Enter, Active
    <3>2. CASE ~ Failed'
      <4>1. /\ request'.phase = "route" /\ request'.asked = request.asked
            /\ request'.path = request.path /\ request'.trail = request.trail
        BY <2>5, <3>2, EnterOutcome
      <4>2. Parts' = Parts
        BY <2>1, <4>1, SameTrail
      <4> QED BY <3>1, <4>1, <4>2 DEF PathSoFar, Active, RouteTrail, HandlerRan, WildTrail
    <3> QED BY <2>3, <3>2
  <2>6. CASE Route
    <3>1. Active
      BY <2>6 DEF Route, Active
    <3>2. CASE ~ Failed'
      <4>1. PICK e : e = Hit(request.at, request.path, request.method)
        OBVIOUS
      <4>2. /\ e \in Candidates(request.at, request.path, request.method)
            /\ request'.asked = request.asked
            /\ request'.trail = Append(request.trail, e)
            /\ e.sub = NoMux => request'.phase = "done"
            /\ e.sub # NoMux => request'.phase = "enter"
                                /\ request'.path = NextPath(e.pattern, request.path)
        BY <2>6, <3>2, <4>1, RouteOutcome DEF Routers
      <4>3. /\ e \in table[request.at] /\ e \in EndpointRecord
            /\ MatchesPath(e.pattern, request.path)
            /\ e.pattern \in Seq(Segments) \ {<<>>}
        BY <2>2, <4>2, CandidateIs
      <4>4. request'.trail # <<>> /\ Last(request'.trail) = e
        BY <2>2, <4>2, <4>3, AppendProperties DEF Last
      <4>5. PICK first \in BOOLEAN : first <=> (request.trail = <<>> \/ WildTrail)
        OBVIOUS
      <4>6. PICK part : part = Part(e.pattern, first)
        OBVIOUS
      <4>7. Parts' = Parts \o part
        <5>1. part = IF Last(e.pattern) = "*" THEN Front(e.pattern)
                     ELSE IF request.trail # <<>> /\ ~ WildTrail THEN <<>>
                     ELSE e.pattern
          BY <4>5, <4>6 DEF Part
        <5> QED BY <2>1, <3>1, <4>2, <4>3, <5>1, PartsStep
      <4>8. PICK parts, path, next, asked, p, more :
              /\ parts = Parts /\ path = request.path /\ next = NextPath(e.pattern, request.path)
              /\ asked = request.asked /\ p = e.pattern /\ more = Parts'
        OBVIOUS
      <4>9. /\ parts \in Seq(Segments) /\ path \in Seq(Segments) \ {<<>>}
            /\ Left(asked, parts, path, first)
        BY <2>2, <3>1, <4>5, <4>8, PartsTyped DEF PathSoFar, Left
      <4>10. Divided(asked, more, next, p)
        <5>1. asked \in Seq(Segments) /\ p \in Seq(Segments) \ {<<>>} /\ MatchesPath(p, path)
          BY <2>2, <4>3, <4>8
        <5>2. Divided(asked, parts \o Part(p, first), NextPath(p, path), p)
          BY <4>5, <4>9, <5>1, PathDivided
        <5> QED BY <4>6, <4>7, <4>8, <5>2
      <4>11. WildTrail' <=> Last(p) = "*"
        BY <4>4, <4>8 DEF WildTrail
      <4>12. CASE e.sub = NoMux
        <5>1. ~ Active'
          BY <4>2, <4>12 DEF Active
        <5>2. IF Last(Last(request'.trail).pattern) = "*" THEN IsPrefix(Parts', request'.asked)
              ELSE Parts' \in {request'.asked, request'.asked \o <<"">>}
          BY <4>2, <4>4, <4>8, <4>10 DEF Divided
        <5> QED BY <5>1, <5>2 DEF PathSoFar, RouteTrail, Parts
      <4>13. CASE e.sub # NoMux
        <5>1. request'.phase = "enter" /\ request'.path = next
          BY <4>2, <4>8, <4>13
        <5>2. Last(p) # "*" => p # <<"">>
          <6>1. PICK r \in MountPatterns : e.pattern \in MountedAt(r)
            BY <2>2, <4>3, <4>13 DEF Routers, MountsOnce
          <6> QED BY <4>8, <6>1, MountedPatterns
        <5> QED BY <4>2, <4>4, <4>8, <4>10, <4>11, <5>1, <5>2
                DEF PathSoFar, Active, RouteTrail, HandlerRan, Divided
      <4> QED BY <4>12, <4>13
    <3> QED BY <2>3, <3>2
  <2> QED BY <1>2, <2>4, <2>5, <2>6 DEF Serve
<1> QED BY <1>1, <1>2 DEF Next

-----------------------------------------------------------------------------
(* The routes of a sub-router                                              *)

(* Wildcards of one length that match the same path are the same.          *)
LEMMA WildSame ==
  ASSUME NEW p \in Seq(Segments), p # <<>>, NEW q \in Seq(Segments), q # <<>>,
         NEW path \in Seq(Segments) \ {<<>>}, Last(p) = "*", Last(q) = "*",
         Len(p) = Len(q), MatchesPath(p, path), MatchesPath(q, path)
  PROVE  p = q
<1>1. /\ Front(p) \in Seq(Segments) /\ Len(Front(p)) = Len(p) - 1 /\ p = Front(p) \o <<Last(p)>>
      /\ Front(q) \in Seq(Segments) /\ Len(Front(q)) = Len(q) - 1 /\ q = Front(q) \o <<Last(q)>>
  BY FrontLast
<1>2. Front(p) \o NextPath(p, path) = path /\ NextPath(p, path) \in Seq(Segments)
  BY MatchSplits
<1>3. Front(q) \o NextPath(q, path) = path /\ NextPath(q, path) \in Seq(Segments)
  BY MatchSplits
<1>4. PICK f, g, x, y : /\ f = Front(p) /\ g = Front(q)
                        /\ x = NextPath(p, path) /\ y = NextPath(q, path)
  OBVIOUS
<1>5. /\ f \in Seq(Segments) /\ g \in Seq(Segments) /\ Len(f) = Len(g)
      /\ x \in Seq(Segments) /\ y \in Seq(Segments) /\ path = f \o x /\ path = g \o y
  BY <1>1, <1>2, <1>3, <1>4
<1>6. IsPrefix(f, path)
  BY <1>5, ConcatPrefix
<1>7. IsPrefix(g, path)
  BY <1>5, ConcatPrefix
<1>8. f = g
  BY <1>5, <1>6, <1>7, SubSeqFull DEF IsPrefix
<1> QED BY <1>1, <1>4, <1>8

(* The route is found in the sub-router for its own pattern.               *)
LEMMA RouteFound ==
  ASSUME Typed, Routers, NEW m \in Muxes, NEW e \in table[m]
  PROVE  /\ e \in Candidates(m, e.pattern, e.method)
         /\ Hit(m, e.pattern, e.method) = e
<1>1. PICK g, path : g = Hit(m, path, e.method) /\ path = e.pattern
  OBVIOUS
<1>2. e \in Candidates(m, path, e.method)
  BY <1>1 DEF Candidates, Matching, MatchesPath
<1>3. e.pattern \in Seq(Segments) \ {<<>>}
  BY <1>2, CandidateIs
<1>4. /\ g \in Candidates(m, path, e.method)
      /\ ~ Before(e.pattern, g.pattern)
  BY <1>1, <1>2, <1>3, HitFound
<1>5. /\ g \in table[m] /\ g.method = e.method /\ MatchesPath(g.pattern, path)
      /\ g.pattern \in Seq(Segments) \ {<<>>}
  BY <1>4, CandidateIs
<1>6. g.pattern = e.pattern
  <2>1. CASE Last(g.pattern) # "*"
    BY <1>1, <1>5, <2>1 DEF MatchesPath
  <2>2. CASE Last(g.pattern) = "*"
    <3>1. Last(e.pattern) = "*" /\ ~ (Len(e.pattern) > Len(g.pattern))
      BY <1>4, <2>2 DEF Before
    <3>2. Len(g.pattern) \in Nat /\ Len(path) \in Nat /\ Len(g.pattern) <= Len(path)
      BY <1>1, <1>3, <1>5, MatchIsShort
    <3>3. Len(g.pattern) = Len(e.pattern)
      BY <1>1, <3>1, <3>2
    <3>4. MatchesPath(e.pattern, path) /\ path \in Seq(Segments) \ {<<>>}
      BY <1>1, <1>3 DEF MatchesPath
    <3> QED BY <1>3, <1>5, <2>2, <3>1, <3>3, <3>4, WildSame
  <2> QED BY <2>1, <2>2
<1>7. g = e
  BY <1>5, <1>6 DEF Routers, EndpointsUnique
<1> QED BY <1>1, <1>2, <1>7

(* The mount is found in the root, or an endpoint of the same mount, which *)
(* leaves the same path.                                                   *)
LEMMA MountFound ==
  ASSUME Typed, Routers, NEW w \in Mounts, NEW e \in table[w.sub], Promised(w, e),
         NEW g, g = Hit(Root, request.asked, request.method)
  PROVE  /\ w \in Candidates(Root, request.asked, request.method)
         /\ g.sub = w.sub
         /\ NextPath(g.pattern, request.asked) = e.pattern
<1>0. PICK path, method, C : /\ path = request.asked /\ method = request.method
                             /\ C = Candidates(Root, request.asked, request.method)
  OBVIOUS
<1>1. /\ w \in table[Root] /\ w.sub # NoMux /\ Root \in Muxes
      /\ w \in EndpointRecord /\ w.sub \in Muxes
  <2>1. w \in table[Root] /\ w.sub # NoMux
    BY DEF Mounts
  <2>2. Root \in Muxes
    BY MuxAssumption
  <2>3. w \in EndpointRecord
    BY <2>1, <2>2 DEF Typed
  <2> QED BY <2>1, <2>2, <2>3 DEF EndpointRecord
<1>2. /\ w.pattern \in Seq(Segments) /\ w.pattern # <<>>
      /\ e.pattern \in Seq(Segments) /\ e.pattern # <<>>
  BY <1>1 DEF Typed, Routers, EndpointsMade, MadeIn, EndpointRecord
<1>3. /\ Last(w.pattern) = "*" /\ w.method = method
      /\ path = Front(w.pattern) \o e.pattern
      /\ \A f \in C : Before(f.pattern, w.pattern) => f.sub = w.sub
  BY <1>0 DEF Promised
<1>4. PICK f, r : f = Front(w.pattern) /\ r = e.pattern
  OBVIOUS
<1>5. /\ f \in Seq(Segments) /\ r \in Seq(Segments) /\ r # <<>> /\ path = f \o r
      /\ Len(f) = Len(w.pattern) - 1 /\ Len(w.pattern) \in Nat \ {0}
  BY <1>2, <1>3, <1>4, FrontLast, EmptySeq
<1>6. /\ path \in Seq(Segments) /\ Len(path) = Len(f) + Len(r) /\ Len(r) \in Nat \ {0}
      /\ IsPrefix(f, path) /\ SubSeq(path, Len(f) + 1, Len(path)) = r
  BY <1>5, ConcatProperties, ConcatPrefix, EmptySeq
<1>7. Len(w.pattern) <= Len(path) /\ path # <<>>
  <2>1. Len(w.pattern) <= Len(path) /\ Len(path) # 0
    BY <1>5, <1>6
  <2> QED BY <2>1, EmptySeq
<1>8. MatchesPath(w.pattern, path)
  BY <1>3, <1>4, <1>6, <1>7 DEF MatchesPath
<1>9. w \in C
  BY <1>0, <1>1, <1>3, <1>8 DEF Candidates, Matching
<1>10. g \in C /\ ~ Before(w.pattern, g.pattern)
  BY <1>0, <1>1, <1>6, <1>9, HitFound
<1>11. /\ g \in table[Root] /\ g.method = method /\ MatchesPath(g.pattern, path)
       /\ g.pattern \in Seq(Segments) \ {<<>>}
  BY <1>0, <1>1, <1>10, CandidateIs
<1>12. CASE g = w
  <2>1. NextPath(w.pattern, path) = SubSeq(path, Len(w.pattern), Len(path))
    BY <1>3 DEF NextPath
  <2>2. Len(f) + 1 = Len(w.pattern)
    BY <1>5
  <2> QED BY <1>0, <1>4, <1>6, <1>9, <1>12, <2>1, <2>2
<1>13. CASE Before(g.pattern, w.pattern)
  <2>1. g.sub = w.sub
    BY <1>3, <1>10, <1>13
  <2>2. PICK p \in MountPatterns : g.pattern \in MountedAt(p) /\ w.pattern \in MountedAt(p)
    BY <1>1, <1>11, <2>1 DEF Routers, MountsOnce
  <2>3. w.pattern = WildcardOf(p)
    BY <1>3, <2>2, MountedPatterns
  <2>4. Last(g.pattern) # "*"
    <3>1. ASSUME Last(g.pattern) = "*" PROVE FALSE
      <4>1. g.pattern = w.pattern
        BY <2>2, <2>3, <3>1, MountedPatterns
      <4> QED BY <1>3, <1>5, <1>13, <4>1 DEF Before
    <3> QED BY <3>1
  <2>5. f = p /\ g.pattern \in {p, p \o <<"">>}
    BY <1>4, <2>2, <2>3, <2>4, MountedPatterns
  <2>6. g.pattern = path /\ NextPath(g.pattern, path) = <<"">>
    BY <1>11, <2>4 DEF MatchesPath, NextPath
  <2>7. f \o r # f
    BY <1>5, ConcatEqualIffEmpty
  <2>8. PICK z : z = <<"">>
    OBVIOUS
  <2>9. z \in Seq(Segments) /\ f \o z = f \o r
    BY <1>5, <2>5, <2>6, <2>7, <2>8, Slash
  <2>10. z = r
    BY <1>5, <2>9, ConcatSimplifications
  <2> QED BY <1>0, <1>4, <1>9, <2>1, <2>6, <2>8, <2>10
<1>14. CASE ~ Before(g.pattern, w.pattern)
  <2>1. Last(g.pattern) = "*"
    BY <1>3, <1>14 DEF Before
  <2>2. ~ (Len(g.pattern) > Len(w.pattern)) /\ ~ (Len(w.pattern) > Len(g.pattern))
    BY <1>3, <1>10, <1>14, <2>1 DEF Before
  <2>3. Len(g.pattern) \in Nat
    BY <1>11
  <2>4. Len(g.pattern) = Len(w.pattern)
    BY <1>5, <2>2, <2>3
  <2>5. g.pattern = w.pattern
    BY <1>2, <1>3, <1>6, <1>7, <1>8, <1>11, <2>1, <2>4, WildSame
  <2>6. g = w
    BY <1>1, <1>3, <1>11, <2>5 DEF Routers, EndpointsUnique
  <2> QED BY <1>12, <2>6
<1> QED BY <1>13, <1>14

(* Every step keeps what is promised of the routes of a mount.             *)
LEMMA PromisesStep ==
  ASSUME Typed, Typed', Routers, TrailFound, PathSoFar, PromisesKept, Next
  PROVE  PromisesKept'
<1>1. CASE BuildRoutes
  <2>1. request'.phase = "none"
    BY <1>1, BuildsBefore
  <2> QED BY <2>1 DEF PromisesKept
<1>2. CASE Serve
  <2>1. UNCHANGED <<mux, table>> /\ request \in RequestRecord /\ request' \in RequestRecord
    BY <1>2, ServeTyped DEF Routers, Typed
  <2>2. ASSUME NEW path \in Paths, NEW method \in Methods \cup {"unknown"}, Receive(path, method)
        PROVE  PromisesKept'
    <3>1. request'.phase = "enter" /\ request'.trail = <<>>
      BY <2>2, ReceiveOutcome
    <3> QED BY <3>1 DEF PromisesKept, OnItsWay, Active
  <2>3. CASE Enter \/ Route
    <3>1. /\ request'.asked = request.asked /\ request'.method = request.method
          /\ request.phase # "none" /\ Active
      <4>1. CASE Enter
        BY <4>1, EnterOutcome DEF Active
      <4>2. CASE Route
        BY <4>2, RouteOutcome DEF Routers, Active
      <4> QED BY <2>3, <4>1, <4>2
    <3>2. Mounts' = Mounts /\ table' = table
      BY <2>1 DEF Mounts
    <3> SUFFICES ASSUME NEW w \in Mounts, NEW e \in table[w.sub], Promised(w, e)'
                 PROVE  OnItsWay(w, e)'
      BY <3>2 DEF PromisesKept
    <3>3. Promised(w, e)
      BY <2>1, <3>1 DEF Promised, Candidates, Matching
    <3>4. /\ w \in table[Root] /\ w.sub # NoMux /\ Root \in Muxes
          /\ w \in EndpointRecord /\ w.sub \in Muxes
      <4>1. w \in table[Root] /\ w.sub # NoMux
        BY DEF Mounts
      <4>2. Root \in Muxes
        BY MuxAssumption
      <4>3. w \in EndpointRecord
        BY <4>1, <4>2 DEF Typed
      <4> QED BY <4>1, <4>2, <4>3 DEF EndpointRecord
    <3>5. e.sub = NoMux /\ e.method = request.method /\ w.method = request.method
          /\ request.method # "unknown"
      <4>1. e.sub = NoMux /\ e.method = request.method /\ w.method = request.method
        BY <3>3 DEF Promised
      <4>2. w.method \in Methods
        BY <3>4 DEF EndpointRecord
      <4> QED BY <4>1, <4>2, MuxAssumption
    <3>6. OnItsWay(w, e) /\ ~ HandlerRan
      BY <3>1, <3>3 DEF PromisesKept, Active, HandlerRan
    <3>7. CASE request.trail = <<>>
      <4>1. request.at = Root /\ request.path = request.asked
        <5>1. Len(<<>>) = 0 /\ 0 + 1 = 1
          BY EmptySeq
        <5> QED BY <3>1, <3>7, <5>1 DEF TrailFound, FoundIn, PathSoFar
      <4>2. CASE Enter
        <5>1. mux[request.at].built
          BY <3>4, <4>1 DEF Routers, EndpointsMade, MadeIn
        <5>2. request'.phase = "route" /\ request'.trail = request.trail
          BY <4>2, <5>1, EnterOutcome
        <5> QED BY <3>7, <5>2 DEF OnItsWay, Active
      <4>3. CASE Route
        <5>1. PICK g : g = Hit(request.at, request.path, request.method)
          OBVIOUS
        <5>2. /\ w \in Candidates(request.at, request.path, request.method)
              /\ g.sub = w.sub
              /\ NextPath(g.pattern, request.path) = e.pattern
          BY <3>3, <4>1, <5>1, MountFound
        <5>3. /\ request'.phase = "enter" /\ request'.at = g.sub
              /\ request'.path = NextPath(g.pattern, request.path)
          BY <3>4, <3>5, <4>3, <5>1, <5>2, RouteOutcome DEF Routers
        <5> QED BY <5>2, <5>3 DEF OnItsWay, Active
      <4> QED BY <2>3, <4>2, <4>3
    <3>8. CASE request.trail # <<>>
      <4>1. request.at = w.sub /\ request.path = e.pattern
        BY <3>6, <3>8 DEF OnItsWay
      <4>2. CASE Enter
        <5>1. mux[request.at].built
          BY <3>4, <4>1 DEF Routers, EndpointsMade, MadeIn
        <5>2. request'.phase = "route" /\ request'.at = request.at /\ request'.path = request.path
          BY <4>2, <5>1, EnterOutcome
        <5> QED BY <4>1, <5>2 DEF OnItsWay, Active
      <4>3. CASE Route
        <5>1. /\ e \in Candidates(request.at, request.path, request.method)
              /\ e = Hit(request.at, request.path, request.method)
          BY <3>4, <3>5, <4>1, RouteFound
        <5>2. /\ request'.trail = Append(request.trail, e)
              /\ request'.phase = "done" /\ Last(request'.answers).status = 200
          BY <3>5, <4>3, <5>1, RouteOutcome DEF Routers
        <5>3. e \in EndpointRecord /\ request.trail \in Seq(EndpointRecord)
          BY <2>1, <3>4 DEF Typed, RequestRecord
        <5>4. Last(request'.trail) = e
          BY <5>2, <5>3, AppendProperties DEF Last
        <5> QED BY <5>2, <5>4 DEF OnItsWay, HandlerRan
      <4> QED BY <2>3, <4>2, <4>3
    <3> QED BY <3>7, <3>8
  <2> QED BY <1>2, <2>2, <2>3 DEF Serve
<1> QED BY <1>1, <1>2 DEF Next

-----------------------------------------------------------------------------
(* The theorems                                                            *)

(* Initially.                                                              *)
LEMMA InitEstablishes == Init => IInv
<1> SUFFICES ASSUME Init PROVE OneRequest
  BY InitTyped, InitRouters DEF IInv
<1>1. request.phase = "none" /\ request.trail = <<>>
  BY DEF Init, NoRequest
<1>2. Len(<<>>) = 0
  BY EmptySeq
<1> QED BY <1>1, <1>2 DEF OneRequest, TrailFound, RanSoFar, PathSoFar, PromisesKept, Active,
                          MiddlewaresComplete, RouteTrail, HandlerRan

(* Every step keeps it.                                                    *)
LEMMA StepPreserves == IInv /\ [Next]_vars => IInv'
<1> SUFFICES ASSUME IInv, [Next]_vars PROVE IInv'
  OBVIOUS
<1>1. Typed /\ Routers /\ TrailFound /\ RanSoFar /\ PathSoFar /\ PromisesKept
  BY DEF IInv, OneRequest
<1>2. CASE Next
  <2>1. Typed'
    BY <1>1, <1>2, BuildTyped, ServeTyped DEF Next, Routers
  <2>2. Routers'
    <3>1. CASE BuildRoutes
      BY <1>1, <3>1, BuildRouters
    <3>2. CASE Serve
      <4>1. UNCHANGED <<mux, table>>
        BY <1>1, <3>2, ServeTyped DEF Routers
      <4> QED BY <1>1, <4>1 DEF Routers, TreesOwned, OwnsTree, Born, ChainsFixed, EndpointsMade,
                                MadeIn, InlineOf, EndpointsUnique, MountsOnce
    <3> QED BY <1>2, <3>1, <3>2 DEF Next
  <2>3. TrailFound'
    BY <1>1, <1>2, TrailStep
  <2>4. RanSoFar'
    BY <1>1, <1>2, <2>1, <2>3, RanStep
  <2>5. PathSoFar'
    BY <1>1, <1>2, <2>1, <2>3, PathStep
  <2>6. PromisesKept'
    BY <1>1, <1>2, <2>1, PromisesStep
  <2> QED BY <2>1, <2>2, <2>3, <2>4, <2>5, <2>6 DEF IInv, OneRequest
<1>3. CASE UNCHANGED vars
  <2>1. UNCHANGED <<mux, table, calls, request>>
    BY <1>3 DEF vars
  <2>2. Typed' /\ Routers'
    BY <1>1, <2>1 DEF Typed, Routers, TreesOwned, OwnsTree, Born, ChainsFixed, EndpointsMade,
                      MadeIn, InlineOf, EndpointsUnique, MountsOnce
  <2>3. \A i : FoundIn(i)' = FoundIn(i)
    BY <2>1 DEF FoundIn
  <2>4. TrailFound'
    BY <1>1, <2>1, <2>3 DEF TrailFound, Active
  <2>5. Expected' = Expected /\ Parts' = Parts
    BY <2>1, SameTrail
  <2>6. RanSoFar' /\ PathSoFar'
    BY <1>1, <2>1, <2>5 DEF RanSoFar, MiddlewaresComplete, PathSoFar, WildTrail, RouteTrail,
                            HandlerRan, Active, Expected, Parts
  <2>7. PromisesKept'
    <3>1. Mounts' = Mounts
      BY <2>1 DEF Mounts
    <3>2. \A w, e : (Promised(w, e)' <=> Promised(w, e)) /\ (OnItsWay(w, e)' <=> OnItsWay(w, e))
      BY <2>1 DEF Promised, OnItsWay, Candidates, Matching, HandlerRan, Active
    <3> QED BY <1>1, <2>1, <3>1, <3>2 DEF PromisesKept
  <2> QED BY <2>2, <2>4, <2>6, <2>7 DEF IInv, OneRequest
<1> QED BY <1>2, <1>3

(* The routers and the request are as the parts of IInv say in every state *)
(* that the calls of a program and one request reach.                      *)
THEOREM Invariance == Spec => []IInv
<1>1. Init => IInv
  BY InitEstablishes
<1>2. IInv /\ [Next]_vars => IInv'
  BY StepPreserves
<1> QED BY <1>1, <1>2, PTL DEF Spec

(* Types, and which tree is whose.                                         *)
THEOREM TypeCorrect == Spec => []TypeOK
<1>1. IInv => TypeOK
  <2> SUFFICES ASSUME IInv PROVE TypeOK
    OBVIOUS
  <2>1. Typed /\ TreesOwned /\ EndpointsMade
    BY DEF IInv, Routers
  <2>2. \A m \in Muxes : /\ mux[m].kind = "mux" => mux[m].owner = m
                         /\ mux[m].kind = "inline" => mux[m].owner = mux[mux[m].parent].owner
    BY <2>1 DEF TreesOwned, OwnsTree
  <2>3. \A m \in Muxes : \A e \in table[m] : e \in EndpointRecord /\ mux[e.by].owner = m
    BY <2>1 DEF Typed, EndpointsMade, MadeIn
  <2> QED BY <2>1, <2>2, <2>3 DEF Typed, TypeOK
<1> QED BY <1>1, Invariance, PTL

(* A handler runs after all the middlewares of the muxes on the way to it, *)
(* and of the inline muxes it was registered with, each once, in order.    *)
THEOREM NoMiddlewareMissed == Spec => []MiddlewaresComplete
<1>1. IInv => MiddlewaresComplete
  BY DEF IInv, OneRequest, RanSoFar
<1> QED BY <1>1, Invariance, PTL

(* The muxes on the way divide the path that was asked for.                *)
THEOREM PathShared == Spec => []RouteTrail
<1>1. IInv => RouteTrail
  BY DEF IInv, OneRequest, PathSoFar
<1> QED BY <1>1, Invariance, PTL

(* A route of a mounted router is reached through the mount.               *)
THEOREM MountsReach == Spec => []MountedRoutesReached
<1>1. IInv => MountedRoutesReached
  BY DEF IInv, OneRequest, PromisesKept, OnItsWay, Active, MountedRoutesReached
<1> QED BY <1>1, Invariance, PTL
=============================================================================
