--------------------------- MODULE RoutingProofs ----------------------------
(***************************************************************************)
(* What Routing promises, for any programs, paths and trees: its stacks    *)
(* stay aligned, the innermost value wins, the path is spelled, the id is  *)
(* exact.                                                                  *)
(***************************************************************************)
EXTENDS Routing, PatternLemmas

-----------------------------------------------------------------------------
(* The inductive invariant                                                 *)

Token == Tokens(Characters)
Text == Seq(Characters)
Key == KeysOf(Characters)

Parameters == [keys : Seq(Key), values : Seq(Text)]

Context ==
  [routePath : Text, routeParams : Parameters, urlParams : Parameters,
   routePatterns : Seq(Seq(Token)), methodNotAllowed : BOOLEAN]

Entry == [mux : Muxes, pattern : Seq(Token), vals : Seq(Text)]

Typed ==
  /\ program \in Programs /\ \A m \in Muxes : Accepted(program[m])
  /\ tree = [m \in Muxes |-> TreeOf(program[m])]
  /\ phase # "idle" => request \in [path : Paths, method : Methods]
  /\ rctx \in Context
  /\ at \in Muxes
  /\ phase \in {"idle", "trimming", "logging", "routing", "mounted", "extracting",
                "handling", "done", "thrown"}
  /\ id \in -1..LongLongMax
  /\ status \in {0, 200, 400, 404}
  /\ trail \in Seq(Entry)
  /\ trail # <<>> => end \in Registration

(* What each phase says of the lookup before it.                           *)
Phases ==
  /\ phase \in {"idle", "trimming"} => rctx = NewContext
  /\ phase \in {"idle", "trimming", "logging", "thrown"} => trail = <<>> /\ at = TopMux
  /\ phase = "routing" => trail = <<>> \/ end.sub # NoMux
  /\ phase = "mounted" => trail # <<>> /\ end.sub # NoMux
  /\ phase = "extracting" => trail # <<>> /\ end.sub = NoMux /\ end.extract
  /\ phase = "handling" => trail # <<>> /\ end.sub = NoMux
  /\ phase = "done" /\ status = 404 => trail = <<>> \/ end.sub # NoMux
  /\ phase = "done" /\ status # 404 => trail # <<>> /\ end.sub = NoMux
  /\ status # 0 <=> phase = "done"
  /\ at # TopMux => BeginsWithSlash(rctx.routePath)

(* A pattern that a mount made: if it is a wildcard, the wildcard stands   *)
(* behind a slash, and there is no other key "*".                          *)
Connects(p) ==
  IF IsWildcard(p)
  THEN Front(p) # <<>> /\ Last(Front(p)) = "/" /\ ~ Contains(ParamKeys(Front(p)), "*")
  ELSE ~ Contains(ParamKeys(p), "*")

ValuesFit(p, vals) == Len(vals) = WildCount(p, Len(p))

(* What was found was registered, with a value for each parameter.         *)
Entries ==
  \A i \in 1..Len(trail) :
    /\ Acceptable(trail[i].pattern)
    /\ ValuesFit(trail[i].pattern, trail[i].vals)
    /\ PassedOn(i) => Connects(trail[i].pattern)

(* The path of the request has been shifted behind the pattern.            *)
Passed(i) == i < Len(trail) \/ (end.sub # NoMux /\ phase # "mounted")

Emptied(vals) == [vals EXCEPT ![Len(vals)] = <<>>]

(* The values on the stack.                                                *)
Held(i) ==
  IF Passed(i) /\ IsWildcard(trail[i].pattern)
  THEN Emptied(trail[i].vals) ELSE trail[i].vals

HeldValues == [i \in 1..Len(trail) |-> Held(i)]

Patterns == [i \in 1..Len(trail) |-> trail[i].pattern]

(* The stacks hold what was found, and nothing else.                       *)
Stacked ==
  /\ rctx.urlParams.keys = FlattenSeq(Shapes)
  /\ rctx.urlParams.values = FlattenSeq(HeldValues)
  /\ rctx.routePatterns = Patterns
  /\ Len(rctx.routeParams.keys) = Len(rctx.routeParams.values)
  /\ phase = "mounted" =>
       rctx.routeParams = [keys |-> ParamKeys(Last(trail).pattern), values |-> Last(trail).vals]

(* A wildcard that connects two routers has no value any more.             *)
StarsEmpty(n) ==
  \A k \in 1..n : rctx.urlParams.keys[k] = "*" => rctx.urlParams.values[k] = <<>>

WildcardsEmptied ==
  /\ phase = "routing" => StarsEmpty(Len(rctx.urlParams.keys))
  /\ phase = "mounted" => StarsEmpty(Len(rctx.urlParams.keys) - Len(rctx.routeParams.keys))

(* The parts of the path that were found, put together with one slash      *)
(* between two of them.                                                    *)
Parts == [i \in 1..Len(trail) |-> Fill(trail[i].pattern, Held(i))]

(* What is added behind the last part.                                     *)
Behind(parts, q) == IF parts # <<>> /\ Last(Last(parts)) = "/" THEN Tail(q) ELSE q

Pieces(parts) ==
  [i \in 1..Len(parts) |->
     IF i > 1 /\ Last(parts[i - 1]) = "/" THEN Tail(parts[i]) ELSE parts[i]]

Spelled(parts) == FlattenSeq(Pieces(parts))

(* The path that the root looked up, and its spellings: a mount adds a     *)
(* slash at the end of a path that has none.                               *)
Asked == RootPath(request.path)

Spellings == {Asked} \cup (IF Last(Asked) = "/" THEN {} ELSE {Asked \o <<"/">>})

(* What was found and what is left make the path of the request.           *)
PathSoFar ==
  /\ phase \in {"logging", "routing"} =>
       RoutePath \in LeftOf(Asked) /\ Spelled(Parts) \o Behind(Parts, RoutePath) \in Spellings
  /\ phase = "mounted" =>
       RoutePath \in LeftOf(Asked) /\ RoutePath = Fill(Last(trail).pattern, Last(trail).vals)
  /\ phase \in {"mounted", "extracting", "handling"} \/ status \in {200, 400} =>
       Spelled(Parts) \in Spellings

IdDigits == DigitsOf(InnermostValue("id"))

IdValid == IdDigits # <<>> /\ NumberOf(IdDigits, DigitOf) <= LongLongMax

(* The id when the request is done, one of 0 included: what the code does, *)
(* of which IdIsExact promises the part that no text contradicts.          *)
IdAtEnd ==
  phase = "done" =>
    LET asksId == status # 404 /\ end.extract
    IN  /\ status = 400 <=> asksId /\ ~ IdValid
        /\ id = IF asksId /\ IdValid THEN NumberOf(IdDigits, DigitOf) ELSE -1

(* The id before the handler is called and after it.                       *)
IdSoFar ==
  /\ phase \notin {"handling", "done"} => id = -1
  /\ phase = "handling" =>
       /\ end.extract => IdValid
       /\ id = IF end.extract THEN NumberOf(IdDigits, DigitOf) ELSE -1
  /\ IdAtEnd

IInv ==
  /\ Typed
  /\ Phases
  /\ Entries
  /\ Stacked
  /\ WildcardsEmptied
  /\ PathSoFar
  /\ IdSoFar

-----------------------------------------------------------------------------
(* What is registered                                                      *)

(* The tokens of the program are those of the patterns.                    *)
LEMMA CharTokens ==
  /\ "/" \in Characters /\ "*" \in Characters
  /\ Characters \subseteq Token
  /\ Token = Characters \cup Params \cup Regexps
BY RoutingAssumption DEF Token, Tokens

(* A wildcard behind a pattern is the only key "*" of the two.             *)
LEMMA OneStar ==
  ASSUME NEW q \in Seq(Token), DistinctKeys(q \o <<"*">>)
  PROVE  ~ Contains(ParamKeys(q), "*")
<1>1. PICK p : p = q \o <<"*">>
  OBVIOUS
<1>2. p \in Seq(Token) /\ p # <<>> /\ Front(p) = q /\ Last(p) = "*"
  BY <1>1, CharTokens, FrontLastOfConcat
<1>3. LastKey("*") = <<"*">>
  BY DEF LastKey, Wild, TypeOf, KeyAt
<1>4. ParamKeys(p) = ParamKeys(q) \o <<"*">>
  BY <1>2, <1>3, KeysOfLast DEF Token
<1>5. PICK k : k = ParamKeys(q)
  OBVIOUS
<1>6. k \in Seq(Key)
  BY <1>5, KeysTyped DEF Token, Key
<1>7. "*" \in Key
  BY CharTokens DEF Key, KeysOf, KeyAt, Token
<1>8. PICK s : s = k \o <<"*">>
  OBVIOUS
<1>9. PICK n \in Nat : n = Len(k)
  BY <1>6
<1>10. DOMAIN s = 1..(n + 1) /\ s[n + 1] = "*" /\ \A i \in 1..n : s[i] = k[i]
  <2>1. <<"*">> \in Seq(Key) /\ Len(<<"*">>) = 1 /\ <<"*">>[1] = "*"
    BY <1>7
  <2>2. /\ s \in Seq(Key) /\ Len(s) = n + 1
        /\ \A i \in 1..(n + 1) : s[i] = IF i <= n THEN k[i] ELSE <<"*">>[i - n]
    BY <1>6, <1>8, <1>9, <2>1, ConcatProperties
  <2>3. ~ (n + 1 <= n) /\ (n + 1) - n = 1 /\ n + 1 \in 1..(n + 1)
    OBVIOUS
  <2> QED BY <2>1, <2>2, <2>3
<1>11. IsInjective(s)
  BY <1>1, <1>4, <1>5, <1>8 DEF DistinctKeys
<1>12. ASSUME NEW i \in 1..n, k[i] = "*"
       PROVE  FALSE
  <2>1. i \in DOMAIN s /\ n + 1 \in DOMAIN s /\ s[i] = s[n + 1] /\ i # n + 1
    BY <1>10, <1>12
  <2> QED BY <1>11, <2>1 DEF IsInjective
<1> QED BY <1>5, <1>9, <1>12 DEF Contains

(* A slash behind a pattern is no key.                                     *)
LEMMA SlashNoKey ==
  ASSUME NEW q \in Seq(Token)
  PROVE  ParamKeys(q \o <<"/">>) = ParamKeys(q)
<1>1. PICK p : p = q \o <<"/">>
  OBVIOUS
<1>2. p \in Seq(Token) /\ p # <<>> /\ Front(p) = q /\ Last(p) = "/"
  BY <1>1, CharTokens, FrontLastOfConcat
<1>3. LastKey("/") = <<>>
  BY TokenAssumption DEF LastKey, Wild, TypeOf
<1>4. ParamKeys(p) = ParamKeys(q) \o <<>>
  BY <1>2, <1>3, KeysOfLast DEF Token
<1>5. ParamKeys(q) \in Seq(Key)
  BY KeysTyped DEF Token, Key
<1> QED BY <1>1, <1>4, <1>5, ConcatEmptySeq

(* The pattern of a wildcard that a mount adds connects.                   *)
LEMMA WildcardConnects ==
  ASSUME NEW q \in Seq(Token), q # <<>>, Last(q) = "/", DistinctKeys(q \o <<"*">>)
  PROVE  Connects(q \o <<"*">>)
<1>1. Front(q \o <<"*">>) = q /\ Last(q \o <<"*">>) = "*"
  BY CharTokens, FrontLastOfConcat
<1>2. ~ Contains(ParamKeys(q), "*")
  BY OneStar
<1> QED BY <1>1, <1>2 DEF Connects, IsWildcard

(* So do the others that it adds.                                          *)
LEMMA MountConnects ==
  ASSUME NEW p \in Seq(Token), NEW ps, ps = MountedPatterns(p),
         \A j \in 1..Len(ps) : Acceptable(ps[j])
  PROVE  ps \in Seq(Seq(Token)) /\ \A j \in 1..Len(ps) : Connects(ps[j])
<1>1. CASE p # <<>> /\ Last(p) = "/"
  <2>1. PICK q : q = p \o <<"*">>
    OBVIOUS
  <2>2. q \in Seq(Token)
    BY <2>1, CharTokens, FrontLastOfConcat
  <2>3. ps = <<q>>
    BY <1>1, <2>1 DEF MountedPatterns
  <2>4. Len(ps) = 1 /\ ps[1] = q /\ ps \in Seq(Seq(Token))
    BY <2>2, <2>3
  <2>5. Connects(q)
    <3>1. DistinctKeys(q)
      BY <2>4 DEF Acceptable
    <3> QED BY <1>1, <2>1, <3>1, WildcardConnects
  <2> QED BY <2>4, <2>5
<1>2. CASE ~ (p # <<>> /\ Last(p) = "/")
  <2>1. PICK q : q = p \o <<"/">>
    OBVIOUS
  <2>2. PICK w : w = p \o <<"/", "*">>
    OBVIOUS
  <2>3. q \in Seq(Token) /\ q # <<>> /\ Last(q) = "/" /\ Front(q) = p
    BY <2>1, CharTokens, FrontLastOfConcat
  <2>4. w = q \o <<"*">>
    <3>1. <<"/">> \in Seq(Token) /\ <<"*">> \in Seq(Token)
      BY CharTokens
    <3>2. <<"/", "*">> = <<"/">> \o <<"*">>
      OBVIOUS
    <3>3. (p \o <<"/">>) \o <<"*">> = p \o (<<"/">> \o <<"*">>)
      BY <3>1, ConcatAssociative
    <3> QED BY <2>1, <2>2, <3>2, <3>3
  <2>5. w \in Seq(Token)
    BY <2>3, <2>4, CharTokens, FrontLastOfConcat
  <2>6. ps = <<p, q, w>>
    BY <1>2, <2>1, <2>2 DEF MountedPatterns
  <2>7. Len(ps) = 3 /\ ps[1] = p /\ ps[2] = q /\ ps[3] = w /\ ps \in Seq(Seq(Token))
    BY <2>3, <2>5, <2>6
  <2>8. Acceptable(p) /\ Acceptable(q) /\ Acceptable(w)
    <3>1. 1 \in 1..Len(ps) /\ 2 \in 1..Len(ps) /\ 3 \in 1..Len(ps)
      BY <2>7
    <3> QED BY <2>7, <3>1
  <2>9. Connects(w)
    BY <2>3, <2>4, <2>8, WildcardConnects DEF Acceptable
  <2>10. ~ Contains(ParamKeys(q), "*")
    BY <2>3, <2>4, <2>8, OneStar DEF Acceptable
  <2>11. Connects(q)
    BY <2>3, <2>10 DEF Connects, IsWildcard
  <2>12. ~ IsWildcard(p)
    <3>1. p # <<>> /\ Len(p) \in Nat \ {0}
      BY <2>8, EmptySeq DEF Acceptable, BeginsWithSlash
    <3>2. Len(q) = Len(p) + 1 /\ q[Len(p)] = p[Len(p)]
      <4>1. <<"/">> \in Seq(Token) /\ Len(<<"/">>) = 1
        BY CharTokens
      <4> QED BY <2>1, <3>1, <4>1, ConcatProperties
    <3>3. q[Len(p)] # "*"
      <4>1. Len(p) \in 1..Len(q) /\ Len(p) # Len(q)
        BY <3>1, <3>2
      <4> QED BY <2>8, <4>1 DEF Acceptable, Parses
    <3> QED BY <3>2, <3>3 DEF IsWildcard, Last
  <2>13. Connects(p)
    BY <2>1, <2>10, <2>12, SlashNoKey DEF Connects
  <2>14. \A j \in 1..3 : j = 1 \/ j = 2 \/ j = 3
    OBVIOUS
  <2> QED BY <2>7, <2>9, <2>11, <2>13, <2>14
<1> QED BY <1>1, <1>2

(* What registrations the trees are built of.                              *)
Proper == {r \in Registration : Acceptable(r.pattern) /\ (r.sub # NoMux => Connects(r.pattern))}

(* Each mount of a program adds proper registrations.                      *)
LEMMA InsertionsProper ==
  ASSUME NEW p \in Programs, NEW m \in Muxes
  PROVE  Insertions(p[m]) \in Seq(Proper)
<1>1. PICK regs \in Seq(Registration) : regs = p[m]
  BY RoutingAssumption
<1>2. PICK n \in Nat : n = Len(regs)
  OBVIOUS
<1> DEFINE ps(r) == MountedPatterns(r.pattern)
           made(r) == IF r.sub = NoMux THEN <<r>>
                      ELSE [j \in 1..Len(ps(r)) |-> [r EXCEPT !.pattern = ps(r)[j]]]
<1>3. PICK f : f = [i \in 1..n |-> made(regs[i])]
  OBVIOUS
<1>4. Insertions(p[m]) = FlattenSeq(f)
  BY <1>1, <1>2, <1>3 DEF Insertions
<1>5. \A r \in Registration : ps(r) \in Seq(Seq(Token))
  <2>1. ASSUME NEW r \in Registration
        PROVE  ps(r) \in Seq(Seq(Token))
    <3>1. r.pattern \in Seq(Token)
      BY DEF Registration, Token, Tokens
    <3>2. <<"/">> \in Seq(Token) /\ <<"*">> \in Seq(Token) /\ <<"/", "*">> \in Seq(Token)
      BY CharTokens
    <3>3. r.pattern \o <<"/">> \in Seq(Token) /\ r.pattern \o <<"*">> \in Seq(Token)
          /\ r.pattern \o <<"/", "*">> \in Seq(Token)
      BY <3>1, <3>2, ConcatProperties
    <3> QED BY <3>1, <3>3 DEF MountedPatterns
  <2> QED BY <2>1
<1>6. \A r \in Registration : made(r) \in Seq(Registration)
  <2>1. ASSUME NEW r \in Registration, r.sub # NoMux
        PROVE  made(r) \in Seq(Registration)
    <3>1. PICK qs \in Seq(Seq(Token)) : qs = ps(r)
      BY <1>5
    <3>2. \A j \in 1..Len(qs) : [r EXCEPT !.pattern = qs[j]] \in Registration
      <4>1. \A q \in Seq(Token) : [r EXCEPT !.pattern = q] \in Registration
        BY DEF Registration, Token, Tokens
      <4>2. \A j \in 1..Len(qs) : qs[j] \in Seq(Token)
        BY ElementOfSeq
      <4> QED BY <4>1, <4>2
    <3>3. PICK k \in Nat : k = Len(qs)
      OBVIOUS
    <3>4. PICK g : g = [j \in 1..k |-> [r EXCEPT !.pattern = qs[j]]]
      OBVIOUS
    <3>5. g \in [1..k -> Registration]
      BY <3>2, <3>3, <3>4
    <3>6. made(r) = g
      BY <2>1, <3>1, <3>3, <3>4
    <3> HIDE DEF made
    <3> QED BY <3>5, <3>6, SeqDef
  <2>2. ASSUME NEW r \in Registration, r.sub = NoMux
        PROVE  made(r) \in Seq(Registration)
    BY <2>2
  <2> QED BY <2>1, <2>2
<1> HIDE DEF made
<1>7. f \in [1..n -> Seq(Registration)]
  BY <1>2, <1>3, <1>6
<1>8. \A r \in Range(FlattenSeq(f)) : Acceptable(r.pattern)
  BY <1>4, RoutingAssumption
<1>9. ASSUME NEW i \in 1..n, NEW j \in 1..Len(f[i])
      PROVE  f[i][j] \in Registration /\ Acceptable(f[i][j].pattern)
  <2>1. f[i][j] \in Range(FlattenSeq(f))
    BY <1>7, FlattenHolds
  <2>2. f[i] \in Seq(Registration)
    BY <1>7
  <2> QED BY <1>8, <2>1, <2>2, ElementOfSeq
<1>10. ASSUME NEW i \in 1..n
       PROVE  f[i] \in Seq(Proper)
  <2>1. PICK r \in Registration : r = regs[i] /\ f[i] = made(r)
    BY <1>2, <1>3
  <2>2. CASE r.sub = NoMux
    <3>1. f[i] = <<r>>
      BY <2>1, <2>2 DEF made
    <3>2. Len(f[i]) = 1 /\ f[i][1] = r
      BY <3>1
    <3>3. 1 \in 1..Len(f[i])
      BY <3>2
    <3>4. r \in Proper
      BY <1>9, <2>2, <3>2, <3>3 DEF Proper
    <3> QED BY <3>1, <3>4
  <2>3. CASE r.sub # NoMux
    <3>1. PICK qs \in Seq(Seq(Token)) : qs = ps(r)
      BY <1>5
    <3>2. PICK k \in Nat : k = Len(qs)
      OBVIOUS
    <3>3. f[i] = [j \in 1..k |-> [r EXCEPT !.pattern = qs[j]]]
      BY <2>1, <2>3, <3>1, <3>2 DEF made
    <3>4. f[i] \in Seq(Registration) /\ Len(f[i]) = k
      <4>1. f[i] \in Seq(Registration)
        BY <1>7
      <4>2. DOMAIN f[i] = 1..k
        BY <3>3
      <4> QED BY <4>1, <4>2, LenProperties
    <3>5. \A j \in 1..k : f[i][j].pattern = qs[j] /\ f[i][j].sub = r.sub
      BY <3>3 DEF Registration
    <3>6. \A j \in 1..k : Acceptable(qs[j])
      BY <1>9, <3>4, <3>5
    <3>7. r.pattern \in Seq(Token)
      BY DEF Registration, Token, Tokens
    <3>8. \A j \in 1..k : Connects(qs[j])
      BY <3>1, <3>2, <3>6, <3>7, MountConnects
    <3>9. \A j \in 1..k : f[i][j] \in Proper
      BY <1>9, <3>4, <3>5, <3>6, <3>8 DEF Proper
    <3>10. f[i] \in [1..k -> Proper]
      BY <3>3, <3>9
    <3> QED BY <3>10, SeqDef
  <2> QED BY <2>2, <2>3
<1>11. f \in Seq(Seq(Proper))
  <2>1. f \in [1..n -> Seq(Proper)]
    BY <1>7, <1>10
  <2> QED BY <2>1, SeqDef
<1> QED BY <1>4, <1>11, FlattenType

-----------------------------------------------------------------------------
(* What is looked up                                                       *)

(* The registration that is found is proper and has the pattern.           *)
LEMMA EndpointProper ==
  ASSUME Typed, NEW method, NEW q,
         \E r \in Range(Insertions(program[at])) : r.pattern = q /\ r.method \in {method, "ALL"}
  PROVE  EndpointAt(at, method, q) \in Proper /\ EndpointAt(at, method, q).pattern = q
<1>1. PICK regs : regs = Insertions(program[at])
  OBVIOUS
<1>2. regs \in Seq(Proper)
  BY <1>1, InsertionsProper DEF Typed
<1> DEFINE T == {i \in 1..Len(regs) : regs[i].pattern = q /\ regs[i].method \in {method, "ALL"}}
<1>3. T \in SUBSET Nat /\ Len(regs) \in Nat /\ \A i \in T : i <= Len(regs)
  BY <1>2
<1>4. T # {}
  <2>1. PICK r \in Range(regs) : r.pattern = q /\ r.method \in {method, "ALL"}
    BY <1>1
  <2>2. PICK i \in 1..Len(regs) : regs[i] = r
    <3>1. DOMAIN regs = 1..Len(regs)
      BY <1>2, LenProperties
    <3> QED BY <3>1 DEF Range
  <2> QED BY <2>1, <2>2
<1>5. Max(T) \in T
  <2> HIDE DEF T
  <2> QED BY <1>3, <1>4, MaxIsGreatest
<1>6. EndpointAt(at, method, q) = regs[Max(T)]
  BY <1>1 DEF EndpointAt
<1> QED BY <1>2, <1>5, <1>6

(* What a lookup finds on the way of a request.                            *)
Finds(found, e, path) ==
  /\ found.pattern \in Seq(Token) /\ Acceptable(found.pattern)
  /\ found.vals \in Seq(Text) /\ ValuesFit(found.pattern, found.vals)
  /\ Fill(found.pattern, found.vals) = path
  /\ e \in Registration
  /\ e.sub # NoMux => Connects(found.pattern)

(* And it does, if the path is left of the path that was asked for.         *)
LEMMA LookupFinds ==
  ASSUME Typed, phase # "idle", RoutePath \in LeftOf(Asked),
         Lookup(at, request.method, RoutePath).hit
  PROVE  Finds(Lookup(at, request.method, RoutePath),
               EndpointAt(at, request.method, Lookup(at, request.method, RoutePath).pattern),
               RoutePath)
<1>1. PICK path : path = RoutePath
  OBVIOUS
<1>2. PICK method \in Methods : method = request.method
  BY DEF Typed
<1>3. PICK regs : regs = program[at]
  OBVIOUS
<1>4. PICK found : found = TreeFind(TreeOf(regs), method, path)
  OBVIOUS
<1>5. Lookup(at, request.method, RoutePath) = found
  <2>1. tree[at] = TreeOf(regs)
    BY <1>3 DEF Typed
  <2> QED BY <1>1, <1>2, <1>4, <2>1 DEF Lookup
<1>6. path \in RoutePaths
  BY <1>1 DEF RoutePaths, Asked, Typed
<1>7. regs \in {p[m] : p \in Programs, m \in Muxes} /\ Accepted(regs)
  BY <1>3 DEF Typed
<1>8. FoundFor(found, regs, method, path)
  BY <1>2, <1>4, <1>5, <1>6, <1>7, TreeAssumption
<1>9. EndpointAt(at, method, found.pattern) \in Proper
      /\ EndpointAt(at, method, found.pattern).pattern = found.pattern
  BY <1>3, <1>8, EndpointProper DEF FoundFor
<1>10. PICK e : e = EndpointAt(at, method, found.pattern)
  OBVIOUS
<1>11. found.pattern \in Seq(Token)
  BY <1>9 DEF Proper, Registration, Token, Tokens
<1>12. Finds(found, e, path)
  BY <1>8, <1>9, <1>10, <1>11 DEF Finds, FoundFor, Proper, ValuesFit, Text
<1> QED BY <1>1, <1>2, <1>5, <1>10, <1>12

-----------------------------------------------------------------------------
(* The stacks                                                              *)

(* The key of a wildcard is "*", behind the keys before it.                *)
LEMMA WildcardKeys ==
  ASSUME NEW p \in Seq(Token), p # <<>>, IsWildcard(p)
  PROVE  /\ ParamKeys(p) = ParamKeys(Front(p)) \o <<"*">>
         /\ Len(ParamKeys(p)) = Len(ParamKeys(Front(p))) + 1
         /\ ParamKeys(p)[Len(ParamKeys(p))] = "*"
         /\ \A k \in 1..Len(ParamKeys(Front(p))) : ParamKeys(p)[k] = ParamKeys(Front(p))[k]
<1>1. LastKey(Last(p)) = <<"*">>
  BY DEF LastKey, Wild, TypeOf, KeyAt, IsWildcard
<1>2. PICK a : a = ParamKeys(Front(p))
  OBVIOUS
<1>3. PICK b : b = ParamKeys(p)
  OBVIOUS
<1>4. b = a \o <<"*">>
  BY <1>1, <1>2, <1>3, KeysOfLast DEF Token
<1>5. a \in Seq(Key)
  <2>1. Front(p) \in Seq(Token)
    BY FrontLast
  <2> QED BY <1>2, <2>1, KeysTyped DEF Token, Key
<1>6. "*" \in Key
  BY CharTokens DEF Key, KeysOf, KeyAt, Token
<1>7. Len(b) = Len(a) + 1 /\ b[Len(b)] = "*" /\ \A k \in 1..Len(a) : b[k] = a[k]
  <2>1. <<"*">> \in Seq(Key) /\ Len(<<"*">>) = 1 /\ <<"*">>[1] = "*"
    BY <1>6
  <2>2. /\ Len(b) = Len(a) + 1
        /\ \A i \in 1..(Len(a) + 1) : b[i] = IF i <= Len(a) THEN a[i] ELSE <<"*">>[i - Len(a)]
    BY <1>4, <1>5, <2>1, ConcatProperties
  <2>3. PICK n \in Nat : n = Len(a)
    BY <1>5
  <2>4. ~ (n + 1 <= n) /\ (n + 1) - n = 1 /\ n + 1 \in 1..(n + 1)
    OBVIOUS
  <2> QED BY <2>1, <2>2, <2>3, <2>4
<1> QED BY <1>2, <1>3, <1>4, <1>7

(* The only key "*" of a connecting pattern is that of its wildcard.       *)
LEMMA ConnectedStar ==
  ASSUME NEW p \in Seq(Token), p # <<>>, Connects(p),
         NEW k \in 1..Len(ParamKeys(p)), ParamKeys(p)[k] = "*"
  PROVE  IsWildcard(p) /\ k = Len(ParamKeys(p))
<1>1. IsWildcard(p)
  BY DEF Connects, Contains
<1>2. ~ Contains(ParamKeys(Front(p)), "*")
  BY <1>1 DEF Connects
<1>3. PICK a : a = ParamKeys(Front(p))
  OBVIOUS
<1>4. a \in Seq(Key)
  <2>1. Front(p) \in Seq(Token)
    BY FrontLast
  <2> QED BY <1>3, <2>1, KeysTyped DEF Token, Key
<1>5. Len(ParamKeys(p)) = Len(a) + 1 /\ \A j \in 1..Len(a) : ParamKeys(p)[j] = a[j]
  BY <1>1, <1>3, WildcardKeys
<1>6. k \notin 1..Len(a)
  BY <1>2, <1>3, <1>5 DEF Contains
<1>7. Len(a) \in Nat
  BY <1>4
<1> QED BY <1>1, <1>5, <1>6, <1>7

(* A step on the way: its pattern, and the values that belong to it.       *)
EntryFits(p, vals, held, keys) ==
  /\ p \in Seq(Token) /\ p # <<>>
  /\ keys \in Seq(Key) /\ keys = ParamKeys(p) /\ IsInjective(keys)
  /\ vals \in Seq(Text) /\ held \in Seq(Text)
  /\ Len(keys) = WildCount(p, Len(p)) /\ Len(vals) = Len(keys) /\ Len(held) = Len(keys)
  /\ \A k \in 1..Len(keys) :
       held[k] = IF held # vals /\ k = Len(keys) THEN <<>> ELSE vals[k]
  /\ IsWildcard(p) => Len(keys) > 0 /\ keys[Len(keys)] = "*"
  /\ held # vals => IsWildcard(p)

(* The values are those of the keys.                                       *)
LEMMA EntriesFit ==
  ASSUME Typed, Entries, NEW i \in 1..Len(trail)
  PROVE  EntryFits(trail[i].pattern, trail[i].vals, Held(i), Shapes[i])
<1>1. PICK p : p = trail[i].pattern
  OBVIOUS
<1>2. PICK vals : vals = trail[i].vals
  OBVIOUS
<1>3. PICK keys : keys = ParamKeys(p)
  OBVIOUS
<1>4. p \in Seq(Token) /\ vals \in Seq(Text)
  <2>1. trail[i] \in Entry
    BY ElementOfSeq DEF Typed
  <2> QED BY <1>1, <1>2, <2>1 DEF Entry
<1>5. p # <<>> /\ IsInjective(keys) /\ Len(vals) = WildCount(p, Len(p))
  BY <1>1, <1>2, <1>3 DEF Entries, Acceptable, BeginsWithSlash, DistinctKeys, ValuesFit
<1>6. keys \in Seq(Key) /\ Len(keys) = WildCount(p, Len(p))
  BY <1>3, <1>4, KeysTyped DEF Token, Key
<1>7. IsWildcard(p) => Len(keys) > 0 /\ keys[Len(keys)] = "*"
  <2>1. ASSUME IsWildcard(p)
        PROVE  Len(keys) > 0 /\ keys[Len(keys)] = "*"
    <3>1. Len(keys) = Len(ParamKeys(Front(p))) + 1 /\ keys[Len(keys)] = "*"
      BY <1>3, <1>4, <1>5, <2>1, WildcardKeys
    <3>2. ParamKeys(Front(p)) \in Seq(Key)
      BY <1>4, <1>5, FrontLast, KeysTyped DEF Token, Key
    <3>3. Len(ParamKeys(Front(p))) \in Nat
      BY <3>2
    <3> QED BY <3>1, <3>3
  <2> QED BY <2>1
<1>8. PICK n \in Nat : n = Len(keys) /\ n = Len(vals)
  BY <1>5, <1>6
<1>9. PICK held : held = Held(i)
  OBVIOUS
<1>10. /\ held \in Seq(Text) /\ Len(held) = n
       /\ \A k \in 1..n : held[k] = IF held # vals /\ k = n THEN <<>> ELSE vals[k]
       /\ held # vals => IsWildcard(p)
  <2>1. CASE held = vals
    BY <1>4, <1>8, <2>1
  <2>2. CASE held # vals
    <3>1. held = Emptied(vals) /\ IsWildcard(p)
      BY <1>1, <1>2, <1>9, <2>2 DEF Held
    <3>2. n \in 1..Len(vals) /\ <<>> \in Text
      BY <1>7, <1>8, <3>1, EmptySeq DEF Text
    <3>3. held = [vals EXCEPT ![n] = <<>>]
      BY <1>8, <3>1 DEF Emptied
    <3>4. /\ held \in Seq(Text) /\ Len(held) = Len(vals)
          /\ \A j \in 1..Len(vals) : held[j] = IF j = n THEN <<>> ELSE vals[j]
      BY <1>4, <3>2, <3>3, ExceptSeq
    <3> QED BY <1>8, <2>2, <3>1, <3>4
  <2> QED BY <2>1, <2>2
<1>11. Shapes[i] = keys
  BY <1>1, <1>3 DEF Shapes
<1> QED BY <1>1, <1>2, <1>3, <1>4, <1>5, <1>6, <1>7, <1>8, <1>9, <1>10, <1>11 DEF EntryFits

(* The stacks are made of sequences of keys and of values.                 *)
LEMMA StackTypes ==
  ASSUME Typed, Entries
  PROVE  /\ Shapes \in [1..Len(trail) -> Seq(Key)]
         /\ HeldValues \in [1..Len(trail) -> Seq(Text)]
         /\ \A i \in 1..Len(trail) : HeldValues[i] = Held(i)
         /\ SameLengths(Shapes, HeldValues, Len(trail))
<1>1. ASSUME NEW i \in 1..Len(trail)
      PROVE  /\ Shapes[i] \in Seq(Key) /\ HeldValues[i] = Held(i) /\ Held(i) \in Seq(Text)
             /\ Len(Shapes[i]) = Len(Held(i))
  BY EntriesFit DEF EntryFits, HeldValues
<1>2. Shapes = [i \in 1..Len(trail) |-> Shapes[i]] /\ HeldValues = [i \in 1..Len(trail) |-> HeldValues[i]]
  BY DEF Shapes, HeldValues
<1> QED BY <1>1, <1>2 DEF SameLengths

(* What a sequence does not contain it can be said to be without.          *)
LEMMA Without ==
  ASSUME NEW S, NEW s \in Seq(S), NEW x, ~ Contains(s, x)
  PROVE  s \in Seq(S \ {x})
<1>1. PICK n \in Nat : n = Len(s)
  OBVIOUS
<1>2. s \in [1..n -> S \ {x}]
  BY <1>1, LenProperties DEF Contains
<1> QED BY <1>2, SeqDef

(* The stacks are of the same length.                                      *)
LEMMA StacksSame ==
  ASSUME Typed, Entries, Stacked
  PROVE  /\ rctx.urlParams.keys \in Seq(Key) /\ rctx.urlParams.values \in Seq(Text)
         /\ Len(rctx.urlParams.keys) = Len(rctx.urlParams.values)
<1>1. PICK n \in Nat : n = Len(trail)
  BY DEF Typed
<1>2. PICK f : f = Shapes
  OBVIOUS
<1>3. PICK g : g = HeldValues
  OBVIOUS
<1>4. f \in [1..n -> Seq(Key)] /\ g \in [1..n -> Seq(Text)] /\ SameLengths(f, g, n)
  BY <1>1, <1>2, <1>3, StackTypes
<1>5. n \in 0..n
  OBVIOUS
<1>6. EquallyLong(f, g, n)
  BY <1>4, <1>5, FlattenLengths
<1>7. FirstOf(f, n) = f /\ FirstOf(g, n) = g
  BY <1>4, <1>5, FirstOfType
<1>8. FlattenSeq(FirstOf(f, n)) \in Seq(Key) /\ FlattenSeq(FirstOf(g, n)) \in Seq(Text)
  BY <1>4, <1>5, FirstOfType
<1> QED BY <1>2, <1>3, <1>6, <1>7, <1>8 DEF Stacked, EquallyLong

(* The i-th pattern and its values have the same place in both stacks, and *)
(* the keys behind it are in R.                                            *)
AlignedAt(i, R) ==
  \E a \in Seq(Key), b \in Seq(Text), r \in Seq(R), t \in Seq(Text) :
    /\ rctx.urlParams.keys = (a \o Shapes[i]) \o r
    /\ rctx.urlParams.values = (b \o Held(i)) \o t
    /\ Len(a) = Len(b)
    /\ Len(a) = Len(FlattenSeq(FirstOf(Shapes, i - 1)))

(* So it is for each of them.                                              *)
LEMMA StacksAt ==
  ASSUME Typed, Entries, Stacked, NEW i \in 1..Len(trail),
         NEW R \in SUBSET Key, RestOver(Shapes, i, Len(trail), R)
  PROVE  AlignedAt(i, R)
<1>1. PICK n \in Nat : n = Len(trail)
  BY DEF Typed
<1>2. PICK f : f = Shapes
  OBVIOUS
<1>3. PICK g : g = HeldValues
  OBVIOUS
<1>4. /\ f \in [1..n -> Seq(Key)] /\ g \in [1..n -> Seq(Text)]
      /\ SameLengths(f, g, n)
      /\ g[i] = Held(i)
  BY <1>1, <1>2, <1>3, StackTypes
<1>5. i \in 1..n /\ RestOver(f, i, n, R)
  BY <1>1, <1>2
<1>6. LiesWithin(f, i, R)
  BY <1>4, <1>5, FlattenAround
<1>7. PICK r \in Seq(R) : FlattenSeq(f) = (FlattenSeq(FirstOf(f, i - 1)) \o f[i]) \o r
  BY <1>6 DEF LiesWithin
<1>8. RestOver(g, i, n, Text)
  BY <1>4, <1>5 DEF RestOver
<1>9. LiesWithin(g, i, Text)
  <2>1. Text \in SUBSET Text
    OBVIOUS
  <2> QED BY <1>4, <1>5, <1>8, <2>1, FlattenAround
<1>10. PICK t \in Seq(Text) : FlattenSeq(g) = (FlattenSeq(FirstOf(g, i - 1)) \o g[i]) \o t
  BY <1>9 DEF LiesWithin
<1>11. PICK m \in 0..n : m = i - 1
  BY <1>5
<1>12. PICK a : a = FlattenSeq(FirstOf(f, m))
  OBVIOUS
<1>13. PICK b : b = FlattenSeq(FirstOf(g, m))
  OBVIOUS
<1>14. a \in Seq(Key) /\ b \in Seq(Text)
  BY <1>4, <1>12, <1>13, FirstOfType
<1>15. Len(a) = Len(b)
  <2>1. EquallyLong(f, g, m)
    BY <1>4, FlattenLengths
  <2> QED BY <1>12, <1>13, <2>1 DEF EquallyLong
<1> QED BY <1>2, <1>3, <1>4, <1>7, <1>10, <1>11, <1>12, <1>13, <1>14, <1>15 DEF Stacked, AlignedAt

(* What get_url_param returns is the value of the innermost pattern.       *)
LEMMA InnermostIs ==
  ASSUME Typed, Entries, Stacked, phase # "mounted", NEW key
  PROVE  GetUrlParam(rctx, key) = InnermostValue(key)
<1>1. PICK n \in Nat : n = Len(trail)
  BY DEF Typed
<1>2. PICK keys \in Seq(Key) : keys = rctx.urlParams.keys
  BY StacksSame
<1>3. PICK values \in Seq(Text) : values = rctx.urlParams.values
  BY StacksSame
<1>4. PICK l \in Nat : l = Len(keys) /\ l = Len(values)
  BY <1>2, <1>3, StacksSame
<1> DEFINE T == {j \in 1..l : keys[j] = key}
           J == {i \in 1..n : Contains(Shapes[i], key)}
<1>5. T \in SUBSET Nat /\ J \in SUBSET Nat /\ (\A j \in T : j <= l) /\ (\A i \in J : i <= n)
  OBVIOUS
<1>6. GetUrlParam(rctx, key) = IF T # {} /\ Max(T) # 0 THEN values[Max(T)] ELSE <<>>
  <2>1. SelectLastInSubSeq(keys, 1, l, LAMBDA k : k = key) = IF T # {} THEN Max(T) ELSE 0
    BY DEF SelectLastInSubSeq
  <2>2. l <= l
    OBVIOUS
  <2> HIDE DEF T
  <2> QED BY <1>2, <1>3, <1>4, <2>1, <2>2 DEF GetUrlParam
<1>7. Shapes \in [1..n -> Seq(Key)] /\ Len(Shapes) = n
  <2>1. Shapes \in [1..n -> Seq(Key)]
    BY <1>1, StackTypes
  <2>2. Shapes \in Seq(Seq(Key)) /\ DOMAIN Shapes = 1..n
    BY <2>1, SeqDef
  <2> QED BY <2>1, <2>2, LenProperties
<1> DEFINE o == IF J # {} THEN Max(J) ELSE 0
<1>8. InnermostValue(key) =
        IF o = 0 THEN <<>>
        ELSE IF key = "*" /\ PassedOn(o) THEN <<>>
        ELSE trail[o].vals[SelectInSeq(Shapes[o], LAMBDA k : k = key)]
  <2>1. SelectLastInSeq(Shapes, LAMBDA ks : Contains(ks, key)) = o
    BY <1>7 DEF SelectLastInSeq
  <2> HIDE DEF o
  <2> QED BY <2>1 DEF InnermostValue
<1> HIDE DEF T, J
<1>9. CASE J = {}
  <2>1. \A i \in 1..n : Shapes[i] \in Seq(Key \ {key})
    BY <1>7, <1>9, Without DEF J
  <2>2. Shapes \in Seq(Seq(Key \ {key}))
    <3>1. Shapes \in [1..n -> Seq(Key \ {key})]
      BY <1>7, <2>1
    <3> QED BY <3>1, SeqDef
  <2>3. FlattenSeq(Shapes) \in Seq(Key \ {key})
    BY <2>2, FlattenType
  <2>4. keys \in Seq(Key \ {key})
    BY <1>2, <2>3 DEF Stacked
  <2>5. \A j \in 1..l : keys[j] \in Key \ {key}
    BY <1>4, <2>4, ElementOfSeq
  <2>6. T = {}
    BY <2>5 DEF T
  <2> QED BY <1>6, <1>8, <1>9, <2>6 DEF o
<1>10. CASE J # {}
  <2>1. PICK i \in J : i = Max(J) /\ \A j \in J : j <= i
    BY <1>5, <1>10, MaxIsGreatest
  <2>2. i \in 1..n /\ Contains(Shapes[i], key) /\ i \in 1..Len(trail) /\ i # 0
    BY <1>1, <2>1 DEF J
  <2>3. RestOver(Shapes, i, Len(trail), Key \ {key})
    <3>1. ASSUME NEW j \in (i + 1)..n
          PROVE  Shapes[j] \in Seq(Key \ {key})
      <4>1. j \in 1..n /\ ~ (j <= i)
        BY <2>2
      <4>2. ~ Contains(Shapes[j], key)
        BY <2>1, <4>1 DEF J
      <4> QED BY <1>7, <4>1, <4>2, Without
    <3> QED BY <1>1, <3>1 DEF RestOver
  <2>4. PICK a \in Seq(Key), b \in Seq(Text), r \in Seq(Key \ {key}), t \in Seq(Text) :
          /\ keys = (a \o Shapes[i]) \o r
          /\ values = (b \o Held(i)) \o t
          /\ Len(a) = Len(b)
    <3>1. Key \ {key} \in SUBSET Key
      OBVIOUS
    <3>2. AlignedAt(i, Key \ {key})
      BY <2>2, <2>3, <3>1, StacksAt
    <3> QED BY <1>2, <1>3, <3>2 DEF AlignedAt
  <2>5. PICK p : p = trail[i].pattern
    OBVIOUS
  <2>6. PICK vals : vals = trail[i].vals
    OBVIOUS
  <2>7. PICK held : held = Held(i)
    OBVIOUS
  <2>8. PICK ks : ks = Shapes[i]
    OBVIOUS
  <2>9. EntryFits(p, vals, held, ks)
    BY <2>2, <2>5, <2>6, <2>7, <2>8, EntriesFit
  <2>10. PICK la \in Nat, lk \in Nat, lr \in Nat :
           la = Len(a) /\ la = Len(b) /\ lk = Len(ks) /\ lk = Len(held) /\ lr = Len(r)
    BY <2>4, <2>9 DEF EntryFits
  <2>11. /\ l = la + lk + lr
         /\ \A k \in 1..lk : keys[la + k] = ks[k]
         /\ \A k \in 1..lr : keys[la + lk + k] = r[k]
    <3>1. ks \in Seq(Key) /\ r \in Seq(Key) /\ keys = (a \o ks) \o r
      BY <2>4, <2>8, <2>9, SeqMonotonic DEF EntryFits
    <3>2. Between(a, ks, r, keys)
      BY <3>1, ConcatMiddle
    <3> QED BY <1>4, <2>10, <3>2 DEF Between
  <2>12. \A k \in 1..lk : values[la + k] = held[k]
    <3>1. held \in Seq(Text) /\ values = (b \o held) \o t
      BY <2>4, <2>7, <2>9 DEF EntryFits
    <3>2. Between(b, held, t, values)
      BY <3>1, ConcatMiddle
    <3> QED BY <2>10, <3>2 DEF Between
  <2>13. PICK k \in 1..lk : ks[k] = key
    BY <2>2, <2>8, <2>10 DEF Contains
  <2>14. \A j \in 1..lk : ks[j] = key => j = k
    <3>1. IsInjective(ks) /\ DOMAIN ks = 1..lk
      BY <2>9, <2>10, LenProperties DEF EntryFits
    <3> QED BY <2>13, <3>1 DEF IsInjective
  <2>15. SelectInSeq(ks, LAMBDA x : x = key) = k
    <3> DEFINE M == {j \in 1..Len(ks) : ks[j] = key}
    <3>1. M = {k}
      BY <2>10, <2>13, <2>14
    <3>2. SelectInSeq(ks, LAMBDA x : x = key) = IF M # {} THEN Min(M) ELSE 0
      BY DEF SelectInSeq
    <3> HIDE DEF M
    <3>3. Min(M) = k
      <4>1. M \in SUBSET Nat /\ M # {}
        BY <3>1
      <4> QED BY <3>1, <4>1, MinIsLeast
    <3> QED BY <3>1, <3>2, <3>3
  <2>16. T # {} /\ Max(T) = la + k
    <3>1. la + k \in T
      BY <2>11, <2>13 DEF T
    <3>2. ASSUME NEW j \in T
          PROVE  j <= la + k
      <4>1. j \in 1..l /\ keys[j] = key
        BY DEF T
      <4>2. CASE j <= la
        BY <4>1, <4>2
      <4>3. CASE j > la /\ j <= la + lk
        <5>1. PICK x \in 1..lk : j = la + x
          <6>1. j - la \in 1..lk /\ j = la + (j - la)
            BY <4>1, <4>3
          <6> QED BY <6>1
        <5>2. ks[x] = key
          BY <2>11, <4>1, <5>1
        <5> QED BY <2>14, <5>1, <5>2
      <4>4. CASE j > la + lk
        <5>1. PICK x \in 1..lr : j = la + lk + x
          <6>1. j - (la + lk) \in 1..lr /\ j = la + lk + (j - (la + lk))
            BY <2>11, <4>1, <4>4
          <6> QED BY <6>1
        <5>2. r[x] = key
          BY <2>11, <4>1, <5>1
        <5>3. r[x] \in Key \ {key}
          BY <2>10, ElementOfSeq
        <5> QED BY <5>2, <5>3
      <4> QED BY <4>1, <4>2, <4>3, <4>4
    <3>3. PICK m : m = Max(T)
      OBVIOUS
    <3>4. m \in T /\ la + k <= m /\ m <= la + k
      BY <1>5, <3>1, <3>2, <3>3, MaxIsGreatest
    <3>5. m \in Nat /\ la + k \in Nat
      BY <1>5, <3>1, <3>4
    <3>6. m = la + k
      BY <3>4, <3>5
    <3> QED BY <3>1, <3>3, <3>6
  <2>17. GetUrlParam(rctx, key) = held[k]
    BY <1>6, <2>12, <2>16
  <2>18. InnermostValue(key) = IF key = "*" /\ PassedOn(i) THEN <<>> ELSE vals[k]
    <3>1. o = i /\ o # 0
      BY <1>10, <2>1, <2>2 DEF o
    <3> HIDE DEF o
    <3> QED BY <1>8, <2>6, <2>8, <2>15, <3>1
  <2>19. Passed(i) <=> PassedOn(i)
    BY DEF Passed, PassedOn
  <2>20. CASE key = "*" /\ PassedOn(i)
    <3>1. IsWildcard(p) /\ k = Len(ks)
      <4>1. Connects(p)
        BY <2>2, <2>5, <2>20 DEF Entries
      <4> QED BY <2>9, <2>10, <2>13, <2>20, <4>1, ConnectedStar DEF EntryFits
    <3>2. held = Emptied(vals)
      BY <2>5, <2>6, <2>7, <2>19, <2>20, <3>1 DEF Held
    <3>3. held[k] = <<>>
      <4>1. vals \in Seq(Text) /\ Len(vals) = k /\ k \in 1..Len(vals)
        BY <2>9, <3>1, <2>10 DEF EntryFits
      <4>2. held = [vals EXCEPT ![k] = <<>>]
        BY <3>2, <4>1 DEF Emptied
      <4> QED BY <4>1, <4>2
    <3> QED BY <2>17, <2>18, <2>20, <3>3
  <2>21. CASE key # "*"
    <3>1. held[k] = vals[k]
      <4>1. held # vals => k # Len(ks)
        BY <2>9, <2>13, <2>21 DEF EntryFits
      <4> QED BY <2>9, <2>10, <4>1 DEF EntryFits
    <3> QED BY <2>17, <2>18, <2>21, <3>1
  <2>22. CASE ~ PassedOn(i)
    <3>1. held = vals
      BY <2>6, <2>7, <2>19, <2>22 DEF Held
    <3> QED BY <2>17, <2>18, <2>22, <3>1
  <2> QED BY <2>20, <2>21, <2>22
<1> QED BY <1>9, <1>10

-----------------------------------------------------------------------------
(* The number of an id                                                     *)

(* The equation of the function that NumberOf is made with.                *)
Counts(f, digits) ==
  f = [i \in 0..Len(digits) |-> IF i = 0 THEN 0 ELSE 10 * f[i - 1] + DigitOf[digits[i]]]

(* It has a solution, and its values are naturals.                         *)
LEMMA NumberTyped ==
  ASSUME NEW digits \in Seq(DOMAIN DigitOf)
  PROVE  NumberOf(digits, DigitOf) \in Nat
<1>1. PICK l \in Nat : l = Len(digits)
  OBVIOUS
<1> DEFINE UpTo(f, n) == f = [i \in 0..n |-> IF i = 0 THEN 0 ELSE 10 * f[i - 1] + DigitOf[digits[i]]]
           Solved(n) == \E f \in [0..n -> Nat] : UpTo(f, n)
           N == {n \in Nat : n <= l => Solved(n)}
<1>2. 0 \in N
  <2>1. PICK f : f = [i \in 0..0 |-> 0]
    OBVIOUS
  <2>2. f \in [0..0 -> Nat] /\ UpTo(f, 0)
    BY <2>1
  <2> QED BY <2>2
<1>3. ASSUME NEW n \in Nat, n \in N
      PROVE  n + 1 \in N
  <2>1. ASSUME n + 1 <= l
        PROVE  Solved(n + 1)
    <3>1. PICK f \in [0..n -> Nat] : UpTo(f, n)
      <4>1. Solved(n)
        <5> HIDE DEF Solved
        <5> QED BY <1>3, <2>1
      <4> QED BY <4>1
    <3>2. PICK d \in Nat : d = DigitOf[digits[n + 1]]
      <4>1. digits[n + 1] \in DOMAIN DigitOf
        BY <1>1, <2>1
      <4> QED BY <4>1, RoutingAssumption
    <3>3. PICK g : g = [i \in 0..(n + 1) |-> IF i <= n THEN f[i] ELSE 10 * f[n] + d]
      OBVIOUS
    <3>4. g \in [0..(n + 1) -> Nat]
      BY <3>3
    <3>5. ASSUME NEW i \in 0..(n + 1)
          PROVE  g[i] = IF i = 0 THEN 0 ELSE 10 * g[i - 1] + DigitOf[digits[i]]
      <4>1. CASE i <= n
        <5>1. i \in 0..n /\ (i # 0 => i - 1 \in 0..n /\ i - 1 <= n)
          BY <4>1
        <5>2. f[i] = IF i = 0 THEN 0 ELSE 10 * f[i - 1] + DigitOf[digits[i]]
          BY <3>1, <5>1
        <5> QED BY <3>3, <4>1, <5>1, <5>2
      <4>2. CASE i = n + 1
        <5>1. g[n + 1] = 10 * f[n] + d /\ g[n] = f[n] /\ i - 1 = n /\ i # 0
          BY <3>3, <4>2
        <5> QED BY <3>2, <4>2, <5>1
      <4> QED BY <4>1, <4>2
    <3>6. UpTo(g, n + 1)
      BY <3>3, <3>5
    <3> QED BY <3>4, <3>6
  <2>2. n + 1 \in Nat
    OBVIOUS
  <2> HIDE DEF Solved
  <2> QED BY <2>1, <2>2
<1>4. l \in N
  <2>1. Nat \subseteq N
    <3> HIDE DEF N
    <3> QED BY <1>2, <1>3, SetInduction
  <2> QED BY <2>1
<1>5. PICK f \in [0..l -> Nat] : UpTo(f, l)
  <2>1. Solved(l)
    <3> HIDE DEF Solved
    <3> QED BY <1>4
  <2> QED BY <2>1
<1> DEFINE c == CHOOSE g : Counts(g, digits)
<1>6. Counts(c, digits)
  <2>1. Counts(f, digits)
    BY <1>1, <1>5 DEF Counts
  <2> QED BY <2>1
<1>7. NumberOf(digits, DigitOf) = c[Len(digits)]
  BY DEF NumberOf, Counts
<1> HIDE DEF c
<1> DEFINE M == {n \in Nat : n <= l => c[n] \in Nat}
<1>8. \A i \in 0..l : c[i] = IF i = 0 THEN 0 ELSE 10 * c[i - 1] + DigitOf[digits[i]]
  <2>1. PICK g : g = [i \in 0..l |-> IF i = 0 THEN 0 ELSE 10 * c[i - 1] + DigitOf[digits[i]]]
    OBVIOUS
  <2>2. c = g
    BY <1>1, <1>6, <2>1 DEF Counts
  <2>3. \A i \in 0..l : g[i] = IF i = 0 THEN 0 ELSE 10 * c[i - 1] + DigitOf[digits[i]]
    BY <2>1
  <2> QED BY <2>2, <2>3
<1>9. 0 \in M
  BY <1>8
<1>10. ASSUME NEW n \in Nat, n \in M
       PROVE  n + 1 \in M
  <2>1. ASSUME n + 1 <= l
        PROVE  c[n + 1] \in Nat
    <3>1. c[n] \in Nat
      BY <1>10, <2>1
    <3>2. DigitOf[digits[n + 1]] \in Nat
      <4>1. digits[n + 1] \in DOMAIN DigitOf
        BY <1>1, <2>1
      <4> QED BY <4>1, RoutingAssumption
    <3>3. n + 1 \in 0..l /\ n + 1 # 0 /\ (n + 1) - 1 = n
      BY <2>1
    <3>4. c[n + 1] = 10 * c[n] + DigitOf[digits[n + 1]]
      BY <1>8, <3>3
    <3> QED BY <3>1, <3>2, <3>4
  <2>2. n + 1 \in Nat
    OBVIOUS
  <2> QED BY <2>1, <2>2
<1>11. l \in M
  <2>1. Nat \subseteq M
    <3> HIDE DEF M
    <3> QED BY <1>9, <1>10, SetInduction
  <2> QED BY <2>1
<1> QED BY <1>1, <1>7, <1>11

(* from_chars takes the digits at the front and returns their number.      *)
LEMMA FromCharsExact ==
  ASSUME NEW s \in Text
  PROVE  /\ NumberOf(DigitsOf(s), DigitOf) \in Nat
         /\ FromChars(s, DigitOf, LongLongMax).ok <=>
              DigitsOf(s) # <<>> /\ NumberOf(DigitsOf(s), DigitOf) <= LongLongMax
         /\ FromChars(s, DigitOf, LongLongMax).ok =>
              FromChars(s, DigitOf, LongLongMax).number = NumberOf(DigitsOf(s), DigitOf)
<1>1. PICK l \in Nat : l = Len(s)
  BY DEF Text
<1> DEFINE I == {i \in 1..l : s[i] \notin DOMAIN DigitOf}
           other == IF I # {} THEN Min(I) ELSE 0
           n == IF other = 0 THEN l ELSE other - 1
           Ends(k) == (\A i \in 1..k : IsDigit(s[i])) /\ (k < l => ~ IsDigit(s[k + 1]))
<1>2. SelectInSeq(s, LAMBDA c : c \notin DOMAIN DigitOf) = other
  BY <1>1 DEF SelectInSeq
<1>3. n \in 0..l /\ Ends(n)
  <2>1. I \in SUBSET Nat
    OBVIOUS
  <2>2. CASE I = {}
    BY <2>2 DEF IsDigit
  <2>3. CASE I # {}
    <3>1. PICK m \in I : m = Min(I) /\ \A y \in I : m <= y
      <4> HIDE DEF I
      <4> QED BY <2>1, <2>3, MinIsLeast
    <3>2. m \in 1..l /\ s[m] \notin DOMAIN DigitOf /\ n = m - 1
      BY <2>3, <3>1
    <3>3. n \in 0..l /\ n + 1 = m /\ \A i \in 1..n : i \in 1..l /\ ~ (m <= i)
      <4> HIDE DEF n
      <4> QED BY <3>2
    <3>4. \A i \in 1..n : s[i] \in DOMAIN DigitOf
      <4>1. \A i \in 1..n : i \notin I
        <5> HIDE DEF n, I
        <5> QED BY <3>1, <3>3
      <4> HIDE DEF n
      <4> QED BY <3>3, <4>1
    <3> HIDE DEF n
    <3> QED BY <3>2, <3>3, <3>4 DEF IsDigit
  <2> QED BY <2>2, <2>3
<1> HIDE DEF other, n
<1>4. \A k \in 0..l : Ends(k) => k = n
  <2>1. ASSUME NEW k \in 0..l, Ends(k), k # n
        PROVE  FALSE
    <3>1. CASE k < n
      <4>1. k + 1 \in 1..n /\ k < l
        BY <1>3, <3>1
      <4> QED BY <1>3, <2>1, <4>1
    <3>2. CASE n < k
      <4>1. n + 1 \in 1..k /\ n < l
        BY <1>3, <3>2
      <4> QED BY <1>3, <2>1, <4>1
    <3> QED BY <1>3, <2>1, <3>1, <3>2
  <2> QED BY <2>1
<1>5. (CHOOSE k \in 0..l : Ends(k)) = n
  <2> HIDE DEF Ends
  <2> QED BY <1>3, <1>4
<1>6. DigitsOf(s) = SubSeq(s, 1, n)
  BY <1>1, <1>5 DEF DigitsOf
<1>7. PICK digits : digits = SubSeq(s, 1, n)
  OBVIOUS
<1>8. (IF other = 0 THEN s ELSE SubSeq(s, 1, other - 1)) = digits
  BY <1>1, <1>7, SubSeqFull DEF n, Text
<1>9. digits \in Seq(DOMAIN DigitOf)
  <2>1. \A i \in 1..n : s[i] \in DOMAIN DigitOf
    BY <1>3 DEF IsDigit
  <2>2. n \in Int /\ 1 \in Int
    BY <1>3
  <2> QED BY <1>7, <2>1, <2>2, SubSeqProperties
<1>10. PICK number \in Nat : number = NumberOf(digits, DigitOf)
  BY <1>9, NumberTyped
<1>11. FromChars(s, DigitOf, LongLongMax) =
         IF digits = <<>> \/ number > LongLongMax
         THEN [ok |-> FALSE, number |-> 0] ELSE [ok |-> TRUE, number |-> number]
  BY <1>2, <1>8, <1>10 DEF FromChars
<1>12. LongLongMax \in Nat
  BY RoutingAssumption
<1> QED BY <1>6, <1>7, <1>10, <1>11, <1>12

-----------------------------------------------------------------------------
(* Putting parts of a path together                                        *)

Slashed == {q \in Text : BeginsWithSlash(q)}

(* Without its slash a part is a text still, and what is left of it ends   *)
(* as it does.                                                             *)
LEMMA SlashedTail ==
  ASSUME NEW q \in Slashed
  PROVE  /\ q \in Text /\ q # <<>> /\ Tail(q) \in Text
         /\ q = <<"/">> \o Tail(q)
         /\ Tail(q) # <<>> => Last(Tail(q)) = Last(q)
         /\ Tail(q) = <<>> => Last(q) = "/"
<1>1. q \in Text /\ q # <<>> /\ q[1] = "/"
  BY DEF Slashed, BeginsWithSlash
<1>2. PICK n \in Nat : Len(q) = n + 1
  <2>1. Len(q) \in Nat \ {0}
    BY <1>1, EmptySeq DEF Text
  <2>2. Len(q) - 1 \in Nat /\ Len(q) = (Len(q) - 1) + 1
    BY <2>1
  <2> QED BY <2>2
<1>3. PICK t : t = Tail(q)
  OBVIOUS
<1>4. t \in Text /\ Len(t) = n /\ \A i \in 1..n : t[i] = q[i + 1]
  <2>1. t \in Text /\ Len(t) = Len(q) - 1 /\ \A i \in 1..Len(t) : t[i] = q[i + 1]
    BY <1>1, <1>3, HeadTailProperties DEF Text
  <2> QED BY <1>2, <2>1
<1>5. q = <<"/">> \o t
  <2>1. Len(q) \in 1..Len(q) /\ 1 \in 1..Len(q)
    BY <1>2
  <2>2. SubSeq(q, 1, Len(q)) = <<q[1]>> \o SubSeq(q, 1 + 1, Len(q))
    BY <1>1, <2>1, SubSeqRecursiveFirst DEF Text
  <2>3. SubSeq(q, 1, Len(q)) = q
    BY <1>1, SubSeqFull DEF Text
  <2>4. t = SubSeq(q, 2, Len(q)) /\ 1 + 1 = 2
    BY <1>1, <1>3, TailIsSubSeq DEF Text
  <2> QED BY <1>1, <2>2, <2>3, <2>4
<1>6. t # <<>> => Last(t) = Last(q)
  <2>1. ASSUME t # <<>>
        PROVE  Last(t) = Last(q)
    <3>1. n \in 1..n
      BY <1>4, <2>1, EmptySeq DEF Text
    <3> QED BY <1>2, <1>4, <3>1 DEF Last
  <2> QED BY <2>1
<1>7. t = <<>> => Last(q) = "/"
  <2>1. ASSUME t = <<>>
        PROVE  Last(q) = "/"
    <3>1. n = 0
      BY <1>4, <2>1, EmptySeq
    <3> QED BY <1>1, <1>2, <3>1 DEF Last
  <2> QED BY <2>1
<1> QED BY <1>1, <1>3, <1>4, <1>5, <1>6, <1>7

(* What is put behind a part is put behind its tail.                       *)
LEMMA TailOfConcat ==
  ASSUME NEW q \in Slashed, NEW w \in Text, NEW t \in Slashed, t = q \o w
  PROVE  Tail(t) = Tail(q) \o w
<1>1. PICK u \in Text, v \in Text : u = Tail(q) /\ v = Tail(t)
  BY SlashedTail
<1>2. PICK s \in Text : s = <<"/">>
  <2>1. <<"/">> \in Text
    BY CharTokens DEF Text
  <2> QED BY <2>1
<1>3. q = s \o u /\ t = s \o v
  BY <1>1, <1>2, SlashedTail
<1>4. PICK x \in Text : x = u \o w
  BY ConcatProperties DEF Text
<1>5. s \o v = s \o x
  <2>1. (s \o u) \o w = s \o (u \o w)
    <3>1. s \in Seq(Characters) /\ u \in Seq(Characters) /\ w \in Seq(Characters)
      BY DEF Text
    <3> QED BY <3>1, ConcatAssociative
  <2> QED BY <1>3, <1>4, <2>1
<1>6. SubSeq(s \o v, Len(s) + 1, Len(s \o v)) = v
  BY ConcatPrefix DEF Text
<1>7. SubSeq(s \o x, Len(s) + 1, Len(s \o x)) = x
  BY ConcatPrefix DEF Text
<1> QED BY <1>1, <1>4, <1>5, <1>6, <1>7

(* What is put behind a text is its end.                                   *)
LEMMA LastOfConcat ==
  ASSUME NEW S, NEW a \in Seq(S), NEW b \in Seq(S), b # <<>>
  PROVE  a \o b # <<>> /\ Last(a \o b) = Last(b)
<1>1. PICK c : c = a \o b
  OBVIOUS
<1>2. PICK la \in Nat, lb \in Nat : la = Len(a) /\ lb = Len(b) /\ lb # 0
  BY EmptySeq
<1>3. /\ c \in Seq(S) /\ Len(c) = la + lb
      /\ \A i \in 1..(la + lb) : c[i] = IF i <= la THEN a[i] ELSE b[i - la]
  BY <1>1, <1>2, ConcatProperties
<1>4. la + lb \in 1..(la + lb) /\ ~ (la + lb <= la) /\ (la + lb) - la = lb
  BY <1>2
<1>5. c[la + lb] = b[lb]
  BY <1>3, <1>4
<1>6. c # <<>>
  BY <1>2, <1>3, EmptySeq
<1> QED BY <1>1, <1>2, <1>3, <1>5, <1>6 DEF Last

(* One part more is put behind what there is.                              *)
LEMMA SpelledMore ==
  ASSUME NEW parts \in Seq(Slashed), NEW q \in Slashed
  PROVE  /\ Spelled(parts) \in Text /\ Behind(parts, q) \in Text
         /\ Spelled(Append(parts, q)) = Spelled(parts) \o Behind(parts, q)
         /\ Append(parts, q) \in Seq(Slashed) /\ Last(Append(parts, q)) = q
         /\ Append(parts, q) # <<>>
         /\ parts = <<>> => Spelled(parts) = <<>> /\ Behind(parts, q) = q
<1>1. PICK n \in Nat : n = Len(parts)
  OBVIOUS
<1>2. PICK ps : ps = Append(parts, q)
  OBVIOUS
<1>3. /\ ps \in Seq(Slashed) /\ ps # <<>> /\ Len(ps) = n + 1
      /\ \A i \in 1..n : ps[i] = parts[i]
      /\ ps[n + 1] = q
  BY <1>1, <1>2, AppendProperties
<1>4. \A b \in Slashed : b \in Text /\ Tail(b) \in Text
  BY SlashedTail
<1>5. PICK f : f = Pieces(parts)
  OBVIOUS
<1>6. PICK g : g = Pieces(ps)
  OBVIOUS
<1>7. f \in [1..n -> Text]
  <2>1. \A i \in 1..n : parts[i] \in Slashed
    BY <1>1
  <2> QED BY <1>1, <1>4, <1>5, <2>1 DEF Pieces
<1>8. g \in [1..(n + 1) -> Text]
  <2>1. \A i \in 1..(n + 1) : ps[i] \in Slashed
    BY <1>3
  <2> QED BY <1>3, <1>4, <1>6, <2>1 DEF Pieces
<1>9. \A i \in 1..n : f[i] = g[i]
  <2>1. ASSUME NEW i \in 1..n
        PROVE  f[i] = g[i]
    <3>1. i \in 1..(n + 1) /\ ps[i] = parts[i] /\ (i > 1 => ps[i - 1] = parts[i - 1])
      BY <1>3
    <3> QED BY <1>1, <1>3, <1>5, <1>6, <3>1 DEF Pieces
  <2> QED BY <2>1
<1>10. g[n + 1] = Behind(parts, q)
  <2>1. n + 1 \in 1..(n + 1) /\ (n + 1) - 1 = n
    OBVIOUS
  <2>2. parts # <<>> <=> n + 1 > 1
    BY <1>1, EmptySeq
  <2>3. n + 1 > 1 => ps[n] = Last(parts)
    BY <1>1, <1>3 DEF Last
  <2>4. g[n + 1] = IF n + 1 > 1 /\ Last(ps[n]) = "/" THEN Tail(q) ELSE q
    BY <1>3, <1>6, <2>1 DEF Pieces
  <2> QED BY <2>2, <2>3, <2>4 DEF Behind
<1>11. FlattenSeq(g) = FlattenSeq(f) \o g[n + 1]
  BY <1>7, <1>8, <1>9, FlattenProlonged DEF Text
<1>12. FlattenSeq(f) \in Text
  <2>1. f \in Seq(Seq(Characters))
    BY <1>7, SeqDef DEF Text
  <2> QED BY <2>1, FlattenType DEF Text
<1>13. parts = <<>> => FlattenSeq(f) = <<>> /\ Behind(parts, q) = q
  <2>1. ASSUME parts = <<>>
        PROVE  FlattenSeq(f) = <<>>
    <3>1. n = 0
      BY <1>1, <2>1, EmptySeq
    <3>2. f \in [1..0 -> {}]
      BY <1>7, <3>1
    <3> QED BY <3>2, FlattenNone
  <2> QED BY <2>1 DEF Behind
<1>14. Behind(parts, q) \in Text
  BY <1>4 DEF Behind
<1>15. Last(ps) = q
  BY <1>3 DEF Last
<1> QED BY <1>2, <1>3, <1>5, <1>6, <1>10, <1>11, <1>12, <1>13, <1>14, <1>15 DEF Spelled

(* The end of what is spelled is the end of its last part.                 *)
LEMMA SpelledEnd ==
  ASSUME NEW parts \in Seq(Slashed), parts # <<>>
  PROVE  Spelled(parts) # <<>> /\ Last(Spelled(parts)) = Last(Last(parts))
<1> DEFINE EndsWell(ps) == Spelled(ps) # <<>> /\ Last(Spelled(ps)) = Last(Last(ps))
           N == {n \in Nat : \A ps \in Seq(Slashed) : Len(ps) = n /\ ps # <<>> => EndsWell(ps)}
<1>1. 0 \in N
  BY EmptySeq
<1>2. ASSUME NEW n \in Nat, n \in N
      PROVE  n + 1 \in N
  <2>1. ASSUME NEW ps \in Seq(Slashed), Len(ps) = n + 1, ps # <<>>
        PROVE  EndsWell(ps)
    <3>1. PICK front \in Seq(Slashed), q \in Slashed : ps = Append(front, q)
      BY <2>1, SequenceEmptyOrAppend
    <3>2. Len(front) = n
      <4>1. Len(ps) = Len(front) + 1 /\ Len(front) \in Nat
        BY <3>1, AppendProperties
      <4> QED BY <2>1, <4>1
    <3>3. /\ Spelled(front) \in Text /\ Behind(front, q) \in Text
          /\ Spelled(ps) = Spelled(front) \o Behind(front, q)
          /\ Last(ps) = q
      BY <3>1, SpelledMore
    <3>4. /\ q \in Text /\ q # <<>> /\ Tail(q) \in Text
          /\ Tail(q) # <<>> => Last(Tail(q)) = Last(q)
          /\ Tail(q) = <<>> => Last(q) = "/"
      BY SlashedTail
    <3>5. CASE Behind(front, q) # <<>>
      <4>1. Spelled(ps) # <<>> /\ Last(Spelled(ps)) = Last(Behind(front, q))
        BY <3>3, <3>5, LastOfConcat DEF Text
      <4>2. Last(Behind(front, q)) = Last(q)
        BY <3>4, <3>5 DEF Behind
      <4> QED BY <3>3, <4>1, <4>2
    <3>6. CASE Behind(front, q) = <<>>
      <4>1. front # <<>> /\ Last(Last(front)) = "/" /\ Last(q) = "/"
        BY <3>4, <3>6 DEF Behind
      <4>2. EndsWell(front)
        <5> HIDE DEF EndsWell
        <5> QED BY <1>2, <3>2, <4>1
      <4>3. Spelled(ps) = Spelled(front)
        BY <3>3, <3>6, ConcatEmptySeq DEF Text
      <4> QED BY <3>3, <4>1, <4>2, <4>3
    <3> QED BY <3>5, <3>6
  <2>2. n + 1 \in Nat
    OBVIOUS
  <2> HIDE DEF EndsWell
  <2> QED BY <2>1, <2>2
<1>3. Nat \subseteq N
  <2> HIDE DEF N
  <2> QED BY <1>1, <1>2, SetInduction
<1>4. Len(parts) \in N
  <2>1. Len(parts) \in Nat
    OBVIOUS
  <2> HIDE DEF N
  <2> QED BY <1>3, <2>1
<1>5. EndsWell(parts)
  <2> HIDE DEF EndsWell
  <2> QED BY <1>4
<1> QED BY <1>5

-----------------------------------------------------------------------------
(* What is left of a path                                                  *)

(* A slash is always left of it.                                           *)
LEMMA LeftSlash ==
  ASSUME NEW t \in Text
  PROVE  <<"/">> \in LeftOf(t) /\ t \in LeftOf(t)
<1>1. PICK n \in Nat : n = Len(t)
  BY DEF Text
<1>2. SubSeq(t, n + 1, n) = <<>>
  BY SubSeqEmpty
<1>3. <<"/">> \o <<>> = <<"/">>
  <2>1. <<"/">> \in Text
    BY CharTokens DEF Text
  <2> QED BY <2>1, ConcatEmptySeq DEF Text
<1>4. n + 1 \in 1..n + 1
  OBVIOUS
<1>5. <<"/">> \o SubSeq(t, n + 1, n) \in {<<"/">> \o SubSeq(t, i, Len(t)) : i \in 1..Len(t) + 1}
  BY <1>1, <1>4
<1> QED BY <1>2, <1>3, <1>5 DEF LeftOf

(* So is what follows a part of what was left, behind a slash.             *)
LEMMA LeftNext ==
  ASSUME NEW t \in Text, NEW a \in Text, a # <<>>, NEW w \in Text, a \o w \in LeftOf(t)
  PROVE  <<"/">> \o w \in LeftOf(t)
<1>1. PICK n \in Nat, la \in Nat, lw \in Nat : n = Len(t) /\ la = Len(a) /\ lw = Len(w) /\ la # 0
  BY EmptySeq DEF Text
<1>2. PICK q : q = a \o w
  OBVIOUS
<1>3. q \in Text /\ Len(q) = la + lw /\ \A j \in 1..lw : q[la + j] = w[j]
  <2>1. /\ q \in Seq(Characters) /\ Len(q) = la + lw
        /\ \A j \in 1..(la + lw) : q[j] = IF j <= la THEN a[j] ELSE w[j - la]
    BY <1>1, <1>2, ConcatProperties DEF Text
  <2>2. \A j \in 1..lw : la + j \in 1..(la + lw) /\ ~ (la + j <= la) /\ (la + j) - la = j
    OBVIOUS
  <2> QED BY <2>1, <2>2 DEF Text
<1>4. CASE q = t
  <2>1. IsPrefix(a, q) /\ SubSeq(q, la + 1, Len(q)) = w
    BY <1>1, <1>2, ConcatPrefix DEF Text
  <2>2. la + 1 \in 1..Len(t) + 1
    BY <1>1, <1>3, <1>4
  <2> QED BY <1>4, <2>1, <2>2 DEF LeftOf
<1>5. CASE q # t
  <2>1. PICK i \in 1..n + 1 : q = <<"/">> \o SubSeq(t, i, n)
    BY <1>1, <1>2, <1>5 DEF LeftOf
  <2>2. PICK u : u = SubSeq(t, i, n)
    OBVIOUS
  <2>3. u \in Text /\ Len(u) = (n - i) + 1 /\ \A j \in 1..((n - i) + 1) : u[j] = t[(i + j) - 1]
    <3>1. t \in Seq(Characters) /\ i \in Int /\ n \in Int /\ \A j \in i..n : t[j] \in Characters
      BY <1>1 DEF Text
    <3> QED BY <1>1, <2>2, <3>1 DEF Text
  <2>4. Len(q) = (n - i) + 2 /\ \A j \in 1..Len(u) : q[j + 1] = u[j]
    <3>1. <<"/">> \in Seq(Characters) /\ Len(<<"/">>) = 1
      BY CharTokens
    <3>2. /\ Len(q) = 1 + Len(u)
          /\ \A j \in 1..(1 + Len(u)) : q[j] = IF j <= 1 THEN <<"/">>[j] ELSE u[j - 1]
      BY <2>1, <2>2, <2>3, <3>1, ConcatProperties DEF Text
    <3>3. \A j \in 1..Len(u) : j + 1 \in 1..(1 + Len(u)) /\ ~ (j + 1 <= 1) /\ (j + 1) - 1 = j
      BY <2>3
    <3> QED BY <2>3, <3>2, <3>3
  <2>5. PICK k \in Nat : k = (i + la) - 1 /\ k \in 1..n + 1 /\ lw = (n - k) + 1
    <3>1. la + lw = (n - i) + 2
      BY <1>3, <2>4
    <3>2. /\ (i + la) - 1 \in Nat /\ (i + la) - 1 \in 1..n + 1
          /\ lw = (n - ((i + la) - 1)) + 1
      BY <1>1, <3>1
    <3> QED BY <3>2
  <2>6. PICK v : v = SubSeq(t, k, n)
    OBVIOUS
  <2>7. v \in Text /\ Len(v) = lw /\ \A j \in 1..lw : v[j] = t[(k + j) - 1]
    <3>1. t \in Seq(Characters) /\ k \in Int /\ n \in Int /\ \A j \in k..n : t[j] \in Characters
      BY <1>1, <2>5 DEF Text
    <3> QED BY <1>1, <2>5, <2>6, <3>1 DEF Text
  <2>8. ASSUME NEW j \in 1..lw
        PROVE  v[j] = w[j]
    <3>1. PICK x \in 1..Len(u) : x = (la + j) - 1
      <4>1. (la + j) - 1 \in 1..Len(u)
        BY <1>1, <2>3, <2>5
      <4> QED BY <4>1
    <3>2. w[j] = q[la + j] /\ la + j = x + 1
      BY <1>1, <1>3, <3>1
    <3>3. q[x + 1] = u[x]
      BY <2>4
    <3>4. u[x] = t[(i + x) - 1]
      BY <2>3, <3>1
    <3>5. (i + x) - 1 = (k + j) - 1
      BY <1>1, <2>5, <3>1
    <3> QED BY <2>7, <3>2, <3>3, <3>4, <3>5
  <2>9. v = w
    BY <1>1, <2>7, <2>8, SeqEqual DEF Text
  <2> QED BY <1>1, <2>5, <2>6, <2>9 DEF LeftOf
<1> QED BY <1>2, <1>4, <1>5

-----------------------------------------------------------------------------
(* The parts that were found                                               *)

(* A pattern that begins with a slash is filled to a part that does.       *)
LEMMA FillSlashed ==
  ASSUME NEW p \in Seq(Token), BeginsWithSlash(p), NEW vals \in Seq(Text), EnoughValues(p, vals)
  PROVE  Fill(p, vals) \in Slashed
<1>1. PICK r \in Text : Fill(p, vals) = <<"/">> \o r
  BY CharTokens, FillBegins DEF Token, Text
<1>2. PICK q : q = Fill(p, vals)
  OBVIOUS
<1>3. q \in Text
  BY <1>2, FillTyped DEF Token, Text
<1>4. Len(q) = 1 + Len(r) /\ q[1] = "/"
  <2>1. <<"/">> \in Seq(Characters) /\ Len(<<"/">>) = 1 /\ <<"/">>[1] = "/" /\ Len(r) \in Nat
    BY CharTokens DEF Text
  <2>2. /\ Len(q) = 1 + Len(r)
        /\ \A i \in 1..(1 + Len(r)) : q[i] = IF i <= 1 THEN <<"/">>[i] ELSE r[i - 1]
    BY <1>1, <1>2, <2>1, ConcatProperties DEF Text
  <2>3. 1 \in 1..(1 + Len(r))
    BY <2>1
  <2> QED BY <2>1, <2>2, <2>3
<1>5. q # <<>>
  <2>1. Len(r) \in Nat
    BY DEF Text
  <2> QED BY <1>4, <2>1
<1> QED BY <1>2, <1>3, <1>4, <1>5 DEF Slashed, BeginsWithSlash

(* There are as many parts as patterns, and each begins with a slash.      *)
LEMMA PartsTyped ==
  ASSUME Typed, Entries
  PROVE  Parts \in Seq(Slashed) /\ Len(Parts) = Len(trail)
<1>1. PICK n \in Nat : n = Len(trail)
  BY DEF Typed
<1>2. ASSUME NEW i \in 1..n
      PROVE  Fill(trail[i].pattern, Held(i)) \in Slashed
  <2>1. EntryFits(trail[i].pattern, trail[i].vals, Held(i), Shapes[i])
    BY <1>1, EntriesFit
  <2>2. BeginsWithSlash(trail[i].pattern)
    BY <1>1 DEF Entries, Acceptable
  <2>3. EnoughValues(trail[i].pattern, Held(i))
    <3>1. WildCount(trail[i].pattern, Len(trail[i].pattern)) \in Nat
      BY <2>1, CountStep DEF EntryFits
    <3> QED BY <2>1, <3>1 DEF EnoughValues, EntryFits
  <2> QED BY <2>1, <2>2, <2>3, FillSlashed DEF EntryFits
<1>3. PICK f : f = Parts
  OBVIOUS
<1>4. f \in [1..n -> Slashed]
  BY <1>1, <1>2, <1>3 DEF Parts
<1>5. f \in Seq(Slashed) /\ DOMAIN f = 1..n
  BY <1>4, SeqDef
<1> QED BY <1>1, <1>3, <1>5, LenProperties

(* The values that belong to a pattern are those at its place in the stack. *)
LEMMA PartsFilled ==
  ASSUME Typed, Entries, Stacked
  PROVE  FilledPatterns = Parts
<1>1. PICK n \in Nat : n = Len(trail)
  BY DEF Typed
<1> DEFINE before(i) == Len(FlattenSeq(SubSeq(Shapes, 1, i - 1)))
           vals(i) == SubSeq(rctx.urlParams.values, before(i) + 1, before(i) + Len(Shapes[i]))
<1>2. ASSUME NEW i \in 1..n
      PROVE  vals(i) = Held(i)
  <2>1. RestOver(Shapes, i, n, Key)
    BY <1>1, StackTypes DEF RestOver
  <2>2. AlignedAt(i, Key)
    <3>1. Key \in SUBSET Key
      OBVIOUS
    <3> QED BY <1>1, <2>1, <3>1, StacksAt
  <2>3. PICK a \in Seq(Key), b \in Seq(Text), t \in Seq(Text) :
          /\ rctx.urlParams.values = (b \o Held(i)) \o t
          /\ Len(a) = Len(b)
          /\ Len(a) = Len(FlattenSeq(FirstOf(Shapes, i - 1)))
    BY <2>2 DEF AlignedAt
  <2>4. SubSeq(Shapes, 1, i - 1) = FirstOf(Shapes, i - 1)
    <3>1. PICK f : f = Shapes
      OBVIOUS
    <3>2. f \in [1..n -> Seq(Key)]
      BY <1>1, <3>1, StackTypes
    <3>3. f \in Seq(Seq(Key)) /\ Len(f) = n
      BY <3>2, SeqDef
    <3>4. PICK m \in 0..n : m = i - 1
      OBVIOUS
    <3>5. PICK u : u = SubSeq(f, 1, m)
      OBVIOUS
    <3>6. u \in Seq(Seq(Key)) /\ Len(u) = m /\ \A j \in 1..m : u[j] = f[j]
      BY <3>3, <3>5
    <3>7. PICK v : v = FirstOf(f, m)
      OBVIOUS
    <3>8. v \in [1..m -> Seq(Key)] /\ \A j \in 1..m : v[j] = f[j]
      BY <3>2, <3>7 DEF FirstOf
    <3>9. v \in Seq(Seq(Key)) /\ Len(v) = m
      BY <3>8, SeqDef
    <3>10. u = v
      BY <3>6, <3>8, <3>9, SeqEqual
    <3> QED BY <3>1, <3>4, <3>5, <3>7, <3>10
  <2>5. PICK held \in Seq(Text) : held = Held(i) /\ Len(held) = Len(Shapes[i])
    BY <1>1, EntriesFit DEF EntryFits
  <2>6. PICK e : e = rctx.urlParams.values
    OBVIOUS
  <2>7. Between(b, held, t, e)
    BY <2>3, <2>5, <2>6, ConcatMiddle
  <2>8. SubSeq(e, Len(b) + 1, Len(b) + Len(held)) = held
    BY <2>7 DEF Between
  <2> QED BY <2>3, <2>4, <2>5, <2>6, <2>8
<1>3. \A i \in 1..n : rctx.routePatterns[i] = trail[i].pattern
  BY <1>1 DEF Stacked, Patterns
<1>4. FilledPatterns = [i \in 1..n |-> Fill(rctx.routePatterns[i], vals(i))]
  BY <1>1 DEF FilledPatterns
<1> HIDE DEF vals
<1> QED BY <1>1, <1>2, <1>3, <1>4 DEF Parts

(* So what is spelled is these parts put together.                         *)
LEMMA SpelledParts ==
  ASSUME Typed, Entries, Stacked
  PROVE  SpelledPath = Spelled(Parts)
BY PartsFilled DEF SpelledPath, Spelled, Pieces

(* The path that was asked for is a text, and is not empty.                *)
LEMMA AskedTyped ==
  ASSUME Typed, phase # "idle"
  PROVE  /\ Asked \in Text /\ Asked # <<>>
         /\ request.path \in Text
         /\ request.path # <<>> => Asked = Trimmed(request.path)
         /\ request.path = <<>> => Asked = <<"/">>
<1>1. PICK path \in Text : path = request.path
  BY RoutingAssumption DEF Typed, Text
<1>2. <<"/">> \in Text /\ <<"/">> # <<>>
  BY CharTokens DEF Text
<1>3. path # <<>> => Trimmed(path) \in Text /\ Trimmed(path) # <<>>
  <2>1. ASSUME Len(path) > 1
        PROVE  Front(path) \in Text /\ Front(path) # <<>>
    <3>1. path # <<>> /\ Len(path) \in Nat
      BY <2>1, EmptySeq DEF Text
    <3>2. Front(path) \in Text /\ Len(Front(path)) = Len(path) - 1
      BY <3>1, FrontLast DEF Text
    <3>3. Len(Front(path)) # 0
      BY <2>1, <3>1, <3>2
    <3> QED BY <3>2, <3>3, EmptySeq
  <2> QED BY <2>1 DEF Trimmed
<1> QED BY <1>1, <1>2, <1>3 DEF Asked, RootPath

(* A step that changes neither what was found nor whether the path has     *)
(* been shifted leaves what is said of it as it is.                        *)
LEMMA SameTrail ==
  ASSUME trail' = trail, end' = end, phase # "mounted", phase' # "mounted"
  PROVE  /\ Shapes' = Shapes /\ HeldValues' = HeldValues
         /\ Patterns' = Patterns /\ Parts' = Parts
         /\ IdDigits' = IdDigits
         /\ Entries => Entries'
<1>1. Shapes' = Shapes /\ Patterns' = Patterns
  BY DEF Shapes, Patterns
<1>2. \A i : Held(i)' = Held(i)
  BY DEF Held, Passed
<1>3. HeldValues' = HeldValues /\ Parts' = Parts
  BY <1>2 DEF HeldValues, Parts
<1>4. \A i : PassedOn(i)' <=> PassedOn(i)
  BY DEF PassedOn
<1>5. Entries => Entries'
  BY <1>4 DEF Entries
<1>6. InnermostValue("id")' = InnermostValue("id")
  BY <1>1, <1>4 DEF InnermostValue, SelectLastInSeq, SelectInSeq
<1>7. IdDigits' = IdDigits
  BY <1>6 DEF IdDigits, DigitsOf, IsDigit
<1> QED BY <1>1, <1>3, <1>5, <1>7

-----------------------------------------------------------------------------
(* The steps keep the invariant                                            *)

(* A request that has not been looked up has no parts yet.                 *)
LEMMA NothingFound ==
  ASSUME trail = <<>>
  PROVE  /\ Shapes = <<>> /\ HeldValues = <<>> /\ Patterns = <<>> /\ Parts = <<>>
         /\ Spelled(Parts) = <<>>
         /\ FlattenSeq(Shapes) = <<>> /\ FlattenSeq(HeldValues) = <<>>
         /\ \A q : Behind(Parts, q) = q
<1>1. Len(trail) = 0
  OBVIOUS
<1>2. Shapes = <<>> /\ HeldValues = <<>> /\ Patterns = <<>> /\ Parts = <<>>
  BY <1>1 DEF Shapes, HeldValues, Patterns, Parts
<1>3. Pieces(<<>>) = <<>>
  BY DEF Pieces
<1> QED BY <1>2, <1>3, FlattenEmpty DEF Spelled, Behind

(* The routing begins with nothing.                                        *)
LEMMA InitKeeps ==
  ASSUME Init
  PROVE  IInv
<1> USE DEF Init
<1>1. Typed
  <2>1. program \in Programs /\ \A m \in Muxes : Accepted(program[m])
    OBVIOUS
  <2>2. NewContext \in Context
    <3>1. <<>> \in Text /\ <<>> \in Seq(Key) /\ <<>> \in Seq(Text) /\ <<>> \in Seq(Seq(Token))
      BY EmptySeq DEF Text
    <3> QED BY <3>1 DEF NewContext, NoParams, Context, Parameters
  <2>3. -1 \in -1..LongLongMax /\ TopMux \in Muxes /\ trail \in Seq(Entry)
    BY RoutingAssumption, EmptySeq
  <2> QED BY <2>1, <2>2, <2>3 DEF Typed
<1>2. Phases
  BY DEF Phases
<1>3. Entries
  BY DEF Entries
<1>4. Stacked
  <2>1. FlattenSeq(Shapes) = <<>> /\ FlattenSeq(HeldValues) = <<>> /\ Patterns = <<>>
    BY NothingFound
  <2> QED BY <2>1 DEF Stacked, NewContext, NoParams
<1>5. WildcardsEmptied /\ PathSoFar /\ IdSoFar
  BY DEF WildcardsEmptied, PathSoFar, IdSoFar, IdAtEnd
<1> QED BY <1>1, <1>2, <1>3, <1>4, <1>5 DEF IInv

(* Before the trailing slash is cut off nothing is said of the path.       *)
LEMMA ReceiveKeeps ==
  ASSUME IInv, Receive
  PROVE  IInv'
<1> USE DEF Receive
<1>1. Typed'
  BY DEF IInv, Typed
<1>2. Phases'
  BY DEF IInv, Phases
<1>3. /\ Shapes' = Shapes /\ HeldValues' = HeldValues /\ Patterns' = Patterns /\ Entries'
  BY SameTrail DEF IInv
<1>4. Stacked'
  BY <1>3 DEF IInv, Stacked
<1>5. WildcardsEmptied' /\ PathSoFar'
  BY DEF IInv, Phases, WildcardsEmptied, PathSoFar
<1>6. IdSoFar'
  BY DEF IInv, Phases, IdSoFar, IdAtEnd
<1> QED BY <1>1, <1>2, <1>3, <1>4, <1>5, <1>6 DEF IInv

(* trim_trailing_slash leaves the path that is spelled afterwards.         *)
LEMMA TrimKeeps ==
  ASSUME IInv, TrimTrailingSlash
  PROVE  IInv'
<1>1. /\ phase = "trimming" /\ rctx = NewContext /\ rctx.routePath = <<>>
      /\ trail = <<>> /\ at = TopMux /\ status = 0 /\ id = -1
  BY DEF IInv, Phases, IdSoFar, NewContext, TrimTrailingSlash
<1>2. /\ UNCHANGED <<program, tree, request, at, end, id, status, trail>>
      /\ phase' \in {"logging", "thrown"}
  BY DEF TrimTrailingSlash
<1>3. /\ Asked \in Text /\ Asked # <<>>
      /\ request.path # <<>> => Asked = Trimmed(request.path)
      /\ request.path = <<>> => Asked = <<"/">>
  BY <1>1, AskedTyped DEF IInv
<1>4. rctx' = IF request.path = <<>> THEN rctx ELSE [rctx EXCEPT !.routePath = Asked]
  BY <1>1, <1>3 DEF TrimTrailingSlash
<1>5. rctx \in Context
  BY DEF IInv, Typed
<1>6. /\ rctx' \in Context
      /\ rctx'.urlParams = rctx.urlParams
      /\ rctx'.routeParams = rctx.routeParams
      /\ rctx'.routePatterns = rctx.routePatterns
  BY <1>3, <1>4, <1>5 DEF Context
<1>7. RoutePath' = Asked
  <2>1. CASE request.path = <<>>
    BY <1>1, <1>2, <1>3, <1>4, <2>1 DEF RoutePath
  <2>2. CASE request.path # <<>>
    <3>1. rctx'.routePath = Asked
      BY <1>4, <1>5, <2>2 DEF Context
    <3> QED BY <1>3, <3>1 DEF RoutePath
  <2> QED BY <2>1, <2>2
<1>8. Typed'
  BY <1>1, <1>2, <1>6 DEF IInv, Typed
<1>9. Phases'
  BY <1>1, <1>2 DEF IInv, Phases
<1>10. /\ Shapes' = Shapes /\ HeldValues' = HeldValues /\ Patterns' = Patterns /\ Entries'
       /\ Parts' = Parts /\ IdDigits' = IdDigits
  BY <1>1, <1>2, SameTrail DEF IInv
<1>11. Stacked'
  BY <1>2, <1>6, <1>10 DEF IInv, Stacked
<1>12. WildcardsEmptied'
  BY <1>2 DEF WildcardsEmptied
<1>13. PathSoFar'
  <2>1. Asked' = Asked /\ Spellings' = Spellings
    BY <1>2 DEF Asked, Spellings
  <2>2. Spelled(Parts) = <<>> /\ Behind(Parts, Asked) = Asked
    BY <1>1, NothingFound
  <2>3. <<>> \o Asked = Asked
    BY <1>3, ConcatEmptySeq DEF Text
  <2>4. Asked \in LeftOf(Asked) /\ Asked \in Spellings
    BY <1>3, LeftSlash DEF Spellings
  <2>5. Spelled(Parts)' = <<>> /\ Behind(Parts, RoutePath)' = Asked
    BY <1>7, <1>10, <2>2
  <2>6. /\ RoutePath' \in LeftOf(Asked)'
        /\ (Spelled(Parts) \o Behind(Parts, RoutePath))' \in Spellings'
    BY <1>7, <2>1, <2>3, <2>4, <2>5
  <2> QED BY <1>1, <1>2, <2>6 DEF PathSoFar
<1>14. IdSoFar'
  BY <1>1, <1>2 DEF IdSoFar, IdAtEnd
<1> QED BY <1>8, <1>9, <1>10, <1>11, <1>12, <1>13, <1>14 DEF IInv

(* logging hands the request on as it is.                                  *)
LEMMA LoggingKeeps ==
  ASSUME IInv, Logging
  PROVE  IInv'
<1> USE DEF Logging
<1>1. trail = <<>> /\ status = 0 /\ at = TopMux
  BY DEF IInv, Phases
<1>2. Typed'
  BY DEF IInv, Typed
<1>3. Phases'
  BY <1>1 DEF IInv, Phases
<1>4. /\ Shapes' = Shapes /\ HeldValues' = HeldValues /\ Patterns' = Patterns /\ Entries'
      /\ Parts' = Parts
  BY SameTrail DEF IInv
<1>5. Stacked'
  BY <1>4 DEF IInv, Stacked
<1>6. WildcardsEmptied'
  <2>1. rctx.urlParams.keys = <<>>
    BY <1>1, NothingFound DEF IInv, Stacked
  <2>2. Len(rctx'.urlParams.keys) = 0
    BY <2>1
  <2> QED BY <2>2 DEF WildcardsEmptied, StarsEmpty
<1>7. PathSoFar'
  <2>1. RoutePath' = RoutePath /\ Asked' = Asked /\ Spellings' = Spellings
    BY DEF RoutePath, Asked, Spellings
  <2>2. RoutePath \in LeftOf(Asked) /\ Spelled(Parts) \o Behind(Parts, RoutePath) \in Spellings
    BY DEF IInv, PathSoFar
  <2> QED BY <1>1, <1>4, <2>1, <2>2 DEF PathSoFar
<1>8. IdSoFar'
  BY DEF IInv, IdSoFar, IdAtEnd
<1> QED BY <1>2, <1>3, <1>4, <1>5, <1>6, <1>7, <1>8 DEF IInv

(* extract_id finds the number of the innermost id.                        *)
LEMMA ExtractKeeps ==
  ASSUME IInv, ExtractId
  PROVE  IInv'
<1> USE DEF ExtractId
<1>1. /\ trail # <<>> /\ end.sub = NoMux /\ end.extract /\ id = -1 /\ status = 0
      /\ Spelled(Parts) \in Spellings
  BY DEF IInv, Phases, IdSoFar, PathSoFar
<1>2. phase' \in {"handling", "done"}
  OBVIOUS
<1>3. PICK s \in Text : s = InnermostValue("id") /\ s = GetUrlParam(rctx, "id")
  <2>1. GetUrlParam(rctx, "id") = InnermostValue("id")
    BY InnermostIs DEF IInv
  <2>2. GetUrlParam(rctx, "id") \in Text
    <3>1. PICK values \in Seq(Text) : values = rctx.urlParams.values
      BY StacksSame DEF IInv
    <3>2. PICK l \in Nat : l = Len(rctx.urlParams.keys) /\ l = Len(values)
      BY <3>1, StacksSame DEF IInv
    <3> DEFINE T == {j \in 1..l : rctx.urlParams.keys[j] = "id"}
    <3>3. GetUrlParam(rctx, "id") = IF T # {} /\ Max(T) # 0 THEN values[Max(T)] ELSE <<>>
      <4>1. SelectLastInSubSeq(rctx.urlParams.keys, 1, l, LAMBDA k : k = "id") = IF T # {} THEN Max(T) ELSE 0
        BY DEF SelectLastInSubSeq
      <4> HIDE DEF T
      <4> QED BY <3>1, <3>2, <4>1 DEF GetUrlParam
    <3>4. T # {} => Max(T) \in 1..l
      <4>1. T \in SUBSET Nat /\ (\A j \in T : j <= l) /\ T \subseteq 1..l
        OBVIOUS
      <4> HIDE DEF T
      <4> QED BY <4>1, MaxIsGreatest
    <3> HIDE DEF T
    <3>5. <<>> \in Text
      BY EmptySeq DEF Text
    <3> QED BY <3>2, <3>3, <3>4, <3>5, ElementOfSeq
  <2> QED BY <2>1, <2>2
<1>4. PICK parsed : parsed = FromChars(s, DigitOf, LongLongMax)
  OBVIOUS
<1>5. /\ NumberOf(IdDigits, DigitOf) \in Nat
      /\ parsed.ok <=> IdValid
      /\ parsed.ok => parsed.number = NumberOf(IdDigits, DigitOf)
  BY <1>3, <1>4, FromCharsExact DEF IdDigits, IdValid
<1>6. \/ /\ IdValid /\ id' = NumberOf(IdDigits, DigitOf) /\ phase' = "handling" /\ status' = 0
      \/ /\ ~ IdValid /\ id' = -1 /\ phase' = "done" /\ status' = 400
  BY <1>1, <1>3, <1>4, <1>5
<1>7. id' \in -1..LongLongMax
  <2>1. LongLongMax \in Nat
    BY RoutingAssumption
  <2> QED BY <1>5, <1>6, <2>1 DEF IdValid
<1>8. Typed'
  BY <1>6, <1>7 DEF IInv, Typed
<1>9. Phases'
  BY <1>1, <1>6 DEF IInv, Phases
<1>10. /\ Shapes' = Shapes /\ HeldValues' = HeldValues /\ Patterns' = Patterns /\ Entries'
       /\ Parts' = Parts /\ IdDigits' = IdDigits
  BY <1>2, SameTrail DEF IInv
<1>11. Stacked'
  BY <1>2, <1>10 DEF IInv, Stacked
<1>12. WildcardsEmptied'
  BY <1>2 DEF WildcardsEmptied
<1>13. PathSoFar'
  <2>1. Spellings' = Spellings
    BY DEF Spellings, Asked
  <2> QED BY <1>1, <1>2, <1>10, <2>1 DEF PathSoFar
<1>14. IdSoFar'
  <2>1. IdValid' <=> IdValid
    BY <1>10 DEF IdValid
  <2>2. IdAtEnd'
    <3>1. phase' = "done" => status' = 400 /\ end'.extract /\ ~ IdValid' /\ id' = -1
      BY <1>1, <1>6, <2>1
    <3> QED BY <3>1 DEF IdAtEnd, IdValid, IdDigits
  <2> QED BY <1>1, <1>2, <1>6, <1>10, <2>1, <2>2 DEF IdSoFar
<1> QED BY <1>8, <1>9, <1>10, <1>11, <1>12, <1>13, <1>14 DEF IInv

(* The handler answers 200.                                                *)
LEMMA HandleKeeps ==
  ASSUME IInv, Handle
  PROVE  IInv'
<1> USE DEF Handle
<1>1. /\ trail # <<>> /\ end.sub = NoMux /\ status = 0
      /\ Spelled(Parts) \in Spellings
      /\ end.extract => IdValid
      /\ id = IF end.extract THEN NumberOf(IdDigits, DigitOf) ELSE -1
  BY DEF IInv, Phases, IdSoFar, PathSoFar
<1>2. Typed'
  BY DEF IInv, Typed
<1>3. Phases'
  BY <1>1 DEF IInv, Phases
<1>4. /\ Shapes' = Shapes /\ HeldValues' = HeldValues /\ Patterns' = Patterns /\ Entries'
      /\ Parts' = Parts /\ IdDigits' = IdDigits
  BY SameTrail DEF IInv
<1>5. Stacked'
  BY <1>4 DEF IInv, Stacked
<1>6. WildcardsEmptied'
  BY DEF WildcardsEmptied
<1>7. PathSoFar'
  <2>1. Spellings' = Spellings
    BY DEF Spellings, Asked
  <2> QED BY <1>1, <1>4, <2>1 DEF PathSoFar
<1>8. IdSoFar'
  <2>1. IdValid' <=> IdValid
    BY <1>4 DEF IdValid
  <2>2. IdAtEnd'
    <3>1. /\ status' = 200 /\ end' = end
          /\ end'.extract => IdValid'
          /\ id' = IF end'.extract THEN NumberOf(IdDigits', DigitOf) ELSE -1
      BY <1>1, <1>4, <2>1
    <3> QED BY <3>1 DEF IdAtEnd, IdValid, IdDigits
  <2> QED BY <2>2 DEF IdSoFar
<1> QED BY <1>2, <1>3, <1>4, <1>5, <1>6, <1>7, <1>8 DEF IInv

(* A path that leads nowhere is answered 404.                              *)
LEMMA MissKeeps ==
  ASSUME IInv, RouteHttp, ~ Lookup(at, request.method, RoutePath).hit
  PROVE  IInv'
<1>1. /\ phase = "routing" /\ status = 0 /\ id = -1 /\ (trail = <<>> \/ end.sub # NoMux)
      /\ at # TopMux => BeginsWithSlash(rctx.routePath)
  BY DEF IInv, Phases, IdSoFar, RouteHttp
<1>2. /\ UNCHANGED <<program, tree, request, at, end, id, trail>>
      /\ phase' = "done" /\ status' = 404
  BY DEF RouteHttp
<1>3. PICK hint \in BOOLEAN : rctx' = [rctx EXCEPT !.routeParams = NoParams, !.methodNotAllowed = hint]
  <2>1. rctx' = [rctx EXCEPT !.routeParams = NoParams,
                             !.methodNotAllowed = @ \/ Lookup(at, request.method, RoutePath).hint]
    BY DEF RouteHttp, FindRoute
  <2> QED BY <2>1
<1>4. /\ rctx' \in Context
      /\ rctx'.routePath = rctx.routePath /\ rctx'.urlParams = rctx.urlParams
      /\ rctx'.routePatterns = rctx.routePatterns /\ rctx'.routeParams = NoParams
  <2>1. NoParams \in Parameters
    BY EmptySeq DEF NoParams, Parameters
  <2>2. rctx \in Context
    BY DEF IInv, Typed
  <2> QED BY <1>3, <2>1, <2>2 DEF Context
<1>5. Typed'
  BY <1>1, <1>2, <1>4 DEF IInv, Typed
<1>6. Phases'
  BY <1>1, <1>2, <1>4 DEF Phases, BeginsWithSlash
<1>7. /\ Shapes' = Shapes /\ HeldValues' = HeldValues /\ Patterns' = Patterns /\ Entries'
  BY <1>1, <1>2, SameTrail DEF IInv
<1>8. Stacked'
  BY <1>2, <1>4, <1>7 DEF IInv, Stacked, NoParams
<1>9. WildcardsEmptied' /\ PathSoFar'
  BY <1>2 DEF WildcardsEmptied, PathSoFar
<1>10. IdSoFar'
  BY <1>1, <1>2 DEF IdSoFar, IdAtEnd
<1> QED BY <1>5, <1>6, <1>7, <1>8, <1>9, <1>10 DEF IInv

(* g goes one further than f, with x.                                      *)
Further(f, n, x, g) ==
  /\ g = [i \in 1..(n + 1) |-> g[i]]
  /\ \A i \in 1..n : g[i] = f[i]
  /\ g[n + 1] = x

(* A function that goes one further than another is it with one appended.  *)
LEMMA OneFurther ==
  ASSUME NEW S, NEW n \in Nat, NEW f \in [1..n -> S], NEW x \in S, NEW g, Further(f, n, x, g)
  PROVE  g = Append(f, x)
<1> USE DEF Further
<1>1. f \in Seq(S) /\ Len(f) = n
  BY SeqDef
<1> g \in [1..(n + 1) -> S]
  <2>1. ASSUME NEW i \in 1..(n + 1)
        PROVE  g[i] \in S
    <3>1. CASE i \in 1..n
      BY <3>1
    <3>2. CASE i = n + 1
      BY <3>2
    <3> QED BY <3>1, <3>2
  <2> QED BY <2>1
<1>2. g \in Seq(S) /\ Len(g) = n + 1
  BY SeqDef
<1>3. PICK h : h = Append(f, x)
  OBVIOUS
<1>4. /\ h \in Seq(S) /\ Len(h) = n + 1 /\ h[n + 1] = x
      /\ \A i \in 1..n : h[i] = f[i]
  BY <1>1, <1>3, AppendProperties
<1>5. \A i \in 1..(n + 1) : g[i] = h[i]
  BY <1>4
<1> QED BY <1>2, <1>3, <1>4, <1>5, SeqEqual

(* What was found adds a pattern, its keys, its values and a part.         *)
Grown(p, vals) ==
  /\ Shapes' = Append(Shapes, ParamKeys(p)) /\ HeldValues' = Append(HeldValues, vals)
  /\ Patterns' = Append(Patterns, p) /\ Parts' = Append(Parts, Fill(p, vals))

(* A step of the routing adds one element to each of these.                *)
LEMMA TrailGrows ==
  ASSUME Typed, Entries, phase = "routing", trail = <<>> \/ end.sub # NoMux,
         NEW p \in Seq(Token), NEW vals \in Seq(Text), BeginsWithSlash(p), ValuesFit(p, vals),
         trail' = Append(trail, [mux |-> at, pattern |-> p, vals |-> vals]),
         phase' = "mounted" \/ end'.sub = NoMux
  PROVE  Grown(p, vals)
<1>1. PICK n \in Nat : n = Len(trail)
  BY DEF Typed
<1>2. PICK x : x = [mux |-> at, pattern |-> p, vals |-> vals]
  OBVIOUS
<1>3. x \in Entry /\ x.pattern = p /\ x.vals = vals
  BY <1>2 DEF Entry, Typed
<1>4. /\ Len(trail') = n + 1 /\ trail'[n + 1] = x
      /\ \A i \in 1..n : trail'[i] = trail[i]
  BY <1>1, <1>2, <1>3, AppendProperties DEF Typed
<1>5. \A i \in 1..n : Passed(i)' /\ Passed(i)
  <2>1. n # 0 => end.sub # NoMux
    BY <1>1, EmptySeq DEF Typed
  <2> QED BY <1>1, <1>4, <2>1 DEF Passed
<1>6. ~ Passed(n + 1)'
  BY <1>4 DEF Passed
<1>7. \A i \in 1..n : Held(i)' = Held(i)
  BY <1>4, <1>5 DEF Held
<1>8. Held(n + 1)' = vals
  BY <1>3, <1>4, <1>6 DEF Held
<1>9. Shapes' = Append(Shapes, ParamKeys(p))
  <2>1. PICK f : f = Shapes
    OBVIOUS
  <2>2. PICK g : g = Shapes'
    OBVIOUS
  <2>3. f \in [1..n -> Seq(Key)]
    BY <1>1, <2>1, StackTypes
  <2>4. ParamKeys(p) \in Seq(Key)
    BY KeysTyped DEF Key, Token
  <2>5. \A i \in 1..n : g[i] = f[i]
    BY <1>1, <1>4, <2>1, <2>2 DEF Shapes
  <2>6. g[n + 1] = ParamKeys(p)
    BY <1>3, <1>4, <2>2 DEF Shapes
  <2>7. g = [i \in 1..(n + 1) |-> g[i]]
    BY <1>4, <2>2 DEF Shapes
  <2>8. Further(f, n, ParamKeys(p), g)
    BY <2>5, <2>6, <2>7 DEF Further
  <2>9. g = Append(f, ParamKeys(p))
    BY <2>3, <2>4, <2>8, OneFurther
  <2> QED BY <2>1, <2>2, <2>9
<1>10. HeldValues' = Append(HeldValues, vals)
  <2>1. PICK f : f = HeldValues
    OBVIOUS
  <2>2. PICK g : g = HeldValues'
    OBVIOUS
  <2>3. f \in [1..n -> Seq(Text)]
    BY <1>1, <2>1, StackTypes
  <2>5. \A i \in 1..n : g[i] = f[i]
    BY <1>1, <1>4, <1>7, <2>1, <2>2 DEF HeldValues
  <2>6. g[n + 1] = vals
    BY <1>4, <1>8, <2>2 DEF HeldValues
  <2>7. g = [i \in 1..(n + 1) |-> g[i]]
    BY <1>4, <2>2 DEF HeldValues
  <2>8. Further(f, n, vals, g)
    BY <2>5, <2>6, <2>7 DEF Further
  <2>9. g = Append(f, vals)
    BY <2>3, <2>8, OneFurther
  <2> QED BY <2>1, <2>2, <2>9
<1>11. Patterns' = Append(Patterns, p)
  <2>1. PICK f : f = Patterns
    OBVIOUS
  <2>2. PICK g : g = Patterns'
    OBVIOUS
  <2>3. f \in [1..n -> Seq(Token)]
    <3>1. ASSUME NEW i \in 1..n
          PROVE  trail[i].pattern \in Seq(Token)
      BY <1>1, EntriesFit DEF EntryFits
    <3> QED BY <1>1, <2>1, <3>1 DEF Patterns
  <2>5. \A i \in 1..n : g[i] = f[i]
    BY <1>1, <1>4, <2>1, <2>2 DEF Patterns
  <2>6. g[n + 1] = p
    BY <1>3, <1>4, <2>2 DEF Patterns
  <2>7. g = [i \in 1..(n + 1) |-> g[i]]
    BY <1>4, <2>2 DEF Patterns
  <2>8. Further(f, n, p, g)
    BY <2>5, <2>6, <2>7 DEF Further
  <2>9. g = Append(f, p)
    BY <2>3, <2>8, OneFurther
  <2> QED BY <2>1, <2>2, <2>9
<1>12. Parts' = Append(Parts, Fill(p, vals))
  <2>1. PICK f : f = Parts
    OBVIOUS
  <2>2. PICK g : g = Parts'
    OBVIOUS
  <2>3. f \in [1..n -> Slashed]
    BY <1>1, <2>1, PartsTyped, LenProperties
  <2>4. Fill(p, vals) \in Slashed
    <3>1. EnoughValues(p, vals)
      BY CountStep DEF EnoughValues, ValuesFit
    <3> QED BY <3>1, FillSlashed
  <2>5. \A i \in 1..n : g[i] = f[i]
    BY <1>1, <1>4, <1>7, <2>1, <2>2 DEF Parts
  <2>6. g[n + 1] = Fill(p, vals)
    BY <1>3, <1>4, <1>8, <2>2 DEF Parts
  <2>7. g = [i \in 1..(n + 1) |-> g[i]]
    BY <1>4, <2>2 DEF Parts
  <2>8. Further(f, n, Fill(p, vals), g)
    BY <2>5, <2>6, <2>7 DEF Further
  <2>9. g = Append(f, Fill(p, vals))
    BY <2>3, <2>4, <2>8, OneFurther
  <2> QED BY <2>1, <2>2, <2>9
<1> QED BY <1>9, <1>10, <1>11, <1>12 DEF Grown

(* What find_route adds to a context: the parameters of what it found.     *)
Added(p, vals) ==
  /\ rctx' \in Context
  /\ rctx'.routePath = rctx.routePath
  /\ rctx'.routeParams = [keys |-> ParamKeys(p), values |-> vals]
  /\ rctx'.urlParams.keys = rctx.urlParams.keys \o ParamKeys(p)
  /\ rctx'.urlParams.values = rctx.urlParams.values \o vals
  /\ rctx'.routePatterns = Append(rctx.routePatterns, p)

(* It adds them to both stacks, and nothing of the router before.          *)
LEMMA FindRouteAdds ==
  ASSUME rctx \in Context, NEW path, NEW found, found = Lookup(at, request.method, path),
         found.hit, found.pattern \in Seq(Token), found.vals \in Seq(Text),
         rctx' = FindRoute(rctx, at, request.method, path)
  PROVE  Added(found.pattern, found.vals)
<1>1. PICK hint \in BOOLEAN :
        rctx' = Found([rctx EXCEPT !.routeParams = NoParams, !.methodNotAllowed = hint], found)
  <2>1. rctx' = Found([rctx EXCEPT !.routeParams = NoParams,
                                   !.methodNotAllowed = @ \/ found.hint], found)
    BY DEF FindRoute
  <2> QED BY <2>1
<1>2. PICK keys \in Seq(Key) : keys = ParamKeys(found.pattern)
  BY KeysTyped DEF Key, Token
<1>3. PICK p \in Seq(Token), vals \in Seq(Text) : p = found.pattern /\ vals = found.vals
  OBVIOUS
<1>4. PICK params : params = [keys |-> keys, values |-> vals]
  OBVIOUS
<1>5. params \in Parameters /\ params.keys = keys /\ params.values = vals
  BY <1>4 DEF Parameters
<1>6. Joined(NoParams, params) = params
  <2>1. <<>> \o keys = keys /\ <<>> \o vals = vals
    BY ConcatEmptySeq
  <2> QED BY <1>4, <2>1 DEF Joined, NoParams
<1>7. PICK joined : joined = Joined(rctx.urlParams, params)
  OBVIOUS
<1>8. /\ joined \in Parameters
      /\ joined.keys = rctx.urlParams.keys \o keys
      /\ joined.values = rctx.urlParams.values \o vals
  <2>1. rctx.urlParams.keys \in Seq(Key) /\ rctx.urlParams.values \in Seq(Text)
    BY DEF Context, Parameters
  <2>2. /\ rctx.urlParams.keys \o keys \in Seq(Key)
        /\ rctx.urlParams.values \o vals \in Seq(Text)
    BY <2>1, ConcatProperties
  <2> QED BY <1>5, <1>7, <2>2 DEF Joined, Parameters
<1>9. PICK patterns : patterns = Append(rctx.routePatterns, p)
  OBVIOUS
<1>10. patterns \in Seq(Seq(Token))
  BY <1>9, AppendProperties DEF Context
<1>11. PICK ctx : ctx = [rctx EXCEPT !.routeParams = NoParams, !.methodNotAllowed = hint]
  OBVIOUS
<1>12. /\ ctx \in Context
       /\ ctx.routePath = rctx.routePath /\ ctx.routeParams = NoParams
       /\ ctx.urlParams = rctx.urlParams /\ ctx.routePatterns = rctx.routePatterns
  <2>1. NoParams \in Parameters
    BY EmptySeq DEF NoParams, Parameters
  <2> QED BY <1>11, <2>1 DEF Context
<1>13. rctx' = [ctx EXCEPT !.routeParams = params, !.urlParams = joined,
                           !.routePatterns = patterns]
  <2>1. [keys |-> ParamKeys(found.pattern), values |-> found.vals] = params
    BY <1>2, <1>3, <1>4
  <2>2. /\ Joined(ctx.routeParams, params) = params
        /\ Joined(ctx.urlParams, params) = joined
        /\ Append(ctx.routePatterns, found.pattern) = patterns
    BY <1>3, <1>6, <1>7, <1>9, <1>12
  <2>3. rctx' = Found(ctx, found)
    BY <1>1, <1>11
  <2> QED BY <2>1, <2>2, <2>3 DEF Found
<1>14. /\ rctx' \in Context
       /\ rctx'.routePath = rctx.routePath /\ rctx'.routeParams = params
       /\ rctx'.urlParams = joined /\ rctx'.routePatterns = patterns
  BY <1>5, <1>8, <1>10, <1>12, <1>13 DEF Context
<1> QED BY <1>2, <1>3, <1>4, <1>8, <1>9, <1>14 DEF Added

(* A handler that was found has all that is left of the path.              *)
LEMMA HitKeeps ==
  ASSUME IInv, RouteHttp, Lookup(at, request.method, RoutePath).hit
  PROVE  IInv'
<1>1. /\ phase = "routing" /\ status = 0 /\ id = -1 /\ (trail = <<>> \/ end.sub # NoMux)
      /\ at # TopMux => BeginsWithSlash(rctx.routePath)
      /\ StarsEmpty(Len(rctx.urlParams.keys))
  BY DEF IInv, Phases, IdSoFar, WildcardsEmptied, RouteHttp
<1>2. RoutePath \in LeftOf(Asked) /\ Spelled(Parts) \o Behind(Parts, RoutePath) \in Spellings
  BY <1>1 DEF IInv, PathSoFar
<1>3. Typed /\ Entries /\ Stacked
  BY DEF IInv
<1>4. PICK found : found = Lookup(at, request.method, RoutePath)
  OBVIOUS
<1>5. PICK p, vals, e : /\ p = found.pattern /\ vals = found.vals
                        /\ e = EndpointAt(at, request.method, found.pattern)
  OBVIOUS
<1>6. Finds(found, e, RoutePath)
  BY <1>1, <1>2, <1>3, <1>4, <1>5, LookupFinds
<1>7. /\ p \in Seq(Token) /\ vals \in Seq(Text) /\ e \in Registration
      /\ Acceptable(p) /\ BeginsWithSlash(p) /\ ValuesFit(p, vals) /\ Fill(p, vals) = RoutePath
      /\ e.sub # NoMux => Connects(p)
  BY <1>5, <1>6 DEF Finds, Acceptable
<1>8. /\ UNCHANGED <<program, tree, request, at, id, status>>
      /\ end' = e
      /\ trail' = Append(trail, [mux |-> at, pattern |-> p, vals |-> vals])
      /\ phase' = IF e.sub # NoMux THEN "mounted"
                  ELSE IF e.extract THEN "extracting" ELSE "handling"
      /\ rctx' = FindRoute(rctx, at, request.method, RoutePath)
  BY <1>4, <1>5 DEF RouteHttp
<1>9. phase' = "mounted" \/ end'.sub = NoMux
  BY <1>8
<1>10. Added(p, vals)
  BY <1>3, <1>4, <1>5, <1>7, <1>8, FindRouteAdds DEF Typed
<1>11. Grown(p, vals)
  BY <1>1, <1>3, <1>7, <1>8, <1>9, TrailGrows
<1>12. PICK n \in Nat : n = Len(trail)
  BY <1>3 DEF Typed
<1>13. PICK x : x = [mux |-> at, pattern |-> p, vals |-> vals]
  OBVIOUS
<1>14. x \in Entry /\ x.pattern = p /\ x.vals = vals
  BY <1>3, <1>7, <1>13 DEF Entry, Typed
<1>15. /\ trail' \in Seq(Entry) /\ Len(trail') = n + 1 /\ trail'[n + 1] = x
       /\ \A i \in 1..n : trail'[i] = trail[i]
       /\ trail' # <<>> /\ Last(trail') = x
  <2>1. trail \in Seq(Entry)
    BY <1>3 DEF Typed
  <2>2. /\ trail' \in Seq(Entry) /\ Len(trail') = n + 1 /\ trail'[n + 1] = x
        /\ \A i \in 1..n : trail'[i] = trail[i]
    BY <1>8, <1>12, <1>13, <1>14, <2>1, AppendProperties
  <2> QED BY <2>2, EmptySeq DEF Last
<1>16. Typed'
  BY <1>1, <1>3, <1>7, <1>8, <1>10, <1>15 DEF Typed, Added
<1>17. Phases'
  BY <1>1, <1>8, <1>10, <1>15 DEF Phases, Added, BeginsWithSlash
<1>18. Entries'
  <2>1. ASSUME NEW i \in 1..n
        PROVE  /\ Acceptable(trail[i].pattern)
               /\ ValuesFit(trail[i].pattern, trail[i].vals)
               /\ Connects(trail[i].pattern)
    <3>1. trail # <<>>
      BY <1>12, EmptySeq
    <3>2. PassedOn(i)
      BY <1>1, <3>1 DEF PassedOn
    <3> QED BY <1>3, <1>12, <3>2 DEF Entries
  <2>2. PassedOn(n + 1)' => e.sub # NoMux
    BY <1>8, <1>15 DEF PassedOn
  <2>3. ASSUME NEW i \in 1..(n + 1)
        PROVE  /\ Acceptable(trail'[i].pattern)
               /\ ValuesFit(trail'[i].pattern, trail'[i].vals)
               /\ PassedOn(i)' => Connects(trail'[i].pattern)
    <3>1. CASE i \in 1..n
      BY <1>15, <2>1, <3>1
    <3>2. CASE i = n + 1
      BY <1>7, <1>14, <1>15, <2>2, <3>2
    <3> QED BY <3>1, <3>2
  <2> QED BY <1>15, <2>3 DEF Entries
<1>19. PICK keys \in Seq(Key) : keys = ParamKeys(p) /\ Len(keys) = Len(vals)
  BY <1>7, KeysTyped DEF Key, Token, ValuesFit
<1>20. Stacked'
  <2>1. FlattenSeq(Shapes)' = FlattenSeq(Shapes) \o keys
    <3>1. Shapes \in Seq(Seq(Key))
      BY <1>3, <1>12, StackTypes, SeqDef
    <3>2. Shapes' = Append(Shapes, keys)
      BY <1>11, <1>19 DEF Grown
    <3> QED BY <3>1, <3>2, FlattenAppend
  <2>2. FlattenSeq(HeldValues)' = FlattenSeq(HeldValues) \o vals
    <3>1. HeldValues \in Seq(Seq(Text))
      BY <1>3, <1>12, StackTypes, SeqDef
    <3>2. HeldValues' = Append(HeldValues, vals)
      BY <1>11 DEF Grown
    <3> QED BY <1>7, <3>1, <3>2, FlattenAppend
  <2>3. rctx.urlParams.keys = FlattenSeq(Shapes) /\ rctx.urlParams.values = FlattenSeq(HeldValues)
        /\ rctx.routePatterns = Patterns
    BY <1>3 DEF Stacked
  <2>4. Patterns' = Append(Patterns, p)
    BY <1>11 DEF Grown
  <2>5. Last(trail').pattern = p /\ Last(trail').vals = vals
    BY <1>14, <1>15
  <2> QED BY <1>10, <1>19, <2>1, <2>2, <2>3, <2>4, <2>5 DEF Stacked, Added
<1>21. WildcardsEmptied'
  <2>1. PICK ks \in Seq(Key), vs \in Seq(Text) :
          ks = rctx.urlParams.keys /\ vs = rctx.urlParams.values /\ Len(ks) = Len(vs)
    BY <1>3, StacksSame
  <2>2. PICK l \in Nat : l = Len(ks) /\ l = Len(vs)
    BY <2>1
  <2>3. \A k \in 1..l : ks[k] = "*" => vs[k] = <<>>
    BY <1>1, <2>1, <2>2 DEF StarsEmpty
  <2>4. PICK kk, vv : kk = ks \o keys /\ vv = vs \o vals
    OBVIOUS
  <2>5. Len(kk) = l + Len(keys) /\ \A k \in 1..l : kk[k] = ks[k] /\ vv[k] = vs[k]
    <3>1. PICK m \in Nat : m = Len(keys) /\ m = Len(vals)
      BY <1>19
    <3>2. Len(kk) = Len(ks) + Len(keys) /\ \A k \in 1..(Len(ks) + Len(keys)) :
            kk[k] = IF k <= Len(ks) THEN ks[k] ELSE keys[k - Len(ks)]
      BY <2>4, ConcatProperties
    <3>3. \A k \in 1..(l + m) : vv[k] = IF k <= l THEN vs[k] ELSE vals[k - l]
      BY <1>7, <2>2, <2>4, <3>1, ConcatProperties
    <3>4. Len(ks) = l /\ Len(keys) = m
      BY <2>2, <3>1
    <3>5. ASSUME NEW k \in 1..l
          PROVE  kk[k] = ks[k] /\ vv[k] = vs[k]
      <4>1. k \in 1..(l + m) /\ k <= l
        BY <3>1
      <4> QED BY <3>2, <3>3, <3>4, <4>1
    <3> QED BY <3>2, <3>4, <3>5
  <2>6. rctx'.urlParams.keys = kk /\ rctx'.urlParams.values = vv /\ rctx'.routeParams.keys = keys
    BY <1>10, <1>19, <2>1, <2>4 DEF Added
  <2>7. Len(rctx'.urlParams.keys) - Len(rctx'.routeParams.keys) = l
    BY <2>5, <2>6
  <2>8. StarsEmpty(l)'
    BY <2>3, <2>5, <2>6 DEF StarsEmpty
  <2>9. phase' # "routing"
    BY <1>8
  <2> QED BY <2>7, <2>8, <2>9 DEF WildcardsEmptied
<1>22. PathSoFar'
  <2>1. Asked' = Asked /\ Spellings' = Spellings /\ RoutePath' = RoutePath
    BY <1>8, <1>10 DEF Asked, Spellings, RoutePath, Added
  <2>2. RoutePath \in Slashed
    <3>1. EnoughValues(p, vals)
      BY <1>7, CountStep DEF EnoughValues, ValuesFit
    <3> QED BY <1>7, <3>1, FillSlashed
  <2>3. Parts' = Append(Parts, RoutePath)
    BY <1>7, <1>11 DEF Grown
  <2>4. Spelled(Parts)' \in Spellings
    <3>1. Parts \in Seq(Slashed)
      BY <1>3, PartsTyped
    <3>2. Spelled(Append(Parts, RoutePath)) = Spelled(Parts) \o Behind(Parts, RoutePath)
      BY <2>2, <3>1, SpelledMore
    <3> QED BY <1>2, <2>3, <3>2
  <2>5. Last(trail').pattern = p /\ Last(trail').vals = vals
    BY <1>14, <1>15
  <2>6. RoutePath' \in LeftOf(Asked)' /\ RoutePath' = Fill(Last(trail').pattern, Last(trail').vals)
    BY <1>2, <1>7, <2>1, <2>5
  <2>7. phase' \notin {"logging", "routing"}
    BY <1>8
  <2> QED BY <2>1, <2>4, <2>6, <2>7 DEF PathSoFar
<1>23. IdSoFar'
  BY <1>1, <1>8 DEF IdSoFar, IdAtEnd
<1> QED BY <1>16, <1>17, <1>18, <1>20, <1>21, <1>22, <1>23 DEF IInv

(* The stacks when the function of a mount is called: what its pattern     *)
(* took is on top of them.                                                 *)
Mounted(m, p, vals, a, b) ==
  /\ m \in Nat /\ Len(trail) = m + 1 /\ end.sub # NoMux
  /\ trail[m + 1].pattern = p /\ trail[m + 1].vals = vals /\ Last(trail) = trail[m + 1]
  /\ EntryFits(p, vals, vals, ParamKeys(p))
  /\ BeginsWithSlash(p) /\ Connects(p)
  /\ rctx.routeParams = [keys |-> ParamKeys(p), values |-> vals]
  /\ rctx.urlParams.keys = a \o ParamKeys(p) /\ rctx.urlParams.values = b \o vals
  /\ a \in Seq(Key) /\ b \in Seq(Text) /\ Len(a) = Len(b)
  /\ b = FlattenSeq(FirstOf(HeldValues, m))
  /\ \A k \in 1..Len(a) : a[k] = "*" => b[k] = <<>>

(* Where a sub-router is entered the wildcard was the last pattern.        *)
LEMMA AtMount ==
  ASSUME IInv, phase = "mounted"
  PROVE  \E m, p, vals, a, b : Mounted(m, p, vals, a, b)
<1>1. /\ Typed /\ Entries /\ Stacked /\ trail # <<>> /\ end.sub # NoMux
      /\ StarsEmpty(Len(rctx.urlParams.keys) - Len(rctx.routeParams.keys))
  BY DEF IInv, Phases, WildcardsEmptied
<1>2. PICK m \in Nat : Len(trail) = m + 1
  <2>1. Len(trail) \in Nat /\ Len(trail) # 0
    BY <1>1, EmptySeq DEF Typed
  <2>2. Len(trail) - 1 \in Nat /\ Len(trail) = (Len(trail) - 1) + 1
    BY <2>1
  <2> QED BY <2>2
<1>3. PICK i \in 1..Len(trail) : i = m + 1
  BY <1>2
<1>4. PICK p, vals : p = trail[m + 1].pattern /\ vals = trail[m + 1].vals
  OBVIOUS
<1>5. Last(trail) = trail[m + 1]
  BY <1>2 DEF Last
<1>6. Held(i) = vals
  BY <1>2, <1>3, <1>4 DEF Held, Passed
<1>7. EntryFits(p, vals, vals, ParamKeys(p))
  <2>1. EntryFits(trail[i].pattern, trail[i].vals, Held(i), Shapes[i])
    BY <1>1, EntriesFit
  <2> QED BY <1>3, <1>4, <1>6, <2>1 DEF EntryFits
<1>8. BeginsWithSlash(p) /\ Connects(p)
  <2>1. PassedOn(i)
    BY <1>1 DEF PassedOn
  <2> QED BY <1>1, <1>3, <1>4, <2>1 DEF Entries, Acceptable
<1>9. rctx.routeParams = [keys |-> ParamKeys(p), values |-> vals]
  BY <1>1, <1>4, <1>5 DEF Stacked
<1>10. PICK f, g : f = Shapes /\ g = HeldValues
  OBVIOUS
<1>11. /\ f \in [1..(m + 1) -> Seq(Key)] /\ g \in [1..(m + 1) -> Seq(Text)]
       /\ SameLengths(f, g, m + 1) /\ f[m + 1] = ParamKeys(p) /\ g[m + 1] = vals
  <2>1. f[m + 1] = ParamKeys(p) /\ g[m + 1] = vals
    BY <1>3, <1>4, <1>6, <1>10 DEF Shapes, HeldValues
  <2> QED BY <1>1, <1>2, <1>10, <2>1, StackTypes
<1>12. m \in 0..(m + 1) /\ m + 1 \in 1..(m + 1) /\ m + 1 \in 0..(m + 1) /\ m + 1 \in Nat
       /\ (m + 1) - 1 = m
  OBVIOUS
<1>13. PICK a, b : a = FlattenSeq(FirstOf(f, m)) /\ b = FlattenSeq(FirstOf(g, m))
  OBVIOUS
<1>14. a \in Seq(Key) /\ b \in Seq(Text)
  BY <1>11, <1>12, <1>13, FirstOfType
<1>15. Len(a) = Len(b)
  <2>1. EquallyLong(f, g, m)
    BY <1>11, <1>12, FlattenLengths
  <2> QED BY <1>13, <2>1 DEF EquallyLong
<1>16. rctx.urlParams.keys = a \o ParamKeys(p) /\ rctx.urlParams.values = b \o vals
  <2>1. FirstOf(f, m + 1) = f /\ FirstOf(g, m + 1) = g
    BY <1>11, <1>12, FirstOfType
  <2>2. FlattenSeq(FirstOf(f, m + 1)) = FlattenSeq(FirstOf(f, m)) \o f[m + 1]
    BY <1>11, <1>12, FirstOfMore
  <2>3. FlattenSeq(FirstOf(g, m + 1)) = FlattenSeq(FirstOf(g, m)) \o g[m + 1]
    BY <1>11, <1>12, FirstOfMore
  <2> QED BY <1>1, <1>10, <1>11, <1>13, <2>1, <2>2, <2>3 DEF Stacked
<1>17. \A k \in 1..Len(a) : a[k] = "*" => b[k] = <<>>
  <2>1. PICK keys \in Seq(Key) : keys = ParamKeys(p) /\ Len(keys) = Len(vals) /\ vals \in Seq(Text)
    BY <1>7 DEF EntryFits
  <2>2. PICK l \in Nat, lk \in Nat : l = Len(a) /\ lk = Len(keys)
    BY <1>14
  <2>3. PICK kk, vv : kk = a \o keys /\ vv = b \o vals
    OBVIOUS
  <2>4. Len(kk) = Len(a) + Len(keys) /\ \A k \in 1..(Len(a) + Len(keys)) :
          kk[k] = IF k <= Len(a) THEN a[k] ELSE keys[k - Len(a)]
    BY <1>14, <2>3, ConcatProperties
  <2>5. \A k \in 1..(Len(b) + Len(vals)) :
          vv[k] = IF k <= Len(b) THEN b[k] ELSE vals[k - Len(b)]
    BY <1>14, <2>1, <2>3, ConcatProperties
  <2>6. Len(rctx.urlParams.keys) - Len(rctx.routeParams.keys) = l
    BY <1>9, <1>16, <2>1, <2>2, <2>3, <2>4
  <2>7. \A k \in 1..l : kk[k] = "*" => vv[k] = <<>>
    BY <1>1, <1>16, <2>1, <2>3, <2>6 DEF StarsEmpty
  <2>8. ASSUME NEW k \in 1..l
        PROVE  kk[k] = a[k] /\ vv[k] = b[k]
    <3>1. k \in 1..(l + lk) /\ k <= l
      BY <2>2
    <3> QED BY <1>15, <2>1, <2>2, <2>4, <2>5, <3>1
  <2> QED BY <2>2, <2>7, <2>8
<1>18. Mounted(m, p, vals, a, b)
  BY <1>1, <1>2, <1>4, <1>5, <1>7, <1>8, <1>9, <1>10, <1>13, <1>14, <1>15, <1>16, <1>17 DEF Mounted
<1> QED BY <1>18

(* What mount's function leaves for the sub-router.                        *)
Shifts ==
  /\ rctx'.routePath \in LeftOf(Asked) /\ rctx'.routePath \in Slashed
  /\ rctx'.urlParams.values \in Seq(Text)
  /\ rctx'.urlParams.values = FlattenSeq(HeldValues)'
  /\ StarsEmpty(Len(rctx.urlParams.keys))'
  /\ (Spelled(Parts) \o Behind(Parts, rctx.routePath))' \in Spellings

(* What the function does to the context.                                  *)
LEMMA ShiftedFields ==
  ASSUME rctx \in Context, rctx' = Shifted(rctx)
  PROVE  LET K == Len(rctx.urlParams.keys)
         IN  /\ rctx'.routePath = NextRoutePath(rctx)
             /\ rctx'.urlParams.keys = rctx.urlParams.keys
             /\ rctx'.routePatterns = rctx.routePatterns
             /\ rctx'.routeParams = rctx.routeParams
             /\ rctx'.urlParams.values =
                  IF K > 0 /\ rctx.urlParams.keys[K] = "*" /\ K <= Len(rctx.urlParams.values)
                  THEN [rctx.urlParams.values EXCEPT ![K] = <<>>] ELSE rctx.urlParams.values
             /\ rctx' = [rctx EXCEPT !.routePath = NextRoutePath(rctx),
                                     !.urlParams = [keys |-> rctx.urlParams.keys,
                                                    values |-> rctx'.urlParams.values]]
<1>1. PICK K, q, params : /\ K = Len(rctx.urlParams.keys) /\ q = NextRoutePath(rctx)
                          /\ params = rctx.urlParams
  OBVIOUS
<1>2. PICK values :
        values = IF K > 0 /\ params.keys[K] = "*" /\ K <= Len(params.values)
                 THEN [params.values EXCEPT ![K] = <<>>] ELSE params.values
  OBVIOUS
<1>3. rctx' = [rctx EXCEPT !.routePath = q, !.urlParams.values = values]
  BY <1>1, <1>2 DEF Shifted
<1>4. [params EXCEPT !.values = values] = [keys |-> params.keys, values |-> values]
  BY <1>1 DEF Context, Parameters
<1>5. rctx' = [rctx EXCEPT !.routePath = q, !.urlParams = [keys |-> params.keys, values |-> values]]
  BY <1>1, <1>3, <1>4 DEF Context
<1>6. /\ rctx'.routePath = q /\ rctx'.urlParams = [keys |-> params.keys, values |-> values]
      /\ rctx'.routePatterns = rctx.routePatterns /\ rctx'.routeParams = rctx.routeParams
  BY <1>5 DEF Context
<1>7. rctx'.urlParams.keys = params.keys /\ rctx'.urlParams.values = values
  BY <1>6
<1>8. rctx' = [rctx EXCEPT !.routePath = q,
                          !.urlParams = [keys |-> params.keys, values |-> rctx'.urlParams.values]]
  BY <1>5, <1>7
<1> QED BY <1>1, <1>2, <1>6, <1>7, <1>8

(* Only the values of the mount itself are held differently then.          *)
LEMMA HeldAfter ==
  ASSUME NEW m, NEW p, NEW vals, NEW a, NEW b, Mounted(m, p, vals, a, b),
         phase = "mounted", phase' # "mounted", UNCHANGED <<trail, end>>
  PROVE  /\ \A i \in 1..m : Held(i)' = Held(i)
         /\ Held(m + 1) = vals
         /\ Held(m + 1)' = IF IsWildcard(p) THEN Emptied(vals) ELSE vals
<1>1. \A i \in 1..m : Passed(i) /\ Passed(i)'
  BY DEF Mounted, Passed
<1>2. ~ Passed(m + 1) /\ Passed(m + 1)'
  BY DEF Mounted, Passed
<1> QED BY <1>1, <1>2 DEF Held, Mounted

(* Behind a mount without a wildcard the sub-router gets a slash.          *)
LEMMA ShiftPlain ==
  ASSUME IInv, phase = "mounted", rctx' = Shifted(rctx), UNCHANGED <<request, trail, end>>,
         phase' \in {"routing", "done"},
         NEW m, NEW p, NEW vals, NEW a, NEW b, Mounted(m, p, vals, a, b), ~ IsWildcard(p)
  PROVE  Shifts
<1>1. Typed /\ Entries /\ Stacked /\ rctx \in Context
  BY DEF IInv, Typed
<1>2. PICK keys \in Seq(Key) : keys = ParamKeys(p) /\ Len(keys) = Len(vals) /\ vals \in Seq(Text)
  BY DEF Mounted, EntryFits
<1>3. \A k \in 1..Len(keys) : keys[k] # "*"
  <2>1. p \in Seq(Token) /\ p # <<>> /\ Connects(p)
    BY DEF Mounted, EntryFits
  <2> QED BY <1>2, <2>1, ConnectedStar
<1>4. PICK l \in Nat, lk \in Nat : l = Len(a) /\ lk = Len(keys)
  BY DEF Mounted
<1>5. PICK kk, vv : kk = a \o keys /\ vv = b \o vals
  OBVIOUS
<1>6. a \in Seq(Key) /\ b \in Seq(Text) /\ Len(b) = l /\ Len(vals) = lk
      /\ \A k \in 1..l : a[k] = "*" => b[k] = <<>>
  BY <1>2, <1>4 DEF Mounted
<1>7. /\ kk \in Seq(Key) /\ Len(kk) = l + lk
      /\ \A k \in 1..(l + lk) : kk[k] = IF k <= l THEN a[k] ELSE keys[k - l]
  <2>1. kk \in Seq(Key) /\ Len(kk) = Len(a) + Len(keys) /\ \A k \in 1..(Len(a) + Len(keys)) :
          kk[k] = IF k <= Len(a) THEN a[k] ELSE keys[k - Len(a)]
    BY <1>5, <1>6, ConcatProperties
  <2> QED BY <1>4, <2>1
<1>8. /\ vv \in Seq(Text) /\ Len(vv) = l + lk
      /\ \A k \in 1..(l + lk) : vv[k] = IF k <= l THEN b[k] ELSE vals[k - l]
  <2>1. vv \in Seq(Text) /\ Len(vv) = Len(b) + Len(vals) /\ \A k \in 1..(Len(b) + Len(vals)) :
          vv[k] = IF k <= Len(b) THEN b[k] ELSE vals[k - Len(b)]
    BY <1>2, <1>5, <1>6, ConcatProperties
  <2> QED BY <1>6, <2>1
<1>9. rctx.urlParams.keys = kk /\ rctx.urlParams.values = vv
  BY <1>2, <1>5 DEF Mounted
<1>10. \A k \in 1..(l + lk) : kk[k] = "*" => vv[k] = <<>>
  <2>1. ASSUME NEW k \in 1..(l + lk), kk[k] = "*"
        PROVE  vv[k] = <<>>
    <3>1. k <= l
      <4>1. CASE k > l
        <5>1. k - l \in 1..lk /\ ~ (k <= l)
          BY <4>1
        <5> QED BY <1>3, <1>4, <1>7, <2>1, <5>1
      <4> QED BY <4>1
    <3>2. k \in 1..l
      BY <3>1
    <3> QED BY <1>6, <1>7, <1>8, <2>1, <3>1, <3>2
  <2> QED BY <2>1
<1>11. rctx'.urlParams.keys = kk /\ rctx'.urlParams.values = vv
  <2>1. rctx'.urlParams.keys = kk
        /\ rctx'.urlParams.values = IF l + lk > 0 /\ kk[l + lk] = "*" /\ l + lk <= Len(vv)
                                    THEN [vv EXCEPT ![l + lk] = <<>>] ELSE vv
    BY <1>1, <1>7, <1>9, ShiftedFields
  <2>2. l + lk > 0 /\ kk[l + lk] = "*" => [vv EXCEPT ![l + lk] = <<>>] = vv
    <3>1. ASSUME l + lk > 0, kk[l + lk] = "*"
          PROVE  [vv EXCEPT ![l + lk] = <<>>] = vv
      <4>1. PICK k \in 1..(l + lk) : k = l + lk
        BY <3>1
      <4>2. vv[k] = <<>>
        BY <1>10, <3>1, <4>1
      <4>3. [vv EXCEPT ![k] = vv[k]] = vv
        BY <1>8
      <4> QED BY <4>1, <4>2, <4>3
    <3> QED BY <3>1
  <2> QED BY <2>1, <2>2
<1>12. rctx'.routePath = <<"/">>
  <2>1. rctx.routeParams.keys = keys /\ rctx.routeParams.values = vals
    BY <1>2 DEF Mounted
  <2>2. NextRoutePath(rctx) = <<"/">>
    <3>1. ~ (lk > 0 /\ keys[lk] = "*")
      BY <1>3, <1>4
    <3> QED BY <1>4, <2>1, <3>1 DEF NextRoutePath
  <2> QED BY <1>1, <2>2, ShiftedFields
<1>13. HeldValues' = HeldValues /\ Parts' = Parts
  <2>1. \A i \in 1..m : Held(i)' = Held(i)
    BY HeldAfter
  <2>2. Held(m + 1)' = Held(m + 1)
    BY HeldAfter
  <2>3. \A i \in 1..(m + 1) : Held(i)' = Held(i)
    <3>1. m \in Nat
      BY DEF Mounted
    <3>2. \A i \in 1..(m + 1) : i \in 1..m \/ i = m + 1
      BY <3>1
    <3> QED BY <2>1, <2>2, <3>2
  <2>4. Len(trail) = m + 1
    BY DEF Mounted
  <2> QED BY <2>3, <2>4 DEF HeldValues, Parts
<1>14. vv = FlattenSeq(HeldValues)'
  BY <1>1, <1>9, <1>13 DEF Stacked
<1>15. Asked \in Text /\ <<"/">> \in LeftOf(Asked)
  BY <1>1, AskedTyped, LeftSlash
<1>16. <<"/">> \in Text /\ <<"/">> \in Slashed /\ Tail(<<"/">>) = <<>>
  BY CharTokens DEF Slashed, BeginsWithSlash, Text
<1>17. Spelled(Parts) \in Spellings
  BY DEF IInv, PathSoFar
<1>18. Parts \in Seq(Slashed) /\ Parts # <<>>
  <2>1. Parts \in Seq(Slashed) /\ Len(Parts) = Len(trail)
    BY <1>1, PartsTyped
  <2>2. Len(Parts) # 0
    BY <2>1 DEF Mounted
  <2> QED BY <2>1, <2>2, EmptySeq
<1>19. Spelled(Parts) \o Behind(Parts, <<"/">>) \in Spellings
  <2>1. PICK s : s = Spelled(Parts)
    OBVIOUS
  <2>2. s \in Text /\ s # <<>> /\ Last(s) = Last(Last(Parts))
    BY <1>16, <1>18, <2>1, SpelledMore, SpelledEnd
  <2>3. CASE Last(s) = "/"
    <3>1. Behind(Parts, <<"/">>) = <<>>
      BY <1>16, <1>18, <2>2, <2>3 DEF Behind
    <3> QED BY <1>17, <2>1, <2>2, <3>1, ConcatEmptySeq DEF Text
  <2>4. CASE Last(s) # "/"
    <3>1. Behind(Parts, <<"/">>) = <<"/">>
      BY <2>2, <2>4 DEF Behind
    <3>2. Last(Asked \o <<"/">>) = "/"
      BY <1>15, CharTokens, FrontLastOfConcat DEF Text
    <3>3. s = Asked
      BY <1>17, <2>1, <2>4, <3>2 DEF Spellings
    <3> QED BY <2>1, <2>4, <3>1, <3>3 DEF Spellings
  <2> QED BY <2>3, <2>4
<1>20. StarsEmpty(Len(rctx.urlParams.keys))'
  BY <1>7, <1>10, <1>11 DEF StarsEmpty
<1> QED BY <1>8, <1>11, <1>12, <1>13, <1>14, <1>15, <1>16, <1>19, <1>20 DEF Shifts

(* A wildcard behind a slash: without its value the pattern is filled to   *)
(* what is in front of that value, and ends with the slash.                *)
Splits(p, vals) ==
  /\ Emptied(vals) \in Seq(Text)
  /\ Fill(p, vals) = Fill(p, Emptied(vals)) \o Last(vals)
  /\ Fill(p, Emptied(vals)) \in Slashed /\ Last(Fill(p, Emptied(vals))) = "/"

(* Such a pattern splits where its wildcard begins.                        *)
LEMMA WildcardSplits ==
  ASSUME NEW p \in Seq(Token), NEW vals \in Seq(Text), p # <<>>, BeginsWithSlash(p),
         ValuesFit(p, vals), IsWildcard(p), Connects(p)
  PROVE  Splits(p, vals)
<1>1. PICK q \in Seq(Token) : q = Front(p) /\ q # <<>> /\ Last(q) = "/"
  BY FrontLast DEF Connects
<1>2. PICK l \in Nat : l = WildCount(q, Len(q)) /\ WildCount(p, Len(p)) = l + 1 /\ Len(vals) = l + 1
  <2>1. Len(ParamKeys(p)) = WildCount(p, Len(p)) /\ Len(ParamKeys(q)) = WildCount(q, Len(q))
    BY KeysTyped DEF Token
  <2>2. Len(ParamKeys(p)) = Len(ParamKeys(q)) + 1
    BY <1>1, WildcardKeys
  <2>3. WildCount(q, Len(q)) \in Nat
    BY CountStep
  <2> QED BY <2>1, <2>2, <2>3 DEF ValuesFit
<1>3. PICK es : es = Emptied(vals)
  OBVIOUS
<1>4. es \in Seq(Text) /\ Len(es) = l + 1 /\ \A i \in 1..(l + 1) : es[i] = IF i = l + 1 THEN <<>> ELSE vals[i]
  <2>1. <<>> \in Text
    BY EmptySeq DEF Text
  <2>2. es = [vals EXCEPT ![l + 1] = <<>>]
    BY <1>2, <1>3 DEF Emptied
  <2> QED BY <1>2, <2>1, <2>2, ExceptSeq
<1>5. EnoughValues(p, vals) /\ EnoughValues(p, es) /\ EnoughValues(q, es)
  BY <1>2, <1>4 DEF EnoughValues
<1>13. Wild("*")
  BY DEF Wild, TypeOf
<1>6. Fill(p, vals) = Fill(q, vals) \o vals[l + 1]
  <2>1. Fill(p, vals) = Fill(Front(p), vals) \o LastPart(p, vals)
    BY <1>5, FillLast DEF Token, Text
  <2>2. LastPart(p, vals) = vals[l + 1]
    BY <1>2, <1>13 DEF LastPart, IsWildcard
  <2> QED BY <1>1, <2>1, <2>2
<1>7. Fill(p, es) = Fill(q, es) \o <<>>
  <2>1. Fill(p, es) = Fill(Front(p), es) \o LastPart(p, es)
    BY <1>4, <1>5, FillLast DEF Token, Text
  <2>2. LastPart(p, es) = es[l + 1]
    BY <1>2, <1>13 DEF LastPart, IsWildcard
  <2>3. es[l + 1] = <<>>
    BY <1>4
  <2> QED BY <1>1, <2>1, <2>2, <2>3
<1>8. Fill(q, vals) = Fill(q, es)
  <2>1. Agree(vals, es, WildCount(q, Len(q)))
    BY <1>2, <1>4 DEF Agree
  <2> QED BY <2>1, FillAgrees DEF Token
<1>9. Fill(q, es) \in Text /\ Last(Fill(q, es)) = "/"
  BY <1>1, <1>4, <1>5, CharTokens, FillTyped, FillEnds DEF Token, Text
<1>10. Fill(p, es) = Fill(q, es)
  BY <1>7, <1>9, ConcatEmptySeq DEF Text
<1>11. Fill(p, es) \in Slashed
  BY <1>4, <1>5, FillSlashed
<1>12. Last(vals) = vals[l + 1]
  BY <1>2 DEF Last
<1> QED BY <1>3, <1>4, <1>6, <1>8, <1>9, <1>10, <1>11, <1>12 DEF Splits

(* Behind a wildcard the sub-router gets what it took, which is no more on *)
(* the stack then.                                                         *)
LEMMA ShiftWildcard ==
  ASSUME IInv, phase = "mounted", rctx' = Shifted(rctx), UNCHANGED <<request, trail, end>>,
         phase' \in {"routing", "done"},
         NEW m, NEW p, NEW vals, NEW a, NEW b, Mounted(m, p, vals, a, b), IsWildcard(p)
  PROVE  Shifts
<1>1. Typed /\ Entries /\ Stacked /\ rctx \in Context
  BY DEF IInv, Typed
<1>2. PICK keys \in Seq(Key) : keys = ParamKeys(p) /\ Len(keys) = Len(vals) /\ vals \in Seq(Text)
  BY DEF Mounted, EntryFits
<1>3. p \in Seq(Token) /\ p # <<>> /\ BeginsWithSlash(p) /\ Connects(p) /\ ValuesFit(p, vals)
  BY DEF Mounted, EntryFits, ValuesFit
<1>4. PICK l \in Nat, lk \in Nat : l = Len(a) /\ lk = Len(keys)
  BY DEF Mounted
<1>5. lk > 0 /\ keys[lk] = "*" /\ \A k \in 1..lk : keys[k] = "*" => k = lk
  <2>1. lk > 0 /\ keys[lk] = "*"
    BY <1>2, <1>4 DEF Mounted, EntryFits
  <2>2. \A k \in 1..lk : keys[k] = "*" => k = lk
    BY <1>2, <1>3, <1>4, ConnectedStar
  <2> QED BY <2>1, <2>2
<1>6. PICK kk, vv : kk = a \o keys /\ vv = b \o vals
  OBVIOUS
<1>7. PICK es : es = Emptied(vals)
  OBVIOUS
<1>8. a \in Seq(Key) /\ b \in Seq(Text) /\ Len(b) = l /\ Len(vals) = lk
      /\ \A k \in 1..l : a[k] = "*" => b[k] = <<>>
  BY <1>2, <1>4 DEF Mounted
<1>9. es \in Seq(Text) /\ Len(es) = lk /\ \A k \in 1..lk : es[k] = IF k = lk THEN <<>> ELSE vals[k]
  <2>1. <<>> \in Text
    BY EmptySeq DEF Text
  <2>2. es = [vals EXCEPT ![lk] = <<>>]
    BY <1>7, <1>8 DEF Emptied
  <2> QED BY <1>2, <1>5, <1>8, <2>1, <2>2, ExceptSeq
<1>10. /\ kk \in Seq(Key) /\ Len(kk) = l + lk
       /\ \A k \in 1..(l + lk) : kk[k] = IF k <= l THEN a[k] ELSE keys[k - l]
  <2>1. kk \in Seq(Key) /\ Len(kk) = Len(a) + Len(keys) /\ \A k \in 1..(Len(a) + Len(keys)) :
          kk[k] = IF k <= Len(a) THEN a[k] ELSE keys[k - Len(a)]
    BY <1>6, <1>8, ConcatProperties
  <2> QED BY <1>4, <2>1
<1>11. /\ vv \in Seq(Text) /\ Len(vv) = l + lk
       /\ \A k \in 1..(l + lk) : vv[k] = IF k <= l THEN b[k] ELSE vals[k - l]
  <2>1. vv \in Seq(Text) /\ Len(vv) = Len(b) + Len(vals) /\ \A k \in 1..(Len(b) + Len(vals)) :
          vv[k] = IF k <= Len(b) THEN b[k] ELSE vals[k - Len(b)]
    BY <1>2, <1>6, <1>8, ConcatProperties
  <2> QED BY <1>8, <2>1
<1>12. PICK ww : ww = b \o es
  OBVIOUS
<1>13. /\ ww \in Seq(Text) /\ Len(ww) = l + lk
       /\ \A k \in 1..(l + lk) : ww[k] = IF k <= l THEN b[k] ELSE es[k - l]
  <2>1. ww \in Seq(Text) /\ Len(ww) = Len(b) + Len(es) /\ \A k \in 1..(Len(b) + Len(es)) :
          ww[k] = IF k <= Len(b) THEN b[k] ELSE es[k - Len(b)]
    BY <1>8, <1>9, <1>12, ConcatProperties
  <2> QED BY <1>8, <1>9, <2>1
<1>14. PICK top \in 1..(l + lk) : top = l + lk /\ ~ (top <= l) /\ top - l = lk
  BY <1>5
<1>15. [vv EXCEPT ![top] = <<>>] = ww
  <2>1. PICK xx : xx = [vv EXCEPT ![top] = <<>>]
    OBVIOUS
  <2>2. <<>> \in Text
    BY EmptySeq DEF Text
  <2>3. /\ xx \in Seq(Text) /\ Len(xx) = l + lk
        /\ \A k \in 1..(l + lk) : xx[k] = IF k = top THEN <<>> ELSE vv[k]
    BY <1>11, <2>1, <2>2, ExceptSeq
  <2>4. ASSUME NEW k \in 1..(l + lk)
        PROVE  xx[k] = ww[k]
    <3>1. CASE k <= l
      BY <1>11, <1>13, <1>14, <2>3, <3>1
    <3>2. CASE k > l
      <4>1. PICK j \in 1..lk : j = k - l
        BY <3>2
      <4>2. ww[k] = es[j] /\ vv[k] = vals[j]
        BY <1>11, <1>13, <3>2, <4>1
      <4>3. j = lk <=> k = top
        BY <1>14, <4>1
      <4> QED BY <1>9, <2>3, <4>2, <4>3
    <3> QED BY <3>1, <3>2
  <2> QED BY <1>13, <2>1, <2>3, <2>4, SeqEqual
<1>16. rctx.urlParams.keys = kk /\ rctx.urlParams.values = vv
  BY <1>2, <1>6 DEF Mounted
<1>17. rctx'.urlParams.keys = kk /\ rctx'.urlParams.values = ww
  <2>1. kk[top] = "*"
    BY <1>5, <1>10, <1>14
  <2>2. rctx'.urlParams.keys = kk
        /\ rctx'.urlParams.values = IF l + lk > 0 /\ kk[l + lk] = "*" /\ l + lk <= Len(vv)
                                    THEN [vv EXCEPT ![l + lk] = <<>>] ELSE vv
    BY <1>1, <1>10, <1>16, ShiftedFields
  <2> QED BY <1>11, <1>14, <1>15, <2>1, <2>2
<1>18. PICK w \in Text : w = vals[lk] /\ w = Last(vals)
  BY <1>2, <1>5, <1>8, ElementOfSeq DEF Last
<1>19. rctx'.routePath = <<"/">> \o w
  <2>1. rctx.routeParams.keys = keys /\ rctx.routeParams.values = vals
    BY <1>2 DEF Mounted
  <2>2. NextRoutePath(rctx) = <<"/">> \o w
    <3>1. lk = Len(keys) /\ lk > 0 /\ keys[lk] = "*" /\ lk <= Len(vals) /\ vals[lk] = w
      BY <1>4, <1>5, <1>8, <1>18
    <3> QED BY <2>1, <3>1 DEF NextRoutePath
  <2> QED BY <1>1, <2>2, ShiftedFields
<1>20. StarsEmpty(Len(rctx.urlParams.keys))'
  <2>1. ASSUME NEW k \in 1..(l + lk), kk[k] = "*"
        PROVE  ww[k] = <<>>
    <3>1. CASE k <= l
      <4>1. k \in 1..l
        BY <3>1
      <4> QED BY <1>8, <1>10, <1>13, <2>1, <3>1, <4>1
    <3>2. CASE k > l
      <4>1. PICK j \in 1..lk : j = k - l
        BY <3>2
      <4>2. ww[k] = es[j] /\ kk[k] = keys[j]
        BY <1>10, <1>13, <3>2, <4>1
      <4> QED BY <1>5, <1>9, <2>1, <4>2
    <3> QED BY <3>1, <3>2
  <2> QED BY <1>10, <1>17, <2>1 DEF StarsEmpty
<1>21. /\ \A i \in 1..m : Held(i)' = Held(i)
       /\ Held(m + 1) = vals /\ Held(m + 1)' = es
       /\ m \in Nat /\ Len(trail) = m + 1
  <2>1. m \in Nat /\ Len(trail) = m + 1
    BY DEF Mounted
  <2> QED BY <1>7, <2>1, HeldAfter
<1>22. ww = FlattenSeq(HeldValues)'
  <2>1. PICK g, h : g = HeldValues /\ h = HeldValues'
    OBVIOUS
  <2>2. /\ \A i \in 1..m : h[i] = g[i]
        /\ h[m + 1] = es /\ h = [i \in 1..(m + 1) |-> h[i]]
    BY <1>21, <2>1 DEF HeldValues
  <2>3. PICK f : f = FirstOf(g, m)
    OBVIOUS
  <2>4. f \in [1..m -> Seq(Text)] /\ \A i \in 1..m : f[i] = g[i]
    BY <1>1, <1>21, <2>1, <2>3, StackTypes DEF FirstOf
  <2>5. h \in [1..(m + 1) -> Seq(Text)]
    <3>1. ASSUME NEW i \in 1..(m + 1)
          PROVE  h[i] \in Seq(Text)
      <4>1. i \in 1..m \/ i = m + 1
        BY <1>21
      <4> QED BY <1>9, <2>2, <2>4, <4>1
    <3> QED BY <2>2, <3>1
  <2>6. FlattenSeq(h) = FlattenSeq(f) \o h[m + 1]
    <3>1. \A i \in 1..m : f[i] = h[i]
      BY <2>2, <2>4
    <3> QED BY <1>21, <2>4, <2>5, <3>1, FlattenProlonged
  <2>7. b = FlattenSeq(f)
    BY <2>1, <2>3 DEF Mounted
  <2> QED BY <1>12, <2>1, <2>2, <2>6, <2>7
<1>23. PICK q \in Slashed : q = Fill(p, es) /\ Fill(p, vals) = q \o w /\ Last(q) = "/"
  <2>1. Splits(p, vals)
    BY <1>2, <1>3, WildcardSplits
  <2> QED BY <1>7, <1>18, <2>1 DEF Splits
<1>24. PICK r \in Text : r = <<"/">> \o w
  <2>1. <<"/">> \in Text
    BY CharTokens DEF Text
  <2> QED BY <2>1, ConcatProperties DEF Text
<1>25. r \in Slashed /\ Tail(r) = w
  <2>1. <<"/">> \in Text /\ Len(<<"/">>) = 1 /\ <<"/">>[1] = "/"
    BY CharTokens DEF Text
  <2>2. Len(r) = 1 + Len(w) /\ r[1] = "/" /\ r # <<>>
    BY <1>24, <2>1, ConcatProperties DEF Text
  <2>3. r \in Slashed
    BY <2>2 DEF Slashed, BeginsWithSlash
  <2> QED BY <1>24, <2>1, <2>3, SlashedTail, ConcatPrefix DEF Text
<1>26. r \in LeftOf(Asked)
  <2>1. RoutePath \in LeftOf(Asked) /\ RoutePath = Fill(p, vals)
    BY DEF IInv, PathSoFar, Mounted
  <2>2. Asked \in Text
    BY <1>1, AskedTyped
  <2>3. q \in Text /\ q # <<>>
    BY SlashedTail
  <2> QED BY <1>23, <1>24, <2>1, <2>2, <2>3, LeftNext
<1>27. (Spelled(Parts) \o Behind(Parts, rctx.routePath))' \in Spellings
  <2>1. PICK front : front = FirstOf(Parts, m)
    OBVIOUS
  <2>2. front \in [1..m -> Slashed] /\ front \in Seq(Slashed)
    <3>1. PICK f \in Seq(Slashed) : f = Parts /\ Len(f) = m + 1
      BY <1>1, <1>21, PartsTyped
    <3>2. \A i \in 1..m : f[i] \in Slashed
      BY <1>21, <3>1
    <3>3. front \in [1..m -> Slashed]
      BY <2>1, <3>1, <3>2 DEF FirstOf
    <3> QED BY <1>21, <3>3, SeqDef
  <2>3. PICK t \in Slashed : t = Fill(p, vals)
    <3>1. EnoughValues(p, vals)
      BY <1>2, <1>3, CountStep DEF EnoughValues, ValuesFit
    <3> QED BY <1>2, <1>3, <3>1, FillSlashed
  <2>4. Parts = Append(front, t)
    <3>1. PICK f : f = Parts
      OBVIOUS
    <3>2. f[m + 1] = t
      BY <1>21, <2>3, <3>1 DEF Parts, Mounted
    <3>3. f = [i \in 1..(m + 1) |-> f[i]]
      BY <1>21, <3>1 DEF Parts
    <3>4. Further(front, m, t, f)
      BY <2>1, <3>1, <3>2, <3>3 DEF Further, FirstOf
    <3> QED BY <1>21, <2>2, <3>1, <3>4, OneFurther
  <2>5. Parts' = Append(front, q)
    <3>1. PICK f : f = Parts'
      OBVIOUS
    <3>2. f[m + 1] = q
      BY <1>21, <1>23, <3>1 DEF Parts, Mounted
    <3>3. f = [i \in 1..(m + 1) |-> f[i]]
      BY <1>21, <3>1 DEF Parts
    <3>4. \A i \in 1..m : f[i] = Parts[i]
      BY <1>21, <3>1 DEF Parts
    <3>5. Further(front, m, q, f)
      BY <2>1, <3>2, <3>3, <3>4 DEF Further, FirstOf
    <3> QED BY <1>21, <2>2, <3>1, <3>5, OneFurther
  <2>6. /\ Spelled(Parts) = Spelled(front) \o Behind(front, t)
        /\ Spelled(Parts)' = Spelled(front) \o Behind(front, q)
        /\ Parts' # <<>> /\ Last(Parts') = q
        /\ Spelled(front) \in Text /\ Behind(front, q) \in Text
    BY <2>2, <2>4, <2>5, SpelledMore
  <2>7. Behind(Parts', r) = w
    BY <1>23, <1>25, <2>6 DEF Behind
  <2>8. Behind(front, t) = Behind(front, q) \o w
    <3>1. t = q \o w
      BY <1>23, <2>3
    <3>2. Tail(t) = Tail(q) \o w
      BY <3>1, TailOfConcat
    <3>3. CASE front # <<>> /\ Last(Last(front)) = "/"
      <4>1. Behind(front, t) = Tail(t) /\ Behind(front, q) = Tail(q)
        BY <3>3 DEF Behind
      <4> QED BY <3>2, <4>1
    <3>4. CASE ~ (front # <<>> /\ Last(Last(front)) = "/")
      <4>1. Behind(front, t) = t /\ Behind(front, q) = q
        BY <3>4 DEF Behind
      <4> QED BY <3>1, <4>1
    <3> QED BY <3>3, <3>4
  <2>9. (Spelled(front) \o Behind(front, q)) \o w = Spelled(front) \o (Behind(front, q) \o w)
    <3>1. PICK c \in Text, d \in Text : c = Spelled(front) /\ d = Behind(front, q)
      BY <2>6
    <3>2. c \in Seq(Characters) /\ d \in Seq(Characters) /\ w \in Seq(Characters)
      BY DEF Text
    <3>3. (c \o d) \o w = c \o (d \o w)
      BY <3>2, ConcatAssociative
    <3> QED BY <3>1, <3>3
  <2>10. Spelled(Parts) \in Spellings
    BY DEF IInv, PathSoFar
  <2>11. (Spelled(Parts) \o Behind(Parts, rctx.routePath))' = Spelled(Parts)' \o Behind(Parts', r)
    BY <1>19, <1>24
  <2> QED BY <2>6, <2>7, <2>8, <2>9, <2>10, <2>11
<1> QED BY <1>13, <1>17, <1>19, <1>20, <1>22, <1>24, <1>25, <1>26, <1>27 DEF Shifts

(* The sub-router is given what the mount has not taken of the path.       *)
LEMMA EnterKeeps ==
  ASSUME IInv, EnterSubrouter
  PROVE  IInv'
<1>1. /\ phase = "mounted" /\ status = 0 /\ id = -1 /\ trail # <<>> /\ end.sub # NoMux
      /\ rctx \in Context /\ Typed /\ Entries /\ Stacked
  BY DEF IInv, Typed, Phases, IdSoFar, EnterSubrouter
<1>2. /\ UNCHANGED <<program, tree, request, end, id, trail>>
      /\ rctx' = Shifted(rctx) /\ at' = end.sub
      /\ \/ phase' = "routing" /\ status' = 0
         \/ phase' = "done" /\ status' = 404
  BY <1>1 DEF EnterSubrouter
<1>3. phase' \in {"routing", "done"}
  BY <1>2
<1>4. Shifts
  <2>1. PICK m, p, vals, a, b : Mounted(m, p, vals, a, b)
    BY <1>1, AtMount
  <2>2. CASE IsWildcard(p)
    BY <1>1, <1>2, <1>3, <2>1, <2>2, ShiftWildcard
  <2>3. CASE ~ IsWildcard(p)
    BY <1>1, <1>2, <1>3, <2>1, <2>3, ShiftPlain
  <2> QED BY <2>2, <2>3
<1>5. /\ rctx'.routePath = NextRoutePath(rctx)
      /\ rctx'.urlParams.keys = rctx.urlParams.keys
      /\ rctx'.routePatterns = rctx.routePatterns /\ rctx'.routeParams = rctx.routeParams
      /\ rctx' = [rctx EXCEPT !.routePath = NextRoutePath(rctx),
                              !.urlParams = [keys |-> rctx.urlParams.keys,
                                             values |-> rctx'.urlParams.values]]
  BY <1>1, <1>2, ShiftedFields
<1>6. rctx' \in Context
  <2>1. PICK q \in Text, values \in Seq(Text) :
          q = NextRoutePath(rctx) /\ values = rctx'.urlParams.values
    BY <1>4, <1>5 DEF Shifts, Slashed
  <2>2. PICK params \in Parameters : params = [keys |-> rctx.urlParams.keys, values |-> values]
    BY <1>1 DEF Context, Parameters
  <2>3. rctx' = [rctx EXCEPT !.routePath = q, !.urlParams = params]
    BY <1>5, <2>1, <2>2
  <2> QED BY <1>1, <2>3 DEF Context
<1>7. Typed'
  <2>1. at' \in Muxes
    BY <1>1, <1>2 DEF Typed, Registration
  <2> QED BY <1>1, <1>2, <1>6, <2>1 DEF Typed
<1>8. rctx'.routePath \in Text /\ BeginsWithSlash(rctx'.routePath)
  BY <1>4 DEF Shifts, Slashed
<1>9. Phases'
  BY <1>1, <1>2, <1>8 DEF Phases
<1>10. Shapes' = Shapes /\ Patterns' = Patterns /\ \A i : PassedOn(i)' <=> PassedOn(i)
  BY <1>2 DEF Shapes, Patterns, PassedOn
<1>11. Entries'
  BY <1>1, <1>2, <1>10 DEF Entries
<1>12. Stacked'
  BY <1>1, <1>2, <1>4, <1>5, <1>10 DEF Stacked, Shifts
<1>13. WildcardsEmptied'
  BY <1>2, <1>4 DEF WildcardsEmptied, Shifts
<1>14. PathSoFar'
  <2>1. Asked' = Asked /\ Spellings' = Spellings
    BY <1>2 DEF Asked, Spellings
  <2>2. RoutePath' = rctx'.routePath
    BY <1>8 DEF RoutePath, BeginsWithSlash
  <2> QED BY <1>2, <1>4, <2>1, <2>2 DEF PathSoFar, Shifts
<1>15. IdSoFar'
  BY <1>1, <1>2 DEF IdSoFar, IdAtEnd
<1> QED BY <1>7, <1>9, <1>11, <1>12, <1>13, <1>14, <1>15 DEF IInv

(* A step that changes nothing changes nothing of this.                    *)
LEMMA StutterKeeps ==
  ASSUME IInv, UNCHANGED vars
  PROVE  IInv'
<1>1. /\ UNCHANGED <<program, tree, request, rctx, at, phase, end, id, status, trail>>
  BY DEF vars
<1>2. Typed'
  BY <1>1 DEF IInv, Typed
<1>3. Phases'
  BY <1>1 DEF IInv, Phases
<1>4. /\ Shapes' = Shapes /\ HeldValues' = HeldValues /\ Patterns' = Patterns /\ Parts' = Parts
      /\ InnermostValue("id")' = InnermostValue("id")
      /\ \A i : PassedOn(i)' <=> PassedOn(i)
  <2>1. \A i : Held(i)' = Held(i) /\ (PassedOn(i)' <=> PassedOn(i))
    BY <1>1 DEF Held, Passed, PassedOn
  <2>2. Shapes' = Shapes /\ Patterns' = Patterns
    BY <1>1 DEF Shapes, Patterns
  <2>3. HeldValues' = HeldValues /\ Parts' = Parts
    BY <1>1, <2>1 DEF HeldValues, Parts
  <2>4. InnermostValue("id")' = InnermostValue("id")
    BY <1>1, <2>1, <2>2 DEF InnermostValue, SelectLastInSeq, SelectInSeq
  <2> QED BY <2>1, <2>2, <2>3, <2>4
<1>5. Entries'
  BY <1>1, <1>4 DEF IInv, Entries
<1>6. Stacked'
  BY <1>1, <1>4 DEF IInv, Stacked
<1>7. WildcardsEmptied'
  BY <1>1 DEF IInv, WildcardsEmptied, StarsEmpty
<1>8. PathSoFar'
  <2>1. Asked' = Asked /\ Spellings' = Spellings /\ RoutePath' = RoutePath
    BY <1>1 DEF Asked, Spellings, RoutePath
  <2> QED BY <1>1, <1>4, <2>1 DEF IInv, PathSoFar
<1>9. IdSoFar'
  <2>1. IdDigits' = IdDigits
    BY <1>4 DEF IdDigits, DigitsOf, IsDigit
  <2>2. IdValid' <=> IdValid
    BY <2>1 DEF IdValid
  <2>3. IdAtEnd' <=> IdAtEnd
    BY <1>1, <2>1, <2>2 DEF IdAtEnd
  <2> QED BY <1>1, <2>1, <2>2, <2>3 DEF IInv, IdSoFar
<1> QED BY <1>2, <1>3, <1>5, <1>6, <1>7, <1>8, <1>9 DEF IInv

-----------------------------------------------------------------------------
(* What is promised                                                        *)

(* Whatever is registered and asked for, the stacks hold what the routers  *)
(* on the way have found of the path, and nothing else.                    *)
THEOREM Invariance == Spec => []IInv
<1>1. Init => IInv
  BY InitKeeps
<1>2. ASSUME IInv, [Next]_vars
      PROVE  IInv'
  <2>1. CASE Receive
    BY <1>2, <2>1, ReceiveKeeps
  <2>2. CASE TrimTrailingSlash
    BY <1>2, <2>2, TrimKeeps
  <2>3. CASE Logging
    BY <1>2, <2>3, LoggingKeeps
  <2>4. CASE RouteHttp
    BY <1>2, <2>4, HitKeeps, MissKeeps
  <2>5. CASE EnterSubrouter
    BY <1>2, <2>5, EnterKeeps
  <2>6. CASE ExtractId
    BY <1>2, <2>6, ExtractKeeps
  <2>7. CASE Handle
    BY <1>2, <2>7, HandleKeeps
  <2>8. CASE UNCHANGED vars
    BY <1>2, <2>8, StutterKeeps
  <2> QED BY <1>2, <2>1, <2>2, <2>3, <2>4, <2>5, <2>6, <2>7, <2>8 DEF Next
<1> QED BY <1>1, <1>2, PTL DEF Spec

(* Every sub-router is given a path that begins with a slash, and every    *)
(* request is answered once, when it is done (handle_request, mount).      *)
THEOREM TypeCorrect == Spec => []TypeOK
<1>1. ASSUME IInv
      PROVE  TypeOK
  <2>1. Typed /\ Phases
    BY <1>1 DEF IInv
  <2>2. \A m \in Muxes : \A i \in 1..Len(program[m]) : program[m][i] \in Registration
    BY <2>1, RoutingAssumption, ElementOfSeq DEF Typed
  <2>3. at # TopMux => rctx.routePath # <<>> /\ rctx.routePath[1] = "/"
    BY <2>1 DEF Phases, BeginsWithSlash
  <2> QED BY <2>1, <2>2, <2>3 DEF TypeOK, Typed, Phases
<1> QED BY <1>1, Invariance, PTL

(* However many mounts a request goes through, the stacks of find_route    *)
(* have a value for each key of the patterns on the way, and nothing of a  *)
(* lookup before.                                                          *)
THEOREM StacksStayAligned == Spec => []StacksAligned
<1>1. ASSUME IInv
      PROVE  StacksAligned
  <2>1. Typed /\ Entries /\ Stacked
    BY <1>1 DEF IInv
  <2>2. Len(rctx.urlParams.keys) = Len(rctx.urlParams.values)
    BY <2>1, StacksSame
  <2> QED BY <2>1, <2>2 DEF StacksAligned, Stacked, Patterns
<1> QED BY <1>1, Invariance, PTL

(* get_url_param gives the handler the value of the innermost router that  *)
(* has the key, whatever the outer ones have under the same key.           *)
THEOREM InnermostValueWins == Spec => []InnermostWins
<1>1. ASSUME IInv
      PROVE  InnermostWins
  BY <1>1, InnermostIs DEF IInv, InnermostWins, AtHandler
<1> QED BY <1>1, Invariance, PTL

(* A handler that answers was found with all of the path that was asked    *)
(* for, each part of it once, whatever mounts the request went through.    *)
THEOREM PathIsAlwaysSpelled == Spec => []PathIsSpelled
<1>1. ASSUME IInv
      PROVE  PathIsSpelled
  <2>1. SUFFICES ASSUME status \in {200, 400}
                 PROVE  \/ SpelledPath = request.path
                        \/ SpelledPath = request.path \o <<"/">>
                        \/ SpelledPath \o <<"/">> = request.path
    BY DEF PathIsSpelled
  <2>2. Typed /\ Entries /\ Stacked /\ phase # "idle"
    BY <1>1, <2>1 DEF IInv, Phases
  <2>3. PICK s : s = SpelledPath
    OBVIOUS
  <2>4. s \in Spellings
    BY <1>1, <2>1, <2>2, <2>3, SpelledParts DEF IInv, PathSoFar
  <2>5. PICK path \in Text : path = request.path
    BY <2>2, AskedTyped
  <2>6. s = Asked \/ (s = Asked \o <<"/">> /\ Last(Asked) # "/")
    BY <2>4 DEF Spellings
  <2>7. CASE path = <<>>
    <3>1. Asked = <<"/">> /\ Last(<<"/">>) = "/"
      BY <2>2, <2>5, <2>7, AskedTyped DEF Last
    <3>2. <<>> \o <<"/">> = <<"/">>
      OBVIOUS
    <3> QED BY <2>3, <2>5, <2>6, <2>7, <3>1, <3>2
  <2>8. CASE path # <<>>
    <3>1. Asked = Trimmed(path)
      BY <2>2, <2>5, <2>8, AskedTyped
    <3>2. CASE Len(path) > 1 /\ Last(path) = "/"
      <4>1. path = Front(path) \o <<"/">>
        BY <2>8, <3>2, FrontLast DEF Text
      <4>2. Asked = Front(path)
        BY <3>1, <3>2 DEF Trimmed
      <4> QED BY <2>3, <2>5, <2>6, <4>1, <4>2
    <3>3. CASE ~ (Len(path) > 1 /\ Last(path) = "/")
      BY <2>3, <2>5, <2>6, <3>1, <3>3 DEF Trimmed
    <3> QED BY <3>2, <3>3
  <2> QED BY <2>7, <2>8
<1> QED BY <1>1, Invariance, PTL

(* extract_id gives the handler the number that the innermost "id" spells, *)
(* and answers 400 instead if it spells none or one that is too large; of  *)
(* 0 nothing is said.                                                      *)
THEOREM IdAlwaysExact == Spec => []IdIsExact
<1>1. ASSUME IInv
      PROVE  IdIsExact
  BY <1>1 DEF IInv, IdSoFar, IdAtEnd, IdIsExact, AsksId, IdValid, IdDigits, IdNumber
<1> QED BY <1>1, Invariance, PTL
=============================================================================
