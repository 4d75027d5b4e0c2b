----------------------------- MODULE RouteTree ------------------------------
(***************************************************************************)
(* The radix tree of routes (router.tree.cpp) and the two ways a program   *)
(* fills it, Mux::handle_impl and Mux::mount (router.mux.cpp).             *)
(*                                                                         *)
(* The tree is a function from the names of its nodes to the nodes.  A     *)
(* node is named by what the way to it from the root stands for, which no  *)
(* insertion changes: the node that is split keeps its name, and the part  *)
(* cut off it has the shorter one.                                         *)
(***************************************************************************)
EXTENDS RoutePatterns

CONSTANTS
  Alphabet,        (* the characters, "*" and "{" included, in char order  *)
  Accepts(_, _),   (* Accepts(rex, s): std::regex_search with ^ and $      *)
  Behind,          (* Behind[t]: what stands behind the first closing brace
                      of the token t: the end of an expression that has
                      braces of its own, and nothing for all others        *)
  Methods,         (* the methods of methodsList                           *)
  Patterns,        (* what the program passes to handle, get, post ...     *)
  MountPatterns,   (* what it passes to mount and route                    *)
  MaxCalls,        (* how many such calls it makes                         *)
  Paths            (* the request paths that are looked up                 *)

VARIABLES
  tree,            (* tree[n]: the node named n; the root is <<>>          *)
  pending,         (* the insertions left of the call to mount in progress *)
  calls            (* calls made so far                                    *)

vars == <<tree, pending, calls>>

Chars == ToSet(Alphabet)

(* What a pattern is made of: an open brace is no character of it, and no   *)
(* expression is a single character, as pat_next_segment puts "^" and "$"  *)
(* around it.                                                              *)
Letters == (Chars \ {"{"}) \cup Params \cup Regexps \cup Unclosed

ASSUME CharAssumption ==
  /\ Alphabet \in Seq(Chars) /\ IsInjective(Alphabet)
  /\ {"/", "*", "{"} \subseteq Chars /\ {"", "{}"} \cap Chars = {}

ASSUME LetterAssumption ==
  /\ Chars \cap (Params \cup Regexps \cup Unclosed) = {}
  /\ Params \cap (Regexps \cup Unclosed) = {} /\ Regexps \cap Unclosed = {}
  /\ \A t \in Regexps : RexOf[t] \notin Chars \cup {"{}"}
  /\ \A t \in Params \cup Regexps : Behind[t] \in Seq(Letters)

ASSUME CallAssumption ==
  /\ Patterns \cup MountPatterns \subseteq Seq(Letters) /\ Paths \subseteq Seq(Chars)
  /\ IsFiniteSet(Patterns \cup MountPatterns) /\ Methods # {} /\ MaxCalls \in Nat

(* What can get into the tree.                                             *)
MountedSet == UNION {ToSet(MountedPatterns(p)) : p \in MountPatterns}

AllPatterns == Patterns \cup MountedSet

(* No node is further from the root than the longest pattern is long.      *)
Height == Max({0} \cup {Len(p) : p \in AllPatterns})

Parts == Chars \cup {"{}"} \cup {RexOf[t] : t \in Regexps}

-----------------------------------------------------------------------------
(* Loops                                                                   *)

(* What a loop makes of s in n rounds.                                     *)
Rounds(round, s, n) ==
  LET after[i \in Nat] == IF i = 0 THEN s ELSE round[after[i - 1]]
  IN  after[n]

-----------------------------------------------------------------------------
(* Patterns                                                                *)

(* The tail of the token at i: the character that ends a parameter's value. *)
TailOf(p, i) ==
  CASE TypeOf(p[i]) \in {"Static", "CatchAll"} -> ""
    [] OTHER -> IF i < Len(p) THEN CharOf(p[i + 1]) ELSE "/"

(* pat_next_segment throws on the segment at i.                            *)
Malformed(p, i) == p[i] \in Unclosed \/ (p[i] = "*" /\ i < Len(p))

(* What the first i tokens of a pattern are in the names of nodes.         *)
Name(p, i) == [j \in 1..i |-> <<Part(p[j]), TailOf(p, j)>>]

-----------------------------------------------------------------------------
(* Nodes                                                                   *)

NoEndpoints == [m \in Methods |-> None]

NoKids == [t \in NodeTypes |-> <<>>]

Root == [typ |-> "Static", label |-> "", tail |-> "", prefix |-> <<>>,
         rex |-> "none", eps |-> NoEndpoints, kids |-> NoKids]

EmptyTree == [n \in {<<>>} |-> Root]

IsLeaf(node) == node.eps # NoEndpoints

(* A variant for mutation: a pattern that is there already stays.          *)
SetEndpointOnce(eps, method, pattern) ==
  [m \in Methods |-> IF method \in {m, "ALL"} /\ eps[m] = None THEN pattern ELSE eps[m]]

(* set_endpoint: one method, or every method of methodsList.               *)
SetEndpoint(eps, method, pattern) ==
  [m \in Methods |-> IF method \in {m, "ALL"} THEN pattern ELSE eps[m]]

(* Character order.                                                        *)
Code == [c \in Chars |-> CHOOSE i \in DOMAIN Alphabet : Alphabet[i] = c]

(* nodes_sort's last loop: from the back, swap each parameter node whose   *)
(* tail is '/' with the last node.                                         *)
TailSort(t, kids) ==
  LET n == Len(kids)
      swap == [s \in Nat \X Seq(DOMAIN t) |->
                 LET i == s[1]
                     ks == s[2]
                 IN  <<i - 1, IF t[ks[i]].typ # "Static" /\ t[ks[i]].tail = "/"
                              THEN [ks EXCEPT ![i] = ks[n], ![n] = ks[i]] ELSE ks>>]
  IN  Rounds(swap, <<n, kids>>, n)[2]

(* A variant for mutation: children stay in the order they came in.        *)
AppendUnsorted(t, kids, child) == Append(kids, child)

(* A variant for mutation: sorted by label, but without the loop that puts *)
(* the parameter with tail '/' at the end.                                 *)
SortByLabelOnly(t, kids, child) ==
  LET at == SelectInSeq(kids, LAMBDA k : Code[t[child].label] < Code[t[k].label])
  IN  IF at = 0 THEN Append(kids, child) ELSE InsertAt(kids, at, child)

(* emplace_back and nodes_sort: std::sort by label keeps the order of      *)
(* equal labels in groups this small, then the tails.                      *)
SortedWith(t, kids, child) ==
  LET at == SelectInSeq(kids, LAMBDA k : Code[t[child].label] < Code[t[k].label])
  IN  TailSort(t, IF at = 0 THEN Append(kids, child) ELSE InsertAt(kids, at, child))

(* The last lines of add_child: a node of the tree becomes a child of n.   *)
Attached(t, n, child) ==
  [t EXCEPT ![n].kids[t[child].typ] = SortedWith(t, @, child)]

-----------------------------------------------------------------------------
(* Insertion                                                               *)

(* Where the node ends that add_child makes of what follows behind i: at a *)
(* wild token that comes first, or in front of the next one.               *)
NodeEnd(p, i) ==
  IF Wild(p[i + 1]) THEN i + 1
  ELSE Min({e \in i + 1..Len(p) : e = Len(p) \/ Wild(p[e + 1])})

(* The node for the tokens of p from i + 1 to e.                           *)
NewNode(p, i, e) ==
  [typ |-> TypeOf(p[i + 1]), label |-> CharOf(p[i + 1]), tail |-> TailOf(p, i + 1),
   prefix |-> IF Wild(p[i + 1]) THEN <<>> ELSE SubSeq(p, i + 1, e),
   rex |-> RexIn(p[i + 1]), eps |-> NoEndpoints, kids |-> NoKids]

(* This node as a child of the one for the tokens before it.               *)
WithNode(t, p, i, e) ==
  Attached([name \in DOMAIN t \cup {Name(p, e)} |->
              IF name = Name(p, e) THEN NewNode(p, i, e) ELSE t[name]],
           Name(p, i), Name(p, e))

(* add_child on what follows behind i: a node, and below it those that     *)
(* add_child makes of the rest.                                            *)
WithChain(t, p, i) ==
  LET made[k \in Nat] ==
        IF k = 0 THEN <<t, i>>
        ELSE LET m == made[k - 1]
                 e == NodeEnd(p, m[2])
             IN  IF m[2] = Len(p) THEN m ELSE <<WithNode(m[1], p, m[2], e), e>>
  IN  made[Len(p)][1]

(* get_edge: the child to go on with, by label, tail and expression.       *)
GetEdge(t, n, p, i) ==
  SelectInSeq(t[n].kids[TypeOf(p[i])],
              LAMBDA k : t[k].label = CharOf(p[i]) /\ t[k].tail = TailOf(p, i) /\ t[k].rex = RexIn(p[i]))

(* longest_prefix, of what follows behind i and the prefix of a node.      *)
SharedPrefix(p, i, prefix) ==
  CHOOSE s \in 0..Len(prefix) :
    /\ i + s <= Len(p)
    /\ \A j \in 1..s : p[i + j] = prefix[j]
    /\ s < Len(prefix) /\ i + s < Len(p) => p[i + s + 1] # prefix[s + 1]

Result(ok, t) == [ok |-> ok, tree |-> t]

(* A variant for mutation: the lower half of a split node keeps its label. *)
SplitKeepingLabel(t, n, edge, s, upper) ==
  LET k == t[n].kids["Static"][edge]
      half == [Root EXCEPT !.label = t[k].label, !.prefix = SubSeq(t[k].prefix, 1, s),
                           !.kids["Static"] = <<k>>]
  IN  [name \in DOMAIN t \cup {upper} |->
         CASE name = upper -> half
           [] name = n -> [t[n] EXCEPT !.kids["Static"][edge] = upper]
           [] name = k -> [t[k] EXCEPT !.prefix = SubSeq(@, s + 1, Len(@))]
           [] OTHER -> t[name]]

(* A static child of n cut after s characters of its prefix: what is       *)
(* above the cut takes its place, and it goes on as the only child of that. *)
Split(t, n, edge, s, upper) ==
  LET k == t[n].kids["Static"][edge]
      half == [Root EXCEPT !.label = t[k].label, !.prefix = SubSeq(t[k].prefix, 1, s),
                           !.kids["Static"] = <<k>>]
  IN  [name \in DOMAIN t \cup {upper} |->
         CASE name = upper -> half
           [] name = n -> [t[n] EXCEPT !.kids["Static"][edge] = upper]
           [] name = k -> [t[k] EXCEPT !.label = t[k].prefix[s + 1],
                                       !.prefix = SubSeq(@, s + 1, Len(@))]
           [] OTHER -> t[name]]

(* set_endpoint on the node of the pattern; a key that comes twice makes    *)
(* it throw.                                                               *)
WithEndpoint(t, method, p) ==
  IF DistinctKeys(p)
  THEN Result(TRUE, [t EXCEPT ![Name(p, Len(p))].eps = SetEndpoint(@, method, p)])
  ELSE Result(FALSE, t)

(* What is left of a call on reaching the node that is to have the route,  *)
(* or that is to have it below: the chain of nodes is attached before      *)
(* set_endpoint throws, and not at all when add_child throws.              *)
Place(t, method, p, i) ==
  IF i = Len(p) THEN WithEndpoint(t, method, p)
  ELSE IF Parses(SubSeq(p, i + 1, Len(p))) THEN WithEndpoint(WithChain(t, p, i), method, p)
  ELSE Result(FALSE, t)

(* How much of the pattern insert_route has in common with the child that  *)
(* it found for what follows behind i.                                     *)
Shared(t, n, p, i) ==
  LET k == t[n].kids["Static"][GetEdge(t, n, p, i + 1)]
  IN  IF Wild(p[i + 1]) THEN 1 ELSE SharedPrefix(p, i, t[k].prefix)

(* The loop goes on in a child if there is one that is not to be split.    *)
GoesOn(t, n, p, i) ==
  /\ i < Len(p)
  /\ ~ Malformed(p, i + 1)
  /\ GetEdge(t, n, p, i + 1) # 0
  /\ LET k == t[n].kids[TypeOf(p[i + 1])][GetEdge(t, n, p, i + 1)]
     IN  Wild(p[i + 1]) \/ Shared(t, n, p, i) = Len(t[k].prefix)

(* The node that the loop of insert_route gets to, and how many tokens of  *)
(* the pattern are behind it then.                                         *)
Descent(t, p) ==
  LET down == [d \in (DOMAIN t) \X (0..Len(p)) |->
                 LET n == d[1]
                     i == d[2]
                 IN  IF GoesOn(t, n, p, i)
                     THEN <<t[n].kids[TypeOf(p[i + 1])][GetEdge(t, n, p, i + 1)],
                            i + Shared(t, n, p, i)>>
                     ELSE d]
  IN  Rounds(down, << <<>>, 0>>, Len(p))

(* insert_route *)
Insert(t, method, p) ==
  LET down == Descent(t, p)
      n == down[1]
      i == down[2]
      edge == GetEdge(t, n, p, i + 1)
      upper == i + Shared(t, n, p, i)
  IN  IF i < Len(p) /\ Malformed(p, i + 1) THEN Result(FALSE, t)
      ELSE IF i = Len(p) \/ edge = 0 THEN Place(t, method, p, i)
      ELSE Place(Split(t, n, edge, upper - i, Name(p, upper)), method, p, upper)

-----------------------------------------------------------------------------
(* Lookup                                                                  *)

(* nodes_find_edge and find_edge: binary search by label, in at most as    *)
(* many rounds as there are nodes; i = n + 1 ends it when k is found.      *)
FindEdge(t, kids, label) ==
  LET n == Len(kids)
      halve == [s \in Nat \X Nat \X Nat |->
                  LET i == s[1]
                      j == s[2]
                      k == i + (j - i) \div 2
                  IN  IF i > j THEN s
                      ELSE IF Code[t[kids[k]].label] < Code[label] THEN <<k + 1, j, k>>
                      ELSE IF Code[label] < Code[t[kids[k]].label] THEN <<i, k - 1, k>>
                      ELSE <<n + 1, j, k>>]
      at == Rounds(halve, <<1, n, 1>>, n)[3]
  IN  IF kids = <<>> THEN 0 ELSE IF t[kids[at]].label # label THEN 0 ELSE at

Drop(s, n) == SubSeq(s, n + 1, Len(s))

(* A step of the search: the child to go on in, the value that a parameter *)
(* takes there, and what is left of the path; or none, where the code      *)
(* continues with the next child.                                          *)
Step(open, kid, vals, rest) == [open |-> open, kid |-> kid, vals |-> vals, rest |-> rest]

NoStep(kid) == Step(FALSE, kid, <<>>, <<>>)

StaticSteps(t, kids, path) ==
  LET edge == FindEdge(t, kids, path[1])
      k == kids[edge]
  IN  IF path = <<>> \/ kids = <<>> THEN <<>>
      ELSE IF edge = 0 THEN <<>>
      ELSE <<IF IsPrefix(t[k].prefix, path)
             THEN Step(TRUE, k, <<>>, Drop(path, Len(t[k].prefix)))
             ELSE NoStep(k)>>

(* Where a parameter's value ends: before its tail, or at the end of the   *)
(* path when the tail is '/'; beyond the path when there is no tail in it. *)
ValueEnd(node, path) ==
  LET at == SelectInSeq(path, LAMBDA c : c = node.tail)
  IN  IF at # 0 THEN at - 1 ELSE IF node.tail = "/" THEN Len(path) ELSE Len(path) + 1

(* A variant for mutation: a value may run over a slash.                   *)
SegmentOverSlash(t, kid, path) ==
  LET n == ValueEnd(t[kid], path)
      value == SubSeq(path, 1, n)
      admitted == t[kid].typ = "Regexp" => n # 0 /\ Accepts(t[kid].rex, value)
  IN  IF n <= Len(path) /\ admitted THEN Step(TRUE, kid, <<value>>, Drop(path, n)) ELSE NoStep(kid)

SegmentStep(t, kid, path) ==
  LET n == ValueEnd(t[kid], path)
      value == SubSeq(path, 1, n)
      admitted == IF t[kid].typ = "Regexp"
                  THEN n # 0 /\ Accepts(t[kid].rex, value)
                  ELSE "/" \notin ToSet(value)
  IN  IF n <= Len(path) /\ admitted THEN Step(TRUE, kid, <<value>>, Drop(path, n)) ELSE NoStep(kid)

(* A variant for mutation: only the first child of the group is tried.     *)
FirstSegmentOnly(t, kids, path) ==
  IF path = <<>> \/ kids = <<>> THEN <<>>
  ELSE <<SegmentStep(t, kids[1], path), Step(TRUE, kids[Len(kids)], << <<>> >>, path)>>

(* The children of one parameter group in turn; after the loop the code    *)
(* falls through into the last of them once more, with an empty value.     *)
SegmentSteps(t, kids, path) ==
  LET n == Len(kids)
  IN  IF path = <<>> \/ kids = <<>> THEN <<>>
      ELSE [i \in 1..n + 1 |-> IF i <= n THEN SegmentStep(t, kids[i], path)
                               ELSE Step(TRUE, kids[n], << <<>> >>, path)]

CatchAllSteps(kids, path) ==
  IF kids = <<>> THEN <<>> ELSE <<Step(TRUE, kids[1], <<path>>, <<>>)>>

Steps(t, n, path) ==
  StaticSteps(t, t[n].kids["Static"], path)
    \o SegmentSteps(t, t[n].kids["Regexp"], path)
    \o SegmentSteps(t, t[n].kids["Param"], path)
    \o CatchAllSteps(t[n].kids["CatchAll"], path)

Found(hit, pattern, vals, hint) == [hit |-> hit, pattern |-> pattern, vals |-> vals, hint |-> hint]

Miss(hint) == Found(FALSE, None, <<>>, hint)

(* A variant for mutation: the hint does not ask whether anything is       *)
(* registered where the search ends.                                       *)
HintWithoutLeaf(node, method) == node.eps[method] = None

(* Whether a search that ends in this node sets methodNotAllowed.          *)
Hints(node, method) == IsLeaf(node) /\ node.eps[method] = None

(* What a step leads to: the handler of the child if it ends there, or     *)
(* what the search below it finds.                                         *)
Outcome(t, step, method, below) ==
  LET node == t[step.kid]
      ends == step.rest = <<>>
  IN  IF ~ step.open THEN Miss(FALSE)
      ELSE IF ends /\ node.eps[method] # None
      THEN Found(TRUE, node.eps[method], step.vals, FALSE)
      ELSE LET deep == below[<<step.kid, step.rest>>]
           IN  Found(deep.hit, deep.pattern, step.vals \o deep.vals,
                     deep.hint \/ (ends /\ Hints(node, method)))

(* The first step that leads to a handler; the hint is that of all steps   *)
(* that were tried.                                                        *)
FirstHit(t, steps, method, below) ==
  LET outcomes == [i \in 1..Len(steps) |-> Outcome(t, steps[i], method, below)]
      k == SelectInSeq(outcomes, LAMBDA o : o.hit)
  IN  IF k = 0 THEN Miss(\E i \in 1..Len(steps) : outcomes[i].hint)
      ELSE [outcomes[k] EXCEPT !.hint = \E i \in 1..k : outcomes[i].hint]

(* find_route_helper, in a tree that has no more levels than i below.      *)
Find(t, method, path) ==
  LET search[i \in Nat] ==
        [d \in (DOMAIN t) \X Seq(Chars) |->
           IF i = 0 THEN Miss(FALSE) ELSE FirstHit(t, Steps(t, d[1], d[2]), method, search[i - 1])]
  IN  search[Height + 1][<< <<>>, path>>]

FindRoute(method, path) == Find(tree, method, path)

(* The edge for the head of what is left of a pattern among the children   *)
(* of n of one type.                                                       *)
PatternEdge(t, n, g, pattern) ==
  LET kids == t[n].kids[g]
      edge == FindEdge(t, kids, CharOf(pattern[1]))
  IN  IF kids = <<>> THEN 0
      ELSE IF g = "CatchAll" THEN 1
      ELSE IF g = "Static" /\ edge # 0 /\ ~ IsPrefix(t[kids[edge]].prefix, pattern) THEN 0
      ELSE edge

(* What is left behind a "{": find('}') + 1 drops up to the first closing   *)
(* brace, also when it is one of the expression's own, or nothing at all    *)
(* when there is none.                                                     *)
BehindBrace(pattern) ==
  LET at == SelectInSeq(pattern, LAMBDA x : x \in Params \cup Regexps)
  IN  IF at = 0 THEN pattern ELSE Behind[pattern[at]] \o Drop(pattern, at)

PatternRest(t, k, pattern) ==
  CASE t[k].typ = "Static" -> Drop(pattern, Len(t[k].prefix))
    [] t[k].typ = "CatchAll" -> IF pattern[1] = "*" THEN Tail(pattern) ELSE pattern
    [] OTHER -> BehindBrace(pattern)

(* find_pattern: the first type with such an edge decides.                 *)
FindPattern(t, pattern) ==
  LET order == <<"Static", "Regexp", "Param", "CatchAll">>
      found[i \in Nat] ==
        [d \in (DOMAIN t) \X Seq(Letters) |->
           LET n == d[1]
               left == d[2]
               at == SelectInSeq(order, LAMBDA g : PatternEdge(t, n, g, left) # 0)
               k == t[n].kids[order[at]][PatternEdge(t, n, order[at], left)]
               rest == PatternRest(t, k, left)
           IN  i # 0 /\ at # 0 /\ (rest = <<>> \/ found[i - 1][<<k, rest>>])]
  IN  found[Height + 1][<< <<>>, pattern>>]

-----------------------------------------------------------------------------
(* The calls                                                               *)

Init ==
  /\ tree = EmptyTree
  /\ pending = <<>>
  /\ calls = 0

(* handle_impl and insert_route; a throw leaves what was already done.     *)
InsertRoute(method, p) ==
  IF BeginsWithSlash(p) THEN Insert(tree, method, p) ELSE Result(FALSE, tree)

Handle(method, p) ==
  /\ calls < MaxCalls /\ pending = <<>>
  /\ calls' = calls + 1
  /\ tree' = InsertRoute(method, p).tree
  /\ UNCHANGED pending

(* A variant for mutation: mount looks for the pattern and a wildcard only. *)
OnExistingPathLoose(p) == FindPattern(tree, p \o <<"*">>)

(* mount's check that nothing is mounted there yet.                        *)
OnExistingPath(p) ==
  FindPattern(tree, p \o <<"*">>) \/ FindPattern(tree, p \o <<"/", "*">>)

Mount(p) ==
  /\ calls < MaxCalls /\ pending = <<>>
  /\ calls' = calls + 1
  /\ pending' = IF OnExistingPath(p) THEN <<>> ELSE MountedPatterns(p)
  /\ UNCHANGED tree

MountNext ==
  /\ pending # <<>>
  /\ LET r == InsertRoute("ALL", Head(pending))
     IN  /\ tree' = r.tree
         /\ pending' = IF r.ok THEN Tail(pending) ELSE <<>>
  /\ UNCHANGED calls

Next ==
  \/ \E p \in Patterns, m \in Methods \cup {"ALL"} : Handle(m, p)
  \/ \E p \in MountPatterns : Mount(p)
  \/ MountNext

Spec == Init /\ [][Next]_vars

-----------------------------------------------------------------------------
(* What the tree holds                                                     *)

Kids(t, n) == UNION {ToSet(t[n].kids[g]) : g \in NodeTypes}

(* The part of a pattern's shape that a node stands for.                   *)
Piece(node) ==
  CASE node.typ = "Static" -> node.prefix
    [] node.typ = "Regexp" -> <<node.rex>>
    [] node.typ = "Param" -> <<"{}">>
    [] node.typ = "CatchAll" -> <<"*">>

(* The nodes that the searches can reach, each with the shape that the     *)
(* nodes on the way to it make.                                            *)
Reached(t) ==
  LET Below(e) == {<<k, e[2] \o Piece(t[k])>> : k \in Kids(t, e[1])}
      within[i \in Nat] == {<< <<>>, <<>> >>}
        \cup IF i = 0 THEN {} ELSE UNION {Below(e) : e \in within[i - 1]}
  IN  within[Height]

(* The shapes that have endpoints, each with its endpoints.                *)
Entries(t) == {<<e[2], t[e[1]].eps>> : e \in {r \in Reached(t) : IsLeaf(t[r[1]])}}

(* The table that such entries make.                                       *)
TableOf ==
  [entries \in SUBSET (Seq(Parts) \X [Methods -> AllPatterns \cup {None}]) |->
     [s \in {e[1] : e \in entries} |-> (CHOOSE e \in entries : e[1] = s)[2]]]

Table == TableOf[Entries(tree)]

(* The patterns a request with this method may be routed to.               *)
Registered(method) == {e[2][method] : e \in Entries(tree)} \ {None}

-----------------------------------------------------------------------------
(* The structure that the searches rely on                                 *)

(* Every child is in the group of its type and is labelled with the        *)
(* character it stands for, and endpoints hold patterns of the program.    *)
TypeOK ==
  /\ \A n \in DOMAIN tree :
       /\ tree[n].eps \in [Methods -> AllPatterns \cup {None}]
       /\ \A g \in NodeTypes : \A k \in ToSet(tree[n].kids[g]) :
            /\ k \in DOMAIN tree /\ tree[k].typ = g
            /\ tree[k].label = CASE g = "Static" -> tree[k].prefix[1]
                                 [] g = "CatchAll" -> "*"
                                 [] OTHER -> "{"
  /\ pending \in BoundedSeq(MountedSet, 3)
  /\ calls \in 0..MaxCalls

KidsOrdered(t, n) ==
  LET kids == t[n].kids
      node(g, i) == t[kids[g][i]]
  IN  /\ \A i, j \in DOMAIN kids["Static"] :
           i < j => Code[node("Static", i).label] < Code[node("Static", j).label]
      /\ \A i, j \in DOMAIN kids["Param"] :
           i < j => /\ node("Param", i).tail # "/"
                    /\ node("Param", i).tail # node("Param", j).tail
      /\ \A i, j \in DOMAIN kids["Regexp"] :
           i # j => \/ node("Regexp", i).tail # node("Regexp", j).tail
                    \/ node("Regexp", i).rex # node("Regexp", j).rex
      /\ Len(kids["CatchAll"]) <= 1

(* No split, insertion or sort leaves a group of children in an order that *)
(* binary search or the serial loop over parameters would be misled by:    *)
(* static labels ascend, no two siblings stand for the same segment, the   *)
(* parameter that reaches up to the next slash comes last, and a node has  *)
(* one wildcard at most.                                                   *)
TreeOrdered == \A n \in DOMAIN tree : KidsOrdered(tree, n)

-----------------------------------------------------------------------------
(* Which patterns match a path                                             *)

(* A value that the token at i is meant to take: any for the wildcard, for *)
(* a parameter some characters before the one that the pattern puts after  *)
(* it, none of them a slash unless the parameter has an expression for it. *)
ValueFits(pattern, i, v) ==
  \/ pattern[i] = "*"
  \/ /\ v # <<>>
     /\ TailOf(pattern, i) \notin ToSet(v)
     /\ IF pattern[i] \in Regexps THEN Accepts(RexOf[pattern[i]], v)
                                  ELSE "/" \notin ToSet(v)

(* The values fill the pattern and give the path; the ones left empty are  *)
(* not asked to fit.                                                       *)
Admits(pattern, path, vals) ==
  /\ Len(vals) = WildCount(pattern, Len(pattern))
  /\ Fill(pattern, vals) = path
  /\ \A i \in 1..Len(pattern) :
       LET v == vals[WildCount(pattern, i)]
       IN  Wild(pattern[i]) => v = <<>> \/ ValueFits(pattern, i, v)

(* No parameter is right before another, which the comment in add_child    *)
(* rules out: the first would have to end before an open brace.            *)
Apart(pattern, i) == Wild(pattern[i]) /\ i < Len(pattern) => ~ Wild(pattern[i + 1])

Fits(pattern, path, vals) ==
  /\ Admits(pattern, path, vals)
  /\ \A i \in 1..Len(pattern) :
       /\ Apart(pattern, i)
       /\ Wild(pattern[i]) => ValueFits(pattern, i, vals[WildCount(pattern, i)])

Pieces(path) == {SubSeq(path, i, j) : i \in 1..Len(path) + 1, j \in 0..Len(path)}

ValuesFor(pattern, path) == [1..WildCount(pattern, Len(pattern)) -> Pieces(path)]

(* <<pattern, path>> when the pattern matches the path, and when it does   *)
(* so with some values left empty.                                         *)
Matches ==
  {pp \in AllPatterns \X Paths :
     \E vals \in ValuesFor(pp[1], pp[2]) : Fits(pp[1], pp[2], vals)}

LooseMatches ==
  {pp \in AllPatterns \X Paths :
     \E vals \in ValuesFor(pp[1], pp[2]) : Admits(pp[1], pp[2], vals)}

(* A pattern that a lookup returns is registered for the method, and the   *)
(* values it returns, in order, turn the pattern into the path: values of  *)
(* branches given up on the way are gone, and no parameter without an      *)
(* expression has taken a slash.                                           *)
LookupSound ==
  \A m \in Methods :
    LET registered == Registered(m)
    IN  \A path \in Paths :
          LET r == FindRoute(m, path)
          IN  r.hit => r.pattern \in registered /\ Admits(r.pattern, path, r.vals)

(* A lookup finds a handler whenever some registered pattern matches,      *)
(* however many other branches have to be tried and given up first.        *)
LookupComplete ==
  \A m \in Methods :
    LET registered == Registered(m)
    IN  \A path \in Paths :
          (\E p \in registered : <<p, path>> \in Matches) => FindRoute(m, path).hit

(* The order of preference: text, expression, parameter, end, wildcard.    *)
Rank(pattern, i) ==
  IF i > Len(pattern) THEN 4
  ELSE CASE TypeOf(pattern[i]) = "Static" -> 1
         [] TypeOf(pattern[i]) = "Regexp" -> 2
         [] TypeOf(pattern[i]) = "Param" -> 3
         [] TypeOf(pattern[i]) = "CatchAll" -> 5

(* q is preferred to p where they first differ, unless that is right after *)
(* an expression, as nodes_sort promises no order of the ends of           *)
(* expressions, or after a parameter that p puts right before another.     *)
MoreSpecific(q, p) ==
  \E i \in 1..Len(q) :
    /\ i <= Len(p) + 1
    /\ SubSeq(Shape(q), 1, i - 1) = SubSeq(Shape(p), 1, i - 1)
    /\ Rank(q, i) < Rank(p, i)
    /\ i > 1 => q[i - 1] \notin Regexps /\ Apart(p, i - 1)

(* A lookup never returns a pattern when one that is more specific is      *)
(* registered and matches too, whatever order they were registered in.     *)
MostSpecific ==
  \A m \in Methods :
    LET registered == Registered(m)
    IN  \A path \in Paths :
          LET r == FindRoute(m, path)
          IN  r.hit => \A q \in registered :
                         <<q, path>> \in Matches => ~ MoreSpecific(q, r.pattern)

(* The hint that decides between 404 and 405: a lookup that fails has set  *)
(* it if a pattern of another method matches, and has set it only if one   *)
(* matches at least with some values left empty.                           *)
HintExact ==
  \A m \in Methods :
    LET others == UNION {Registered(n) : n \in Methods \ {m}}
    IN  \A path \in Paths :
          LET r == FindRoute(m, path)
          IN  ~ r.hit =>
                /\ (\E p \in others : <<p, path>> \in Matches) => r.hint
                /\ r.hint => \E p \in others : <<p, path>> \in LooseMatches

(* What the comment in find_route_helper says: a parameter is never given  *)
(* an empty value.                                                         *)
NoEmptyValues ==
  \A m \in Methods, path \in Paths :
    LET r == FindRoute(m, path)
    IN  r.hit => \A i \in 1..Len(r.pattern) :
                   r.pattern[i] \in Params \cup Regexps
                     => r.vals[WildCount(r.pattern, i)] # <<>>

-----------------------------------------------------------------------------
(* Mounting                                                                *)

(* A mount of a static pattern, which takes three insertions, never puts   *)
(* its wildcard over one that is already there, whether an earlier mount   *)
(* or a registration by hand put it there.                                 *)
MountNeverOverwrites ==
  [][pending # <<>> /\ Head(pending) # <<>> /\ Last(Head(pending)) = "*"
       => Shape(Head(pending)) \notin DOMAIN Table]_vars

(* What the comment in mount says: a pattern is not mounted on an existing *)
(* routing pattern, so that no route is replaced by a mount.               *)
MountIsOnFreshPath ==
  [][pending # <<>> => Shape(Head(pending)) \notin DOMAIN Table]_vars
=============================================================================
