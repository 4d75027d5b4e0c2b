--------------------------- MODULE RouteTreeProofs ---------------------------
(***************************************************************************)
(* The structure of the tree of routes, for every set of patterns, and     *)
(* that the tree implements the table of routes.                           *)
(***************************************************************************)
EXTENDS RouteCalls, PatternLemmas

-----------------------------------------------------------------------------
(* What a good tree is                                                     *)

(* A name is made of parts of patterns, each with the tail of its token.   *)
Segs == Parts \X (Chars \cup {""})

(* The type of node that a part stands for.                                *)
PartType(x) ==
  CASE x = "{}" -> "Param"
    [] x = "*" -> "CatchAll"
    [] x \in Chars \ {"*"} -> "Static"
    [] OTHER -> "Regexp"

Upto(n, i) == [j \in 1..i |-> n[j]]

(* How many segments of its name a node stands for, and the name of the    *)
(* node that it is a child of.                                             *)
Size(node) == IF node.typ = "Static" THEN Len(node.prefix) ELSE 1

Depth(t, k) == Len(k) - Size(t[k])

Above(t, k) == Upto(k, Depth(t, k))

(* The first segment that a node stands for.                               *)
Segment(t, k) == k[Depth(t, k) + 1]

NodesOver(names) ==
  [typ : NodeTypes, label : Chars \cup {""}, tail : Chars \cup {""}, prefix : Seq(Chars),
   rex : {RexOf[x] : x \in Regexps} \cup {"none"}, eps : [Methods -> AllPatterns \cup {None}],
   kids : [NodeTypes -> Seq(names)]]

Typed(t) ==
  /\ t \in [DOMAIN t -> NodesOver(DOMAIN t)]
  /\ DOMAIN t \subseteq Seq(Segs) /\ <<>> \in DOMAIN t
  /\ \A k \in DOMAIN t : Len(k) <= Height

(* The fields of a node are what its name says.                            *)
Named(t, k) ==
  /\ Size(t[k]) \in 1..Len(k)
  /\ Above(t, k) \in DOMAIN t
  /\ t[k].typ = PartType(Segment(t, k)[1])
  /\ t[k].tail = Segment(t, k)[2]
  /\ t[k].label = CASE t[k].typ = "Static" -> Segment(t, k)[1]
                    [] t[k].typ = "CatchAll" -> "*"
                    [] OTHER -> "{"
  /\ t[k].rex = IF t[k].typ = "Regexp" THEN Segment(t, k)[1] ELSE "none"
  /\ t[k].rex \notin BadRexes
  /\ t[k].typ = "CatchAll" => t[k].tail = ""
  /\ \A j \in 1..(Len(k) - 1) : k[j][1] # "*"
  /\ t[k].typ = "Static" =>
       \A j \in 1..Size(t[k]) : /\ k[Depth(t, k) + j] = <<t[k].prefix[j], "">>
                                /\ PartType(t[k].prefix[j]) = "Static"

NonRoot(t) == DOMAIN t \ {<<>>}

AllNamed(t) == \A k \in NonRoot(t) : Named(t, k)

(* No two children of a node stand for the same segment.                   *)
SiblingsDiffer(t) ==
  \A k, l \in NonRoot(t) :
    Above(t, k) = Above(t, l) /\ Segment(t, k) = Segment(t, l) => k = l

(* The lists of children hold the nodes that belong there, once each.      *)
Linked(t) ==
  \A n \in DOMAIN t, g \in NodeTypes :
    /\ IsInjective(t[n].kids[g])
    /\ \A k \in DOMAIN t :
         k \in ToSet(t[n].kids[g]) <=> k # <<>> /\ Above(t, k) = n /\ t[k].typ = g

Sorted(t) ==
  \A n \in DOMAIN t :
    LET s == t[n].kids["Static"]
        p == t[n].kids["Param"]
    IN  /\ \A i, j \in DOMAIN s : i < j => Code[t[s[i]].label] < Code[t[s[j]].label]
        /\ \A i, j \in DOMAIN p : i < j => t[p[i]].tail # "/"

(* A pattern is at the node that has its name.                             *)
Placed(t) ==
  \A n \in DOMAIN t, m \in Methods :
    LET p == t[n].eps[m]
    IN  p # None => Acceptable(p) /\ n = Name(p, Len(p))

Good(t) == Typed(t) /\ AllNamed(t) /\ SiblingsDiffer(t) /\ Linked(t) /\ Sorted(t) /\ Placed(t)


-----------------------------------------------------------------------------
(* Tokens                                                                  *)

(* What the program registers is made of letters, and so is what a mount   *)
(* registers.                                                              *)
LEMMA PatternsTyped == AllPatterns \subseteq Seq(Letters)
<1>1. ASSUME NEW p \in MountPatterns, NEW q \in ToSet(MountedPatterns(p))
      PROVE  q \in Seq(Letters)
  <2>1. p \in Seq(Letters)
    BY CallAssumption
  <2>2. "*" \in Letters /\ "/" \in Letters
    BY CharAssumption DEF Letters
  <2>3. <<"*">> \in Seq(Letters) /\ <<"/">> \in Seq(Letters) /\ <<"/", "*">> \in Seq(Letters)
    BY <2>2
  <2>4. p \o <<"*">> \in Seq(Letters) /\ p \o <<"/">> \in Seq(Letters) /\ p \o <<"/", "*">> \in Seq(Letters)
    BY <2>1, <2>3, ConcatProperties
  <2>5. MountedPatterns(p) \in Seq(Seq(Letters))
    BY <2>1, <2>4 DEF MountedPatterns
  <2> QED BY <2>5 DEF ToSet
<1>2. MountedSet \subseteq Seq(Letters)
  BY <1>1 DEF MountedSet
<1> QED BY <1>2, CallAssumption DEF AllPatterns

(* Of finitely many numbers none is beyond all bounds.                     *)
LEMMA BoundExists ==
  ASSUME NEW f
  PROVE  \A n \in Nat : (\A i \in 1..n : f[i] \in Nat) => \E b \in Nat : \A i \in 1..n : f[i] <= b
<1> DEFINE N == {n \in Nat : (\A i \in 1..n : f[i] \in Nat) => \E b \in Nat : \A i \in 1..n : f[i] <= b}
<1>1. 0 \in N
  OBVIOUS
<1>2. ASSUME NEW n \in Nat, n \in N
      PROVE  n + 1 \in N
  <2>1. ASSUME \A i \in 1..(n + 1) : f[i] \in Nat
        PROVE  \E b \in Nat : \A i \in 1..(n + 1) : f[i] <= b
    <3>1. \A i \in 1..n : i \in 1..(n + 1)
      OBVIOUS
    <3>2. PICK b \in Nat : \A i \in 1..n : f[i] <= b
      BY <1>2, <2>1, <3>1
    <3>3. n + 1 \in 1..(n + 1) /\ f[n + 1] \in Nat
      BY <2>1
    <3>4. PICK c \in Nat : c >= b /\ c >= f[n + 1]
      BY <3>3
    <3>5. \A i \in 1..(n + 1) : f[i] <= c
      <4>1. \A i \in 1..(n + 1) : i \in 1..n \/ i = n + 1
        OBVIOUS
      <4> QED BY <2>1, <3>2, <3>3, <3>4, <4>1
    <3> QED BY <3>5
  <2> QED BY <2>1
<1> HIDE DEF N
<1>3. Nat \subseteq N
  BY <1>1, <1>2, SetInduction
<1> QED BY <1>3 DEF N

(* The height is a bound for the lengths of patterns.                      *)
LEMMA HeightFacts ==
  /\ Height \in Nat
  /\ \A p \in AllPatterns : Len(p) <= Height
<1> DEFINE P == Patterns \cup MountPatterns
           Lengths == {0} \cup {Len(p) : p \in AllPatterns}
<1>1. P \subseteq Seq(Letters) /\ IsFiniteSet(P)
  BY CallAssumption
<1>2. PICK n \in Nat : ExistsSurjection(1..n, P)
  BY <1>1, FS_NatSurjection
<1>3. PICK g : g \in [1..n -> P] /\ \A p \in P : \E i \in 1..n : g[i] = p
  BY <1>2 DEF ExistsSurjection, Surjection
<1>4. PICK b \in Nat : \A i \in 1..n : Len(g[i]) <= b
  <2> DEFINE f == [i \in 1..n |-> Len(g[i])]
  <2>1. \A i \in 1..n : f[i] \in Nat
    <3>1. \A i \in 1..n : g[i] \in Seq(Letters)
      BY <1>1, <1>3
    <3> QED BY <3>1
  <2>2. \E b \in Nat : \A i \in 1..n : f[i] <= b
    <3> HIDE DEF f
    <3> QED BY <2>1, BoundExists
  <2> QED BY <2>2
<1>5. ASSUME NEW p \in P
      PROVE  Len(p) \in Nat /\ Len(p) <= b
  BY <1>1, <1>3, <1>4
<1>6. ASSUME NEW p \in MountPatterns, NEW q \in ToSet(MountedPatterns(p))
      PROVE  Len(q) <= b + 2
  <2>1. p \in Seq(Letters) /\ Len(p) \in Nat /\ Len(p) <= b
    BY <1>1, <1>5
  <2>2. "*" \in Letters /\ "/" \in Letters
    BY CharAssumption DEF Letters
  <2>3. <<"*">> \in Seq(Letters) /\ <<"/">> \in Seq(Letters) /\ <<"/", "*">> \in Seq(Letters)
        /\ Len(<<"*">>) = 1 /\ Len(<<"/">>) = 1 /\ Len(<<"/", "*">>) = 2
    BY <2>2
  <2>4. Len(p \o <<"*">>) = Len(p) + 1 /\ Len(p \o <<"/">>) = Len(p) + 1 /\ Len(p \o <<"/", "*">>) = Len(p) + 2
    BY <2>1, <2>3, ConcatProperties
  <2>5. q \in {p \o <<"*">>, p, p \o <<"/">>, p \o <<"/", "*">>}
    <3>1. ToSet(MountedPatterns(p)) \subseteq {p \o <<"*">>, p, p \o <<"/">>, p \o <<"/", "*">>}
      BY DEF ToSet, MountedPatterns
    <3> QED BY <3>1
  <2> QED BY <2>1, <2>4, <2>5
<1>7. ASSUME NEW p \in AllPatterns
      PROVE  Len(p) \in Nat /\ Len(p) <= b + 2
  <2>1. Len(p) \in Nat
    BY PatternsTyped
  <2>2. CASE p \in Patterns
    BY <1>5, <2>2
  <2>3. CASE p \in MountedSet
    BY <1>6, <2>1, <2>3 DEF MountedSet
  <2> QED BY <2>1, <2>2, <2>3 DEF AllPatterns
<1>8. Lengths \in SUBSET Nat /\ Lengths # {} /\ b + 2 \in Nat /\ \A y \in Lengths : y <= b + 2
  BY <1>7
<1>9. Max(Lengths) \in Lengths /\ \A y \in Lengths : y <= Max(Lengths)
  <2> HIDE DEF Lengths
  <2> QED BY <1>8, MaxIsGreatest
<1>10. Height = Max(Lengths)
  BY DEF Height
<1> HIDE DEF Lengths
<1>11. \A p \in AllPatterns : Len(p) \in Lengths
  BY DEF Lengths
<1> QED BY <1>8, <1>9, <1>10, <1>11

(* What a letter is, by the type of its node.                              *)
LEMMA LetterFacts ==
  ASSUME NEW x \in Letters
  PROVE  /\ TypeOf(x) \in NodeTypes
         /\ Wild(x) <=> TypeOf(x) # "Static"
         /\ TypeOf(x) = "Static" <=> x \in Chars \ {"*", "{"}
         /\ TypeOf(x) = "CatchAll" <=> x = "*"
         /\ TypeOf(x) = "Regexp" <=> x \in Regexps
         /\ TypeOf(x) = "Param" <=> x \in Params \cup Unclosed
         /\ CharOf(x) = CASE TypeOf(x) = "Static" -> x
                          [] TypeOf(x) = "CatchAll" -> "*"
                          [] OTHER -> "{"
         /\ CharOf(x) \in Chars
<1>1. /\ x \in (Chars \ {"{"}) \cup Params \cup Regexps \cup Unclosed
      /\ "*" \in Chars /\ "{" \in Chars
      /\ Chars \cap (Params \cup Regexps \cup Unclosed) = {}
      /\ Params \cap (Regexps \cup Unclosed) = {} /\ Regexps \cap Unclosed = {}
  BY CharAssumption, LetterAssumption DEF Letters
<1>2. /\ TypeOf(x) \in NodeTypes
      /\ Wild(x) <=> TypeOf(x) # "Static"
      /\ TypeOf(x) = "Static" <=> x \in Chars \ {"*", "{"}
      /\ TypeOf(x) = "CatchAll" <=> x = "*"
      /\ TypeOf(x) = "Regexp" <=> x \in Regexps
      /\ TypeOf(x) = "Param" <=> x \in Params \cup Unclosed
  BY <1>1 DEF TypeOf, Wild, NodeTypes
<1>3. CharOf(x) = CASE TypeOf(x) = "Static" -> x
                    [] TypeOf(x) = "CatchAll" -> "*"
                    [] OTHER -> "{"
  BY <1>1, <1>2 DEF CharOf
<1> QED BY <1>1, <1>2, <1>3

(* The part of a letter that a tree holds tells its type.                  *)
LEMMA PartFacts ==
  ASSUME NEW x \in Letters, x \notin Unclosed
  PROVE  /\ Part(x) \in Parts
         /\ PartType(Part(x)) = TypeOf(x)
         /\ TypeOf(x) \in {"Static", "CatchAll"} => Part(x) = x
         /\ RexIn(x) = IF TypeOf(x) = "Regexp" THEN Part(x) ELSE "none"
         /\ CharOf(x) = CASE TypeOf(x) = "Static" -> Part(x)
                          [] TypeOf(x) = "CatchAll" -> "*"
                          [] OTHER -> "{"
<1>1. /\ x \in (Chars \ {"{"}) \cup Params \cup Regexps
      /\ "*" \in Chars /\ "{}" \notin Chars
      /\ Chars \cap (Params \cup Regexps) = {}
      /\ Params \cap Regexps = {}
      /\ x \in Regexps => RexOf[x] \notin Chars \cup {"{}"}
  BY CharAssumption, LetterAssumption DEF Letters
<1>2. CASE x \in Regexps
  <2>1. Part(x) = RexOf[x] /\ TypeOf(x) = "Regexp" /\ RexIn(x) = RexOf[x]
    BY <1>1, <1>2, LetterAssumption DEF Part, TypeOf, RexIn
  <2>4. RexOf[x] \in Parts
    BY <1>2 DEF Parts
  <2>2. PartType(RexOf[x]) = "Regexp"
    BY <1>1, <1>2 DEF PartType
  <2>3. CharOf(x) = "{"
    BY <2>1, LetterFacts
  <2> QED BY <2>1, <2>2, <2>3, <2>4
<1>3. CASE x \in Params
  <2>1. Part(x) = "{}" /\ TypeOf(x) = "Param" /\ RexIn(x) = "none"
    BY <1>1, <1>3 DEF Part, TypeOf, RexIn
  <2>2. PartType("{}") = "Param"
    BY <1>1 DEF PartType
  <2>4. "{}" \in Parts
    BY DEF Parts
  <2>3. CharOf(x) = "{"
    BY <2>1, LetterFacts
  <2> QED BY <2>1, <2>2, <2>3, <2>4
<1>4. CASE x \in Chars
  <2>1. Part(x) = x /\ RexIn(x) = "none" /\ x \in Parts
    BY <1>1, <1>4 DEF Part, RexIn, Parts
  <2>2. TypeOf(x) = IF x = "*" THEN "CatchAll" ELSE "Static"
    BY <1>1, <1>4, LetterFacts
  <2>3. PartType(x) = IF x = "*" THEN "CatchAll" ELSE "Static"
    BY <1>1, <1>4 DEF PartType
  <2>4. CharOf(x) = x
    BY <1>1, <1>4, <2>2, LetterFacts
  <2> QED BY <2>1, <2>2, <2>3, <2>4
<1> QED BY <1>1, <1>2, <1>3, <1>4

-----------------------------------------------------------------------------
(* Names                                                                   *)

(* The beginnings of a name.                                               *)
LEMMA UptoFacts ==
  ASSUME NEW S, NEW n \in Seq(S), NEW i \in 0..Len(n)
  PROVE  /\ Upto(n, i) \in Seq(S) /\ Len(Upto(n, i)) = i
         /\ \A j \in 1..i : Upto(n, i)[j] = n[j]
         /\ Upto(n, Len(n)) = n
         /\ Upto(n, 0) = <<>>
         /\ \A j \in 0..i : Upto(Upto(n, i), j) = Upto(n, j)
<1>1. Len(n) \in Nat /\ i \in Nat
  OBVIOUS
<1>2. Upto(n, i) \in [1..i -> S]
  BY <1>1, ElementOfSeq DEF Upto
<1>3. Upto(n, i) \in Seq(S) /\ Len(Upto(n, i)) = i
  BY <1>1, <1>2, SeqDef
<1>4. \A j \in 1..i : Upto(n, i)[j] = n[j]
  BY DEF Upto
<1>5. Upto(n, Len(n)) = n
  <2>1. n \in [1..Len(n) -> S]
    BY LenProperties
  <2> QED BY <2>1 DEF Upto
<1>6. Upto(n, 0) = <<>>
  <2>1. Upto(n, 0) \in [1..0 -> S]
    BY DEF Upto
  <2>2. Upto(n, 0) \in Seq(S) /\ Len(Upto(n, 0)) = 0
    BY <2>1, SeqDef
  <2> QED BY <2>2, EmptySeq
<1>7. \A j \in 0..i : Upto(Upto(n, i), j) = Upto(n, j)
  BY <1>1 DEF Upto
<1> QED BY <1>3, <1>4, <1>5, <1>6, <1>7

(* The tail of a token is a character, or none.                            *)
LEMMA TailFacts ==
  ASSUME NEW p \in Seq(Letters), NEW i \in 1..Len(p)
  PROVE  /\ TailOf(p, i) \in Chars \cup {""}
         /\ TypeOf(p[i]) \in {"Static", "CatchAll"} => TailOf(p, i) = ""
         /\ TypeOf(p[i]) \in {"Regexp", "Param"} =>
              /\ TailOf(p, i) = IF i < Len(p) THEN CharOf(p[i + 1]) ELSE "/"
              /\ TailOf(p, i) \in Chars
<1>1. p[i] \in Letters /\ TypeOf(p[i]) \in NodeTypes
  BY ElementOfSeq, LetterFacts
<1>2. i < Len(p) => CharOf(p[i + 1]) \in Chars
  <2>1. ASSUME i < Len(p)
        PROVE  p[i + 1] \in Letters
    <3>1. i + 1 \in 1..Len(p)
      BY <2>1
    <3> QED BY <3>1, ElementOfSeq
  <2> QED BY <2>1, LetterFacts
<1>3. "/" \in Chars
  BY CharAssumption
<1> QED BY <1>1, <1>2, <1>3 DEF TailOf, NodeTypes

(* No unclosed brace is among the first i tokens.                          *)
Closed(p, i) == \A j \in 1..i : p[j] \notin Unclosed

(* The name of a pattern up to i, and up to less than i.                   *)
LEMMA NameFacts ==
  ASSUME NEW p \in Seq(Letters), NEW i \in 0..Len(p), Closed(p, i)
  PROVE  /\ Name(p, i) \in Seq(Segs) /\ Len(Name(p, i)) = i
         /\ \A j \in 1..i : Name(p, i)[j] = <<Part(p[j]), TailOf(p, j)>>
         /\ \A j \in 0..i : Upto(Name(p, i), j) = Name(p, j)
<1>1. Len(p) \in Nat /\ i \in Nat
  OBVIOUS
<1>2. ASSUME NEW j \in 1..i
      PROVE  <<Part(p[j]), TailOf(p, j)>> \in Segs
  <2>1. j \in 1..Len(p) /\ p[j] \in Letters /\ p[j] \notin Unclosed
    BY <1>1, ElementOfSeq DEF Closed
  <2> QED BY <2>1, PartFacts, TailFacts DEF Segs
<1>3. Name(p, i) \in [1..i -> Segs]
  BY <1>2 DEF Name
<1>4. Name(p, i) \in Seq(Segs) /\ Len(Name(p, i)) = i
  BY <1>1, <1>3, SeqDef
<1>5. \A j \in 1..i : Name(p, i)[j] = <<Part(p[j]), TailOf(p, j)>>
  BY DEF Name
<1>6. \A j \in 0..i : Upto(Name(p, i), j) = Name(p, j)
  BY <1>1 DEF Upto, Name
<1> QED BY <1>4, <1>5, <1>6

-----------------------------------------------------------------------------
(* Loops                                                                   *)

(* The equation of a loop.                                                 *)
Loops(f, round, s) == f = [i \in Nat |-> IF i = 0 THEN s ELSE round[f[i - 1]]]

(* Up to n rounds.                                                         *)
LoopsTo(f, round, s, n) == f = [i \in 0..n |-> IF i = 0 THEN s ELSE round[f[i - 1]]]

(* What such a function is at a round.                                     *)
LEMMA LoopValue ==
  ASSUME NEW f, NEW round, NEW s, NEW n, LoopsTo(f, round, s, n), NEW i \in 0..n
  PROVE  f[i] = IF i = 0 THEN s ELSE round[f[i - 1]]
<1> DEFINE g == [j \in 0..n |-> IF j = 0 THEN s ELSE round[f[j - 1]]]
<1>1. g[i] = IF i = 0 THEN s ELSE round[f[i - 1]]
  OBVIOUS
<1>2. f = g
  BY DEF LoopsTo
<1> HIDE DEF g
<1> QED BY <1>1, <1>2

(* There is such a function for any number of rounds.                      *)
LEMMA LoopsToExist ==
  ASSUME NEW round, NEW s
  PROVE  \A n \in Nat : \E f : LoopsTo(f, round, s, n)
<1> DEFINE N == {n \in Nat : \E f : LoopsTo(f, round, s, n)}
<1>1. 0 \in N
  <2>1. LoopsTo([i \in 0..0 |-> s], round, s, 0)
    BY DEF LoopsTo
  <2> QED BY <2>1
<1>2. ASSUME NEW n \in Nat, n \in N
      PROVE  n + 1 \in N
  <2>1. PICK f : LoopsTo(f, round, s, n)
    BY <1>2
  <2> DEFINE h == [i \in 0..(n + 1) |-> IF i <= n THEN f[i] ELSE round[f[n]]]
  <2>2. ASSUME NEW i \in 0..(n + 1)
        PROVE  h[i] = IF i = 0 THEN s ELSE round[h[i - 1]]
    <3>1. CASE i <= n
      <4>1. i \in 0..n /\ (i # 0 => i - 1 \in 0..(n + 1) /\ i - 1 <= n)
        BY <3>1
      <4>2. f[i] = IF i = 0 THEN s ELSE round[f[i - 1]]
        BY <2>1, <4>1, LoopValue
      <4> QED BY <3>1, <4>1, <4>2
    <3>2. CASE i = n + 1
      <4>1. i # 0 /\ ~ (i <= n) /\ i - 1 = n /\ n \in 0..(n + 1) /\ n <= n
        BY <3>2
      <4> QED BY <4>1
    <3> QED BY <3>1, <3>2
  <2>3. h = [i \in 0..(n + 1) |-> h[i]]
    OBVIOUS
  <2> HIDE DEF h
  <2>4. h = [i \in 0..(n + 1) |-> IF i = 0 THEN s ELSE round[h[i - 1]]]
    BY <2>2, <2>3
  <2>5. LoopsTo(h, round, s, n + 1)
    BY <2>4 DEF LoopsTo
  <2>6. n + 1 \in Nat
    OBVIOUS
  <2> QED BY <2>5, <2>6
<1> HIDE DEF N
<1>3. Nat \subseteq N
  BY <1>1, <1>2, SetInduction
<1> QED BY <1>3 DEF N

(* Two of them agree.                                                      *)
LEMMA LoopsAgree ==
  ASSUME NEW round, NEW s, NEW f, NEW g, NEW n \in Nat, NEW m \in Nat,
         LoopsTo(f, round, s, n), LoopsTo(g, round, s, m)
  PROVE  \A i \in Nat : i <= n /\ i <= m => f[i] = g[i]
<1> DEFINE N == {i \in Nat : i <= n /\ i <= m => f[i] = g[i]}
<1>1. 0 \in N
  <2>1. 0 \in 0..n /\ 0 \in 0..m
    OBVIOUS
  <2>2. f[0] = s /\ g[0] = s
    BY <2>1, LoopValue
  <2> QED BY <2>2
<1>2. ASSUME NEW i \in Nat, i \in N
      PROVE  i + 1 \in N
  <2>1. ASSUME i + 1 <= n, i + 1 <= m
        PROVE  f[i + 1] = g[i + 1]
    <3>1. i + 1 \in 0..n /\ i + 1 \in 0..m /\ i + 1 # 0 /\ (i + 1) - 1 = i /\ i <= n /\ i <= m
      BY <2>1
    <3>2. f[i + 1] = round[f[(i + 1) - 1]] /\ g[i + 1] = round[g[(i + 1) - 1]]
      BY <3>1, LoopValue
    <3> QED BY <1>2, <3>1, <3>2
  <2>2. i + 1 \in Nat
    OBVIOUS
  <2> QED BY <2>1, <2>2
<1> HIDE DEF N
<1>3. Nat \subseteq N
  BY <1>1, <1>2, SetInduction
<1> QED BY <1>3 DEF N

(* There is one for any number of rounds.                                  *)
LEMMA LoopExists ==
  ASSUME NEW round, NEW s
  PROVE  \E f : Loops(f, round, s)
<1> DEFINE G(n) == CHOOSE g : LoopsTo(g, round, s, n)
           f == [i \in Nat |-> G(i)[i]]
<1>1. ASSUME NEW n \in Nat
      PROVE  LoopsTo(G(n), round, s, n)
  BY LoopsToExist
<1> HIDE DEF G
<1>2. ASSUME NEW i \in Nat
      PROVE  f[i] = IF i = 0 THEN s ELSE round[f[i - 1]]
  <2>1. f[i] = G(i)[i] /\ i \in 0..i
    OBVIOUS
  <2>2. G(i)[i] = IF i = 0 THEN s ELSE round[G(i)[i - 1]]
    BY <1>1, <2>1, LoopValue
  <2>3. ASSUME i # 0
        PROVE  f[i - 1] = G(i)[i - 1]
    <3>1. i - 1 \in Nat /\ i - 1 <= i /\ i - 1 <= i - 1
      BY <2>3
    <3>2. G(i - 1)[i - 1] = G(i)[i - 1]
      BY <1>1, <3>1, LoopsAgree
    <3> QED BY <3>1, <3>2
  <2> QED BY <2>1, <2>2, <2>3
<1>3. f = [i \in Nat |-> f[i]]
  OBVIOUS
<1> HIDE DEF f
<1>4. f = [i \in Nat |-> IF i = 0 THEN s ELSE round[f[i - 1]]]
  BY <1>2, <1>3
<1> QED BY <1>4 DEF Loops

(* No round, and one round more.                                           *)
LEMMA RoundsStep ==
  ASSUME NEW round, NEW s
  PROVE  /\ Rounds(round, s, 0) = s
         /\ \A n \in Nat : Rounds(round, s, n + 1) = round[Rounds(round, s, n)]
<1> DEFINE f == CHOOSE g : Loops(g, round, s)
<1>1. Loops(f, round, s)
  BY LoopExists
<1>2. \A n : Rounds(round, s, n) = f[n]
  BY DEF Rounds, Loops
<1> HIDE DEF f
<1>3. \A i \in Nat : f[i] = IF i = 0 THEN s ELSE round[f[i - 1]]
  <2> DEFINE g == [i \in Nat |-> IF i = 0 THEN s ELSE round[f[i - 1]]]
  <2>1. \A i \in Nat : g[i] = IF i = 0 THEN s ELSE round[f[i - 1]]
    OBVIOUS
  <2>2. f = g
    BY <1>1 DEF Loops
  <2> HIDE DEF g
  <2> QED BY <2>1, <2>2
<1>4. f[0] = s
  BY <1>3
<1>5. ASSUME NEW n \in Nat
      PROVE  f[n + 1] = round[f[n]]
  <2>1. n + 1 \in Nat /\ n + 1 # 0 /\ (n + 1) - 1 = n
    OBVIOUS
  <2>2. f[n + 1] = round[f[(n + 1) - 1]]
    BY <1>3, <2>1
  <2> QED BY <2>1, <2>2
<1> QED BY <1>2, <1>4, <1>5

(* What every round keeps, with the number of rounds counted, holds after  *)
(* any number of them.                                                     *)
LEMMA RoundsKeep ==
  ASSUME NEW round, NEW s, NEW T, s \in T[0],
         \A n \in Nat : \A x \in T[n] : round[x] \in T[n + 1]
  PROVE  \A n \in Nat : Rounds(round, s, n) \in T[n]
<1> DEFINE N == {n \in Nat : Rounds(round, s, n) \in T[n]}
<1>1. 0 \in N
  BY RoundsStep
<1>2. ASSUME NEW n \in Nat, n \in N
      PROVE  n + 1 \in N
  <2>1. Rounds(round, s, n + 1) = round[Rounds(round, s, n)] /\ n + 1 \in Nat
    BY RoundsStep
  <2> QED BY <1>2, <2>1
<1> HIDE DEF N
<1>3. Nat \subseteq N
  BY <1>1, <1>2, SetInduction
<1> QED BY <1>3 DEF N

(* What each of the first rounds keeps holds after them.                   *)
LEMMA RoundsKeepTo ==
  ASSUME NEW round, NEW s, NEW T, NEW last \in Nat, s \in T[0],
         \A n \in Nat : n < last => \A x \in T[n] : round[x] \in T[n + 1]
  PROVE  \A n \in 0..last : Rounds(round, s, n) \in T[n]
<1> DEFINE N == {n \in Nat : n <= last => Rounds(round, s, n) \in T[n]}
<1>1. 0 \in N
  BY RoundsStep
<1>2. ASSUME NEW n \in Nat, n \in N
      PROVE  n + 1 \in N
  <2>1. Rounds(round, s, n + 1) = round[Rounds(round, s, n)] /\ n + 1 \in Nat
    BY RoundsStep
  <2>2. n + 1 <= last => n <= last /\ n < last
    OBVIOUS
  <2> QED BY <1>2, <2>1, <2>2
<1> HIDE DEF N
<1>3. Nat \subseteq N
  BY <1>1, <1>2, SetInduction
<1>4. \A n \in 0..last : n \in Nat /\ n <= last
  OBVIOUS
<1> QED BY <1>3, <1>4 DEF N

(* All the rounds of a loop that stays in a set.                           *)
AllRounds(f, D, round, s) ==
  /\ f = [i \in Nat |-> f[i]]
  /\ f[0] = s
  /\ \A i \in Nat : f[i] \in D /\ f[i + 1] = round[f[i]]

(* There are such rounds.                                                  *)
LEMMA RoundsStay ==
  ASSUME NEW D, NEW round \in [D -> D], NEW s \in D
  PROVE  \E f : AllRounds(f, D, round, s)
<1> DEFINE f == [i \in Nat |-> Rounds(round, s, i)]
           T == [i \in Nat |-> D]
<1>1. f = [i \in Nat |-> f[i]]
  OBVIOUS
<1>2. f[0] = s
  BY RoundsStep
<1>3. s \in T[0] /\ \A n \in Nat : \A x \in T[n] : round[x] \in T[n + 1]
  OBVIOUS
<1>4. \A n \in Nat : Rounds(round, s, n) \in T[n]
  <2> HIDE DEF T
  <2> QED BY <1>3, RoundsKeep
<1>5. ASSUME NEW i \in Nat
      PROVE  f[i] \in D /\ f[i + 1] = round[f[i]]
  <2>1. Rounds(round, s, i) \in D
    BY <1>4
  <2>2. Rounds(round, s, i + 1) = round[Rounds(round, s, i)]
    BY RoundsStep
  <2>3. f[i] = Rounds(round, s, i) /\ f[i + 1] = Rounds(round, s, i + 1)
    OBVIOUS
  <2> QED BY <2>1, <2>2, <2>3
<1> HIDE DEF f
<1>6. AllRounds(f, D, round, s)
  BY <1>1, <1>2, <1>5 DEF AllRounds
<1> QED BY <1>6

-----------------------------------------------------------------------------
(* Lists of children                                                       *)

(* The character order is an order.                                        *)
LEMMA CodeFacts ==
  ASSUME NEW c \in Chars
  PROVE  /\ Code[c] \in Nat
         /\ \A d \in Chars : Code[c] = Code[d] => c = d
<1>1. \A d \in Chars : \E i \in DOMAIN Alphabet : Alphabet[i] = d
  BY DEF Chars, ToSet
<1>2. \A d \in Chars : Code[d] \in DOMAIN Alphabet /\ Alphabet[Code[d]] = d
  BY <1>1 DEF Code
<1>3. DOMAIN Alphabet = 1..Len(Alphabet) /\ Len(Alphabet) \in Nat
  BY CharAssumption, LenProperties
<1> QED BY <1>2, <1>3

(* A list with an element put at a place.                                  *)
LEMMA InsertFacts ==
  ASSUME NEW S, NEW s \in Seq(S), NEW i \in 1..(Len(s) + 1), NEW e \in S
  PROVE  /\ InsertAt(s, i, e) \in Seq(S)
         /\ Len(InsertAt(s, i, e)) = Len(s) + 1
         /\ \A j \in 1..(Len(s) + 1) :
              InsertAt(s, i, e)[j] = IF j < i THEN s[j] ELSE IF j = i THEN e ELSE s[j - 1]
<1> DEFINE a == SubSeq(s, 1, i - 1)
           b == SubSeq(s, i, Len(s))
<1>1. Len(s) \in Nat /\ i \in Nat
  OBVIOUS
<1>2. a \in Seq(S) /\ Len(a) = i - 1 /\ \A j \in 1..(i - 1) : a[j] = s[j]
  <2>1. 1 \in Int /\ i - 1 \in Int /\ \A j \in 1..(i - 1) : s[j] \in S
    BY <1>1, ElementOfSeq
  <2>2. /\ a \in Seq(S) /\ Len(a) = IF 1 <= i - 1 THEN (i - 1) - 1 + 1 ELSE 0
        /\ \A j \in 1..((i - 1) - 1 + 1) : a[j] = s[1 + j - 1]
    BY <2>1, SubSeqProperties
  <2> QED BY <1>1, <2>2
<1>3. b \in Seq(S) /\ Len(b) = Len(s) - i + 1 /\ \A j \in 1..(Len(s) - i + 1) : b[j] = s[i + j - 1]
  <2>1. i \in Int /\ Len(s) \in Int /\ \A j \in i..Len(s) : s[j] \in S
    BY <1>1, ElementOfSeq
  <2>2. /\ b \in Seq(S) /\ Len(b) = IF i <= Len(s) THEN Len(s) - i + 1 ELSE 0
        /\ \A j \in 1..(Len(s) - i + 1) : b[j] = s[i + j - 1]
    BY <2>1, SubSeqProperties
  <2> QED BY <1>1, <2>2
<1>4. <<e>> \in Seq(S) /\ Len(<<e>>) = 1 /\ <<e>>[1] = e
  OBVIOUS
<1> HIDE DEF a, b
<1>5. /\ a \o <<e>> \in Seq(S) /\ Len(a \o <<e>>) = i
      /\ \A j \in 1..i : (a \o <<e>>)[j] = IF j <= i - 1 THEN a[j] ELSE <<e>>[j - (i - 1)]
  BY <1>1, <1>2, <1>4, ConcatProperties
<1>6. \A j \in 1..i : (a \o <<e>>)[j] = IF j < i THEN s[j] ELSE e
  BY <1>1, <1>2, <1>4, <1>5
<1> DEFINE c == a \o <<e>>
<1> HIDE DEF c
<1>7. /\ c \o b \in Seq(S) /\ Len(c \o b) = Len(c) + Len(b)
      /\ \A j \in 1..(Len(c) + Len(b)) : (c \o b)[j] = IF j <= Len(c) THEN c[j] ELSE b[j - Len(c)]
  <2>1. c \in Seq(S)
    BY <1>5 DEF c
  <2> QED BY <1>3, <2>1, ConcatProperties
<1>8. Len(c) = i /\ \A j \in 1..i : c[j] = IF j < i THEN s[j] ELSE e
  BY <1>5, <1>6 DEF c
<1>9. InsertAt(s, i, e) = c \o b
  BY DEF InsertAt, a, b, c
<1>10. Len(c) + Len(b) = Len(s) + 1
  BY <1>1, <1>3, <1>8
<1>11. ASSUME NEW j \in 1..(Len(s) + 1)
       PROVE  (c \o b)[j] = IF j < i THEN s[j] ELSE IF j = i THEN e ELSE s[j - 1]
  <2>1. j \in Nat /\ (j < i \/ j = i \/ j > i)
    BY <1>1
  <2>2. CASE j < i
    <3>1. j \in 1..i /\ j <= i
      BY <1>1, <2>1, <2>2
    <3>2. (c \o b)[j] = c[j] /\ c[j] = s[j]
      BY <1>7, <1>8, <1>10, <2>2, <3>1
    <3> QED BY <2>2, <3>2
  <2>3. CASE j = i
    <3>1. i \in 1..i /\ i <= i /\ ~ (i < i)
      BY <1>1
    <3>2. (c \o b)[i] = c[i] /\ c[i] = e
      BY <1>7, <1>8, <1>10, <2>3, <3>1
    <3> QED BY <2>3, <3>1, <3>2
  <2>4. CASE j > i
    <3>1. j - i \in 1..(Len(s) - i + 1) /\ i + (j - i) - 1 = j - 1
      BY <1>1, <2>4
    <3>2. b[j - i] = s[j - 1]
      BY <1>3, <3>1
    <3>3. ~ (j <= i) /\ ~ (j < i) /\ ~ (j = i)
      BY <1>1, <2>1, <2>4
    <3>4. (c \o b)[j] = b[j - i]
      BY <1>7, <1>8, <1>10, <3>3
    <3> QED BY <3>2, <3>3, <3>4
  <2> QED BY <2>1, <2>2, <2>3, <2>4
<1> QED BY <1>7, <1>9, <1>10, <1>11

(* The lists that hold what a list holds, in any order.                    *)
Arrangements(ks, D) ==
  {l \in Seq(D) : Len(l) = Len(ks) /\ ToSet(l) = ToSet(ks) /\ IsInjective(l)}

(* Two elements change places.                                             *)
LEMMA SwapFacts ==
  ASSUME NEW D, NEW ks \in Seq(D), IsInjective(ks), NEW i \in 1..Len(ks),
         NEW r, r = [ks EXCEPT ![i] = ks[Len(ks)], ![Len(ks)] = ks[i]]
  PROVE  /\ r \in Arrangements(ks, D)
         /\ \A j \in 1..Len(ks) : r[j] = IF j = Len(ks) THEN ks[i]
                                         ELSE IF j = i THEN ks[Len(ks)] ELSE ks[j]
<1> DEFINE n == Len(ks)
<1>1. n \in Nat /\ n \in 1..n /\ i \in 1..n /\ ks \in [1..n -> D]
  BY LenProperties
<1>2. \A j \in 1..n : r[j] = IF j = n THEN ks[i] ELSE IF j = i THEN ks[n] ELSE ks[j]
  BY <1>1
<1>3. r \in [1..n -> D]
  BY <1>1
<1>4. r \in Seq(D) /\ Len(r) = n /\ DOMAIN r = 1..n /\ DOMAIN ks = 1..n
  <2>1. DOMAIN r = 1..n /\ DOMAIN ks = 1..n
    BY <1>1, <1>3
  <2>2. r \in Seq(D)
    <3>1. n \in Nat
      BY <1>1
    <3>2. \E k \in Nat : r \in [1..k -> D]
      BY <1>3, <3>1
    <3> QED BY <3>2, SeqDef
  <2>3. n \in Nat /\ DOMAIN r = 1..n => Len(r) = n
    BY <2>2
  <2> QED BY <1>1, <2>1, <2>2, <2>3
<1>5. \A a, b \in 1..n : ks[a] = ks[b] => a = b
  BY <1>4 DEF IsInjective
<1> HIDE DEF n
<1>6. IsInjective(r)
  BY <1>1, <1>2, <1>4, <1>5 DEF IsInjective
<1>7. ASSUME NEW x \in ToSet(r)
      PROVE  x \in ToSet(ks)
  BY <1>1, <1>2, <1>4 DEF ToSet
<1>8. ASSUME NEW x \in ToSet(ks)
      PROVE  x \in ToSet(r)
  <2>1. PICK j \in 1..n : x = ks[j]
    BY <1>4 DEF ToSet
  <2>2. \E l \in 1..n : x = r[l]
    <3>1. CASE j = n
      BY <1>1, <1>2, <2>1, <3>1
    <3>2. CASE j # n /\ j = i
      BY <1>1, <1>2, <2>1, <3>2
    <3>3. CASE j # n /\ j # i
      BY <1>1, <1>2, <2>1, <3>3
    <3> QED BY <3>1, <3>2, <3>3
  <2> QED BY <1>4, <2>2 DEF ToSet
<1>9. ToSet(r) = ToSet(ks)
  BY <1>7, <1>8
<1>10. r \in Arrangements(ks, D)
  BY <1>4, <1>6, <1>9 DEF Arrangements, n
<1> QED BY <1>2, <1>10 DEF n

(* A node that the last loop of nodes_sort moves.                          *)
Slashy(t, k) == t[k].typ # "Static" /\ t[k].tail = "/"

(* At most one of them is among these.                                     *)
OneSlashy(t, ks) ==
  \A k, l \in ToSet(ks) : Slashy(t, k) /\ Slashy(t, l) => k = l

AllStatic(t, ks) == \A k \in ToSet(ks) : t[k].typ = "Static"

(* What the last loop of nodes_sort does to a list.                        *)
LEMMA TailSortFacts ==
  ASSUME NEW t, NEW kids \in Seq(DOMAIN t), IsInjective(kids)
  PROVE  /\ TailSort(t, kids) \in Arrangements(kids, DOMAIN t)
         /\ AllStatic(t, kids) => TailSort(t, kids) = kids
         /\ OneSlashy(t, kids) => \A j \in 1..(Len(kids) - 1) : ~ Slashy(t, TailSort(t, kids)[j])
<1> DEFINE D == DOMAIN t
           n == Len(kids)
           swap == [s \in Nat \X Seq(DOMAIN t) |->
                 LET i == s[1]
                     ks == s[2]
                 IN  <<i - 1, IF t[ks[i]].typ # "Static" /\ t[ks[i]].tail = "/"
                              THEN [ks EXCEPT ![i] = ks[n], ![n] = ks[i]] ELSE ks>>]
           Fine(m, ks) ==
             /\ ks \in Arrangements(kids, D)
             /\ AllStatic(t, kids) => ks = kids
             /\ OneSlashy(t, kids) => \A j \in (n - m + 1)..(n - 1) : ~ Slashy(t, ks[j])
           T == [m \in Nat |-> {s \in Int \X Seq(D) : s[1] = n - m /\ Fine(m, s[2])}]
<1>1. TailSort(t, kids) = Rounds(swap, <<n, kids>>, n)[2]
  BY DEF TailSort
<1>2. n \in Nat
  OBVIOUS
<1>3. <<n, kids>> \in T[0]
  <2>1. kids \in Arrangements(kids, D)
    BY DEF Arrangements
  <2>2. \A j \in (n - 0 + 1)..(n - 1) : FALSE
    BY <1>2
  <2> QED BY <1>2, <2>1, <2>2
<1>4. ASSUME NEW m \in Nat, m < n, NEW s \in T[m]
      PROVE  swap[s] \in T[m + 1]
  <2> DEFINE i == s[1]
             ks == s[2]
             r == IF Slashy(t, ks[i]) THEN [ks EXCEPT ![i] = ks[n], ![n] = ks[i]] ELSE ks
  <2>1. i = n - m /\ i \in 1..n /\ ks \in Seq(D) /\ Fine(m, ks)
    BY <1>2, <1>4
  <2>2. s \in Nat \X Seq(DOMAIN t)
    BY <1>2, <1>4, <2>1
  <2>3. swap[s] = <<i - 1, r>>
    BY <2>2 DEF Slashy
  <2>4. Len(ks) = n /\ ToSet(ks) = ToSet(kids) /\ IsInjective(ks)
    BY <2>1 DEF Arrangements
  <2> HIDE DEF swap, T, i, ks
  <2>5. r \in Arrangements(kids, D)
    <3>1. Slashy(t, ks[i]) => r \in Arrangements(ks, D)
      BY <2>1, <2>4, SwapFacts
    <3>2. Arrangements(ks, D) = Arrangements(kids, D)
      BY <2>4 DEF Arrangements
    <3> QED BY <2>1, <3>1, <3>2
  <2>6. AllStatic(t, kids) => r = kids
    <3>1. ASSUME AllStatic(t, kids)
          PROVE  ks = kids /\ ~ Slashy(t, ks[i])
      <4>1. ks[i] \in ToSet(ks)
        BY <2>1, <2>4 DEF ToSet
      <4> QED BY <2>1, <2>4, <3>1, <4>1 DEF AllStatic, Slashy
    <3> QED BY <3>1
  <2>7. ASSUME OneSlashy(t, kids), NEW j \in (n - (m + 1) + 1)..(n - 1)
        PROVE  ~ Slashy(t, r[j])
    <3>1. j \in 1..n /\ j # n /\ (j = i \/ j \in (n - m + 1)..(n - 1))
      BY <1>2, <1>4, <2>1
    <3>2. CASE Slashy(t, ks[i])
      <4>1. r[j] = IF j = i THEN ks[n] ELSE ks[j]
        BY <2>1, <2>4, <3>1, <3>2, SwapFacts
      <4>2. j = i => ~ Slashy(t, ks[n])
        <5>1. ASSUME j = i, Slashy(t, ks[n])
              PROVE  FALSE
          <6>1. n \in DOMAIN ks /\ i \in DOMAIN ks
            BY <1>2, <2>1, <2>4, <3>1
          <6>2. ks[n] = ks[i]
            BY <2>4, <2>7, <3>2, <5>1, <6>1 DEF OneSlashy, ToSet
          <6> QED BY <2>4, <3>1, <5>1, <6>1, <6>2 DEF IsInjective
        <5> QED BY <5>1
      <4> QED BY <2>1, <2>7, <3>1, <4>1, <4>2
    <3>3. CASE ~ Slashy(t, ks[i])
      BY <2>1, <2>7, <3>1, <3>3
    <3> QED BY <3>2, <3>3
  <2>8. Fine(m + 1, r)
    BY <2>5, <2>6, <2>7
  <2>9. <<i - 1, r>> \in Int \X Seq(D) /\ i - 1 = n - (m + 1) /\ m + 1 \in Nat
    <3> HIDE DEF Fine, r
    <3>1. i - 1 \in Int /\ i - 1 = n - (m + 1) /\ m + 1 \in Nat
      BY <1>2, <2>1
    <3>2. r \in Seq(D)
      BY <2>5 DEF Arrangements
    <3> QED BY <3>1, <3>2
  <2> HIDE DEF Fine, r, D
  <2>10. <<i - 1, r>> \in {x \in Int \X Seq(D) : x[1] = n - (m + 1) /\ Fine(m + 1, x[2])}
    BY <2>8, <2>9
  <2> QED BY <2>3, <2>9, <2>10 DEF T
<1>5. \A m \in 0..n : Rounds(swap, <<n, kids>>, m) \in T[m]
  <2> HIDE DEF T, swap
  <2> QED BY <1>2, <1>3, <1>4, RoundsKeepTo
<1>6. Rounds(swap, <<n, kids>>, n) \in T[n] /\ n \in Nat
  <2>1. n \in 0..n
    BY <1>2
  <2> HIDE DEF T, swap
  <2> QED BY <1>2, <1>5, <2>1
<1>7. Fine(n, TailSort(t, kids))
  <2> HIDE DEF swap, Fine
  <2> QED BY <1>1, <1>6
<1>8. \A j \in 1..(n - 1) : j \in (n - n + 1)..(n - 1)
  BY <1>2
<1> QED BY <1>7, <1>8

(* The labels of a list ascend.                                            *)
Ascending(t, ks) ==
  \A i, j \in DOMAIN ks : i < j => Code[t[ks[i]].label] < Code[t[ks[j]].label]

(* The labels of a list are characters, and another one than this.         *)
OtherLabels(t, ks, label) ==
  /\ label \in Chars
  /\ \A k \in ToSet(ks) : t[k].label \in Chars /\ t[k].label # label

(* Where a child goes before the last loop.                                *)
Inserted(t, kids, child) ==
  LET at == SelectInSeq(kids, LAMBDA k : Code[t[child].label] < Code[t[k].label])
  IN  IF at = 0 THEN Append(kids, child) ELSE InsertAt(kids, at, child)

(* One element more in a list, behind those that are less.                 *)
LEMMA InsertedFacts ==
  ASSUME NEW t, NEW kids \in Seq(DOMAIN t), IsInjective(kids),
         NEW child \in DOMAIN t, child \notin ToSet(kids)
  PROVE  /\ Inserted(t, kids, child) \in Seq(DOMAIN t)
         /\ Len(Inserted(t, kids, child)) = Len(kids) + 1
         /\ IsInjective(Inserted(t, kids, child))
         /\ ToSet(Inserted(t, kids, child)) = ToSet(kids) \cup {child}
         /\ Ascending(t, kids) /\ OtherLabels(t, kids, t[child].label) =>
              Ascending(t, Inserted(t, kids, child))
<1> DEFINE D == DOMAIN t
           n == Len(kids)
           Later(i) == Code[t[child].label] < Code[t[kids[i]].label]
           I == {i \in 1..n : Later(i)}
           at == SelectInSeq(kids, LAMBDA k : Code[t[child].label] < Code[t[k].label])
           p == IF at = 0 THEN n + 1 ELSE at
           s == Inserted(t, kids, child)
<1>1. n \in Nat /\ DOMAIN kids = 1..n
  OBVIOUS
<1>2. at = IF I # {} THEN Min(I) ELSE 0
  BY DEF SelectInSeq
<1>3. p \in 1..(n + 1) /\ (\A j \in 1..(p - 1) : ~ Later(j)) /\ (p <= n => Later(p))
  <2>1. CASE I = {}
    <3>1. at = 0 /\ p = n + 1
      BY <1>2, <2>1
    <3>2. \A j \in 1..(p - 1) : j \in 1..n
      BY <1>1, <3>1
    <3>3. \A j \in 1..n : ~ Later(j)
      BY <2>1
    <3> HIDE DEF Later, at, p
    <3> QED BY <1>1, <3>1, <3>2, <3>3
  <2>2. CASE I # {}
    <3>1. I \in SUBSET Nat
      OBVIOUS
    <3> HIDE DEF at
    <3>2. at \in I /\ \A y \in I : at <= y
      <4> HIDE DEF I
      <4> QED BY <1>2, <2>2, <3>1, MinIsLeast
    <3>3. p = at /\ p \in 1..n
      BY <3>2
    <3>4. ASSUME NEW j \in 1..(p - 1)
          PROVE  ~ Later(j)
      <4>1. j \in 1..n /\ ~ (p <= j)
        BY <1>1, <3>3
      <4> HIDE DEF Later, p
      <4> QED BY <3>2, <3>3, <4>1
    <3> HIDE DEF Later, p
    <3> QED BY <3>2, <3>3, <3>4
  <2> QED BY <2>1, <2>2
<1>4. /\ s \in Seq(D) /\ Len(s) = n + 1
      /\ \A j \in 1..(n + 1) : s[j] = IF j < p THEN kids[j] ELSE IF j = p THEN child ELSE kids[j - 1]
  <2>1. CASE at = 0
    <3>1. s = Append(kids, child)
      BY <2>1 DEF Inserted
    <3>2. /\ Append(kids, child) \in Seq(D) /\ Len(Append(kids, child)) = n + 1
          /\ \A j \in 1..n : Append(kids, child)[j] = kids[j]
          /\ Append(kids, child)[n + 1] = child
      BY AppendProperties
    <3> HIDE DEF s, at
    <3> QED BY <1>1, <2>1, <3>1, <3>2
  <2>2. CASE at # 0
    <3>1. s = InsertAt(kids, at, child) /\ p = at
      BY <2>2 DEF Inserted
    <3> HIDE DEF s, at, p, D
    <3>2. at \in 1..(Len(kids) + 1) /\ kids \in Seq(D) /\ child \in D
      BY <1>3, <3>1 DEF D
    <3>3. /\ InsertAt(kids, at, child) \in Seq(D)
          /\ Len(InsertAt(kids, at, child)) = Len(kids) + 1
          /\ \A j \in 1..(Len(kids) + 1) :
              InsertAt(kids, at, child)[j] = IF j < at THEN kids[j] ELSE IF j = at THEN child ELSE kids[j - 1]
      BY <3>2, InsertFacts
    <3> QED BY <3>1, <3>3
  <2> QED BY <2>1, <2>2
<1> HIDE DEF p, s, at
<1>5. DOMAIN s = 1..(n + 1)
  BY <1>1, <1>4
<1>6. \A i, j \in 1..n : kids[i] = kids[j] => i = j
  BY <1>1 DEF IsInjective
<1>7. \A i \in 1..n : kids[i] # child /\ kids[i] \in ToSet(kids)
  BY <1>1 DEF ToSet
<1> HIDE DEF n
<1>8. IsInjective(s)
  <2>1. ASSUME NEW i \in 1..(n + 1), NEW j \in 1..(n + 1), s[i] = s[j]
        PROVE  i = j
    <3>1. (i < p => i \in 1..n) /\ (j < p => j \in 1..n) /\ (i > p => i - 1 \in 1..n) /\ (j > p => j - 1 \in 1..n)
      BY <1>1, <1>3
    <3> QED BY <1>1, <1>3, <1>4, <1>6, <1>7, <2>1, <3>1
  <2> QED BY <1>5, <2>1 DEF IsInjective
<1>9. ToSet(s) = ToSet(kids) \cup {child}
  <2>1. ASSUME NEW i \in 1..(n + 1)
        PROVE  s[i] \in ToSet(kids) \cup {child}
    <3>1. (i < p => i \in 1..n) /\ (i > p => i - 1 \in 1..n)
      BY <1>1, <1>3
    <3> QED BY <1>1, <1>3, <1>4, <1>7, <3>1
  <2>2. ASSUME NEW i \in 1..n
        PROVE  \E j \in 1..(n + 1) : s[j] = kids[i]
    <3>1. i \in 1..(n + 1) /\ i + 1 \in 1..(n + 1) /\ (i + 1) - 1 = i
      BY <1>1
    <3>2. i < p => s[i] = kids[i]
      BY <1>4, <3>1
    <3>3. ~ (i < p) => s[i + 1] = kids[i]
      BY <1>1, <1>3, <1>4, <3>1
    <3> QED BY <3>1, <3>2, <3>3
  <2>3. s[p] = child
    BY <1>3, <1>4
  <2>4. ToSet(s) = {s[j] : j \in 1..(n + 1)} /\ ToSet(kids) = {kids[j] : j \in 1..n}
    BY <1>1, <1>5 DEF ToSet
  <2> QED BY <1>3, <2>1, <2>2, <2>3, <2>4
<1>10. ASSUME Ascending(t, kids), OtherLabels(t, kids, t[child].label),
              NEW i \in 1..(n + 1), NEW j \in 1..(n + 1), i < j
       PROVE  Code[t[s[i]].label] < Code[t[s[j]].label]
  <2> DEFINE c(k) == Code[t[k].label]
  <2>1. c(child) \in Nat /\ \A k \in ToSet(kids) : c(k) \in Nat /\ c(k) # c(child)
    BY <1>10, CodeFacts DEF OtherLabels
  <2>2. \A a, b \in 1..n : a < b => c(kids[a]) < c(kids[b])
    BY <1>1, <1>10 DEF Ascending
  <2>3. \A a \in 1..n : c(kids[a]) \in Nat /\ c(kids[a]) # c(child)
    BY <1>7, <2>1
  <2>4. \A a \in 1..n : a < p => c(kids[a]) < c(child)
    <3>1. ASSUME NEW a \in 1..n, a < p
          PROVE  c(kids[a]) < c(child)
      <4>1. a \in 1..(p - 1)
        BY <1>1, <1>3, <3>1
      <4>2. ~ (c(child) < c(kids[a]))
        BY <1>3, <4>1
      <4> QED BY <2>1, <2>3, <4>2
    <3> QED BY <3>1
  <2>5. \A a \in 1..n : ~ (a < p) => c(child) < c(kids[a])
    <3>1. ASSUME NEW a \in 1..n, ~ (a < p)
          PROVE  c(child) < c(kids[a])
      <4>1. p <= n /\ p \in 1..n /\ (p = a \/ p < a)
        BY <1>1, <1>3, <3>1
      <4>2. c(child) < c(kids[p])
        BY <1>3, <4>1
      <4> HIDE DEF c
      <4> QED BY <2>1, <2>2, <2>3, <4>1, <4>2
    <3> QED BY <3>1
  <2> HIDE DEF c
  <2>6. c(s[i]) < c(s[j])
    <3>1. CASE j < p
      <4>1. i \in 1..n /\ j \in 1..n /\ i < p
        BY <1>1, <1>3, <1>10, <3>1
      <4> QED BY <1>4, <1>10, <2>2, <3>1, <4>1
    <3>2. CASE j = p
      <4>1. i \in 1..n /\ i < p
        BY <1>1, <1>3, <1>10, <3>2
      <4>2. s[i] = kids[i] /\ s[j] = child
        BY <1>4, <1>10, <3>2, <4>1
      <4> QED BY <2>4, <4>1, <4>2
    <3>3. CASE j > p
      <4>1. j - 1 \in 1..n /\ ~ (j < p) /\ j # p /\ ~ (j - 1 < p)
        BY <1>1, <1>3, <3>3
      <4>2. s[j] = kids[j - 1]
        BY <1>4, <4>1
      <4>3. CASE i < p
        <5>1. i \in 1..n /\ s[i] = kids[i] /\ i < j - 1
          BY <1>1, <1>3, <1>4, <4>1, <4>3
        <5> QED BY <2>2, <4>1, <4>2, <5>1
      <4>4. CASE i = p
        BY <1>4, <2>5, <4>1, <4>2, <4>4
      <4>5. CASE i > p
        <5>1. i - 1 \in 1..n /\ i - 1 < j - 1 /\ ~ (i < p) /\ i # p
          BY <1>1, <1>3, <1>10, <4>5
        <5>2. s[i] = kids[i - 1]
          BY <1>4, <5>1
        <5> QED BY <2>2, <4>1, <4>2, <5>1, <5>2
      <4> QED BY <1>1, <1>3, <4>3, <4>4, <4>5
    <3> QED BY <1>1, <1>3, <3>1, <3>2, <3>3
  <2> QED BY <2>6 DEF c
<1>11. Ascending(t, kids) /\ OtherLabels(t, kids, t[child].label) => Ascending(t, s)
  BY <1>5, <1>10 DEF Ascending
<1> QED BY <1>4, <1>8, <1>9, <1>11 DEF s, n

(* What a list of children is after add_child.                             *)
LEMMA SortedWithFacts ==
  ASSUME NEW t, NEW kids \in Seq(DOMAIN t), IsInjective(kids),
         NEW child \in DOMAIN t, child \notin ToSet(kids)
  PROVE  /\ SortedWith(t, kids, child) \in Seq(DOMAIN t)
         /\ IsInjective(SortedWith(t, kids, child))
         /\ ToSet(SortedWith(t, kids, child)) = ToSet(kids) \cup {child}
         /\ /\ AllStatic(t, kids) /\ t[child].typ = "Static"
            /\ Ascending(t, kids) /\ OtherLabels(t, kids, t[child].label)
            => Ascending(t, SortedWith(t, kids, child))
         /\ (\A k, l \in ToSet(kids) \cup {child} : Slashy(t, k) /\ Slashy(t, l) => k = l) =>
              \A i, j \in DOMAIN SortedWith(t, kids, child) :
                i < j => ~ Slashy(t, SortedWith(t, kids, child)[i])
<1> DEFINE s == Inserted(t, kids, child)
           r == SortedWith(t, kids, child)
<1>1. /\ s \in Seq(DOMAIN t) /\ Len(s) = Len(kids) + 1 /\ IsInjective(s)
      /\ ToSet(s) = ToSet(kids) \cup {child}
      /\ Ascending(t, kids) /\ OtherLabels(t, kids, t[child].label) => Ascending(t, s)
  BY InsertedFacts
<1>2. r = TailSort(t, s)
  BY DEF SortedWith, Inserted
<1> HIDE DEF r, s
<1>3. /\ r \in Arrangements(s, DOMAIN t)
      /\ AllStatic(t, s) => r = s
      /\ OneSlashy(t, s) => \A j \in 1..(Len(s) - 1) : ~ Slashy(t, r[j])
  BY <1>1, <1>2, TailSortFacts
<1>4. r \in Seq(DOMAIN t) /\ Len(r) = Len(s) /\ IsInjective(r) /\ ToSet(r) = ToSet(kids) \cup {child}
  BY <1>1, <1>3 DEF Arrangements
<1>5. AllStatic(t, kids) /\ t[child].typ = "Static" => AllStatic(t, s)
  BY <1>1 DEF AllStatic
<1>6. ASSUME \A k, l \in ToSet(kids) \cup {child} : Slashy(t, k) /\ Slashy(t, l) => k = l,
             NEW i \in DOMAIN r, NEW j \in DOMAIN r, i < j
      PROVE  ~ Slashy(t, r[i])
  <2>1. OneSlashy(t, s)
    BY <1>1, <1>6 DEF OneSlashy
  <2>2. i \in 1..(Len(s) - 1)
    BY <1>4, <1>6
  <2> QED BY <1>3, <2>1, <2>2
<1> QED BY <1>1, <1>3, <1>4, <1>5, <1>6 DEF r

-----------------------------------------------------------------------------
(* Where a node is                                                         *)

(* A node is below another one.                                            *)
LEMMA PlaceFacts ==
  ASSUME NEW t, Typed(t), AllNamed(t), NEW k \in NonRoot(t)
  PROVE  /\ k \in Seq(Segs) /\ k \in DOMAIN t /\ Len(k) \in Nat
         /\ Size(t[k]) \in 1..Len(k)
         /\ Depth(t, k) \in 0..(Len(k) - 1) /\ Depth(t, k) + Size(t[k]) = Len(k)
         /\ Above(t, k) \in DOMAIN t /\ Above(t, k) \in Seq(Segs)
         /\ Len(Above(t, k)) = Depth(t, k)
         /\ Segment(t, k) \in Segs
         /\ \A j \in 0..Depth(t, k) : Upto(Above(t, k), j) = Upto(k, j)
<1>1. k \in DOMAIN t /\ k \in Seq(Segs)
  BY DEF NonRoot, Typed
<1>2. Size(t[k]) \in 1..Len(k) /\ Above(t, k) \in DOMAIN t
  BY DEF AllNamed, Named
<1>3. Len(k) \in Nat
  BY <1>1
<1>4. Depth(t, k) \in 0..(Len(k) - 1) /\ Depth(t, k) + Size(t[k]) = Len(k)
  <2> DEFINE size == Size(t[k])
  <2>1. size \in 1..Len(k) /\ Depth(t, k) = Len(k) - size
    BY <1>2 DEF Depth
  <2> HIDE DEF size
  <2>2. Depth(t, k) \in 0..(Len(k) - 1) /\ Depth(t, k) + size = Len(k)
    BY <1>3, <2>1
  <2> QED BY <2>2 DEF size
<1>5. Depth(t, k) \in 0..Len(k) /\ Depth(t, k) + 1 \in 1..Len(k)
  BY <1>3, <1>4
<1>6. /\ Above(t, k) \in Seq(Segs) /\ Len(Above(t, k)) = Depth(t, k)
      /\ \A j \in 0..Depth(t, k) : Upto(Above(t, k), j) = Upto(k, j)
  BY <1>1, <1>5, UptoFacts DEF Above
<1>7. Segment(t, k) \in Segs
  BY <1>1, <1>5, ElementOfSeq DEF Segment
<1> QED BY <1>1, <1>2, <1>3, <1>4, <1>6, <1>7

(* A node m is on the way from the root to n.                              *)
Leads(m, n) == Len(m) <= Len(n) /\ Upto(n, Len(m)) = m

(* A child of n that is on the way to m.                                   *)
Toward(t, n, m, k) ==
  /\ k \in NonRoot(t) /\ Above(t, k) = n
  /\ Len(n) < Len(k) /\ Leads(k, m)
  /\ Segment(t, k) = m[Len(n) + 1]

(* The way from one node to what is below it begins with a child of it.    *)
LEMMA KidToward ==
  ASSUME NEW t, Typed(t), AllNamed(t), SiblingsDiffer(t)
  PROVE  \A n \in DOMAIN t, m \in DOMAIN t :
           Leads(n, m) /\ n # m => \E k : Toward(t, n, m, k)
<1> DEFINE Bad(n, m) == Leads(n, m) /\ n # m /\ ~ \E k : Toward(t, n, m, k)
           Lost == {n \in DOMAIN t : \E m \in DOMAIN t : Bad(n, m)}
           L == {Len(n) : n \in Lost}
<1>1. \A x \in DOMAIN t : x \in Seq(Segs) /\ Len(x) \in Nat
  BY DEF Typed
<1>2. SUFFICES ASSUME Lost # {}
               PROVE  FALSE
  OBVIOUS
<1>3. PICK n \in Lost : \A x \in Lost : Len(n) <= Len(x)
  <2>1. L \in SUBSET Nat /\ L # {}
    BY <1>1, <1>2
  <2>2. \E l \in L : \A y \in L : l <= y
    <3> HIDE DEF L
    <3> QED BY <2>1, LeastExists
  <2> QED BY <2>2
<1>4. PICK m \in DOMAIN t : Bad(n, m)
  OBVIOUS
<1>5. n \in DOMAIN t /\ Leads(n, m) /\ n # m /\ Len(n) \in Nat /\ Len(m) \in Nat /\ m \in Seq(Segs) /\ n \in Seq(Segs)
  BY <1>1, <1>4
<1>6. Len(n) < Len(m)
  <2>1. Len(n) = Len(m) => n = m
    BY <1>5, UptoFacts DEF Leads
  <2> QED BY <1>5, <2>1 DEF Leads
<1> DEFINE Way == {k \in DOMAIN t : Len(n) < Len(k) /\ Leads(k, m)}
           W == {Len(k) : k \in Way}
<1>7. PICK k \in Way : \A x \in Way : Len(k) <= Len(x)
  <2>1. m \in Way
    BY <1>5, <1>6, UptoFacts DEF Leads
  <2>2. W \in SUBSET Nat /\ W # {}
    BY <1>1, <2>1
  <2>3. \E l \in W : \A y \in W : l <= y
    <3> HIDE DEF W
    <3> QED BY <2>2, LeastExists
  <2> QED BY <2>3
<1> DEFINE d == Depth(t, k)
<1>8. k \in NonRoot(t) /\ k \in Seq(Segs) /\ Len(k) \in Nat /\ Len(n) < Len(k) /\ Leads(k, m)
  <2>1. k \in DOMAIN t /\ Len(n) < Len(k) /\ Leads(k, m)
    OBVIOUS
  <2>2. k # <<>>
    BY <1>5, <2>1, EmptySeq
  <2> QED BY <1>1, <2>1, <2>2 DEF NonRoot
<1>9. /\ d \in 0..(Len(k) - 1) /\ Above(t, k) \in DOMAIN t /\ Len(Above(t, k)) = d
      /\ Above(t, k) = Upto(k, d)
  BY <1>8, PlaceFacts DEF Above
<1>10. \A j \in 0..Len(k) : Upto(k, j) = Upto(m, j)
  <2>1. Len(k) \in 0..Len(m) /\ Upto(m, Len(k)) = k
    BY <1>5, <1>8 DEF Leads
  <2> QED BY <1>5, <2>1, UptoFacts
<1>11. \A j \in 0..Len(n) : Upto(n, j) = Upto(m, j)
  <2>1. Len(n) \in 0..Len(m) /\ Upto(m, Len(n)) = n
    BY <1>5 DEF Leads
  <2> QED BY <1>5, <2>1, UptoFacts
<1> HIDE DEF d
<1>12. d <= Len(n)
  <2>1. SUFFICES ASSUME d > Len(n)
                 PROVE  FALSE
    BY <1>5, <1>9
  <2>2. Above(t, k) \in Way
    <3>1. d <= Len(m) /\ d \in 0..Len(k)
      BY <1>5, <1>8, <1>9 DEF Leads
    <3>2. Upto(m, d) = Above(t, k)
      BY <1>9, <1>10, <3>1
    <3> QED BY <1>9, <2>1, <3>1, <3>2 DEF Leads
  <2> HIDE DEF Way
  <2> QED BY <1>7, <1>8, <1>9, <2>2
<1>13. \A j \in 1..Len(k) : k[j] = m[j]
  <2>1. \A j \in 1..Len(k) : Upto(m, Len(k))[j] = m[j]
    BY DEF Upto
  <2> QED BY <1>8, <2>1 DEF Leads
<1>14. \A j \in 1..Len(n) : n[j] = m[j]
  <2>1. \A j \in 1..Len(n) : Upto(m, Len(n))[j] = m[j]
    BY DEF Upto
  <2> QED BY <1>5, <2>1 DEF Leads
<1>15. CASE d = Len(n)
  <2>1. Above(t, k) = n
    <3>1. d \in 0..Len(k) /\ d \in 0..Len(n)
      BY <1>5, <1>8, <1>9, <1>15
    <3> QED BY <1>5, <1>9, <1>10, <1>11, <1>15, <3>1, UptoFacts
  <2>2. Segment(t, k) = m[Len(n) + 1]
    BY <1>5, <1>8, <1>13, <1>15 DEF Segment, d
  <2>3. Toward(t, n, m, k)
    BY <1>8, <2>1, <2>2 DEF Toward
  <2> QED BY <1>4, <2>3
<1>16. CASE d < Len(n)
  <2>1. /\ d \in 0..Len(k) /\ d \in 0..Len(n)
    BY <1>5, <1>8, <1>9, <1>16
  <2>2. Above(t, k) = Upto(n, d)
    BY <1>9, <1>10, <1>11, <2>1
  <2>3. Leads(Above(t, k), n) /\ Above(t, k) # n
    BY <1>9, <1>16, <2>2 DEF Leads
  <2>4. Above(t, k) \notin Lost
    <3> HIDE DEF Lost
    <3> QED BY <1>3, <1>5, <1>9, <1>16
  <2>5. PICK l : Toward(t, Above(t, k), n, l)
    BY <1>5, <1>9, <2>3, <2>4
  <2>6. l \in NonRoot(t) /\ Above(t, l) = Above(t, k) /\ Len(l) <= Len(n) /\ Segment(t, l) = n[d + 1]
    BY <1>9, <2>5 DEF Toward, Leads
  <2>7. Segment(t, k) = k[d + 1] /\ d + 1 \in 1..Len(k) /\ d + 1 \in 1..Len(n)
    BY <1>5, <1>8, <1>9, <1>16 DEF Segment, d
  <2>8. l = k
    BY <1>8, <1>13, <1>14, <2>6, <2>7 DEF SiblingsDiffer
  <2> QED BY <1>5, <1>8, <2>6, <2>8
<1> QED BY <1>5, <1>9, <1>12, <1>15, <1>16

-----------------------------------------------------------------------------
(* A new child                                                             *)

(* Nodes that differ in their endpoints and children at most.              *)
SameFields(a, b) ==
  a.typ = b.typ /\ a.label = b.label /\ a.tail = b.tail /\ a.prefix = b.prefix /\ a.rex = b.rex

(* Where such a node is does not change.                                   *)
LEMMA Unmoved ==
  ASSUME NEW t, NEW u, NEW k, SameFields(t[k], u[k])
  PROVE  /\ Size(u[k]) = Size(t[k]) /\ Depth(u, k) = Depth(t, k)
         /\ Above(u, k) = Above(t, k) /\ Segment(u, k) = Segment(t, k)
         /\ DOMAIN t \subseteq DOMAIN u /\ Named(t, k) => Named(u, k)
<1>1. Size(u[k]) = Size(t[k])
  BY DEF Size, SameFields
<1>2. Depth(u, k) = Depth(t, k)
  BY <1>1 DEF Depth
<1>3. Above(u, k) = Above(t, k) /\ Segment(u, k) = Segment(t, k)
  BY <1>2 DEF Above, Segment
<1>4. ASSUME DOMAIN t \subseteq DOMAIN u, Named(t, k)
      PROVE  Named(u, k)
  BY <1>1, <1>2, <1>3, <1>4 DEF Named, SameFields
<1> QED BY <1>1, <1>2, <1>3, <1>4

(* The fields of a pair.                                                   *)
LEMMA PairFields ==
  ASSUME NEW x, NEW a, NEW b, x = <<a, b>>
  PROVE  x[1] = a /\ x[2] = b
OBVIOUS

(* A segment is a pair.                                                    *)
LEMMA SegPair ==
  ASSUME NEW x \in Segs
  PROVE  x = <<x[1], x[2]>> /\ x[1] \in Parts /\ x[2] \in Chars \cup {""}
<1>1. ASSUME NEW A, NEW B, NEW y \in A \X B
      PROVE  y = <<y[1], y[2]>> /\ y[1] \in A /\ y[2] \in B
  OBVIOUS
<1> QED BY <1>1 DEF Segs

(* What the first segment of a node tells.                                 *)
LEMMA SegmentFacts ==
  ASSUME NEW t, NEW k, Named(t, k), Segment(t, k) \in Segs
  PROVE  /\ t[k].typ \in NodeTypes
         /\ t[k].typ = "Static" => /\ Segment(t, k) = <<t[k].label, "">> /\ t[k].tail = ""
                                   /\ t[k].label = t[k].prefix[1]
                                   /\ t[k].label \in Chars
         /\ t[k].typ = "Regexp" => Segment(t, k) = <<t[k].rex, t[k].tail>>
         /\ t[k].typ = "Param" => Segment(t, k) = <<"{}", t[k].tail>>
         /\ t[k].typ = "CatchAll" => Segment(t, k) = <<"*", "">>
<1> DEFINE g == Segment(t, k)
<1>1. g = <<g[1], g[2]>> /\ t[k].tail = g[2] /\ t[k].typ = PartType(g[1])
  <2>1. t[k].tail = g[2] /\ t[k].typ = PartType(g[1])
    BY DEF Named
  <2>2. g = <<g[1], g[2]>>
    BY SegPair
  <2> QED BY <2>1, <2>2
<1>2. t[k].label = CASE t[k].typ = "Static" -> g[1]
                    [] t[k].typ = "CatchAll" -> "*"
                    [] OTHER -> "{"
  BY DEF Named
<1>3. t[k].rex = IF t[k].typ = "Regexp" THEN g[1] ELSE "none"
  BY DEF Named
<1>4. t[k].typ = "Static" => g = <<t[k].prefix[1], "">>
  <2>1. ASSUME t[k].typ = "Static"
        PROVE  g = <<t[k].prefix[1], "">>
    <3>1. 1 \in 1..Size(t[k])
      <4> DEFINE size == Size(t[k])
      <4>1. size \in 1..Len(k)
        BY DEF Named
      <4> HIDE DEF size
      <4>2. 1 \in 1..size
        BY <4>1
      <4> QED BY <4>2 DEF size
    <3>2. k[Depth(t, k) + 1] = <<t[k].prefix[1], "">>
      BY <2>1, <3>1 DEF Named
    <3> QED BY <3>2 DEF Segment
  <2> QED BY <2>1
<1>5. t[k].typ = "CatchAll" => t[k].tail = ""
  BY DEF Named
<1> HIDE DEF g
<1>6. /\ t[k].typ \in NodeTypes
      /\ t[k].typ = "Static" => g[1] \in Chars
      /\ t[k].typ = "Param" => g[1] = "{}"
      /\ t[k].typ = "CatchAll" => g[1] = "*"
  BY <1>1, CharAssumption DEF PartType, NodeTypes
<1>7. t[k].typ = "Static" => t[k].label = g[1]
  BY <1>2
<1>8. /\ t[k].typ = "Static" => g = <<t[k].label, "">> /\ t[k].tail = "" /\ t[k].label = t[k].prefix[1]
      /\ t[k].typ = "Regexp" => g = <<t[k].rex, t[k].tail>>
      /\ t[k].typ = "Param" => g = <<"{}", t[k].tail>>
      /\ t[k].typ = "CatchAll" => g = <<"*", "">>
  <2>1. t[k].typ = "Static" => t[k].label = t[k].prefix[1] /\ t[k].tail = "" /\ g = <<t[k].label, "">>
    <3>1. ASSUME t[k].typ = "Static"
          PROVE  t[k].label = t[k].prefix[1] /\ t[k].tail = "" /\ g = <<t[k].label, "">>
      <4>1. g = <<t[k].prefix[1], "">>
        BY <1>4, <3>1
      <4>2. g[1] = t[k].prefix[1] /\ g[2] = ""
        BY <4>1
      <4> QED BY <1>1, <1>7, <3>1, <4>1, <4>2
    <3> QED BY <3>1
  <2>2. t[k].typ = "Regexp" => g = <<t[k].rex, t[k].tail>>
    BY <1>1, <1>3
  <2>3. t[k].typ = "Param" => g = <<"{}", t[k].tail>>
    BY <1>1, <1>6
  <2>4. t[k].typ = "CatchAll" => g = <<"*", "">>
    BY <1>1, <1>5, <1>6
  <2> QED BY <2>1, <2>2, <2>3, <2>4
<1> QED BY <1>6, <1>7, <1>8 DEF g

(* No child of n stands for this segment.                                  *)
NoSibling(t, n, segment) ==
  \A k \in NonRoot(t) : Above(t, k) = n => Segment(t, k) # segment

(* A tree with a node more.                                                *)
Extended(t, m, node) ==
  [name \in DOMAIN t \cup {m} |-> IF name = m THEN node ELSE t[name]]

(* The children of n after a new one is attached.                          *)
Grown(t, n, m, node) ==
  SortedWith(Extended(t, m, node), t[n].kids[node.typ], m)

(* A node with another list of children of one type.                       *)
WithKids(node, g, list) == [node EXCEPT !.kids = [@ EXCEPT ![g] = list]]

(* A tree with the new node m as a child of n, and the rest as it was.     *)
Hung(t, n, m, node, u) ==
  /\ DOMAIN u = DOMAIN t \cup {m}
  /\ u[m] = node
  /\ \A k \in DOMAIN t : k # n => u[k] = t[k]
  /\ u[n] = WithKids(t[n], node.typ, Grown(t, n, m, node))

(* What attaching a new node changes.                                      *)
LEMMA AttachedFacts ==
  ASSUME NEW t, NEW n \in DOMAIN t, NEW m, m \notin DOMAIN t, NEW node,
         t \in [DOMAIN t -> NodesOver(DOMAIN t)], node.typ \in NodeTypes,
         NEW u, u = Attached(Extended(t, m, node), n, m)
  PROVE  Hung(t, n, m, node, u)
<1> DEFINE e == Extended(t, m, node)
<1>1. DOMAIN e = DOMAIN t \cup {m} /\ e[m] = node /\ \A k \in DOMAIN t : e[k] = t[k]
  BY DEF Extended
<1>2. e = [k \in DOMAIN e |-> e[k]]
  BY DEF Extended
<1> HIDE DEF e
<1>3. u = [e EXCEPT ![n].kids[e[m].typ] = SortedWith(e, @, m)]
  BY DEF Attached, e
<1>4. /\ DOMAIN u = DOMAIN e /\ \A k \in DOMAIN e : k # n => u[k] = e[k]
      /\ u[n] = [e[n] EXCEPT !.kids[e[m].typ] = SortedWith(e, @, m)]
  BY <1>1, <1>2, <1>3
<1>5. t[n] \in NodesOver(DOMAIN t)
  OBVIOUS
<1>6. [t[n] EXCEPT !.kids[node.typ] = SortedWith(e, @, m)]
        = [t[n] EXCEPT !.kids = [@ EXCEPT ![node.typ] = SortedWith(e, t[n].kids[node.typ], m)]]
  BY <1>5 DEF NodesOver
<1> QED BY <1>1, <1>4, <1>6 DEF e, Grown, WithKids, Hung

(* A tree has the endpoints that it had, and no more.                      *)
SameEndpoints(t, u) ==
  /\ DOMAIN t \subseteq DOMAIN u
  /\ \A k \in DOMAIN t : u[k].eps = t[k].eps
  /\ \A k \in DOMAIN u \ DOMAIN t : u[k].eps = NoEndpoints

(* What is left of a list of children after a new one is attached, and     *)
(* what is kept of the order.                                              *)
LEMMA GrownFacts ==
  ASSUME NEW t, Good(t), NEW n \in DOMAIN t, NEW m, m \notin DOMAIN t,
         NEW node \in NodesOver(DOMAIN t), NEW u, u = Attached(Extended(t, m, node), n, m),
         Named(u, m), Segment(u, m) \in Segs, NoSibling(t, n, Segment(u, m))
  PROVE  LET new == Grown(t, n, m, node)
         IN  /\ new \in Seq(DOMAIN u) /\ IsInjective(new)
             /\ ToSet(new) = ToSet(t[n].kids[node.typ]) \cup {m}
             /\ node.typ = "Static" => Ascending(u, new)
             /\ node.typ = "Param" => \A i, j \in DOMAIN new : i < j => u[new[i]].tail # "/"
<1> DEFINE g == node.typ
           ks == t[n].kids[g]
           e == Extended(t, m, node)
           new == Grown(t, n, m, node)
<1>1. t \in [DOMAIN t -> NodesOver(DOMAIN t)] /\ g \in NodeTypes
  BY DEF Good, Typed, NodesOver
<1>2. /\ DOMAIN u = DOMAIN t \cup {m} /\ u[m] = node
      /\ \A k \in DOMAIN t : k # n => u[k] = t[k]
      /\ u[n] = WithKids(t[n], g, new)
  <2>1. node.typ \in NodeTypes
    BY <1>1
  <2> HIDE DEF g, ks, e, new
  <2>2. Hung(t, n, m, node, u)
    BY <1>1, <2>1, AttachedFacts
  <2> QED BY <2>2 DEF g, new, Hung
<1>3. DOMAIN e = DOMAIN u /\ e[m] = node /\ \A k \in DOMAIN t : e[k] = t[k]
  BY <1>2 DEF Extended
<1>4. t[n] \in NodesOver(DOMAIN t)
  BY <1>1
<1>5. ks \in Seq(DOMAIN t)
  BY <1>1, <1>4 DEF NodesOver
<1>6. IsInjective(ks) /\ \A k \in ToSet(ks) : k \in DOMAIN t /\ k \in NonRoot(t) /\ Above(t, k) = n /\ t[k].typ = g
  <2>1. ToSet(ks) \subseteq DOMAIN t
    BY <1>5, ElementOfSeq DEF ToSet
  <2> QED BY <1>1, <2>1 DEF Good, Linked, NonRoot
<1>7. \A k \in DOMAIN t : SameFields(u[k], t[k])
  <2>1. SameFields(u[n], t[n])
    BY <1>2, <1>4 DEF SameFields, NodesOver, WithKids
  <2> QED BY <1>2, <2>1 DEF SameFields
<1>8. \A k \in DOMAIN u : SameFields(u[k], e[k])
  BY <1>2, <1>3, <1>7 DEF SameFields
<1> HIDE DEF e, ks, new
<1>9. /\ g \in NodeTypes
      /\ g = "Static" => Segment(u, m) = <<node.label, "">> /\ node.label \in Chars
      /\ g = "Param" => Segment(u, m) = <<"{}", node.tail>>
  <2>1. /\ u[m].typ = "Static" => Segment(u, m) = <<u[m].label, "">> /\ u[m].label \in Chars
        /\ u[m].typ = "Param" => Segment(u, m) = <<"{}", u[m].tail>>
    BY SegmentFacts
  <2> QED BY <1>1, <1>2, <2>1
<1>10. ASSUME NEW k \in ToSet(ks)
       PROVE  /\ k \in NonRoot(t) /\ Above(t, k) = n /\ Segment(t, k) # Segment(u, m)
              /\ e[k] = t[k] /\ t[k].typ = g
              /\ g = "Static" => Segment(t, k) = <<t[k].label, "">> /\ t[k].label \in Chars
              /\ g = "Param" => Segment(t, k) = <<"{}", t[k].tail>>
  <2>1. k \in NonRoot(t) /\ Named(t, k) /\ Segment(t, k) \in Segs
    BY <1>6, PlaceFacts DEF Good, AllNamed
  <2>2. /\ t[k].typ = "Static" => Segment(t, k) = <<t[k].label, "">> /\ t[k].label \in Chars
        /\ t[k].typ = "Param" => Segment(t, k) = <<"{}", t[k].tail>>
    BY <2>1, SegmentFacts
  <2> QED BY <1>3, <1>6, <2>1, <2>2 DEF NoSibling
<1>11. new = SortedWith(e, ks, m)
  BY DEF new, Grown, ks, e
<1>12. ks \in Seq(DOMAIN e) /\ m \in DOMAIN e /\ m \notin ToSet(ks)
  <2>1. m \notin ToSet(ks) /\ m \in DOMAIN e
    BY <1>2, <1>3, <1>6
  <2>2. DOMAIN t \subseteq DOMAIN e
    BY <1>2, <1>3
  <2>3. ASSUME NEW A, NEW B, A \subseteq B, NEW s \in Seq(A)
        PROVE  s \in Seq(B)
    BY <2>3
  <2> QED BY <1>5, <2>1, <2>2, <2>3
<1>13. /\ new \in Seq(DOMAIN u) /\ IsInjective(new) /\ ToSet(new) = ToSet(ks) \cup {m}
       /\ /\ AllStatic(e, ks) /\ e[m].typ = "Static"
          /\ Ascending(e, ks) /\ OtherLabels(e, ks, e[m].label)
          => Ascending(e, new)
       /\ (\A k, l \in ToSet(ks) \cup {m} : Slashy(e, k) /\ Slashy(e, l) => k = l) =>
              \A i, j \in DOMAIN new : i < j => ~ Slashy(e, new[i])
  BY <1>3, <1>6, <1>11, <1>12, SortedWithFacts
<1>14. \A i \in DOMAIN new : new[i] \in ToSet(ks) \cup {m} /\ new[i] \in DOMAIN u
  BY <1>13, <1>6, <1>2 DEF ToSet
<1>15. ASSUME g = "Static"
       PROVE  Ascending(u, new)
  <2>1. AllStatic(e, ks)
    BY <1>10, <1>15 DEF AllStatic
  <2>2. OtherLabels(e, ks, e[m].label)
    <3>1. ASSUME NEW k \in ToSet(ks)
          PROVE  e[k].label \in Chars /\ e[k].label # node.label
      BY <1>9, <1>10, <1>15, <3>1
    <3> QED BY <1>3, <1>9, <1>15, <3>1 DEF OtherLabels
  <2>3. Ascending(e, ks)
    <3>1. \A i \in DOMAIN ks : ks[i] \in ToSet(ks) /\ e[ks[i]] = t[ks[i]]
      BY <1>10 DEF ToSet
    <3>2. \A i, j \in DOMAIN ks : i < j => Code[t[ks[i]].label] < Code[t[ks[j]].label]
      BY <1>15 DEF Good, Sorted, ks
    <3> QED BY <3>1, <3>2 DEF Ascending
  <2>4. Ascending(e, new)
    BY <1>3, <1>13, <1>15, <2>1, <2>2, <2>3
  <2> QED BY <1>8, <1>14, <2>4 DEF Ascending, SameFields
<1>16. ASSUME g = "Param", NEW i \in DOMAIN new, NEW j \in DOMAIN new, i < j
       PROVE  u[new[i]].tail # "/"
  <2>1. ASSUME NEW k \in ToSet(ks) \cup {m}, NEW l \in ToSet(ks) \cup {m}, Slashy(e, k), Slashy(e, l)
        PROVE  k = l
    <3>1. CASE k \in ToSet(ks) /\ l \in ToSet(ks)
      <4>1. Segment(t, k) = Segment(t, l)
        BY <1>10, <1>16, <2>1, <3>1 DEF Slashy
      <4> QED BY <1>10, <3>1, <4>1 DEF Good, SiblingsDiffer
    <3>2. CASE k = m /\ l \in ToSet(ks)
      BY <1>3, <1>9, <1>10, <1>16, <2>1, <3>2 DEF Slashy
    <3>3. CASE l = m /\ k \in ToSet(ks)
      BY <1>3, <1>9, <1>10, <1>16, <2>1, <3>3 DEF Slashy
    <3> QED BY <2>1, <3>1, <3>2, <3>3
  <2>2. ~ Slashy(e, new[i])
    BY <1>13, <1>16, <2>1
  <2>3. e[new[i]].typ = "Param"
    BY <1>3, <1>10, <1>14, <1>16
  <2> QED BY <1>8, <1>14, <2>2, <2>3 DEF Slashy, SameFields
<1> QED BY <1>13, <1>15, <1>16 DEF new, ks

(* More names to choose from.                                              *)
LEMMA NodesMore ==
  ASSUME NEW A, NEW B, A \subseteq B
  PROVE  NodesOver(A) \subseteq NodesOver(B)
<1>1. Seq(A) \subseteq Seq(B)
  OBVIOUS
<1>2. [NodeTypes -> Seq(A)] \subseteq [NodeTypes -> Seq(B)]
  BY <1>1
<1> QED BY <1>2 DEF NodesOver

(* The fields of a node with another list of children.                     *)
LEMMA WithKidsFacts ==
  ASSUME NEW A, NEW node \in NodesOver(A), NEW g \in NodeTypes, NEW list \in Seq(A)
  PROVE  /\ WithKids(node, g, list) \in NodesOver(A)
         /\ SameFields(node, WithKids(node, g, list))
         /\ WithKids(node, g, list).eps = node.eps
         /\ WithKids(node, g, list).kids[g] = list
         /\ \A h \in NodeTypes : h # g => WithKids(node, g, list).kids[h] = node.kids[h]
BY DEF WithKids, NodesOver, SameFields

(* What a tree with a new child m is.                                      *)
GrownWell(t, u, m) ==
  /\ Good(u) /\ DOMAIN u = DOMAIN t \cup {m} /\ SameEndpoints(t, u)
  /\ \A k \in NonRoot(u) : Above(u, k) # m

(* A tree with a new child is a good tree.                                 *)
LEMMA GrownGood ==
  ASSUME NEW t, Good(t), NEW n \in DOMAIN t, NEW m \in Seq(Segs), m \notin DOMAIN t,
         Len(m) <= Height,
         NEW node \in NodesOver(DOMAIN t), node.eps = NoEndpoints, node.kids = NoKids,
         NEW u, u = Attached(Extended(t, m, node), n, m),
         SameFields(node, u[m]) => Named(u, m) /\ Above(u, m) = n,
         SameFields(node, u[m]) => Segment(u, m) \in Segs /\ NoSibling(t, n, Segment(u, m))
  PROVE  GrownWell(t, u, m)
<1> DEFINE g == node.typ
           new == Grown(t, n, m, node)
<1>1. Typed(t) /\ AllNamed(t) /\ SiblingsDiffer(t) /\ Linked(t) /\ Sorted(t) /\ Placed(t)
  BY DEF Good
<1>2. t \in [DOMAIN t -> NodesOver(DOMAIN t)] /\ node.typ \in NodeTypes
  BY <1>1 DEF Typed, NodesOver
<1>3. /\ DOMAIN u = DOMAIN t \cup {m} /\ u[m] = node
      /\ \A k \in DOMAIN t : k # n => u[k] = t[k]
      /\ u[n] = WithKids(t[n], node.typ, Grown(t, n, m, node))
  <2> HIDE DEF g, new
  <2>1. t \in [DOMAIN t -> NodesOver(DOMAIN t)] /\ node.typ \in NodeTypes /\ u = Attached(Extended(t, m, node), n, m)
        /\ n \in DOMAIN t /\ m \notin DOMAIN t
    BY <1>2
  <2>2. Hung(t, n, m, node, u)
    BY <2>1, AttachedFacts
  <2> QED BY <2>2 DEF Hung
<1>4. /\ Named(u, m) /\ Above(u, m) = n /\ Segment(u, m) \in Segs
      /\ NoSibling(t, n, Segment(u, m))
  <2>1. SameFields(node, u[m])
    BY <1>3 DEF SameFields
  <2> QED BY <2>1
<1>5. /\ new \in Seq(DOMAIN u) /\ IsInjective(new)
      /\ ToSet(new) = ToSet(t[n].kids[node.typ]) \cup {m}
      /\ node.typ = "Static" => Ascending(u, new)
      /\ node.typ = "Param" => \A i, j \in DOMAIN new : i < j => u[new[i]].tail # "/"
  BY <1>4, GrownFacts
<1>6. g \in NodeTypes /\ t[n] \in NodesOver(DOMAIN u) /\ NodesOver(DOMAIN t) \subseteq NodesOver(DOMAIN u)
  BY <1>2, <1>3, NodesMore
<1>7. u[n] = WithKids(t[n], g, new)
  BY <1>3
<1> HIDE DEF new, g
<1>8. /\ u[n] \in NodesOver(DOMAIN u) /\ SameFields(t[n], u[n]) /\ u[n].eps = t[n].eps
      /\ u[n].kids[g] = new
      /\ \A h \in NodeTypes : h # g => u[n].kids[h] = t[n].kids[h]
  BY <1>5, <1>6, <1>7, WithKidsFacts
<1>9. \A k \in DOMAIN t : SameFields(t[k], u[k]) /\ u[k].eps = t[k].eps
  BY <1>3, <1>8 DEF SameFields
<1>10. \A k \in DOMAIN t : /\ Size(u[k]) = Size(t[k]) /\ Depth(u, k) = Depth(t, k)
                           /\ Above(u, k) = Above(t, k) /\ Segment(u, k) = Segment(t, k)
                           /\ Named(t, k) => Named(u, k)
  BY <1>3, <1>9, Unmoved
<1>11. SameEndpoints(t, u)
  BY <1>3, <1>9 DEF SameEndpoints
<1>12. m # <<>> /\ NonRoot(u) = NonRoot(t) \cup {m}
  BY <1>1, <1>3 DEF NonRoot, Typed
<1>13. Typed(u)
  <2>1. u = [k \in DOMAIN u |-> u[k]]
    BY DEF Attached, Extended
  <2>2. ASSUME NEW k \in DOMAIN u
        PROVE  u[k] \in NodesOver(DOMAIN u)
    BY <1>2, <1>3, <1>6, <1>8
  <2>3. u \in [DOMAIN u -> NodesOver(DOMAIN u)]
    BY <2>1, <2>2
  <2> QED BY <1>1, <1>3, <2>3 DEF Typed
<1>14. AllNamed(u)
  BY <1>1, <1>4, <1>10, <1>12 DEF AllNamed, NonRoot
<1>15. \A k \in NonRoot(t) : Above(t, k) \in DOMAIN t /\ k \in DOMAIN t
  BY <1>1, PlaceFacts
<1>16. \A k \in NonRoot(u) : Above(u, k) # m
  BY <1>4, <1>10, <1>12, <1>15
<1>17. SiblingsDiffer(u)
  <2>1. ASSUME NEW k \in NonRoot(u), NEW l \in NonRoot(u),
               Above(u, k) = Above(u, l), Segment(u, k) = Segment(u, l)
        PROVE  k = l
    <3>1. CASE k \in NonRoot(t) /\ l \in NonRoot(t)
      <4>1. Above(t, k) = Above(t, l) /\ Segment(t, k) = Segment(t, l)
        BY <1>10, <1>15, <2>1, <3>1
      <4> QED BY <1>1, <3>1, <4>1 DEF SiblingsDiffer
    <3>2. CASE k = m /\ l \in NonRoot(t)
      BY <1>4, <1>10, <1>15, <2>1, <3>2 DEF NoSibling
    <3>3. CASE l = m /\ k \in NonRoot(t)
      BY <1>4, <1>10, <1>15, <2>1, <3>3 DEF NoSibling
    <3> QED BY <1>12, <2>1, <3>1, <3>2, <3>3
  <2> QED BY <2>1 DEF SiblingsDiffer
<1>18. Linked(u)
  <2> DEFINE InList(k, x, h) == k \in ToSet(u[x].kids[h]) <=> k # <<>> /\ Above(u, k) = x /\ u[k].typ = h
  <2>1. ASSUME NEW x \in DOMAIN u, NEW h \in NodeTypes
        PROVE  IsInjective(u[x].kids[h]) /\ \A k \in DOMAIN u : InList(k, x, h)
    <3>1. CASE x = m
      <4>1. u[x].kids[h] = <<>>
        BY <1>3, <2>1, <3>1 DEF NoKids
      <4>2. IsInjective(u[x].kids[h]) /\ ToSet(u[x].kids[h]) = {}
        BY <4>1 DEF IsInjective, ToSet
      <4>3. \A k \in DOMAIN u : k # <<>> => Above(u, k) # x
        BY <1>16, <3>1 DEF NonRoot
      <4> QED BY <4>2, <4>3
    <3>2. CASE x # m /\ ~ (x = n /\ h = g)
      <4>1. x \in DOMAIN t /\ u[x].kids[h] = t[x].kids[h]
        BY <1>3, <1>8, <2>1, <3>2
      <4>2. IsInjective(t[x].kids[h])
        BY <1>1, <2>1, <4>1 DEF Linked
      <4>3. ASSUME NEW k \in DOMAIN t
            PROVE  InList(k, x, h)
        <5>1. k \in ToSet(t[x].kids[h]) <=> k # <<>> /\ Above(t, k) = x /\ t[k].typ = h
          BY <1>1, <2>1, <4>1 DEF Linked
        <5> QED BY <1>9, <1>10, <4>1, <5>1 DEF SameFields
      <4>4. InList(m, x, h)
        <5>1. t[x] \in NodesOver(DOMAIN t)
          BY <1>2, <4>1
        <5>2. t[x].kids[h] \in Seq(DOMAIN t)
          BY <2>1, <5>1 DEF NodesOver
        <5>3. m \notin ToSet(t[x].kids[h])
          BY <5>2, ElementOfSeq DEF ToSet
        <5>4. ~ (Above(u, m) = x /\ u[m].typ = h)
          BY <1>3, <1>4, <3>2 DEF g
        <5> QED BY <4>1, <5>3, <5>4
      <4> QED BY <1>3, <4>1, <4>2, <4>3, <4>4
    <3>3. CASE x = n /\ h = g
      <4>1. u[x].kids[h] = new
        BY <1>8, <3>3
      <4>2. ASSUME NEW k \in DOMAIN t
            PROVE  InList(k, x, h)
        <5>1. k \in ToSet(t[x].kids[h]) <=> k # <<>> /\ Above(t, k) = x /\ t[k].typ = h
          BY <1>1, <2>1, <3>3 DEF Linked
        <5>2. k \in ToSet(new) <=> k \in ToSet(t[x].kids[h])
          BY <1>5, <3>3, <4>2 DEF g
        <5> QED BY <1>9, <1>10, <4>1, <5>1, <5>2 DEF SameFields
      <4>3. InList(m, x, h)
        BY <1>3, <1>4, <1>5, <1>12, <3>3, <4>1 DEF g
      <4> QED BY <1>3, <1>5, <4>1, <4>2, <4>3
    <3> QED BY <3>1, <3>2, <3>3
  <2> QED BY <2>1 DEF Linked
<1>19. Sorted(u)
  <2>1. ASSUME NEW x \in DOMAIN u
        PROVE  /\ Ascending(u, u[x].kids["Static"])
               /\ \A i, j \in DOMAIN u[x].kids["Param"] : i < j => u[u[x].kids["Param"][i]].tail # "/"
    <3>1. "Static" \in NodeTypes /\ "Param" \in NodeTypes
      BY DEF NodeTypes
    <3>2. ASSUME NEW h \in NodeTypes, x # m, ~ (x = n /\ h = g)
          PROVE  /\ x \in DOMAIN t /\ u[x].kids[h] = t[x].kids[h]
                 /\ \A i \in DOMAIN t[x].kids[h] : SameFields(t[t[x].kids[h][i]], u[t[x].kids[h][i]])
      <4>1. x \in DOMAIN t /\ u[x].kids[h] = t[x].kids[h]
        BY <1>3, <1>8, <3>2
      <4>2. t[x] \in NodesOver(DOMAIN t)
        BY <1>2, <4>1
      <4>3. t[x].kids[h] \in Seq(DOMAIN t)
        BY <4>2 DEF NodesOver
      <4> QED BY <1>9, <4>1, <4>3, ElementOfSeq
    <3>3. Ascending(u, u[x].kids["Static"])
      <4>1. CASE x = m
        <5>1. u[x].kids["Static"] = <<>>
          BY <1>3, <3>1, <4>1 DEF NoKids
        <5> QED BY <5>1 DEF Ascending
      <4>2. CASE x = n /\ "Static" = g
        BY <1>5, <1>8, <4>2 DEF g
      <4>3. CASE x # m /\ ~ (x = n /\ "Static" = g)
        <5> DEFINE s == t[x].kids["Static"]
        <5>1. x \in DOMAIN t /\ u[x].kids["Static"] = s /\ \A i \in DOMAIN s : SameFields(t[s[i]], u[s[i]])
          BY <3>1, <3>2, <4>3
        <5>2. \A i, j \in DOMAIN s : i < j => Code[t[s[i]].label] < Code[t[s[j]].label]
          BY <1>1, <5>1 DEF Sorted
        <5> HIDE DEF s
        <5> QED BY <5>1, <5>2 DEF Ascending, SameFields
      <4> QED BY <4>1, <4>2, <4>3
    <3>4. \A i, j \in DOMAIN u[x].kids["Param"] : i < j => u[u[x].kids["Param"][i]].tail # "/"
      <4>1. CASE x = m
        <5>1. u[x].kids["Param"] = <<>>
          BY <1>3, <3>1, <4>1 DEF NoKids
        <5> QED BY <5>1
      <4>2. CASE x = n /\ "Param" = g
        BY <1>5, <1>8, <4>2 DEF g
      <4>3. CASE x # m /\ ~ (x = n /\ "Param" = g)
        <5> DEFINE s == t[x].kids["Param"]
        <5>1. x \in DOMAIN t /\ u[x].kids["Param"] = s /\ \A i \in DOMAIN s : SameFields(t[s[i]], u[s[i]])
          BY <3>1, <3>2, <4>3
        <5>2. \A i, j \in DOMAIN s : i < j => t[s[i]].tail # "/"
          BY <1>1, <5>1 DEF Sorted
        <5> HIDE DEF s
        <5> QED BY <5>1, <5>2 DEF SameFields
      <4> QED BY <4>1, <4>2, <4>3
    <3> QED BY <3>3, <3>4
  <2> QED BY <2>1 DEF Sorted, Ascending
<1>20. Placed(u)
  <2>1. ASSUME NEW x \in DOMAIN u, NEW q \in Methods, u[x].eps[q] # None
        PROVE  Acceptable(u[x].eps[q]) /\ x = Name(u[x].eps[q], Len(u[x].eps[q]))
    <3>1. x # m
      BY <1>3, <2>1 DEF NoEndpoints
    <3>2. x \in DOMAIN t /\ u[x].eps = t[x].eps
      BY <1>3, <1>9, <2>1, <3>1
    <3> QED BY <1>1, <2>1, <3>2 DEF Placed
  <2> QED BY <2>1 DEF Placed
<1> QED BY <1>3, <1>11, <1>13, <1>14, <1>16, <1>17, <1>18, <1>19, <1>20 DEF Good, GrownWell

-----------------------------------------------------------------------------
(* A node cut in two                                                       *)

(* The upper half of k, cut after s characters.                            *)
UpperHalf(t, k, s) ==
  [Root EXCEPT !.label = t[k].label, !.prefix = SubSeq(t[k].prefix, 1, s), !.kids["Static"] = <<k>>]

(* The lower half.                                                         *)
LowerHalf(t, k, s) ==
  [t[k] EXCEPT !.label = t[k].prefix[s + 1],
               !.prefix = SubSeq(t[k].prefix, s + 1, Len(t[k].prefix))]

(* A tree in which k, the child of n at an edge, is cut in two.            *)
Halved(t, n, edge, s, upper, k, u) ==
  /\ DOMAIN u = DOMAIN t \cup {upper}
  /\ u[upper] = UpperHalf(t, k, s)
  /\ u[k] = LowerHalf(t, k, s)
  /\ u[n] = WithKids(t[n], "Static", [t[n].kids["Static"] EXCEPT ![edge] = upper])
  /\ \A l \in DOMAIN t : l # n /\ l # k => u[l] = t[l]
  /\ u = [l \in DOMAIN u |-> u[l]]

(* What Split changes.                                                     *)
LEMMA SplitFacts ==
  ASSUME NEW t, NEW n \in DOMAIN t, t \in [DOMAIN t -> NodesOver(DOMAIN t)],
         NEW edge, NEW k \in DOMAIN t, k = t[n].kids["Static"][edge], k # n,
         NEW s, NEW upper, upper \notin DOMAIN t,
         NEW u, u = Split(t, n, edge, s, upper)
  PROVE  Halved(t, n, edge, s, upper, k, u)
<1>1. u = [name \in DOMAIN t \cup {upper} |->
             CASE name = upper -> [Root EXCEPT !.label = t[k].label, !.prefix = SubSeq(t[k].prefix, 1, s),
                                               !.kids["Static"] = <<k>>]
               [] name = n -> [t[n] EXCEPT !.kids["Static"][edge] = upper]
               [] name = k -> [t[k] EXCEPT !.label = t[k].prefix[s + 1],
                                           !.prefix = SubSeq(@, s + 1, Len(@))]
               [] OTHER -> t[name]]
  BY DEF Split
<1>3. t[n] \in NodesOver(DOMAIN t) /\ t[k] \in NodesOver(DOMAIN t)
  OBVIOUS
<1>4. [t[n] EXCEPT !.kids["Static"][edge] = upper]
        = WithKids(t[n], "Static", [t[n].kids["Static"] EXCEPT ![edge] = upper])
  BY <1>3 DEF WithKids, NodesOver, NodeTypes
<1>5. [t[k] EXCEPT !.label = t[k].prefix[s + 1], !.prefix = SubSeq(@, s + 1, Len(@))]
        = LowerHalf(t, k, s)
  BY <1>3 DEF LowerHalf, NodesOver
<1>6. DOMAIN u = DOMAIN t \cup {upper} /\ u = [l \in DOMAIN u |-> u[l]]
  BY <1>1
<1>7. u[upper] = UpperHalf(t, k, s)
  BY <1>1 DEF UpperHalf
<1>8. u[n] = WithKids(t[n], "Static", [t[n].kids["Static"] EXCEPT ![edge] = upper])
  BY <1>1, <1>4
<1>9. u[k] = LowerHalf(t, k, s)
  BY <1>1, <1>5
<1>10. \A l \in DOMAIN t : l # n /\ l # k => u[l] = t[l]
  BY <1>1
<1> QED BY <1>6, <1>7, <1>8, <1>9, <1>10 DEF Halved

(* Where the cut is, and that no node is there.                            *)
LEMMA CutPlace ==
  ASSUME NEW t, Good(t), NEW k \in NonRoot(t), t[k].typ = "Static",
         NEW s, s \in 1..(Size(t[k]) - 1), NEW upper, upper = Upto(k, Depth(t, k) + s)
  PROVE  /\ upper \in Seq(Segs) /\ Len(upper) = Depth(t, k) + s /\ Len(upper) < Len(k)
         /\ upper \notin DOMAIN t
         /\ \A j \in 1..Len(upper) : upper[j] = k[j]
         /\ Upto(upper, Depth(t, k)) = Above(t, k)
<1>1. Typed(t) /\ AllNamed(t) /\ SiblingsDiffer(t)
  BY DEF Good
<1>2. /\ k \in Seq(Segs) /\ k \in DOMAIN t /\ Len(k) \in Nat
      /\ Size(t[k]) \in 1..Len(k)
      /\ Depth(t, k) \in 0..(Len(k) - 1) /\ Depth(t, k) + Size(t[k]) = Len(k)
      /\ Above(t, k) \in DOMAIN t /\ Len(Above(t, k)) = Depth(t, k)
  BY <1>1, PlaceFacts
<1> DEFINE d == Depth(t, k)
           size == Size(t[k])
<1>3. d \in Nat /\ size \in Nat /\ s \in Nat /\ d + s \in 0..Len(k) /\ d \in 0..(d + s) /\ d + s < Len(k)
      /\ d + 1 \in 1..(d + s) /\ d \in 0..Len(k)
  <2>1. d \in 0..(Len(k) - 1) /\ d + size = Len(k) /\ size \in 1..Len(k) /\ s \in 1..(size - 1)
    BY <1>2
  <2> HIDE DEF d, size
  <2> QED BY <1>2, <2>1
<1>4. /\ upper \in Seq(Segs) /\ Len(upper) = d + s
      /\ \A j \in 1..(d + s) : upper[j] = k[j]
      /\ \A j \in 0..(d + s) : Upto(upper, j) = Upto(k, j)
  <2> HIDE DEF d
  <2>1. upper = Upto(k, d + s) /\ d + s \in 0..Len(k) /\ k \in Seq(Segs)
    BY <1>2, <1>3 DEF d
  <2> DEFINE i == d + s
  <2>2. upper = Upto(k, i) /\ i \in 0..Len(k)
    BY <2>1
  <2> HIDE DEF i
  <2>3. /\ upper \in Seq(Segs) /\ Len(upper) = i
        /\ \A j \in 1..i : upper[j] = k[j]
        /\ \A j \in 0..i : Upto(upper, j) = Upto(k, j)
    BY <2>1, <2>2, UptoFacts
  <2> QED BY <2>3 DEF i
<1>5. Upto(upper, d) = Above(t, k)
  BY <1>3, <1>4 DEF Above
<1>6. upper \notin DOMAIN t
  <2>1. SUFFICES ASSUME upper \in DOMAIN t
                 PROVE  FALSE
    OBVIOUS
  <2>2. Leads(Above(t, k), upper) /\ Above(t, k) # upper
    <3> HIDE DEF d
    <3>1. Len(Above(t, k)) = d
      BY <1>2 DEF d
    <3>2. d <= d + s /\ d # d + s
      BY <1>3
    <3> QED BY <1>4, <1>5, <3>1, <3>2 DEF Leads
  <2>3. PICK l : Toward(t, Above(t, k), upper, l)
    BY <1>1, <1>2, <2>1, <2>2, KidToward
  <2>4. l \in NonRoot(t) /\ Above(t, l) = Above(t, k) /\ Len(l) <= Len(upper) /\ Segment(t, l) = upper[d + 1]
    BY <1>2, <2>3 DEF Toward, Leads
  <2>5. Segment(t, l) = Segment(t, k)
    BY <1>3, <1>4, <2>4 DEF Segment
  <2>6. l = k
    BY <1>1, <2>4, <2>5 DEF SiblingsDiffer
  <2> QED BY <1>3, <1>4, <2>4, <2>6
<1>7. Len(upper) < Len(k)
  BY <1>3, <1>4
<1> QED BY <1>4, <1>5, <1>6, <1>7

(* The fields of the upper half.                                           *)
IsUpperHalf(A, t, k, s, half) ==
  /\ half \in NodesOver(A)
  /\ half.typ = "Static" /\ half.label = t[k].label
  /\ half.tail = "" /\ half.prefix = SubSeq(t[k].prefix, 1, s)
  /\ half.rex = "none" /\ half.eps = NoEndpoints
  /\ half.kids["Static"] = <<k>>
  /\ \A g \in NodeTypes : g # "Static" => half.kids[g] = <<>>

(* These are its fields.                                                   *)
LEMMA UpperFacts ==
  ASSUME NEW A, NEW t, NEW k \in A, NEW s, t[k].label \in Chars, SubSeq(t[k].prefix, 1, s) \in Seq(Chars)
  PROVE  IsUpperHalf(A, t, k, s, UpperHalf(t, k, s))
<1>1. Root \in NodesOver(A) /\ Root.typ = "Static" /\ Root.tail = "" /\ Root.rex = "none" /\ Root.eps = NoEndpoints /\ Root.kids = NoKids
  <2>1. NoEndpoints \in [Methods -> AllPatterns \cup {None}]
    BY DEF NoEndpoints
  <2>2. NoKids \in [NodeTypes -> Seq(A)]
    BY DEF NoKids
  <2>3. <<>> \in Seq(Chars)
    OBVIOUS
  <2> QED BY <2>1, <2>2, <2>3 DEF Root, NodesOver, NodeTypes
<1>2. <<k>> \in Seq(A) /\ "Static" \in NodeTypes
  BY DEF NodeTypes
<1> QED BY <1>1, <1>2 DEF UpperHalf, NodesOver, NoKids, IsUpperHalf

(* The fields of the lower half.                                           *)
IsLowerHalf(A, t, k, s, half) ==
  /\ half \in NodesOver(A)
  /\ half.typ = t[k].typ /\ half.label = t[k].prefix[s + 1]
  /\ half.tail = t[k].tail /\ half.rex = t[k].rex
  /\ half.eps = t[k].eps /\ half.kids = t[k].kids
  /\ Len(half.prefix) = Len(t[k].prefix) - s
  /\ \A j \in 1..(Len(t[k].prefix) - s) : half.prefix[j] = t[k].prefix[s + j]

(* These are its fields.                                                   *)
LEMMA LowerFacts ==
  ASSUME NEW A, NEW t, NEW k, t[k] \in NodesOver(A), NEW s \in 1..(Len(t[k].prefix) - 1)
  PROVE  IsLowerHalf(A, t, k, s, LowerHalf(t, k, s))
<1> DEFINE p == t[k].prefix
           rest == SubSeq(p, s + 1, Len(p))
<1>1. p \in Seq(Chars)
  BY DEF NodesOver
<1> HIDE DEF p
<1>2. Len(p) \in Nat /\ s + 1 \in 1..Len(p) /\ p[s + 1] \in Chars
  <2>1. Len(p) \in Nat /\ s \in 1..(Len(p) - 1)
    BY <1>1 DEF p
  <2>2. s + 1 \in 1..Len(p)
    BY <2>1
  <2> QED BY <1>1, <2>1, <2>2, ElementOfSeq
<1>3. rest \in Seq(Chars) /\ Len(rest) = Len(p) - s /\ \A j \in 1..(Len(p) - s) : rest[j] = p[s + j]
  <2>1. s + 1 \in Int /\ Len(p) \in Int /\ \A j \in (s + 1)..Len(p) : p[j] \in Chars
    BY <1>1, <1>2, ElementOfSeq
  <2>2. /\ rest \in Seq(Chars) /\ Len(rest) = IF s + 1 <= Len(p) THEN Len(p) - (s + 1) + 1 ELSE 0
        /\ \A j \in 1..(Len(p) - (s + 1) + 1) : rest[j] = p[(s + 1) + j - 1]
    BY <2>1, SubSeqProperties
  <2>3. Len(p) - (s + 1) + 1 = Len(p) - s /\ \A j \in 1..(Len(p) - s) : (s + 1) + j - 1 = s + j
    BY <1>2
  <2> QED BY <1>2, <2>2, <2>3
<1> HIDE DEF rest
<1>4. LowerHalf(t, k, s) = [t[k] EXCEPT !.label = p[s + 1], !.prefix = rest]
  BY DEF LowerHalf, p, rest
<1>5. /\ LowerHalf(t, k, s) \in NodesOver(A)
      /\ LowerHalf(t, k, s).typ = t[k].typ /\ LowerHalf(t, k, s).label = p[s + 1]
      /\ LowerHalf(t, k, s).tail = t[k].tail /\ LowerHalf(t, k, s).rex = t[k].rex
      /\ LowerHalf(t, k, s).eps = t[k].eps /\ LowerHalf(t, k, s).kids = t[k].kids
      /\ LowerHalf(t, k, s).prefix = rest
  BY <1>2, <1>3, <1>4 DEF NodesOver
<1> QED BY <1>3, <1>5 DEF p, IsLowerHalf

(* Where the two halves are.                                               *)
CutInTwo(t, k, s, upper, u) ==
  /\ Depth(u, upper) = Depth(t, k) /\ Above(u, upper) = Above(t, k)
  /\ Segment(u, upper) = Segment(t, k) /\ Named(u, upper)
  /\ Above(u, k) = upper /\ Segment(u, k) = <<t[k].prefix[s + 1], "">> /\ Named(u, k)

(* The names of the two halves are right.                                  *)
LEMMA HalvesNamed ==
  ASSUME NEW t, Good(t), NEW n \in DOMAIN t, NEW edge, NEW k \in NonRoot(t), t[k].typ = "Static",
         Above(t, k) = n,
         NEW s, s \in 1..(Size(t[k]) - 1), NEW upper, upper = Upto(k, Depth(t, k) + s),
         NEW u, Halved(t, n, edge, s, upper, k, u)
  PROVE  /\ CutInTwo(t, k, s, upper, u)
         /\ u[upper] \in NodesOver(DOMAIN u) /\ u[k] \in NodesOver(DOMAIN u)
<1> DEFINE p == t[k].prefix
           d == Depth(t, k)
           half == SubSeq(p, 1, s)
<1>1. Typed(t) /\ AllNamed(t) /\ Named(t, k)
  BY DEF Good, AllNamed
<1>2. /\ k \in Seq(Segs) /\ k \in DOMAIN t /\ Len(k) \in Nat
      /\ Size(t[k]) \in 1..Len(k) /\ Size(t[k]) = Len(p)
      /\ d \in 0..(Len(k) - 1) /\ d + Size(t[k]) = Len(k)
      /\ Segment(t, k) \in Segs /\ Segment(t, k) = k[d + 1]
  BY <1>1, PlaceFacts DEF Size, Segment
<1>3. /\ upper \in Seq(Segs) /\ Len(upper) = d + s /\ Len(upper) < Len(k)
      /\ upper \notin DOMAIN t
      /\ \A j \in 1..Len(upper) : upper[j] = k[j]
      /\ Upto(upper, d) = Above(t, k)
  BY CutPlace
<1>4. t[k] \in NodesOver(DOMAIN t) /\ p \in Seq(Chars)
  BY <1>1, <1>2 DEF Typed, NodesOver
<1>5. u[upper] = UpperHalf(t, k, s) /\ u[k] = LowerHalf(t, k, s) /\ DOMAIN u = DOMAIN t \cup {upper}
  BY DEF Halved
<1>6. /\ t[k].typ = PartType(Segment(t, k)[1]) /\ t[k].tail = Segment(t, k)[2]
      /\ t[k].rex = "none" /\ t[k].rex \notin BadRexes
      /\ Above(t, k) \in DOMAIN t
      /\ \A j \in 1..(Len(k) - 1) : k[j][1] # "*"
      /\ \A j \in 1..Len(p) : k[d + j] = <<p[j], "">> /\ PartType(p[j]) = "Static"
  BY <1>1, <1>2 DEF Named
<1>7. Segment(t, k) = <<t[k].label, "">> /\ t[k].tail = "" /\ t[k].label = p[1] /\ t[k].label \in Chars
  BY <1>1, <1>2, SegmentFacts
<1> HIDE DEF p, d
<1>8. Len(p) \in Nat /\ d \in Nat /\ s \in 1..(Len(p) - 1) /\ Len(k) = d + Len(p)
  BY <1>2, <1>4
<1>9. half \in Seq(Chars) /\ Len(half) = s /\ \A j \in 1..s : half[j] = p[j]
  <2>1. 1 \in Int /\ s \in Int /\ \A j \in 1..s : p[j] \in Chars
    BY <1>4, <1>8, ElementOfSeq
  <2>2. /\ half \in Seq(Chars) /\ Len(half) = IF 1 <= s THEN s - 1 + 1 ELSE 0
        /\ \A j \in 1..(s - 1 + 1) : half[j] = p[1 + j - 1]
    BY <2>1, SubSeqProperties
  <2> QED BY <1>8, <2>2
<1> HIDE DEF half
<1>10. /\ u[upper] \in NodesOver(DOMAIN u) /\ u[upper].typ = "Static" /\ u[upper].label = t[k].label
       /\ u[upper].tail = "" /\ u[upper].prefix = half /\ u[upper].rex = "none"
  <2>1. k \in DOMAIN u /\ SubSeq(t[k].prefix, 1, s) \in Seq(Chars)
    BY <1>2, <1>5, <1>9 DEF half, p
  <2>2. k \in DOMAIN u /\ t[k].label \in Chars
    BY <1>7, <2>1
  <2>3. IsUpperHalf(DOMAIN u, t, k, s, UpperHalf(t, k, s))
    BY <2>1, <2>2, UpperFacts
  <2> QED BY <1>5, <2>3 DEF half, p, IsUpperHalf
<1>11. /\ u[k] \in NodesOver(DOMAIN u) /\ u[k].typ = "Static" /\ u[k].label = p[s + 1]
       /\ u[k].tail = "" /\ u[k].rex = "none"
       /\ Len(u[k].prefix) = Len(p) - s /\ \A j \in 1..(Len(p) - s) : u[k].prefix[j] = p[s + j]
  <2>1. t[k] \in NodesOver(DOMAIN u)
    BY <1>4, <1>5, NodesMore
  <2>2. s \in 1..(Len(t[k].prefix) - 1)
    BY <1>8 DEF p
  <2>3. IsLowerHalf(DOMAIN u, t, k, s, LowerHalf(t, k, s))
    BY <2>1, <2>2, LowerFacts
  <2> QED BY <1>5, <1>6, <1>7, <2>3 DEF p, IsLowerHalf
<1>12. Size(u[upper]) = s /\ Depth(u, upper) = d /\ Above(u, upper) = Above(t, k) /\ Segment(u, upper) = Segment(t, k)
  <2>1. Size(u[upper]) = s
    BY <1>9, <1>10 DEF Size
  <2>2. Depth(u, upper) = d
    BY <1>3, <1>8, <2>1 DEF Depth
  <2>3. d + 1 \in 1..Len(upper)
    BY <1>3, <1>8
  <2> QED BY <1>2, <1>3, <2>1, <2>2, <2>3 DEF Above, Segment
<1>13. Size(u[k]) = Len(p) - s /\ Depth(u, k) = d + s /\ Above(u, k) = upper /\ Segment(u, k) = <<p[s + 1], "">>
  <2>1. Size(u[k]) = Len(p) - s
    BY <1>11 DEF Size
  <2>2. Depth(u, k) = d + s
    BY <1>8, <2>1 DEF Depth
  <2>3. s + 1 \in 1..Len(p) /\ (d + s) + 1 = d + (s + 1)
    BY <1>8
  <2>4. Segment(u, k) = <<p[s + 1], "">>
    BY <1>6, <2>2, <2>3 DEF Segment
  <2> QED BY <2>1, <2>2, <2>4 DEF Above, d
<1> DEFINE len == Len(p)
           top == Len(upper)
           low == Len(k)
<1>16. len \in Nat /\ d \in Nat /\ s \in Nat /\ s >= 1 /\ s < len /\ low = d + len /\ top = d + s
  BY <1>3, <1>8
<1>14. Named(u, upper)
  <2>1. s \in 1..top /\ Above(u, upper) \in DOMAIN u
    <3>1. s \in 1..top
      <4> HIDE DEF len, top, low
      <4> QED BY <1>16
    <3> QED BY <1>5, <1>6, <1>12, <3>1
  <2>2. \A j \in 1..(top - 1) : upper[j][1] # "*"
    <3>1. \A j \in 1..(top - 1) : j \in 1..(low - 1) /\ j \in 1..top
      <4> HIDE DEF len, top, low
      <4> QED BY <1>16
    <3> QED BY <1>3, <1>6, <3>1
  <2>3. ASSUME NEW j \in 1..s
        PROVE  upper[d + j] = <<half[j], "">> /\ PartType(half[j]) = "Static"
    <3>1. j \in 1..len /\ d + j \in 1..top
      <4> HIDE DEF len, top, low
      <4> QED BY <1>16
    <3>2. upper[d + j] = k[d + j] /\ half[j] = p[j]
      BY <1>3, <1>9, <3>1
    <3> QED BY <1>6, <3>1, <3>2
  <2>4. Segment(u, upper) = <<t[k].label, "">> /\ PartType(t[k].label) = "Static"
    <3>1. 1 \in 1..len
      <4> HIDE DEF len, top, low
      <4> QED BY <1>16
    <3>2. Segment(u, upper) = <<t[k].label, "">>
      BY <1>7, <1>12
    <3> QED BY <1>6, <1>7, <3>1, <3>2
  <2>5. Segment(u, upper)[1] = t[k].label /\ Segment(u, upper)[2] = ""
    BY <2>4, PairFields
  <2> HIDE DEF top, len, low
  <2>6. "none" \notin BadRexes
    BY <1>6
  <2> QED BY <1>10, <1>12, <2>1, <2>2, <2>3, <2>4, <2>5, <2>6 DEF Named, top
<1>15. Named(u, k)
  <2>1. len - s \in 1..low /\ Above(u, k) \in DOMAIN u
    <3>1. len - s \in 1..low
      <4> HIDE DEF len, top, low
      <4> QED BY <1>16
    <3> QED BY <1>5, <1>13, <3>1
  <2>2. \A j \in 1..(Len(k) - 1) : k[j][1] # "*"
    BY <1>6
  <2>3. ASSUME NEW j \in 1..(len - s)
        PROVE  k[(d + s) + j] = <<u[k].prefix[j], "">> /\ PartType(u[k].prefix[j]) = "Static"
    <3>1. s + j \in 1..len /\ (d + s) + j = d + (s + j)
      <4> HIDE DEF len, top, low
      <4> QED BY <1>16
    <3>2. u[k].prefix[j] = p[s + j]
      BY <1>11
    <3> QED BY <1>6, <3>1, <3>2
  <2>4. Segment(u, k)[1] = p[s + 1] /\ Segment(u, k)[2] = ""
    <3> DEFINE g == Segment(u, k)
    <3>1. g = <<p[s + 1], "">>
      BY <1>13
    <3> HIDE DEF g
    <3>2. g[1] = p[s + 1] /\ g[2] = ""
      BY <3>1
    <3> QED BY <3>2 DEF g
  <2>5. PartType(p[s + 1]) = "Static"
    <3>1. s + 1 \in 1..len
      <4> HIDE DEF len, top, low
      <4> QED BY <1>16
    <3> QED BY <1>6, <3>1
  <2> HIDE DEF top, low
  <2>6. "none" \notin BadRexes
    BY <1>6
  <2> QED BY <1>11, <1>13, <2>1, <2>2, <2>3, <2>4, <2>5, <2>6 DEF Named, low, len
<1> QED BY <1>10, <1>11, <1>12, <1>13, <1>14, <1>15 DEF CutInTwo, d, p

(* A list in which something else, of B, takes the place of an element.    *)
Replaced(list, edge, x, B, new) ==
  /\ new \in Seq(B) /\ IsInjective(new) /\ Len(new) = Len(list)
  /\ ToSet(new) = (ToSet(list) \ {list[edge]}) \cup {x}
  /\ \A i \in 1..Len(list) : new[i] = IF i = edge THEN x ELSE list[i]

(* What EXCEPT makes is such a list.                                       *)
LEMMA ReplacedFacts ==
  ASSUME NEW A, NEW list \in Seq(A), IsInjective(list), NEW edge \in 1..Len(list),
         NEW x, x \notin ToSet(list), NEW B, A \subseteq B, x \in B,
         NEW new, new = [list EXCEPT ![edge] = x]
  PROVE  Replaced(list, edge, x, B, new)
<1> DEFINE n == Len(list)
<1>1. n \in Nat /\ DOMAIN list = 1..n /\ edge \in 1..n
  OBVIOUS
<1>2. \A i \in 1..n : new[i] = IF i = edge THEN x ELSE list[i]
  BY <1>1
<1>3. new \in [1..n -> B]
  BY <1>1, ElementOfSeq
<1> HIDE DEF n
<1>4. new \in Seq(B) /\ Len(new) = n
  BY <1>1, <1>3, SeqDef
<1>5. DOMAIN new = 1..n
  BY <1>3
<1>6. \A i, j \in 1..n : list[i] = list[j] => i = j
  BY <1>1 DEF IsInjective
<1>7. \A i \in 1..n : list[i] # x
  BY <1>1 DEF ToSet
<1>8. IsInjective(new)
  BY <1>2, <1>5, <1>6, <1>7 DEF IsInjective
<1>9. ToSet(list) = {list[i] : i \in 1..n} /\ ToSet(new) = {new[i] : i \in 1..n}
  BY <1>1, <1>5 DEF ToSet
<1>10. ToSet(new) = (ToSet(list) \ {list[edge]}) \cup {x}
  BY <1>1, <1>2, <1>6, <1>9
<1> QED BY <1>2, <1>4, <1>8, <1>10 DEF n, Replaced

(* The lists of children.                                                  *)
LEMMA KidsListed ==
  ASSUME NEW t, t \in [DOMAIN t -> NodesOver(DOMAIN t)], NEW x \in DOMAIN t, NEW h \in NodeTypes
  PROVE  t[x].kids[h] \in Seq(DOMAIN t)
<1>1. t[x] \in NodesOver(DOMAIN t)
  OBVIOUS
<1> QED BY <1>1 DEF NodesOver

(* The children of upper: the lower half and no other.                     *)
OnlyBelow(u, upper, k, segment) ==
  \A l \in NonRoot(u) : Above(u, l) = upper => l = k /\ Segment(u, l) = segment

(* What a tree with a node k cut in two at upper is.                       *)
HalvedWell(t, u, upper, k, segment) ==
  /\ Good(u) /\ DOMAIN u = DOMAIN t \cup {upper} /\ SameEndpoints(t, u)
  /\ OnlyBelow(u, upper, k, segment)

(* A tree with a node cut in two is a good tree.                           *)
LEMMA HalvedGood ==
  ASSUME NEW t, Good(t), NEW n \in DOMAIN t,
         NEW edge \in DOMAIN t[n].kids["Static"], NEW k, k = t[n].kids["Static"][edge],
         NEW s, s \in 1..(Size(t[k]) - 1), NEW upper, upper = Upto(k, Len(n) + s),
         Len(k) <= Height,
         NEW u, u = Split(t, n, edge, s, upper)
  PROVE  HalvedWell(t, u, upper, k, <<t[k].prefix[s + 1], "">>)
<1> DEFINE list == t[n].kids["Static"]
           new == [list EXCEPT ![edge] = upper]
<1>1. Typed(t) /\ AllNamed(t) /\ SiblingsDiffer(t) /\ Linked(t) /\ Sorted(t) /\ Placed(t)
  BY DEF Good
<1>2. "Static" \in NodeTypes /\ t \in [DOMAIN t -> NodesOver(DOMAIN t)] /\ t[n] \in NodesOver(DOMAIN t)
  BY <1>1 DEF Typed, NodeTypes
<1>3. list \in Seq(DOMAIN t) /\ IsInjective(list) /\ edge \in 1..Len(list) /\ k = list[edge]
  <2>1. list \in Seq(DOMAIN t) /\ IsInjective(list)
    BY <1>1, <1>2 DEF NodesOver, Linked
  <2> QED BY <2>1
<1>4. k \in DOMAIN t /\ k \in ToSet(list)
  BY <1>3, ElementOfSeq DEF ToSet
<1>5. k \in NonRoot(t) /\ Above(t, k) = n /\ t[k].typ = "Static"
  BY <1>1, <1>2, <1>4 DEF Linked, NonRoot
<1>6. Depth(t, k) = Len(n) /\ k # n /\ Len(n) \in Nat
  <2>1. Depth(t, k) \in 0..(Len(k) - 1) /\ Len(n) = Depth(t, k) /\ Len(k) \in Nat
    BY <1>1, <1>5, PlaceFacts
  <2> QED BY <2>1
<1>7. upper = Upto(k, Depth(t, k) + s)
  BY <1>6
<1>8. /\ upper \in Seq(Segs) /\ Len(upper) = Len(n) + s /\ Len(upper) < Len(k) /\ upper \notin DOMAIN t
  <2>1. upper \in Seq(Segs) /\ Len(upper) = Depth(t, k) + s /\ Len(upper) < Len(k) /\ upper \notin DOMAIN t
    BY <1>5, <1>7, CutPlace
  <2> QED BY <1>6, <2>1
<1>9. Halved(t, n, edge, s, upper, k, u)
  BY <1>2, <1>4, <1>6, <1>8, SplitFacts
<1>10. CutInTwo(t, k, s, upper, u) /\ u[upper] \in NodesOver(DOMAIN u) /\ u[k] \in NodesOver(DOMAIN u)
  BY <1>5, <1>7, <1>9, HalvesNamed
<1> HIDE DEF list, new
<1>11. /\ DOMAIN u = DOMAIN t \cup {upper} /\ u = [l \in DOMAIN u |-> u[l]]
       /\ u[upper] = UpperHalf(t, k, s) /\ u[k] = LowerHalf(t, k, s)
       /\ u[n] = WithKids(t[n], "Static", new)
       /\ \A l \in DOMAIN t : l # n /\ l # k => u[l] = t[l]
  BY <1>9 DEF Halved, new, list
<1>12. /\ new \in Seq(DOMAIN u) /\ IsInjective(new) /\ Len(new) = Len(list)
       /\ ToSet(new) = (ToSet(list) \ {k}) \cup {upper}
       /\ \A i \in 1..Len(list) : new[i] = IF i = edge THEN upper ELSE list[i]
  <2>1. upper \notin ToSet(list) /\ DOMAIN t \subseteq DOMAIN u /\ upper \in DOMAIN u
    BY <1>3, <1>8, <1>11, ElementOfSeq DEF ToSet
  <2>2. new = [list EXCEPT ![edge] = upper]
    BY DEF new
  <2>3. Replaced(list, edge, upper, DOMAIN u, new)
    BY <1>3, <2>1, <2>2, ReplacedFacts
  <2> QED BY <1>3, <2>3 DEF Replaced
<1>13. /\ u[n] \in NodesOver(DOMAIN u) /\ SameFields(t[n], u[n]) /\ u[n].eps = t[n].eps
       /\ u[n].kids["Static"] = new
       /\ \A h \in NodeTypes : h # "Static" => u[n].kids[h] = t[n].kids[h]
  <2>1. NodesOver(DOMAIN t) \subseteq NodesOver(DOMAIN u)
    BY <1>11, NodesMore
  <2>2. t[n] \in NodesOver(DOMAIN u)
    BY <1>2, <2>1
  <2> QED BY <1>2, <1>11, <1>12, <2>2, WithKidsFacts
<1>14. t[k] \in NodesOver(DOMAIN t) /\ t[k].label \in Chars /\ t[k].prefix \in Seq(Chars) /\ s \in 1..(Len(t[k].prefix) - 1)
  <2>1. t[k] \in NodesOver(DOMAIN t)
    BY <1>2, <1>4
  <2>2. Named(t, k) /\ Segment(t, k) \in Segs
    BY <1>1, <1>5, PlaceFacts DEF AllNamed
  <2>3. t[k].label \in Chars
    BY <1>5, <2>2, SegmentFacts
  <2> QED BY <1>5, <2>1, <2>3 DEF NodesOver, Size
<1>15. /\ u[upper].typ = "Static" /\ u[upper].label = t[k].label /\ u[upper].eps = NoEndpoints
       /\ u[upper].kids["Static"] = <<k>> /\ \A g \in NodeTypes : g # "Static" => u[upper].kids[g] = <<>>
  <2>1. SubSeq(t[k].prefix, 1, s) \in Seq(Chars)
    <3>1. \A i \in 1..s : t[k].prefix[i] \in Chars
      <4>1. \A i \in 1..s : i \in 1..Len(t[k].prefix)
        BY <1>14
      <4> QED BY <1>14, <4>1, ElementOfSeq
    <3>2. 1 \in Int /\ s \in Int
      BY <1>14
    <3> QED BY <3>1, <3>2, SubSeqProperties
  <2>2. IsUpperHalf(DOMAIN t, t, k, s, UpperHalf(t, k, s))
    BY <1>4, <1>14, <2>1, UpperFacts
  <2> QED BY <1>11, <2>2 DEF IsUpperHalf
<1>16. u[k].typ = "Static" /\ u[k].eps = t[k].eps /\ u[k].kids = t[k].kids
  <2>1. IsLowerHalf(DOMAIN t, t, k, s, LowerHalf(t, k, s))
    BY <1>14, LowerFacts
  <2> QED BY <1>5, <1>11, <2>1 DEF IsLowerHalf
<1>17. \A l \in DOMAIN t : l # k => SameFields(t[l], u[l])
  BY <1>11, <1>13 DEF SameFields
<1>18. \A l \in DOMAIN t : l # k => /\ Above(u, l) = Above(t, l) /\ Segment(u, l) = Segment(t, l)
                                    /\ Named(t, l) => Named(u, l)
  BY <1>11, <1>17, Unmoved
<1>19. \A l \in DOMAIN t : u[l].typ = t[l].typ /\ u[l].eps = t[l].eps
  BY <1>5, <1>11, <1>13, <1>16, <1>17 DEF SameFields
<1>20. SameEndpoints(t, u)
  BY <1>11, <1>15, <1>19 DEF SameEndpoints
<1>21. upper # <<>> /\ NonRoot(u) = NonRoot(t) \cup {upper} /\ k # upper /\ n # upper
  BY <1>1, <1>4, <1>8, <1>11 DEF NonRoot, Typed
<1>22. /\ Above(u, upper) = n /\ Segment(u, upper) = Segment(t, k) /\ Named(u, upper)
       /\ Above(u, k) = upper /\ Segment(u, k) = <<t[k].prefix[s + 1], "">> /\ Named(u, k)
  BY <1>5, <1>10 DEF CutInTwo
<1>23. \A l \in NonRoot(t) : Above(t, l) \in DOMAIN t /\ l \in DOMAIN t
  BY <1>1, PlaceFacts
<1>24. OnlyBelow(u, upper, k, <<t[k].prefix[s + 1], "">>)
  <2>1. ASSUME NEW l \in NonRoot(u), Above(u, l) = upper
        PROVE  l = k
    BY <1>8, <1>18, <1>21, <1>22, <1>23, <2>1
  <2> QED BY <1>22, <2>1 DEF OnlyBelow
<1>25. Typed(u)
  <2>1. ASSUME NEW l \in DOMAIN u
        PROVE  u[l] \in NodesOver(DOMAIN u)
    <3>1. NodesOver(DOMAIN t) \subseteq NodesOver(DOMAIN u)
      BY <1>11, NodesMore
    <3> QED BY <1>2, <1>10, <1>11, <1>13, <3>1
  <2>2. u \in [DOMAIN u -> NodesOver(DOMAIN u)]
    BY <1>11, <2>1
  <2>3. Len(upper) <= Height
    <3>1. Len(k) \in Nat /\ Len(upper) \in Nat /\ Height \in Int
      <4>1. Height \in Int
        BY <1>1, HeightFacts
      <4> QED BY <1>1, <1>4, <1>8, <4>1 DEF Typed
    <3> QED BY <1>8, <3>1
  <2> QED BY <1>1, <1>8, <1>11, <2>2, <2>3 DEF Typed
<1>26. AllNamed(u)
  BY <1>1, <1>18, <1>21, <1>22, <1>23 DEF AllNamed
<1>27. SiblingsDiffer(u)
  <2>1. ASSUME NEW x \in NonRoot(u), NEW y \in NonRoot(u),
               Above(u, x) = Above(u, y), Segment(u, x) = Segment(u, y)
        PROVE  x = y
    <3>1. CASE Above(u, x) = upper
      BY <1>24, <2>1, <3>1 DEF OnlyBelow
    <3>2. CASE Above(u, x) # upper
      <4>1. x # k /\ y # k
        BY <1>22, <2>1, <3>2
      <4>2. CASE x \in NonRoot(t) /\ y \in NonRoot(t)
        <5>1. Above(t, x) = Above(t, y) /\ Segment(t, x) = Segment(t, y)
          BY <1>18, <1>23, <2>1, <4>1, <4>2
        <5> QED BY <1>1, <4>2, <5>1 DEF SiblingsDiffer
      <4>3. CASE x = upper /\ y \in NonRoot(t)
        <5>1. Above(t, y) = Above(t, k) /\ Segment(t, y) = Segment(t, k)
          BY <1>5, <1>18, <1>22, <1>23, <2>1, <4>1, <4>3
        <5>2. y = k
          BY <1>1, <1>5, <4>3, <5>1 DEF SiblingsDiffer
        <5> QED BY <4>1, <5>2
      <4>4. CASE y = upper /\ x \in NonRoot(t)
        <5>1. Above(t, x) = Above(t, k) /\ Segment(t, x) = Segment(t, k)
          BY <1>5, <1>18, <1>22, <1>23, <2>1, <4>1, <4>4
        <5>2. x = k
          BY <1>1, <1>5, <4>4, <5>1 DEF SiblingsDiffer
        <5> QED BY <4>1, <5>2
      <4> QED BY <1>21, <2>1, <4>2, <4>3, <4>4
    <3> QED BY <3>1, <3>2
  <2> QED BY <2>1 DEF SiblingsDiffer
<1>28. Linked(u)
  <2> DEFINE InList(l, x, h) == l \in ToSet(u[x].kids[h]) <=> l # <<>> /\ Above(u, l) = x /\ u[l].typ = h
  <2>1. ASSUME NEW x \in DOMAIN u, NEW h \in NodeTypes
        PROVE  IsInjective(u[x].kids[h]) /\ \A l \in DOMAIN u : InList(l, x, h)
    <3>1. CASE x = upper
      <4>1. CASE h = "Static"
        <5>1. u[x].kids[h] = <<k>>
          BY <1>15, <3>1, <4>1
        <5>2. IsInjective(u[x].kids[h]) /\ ToSet(u[x].kids[h]) = {k}
          BY <5>1 DEF IsInjective, ToSet
        <5> QED BY <1>16, <1>22, <1>24, <1>5, <3>1, <4>1, <5>2 DEF OnlyBelow, NonRoot
      <4>2. CASE h # "Static"
        <5>1. u[x].kids[h] = <<>>
          BY <1>15, <2>1, <3>1, <4>2
        <5>2. IsInjective(u[x].kids[h]) /\ ToSet(u[x].kids[h]) = {}
          BY <5>1 DEF IsInjective, ToSet
        <5> QED BY <1>16, <1>24, <3>1, <4>2, <5>2 DEF OnlyBelow, NonRoot
      <4> QED BY <4>1, <4>2
    <3>2. CASE x # upper
      <4>1. x \in DOMAIN t
        BY <1>11, <2>1, <3>2
      <4>2. \A l \in DOMAIN t : l \in ToSet(t[x].kids[h]) <=> l # <<>> /\ Above(t, l) = x /\ t[l].typ = h
        BY <1>1, <2>1, <4>1 DEF Linked
      <4>3. IsInjective(t[x].kids[h]) /\ upper \notin ToSet(t[x].kids[h])
        <5>1. t[x].kids[h] \in Seq(DOMAIN t)
          BY <1>2, <2>1, <4>1, KidsListed
        <5>2. upper \notin ToSet(t[x].kids[h])
          BY <1>8, <5>1, ElementOfSeq DEF ToSet
        <5> QED BY <1>1, <2>1, <4>1, <5>2 DEF Linked
      <4>4. CASE x = n /\ h = "Static"
        <5>1. u[x].kids[h] = new /\ t[x].kids[h] = list
          BY <1>13, <4>4 DEF list
        <5>2. InList(upper, x, h)
          BY <1>12, <1>15, <1>21, <1>22, <4>4, <5>1
        <5>3. InList(k, x, h)
          BY <1>12, <1>21, <1>22, <4>4, <5>1
        <5>4. ASSUME NEW l \in DOMAIN t, l # k
              PROVE  InList(l, x, h)
          <6>1. l \in ToSet(new) <=> l \in ToSet(list)
            BY <1>8, <1>12, <5>4
          <6> QED BY <1>18, <1>19, <4>2, <5>1, <5>4, <6>1
        <5> QED BY <1>11, <1>12, <5>1, <5>2, <5>3, <5>4
      <4>5. CASE ~ (x = n /\ h = "Static")
        <5>1. u[x].kids[h] = t[x].kids[h]
          BY <1>11, <1>13, <1>16, <2>1, <4>1, <4>5
        <5>2. InList(upper, x, h)
          BY <1>15, <1>22, <4>3, <4>5, <5>1
        <5>3. InList(k, x, h)
          BY <1>4, <1>5, <1>22, <3>2, <4>2, <4>5, <5>1
        <5>4. ASSUME NEW l \in DOMAIN t, l # k
              PROVE  InList(l, x, h)
          BY <1>18, <1>19, <4>2, <5>1, <5>4
        <5> QED BY <1>11, <4>3, <5>1, <5>2, <5>3, <5>4
      <4> QED BY <4>4, <4>5
    <3> QED BY <3>1, <3>2
  <2> QED BY <2>1 DEF Linked
<1>29. \A x \in DOMAIN t, h \in NodeTypes : x # n \/ h # "Static" => u[x].kids[h] = t[x].kids[h]
  BY <1>11, <1>13, <1>16
<1>30. \A x \in DOMAIN t : \A i \in DOMAIN t[x].kids["Static"] : t[x].kids["Static"][i] = k => x = n
  <2>1. ASSUME NEW x \in DOMAIN t, NEW i \in DOMAIN t[x].kids["Static"], t[x].kids["Static"][i] = k
        PROVE  x = n
    <3>1. k \in ToSet(t[x].kids["Static"])
      BY <2>1 DEF ToSet
    <3> QED BY <1>1, <1>2, <1>4, <1>5, <2>1, <3>1 DEF Linked
  <2> QED BY <2>1
<1>31. Sorted(u)
  <2>1. ASSUME NEW x \in DOMAIN u
        PROVE  Ascending(u, u[x].kids["Static"])
    <3>1. CASE x = upper
      <4> DEFINE now == u[x].kids["Static"]
      <4>1. now = <<k>>
        BY <1>15, <3>1
      <4> HIDE DEF now
      <4>2. \A i, j \in DOMAIN now : ~ (i < j)
        BY <4>1
      <4>3. Ascending(u, now)
        BY <4>2 DEF Ascending
      <4> QED BY <4>3 DEF now
    <3>2. CASE x # upper
      <4> DEFINE old == t[x].kids["Static"]
                 now == u[x].kids["Static"]
      <4>1. x \in DOMAIN t
        BY <1>11, <2>1, <3>2
      <4>2. old \in Seq(DOMAIN t)
        BY <1>2, <4>1, KidsListed
      <4>3. \A i, j \in DOMAIN old : i < j => Code[t[old[i]].label] < Code[t[old[j]].label]
        BY <1>1, <4>1 DEF Sorted
      <4>4. DOMAIN now = DOMAIN old /\ \A i \in DOMAIN old : u[now[i]].label = t[old[i]].label
        <5>1. CASE x = n
          <6>1. old = list /\ now = new
            BY <1>13, <5>1 DEF list
          <6>2. DOMAIN now = DOMAIN old /\ DOMAIN old = 1..Len(list)
            BY <1>3, <1>12, <6>1
          <6>3. ASSUME NEW i \in DOMAIN old
                PROVE  u[now[i]].label = t[old[i]].label
            <7>1. now[i] = IF i = edge THEN upper ELSE old[i]
              BY <1>12, <6>1, <6>2
            <7>2. old[i] \in DOMAIN t /\ (old[i] = k => i = edge)
              BY <1>3, <4>2, <6>1, <6>2, ElementOfSeq DEF IsInjective
            <7>3. i = edge => old[i] = k
              BY <1>3, <6>1
            <7> HIDE DEF old, now
            <7> QED BY <1>15, <1>17, <7>1, <7>2, <7>3 DEF SameFields
          <6> QED BY <6>2, <6>3
        <5>2. CASE x # n
          <6>1. now = old
            BY <1>2, <1>29, <4>1, <5>2
          <6>2. \A i \in DOMAIN old : old[i] \in DOMAIN t /\ old[i] # k
            BY <1>30, <4>1, <4>2, <5>2, ElementOfSeq
          <6> HIDE DEF old, now
          <6> QED BY <1>17, <6>1, <6>2 DEF SameFields
        <5> QED BY <5>1, <5>2
      <4> HIDE DEF old, now
      <4>5. Ascending(u, now)
        BY <4>3, <4>4 DEF Ascending
      <4> QED BY <4>5 DEF now
    <3> QED BY <3>1, <3>2
  <2>2. ASSUME NEW x \in DOMAIN u, NEW i \in DOMAIN u[x].kids["Param"], NEW j \in DOMAIN u[x].kids["Param"], i < j
        PROVE  u[u[x].kids["Param"][i]].tail # "/"
    <3>1. "Param" \in NodeTypes
      BY DEF NodeTypes
    <3>2. CASE x = upper
      <4>1. u[x].kids["Param"] = <<>>
        BY <1>15, <3>1, <3>2
      <4> QED BY <2>2, <4>1
    <3>3. CASE x # upper
      <4> DEFINE old == t[x].kids["Param"]
      <4>1. x \in DOMAIN t /\ u[x].kids["Param"] = old
        BY <1>11, <1>29, <2>2, <3>1, <3>3
      <4>2. old \in Seq(DOMAIN t)
        BY <1>2, <3>1, <4>1, KidsListed
      <4>3. t[old[i]].tail # "/"
        BY <1>1, <2>2, <4>1 DEF Sorted
      <4>4. old[i] \in DOMAIN t /\ old[i] \in ToSet(old)
        BY <2>2, <4>1, <4>2, ElementOfSeq DEF ToSet
      <4>5. t[old[i]].typ = "Param"
        BY <1>1, <3>1, <4>1, <4>4 DEF Linked
      <4>6. old[i] # k
        BY <1>5, <4>5
      <4> HIDE DEF old
      <4> QED BY <1>17, <4>1, <4>3, <4>4, <4>6 DEF SameFields
    <3> QED BY <3>2, <3>3
  <2>3. ASSUME NEW x \in DOMAIN u
        PROVE  LET S == u[x].kids["Static"]
                   P == u[x].kids["Param"]
               IN  /\ \A i, j \in DOMAIN S : i < j => Code[u[S[i]].label] < Code[u[S[j]].label]
                   /\ \A i, j \in DOMAIN P : i < j => u[P[i]].tail # "/"
    <3>1. \A i, j \in DOMAIN u[x].kids["Param"] : i < j => u[u[x].kids["Param"][i]].tail # "/"
      BY <2>2, <2>3
    <3>2. Ascending(u, u[x].kids["Static"])
      BY <2>1, <2>3
    <3>3. \A i, j \in DOMAIN u[x].kids["Static"] :
            i < j => Code[u[u[x].kids["Static"][i]].label] < Code[u[u[x].kids["Static"][j]].label]
      BY ONLY <3>2 DEF Ascending
    <3> QED BY ONLY <3>1, <3>3
  <2> QED BY <2>3 DEF Sorted
<1>32. Placed(u)
  <2>1. ASSUME NEW x \in DOMAIN u, NEW q \in Methods, u[x].eps[q] # None
        PROVE  Acceptable(u[x].eps[q]) /\ x = Name(u[x].eps[q], Len(u[x].eps[q]))
    <3>1. x # upper
      <4>1. NoEndpoints[q] = None
        BY DEF NoEndpoints
      <4>2. u[upper].eps[q] = None
        BY <1>15, <4>1
      <4> QED BY <2>1, <4>2
    <3>2. x \in DOMAIN t /\ u[x].eps = t[x].eps
      BY <1>11, <1>19, <2>1, <3>1
    <3> QED BY <1>1, <2>1, <3>2 DEF Placed
  <2> QED BY <2>1 DEF Placed
<1> QED BY <1>11, <1>20, <1>24, <1>25, <1>26, <1>27, <1>28, <1>31, <1>32 DEF Good, HalvedWell

-----------------------------------------------------------------------------
(* Insertion                                                               *)

(* A tree with other endpoints at n.                                       *)
SetAt(t, n, method, p) == [t EXCEPT ![n].eps = SetEndpoint(@, method, p)]

(* What setting an endpoint changes.                                       *)
SetOnly(t, n, method, p, u) ==
  /\ DOMAIN u = DOMAIN t
  /\ u \in [DOMAIN t -> NodesOver(DOMAIN t)]
  /\ \A k \in DOMAIN t : SameFields(t[k], u[k]) /\ u[k].kids = t[k].kids
  /\ \A k \in DOMAIN t : k # n => u[k].eps = t[k].eps
  /\ u[n].eps = SetEndpoint(t[n].eps, method, p)

(* It changes the endpoints of that node and nothing else.                 *)
LEMMA SetAtFacts ==
  ASSUME NEW t, t \in [DOMAIN t -> NodesOver(DOMAIN t)], NEW n \in DOMAIN t,
         NEW method, NEW p \in AllPatterns
  PROVE  SetOnly(t, n, method, p, SetAt(t, n, method, p))
<1> DEFINE u == SetAt(t, n, method, p)
           new == SetEndpoint(t[n].eps, method, p)
<1>1. DOMAIN u = DOMAIN t /\ \A k \in DOMAIN t : k # n => u[k] = t[k]
  BY DEF SetAt
<1>2. u[n] = [t[n] EXCEPT !.eps = new]
  BY DEF SetAt
<1>3. t[n] \in NodesOver(DOMAIN t)
  OBVIOUS
<1>4. new \in [Methods -> AllPatterns \cup {None}]
  <2>1. t[n].eps \in [Methods -> AllPatterns \cup {None}]
    BY <1>3 DEF NodesOver
  <2> QED BY <2>1 DEF SetEndpoint
<1>6. u = [k \in DOMAIN t |-> u[k]]
  BY DEF SetAt
<1> HIDE DEF u, new
<1>5. u[n] \in NodesOver(DOMAIN t) /\ SameFields(t[n], u[n]) /\ u[n].kids = t[n].kids /\ u[n].eps = new
  BY <1>2, <1>3, <1>4 DEF NodesOver, SameFields
<1>7. \A k \in DOMAIN t : u[k] \in NodesOver(DOMAIN t) /\ SameFields(t[k], u[k]) /\ u[k].kids = t[k].kids
  BY <1>1, <1>5 DEF SameFields
<1>8. u \in [DOMAIN t -> NodesOver(DOMAIN t)]
  BY <1>6, <1>7
<1> QED BY <1>1, <1>5, <1>7, <1>8 DEF SetOnly, u, new

(* A tree with other endpoints, of a pattern at its place, is a good tree. *)
LEMMA SetAtGood ==
  ASSUME NEW t, Good(t), NEW p \in AllPatterns, Acceptable(p), Name(p, Len(p)) \in DOMAIN t,
         NEW method
  PROVE  Good(SetAt(t, Name(p, Len(p)), method, p))
<1> DEFINE n == Name(p, Len(p))
           u == SetAt(t, n, method, p)
<1>1. Typed(t) /\ AllNamed(t) /\ SiblingsDiffer(t) /\ Linked(t) /\ Sorted(t) /\ Placed(t)
  BY DEF Good
<1>2. SetOnly(t, n, method, p, u)
  <2> HIDE DEF n
  <2>1. n \in DOMAIN t /\ t \in [DOMAIN t -> NodesOver(DOMAIN t)]
    BY <1>1 DEF Typed, n
  <2> QED BY <2>1, SetAtFacts
<1> HIDE DEF u
<1>3. /\ DOMAIN u = DOMAIN t /\ u \in [DOMAIN t -> NodesOver(DOMAIN t)] /\ NonRoot(u) = NonRoot(t)
      /\ \A k \in DOMAIN t : SameFields(t[k], u[k]) /\ u[k].kids = t[k].kids
      /\ \A k \in DOMAIN t : k # n => u[k].eps = t[k].eps
      /\ u[n].eps = SetEndpoint(t[n].eps, method, p)
  BY <1>2 DEF SetOnly, NonRoot
<1>4. \A k \in DOMAIN t : /\ Above(u, k) = Above(t, k) /\ Segment(u, k) = Segment(t, k)
                          /\ Named(t, k) => Named(u, k)
  BY <1>3, Unmoved
<1>5. Typed(u) /\ AllNamed(u) /\ SiblingsDiffer(u)
  BY <1>1, <1>3, <1>4 DEF Typed, AllNamed, SiblingsDiffer, NonRoot
<1>6. Linked(u)
  <2>1. ASSUME NEW x \in DOMAIN t, NEW h \in NodeTypes
        PROVE  /\ IsInjective(u[x].kids[h])
               /\ \A k \in DOMAIN t : k \in ToSet(u[x].kids[h]) <=> k # <<>> /\ Above(u, k) = x /\ u[k].typ = h
    <3>1. u[x].kids[h] = t[x].kids[h]
      BY <1>3
    <3> QED BY <1>1, <1>3, <1>4, <3>1 DEF Linked, SameFields
  <2> QED BY <1>3, <2>1 DEF Linked
<1>7. Sorted(u)
  <2>1. ASSUME NEW x \in DOMAIN t
        PROVE  LET s == u[x].kids["Static"]
                   q == u[x].kids["Param"]
               IN  /\ \A i, j \in DOMAIN s : i < j => Code[u[s[i]].label] < Code[u[s[j]].label]
                   /\ \A i, j \in DOMAIN q : i < j => u[q[i]].tail # "/"
    <3> DEFINE s == t[x].kids["Static"]
               q == t[x].kids["Param"]
    <3>1. u[x].kids["Static"] = s /\ u[x].kids["Param"] = q
      BY <1>3
    <3>2. s \in Seq(DOMAIN t) /\ q \in Seq(DOMAIN t)
      BY <1>1, KidsListed DEF Typed, NodeTypes
    <3>3. /\ \A i, j \in DOMAIN s : i < j => Code[t[s[i]].label] < Code[t[s[j]].label]
          /\ \A i, j \in DOMAIN q : i < j => t[q[i]].tail # "/"
      BY <1>1 DEF Sorted
    <3> HIDE DEF s, q
    <3>4. /\ \A i \in DOMAIN s : u[s[i]].label = t[s[i]].label
          /\ \A i \in DOMAIN q : u[q[i]].tail = t[q[i]].tail
      BY <1>3, <3>2, ElementOfSeq DEF SameFields
    <3>5. /\ \A i, j \in DOMAIN s : i < j => Code[u[s[i]].label] < Code[u[s[j]].label]
          /\ \A i, j \in DOMAIN q : i < j => u[q[i]].tail # "/"
      BY <3>3, <3>4
    <3> QED BY <3>1, <3>5
  <2> QED BY <1>3, <2>1 DEF Sorted
<1>8. Placed(u)
  <2>1. ASSUME NEW x \in DOMAIN t, NEW q \in Methods, u[x].eps[q] # None
        PROVE  Acceptable(u[x].eps[q]) /\ x = Name(u[x].eps[q], Len(u[x].eps[q]))
    <3>1. CASE x # n
      <4>1. u[x].eps = t[x].eps
        BY <1>3, <3>1
      <4> HIDE DEF n
      <4> QED BY <1>1, <2>1, <4>1 DEF Placed
    <3>2. CASE x = n
      <4>1. u[x].eps[q] = p \/ u[x].eps[q] = t[x].eps[q]
        BY <1>3, <3>2 DEF SetEndpoint
      <4>2. CASE u[x].eps[q] = p
        BY <3>2, <4>2
      <4>3. CASE u[x].eps[q] = t[x].eps[q]
        <5> HIDE DEF n
        <5> QED BY <1>1, <2>1, <4>3 DEF Placed
      <4> QED BY <4>1, <4>2, <4>3
    <3> QED BY <3>1, <3>2
  <2> QED BY <1>3, <2>1 DEF Placed
<1> QED BY <1>5, <1>6, <1>7, <1>8 DEF Good, u

(* Where a node ends: behind a wild token, or in front of the next.        *)
LEMMA NodeEndFacts ==
  ASSUME NEW p \in Seq(Letters), NEW i \in 0..(Len(p) - 1)
  PROVE  /\ NodeEnd(p, i) \in (i + 1)..Len(p)
         /\ Wild(p[i + 1]) => NodeEnd(p, i) = i + 1
         /\ ~ Wild(p[i + 1]) => \A j \in (i + 1)..NodeEnd(p, i) : ~ Wild(p[j])
<1> DEFINE E == {e \in (i + 1)..Len(p) : e = Len(p) \/ Wild(p[e + 1])}
<1>1. Len(p) \in Nat /\ i \in Nat /\ i + 1 <= Len(p)
  OBVIOUS
<1>2. CASE Wild(p[i + 1])
  BY <1>1, <1>2 DEF NodeEnd
<1>3. CASE ~ Wild(p[i + 1])
  <2>1. NodeEnd(p, i) = Min(E)
    BY <1>3 DEF NodeEnd
  <2>2. E \in SUBSET Nat /\ Len(p) \in E
    BY <1>1
  <2>3. Min(E) \in E /\ \A e \in E : Min(E) <= e
    <3> HIDE DEF E
    <3> QED BY <2>2, MinIsLeast
  <2>4. NodeEnd(p, i) \in (i + 1)..Len(p)
    BY <2>1, <2>3
  <2>5. ASSUME NEW j \in (i + 1)..NodeEnd(p, i)
        PROVE  ~ Wild(p[j])
    <3>1. CASE j = i + 1
      BY <1>3, <3>1
    <3>2. CASE j # i + 1
      <4>1. j - 1 \in (i + 1)..Len(p) /\ (j - 1) + 1 = j /\ ~ (NodeEnd(p, i) <= j - 1)
        BY <1>1, <2>4, <3>2
      <4>2. j - 1 \notin E
        BY <2>1, <2>3, <4>1
      <4> QED BY <4>1, <4>2
    <3> QED BY <3>1, <3>2
  <2> QED BY <1>3, <2>4, <2>5
<1> QED BY <1>2, <1>3

(* The segment of a name that the token at i makes.                        *)
TokenSegment(p, i) == <<Part(p[i]), TailOf(p, i)>>

(* Every token of a pattern that parses is fine.                           *)
LEMMA ParsedToken ==
  ASSUME NEW p \in Seq(Letters), Parses(p), NEW i \in 1..Len(p)
  PROVE  /\ p[i] \in Letters /\ p[i] \notin Unclosed
         /\ p[i] = "*" => i = Len(p)
         /\ RexIn(p[i]) \notin BadRexes
         /\ PartType(Part(p[i])) = TypeOf(p[i]) /\ TypeOf(p[i]) \in NodeTypes
         /\ RexIn(p[i]) = IF TypeOf(p[i]) = "Regexp" THEN Part(p[i]) ELSE "none"
         /\ Part(p[i]) = "*" => p[i] = "*"
         /\ ~ Wild(p[i]) => /\ TypeOf(p[i]) = "Static" /\ Part(p[i]) = p[i] /\ p[i] \in Chars
                            /\ TailOf(p, i) = ""
<1>1. p[i] \in Letters
  BY ElementOfSeq
<1>2. p[i] \notin Unclosed /\ (p[i] = "*" => i = Len(p)) /\ RexIn(p[i]) \notin BadRexes
  BY DEF Parses
<1>3. PartType(Part(p[i])) = TypeOf(p[i]) /\ TypeOf(p[i]) \in NodeTypes
  BY <1>1, <1>2, PartFacts, LetterFacts
<1>4. RexIn(p[i]) = IF TypeOf(p[i]) = "Regexp" THEN Part(p[i]) ELSE "none"
  BY <1>1, <1>2, PartFacts
<1>5. Part(p[i]) = "*" => p[i] = "*"
  <2>1. PartType("*") = "CatchAll"
    BY CharAssumption DEF PartType
  <2>2. Part(p[i]) = "*" => TypeOf(p[i]) = "CatchAll"
    BY <1>3, <2>1
  <2> QED BY <1>1, <2>2, LetterFacts
<1>6. ~ Wild(p[i]) => TypeOf(p[i]) = "Static" /\ Part(p[i]) = p[i] /\ p[i] \in Chars /\ TailOf(p, i) = ""
  <2>1. ~ Wild(p[i]) => TypeOf(p[i]) = "Static"
    BY <1>1, LetterFacts
  <2>2. TypeOf(p[i]) = "Static" => Part(p[i]) = p[i] /\ p[i] \in Chars /\ TailOf(p, i) = ""
    <3>1. TypeOf(p[i]) = "Static" => Part(p[i]) = p[i]
      BY <1>1, <1>2, PartFacts
    <3>2. TypeOf(p[i]) = "Static" => p[i] \in Chars
      BY <1>1, LetterFacts
    <3>3. TypeOf(p[i]) = "Static" => TailOf(p, i) = ""
      BY TailFacts
    <3> QED BY <3>1, <3>2, <3>3
  <2> QED BY <2>1, <2>2
<1> QED BY <1>1, <1>2, <1>3, <1>4, <1>5, <1>6

(* No token that parses is unclosed.                                       *)
LEMMA ParsedClosed ==
  ASSUME NEW p, Parses(p), NEW i \in 0..Len(p)
  PROVE  Closed(p, i)
<1>1. \A j \in 1..i : j \in 1..Len(p)
  OBVIOUS
<1> QED BY <1>1 DEF Parses, Closed

(* How long the part of a new node is.                                     *)
LEMMA NewNodePrefix ==
  ASSUME NEW p \in Seq(Letters), Parses(p), NEW i \in 0..(Len(p) - 1), NEW e, e = NodeEnd(p, i)
  PROVE  /\ NewNode(p, i, e).prefix \in Seq(Chars)
         /\ Size(NewNode(p, i, e)) = e - i
         /\ ~ Wild(p[i + 1]) => \A j \in 1..(e - i) : NewNode(p, i, e).prefix[j] = p[i + j]
<1> DEFINE node == NewNode(p, i, e)
<1>1. Len(p) \in Nat /\ i \in Nat /\ i + 1 \in 1..Len(p) /\ e \in (i + 1)..Len(p)
  BY NodeEndFacts
<1>2. node.typ = TypeOf(p[i + 1]) /\ node.prefix = IF Wild(p[i + 1]) THEN <<>> ELSE SubSeq(p, i + 1, e)
  BY DEF NewNode
<1>3. CASE Wild(p[i + 1])
  <2>1. node.prefix = <<>> /\ node.typ # "Static" /\ e = i + 1
    BY <1>2, <1>3, NodeEndFacts DEF Wild
  <2>2. <<>> \in Seq(Chars)
    OBVIOUS
  <2>3. Size(node) = 1
    BY <2>1 DEF Size
  <2> HIDE DEF node
  <2> QED BY <1>1, <1>3, <2>1, <2>2, <2>3 DEF node
<1>4. CASE ~ Wild(p[i + 1])
  <2> DEFINE s == SubSeq(p, i + 1, e)
  <2>1. \A j \in (i + 1)..e : p[j] \in Chars
    <3>1. ASSUME NEW j \in (i + 1)..e
          PROVE  p[j] \in Chars
      <4>1. j \in 1..Len(p) /\ ~ Wild(p[j])
        BY <1>1, <1>4, NodeEndFacts
      <4> QED BY <4>1, ParsedToken
    <3> QED BY <3>1
  <2>2. i + 1 \in Int /\ e \in Int
    BY <1>1
  <2>3. /\ s \in Seq(Chars) /\ Len(s) = IF i + 1 <= e THEN e - (i + 1) + 1 ELSE 0
        /\ \A j \in 1..(e - (i + 1) + 1) : s[j] = p[(i + 1) + j - 1]
    BY <2>1, <2>2, SubSeqProperties
  <2> HIDE DEF s
  <2>4. Len(s) = e - i
    BY <1>1, <2>3
  <2>5. \A j \in 1..(e - i) : s[j] = p[i + j]
    <3>1. e - (i + 1) + 1 = e - i /\ \A j \in 1..(e - i) : (i + 1) + j - 1 = i + j
      BY <1>1
    <3> QED BY <2>3, <3>1
  <2>6. node.prefix = s /\ node.typ = "Static"
    BY <1>2, <1>4 DEF Wild, s
  <2>7. Size(node) = Len(s)
    BY <2>6 DEF Size
  <2> QED BY <2>3, <2>4, <2>5, <2>6, <2>7
<1> QED BY <1>3, <1>4

(* The fields of a new node are what its name says.                        *)
LEMMA NewNodeNamed ==
  ASSUME NEW p \in Seq(Letters), Parses(p), NEW i \in 0..(Len(p) - 1), NEW e, e = NodeEnd(p, i),
         NEW m, m = Name(p, e), NEW u, SameFields(NewNode(p, i, e), u[m]), Name(p, i) \in DOMAIN u
  PROVE  /\ Named(u, m) /\ Above(u, m) = Name(p, i)
         /\ Segment(u, m) = TokenSegment(p, i + 1)
<1> DEFINE node == NewNode(p, i, e)
           x == p[i + 1]
<1>1. Len(p) \in Nat /\ i \in Nat /\ i + 1 \in 1..Len(p) /\ e \in (i + 1)..Len(p) /\ e \in 0..Len(p)
  BY NodeEndFacts
<1>2. /\ m \in Seq(Segs) /\ Len(m) = e
      /\ \A j \in 1..e : m[j] = TokenSegment(p, j)
      /\ \A j \in 0..e : Upto(m, j) = Name(p, j)
  BY <1>1, ParsedClosed, NameFacts DEF TokenSegment
<1>3. /\ node.typ = TypeOf(x) /\ node.label = CharOf(x) /\ node.tail = TailOf(p, i + 1)
      /\ node.rex = RexIn(x)
  BY DEF NewNode
<1>4. /\ u[m].typ = TypeOf(x) /\ u[m].label = CharOf(x) /\ u[m].tail = TailOf(p, i + 1)
      /\ u[m].rex = RexIn(x) /\ u[m].prefix = node.prefix
  BY <1>3 DEF SameFields
<1>5. Size(u[m]) = e - i
  <2>1. Size(u[m]) = Size(node)
    BY DEF Size, SameFields
  <2>2. Size(node) = e - i
    BY NewNodePrefix
  <2> QED BY <2>1, <2>2
<1>6. Depth(u, m) = i
  BY <1>1, <1>2, <1>5 DEF Depth
<1>7. Above(u, m) = Name(p, i)
  <2>1. i \in 0..e
    BY <1>1
  <2> QED BY <1>2, <1>6, <2>1 DEF Above
<1>8. Segment(u, m) = TokenSegment(p, i + 1)
  <2>1. i + 1 \in 1..e
    BY <1>1
  <2> QED BY <1>2, <1>6, <2>1 DEF Segment
<1>9. TokenSegment(p, i + 1)[1] = Part(x) /\ TokenSegment(p, i + 1)[2] = TailOf(p, i + 1)
  BY DEF TokenSegment
<1>10. /\ x \in Letters /\ x \notin Unclosed /\ RexIn(x) \notin BadRexes
       /\ PartType(Part(x)) = TypeOf(x) /\ TypeOf(x) \in NodeTypes
       /\ RexIn(x) = IF TypeOf(x) = "Regexp" THEN Part(x) ELSE "none"
       /\ CharOf(x) = CASE TypeOf(x) = "Static" -> Part(x)
                        [] TypeOf(x) = "CatchAll" -> "*"
                        [] OTHER -> "{"
       /\ TypeOf(x) = "CatchAll" => TailOf(p, i + 1) = ""
  BY <1>1, ParsedToken, PartFacts, TailFacts
<1>11. ASSUME NEW j \in 1..(Len(m) - 1)
       PROVE  m[j][1] # "*"
  <2>1. j \in 1..Len(p) /\ j # Len(p) /\ j \in 1..e
    BY <1>1, <1>2
  <2>2. m[j] = TokenSegment(p, j) /\ TokenSegment(p, j)[1] = Part(p[j])
    BY <1>2, <2>1 DEF TokenSegment
  <2>3. Part(p[j]) # "*"
    BY <2>1, ParsedToken
  <2> QED BY <2>2, <2>3
<1>12. ASSUME TypeOf(x) = "Static", NEW j \in 1..(e - i)
       PROVE  m[i + j] = <<u[m].prefix[j], "">> /\ PartType(u[m].prefix[j]) = "Static"
  <2>1. i + j \in (i + 1)..e /\ i + j \in 1..Len(p) /\ i + j \in 1..e
    BY <1>1
  <2>2. ~ Wild(x)
    BY <1>10, <1>12, LetterFacts
  <2>3. ~ Wild(p[i + j])
    BY <2>1, <2>2, NodeEndFacts
  <2>4. u[m].prefix[j] = p[i + j]
    BY <1>4, <2>2, NewNodePrefix
  <2>5. Part(p[i + j]) = p[i + j] /\ TailOf(p, i + j) = "" /\ PartType(Part(p[i + j])) = "Static"
    BY <2>1, <2>3, ParsedToken
  <2>6. m[i + j] = <<p[i + j], "">>
    BY <1>2, <2>1, <2>5 DEF TokenSegment
  <2> QED BY <2>4, <2>5, <2>6
<1> HIDE DEF x, node
<1>13. e - i \in 1..e
  BY <1>1
<1> QED BY <1>2, <1>4, <1>5, <1>6, <1>7, <1>8, <1>9, <1>10, <1>11, <1>12, <1>13 DEF Named

(* A new node is a node.                                                   *)
LEMMA NewNodeTyped ==
  ASSUME NEW p \in Seq(Letters), Parses(p), NEW i \in 0..(Len(p) - 1), NEW e, e = NodeEnd(p, i),
         NEW A
  PROVE  NewNode(p, i, e) \in NodesOver(A)
<1> DEFINE x == p[i + 1]
           prefix == IF Wild(p[i + 1]) THEN <<>> ELSE SubSeq(p, i + 1, e)
<1>1. i + 1 \in 1..Len(p)
  OBVIOUS
<1>2. TypeOf(x) \in NodeTypes /\ CharOf(x) \in Chars /\ TailOf(p, i + 1) \in Chars \cup {""}
  BY <1>1, ElementOfSeq, LetterFacts, TailFacts
<1>3. RexIn(x) \in {RexOf[y] : y \in Regexps} \cup {"none"}
  BY DEF RexIn
<1>4. prefix \in Seq(Chars)
  <2>1. NewNode(p, i, e).prefix = prefix
    BY DEF NewNode
  <2> QED BY <2>1, NewNodePrefix
<1>5. NoEndpoints \in [Methods -> AllPatterns \cup {None}] /\ NoKids \in [NodeTypes -> Seq(A)]
  BY DEF NoEndpoints, NoKids
<1>6. NewNode(p, i, e) = [typ |-> TypeOf(x), label |-> CharOf(x), tail |-> TailOf(p, i + 1),
                          prefix |-> prefix, rex |-> RexIn(x), eps |-> NoEndpoints, kids |-> NoKids]
  BY DEF NewNode
<1> DEFINE typ == TypeOf(x)
           label == CharOf(x)
           tail == TailOf(p, i + 1)
           rex == RexIn(x)
<1>7. /\ typ \in NodeTypes /\ label \in Chars \cup {""} /\ tail \in Chars \cup {""}
      /\ rex \in {RexOf[y] : y \in Regexps} \cup {"none"}
      /\ NewNode(p, i, e) = [typ |-> typ, label |-> label, tail |-> tail, prefix |-> prefix,
                             rex |-> rex, eps |-> NoEndpoints, kids |-> NoKids]
  BY <1>2, <1>3, <1>6
<1> HIDE DEF prefix, x, typ, label, tail, rex
<1> DEFINE eps == NoEndpoints
           kids == NoKids
<1>8. eps \in [Methods -> AllPatterns \cup {None}] /\ kids \in [NodeTypes -> Seq(A)]
  BY <1>5
<1> HIDE DEF eps, kids
<1>9. [typ |-> typ, label |-> label, tail |-> tail, prefix |-> prefix, rex |-> rex, eps |-> eps, kids |-> kids]
        \in NodesOver(A)
  BY <1>4, <1>7, <1>8 DEF NodesOver
<1> QED BY <1>7, <1>9 DEF eps, kids

(* A tree that a chain of new nodes can be hung into behind i.             *)
Ready(t, p, i) ==
  /\ Good(t) /\ Name(p, i) \in DOMAIN t
  /\ i < Len(p) => NoSibling(t, Name(p, i), TokenSegment(p, i + 1))

(* One node of the chain.                                                  *)
LEMMA WithNodeGood ==
  ASSUME NEW t, NEW p \in AllPatterns, Parses(p), NEW i \in 0..(Len(p) - 1), Ready(t, p, i),
         NEW e, e = NodeEnd(p, i)
  PROVE  Ready(WithNode(t, p, i, e), p, e) /\ SameEndpoints(t, WithNode(t, p, i, e))
<1> DEFINE n == Name(p, i)
           m == Name(p, e)
           node == NewNode(p, i, e)
           u == WithNode(t, p, i, e)
<1>1. p \in Seq(Letters) /\ Len(p) \in Nat /\ Len(p) <= Height /\ Height \in Nat
  BY PatternsTyped, HeightFacts
<1>2. i \in Nat /\ i + 1 \in 1..Len(p) /\ e \in (i + 1)..Len(p) /\ e \in 0..Len(p) /\ i \in 0..Len(p)
  BY <1>1, NodeEndFacts
<1>3. /\ m \in Seq(Segs) /\ Len(m) = e
      /\ \A j \in 1..e : m[j] = TokenSegment(p, j)
      /\ \A j \in 0..e : Upto(m, j) = Name(p, j)
  BY <1>1, <1>2, ParsedClosed, NameFacts DEF TokenSegment
<1>4. Len(n) = i
  BY <1>1, <1>2, ParsedClosed, NameFacts
<1>5. Good(t) /\ n \in DOMAIN t /\ NoSibling(t, n, TokenSegment(p, i + 1))
  BY <1>2 DEF Ready
<1>6. m \notin DOMAIN t
  <2>1. SUFFICES ASSUME m \in DOMAIN t
                 PROVE  FALSE
    OBVIOUS
  <2>2. Leads(n, m) /\ n # m
    <3>1. i \in 0..e /\ i <= e /\ i # e
      BY <1>1, <1>2
    <3> QED BY <1>3, <1>4, <3>1 DEF Leads
  <2>3. PICK l : Toward(t, n, m, l)
    BY <1>5, <2>1, <2>2, KidToward DEF Good
  <2>4. l \in NonRoot(t) /\ Above(t, l) = n /\ Segment(t, l) = m[i + 1]
    BY <1>4, <2>3 DEF Toward
  <2>5. i + 1 \in 1..e
    BY <1>2
  <2> QED BY <1>3, <1>5, <2>4, <2>5 DEF NoSibling
<1>7. u = Attached(Extended(t, m, node), n, m)
  BY DEF WithNode, Extended
<1>8. node \in NodesOver(DOMAIN t) /\ node.eps = NoEndpoints /\ node.kids = NoKids
  <2>1. node.eps = NoEndpoints /\ node.kids = NoKids
    BY DEF NewNode
  <2> QED BY <1>1, <2>1, NewNodeTyped
<1>9. n \in DOMAIN u
  BY <1>5, <1>7 DEF Attached, Extended
<1> HIDE DEF u, node, n, m
<1>10. SameFields(node, u[m]) => Named(u, m) /\ Above(u, m) = n /\ Segment(u, m) = TokenSegment(p, i + 1)
  BY <1>1, <1>9, NewNodeNamed DEF node, n, m
<1>11. TokenSegment(p, i + 1) \in Segs
  <2>1. i + 1 \in 1..Len(m)
    BY <1>2, <1>3
  <2> QED BY <1>3, <2>1, ElementOfSeq
<1>12. SameFields(node, u[m]) => Segment(u, m) \in Segs /\ NoSibling(t, n, Segment(u, m))
  BY <1>5, <1>10, <1>11
<1>13. Len(m) <= Height
  BY <1>1, <1>2, <1>3
<1>14. /\ Good(u) /\ DOMAIN u = DOMAIN t \cup {m} /\ SameEndpoints(t, u)
       /\ \A k \in NonRoot(u) : Above(u, k) # m
  <2>1. Good(t) /\ n \in DOMAIN t /\ m \in Seq(Segs)
    BY <1>3, <1>5
  <2>2. SameFields(node, u[m]) => Named(u, m) /\ Above(u, m) = n
    BY <1>10
  <2>3. GrownWell(t, u, m)
    BY <1>6, <1>7, <1>8, <1>12, <1>13, <2>1, <2>2, GrownGood
  <2> QED BY <2>3 DEF GrownWell
<1>15. NoSibling(u, m, TokenSegment(p, e + 1))
  BY <1>14 DEF NoSibling
<1> QED BY <1>14, <1>15 DEF Ready, u, m

(* The trees there are.                                                    *)
Trees == UNION {[d -> NodesOver(d)] : d \in SUBSET Seq(Segs)}

(* A good tree is one of them.                                             *)
LEMMA GoodTree ==
  ASSUME NEW t, Good(t)
  PROVE  t \in Trees
BY DEF Good, Typed, Trees

(* Endpoints that stay the same twice stay the same.                       *)
LEMMA SameTwice ==
  ASSUME NEW t, NEW u, NEW v, SameEndpoints(t, u), SameEndpoints(u, v)
  PROVE  SameEndpoints(t, v)
<1>1. \A k \in DOMAIN v \ DOMAIN t : k \in DOMAIN u \/ k \in DOMAIN v \ DOMAIN u
  OBVIOUS
<1> QED BY <1>1 DEF SameEndpoints

(* The chain of nodes for the rest of a pattern.                           *)
LEMMA WithChainGood ==
  ASSUME NEW t, NEW p \in AllPatterns, Parses(p), NEW i \in 0..Len(p), Ready(t, p, i)
  PROVE  /\ Good(WithChain(t, p, i)) /\ Name(p, Len(p)) \in DOMAIN WithChain(t, p, i)
         /\ SameEndpoints(t, WithChain(t, p, i))
<1> DEFINE n == Len(p)
           Next1(m) == <<WithNode(m[1], p, m[2], NodeEnd(p, m[2])), NodeEnd(p, m[2])>>
           Once(m) == IF m[2] = n THEN m ELSE Next1(m)
           D == {m \in Trees \X (0..n) : Ready(m[1], p, m[2]) /\ SameEndpoints(t, m[1])}
           round == [m \in D |-> Once(m)]
           Equation(f) == f = [k \in Nat |-> IF k = 0 THEN <<t, i>> ELSE Once(f[k - 1])]
           made == CHOOSE f : Equation(f)
<1>1. p \in Seq(Letters) /\ n \in Nat
  BY PatternsTyped
<1>2. ASSUME NEW m \in D
      PROVE  Once(m) \in D /\ (m[2] # n => Once(m)[2] \in Nat /\ Once(m)[2] >= m[2] + 1) /\ m[2] \in 0..n
  <2> DEFINE v == m[1]
             j == m[2]
             e == NodeEnd(p, j)
             w == WithNode(v, p, j, e)
  <2>1. v \in Trees /\ j \in 0..n /\ Ready(v, p, j) /\ SameEndpoints(t, v)
    BY <1>2
  <2>2. CASE j = n
    BY <1>2, <2>1, <2>2
  <2>3. CASE j # n
    <3>1. j \in 0..(n - 1)
      BY <1>1, <2>1, <2>3
    <3>2. e \in (j + 1)..n
      BY <1>1, <3>1, NodeEndFacts
    <3>3. Ready(w, p, e) /\ SameEndpoints(v, w)
      <4> HIDE DEF v, j
      <4> QED BY <2>1, <3>1, WithNodeGood
    <3> HIDE DEF w, e, v
    <3>4. SameEndpoints(t, w)
      BY <2>1, <3>3, SameTwice
    <3>5. w \in Trees /\ e \in 0..n
      BY <1>1, <3>1, <3>2, <3>3, GoodTree DEF Ready
    <3>6. <<w, e>> \in D
      BY <3>3, <3>4, <3>5
    <3>7. Once(m) = <<w, e>>
      BY <2>3 DEF w, e, v
    <3>8. e \in Nat /\ e >= j + 1
      BY <3>1, <3>2
    <3> HIDE DEF Once, D
    <3> QED BY <2>1, <3>6, <3>7, <3>8
  <2> QED BY <2>2, <2>3
<1>3. <<t, i>> \in D
  <2>1. SameEndpoints(t, t)
    BY DEF SameEndpoints
  <2>2. t \in Trees
    BY GoodTree DEF Ready
  <2> QED BY <2>1, <2>2
<1> HIDE DEF D, Once
<1>4. \E f : Equation(f)
  <2>1. round \in [D -> D]
    BY <1>2
  <2>5. PICK f : AllRounds(f, D, round, <<t, i>>)
    <3> HIDE DEF round
    <3> QED BY <1>3, <2>1, RoundsStay
  <2>2. /\ f = [k \in Nat |-> f[k]] /\ f[0] = <<t, i>>
        /\ \A k \in Nat : f[k] \in D /\ f[k + 1] = round[f[k]]
    BY <2>5 DEF AllRounds
  <2>3. ASSUME NEW k \in Nat
        PROVE  f[k] = IF k = 0 THEN <<t, i>> ELSE Once(f[k - 1])
    <3>1. CASE k = 0
      BY <2>2, <3>1
    <3>2. CASE k # 0
      <4>1. k - 1 \in Nat /\ (k - 1) + 1 = k
        BY <3>2
      <4>2. f[k] = round[f[k - 1]] /\ f[k - 1] \in D
        BY <2>2, <4>1
      <4> QED BY <3>2, <4>2
    <3> QED BY <3>1, <3>2
  <2>4. Equation(f)
    BY <2>2, <2>3
  <2> QED BY <2>4
<1>5. Equation(made)
  <2> HIDE DEF Equation
  <2> QED BY <1>4
<1>6. \A k \in Nat : made[k] = IF k = 0 THEN <<t, i>> ELSE Once(made[k - 1])
  <2> HIDE DEF made
  <2> DEFINE g == [k \in Nat |-> IF k = 0 THEN <<t, i>> ELSE Once(made[k - 1])]
  <2>1. \A k \in Nat : g[k] = IF k = 0 THEN <<t, i>> ELSE Once(made[k - 1])
    OBVIOUS
  <2>2. made = g
    BY <1>5
  <2> HIDE DEF g
  <2> QED BY <2>1, <2>2
<1>7. WithChain(t, p, i) = made[n][1]
  BY DEF WithChain, Once
<1> HIDE DEF made
<1> DEFINE N == {k \in Nat : made[k] \in D /\ (made[k][2] = n \/ made[k][2] >= k)}
<1>8. 0 \in N
  <2>1. made[0] = <<t, i>>
    BY <1>6
  <2>2. i >= 0
    OBVIOUS
  <2> QED BY <1>3, <2>1, <2>2
<1>9. ASSUME NEW k \in Nat, k \in N
      PROVE  k + 1 \in N
  <2> DEFINE m == made[k]
  <2>1. k + 1 \in Nat /\ k + 1 # 0 /\ (k + 1) - 1 = k
    OBVIOUS
  <2>2. made[k + 1] = Once(m)
    BY <1>6, <2>1
  <2>3. m \in D /\ (m[2] = n \/ m[2] >= k)
    BY <1>9
  <2> HIDE DEF m
  <2>4. Once(m) \in D /\ (m[2] # n => Once(m)[2] \in Nat /\ Once(m)[2] >= m[2] + 1) /\ m[2] \in 0..n
    BY <1>2, <2>3
  <2>5. m[2] = n => Once(m)[2] = n
    BY DEF Once
  <2>6. Once(m)[2] = n \/ Once(m)[2] >= k + 1
    BY <1>1, <2>3, <2>4, <2>5
  <2> QED BY <2>1, <2>2, <2>4, <2>6
<1> HIDE DEF N
<1>10. n \in N
  BY <1>1, <1>8, <1>9, SetInduction
<1>11. made[n] \in D /\ made[n][2] = n
  <2>1. made[n] \in D /\ (made[n][2] = n \/ made[n][2] >= n)
    BY <1>10 DEF N
  <2>2. made[n][2] \in 0..n
    BY <1>2, <2>1
  <2> QED BY <1>1, <2>1, <2>2
<1> QED BY <1>7, <1>11 DEF D, Ready

(* The first i tokens of a pattern parse.                                  *)
FineTo(p, i) ==
  \A j \in 1..i : /\ p[j] \notin Unclosed
                  /\ p[j] = "*" => j = Len(p)
                  /\ RexIn(p[j]) \notin BadRexes

(* The child that get_edge finds for the token at i + 1.                   *)
EdgeTo(t, n, p, i, k) ==
  /\ k \in NonRoot(t) /\ Above(t, k) = n
  /\ t[k].typ = TypeOf(p[i + 1]) /\ t[k].rex = RexIn(p[i + 1]) /\ t[k].rex \notin BadRexes
  /\ Segment(t, k) = TokenSegment(p, i + 1)

(* get_edge finds the child that stands for the next token, if any does.   *)
LEMMA EdgeFacts ==
  ASSUME NEW t, Good(t), NEW n \in DOMAIN t, NEW p \in Seq(Letters), NEW i \in 0..(Len(p) - 1),
         p[i + 1] \notin Unclosed, NEW edge, edge = GetEdge(t, n, p, i + 1)
  PROVE  /\ edge = 0 => NoSibling(t, n, TokenSegment(p, i + 1))
         /\ edge # 0 => /\ edge \in DOMAIN t[n].kids[TypeOf(p[i + 1])]
                        /\ EdgeTo(t, n, p, i, t[n].kids[TypeOf(p[i + 1])][edge])
<1> DEFINE x == p[i + 1]
           g == TypeOf(x)
           list == t[n].kids[g]
           Right(k) == t[k].label = CharOf(x) /\ t[k].tail = TailOf(p, i + 1) /\ t[k].rex = RexIn(x)
           I == {j \in 1..Len(list) : Right(list[j])}
<1>1. i + 1 \in 1..Len(p) /\ x \in Letters /\ x \notin Unclosed
  BY ElementOfSeq
<1>2. /\ g \in NodeTypes /\ PartType(Part(x)) = g
      /\ RexIn(x) = IF g = "Regexp" THEN Part(x) ELSE "none"
      /\ CharOf(x) = CASE g = "Static" -> Part(x) [] g = "CatchAll" -> "*" [] OTHER -> "{"
      /\ g \in {"Static", "CatchAll"} => Part(x) = x
  BY <1>1, LetterFacts, PartFacts
<1>3. Typed(t) /\ AllNamed(t) /\ SiblingsDiffer(t) /\ Linked(t)
  BY DEF Good
<1>4. list \in Seq(DOMAIN t)
  BY <1>2, <1>3, KidsListed DEF Typed
<1>5. edge = IF I # {} THEN Min(I) ELSE 0
  BY DEF GetEdge, SelectInSeq
<1>6. \A k \in DOMAIN t : k \in ToSet(list) <=> k # <<>> /\ Above(t, k) = n /\ t[k].typ = g
  <2>1. \A h \in NodeTypes, k \in DOMAIN t :
          k \in ToSet(t[n].kids[h]) <=> k # <<>> /\ Above(t, k) = n /\ t[k].typ = h
    BY <1>3 DEF Linked
  <2> HIDE DEF g
  <2> QED BY <1>2, <2>1
<1>7. ASSUME edge = 0
      PROVE  NoSibling(t, n, TokenSegment(p, i + 1))
  <2>1. I = {}
    <3>1. SUFFICES ASSUME I # {}
                   PROVE  edge # 0
      BY <1>7
    <3>2. I \in SUBSET Nat
      OBVIOUS
    <3>3. Min(I) \in I
      <4> HIDE DEF I
      <4> QED BY <3>1, <3>2, MinIsLeast
    <3>4. Min(I) # 0
      <4>1. 0 \notin I
        OBVIOUS
      <4> HIDE DEF I
      <4> QED BY <3>3, <4>1
    <3> HIDE DEF I
    <3> QED BY <1>5, <3>1, <3>4
  <2>2. ASSUME NEW k \in NonRoot(t), Above(t, k) = n, Segment(t, k) = TokenSegment(p, i + 1)
        PROVE  FALSE
    <3>1. Named(t, k) /\ k \in DOMAIN t /\ k # <<>>
      BY <1>3 DEF AllNamed, NonRoot
    <3>2. Segment(t, k)[1] = Part(x) /\ Segment(t, k)[2] = TailOf(p, i + 1)
      BY <2>2 DEF TokenSegment
    <3> DEFINE seg == Segment(t, k)
               node == t[k]
    <3>3. /\ node.typ = PartType(seg[1]) /\ node.tail = seg[2]
          /\ node.label = CASE node.typ = "Static" -> seg[1] [] node.typ = "CatchAll" -> "*" [] OTHER -> "{"
          /\ node.rex = IF node.typ = "Regexp" THEN seg[1] ELSE "none"
      BY <3>1 DEF Named
    <3>4. seg[1] = Part(x) /\ seg[2] = TailOf(p, i + 1)
      BY <3>2
    <3> HIDE DEF seg, node
    <3>5. node.typ = g /\ node.tail = TailOf(p, i + 1) /\ node.rex = RexIn(x) /\ node.label = CharOf(x)
      BY <1>2, <3>3, <3>4
    <3>6. k \in ToSet(list)
      BY <1>6, <2>2, <3>1, <3>5 DEF node
    <3>7. PICK j \in 1..Len(list) : list[j] = k
      <4> HIDE DEF list
      <4>1. \E j \in DOMAIN list : list[j] = k
        BY ONLY <3>6 DEF ToSet
      <4> QED BY <1>4, <4>1
    <3>8. j \in I
      BY <3>5, <3>7 DEF node
    <3> QED BY <2>1, <3>8
  <2> QED BY <2>2 DEF NoSibling
<1>8. ASSUME edge # 0
      PROVE  edge \in DOMAIN list /\ EdgeTo(t, n, p, i, list[edge])
  <2> DEFINE k == list[edge]
  <2>1. edge \in I
    <3>1. I # {}
      BY <1>5, <1>8
    <3>2. I \in SUBSET Nat
      OBVIOUS
    <3>3. Min(I) \in I
      <4> HIDE DEF I
      <4> QED BY <3>1, <3>2, MinIsLeast
    <3> QED BY <1>5, <3>1, <3>3
  <2>2. edge \in 1..Len(list) /\ k \in DOMAIN t /\ k \in ToSet(list) /\ Right(k)
    BY <1>4, <2>1, ElementOfSeq DEF ToSet
  <2>3. k # <<>> /\ Above(t, k) = n /\ t[k].typ = g
    BY <1>6, <2>2
  <2>4. k \in NonRoot(t) /\ Named(t, k)
    BY <1>3, <2>2, <2>3 DEF AllNamed, NonRoot
  <2>5. Segment(t, k) \in Segs
    <3> HIDE DEF k
    <3> QED BY <1>3, <2>4, PlaceFacts
  <2>6. t[k].rex \notin BadRexes
    BY <2>4 DEF Named
  <2>7. Segment(t, k) = TokenSegment(p, i + 1)
    <3> DEFINE node == t[k]
               seg == Segment(t, k)
               tail == TailOf(p, i + 1)
    <3>1. /\ node.typ = "Static" => seg = <<node.label, "">> /\ node.tail = ""
          /\ node.typ = "Regexp" => seg = <<node.rex, node.tail>>
          /\ node.typ = "Param" => seg = <<"{}", node.tail>>
          /\ node.typ = "CatchAll" => seg = <<"*", "">>
      <4> HIDE DEF k
      <4> QED BY <2>4, <2>5, SegmentFacts
    <3>2. node.typ = g /\ node.label = CharOf(x) /\ node.tail = tail /\ node.rex = RexIn(x)
      BY <2>2, <2>3
    <3>3. g = "Param" => Part(x) = "{}"
      <4>1. g = "Param" => x \in Params
        BY <1>1, LetterFacts
      <4>2. x \in Params => Part(x) = "{}"
        BY LetterAssumption DEF Part
      <4> QED BY <4>1, <4>2
    <3>4. g = "CatchAll" => x = "*" /\ tail = ""
      <4>1. g = "CatchAll" => x = "*"
        BY <1>1, LetterFacts
      <4>2. g = "CatchAll" => tail = ""
        BY <1>1, TailFacts
      <4> QED BY <4>1, <4>2
    <3>5. TokenSegment(p, i + 1) = <<Part(x), tail>>
      BY DEF TokenSegment
    <3>6. g \in {"Static", "Regexp", "Param", "CatchAll"}
      BY <1>2 DEF NodeTypes
    <3> HIDE DEF seg, node, tail, k, list, g, x
    <3> QED BY <1>2, <3>1, <3>2, <3>3, <3>4, <3>5, <3>6 DEF seg, x
  <2> QED BY <2>2, <2>3, <2>4, <2>6, <2>7 DEF EdgeTo
<1> QED BY <1>7, <1>8

(* How much of the rest of a pattern a prefix shares: all that is the same. *)
IsShared(p, i, prefix, s) ==
  /\ s \in 1..Len(prefix) /\ i + s <= Len(p)
  /\ \A j \in 1..s : p[i + j] = prefix[j]
  /\ s < Len(prefix) /\ i + s < Len(p) => p[i + s + 1] # prefix[s + 1]

(* longest_prefix is at least one character of a child that was found.     *)
LEMMA SharedFacts ==
  ASSUME NEW p \in Seq(Letters), NEW i \in 0..(Len(p) - 1), NEW prefix \in Seq(Chars),
         Len(prefix) >= 1, prefix[1] = p[i + 1]
  PROVE  IsShared(p, i, prefix, SharedPrefix(p, i, prefix))
<1> DEFINE n == Len(prefix)
           Same(s) == i + s <= Len(p) /\ \A j \in 1..s : p[i + j] = prefix[j]
           T == {s \in 0..n : Same(s)}
           Longest(s) == Same(s) /\ (s < n /\ i + s < Len(p) => p[i + s + 1] # prefix[s + 1])
           shared == CHOOSE s \in 0..n : Longest(s)
<1>1. n \in Nat /\ Len(p) \in Nat /\ i \in Nat /\ i + 1 <= Len(p)
  OBVIOUS
<1>2. PICK s \in T : \A r \in T : r <= s
  <2>1. T \in SUBSET Nat
    BY <1>1
  <2>2. 0 \in T
    BY <1>1
  <2>3. \A r \in T : r <= n
    BY <1>1
  <2> HIDE DEF T
  <2> QED BY <1>1, <2>1, <2>2, <2>3, GreatestExists
<1>3. Longest(s)
  <2>1. SUFFICES ASSUME s < n, i + s < Len(p), p[i + s + 1] = prefix[s + 1]
                 PROVE  FALSE
    BY <1>2
  <2>2. s + 1 \in 0..n /\ i + (s + 1) <= Len(p) /\ s \in Nat
    BY <1>1, <1>2, <2>1
  <2>3. \A j \in 1..(s + 1) : p[i + j] = prefix[j]
    <3>1. ASSUME NEW j \in 1..(s + 1)
          PROVE  p[i + j] = prefix[j]
      <4>1. CASE j = s + 1
        <5>1. i + j = i + s + 1
          BY <1>1, <2>2, <4>1
        <5> QED BY <2>1, <4>1, <5>1
      <4>2. CASE j # s + 1
        <5>1. j \in 1..s
          BY <2>2, <4>2
        <5> QED BY <1>2, <5>1
      <4> QED BY <4>1, <4>2
    <3> QED BY <3>1
  <2>4. s + 1 \in T
    BY <2>2, <2>3
  <2>5. s + 1 <= s
    <3> HIDE DEF T
    <3> QED BY <1>2, <2>4
  <2> QED BY <2>2, <2>5
<1>4. shared \in 0..n /\ Longest(shared)
  <2>1. s \in 0..n
    BY <1>2
  <2> HIDE DEF Longest
  <2> QED BY <1>3, <2>1
<1>5. shared # 0
  <2>1. SUFFICES ASSUME shared = 0
                 PROVE  FALSE
    OBVIOUS
  <2>2. 0 < n /\ i + 0 < Len(p) => p[i + 0 + 1] # prefix[0 + 1]
    <3> HIDE DEF shared
    <3> QED BY <1>4, <2>1
  <2> QED BY <1>1, <2>2
<1>6. SharedPrefix(p, i, prefix) = shared
  BY DEF SharedPrefix
<1>7. shared \in 1..n
  <2> HIDE DEF shared, Longest
  <2> QED BY <1>1, <1>4, <1>5
<1> HIDE DEF shared
<1> QED BY <1>4, <1>6, <1>7 DEF IsShared

(* The first s characters of a prefix follow behind i.                     *)
Agrees(p, i, prefix, s) == \A j \in 1..s : p[i + j] = prefix[j]

(* The way into a static node that has s characters in common.             *)
LEMMA StaticName ==
  ASSUME NEW t, Good(t), NEW p \in Seq(Letters), NEW i \in 0..(Len(p) - 1), FineTo(p, i),
         NEW k \in NonRoot(t), t[k].typ = "Static", t[k].rex \notin BadRexes,
         Above(t, k) = Name(p, i),
         NEW s \in 1..Size(t[k]), i + s <= Len(p), Agrees(p, i, t[k].prefix, s)
  PROVE  FineTo(p, i + s) /\ Upto(k, i + s) = Name(p, i + s)
<1>1. Typed(t) /\ AllNamed(t) /\ Named(t, k) /\ k \in DOMAIN t
  BY DEF Good, AllNamed, NonRoot
<1>2. Len(p) \in Nat /\ i \in Nat /\ i \in 0..Len(p)
  OBVIOUS
<1>3. Closed(p, i)
  BY DEF FineTo, Closed
<1>4. /\ k \in Seq(Segs) /\ Len(k) \in Nat /\ Size(t[k]) \in 1..Len(k)
      /\ Depth(t, k) + Size(t[k]) = Len(k) /\ Len(Above(t, k)) = Depth(t, k)
  BY <1>1, PlaceFacts
<1>5. Len(Name(p, i)) = i
  BY <1>2, <1>3, NameFacts
<1>6. Depth(t, k) = i
  BY <1>4, <1>5
<1>7. ASSUME NEW j \in 1..s
      PROVE  /\ k[i + j] = <<p[i + j], "">> /\ p[i + j] \in Chars \ {"*"}
             /\ TypeOf(p[i + j]) = "Static" /\ p[i + j] \notin Unclosed
             /\ RexIn(p[i + j]) \notin BadRexes
             /\ TokenSegment(p, i + j) = k[i + j]
  <2>1. j \in 1..Size(t[k]) /\ i + j \in 1..Len(p)
    BY <1>2, <1>4, <1>7
  <2>2. k[Depth(t, k) + j] = <<t[k].prefix[j], "">> /\ PartType(t[k].prefix[j]) = "Static"
    BY <1>1, <2>1 DEF Named
  <2>3. k[i + j] = <<p[i + j], "">> /\ PartType(p[i + j]) = "Static"
    BY <1>6, <1>7, <2>2 DEF Agrees
  <2>4. p[i + j] \in Chars \ {"*"}
    BY <2>3 DEF PartType
  <2>5. p[i + j] \in Letters
    BY <2>1, ElementOfSeq
  <2>6. p[i + j] \notin Unclosed /\ p[i + j] \notin Regexps /\ p[i + j] \notin Params
    BY <2>4, LetterAssumption
  <2>7. PartType(Part(p[i + j])) = TypeOf(p[i + j]) /\ Part(p[i + j]) = p[i + j]
    <3>1. PartType(Part(p[i + j])) = TypeOf(p[i + j])
      BY <2>5, <2>6, PartFacts
    <3>2. Part(p[i + j]) = p[i + j]
      BY <2>6 DEF Part
    <3> QED BY <3>1, <3>2
  <2>8. TypeOf(p[i + j]) = "Static"
    BY <2>3, <2>7
  <2>9. t[k].rex = "none" /\ RexIn(p[i + j]) = "none"
    BY <1>1, <2>6 DEF Named, RexIn
  <2>10. TailOf(p, i + j) = ""
    BY <2>1, <2>8, TailFacts
  <2>11. TokenSegment(p, i + j) = k[i + j]
    BY <2>3, <2>7, <2>10 DEF TokenSegment
  <2> QED BY <2>3, <2>4, <2>6, <2>8, <2>9, <2>11
<1>8. FineTo(p, i + s)
  <2>1. ASSUME NEW j \in 1..(i + s)
        PROVE  /\ p[j] \notin Unclosed /\ (p[j] = "*" => j = Len(p)) /\ RexIn(p[j]) \notin BadRexes
    <3>1. CASE j <= i
      <4>1. j \in 1..i
        BY <3>1
      <4> QED BY <4>1 DEF FineTo
    <3>2. CASE ~ (j <= i)
      <4>1. j - i \in 1..s /\ i + (j - i) = j
        BY <1>2, <3>2
      <4> QED BY <1>7, <4>1
    <3> QED BY <3>1, <3>2
  <2> QED BY <2>1 DEF FineTo
<1>9. i + s \in 0..Len(p) /\ Closed(p, i + s) /\ i + s \in 0..Len(k)
  <2> DEFINE size == Size(t[k])
  <2>1. size \in 1..Len(k) /\ i + size = Len(k) /\ s \in 1..size
    BY <1>4, <1>6
  <2> HIDE DEF size
  <2> QED BY <1>2, <1>4, <1>8, <2>1 DEF FineTo, Closed
<1>10. /\ Name(p, i + s) \in Seq(Segs) /\ Len(Name(p, i + s)) = i + s
       /\ \A j \in 1..(i + s) : Name(p, i + s)[j] = <<Part(p[j]), TailOf(p, j)>>
       /\ Upto(Name(p, i + s), i) = Name(p, i)
  <2>1. i \in 0..(i + s)
    BY <1>2
  <2> QED BY <1>9, <2>1, NameFacts
<1>11. /\ Upto(k, i + s) \in Seq(Segs) /\ Len(Upto(k, i + s)) = i + s
       /\ \A j \in 1..(i + s) : Upto(k, i + s)[j] = k[j]
  BY <1>4, <1>9, UptoFacts
<1>12. ASSUME NEW j \in 1..(i + s)
       PROVE  k[j] = Name(p, i + s)[j]
  <2>1. CASE j <= i
    <3>1. j \in 1..i
      BY <2>1
    <3>2. k[j] = Above(t, k)[j]
      BY <1>6, <3>1 DEF Above, Upto
    <3>3. Name(p, i + s)[j] = Upto(Name(p, i + s), i)[j]
      BY <3>1 DEF Upto
    <3> QED BY <1>10, <3>2, <3>3
  <2>2. CASE ~ (j <= i)
    <3>1. j - i \in 1..s /\ i + (j - i) = j
      BY <1>2, <2>2
    <3>2. TokenSegment(p, j) = k[j]
      BY <1>7, <3>1
    <3> QED BY <1>10, <3>2 DEF TokenSegment
  <2> QED BY <2>1, <2>2
<1>13. Upto(k, i + s) = Name(p, i + s)
  <2> DEFINE a == Upto(k, i + s)
             b == Name(p, i + s)
  <2>1. a \in Seq(Segs) /\ b \in Seq(Segs) /\ Len(a) = Len(b) /\ \A j \in 1..Len(a) : a[j] = b[j]
    BY <1>10, <1>11, <1>12
  <2> HIDE DEF a, b
  <2>2. a = b
    BY <2>1, SeqEqual
  <2> QED BY <2>2 DEF a, b
<1> QED BY <1>8, <1>13

-----------------------------------------------------------------------------
(* The way down                                                            *)

(* A place that the loop of insert_route may get to.                       *)
OnTheWay(t, p, d) ==
  /\ d[1] \in DOMAIN t /\ d[2] \in 0..Len(p)
  /\ d[1] = Name(p, d[2]) /\ FineTo(p, d[2])

(* The child that the loop goes on in is the node for what is behind it.   *)
LEMMA StepDown ==
  ASSUME NEW t, Good(t), NEW p \in Seq(Letters), NEW n, NEW i, OnTheWay(t, p, <<n, i>>),
         GoesOn(t, n, p, i), NEW k, k = t[n].kids[TypeOf(p[i + 1])][GetEdge(t, n, p, i + 1)],
         NEW s, s = Shared(t, n, p, i)
  PROVE  OnTheWay(t, p, <<k, i + s>>) /\ i + s \in Nat /\ i + s >= i + 1
<1> DEFINE x == p[i + 1]
           edge == GetEdge(t, n, p, i + 1)
<1>1. n \in DOMAIN t /\ i \in 0..Len(p) /\ n = Name(p, i) /\ FineTo(p, i)
  BY DEF OnTheWay
<1>2. /\ i < Len(p) /\ ~ Malformed(p, i + 1) /\ edge # 0
      /\ Wild(x) \/ s = Len(t[k].prefix)
  BY DEF GoesOn
<1>3. i \in 0..(Len(p) - 1) /\ i + 1 \in 1..Len(p) /\ x \in Letters /\ x \notin Unclosed
  BY <1>1, <1>2, ElementOfSeq DEF Malformed
<1>4. EdgeTo(t, n, p, i, k)
  BY <1>1, <1>2, <1>3, EdgeFacts
<1>5. /\ k \in NonRoot(t) /\ k \in DOMAIN t /\ Above(t, k) = n
      /\ t[k].typ = TypeOf(x) /\ t[k].rex = RexIn(x) /\ t[k].rex \notin BadRexes
      /\ Segment(t, k) = TokenSegment(p, i + 1)
  BY <1>4 DEF EdgeTo, NonRoot
<1>6. Typed(t) /\ AllNamed(t) /\ Named(t, k)
  BY <1>5 DEF Good, AllNamed
<1>7. /\ k \in Seq(Segs) /\ Len(k) \in Nat /\ Size(t[k]) \in 1..Len(k)
      /\ Depth(t, k) + Size(t[k]) = Len(k) /\ Len(Above(t, k)) = Depth(t, k)
      /\ Upto(k, Len(k)) = k
  <2>1. /\ k \in Seq(Segs) /\ Len(k) \in Nat /\ Size(t[k]) \in 1..Len(k)
        /\ Depth(t, k) + Size(t[k]) = Len(k) /\ Len(Above(t, k)) = Depth(t, k)
    BY <1>5, <1>6, PlaceFacts
  <2>2. Len(k) \in 0..Len(k)
    BY <2>1
  <2> QED BY <2>1, <2>2, UptoFacts
<1>8. Closed(p, i) /\ Len(n) = i
  <2>1. Closed(p, i)
    BY <1>1 DEF FineTo, Closed
  <2> QED BY <1>1, <2>1, NameFacts
<1>9. Depth(t, k) = i /\ i + Size(t[k]) = Len(k)
  BY <1>5, <1>7, <1>8
<1>10. CASE Wild(x)
  <2>1. s = 1
    BY <1>10 DEF Shared
  <2>2. t[k].typ # "Static"
    BY <1>5, <1>10 DEF Wild
  <2>3. Size(t[k]) = 1
    BY <2>2 DEF Size
  <2>4. Len(k) = i + 1
    BY <1>9, <2>3
  <2>5. FineTo(p, i + 1)
    <3>1. x \notin Unclosed /\ RexIn(x) \notin BadRexes /\ (x = "*" => i + 1 = Len(p))
      BY <1>1, <1>2, <1>3, <1>5 DEF Malformed
    <3>2. \A j \in 1..(i + 1) : j \in 1..i \/ j = i + 1
      BY <1>1
    <3> QED BY <1>1, <3>1, <3>2 DEF FineTo
  <2>6. Closed(p, i + 1) /\ i + 1 \in 0..Len(p)
    BY <1>3, <2>5 DEF FineTo, Closed
  <2>7. /\ Name(p, i + 1) \in Seq(Segs) /\ Len(Name(p, i + 1)) = i + 1
        /\ \A j \in 1..(i + 1) : Name(p, i + 1)[j] = <<Part(p[j]), TailOf(p, j)>>
        /\ Upto(Name(p, i + 1), i) = Name(p, i)
    <3>1. i \in 0..(i + 1)
      BY <1>1
    <3> QED BY <2>6, <3>1, NameFacts
  <2>8. ASSUME NEW j \in 1..(i + 1)
        PROVE  k[j] = Name(p, i + 1)[j]
    <3>1. CASE j <= i
      <4>1. j \in 1..i
        BY <3>1
      <4>2. k[j] = Above(t, k)[j]
        BY <1>9, <4>1 DEF Above, Upto
      <4>3. Name(p, i + 1)[j] = Upto(Name(p, i + 1), i)[j]
        BY <4>1 DEF Upto
      <4> QED BY <1>1, <1>5, <2>7, <4>2, <4>3
    <3>2. CASE ~ (j <= i)
      <4>1. j = i + 1
        BY <1>1, <3>2
      <4>2. Segment(t, k) = k[i + 1]
        BY <1>9 DEF Segment
      <4> QED BY <1>5, <2>7, <4>1, <4>2 DEF TokenSegment
    <3> QED BY <3>1, <3>2
  <2>9. k = Name(p, i + 1)
    <3> DEFINE b == Name(p, i + 1)
    <3>1. b \in Seq(Segs) /\ Len(k) = Len(b) /\ \A j \in 1..Len(k) : k[j] = b[j]
      BY <2>4, <2>7, <2>8
    <3> HIDE DEF b
    <3>2. k = b
      BY <1>7, <3>1, SeqEqual
    <3> QED BY <3>2 DEF b
  <2>10. OnTheWay(t, p, <<k, i + 1>>)
    BY <1>5, <2>5, <2>6, <2>9 DEF OnTheWay
  <2> QED BY <1>1, <2>1, <2>10
<1>11. CASE ~ Wild(x)
  <2>1. t[k].typ = "Static" /\ t[n].kids[TypeOf(x)] = t[n].kids["Static"]
    BY <1>5, <1>11 DEF Wild
  <2>2. s = SharedPrefix(p, i, t[k].prefix) /\ s = Len(t[k].prefix) /\ Size(t[k]) = s
    BY <1>2, <1>11, <2>1 DEF Shared, Size
  <2> DEFINE prefix == t[k].prefix
  <2>3. prefix \in Seq(Chars)
    <3>1. t[k] \in NodesOver(DOMAIN t)
      BY <1>5, <1>6 DEF Typed
    <3> QED BY <3>1 DEF NodesOver
  <2>4. Len(prefix) >= 1 /\ prefix[1] = x
    <3>1. Len(prefix) >= 1
      <4>1. Size(t[k]) >= 1
        BY <1>7
      <4> QED BY <2>2, <4>1
    <3>2. 1 \in 1..Size(t[k])
      BY <1>7
    <3>3. k[Depth(t, k) + 1] = <<prefix[1], "">>
      BY <1>6, <2>1, <3>2 DEF Named
    <3>4. Segment(t, k) = <<prefix[1], "">>
      BY <3>3 DEF Segment
    <3>5. Segment(t, k)[1] = prefix[1]
      BY <3>4, PairFields
    <3>6. Segment(t, k)[1] = Part(x)
      BY <1>5 DEF TokenSegment
    <3>7. Part(x) = x
      <4>1. TypeOf(x) = "Static"
        BY <1>11 DEF Wild
      <4> QED BY <1>3, <4>1, PartFacts
    <3> QED BY <3>1, <3>5, <3>6, <3>7
  <2>5. IsShared(p, i, prefix, s)
    <3>1. IsShared(p, i, prefix, SharedPrefix(p, i, prefix))
      <4> HIDE DEF prefix
      <4> QED BY <1>3, <2>3, <2>4, SharedFacts
    <3> QED BY <2>2, <3>1
  <2>6. s \in 1..Size(t[k]) /\ i + s <= Len(p) /\ Agrees(p, i, t[k].prefix, s)
    BY <2>2, <2>5 DEF IsShared, Agrees
  <2>7. FineTo(p, i + s) /\ Upto(k, i + s) = Name(p, i + s)
    <3>1. Above(t, k) = Name(p, i)
      BY <1>1, <1>5
    <3> HIDE DEF prefix
    <3> QED BY <1>1, <1>3, <1>5, <2>1, <2>6, <3>1, StaticName
  <2>8. Len(k) = i + s
    BY <1>9, <2>2
  <2>9. k = Name(p, i + s)
    BY <1>7, <2>7, <2>8
  <2>10. s \in Nat /\ s >= 1
    <3> DEFINE size == Size(t[k])
    <3>1. size \in 1..Len(k) /\ size = s
      BY <1>7, <2>2
    <3> HIDE DEF size
    <3> QED BY <1>7, <3>1
  <2>11. i + s \in 0..Len(p)
    BY <1>1, <2>6, <2>10
  <2>12. OnTheWay(t, p, <<k, i + s>>)
    BY <1>5, <2>7, <2>9, <2>11 DEF OnTheWay
  <2> QED BY <1>1, <2>10, <2>12
<1> QED BY <1>10, <1>11

(* Where the loop of insert_route ends: in front of a child that is to be   *)
(* split, of a segment that no child stands for, or of nothing.            *)
LEMMA DescentFacts ==
  ASSUME NEW t, Good(t), NEW p \in Seq(Letters)
  PROVE  /\ OnTheWay(t, p, Descent(t, p))
         /\ ~ GoesOn(t, Descent(t, p)[1], p, Descent(t, p)[2])
<1> DEFINE len == Len(p)
           D == (DOMAIN t) \X (0..len)
           Next1(d) == <<t[d[1]].kids[TypeOf(p[d[2] + 1])][GetEdge(t, d[1], p, d[2] + 1)],
                         d[2] + Shared(t, d[1], p, d[2])>>
           down == [d \in D |-> IF GoesOn(t, d[1], p, d[2]) THEN Next1(d) ELSE d]
           start == << <<>>, 0>>
           On(d) == OnTheWay(t, p, d)
           Ends(d) == ~ GoesOn(t, d[1], p, d[2])
           T == [m \in Nat |-> {d \in D : On(d) /\ (Ends(d) \/ d[2] >= m)}]
<1>1. len \in Nat /\ 0 \in 0..len
  OBVIOUS
<1>2. Descent(t, p) = Rounds(down, start, len)
  BY DEF Descent
<1>3. start \in T[0]
  <2>1. <<>> \in DOMAIN t
    BY DEF Good, Typed
  <2>2. Name(p, 0) = <<>>
    <3>1. Closed(p, 0)
      BY DEF Closed
    <3>2. Name(p, 0) \in Seq(Segs) /\ Len(Name(p, 0)) = 0
      BY <1>1, <3>1, NameFacts
    <3> QED BY <3>2, EmptySeq
  <2>3. FineTo(p, 0)
    BY DEF FineTo
  <2>4. On(start)
    BY <1>1, <2>1, <2>2, <2>3 DEF OnTheWay
  <2>5. start \in D /\ start[2] >= 0
    BY <1>1, <2>1
  <2> HIDE DEF start, On, Ends
  <2> QED BY <2>4, <2>5
<1>4. ASSUME NEW m \in Nat, NEW d \in T[m]
      PROVE  down[d] \in T[m + 1]
  <2>1. d \in D /\ On(d) /\ (Ends(d) \/ d[2] >= m)
    <3> HIDE DEF D, On, Ends
    <3> QED BY <1>4
  <2> DEFINE n == d[1]
             i == d[2]
  <2>2. d = <<n, i>> /\ i \in 0..len
    BY <2>1
  <2>3. CASE Ends(d)
    <3>1. down[d] = d
      BY <2>1, <2>3
    <3> HIDE DEF D, On, Ends, down
    <3> QED BY <2>1, <2>3, <3>1
  <2>4. CASE ~ Ends(d)
    <3> DEFINE k == t[n].kids[TypeOf(p[i + 1])][GetEdge(t, n, p, i + 1)]
               s == Shared(t, n, p, i)
    <3>1. GoesOn(t, n, p, i) /\ OnTheWay(t, p, <<n, i>>)
      BY <2>1, <2>2, <2>4
    <3>2. OnTheWay(t, p, <<k, i + s>>) /\ i + s \in Nat /\ i + s >= i + 1
      <4> HIDE DEF n, i
      <4> QED BY <3>1, StepDown
    <3>3. down[d] = <<k, i + s>>
      BY <2>1, <2>4
    <3>4. i >= m
      BY <2>1, <2>4
    <3> DEFINE j == i + s
    <3>5. On(<<k, j>>) /\ j \in Nat /\ j >= i + 1
      BY <3>2
    <3>6. k \in DOMAIN t /\ j \in 0..len
      <4> HIDE DEF k, j
      <4>1. <<k, j>>[1] = k /\ <<k, j>>[2] = j
        OBVIOUS
      <4> QED BY <3>5, <4>1 DEF OnTheWay
    <3>7. down[d] = <<k, j>>
      BY <3>3
    <3> HIDE DEF k, j, down
    <3>8. <<k, j>> \in D /\ <<k, j>>[2] >= m + 1
      BY <2>2, <3>4, <3>5, <3>6
    <3> HIDE DEF D, On, Ends
    <3> QED BY <3>5, <3>7, <3>8
  <2> QED BY <2>3, <2>4
<1>5. Rounds(down, start, len) \in T[len]
  <2>1. \A m \in Nat : \A d \in T[m] : down[d] \in T[m + 1]
    BY <1>4
  <2> HIDE DEF T, down, start
  <2> QED BY <1>1, <1>3, <2>1, RoundsKeep
<1> DEFINE d == Descent(t, p)
<1>6. d \in D /\ On(d) /\ (Ends(d) \/ d[2] >= len)
  <2> HIDE DEF D, On, Ends, down, start
  <2> QED BY <1>1, <1>2, <1>5
<1>7. d[2] >= len => Ends(d)
  <2>1. d[2] >= len => ~ (d[2] < len)
    <3>1. d[2] \in 0..len
      BY <1>6
    <3> HIDE DEF d
    <3> QED BY <1>1, <3>1
  <2> QED BY <2>1 DEF GoesOn
<1> QED BY <1>6, <1>7

-----------------------------------------------------------------------------
(* A registration                                                          *)

(* What a registration makes of a tree: it puts the pattern into nodes     *)
(* that may be new, or, if it is not one to take, throws and has only made *)
(* such nodes.                                                             *)
Registers(t, method, p, r) ==
  \E u : /\ Good(u) /\ SameEndpoints(t, u)
         /\ \/ /\ r.ok = TRUE /\ Acceptable(p) /\ Name(p, Len(p)) \in DOMAIN u
               /\ r.tree = SetAt(u, Name(p, Len(p)), method, p)
            \/ r.ok = FALSE /\ ~ Acceptable(p) /\ r.tree = u

(* The same, from a tree with the same endpoints.                          *)
LEMMA RegistersToo ==
  ASSUME NEW t, NEW u, SameEndpoints(t, u), NEW method, NEW p, NEW r, Registers(u, method, p, r)
  PROVE  Registers(t, method, p, r)
<1>1. PICK v : /\ Good(v) /\ SameEndpoints(u, v)
               /\ \/ /\ r.ok = TRUE /\ Acceptable(p) /\ Name(p, Len(p)) \in DOMAIN v
                     /\ r.tree = SetAt(v, Name(p, Len(p)), method, p)
                  \/ r.ok = FALSE /\ ~ Acceptable(p) /\ r.tree = v
  BY DEF Registers
<1>2. SameEndpoints(t, v)
  BY <1>1, SameTwice
<1> QED BY <1>1, <1>2 DEF Registers

(* set_endpoint on a node for a pattern that parses.                       *)
LEMMA EndpointFacts ==
  ASSUME NEW t, Good(t), NEW method, NEW p, BeginsWithSlash(p), Parses(p),
         Name(p, Len(p)) \in DOMAIN t
  PROVE  Registers(t, method, p, WithEndpoint(t, method, p))
<1>1. SameEndpoints(t, t)
  BY DEF SameEndpoints
<1>2. CASE DistinctKeys(p)
  <2>1. WithEndpoint(t, method, p) = Result(TRUE, SetAt(t, Name(p, Len(p)), method, p))
    BY <1>2 DEF WithEndpoint, SetAt
  <2>2. Acceptable(p)
    BY <1>2 DEF Acceptable
  <2> DEFINE v == SetAt(t, Name(p, Len(p)), method, p)
             r == WithEndpoint(t, method, p)
  <2>3. r.ok = TRUE /\ r.tree = v
    BY <2>1 DEF Result
  <2> HIDE DEF r, v
  <2> QED BY <1>1, <2>2, <2>3 DEF Registers, v, r
<1>3. CASE ~ DistinctKeys(p)
  <2> DEFINE r == WithEndpoint(t, method, p)
  <2>1. r.ok = FALSE /\ ~ Acceptable(p) /\ r.tree = t
    BY <1>3 DEF WithEndpoint, Result, Acceptable
  <2> HIDE DEF r
  <2> QED BY <1>1, <2>1 DEF Registers, r
<1> QED BY <1>2, <1>3

(* A pattern parses if its beginning and its rest do.                      *)
LEMMA ParsesFrom ==
  ASSUME NEW p \in Seq(Letters), NEW i \in 0..Len(p), FineTo(p, i),
         i < Len(p) => Parses(SubSeq(p, i + 1, Len(p)))
  PROVE  Parses(p)
<1>1. CASE i = Len(p)
  BY <1>1 DEF FineTo, Parses
<1>2. CASE i # Len(p)
  <2> DEFINE n == Len(p)
             q == SubSeq(p, i + 1, n)
  <2>1. n \in Nat /\ i \in Nat /\ i < n /\ Parses(q)
    BY <1>2
  <2>2. i + 1 \in Int /\ n \in Int /\ \A j \in (i + 1)..n : p[j] \in Letters
    BY <2>1, ElementOfSeq
  <2>3. /\ Len(q) = IF i + 1 <= n THEN n - (i + 1) + 1 ELSE 0
        /\ \A j \in 1..(n - (i + 1) + 1) : q[j] = p[(i + 1) + j - 1]
    BY <2>2, SubSeqProperties
  <2> HIDE DEF q
  <2>4. Len(q) = n - i /\ \A j \in 1..(n - i) : q[j] = p[i + j]
    <3>1. n - (i + 1) + 1 = n - i /\ \A j \in 1..(n - i) : (i + 1) + j - 1 = i + j
      BY <2>1
    <3>2. Len(q) = n - i
      BY <2>1, <2>3
    <3>3. \A j \in 1..(n - i) : q[j] = p[i + j]
      <4> HIDE DEF n
      <4> QED BY <2>3, <3>1
    <3> QED BY <3>2, <3>3
  <2>5. ASSUME NEW j \in 1..n
        PROVE  p[j] \notin Unclosed /\ (p[j] = "*" => j = n) /\ RexIn(p[j]) \notin BadRexes
    <3>1. CASE j <= i
      <4>1. j \in 1..i
        BY <3>1
      <4> QED BY <4>1 DEF FineTo
    <3>2. CASE ~ (j <= i)
      <4>1. j - i \in 1..(n - i) /\ i + (j - i) = j /\ j - i \in 1..Len(q)
        BY <2>1, <2>4, <3>2
      <4>2. q[j - i] = p[j]
        BY <2>4, <4>1
      <4>3. /\ q[j - i] \notin Unclosed /\ RexIn(q[j - i]) \notin BadRexes
            /\ q[j - i] = "*" => j - i = Len(q)
        BY <2>1, <4>1 DEF Parses
      <4> QED BY <2>1, <2>4, <4>2, <4>3
    <3> QED BY <3>1, <3>2
  <2> QED BY <2>5 DEF Parses
<1> QED BY <1>1, <1>2

(* What follows the beginning of a pattern that parses does so as well.    *)
LEMMA RestParses ==
  ASSUME NEW p \in Seq(Letters), Parses(p), NEW i \in 0..Len(p), i # Len(p)
  PROVE  Parses(SubSeq(p, i + 1, Len(p)))
<1> DEFINE n == Len(p)
           q == SubSeq(p, i + 1, n)
<1>1. n \in Nat /\ i \in Nat /\ i < n
  OBVIOUS
<1>2. i + 1 \in Int /\ n \in Int /\ \A j \in (i + 1)..n : p[j] \in Letters
  BY <1>1, ElementOfSeq
<1>3. /\ Len(q) = IF i + 1 <= n THEN n - (i + 1) + 1 ELSE 0
      /\ \A j \in 1..(n - (i + 1) + 1) : q[j] = p[(i + 1) + j - 1]
  BY <1>2, SubSeqProperties
<1> HIDE DEF q
<1>4. Len(q) = n - i
  BY <1>1, <1>3
<1>5. ASSUME NEW j \in 1..Len(q)
      PROVE  q[j] \notin Unclosed /\ (q[j] = "*" => j = Len(q)) /\ RexIn(q[j]) \notin BadRexes
  <2>1. j \in 1..(n - (i + 1) + 1) /\ (i + 1) + j - 1 = i + j /\ i + j \in 1..n
    BY <1>1, <1>4
  <2>2. q[j] = p[i + j]
    BY <1>3, <2>1
  <2>3. p[i + j] \notin Unclosed /\ (p[i + j] = "*" => i + j = n) /\ RexIn(p[i + j]) \notin BadRexes
    BY <2>1 DEF Parses
  <2>4. i + j = n => j = Len(q)
    BY <1>1, <1>4
  <2> QED BY <2>2, <2>3, <2>4
<1> QED BY <1>5 DEF Parses, q

(* What is left of a call in front of new nodes.                           *)
LEMMA PlaceRegisters ==
  ASSUME NEW t, NEW method, NEW p \in AllPatterns, BeginsWithSlash(p),
         NEW i \in 0..Len(p), FineTo(p, i), Ready(t, p, i)
  PROVE  Registers(t, method, p, Place(t, method, p, i))
<1>1. p \in Seq(Letters) /\ Len(p) \in Nat
  BY PatternsTyped
<1>2. Good(t) /\ Name(p, i) \in DOMAIN t
  BY DEF Ready
<1>3. CASE i = Len(p)
  <2>1. Parses(p)
    BY <1>1, <1>3, ParsesFrom
  <2>2. Place(t, method, p, i) = WithEndpoint(t, method, p)
    BY <1>3 DEF Place
  <2> QED BY <1>2, <1>3, <2>1, <2>2, EndpointFacts
<1>4. CASE i # Len(p) /\ Parses(SubSeq(p, i + 1, Len(p)))
  <2>1. Parses(p)
    BY <1>1, <1>4, ParsesFrom
  <2> DEFINE u == WithChain(t, p, i)
  <2>2. Place(t, method, p, i) = WithEndpoint(u, method, p)
    BY <1>4 DEF Place
  <2>3. Good(u) /\ Name(p, Len(p)) \in DOMAIN u /\ SameEndpoints(t, u)
    BY <2>1, WithChainGood
  <2> HIDE DEF u
  <2>4. Registers(u, method, p, WithEndpoint(u, method, p))
    BY <2>1, <2>3, EndpointFacts
  <2> QED BY <2>2, <2>3, <2>4, RegistersToo
<1>5. CASE i # Len(p) /\ ~ Parses(SubSeq(p, i + 1, Len(p)))
  <2> DEFINE r == Place(t, method, p, i)
  <2>1. r.ok = FALSE /\ r.tree = t
    BY <1>5 DEF Place, Result
  <2>3. ~ Acceptable(p)
    <3>1. ~ Parses(p)
      BY <1>1, <1>5, RestParses
    <3> QED BY <3>1 DEF Acceptable
  <2>2. SameEndpoints(t, t)
    BY DEF SameEndpoints
  <2> HIDE DEF r
  <2> QED BY <1>2, <2>1, <2>2, <2>3 DEF Registers, r
<1> QED BY <1>3, <1>4, <1>5

(* A tree in which the child for what is left is split is ready for it.    *)
LEMMA SplitReady ==
  ASSUME NEW t, Good(t), NEW p \in AllPatterns, NEW n, NEW i, OnTheWay(t, p, <<n, i>>),
         i < Len(p), ~ Malformed(p, i + 1), ~ GoesOn(t, n, p, i),
         NEW edge, edge = GetEdge(t, n, p, i + 1), edge # 0,
         NEW s, s = Shared(t, n, p, i), NEW upper, upper = Name(p, i + s),
         NEW u, u = Split(t, n, edge, s, upper)
  PROVE  /\ Ready(u, p, i + s) /\ FineTo(p, i + s) /\ SameEndpoints(t, u)
         /\ i + s \in 0..Len(p) /\ s \in Nat
<1> DEFINE x == p[i + 1]
           k == t[n].kids[TypeOf(x)][edge]
           prefix == t[k].prefix
<1>1. p \in Seq(Letters) /\ Len(p) \in Nat /\ Len(p) <= Height /\ Height \in Nat
  BY PatternsTyped, HeightFacts
<1>2. n \in DOMAIN t /\ i \in 0..Len(p) /\ n = Name(p, i) /\ FineTo(p, i)
  BY DEF OnTheWay
<1>3. i \in 0..(Len(p) - 1) /\ i + 1 \in 1..Len(p) /\ x \in Letters /\ x \notin Unclosed
  BY <1>1, <1>2, ElementOfSeq DEF Malformed
<1>4. EdgeTo(t, n, p, i, k) /\ edge \in DOMAIN t[n].kids[TypeOf(x)]
  BY <1>1, <1>2, <1>3, EdgeFacts
<1>5. /\ k \in NonRoot(t) /\ k \in DOMAIN t /\ Above(t, k) = n
      /\ t[k].typ = TypeOf(x) /\ t[k].rex = RexIn(x) /\ t[k].rex \notin BadRexes
      /\ Segment(t, k) = TokenSegment(p, i + 1)
  BY <1>4 DEF EdgeTo, NonRoot
<1>6. ~ Wild(x)
  BY DEF GoesOn
<1>7. TypeOf(x) = "Static"
  BY <1>6 DEF Wild
<1>8. t[k].typ = "Static" /\ k = t[n].kids["Static"][edge] /\ edge \in DOMAIN t[n].kids["Static"]
  BY <1>4, <1>5, <1>7
<1>9. s = SharedPrefix(p, i, prefix) /\ Size(t[k]) = Len(prefix) /\ s # Len(prefix)
  <2>1. s = SharedPrefix(p, i, prefix)
    BY <1>6, <1>8 DEF Shared
  <2>2. Size(t[k]) = Len(prefix)
    BY <1>8 DEF Size
  <2>3. s # Len(prefix)
    BY DEF GoesOn
  <2> QED BY <2>1, <2>2, <2>3
<1> HIDE DEF k
<1>10. Typed(t) /\ AllNamed(t) /\ Named(t, k)
  BY <1>5 DEF Good, AllNamed
<1>11. /\ k \in Seq(Segs) /\ Len(k) \in Nat /\ Size(t[k]) \in 1..Len(k)
       /\ Depth(t, k) + Size(t[k]) = Len(k) /\ Len(Above(t, k)) = Depth(t, k)
       /\ Len(k) <= Height
  <2>1. Len(k) <= Height
    BY <1>5, <1>10 DEF Typed
  <2> QED BY <1>5, <1>10, <2>1, PlaceFacts
<1>12. Closed(p, i) /\ Len(n) = i
  <2>1. Closed(p, i)
    BY <1>2 DEF FineTo, Closed
  <2> QED BY <1>2, <1>1, <2>1, NameFacts
<1>13. prefix \in Seq(Chars)
  <2>1. t[k] \in NodesOver(DOMAIN t)
    BY <1>5, <1>10 DEF Typed
  <2> QED BY <2>1 DEF NodesOver
<1>14. Len(prefix) >= 1 /\ prefix[1] = x
  <2>1. Len(prefix) >= 1 /\ 1 \in 1..Size(t[k])
    BY <1>9, <1>11
  <2>2. k[Depth(t, k) + 1] = <<prefix[1], "">>
    BY <1>8, <1>10, <2>1 DEF Named
  <2>3. Segment(t, k) = <<prefix[1], "">>
    BY <2>2 DEF Segment
  <2>4. Segment(t, k)[1] = prefix[1]
    <3> HIDE DEF prefix
    <3> QED BY <2>3, PairFields
  <2>5. Segment(t, k)[1] = Part(x)
    BY <1>5 DEF TokenSegment
  <2>6. Part(x) = x
    BY <1>3, <1>7, PartFacts
  <2> QED BY <2>1, <2>4, <2>5, <2>6
<1>15. IsShared(p, i, prefix, s)
  <2> HIDE DEF prefix
  <2>1. IsShared(p, i, prefix, SharedPrefix(p, i, prefix))
    BY <1>1, <1>3, <1>13, <1>14, SharedFacts
  <2> QED BY <1>9, <2>1
<1>16. /\ s \in 1..Len(prefix) /\ i + s <= Len(p) /\ Agrees(p, i, prefix, s)
       /\ s < Len(prefix) /\ i + s < Len(p) => p[i + s + 1] # prefix[s + 1]
  BY <1>15 DEF IsShared, Agrees
<1>17. s \in 1..(Len(prefix) - 1) /\ s \in Nat /\ Len(prefix) \in Nat /\ s + 1 \in 1..Len(prefix)
  <2> HIDE DEF prefix
  <2>1. Len(prefix) \in Nat
    BY <1>13
  <2> QED BY <1>9, <1>16, <2>1
<1>18. s \in 1..(Size(t[k]) - 1) /\ s \in 1..Size(t[k])
  BY <1>9, <1>16, <1>17
<1>19. FineTo(p, i + s) /\ Upto(k, i + s) = Name(p, i + s)
  <2>1. Above(t, k) = Name(p, i)
    BY <1>2, <1>5
  <2> QED BY <1>1, <1>2, <1>3, <1>5, <1>8, <1>16, <1>18, <2>1, StaticName
<1>20. upper = Upto(k, Len(n) + s)
  BY <1>12, <1>19
<1>22. HalvedWell(t, u, upper, k, <<prefix[s + 1], "">>)
  BY <1>2, <1>8, <1>11, <1>18, <1>20, HalvedGood
<1>21. Good(u) /\ DOMAIN u = DOMAIN t \cup {upper} /\ SameEndpoints(t, u)
  BY <1>22 DEF HalvedWell
<1>23. ASSUME i + s < Len(p)
       PROVE  NoSibling(u, upper, TokenSegment(p, i + s + 1))
  <2> DEFINE y == p[i + s + 1]
             c == prefix[s + 1]
  <2>1. y # c
    BY <1>16, <1>17, <1>23
  <2>2. y \in Letters
    <3>1. i + s + 1 \in 1..Len(p)
      BY <1>1, <1>2, <1>17, <1>23
    <3> QED BY <1>1, <3>1, ElementOfSeq
  <2>3. PartType(c) = "Static" /\ c \in Chars \ {"*"}
    <3>1. s + 1 \in 1..Size(t[k])
      BY <1>9, <1>17
    <3>2. PartType(c) = "Static"
      BY <1>8, <1>10, <3>1 DEF Named
    <3> QED BY <3>2 DEF PartType
  <2>4. Part(y) # c
    <3>1. CASE y \in Unclosed
      <4>1. Part(y) = y
        BY <3>1, LetterAssumption DEF Part
      <4> QED BY <2>1, <4>1
    <3>2. CASE y \notin Unclosed /\ TypeOf(y) = "Static"
      <4>1. Part(y) = y
        BY <2>2, <3>2, PartFacts
      <4> QED BY <2>1, <4>1
    <3>3. CASE y \notin Unclosed /\ TypeOf(y) # "Static"
      <4>1. PartType(Part(y)) = TypeOf(y)
        BY <2>2, <3>3, PartFacts
      <4> QED BY <2>3, <3>3, <4>1
    <3> QED BY <3>1, <3>2, <3>3
  <2>5. TokenSegment(p, i + s + 1)[1] = Part(y)
    BY DEF TokenSegment
  <2>6. <<c, "">>[1] = c
    OBVIOUS
  <2>7. TokenSegment(p, i + s + 1) # <<c, "">>
    <3> HIDE DEF c, y
    <3> QED BY <2>4, <2>5, <2>6
  <2> HIDE DEF prefix
  <2> QED BY <1>22, <2>7 DEF HalvedWell, OnlyBelow, NoSibling
<1>24. i + s \in 0..Len(p)
  BY <1>1, <1>2, <1>16, <1>17
<1>25. Ready(u, p, i + s)
  <2>1. Name(p, i + s) \in DOMAIN u
    BY <1>21
  <2>2. i + s < Len(p) => NoSibling(u, Name(p, i + s), TokenSegment(p, i + s + 1))
    BY <1>23
  <2> QED BY <1>21, <2>1, <2>2 DEF Ready
<1> QED BY <1>17, <1>19, <1>21, <1>24, <1>25

(* insert_route registers the pattern, or throws.                          *)
LEMMA InsertRegisters ==
  ASSUME NEW t, Good(t), NEW method, NEW p \in AllPatterns, BeginsWithSlash(p)
  PROVE  Registers(t, method, p, Insert(t, method, p))
<1> DEFINE d == Descent(t, p)
           n == d[1]
           i == d[2]
           edge == GetEdge(t, n, p, i + 1)
           s == Shared(t, n, p, i)
           upper == i + s
           r == Insert(t, method, p)
<1>1. p \in Seq(Letters) /\ Len(p) \in Nat
  BY PatternsTyped
<1>2. OnTheWay(t, p, d) /\ ~ GoesOn(t, n, p, i)
  BY <1>1, DescentFacts
<1>3. n \in DOMAIN t /\ i \in 0..Len(p) /\ n = Name(p, i) /\ FineTo(p, i)
  BY <1>2 DEF OnTheWay
<1>4. SameEndpoints(t, t)
  BY DEF SameEndpoints
<1>5. OnTheWay(t, p, <<n, i>>)
  <2> HIDE DEF n, i
  <2> QED BY <1>3 DEF OnTheWay
<1>6. r = IF i < Len(p) /\ Malformed(p, i + 1) THEN Result(FALSE, t)
          ELSE IF i = Len(p) \/ edge = 0 THEN Place(t, method, p, i)
          ELSE Place(Split(t, n, edge, upper - i, Name(p, upper)), method, p, upper)
  BY DEF Insert
<1> HIDE DEF d, n, i, edge, s, upper, r
<1>7. CASE i < Len(p) /\ Malformed(p, i + 1)
  <2>1. r.ok = FALSE /\ r.tree = t
    BY <1>6, <1>7 DEF Result
  <2>2. i + 1 \in 1..Len(p) /\ i + 1 # Len(p) + 1
    BY <1>1, <1>3, <1>7
  <2>3. ~ Parses(p)
    <3>1. p[i + 1] \in Unclosed \/ (p[i + 1] = "*" /\ i + 1 # Len(p))
      <4>1. i + 1 < Len(p) => i + 1 # Len(p)
        BY <1>1, <2>2
      <4> QED BY <1>7, <4>1 DEF Malformed
    <3> QED BY <2>2, <3>1 DEF Parses
  <2>4. ~ Acceptable(p)
    BY <2>3 DEF Acceptable
  <2> QED BY <1>4, <2>1, <2>4 DEF Registers, r
<1>8. CASE i = Len(p)
  <2>1. Ready(t, p, i)
    BY <1>1, <1>3, <1>8 DEF Ready
  <2>2. r = Place(t, method, p, i)
    <3>1. ~ (i < Len(p))
      BY <1>1, <1>8
    <3> QED BY <1>6, <1>8, <3>1
  <2> QED BY <1>3, <2>1, <2>2, PlaceRegisters DEF r
<1>9. CASE i < Len(p) /\ ~ Malformed(p, i + 1) /\ edge = 0
  <2>1. i \in 0..(Len(p) - 1) /\ p[i + 1] \notin Unclosed
    BY <1>1, <1>3, <1>9 DEF Malformed
  <2>2. NoSibling(t, n, TokenSegment(p, i + 1))
    BY <1>1, <1>3, <1>9, <2>1, EdgeFacts DEF edge
  <2>3. Ready(t, p, i)
    BY <1>3, <2>2 DEF Ready
  <2>4. r = Place(t, method, p, i)
    BY <1>6, <1>9
  <2> QED BY <1>3, <2>3, <2>4, PlaceRegisters DEF r
<1>10. CASE i < Len(p) /\ ~ Malformed(p, i + 1) /\ edge # 0
  <2>1. r = Place(Split(t, n, edge, upper - i, Name(p, upper)), method, p, upper)
    BY <1>1, <1>3, <1>6, <1>10
  <2> DEFINE u == Split(t, n, edge, s, Name(p, upper))
  <2>2. Ready(u, p, upper) /\ FineTo(p, upper) /\ SameEndpoints(t, u) /\ upper \in 0..Len(p) /\ s \in Nat
    BY <1>2, <1>5, <1>10, SplitReady DEF edge, s, upper
  <2>3. upper - i = s
    <3>1. upper \in Nat /\ i \in Nat /\ s \in Nat
      BY <1>1, <1>3, <2>2
    <3> QED BY <3>1 DEF upper
  <2> HIDE DEF u
  <2>4. Registers(u, method, p, Place(u, method, p, upper))
    BY <2>2, PlaceRegisters
  <2>5. r = Place(u, method, p, upper)
    BY <2>1, <2>3 DEF u
  <2> QED BY <2>2, <2>4, <2>5, RegistersToo DEF r
<1> QED BY <1>1, <1>3, <1>7, <1>8, <1>9, <1>10

-----------------------------------------------------------------------------
(* The invariant                                                           *)

(* A registration leaves a good tree.                                      *)
LEMMA RegisteredGood ==
  ASSUME NEW t, NEW method, NEW p \in AllPatterns, NEW r, Registers(t, method, p, r)
  PROVE  Good(r.tree)
<1>1. PICK u : /\ Good(u) /\ SameEndpoints(t, u)
               /\ \/ /\ r.ok = TRUE /\ Acceptable(p) /\ Name(p, Len(p)) \in DOMAIN u
                     /\ r.tree = SetAt(u, Name(p, Len(p)), method, p)
                  \/ r.ok = FALSE /\ ~ Acceptable(p) /\ r.tree = u
  BY DEF Registers
<1>2. CASE r.ok = FALSE
  BY <1>1, <1>2
<1>3. CASE r.ok = TRUE
  <2>1. Acceptable(p) /\ Name(p, Len(p)) \in DOMAIN u
    BY <1>1, <1>3
  <2>2. Good(SetAt(u, Name(p, Len(p)), method, p))
    BY <1>1, <2>1, SetAtGood
  <2>3. r.tree = SetAt(u, Name(p, Len(p)), method, p)
    BY <1>1, <1>3
  <2> QED BY <2>2, <2>3
<1> QED BY <1>1, <1>2, <1>3

(* A registration of a pattern that does not begin with a slash throws at  *)
(* once.                                                                   *)
LEMMA RouteRegisters ==
  ASSUME Good(tree), NEW method, NEW p \in AllPatterns
  PROVE  Registers(tree, method, p, InsertRoute(method, p))
<1> DEFINE r == InsertRoute(method, p)
<1>1. CASE BeginsWithSlash(p)
  <2>1. r = Insert(tree, method, p)
    BY <1>1 DEF InsertRoute
  <2>2. Registers(tree, method, p, Insert(tree, method, p))
    BY <1>1, InsertRegisters
  <2> QED BY <2>1, <2>2
<1>2. CASE ~ BeginsWithSlash(p)
  <2>1. r.ok = FALSE /\ ~ Acceptable(p) /\ r.tree = tree
    BY <1>2 DEF InsertRoute, Result, Acceptable
  <2>2. SameEndpoints(tree, tree)
    BY DEF SameEndpoints
  <2> HIDE DEF r
  <2> QED BY <2>1, <2>2 DEF Registers, r
<1> QED BY <1>1, <1>2

(* The empty tree is a good tree.                                          *)
LEMMA EmptyGood == Good(EmptyTree)
<1> DEFINE t == EmptyTree
<1>1. DOMAIN t = {<<>>} /\ t[<<>>] = Root /\ NonRoot(t) = {}
  BY DEF EmptyTree, NonRoot
<1>2. Typed(t)
  <2>1. Root \in NodesOver({<<>>})
    <3> DEFINE eps == NoEndpoints
               kids == NoKids
    <3>1. eps \in [Methods -> AllPatterns \cup {None}] /\ kids \in [NodeTypes -> Seq({<<>>})]
      BY DEF NoEndpoints, NoKids
    <3>2. Root = [typ |-> "Static", label |-> "", tail |-> "", prefix |-> <<>>, rex |-> "none",
                  eps |-> eps, kids |-> kids]
      BY DEF Root
    <3> HIDE DEF eps, kids
    <3>3. [typ |-> "Static", label |-> "", tail |-> "", prefix |-> <<>>, rex |-> "none",
           eps |-> eps, kids |-> kids] \in NodesOver({<<>>})
      BY <3>1 DEF NodesOver, NodeTypes
    <3> QED BY <3>2, <3>3
  <2>2. t \in [{<<>>} -> NodesOver({<<>>})]
    BY <2>1 DEF EmptyTree
  <2>3. <<>> \in Seq(Segs) /\ Len(<<>>) = 0 /\ 0 <= Height
    BY HeightFacts
  <2> HIDE DEF t
  <2> QED BY <1>1, <2>2, <2>3 DEF Typed
<1>3. Root.eps = NoEndpoints /\ \A g \in NodeTypes : Root.kids[g] = <<>>
  BY DEF Root, NoKids
<1> HIDE DEF t
<1>4. AllNamed(t) /\ SiblingsDiffer(t)
  BY <1>1 DEF AllNamed, SiblingsDiffer
<1>5. IsInjective(<<>>) /\ ToSet(<<>>) = {} /\ DOMAIN <<>> = {}
  BY DEF IsInjective, ToSet
<1>6. Linked(t)
  BY <1>1, <1>3, <1>5 DEF Linked
<1>7. Sorted(t)
  <2>1. "Static" \in NodeTypes /\ "Param" \in NodeTypes
    BY DEF NodeTypes
  <2>2. t[<<>>].kids["Static"] = <<>> /\ t[<<>>].kids["Param"] = <<>>
    BY <1>1, <1>3, <2>1
  <2> QED BY <1>1, <1>5, <2>2 DEF Sorted
<1>8. Placed(t)
  BY <1>1, <1>3 DEF Placed, NoEndpoints
<1> QED BY <1>2, <1>4, <1>6, <1>7, <1>8 DEF Good, t

(* What the calls keep.                                                    *)
TreeInv ==
  Good(tree) /\ pending \in BoundedSeq(MountedSet, 3) /\ calls \in 0..MaxCalls

(* The calls keep it.                                                      *)
LEMMA TreeInvHolds == Spec => []TreeInv
<1>1. Init => TreeInv
  <2>1. SUFFICES ASSUME Init
                 PROVE  TreeInv
    OBVIOUS
  <2>2. Good(tree) /\ calls \in 0..MaxCalls
    BY <2>1, EmptyGood, CallAssumption DEF Init
  <2>3. pending \in BoundedSeq(MountedSet, 3)
    <3>1. pending \in [1..0 -> MountedSet] /\ 0 \in 0..3
      BY <2>1 DEF Init
    <3> QED BY <3>1 DEF BoundedSeq, SeqOf
  <2> QED BY <2>2, <2>3 DEF TreeInv
<1>2. TreeInv /\ [Next]_vars => TreeInv'
  <2> SUFFICES ASSUME TreeInv, [Next]_vars
               PROVE  TreeInv'
    OBVIOUS
  <2>1. Good(tree) /\ pending \in BoundedSeq(MountedSet, 3) /\ calls \in 0..MaxCalls
    BY DEF TreeInv
  <2>2. ASSUME NEW p \in Patterns, NEW m \in Methods \cup {"ALL"}, Handle(m, p)
        PROVE  TreeInv'
    <3> DEFINE r == InsertRoute(m, p)
    <3>1. p \in AllPatterns
      BY DEF AllPatterns
    <3>2. Registers(tree, m, p, r)
      BY <2>1, <3>1, RouteRegisters
    <3>3. tree' = r.tree
      BY <2>2 DEF Handle
    <3> HIDE DEF r
    <3>4. Good(tree')
      BY <3>1, <3>2, <3>3, RegisteredGood
    <3>5. calls' \in 0..MaxCalls /\ pending' = pending
      BY <2>1, <2>2, CallAssumption DEF Handle
    <3> QED BY <2>1, <3>4, <3>5 DEF TreeInv
  <2>3. ASSUME NEW p \in MountPatterns, Mount(p)
        PROVE  TreeInv'
    <3>1. calls' \in 0..MaxCalls /\ tree' = tree /\ pending' \in {<<>>, MountedPatterns(p)}
      BY <2>1, <2>3, CallAssumption DEF Mount
    <3>2. MountedPatterns(p) \in BoundedSeq(MountedSet, 3)
      <4> DEFINE s == MountedPatterns(p)
      <4>1. ToSet(s) \subseteq MountedSet
        BY DEF MountedSet
      <4>2. (Len(s) = 1 \/ Len(s) = 3) /\ s = [i \in 1..Len(s) |-> s[i]]
        <5> DEFINE a == p \o <<"*">>
                   b == p \o <<"/">>
                   c == p \o <<"/", "*">>
        <5>1. s = <<a>> \/ s = <<p, b, c>>
          BY DEF MountedPatterns
        <5> HIDE DEF a, b, c, s
        <5> QED BY <5>1
      <4> HIDE DEF s
      <4>3. \A i \in 1..Len(s) : s[i] \in MountedSet
        <5>1. DOMAIN s = 1..Len(s)
          BY <4>2
        <5> QED BY <4>1, <5>1 DEF ToSet
      <4>4. s \in [1..Len(s) -> MountedSet] /\ Len(s) \in 0..3
        BY <4>2, <4>3
      <4>5. s \in BoundedSeq(MountedSet, 3)
        BY <4>4 DEF BoundedSeq, SeqOf
      <4> QED BY <4>5 DEF s
    <3>3. <<>> \in BoundedSeq(MountedSet, 3)
      <4>1. <<>> \in [1..0 -> MountedSet] /\ 0 \in 0..3
        OBVIOUS
      <4> QED BY <4>1 DEF BoundedSeq, SeqOf
    <3> QED BY <2>1, <3>1, <3>2, <3>3 DEF TreeInv
  <2>4. ASSUME MountNext
        PROVE  TreeInv'
    <3> DEFINE p == Head(pending)
               r == InsertRoute("ALL", p)
    <3>1. PICK n \in 0..3 : pending \in [1..n -> MountedSet]
      BY <2>1 DEF BoundedSeq, SeqOf
    <3>2. pending \in Seq(MountedSet) /\ Len(pending) = n /\ pending # <<>>
      BY <2>4, <3>1 DEF MountNext
    <3>3. p \in MountedSet
      BY <3>2
    <3>4. p \in AllPatterns
      BY <3>3 DEF AllPatterns
    <3>5. Registers(tree, "ALL", p, r)
      <4> HIDE DEF p
      <4> QED BY <2>1, <3>4, RouteRegisters
    <3>6. tree' = r.tree /\ pending' \in {<<>>, Tail(pending)} /\ calls' = calls
      BY <2>4 DEF MountNext
    <3> HIDE DEF r, p
    <3>7. Good(tree')
      BY <3>4, <3>5, <3>6, RegisteredGood
    <3>8. pending' \in BoundedSeq(MountedSet, 3)
      <4>1. n # 0
        BY <3>2
      <4>2. Tail(pending) \in [1..(n - 1) -> MountedSet] /\ n - 1 \in 0..3
        <5>1. Tail(pending) \in Seq(MountedSet) /\ Len(Tail(pending)) = n - 1
          BY <3>2, HeadTailProperties
        <5>2. n - 1 \in 0..3
          BY <4>1
        <5>3. Tail(pending) \in [1..Len(Tail(pending)) -> MountedSet]
          BY <5>1, LenProperties
        <5> QED BY <5>1, <5>2, <5>3
      <4>3. <<>> \in [1..0 -> MountedSet] /\ 0 \in 0..3
        OBVIOUS
      <4> QED BY <3>6, <4>2, <4>3 DEF BoundedSeq, SeqOf
    <3> QED BY <2>1, <3>6, <3>7, <3>8 DEF TreeInv
  <2>5. CASE UNCHANGED vars
    BY <2>1, <2>5 DEF vars, TreeInv
  <2> QED BY <2>2, <2>3, <2>4, <2>5 DEF Next
<1> QED BY <1>1, <1>2, PTL DEF Spec

(* What a good tree is to the type invariant.                              *)
LEMMA GoodIsTyped == TreeInv => TypeOK
<1> SUFFICES ASSUME TreeInv
             PROVE  TypeOK
  OBVIOUS
<1>1. Good(tree) /\ pending \in BoundedSeq(MountedSet, 3) /\ calls \in 0..MaxCalls
  BY DEF TreeInv
<1>2. Typed(tree) /\ AllNamed(tree) /\ Linked(tree)
  BY <1>1 DEF Good
<1>3. ASSUME NEW n \in DOMAIN tree
      PROVE  tree[n].eps \in [Methods -> AllPatterns \cup {None}]
  BY <1>2 DEF Typed, NodesOver
<1>4. ASSUME NEW n \in DOMAIN tree, NEW g \in NodeTypes, NEW k \in ToSet(tree[n].kids[g])
      PROVE  /\ k \in DOMAIN tree /\ tree[k].typ = g
             /\ tree[k].label = CASE g = "Static" -> tree[k].prefix[1]
                                  [] g = "CatchAll" -> "*"
                                  [] OTHER -> "{"
  <2>1. tree[n].kids[g] \in Seq(DOMAIN tree)
    BY <1>2, KidsListed DEF Typed
  <2>2. k \in DOMAIN tree
    BY <1>4, <2>1, ElementOfSeq DEF ToSet
  <2>3. k # <<>> /\ Above(tree, k) = n /\ tree[k].typ = g
    BY <1>2, <1>4, <2>2 DEF Linked
  <2>4. k \in NonRoot(tree) /\ Named(tree, k)
    BY <1>2, <2>2, <2>3 DEF NonRoot, AllNamed
  <2>5. Segment(tree, k) \in Segs
    BY <1>2, <2>4, PlaceFacts
  <2>6. g = "Static" => tree[k].label = tree[k].prefix[1]
    BY <2>3, <2>4, <2>5, SegmentFacts
  <2>7. g # "Static" => tree[k].label = IF g = "CatchAll" THEN "*" ELSE "{"
    BY <2>3, <2>4 DEF Named
  <2> QED BY <2>2, <2>3, <2>6, <2>7
<1> QED BY <1>1, <1>3, <1>4 DEF TypeOK

(* What it is to the order of children.                                    *)
LEMMA GoodIsOrdered == TreeInv => TreeOrdered
<1> SUFFICES ASSUME TreeInv, NEW n \in DOMAIN tree
             PROVE  KidsOrdered(tree, n)
  BY DEF TreeOrdered
<1>1. Good(tree)
  BY DEF TreeInv
<1>2. Typed(tree) /\ AllNamed(tree) /\ SiblingsDiffer(tree) /\ Linked(tree) /\ Sorted(tree)
  BY <1>1 DEF Good
<1> DEFINE list(g) == tree[n].kids[g]
<1>3. ASSUME NEW g \in NodeTypes, NEW i \in DOMAIN list(g)
      PROVE  /\ list(g)[i] \in NonRoot(tree) /\ Above(tree, list(g)[i]) = n /\ tree[list(g)[i]].typ = g
             /\ Named(tree, list(g)[i]) /\ Segment(tree, list(g)[i]) \in Segs
  <2> DEFINE k == list(g)[i]
  <2>1. list(g) \in Seq(DOMAIN tree)
    BY <1>2, KidsListed DEF Typed
  <2>2. k \in ToSet(list(g)) /\ k \in DOMAIN tree
    BY <1>3, <2>1, ElementOfSeq DEF ToSet
  <2>3. k # <<>> /\ Above(tree, k) = n /\ tree[k].typ = g
    BY <1>2, <2>2 DEF Linked
  <2>4. k \in NonRoot(tree) /\ Named(tree, k)
    BY <1>2, <2>2, <2>3 DEF NonRoot, AllNamed
  <2> HIDE DEF k
  <2>5. Segment(tree, k) \in Segs
    BY <1>2, <2>4, PlaceFacts
  <2> QED BY <2>3, <2>4, <2>5 DEF k
<1>4. ASSUME NEW g \in NodeTypes, NEW i \in DOMAIN list(g), NEW j \in DOMAIN list(g), i # j
      PROVE  Segment(tree, list(g)[i]) # Segment(tree, list(g)[j])
  <2> DEFINE k == list(g)[i]
             l == list(g)[j]
  <2>1. IsInjective(list(g))
    BY <1>2 DEF Linked
  <2>2. k # l
    BY <1>4, <2>1 DEF IsInjective
  <2>3. k \in NonRoot(tree) /\ l \in NonRoot(tree) /\ Above(tree, k) = Above(tree, l)
    BY <1>3
  <2> HIDE DEF k, l
  <2>4. Segment(tree, k) # Segment(tree, l)
    BY <1>2, <2>2, <2>3 DEF SiblingsDiffer
  <2> QED BY <2>4 DEF k, l
<1>5. NodeTypes = {"Static", "Regexp", "Param", "CatchAll"}
  BY DEF NodeTypes
<1>6. ASSUME NEW i \in DOMAIN list("Static"), NEW j \in DOMAIN list("Static"), i < j
      PROVE  Code[tree[list("Static")[i]].label] < Code[tree[list("Static")[j]].label]
  BY <1>2, <1>6 DEF Sorted
<1>7. ASSUME NEW i \in DOMAIN list("Param"), NEW j \in DOMAIN list("Param"), i < j
      PROVE  /\ tree[list("Param")[i]].tail # "/"
             /\ tree[list("Param")[i]].tail # tree[list("Param")[j]].tail
  <2> DEFINE k == list("Param")[i]
             l == list("Param")[j]
  <2>1. tree[k].tail # "/"
    BY <1>2, <1>7 DEF Sorted
  <2>2. /\ Named(tree, k) /\ Segment(tree, k) \in Segs /\ tree[k].typ = "Param"
        /\ Named(tree, l) /\ Segment(tree, l) \in Segs /\ tree[l].typ = "Param"
    BY <1>3, <1>5
  <2>3. i # j
    <3>1. i \in Nat /\ j \in Nat
      <4>1. list("Param") \in Seq(DOMAIN tree)
        BY <1>2, <1>5, KidsListed DEF Typed
      <4> QED BY <4>1
    <3> QED BY <1>7, <3>1
  <2>4. Segment(tree, k) # Segment(tree, l)
    BY <1>4, <1>5, <2>3
  <2> HIDE DEF k, l
  <2>5. Segment(tree, k) = <<"{}", tree[k].tail>> /\ Segment(tree, l) = <<"{}", tree[l].tail>>
    BY <2>2, SegmentFacts
  <2>6. tree[k].tail # tree[l].tail
    BY <2>4, <2>5
  <2> QED BY <2>1, <2>6 DEF k, l
<1>8. ASSUME NEW i \in DOMAIN list("Regexp"), NEW j \in DOMAIN list("Regexp"), i # j
      PROVE  \/ tree[list("Regexp")[i]].tail # tree[list("Regexp")[j]].tail
             \/ tree[list("Regexp")[i]].rex # tree[list("Regexp")[j]].rex
  <2> DEFINE k == list("Regexp")[i]
             l == list("Regexp")[j]
  <2>2. /\ Named(tree, k) /\ Segment(tree, k) \in Segs /\ tree[k].typ = "Regexp"
        /\ Named(tree, l) /\ Segment(tree, l) \in Segs /\ tree[l].typ = "Regexp"
    BY <1>3, <1>5
  <2>4. Segment(tree, k) # Segment(tree, l)
    BY <1>4, <1>5, <1>8
  <2> HIDE DEF k, l
  <2>5. /\ Segment(tree, k) = <<tree[k].rex, tree[k].tail>>
        /\ Segment(tree, l) = <<tree[l].rex, tree[l].tail>>
    BY <2>2, SegmentFacts
  <2>6. tree[k].tail # tree[l].tail \/ tree[k].rex # tree[l].rex
    BY <2>4, <2>5
  <2> QED BY <2>6 DEF k, l
<1>9. Len(list("CatchAll")) <= 1
  <2> DEFINE s == list("CatchAll")
  <2>1. s \in Seq(DOMAIN tree)
    BY <1>2, <1>5, KidsListed DEF Typed
  <2>2. SUFFICES ASSUME ~ (Len(s) <= 1)
                 PROVE  FALSE
    OBVIOUS
  <2>3. 1 \in DOMAIN s /\ 2 \in DOMAIN s
    <3> HIDE DEF s
    <3> QED BY <2>1, <2>2
  <2> DEFINE k == s[1]
             l == s[2]
  <2>4. /\ Named(tree, k) /\ Segment(tree, k) \in Segs /\ tree[k].typ = "CatchAll"
        /\ Named(tree, l) /\ Segment(tree, l) \in Segs /\ tree[l].typ = "CatchAll"
    BY <1>3, <1>5, <2>3
  <2>5. Segment(tree, k) # Segment(tree, l)
    BY <1>4, <1>5, <2>3
  <2> HIDE DEF s, k, l
  <2>6. Segment(tree, k) = <<"*", "">> /\ Segment(tree, l) = <<"*", "">>
    BY <2>4, SegmentFacts
  <2> QED BY <2>5, <2>6
<1> QED BY <1>6, <1>7, <1>8, <1>9 DEF KidsOrdered

(* Every child is in the group of its type and is labelled with the        *)
(* character it stands for, after any number of registrations and mounts.  *)
THEOREM TreeTypes == Spec => []TypeOK
<1> QED BY TreeInvHolds, GoodIsTyped, PTL

(* No registration, no split and no sort leaves a group of children in an  *)
(* order that the searches would be misled by.                             *)
THEOREM TreeOrder == Spec => []TreeOrdered
<1> QED BY TreeInvHolds, GoodIsOrdered, PTL

-----------------------------------------------------------------------------
(* What the searches reach                                                 *)

(* The shape that a name stands for.                                       *)
ShapeOf(n) == [j \in 1..Len(n) |-> n[j][1]]

(* A name as long as another one and equal to it everywhere is the same.   *)
LEMMA ShapeFacts ==
  ASSUME NEW n \in Seq(Segs)
  PROVE  /\ ShapeOf(n) \in Seq(Parts) /\ Len(ShapeOf(n)) = Len(n)
         /\ \A j \in 1..Len(n) : ShapeOf(n)[j] = n[j][1]
<1>1. Len(n) \in Nat /\ \A j \in 1..Len(n) : n[j] \in Segs
  BY ElementOfSeq
<1>2. \A j \in 1..Len(n) : n[j][1] \in Parts
  BY <1>1, SegPair
<1>3. ShapeOf(n) \in [1..Len(n) -> Parts]
  BY <1>2 DEF ShapeOf
<1>4. ShapeOf(n) \in Seq(Parts) /\ Len(ShapeOf(n)) = Len(n)
  BY <1>1, <1>3, SeqDef
<1> QED BY <1>4 DEF ShapeOf

(* The shape of a node is that of the node above it, and its own piece.    *)
LEMMA ShapeStep ==
  ASSUME NEW t, Good(t), NEW k \in NonRoot(t)
  PROVE  /\ Piece(t[k]) \in Seq(Parts)
         /\ ShapeOf(k) = ShapeOf(Above(t, k)) \o Piece(t[k])
<1>1. Typed(t) /\ AllNamed(t) /\ Named(t, k)
  BY DEF Good, AllNamed
<1> DEFINE n == Above(t, k)
           node == t[k]
           d == Depth(t, k)
           size == Size(node)
           piece == Piece(node)
           seg == Segment(t, k)
<1>2. /\ k \in Seq(Segs) /\ Len(k) \in Nat /\ size \in 1..Len(k) /\ d \in 0..(Len(k) - 1)
      /\ d + size = Len(k) /\ n \in Seq(Segs) /\ Len(n) = d /\ seg \in Segs
  BY <1>1, PlaceFacts
<1>3. \A j \in 1..d : n[j] = k[j]
  BY DEF Above, Upto
<1>4. /\ node.typ \in NodeTypes
      /\ node.typ = "Regexp" => seg = <<node.rex, node.tail>>
      /\ node.typ = "Param" => seg = <<"{}", node.tail>>
      /\ node.typ = "CatchAll" => seg = <<"*", "">>
  BY <1>1, <1>2, SegmentFacts
<1>5. seg = k[d + 1] /\ seg[1] \in Parts
  <2>1. seg[1] \in Parts
    BY <1>2, SegPair
  <2> QED BY <2>1 DEF Segment
<1>6. node.typ \in {"Static", "Regexp", "Param", "CatchAll"}
  BY <1>4 DEF NodeTypes
<1>7. piece \in Seq(Parts) /\ Len(piece) = size /\ \A j \in 1..size : piece[j] = k[d + j][1]
  <2>1. CASE node.typ = "Static"
    <3>1. piece = node.prefix /\ size = Len(node.prefix)
      BY <2>1 DEF Piece, Size
    <3>2. node.prefix \in Seq(Chars)
      <4>1. k \in DOMAIN t
        BY DEF NonRoot
      <4>2. t[k] \in NodesOver(DOMAIN t)
        BY <1>1, <4>1 DEF Typed
      <4> QED BY <4>2 DEF NodesOver
    <3>3. Chars \subseteq Parts
      BY DEF Parts
    <3>4. \A j \in 1..size : k[d + j] = <<node.prefix[j], "">>
      BY <1>1, <2>1 DEF Named
    <3>5. \A j \in 1..size : k[d + j][1] = node.prefix[j]
      <4> HIDE DEF node, size, d
      <4> QED BY <3>4, PairFields
    <3>6. node.prefix \in Seq(Parts)
      <4> HIDE DEF node
      <4> QED BY <3>2, <3>3
    <3> HIDE DEF node, size, piece
    <3> QED BY <3>1, <3>5, <3>6
  <2>2. CASE node.typ # "Static"
    <3>1. size = 1
      BY <2>2 DEF Size
    <3>2. piece = <<seg[1]>>
      <4>1. CASE node.typ = "Regexp"
        <5>1. seg[1] = node.rex
          <6> HIDE DEF seg, node
          <6>1. seg = <<node.rex, node.tail>>
            BY <1>4, <4>1
          <6> QED BY ONLY <6>1, PairFields
        <5>2. piece = <<node.rex>>
          BY <4>1 DEF Piece
        <5> QED BY <5>1, <5>2
      <4>2. CASE node.typ = "Param"
        <5>1. seg[1] = "{}"
          <6> HIDE DEF seg, node
          <6>1. seg = <<"{}", node.tail>>
            BY <1>4, <4>2
          <6> QED BY ONLY <6>1, PairFields
        <5>2. piece = <<"{}">>
          BY <4>2 DEF Piece
        <5> QED BY <5>1, <5>2
      <4>3. CASE node.typ = "CatchAll"
        <5>1. seg[1] = "*"
          <6> HIDE DEF seg, node
          <6>1. seg = <<"*", "">>
            BY <1>4, <4>3
          <6> QED BY ONLY <6>1, PairFields
        <5>2. piece = <<"*">>
          BY <4>3 DEF Piece
        <5> QED BY <5>1, <5>2
      <4> QED BY <1>6, <2>2, <4>1, <4>2, <4>3
    <3> DEFINE x == seg[1]
    <3>3. x \in Parts /\ x = k[d + 1][1] /\ piece = <<x>>
      BY <1>5, <3>2
    <3> HIDE DEF x, piece, size, d
    <3>4. piece \in Seq(Parts) /\ Len(piece) = 1 /\ piece[1] = x
      BY <3>3
    <3>5. \A j \in 1..size : j = 1
      BY <3>1
    <3> QED BY <3>1, <3>3, <3>4, <3>5
  <2> QED BY <2>1, <2>2
<1>8. /\ ShapeOf(k) \in Seq(Parts) /\ Len(ShapeOf(k)) = Len(k)
      /\ \A j \in 1..Len(k) : ShapeOf(k)[j] = k[j][1]
  BY <1>2, ShapeFacts
<1>9. /\ ShapeOf(n) \in Seq(Parts) /\ Len(ShapeOf(n)) = Len(n)
      /\ \A j \in 1..Len(n) : ShapeOf(n)[j] = n[j][1]
  BY <1>2, ShapeFacts
<1> DEFINE a == ShapeOf(k)
           b == ShapeOf(n)
           c == b \o piece
<1>10. a = c
  <2>1. /\ a \in Seq(Parts) /\ b \in Seq(Parts) /\ piece \in Seq(Parts)
        /\ Len(a) = d + size /\ Len(b) = d /\ Len(piece) = size /\ d \in Nat /\ size \in Nat
    <3> HIDE DEF n, d, size, piece
    <3> QED BY <1>2, <1>7, <1>8, <1>9
  <2>2. /\ \A j \in 1..d : a[j] = b[j]
        /\ \A j \in 1..size : a[d + j] = piece[j]
    <3>1. Len(k) = d + size
      BY <1>2
    <3> HIDE DEF a, b, n, d, size, piece
    <3>2. \A j \in 1..d : j \in 1..Len(k) /\ j \in 1..Len(n)
      BY <1>2, <2>1, <3>1
    <3>3. \A j \in 1..size : d + j \in 1..Len(k)
      BY <2>1, <3>1
    <3> QED BY <1>3, <1>7, <1>8, <1>9, <3>2, <3>3 DEF a, b
  <2> HIDE DEF a, b, d, size, piece
  <2>3. Len(c) = d + size /\ c \in Seq(Parts)
    BY <2>1, ConcatProperties
  <2>4. \A j \in 1..(d + size) : c[j] = IF j <= d THEN b[j] ELSE piece[j - d]
    BY <2>1, ConcatProperties
  <2> HIDE DEF c
  <2>5. ASSUME NEW j \in 1..(d + size)
        PROVE  a[j] = c[j]
    <3>1. CASE j <= d
      <4>1. j \in 1..d
        BY <3>1
      <4> QED BY <2>2, <2>4, <3>1, <4>1
    <3>2. CASE ~ (j <= d)
      <4>1. j - d \in 1..size /\ d + (j - d) = j
        BY <2>1, <3>2
      <4> QED BY <2>2, <2>4, <3>2, <4>1
    <3> QED BY <3>1, <3>2
  <2> QED BY <2>1, <2>3, <2>5, SeqEqual
<1> QED BY <1>7, <1>10

(* The nodes that are reached are those of the tree, each with its shape.  *)
LEMMA ReachedFacts ==
  ASSUME NEW t, Good(t)
  PROVE  Reached(t) = {<<n, ShapeOf(n)>> : n \in DOMAIN t}
<1> DEFINE W == (DOMAIN t) \X Seq(Parts)
           first == << <<>>, <<>> >>
           Below(e) == {<<k, e[2] \o Piece(t[k])>> : k \in Kids(t, e[1])}
           More(X) == {first} \cup UNION {Below(e) : e \in X}
           D == SUBSET W
           round == [X \in D |-> More(X)]
           Equation(f) == f = [i \in Nat |-> {first} \cup IF i = 0 THEN {} ELSE UNION {Below(e) : e \in f[i - 1]}]
           within == CHOOSE f : Equation(f)
           At(n) == <<n, ShapeOf(n)>>
<1>1. Typed(t) /\ AllNamed(t) /\ Linked(t)
  BY DEF Good
<1>2. <<>> \in DOMAIN t /\ ShapeOf(<<>>) = <<>> /\ first = At(<<>>)
  <2>1. <<>> \in DOMAIN t /\ <<>> \in Seq(Segs)
    BY <1>1 DEF Typed
  <2>2. ShapeOf(<<>>) \in Seq(Parts) /\ Len(ShapeOf(<<>>)) = 0
    BY <2>1, ShapeFacts
  <2>3. ShapeOf(<<>>) = <<>>
    BY <2>2, EmptySeq
  <2> QED BY <2>1, <2>3
<1>3. ASSUME NEW n \in DOMAIN t, NEW k
      PROVE  k \in Kids(t, n) <=> k \in NonRoot(t) /\ Above(t, k) = n
  <2>1. ASSUME k \in Kids(t, n)
        PROVE  k \in NonRoot(t) /\ Above(t, k) = n
    <3>1. PICK g \in NodeTypes : k \in ToSet(t[n].kids[g])
      BY <2>1 DEF Kids
    <3>2. t[n].kids[g] \in Seq(DOMAIN t)
      BY <1>1, KidsListed DEF Typed
    <3>3. k \in DOMAIN t
      BY <3>1, <3>2, ElementOfSeq DEF ToSet
    <3> QED BY <1>1, <3>1, <3>3 DEF Linked, NonRoot
  <2>2. ASSUME k \in NonRoot(t), Above(t, k) = n
        PROVE  k \in Kids(t, n)
    <3>1. k \in DOMAIN t /\ k # <<>>
      BY <2>2 DEF NonRoot
    <3>2. t[k].typ \in NodeTypes
      <4>1. t[k] \in NodesOver(DOMAIN t)
        BY <1>1, <3>1 DEF Typed
      <4> QED BY <4>1 DEF NodesOver
    <3>3. k \in ToSet(t[n].kids[t[k].typ])
      BY <1>1, <2>2, <3>1, <3>2 DEF Linked
    <3> QED BY <3>2, <3>3 DEF Kids
  <2> QED BY <2>1, <2>2
<1>4. ASSUME NEW n \in DOMAIN t
      PROVE  At(n) \in W
  <2>1. n \in Seq(Segs)
    BY <1>1 DEF Typed
  <2> QED BY <2>1, ShapeFacts
<1>5. ASSUME NEW n \in DOMAIN t
      PROVE  Below(At(n)) = {At(k) : k \in Kids(t, n)}
  <2>1. \A k \in Kids(t, n) : ShapeOf(k) = ShapeOf(n) \o Piece(t[k])
    BY <1>3, ShapeStep
  <2>2. At(n)[1] = n /\ At(n)[2] = ShapeOf(n)
    OBVIOUS
  <2> HIDE DEF At
  <2>3. Below(At(n)) = {<<k, ShapeOf(n) \o Piece(t[k])>> : k \in Kids(t, n)}
    BY <2>2
  <2> QED BY <2>1, <2>3 DEF At
<1>6. ASSUME NEW X \in D
      PROVE  More(X) \in D
  <2>1. first \in W
    BY <1>2, <1>4
  <2>2. ASSUME NEW e \in X
        PROVE  Below(e) \subseteq W
    <3>1. e[1] \in DOMAIN t /\ e[2] \in Seq(Parts)
      BY <1>6
    <3>2. ASSUME NEW k \in Kids(t, e[1])
          PROVE  <<k, e[2] \o Piece(t[k])>> \in W
      <4>1. k \in NonRoot(t) /\ k \in DOMAIN t
        BY <1>3, <3>1, <3>2 DEF NonRoot
      <4>2. Piece(t[k]) \in Seq(Parts)
        BY <4>1, ShapeStep
      <4> DEFINE a == e[2]
                 b == Piece(t[k])
      <4> HIDE DEF a, b
      <4>3. a \o b \in Seq(Parts)
        BY <3>1, <4>2, ConcatProperties DEF a, b
      <4> QED BY <4>1, <4>3 DEF a, b
    <3> QED BY <3>2
  <2> HIDE DEF Below, W, first
  <2> QED BY <2>1, <2>2
<1> HIDE DEF W, D
<1>7. \E f : Equation(f)
  <2>1. round \in [D -> D]
    BY <1>6
  <2>2. {first} \in D
    BY <1>2, <1>4 DEF D
  <2>3. PICK f : AllRounds(f, D, round, {first})
    <3> HIDE DEF round
    <3> QED BY <2>1, <2>2, RoundsStay
  <2>4. /\ f = [i \in Nat |-> f[i]] /\ f[0] = {first}
        /\ \A i \in Nat : f[i] \in D /\ f[i + 1] = round[f[i]]
    BY <2>3 DEF AllRounds
  <2> HIDE DEF Below, first
  <2>5. ASSUME NEW i \in Nat
        PROVE  f[i] = {first} \cup IF i = 0 THEN {} ELSE UNION {Below(e) : e \in f[i - 1]}
    <3>1. CASE i = 0
      BY <2>4, <3>1
    <3>2. CASE i # 0
      <4>1. i - 1 \in Nat /\ (i - 1) + 1 = i
        BY <3>2
      <4>2. f[i] = More(f[i - 1])
        BY <2>4, <4>1
      <4> QED BY <3>2, <4>2
    <3> QED BY <3>1, <3>2
  <2>6. Equation(f)
    BY <2>4, <2>5
  <2> QED BY <2>6
<1>8. Equation(within)
  <2> HIDE DEF Equation
  <2> QED BY <1>7
<1> HIDE DEF within
<1>9. \A i \in Nat : within[i] = {first} \cup IF i = 0 THEN {} ELSE UNION {Below(e) : e \in within[i - 1]}
  <2> HIDE DEF Below, first
  <2> DEFINE g == [i \in Nat |-> {first} \cup IF i = 0 THEN {} ELSE UNION {Below(e) : e \in within[i - 1]}]
  <2>1. \A i \in Nat : g[i] = {first} \cup IF i = 0 THEN {} ELSE UNION {Below(e) : e \in within[i - 1]}
    OBVIOUS
  <2>2. within = g
    BY <1>8
  <2> HIDE DEF g
  <2> QED BY <2>1, <2>2
<1>10. Reached(t) = within[Height]
  BY DEF Reached, within
<1> DEFINE All == {At(n) : n \in DOMAIN t}
           N == {i \in Nat : within[i] \subseteq All /\ \A n \in DOMAIN t : Len(n) <= i => At(n) \in within[i]}
<1>11. 0 \in N
  <2>1. within[0] = {first}
    <3> HIDE DEF Below, first
    <3> QED BY <1>9
  <2>2. \A n \in DOMAIN t : Len(n) <= 0 => n = <<>>
    <3>1. \A n \in DOMAIN t : n \in Seq(Segs)
      BY <1>1 DEF Typed
    <3> QED BY <3>1, EmptySeq
  <2> HIDE DEF first, At
  <2> QED BY <1>2, <2>1, <2>2
<1>12. ASSUME NEW i \in Nat, i \in N
       PROVE  i + 1 \in N
  <2>1. within[i] \subseteq All /\ \A n \in DOMAIN t : Len(n) <= i => At(n) \in within[i]
    BY <1>12
  <2>2. within[i + 1] = {first} \cup UNION {Below(e) : e \in within[i]}
    <3>1. i + 1 \in Nat /\ i + 1 # 0 /\ (i + 1) - 1 = i
      OBVIOUS
    <3> HIDE DEF Below, first
    <3> QED BY <1>9, <3>1
  <2>3. within[i + 1] \subseteq All
    <3>1. ASSUME NEW e \in within[i]
          PROVE  Below(e) \subseteq All
      <4>1. PICK n \in DOMAIN t : e = At(n)
        <5> HIDE DEF At
        <5> QED BY <2>1
      <4>2. \A k \in Kids(t, n) : k \in DOMAIN t
        BY <1>3 DEF NonRoot
      <4>3. Below(e) = {At(k) : k \in Kids(t, n)}
        BY <1>5, <4>1
      <4> HIDE DEF At, Below
      <4> QED BY <4>2, <4>3
    <3>2. first \in All
      BY <1>2
    <3> HIDE DEF Below, All, first
    <3> QED BY <2>2, <3>1, <3>2
  <2>4. ASSUME NEW n \in DOMAIN t, Len(n) <= i + 1
        PROVE  At(n) \in within[i + 1]
    <3>1. CASE n = <<>>
      <4> HIDE DEF Below, At, first
      <4> QED BY <1>2, <2>2, <3>1
    <3>2. CASE n # <<>>
      <4>1. n \in NonRoot(t)
        BY <3>2 DEF NonRoot
      <4> DEFINE m == Above(t, n)
      <4>2. m \in DOMAIN t /\ Len(m) <= i
        <5> DEFINE d == Depth(t, n)
                   len == Len(n)
        <5>1. m \in DOMAIN t /\ Len(m) = d /\ d \in 0..(len - 1) /\ len \in Nat
          BY <1>1, <4>1, PlaceFacts
        <5> HIDE DEF d, m
        <5> QED BY <2>4, <5>1
      <4>3. n \in Kids(t, m)
        BY <1>3, <4>1, <4>2
      <4>4. At(n) \in Below(At(m))
        <5> HIDE DEF At, Below, m
        <5> QED BY <1>5, <4>2, <4>3
      <4>5. At(m) \in within[i]
        BY <2>1, <4>2
      <4> HIDE DEF At, Below, m, first
      <4> QED BY <2>2, <4>4, <4>5
    <3> QED BY <3>1, <3>2
  <2> HIDE DEF All, At
  <2> QED BY <2>3, <2>4
<1> HIDE DEF N
<1>13. Height \in N
  BY <1>11, <1>12, HeightFacts, SetInduction
<1>14. within[Height] = All
  <2>1. \A n \in DOMAIN t : Len(n) <= Height
    BY <1>1 DEF Typed
  <2> HIDE DEF At
  <2> QED BY <1>13, <2>1 DEF N
<1> QED BY <1>10, <1>14

-----------------------------------------------------------------------------
(* The table                                                               *)

(* The shape of a name that patterns have.                                 *)
LEMMA ShapeOfName ==
  ASSUME NEW p \in Seq(Letters), Parses(p)
  PROVE  ShapeOf(Name(p, Len(p))) = Shape(p)
<1> DEFINE n == Name(p, Len(p))
<1>1. Len(p) \in Nat /\ Len(p) \in 0..Len(p)
  OBVIOUS
<1>2. /\ Len(n) = Len(p)
      /\ \A j \in 1..Len(p) : n[j] = <<Part(p[j]), TailOf(p, j)>>
  BY <1>1, ParsedClosed, NameFacts
<1> HIDE DEF n
<1>3. \A j \in 1..Len(p) : n[j][1] = Part(p[j])
  BY <1>2, PairFields
<1>4. ShapeOf(n) = [j \in 1..Len(p) |-> n[j][1]]
  BY <1>2 DEF ShapeOf
<1>5. Shape(p) = [j \in 1..Len(p) |-> Part(p[j])]
  BY DEF Shape
<1>6. ShapeOf(n) = Shape(p)
  BY <1>3, <1>4, <1>5
<1> QED BY <1>6 DEF n

(* Patterns with the same shape have the same name.                        *)
LEMMA ShapeTells ==
  ASSUME NEW p \in Seq(Letters), Parses(p), NEW q \in Seq(Letters), Parses(q), Shape(p) = Shape(q)
  PROVE  Name(p, Len(p)) = Name(q, Len(q))
<1>1. Len(p) = Len(q) /\ \A j \in 1..Len(p) : Part(p[j]) = Part(q[j])
  <2>1. /\ DOMAIN Shape(p) = 1..Len(p) /\ DOMAIN Shape(q) = 1..Len(q)
        /\ \A j \in 1..Len(p) : Shape(p)[j] = Part(p[j])
        /\ \A j \in 1..Len(q) : Shape(q)[j] = Part(q[j])
    BY DEF Shape
  <2>2. Len(p) \in Nat /\ Len(q) \in Nat
    OBVIOUS
  <2>3. Len(p) = Len(q)
    <3>1. 1..Len(p) = 1..Len(q)
      BY <2>1
    <3>2. ~ (Len(p) < Len(q)) /\ ~ (Len(q) < Len(p))
      BY <2>2, <3>1
    <3> QED BY <2>2, <3>2
  <2> QED BY <2>1, <2>3
<1>2. ASSUME NEW j \in 1..Len(p)
      PROVE  TypeOf(p[j]) = TypeOf(q[j]) /\ CharOf(p[j]) = CharOf(q[j])
  <2>1. j \in 1..Len(q) /\ Part(p[j]) = Part(q[j])
    BY <1>1
  <2>2. p[j] \in Letters /\ p[j] \notin Unclosed /\ q[j] \in Letters /\ q[j] \notin Unclosed
    BY <2>1, ParsedToken
  <2>3. TypeOf(p[j]) = TypeOf(q[j])
    BY <2>1, <2>2, PartFacts
  <2>4. CharOf(p[j]) = CASE TypeOf(p[j]) = "Static" -> Part(p[j])
                         [] TypeOf(p[j]) = "CatchAll" -> "*"
                         [] OTHER -> "{"
    BY <2>2, PartFacts
  <2>5. CharOf(q[j]) = CASE TypeOf(q[j]) = "Static" -> Part(q[j])
                         [] TypeOf(q[j]) = "CatchAll" -> "*"
                         [] OTHER -> "{"
    BY <2>2, PartFacts
  <2>6. CharOf(p[j]) = CharOf(q[j])
    BY <2>1, <2>3, <2>4, <2>5
  <2> QED BY <2>3, <2>6
<1>3. ASSUME NEW j \in 1..Len(p)
      PROVE  TailOf(p, j) = TailOf(q, j)
  <2>1. TypeOf(p[j]) = TypeOf(q[j])
    BY <1>2
  <2>2. j < Len(p) => CharOf(p[j + 1]) = CharOf(q[j + 1])
    <3>1. j < Len(p) => j + 1 \in 1..Len(p)
      OBVIOUS
    <3> QED BY <1>2, <3>1
  <2> QED BY <1>1, <2>1, <2>2 DEF TailOf
<1>4. \A j \in 1..Len(p) : <<Part(p[j]), TailOf(p, j)>> = <<Part(q[j]), TailOf(q, j)>>
  BY <1>1, <1>3
<1> QED BY <1>1, <1>4 DEF Name

(* The nodes with endpoints.                                               *)
Leaves(t) == {n \in DOMAIN t : IsLeaf(t[n])}

(* The table of a tree.                                                    *)
TableIn(t) == TableOf[Entries(t)]

(* The shape of a leaf is that of one of its patterns.                     *)
LEMMA LeafPattern ==
  ASSUME NEW t, Good(t), NEW n \in Leaves(t)
  PROVE  \E p \in AllPatterns : /\ p \in Seq(Letters) /\ Acceptable(p) /\ n = Name(p, Len(p))
                                /\ ShapeOf(n) = Shape(p)
<1>1. Typed(t) /\ Placed(t) /\ n \in DOMAIN t /\ t[n].eps # NoEndpoints
  BY DEF Good, Leaves, IsLeaf
<1>2. t[n].eps \in [Methods -> AllPatterns \cup {None}]
  BY <1>1 DEF Typed, NodesOver
<1>3. PICK m \in Methods : t[n].eps[m] # None
  BY <1>1, <1>2 DEF NoEndpoints
<1> DEFINE p == t[n].eps[m]
<1>4. p \in AllPatterns /\ Acceptable(p) /\ n = Name(p, Len(p))
  BY <1>1, <1>2, <1>3 DEF Placed
<1> HIDE DEF p
<1>5. p \in Seq(Letters) /\ Parses(p)
  BY <1>4, PatternsTyped DEF Acceptable
<1>6. ShapeOf(n) = Shape(p)
  BY <1>4, <1>5, ShapeOfName
<1> QED BY <1>4, <1>5, <1>6

(* What the table of a good tree is.                                       *)
TableFits(t) ==
  /\ DOMAIN TableIn(t) = {ShapeOf(n) : n \in Leaves(t)}
  /\ TableIn(t) = [s \in DOMAIN TableIn(t) |-> TableIn(t)[s]]
  /\ \A n \in Leaves(t) : TableIn(t)[ShapeOf(n)] = t[n].eps
  /\ \A n \in Leaves(t), m \in Leaves(t) : ShapeOf(n) = ShapeOf(m) => n = m

(* It has the endpoints of every leaf under its shape.                     *)
LEMMA TableFacts ==
  ASSUME NEW t, Good(t)
  PROVE  /\ Entries(t) = {<<ShapeOf(n), t[n].eps>> : n \in Leaves(t)}
         /\ TableFits(t)
<1> DEFINE All == {<<ShapeOf(n), t[n].eps>> : n \in Leaves(t)}
           Every == Seq(Parts) \X [Methods -> AllPatterns \cup {None}]
<1>1. Typed(t)
  BY DEF Good
<1>2. Entries(t) = All
  <2>1. Entries(t) = {<<e[2], t[e[1]].eps>> : e \in {r \in Reached(t) : IsLeaf(t[r[1]])}}
    BY DEF Entries
  <2>2. Reached(t) = {<<n, ShapeOf(n)>> : n \in DOMAIN t}
    BY ReachedFacts
  <2>3. \A n \in DOMAIN t : <<n, ShapeOf(n)>>[1] = n /\ <<n, ShapeOf(n)>>[2] = ShapeOf(n)
    BY PairFields
  <2>4. {r \in Reached(t) : IsLeaf(t[r[1]])} = {<<n, ShapeOf(n)>> : n \in Leaves(t)}
    BY <2>2, <2>3 DEF Leaves
  <2> DEFINE Pairs == {<<n, ShapeOf(n)>> : n \in Leaves(t)}
  <2>5. Entries(t) = {<<e[2], t[e[1]].eps>> : e \in Pairs}
    BY <2>1, <2>4
  <2>6. \A n \in Leaves(t) : n \in DOMAIN t
    BY DEF Leaves
  <2>7. ASSUME NEW x
        PROVE  x \in Entries(t) <=> x \in All
    <3>1. x \in Entries(t) => x \in All
      <4>1. SUFFICES ASSUME x \in Entries(t)
                     PROVE  x \in All
        OBVIOUS
      <4>2. PICK e \in Pairs : x = <<e[2], t[e[1]].eps>>
        BY <2>5, <4>1
      <4>3. PICK n \in Leaves(t) : e = <<n, ShapeOf(n)>>
        BY <4>2
      <4>4. e[1] = n /\ e[2] = ShapeOf(n)
        BY <2>3, <2>6, <4>3
      <4> QED BY <4>2, <4>3, <4>4
    <3>2. x \in All => x \in Entries(t)
      <4>1. SUFFICES ASSUME x \in All
                     PROVE  x \in Entries(t)
        OBVIOUS
      <4>2. PICK n \in Leaves(t) : x = <<ShapeOf(n), t[n].eps>>
        BY <4>1
      <4> DEFINE e == <<n, ShapeOf(n)>>
      <4>3. e \in Pairs /\ e[1] = n /\ e[2] = ShapeOf(n)
        BY <4>2
      <4> HIDE DEF e
      <4>4. x = <<e[2], t[e[1]].eps>>
        BY <4>2, <4>3
      <4> QED BY <2>5, <4>3, <4>4
    <3> QED BY <3>1, <3>2
  <2> QED BY <2>7
<1>3. ASSUME NEW n \in Leaves(t), NEW m \in Leaves(t), ShapeOf(n) = ShapeOf(m)
      PROVE  n = m
  <2>1. PICK p \in AllPatterns : /\ p \in Seq(Letters) /\ Acceptable(p) /\ n = Name(p, Len(p))
                                 /\ ShapeOf(n) = Shape(p)
    BY LeafPattern
  <2>2. PICK q \in AllPatterns : /\ q \in Seq(Letters) /\ Acceptable(q) /\ m = Name(q, Len(q))
                                 /\ ShapeOf(m) = Shape(q)
    BY LeafPattern
  <2>3. Parses(p) /\ Parses(q) /\ Shape(p) = Shape(q)
    BY <1>3, <2>1, <2>2 DEF Acceptable
  <2> QED BY <2>1, <2>2, <2>3, ShapeTells
<1>4. ASSUME NEW n \in Leaves(t)
      PROVE  ShapeOf(n) \in Seq(Parts) /\ t[n].eps \in [Methods -> AllPatterns \cup {None}]
  <2>1. n \in DOMAIN t /\ n \in Seq(Segs)
    BY <1>1 DEF Typed, Leaves
  <2>2. t[n].eps \in [Methods -> AllPatterns \cup {None}]
    BY <1>1, <2>1 DEF Typed, NodesOver
  <2> QED BY <2>1, <2>2, ShapeFacts
<1>5. All \in SUBSET Every
  BY <1>4
<1> DEFINE T == [s \in {e[1] : e \in All} |-> (CHOOSE e \in All : e[1] = s)[2]]
<1>6. TableIn(t) = T
  <2> HIDE DEF All
  <2>1. TableOf[All] = [s \in {e[1] : e \in All} |-> (CHOOSE e \in All : e[1] = s)[2]]
    BY <1>5 DEF TableOf
  <2> QED BY <1>2, <2>1 DEF TableIn
<1>7. {e[1] : e \in All} = {ShapeOf(n) : n \in Leaves(t)}
  <2> DEFINE E(n) == <<ShapeOf(n), t[n].eps>>
  <2>1. \A n \in Leaves(t) : E(n)[1] = ShapeOf(n)
    OBVIOUS
  <2>2. All = {E(n) : n \in Leaves(t)}
    OBVIOUS
  <2> HIDE DEF E, All
  <2> QED BY <2>1, <2>2
<1>8. ASSUME NEW n \in Leaves(t)
      PROVE  T[ShapeOf(n)] = t[n].eps
  <2> DEFINE s == ShapeOf(n)
             eps == t[n].eps
             Right(e) == e[1] = s
             f == CHOOSE e \in All : Right(e)
  <2>1. <<s, eps>> \in All /\ Right(<<s, eps>>)
    BY <1>8
  <2>2. f \in All /\ Right(f)
    <3> HIDE DEF All, Right
    <3> QED BY <2>1
  <2>3. PICK m \in Leaves(t) : f = <<ShapeOf(m), t[m].eps>>
    <3> HIDE DEF f
    <3> QED BY <2>2
  <2> HIDE DEF f
  <2>4. f[1] = ShapeOf(m) /\ f[2] = t[m].eps
    BY <2>3, PairFields
  <2>5. m = n
    BY <1>3, <2>2, <2>4
  <2>6. s \in {e[1] : e \in All}
    BY <1>7
  <2>7. T[s] = f[2]
    BY <2>6 DEF f
  <2> QED BY <2>4, <2>5, <2>7
<1>9. TableIn(t) = [s \in DOMAIN TableIn(t) |-> TableIn(t)[s]] /\ DOMAIN TableIn(t) = {e[1] : e \in All}
  <2> HIDE DEF All
  <2> QED BY <1>6
<1> HIDE DEF T, All
<1> QED BY <1>2, <1>3, <1>6, <1>7, <1>8, <1>9 DEF TableFits, All

(* The same endpoints make the same table.                                 *)
LEMMA SameTable ==
  ASSUME NEW t, Good(t), NEW u, Good(u), SameEndpoints(t, u)
  PROVE  TableIn(u) = TableIn(t)
<1>1. Leaves(u) = Leaves(t)
  BY DEF Leaves, IsLeaf, SameEndpoints
<1>2. \A n \in Leaves(t) : u[n].eps = t[n].eps
  BY DEF Leaves, SameEndpoints
<1>3. {<<ShapeOf(n), u[n].eps>> : n \in Leaves(u)} = {<<ShapeOf(n), t[n].eps>> : n \in Leaves(t)}
  BY <1>1, <1>2
<1>4. Entries(u) = Entries(t)
  BY <1>3, TableFacts
<1> QED BY <1>4 DEF TableIn

(* Endpoints set at the node of a pattern put it into the table.           *)
LEMMA SetAtPuts ==
  ASSUME NEW t, Good(t), NEW p \in AllPatterns, Acceptable(p), Name(p, Len(p)) \in DOMAIN t,
         NEW method \in Methods \cup {"ALL"}
  PROVE  TableIn(SetAt(t, Name(p, Len(p)), method, p)) = Abstract!Put(TableIn(t), Abstract!MethodsOf(method), p)
<1> DEFINE n == Name(p, Len(p))
           u == SetAt(t, n, method, p)
           T == TableIn(t)
           U == TableIn(u)
           ms == Abstract!MethodsOf(method)
           s == Shape(p)
<1>1. p \in Seq(Letters) /\ Parses(p) /\ p # None
  BY PatternsTyped DEF Acceptable, BeginsWithSlash, None
<1>2. s = ShapeOf(n)
  BY <1>1, ShapeOfName
<1>3. Good(u)
  BY SetAtGood
<1>4. Typed(t)
  BY DEF Good
<1>5. SetOnly(t, n, method, p, u)
  <2>1. t \in [DOMAIN t -> NodesOver(DOMAIN t)]
    BY <1>4 DEF Typed
  <2> HIDE DEF n
  <2>2. n \in DOMAIN t
    BY DEF n
  <2> QED BY <2>1, <2>2, SetAtFacts
<1> HIDE DEF u
<1>6. /\ DOMAIN u = DOMAIN t /\ u[n].eps = SetEndpoint(t[n].eps, method, p)
      /\ \A k \in DOMAIN t : k # n => u[k].eps = t[k].eps
  BY <1>5 DEF SetOnly
<1>7. n \in DOMAIN t
  OBVIOUS
<1> HIDE DEF n
<1>8. TableFits(t) /\ TableFits(u)
  BY <1>3, TableFacts
<1>9. ms \subseteq Methods /\ ms # {}
  BY CallAssumption DEF Abstract!MethodsOf
<1>10. \A m \in Methods : method \in {m, "ALL"} <=> m \in ms
  BY DEF Abstract!MethodsOf
<1>11. u[n].eps = [m \in Methods |-> IF m \in ms THEN p ELSE t[n].eps[m]]
  <2>1. u[n].eps = [m \in Methods |-> IF method \in {m, "ALL"} THEN p ELSE t[n].eps[m]]
    BY <1>6 DEF SetEndpoint
  <2> QED BY <1>10, <2>1
<1>12. n \in Leaves(u)
  <2>1. PICK m \in Methods : m \in ms
    BY <1>9
  <2>2. u[n].eps[m] = p
    BY <1>11, <2>1
  <2>3. u[n].eps # NoEndpoints
    BY <1>1, <2>2 DEF NoEndpoints
  <2> QED BY <1>6, <1>7, <2>3 DEF Leaves, IsLeaf
<1>13. Leaves(u) = Leaves(t) \cup {n}
  <2>1. \A k \in DOMAIN t : k # n => (k \in Leaves(u) <=> k \in Leaves(t))
    BY <1>6 DEF Leaves, IsLeaf
  <2>2. Leaves(u) \subseteq DOMAIN t /\ Leaves(t) \subseteq DOMAIN t
    BY <1>6 DEF Leaves
  <2> QED BY <1>12, <2>1, <2>2
<1> HIDE DEF T, U, ms, s
<1>14. /\ DOMAIN T = {ShapeOf(k) : k \in Leaves(t)} /\ DOMAIN U = {ShapeOf(k) : k \in Leaves(u)}
       /\ U = [x \in DOMAIN U |-> U[x]]
       /\ \A k \in Leaves(t) : T[ShapeOf(k)] = t[k].eps
       /\ \A k \in Leaves(u) : U[ShapeOf(k)] = u[k].eps
       /\ \A k \in Leaves(u), l \in Leaves(u) : ShapeOf(k) = ShapeOf(l) => k = l
  BY <1>8 DEF TableFits, T, U
<1>15. DOMAIN U = DOMAIN T \cup {s}
  BY <1>2, <1>13, <1>14
<1> DEFINE Before(x) == IF x \in DOMAIN T THEN T[x] ELSE [m \in Methods |-> None]
           After(x) == [m \in Methods |-> IF x = s /\ m \in ms THEN p ELSE Before(x)[m]]
<1>16. ASSUME NEW x \in DOMAIN U
       PROVE  U[x] = After(x)
  <2>1. PICK k \in Leaves(u) : x = ShapeOf(k)
    BY <1>14, <1>16
  <2>2. k \in DOMAIN t
    BY <1>6, <2>1 DEF Leaves
  <2>3. CASE k = n
    <3>1. x = s /\ U[x] = u[n].eps
      BY <1>2, <1>14, <2>1, <2>3
    <3>2. \A m \in Methods : Before(x)[m] = t[n].eps[m]
      <4>1. CASE n \in Leaves(t)
        <5>1. x \in DOMAIN T /\ T[x] = t[n].eps
          BY <1>14, <2>1, <2>3, <4>1
        <5> QED BY <5>1
      <4>2. CASE n \notin Leaves(t)
        <5>1. t[n].eps = NoEndpoints
          BY <1>7, <4>2 DEF Leaves, IsLeaf
        <5>2. x \notin DOMAIN T
          <6>1. SUFFICES ASSUME x \in DOMAIN T
                         PROVE  FALSE
            OBVIOUS
          <6>2. PICK l \in Leaves(t) : x = ShapeOf(l)
            BY <1>14, <6>1
          <6>3. l \in Leaves(u) /\ l = n
            BY <1>12, <1>13, <1>14, <2>1, <2>3, <6>2
          <6> QED BY <4>2, <6>2, <6>3
        <5> QED BY <5>1, <5>2 DEF NoEndpoints
      <4> QED BY <4>1, <4>2
    <3> HIDE DEF Before
    <3>3. [m \in Methods |-> IF m \in ms THEN p ELSE t[n].eps[m]] = After(x)
      BY <3>1, <3>2
    <3> QED BY <1>11, <3>1, <3>3
  <2>4. CASE k # n
    <3>1. k \in Leaves(t) /\ u[k].eps = t[k].eps
      BY <1>6, <1>13, <2>1, <2>2, <2>4
    <3>2. x # s
      BY <1>2, <1>12, <1>14, <2>1, <2>4
    <3>3. x \in DOMAIN T /\ T[x] = t[k].eps /\ U[x] = t[k].eps
      BY <1>14, <2>1, <3>1
    <3>4. t[k].eps \in [Methods -> AllPatterns \cup {None}]
      BY <1>4, <2>2 DEF Typed, NodesOver
    <3>5. t[k].eps = [m \in Methods |-> t[k].eps[m]]
      BY <3>4
    <3>6. After(x) = [m \in Methods |-> t[k].eps[m]]
      BY <3>2, <3>3
    <3> QED BY <3>3, <3>5, <3>6
  <2> QED BY <2>3, <2>4
<1>17. Abstract!Put(T, ms, p) = [x \in DOMAIN T \cup {s} |-> After(x)]
  BY DEF Abstract!Put, Abstract!Entry, s
<1> HIDE DEF After
<1>18. U = [x \in DOMAIN T \cup {s} |-> After(x)]
  BY <1>14, <1>15, <1>16
<1>19. U = Abstract!Put(T, ms, p)
  BY <1>17, <1>18
<1> QED BY <1>19 DEF U, T, ms, u, n

(* What a call does to the table.                                          *)
LEMMA RegisteredTable ==
  ASSUME NEW t, Good(t), NEW method \in Methods \cup {"ALL"}, NEW p \in AllPatterns,
         NEW r, Registers(t, method, p, r)
  PROVE  \/ /\ Acceptable(p) /\ r.ok = TRUE
            /\ TableIn(r.tree) = Abstract!Put(TableIn(t), Abstract!MethodsOf(method), p)
         \/ ~ Acceptable(p) /\ r.ok = FALSE /\ TableIn(r.tree) = TableIn(t)
<1>1. PICK u : /\ Good(u) /\ SameEndpoints(t, u)
               /\ \/ /\ r.ok = TRUE /\ Acceptable(p) /\ Name(p, Len(p)) \in DOMAIN u
                     /\ r.tree = SetAt(u, Name(p, Len(p)), method, p)
                  \/ r.ok = FALSE /\ ~ Acceptable(p) /\ r.tree = u
  BY DEF Registers
<1>2. TableIn(u) = TableIn(t)
  BY <1>1, SameTable
<1>3. CASE r.ok = TRUE
  <2>1. Acceptable(p) /\ Name(p, Len(p)) \in DOMAIN u /\ r.tree = SetAt(u, Name(p, Len(p)), method, p)
    BY <1>1, <1>3
  <2>2. TableIn(SetAt(u, Name(p, Len(p)), method, p)) = Abstract!Put(TableIn(u), Abstract!MethodsOf(method), p)
    BY <1>1, <2>1, SetAtPuts
  <2> QED BY <1>2, <1>3, <2>1, <2>2
<1>4. CASE r.ok = FALSE
  BY <1>1, <1>2, <1>4
<1> QED BY <1>1, <1>3, <1>4

(* The table of the empty tree is empty.                                   *)
LEMMA EmptyTable == TableIn(EmptyTree) = <<>>
<1> DEFINE T == TableIn(EmptyTree)
<1>1. TableFits(EmptyTree)
  BY EmptyGood, TableFacts
<1>2. Leaves(EmptyTree) = {}
  BY DEF Leaves, IsLeaf, EmptyTree, Root
<1> HIDE DEF T
<1>3. DOMAIN T = {} /\ T = [s \in DOMAIN T |-> T[s]]
  BY <1>1, <1>2 DEF TableFits, T
<1>4. T \in [{} -> {}]
  BY <1>3
<1>5. T \in [1..0 -> {}]
  <2>1. 1..0 = {}
    OBVIOUS
  <2> QED BY <1>4, <2>1
<1>6. T \in Seq({}) /\ Len(T) = 0
  BY <1>5, SeqDef
<1>7. T = <<>>
  BY <1>6, EmptySeq
<1> QED BY <1>7 DEF T

(* A registration by a call is that registration in the table.             *)
LEMMA CallRegisters ==
  ASSUME Good(tree), NEW method \in Methods \cup {"ALL"}, NEW p \in AllPatterns,
         tree' = InsertRoute(method, p).tree, Called(method, p)
  PROVE  Abstract!Register(method, p)
<1> DEFINE r == InsertRoute(method, p)
<1>1. Registers(tree, method, p, r)
  BY RouteRegisters
<1>2. /\ tree' = r.tree
      /\ lastCall' = [method |-> method, pattern |-> p, returned |-> r.ok]
  BY DEF Called
<1>3. Table = TableIn(tree) /\ Table' = TableIn(tree')
  BY DEF Table, TableIn
<1> HIDE DEF r
<1>4. \/ /\ Acceptable(p) /\ r.ok = TRUE
         /\ TableIn(r.tree) = Abstract!Put(TableIn(tree), Abstract!MethodsOf(method), p)
      \/ ~ Acceptable(p) /\ r.ok = FALSE /\ TableIn(r.tree) = TableIn(tree)
  BY <1>1, RegisteredTable
<1>5. CASE Acceptable(p)
  <2>1. r.ok = TRUE /\ Table' = Abstract!Put(Table, Abstract!MethodsOf(method), p)
    BY <1>2, <1>3, <1>4, <1>5
  <2> QED BY <1>2, <1>5, <2>1 DEF Abstract!Register
<1>6. CASE ~ Acceptable(p)
  <2>1. r.ok = FALSE /\ Table' = Table
    BY <1>2, <1>3, <1>4, <1>6
  <2>2. Acceptable(p) = FALSE
    BY <1>6 DEF Acceptable
  <2>3. /\ lastCall' = [method |-> method, pattern |-> p, returned |-> Acceptable(p)]
        /\ Table' = IF Acceptable(p) THEN Abstract!Put(Table, Abstract!MethodsOf(method), p) ELSE Table
    BY <1>2, <1>6, <2>1, <2>2
  <2> QED BY <2>3 DEF Abstract!Register
<1> QED BY <1>5, <1>6

(* Each step of a call is a registration in the table, and the check at    *)
(* the start of a mount none.                                              *)
LEMMA TableStep ==
  ASSUME TreeInv, [CallsNext]_<<vars, lastCall>>
  PROVE  [Abstract!Next]_<<Table, lastCall>>
<1>1. Good(tree) /\ pending \in BoundedSeq(MountedSet, 3)
  BY DEF TreeInv
<1>2. ASSUME NEW p \in Patterns, NEW m \in Methods \cup {"ALL"}, Handle(m, p), Called(m, p)
      PROVE  Abstract!Next
  <2>1. p \in AllPatterns /\ tree' = InsertRoute(m, p).tree
    BY <1>2 DEF AllPatterns, Handle
  <2>2. Abstract!Register(m, p)
    BY <1>1, <1>2, <2>1, CallRegisters
  <2> QED BY <2>1, <2>2 DEF Abstract!Next
<1>3. ASSUME NEW p \in MountPatterns, Mount(p), UNCHANGED lastCall
      PROVE  UNCHANGED <<Table, lastCall>>
  <2>1. tree' = tree
    BY <1>3 DEF Mount
  <2> QED BY <1>3, <2>1 DEF Table, Entries, Reached, Kids, Piece
<1>4. ASSUME MountNext, Called("ALL", Head(pending))
      PROVE  Abstract!Next
  <2>1. PICK n \in 0..3 : pending \in [1..n -> MountedSet]
    BY <1>1 DEF BoundedSeq, SeqOf
  <2>2. pending \in Seq(MountedSet) /\ pending # <<>>
    BY <1>4, <2>1 DEF MountNext
  <2>3. Head(pending) \in MountedSet
    BY <2>2
  <2>4. Head(pending) \in AllPatterns
    BY <2>3 DEF AllPatterns
  <2>5. tree' = InsertRoute("ALL", Head(pending)).tree
    BY <1>4 DEF MountNext
  <2>6. Abstract!Register("ALL", Head(pending))
    BY <1>1, <1>4, <2>4, <2>5, CallRegisters
  <2> QED BY <2>4, <2>6 DEF Abstract!Next
<1>5. CASE UNCHANGED <<vars, lastCall>>
  <2>1. tree' = tree /\ lastCall' = lastCall
    BY <1>5 DEF vars
  <2> QED BY <2>1 DEF Table, Entries, Reached, Kids, Piece
<1> QED BY <1>2, <1>3, <1>4, <1>5 DEF CallsNext

(* Whatever nodes the registrations split and add, each of them does to    *)
(* the table of routes what it was called for: one of a pattern that the   *)
(* router takes returns and puts it under the methods of the call and its  *)
(* shape, and nowhere else; one of another pattern throws and changes no   *)
(* entry.                                                                  *)
THEOREM TreeImplementsTable == CallsSpec => ImplementsTable
<1>1. CallsInit => Abstract!Init
  <2>1. Init => Table = TableIn(EmptyTree)
    BY DEF Init, Table, TableIn
  <2> QED BY <2>1, EmptyTable DEF CallsInit, Abstract!Init, Abstract!NoCall
<1>2. CallsSpec => Spec
  <2>1. CallsInit => Init
    BY DEF CallsInit
  <2>2. [CallsNext]_<<vars, lastCall>> => [Next]_vars
    <3>1. CallsNext => Next
      BY DEF CallsNext, Next
    <3>2. UNCHANGED <<vars, lastCall>> => UNCHANGED vars
      OBVIOUS
    <3> QED BY <3>1, <3>2
  <2> QED BY <2>1, <2>2, PTL DEF CallsSpec, Spec
<1>3. TreeInv /\ [CallsNext]_<<vars, lastCall>> => [Abstract!Next]_<<Table, lastCall>>
  BY TableStep
<1> QED BY <1>1, <1>2, <1>3, TreeInvHolds, PTL DEF CallsSpec, ImplementsTable, Abstract!Spec
=============================================================================
