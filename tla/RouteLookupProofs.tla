-------------------------- MODULE RouteLookupProofs -------------------------
(***************************************************************************)
(* What the lookups in a good tree find, for every set of patterns and     *)
(* every path.                                                             *)
(***************************************************************************)
EXTENDS RouteTreeProofs

-----------------------------------------------------------------------------
(* Binary search                                                           *)

(* A state of the binary search: where it is between, and what it looked   *)
(* at last; in m rounds it has found the label, or g is still between.     *)
Halving(t, kids, label, g, m) ==
  {s \in Nat \X Nat \X Nat :
     /\ s[1] >= 1 /\ s[2] <= Len(kids) /\ s[3] \in 1..Len(kids)
     /\ Ascending(t, kids) /\ g \in 1..Len(kids) /\ t[kids[g]].label = label =>
          \/ s[1] = Len(kids) + 1 /\ t[kids[s[3]]].label = label
          \/ s[1] <= g /\ g <= s[2] /\ (s[2] - s[1]) + 1 + m <= Len(kids)}

(* The middle of two numbers is between them.                              *)
LEMMA MiddleFacts ==
  ASSUME NEW i \in Nat, NEW j \in Nat, i <= j
  PROVE  i + (j - i) \div 2 \in i..j
<1>1. j - i \in Nat
  OBVIOUS
<1>2. (j - i) \div 2 \in 0..(j - i)
  BY <1>1
<1> DEFINE h == (j - i) \div 2
<1> HIDE DEF h
<1>3. i + h \in i..j
  BY <1>2 DEF h
<1> QED BY <1>3 DEF h

(* The binary search finds a label, and only that one, among ascending     *)
(* labels.                                                                 *)
LEMMA FindEdgeFacts ==
  ASSUME NEW t, NEW kids \in Seq(DOMAIN t), \A k \in ToSet(kids) : t[k].label \in Chars,
         NEW label \in Chars
  PROVE  /\ FindEdge(t, kids, label) \in 0..Len(kids)
         /\ FindEdge(t, kids, label) # 0 => t[kids[FindEdge(t, kids, label)]].label = label
         /\ \A g \in 1..Len(kids) : Ascending(t, kids) /\ t[kids[g]].label = label =>
                                      FindEdge(t, kids, label) # 0
<1> DEFINE n == Len(kids)
           halve == [s \in Nat \X Nat \X Nat |->
                       LET i == s[1]
                           j == s[2]
                           k == i + (j - i) \div 2
                       IN  IF i > j THEN s
                           ELSE IF Code[t[kids[k]].label] < Code[label] THEN <<k + 1, j, k>>
                           ELSE IF Code[label] < Code[t[kids[k]].label] THEN <<i, k - 1, k>>
                           ELSE <<n + 1, j, k>>]
           at == Rounds(halve, <<1, n, 1>>, n)[3]
<1>1. CASE kids = <<>>
  <2>1. n = 0 /\ FindEdge(t, kids, label) = 0
    BY <1>1 DEF FindEdge
  <2> HIDE DEF n
  <2> QED BY <2>1 DEF n
<1>2. CASE kids # <<>>
  <2>1. n \in Nat /\ n >= 1
    BY <1>2, EmptySeq
  <2>2. FindEdge(t, kids, label) = IF t[kids[at]].label # label THEN 0 ELSE at
    BY <1>2 DEF FindEdge
  <2>3. \A k \in 1..n : t[kids[k]].label \in Chars
    BY ElementOfSeq DEF ToSet
  <2>4. ASSUME NEW g
        PROVE  Rounds(halve, <<1, n, 1>>, n) \in Halving(t, kids, label, g, n)
    <3> DEFINE T == [m \in Nat |-> Halving(t, kids, label, g, m)]
    <3>1. <<1, n, 1>> \in T[0]
      <4>1. (n - 1) + 1 + 0 <= n /\ 1 \in 1..n
        BY <2>1
      <4> HIDE DEF halve, n
      <4>2. <<1, n, 1>> \in Nat \X Nat \X Nat
        BY <2>1
      <4>3. g \in 1..n => 1 <= g /\ g <= n
        BY <2>1
      <4> QED BY <2>1, <4>1, <4>2, <4>3 DEF Halving, n
    <3>2. ASSUME NEW m \in Nat, NEW s \in T[m]
          PROVE  halve[s] \in T[m + 1]
      <4> DEFINE i == s[1]
                 j == s[2]
                 k == i + (j - i) \div 2
                 Given == Ascending(t, kids) /\ g \in 1..n /\ t[kids[g]].label = label
      <4>1. /\ s \in Nat \X Nat \X Nat /\ i \in Nat /\ j \in Nat /\ s[3] \in 1..n /\ i >= 1 /\ j <= n
            /\ Given => \/ i = n + 1 /\ t[kids[s[3]]].label = label
                        \/ i <= g /\ g <= j /\ (j - i) + 1 + m <= n
        BY <3>2 DEF Halving
      <4>2. CASE i > j
        <5>1. halve[s] = s
          BY <4>1, <4>2
        <5>2. Given => i = n + 1 /\ t[kids[s[3]]].label = label
          <6>1. Given => g \in Nat
            OBVIOUS
          <6> HIDE DEF Given, i, j, n
          <6> QED BY <4>1, <4>2, <6>1
        <5>3. s \in T[m + 1]
          <6>1. s \in Halving(t, kids, label, g, m + 1)
            BY <4>1, <5>2 DEF Halving
          <6> QED BY <6>1
        <5> HIDE DEF T, halve
        <5> QED BY <5>1, <5>3
      <4>3. CASE ~ (i > j)
        <5>1. k \in i..j /\ k \in 1..n /\ k \in Nat
          <6>1. k \in i..j
            <7>1. i <= j
              BY <4>1, <4>3
            <7> HIDE DEF i, j
            <7> QED BY <4>1, <7>1, MiddleFacts
          <6> HIDE DEF i, j, k, n
          <6> QED BY <2>1, <4>1, <6>1
        <5> DEFINE c == Code[t[kids[k]].label]
                   d == Code[label]
        <5>2. c \in Nat /\ d \in Nat /\ (c = d => t[kids[k]].label = label)
          <6> HIDE DEF k, n
          <6> QED BY <2>3, <5>1, CodeFacts
        <5>3. halve[s] = IF c < d THEN <<k + 1, j, k>> ELSE IF d < c THEN <<i, k - 1, k>> ELSE <<n + 1, j, k>>
          BY <4>1, <4>3
        <5>4. Given => g \in Nat /\ (c < d => k < g) /\ (d < c => g < k)
          <6>1. SUFFICES ASSUME Given
                         PROVE  g \in Nat /\ (c < d => k < g) /\ (d < c => g < k)
            OBVIOUS
          <6>2. /\ g \in 1..n /\ g \in Nat /\ Code[t[kids[g]].label] = d
                /\ \A x, y \in 1..n : x < y => Code[t[kids[x]].label] < Code[t[kids[y]].label]
            BY <6>1 DEF Ascending
          <6> HIDE DEF k, d, n
          <6>3. g < k => d < c
            BY <5>1, <6>2
          <6>4. k < g => c < d
            BY <5>1, <6>2
          <6>5. g = k => c = d
            BY <6>2
          <6> HIDE DEF c
          <6> QED BY <5>1, <5>2, <6>2, <6>3, <6>4, <6>5
        <5>5. Given => i <= g /\ g <= j /\ (j - i) + 1 + m <= n
          <6>1. i # n + 1
            BY <2>1, <4>1, <4>3
          <6> HIDE DEF Given, i, j, n
          <6> QED BY <4>1, <6>1
        <5> HIDE DEF k, c, d, i, j, n, Given
        <5>6. CASE c < d
          <6>1. halve[s] = <<k + 1, j, k>>
            BY <5>3, <5>6
          <6>2. Given => k + 1 <= g /\ g <= j /\ (j - (k + 1)) + 1 + (m + 1) <= n
            BY <2>1, <4>1, <5>1, <5>4, <5>5, <5>6
          <6>3. <<k + 1, j, k>> \in Nat \X Nat \X Nat /\ k + 1 >= 1 /\ j <= n
            BY <4>1, <5>1
          <6> HIDE DEF halve
          <6>4. <<k + 1, j, k>> \in Halving(t, kids, label, g, m + 1)
            BY <5>1, <6>2, <6>3 DEF Halving, Given, n
          <6> QED BY <6>1, <6>4
        <5>7. CASE d < c
          <6>1. halve[s] = <<i, k - 1, k>>
            <7>1. ~ (c < d)
              BY <5>2, <5>7
            <7> QED BY <5>3, <5>7, <7>1
          <6>2. Given => i <= g /\ g <= k - 1 /\ ((k - 1) - i) + 1 + (m + 1) <= n
            BY <2>1, <4>1, <5>1, <5>4, <5>5, <5>7
          <6>3. k - 1 \in Nat /\ k - 1 <= n
            BY <2>1, <5>1
          <6>4. <<i, k - 1, k>> \in Nat \X Nat \X Nat /\ i >= 1
            BY <4>1, <5>1, <6>3
          <6> HIDE DEF halve
          <6>5. <<i, k - 1, k>> \in Halving(t, kids, label, g, m + 1)
            BY <5>1, <6>2, <6>3, <6>4 DEF Halving, Given, n
          <6> QED BY <6>1, <6>5
        <5>8. CASE ~ (c < d) /\ ~ (d < c)
          <6>1. halve[s] = <<n + 1, j, k>>
            BY <5>3, <5>8
          <6>2. t[kids[k]].label = label
            BY <5>2, <5>8
          <6>3. n + 1 \in Nat /\ n + 1 >= 1
            BY <2>1
          <6>4. <<n + 1, j, k>> \in Halving(t, kids, label, g, m + 1)
            BY <4>1, <5>1, <6>2, <6>3 DEF Halving, n
          <6> HIDE DEF halve
          <6> QED BY <6>1, <6>4
        <5> QED BY <5>6, <5>7, <5>8
      <4> QED BY <4>2, <4>3
    <3>3. \A m \in Nat : Rounds(halve, <<1, n, 1>>, m) \in T[m]
      <4> HIDE DEF T, halve, n
      <4> QED BY <3>1, <3>2, RoundsKeep
    <3> HIDE DEF halve
    <3> QED BY <2>1, <3>3
  <2> HIDE DEF halve
  <2>5. at \in 1..n
    BY <2>4 DEF Halving
  <2>6. ASSUME NEW g \in 1..n, Ascending(t, kids), t[kids[g]].label = label
        PROVE  t[kids[at]].label = label
    <3> DEFINE s == Rounds(halve, <<1, n, 1>>, n)
    <3>1. /\ s \in Nat \X Nat \X Nat
          /\ \/ t[kids[s[3]]].label = label
             \/ s[1] <= g /\ g <= s[2] /\ (s[2] - s[1]) + 1 + n <= n
      BY <2>4, <2>6 DEF Halving
    <3> HIDE DEF s
    <3>2. ~ (s[1] <= g /\ g <= s[2] /\ (s[2] - s[1]) + 1 + n <= n)
      <4> DEFINE i == s[1]
                 j == s[2]
      <4>1. i \in Nat /\ j \in Nat /\ g \in Nat
        BY <3>1
      <4> HIDE DEF i, j, n
      <4>2. ~ (i <= g /\ g <= j /\ (j - i) + 1 + n <= n)
        BY <2>1, <4>1
      <4> QED BY <4>2 DEF i, j
    <3> QED BY <3>1, <3>2 DEF s
  <2> HIDE DEF at
  <2>7. at # 0 /\ at \in 0..n
    BY <2>5
  <2> QED BY <2>2, <2>6, <2>7
<1> QED BY <1>1, <1>2

-----------------------------------------------------------------------------
(* Pieces of a path                                                        *)

(* A piece of a path.                                                      *)
LEMMA PieceFacts ==
  ASSUME NEW C, NEW s \in Seq(C), NEW a \in 0..Len(s), NEW b \in a..Len(s)
  PROVE  /\ SubSeq(s, a + 1, b) \in Seq(C) /\ Len(SubSeq(s, a + 1, b)) = b - a
         /\ \A j \in 1..(b - a) : SubSeq(s, a + 1, b)[j] = s[a + j]
<1> DEFINE r == SubSeq(s, a + 1, b)
<1>1. Len(s) \in Nat /\ a \in Nat /\ b \in Nat /\ a <= b /\ b <= Len(s)
  OBVIOUS
<1>2. a + 1 \in Int /\ b \in Int /\ \A j \in (a + 1)..b : s[j] \in C
  BY <1>1, ElementOfSeq
<1>3. /\ r \in Seq(C) /\ Len(r) = IF a + 1 <= b THEN b - (a + 1) + 1 ELSE 0
      /\ \A j \in 1..(b - (a + 1) + 1) : r[j] = s[(a + 1) + j - 1]
  BY <1>2, SubSeqProperties
<1> HIDE DEF r
<1>4. Len(r) = b - a
  BY <1>1, <1>3
<1>5. b - (a + 1) + 1 = b - a /\ \A j \in 1..(b - a) : (a + 1) + j - 1 = a + j
  BY <1>1
<1>6. \A j \in 1..(b - a) : r[j] = s[a + j]
  BY <1>3, <1>5
<1> QED BY <1>3, <1>4, <1>6 DEF r

(* What is left of a path.                                                 *)
LEMMA DropFacts ==
  ASSUME NEW C, NEW s \in Seq(C), NEW a \in 0..Len(s)
  PROVE  /\ Drop(s, a) \in Seq(C) /\ Len(Drop(s, a)) = Len(s) - a
         /\ \A j \in 1..(Len(s) - a) : Drop(s, a)[j] = s[a + j]
<1>1. Len(s) \in a..Len(s)
  OBVIOUS
<1> QED BY <1>1, PieceFacts DEF Drop

(* The first characters of it.                                             *)
LEMMA BeginFacts ==
  ASSUME NEW C, NEW s \in Seq(C), NEW b \in 0..Len(s)
  PROVE  /\ SubSeq(s, 1, b) \in Seq(C) /\ Len(SubSeq(s, 1, b)) = b
         /\ \A j \in 1..b : SubSeq(s, 1, b)[j] = s[j]
<1>1. 0 \in 0..Len(s) /\ b \in 0..Len(s) /\ 0 + 1 = 1 /\ b - 0 = b
  OBVIOUS
<1>2. /\ SubSeq(s, 0 + 1, b) \in Seq(C) /\ Len(SubSeq(s, 0 + 1, b)) = b - 0
      /\ \A j \in 1..(b - 0) : SubSeq(s, 0 + 1, b)[j] = s[0 + j]
  BY <1>1, PieceFacts
<1>3. \A j \in 1..b : 0 + j = j
  OBVIOUS
<1> QED BY <1>1, <1>2, <1>3

(* A piece of what is left, and what is left of it.                        *)
LEMMA DropPiece ==
  ASSUME NEW C, NEW s \in Seq(C), NEW a \in 0..Len(s), NEW b \in 0..(Len(s) - a)
  PROVE  /\ SubSeq(Drop(s, a), 1, b) = SubSeq(s, a + 1, a + b)
         /\ Drop(Drop(s, a), b) = Drop(s, a + b)
         /\ a + b \in 0..Len(s)
<1> DEFINE r == Drop(s, a)
<1>1. Len(s) \in Nat /\ a \in Nat /\ b \in Nat /\ a + b <= Len(s)
  OBVIOUS
<1>2. r \in Seq(C) /\ Len(r) = Len(s) - a /\ \A j \in 1..(Len(s) - a) : r[j] = s[a + j]
  BY DropFacts
<1>3. b \in 0..Len(r) /\ a + b \in 0..Len(s) /\ a + b \in a..Len(s)
  BY <1>1, <1>2
<1>4. SubSeq(r, 1, b) = SubSeq(s, a + 1, a + b)
  <2> DEFINE x == SubSeq(r, 1, b)
             y == SubSeq(s, a + 1, a + b)
  <2>1. x \in Seq(C) /\ Len(x) = b /\ \A j \in 1..b : x[j] = r[j]
    <3> HIDE DEF r
    <3> QED BY <1>2, <1>3, BeginFacts
  <2>2. y \in Seq(C) /\ Len(y) = (a + b) - a /\ \A j \in 1..((a + b) - a) : y[j] = s[a + j]
    BY <1>3, PieceFacts
  <2>3. (a + b) - a = b
    BY <1>1
  <2>4. \A j \in 1..b : j \in 1..(Len(s) - a)
    BY <1>1
  <2> HIDE DEF x, y, r
  <2>5. \A j \in 1..b : x[j] = y[j]
    BY <1>2, <2>1, <2>2, <2>3, <2>4
  <2>6. x = y
    BY <2>1, <2>2, <2>3, <2>5, SeqEqual
  <2> QED BY <2>6 DEF x, y
<1>5. Drop(r, b) = Drop(s, a + b)
  <2> DEFINE x == Drop(r, b)
             y == Drop(s, a + b)
  <2>1. x \in Seq(C) /\ Len(x) = Len(r) - b /\ \A j \in 1..(Len(r) - b) : x[j] = r[b + j]
    <3> HIDE DEF r
    <3> QED BY <1>2, <1>3, DropFacts
  <2>2. y \in Seq(C) /\ Len(y) = Len(s) - (a + b) /\ \A j \in 1..(Len(s) - (a + b)) : y[j] = s[(a + b) + j]
    BY <1>3, DropFacts
  <2> DEFINE len == Len(s) - (a + b)
  <2>3. Len(r) - b = len /\ \A j \in 1..len : b + j \in 1..(Len(s) - a) /\ a + (b + j) = (a + b) + j
    BY <1>1, <1>2
  <2> HIDE DEF x, y, r
  <2>4. \A j \in 1..len : x[j] = y[j]
    BY <1>2, <2>1, <2>2, <2>3
  <2>5. x = y
    BY <2>1, <2>2, <2>3, <2>4, SeqEqual
  <2> QED BY <2>5 DEF x, y
<1> QED BY <1>3, <1>4, <1>5

(* Two pieces, one after the other.                                        *)
LEMMA PiecesMeet ==
  ASSUME NEW C, NEW s \in Seq(C), NEW a \in 0..Len(s), NEW b \in a..Len(s)
  PROVE  SubSeq(s, 1, b) = SubSeq(s, 1, a) \o SubSeq(s, a + 1, b)
<1> DEFINE x == SubSeq(s, 1, b)
           y == SubSeq(s, 1, a)
           z == SubSeq(s, a + 1, b)
           c == y \o z
<1>1. Len(s) \in Nat /\ a \in Nat /\ b \in Nat /\ a <= b /\ b <= Len(s) /\ b \in 0..Len(s)
  OBVIOUS
<1>2. x \in Seq(C) /\ Len(x) = b /\ \A j \in 1..b : x[j] = s[j]
  BY <1>1, BeginFacts
<1>3. y \in Seq(C) /\ Len(y) = a /\ \A j \in 1..a : y[j] = s[j]
  BY BeginFacts
<1>4. z \in Seq(C) /\ Len(z) = b - a /\ \A j \in 1..(b - a) : z[j] = s[a + j]
  BY PieceFacts
<1> HIDE DEF x, y, z
<1>5. /\ c \in Seq(C) /\ Len(c) = Len(y) + Len(z)
      /\ \A j \in 1..(Len(y) + Len(z)) : c[j] = IF j <= Len(y) THEN y[j] ELSE z[j - Len(y)]
  BY <1>3, <1>4, ConcatProperties
<1> HIDE DEF c
<1>6. Len(c) = b
  BY <1>1, <1>3, <1>4, <1>5
<1>7. ASSUME NEW j \in 1..b
      PROVE  x[j] = c[j]
  <2>1. c[j] = IF j <= a THEN y[j] ELSE z[j - a]
    BY <1>1, <1>3, <1>4, <1>5
  <2>2. CASE j <= a
    <3>1. j \in 1..a
      BY <2>2
    <3> QED BY <1>2, <1>3, <2>1, <2>2, <3>1
  <2>3. CASE ~ (j <= a)
    <3>1. j - a \in 1..(b - a) /\ a + (j - a) = j
      BY <1>1, <2>3
    <3> QED BY <1>2, <1>4, <2>1, <2>3, <3>1
  <2> QED BY <2>2, <2>3
<1>8. x = c
  BY <1>2, <1>5, <1>6, <1>7, SeqEqual
<1> QED BY <1>8 DEF x, y, z, c

(* Where a value ends: before the first tail, or at the end.               *)
LEMMA ValueEndFacts ==
  ASSUME NEW node, NEW path \in Seq(Chars)
  PROVE  /\ ValueEnd(node, path) \in 0..(Len(path) + 1)
         /\ \A j \in 1..ValueEnd(node, path) : j <= Len(path) => path[j] # node.tail
         /\ \A v \in 0..Len(path) :
              /\ \A j \in 1..v : path[j] # node.tail
              /\ IF v = Len(path) THEN node.tail = "/" ELSE path[v + 1] = node.tail
              => ValueEnd(node, path) = v
<1> DEFINE I == {j \in 1..Len(path) : path[j] = node.tail}
           at == IF I # {} THEN Min(I) ELSE 0
           e == ValueEnd(node, path)
<1>1. Len(path) \in Nat /\ I \in SUBSET Nat /\ 0 \notin I
  OBVIOUS
<1>2. e = IF at # 0 THEN at - 1 ELSE IF node.tail = "/" THEN Len(path) ELSE Len(path) + 1
  BY DEF ValueEnd, SelectInSeq
<1>3. I # {} => at \in I /\ \A j \in I : at <= j
  <2> HIDE DEF I
  <2>1. I # {} => Min(I) \in I /\ \A j \in I : Min(I) <= j
    BY <1>1, MinIsLeast
  <2> QED BY <2>1
<1>4. I = {} => at = 0
  OBVIOUS
<1> HIDE DEF at, e
<1>5. CASE I = {}
  <2>1. e = IF node.tail = "/" THEN Len(path) ELSE Len(path) + 1
    BY <1>2, <1>4, <1>5
  <2>2. \A j \in 1..Len(path) : path[j] # node.tail
    BY <1>5
  <2>3. ASSUME NEW v \in 0..Len(path), IF v = Len(path) THEN node.tail = "/" ELSE path[v + 1] = node.tail
        PROVE  e = v
    <3>1. v # Len(path) => v + 1 \in 1..Len(path)
      BY <1>1
    <3> QED BY <2>1, <2>2, <2>3, <3>1
  <2>4. e \in 0..(Len(path) + 1) /\ \A j \in 1..e : j <= Len(path) => j \in 1..Len(path)
    BY <1>1, <2>1
  <2> QED BY <2>2, <2>3, <2>4 DEF e
<1>6. CASE I # {}
  <2>1. at \in 1..Len(path) /\ path[at] = node.tail /\ \A j \in 1..Len(path) : path[j] = node.tail => at <= j
    BY <1>3, <1>6
  <2>2. e = at - 1 /\ e \in 0..(Len(path) + 1)
    BY <1>1, <1>2, <2>1
  <2>3. \A j \in 1..e : j <= Len(path) => path[j] # node.tail
    <3>1. ASSUME NEW j \in 1..e, j <= Len(path), path[j] = node.tail
          PROVE  FALSE
      <4>1. j \in 1..Len(path) /\ ~ (at <= j)
        BY <1>1, <2>1, <2>2, <3>1
      <4> QED BY <2>1, <3>1, <4>1
    <3> QED BY <3>1
  <2>4. ASSUME NEW v \in 0..Len(path), \A j \in 1..v : path[j] # node.tail,
               IF v = Len(path) THEN node.tail = "/" ELSE path[v + 1] = node.tail
        PROVE  e = v
    <3>1. at \notin 1..v
      BY <2>1, <2>4
    <3>2. v # Len(path)
      BY <1>1, <2>1, <3>1
    <3>3. at <= v + 1
      <4>1. v + 1 \in 1..Len(path)
        BY <1>1, <3>2
      <4> QED BY <2>1, <2>4, <3>2, <4>1
    <3> QED BY <1>1, <2>1, <2>2, <3>1, <3>3
  <2> QED BY <2>2, <2>3, <2>4 DEF e
<1> QED BY <1>5, <1>6

-----------------------------------------------------------------------------
(* The steps of a search                                                   *)

(* A segment that takes a value.                                           *)
WildSeg(x) == PartType(x[1]) # "Static"

(* A value that a segment is meant to take.                                *)
SegFits(x, v) ==
  \/ x[1] = "*"
  \/ /\ v # <<>>
     /\ x[2] \notin ToSet(v)
     /\ IF PartType(x[1]) = "Regexp" THEN Accepts(x[1], v) ELSE "/" \notin ToSet(v)

(* A node takes the first e characters of a path, and gives values.        *)
Consumes(t, k, path, e, vals) ==
  IF t[k].typ = "Static"
  THEN vals = <<>> /\ e = Size(t[k]) /\ \A j \in 1..e : path[j] = t[k].prefix[j]
  ELSE /\ vals = <<SubSeq(path, 1, e)>>
       /\ e = 0 \/ SegFits(Segment(t, k), SubSeq(path, 1, e))

StepsOver(t) ==
  [open : BOOLEAN, kid : DOMAIN t, vals : Seq(Seq(Chars)), rest : Seq(Chars)]

(* A step of the search at n.                                              *)
IsStep(t, n, path, st) ==
  /\ st.kid \in NonRoot(t) /\ Above(t, st.kid) = n
  /\ st.open => \E e \in 0..Len(path) : st.rest = Drop(path, e) /\ Consumes(t, st.kid, path, e, st.vals)

GoodSteps(t, n, path) == {st \in StepsOver(t) : IsStep(t, n, path, st)}

(* A child of a node, and its fields.                                      *)
LEMMA KidFacts ==
  ASSUME NEW t, Good(t), NEW n \in DOMAIN t, NEW g \in NodeTypes, NEW i \in 1..Len(t[n].kids[g]),
         NEW k, k = t[n].kids[g][i]
  PROVE  /\ t[n].kids[g] \in Seq(DOMAIN t)
         /\ k \in NonRoot(t) /\ k \in DOMAIN t /\ Above(t, k) = n /\ t[k].typ = g /\ Named(t, k)
         /\ Segment(t, k) \in Segs /\ t[k] \in NodesOver(DOMAIN t)
<1>1. Typed(t) /\ AllNamed(t) /\ Linked(t)
  BY DEF Good
<1>2. t[n].kids[g] \in Seq(DOMAIN t)
  BY <1>1, KidsListed DEF Typed
<1>3. k \in DOMAIN t /\ k \in ToSet(t[n].kids[g])
  BY <1>2, ElementOfSeq DEF ToSet
<1>4. k # <<>> /\ Above(t, k) = n /\ t[k].typ = g
  BY <1>1, <1>3 DEF Linked
<1>5. k \in NonRoot(t) /\ Named(t, k)
  BY <1>1, <1>3, <1>4 DEF NonRoot, AllNamed
<1>6. Segment(t, k) \in Segs
  BY <1>1, <1>5, PlaceFacts
<1>7. t[k] \in NodesOver(DOMAIN t)
  BY <1>1, <1>3 DEF Typed
<1> QED BY <1>2, <1>3, <1>4, <1>5, <1>6, <1>7

(* A step that goes nowhere.                                               *)
LEMMA NoStepFacts ==
  ASSUME NEW t, NEW n, NEW path, NEW k \in NonRoot(t), Above(t, k) = n
  PROVE  NoStep(k) \in GoodSteps(t, n, path)
<1>1. <<>> \in Seq(Seq(Chars)) /\ <<>> \in Seq(Chars) /\ k \in DOMAIN t
  BY DEF NonRoot
<1>2. NoStep(k) \in StepsOver(t) /\ ~ NoStep(k).open /\ NoStep(k).kid = k
  BY <1>1 DEF NoStep, Step, StepsOver
<1> QED BY <1>2 DEF GoodSteps, IsStep

(* A step that takes e characters.                                         *)
LEMMA OpenStepFacts ==
  ASSUME NEW t, NEW n, NEW path \in Seq(Chars), NEW k \in NonRoot(t), Above(t, k) = n,
         NEW vals \in Seq(Seq(Chars)), NEW e \in 0..Len(path), Consumes(t, k, path, e, vals)
  PROVE  Step(TRUE, k, vals, Drop(path, e)) \in GoodSteps(t, n, path)
<1> DEFINE rest == Drop(path, e)
           st == Step(TRUE, k, vals, rest)
<1>1. rest \in Seq(Chars) /\ k \in DOMAIN t
  BY DropFacts DEF NonRoot
<1> HIDE DEF rest
<1>2. st \in StepsOver(t) /\ st.open /\ st.kid = k /\ st.vals = vals /\ st.rest = rest
  BY <1>1 DEF Step, StepsOver
<1> HIDE DEF st
<1>3. st \in GoodSteps(t, n, path)
  BY <1>2 DEF GoodSteps, IsStep, rest
<1> QED BY <1>3 DEF st, rest

(* The step into a static child.                                           *)
LEMMA StaticStepsTyped ==
  ASSUME NEW t, Good(t), NEW n \in DOMAIN t, NEW path \in Seq(Chars)
  PROVE  StaticSteps(t, t[n].kids["Static"], path) \in Seq(GoodSteps(t, n, path))
<1> DEFINE kids == t[n].kids["Static"]
           edge == FindEdge(t, kids, path[1])
           k == kids[edge]
           S == GoodSteps(t, n, path)
           steps == StaticSteps(t, kids, path)
<1>1. "Static" \in NodeTypes /\ <<>> \in Seq(S)
  BY DEF NodeTypes
<1>2. CASE path = <<>> \/ kids = <<>> \/ edge = 0
  <2>1. steps = <<>>
    BY <1>2 DEF StaticSteps
  <2> QED BY <1>1, <2>1
<1>3. CASE ~ (path = <<>> \/ kids = <<>> \/ edge = 0)
  <2>1. path[1] \in Chars
    BY <1>3, EmptySeq, ElementOfSeq
  <2>2. kids \in Seq(DOMAIN t) /\ \A x \in ToSet(kids) : t[x].label \in Chars
    <3>1. kids \in Seq(DOMAIN t)
      BY <1>1, KidsListed DEF Good, Typed
    <3>2. ASSUME NEW i \in 1..Len(kids)
          PROVE  t[kids[i]].label \in Chars
      <4> DEFINE x == kids[i]
      <4>1. t[x].typ = "Static" /\ Named(t, x) /\ Segment(t, x) \in Segs
        BY <1>1, KidFacts
      <4> HIDE DEF x
      <4>2. t[x].label \in Chars
        BY <4>1, SegmentFacts
      <4> QED BY <4>2 DEF x
    <3> HIDE DEF kids
    <3> QED BY <3>1, <3>2 DEF ToSet
  <2>3. edge \in 1..Len(kids)
    <3>1. edge \in 0..Len(kids)
      <4> HIDE DEF kids
      <4> QED BY <2>1, <2>2, FindEdgeFacts
    <3> HIDE DEF edge
    <3> QED BY <1>3, <3>1
  <2> HIDE DEF edge
  <2>4. k \in NonRoot(t) /\ Above(t, k) = n /\ t[k].typ = "Static" /\ t[k] \in NodesOver(DOMAIN t)
    BY <1>1, <2>3, KidFacts
  <2> DEFINE prefix == t[k].prefix
  <2>5. prefix \in Seq(Chars) /\ Size(t[k]) = Len(prefix)
    <3>1. prefix \in Seq(Chars)
      BY <2>4 DEF NodesOver
    <3> QED BY <2>4, <3>1 DEF Size
  <2>6. steps = <<IF IsPrefix(prefix, path) THEN Step(TRUE, k, <<>>, Drop(path, Len(prefix))) ELSE NoStep(k)>>
    BY <1>3 DEF StaticSteps, edge
  <2> HIDE DEF k, steps
  <2>7. NoStep(k) \in S
    BY <2>4, NoStepFacts
  <2>8. IsPrefix(prefix, path) => Step(TRUE, k, <<>>, Drop(path, Len(prefix))) \in S
    <3>1. SUFFICES ASSUME IsPrefix(prefix, path)
                   PROVE  Step(TRUE, k, <<>>, Drop(path, Len(prefix))) \in S
      OBVIOUS
    <3> DEFINE e == Len(prefix)
    <3>2. e <= Len(path) /\ SubSeq(prefix, 1, e) = SubSeq(path, 1, e)
      BY <3>1 DEF IsPrefix
    <3>3. e \in 0..Len(path) /\ e \in 0..Len(prefix)
      <4> HIDE DEF prefix
      <4> QED BY <2>5, <3>2
    <3>4. \A j \in 1..e : SubSeq(prefix, 1, e)[j] = prefix[j] /\ SubSeq(path, 1, e)[j] = path[j]
      <4> HIDE DEF prefix
      <4>1. \A j \in 1..e : SubSeq(prefix, 1, e)[j] = prefix[j]
        BY <2>5, <3>3, BeginFacts
      <4>2. \A j \in 1..e : SubSeq(path, 1, e)[j] = path[j]
        BY <3>3, BeginFacts
      <4> QED BY <4>1, <4>2
    <3>5. Consumes(t, k, path, e, <<>>)
      BY <2>4, <2>5, <3>2, <3>4 DEF Consumes
    <3>6. <<>> \in Seq(Seq(Chars))
      OBVIOUS
    <3> HIDE DEF e
    <3>7. Step(TRUE, k, <<>>, Drop(path, e)) \in S
      <4> HIDE DEF S
      <4> QED BY <2>4, <3>3, <3>5, <3>6, OpenStepFacts DEF S
    <3> QED BY <3>7 DEF e
  <2> DEFINE st == IF IsPrefix(prefix, path) THEN Step(TRUE, k, <<>>, Drop(path, Len(prefix))) ELSE NoStep(k)
  <2>9. st \in S
    <3> HIDE DEF S, prefix
    <3> QED BY <2>7, <2>8
  <2>10. steps = <<st>>
    BY <2>6
  <2> HIDE DEF st, S
  <2>11. steps \in Seq(S)
    BY <2>9, <2>10
  <2> QED BY <2>11 DEF S, steps
<1> QED BY <1>2, <1>3

(* A step into a parameter.                                                *)
LEMMA SegmentStepTyped ==
  ASSUME NEW t, Good(t), NEW n \in DOMAIN t, NEW g \in {"Regexp", "Param"},
         NEW i \in 1..Len(t[n].kids[g]), NEW k, k = t[n].kids[g][i], NEW path \in Seq(Chars)
  PROVE  /\ SegmentStep(t, k, path) \in GoodSteps(t, n, path)
         /\ Step(TRUE, k, << <<>> >>, path) \in GoodSteps(t, n, path)
<1> DEFINE S == GoodSteps(t, n, path)
           e == ValueEnd(t[k], path)
           value == SubSeq(path, 1, e)
           seg == Segment(t, k)
<1>1. g \in NodeTypes
  BY DEF NodeTypes
<1>2. k \in NonRoot(t) /\ Above(t, k) = n /\ t[k].typ = g /\ Named(t, k) /\ seg \in Segs
  BY <1>1, KidFacts
<1>3. /\ t[k].typ # "Static" /\ PartType(seg[1]) = g /\ seg[2] = t[k].tail
      /\ g = "Regexp" => seg[1] = t[k].rex
  BY <1>2 DEF Named
<1>4. Step(TRUE, k, << <<>> >>, path) \in S
  <2>1. SubSeq(path, 1, 0) = <<>> /\ 0 \in 0..Len(path)
    <3>1. 0 \in 0..Len(path)
      OBVIOUS
    <3>2. SubSeq(path, 1, 0) \in Seq(Chars) /\ Len(SubSeq(path, 1, 0)) = 0
      BY <3>1, BeginFacts
    <3> QED BY <3>1, <3>2, EmptySeq
  <2>2. Drop(path, 0) = path
    <3> DEFINE r == Drop(path, 0)
    <3>1. r \in Seq(Chars) /\ Len(r) = Len(path) - 0 /\ \A j \in 1..(Len(path) - 0) : r[j] = path[0 + j]
      BY <2>1, DropFacts
    <3>2. Len(path) - 0 = Len(path) /\ \A j \in 1..Len(path) : 0 + j = j
      OBVIOUS
    <3> HIDE DEF r
    <3>3. Len(r) = Len(path) /\ \A j \in 1..Len(path) : r[j] = path[j]
      BY <3>1, <3>2
    <3> QED BY <3>1, <3>3, SeqEqual DEF r
  <2>3. Consumes(t, k, path, 0, << <<>> >>)
    BY <1>3, <2>1 DEF Consumes
  <2>4. << <<>> >> \in Seq(Seq(Chars))
    <3>1. <<>> \in Seq(Chars)
      OBVIOUS
    <3> QED BY <3>1
  <2> DEFINE vals == << <<>> >>
  <2> HIDE DEF vals, S
  <2>5. Step(TRUE, k, vals, Drop(path, 0)) \in S
    BY <1>2, <2>1, <2>3, <2>4, OpenStepFacts DEF vals, S
  <2> QED BY <2>2, <2>5 DEF vals
<1>5. SegmentStep(t, k, path) \in S
  <2> DEFINE admitted == IF t[k].typ = "Regexp" THEN e # 0 /\ Accepts(t[k].rex, value)
                         ELSE "/" \notin ToSet(value)
  <2>1. SegmentStep(t, k, path) =
          IF e <= Len(path) /\ admitted THEN Step(TRUE, k, <<value>>, Drop(path, e)) ELSE NoStep(k)
    BY DEF SegmentStep
  <2>2. NoStep(k) \in S
    BY <1>2, NoStepFacts
  <2>3. ASSUME e <= Len(path), admitted
        PROVE  Step(TRUE, k, <<value>>, Drop(path, e)) \in S
    <3>1. e \in 0..Len(path) /\ \A j \in 1..e : path[j] # t[k].tail
      <4>1. /\ e \in 0..(Len(path) + 1)
            /\ \A j \in 1..e : j <= Len(path) => path[j] # t[k].tail
        BY ValueEndFacts
      <4> HIDE DEF e
      <4> QED BY <2>3, <4>1
    <3> HIDE DEF e
    <3>2. value \in Seq(Chars) /\ Len(value) = e /\ \A j \in 1..e : value[j] = path[j]
      BY <3>1, BeginFacts
    <3> HIDE DEF value
    <3>3. t[k].tail \notin ToSet(value)
      <4>1. DOMAIN value = 1..e
        BY <3>2
      <4> QED BY <3>1, <3>2, <4>1 DEF ToSet
    <3>4. e # 0 => value # <<>>
      BY <3>2, EmptySeq
    <3>5. e = 0 \/ SegFits(seg, value)
      <4> HIDE DEF seg
      <4> QED BY <1>2, <1>3, <2>3, <3>3, <3>4 DEF SegFits
    <3>6. Consumes(t, k, path, e, <<value>>)
      BY <1>3, <3>5 DEF Consumes, value
    <3>7. <<value>> \in Seq(Seq(Chars))
      BY <3>2
    <3> DEFINE vals == <<value>>
    <3> HIDE DEF vals, S
    <3>8. Step(TRUE, k, vals, Drop(path, e)) \in S
      BY <1>2, <3>1, <3>6, <3>7, OpenStepFacts DEF vals, S
    <3> QED BY <3>8 DEF vals
  <2> HIDE DEF S, value, e, admitted
  <2> QED BY <2>1, <2>2, <2>3
<1> QED BY <1>4, <1>5

(* The steps into parameters are steps.                                    *)
LEMMA SegmentStepsTyped ==
  ASSUME NEW t, Good(t), NEW n \in DOMAIN t, NEW path \in Seq(Chars), NEW g \in {"Regexp", "Param"}
  PROVE  SegmentSteps(t, t[n].kids[g], path) \in Seq(GoodSteps(t, n, path))
<1> DEFINE S == GoodSteps(t, n, path)
           list(h) == t[n].kids[h]
           b(h) == SegmentSteps(t, list(h), path)
<1> SUFFICES b(g) \in Seq(S)
  OBVIOUS
<1>1. CASE path = <<>> \/ list(g) = <<>>
  <2>1. b(g) = <<>>
    BY <1>1 DEF SegmentSteps
  <2>2. <<>> \in Seq(S)
    OBVIOUS
  <2> QED BY <2>1, <2>2
<1>2. CASE ~ (path = <<>> \/ list(g) = <<>>)
  <2> DEFINE len == Len(list(g))
  <2>1. list(g) \in Seq(DOMAIN t) /\ len \in Nat /\ len >= 1
    <3>1. g \in NodeTypes
      BY DEF NodeTypes
    <3>2. list(g) \in Seq(DOMAIN t)
      BY <3>1, KidsListed DEF Good, Typed
    <3> HIDE DEF list
    <3> QED BY <1>2, <3>2, EmptySeq
  <2>2. b(g) = [i \in 1..len + 1 |-> IF i <= len THEN SegmentStep(t, list(g)[i], path)
                                     ELSE Step(TRUE, list(g)[len], << <<>> >>, path)]
    BY <1>2 DEF SegmentSteps
  <2>3. ASSUME NEW i \in 1..len + 1
        PROVE  b(g)[i] \in S
    <3>1. CASE i <= len
      <4>1. i \in 1..len
        BY <3>1
      <4>2. SegmentStep(t, list(g)[i], path) \in S
        BY <4>1, SegmentStepTyped
      <4> HIDE DEF b, list, S
      <4> QED BY <2>2, <3>1, <4>2
    <3>2. CASE ~ (i <= len)
      <4>1. len \in 1..len
        <5> HIDE DEF len
        <5> QED BY <2>1
      <4>2. Step(TRUE, list(g)[len], << <<>> >>, path) \in S
        BY <4>1, SegmentStepTyped
      <4> HIDE DEF b, list, S
      <4> QED BY <2>2, <3>2, <4>2
    <3> QED BY <3>1, <3>2
  <2> HIDE DEF S, list, len
  <2>4. b(g) \in [1..len + 1 -> S] /\ len + 1 \in Nat
    <3>1. b(g) = [i \in 1..len + 1 |-> b(g)[i]]
      BY <2>2
    <3> HIDE DEF b
    <3> QED BY <2>1, <2>3, <3>1
  <2> HIDE DEF b
  <2> QED BY <2>4, SeqDef
<1> QED BY <1>1, <1>2

(* So is the step into the wildcard.                                       *)
LEMMA CatchAllStepsTyped ==
  ASSUME NEW t, Good(t), NEW n \in DOMAIN t, NEW path \in Seq(Chars)
  PROVE  CatchAllSteps(t[n].kids["CatchAll"], path) \in Seq(GoodSteps(t, n, path))
<1> DEFINE S == GoodSteps(t, n, path)
           list(h) == t[n].kids[h]
           d == CatchAllSteps(list("CatchAll"), path)
           kids == list("CatchAll")
           k == kids[1]
<1> SUFFICES d \in Seq(S)
  OBVIOUS
<1>1. CASE kids = <<>>
  <2>1. d = <<>>
    BY <1>1 DEF CatchAllSteps
  <2>2. <<>> \in Seq(S)
    OBVIOUS
  <2> QED BY <2>1, <2>2
<1>2. CASE kids # <<>>
  <2>1. "CatchAll" \in NodeTypes
    BY DEF NodeTypes
  <2>2. kids \in Seq(DOMAIN t) /\ 1 \in 1..Len(kids)
    <3>1. kids \in Seq(DOMAIN t)
      BY <2>1, KidsListed DEF Good, Typed
    <3> HIDE DEF kids
    <3> QED BY <1>2, <3>1, EmptySeq
  <2>3. k \in NonRoot(t) /\ Above(t, k) = n /\ t[k].typ = "CatchAll" /\ Named(t, k) /\ Segment(t, k) \in Segs
    BY <2>1, <2>2, KidFacts
  <2>4. d = <<Step(TRUE, k, <<path>>, <<>>)>>
    BY <1>2 DEF CatchAllSteps
  <2> HIDE DEF k, list
  <2> DEFINE e == Len(path)
  <2>5. e \in 0..Len(path) /\ SubSeq(path, 1, e) = path /\ Drop(path, e) = <<>>
    <3>1. e \in 0..Len(path)
      OBVIOUS
    <3> DEFINE x == SubSeq(path, 1, e)
               y == Drop(path, e)
    <3>2. x \in Seq(Chars) /\ Len(x) = e /\ \A j \in 1..e : x[j] = path[j]
      BY <3>1, BeginFacts
    <3>3. y \in Seq(Chars) /\ Len(y) = Len(path) - e
      BY <3>1, DropFacts
    <3> HIDE DEF x, y
    <3>4. x = path
      BY <3>2, SeqEqual
    <3>5. y = <<>>
      <4>1. Len(y) = 0
        BY <3>3
      <4> QED BY <3>3, <4>1, EmptySeq
    <3> QED BY <3>1, <3>4, <3>5 DEF x, y
  <2>6. Consumes(t, k, path, e, <<path>>)
    <3>1. Segment(t, k) = <<"*", "">>
      BY <2>3, SegmentFacts
    <3>2. Segment(t, k)[1] = "*"
      BY <3>1, PairFields
    <3>3. SegFits(Segment(t, k), SubSeq(path, 1, e))
      BY <3>2 DEF SegFits
    <3> QED BY <2>3, <2>5, <3>3 DEF Consumes
  <2>7. <<path>> \in Seq(Seq(Chars))
    OBVIOUS
  <2> DEFINE vals == <<path>>
             st == Step(TRUE, k, vals, <<>>)
  <2>8. st \in S
    <3> HIDE DEF vals, S, e
    <3>1. Step(TRUE, k, vals, Drop(path, e)) \in S
      BY <2>3, <2>5, <2>6, <2>7, OpenStepFacts DEF vals, S
    <3> QED BY <2>5, <3>1
  <2>9. d = <<st>>
    BY <2>4
  <2> HIDE DEF st, S, d
  <2> QED BY <2>8, <2>9
<1> QED BY <1>1, <1>2

(* Every step of a search is a step.                                       *)
LEMMA StepsTyped ==
  ASSUME NEW t, Good(t), NEW n \in DOMAIN t, NEW path \in Seq(Chars)
  PROVE  Steps(t, n, path) \in Seq(GoodSteps(t, n, path))
<1> DEFINE S == GoodSteps(t, n, path)
           a == StaticSteps(t, t[n].kids["Static"], path)
           list(g) == t[n].kids[g]
           b(g) == SegmentSteps(t, list(g), path)
           d == CatchAllSteps(list("CatchAll"), path)
<1>1. a \in Seq(S)
  BY StaticStepsTyped
<1>2. ASSUME NEW g \in {"Regexp", "Param"}
      PROVE  b(g) \in Seq(S)
  BY SegmentStepsTyped
<1>3. d \in Seq(S)
  BY CatchAllStepsTyped
<1>4. Steps(t, n, path) = ((a \o b("Regexp")) \o b("Param")) \o d
  BY DEF Steps
<1>5. b("Regexp") \in Seq(S) /\ b("Param") \in Seq(S)
  BY <1>2
<1> DEFINE x == b("Regexp")
           y == b("Param")
<1>6. Steps(t, n, path) = ((a \o x) \o y) \o d /\ x \in Seq(S) /\ y \in Seq(S)
  BY <1>4, <1>5
<1> HIDE DEF a, x, y, d, S
<1>7. a \o x \in Seq(S)
  BY <1>1, <1>6, ConcatProperties
<1> DEFINE ax == a \o x
<1> HIDE DEF ax
<1>8. ax \o y \in Seq(S)
  BY <1>6, <1>7, ConcatProperties DEF ax
<1> DEFINE axy == ax \o y
<1> HIDE DEF axy
<1>9. axy \o d \in Seq(S)
  BY <1>3, <1>8, ConcatProperties DEF axy
<1> QED BY <1>6, <1>9 DEF axy, ax, S

-----------------------------------------------------------------------------
(* The search                                                              *)

Results ==
  [hit : BOOLEAN, pattern : AllPatterns \cup {None}, vals : Seq(Seq(Chars)), hint : BOOLEAN]

(* What searches from each node find for each path.                        *)
Searches(t) == [(DOMAIN t) \X Seq(Chars) -> Results]

(* A miss is a result.                                                     *)
LEMMA MissFacts ==
  ASSUME NEW hint \in BOOLEAN
  PROVE  /\ Miss(hint) \in Results
         /\ ~ Miss(hint).hit /\ Miss(hint).hint = hint
<1>1. <<>> \in Seq(Seq(Chars))
  BY EmptySeq
<1>2. None \in AllPatterns \cup {None}
  OBVIOUS
<1> DEFINE v == <<>>
<1> HIDE DEF v
<1>3. [hit |-> FALSE, pattern |-> None, vals |-> v, hint |-> hint] \in Results
  BY <1>1, <1>2 DEF Results, v
<1> QED BY <1>3 DEF Miss, Found, v

(* What a step leads to, by what is open behind it.                        *)
OutcomeWell(t, st, method, F, o) ==
  /\ o \in Results
  /\ ~ st.open => ~ o.hit /\ ~ o.hint
  /\ st.open /\ st.rest = <<>> /\ t[st.kid].eps[method] # None =>
       o.hit /\ o.pattern = t[st.kid].eps[method] /\ o.vals = st.vals /\ ~ o.hint
  /\ st.open /\ ~ (st.rest = <<>> /\ t[st.kid].eps[method] # None) =>
       /\ o.hit = F[<<st.kid, st.rest>>].hit
       /\ o.pattern = F[<<st.kid, st.rest>>].pattern
       /\ o.vals = st.vals \o F[<<st.kid, st.rest>>].vals
       /\ o.hint <=> F[<<st.kid, st.rest>>].hint \/ (st.rest = <<>> /\ IsLeaf(t[st.kid]))

(* What a step leads to is a result.                                       *)
LEMMA OutcomeFacts ==
  ASSUME NEW t, Good(t), NEW st \in StepsOver(t), NEW method \in Methods, NEW F \in Searches(t)
  PROVE  OutcomeWell(t, st, method, F, Outcome(t, st, method, F))
<1> DEFINE o == Outcome(t, st, method, F)
           kid == st.kid
           rest == st.rest
           vals == st.vals
           deep == F[<<kid, rest>>]
<1>1. kid \in DOMAIN t /\ rest \in Seq(Chars) /\ vals \in Seq(Seq(Chars)) /\ st.open \in BOOLEAN
  BY DEF StepsOver
<1>2. t[kid].eps[method] \in AllPatterns \cup {None}
  <2>1. t[kid] \in NodesOver(DOMAIN t)
    BY <1>1 DEF Good, Typed
  <2> QED BY <2>1 DEF NodesOver
<1>3. deep \in Results
  BY <1>1 DEF Searches
<1>4. deep.hit \in BOOLEAN /\ deep.pattern \in AllPatterns \cup {None}
      /\ deep.vals \in Seq(Seq(Chars)) /\ deep.hint \in BOOLEAN
  BY <1>3 DEF Results
<1>5. CASE ~ st.open
  <2>1. o = Miss(FALSE)
    BY <1>5 DEF Outcome
  <2> QED BY <1>5, <2>1, MissFacts DEF OutcomeWell
<1>6. CASE st.open /\ rest = <<>> /\ t[kid].eps[method] # None
  <2>1. o = [hit |-> TRUE, pattern |-> t[kid].eps[method], vals |-> vals, hint |-> FALSE]
    BY <1>6 DEF Outcome, Found
  <2> DEFINE q == t[kid].eps[method]
  <2>2. q \in AllPatterns \cup {None}
    BY <1>2
  <2>3. o = [hit |-> TRUE, pattern |-> q, vals |-> vals, hint |-> FALSE]
    BY <2>1
  <2> HIDE DEF q, o, vals
  <2>4. o \in Results /\ o.hit /\ o.pattern = q /\ o.vals = vals /\ ~ o.hint
    BY <1>1, <2>2, <2>3 DEF Results
  <2> QED BY <1>6, <2>4 DEF OutcomeWell, q, vals, o
<1>7. CASE st.open /\ ~ (rest = <<>> /\ t[kid].eps[method] # None)
  <2> DEFINE w == vals \o deep.vals
             h == deep.hint \/ (rest = <<>> /\ Hints(t[kid], method))
             a == deep.hit
             b == deep.pattern
  <2>1. o = [hit |-> a, pattern |-> b, vals |-> w, hint |-> h]
    BY <1>7 DEF Outcome, Found
  <2>2. w \in Seq(Seq(Chars))
    BY <1>1, <1>4, ConcatProperties
  <2>3. h \in BOOLEAN /\ a \in BOOLEAN /\ b \in AllPatterns \cup {None}
    BY <1>4
  <2>4. h <=> deep.hint \/ (rest = <<>> /\ IsLeaf(t[kid]))
    BY <1>7 DEF Hints
  <2> HIDE DEF w, h, a, b, o
  <2>5. o \in Results /\ o.hit = a /\ o.pattern = b /\ o.vals = w /\ o.hint = h
    BY <2>1, <2>2, <2>3 DEF Results
  <2> QED BY <1>7, <2>4, <2>5 DEF OutcomeWell, w, a, b, o
<1> QED BY <1>1, <1>5, <1>6, <1>7

(* What a series of steps finds: the first hit, and the hints on the way.  *)
FirstWell(t, steps, method, F, r) ==
  /\ r \in Results
  /\ r.hit => \E i \in 1..Len(steps) :
       /\ Outcome(t, steps[i], method, F).hit
       /\ r.pattern = Outcome(t, steps[i], method, F).pattern
       /\ r.vals = Outcome(t, steps[i], method, F).vals
       /\ \A j \in 1..(i - 1) : ~ Outcome(t, steps[j], method, F).hit
  /\ ~ r.hit => \A i \in 1..Len(steps) :
       /\ ~ Outcome(t, steps[i], method, F).hit
       /\ Outcome(t, steps[i], method, F).hint => r.hint
  /\ r.hint => \E i \in 1..Len(steps) : Outcome(t, steps[i], method, F).hint

(* The first step with a hit is what the series finds.                     *)
LEMMA FirstHitFacts ==
  ASSUME NEW t, Good(t), NEW steps \in Seq(StepsOver(t)), NEW method \in Methods,
         NEW F \in Searches(t)
  PROVE  FirstWell(t, steps, method, F, FirstHit(t, steps, method, F))
<1> DEFINE n == Len(steps)
           outcomes == [i \in 1..n |-> Outcome(t, steps[i], method, F)]
           I == {i \in 1..Len(outcomes) : outcomes[i].hit}
           r == FirstHit(t, steps, method, F)
<1>1. n \in Nat /\ \A i \in 1..n : steps[i] \in StepsOver(t)
  BY ElementOfSeq
<1>2. \A i \in 1..n : OutcomeWell(t, steps[i], method, F, Outcome(t, steps[i], method, F))
  BY <1>1, OutcomeFacts
<1>3. \A i \in 1..n : outcomes[i] = Outcome(t, steps[i], method, F) /\ outcomes[i] \in Results
  BY <1>2 DEF OutcomeWell
<1>4. \A i \in 1..n : /\ outcomes[i].hit \in BOOLEAN /\ outcomes[i].hint \in BOOLEAN
                      /\ outcomes[i].pattern \in AllPatterns \cup {None}
                      /\ outcomes[i].vals \in Seq(Seq(Chars))
  <2> HIDE DEF outcomes
  <2> QED BY <1>3 DEF Results
<1>5. Len(outcomes) = n /\ outcomes \in Seq(Results)
  <2>1. outcomes \in [1..n -> Results]
    BY <1>3
  <2> HIDE DEF outcomes
  <2> QED BY <1>1, <2>1, SeqDef, LenProperties
<1>6. SelectInSeq(outcomes, LAMBDA o : o.hit) = IF I # {} THEN Min(I) ELSE 0
  BY DEF SelectInSeq, SelectInSubSeq
<1>7. I \in SUBSET Nat /\ 0 \notin I /\ I \subseteq 1..n
  BY <1>1, <1>5
<1>8. CASE I = {}
  <2>1. SelectInSeq(outcomes, LAMBDA o : o.hit) = 0
    BY <1>6, <1>8
  <2>2. r = Miss(\E i \in 1..n : outcomes[i].hint)
    BY <2>1 DEF FirstHit
  <2> DEFINE h == \E i \in 1..n : outcomes[i].hint
  <2>3. h \in BOOLEAN
    OBVIOUS
  <2>4. r \in Results /\ ~ r.hit /\ r.hint = h
    <3> HIDE DEF h, r
    <3> QED BY <2>2, <2>3, MissFacts DEF h
  <2>5. \A i \in 1..n : ~ outcomes[i].hit
    BY <1>5, <1>8
  <2> HIDE DEF r, outcomes
  <2>6. FirstWell(t, steps, method, F, r)
    BY <1>3, <2>4, <2>5 DEF FirstWell
  <2> QED BY <2>6 DEF r
<1>9. CASE I # {}
  <2> DEFINE k == Min(I)
  <2>1. k \in I /\ \A y \in I : k <= y
    BY <1>7, <1>9, MinIsLeast
  <2>2. SelectInSeq(outcomes, LAMBDA o : o.hit) = k /\ k # 0
    BY <1>6, <1>7, <1>9, <2>1
  <2>3. r = [outcomes[k] EXCEPT !.hint = \E i \in 1..k : outcomes[i].hint]
    BY <2>2 DEF FirstHit
  <2>4. k \in 1..n /\ outcomes[k].hit /\ \A j \in 1..(k - 1) : ~ outcomes[j].hit
    <3> HIDE DEF k
    <3>1. k \in 1..n /\ outcomes[k].hit
      BY <1>5, <1>7, <2>1
    <3>2. ASSUME NEW j \in 1..(k - 1), outcomes[j].hit PROVE FALSE
      BY <1>1, <1>5, <2>1, <3>1, <3>2
    <3> QED BY <3>1, <3>2
  <2> DEFINE h == \E i \in 1..k : outcomes[i].hint
  <2>5. h \in BOOLEAN
    OBVIOUS
  <2>6. outcomes[k] \in Results
    BY <1>3, <2>4
  <2>7. r \in Results /\ r.hit = outcomes[k].hit /\ r.pattern = outcomes[k].pattern
        /\ r.vals = outcomes[k].vals /\ r.hint = h
    <3> DEFINE x == outcomes[k]
    <3>1. x \in Results /\ r = [x EXCEPT !.hint = h]
      BY <2>3, <2>6
    <3> HIDE DEF x, h, r
    <3>2. r \in Results /\ r.hit = x.hit /\ r.pattern = x.pattern /\ r.vals = x.vals /\ r.hint = h
      BY <2>5, <3>1 DEF Results
    <3> QED BY <3>2 DEF x
  <2>8. \A i \in 1..k : i \in 1..n
    <3> HIDE DEF k
    <3> QED BY <1>1, <2>4
  <2>9. \A j \in 1..(k - 1) : j \in 1..n
    <3> HIDE DEF k
    <3> QED BY <1>1, <2>4
  <2> HIDE DEF r, outcomes, k
  <2>10. r.hit
    BY <2>4, <2>7
  <2>11. FirstWell(t, steps, method, F, r)
    BY <1>3, <2>4, <2>7, <2>8, <2>9, <2>10 DEF FirstWell, h
  <2> QED BY <2>11 DEF r
<1> QED BY <1>8, <1>9

(* One round of the search: what is found below is found one node higher.  *)
Searching(t, method) ==
  [F \in Searches(t) |->
     [d \in (DOMAIN t) \X Seq(Chars) |-> FirstHit(t, Steps(t, d[1], d[2]), method, F)]]

NothingFound(t) == [d \in (DOMAIN t) \X Seq(Chars) |-> Miss(FALSE)]

(* The search in a tree, level by level.                                   *)
LevelsOf(f, t, method) == AllRounds(f, Searches(t), Searching(t, method), NothingFound(t))

(* The steps from a node are steps.                                        *)
LEMMA StepsAreSteps ==
  ASSUME NEW t, Good(t), NEW n \in DOMAIN t, NEW path \in Seq(Chars)
  PROVE  Steps(t, n, path) \in Seq(StepsOver(t))
<1>1. Steps(t, n, path) \in Seq(GoodSteps(t, n, path))
  BY StepsTyped
<1>2. GoodSteps(t, n, path) \subseteq StepsOver(t)
  BY DEF GoodSteps
<1> HIDE DEF GoodSteps
<1> QED BY <1>1, <1>2, SeqMonotonic

(* A round of the search makes a search of a search.                       *)
LEMMA SearchingFacts ==
  ASSUME NEW t, Good(t), NEW method \in Methods
  PROVE  /\ Searching(t, method) \in [Searches(t) -> Searches(t)]
         /\ NothingFound(t) \in Searches(t)
<1> DEFINE W == (DOMAIN t) \X Seq(Chars)
<1>1. ASSUME NEW F \in Searches(t), NEW d \in W
      PROVE  FirstHit(t, Steps(t, d[1], d[2]), method, F) \in Results
  <2>1. d[1] \in DOMAIN t /\ d[2] \in Seq(Chars)
    OBVIOUS
  <2>2. Steps(t, d[1], d[2]) \in Seq(StepsOver(t))
    BY <2>1, StepsAreSteps
  <2> QED BY <1>1, <2>2, FirstHitFacts DEF FirstWell
<1>2. ASSUME NEW F \in Searches(t)
      PROVE  [d \in W |-> FirstHit(t, Steps(t, d[1], d[2]), method, F)] \in Searches(t)
  BY <1>1, <1>2 DEF Searches
<1>3. Searching(t, method) \in [Searches(t) -> Searches(t)]
  <2> HIDE DEF W
  <2> QED BY <1>2 DEF Searching, W
<1>4. NothingFound(t) \in Searches(t)
  BY MissFacts DEF NothingFound, Searches
<1> QED BY <1>3, <1>4

(* A lookup is a search with as many rounds as the tree has levels.        *)
LEMMA FindLevels ==
  ASSUME NEW t, Good(t), NEW method \in Methods
  PROVE  \E f : /\ LevelsOf(f, t, method)
                /\ \A path \in Seq(Chars) : Find(t, method, path) = f[Height + 1][<< <<>>, path>>]
<1> DEFINE W == (DOMAIN t) \X Seq(Chars)
           Level(f, i) == [d \in W |-> IF i = 0 THEN Miss(FALSE)
                                       ELSE FirstHit(t, Steps(t, d[1], d[2]), method, f[i - 1])]
           Equation(f) == f = [i \in Nat |-> Level(f, i)]
           search == CHOOSE f : Equation(f)
           S == Searches(t)
           round == Searching(t, method)
           Next1(F) == [d \in W |-> FirstHit(t, Steps(t, d[1], d[2]), method, F)]
<1>1. round \in [S -> S] /\ NothingFound(t) \in S
  BY SearchingFacts
<1>2. ASSUME NEW F \in S
      PROVE  round[F] = Next1(F)
  <2> HIDE DEF S
  <2> QED BY <1>2 DEF Searching, S
<1>3. \E f : Equation(f)
  <2>1. PICK f : AllRounds(f, S, round, NothingFound(t))
    <3> HIDE DEF S, round
    <3> QED BY <1>1, RoundsStay
  <2>2. /\ f = [i \in Nat |-> f[i]] /\ f[0] = NothingFound(t)
        /\ \A i \in Nat : f[i] \in S /\ f[i + 1] = round[f[i]]
    BY <2>1 DEF AllRounds
  <2>3. ASSUME NEW i \in Nat
        PROVE  f[i] = Level(f, i)
    <3>1. CASE i = 0
      BY <2>2, <3>1 DEF NothingFound
    <3>2. CASE i # 0
      <4>1. i - 1 \in Nat /\ (i - 1) + 1 = i
        BY <3>2
      <4>2. f[i] = Next1(f[i - 1])
        <5> HIDE DEF S, round, Next1
        <5> QED BY <1>2, <2>2, <4>1
      <4> QED BY <3>2, <4>2
    <3> QED BY <3>1, <3>2
  <2> HIDE DEF Level
  <2>4. Equation(f)
    BY <2>2, <2>3
  <2> QED BY <2>4
<1>4. Equation(search)
  <2> HIDE DEF Equation
  <2> QED BY <1>3
<1> HIDE DEF search
<1>5. \A i \in Nat : search[i] = Level(search, i)
  <2> HIDE DEF Level
  <2> DEFINE g == [i \in Nat |-> Level(search, i)]
  <2>1. \A i \in Nat : g[i] = Level(search, i)
    OBVIOUS
  <2>2. search = g
    BY <1>4
  <2> HIDE DEF g
  <2> QED BY <2>1, <2>2
<1>6. search = [i \in Nat |-> search[i]]
  <2> HIDE DEF Level
  <2>1. search = [i \in Nat |-> Level(search, i)]
    BY <1>4
  <2> QED BY <1>5, <2>1
<1>7. search[0] = NothingFound(t)
  BY <1>5 DEF NothingFound
<1>8. ASSUME NEW i \in Nat
      PROVE  search[i + 1] = Next1(search[i])
  <2>1. i + 1 \in Nat /\ i + 1 # 0 /\ (i + 1) - 1 = i
    OBVIOUS
  <2>2. search[i + 1] = Level(search, i + 1)
    BY <1>5, <2>1
  <2> QED BY <2>1, <2>2
<1> DEFINE N == {i \in Nat : search[i] \in S}
<1>9. Nat \subseteq N
  <2>1. 0 \in N
    BY <1>1, <1>7
  <2>2. ASSUME NEW i \in Nat, i \in N
        PROVE  i + 1 \in N
    <3>1. search[i] \in S
      BY <2>2
    <3>2. search[i + 1] = round[search[i]]
      <4> HIDE DEF S, round, Next1
      <4> QED BY <1>2, <1>8, <3>1
    <3> HIDE DEF S, round
    <3> QED BY <1>1, <3>1, <3>2
  <2> HIDE DEF N
  <2> QED BY <2>1, <2>2, SetInduction
<1>10. \A i \in Nat : search[i] \in S /\ search[i + 1] = round[search[i]]
  <2>1. \A i \in Nat : search[i] \in S
    <3> HIDE DEF S
    <3> QED BY <1>9
  <2> HIDE DEF S, round, Next1
  <2> QED BY <1>2, <1>8, <2>1
<1>11. LevelsOf(search, t, method)
  BY <1>6, <1>7, <1>10 DEF LevelsOf, AllRounds
<1>12. \A path \in Seq(Chars) : Find(t, method, path) = search[Height + 1][<< <<>>, path>>]
  BY DEF Find, search
<1> QED BY <1>11, <1>12

(* What each level finds.                                                  *)
LEMMA LevelFacts ==
  ASSUME NEW t, Good(t), NEW method \in Methods, NEW f, LevelsOf(f, t, method)
  PROVE  /\ \A i \in Nat : f[i] \in Searches(t)
         /\ \A n \in DOMAIN t, path \in Seq(Chars) : f[0][<<n, path>>] = Miss(FALSE)
         /\ \A i \in Nat, n \in DOMAIN t, path \in Seq(Chars) :
              FirstWell(t, Steps(t, n, path), method, f[i], f[i + 1][<<n, path>>])
<1>1. /\ f[0] = NothingFound(t)
      /\ \A i \in Nat : f[i] \in Searches(t) /\ f[i + 1] = Searching(t, method)[f[i]]
  BY DEF LevelsOf, AllRounds
<1>2. \A n \in DOMAIN t, path \in Seq(Chars) : f[0][<<n, path>>] = Miss(FALSE)
  BY <1>1 DEF NothingFound
<1>3. ASSUME NEW i \in Nat, NEW n \in DOMAIN t, NEW path \in Seq(Chars)
      PROVE  FirstWell(t, Steps(t, n, path), method, f[i], f[i + 1][<<n, path>>])
  <2> DEFINE F == f[i]
             d == <<n, path>>
  <2>1. F \in Searches(t) /\ f[i + 1] = Searching(t, method)[F]
    BY <1>1
  <2>2. d \in (DOMAIN t) \X Seq(Chars) /\ d[1] = n /\ d[2] = path
    OBVIOUS
  <2> HIDE DEF F, d
  <2>3. f[i + 1] = [e \in (DOMAIN t) \X Seq(Chars) |-> FirstHit(t, Steps(t, e[1], e[2]), method, F)]
    BY <2>1 DEF Searching
  <2>4. f[i + 1][d] = FirstHit(t, Steps(t, n, path), method, F)
    BY <2>2, <2>3
  <2>5. Steps(t, n, path) \in Seq(StepsOver(t))
    BY StepsAreSteps
  <2>6. FirstWell(t, Steps(t, n, path), method, F, f[i + 1][d])
    BY <2>1, <2>4, <2>5, FirstHitFacts
  <2> QED BY <2>6 DEF F, d
<1> QED BY <1>1, <1>2, <1>3

-----------------------------------------------------------------------------
(* What a search takes from the path                                       *)

(* What the first i tokens of a pattern are with these values.             *)
FilledTo(p, i, vals) ==
  [j \in 1..i |-> IF Wild(p[j]) THEN vals[WildCount(p, j)] ELSE <<p[j]>>]

(* The values that the first i tokens have taken fit, or are empty.        *)
FitTo(p, i, vals) ==
  \A j \in 1..i : Wild(p[j]) => \/ vals[WildCount(p, j)] = <<>>
                                \/ ValueFits(p, j, vals[WildCount(p, j)])

(* The first i tokens of a pattern, with these values, are the first pos   *)
(* characters of a path.                                                   *)
Taken(p, i, path, pos, vals) ==
  /\ pos \in 0..Len(path)
  /\ vals \in Seq(Pieces(path)) /\ Len(vals) = WildCount(p, i)
  /\ FlattenSeq(FilledTo(p, i, vals)) = SubSeq(path, 1, pos)
  /\ FitTo(p, i, vals)

(* A piece of a path is a sequence of characters.                          *)
LEMMA PieceOfPath ==
  ASSUME NEW path \in Seq(Chars), NEW a \in 0..Len(path), NEW b \in a..Len(path)
  PROVE  SubSeq(path, a + 1, b) \in Pieces(path)
<1>1. Len(path) \in Nat
  OBVIOUS
<1>2. a + 1 \in 1..(Len(path) + 1) /\ b \in 0..Len(path)
  BY <1>1
<1> DEFINE P(i, j) == SubSeq(path, i, j)
<1>3. Pieces(path) = {P(i, j) : i \in 1..Len(path) + 1, j \in 0..Len(path)}
  BY DEF Pieces
<1> HIDE DEF P
<1>4. P(a + 1, b) \in Pieces(path)
  BY <1>2, <1>3
<1> QED BY <1>4 DEF P

(* The pieces of a path are of characters.                                 *)
LEMMA PiecesTyped ==
  ASSUME NEW path \in Seq(Chars)
  PROVE  Pieces(path) \subseteq Seq(Chars)
<1>1. ASSUME NEW i \in 1..(Len(path) + 1), NEW j \in 0..Len(path)
      PROVE  SubSeq(path, i, j) \in Seq(Chars)
  <2>1. i \in Int /\ j \in Int /\ Len(path) \in Nat
    OBVIOUS
  <2>2. \A l \in i..j : path[l] \in Chars
    <3>1. ASSUME NEW l \in i..j PROVE path[l] \in Chars
      <4>1. l \in 1..Len(path)
        BY <2>1
      <4> QED BY <4>1, ElementOfSeq
    <3> QED BY <3>1
  <2> QED BY <2>1, <2>2, SubSeqProperties
<1> DEFINE P(i, j) == SubSeq(path, i, j)
<1>2. Pieces(path) = {P(i, j) : i \in 1..Len(path) + 1, j \in 0..Len(path)}
  BY DEF Pieces
<1>3. \A i \in 1..(Len(path) + 1), j \in 0..Len(path) : P(i, j) \in Seq(Chars)
  BY <1>1
<1> HIDE DEF P
<1> QED BY <1>2, <1>3

(* Filled tokens are sequences of characters.                              *)
LEMMA FilledTyped ==
  ASSUME NEW p \in Seq(Letters), Parses(p), NEW i \in 0..Len(p), NEW vals \in Seq(Seq(Chars)),
         WildCount(p, i) <= Len(vals)
  PROVE  FilledTo(p, i, vals) \in [1..i -> Seq(Chars)]
<1>1. ASSUME NEW j \in 1..i
      PROVE  (IF Wild(p[j]) THEN vals[WildCount(p, j)] ELSE <<p[j]>>) \in Seq(Chars)
  <2>1. j \in 1..Len(p) /\ i \in Nat /\ Len(p) \in Nat
    OBVIOUS
  <2>2. CASE Wild(p[j])
    <3>1. WildCount(p, j) \in 1..WildCount(p, i) /\ WildCount(p, i) \in Nat
      BY <2>1, <2>2, CountInRange, CountStep
    <3> DEFINE c == WildCount(p, j)
               b == WildCount(p, i)
    <3>2. c \in 1..Len(vals)
      <4>1. c \in 1..b /\ b \in Nat /\ b <= Len(vals) /\ Len(vals) \in Nat
        BY <3>1
      <4> HIDE DEF b, c
      <4> QED BY <4>1
    <3> HIDE DEF c
    <3>3. vals[c] \in Seq(Chars)
      BY <3>2, ElementOfSeq
    <3> QED BY <2>2, <3>3 DEF c
  <2>3. CASE ~ Wild(p[j])
    <3>1. p[j] \in Chars
      BY <2>1, <2>3, ParsedToken
    <3> QED BY <2>3, <3>1, Singleton
  <2> QED BY <2>2, <2>3
<1> QED BY <1>1 DEF FilledTo

(* Nothing is taken at the root.                                           *)
LEMMA TakenNothing ==
  ASSUME NEW p, NEW path \in Seq(Chars)
  PROVE  Taken(p, 0, path, 0, <<>>)
<1>1. WildCount(p, 0) = 0
  BY CountStep
<1>2. FilledTo(p, 0, <<>>) = <<>>
  BY DEF FilledTo
<1>3. SubSeq(path, 1, 0) = <<>>
  <2>1. SubSeq(path, 1, 0) \in Seq(Chars) /\ Len(SubSeq(path, 1, 0)) = 0
    BY BeginFacts
  <2> QED BY <2>1, EmptySeq
<1>4. <<>> \in Seq(Pieces(path)) /\ Len(<<>>) = 0 /\ 0 \in 0..Len(path)
  BY EmptySeq
<1>5. FitTo(p, 0, <<>>)
  BY DEF FitTo
<1> QED BY <1>1, <1>2, <1>3, <1>4, <1>5, FlattenEmpty DEF Taken

(* A piece more.                                                           *)
LEMMA LongerPiece ==
  ASSUME NEW path \in Seq(Chars), NEW a \in 0..Len(path), NEW e \in 0..(Len(path) - a)
  PROVE  /\ SubSeq(path, 1, a + e) = SubSeq(path, 1, a) \o SubSeq(path, a + 1, a + e)
         /\ SubSeq(path, a + 1, a + e) \in Pieces(path)
         /\ a + e \in 0..Len(path)
<1>1. Len(path) \in Nat /\ a + e \in a..Len(path) /\ a + e \in 0..Len(path)
  OBVIOUS
<1> DEFINE b == a + e
<1>2. b \in a..Len(path)
  BY <1>1
<1> HIDE DEF b
<1>3. SubSeq(path, 1, b) = SubSeq(path, 1, a) \o SubSeq(path, a + 1, b) /\ SubSeq(path, a + 1, b) \in Pieces(path)
  BY <1>2, PiecesMeet, PieceOfPath
<1> QED BY <1>1, <1>3 DEF b

(* One token more is filled with one piece more.                           *)
LEMMA FilledMore ==
  ASSUME NEW p \in Seq(Letters), Parses(p), NEW i \in 0..(Len(p) - 1),
         NEW vals \in Seq(Seq(Chars)), WildCount(p, i) <= Len(vals),
         NEW more \in Seq(Seq(Chars)), WildCount(p, i + 1) <= Len(more),
         \A j \in 1..WildCount(p, i) : more[j] = vals[j]
  PROVE  /\ FlattenSeq(FilledTo(p, i + 1, more)) =
              FlattenSeq(FilledTo(p, i, vals))
                \o (IF Wild(p[i + 1]) THEN more[WildCount(p, i + 1)] ELSE <<p[i + 1]>>)
         /\ FitTo(p, i, vals) => FitTo(p, i, more)
<1> DEFINE f == FilledTo(p, i, vals)
           g == FilledTo(p, i + 1, more)
<1>1. i \in Nat /\ i \in 0..Len(p) /\ i + 1 \in 0..Len(p) /\ i + 1 \in 1..(i + 1)
  OBVIOUS
<1>2. f \in [1..i -> Seq(Chars)] /\ g \in [1..(i + 1) -> Seq(Chars)]
  BY <1>1, FilledTyped
<1>3. \A j \in 1..i : Wild(p[j]) => more[WildCount(p, j)] = vals[WildCount(p, j)]
  <2>1. ASSUME NEW j \in 1..i, Wild(p[j])
        PROVE  WildCount(p, j) \in 1..WildCount(p, i)
    BY <1>1, <2>1, CountInRange
  <2> QED BY <2>1
<1>4. \A j \in 1..i : f[j] = g[j]
  <2>1. \A j \in 1..i : j \in 1..(i + 1)
    BY <1>1
  <2> QED BY <1>3, <2>1 DEF FilledTo
<1>5. g[i + 1] = IF Wild(p[i + 1]) THEN more[WildCount(p, i + 1)] ELSE <<p[i + 1]>>
  BY <1>1 DEF FilledTo
<1>6. FlattenSeq(g) = FlattenSeq(f) \o g[i + 1]
  <2> HIDE DEF f, g
  <2> QED BY <1>1, <1>2, <1>4, FlattenProlonged
<1>7. FitTo(p, i, vals) => FitTo(p, i, more)
  BY <1>3 DEF FitTo
<1> QED BY <1>5, <1>6, <1>7

(* A static token takes the character that it is.                          *)
LEMMA TakenChar ==
  ASSUME NEW p \in Seq(Letters), Parses(p), NEW i \in 0..(Len(p) - 1), ~ Wild(p[i + 1]),
         NEW path \in Seq(Chars), NEW pos \in 0..(Len(path) - 1), path[pos + 1] = p[i + 1],
         NEW vals, Taken(p, i, path, pos, vals)
  PROVE  Taken(p, i + 1, path, pos + 1, vals)
<1>1. /\ vals \in Seq(Pieces(path)) /\ Len(vals) = WildCount(p, i)
      /\ FlattenSeq(FilledTo(p, i, vals)) = SubSeq(path, 1, pos)
      /\ FitTo(p, i, vals)
  BY DEF Taken
<1>2. vals \in Seq(Seq(Chars))
  BY <1>1, PiecesTyped, SeqMonotonic
<1>3. i \in Nat /\ pos \in 0..Len(path) /\ 1 \in 0..(Len(path) - pos) /\ pos + 1 \in 0..Len(path)
  OBVIOUS
<1>4. WildCount(p, i + 1) = WildCount(p, i) /\ WildCount(p, i) \in Nat
  <2>1. WildCount(p, i) \in Nat /\ WildCount(p, i + 1) = WildCount(p, i) + 0
    BY <1>3, CountStep
  <2> QED BY <2>1
<1>5. WildCount(p, i) <= Len(vals) /\ WildCount(p, i + 1) <= Len(vals)
  BY <1>1, <1>4
<1>6. FlattenSeq(FilledTo(p, i + 1, vals)) = FlattenSeq(FilledTo(p, i, vals)) \o <<p[i + 1]>>
  BY <1>2, <1>5, FilledMore
<1>7. SubSeq(path, 1, pos + 1) = SubSeq(path, 1, pos) \o SubSeq(path, pos + 1, pos + 1)
  BY <1>3, LongerPiece
<1>8. SubSeq(path, pos + 1, pos + 1) = <<p[i + 1]>>
  <2>1. pos + 1 \in pos..Len(path)
    OBVIOUS
  <2>2. /\ SubSeq(path, pos + 1, pos + 1) \in Seq(Chars)
        /\ Len(SubSeq(path, pos + 1, pos + 1)) = (pos + 1) - pos
        /\ \A j \in 1..((pos + 1) - pos) : SubSeq(path, pos + 1, pos + 1)[j] = path[pos + j]
    BY <1>3, <2>1, PieceFacts
  <2> DEFINE x == SubSeq(path, pos + 1, pos + 1)
  <2>3. x \in Seq(Chars) /\ Len(x) = 1 /\ x[1] = p[i + 1]
    BY <2>2
  <2> HIDE DEF x
  <2>4. p[i + 1] \in Chars
    BY <1>3, ElementOfSeq
  <2>5. x = <<p[i + 1]>>
    BY <2>3, <2>4, Singleton, SeqEqual
  <2> QED BY <2>5 DEF x
<1>9. FitTo(p, i + 1, vals)
  <2>1. \A j \in 1..(i + 1) : j \in 1..i \/ j = i + 1
    OBVIOUS
  <2> QED BY <1>1, <2>1 DEF FitTo
<1> QED BY <1>1, <1>3, <1>4, <1>6, <1>7, <1>8, <1>9 DEF Taken

(* A token that takes a value takes a piece of the path.                   *)
LEMMA TakenValue ==
  ASSUME NEW p \in Seq(Letters), Parses(p), NEW i \in 0..(Len(p) - 1), Wild(p[i + 1]),
         NEW path \in Seq(Chars), NEW pos \in 0..Len(path), NEW e \in 0..(Len(path) - pos),
         NEW v, v = SubSeq(path, pos + 1, pos + e), v = <<>> \/ ValueFits(p, i + 1, v),
         NEW vals, Taken(p, i, path, pos, vals)
  PROVE  Taken(p, i + 1, path, pos + e, vals \o <<v>>)
<1> DEFINE more == vals \o <<v>>
           c == WildCount(p, i)
<1>1. /\ vals \in Seq(Pieces(path)) /\ Len(vals) = c
      /\ FlattenSeq(FilledTo(p, i, vals)) = SubSeq(path, 1, pos)
      /\ FitTo(p, i, vals)
  BY DEF Taken
<1>2. /\ SubSeq(path, 1, pos + e) = SubSeq(path, 1, pos) \o v
      /\ v \in Pieces(path) /\ pos + e \in 0..Len(path)
  BY LongerPiece
<1>3. i \in Nat
  OBVIOUS
<1>4. WildCount(p, i + 1) = c + 1 /\ c \in Nat
  BY <1>3, CountStep
<1>5. more \in Seq(Pieces(path)) /\ Len(more) = c + 1 /\ more[c + 1] = v /\ \A j \in 1..c : more[j] = vals[j]
  <2> HIDE DEF c
  <2> DEFINE w == <<v>>
             P == Pieces(path)
  <2>1. w \in Seq(P) /\ Len(w) = 1 /\ w[1] = v
    BY <1>2, Singleton
  <2>2. vals \in Seq(P) /\ more = vals \o w
    BY <1>1
  <2> HIDE DEF w, P, more
  <2>6. /\ more \in Seq(P) /\ Len(more) = Len(vals) + Len(w)
        /\ \A j \in 1..(Len(vals) + Len(w)) : more[j] = IF j <= Len(vals) THEN vals[j] ELSE w[j - Len(vals)]
    BY <2>1, <2>2, ConcatProperties
  <2>3. more \in Seq(P) /\ Len(more) = c + 1
    BY <1>1, <2>1, <2>6
  <2>4. \A j \in 1..(c + 1) : more[j] = IF j <= c THEN vals[j] ELSE w[j - c]
    BY <1>1, <2>1, <2>6
  <2>5. more[c + 1] = v /\ \A j \in 1..c : more[j] = vals[j]
    <3>1. c + 1 \in 1..(c + 1) /\ ~ (c + 1 <= c) /\ (c + 1) - c = 1
      BY <1>4
    <3>2. \A j \in 1..c : j \in 1..(c + 1) /\ j <= c
      BY <1>4
    <3> QED BY <2>1, <2>4, <3>1, <3>2
  <2> QED BY <2>3, <2>5 DEF P
<1>6. vals \in Seq(Seq(Chars)) /\ more \in Seq(Seq(Chars))
  <2> HIDE DEF more
  <2> QED BY <1>1, <1>5, PiecesTyped, SeqMonotonic
<1>7. c <= Len(vals) /\ c + 1 <= Len(more)
  <2> HIDE DEF more, c
  <2> QED BY <1>1, <1>4, <1>5
<1> HIDE DEF more
<1>8. /\ FlattenSeq(FilledTo(p, i + 1, more)) = FlattenSeq(FilledTo(p, i, vals)) \o v
      /\ FitTo(p, i, more)
  <2>1. WildCount(p, i + 1) <= Len(more) /\ WildCount(p, i) <= Len(vals)
    BY <1>4, <1>7
  <2>2. \A j \in 1..WildCount(p, i) : more[j] = vals[j]
    BY <1>5
  <2>3. /\ FlattenSeq(FilledTo(p, i + 1, more)) = FlattenSeq(FilledTo(p, i, vals)) \o more[WildCount(p, i + 1)]
        /\ FitTo(p, i, vals) => FitTo(p, i, more)
    BY <1>6, <2>1, <2>2, FilledMore
  <2> QED BY <1>1, <1>4, <1>5, <2>3
<1>9. FitTo(p, i + 1, more)
  <2>1. \A j \in 1..(i + 1) : j \in 1..i \/ j = i + 1
    OBVIOUS
  <2>2. more[WildCount(p, i + 1)] = v
    BY <1>4, <1>5
  <2> QED BY <1>8, <2>1, <2>2 DEF FitTo
<1>10. Taken(p, i + 1, path, pos + e, more)
  BY <1>1, <1>2, <1>4, <1>5, <1>8, <1>9 DEF Taken
<1> QED BY <1>10 DEF more

(* The pattern of a name and the name's last segment.                      *)
LEMMA NamedTokens ==
  ASSUME NEW t, Good(t), NEW k \in NonRoot(t), NEW p \in Seq(Letters), Parses(p),
         Len(k) <= Len(p), k = Name(p, Len(k))
  PROVE  /\ Len(Above(t, k)) \in 0..(Len(p) - 1) /\ Above(t, k) = Name(p, Len(Above(t, k)))
         /\ Segment(t, k) = TokenSegment(p, Len(Above(t, k)) + 1)
         /\ t[k].typ = TypeOf(p[Len(Above(t, k)) + 1])
         /\ Len(k) = Len(Above(t, k)) + Size(t[k]) /\ Size(t[k]) \in Nat
         /\ t[k].typ = "Static" => \A j \in 1..Size(t[k]) :
              ~ Wild(p[Len(Above(t, k)) + j]) /\ p[Len(Above(t, k)) + j] = t[k].prefix[j]
<1> DEFINE a == Depth(t, k)
           z == Size(t[k])
<1>1. Typed(t) /\ AllNamed(t) /\ Named(t, k)
  BY DEF Good, AllNamed
<1>2. /\ k \in Seq(Segs) /\ Len(k) \in Nat /\ z \in 1..Len(k)
      /\ a \in 0..(Len(k) - 1) /\ a + z = Len(k)
      /\ Above(t, k) \in Seq(Segs) /\ Len(Above(t, k)) = a
  BY <1>1, PlaceFacts
<1>3. Closed(p, Len(k)) /\ Len(k) \in 0..Len(p)
  <2>1. Len(p) \in Nat
    OBVIOUS
  <2>2. Len(k) \in 0..Len(p)
    BY <1>2, <2>1
  <2> QED BY <2>2, ParsedClosed
<1>4. /\ \A j \in 1..Len(k) : k[j] = TokenSegment(p, j)
      /\ \A j \in 0..Len(k) : Upto(k, j) = Name(p, j)
  BY <1>3, NameFacts DEF TokenSegment
<1>5. a \in 0..Len(k) /\ a + 1 \in 1..Len(k) /\ a \in 0..(Len(p) - 1) /\ z \in Nat
  <2> HIDE DEF a, z
  <2>1. Len(p) \in Nat
    OBVIOUS
  <2> QED BY <1>2, <2>1
<1>6. Above(t, k) = Name(p, a) /\ Segment(t, k) = TokenSegment(p, a + 1)
  BY <1>4, <1>5 DEF Above, Segment
<1>7. \A j \in 1..Len(k) : j \in 1..Len(p)
  BY <1>3
<1>8. t[k].typ = TypeOf(p[a + 1])
  <2>1. t[k].typ = PartType(Segment(t, k)[1])
    BY <1>1 DEF Named
  <2>2. Segment(t, k)[1] = Part(p[a + 1])
    BY <1>6, PairFields DEF TokenSegment
  <2>3. a + 1 \in 1..Len(p)
    BY <1>5, <1>7
  <2> HIDE DEF a
  <2>4. PartType(Part(p[a + 1])) = TypeOf(p[a + 1])
    BY <2>3, ParsedToken
  <2> QED BY <2>1, <2>2, <2>4
<1>9. ASSUME t[k].typ = "Static", NEW j \in 1..z
      PROVE  ~ Wild(p[a + j]) /\ p[a + j] = t[k].prefix[j]
  <2>1. k[a + j] = <<t[k].prefix[j], "">> /\ PartType(t[k].prefix[j]) = "Static"
    BY <1>1, <1>9 DEF Named
  <2>2. a + j \in 1..Len(k)
    <3> HIDE DEF a, z
    <3> QED BY <1>2, <1>9
  <2> DEFINE b == a + j
  <2>3. k[b] = <<Part(p[b]), TailOf(p, b)>> /\ b \in 1..Len(p)
    BY <1>4, <1>7, <2>2 DEF TokenSegment
  <2>4. Part(p[b]) = t[k].prefix[j]
    <3>1. k[b][1] = t[k].prefix[j]
      <4> HIDE DEF a
      <4> QED BY <2>1, PairFields
    <3>2. k[b][1] = Part(p[b])
      <4> HIDE DEF b
      <4> QED BY <2>3, PairFields
    <3> QED BY <3>1, <3>2
  <2> HIDE DEF b
  <2>5. /\ PartType(Part(p[b])) = TypeOf(p[b]) /\ p[b] \in Letters /\ p[b] \notin Unclosed
    BY <2>3, ParsedToken
  <2>6. TypeOf(p[b]) = "Static"
    BY <2>1, <2>4, <2>5
  <2>7. ~ Wild(p[b]) /\ Part(p[b]) = p[b]
    BY <2>5, <2>6, LetterFacts, PartFacts
  <2> QED BY <2>4, <2>7 DEF b
<1> HIDE DEF a, z
<1>10. /\ Len(Above(t, k)) = a /\ Size(t[k]) = z /\ Len(k) = a + z
  BY <1>2 DEF z
<1> QED BY <1>5, <1>6, <1>8, <1>9, <1>10

(* A value that fits the segment of a token fits the token.                *)
LEMMA FitsToken ==
  ASSUME NEW p \in Seq(Letters), Parses(p), NEW i \in 1..Len(p), Wild(p[i]),
         NEW v
  PROVE  SegFits(TokenSegment(p, i), v) <=> ValueFits(p, i, v)
<1>1. TokenSegment(p, i)[1] = Part(p[i]) /\ TokenSegment(p, i)[2] = TailOf(p, i)
  BY PairFields DEF TokenSegment
<1>2. /\ p[i] \in Letters /\ p[i] \notin Unclosed
      /\ PartType(Part(p[i])) = TypeOf(p[i])
      /\ Part(p[i]) = "*" => p[i] = "*"
  BY ParsedToken
<1>3. /\ TypeOf(p[i]) = "Regexp" <=> p[i] \in Regexps
      /\ p[i] = "*" => Part(p[i]) = "*"
  BY <1>2, LetterFacts, PartFacts
<1>4. p[i] \in Regexps => Part(p[i]) = RexOf[p[i]]
  BY LetterAssumption DEF Part
<1> QED BY <1>1, <1>2, <1>3, <1>4 DEF SegFits, ValueFits

(* Text in a row is taken character by character.                          *)
LEMMA TakenText ==
  ASSUME NEW p \in Seq(Letters), Parses(p), NEW i \in 0..Len(p), NEW z \in 0..(Len(p) - i),
         NEW path \in Seq(Chars), NEW pos \in 0..Len(path), z <= Len(path) - pos,
         \A j \in 1..z : ~ Wild(p[i + j]) /\ p[i + j] = path[pos + j],
         NEW vals, Taken(p, i, path, pos, vals)
  PROVE  Taken(p, i + z, path, pos + z, vals)
<1> DEFINE N == {m \in Nat : m <= z => Taken(p, i + m, path, pos + m, vals)}
<1>1. 0 \in N
  <2>1. i + 0 = i /\ pos + 0 = pos
    OBVIOUS
  <2> QED BY <2>1
<1>2. ASSUME NEW m \in Nat, m \in N
      PROVE  m + 1 \in N
  <2>1. SUFFICES ASSUME m + 1 <= z
                 PROVE  Taken(p, i + (m + 1), path, pos + (m + 1), vals)
    OBVIOUS
  <2>2. Taken(p, i + m, path, pos + m, vals)
    BY <1>2, <2>1
  <2>3. /\ i + m \in 0..(Len(p) - 1) /\ pos + m \in 0..(Len(path) - 1) /\ m + 1 \in 1..z
        /\ i + (m + 1) = (i + m) + 1 /\ pos + (m + 1) = (pos + m) + 1
    BY <2>1
  <2>4. ~ Wild(p[(i + m) + 1]) /\ path[(pos + m) + 1] = p[(i + m) + 1]
    <3> DEFINE j == m + 1
               x == p[i + j]
               y == path[pos + j]
    <3>1. ~ Wild(x) /\ x = y
      BY <2>3
    <3>2. x = p[(i + m) + 1] /\ y = path[(pos + m) + 1]
      BY <2>3
    <3> HIDE DEF x, y
    <3> QED BY <3>1, <3>2
  <2> DEFINE a == i + m
             b == pos + m
  <2>5. Taken(p, a + 1, path, b + 1, vals)
    <3>1. a \in 0..(Len(p) - 1) /\ b \in 0..(Len(path) - 1) /\ ~ Wild(p[a + 1]) /\ path[b + 1] = p[a + 1]
          /\ Taken(p, a, path, b, vals)
      BY <2>2, <2>3, <2>4
    <3> HIDE DEF a, b
    <3> QED BY <3>1, TakenChar
  <2> QED BY <2>3, <2>5
<1>3. z \in N
  <2> HIDE DEF N
  <2> QED BY <1>1, <1>2, SetInduction
<1> QED BY <1>3

(* A step takes from the path what the tokens of its node are to take.     *)
LEMMA StepTakes ==
  ASSUME NEW t, Good(t), NEW k \in NonRoot(t), NEW p \in Seq(Letters), Parses(p),
         Len(k) <= Len(p), k = Name(p, Len(k)), NEW n, n = Above(t, k),
         NEW path \in Seq(Chars), NEW pos \in 0..Len(path), NEW rest, rest = Drop(path, pos),
         NEW e \in 0..Len(rest), NEW vals, Consumes(t, k, rest, e, vals),
         NEW before, Taken(p, Len(n), path, pos, before)
  PROVE  /\ Taken(p, Len(k), path, pos + e, before \o vals)
         /\ Drop(rest, e) = Drop(path, pos + e)
<1> DEFINE i == Len(n)
           z == Size(t[k])
           len == Len(path)
<1>1. /\ i \in 0..(Len(p) - 1)
      /\ Segment(t, k) = TokenSegment(p, i + 1)
      /\ t[k].typ = TypeOf(p[i + 1])
      /\ Len(k) = i + z /\ z \in Nat
      /\ t[k].typ = "Static" => \A j \in 1..z : ~ Wild(p[i + j]) /\ p[i + j] = t[k].prefix[j]
  BY NamedTokens
<1>2. /\ rest \in Seq(Chars) /\ Len(rest) = len - pos
      /\ \A j \in 1..(len - pos) : rest[j] = path[pos + j]
  BY DropFacts
<1>3. /\ e \in 0..(len - pos) /\ len \in Nat
      /\ SubSeq(rest, 1, e) = SubSeq(path, pos + 1, pos + e)
      /\ Drop(rest, e) = Drop(path, pos + e)
  <2>1. e \in 0..(Len(path) - pos)
    BY <1>2
  <2> QED BY <2>1, DropPiece
<1>4. before \in Seq(Pieces(path))
  BY DEF Taken
<1>5. CASE t[k].typ = "Static"
  <2>1. vals = <<>> /\ e = z /\ \A j \in 1..e : rest[j] = t[k].prefix[j]
    BY <1>5 DEF Consumes
  <2>2. before \o vals = before
    BY <1>4, <2>1, ConcatEmptySeq
  <2>3. \A j \in 1..z : ~ Wild(p[i + j]) /\ p[i + j] = path[pos + j]
    <3>1. ASSUME NEW j \in 1..z PROVE ~ Wild(p[i + j]) /\ p[i + j] = path[pos + j]
      <4>1. j \in 1..e /\ j \in 1..(len - pos)
        <5> HIDE DEF z, len
        <5> QED BY <1>1, <1>3, <2>1
      <4> QED BY <1>1, <1>2, <1>5, <2>1, <4>1
    <3> QED BY <3>1
  <2>4. i \in 0..Len(p) /\ z \in 0..(Len(p) - i) /\ z <= Len(path) - pos
    <3> DEFINE lp == Len(p)
               lk == Len(k)
    <3>1. lp \in Nat /\ lk <= lp /\ i \in 0..(lp - 1) /\ lk = i + z /\ z \in Nat /\ e = z
      BY <1>1, <2>1
    <3> HIDE DEF lp, lk, i, z, len
    <3>2. i \in 0..lp /\ z \in 0..(lp - i) /\ z <= len - pos
      BY <1>3, <3>1
    <3> QED BY <3>2 DEF lp, len
  <2>5. Taken(p, i + z, path, pos + z, before)
    <3> HIDE DEF i, z
    <3>1. Taken(p, i, path, pos, before)
      BY DEF i
    <3> QED BY <2>3, <2>4, <3>1, TakenText
  <2> QED BY <1>1, <1>3, <2>1, <2>2, <2>5
<1>6. CASE t[k].typ # "Static"
  <2> DEFINE v == SubSeq(path, pos + 1, pos + e)
  <2>1. vals = <<v>> /\ (e = 0 \/ SegFits(Segment(t, k), v))
    BY <1>3, <1>6 DEF Consumes
  <2>2. z = 1 /\ Len(k) = i + 1
    BY <1>1, <1>6 DEF Size
  <2>3. i + 1 \in 1..Len(p)
    <3> HIDE DEF i
    <3> QED BY <1>1
  <2>4. Wild(p[i + 1])
    BY <1>1, <1>6, <2>3, LetterFacts, ElementOfSeq
  <2>5. v = <<>> \/ ValueFits(p, i + 1, v)
    <3>1. CASE e = 0
      <4>1. pos \in pos..Len(path) /\ pos + e = pos
        BY <3>1
      <4>2. v \in Seq(Chars) /\ Len(v) = pos - pos
        BY <4>1, PieceFacts
      <4> HIDE DEF v
      <4> QED BY <4>2, EmptySeq
    <3>2. CASE e # 0
      <4> HIDE DEF v, i
      <4>1. SegFits(TokenSegment(p, i + 1), v)
        BY <1>1, <2>1, <3>2
      <4> QED BY <2>3, <2>4, <4>1, FitsToken
    <3> QED BY <3>1, <3>2
  <2>6. Taken(p, i + 1, path, pos + e, before \o <<v>>)
    <3>1. Taken(p, i, path, pos, before)
      OBVIOUS
    <3> HIDE DEF i
    <3> QED BY <1>1, <1>3, <2>4, <2>5, <3>1, TakenValue
  <2> QED BY <1>3, <2>1, <2>2, <2>6
<1> QED BY <1>5, <1>6

-----------------------------------------------------------------------------
(* What a search finds                                                     *)

(* A pattern that goes through the node n and has a node of its own.       *)
Lower(t, n, p) ==
  /\ p \in AllPatterns /\ Acceptable(p)
  /\ Len(n) <= Len(p) /\ n = Name(p, Len(n)) /\ Name(p, Len(p)) \in DOMAIN t

(* With these values the tokens of p behind n make what is left of a path. *)
LeadsOn(n, rest, p, vals) ==
  \A path \in Seq(Chars), before \in Seq(Seq(Chars)) : \A pos \in 0..Len(path) :
    rest = Drop(path, pos) /\ Taken(p, Len(n), path, pos, before) =>
      Taken(p, Len(p), path, Len(path), before \o vals)

(* A pattern of tokens, which parses.                                      *)
OfTokens(p) == p \in Seq(Letters) /\ Parses(p) /\ Len(p) \in Nat

(* A pattern that was taken is one.                                        *)
LEMMA TakenTokens ==
  ASSUME NEW p \in AllPatterns, Acceptable(p)
  PROVE  OfTokens(p)
<1>1. p \in Seq(Letters)
  BY PatternsTyped
<1>2. Parses(p)
  BY DEF Acceptable
<1>3. Len(p) \in Nat
  BY <1>1, LenProperties
<1> QED BY <1>1, <1>2, <1>3 DEF OfTokens

(* An endpoint is found where its pattern ends.                            *)
LEMMA EndLeads ==
  ASSUME NEW t, Good(t), NEW k \in DOMAIN t, NEW m \in Methods, NEW p, p = t[k].eps[m], p # None
  PROVE  Lower(t, k, p) /\ LeadsOn(k, <<>>, p, <<>>) /\ t[Name(p, Len(p))].eps[m] = p
<1>1. Acceptable(p) /\ k = Name(p, Len(p))
  BY DEF Good, Placed
<1>2. p \in AllPatterns
  <2>1. t[k] \in NodesOver(DOMAIN t)
    BY DEF Good, Typed
  <2> QED BY <2>1 DEF NodesOver
<1>3. p \in Seq(Letters) /\ Parses(p)
  BY <1>1, <1>2, PatternsTyped DEF Acceptable
<1>4. Len(k) = Len(p) /\ Len(p) \in Nat
  <2>1. Len(p) \in 0..Len(p) /\ Closed(p, Len(p))
    BY <1>3, ParsedClosed
  <2>2. Len(Name(p, Len(p))) = Len(p)
    BY ONLY <1>3, <2>1, NameFacts
  <2>3. Len(k) = Len(p)
    BY ONLY <1>1, <2>2
  <2>4. Len(p) \in Nat
    BY <1>3, LenProperties
  <2> QED BY <2>3, <2>4
<1>5. Lower(t, k, p)
  <2>1. k = Name(p, Len(k)) /\ Len(k) <= Len(p)
    <3>1. k = Name(p, Len(k))
      BY <1>1, <1>4
    <3>2. Len(k) <= Len(p)
      BY <1>4
    <3> QED BY <3>1, <3>2
  <2> QED BY <1>1, <1>2, <2>1 DEF Lower
<1>6. LeadsOn(k, <<>>, p, <<>>)
  <2>1. SUFFICES ASSUME NEW path \in Seq(Chars), NEW pos \in 0..Len(path), NEW before \in Seq(Seq(Chars)),
                        <<>> = Drop(path, pos), Taken(p, Len(k), path, pos, before)
                 PROVE  Taken(p, Len(p), path, Len(path), before \o <<>>)
    BY DEF LeadsOn
  <2>2. pos = Len(path)
    <3>1. Len(Drop(path, pos)) = Len(path) - pos
      BY DropFacts
    <3>2. Len(<<>>) = 0
      OBVIOUS
    <3>3. Len(path) - pos = 0
      BY <2>1, <3>1, <3>2
    <3> QED BY <3>3
  <2>3. before \o <<>> = before
    BY ConcatEmptySeq
  <2> QED BY <1>4, <2>1, <2>2, <2>3
<1> QED BY <1>1, <1>5, <1>6

(* What leads on behind a step leads on in front of it.                    *)
LEMMA StepLeads ==
  ASSUME NEW t, Good(t), NEW n \in DOMAIN t, NEW rest \in Seq(Chars),
         NEW st \in GoodSteps(t, n, rest), st.open,
         NEW p, Lower(t, st.kid, p), NEW vals \in Seq(Seq(Chars)), LeadsOn(st.kid, st.rest, p, vals)
  PROVE  Lower(t, n, p) /\ LeadsOn(n, rest, p, st.vals \o vals)
<1> DEFINE k == st.kid
           own == st.vals
<1>1. k \in NonRoot(t) /\ Above(t, k) = n /\ own \in Seq(Seq(Chars))
  BY DEF GoodSteps, IsStep, StepsOver
<1>2. PICK e \in 0..Len(rest) : st.rest = Drop(rest, e) /\ Consumes(t, k, rest, e, own)
  BY DEF GoodSteps, IsStep
<1>3. p \in Seq(Letters) /\ Parses(p) /\ Len(p) \in Nat /\ Len(k) <= Len(p) /\ k = Name(p, Len(k))
  <2>1. p \in Seq(Letters) /\ Parses(p) /\ Len(p) \in Nat
    <3> HIDE DEF k
    <3>1. Lower(t, k, p)
      BY DEF k
    <3>2. p \in AllPatterns /\ Acceptable(p)
      BY <3>1 DEF Lower
    <3>3. OfTokens(p)
      BY <3>2, TakenTokens
    <3> QED BY <3>3 DEF OfTokens
  <2> HIDE DEF k
  <2>2. Lower(t, k, p)
    BY DEF k
  <2>3. Len(k) <= Len(p) /\ k = Name(p, Len(k))
    BY <2>2 DEF Lower
  <2> QED BY <2>1, <2>3
<1>4. Len(n) \in 0..(Len(p) - 1) /\ n = Name(p, Len(n))
  <2> HIDE DEF k
  <2> QED BY <1>1, <1>3, NamedTokens
<1>5. Lower(t, n, p)
  BY <1>3, <1>4 DEF Lower
<1>6. ASSUME NEW path \in Seq(Chars), NEW pos \in 0..Len(path), NEW before \in Seq(Seq(Chars)),
             rest = Drop(path, pos), Taken(p, Len(n), path, pos, before)
      PROVE  Taken(p, Len(p), path, Len(path), before \o (own \o vals))
  <2>1. Taken(p, Len(k), path, pos + e, before \o own) /\ Drop(rest, e) = Drop(path, pos + e)
    <3> HIDE DEF k, own
    <3> QED BY <1>1, <1>2, <1>3, <1>6, StepTakes
  <2>2. pos + e \in 0..Len(path)
    BY <2>1 DEF Taken
  <2>3. before \o own \in Seq(Seq(Chars))
    BY <1>1, ConcatProperties
  <2>4. Taken(p, Len(p), path, Len(path), (before \o own) \o vals)
    <3> DEFINE b == before \o own
               q == pos + e
    <3>1. b \in Seq(Seq(Chars)) /\ q \in 0..Len(path) /\ st.rest = Drop(path, q) /\ Taken(p, Len(k), path, q, b)
      BY <1>2, <2>1, <2>2, <2>3
    <3> HIDE DEF b, q
    <3>2. Taken(p, Len(p), path, Len(path), b \o vals)
      BY <3>1 DEF LeadsOn
    <3> QED BY <3>2 DEF b
  <2>5. (before \o own) \o vals = before \o (own \o vals)
    <3> DEFINE S == Seq(Chars)
    <3>1. before \in Seq(S) /\ own \in Seq(S) /\ vals \in Seq(S)
      BY <1>1
    <3> HIDE DEF S, own
    <3> QED BY ONLY <3>1, ConcatAssociative, SMTT(60)
  <2> QED BY <2>4, <2>5
<1>7. LeadsOn(n, rest, p, own \o vals)
  BY <1>6 DEF LeadsOn
<1> QED BY <1>5, <1>7

-----------------------------------------------------------------------------
(* Every hit is right                                                      *)

(* A pattern that leads from the node n to an endpoint of the method l,    *)
(* with values that make what is left of the path.                         *)
Leading(t, n, rest, l, p, vals) ==
  Lower(t, n, p) /\ t[Name(p, Len(p))].eps[l] = p /\ LeadsOn(n, rest, p, vals)

(* A hit is of such a pattern, and a hint tells of one of another method.  *)
HitWell(t, m, n, rest, r) == r.hit => Leading(t, n, rest, m, r.pattern, r.vals)

HintWell(t, m, n, rest, r) ==
  r.hint => \E l \in Methods \ {m}, p \in AllPatterns, vals \in Seq(Seq(Chars)) :
              Leading(t, n, rest, l, p, vals)

Sound(t, m, F) ==
  \A k \in DOMAIN t, left \in Seq(Chars) :
    HitWell(t, m, k, left, F[<<k, left>>]) /\ HintWell(t, m, k, left, F[<<k, left>>])

(* A step carries a leading pattern one node up.                           *)
LEMMA LeadingUp ==
  ASSUME NEW t, Good(t), NEW n \in DOMAIN t, NEW rest \in Seq(Chars),
         NEW st \in GoodSteps(t, n, rest), st.open, NEW l, NEW p, NEW vals \in Seq(Seq(Chars)),
         Leading(t, st.kid, st.rest, l, p, vals)
  PROVE  Leading(t, n, rest, l, p, st.vals \o vals)
<1>1. Lower(t, st.kid, p) /\ LeadsOn(st.kid, st.rest, p, vals) /\ t[Name(p, Len(p))].eps[l] = p
  BY DEF Leading
<1>2. Lower(t, n, p) /\ LeadsOn(n, rest, p, st.vals \o vals)
  BY <1>1, StepLeads
<1> QED BY <1>1, <1>2 DEF Leading

(* An endpoint at the end of the path leads there.                         *)
LEMMA LeadingEnd ==
  ASSUME NEW t, Good(t), NEW k \in DOMAIN t, NEW l \in Methods, NEW p, p = t[k].eps[l], p # None
  PROVE  Leading(t, k, <<>>, l, p, <<>>) /\ p \in AllPatterns
<1>1. Lower(t, k, p) /\ LeadsOn(k, <<>>, p, <<>>) /\ t[Name(p, Len(p))].eps[l] = p
  BY EndLeads
<1> QED BY <1>1 DEF Leading, Lower

(* What a step leads to is right if what is found below it is.             *)
LEMMA OutcomeSound ==
  ASSUME NEW t, Good(t), NEW m \in Methods, NEW n \in DOMAIN t, NEW rest \in Seq(Chars),
         NEW st \in GoodSteps(t, n, rest), NEW F \in Searches(t), Sound(t, m, F),
         NEW o, o = Outcome(t, st, m, F)
  PROVE  HitWell(t, m, n, rest, o) /\ HintWell(t, m, n, rest, o)
<1> DEFINE kid == st.kid
           left == st.rest
           own == st.vals
           deep == F[<<kid, left>>]
<1>1. /\ st \in StepsOver(t) /\ kid \in DOMAIN t /\ left \in Seq(Chars) /\ own \in Seq(Seq(Chars))
      /\ kid \in NonRoot(t)
  BY DEF GoodSteps, IsStep, StepsOver
<1>2. OutcomeWell(t, st, m, F, o)
  BY <1>1, OutcomeFacts
<1>3. /\ deep.hit \in BOOLEAN /\ deep.hint \in BOOLEAN /\ deep.vals \in Seq(Seq(Chars))
      /\ HitWell(t, m, kid, left, deep) /\ HintWell(t, m, kid, left, deep)
  <2>1. <<kid, left>> \in (DOMAIN t) \X Seq(Chars)
    BY <1>1
  <2>2. deep \in Results
    BY <2>1 DEF Searches
  <2>3. HitWell(t, m, kid, left, deep) /\ HintWell(t, m, kid, left, deep)
    BY <1>1 DEF Sound
  <2> HIDE DEF deep, kid, left
  <2> QED BY <2>2, <2>3 DEF Results
<1>4. own \o <<>> = own
  <2> DEFINE S == Seq(Chars)
  <2>1. own \in Seq(S)
    BY <1>1
  <2> HIDE DEF S, own
  <2> QED BY <2>1, ConcatEmptySeq
<1>5. <<>> \in Seq(Seq(Chars))
  OBVIOUS
<1>6. CASE ~ st.open
  <2>1. ~ o.hit /\ ~ o.hint
    BY <1>2, <1>6 DEF OutcomeWell
  <2> QED BY <2>1 DEF HitWell, HintWell
<1>7. CASE st.open /\ left = <<>> /\ t[kid].eps[m] # None
  <2>1. o.hit /\ o.pattern = t[kid].eps[m] /\ o.vals = own /\ ~ o.hint
    BY <1>2, <1>7 DEF OutcomeWell
  <2>2. Leading(t, kid, left, m, t[kid].eps[m], <<>>)
    BY <1>1, <1>7, LeadingEnd
  <2>3. Leading(t, n, rest, m, t[kid].eps[m], own \o <<>>)
    BY <1>5, <1>7, <2>2, LeadingUp
  <2>4. Leading(t, n, rest, m, o.pattern, o.vals)
    BY <1>4, <2>1, <2>3
  <2> QED BY <2>1, <2>4 DEF HitWell, HintWell
<1>8. CASE st.open /\ ~ (left = <<>> /\ t[kid].eps[m] # None)
  <2>1. /\ o.hit = deep.hit /\ o.pattern = deep.pattern /\ o.vals = own \o deep.vals
        /\ o.hint <=> deep.hint \/ (left = <<>> /\ IsLeaf(t[kid]))
    BY <1>2, <1>8 DEF OutcomeWell
  <2>2. HitWell(t, m, n, rest, o)
    <3>1. SUFFICES ASSUME o.hit
                   PROVE  Leading(t, n, rest, m, o.pattern, o.vals)
      BY DEF HitWell
    <3>2. Leading(t, kid, left, m, deep.pattern, deep.vals)
      BY <1>3, <2>1, <3>1 DEF HitWell
    <3>3. Leading(t, n, rest, m, deep.pattern, own \o deep.vals)
      <4> DEFINE p == deep.pattern
                 w == deep.vals
      <4>1. Leading(t, kid, left, m, p, w) /\ w \in Seq(Seq(Chars))
        BY <1>3, <3>2
      <4> HIDE DEF p, w, deep
      <4>2. Leading(t, n, rest, m, p, own \o w)
        BY <1>8, <4>1, LeadingUp
      <4> QED BY <4>2 DEF p, w
    <3> QED BY <2>1, <3>3
  <2>3. HintWell(t, m, n, rest, o)
    <3>1. CASE deep.hint
      <4>1. PICK l \in Methods \ {m}, p \in AllPatterns, vals \in Seq(Seq(Chars)) :
              Leading(t, kid, left, l, p, vals)
        BY <1>3, <3>1 DEF HintWell
      <4>2. Leading(t, n, rest, l, p, own \o vals)
        BY <1>8, <4>1, LeadingUp
      <4>3. own \o vals \in Seq(Seq(Chars))
        <5> DEFINE S == Seq(Chars)
        <5>1. own \in Seq(S) /\ vals \in Seq(S)
          BY <1>1
        <5> HIDE DEF S, own
        <5>2. own \o vals \in Seq(S)
          BY <5>1, ConcatProperties
        <5> QED BY <5>2 DEF S
      <4> HIDE DEF own
      <4> QED BY <4>2, <4>3 DEF HintWell
    <3>2. CASE left = <<>> /\ IsLeaf(t[kid])
      <4>1. t[kid].eps[m] = None
        BY <1>8, <3>2
      <4>2. t[kid].eps \in [Methods -> AllPatterns \cup {None}]
        <5>1. t[kid] \in NodesOver(DOMAIN t)
          BY <1>1 DEF Good, Typed
        <5> QED BY <5>1 DEF NodesOver
      <4>3. PICK l \in Methods : t[kid].eps[l] # None
        <5>1. t[kid].eps # [i \in Methods |-> None]
          BY <3>2 DEF IsLeaf, NoEndpoints
        <5> QED BY <4>2, <5>1
      <4>4. l # m
        BY <4>1, <4>3
      <4>5. Leading(t, kid, left, l, t[kid].eps[l], <<>>) /\ t[kid].eps[l] \in AllPatterns
        BY <1>1, <3>2, <4>3, LeadingEnd
      <4>6. Leading(t, n, rest, l, t[kid].eps[l], own)
        <5>1. Leading(t, n, rest, l, t[kid].eps[l], own \o <<>>)
          BY <1>5, <1>8, <4>5, LeadingUp
        <5> QED BY <1>4, <5>1
      <4> HIDE DEF own
      <4> QED BY <1>1, <4>4, <4>5, <4>6 DEF HintWell, own
    <3>3. ~ deep.hint /\ ~ (left = <<>> /\ IsLeaf(t[kid])) => ~ o.hint
      BY <2>1
    <3> QED BY <3>1, <3>2, <3>3 DEF HintWell
  <2> QED BY <2>2, <2>3
<1> QED BY <1>6, <1>7, <1>8

(* What a series of steps finds is right if what each leads to is.         *)
LEMMA FirstSound ==
  ASSUME NEW t, Good(t), NEW m \in Methods, NEW n \in DOMAIN t, NEW rest \in Seq(Chars),
         NEW F \in Searches(t), Sound(t, m, F),
         NEW r, FirstWell(t, Steps(t, n, rest), m, F, r)
  PROVE  HitWell(t, m, n, rest, r) /\ HintWell(t, m, n, rest, r)
<1> DEFINE steps == Steps(t, n, rest)
<1>1. \A i \in 1..Len(steps) : steps[i] \in GoodSteps(t, n, rest)
  <2>1. steps \in Seq(GoodSteps(t, n, rest))
    BY StepsTyped
  <2> HIDE DEF steps
  <2> QED BY <2>1, ElementOfSeq
<1>2. ASSUME NEW i \in 1..Len(steps), NEW o, o = Outcome(t, steps[i], m, F)
      PROVE  HitWell(t, m, n, rest, o) /\ HintWell(t, m, n, rest, o)
  <2> DEFINE st == steps[i]
  <2>1. st \in GoodSteps(t, n, rest) /\ o = Outcome(t, st, m, F)
    BY <1>1, <1>2
  <2> HIDE DEF st
  <2> QED BY <2>1, OutcomeSound
<1> HIDE DEF steps
<1>3. HitWell(t, m, n, rest, r)
  <2>1. SUFFICES ASSUME r.hit
                 PROVE  Leading(t, n, rest, m, r.pattern, r.vals)
    BY DEF HitWell
  <2>2. PICK i \in 1..Len(steps) : /\ Outcome(t, steps[i], m, F).hit
                                   /\ r.pattern = Outcome(t, steps[i], m, F).pattern
                                   /\ r.vals = Outcome(t, steps[i], m, F).vals
    BY <2>1 DEF FirstWell, steps
  <2> DEFINE o == Outcome(t, steps[i], m, F)
  <2>3. HitWell(t, m, n, rest, o)
    BY <1>2
  <2> HIDE DEF o
  <2>4. o.hit /\ r.pattern = o.pattern /\ r.vals = o.vals
    BY <2>2 DEF o
  <2> QED BY <2>3, <2>4 DEF HitWell
<1>4. HintWell(t, m, n, rest, r)
  <2>1. SUFFICES ASSUME r.hint
                 PROVE  \E l \in Methods \ {m}, p \in AllPatterns, vals \in Seq(Seq(Chars)) :
                          Leading(t, n, rest, l, p, vals)
    BY DEF HintWell
  <2>2. PICK i \in 1..Len(steps) : Outcome(t, steps[i], m, F).hint
    BY <2>1 DEF FirstWell, steps
  <2>3. HintWell(t, m, n, rest, Outcome(t, steps[i], m, F))
    BY <1>2
  <2> QED BY <2>2, <2>3 DEF HintWell
<1> QED BY <1>3, <1>4

(* Every level of the search finds what is right.                          *)
LEMMA LevelsSound ==
  ASSUME NEW t, Good(t), NEW m \in Methods, NEW f, LevelsOf(f, t, m)
  PROVE  \A i \in Nat : Sound(t, m, f[i])
<1> DEFINE N == {i \in Nat : Sound(t, m, f[i])}
<1>1. 0 \in N
  <2>1. \A k \in DOMAIN t, left \in Seq(Chars) : f[0][<<k, left>>] = Miss(FALSE)
    BY LevelFacts
  <2>2. ~ Miss(FALSE).hit /\ ~ Miss(FALSE).hint
    BY MissFacts
  <2>3. Sound(t, m, f[0])
    BY <2>1, <2>2 DEF Sound, HitWell, HintWell
  <2> QED BY <2>3
<1>2. ASSUME NEW i \in N PROVE i + 1 \in N
  <2>1. i \in Nat /\ Sound(t, m, f[i]) /\ f[i] \in Searches(t)
    BY LevelFacts
  <2>2. ASSUME NEW k \in DOMAIN t, NEW left \in Seq(Chars)
        PROVE  HitWell(t, m, k, left, f[i + 1][<<k, left>>]) /\ HintWell(t, m, k, left, f[i + 1][<<k, left>>])
    <3> DEFINE F == f[i]
               r == f[i + 1][<<k, left>>]
    <3>1. FirstWell(t, Steps(t, k, left), m, F, r)
      BY <2>1, LevelFacts
    <3>2. F \in Searches(t) /\ Sound(t, m, F)
      BY <2>1
    <3> HIDE DEF F, r
    <3>3. HitWell(t, m, k, left, r) /\ HintWell(t, m, k, left, r)
      BY <3>1, <3>2, FirstSound
    <3> QED BY <3>3 DEF r
  <2>3. Sound(t, m, f[i + 1])
    BY <2>2 DEF Sound
  <2> QED BY <2>1, <2>3
<1>3. Nat \subseteq N
  <2> HIDE DEF N
  <2> QED BY <1>1, <1>2, SetInduction
<1> QED BY <1>3

(* The pattern p has a node that holds it for the method l.                *)
Holds(t, l, p) ==
  p \in AllPatterns /\ Acceptable(p) /\ Name(p, Len(p)) \in DOMAIN t /\ t[Name(p, Len(p))].eps[l] = p

(* The registered patterns are the ones that the nodes hold.               *)
LEMMA RegisteredFacts ==
  ASSUME Good(tree), NEW l \in Methods
  PROVE  \A p : p \in Registered(l) <=> Holds(tree, l, p)
<1>1. Entries(tree) = {<<ShapeOf(n), tree[n].eps>> : n \in Leaves(tree)}
  BY TableFacts
<1>2. Registered(l) = {tree[n].eps[l] : n \in Leaves(tree)} \ {None}
  <2> DEFINE E == {<<ShapeOf(n), tree[n].eps>> : n \in Leaves(tree)}
  <2>1. {e[2][l] : e \in E} = {tree[n].eps[l] : n \in Leaves(tree)}
    <3>1. ASSUME NEW e \in E
          PROVE  \E n \in Leaves(tree) : e[2][l] = tree[n].eps[l]
      <4>1. PICK n \in Leaves(tree) : e = <<ShapeOf(n), tree[n].eps>>
        OBVIOUS
      <4>2. e[2] = tree[n].eps
        BY <4>1, PairFields
      <4> QED BY <4>2
    <3>2. ASSUME NEW n \in Leaves(tree)
          PROVE  \E e \in E : e[2][l] = tree[n].eps[l]
      <4>1. PICK e : e = <<ShapeOf(n), tree[n].eps>>
        OBVIOUS
      <4>2. e \in E
        BY <4>1
      <4>3. e[2] = tree[n].eps
        BY <4>1, PairFields
      <4> QED BY <4>2, <4>3
    <3> HIDE DEF E
    <3> QED BY <3>1, <3>2
  <2> HIDE DEF E
  <2>2. Entries(tree) = E
    BY <1>1 DEF E
  <2> QED BY <2>1, <2>2 DEF Registered
<1>3. ASSUME NEW p, p \in Registered(l)
      PROVE  Holds(tree, l, p)
  <2>1. PICK n \in Leaves(tree) : p = tree[n].eps[l] /\ p # None
    BY <1>2, <1>3
  <2>2. n \in DOMAIN tree /\ Acceptable(p) /\ n = Name(p, Len(p))
    BY <2>1 DEF Leaves, Good, Placed
  <2>3. p \in AllPatterns
    <3>1. tree[n] \in NodesOver(DOMAIN tree)
      BY <2>2 DEF Good, Typed
    <3>2. tree[n].eps[l] \in AllPatterns \cup {None}
      BY <3>1 DEF NodesOver
    <3> QED BY <2>1, <3>2
  <2> HIDE <1>3
  <2>4. tree[Name(p, Len(p))].eps[l] = p
    BY <2>1, <2>2
  <2> QED BY <2>2, <2>3, <2>4 DEF Holds
<1>4. ASSUME NEW p, Holds(tree, l, p)
      PROVE  p \in Registered(l)
  <2> DEFINE n == Name(p, Len(p))
  <2>1. n \in DOMAIN tree /\ tree[n].eps[l] = p /\ Acceptable(p)
    BY <1>4 DEF Holds
  <2>2. p # None
    BY <2>1 DEF Acceptable, BeginsWithSlash, None
  <2> HIDE DEF n
  <2>3. n \in Leaves(tree)
    <3>1. tree[n].eps # NoEndpoints
      BY <2>1, <2>2 DEF NoEndpoints
    <3> QED BY <2>1, <3>1 DEF Leaves, IsLeaf
  <2> QED BY <1>2, <2>1, <2>2, <2>3
<1> QED BY <1>3, <1>4

(* The values fill the pattern and give the path.                          *)
LoosePair(p, path, vals) == Admits(p, path, vals) /\ vals \in ValuesFor(p, path)

(* What leads from the root to an endpoint fills its pattern.              *)
LEMMA RootLeads ==
  ASSUME NEW t, NEW path \in Seq(Chars), NEW l, NEW p, NEW vals \in Seq(Seq(Chars)),
         Leading(t, <<>>, path, l, p, vals)
  PROVE  LoosePair(p, path, vals) /\ Holds(t, l, p)
<1>1. /\ p \in AllPatterns /\ Acceptable(p) /\ Name(p, Len(p)) \in DOMAIN t
      /\ t[Name(p, Len(p))].eps[l] = p /\ LeadsOn(<<>>, path, p, vals)
  BY DEF Leading, Lower
<1>2. Holds(t, l, p)
  BY <1>1 DEF Holds
<1>3. p \in Seq(Letters) /\ Len(p) \in Nat
  BY <1>1, TakenTokens DEF OfTokens
<1>4. Taken(p, Len(p), path, Len(path), vals)
  <2>1. path = Drop(path, 0) /\ 0 \in 0..Len(path)
    <3>1. SubSeq(path, 1, Len(path)) = path /\ Len(path) \in Nat
      BY SubSeqFull, LenProperties
    <3>2. 0 + 1 = 1
      OBVIOUS
    <3> QED BY <3>1, <3>2 DEF Drop
  <2>2. Taken(p, 0, path, 0, <<>>)
    BY TakenNothing
  <2>3. Len(<<>>) = 0 /\ <<>> \in Seq(Seq(Chars))
    OBVIOUS
  <2>4. Taken(p, Len(<<>>), path, 0, <<>>)
    BY <2>2, <2>3
  <2>5. Taken(p, Len(p), path, Len(path), <<>> \o vals)
    BY <1>1, <2>1, <2>3, <2>4 DEF LeadsOn
  <2>6. <<>> \o vals = vals
    <3> DEFINE S == Seq(Chars)
    <3>1. vals \in Seq(S)
      OBVIOUS
    <3> HIDE DEF S
    <3> QED BY <3>1, ConcatEmptySeq
  <2> QED BY <2>5, <2>6
<1>5. /\ vals \in Seq(Pieces(path)) /\ Len(vals) = WildCount(p, Len(p))
      /\ FlattenSeq(FilledTo(p, Len(p), vals)) = SubSeq(path, 1, Len(path))
      /\ FitTo(p, Len(p), vals)
  BY <1>4 DEF Taken
<1>6. Fill(p, vals) = path
  <2>1. SubSeq(path, 1, Len(path)) = path
    BY SubSeqFull
  <2>2. Fill(p, vals) = FlattenSeq(FilledTo(p, Len(p), vals))
    BY DEF Fill, FilledTo
  <2> QED BY <1>5, <2>1, <2>2
<1>7. Admits(p, path, vals)
  BY <1>5, <1>6 DEF Admits, FitTo
<1>8. vals \in ValuesFor(p, path)
  <2> DEFINE P == Pieces(path)
             c == WildCount(p, Len(p))
  <2>1. vals \in Seq(P) /\ Len(vals) = c
    BY <1>5
  <2> HIDE DEF P, c
  <2>2. vals \in [1..c -> P]
    BY <2>1
  <2> QED BY <2>2 DEF ValuesFor, P, c
<1> QED BY <1>2, <1>7, <1>8 DEF LoosePair

(* What a lookup returns is right.                                         *)
FindRight(t, m, path, r) ==
  /\ r \in Results
  /\ r.hit => Holds(t, m, r.pattern) /\ LoosePair(r.pattern, path, r.vals)
  /\ r.hint => \E l \in Methods \ {m}, p \in AllPatterns, vals \in Seq(Seq(Chars)) :
                 Holds(t, l, p) /\ LoosePair(p, path, vals)

(* Every search in a good tree returns what is right.                      *)
LEMMA FindSound ==
  ASSUME NEW t, Good(t), NEW m \in Methods, NEW path \in Seq(Chars)
  PROVE  FindRight(t, m, path, Find(t, m, path))
<1>1. PICK f : /\ LevelsOf(f, t, m)
               /\ \A w \in Seq(Chars) : Find(t, m, w) = f[Height + 1][<< <<>>, w>>]
  BY FindLevels
<1>2. Height + 1 \in Nat
  BY HeightFacts
<1>3. f[Height + 1] \in Searches(t) /\ Sound(t, m, f[Height + 1])
  BY <1>1, <1>2, LevelsSound, LevelFacts
<1>4. <<>> \in DOMAIN t
  BY DEF Good, Typed
<1>5. PICK r : r = Find(t, m, path)
  OBVIOUS
<1>6. r \in Results /\ HitWell(t, m, <<>>, path, r) /\ HintWell(t, m, <<>>, path, r)
  <2> DEFINE F == f[Height + 1]
  <2>1. r = F[<< <<>>, path>>] /\ F \in Searches(t) /\ Sound(t, m, F)
    BY <1>1, <1>3, <1>5
  <2> HIDE DEF F
  <2>2. << <<>>, path>> \in (DOMAIN t) \X Seq(Chars)
    BY <1>4
  <2>3. r \in Results
    BY <2>1, <2>2 DEF Searches
  <2> QED BY <1>4, <2>1, <2>3 DEF Sound
<1>7. r.vals \in Seq(Seq(Chars))
  BY <1>6 DEF Results
<1>8. r.hit => Holds(t, m, r.pattern) /\ LoosePair(r.pattern, path, r.vals)
  <2>1. SUFFICES ASSUME r.hit
                 PROVE  Holds(t, m, r.pattern) /\ LoosePair(r.pattern, path, r.vals)
    OBVIOUS
  <2>2. Leading(t, <<>>, path, m, r.pattern, r.vals)
    BY <1>6, <2>1 DEF HitWell
  <2> DEFINE p == r.pattern
             w == r.vals
  <2>3. w \in Seq(Seq(Chars)) /\ Leading(t, <<>>, path, m, p, w)
    BY <1>7, <2>2
  <2> HIDE DEF p, w
  <2>4. LoosePair(p, path, w) /\ Holds(t, m, p)
    BY <2>3, RootLeads
  <2> QED BY <2>4 DEF p, w
<1>9. r.hint => \E l \in Methods \ {m}, p \in AllPatterns, vals \in Seq(Seq(Chars)) :
                  Holds(t, l, p) /\ LoosePair(p, path, vals)
  <2>1. SUFFICES ASSUME r.hint
                 PROVE  \E l \in Methods \ {m}, p \in AllPatterns, vals \in Seq(Seq(Chars)) :
                          Holds(t, l, p) /\ LoosePair(p, path, vals)
    OBVIOUS
  <2>2. PICK l \in Methods \ {m}, p \in AllPatterns, vals \in Seq(Seq(Chars)) :
          Leading(t, <<>>, path, l, p, vals)
    BY <1>6, <2>1 DEF HintWell
  <2>3. LoosePair(p, path, vals) /\ Holds(t, l, p)
    BY <2>2, RootLeads
  <2> QED BY <2>3
<1>10. FindRight(t, m, path, r)
  BY <1>6, <1>8, <1>9 DEF FindRight
<1> QED BY <1>5, <1>10

(* The paths of requests are of characters.                                *)
LEMMA PathsTyped == Paths \subseteq Seq(Chars)
  BY CallAssumption

(* In a good tree lookups are sound.                                       *)
LEMMA GoodIsSound == TreeInv => LookupSound
<1>1. SUFFICES ASSUME Good(tree), NEW m \in Methods, NEW path \in Paths, FindRoute(m, path).hit
               PROVE  /\ FindRoute(m, path).pattern \in Registered(m)
                      /\ Admits(FindRoute(m, path).pattern, path, FindRoute(m, path).vals)
  BY DEF LookupSound, TreeInv
<1>2. path \in Seq(Chars)
  BY PathsTyped
<1>3. PICK r : r = Find(tree, m, path)
  OBVIOUS
<1>4. FindRight(tree, m, path, r)
  BY <1>1, <1>2, <1>3, FindSound
<1>5. r = FindRoute(m, path) /\ r.hit
  BY <1>1, <1>3 DEF FindRoute
<1>6. Holds(tree, m, r.pattern) /\ LoosePair(r.pattern, path, r.vals)
  BY <1>4, <1>5 DEF FindRight
<1>7. r.pattern \in Registered(m)
  BY <1>1, <1>6, RegisteredFacts
<1>8. Admits(r.pattern, path, r.vals)
  BY <1>6 DEF LoosePair
<1> QED BY <1>5, <1>7, <1>8

(* A lookup never returns a pattern that is not registered for the method, *)
(* nor values that do not turn it into the path, whatever branches were    *)
(* given up on the way.                                                    *)
THEOREM LookupIsSound == Spec => []LookupSound
<1> QED BY TreeInvHolds, GoodIsSound, PTL

-----------------------------------------------------------------------------
(* Where the tokens of a pattern are in the path that they fill            *)

(* The values fill the pattern and give the path.                          *)
Filling(p, path, vals) ==
  /\ p \in Seq(Letters) /\ Parses(p) /\ path \in Seq(Chars) /\ vals \in Seq(Seq(Chars))
  /\ Len(vals) = WildCount(p, Len(p)) /\ Fill(p, vals) = path

(* What the token at i is with these values.                               *)
Taking(p, i, vals) == IF Wild(p[i]) THEN vals[WildCount(p, i)] ELSE <<p[i]>>

(* How much of the path the first i tokens are.                            *)
Mark(p, i, vals) == Len(FlattenSeq(FilledTo(p, i, vals)))

(* The first tokens of the whole.                                          *)
LEMMA FilledFirst ==
  ASSUME NEW p, NEW vals, Len(p) \in Nat, NEW i \in 0..Len(p)
  PROVE  FirstOf(FilledTo(p, Len(p), vals), i) = FilledTo(p, i, vals)
<1> DEFINE n == Len(p)
           T(j) == IF Wild(p[j]) THEN vals[WildCount(p, j)] ELSE <<p[j]>>
           f == [j \in 1..n |-> T(j)]
<1>1. f = FilledTo(p, n, vals) /\ FilledTo(p, i, vals) = [j \in 1..i |-> T(j)]
  BY DEF FilledTo
<1>2. \A j \in 1..i : j \in 1..n
  OBVIOUS
<1> HIDE DEF T
<1>3. \A j \in 1..i : f[j] = T(j)
  BY <1>2
<1>4. FirstOf(f, i) = [j \in 1..i |-> f[j]]
  BY DEF FirstOf
<1> HIDE DEF f
<1> QED BY <1>1, <1>3, <1>4

(* What is filled is sequences of characters, which give the path.         *)
LEMMA FillingFacts ==
  ASSUME NEW p, NEW path, NEW vals, Filling(p, path, vals)
  PROVE  /\ Len(p) \in Nat
         /\ FilledTo(p, Len(p), vals) \in [1..Len(p) -> Seq(Chars)]
         /\ FlattenSeq(FilledTo(p, Len(p), vals)) = path
<1>1. p \in Seq(Letters) /\ Parses(p) /\ vals \in Seq(Seq(Chars)) /\ Len(vals) = WildCount(p, Len(p))
  BY DEF Filling
<1>2. Len(p) \in Nat /\ WildCount(p, Len(p)) \in Nat
  BY <1>1, LenProperties, CountStep
<1>3. FilledTo(p, Len(p), vals) \in [1..Len(p) -> Seq(Chars)]
  <2>1. Len(p) \in 0..Len(p) /\ WildCount(p, Len(p)) <= Len(vals)
    BY <1>1, <1>2
  <2> QED BY <1>1, <2>1, FilledTyped
<1>4. FlattenSeq(FilledTo(p, Len(p), vals)) = path
  BY DEF Filling, Fill, FilledTo
<1> QED BY <1>2, <1>3, <1>4

(* Nothing is taken at first, and everything in the end.                   *)
LEMMA MarkEnds ==
  ASSUME NEW p, NEW path, NEW vals, Filling(p, path, vals)
  PROVE  Mark(p, 0, vals) = 0 /\ Mark(p, Len(p), vals) = Len(path)
<1>1. Mark(p, Len(p), vals) = Len(path)
  BY FillingFacts DEF Mark
<1>2. FlattenSeq(FilledTo(p, 0, vals)) = <<>>
  <2>1. FilledTo(p, 0, vals) \in [1..0 -> {}]
    BY DEF FilledTo
  <2> QED BY <2>1, FlattenNone
<1>3. Mark(p, 0, vals) = 0
  <2>1. Len(<<>>) = 0
    OBVIOUS
  <2> QED BY <1>2, <2>1 DEF Mark
<1> QED BY <1>1, <1>3

(* A token takes what comes next of the path.                              *)
MarkedAt(p, i, path, vals, w) ==
  /\ Mark(p, i, vals) \in 0..Len(path) /\ w \in Seq(Chars)
  /\ Len(w) \in 0..(Len(path) - Mark(p, i, vals))
  /\ Mark(p, i + 1, vals) = Mark(p, i, vals) + Len(w)
  /\ SubSeq(path, Mark(p, i, vals) + 1, Mark(p, i, vals) + Len(w)) = w
  /\ \A j \in 1..Len(w) : path[Mark(p, i, vals) + j] = w[j]

(* What the next token takes stands between two marks of the path.         *)
LEMMA MarkStep ==
  ASSUME NEW p, NEW path, NEW vals, Filling(p, path, vals), NEW i \in 0..(Len(p) - 1)
  PROVE  MarkedAt(p, i, path, vals, Taking(p, i + 1, vals))
<1> DEFINE n == Len(p)
           f == FilledTo(p, n, vals)
           a == FlattenSeq(FilledTo(p, i, vals))
           b == Taking(p, i + 1, vals)
<1>1. n \in Nat /\ f \in [1..n -> Seq(Chars)] /\ FlattenSeq(f) = path
  BY FillingFacts
<1>2. i \in 0..n /\ i + 1 \in 1..n /\ i + 1 \in 0..n /\ (i + 1) - 1 = i
  BY <1>1
<1>3. f[i + 1] = b
  BY <1>2 DEF FilledTo, Taking
<1>4. FirstOf(f, i) = FilledTo(p, i, vals) /\ FirstOf(f, i + 1) = FilledTo(p, i + 1, vals)
  BY <1>1, <1>2, FilledFirst
<1> HIDE DEF n, f, b
<1>5. FlattenSeq(FirstOf(f, i + 1)) = FlattenSeq(FirstOf(f, (i + 1) - 1)) \o f[i + 1]
  BY <1>1, <1>2, FirstOfMore
<1>6. FlattenSeq(FilledTo(p, i + 1, vals)) = a \o b
  BY <1>2, <1>3, <1>4, <1>5
<1>7. a \in Seq(Chars) /\ b \in Seq(Chars)
  <2>1. FlattenSeq(FirstOf(f, i)) \in Seq(Chars)
    BY <1>1, <1>2, FirstOfType
  <2> QED BY <1>1, <1>2, <1>3, <1>4, <2>1
<1>8. PICK r \in Seq(Chars) : path = (a \o b) \o r
  <2>1. RestOver(f, i + 1, n, Chars)
    <3>1. \A j \in ((i + 1) + 1)..n : j \in 1..n
      BY <1>1, <1>2
    <3> QED BY <1>1, <3>1 DEF RestOver
  <2>2. LiesWithin(f, i + 1, Chars)
    <3> DEFINE k == i + 1
    <3>1. k \in 1..n /\ RestOver(f, k, n, Chars)
      BY <1>2, <2>1
    <3> HIDE DEF k
    <3>2. LiesWithin(f, k, Chars)
      BY <1>1, <3>1, FlattenAround
    <3> QED BY <3>2 DEF k
  <2>3. \E r \in Seq(Chars) : FlattenSeq(f) = (FlattenSeq(FirstOf(f, (i + 1) - 1)) \o f[i + 1]) \o r
    BY <2>2 DEF LiesWithin
  <2> QED BY <1>1, <1>2, <1>3, <1>4, <2>3
<1>9. Between(a, b, r, path) /\ path \in Seq(Chars)
  <2> HIDE DEF a
  <2> QED BY <1>7, <1>8, ConcatMiddle
<1>10. Len(a) = Mark(p, i, vals) /\ Mark(p, i + 1, vals) = Len(a \o b)
  BY <1>6 DEF Mark
<1> HIDE DEF a
<1>11. Len(a \o b) = Len(a) + Len(b)
  BY <1>7, ConcatProperties
<1>12. Len(a) \in Nat /\ Len(b) \in Nat /\ Len(r) \in Nat /\ Len(path) = Len(a) + Len(b) + Len(r)
  BY <1>7, <1>9, LenProperties DEF Between
<1>13. /\ Len(a) \in 0..Len(path) /\ Len(b) \in 0..(Len(path) - Len(a))
       /\ SubSeq(path, Len(a) + 1, Len(a) + Len(b)) = b
       /\ \A j \in 1..Len(b) : path[Len(a) + j] = b[j]
  BY <1>9, <1>12 DEF Between
<1>14. MarkedAt(p, i, path, vals, b)
  BY <1>7, <1>10, <1>11, <1>13 DEF MarkedAt
<1> QED BY <1>14 DEF b

(* The first tokens end within the path.                                   *)
LEMMA MarkWithin ==
  ASSUME NEW p, NEW path, NEW vals, Filling(p, path, vals), NEW i \in 0..Len(p)
  PROVE  Mark(p, i, vals) \in 0..Len(path)
<1>1. Len(p) \in Nat /\ Len(path) \in Nat
  BY FillingFacts, LenProperties DEF Filling
<1>2. CASE i = Len(p)
  BY <1>1, <1>2, MarkEnds
<1>3. CASE i # Len(p)
  <2>1. i \in 0..(Len(p) - 1)
    BY <1>1, <1>3
  <2> QED BY <2>1, MarkStep DEF MarkedAt
<1> QED BY <1>2, <1>3

(* Text in a row is in the path as it is.                                  *)
TextAt(p, i, path, vals, z) ==
  /\ Mark(p, i + z, vals) = Mark(p, i, vals) + z
  /\ z <= Len(path) - Mark(p, i, vals)
  /\ \A j \in 1..z : path[Mark(p, i, vals) + j] = p[i + j]

(* Tokens of text advance the mark by one character each.                  *)
LEMMA MarkText ==
  ASSUME NEW p, NEW path, NEW vals, Filling(p, path, vals), NEW i \in 0..Len(p),
         NEW z \in 0..(Len(p) - i), \A j \in 1..z : ~ Wild(p[i + j])
  PROVE  TextAt(p, i, path, vals, z)
<1> DEFINE N == {m \in Nat : m <= z => TextAt(p, i, path, vals, m)}
<1>1. Len(p) \in Nat /\ Len(path) \in Nat /\ Mark(p, i, vals) \in 0..Len(path)
  BY FillingFacts, MarkWithin, LenProperties DEF Filling
<1>2. 0 \in N
  <2>1. i + 0 = i
    OBVIOUS
  <2> QED BY <1>1, <2>1 DEF TextAt
<1>3. ASSUME NEW m \in N PROVE m + 1 \in N
  <2>1. SUFFICES ASSUME m + 1 <= z
                 PROVE  TextAt(p, i, path, vals, m + 1)
    OBVIOUS
  <2> DEFINE x == i + m
             a == Mark(p, i, vals)
             w == Taking(p, x + 1, vals)
  <2>2. m \in Nat /\ TextAt(p, i, path, vals, m)
    BY <2>1
  <2>3. x \in 0..(Len(p) - 1) /\ x + 1 = i + (m + 1)
    BY <1>1, <2>1, <2>2
  <2>4. ~ Wild(p[x + 1])
    <3>1. m + 1 \in 1..z
      BY <2>1, <2>2
    <3> QED BY <2>3, <3>1
  <2>5. w = <<p[x + 1]>>
    BY <2>4 DEF Taking
  <2>6. Len(w) = 1 /\ w[1] = p[x + 1]
    BY <2>5
  <2>7. MarkedAt(p, x, path, vals, w)
    <3> HIDE DEF x
    <3> QED BY <2>3, MarkStep
  <2> HIDE DEF w, x
  <2>8. /\ Mark(p, x, vals) \in 0..Len(path) /\ 1 <= Len(path) - Mark(p, x, vals)
        /\ Mark(p, x + 1, vals) = Mark(p, x, vals) + 1
        /\ path[Mark(p, x, vals) + 1] = p[x + 1]
    <3>1. /\ Mark(p, x, vals) \in 0..Len(path) /\ Len(w) \in 0..(Len(path) - Mark(p, x, vals))
          /\ Mark(p, x + 1, vals) = Mark(p, x, vals) + Len(w)
          /\ \A j \in 1..Len(w) : path[Mark(p, x, vals) + j] = w[j]
      BY <2>7 DEF MarkedAt
    <3>2. path[Mark(p, x, vals) + 1] = w[1]
      BY <2>6, <3>1
    <3> QED BY <1>1, <2>6, <3>1, <3>2
  <2>9. Mark(p, x, vals) = a + m /\ a \in Nat
    BY <1>1, <2>2 DEF TextAt, x
  <2>10. Mark(p, i + (m + 1), vals) = a + (m + 1) /\ path[a + (m + 1)] = p[i + (m + 1)]
    <3>1. (a + m) + 1 = a + (m + 1)
      BY <2>2, <2>9
    <3> HIDE DEF a
    <3>2. Mark(p, x + 1, vals) = (a + m) + 1 /\ path[(a + m) + 1] = p[x + 1]
      BY <2>8, <2>9
    <3> QED BY <2>3, <3>1, <3>2
  <2>11. m + 1 <= Len(path) - a
    <3> HIDE DEF a
    <3> QED BY <1>1, <2>2, <2>8, <2>9
  <2>12. ASSUME NEW j \in 1..(m + 1) PROVE path[a + j] = p[i + j]
    <3>1. CASE j = m + 1
      BY <2>10, <3>1
    <3>2. CASE j # m + 1
      <4>1. j \in 1..m
        BY <2>2, <3>2
      <4> QED BY <2>2, <4>1 DEF TextAt
    <3> QED BY <3>1, <3>2
  <2> QED BY <2>10, <2>11, <2>12 DEF TextAt
<1>4. Nat \subseteq N
  <2> HIDE DEF N
  <2> QED BY <1>2, <1>3, SetInduction
<1> QED BY <1>4

-----------------------------------------------------------------------------
(* The steps by their places                                               *)

(* The steps from a node, type by type.                                    *)
StepsOf(t, n, path) ==
  <<StaticSteps(t, t[n].kids["Static"], path), SegmentSteps(t, t[n].kids["Regexp"], path),
    SegmentSteps(t, t[n].kids["Param"], path), CatchAllSteps(t[n].kids["CatchAll"], path)>>

(* The type of the h-th series.                                            *)
TypeAt == <<"Static", "Regexp", "Param", "CatchAll">>

(* How many steps come before those of the h-th series, and the place of   *)
(* the i-th of them.                                                       *)
Offset(X, h) ==
  IF h = 1 THEN 0
  ELSE IF h = 2 THEN Len(X[1])
  ELSE IF h = 3 THEN Len(X[1]) + Len(X[2])
  ELSE Len(X[1]) + Len(X[2]) + Len(X[3])

PlaceIn(X, h, i) == Offset(X, h) + i

(* Four series in a row, and the places in them.                           *)
InARow(X, s) ==
  /\ Len(s) = Len(X[1]) + Len(X[2]) + Len(X[3]) + Len(X[4])
  /\ \A h \in 1..4 : \A i \in 1..Len(X[h]) :
       PlaceIn(X, h, i) \in 1..Len(s) /\ s[PlaceIn(X, h, i)] = X[h][i]
  /\ \A j \in 1..Len(s) : \E h \in 1..4 : \E i \in 1..Len(X[h]) : j = PlaceIn(X, h, i)

(* Four series in a row have their elements at their places in it.         *)
LEMMA FourInARow ==
  ASSUME NEW S, NEW a \in Seq(S), NEW b \in Seq(S), NEW c \in Seq(S), NEW d \in Seq(S),
         NEW X, X = <<a, b, c, d>>
  PROVE  InARow(X, a \o b \o c \o d)
<1> DEFINE ab == a \o b
           abc == ab \o c
           s == abc \o d
           la == Len(a)
           lb == Len(b)
           lc == Len(c)
           ld == Len(d)
<1>1. X[1] = a /\ X[2] = b /\ X[3] = c /\ X[4] = d
  OBVIOUS
<1>2. la \in Nat /\ lb \in Nat /\ lc \in Nat /\ ld \in Nat
  BY LenProperties
<1>3. ab \in Seq(S) /\ Len(ab) = la + lb /\ \A i \in 1..(la + lb) : ab[i] = IF i <= la THEN a[i] ELSE b[i - la]
  BY ConcatProperties
<1> HIDE DEF ab
<1>4. /\ abc \in Seq(S) /\ Len(abc) = Len(ab) + lc
      /\ \A i \in 1..(Len(ab) + lc) : abc[i] = IF i <= Len(ab) THEN ab[i] ELSE c[i - Len(ab)]
  <2>1. ab \in Seq(S)
    BY <1>3
  <2> QED BY <2>1, ConcatProperties
<1> HIDE DEF abc
<1>5. /\ s \in Seq(S) /\ Len(s) = Len(abc) + ld
      /\ \A i \in 1..(Len(abc) + ld) : s[i] = IF i <= Len(abc) THEN abc[i] ELSE d[i - Len(abc)]
  <2>1. abc \in Seq(S)
    BY <1>4
  <2> QED BY <2>1, ConcatProperties
<1> HIDE DEF s, la, lb, lc, ld
<1>6. Len(s) = la + lb + lc + ld
  BY <1>3, <1>4, <1>5
<1>7. /\ \A i \in 1..la : s[i] = a[i]
      /\ \A i \in 1..lb : s[la + i] = b[i]
      /\ \A i \in 1..lc : s[la + lb + i] = c[i]
      /\ \A i \in 1..ld : s[la + lb + lc + i] = d[i]
  <2>1. ASSUME NEW i \in 1..la PROVE s[i] = a[i]
    <3>1. i \in 1..(la + lb) /\ i \in 1..(Len(ab) + lc) /\ i \in 1..(Len(abc) + ld) /\ i <= Len(ab) /\ i <= Len(abc)
      BY <1>2, <1>3, <1>4
    <3> QED BY <1>3, <1>4, <1>5, <3>1
  <2>2. ASSUME NEW i \in 1..lb PROVE s[la + i] = b[i]
    <3> DEFINE j == la + i
    <3>1. j \in 1..(la + lb) /\ j \in 1..(Len(ab) + lc) /\ j \in 1..(Len(abc) + ld) /\ j <= Len(ab) /\ j <= Len(abc)
          /\ ~ (j <= la) /\ j - la = i
      BY <1>2, <1>3, <1>4
    <3> HIDE DEF j
    <3>2. s[j] = abc[j] /\ abc[j] = ab[j] /\ ab[j] = b[i]
      BY <1>3, <1>4, <1>5, <3>1
    <3> QED BY <3>2 DEF j
  <2>3. ASSUME NEW i \in 1..lc PROVE s[la + lb + i] = c[i]
    <3> DEFINE j == la + lb + i
    <3>1. j \in 1..(Len(ab) + lc) /\ j \in 1..(Len(abc) + ld) /\ ~ (j <= Len(ab)) /\ j <= Len(abc)
          /\ j - Len(ab) = i
      BY <1>2, <1>3, <1>4
    <3> HIDE DEF j
    <3>2. s[j] = abc[j] /\ abc[j] = c[i]
      BY <1>4, <1>5, <3>1
    <3> QED BY <3>2 DEF j
  <2>4. ASSUME NEW i \in 1..ld PROVE s[la + lb + lc + i] = d[i]
    <3> DEFINE j == la + lb + lc + i
    <3>1. j \in 1..(Len(abc) + ld) /\ ~ (j <= Len(abc)) /\ j - Len(abc) = i
      BY <1>2, <1>3, <1>4
    <3> HIDE DEF j
    <3>2. s[j] = d[i]
      BY <1>5, <3>1
    <3> QED BY <3>2 DEF j
  <2> QED BY <2>1, <2>2, <2>3, <2>4
<1>8. Len(X[1]) = la /\ Len(X[2]) = lb /\ Len(X[3]) = lc /\ Len(X[4]) = ld
  BY <1>1 DEF la, lb, lc, ld
<1>9. Offset(X, 1) = 0 /\ Offset(X, 2) = la /\ Offset(X, 3) = la + lb /\ Offset(X, 4) = la + lb + lc
  <2>1. ASSUME NEW Y, Len(Y[1]) = la, Len(Y[2]) = lb, Len(Y[3]) = lc
        PROVE  Offset(Y, 1) = 0 /\ Offset(Y, 2) = la /\ Offset(Y, 3) = la + lb /\ Offset(Y, 4) = la + lb + lc
    BY <2>1 DEF Offset
  <2> QED BY <1>8, <2>1
<1>10. ASSUME NEW h \in 1..4, NEW i \in 1..Len(X[h])
       PROVE  PlaceIn(X, h, i) \in 1..Len(s) /\ s[PlaceIn(X, h, i)] = X[h][i]
  <2>0. h = 1 \/ h = 2 \/ h = 3 \/ h = 4
    OBVIOUS
  <2>1. CASE h = 1
    <3>1. i \in 1..la /\ PlaceIn(X, h, i) = i
      BY <1>8, <1>9, <2>1 DEF PlaceIn
    <3> QED BY <1>1, <1>2, <1>6, <1>7, <2>1, <3>1
  <2>2. CASE h = 2
    <3>1. i \in 1..lb /\ PlaceIn(X, h, i) = la + i
      BY <1>8, <1>9, <2>2 DEF PlaceIn
    <3> QED BY <1>1, <1>2, <1>6, <1>7, <2>2, <3>1
  <2>3. CASE h = 3
    <3>1. i \in 1..lc /\ PlaceIn(X, h, i) = la + lb + i
      BY <1>8, <1>9, <2>3 DEF PlaceIn
    <3> QED BY <1>1, <1>2, <1>6, <1>7, <2>3, <3>1
  <2>4. CASE h = 4
    <3>1. i \in 1..ld /\ PlaceIn(X, h, i) = la + lb + lc + i
      BY <1>8, <1>9, <2>4 DEF PlaceIn
    <3> QED BY <1>1, <1>2, <1>6, <1>7, <2>4, <3>1
  <2> QED BY <2>0, <2>1, <2>2, <2>3, <2>4
<1>11. ASSUME NEW j \in 1..Len(s)
       PROVE  \E h \in 1..4 : \E i \in 1..Len(X[h]) : j = PlaceIn(X, h, i)
  <2>1. j \in 1..(la + lb + lc + ld)
    BY <1>6
  <2>2. ASSUME NEW h \in 1..4, NEW x, x = Offset(X, h), j - x \in 1..Len(X[h]), x \in Nat
        PROVE  \E i \in 1..Len(X[h]) : j = PlaceIn(X, h, i)
    <3>1. j = x + (j - x)
      BY <2>1, <2>2
    <3>2. j = PlaceIn(X, h, j - x)
      BY <2>2, <3>1 DEF PlaceIn
    <3> QED BY <2>2, <3>2
  <2>3. CASE j <= la
    <3>1. j - 0 \in 1..Len(X[1])
      BY <1>2, <1>8, <2>1, <2>3
    <3>2. 1 \in 1..4 /\ 0 \in Nat
      OBVIOUS
    <3> QED BY <1>9, <2>2, <3>1, <3>2
  <2>4. CASE j > la /\ j <= la + lb
    <3>1. j - la \in 1..Len(X[2])
      BY <1>2, <1>8, <2>1, <2>4
    <3>2. 2 \in 1..4
      OBVIOUS
    <3> QED BY <1>2, <1>9, <2>2, <3>1, <3>2
  <2>5. CASE j > la + lb /\ j <= la + lb + lc
    <3>1. j - (la + lb) \in 1..Len(X[3])
      BY <1>2, <1>8, <2>1, <2>5
    <3>2. 3 \in 1..4 /\ la + lb \in Nat
      BY <1>2
    <3> QED BY <1>9, <2>2, <3>1, <3>2
  <2>6. CASE j > la + lb + lc
    <3>1. j - (la + lb + lc) \in 1..Len(X[4])
      BY <1>2, <1>8, <2>1, <2>6
    <3>2. 4 \in 1..4 /\ la + lb + lc \in Nat
      BY <1>2
    <3> QED BY <1>9, <2>2, <3>1, <3>2
  <2>7. j <= la \/ (j > la /\ j <= la + lb) \/ (j > la + lb /\ j <= la + lb + lc) \/ j > la + lb + lc
    BY <1>2, <2>1
  <2> QED BY <2>3, <2>4, <2>5, <2>6, <2>7
<1>12. InARow(X, s)
  BY <1>6, <1>8, <1>10, <1>11 DEF InARow
<1> QED BY <1>12 DEF s, abc, ab

(* The steps from a node are the four series, in this order.               *)
LEMMA SeriesFacts ==
  ASSUME NEW t, Good(t), NEW n \in DOMAIN t, NEW path \in Seq(Chars)
  PROVE  InARow(StepsOf(t, n, path), Steps(t, n, path))
<1> DEFINE S == GoodSteps(t, n, path)
           a == StaticSteps(t, t[n].kids["Static"], path)
           b == SegmentSteps(t, t[n].kids["Regexp"], path)
           c == SegmentSteps(t, t[n].kids["Param"], path)
           d == CatchAllSteps(t[n].kids["CatchAll"], path)
<1>1. a \in Seq(S) /\ d \in Seq(S)
  BY StaticStepsTyped, CatchAllStepsTyped
<1>2. b \in Seq(S)
  BY SegmentStepsTyped
<1>3. c \in Seq(S)
  BY SegmentStepsTyped
<1>4. Steps(t, n, path) = a \o b \o c \o d /\ StepsOf(t, n, path) = <<a, b, c, d>>
  BY DEF Steps, StepsOf
<1> HIDE DEF S, a, b, c, d
<1> QED BY <1>1, <1>2, <1>3, <1>4, FourInARow

(* The steps of the series by the children of the node.                    *)
KidSeries(t, n, path) ==
  /\ Len(StepsOf(t, n, path)[1]) <= 1 /\ Len(StepsOf(t, n, path)[4]) <= 1
  /\ \A h \in 2..3 :
       /\ StepsOf(t, n, path)[h] = SegmentSteps(t, t[n].kids[TypeAt[h]], path)
       /\ TypeAt[h] \in {"Regexp", "Param"}
  /\ StepsOf(t, n, path)[1] = StaticSteps(t, t[n].kids["Static"], path)
  /\ StepsOf(t, n, path)[4] = CatchAllSteps(t[n].kids["CatchAll"], path)

(* Each series of steps is by the children of one type.                    *)
LEMMA KidSeriesFacts ==
  ASSUME NEW t, NEW n, NEW path
  PROVE  KidSeries(t, n, path)
<1> DEFINE a == StaticSteps(t, t[n].kids["Static"], path)
           b == SegmentSteps(t, t[n].kids["Regexp"], path)
           c == SegmentSteps(t, t[n].kids["Param"], path)
           d == CatchAllSteps(t[n].kids["CatchAll"], path)
           X == StepsOf(t, n, path)
<1>1. Len(a) <= 1
  BY DEF StaticSteps
<1>2. Len(d) <= 1
  BY DEF CatchAllSteps
<1>3. X = <<a, b, c, d>>
  BY DEF StepsOf
<1>4. TypeAt[2] = "Regexp" /\ TypeAt[3] = "Param"
  BY DEF TypeAt
<1> HIDE DEF X, a, d
<1>5. X[1] = a /\ X[2] = b /\ X[3] = c /\ X[4] = d
  BY <1>3
<1> HIDE DEF b, c
<1>6. \A h \in 2..3 : h = 2 \/ h = 3
  OBVIOUS
<1>7. /\ X[2] = SegmentSteps(t, t[n].kids[TypeAt[2]], path)
      /\ X[3] = SegmentSteps(t, t[n].kids[TypeAt[3]], path)
  BY <1>4, <1>5 DEF b, c
<1>8. ASSUME NEW h \in 2..3
      PROVE  /\ X[h] = SegmentSteps(t, t[n].kids[TypeAt[h]], path)
             /\ TypeAt[h] \in {"Regexp", "Param"}
  BY <1>4, <1>6, <1>7
<1>9. X[1] = StaticSteps(t, t[n].kids["Static"], path) /\ X[4] = CatchAllSteps(t[n].kids["CatchAll"], path)
  BY <1>5 DEF a, d
<1>10. Len(X[1]) <= 1 /\ Len(X[4]) <= 1
  BY <1>1, <1>2, <1>5
<1> QED BY <1>8, <1>9, <1>10 DEF KidSeries, X

(* A child is listed in the group of its type.                             *)
LEMMA ListedKid ==
  ASSUME NEW t, Good(t), NEW k \in NonRoot(t), NEW n, n = Above(t, k), n \in DOMAIN t,
         NEW g, g = t[k].typ, g \in NodeTypes
  PROVE  \E i \in 1..Len(t[n].kids[g]) : t[n].kids[g][i] = k
<1>1. k \in ToSet(t[n].kids[g])
  BY DEF Good, Linked, NonRoot
<1>2. t[n].kids[g] \in Seq(DOMAIN t)
  BY KidsListed DEF Good, Typed
<1> QED BY <1>1, <1>2 DEF ToSet

(* A static child is found by its label.                                   *)
FoundBy(t, kids, c, k) ==
  /\ kids # <<>> /\ FindEdge(t, kids, c) # 0
  /\ FindEdge(t, kids, c) \in 1..Len(kids) /\ kids[FindEdge(t, kids, c)] = k

(* The binary search for its label finds a static child.                   *)
LEMMA StaticEdge ==
  ASSUME NEW t, Good(t), NEW k \in NonRoot(t), t[k].typ = "Static", NEW n, n = Above(t, k),
         n \in DOMAIN t
  PROVE  /\ t[k].label \in Chars /\ t[k].label = t[k].prefix[1]
         /\ FoundBy(t, t[n].kids["Static"], t[k].label, k)
<1> DEFINE kids == t[n].kids["Static"]
           c == t[k].label
           edge == FindEdge(t, kids, c)
<1>1. "Static" \in NodeTypes
  BY DEF NodeTypes
<1>2. Named(t, k) /\ Segment(t, k) \in Segs
  BY PlaceFacts DEF Good, AllNamed
<1>3. c = t[k].prefix[1] /\ c \in Chars /\ Segment(t, k) = <<c, "">>
  BY <1>2, SegmentFacts
<1>4. kids \in Seq(DOMAIN t) /\ \A x \in ToSet(kids) : t[x].label \in Chars
  <2>1. kids \in Seq(DOMAIN t)
    BY <1>1, KidsListed DEF Good, Typed
  <2>2. ASSUME NEW i \in 1..Len(kids)
        PROVE  t[kids[i]].label \in Chars
    <3> DEFINE x == kids[i]
    <3>1. t[x].typ = "Static" /\ Named(t, x) /\ Segment(t, x) \in Segs
      BY <1>1, KidFacts
    <3> HIDE DEF x
    <3>2. t[x].label \in Chars
      BY <3>1, SegmentFacts
    <3> QED BY <3>2 DEF x
  <2> HIDE DEF kids
  <2> QED BY <2>1, <2>2 DEF ToSet
<1>5. PICK g \in 1..Len(kids) : kids[g] = k
  BY <1>1, ListedKid
<1>6. Ascending(t, kids)
  BY DEF Good, Sorted, Ascending
<1>7. edge \in 0..Len(kids) /\ edge # 0 /\ t[kids[edge]].label = c /\ kids # <<>>
  <2> HIDE DEF kids
  <2>1. kids # <<>>
    <3>1. Len(kids) # 0
      BY <1>4, <1>5, LenProperties
    <3> QED BY <3>1
  <2>2. edge \in 0..Len(kids)
    BY <1>3, <1>4, FindEdgeFacts
  <2>3. edge # 0
    BY <1>3, <1>4, <1>5, <1>6, FindEdgeFacts
  <2>4. t[kids[edge]].label = c
    BY <1>3, <1>4, <2>3, FindEdgeFacts
  <2> QED BY <2>1, <2>2, <2>3, <2>4
<1>8. edge \in 1..Len(kids)
  <2> HIDE DEF kids, edge
  <2> QED BY <1>7
<1>9. kids[edge] = k
  <2> DEFINE x == kids[edge]
  <2>1. x \in NonRoot(t) /\ Above(t, x) = n /\ t[x].typ = "Static" /\ Named(t, x) /\ Segment(t, x) \in Segs
    <3> HIDE DEF edge
    <3> QED BY <1>1, <1>8, KidFacts
  <2>2. t[x].label = c
    BY <1>7
  <2> HIDE DEF x, c
  <2>3. Segment(t, x) = <<c, "">>
    <3>1. Segment(t, x) = <<t[x].label, "">>
      BY <2>1, SegmentFacts
    <3> QED BY <2>2, <3>1
  <2>4. x = k
    BY <1>3, <2>1, <2>3 DEF Good, SiblingsDiffer
  <2> QED BY <2>4 DEF x
<1> QED BY <1>3, <1>7, <1>8, <1>9 DEF FoundBy

(* What is text of a node's prefix begins with it.                         *)
LEMMA PrefixText ==
  ASSUME NEW t, Good(t), NEW k \in NonRoot(t), t[k].typ = "Static", NEW S, Chars \subseteq S,
         NEW rest \in Seq(S), Size(t[k]) <= Len(rest),
         \A j \in 1..Size(t[k]) : rest[j] = t[k].prefix[j]
  PROVE  /\ IsPrefix(t[k].prefix, rest) /\ Size(t[k]) = Len(t[k].prefix)
         /\ Size(t[k]) \in Nat /\ Size(t[k]) >= 1
<1> DEFINE z == Size(t[k])
           p == t[k].prefix
           x == SubSeq(p, 1, z)
           y == SubSeq(rest, 1, z)
<1>1. z \in 1..Len(k) /\ Len(k) \in Nat
  BY PlaceFacts DEF Good
<1>2. p \in Seq(S) /\ z = Len(p)
  <2>1. t[k] \in NodesOver(DOMAIN t)
    BY DEF Good, Typed, NonRoot
  <2>2. p \in Seq(Chars)
    BY <2>1 DEF NodesOver
  <2> QED BY <2>2, SeqMonotonic DEF Size
<1>3. z <= Len(rest) /\ \A j \in 1..z : rest[j] = p[j]
  OBVIOUS
<1> HIDE DEF z, p
<1>4. z \in 0..Len(p) /\ z \in 0..Len(rest) /\ z \in Nat /\ z >= 1
  BY <1>1, <1>2, <1>3
<1>5. x \in Seq(S) /\ Len(x) = z /\ \A j \in 1..z : x[j] = p[j]
  BY <1>2, <1>4, BeginFacts
<1>6. y \in Seq(S) /\ Len(y) = z /\ \A j \in 1..z : y[j] = rest[j]
  BY <1>4, BeginFacts
<1> HIDE DEF x, y
<1>7. x = y
  BY <1>3, <1>5, <1>6, SeqEqual
<1>8. Len(p) <= Len(rest) /\ SubSeq(p, 1, Len(p)) = SubSeq(rest, 1, Len(p))
  BY <1>2, <1>3, <1>7 DEF x, y
<1>9. IsPrefix(p, rest)
  BY <1>8 DEF IsPrefix
<1> QED BY <1>2, <1>4, <1>9 DEF z, p

(* Text that comes next is looked for in the child that is to have it.     *)
LEMMA StaticReach ==
  ASSUME NEW t, Good(t), NEW k \in NonRoot(t), t[k].typ = "Static", NEW n, n = Above(t, k),
         n \in DOMAIN t, NEW rest \in Seq(Chars), Size(t[k]) <= Len(rest),
         \A j \in 1..Size(t[k]) : rest[j] = t[k].prefix[j]
  PROVE  StaticSteps(t, t[n].kids["Static"], rest) = <<Step(TRUE, k, <<>>, Drop(rest, Size(t[k])))>>
<1> DEFINE kids == t[n].kids["Static"]
           edge == FindEdge(t, kids, rest[1])
<1>1. IsPrefix(t[k].prefix, rest) /\ Size(t[k]) = Len(t[k].prefix) /\ Size(t[k]) \in Nat /\ Size(t[k]) >= 1
  BY PrefixText
<1>2. rest[1] = t[k].label /\ rest # <<>>
  <2>1. 1 \in 1..Size(t[k])
    BY <1>1
  <2>2. rest[1] = t[k].prefix[1]
    BY <2>1
  <2>3. t[k].label = t[k].prefix[1]
    BY StaticEdge
  <2>4. Len(rest) # 0 /\ Len(<<>>) = 0
    BY <1>1, LenProperties
  <2> QED BY <2>2, <2>3, <2>4
<1>3. kids # <<>> /\ edge # 0 /\ kids[edge] = k
  <2>1. FoundBy(t, kids, t[k].label, k)
    BY StaticEdge
  <2> HIDE DEF kids
  <2> QED BY <1>2, <2>1 DEF FoundBy
<1> QED BY <1>1, <1>2, <1>3 DEF StaticSteps

(* The series of steps into the parameters of a group.                     *)
ParamSeries(t, kids, path, x) ==
  /\ Len(kids) \in Nat /\ Len(kids) >= 1 /\ Len(x) = Len(kids) + 1
  /\ \A i \in 1..Len(kids) : x[i] = SegmentStep(t, kids[i], path)
  /\ x[Len(kids) + 1] = Step(TRUE, kids[Len(kids)], << <<>> >>, path)

(* One step per parameter of the group, then the last one once more.       *)
LEMMA ParamSeriesFacts ==
  ASSUME NEW t, Good(t), NEW n \in DOMAIN t, NEW g \in {"Regexp", "Param"}, NEW path,
         path # <<>>, t[n].kids[g] # <<>>
  PROVE  ParamSeries(t, t[n].kids[g], path, SegmentSteps(t, t[n].kids[g], path))
<1> DEFINE kids == t[n].kids[g]
           len == Len(kids)
           x == SegmentSteps(t, kids, path)
<1>1. len \in Nat /\ len >= 1
  <2>1. g \in NodeTypes
    BY DEF NodeTypes
  <2>2. kids \in Seq(DOMAIN t) /\ kids # <<>>
    BY <2>1, KidsListed DEF Good, Typed
  <2> HIDE DEF kids
  <2> QED BY <2>2, EmptySeq, LenProperties
<1>2. x = [i \in 1..len + 1 |-> IF i <= len THEN SegmentStep(t, kids[i], path)
                                ELSE Step(TRUE, kids[len], << <<>> >>, path)]
  BY DEF SegmentSteps
<1> HIDE DEF len, x
<1>3. Len(x) = len + 1
  <2>1. DOMAIN x = 1..(len + 1) /\ len + 1 \in Nat
    BY <1>1, <1>2
  <2> QED BY <1>2, <2>1
<1>4. ASSUME NEW i \in 1..len
      PROVE  x[i] = SegmentStep(t, kids[i], path)
  <2>1. i \in 1..len + 1 /\ i <= len
    BY <1>1
  <2> HIDE DEF kids
  <2> QED BY <1>2, <2>1
<1>5. x[len + 1] = Step(TRUE, kids[len], << <<>> >>, path)
  <2>1. len + 1 \in 1..len + 1 /\ ~ (len + 1 <= len)
    BY <1>1
  <2> HIDE DEF kids
  <2> QED BY <1>2, <2>1
<1>6. ParamSeries(t, kids, path, x)
  BY <1>1, <1>3, <1>4, <1>5 DEF ParamSeries, len
<1> QED BY <1>6 DEF x

(* The step into k takes the first e characters as the value.              *)
GoesInto(t, k, rest, e) ==
  SegmentStep(t, k, rest) = Step(TRUE, k, <<SubSeq(rest, 1, e)>>, Drop(rest, e))

(* A child with a parameter takes what fits up to its tail.                *)
LEMMA SegmentReach ==
  ASSUME NEW t, Good(t), NEW k \in NonRoot(t), t[k].typ \in {"Regexp", "Param"},
         NEW rest \in Seq(Chars), NEW e \in 0..Len(rest), e = ValueEnd(t[k], rest),
         SegFits(Segment(t, k), SubSeq(rest, 1, e))
  PROVE  GoesInto(t, k, rest, e)
<1> DEFINE v == SubSeq(rest, 1, e)
           seg == Segment(t, k)
<1>1. Named(t, k) /\ seg \in Segs
  BY PlaceFacts DEF Good, AllNamed
<1>2. PartType(seg[1]) = t[k].typ /\ (t[k].typ = "Regexp" => seg[1] = t[k].rex)
  BY <1>1 DEF Named
<1>3. seg[1] # "*"
  <2>1. PartType("*") = "CatchAll"
    <3>1. "*" # "{}" /\ "*" \in Chars
      BY CharAssumption
    <3> QED BY <3>1 DEF PartType
  <2> HIDE DEF seg
  <2> QED BY <1>2, <2>1
<1>4. /\ v # <<>>
      /\ IF t[k].typ = "Regexp" THEN Accepts(t[k].rex, v) ELSE "/" \notin ToSet(v)
  <2>1. /\ v # <<>> 
        /\ IF PartType(seg[1]) = "Regexp" THEN Accepts(seg[1], v) ELSE "/" \notin ToSet(v)
    BY <1>3 DEF SegFits
  <2> HIDE DEF seg, v
  <2> QED BY <1>2, <2>1
<1>5. e # 0
  <2>1. e = 0 => Len(v) = 0 /\ v \in Seq(Chars)
    BY BeginFacts
  <2> HIDE DEF v
  <2> QED BY <1>4, <2>1, EmptySeq
<1>6. e <= Len(rest)
  OBVIOUS
<1>7. SegmentStep(t, k, rest) =
        IF e <= Len(rest) /\ (IF t[k].typ = "Regexp" THEN e # 0 /\ Accepts(t[k].rex, v) ELSE "/" \notin ToSet(v))
        THEN Step(TRUE, k, <<v>>, Drop(rest, e)) ELSE NoStep(k)
  BY DEF SegmentStep
<1> HIDE DEF v
<1>8. SegmentStep(t, k, rest) = Step(TRUE, k, <<v>>, Drop(rest, e))
  BY <1>4, <1>5, <1>6, <1>7
<1> QED BY <1>8 DEF v, GoesInto

(* The only step of the wildcards takes the rest of the path.              *)
TakesAll(t, n, k, rest) ==
  CatchAllSteps(t[n].kids["CatchAll"], rest) = <<Step(TRUE, k, <<rest>>, <<>>)>>

(* The wildcard takes the rest of the path.                                *)
LEMMA CatchReach ==
  ASSUME NEW t, Good(t), NEW k \in NonRoot(t), t[k].typ = "CatchAll", NEW n, n = Above(t, k),
         n \in DOMAIN t, NEW rest
  PROVE  TakesAll(t, n, k, rest)
<1> DEFINE kids == t[n].kids["CatchAll"]
           x == kids[1]
<1>1. "CatchAll" \in NodeTypes
  BY DEF NodeTypes
<1>2. PICK i \in 1..Len(kids) : kids[i] = k
  BY <1>1, ListedKid
<1>3. kids \in Seq(DOMAIN t)
  BY <1>1, KidsListed DEF Good, Typed
<1>4. 1 \in 1..Len(kids) /\ kids # <<>>
  <2> HIDE DEF kids
  <2>1. Len(kids) \in Nat /\ Len(kids) # 0
    BY <1>2, <1>3, LenProperties
  <2> QED BY <2>1
<1>5. x \in NonRoot(t) /\ Above(t, x) = n /\ t[x].typ = "CatchAll" /\ Named(t, x) /\ Segment(t, x) \in Segs
  BY <1>1, <1>4, KidFacts
<1>6. Named(t, k) /\ Segment(t, k) \in Segs
  BY PlaceFacts DEF Good, AllNamed
<1> HIDE DEF x
<1>7. Segment(t, x) = <<"*", "">> /\ Segment(t, k) = <<"*", "">>
  BY <1>5, <1>6, SegmentFacts
<1>8. x = k
  BY <1>5, <1>7 DEF Good, SiblingsDiffer
<1> QED BY <1>4, <1>8 DEF CatchAllSteps, x, TakesAll

-----------------------------------------------------------------------------
(* The way of a pattern that matches                                       *)

(* The values fill the pattern, give the path and fit.                     *)
FitsWell(p, path, vals) ==
  /\ Filling(p, path, vals)
  /\ \A i \in 1..Len(p) :
       Apart(p, i) /\ (Wild(p[i]) => ValueFits(p, i, vals[WildCount(p, i)]))

(* Values that fit a pattern which was taken fill it.                      *)
LEMMA FitsIsWell ==
  ASSUME NEW p \in AllPatterns, Acceptable(p), NEW path \in Seq(Chars),
         NEW vals \in ValuesFor(p, path), Fits(p, path, vals)
  PROVE  FitsWell(p, path, vals)
<1>1. p \in Seq(Letters) /\ Parses(p) /\ Len(p) \in Nat
  BY TakenTokens DEF OfTokens
<1>2. WildCount(p, Len(p)) \in Nat
  BY <1>1, CountStep
<1>3. vals \in Seq(Seq(Chars))
  <2> DEFINE S == Seq(Chars)
             c == WildCount(p, Len(p))
  <2>1. vals \in [1..c -> Pieces(path)] /\ Pieces(path) \subseteq S
    BY PiecesTyped DEF ValuesFor
  <2> HIDE DEF S, c
  <2>2. vals \in [1..c -> S]
    BY <2>1
  <2> QED BY <1>2, <2>2 DEF c, S
<1>4. Filling(p, path, vals)
  BY <1>1, <1>3 DEF Filling, Fits, Admits
<1> QED BY <1>4 DEF FitsWell, Fits

(* The value of a parameter ends where the lookup lets it end.             *)
LEMMA ParamEnd ==
  ASSUME NEW p, NEW path, NEW vals, FitsWell(p, path, vals), NEW i \in 0..(Len(p) - 1),
         TypeOf(p[i + 1]) \in {"Regexp", "Param"}, NEW w, w = Taking(p, i + 1, vals),
         NEW rest, rest = Drop(path, Mark(p, i, vals)),
         NEW node, node.tail = TailOf(p, i + 1)
  PROVE  ValueEnd(node, rest) = Len(w)
<1> DEFINE a == Mark(p, i, vals)
           e == Len(w)
           len == Len(path)
<1>1. Filling(p, path, vals) /\ p \in Seq(Letters) /\ Parses(p) /\ path \in Seq(Chars) /\ Len(p) \in Nat
  BY FillingFacts DEF FitsWell, Filling
<1>2. len \in Nat
  BY <1>1, LenProperties
<1>3. MarkedAt(p, i, path, vals, w)
  BY <1>1, MarkStep
<1>4. /\ a \in 0..len /\ w \in Seq(Chars) /\ e \in 0..(len - a) /\ Mark(p, i + 1, vals) = a + e
      /\ \A j \in 1..e : path[a + j] = w[j]
  BY <1>3 DEF MarkedAt
<1>5. rest \in Seq(Chars) /\ Len(rest) = len - a /\ \A j \in 1..(len - a) : rest[j] = path[a + j]
  <2>1. path \in Seq(Chars) /\ a \in 0..Len(path) /\ rest = Drop(path, a)
    BY <1>1, <1>4
  <2> HIDE DEF a
  <2> QED BY ONLY <2>1, DropFacts
<1> DEFINE x == p[i + 1]
           tail == TailOf(p, i + 1)
<1>6. i + 1 \in 1..Len(p) /\ x \in Letters
  <2>1. i + 1 \in 1..Len(p)
    BY <1>1
  <2> QED BY <1>1, <2>1, ElementOfSeq
<1>7. Wild(x) /\ x # "*"
  <2>1. Wild(x) <=> TypeOf(x) # "Static"
    BY <1>6, LetterFacts
  <2>2. TypeOf(x) = "CatchAll" <=> x = "*"
    BY <1>6, LetterFacts
  <2> HIDE DEF x
  <2>3. TypeOf(x) \in {"Regexp", "Param"}
    BY DEF x
  <2> QED BY <2>1, <2>2, <2>3
<1>8. tail \notin ToSet(w)
  <2>1. ValueFits(p, i + 1, vals[WildCount(p, i + 1)])
    BY <1>6, <1>7 DEF FitsWell
  <2>2. w = vals[WildCount(p, i + 1)]
    BY <1>7 DEF Taking
  <2> QED BY <1>7, <2>1, <2>2 DEF ValueFits
<1>9. \A j \in 1..e : rest[j] # tail
  <2>1. ASSUME NEW j \in 1..e PROVE rest[j] = w[j] /\ w[j] \in ToSet(w)
    <3>1. j \in 1..(len - a)
      <4> HIDE DEF a, e, len
      <4> QED BY <1>2, <1>4
    <3>2. rest[j] = path[a + j] /\ path[a + j] = w[j]
      <4> HIDE DEF a
      <4> QED BY <1>4, <1>5, <3>1
    <3>3. w[j] \in ToSet(w)
      BY <1>4 DEF ToSet
    <3> QED BY <3>2, <3>3
  <2> HIDE DEF tail
  <2> QED BY <1>8, <2>1
<1>10. tail = IF i + 1 < Len(p) THEN CharOf(p[(i + 1) + 1]) ELSE "/"
  BY <1>1, <1>6, TailFacts
<1>11. IF e = Len(rest) THEN tail = "/" ELSE rest[e + 1] = tail
  <2>1. CASE i + 1 < Len(p)
    <3> DEFINE k == i + 1
    <3>1. k \in 0..Len(p) /\ 1 \in 0..(Len(p) - k) /\ k + 1 \in 1..Len(p) /\ k \in 1..Len(p)
      BY <1>1, <2>1
    <3> DEFINE y == p[k + 1]
    <3>2. ~ Wild(y)
      BY <1>7, <2>1, <3>1 DEF FitsWell, Apart
    <3> HIDE DEF k
    <3>3. y \in Letters
      BY <1>1, <3>1, ElementOfSeq
    <3>4. CharOf(y) = y
      <4> HIDE DEF y
      <4> QED BY <3>2, <3>3, LetterFacts
    <3>5. TextAt(p, k, path, vals, 1)
      <4>1. \A j \in 1..1 : ~ Wild(p[k + j])
        BY <3>2
      <4> QED BY <1>1, <3>1, <4>1, MarkText
    <3> DEFINE q == Mark(p, k, vals)
    <3>6. 1 <= len - q /\ path[q + 1] = y
      BY <3>5 DEF TextAt
    <3>7. q = a + e
      BY <1>4 DEF k
    <3>8. tail = y
      BY <1>10, <2>1, <3>4 DEF k
    <3> HIDE DEF q, y, a, e, len, tail
    <3>9. e + 1 \in 1..(len - a) /\ e # Len(rest) /\ a + (e + 1) = q + 1
      BY <1>2, <1>4, <1>5, <3>6, <3>7
    <3>10. rest[e + 1] = path[q + 1]
      BY <1>5, <3>9
    <3> QED BY <3>6, <3>8, <3>9, <3>10
  <2>2. CASE ~ (i + 1 < Len(p))
    <3>1. tail = "/"
      BY <1>10, <2>2
    <3>2. i + 1 = Len(p)
      BY <1>1, <1>6, <2>2
    <3>3. a + e = len
      BY <1>1, <1>4, <3>2, MarkEnds
    <3> HIDE DEF a, e, len, tail
    <3>4. e = Len(rest)
      BY <1>2, <1>4, <1>5, <3>3
    <3> QED BY <3>1, <3>4
  <2> QED BY <2>1, <2>2
<1> HIDE DEF a, e, len, tail
<1>12. e \in 0..Len(rest)
  BY <1>2, <1>4, <1>5
<1>13. node.tail = tail
  BY DEF tail
<1>14. ValueEnd(node, rest) = e
  BY <1>5, <1>9, <1>11, <1>12, <1>13, ValueEndFacts
<1> QED BY <1>14 DEF e

(* One of the steps from n goes to k, and leaves left of the path; it is   *)
(* not the one that falls through.                                         *)
ReachesKid(t, n, rest, k, left, h, i) ==
  /\ TypeAt[h] = t[k].typ
  /\ StepsOf(t, n, rest)[h][i].open /\ StepsOf(t, n, rest)[h][i].kid = k
  /\ StepsOf(t, n, rest)[h][i].rest = left
  /\ h \in 2..3 => i \in 1..Len(t[n].kids[TypeAt[h]]) /\ t[n].kids[TypeAt[h]][i] = k

Reachable(t, n, rest, k, left) ==
  \E h \in 1..4 : \E i \in 1..Len(StepsOf(t, n, rest)[h]) : ReachesKid(t, n, rest, k, left, h, i)

(* A single step of a series.                                              *)
LEMMA SingleStep ==
  ASSUME NEW t, NEW n, NEW rest, NEW h \in {1, 4}, NEW k, TypeAt[h] = t[k].typ,
         NEW vals, NEW left, StepsOf(t, n, rest)[h] = <<Step(TRUE, k, vals, left)>>
  PROVE  Reachable(t, n, rest, k, left)
<1> DEFINE x == StepsOf(t, n, rest)[h]
           st == Step(TRUE, k, vals, left)
<1>1. st.open /\ st.kid = k /\ st.rest = left
  BY DEF Step
<1> HIDE DEF st
<1>2. x = <<st>>
  BY DEF st
<1> HIDE DEF x
<1>3. 1 \in 1..Len(x) /\ x[1] = st
  BY <1>2
<1>4. h \in 1..4 /\ h \notin 2..3
  OBVIOUS
<1>5. ReachesKid(t, n, rest, k, left, h, 1)
  BY <1>1, <1>3, <1>4 DEF ReachesKid, x
<1> QED BY <1>3, <1>4, <1>5 DEF Reachable, x

(* A step into a parameter.                                                *)
LEMMA ParamStep ==
  ASSUME NEW t, Good(t), NEW k \in NonRoot(t), NEW n, n = Above(t, k), n \in DOMAIN t,
         NEW h \in 2..3, TypeAt[h] = t[k].typ, NEW rest, rest # <<>>,
         NEW vals, NEW left, SegmentStep(t, k, rest) = Step(TRUE, k, vals, left)
  PROVE  Reachable(t, n, rest, k, left)
<1> DEFINE g == TypeAt[h]
           kids == t[n].kids[g]
           x == StepsOf(t, n, rest)[h]
           st == Step(TRUE, k, vals, left)
<1>1. st.open /\ st.kid = k /\ st.rest = left
  BY DEF Step
<1>2. x = SegmentSteps(t, kids, rest) /\ g \in {"Regexp", "Param"}
  BY KidSeriesFacts DEF KidSeries
<1>3. g \in NodeTypes
  BY <1>2 DEF NodeTypes
<1>4. PICK i \in 1..Len(kids) : kids[i] = k
  <2> HIDE DEF g
  <2>1. g = t[k].typ
    BY DEF g
  <2> QED BY <1>3, <2>1, ListedKid
<1>5. kids # <<>>
  <2>1. kids \in Seq(DOMAIN t)
    BY <1>3, KidsListed DEF Good, Typed
  <2> HIDE DEF kids
  <2>2. Len(kids) # 0
    BY <1>4, <2>1, LenProperties
  <2> QED BY <2>2
<1>6. ParamSeries(t, kids, rest, x)
  <2> HIDE DEF g
  <2> QED BY <1>2, <1>5, ParamSeriesFacts
<1> HIDE DEF x, st, g, kids
<1>7. i \in 1..Len(x) /\ x[i] = st
  <2>1. Len(kids) \in Nat /\ Len(x) = Len(kids) + 1 /\ x[i] = SegmentStep(t, kids[i], rest)
    BY <1>4, <1>6 DEF ParamSeries
  <2> QED BY <1>4, <2>1 DEF st
<1>8. h \in 1..4
  OBVIOUS
<1>9. ReachesKid(t, n, rest, k, left, h, i)
  BY <1>1, <1>4, <1>7 DEF ReachesKid, x, g, kids
<1> QED BY <1>7, <1>8, <1>9 DEF Reachable, x

(* What a pattern that matches is to take next, a step takes.              *)
LEMMA FitReaches ==
  ASSUME NEW t, Good(t), NEW k \in NonRoot(t), NEW p, NEW path, NEW vals, FitsWell(p, path, vals),
         Len(k) <= Len(p), k = Name(p, Len(k)), NEW n, n = Above(t, k),
         NEW rest, rest = Drop(path, Mark(p, Len(n), vals)),
         NEW left, left = Drop(path, Mark(p, Len(k), vals))
  PROVE  Reachable(t, n, rest, k, left)
<1> DEFINE i == Len(n)
           z == Size(t[k])
           a == Mark(p, i, vals)
           len == Len(path)
<1>1. Filling(p, path, vals) /\ p \in Seq(Letters) /\ Parses(p) /\ path \in Seq(Chars) /\ Len(p) \in Nat
  BY FillingFacts DEF FitsWell, Filling
<1>2. len \in Nat
  BY <1>1, LenProperties
<1>3. n \in DOMAIN t
  BY PlaceFacts DEF Good
<1>4. /\ i \in 0..(Len(p) - 1)
      /\ Segment(t, k) = TokenSegment(p, i + 1) /\ t[k].typ = TypeOf(p[i + 1])
      /\ Len(k) = i + z /\ z \in Nat
      /\ t[k].typ = "Static" => \A j \in 1..z : ~ Wild(p[i + j]) /\ p[i + j] = t[k].prefix[j]
  <2>1. /\ Len(Above(t, k)) \in 0..(Len(p) - 1)
        /\ Segment(t, k) = TokenSegment(p, Len(Above(t, k)) + 1)
        /\ t[k].typ = TypeOf(p[Len(Above(t, k)) + 1])
        /\ Len(k) = Len(Above(t, k)) + Size(t[k]) /\ Size(t[k]) \in Nat
        /\ t[k].typ = "Static" => \A j \in 1..Size(t[k]) :
             ~ Wild(p[Len(Above(t, k)) + j]) /\ p[Len(Above(t, k)) + j] = t[k].prefix[j]
    BY <1>1, NamedTokens
  <2> QED BY <2>1
<1>5. a \in 0..len
  <2>1. i \in 0..Len(p)
    BY <1>1, <1>4
  <2> QED BY <1>1, <2>1, MarkWithin
<1>6. rest \in Seq(Chars) /\ Len(rest) = len - a /\ \A j \in 1..(len - a) : rest[j] = path[a + j]
  <2> HIDE DEF a
  <2> QED BY <1>1, <1>5, DropFacts DEF a
<1>7. t[k].typ \in NodeTypes
  <2>1. t[k] \in NodesOver(DOMAIN t)
    BY DEF Good, Typed, NonRoot
  <2> QED BY <2>1 DEF NodesOver
<1>8. TypeAt[1] = "Static" /\ TypeAt[2] = "Regexp" /\ TypeAt[3] = "Param" /\ TypeAt[4] = "CatchAll"
  BY DEF TypeAt
<1>9. CASE t[k].typ = "Static"
  <2> HIDE DEF z, i
  <2>1. z \in 0..(Len(p) - i) /\ i \in 0..Len(p)
    BY <1>1, <1>4
  <2>2. TextAt(p, i, path, vals, z)
    BY <1>1, <1>4, <1>9, <2>1, MarkText
  <2>3. Mark(p, Len(k), vals) = a + z /\ z <= len - a /\ \A j \in 1..z : path[a + j] = p[i + j]
    BY <1>4, <2>2 DEF TextAt
  <2> HIDE DEF a, len
  <2>4. z <= Len(rest) /\ z \in 0..(len - a)
    BY <1>2, <1>4, <1>5, <1>6, <2>3
  <2>5. \A j \in 1..z : rest[j] = t[k].prefix[j]
    <3>1. \A j \in 1..z : j \in 1..(len - a)
      BY <1>2, <1>5, <2>4
    <3> QED BY <1>4, <1>6, <1>9, <2>3, <3>1
  <2>6. StaticSteps(t, t[n].kids["Static"], rest) = <<Step(TRUE, k, <<>>, Drop(rest, z))>>
    BY <1>3, <1>6, <1>9, <2>4, <2>5, StaticReach DEF z
  <2>7. Drop(rest, z) = left
    <3>1. Drop(Drop(path, a), z) = Drop(path, a + z)
      BY <1>1, <1>5, <2>4, DropPiece DEF len
    <3> QED BY <2>3, <3>1 DEF a, i
  <2>8. StepsOf(t, n, rest)[1] = <<Step(TRUE, k, <<>>, left)>>
    <3>1. KidSeries(t, n, rest)
      BY KidSeriesFacts
    <3>2. StepsOf(t, n, rest)[1] = StaticSteps(t, t[n].kids["Static"], rest)
      BY <3>1 DEF KidSeries
    <3> QED BY <2>6, <2>7, <3>2
  <2>9. 1 \in {1, 4}
    OBVIOUS
  <2> QED BY <1>8, <1>9, <2>8, <2>9, SingleStep
<1>10. ASSUME t[k].typ # "Static"
       PROVE  \E w, e : /\ w = Taking(p, i + 1, vals) /\ e = Len(w)
                        /\ e \in 0..Len(rest) /\ SubSeq(rest, 1, e) = w
                        /\ Drop(rest, e) = left
                        /\ Wild(p[i + 1]) /\ ValueFits(p, i + 1, w)
                        /\ SegFits(Segment(t, k), w)
                        /\ Mark(p, Len(k), vals) = Mark(p, i + 1, vals) /\ Len(k) = i + 1
  <2>1. z = 1
    BY <1>10 DEF Size
  <2> DEFINE w == Taking(p, i + 1, vals)
             e == Len(w)
             x == p[i + 1]
  <2>2. MarkedAt(p, i, path, vals, w)
    BY <1>1, <1>4, MarkStep
  <2>3. i + 1 \in 1..Len(p)
    BY <1>1, <1>4
  <2>4. x \in Letters
    <3> DEFINE q == i + 1
    <3> HIDE DEF q
    <3>1. q \in 1..Len(p)
      BY <2>3 DEF q
    <3>2. p[q] \in Letters
      BY <1>1, <3>1, ElementOfSeq
    <3> QED BY <3>2 DEF q
  <2>5. Wild(x)
    <3>1. TypeOf(x) # "Static"
      BY <1>4, <1>10
    <3> HIDE DEF x
    <3> QED BY <2>4, <3>1, LetterFacts
  <2>6. ValueFits(p, i + 1, w)
    BY <2>3, <2>5 DEF FitsWell, Taking
  <2> HIDE DEF w, i, z
  <2>7. SegFits(Segment(t, k), w)
    <3> DEFINE q == i + 1
    <3>1. q \in 1..Len(p) /\ Wild(p[q]) /\ ValueFits(p, q, w)
      BY <2>3, <2>5, <2>6
    <3> HIDE DEF q
    <3>2. SegFits(TokenSegment(p, q), w)
      BY <1>1, <3>1, FitsToken
    <3> QED BY <1>4, <3>2 DEF q
  <2>8. Len(k) = i + 1
    BY <1>4, <2>1
  <2>9. /\ e \in 0..(len - a) /\ Mark(p, i + 1, vals) = a + e
        /\ SubSeq(path, a + 1, a + e) = w
    BY <2>2 DEF MarkedAt
  <2> HIDE DEF a, e
  <2>10. e \in 0..Len(rest)
    BY <1>6, <2>9
  <2>11. SubSeq(Drop(path, a), 1, e) = SubSeq(path, a + 1, a + e) /\ Drop(Drop(path, a), e) = Drop(path, a + e)
    BY <1>1, <1>5, <2>9, DropPiece
  <2>12. rest = Drop(path, a)
    BY DEF a, i
  <2>13. SubSeq(rest, 1, e) = w /\ Drop(rest, e) = left
    BY <2>8, <2>9, <2>11, <2>12
  <2> QED BY <2>5, <2>6, <2>7, <2>8, <2>10, <2>13 DEF e, w
<1>11. CASE t[k].typ = "CatchAll"
  <2>1. Len(k) = i + 1
    BY <1>10, <1>11
  <2>2. i + 1 = Len(p)
    <3> DEFINE q == i + 1
    <3>1. q \in 1..Len(p)
      BY <1>1, <1>4
    <3>2. TypeOf(p[q]) = "CatchAll"
      BY <1>4, <1>11
    <3> HIDE DEF q, i
    <3>3. p[q] \in Letters
      BY <1>1, <3>1, ElementOfSeq
    <3> DEFINE x == p[q]
    <3>4. x \in Letters /\ TypeOf(x) = "CatchAll"
      BY <3>2, <3>3
    <3> HIDE DEF x
    <3>5. x = "*"
      BY <3>4, LetterFacts
    <3>6. p[q] = "*"
      BY <3>5 DEF x
    <3>7. q = Len(p)
      BY <1>1, <3>1, <3>6, ParsedToken
    <3> QED BY <3>7 DEF q
  <2>3. left = <<>>
    <3>1. Mark(p, Len(k), vals) = Len(path)
      BY <1>1, <2>1, <2>2, MarkEnds
    <3> HIDE DEF len
    <3>2. len \in 0..len
      BY <1>2
    <3>3. left = Drop(path, len)
      BY <3>1 DEF len
    <3>4. left \in Seq(Chars) /\ Len(left) = len - len
      BY <1>1, <3>2, <3>3, DropFacts DEF len
    <3> QED BY <1>2, <3>4, EmptySeq
  <2>4. StepsOf(t, n, rest)[4] = <<Step(TRUE, k, <<rest>>, <<>>)>>
    <3>1. CatchAllSteps(t[n].kids["CatchAll"], rest) = <<Step(TRUE, k, <<rest>>, <<>>)>>
      <4>1. TakesAll(t, n, k, rest)
        BY <1>3, <1>11, CatchReach
      <4> QED BY <4>1 DEF TakesAll
    <3>2. KidSeries(t, n, rest)
      BY KidSeriesFacts
    <3>3. StepsOf(t, n, rest)[4] = CatchAllSteps(t[n].kids["CatchAll"], rest)
      BY <3>2 DEF KidSeries
    <3> QED BY <3>1, <3>3
  <2>5. 4 \in {1, 4}
    OBVIOUS
  <2> QED BY <1>8, <1>11, <2>3, <2>4, <2>5, SingleStep
<1>12. CASE t[k].typ \in {"Regexp", "Param"}
  <2>1. PICK w, e : /\ w = Taking(p, i + 1, vals) /\ e = Len(w)
                    /\ e \in 0..Len(rest) /\ SubSeq(rest, 1, e) = w
                    /\ Drop(rest, e) = left
                    /\ Wild(p[i + 1]) /\ ValueFits(p, i + 1, w)
                    /\ SegFits(Segment(t, k), w)
    BY <1>10, <1>12
  <2>2. TypeOf(p[i + 1]) \in {"Regexp", "Param"}
    BY <1>4, <1>12
  <2>3. t[k].tail = TailOf(p, i + 1)
    <3>1. Named(t, k)
      BY DEF Good, AllNamed
    <3>2. t[k].tail = Segment(t, k)[2]
      BY <3>1 DEF Named
    <3> QED BY <1>4, <3>2 DEF TokenSegment
  <2>4. ValueEnd(t[k], rest) = e
    <3> DEFINE node == t[k]
    <3>1. node.tail = TailOf(p, i + 1)
      BY <2>3
    <3> HIDE DEF node
    <3>2. ValueEnd(node, rest) = Len(w)
      BY <1>4, <2>1, <2>2, <3>1, ParamEnd
    <3> QED BY <2>1, <3>2 DEF node
  <2>5. SegmentStep(t, k, rest) = Step(TRUE, k, <<SubSeq(rest, 1, e)>>, Drop(rest, e))
    <3>1. SegFits(Segment(t, k), SubSeq(rest, 1, e)) /\ e \in 0..Len(rest) /\ e = ValueEnd(t[k], rest)
      BY <2>1, <2>4
    <3>2. rest \in Seq(Chars)
      BY <1>6
    <3>3. GoesInto(t, k, rest, e)
      BY <1>12, <3>1, <3>2, SegmentReach
    <3> QED BY <3>3 DEF GoesInto
  <2>6. SegmentStep(t, k, rest) = Step(TRUE, k, <<w>>, left)
    BY <2>1, <2>5
  <2>7. rest # <<>>
    <3>1. ValueEnd(t[k], rest) = e
      BY <2>4
    <3> DEFINE seg == Segment(t, k)
    <3>2. w # <<>>
      <4>1. p[i + 1] # "*"
        <5>1. TypeOf("*") = "CatchAll"
          BY TokenAssumption DEF TypeOf
        <5> QED BY <2>2, <5>1
      <4> QED BY <2>1, <4>1 DEF ValueFits
    <3>3. w = SubSeq(rest, 1, e) /\ e \in 0..Len(rest)
      BY <2>1
    <3>4. w \in Seq(Chars) /\ Len(w) = e
      BY <1>6, <3>3, BeginFacts
    <3>5. e # 0
      BY <3>2, <3>4, EmptySeq
    <3>6. Len(rest) # 0
      BY <1>6, <3>3, <3>5
    <3> QED BY <3>6
  <2>8. PICK h \in 2..3 : TypeAt[h] = t[k].typ
    <3>1. 2 \in 2..3 /\ 3 \in 2..3
      OBVIOUS
    <3> QED BY <1>8, <1>12, <3>1
  <2> QED BY <1>3, <2>6, <2>7, <2>8, ParamStep
<1> QED BY <1>7, <1>9, <1>11, <1>12 DEF NodeTypes

-----------------------------------------------------------------------------
(* Every match is found                                                    *)

(* A pattern of the method l that matches has come to the node n, and rest *)
(* is what it is to take behind it.                                        *)
Matching(t, l, n, p, path, vals, rest) ==
  /\ FitsWell(p, path, vals) /\ Holds(t, l, p)
  /\ Len(n) < Len(p) /\ n = Name(p, Len(n))
  /\ rest = Drop(path, Mark(p, Len(n), vals))

(* It goes on to the node k, with the rest left; or it ends there.         *)
Onward(t, l, n, p, path, vals, rest, k, left) ==
  /\ k \in NonRoot(t) /\ Above(t, k) = n /\ Len(n) < Len(k) /\ Len(k) <= Len(p)
  /\ k = Name(p, Len(k)) /\ left \in Seq(Chars) /\ Reachable(t, n, rest, k, left)
  /\ Len(k) = Len(p) => left = <<>> /\ t[k].eps[l] = p /\ p # None
  /\ Len(k) # Len(p) => Matching(t, l, k, p, path, vals, left)

(* A search for what matches goes on to the next node of its way.          *)
LEMMA GoesOnward ==
  ASSUME NEW t, Good(t), NEW l, NEW n \in DOMAIN t, NEW p, NEW path, NEW vals, NEW rest,
         Matching(t, l, n, p, path, vals, rest)
  PROVE  \E k, left : Onward(t, l, n, p, path, vals, rest, k, left)
<1> DEFINE last == Name(p, Len(p))
<1>1. FitsWell(p, path, vals) /\ Holds(t, l, p) /\ Len(n) < Len(p) /\ n = Name(p, Len(n))
  BY DEF Matching
<1>2. Filling(p, path, vals) /\ path \in Seq(Chars)
  BY <1>1 DEF FitsWell, Filling
<1>3. p \in Seq(Letters) /\ Parses(p) /\ Len(p) \in Nat
  BY <1>2, FillingFacts DEF Filling
<1>4. last \in DOMAIN t /\ t[last].eps[l] = p /\ p # None
  <2>1. Acceptable(p)
    BY <1>1 DEF Holds
  <2>2. p # None
    BY <2>1 DEF Acceptable, BeginsWithSlash, None
  <2> QED BY <1>1, <2>2 DEF Holds
<1>5. Len(last) = Len(p) /\ \A j \in 0..Len(p) : Upto(last, j) = Name(p, j)
  <2>1. Len(p) \in 0..Len(p) /\ Closed(p, Len(p))
    BY <1>3, ParsedClosed
  <2> QED BY <1>3, <2>1, NameFacts
<1>6. Len(n) \in 0..Len(p)
  <2>1. Len(n) \in Nat
    <3>1. n \in Seq(Segs)
      BY DEF Good, Typed
    <3> QED BY <3>1, LenProperties
  <2> QED BY <1>1, <1>3, <2>1
<1>7. Leads(n, last) /\ n # last
  <2>1. Upto(last, Len(n)) = n
    BY <1>1, <1>5, <1>6
  <2>2. n # last
    BY <1>1, <1>3, <1>5, <1>6
  <2>3. Len(n) <= Len(last)
    BY <1>5, <1>6
  <2> QED BY <2>1, <2>2, <2>3 DEF Leads
<1>8. PICK k : Toward(t, n, last, k)
  <2> HIDE DEF last
  <2> QED BY <1>4, <1>7, KidToward DEF Good
<1>9. k \in NonRoot(t) /\ Above(t, k) = n /\ Len(n) < Len(k) /\ Len(k) <= Len(last) /\ Upto(last, Len(k)) = k
  BY <1>8 DEF Toward, Leads
<1> HIDE DEF last
<1>10. Len(k) \in 0..Len(p) /\ k = Name(p, Len(k))
  <2>1. Len(k) \in Nat
    <3>1. k \in Seq(Segs)
      BY <1>9 DEF Good, Typed, NonRoot
    <3> QED BY <3>1, LenProperties
  <2>2. Len(k) \in 0..Len(p)
    BY <1>3, <1>5, <1>9, <2>1
  <2> QED BY <1>5, <1>9, <2>2
<1> DEFINE left == Drop(path, Mark(p, Len(k), vals))
<1>11. Mark(p, Len(k), vals) \in 0..Len(path)
  BY <1>2, <1>10, MarkWithin
<1>12. left \in Seq(Chars) /\ Len(left) = Len(path) - Mark(p, Len(k), vals)
  BY <1>2, <1>11, DropFacts
<1>13. Reachable(t, n, rest, k, left)
  <2>1. rest = Drop(path, Mark(p, Len(n), vals)) /\ Len(k) <= Len(p)
    BY <1>3, <1>10 DEF Matching
  <2> QED BY <1>1, <1>9, <1>10, <2>1, FitReaches
<1>14. Len(k) = Len(p) => left = <<>> /\ t[k].eps[l] = p /\ p # None
  <2>1. SUFFICES ASSUME Len(k) = Len(p)
                 PROVE  left = <<>> /\ t[k].eps[l] = p /\ p # None
    OBVIOUS
  <2>2. k = last
    BY <1>10, <2>1 DEF last
  <2>3. Mark(p, Len(k), vals) = Len(path)
    BY <1>2, <2>1, MarkEnds
  <2> HIDE DEF left
  <2>4. Len(left) = 0
    BY <1>2, <1>12, <2>3, LenProperties
  <2>5. left = <<>>
    BY <1>12, <2>4, EmptySeq
  <2> QED BY <1>4, <2>2, <2>5
<1>15. Len(k) # Len(p) => Matching(t, l, k, p, path, vals, left)
  <2>1. Len(k) # Len(p) => Len(k) < Len(p)
    BY <1>3, <1>10
  <2> QED BY <1>1, <1>10, <2>1 DEF Matching
<1>16. Len(k) <= Len(p)
  BY <1>3, <1>10
<1> HIDE DEF left
<1> QED BY <1>9, <1>10, <1>12, <1>13, <1>14, <1>15, <1>16 DEF Onward

(* A search finds what matches in no more than i tokens, or has a hint.    *)
Seen(m, l, r) == r.hit \/ (l # m /\ r.hint)

Complete(t, m, F, i) ==
  \A n \in DOMAIN t, l \in Methods : \A p, path, vals, rest :
    Matching(t, l, n, p, path, vals, rest) /\ Len(p) - Len(n) <= i => Seen(m, l, F[<<n, rest>>])

(* The step that goes on with it finds it, or what is found below it.      *)
LEMMA StepSees ==
  ASSUME NEW t, Good(t), NEW m \in Methods, NEW F \in Searches(t), NEW i \in Nat, Complete(t, m, F, i),
         NEW l \in Methods, NEW n \in DOMAIN t, NEW p, NEW path, NEW vals, NEW rest, NEW k, NEW left,
         Onward(t, l, n, p, path, vals, rest, k, left), Len(p) \in Nat, Len(p) - Len(n) <= i + 1,
         NEW st \in StepsOver(t), st.open, st.kid = k, st.rest = left,
         NEW o, o = Outcome(t, st, m, F)
  PROVE  Seen(m, l, o)
<1>1. OutcomeWell(t, st, m, F, o)
  BY OutcomeFacts
<1>2. /\ k \in NonRoot(t) /\ k \in DOMAIN t /\ Len(n) < Len(k) /\ Len(k) <= Len(p)
      /\ Len(k) \in Nat /\ Len(n) \in Nat /\ left \in Seq(Chars)
  <2>1. k \in Seq(Segs) /\ n \in Seq(Segs)
    BY DEF Onward, Good, Typed, NonRoot
  <2> QED BY <2>1, LenProperties DEF Onward, NonRoot
<1>3. CASE left = <<>> /\ t[k].eps[m] # None
  <2>1. o.hit
    BY <1>1, <1>3 DEF OutcomeWell
  <2> QED BY <2>1 DEF Seen
<1>4. CASE ~ (left = <<>> /\ t[k].eps[m] # None)
  <2> DEFINE deep == F[<<k, left>>]
  <2>1. /\ o.hit = deep.hit
        /\ o.hint <=> deep.hint \/ (left = <<>> /\ IsLeaf(t[k]))
    BY <1>1, <1>4 DEF OutcomeWell
  <2>2. CASE Len(k) = Len(p)
    <3>1. left = <<>> /\ t[k].eps[l] = p /\ p # None
      BY <2>2 DEF Onward
    <3>2. l # m
      BY <1>4, <3>1
    <3>3. IsLeaf(t[k])
      BY <3>1 DEF IsLeaf, NoEndpoints
    <3> QED BY <2>1, <3>1, <3>2, <3>3 DEF Seen
  <2>3. CASE Len(k) # Len(p)
    <3>1. Matching(t, l, k, p, path, vals, left)
      BY <2>3 DEF Onward
    <3>2. Len(p) - Len(k) <= i
      BY <1>2
    <3>3. Seen(m, l, deep)
      BY <1>2, <3>1, <3>2 DEF Complete
    <3>4. deep.hit \in BOOLEAN /\ deep.hint \in BOOLEAN
      <4>1. <<k, left>> \in (DOMAIN t) \X Seq(Chars)
        BY <1>2
      <4>2. deep \in Results
        BY <4>1 DEF Searches
      <4> HIDE DEF deep
      <4> QED BY <4>2 DEF Results
    <3> HIDE DEF deep
    <3> QED BY <2>1, <3>3 DEF Seen
  <2> QED BY <2>2, <2>3
<1> QED BY <1>3, <1>4

(* So does the series of steps that it is one of.                          *)
LEMMA SeriesSees ==
  ASSUME NEW t, Good(t), NEW m \in Methods, NEW F \in Searches(t), NEW i \in Nat, Complete(t, m, F, i),
         NEW l \in Methods, NEW n \in DOMAIN t, NEW p, NEW path, NEW vals, NEW rest \in Seq(Chars),
         Matching(t, l, n, p, path, vals, rest), Len(p) - Len(n) <= i + 1,
         NEW r, FirstWell(t, Steps(t, n, rest), m, F, r)
  PROVE  Seen(m, l, r)
<1>1. PICK k, left : Onward(t, l, n, p, path, vals, rest, k, left)
  BY GoesOnward
<1>2. Len(p) \in Nat
  <2>1. p \in Seq(Letters)
    BY DEF Matching, FitsWell, Filling
  <2> QED BY <2>1, LenProperties
<1> DEFINE X == StepsOf(t, n, rest)
           steps == Steps(t, n, rest)
<1>3. PICK h \in 1..4 : \E j \in 1..Len(X[h]) : ReachesKid(t, n, rest, k, left, h, j)
  BY <1>1 DEF Onward, Reachable
<1>4. PICK j \in 1..Len(X[h]) : ReachesKid(t, n, rest, k, left, h, j)
  BY <1>3
<1>5. PICK s : s = PlaceIn(X, h, j)
  OBVIOUS
<1>6. s \in 1..Len(steps) /\ steps[s] = X[h][j]
  <2>1. InARow(X, steps)
    BY SeriesFacts
  <2> HIDE DEF X, steps
  <2> QED BY <1>5, <2>1 DEF InARow
<1>7. PICK st : st = steps[s]
  OBVIOUS
<1>8. st.open /\ st.kid = k /\ st.rest = left
  BY <1>4, <1>6, <1>7 DEF ReachesKid
<1>9. st \in StepsOver(t)
  <2>1. steps \in Seq(StepsOver(t))
    BY StepsAreSteps
  <2> HIDE DEF steps
  <2> QED BY <1>6, <1>7, <2>1, ElementOfSeq
<1>10. PICK o : o = Outcome(t, st, m, F)
  OBVIOUS
<1>11. Seen(m, l, o)
  BY <1>1, <1>2, <1>8, <1>9, <1>10, StepSees
<1>12. ~ r.hit => ~ o.hit /\ (o.hint => r.hint)
  <2>1. ~ r.hit => \A x \in 1..Len(steps) : /\ ~ Outcome(t, steps[x], m, F).hit
                                            /\ Outcome(t, steps[x], m, F).hint => r.hint
    BY DEF FirstWell
  <2> HIDE DEF steps
  <2> QED BY <1>6, <1>7, <1>10, <2>1
<1> QED BY <1>11, <1>12 DEF Seen

(* Each level of the search sees one token more.                           *)
LEMMA LevelsComplete ==
  ASSUME NEW t, Good(t), NEW m \in Methods, NEW f, LevelsOf(f, t, m)
  PROVE  \A i \in Nat : Complete(t, m, f[i], i)
<1> DEFINE N == {i \in Nat : Complete(t, m, f[i], i)}
<1>1. 0 \in N
  <2>1. ASSUME NEW n \in DOMAIN t, NEW l, NEW p, NEW path, NEW vals, NEW rest,
               Matching(t, l, n, p, path, vals, rest), Len(p) - Len(n) <= 0
        PROVE  FALSE
    <3>1. p \in Seq(Letters) /\ n \in Seq(Segs) /\ Len(n) < Len(p)
      BY <2>1 DEF Matching, FitsWell, Filling, Good, Typed
    <3>2. Len(p) \in Nat /\ Len(n) \in Nat
      BY <3>1, LenProperties
    <3> QED BY <2>1, <3>1, <3>2
  <2>2. Complete(t, m, f[0], 0)
    BY <2>1 DEF Complete
  <2> QED BY <2>2
<1>2. ASSUME NEW i \in N PROVE i + 1 \in N
  <2>1. i \in Nat /\ Complete(t, m, f[i], i) /\ f[i] \in Searches(t)
    BY LevelFacts
  <2>2. ASSUME NEW n \in DOMAIN t, NEW l \in Methods, NEW p, NEW path, NEW vals, NEW rest,
               Matching(t, l, n, p, path, vals, rest), Len(p) - Len(n) <= i + 1
        PROVE  Seen(m, l, f[i + 1][<<n, rest>>])
    <3> DEFINE F == f[i]
               r == f[i + 1][<<n, rest>>]
    <3>1. rest \in Seq(Chars)
      <4>1. Filling(p, path, vals) /\ path \in Seq(Chars) /\ p \in Seq(Letters) /\ n \in Seq(Segs)
            /\ Len(n) < Len(p) /\ rest = Drop(path, Mark(p, Len(n), vals))
        BY <2>2 DEF Matching, FitsWell, Filling, Good, Typed
      <4>2. Len(n) \in 0..Len(p)
        BY <4>1, LenProperties
      <4>3. Mark(p, Len(n), vals) \in 0..Len(path)
        BY <4>1, <4>2, MarkWithin
      <4> QED BY <4>1, <4>3, DropFacts
    <3>2. FirstWell(t, Steps(t, n, rest), m, F, r)
      BY <2>1, <3>1, LevelFacts
    <3>3. F \in Searches(t) /\ Complete(t, m, F, i) /\ i \in Nat
      BY <2>1
    <3> HIDE DEF F, r, N
    <3>4. Seen(m, l, r)
      BY <2>2, <3>1, <3>2, <3>3, SeriesSees
    <3> QED BY <3>4 DEF r
  <2>3. Complete(t, m, f[i + 1], i + 1)
    BY <2>2 DEF Complete
  <2> QED BY <2>1, <2>3
<1>3. Nat \subseteq N
  <2> HIDE DEF N
  <2> QED BY <1>1, <1>2, SetInduction
<1> QED BY <1>3

(* A pattern that matches begins at the root, with the whole path to take. *)
LEMMA RootMatching ==
  ASSUME NEW t, NEW l, NEW path \in Seq(Chars),
         NEW p, Holds(t, l, p), NEW vals \in ValuesFor(p, path), Fits(p, path, vals)
  PROVE  /\ Matching(t, l, <<>>, p, path, vals, path)
         /\ Len(p) - Len(<<>>) <= Height + 1 /\ Height \in Nat
<1>1. p \in AllPatterns /\ Acceptable(p)
  BY DEF Holds
<1>2. FitsWell(p, path, vals)
  BY <1>1, FitsIsWell
<1>3. Filling(p, path, vals)
  BY <1>2 DEF FitsWell
<1>4. p \in Seq(Letters) /\ Len(p) \in Nat /\ p # <<>>
  BY <1>1, <1>3, LenProperties DEF Filling, Acceptable, BeginsWithSlash
<1>5. Len(p) > 0 /\ Len(p) <= Height /\ Height \in Nat
  BY <1>1, <1>4, HeightFacts, EmptySeq
<1>6. Len(<<>>) = 0 /\ <<>> = Name(p, 0)
  BY DEF Name
<1>7. path = Drop(path, 0)
  <2>1. SubSeq(path, 1, Len(path)) = path
    BY SubSeqFull
  <2>2. 0 + 1 = 1
    OBVIOUS
  <2> QED BY <2>1, <2>2 DEF Drop
<1>8. Mark(p, 0, vals) = 0
  BY <1>3, MarkEnds
<1>9. Matching(t, l, <<>>, p, path, vals, path)
  BY <1>2, <1>5, <1>6, <1>7, <1>8 DEF Matching
<1>10. Len(p) - Len(<<>>) <= Height + 1
  BY <1>4, <1>5, <1>6
<1> QED BY <1>5, <1>9, <1>10

(* What matches is found by the whole search, or leaves a hint.            *)
LEMMA FindComplete ==
  ASSUME NEW t, Good(t), NEW m \in Methods, NEW l \in Methods, NEW path \in Seq(Chars),
         NEW p, Holds(t, l, p), NEW vals \in ValuesFor(p, path), Fits(p, path, vals)
  PROVE  Seen(m, l, Find(t, m, path))
<1>1. PICK f : /\ LevelsOf(f, t, m)
               /\ \A w \in Seq(Chars) : Find(t, m, w) = f[Height + 1][<< <<>>, w>>]
  BY FindLevels
<1> DEFINE h == Height + 1
           F == f[h]
<1>2. Matching(t, l, <<>>, p, path, vals, path) /\ Len(p) - Len(<<>>) <= h /\ h \in Nat
  <2>1. /\ Matching(t, l, <<>>, p, path, vals, path)
        /\ Len(p) - Len(<<>>) <= Height + 1 /\ Height \in Nat
    BY RootMatching
  <2> QED BY <2>1
<1>3. Find(t, m, path) = F[<< <<>>, path>>]
  BY <1>1
<1> HIDE DEF h
<1>4. Complete(t, m, F, h)
  BY <1>1, <1>2, LevelsComplete
<1>5. <<>> \in DOMAIN t
  BY DEF Good, Typed
<1> HIDE DEF F
<1>6. Seen(m, l, F[<< <<>>, path>>])
  BY <1>2, <1>4, <1>5 DEF Complete
<1> QED BY <1>3, <1>6

(* What matches a path matches it with some values.                        *)
LEMMA MatchesFacts ==
  ASSUME NEW p, NEW path \in Paths
  PROVE  /\ <<p, path>> \in Matches => \E vals \in ValuesFor(p, path) : Fits(p, path, vals)
         /\ p \in AllPatterns => \A vals : LoosePair(p, path, vals) => <<p, path>> \in LooseMatches
<1> DEFINE x == <<p, path>>
<1>1. x[1] = p /\ x[2] = path /\ (p \in AllPatterns => x \in AllPatterns \X Paths)
  OBVIOUS
<1> HIDE DEF x
<1>2. x \in Matches => \E vals \in ValuesFor(p, path) : Fits(p, path, vals)
  BY <1>1 DEF Matches
<1>3. ASSUME p \in AllPatterns, NEW vals, LoosePair(p, path, vals)
      PROVE  x \in LooseMatches
  BY <1>1, <1>3 DEF LooseMatches, LoosePair
<1> QED BY <1>2, <1>3 DEF x

(* In a good tree no match is missed.                                      *)
LEMMA GoodIsComplete == TreeInv => LookupComplete
<1>1. SUFFICES ASSUME Good(tree), NEW m \in Methods, NEW path \in Paths,
                      NEW p \in Registered(m), <<p, path>> \in Matches
               PROVE  FindRoute(m, path).hit
  BY DEF LookupComplete, TreeInv
<1>2. path \in Seq(Chars)
  BY PathsTyped
<1>3. Holds(tree, m, p)
  BY <1>1, RegisteredFacts
<1>4. PICK vals \in ValuesFor(p, path) : Fits(p, path, vals)
  BY <1>1, MatchesFacts
<1>5. Seen(m, m, Find(tree, m, path))
  BY <1>1, <1>2, <1>3, <1>4, FindComplete
<1> QED BY <1>5 DEF Seen, FindRoute

(* A lookup finds a handler whenever a registered pattern matches, however *)
(* many other branches it has to try and give up first.                    *)
THEOREM LookupIsComplete == Spec => []LookupComplete
<1> QED BY TreeInvHolds, GoodIsComplete, PTL

(* In a good tree the hint is right.                                       *)
LEMMA GoodIsExact == TreeInv => HintExact
<1> DEFINE others(m) == UNION {Registered(n) : n \in Methods \ {m}}
<1>1. SUFFICES ASSUME Good(tree), NEW m \in Methods, NEW path \in Paths, ~ FindRoute(m, path).hit
               PROVE  /\ (\E p \in others(m) : <<p, path>> \in Matches) => FindRoute(m, path).hint
                      /\ FindRoute(m, path).hint => \E p \in others(m) : <<p, path>> \in LooseMatches
  BY DEF HintExact, TreeInv
<1>2. path \in Seq(Chars)
  BY PathsTyped
<1>3. PICK r : r = Find(tree, m, path)
  OBVIOUS
<1>4. r = FindRoute(m, path) /\ ~ r.hit
  BY <1>1, <1>3 DEF FindRoute
<1>5. ASSUME NEW p \in others(m), <<p, path>> \in Matches
      PROVE  r.hint
  <2>1. PICK l \in Methods \ {m} : p \in Registered(l)
    OBVIOUS
  <2>2. Holds(tree, l, p)
    BY <1>1, <2>1, RegisteredFacts
  <2>3. PICK vals \in ValuesFor(p, path) : Fits(p, path, vals)
    BY <1>5, MatchesFacts
  <2>4. Seen(m, l, r)
    BY <1>1, <1>2, <1>3, <2>2, <2>3, FindComplete
  <2> QED BY <1>4, <2>4 DEF Seen
<1>6. ASSUME r.hint
      PROVE  \E p \in others(m) : <<p, path>> \in LooseMatches
  <2>1. FindRight(tree, m, path, r)
    BY <1>1, <1>2, <1>3, FindSound
  <2>2. PICK l \in Methods \ {m}, p \in AllPatterns, vals \in Seq(Seq(Chars)) :
          Holds(tree, l, p) /\ LoosePair(p, path, vals)
    BY <1>6, <2>1 DEF FindRight
  <2>3. p \in Registered(l)
    BY <1>1, <2>2, RegisteredFacts
  <2>4. p \in others(m)
    BY <2>3
  <2>5. <<p, path>> \in LooseMatches
    BY <2>2, MatchesFacts
  <2> QED BY <2>4, <2>5
<1> HIDE DEF others
<1> QED BY <1>4, <1>5, <1>6

(* The hint that decides between 404 and 405 is set when a pattern of      *)
(* another method matches, and only when one matches loosely.              *)
THEOREM HintIsExact == Spec => []HintExact
<1> QED BY TreeInvHolds, GoodIsExact, PTL

-----------------------------------------------------------------------------
(* The order of preference                                                 *)

(* How a token of this type ranks.                                         *)
RankOfType(type) ==
  IF type = "Static" THEN 1 ELSE IF type = "Regexp" THEN 2 ELSE IF type = "Param" THEN 3 ELSE 5

(* Tokens rank by their types, and the end before the wildcard only.       *)
LEMMA RankFacts ==
  ASSUME NEW p, OfTokens(p)
  PROVE  /\ \A i \in 1..Len(p) : /\ TypeOf(p[i]) \in NodeTypes
                                 /\ Rank(p, i) = RankOfType(TypeOf(p[i])) /\ Rank(p, i) \in 1..5
         /\ Rank(p, Len(p) + 1) = 4
<1>1. p \in Seq(Letters) /\ Parses(p) /\ Len(p) \in Nat
  BY DEF OfTokens
<1>2. ASSUME NEW i \in 1..Len(p)
      PROVE  /\ TypeOf(p[i]) \in NodeTypes
             /\ Rank(p, i) = RankOfType(TypeOf(p[i])) /\ Rank(p, i) \in 1..5
  <2> DEFINE type == TypeOf(p[i])
  <2>1. type \in NodeTypes
    BY <1>1, ParsedToken
  <2>2. ~ (i > Len(p))
    BY <1>1
  <2>3. Rank(p, i) = CASE type = "Static" -> 1 [] type = "Regexp" -> 2
                       [] type = "Param" -> 3 [] type = "CatchAll" -> 5
    BY <2>2 DEF Rank
  <2> HIDE DEF type
  <2>4. type = "Static" \/ type = "Regexp" \/ type = "Param" \/ type = "CatchAll"
    BY <2>1 DEF NodeTypes
  <2>5. Rank(p, i) = RankOfType(type) /\ Rank(p, i) \in 1..5
    BY <2>3, <2>4 DEF RankOfType
  <2> QED BY <2>1, <2>5 DEF type
<1>3. Len(p) + 1 > Len(p)
  BY <1>1
<1>4. Rank(p, Len(p) + 1) = 4
  BY <1>3 DEF Rank
<1> QED BY <1>2, <1>4

(* The patterns have the same parts up to i.                               *)
Alike(p, q, i) == \A x \in 1..i : Part(p[x]) = Part(q[x])

(* Tokens with the same part have the same type, rank and first character. *)
LEMMA SamePart ==
  ASSUME NEW p, OfTokens(p), NEW q, OfTokens(q), NEW i \in 1..Len(p), i \in 1..Len(q),
         Part(p[i]) = Part(q[i])
  PROVE  /\ TypeOf(p[i]) = TypeOf(q[i]) /\ Rank(p, i) = Rank(q, i)
         /\ CharOf(p[i]) = CharOf(q[i])
<1>1. p \in Seq(Letters) /\ Parses(p) /\ q \in Seq(Letters) /\ Parses(q)
  BY DEF OfTokens
<1>2. TypeOf(p[i]) = TypeOf(q[i])
  <2>1. PartType(Part(p[i])) = TypeOf(p[i])
    BY <1>1, ParsedToken
  <2>2. PartType(Part(q[i])) = TypeOf(q[i])
    BY <1>1, ParsedToken
  <2> QED BY <2>1, <2>2
<1>3. Rank(p, i) = Rank(q, i)
  BY <1>2, RankFacts
<1> DEFINE x == p[i]
           y == q[i]
<1>4. x \in Letters /\ x \notin Unclosed /\ y \in Letters /\ y \notin Unclosed
  BY <1>1, ParsedToken
<1>5. TypeOf(x) = TypeOf(y) /\ Part(x) = Part(y)
  BY <1>2
<1> HIDE DEF x, y
<1>6. CharOf(x) = CharOf(y)
  <2>1. CharOf(x) = CASE TypeOf(x) = "Static" -> Part(x)
                      [] TypeOf(x) = "CatchAll" -> "*"
                      [] OTHER -> "{"
    BY <1>4, PartFacts
  <2>2. CharOf(y) = CASE TypeOf(y) = "Static" -> Part(y)
                      [] TypeOf(y) = "CatchAll" -> "*"
                      [] OTHER -> "{"
    BY <1>4, PartFacts
  <2> QED BY <1>5, <2>1, <2>2
<1> QED BY <1>2, <1>3, <1>6 DEF x, y

(* Where a pattern is preferred, the patterns agree in front of it.        *)
PreferredAt(q, p, i) ==
  /\ i \in 1..Len(q) /\ i \in 1..(Len(p) + 1)
  /\ Alike(p, q, i - 1) /\ Rank(q, i) < Rank(p, i)
  /\ i > 1 => q[i - 1] \notin Regexps /\ Apart(p, i - 1)

(* A pattern that is preferred is preferred somewhere.                     *)
LEMMA PreferredSomewhere ==
  ASSUME NEW p, OfTokens(p), NEW q, OfTokens(q), MoreSpecific(q, p)
  PROVE  \E i : PreferredAt(q, p, i)
<1>1. PICK i \in 1..Len(q) :
        /\ i <= Len(p) + 1
        /\ SubSeq(Shape(q), 1, i - 1) = SubSeq(Shape(p), 1, i - 1)
        /\ Rank(q, i) < Rank(p, i)
        /\ i > 1 => q[i - 1] \notin Regexps /\ Apart(p, i - 1)
  BY DEF MoreSpecific
<1>2. Len(p) \in Nat /\ Len(q) \in Nat
  BY DEF OfTokens
<1> DEFINE j == i - 1
<1>3. j \in 0..Len(p) /\ j \in 0..Len(q) /\ i \in 1..(Len(p) + 1)
  BY <1>1, <1>2
<1>4. ASSUME NEW s, OfTokens(s), j \in 0..Len(s)
      PROVE  \A x \in 1..j : SubSeq(Shape(s), 1, j)[x] = Part(s[x])
  <2> DEFINE h == Shape(s)
             n == Len(s)
  <2>1. n \in Nat /\ s \in Seq(Letters) /\ Parses(s)
    BY <1>4 DEF OfTokens
  <2>2. \A x \in 1..n : Part(s[x]) \in Parts
    BY <2>1, ParsedToken, PartFacts
  <2>3. h = [x \in 1..n |-> Part(s[x])]
    BY DEF Shape
  <2>4. h \in [1..n -> Parts] /\ \A x \in 1..n : h[x] = Part(s[x])
    <3> HIDE DEF h, n
    <3> QED BY <2>2, <2>3
  <2>5. h \in Seq(Parts) /\ Len(h) = n
    <3> HIDE DEF h, n
    <3> QED BY <2>1, <2>4
  <2> HIDE DEF h, j
  <2>6. j \in 0..Len(h)
    BY <1>4, <2>5
  <2>7. \A x \in 1..j : SubSeq(h, 1, j)[x] = h[x]
    BY <2>5, <2>6, BeginFacts
  <2>8. \A x \in 1..j : x \in 1..n
    <3> HIDE DEF n
    <3>1. j \in 0..n
      BY <2>5, <2>6
    <3> QED BY <2>1, <3>1
  <2> QED BY <2>4, <2>7, <2>8 DEF h
<1>5. Alike(p, q, j)
  <2> HIDE DEF j
  <2>1. SubSeq(Shape(q), 1, j) = SubSeq(Shape(p), 1, j)
    BY <1>1 DEF j
  <2>2. \A x \in 1..j : SubSeq(Shape(p), 1, j)[x] = Part(p[x])
    BY <1>3, <1>4
  <2>3. \A x \in 1..j : SubSeq(Shape(q), 1, j)[x] = Part(q[x])
    BY <1>3, <1>4
  <2> QED BY <2>1, <2>2, <2>3 DEF Alike
<1> QED BY <1>1, <1>3, <1>5 DEF PreferredAt

(* The patterns agree in front of i, where the search prefers p to q.      *)
Before(p, q, i) ==
  /\ i \in 1..Len(p) /\ i \in 1..Len(q) /\ Alike(p, q, i - 1) /\ Rank(p, i) <= Rank(q, i)
  /\ Part(p[i]) = Part(q[i]) =>
       /\ TailOf(p, i) # TailOf(q, i)
       /\ \/ TypeOf(p[i]) = "Regexp"
          \/ TypeOf(p[i]) = "Param" /\ TailOf(p, i) # "/"

(* Then q is not preferred to p.                                           *)
LEMMA NotPreferred ==
  ASSUME NEW p, OfTokens(p), NEW q, OfTokens(q), NEW i, Before(p, q, i)
  PROVE  ~ MoreSpecific(q, p)
<1>1. SUFFICES ASSUME NEW x, PreferredAt(q, p, x)
               PROVE  FALSE
  BY PreferredSomewhere
<1>2. /\ p \in Seq(Letters) /\ Parses(p) /\ Len(p) \in Nat
      /\ q \in Seq(Letters) /\ Parses(q) /\ Len(q) \in Nat
  BY DEF OfTokens
<1>3. i \in 1..Len(p) /\ i \in 1..Len(q) /\ Alike(p, q, i - 1) /\ Rank(p, i) <= Rank(q, i)
  BY DEF Before
<1>4. /\ x \in 1..Len(q) /\ x \in 1..(Len(p) + 1) /\ Alike(p, q, x - 1) /\ Rank(q, x) < Rank(p, x)
      /\ x > 1 => q[x - 1] \notin Regexps /\ Apart(p, x - 1)
  BY <1>1 DEF PreferredAt
<1>5. Rank(p, i) \in 1..5 /\ Rank(q, i) \in 1..5
  BY <1>3, RankFacts
<1>6. x > i
  <2>1. CASE x < i
    <3>1. x \in 1..(i - 1) /\ x \in 1..Len(p)
      BY <1>2, <1>3, <1>4, <2>1
    <3>2. Rank(p, x) = Rank(q, x) /\ Rank(q, x) \in 1..5
      BY <1>3, <1>4, <3>1, SamePart, RankFacts DEF Alike
    <3> QED BY <1>4, <3>2
  <2>2. CASE x = i
    BY <1>3, <1>4, <1>5, <2>2
  <2> QED BY <1>3, <1>4, <2>1, <2>2
<1>7. Part(p[i]) = Part(q[i])
  <2>1. i \in 1..(x - 1)
    BY <1>3, <1>4, <1>6
  <2> QED BY <1>4, <2>1 DEF Alike
<1>8. /\ TailOf(p, i) # TailOf(q, i)
      /\ TypeOf(p[i]) = "Regexp" \/ (TypeOf(p[i]) = "Param" /\ TailOf(p, i) # "/")
  BY <1>7 DEF Before
<1>9. TypeOf(q[i]) = TypeOf(p[i])
  BY <1>3, <1>7, SamePart
<1>10. TailOf(p, i) = IF i < Len(p) THEN CharOf(p[i + 1]) ELSE "/"
  BY <1>2, <1>3, <1>8, TailFacts
<1>11. TailOf(q, i) = IF i < Len(q) THEN CharOf(q[i + 1]) ELSE "/"
  BY <1>2, <1>3, <1>8, <1>9, TailFacts
<1>12. i < Len(q) /\ i + 1 \in 1..Len(q)
  BY <1>2, <1>3, <1>4, <1>6
<1>13. CASE x = i + 1
  <2>1. x - 1 = i /\ x > 1
    BY <1>3, <1>13
  <2>2. q[i] \notin Regexps /\ Apart(p, i)
    BY <1>4, <2>1
  <2>3. TypeOf(p[i]) = "Param"
    <3>1. q[i] \in Letters
      BY <1>2, <1>3, ParsedToken
    <3>2. TypeOf(q[i]) # "Regexp"
      BY <2>2, <3>1, LetterFacts
    <3> QED BY <1>8, <1>9, <3>2
  <2>4. TailOf(p, i) # "/"
    BY <1>8, <2>3
  <2>5. i < Len(p) /\ i + 1 \in 1..Len(p)
    BY <1>2, <1>3, <1>10, <2>4
  <2>6. Wild(p[i])
    BY <2>3 DEF Wild
  <2>7. ~ Wild(p[i + 1])
    BY <2>2, <2>5, <2>6 DEF Apart
  <2>8. TypeOf(p[i + 1]) = "Static"
    BY <2>7 DEF Wild
  <2>9. Rank(p, i + 1) = 1
    BY <2>5, <2>8, RankFacts DEF RankOfType
  <2>10. Rank(q, i + 1) \in 1..5
    BY <1>12, RankFacts
  <2> QED BY <1>4, <1>13, <2>9, <2>10
<1>14. CASE x # i + 1
  <2>1. i + 1 \in 1..(x - 1) /\ i + 1 \in 1..Len(p) /\ i < Len(p)
    BY <1>2, <1>3, <1>4, <1>6, <1>14
  <2>2. Part(p[i + 1]) = Part(q[i + 1])
    BY <1>4, <2>1 DEF Alike
  <2>3. CharOf(p[i + 1]) = CharOf(q[i + 1])
    <3> DEFINE k == i + 1
    <3>1. k \in 1..Len(p) /\ k \in 1..Len(q) /\ Part(p[k]) = Part(q[k])
      BY <1>12, <2>1, <2>2
    <3> HIDE DEF k
    <3>2. CharOf(p[k]) = CharOf(q[k])
      BY <3>1, SamePart
    <3> QED BY <3>2 DEF k
  <2> QED BY <1>8, <1>10, <1>11, <1>12, <2>1, <2>3
<1> QED BY <1>13, <1>14

(* Nor is a pattern that goes on with a wildcard where p ends.             *)
LEMMA NotPreferredEnd ==
  ASSUME NEW p, OfTokens(p), NEW q, OfTokens(q), Len(p) < Len(q), Alike(p, q, Len(p)),
         q[Len(p) + 1] = "*"
  PROVE  ~ MoreSpecific(q, p)
<1>1. SUFFICES ASSUME NEW x, PreferredAt(q, p, x)
               PROVE  FALSE
  BY PreferredSomewhere
<1> DEFINE n == Len(p)
<1>2. n \in Nat /\ Len(q) \in Nat /\ q \in Seq(Letters) /\ Parses(q)
  BY DEF OfTokens
<1>3. x \in 1..Len(q) /\ x \in 1..(n + 1) /\ Rank(q, x) < Rank(p, x)
  BY <1>1 DEF PreferredAt
<1>4. CASE x \in 1..n
  <2>1. Part(p[x]) = Part(q[x])
    BY <1>4 DEF Alike
  <2>2. Rank(p, x) = Rank(q, x) /\ Rank(q, x) \in 1..5
    BY <1>3, <1>4, <2>1, SamePart, RankFacts
  <2> QED BY <1>3, <2>2
<1>5. CASE x = n + 1
  <2>1. x \in 1..Len(q) /\ q[x] = "*" /\ Rank(p, x) = 4
    BY <1>3, <1>5, RankFacts
  <2>2. TypeOf(q[x]) = "CatchAll"
    <3>1. q[x] \in Letters
      BY <1>2, <2>1, ParsedToken
    <3> QED BY <2>1, <3>1, LetterFacts
  <2>3. Rank(q, x) = 5
    BY <2>1, <2>2, RankFacts DEF RankOfType
  <2> QED BY <1>3, <2>1, <2>3
<1> QED BY <1>2, <1>3, <1>4, <1>5

(* A pattern is not preferred to itself.                                   *)
LEMMA NotPreferredSelf ==
  ASSUME NEW p, OfTokens(p)
  PROVE  ~ MoreSpecific(p, p)
<1>1. SUFFICES ASSUME NEW x, PreferredAt(p, p, x)
               PROVE  FALSE
  BY PreferredSomewhere
<1>2. x \in 1..Len(p) /\ Rank(p, x) < Rank(p, x)
  BY <1>1 DEF PreferredAt
<1>3. Rank(p, x) \in 1..5
  BY <1>2, RankFacts
<1> QED BY <1>2, <1>3

-----------------------------------------------------------------------------
(* Which child a step goes to                                              *)

(* The places of the steps are in the order of their types and children.   *)
LEMMA PlaceOrder ==
  ASSUME NEW X, \A h \in 1..4 : Len(X[h]) \in Nat,
         NEW g \in 1..4, NEW i \in 1..Len(X[g]), NEW h \in 1..4, NEW j \in 1..Len(X[h]),
         PlaceIn(X, g, i) <= PlaceIn(X, h, j)
  PROVE  g < h \/ (g = h /\ i <= j)
<1> DEFINE a == Len(X[1])
           b == Len(X[2])
           c == Len(X[3])
           d == Len(X[4])
<1>1. a \in Nat /\ b \in Nat /\ c \in Nat /\ d \in Nat
  OBVIOUS
<1>2. /\ Offset(X, 1) = 0 /\ Offset(X, 2) = a /\ Offset(X, 3) = a + b /\ Offset(X, 4) = a + b + c
  BY DEF Offset
<1>3. /\ g = 1 => i \in 1..a
      /\ g = 2 => i \in 1..b
      /\ g = 3 => i \in 1..c
      /\ g = 4 => i \in 1..d
      /\ h = 1 => j \in 1..a
      /\ h = 2 => j \in 1..b
      /\ h = 3 => j \in 1..c
      /\ h = 4 => j \in 1..d
  OBVIOUS
<1>4. Offset(X, g) + i <= Offset(X, h) + j
  BY DEF PlaceIn
<1>5. i \in Nat /\ j \in Nat
  OBVIOUS
<1> HIDE DEF a, b, c, d
<1>6. CASE g = 1
  BY <1>1, <1>2, <1>3, <1>4, <1>5, <1>6
<1>7. CASE g = 2
  BY <1>1, <1>2, <1>3, <1>4, <1>5, <1>7
<1>8. CASE g = 3
  BY <1>1, <1>2, <1>3, <1>4, <1>5, <1>8
<1>9. CASE g = 4
  BY <1>1, <1>2, <1>3, <1>4, <1>5, <1>9
<1> QED BY <1>6, <1>7, <1>8, <1>9

(* A step for text goes to a static child.                                 *)
LEMMA StaticKid ==
  ASSUME NEW t, Good(t), NEW n \in DOMAIN t, NEW path \in Seq(Chars),
         NEW steps, steps = StaticSteps(t, t[n].kids["Static"], path), NEW j \in 1..Len(steps)
  PROVE  t[steps[j].kid].typ = "Static"
<1> DEFINE kids == t[n].kids["Static"]
           edge == FindEdge(t, kids, path[1])
           k == kids[edge]
           yes == Step(TRUE, k, <<>>, Drop(path, Len(t[k].prefix)))
           st == IF IsPrefix(t[k].prefix, path) THEN yes ELSE NoStep(k)
<1>1. "Static" \in NodeTypes
  BY DEF NodeTypes
<1>2. path # <<>> /\ kids # <<>> /\ edge # 0 /\ steps = <<st>>
  <2>1. (path = <<>> \/ kids = <<>> \/ edge = 0) => steps = <<>>
    BY DEF StaticSteps
  <2>2. ~ (path = <<>> \/ kids = <<>> \/ edge = 0) => steps = <<st>>
    BY DEF StaticSteps
  <2>3. steps # <<>>
    <3>1. Len(<<>>) = 0
      OBVIOUS
    <3> QED BY <3>1
  <2> HIDE DEF kids, edge, st
  <2> QED BY <2>1, <2>2, <2>3
<1>3. path[1] \in Chars
  BY <1>2, EmptySeq, ElementOfSeq
<1>4. kids \in Seq(DOMAIN t) /\ \A x \in ToSet(kids) : t[x].label \in Chars
  <2>1. kids \in Seq(DOMAIN t)
    BY <1>1, KidsListed DEF Good, Typed
  <2>2. ASSUME NEW i \in 1..Len(kids)
        PROVE  t[kids[i]].label \in Chars
    <3> DEFINE x == kids[i]
    <3>1. t[x].typ = "Static" /\ Named(t, x) /\ Segment(t, x) \in Segs
      BY <1>1, KidFacts
    <3> HIDE DEF x
    <3>2. t[x].label \in Chars
      BY <3>1, SegmentFacts
    <3> QED BY <3>2 DEF x
  <2> HIDE DEF kids
  <2> QED BY <2>1, <2>2 DEF ToSet
<1>5. edge \in 1..Len(kids)
  <2>1. edge \in 0..Len(kids)
    <3> HIDE DEF kids
    <3> QED BY <1>3, <1>4, FindEdgeFacts
  <2> HIDE DEF edge
  <2> QED BY <1>2, <2>1
<1> HIDE DEF edge
<1>6. t[k].typ = "Static"
  BY <1>1, <1>5, KidFacts
<1>7. st.kid = k
  <2>1. yes.kid = k /\ NoStep(k).kid = k
    BY DEF Step, NoStep
  <2> HIDE DEF yes, k
  <2> QED BY <2>1
<1>8. steps[j] = st
  <2> HIDE DEF st
  <2>1. j = 1
    BY <1>2
  <2> QED BY <1>2, <2>1
<1> HIDE DEF st
<1> QED BY <1>6, <1>7, <1>8

(* A step for a parameter goes to the child that it is for.                *)
LEMMA SegmentKid ==
  ASSUME NEW t, NEW k, NEW path
  PROVE  SegmentStep(t, k, path).kid = k
<1> DEFINE n == ValueEnd(t[k], path)
           yes == Step(TRUE, k, <<SubSeq(path, 1, n)>>, Drop(path, n))
<1>1. SegmentStep(t, k, path) = yes \/ SegmentStep(t, k, path) = NoStep(k)
  BY DEF SegmentStep
<1>2. yes.kid = k /\ NoStep(k).kid = k
  BY DEF Step, NoStep
<1> HIDE DEF yes
<1> QED BY <1>1, <1>2

(* The j-th step of the h-th series goes to a child of that type: the j-th *)
(* one if it takes a parameter, and to the last one if it falls through.   *)
GoesTo(t, n, path, h, j, k) ==
  /\ t[k].typ = TypeAt[h]
  /\ h \in {1, 4} => j = 1
  /\ h \in 2..3 =>
       LET kids == t[n].kids[TypeAt[h]]
       IN  /\ Len(kids) \in Nat /\ j \in 1..(Len(kids) + 1)
           /\ j <= Len(kids) => k = kids[j]
           /\ j > Len(kids) => k = kids[Len(kids)]

(* Each step of a series goes to a child of the type of the series.        *)
LEMMA StepGoesTo ==
  ASSUME NEW t, Good(t), NEW n \in DOMAIN t, NEW path \in Seq(Chars), NEW h \in 1..4,
         NEW j \in 1..Len(StepsOf(t, n, path)[h])
  PROVE  GoesTo(t, n, path, h, j, StepsOf(t, n, path)[h][j].kid)
<1> DEFINE X == StepsOf(t, n, path)
           x == X[h]
           k == x[j].kid
<1>1. KidSeries(t, n, path)
  BY KidSeriesFacts
<1>2. CASE h = 1
  <2>1. x = StaticSteps(t, t[n].kids["Static"], path) /\ Len(x) <= 1
    BY <1>1, <1>2 DEF KidSeries
  <2>2. x[j].kid = k /\ j \in 1..Len(x)
    OBVIOUS
  <2> HIDE DEF x, k
  <2>3. t[k].typ = "Static"
    BY <2>1, <2>2, StaticKid
  <2>4. j = 1
    <3>1. x \in Seq(GoodSteps(t, n, path))
      BY <2>1, StaticStepsTyped
    <3>2. Len(x) \in Nat
      BY <3>1, LenProperties
    <3> QED BY <2>1, <2>2, <3>2
  <2>5. TypeAt[1] = "Static"
    BY DEF TypeAt
  <2>6. GoesTo(t, n, path, h, j, k)
    BY <1>2, <2>3, <2>4, <2>5 DEF GoesTo
  <2> QED BY <2>6 DEF k, x
<1>3. CASE h = 4
  <2> DEFINE kids == t[n].kids["CatchAll"]
             yes == Step(TRUE, kids[1], <<path>>, <<>>)
  <2>1. x = CatchAllSteps(kids, path) /\ j \in 1..Len(x)
    BY <1>1, <1>3 DEF KidSeries
  <2>2. kids # <<>> /\ x = <<yes>>
    <3>1. kids = <<>> => x = <<>>
      BY <2>1 DEF CatchAllSteps
    <3>2. kids # <<>> => x = <<yes>>
      BY <2>1 DEF CatchAllSteps
    <3>3. x # <<>>
      <4>1. Len(<<>>) = 0
        OBVIOUS
      <4> HIDE DEF x
      <4> QED BY <2>1, <4>1
    <3> HIDE DEF x, kids, yes
    <3> QED BY <3>1, <3>2, <3>3
  <2>3. j = 1 /\ x[j] = yes
    <3> HIDE DEF x, yes
    <3> QED BY <2>1, <2>2
  <2>4. yes.kid = kids[1]
    BY DEF Step
  <2>5. "CatchAll" \in NodeTypes /\ 1 \in 1..Len(kids)
    <3>1. "CatchAll" \in NodeTypes
      BY DEF NodeTypes
    <3>2. kids \in Seq(DOMAIN t)
      BY <3>1, KidsListed DEF Good, Typed
    <3> HIDE DEF kids
    <3>3. Len(kids) \in Nat /\ Len(kids) # 0
      BY <2>2, <3>2, EmptySeq, LenProperties
    <3> QED BY <3>1, <3>3
  <2>6. t[kids[1]].typ = "CatchAll"
    BY <2>5, KidFacts
  <2>7. TypeAt[4] = "CatchAll"
    BY DEF TypeAt
  <2> HIDE DEF x, yes, kids
  <2>8. k = kids[1]
    BY <2>3, <2>4
  <2> HIDE DEF k
  <2>9. GoesTo(t, n, path, h, j, k)
    BY <1>3, <2>3, <2>6, <2>7, <2>8 DEF GoesTo
  <2> QED BY <2>9 DEF k, x
<1>4. CASE h \in 2..3
  <2> DEFINE g == TypeAt[h]
             kids == t[n].kids[g]
             len == Len(kids)
  <2>1. x = SegmentSteps(t, kids, path) /\ g \in {"Regexp", "Param"} /\ j \in 1..Len(x)
    BY <1>1, <1>4 DEF KidSeries
  <2>2. g \in NodeTypes
    BY <2>1 DEF NodeTypes
  <2>3. path # <<>> /\ kids # <<>>
    <3>1. path = <<>> \/ kids = <<>> => x = <<>>
      BY <2>1 DEF SegmentSteps
    <3>2. Len(<<>>) = 0
      OBVIOUS
    <3> HIDE DEF x, kids
    <3>3. x # <<>>
      BY <2>1, <3>2
    <3> QED BY <3>1, <3>3
  <2>4. ParamSeries(t, kids, path, x)
    <3> HIDE DEF g
    <3> QED BY <2>1, <2>3, ParamSeriesFacts
  <2> HIDE DEF x
  <2>5. /\ len \in Nat /\ len >= 1 /\ j \in 1..(len + 1)
        /\ \A i \in 1..len : x[i] = SegmentStep(t, kids[i], path)
        /\ x[len + 1] = Step(TRUE, kids[len], << <<>> >>, path)
    BY <2>1, <2>4 DEF ParamSeries
  <2>6. j <= len => k = kids[j]
    <3>1. SUFFICES ASSUME j <= len PROVE k = kids[j]
      OBVIOUS
    <3> HIDE DEF kids, len
    <3>2. j \in 1..len
      BY <2>5, <3>1
    <3>3. x[j] = SegmentStep(t, kids[j], path)
      BY <2>5, <3>2
    <3> QED BY <3>3, SegmentKid
  <2>7. j > len => k = kids[len]
    <3>1. SUFFICES ASSUME j > len PROVE k = kids[len]
      OBVIOUS
    <3> HIDE DEF kids, len
    <3>2. j = len + 1
      BY <2>5, <3>1
    <3>3. x[j] = Step(TRUE, kids[len], << <<>> >>, path)
      BY <2>5, <3>2
    <3> QED BY <3>3 DEF Step
  <2>8. t[k].typ = g
    <3>1. ASSUME NEW i \in 1..len, k = kids[i]
          PROVE  t[k].typ = g
      <4> HIDE DEF g, k
      <4> QED BY <2>2, <3>1, KidFacts
    <3> HIDE DEF len, kids, k, g
    <3>2. len \in 1..len /\ (j <= len \/ j > len) /\ (j <= len => j \in 1..len)
      BY <2>5
    <3> QED BY <2>6, <2>7, <3>1, <3>2
  <2> HIDE DEF k
  <2>9. h \notin {1, 4}
    BY <1>4
  <2>10. GoesTo(t, n, path, h, j, k)
    BY <2>5, <2>6, <2>7, <2>8, <2>9 DEF GoesTo
  <2> QED BY <2>10 DEF k, x
<1>5. h = 1 \/ h = 4 \/ h \in 2..3
  OBVIOUS
<1> QED BY <1>2, <1>3, <1>4, <1>5

(* A hit behind a step is of a pattern that goes through its child.        *)
LEMMA HitThrough ==
  ASSUME NEW t, Good(t), NEW m \in Methods, NEW F \in Searches(t), Sound(t, m, F),
         NEW st \in StepsOver(t), NEW o, o = Outcome(t, st, m, F), o.hit
  PROVE  st.open /\ Lower(t, st.kid, o.pattern)
<1> DEFINE k == st.kid
           left == st.rest
           deep == F[<<k, left>>]
<1>1. OutcomeWell(t, st, m, F, o)
  BY OutcomeFacts
<1>2. k \in DOMAIN t /\ left \in Seq(Chars)
  BY DEF StepsOver
<1>3. st.open
  BY <1>1 DEF OutcomeWell
<1>4. CASE left = <<>> /\ t[k].eps[m] # None
  <2>1. o.pattern = t[k].eps[m]
    BY <1>1, <1>3, <1>4 DEF OutcomeWell
  <2>2. Lower(t, k, t[k].eps[m])
    <3> DEFINE p == t[k].eps[m]
    <3>1. p = t[k].eps[m] /\ p # None
      BY <1>4
    <3> HIDE DEF p
    <3>2. Leading(t, k, <<>>, m, p, <<>>)
      BY <1>2, <3>1, LeadingEnd
    <3>3. Lower(t, k, p)
      BY <3>2 DEF Leading
    <3> QED BY <3>3 DEF p
  <2> QED BY <1>3, <2>1, <2>2
<1>5. CASE ~ (left = <<>> /\ t[k].eps[m] # None)
  <2>1. deep.hit /\ o.pattern = deep.pattern
    BY <1>1, <1>3, <1>5 DEF OutcomeWell
  <2>2. HitWell(t, m, k, left, deep)
    BY <1>2 DEF Sound
  <2> HIDE DEF k, left, deep
  <2>3. Lower(t, k, deep.pattern)
    BY <2>1, <2>2 DEF HitWell, Leading
  <2> QED BY <1>3, <2>1, <2>3 DEF k
<1> QED BY <1>4, <1>5

(* Patterns that go through the same node agree so far.                    *)
LEMMA SameName ==
  ASSUME NEW p, OfTokens(p), NEW q, OfTokens(q), NEW i \in 0..Len(p), i \in 0..Len(q),
         Name(p, i) = Name(q, i)
  PROVE  Alike(p, q, i)
<1>1. p \in Seq(Letters) /\ Parses(p) /\ q \in Seq(Letters) /\ Parses(q)
  BY DEF OfTokens
<1>2. \A j \in 1..i : Name(p, i)[j] = <<Part(p[j]), TailOf(p, j)>>
  BY <1>1, ParsedClosed, NameFacts
<1>3. \A j \in 1..i : Name(q, i)[j] = <<Part(q[j]), TailOf(q, j)>>
  BY <1>1, ParsedClosed, NameFacts
<1>4. ASSUME NEW j \in 1..i PROVE Part(p[j]) = Part(q[j])
  <2>1. <<Part(p[j]), TailOf(p, j)>> = <<Part(q[j]), TailOf(q, j)>>
    BY <1>2, <1>3
  <2> QED BY <2>1
<1> QED BY <1>4 DEF Alike

(* The pattern p goes through the child k of n.                            *)
Through(t, n, k, p) ==
  /\ OfTokens(p) /\ k \in NonRoot(t) /\ Above(t, k) = n
  /\ Len(k) <= Len(p) /\ k = Name(p, Len(k))

(* The child k of n comes before the child l in the order of the search.   *)
Ahead(t, n, k, l) ==
  \E g, h \in 1..4 :
    /\ t[k].typ = TypeAt[g] /\ t[l].typ = TypeAt[h]
    /\ \/ g < h
       \/ /\ g = h /\ g \in 2..3
          /\ \E i, j \in 1..Len(t[n].kids[TypeAt[g]]) :
               i < j /\ k = t[n].kids[TypeAt[g]][i] /\ l = t[n].kids[TypeAt[g]][j]

(* What goes through it is before what goes through the other.             *)
LEMMA AheadIsBefore ==
  ASSUME NEW t, Good(t), NEW n \in DOMAIN t, NEW k, NEW l, NEW p, NEW q,
         Through(t, n, k, p), Through(t, n, l, q), Ahead(t, n, k, l)
  PROVE  Before(p, q, Len(n) + 1)
<1>1. /\ OfTokens(p) /\ k \in NonRoot(t) /\ Above(t, k) = n /\ Len(k) <= Len(p) /\ k = Name(p, Len(k))
      /\ OfTokens(q) /\ l \in NonRoot(t) /\ Above(t, l) = n /\ Len(l) <= Len(q) /\ l = Name(q, Len(l))
  BY DEF Through
<1>2. p \in Seq(Letters) /\ Parses(p) /\ Len(p) \in Nat /\ q \in Seq(Letters) /\ Parses(q) /\ Len(q) \in Nat
  BY <1>1 DEF OfTokens
<1> DEFINE x == Len(n) + 1
<1>3. /\ Len(n) \in 0..(Len(p) - 1) /\ n = Name(p, Len(n))
      /\ Segment(t, k) = TokenSegment(p, x) /\ t[k].typ = TypeOf(p[x])
  BY <1>1, <1>2, NamedTokens
<1>4. /\ Len(n) \in 0..(Len(q) - 1) /\ n = Name(q, Len(n))
      /\ Segment(t, l) = TokenSegment(q, x) /\ t[l].typ = TypeOf(q[x])
  BY <1>1, <1>2, NamedTokens
<1>5. x \in 1..Len(p) /\ x \in 1..Len(q) /\ x - 1 = Len(n) /\ Len(n) \in 0..Len(p) /\ Len(n) \in 0..Len(q)
  BY <1>2, <1>3, <1>4
<1>6. Alike(p, q, x - 1)
  <2> HIDE DEF x
  <2>1. Name(p, Len(n)) = Name(q, Len(n))
    <3> DEFINE z == Len(n)
    <3>1. n = Name(p, z) /\ n = Name(q, z)
      BY <1>3, <1>4
    <3> HIDE DEF z
    <3>2. Name(p, z) = Name(q, z)
      BY <3>1
    <3> QED BY <3>2 DEF z
  <2>2. Alike(p, q, Len(n))
    BY <1>1, <1>5, <2>1, SameName
  <2> QED BY <1>5, <2>2
<1>7. PICK g \in 1..4, h \in 1..4 :
        /\ t[k].typ = TypeAt[g] /\ t[l].typ = TypeAt[h]
        /\ \/ g < h
           \/ /\ g = h /\ g \in 2..3
              /\ \E i, j \in 1..Len(t[n].kids[TypeAt[g]]) :
                   i < j /\ k = t[n].kids[TypeAt[g]][i] /\ l = t[n].kids[TypeAt[g]][j]
  BY DEF Ahead
<1>8. \A y \in 1..4 : RankOfType(TypeAt[y]) = IF y = 4 THEN 5 ELSE y
  <2>1. /\ TypeAt[1] = "Static" /\ TypeAt[2] = "Regexp" /\ TypeAt[3] = "Param" /\ TypeAt[4] = "CatchAll"
    BY DEF TypeAt
  <2>2. \A y \in 1..4 : y = 1 \/ y = 2 \/ y = 3 \/ y = 4
    OBVIOUS
  <2>3. /\ RankOfType(TypeAt[1]) = 1 /\ RankOfType(TypeAt[2]) = 2
        /\ RankOfType(TypeAt[3]) = 3 /\ RankOfType(TypeAt[4]) = 5
    BY <2>1 DEF RankOfType
  <2> QED BY <2>2, <2>3
<1> HIDE DEF x
<1>9. Rank(p, x) = RankOfType(TypeAt[g]) /\ Rank(q, x) = RankOfType(TypeAt[h])
  <2>1. Rank(p, x) = RankOfType(TypeOf(p[x]))
    BY <1>1, <1>5, RankFacts
  <2>2. Rank(q, x) = RankOfType(TypeOf(q[x]))
    BY <1>1, <1>5, RankFacts
  <2> QED BY <1>3, <1>4, <1>7, <2>1, <2>2
<1>10. Rank(p, x) <= Rank(q, x) /\ (Rank(p, x) = Rank(q, x) => g = h)
  BY <1>7, <1>8, <1>9
<1>11. ASSUME Part(p[x]) = Part(q[x])
       PROVE  /\ TailOf(p, x) # TailOf(q, x)
              /\ TypeOf(p[x]) = "Regexp" \/ (TypeOf(p[x]) = "Param" /\ TailOf(p, x) # "/")
  <2>1. g = h
    <3>1. Rank(p, x) = Rank(q, x)
      BY <1>1, <1>5, <1>11, SamePart
    <3> QED BY <1>10, <3>1
  <2> DEFINE kids == t[n].kids[TypeAt[g]]
  <2>2. g \in 2..3
    BY <1>7, <2>1
  <2>3. PICK i \in 1..Len(kids), j \in 1..Len(kids) : i < j /\ k = kids[i] /\ l = kids[j]
    BY <1>7, <2>1
  <2>4. TypeAt[2] = "Regexp" /\ TypeAt[3] = "Param"
    BY DEF TypeAt
  <2>5. TypeAt[g] \in NodeTypes
    BY <2>2, <2>4 DEF NodeTypes
  <2>6. IsInjective(kids) /\ kids \in Seq(DOMAIN t)
    BY <2>5, KidsListed DEF Good, Linked, Typed
  <2>7. k # l
    <3>1. i \in DOMAIN kids /\ j \in DOMAIN kids
      BY <2>6
    <3>2. i # j
      BY <2>3
    <3> HIDE DEF kids
    <3> QED BY <2>3, <2>6, <3>1, <3>2 DEF IsInjective
  <2>8. Segment(t, k) # Segment(t, l)
    BY <1>1, <2>7 DEF Good, SiblingsDiffer
  <2>9. TailOf(p, x) # TailOf(q, x)
    BY <1>3, <1>4, <1>11, <2>8 DEF TokenSegment, x
  <2>10. TypeOf(p[x]) = TypeAt[g]
    BY <1>3, <1>7 DEF x
  <2>11. TypeOf(p[x]) = "Param" => TailOf(p, x) # "/"
    <3>1. SUFFICES ASSUME TypeOf(p[x]) = "Param" PROVE TailOf(p, x) # "/"
      OBVIOUS
    <3>2. TypeAt[g] = "Param"
      BY <2>10, <3>1
    <3>3. i \in DOMAIN kids /\ j \in DOMAIN kids
      BY <2>6
    <3>4. t[k].tail # "/"
      <4> DEFINE s == t[n].kids["Param"]
      <4>1. \A a, b \in DOMAIN s : a < b => t[s[a]].tail # "/"
        BY DEF Good, Sorted
      <4>2. i \in DOMAIN s /\ j \in DOMAIN s /\ i < j /\ k = s[i]
        BY <2>3, <3>2, <3>3
      <4> HIDE DEF s
      <4> QED BY <4>1, <4>2
    <3>5. t[k].tail = Segment(t, k)[2]
      BY <1>1 DEF Good, AllNamed, Named
    <3>6. Segment(t, k)[2] = TailOf(p, x)
      <4>1. Segment(t, k) = <<Part(p[x]), TailOf(p, x)>>
        BY <1>3 DEF TokenSegment, x
      <4> QED BY <4>1, PairFields
    <3> QED BY <3>4, <3>5, <3>6
  <2>12. TypeOf(p[x]) \in {"Regexp", "Param"}
    BY <2>2, <2>4, <2>10
  <2> QED BY <2>9, <2>11, <2>12
<1>12. Before(p, q, x)
  BY <1>5, <1>6, <1>10, <1>11 DEF Before
<1> QED BY <1>12 DEF x

(* A search never finds a pattern to which one that matches is preferred.  *)
Best(t, m, F, i) ==
  \A n \in DOMAIN t : \A q, path, vals, rest :
    Matching(t, m, n, q, path, vals, rest) /\ Len(q) - Len(n) <= i /\ F[<<n, rest>>].hit
      => ~ MoreSpecific(q, F[<<n, rest>>].pattern)

(* A pattern that matches is of tokens.                                    *)
LEMMA MatchingTokens ==
  ASSUME NEW t, NEW m, NEW n, NEW q, NEW path, NEW vals, NEW rest,
         Matching(t, m, n, q, path, vals, rest)
  PROVE  OfTokens(q)
<1>1. q \in Seq(Letters) /\ Parses(q)
  BY DEF Matching, FitsWell, Filling
<1> QED BY <1>1, LenProperties DEF OfTokens

(* Where the path ends only the wildcard can match what is left.           *)
LEMMA EndsHere ==
  ASSUME NEW t, NEW m, NEW k, NEW q, NEW path, NEW vals, Matching(t, m, k, q, path, vals, <<>>),
         NEW p, OfTokens(p), k = Name(p, Len(p))
  PROVE  ~ MoreSpecific(q, p)
<1>1. OfTokens(q)
  BY MatchingTokens
<1>2. p \in Seq(Letters) /\ Parses(p) /\ Len(p) \in Nat /\ Len(q) \in Nat
  BY <1>1 DEF OfTokens
<1>3. /\ FitsWell(q, path, vals) /\ Filling(q, path, vals) /\ path \in Seq(Chars)
      /\ Len(k) < Len(q) /\ k = Name(q, Len(k)) /\ <<>> = Drop(path, Mark(q, Len(k), vals))
  BY DEF Matching, FitsWell, Filling
<1>4. Len(k) = Len(p)
  <2>1. Len(p) \in 0..Len(p) /\ Closed(p, Len(p))
    BY <1>2, ParsedClosed
  <2> QED BY <1>2, <2>1, NameFacts
<1> DEFINE i == Len(p)
<1>5. i \in 0..Len(p) /\ i \in 0..Len(q) /\ i \in 0..(Len(q) - 1) /\ i + 1 \in 1..Len(q) /\ i < Len(q)
  BY <1>2, <1>3, <1>4
<1>6. k = Name(p, i) /\ k = Name(q, i)
  <2>1. k = Name(p, i)
    OBVIOUS
  <2>2. k = Name(q, Len(k))
    BY <1>3
  <2> HIDE DEF i
  <2> DEFINE z == Len(k)
  <2>3. k = Name(q, z) /\ z = i
    BY <1>4, <2>2 DEF i
  <2> HIDE DEF z
  <2> QED BY <2>1, <2>3
<1>7. Alike(p, q, i)
  <2> HIDE DEF i
  <2>1. Name(p, i) = Name(q, i)
    BY <1>6
  <2> QED BY <1>1, <1>5, <2>1, SameName
<1> DEFINE w == Taking(q, i + 1, vals)
<1>8. MarkedAt(q, i, path, vals, w)
  <2> HIDE DEF i
  <2> QED BY <1>3, <1>5, MarkStep
<1>9. Len(w) = 0 /\ w = <<>>
  <2> DEFINE a == Mark(q, i, vals)
  <2>1. a \in 0..Len(path) /\ w \in Seq(Chars) /\ Len(w) \in 0..(Len(path) - a)
    BY <1>8 DEF MarkedAt
  <2>2. <<>> = Drop(path, a)
    <3> DEFINE z == Len(k)
    <3>1. z = i /\ <<>> = Drop(path, Mark(q, z, vals))
      BY <1>3, <1>4
    <3> HIDE DEF z, i
    <3> QED BY <3>1
  <2>3. Len(Drop(path, a)) = Len(path) - a
    BY <1>3, <2>1, DropFacts
  <2>4. Len(<<>>) = 0 /\ Len(path) \in Nat
    BY <1>3, LenProperties
  <2> HIDE DEF a, w
  <2>5. Len(path) - a = 0
    BY <2>2, <2>3, <2>4
  <2>6. Len(w) = 0
    BY <2>1, <2>4, <2>5
  <2> QED BY <2>1, <2>6, EmptySeq
<1>10. q[i + 1] = "*"
  <2>1. CASE ~ Wild(q[i + 1])
    <3>1. w = <<q[i + 1]>>
      BY <2>1 DEF Taking
    <3>2. Len(<<q[i + 1]>>) = 1
      OBVIOUS
    <3> HIDE DEF w
    <3> QED BY <1>9, <3>1, <3>2
  <2>2. CASE Wild(q[i + 1])
    <3>1. w = vals[WildCount(q, i + 1)]
      BY <2>2 DEF Taking
    <3>2. ValueFits(q, i + 1, vals[WildCount(q, i + 1)])
      <4> HIDE DEF i
      <4> QED BY <1>3, <1>5, <2>2 DEF FitsWell
    <3> HIDE DEF w, i
    <3> QED BY <1>9, <3>1, <3>2 DEF ValueFits
  <2> QED BY <2>1, <2>2
<1> QED BY <1>1, <1>5, <1>7, <1>10, NotPreferredEnd

(* What the step of the pattern itself leads to is no worse.               *)
LEMMA SameStep ==
  ASSUME NEW t, Good(t), NEW m \in Methods, NEW F \in Searches(t), NEW i \in Nat,
         Sound(t, m, F), Best(t, m, F, i), NEW n \in DOMAIN t,
         NEW q, NEW path, NEW vals, NEW rest, NEW k, NEW left,
         Onward(t, m, n, q, path, vals, rest, k, left), OfTokens(q), Len(q) - Len(n) <= i + 1,
         NEW st \in StepsOver(t), st.open, st.kid = k, st.rest = left,
         NEW o, o = Outcome(t, st, m, F), o.hit
  PROVE  ~ MoreSpecific(q, o.pattern)
<1>1. OutcomeWell(t, st, m, F, o)
  BY OutcomeFacts
<1>2. /\ k \in NonRoot(t) /\ k \in DOMAIN t /\ Len(n) < Len(k) /\ Len(k) <= Len(q)
      /\ Len(k) \in Nat /\ Len(n) \in Nat /\ Len(q) \in Nat
  <2>1. k \in Seq(Segs) /\ n \in Seq(Segs)
    BY DEF Onward, Good, Typed, NonRoot
  <2> QED BY <2>1, LenProperties DEF Onward, NonRoot, OfTokens
<1>3. CASE Len(k) = Len(q)
  <2>1. left = <<>> /\ t[k].eps[m] = q /\ q # None
    BY <1>3 DEF Onward
  <2>2. o.pattern = q
    BY <1>1, <2>1 DEF OutcomeWell
  <2> QED BY <2>2, NotPreferredSelf
<1>4. CASE Len(k) # Len(q)
  <2>1. Matching(t, m, k, q, path, vals, left)
    BY <1>4 DEF Onward
  <2>2. Len(q) - Len(k) <= i
    BY <1>2
  <2>3. CASE left = <<>> /\ t[k].eps[m] # None
    <3>1. o.pattern = t[k].eps[m]
      BY <1>1, <2>3 DEF OutcomeWell
    <3> DEFINE p == t[k].eps[m]
    <3>2. p \in AllPatterns /\ Acceptable(p) /\ k = Name(p, Len(p))
      <4>1. Acceptable(p) /\ k = Name(p, Len(p))
        BY <1>2, <2>3 DEF Good, Placed
      <4>2. t[k] \in NodesOver(DOMAIN t)
        BY <1>2 DEF Good, Typed
      <4> QED BY <2>3, <4>1, <4>2 DEF NodesOver
    <3> HIDE DEF p
    <3>3. OfTokens(p)
      BY <3>2, TakenTokens
    <3>4. ~ MoreSpecific(q, p)
      BY <2>1, <2>3, <3>2, <3>3, EndsHere
    <3> QED BY <3>1, <3>4 DEF p
  <2>4. CASE ~ (left = <<>> /\ t[k].eps[m] # None)
    <3> DEFINE deep == F[<<k, left>>]
    <3>1. o.hit = deep.hit /\ o.pattern = deep.pattern
      BY <1>1, <2>4 DEF OutcomeWell
    <3>2. ~ MoreSpecific(q, deep.pattern)
      BY <1>2, <2>1, <2>2, <3>1 DEF Best
    <3> HIDE DEF deep
    <3> QED BY <3>1, <3>2
  <2> QED BY <2>3, <2>4
<1> QED BY <1>3, <1>4

(* Two steps of the search from n, the first at most as late as the second. *)
NotLater(t, n, rest, k, l) ==
  \E g, h \in 1..4 : \E i \in 1..Len(StepsOf(t, n, rest)[g]), j \in 1..Len(StepsOf(t, n, rest)[h]) :
    /\ k = StepsOf(t, n, rest)[g][i].kid /\ l = StepsOf(t, n, rest)[h][j].kid
    /\ h \in 2..3 => j \in 1..Len(t[n].kids[TypeAt[h]])
    /\ g < h \/ (g = h /\ i < j)

(* The child of the earlier is ahead of the child of the later.            *)
LEMMA EarlierIsAhead ==
  ASSUME NEW t, Good(t), NEW n \in DOMAIN t, NEW rest \in Seq(Chars), NEW k, NEW l,
         NotLater(t, n, rest, k, l)
  PROVE  Ahead(t, n, k, l)
<1> DEFINE X == StepsOf(t, n, rest)
<1>1. PICK g \in 1..4, h \in 1..4 : \E i \in 1..Len(X[g]), j \in 1..Len(X[h]) :
        /\ k = X[g][i].kid /\ l = X[h][j].kid
        /\ h \in 2..3 => j \in 1..Len(t[n].kids[TypeAt[h]])
        /\ g < h \/ (g = h /\ i < j)
  BY DEF NotLater
<1>2. PICK i \in 1..Len(X[g]), j \in 1..Len(X[h]) :
        /\ k = X[g][i].kid /\ l = X[h][j].kid
        /\ h \in 2..3 => j \in 1..Len(t[n].kids[TypeAt[h]])
        /\ g < h \/ (g = h /\ i < j)
  BY <1>1
<1>3. GoesTo(t, n, rest, g, i, k) /\ GoesTo(t, n, rest, h, j, l)
  <2>1. GoesTo(t, n, rest, g, i, X[g][i].kid)
    BY StepGoesTo
  <2>2. GoesTo(t, n, rest, h, j, X[h][j].kid)
    BY StepGoesTo
  <2> HIDE DEF X
  <2> QED BY <1>2, <2>1, <2>2
<1> HIDE DEF X
<1>4. t[k].typ = TypeAt[g] /\ t[l].typ = TypeAt[h]
  BY <1>3 DEF GoesTo
<1>5. CASE g < h
  BY <1>4, <1>5 DEF Ahead
<1>6. CASE g = h /\ i < j
  <2> DEFINE kids == t[n].kids[TypeAt[g]]
  <2>1. g \in 2..3
    <3>1. g \in {1, 4} => i = 1 /\ j = 1
      BY <1>3, <1>6 DEF GoesTo
    <3> QED BY <1>6, <3>1
  <2>2. Len(kids) \in Nat /\ j \in 1..Len(kids) /\ i \in 1..(Len(kids) + 1)
        /\ (i <= Len(kids) => k = kids[i]) /\ (j <= Len(kids) => l = kids[j])
    <3>1. /\ Len(kids) \in Nat /\ i \in 1..(Len(kids) + 1)
          /\ i <= Len(kids) => k = kids[i]
      BY <1>3, <2>1 DEF GoesTo
    <3>2. j <= Len(kids) => l = kids[j]
      BY <1>3, <1>6, <2>1 DEF GoesTo
    <3>3. j \in 1..Len(kids)
      BY <1>2, <1>6, <2>1
    <3> HIDE DEF kids
    <3> QED BY <3>1, <3>2, <3>3
  <2> HIDE DEF kids
  <2>3. i \in 1..Len(kids) /\ k = kids[i] /\ l = kids[j]
    BY <1>6, <2>2
  <2>4. \E a, b \in 1..Len(kids) : a < b /\ k = kids[a] /\ l = kids[b]
    BY <1>6, <2>2, <2>3
  <2> QED BY <1>4, <1>6, <2>1, <2>4 DEF Ahead, kids
<1> QED BY <1>2, <1>5, <1>6

(* What a series of steps finds is no worse than what matches.             *)
LEMMA FirstBest ==
  ASSUME NEW t, Good(t), NEW m \in Methods, NEW F \in Searches(t), NEW i \in Nat,
         Complete(t, m, F, i), Sound(t, m, F), Best(t, m, F, i),
         NEW n \in DOMAIN t, NEW q, NEW path, NEW vals, NEW rest \in Seq(Chars),
         Matching(t, m, n, q, path, vals, rest), Len(q) - Len(n) <= i + 1,
         NEW r, FirstWell(t, Steps(t, n, rest), m, F, r), r.hit
  PROVE  ~ MoreSpecific(q, r.pattern)
<1> DEFINE X == StepsOf(t, n, rest)
           steps == Steps(t, n, rest)
<1>1. InARow(X, steps) /\ \A h \in 1..4 : Len(X[h]) \in Nat
  <2>1. InARow(X, steps)
    BY SeriesFacts
  <2>2. StaticSteps(t, t[n].kids["Static"], rest) \in Seq(GoodSteps(t, n, rest))
    BY StaticStepsTyped
  <2>3. CatchAllSteps(t[n].kids["CatchAll"], rest) \in Seq(GoodSteps(t, n, rest))
    BY CatchAllStepsTyped
  <2>4. \A g \in {"Regexp", "Param"} : SegmentSteps(t, t[n].kids[g], rest) \in Seq(GoodSteps(t, n, rest))
    BY SegmentStepsTyped
  <2>5. KidSeries(t, n, rest)
    BY KidSeriesFacts
  <2>6. ASSUME NEW h \in 1..4 PROVE X[h] \in Seq(GoodSteps(t, n, rest))
    <3>1. h = 1 \/ h = 4 \/ h \in 2..3
      OBVIOUS
    <3> QED BY <2>2, <2>3, <2>4, <2>5, <3>1 DEF KidSeries
  <2> HIDE DEF X
  <2> QED BY <2>1, <2>6, LenProperties
<1>2. steps \in Seq(StepsOver(t)) /\ steps \in Seq(GoodSteps(t, n, rest))
  BY StepsAreSteps, StepsTyped
<1>3. PICK s \in 1..Len(steps) :
        /\ Outcome(t, steps[s], m, F).hit
        /\ r.pattern = Outcome(t, steps[s], m, F).pattern
        /\ \A x \in 1..(s - 1) : ~ Outcome(t, steps[x], m, F).hit
  BY DEF FirstWell
<1>4. PICK k, left : Onward(t, m, n, q, path, vals, rest, k, left)
  BY GoesOnward
<1>5. OfTokens(q)
  BY MatchingTokens
<1>6. PICK h \in 1..4 : \E j \in 1..Len(X[h]) : ReachesKid(t, n, rest, k, left, h, j)
  BY <1>4 DEF Onward, Reachable
<1>7. PICK j \in 1..Len(X[h]) : ReachesKid(t, n, rest, k, left, h, j)
  BY <1>6
<1>8. PICK y : y = PlaceIn(X, h, j)
  OBVIOUS
<1> HIDE DEF X, steps
<1>9. y \in 1..Len(steps) /\ steps[y] = X[h][j]
  BY <1>1, <1>8 DEF InARow
<1>10. /\ X[h][j].open /\ X[h][j].kid = k /\ X[h][j].rest = left
       /\ h \in 2..3 => j \in 1..Len(t[n].kids[TypeAt[h]])
  BY <1>7 DEF ReachesKid, X
<1>11. PICK at : at = steps[y]
  OBVIOUS
<1>12. at \in StepsOver(t) /\ at.open /\ at.kid = k /\ at.rest = left
  BY <1>2, <1>9, <1>10, <1>11, ElementOfSeq
<1>13. Outcome(t, at, m, F).hit
  <2> DEFINE o == Outcome(t, at, m, F)
  <2>1. Len(q) \in Nat
    BY <1>5 DEF OfTokens
  <2>2. Seen(m, m, o)
    BY <1>4, <1>12, <2>1, StepSees
  <2> QED BY <2>2 DEF Seen
<1>14. s <= y
  <2>1. SUFFICES ASSUME y < s PROVE FALSE
    BY <1>9
  <2>2. y \in 1..(s - 1)
    BY <1>9, <2>1
  <2> QED BY <1>3, <1>11, <1>13, <2>2
<1>15. PICK st : st = steps[s]
  OBVIOUS
<1>16. PICK o : o = Outcome(t, st, m, F)
  OBVIOUS
<1>17. st \in StepsOver(t) /\ st \in GoodSteps(t, n, rest) /\ o.hit /\ r.pattern = o.pattern
  BY <1>2, <1>3, <1>15, <1>16, ElementOfSeq
<1>18. CASE s = y
  <2>1. st = at
    BY <1>11, <1>15, <1>18
  <2>2. ~ MoreSpecific(q, o.pattern)
    BY <1>4, <1>5, <1>12, <1>16, <1>17, <2>1, SameStep
  <2> QED BY <1>17, <2>2
<1>19. CASE s # y
  <2>1. PICK g \in 1..4 : \E x \in 1..Len(X[g]) : s = PlaceIn(X, g, x)
    BY <1>1 DEF InARow
  <2>2. PICK x \in 1..Len(X[g]) : s = PlaceIn(X, g, x)
    BY <2>1
  <2>3. g < h \/ (g = h /\ x < j)
    <3>1. g < h \/ (g = h /\ x <= j)
      BY <1>1, <1>8, <1>14, <2>2, PlaceOrder
    <3>2. g = h => x # j
      BY <1>8, <1>19, <2>2
    <3>3. x \in Nat /\ j \in Nat
      BY <1>1
    <3> QED BY <3>1, <3>2, <3>3
  <2>4. X[g][x] = st
    BY <1>1, <1>15, <2>2 DEF InARow
  <2> DEFINE l == st.kid
  <2>5. NotLater(t, n, rest, l, k)
    <3>1. l = X[g][x].kid /\ k = X[h][j].kid
      BY <1>10, <2>4
    <3> HIDE DEF l
    <3> QED BY <1>10, <2>3, <3>1 DEF NotLater, X
  <2>6. Ahead(t, n, l, k)
    <3> HIDE DEF l
    <3> QED BY <2>5, EarlierIsAhead
  <2> DEFINE p == o.pattern
  <2>7. Lower(t, l, p)
    BY <1>16, <1>17, HitThrough
  <2>8. l \in NonRoot(t) /\ Above(t, l) = n
    BY <1>17 DEF GoodSteps, IsStep
  <2> HIDE DEF l, p
  <2>9. OfTokens(p) /\ Len(l) <= Len(p) /\ l = Name(p, Len(l))
    BY <2>7, TakenTokens DEF Lower
  <2>10. Through(t, n, l, p)
    BY <2>8, <2>9 DEF Through
  <2>11. Through(t, n, k, q)
    BY <1>4, <1>5 DEF Onward, Through
  <2>12. Before(p, q, Len(n) + 1)
    BY <2>6, <2>10, <2>11, AheadIsBefore
  <2>13. ~ MoreSpecific(q, p)
    BY <1>5, <2>9, <2>12, NotPreferred
  <2> QED BY <1>17, <2>13 DEF p
<1> QED BY <1>18, <1>19

(* So is what each level of the search finds.                              *)
LEMMA LevelsBest ==
  ASSUME NEW t, Good(t), NEW m \in Methods, NEW f, LevelsOf(f, t, m)
  PROVE  \A i \in Nat : Best(t, m, f[i], i)
<1> DEFINE N == {i \in Nat : Best(t, m, f[i], i)}
<1>1. 0 \in N
  <2>1. ASSUME NEW n \in DOMAIN t, NEW q, NEW path, NEW vals, NEW rest,
               Matching(t, m, n, q, path, vals, rest), Len(q) - Len(n) <= 0
        PROVE  FALSE
    <3>1. q \in Seq(Letters) /\ n \in Seq(Segs) /\ Len(n) < Len(q)
      BY <2>1 DEF Matching, FitsWell, Filling, Good, Typed
    <3>2. Len(q) \in Nat /\ Len(n) \in Nat
      BY <3>1, LenProperties
    <3> QED BY <2>1, <3>1, <3>2
  <2>2. Best(t, m, f[0], 0)
    BY <2>1 DEF Best
  <2> QED BY <2>2
<1>2. ASSUME NEW i \in N PROVE i + 1 \in N
  <2>1. /\ i \in Nat /\ Best(t, m, f[i], i) /\ f[i] \in Searches(t)
        /\ Complete(t, m, f[i], i) /\ Sound(t, m, f[i])
    BY LevelFacts, LevelsComplete, LevelsSound
  <2>2. ASSUME NEW n \in DOMAIN t, NEW q, NEW path, NEW vals, NEW rest,
               Matching(t, m, n, q, path, vals, rest), Len(q) - Len(n) <= i + 1,
               f[i + 1][<<n, rest>>].hit
        PROVE  ~ MoreSpecific(q, f[i + 1][<<n, rest>>].pattern)
    <3> DEFINE F == f[i]
               r == f[i + 1][<<n, rest>>]
    <3>1. rest \in Seq(Chars)
      <4>1. Filling(q, path, vals) /\ path \in Seq(Chars) /\ q \in Seq(Letters) /\ n \in Seq(Segs)
            /\ Len(n) < Len(q) /\ rest = Drop(path, Mark(q, Len(n), vals))
        BY <2>2 DEF Matching, FitsWell, Filling, Good, Typed
      <4>2. Len(n) \in 0..Len(q)
        BY <4>1, LenProperties
      <4>3. Mark(q, Len(n), vals) \in 0..Len(path)
        BY <4>1, <4>2, MarkWithin
      <4> QED BY <4>1, <4>3, DropFacts
    <3>2. FirstWell(t, Steps(t, n, rest), m, F, r)
      BY <2>1, <3>1, LevelFacts
    <3>3. /\ F \in Searches(t) /\ Complete(t, m, F, i) /\ Sound(t, m, F) /\ Best(t, m, F, i)
          /\ i \in Nat /\ r.hit
      BY <2>1, <2>2
    <3> HIDE DEF F, r, N
    <3>4. ~ MoreSpecific(q, r.pattern)
      BY <2>2, <3>1, <3>2, <3>3, FirstBest
    <3> QED BY <3>4 DEF r
  <2>3. Best(t, m, f[i + 1], i + 1)
    BY <2>2 DEF Best
  <2> QED BY <2>1, <2>3
<1>3. Nat \subseteq N
  <2> HIDE DEF N
  <2> QED BY <1>1, <1>2, SetInduction
<1> QED BY <1>3

(* The whole search finds nothing to which what matches is preferred.      *)
LEMMA FindBest ==
  ASSUME NEW t, Good(t), NEW m \in Methods, NEW path \in Seq(Chars),
         NEW q, Holds(t, m, q), NEW vals \in ValuesFor(q, path), Fits(q, path, vals),
         Find(t, m, path).hit
  PROVE  ~ MoreSpecific(q, Find(t, m, path).pattern)
<1>1. PICK f : /\ LevelsOf(f, t, m)
               /\ \A w \in Seq(Chars) : Find(t, m, w) = f[Height + 1][<< <<>>, w>>]
  BY FindLevels
<1> DEFINE h == Height + 1
           F == f[h]
<1>2. Matching(t, m, <<>>, q, path, vals, path) /\ Len(q) - Len(<<>>) <= h /\ h \in Nat
  <2>1. /\ Matching(t, m, <<>>, q, path, vals, path)
        /\ Len(q) - Len(<<>>) <= Height + 1 /\ Height \in Nat
    BY RootMatching
  <2> QED BY <2>1
<1>3. Find(t, m, path) = F[<< <<>>, path>>]
  BY <1>1
<1> HIDE DEF h
<1>4. Best(t, m, F, h)
  BY <1>1, <1>2, LevelsBest
<1>5. <<>> \in DOMAIN t
  BY DEF Good, Typed
<1> HIDE DEF F
<1>6. ~ MoreSpecific(q, F[<< <<>>, path>>].pattern)
  BY <1>2, <1>3, <1>4, <1>5 DEF Best
<1> QED BY <1>3, <1>6

(* In a good tree the most specific match is found.                        *)
LEMMA GoodIsMostSpecific == TreeInv => MostSpecific
<1>1. SUFFICES ASSUME Good(tree), NEW m \in Methods, NEW path \in Paths, FindRoute(m, path).hit,
                      NEW q \in Registered(m), <<q, path>> \in Matches
               PROVE  ~ MoreSpecific(q, FindRoute(m, path).pattern)
  BY DEF MostSpecific, TreeInv
<1>2. path \in Seq(Chars)
  BY PathsTyped
<1>3. Holds(tree, m, q)
  BY <1>1, RegisteredFacts
<1>4. PICK vals \in ValuesFor(q, path) : Fits(q, path, vals)
  BY <1>1, MatchesFacts
<1>5. FindRoute(m, path) = Find(tree, m, path)
  BY DEF FindRoute
<1>6. ~ MoreSpecific(q, Find(tree, m, path).pattern)
  BY <1>1, <1>2, <1>3, <1>4, <1>5, FindBest
<1> QED BY <1>5, <1>6

(* A lookup never returns a pattern when one that is more specific is      *)
(* registered and matches too, whatever order they were registered in.     *)
THEOREM LookupIsMostSpecific == Spec => []MostSpecific
<1> QED BY TreeInvHolds, GoodIsMostSpecific, PTL

-----------------------------------------------------------------------------
(* The search for a pattern                                                *)

(* The type of child that the search goes on in; the child; and what it    *)
(* finds there.                                                            *)
Chosen(t, n, left) == SelectInSeq(TypeAt, LAMBDA g : PatternEdge(t, n, g, left) # 0)

PatternKid(t, n, left) ==
  t[n].kids[TypeAt[Chosen(t, n, left)]][PatternEdge(t, n, TypeAt[Chosen(t, n, left)], left)]

FoundBehind(t, n, left, F) ==
  LET rest == PatternRest(t, PatternKid(t, n, left), left)
  IN  Chosen(t, n, left) # 0 /\ (rest = <<>> \/ F[<<PatternKid(t, n, left), rest>>])

(* The levels of the search for w.                                         *)
PatternLevels(f, t, w) ==
  \A i \in Nat, n \in DOMAIN t, j \in 0..Len(w) :
    f[i][<<n, Drop(w, j)>>] = (i # 0 /\ FoundBehind(t, n, Drop(w, j), f[i - 1]))

(* A search for a pattern has as many rounds as the tree has levels.       *)
LEMMA PatternSearch ==
  ASSUME NEW t, NEW w \in Seq(Letters)
  PROVE  \E f : PatternLevels(f, t, w) /\ FindPattern(t, w) = f[Height + 1][<< <<>>, w>>]
<1> DEFINE W == (DOMAIN t) \X Seq(Letters)
           Level(f, i) == [d \in W |-> i # 0 /\ FoundBehind(t, d[1], d[2], f[i - 1])]
           Equation(f) == f = [i \in Nat |-> Level(f, i)]
           found == CHOOSE f : Equation(f)
           S == [W -> BOOLEAN]
           Next1(F) == [d \in W |-> FoundBehind(t, d[1], d[2], F)]
           round == [F \in S |-> Next1(F)]
           None1 == [d \in W |-> FALSE]
<1>1. \A F : \A d \in W : FoundBehind(t, d[1], d[2], F) \in BOOLEAN
  BY DEF FoundBehind
<1>2. round \in [S -> S] /\ None1 \in S
  <2>1. None1 \in S
    OBVIOUS
  <2>2. \A F \in S : Next1(F) \in S
    <3> HIDE DEF W
    <3> QED BY <1>1
  <2> HIDE DEF S, Next1
  <2> QED BY <2>1, <2>2
<1>3. \E f : Equation(f)
  <2>1. PICK f : AllRounds(f, S, round, None1)
    <3> HIDE DEF S, round, None1
    <3> QED BY <1>2, RoundsStay
  <2>2. /\ f = [i \in Nat |-> f[i]] /\ f[0] = None1
        /\ \A i \in Nat : f[i] \in S /\ f[i + 1] = round[f[i]]
    BY <2>1 DEF AllRounds
  <2>3. ASSUME NEW i \in Nat
        PROVE  f[i] = Level(f, i)
    <3>1. CASE i = 0
      <4>1. None1 = Level(f, i)
        BY <3>1
      <4> QED BY <2>2, <3>1, <4>1
    <3>2. CASE i # 0
      <4>1. i - 1 \in Nat /\ (i - 1) + 1 = i
        BY <3>2
      <4>2. f[i] = Next1(f[i - 1])
        <5>1. \A F \in S : round[F] = Next1(F)
          <6> HIDE DEF S, Next1
          <6> QED OBVIOUS
        <5> HIDE DEF S, round, Next1
        <5> QED BY <2>2, <4>1, <5>1
      <4>3. Next1(f[i - 1]) = Level(f, i)
        <5>1. \A d \in W : FoundBehind(t, d[1], d[2], f[i - 1]) = (i # 0 /\ FoundBehind(t, d[1], d[2], f[i - 1]))
          <6> HIDE DEF W
          <6> QED BY <1>1, <3>2
        <5> HIDE DEF W
        <5> QED BY <5>1
      <4> QED BY <4>2, <4>3
    <3> QED BY <3>1, <3>2
  <2> HIDE DEF Level
  <2>4. Equation(f)
    BY <2>2, <2>3
  <2> QED BY <2>4
<1>4. Equation(found)
  <2> HIDE DEF Equation
  <2> QED BY <1>3
<1>5. FindPattern(t, w) = found[Height + 1][<< <<>>, w>>]
  BY DEF FindPattern, FoundBehind, Chosen, PatternKid, TypeAt
<1> HIDE DEF found
<1>6. \A i \in Nat : found[i] = Level(found, i)
  <2> HIDE DEF Level
  <2> DEFINE g == [i \in Nat |-> Level(found, i)]
  <2>1. \A i \in Nat : g[i] = Level(found, i)
    OBVIOUS
  <2>2. found = g
    BY <1>4
  <2> HIDE DEF g
  <2> QED BY <2>1, <2>2
<1>7. ASSUME NEW i \in Nat, NEW n \in DOMAIN t, NEW j \in 0..Len(w)
      PROVE  found[i][<<n, Drop(w, j)>>] = (i # 0 /\ FoundBehind(t, n, Drop(w, j), found[i - 1]))
  <2> DEFINE d == <<n, Drop(w, j)>>
  <2>1. d \in W /\ d[1] = n /\ d[2] = Drop(w, j)
    <3>1. Drop(w, j) \in Seq(Letters)
      BY DropFacts
    <3> QED BY <3>1
  <2>2. found[i][d] = (i # 0 /\ FoundBehind(t, d[1], d[2], found[i - 1]))
    <3> HIDE DEF d, W
    <3> QED BY <1>6, <2>1
  <2> HIDE DEF W
  <2> QED BY <2>1, <2>2
<1> QED BY <1>5, <1>7 DEF PatternLevels

(* The first type with an edge is the one that the search goes on in.      *)
LEMMA ChosenFirst ==
  ASSUME NEW t, NEW n, NEW left, NEW h \in 1..4, PatternEdge(t, n, TypeAt[h], left) # 0,
         \A g \in 1..(h - 1) : PatternEdge(t, n, TypeAt[g], left) = 0
  PROVE  Chosen(t, n, left) = h
<1> DEFINE Yes(g) == PatternEdge(t, n, TypeAt[g], left) # 0
           I == {g \in 1..Len(TypeAt) : Yes(g)}
<1>1. Len(TypeAt) = 4
  BY DEF TypeAt
<1>2. Chosen(t, n, left) = IF I # {} THEN Min(I) ELSE 0
  BY DEF Chosen, SelectInSeq, SelectInSubSeq
<1>3. h \in I /\ \A g \in I : h <= g
  <2>1. Yes(h) /\ \A g \in 1..(h - 1) : ~ Yes(g)
    OBVIOUS
  <2> HIDE DEF Yes
  <2> QED BY <1>1, <2>1
<1>4. I \in SUBSET Nat
  <2> HIDE DEF Yes
  <2> QED BY <1>1
<1> HIDE DEF I
<1>5. Min(I) \in I /\ (\A y \in I : Min(I) <= y) /\ I # {}
  BY <1>3, <1>4, MinIsLeast
<1>6. Min(I) = h
  <2>1. Min(I) <= h /\ h <= Min(I)
    BY <1>3, <1>5
  <2>2. Min(I) \in Nat
    BY <1>4, <1>5
  <2> QED BY <2>1, <2>2
<1> QED BY <1>2, <1>5, <1>6

(* The search goes on in the child k of n, with the rest of w behind it.   *)
GoesWith(t, n, w, k) ==
  /\ Chosen(t, n, Drop(w, Len(n))) # 0
  /\ PatternKid(t, n, Drop(w, Len(n))) = k
  /\ PatternRest(t, k, Drop(w, Len(n))) = Drop(w, Len(k))

(* In text it goes on in the child that stands for it.                     *)
LEMMA TextGoesOn ==
  ASSUME NEW t, Good(t), NEW k \in NonRoot(t), t[k].typ = "Static", NEW n, n = Above(t, k),
         n \in DOMAIN t, NEW w \in Seq(Letters), Parses(w), Len(k) <= Len(w), k = Name(w, Len(k))
  PROVE  GoesWith(t, n, w, k)
<1> DEFINE i == Len(n)
           z == Size(t[k])
           S == Chars \cup Letters
           left == Drop(w, i)
           kids == t[n].kids["Static"]
           pre == t[k].prefix
<1>1. /\ Named(t, k) /\ z \in 1..Len(k) /\ i \in 0..(Len(k) - 1) /\ i + z = Len(k) /\ Depth(t, k) = i
      /\ Len(k) \in Nat
  BY PlaceFacts DEF Good, AllNamed
<1>2. Len(w) \in Nat
  BY LenProperties
<1>3. \A j \in 1..z : k[i + j] = <<pre[j], "">> /\ PartType(pre[j]) = "Static"
  BY <1>1 DEF Named
<1>4. \A j \in 1..Len(k) : k[j] = <<Part(w[j]), TailOf(w, j)>>
  <2>1. Len(k) \in 0..Len(w)
    BY <1>1, <1>2
  <2>2. Closed(w, Len(k))
    BY <2>1, ParsedClosed
  <2> DEFINE l == Len(k)
  <2>3. l \in 0..Len(w) /\ Closed(w, l) /\ k = Name(w, l)
    BY <2>1, <2>2
  <2> HIDE DEF l
  <2>4. \A j \in 1..l : Name(w, l)[j] = <<Part(w[j]), TailOf(w, j)>>
    BY <2>3, NameFacts
  <2> QED BY <2>3, <2>4 DEF l
<1> HIDE DEF i, z, pre
<1>5. ASSUME NEW j \in 1..z
      PROVE  pre[j] = w[i + j] /\ ~ Wild(w[i + j]) /\ CharOf(w[i + j]) = w[i + j]
  <2>1. i + j \in 1..Len(k) /\ i + j \in 1..Len(w)
    BY <1>1, <1>2
  <2>2. k[i + j] = <<pre[j], "">> /\ PartType(pre[j]) = "Static"
    BY <1>3
  <2>3. k[i + j] = <<Part(w[i + j]), TailOf(w, i + j)>>
    BY <1>4, <2>1
  <2>4. pre[j] = Part(w[i + j])
    <3>1. <<pre[j], "">>[1] = <<Part(w[i + j]), TailOf(w, i + j)>>[1]
      BY <2>2, <2>3
    <3> QED BY <3>1
  <2> DEFINE x == w[i + j]
  <2>5. PartType(Part(x)) = TypeOf(x) /\ (~ Wild(x) => Part(x) = x)
    BY <2>1, ParsedToken
  <2> HIDE DEF x
  <2>6. ~ Wild(x) /\ pre[j] = x
    BY <2>2, <2>4, <2>5 DEF Wild, x
  <2>7. CharOf(x) = x
    BY <2>6 DEF CharOf
  <2> QED BY <2>6, <2>7 DEF x
<1>6. w \in Seq(S) /\ i \in 0..Len(w)
  BY <1>1, <1>2, SeqMonotonic
<1>7. left \in Seq(S) /\ Len(left) = Len(w) - i /\ \A j \in 1..(Len(w) - i) : left[j] = w[i + j]
  <2> HIDE DEF S
  <2> QED BY <1>6, DropFacts
<1>8. z <= Len(left) /\ (\A j \in 1..z : left[j] = pre[j]) /\ 1 \in 1..z /\ left[1] = w[i + 1]
  <2> HIDE DEF left, S
  <2>1. z <= Len(w) - i /\ z \in Nat /\ z >= 1
    BY <1>1, <1>2
  <2>2. \A j \in 1..z : j \in 1..(Len(w) - i)
    BY <1>1, <1>2, <2>1
  <2>3. \A j \in 1..z : left[j] = pre[j]
    BY <1>5, <1>7, <2>2
  <2> QED BY <1>7, <2>1, <2>2, <2>3
<1>9. IsPrefix(pre, left) /\ z = Len(pre)
  <2>1. Chars \subseteq S
    OBVIOUS
  <2> HIDE DEF left, S
  <2> QED BY <1>7, <1>8, <2>1, PrefixText DEF z, pre
<1>10. Drop(left, Len(pre)) = Drop(w, Len(k))
  <2>1. z \in 0..(Len(w) - i)
    BY <1>1, <1>2
  <2>2. Drop(Drop(w, i), z) = Drop(w, i + z)
    BY <1>6, <2>1, DropPiece
  <2> QED BY <1>1, <1>9, <2>2
<1>11. CharOf(left[1]) = t[k].label /\ FoundBy(t, kids, t[k].label, k)
  <2>1. t[k].label = pre[1] /\ FoundBy(t, kids, t[k].label, k)
    BY StaticEdge DEF pre
  <2>2. CharOf(w[i + 1]) = pre[1]
    BY <1>5, <1>8
  <2> HIDE DEF left, kids
  <2> QED BY <1>8, <2>1, <2>2
<1> DEFINE edge == FindEdge(t, kids, CharOf(left[1]))
<1>12. kids # <<>> /\ edge # 0 /\ kids[edge] = k
  <2> HIDE DEF kids, left
  <2> QED BY <1>11 DEF FoundBy
<1>13. PatternEdge(t, n, "Static", left) = edge
  <2>1. IsPrefix(t[kids[edge]].prefix, left)
    <3> HIDE DEF kids, edge, left
    <3> QED BY <1>9, <1>12 DEF pre
  <2>2. PatternEdge(t, n, "Static", left) =
          IF kids = <<>> THEN 0 ELSE IF edge # 0 /\ ~ IsPrefix(t[kids[edge]].prefix, left) THEN 0 ELSE edge
    BY DEF PatternEdge
  <2> HIDE DEF kids, edge, left
  <2> QED BY <1>12, <2>1, <2>2
<1> HIDE DEF edge, left
<1>14. Chosen(t, n, left) = 1
  <2>1. TypeAt[1] = "Static" /\ 1 \in 1..4 /\ 1..(1 - 1) = {}
    BY DEF TypeAt
  <2>2. PatternEdge(t, n, TypeAt[1], left) # 0
    BY <1>12, <1>13, <2>1
  <2> QED BY <2>1, <2>2, ChosenFirst
<1>15. PatternKid(t, n, left) = k
  <2>1. TypeAt[1] = "Static"
    BY DEF TypeAt
  <2> QED BY <1>12, <1>13, <1>14, <2>1 DEF PatternKid
<1>16. PatternRest(t, k, left) = Drop(w, Len(k))
  <2>1. PatternRest(t, k, left) = Drop(left, Len(t[k].prefix))
    BY DEF PatternRest
  <2> QED BY <1>10, <2>1 DEF pre
<1>17. Chosen(t, n, left) # 0
  BY <1>14
<1> QED BY <1>15, <1>16, <1>17 DEF GoesWith, left, i

(* No child but a wildcard is labelled with an asterisk.                   *)
LEMMA NoOtherEdge ==
  ASSUME NEW t, Good(t), NEW n \in DOMAIN t, NEW g \in {"Static", "Regexp", "Param"},
         NEW left, CharOf(left[1]) = "*"
  PROVE  PatternEdge(t, n, g, left) = 0
<1> DEFINE kids == t[n].kids[g]
           edge == FindEdge(t, kids, "*")
<1>1. g \in NodeTypes /\ g # "CatchAll"
  BY DEF NodeTypes
<1>2. kids \in Seq(DOMAIN t)
  BY <1>1, KidsListed DEF Good, Typed
<1>3. ASSUME NEW i \in 1..Len(kids)
      PROVE  t[kids[i]].label \in Chars /\ t[kids[i]].label # "*"
  <2> DEFINE x == kids[i]
  <2>1. t[x].typ = g /\ Named(t, x) /\ Segment(t, x) \in Segs
    BY <1>1, KidFacts
  <2> HIDE DEF x
  <2> DEFINE s == Segment(t, x)[1]
  <2>2. g = PartType(s) /\ t[x].label = IF g = "Static" THEN s ELSE "{"
    BY <1>1, <2>1 DEF Named
  <2>3. PartType(s) = "Static" => s \in Chars \ {"*"}
    BY DEF PartType
  <2>4. "{" \in Chars /\ "{" # "*"
    BY CharAssumption
  <2> HIDE DEF s
  <2>5. t[x].label \in Chars /\ t[x].label # "*"
    BY <2>2, <2>3, <2>4
  <2> QED BY <2>5 DEF x
<1> HIDE DEF kids
<1>4. \A x \in ToSet(kids) : t[x].label \in Chars
  BY <1>2, <1>3 DEF ToSet
<1>5. "*" \in Chars
  BY CharAssumption
<1>6. edge \in 0..Len(kids)
  BY <1>2, <1>4, <1>5, FindEdgeFacts
<1>7. edge # 0 => t[kids[edge]].label = "*"
  BY <1>2, <1>4, <1>5, FindEdgeFacts
<1>8. edge = 0
  <2>1. edge # 0 => edge \in 1..Len(kids)
    <3> HIDE DEF edge
    <3> QED BY <1>6
  <2> HIDE DEF edge
  <2> QED BY <1>3, <1>7, <2>1
<1>9. PatternEdge(t, n, g, left) = 0 \/ PatternEdge(t, n, g, left) = edge
  BY <1>1 DEF PatternEdge, kids
<1> QED BY <1>8, <1>9

(* At the wildcard it goes on in the child for it.                         *)
LEMMA StarGoesOn ==
  ASSUME NEW t, Good(t), NEW k \in NonRoot(t), t[k].typ = "CatchAll", NEW n, n = Above(t, k),
         n \in DOMAIN t, NEW w \in Seq(Letters), w # <<>>, w[Len(w)] = "*",
         Len(k) = Len(w), Len(n) = Len(w) - 1
  PROVE  GoesWith(t, n, w, k)
<1> DEFINE i == Len(n)
           left == Drop(w, i)
           kids == t[n].kids["CatchAll"]
<1>1. Len(w) \in Nat /\ Len(w) # 0
  BY EmptySeq, LenProperties
<1>2. i \in 0..Len(w) /\ Len(w) - i = 1 /\ i + 1 = Len(w)
  BY <1>1
<1> HIDE DEF i
<1>3. left \in Seq(Letters) /\ Len(left) = 1 /\ left[1] = "*"
  <2>1. /\ left \in Seq(Letters) /\ Len(left) = Len(w) - i
        /\ \A j \in 1..(Len(w) - i) : left[j] = w[i + j]
    BY <1>2, DropFacts
  <2>2. 1 \in 1..(Len(w) - i)
    BY <1>2
  <2> HIDE DEF left
  <2> QED BY <1>2, <2>1, <2>2
<1> HIDE DEF left
<1>4. CharOf(left[1]) = "*"
  BY <1>3 DEF CharOf
<1>5. kids # <<>> /\ kids[1] = k
  <2> DEFINE rest == <<>>
             a == Step(TRUE, kids[1], <<rest>>, <<>>)
             b == Step(TRUE, k, <<rest>>, <<>>)
  <2>1. TakesAll(t, n, k, rest)
    BY CatchReach
  <2>2. CatchAllSteps(kids, rest) = <<b>>
    BY <2>1 DEF TakesAll
  <2>3. CatchAllSteps(kids, rest) = IF kids = <<>> THEN <<>> ELSE <<a>>
    BY DEF CatchAllSteps
  <2>4. a.kid = kids[1] /\ b.kid = k
    BY DEF Step
  <2> HIDE DEF a, b, kids, rest
  <2>5. <<b>> # <<>> /\ (<<a>> = <<b>> => a = b)
    OBVIOUS
  <2> QED BY <2>2, <2>3, <2>4, <2>5
<1>6. PatternEdge(t, n, "CatchAll", left) = 1
  BY <1>5 DEF PatternEdge
<1>7. TypeAt[1] = "Static" /\ TypeAt[2] = "Regexp" /\ TypeAt[3] = "Param" /\ TypeAt[4] = "CatchAll"
  BY DEF TypeAt
<1>8. Chosen(t, n, left) = 4
  <2>1. ASSUME NEW g \in 1..(4 - 1)
        PROVE  PatternEdge(t, n, TypeAt[g], left) = 0
    <3>1. g = 1 \/ g = 2 \/ g = 3
      OBVIOUS
    <3>2. TypeAt[g] \in {"Static", "Regexp", "Param"}
      BY <1>7, <3>1
    <3> QED BY <1>4, <3>2, NoOtherEdge
  <2>2. 4 \in 1..4 /\ PatternEdge(t, n, TypeAt[4], left) # 0
    BY <1>6, <1>7
  <2> QED BY <2>1, <2>2, ChosenFirst
<1>9. PatternKid(t, n, left) = k
  BY <1>5, <1>6, <1>7, <1>8 DEF PatternKid
<1>10. PatternRest(t, k, left) = Drop(w, Len(k))
  <2>1. PatternRest(t, k, left) = Tail(left)
    BY <1>3 DEF PatternRest
  <2>2. Tail(left) \in Seq(Letters) /\ Len(Tail(left)) = 0
    <3>1. left # <<>>
      <4>1. left \in Seq(Letters) /\ Len(left) # 0
        BY <1>3
      <4> QED BY <4>1, EmptySeq
    <3>2. Tail(left) \in Seq(Letters) /\ Len(Tail(left)) = Len(left) - 1
      BY <1>3, <3>1, HeadTailProperties
    <3> QED BY <1>3, <3>2
  <2>3. Len(w) \in 0..Len(w)
    BY <1>1
  <2>4. Drop(w, Len(w)) \in Seq(Letters) /\ Len(Drop(w, Len(w))) = Len(w) - Len(w)
    BY <2>3, DropFacts
  <2>5. Len(w) - Len(w) = 0
    BY <1>1
  <2>6. Tail(left) = <<>> /\ Drop(w, Len(w)) = <<>>
    BY <2>2, <2>4, <2>5, EmptySeq
  <2> QED BY <2>1, <2>6
<1> QED BY <1>8, <1>9, <1>10 DEF GoesWith, left, i

(* What ends with the only wild token of it, a wildcard.                   *)
EndsWild(w) ==
  /\ w \in AllPatterns /\ w \in Seq(Letters) /\ Len(w) \in Nat /\ w # <<>> /\ w[Len(w)] = "*"
  /\ \A i \in 1..(Len(w) - 1) : ~ Wild(w[i])

(* It goes on from every node on its way.                                  *)
LEMMA WildWay ==
  ASSUME NEW t, Good(t), NEW w, EndsWild(w), Parses(w), Name(w, Len(w)) \in DOMAIN t,
         NEW n \in DOMAIN t, n = Name(w, Len(n)), Len(n) < Len(w)
  PROVE  \E k \in NonRoot(t) : /\ k = Name(w, Len(k)) /\ Len(k) \in 1..Len(w) /\ Len(n) < Len(k)
                               /\ GoesWith(t, n, w, k)
<1> DEFINE last == Name(w, Len(w))
<1>1. w \in Seq(Letters) /\ Len(w) \in Nat /\ w[Len(w)] = "*" /\ w # <<>>
  BY DEF EndsWild
<1>2. Len(last) = Len(w) /\ \A j \in 0..Len(w) : Upto(last, j) = Name(w, j)
  <2>1. Len(w) \in 0..Len(w) /\ Closed(w, Len(w))
    BY <1>1, ParsedClosed
  <2> QED BY <1>1, <2>1, NameFacts
<1>3. Len(n) \in 0..Len(w) /\ Len(n) + 1 \in 1..Len(w)
  <2>1. Len(n) \in Nat
    <3>1. n \in Seq(Segs)
      BY DEF Good, Typed
    <3> QED BY <3>1, LenProperties
  <2> QED BY <1>1, <2>1
<1>4. Leads(n, last) /\ n # last
  <2>1. Upto(last, Len(n)) = n
    BY <1>2, <1>3
  <2>2. n # last
    BY <1>1, <1>2, <1>3
  <2>3. Len(n) <= Len(last)
    BY <1>2, <1>3
  <2> QED BY <2>1, <2>2, <2>3 DEF Leads
<1>5. PICK k : Toward(t, n, last, k)
  <2> HIDE DEF last
  <2>1. last \in DOMAIN t
    BY DEF last
  <2> QED BY <1>4, <2>1, KidToward DEF Good
<1>6. /\ k \in NonRoot(t) /\ Above(t, k) = n /\ Len(n) < Len(k) /\ Len(k) <= Len(last) /\ Upto(last, Len(k)) = k
      /\ Segment(t, k) = last[Len(n) + 1]
  BY <1>5 DEF Toward, Leads
<1>7. last[Len(n) + 1] = <<Part(w[Len(n) + 1]), TailOf(w, Len(n) + 1)>>
  <2>1. Len(w) \in 0..Len(w) /\ Closed(w, Len(w))
    BY <1>1, ParsedClosed
  <2>2. \A j \in 1..Len(w) : last[j] = <<Part(w[j]), TailOf(w, j)>>
    BY <1>1, <2>1, NameFacts
  <2> QED BY <1>3, <2>2
<1> HIDE DEF last
<1>8. Len(k) \in 1..Len(w) /\ k = Name(w, Len(k))
  <2>1. Len(k) \in Nat
    <3>1. k \in Seq(Segs)
      BY <1>6 DEF Good, Typed, NonRoot
    <3> QED BY <3>1, LenProperties
  <2>2. Len(k) \in 1..Len(w) /\ Len(k) \in 0..Len(w)
    BY <1>1, <1>2, <1>3, <1>6, <2>1
  <2> QED BY <1>2, <1>6, <2>2
<1>9. t[k].typ = TypeOf(w[Len(n) + 1])
  <2>1. Named(t, k)
    BY <1>6 DEF Good, AllNamed
  <2>2. t[k].typ = PartType(Segment(t, k)[1])
    BY <2>1 DEF Named
  <2>3. PartType(Part(w[Len(n) + 1])) = TypeOf(w[Len(n) + 1])
    BY <1>1, <1>3, ParsedToken
  <2>4. Segment(t, k)[1] = Part(w[Len(n) + 1])
    BY <1>6, <1>7, PairFields
  <2> QED BY <2>2, <2>3, <2>4
<1>10. CASE Len(n) + 1 = Len(w)
  <2>1. TypeOf("*") = "CatchAll"
    BY TokenAssumption DEF TypeOf
  <2>2. t[k].typ = "CatchAll"
    BY <1>1, <1>9, <1>10, <2>1
  <2>3. Len(k) = Len(w) /\ Len(n) = Len(w) - 1
    BY <1>3, <1>6, <1>8, <1>10
  <2>4. GoesWith(t, n, w, k)
    BY <1>1, <1>6, <2>2, <2>3, StarGoesOn
  <2> QED BY <1>6, <1>8, <2>4
<1>11. CASE Len(n) + 1 # Len(w)
  <2>1. Len(n) + 1 \in 1..(Len(w) - 1)
    BY <1>1, <1>3, <1>11
  <2>2. ~ Wild(w[Len(n) + 1])
    BY <2>1 DEF EndsWild
  <2>3. t[k].typ = "Static"
    BY <1>9, <2>2 DEF Wild
  <2>4. Len(k) <= Len(w)
    BY <1>1, <1>8
  <2>5. GoesWith(t, n, w, k)
    BY <1>1, <1>6, <1>8, <2>3, <2>4, TextGoesOn
  <2> QED BY <1>6, <1>8, <2>5
<1> QED BY <1>10, <1>11

(* What a level of the search has to find of w.                            *)
FindsWild(F, t, w, i) ==
  \A n \in DOMAIN t :
    n = Name(w, Len(n)) /\ Len(n) < Len(w) /\ Len(w) - Len(n) <= i => F[<<n, Drop(w, Len(n))>>]

(* A wildcard below text that has a node is found.                         *)
LEMMA WildFound ==
  ASSUME NEW t, Good(t), NEW w, EndsWild(w), Parses(w), Name(w, Len(w)) \in DOMAIN t
  PROVE  FindPattern(t, w)
<1>1. PICK f : PatternLevels(f, t, w) /\ FindPattern(t, w) = f[Height + 1][<< <<>>, w>>]
  BY PatternSearch DEF EndsWild
<1>2. w \in Seq(Letters) /\ Len(w) \in Nat /\ w # <<>> /\ w \in AllPatterns
  BY DEF EndsWild
<1>3. \A n \in DOMAIN t : Len(n) \in Nat
  BY LenProperties DEF Good, Typed
<1> DEFINE N == {i \in Nat : FindsWild(f[i], t, w, i)}
<1>4. 0 \in N
  <2>1. \A n \in DOMAIN t : Len(n) < Len(w) => ~ (Len(w) - Len(n) <= 0)
    BY <1>2, <1>3
  <2> QED BY <2>1 DEF FindsWild
<1>5. ASSUME NEW i \in N
      PROVE  i + 1 \in N
  <2>1. i \in Nat /\ i + 1 \in Nat /\ i + 1 # 0 /\ (i + 1) - 1 = i /\ FindsWild(f[i], t, w, i)
    BY <1>5
  <2>2. ASSUME NEW n \in DOMAIN t, n = Name(w, Len(n)), Len(n) < Len(w), Len(w) - Len(n) <= i + 1
        PROVE  f[i + 1][<<n, Drop(w, Len(n))>>]
    <3> DEFINE left == Drop(w, Len(n))
    <3>1. PICK k \in NonRoot(t) : /\ k = Name(w, Len(k)) /\ Len(k) \in 1..Len(w) /\ Len(n) < Len(k)
                                  /\ GoesWith(t, n, w, k)
      BY <2>2, WildWay
    <3>2. Chosen(t, n, left) # 0 /\ PatternKid(t, n, left) = k /\ PatternRest(t, k, left) = Drop(w, Len(k))
      BY <3>1 DEF GoesWith
    <3>3. Drop(w, Len(k)) = <<>> \/ f[i][<<k, Drop(w, Len(k))>>]
      <4>1. CASE Len(k) = Len(w)
        <5>1. Len(w) \in 0..Len(w) /\ Len(w) - Len(w) = 0
          BY <1>2
        <5>2. Drop(w, Len(w)) \in Seq(Letters) /\ Len(Drop(w, Len(w))) = Len(w) - Len(w)
          BY <1>2, <5>1, DropFacts
        <5>3. Drop(w, Len(w)) = <<>>
          BY <5>1, <5>2, EmptySeq
        <5> QED BY <4>1, <5>3
      <4>2. CASE Len(k) # Len(w)
        <5>1. k \in DOMAIN t /\ Len(k) < Len(w) /\ Len(w) - Len(k) <= i
          BY <1>2, <1>3, <2>1, <2>2, <3>1, <4>2 DEF NonRoot
        <5> QED BY <2>1, <3>1, <5>1 DEF FindsWild
      <4> QED BY <4>1, <4>2
    <3> HIDE DEF left
    <3>4. FoundBehind(t, n, left, f[i])
      BY <3>2, <3>3 DEF FoundBehind
    <3>5. Len(n) \in 0..Len(w)
      BY <1>2, <1>3, <2>2
    <3>6. f[i + 1][<<n, Drop(w, Len(n))>>] = (i + 1 # 0 /\ FoundBehind(t, n, Drop(w, Len(n)), f[(i + 1) - 1]))
      BY <1>1, <2>1, <3>5 DEF PatternLevels
    <3> QED BY <2>1, <3>4, <3>6 DEF left
  <2> QED BY <2>1, <2>2 DEF FindsWild
<1>6. Nat \subseteq N
  <2> HIDE DEF N
  <2> QED BY <1>4, <1>5, SetInduction
<1>7. FindsWild(f[Height + 1], t, w, Height + 1)
  <2>1. Height + 1 \in Nat
    BY HeightFacts
  <2> QED BY <1>6, <2>1
<1>8. <<>> \in DOMAIN t /\ <<>> = Name(w, Len(<<>>)) /\ Len(<<>>) < Len(w) /\ Len(w) - Len(<<>>) <= Height + 1
  <2>1. <<>> \in DOMAIN t
    BY DEF Good, Typed
  <2>2. Len(<<>>) = 0
    OBVIOUS
  <2>3. Name(w, 0) = <<>>
    BY DEF Name
  <2>4. 0 < Len(w)
    BY <1>2, EmptySeq
  <2>5. Len(w) <= Height /\ Height \in Nat
    BY <1>2, HeightFacts
  <2>6. Len(w) - 0 <= Height + 1
    BY <1>2, <2>5
  <2> QED BY <2>1, <2>2, <2>3, <2>4, <2>6
<1>9. Drop(w, Len(<<>>)) = w
  <2>1. Len(<<>>) = 0 /\ SubSeq(w, 1, Len(w)) = w
    BY <1>2, SubSeqFull
  <2> QED BY <2>1 DEF Drop
<1>10. f[Height + 1][<< <<>>, w>>]
  BY <1>7, <1>8, <1>9 DEF FindsWild
<1> QED BY <1>1, <1>10

-----------------------------------------------------------------------------
(* Mounts                                                                  *)

(* What is in the table is found.                                          *)
LEMMA TabledIsFound ==
  ASSUME NEW t, Good(t), NEW w, EndsWild(w), Shape(w) \in DOMAIN TableIn(t)
  PROVE  FindPattern(t, w)
<1>1. PICK n \in Leaves(t) : Shape(w) = ShapeOf(n)
  <2> DEFINE s == Shape(w)
  <2>1. DOMAIN TableIn(t) = {ShapeOf(n) : n \in Leaves(t)}
    BY TableFacts DEF TableFits
  <2>2. s \in {ShapeOf(n) : n \in Leaves(t)}
    BY <2>1
  <2> HIDE DEF s
  <2> QED BY <2>2 DEF s
<1>2. PICK p \in AllPatterns : /\ p \in Seq(Letters) /\ Acceptable(p) /\ n = Name(p, Len(p))
                               /\ ShapeOf(n) = Shape(p)
  BY LeafPattern
<1>3. "none" \notin BadRexes
  <2>1. p # <<>> /\ p[1] = "/" /\ Parses(p)
    BY <1>2 DEF Acceptable, BeginsWithSlash
  <2>2. 1 \in 1..Len(p)
    <3>1. Len(p) \in Nat /\ Len(p) # 0
      BY <1>2, <2>1, EmptySeq
    <3> QED BY <3>1
  <2>3. RexIn("/") \notin BadRexes
    BY <2>1, <2>2 DEF Parses
  <2> QED BY <2>3, TokenAssumption DEF RexIn
<1>4. w \in Seq(Letters) /\ Len(w) \in Nat /\ w[Len(w)] = "*"
  BY DEF EndsWild
<1>5. Parses(w)
  <2>1. ASSUME NEW i \in 1..Len(w)
        PROVE  w[i] \notin Unclosed /\ (w[i] = "*" => i = Len(w)) /\ RexIn(w[i]) \notin BadRexes
    <3>1. CASE i = Len(w)
      <4>1. "*" \notin Unclosed /\ "*" \notin Regexps
        BY TokenAssumption
      <4> QED BY <1>3, <1>4, <3>1, <4>1 DEF RexIn
    <3>2. CASE i # Len(w)
      <4>1. i \in 1..(Len(w) - 1)
        BY <1>4, <3>2
      <4>2. ~ Wild(w[i])
        BY <4>1 DEF EndsWild
      <4> DEFINE x == w[i]
      <4>3. TypeOf(x) = "Static"
        BY <4>2 DEF Wild
      <4> HIDE DEF x
      <4>4. x \notin Unclosed /\ x \notin Regexps /\ x # "*"
        BY <4>3 DEF TypeOf
      <4> QED BY <1>3, <4>4 DEF RexIn, x
    <3> QED BY <3>1, <3>2
  <2> QED BY <2>1 DEF Parses
<1>6. Name(w, Len(w)) = n
  <2>1. Parses(p) /\ Shape(p) = Shape(w)
    BY <1>1, <1>2 DEF Acceptable
  <2> QED BY <1>2, <1>4, <1>5, <2>1, ShapeTells
<1>7. Name(w, Len(w)) \in DOMAIN t
  BY <1>6 DEF Leaves
<1> QED BY <1>5, <1>7, WildFound

(* Every pattern that is mounted is text.                                  *)
StaticMounts == \A p \in MountPatterns : \A i \in 1..Len(p) : ~ Wild(p[i])

(* The last pattern that a mount registers.                                *)
WildcardOf(p) == IF p # <<>> /\ Last(p) = "/" THEN p \o <<"*">> ELSE p \o <<"/", "*">>

(* The wildcard of a mount, and what it takes to have its shape.           *)
WildcardFits(p) ==
  /\ EndsWild(WildcardOf(p))
  /\ Len(p) \in Nat /\ Len(p \o <<"/">>) = Len(p) + 1 /\ Last(p \o <<"/">>) = "/"
  /\ Len(WildcardOf(p)) \in {Len(p) + 1, Len(p) + 2}
  /\ OnExistingPath(p) \/ ~ FindPattern(tree, WildcardOf(p))

(* The wildcard of a mount of text is looked for before.                   *)
LEMMA WildcardFacts ==
  ASSUME StaticMounts, NEW p \in MountPatterns
  PROVE  WildcardFits(p)
<1> DEFINE w == WildcardOf(p)
           l == Len(p)
<1>1. p \in Seq(Letters) /\ l \in Nat /\ <<"/">> \in Seq(Letters) /\ <<"*">> \in Seq(Letters)
      /\ <<"/", "*">> \in Seq(Letters) /\ "*" \in Letters
  <2>1. p \in Seq(Letters) /\ "/" \in Letters /\ "*" \in Letters
    BY CallAssumption, CharAssumption DEF Letters
  <2> QED BY <2>1, LenProperties
<1>2. ~ Wild("/") /\ Wild("*")
  BY TokenAssumption DEF Wild, TypeOf
<1>3. \A i \in 1..l : ~ Wild(p[i])
  BY DEF StaticMounts
<1>4. w \in AllPatterns
  <2>1. \/ w = MountedPatterns(p)[1] /\ DOMAIN MountedPatterns(p) = 1..1
        \/ w = MountedPatterns(p)[3] /\ DOMAIN MountedPatterns(p) = 1..3
    BY DEF WildcardOf, MountedPatterns
  <2>2. w \in ToSet(MountedPatterns(p))
    <3> HIDE DEF w
    <3> QED BY <2>1 DEF ToSet
  <2> QED BY <2>2 DEF AllPatterns, MountedSet
<1>5. Len(p \o <<"/">>) = l + 1 /\ Last(p \o <<"/">>) = "/"
  <2> DEFINE s == p \o <<"/">>
  <2>1. Len(s) = l + 1 /\ s[l + 1] = "/"
    BY <1>1
  <2> HIDE DEF s
  <2> QED BY <2>1 DEF Last
<1>6. CASE w = p \o <<"*">>
  <2>1. w \in Seq(Letters) /\ Len(w) = l + 1
    BY <1>1, <1>6, ConcatProperties
  <2>2. w[l + 1] = "*" /\ \A i \in 1..l : w[i] = p[i]
    BY <1>1, <1>6
  <2> HIDE DEF w, l
  <2>3. \A i \in 1..(Len(w) - 1) : ~ Wild(w[i])
    BY <1>1, <1>3, <2>1, <2>2
  <2>4. EndsWild(w)
    <3>1. w # <<>> /\ Len(w) \in Nat
      BY <1>1, <2>1, EmptySeq
    <3> QED BY <1>4, <2>1, <2>2, <2>3, <3>1 DEF EndsWild
  <2>5. OnExistingPath(p) \/ ~ FindPattern(tree, w)
    BY <1>6 DEF OnExistingPath
  <2> QED BY <1>1, <1>5, <2>1, <2>4, <2>5 DEF WildcardFits, w, l
<1>7. CASE w = p \o <<"/", "*">>
  <2>1. w \in Seq(Letters) /\ Len(w) = l + 2
    BY <1>1, <1>7, ConcatProperties
  <2>2. w[l + 1] = "/" /\ w[l + 2] = "*" /\ \A i \in 1..l : w[i] = p[i]
    BY <1>1, <1>7
  <2> HIDE DEF w, l
  <2>3. \A i \in 1..(Len(w) - 1) : ~ Wild(w[i])
    <3>1. \A i \in 1..(Len(w) - 1) : i \in 1..l \/ i = l + 1
      BY <1>1, <2>1
    <3> QED BY <1>2, <1>3, <2>2, <3>1
  <2>4. EndsWild(w)
    <3>1. w # <<>> /\ Len(w) \in Nat
      BY <1>1, <2>1, EmptySeq
    <3> QED BY <1>4, <2>1, <2>2, <2>3, <3>1 DEF EndsWild
  <2>5. OnExistingPath(p) \/ ~ FindPattern(tree, w)
    BY <1>7 DEF OnExistingPath
  <2> QED BY <1>1, <1>5, <2>1, <2>4, <2>5 DEF WildcardFits, w, l
<1> QED BY <1>6, <1>7 DEF WildcardOf

(* What is left of the mount of p, whose wildcard is not in the table.     *)
LeftOf(p, list) ==
  LET w == WildcardOf(p)
  IN  \/ list = <<w>>
      \/ Len(w) = Len(p) + 2 /\ list \in {<<p \o <<"/">>, w>>, <<p, p \o <<"/">>, w>>}

Mounting(p) == LeftOf(p, pending) /\ Shape(WildcardOf(p)) \notin DOMAIN Table

(* While a mount is in progress its wildcard is not in the table.          *)
MountInv == pending = <<>> \/ \E p \in MountPatterns : Mounting(p)

(* A mount begins with all of it left.                                     *)
LEMMA MountBegins ==
  ASSUME NEW p \in MountPatterns
  PROVE  LeftOf(p, MountedPatterns(p))
<1> DEFINE a == p \o <<"*">>
           b == p \o <<"/">>
           c == p \o <<"/", "*">>
<1>1. CASE p # <<>> /\ Last(p) = "/"
  <2>1. MountedPatterns(p) = <<a>> /\ WildcardOf(p) = a
    BY <1>1 DEF MountedPatterns, WildcardOf
  <2> HIDE DEF a
  <2> QED BY <2>1 DEF LeftOf
<1>2. CASE ~ (p # <<>> /\ Last(p) = "/")
  <2>1. MountedPatterns(p) = <<p, b, c>> /\ WildcardOf(p) = c
    BY <1>2 DEF MountedPatterns, WildcardOf
  <2>2. Len(c) = Len(p) + 2
    <3>1. p \in Seq(Letters) /\ <<"/", "*">> \in Seq(Letters)
      <4>1. p \in Seq(Letters) /\ "/" \in Letters /\ "*" \in Letters
        BY CallAssumption, CharAssumption DEF Letters
      <4> QED BY <4>1
    <3>2. Len(p \o <<"/", "*">>) = Len(p) + Len(<<"/", "*">>)
      BY <3>1, ConcatProperties
    <3> QED BY <3>2
  <2> HIDE DEF b, c
  <2>3. LeftOf(p, <<p, b, c>>)
    BY <2>1, <2>2 DEF LeftOf, b
  <2> QED BY <2>1, <2>3
<1> QED BY <1>1, <1>2

(* One registration of what is left, which fails or leaves the rest.       *)
Goes(p, list) ==
  \/ Tail(list) = <<>>
  \/ LeftOf(p, Tail(list)) /\ Len(Head(list)) # Len(WildcardOf(p))

(* It does one or the other.                                               *)
LEMMA MountGoes ==
  ASSUME StaticMounts, NEW p \in MountPatterns, NEW list, LeftOf(p, list)
  PROVE  Goes(p, list)
<1> DEFINE w == WildcardOf(p)
           b == p \o <<"/">>
<1>1. Len(p) \in Nat /\ Len(b) = Len(p) + 1
  BY WildcardFacts DEF WildcardFits
<1>2. list = <<w>> \/ (Len(w) = Len(p) + 2 /\ (list = <<b, w>> \/ list = <<p, b, w>>))
  BY DEF LeftOf
<1> HIDE DEF b, w
<1>3. CASE list = <<w>>
  <2>1. Tail(list) = <<>>
    BY <1>3
  <2> QED BY <2>1 DEF Goes
<1>4. CASE Len(w) = Len(p) + 2 /\ list = <<b, w>>
  <2>1. Tail(list) = <<w>> /\ Head(list) = b
    BY <1>4
  <2>2. LeftOf(p, Tail(list))
    BY <2>1 DEF LeftOf, w
  <2>3. Len(Head(list)) # Len(w)
    BY <1>1, <1>4, <2>1
  <2> QED BY <2>2, <2>3 DEF Goes, w
<1>5. CASE Len(w) = Len(p) + 2 /\ list = <<p, b, w>>
  <2>1. Tail(list) = <<b, w>> /\ Head(list) = p
    BY <1>5
  <2>2. LeftOf(p, Tail(list))
    BY <1>5, <2>1 DEF LeftOf, w, b
  <2>3. Len(Head(list)) # Len(w)
    BY <1>1, <1>5, <2>1
  <2> QED BY <2>2, <2>3 DEF Goes, w
<1> QED BY <1>2, <1>3, <1>4, <1>5

(* A registration adds no more to the table than the shape of its pattern. *)
LEMMA TableGrows ==
  ASSUME Good(tree), NEW p \in AllPatterns, tree' = InsertRoute("ALL", p).tree
  PROVE  DOMAIN Table' \subseteq DOMAIN Table \cup {Shape(p)}
<1> DEFINE r == InsertRoute("ALL", p)
<1>1. Registers(tree, "ALL", p, r)
  BY RouteRegisters
<1>2. tree' = r.tree
  OBVIOUS
<1> HIDE DEF r
<1>3. \/ TableIn(tree') = Abstract!Put(TableIn(tree), Abstract!MethodsOf("ALL"), p)
      \/ TableIn(tree') = TableIn(tree)
  <2>1. "ALL" \in Methods \cup {"ALL"}
    OBVIOUS
  <2>2. \/ /\ Acceptable(p) /\ r.ok = TRUE
           /\ TableIn(r.tree) = Abstract!Put(TableIn(tree), Abstract!MethodsOf("ALL"), p)
        \/ ~ Acceptable(p) /\ r.ok = FALSE /\ TableIn(r.tree) = TableIn(tree)
    BY <1>1, <2>1, RegisteredTable
  <2> QED BY <1>2, <2>2
<1>4. Table = TableIn(tree) /\ Table' = TableIn(tree')
  BY DEF Table, TableIn
<1>5. DOMAIN Abstract!Put(TableIn(tree), Abstract!MethodsOf("ALL"), p) = DOMAIN TableIn(tree) \cup {Shape(p)}
  BY DEF Abstract!Put
<1> QED BY <1>3, <1>4, <1>5

(* The calls keep it.                                                      *)
LEMMA MountStep ==
  ASSUME StaticMounts, TreeInv, MountInv, [Next]_vars
  PROVE  MountInv'
<1>1. Good(tree) /\ pending \in BoundedSeq(MountedSet, 3)
  BY DEF TreeInv
<1>2. ASSUME NEW p \in Patterns, NEW m \in Methods \cup {"ALL"}, Handle(m, p)
      PROVE  MountInv'
  <2>1. pending' = <<>>
    BY <1>2 DEF Handle
  <2> QED BY <2>1 DEF MountInv
<1>3. ASSUME NEW p \in MountPatterns, Mount(p)
      PROVE  MountInv'
  <2>1. tree' = tree /\ pending' = IF OnExistingPath(p) THEN <<>> ELSE MountedPatterns(p)
    BY <1>3 DEF Mount
  <2>2. CASE OnExistingPath(p)
    <3>1. pending' = <<>>
      BY <2>1, <2>2
    <3> QED BY <3>1 DEF MountInv
  <2>3. CASE ~ OnExistingPath(p)
    <3> DEFINE w == WildcardOf(p)
    <3>1. EndsWild(w) /\ ~ FindPattern(tree, w)
      BY <2>3, WildcardFacts DEF WildcardFits
    <3> HIDE DEF w
    <3>2. Shape(w) \notin DOMAIN TableIn(tree)
      BY <1>1, <3>1, TabledIsFound
    <3>3. Table' = TableIn(tree)
      BY <2>1 DEF Table, TableIn
    <3>4. pending' = MountedPatterns(p)
      BY <2>1, <2>3
    <3>5. LeftOf(p, pending')
      BY <3>4, MountBegins
    <3>6. Mounting(p)'
      BY <3>2, <3>3, <3>5 DEF Mounting, w
    <3> QED BY <3>6 DEF MountInv
  <2> QED BY <2>2, <2>3
<1>4. ASSUME MountNext
      PROVE  MountInv'
  <2>1. pending # <<>> /\ pending' \in {<<>>, Tail(pending)} /\ tree' = InsertRoute("ALL", Head(pending)).tree
    BY <1>4 DEF MountNext
  <2>2. PICK p \in MountPatterns : LeftOf(p, pending) /\ Shape(WildcardOf(p)) \notin DOMAIN Table
    BY <2>1 DEF MountInv, Mounting
  <2>3. Head(pending) \in AllPatterns
    <3>1. PICK n \in 0..3 : pending \in [1..n -> MountedSet]
      BY <1>1 DEF BoundedSeq, SeqOf
    <3>2. pending \in Seq(MountedSet)
      BY <3>1
    <3>3. Head(pending) \in MountedSet
      BY <2>1, <3>2
    <3> QED BY <3>3 DEF AllPatterns
  <2>4. Goes(p, pending)
    BY <2>2, MountGoes
  <2>5. CASE pending' = <<>>
    BY <2>5 DEF MountInv
  <2>6. CASE pending' # <<>>
    <3> DEFINE x == Head(pending)
               w == WildcardOf(p)
    <3>1. pending' = Tail(pending) /\ LeftOf(p, Tail(pending)) /\ Len(x) # Len(w)
      BY <2>1, <2>4, <2>6 DEF Goes
    <3>2. x \in AllPatterns /\ x \in Seq(Letters)
      BY <2>3, PatternsTyped
    <3>3. w \in Seq(Letters)
      BY WildcardFacts DEF WildcardFits, EndsWild
    <3> HIDE DEF x, w
    <3>4. Len(Shape(x)) = Len(x) /\ Len(Shape(w)) = Len(w)
      <4>1. \A s \in Seq(Letters) : Len(Shape(s)) = Len(s)
        BY LenProperties DEF Shape
      <4> QED BY <3>2, <3>3, <4>1
    <3>5. Shape(x) # Shape(w)
      BY <3>1, <3>4
    <3>6. DOMAIN Table' \subseteq DOMAIN Table \cup {Shape(x)}
      BY <1>1, <2>1, <3>2, TableGrows DEF x
    <3>7. Shape(w) \notin DOMAIN Table'
      BY <2>2, <3>5, <3>6 DEF w
    <3>8. Mounting(p)'
      BY <3>1, <3>7 DEF Mounting, w
    <3> QED BY <3>8 DEF MountInv
  <2> QED BY <2>5, <2>6
<1>5. CASE UNCHANGED vars
  <2>1. pending' = pending /\ Table' = Table
    BY <1>5 DEF vars, Table
  <2>2. \A p \in MountPatterns : Mounting(p) => Mounting(p)'
    BY <2>1 DEF Mounting
  <2> QED BY <2>1, <2>2 DEF MountInv
<1> QED BY <1>2, <1>3, <1>4, <1>5 DEF Next

(* What it is to the step that registers the wildcard.                     *)
LEMMA MountKeeps ==
  ASSUME StaticMounts, MountInv, pending # <<>>, Head(pending) # <<>>, Last(Head(pending)) = "*"
  PROVE  Shape(Head(pending)) \notin DOMAIN Table
<1>1. PICK p \in MountPatterns : LeftOf(p, pending) /\ Shape(WildcardOf(p)) \notin DOMAIN Table
  BY DEF MountInv, Mounting
<1> DEFINE w == WildcardOf(p)
           b == p \o <<"/">>
<1>2. Last(b) = "/" /\ Len(p) \in Nat /\ p \in Seq(Letters)
  BY WildcardFacts, CallAssumption DEF WildcardFits
<1>3. p # <<>> => Last(p) # "*"
  <2>1. SUFFICES ASSUME p # <<>>
                 PROVE  Last(p) # "*"
    OBVIOUS
  <2>2. Len(p) \in 1..Len(p)
    <3>1. Len(p) # 0
      BY <1>2, <2>1, EmptySeq
    <3> QED BY <1>2, <3>1
  <2>3. ~ Wild(p[Len(p)])
    BY <2>2 DEF StaticMounts
  <2>4. Wild("*")
    BY TokenAssumption DEF Wild, TypeOf
  <2> QED BY <2>3, <2>4 DEF Last
<1>4. Head(pending) = w \/ Head(pending) = b \/ Head(pending) = p
  <2>1. pending = <<w>> \/ pending = <<b, w>> \/ pending = <<p, b, w>>
    BY <1>1 DEF LeftOf
  <2> HIDE DEF w, b
  <2> QED BY <2>1
<1> HIDE DEF w, b
<1>5. Head(pending) = w
  BY <1>2, <1>3, <1>4
<1> QED BY <1>1, <1>5 DEF w

(* A mount of text never puts its wildcard over one that is already there, *)
(* whether an earlier mount or a registration by hand put it there: the    *)
(* search for the pattern, which looks at one child per type only, does    *)
(* find what is below text.                                                *)
THEOREM MountsAreKept ==
  ASSUME StaticMounts
  PROVE  Spec => MountNeverOverwrites
<1>1. Init => MountInv
  BY DEF Init, MountInv
<1>2. TreeInv /\ MountInv /\ [Next]_vars => MountInv'
  BY MountStep
<1> DEFINE Kept == pending # <<>> /\ Head(pending) # <<>> /\ Last(Head(pending)) = "*"
                     => Shape(Head(pending)) \notin DOMAIN Table
<1>3. MountInv => Kept
  BY MountKeeps
<1> HIDE DEF Kept
<1>4. Spec => []Kept
  BY <1>1, <1>2, <1>3, TreeInvHolds, PTL DEF Spec
<1>5. Kept => [Kept]_vars
  OBVIOUS
<1>6. Spec => [][Kept]_vars
  BY <1>4, <1>5, PTL
<1> QED BY <1>6 DEF Kept, MountNeverOverwrites
=============================================================================
