--------------------------- MODULE SequenceLemmas ---------------------------
(***************************************************************************)
(* Facts about numbers and sequences that the proofs of the components     *)
(* need and the library does not have.  Induction is stated with sets      *)
(* instead of operators: the numbers for which something holds are a set,  *)
(* and a set without a least member is empty.                              *)
(***************************************************************************)
EXTENDS SequencesExt, SequenceTheorems, WellFoundedInduction, TLAPS

-----------------------------------------------------------------------------
(* Induction                                                               *)

(* A set of naturals has a least member.                                   *)
LEMMA LeastExists ==
  ASSUME NEW T \in SUBSET Nat, T # {}
  PROVE  \E x \in T : \A y \in T : x <= y
<1> DEFINE R == OpToRel(<, Nat)
<1>1. IsWellFoundedOn(R, Nat)
  BY NatLessThanWellFounded
<1>2. PICK x \in T : \A y \in T : <<y, x>> \notin R
  <2> HIDE DEF R
  <2> QED BY <1>1, WFMin
<1>3. \A y \in T : ~ (y < x)
  BY <1>2 DEF OpToRel
<1> HIDE DEF R
<1> QED BY <1>3

(* Nor does it go on for ever if it is bounded.                            *)
LEMMA GreatestExists ==
  ASSUME NEW T \in SUBSET Nat, T # {}, NEW n \in Nat, \A y \in T : y <= n
  PROVE  \E x \in T : \A y \in T : y <= x
<1> DEFINE D == {n - y : y \in T}
<1>1. \A y \in T : y \in Nat /\ n - y \in Nat
  OBVIOUS
<1>2. D \in SUBSET Nat /\ D # {}
  BY <1>1
<1>3. PICK d \in D : \A e \in D : d <= e
  BY <1>2, LeastExists
<1>4. PICK x \in T : d = n - x
  OBVIOUS
<1>5. ASSUME NEW y \in T
      PROVE  y <= x
  <2>1. n - x <= n - y
    BY <1>3, <1>4
  <2> QED BY <1>1, <2>1
<1> QED BY <1>5

(* A set with 0 and with the successor of each member has all naturals.    *)
LEMMA SetInduction ==
  ASSUME NEW S, 0 \in S, \A n \in Nat : n \in S => n + 1 \in S
  PROVE  Nat \subseteq S
<1> SUFFICES ASSUME Nat \ S # {} PROVE FALSE
  OBVIOUS
<1>1. PICK x \in Nat \ S : \A y \in Nat \ S : x <= y
  BY LeastExists
<1>2. x # 0 /\ x - 1 \in Nat /\ x - 1 \notin Nat \ S
  BY <1>1
<1> QED BY <1>1, <1>2

(* Min and Max of FiniteSetsExt are what they should be.                   *)
LEMMA MinIsLeast ==
  ASSUME NEW T \in SUBSET Nat, T # {}
  PROVE  Min(T) \in T /\ \A y \in T : Min(T) <= y
BY LeastExists DEF Min

(* Max exists for a bounded set only.                                      *)
LEMMA MaxIsGreatest ==
  ASSUME NEW T \in SUBSET Nat, T # {}, NEW n \in Nat, \A y \in T : y <= n
  PROVE  Max(T) \in T /\ \A y \in T : y <= Max(T)
<1>1. \E x \in T : \A y \in T : x >= y
  BY GreatestExists
<1> QED BY <1>1 DEF Max

-----------------------------------------------------------------------------
(* FlattenSeq                                                              *)

(* The equation of the function that FlattenSeq is made with.              *)
Flattens(g, ss, n) ==
  g = [i \in 1..n |-> IF i = 1 THEN ss[i] ELSE g[i - 1] \o ss[i]]

(* What the equation says of one value.                                    *)
LEMMA FlattensValue ==
  ASSUME NEW g, NEW ss, NEW n, Flattens(g, ss, n), NEW i \in 1..n
  PROVE  g[i] = IF i = 1 THEN ss[i] ELSE g[i - 1] \o ss[i]
<1> DEFINE f == [j \in 1..n |-> IF j = 1 THEN ss[j] ELSE g[j - 1] \o ss[j]]
<1>1. f[i] = IF i = 1 THEN ss[i] ELSE g[i - 1] \o ss[i]
  OBVIOUS
<1>2. g = f
  BY DEF Flattens
<1> HIDE DEF f
<1> QED BY <1>1, <1>2

(* The equation has a solution.                                            *)
LEMMA FlattensExists ==
  ASSUME NEW ss
  PROVE  \A n \in Nat : \E g : Flattens(g, ss, n)
<1> DEFINE N == {n \in Nat : \E g : Flattens(g, ss, n)}
<1>1. 0 \in N
  <2>1. Flattens([i \in 1..0 |-> ss[i]], ss, 0)
    BY DEF Flattens
  <2> QED BY <2>1
<1>2. ASSUME NEW n \in Nat, n \in N
      PROVE  n + 1 \in N
  <2>1. PICK g : Flattens(g, ss, n)
    BY <1>2
  <2> DEFINE h == [i \in 1..(n + 1) |-> IF i <= n THEN g[i]
                                        ELSE IF i = 1 THEN ss[i] ELSE g[n] \o ss[i]]
  <2>2. \A i \in 1..(n + 1) : h[i] = IF i = 1 THEN ss[i] ELSE h[i - 1] \o ss[i]
    <3> SUFFICES ASSUME NEW i \in 1..(n + 1)
                 PROVE  h[i] = IF i = 1 THEN ss[i] ELSE h[i - 1] \o ss[i]
      OBVIOUS
    <3>1. CASE i <= n
      <4>1. i = 1 \/ (i - 1 \in 1..(n + 1) /\ i - 1 <= n)
        BY <3>1
      <4>2. g[i] = IF i = 1 THEN ss[i] ELSE g[i - 1] \o ss[i]
        BY <2>1, <3>1, FlattensValue
      <4> QED BY <3>1, <4>1, <4>2
    <3>2. CASE i = n + 1
      <4>1. i = 1 \/ (i - 1 \in 1..(n + 1) /\ i - 1 <= n)
        BY <3>2
      <4> QED BY <3>2, <4>1
    <3> QED BY <3>1, <3>2
  <2>3. Flattens(h, ss, n + 1)
    BY <2>2 DEF Flattens
  <2> QED BY <2>3
<1>3. Nat \subseteq N
  <2> HIDE DEF N
  <2> QED BY <1>1, <1>2, SetInduction
<1> QED BY <1>3

(* Two sequences are the same up to the k-th place.                        *)
Agree(s, t, k) == \A i \in 1..k : s[i] = t[i]

(* Its values depend on the sequences up to there only.                    *)
LEMMA FlattensAgree ==
  ASSUME NEW ss, NEW tt, NEW g, NEW h, NEW n \in Nat, NEW m \in Nat, NEW k \in Nat,
         Flattens(g, ss, n), Flattens(h, tt, m),
         k <= n, k <= m, Agree(ss, tt, k)
  PROVE  Agree(g, h, k)
<1> DEFINE D == {i \in 1..k : g[i] # h[i]}
<1> SUFFICES ASSUME D # {} PROVE FALSE
  BY DEF Agree
<1>1. PICK x \in D : \A y \in D : x <= y
  <2>1. D \in SUBSET Nat
    OBVIOUS
  <2> QED BY <2>1, LeastExists
<1>2. g[x] = IF x = 1 THEN ss[x] ELSE g[x - 1] \o ss[x]
  BY FlattensValue
<1>3. h[x] = IF x = 1 THEN tt[x] ELSE h[x - 1] \o tt[x]
  BY FlattensValue
<1>4. x = 1 \/ g[x - 1] = h[x - 1]
  BY <1>1
<1>5. ss[x] = tt[x]
  BY DEF Agree
<1> QED BY <1>2, <1>3, <1>4, <1>5

(* FlattenSeq of a sequence that is not empty is the last of these values. *)
LEMMA FlattenIsLast ==
  ASSUME NEW S, NEW ss \in Seq(S), ss # <<>>
  PROVE  \E g : Flattens(g, ss, Len(ss)) /\ FlattenSeq(ss) = g[Len(ss)]
<1>1. Len(ss) \in Nat /\ Len(ss) # 0
  BY EmptySeq
<1> DEFINE f == CHOOSE g : Flattens(g, ss, Len(ss))
<1>2. Flattens(f, ss, Len(ss))
  BY <1>1, FlattensExists
<1>3. FlattenSeq(ss) = f[Len(ss)]
  BY <1>1 DEF FlattenSeq, Flattens
<1> HIDE DEF f
<1> QED BY <1>2, <1>3

(* Nothing flattens to nothing.                                            *)
LEMMA FlattenEmpty == FlattenSeq(<<>>) = <<>>
BY DEF FlattenSeq

(* One sequence more is put behind.                                        *)
LEMMA FlattenOneMore ==
  ASSUME NEW S, NEW ss \in Seq(S), NEW tt \in Seq(S), NEW n \in Nat,
         ss # <<>>, n = Len(ss), Len(tt) = n + 1, \A i \in 1..n : ss[i] = tt[i]
  PROVE  FlattenSeq(tt) = FlattenSeq(ss) \o tt[n + 1]
<1>1. n # 0 /\ n \in 1..n /\ n + 1 \in 1..(n + 1) /\ n + 1 # 1 /\ (n + 1) - 1 = n /\ n <= n /\ n <= n + 1
  BY EmptySeq
<1>2. PICK g : Flattens(g, ss, n) /\ FlattenSeq(ss) = g[n]
  BY FlattenIsLast
<1>3. tt # <<>>
  BY EmptySeq
<1>4. PICK h : Flattens(h, tt, n + 1) /\ FlattenSeq(tt) = h[n + 1]
  BY <1>3, FlattenIsLast
<1>5. Agree(g, h, n)
  <2> DEFINE m == n + 1
  <2>1. m \in Nat /\ n <= n /\ n <= m /\ Flattens(g, ss, n) /\ Flattens(h, tt, m)
    BY <1>1, <1>2, <1>4
  <2>2. Agree(ss, tt, n)
    BY DEF Agree
  <2> HIDE DEF m
  <2> QED BY <2>1, <2>2, FlattensAgree
<1>6. h[n + 1] = h[n] \o tt[n + 1]
  <2> DEFINE f == [i \in 1..(n + 1) |-> IF i = 1 THEN tt[i] ELSE h[i - 1] \o tt[i]]
  <2>1. f[n + 1] = h[n] \o tt[n + 1]
    BY <1>1
  <2>2. h = f
    BY <1>4 DEF Flattens
  <2> HIDE DEF f
  <2> QED BY <2>1, <2>2
<1> QED BY <1>1, <1>2, <1>4, <1>5, <1>6 DEF Agree

(* A sequence that is appended is put behind.                              *)
LEMMA FlattenAppend ==
  ASSUME NEW S, NEW ss \in Seq(Seq(S)), NEW t \in Seq(S)
  PROVE  FlattenSeq(Append(ss, t)) = FlattenSeq(ss) \o t
<1>1. CASE ss = <<>>
  <2>1. Append(ss, t) = <<t>> /\ <<t>> \in Seq(Seq(S)) /\ <<t>> # <<>> /\ Len(<<t>>) = 1
    BY <1>1
  <2>2. PICK h : Flattens(h, <<t>>, 1) /\ FlattenSeq(<<t>>) = h[1]
    BY <2>1, FlattenIsLast
  <2>3. h[1] = t
    BY <2>2, FlattensValue
  <2> QED BY <1>1, <2>1, <2>2, <2>3, FlattenEmpty, ConcatEmptySeq
<1>2. CASE ss # <<>>
  <2> DEFINE tt == Append(ss, t)
  <2>1. tt \in Seq(Seq(S)) /\ Len(tt) = Len(ss) + 1 /\ tt[Len(ss) + 1] = t
        /\ \A i \in 1..Len(ss) : ss[i] = tt[i]
    BY AppendProperties
  <2> SUFFICES FlattenSeq(tt) = FlattenSeq(ss) \o t
    OBVIOUS
  <2> DEFINE n == Len(ss)
  <2>2. n \in Nat /\ n = Len(ss) /\ Len(tt) = n + 1 /\ \A i \in 1..n : ss[i] = tt[i]
    BY <2>1
  <2> HIDE DEF tt, n
  <2>3. FlattenSeq(tt) = FlattenSeq(ss) \o tt[n + 1]
    BY <1>2, <2>1, <2>2, FlattenOneMore, Zenon
  <2> QED BY <2>1, <2>2, <2>3
<1> QED BY <1>1, <1>2

(* The same for functions on the numbers from 1.                           *)
LEMMA FlattenProlonged ==
  ASSUME NEW S, NEW n \in Nat, NEW f \in [1..n -> Seq(S)], NEW g \in [1..(n + 1) -> Seq(S)],
         \A i \in 1..n : f[i] = g[i]
  PROVE  FlattenSeq(g) = FlattenSeq(f) \o g[n + 1]
<1> DEFINE t == g[n + 1]
<1>1. f \in Seq(Seq(S)) /\ Len(f) = n /\ t \in Seq(S)
  BY SeqDef
<1>2. g \in Seq(Seq(S)) /\ Len(g) = n + 1 /\ t = g[n + 1]
  BY SeqDef
<1> HIDE DEF t
<1>3. g = Append(f, t)
  <2>1. /\ Append(f, t) \in Seq(Seq(S)) /\ Len(Append(f, t)) = n + 1
        /\ Append(f, t)[n + 1] = t /\ \A i \in 1..n : Append(f, t)[i] = f[i]
    BY <1>1, AppendProperties
  <2>2. \A i \in 1..(n + 1) : i \in 1..n \/ i = n + 1
    OBVIOUS
  <2>3. \A i \in 1..(n + 1) : g[i] = Append(f, t)[i]
    BY <1>2, <2>1, <2>2
  <2> QED BY <1>2, <2>1, <2>3, SeqEqual
<1> QED BY <1>1, <1>3, FlattenAppend DEF t

(* And for one on no number.                                               *)
LEMMA FlattenNone ==
  ASSUME NEW f, f \in [1..0 -> {}]
  PROVE  FlattenSeq(f) = <<>>
<1>1. f \in Seq({}) /\ Len(f) = 0
  BY SeqDef
<1> QED BY <1>1, EmptySeq, FlattenEmpty

(* Sequences over a set flatten to one over this set.                      *)
LEMMA FlattenType ==
  ASSUME NEW S, NEW ss \in Seq(Seq(S))
  PROVE  FlattenSeq(ss) \in Seq(S)
<1>1. CASE ss = <<>>
  BY <1>1, FlattenEmpty, EmptySeq
<1>2. CASE ss # <<>>
  <2>1. PICK g : Flattens(g, ss, Len(ss)) /\ FlattenSeq(ss) = g[Len(ss)]
    BY <1>2, FlattenIsLast
  <2>2. Len(ss) \in Nat /\ Len(ss) \in 1..Len(ss)
    BY <1>2
  <2> DEFINE D == {i \in 1..Len(ss) : g[i] \notin Seq(S)}
  <2>3. ASSUME D # {} PROVE FALSE
    <3>1. D \in SUBSET Nat
      OBVIOUS
    <3>2. PICK x \in D : \A y \in D : x <= y
      BY <2>3, <3>1, LeastExists
    <3>3. ss[x] \in Seq(S)
      OBVIOUS
    <3>4. g[x] = IF x = 1 THEN ss[x] ELSE g[x - 1] \o ss[x]
      BY <2>1, FlattensValue
    <3>5. x = 1 \/ g[x - 1] \in Seq(S)
      BY <3>2
    <3>6. g[x] \in Seq(S)
      BY <3>3, <3>4, <3>5, ConcatProperties
    <3> QED BY <3>6
  <2> QED BY <2>1, <2>2, <2>3
<1> QED BY <1>1, <1>2

-----------------------------------------------------------------------------
(* Front, Last and IsPrefix                                                *)

(* A sequence of one element.                                              *)
LEMMA Singleton ==
  ASSUME NEW S, NEW x \in S
  PROVE  <<x>> \in Seq(S) \ {<<>>} /\ Len(<<x>>) = 1
OBVIOUS

(* A sequence is what is before its last element, and this one.            *)
LEMMA FrontLast ==
  ASSUME NEW S, NEW s \in Seq(S), s # <<>>
  PROVE  /\ Front(s) \in Seq(S) /\ Len(Front(s)) = Len(s) - 1
         /\ Last(s) \in S
         /\ s = Front(s) \o <<Last(s)>>
<1>1. Len(s) \in Nat \ {0}
  BY EmptySeq
<1>2. Front(s) \in Seq(S) /\ Len(Front(s)) = Len(s) - 1
  <2>1. 1 \in Int /\ Len(s) - 1 \in Int /\ \A i \in 1..(Len(s) - 1) : s[i] \in S
    BY <1>1
  <2>2. /\ SubSeq(s, 1, Len(s) - 1) \in Seq(S)
        /\ Len(SubSeq(s, 1, Len(s) - 1)) = IF 1 <= Len(s) - 1 THEN (Len(s) - 1) - 1 + 1 ELSE 0
    BY <2>1, SubSeqProperties
  <2> DEFINE f == SubSeq(s, 1, Len(s) - 1)
  <2>3. f \in Seq(S) /\ Len(f) = IF 1 <= Len(s) - 1 THEN (Len(s) - 1) - 1 + 1 ELSE 0
    BY <2>2
  <2>4. Front(s) = f
    BY DEF Front
  <2> HIDE DEF f
  <2>5. Len(f) = Len(s) - 1
    BY <1>1, <2>3
  <2> QED BY <2>3, <2>4, <2>5
<1>3. SubSeq(s, 1, Len(s)) = SubSeq(s, 1, Len(s) - 1) \o <<s[Len(s)]>>
  BY <1>1, SubSeqRecursiveSecond
<1>4. SubSeq(s, 1, Len(s)) = s
  BY SubSeqFull
<1>5. Last(s) \in S
  BY <1>1 DEF Last
<1> QED BY <1>2, <1>3, <1>4, <1>5 DEF Front, Last

(* And the other way round.                                                *)
LEMMA FrontLastOfConcat ==
  ASSUME NEW S, NEW s \in Seq(S), NEW x \in S
  PROVE  /\ s \o <<x>> \in Seq(S) \ {<<>>}
         /\ Front(s \o <<x>>) = s /\ Last(s \o <<x>>) = x
<1> DEFINE t == s \o <<x>>
<1>1. t \in Seq(S) /\ Len(t) = Len(s) + 1 /\ t[Len(s) + 1] = x /\ t # <<>>
      /\ \A i \in 1..Len(s) : t[i] = s[i]
  <2>1. <<x>> \in Seq(S) /\ Len(<<x>>) = 1 /\ <<x>>[1] = x
    OBVIOUS
  <2>2. Len(s) \in Nat
    OBVIOUS
  <2> QED BY <2>1, <2>2, ConcatProperties, EmptySeq
<1> HIDE DEF t
<1>2. SubSeq(t, 1, Len(s)) = s
  <2>1. Len(SubSeq(t, 1, Len(s))) = Len(s) /\ SubSeq(t, 1, Len(s)) \in Seq(S)
    BY <1>1
  <2>2. \A i \in 1..Len(s) : SubSeq(t, 1, Len(s))[i] = s[i]
    BY <1>1
  <2> QED BY <2>1, <2>2, SeqEqual
<1>3. (Len(s) + 1) - 1 = Len(s)
  OBVIOUS
<1>4. Front(t) = s /\ Last(t) = x
  BY <1>1, <1>2, <1>3 DEF Front, Last
<1> QED BY <1>1, <1>4 DEF t

(* What a prefix leaves makes the whole.                                   *)
LEMMA PrefixAndRest ==
  ASSUME NEW S, NEW s \in Seq(S), NEW t \in Seq(S), IsPrefix(s, t)
  PROVE  /\ SubSeq(t, Len(s) + 1, Len(t)) \in Seq(S)
         /\ Len(SubSeq(t, Len(s) + 1, Len(t))) = Len(t) - Len(s)
         /\ t = s \o SubSeq(t, Len(s) + 1, Len(t))
<1>1. Len(s) <= Len(t) /\ SubSeq(t, 1, Len(s)) = s /\ Len(s) \in Nat /\ Len(t) \in Nat
  BY SubSeqFull DEF IsPrefix
<1> DEFINE r == SubSeq(t, Len(s) + 1, Len(t))
<1>2. r \in Seq(S) /\ Len(r) = Len(t) - Len(s)
  BY <1>1
<1>3. t = SubSeq(t, 1, Len(s)) \o r
  <2>1. 1 \in 1..Len(t) + 1 /\ Len(s) \in (1 - 1)..Len(t) /\ Len(t) \in Len(s)..Len(t)
    BY <1>1
  <2>2. SubSeq(t, 1, Len(s)) \o SubSeq(t, Len(s) + 1, Len(t)) = SubSeq(t, 1, Len(t))
    BY <2>1, ConcatAdjacentSubSeq
  <2> QED BY <2>2, SubSeqFull
<1> QED BY <1>1, <1>2, <1>3

(* A sequence is a prefix of what begins with it, and what is left of this *)
(* is the rest.                                                            *)
LEMMA ConcatPrefix ==
  ASSUME NEW S, NEW s \in Seq(S), NEW r \in Seq(S)
  PROVE  /\ IsPrefix(s, s \o r)
         /\ SubSeq(s \o r, Len(s) + 1, Len(s \o r)) = r
<1> DEFINE t == s \o r
<1>1. t \in Seq(S) /\ Len(t) = Len(s) + Len(r) /\ Len(s) \in Nat /\ Len(r) \in Nat
      /\ \A i \in 1..Len(t) : t[i] = IF i <= Len(s) THEN s[i] ELSE r[i - Len(s)]
  BY ConcatProperties
<1> HIDE DEF t
<1>2. IsPrefix(s, t)
  <2>1. SubSeq(t, 1, Len(s)) = s
    <3>1. SubSeq(t, 1, Len(s)) \in Seq(S) /\ Len(SubSeq(t, 1, Len(s))) = Len(s)
      BY <1>1
    <3>2. \A i \in 1..Len(s) : SubSeq(t, 1, Len(s))[i] = s[i]
      BY <1>1
    <3> QED BY <3>1, <3>2, SeqEqual
  <2> QED BY <1>1, <2>1, SubSeqFull DEF IsPrefix
<1>3. SubSeq(t, Len(s) + 1, Len(t)) = r
  <2> DEFINE u == SubSeq(t, Len(s) + 1, Len(t))
  <2>1. u \in Seq(S) /\ Len(u) = Len(r) /\ t = s \o u
    BY <1>1, <1>2, PrefixAndRest
  <2>2. s \o u = s \o r
    BY <2>1 DEF t
  <2> HIDE DEF u
  <2>3. u = r
    BY <2>1, <2>2, ConcatSimplifications
  <2> QED BY <2>3 DEF u
<1> QED BY <1>2, <1>3 DEF t

(* A prefix of the rest makes a longer prefix.                             *)
LEMMA PrefixOfRest ==
  ASSUME NEW S, NEW s \in Seq(S), NEW t \in Seq(S), NEW u \in Seq(S), IsPrefix(t, u)
  PROVE  IsPrefix(s \o t, s \o u)
<1> DEFINE r == SubSeq(u, Len(t) + 1, Len(u))
<1>1. r \in Seq(S) /\ u = t \o r
  BY PrefixAndRest
<1> HIDE DEF r
<1>2. s \o u = (s \o t) \o r /\ s \o t \in Seq(S)
  BY <1>1, ConcatAssociative, ConcatProperties
<1> QED BY <1>1, <1>2, ConcatPrefix

(* A sequence is a prefix of itself.                                       *)
LEMMA PrefixOfItself ==
  ASSUME NEW S, NEW s \in Seq(S)
  PROVE  IsPrefix(s, s)
BY DEF IsPrefix
-----------------------------------------------------------------------------
(* Parts of a flattened sequence                                           *)

(* The first m of some sequences.                                          *)
FirstOf(f, m) == [j \in 1..m |-> f[j]]

(* One of the first more is one sequence more behind them.                 *)
LEMMA FirstOfMore ==
  ASSUME NEW S, NEW n \in Nat, NEW f \in [1..n -> Seq(S)], NEW m \in 1..n
  PROVE  FlattenSeq(FirstOf(f, m)) = FlattenSeq(FirstOf(f, m - 1)) \o f[m]
<1>1. PICK k \in Nat : k = m - 1
  OBVIOUS
<1>2. PICK g : g = FirstOf(f, k)
  OBVIOUS
<1>3. PICK h : h = FirstOf(f, k + 1)
  OBVIOUS
<1>4. g \in [1..k -> Seq(S)] /\ h \in [1..(k + 1) -> Seq(S)] /\ h[k + 1] = f[m]
  BY <1>1, <1>2, <1>3 DEF FirstOf
<1>5. \A i \in 1..k : g[i] = h[i]
  BY <1>1, <1>2, <1>3 DEF FirstOf
<1>6. FlattenSeq(h) = FlattenSeq(g) \o h[k + 1]
  BY <1>1, <1>4, <1>5, FlattenProlonged
<1>7. k + 1 = m
  BY <1>1
<1> QED BY <1>1, <1>2, <1>3, <1>4, <1>6, <1>7

(* The first of some sequences over a set flatten to one over it, none to  *)
(* nothing, and all of them are what they are.                             *)
LEMMA FirstOfType ==
  ASSUME NEW S, NEW n \in Nat, NEW f \in [1..n -> Seq(S)], NEW m \in 0..n
  PROVE  /\ FlattenSeq(FirstOf(f, m)) \in Seq(S)
         /\ FlattenSeq(FirstOf(f, 0)) = <<>>
         /\ FirstOf(f, n) = f
<1>1. FirstOf(f, m) \in Seq(Seq(S))
  <2>1. FirstOf(f, m) \in [1..m -> Seq(S)]
    BY DEF FirstOf
  <2> QED BY <2>1, SeqDef
<1>2. FirstOf(f, 0) \in [1..0 -> {}]
  BY DEF FirstOf
<1>3. FirstOf(f, n) = f
  BY DEF FirstOf
<1> QED BY <1>1, <1>2, <1>3, FlattenType, FlattenNone

(* The sequences behind the first m are over R.                            *)
RestOver(f, m, n, R) == \A j \in (m + 1)..n : f[j] \in Seq(R)

(* What they flatten to begins with the first m.                           *)
BeginsWithFirst(f, m, R) ==
  \E r \in Seq(R) : FlattenSeq(f) = FlattenSeq(FirstOf(f, m)) \o r

(* What is flattened begins with the first m, and what follows is made of  *)
(* what the others are made of.                                            *)
LEMMA FlattenFrom ==
  ASSUME NEW S, NEW R \in SUBSET S, NEW n \in Nat, NEW f \in [1..n -> Seq(S)],
         NEW m \in 0..n, RestOver(f, m, n, R)
  PROVE  BeginsWithFirst(f, m, R)
<1> DEFINE Begins(k) == \E r \in Seq(R) : FlattenSeq(FirstOf(f, k)) = FlattenSeq(FirstOf(f, m)) \o r
           N == {k \in Nat : m + k <= n => Begins(m + k)}
<1>1. FlattenSeq(FirstOf(f, m)) \in Seq(S) /\ FirstOf(f, n) = f
  BY FirstOfType
<1>2. 0 \in N
  <2>1. FlattenSeq(FirstOf(f, m)) = FlattenSeq(FirstOf(f, m)) \o <<>>
    BY <1>1, ConcatEmptySeq
  <2>2. <<>> \in Seq(R) /\ m + 0 = m
    BY EmptySeq
  <2>3. Begins(m)
    BY <2>1, <2>2
  <2> QED BY <2>2, <2>3
<1>3. ASSUME NEW k \in Nat, k \in N
      PROVE  k + 1 \in N
  <2>1. ASSUME m + (k + 1) <= n
        PROVE  Begins(m + (k + 1))
    <3>1. PICK i : i = m + (k + 1)
      OBVIOUS
    <3>2. i \in 1..n /\ i - 1 = m + k /\ i - 1 <= n /\ i \in (m + 1)..n
      BY <2>1, <3>1
    <3>3. Begins(i - 1)
      BY <1>3, <3>2
    <3>4. PICK r \in Seq(R) : FlattenSeq(FirstOf(f, i - 1)) = FlattenSeq(FirstOf(f, m)) \o r
      BY <3>3
    <3>5. PICK t : t = f[i]
      OBVIOUS
    <3>6. t \in Seq(R) /\ t \in Seq(S) /\ r \in Seq(S) /\ r \o t \in Seq(R)
      BY <3>2, <3>5, SeqMonotonic, ConcatProperties DEF RestOver
    <3>7. FlattenSeq(FirstOf(f, i)) = FlattenSeq(FirstOf(f, i - 1)) \o t
      BY <3>2, <3>5, FirstOfMore
    <3>8. (FlattenSeq(FirstOf(f, m)) \o r) \o t = FlattenSeq(FirstOf(f, m)) \o (r \o t)
      BY <1>1, <3>6, ConcatAssociative
    <3>9. Begins(i)
      BY <3>4, <3>6, <3>7, <3>8
    <3> QED BY <3>1, <3>9
  <2>2. k + 1 \in Nat
    OBVIOUS
  <2> HIDE DEF Begins
  <2> QED BY <2>1, <2>2
<1>4. Nat \subseteq N
  <2> HIDE DEF N
  <2> QED BY <1>2, <1>3, SetInduction
<1>5. PICK k \in Nat : m + k = n
  <2>1. n - m \in Nat /\ m + (n - m) = n
    OBVIOUS
  <2> QED BY <2>1
<1>6. Begins(n)
  <2>1. k \in N
    <3> HIDE DEF N
    <3> QED BY <1>4, <1>5
  <2>2. m + k <= n => Begins(m + k)
    <3> HIDE DEF Begins
    <3> QED BY <2>1
  <2>3. m + k <= n
    BY <1>5
  <2> HIDE DEF Begins
  <2> QED BY <1>5, <2>2, <2>3
<1> QED BY <1>1, <1>6 DEF BeginsWithFirst

(* The first n of both are of the same lengths.                            *)
SameLengths(f, g, n) == \A i \in 1..n : Len(f[i]) = Len(g[i])

(* The first m of both flatten to the same length.                         *)
EquallyLong(f, g, m) == Len(FlattenSeq(FirstOf(f, m))) = Len(FlattenSeq(FirstOf(g, m)))

(* Sequences of the same lengths flatten to the same length.               *)
LEMMA FlattenLengths ==
  ASSUME NEW S, NEW T, NEW n \in Nat, NEW f \in [1..n -> Seq(S)], NEW g \in [1..n -> Seq(T)],
         SameLengths(f, g, n), NEW m \in 0..n
  PROVE  EquallyLong(f, g, m)
<1> DEFINE Same(k) == Len(FlattenSeq(FirstOf(f, k))) = Len(FlattenSeq(FirstOf(g, k)))
           N == {k \in Nat : k <= n => Same(k)}
<1>1. 0 \in N
  <2>1. FlattenSeq(FirstOf(f, 0)) = <<>> /\ FlattenSeq(FirstOf(g, 0)) = <<>>
    BY FirstOfType
  <2> QED BY <2>1
<1>2. ASSUME NEW k \in Nat, k \in N
      PROVE  k + 1 \in N
  <2>1. ASSUME k + 1 <= n
        PROVE  Same(k + 1)
    <3>1. k \in 0..n /\ k + 1 \in 1..n /\ (k + 1) - 1 = k /\ Same(k)
      BY <1>2, <2>1
    <3>2. /\ FlattenSeq(FirstOf(f, k + 1)) = FlattenSeq(FirstOf(f, k)) \o f[k + 1]
          /\ FlattenSeq(FirstOf(g, k + 1)) = FlattenSeq(FirstOf(g, k)) \o g[k + 1]
      BY <3>1, FirstOfMore
    <3>3. FlattenSeq(FirstOf(f, k)) \in Seq(S) /\ FlattenSeq(FirstOf(g, k)) \in Seq(T)
      BY <3>1, FirstOfType
    <3>4. f[k + 1] \in Seq(S) /\ g[k + 1] \in Seq(T) /\ Len(f[k + 1]) = Len(g[k + 1])
      BY <3>1 DEF SameLengths
    <3>5. Len(FlattenSeq(FirstOf(f, k)) \o f[k + 1]) = Len(FlattenSeq(FirstOf(f, k))) + Len(f[k + 1])
      BY <3>3, <3>4, ConcatProperties
    <3>6. Len(FlattenSeq(FirstOf(g, k)) \o g[k + 1]) = Len(FlattenSeq(FirstOf(g, k))) + Len(g[k + 1])
      BY <3>3, <3>4, ConcatProperties
    <3> QED BY <3>1, <3>2, <3>4, <3>5, <3>6
  <2>2. k + 1 \in Nat
    OBVIOUS
  <2> HIDE DEF Same
  <2> QED BY <2>1, <2>2
<1>3. Nat \subseteq N
  <2> HIDE DEF N
  <2> QED BY <1>1, <1>2, SetInduction
<1>4. m \in N /\ m <= n
  BY <1>3
<1> QED BY <1>4 DEF EquallyLong

(* The i-th lies in what they flatten to, and what follows is over R.      *)
LiesWithin(f, i, R) ==
  \E r \in Seq(R) : FlattenSeq(f) = (FlattenSeq(FirstOf(f, i - 1)) \o f[i]) \o r

(* One of the sequences lies in what they flatten to between the others.   *)
LEMMA FlattenAround ==
  ASSUME NEW S, NEW R \in SUBSET S, NEW n \in Nat, NEW f \in [1..n -> Seq(S)],
         NEW i \in 1..n, RestOver(f, i, n, R)
  PROVE  LiesWithin(f, i, R)
<1>1. PICK m \in 0..n : m = i
  OBVIOUS
<1>2. RestOver(f, m, n, R)
  BY <1>1
<1>3. PICK r \in Seq(R) : FlattenSeq(f) = FlattenSeq(FirstOf(f, m)) \o r
  <2>1. BeginsWithFirst(f, m, R)
    BY <1>2, FlattenFrom
  <2> QED BY <2>1 DEF BeginsWithFirst
<1>4. FlattenSeq(FirstOf(f, i)) = FlattenSeq(FirstOf(f, i - 1)) \o f[i]
  BY FirstOfMore
<1> QED BY <1>1, <1>3, <1>4 DEF LiesWithin

(* e is made of a, b and c.                                                *)
Between(a, b, c, e) ==
  /\ Len(e) = Len(a) + Len(b) + Len(c)
  /\ \A i \in 1..Len(b) : e[Len(a) + i] = b[i]
  /\ \A i \in 1..Len(c) : e[Len(a) + Len(b) + i] = c[i]
  /\ SubSeq(e, Len(a) + 1, Len(a) + Len(b)) = b

(* What is between two sequences is where the first one ends.              *)
LEMMA ConcatMiddle ==
  ASSUME NEW S, NEW a \in Seq(S), NEW b \in Seq(S), NEW c \in Seq(S),
         NEW e, e = (a \o b) \o c
  PROVE  e \in Seq(S) /\ Between(a, b, c, e)
<1>1. PICK d : d = a \o b
  OBVIOUS
<1>2. /\ d \in Seq(S) /\ Len(d) = Len(a) + Len(b)
      /\ \A i \in 1..Len(d) : d[i] = IF i <= Len(a) THEN a[i] ELSE b[i - Len(a)]
  BY <1>1, ConcatProperties
<1>3. e = d \o c
  BY <1>1
<1>4. /\ e \in Seq(S) /\ Len(e) = Len(d) + Len(c)
      /\ \A i \in 1..Len(e) : e[i] = IF i <= Len(d) THEN d[i] ELSE c[i - Len(d)]
  <2>1. d \in Seq(S)
    BY <1>2
  <2>2. /\ d \o c \in Seq(S) /\ Len(d \o c) = Len(d) + Len(c)
        /\ \A i \in 1..Len(d) + Len(c) : (d \o c)[i] = IF i <= Len(d) THEN d[i] ELSE c[i - Len(d)]
    BY <2>1, ConcatProperties
  <2> QED BY <1>3, <2>2
<1>5. PICK la \in Nat, lb \in Nat, lc \in Nat : la = Len(a) /\ lb = Len(b) /\ lc = Len(c)
  OBVIOUS
<1>6. ASSUME NEW i \in 1..lb
      PROVE  e[la + i] = b[i]
  <2>1. la + i \in 1..Len(d) /\ la + i \in 1..Len(e) /\ ~ (la + i <= la) /\ (la + i) - la = i
    BY <1>2, <1>4, <1>5
  <2> QED BY <1>2, <1>4, <1>5, <2>1
<1>7. ASSUME NEW i \in 1..lc
      PROVE  e[la + lb + i] = c[i]
  <2>1. /\ la + lb + i \in 1..Len(e) /\ ~ (la + lb + i <= Len(d))
        /\ (la + lb + i) - Len(d) = i
    BY <1>2, <1>4, <1>5
  <2> QED BY <1>4, <2>1
<1>8. SubSeq(e, la + 1, la + lb) = b
  <2>1. PICK u : u = SubSeq(e, la + 1, la + lb)
    OBVIOUS
  <2>2. \A i \in (la + 1)..(la + lb) : e[i] \in S
    BY <1>2, <1>4, <1>5
  <2>3. /\ u \in Seq(S)
        /\ Len(u) = IF la + 1 <= la + lb THEN (la + lb) - (la + 1) + 1 ELSE 0
        /\ \A i \in 1..((la + lb) - (la + 1) + 1) : u[i] = e[(la + 1) + i - 1]
    <3>1. PICK m \in Nat, n \in Nat : m = la + 1 /\ n = la + lb
      BY <1>2
    <3>2. e \in Seq(S) /\ m \in 1..(Len(e) + 1) /\ n \in (m - 1)..Len(e)
      BY <1>2, <1>4, <1>5, <3>1
    <3>3. u = SubSeq(e, m, n)
      BY <2>1, <3>1
    <3>4. /\ SubSeq(e, m, n) \in Seq(S)
          /\ Len(SubSeq(e, m, n)) = IF m <= n THEN n - m + 1 ELSE 0
          /\ \A i \in 1..(n - m + 1) : SubSeq(e, m, n)[i] = e[m + i - 1]
      BY <3>2, SubSeqProperties
    <3> QED BY <3>1, <3>3, <3>4
  <2>4. Len(u) = lb /\ (la + lb) - (la + 1) + 1 = lb
    BY <2>3
  <2>5. ASSUME NEW i \in 1..lb
        PROVE  u[i] = b[i]
    <3>1. (la + 1) + i - 1 = la + i
      OBVIOUS
    <3> QED BY <1>6, <2>3, <2>4, <3>1
  <2> QED BY <1>5, <2>1, <2>3, <2>4, <2>5, SeqEqual
<1>9. Len(e) = la + lb + lc
  BY <1>2, <1>4, <1>5
<1> QED BY <1>4, <1>5, <1>6, <1>7, <1>8, <1>9 DEF Between

(* What is in one of the sequences is in what they flatten to.             *)
LEMMA FlattenHolds ==
  ASSUME NEW S, NEW n \in Nat, NEW f \in [1..n -> Seq(S)], NEW i \in 1..n, NEW j \in 1..Len(f[i])
  PROVE  f[i][j] \in Range(FlattenSeq(f))
<1>1. RestOver(f, i, n, S)
  BY DEF RestOver
<1>2. PICK r \in Seq(S) : FlattenSeq(f) = (FlattenSeq(FirstOf(f, i - 1)) \o f[i]) \o r
  <2>1. S \in SUBSET S
    OBVIOUS
  <2>2. LiesWithin(f, i, S)
    BY <1>1, <2>1, FlattenAround
  <2> QED BY <2>2 DEF LiesWithin
<1>3. PICK a : a = FlattenSeq(FirstOf(f, i - 1))
  OBVIOUS
<1>4. a \in Seq(S)
  <2>1. i - 1 \in 0..n
    OBVIOUS
  <2> QED BY <1>3, <2>1, FirstOfType
<1>5. PICK b \in Seq(S) : b = f[i]
  OBVIOUS
<1>6. PICK s : s = (a \o b) \o r
  OBVIOUS
<1>7. /\ s \in Seq(S) /\ Len(s) = Len(a) + Len(b) + Len(r)
      /\ \A k \in 1..Len(b) : s[Len(a) + k] = b[k]
  BY <1>2, <1>4, <1>5, <1>6, ConcatMiddle DEF Between
<1>8. j \in 1..Len(b) /\ s[Len(a) + j] = b[j]
  BY <1>5, <1>7
<1>9. Len(a) + j \in DOMAIN s
  <2>1. Len(a) \in Nat /\ Len(b) \in Nat /\ Len(r) \in Nat /\ DOMAIN s = 1..Len(s)
    BY <1>2, <1>4, <1>5, <1>7
  <2> QED BY <1>7, <1>8, <2>1
<1>10. FlattenSeq(f) = s
  BY <1>2, <1>3, <1>5, <1>6
<1> QED BY <1>5, <1>8, <1>9, <1>10 DEF Range
=============================================================================
