--------------------------- MODULE PatternLemmas ----------------------------
(***************************************************************************)
(* What the operators on patterns return, for patterns of any tokens.      *)
(***************************************************************************)
EXTENDS RoutePatterns, SequenceLemmas, FiniteSetTheorems

(* Tokens without an open brace, over the characters C.                    *)
Tokens(C) == C \cup Params \cup Regexps

KeysOf(C) == {KeyAt(t) : t \in Tokens(C)}

-----------------------------------------------------------------------------
(* Tokens                                                                  *)

(* A slash takes no value, a wildcard does, and what takes none is a       *)
(* character.                                                              *)
LEMMA TokenFacts ==
  ASSUME NEW C, NEW t \in Tokens(C)
  PROVE  /\ ~ Wild("/") /\ Wild("*") /\ KeyAt("*") = "*"
         /\ ~ Wild(t) => t \in C
<1>1. ~ Wild("/") /\ Wild("*") /\ KeyAt("*") = "*"
  BY TokenAssumption DEF Wild, TypeOf, KeyAt
<1>2. ~ Wild(t) => t \in C
  BY DEF Wild, TypeOf, Tokens
<1> QED BY <1>1, <1>2

-----------------------------------------------------------------------------
(* WildCount                                                               *)

(* One token more is one value more, if it takes one.                      *)
LEMMA CountStep ==
  ASSUME NEW p, NEW i \in Nat
  PROVE  /\ WildCount(p, i) \in Nat /\ WildCount(p, 0) = 0
         /\ WildCount(p, i + 1) = WildCount(p, i) + (IF Wild(p[i + 1]) THEN 1 ELSE 0)
<1> DEFINE W(k) == {j \in 1..k : Wild(p[j])}
<1>1. IsFiniteSet(1..i) /\ W(i) \in SUBSET (1..i)
  BY FS_Interval
<1>2. IsFiniteSet(W(i))
  BY <1>1, FS_Subset
<1>3. W(0) = {}
  OBVIOUS
<1>4. i + 1 \notin W(i)
  OBVIOUS
<1>5. CASE Wild(p[i + 1])
  <2>1. W(i + 1) = W(i) \cup {i + 1}
    BY <1>5
  <2>2. Cardinality(W(i) \cup {i + 1}) = Cardinality(W(i)) + 1
    <3> HIDE DEF W
    <3> QED BY <1>2, <1>4, FS_AddElement
  <2> QED BY <1>2, <1>3, <1>5, <2>1, <2>2, FS_CardinalityType, FS_EmptySet DEF WildCount
<1>6. CASE ~ Wild(p[i + 1])
  <2>1. W(i + 1) = W(i)
    BY <1>6
  <2> QED BY <1>2, <1>3, <1>6, <2>1, FS_CardinalityType, FS_EmptySet DEF WildCount
<1> QED BY <1>5, <1>6

(* More tokens do not have fewer values.                                   *)
LEMMA CountMonotone ==
  ASSUME NEW p, NEW i \in Nat, NEW k \in Nat, i <= k
  PROVE  WildCount(p, i) <= WildCount(p, k)
<1> DEFINE W(n) == {j \in 1..n : Wild(p[j])}
<1>1. IsFiniteSet(1..k) /\ W(k) \in SUBSET (1..k) /\ W(i) \in SUBSET W(k)
  BY FS_Interval
<1>2. IsFiniteSet(W(k))
  BY <1>1, FS_Subset
<1> HIDE DEF W
<1>3. Cardinality(W(i)) <= Cardinality(W(k))
  BY <1>1, <1>2, FS_Subset
<1> QED BY <1>3 DEF WildCount, W

(* The number of a token's value is one of those up to its place.          *)
LEMMA CountInRange ==
  ASSUME NEW p, NEW n \in Nat, NEW i \in 1..n, Wild(p[i])
  PROVE  WildCount(p, i) \in 1..WildCount(p, n)
<1>1. PICK k \in Nat : k + 1 = i
  <2>1. i - 1 \in Nat /\ (i - 1) + 1 = i
    OBVIOUS
  <2> QED BY <2>1
<1>2. WildCount(p, k) \in Nat /\ WildCount(p, k + 1) = WildCount(p, k) + 1
  BY <1>1, CountStep
<1>3. WildCount(p, k + 1) <= WildCount(p, n) /\ WildCount(p, n) \in Nat
  BY <1>1, CountMonotone, CountStep
<1> QED BY <1>1, <1>2, <1>3

(* What is in front of the last token counts as it does in front of it.    *)
LEMMA CountOfFront ==
  ASSUME NEW S, NEW p \in Seq(S), p # <<>>, NEW i \in Nat, i < Len(p)
  PROVE  WildCount(Front(p), i) = WildCount(p, i)
<1>1. \A j \in 1..i : Front(p)[j] = p[j]
  BY DEF Front
<1>2. {j \in 1..i : Wild(Front(p)[j])} = {j \in 1..i : Wild(p[j])}
  BY <1>1
<1> QED BY <1>2 DEF WildCount

-----------------------------------------------------------------------------
(* ParamKeys                                                               *)

(* The keys of the single tokens.                                          *)
KeyParts(p) == [i \in 1..Len(p) |-> IF Wild(p[i]) THEN <<KeyAt(p[i])>> ELSE <<>>]

LastKey(t) == IF Wild(t) THEN <<KeyAt(t)>> ELSE <<>>

(* They are sequences of keys, of the length that WildCount says.          *)
LEMMA KeysTyped ==
  ASSUME NEW C, NEW p \in Seq(Tokens(C))
  PROVE  /\ KeyParts(p) \in [1..Len(p) -> Seq(KeysOf(C))]
         /\ ParamKeys(p) \in Seq(KeysOf(C))
         /\ Len(ParamKeys(p)) = WildCount(p, Len(p))
<1>1. PICK n \in Nat : n = Len(p)
  OBVIOUS
<1>2. PICK f : f = KeyParts(p)
  OBVIOUS
<1>3. ASSUME NEW i \in 1..n
      PROVE  /\ f[i] = LastKey(p[i])
             /\ f[i] \in Seq(KeysOf(C))
             /\ Len(f[i]) = IF Wild(p[i]) THEN 1 ELSE 0
  <2>1. PICK k : k = KeyAt(p[i])
    OBVIOUS
  <2>2. p[i] \in Tokens(C)
    BY <1>1
  <2>3. k \in KeysOf(C)
    BY <2>1, <2>2 DEF KeysOf
  <2>4. <<k>> \in Seq(KeysOf(C)) /\ Len(<<k>>) = 1
    BY <2>3
  <2>5. <<>> \in Seq(KeysOf(C)) /\ Len(<<>>) = 0
    BY EmptySeq
  <2>6. f[i] = IF Wild(p[i]) THEN <<k>> ELSE <<>>
    BY <1>1, <1>2, <2>1 DEF KeyParts
  <2>7. f[i] = LastKey(p[i])
    BY <2>1, <2>6 DEF LastKey
  <2>8. CASE Wild(p[i])
    BY <2>4, <2>6, <2>7, <2>8
  <2>9. CASE ~ Wild(p[i])
    BY <2>5, <2>6, <2>7, <2>9
  <2> QED BY <2>8, <2>9
<1>4. f \in [1..n -> Seq(KeysOf(C))]
  <2>1. f = [i \in 1..n |-> f[i]]
    BY <1>1, <1>2 DEF KeyParts
  <2> QED BY <1>3, <2>1
<1>5. ParamKeys(p) = FlattenSeq(f)
  BY <1>2 DEF ParamKeys, KeyParts
<1> DEFINE N == {m \in Nat : m <= n => Len(FlattenSeq(FirstOf(f, m))) = WildCount(p, m)}
<1>6. 0 \in N
  <2>1. FlattenSeq(FirstOf(f, 0)) = <<>> /\ Len(<<>>) = 0
    BY <1>4, FirstOfType
  <2>2. WildCount(p, 0) = 0
    BY CountStep
  <2> QED BY <2>1, <2>2
<1>7. ASSUME NEW m \in Nat, m \in N
      PROVE  m + 1 \in N
  <2>1. ASSUME m + 1 <= n
        PROVE  Len(FlattenSeq(FirstOf(f, m + 1))) = WildCount(p, m + 1)
    <3>1. m \in 0..n /\ m + 1 \in 1..n /\ (m + 1) - 1 = m
      BY <2>1
    <3>2. FlattenSeq(FirstOf(f, m + 1)) = FlattenSeq(FirstOf(f, m)) \o f[m + 1]
      BY <1>4, <3>1, FirstOfMore
    <3>3. FlattenSeq(FirstOf(f, m)) \in Seq(KeysOf(C)) /\ f[m + 1] \in Seq(KeysOf(C))
      BY <1>3, <1>4, <3>1, FirstOfType
    <3>4. Len(FlattenSeq(FirstOf(f, m)) \o f[m + 1]) = Len(FlattenSeq(FirstOf(f, m))) + Len(f[m + 1])
      BY <3>3, ConcatProperties
    <3>5. Len(FlattenSeq(FirstOf(f, m))) = WildCount(p, m)
      BY <1>7, <3>1
    <3>6. Len(f[m + 1]) = IF Wild(p[m + 1]) THEN 1 ELSE 0
      BY <1>3, <3>1
    <3>7. WildCount(p, m + 1) = WildCount(p, m) + (IF Wild(p[m + 1]) THEN 1 ELSE 0)
      BY CountStep
    <3> QED BY <3>2, <3>4, <3>5, <3>6, <3>7
  <2>2. m + 1 \in Nat
    OBVIOUS
  <2> QED BY <2>1, <2>2
<1>8. Nat \subseteq N
  <2> HIDE DEF N
  <2> QED BY <1>6, <1>7, SetInduction
<1>9. Len(FlattenSeq(FirstOf(f, n))) = WildCount(p, n)
  BY <1>8
<1>10. FirstOf(f, n) = f
  BY <1>4, FirstOfType
<1>11. FlattenSeq(f) \in Seq(KeysOf(C))
  <2>1. n \in 0..n
    OBVIOUS
  <2> QED BY <1>4, <1>10, <2>1, FirstOfType
<1> QED BY <1>1, <1>2, <1>4, <1>5, <1>9, <1>10, <1>11

(* The key of the last token comes last.                                   *)
LEMMA KeysOfLast ==
  ASSUME NEW C, NEW p \in Seq(Tokens(C)), p # <<>>
  PROVE  ParamKeys(p) = ParamKeys(Front(p)) \o LastKey(Last(p))
<1>1. PICK n \in Nat : n + 1 = Len(p)
  <2>1. Len(p) \in Nat \ {0}
    BY EmptySeq
  <2>2. Len(p) - 1 \in Nat /\ (Len(p) - 1) + 1 = Len(p)
    BY <2>1
  <2> QED BY <2>2
<1>2. PICK q \in Seq(Tokens(C)) : q = Front(p) /\ Len(q) = n
  <2>1. Front(p) \in Seq(Tokens(C)) /\ Len(Front(p)) = Len(p) - 1
    BY FrontLast
  <2> QED BY <1>1, <2>1
<1>3. \A i \in 1..n : q[i] = p[i]
  BY <1>1, <1>2 DEF Front
<1>4. PICK f : f = KeyParts(q)
  OBVIOUS
<1>5. PICK g : g = KeyParts(p)
  OBVIOUS
<1>6. f \in [1..n -> Seq(KeysOf(C))] /\ g \in [1..(n + 1) -> Seq(KeysOf(C))]
  BY <1>1, <1>2, <1>4, <1>5, KeysTyped
<1>7. \A i \in 1..n : f[i] = g[i]
  BY <1>1, <1>2, <1>3, <1>4, <1>5 DEF KeyParts
<1>8. FlattenSeq(g) = FlattenSeq(f) \o g[n + 1]
  BY <1>6, <1>7, FlattenProlonged
<1>9. g[n + 1] = LastKey(Last(p))
  <2>1. n + 1 \in 1..Len(p)
    BY <1>1
  <2>2. g[n + 1] = LastKey(p[n + 1])
    BY <1>5, <2>1 DEF KeyParts, LastKey
  <2> QED BY <1>1, <2>2 DEF Last
<1>10. ParamKeys(p) = FlattenSeq(g) /\ ParamKeys(q) = FlattenSeq(f)
  BY <1>4, <1>5 DEF ParamKeys, KeyParts
<1> QED BY <1>2, <1>8, <1>9, <1>10

-----------------------------------------------------------------------------
(* Fill                                                                    *)

(* What the single tokens are filled with.                                 *)
FillParts(p, vals) ==
  [i \in 1..Len(p) |-> IF Wild(p[i]) THEN vals[WildCount(p, i)] ELSE <<p[i]>>]

(* There is a value for every token that takes one.                        *)
EnoughValues(p, vals) == Len(vals) >= WildCount(p, Len(p))

LastPart(p, vals) ==
  IF Wild(Last(p)) THEN vals[WildCount(p, Len(p))] ELSE <<Last(p)>>

(* A pattern filled with texts is a text.                                  *)
LEMMA FillTyped ==
  ASSUME NEW C, NEW p \in Seq(Tokens(C)), NEW vals \in Seq(Seq(C)), EnoughValues(p, vals)
  PROVE  /\ FillParts(p, vals) \in [1..Len(p) -> Seq(C)]
         /\ Fill(p, vals) \in Seq(C)
<1>1. ASSUME NEW i \in 1..Len(p)
      PROVE  FillParts(p, vals)[i] \in Seq(C)
  <2>1. CASE Wild(p[i])
    <3>1. WildCount(p, i) \in 1..WildCount(p, Len(p))
      BY <2>1, CountInRange
    <3>2. WildCount(p, Len(p)) \in Nat
      BY CountStep
    <3>3. WildCount(p, i) \in 1..Len(vals)
      BY <3>1, <3>2 DEF EnoughValues
    <3>4. vals[WildCount(p, i)] \in Seq(C)
      BY <3>3, ElementOfSeq
    <3> QED BY <2>1, <3>4 DEF FillParts
  <2>2. CASE ~ Wild(p[i])
    <3>1. p[i] \in C
      BY <2>2, TokenFacts
    <3>2. FillParts(p, vals)[i] = <<p[i]>>
      BY <2>2 DEF FillParts
    <3> QED BY <3>1, <3>2
  <2> QED BY <2>1, <2>2
<1>2. FillParts(p, vals) \in [1..Len(p) -> Seq(C)]
  <2>1. FillParts(p, vals) = [i \in 1..Len(p) |-> FillParts(p, vals)[i]]
    BY DEF FillParts
  <2> QED BY <1>1, <2>1
<1>3. FillParts(p, vals) \in Seq(Seq(C))
  BY <1>2, SeqDef
<1>4. Fill(p, vals) = FlattenSeq(FillParts(p, vals))
  BY DEF Fill, FillParts
<1> QED BY <1>2, <1>3, <1>4, FlattenType

(* The last token is filled behind what is in front of it.                 *)
LEMMA FillLast ==
  ASSUME NEW C, NEW p \in Seq(Tokens(C)), p # <<>>, NEW vals \in Seq(Seq(C)), EnoughValues(p, vals)
  PROVE  /\ Fill(p, vals) = Fill(Front(p), vals) \o LastPart(p, vals)
         /\ EnoughValues(Front(p), vals)
         /\ LastPart(p, vals) \in Seq(C)
<1>1. PICK n \in Nat : n + 1 = Len(p)
  <2>1. Len(p) \in Nat \ {0}
    BY EmptySeq
  <2>2. Len(p) - 1 \in Nat /\ (Len(p) - 1) + 1 = Len(p)
    BY <2>1
  <2> QED BY <2>2
<1>2. PICK q \in Seq(Tokens(C)) : q = Front(p) /\ Len(q) = n
  <2>1. Front(p) \in Seq(Tokens(C)) /\ Len(Front(p)) = Len(p) - 1
    BY FrontLast
  <2> QED BY <1>1, <2>1
<1>3. \A i \in 1..n : q[i] = p[i] /\ WildCount(q, i) = WildCount(p, i)
  <2>1. \A i \in 1..n : q[i] = p[i]
    BY <1>1, <1>2 DEF Front
  <2>2. ASSUME NEW i \in 1..n
        PROVE  WildCount(q, i) = WildCount(p, i)
    <3>1. i \in Nat /\ i < Len(p)
      BY <1>1
    <3> QED BY <1>2, <3>1, CountOfFront
  <2> QED BY <2>1, <2>2
<1>4. EnoughValues(q, vals)
  <2>1. n < Len(p) /\ n <= Len(p) /\ Len(p) \in Nat
    BY <1>1
  <2>2. WildCount(q, n) = WildCount(p, n)
    BY <1>2, <2>1, CountOfFront
  <2>3. WildCount(p, n) <= WildCount(p, Len(p))
    BY <2>1, CountMonotone
  <2>4. WildCount(p, n) \in Nat /\ WildCount(p, Len(p)) \in Nat /\ Len(vals) \in Nat
    BY <2>1, CountStep
  <2> QED BY <1>2, <2>2, <2>3, <2>4 DEF EnoughValues
<1>5. PICK f : f = FillParts(q, vals)
  OBVIOUS
<1>6. PICK g : g = FillParts(p, vals)
  OBVIOUS
<1>7. f \in [1..n -> Seq(C)] /\ g \in [1..(n + 1) -> Seq(C)]
  BY <1>1, <1>2, <1>4, <1>5, <1>6, FillTyped
<1>8. \A i \in 1..n : f[i] = g[i]
  BY <1>1, <1>2, <1>3, <1>5, <1>6 DEF FillParts
<1>9. FlattenSeq(g) = FlattenSeq(f) \o g[n + 1]
  BY <1>7, <1>8, FlattenProlonged
<1>10. g[n + 1] = LastPart(p, vals)
  BY <1>1, <1>6 DEF FillParts, LastPart, Last
<1>11. Fill(p, vals) = FlattenSeq(g) /\ Fill(q, vals) = FlattenSeq(f)
  BY <1>5, <1>6 DEF Fill, FillParts
<1>12. g[n + 1] \in Seq(C)
  BY <1>7
<1> QED BY <1>2, <1>4, <1>9, <1>10, <1>11, <1>12

(* Values that the pattern does not take make no difference.               *)
LEMMA FillAgrees ==
  ASSUME NEW C, NEW p \in Seq(Tokens(C)), NEW u, NEW v,
         Agree(u, v, WildCount(p, Len(p)))
  PROVE  Fill(p, u) = Fill(p, v)
<1>1. ASSUME NEW i \in 1..Len(p)
      PROVE  FillParts(p, u)[i] = FillParts(p, v)[i]
  <2>1. Wild(p[i]) => WildCount(p, i) \in 1..WildCount(p, Len(p))
    BY CountInRange
  <2> QED BY <2>1 DEF FillParts, Agree
<1>2. FillParts(p, u) = FillParts(p, v)
  <2>1. /\ FillParts(p, u) = [i \in 1..Len(p) |-> FillParts(p, u)[i]]
        /\ FillParts(p, v) = [i \in 1..Len(p) |-> FillParts(p, v)[i]]
    BY DEF FillParts
  <2> QED BY <1>1, <2>1
<1> QED BY <1>2 DEF Fill, FillParts

(* What begins with a slash begins with one when filled.                   *)
LEMMA FillBegins ==
  ASSUME NEW C, "/" \in C, NEW p \in Seq(Tokens(C)), BeginsWithSlash(p),
         NEW vals \in Seq(Seq(C)), EnoughValues(p, vals)
  PROVE  \E r \in Seq(C) : Fill(p, vals) = <<"/">> \o r
<1>1. PICK f : f = FillParts(p, vals)
  OBVIOUS
<1>2. PICK n \in Nat : n = Len(p) /\ 1 \in 1..n /\ 1 \in 0..n
  BY EmptySeq DEF BeginsWithSlash
<1>3. f \in [1..n -> Seq(C)] /\ f[1] = <<"/">>
  <2>1. ~ Wild("/")
    BY TokenAssumption DEF Wild, TypeOf
  <2>2. f \in [1..n -> Seq(C)]
    BY <1>1, <1>2, FillTyped
  <2> QED BY <1>1, <1>2, <2>1, <2>2 DEF FillParts, BeginsWithSlash
<1>4. RestOver(f, 1, n, C)
  BY <1>2, <1>3 DEF RestOver
<1>5. BeginsWithFirst(f, 1, C)
  BY <1>2, <1>3, <1>4, FlattenFrom
<1>6. FlattenSeq(FirstOf(f, 1)) = f[1]
  <2>1. FlattenSeq(FirstOf(f, 1)) = FlattenSeq(FirstOf(f, 1 - 1)) \o f[1]
    BY <1>2, <1>3, FirstOfMore
  <2>2. FlattenSeq(FirstOf(f, 1 - 1)) = <<>>
    <3>1. FlattenSeq(FirstOf(f, 0)) = <<>>
      BY <1>2, <1>3, FirstOfType
    <3>2. 1 - 1 = 0
      OBVIOUS
    <3> QED BY <3>1, <3>2
  <2>3. <<>> \o f[1] = f[1]
    <3>1. f[1] \in Seq(C)
      BY <1>2, <1>3
    <3> QED BY <3>1, ConcatEmptySeq
  <2> QED BY <2>1, <2>2, <2>3
<1>7. PICK r \in Seq(C) : FlattenSeq(f) = FlattenSeq(FirstOf(f, 1)) \o r
  BY <1>5 DEF BeginsWithFirst
<1>8. Fill(p, vals) = FlattenSeq(f)
  BY <1>1 DEF Fill, FillParts
<1> QED BY <1>3, <1>6, <1>7, <1>8

(* What ends with a slash ends with one when filled.                       *)
LEMMA FillEnds ==
  ASSUME NEW C, "/" \in C, NEW p \in Seq(Tokens(C)), p # <<>>, Last(p) = "/",
         NEW vals \in Seq(Seq(C)), EnoughValues(p, vals)
  PROVE  Fill(p, vals) # <<>> /\ Last(Fill(p, vals)) = "/"
<1>1. LastPart(p, vals) = <<"/">>
  <2>1. ~ Wild("/")
    BY TokenAssumption DEF Wild, TypeOf
  <2> QED BY <2>1 DEF LastPart
<1>2. PICK a : a = Fill(Front(p), vals)
  OBVIOUS
<1>3. Fill(p, vals) = a \o <<"/">>
  BY <1>1, <1>2, FillLast
<1>4. a \in Seq(C)
  <2>1. Front(p) \in Seq(Tokens(C)) /\ EnoughValues(Front(p), vals)
    BY FillLast, FrontLast
  <2> QED BY <1>2, <2>1, FillTyped
<1> QED BY <1>3, <1>4, FrontLastOfConcat
=============================================================================
