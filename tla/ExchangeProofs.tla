--------------------------- MODULE ExchangeProofs ---------------------------
(***************************************************************************)
(* Theorems about Exchange, for any characters, names, values and clients. *)
(***************************************************************************)
EXTENDS Exchange, SequenceLemmas

-----------------------------------------------------------------------------
(* Canonical keys                                                          *)

(* gen_canonical_key keeps the length and the alphabet of a key.           *)
LEMMA CanonicalIsKey ==
  ASSUME NEW key \in Seq(Chars)
  PROVE  /\ CanonicalKey(key) \in Seq(Chars)
         /\ Len(CanonicalKey(key)) = Len(key)
         /\ IsToken(CanonicalKey(key)) <=> IsToken(key)
<1>1. CASE IsToken(key)
  <2> DEFINE f == [i \in 1..Len(key) |-> IF StartsWord(key, i) THEN Up[key[i]] ELSE Low[key[i]]]
  <2>1. CanonicalKey(key) = f
    BY <1>1 DEF CanonicalKey
  <2>2. \A i \in 1..Len(key) : key[i] \in Chars /\ f[i] \in Chars /\ f[i] \in TokenChars
    BY <1>1, CharAssumption DEF IsToken
  <2>3. f \in Seq(Chars) /\ Len(f) = Len(key)
    BY <2>2
  <2>4. IsToken(f)
    BY <2>2, <2>3 DEF IsToken
  <2> QED
    BY <1>1, <2>1, <2>3, <2>4
<1>2. CASE ~ IsToken(key)
  BY <1>2 DEF CanonicalKey
<1> QED
  BY <1>1, <1>2

(* The character of a canonical key differs from that of the key in case.  *)
LEMMA CanonicalChar ==
  ASSUME NEW key \in Seq(Chars), IsToken(key), NEW i \in 1..Len(key)
  PROVE  /\ CanonicalKey(key)[i] = IF StartsWord(key, i) THEN Up[key[i]] ELSE Low[key[i]]
         /\ Low[CanonicalKey(key)[i]] = Low[key[i]]
         /\ CanonicalKey(key)[i] = Dash <=> key[i] = Dash
         /\ key[i] \in Chars
<1>1. key[i] \in Chars
  OBVIOUS
<1>2. CanonicalKey(key)[i] = IF StartsWord(key, i) THEN Up[key[i]] ELSE Low[key[i]]
  BY DEF CanonicalKey
<1> QED
  BY <1>1, <1>2, CharAssumption

(* Two names whose letters are the same but for case begin their words in  *)
(* the same places.                                                        *)
LEMMA SameWords ==
  ASSUME NEW m \in Seq(Chars), NEW n \in Seq(Chars), Len(m) = Len(n),
         \A i \in 1..Len(m) : Low[m[i]] = Low[n[i]],
         NEW i \in 1..Len(m)
  PROVE  StartsWord(m, i) <=> StartsWord(n, i)
<1>1. CASE i = 1
  BY <1>1 DEF StartsWord
<1>2. CASE i # 1
  <2>1. i - 1 \in 1..Len(m)
    BY <1>2
  <2>2. m[i - 1] \in Chars /\ n[i - 1] \in Chars
    BY <2>1
  <2>3. Low[m[i - 1]] = Low[n[i - 1]]
    BY <2>1
  <2>4. m[i - 1] = Dash <=> n[i - 1] = Dash
    BY <2>2, <2>3, CharAssumption
  <2> QED
    BY <1>2, <2>4 DEF StartsWord
<1> QED
  BY <1>1, <1>2

(* Two spellings have one canonical key exactly if they are one name.      *)
LEMMA CanonicalIsTheName ==
  ASSUME NEW m \in Seq(Chars), NEW n \in Seq(Chars)
  PROVE  CanonicalKey(m) = CanonicalKey(n) <=> SameName(m, n)
<1>1. ASSUME SameName(m, n)  PROVE CanonicalKey(m) = CanonicalKey(n)
  <2>1. CASE m = n
    BY <2>1
  <2>2. CASE m # n
    <3>1. IsToken(m) /\ IsToken(n) /\ Len(m) = Len(n) /\ \A i \in 1..Len(m) : Low[m[i]] = Low[n[i]]
      BY <1>1, <2>2 DEF SameName
    <3>2. ASSUME NEW i \in 1..Len(m)
          PROVE  (IF StartsWord(m, i) THEN Up[m[i]] ELSE Low[m[i]])
                   = (IF StartsWord(n, i) THEN Up[n[i]] ELSE Low[n[i]])
      <4>1. StartsWord(m, i) <=> StartsWord(n, i)
        BY <3>1, SameWords
      <4>2. m[i] \in Chars /\ n[i] \in Chars /\ Low[m[i]] = Low[n[i]]
        BY <3>1
      <4>3. Up[m[i]] = Up[n[i]]
        <5>1. Up[Low[m[i]]] = Up[m[i]] /\ Up[Low[n[i]]] = Up[n[i]]
          BY <4>2, CharAssumption
        <5> QED
          BY <4>2, <5>1
      <4> QED
        BY <4>1, <4>2, <4>3
    <3> QED
      BY <3>1, <3>2 DEF CanonicalKey
  <2> QED
    BY <2>1, <2>2
<1>2. ASSUME CanonicalKey(m) = CanonicalKey(n)  PROVE SameName(m, n)
  <2>1. IsToken(m) <=> IsToken(n)
    BY <1>2, CanonicalIsKey
  <2>2. CASE IsToken(m)
    <3>1. Len(m) = Len(n)
      BY <1>2, CanonicalIsKey
    <3>2. ASSUME NEW i \in 1..Len(m)  PROVE Low[m[i]] = Low[n[i]]
      BY <1>2, <2>1, <2>2, <3>1, CanonicalChar
    <3> QED
      BY <2>1, <2>2, <3>1, <3>2 DEF SameName
  <2>3. CASE ~ IsToken(m)
    BY <1>2, <2>1, <2>3 DEF SameName, CanonicalKey
  <2> QED
    BY <2>2, <2>3
<1> QED
  BY <1>1, <1>2

(* A canonical key is its own canonical key.                               *)
LEMMA CanonicalIsIdempotent ==
  ASSUME NEW key \in Seq(Chars)
  PROVE  CanonicalKey(CanonicalKey(key)) = CanonicalKey(key)
<1> DEFINE c == CanonicalKey(key)
<1>1. c \in Seq(Chars) /\ Len(c) = Len(key) /\ (IsToken(c) <=> IsToken(key))
  BY CanonicalIsKey
<1>2. SameName(c, key)
  <2>1. CASE IsToken(key)
    BY <1>1, <2>1, CanonicalChar DEF SameName
  <2>2. CASE ~ IsToken(key)
    BY <2>2 DEF SameName, CanonicalKey
  <2> QED
    BY <2>1, <2>2
<1> QED
  BY <1>1, <1>2, CanonicalIsTheName

-----------------------------------------------------------------------------
(* The methods of Header                                                   *)

(* An empty header has no values for any name.                             *)
LEMMA EmptyHasNoValues ==
  \A n \in Names : GetAllValues(EmptyHeader, n) = <<>>
BY DEF GetAllValues, EmptyHeader

(* get_all_values gives the spellings of one name the same values.         *)
LEMMA SameNameSameValues ==
  ASSUME NEW header, NEW m \in Names, NEW n \in Names, SameName(m, n)
  PROVE  GetAllValues(header, m) = GetAllValues(header, n)
BY CanonicalIsTheName, ExchangeAssumption DEF GetAllValues

(* add() appends to the values of all spellings of the name, and to no     *)
(* other.                                                                  *)
LEMMA AddedValues ==
  ASSUME NEW header, NEW n \in Names, NEW v, NEW m \in Names
  PROVE  GetAllValues(Added(header, n, v), m)
           = IF SameName(m, n) THEN Append(GetAllValues(header, n), v) ELSE GetAllValues(header, m)
<1>1. CanonicalKey(m) = CanonicalKey(n) <=> SameName(m, n)
  BY CanonicalIsTheName, ExchangeAssumption
<1>2. DOMAIN Added(header, n, v) = DOMAIN header \cup {CanonicalKey(n)}
  BY DEF Added
<1>3. CASE CanonicalKey(m) = CanonicalKey(n)
  <2>1. Added(header, n, v)[CanonicalKey(m)] = Append(GetAllValues(header, n), v)
    BY <1>3 DEF Added
  <2>2. CanonicalKey(m) \in DOMAIN Added(header, n, v)
    BY <1>2, <1>3
  <2>3. GetAllValues(Added(header, n, v), m) = Added(header, n, v)[CanonicalKey(m)]
    BY <2>2 DEF GetAllValues
  <2> QED
    BY <1>1, <1>3, <2>1, <2>3
<1>4. CASE CanonicalKey(m) # CanonicalKey(n)
  <2>1. CanonicalKey(m) \in DOMAIN header => Added(header, n, v)[CanonicalKey(m)] = header[CanonicalKey(m)]
    BY <1>4 DEF Added
  <2>2. CanonicalKey(m) \in DOMAIN Added(header, n, v) <=> CanonicalKey(m) \in DOMAIN header
    BY <1>2, <1>4
  <2>3. GetAllValues(Added(header, n, v), m) = GetAllValues(header, m)
    BY <2>1, <2>2 DEF GetAllValues
  <2> QED
    BY <1>1, <1>4, <2>3
<1> QED
  BY <1>3, <1>4

(* set() leaves the one value to all spellings of the name.                *)
LEMMA ReplacedValues ==
  ASSUME NEW header, NEW n \in Names, NEW v, NEW m \in Names
  PROVE  GetAllValues(Replaced(header, n, v), m)
           = IF SameName(m, n) THEN <<v>> ELSE GetAllValues(header, m)
<1>1. CanonicalKey(m) = CanonicalKey(n) <=> SameName(m, n)
  BY CanonicalIsTheName, ExchangeAssumption
<1>2. DOMAIN Replaced(header, n, v) = DOMAIN header \cup {CanonicalKey(n)}
  BY DEF Replaced
<1>3. \A k \in DOMAIN header \cup {CanonicalKey(n)} :
        Replaced(header, n, v)[k] = IF k = CanonicalKey(n) THEN <<v>> ELSE header[k]
  BY DEF Replaced
<1> QED
  BY <1>1, <1>2, <1>3 DEF GetAllValues

(* del() takes the values from all spellings of the name.                  *)
LEMMA DeletedValues ==
  ASSUME NEW header, NEW n \in Names, NEW m \in Names
  PROVE  GetAllValues(Deleted(header, n), m)
           = IF SameName(m, n) THEN <<>> ELSE GetAllValues(header, m)
<1>1. CanonicalKey(m) = CanonicalKey(n) <=> SameName(m, n)
  BY CanonicalIsTheName, ExchangeAssumption
<1>2. DOMAIN Deleted(header, n) = DOMAIN header \ {CanonicalKey(n)}
  BY DEF Deleted
<1>3. \A k \in DOMAIN header \ {CanonicalKey(n)} : Deleted(header, n)[k] = header[k]
  BY DEF Deleted
<1> QED
  BY <1>1, <1>2, <1>3 DEF GetAllValues

(* Appending leaves a list that is not empty.                              *)
LEMMA AppendIsNonEmpty ==
  ASSUME NEW S, NEW s \in Seq(S), NEW v \in S
  PROVE  Append(s, v) \in Seq(S) \ {<<>>}
BY AppendProperties

(* del() keeps the keys canonical and the lists of values non-empty.       *)
LEMMA DeletedIsOK ==
  ASSUME NEW header, HeaderOK(header), NEW n \in Names
  PROVE  HeaderOK(Deleted(header, n))
BY DEF HeaderOK, Deleted

(* So do add() and set().                                                  *)
LEMMA AddedAndReplacedAreOK ==
  ASSUME NEW header, HeaderOK(header), NEW n \in Names, NEW v \in Values
  PROVE  HeaderOK(Added(header, n, v)) /\ HeaderOK(Replaced(header, n, v))
<1> DEFINE c == CanonicalKey(n)
<1>1. c \in Seq(Chars) /\ c = CanonicalKey(c)
  BY CanonicalIsKey, CanonicalIsIdempotent, ExchangeAssumption
<1>2. GetAllValues(header, n) \in Seq(Values)
  <2>1. CASE c \in DOMAIN header
    <3>1. header[c] \in Seq(Values)
      BY <2>1 DEF HeaderOK
    <3> QED
      BY <2>1, <3>1 DEF GetAllValues
  <2>2. CASE c \notin DOMAIN header
    <3>1. GetAllValues(header, n) = <<>>
      BY <2>2 DEF GetAllValues
    <3> QED
      BY <3>1
  <2> QED
    BY <2>1, <2>2
<1>3. Append(GetAllValues(header, n), v) \in Seq(Values) \ {<<>>}
  BY <1>2, AppendIsNonEmpty
<1>4. <<v>> \in Seq(Values) \ {<<>>}
  OBVIOUS
<1>5. HeaderOK(Added(header, n, v))
  <2> SUFFICES ASSUME NEW k \in DOMAIN header \cup {c}
               PROVE  /\ k \in Seq(Chars) /\ k = CanonicalKey(k)
                      /\ Added(header, n, v)[k] \in Seq(Values) \ {<<>>}
    BY DEF HeaderOK, Added
  <2>1. Added(header, n, v)[k] = IF k = c THEN Append(GetAllValues(header, n), v) ELSE header[k]
    BY DEF Added
  <2> QED
    BY <1>1, <1>3, <2>1 DEF HeaderOK
<1>6. HeaderOK(Replaced(header, n, v))
  <2> SUFFICES ASSUME NEW k \in DOMAIN header \cup {c}
               PROVE  /\ k \in Seq(Chars) /\ k = CanonicalKey(k)
                      /\ Replaced(header, n, v)[k] \in Seq(Values) \ {<<>>}
    BY DEF HeaderOK, Replaced
  <2>1. Replaced(header, n, v)[k] = IF k = c THEN <<v>> ELSE header[k]
    BY DEF Replaced
  <2> QED
    BY <1>1, <1>4, <2>1 DEF HeaderOK
<1> QED
  BY <1>5, <1>6

-----------------------------------------------------------------------------
(* Invariants                                                              *)

(* What the steps of an exchange keep besides its types: the response was  *)
(* not written before the handler runs, and in the end its status is one   *)
(* that HTTP names only if it was sent.                                    *)
IInv ==
  /\ exchange \in Exchanges
  /\ TypeOK
  /\ phase \in {"delivered", "reading"} => ~ written
  /\ phase # "sent" => wire = Unsent
  /\ ReplyGoesOut

(* The lines and calls of an exchange have names and values.               *)
LEMMA ExchangeParts ==
  ASSUME exchange \in Exchanges
  PROVE  /\ Len(exchange.lines) \in Nat /\ Len(exchange.script) \in Nat
         /\ \A i \in 1..Len(exchange.lines) :
              exchange.lines[i].name \in Names /\ exchange.lines[i].value \in Values
         /\ \A i \in 1..Len(exchange.script) :
              /\ exchange.script[i].op \in {"add", "set"} =>
                   exchange.script[i].name \in Names /\ exchange.script[i].value \in Values
              /\ exchange.script[i].op = "del" => exchange.script[i].name \in Names
<1>1. exchange \in Exchange
  BY ExchangeAssumption
<1>2. exchange.lines \in Seq([name : Names, value : Values]) /\ exchange.script \in Seq(Call)
  BY <1>1 DEF Exchange
<1>3. ASSUME NEW i \in 1..Len(exchange.script)
      PROVE  /\ exchange.script[i].op \in {"add", "set"} =>
                   exchange.script[i].name \in Names /\ exchange.script[i].value \in Values
             /\ exchange.script[i].op = "del" => exchange.script[i].name \in Names
  <2>1. exchange.script[i] \in Call
    BY <1>2, ElementOfSeq
  <2> QED
    BY <2>1 DEF Call
<1>4. ASSUME NEW i \in 1..Len(exchange.lines)
      PROVE  exchange.lines[i].name \in Names /\ exchange.lines[i].value \in Values
  <2>1. exchange.lines[i] \in [name : Names, value : Values]
    BY <1>2, ElementOfSeq
  <2> QED
    BY <2>1
<1> QED
  BY <1>2, <1>3, <1>4

(* Each code of the enum has a row in the first table, 200 has a text.     *)
LEMMA NamedCodesAreKnown ==
  /\ \A code \in StatusCodes : TryParse(code)
  /\ HasText(200)
  /\ 0 \notin CodesWithText
BY DEF StatusCodes, TryParse, KnownCodes, TableSize, HasText, CodesWithText

(* An empty header is a header.                                            *)
LEMMA EmptyHeaderOK == HeaderOK(EmptyHeader) /\ LinesOK(EmptyHeader)
BY DEF HeaderOK, LinesOK, EmptyHeader

(* The string made of values that there are.                               *)
LEMMA JoinedFacts ==
  ASSUME NEW values \in Seq(Values), values # <<>>
  PROVE  Joined(values) \in Seq(Values \cup {Separator}) \ {<<>>} /\ ReadsAs(Joined(values), values)
<1> DEFINE n == Len(values)
           line == Joined(values)
           P == Values \cup {Separator}
<1>1. n \in Nat /\ n >= 1 /\ \A i \in 1..n : values[i] \in Values
  BY EmptySeq, ElementOfSeq
<1>2. line = [i \in 1..2 * n - 1 |-> IF i % 2 = 1 THEN values[(i + 1) \div 2] ELSE Separator]
  BY DEF Joined
<1> HIDE DEF n, line
<1>3. \A i \in 1..2 * n - 1 : i % 2 = 1 => (i + 1) \div 2 \in 1..n
  BY <1>1
<1>4. \A i \in 1..2 * n - 1 : line[i] \in P
  BY <1>1, <1>2, <1>3
<1>5. line \in Seq(P) /\ Len(line) = 2 * n - 1 /\ line # <<>>
  <2>1. 2 * n - 1 \in Nat /\ 2 * n - 1 # 0
    BY <1>1
  <2>2. line \in [1..2 * n - 1 -> P]
    BY <1>2, <1>4
  <2>3. line \in Seq(P) /\ Len(line) = 2 * n - 1
    BY <2>1, <2>2, SeqDef
  <2> QED
    BY <2>1, <2>3, EmptySeq
<1>6. ASSUME NEW i \in 1..n
      PROVE  line[2 * i - 1] = values[i]
  <2>1. /\ 2 * i - 1 \in 1..2 * n - 1 /\ (2 * i - 1) % 2 = 1
        /\ ((2 * i - 1) + 1) \div 2 = i
    BY <1>1
  <2> QED
    BY <1>2, <2>1
<1>7. ASSUME NEW i \in 1..n - 1
      PROVE  line[2 * i] \notin Values
  <2>1. 2 * i \in 1..2 * n - 1 /\ (2 * i) % 2 # 1
    BY <1>1
  <2> QED
    BY <1>2, <2>1, ExchangeAssumption
<1> QED
  BY <1>5, <1>6, <1>7 DEF ReadsAs, n, line

(* The invariant holds at the start.                                       *)
LEMMA InitOK == Init => IInv
<1> SUFFICES ASSUME Init  PROVE IInv
  OBVIOUS
<1>1. wire.lines = EmptyHeader
  BY DEF Init, Unsent
<1>2. HeaderOK(asked) /\ HeaderOK(reply) /\ LinesOK(wire.lines)
  BY <1>1, EmptyHeaderOK DEF Init
<1>3. exchange \in Exchanges /\ 0 \in 0..Len(exchange.lines)
  BY ExchangeParts DEF Init
<1> QED
  BY <1>2, <1>3 DEF Init, IInv, TypeOK, ReplyGoesOut

(* Every step keeps the invariant.                                         *)
LEMMA StepOK == IInv /\ [Next]_vars => IInv'
<1> SUFFICES ASSUME IInv, [Next]_vars  PROVE IInv'
  OBVIOUS
<1> USE DEF IInv
<1>0. /\ Len(exchange.lines) \in Nat /\ Len(exchange.script) \in Nat
  BY ExchangeParts
<1>1. CASE ParseTarget
  BY <1>1, <1>0 DEF ParseTarget, TypeOK, Unsent, ReplyGoesOut
<1>2. CASE ReadLine
  <2>1. HeaderOK(asked')
    <3>1. step + 1 \in 1..Len(exchange.lines)
      BY <1>2, <1>0 DEF ReadLine, TypeOK
    <3>2. exchange.lines[step + 1].name \in Names /\ exchange.lines[step + 1].value \in Values
      BY <3>1, ExchangeParts
    <3> QED
      BY <1>2, <3>2, AddedAndReplacedAreOK DEF ReadLine, TypeOK
  <2> QED
    BY <1>2, <1>0, <2>1 DEF ReadLine, TypeOK, Unsent, ReplyGoesOut
<1>3. CASE ReadBody
  BY <1>3, <1>0 DEF ReadBody, TypeOK, Unsent, ReplyGoesOut
<1>4. CASE AddField \/ SetField \/ DelField \/ SetStatus \/ Write
  <2>1. step + 1 \in 1..Len(exchange.script) /\ phase = "handling"
    BY <1>4, <1>0 DEF AddField, SetField, DelField, SetStatus, Write, Calling, TypeOK
  <2>2. HeaderOK(reply')
    <3>1. CASE AddField
      <4>1. NextCall.name \in Names /\ NextCall.value \in Values
        BY <3>1, <2>1, ExchangeParts DEF AddField, Calling, NextCall
      <4> QED
        BY <3>1, <4>1, AddedAndReplacedAreOK DEF AddField, TypeOK
    <3>2. CASE SetField
      <4>1. NextCall.name \in Names /\ NextCall.value \in Values
        BY <3>2, <2>1, ExchangeParts DEF SetField, Calling, NextCall
      <4> QED
        BY <3>2, <4>1, AddedAndReplacedAreOK DEF SetField, TypeOK
    <3>3. CASE DelField
      <4>1. NextCall.name \in Names
        BY <3>3, <2>1, ExchangeParts DEF DelField, Calling, NextCall
      <4> QED
        BY <3>3, <4>1, DeletedIsOK DEF DelField, TypeOK
    <3>4. CASE SetStatus \/ Write
      BY <3>4 DEF SetStatus, Write, TypeOK
    <3> QED
      BY <1>4, <3>1, <3>2, <3>3, <3>4
  <2>3. /\ UNCHANGED <<exchange, phase, url, asked, body, wire>>
        /\ step' = step + 1
        /\ written' \in BOOLEAN
    BY <1>4 DEF AddField, SetField, DelField, SetStatus, Write, Calling, TypeOK
  <2> QED
    BY <1>0, <2>1, <2>2, <2>3 DEF TypeOK, Unsent, ReplyGoesOut
<1>5. CASE HandlerReturns
  BY <1>5, <1>0 DEF HandlerReturns, TypeOK, Unsent, ReplyGoesOut
<1>6. CASE ProcessResponse
  <2>1. UNCHANGED <<exchange, step, asked, reply, status, written>> /\ phase = "sweeping"
    BY <1>6 DEF ProcessResponse
  <2>2. CASE phase' = "unsent" /\ UNCHANGED wire
    BY <1>0, <2>1, <2>2 DEF TypeOK, Unsent, ReplyGoesOut
  <2>3. CASE phase' = "thrown" /\ UNCHANGED wire /\ written
               /\ \E reason \in ReasonCodes(status) : ~ HasText(reason)
    <3>1. ~ TryParse(status)
      BY <2>3, NamedCodesAreKnown DEF ReasonCodes
    <3>2. status \notin StatusCodes
      BY <3>1, NamedCodesAreKnown
    <3> QED
      BY <1>0, <2>1, <2>3, <3>2 DEF TypeOK, Unsent, ReplyGoesOut
  <2>4. CASE /\ phase' = "sent"
             /\ \E reason \in ReasonCodes(status) :
                  /\ HasText(reason)
                  /\ wire' = [lines |-> SentLines(reply), status |-> status, reason |-> reason]
    <3>1. LinesOK(wire'.lines)
      <4>1. PICK lines : lines = wire'.lines
        OBVIOUS
      <4>2. lines = SentLines(reply) /\ HeaderOK(reply)
        BY <2>4, <4>1 DEF TypeOK
      <4>3. LinesOK(lines)
        BY <4>2, JoinedFacts DEF HeaderOK, LinesOK, SentLines
      <4> QED
        BY <4>1, <4>3
    <3>2. wire' # Unsent
      BY <2>4, NamedCodesAreKnown DEF Unsent, HasText
    <3> QED
      BY <1>0, <2>1, <2>4, <3>1, <3>2 DEF TypeOK, ReplyGoesOut
  <2> QED
    BY <1>6, <2>2, <2>3, <2>4 DEF ProcessResponse
<1>7. CASE UNCHANGED vars
  BY <1>7 DEF vars, TypeOK, Unsent, ReplyGoesOut
<1> QED
  BY <1>1, <1>2, <1>3, <1>4, <1>5, <1>6, <1>7 DEF Next

(* No reachable state of any exchange breaks the invariant.                *)
THEOREM Invariance == Spec => []IInv
BY InitOK, StepOK, PTL DEF Spec

(* The types, and that every key of a header is canonical and has values.  *)
THEOREM TypeCorrect == Spec => []TypeOK
BY Invariance, PTL DEF IInv

(* A response with a status that StatusCode.h names is never lost in       *)
(* process_response.                                                       *)
THEOREM RepliesGoOut == Spec => []ReplyGoesOut
BY Invariance, PTL DEF IInv

(* The same name never goes out in two lines.                              *)
THEOREM LinesHaveOneName == Spec => []OneLinePerName
<1>1. TypeOK => OneLinePerName
  <2> SUFFICES ASSUME TypeOK, NEW k \in DOMAIN wire.lines, NEW l \in DOMAIN wire.lines, SameName(k, l)
               PROVE  k = l
    BY DEF OneLinePerName
  <2>1. k \in Seq(Chars) /\ k = CanonicalKey(k) /\ l \in Seq(Chars) /\ l = CanonicalKey(l)
    BY DEF TypeOK, LinesOK
  <2> QED
    BY <2>1, CanonicalIsTheName
<1> QED
  BY <1>1, TypeCorrect, PTL

-----------------------------------------------------------------------------
(* Refinement                                                              *)

(* The values of each name, as HeaderFields has them.                      *)
FieldsOf(header) == [n \in Names |-> GetAllValues(header, n)]

(* A line that is read is an Add to the fields of the request.             *)
LEMMA AskedStep == IInv /\ [Next]_vars => [Asked!Next]_(FieldsOf(asked))
<1> SUFFICES ASSUME IInv, [Next]_vars
             PROVE  Asked!Next \/ UNCHANGED FieldsOf(asked)
  OBVIOUS
<1>1. CASE ReadLine
  <2> DEFINE line == exchange.lines[step + 1]
  <2>1. line.name \in Names /\ line.value \in Values
    <3>1. step + 1 \in 1..Len(exchange.lines)
      BY <1>1, ExchangeParts DEF ReadLine, IInv, TypeOK
    <3> QED
      BY <3>1, ExchangeParts DEF IInv
  <2>2. asked' = Added(asked, line.name, line.value)
    BY <1>1 DEF ReadLine
  <2> HIDE DEF line
  <2>3. \A m \in Names : GetAllValues(asked', m)
                          = IF SameName(m, line.name)
                            THEN Append(GetAllValues(asked, line.name), line.value)
                            ELSE GetAllValues(asked, m)
    BY <2>1, <2>2, AddedValues
  <2>4. Asked!Add(line.name, line.value)
    BY <2>1, <2>3 DEF Asked!Add, Asked!Update
  <2> QED
    BY <2>1, <2>4 DEF Asked!Next
<1>2. CASE ~ ReadLine
  <2>1. asked' = asked
    BY <1>2 DEF Next, vars, ParseTarget, ReadBody, AddField, SetField, DelField, SetStatus, Write,
                Calling, HandlerReturns, ProcessResponse
  <2> QED
    BY <2>1 DEF FieldsOf
<1> QED
  BY <1>1, <1>2

(* A call of the handler is the same call on the fields of the response.   *)
LEMMA ReplyStep == IInv /\ [Next]_vars => [Reply!Next]_(FieldsOf(reply))
<1> SUFFICES ASSUME IInv, [Next]_vars
             PROVE  Reply!Next \/ UNCHANGED FieldsOf(reply)
  OBVIOUS
<1>1. step \in Nat /\ (step < Len(exchange.script) => step + 1 \in 1..Len(exchange.script))
  BY ExchangeParts DEF IInv, TypeOK
<1>2. CASE AddField
  <2>1. NextCall.name \in Names /\ NextCall.value \in Values
    BY <1>1, <1>2, ExchangeParts DEF AddField, Calling, NextCall, IInv
  <2>2. \A m \in Names : GetAllValues(reply', m)
                          = IF SameName(m, NextCall.name)
                            THEN Append(GetAllValues(reply, NextCall.name), NextCall.value)
                            ELSE GetAllValues(reply, m)
    BY <1>2, <2>1, AddedValues DEF AddField
  <2>3. Reply!Add(NextCall.name, NextCall.value)
    BY <2>1, <2>2 DEF Reply!Add, Reply!Update
  <2> QED
    BY <2>1, <2>3 DEF Reply!Next
<1>3. CASE SetField
  <2>1. NextCall.name \in Names /\ NextCall.value \in Values
    BY <1>1, <1>3, ExchangeParts DEF SetField, Calling, NextCall, IInv
  <2>2. \A m \in Names : GetAllValues(reply', m)
                          = IF SameName(m, NextCall.name) THEN <<NextCall.value>>
                            ELSE GetAllValues(reply, m)
    BY <1>3, <2>1, ReplacedValues DEF SetField
  <2>3. Reply!Set(NextCall.name, NextCall.value)
    BY <2>1, <2>2 DEF Reply!Set, Reply!Update
  <2> QED
    BY <2>1, <2>3 DEF Reply!Next
<1>4. CASE DelField
  <2>1. NextCall.name \in Names
    BY <1>1, <1>4, ExchangeParts DEF DelField, Calling, NextCall, IInv
  <2>2. \A m \in Names : GetAllValues(reply', m)
                          = IF SameName(m, NextCall.name) THEN <<>> ELSE GetAllValues(reply, m)
    BY <1>4, <2>1, DeletedValues DEF DelField
  <2>3. Reply!Del(NextCall.name)
    BY <2>1, <2>2 DEF Reply!Del, Reply!Update
  <2> QED
    BY <2>1, <2>3 DEF Reply!Next
<1>5. CASE ~ (AddField \/ SetField \/ DelField)
  <2>1. reply' = reply
    BY <1>5 DEF Next, vars, ParseTarget, ReadLine, ReadBody, SetStatus, Write, Calling,
                HandlerReturns, ProcessResponse
  <2> QED
    BY <2>1 DEF FieldsOf
<1> QED
  BY <1>2, <1>3, <1>4, <1>5

(* The headers of the request and of the response are tables of fields     *)
(* whose names have no case: http.h:118-160.                               *)
THEOREM HeadersImplementFields == Spec => ImplementsFields
<1>1. Init => Asked!Init /\ Reply!Init
  BY EmptyHasNoValues DEF Init, Asked!Init, Reply!Init
<1>2. IInv /\ [Next]_vars => [Asked!Next]_([n \in Names |-> GetAllValues(asked, n)])
  BY AskedStep DEF FieldsOf
<1>3. IInv /\ [Next]_vars => [Reply!Next]_([n \in Names |-> GetAllValues(reply, n)])
  BY ReplyStep DEF FieldsOf
<1> QED
  BY <1>1, <1>2, <1>3, Invariance, PTL DEF Spec, ImplementsFields, Asked!Spec, Reply!Spec

-----------------------------------------------------------------------------
(* Values at places                                                        *)

(* Nowhere there is no value.                                              *)
LEMMA NoPlaces ==
  ASSUME NEW n \in Nat, NEW s, Len(s) = n, NEW P, \A i \in 1..n : i \notin P
  PROVE  ValuesAt(s, P) = <<>>
<1>1. PICK f : f = [i \in 1..n |-> IF i \in P THEN <<s[i].value>> ELSE <<>>]
  OBVIOUS
<1>2. ValuesAt(s, P) = FlattenSeq(f)
  BY <1>1 DEF ValuesAt
<1>3. PICK e : e = <<>>
  OBVIOUS
<1>4. f = [i \in 1..n |-> e]
  BY <1>1, <1>3
<1>5. e \in Seq({}) /\ e \o e = e
  BY <1>3
<1>6. f \in Seq({e}) /\ Len(f) = n /\ \A i \in 1..n : f[i] = e
  BY <1>4
<1>7. CASE n = 0
  <2>1. f = <<>>
    BY <1>6, <1>7, EmptySeq
  <2> QED BY <1>2, <2>1, FlattenEmpty
<1>8. CASE n # 0
  <2>1. f # <<>>
    BY <1>6, <1>8
  <2>2. PICK g : Flattens(g, f, n) /\ FlattenSeq(f) = g[n]
    BY <1>6, <2>1, FlattenIsLast
  <2>3. PICK D : D = {i \in 1..n : g[i] # e}
    OBVIOUS
  <2>4. ASSUME D # {}  PROVE FALSE
    <3>1. D \in SUBSET Nat
      BY <2>3
    <3>2. PICK x \in D : \A y \in D : x <= y
      BY <2>4, <3>1, LeastExists
    <3>3. x \in 1..n /\ g[x] # e /\ (x # 1 => x - 1 \in 1..n /\ x - 1 \notin D)
      BY <2>3, <3>2
    <3>4. g[x] = IF x = 1 THEN f[x] ELSE g[x - 1] \o f[x]
      BY <2>2, <3>3, FlattensValue
    <3>5. f[x] = e /\ (x # 1 => g[x - 1] = e)
      BY <1>6, <2>3, <3>3
    <3> QED BY <1>5, <3>3, <3>4, <3>5
  <2>5. n \in 1..n
    BY <1>8
  <2> QED BY <1>2, <1>3, <2>2, <2>3, <2>4, <2>5
<1> QED BY <1>7, <1>8

(* The sequence t has one entry more than s, and the places Q are P but    *)
(* for this entry.                                                         *)
Prolongs(n, s, P, t, Q) ==
  /\ n \in Nat /\ Len(s) = n /\ Len(t) = n + 1
  /\ \A i \in 1..n : (i \in P <=> i \in Q) /\ s[i] = t[i]
  /\ \A i \in 1..(n + 1) : i \in Q => t[i].value \in Values

(* One entry more, with its value behind the others or with none.          *)
LEMMA OnePlaceMore ==
  ASSUME NEW n, NEW s, NEW P, NEW t, NEW Q, Prolongs(n, s, P, t, Q)
  PROVE  /\ ValuesAt(s, P) \in Seq(Values)
         /\ n + 1 \in Q => ValuesAt(t, Q) = Append(ValuesAt(s, P), t[n + 1].value)
         /\ n + 1 \notin Q => ValuesAt(t, Q) = ValuesAt(s, P)
<1>0. /\ n \in Nat /\ n + 1 \in 1..(n + 1) /\ 1..n \subseteq 1..(n + 1)
      /\ \A i \in 1..n : (i \in P <=> i \in Q) /\ s[i] = t[i]
      /\ \A i \in 1..(n + 1) : i \in Q => t[i].value \in Values
  BY DEF Prolongs
<1>1. PICK f : f = [i \in 1..n |-> IF i \in P THEN <<s[i].value>> ELSE <<>>]
  OBVIOUS
<1>2. PICK g : g = [i \in 1..(n + 1) |-> IF i \in Q THEN <<t[i].value>> ELSE <<>>]
  OBVIOUS
<1>3. ValuesAt(s, P) = FlattenSeq(f) /\ ValuesAt(t, Q) = FlattenSeq(g)
  BY <1>1, <1>2 DEF ValuesAt, Prolongs
<1>4. /\ f \in [1..n -> Seq(Values)]
      /\ g \in [1..(n + 1) -> Seq(Values)]
      /\ \A i \in 1..n : f[i] = g[i]
  <2>1. ASSUME NEW i \in 1..(n + 1)
        PROVE  g[i] \in Seq(Values) /\ (i \in 1..n => f[i] = g[i])
    <3>1. CASE i \in Q
      <4>1. t[i].value \in Values
        BY <1>0, <3>1
      <4>2. PICK v : v = t[i].value
        OBVIOUS
      <4>3. <<v>> \in Seq(Values)
        BY <4>1, <4>2
      <4>4. g[i] = <<v>> /\ (i \in 1..n => f[i] = <<v>>)
        BY <1>0, <1>1, <1>2, <3>1, <4>2
      <4> QED BY <4>3, <4>4
    <3>2. CASE i \notin Q
      <4>1. <<>> \in Seq(Values)
        OBVIOUS
      <4> QED BY <1>0, <1>1, <1>2, <3>2, <4>1
    <3> QED BY <3>1, <3>2
  <2> QED BY <1>0, <1>1, <1>2, <2>1
<1>5. FlattenSeq(g) = FlattenSeq(f) \o g[n + 1]
  BY <1>0, <1>4, FlattenProlonged
<1>6. FlattenSeq(f) \in Seq(Values)
  <2>1. f \in Seq(Seq(Values))
    BY <1>0, <1>4, SeqDef
  <2> QED BY <2>1, FlattenType
<1>7. PICK flat : flat = FlattenSeq(f)
  OBVIOUS
<1>8. CASE n + 1 \in Q
  <2>1. PICK v \in Values : v = t[n + 1].value
    BY <1>0, <1>8
  <2>2. g[n + 1] = <<v>>
    BY <1>0, <1>2, <1>8, <2>1
  <2>3. flat \o <<v>> = Append(flat, v)
    BY <1>6, <1>7, <2>1, AppendIsConcat
  <2> QED BY <1>3, <1>5, <1>6, <1>7, <1>8, <2>1, <2>2, <2>3
<1>9. CASE n + 1 \notin Q
  <2>1. g[n + 1] = <<>>
    BY <1>0, <1>2, <1>9
  <2>2. flat \o <<>> = flat
    BY <1>6, <1>7, ConcatEmptySeq
  <2> QED BY <1>3, <1>5, <1>6, <1>7, <1>9, <2>1, <2>2
<1> QED BY <1>8, <1>9

-----------------------------------------------------------------------------
(* Lines and calls so far                                                  *)

(* The first k lines, or calls, of an exchange.                            *)
LEMMA FirstOnes ==
  ASSUME NEW S, NEW seq \in Seq(S), NEW k \in 0..Len(seq)
  PROVE  /\ Len(SubSeq(seq, 1, k)) = k
         /\ DOMAIN SubSeq(seq, 1, k) = 1..k
         /\ \A i \in 1..k : SubSeq(seq, 1, k)[i] = seq[i] /\ i \in 1..Len(seq)
OBVIOUS

(* The places of a name's lines.                                           *)
LinesFor(lines, n) == {i \in DOMAIN lines : SameName(lines[i].name, n)}

(* The values of a name in the lines so far.                               *)
Sent(k, n) ==
  ValuesAt(SubSeq(exchange.lines, 1, k), LinesFor(SubSeq(exchange.lines, 1, k), n))

(* One line more adds its value to its name, and to no other.              *)
LEMMA OneLineMore ==
  ASSUME exchange \in Exchanges, NEW k \in 0..(Len(exchange.lines) - 1), NEW n \in Names
  PROVE  /\ SameName(exchange.lines[k + 1].name, n) =>
              Sent(k + 1, n) = Append(Sent(k, n), exchange.lines[k + 1].value)
         /\ ~ SameName(exchange.lines[k + 1].name, n) => Sent(k + 1, n) = Sent(k, n)
<1>1. exchange \in Exchange
  BY ExchangeAssumption
<1>2. PICK lines \in Seq([name : Names, value : Values]) : lines = exchange.lines
  BY <1>1 DEF Exchange
<1>3. k \in Nat /\ k \in 0..Len(lines) /\ k + 1 \in 0..Len(lines)
  BY <1>2
<1>4. PICK s : s = SubSeq(lines, 1, k)
  OBVIOUS
<1>5. PICK t : t = SubSeq(lines, 1, k + 1)
  OBVIOUS
<1>6. /\ Len(s) = k /\ DOMAIN s = 1..k /\ \A i \in 1..k : s[i] = lines[i]
      /\ Len(t) = k + 1 /\ DOMAIN t = 1..(k + 1)
      /\ \A i \in 1..(k + 1) : t[i] = lines[i] /\ i \in 1..Len(lines)
  BY <1>3, <1>4, <1>5, FirstOnes
<1>7. PICK P : P = LinesFor(s, n)
  OBVIOUS
<1>8. PICK Q : Q = LinesFor(t, n)
  OBVIOUS
<1>9. /\ \A i \in 1..k : i \in 1..(k + 1)
      /\ k + 1 \in 1..(k + 1)
  BY <1>3
<1>10. /\ \A i \in 1..k : (i \in P <=> i \in Q) /\ s[i] = t[i]
       /\ k + 1 \in Q <=> SameName(lines[k + 1].name, n)
       /\ t[k + 1] = lines[k + 1]
  BY <1>6, <1>7, <1>8, <1>9 DEF LinesFor
<1>11. ASSUME NEW i \in 1..(k + 1)
       PROVE  t[i].value \in Values
  <2>1. lines[i] \in [name : Names, value : Values]
    BY <1>2, <1>6, ElementOfSeq
  <2> QED BY <1>6, <2>1
<1>12. /\ k + 1 \in Q => ValuesAt(t, Q) = Append(ValuesAt(s, P), t[k + 1].value)
       /\ k + 1 \notin Q => ValuesAt(t, Q) = ValuesAt(s, P)
  <2>1. Prolongs(k, s, P, t, Q)
    BY <1>3, <1>6, <1>10, <1>11 DEF Prolongs
  <2> QED BY <2>1, OnePlaceMore
<1>13. Sent(k, n) = ValuesAt(s, P) /\ Sent(k + 1, n) = ValuesAt(t, Q)
  BY <1>2, <1>4, <1>5, <1>7, <1>8 DEF Sent
<1> QED BY <1>2, <1>10, <1>12, <1>13

(* What the first k calls of the handler mean for a name, and for the      *)
(* status.                                                                 *)
MeantSoFar(k, n) == Meant(SubSeq(exchange.script, 1, k), n)

StatusSoFar(k) == MeantStatus(SubSeq(exchange.script, 1, k))

(* One call more appends, replaces or removes the values of its name, and  *)
(* leaves those of all others alone.                                       *)
LEMMA OneCallMore ==
  ASSUME exchange \in Exchanges, NEW k \in 0..(Len(exchange.script) - 1), NEW n \in Names,
         NEW c, c = exchange.script[k + 1]
  PROVE  /\ c.op = "add" /\ SameName(c.name, n) =>
              MeantSoFar(k + 1, n) = Append(MeantSoFar(k, n), c.value)
         /\ c.op = "set" /\ SameName(c.name, n) => MeantSoFar(k + 1, n) = <<c.value>>
         /\ c.op = "del" /\ SameName(c.name, n) => MeantSoFar(k + 1, n) = <<>>
         /\ ~ (c.op \in {"add", "set", "del"} /\ SameName(c.name, n)) =>
              MeantSoFar(k + 1, n) = MeantSoFar(k, n)
<1>1. exchange \in Exchange
  BY ExchangeAssumption
<1>2. PICK script \in Seq(Call) : script = exchange.script
  BY <1>1 DEF Exchange
<1>3. k \in Nat /\ k \in 0..Len(script) /\ k + 1 \in 0..Len(script)
  BY <1>2
<1>4. PICK s : s = SubSeq(script, 1, k)
  OBVIOUS
<1>5. PICK t : t = SubSeq(script, 1, k + 1)
  OBVIOUS
<1>6. /\ Len(s) = k /\ DOMAIN s = 1..k /\ \A i \in 1..k : s[i] = script[i]
      /\ Len(t) = k + 1 /\ DOMAIN t = 1..(k + 1)
      /\ \A i \in 1..(k + 1) : t[i] = script[i] /\ i \in 1..Len(script)
  BY <1>3, <1>4, <1>5, FirstOnes
<1>7. PICK C : C = CallsFor(s, n)
  OBVIOUS
<1>8. PICK D : D = CallsFor(t, n)
  OBVIOUS
<1>9. PICK P : P = {i \in C : s[i].op # "del" /\ \A j \in {h \in C : s[h].op # "add"} : j <= i}
  OBVIOUS
<1>10. PICK Q : Q = {i \in D : t[i].op # "del" /\ \A j \in {h \in D : t[h].op # "add"} : j <= i}
  OBVIOUS
<1>11. MeantSoFar(k, n) = ValuesAt(s, P) /\ MeantSoFar(k + 1, n) = ValuesAt(t, Q)
  BY <1>2, <1>4, <1>5, <1>7, <1>8, <1>9, <1>10 DEF MeantSoFar, Meant
<1>12. /\ \A i \in 1..k : i \in 1..(k + 1) /\ s[i] = t[i] /\ i <= k /\ i # k + 1
       /\ k + 1 \in 1..(k + 1) /\ t[k + 1] = c
       /\ \A i \in 1..(k + 1) : i \in 1..k \/ i = k + 1
  BY <1>2, <1>3, <1>6
<1>13. /\ C \subseteq 1..k /\ D \subseteq 1..(k + 1)
       /\ \A i \in 1..k : i \in C <=> i \in D
       /\ k + 1 \in D <=> c.op \in {"add", "set", "del"} /\ SameName(c.name, n)
  BY <1>6, <1>7, <1>8, <1>12 DEF CallsFor
<1>14. ASSUME NEW i \in 1..(k + 1), i \in Q
       PROVE  t[i].value \in Values
  <2>1. script[i] \in Call
    BY <1>2, <1>6, ElementOfSeq
  <2>2. t[i] = script[i] /\ t[i].op \in {"add", "set"}
    BY <1>6, <1>8, <1>10, <1>14 DEF CallsFor
  <2> QED BY <2>1, <2>2 DEF Call
<1>15. ASSUME k + 1 \in D, c.op = "add"
       PROVE  MeantSoFar(k + 1, n) = Append(MeantSoFar(k, n), c.value)
  <2>1. k + 1 \in Q
    BY <1>10, <1>12, <1>13, <1>15
  <2>2. \A i \in 1..k : i \in P <=> i \in Q
    BY <1>9, <1>10, <1>12, <1>13, <1>15
  <2>3. ValuesAt(t, Q) = Append(ValuesAt(s, P), t[k + 1].value)
    <3>1. Prolongs(k, s, P, t, Q)
      BY <1>3, <1>6, <1>12, <1>14, <2>1, <2>2 DEF Prolongs
    <3> QED BY <3>1, <2>1, OnePlaceMore
  <2> QED BY <1>11, <1>12, <2>3
<1>16. ASSUME k + 1 \in D, c.op # "add", NEW i \in 1..k
       PROVE  i \notin Q
  <2>1. ASSUME i \in Q
        PROVE  FALSE
    <3>1. k + 1 <= i
      BY <1>10, <1>12, <1>16, <2>1
    <3> QED BY <1>3, <1>12, <3>1
  <2> QED BY <2>1
<1>17. ASSUME k + 1 \in D, c.op = "del"
       PROVE  MeantSoFar(k + 1, n) = <<>>
  <2>1. k + 1 \notin Q
    BY <1>10, <1>12, <1>17
  <2>2. \A i \in 1..(k + 1) : i \notin Q
    BY <1>12, <1>16, <1>17, <2>1
  <2>3. PICK m \in Nat : m = k + 1
    BY <1>3
  <2>4. ValuesAt(t, Q) = <<>>
    BY <1>6, <2>2, <2>3, NoPlaces
  <2> QED BY <1>11, <2>4
<1>18. ASSUME k + 1 \in D, c.op = "set"
       PROVE  MeantSoFar(k + 1, n) = <<c.value>>
  <2>1. k + 1 \in Q
    BY <1>3, <1>10, <1>12, <1>13, <1>18
  <2>2. PICK E : E = {}
    OBVIOUS
  <2>3. /\ \A i \in 1..k : i \notin E
        /\ \A i \in 1..k : (i \in E <=> i \in Q) /\ s[i] = t[i]
    BY <1>12, <1>16, <1>18, <2>2
  <2>4. ValuesAt(s, E) = <<>>
    BY <1>3, <1>6, <2>3, NoPlaces
  <2>5. ValuesAt(t, Q) = Append(ValuesAt(s, E), t[k + 1].value)
    <3>1. Prolongs(k, s, E, t, Q)
      BY <1>3, <1>6, <1>14, <2>1, <2>3 DEF Prolongs
    <3> QED BY <3>1, <2>1, OnePlaceMore
  <2>6. PICK v : v = c.value
    OBVIOUS
  <2>7. ValuesAt(t, Q) = Append(<<>>, v)
    BY <1>12, <2>4, <2>5, <2>6, Zenon
  <2>8. Append(<<>>, v) = <<v>>
    OBVIOUS
  <2> QED BY <1>11, <2>6, <2>7, <2>8, Zenon
<1>19. ASSUME k + 1 \notin D
       PROVE  MeantSoFar(k + 1, n) = MeantSoFar(k, n)
  <2>1. k + 1 \notin Q /\ \A i \in 1..k : i \in P <=> i \in Q
    BY <1>9, <1>10, <1>12, <1>13, <1>19
  <2>2. ValuesAt(t, Q) = ValuesAt(s, P)
    <3>1. Prolongs(k, s, P, t, Q)
      BY <1>3, <1>6, <1>12, <1>14, <2>1 DEF Prolongs
    <3> QED BY <3>1, <2>1, OnePlaceMore
  <2> QED BY <1>11, <2>2
<1>20. /\ c.op = "add" /\ SameName(c.name, n) => k + 1 \in D
       /\ c.op = "set" /\ SameName(c.name, n) => k + 1 \in D
       /\ c.op = "del" /\ SameName(c.name, n) => k + 1 \in D
       /\ ~ (c.op \in {"add", "set", "del"} /\ SameName(c.name, n)) => k + 1 \notin D
  BY <1>13
<1> QED BY <1>15, <1>17, <1>18, <1>19, <1>20, Zenon

(* The status is the one that was set last.                                *)
LEMMA OneStatusMore ==
  ASSUME exchange \in Exchanges, NEW k \in 0..(Len(exchange.script) - 1),
         NEW c, c = exchange.script[k + 1]
  PROVE  /\ c.op = "status" => StatusSoFar(k + 1) = c.code
         /\ c.op # "status" => StatusSoFar(k + 1) = StatusSoFar(k)
<1>1. exchange \in Exchange
  BY ExchangeAssumption
<1>2. PICK script \in Seq(Call) : script = exchange.script
  BY <1>1 DEF Exchange
<1>3. k \in Nat /\ k \in 0..Len(script) /\ k + 1 \in 0..Len(script)
  BY <1>2
<1>4. PICK s : s = SubSeq(script, 1, k)
  OBVIOUS
<1>5. PICK t : t = SubSeq(script, 1, k + 1)
  OBVIOUS
<1>6. /\ Len(s) = k /\ \A i \in 1..k : s[i] = script[i]
      /\ Len(t) = k + 1 /\ \A i \in 1..(k + 1) : t[i] = script[i]
  BY <1>3, <1>4, <1>5, FirstOnes
<1>7. PICK C : C = {i \in 1..k : s[i].op = "status"}
  OBVIOUS
<1>8. PICK D : D = {i \in 1..(k + 1) : t[i].op = "status"}
  OBVIOUS
<1>9. StatusSoFar(k) = LET i == IF C # {} THEN Max(C) ELSE 0 IN IF i = 0 THEN 200 ELSE s[i].code
  <2>1. C = {i \in 1..Len(s) : s[i].op = "status"}
    BY <1>6, <1>7
  <2>2. SelectLastInSeq(s, LAMBDA d : d.op = "status") = IF C # {} THEN Max(C) ELSE 0
    BY <2>1 DEF SelectLastInSeq
  <2> QED BY <1>2, <1>4, <2>2 DEF StatusSoFar, MeantStatus
<1>10. StatusSoFar(k + 1) = LET i == IF D # {} THEN Max(D) ELSE 0 IN IF i = 0 THEN 200 ELSE t[i].code
  <2>1. D = {i \in 1..Len(t) : t[i].op = "status"}
    BY <1>6, <1>8
  <2>2. SelectLastInSeq(t, LAMBDA d : d.op = "status") = IF D # {} THEN Max(D) ELSE 0
    BY <2>1 DEF SelectLastInSeq
  <2> QED BY <1>2, <1>5, <2>2 DEF StatusSoFar, MeantStatus
<1>11. /\ \A i \in 1..k : i \in 1..(k + 1) /\ s[i] = t[i] /\ i # 0
       /\ k + 1 \in 1..(k + 1) /\ t[k + 1] = c /\ k + 1 # 0
       /\ \A i \in 1..(k + 1) : i \in 1..k \/ i = k + 1
  BY <1>2, <1>3, <1>6
<1>12. CASE c.op = "status"
  <2>1. D \in SUBSET Nat /\ D # {} /\ k + 1 \in Nat /\ \A i \in D : i <= k + 1
    BY <1>3, <1>8, <1>11, <1>12
  <2>2. Max(D) \in D /\ \A i \in D : i <= Max(D)
    BY <2>1, MaxIsGreatest
  <2>3. k + 1 \in D
    BY <1>8, <1>11, <1>12
  <2>4. Max(D) = k + 1
    <3>1. PICK m : m = Max(D)
      OBVIOUS
    <3>2. m \in Nat /\ m <= k + 1 /\ k + 1 <= m
      BY <2>1, <2>2, <2>3, <3>1
    <3> QED BY <1>3, <3>1, <3>2
  <2> QED BY <1>10, <1>11, <1>12, <2>1, <2>4
<1>13. CASE c.op # "status"
  <2>1. C = D
    BY <1>7, <1>8, <1>11, <1>13
  <2>2. CASE C = {}
    BY <1>9, <1>10, <1>13, <2>1, <2>2
  <2>3. CASE C # {}
    <3>1. C \in SUBSET Nat /\ \A i \in C : i <= k
      BY <1>3, <1>7
    <3>2. Max(C) \in C
      BY <1>3, <2>3, <3>1, MaxIsGreatest
    <3>3. Max(C) \in 1..k
      BY <1>7, <3>2
    <3> QED BY <1>9, <1>10, <1>11, <1>13, <2>1, <2>3, <3>3
  <2> QED BY <2>2, <2>3
<1> QED BY <1>12, <1>13

-----------------------------------------------------------------------------
(* The invariant                                                           *)

(* Of the lines that were read so far no value is lost or out of order.    *)
RequestSoFar ==
  /\ phase \in {"delivered", "reading"} => \A n \in Names : GetAllValues(asked, n) = Sent(step, n)
  /\ RequestFieldsExact

(* Nor of the calls that the handler made so far, up to the wire.          *)
ReplySoFar ==
  /\ phase \in {"delivered", "reading"} => reply = EmptyHeader /\ status = 200
  /\ phase \in {"handling", "sweeping"} =>
       /\ \A n \in Names : GetAllValues(reply, n) = MeantSoFar(step, n)
       /\ status = StatusSoFar(step)
  /\ phase = "sweeping" => step = Len(exchange.script)
  /\ WireExact

(* Before the first line and the first call there is nothing.              *)
LEMMA NothingSoFar ==
  /\ \A n \in Names : Sent(0, n) = <<>> /\ MeantSoFar(0, n) = <<>>
  /\ StatusSoFar(0) = 200
<1>1. SubSeq(exchange.lines, 1, 0) = <<>> /\ SubSeq(exchange.script, 1, 0) = <<>>
  OBVIOUS
<1>2. PICK e : e = <<>>
  OBVIOUS
<1>3. Len(e) = 0 /\ 0 \in Nat /\ \A P : \A i \in 1..0 : i \notin P
  BY <1>2
<1>4. \A P : ValuesAt(e, P) = <<>>
  BY <1>3, NoPlaces
<1>5. StatusSoFar(0) = 200
  <2>1. {i \in 1..Len(e) : e[i].op = "status"} = {}
    BY <1>3
  <2>2. SelectLastInSeq(e, LAMBDA d : d.op = "status") = 0
    BY <2>1 DEF SelectLastInSeq
  <2> QED BY <1>1, <1>2, <2>2 DEF StatusSoFar, MeantStatus
<1> QED BY <1>1, <1>2, <1>4, <1>5 DEF Sent, MeantSoFar, Meant

(* All lines and all calls are what the exchange has.                      *)
LEMMA AllSoFar ==
  ASSUME exchange \in Exchanges
  PROVE  /\ \A n \in Names :
              /\ Sent(Len(exchange.lines), n) = ValuesAt(exchange.lines, LinesFor(exchange.lines, n))
              /\ MeantSoFar(Len(exchange.script), n) = Meant(exchange.script, n)
         /\ StatusSoFar(Len(exchange.script)) = MeantStatus(exchange.script)
<1>1. exchange \in Exchange
  BY ExchangeAssumption
<1>2. exchange.lines \in Seq([name : Names, value : Values]) /\ exchange.script \in Seq(Call)
  BY <1>1 DEF Exchange
<1>3. /\ SubSeq(exchange.lines, 1, Len(exchange.lines)) = exchange.lines
      /\ SubSeq(exchange.script, 1, Len(exchange.script)) = exchange.script
  BY <1>2, SubSeqFull
<1> QED BY <1>3 DEF Sent, MeantSoFar, StatusSoFar

(* What process_response sends has a line for each field of the response,  *)
(* and no other.                                                           *)
LEMMA LinesOfWire ==
  ASSUME HeaderOK(reply), NEW lines, lines = SentLines(reply), NEW n \in Names
  PROVE  /\ {k \in DOMAIN lines : SameName(k, n)} = {} => GetAllValues(reply, n) = <<>>
         /\ \A k \in DOMAIN lines : SameName(k, n) => ReadsAs(lines[k], GetAllValues(reply, n))
<1>1. PICK c : c = CanonicalKey(n)
  OBVIOUS
<1>2. n \in Seq(Chars) /\ c \in Seq(Chars) /\ CanonicalKey(c) = c
  BY <1>1, CanonicalIsKey, CanonicalIsIdempotent, ExchangeAssumption
<1>3. DOMAIN lines = DOMAIN reply /\ \A k \in DOMAIN reply : ReadsAs(lines[k], reply[k])
  BY JoinedFacts DEF HeaderOK, SentLines
<1>4. ASSUME NEW k \in DOMAIN reply
      PROVE  SameName(k, n) <=> k = c
  <2>1. k \in Seq(Chars) /\ k = CanonicalKey(k)
    BY DEF HeaderOK
  <2> QED BY <1>1, <1>2, <2>1, CanonicalIsTheName
<1>5. GetAllValues(reply, n) = IF c \in DOMAIN reply THEN reply[c] ELSE <<>>
  BY <1>1 DEF GetAllValues
<1> QED BY <1>3, <1>4, <1>5

(* A line that is read is added to the values of its name.                 *)
LEMMA RequestStep == IInv /\ RequestSoFar /\ [Next]_vars => RequestSoFar'
<1> SUFFICES ASSUME IInv, RequestSoFar, [Next]_vars  PROVE RequestSoFar'
  OBVIOUS
<1>1. exchange \in Exchanges /\ TypeOK
  BY DEF IInv
<1>2. CASE ReadLine
  <2>1. step \in 0..(Len(exchange.lines) - 1) /\ step + 1 \in 1..Len(exchange.lines)
    BY <1>1, <1>2, ExchangeParts DEF ReadLine, TypeOK
  <2>2. PICK line : line = exchange.lines[step + 1]
    OBVIOUS
  <2>3. line.name \in Names /\ line.value \in Values
    BY <1>1, <2>1, <2>2, ExchangeParts
  <2>4. asked' = Added(asked, line.name, line.value)
    BY <1>2, <2>2 DEF ReadLine
  <2>5. phase = "reading" /\ phase' = "reading" /\ step' = step + 1 /\ exchange' = exchange
    BY <1>2 DEF ReadLine
  <2>6. ASSUME NEW n \in Names
        PROVE  GetAllValues(asked', n) = Sent(step + 1, n)
    <3>1. GetAllValues(asked', n) = IF SameName(n, line.name)
                                    THEN Append(GetAllValues(asked, line.name), line.value)
                                    ELSE GetAllValues(asked, n)
      BY <2>3, <2>4, AddedValues
    <3>2. SameName(n, line.name) <=> SameName(line.name, n)
      BY <2>3, CanonicalIsTheName, ExchangeAssumption
    <3>3. SameName(n, line.name) => GetAllValues(asked, line.name) = GetAllValues(asked, n)
      BY <2>3, SameNameSameValues
    <3>4. GetAllValues(asked, n) = Sent(step, n)
      BY <2>5 DEF RequestSoFar
    <3>5. /\ SameName(line.name, n) => Sent(step + 1, n) = Append(Sent(step, n), line.value)
          /\ ~ SameName(line.name, n) => Sent(step + 1, n) = Sent(step, n)
      BY <1>1, <2>1, <2>2, OneLineMore
    <3> QED BY <3>1, <3>2, <3>3, <3>4, <3>5
  <2>7. \A n \in Names : Sent(step, n)' = Sent(step + 1, n)
    BY <2>5 DEF Sent
  <2> QED BY <2>5, <2>6, <2>7 DEF RequestSoFar, RequestFieldsExact
<1>3. CASE ReadBody
  <2>1. phase = "reading" /\ step = Len(exchange.lines) /\ asked' = asked /\ exchange' = exchange
        /\ phase' \in {"thrown", "handling"}
    BY <1>3 DEF ReadBody
  <2>2. \A n \in Names : GetAllValues(asked, n) = ValuesAt(exchange.lines, LinesFor(exchange.lines, n))
    BY <1>1, <2>1, AllSoFar DEF RequestSoFar
  <2> QED BY <2>1, <2>2 DEF RequestSoFar, RequestFieldsExact, LinesFor
<1>4. CASE ~ (ReadLine \/ ReadBody)
  <2>1. UNCHANGED <<exchange, asked>>
        /\ (phase' = "handling" => phase = "handling")
        /\ (phase' \in {"delivered", "reading"} => phase \in {"delivered", "reading"} /\ step' = step)
    BY <1>4 DEF Next, vars, ParseTarget, AddField, SetField, DelField, SetStatus, Write,
                Calling, HandlerReturns, ProcessResponse
  <2>2. \A n \in Names : step' = step => Sent(step, n)' = Sent(step, n)
    BY <2>1 DEF Sent
  <2> QED BY <2>1, <2>2 DEF RequestSoFar, RequestFieldsExact
<1> QED BY <1>2, <1>3, <1>4

(* A call of the handler changes the response as it means to, and nothing  *)
(* but the handler changes it.                                             *)
LEMMA ReplyMeantStep == IInv /\ ReplySoFar /\ [Next]_vars => ReplySoFar'
<1> SUFFICES ASSUME IInv, ReplySoFar, [Next]_vars  PROVE ReplySoFar'
  OBVIOUS
<1>1. exchange \in Exchanges /\ TypeOK
  BY DEF IInv
<1>2. CASE AddField \/ SetField \/ DelField \/ SetStatus \/ Write
  <2>1. PICK c : c = exchange.script[step + 1]
    OBVIOUS
  <2>2. /\ phase = "handling" /\ phase' = "handling" /\ step' = step + 1
        /\ exchange' = exchange /\ wire' = wire
        /\ step < Len(exchange.script)
    BY <1>2 DEF AddField, SetField, DelField, SetStatus, Write, Calling
  <2>3. step \in 0..(Len(exchange.script) - 1) /\ step + 1 \in 1..Len(exchange.script)
    BY <1>1, <2>2, ExchangeParts DEF TypeOK
  <2>4. /\ c.op \in {"add", "set"} => c.name \in Names /\ c.value \in Values
        /\ c.op = "del" => c.name \in Names
    BY <1>1, <2>1, <2>3, ExchangeParts
  <2>5. \/ c.op = "add" /\ reply' = Added(reply, c.name, c.value) /\ status' = status
        \/ c.op = "set" /\ reply' = Replaced(reply, c.name, c.value) /\ status' = status
        \/ c.op = "del" /\ reply' = Deleted(reply, c.name) /\ status' = status
        \/ c.op = "status" /\ reply' = reply /\ status' = c.code
        \/ c.op = "write" /\ reply' = reply /\ status' = status
    BY <1>2, <2>1 DEF AddField, SetField, DelField, SetStatus, Write, Calling, NextCall
  <2>6. status' = StatusSoFar(step + 1)
    <3>1. status = StatusSoFar(step)
      BY <2>2 DEF ReplySoFar
    <3>2. /\ c.op = "status" => StatusSoFar(step + 1) = c.code
          /\ c.op # "status" => StatusSoFar(step + 1) = StatusSoFar(step)
      BY <1>1, <2>1, <2>3, OneStatusMore
    <3> QED BY <2>5, <3>1, <3>2
  <2>7. ASSUME NEW n \in Names
        PROVE  GetAllValues(reply', n) = MeantSoFar(step + 1, n)
    <3>1. GetAllValues(reply, n) = MeantSoFar(step, n)
      BY <2>2 DEF ReplySoFar
    <3>2. /\ c.op = "add" /\ SameName(c.name, n) =>
              MeantSoFar(step + 1, n) = Append(MeantSoFar(step, n), c.value)
          /\ c.op = "set" /\ SameName(c.name, n) => MeantSoFar(step + 1, n) = <<c.value>>
          /\ c.op = "del" /\ SameName(c.name, n) => MeantSoFar(step + 1, n) = <<>>
          /\ ~ (c.op \in {"add", "set", "del"} /\ SameName(c.name, n)) =>
              MeantSoFar(step + 1, n) = MeantSoFar(step, n)
      BY <1>1, <2>1, <2>3, OneCallMore
    <3>3. c.op \in {"add", "set", "del"} => (SameName(n, c.name) <=> SameName(c.name, n))
      BY <2>4, CanonicalIsTheName, ExchangeAssumption
    <3>4. CASE c.op = "add"
      <4>1. GetAllValues(reply', n) = IF SameName(n, c.name)
                                      THEN Append(GetAllValues(reply, c.name), c.value)
                                      ELSE GetAllValues(reply, n)
        BY <2>4, <2>5, <3>4, AddedValues
      <4>2. SameName(n, c.name) => GetAllValues(reply, c.name) = GetAllValues(reply, n)
        BY <2>4, <3>4, SameNameSameValues
      <4> QED BY <3>1, <3>2, <3>3, <3>4, <4>1, <4>2
    <3>5. CASE c.op = "set"
      <4>1. GetAllValues(reply', n) = IF SameName(n, c.name) THEN <<c.value>>
                                      ELSE GetAllValues(reply, n)
        BY <2>4, <2>5, <3>5, ReplacedValues
      <4> QED BY <3>1, <3>2, <3>3, <3>5, <4>1
    <3>6. CASE c.op = "del"
      <4>1. GetAllValues(reply', n) = IF SameName(n, c.name) THEN <<>> ELSE GetAllValues(reply, n)
        BY <2>4, <2>5, <3>6, DeletedValues
      <4> QED BY <3>1, <3>2, <3>3, <3>6, <4>1
    <3>7. CASE c.op \in {"status", "write"}
      BY <2>5, <3>1, <3>2, <3>7
    <3> QED BY <2>5, <3>4, <3>5, <3>6, <3>7
  <2>8. /\ StatusSoFar(step)' = StatusSoFar(step + 1)
        /\ \A n \in Names : MeantSoFar(step, n)' = MeantSoFar(step + 1, n)
    BY <2>2 DEF StatusSoFar, MeantSoFar
  <2> QED BY <2>2, <2>6, <2>7, <2>8 DEF ReplySoFar, WireExact
<1>3. CASE ReadBody
  <2>1. /\ phase = "reading" /\ exchange' = exchange /\ reply' = reply /\ status' = status
        /\ \/ phase' = "thrown"
           \/ phase' = "handling" /\ step' = 0
    BY <1>3 DEF ReadBody
  <2>2. reply' = EmptyHeader /\ status' = 200
    BY <2>1 DEF ReplySoFar
  <2>3. \A n \in Names : GetAllValues(reply', n) = <<>>
    BY <2>2, EmptyHasNoValues
  <2>4. step' = 0 => /\ StatusSoFar(step)' = StatusSoFar(0)
                     /\ \A n \in Names : MeantSoFar(step, n)' = MeantSoFar(0, n)
    BY <2>1 DEF StatusSoFar, MeantSoFar
  <2> QED BY <2>1, <2>2, <2>3, <2>4, NothingSoFar DEF ReplySoFar, WireExact
<1>4. CASE HandlerReturns
  <2>1. /\ phase = "handling" /\ phase' = "sweeping" /\ step = Len(exchange.script)
        /\ UNCHANGED <<exchange, step, reply, status>>
    BY <1>4 DEF HandlerReturns
  <2>2. /\ StatusSoFar(step)' = StatusSoFar(step)
        /\ \A n \in Names : MeantSoFar(step, n)' = MeantSoFar(step, n)
    BY <2>1 DEF StatusSoFar, MeantSoFar
  <2> QED BY <2>1, <2>2 DEF ReplySoFar, WireExact
<1>5. CASE ProcessResponse
  <2>1. /\ phase = "sweeping" /\ phase' \in {"sent", "unsent", "thrown"} /\ exchange' = exchange
        /\ phase' = "sent" =>
             wire'.lines = SentLines(reply) /\ wire'.status = status
    BY <1>5 DEF ProcessResponse
  <2>2. /\ \A n \in Names : GetAllValues(reply, n) = Meant(exchange.script, n)
        /\ status = MeantStatus(exchange.script)
    BY <1>1, <2>1, AllSoFar DEF ReplySoFar
  <2>3. HeaderOK(reply)
    BY <1>1 DEF TypeOK
  <2>4. PICK lines : lines = wire'.lines
    OBVIOUS
  <2>5. ASSUME phase' = "sent", NEW n \in Names
        PROVE  /\ {k \in DOMAIN lines : SameName(k, n)} = {} => Meant(exchange.script, n) = <<>>
               /\ \A k \in DOMAIN lines : SameName(k, n) => ReadsAs(lines[k], Meant(exchange.script, n))
    BY <2>1, <2>2, <2>3, <2>4, <2>5, LinesOfWire
  <2>6. WireExact'
    BY <2>1, <2>2, <2>4, <2>5 DEF WireExact
  <2> QED BY <2>1, <2>6 DEF ReplySoFar
<1>6. CASE ParseTarget \/ ReadLine \/ UNCHANGED vars
  <2>1. UNCHANGED <<exchange, reply, status, wire>>
        /\ \/ phase' = phase /\ step' = step
           \/ phase \in {"delivered", "reading"} /\ phase' \in {"reading", "thrown"}
    BY <1>6 DEF vars, ParseTarget, ReadLine
  <2>2. step' = step => /\ StatusSoFar(step)' = StatusSoFar(step)
                        /\ \A n \in Names : MeantSoFar(step, n)' = MeantSoFar(step, n)
    BY <2>1 DEF StatusSoFar, MeantSoFar
  <2> QED BY <2>1, <2>2 DEF ReplySoFar, WireExact
<1> QED BY <1>2, <1>3, <1>4, <1>5, <1>6 DEF Next

(* Both hold in every state of every exchange.                             *)
THEOREM FieldInvariance == Spec => [](RequestSoFar /\ ReplySoFar)
<1>1. Init => RequestSoFar /\ ReplySoFar
  <2> SUFFICES ASSUME Init  PROVE RequestSoFar /\ ReplySoFar
    OBVIOUS
  <2>1. \A n \in Names : GetAllValues(asked, n) = <<>>
    BY EmptyHasNoValues DEF Init
  <2> QED BY <2>1, NothingSoFar DEF Init, RequestSoFar, ReplySoFar, RequestFieldsExact, WireExact
<1>2. IInv /\ (RequestSoFar /\ ReplySoFar) /\ [Next]_vars => (RequestSoFar /\ ReplySoFar)'
  BY RequestStep, ReplyMeantStep
<1> QED BY <1>1, <1>2, Invariance, PTL DEF Spec

(* The handler sees all values that the client sent, in their order.       *)
THEOREM NoFieldIsLost == Spec => []RequestFieldsExact
BY FieldInvariance, PTL DEF RequestSoFar

(* The client gets what the handler meant: for each name the values since  *)
(* it was last set or deleted, and the last status.                        *)
THEOREM WireIsExact == Spec => []WireExact
BY FieldInvariance, PTL DEF ReplySoFar

-----------------------------------------------------------------------------
(* Searching and cutting                                                   *)

(* std::find finds the first such character, or the end.                   *)
LEMMA FindsFirst ==
  ASSUME NEW S, NEW s \in Seq(S), NEW i \in Nat \ {0}, NEW c
  PROVE  /\ Target!FindChar(s, i, c) \in 1..(Len(s) + 1)
         /\ Target!FindChar(s, i, c) <= Len(s) =>
              i <= Target!FindChar(s, i, c) /\ s[Target!FindChar(s, i, c)] = c
         /\ \A j \in i..Len(s) : s[j] = c => Target!FindChar(s, i, c) <= j
<1> DEFINE T == {j \in i..Len(s) : s[j] = c}
<1>1. Target!FindChar(s, i, c) = IF T # {} THEN Min(T) ELSE Len(s) + 1
  <2>1. Target!SelectInSubSeq(s, i, Len(s), LAMBDA d : d = c) = IF T # {} THEN Min(T) ELSE 0
    BY DEF Target!SelectInSubSeq, Target!Min, Min
  <2>2. T # {} => Min(T) # 0
    <3>1. T \in SUBSET Nat /\ 0 \notin T
      OBVIOUS
    <3> HIDE DEF T
    <3> QED BY <3>1, MinIsLeast
  <2> HIDE DEF T
  <2> QED BY <2>1, <2>2 DEF Target!FindChar
<1>2. T \in SUBSET Nat /\ Len(s) \in Nat
  OBVIOUS
<1>3. CASE T # {}
  <2>1. Min(T) \in T /\ \A j \in T : Min(T) <= j
    BY <1>2, <1>3, MinIsLeast
  <2>2. Target!FindChar(s, i, c) = Min(T)
    BY <1>1, <1>3
  <2> QED BY <1>2, <2>1, <2>2
<1>4. CASE T = {}
  BY <1>1, <1>2, <1>4
<1> QED BY <1>3, <1>4

(* A part that begins where another ends makes a longer one with it.       *)
LEMMA Adjacent ==
  ASSUME NEW S, NEW s \in Seq(S), NEW k \in 0..Len(s), NEW n \in k..Len(s)
  PROVE  SubSeq(s, 1, k) \o SubSeq(s, k + 1, n) = SubSeq(s, 1, n)
<1>1. 1 \in 1..(Len(s) + 1) /\ k \in (1 - 1)..Len(s) /\ n \in k..Len(s)
  OBVIOUS
<1> QED BY <1>1, ConcatAdjacentSubSeq

(* A part that ends before it begins is empty.                             *)
LEMMA NoPart ==
  ASSUME NEW S, NEW s \in Seq(S), NEW m \in Int, NEW n \in Int, n < m
  PROVE  SubSeq(s, m, n) = <<>>
OBVIOUS

(* A part of one character.                                                *)
LEMMA OneChar ==
  ASSUME NEW S, NEW s \in Seq(S), NEW k \in 1..Len(s)
  PROVE  SubSeq(s, k, k) = <<s[k]>>
<1>1. PICK t : t = SubSeq(s, k, k)
  OBVIOUS
<1>2. PICK x : x = s[k]
  OBVIOUS
<1>3. t \in Seq(S) /\ Len(t) = 1 /\ t[1] = x /\ x \in S
  BY <1>1, <1>2
<1>4. <<x>> \in Seq(S) /\ Len(<<x>>) = 1 /\ <<x>>[1] = x
  BY <1>3
<1>5. \A i \in 1..1 : t[i] = <<x>>[i]
  BY <1>3, <1>4
<1>6. t = <<x>>
  BY <1>3, <1>4, <1>5, SeqEqual
<1> QED BY <1>1, <1>2, <1>6

-----------------------------------------------------------------------------
(* The parts of a target                                                   *)

(* Where the parts of a target that is not refused begin, in their order.  *)
LEMMA Positions ==
  ASSUME NEW raw \in Seq(Chars), ~ Target!Refused(raw)
  PROVE  /\ Target!QueryStart(raw) \in 1..(Len(raw) + 1)
         /\ Target!AuthorityEnd(raw) \in 1..Target!QueryStart(raw)
         /\ Target!HostStart(raw) \in 1..Target!AuthorityEnd(raw)
         /\ Target!HasProtocol(raw) =>
              /\ Target!HostStart(raw) \in 4..Len(raw)
              /\ SubSeq(raw, Target!HostStart(raw) - 3, Target!HostStart(raw) - 1) = <<":", "/", "/">>
         /\ ~ Target!HasProtocol(raw) => Target!HostStart(raw) = 1
<1> DEFINE c == Target!FindChar(raw, 1, ":")
           h == Target!HostStart(raw)
           q == Target!QueryStart(raw)
<1>1. c \in 1..(Len(raw) + 1) /\ q \in 1..(Len(raw) + 1) /\ Len(raw) \in Nat
  BY FindsFirst DEF Target!QueryStart
<1>2. /\ Target!HasProtocol(raw) =>
           h = c + 3 /\ c + 3 <= Len(raw) /\ SubSeq(raw, c, c + 2) = <<":", "/", "/">>
      /\ ~ Target!HasProtocol(raw) => h = 1
  <2>1. Len(<<":", "/", "/">>) = 3 /\ c + 3 - 1 = c + 2
    BY <1>1
  <2> QED BY <2>1 DEF Target!HostStart, Target!HasProtocol, Target!Separates, Target!OccursAt
<1>3. h \in Nat \ {0}
  BY <1>1, <1>2
<1>4. Target!PathStart(raw) \in 1..(Len(raw) + 1)
      /\ (Target!HasPath(raw) => h <= Target!PathStart(raw))
  BY <1>3, FindsFirst DEF Target!PathStart, Target!HasPath
<1>5. h <= q /\ (Target!HasPath(raw) => Target!PathStart(raw) <= q)
  BY <1>1, <1>3, <1>4 DEF Target!Refused
<1>6. Target!AuthorityEnd(raw) = IF Target!HasPath(raw) THEN Target!PathStart(raw) ELSE q
  BY DEF Target!AuthorityEnd
<1>7. Target!AuthorityEnd(raw) \in 1..q /\ h \in 1..Target!AuthorityEnd(raw)
  BY <1>1, <1>3, <1>4, <1>5, <1>6
<1>8. ASSUME Target!HasProtocol(raw)
      PROVE  h \in 4..Len(raw) /\ SubSeq(raw, h - 3, h - 1) = <<":", "/", "/">>
  <2>1. h - 3 = c /\ h - 1 = c + 2
    BY <1>1, <1>2, <1>8
  <2> QED BY <1>1, <1>2, <1>8, <2>1
<1> QED BY <1>1, <1>2, <1>7, <1>8

(* The parts that parse() returns are put together to the target.          *)
LEMMA PartsMakeTarget ==
  ASSUME NEW raw \in Seq(Chars), ~ Target!Refused(raw),
         NEW u, u = Target!Parse(raw)
  PROVE  \E separator \in {<<>>, <<":", "/", "/">>}, colon \in {<<>>, <<":">>} :
           raw = u.protocol \o separator \o u.host \o colon \o u.rawPort \o u.path \o u.queryString
<1>1. PICK h : h = Target!HostStart(raw)
  OBVIOUS
<1>2. PICK a : a = Target!AuthorityEnd(raw)
  OBVIOUS
<1>3. PICK q : q = Target!QueryStart(raw)
  OBVIOUS
<1>4. PICK authority : authority = SubSeq(raw, 1, a - 1)
  OBVIOUS
<1>5. PICK e : e = Target!FindChar(authority, h, ":")
  OBVIOUS
<1>6. PICK l : l = Len(raw)
  OBVIOUS
<1>7. /\ l \in Nat /\ q \in 1..(l + 1) /\ a \in 1..q /\ h \in 1..a
      /\ Target!HasProtocol(raw) =>
           h \in 4..l /\ SubSeq(raw, h - 3, h - 1) = <<":", "/", "/">>
      /\ ~ Target!HasProtocol(raw) => h = 1
  BY <1>1, <1>2, <1>3, <1>6, Positions
<1>8. /\ authority \in Seq(Chars) /\ Len(authority) = a - 1
      /\ \A i \in 1..(a - 1) : authority[i] = raw[i]
  BY <1>4, <1>6, <1>7
<1>9. e \in h..a /\ (e < a => raw[e] = ":")
  <2>1. /\ e \in 1..a
        /\ e <= a - 1 => h <= e /\ authority[e] = ":"
    <3>1. Len(authority) + 1 = a
      BY <1>7, <1>8
    <3> QED BY <1>5, <1>7, <1>8, <3>1, FindsFirst
  <2>2. e < a => e <= a - 1 /\ e \in 1..(a - 1)
    BY <1>7, <2>1
  <2> QED BY <1>7, <1>8, <2>1, <2>2
<1>10. /\ u.protocol = IF Target!HasProtocol(raw) THEN SubSeq(raw, 1, h - 4) ELSE <<>>
       /\ u.host = SubSeq(raw, h, e - 1)
       /\ u.rawPort = SubSeq(authority, e + 1, Len(authority))
       /\ u.path = IF Target!HasPath(raw) THEN SubSeq(raw, Target!PathStart(raw), q - 1) ELSE <<>>
       /\ u.queryString = SubSeq(raw, q, l)
  BY <1>1, <1>2, <1>3, <1>4, <1>5, <1>6 DEF Target!Parse
<1>11. PICK separator \in {<<>>, <<":", "/", "/">>} :
         u.protocol \o separator = SubSeq(raw, 1, h - 1)
  <2>1. CASE Target!HasProtocol(raw)
    <3>1. h - 4 \in 0..l /\ h - 1 \in (h - 4)..l /\ h - 4 + 1 = h - 3
      BY <1>7, <2>1
    <3>2. SubSeq(raw, 1, h - 4) \o SubSeq(raw, h - 3, h - 1) = SubSeq(raw, 1, h - 1)
      BY <1>6, <3>1, Adjacent
    <3> QED BY <1>7, <1>10, <2>1, <3>2
  <2>2. CASE ~ Target!HasProtocol(raw)
    <3>1. SubSeq(raw, 1, h - 1) = <<>>
      BY <1>7, <2>2, NoPart
    <3>2. u.protocol = <<>>
      BY <1>10, <2>2
    <3>3. <<>> \o <<>> = <<>>
      OBVIOUS
    <3>4. u.protocol \o <<>> = SubSeq(raw, 1, h - 1)
      BY <3>1, <3>2, <3>3
    <3> QED BY <3>4, Zenon
  <2> QED BY <2>1, <2>2
<1>12. SubSeq(raw, 1, h - 1) \o u.host = SubSeq(raw, 1, e - 1)
  <2>1. h - 1 \in 0..l /\ e - 1 \in (h - 1)..l /\ h - 1 + 1 = h
    BY <1>7, <1>9
  <2> QED BY <1>6, <1>10, <2>1, Adjacent
<1>13. PICK colon \in {<<>>, <<":">>} :
         SubSeq(raw, 1, e - 1) \o colon \o u.rawPort = SubSeq(raw, 1, a - 1)
  <2>1. CASE e < a
    <3>1. e \in 1..l /\ e - 1 \in 0..l /\ e \in (e - 1)..l /\ a - 1 \in e..l /\ e - 1 + 1 = e
          /\ e \in 0..l
      BY <1>7, <1>9, <2>1
    <3>2. SubSeq(raw, 1, e - 1) \o <<":">> = SubSeq(raw, 1, e)
      <4>1. SubSeq(raw, e, e) = <<":">>
        BY <1>6, <1>9, <2>1, <3>1, OneChar
      <4>2. SubSeq(raw, 1, e - 1) \o SubSeq(raw, e - 1 + 1, e) = SubSeq(raw, 1, e)
        BY <1>6, <3>1, Adjacent
      <4> QED BY <3>1, <4>1, <4>2
    <3>3. u.rawPort = SubSeq(raw, e + 1, a - 1)
      <4>1. u.rawPort = SubSeq(authority, e + 1, a - 1)
        BY <1>8, <1>10
      <4>2. e + 1 \in 1..a /\ a - 1 \in Nat /\ a - 1 <= l
        BY <1>7, <3>1
      <4>3. SubSeq(authority, e + 1, a - 1) = SubSeq(raw, e + 1, a - 1)
        <5>1. /\ a - 1 <= Len(raw) /\ Len(authority) = a - 1
              /\ \A i \in 1..(a - 1) : authority[i] = raw[i]
          BY <1>6, <1>8, <4>2
        <5> QED BY <4>2, <5>1
      <4> QED BY <4>1, <4>3
    <3>4. SubSeq(raw, 1, e) \o SubSeq(raw, e + 1, a - 1) = SubSeq(raw, 1, a - 1)
      BY <1>6, <3>1, Adjacent
    <3>5. SubSeq(raw, 1, e - 1) \o <<":">> \o u.rawPort = SubSeq(raw, 1, a - 1)
      BY <3>2, <3>3, <3>4, Zenon
    <3> QED BY <3>5, Zenon
  <2>2. CASE e = a
    <3>1. u.rawPort = <<>>
      <4>1. Len(authority) < e + 1 /\ e + 1 \in Int /\ Len(authority) \in Int
        BY <1>7, <1>8, <2>2
      <4> QED BY <1>8, <1>10, <4>1, NoPart
    <3>2. SubSeq(raw, 1, e - 1) \in Seq(Chars)
      BY <1>6, <1>7, <2>2
    <3>3. SubSeq(raw, 1, e - 1) \o <<>> = SubSeq(raw, 1, e - 1)
      BY <3>2, ConcatEmptySeq
    <3>4. SubSeq(raw, 1, e - 1) \o <<>> \o u.rawPort = SubSeq(raw, 1, a - 1)
      BY <2>2, <3>1, <3>3, Zenon
    <3> QED BY <3>4, Zenon
  <2>3. e < a \/ e = a
    BY <1>7, <1>9
  <2> QED BY <2>1, <2>2, <2>3, Zenon
<1>14. SubSeq(raw, 1, a - 1) \o u.path = SubSeq(raw, 1, q - 1)
  <2>1. u.path = SubSeq(raw, a, q - 1)
    <3>1. a = IF Target!HasPath(raw) THEN Target!PathStart(raw) ELSE q
      BY <1>2, <1>3 DEF Target!AuthorityEnd
    <3>2. q - 1 < q /\ q \in Int /\ q - 1 \in Int
      BY <1>7
    <3>3. SubSeq(raw, q, q - 1) = <<>>
      BY <3>2, NoPart
    <3> QED BY <1>10, <3>1, <3>3
  <2>2. a - 1 \in 0..l /\ q - 1 \in (a - 1)..l /\ a - 1 + 1 = a
    BY <1>7
  <2> QED BY <1>6, <2>1, <2>2, Adjacent
<1>15. SubSeq(raw, 1, q - 1) \o u.queryString = raw
  <2>1. q - 1 \in 0..l /\ l \in (q - 1)..l /\ q - 1 + 1 = q
    BY <1>7
  <2>2. SubSeq(raw, 1, l) = raw
    BY <1>6, SubSeqFull
  <2> QED BY <1>6, <1>10, <2>1, <2>2, Adjacent
<1> QED BY <1>11, <1>12, <1>13, <1>14, <1>15

(* A target that begins with a slash and has no separator is not refused,  *)
(* and is a path and a query.                                              *)
LEMMA SlashIsPath ==
  ASSUME NEW raw \in Seq(Chars), raw # <<>>, raw[1] = "/",
         \A i \in 1..Len(raw) : ~ Target!Separates(raw, i)
  PROVE  /\ ~ Target!Refused(raw)
         /\ Target!Parse(raw).path # <<>>
         /\ Target!Parse(raw).path \o Target!Parse(raw).queryString = raw
<1>1. PICK l : l = Len(raw)
  OBVIOUS
<1>2. l \in Nat /\ 1 <= l
  BY <1>1, EmptySeq
<1>3. ~ Target!HasProtocol(raw)
  <2>1. PICK c : c = Target!FindChar(raw, 1, ":")
    OBVIOUS
  <2>2. c \in 1..(l + 1)
    BY <1>1, <2>1, FindsFirst
  <2>3. ASSUME Target!Separates(raw, c)  PROVE FALSE
    <3>1. c + 3 <= l
      BY <1>1, <2>3 DEF Target!Separates
    <3> QED BY <1>1, <1>2, <2>2, <2>3, <3>1
  <2> QED BY <2>1, <2>3 DEF Target!HasProtocol
<1>4. Target!HostStart(raw) = 1
  BY <1>3 DEF Target!HostStart
<1>5. Target!PathStart(raw) = 1
  <2>1. PICK p : p = Target!FindChar(raw, 1, "/")
    OBVIOUS
  <2>2. p \in 1..(l + 1) /\ p <= 1
    BY <1>1, <1>2, <2>1, FindsFirst
  <2> QED BY <1>2, <1>4, <2>1, <2>2 DEF Target!PathStart
<1>6. PICK q : q = Target!QueryStart(raw)
  OBVIOUS
<1>7. q \in 2..(l + 1)
  <2>1. q = Target!FindChar(raw, 1, "?")
    BY <1>6 DEF Target!QueryStart
  <2>2. q \in 1..(l + 1) /\ (q <= l => raw[q] = "?")
    BY <1>1, <2>1, FindsFirst
  <2>3. q # 1
    BY <1>2, <2>2
  <2> QED BY <1>2, <2>2, <2>3
<1>8. Target!HasPath(raw)
  BY <1>1, <1>2, <1>5 DEF Target!HasPath
<1>9. ~ Target!Refused(raw)
  BY <1>4, <1>5, <1>6, <1>7 DEF Target!Refused
<1>10. /\ Target!Parse(raw).path = SubSeq(raw, 1, q - 1)
       /\ Target!Parse(raw).queryString = SubSeq(raw, q, l)
  BY <1>1, <1>5, <1>6, <1>8 DEF Target!Parse
<1>11. SubSeq(raw, 1, q - 1) # <<>>
  <2>1. PICK t : t = SubSeq(raw, 1, q - 1)
    OBVIOUS
  <2>2. t \in Seq(Chars) /\ Len(t) = q - 1
    BY <1>1, <1>2, <1>7, <2>1
  <2>3. Len(t) # 0
    BY <1>7, <2>2
  <2> QED BY <2>1, <2>2, <2>3, EmptySeq
<1>12. SubSeq(raw, 1, q - 1) \o SubSeq(raw, q, l) = raw
  <2>1. q - 1 \in 0..l /\ l \in (q - 1)..l /\ q - 1 + 1 = q
    BY <1>2, <1>7
  <2>2. SubSeq(raw, 1, l) = raw
    BY <1>1, SubSeqFull
  <2> QED BY <1>1, <2>1, <2>2, Adjacent
<1> QED BY <1>9, <1>10, <1>11, <1>12, Zenon

-----------------------------------------------------------------------------
(* The invariant                                                           *)

(* Request::url is what parse() returns for the target, once it returned.  *)
UrlIsParsed ==
  /\ exchange \in Exchanges
  /\ \/ url = Target!NoUri /\ phase = "delivered"
     \/ url = Target!NoUri /\ phase # "delivered" /\ Target!Refused(exchange.target)
     \/ /\ phase # "delivered"
        /\ ~ Target!Refused(exchange.target)
        /\ url = Target!Parse(exchange.target)

(* No step but the parsing touches the url, and none changes the target.   *)
LEMMA UrlStep == UrlIsParsed /\ [Next]_vars => UrlIsParsed'
<1> SUFFICES ASSUME UrlIsParsed, [Next]_vars  PROVE UrlIsParsed'
  OBVIOUS
<1>1. CASE ParseTarget
  BY <1>1 DEF ParseTarget, UrlIsParsed
<1>2. CASE ~ ParseTarget
  <2>1. UNCHANGED <<exchange, url>>
    BY <1>2 DEF Next, vars, ReadLine, ReadBody, AddField, SetField, DelField, SetStatus, Write,
                Calling, HandlerReturns, ProcessResponse
  <2>2. phase' = "delivered" <=> phase = "delivered"
    BY <1>2 DEF Next, vars, ReadLine, ReadBody, AddField, SetField, DelField, SetStatus, Write,
                Calling, HandlerReturns, ProcessResponse
  <2> QED BY <2>1, <2>2 DEF UrlIsParsed
<1> QED BY <1>1, <1>2

(* The url is that of the target, in every state of an exchange.           *)
THEOREM UrlInvariance == Spec => []UrlIsParsed
<1>1. Init => UrlIsParsed
  BY DEF Init, UrlIsParsed
<1> QED BY <1>1, UrlStep, PTL DEF Spec

(* The handler is routed by the whole path, and it is never empty.         *)
THEOREM PathNeverEmpty == Spec => []PathIsWhole
<1>1. UrlIsParsed => PathIsWhole
  <2> SUFFICES ASSUME UrlIsParsed, phase # "delivered", exchange.target # <<>>,
                      exchange.target[1] = "/",
                      \A i \in 1..Len(exchange.target) : ~ Target!Separates(exchange.target, i)
               PROVE  url.path # <<>> /\ url.path \o url.queryString = exchange.target
    BY Zenon DEF PathIsWhole
  <2>1. exchange.target \in Seq(Chars)
    BY ExchangeAssumption DEF UrlIsParsed, Exchange
  <2>2. ~ Target!Refused(exchange.target)
    BY <2>1, SlashIsPath
  <2>3. url = Target!Parse(exchange.target)
    BY <2>2 DEF UrlIsParsed
  <2> QED BY <2>1, <2>3, SlashIsPath
<1> QED BY <1>1, UrlInvariance, PTL

(* Nothing of a target is lost or doubled, whatever the target.            *)
THEOREM TargetIsSpelled == Spec => []PartsSpellTarget
<1>1. UrlIsParsed => PartsSpellTarget
  <2> SUFFICES ASSUME UrlIsParsed, url # Target!NoUri
               PROVE  PartsSpellTarget
    BY DEF PartsSpellTarget
  <2>1. exchange.target \in Seq(Chars)
    BY ExchangeAssumption DEF UrlIsParsed, Exchange
  <2>2. ~ Target!Refused(exchange.target) /\ url = Target!Parse(exchange.target)
    BY DEF UrlIsParsed
  <2> QED BY <2>1, <2>2, PartsMakeTarget DEF PartsSpellTarget
<1> QED BY <1>1, UrlInvariance, PTL
=============================================================================
