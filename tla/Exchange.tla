------------------------------ MODULE Exchange ------------------------------
(***************************************************************************)
(* One request and its response as data: what evHttpHandleRequest makes of *)
(* libevent's request (main.cpp:62-118), what a handler may do to the      *)
(* response (http.h:211-233), and what process_response gives back to      *)
(* libevent (evHttpResponse.hpp:19-66).  The threads between the two are   *)
(* in Server, the way to the handler is in Routing.                        *)
(***************************************************************************)
EXTENDS Integers, Sequences, FiniteSets, SequencesExt, Header, StatusCode

CONSTANTS
  DigitOf, LongMax,   (* as in Uri                                         *)
  Names,              (* the spellings of field names                      *)
  Values,             (* the values of fields                              *)
  Exchanges           (* what clients send, and what handlers do           *)

(* A call of Header's methods on the response, a new status, or write().   *)
Call == [op : {"add", "set"}, name : Names, value : Values]
          \cup [op : {"del"}, name : Names]
          \cup [op : {"status"}, code : Int]
          \cup [op : {"write"}]

Exchange ==
  [target : Seq(Chars), lines : Seq([name : Names, value : Values]),
   payload : Seq({"byte", "nul"}), script : Seq(Call)]

(* What process_response puts between two values of a key.                 *)
Separator == "; "

ASSUME ExchangeAssumption ==
  /\ Names \subseteq Seq(Chars)
  /\ Separator \notin Values
  /\ Exchanges \subseteq Exchange

VARIABLES
  exchange,        (* the member of Exchanges that this is about           *)
  phase,           (* how far it is                                        *)
  step,            (* the header lines, and then the calls, that are done  *)
  url,             (* Request::url                                         *)
  asked,           (* Request::header                                      *)
  body,            (* Request::body                                        *)
  reply,           (* Response::header                                     *)
  status,          (* Response::status                                     *)
  written,         (* evHttpResponse::responseReadyToSend                  *)
  wire             (* what libevent was given to send, or Unsent           *)

vars == <<exchange, phase, step, url, asked, body, reply, status, written, wire>>

Target == INSTANCE Uri

(* status stays 0: no response has this status.                            *)
Unsent == [lines |-> EmptyHeader, status |-> 0, reason |-> 0]

Init ==
  /\ exchange \in Exchanges
  /\ phase = "delivered"
  /\ step = 0
  /\ url = Target!NoUri
  /\ asked = EmptyHeader
  /\ body = <<>>
  /\ reply = EmptyHeader
  /\ status = 200
  /\ written = FALSE
  /\ wire = Unsent

-----------------------------------------------------------------------------
(* The request                                                             *)

(* What is thrown in the task ends the program: see Server.                *)
ParseTarget ==
  /\ phase = "delivered"
  /\ \/ /\ Target!Refused(exchange.target)
        /\ phase' = "thrown"
        /\ UNCHANGED url
     \/ /\ ~ Target!Refused(exchange.target)
        /\ phase' = "reading"
        /\ url' = Target!Parse(exchange.target)
  /\ UNCHANGED <<exchange, step, asked, body, reply, status, written, wire>>

ReadLine ==
  /\ phase = "reading"
  /\ step < Len(exchange.lines)
  /\ step' = step + 1
  /\ asked' = Added(asked, exchange.lines[step + 1].name, exchange.lines[step + 1].value)
  /\ UNCHANGED <<exchange, phase, url, body, reply, status, written, wire>>

(* The body is cut before its first NUL.  If there is none the new size is *)
(* npos, which resize() refuses.                                           *)
ReadBody ==
  LET nul == SelectInSeq(exchange.payload, LAMBDA c : c = "nul")
  IN  /\ phase = "reading"
      /\ step = Len(exchange.lines)
      /\ \/ /\ exchange.payload # <<>> /\ nul = 0
            /\ phase' = "thrown"
            /\ UNCHANGED <<step, body>>
         \/ /\ exchange.payload = <<>> \/ nul # 0
            /\ phase' = "handling"
            /\ step' = 0
            /\ body' = SubSeq(exchange.payload, 1, nul - 1)
      /\ UNCHANGED <<exchange, url, asked, reply, status, written, wire>>

-----------------------------------------------------------------------------
(* The response                                                            *)

NextCall == exchange.script[step + 1]

Calling(op) ==
  /\ phase = "handling"
  /\ step < Len(exchange.script)
  /\ NextCall.op = op
  /\ step' = step + 1
  /\ UNCHANGED <<exchange, phase, url, asked, body, wire>>

AddField ==
  /\ Calling("add")
  /\ reply' = Added(reply, NextCall.name, NextCall.value)
  /\ UNCHANGED <<status, written>>

SetField ==
  /\ Calling("set")
  /\ reply' = Replaced(reply, NextCall.name, NextCall.value)
  /\ UNCHANGED <<status, written>>

DelField ==
  /\ Calling("del")
  /\ reply' = Deleted(reply, NextCall.name)
  /\ UNCHANGED <<status, written>>

SetStatus ==
  /\ Calling("status")
  /\ status' = NextCall.code
  /\ UNCHANGED <<reply, written>>

Write ==
  /\ Calling("write")
  /\ written' = TRUE
  /\ UNCHANGED <<reply, status>>

(* The task ends, and the sweep takes the response from its future.        *)
HandlerReturns ==
  /\ phase = "handling"
  /\ step = Len(exchange.script)
  /\ phase' = "sweeping"
  /\ UNCHANGED <<exchange, step, url, asked, body, reply, status, written, wire>>

(* A variant for mutation: std::accumulate begins at the first value again. *)
JoinedFromFirst(values) == <<values[1], Separator>> \o
  [i \in 1..2 * Len(values) - 1 |-> IF i % 2 = 1 THEN values[(i + 1) \div 2] ELSE Separator]

(* The string that std::accumulate makes of the values of a key, as the    *)
(* sequence of its pieces: the first value, and a separator and the next   *)
(* one for each that is left.                                              *)
Joined(values) ==
  [i \in 1..2 * Len(values) - 1 |-> IF i % 2 = 1 THEN values[(i + 1) \div 2] ELSE Separator]

(* The lines given to evhttp_add_header.  Keys without values are skipped. *)
SentLines(header) == [key \in {k \in DOMAIN header : header[k] # <<>>} |-> Joined(header[key])]

(* The code whose text becomes the reason: 200 for each status that is in  *)
(* the table.  For any other the variable is not initialized; one number   *)
(* outside of the table on either side stands for all there are.           *)
ReasonCodes(code) == IF TryParse(code) THEN {200} ELSE -1..TableSize

(* process_response; what it throws is thrown in main().                   *)
ProcessResponse ==
  /\ phase = "sweeping"
  /\ \/ /\ ~ written
        /\ phase' = "unsent"
        /\ UNCHANGED wire
     \/ /\ written
        /\ \E reason \in ReasonCodes(status) :
             /\ HasText(reason)
             /\ wire' = [lines |-> SentLines(reply), status |-> status, reason |-> reason]
        /\ phase' = "sent"
     \/ /\ written
        /\ \E reason \in ReasonCodes(status) : ~ HasText(reason)
        /\ phase' = "thrown"
        /\ UNCHANGED wire
  /\ UNCHANGED <<exchange, step, url, asked, body, reply, status, written>>

Next ==
  \/ ParseTarget \/ ReadLine \/ ReadBody
  \/ AddField \/ SetField \/ DelField \/ SetStatus \/ Write \/ HandlerReturns
  \/ ProcessResponse

Spec == Init /\ [][Next]_vars

-----------------------------------------------------------------------------
(* Properties                                                              *)

HeaderOK(header) ==
  \A key \in DOMAIN header :
    /\ key \in Seq(Chars)
    /\ key = CanonicalKey(key)
    /\ header[key] \in Seq(Values) \ {<<>>}

LinesOK(lines) ==
  \A key \in DOMAIN lines :
    /\ key \in Seq(Chars)
    /\ key = CanonicalKey(key)
    /\ lines[key] \in Seq(Values \cup {Separator}) \ {<<>>}

(* Types; a header has canonical keys only, and none without a value: the  *)
(* test for "headers with no content" (evHttpResponse.hpp:40) is never met. *)
TypeOK ==
  /\ phase \in {"delivered", "reading", "handling", "sweeping", "sent", "unsent", "thrown"}
  /\ step \in 0..(IF phase \in {"delivered", "reading"} THEN Len(exchange.lines)
                  ELSE IF phase = "thrown" /\ ~ written THEN Len(exchange.lines)
                  ELSE Len(exchange.script))
  /\ HeaderOK(asked) /\ HeaderOK(reply) /\ LinesOK(wire.lines)
  /\ written \in BOOLEAN
  /\ phase = "sent" <=> wire # Unsent

(* Two names of fields that HTTP does not tell apart; the case of what is  *)
(* no token is left alone.                                                 *)
SameName(m, n) ==
  \/ m = n
  \/ /\ IsToken(m) /\ IsToken(n)
     /\ Len(m) = Len(n)
     /\ \A i \in 1..Len(m) : Low[m[i]] = Low[n[i]]

Asked == INSTANCE HeaderFields WITH fields <- [n \in Names |-> GetAllValues(asked, n)]
Reply == INSTANCE HeaderFields WITH fields <- [n \in Names |-> GetAllValues(reply, n)]

(* Header does what http.h:118-160 says of it, whatever the spellings:     *)
(* both headers, seen through get_all_values, are tables of fields whose   *)
(* names have no case.                                                     *)
ImplementsFields == Asked!Spec /\ Reply!Spec

(* The values of the lines, or calls, at these places, in their order.     *)
ValuesAt(seq, places) ==
  FlattenSeq([i \in 1..Len(seq) |-> IF i \in places THEN <<seq[i].value>> ELSE <<>>])

(* The handler sees all the lines that were sent, the values of a name in  *)
(* the order of its lines however each was spelled (http.h:174-192).       *)
RequestFieldsExact ==
  phase = "handling" =>
    \A n \in Names :
      GetAllValues(asked, n)
        = ValuesAt(exchange.lines, {i \in DOMAIN exchange.lines : SameName(exchange.lines[i].name, n)})

(* The calls of a script that are about a name.                            *)
CallsFor(script, n) ==
  {i \in DOMAIN script : script[i].op \in {"add", "set", "del"} /\ SameName(script[i].name, n)}

(* What the calls of a script mean for a name: its values since it was     *)
(* last set or deleted.                                                    *)
Meant(script, n) ==
  LET calls == CallsFor(script, n)
      anew == {i \in calls : script[i].op # "add"}
  IN  ValuesAt(script, {i \in calls : script[i].op # "del" /\ \A j \in anew : j <= i})

MeantStatus(script) ==
  LET i == SelectLastInSeq(script, LAMBDA c : c.op = "status")
  IN  IF i = 0 THEN 200 ELSE script[i].code

(* The string of a line reads as these values: each of them whole, in this *)
(* order, with something that is no value between one and the next.        *)
ReadsAs(line, values) ==
  /\ Len(line) = 2 * Len(values) - 1
  /\ \A i \in 1..Len(values) : line[2 * i - 1] = values[i]
  /\ \A i \in 1..Len(values) - 1 : line[2 * i] \notin Values

(* A response that is sent is the one the handler made: the line of a name *)
(* reads as the values since it was last set or deleted, none lost, run    *)
(* together with the next or out of order, and the status is the one set   *)
(* last.  Which separator is between two values is no part of it: the code *)
(* takes a semicolon (evHttpResponse.hpp:49), http.h:218-221 speaks of a   *)
(* comma.                                                                  *)
WireExact ==
  phase = "sent" =>
    /\ \A n \in Names :
         LET lines == {k \in DOMAIN wire.lines : SameName(k, n)}
         IN  IF lines = {} THEN Meant(exchange.script, n) = <<>>
             ELSE \A k \in lines : ReadsAs(wire.lines[k], Meant(exchange.script, n))
    /\ wire.status = MeantStatus(exchange.script)

(* A field goes out in one line, in whichever spellings a handler added to *)
(* it: no two keys of the map are one name.                                *)
OneLinePerName ==
  \A k, l \in DOMAIN wire.lines : SameName(k, l) => k = l

(* A target that begins with a slash, and in which nothing looks like a    *)
(* protocol, is a path and a query and nothing else.  The path is not      *)
(* empty, so trim_trailing_slash (middlewares.hpp:73) does not read beyond *)
(* it.                                                                     *)
PathIsWhole ==
  LET target == exchange.target
  IN  phase # "delivered" /\ target # <<>> /\ target[1] = "/"
        /\ (\A i \in 1..Len(target) : ~ Target!Separates(target, i))
      => url.path # <<>> /\ url.path \o url.queryString = target

(* Whenever a target is parsed, each part of it is in one place, and put   *)
(* together they are the target.                                           *)
PartsSpellTarget ==
  url # Target!NoUri =>
    \E separator \in {<<>>, <<":", "/", "/">>}, colon \in {<<>>, <<":">>} :
      exchange.target = url.protocol \o separator \o url.host \o colon \o url.rawPort
                          \o url.path \o url.queryString

(* A response that was written, with a status that StatusCode.h names, is  *)
(* sent: str() never throws for it.                                        *)
ReplyGoesOut ==
  phase = "thrown" /\ written => status \notin StatusCodes
=============================================================================
