----------------------------- MODULE MCExchange -----------------------------
(***************************************************************************)
(* Instances of Exchange for TLC.  What is varied is one thing at a time:  *)
(* the target, the lines of the request, its body, or the handler.         *)
(***************************************************************************)
EXTENDS Exchange

TargetChars == {"/", ":", "?", "a", "1"}
MCChars == TargetChars \cup {"A", "b", "B", "-", " ", "h", "t", "p", "s"}
MCTokenChars == {"a", "A", "b", "B", "-", "1", "h", "t", "p", "s"}

(* h, t, p and s are letters without an upper case here.                   *)
MCUp == [c \in MCChars |-> CASE c = "a" -> "A" [] c = "b" -> "B" [] OTHER -> c]
MCLow == [c \in MCChars |-> CASE c = "A" -> "a" [] c = "B" -> "b" [] OTHER -> c]
MCDigitOf == [c \in {"1"} |-> 1]

(* Two names in two spellings each, and two that are no tokens.            *)
MCNames ==
  { <<"a", "-", "b">>, <<"A", "-", "B">>, <<"a", "b">>, <<"A", "B">>, <<"a", " ">>, <<"A", " ">> }

MCValues == {"v", "w"}

UpTo(n, S) == UNION {[1..k -> S] : k \in 0..n}

Plain == [target |-> <<"/">>, lines |-> <<>>, payload |-> <<>>, script |-> << [op |-> "write"] >>]

Protocols == {<<"h", "t", "t", "p">>, <<"h", "t", "t", "p", "s">>}

MCTargets ==
  UpTo(5, TargetChars)
    \cup {p \o <<":", "/", "/", "a">> \o rest : p \in Protocols, rest \in UpTo(3, TargetChars)}

Fields == [name : MCNames, value : MCValues]

FieldCalls(names) ==
  [op : {"add", "set"}, name : names, value : MCValues] \cup [op : {"del"}, name : names]

Undashed == {n \in MCNames : n[2] # "-"}

(* Every status with a name, and what is next to them.                     *)
Statuses == StatusCodes \cup {-1, 0, 99, 104, 209, 306, 419, 420, 427, 430, 509, 512, 600}

Scripts ==
  { Append(s, [op |-> "write"]) : s \in UpTo(2, FieldCalls(MCNames)) \cup UpTo(3, FieldCalls(Undashed)) }
    \cup { <<[op |-> "status", code |-> c], [op |-> "write"]>> : c \in Statuses }
    \cup { <<[op |-> "status", code |-> 404], [op |-> "write"], [op |-> "status", code |-> c]>> : c \in {200, 600} }
    \cup { <<[op |-> "set", name |-> <<"A", "B">>, value |-> "v"]>> }

MCExchanges ==
  { [Plain EXCEPT !.target = t] : t \in MCTargets }
    \cup { [Plain EXCEPT !.lines = ls] : ls \in UpTo(3, Fields) }
    \cup { [Plain EXCEPT !.payload = p] : p \in UpTo(3, {"byte", "nul"}) }
    \cup { [Plain EXCEPT !.script = s] : s \in Scripts }
=============================================================================
