----------------------------- MODULE StatusCode -----------------------------
(***************************************************************************)
(* The tables of StatusCode.cpp.  A text is stood for by its code.         *)
(***************************************************************************)
EXTENDS Integers

(* enum Value: what a handler can write as a StatusCode.                   *)
StatusCodes ==
  (100..103) \cup (200..208) \cup {226, 307, 308} \cup (300..305) \cup (400..418)
    \cup (421..426) \cup {428, 429, 431, 451} \cup (500..508) \cup {510, 511}

(* A variant for mutation: the row of 511 is missing.                      *)
KnownToRow510 ==
  ((100..511) \ ((104..199) \cup (209..225) \cup (227..299) \cup (309..399) \cup (432..450)
    \cup (452..499))) \ {306, 419, 420, 427, 430, 509, 511}

(* isStatusCodeTable: the rows marked true.                                *)
KnownCodes ==
  ((100..511) \ ((104..199) \cup (209..225) \cup (227..299) \cup (309..399) \cup (432..450)
    \cup (452..499))) \ {306, 419, 420, 427, 430, 509}

(* statusCodeStrTable: the rows whose text is not empty.                   *)
CodesWithText ==
  {100, 101, 102, 103, 226, 307, 308} \cup {c \in 200..305 : c < 209 \/ c > 299}
    \cup ((400..431) \ {419, 420, 427, 430}) \cup {451} \cup ((500..511) \ {509})

TableSize == 512

(* try_parse; a negative code is beyond the table once it is unsigned.     *)
TryParse(raw) == raw >= 0 /\ raw < TableSize /\ raw \in KnownCodes

(* str(): whether there is a text to return; it throws if not.             *)
HasText(value) == value >= 0 /\ value < TableSize /\ value \in CodesWithText
=============================================================================
