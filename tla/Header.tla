------------------------------- MODULE Header -------------------------------
(***************************************************************************)
(* The class Header of http.h: a map from canonical keys to lists of       *)
(* values.  A key is a sequence of characters, a value is not looked into. *)
(***************************************************************************)
EXTENDS Integers, Sequences

CONSTANTS
  Chars,           (* the characters of this instance                      *)
  TokenChars,      (* those that a field name may have: isTokenTable       *)
  Dash,            (* "-"                                                  *)
  Up, Low          (* toupper and tolower                                  *)

ASSUME CharAssumption ==
  /\ TokenChars \subseteq Chars
  /\ Dash \in TokenChars
  /\ Up \in [Chars -> Chars]
  /\ Low \in [Chars -> Chars]
  /\ \A c \in Chars :
       /\ Low[Up[c]] = Low[c]
       /\ Low[Low[c]] = Low[c]
       /\ Up[Up[c]] = Up[c]
       /\ Up[Low[c]] = Up[c]
       /\ Up[c] = Dash <=> c = Dash
       /\ Low[c] = Dash <=> c = Dash
       /\ Up[c] \in TokenChars <=> c \in TokenChars
       /\ Low[c] \in TokenChars <=> c \in TokenChars

(* valid_header_field_char for every character of a key.                   *)
IsToken(key) == \A i \in 1..Len(key) : key[i] \in TokenChars

(* A letter here is written in upper case.                                 *)
StartsWord(key, i) == i = 1 \/ key[i - 1] = Dash

(* A variant for mutation: the rest of a word is left as it is.            *)
CapitalKey(key) ==
  IF IsToken(key)
  THEN [i \in 1..Len(key) |-> IF StartsWord(key, i) THEN Up[key[i]] ELSE key[i]]
  ELSE key

(* gen_canonical_key *)
CanonicalKey(key) ==
  IF IsToken(key)
  THEN [i \in 1..Len(key) |-> IF StartsWord(key, i) THEN Up[key[i]] ELSE Low[key[i]]]
  ELSE key

-----------------------------------------------------------------------------
(* A header is a function from some canonical keys to their values.        *)

EmptyHeader == [key \in {} |-> <<>>]

GetAllValues(header, key) ==
  IF CanonicalKey(key) \in DOMAIN header THEN header[CanonicalKey(key)] ELSE <<>>

(* A variant for mutation: the new value goes in front.                    *)
AddedInFront(header, key, value) ==
  [k \in DOMAIN header \cup {CanonicalKey(key)} |->
     IF k = CanonicalKey(key) THEN <<value>> \o GetAllValues(header, key) ELSE header[k]]

(* add() *)
Added(header, key, value) ==
  [k \in DOMAIN header \cup {CanonicalKey(key)} |->
     IF k = CanonicalKey(key) THEN Append(GetAllValues(header, key), value) ELSE header[k]]

(* set() *)
Replaced(header, key, value) ==
  [k \in DOMAIN header \cup {CanonicalKey(key)} |->
     IF k = CanonicalKey(key) THEN <<value>> ELSE header[k]]

(* A variant for mutation: del() empties the list and keeps the key.       *)
Emptied(header, key) ==
  [k \in DOMAIN header |-> IF k = CanonicalKey(key) THEN <<>> ELSE header[k]]

(* del() *)
Deleted(header, key) == [k \in DOMAIN header \ {CanonicalKey(key)} |-> header[k]]
=============================================================================
