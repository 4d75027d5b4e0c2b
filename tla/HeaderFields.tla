---------------------------- MODULE HeaderFields ----------------------------
(***************************************************************************)
(* What http.h:118-160 promises of a Header: for every name its values, in *)
(* the order in which they were added, and names that differ in case only  *)
(* are one name.  There are no canonical keys here.                        *)
(***************************************************************************)
EXTENDS Sequences

CONSTANTS
  Names,             (* the names as they are spelled                      *)
  Values,            (* what a field may be given                          *)
  SameName(_, _)     (* whether two spellings are one name                 *)

VARIABLE fields      (* fields[n]: the values of the name n                *)

Init == fields = [n \in Names |-> <<>>]

(* All the spellings of a name get new values, the other names keep theirs. *)
Update(n, values) ==
  fields' = [m \in Names |-> IF SameName(m, n) THEN values ELSE fields[m]]

Add(n, v) == Update(n, Append(fields[n], v))

Set(n, v) == Update(n, <<v>>)

Del(n) == Update(n, <<>>)

Next ==
  \E n \in Names :
    \/ \E v \in Values : Add(n, v) \/ Set(n, v)
    \/ Del(n)

Spec == Init /\ [][Next]_fields
=============================================================================
