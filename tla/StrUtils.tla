------------------------------ MODULE StrUtils ------------------------------
(***************************************************************************)
(* The string helpers of StrUtils.h and of the standard library that the   *)
(* program's logic relies on.  A string is a sequence of characters.       *)
(***************************************************************************)
EXTENDS Integers, Sequences, SequencesExt

(* from stands in s at position i.                                         *)
OccursAt(s, from, i) ==
  i + Len(from) - 1 <= Len(s) /\ SubSeq(s, i, i + Len(from) - 1) = from

(* fromCounter: where from is found, from the left, each search going on   *)
(* behind the occurrence before.                                           *)
Occurrences(s, from) ==
  FoldLeft(LAMBDA found, i :
             IF OccursAt(s, from, i) /\ (found = <<>> \/ Last(found) + Len(from) <= i)
             THEN Append(found, i) ELSE found,
           <<>>, [i \in 1..Len(s) |-> i])

(* replace_copy: the first n occurrences, or all of them when n < 0.       *)
ReplaceCopy(s, from, to, n) ==
  LET all == IF from = <<>> THEN <<>> ELSE Occurrences(s, from)
      at == IF n < 0 \/ Len(all) < n THEN all ELSE SubSeq(all, 1, n)
      behind(k) == IF k = 0 THEN 1 ELSE at[k] + Len(from)
  IN  FlattenSeq([k \in 1..Len(at) |-> SubSeq(s, behind(k - 1), at[k] - 1) \o to])
        \o SubSeq(s, behind(Len(at)), Len(s))

(* std::find from position i on; the position beyond the end if there is   *)
(* no such character.                                                      *)
FindChar(s, i, c) ==
  LET at == SelectInSubSeq(s, i, Len(s), LAMBDA d : d = c)
  IN  IF at = 0 THEN Len(s) + 1 ELSE at

(* The number that digits spell, the one of the highest place first.       *)
NumberOf(digits, DigitOf) ==
  LET number[i \in 0..Len(digits)] ==
        IF i = 0 THEN 0 ELSE 10 * number[i - 1] + DigitOf[digits[i]]
  IN  number[Len(digits)]

(* A variant for mutation: a number that is too large is no error.         *)
FromCharsUnchecked(s, DigitOf, max) ==
  LET other == SelectInSeq(s, LAMBDA c : c \notin DOMAIN DigitOf)
      digits == IF other = 0 THEN s ELSE SubSeq(s, 1, other - 1)
  IN  [ok |-> digits # <<>>, number |-> NumberOf(digits, DigitOf) % (max + 1)]

(* std::from_chars: the number that the digits at the front spell, an      *)
(* error if there are none or if the number is beyond max; the minus sign  *)
(* that it also takes is left out.  DigitOf maps the digits to their values. *)
FromChars(s, DigitOf, max) ==
  LET other == SelectInSeq(s, LAMBDA c : c \notin DOMAIN DigitOf)
      digits == IF other = 0 THEN s ELSE SubSeq(s, 1, other - 1)
      number == NumberOf(digits, DigitOf)
  IN  IF digits = <<>> \/ number > max
      THEN [ok |-> FALSE, number |-> 0]
      ELSE [ok |-> TRUE, number |-> number]

(* iequals: equal but for the case of the letters; Low is tolower.         *)
IEquals(s, t, Low) ==
  Len(s) = Len(t) /\ \A i \in 1..Len(s) : Low[s[i]] = Low[t[i]]
=============================================================================
