--------------------------- MODULE RoutePatterns ----------------------------
(***************************************************************************)
(* Patterns of routes, as pat_next_segment and pat_param_keys read them    *)
(* (router.tree.cpp) and as mount makes them (router.mux.cpp).             *)
(*                                                                         *)
(* A pattern is a sequence of tokens: a character, a parameter "{key}", a  *)
(* parameter with a regular expression "{key:rex}", the wildcard "*", or   *)
(* an opening brace that nothing closes.  A path is a sequence of          *)
(* characters.                                                             *)
(***************************************************************************)
EXTENDS Naturals, Sequences, FiniteSets, SequencesExt

CONSTANTS
  Params,          (* the tokens {key}                                     *)
  Regexps,         (* the tokens {key:rex}                                 *)
  Unclosed,        (* the tokens that open a brace and never close it      *)
  KeyOf,           (* KeyOf[t]: the key of a token of Params or Regexps    *)
  RexOf,           (* RexOf[t]: the expression of a token of Regexps       *)
  BadRexes         (* the expressions std::regex does not compile          *)

(* The tokens with a brace are no characters and no wildcard.              *)
ASSUME TokenAssumption == {"/", "*"} \cap (Params \cup Regexps \cup Unclosed) = {}

-----------------------------------------------------------------------------
(* Tokens                                                                  *)

NodeTypes == {"Static", "Regexp", "Param", "CatchAll"}

TypeOf(t) ==
  CASE t \in Regexps -> "Regexp"
    [] t \in Params \cup Unclosed -> "Param"
    [] t = "*" -> "CatchAll"
    [] OTHER -> "Static"

Wild(t) == TypeOf(t) # "Static"

(* The character a token begins with: the label of its node.               *)
CharOf(t) == IF Wild(t) /\ t # "*" THEN "{" ELSE t

RexIn(t) == IF t \in Regexps THEN RexOf[t] ELSE "none"

(* pat_next_segment throws on no segment of the search, and std::regex     *)
(* compiles every expression in it.                                        *)
Parses(search) ==
  \A i \in 1..Len(search) :
    /\ search[i] \notin Unclosed
    /\ search[i] = "*" => i = Len(search)
    /\ RexIn(search[i]) \notin BadRexes

(* pat_param_keys: the keys of the parameters, and "*" for the wildcard.   *)
KeyAt(t) == IF t = "*" THEN "*" ELSE KeyOf[t]

ParamKeys(pattern) ==
  FlattenSeq([i \in 1..Len(pattern) |->
                IF Wild(pattern[i]) THEN <<KeyAt(pattern[i])>> ELSE <<>>])

(* pat_param_keys does not throw: no key comes twice.                      *)
DistinctKeys(pattern) == IsInjective(ParamKeys(pattern))

(* A token without the name of its parameter.                              *)
Part(t) ==
  CASE t \in Regexps -> RexOf[t]
    [] t \in Params -> "{}"
    [] OTHER -> t

(* The same pattern without the names of its parameters.                   *)
Shape(pattern) == [i \in 1..Len(pattern) |-> Part(pattern[i])]

None == <<>>   \* the empty pattern, which cannot be registered

-----------------------------------------------------------------------------
(* What is registered                                                      *)

(* handle_impl refuses a pattern that does not begin with '/'.             *)
BeginsWithSlash(p) == p # <<>> /\ p[1] = "/"

(* A pattern that handle_impl and insert_route take.                       *)
Acceptable(p) == BeginsWithSlash(p) /\ Parses(p) /\ DistinctKeys(p)

(* mount registers the pattern, the pattern and a slash, and the wildcard  *)
(* below it, one after the other and for every method.                     *)
MountedPatterns(p) ==
  IF p # <<>> /\ Last(p) = "/"
  THEN <<p \o <<"*">>>>
  ELSE <<p, p \o <<"/">>, p \o <<"/", "*">>>>

-----------------------------------------------------------------------------
(* Values                                                                  *)

(* How many of the first i tokens take a value.                            *)
WildCount(pattern, i) == Cardinality({j \in 1..i : Wild(pattern[j])})

(* The pattern with the values in place of its parameters.                 *)
Fill(pattern, vals) ==
  FlattenSeq([i \in 1..Len(pattern) |->
                IF Wild(pattern[i]) THEN vals[WildCount(pattern, i)] ELSE <<pattern[i]>>])
=============================================================================
