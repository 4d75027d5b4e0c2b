---------------------------- MODULE MCRouteTree -----------------------------
(***************************************************************************)
(* Instances of RouteTree for TLC: a few tokens that make every kind of    *)
(* node, split and tail, and the paths over four characters.               *)
(***************************************************************************)
EXTENDS RouteTree, TLC

CONSTANTS GET, POST

MCMethods == {GET, POST}
MCMethodSymmetry == Permutations(MCMethods)

(* In the order of their character codes.                                  *)
MCAlphabet == <<"*", "-", "/", "1", "a", "b", "{">>

MCParams == {"{id}", "{x}", "{y}"}
MCRegexps == {"{id:d}", "{n:d}", "{w:any}", "{w:[}"}
MCUnclosed == {"{id"}

MCKeyOf == [t \in MCParams \cup MCRegexps |->
              CASE t \in {"{id}", "{id:d}"} -> "id"
                [] t = "{x}" -> "x"
                [] t = "{y}" -> "y"
                [] t = "{n:d}" -> "n"
                [] OTHER -> "w"]

MCRexOf == [t \in MCRegexps |->
              CASE t \in {"{id:d}", "{n:d}"} -> "digits"
                [] t = "{w:any}" -> "any"
                [] OTHER -> "["]

MCBadRexes == {"["}

(* No expression here has a brace of its own.                              *)
MCBehind == [t \in MCParams \cup MCRegexps |-> <<>>]

(* ^[0-9]+$ and ^.+$                                                       *)
MCAccepts(rex, s) ==
  s # <<>> /\ (rex = "digits" => ToSet(s) \subseteq {"1"})

MCNothing == {}

(* Registration: splits of static prefixes, parameters that differ in name *)
(* only or in tail, and every way in which a pattern is refused.           *)
MCTablePatterns ==
  { <<"/", "a">>, <<"/", "a", "1">>, <<"/", "a", "b">>, <<"/", "b", "/", "a">>,
    <<"/", "{id}">>, <<"/", "{x}">>, <<"/", "{x}", "/", "a">>, <<"/", "{x}", "-", "{y}">>,
    <<"/", "{id:d}">>, <<"/", "{n:d}", "-", "1">>, <<"/", "a", "/", "*">>,
    <<"/", "a", "1", "/", "{id}", "/", "{id}">>, <<"/", "b", "{id">>, <<"/", "*", "a">>,
    <<"/", "a", "-", "{w:[}">>, <<"a">> }

MCTableMounts == { <<"/", "a">>, <<"/", "a", "/">>, <<"/">>, <<>>, <<"/", "b", "/", "a">> }

(* Lookup.                                                                 *)
MCLookupPatterns ==
  { <<"/", "a">>, <<"/", "a", "/", "1">>, <<"/", "a", "b">>,
    <<"/", "{id}">>, <<"/", "{x}", "/", "a">>, <<"/", "{x}", "-", "{y}">>, <<"/", "{x}", "1">>,
    <<"/", "{x}", "{y}">>, <<"/", "{id:d}">>, <<"/", "{n:d}", "-", "1">>, <<"/", "{w:any}", "-", "a">>,
    <<"/", "a", "*">>, <<"/", "*">> }

(* One wildcard comes from a mount.                                        *)
MCLookupMounts == { <<"/", "a", "/">> }

MCLookupPaths ==
  { <<"/">> \o p : p \in BoundedSeq({"/", "1", "a"}, 2) }
    \cup { <<"/", "-">>, <<"/", "a", "/", "1">>, <<"/", "1", "-", "1">>, <<"/", "1", "-", "a">>, <<"/", "a", "-", "a">>,
           <<"/", "a", "b", "b">>, <<"/", "1", "/", "a">>, <<"/", "a", "/", "a">>,
           <<"/", "-", "1", "-", "1">>, <<"/", "b", "/", "1", "-", "a">>, <<"/", "-", "1", "1">> }

(* Parameters and expressions only, for the reading of empty values.       *)
MCEmptyPatterns == { <<"/", "{id:d}", "/", "a">>, <<"/", "{id:d}">>, <<"/", "{x}", "-", "1">> }
=============================================================================
