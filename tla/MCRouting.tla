----------------------------- MODULE MCRouting ------------------------------
(***************************************************************************)
(* Instances of Routing for TLC: a root and two sub-routers, each with one *)
(* or two registrations out of a few, in any order.                        *)
(***************************************************************************)
EXTENDS RouteMatch

CONSTANTS GET, POST, outer, inner, innermost, none

MCMuxes == {outer, inner, innermost}
MCMethods == {GET, POST}

(* In the order of their character codes.                                  *)
MCAlphabet == <<"*", "/", "0", "1", "2", "a", "b", "{">>

MCParams == {"{id}", "{x}"}
MCRegexps == {"{id:d}"}
MCNothing == {}
MCKeyOf == [t \in MCParams \cup MCRegexps |-> IF t = "{x}" THEN "x" ELSE "id"]
MCRexOf == [t \in MCRegexps |-> "digits"]
MCDigitOf == [c \in {"0", "1", "2"} |-> IF c = "0" THEN 0 ELSE IF c = "1" THEN 1 ELSE 2]

(* ^[0-9]+$ *)
MCAccepts(rex, s) == s # <<>> /\ ToSet(s) \subseteq {"0", "1", "2"}

MCChars == Range(MCAlphabet)

Route(method, p, extract) ==
  [method |-> method, pattern |-> p, sub |-> none, extract |-> extract]

Mounted(p, m) == [method |-> "ALL", pattern |-> p, sub |-> m, extract |-> FALSE]

RootMenu ==
  { Mounted(<<"/", "a">>, inner), Mounted(<<"/", "{x}">>, inner), Mounted(<<"/", "{x}", "/", "{id}">>, inner),
    Mounted(<<"/">>, inner), Route(GET, <<"/", "a", "/", "*">>, FALSE),
    Route(GET, <<"/", "a", "/", "1">>, FALSE),
    Route(POST, <<"/", "{id:d}">>, TRUE) }

SubMenu ==
  { Mounted(<<"/">>, innermost), Mounted(<<"/", "{x}">>, innermost), Route(GET, <<"/">>, FALSE),
    Route(GET, <<"/", "{id:d}">>, TRUE), Route(POST, <<"/", "*">>, FALSE) }

SubSubMenu ==
  { Route(GET, <<"/", "{id}">>, TRUE), Route(GET, <<"/", "{x}">>, FALSE), Route(GET, <<"/", "*">>, FALSE),
    Route(POST, <<"/", "{id:d}", "/", "b">>, TRUE) }

Menu == RootMenu \cup SubMenu \cup SubSubMenu

Handled == {r \in Menu : r.sub = none}

(* The trees are those of RouteTree.                                       *)
RT == INSTANCE RouteTree
        WITH Alphabet <- MCAlphabet, Accepts <- MCAccepts,
             tree <- MCNothing, pending <- <<>>, calls <- 0,
             Patterns <- {r.pattern : r \in Handled}, MountPatterns <- {r.pattern : r \in Menu \ Handled},
             MaxCalls <- 0, Behind <- [t \in MCParams \cup MCRegexps |-> <<>>]

MCNewTree == RT!EmptyTree
MCTreeInsert(t, p, method) == RT!Insert(t, method, p).tree
MCTreeFind(t, method, path) == RT!Find(t, method, path)
MCTreeFindPattern(t, p) == RT!FindPattern(t, p)

(* One registration, or a mount and a handler in either order.             *)
Listings(menu) ==
  {<<r>> : r \in menu}
    \cup {rs \in menu \X menu : (rs[1].sub = none) # (rs[2].sub = none)}

MCPrograms ==
  { [m \in MCMuxes |-> IF m = outer THEN r ELSE IF m = inner THEN s ELSE t] :
      r \in Listings(RootMenu), s \in Listings(SubMenu), t \in Listings(SubSubMenu) }

MCPaths ==
  { <<>>, <<"/">>, <<"/", "a">>, <<"/", "a", "/">>, <<"/", "0">>, <<"/", "1">>,
    <<"/", "1", "/", "2">>, <<"/", "1", "/", "0", "2">>, <<"/", "1", "/", "2", "/", "1">>,
    <<"/", "a", "/", "1", "2">>, <<"/", "a", "/", "b", "/", "1", "a">>,
    <<"/", "a", "/", "1", "/", "2", "/", "b">>, <<"/", "a", "/", "/", "b">> }
=============================================================================
