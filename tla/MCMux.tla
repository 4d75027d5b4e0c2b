------------------------------- MODULE MCMux --------------------------------
(* Constants of Mux that a .cfg cannot write.                              *)
EXTENDS Mux, TLC

CONSTANTS root, sub, other, w1, w2

MCMuxes == {root, sub, other}
MCMiddlewares == {w1, w2}

(* Muxes but the root, and middlewares, are told apart by no one.          *)
MCSymmetry == Permutations({sub, other}) \cup Permutations(MCMiddlewares)

MCSegments == {"", "a", "b", "*"}
MCPatterns == { <<"">>, <<"a", "b">>, <<"b">>, <<"*">> }
MCMountPatterns == { <<"">>, <<"a">> }
MCPaths == { <<"">>, <<"a">>, <<"a", "">>, <<"a", "b">> }
=============================================================================
