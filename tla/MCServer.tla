------------------------------ MODULE MCServer ------------------------------
(* Constants of Server that a .cfg cannot write.                           *)
EXTENDS Server

(* The literal that follows the connection string in main.cpp:141: the raw *)
(* string R"("}")" holds a quote, a brace and one more quote.              *)
CodeClosing == <<"quote", "brace", "quote">>

(* The literal without its last quote.  The program gets no further than   *)
(* Init without this repair, so every run about the server assumes it.     *)
RepairedClosing == <<"quote", "brace">>

(* No action and no invariant tells one request from another.              *)
Symmetry == Permutations(Requests)
=============================================================================
