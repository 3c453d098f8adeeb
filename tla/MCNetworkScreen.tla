--------------------------- MODULE MCNetworkScreen ---------------------------
(* A laptop with both kinds of interface, with one of them, or with none.  *)
EXTENDS NetworkScreen

SomeLists == {<<>>, <<"wifi">>, <<"ethernet">>, <<"wifi", "ethernet">>}
=============================================================================
