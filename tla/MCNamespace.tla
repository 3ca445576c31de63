----------------------------- MODULE MCNamespace -----------------------------
EXTENDS Namespace, TLC
MCPaths == {<<"a">>, <<"b">>, <<"a", "f">>, <<"b", "f">>}
Symmetry == Permutations(Requests)
=============================================================================
