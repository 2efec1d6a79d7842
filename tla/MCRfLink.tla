------------------------------ MODULE MCRfLink ------------------------------
(* RfLink for TLC.  The addresses are interchangeable.                      *)
EXTENDS RfLink, TLC

MCCallers == {<<"handler", "app">>, <<"handler", "shell">>}

Symmetry == Permutations(Addrs)
=============================================================================
