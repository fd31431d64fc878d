------------------------------ MODULE MCSignIn ------------------------------
(* Two tabs of a browser, which sign in twice. *)
EXTENDS SignIn, TLC

CONSTANTS t1, t2, here, there

Symmetry == Permutations(Tab) \cup Permutations(Origin)
=============================================================================
