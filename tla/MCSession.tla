------------------------------- MODULE MCSession -------------------------------
(* A browser with an account that signs in with Google or a link and one with a password. *)
EXTENDS Session

CONSTANTS g, p

Small == {[acts |-> 3, failures |-> 0], [acts |-> 2, failures |-> 1]}
================================================================================
