---------------------------- MODULE MCLoginClient ----------------------------
(* Two concurrent calls with a short and a long budget; four failed logins   *)
(* in a row fit, so that the cooldown reaches its maximum.                   *)
EXTENDS LoginClient, TLC

Symmetry == Permutations(Calls)
=============================================================================
