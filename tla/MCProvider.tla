----------------------------- MODULE MCProvider -----------------------------
(* Two attempts of init(), two connections that overlap, a camera object     *)
(* with the one MAC or with none.                                           *)
EXTENDS Provider
=============================================================================
