--------------------------- MODULE MCAudioEndpoint ---------------------------
(* Two listeners in turn, two sessions, two muxer generations.               *)
EXTENDS AudioEndpoint, TLC

Symmetry == Permutations(Gens) \cup Permutations(Sessions)
=============================================================================
