-------------------------- MODULE MCStreamLifecycle -------------------------
(***************************************************************************)
(* Two tracks of one camera, two audio profiles.  The first track has two  *)
(* stream slots, so that an abandoned creation meets its successor.        *)
(***************************************************************************)
EXTENDS StreamLifecycle, TLC

CONSTANTS v1, v2, i1, i2, i3

MCTrackOf == [i \in Insts |-> IF i = i3 THEN v2 ELSE v1]
Slots == Permutations({i1, i2})
=============================================================================
