------------------------------ MODULE MCEgress ------------------------------
(* A small instance of Egress: a frame interval, a jump ahead that is farther *)
(* than a schedule may reach, and a clock that steps back.                    *)
EXTENDS Egress

MCDeltas == {-2, 1, 4}
=============================================================================
