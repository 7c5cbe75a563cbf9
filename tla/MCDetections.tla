---------------------------- MODULE MCDetections ----------------------------
(* A zone event and a package event; the durations keep the order of those  *)
(* of the code, with the margin of the timer as the unit.                    *)
EXTENDS Detections
=============================================================================
