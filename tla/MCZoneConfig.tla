---------------------------- MODULE MCZoneConfig ----------------------------
(* A motion zone and one mask, each the camera's own, the user's, or both.   *)
EXTENDS ZoneConfig
=============================================================================
