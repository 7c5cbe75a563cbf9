--------------------------- MODULE MCPushRegistry ---------------------------
(***************************************************************************)
(* Two cameras on one push port, a second port for the first camera.       *)
(* Camera a reports its address in two forms.                              *)
(***************************************************************************)
EXTENDS PushRegistry

MCAddrs == {"a", "mapped-a", "b"}
MCNormalize == [x \in MCAddrs |-> IF x = "b" THEN "b" ELSE "a"]

MCPortOf == [r \in Routes |-> IF r = "a-low" THEN "low" ELSE "high"]
MCOwned == [r \in Routes |-> IF r = "b-high" THEN {"b"} ELSE {"a"}]
MCSockPort == [s \in Socks |-> IF s = "a-low" THEN "low" ELSE "high"]
MCSockAddr == [s \in Socks |-> CASE s = "b" -> "b"
                                 [] s = "a2" -> "mapped-a"
                                 [] OTHER -> "a"]
=============================================================================
