--------------------------- MODULE MCClientEngine ---------------------------
(* Two tasks with an engine each import two high-speed devices and a        *)
(* super-speed one, into a port of each hub.                                *)
EXTENDS ClientEngine

MCTasks == {"t1", "t2"}
MCEngineOf == [t \in MCTasks |-> t]
MCDevices == {"1-1", "1-2", "2-1"}
MCSpeed == [d \in MCDevices |-> IF d = "2-1" THEN 5 ELSE 3]
MCPortList == <<"hs0", "ss1">>
MCHubOf == [p \in {"hs0", "ss1"} |-> IF p = "hs0" THEN "hs" ELSE "ss"]
MCPlatforms == {"linux", "windows"}
MCPolicyOf == [t \in MCTasks |-> IF t = "t1" THEN from_config(TRUE, 0, 1, 3)
                                  ELSE from_config(TRUE, 1, 1, 3)]
=============================================================================
