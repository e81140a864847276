------------------------------- MODULE MCLock -------------------------------
(* Instances of Lock for TLC: the panel hosts two contenders (a cycle that *)
(* is running and a second "scan now"), cron starts another process.       *)
EXTENDS Lock, TLC

CONSTANTS panel1, panel2, cron, panelPid, cronPid

MCContender == {panel1, panel2, cron}
MCPid == {panelPid, cronPid}
MCPidOf == (panel1 :> panelPid) @@ (panel2 :> panelPid) @@ (cron :> cronPid)
=============================================================================
