------------------------------ MODULE MCVault -------------------------------
(* Instances of Vault for TLC.  The cycle quarantines; the panel does      *)
(* everything; the command line restores and purges.                       *)
EXTENDS Vault, TLC

CONSTANTS cycle, panel, cli

CycleAndPanel == (cycle :> {"quarantine"}) @@ (panel :> Operation)
PanelAndCli == (panel :> {"quarantine", "restore"}) @@ (cli :> {"restore"})
=============================================================================
