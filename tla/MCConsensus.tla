---------------------------- MODULE MCConsensus -----------------------------
(* An instance of Consensus for TLC: the default weights, multipliers and  *)
(* thresholds, three engines, and six findings about two contents that lie *)
(* in the document root, in the trash and under a whitelist rule.          *)
EXTENDS Consensus, TLC

CONSTANTS wpchecksums, maldet, amwscan, tampered, shell, index, bin, listed

MCEngine == {wpchecksums, maldet, amwscan}
MCWeight == (wpchecksums :> 150) @@ (maldet :> 100) @@ (amwscan :> 80)
MCMultiplier == [signature |-> 100, heuristic |-> 80, anomaly |-> 55]
MCLocation == (index :> "web_reachable") @@ (bin :> "trash") @@ (listed :> "web_reachable")

Said(s, p, k, c) == [sha |-> s, path |-> p, kind |-> k, confidence |-> c]

MCFinding == {
    Said(shell, index, "malware", "signature"),
    Said(shell, bin, "malware", "heuristic"),
    Said(shell, listed, "malware", "unheard_of"),
    Said(tampered, index, "malware", "signature"),
    Said(tampered, index, "malware", "heuristic"),
    Said(tampered, bin, "vulnerability", "signature")}

MCReports(clean) ==
    [status : {"completed", "partial"},
     findings : {F \in SUBSET MCFinding : Cardinality(F) <= 2},
     clean : SUBSET clean]

(* Only wp-checksums knows which contents are official. *)
MCPossible == [e \in MCEngine |-> MCReports(IF e = wpchecksums THEN {tampered} ELSE {})]
=============================================================================
