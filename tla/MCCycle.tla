------------------------------ MODULE MCCycle -------------------------------
(* Instances of Cycle for TLC: a site of two files under two roots, two    *)
(* engines, one of which is like pmf in not looking at the exit code; in   *)
(* one run the other is like wpchecksums and knows the core files only.    *)
EXTENDS Cycle, TLC

CONSTANTS index, upload, home, addon, pmf, maldet, wpchecksums

TwoRoots == [f \in File |-> IF f = upload THEN addon ELSE home]
OneRoot == [f \in File |-> home]

Everything == [e \in Engine |-> File]
CoreOnly == [e \in Engine |-> IF e = wpchecksums THEN File \cap {index} ELSE File]

FirstEdit == {1}
SecondEdit == {2}
=============================================================================
