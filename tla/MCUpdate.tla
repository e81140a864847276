------------------------------ MODULE MCUpdate ------------------------------
(* Instances of Update for TLC: the panel and the command line on two      *)
(* releases, the later of which may be withdrawn again.                    *)
EXTENDS Update, TLC

CONSTANTS tab1, tab2, shell

Releases == 1 .. 2
Clicks == Permutations({tab1, tab2})
=============================================================================
