---------------------------- MODULE MCDeliveries ----------------------------
(* An instance of Deliveries for TLC: cron and the panel, a webhook        *)
(* delivery and a younger e-mail, listed one at a time.                    *)
EXTENDS Deliveries

CONSTANTS cron, panel

MCRow == 1 .. 2
MCEmail == {2}
MCWorker == {cron, panel}
=============================================================================
