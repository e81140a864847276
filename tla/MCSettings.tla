------------------------------ MODULE MCSettings ------------------------------
(* Settings for TLC. *)
EXTENDS Settings
=============================================================================
