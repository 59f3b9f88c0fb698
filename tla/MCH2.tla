-------------------------------- MODULE MCH2 --------------------------------
(* An instance of H2 for TLC: its constants are given in the config. *)
EXTENDS H2
=============================================================================
