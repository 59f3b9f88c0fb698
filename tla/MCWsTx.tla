------------------------------ MODULE MCWsTx ------------------------------
(* Instances of WsTx for TLC: its constants are given in the config. *)
EXTENDS WsTx
===========================================================================
