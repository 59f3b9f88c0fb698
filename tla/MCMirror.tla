----------------------------- MODULE MCMirror -----------------------------
(* Instances of Mirror for TLC: its constants are given in the config. *)
EXTENDS Mirror
===========================================================================
