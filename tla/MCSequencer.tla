---------------------------- MODULE MCSequencer ----------------------------
(* An instance of Sequencer for TLC: its constants are given in the config. *)
EXTENDS Sequencer
=============================================================================
