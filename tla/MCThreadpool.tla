---------------------------- MODULE MCThreadpool ----------------------------
(* An instance of Threadpool for TLC: its constants are given in the config. *)
EXTENDS Threadpool
=============================================================================
