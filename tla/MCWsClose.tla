----------------------------- MODULE MCWsClose -----------------------------
(* An instance of WsClose for TLC: its constants are given in the config. *)
EXTENDS WsClose
=============================================================================
