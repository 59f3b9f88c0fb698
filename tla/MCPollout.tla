----------------------------- MODULE MCPollout -----------------------------
(* An instance of Pollout for TLC: its constants are given in the config.  *)
(* The requests are those for connections without rx flow control, the     *)
(* only ones the properties speak of; the others' events are changed by    *)
(* the service thread all the same.                                        *)
EXTENDS Pollout

MCSpec ==
  /\ Init
  /\ [][Next /\ asked' \cap Flow = {}]_vars
  /\ Fairness
============================================================================
