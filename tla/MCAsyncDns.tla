---------------------------- MODULE MCAsyncDns -----------------------------
(* Instances of AsyncDns for TLC: constants are given in the configs. *)
EXTENDS AsyncDns
BothBuilds == {{"A"}, {"A", "AAAA"}}
Ipv6Build == {{"A", "AAAA"}}
=============================================================================
