------------------------------- MODULE MCMqtt -------------------------------
(* Instances of Mqtt for TLC: two streams and two topics, the second of    *)
(* which ends in the name of the first, 7 bytes into it.                   *)
EXTENDS Mqtt, TLC
CONSTANTS a, b, t, u

MCLists == {<<t>>, <<u>>}
MCBehind == (t :> {None}) @@ (u :> {t})
=============================================================================
