------------------------------ MODULE MCAhPool ------------------------------
(* An instance of AhPool for TLC: three connections of one peer, and two   *)
(* over a unix socket, which have none.                                   *)
EXTENDS AhPool, TLC
CONSTANTS c1, c2, c3, c4, c5, p1

MCPeerOf == c1 :> p1 @@ c2 :> p1 @@ c3 :> p1 @@ c4 :> None @@ c5 :> None
=============================================================================
