------------------------------- MODULE AhPool -------------------------------
(***************************************************************************)
(* The header tables ("ah") of a service thread and the limits of a peer.  *)
(*                                                                         *)
(* A connection needs one of max_http_header_pool tables while it parses   *)
(* the headers of a request and until the answer is complete.  One that    *)
(* gets none is put on a list, is not asked for input, and gets the table  *)
(* of a connection that gives its table back.  With peer limits a peer (an *)
(* IP address) has at most ip_limit_ah of them, and ip_limit_wsi           *)
(* connections; the record of a peer is freed some time after its last     *)
(* connection closed.                                                      *)
(*                                                                         *)
(* Everything is done by the service thread, except that with several      *)
(* threads (Smp) another one may free peers while a connection is adopted. *)
(***************************************************************************)
EXTENDS Integers, Sequences, FiniteSets

CONSTANTS Conns, Peers,
          None,       \* no peer, as for a unix socket
          PeerOf,     \* the peer of each connection
          PoolSize,   \* max_http_header_pool
          Limits,     \* values of ip_limit_ah, 0 for no limit
          LimitWsi,   \* ip_limit_wsi, 0 for no limit
          MaxPipe,    \* requests sent before the answer to the last one
          MaxLeaks,   \* tables a peer is followed to count and not to have
          Smp

ASSUME AhAssumption ==
  /\ IsFiniteSet(Conns) /\ None \notin Peers
  /\ PeerOf \in [Conns -> Peers \cup {None}]
  /\ PoolSize \in Nat \ {0} /\ Limits \subseteq Nat
  /\ {LimitWsi, MaxPipe, MaxLeaks} \subseteq Nat
  /\ Smp \in BOOLEAN

VARIABLES
  limit,      \* ip_limit_ah of this context
  phase,      \* "none", "headers", "serving", "upgraded"
  has,        \* the connection holds a table
  more,       \* part of a later request is in its buflist
  piped,      \* requests sent early, so far
  wait,       \* ah_wait_list, the newest first
  deaf,       \* connections with POLLIN off
  inuse,      \* ah_count_in_use
  adopting,   \* a connection between the search for its peer and its start
  ptr,        \* wsi->peer
  live,       \* records of peers there are
  reap,       \* peer_wait_list
  wsis,       \* count_wsi of each peer
  ahs         \* count_ah of each peer

pool == <<has, wait, deaf, inuse, ahs>>
peering == <<adopting, ptr, live, reap, wsis>>
vars == <<limit, phase, more, piped, pool, peering>>

Init ==
  /\ limit \in Limits
  /\ phase = [c \in Conns |-> "none"]
  /\ has = [c \in Conns |-> FALSE] /\ more = has
  /\ piped = 0
  /\ wait = <<>> /\ deaf = {} /\ inuse = 0
  /\ adopting = <<>>
  /\ ptr = [c \in Conns |-> None]
  /\ live = {} /\ reap = {}
  /\ wsis = [p \in Peers |-> 0] /\ ahs = wsis

Here == adopting = <<>> \/ Smp

-----------------------------------------------------------------------------
(* The pool *)

(* the peer may have one more table *)
lws_peer_confirm_ah_attach_ok(count, p) == p = None \/ limit = 0 \/ count[p] < limit

lws_peer_track_ah_detach(p) == IF p = None THEN ahs ELSE [ahs EXCEPT ![p] = @ - 1]

Counted(count, p) == IF p = None THEN count ELSE [count EXCEPT ![p] = @ + 1]
Granted(c, p) ==
  /\ has' = [has EXCEPT ![c] = TRUE]
  /\ inuse' = inuse + 1
  /\ ahs' = Counted(ahs, p)
  /\ UNCHANGED <<wait, deaf>>

(* the pool is busy, or the peer has enough: no more input from c *)
_lws_header_ensure_we_are_on_waiting_list(c) ==
  /\ wait' = <<c>> \o wait
  /\ deaf' = deaf \cup {c}
  /\ UNCHANGED <<has, inuse, ahs>>

lws_header_table_attach(c, p) ==
  IF inuse < PoolSize /\ lws_peer_confirm_ah_attach_ok(ahs, p)
  THEN Granted(c, p)
  ELSE _lws_header_ensure_we_are_on_waiting_list(c)

Eligible(count) == {i \in DOMAIN wait : lws_peer_confirm_ah_attach_ok(count, ptr[wait[i]])}

(* Mutant: the newest that waits is served first. *)
Heirs_Newest(count) ==
  {wait[i] : i \in {i \in Eligible(count) : \A j \in Eligible(count) : i <= j}}

(* Mutant: only the one that waits longest is looked at. *)
Heirs_OldestOnly(count) == {wait[i] : i \in Eligible(count) \cap {Len(wait)}}

(* the one that waits longest of those that may have one, if any *)
Heirs(count) ==
  {wait[i] : i \in {i \in Eligible(count) : \A j \in Eligible(count) : j <= i}}

On(c, list) == \E i \in DOMAIN list : list[i] = c

__lws_remove_from_ah_waiting_list(list, c) ==
  IF On(c, list)
  THEN LET i == CHOOSE i \in DOMAIN list : list[i] = c
       IN  SubSeq(list, 1, i - 1) \o SubSeq(list, i + 1, Len(list))
  ELSE list

(* the table of c goes to o, which has input again *)
Transfer(c, o, count) ==
  /\ has' = [has EXCEPT ![c] = FALSE, ![o] = TRUE]
  /\ wait' = __lws_remove_from_ah_waiting_list(wait, o)
  /\ deaf' = deaf \ {o}
  /\ ahs' = Counted(count, ptr[o])
  /\ UNCHANGED inuse

_lws_destroy_ah(c, count) ==
  /\ has' = [has EXCEPT ![c] = FALSE]
  /\ inuse' = inuse - 1
  /\ ahs' = count
  /\ UNCHANGED <<wait, deaf>>

(* of a connection that has a table and, at this moment, peer p *)
__lws_header_table_detach(c, p) ==
  LET count == lws_peer_track_ah_detach(p)
  IN  IF Heirs(count) = {} THEN _lws_destroy_ah(c, count)
      ELSE \E o \in Heirs(count) : Transfer(c, o, count)

-----------------------------------------------------------------------------
(* Peers *)

(* the peer may have no more connections *)
LimitReached(count, p) == p # None /\ LimitWsi > 0 /\ count[p] >= LimitWsi

(* Adoption finds the record of the peer or makes one, which is on the     *)
(* list of those to free until it has a connection                         *)
lws_get_or_create_peer(c) ==
  LET p == PeerOf[c]
  IN  /\ adopting = <<>> /\ phase[c] = "none"
      /\ IF p \in Peers \ live
         THEN /\ live' = live \cup {p} /\ reap' = reap \cup {p}
              /\ wsis' = [wsis EXCEPT ![p] = 0]
              /\ ahs' = [ahs EXCEPT ![p] = 0]
         ELSE UNCHANGED <<live, reap, wsis, ahs>>
      /\ adopting' = IF LimitReached(wsis', p) THEN <<>> ELSE <<c>>
      /\ UNCHANGED <<limit, phase, more, piped, has, wait, deaf, inuse, ptr>>

(* Mutant: the record stays on the list of those to be freed. *)
lws_peer_add_wsi_Listed(c) ==
  /\ adopting = <<c>> /\ adopting' = <<>>
  /\ ptr' = [ptr EXCEPT ![c] = PeerOf[c]]
  /\ wsis' = Counted(wsis, PeerOf[c])
  /\ phase' = [phase EXCEPT ![c] = "headers"]
  /\ lws_header_table_attach(c, PeerOf[c])
  /\ UNCHANGED <<limit, more, piped, live, reap>>

(* the connection is there, and asks for a table *)
lws_peer_add_wsi(c) ==
  /\ adopting = <<c>> /\ adopting' = <<>>
  /\ ptr' = [ptr EXCEPT ![c] = PeerOf[c]]
  /\ wsis' = Counted(wsis, PeerOf[c])
  /\ reap' = reap \ {PeerOf[c]}
  /\ phase' = [phase EXCEPT ![c] = "headers"]
  /\ lws_header_table_attach(c, PeerOf[c])
  /\ UNCHANGED <<limit, more, piped, live>>

(* ten seconds after its last connection closed *)
lws_peer_cull_peer_wait_list(p) ==
  /\ Here /\ p \in reap
  /\ reap' = reap \ {p} /\ live' = live \ {p}
  /\ UNCHANGED <<limit, phase, more, piped, pool, adopting, ptr, wsis>>

(* __lws_reset_wsi(): the peer first; it may be forgotten when it has no   *)
(* connection and no table any more                                        *)
lws_peer_track_wsi_close(c) ==
  LET p == ptr[c]
  IN  /\ ptr' = [ptr EXCEPT ![c] = None]
      /\ IF p = None THEN UNCHANGED <<wsis, reap>>
         ELSE /\ wsis' = [wsis EXCEPT ![p] = @ - 1]
              /\ reap' = IF wsis'[p] = 0 /\ ahs[p] = 0 THEN reap \cup {p} ELSE reap
      /\ UNCHANGED <<adopting, live>>

Gone(c) ==
  /\ phase' = [phase EXCEPT ![c] = "none"]
  /\ more' = [more EXCEPT ![c] = FALSE]
  /\ UNCHANGED <<limit, piped>>

Of(p) == {c \in Conns : ptr[c] = p}
Holders(S) == {c \in S : has[c]}

(* then the table, by when wsi->peer is NULL and nobody counts it down *)
CloseHolder(c) ==
  /\ Here /\ has[c]
  /\ ptr[c] # None => ahs[ptr[c]] - Cardinality(Holders(Of(ptr[c]))) < MaxLeaks
  /\ lws_peer_track_wsi_close(c)
  /\ __lws_header_table_detach(c, None)
  /\ Gone(c)

(* without a table it may be on the waiting list *)
CloseOther(c) ==
  /\ Here /\ phase[c] # "none" /\ ~has[c]
  /\ lws_peer_track_wsi_close(c)
  /\ wait' = __lws_remove_from_ah_waiting_list(wait, c)
  /\ deaf' = deaf \ {c}
  /\ Gone(c)
  /\ UNCHANGED <<has, inuse, ahs>>

-----------------------------------------------------------------------------
(* A connection *)

(* input while it has no table; the headers may be all there at once *)
lws_h1_server_socket_service(c) ==
  /\ Here
  /\ phase[c] = "headers" /\ ~has[c] /\ c \notin deaf
  /\ lws_header_table_attach(c, ptr[c])
  /\ \E done \in BOOLEAN : phase' = [phase EXCEPT ![c] = IF done /\ has'[c] THEN "serving" ELSE @]
  /\ UNCHANGED <<limit, more, piped, peering>>

(* the headers are complete, and part of a later request may follow *)
lws_read_h1(c) ==
  /\ Here
  /\ phase[c] = "headers" /\ has[c]
  /\ phase' = [phase EXCEPT ![c] = "serving"]
  /\ \E early \in BOOLEAN :
       /\ early => piped < MaxPipe
       /\ more' = [more EXCEPT ![c] = early]
       /\ piped' = piped + (IF early THEN 1 ELSE 0)
  /\ UNCHANGED <<limit, pool, peering>>

(* lws_http_headers_detach() of the callback, or a request that is refused *)
lws_http_headers_detach(c) ==
  /\ Here
  /\ phase[c] = "serving" /\ has[c]
  /\ __lws_header_table_detach(c, ptr[c])
  /\ UNCHANGED <<limit, phase, more, piped, peering>>

(* ws, or another role that has no use for headers *)
Upgrade(c) ==
  /\ Here
  /\ phase[c] = "serving" /\ has[c]
  /\ __lws_header_table_detach(c, ptr[c])
  /\ phase' = [phase EXCEPT ![c] = "upgraded"]
  /\ UNCHANGED <<limit, more, piped, peering>>

(* Keepalive: the table is kept when the next request has begun, and given *)
(* back otherwise; one that was given back before is needed again          *)
lws_http_transaction_completed(c) ==
  /\ Here
  /\ phase[c] = "serving"
  /\ phase' = [phase EXCEPT ![c] = "headers"]
  /\ CASE has[c] /\ ~more[c] -> __lws_header_table_detach(c, ptr[c])
       [] ~has[c] /\ more[c] -> lws_header_table_attach(c, ptr[c])
       [] OTHER -> UNCHANGED pool
  /\ UNCHANGED <<limit, more, piped, peering>>

Serve(c) ==
  \/ lws_read_h1(c) \/ lws_http_headers_detach(c) \/ Upgrade(c)
  \/ lws_http_transaction_completed(c)

Next ==
  \/ \E c \in Conns :
       \/ lws_get_or_create_peer(c) \/ lws_peer_add_wsi(c)
       \/ lws_h1_server_socket_service(c) \/ Serve(c)
       \/ CloseHolder(c) \/ CloseOther(c)
  \/ \E p \in Peers : lws_peer_cull_peer_wait_list(p)

Spec == Init /\ [][Next]_vars

(* A connection that has a table uses it or, by PENDING_TIMEOUT_HOLDING_AH *)
(* and the timeouts of its answer, is closed.  One that waits is not       *)
(* helped by its own timeout.  Strong, since an adoption, which is short,  *)
(* comes between.                                                          *)
FairSpec ==
  /\ Spec
  /\ \A c \in Conns : SF_vars(has[c] /\ (Serve(c) \/ CloseHolder(c)))
  /\ WF_vars(\E c \in Conns : lws_peer_add_wsi(c))

-----------------------------------------------------------------------------
Listed == {wait[i] : i \in DOMAIN wait}

TypeOK ==
  /\ limit \in Limits
  /\ phase \in [Conns -> {"none", "headers", "serving", "upgraded"}]
  /\ has \in [Conns -> BOOLEAN] /\ more \in [Conns -> BOOLEAN]
  /\ piped \in 0 .. MaxPipe
  /\ wait \in Seq(Conns) /\ \A i, j \in DOMAIN wait : wait[i] = wait[j] => i = j
  /\ deaf \subseteq Conns
  /\ inuse \in 0 .. PoolSize
  /\ adopting \in Seq(Conns) /\ Len(adopting) <= 1
  /\ ptr \in [Conns -> Peers \cup {None}]
  /\ live \subseteq Peers /\ reap \subseteq live
  /\ wsis \in [Peers -> Nat] /\ ahs \in [Peers -> Nat]

(* ah_count_in_use is the number of connections that have a table, however *)
(* tables are passed from one that closes to one that waits.               *)
PoolIsExact == inuse = Cardinality(Holders(Conns))

(* No connection waits while the pool has room and the limit of its peer   *)
(* (as the code counts) lets it have a table: each table that is given     *)
(* back goes to somebody who may have it.                                  *)
NobodyWaitsInVain == Eligible(ahs) # {} => inuse = PoolSize

(* A connection whose input was turned off is on the list, or it would     *)
(* never be heard again; one on the list is a connection without a table   *)
(* and without input.                                                      *)
DeafAreListed == deaf = Listed /\ \A c \in Listed : phase[c] = "headers" /\ ~has[c]

(* A record of a peer that some connection points to is there, counts the  *)
(* connections that point to it, and is not about to be freed.             *)
PeersAreLive ==
  \A p \in Peers : Of(p) # {} =>
    p \in live \ reap /\ wsis[p] = Cardinality(Of(p))

(* The count of a peer's tables never falls short of those it has, or it   *)
(* could have more than its limit.  It may be more: a close forgets the    *)
(* peer before the table is given back (close.c:121), which then stays     *)
(* counted.                                                                *)
TablesAreCounted ==
  \A p \in Peers : Cardinality(Holders(Of(p))) <= ahs[p]

(* "making it impossible for one IP to exhaust all the server resources":  *)
(* a peer never holds more tables than its limit.                          *)
PeerWithinLimit ==
  limit > 0 => \A p \in Peers : Cardinality(Holders(Of(p))) <= limit

(* The pool and the records of peers are sound, through adoptions, hand-   *)
(* overs and closes in any order: tables in use and connections of a peer  *)
(* are counted exactly, its tables are not counted short, and it stays     *)
(* within its limit.                                                       *)
PoolIsSound ==
  TypeOK /\ PoolIsExact /\ PeersAreLive /\ TablesAreCounted /\ PeerWithinLimit

(* Whoever waits will be heard: it is on the list exactly while its input  *)
(* is off, and not beside a table it may have.                             *)
WaitersAreListed == NobodyWaitsInVain /\ DeafAreListed

(* With no limit for a peer, a connection that waits gets a table, since   *)
(* the one that waits longest is next.                                     *)
WaitersAreServed ==
  \A c \in Conns : limit = 0 /\ c \in deaf ~> c \notin deaf
=============================================================================
