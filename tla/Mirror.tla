------------------------------ MODULE Mirror ------------------------------
(***************************************************************************)
(* One mirror instance of plugins/protocol_lws_mirror.c: what any session  *)
(* sends is put in one lws_ring and sent to every session, each of which   *)
(* reads the ring with a tail of its own.  Rx flow control of all the      *)
(* sessions is switched off when the ring is nearly full and on again when *)
(* the slowest session made room; a session that becomes the slowest has   *)
(* three seconds to send something.                                        *)
(*                                                                         *)
(* Every action is one callback of the protocol, made by the service       *)
(* thread with the locks of the instance held.  Memory is never short, and *)
(* there are fewer instances than MAX_MIRROR_INSTANCES.                    *)
(***************************************************************************)
EXTENDS Ring, FiniteSets, Sequences

CONSTANTS Session, Message,
          RXFLOW_MIN,   \* fewer free elements than this: flow off
          RXFLOW_MAX,   \* this many free elements: flow on again
          Reading       \* sessions whose peer goes on reading

ASSUME MirrorAssumption ==
  /\ RXFLOW_MIN \in 1 .. RXFLOW_MAX
  /\ RXFLOW_MAX \in 1 .. Count - 1
  /\ Empty \notin Message
  /\ Reading \subseteq Session

VARIABLES
  ring,         \* mi->ring
  members,      \* mi->same_mi_pss_list, as a set
  tail,         \* pss->tail
  rx_enabled,   \* mi->rx_enabled
  rx,           \* does the wsi accept rx: its own flow control
  wants,        \* a WRITEABLE callback was asked for and has not come yet
  timer,        \* the PENDING_TIMEOUT_USER_REASON_BASE timeout is set
  dying,        \* the wsi is being closed and CLOSED follows; its timeout and
                \* its writeable requests are of no more consequence
  out           \* what the last callback wrote, <<>> if nothing

vars == <<ring, members, tail, rx_enabled, rx, wants, timer, dying, out>>

Free(r) == lws_ring_get_count_free_elements(r)
Waiting(r, t) == lws_ring_get_count_waiting_elements(r, t)

TypeOK ==
  /\ ring \in [buf : [Slot -> Message \cup {Empty}], head : Slot, oldest_tail : Slot]
  /\ members \in SUBSET Session
  /\ tail \in [Session -> Slot]
  /\ rx_enabled \in BOOLEAN
  /\ rx \in [Session -> BOOLEAN]
  /\ wants \in [Session -> BOOLEAN]
  /\ timer \in [Session -> BOOLEAN]
  /\ dying \in SUBSET members
  /\ out \in Seq(Message \cup {Empty})

Init ==
  /\ ring = lws_ring_create
  /\ members = {}
  /\ tail = [s \in Session |-> 0]
  /\ rx_enabled = TRUE
  /\ rx = [s \in Session |-> TRUE]
  /\ wants = [s \in Session |-> FALSE]
  /\ timer = [s \in Session |-> FALSE]
  /\ dying = {}
  /\ out = <<>>

-----------------------------------------------------------------------------

(* switch rx of every session of the instance, and remember it *)
__mirror_rxflow_instance(enable) ==
  /\ rx_enabled' = enable
  /\ rx' = [s \in Session |-> IF s \in members THEN enable ELSE rx[s]]

(* Mutant: the session with the fewest elements waiting counts as the slowest. *)
Worst_Least(M, t) ==
  CHOOSE s \in M : \A o \in M : Waiting(ring, t[o]) >= Waiting(ring, t[s])

(* a session of M that has the most elements waiting, with the tails t *)
Worst(M, t) ==
  CHOOSE s \in M : \A o \in M : Waiting(ring, t[o]) <= Waiting(ring, t[s])

(* The sessions M with the tails t: the oldest tail follows the slowest.   *)
(* Only if it moved is the flow switched on again, and the 3 s timeout set *)
(* on everyone who is now at the oldest tail.                              *)
__mirror_update_worst_tail(M, t, timers) ==
  /\ ring' = lws_ring_update_oldest_tail(ring, t[Worst(M, t)])
  /\ LET moved == ring'.oldest_tail # ring.oldest_tail
         resume == moved /\ ~rx_enabled /\ Free(ring') >= RXFLOW_MAX
     IN  /\ rx_enabled' = (rx_enabled \/ resume)
         /\ rx' = [s \in Session |-> IF resume /\ s \in M THEN TRUE ELSE rx[s]]
         /\ timer' = [s \in Session |->
                        IF /\ moved
                           /\ Waiting(ring', ring'.oldest_tail) > 0
                           /\ s \in M
                           /\ t[s] = ring'.oldest_tail
                        THEN TRUE ELSE timers[s]]

-----------------------------------------------------------------------------

(* LWS_CALLBACK_ESTABLISHED: the first session makes the instance and its  *)
(* ring; everybody begins at the oldest tail.  Nobody asks for WRITEABLE,  *)
(* and rx of the new wsi is on whatever the instance's is.                 *)
Established(s) ==
  /\ s \notin members
  /\ members' = members \cup {s}
  /\ ring' = IF members = {} THEN lws_ring_create ELSE ring
  /\ rx_enabled' = IF members = {} THEN TRUE ELSE rx_enabled
  /\ tail' = [tail EXCEPT ![s] = ring'.oldest_tail]
  /\ rx' = [rx EXCEPT ![s] = TRUE]
  /\ out' = <<>>
  /\ UNCHANGED <<wants, timer, dying>>

(* LWS_CALLBACK_RECEIVE with no free element: the message is dropped *)
ReceiveDropped(s) ==
  /\ s \in members \ dying
  /\ rx[s]
  /\ Free(ring) = 0
  /\ IF rx_enabled THEN __mirror_rxflow_instance(FALSE)
                   ELSE UNCHANGED <<rx_enabled, rx>>
  /\ wants' = [o \in Session |-> o \in members \/ wants[o]]
  /\ UNCHANGED <<ring, members, tail, timer, dying, out>>

(* Mutant: only the sender is asked to write. *)
Receive_AskSender(s, m) ==
  /\ s \in members \ dying
  /\ rx[s]
  /\ Free(ring) > 0
  /\ ring' = lws_ring_insert(ring, m)
  /\ IF rx_enabled /\ Free(ring') < RXFLOW_MIN THEN __mirror_rxflow_instance(FALSE)
                                               ELSE UNCHANGED <<rx_enabled, rx>>
  /\ wants' = [wants EXCEPT ![s] = TRUE]
  /\ out' = <<>>
  /\ UNCHANGED <<members, tail, timer, dying>>

(* LWS_CALLBACK_RECEIVE that finds room: everybody has something to send *)
Receive(s, m) ==
  /\ s \in members \ dying
  /\ rx[s]
  /\ Free(ring) > 0
  /\ ring' = lws_ring_insert(ring, m)
  /\ IF rx_enabled /\ Free(ring') < RXFLOW_MIN THEN __mirror_rxflow_instance(FALSE)
                                               ELSE UNCHANGED <<rx_enabled, rx>>
  /\ wants' = [o \in Session |-> o \in members \/ wants[o]]
  /\ out' = <<>>
  /\ UNCHANGED <<members, tail, timer, dying>>

(* n elements of the ring from the tail t on *)
Elements(t, n) == [i \in 1 .. n |-> ring.buf[Wrap(t + i - 1)]]

(* LWS_CALLBACK_SERVER_WRITEABLE: n elements go out until the socket is    *)
(* choked, at least one if there is one.  The callback also comes without  *)
(* a request, after a partial send was drained.                            *)
Writeable(s, n) ==
  /\ s \in members \ dying
  /\ n <= Waiting(ring, tail[s])
  /\ n = 0 => Waiting(ring, tail[s]) = 0
  /\ out' = Elements(tail[s], n)
  /\ tail' = [tail EXCEPT ![s] = lws_ring_consume(ring, @, n)]
  /\ wants' = [wants EXCEPT ![s] = Waiting(ring, tail'[s]) > 0]
  /\ IF n > 0 /\ tail[s] = ring.oldest_tail
     THEN __mirror_update_worst_tail(members, tail', [timer EXCEPT ![s] = FALSE])
     ELSE UNCHANGED <<ring, rx_enabled, rx, timer>>
  /\ UNCHANGED <<members, dying>>

(* lws_write() fails after n elements were sent: return -1 at once, the    *)
(* oldest tail stays as it was                                             *)
WriteFails(s, n) ==
  /\ s \in members \ dying
  /\ n < Waiting(ring, tail[s])
  /\ out' = Elements(tail[s], n)
  /\ tail' = [tail EXCEPT ![s] = lws_ring_consume(ring, @, n)]
  /\ wants' = [wants EXCEPT ![s] = FALSE]
  /\ timer' = [timer EXCEPT ![s] = FALSE]
  /\ dying' = dying \cup {s}
  /\ UNCHANGED <<ring, members, rx_enabled, rx>>

(* the 3 s are over (timeout), or the peer goes away: lws closes the wsi *)
Timeout(s) ==
  /\ timer[s]
  /\ s \in members \ dying
  /\ dying' = dying \cup {s}
  /\ wants' = [wants EXCEPT ![s] = FALSE]
  /\ timer' = [timer EXCEPT ![s] = FALSE]
  /\ UNCHANGED <<ring, members, tail, rx_enabled, rx, out>>

PeerGone(s) ==
  /\ s \in members \ dying
  /\ dying' = dying \cup {s}
  /\ wants' = [wants EXCEPT ![s] = FALSE]
  /\ timer' = [timer EXCEPT ![s] = FALSE]
  /\ UNCHANGED <<ring, members, tail, rx_enabled, rx, out>>

(* LWS_CALLBACK_CLOSED: the last one takes the instance with it *)
Closed(s) ==
  /\ s \in dying
  /\ members' = members \ {s}
  /\ dying' = dying \ {s}
  /\ tail' = [tail EXCEPT ![s] = 0]
  /\ wants' = [wants EXCEPT ![s] = FALSE]
  /\ out' = <<>>
  /\ IF members' # {}
     THEN __mirror_update_worst_tail(members', tail, [timer EXCEPT ![s] = FALSE])
     ELSE /\ ring' = lws_ring_destroy(ring)
          /\ timer' = [timer EXCEPT ![s] = FALSE]
          /\ UNCHANGED <<rx_enabled, rx>>

Next ==
  \E s \in Session :
    \/ Established(s)
    \/ ReceiveDropped(s)
    \/ \E m \in Message : Receive(s, m)
    \/ \E n \in 0 .. Count - 1 : Writeable(s, n)
    \/ \E n \in 0 .. Count - 1 : WriteFails(s, n)
    \/ Timeout(s)
    \/ PeerGone(s)
    \/ Closed(s)

Spec == Init /\ [][Next]_vars

(* Timeouts come and CLOSED follows.  Only the sessions of Reading have a  *)
(* peer that always takes more; any other may stop reading for good.       *)
Fairness ==
  \A s \in Session :
    /\ WF_vars(Timeout(s))
    /\ WF_vars(Closed(s))
    /\ s \in Reading =>
         WF_vars(wants[s] /\ \E n \in 0 .. Count - 1 : Writeable(s, n))

FairSpec == Spec /\ Fairness

-----------------------------------------------------------------------------

(* Memory safety of the ring: exactly the slots from the oldest tail to    *)
(* the head hold a payload that is not freed, and every session's tail is  *)
(* among them, so no session meets the "NULL payload" branch of WRITEABLE  *)
(* and no payload is leaked.                                               *)
UnreadIsKept ==
  /\ \A x \in Slot : (ring.buf[x] # Empty) <=> (x \in Between(ring.oldest_tail, ring.head))
  /\ \A s \in members : tail[s] \in Between(ring.oldest_tail, ring.head) \cup {ring.head}

(* __mirror_update_worst_tail is skipped when the tail that moved was not  *)
(* the oldest, and after a failed write: room is still given back as far   *)
(* as the slowest session allows, unless a failed session is about to go.  *)
SpaceIsReclaimed ==
  \/ \E s \in members : tail[s] = ring.oldest_tail
  \/ members = {}
  \/ dying # {}

(* The two thresholds of the flow control: with room for RXFLOW_MAX the    *)
(* flow is on, with less than RXFLOW_MIN it is off, and while it is on     *)
(* nobody is left blocked.  So a message is dropped only if its session    *)
(* joined while the flow was off.                                          *)
FlowMatchesRoom ==
  members # {} =>
    /\ Free(ring) >= RXFLOW_MAX => rx_enabled
    /\ Free(ring) < RXFLOW_MIN => ~rx_enabled
    /\ rx_enabled => \A s \in members : rx[s]

(* The 3 s timeout only ever runs for a session that keeps the fifo from   *)
(* moving: it is at the oldest tail and has something to send.             *)
TimerOnlyForSlowest ==
  \A s \in members \ dying :
    timer[s] => tail[s] = ring.oldest_tail /\ Waiting(ring, tail[s]) > 0

(* The shared ring and its flow control are sound in every state: slots    *)
(* are freed neither early nor late, and the thresholds and the timeout    *)
(* go with the room and the slowest session.                               *)
RingIsSound ==
  TypeOK /\ UnreadIsKept /\ SpaceIsReclaimed /\ FlowMatchesRoom /\ TimerOnlyForSlowest

-----------------------------------------------------------------------------

(* what the ring holds from t to the head, oldest first *)
Contents(t) == Elements(t, Waiting(ring, t))

Queues == INSTANCE TailQueues WITH
  Reader <- Session,
  Capacity <- Count - 1,
  readers <- members,
  kept <- Contents(ring.oldest_tail),
  queue <- [s \in Session |-> IF s \in members THEN Contents(tail[s]) ELSE <<>>]

(* The ring with its many tails is a queue for each session: every message *)
(* that was accepted reaches every session that is there, in order and     *)
(* once, although the slots are shared, reused and freed by others.        *)
ImplementsQueues == Queues!Spec

(* a session that is at the oldest tail without the 3 s timeout *)
Unwatched(s) == tail[s] = ring.oldest_tail /\ ~timer[s]

(* Flow control does not stay off for good: it is resumed, or everybody    *)
(* leaves, unless a session that joined while it was off still sends, or   *)
(* the slowest has a peer that stopped reading and was never given the     *)
(* timeout, which is only set when the oldest tail moves.                  *)
FlowResumes ==
  ~rx_enabled ~> \/ rx_enabled
                 \/ members = {}
                 \/ \E s \in members : rx[s]
                 \/ \E s \in members \ Reading : Unwatched(s)
===========================================================================
