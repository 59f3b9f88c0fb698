-------------------------------- MODULE Mqtt --------------------------------
(***************************************************************************)
(* The mqtt client role: several streams that share one connection to a    *)
(* broker.                                                                 *)
(*                                                                         *)
(* The stream that made the connection becomes a child of it when CONNACK  *)
(* comes, others join.  Children publish, subscribe and unsubscribe from   *)
(* their WRITEABLE callback, one child a POLLOUT event; the connection     *)
(* keeps the packet ids, the topics that are subscribed with a count of    *)
(* their users, one PUBACK and one PINGREQ that wait to be sent, and a     *)
(* flag that a PUBLISH is partly sent.  Each child remembers one packet id *)
(* that it waits to be acknowledged.                                       *)
(*                                                                         *)
(* The network is a reliable FIFO each way.  A payload is sent in one or   *)
(* two parts (one in the middle would only ask for POLLOUT once more);     *)
(* lws_write() keeps what the socket does not take (module WsTx); a        *)
(* received PUBLISH is delivered in one step.                              *)
(***************************************************************************)
EXTENDS Integers, Sequences, FiniteSets, SequencesExt

CONSTANTS Children, None,
          First,        \* the stream that makes the connection
          TopicLists,   \* topics of one subscribe or unsubscribe, in order
          Topics,
          Behind,       \* what the bytes at &s[1] of a topic's entry may spell
          Patient,      \* a stream waits for its answer before it asks more
          MaxChildren,  \* LWS_MQTT_MAX_CHILDREN, 8
          RefMod,       \* 2^8, ref_count is a uint8_t
          MaxId,        \* packet ids that are followed
          MaxOwn,       \* entries on the list of a child
          MaxPubs,      \* messages the broker sends
          MaxWire       \* packets under way in one direction

ASSUME MqttAssumption ==
  /\ IsFiniteSet(Children) /\ First \in Children /\ None \notin Children
  /\ TopicLists \subseteq Seq(Topics)
  /\ Behind \in [Topics -> SUBSET (Topics \cup {None})] /\ \A t \in Topics : Behind[t] # {}
  /\ Patient \in BOOLEAN
  /\ {MaxChildren, RefMod, MaxWire} \subseteq Nat \ {0} /\ RefMod > 1
  /\ {MaxId, MaxOwn, MaxPubs} \subseteq Nat

VARIABLES
  phase,      \* "connack" (LRS_MQTTC_AWAIT_CONNACK), "up", "dead"
  list,       \* mux.child_list; before CONNACK the stream that connects and its queue
  st,         \* of a child: "new", "open" or "closed"
  req,        \* its mux.requested_POLLOUT
  nreq,       \* the one of the connection
  pollout,    \* POLLOUT is armed
  walking,    \* inside the loop of rops_handle_POLLOUT_mqtt
  inside,     \* inside_payload of a child, with the QoS of what it publishes
  ninside,    \* inside_payload of the connection
  unacked, insub, inunsub,   \* unacked_publish, inside_subscribe, inside_unsubscribe
  ack,        \* ack_pkt_id of a child
  timer,      \* sul_qos1_puback_wait is scheduled
  again,      \* the user was told to publish again
  kill,       \* LWS_TO_KILL_ASYNC is set on the child
  subs,       \* topics of the connection with ref_count, the newest first
  own,        \* subs_head of a child: the topics it ever asked for, the newest first
  mine,       \* topics its user asked for and did not give up
  robbed,     \* topics a close has taken a count from
  pktId,      \* pkt_id of the connection
  nack,       \* ack_pkt_id of the connection
  puback,     \* send_puback
  ping,       \* send_pingreq
  hup,        \* validity_hup
  tx, rx,     \* packets to and from the broker
  bsubs,      \* topics the broker has us subscribed to
  bopen,      \* whose PUBLISH the broker has a part of
  pubs,       \* messages the broker has sent
  due         \* ids of QoS1 messages we received and did not acknowledge

mux == <<list, st, req, inside, unacked, insub, inunsub, ack, timer, again, kill, own, mine>>
out == <<nreq, pollout, walking>>
conn == <<subs, robbed, pktId>>
broker == <<bsubs, bopen, pubs>>
mqttVars == <<phase, mux, out, ninside, conn, nack, puback, ping, hup, tx, rx, broker, due>>

No == [c \in Children |-> FALSE]

Packet(k, id, c, tops) == [k |-> k, id |-> id, from |-> c, tops |-> tops]

MqttInit ==
  /\ phase = "connack"
  /\ list = <<First>> /\ st = [c \in Children |-> IF c = First THEN "open" ELSE "new"]
  /\ inside = [c \in Children |-> "no"]
  /\ req = No /\ unacked = No /\ insub = No /\ inunsub = No
  /\ timer = No /\ again = No /\ kill = No
  /\ ack = [c \in Children |-> 0]
  /\ own = [c \in Children |-> <<>>] /\ mine = [c \in Children |-> {}] /\ robbed = {}
  /\ nreq = FALSE /\ pollout = FALSE /\ walking = FALSE /\ ninside = FALSE
  /\ subs = <<>> /\ pktId = 0 /\ nack = 0
  /\ puback = FALSE /\ ping = FALSE /\ hup = FALSE
  /\ tx = <<>> /\ rx = <<>>
  /\ bsubs = {} /\ bopen = None /\ pubs = 0 /\ due = {}

(* the service thread is free to take another event of an open connection *)
Up == phase = "up" /\ ~walking

Waits(c) == unacked[c] \/ insub[c] \/ inunsub[c]

-----------------------------------------------------------------------------
(* Requests for POLLOUT *)

(* the children of cs ask, outside the handler of POLLOUT *)
ChildrenAsk(cs) ==
  LET new == {c \in cs : ~req[c]} IN
  /\ req' = [c \in Children |-> req[c] \/ c \in new]
  /\ nreq' = (nreq \/ new # {})
  /\ pollout' = (pollout \/ new # {})

(* the connection asks for itself *)
rops_callback_on_writable_mqtt ==
  /\ nreq' = TRUE
  /\ pollout' = (pollout \/ ~nreq)

(* the same at the end of an event in which children asked as well *)
BothAsk(cs) ==
  LET new == {c \in cs : ~req[c]} IN
  /\ req' = [c \in Children |-> req[c] \/ c \in new]
  /\ nreq' = TRUE
  /\ pollout' = (pollout \/ ~nreq \/ new # {})

(* POLLOUT stays only if a child of the list still asks *)
lws_wsi_mux_action_pending_writeable_reqs ==
  pollout' = (\E i \in DOMAIN list' : req'[list'[i]])

(* Mutant: a child that was served stays where it is. *)
lws_wsi_mux_move_child_to_tail_Stays(i) == list

lws_wsi_mux_move_child_to_tail(i) == Append(RemoveAt(list, i), list[i])

-----------------------------------------------------------------------------
(* Closing *)

(* lws_mqtt_find_sub() finds the first entry with the topic *)
FoundIn(s, i) == \A j \in 1..(i - 1) : s[j].topic # s[i].topic

(* the list of a child is freed.  Each entry should take one from the      *)
(* count of its topic, but what is looked up in s, the topics of the       *)
(* connection, is the string at &s[1], 7 bytes into the name, or behind    *)
(* the end of a short one                                                  *)
rops_close_role_mqtt(c, s) ==
  \E read \in [DOMAIN own[c] -> Topics \cup {None}] :
    LET Hits(t) == {i \in DOMAIN own[c] : read[i] = t} IN
    /\ \A i \in DOMAIN own[c] : read[i] \in Behind[own[c][i]]
    /\ subs' = [i \in DOMAIN s |->
                  IF FoundIn(s, i) /\ Hits(s[i].topic) # {}
                  THEN [s[i] EXCEPT !.ref = (@ - Cardinality(Hits(s[i].topic))) % RefMod] ELSE s[i]]
    /\ robbed' = robbed \cup {t \in Topics : Hits(t) # {}}

(* a child goes away and leaves the connection to the others *)
CloseChild(c, l) ==
  /\ st' = [st EXCEPT ![c] = "closed"]
  /\ list' = RemoveAt(l, CHOOSE i \in DOMAIN l : l[i] = c)
  /\ req' = [req EXCEPT ![c] = FALSE]
  /\ inside' = [inside EXCEPT ![c] = "no"]
  /\ unacked' = [unacked EXCEPT ![c] = FALSE]
  /\ insub' = [insub EXCEPT ![c] = FALSE]
  /\ inunsub' = [inunsub EXCEPT ![c] = FALSE]
  /\ timer' = [timer EXCEPT ![c] = FALSE]
  /\ again' = [again EXCEPT ![c] = FALSE]
  /\ kill' = [kill EXCEPT ![c] = FALSE]
  /\ own' = [own EXCEPT ![c] = <<>>]
  /\ mine' = [mine EXCEPT ![c] = {}]
  /\ UNCHANGED ack

(* the connection closes with all its children *)
lws_close_free_wsi ==
  /\ phase' = "dead"
  /\ list' = <<>>
  /\ st' = [c \in Children |-> IF st[c] = "open" THEN "closed" ELSE st[c]]
  /\ inside' = [c \in Children |-> "no"]
  /\ req' = No /\ unacked' = No /\ insub' = No /\ inunsub' = No
  /\ timer' = No /\ again' = No /\ kill' = No
  /\ own' = [c \in Children |-> <<>>] /\ mine' = [c \in Children |-> {}]
  /\ nreq' = FALSE /\ pollout' = FALSE /\ walking' = FALSE /\ ninside' = FALSE
  /\ puback' = FALSE /\ ping' = FALSE /\ hup' = FALSE
  /\ subs' = <<>> /\ robbed' = {} /\ nack' = 0
  /\ tx' = <<>> /\ rx' = <<>>
  /\ bsubs' = {} /\ bopen' = None /\ due' = {}
  /\ UNCHANGED <<ack, pktId, pubs>>

-----------------------------------------------------------------------------
(* What a child does in its WRITEABLE callback *)

Qos(q) == IF q = 0 THEN "q0" ELSE "q1"

(* the last part of a PUBLISH is written: QoS0 is acknowledged on the spot, *)
(* QoS1 waits for PUBACK under a timer                                      *)
PublishDone(c, q) ==
  /\ inside' = [inside EXCEPT ![c] = "no"]
  /\ ninside' = FALSE
  /\ unacked' = IF q = "q1" THEN [unacked EXCEPT ![c] = TRUE] ELSE unacked
  /\ timer' = IF q = "q1" THEN [timer EXCEPT ![c] = TRUE] ELSE timer

PublishPart(c, q) ==
  /\ inside' = [inside EXCEPT ![c] = q]
  /\ ninside' = TRUE
  /\ UNCHANGED <<unacked, timer>>

(* a new PUBLISH, with all of its payload or the first part of it *)
lws_mqtt_client_send_publish(c, asks) ==
  /\ inside[c] = "no"
  /\ Patient => ~Waits(c) \/ again[c]
  /\ \E q \in {0, 1}, last \in BOOLEAN :
       /\ pktId + q <= MaxId
       /\ pktId' = pktId + q
       /\ ack' = IF q = 1 THEN [ack EXCEPT ![c] = pktId'] ELSE ack
       /\ tx' = Append(tx, Packet(IF last THEN "WHOLE" ELSE "HEAD", IF q = 1 THEN pktId' ELSE 0, c, {}))
       /\ IF last THEN PublishDone(c, Qos(q)) ELSE asks /\ PublishPart(c, Qos(q))
  /\ again' = [again EXCEPT ![c] = FALSE]
  /\ UNCHANGED <<insub, inunsub, own, mine, subs, robbed>>

(* the rest of it *)
PublishRest(c) ==
  /\ inside[c] # "no"
  /\ tx' = Append(tx, Packet("TAIL", IF inside[c] = "q1" THEN ack[c] ELSE 0, c, {}))
  /\ PublishDone(c, inside[c])
  /\ UNCHANGED <<again, ack, insub, inunsub, own, mine, conn>>

IsFound(i) == FoundIn(subs, i)

(* Mutant: a topic on the list is taken as subscribed whatever its ref_count. *)
InUse_AnyRef(t) == \E i \in DOMAIN subs : subs[i].topic = t

InUse(t) == \E i \in DOMAIN subs : subs[i].topic = t /\ IsFound(i) /\ subs[i].ref # 0

Counted(tops, d) ==
  [i \in DOMAIN subs |->
     IF subs[i].topic \in tops /\ IsFound(i)
     THEN [subs[i] EXCEPT !.ref = (@ + d + RefMod) % RefMod] ELSE subs[i]]

NthLast(places, n) == CHOOSE i \in places : Cardinality({j \in places : j >= i}) = n

(* each topic of l that is new comes to the head of the list in its turn *)
lws_mqtt_create_sub(l, new) ==
  [n \in 1..Cardinality(new) |-> [topic |-> l[NthLast(new, n)], ref |-> 1]]

(* topics the connection has are counted, the others asked of the broker; *)
(* if it has all of them the stream is told SUBSCRIBED at once            *)
lws_mqtt_client_send_subcribe(c) ==
  /\ inside[c] = "no"
  /\ Patient => ~Waits(c)
  /\ \E l \in TopicLists :
       LET new == {i \in DOMAIN l : ~InUse(l[i])}
           fresh == {l[i] : i \in new}
       IN
       /\ ToSet(l) \cap mine[c] = {}
       /\ Len(l) + Len(own[c]) <= MaxOwn
       /\ own' = [own EXCEPT ![c] = Reverse(l) \o @]
       /\ mine' = [mine EXCEPT ![c] = @ \cup ToSet(l)]
       /\ subs' = lws_mqtt_create_sub(l, new) \o Counted(ToSet(l) \ fresh, 1)
       /\ IF new = {} THEN UNCHANGED <<pktId, ack, tx, insub>>
          ELSE /\ pktId < MaxId
               /\ pktId' = pktId + 1
               /\ ack' = [ack EXCEPT ![c] = pktId']
               /\ tx' = Append(tx, Packet("SUB", pktId', c, fresh))
               /\ insub' = [insub EXCEPT ![c] = TRUE]
  /\ UNCHANGED <<inside, ninside, unacked, inunsub, timer, again, robbed>>

(* topics without another user are given up at the broker; the list of the *)
(* child keeps them.  The program stops where assert(mysub) fails          *)
lws_mqtt_client_send_unsubcribe(c) ==
  /\ inside[c] = "no"
  /\ Patient => ~Waits(c)
  /\ \E l \in TopicLists :
       LET orphans == {t \in ToSet(l) : \E i \in DOMAIN subs : subs[i].topic = t /\ IsFound(i) /\ subs[i].ref = 1} IN
       /\ ToSet(l) \subseteq mine[c] \cap {subs[i].topic : i \in DOMAIN subs}
       /\ mine' = [mine EXCEPT ![c] = @ \ ToSet(l)]
       /\ subs' = Counted(ToSet(l), -1)
       /\ IF orphans = {} THEN UNCHANGED <<pktId, ack, tx, inunsub>>
          ELSE /\ pktId < MaxId
               /\ pktId' = pktId + 1
               /\ ack' = [ack EXCEPT ![c] = pktId']
               /\ tx' = Append(tx, Packet("UNSUB", pktId', c, orphans))
               /\ inunsub' = [inunsub EXCEPT ![c] = TRUE]
  /\ UNCHANGED <<inside, ninside, unacked, insub, timer, again, own, robbed>>

(* a user that has nothing to send does not ask again *)
UserIdles(asks) ==
  /\ ~asks
  /\ UNCHANGED <<inside, ninside, unacked, insub, inunsub, ack, timer, again, own, mine, conn, tx>>

-----------------------------------------------------------------------------
(* POLLOUT *)

(* nreq was cleared when the handler was entered *)
KeptReq == walking /\ nreq

(* the callback of child c returns 0, or the child is closed and the walk  *)
(* starts again at the head of the list                                    *)
lws_callback_as_writeable(c, l) ==
  \E asks \in BOOLEAN :
     /\ nreq' = (KeptReq \/ asks)
     /\ UNCHANGED <<puback, nack>>
     /\ \/ /\ \/ lws_mqtt_client_send_publish(c, asks)
              \/ PublishRest(c)
              \/ lws_mqtt_client_send_subcribe(c)
              \/ lws_mqtt_client_send_unsubcribe(c)
              \/ UserIdles(asks)
           /\ req' = [req EXCEPT ![c] = asks]
           /\ list' = l
           /\ walking' = FALSE
           /\ lws_wsi_mux_action_pending_writeable_reqs
           /\ UNCHANGED <<st, kill>>
        \/ /\ CloseChild(c, l)
           /\ rops_close_role_mqtt(c, subs)
           /\ walking' = TRUE
           /\ UNCHANGED <<pollout, ninside, pktId, tx>>

(* the PUBACK goes first, the child that was chosen asks again *)
SendPuback(c, l) ==
  /\ tx' = Append(tx, Packet("PUBACK", nack, None, {}))
  /\ puback' = FALSE
  /\ list' = l
  /\ nreq' = KeptReq
  /\ walking' = TRUE
  /\ UNCHANGED <<st, req, inside, unacked, insub, inunsub, ack, timer, again, kill, own, mine,
                 pollout, ninside, conn, nack>>

(* children that ask; in the middle of a PUBLISH only the one it is of *)
Ready == {i \in DOMAIN list : req[list[i]] /\ (ninside => inside[list[i]] # "no")}

EndWalk ==
  /\ nreq' = KeptReq
  /\ walking' = FALSE
  /\ UNCHANGED <<mux, ninside, conn, nack, puback, tx>>
  /\ lws_wsi_mux_action_pending_writeable_reqs

ServeChild ==
  IF Ready = {} THEN EndWalk
  ELSE LET i == Min(Ready)
           l == lws_wsi_mux_move_child_to_tail(i)
       IN IF puback /\ ~ninside THEN SendPuback(list[i], l)
          ELSE lws_callback_as_writeable(list[i], l)

SendPingreq ==
  /\ ping' = FALSE
  /\ tx' = Append(tx, Packet("PING", 0, None, {}))
  /\ UNCHANGED <<mux, out, ninside, conn, nack, puback>>

rops_handle_POLLOUT_mqtt ==
  /\ Up /\ pollout /\ Len(tx) < MaxWire
  /\ IF ping /\ ~ninside THEN SendPingreq ELSE ServeChild /\ UNCHANGED ping
  /\ UNCHANGED <<phase, hup, rx, broker, due>>

(* the walk goes on, or the socket takes no more *)
WalkOn ==
  /\ walking
  /\ (Len(tx) < MaxWire /\ ServeChild) \/ EndWalk
  /\ UNCHANGED <<phase, ping, hup, rx, broker, due>>

-----------------------------------------------------------------------------
(* Packets from the broker *)

(* Mutant: the id of an answer is not compared. *)
Asked_AnyId(flag, id) == {i \in DOMAIN list : flag[list[i]]}

(* the children that may be meant by an answer with this id *)
Asked(flag, id) == {i \in DOMAIN list : flag[list[i]] /\ ack[list[i]] = id}

(* the callback for an answer returns 0, or closes the child *)
Answered(c) ==
  /\ \E cs \in SUBSET {c} : ChildrenAsk(cs)
  /\ UNCHANGED <<list, st, inside, kill, own, mine>>

AnswerCloses(c) ==
  /\ CloseChild(c, list)
  /\ UNCHANGED <<nreq, pollout>>

RxPuback(id) ==
  IF Asked(unacked, id) = {} THEN lws_close_free_wsi
  ELSE LET c == list[Min(Asked(unacked, id))] IN
       /\ \/ /\ Answered(c)
             /\ unacked' = [unacked EXCEPT ![c] = FALSE]
             /\ timer' = [timer EXCEPT ![c] = FALSE]
             /\ again' = [again EXCEPT ![c] = FALSE]
             /\ UNCHANGED <<insub, inunsub, ack, subs, robbed>>
          \/ AnswerCloses(c) /\ rops_close_role_mqtt(c, subs)
       /\ hup' = FALSE
       /\ UNCHANGED <<phase, walking, ninside, pktId, nack, puback, ping, tx, broker, due>>

(* a SUBSCRIBED callback that fails closes the connection *)
RxSuback(id) ==
  \/ lws_close_free_wsi
  \/ /\ Asked(insub, id) # {}
     /\ LET c == list[Min(Asked(insub, id))] IN
        /\ Answered(c)
        /\ insub' = [insub EXCEPT ![c] = FALSE]
     /\ nack' = id
     /\ hup' = FALSE
     /\ UNCHANGED <<unacked, inunsub, ack, timer, again, phase, walking, ninside, conn, puback, ping, tx, broker, due>>

(* the first entry without users goes, unless it is the head *)
Unused == {i \in DOMAIN subs : i > 1 /\ subs[i].ref = 0}

lws_mqtt_client_remove_subs == IF Unused = {} THEN subs ELSE RemoveAt(subs, Min(Unused))

RxUnsuback(id) ==
  IF Asked(inunsub, id) = {} THEN lws_close_free_wsi
  ELSE LET c == list[Min(Asked(inunsub, id))] IN
       /\ \/ /\ Answered(c)
             /\ inunsub' = [inunsub EXCEPT ![c] = FALSE]
             /\ subs' = lws_mqtt_client_remove_subs
             /\ UNCHANGED <<unacked, insub, ack, timer, again, robbed>>
          \/ AnswerCloses(c) /\ rops_close_role_mqtt(c, lws_mqtt_client_remove_subs)
       /\ nack' = id
       /\ hup' = FALSE
       /\ UNCHANGED <<phase, walking, ninside, pktId, puback, ping, tx, broker, due>>

RxPingresp ==
  /\ hup' = FALSE
  /\ UNCHANGED <<phase, mux, out, ninside, conn, nack, puback, ping, tx, broker, due>>

(* the children whose list has the topic *)
Listeners(tops) == {i \in DOMAIN list : tops \cap ToSet(own[list[i]]) # {}}

(* each of them gets the message; QoS1 asks for POLLOUT to acknowledge it *)
RxPublish(id, tops) ==
  /\ \E heard \in SUBSET Listeners(tops) :
        LET cs == {list[i] : i \in heard} IN
        IF id = 0 THEN ChildrenAsk(cs) /\ UNCHANGED <<nack, puback, due>>
        ELSE /\ BothAsk(cs)
             /\ nack' = id
             /\ puback' = TRUE
             /\ due' = due \cup {id}
  /\ UNCHANGED <<phase, list, st, inside, unacked, insub, inunsub, ack, timer, again, kill, own, mine,
                 walking, ninside, conn, ping, hup, tx, broker>>

(* the callback of one of them fails: those behind it get nothing, nothing *)
(* is acknowledged, and the rest of what was read, up to packet n, is lost *)
RxPublishFails(id, tops) ==
  /\ \E at \in Listeners(tops) : \E heard \in SUBSET (Listeners(tops) \cap 1..at) :
        ChildrenAsk({list[i] : i \in heard})
  /\ nack' = IF id = 0 THEN nack ELSE id
  /\ \E n \in 1..Len(rx) : rx' = SubSeq(rx, n + 1, Len(rx))
  /\ UNCHANGED <<phase, list, st, inside, unacked, insub, inunsub, ack, timer, again, kill, own, mine,
                 walking, ninside, conn, puback, ping, hup, tx, broker, due>>

_lws_mqtt_rx_parser ==
  /\ Up /\ rx # <<>>
  /\ LET p == Head(rx) IN
     \/ /\ CASE p.k = "PUBACK"   -> RxPuback(p.id)
            [] p.k = "SUBACK"   -> RxSuback(p.id)
            [] p.k = "UNSUBACK" -> RxUnsuback(p.id)
            [] p.k = "PINGRESP" -> RxPingresp
            [] OTHER            -> RxPublish(p.id, p.tops)
        /\ phase' = "up" => rx' = Tail(rx)
     \/ p.k = "PUBLISH" /\ RxPublishFails(p.id, p.tops)

(* the stream that connected becomes a child, those that queued follow *)
RxConnack ==
  /\ phase = "connack"
  /\ phase' = "up"
  /\ list' = Reverse(list)
  /\ \E asks \in BOOLEAN :
       /\ req' = [c \in Children |-> st[c] = "open" /\ (c = list[1] => asks)]
       /\ nreq' = (\E c \in Children : req'[c])
       /\ pollout' = nreq'
  /\ UNCHANGED <<st, inside, unacked, insub, inunsub, ack, timer, again, kill, own, mine,
                 walking, ninside, conn, nack, puback, ping, hup, tx, rx, broker, due>>

-----------------------------------------------------------------------------
(* Users, timers and the end of the connection *)

(* another stream to the same broker is asked for *)
lws_wsi_mqtt_adopt(c) ==
  /\ st[c] = "new" /\ phase # "dead" /\ ~walking
  /\ Len(list) < MaxChildren
  /\ st' = [st EXCEPT ![c] = "open"]
  /\ \/ /\ phase = "up"
        /\ list' = <<c>> \o list
        /\ ChildrenAsk({c})
     \/ /\ phase = "connack"
        /\ list' = Append(list, c)
        /\ UNCHANGED <<req, nreq, pollout>>
  /\ UNCHANGED <<phase, inside, unacked, insub, inunsub, ack, timer, again, kill, own, mine,
                 walking, ninside, conn, nack, puback, ping, hup, tx, rx, broker, due>>

UserAsks(c) ==
  /\ Up /\ st[c] = "open" /\ ~req[c]
  /\ ChildrenAsk({c})
  /\ UNCHANGED <<phase, list, st, inside, unacked, insub, inunsub, ack, timer, again, kill, own, mine,
                 walking, ninside, conn, nack, puback, ping, hup, tx, rx, broker, due>>

(* no PUBACK for 3 s: the user is asked to publish again, or gives up *)
lws_mqtt_publish_resend(c) ==
  /\ Up /\ timer[c]
  /\ timer' = [timer EXCEPT ![c] = FALSE]
  /\ \/ /\ again' = [again EXCEPT ![c] = TRUE]
        /\ ChildrenAsk({c})
        /\ UNCHANGED kill
     \/ /\ kill' = [kill EXCEPT ![c] = TRUE]
        /\ UNCHANGED <<again, req, nreq, pollout>>
  /\ UNCHANGED <<phase, list, st, inside, unacked, insub, inunsub, ack, own, mine,
                 walking, ninside, conn, nack, puback, ping, hup, tx, rx, broker, due>>

KillAsync(c) ==
  /\ Up /\ kill[c]
  /\ CloseChild(c, list)
  /\ rops_close_role_mqtt(c, subs)
  /\ UNCHANGED <<phase, out, ninside, pktId, nack, puback, ping, hup, tx, rx, broker, due>>

(* no answer came for 300 s: ask for a sign of life, and hang up 10 s later *)
rops_issue_keepalive_mqtt ==
  /\ Up /\ ~hup
  /\ hup' = TRUE
  /\ ping' = TRUE
  /\ rops_callback_on_writable_mqtt
  /\ UNCHANGED <<phase, mux, walking, ninside, conn, nack, puback, tx, rx, broker, due>>

lws_validity_cb == Up /\ hup /\ lws_close_free_wsi

(* CONNACK does not come or refuses us *)
ConnectFails == phase = "connack" /\ lws_close_free_wsi

-----------------------------------------------------------------------------
(* The broker *)

Reply(p) ==
  CASE p.k \in {"WHOLE", "TAIL"} /\ p.id # 0 -> <<Packet("PUBACK", p.id, p.from, {})>>
    [] p.k = "SUB"   -> <<Packet("SUBACK", p.id, p.from, {})>>
    [] p.k = "UNSUB" -> <<Packet("UNSUBACK", p.id, p.from, {})>>
    [] p.k = "PING"  -> <<Packet("PINGRESP", 0, None, {})>>
    [] OTHER         -> <<>>

BrokerReads ==
  /\ phase = "up" /\ tx # <<>> /\ Len(rx) < MaxWire
  /\ LET p == Head(tx) IN
     /\ rx' = rx \o Reply(p)
     /\ bsubs' = CASE p.k = "SUB" -> bsubs \cup p.tops [] p.k = "UNSUB" -> bsubs \ p.tops [] OTHER -> bsubs
     /\ bopen' = CASE p.k = "HEAD" -> p.from [] p.k = "TAIL" -> None [] OTHER -> bopen
     /\ due' = IF p.k = "PUBACK" THEN due \ {p.id} ELSE due
  /\ tx' = Tail(tx)
  /\ UNCHANGED <<phase, mux, out, ninside, conn, nack, puback, ping, hup, pubs>>

(* a message for a topic, with QoS1 it has an id of the broker's own *)
BrokerPublishes ==
  /\ phase = "up" /\ pubs < MaxPubs /\ Len(rx) < MaxWire
  /\ pubs' = pubs + 1
  /\ \E t \in bsubs, q \in {0, 1} : rx' = Append(rx, Packet("PUBLISH", q * (MaxId + pubs'), None, {t}))
  /\ UNCHANGED <<phase, mux, out, ninside, conn, nack, puback, ping, hup, tx, bsubs, bopen, due>>

-----------------------------------------------------------------------------
MqttNext ==
  \/ RxConnack \/ ConnectFails
  \/ rops_handle_POLLOUT_mqtt \/ WalkOn \/ _lws_mqtt_rx_parser
  \/ rops_issue_keepalive_mqtt \/ lws_validity_cb
  \/ BrokerReads \/ BrokerPublishes
  \/ \E c \in Children : lws_wsi_mqtt_adopt(c) \/ UserAsks(c) \/ lws_mqtt_publish_resend(c) \/ KillAsync(c)

MqttSpec == MqttInit /\ [][MqttNext]_mqttVars

ChildrensTurn == (ping => ninside) /\ rops_handle_POLLOUT_mqtt

(* no answer is on its way, so the validity of the connection runs out *)
Quiet == tx = <<>> /\ rx = <<>> /\ rops_issue_keepalive_mqtt

(* events are served, timers fire, the broker reads what is sent; the      *)
(* keepalive is minutes apart, so not every POLLOUT is spent on a PINGREQ  *)
MqttFairSpec ==
  /\ MqttSpec
  /\ WF_mqttVars(rops_handle_POLLOUT_mqtt)
  /\ []<><<rops_handle_POLLOUT_mqtt>>_mqttVars => []<><<ChildrensTurn>>_mqttVars
  /\ WF_mqttVars(WalkOn) /\ WF_mqttVars(_lws_mqtt_rx_parser)
  /\ WF_mqttVars(Quiet) /\ WF_mqttVars(lws_validity_cb)
  /\ WF_mqttVars(BrokerReads)

-----------------------------------------------------------------------------
(* Properties *)

(* The state of the connection, its children and the two directions of the *)
(* wire keep their types; ref_count stays in its eight bits.               *)
MqttTypeOK ==
  /\ phase \in {"connack", "up", "dead"}
  /\ list \in Seq(Children)
  /\ st \in [Children -> {"new", "open", "closed"}]
  /\ {req, unacked, insub, inunsub, timer, again, kill} \subseteq [Children -> BOOLEAN]
  /\ inside \in [Children -> {"no", "q0", "q1"}]
  /\ ack \in [Children -> 0..MaxId]
  /\ {nreq, pollout, walking, ninside, puback, ping, hup} \subseteq BOOLEAN
  /\ \A i \in DOMAIN subs : subs[i].topic \in Topics /\ subs[i].ref \in 0..(RefMod - 1)
  /\ own \in [Children -> Seq(Topics)] /\ mine \in [Children -> SUBSET Topics]
  /\ robbed \subseteq UNION {Behind[t] : t \in Topics}
  /\ pktId \in 0..MaxId /\ pubs \in 0..MaxPubs
  /\ bsubs \subseteq Topics /\ bopen \in Children \cup {None}
  /\ Len(tx) <= MaxWire /\ Len(rx) <= MaxWire

(* The parts of a PUBLISH follow each other on the wire: no packet of       *)
(* another child, no PUBACK and no PINGREQ comes between them, also when    *)
(* the child that publishes closes half way.                                *)
PacketsWhole ==
  \A i \in DOMAIN tx :
    LET open == IF i = 1 THEN bopen
                ELSE IF tx[i - 1].k = "HEAD" THEN tx[i - 1].from ELSE None
    IN IF open = None THEN tx[i].k # "TAIL"
       ELSE tx[i].k = "TAIL" /\ tx[i].from = open

(* As long as a child waits for its WRITEABLE callback the connection has  *)
(* POLLOUT armed, whoever was served, closed or acknowledged in between.    *)
WaitingIsArmed == \A i \in DOMAIN list : phase = "up" /\ req[list[i]] => pollout

(* A packet under way that asks for an answer, and the answer, belong to a *)
(* child that waits for just this id, unless that child has closed or has  *)
(* published again under a newer id: any other answer closes the connection *)
(* of everybody.                                                            *)
AnswersAreExpected ==
  \A p \in ToSet(tx) \cup ToSet(rx) :
    LET c == p.from IN
    /\ p.k \in {"SUB", "SUBACK"} /\ st[c] = "open" => insub[c] /\ ack[c] = p.id
    /\ p.k \in {"UNSUB", "UNSUBACK"} /\ st[c] = "open" => inunsub[c] /\ ack[c] = p.id
    /\ p.k \in {"WHOLE", "TAIL", "PUBACK"} /\ c # None /\ p.id # 0 /\ st[c] = "open" =>
         (unacked[c] /\ ack[c] = p.id) \/ p.id < ack[c]

(* The shared connection is sound: packets are whole, answers find who     *)
(* waits for them, and who waits to write has POLLOUT.                     *)
WireIsSound == MqttTypeOK /\ PacketsWhole /\ WaitingIsArmed /\ AnswersAreExpected

(* what the broker will have us subscribed to when it has read tx *)
Subscribed(t) ==
  LET about == {i \in DOMAIN tx : tx[i].k \in {"SUB", "UNSUB"} /\ t \in tx[i].tops}
  IN IF about = {} THEN t \in bsubs ELSE tx[Max(about)].k = "SUB"

(* A topic that a stream asked for and did not give up stays subscribed at *)
(* the broker and counted on the connection, where giving it up must find  *)
(* it, whatever the other streams subscribe, give up or leave behind when  *)
(* they close, unless the close of one took a count from this very topic   *)
(* because its name stands in memory where a topic of its own ends.        *)
SubscriberIsServed == \A c \in Children : \A t \in mine[c] \ robbed : Subscribed(t) /\ InUse(t)

(* what a callback that asks for another one leaves *)
Turn(c) ==
  \/ Len(tx') > Len(tx) /\ tx'[Len(tx')].from = c
  \/ mine'[c] # mine[c]

(* A child does not wait for its WRITEABLE callback for ever: the others   *)
(* cannot starve it, and when one closes in the middle of a PUBLISH, which  *)
(* nobody then can end, the keepalive ends the connection.                  *)
EveryoneIsServed == \A c \in Children : []<>(~req[c]) \/ []<><<Turn(c)>>_mqttVars

(* A QoS1 message that is received is acknowledged, or the connection ends. *)
PubackIsSent == \A id \in (MaxId + 1)..(MaxId + MaxPubs) : id \in due ~> id \notin due
=============================================================================
