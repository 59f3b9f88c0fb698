--------------------------------- MODULE H2 ---------------------------------
(***************************************************************************)
(* An http/2 connection of the server: the frames of a peer, the streams,  *)
(* which share one socket in turns, the frames of the protocol that go     *)
(* first, and the windows of both directions.                              *)
(*                                                                         *)
(* The peer keeps to RFC7540.  What the server sends is with the peer at   *)
(* once, what the peer sends is in flight: frames that cross are the ones  *)
(* in flight.  A request is a "get", answered with a file, or a "post"     *)
(* with a content-length, answered with headers after the body.  Lengths   *)
(* are counted in units; the preface is over.  Everything is done by the   *)
(* service thread, in the order POLLOUT, then POLLIN.                      *)
(***************************************************************************)
EXTENDS Integers, Sequences, FiniteSets, FiniteSetsExt, Functions

CONSTANTS Sids,         \* streams the peer may open
          Kinds,        \* what it asks for
          FileLen, BodyLen,
          Default,      \* initial window of a stream before any SETTINGS
          Windows,      \* values the peer gives to it later
          ConnWindow,   \* what the peer first lets us send on all streams
          HighWater,    \* the peer gives credit while less than this is left
          OurCredit,    \* credit the peer gets for a new stream
          MaxWindow,    \* 2^31 - 1
          Wide,         \* 2^64
          MaxFlight,    \* frames of the peer in flight
          MaxRare,      \* SETTINGS, resets, PINGs and streams that are cut short
          Split         \* a frame may come in two reads

ASSUME H2Assumption ==
  /\ Sids \subseteq Nat \ {0} /\ IsFiniteSet(Sids)
  /\ Kinds \subseteq {"get", "post"}
  /\ {FileLen, BodyLen, ConnWindow, HighWater, OurCredit, MaxFlight} \subseteq Nat \ {0}
  /\ Windows \subseteq 0 .. MaxWindow /\ Default \in 0 .. MaxWindow
  /\ {ConnWindow, HighWater} \subseteq 0 .. MaxWindow
  /\ MaxWindow \in Nat /\ Wide \in Nat /\ Wide > 4 * (MaxWindow + 1)
  /\ MaxRare \in Nat
  /\ Split \in BOOLEAN

VARIABLES
  conn,     \* "open", "closed"
  flight,   \* frames of the peer in flight
  part,     \* the frame whose header has been parsed, at most one
  pps,      \* protocol frames to send, oldest first
  kids,     \* the list of children, in order
  st,       \* the children there are
  tx,       \* nwsi->txc.tx_cr
  pollout,  \* POLLOUT is asked for on the socket
  turn,     \* of perform_user_POLLOUT: "no", "first", "again", "end"
  opened,   \* highest_sid_opened
  init,     \* peer_set INITIAL_WINDOW_SIZE
  ps,       \* the peer's streams
  pwin,     \* what the peer still accepts on all streams
  pcred,    \* what the peer may still send on all streams
  pinit,    \* initial window the peer knows we know
  offer,    \* its SETTINGS that are not acknowledged, at most one
  over,     \* the peer got more than it accepts
  spent     \* rare events so far

server == <<part, pps, kids, st, tx, pollout, turn, opened, init>>
peer == <<ps, pwin, pcred, pinit, offer, over, spent>>
vars == <<conn, flight, server, peer>>

ChildRec == [k : Kinds, h2 : {"open", "half_remote", "closed"},
             lrs : {"deferring", "file", "body", "est"}, req : BOOLEAN, tx : Int,
             left : Nat, buf : Nat, est : Int]

PeerRec == [s : {"idle", "open", "cut", "over"}, body : Nat, win : Int, cred : Int]
Types == {"headers", "data", "settings", "update", "ping", "rst"}
Frame == [t : Types, sid : Sids \cup {0}, n : Nat, k : Kinds \cup {""}]
PpsRec == [t : {"ack", "pong", "goaway", "rst", "update"}, sid : Sids \cup {0}, n : Nat]

Init ==
  /\ conn = "open"
  /\ flight = <<>> /\ part = <<>> /\ pps = <<>> /\ kids = <<>>
  /\ st = [s \in {} |-> {}]
  /\ tx = ConnWindow /\ pwin = ConnWindow
  /\ pollout = FALSE /\ turn = "no" /\ opened = 0
  /\ init = Default /\ pinit = Default
  /\ ps = [s \in Sids |-> [s |-> "idle", body |-> 0, win |-> 0, cred |-> 0]]
  /\ pcred = ConnWindow
  /\ offer = <<>> /\ over = FALSE
  /\ spent = 0

Children == DOMAIN st

-----------------------------------------------------------------------------
(* The peer.  To it a stream that the server cut short is still open. *)

Open(s) == ps[s].s \in {"open", "cut"}

Rarely == spent < MaxRare /\ spent' = spent + 1

Send(t, sid, n, k) ==
  /\ conn = "open"
  /\ Len(flight) < MaxFlight
  /\ flight' = Append(flight, [t |-> t, sid |-> sid, n |-> n, k |-> k])
  /\ UNCHANGED <<conn, server>>

Idle == {s \in Sids : ps[s].s = "idle"}

PeerOpens(s, k) ==
  /\ s \in Idle /\ s = Min(Idle)
  /\ Send("headers", s, 0, k)
  /\ ps' = [ps EXCEPT ![s] = [s |-> "open", body |-> IF k = "post" THEN BodyLen ELSE 0,
                              win |-> pinit, cred |-> 0]]
  /\ UNCHANGED <<pwin, pcred, pinit, offer, over, spent>>

(* it wants all of the file, so it gives more credit when little is left *)
PeerCredits(s) ==
  /\ Open(s) /\ ps[s].win < HighWater
  /\ Send("update", s, 1, "")
  /\ ps' = [ps EXCEPT ![s].win = @ + 1]
  /\ UNCHANGED <<pwin, pcred, pinit, offer, over, spent>>

PeerCreditsAll ==
  /\ pwin < HighWater
  /\ Send("update", 0, 1, "")
  /\ pwin' = pwin + 1
  /\ UNCHANGED <<ps, pcred, pinit, offer, over, spent>>

PeerSettings(v) ==
  /\ offer = <<>> /\ v # pinit
  /\ Rarely
  /\ Send("settings", 0, v, "")
  /\ offer' = <<v>>
  /\ UNCHANGED <<ps, pwin, pcred, pinit, over>>

PeerUploads(s) ==
  /\ Open(s) /\ ps[s].body > 0 /\ ps[s].cred > 0 /\ pcred > 0
  /\ Send("data", s, 1, "")
  /\ ps' = [ps EXCEPT ![s].body = @ - 1, ![s].cred = @ - 1]
  /\ pcred' = pcred - 1
  /\ UNCHANGED <<pwin, pinit, offer, over, spent>>

PeerResets(s) ==
  /\ Open(s) /\ Rarely
  /\ Send("rst", s, 0, "")
  /\ ps' = [ps EXCEPT ![s].s = "over"]
  /\ UNCHANGED <<pwin, pcred, pinit, offer, over>>

PeerPings ==
  /\ Rarely
  /\ Send("ping", 0, 0, "")
  /\ UNCHANGED <<ps, pwin, pcred, pinit, offer, over>>

PeerHelps == PeerCreditsAll \/ \E s \in Sids : PeerCredits(s) \/ PeerUploads(s)

PeerActs ==
  \/ \E s \in Sids : PeerResets(s) \/ \E k \in Kinds : PeerOpens(s, k)
  \/ PeerHelps \/ PeerPings
  \/ \E v \in Windows : PeerSettings(v)

-----------------------------------------------------------------------------
(* lws_h2_parser(), a frame at a time *)

Queue(t, sid, n) == <<[t |-> t, sid |-> sid, n |-> n]>>

(* lws_callback_on_writable() of the children in S *)
lws_callback_on_writable(children, S) ==
  [s \in DOMAIN children |-> IF s \in S THEN [children[s] EXCEPT !.req = TRUE] ELSE children[s]]

(* a stream's credit, and that of the whole connection *)
lws_h2_update_peer_txcredit(sid, n) == Queue("update", sid, n) \o Queue("update", 0, n)

Reading(t) ==
  /\ conn = "open" /\ turn = "no"
  /\ part # <<>> /\ part[1].t = t
  /\ part' = <<>>
  /\ UNCHANGED <<conn, flight, peer>>

(* The header of a frame.  SETTINGS are acknowledged when only this much   *)
(* of them has come.                                                       *)
lws_h2_parse_frame_header ==
  /\ conn = "open" /\ turn = "no"
  /\ part = <<>> /\ flight # <<>>
  /\ part' = <<Head(flight)>>
  /\ flight' = Tail(flight)
  /\ IF Head(flight).t = "settings"
     THEN pps' = pps \o Queue("ack", 0, 0) /\ pollout' = TRUE
     ELSE UNCHANGED <<pps, pollout>>
  /\ UNCHANGED <<conn, kids, st, tx, turn, opened, init, peer>>

(* A new stream, which goes to the head of the list; the answer has to     *)
(* wait until the socket is writable                                       *)
Headers ==
  /\ Reading("headers")
  /\ LET s == part[1].sid
         child == [k |-> part[1].k, h2 |-> IF part[1].k = "get" THEN "half_remote" ELSE "open",
                   lrs |-> "deferring", req |-> TRUE, tx |-> init,
                   left |-> IF part[1].k = "get" THEN FileLen ELSE BodyLen,
                   buf |-> 0, est |-> OurCredit]
     IN  /\ st' = [x \in Children \cup {s} |-> IF x = s THEN child ELSE st[x]]
         /\ kids' = <<s>> \o kids
         /\ opened' = s
         /\ pps' = pps \o lws_h2_update_peer_txcredit(s, OurCredit)
  /\ pollout' = TRUE
  /\ UNCHANGED <<tx, turn, init>>

(* Mutant: windows are set to the new value, whatever was sent. *)
lws_h2_settings_Reset(children, v) ==
  [s \in DOMAIN children |-> [children[s] EXCEPT !.tx = v, !.req = @ \/ v > 0]]

(* Mutant: a window that comes up from exactly 0 is not woken. *)
lws_h2_settings_OffByOne(children, v) ==
  [s \in DOMAIN children |->
     LET new == children[s].tx + (v - init)
     IN  [children[s] EXCEPT !.tx = new, !.req = @ \/ (new > 0 /\ new < v - init)]]

(* each window moves by the difference; the streams that may send now, and *)
(* could not before, are woken                                             *)
lws_h2_settings(children, v) ==
  [s \in DOMAIN children |->
     LET new == children[s].tx + (v - init)
     IN  [children[s] EXCEPT !.tx = new, !.req = @ \/ (new > 0 /\ new <= v - init)]]

Settings ==
  /\ Reading("settings")
  /\ st' = lws_h2_settings(st, part[1].n)
  /\ init' = part[1].n
  /\ pollout' = (pollout \/ \E s \in Children : st'[s].req)
  /\ UNCHANGED <<pps, kids, tx, turn, opened>>

(* Data for a stream that is not there, or that was reset: the connection  *)
(* goes                                                                    *)
DataRefused ==
  /\ Reading("data")
  /\ part[1].sid \notin {s \in Children : st[s].h2 = "open"}
  /\ pps' = pps \o Queue("goaway", 0, 0)
  /\ pollout' = TRUE
  /\ UNCHANGED <<kids, st, tx, turn, opened, init>>

(* So it does when other frames came in the same read: what content-length *)
(* leaves of the body is compared with all that was read.                  *)
DataWithMore ==
  /\ Reading("data") /\ flight # <<>>
  /\ part[1].sid \in {s \in Children : st[s].h2 = "open"}
  /\ pps' = pps \o Queue("goaway", 0, 0)
  /\ pollout' = TRUE
  /\ UNCHANGED <<kids, st, tx, turn, opened, init>>

(* est falls with the body that is handed to the callback, not with the    *)
(* part that has to wait for it; credit is given back when it is low       *)
Data ==
  /\ Reading("data")
  /\ LET s == part[1].sid
         n == part[1].n
     IN  /\ s \in Children /\ st[s].h2 = "open"
         /\ LET c == st[s]
                body == IF c.lrs = "deferring" THEN [c EXCEPT !.buf = @ + n]
                        ELSE [c EXCEPT !.left = @ - n, !.est = @ - n,
                                       !.lrs = IF c.left = n THEN "est" ELSE "body",
                                       !.req = @ \/ c.left = n]
                low == body.est <= n
            IN  /\ st' = [st EXCEPT ![s] =
                           IF low THEN [body EXCEPT !.est = @ + n, !.req = TRUE] ELSE body]
                /\ pps' = pps \o (IF low THEN lws_h2_update_peer_txcredit(s, n) ELSE <<>>)
                /\ pollout' = (pollout \/ body.req \/ low)
  /\ UNCHANGED <<kids, tx, turn, opened, init>>

(* (uint64_t)tx_cr + (uint64_t)bump > 0x7fffffff *)
Exceeds(credit, bump) == ((credit % Wide) + bump) % Wide > MaxWindow

UpdateStream ==
  /\ Reading("update") /\ part[1].sid \in Children
  /\ LET s == part[1].sid
         new == st[s].tx + part[1].n
     IN  IF Exceeds(st[s].tx, part[1].n)
         THEN /\ st' = lws_callback_on_writable([st EXCEPT ![s].h2 = "closed"], {s})
              /\ pps' = pps \o Queue("rst", s, 0)
              /\ pollout' = TRUE
         ELSE /\ st' = lws_callback_on_writable([st EXCEPT ![s].tx = new],
                                                IF new > 0 THEN Children ELSE {})
              /\ pollout' = (pollout \/ new > 0)
              /\ UNCHANGED pps
  /\ UNCHANGED <<kids, tx, turn, opened, init>>

UpdateConnection ==
  /\ Reading("update") /\ part[1].sid = 0
  /\ IF Exceeds(tx, part[1].n)
     THEN /\ pps' = pps \o Queue("goaway", 0, 0)
          /\ pollout' = TRUE
          /\ UNCHANGED <<tx, st>>
     ELSE /\ tx' = tx + part[1].n
          /\ st' = lws_callback_on_writable(st, IF tx' > 0 THEN Children ELSE {})
          /\ pollout' = (pollout \/ (tx' > 0 /\ Children # {}))
          /\ UNCHANGED pps
  /\ UNCHANGED <<kids, turn, opened, init>>

(* a stream that is done with *)
UpdateNobody ==
  /\ Reading("update") /\ part[1].sid \notin Children \cup {0}
  /\ UNCHANGED <<pps, kids, st, tx, pollout, turn, opened, init>>

Ping ==
  /\ Reading("ping")
  /\ pps' = pps \o Queue("pong", 0, 0)
  /\ pollout' = TRUE
  /\ UNCHANGED <<kids, st, tx, turn, opened, init>>

(* the state of the stream changes, nothing else *)
RstStream ==
  /\ Reading("rst")
  /\ LET s == part[1].sid
     IN  st' = IF s \in Children THEN [st EXCEPT ![s].h2 = "closed"] ELSE st
  /\ UNCHANGED <<pps, kids, tx, pollout, turn, opened, init>>

lws_h2_parse_end_of_frame ==
  \/ Headers \/ Settings \/ DataRefused \/ DataWithMore \/ Data \/ UpdateStream \/ UpdateConnection
  \/ UpdateNobody \/ Ping \/ RstStream

-----------------------------------------------------------------------------
(* POLLOUT *)

(* the child is taken off the list, where it is at one place at most *)
lws_wsi_mux_sibling_disconnect(list, s) ==
  LET places == {i \in DOMAIN list : list[i] = s}
      i == CHOOSE i \in places : TRUE
  IN  IF places = {} THEN list
      ELSE SubSeq(list, 1, i - 1) \o SubSeq(list, i + 1, Len(list))

(* lws_close_free_wsi() of a child: the peer hears nothing of it *)
CloseChild(s) ==
  /\ st' = Restrict(st, Children \ {s})
  /\ kids' = lws_wsi_mux_sibling_disconnect(kids, s)

Writable == conn = "open" /\ turn = "no" /\ pollout /\ (part = <<>> \/ Split)

Sending(t) ==
  /\ Writable
  /\ pps # <<>> /\ Head(pps).t = t
  /\ pps' = Tail(pps)
  /\ UNCHANGED <<flight, part, tx, pollout, turn, opened, init>>

(* lws_h2_do_pps_send(): one frame each time, the oldest *)
SendAck ==
  /\ Sending("ack")
  /\ ps' = [s \in Sids |-> IF Open(s) THEN [ps[s] EXCEPT !.win = @ + (offer[1] - pinit)]
                           ELSE ps[s]]
  /\ pinit' = offer[1] /\ offer' = <<>>
  /\ UNCHANGED <<conn, kids, st, pwin, pcred, over, spent>>

SendPong == Sending("pong") /\ UNCHANGED <<conn, kids, st, peer>>

SendUpdate ==
  /\ Sending("update")
  /\ LET s == Head(pps).sid
     IN  IF s = 0 THEN pcred' = pcred + Head(pps).n /\ UNCHANGED ps
         ELSE ps' = [ps EXCEPT ![s].cred = @ + Head(pps).n] /\ UNCHANGED pcred
  /\ UNCHANGED <<conn, kids, st, pwin, pinit, offer, over, spent>>

SendRst ==
  /\ Sending("rst")
  /\ ps' = [ps EXCEPT ![Head(pps).sid].s = "over"]
  /\ CloseChild(Head(pps).sid)
  /\ UNCHANGED <<conn, pwin, pcred, pinit, offer, over, spent>>

(* told or not, the connection is closed *)
SendGoaway ==
  /\ Writable /\ pps # <<>> /\ Head(pps).t = "goaway"
  /\ conn' = "closed"
  /\ flight' = <<>> /\ part' = <<>> /\ pps' = <<>> /\ kids' = <<>>
  /\ st' = [s \in {} |-> {}]
  /\ pollout' = FALSE
  /\ ps' = [s \in Sids |-> [ps[s] EXCEPT !.s = "over"]]
  /\ UNCHANGED <<tx, turn, opened, init, pwin, pcred, pinit, offer, over, spent>>

(* no protocol frames: the children have their turn, POLLOUT being off *)
rops_perform_user_POLLOUT_h2 ==
  /\ Writable /\ pps = <<>>
  /\ pollout' = FALSE
  /\ turn' = IF kids = <<>> THEN "no" ELSE "first"
  /\ UNCHANGED <<conn, flight, part, pps, kids, st, tx, opened, init, peer>>

Asking == SelectSeq(kids, LAMBDA s : st[s].req)
lws_wsi_mux_move_child_to_tail(s) == Append(lws_wsi_mux_sibling_disconnect(kids, s), s)

(* the first child that asked, whose request is done with *)
Serving(s) ==
  /\ turn \in {"first", "again"}
  /\ Asking # <<>> /\ s = Head(Asking)
  /\ UNCHANGED <<conn, flight, part, pps, pollout, opened, init>>

Served(s, child, next) ==
  /\ st' = [st EXCEPT ![s] = child]
  /\ kids' = lws_wsi_mux_move_child_to_tail(s)
  /\ turn' = next

(* Mutant: a request whose body is complete does not ask for POLLOUT. *)
ServeAction_Quiet(s) ==
  /\ Serving(s) /\ st[s].lrs = "deferring"
  /\ LET c == st[s]
         done == c.k = "post" /\ c.left = c.buf
     IN  Served(s, [c EXCEPT !.lrs = IF c.k = "get" THEN "file" ELSE IF done THEN "est" ELSE "body",
                             !.left = @ - c.buf, !.buf = 0,
                             !.req = c.k = "get"], "end")
  /\ UNCHANGED <<tx, peer>>

(* lws_http_action(): a file is begun, or the body that waited is read *)
ServeAction(s) ==
  /\ Serving(s) /\ st[s].lrs = "deferring"
  /\ LET c == st[s]
         done == c.k = "post" /\ c.left = c.buf
     IN  Served(s, [c EXCEPT !.lrs = IF c.k = "get" THEN "file" ELSE IF done THEN "est" ELSE "body",
                             !.left = @ - c.buf, !.buf = 0,
                             !.req = c.k = "get" \/ done], "end")
  /\ UNCHANGED <<tx, peer>>

(* the smaller of the two windows *)
lws_h2_tx_cr_get(s) == Max({0, Min({st[s].tx, tx})})

(* no credit: it is not asked for again *)
ServeSkint(s) ==
  /\ Serving(s) /\ st[s].lrs = "file" /\ st[s].tx <= 0
  /\ Served(s, [st[s] EXCEPT !.req = FALSE], "again")
  /\ UNCHANGED <<tx, peer>>

(* credit of its own, but none of the connection's *)
ServeNoCredit(s) ==
  /\ Serving(s) /\ st[s].lrs = "file" /\ st[s].tx > 0 /\ lws_h2_tx_cr_get(s) = 0
  /\ Served(s, [st[s] EXCEPT !.req = TRUE], "end")
  /\ UNCHANGED <<tx, peer>>

SendData(s, n) ==
  /\ tx' = tx - n
  /\ pwin' = pwin - n
  /\ over' = (over \/ pwin < n \/ (ps[s].s = "open" /\ ps[s].win < n))
  /\ ps' = [ps EXCEPT ![s].win = @ - n,
                      ![s].s = IF st[s].left = n /\ @ = "open" THEN "over" ELSE @]
  /\ UNCHANGED <<pcred, pinit, offer, spent>>

(* as much of the file as goes, until the socket is choked *)
Amounts(s) == 1 .. Min({st[s].left, lws_h2_tx_cr_get(s)})

lws_serve_http_file_fragment(s) ==
  /\ Serving(s) /\ st[s].lrs = "file" /\ st[s].tx > 0
  /\ \E n \in Amounts(s) :
       /\ SendData(s, n)
       /\ IF st[s].left = n
          THEN CloseChild(s) /\ turn' = "again"
          ELSE Served(s, [st[s] EXCEPT !.tx = @ - n, !.left = @ - n, !.req = TRUE], "end")

(* the callback of a stream that still gets its body has nothing to write *)
ServeEarly(s) ==
  /\ Serving(s) /\ st[s].lrs = "body"
  /\ Served(s, [st[s] EXCEPT !.req = FALSE], "end")
  /\ UNCHANGED <<tx, peer>>

(* after the body it answers, with headers that end the stream *)
ServeAnswer(s) ==
  /\ Serving(s) /\ st[s].lrs = "est"
  /\ CloseChild(s)
  /\ turn' = "again"
  /\ ps' = [ps EXCEPT ![s].s = "over"]
  /\ UNCHANGED <<tx, pwin, pcred, pinit, offer, over, spent>>

lws_wsi_mux_action_pending_writeable_reqs == \E s \in Children : st[s].req

(* the socket is choked, or the end of the list is reached *)
EndOfTurn ==
  /\ turn \in {"again", "end"} \/ (turn = "first" /\ Asking = <<>>)
  /\ turn' = "no"
  /\ pollout' = lws_wsi_mux_action_pending_writeable_reqs
  /\ UNCHANGED <<conn, flight, part, pps, kids, st, tx, opened, init, peer>>

(* A timeout, or a callback that fails: the peer is told nothing. *)
StreamIsCut(s) ==
  /\ conn = "open" /\ turn = "no"
  /\ s \in Children /\ Rarely
  /\ CloseChild(s)
  /\ ps' = [ps EXCEPT ![s].s = IF @ = "open" THEN "cut" ELSE @]
  /\ UNCHANGED <<conn, flight, part, pps, tx, pollout, turn, opened, init>>
  /\ UNCHANGED <<pwin, pcred, pinit, offer, over>>

Serve ==
  \E s \in Children :
    \/ ServeAction(s) \/ ServeSkint(s) \/ ServeNoCredit(s) \/ lws_serve_http_file_fragment(s)
    \/ ServeEarly(s) \/ ServeAnswer(s)

Parse == lws_h2_parse_frame_header \/ lws_h2_parse_end_of_frame

Pollout ==
  \/ SendAck \/ SendPong \/ SendUpdate \/ SendRst \/ SendGoaway
  \/ rops_perform_user_POLLOUT_h2 \/ Serve \/ EndOfTurn

Next == PeerActs \/ Parse \/ Pollout \/ \E s \in Sids : StreamIsCut(s)

Spec == Init /\ [][Next]_vars

(* The loop serves POLLOUT and POLLIN in each round, and the peer gives    *)
(* credit and sends the body it has credit for.                            *)
FairSpec == Spec /\ SF_vars(Parse) /\ WF_vars(Pollout) /\ WF_vars(PeerHelps)

-----------------------------------------------------------------------------
TypeOK ==
  /\ conn \in {"open", "closed"}
  /\ flight \in Seq(Frame) /\ Len(flight) <= MaxFlight
  /\ part \in Seq(Frame) /\ Len(part) <= 1
  /\ pps \in Seq(PpsRec)
  /\ kids \in Seq(Sids) /\ Range(kids) = Children /\ Len(kids) = Cardinality(Children)
  /\ Children \subseteq Sids /\ \A s \in Children : st[s] \in ChildRec
  /\ {tx, pwin, pcred} \subseteq Int
  /\ {pollout, over} \subseteq BOOLEAN
  /\ turn \in {"no", "first", "again", "end"}
  /\ opened \in Sids \cup {0}
  /\ {init, pinit} \subseteq Windows \cup {Default}
  /\ ps \in [Sids -> PeerRec]
  /\ offer \in Seq(Windows) /\ Len(offer) <= 1
  /\ spent \in 0 .. MaxRare

(* credit the peer has given to stream s (0: the connection) and that is   *)
(* still in flight                                                         *)
Matching(frames, t, s) == {i \in DOMAIN frames : frames[i].t = t /\ frames[i].sid = s}
InFlight(s) == Cardinality(Matching(part \o flight, "update", s))

(* Both ends agree on every window, through SETTINGS that raise or lower   *)
(* the window of streams that have sent, credit that comes for one stream  *)
(* or all of them, and acknowledgements that are still queued: what is not *)
(* in flight is in txc.tx_cr.                                              *)
CreditIsExact ==
  conn = "open" =>
    /\ pwin = tx + InFlight(0)
    /\ \A s \in Children : st[s].h2 # "closed" /\ ps[s].s = "open" =>
         ps[s].win - pinit = st[s].tx - init + InFlight(s)

(* "The sender MUST NOT send a flow-controlled frame with a length that    *)
(* exceeds the space available in either of the flow-control windows       *)
(* advertised by the receiver": a window that SETTINGS have lowered counts *)
(* from the acknowledgement on.                                            *)
WithinWindow == ~over

(* The windows are sound: both ends agree on them and nothing is sent      *)
(* beyond them, while SETTINGS, credit and data cross.                     *)
CreditIsSound == TypeOK /\ CreditIsExact /\ WithinWindow

(* Nothing that wants to be sent is left without POLLOUT: not a protocol   *)
(* frame, nor a child that asked while others had their turn.              *)
PolloutIsAsked ==
  conn = "open" /\ turn = "no" /\ (pps # <<>> \/ \E s \in Children : st[s].req) => pollout

(* A stream with a file to send that was left alone because it had no      *)
(* credit is woken by whatever gives it credit again: WINDOW_UPDATE of the *)
(* stream or the connection, or SETTINGS.                                  *)
SenderIsAwake ==
  \A s \in Children : st[s].lrs = "file" /\ st[s].tx > 0 => st[s].req

(* Nobody who could send sleeps: a stream that got credit asks again, and  *)
(* whoever asks has POLLOUT.                                               *)
NobodySleeps == PolloutIsAsked /\ SenderIsAwake

(* Every request is answered to the end, however the windows of streams    *)
(* and connection run dry, unless the stream is reset or cut short or the  *)
(* connection closes.                                                      *)
RequestsAreAnswered == \A s \in Sids : ps[s].s = "open" ~> ps[s].s # "open"
=============================================================================
