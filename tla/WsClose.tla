------------------------------ MODULE WsClose ------------------------------
(***************************************************************************)
(* The life of one established websocket connection (wsi) from the moment  *)
(* anything wants it closed: __lws_close_free_wsi() in core-net/close.c,   *)
(* the close handshake of the ws role (roles/ws/ops-ws.c and               *)
(* client-parser-ws.c), the POLLOUT priorities of core-net/service.c, the  *)
(* partial sends of core-net/output.c and the timers of wsi-timeout.c.     *)
(*                                                                         *)
(* One service thread runs everything; a step is one event delivered to    *)
(* the connection.  A handler that asks for the close leaves the call      *)
(* pending in `closing'; the call is then the only step that can follow,   *)
(* as the code makes it before it returns to the event loop.               *)
(*                                                                         *)
(* The poll() event loop without extensions or h2 is modelled; the socket  *)
(* and the peer are external and may do anything at any time.  A user      *)
(* callback makes at most one lws_write() and returns nonzero if it fails. *)
(***************************************************************************)
EXTENDS Naturals

CONSTANTS Roles,      \* subset of {"client", "server"}
          Tls,        \* subset of BOOLEAN: whether the connection has wsi->tls.ssl
          KeepAlive   \* a retry policy with secs_since_valid_ping is set

ASSUME ConstantsAssumption ==
  /\ Roles \subseteq {"client", "server"}
  /\ Tls \subseteq BOOLEAN
  /\ KeepAlive \in BOOLEAN

VARIABLES
  role, tls,
  state, pre_close,    \* wsi->wsistate and wsistate_pre_close
  closing,             \* the pending __lws_close_free_wsi() call
  unusable,            \* socket_is_permanently_unusable
  pollout, pollin,     \* events of the pollfd
  partial,             \* buflist_out is not empty
  timeout, vtimer,     \* sul_timeout and sul_validity
  buf,                 \* what ping_payload_buf holds
  close_len,           \* close_in_ping_buffer_len # 0
  ping_pending, payload_is_close, peer_sent_close, send_check_ping, needs_ack,
  bound, unbinds, closed,  \* protocol_bind_balance; UNBIND and CLOSED callbacks
  closes, told, wanted, tail
    \* history: CLOSE frames issued, the payload of the last one, the payload
    \* chosen for it, and the types of frame issued after a CLOSE

sockVars  == <<unusable, pollout, pollin, partial>>
timerVars == <<timeout, vtimer>>
wsVars    == <<ping_pending, payload_is_close, peer_sent_close,
               send_check_ping, needs_ack>>
bufVars   == <<buf, close_len>>
userVars  == <<bound, unbinds, closed>>
wireVars  == <<closes, told, tail>>
vars == <<role, tls, state, pre_close, closing, sockVars, timerVars, wsVars,
          bufVars, userVars, wireVars, wanted>>

State == {"ESTABLISHED", "WAITING_TO_SEND_CLOSE", "RETURNED_CLOSE",
          "AWAITING_CLOSE_ACK", "FLUSHING_BEFORE_CLOSE", "SHUTDOWN",
          "DEAD_SOCKET"}
Reason  == {"NOSTATUS", "DESTROY", "KILL_SYNC"}
Payload == {"none", "reason", "ping", "time", "peer"}
Frame   == {"DATA", "PING", "PONG", "CLOSE"}
Outcome == {"all", "part", "error"}  \* of a write to the socket

Init ==
  /\ role \in Roles /\ tls \in Tls
  /\ state = "ESTABLISHED" /\ pre_close = "none" /\ closing = "no"
  /\ unusable = FALSE /\ pollout = FALSE /\ pollin = TRUE /\ partial = FALSE
  /\ timeout = "none" /\ vtimer = IF KeepAlive THEN "ping" ELSE "off"
  /\ buf = "none" /\ close_len = FALSE
  /\ ping_pending = FALSE /\ payload_is_close = FALSE
  /\ peer_sent_close = FALSE /\ send_check_ping = FALSE /\ needs_ack = FALSE
  /\ bound = TRUE /\ unbinds = 0 /\ closed = 0
  /\ closes = 0 /\ told = "none" /\ wanted = "none" /\ tail = {}

InLoop == closing = "no" /\ state # "DEAD_SOCKET"  \* the event loop has the wsi

-----------------------------------------------------------------------------
(* Helpers of the handlers *)

(* Mutant: only an established connection may ask for POLLOUT. *)
lws_callback_on_writable_Est ==
  pollout' = (pollout \/ (state = "ESTABLISHED" /\ ~unusable))

(* Called before a change of state or of unusable, which it reads. *)
lws_callback_on_writable ==
  pollout' = (pollout \/ (state # "SHUTDOWN" /\ ~unusable))

PleaseClose == closing' = "NOSTATUS"

(* rops_handle_POLLIN_ws() when the POLLOUT handling wants the close. *)
Die(s) ==
  /\ state' = IF s = "RETURNED_CLOSE" THEN "FLUSHING_BEFORE_CLOSE" ELSE s
  /\ PleaseClose

(* lws_close_reason() *)
lws_close_reason ==
  buf' = "reason" /\ close_len' = TRUE /\ wanted' = "reason"

(* A callback, or the frame parser, returns nonzero; either may have set a *)
(* reason before.                                                          *)
Refuses ==
  /\ PleaseClose
  /\ lws_close_reason \/ UNCHANGED <<bufVars, wanted>>

(* lws_write() of a frame when nothing is buffered: lws_issue_raw().  What  *)
(* the socket does not take is buffered and POLLOUT asked for.              *)
Write(type, payload, outcome) ==
  /\ unusable' = (unusable \/ outcome = "error")
  /\ partial' = (outcome = "part")
  /\ IF outcome = "error" THEN UNCHANGED wireVars
     ELSE /\ closes' = IF type = "CLOSE" THEN closes + 1 ELSE closes
          /\ told' = IF type = "CLOSE" THEN payload ELSE told
          /\ tail' = IF closes > 0 THEN tail \cup {type} ELSE tail

(* Mutants: protocol_bind_balance is not reset; the callback is not made. *)
ProtocolUnbind_NotReset ==
  /\ unbinds' = IF bound /\ closed = 0 THEN unbinds + 1 ELSE unbinds
  /\ UNCHANGED bound
ProtocolUnbind_Dropped == UNCHANGED <<bound, unbinds>>

ProtocolUnbind ==
  /\ bound' = FALSE
  /\ unbinds' = IF bound /\ closed = 0 THEN unbinds + 1 ELSE unbinds

-----------------------------------------------------------------------------
(* __lws_close_free_wsi() *)

(* "goto just_kill_connection", or close_via_role_protocol has nothing to say *)
Kills ==
  \/ unusable \/ closing = "DESTROY"
  \/ state \in {"SHUTDOWN", "WAITING_TO_SEND_CLOSE", "AWAITING_CLOSE_ACK",
                "RETURNED_CLOSE"}
  \/ state \in {"FLUSHING_BEFORE_CLOSE", "ESTABLISHED"} /\ ~partial
       /\ ~(state = "ESTABLISHED" /\ close_len)

(* The server's socket close is staged, which ends the call. *)
Stages == role = "server" /\ tls /\ ~unusable /\ state # "SHUTDOWN"
          /\ closing # "DESTROY"

CloseBegins ==
  /\ closing # "no" /\ closing' = "no"
  /\ pre_close' = state
  /\ UNCHANGED <<role, tls, wireVars>>

KeepFlushing ==
  /\ CloseBegins /\ ~Kills /\ state = "FLUSHING_BEFORE_CLOSE"
  /\ lws_callback_on_writable
  /\ UNCHANGED <<state, unusable, pollin, partial, timerVars, wsVars, bufVars,
                 userVars, wanted>>

FlushFirst ==
  /\ CloseBegins /\ ~Kills /\ state = "ESTABLISHED" /\ partial
  /\ state' = "FLUSHING_BEFORE_CLOSE"
  /\ timeout' = "FLUSH_STORED_SEND"
  /\ UNCHANGED <<sockVars, vtimer, wsVars, bufVars, userVars, wanted>>

rops_close_via_role_protocol_ws ==
  /\ CloseBegins /\ ~Kills /\ state = "ESTABLISHED" /\ ~partial
  /\ ProtocolUnbind
  /\ state' = "WAITING_TO_SEND_CLOSE" /\ needs_ack' = TRUE
  /\ timeout' = "CLOSE_SEND"
  /\ lws_callback_on_writable
  /\ UNCHANGED <<unusable, pollin, partial, vtimer, ping_pending, closed,
                 payload_is_close, peer_sent_close, send_check_ping, bufVars,
                 wanted>>

(* Mutant: the staged shutdown has no timer. *)
StagedClose_NoTimer ==
  /\ CloseBegins /\ Kills /\ Stages
  /\ ProtocolUnbind
  /\ state' = "SHUTDOWN" /\ pollout' = FALSE /\ pollin' = TRUE
  /\ UNCHANGED <<unusable, partial, timerVars, wsVars, bufVars, closed, wanted>>

StagedClose ==
  /\ CloseBegins /\ Kills /\ Stages
  /\ ProtocolUnbind
  /\ state' = "SHUTDOWN" /\ pollout' = FALSE /\ pollin' = TRUE
  /\ timeout' = "SHUTDOWN_FLUSH"
  /\ UNCHANGED <<unusable, partial, vtimer, wsVars, bufVars, closed, wanted>>

(* Without TLS the server's shutdown() marks the socket unusable, so the    *)
(* staging that follows it is skipped and the connection dies at once.      *)
JustKill ==
  /\ CloseBegins /\ Kills /\ ~Stages
  /\ ProtocolUnbind
  /\ timeout' = "none" /\ vtimer' = "off"
  /\ pollout' = FALSE /\ pollin' = FALSE
  /\ state' = "DEAD_SOCKET"
  /\ ping_pending' = FALSE
  /\ closed' = IF closed = 0 THEN 1 ELSE closed
  /\ unusable' = TRUE /\ partial' = FALSE
  /\ UNCHANGED <<payload_is_close, peer_sent_close, send_check_ping, needs_ack,
                 bufVars, wanted>>

lws_close_free_wsi ==
  \/ KeepFlushing \/ FlushFirst \/ rops_close_via_role_protocol_ws
  \/ StagedClose \/ JustKill

-----------------------------------------------------------------------------
(* lws_handle_POLLOUT_event() and rops_handle_POLLOUT_ws(), by priority *)

POLLOUT == InLoop /\ pollout /\ state # "SHUTDOWN"

CompletePartial(outcome) ==
  /\ POLLOUT /\ partial
  /\ partial' = (outcome # "all")
  /\ unusable' = (unusable \/ outcome = "error")
  /\ IF \/ outcome = "error"
        \/ outcome = "all" /\ state = "FLUSHING_BEFORE_CLOSE"
     THEN Die(state) /\ UNCHANGED pollout
     ELSE lws_callback_on_writable /\ UNCHANGED <<state, closing>>
  /\ UNCHANGED <<role, tls, pre_close, pollin, timerVars, wsVars, bufVars,
                 userVars, wireVars, wanted>>

(* Mutant: the timer is removed, not restarted, when the CLOSE was sent. *)
SendClose_NoTimer(outcome) ==
  /\ POLLOUT /\ ~partial /\ state = "WAITING_TO_SEND_CLOSE"
  /\ Write("CLOSE", buf, outcome)
  /\ IF outcome # "error" /\ needs_ack
     THEN state' = "AWAITING_CLOSE_ACK" /\ UNCHANGED closing
     ELSE Die("RETURNED_CLOSE")
  /\ timeout' = "none"
  /\ UNCHANGED <<role, tls, pre_close, pollout, pollin, vtimer, wsVars, bufVars,
                 userVars, wanted>>

SendClose(outcome) ==
  /\ POLLOUT /\ ~partial /\ state = "WAITING_TO_SEND_CLOSE"
  /\ Write("CLOSE", buf, outcome)
  /\ IF outcome = "error" THEN Die(state) /\ UNCHANGED timeout
     ELSE IF needs_ack
     THEN /\ state' = "AWAITING_CLOSE_ACK" /\ timeout' = "CLOSE_ACK"
          /\ UNCHANGED closing
     ELSE Die("RETURNED_CLOSE") /\ UNCHANGED timeout
  /\ UNCHANGED <<role, tls, pre_close, pollout, pollin, vtimer, wsVars, bufVars,
                 userVars, wanted>>

Answers == POLLOUT /\ ~partial /\ state # "WAITING_TO_SEND_CLOSE"

ReturnClose(outcome) ==
  /\ Answers /\ payload_is_close
  /\ Write("CLOSE", buf, outcome)
  /\ ping_pending' = (outcome = "error")
  /\ Die(state)
  /\ UNCHANGED <<role, tls, pre_close, pollout, pollin, timerVars, bufVars,
                 payload_is_close, peer_sent_close, send_check_ping, needs_ack,
                 userVars, wanted>>

ForgetPong ==
  /\ Answers /\ ping_pending /\ ~payload_is_close /\ pre_close # "none"
  /\ ping_pending' = FALSE
  /\ UNCHANGED <<role, tls, state, pre_close, closing, sockVars, timerVars,
                 payload_is_close, peer_sent_close, send_check_ping, needs_ack,
                 bufVars, userVars, wireVars, wanted>>

(* Mutant: the pong is sent whether or not the close began. *)
SendPong_Closing(outcome) ==
  /\ Answers /\ ping_pending /\ ~payload_is_close
  /\ Write("PONG", buf, outcome)
  /\ ping_pending' = FALSE
  /\ UNCHANGED <<role, tls, state, pre_close, closing, pollout, pollin, timerVars,
                 bufVars, payload_is_close, peer_sent_close, send_check_ping,
                 needs_ack, userVars, wanted>>

SendPong(outcome) ==
  /\ Answers /\ ping_pending /\ ~payload_is_close /\ pre_close = "none"
  /\ Write("PONG", buf, outcome)
  /\ IF outcome = "error" THEN Die(state) /\ UNCHANGED ping_pending
     ELSE ping_pending' = FALSE /\ UNCHANGED <<state, closing>>
  /\ UNCHANGED <<role, tls, pre_close, pollout, pollin, timerVars, bufVars,
                 payload_is_close, peer_sent_close, send_check_ping, needs_ack,
                 userVars, wanted>>

SendPing(outcome) ==
  /\ Answers /\ ~ping_pending /\ ~payload_is_close
  /\ ~unusable /\ send_check_ping
  /\ send_check_ping' = FALSE
  /\ Write("PING", "none", outcome)
  /\ IF outcome = "error" THEN Die(state) ELSE UNCHANGED <<state, closing>>
  /\ UNCHANGED <<role, tls, pre_close, pollout, pollin, timerVars, bufVars,
                 ping_pending, payload_is_close, peer_sent_close, needs_ack,
                 userVars, wanted>>

(* The WRITEABLE callback, with POLLOUT dropped before it. *)
Writeable ==
  /\ Answers /\ ~ping_pending /\ ~payload_is_close /\ ~send_check_ping
  /\ UNCHANGED <<role, tls, state, pre_close, pollin, timerVars, wsVars,
                 userVars>>

UserIdle ==
  /\ Writeable
  /\ pollout' \in BOOLEAN   \* it may ask for another callback
  /\ UNCHANGED <<closing, unusable, partial, bufVars, wireVars, wanted>>

UserWrites(outcome) ==
  /\ Writeable
  /\ Write("DATA", "none", outcome)
  /\ IF outcome = "error"
     THEN PleaseClose /\ pollout' = FALSE /\ UNCHANGED <<bufVars, wanted>>
     ELSE /\ pollout' \in IF outcome = "part" THEN {TRUE} ELSE BOOLEAN
          /\ Refuses \/ UNCHANGED <<closing, bufVars, wanted>>

UserCloses ==
  /\ Writeable
  /\ Refuses
  /\ pollout' = FALSE
  /\ UNCHANGED <<unusable, partial, wireVars>>

HandlePOLLOUT ==
  \/ \E outcome \in Outcome :
       \/ CompletePartial(outcome) \/ SendClose(outcome) \/ ReturnClose(outcome)
       \/ SendPong(outcome) \/ SendPing(outcome) \/ UserWrites(outcome)
  \/ ForgetPong \/ UserIdle \/ UserCloses

-----------------------------------------------------------------------------
(* Frames from the peer: lws_ws_rx_sm() and lws_ws_client_rx_sm(), reached  *)
(* through rops_handle_POLLIN_ws() and lws_read_h1(), whose "bail" closes.  *)

Reads(r) ==
  /\ InLoop /\ pollin /\ role = r
  /\ state \in IF r = "server"
               THEN {"ESTABLISHED", "WAITING_TO_SEND_CLOSE", "RETURNED_CLOSE",
                     "AWAITING_CLOSE_ACK"}
               ELSE {"ESTABLISHED", "AWAITING_CLOSE_ACK"}
  /\ UNCHANGED <<role, tls, pre_close, partial, userVars, wireVars>>

ServerSeesClose ==
  /\ Reads("server") /\ ~peer_sent_close
  /\ peer_sent_close' = TRUE
  /\ UNCHANGED <<pollin, timerVars, send_check_ping, needs_ack>>

(* The ack of our CLOSE, or a CLOSE that a partial send keeps us from     *)
(* answering.                                                              *)
ServerClosesOnClose ==
  /\ ServerSeesClose /\ (state = "AWAITING_CLOSE_ACK" \/ partial)
  /\ PleaseClose
  /\ unusable' = (unusable \/ state # "AWAITING_CLOSE_ACK")
  /\ UNCHANGED <<state, pollout, ping_pending, payload_is_close, bufVars, wanted>>

ServerUserRefusesClose ==
  /\ ServerSeesClose /\ state # "AWAITING_CLOSE_ACK" /\ ~partial
  /\ Refuses
  /\ UNCHANGED <<state, unusable, pollout, ping_pending, payload_is_close>>

(* Mutant: a CLOSE is answered even if it is the answer to ours. *)
ServerAnswersClose_Always ==
  /\ ServerSeesClose /\ ~partial
  /\ state' = "RETURNED_CLOSE" /\ payload_is_close' = TRUE
  /\ buf' = "peer" /\ wanted' = "peer" /\ ping_pending' = TRUE
  /\ lws_callback_on_writable
  /\ UNCHANGED <<closing, unusable, close_len>>

ServerAnswersClose ==
  /\ ServerSeesClose /\ state # "AWAITING_CLOSE_ACK" /\ ~partial
  /\ state' = "RETURNED_CLOSE" /\ payload_is_close' = TRUE
  /\ buf' = "peer" /\ wanted' = "peer" /\ ping_pending' = TRUE
  /\ lws_callback_on_writable
  /\ UNCHANGED <<closing, unusable, close_len>>

ServerRxPing ==
  /\ Reads("server") /\ ~ping_pending
  /\ buf' = "ping" /\ ping_pending' = TRUE
  /\ lws_callback_on_writable
  /\ UNCHANGED <<state, closing, unusable, pollin, timerVars, close_len, wanted,
                 payload_is_close, peer_sent_close, send_check_ping, needs_ack>>

ClientClosesOnClose ==
  /\ Reads("client") /\ state = "AWAITING_CLOSE_ACK"
  /\ PleaseClose
  /\ UNCHANGED <<state, unusable, pollout, pollin, timerVars, wsVars, bufVars,
                 wanted>>

ClientUserRefusesClose ==
  /\ Reads("client") /\ state # "AWAITING_CLOSE_ACK"
  /\ Refuses
  /\ UNCHANGED <<state, unusable, pollout, pollin, timerVars, wsVars>>

ClientAnswersClose ==
  /\ Reads("client") /\ state # "AWAITING_CLOSE_ACK"
  /\ buf' = "peer" /\ wanted' = "peer" /\ close_len' = TRUE
  /\ pollin' = FALSE /\ timeout' = "CLOSE_SEND"
  /\ needs_ack' = FALSE /\ state' = "WAITING_TO_SEND_CLOSE"
  /\ lws_callback_on_writable
  /\ UNCHANGED <<closing, unusable, vtimer, ping_pending, payload_is_close,
                 peer_sent_close, send_check_ping>>

ClientRxPing ==
  /\ Reads("client") /\ ~close_len /\ ~ping_pending
  /\ buf' = "ping" /\ ping_pending' = TRUE
  /\ lws_callback_on_writable
  /\ UNCHANGED <<state, closing, unusable, pollin, timerVars, close_len, wanted,
                 payload_is_close, peer_sent_close, send_check_ping, needs_ack>>

(* lws_validity_confirmed(), and the RECEIVE_PONG callback if not closing. *)
RxPong ==
  /\ Reads("server") \/ Reads("client")
  /\ vtimer' = IF KeepAlive THEN "ping" ELSE vtimer
  /\ \/ UNCHANGED <<closing, bufVars, wanted>>
     \/ state = "ESTABLISHED" /\ pre_close = "none" /\ Refuses
  /\ UNCHANGED <<state, unusable, pollout, pollin, timeout, wsVars>>

(* The parser rejects a frame, or the RECEIVE callback does. *)
RxRefused ==
  /\ Reads("server") \/ Reads("client")
  /\ Refuses
  /\ UNCHANGED <<state, unusable, pollout, pollin, timerVars, wsVars>>

Rx == \/ RxRefused \/ ServerClosesOnClose \/ ServerUserRefusesClose
      \/ ServerAnswersClose \/ ServerRxPing \/ ClientClosesOnClose
      \/ ClientUserRefusesClose \/ ClientAnswersClose \/ ClientRxPing \/ RxPong

-----------------------------------------------------------------------------
(* Other events *)

Quiet == UNCHANGED <<role, tls, state, pre_close, pollin, partial,
                     userVars, wireVars>>

(* A zero-length read.  A client reads in two states only. *)
Eof ==
  /\ InLoop /\ pollin /\ state # "SHUTDOWN"
  /\ role = "server" \/ state \in {"ESTABLISHED", "AWAITING_CLOSE_ACK"}
  /\ PleaseClose
  /\ Quiet /\ UNCHANGED <<unusable, pollout, timerVars, wsVars, bufVars, wanted>>

Hup ==
  /\ InLoop
  /\ unusable' = TRUE /\ PleaseClose
  /\ Quiet /\ UNCHANGED <<pollout, timerVars, wsVars, bufVars, wanted>>

(* lws_service_fd_tsi() in LRS_SHUTDOWN: the TLS shutdown is complete. *)
TlsShutdown ==
  /\ InLoop /\ state = "SHUTDOWN" /\ tls
  /\ PleaseClose
  /\ Quiet /\ UNCHANGED <<unusable, pollout, timerVars, wsVars, bufVars, wanted>>

lws_sul_wsitimeout_cb ==
  /\ InLoop /\ timeout # "none"
  /\ timeout' = "none" /\ unusable' = TRUE /\ PleaseClose
  /\ Quiet /\ UNCHANGED <<pollout, vtimer, wsVars, bufVars, wanted>>

(* lws_validity_cb() the first time: the role schedules a PING. *)
ValidityPing ==
  /\ InLoop /\ vtimer = "ping"
  /\ vtimer' = "hup"
  /\ buf' = "time" /\ send_check_ping' = TRUE
  /\ lws_callback_on_writable
  /\ Quiet /\ UNCHANGED <<closing, unusable, timeout, ping_pending, needs_ack,
                     payload_is_close, peer_sent_close, close_len, wanted>>

ValidityHup ==
  /\ InLoop /\ vtimer = "hup"
  /\ vtimer' = "off" /\ PleaseClose
  /\ Quiet /\ UNCHANGED <<unusable, pollout, timeout, wsVars, bufVars, wanted>>

(* lws_set_timeout() with LWS_TO_KILL_SYNC and with LWS_TO_KILL_ASYNC. *)
KillSync ==
  /\ InLoop
  /\ timeout' = "none" /\ closing' = "KILL_SYNC"
  /\ Quiet /\ UNCHANGED <<unusable, pollout, vtimer, wsVars, bufVars, wanted>>

KillAsync ==
  /\ InLoop
  /\ timeout' = "USER"
  /\ Quiet /\ UNCHANGED <<closing, unusable, pollout, vtimer, wsVars, bufVars,
                     wanted>>

(* lws_vhost_destroy() or lws_context_destroy(). *)
ContextDestroy ==
  /\ InLoop
  /\ closing' = "DESTROY"
  /\ Quiet /\ UNCHANGED <<unusable, pollout, timerVars, wsVars, bufVars, wanted>>

(* lws_sul_hrtimer_cb(): the user's TIMER callback may end the connection. *)
HrTimer ==
  /\ InLoop
  /\ Refuses
  /\ Quiet /\ UNCHANGED <<unusable, pollout, timerVars, wsVars>>

(* Any other callback, or lws_callback_on_writable_all_protocol(). *)
AskWriteable ==
  /\ InLoop
  /\ lws_callback_on_writable
  /\ Quiet /\ UNCHANGED <<closing, unusable, timerVars, wsVars, bufVars, wanted>>

Event == \/ Eof \/ Hup \/ TlsShutdown \/ lws_sul_wsitimeout_cb \/ ValidityPing
         \/ ValidityHup \/ KillSync \/ KillAsync \/ ContextDestroy \/ HrTimer
         \/ AskWriteable

Next == lws_close_free_wsi \/ Rx \/ HandlePOLLOUT \/ Event

(* The pending call runs, and a timer that is not removed fires, though other *)
(* events come first.  Nothing is assumed of the peer or of the socket.       *)
Fairness == WF_vars(lws_close_free_wsi) /\ SF_vars(lws_sul_wsitimeout_cb)

Spec == Init /\ [][Next]_vars
FairSpec == Spec /\ Fairness

-----------------------------------------------------------------------------
(* Properties *)

FlagsOK ==
  /\ unusable \in BOOLEAN /\ pollout \in BOOLEAN /\ pollin \in BOOLEAN
  /\ partial \in BOOLEAN /\ close_len \in BOOLEAN /\ ping_pending \in BOOLEAN
  /\ payload_is_close \in BOOLEAN /\ peer_sent_close \in BOOLEAN
  /\ send_check_ping \in BOOLEAN /\ needs_ack \in BOOLEAN
  /\ bound \in BOOLEAN

WireOK ==
  closes \in Nat /\ told \in Payload /\ wanted \in Payload /\ tail \subseteq Frame

TypeOK ==
  /\ FlagsOK /\ WireOK
  /\ role \in Roles /\ tls \in Tls
  /\ state \in State /\ pre_close \in State \cup {"none"}
  /\ closing \in Reason \cup {"no"}
  /\ timeout \in {"none", "FLUSH_STORED_SEND", "CLOSE_SEND", "CLOSE_ACK",
                  "SHUTDOWN_FLUSH", "USER"}
  /\ vtimer \in {"off", "ping", "hup"}
  /\ buf \in Payload /\ unbinds \in 0..1 /\ closed \in 0..1

(* Whatever path closes the connection, and however often the close is     *)
(* called on the way (close.c:387-394, 438-448, 565-611), the user gets    *)
(* exactly one UNBIND and one CLOSED callback, and CLOSED only at the end. *)
CallbacksOnce ==
  /\ unbinds = IF bound THEN 0 ELSE 1
  /\ closed = IF state = "DEAD_SOCKET" THEN 1 ELSE 0
  /\ state = "DEAD_SOCKET" => ~bound

(* At most one CLOSE frame is issued, whichever side begins and even when  *)
(* both do at once (ops-ws.c:1257-1279 and 1283-1314).                     *)
OneCloseFrame == closes <= 1

(* Once a CLOSE frame was issued no PONG follows it: a PING that was        *)
(* waiting, or that comes later, is forgotten (ops-ws.c:1290-1294).         *)
NoPongAfterClose == "PONG" \notin tail

(* Whatever lws itself has to send has POLLOUT armed, so it is sent without *)
(* anybody else asking: buffered data, a close, its answer, a pong, a ping. *)
SendArmed ==
  (/\ closing = "no" /\ ~unusable /\ state \notin {"SHUTDOWN", "DEAD_SOCKET"}
   /\ \/ partial \/ ping_pending \/ send_check_ping
      \/ state \in {"WAITING_TO_SEND_CLOSE", "RETURNED_CLOSE"})
  => pollout

(* A connection that waits for the peer in the close handshake, or for the *)
(* shutdown of its socket, has a timer running, whatever came between.     *)
TimerArmed ==
  (closing = "no" /\ state \in {"WAITING_TO_SEND_CLOSE", "AWAITING_CLOSE_ACK",
                                "SHUTDOWN"})
  => timeout # "none"

(* A connection whose close began is gone in the end even if the peer never *)
(* reads or answers.  The exception is the code's: buffered data is flushed *)
(* without a timer after a server answered a CLOSE, or after KILL_SYNC      *)
(* removed the timer of a flush.                                            *)
CloseEnds ==
  pre_close # "none"
    ~> \/ state = "DEAD_SOCKET"
       \/ state = "FLUSHING_BEFORE_CLOSE" /\ timeout = "none"
=============================================================================
