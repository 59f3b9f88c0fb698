--------------------------- MODULE WsCloseProofs ---------------------------
(***************************************************************************)
(* Proofs about WsClose: for every choice of roles, TLS and keepalive, the *)
(* callbacks, the number of CLOSE frames, the pongs, POLLOUT and the       *)
(* timers are as the runs of MCWsClose show them.                          *)
(***************************************************************************)
EXTENDS WsClose, TLAPS

(* Stronger than SendArmed: it holds while a close call is pending too. *)
Armed ==
  (/\ ~unusable /\ state \notin {"SHUTDOWN", "DEAD_SOCKET"}
   /\ \/ partial \/ ping_pending \/ send_check_ping
      \/ state \in {"WAITING_TO_SEND_CLOSE", "RETURNED_CLOSE"})
  => pollout

(* How far the handshake is, by state.  A flush that is not about to end has *)
(* something to flush; a peer's CLOSE waits to be answered only where the    *)
(* answer was not sent; a CLOSE that was sent leaves pre_close set.          *)
Handshake ==
  /\ closes \in 0..1
  /\ state \in {"ESTABLISHED", "WAITING_TO_SEND_CLOSE", "RETURNED_CLOSE"}
       => closes = 0
  /\ payload_is_close => state \notin {"ESTABLISHED", "WAITING_TO_SEND_CLOSE",
                                       "AWAITING_CLOSE_ACK"}
  /\ state = "RETURNED_CLOSE" => payload_is_close
  /\ (state = "FLUSHING_BEFORE_CLOSE" /\ closing = "no") => partial
  /\ (state = "WAITING_TO_SEND_CLOSE" /\ needs_ack) => pre_close # "none"
  /\ (closes > 0 /\ closing = "no") => pre_close # "none"

IInv == /\ TypeOK /\ CallbacksOnce /\ Armed /\ TimerArmed
        /\ Handshake /\ NoPongAfterClose

-----------------------------------------------------------------------------
(* What a step leaves alone: the tuples of variables, component by component. *)
USE DEF sockVars, timerVars, wsVars, bufVars, userVars, wireVars

(* The sets of values. *)
USE DEF State, Reason, Payload, Frame, Outcome

(* What lws_write() adds to the wire is a frame with a payload. *)
LEMMA WireStep ==
  ASSUME TypeOK, NEW type \in Frame, NEW payload \in Payload,
         NEW outcome \in Outcome, Write(type, payload, outcome)
  PROVE  closes' \in Nat /\ told' \in Payload /\ tail' \subseteq Frame
<1>1. CASE outcome = "error"
  BY <1>1 DEF TypeOK, WireOK, Write
<1>2. CASE outcome # "error"
  <2>1. closes' \in Nat
    BY <1>2 DEF TypeOK, WireOK, Write
  <2>2. told' \in Payload
    BY <1>2 DEF TypeOK, WireOK, Write
  <2>3. tail' \subseteq Frame
    BY <1>2 DEF TypeOK, WireOK, Write
  <2> QED BY <2>1, <2>2, <2>3
<1> QED BY <1>1, <1>2

(* The close call keeps the invariant. *)
LEMMA CloseStep == IInv /\ lws_close_free_wsi => IInv'
<1> SUFFICES ASSUME IInv, lws_close_free_wsi PROVE IInv'
  OBVIOUS
<1>1. CASE KeepFlushing
  <2>1. FlagsOK'
    BY <1>1 DEF IInv, TypeOK, FlagsOK, KeepFlushing, CloseBegins, Kills,
        lws_callback_on_writable
  <2>2. WireOK'
    BY <1>1 DEF IInv, TypeOK, WireOK, KeepFlushing, CloseBegins, Kills,
        lws_callback_on_writable
  <2>3. CallbacksOnce'
    BY <1>1 DEF IInv, TypeOK, FlagsOK, CallbacksOnce, KeepFlushing,
        CloseBegins, Kills, lws_callback_on_writable
  <2>4. UNCHANGED <<role, tls>>
    BY <1>1 DEF KeepFlushing, CloseBegins, Kills, lws_callback_on_writable
  <2>5. TypeOK'
    BY <1>1, <2>1, <2>2, <2>3, <2>4 DEF IInv, TypeOK, CallbacksOnce,
        KeepFlushing, CloseBegins, lws_callback_on_writable
  <2>6. Armed'
    BY <1>1 DEF IInv, TypeOK, FlagsOK, Armed, Handshake, KeepFlushing,
        CloseBegins, Kills, lws_callback_on_writable
  <2>7. TimerArmed'
    BY <1>1 DEF IInv, TypeOK, TimerArmed, KeepFlushing, CloseBegins, Kills,
        lws_callback_on_writable
  <2>8. Handshake' /\ NoPongAfterClose'
    BY <1>1 DEF IInv, TypeOK, FlagsOK, WireOK, Handshake, NoPongAfterClose,
        KeepFlushing, CloseBegins, Kills, lws_callback_on_writable
  <2> QED BY <2>3, <2>5, <2>6, <2>7, <2>8 DEF IInv
<1>2. CASE FlushFirst
  <2>1. FlagsOK'
    BY <1>2 DEF IInv, TypeOK, FlagsOK, FlushFirst, CloseBegins, Kills
  <2>2. WireOK'
    BY <1>2 DEF IInv, TypeOK, WireOK, FlushFirst, CloseBegins, Kills
  <2>3. CallbacksOnce'
    BY <1>2 DEF IInv, TypeOK, FlagsOK, CallbacksOnce, FlushFirst, CloseBegins,
        Kills
  <2>4. UNCHANGED <<role, tls>>
    BY <1>2 DEF FlushFirst, CloseBegins, Kills
  <2>5. TypeOK'
    BY <1>2, <2>1, <2>2, <2>3, <2>4 DEF IInv, TypeOK, CallbacksOnce,
        FlushFirst, CloseBegins
  <2>6. Armed'
    BY <1>2 DEF IInv, TypeOK, FlagsOK, Armed, Handshake, FlushFirst,
        CloseBegins, Kills
  <2>7. TimerArmed'
    BY <1>2 DEF IInv, TypeOK, TimerArmed, FlushFirst, CloseBegins, Kills
  <2>8. Handshake' /\ NoPongAfterClose'
    BY <1>2 DEF IInv, TypeOK, FlagsOK, WireOK, Handshake, NoPongAfterClose,
        FlushFirst, CloseBegins, Kills
  <2> QED BY <2>3, <2>5, <2>6, <2>7, <2>8 DEF IInv
<1>3. CASE rops_close_via_role_protocol_ws
  <2>1. FlagsOK'
    BY <1>3 DEF IInv, TypeOK, FlagsOK, rops_close_via_role_protocol_ws,
        CloseBegins, Kills, ProtocolUnbind, lws_callback_on_writable
  <2>2. WireOK'
    BY <1>3 DEF IInv, TypeOK, WireOK, rops_close_via_role_protocol_ws,
        CloseBegins, Kills, ProtocolUnbind, lws_callback_on_writable
  <2>3. CallbacksOnce'
    BY <1>3 DEF IInv, TypeOK, FlagsOK, CallbacksOnce,
        rops_close_via_role_protocol_ws, CloseBegins, Kills, ProtocolUnbind,
        lws_callback_on_writable
  <2>4. UNCHANGED <<role, tls>>
    BY <1>3 DEF rops_close_via_role_protocol_ws, CloseBegins, Kills,
        ProtocolUnbind, lws_callback_on_writable
  <2>5. TypeOK'
    BY <1>3, <2>1, <2>2, <2>3, <2>4 DEF IInv, TypeOK, CallbacksOnce,
        rops_close_via_role_protocol_ws, CloseBegins, lws_callback_on_writable
  <2>6. Armed'
    BY <1>3 DEF IInv, TypeOK, FlagsOK, Armed, Handshake,
        rops_close_via_role_protocol_ws, CloseBegins, Kills, ProtocolUnbind,
        lws_callback_on_writable
  <2>7. TimerArmed'
    BY <1>3 DEF IInv, TypeOK, TimerArmed, rops_close_via_role_protocol_ws,
        CloseBegins, Kills, ProtocolUnbind, lws_callback_on_writable
  <2>8. Handshake' /\ NoPongAfterClose'
    BY <1>3 DEF IInv, TypeOK, FlagsOK, WireOK, Handshake, NoPongAfterClose,
        rops_close_via_role_protocol_ws, CloseBegins, Kills, ProtocolUnbind,
        lws_callback_on_writable
  <2> QED BY <2>3, <2>5, <2>6, <2>7, <2>8 DEF IInv
<1>4. CASE StagedClose
  <2>1. FlagsOK'
    BY <1>4 DEF IInv, TypeOK, FlagsOK, StagedClose, CloseBegins, Kills,
        Stages, ProtocolUnbind
  <2>2. WireOK'
    BY <1>4 DEF IInv, TypeOK, WireOK, StagedClose, CloseBegins, Kills, Stages,
        ProtocolUnbind
  <2>3. CallbacksOnce'
    BY <1>4 DEF IInv, TypeOK, FlagsOK, CallbacksOnce, StagedClose,
        CloseBegins, Kills, Stages, ProtocolUnbind
  <2>4. UNCHANGED <<role, tls>>
    BY <1>4 DEF StagedClose, CloseBegins, Kills, Stages, ProtocolUnbind
  <2>5. TypeOK'
    BY <1>4, <2>1, <2>2, <2>3, <2>4 DEF IInv, TypeOK, CallbacksOnce,
        StagedClose, CloseBegins
  <2>6. Armed'
    BY <1>4 DEF IInv, TypeOK, FlagsOK, Armed, Handshake, StagedClose,
        CloseBegins, Kills, Stages, ProtocolUnbind
  <2>7. TimerArmed'
    BY <1>4 DEF IInv, TypeOK, TimerArmed, StagedClose, CloseBegins, Kills,
        Stages, ProtocolUnbind
  <2>8. Handshake' /\ NoPongAfterClose'
    BY <1>4 DEF IInv, TypeOK, FlagsOK, WireOK, Handshake, NoPongAfterClose,
        StagedClose, CloseBegins, Kills, Stages, ProtocolUnbind
  <2> QED BY <2>3, <2>5, <2>6, <2>7, <2>8 DEF IInv
<1>5. CASE JustKill
  <2>1. FlagsOK'
    BY <1>5 DEF IInv, TypeOK, FlagsOK, JustKill, CloseBegins, Kills, Stages,
        ProtocolUnbind
  <2>2. WireOK'
    BY <1>5 DEF IInv, TypeOK, WireOK, JustKill, CloseBegins, Kills, Stages,
        ProtocolUnbind
  <2>3. CallbacksOnce'
    BY <1>5 DEF IInv, TypeOK, FlagsOK, CallbacksOnce, JustKill, CloseBegins,
        Kills, Stages, ProtocolUnbind
  <2>4. UNCHANGED <<role, tls>>
    BY <1>5 DEF JustKill, CloseBegins, Kills, Stages, ProtocolUnbind
  <2>5. TypeOK'
    BY <1>5, <2>1, <2>2, <2>3, <2>4 DEF IInv, TypeOK, CallbacksOnce, JustKill,
        CloseBegins
  <2>6. Armed'
    BY <1>5 DEF IInv, TypeOK, FlagsOK, Armed, Handshake, JustKill,
        CloseBegins, Kills, Stages, ProtocolUnbind
  <2>7. TimerArmed'
    BY <1>5 DEF IInv, TypeOK, TimerArmed, JustKill, CloseBegins, Kills,
        Stages, ProtocolUnbind
  <2>8. Handshake' /\ NoPongAfterClose'
    BY <1>5 DEF IInv, TypeOK, FlagsOK, WireOK, Handshake, NoPongAfterClose,
        JustKill, CloseBegins, Kills, Stages, ProtocolUnbind
  <2> QED BY <2>3, <2>5, <2>6, <2>7, <2>8 DEF IInv
<1> QED BY <1>1, <1>2, <1>3, <1>4, <1>5 DEF lws_close_free_wsi

(* The handling of POLLOUT keeps the invariant. *)
LEMMA PolloutStep == IInv /\ HandlePOLLOUT => IInv'
<1> SUFFICES ASSUME IInv, HandlePOLLOUT PROVE IInv'
  OBVIOUS
<1>1. ASSUME NEW outcome \in Outcome, CompletePartial(outcome) PROVE IInv'
  <2>1. FlagsOK'
    BY <1>1 DEF IInv, TypeOK, FlagsOK, CompletePartial, POLLOUT, Die,
        lws_callback_on_writable, InLoop, PleaseClose
  <2>2. WireOK'
    BY <1>1 DEF IInv, TypeOK, WireOK, CompletePartial, POLLOUT, Die,
        lws_callback_on_writable, InLoop, PleaseClose
  <2>3. CallbacksOnce'
    BY <1>1 DEF IInv, TypeOK, FlagsOK, CallbacksOnce, CompletePartial,
        POLLOUT, Die, lws_callback_on_writable, InLoop, PleaseClose
  <2>4. UNCHANGED <<role, tls>>
    BY <1>1 DEF CompletePartial, POLLOUT, Die, lws_callback_on_writable,
        InLoop, PleaseClose
  <2>5. TypeOK'
    <3>1. /\ state' \in State /\ pre_close' \in State \cup {"none"}
          /\ closing' \in Reason \cup {"no"} /\ buf' \in Payload
      BY <1>1 DEF IInv, TypeOK, CompletePartial, POLLOUT, Die,
          lws_callback_on_writable, InLoop, PleaseClose
    <3>2. timeout' \in {"none", "FLUSH_STORED_SEND", "CLOSE_SEND",
                        "CLOSE_ACK", "SHUTDOWN_FLUSH", "USER"}
      BY <1>1 DEF IInv, TypeOK, CompletePartial, POLLOUT, Die,
          lws_callback_on_writable, InLoop, PleaseClose
    <3>3. vtimer' \in {"off", "ping", "hup"}
      BY <1>1 DEF IInv, TypeOK, CompletePartial, POLLOUT, Die,
          lws_callback_on_writable, InLoop, PleaseClose
    <3>4. unbinds' \in 0..1 /\ closed' \in 0..1
      BY <1>1 DEF IInv, TypeOK, CallbacksOnce, CompletePartial, POLLOUT, Die,
          lws_callback_on_writable, InLoop, PleaseClose
    <3>5. role' \in Roles /\ tls' \in Tls
      BY <2>4 DEF IInv, TypeOK
    <3> QED BY <2>1, <2>2, <3>1, <3>2, <3>3, <3>4, <3>5 DEF TypeOK
  <2>6. Armed'
    BY <1>1 DEF IInv, TypeOK, FlagsOK, Armed, Handshake, CompletePartial,
        POLLOUT, Die, lws_callback_on_writable, InLoop, PleaseClose
  <2>7. TimerArmed'
    BY <1>1 DEF IInv, TypeOK, TimerArmed, CompletePartial, POLLOUT, Die,
        lws_callback_on_writable, InLoop, PleaseClose
  <2>8. Handshake' /\ NoPongAfterClose'
    BY <1>1 DEF IInv, TypeOK, FlagsOK, WireOK, Handshake, NoPongAfterClose,
        CompletePartial, POLLOUT, Die, lws_callback_on_writable, InLoop,
        PleaseClose
  <2> QED BY <2>3, <2>5, <2>6, <2>7, <2>8 DEF IInv
<1>2. ASSUME NEW outcome \in Outcome, SendClose(outcome) PROVE IInv'
  <2>1. FlagsOK'
    BY <1>2 DEF IInv, TypeOK, FlagsOK, SendClose, POLLOUT, Write, Die, InLoop,
        PleaseClose
  <2>2. WireOK'
    BY <1>2, WireStep DEF IInv, TypeOK, WireOK, SendClose
  <2>3. CallbacksOnce'
    BY <1>2 DEF IInv, TypeOK, FlagsOK, CallbacksOnce, SendClose, POLLOUT,
        Write, Die, InLoop, PleaseClose
  <2>4. UNCHANGED <<role, tls>>
    BY <1>2 DEF SendClose, POLLOUT, Write, Die, InLoop, PleaseClose
  <2>5. TypeOK'
    BY <1>2, <2>1, <2>2, <2>3, <2>4 DEF IInv, TypeOK, CallbacksOnce,
        SendClose, POLLOUT, Write, Die, InLoop, PleaseClose
  <2>6. Armed'
    BY <1>2 DEF IInv, TypeOK, FlagsOK, Armed, Handshake, SendClose, POLLOUT,
        Write, Die, InLoop, PleaseClose
  <2>7. TimerArmed'
    BY <1>2 DEF IInv, TypeOK, TimerArmed, SendClose, POLLOUT, Write, Die,
        InLoop, PleaseClose
  <2>8. Handshake' /\ NoPongAfterClose'
    BY <1>2 DEF IInv, TypeOK, FlagsOK, WireOK, Handshake, NoPongAfterClose,
        SendClose, POLLOUT, Write, Die, InLoop, PleaseClose
  <2> QED BY <2>3, <2>5, <2>6, <2>7, <2>8 DEF IInv
<1>3. ASSUME NEW outcome \in Outcome, ReturnClose(outcome) PROVE IInv'
  <2>1. FlagsOK'
    BY <1>3 DEF IInv, TypeOK, FlagsOK, ReturnClose, Answers, Write, Die,
        POLLOUT, PleaseClose, InLoop
  <2>2. WireOK'
    BY <1>3, WireStep DEF IInv, TypeOK, WireOK, ReturnClose
  <2>3. CallbacksOnce'
    BY <1>3 DEF IInv, TypeOK, FlagsOK, CallbacksOnce, ReturnClose, Answers,
        Write, Die, POLLOUT, PleaseClose, InLoop
  <2>4. UNCHANGED <<role, tls>>
    BY <1>3 DEF ReturnClose, Answers, Write, Die, POLLOUT, PleaseClose, InLoop
  <2>5. TypeOK'
    BY <1>3, <2>1, <2>2, <2>3, <2>4 DEF IInv, TypeOK, CallbacksOnce,
        ReturnClose, Answers, Write, Die, POLLOUT, PleaseClose, InLoop
  <2>6. Armed'
    BY <1>3 DEF IInv, TypeOK, FlagsOK, Armed, Handshake, ReturnClose, Answers,
        Write, Die, POLLOUT, PleaseClose, InLoop
  <2>7. TimerArmed'
    BY <1>3 DEF IInv, TypeOK, TimerArmed, ReturnClose, Answers, Write, Die,
        POLLOUT, PleaseClose, InLoop
  <2>8. Handshake' /\ NoPongAfterClose'
    BY <1>3 DEF IInv, TypeOK, FlagsOK, WireOK, Handshake, NoPongAfterClose,
        ReturnClose, Answers, Write, Die, POLLOUT, PleaseClose, InLoop
  <2> QED BY <2>3, <2>5, <2>6, <2>7, <2>8 DEF IInv
<1>4. ASSUME NEW outcome \in Outcome, SendPong(outcome) PROVE IInv'
  <2>1. FlagsOK'
    BY <1>4 DEF IInv, TypeOK, FlagsOK, SendPong, Answers, Write, Die, POLLOUT,
        PleaseClose, InLoop
  <2>2. WireOK'
    BY <1>4 DEF IInv, TypeOK, WireOK, SendPong, Answers, Write, Die, POLLOUT,
        PleaseClose, InLoop
  <2>3. CallbacksOnce'
    BY <1>4 DEF IInv, TypeOK, FlagsOK, CallbacksOnce, SendPong, Answers,
        Write, Die, POLLOUT, PleaseClose, InLoop
  <2>4. UNCHANGED <<role, tls>>
    BY <1>4 DEF SendPong, Answers, Write, Die, POLLOUT, PleaseClose, InLoop
  <2>5. TypeOK'
    BY <1>4, <2>1, <2>2, <2>3, <2>4 DEF IInv, TypeOK, CallbacksOnce, SendPong,
        Answers, Write, Die, POLLOUT, PleaseClose, InLoop
  <2>6. Armed'
    BY <1>4 DEF IInv, TypeOK, FlagsOK, Armed, Handshake, SendPong, Answers,
        Write, Die, POLLOUT, PleaseClose, InLoop
  <2>7. TimerArmed'
    BY <1>4 DEF IInv, TypeOK, TimerArmed, SendPong, Answers, Write, Die,
        POLLOUT, PleaseClose, InLoop
  <2>8. Handshake' /\ NoPongAfterClose'
    BY <1>4 DEF IInv, TypeOK, FlagsOK, WireOK, Handshake, NoPongAfterClose,
        SendPong, Answers, Write, Die, POLLOUT, PleaseClose, InLoop
  <2> QED BY <2>3, <2>5, <2>6, <2>7, <2>8 DEF IInv
<1>5. ASSUME NEW outcome \in Outcome, SendPing(outcome) PROVE IInv'
  <2>1. FlagsOK'
    BY <1>5 DEF IInv, TypeOK, FlagsOK, SendPing, Answers, Write, Die, POLLOUT,
        PleaseClose, InLoop
  <2>2. WireOK'
    BY <1>5 DEF IInv, TypeOK, WireOK, SendPing, Answers, Write, Die, POLLOUT,
        PleaseClose, InLoop
  <2>3. CallbacksOnce'
    BY <1>5 DEF IInv, TypeOK, FlagsOK, CallbacksOnce, SendPing, Answers,
        Write, Die, POLLOUT, PleaseClose, InLoop
  <2>4. UNCHANGED <<role, tls>>
    BY <1>5 DEF SendPing, Answers, Write, Die, POLLOUT, PleaseClose, InLoop
  <2>5. TypeOK'
    BY <1>5, <2>1, <2>2, <2>3, <2>4 DEF IInv, TypeOK, CallbacksOnce, SendPing,
        Answers, Write, Die, POLLOUT, PleaseClose, InLoop
  <2>6. Armed'
    BY <1>5 DEF IInv, TypeOK, FlagsOK, Armed, Handshake, SendPing, Answers,
        Write, Die, POLLOUT, PleaseClose, InLoop
  <2>7. TimerArmed'
    BY <1>5 DEF IInv, TypeOK, TimerArmed, SendPing, Answers, Write, Die,
        POLLOUT, PleaseClose, InLoop
  <2>8. Handshake' /\ NoPongAfterClose'
    BY <1>5 DEF IInv, TypeOK, FlagsOK, WireOK, Handshake, NoPongAfterClose,
        SendPing, Answers, Write, Die, POLLOUT, PleaseClose, InLoop
  <2> QED BY <2>3, <2>5, <2>6, <2>7, <2>8 DEF IInv
<1>6. ASSUME NEW outcome \in Outcome, UserWrites(outcome) PROVE IInv'
  <2>1. FlagsOK'
    BY <1>6 DEF IInv, TypeOK, FlagsOK, UserWrites, Writeable, Write,
        PleaseClose, Refuses, Answers, lws_close_reason, POLLOUT, InLoop
  <2>2. WireOK'
    BY <1>6 DEF IInv, TypeOK, WireOK, UserWrites, Writeable, Write,
        PleaseClose, Refuses, Answers, lws_close_reason, POLLOUT, InLoop
  <2>3. CallbacksOnce'
    BY <1>6 DEF IInv, TypeOK, FlagsOK, CallbacksOnce, UserWrites, Writeable,
        Write, PleaseClose, Refuses, Answers, lws_close_reason, POLLOUT,
        InLoop
  <2>4. UNCHANGED <<role, tls>>
    BY <1>6 DEF UserWrites, Writeable, Write, PleaseClose, Refuses, Answers,
        lws_close_reason, POLLOUT, InLoop
  <2>5. TypeOK'
    BY <1>6, <2>1, <2>2, <2>3, <2>4 DEF IInv, TypeOK, CallbacksOnce,
        UserWrites, Writeable, Write, PleaseClose, Refuses, Answers,
        lws_close_reason, POLLOUT, InLoop
  <2>6. Armed'
    BY <1>6 DEF IInv, TypeOK, FlagsOK, Armed, Handshake, UserWrites,
        Writeable, Write, PleaseClose, Refuses, Answers, lws_close_reason,
        POLLOUT, InLoop
  <2>7. TimerArmed'
    BY <1>6 DEF IInv, TypeOK, TimerArmed, UserWrites, Writeable, Write,
        PleaseClose, Refuses, Answers, lws_close_reason, POLLOUT, InLoop
  <2>8. Handshake' /\ NoPongAfterClose'
    BY <1>6 DEF IInv, TypeOK, FlagsOK, WireOK, Handshake, NoPongAfterClose,
        UserWrites, Writeable, Write, PleaseClose, Refuses, Answers,
        lws_close_reason, POLLOUT, InLoop
  <2> QED BY <2>3, <2>5, <2>6, <2>7, <2>8 DEF IInv
<1>7. CASE ForgetPong
  <2>1. FlagsOK'
    BY <1>7 DEF IInv, TypeOK, FlagsOK, ForgetPong, Answers, POLLOUT, InLoop
  <2>2. WireOK'
    BY <1>7 DEF IInv, TypeOK, WireOK, ForgetPong, Answers, POLLOUT, InLoop
  <2>3. CallbacksOnce'
    BY <1>7 DEF IInv, TypeOK, FlagsOK, CallbacksOnce, ForgetPong, Answers,
        POLLOUT, InLoop
  <2>4. UNCHANGED <<role, tls>>
    BY <1>7 DEF ForgetPong, Answers, POLLOUT, InLoop
  <2>5. TypeOK'
    BY <1>7, <2>1, <2>2, <2>3, <2>4 DEF IInv, TypeOK, CallbacksOnce,
        ForgetPong, Answers, POLLOUT, InLoop
  <2>6. Armed'
    BY <1>7 DEF IInv, TypeOK, FlagsOK, Armed, Handshake, ForgetPong, Answers,
        POLLOUT, InLoop
  <2>7. TimerArmed'
    BY <1>7 DEF IInv, TypeOK, TimerArmed, ForgetPong, Answers, POLLOUT, InLoop
  <2>8. Handshake' /\ NoPongAfterClose'
    BY <1>7 DEF IInv, TypeOK, FlagsOK, WireOK, Handshake, NoPongAfterClose,
        ForgetPong, Answers, POLLOUT, InLoop
  <2> QED BY <2>3, <2>5, <2>6, <2>7, <2>8 DEF IInv
<1>8. CASE UserIdle
  <2>1. FlagsOK'
    BY <1>8 DEF IInv, TypeOK, FlagsOK, UserIdle, Writeable, Answers, POLLOUT,
        InLoop
  <2>2. WireOK'
    BY <1>8 DEF IInv, TypeOK, WireOK, UserIdle, Writeable, Answers, POLLOUT,
        InLoop
  <2>3. CallbacksOnce'
    BY <1>8 DEF IInv, TypeOK, FlagsOK, CallbacksOnce, UserIdle, Writeable,
        Answers, POLLOUT, InLoop
  <2>4. UNCHANGED <<role, tls>>
    BY <1>8 DEF UserIdle, Writeable, Answers, POLLOUT, InLoop
  <2>5. TypeOK'
    BY <1>8, <2>1, <2>2, <2>3, <2>4 DEF IInv, TypeOK, CallbacksOnce, UserIdle,
        Writeable, Answers, POLLOUT, InLoop
  <2>6. Armed'
    BY <1>8 DEF IInv, TypeOK, FlagsOK, Armed, Handshake, UserIdle, Writeable,
        Answers, POLLOUT, InLoop
  <2>7. TimerArmed'
    BY <1>8 DEF IInv, TypeOK, TimerArmed, UserIdle, Writeable, Answers,
        POLLOUT, InLoop
  <2>8. Handshake' /\ NoPongAfterClose'
    BY <1>8 DEF IInv, TypeOK, FlagsOK, WireOK, Handshake, NoPongAfterClose,
        UserIdle, Writeable, Answers, POLLOUT, InLoop
  <2> QED BY <2>3, <2>5, <2>6, <2>7, <2>8 DEF IInv
<1>9. CASE UserCloses
  <2>1. FlagsOK'
    BY <1>9 DEF IInv, TypeOK, FlagsOK, UserCloses, Writeable, Refuses,
        Answers, PleaseClose, lws_close_reason, POLLOUT, InLoop
  <2>2. WireOK'
    BY <1>9 DEF IInv, TypeOK, WireOK, UserCloses, Writeable, Refuses, Answers,
        PleaseClose, lws_close_reason, POLLOUT, InLoop
  <2>3. CallbacksOnce'
    BY <1>9 DEF IInv, TypeOK, FlagsOK, CallbacksOnce, UserCloses, Writeable,
        Refuses, Answers, PleaseClose, lws_close_reason, POLLOUT, InLoop
  <2>4. UNCHANGED <<role, tls>>
    BY <1>9 DEF UserCloses, Writeable, Refuses, Answers, PleaseClose,
        lws_close_reason, POLLOUT, InLoop
  <2>5. TypeOK'
    BY <1>9, <2>1, <2>2, <2>3, <2>4 DEF IInv, TypeOK, CallbacksOnce,
        UserCloses, Writeable, Refuses, Answers, PleaseClose,
        lws_close_reason, POLLOUT, InLoop
  <2>6. Armed'
    BY <1>9 DEF IInv, TypeOK, FlagsOK, Armed, Handshake, UserCloses,
        Writeable, Refuses, Answers, PleaseClose, lws_close_reason, POLLOUT,
        InLoop
  <2>7. TimerArmed'
    BY <1>9 DEF IInv, TypeOK, TimerArmed, UserCloses, Writeable, Refuses,
        Answers, PleaseClose, lws_close_reason, POLLOUT, InLoop
  <2>8. Handshake' /\ NoPongAfterClose'
    BY <1>9 DEF IInv, TypeOK, FlagsOK, WireOK, Handshake, NoPongAfterClose,
        UserCloses, Writeable, Refuses, Answers, PleaseClose,
        lws_close_reason, POLLOUT, InLoop
  <2> QED BY <2>3, <2>5, <2>6, <2>7, <2>8 DEF IInv
<1> QED BY <1>1, <1>2, <1>3, <1>4, <1>5, <1>6, <1>7, <1>8, <1>9 DEF HandlePOLLOUT

(* A frame from the peer keeps the invariant. *)
LEMMA RxStep == IInv /\ Rx => IInv'
<1> SUFFICES ASSUME IInv, Rx PROVE IInv'
  OBVIOUS
<1>1. CASE RxRefused
  <2>1. FlagsOK'
    BY <1>1 DEF IInv, TypeOK, FlagsOK, RxRefused, Reads, Refuses, InLoop,
        PleaseClose, lws_close_reason
  <2>2. WireOK'
    BY <1>1 DEF IInv, TypeOK, WireOK, RxRefused, Reads, Refuses, InLoop,
        PleaseClose, lws_close_reason
  <2>3. CallbacksOnce'
    BY <1>1 DEF IInv, TypeOK, FlagsOK, CallbacksOnce, RxRefused, Reads,
        Refuses, InLoop, PleaseClose, lws_close_reason
  <2>4. UNCHANGED <<role, tls>>
    BY <1>1 DEF RxRefused, Reads, Refuses, InLoop, PleaseClose,
        lws_close_reason
  <2>5. TypeOK'
    BY <1>1, <2>1, <2>2, <2>3, <2>4 DEF IInv, TypeOK, CallbacksOnce,
        RxRefused, Reads, Refuses, InLoop, PleaseClose, lws_close_reason
  <2>6. Armed'
    BY <1>1 DEF IInv, TypeOK, FlagsOK, Armed, Handshake, RxRefused, Reads,
        Refuses, InLoop, PleaseClose, lws_close_reason
  <2>7. TimerArmed'
    BY <1>1 DEF IInv, TypeOK, TimerArmed, RxRefused, Reads, Refuses, InLoop,
        PleaseClose, lws_close_reason
  <2>8. Handshake' /\ NoPongAfterClose'
    BY <1>1 DEF IInv, TypeOK, FlagsOK, WireOK, Handshake, NoPongAfterClose,
        RxRefused, Reads, Refuses, InLoop, PleaseClose, lws_close_reason
  <2> QED BY <2>3, <2>5, <2>6, <2>7, <2>8 DEF IInv
<1>2. CASE ServerClosesOnClose
  <2>1. FlagsOK'
    BY <1>2 DEF IInv, TypeOK, FlagsOK, ServerClosesOnClose, ServerSeesClose,
        PleaseClose, Reads, InLoop
  <2>2. WireOK'
    BY <1>2 DEF IInv, TypeOK, WireOK, ServerClosesOnClose, ServerSeesClose,
        PleaseClose, Reads, InLoop
  <2>3. CallbacksOnce'
    BY <1>2 DEF IInv, TypeOK, FlagsOK, CallbacksOnce, ServerClosesOnClose,
        ServerSeesClose, PleaseClose, Reads, InLoop
  <2>4. UNCHANGED <<role, tls>>
    BY <1>2 DEF ServerClosesOnClose, ServerSeesClose, PleaseClose, Reads,
        InLoop
  <2>5. TypeOK'
    BY <1>2, <2>1, <2>2, <2>3, <2>4 DEF IInv, TypeOK, CallbacksOnce,
        ServerClosesOnClose, ServerSeesClose, PleaseClose, Reads, InLoop
  <2>6. Armed'
    BY <1>2 DEF IInv, TypeOK, FlagsOK, Armed, Handshake, ServerClosesOnClose,
        ServerSeesClose, PleaseClose, Reads, InLoop
  <2>7. TimerArmed'
    BY <1>2 DEF IInv, TypeOK, TimerArmed, ServerClosesOnClose,
        ServerSeesClose, PleaseClose, Reads, InLoop
  <2>8. Handshake' /\ NoPongAfterClose'
    BY <1>2 DEF IInv, TypeOK, FlagsOK, WireOK, Handshake, NoPongAfterClose,
        ServerClosesOnClose, ServerSeesClose, PleaseClose, Reads, InLoop
  <2> QED BY <2>3, <2>5, <2>6, <2>7, <2>8 DEF IInv
<1>3. CASE ServerUserRefusesClose
  <2>1. FlagsOK'
    BY <1>3 DEF IInv, TypeOK, FlagsOK, ServerUserRefusesClose,
        ServerSeesClose, Refuses, Reads, PleaseClose, lws_close_reason, InLoop
  <2>2. WireOK'
    BY <1>3 DEF IInv, TypeOK, WireOK, ServerUserRefusesClose, ServerSeesClose,
        Refuses, Reads, PleaseClose, lws_close_reason, InLoop
  <2>3. CallbacksOnce'
    BY <1>3 DEF IInv, TypeOK, FlagsOK, CallbacksOnce, ServerUserRefusesClose,
        ServerSeesClose, Refuses, Reads, PleaseClose, lws_close_reason, InLoop
  <2>4. UNCHANGED <<role, tls>>
    BY <1>3 DEF ServerUserRefusesClose, ServerSeesClose, Refuses, Reads,
        PleaseClose, lws_close_reason, InLoop
  <2>5. TypeOK'
    BY <1>3, <2>1, <2>2, <2>3, <2>4 DEF IInv, TypeOK, CallbacksOnce,
        ServerUserRefusesClose, ServerSeesClose, Refuses, Reads, PleaseClose,
        lws_close_reason, InLoop
  <2>6. Armed'
    BY <1>3 DEF IInv, TypeOK, FlagsOK, Armed, Handshake,
        ServerUserRefusesClose, ServerSeesClose, Refuses, Reads, PleaseClose,
        lws_close_reason, InLoop
  <2>7. TimerArmed'
    BY <1>3 DEF IInv, TypeOK, TimerArmed, ServerUserRefusesClose,
        ServerSeesClose, Refuses, Reads, PleaseClose, lws_close_reason, InLoop
  <2>8. Handshake' /\ NoPongAfterClose'
    BY <1>3 DEF IInv, TypeOK, FlagsOK, WireOK, Handshake, NoPongAfterClose,
        ServerUserRefusesClose, ServerSeesClose, Refuses, Reads, PleaseClose,
        lws_close_reason, InLoop
  <2> QED BY <2>3, <2>5, <2>6, <2>7, <2>8 DEF IInv
<1>4. CASE ServerAnswersClose
  <2>1. FlagsOK'
    BY <1>4 DEF IInv, TypeOK, FlagsOK, ServerAnswersClose, ServerSeesClose,
        lws_callback_on_writable, Reads, InLoop
  <2>2. WireOK'
    BY <1>4 DEF IInv, TypeOK, WireOK, ServerAnswersClose, ServerSeesClose,
        lws_callback_on_writable, Reads, InLoop
  <2>3. CallbacksOnce'
    BY <1>4 DEF IInv, TypeOK, FlagsOK, CallbacksOnce, ServerAnswersClose,
        ServerSeesClose, lws_callback_on_writable, Reads, InLoop
  <2>4. UNCHANGED <<role, tls>>
    BY <1>4 DEF ServerAnswersClose, ServerSeesClose, lws_callback_on_writable,
        Reads, InLoop
  <2>5. TypeOK'
    BY <1>4, <2>1, <2>2, <2>3, <2>4 DEF IInv, TypeOK, CallbacksOnce,
        ServerAnswersClose, ServerSeesClose, lws_callback_on_writable, Reads,
        InLoop
  <2>6. Armed'
    BY <1>4 DEF IInv, TypeOK, FlagsOK, Armed, Handshake, ServerAnswersClose,
        ServerSeesClose, lws_callback_on_writable, Reads, InLoop
  <2>7. TimerArmed'
    BY <1>4 DEF IInv, TypeOK, TimerArmed, ServerAnswersClose, ServerSeesClose,
        lws_callback_on_writable, Reads, InLoop
  <2>8. Handshake' /\ NoPongAfterClose'
    BY <1>4 DEF IInv, TypeOK, FlagsOK, WireOK, Handshake, NoPongAfterClose,
        ServerAnswersClose, ServerSeesClose, lws_callback_on_writable, Reads,
        InLoop
  <2> QED BY <2>3, <2>5, <2>6, <2>7, <2>8 DEF IInv
<1>5. CASE ServerRxPing
  <2>1. FlagsOK'
    BY <1>5 DEF IInv, TypeOK, FlagsOK, ServerRxPing, Reads,
        lws_callback_on_writable, InLoop
  <2>2. WireOK'
    BY <1>5 DEF IInv, TypeOK, WireOK, ServerRxPing, Reads,
        lws_callback_on_writable, InLoop
  <2>3. CallbacksOnce'
    BY <1>5 DEF IInv, TypeOK, FlagsOK, CallbacksOnce, ServerRxPing, Reads,
        lws_callback_on_writable, InLoop
  <2>4. UNCHANGED <<role, tls>>
    BY <1>5 DEF ServerRxPing, Reads, lws_callback_on_writable, InLoop
  <2>5. TypeOK'
    BY <1>5, <2>1, <2>2, <2>3, <2>4 DEF IInv, TypeOK, CallbacksOnce,
        ServerRxPing, Reads, lws_callback_on_writable, InLoop
  <2>6. Armed'
    BY <1>5 DEF IInv, TypeOK, FlagsOK, Armed, Handshake, ServerRxPing, Reads,
        lws_callback_on_writable, InLoop
  <2>7. TimerArmed'
    BY <1>5 DEF IInv, TypeOK, TimerArmed, ServerRxPing, Reads,
        lws_callback_on_writable, InLoop
  <2>8. Handshake' /\ NoPongAfterClose'
    BY <1>5 DEF IInv, TypeOK, FlagsOK, WireOK, Handshake, NoPongAfterClose,
        ServerRxPing, Reads, lws_callback_on_writable, InLoop
  <2> QED BY <2>3, <2>5, <2>6, <2>7, <2>8 DEF IInv
<1>6. CASE ClientClosesOnClose
  <2>1. FlagsOK'
    BY <1>6 DEF IInv, TypeOK, FlagsOK, ClientClosesOnClose, Reads,
        PleaseClose, InLoop
  <2>2. WireOK'
    BY <1>6 DEF IInv, TypeOK, WireOK, ClientClosesOnClose, Reads, PleaseClose,
        InLoop
  <2>3. CallbacksOnce'
    BY <1>6 DEF IInv, TypeOK, FlagsOK, CallbacksOnce, ClientClosesOnClose,
        Reads, PleaseClose, InLoop
  <2>4. UNCHANGED <<role, tls>>
    BY <1>6 DEF ClientClosesOnClose, Reads, PleaseClose, InLoop
  <2>5. TypeOK'
    BY <1>6, <2>1, <2>2, <2>3, <2>4 DEF IInv, TypeOK, CallbacksOnce,
        ClientClosesOnClose, Reads, PleaseClose, InLoop
  <2>6. Armed'
    BY <1>6 DEF IInv, TypeOK, FlagsOK, Armed, Handshake, ClientClosesOnClose,
        Reads, PleaseClose, InLoop
  <2>7. TimerArmed'
    BY <1>6 DEF IInv, TypeOK, TimerArmed, ClientClosesOnClose, Reads,
        PleaseClose, InLoop
  <2>8. Handshake' /\ NoPongAfterClose'
    BY <1>6 DEF IInv, TypeOK, FlagsOK, WireOK, Handshake, NoPongAfterClose,
        ClientClosesOnClose, Reads, PleaseClose, InLoop
  <2> QED BY <2>3, <2>5, <2>6, <2>7, <2>8 DEF IInv
<1>7. CASE ClientUserRefusesClose
  <2>1. FlagsOK'
    <3>1. FlagsOK
      BY DEF IInv, TypeOK
    <3>2. close_len' \in BOOLEAN
      BY <1>7, <3>1 DEF FlagsOK, ClientUserRefusesClose, Refuses,
          lws_close_reason
    <3> QED BY <1>7, <3>1, <3>2 DEF FlagsOK, ClientUserRefusesClose, Reads
  <2>2. WireOK'
    BY <1>7 DEF IInv, TypeOK, WireOK, ClientUserRefusesClose, Reads, Refuses,
        InLoop, PleaseClose, lws_close_reason
  <2>3. CallbacksOnce'
    BY <1>7 DEF IInv, TypeOK, FlagsOK, CallbacksOnce, ClientUserRefusesClose,
        Reads, Refuses, InLoop, PleaseClose, lws_close_reason
  <2>4. UNCHANGED <<role, tls>>
    BY <1>7 DEF ClientUserRefusesClose, Reads, Refuses, InLoop, PleaseClose,
        lws_close_reason
  <2>5. TypeOK'
    BY <1>7, <2>1, <2>2, <2>3, <2>4 DEF IInv, TypeOK, CallbacksOnce,
        ClientUserRefusesClose, Reads, Refuses, InLoop, PleaseClose,
        lws_close_reason
  <2>6. Armed'
    BY <1>7 DEF IInv, TypeOK, FlagsOK, Armed, Handshake,
        ClientUserRefusesClose, Reads, Refuses, InLoop, PleaseClose,
        lws_close_reason
  <2>7. TimerArmed'
    BY <1>7 DEF IInv, TypeOK, TimerArmed, ClientUserRefusesClose, Reads,
        Refuses, InLoop, PleaseClose, lws_close_reason
  <2>8. Handshake' /\ NoPongAfterClose'
    BY <1>7 DEF IInv, TypeOK, FlagsOK, WireOK, Handshake, NoPongAfterClose,
        ClientUserRefusesClose, Reads, Refuses, InLoop, PleaseClose,
        lws_close_reason
  <2> QED BY <2>3, <2>5, <2>6, <2>7, <2>8 DEF IInv
<1>8. CASE ClientAnswersClose
  <2>1. FlagsOK'
    BY <1>8 DEF IInv, TypeOK, FlagsOK, ClientAnswersClose, Reads,
        lws_callback_on_writable, InLoop
  <2>2. WireOK'
    BY <1>8 DEF IInv, TypeOK, WireOK, ClientAnswersClose, Reads,
        lws_callback_on_writable, InLoop
  <2>3. CallbacksOnce'
    BY <1>8 DEF IInv, TypeOK, FlagsOK, CallbacksOnce, ClientAnswersClose,
        Reads, lws_callback_on_writable, InLoop
  <2>4. UNCHANGED <<role, tls>>
    BY <1>8 DEF ClientAnswersClose, Reads, lws_callback_on_writable, InLoop
  <2>5. TypeOK'
    BY <1>8, <2>1, <2>2, <2>3, <2>4 DEF IInv, TypeOK, CallbacksOnce,
        ClientAnswersClose, Reads, lws_callback_on_writable, InLoop
  <2>6. Armed'
    BY <1>8 DEF IInv, TypeOK, FlagsOK, Armed, Handshake, ClientAnswersClose,
        Reads, lws_callback_on_writable, InLoop
  <2>7. TimerArmed'
    BY <1>8 DEF IInv, TypeOK, TimerArmed, ClientAnswersClose, Reads,
        lws_callback_on_writable, InLoop
  <2>8. Handshake' /\ NoPongAfterClose'
    BY <1>8 DEF IInv, TypeOK, FlagsOK, WireOK, Handshake, NoPongAfterClose,
        ClientAnswersClose, Reads, lws_callback_on_writable, InLoop
  <2> QED BY <2>3, <2>5, <2>6, <2>7, <2>8 DEF IInv
<1>9. CASE ClientRxPing
  <2>1. FlagsOK'
    BY <1>9 DEF IInv, TypeOK, FlagsOK, ClientRxPing, Reads,
        lws_callback_on_writable, InLoop
  <2>2. WireOK'
    BY <1>9 DEF IInv, TypeOK, WireOK, ClientRxPing, Reads,
        lws_callback_on_writable, InLoop
  <2>3. CallbacksOnce'
    BY <1>9 DEF IInv, TypeOK, FlagsOK, CallbacksOnce, ClientRxPing, Reads,
        lws_callback_on_writable, InLoop
  <2>4. UNCHANGED <<role, tls>>
    BY <1>9 DEF ClientRxPing, Reads, lws_callback_on_writable, InLoop
  <2>5. TypeOK'
    BY <1>9, <2>1, <2>2, <2>3, <2>4 DEF IInv, TypeOK, CallbacksOnce,
        ClientRxPing, Reads, lws_callback_on_writable, InLoop
  <2>6. Armed'
    BY <1>9 DEF IInv, TypeOK, FlagsOK, Armed, Handshake, ClientRxPing, Reads,
        lws_callback_on_writable, InLoop
  <2>7. TimerArmed'
    BY <1>9 DEF IInv, TypeOK, TimerArmed, ClientRxPing, Reads,
        lws_callback_on_writable, InLoop
  <2>8. Handshake' /\ NoPongAfterClose'
    BY <1>9 DEF IInv, TypeOK, FlagsOK, WireOK, Handshake, NoPongAfterClose,
        ClientRxPing, Reads, lws_callback_on_writable, InLoop
  <2> QED BY <2>3, <2>5, <2>6, <2>7, <2>8 DEF IInv
<1>10. CASE RxPong
  <2>1. FlagsOK'
    BY <1>10 DEF IInv, TypeOK, FlagsOK, RxPong, Reads, Refuses, InLoop,
        PleaseClose, lws_close_reason
  <2>2. WireOK'
    BY <1>10 DEF IInv, TypeOK, WireOK, RxPong, Reads, Refuses, InLoop,
        PleaseClose, lws_close_reason
  <2>3. CallbacksOnce'
    BY <1>10 DEF IInv, TypeOK, FlagsOK, CallbacksOnce, RxPong, Reads, Refuses,
        InLoop, PleaseClose, lws_close_reason
  <2>4. UNCHANGED <<role, tls>>
    BY <1>10 DEF RxPong, Reads, Refuses, InLoop, PleaseClose, lws_close_reason
  <2>5. TypeOK'
    BY <1>10, <2>1, <2>2, <2>3, <2>4 DEF IInv, TypeOK, CallbacksOnce, RxPong,
        Reads, Refuses, InLoop, PleaseClose, lws_close_reason
  <2>6. Armed'
    BY <1>10 DEF IInv, TypeOK, FlagsOK, Armed, Handshake, RxPong, Reads,
        Refuses, InLoop, PleaseClose, lws_close_reason
  <2>7. TimerArmed'
    BY <1>10 DEF IInv, TypeOK, TimerArmed, RxPong, Reads, Refuses, InLoop,
        PleaseClose, lws_close_reason
  <2>8. Handshake' /\ NoPongAfterClose'
    BY <1>10 DEF IInv, TypeOK, FlagsOK, WireOK, Handshake, NoPongAfterClose,
        RxPong, Reads, Refuses, InLoop, PleaseClose, lws_close_reason
  <2> QED BY <2>3, <2>5, <2>6, <2>7, <2>8 DEF IInv
<1> QED BY <1>1, <1>2, <1>3, <1>4, <1>5, <1>6, <1>7, <1>8, <1>9, <1>10 DEF Rx

(* Every other event keeps the invariant. *)
LEMMA EventStep == IInv /\ Event => IInv'
<1> SUFFICES ASSUME IInv, Event PROVE IInv'
  OBVIOUS
<1>1. CASE Eof
  <2>1. FlagsOK'
    BY <1>1 DEF IInv, TypeOK, FlagsOK, Eof, InLoop, PleaseClose, Quiet
  <2>2. WireOK'
    BY <1>1 DEF IInv, TypeOK, WireOK, Eof, InLoop, PleaseClose, Quiet
  <2>3. CallbacksOnce'
    BY <1>1 DEF IInv, TypeOK, FlagsOK, CallbacksOnce, Eof, InLoop,
        PleaseClose, Quiet
  <2>4. UNCHANGED <<role, tls>>
    BY <1>1 DEF Eof, InLoop, PleaseClose, Quiet
  <2>5. TypeOK'
    BY <1>1, <2>1, <2>2, <2>3, <2>4 DEF IInv, TypeOK, CallbacksOnce, Eof,
        InLoop, PleaseClose, Quiet
  <2>6. Armed'
    BY <1>1 DEF IInv, TypeOK, FlagsOK, Armed, Handshake, Eof, InLoop,
        PleaseClose, Quiet
  <2>7. TimerArmed'
    BY <1>1 DEF IInv, TypeOK, TimerArmed, Eof, InLoop, PleaseClose, Quiet
  <2>8. Handshake' /\ NoPongAfterClose'
    BY <1>1 DEF IInv, TypeOK, FlagsOK, WireOK, Handshake, NoPongAfterClose,
        Eof, InLoop, PleaseClose, Quiet
  <2> QED BY <2>3, <2>5, <2>6, <2>7, <2>8 DEF IInv
<1>2. CASE Hup
  <2>1. FlagsOK'
    BY <1>2 DEF IInv, TypeOK, FlagsOK, Hup, InLoop, PleaseClose, Quiet
  <2>2. WireOK'
    BY <1>2 DEF IInv, TypeOK, WireOK, Hup, InLoop, PleaseClose, Quiet
  <2>3. CallbacksOnce'
    BY <1>2 DEF IInv, TypeOK, FlagsOK, CallbacksOnce, Hup, InLoop,
        PleaseClose, Quiet
  <2>4. UNCHANGED <<role, tls>>
    BY <1>2 DEF Hup, InLoop, PleaseClose, Quiet
  <2>5. TypeOK'
    BY <1>2, <2>1, <2>2, <2>3, <2>4 DEF IInv, TypeOK, CallbacksOnce, Hup,
        InLoop, PleaseClose, Quiet
  <2>6. Armed'
    BY <1>2 DEF IInv, TypeOK, FlagsOK, Armed, Handshake, Hup, InLoop,
        PleaseClose, Quiet
  <2>7. TimerArmed'
    BY <1>2 DEF IInv, TypeOK, TimerArmed, Hup, InLoop, PleaseClose, Quiet
  <2>8. Handshake' /\ NoPongAfterClose'
    BY <1>2 DEF IInv, TypeOK, FlagsOK, WireOK, Handshake, NoPongAfterClose,
        Hup, InLoop, PleaseClose, Quiet
  <2> QED BY <2>3, <2>5, <2>6, <2>7, <2>8 DEF IInv
<1>3. CASE TlsShutdown
  <2>1. FlagsOK'
    BY <1>3 DEF IInv, TypeOK, FlagsOK, TlsShutdown, InLoop, PleaseClose, Quiet
  <2>2. WireOK'
    BY <1>3 DEF IInv, TypeOK, WireOK, TlsShutdown, InLoop, PleaseClose, Quiet
  <2>3. CallbacksOnce'
    BY <1>3 DEF IInv, TypeOK, FlagsOK, CallbacksOnce, TlsShutdown, InLoop,
        PleaseClose, Quiet
  <2>4. UNCHANGED <<role, tls>>
    BY <1>3 DEF TlsShutdown, InLoop, PleaseClose, Quiet
  <2>5. TypeOK'
    BY <1>3, <2>1, <2>2, <2>3, <2>4 DEF IInv, TypeOK, CallbacksOnce,
        TlsShutdown, InLoop, PleaseClose, Quiet
  <2>6. Armed'
    BY <1>3 DEF IInv, TypeOK, FlagsOK, Armed, Handshake, TlsShutdown, InLoop,
        PleaseClose, Quiet
  <2>7. TimerArmed'
    BY <1>3 DEF IInv, TypeOK, TimerArmed, TlsShutdown, InLoop, PleaseClose,
        Quiet
  <2>8. Handshake' /\ NoPongAfterClose'
    BY <1>3 DEF IInv, TypeOK, FlagsOK, WireOK, Handshake, NoPongAfterClose,
        TlsShutdown, InLoop, PleaseClose, Quiet
  <2> QED BY <2>3, <2>5, <2>6, <2>7, <2>8 DEF IInv
<1>4. CASE lws_sul_wsitimeout_cb
  <2>1. FlagsOK'
    BY <1>4 DEF IInv, TypeOK, FlagsOK, lws_sul_wsitimeout_cb, InLoop,
        PleaseClose, Quiet
  <2>2. WireOK'
    BY <1>4 DEF IInv, TypeOK, WireOK, lws_sul_wsitimeout_cb, InLoop,
        PleaseClose, Quiet
  <2>3. CallbacksOnce'
    BY <1>4 DEF IInv, TypeOK, FlagsOK, CallbacksOnce, lws_sul_wsitimeout_cb,
        InLoop, PleaseClose, Quiet
  <2>4. UNCHANGED <<role, tls>>
    BY <1>4 DEF lws_sul_wsitimeout_cb, InLoop, PleaseClose, Quiet
  <2>5. TypeOK'
    BY <1>4, <2>1, <2>2, <2>3, <2>4 DEF IInv, TypeOK, CallbacksOnce,
        lws_sul_wsitimeout_cb, InLoop, PleaseClose, Quiet
  <2>6. Armed'
    BY <1>4 DEF IInv, TypeOK, FlagsOK, Armed, Handshake,
        lws_sul_wsitimeout_cb, InLoop, PleaseClose, Quiet
  <2>7. TimerArmed'
    BY <1>4 DEF IInv, TypeOK, TimerArmed, lws_sul_wsitimeout_cb, InLoop,
        PleaseClose, Quiet
  <2>8. Handshake' /\ NoPongAfterClose'
    BY <1>4 DEF IInv, TypeOK, FlagsOK, WireOK, Handshake, NoPongAfterClose,
        lws_sul_wsitimeout_cb, InLoop, PleaseClose, Quiet
  <2> QED BY <2>3, <2>5, <2>6, <2>7, <2>8 DEF IInv
<1>5. CASE ValidityPing
  <2>1. FlagsOK'
    BY <1>5 DEF IInv, TypeOK, FlagsOK, ValidityPing, InLoop,
        lws_callback_on_writable, Quiet
  <2>2. WireOK'
    BY <1>5 DEF IInv, TypeOK, WireOK, ValidityPing, InLoop,
        lws_callback_on_writable, Quiet
  <2>3. CallbacksOnce'
    BY <1>5 DEF IInv, TypeOK, FlagsOK, CallbacksOnce, ValidityPing, InLoop,
        lws_callback_on_writable, Quiet
  <2>4. UNCHANGED <<role, tls>>
    BY <1>5 DEF ValidityPing, InLoop, lws_callback_on_writable, Quiet
  <2>5. TypeOK'
    BY <1>5, <2>1, <2>2, <2>3, <2>4 DEF IInv, TypeOK, CallbacksOnce,
        ValidityPing, InLoop, lws_callback_on_writable, Quiet
  <2>6. Armed'
    BY <1>5 DEF IInv, TypeOK, FlagsOK, Armed, Handshake, ValidityPing, InLoop,
        lws_callback_on_writable, Quiet
  <2>7. TimerArmed'
    BY <1>5 DEF IInv, TypeOK, TimerArmed, ValidityPing, InLoop,
        lws_callback_on_writable, Quiet
  <2>8. Handshake' /\ NoPongAfterClose'
    BY <1>5 DEF IInv, TypeOK, FlagsOK, WireOK, Handshake, NoPongAfterClose,
        ValidityPing, InLoop, lws_callback_on_writable, Quiet
  <2> QED BY <2>3, <2>5, <2>6, <2>7, <2>8 DEF IInv
<1>6. CASE ValidityHup
  <2>1. FlagsOK'
    BY <1>6 DEF IInv, TypeOK, FlagsOK, ValidityHup, InLoop, PleaseClose, Quiet
  <2>2. WireOK'
    BY <1>6 DEF IInv, TypeOK, WireOK, ValidityHup, InLoop, PleaseClose, Quiet
  <2>3. CallbacksOnce'
    BY <1>6 DEF IInv, TypeOK, FlagsOK, CallbacksOnce, ValidityHup, InLoop,
        PleaseClose, Quiet
  <2>4. UNCHANGED <<role, tls>>
    BY <1>6 DEF ValidityHup, InLoop, PleaseClose, Quiet
  <2>5. TypeOK'
    BY <1>6, <2>1, <2>2, <2>3, <2>4 DEF IInv, TypeOK, CallbacksOnce,
        ValidityHup, InLoop, PleaseClose, Quiet
  <2>6. Armed'
    BY <1>6 DEF IInv, TypeOK, FlagsOK, Armed, Handshake, ValidityHup, InLoop,
        PleaseClose, Quiet
  <2>7. TimerArmed'
    BY <1>6 DEF IInv, TypeOK, TimerArmed, ValidityHup, InLoop, PleaseClose,
        Quiet
  <2>8. Handshake' /\ NoPongAfterClose'
    BY <1>6 DEF IInv, TypeOK, FlagsOK, WireOK, Handshake, NoPongAfterClose,
        ValidityHup, InLoop, PleaseClose, Quiet
  <2> QED BY <2>3, <2>5, <2>6, <2>7, <2>8 DEF IInv
<1>7. CASE KillSync
  <2>1. FlagsOK'
    BY <1>7 DEF IInv, TypeOK, FlagsOK, KillSync, InLoop, Quiet
  <2>2. WireOK'
    BY <1>7 DEF IInv, TypeOK, WireOK, KillSync, InLoop, Quiet
  <2>3. CallbacksOnce'
    BY <1>7 DEF IInv, TypeOK, FlagsOK, CallbacksOnce, KillSync, InLoop, Quiet
  <2>4. UNCHANGED <<role, tls>>
    BY <1>7 DEF KillSync, InLoop, Quiet
  <2>5. TypeOK'
    BY <1>7, <2>1, <2>2, <2>3, <2>4 DEF IInv, TypeOK, CallbacksOnce, KillSync,
        InLoop, Quiet
  <2>6. Armed'
    BY <1>7 DEF IInv, TypeOK, FlagsOK, Armed, Handshake, KillSync, InLoop,
        Quiet
  <2>7. TimerArmed'
    BY <1>7 DEF IInv, TypeOK, TimerArmed, KillSync, InLoop, Quiet
  <2>8. Handshake' /\ NoPongAfterClose'
    BY <1>7 DEF IInv, TypeOK, FlagsOK, WireOK, Handshake, NoPongAfterClose,
        KillSync, InLoop, Quiet
  <2> QED BY <2>3, <2>5, <2>6, <2>7, <2>8 DEF IInv
<1>8. CASE KillAsync
  <2>1. FlagsOK'
    BY <1>8 DEF IInv, TypeOK, FlagsOK, KillAsync, InLoop, Quiet
  <2>2. WireOK'
    BY <1>8 DEF IInv, TypeOK, WireOK, KillAsync, InLoop, Quiet
  <2>3. CallbacksOnce'
    BY <1>8 DEF IInv, TypeOK, FlagsOK, CallbacksOnce, KillAsync, InLoop, Quiet
  <2>4. UNCHANGED <<role, tls>>
    BY <1>8 DEF KillAsync, InLoop, Quiet
  <2>5. TypeOK'
    BY <1>8, <2>1, <2>2, <2>3, <2>4 DEF IInv, TypeOK, CallbacksOnce,
        KillAsync, InLoop, Quiet
  <2>6. Armed'
    BY <1>8 DEF IInv, TypeOK, FlagsOK, Armed, Handshake, KillAsync, InLoop,
        Quiet
  <2>7. TimerArmed'
    BY <1>8 DEF IInv, TypeOK, TimerArmed, KillAsync, InLoop, Quiet
  <2>8. Handshake' /\ NoPongAfterClose'
    BY <1>8 DEF IInv, TypeOK, FlagsOK, WireOK, Handshake, NoPongAfterClose,
        KillAsync, InLoop, Quiet
  <2> QED BY <2>3, <2>5, <2>6, <2>7, <2>8 DEF IInv
<1>9. CASE ContextDestroy
  <2>1. FlagsOK'
    BY <1>9 DEF IInv, TypeOK, FlagsOK, ContextDestroy, InLoop, Quiet
  <2>2. WireOK'
    BY <1>9 DEF IInv, TypeOK, WireOK, ContextDestroy, InLoop, Quiet
  <2>3. CallbacksOnce'
    BY <1>9 DEF IInv, TypeOK, FlagsOK, CallbacksOnce, ContextDestroy, InLoop,
        Quiet
  <2>4. UNCHANGED <<role, tls>>
    BY <1>9 DEF ContextDestroy, InLoop, Quiet
  <2>5. TypeOK'
    BY <1>9, <2>1, <2>2, <2>3, <2>4 DEF IInv, TypeOK, CallbacksOnce,
        ContextDestroy, InLoop, Quiet
  <2>6. Armed'
    BY <1>9 DEF IInv, TypeOK, FlagsOK, Armed, Handshake, ContextDestroy,
        InLoop, Quiet
  <2>7. TimerArmed'
    BY <1>9 DEF IInv, TypeOK, TimerArmed, ContextDestroy, InLoop, Quiet
  <2>8. Handshake' /\ NoPongAfterClose'
    <3>1. Handshake'
      BY <1>9 DEF IInv, TypeOK, FlagsOK, WireOK, Handshake, ContextDestroy,
          InLoop, Quiet
    <3>2. NoPongAfterClose'
      BY <1>9 DEF IInv, TypeOK, FlagsOK, WireOK, NoPongAfterClose,
          ContextDestroy, InLoop, Quiet
    <3> QED BY <3>1, <3>2
  <2> QED BY <2>3, <2>5, <2>6, <2>7, <2>8 DEF IInv
<1>10. CASE HrTimer
  <2>1. FlagsOK'
    <3>1. FlagsOK
      BY DEF IInv, TypeOK
    <3>2. close_len' \in BOOLEAN
      BY <1>10, <3>1 DEF FlagsOK, HrTimer, Refuses, lws_close_reason
    <3> QED BY <1>10, <3>1, <3>2 DEF FlagsOK, HrTimer, Quiet
  <2>2. WireOK'
    BY <1>10 DEF IInv, TypeOK, WireOK, HrTimer, InLoop, Refuses, Quiet,
        PleaseClose, lws_close_reason
  <2>3. CallbacksOnce'
    BY <1>10 DEF IInv, TypeOK, FlagsOK, CallbacksOnce, HrTimer, InLoop,
        Refuses, Quiet, PleaseClose, lws_close_reason
  <2>4. UNCHANGED <<role, tls>>
    BY <1>10 DEF HrTimer, InLoop, Refuses, Quiet, PleaseClose,
        lws_close_reason
  <2>5. TypeOK'
    BY <1>10, <2>1, <2>2, <2>3, <2>4 DEF IInv, TypeOK, CallbacksOnce, HrTimer,
        InLoop, Refuses, Quiet, PleaseClose, lws_close_reason
  <2>6. Armed'
    BY <1>10 DEF IInv, TypeOK, FlagsOK, Armed, Handshake, HrTimer, InLoop,
        Refuses, Quiet, PleaseClose, lws_close_reason
  <2>7. TimerArmed'
    BY <1>10 DEF IInv, TypeOK, TimerArmed, HrTimer, InLoop, Refuses, Quiet,
        PleaseClose, lws_close_reason
  <2>8. Handshake' /\ NoPongAfterClose'
    BY <1>10 DEF IInv, TypeOK, FlagsOK, WireOK, Handshake, NoPongAfterClose,
        HrTimer, InLoop, Refuses, Quiet, PleaseClose, lws_close_reason
  <2> QED BY <2>3, <2>5, <2>6, <2>7, <2>8 DEF IInv
<1>11. CASE AskWriteable
  <2>1. FlagsOK'
    BY <1>11 DEF IInv, TypeOK, FlagsOK, AskWriteable, InLoop,
        lws_callback_on_writable, Quiet
  <2>2. WireOK'
    BY <1>11 DEF IInv, TypeOK, WireOK, AskWriteable, InLoop,
        lws_callback_on_writable, Quiet
  <2>3. CallbacksOnce'
    BY <1>11 DEF IInv, TypeOK, FlagsOK, CallbacksOnce, AskWriteable, InLoop,
        lws_callback_on_writable, Quiet
  <2>4. UNCHANGED <<role, tls>>
    BY <1>11 DEF AskWriteable, InLoop, lws_callback_on_writable, Quiet
  <2>5. TypeOK'
    BY <1>11, <2>1, <2>2, <2>3, <2>4 DEF IInv, TypeOK, CallbacksOnce,
        AskWriteable, InLoop, lws_callback_on_writable, Quiet
  <2>6. Armed'
    BY <1>11 DEF IInv, TypeOK, FlagsOK, Armed, Handshake, AskWriteable,
        InLoop, lws_callback_on_writable, Quiet
  <2>7. TimerArmed'
    BY <1>11 DEF IInv, TypeOK, TimerArmed, AskWriteable, InLoop,
        lws_callback_on_writable, Quiet
  <2>8. Handshake' /\ NoPongAfterClose'
    BY <1>11 DEF IInv, TypeOK, FlagsOK, WireOK, Handshake, NoPongAfterClose,
        AskWriteable, InLoop, lws_callback_on_writable, Quiet
  <2> QED BY <2>3, <2>5, <2>6, <2>7, <2>8 DEF IInv
<1> QED BY <1>1, <1>2, <1>3, <1>4, <1>5, <1>6, <1>7, <1>8, <1>9, <1>10, <1>11 DEF Event

(* Every reachable state satisfies the inductive invariant. *)
THEOREM Invariance == Spec => []IInv
<1>1. ASSUME Init PROVE IInv
  <2>1. TypeOK
    <3>1. FlagsOK /\ WireOK
      BY <1>1 DEF Init, FlagsOK, WireOK
    <3>2. role \in Roles /\ tls \in Tls
      BY <1>1 DEF Init
    <3>3. vtimer \in {"off", "ping", "hup"}
      BY <1>1 DEF Init
    <3> QED BY <1>1, <3>1, <3>2, <3>3 DEF Init, TypeOK
  <2>2. CallbacksOnce /\ Armed /\ TimerArmed
    BY <1>1 DEF Init, CallbacksOnce, Armed, TimerArmed
  <2>3. Handshake /\ NoPongAfterClose
    BY <1>1 DEF Init, Handshake, NoPongAfterClose
  <2> QED BY <2>1, <2>2, <2>3 DEF IInv
<1>2. IInv /\ [Next]_vars => IInv'
  <2> SUFFICES ASSUME IInv, [Next]_vars PROVE IInv'
    OBVIOUS
  <2>1. CASE Next
    BY <2>1, CloseStep, PolloutStep, RxStep, EventStep DEF Next
  <2>2. CASE UNCHANGED vars
    <3>1. TypeOK'
      BY <2>2 DEF vars, IInv, TypeOK, FlagsOK, WireOK
    <3>2. CallbacksOnce' /\ Armed' /\ TimerArmed'
      BY <2>2 DEF vars, IInv, CallbacksOnce, Armed, TimerArmed
    <3>3. Handshake' /\ NoPongAfterClose'
      BY <2>2 DEF vars, IInv, Handshake, NoPongAfterClose
    <3> QED BY <3>1, <3>2, <3>3 DEF IInv
  <2> QED BY <2>1, <2>2
<1> QED BY <1>1, <1>2, PTL DEF Spec

(* Type correctness of the connection. *)
THEOREM TypeCorrect == Spec => []TypeOK
<1>1. IInv => TypeOK
  BY DEF IInv
<1> QED BY <1>1, Invariance, PTL

(* One UNBIND and one CLOSED callback, on every path of close.c. *)
THEOREM CallbacksHold == Spec => []CallbacksOnce
<1>1. IInv => CallbacksOnce
  BY DEF IInv
<1> QED BY <1>1, Invariance, PTL

(* At most one CLOSE frame is sent, whichever side begins the handshake. *)
THEOREM OneCloseFrameHolds == Spec => []OneCloseFrame
<1>1. IInv => OneCloseFrame
  BY DEF IInv, Handshake, OneCloseFrame
<1> QED BY <1>1, Invariance, PTL

(* No PONG follows a CLOSE frame. *)
THEOREM NoPongHolds == Spec => []NoPongAfterClose
<1>1. IInv => NoPongAfterClose
  BY DEF IInv
<1> QED BY <1>1, Invariance, PTL

(* Whatever lws has to send has POLLOUT armed. *)
THEOREM SendArmedHolds == Spec => []SendArmed
<1>1. IInv => SendArmed
  BY DEF IInv, Armed, SendArmed
<1> QED BY <1>1, Invariance, PTL

(* Every wait of the close handshake has a timer. *)
THEOREM TimerArmedHolds == Spec => []TimerArmed
<1>1. IInv => TimerArmed
  BY DEF IInv
<1> QED BY <1>1, Invariance, PTL
=============================================================================
