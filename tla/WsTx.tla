------------------------------- MODULE WsTx -------------------------------
(***************************************************************************)
(* The transmit path of one ws connection: lws_write() from the WRITEABLE  *)
(* callback through rops_write_role_protocol_ws() (fragments, FIN and the  *)
(* permessage-deflate extension), lws_issue_raw() with its buflist of      *)
(* unsent bytes, the socket, and a peer that parses what arrives.          *)
(*                                                                         *)
(* A frame is a header byte and at most one payload byte, so that a send   *)
(* may stop before, inside and after it.  A payload byte knows its message *)
(* and whether it ends it and is all the message had to say up to there.   *)
(* The socket takes some bytes, up to SocketRoom in flight, or fails.      *)
(*                                                                         *)
(* Everything runs in the service thread; an action is one POLLOUT event   *)
(* up to the user callback, or one call of lws_write() in that callback.   *)
(***************************************************************************)
EXTENDS Integers, Sequences

CONSTANTS SocketRoom,   \* bytes the kernel keeps for the peer
          MaxChunks,    \* pieces deflate makes of one write
          MaxBlind      \* writes of one callback made without asking
                        \* lws_send_pipe_choked(), after the first

ASSUME WsTxAssumption ==
  /\ SocketRoom \in Nat \ {0}
  /\ MaxChunks \in Nat \ {0}
  /\ MaxBlind \in Nat

VARIABLES
  state,      \* "established", "flushing" (LRS_FLUSHING_BEFORE_CLOSE),
              \* "closed" after what was buffered is sent, "killed" by an error
  armed,      \* POLLOUT is asked for in the fds table
  pmd,        \* permessage-deflate was negotiated
  user,       \* what the user is doing: [incb: in the WRITEABLE callback,
              \* wrote: writes of this callback, blind: how many of them
              \* were made blind, open: inside a message, id: which one]
  ping,       \* ping_pending_flag: a PONG has to be sent
  check,      \* send_check_ping: the keepalive wants a PING sent
  ws,         \* [inside: inside_frame, drain: tx_draining_ext, fin: the FIN
              \* of tx_draining_stashed_wp, stash: stashed_write_pending]
  z,          \* the extension: [left: input not yet deflated, n: pieces made,
              \* first: tx_first_frame_type is set, out: compressed_out,
              \* id: the message of the input, lost: input was once thrown
              \* away]
  buflist,    \* wsi->buflist_out, each segment its bytes from pos on
  wire,       \* bytes the socket took that the peer has not read
  peer,       \* [in: opcode of the frame being read or "none", fin: its FIN,
              \* open: inside a message, id: the message it expects, ok,
              \* whole: all of every message reached it]
  short       \* the last lws_write() of this callback, or of the one before,
              \* returned less than it was given

vars == <<state, armed, pmd, user, ping, check, ws, z, buflist, wire, peer, short>>

DataOp == {"TEXT", "CONTINUATION"}
Header(op, fin, len) == <<"header", op, fin, len>>
Payload(id, last, whole) == <<"payload", id, last, whole>>
Byte == ({"header"} \X (DataOp \cup {"PING", "PONG"}) \X BOOLEAN \X {0, 1})
        \cup ({"payload"} \X {0, 1} \X BOOLEAN \X BOOLEAN)

TypeOK ==
  /\ state \in {"established", "flushing", "closed", "killed"}
  /\ armed \in BOOLEAN
  /\ pmd \in BOOLEAN
  /\ user \in [incb : BOOLEAN, wrote : BOOLEAN, blind : 0 .. MaxBlind,
               open : BOOLEAN, id : {0, 1}]
  /\ ping \in BOOLEAN
  /\ check \in BOOLEAN
  /\ ws \in [inside : BOOLEAN, drain : BOOLEAN, fin : BOOLEAN, stash : BOOLEAN]
  /\ z \in [left : BOOLEAN, n : 0 .. MaxChunks, first : BOOLEAN, out : BOOLEAN, id : {0, 1},
            lost : BOOLEAN]
  /\ buflist \in Seq(Seq(Byte) \ {<<>>})
  /\ wire \in Seq(Byte) /\ Len(wire) <= SocketRoom
  /\ peer \in [in : DataOp \cup {"none"}, fin : BOOLEAN, open : BOOLEAN, id : {0, 1}, ok : BOOLEAN,
               whole : BOOLEAN]
  /\ short \in BOOLEAN

Init ==
  /\ state = "established"
  /\ armed = FALSE
  /\ pmd \in BOOLEAN
  /\ user = [incb |-> FALSE, wrote |-> FALSE, blind |-> 0, open |-> FALSE, id |-> 0]
  /\ ping = FALSE
  /\ check = FALSE
  /\ ws = [inside |-> FALSE, drain |-> FALSE, fin |-> FALSE, stash |-> FALSE]
  /\ z = [left |-> FALSE, n |-> 0, first |-> FALSE, out |-> FALSE, id |-> 0,
          lost |-> FALSE]
  /\ buflist = <<>>
  /\ wire = <<>>
  /\ peer = [in |-> "none", fin |-> FALSE, open |-> FALSE, id |-> 0, ok |-> TRUE,
             whole |-> TRUE]
  /\ short = FALSE

lws_has_buffered_out == buflist # <<>>

(* the extension has more to spill, bytes are buffered, or poll() says so *)
lws_send_pipe_choked == ws.drain \/ lws_has_buffered_out \/ Len(wire) = SocketRoom

-----------------------------------------------------------------------------
(* lws_issue_raw() of the bytes b, <<>> for NULL, when the socket takes k. *)

(* what is tried: b is only queued while anything is buffered before it *)
lws_buflist_append_segment(b) ==
  IF b # <<>> /\ lws_has_buffered_out THEN Append(buflist, b) ELSE buflist

Segment(b) == LET list == lws_buflist_append_segment(b)
              IN  IF list # <<>> THEN Head(list) ELSE b

(* k bytes of the first segment are used, which goes when it is used up *)
lws_buflist_use_segment(list, k) ==
  IF k = Len(Head(list)) THEN Tail(list)
  ELSE <<SubSeq(Head(list), k + 1, Len(Head(list)))>> \o Tail(list)

(* what stays buffered: of the list, or the rest of a fresh write *)
Buffered(b, k) ==
  LET list == lws_buflist_append_segment(b)
  IN  IF list # <<>> THEN lws_buflist_use_segment(list, k)
      ELSE IF k < Len(b) THEN <<SubSeq(b, k + 1, Len(b))>> ELSE <<>>

(* its result: all of a fresh write, else what was used of the first       *)
(* segment, which has nothing to do with the length of b                   *)
Returned(b, k) == IF lws_has_buffered_out THEN k ELSE Len(b)

(* Bytes that stay buffered, or an emptied list, ask for POLLOUT; ask: the *)
(* caller does so before                                                   *)
lws_issue_raw(b, k, ask) ==
  /\ k \in 0 .. Len(Segment(b))
  /\ Len(wire) + k <= SocketRoom
  /\ wire' = wire \o SubSeq(Segment(b), 1, k)
  /\ buflist' = Buffered(b, k)
  /\ armed' = (armed \/ ask \/ lws_has_buffered_out \/ buflist' # <<>>)

Took == 0 .. 2     \* a segment is at most one frame

-----------------------------------------------------------------------------
(* rops_write_role_protocol_ws() *)

(* Without the extension.  Continuing inside a frame means no header; the  *)
(* result says whether the whole of this frame was handled.                *)
WritePlain(op, fin, k) ==
  LET bytes == IF ws.inside THEN <<Payload(user.id, fin, TRUE)>>
                            ELSE <<Header(op, fin, 1), Payload(user.id, fin, TRUE)>>
  IN  /\ lws_issue_raw(bytes, k, FALSE)
      /\ ws' = [ws EXCEPT !.inside = Returned(bytes, k) # Len(bytes)]
      /\ short' = (Returned(bytes, k) # Len(bytes))
      /\ UNCHANGED z

(* PACKET_TX_PRESEND: the first frame that really goes out gets the opcode *)
(* of the message                                                          *)
PresendOp(op, zz) == IF zz.out /\ zz.first THEN "TEXT" ELSE op

(* Mutant: a fragment with more to come keeps the FIN of the write. *)
WriteFragment_KeepFin(op, fin, pending, len, zz, k) ==
  LET stashed == len > 0 /\ ws.stash
      eff == PresendOp(IF stashed THEN "TEXT" ELSE op, zz)
      bytes == <<Header(eff, fin, len)>>
               \o (IF len > 0 THEN <<Payload(zz.id, fin /\ ~pending, ~zz.lost)>> ELSE <<>>)
  IN  /\ lws_issue_raw(bytes, k, pending)
      /\ ws' = [ws EXCEPT !.inside = FALSE,
                          !.drain = pending,
                          !.fin = IF pending THEN fin ELSE @,
                          !.stash = @ /\ ~stashed]
      /\ z' = IF zz.out THEN [zz EXCEPT !.out = FALSE, !.first = FALSE] ELSE zz
      /\ short' = FALSE

(* Sends a complete fragment the extension made; pending: it has more, so  *)
(* this one is not final.  clean_buffer is 0: all of it counts as handled. *)
WriteFragment(op, fin, pending, len, zz, k) ==
  LET stashed == len > 0 /\ ws.stash
      eff == PresendOp(IF stashed THEN "TEXT" ELSE op, zz)
      bytes == <<Header(eff, fin /\ ~pending, len)>>
               \o (IF len > 0 THEN <<Payload(zz.id, fin /\ ~pending, ~zz.lost)>> ELSE <<>>)
  IN  /\ lws_issue_raw(bytes, k, pending)
      /\ ws' = [ws EXCEPT !.inside = FALSE,
                          !.drain = pending,
                          !.fin = IF pending THEN fin ELSE @,
                          !.stash = @ /\ ~stashed]
      /\ z' = IF zz.out THEN [zz EXCEPT !.out = FALSE, !.first = FALSE] ELSE zz
      /\ short' = FALSE

(* Mutant: the pieces of a write are not counted, so it never ends. *)
HasPending_Endless(op, zi) == [zi EXCEPT !.out = TRUE, !.first = @ \/ op = "TEXT"]

(* PAYLOAD_TX on the input zi: the output buffer is full and there is more *)
HasPending(op, zi) == [zi EXCEPT !.n = @ + 1, !.out = TRUE,
                                 !.first = @ \/ op = "TEXT"]

(* all input is used and, for a final write, flushed *)
IsEmpty(op, zi) == [zi EXCEPT !.n = 0, !.left = FALSE, !.out = TRUE,
                              !.first = @ \/ op = "TEXT"]

(* the extension takes the input and makes a piece of many, or the last *)
WriteDeflated(op, fin, zi, k) ==
  \/ /\ zi.n < MaxChunks
     /\ \E left \in {FALSE, zi.left} :
          WriteFragment(op, fin, TRUE, 1,
                        [HasPending(op, zi) EXCEPT !.left = left], k)
  \/ WriteFragment(op, fin, FALSE, 1, IsEmpty(op, zi), k)

(* With nothing to flush the extension may swallow it all: the type of the *)
(* write is stashed for the first frame that is made (that of a            *)
(* continuation makes no difference).                                      *)
WriteSwallowed(op) ==
  /\ ws' = [ws EXCEPT !.drain = FALSE, !.stash = @ \/ op = "TEXT"]
  /\ z' = [IsEmpty(op, z) EXCEPT !.id = user.id]
  /\ short' = FALSE
  /\ UNCHANGED <<armed, buflist, wire>>

(* A write of no bytes while the extension is draining: a continuation     *)
(* with the FIN that was stashed, on the input zi.  With no input and      *)
(* nothing to flush the extension does nothing and an empty fragment goes  *)
(* out.                                                                    *)
WriteDraining(zi, k) ==
  \/ WriteDeflated("CONTINUATION", ws.fin, zi, k)
  \/ ~ws.fin /\ ~zi.left /\ WriteFragment("CONTINUATION", FALSE, FALSE, 0, zi, k)
  \/ ~ws.fin /\ WriteFragment("CONTINUATION", FALSE, FALSE, 0,
                              IsEmpty("CONTINUATION", zi), k)

-----------------------------------------------------------------------------
(* lws_handle_POLLOUT_event(), by priority.  Also called, with the socket  *)
(* perhaps full, for a POLLIN while the extension is draining.             *)

Pollout == armed /\ ~user.incb /\ state \in {"established", "flushing"}

(* lws_issue_raw(NULL); the flush of the whole list means that no frame is *)
(* open any more, and that a close that waited for it can go on            *)
PolloutBuffered(k) ==
  /\ Pollout /\ lws_has_buffered_out
  /\ lws_issue_raw(<<>>, k, FALSE)
  /\ ws' = [ws EXCEPT !.inside = @ /\ buflist' # <<>>]
  /\ state' = IF state = "flushing" /\ buflist' = <<>> THEN "closed" ELSE state
  /\ UNCHANGED <<pmd, user, ping, check, z, peer, short>>

PolloutPong(k) ==
  /\ Pollout /\ ~lws_has_buffered_out /\ state = "established"
  /\ ping
  /\ lws_issue_raw(<<Header("PONG", TRUE, 0)>>, k, FALSE)
  /\ ping' = FALSE
  /\ UNCHANGED <<state, pmd, user, check, ws, z, peer, short>>

(* The PING the keepalive asked for.  While the extension is draining the  *)
(* write is not a PING: it is turned into the continuation, and its empty  *)
(* buffer, which is not NULL, replaces input that is not yet deflated.     *)
PolloutPing(k) ==
  /\ Pollout /\ ~lws_has_buffered_out /\ state = "established"
  /\ ~ping /\ check
  /\ check' = FALSE
  /\ IF ws.drain
     THEN WriteDraining([z EXCEPT !.left = FALSE, !.lost = @ \/ z.left], k)
     ELSE /\ lws_issue_raw(<<Header("PING", TRUE, 0)>>, k, FALSE)
          /\ UNCHANGED <<ws, z, short>>
  /\ UNCHANGED <<state, pmd, user, ping, peer>>

(* assert(!priv->tx.avail_in), in a build that has it *)
PolloutPingAsserts ==
  /\ Pollout /\ ~lws_has_buffered_out /\ state = "established"
  /\ ~ping /\ check /\ ws.drain /\ z.left
  /\ state' = "killed"
  /\ buflist' = <<>>
  /\ UNCHANGED <<armed, pmd, user, ping, check, ws, z, wire, peer, short>>

PolloutExtension(k) ==
  /\ Pollout /\ ~lws_has_buffered_out /\ state = "established"
  /\ ~ping /\ ~check /\ ws.drain
  /\ WriteDraining(z, k)
  /\ UNCHANGED <<state, pmd, user, ping, check, peer>>

(* POLLOUT is switched off, then the user is called *)
PolloutUser ==
  /\ Pollout /\ ~lws_has_buffered_out /\ state = "established"
  /\ ~ping /\ ~check /\ ~ws.drain
  /\ armed' = FALSE
  /\ user' = [user EXCEPT !.incb = TRUE, !.wrote = FALSE, !.blind = 0]
  /\ short' = FALSE
  /\ UNCHANGED <<state, pmd, ping, check, ws, z, buflist, wire, peer>>

(* The user writes a fragment.  After the first write of a callback a      *)
(* careful user asks lws_send_pipe_choked(); without the extension up to   *)
(* MaxBlind writes do not.                                                 *)
MayWrite(blind) ==
  /\ user.incb
  /\ blind = (user.wrote /\ lws_send_pipe_choked)
  /\ blind => ~pmd /\ user.blind < MaxBlind

Wrote(fin, blind) ==
  user' = [user EXCEPT !.wrote = TRUE, !.open = ~fin,
                       !.blind = IF blind THEN @ + 1 ELSE @,
                       !.id = IF fin THEN 1 - @ ELSE @]

UserOp == IF user.open THEN "CONTINUATION" ELSE "TEXT"

UserWrites(fin, k) ==
  /\ \E blind \in BOOLEAN : MayWrite(blind) /\ Wrote(fin, blind)
  /\ \/ ~pmd /\ WritePlain(UserOp, fin, k)
     \/ pmd /\ WriteDeflated(UserOp, fin, [z EXCEPT !.id = user.id, !.n = 0, !.left = TRUE], k)
     \/ pmd /\ ~fin /\ k = 0 /\ WriteSwallowed(UserOp)
  /\ UNCHANGED <<state, pmd, ping, check, peer>>

(* the callback returns, having asked for another one or not *)
UserReturns ==
  /\ user.incb
  /\ user' = [user EXCEPT !.incb = FALSE]
  /\ \E ask \in BOOLEAN : armed' = (armed \/ ask)
  /\ UNCHANGED <<state, pmd, ping, check, ws, z, buflist, wire, peer, short>>

(* lws_callback_on_writable() from any other callback *)
UserAsks ==
  /\ state = "established" /\ ~user.incb /\ ~armed
  /\ armed' = TRUE
  /\ UNCHANGED <<state, pmd, user, ping, check, ws, z, buflist, wire, peer, short>>

(* A PING is parsed.  There is no rx while the extension is draining. *)
PingArrives ==
  /\ state = "established" /\ ~user.incb
  /\ ~ping /\ ~ws.drain
  /\ ping' = TRUE
  /\ armed' = TRUE
  /\ UNCHANGED <<state, pmd, user, check, ws, z, buflist, wire, peer, short>>

(* The validity timer fires: nothing valid was seen for a while.  It looks *)
(* at nothing else.                                                        *)
rops_issue_keepalive_ws ==
  /\ state = "established" /\ ~user.incb /\ ~check
  /\ check' = TRUE
  /\ armed' = TRUE
  /\ UNCHANGED <<state, pmd, user, ping, ws, z, buflist, wire, peer, short>>

(* Mutant: what is buffered is not flushed before the close. *)
Close_AtOnce ==
  /\ state = "established"
  /\ state' = "closed"
  /\ user' = [user EXCEPT !.incb = FALSE]
  /\ UNCHANGED <<armed, pmd, ping, check, ws, z, buflist, wire, peer, short>>

(* The callback returns -1, or something else closes the connection with   *)
(* no close frame wanted: what is buffered is sent first.                  *)
Close ==
  /\ state = "established"
  /\ state' = IF lws_has_buffered_out THEN "flushing" ELSE "closed"
  /\ user' = [user EXCEPT !.incb = FALSE]
  /\ UNCHANGED <<armed, pmd, ping, check, ws, z, buflist, wire, peer, short>>

(* the socket fails for good, or the 5 s for the flush are over *)
Killed ==
  /\ state \in {"established", "flushing"}
  /\ state' = "killed"
  /\ user' = [user EXCEPT !.incb = FALSE]
  /\ buflist' = <<>>
  /\ UNCHANGED <<armed, pmd, ping, check, ws, z, wire, peer, short>>

(* the state of the peer p after it parsed the byte b *)
PeerParses(p, b) ==
  IF p.in = "none" /\ b[1] = "header"
  THEN IF b[2] \in {"PING", "PONG"} THEN p
       ELSE IF (b[2] = "TEXT") = p.open \/ (b[3] /\ b[4] = 0) THEN [p EXCEPT !.ok = FALSE]
       ELSE IF b[4] = 0 THEN [p EXCEPT !.open = TRUE]
       ELSE [p EXCEPT !.in = b[2], !.fin = b[3], !.open = TRUE]
  ELSE IF p.in # "none" /\ b[1] = "payload" /\ b[2] = p.id /\ b[3] = p.fin
       THEN [p EXCEPT !.in = "none", !.open = ~b[3], !.id = IF b[3] THEN 1 - @ ELSE @,
                      !.whole = @ /\ b[4]]
       ELSE [p EXCEPT !.ok = FALSE]

PeerReads ==
  /\ wire # <<>>
  /\ wire' = Tail(wire)
  /\ peer' = PeerParses(peer, Head(wire))
  /\ UNCHANGED <<state, armed, pmd, user, ping, check, ws, z, buflist, short>>

Done == state \in {"closed", "killed"} /\ wire = <<>> /\ UNCHANGED vars

Next ==
  \/ \E k \in Took : PolloutBuffered(k)
  \/ \E k \in Took : PolloutPong(k)
  \/ \E k \in Took : PolloutPing(k)
  \/ PolloutPingAsserts
  \/ \E k \in Took : PolloutExtension(k)
  \/ PolloutUser
  \/ \E fin \in BOOLEAN, k \in Took : UserWrites(fin, k)
  \/ UserReturns
  \/ UserAsks
  \/ PingArrives
  \/ rops_issue_keepalive_ws
  \/ Close
  \/ Killed
  \/ PeerReads
  \/ Done

Spec == Init /\ [][Next]_vars

(* The peer reads on, the user's callbacks return, POLLOUT events are      *)
(* handled, and when there is room again and again the socket takes        *)
(* something.                                                              *)
Fairness ==
  /\ WF_vars(PeerReads)
  /\ WF_vars(UserReturns)
  /\ SF_vars(\E k \in Took \ {0} : PolloutBuffered(k))
  /\ WF_vars(\E k \in Took : PolloutPong(k))
  /\ WF_vars(\E k \in Took : PolloutPing(k))
  /\ WF_vars(\E k \in Took : PolloutExtension(k))

FairSpec == Spec /\ Fairness
-----------------------------------------------------------------------------

(* What reaches the peer is a sequence of well-formed messages, in the     *)
(* order they were written: frames are never cut or mixed although sends   *)
(* stop anywhere; each message begins with its own opcode, goes on with    *)
(* continuations, and has FIN exactly on the fragment that ends it, however*)
(* the extension splits, delays or swallows what it is given and whichever *)
(* PONGs and PINGs come in between.  The messages are whole but for one    *)
(* case, against "control packets can interleave OK" (ops-ws.c:1343): the  *)
(* keepalive's PING, due while the extension has input left, throws that   *)
(* input away.                                                             *)
PeerUnderstands == peer.ok /\ (peer.whole \/ z.lost)

(* Whatever lws has still to send has POLLOUT armed, so nothing is left    *)
(* lying in the buflist or in the extension, and no PONG or PING waits.    *)
SendArmed ==
  state \in {"established", "flushing"} /\ ~user.incb =>
    (lws_has_buffered_out \/ ws.drain \/ ping \/ check => armed)

(* inside_frame, which drops the header of the next write, is reset before *)
(* the user can be called again.                                           *)
InsideFrameResets == ws.inside => lws_has_buffered_out \/ state = "killed"

(* lws_write() says that all was handled unless the user wrote again       *)
(* without looking at lws_send_pipe_choked().                              *)
WriteReportsAll == short => user.blind > 0

(* A connection that is closed without an error has first sent everything  *)
(* that lws_write() took, up to what the extension still held or threw     *)
(* away.                                                                   *)
SentBeforeClose ==
  state = "closed" /\ wire = <<>> /\ ~ws.drain =>
    peer.in = "none" /\ peer.id = user.id /\ (peer.open => user.open)

(* What lws_write() took is accounted for in every state: it has POLLOUT   *)
(* while it waits, its header state does not leak into the next write, the *)
(* user is not told less, and a close comes after it.                      *)
OutputIsSound ==
  TypeOK /\ SendArmed /\ InsideFrameResets /\ WriteReportsAll /\ SentBeforeClose

(* What is buffered is sent in the end, and so is what the extension has   *)
(* to spill, also while the peer and the keepalive keep sending PINGs.     *)
OutputDrains ==
  /\ lws_has_buffered_out ~> ~lws_has_buffered_out
  /\ ws.drain ~> (~ws.drain \/ state # "established")
===========================================================================
