--------------------------- MODULE PolloutProofs ---------------------------
(***************************************************************************)
(* Proofs about Pollout: with lws_pt_lock() a mutex, for any number of     *)
(* connections and foreign threads, no request for a WRITEABLE callback is *)
(* forgotten on a connection without rx flow control, and a direct change  *)
(* of the events wakes the service thread.                                 *)
(***************************************************************************)
EXTENDS Pollout, TLAPS

(* The connection each thread works on exists; calls for one connection are *)
(* serialised by the user.                                                  *)
Shape ==
  /\ svc.pc \notin {"top", "poll", "wait", "left", "spin", "drain", "fds"}
       => svc.w \in Wsi
  /\ \A t \in Foreign : frn[t].pc # "idle" => frn[t].w \in Wsi
  /\ \A t, u \in Foreign :
       (t # u /\ frn[t].pc # "idle" /\ frn[u].pc # "idle")
         => frn[t].w # frn[u].w
  /\ inside_poll <=> svc.pc \in {"poll", "wait", "left"}

(* What a change of the service thread does: it drops POLLOUT only on its way *)
(* to the callback, and touches only POLLIN only in Flow.                     *)
ChangeShape ==
  /\ svc.back \in {"fds", "drain", "off", "clear", "leave"}
  /\ Changing =>
       \/ svc.rm = {} /\ svc.add = {POLLOUT}
       \/ svc.rm = {POLLOUT} /\ svc.add = {} /\ svc.back = "off"
       \/ svc.w \in Flow /\ svc.back \in {"fds", "leave"}
  /\ svc.pc = "user" => svc.back \in {"fds", "leave"}
  /\ (svc.pc \in {"handle", "role", "bail", "bailed", "eff", "off"}
        \/ (Changing /\ svc.back = "off")) => svc.w \notin svc.out

(* A connection whose POLLOUT was reported still has it in its events. *)
WasReported(w) ==
  \/ svc.pc = "wait" /\ POLLOUT \in polled[w]
  \/ w \in svc.out
  \/ svc.w = w /\ svc.pc \in {"handle", "role", "bail", "bailed"}

Reported == \A w \in Wsi \ Flow : WasReported(w) => POLLOUT \in events[w]

(* handling_pollout is set only while the service thread is about it. *)
Handling ==
  \A w \in Wsi : handling_pollout[w] =>
    /\ svc.w = w
    /\ \/ svc.pc \in {"role", "bail", "eff", "off"}
       \/ Changing /\ svc.back = "off"

Draining == svc.pc = "drain" \/ (Changing /\ svc.back = "drain")

(* With a pt mutex the part of the foreign list that was passed has been *)
(* applied; without one the list grows behind the drain.                 *)
Drained ==
  Smp /\ Draining => \A i \in DOMAIN foreign_pfd_list :
    \/ \E j \in DOMAIN svc.todo : svc.todo[j] = foreign_pfd_list[i]
    \/ POLLOUT \in events[foreign_pfd_list[i]]
    \/ Setting(foreign_pfd_list[i])

(* The call of a thread, or some call for w, has yet to leave its mark. *)
ToMark(f) ==
  \/ f.pc \in {"look", "lock", "check", "append", "unlock", "read"}
  \/ f.pc = "write" /\ POLLOUT \notin f.tmp

Working(w) == \E t \in Foreign : frn[t].w = w /\ ToMark(frn[t])

Cancelling(w) == \E t \in Foreign : frn[t].w = w /\ frn[t].pc = "cancel"

Marked(w) == POLLOUT \in events[w] \/ OnList(w) \/ CallbackDue(w) \/ Setting(w)

(* Stronger than RequestKept: a call that is past its mark does not count. *)
StrongKept == Smp => \A w \in asked \ Flow : Marked(w) \/ Working(w)

(* Stronger than DirectChangeWakes, for the same reason. *)
StrongWakes ==
  Smp /\ svc.pc = "wait" =>
    /\ \A w \in asked \ Flow :
         \/ POLLOUT \in polled[w] \/ pipe \/ OnList(w)
         \/ Working(w) \/ Cancelling(w)
    /\ \A t \in Foreign :
         frn[t].pc \in {"unlock", "read"} /\ frn[t].w \notin Flow
           => (POLLOUT \in events[frn[t].w] => POLLOUT \in polled[frn[t].w])

IInv == /\ TypeOK /\ Shape /\ ChangeShape /\ Reported /\ Handling /\ Drained
        /\ StrongKept /\ StrongWakes /\ SpinlockReleased

-----------------------------------------------------------------------------
USE ConstantsAssumption DEF flags, ptvars, kernel, POLLIN, POLLOUT

(* The locals of the service thread stay typed when it moves on. *)
LEMMA AtRec == ASSUME svc \in SvcRec, NEW pc \in SvcPc PROVE At(pc) \in SvcRec
  BY DEF At, SvcRec

\* The same when it goes to change the events.
LEMMA ChangeRec ==
  ASSUME svc \in SvcRec, NEW rm \in SUBSET {POLLIN, POLLOUT},
         NEW add \in SUBSET {POLLIN, POLLOUT}, NEW back \in SvcPc
  PROVE  Change(rm, add, back) \in SvcRec
  BY DEF Change, SvcRec, SvcPc

(* A sequence that is not empty is its head and its tail. *)
LEMMA HeadTail ==
  ASSUME NEW S, NEW s \in Seq(S), s # <<>>
  PROVE  /\ Head(s) \in S /\ Tail(s) \in Seq(S)
         /\ \A j \in DOMAIN s :
              s[j] = Head(s) \/ \E k \in DOMAIN Tail(s) : s[j] = Tail(s)[k]
<1>1. Head(s) \in S /\ Tail(s) \in Seq(S)
  OBVIOUS
<1>2. ASSUME NEW j \in DOMAIN s, j # 1
      PROVE  \E k \in DOMAIN Tail(s) : s[j] = Tail(s)[k]
  <2>1. j - 1 \in DOMAIN Tail(s) /\ s[j] = Tail(s)[j - 1]
    BY <1>2
  <2> QED BY <2>1
<1>3. s[1] = Head(s)
  OBVIOUS
<1> QED BY <1>1, <1>2, <1>3

(* Appending keeps what is on a sequence. *)
LEMMA AppendKeeps ==
  ASSUME NEW S, NEW s \in Seq(S), NEW e \in S
  PROVE  /\ Append(s, e) \in Seq(S)
         /\ \A j \in DOMAIN s : j \in DOMAIN Append(s, e) /\ Append(s, e)[j] = s[j]
         /\ \E j \in DOMAIN Append(s, e) : Append(s, e)[j] = e
<1>1. Len(s) + 1 \in DOMAIN Append(s, e) /\ Append(s, e)[Len(s) + 1] = e
  OBVIOUS
<1> QED BY <1>1

(* lws_change_pollfd() of the service thread. *)
LEMMA ChangeStep ==
  ASSUME IInv,
         \/ ChangeSpinlock \/ ChangeRead \/ ChangeWrite
  PROVE  IInv'
<1>1. CASE ChangeSpinlock
  <2>1. TypeOK'
    <3>1. svc' \in SvcRec
      BY <1>1, AtRec DEF IInv, TypeOK, SvcPc, ChangeSpinlock, Goto
    <3> QED
      BY <1>1, <3>1 DEF IInv, TypeOK, ChangeSpinlock
  <2>2. Shape'
    BY <1>1 DEF IInv, TypeOK, SvcRec, Shape, ChangeShape, Changing,
        ChangeSpinlock, Goto, At
  <2>3. ChangeShape'
    BY <1>1 DEF IInv, TypeOK, SvcRec, Shape, ChangeShape, Changing,
        ChangeSpinlock, Goto, At
  <2>4. Reported'
    BY <1>1 DEF IInv, TypeOK, SvcRec, Shape, ChangeShape, Reported,
        WasReported, Changing, ChangeSpinlock, Goto, At
  <2>5. Handling'
    BY <1>1 DEF IInv, TypeOK, SvcRec, Shape, ChangeShape, Handling, Changing,
        ChangeSpinlock, Goto, At
  <2>6. Drained'
    BY <1>1 DEF IInv, TypeOK, SvcRec, Shape, ChangeShape, Drained, Draining,
        Changing, Setting, ChangeSpinlock, Goto, At
  <2>7. StrongKept'
    BY <1>1 DEF IInv, TypeOK, SvcRec, Shape, ChangeShape, Reported,
        WasReported, Handling, Drained, Draining, StrongKept, Marked, Working,
        OnList, CallbackDue, Setting, Changing, ChangeSpinlock, Goto, At
  <2>8. StrongWakes'
    BY <1>1 DEF IInv, TypeOK, SvcRec, Shape, ChangeShape, StrongKept,
        StrongWakes, Marked, Working, Cancelling, OnList, CallbackDue,
        Setting, Changing, ChangeSpinlock, Goto, At
  <2>9. SpinlockReleased'
    BY <1>1 DEF IInv, TypeOK, SvcRec, SpinlockReleased, ChangeSpinlock, Goto,
        At
  <2> QED BY <2>1, <2>2, <2>3, <2>4, <2>5, <2>6, <2>7, <2>8, <2>9 DEF IInv
<1>2. CASE ChangeRead
  <2>1. TypeOK'
    BY <1>2 DEF IInv, TypeOK, Shape, SvcRec, FrnRec, SvcPc, FrnPc, ChangeRead
  <2>2. Shape'
    BY <1>2 DEF IInv, TypeOK, SvcRec, Shape, ChangeShape, Changing, ChangeRead
  <2>3. ChangeShape'
    BY <1>2 DEF IInv, TypeOK, SvcRec, Shape, ChangeShape, Changing, ChangeRead
  <2>4. Reported'
    BY <1>2 DEF IInv, TypeOK, SvcRec, Shape, ChangeShape, Reported,
        WasReported, Changing, ChangeRead
  <2>5. Handling'
    BY <1>2 DEF IInv, TypeOK, SvcRec, Shape, ChangeShape, Handling, Changing,
        ChangeRead
  <2>6. Drained'
    BY <1>2 DEF IInv, TypeOK, SvcRec, Shape, ChangeShape, Drained, Draining,
        Changing, Setting, ChangeRead
  <2>7. StrongKept'
    BY <1>2 DEF IInv, TypeOK, SvcRec, Shape, ChangeShape, Reported,
        WasReported, Handling, Drained, Draining, StrongKept, Marked, Working,
        OnList, CallbackDue, Setting, Changing, ChangeRead
  <2>8. StrongWakes'
    BY <1>2 DEF IInv, TypeOK, SvcRec, Shape, ChangeShape, StrongKept,
        StrongWakes, Marked, Working, Cancelling, OnList, CallbackDue,
        Setting, Changing, ChangeRead
  <2>9. SpinlockReleased'
    BY <1>2 DEF IInv, TypeOK, SvcRec, SpinlockReleased, ChangeRead
  <2> QED BY <2>1, <2>2, <2>3, <2>4, <2>5, <2>6, <2>7, <2>8, <2>9 DEF IInv
<1>3. CASE ChangeWrite
  <2>1. TypeOK'
    <3>1. svc' \in SvcRec
      <4>1. svc \in SvcRec /\ svc.back \in SvcPc
        BY DEF IInv, TypeOK, SvcRec
      <4>2. At(svc.back) \in SvcRec
        BY <4>1, AtRec
      <4> QED BY <1>3, <4>2 DEF SvcRec, SvcPc, ChangeWrite
    <3>2. events' \in [Wsi -> SUBSET {POLLIN, POLLOUT}]
      BY <1>3 DEF IInv, TypeOK, SvcRec, ChangeWrite
    <3> QED
      BY <1>3, <3>1, <3>2 DEF IInv, TypeOK, ChangeWrite
  <2>2. Shape'
    BY <1>3 DEF IInv, TypeOK, SvcRec, Shape, ChangeShape, Changing,
        ChangeWrite, At
  <2>3. ChangeShape'
    BY <1>3 DEF IInv, TypeOK, SvcRec, Shape, ChangeShape, Changing,
        ChangeWrite, At
  <2>4. Reported'
    BY <1>3 DEF IInv, TypeOK, SvcRec, Shape, ChangeShape, Reported,
        WasReported, Changing, ChangeWrite, At
  <2>5. Handling'
    BY <1>3 DEF IInv, TypeOK, SvcRec, Shape, ChangeShape, Handling, Changing,
        ChangeWrite, At
  <2>6. Drained'
    BY <1>3 DEF IInv, TypeOK, SvcRec, Shape, ChangeShape, Drained, Draining,
        Changing, Setting, ChangeWrite, At
  <2>7. StrongKept'
    BY <1>3 DEF IInv, TypeOK, SvcRec, Shape, ChangeShape, Reported,
        WasReported, Handling, Drained, Draining, StrongKept, Marked, Working,
        OnList, CallbackDue, Setting, Changing, ChangeWrite, At
  <2>8. StrongWakes'
    BY <1>3 DEF IInv, TypeOK, SvcRec, Shape, ChangeShape, StrongKept,
        StrongWakes, Marked, Working, Cancelling, OnList, CallbackDue,
        Setting, Changing, ChangeWrite, At
  <2>9. SpinlockReleased'
    BY <1>3 DEF IInv, TypeOK, SvcRec, SpinlockReleased, ChangeWrite, At
  <2> QED BY <2>1, <2>2, <2>3, <2>4, <2>5, <2>6, <2>7, <2>8, <2>9 DEF IInv
<1> QED BY <1>1, <1>2, <1>3

(* poll() and the drain of the foreign list. *)
LEMMA PollStep ==
  ASSUME IInv,
         \/ EnterPoll \/ PollStart \/ PollReturn \/ LeavePoll
         \/ AwaitSpinlock \/ DrainOne \/ DrainEnd
  PROVE  IInv'
<1>1. CASE EnterPoll
  <2>1. TypeOK'
    <3>1. svc' \in SvcRec
      BY <1>1, AtRec DEF IInv, TypeOK, SvcPc, EnterPoll, Goto
    <3> QED
      BY <1>1, <3>1 DEF IInv, TypeOK, EnterPoll
  <2>2. Shape'
    BY <1>1 DEF IInv, TypeOK, SvcRec, Shape, ChangeShape, Changing, EnterPoll,
        Goto, At
  <2>3. ChangeShape'
    BY <1>1 DEF IInv, TypeOK, SvcRec, Shape, ChangeShape, Changing, EnterPoll,
        Goto, At
  <2>4. Reported'
    BY <1>1 DEF IInv, TypeOK, SvcRec, Shape, ChangeShape, Reported,
        WasReported, Changing, EnterPoll, Goto, At
  <2>5. Handling'
    BY <1>1 DEF IInv, TypeOK, SvcRec, Shape, ChangeShape, Handling, Changing,
        EnterPoll, Goto, At
  <2>6. Drained'
    BY <1>1 DEF IInv, TypeOK, SvcRec, Shape, ChangeShape, Drained, Draining,
        Changing, Setting, EnterPoll, Goto, At
  <2>7. StrongKept'
    BY <1>1 DEF IInv, TypeOK, SvcRec, Shape, ChangeShape, Reported,
        WasReported, Handling, Drained, Draining, StrongKept, Marked, Working,
        OnList, CallbackDue, Setting, Changing, EnterPoll, Goto, At
  <2>8. StrongWakes'
    BY <1>1 DEF IInv, TypeOK, SvcRec, Shape, ChangeShape, StrongKept,
        StrongWakes, Marked, Working, Cancelling, OnList, CallbackDue,
        Setting, Changing, EnterPoll, Goto, At
  <2>9. SpinlockReleased'
    BY <1>1 DEF IInv, TypeOK, SvcRec, SpinlockReleased, EnterPoll, Goto, At
  <2> QED BY <2>1, <2>2, <2>3, <2>4, <2>5, <2>6, <2>7, <2>8, <2>9 DEF IInv
<1>2. CASE PollStart
  <2>1. TypeOK'
    <3>1. svc' \in SvcRec
      BY <1>2, AtRec DEF IInv, TypeOK, SvcPc, PollStart, Goto
    <3> QED
      BY <1>2, <3>1 DEF IInv, TypeOK, PollStart
  <2>2. Shape'
    BY <1>2 DEF IInv, TypeOK, SvcRec, Shape, ChangeShape, Changing, PollStart,
        Goto, At
  <2>3. ChangeShape'
    BY <1>2 DEF IInv, TypeOK, SvcRec, Shape, ChangeShape, Changing, PollStart,
        Goto, At
  <2>4. Reported'
    BY <1>2 DEF IInv, TypeOK, SvcRec, Shape, ChangeShape, Reported,
        WasReported, Changing, PollStart, Goto, At
  <2>5. Handling'
    BY <1>2 DEF IInv, TypeOK, SvcRec, Shape, ChangeShape, Handling, Changing,
        PollStart, Goto, At
  <2>6. Drained'
    BY <1>2 DEF IInv, TypeOK, SvcRec, Shape, ChangeShape, Drained, Draining,
        Changing, Setting, PollStart, Goto, At
  <2>7. StrongKept'
    <3> SUFFICES ASSUME Smp, NEW x \in asked' \ Flow
                 PROVE  Marked(x)' \/ Working(x)'
      BY DEF StrongKept
    <3>1. x \in asked \ Flow
      BY <1>2 DEF PollStart
    <3>2. Marked(x) => Marked(x)'
      BY <1>2 DEF IInv, TypeOK, SvcRec, Marked, OnList, CallbackDue, Setting,
          Changing, PollStart, Goto, At
    <3>3. Working(x) => Working(x)'
      BY <1>2 DEF Working, PollStart
    <3> QED BY <3>1, <3>2, <3>3 DEF IInv, StrongKept
  <2>8. StrongWakes'
    BY <1>2 DEF IInv, TypeOK, SvcRec, Shape, ChangeShape, StrongKept,
        StrongWakes, Marked, Working, Cancelling, OnList, CallbackDue,
        Setting, Changing, PollStart, Goto, At
  <2>9. SpinlockReleased'
    BY <1>2 DEF IInv, TypeOK, SvcRec, SpinlockReleased, PollStart, Goto, At
  <2> QED BY <2>1, <2>2, <2>3, <2>4, <2>5, <2>6, <2>7, <2>8, <2>9 DEF IInv
<1>3. CASE PollReturn
  <2>0. PICK o \in SUBSET {w \in Wsi : POLLOUT \in polled[w]},
             i \in SUBSET {w \in Wsi : POLLIN \in polled[w]} :
          svc' = [svc EXCEPT !.pc = "left", !.out = o, !.in = i, !.woken = pipe]
    BY <1>3 DEF PollReturn
  <2>1. TypeOK'
    BY <1>3, <2>0 DEF IInv, TypeOK, Shape, SvcRec, FrnRec, SvcPc, FrnPc,
        PollReturn
  <2>2. Shape'
    BY <1>3, <2>0 DEF IInv, TypeOK, SvcRec, Shape, ChangeShape, Changing,
        PollReturn
  <2>3. ChangeShape'
    BY <1>3, <2>0 DEF IInv, TypeOK, SvcRec, Shape, ChangeShape, Changing,
        PollReturn
  <2>4. Reported'
    BY <1>3, <2>0 DEF IInv, TypeOK, SvcRec, Shape, ChangeShape, Reported,
        WasReported, Changing, PollReturn
  <2>5. Handling'
    BY <1>3, <2>0 DEF IInv, TypeOK, SvcRec, Shape, ChangeShape, Handling,
        Changing, PollReturn
  <2>6. Drained'
    BY <1>3, <2>0 DEF IInv, TypeOK, SvcRec, Shape, ChangeShape, Drained,
        Draining, Changing, Setting, PollReturn
  <2>7. StrongKept'
    <3> SUFFICES ASSUME Smp, NEW x \in asked' \ Flow
                 PROVE  Marked(x)' \/ Working(x)'
      BY DEF StrongKept
    <3>1. x \in asked \ Flow
      BY <1>3 DEF PollReturn
    <3>2. Marked(x) => Marked(x)'
      BY <1>3, <2>0 DEF IInv, TypeOK, SvcRec, Marked, OnList, CallbackDue, Setting,
          Changing, PollReturn
    <3>3. Working(x) => Working(x)'
      BY <1>3 DEF Working, PollReturn
    <3> QED BY <3>1, <3>2, <3>3 DEF IInv, StrongKept
  <2>8. StrongWakes'
    BY <1>3, <2>0 DEF IInv, TypeOK, SvcRec, Shape, ChangeShape, StrongKept,
        StrongWakes, Marked, Working, Cancelling, OnList, CallbackDue,
        Setting, Changing, PollReturn
  <2>9. SpinlockReleased'
    BY <1>3, <2>0 DEF IInv, TypeOK, SvcRec, SpinlockReleased, PollReturn
  <2> QED BY <2>1, <2>2, <2>3, <2>4, <2>5, <2>6, <2>7, <2>8, <2>9 DEF IInv
<1>4. CASE LeavePoll
  <2>1. TypeOK'
    <3>1. svc' \in SvcRec
      BY <1>4, AtRec DEF IInv, TypeOK, SvcPc, LeavePoll, Goto
    <3> QED
      BY <1>4, <3>1 DEF IInv, TypeOK, LeavePoll
  <2>2. Shape'
    BY <1>4 DEF IInv, TypeOK, SvcRec, Shape, ChangeShape, Changing, LeavePoll,
        Goto, At
  <2>3. ChangeShape'
    BY <1>4 DEF IInv, TypeOK, SvcRec, Shape, ChangeShape, Changing, LeavePoll,
        Goto, At
  <2>4. Reported'
    BY <1>4 DEF IInv, TypeOK, SvcRec, Shape, ChangeShape, Reported,
        WasReported, Changing, LeavePoll, Goto, At
  <2>5. Handling'
    BY <1>4 DEF IInv, TypeOK, SvcRec, Shape, ChangeShape, Handling, Changing,
        LeavePoll, Goto, At
  <2>6. Drained'
    BY <1>4 DEF IInv, TypeOK, SvcRec, Shape, ChangeShape, Drained, Draining,
        Changing, Setting, LeavePoll, Goto, At
  <2>7. StrongKept'
    BY <1>4 DEF IInv, TypeOK, SvcRec, Shape, ChangeShape, Reported,
        WasReported, Handling, Drained, Draining, StrongKept, Marked, Working,
        OnList, CallbackDue, Setting, Changing, LeavePoll, Goto, At
  <2>8. StrongWakes'
    BY <1>4 DEF IInv, TypeOK, SvcRec, Shape, ChangeShape, StrongKept,
        StrongWakes, Marked, Working, Cancelling, OnList, CallbackDue,
        Setting, Changing, LeavePoll, Goto, At
  <2>9. SpinlockReleased'
    BY <1>4 DEF IInv, TypeOK, SvcRec, SpinlockReleased, LeavePoll, Goto, At
  <2> QED BY <2>1, <2>2, <2>3, <2>4, <2>5, <2>6, <2>7, <2>8, <2>9 DEF IInv
<1>5. CASE AwaitSpinlock
  <2>1. TypeOK'
    BY <1>5 DEF IInv, TypeOK, Shape, SvcRec, FrnRec, SvcPc, FrnPc,
        AwaitSpinlock
  <2>2. Shape'
    BY <1>5 DEF IInv, TypeOK, SvcRec, Shape, ChangeShape, Changing,
        AwaitSpinlock
  <2>3. ChangeShape'
    BY <1>5 DEF IInv, TypeOK, SvcRec, Shape, ChangeShape, Changing,
        AwaitSpinlock
  <2>4. Reported'
    BY <1>5 DEF IInv, TypeOK, SvcRec, Shape, ChangeShape, Reported,
        WasReported, Changing, AwaitSpinlock
  <2>5. Handling'
    BY <1>5 DEF IInv, TypeOK, SvcRec, Shape, ChangeShape, Handling, Changing,
        AwaitSpinlock
  <2>6. Drained'
    BY <1>5 DEF IInv, TypeOK, SvcRec, Shape, ChangeShape, Drained, Draining,
        Changing, Setting, AwaitSpinlock
  <2>7. StrongKept'
    <3> SUFFICES ASSUME Smp, NEW x \in asked' \ Flow
                 PROVE  Marked(x)' \/ Working(x)'
      BY DEF StrongKept
    <3>1. x \in asked \ Flow
      BY <1>5 DEF AwaitSpinlock
    <3>2. Marked(x) => Marked(x)'
      BY <1>5 DEF IInv, TypeOK, SvcRec, Marked, OnList, CallbackDue, Setting,
          Changing, AwaitSpinlock
    <3>3. Working(x) => Working(x)'
      BY <1>5 DEF Working, AwaitSpinlock
    <3> QED BY <3>1, <3>2, <3>3 DEF IInv, StrongKept
  <2>8. StrongWakes'
    BY <1>5 DEF IInv, TypeOK, SvcRec, Shape, ChangeShape, StrongKept,
        StrongWakes, Marked, Working, Cancelling, OnList, CallbackDue,
        Setting, Changing, AwaitSpinlock
  <2>9. SpinlockReleased'
    BY <1>5 DEF IInv, TypeOK, SvcRec, SpinlockReleased, AwaitSpinlock
  <2> QED BY <2>1, <2>2, <2>3, <2>4, <2>5, <2>6, <2>7, <2>8, <2>9 DEF IInv
<1>6. CASE DrainOne
  <2>1. TypeOK'
    <3>1. svc' \in SvcRec
      BY <1>6, HeadTail DEF IInv, TypeOK, SvcRec, SvcPc, DrainOne
    <3> QED
      BY <1>6, <3>1 DEF IInv, TypeOK, DrainOne
  <2>2. Shape'
    BY <1>6 DEF IInv, TypeOK, SvcRec, Shape, ChangeShape, Changing, DrainOne
  <2>3. ChangeShape'
    BY <1>6 DEF IInv, TypeOK, SvcRec, Shape, ChangeShape, Changing, DrainOne
  <2>4. Reported'
    BY <1>6 DEF IInv, TypeOK, SvcRec, Shape, ChangeShape, Reported,
        WasReported, Changing, DrainOne
  <2>5. Handling'
    BY <1>6 DEF IInv, TypeOK, SvcRec, Shape, ChangeShape, Handling, Changing,
        DrainOne
  <2>6. Drained'
    <3>1. /\ svc'.w = Head(svc.todo) /\ svc'.add = {POLLOUT} /\ svc'.pc = "chg"
          /\ svc'.todo = Tail(svc.todo)
      BY <1>6 DEF IInv, TypeOK, SvcRec, DrainOne
    <3>2. \A j \in DOMAIN svc.todo :
            \/ svc.todo[j] = svc'.w
            \/ \E k \in DOMAIN svc'.todo : svc.todo[j] = svc'.todo[k]
      BY <1>6, <3>1, HeadTail DEF IInv, TypeOK, SvcRec, DrainOne
    <3>3. ASSUME Smp, NEW i \in DOMAIN foreign_pfd_list
          PROVE  \/ \E j \in DOMAIN svc'.todo : svc'.todo[j] = foreign_pfd_list[i]
                 \/ POLLOUT \in events[foreign_pfd_list[i]]
                 \/ svc'.w = foreign_pfd_list[i]
      BY <1>6, <3>2, <3>3 DEF IInv, Drained, Draining, Setting, Changing, DrainOne
    <3> QED
      BY <1>6, <3>1, <3>3 DEF Drained, Setting, Changing, DrainOne
  <2>7. StrongKept'
    <3> SUFFICES ASSUME Smp, NEW x \in asked' \ Flow
                 PROVE  Marked(x)' \/ Working(x)'
      BY DEF StrongKept
    <3>1. x \in asked \ Flow
      BY <1>6 DEF DrainOne
    <3>2. Marked(x) => Marked(x)'
      BY <1>6 DEF IInv, TypeOK, SvcRec, Marked, OnList, CallbackDue, Setting,
          Changing, DrainOne
    <3>3. Working(x) => Working(x)'
      BY <1>6 DEF Working, DrainOne
    <3> QED BY <3>1, <3>2, <3>3 DEF IInv, StrongKept
  <2>8. StrongWakes'
    BY <1>6 DEF IInv, TypeOK, SvcRec, Shape, ChangeShape, StrongKept,
        StrongWakes, Marked, Working, Cancelling, OnList, CallbackDue,
        Setting, Changing, DrainOne
  <2>9. SpinlockReleased'
    BY <1>6 DEF IInv, TypeOK, SvcRec, SpinlockReleased, DrainOne
  <2> QED BY <2>1, <2>2, <2>3, <2>4, <2>5, <2>6, <2>7, <2>8, <2>9 DEF IInv
<1>7. CASE DrainEnd
  <2>1. TypeOK'
    <3>1. svc' \in SvcRec
      BY <1>7, AtRec DEF IInv, TypeOK, SvcPc, DrainEnd, Goto
    <3> QED
      BY <1>7, <3>1 DEF IInv, TypeOK, DrainEnd
  <2>2. Shape'
    BY <1>7 DEF IInv, TypeOK, SvcRec, Shape, ChangeShape, Changing, DrainEnd,
        Goto, At
  <2>3. ChangeShape'
    BY <1>7 DEF IInv, TypeOK, SvcRec, Shape, ChangeShape, Changing, DrainEnd,
        Goto, At
  <2>4. Reported'
    BY <1>7 DEF IInv, TypeOK, SvcRec, Shape, ChangeShape, Reported,
        WasReported, Changing, DrainEnd, Goto, At
  <2>5. Handling'
    BY <1>7 DEF IInv, TypeOK, SvcRec, Shape, ChangeShape, Handling, Changing,
        DrainEnd, Goto, At
  <2>6. Drained'
    BY <1>7 DEF IInv, TypeOK, SvcRec, Shape, ChangeShape, Drained, Draining,
        Changing, Setting, DrainEnd, Goto, At
  <2>7. StrongKept'
    BY <1>7 DEF IInv, TypeOK, SvcRec, Shape, ChangeShape, Reported,
        WasReported, Handling, Drained, Draining, StrongKept, Marked, Working,
        OnList, CallbackDue, Setting, Changing, DrainEnd, Goto, At
  <2>8. StrongWakes'
    BY <1>7 DEF IInv, TypeOK, SvcRec, Shape, ChangeShape, StrongKept,
        StrongWakes, Marked, Working, Cancelling, OnList, CallbackDue,
        Setting, Changing, DrainEnd, Goto, At
  <2>9. SpinlockReleased'
    BY <1>7 DEF IInv, TypeOK, SvcRec, SpinlockReleased, DrainEnd, Goto, At
  <2> QED BY <2>1, <2>2, <2>3, <2>4, <2>5, <2>6, <2>7, <2>8, <2>9 DEF IInv
<1> QED BY <1>1, <1>2, <1>3, <1>4, <1>5, <1>6, <1>7

(* The service of the fds. *)
LEMMA FdsStep ==
  ASSUME IInv,
         \/ (\E c \in Wsi \cup {None} : ServicePipe(c))
         \/ (\E w \in Wsi : ServicePOLLIN(w)) \/ ServiceEnd
  PROVE  IInv'
<1>1. ASSUME NEW c \in Wsi \cup {None}, ServicePipe(c) PROVE IInv'
  <2>1. TypeOK'
    <3>1. svc' \in SvcRec
      <4>1. PICK p \in SvcPc :
              svc' = [svc EXCEPT !.woken = FALSE, !.w = c, !.back = "fds", !.pc = p]
        BY <1>1 DEF SvcPc, ServicePipe
      <4> QED BY <4>1 DEF IInv, TypeOK, SvcRec, SvcPc
    <3> QED
      BY <1>1, <3>1 DEF IInv, TypeOK, ServicePipe
  <2>2. Shape'
    BY <1>1 DEF IInv, TypeOK, SvcRec, Shape, ChangeShape, Changing,
        ServicePipe
  <2>3. ChangeShape'
    BY <1>1 DEF IInv, TypeOK, SvcRec, Shape, ChangeShape, Changing,
        ServicePipe
  <2>4. Reported'
    BY <1>1 DEF IInv, TypeOK, SvcRec, Shape, ChangeShape, Reported,
        WasReported, Changing, ServicePipe
  <2>5. Handling'
    BY <1>1 DEF IInv, TypeOK, SvcRec, Shape, ChangeShape, Handling, Changing,
        ServicePipe
  <2>6. Drained'
    BY <1>1 DEF IInv, TypeOK, SvcRec, Shape, ChangeShape, Drained, Draining,
        Changing, Setting, ServicePipe
  <2>7. StrongKept'
    <3> SUFFICES ASSUME Smp, NEW x \in asked' \ Flow
                 PROVE  Marked(x)' \/ Working(x)'
      BY DEF StrongKept
    <3>1. x \in asked \ Flow
      BY <1>1 DEF ServicePipe
    <3>2. Marked(x) => Marked(x)'
      BY <1>1 DEF IInv, TypeOK, SvcRec, Marked, OnList, CallbackDue, Setting,
          Changing, ServicePipe
    <3>3. Working(x) => Working(x)'
      BY <1>1 DEF Working, ServicePipe
    <3> QED BY <3>1, <3>2, <3>3 DEF IInv, StrongKept
  <2>8. StrongWakes'
    BY <1>1 DEF IInv, TypeOK, SvcRec, Shape, ChangeShape, StrongKept,
        StrongWakes, Marked, Working, Cancelling, OnList, CallbackDue,
        Setting, Changing, ServicePipe
  <2>9. SpinlockReleased'
    BY <1>1 DEF IInv, TypeOK, SvcRec, SpinlockReleased, ServicePipe
  <2> QED BY <2>1, <2>2, <2>3, <2>4, <2>5, <2>6, <2>7, <2>8, <2>9 DEF IInv
<1>2. ASSUME NEW w \in Wsi, ServicePOLLIN(w) PROVE IInv'
  <2>1. TypeOK'
    BY <1>2 DEF IInv, TypeOK, Shape, SvcRec, FrnRec, SvcPc, FrnPc,
        ServicePOLLIN
  <2>2. Shape'
    BY <1>2 DEF IInv, TypeOK, SvcRec, Shape, ChangeShape, Changing,
        ServicePOLLIN
  <2>3. ChangeShape'
    BY <1>2 DEF IInv, TypeOK, SvcRec, Shape, ChangeShape, Changing,
        ServicePOLLIN
  <2>4. Reported'
    BY <1>2 DEF IInv, TypeOK, SvcRec, Shape, ChangeShape, Reported,
        WasReported, Changing, ServicePOLLIN
  <2>5. Handling'
    BY <1>2 DEF IInv, TypeOK, SvcRec, Shape, ChangeShape, Handling, Changing,
        ServicePOLLIN
  <2>6. Drained'
    BY <1>2 DEF IInv, TypeOK, SvcRec, Shape, ChangeShape, Drained, Draining,
        Changing, Setting, ServicePOLLIN
  <2>7. StrongKept'
    <3> SUFFICES ASSUME Smp, NEW x \in asked' \ Flow
                 PROVE  Marked(x)' \/ Working(x)'
      BY DEF StrongKept
    <3>1. x \in asked \ Flow
      BY <1>2 DEF ServicePOLLIN
    <3>2. Marked(x) => Marked(x)'
      BY <1>2 DEF IInv, TypeOK, SvcRec, Marked, OnList, CallbackDue, Setting,
          Changing, ServicePOLLIN
    <3>3. Working(x) => Working(x)'
      BY <1>2 DEF Working, ServicePOLLIN
    <3> QED BY <3>1, <3>2, <3>3 DEF IInv, StrongKept
  <2>8. StrongWakes'
    BY <1>2 DEF IInv, TypeOK, SvcRec, Shape, ChangeShape, StrongKept,
        StrongWakes, Marked, Working, Cancelling, OnList, CallbackDue,
        Setting, Changing, ServicePOLLIN
  <2>9. SpinlockReleased'
    BY <1>2 DEF IInv, TypeOK, SvcRec, SpinlockReleased, ServicePOLLIN
  <2> QED BY <2>1, <2>2, <2>3, <2>4, <2>5, <2>6, <2>7, <2>8, <2>9 DEF IInv
<1>3. CASE ServiceEnd
  <2>1. TypeOK'
    <3>1. svc' \in SvcRec
      BY <1>3, AtRec DEF IInv, TypeOK, SvcPc, ServiceEnd, Goto
    <3> QED
      BY <1>3, <3>1 DEF IInv, TypeOK, ServiceEnd
  <2>2. Shape'
    BY <1>3 DEF IInv, TypeOK, SvcRec, Shape, ChangeShape, Changing,
        ServiceEnd, Goto, At
  <2>3. ChangeShape'
    BY <1>3 DEF IInv, TypeOK, SvcRec, Shape, ChangeShape, Changing,
        ServiceEnd, Goto, At
  <2>4. Reported'
    BY <1>3 DEF IInv, TypeOK, SvcRec, Shape, ChangeShape, Reported,
        WasReported, Changing, ServiceEnd, Goto, At
  <2>5. Handling'
    BY <1>3 DEF IInv, TypeOK, SvcRec, Shape, ChangeShape, Handling, Changing,
        ServiceEnd, Goto, At
  <2>6. Drained'
    BY <1>3 DEF IInv, TypeOK, SvcRec, Shape, ChangeShape, Drained, Draining,
        Changing, Setting, ServiceEnd, Goto, At
  <2>7. StrongKept'
    BY <1>3 DEF IInv, TypeOK, SvcRec, Shape, ChangeShape, Reported,
        WasReported, Handling, Drained, Draining, StrongKept, Marked, Working,
        OnList, CallbackDue, Setting, Changing, ServiceEnd, Goto, At
  <2>8. StrongWakes'
    BY <1>3 DEF IInv, TypeOK, SvcRec, Shape, ChangeShape, StrongKept,
        StrongWakes, Marked, Working, Cancelling, OnList, CallbackDue,
        Setting, Changing, ServiceEnd, Goto, At
  <2>9. SpinlockReleased'
    BY <1>3 DEF IInv, TypeOK, SvcRec, SpinlockReleased, ServiceEnd, Goto, At
  <2> QED BY <2>1, <2>2, <2>3, <2>4, <2>5, <2>6, <2>7, <2>8, <2>9 DEF IInv
<1> QED BY <1>1, <1>2, <1>3

(* lws_handle_POLLOUT_event(). *)
LEMMA HandleStep ==
  ASSUME IInv,
         \/ (\E w \in Wsi : HandlePOLLOUT(w)) \/ SetHandling \/ RoleBails
         \/ BailHandling \/ BailLeave \/ RoleUserService \/ SampleLeave
         \/ ClearHandling \/ RecheckLeave \/ ClearLeave
         \/ WriteableCallback \/ FinalLeave
  PROVE  IInv'
<1>1. ASSUME NEW w \in Wsi, HandlePOLLOUT(w) PROVE IInv'
  <2>1. TypeOK'
    BY <1>1 DEF IInv, TypeOK, Shape, SvcRec, FrnRec, SvcPc, FrnPc,
        HandlePOLLOUT
  <2>2. Shape'
    BY <1>1 DEF IInv, TypeOK, SvcRec, Shape, ChangeShape, Changing,
        HandlePOLLOUT
  <2>3. ChangeShape'
    BY <1>1 DEF IInv, TypeOK, SvcRec, Shape, ChangeShape, Changing,
        HandlePOLLOUT
  <2>4. Reported'
    <3>1. /\ svc'.out = svc.out \ {w} /\ svc'.w = w /\ svc'.pc = "handle"
          /\ svc.pc = "fds" /\ w \in svc.out /\ events' = events
      BY <1>1 DEF IInv, TypeOK, SvcRec, HandlePOLLOUT
    <3> QED BY <3>1 DEF IInv, Reported, WasReported
  <2>5. Handling'
    BY <1>1 DEF IInv, TypeOK, SvcRec, Shape, ChangeShape, Handling, Changing,
        HandlePOLLOUT
  <2>6. Drained'
    BY <1>1 DEF IInv, TypeOK, SvcRec, Shape, ChangeShape, Drained, Draining,
        Changing, Setting, HandlePOLLOUT
  <2>7. StrongKept'
    <3> SUFFICES ASSUME Smp, NEW x \in asked' \ Flow
                 PROVE  Marked(x)' \/ Working(x)'
      BY DEF StrongKept
    <3>1. x \in asked \ Flow
      BY <1>1 DEF HandlePOLLOUT
    <3>2. Marked(x) => Marked(x)'
      BY <1>1 DEF IInv, TypeOK, SvcRec, Marked, OnList, CallbackDue, Setting,
          Changing, HandlePOLLOUT
    <3>3. Working(x) => Working(x)'
      BY <1>1 DEF Working, HandlePOLLOUT
    <3> QED BY <3>1, <3>2, <3>3 DEF IInv, StrongKept
  <2>8. StrongWakes'
    BY <1>1 DEF IInv, TypeOK, SvcRec, Shape, ChangeShape, StrongKept,
        StrongWakes, Marked, Working, Cancelling, OnList, CallbackDue,
        Setting, Changing, HandlePOLLOUT
  <2>9. SpinlockReleased'
    BY <1>1 DEF IInv, TypeOK, SvcRec, SpinlockReleased, HandlePOLLOUT
  <2> QED BY <2>1, <2>2, <2>3, <2>4, <2>5, <2>6, <2>7, <2>8, <2>9 DEF IInv
<1>2. CASE SetHandling
  <2>1. TypeOK'
    <3>1. svc' \in SvcRec
      BY <1>2, AtRec DEF IInv, TypeOK, SvcPc, SetHandling, Goto
    <3>2. handling_pollout' \in [Wsi -> BOOLEAN]
      BY <1>2 DEF IInv, TypeOK, SetHandling
    <3> QED
      BY <1>2, <3>1, <3>2 DEF IInv, TypeOK, SetHandling
  <2>2. Shape'
    BY <1>2 DEF IInv, TypeOK, SvcRec, Shape, ChangeShape, Changing,
        SetHandling, Goto, At
  <2>3. ChangeShape'
    BY <1>2 DEF IInv, TypeOK, SvcRec, Shape, ChangeShape, Changing,
        SetHandling, Goto, At
  <2>4. Reported'
    BY <1>2 DEF IInv, TypeOK, SvcRec, Shape, ChangeShape, Reported,
        WasReported, Changing, SetHandling, Goto, At
  <2>5. Handling'
    BY <1>2 DEF IInv, TypeOK, SvcRec, Shape, ChangeShape, Handling, Changing,
        SetHandling, Goto, At
  <2>6. Drained'
    BY <1>2 DEF IInv, TypeOK, SvcRec, Shape, ChangeShape, Drained, Draining,
        Changing, Setting, SetHandling, Goto, At
  <2>7. StrongKept'
    BY <1>2 DEF IInv, TypeOK, SvcRec, Shape, ChangeShape, Reported,
        WasReported, Handling, Drained, Draining, StrongKept, Marked, Working,
        OnList, CallbackDue, Setting, Changing, SetHandling, Goto, At
  <2>8. StrongWakes'
    BY <1>2 DEF IInv, TypeOK, SvcRec, Shape, ChangeShape, StrongKept,
        StrongWakes, Marked, Working, Cancelling, OnList, CallbackDue,
        Setting, Changing, SetHandling, Goto, At
  <2>9. SpinlockReleased'
    BY <1>2 DEF IInv, TypeOK, SvcRec, SpinlockReleased, SetHandling, Goto, At
  <2> QED BY <2>1, <2>2, <2>3, <2>4, <2>5, <2>6, <2>7, <2>8, <2>9 DEF IInv
<1>3. CASE RoleBails
  <2>1. TypeOK'
    <3>1. svc' \in SvcRec
      BY <1>3, AtRec DEF IInv, TypeOK, SvcPc, RoleBails, Goto
    <3> QED
      BY <1>3, <3>1 DEF IInv, TypeOK, RoleBails
  <2>2. Shape'
    BY <1>3 DEF IInv, TypeOK, SvcRec, Shape, ChangeShape, Changing, RoleBails,
        Goto, At
  <2>3. ChangeShape'
    BY <1>3 DEF IInv, TypeOK, SvcRec, Shape, ChangeShape, Changing, RoleBails,
        Goto, At
  <2>4. Reported'
    BY <1>3 DEF IInv, TypeOK, SvcRec, Shape, ChangeShape, Reported,
        WasReported, Changing, RoleBails, Goto, At
  <2>5. Handling'
    BY <1>3 DEF IInv, TypeOK, SvcRec, Shape, ChangeShape, Handling, Changing,
        RoleBails, Goto, At
  <2>6. Drained'
    BY <1>3 DEF IInv, TypeOK, SvcRec, Shape, ChangeShape, Drained, Draining,
        Changing, Setting, RoleBails, Goto, At
  <2>7. StrongKept'
    BY <1>3 DEF IInv, TypeOK, SvcRec, Shape, ChangeShape, Reported,
        WasReported, Handling, Drained, Draining, StrongKept, Marked, Working,
        OnList, CallbackDue, Setting, Changing, RoleBails, Goto, At
  <2>8. StrongWakes'
    BY <1>3 DEF IInv, TypeOK, SvcRec, Shape, ChangeShape, StrongKept,
        StrongWakes, Marked, Working, Cancelling, OnList, CallbackDue,
        Setting, Changing, RoleBails, Goto, At
  <2>9. SpinlockReleased'
    BY <1>3 DEF IInv, TypeOK, SvcRec, SpinlockReleased, RoleBails, Goto, At
  <2> QED BY <2>1, <2>2, <2>3, <2>4, <2>5, <2>6, <2>7, <2>8, <2>9 DEF IInv
<1>4. CASE BailHandling
  <2>1. TypeOK'
    <3>1. svc' \in SvcRec
      BY <1>4, AtRec DEF IInv, TypeOK, SvcPc, BailHandling, Goto
    <3>2. handling_pollout' \in [Wsi -> BOOLEAN]
      BY <1>4 DEF IInv, TypeOK, BailHandling
    <3> QED
      BY <1>4, <3>1, <3>2 DEF IInv, TypeOK, BailHandling
  <2>2. Shape'
    BY <1>4 DEF IInv, TypeOK, SvcRec, Shape, ChangeShape, Changing,
        BailHandling, Goto, At
  <2>3. ChangeShape'
    BY <1>4 DEF IInv, TypeOK, SvcRec, Shape, ChangeShape, Changing,
        BailHandling, Goto, At
  <2>4. Reported'
    BY <1>4 DEF IInv, TypeOK, SvcRec, Shape, ChangeShape, Reported,
        WasReported, Changing, BailHandling, Goto, At
  <2>5. Handling'
    BY <1>4 DEF IInv, TypeOK, SvcRec, Shape, ChangeShape, Handling, Changing,
        BailHandling, Goto, At
  <2>6. Drained'
    BY <1>4 DEF IInv, TypeOK, SvcRec, Shape, ChangeShape, Drained, Draining,
        Changing, Setting, BailHandling, Goto, At
  <2>7. StrongKept'
    BY <1>4 DEF IInv, TypeOK, SvcRec, Shape, ChangeShape, Reported,
        WasReported, Handling, Drained, Draining, StrongKept, Marked, Working,
        OnList, CallbackDue, Setting, Changing, BailHandling, Goto, At
  <2>8. StrongWakes'
    BY <1>4 DEF IInv, TypeOK, SvcRec, Shape, ChangeShape, StrongKept,
        StrongWakes, Marked, Working, Cancelling, OnList, CallbackDue,
        Setting, Changing, BailHandling, Goto, At
  <2>9. SpinlockReleased'
    BY <1>4 DEF IInv, TypeOK, SvcRec, SpinlockReleased, BailHandling, Goto, At
  <2> QED BY <2>1, <2>2, <2>3, <2>4, <2>5, <2>6, <2>7, <2>8, <2>9 DEF IInv
<1>5. CASE BailLeave
  <2>1. TypeOK'
    <3>1. svc' \in SvcRec
      BY <1>5, AtRec DEF IInv, TypeOK, SvcPc, BailLeave, Goto
    <3>2. leave_pollout_active' \in [Wsi -> BOOLEAN]
      BY <1>5 DEF IInv, TypeOK, BailLeave
    <3> QED
      BY <1>5, <3>1, <3>2 DEF IInv, TypeOK, BailLeave
  <2>2. Shape'
    BY <1>5 DEF IInv, TypeOK, SvcRec, Shape, ChangeShape, Changing, BailLeave,
        Goto, At
  <2>3. ChangeShape'
    BY <1>5 DEF IInv, TypeOK, SvcRec, Shape, ChangeShape, Changing, BailLeave,
        Goto, At
  <2>4. Reported'
    BY <1>5 DEF IInv, TypeOK, SvcRec, Shape, ChangeShape, Reported,
        WasReported, Changing, BailLeave, Goto, At
  <2>5. Handling'
    BY <1>5 DEF IInv, TypeOK, SvcRec, Shape, ChangeShape, Handling, Changing,
        BailLeave, Goto, At
  <2>6. Drained'
    BY <1>5 DEF IInv, TypeOK, SvcRec, Shape, ChangeShape, Drained, Draining,
        Changing, Setting, BailLeave, Goto, At
  <2>7. StrongKept'
    BY <1>5 DEF IInv, TypeOK, SvcRec, Shape, ChangeShape, Reported,
        WasReported, Handling, Drained, Draining, StrongKept, Marked, Working,
        OnList, CallbackDue, Setting, Changing, BailLeave, Goto, At
  <2>8. StrongWakes'
    BY <1>5 DEF IInv, TypeOK, SvcRec, Shape, ChangeShape, StrongKept,
        StrongWakes, Marked, Working, Cancelling, OnList, CallbackDue,
        Setting, Changing, BailLeave, Goto, At
  <2>9. SpinlockReleased'
    BY <1>5 DEF IInv, TypeOK, SvcRec, SpinlockReleased, BailLeave, Goto, At
  <2> QED BY <2>1, <2>2, <2>3, <2>4, <2>5, <2>6, <2>7, <2>8, <2>9 DEF IInv
<1>6. CASE RoleUserService
  <2>1. TypeOK'
    <3>1. svc' \in SvcRec
      BY <1>6, AtRec DEF IInv, TypeOK, SvcPc, RoleUserService, Goto
    <3> QED
      BY <1>6, <3>1 DEF IInv, TypeOK, RoleUserService
  <2>2. Shape'
    BY <1>6 DEF IInv, TypeOK, SvcRec, Shape, ChangeShape, Changing,
        RoleUserService, Goto, At
  <2>3. ChangeShape'
    BY <1>6 DEF IInv, TypeOK, SvcRec, Shape, ChangeShape, Changing,
        RoleUserService, Goto, At
  <2>4. Reported'
    BY <1>6 DEF IInv, TypeOK, SvcRec, Shape, ChangeShape, Reported,
        WasReported, Changing, RoleUserService, Goto, At
  <2>5. Handling'
    BY <1>6 DEF IInv, TypeOK, SvcRec, Shape, ChangeShape, Handling, Changing,
        RoleUserService, Goto, At
  <2>6. Drained'
    BY <1>6 DEF IInv, TypeOK, SvcRec, Shape, ChangeShape, Drained, Draining,
        Changing, Setting, RoleUserService, Goto, At
  <2>7. StrongKept'
    BY <1>6 DEF IInv, TypeOK, SvcRec, Shape, ChangeShape, Reported,
        WasReported, Handling, Drained, Draining, StrongKept, Marked, Working,
        OnList, CallbackDue, Setting, Changing, RoleUserService, Goto, At
  <2>8. StrongWakes'
    BY <1>6 DEF IInv, TypeOK, SvcRec, Shape, ChangeShape, StrongKept,
        StrongWakes, Marked, Working, Cancelling, OnList, CallbackDue,
        Setting, Changing, RoleUserService, Goto, At
  <2>9. SpinlockReleased'
    BY <1>6 DEF IInv, TypeOK, SvcRec, SpinlockReleased, RoleUserService, Goto,
        At
  <2> QED BY <2>1, <2>2, <2>3, <2>4, <2>5, <2>6, <2>7, <2>8, <2>9 DEF IInv
<1>7. CASE SampleLeave
  <2>1. TypeOK'
    BY <1>7 DEF IInv, TypeOK, Shape, SvcRec, FrnRec, SvcPc, FrnPc,
        SampleLeave, Change
  <2>2. Shape'
    BY <1>7 DEF IInv, TypeOK, SvcRec, Shape, ChangeShape, Changing,
        SampleLeave, Change
  <2>3. ChangeShape'
    BY <1>7 DEF IInv, TypeOK, SvcRec, Shape, ChangeShape, Changing,
        SampleLeave, Change
  <2>4. Reported'
    BY <1>7 DEF IInv, TypeOK, SvcRec, Shape, ChangeShape, Reported,
        WasReported, Changing, SampleLeave, Change
  <2>5. Handling'
    BY <1>7 DEF IInv, TypeOK, SvcRec, Shape, ChangeShape, Handling, Changing,
        SampleLeave, Change
  <2>6. Drained'
    BY <1>7 DEF IInv, TypeOK, SvcRec, Shape, ChangeShape, Drained, Draining,
        Changing, Setting, SampleLeave, Change
  <2>7. StrongKept'
    BY <1>7 DEF IInv, TypeOK, SvcRec, Shape, ChangeShape, Reported,
        WasReported, Handling, Drained, Draining, StrongKept, Marked, Working,
        OnList, CallbackDue, Setting, Changing, SampleLeave, Change
  <2>8. StrongWakes'
    BY <1>7 DEF IInv, TypeOK, SvcRec, Shape, ChangeShape, StrongKept,
        StrongWakes, Marked, Working, Cancelling, OnList, CallbackDue,
        Setting, Changing, SampleLeave, Change
  <2>9. SpinlockReleased'
    BY <1>7 DEF IInv, TypeOK, SvcRec, SpinlockReleased, SampleLeave, Change
  <2> QED BY <2>1, <2>2, <2>3, <2>4, <2>5, <2>6, <2>7, <2>8, <2>9 DEF IInv
<1>8. CASE ClearHandling
  <2>1. TypeOK'
    <3>1. svc' \in SvcRec
      BY <1>8, AtRec DEF IInv, TypeOK, SvcPc, ClearHandling, Goto
    <3>2. handling_pollout' \in [Wsi -> BOOLEAN]
      BY <1>8 DEF IInv, TypeOK, ClearHandling
    <3> QED
      BY <1>8, <3>1, <3>2 DEF IInv, TypeOK, ClearHandling
  <2>2. Shape'
    BY <1>8 DEF IInv, TypeOK, SvcRec, Shape, ChangeShape, Changing,
        ClearHandling, Goto, At
  <2>3. ChangeShape'
    BY <1>8 DEF IInv, TypeOK, SvcRec, Shape, ChangeShape, Changing,
        ClearHandling, Goto, At
  <2>4. Reported'
    BY <1>8 DEF IInv, TypeOK, SvcRec, Shape, ChangeShape, Reported,
        WasReported, Changing, ClearHandling, Goto, At
  <2>5. Handling'
    BY <1>8 DEF IInv, TypeOK, SvcRec, Shape, ChangeShape, Handling, Changing,
        ClearHandling, Goto, At
  <2>6. Drained'
    BY <1>8 DEF IInv, TypeOK, SvcRec, Shape, ChangeShape, Drained, Draining,
        Changing, Setting, ClearHandling, Goto, At
  <2>7. StrongKept'
    BY <1>8 DEF IInv, TypeOK, SvcRec, Shape, ChangeShape, Reported,
        WasReported, Handling, Drained, Draining, StrongKept, Marked, Working,
        OnList, CallbackDue, Setting, Changing, ClearHandling, Goto, At
  <2>8. StrongWakes'
    BY <1>8 DEF IInv, TypeOK, SvcRec, Shape, ChangeShape, StrongKept,
        StrongWakes, Marked, Working, Cancelling, OnList, CallbackDue,
        Setting, Changing, ClearHandling, Goto, At
  <2>9. SpinlockReleased'
    BY <1>8 DEF IInv, TypeOK, SvcRec, SpinlockReleased, ClearHandling, Goto,
        At
  <2> QED BY <2>1, <2>2, <2>3, <2>4, <2>5, <2>6, <2>7, <2>8, <2>9 DEF IInv
<1>9. CASE RecheckLeave
  <2>1. TypeOK'
    <3>1. svc' \in SvcRec
      BY <1>9, AtRec, ChangeRec DEF IInv, TypeOK, SvcPc, RecheckLeave
    <3> QED
      BY <1>9, <3>1 DEF IInv, TypeOK, RecheckLeave
  <2>2. Shape'
    BY <1>9 DEF IInv, TypeOK, SvcRec, Shape, ChangeShape, Changing,
        RecheckLeave, Change, At
  <2>3. ChangeShape'
    BY <1>9 DEF IInv, TypeOK, SvcRec, Shape, ChangeShape, Changing,
        RecheckLeave, Change, At
  <2>4. Reported'
    BY <1>9 DEF IInv, TypeOK, SvcRec, Shape, ChangeShape, Reported,
        WasReported, Changing, RecheckLeave, Change, At
  <2>5. Handling'
    BY <1>9 DEF IInv, TypeOK, SvcRec, Shape, ChangeShape, Handling, Changing,
        RecheckLeave, Change, At
  <2>6. Drained'
    BY <1>9 DEF IInv, TypeOK, SvcRec, Shape, ChangeShape, Drained, Draining,
        Changing, Setting, RecheckLeave, Change, At
  <2>7. StrongKept'
    BY <1>9 DEF IInv, TypeOK, SvcRec, Shape, ChangeShape, Reported,
        WasReported, Handling, Drained, Draining, StrongKept, Marked, Working,
        OnList, CallbackDue, Setting, Changing, RecheckLeave, Change, At
  <2>8. StrongWakes'
    BY <1>9 DEF IInv, TypeOK, SvcRec, Shape, ChangeShape, StrongKept,
        StrongWakes, Marked, Working, Cancelling, OnList, CallbackDue,
        Setting, Changing, RecheckLeave, Change, At
  <2>9. SpinlockReleased'
    BY <1>9 DEF IInv, TypeOK, SvcRec, SpinlockReleased, RecheckLeave, Change,
        At
  <2> QED BY <2>1, <2>2, <2>3, <2>4, <2>5, <2>6, <2>7, <2>8, <2>9 DEF IInv
<1>10. CASE ClearLeave
  <2>1. TypeOK'
    <3>1. svc' \in SvcRec
      BY <1>10, AtRec DEF IInv, TypeOK, SvcPc, ClearLeave, Goto
    <3>2. leave_pollout_active' \in [Wsi -> BOOLEAN]
      BY <1>10 DEF IInv, TypeOK, ClearLeave
    <3> QED
      BY <1>10, <3>1, <3>2 DEF IInv, TypeOK, ClearLeave
  <2>2. Shape'
    BY <1>10 DEF IInv, TypeOK, SvcRec, Shape, ChangeShape, Changing,
        ClearLeave, Goto, At
  <2>3. ChangeShape'
    BY <1>10 DEF IInv, TypeOK, SvcRec, Shape, ChangeShape, Changing,
        ClearLeave, Goto, At
  <2>4. Reported'
    BY <1>10 DEF IInv, TypeOK, SvcRec, Shape, ChangeShape, Reported,
        WasReported, Changing, ClearLeave, Goto, At
  <2>5. Handling'
    BY <1>10 DEF IInv, TypeOK, SvcRec, Shape, ChangeShape, Handling, Changing,
        ClearLeave, Goto, At
  <2>6. Drained'
    BY <1>10 DEF IInv, TypeOK, SvcRec, Shape, ChangeShape, Drained, Draining,
        Changing, Setting, ClearLeave, Goto, At
  <2>7. StrongKept'
    BY <1>10 DEF IInv, TypeOK, SvcRec, Shape, ChangeShape, Reported,
        WasReported, Handling, Drained, Draining, StrongKept, Marked, Working,
        OnList, CallbackDue, Setting, Changing, ClearLeave, Goto, At
  <2>8. StrongWakes'
    BY <1>10 DEF IInv, TypeOK, SvcRec, Shape, ChangeShape, StrongKept,
        StrongWakes, Marked, Working, Cancelling, OnList, CallbackDue,
        Setting, Changing, ClearLeave, Goto, At
  <2>9. SpinlockReleased'
    BY <1>10 DEF IInv, TypeOK, SvcRec, SpinlockReleased, ClearLeave, Goto, At
  <2> QED BY <2>1, <2>2, <2>3, <2>4, <2>5, <2>6, <2>7, <2>8, <2>9 DEF IInv
<1>11. CASE WriteableCallback
  <2>1. TypeOK'
    BY <1>11 DEF IInv, TypeOK, Shape, SvcRec, FrnRec, SvcPc, FrnPc,
        WriteableCallback
  <2>2. Shape'
    BY <1>11 DEF IInv, TypeOK, SvcRec, Shape, ChangeShape, Changing,
        WriteableCallback
  <2>3. ChangeShape'
    BY <1>11 DEF IInv, TypeOK, SvcRec, Shape, ChangeShape, Changing,
        WriteableCallback
  <2>4. Reported'
    BY <1>11 DEF IInv, TypeOK, SvcRec, Shape, ChangeShape, Reported,
        WasReported, Changing, WriteableCallback
  <2>5. Handling'
    BY <1>11 DEF IInv, TypeOK, SvcRec, Shape, ChangeShape, Handling, Changing,
        WriteableCallback
  <2>6. Drained'
    BY <1>11 DEF IInv, TypeOK, SvcRec, Shape, ChangeShape, Drained, Draining,
        Changing, Setting, WriteableCallback
  <2>7. StrongKept'
    BY <1>11 DEF IInv, TypeOK, SvcRec, Shape, ChangeShape, Reported,
        WasReported, Handling, Drained, Draining, StrongKept, Marked, Working,
        OnList, CallbackDue, Setting, Changing, WriteableCallback
  <2>8. StrongWakes'
    BY <1>11 DEF IInv, TypeOK, SvcRec, Shape, ChangeShape, StrongKept,
        StrongWakes, Marked, Working, Cancelling, OnList, CallbackDue,
        Setting, Changing, WriteableCallback
  <2>9. SpinlockReleased'
    BY <1>11 DEF IInv, TypeOK, SvcRec, SpinlockReleased, WriteableCallback
  <2> QED BY <2>1, <2>2, <2>3, <2>4, <2>5, <2>6, <2>7, <2>8, <2>9 DEF IInv
<1>12. CASE FinalLeave
  <2>1. TypeOK'
    <3>1. svc' \in SvcRec
      BY <1>12, AtRec, ChangeRec DEF IInv, TypeOK, SvcPc, FinalLeave
    <3> QED
      BY <1>12, <3>1 DEF IInv, TypeOK, FinalLeave
  <2>2. Shape'
    BY <1>12 DEF IInv, TypeOK, SvcRec, Shape, ChangeShape, Changing,
        FinalLeave, Change, At
  <2>3. ChangeShape'
    BY <1>12 DEF IInv, TypeOK, SvcRec, Shape, ChangeShape, Changing,
        FinalLeave, Change, At
  <2>4. Reported'
    BY <1>12 DEF IInv, TypeOK, SvcRec, Shape, ChangeShape, Reported,
        WasReported, Changing, FinalLeave, Change, At
  <2>5. Handling'
    BY <1>12 DEF IInv, TypeOK, SvcRec, Shape, ChangeShape, Handling, Changing,
        FinalLeave, Change, At
  <2>6. Drained'
    BY <1>12 DEF IInv, TypeOK, SvcRec, Shape, ChangeShape, Drained, Draining,
        Changing, Setting, FinalLeave, Change, At
  <2>7. StrongKept'
    BY <1>12 DEF IInv, TypeOK, SvcRec, Shape, ChangeShape, Reported,
        WasReported, Handling, Drained, Draining, StrongKept, Marked, Working,
        OnList, CallbackDue, Setting, Changing, FinalLeave, Change, At
  <2>8. StrongWakes'
    BY <1>12 DEF IInv, TypeOK, SvcRec, Shape, ChangeShape, StrongKept,
        StrongWakes, Marked, Working, Cancelling, OnList, CallbackDue,
        Setting, Changing, FinalLeave, Change, At
  <2>9. SpinlockReleased'
    BY <1>12 DEF IInv, TypeOK, SvcRec, SpinlockReleased, FinalLeave, Change,
        At
  <2> QED BY <2>1, <2>2, <2>3, <2>4, <2>5, <2>6, <2>7, <2>8, <2>9 DEF IInv
<1> QED BY <1>1, <1>2, <1>3, <1>4, <1>5, <1>6, <1>7, <1>8, <1>9, <1>10, <1>11,
      <1>12

(* The user callbacks. *)
LEMMA UserStep ==
  ASSUME IInv,
         \/ UserAsks \/ UserRxFlow \/ UserReturns
  PROVE  IInv'
<1>1. CASE UserAsks
  <2>1. TypeOK'
    <3>1. svc \in SvcRec /\ svc.w \in Wsi
      BY <1>1 DEF IInv, TypeOK, Shape, UserAsks
    <3>2. svc' \in SvcRec
      BY <1>1, <3>1 DEF SvcRec, SvcPc, UserAsks
    <3> QED
      BY <1>1, <3>1, <3>2 DEF IInv, TypeOK, UserAsks
  <2>2. Shape'
    BY <1>1 DEF IInv, TypeOK, SvcRec, Shape, ChangeShape, Changing, UserAsks
  <2>3. ChangeShape'
    BY <1>1 DEF IInv, TypeOK, SvcRec, Shape, ChangeShape, Changing, UserAsks
  <2>4. Reported'
    BY <1>1 DEF IInv, TypeOK, SvcRec, Shape, ChangeShape, Reported,
        WasReported, Changing, UserAsks
  <2>5. Handling'
    BY <1>1 DEF IInv, TypeOK, SvcRec, Shape, ChangeShape, Handling, Changing,
        UserAsks
  <2>6. Drained'
    BY <1>1 DEF IInv, TypeOK, SvcRec, Shape, ChangeShape, Drained, Draining,
        Changing, Setting, UserAsks
  <2>7. StrongKept'
    BY <1>1 DEF IInv, TypeOK, SvcRec, Shape, ChangeShape, Reported,
        WasReported, Handling, Drained, Draining, StrongKept, Marked, Working,
        OnList, CallbackDue, Setting, Changing, UserAsks
  <2>8. StrongWakes'
    BY <1>1 DEF IInv, TypeOK, SvcRec, Shape, ChangeShape, StrongKept,
        StrongWakes, Marked, Working, Cancelling, OnList, CallbackDue,
        Setting, Changing, UserAsks
  <2>9. SpinlockReleased'
    BY <1>1 DEF IInv, TypeOK, SvcRec, SpinlockReleased, UserAsks
  <2> QED BY <2>1, <2>2, <2>3, <2>4, <2>5, <2>6, <2>7, <2>8, <2>9 DEF IInv
<1>2. CASE UserRxFlow
  <2>1. TypeOK'
    <3>1. svc \in SvcRec /\ svc.w \in Wsi
      BY <1>2 DEF IInv, TypeOK, Shape, UserRxFlow
    <3>2. PICK rm \in SUBSET {POLLIN, POLLOUT},
               add \in SUBSET {POLLIN, POLLOUT} :
            svc' = [svc EXCEPT !.pc = "chg", !.locked = FALSE, !.rm = rm,
                               !.add = add]
      <4>1. CASE POLLIN \in events[svc.w]
        BY <1>2, <4>1 DEF UserRxFlow
      <4>2. CASE POLLIN \notin events[svc.w]
        BY <1>2, <4>2 DEF UserRxFlow
      <4> QED BY <4>1, <4>2
    <3>3. svc' \in SvcRec
      BY <3>1, <3>2 DEF SvcRec, SvcPc
    <3> QED
      BY <1>2, <3>1, <3>3 DEF IInv, TypeOK, UserRxFlow
  <2>2. Shape'
    BY <1>2 DEF IInv, TypeOK, SvcRec, Shape, ChangeShape, Changing, UserRxFlow
  <2>3. ChangeShape'
    BY <1>2 DEF IInv, TypeOK, SvcRec, Shape, ChangeShape, Changing, UserRxFlow
  <2>4. Reported'
    BY <1>2 DEF IInv, TypeOK, SvcRec, Shape, ChangeShape, Reported,
        WasReported, Changing, UserRxFlow
  <2>5. Handling'
    BY <1>2 DEF IInv, TypeOK, SvcRec, Shape, ChangeShape, Handling, Changing,
        UserRxFlow
  <2>6. Drained'
    BY <1>2 DEF IInv, TypeOK, SvcRec, Shape, ChangeShape, Drained, Draining,
        Changing, Setting, UserRxFlow
  <2>7. StrongKept'
    BY <1>2 DEF IInv, TypeOK, SvcRec, Shape, ChangeShape, Reported,
        WasReported, Handling, Drained, Draining, StrongKept, Marked, Working,
        OnList, CallbackDue, Setting, Changing, UserRxFlow
  <2>8. StrongWakes'
    BY <1>2 DEF IInv, TypeOK, SvcRec, Shape, ChangeShape, StrongKept,
        StrongWakes, Marked, Working, Cancelling, OnList, CallbackDue,
        Setting, Changing, UserRxFlow
  <2>9. SpinlockReleased'
    BY <1>2 DEF IInv, TypeOK, SvcRec, SpinlockReleased, UserRxFlow
  <2> QED BY <2>1, <2>2, <2>3, <2>4, <2>5, <2>6, <2>7, <2>8, <2>9 DEF IInv
<1>3. CASE UserReturns
  <2>1. TypeOK'
    <3>1. svc' \in SvcRec
      <4>1. svc \in SvcRec /\ svc.back \in SvcPc
        BY DEF IInv, TypeOK, SvcRec
      <4>2. At(svc.back) \in SvcRec
        BY <4>1, AtRec
      <4> QED BY <1>3, <4>2 DEF SvcRec, SvcPc, UserReturns
    <3> QED
      BY <1>3, <3>1 DEF IInv, TypeOK, UserReturns
  <2>2. Shape'
    BY <1>3 DEF IInv, TypeOK, SvcRec, Shape, ChangeShape, Changing,
        UserReturns, At
  <2>3. ChangeShape'
    BY <1>3 DEF IInv, TypeOK, SvcRec, Shape, ChangeShape, Changing,
        UserReturns, At
  <2>4. Reported'
    BY <1>3 DEF IInv, TypeOK, SvcRec, Shape, ChangeShape, Reported,
        WasReported, Changing, UserReturns, At
  <2>5. Handling'
    BY <1>3 DEF IInv, TypeOK, SvcRec, Shape, ChangeShape, Handling, Changing,
        UserReturns, At
  <2>6. Drained'
    BY <1>3 DEF IInv, TypeOK, SvcRec, Shape, ChangeShape, Drained, Draining,
        Changing, Setting, UserReturns, At
  <2>7. StrongKept'
    BY <1>3 DEF IInv, TypeOK, SvcRec, Shape, ChangeShape, Reported,
        WasReported, Handling, Drained, Draining, StrongKept, Marked, Working,
        OnList, CallbackDue, Setting, Changing, UserReturns, At
  <2>8. StrongWakes'
    BY <1>3 DEF IInv, TypeOK, SvcRec, Shape, ChangeShape, StrongKept,
        StrongWakes, Marked, Working, Cancelling, OnList, CallbackDue,
        Setting, Changing, UserReturns, At
  <2>9. SpinlockReleased'
    BY <1>3 DEF IInv, TypeOK, SvcRec, SpinlockReleased, UserReturns, At
  <2> QED BY <2>1, <2>2, <2>3, <2>4, <2>5, <2>6, <2>7, <2>8, <2>9 DEF IInv
<1> QED BY <1>1, <1>2, <1>3

(* A foreign thread in lws_callback_on_writable(). *)
LEMMA CallStep ==
  ASSUME IInv,
         \/ (\E t \in Foreign, w \in Wsi : ForeignAsks(t, w))
         \/ (\E t \in Foreign : LookHandling(t))
         \/ (\E t \in Foreign : SetLeave(t))
         \/ (\E t \in Foreign : TakeSpinlock(t))
         \/ (\E t \in Foreign : CheckInsidePoll(t))
         \/ (\E t \in Foreign : AppendForeign(t))
         \/ (\E t \in Foreign : CancelService(t))
         \/ (\E t \in Foreign : DropSpinlock(t))
         \/ (\E t \in Foreign : ForeignRead(t))
         \/ (\E t \in Foreign : ForeignWrite(t))
  PROVE  IInv'
<1>1. ASSUME NEW t \in Foreign, NEW w \in Wsi, ForeignAsks(t, w) PROVE IInv'
  <2>0. /\ \A u \in Foreign : u # t => frn'[u] = frn[u]
        /\ frn'[t].pc = "look"
        /\ frn'[t].w = w /\ frn'[t].tmp = frn[t].tmp
    BY <1>1 DEF IInv, TypeOK, FrnRec, ForeignAsks
  <2>1. TypeOK'
    <3>1. frn' \in [Foreign -> FrnRec]
      <4>1. frn[t] \in FrnRec
        BY DEF IInv, TypeOK
      <4>2. frn'[t] = [frn[t] EXCEPT !.pc = "look", !.w = w]
        BY <1>1 DEF IInv, TypeOK, ForeignAsks, FGoto
      <4>3. frn'[t] \in FrnRec
        BY <4>1, <4>2 DEF FrnRec, FrnPc
      <4>4. frn' = [frn EXCEPT ![t] = frn'[t]]
        BY <1>1 DEF IInv, TypeOK, ForeignAsks
      <4> QED BY <4>3, <4>4 DEF IInv, TypeOK
    <3> QED
      BY <1>1, <3>1 DEF IInv, TypeOK, Shape, ForeignAsks
  <2>2. Shape'
    BY <1>1 DEF IInv, TypeOK, SvcRec, Shape, ChangeShape, Changing,
        ForeignAsks
  <2>3. ChangeShape'
    BY <1>1 DEF IInv, TypeOK, SvcRec, Shape, ChangeShape, Changing,
        ForeignAsks
  <2>4. Reported'
    BY <1>1 DEF IInv, TypeOK, SvcRec, Shape, ChangeShape, Reported,
        WasReported, Changing, ForeignAsks
  <2>5. Handling'
    BY <1>1 DEF IInv, TypeOK, SvcRec, Shape, ChangeShape, Handling, Changing,
        ForeignAsks
  <2>6. Drained'
    BY <1>1 DEF IInv, TypeOK, SvcRec, Shape, ChangeShape, Drained, Draining,
        Changing, Setting, ForeignAsks
  <2>7. StrongKept'
    <3> SUFFICES ASSUME Smp, NEW x \in asked' \ Flow
                 PROVE  Marked(x)' \/ Working(x)'
      BY DEF StrongKept
    <3>1. Marked(x) => Marked(x)'
      BY <1>1 DEF IInv, TypeOK, Shape, SvcRec, Marked, OnList, CallbackDue,
          Setting, Changing, ForeignAsks
    <3>2. ASSUME NEW u \in Foreign, u # t, frn[u].w = x, ToMark(frn[u])
          PROVE  Working(x)'
      BY <2>0, <3>2 DEF Working, ToMark
    <3>3. CASE x = w
      BY <1>1, <2>0, <3>3 DEF Working, ToMark
    <3>4. CASE x # w
      <4>1. x \in asked \ Flow
        BY <1>1, <3>4 DEF ForeignAsks
      <4>2. Working(x) => Working(x)'
        BY <1>1, <3>2, <3>4 DEF Working, ToMark, ForeignAsks
      <4> QED BY <3>1, <4>1, <4>2 DEF IInv, StrongKept
    <3> QED BY <3>3, <3>4
  <2>8. StrongWakes'
    <3> SUFFICES ASSUME Smp, svc'.pc = "wait" PROVE StrongWakes'
      BY DEF StrongWakes
    <3>0. svc.pc = "wait" /\ polled' = polled
      BY <1>1 DEF IInv, TypeOK, SvcRec, ForeignAsks
    <3>1. ASSUME NEW x \in asked' \ Flow
          PROVE  \/ POLLOUT \in polled[x] \/ pipe' \/ OnList(x)'
                 \/ Working(x)' \/ Cancelling(x)'
      <4>1. ASSUME NEW u \in Foreign, u # t, frn[u].w = x,
                   ToMark(frn[u]) \/ frn[u].pc = "cancel"
            PROVE  Working(x)' \/ Cancelling(x)'
        BY <2>0, <4>1 DEF Working, Cancelling, ToMark
      <4>2. OnList(x) => OnList(x)'
        BY <1>1 DEF IInv, TypeOK, Shape, OnList, ForeignAsks
      <4>3. CASE x = w
        BY <1>1, <2>0, <4>3 DEF Working, ToMark
      <4>4. CASE x # w
        <5>1. x \in asked \ Flow
          BY <1>1, <4>4 DEF ForeignAsks
        <5>2. (Working(x) \/ Cancelling(x)) => (Working(x)' \/ Cancelling(x)')
          BY <1>1, <4>1, <4>4 DEF Working, Cancelling, ToMark, ForeignAsks
        <5> QED
          BY <1>1, <3>0, <4>2, <5>1, <5>2 DEF IInv, StrongWakes, ForeignAsks
      <4> QED BY <4>3, <4>4
    <3>2. ASSUME NEW u \in Foreign, frn'[u].pc \in {"unlock", "read"},
                 frn'[u].w \notin Flow, POLLOUT \in events'[frn'[u].w]
          PROVE  POLLOUT \in polled[frn'[u].w]
      BY <1>1, <2>0, <3>0, <3>2 DEF IInv, TypeOK, Shape, StrongWakes,
          ForeignAsks
    <3> QED BY <3>0, <3>1, <3>2 DEF StrongWakes
  <2>9. SpinlockReleased'
    BY <1>1 DEF IInv, TypeOK, SvcRec, SpinlockReleased, ForeignAsks
  <2> QED BY <2>1, <2>2, <2>3, <2>4, <2>5, <2>6, <2>7, <2>8, <2>9 DEF IInv
<1>2. ASSUME NEW t \in Foreign, LookHandling(t) PROVE IInv'
  <2>0. /\ \A u \in Foreign : u # t => frn'[u] = frn[u]
        /\ frn'[t].pc = (IF handling_pollout[frn[t].w] THEN "leave" ELSE "lock")
        /\ frn'[t].w = frn[t].w /\ frn'[t].tmp = frn[t].tmp
    BY <1>2 DEF IInv, TypeOK, FrnRec, LookHandling, FGoto
  <2>1. TypeOK'
    <3>1. frn' \in [Foreign -> FrnRec]
      <4>1. frn[t] \in FrnRec
        BY DEF IInv, TypeOK
      <4>2. frn'[t] \in FrnRec
        <5>1. frn'[t] = [frn[t] EXCEPT !.pc = "leave"]
                \/ frn'[t] = [frn[t] EXCEPT !.pc = "lock"]
          BY <1>2 DEF IInv, TypeOK, LookHandling, FGoto
        <5> QED BY <4>1, <5>1 DEF FrnRec, FrnPc
      <4>3. frn' = [frn EXCEPT ![t] = frn'[t]]
        BY <1>2 DEF IInv, TypeOK, LookHandling, FGoto
      <4> QED BY <4>2, <4>3 DEF IInv, TypeOK
    <3> QED
      BY <1>2, <3>1 DEF IInv, TypeOK, Shape, LookHandling, FGoto
  <2>2. Shape'
    BY <1>2 DEF IInv, TypeOK, SvcRec, Shape, ChangeShape, Changing,
        LookHandling, FGoto
  <2>3. ChangeShape'
    BY <1>2 DEF IInv, TypeOK, SvcRec, Shape, ChangeShape, Changing,
        LookHandling, FGoto
  <2>4. Reported'
    BY <1>2 DEF IInv, TypeOK, SvcRec, Shape, ChangeShape, Reported,
        WasReported, Changing, LookHandling, FGoto
  <2>5. Handling'
    BY <1>2 DEF IInv, TypeOK, SvcRec, Shape, ChangeShape, Handling, Changing,
        LookHandling, FGoto
  <2>6. Drained'
    BY <1>2 DEF IInv, TypeOK, SvcRec, Shape, ChangeShape, Drained, Draining,
        Changing, Setting, LookHandling, FGoto
  <2>7. StrongKept'
    <3> SUFFICES ASSUME Smp, NEW x \in asked' \ Flow
                 PROVE  Marked(x)' \/ Working(x)'
      BY DEF StrongKept
    <3>1. Marked(x) => Marked(x)'
      BY <1>2 DEF IInv, TypeOK, Shape, SvcRec, Marked, OnList, CallbackDue,
          Setting, Changing, LookHandling, FGoto
    <3>2. ASSUME NEW u \in Foreign, u # t, frn[u].w = x, ToMark(frn[u])
          PROVE  Working(x)'
      BY <2>0, <3>2 DEF Working, ToMark
    <3>3. CASE frn[t].w = x /\ ~handling_pollout[x]
      BY <1>2, <2>0, <3>3 DEF Working, ToMark
    <3>4. CASE frn[t].w = x /\ handling_pollout[x]
      BY <1>2, <3>1, <3>4 DEF IInv, Handling, Reported, WasReported, Marked,
          CallbackDue, Shape, LookHandling
    <3>5. CASE frn[t].w # x
      <4>1. x \in asked \ Flow
        BY <1>2 DEF LookHandling
      <4>2. Working(x) => Working(x)'
        BY <1>2, <3>2, <3>5 DEF Working
      <4> QED BY <3>1, <4>1, <4>2 DEF IInv, StrongKept
    <3> QED BY <3>3, <3>4, <3>5
  <2>8. StrongWakes'
    <3> SUFFICES ASSUME Smp, svc'.pc = "wait" PROVE StrongWakes'
      BY DEF StrongWakes
    <3>0. svc.pc = "wait" /\ polled' = polled
      BY <1>2 DEF IInv, TypeOK, SvcRec, LookHandling, FGoto
    <3>1. ASSUME NEW x \in asked' \ Flow
          PROVE  \/ POLLOUT \in polled[x] \/ pipe' \/ OnList(x)'
                 \/ Working(x)' \/ Cancelling(x)'
      <4>1. ASSUME NEW u \in Foreign, u # t, frn[u].w = x,
                   ToMark(frn[u]) \/ frn[u].pc = "cancel"
            PROVE  Working(x)' \/ Cancelling(x)'
        BY <2>0, <4>1 DEF Working, Cancelling, ToMark
      <4>2. OnList(x) => OnList(x)'
        BY <1>2 DEF IInv, TypeOK, Shape, OnList, LookHandling
      <4>3. CASE frn[t].w = x /\ ~handling_pollout[x]
        BY <1>2, <2>0, <4>3 DEF Working, ToMark
      <4>4. CASE frn[t].w = x /\ handling_pollout[x]
        BY <1>2, <3>0, <4>4 DEF IInv, Shape, Handling, Changing, LookHandling
      <4>5. CASE frn[t].w # x
        <5>1. x \in asked \ Flow
          BY <1>2 DEF LookHandling
        <5>2. (Working(x) \/ Cancelling(x)) => (Working(x)' \/ Cancelling(x)')
          BY <1>2, <4>1, <4>5 DEF Working, Cancelling, ToMark, LookHandling
        <5> QED
          BY <1>2, <3>0, <4>2, <5>1, <5>2 DEF IInv, StrongWakes, LookHandling
      <4> QED BY <4>3, <4>4, <4>5
    <3>2. ASSUME NEW u \in Foreign, frn'[u].pc \in {"unlock", "read"},
                 frn'[u].w \notin Flow, POLLOUT \in events'[frn'[u].w]
          PROVE  POLLOUT \in polled[frn'[u].w]
      BY <1>2, <2>0, <3>0, <3>2 DEF IInv, TypeOK, Shape, StrongWakes,
          LookHandling, FGoto
    <3> QED BY <3>0, <3>1, <3>2 DEF StrongWakes
  <2>9. SpinlockReleased'
    BY <1>2 DEF IInv, TypeOK, SvcRec, SpinlockReleased, LookHandling, FGoto
  <2> QED BY <2>1, <2>2, <2>3, <2>4, <2>5, <2>6, <2>7, <2>8, <2>9 DEF IInv
<1>3. ASSUME NEW t \in Foreign, SetLeave(t) PROVE IInv'
  <2>0. /\ \A u \in Foreign : u # t => frn'[u] = frn[u]
        /\ frn'[t].pc = "idle"
        /\ frn'[t].w = None /\ frn'[t].tmp = {}
    BY <1>3 DEF IInv, TypeOK, FrnRec, SetLeave, FReturn, Idle
  <2>1. TypeOK'
    <3>1. frn' \in [Foreign -> FrnRec]
      <4>1. frn[t] \in FrnRec
        BY DEF IInv, TypeOK
      <4>2. frn'[t] \in FrnRec
        BY <1>3, <4>1 DEF IInv, TypeOK, Shape, FrnRec, FrnPc, SetLeave,
            FReturn, Idle
      <4>3. frn' = [frn EXCEPT ![t] = frn'[t]]
        BY <1>3 DEF IInv, TypeOK, SetLeave, FReturn, Idle
      <4> QED BY <4>2, <4>3 DEF IInv, TypeOK
    <3> QED
      BY <1>3, <3>1 DEF IInv, TypeOK, Shape, SetLeave, FReturn, Idle
  <2>2. Shape'
    BY <1>3 DEF IInv, TypeOK, SvcRec, Shape, ChangeShape, Changing, SetLeave,
        FReturn, Idle
  <2>3. ChangeShape'
    BY <1>3 DEF IInv, TypeOK, SvcRec, Shape, ChangeShape, Changing, SetLeave,
        FReturn, Idle
  <2>4. Reported'
    BY <1>3 DEF IInv, TypeOK, SvcRec, Shape, ChangeShape, Reported,
        WasReported, Changing, SetLeave, FReturn, Idle
  <2>5. Handling'
    BY <1>3 DEF IInv, TypeOK, SvcRec, Shape, ChangeShape, Handling, Changing,
        SetLeave, FReturn, Idle
  <2>6. Drained'
    BY <1>3 DEF IInv, TypeOK, SvcRec, Shape, ChangeShape, Drained, Draining,
        Changing, Setting, SetLeave, FReturn, Idle
  <2>7. StrongKept'
    <3> SUFFICES ASSUME Smp, NEW x \in asked' \ Flow
                 PROVE  Marked(x)' \/ Working(x)'
      BY DEF StrongKept
    <3>1. Marked(x) => Marked(x)'
      BY <1>3 DEF IInv, TypeOK, Shape, SvcRec, Marked, OnList, CallbackDue,
          Setting, Changing, SetLeave, FReturn, Idle
    <3>2. ASSUME NEW u \in Foreign, u # t, frn[u].w = x, ToMark(frn[u])
          PROVE  Working(x)'
      BY <2>0, <3>2 DEF Working, ToMark
    <3>3. Marked(x)' \/ Working(x)'
      <4>1. x \in asked \ Flow
        BY <1>3 DEF SetLeave
      <4>2. Working(x) => Working(x)'
        BY <1>3, <3>2 DEF Working, ToMark, SetLeave
      <4> QED BY <3>1, <4>1, <4>2 DEF IInv, StrongKept
    <3> QED BY <3>3
  <2>8. StrongWakes'
    <3> SUFFICES ASSUME Smp, svc'.pc = "wait" PROVE StrongWakes'
      BY DEF StrongWakes
    <3>0. svc.pc = "wait" /\ polled' = polled
      BY <1>3 DEF IInv, TypeOK, SvcRec, SetLeave, FReturn, Idle
    <3>1. ASSUME NEW x \in asked' \ Flow
          PROVE  \/ POLLOUT \in polled[x] \/ pipe' \/ OnList(x)'
                 \/ Working(x)' \/ Cancelling(x)'
      <4>1. ASSUME NEW u \in Foreign, u # t, frn[u].w = x,
                   ToMark(frn[u]) \/ frn[u].pc = "cancel"
            PROVE  Working(x)' \/ Cancelling(x)'
        BY <2>0, <4>1 DEF Working, Cancelling, ToMark
      <4>2. OnList(x) => OnList(x)'
        BY <1>3 DEF IInv, TypeOK, Shape, OnList, SetLeave
      <4>3. pipe' \/ POLLOUT \in polled[x] \/ OnList(x)' \/ Working(x)' \/ Cancelling(x)'
        <5>1. x \in asked \ Flow
          BY <1>3 DEF SetLeave
        <5>2. (Working(x) \/ Cancelling(x)) => (Working(x)' \/ Cancelling(x)')
          BY <1>3, <4>1 DEF Working, Cancelling, ToMark, SetLeave
        <5> QED
          BY <1>3, <3>0, <4>2, <5>1, <5>2 DEF IInv, StrongWakes, SetLeave
      <4> QED BY <4>3
    <3>2. ASSUME NEW u \in Foreign, frn'[u].pc \in {"unlock", "read"},
                 frn'[u].w \notin Flow, POLLOUT \in events'[frn'[u].w]
          PROVE  POLLOUT \in polled[frn'[u].w]
      BY <1>3, <2>0, <3>0, <3>2 DEF IInv, TypeOK, Shape, StrongWakes,
          SetLeave, FReturn, Idle
    <3> QED BY <3>0, <3>1, <3>2 DEF StrongWakes
  <2>9. SpinlockReleased'
    BY <1>3 DEF IInv, TypeOK, SvcRec, SpinlockReleased, SetLeave, FReturn,
        Idle
  <2> QED BY <2>1, <2>2, <2>3, <2>4, <2>5, <2>6, <2>7, <2>8, <2>9 DEF IInv
<1>4. ASSUME NEW t \in Foreign, TakeSpinlock(t) PROVE IInv'
  <2>0. /\ \A u \in Foreign : u # t => frn'[u] = frn[u]
        /\ frn'[t].pc = "check"
        /\ frn'[t].w = frn[t].w /\ frn'[t].tmp = frn[t].tmp
    BY <1>4 DEF IInv, TypeOK, FrnRec, TakeSpinlock, FGoto
  <2>1. TypeOK'
    <3>1. frn' \in [Foreign -> FrnRec]
      <4>1. frn[t] \in FrnRec
        BY DEF IInv, TypeOK
      <4>2. frn'[t] = [frn[t] EXCEPT !.pc = "check"]
        BY <1>4 DEF IInv, TypeOK, TakeSpinlock, FGoto
      <4>3. frn'[t] \in FrnRec
        BY <4>1, <4>2 DEF FrnRec, FrnPc
      <4>4. frn' = [frn EXCEPT ![t] = frn'[t]]
        BY <1>4 DEF IInv, TypeOK, TakeSpinlock, FGoto
      <4> QED BY <4>3, <4>4 DEF IInv, TypeOK
    <3> QED
      BY <1>4, <3>1 DEF IInv, TypeOK, Shape, TakeSpinlock, FGoto
  <2>2. Shape'
    BY <1>4 DEF IInv, TypeOK, SvcRec, Shape, ChangeShape, Changing,
        TakeSpinlock, FGoto
  <2>3. ChangeShape'
    BY <1>4 DEF IInv, TypeOK, SvcRec, Shape, ChangeShape, Changing,
        TakeSpinlock, FGoto
  <2>4. Reported'
    BY <1>4 DEF IInv, TypeOK, SvcRec, Shape, ChangeShape, Reported,
        WasReported, Changing, TakeSpinlock, FGoto
  <2>5. Handling'
    BY <1>4 DEF IInv, TypeOK, SvcRec, Shape, ChangeShape, Handling, Changing,
        TakeSpinlock, FGoto
  <2>6. Drained'
    BY <1>4 DEF IInv, TypeOK, SvcRec, Shape, ChangeShape, Drained, Draining,
        Changing, Setting, TakeSpinlock, FGoto
  <2>7. StrongKept'
    <3> SUFFICES ASSUME Smp, NEW x \in asked' \ Flow
                 PROVE  Marked(x)' \/ Working(x)'
      BY DEF StrongKept
    <3>1. Marked(x) => Marked(x)'
      BY <1>4 DEF IInv, TypeOK, Shape, SvcRec, Marked, OnList, CallbackDue,
          Setting, Changing, TakeSpinlock, FGoto
    <3>2. ASSUME NEW u \in Foreign, u # t, frn[u].w = x, ToMark(frn[u])
          PROVE  Working(x)'
      BY <2>0, <3>2 DEF Working, ToMark
    <3>3. CASE frn[t].w = x
      BY <1>4, <2>0, <3>3 DEF Working, ToMark
    <3>4. CASE frn[t].w # x
      <4>1. x \in asked \ Flow
        BY <1>4 DEF TakeSpinlock
      <4>2. Working(x) => Working(x)'
        BY <1>4, <3>2, <3>4 DEF Working
      <4> QED BY <3>1, <4>1, <4>2 DEF IInv, StrongKept
    <3> QED BY <3>3, <3>4
  <2>8. StrongWakes'
    <3> SUFFICES ASSUME Smp, svc'.pc = "wait" PROVE StrongWakes'
      BY DEF StrongWakes
    <3>0. svc.pc = "wait" /\ polled' = polled
      BY <1>4 DEF IInv, TypeOK, SvcRec, TakeSpinlock, FGoto
    <3>1. ASSUME NEW x \in asked' \ Flow
          PROVE  \/ POLLOUT \in polled[x] \/ pipe' \/ OnList(x)'
                 \/ Working(x)' \/ Cancelling(x)'
      <4>1. ASSUME NEW u \in Foreign, u # t, frn[u].w = x,
                   ToMark(frn[u]) \/ frn[u].pc = "cancel"
            PROVE  Working(x)' \/ Cancelling(x)'
        BY <2>0, <4>1 DEF Working, Cancelling, ToMark
      <4>2. OnList(x) => OnList(x)'
        BY <1>4 DEF IInv, TypeOK, Shape, OnList, TakeSpinlock
      <4>3. CASE frn[t].w = x
        BY <1>4, <2>0, <4>3 DEF Working, ToMark
      <4>4. CASE frn[t].w # x
        <5>1. x \in asked \ Flow
          BY <1>4 DEF TakeSpinlock
        <5>2. (Working(x) \/ Cancelling(x)) => (Working(x)' \/ Cancelling(x)')
          BY <1>4, <4>1, <4>4 DEF Working, Cancelling, ToMark, TakeSpinlock
        <5> QED
          BY <1>4, <3>0, <4>2, <5>1, <5>2 DEF IInv, StrongWakes, TakeSpinlock
      <4> QED BY <4>3, <4>4
    <3>2. ASSUME NEW u \in Foreign, frn'[u].pc \in {"unlock", "read"},
                 frn'[u].w \notin Flow, POLLOUT \in events'[frn'[u].w]
          PROVE  POLLOUT \in polled[frn'[u].w]
      BY <1>4, <2>0, <3>0, <3>2 DEF IInv, TypeOK, Shape, StrongWakes,
          TakeSpinlock, FGoto
    <3> QED BY <3>0, <3>1, <3>2 DEF StrongWakes
  <2>9. SpinlockReleased'
    BY <1>4 DEF IInv, TypeOK, SvcRec, SpinlockReleased, TakeSpinlock, FGoto
  <2> QED BY <2>1, <2>2, <2>3, <2>4, <2>5, <2>6, <2>7, <2>8, <2>9 DEF IInv
<1>5. ASSUME NEW t \in Foreign, CheckInsidePoll(t) PROVE IInv'
  <2>0. /\ \A u \in Foreign : u # t => frn'[u] = frn[u]
        /\ frn'[t].pc = (IF inside_poll THEN "append" ELSE "unlock")
        /\ frn'[t].w = frn[t].w /\ frn'[t].tmp = frn[t].tmp
    BY <1>5 DEF IInv, TypeOK, FrnRec, CheckInsidePoll, FGoto
  <2>1. TypeOK'
    <3>1. frn' \in [Foreign -> FrnRec]
      <4>1. frn[t] \in FrnRec
        BY DEF IInv, TypeOK
      <4>2. frn'[t] \in FrnRec
        <5>1. frn'[t] = [frn[t] EXCEPT !.pc = "append"]
                \/ frn'[t] = [frn[t] EXCEPT !.pc = "unlock"]
          BY <1>5 DEF IInv, TypeOK, CheckInsidePoll, FGoto
        <5> QED BY <4>1, <5>1 DEF FrnRec, FrnPc
      <4>3. frn' = [frn EXCEPT ![t] = frn'[t]]
        BY <1>5 DEF IInv, TypeOK, CheckInsidePoll, FGoto
      <4> QED BY <4>2, <4>3 DEF IInv, TypeOK
    <3> QED
      BY <1>5, <3>1 DEF IInv, TypeOK, Shape, CheckInsidePoll, FGoto
  <2>2. Shape'
    BY <1>5 DEF IInv, TypeOK, SvcRec, Shape, ChangeShape, Changing,
        CheckInsidePoll, FGoto
  <2>3. ChangeShape'
    BY <1>5 DEF IInv, TypeOK, SvcRec, Shape, ChangeShape, Changing,
        CheckInsidePoll, FGoto
  <2>4. Reported'
    BY <1>5 DEF IInv, TypeOK, SvcRec, Shape, ChangeShape, Reported,
        WasReported, Changing, CheckInsidePoll, FGoto
  <2>5. Handling'
    BY <1>5 DEF IInv, TypeOK, SvcRec, Shape, ChangeShape, Handling, Changing,
        CheckInsidePoll, FGoto
  <2>6. Drained'
    BY <1>5 DEF IInv, TypeOK, SvcRec, Shape, ChangeShape, Drained, Draining,
        Changing, Setting, CheckInsidePoll, FGoto
  <2>7. StrongKept'
    <3> SUFFICES ASSUME Smp, NEW x \in asked' \ Flow
                 PROVE  Marked(x)' \/ Working(x)'
      BY DEF StrongKept
    <3>1. Marked(x) => Marked(x)'
      BY <1>5 DEF IInv, TypeOK, Shape, SvcRec, Marked, OnList, CallbackDue,
          Setting, Changing, CheckInsidePoll, FGoto
    <3>2. ASSUME NEW u \in Foreign, u # t, frn[u].w = x, ToMark(frn[u])
          PROVE  Working(x)'
      BY <2>0, <3>2 DEF Working, ToMark
    <3>3. CASE frn[t].w = x
      BY <1>5, <2>0, <3>3 DEF Working, ToMark
    <3>4. CASE frn[t].w # x
      <4>1. x \in asked \ Flow
        BY <1>5 DEF CheckInsidePoll
      <4>2. Working(x) => Working(x)'
        BY <1>5, <3>2, <3>4 DEF Working
      <4> QED BY <3>1, <4>1, <4>2 DEF IInv, StrongKept
    <3> QED BY <3>3, <3>4
  <2>8. StrongWakes'
    <3> SUFFICES ASSUME Smp, svc'.pc = "wait" PROVE StrongWakes'
      BY DEF StrongWakes
    <3>0. svc.pc = "wait" /\ polled' = polled
      BY <1>5 DEF IInv, TypeOK, SvcRec, CheckInsidePoll, FGoto
    <3>1. ASSUME NEW x \in asked' \ Flow
          PROVE  \/ POLLOUT \in polled[x] \/ pipe' \/ OnList(x)'
                 \/ Working(x)' \/ Cancelling(x)'
      <4>1. ASSUME NEW u \in Foreign, u # t, frn[u].w = x,
                   ToMark(frn[u]) \/ frn[u].pc = "cancel"
            PROVE  Working(x)' \/ Cancelling(x)'
        BY <2>0, <4>1 DEF Working, Cancelling, ToMark
      <4>2. OnList(x) => OnList(x)'
        BY <1>5 DEF IInv, TypeOK, Shape, OnList, CheckInsidePoll
      <4>3. CASE frn[t].w = x
        BY <1>5, <2>0, <4>3 DEF Working, ToMark
      <4>4. CASE frn[t].w # x
        <5>1. x \in asked \ Flow
          BY <1>5 DEF CheckInsidePoll
        <5>2. (Working(x) \/ Cancelling(x)) => (Working(x)' \/ Cancelling(x)')
          BY <1>5, <4>1, <4>4 DEF Working, Cancelling, ToMark, CheckInsidePoll
        <5> QED
          BY <1>5, <3>0, <4>2, <5>1, <5>2 DEF IInv, StrongWakes, CheckInsidePoll
      <4> QED BY <4>3, <4>4
    <3>2. ASSUME NEW u \in Foreign, frn'[u].pc \in {"unlock", "read"},
                 frn'[u].w \notin Flow, POLLOUT \in events'[frn'[u].w]
          PROVE  POLLOUT \in polled[frn'[u].w]
      BY <1>5, <2>0, <3>0, <3>2 DEF IInv, TypeOK, Shape, StrongWakes,
          CheckInsidePoll, FGoto
    <3> QED BY <3>0, <3>1, <3>2 DEF StrongWakes
  <2>9. SpinlockReleased'
    BY <1>5 DEF IInv, TypeOK, SvcRec, SpinlockReleased, CheckInsidePoll, FGoto
  <2> QED BY <2>1, <2>2, <2>3, <2>4, <2>5, <2>6, <2>7, <2>8, <2>9 DEF IInv
<1>6. ASSUME NEW t \in Foreign, AppendForeign(t) PROVE IInv'
  <2>0. /\ \A u \in Foreign : u # t => frn'[u] = frn[u]
        /\ frn'[t].pc = "cancel"
        /\ frn'[t].w = frn[t].w /\ frn'[t].tmp = frn[t].tmp
    BY <1>6 DEF IInv, TypeOK, FrnRec, AppendForeign, PtLocked, FGoto,
        Changing
  <2>1. TypeOK'
    <3>1. frn' \in [Foreign -> FrnRec]
      <4>1. frn[t] \in FrnRec
        BY DEF IInv, TypeOK
      <4>2. frn'[t] \in FrnRec
        BY <1>6, <4>1 DEF IInv, TypeOK, FrnRec, FrnPc, AppendForeign, FGoto
      <4>3. frn' = [frn EXCEPT ![t] = frn'[t]]
        BY <1>6 DEF IInv, TypeOK, AppendForeign, FGoto
      <4> QED BY <4>2, <4>3 DEF IInv, TypeOK
    <3>2. svc' \in SvcRec /\ foreign_pfd_list' \in Seq(Wsi)
      BY <1>6, AppendKeeps DEF IInv, TypeOK, Shape, SvcRec, AppendForeign
    <3> QED
      BY <1>6, <3>1, <3>2 DEF IInv, TypeOK, Shape, AppendForeign, PtLocked,
          FGoto, Changing
  <2>2. Shape'
    BY <1>6 DEF IInv, TypeOK, SvcRec, Shape, ChangeShape, Changing,
        AppendForeign, PtLocked, FGoto
  <2>3. ChangeShape'
    BY <1>6 DEF IInv, TypeOK, SvcRec, Shape, ChangeShape, Changing,
        AppendForeign, PtLocked, FGoto
  <2>4. Reported'
    BY <1>6 DEF IInv, TypeOK, SvcRec, Shape, ChangeShape, Reported,
        WasReported, Changing, AppendForeign, PtLocked, FGoto
  <2>5. Handling'
    BY <1>6 DEF IInv, TypeOK, SvcRec, Shape, ChangeShape, Handling, Changing,
        AppendForeign, PtLocked, FGoto
  <2>6. Drained'
    BY <1>6 DEF IInv, TypeOK, SvcRec, Shape, ChangeShape, Drained, Draining,
        Changing, Setting, AppendForeign, PtLocked, FGoto
  <2>7. StrongKept'
    <3> SUFFICES ASSUME Smp, NEW x \in asked' \ Flow
                 PROVE  Marked(x)' \/ Working(x)'
      BY DEF StrongKept
    <3>1. Marked(x) => Marked(x)'
      BY <1>6, AppendKeeps DEF IInv, TypeOK, Shape, SvcRec, Marked, OnList,
          CallbackDue, Setting, Changing, AppendForeign, PtLocked, FGoto
    <3>2. ASSUME NEW u \in Foreign, u # t, frn[u].w = x, ToMark(frn[u])
          PROVE  Working(x)'
      BY <2>0, <3>2 DEF Working, ToMark
    <3>3. CASE frn[t].w = x
      BY <1>6, <3>3, AppendKeeps DEF IInv, TypeOK, Shape, Marked, OnList,
          AppendForeign
    <3>4. CASE frn[t].w # x
      <4>1. x \in asked \ Flow
        BY <1>6 DEF AppendForeign
      <4>2. Working(x) => Working(x)'
        BY <1>6, <3>2, <3>4 DEF Working
      <4> QED BY <3>1, <4>1, <4>2 DEF IInv, StrongKept
    <3> QED BY <3>3, <3>4
  <2>8. StrongWakes'
    <3> SUFFICES ASSUME Smp, svc'.pc = "wait" PROVE StrongWakes'
      BY DEF StrongWakes
    <3>0. svc.pc = "wait" /\ polled' = polled
      BY <1>6 DEF IInv, TypeOK, SvcRec, AppendForeign, PtLocked, FGoto,
          Changing
    <3>1. ASSUME NEW x \in asked' \ Flow
          PROVE  \/ POLLOUT \in polled[x] \/ pipe' \/ OnList(x)'
                 \/ Working(x)' \/ Cancelling(x)'
      <4>1. ASSUME NEW u \in Foreign, u # t, frn[u].w = x,
                   ToMark(frn[u]) \/ frn[u].pc = "cancel"
            PROVE  Working(x)' \/ Cancelling(x)'
        BY <2>0, <4>1 DEF Working, Cancelling, ToMark
      <4>2. OnList(x) => OnList(x)'
        BY <1>6, AppendKeeps DEF IInv, TypeOK, Shape, OnList, AppendForeign
      <4>3. CASE frn[t].w = x
        BY <1>6, <2>0, <4>3 DEF Cancelling
      <4>4. CASE frn[t].w # x
        <5>1. x \in asked \ Flow
          BY <1>6 DEF AppendForeign
        <5>2. (Working(x) \/ Cancelling(x)) => (Working(x)' \/ Cancelling(x)')
          BY <1>6, <4>1, <4>4 DEF Working, Cancelling, ToMark, AppendForeign
        <5> QED
          BY <1>6, <3>0, <4>2, <5>1, <5>2 DEF IInv, StrongWakes, AppendForeign
      <4> QED BY <4>3, <4>4
    <3>2. ASSUME NEW u \in Foreign, frn'[u].pc \in {"unlock", "read"},
                 frn'[u].w \notin Flow, POLLOUT \in events'[frn'[u].w]
          PROVE  POLLOUT \in polled[frn'[u].w]
      BY <1>6, <2>0, <3>0, <3>2 DEF IInv, TypeOK, Shape, StrongWakes,
          AppendForeign, PtLocked, FGoto, Changing
    <3> QED BY <3>0, <3>1, <3>2 DEF StrongWakes
  <2>9. SpinlockReleased'
    BY <1>6 DEF IInv, TypeOK, SvcRec, SpinlockReleased, AppendForeign,
        PtLocked, FGoto, Changing
  <2> QED BY <2>1, <2>2, <2>3, <2>4, <2>5, <2>6, <2>7, <2>8, <2>9 DEF IInv
<1>7. ASSUME NEW t \in Foreign, CancelService(t) PROVE IInv'
  <2>0. /\ \A u \in Foreign : u # t => frn'[u] = frn[u]
        /\ frn'[t].pc = "idle"
        /\ frn'[t].w = None /\ frn'[t].tmp = {}
    BY <1>7 DEF IInv, TypeOK, FrnRec, CancelService, FReturn, Idle
  <2>1. TypeOK'
    <3>1. frn' \in [Foreign -> FrnRec]
      <4>1. frn[t] \in FrnRec
        BY DEF IInv, TypeOK
      <4>2. frn'[t] \in FrnRec
        BY <1>7, <4>1 DEF IInv, TypeOK, Shape, FrnRec, FrnPc, CancelService,
            FReturn, Idle
      <4>3. frn' = [frn EXCEPT ![t] = frn'[t]]
        BY <1>7 DEF IInv, TypeOK, CancelService, FReturn, Idle
      <4> QED BY <4>2, <4>3 DEF IInv, TypeOK
    <3> QED
      BY <1>7, <3>1 DEF IInv, TypeOK, Shape, CancelService, FReturn, Idle
  <2>2. Shape'
    BY <1>7 DEF IInv, TypeOK, SvcRec, Shape, ChangeShape, Changing,
        CancelService, FReturn, Idle
  <2>3. ChangeShape'
    BY <1>7 DEF IInv, TypeOK, SvcRec, Shape, ChangeShape, Changing,
        CancelService, FReturn, Idle
  <2>4. Reported'
    BY <1>7 DEF IInv, TypeOK, SvcRec, Shape, ChangeShape, Reported,
        WasReported, Changing, CancelService, FReturn, Idle
  <2>5. Handling'
    BY <1>7 DEF IInv, TypeOK, SvcRec, Shape, ChangeShape, Handling, Changing,
        CancelService, FReturn, Idle
  <2>6. Drained'
    BY <1>7 DEF IInv, TypeOK, SvcRec, Shape, ChangeShape, Drained, Draining,
        Changing, Setting, CancelService, FReturn, Idle
  <2>7. StrongKept'
    <3> SUFFICES ASSUME Smp, NEW x \in asked' \ Flow
                 PROVE  Marked(x)' \/ Working(x)'
      BY DEF StrongKept
    <3>1. Marked(x) => Marked(x)'
      BY <1>7 DEF IInv, TypeOK, Shape, SvcRec, Marked, OnList, CallbackDue,
          Setting, Changing, CancelService, FReturn, Idle
    <3>2. ASSUME NEW u \in Foreign, u # t, frn[u].w = x, ToMark(frn[u])
          PROVE  Working(x)'
      BY <2>0, <3>2 DEF Working, ToMark
    <3>3. Marked(x)' \/ Working(x)'
      <4>1. x \in asked \ Flow
        BY <1>7 DEF CancelService
      <4>2. Working(x) => Working(x)'
        BY <1>7, <3>2 DEF Working, ToMark, CancelService
      <4> QED BY <3>1, <4>1, <4>2 DEF IInv, StrongKept
    <3> QED BY <3>3
  <2>8. StrongWakes'
    <3> SUFFICES ASSUME Smp, svc'.pc = "wait" PROVE StrongWakes'
      BY DEF StrongWakes
    <3>0. svc.pc = "wait" /\ polled' = polled
      BY <1>7 DEF IInv, TypeOK, SvcRec, CancelService, FReturn, Idle
    <3>1. ASSUME NEW x \in asked' \ Flow
          PROVE  \/ POLLOUT \in polled[x] \/ pipe' \/ OnList(x)'
                 \/ Working(x)' \/ Cancelling(x)'
      BY <1>7 DEF CancelService
    <3>2. ASSUME NEW u \in Foreign, frn'[u].pc \in {"unlock", "read"},
                 frn'[u].w \notin Flow, POLLOUT \in events'[frn'[u].w]
          PROVE  POLLOUT \in polled[frn'[u].w]
      BY <1>7, <2>0, <3>0, <3>2 DEF IInv, TypeOK, Shape, StrongWakes,
          CancelService, FReturn, Idle
    <3> QED BY <3>0, <3>1, <3>2 DEF StrongWakes
  <2>9. SpinlockReleased'
    BY <1>7 DEF IInv, TypeOK, SvcRec, SpinlockReleased, CancelService,
        FReturn, Idle
  <2> QED BY <2>1, <2>2, <2>3, <2>4, <2>5, <2>6, <2>7, <2>8, <2>9 DEF IInv
<1>8. ASSUME NEW t \in Foreign, DropSpinlock(t) PROVE IInv'
  <2>0. /\ \A u \in Foreign : u # t => frn'[u] = frn[u]
        /\ frn'[t].pc = "read"
        /\ frn'[t].w = frn[t].w /\ frn'[t].tmp = frn[t].tmp
    BY <1>8 DEF IInv, TypeOK, FrnRec, DropSpinlock, FGoto
  <2>1. TypeOK'
    <3>1. frn' \in [Foreign -> FrnRec]
      <4>1. frn[t] \in FrnRec
        BY DEF IInv, TypeOK
      <4>2. frn'[t] = [frn[t] EXCEPT !.pc = "read"]
        BY <1>8 DEF IInv, TypeOK, DropSpinlock, FGoto
      <4>3. frn'[t] \in FrnRec
        BY <4>1, <4>2 DEF FrnRec, FrnPc
      <4>4. frn' = [frn EXCEPT ![t] = frn'[t]]
        BY <1>8 DEF IInv, TypeOK, DropSpinlock, FGoto
      <4> QED BY <4>3, <4>4 DEF IInv, TypeOK
    <3> QED
      BY <1>8, <3>1 DEF IInv, TypeOK, Shape, DropSpinlock, FGoto
  <2>2. Shape'
    BY <1>8 DEF IInv, TypeOK, SvcRec, Shape, ChangeShape, Changing,
        DropSpinlock, FGoto
  <2>3. ChangeShape'
    BY <1>8 DEF IInv, TypeOK, SvcRec, Shape, ChangeShape, Changing,
        DropSpinlock, FGoto
  <2>4. Reported'
    BY <1>8 DEF IInv, TypeOK, SvcRec, Shape, ChangeShape, Reported,
        WasReported, Changing, DropSpinlock, FGoto
  <2>5. Handling'
    BY <1>8 DEF IInv, TypeOK, SvcRec, Shape, ChangeShape, Handling, Changing,
        DropSpinlock, FGoto
  <2>6. Drained'
    BY <1>8 DEF IInv, TypeOK, SvcRec, Shape, ChangeShape, Drained, Draining,
        Changing, Setting, DropSpinlock, FGoto
  <2>7. StrongKept'
    <3> SUFFICES ASSUME Smp, NEW x \in asked' \ Flow
                 PROVE  Marked(x)' \/ Working(x)'
      BY DEF StrongKept
    <3>1. Marked(x) => Marked(x)'
      BY <1>8 DEF IInv, TypeOK, Shape, SvcRec, Marked, OnList, CallbackDue,
          Setting, Changing, DropSpinlock, FGoto
    <3>2. ASSUME NEW u \in Foreign, u # t, frn[u].w = x, ToMark(frn[u])
          PROVE  Working(x)'
      BY <2>0, <3>2 DEF Working, ToMark
    <3>3. CASE frn[t].w = x
      BY <1>8, <2>0, <3>3 DEF Working, ToMark
    <3>4. CASE frn[t].w # x
      <4>1. x \in asked \ Flow
        BY <1>8 DEF DropSpinlock
      <4>2. Working(x) => Working(x)'
        BY <1>8, <3>2, <3>4 DEF Working
      <4> QED BY <3>1, <4>1, <4>2 DEF IInv, StrongKept
    <3> QED BY <3>3, <3>4
  <2>8. StrongWakes'
    <3> SUFFICES ASSUME Smp, svc'.pc = "wait" PROVE StrongWakes'
      BY DEF StrongWakes
    <3>0. svc.pc = "wait" /\ polled' = polled
      BY <1>8 DEF IInv, TypeOK, SvcRec, DropSpinlock, FGoto
    <3>1. ASSUME NEW x \in asked' \ Flow
          PROVE  \/ POLLOUT \in polled[x] \/ pipe' \/ OnList(x)'
                 \/ Working(x)' \/ Cancelling(x)'
      <4>1. ASSUME NEW u \in Foreign, u # t, frn[u].w = x,
                   ToMark(frn[u]) \/ frn[u].pc = "cancel"
            PROVE  Working(x)' \/ Cancelling(x)'
        BY <2>0, <4>1 DEF Working, Cancelling, ToMark
      <4>2. OnList(x) => OnList(x)'
        BY <1>8 DEF IInv, TypeOK, Shape, OnList, DropSpinlock
      <4>3. CASE frn[t].w = x
        BY <1>8, <2>0, <4>3 DEF Working, ToMark
      <4>4. CASE frn[t].w # x
        <5>1. x \in asked \ Flow
          BY <1>8 DEF DropSpinlock
        <5>2. (Working(x) \/ Cancelling(x)) => (Working(x)' \/ Cancelling(x)')
          BY <1>8, <4>1, <4>4 DEF Working, Cancelling, ToMark, DropSpinlock
        <5> QED
          BY <1>8, <3>0, <4>2, <5>1, <5>2 DEF IInv, StrongWakes, DropSpinlock
      <4> QED BY <4>3, <4>4
    <3>2. ASSUME NEW u \in Foreign, frn'[u].pc \in {"unlock", "read"},
                 frn'[u].w \notin Flow, POLLOUT \in events'[frn'[u].w]
          PROVE  POLLOUT \in polled[frn'[u].w]
      BY <1>8, <2>0, <3>0, <3>2 DEF IInv, TypeOK, Shape, StrongWakes,
          DropSpinlock, FGoto
    <3> QED BY <3>0, <3>1, <3>2 DEF StrongWakes
  <2>9. SpinlockReleased'
    BY <1>8 DEF IInv, TypeOK, SvcRec, SpinlockReleased, DropSpinlock, FGoto
  <2> QED BY <2>1, <2>2, <2>3, <2>4, <2>5, <2>6, <2>7, <2>8, <2>9 DEF IInv
<1>9. ASSUME NEW t \in Foreign, ForeignRead(t) PROVE IInv'
  <2>0. /\ \A u \in Foreign : u # t => frn'[u] = frn[u]
        /\ frn'[t].pc = "write"
        /\ frn'[t].w = frn[t].w /\ frn'[t].tmp = events[frn[t].w]
    BY <1>9 DEF IInv, TypeOK, FrnRec, ForeignRead
  <2>1. TypeOK'
    <3>1. frn' \in [Foreign -> FrnRec]
      <4>1. frn[t] \in FrnRec
        BY DEF IInv, TypeOK
      <4>2. frn'[t] \in FrnRec
        BY <1>9, <4>1 DEF IInv, TypeOK, Shape, FrnRec, FrnPc, ForeignRead
      <4>3. frn' = [frn EXCEPT ![t] = frn'[t]]
        BY <1>9 DEF IInv, TypeOK, ForeignRead
      <4> QED BY <4>2, <4>3 DEF IInv, TypeOK
    <3> QED
      BY <1>9, <3>1 DEF IInv, TypeOK, Shape, ForeignRead
  <2>2. Shape'
    BY <1>9 DEF IInv, TypeOK, SvcRec, Shape, ChangeShape, Changing,
        ForeignRead
  <2>3. ChangeShape'
    BY <1>9 DEF IInv, TypeOK, SvcRec, Shape, ChangeShape, Changing,
        ForeignRead
  <2>4. Reported'
    BY <1>9 DEF IInv, TypeOK, SvcRec, Shape, ChangeShape, Reported,
        WasReported, Changing, ForeignRead
  <2>5. Handling'
    BY <1>9 DEF IInv, TypeOK, SvcRec, Shape, ChangeShape, Handling, Changing,
        ForeignRead
  <2>6. Drained'
    BY <1>9 DEF IInv, TypeOK, SvcRec, Shape, ChangeShape, Drained, Draining,
        Changing, Setting, ForeignRead
  <2>7. StrongKept'
    <3> SUFFICES ASSUME Smp, NEW x \in asked' \ Flow
                 PROVE  Marked(x)' \/ Working(x)'
      BY DEF StrongKept
    <3>1. Marked(x) => Marked(x)'
      BY <1>9 DEF IInv, TypeOK, Shape, SvcRec, Marked, OnList, CallbackDue,
          Setting, Changing, ForeignRead
    <3>2. ASSUME NEW u \in Foreign, u # t, frn[u].w = x, ToMark(frn[u])
          PROVE  Working(x)'
      BY <2>0, <3>2 DEF Working, ToMark
    <3>3. CASE frn[t].w = x /\ POLLOUT \in events[x]
      BY <1>9, <3>3 DEF Marked, ForeignRead
    <3>4. CASE frn[t].w = x /\ POLLOUT \notin events[x]
      BY <1>9, <2>0, <3>4 DEF Working, ToMark
    <3>5. CASE frn[t].w # x
      <4>1. x \in asked \ Flow
        BY <1>9 DEF ForeignRead
      <4>2. Working(x) => Working(x)'
        BY <1>9, <3>2, <3>5 DEF Working
      <4> QED BY <3>1, <4>1, <4>2 DEF IInv, StrongKept
    <3> QED BY <3>3, <3>4, <3>5
  <2>8. StrongWakes'
    <3> SUFFICES ASSUME Smp, svc'.pc = "wait" PROVE StrongWakes'
      BY DEF StrongWakes
    <3>0. svc.pc = "wait" /\ polled' = polled
      BY <1>9 DEF IInv, TypeOK, SvcRec, ForeignRead
    <3>1. ASSUME NEW x \in asked' \ Flow
          PROVE  \/ POLLOUT \in polled[x] \/ pipe' \/ OnList(x)'
                 \/ Working(x)' \/ Cancelling(x)'
      <4>1. ASSUME NEW u \in Foreign, u # t, frn[u].w = x,
                   ToMark(frn[u]) \/ frn[u].pc = "cancel"
            PROVE  Working(x)' \/ Cancelling(x)'
        BY <2>0, <4>1 DEF Working, Cancelling, ToMark
      <4>2. OnList(x) => OnList(x)'
        BY <1>9 DEF IInv, TypeOK, Shape, OnList, ForeignRead
      <4>3. CASE frn[t].w = x /\ POLLOUT \in events[x]
        BY <1>9, <3>0, <4>3 DEF IInv, StrongWakes, ForeignRead
      <4>4. CASE frn[t].w = x /\ POLLOUT \notin events[x]
        BY <1>9, <2>0, <4>4 DEF Working, ToMark
      <4>5. CASE frn[t].w # x
        <5>1. x \in asked \ Flow
          BY <1>9 DEF ForeignRead
        <5>2. (Working(x) \/ Cancelling(x)) => (Working(x)' \/ Cancelling(x)')
          BY <1>9, <4>1, <4>5 DEF Working, Cancelling, ToMark, ForeignRead
        <5> QED
          BY <1>9, <3>0, <4>2, <5>1, <5>2 DEF IInv, StrongWakes, ForeignRead
      <4> QED BY <4>3, <4>4, <4>5
    <3>2. ASSUME NEW u \in Foreign, frn'[u].pc \in {"unlock", "read"},
                 frn'[u].w \notin Flow, POLLOUT \in events'[frn'[u].w]
          PROVE  POLLOUT \in polled[frn'[u].w]
      BY <1>9, <2>0, <3>0, <3>2 DEF IInv, TypeOK, Shape, StrongWakes,
          ForeignRead
    <3> QED BY <3>0, <3>1, <3>2 DEF StrongWakes
  <2>9. SpinlockReleased'
    BY <1>9 DEF IInv, TypeOK, SvcRec, SpinlockReleased, ForeignRead
  <2> QED BY <2>1, <2>2, <2>3, <2>4, <2>5, <2>6, <2>7, <2>8, <2>9 DEF IInv
<1>10. ASSUME NEW t \in Foreign, ForeignWrite(t) PROVE IInv'
  <2>0. /\ \A u \in Foreign : u # t => frn'[u] = frn[u]
        /\ POLLOUT \in frn[t].tmp => frn'[t] = Idle
        /\ POLLOUT \notin frn[t].tmp
             => frn'[t] = [pc |-> "cancel", w |-> frn[t].w, tmp |-> {}]
    BY <1>10 DEF IInv, TypeOK, FrnRec, ForeignWrite, Idle
  <2>1. TypeOK'
    <3>1. frn' \in [Foreign -> FrnRec]
      <4>1. frn[t] \in FrnRec
        BY DEF IInv, TypeOK
      <4>2. frn'[t] \in FrnRec
        BY <1>10, <4>1 DEF IInv, TypeOK, Shape, FrnRec, FrnPc, ForeignWrite,
            Idle
      <4>3. frn' = [frn EXCEPT ![t] = frn'[t]]
        BY <1>10 DEF IInv, TypeOK, ForeignWrite, Idle
      <4> QED BY <4>2, <4>3 DEF IInv, TypeOK
    <3>2. events' \in [Wsi -> SUBSET {POLLIN, POLLOUT}]
      BY <1>10 DEF IInv, TypeOK, Shape, FrnRec, ForeignWrite
    <3> QED
      BY <1>10, <3>1, <3>2 DEF IInv, TypeOK, ForeignWrite
  <2>2. Shape'
    BY <1>10, <2>0 DEF IInv, TypeOK, Shape, ForeignWrite, Idle
  <2>3. ChangeShape'
    BY <1>10 DEF IInv, TypeOK, SvcRec, Shape, ChangeShape, Changing,
        ForeignWrite, Idle
  <2>4. Reported'
    BY <1>10 DEF IInv, TypeOK, SvcRec, Shape, ChangeShape, Reported,
        WasReported, Changing, ForeignWrite, Idle
  <2>5. Handling'
    BY <1>10 DEF IInv, TypeOK, SvcRec, Shape, ChangeShape, Handling, Changing,
        ForeignWrite, Idle
  <2>6. Drained'
    BY <1>10 DEF IInv, TypeOK, SvcRec, Shape, ChangeShape, Drained, Draining,
        Changing, Setting, ForeignWrite, Idle
  <2>7. StrongKept'
    <3> SUFFICES ASSUME Smp, NEW x \in asked' \ Flow
                 PROVE  Marked(x)' \/ Working(x)'
      BY DEF StrongKept
    <3>1. Marked(x) => Marked(x)'
      BY <1>10 DEF IInv, TypeOK, Shape, SvcRec, Marked, OnList, CallbackDue,
          Setting, Changing, ForeignWrite, Idle
    <3>2. ASSUME NEW u \in Foreign, u # t, frn[u].w = x, ToMark(frn[u])
          PROVE  Working(x)'
      BY <2>0, <3>2 DEF Working, ToMark
    <3>3. CASE frn[t].w = x
      BY <1>10, <3>3 DEF IInv, TypeOK, Shape, Marked, ForeignWrite
    <3>4. CASE frn[t].w # x
      <4>1. x \in asked \ Flow
        BY <1>10 DEF ForeignWrite
      <4>2. Working(x) => Working(x)'
        BY <1>10, <3>2, <3>4 DEF Working
      <4> QED BY <3>1, <4>1, <4>2 DEF IInv, StrongKept
    <3> QED BY <3>3, <3>4
  <2>8. StrongWakes'
    <3> SUFFICES ASSUME Smp, svc'.pc = "wait" PROVE StrongWakes'
      BY DEF StrongWakes
    <3>0. svc.pc = "wait" /\ polled' = polled
      BY <1>10 DEF IInv, TypeOK, SvcRec, ForeignWrite, Idle
    <3>1. ASSUME NEW x \in asked' \ Flow
          PROVE  \/ POLLOUT \in polled[x] \/ pipe' \/ OnList(x)'
                 \/ Working(x)' \/ Cancelling(x)'
      <4>1. ASSUME NEW u \in Foreign, u # t, frn[u].w = x,
                   ToMark(frn[u]) \/ frn[u].pc = "cancel"
            PROVE  Working(x)' \/ Cancelling(x)'
        BY <2>0, <4>1 DEF Working, Cancelling, ToMark
      <4>2. OnList(x) => OnList(x)'
        BY <1>10 DEF IInv, TypeOK, Shape, OnList, ForeignWrite
      <4>3. CASE frn[t].w = x /\ POLLOUT \notin frn[t].tmp
        BY <1>10, <2>0, <4>3 DEF Cancelling
      <4>4. CASE frn[t].w # x \/ POLLOUT \in frn[t].tmp
        <5>1. x \in asked \ Flow
          BY <1>10 DEF ForeignWrite
        <5>2. (Working(x) \/ Cancelling(x)) => (Working(x)' \/ Cancelling(x)')
          BY <1>10, <4>1, <4>4 DEF Working, Cancelling, ToMark, ForeignWrite
        <5> QED
          BY <1>10, <3>0, <4>2, <5>1, <5>2 DEF IInv, StrongWakes, ForeignWrite
      <4> QED BY <4>3, <4>4
    <3>2. ASSUME NEW u \in Foreign, frn'[u].pc \in {"unlock", "read"},
                 frn'[u].w \notin Flow, POLLOUT \in events'[frn'[u].w]
          PROVE  POLLOUT \in polled[frn'[u].w]
      BY <1>10, <2>0, <3>0, <3>2 DEF IInv, TypeOK, Shape, StrongWakes,
          ForeignWrite, Idle
    <3> QED BY <3>0, <3>1, <3>2 DEF StrongWakes
  <2>9. SpinlockReleased'
    BY <1>10, <2>0 DEF IInv, TypeOK, SpinlockReleased, ForeignWrite
  <2> QED BY <2>1, <2>2, <2>3, <2>4, <2>5, <2>6, <2>7, <2>8, <2>9 DEF IInv
<1> QED BY <1>1, <1>2, <1>3, <1>4, <1>5, <1>6, <1>7, <1>8, <1>9, <1>10

(* Every reachable state satisfies the inductive invariant. *)
THEOREM Invariance == Spec => []IInv
<1>1. ASSUME Init PROVE IInv
  <2>1. TypeOK
    <3>1. svc \in SvcRec
      BY <1>1 DEF Init, SvcRec, SvcPc
    <3>2. Idle \in FrnRec
      BY DEF Idle, FrnRec, FrnPc
    <3>3. /\ events \in [Wsi -> SUBSET {POLLIN, POLLOUT}]
          /\ polled \in [Wsi -> SUBSET {POLLIN, POLLOUT}]
      BY <1>1 DEF Init
    <3>4. /\ handling_pollout \in [Wsi -> BOOLEAN]
          /\ leave_pollout_active \in [Wsi -> BOOLEAN]
      BY <1>1 DEF Init
    <3>5. frn \in [Foreign -> FrnRec]
      BY <1>1, <3>2 DEF Init
    <3>6. foreign_pfd_list \in Seq(Wsi) /\ asked \in SUBSET Wsi
      BY <1>1 DEF Init
    <3>7. /\ inside_poll \in BOOLEAN /\ foreign_spinlock \in BOOLEAN
          /\ pipe \in BOOLEAN
      BY <1>1 DEF Init
    <3> QED BY <3>1, <3>3, <3>4, <3>5, <3>6, <3>7 DEF TypeOK
  <2>2. Shape /\ ChangeShape
    BY <1>1 DEF Init, Shape, ChangeShape, Changing, Idle
  <2>3. Reported /\ Handling /\ Drained
    BY <1>1 DEF Init, Reported, WasReported, Handling, Drained, Draining, Changing
  <2>4. StrongKept /\ StrongWakes /\ SpinlockReleased
    BY <1>1 DEF Init, StrongKept, StrongWakes, SpinlockReleased
  <2> QED BY <2>1, <2>2, <2>3, <2>4 DEF IInv
<1>2. IInv /\ [Next]_vars => IInv'
  <2> SUFFICES ASSUME IInv, [Next]_vars PROVE IInv'
    OBVIOUS
  <2>1. CASE ServiceStep
    BY <2>1, ChangeStep, PollStep, FdsStep, HandleStep, UserStep DEF ServiceStep
  <2>2. CASE PollReturn
    BY <2>2, PollStep
  <2>3. CASE \E t \in Foreign : ForeignStep(t) \/ \E w \in Wsi : ForeignAsks(t, w)
    BY <2>3, CallStep DEF ForeignStep
  <2>4. CASE UNCHANGED vars
    <3>1. TypeOK' /\ Shape' /\ ChangeShape'
      BY <2>4 DEF vars, IInv, TypeOK, Shape, ChangeShape, Changing
    <3>2. Reported' /\ Handling' /\ Drained'
      BY <2>4 DEF vars, IInv, Reported, WasReported, Handling, Drained,
          Draining, Changing, Setting
    <3>3. StrongKept'
      BY <2>4 DEF vars, IInv, StrongKept, Marked, Working, OnList, CallbackDue,
          Setting, Changing
    <3>4. StrongWakes' /\ SpinlockReleased'
      BY <2>4 DEF vars, IInv, StrongWakes, Working, Cancelling, OnList, SpinlockReleased
    <3> QED BY <3>1, <3>2, <3>3, <3>4 DEF IInv
  <2> QED BY <2>1, <2>2, <2>3, <2>4 DEF Next
<1> QED BY <1>1, <1>2, PTL DEF Spec

(* The variables of the event loop keep their types, with pt mutexes or *)
(* without.                                                             *)
THEOREM TypeCorrect == Spec => []TypeOK
<1>1. IInv => TypeOK
  BY DEF IInv
<1> QED BY <1>1, Invariance, PTL

(* With pt mutexes no request for a WRITEABLE callback is forgotten, for *)
(* any number of connections and foreign threads.                        *)
THEOREM RequestKeptHolds == ASSUME Smp PROVE Spec => []RequestKept
<1>1. IInv => RequestKept
  BY DEF IInv, StrongKept, RequestKept, Kept, Marked, Working, ToMark,
      InCall
<1> QED BY <1>1, Invariance, PTL

(* With pt mutexes a direct change of pfd->events reaches a poll() that is *)
(* waiting.                                                                *)
THEOREM DirectChangeWakesHolds == ASSUME Smp PROVE Spec => []DirectChangeWakes
<1>1. IInv => DirectChangeWakes
  BY DEF IInv, StrongWakes, DirectChangeWakes, Working, Cancelling, ToMark,
      InCall
<1> QED BY <1>1, Invariance, PTL

(* foreign_spinlock is only ever set by a call that will clear it, with pt *)
(* mutexes or without.                                                     *)
THEOREM SpinlockReleasedHolds == Spec => []SpinlockReleased
<1>1. IInv => SpinlockReleased
  BY DEF IInv
<1> QED BY <1>1, Invariance, PTL

=============================================================================
