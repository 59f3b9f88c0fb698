------------------------------ MODULE Pollout ------------------------------
(***************************************************************************)
(* Asking for a WRITEABLE callback from another thread, with the default   *)
(* poll() event loop.  lws_callback_on_writable() is the one function a    *)
(* foreign thread may call on a live connection; it changes the events the *)
(* service thread polls for, with no lock.  What keeps a request from      *)
(* being lost is a set of plain flags: wsi->handling_pollout and           *)
(* leave_pollout_active against a POLLOUT that is being handled,           *)
(* pt->inside_poll, foreign_spinlock and foreign_pfd_list against a poll() *)
(* that is waiting, and the event pipe that ends the wait.                 *)
(*                                                                         *)
(* Each read or write of a variable that both sides use is a step of its   *)
(* own.  lws_memory_barrier() follows the flags, so the steps of a thread  *)
(* are seen in program order.                                              *)
(***************************************************************************)
EXTENDS Naturals, Sequences, FiniteSets

CONSTANTS
  Wsi,       \* connections of this service thread, established and not muxed
  Foreign,   \* threads other than the service thread
  None,      \* no connection
  Smp,       \* LWS_MAX_SMP > 1: lws_pt_lock() is a mutex (else it is nothing)
  Flow,      \* connections whose callbacks use lws_rx_flow_control()
  MaxList    \* no foreign call begins while foreign_pfd_list is this long

ASSUME ConstantsAssumption ==
  /\ Smp \in BOOLEAN /\ Flow \subseteq Wsi
  /\ None \notin Wsi
  /\ MaxList \in Nat

POLLIN  == "POLLIN"
POLLOUT == "POLLOUT"

VARIABLES
  events,                \* pfd->events of each connection
  handling_pollout,      \* wsi->handling_pollout
  leave_pollout_active,  \* wsi->leave_pollout_active
  inside_poll,           \* pt->inside_poll
  foreign_spinlock,      \* pt->foreign_spinlock
  foreign_pfd_list,      \* pt->foreign_pfd_list: where to set POLLOUT
  pipe,                  \* the event pipe of the pt is readable
  polled,                \* the events poll() was called with (kernel)
  svc,                   \* where the service thread is and its locals
  frn,                   \* where each foreign thread is and its locals
  asked                  \* connections with a request no callback has followed

vars == <<events, handling_pollout, leave_pollout_active, inside_poll,
          foreign_spinlock, foreign_pfd_list, pipe, polled, svc, frn, asked>>

\* the flags of the connections, the flags and list of the pt, the kernel's part
flags  == <<handling_pollout, leave_pollout_active>>
ptvars == <<inside_poll, foreign_spinlock, foreign_pfd_list>>
kernel == <<pipe, polled>>

SvcPc == {"top", "poll", "wait", "left", "spin", "drain", "fds", "handle",
          "role", "bail", "bailed", "eff", "off", "recheck", "clear", "cb",
          "user", "flow", "leave", "chg", "rd", "wr"}

FrnPc == {"idle", "look", "leave", "lock", "check", "append", "cancel",
          "unlock", "read", "write"}

(* svc.w      the connection being serviced, or whose events are changed  *)
(* svc.eff    the sample of leave_pollout_active                          *)
(* svc.todo   the part of the foreign list drain still has to reach       *)
(* svc.out    connections with POLLOUT in revents, svc.in with POLLIN,     *)
(* svc.woken  the pipe has POLLIN                                          *)
(* svc.rm, svc.add, svc.back, svc.tmp, svc.locked: the lws_change_pollfd() *)
(*            in progress, where it returns to, the events it has read     *)
SvcRec ==
  [pc : SvcPc, w : Wsi \cup {None}, eff : BOOLEAN, todo : Seq(Wsi),
   out : SUBSET Wsi, in : SUBSET Wsi, woken : BOOLEAN,
   rm : SUBSET {POLLIN, POLLOUT}, add : SUBSET {POLLIN, POLLOUT}, back : SvcPc,
   tmp : SUBSET {POLLIN, POLLOUT}, locked : BOOLEAN]

FrnRec == [pc : FrnPc, w : Wsi \cup {None}, tmp : SUBSET {POLLIN, POLLOUT}]

TypeOK ==
  /\ events \in [Wsi -> SUBSET {POLLIN, POLLOUT}]
  /\ handling_pollout \in [Wsi -> BOOLEAN]
  /\ leave_pollout_active \in [Wsi -> BOOLEAN]
  /\ inside_poll \in BOOLEAN
  /\ foreign_spinlock \in BOOLEAN
  /\ foreign_pfd_list \in Seq(Wsi)
  /\ pipe \in BOOLEAN
  /\ polled \in [Wsi -> SUBSET {POLLIN, POLLOUT}]
  /\ svc \in SvcRec
  /\ frn \in [Foreign -> FrnRec]
  /\ asked \in SUBSET Wsi

Idle == [pc |-> "idle", w |-> None, tmp |-> {}]

Init ==
  /\ events = [w \in Wsi |-> {POLLIN}]
  /\ handling_pollout = [w \in Wsi |-> FALSE]
  /\ leave_pollout_active = [w \in Wsi |-> FALSE]
  /\ inside_poll = FALSE
  /\ foreign_spinlock = FALSE
  /\ foreign_pfd_list = <<>>
  /\ pipe = FALSE
  /\ polled = [w \in Wsi |-> {}]
  /\ svc = [pc |-> "top", w |-> None, eff |-> FALSE, todo |-> <<>>, out |-> {},
            in |-> {}, woken |-> FALSE, rm |-> {}, add |-> {}, back |-> "fds",
            tmp |-> {}, locked |-> FALSE]
  /\ frn = [t \in Foreign |-> Idle]
  /\ asked = {}

(***************************************************************************)
(* The service thread's own lws_change_pollfd(w, rm, add).  It sets and    *)
(* clears foreign_spinlock, whoever else holds it, and reads and writes    *)
(* pfd->events in two steps.                                               *)
(***************************************************************************)
\* a local is reset where it is dead: w and eff when the connection is done with
At(pc) == [svc EXCEPT !.pc = pc,
                      !.w = IF pc \in {"fds", "drain"} THEN None ELSE @,
                      !.eff = @ /\ pc # "fds"]

Goto(pc) == svc' = At(pc)

Change(rm, add, back) ==
  [svc EXCEPT !.pc = "chg", !.rm = rm, !.add = add, !.back = back,
              !.locked = TRUE]

Changing == svc.pc \in {"chg", "rd", "wr"}

PtLocked ==
  /\ Smp
  /\ svc.pc = "drain" \/ (Changing /\ (svc.locked \/ svc.back = "drain"))

ChangeSpinlock ==
  /\ svc.pc = "chg"
  /\ foreign_spinlock' = FALSE
  /\ Goto("rd")
  /\ UNCHANGED <<events, flags, inside_poll, foreign_pfd_list, kernel, frn,
                 asked>>

ChangeRead ==
  /\ svc.pc = "rd"
  /\ svc' = [svc EXCEPT !.pc = "wr", !.tmp = events[svc.w]]
  /\ UNCHANGED <<events, flags, ptvars, kernel, frn, asked>>

ChangeWrite ==
  /\ svc.pc = "wr"
  /\ events' = [events EXCEPT ![svc.w] = (svc.tmp \ svc.rm) \cup svc.add]
  /\ svc' = [At(svc.back) EXCEPT !.rm = {}, !.add = {}, !.tmp = {},
                                !.locked = FALSE, !.back = "fds"]
  /\ UNCHANGED <<flags, ptvars, kernel, frn, asked>>

(***************************************************************************)
(* _lws_plat_service_tsi(): enter poll(), wait, leave it, wait for the     *)
(* foreign spinlock and apply the foreign list.                            *)
(***************************************************************************)
EnterPoll ==
  /\ svc.pc = "top"
  /\ inside_poll' = TRUE
  /\ Goto("poll")
  /\ UNCHANGED <<events, flags, foreign_spinlock, foreign_pfd_list, kernel, frn,
                 asked>>

PollStart ==
  /\ svc.pc = "poll"
  /\ polled' = events
  /\ Goto("wait")
  /\ UNCHANGED <<events, flags, ptvars, pipe, frn, asked>>

PollReturn ==
  /\ svc.pc = "wait"
  /\ \E o \in SUBSET {w \in Wsi : POLLOUT \in polled[w]},
        i \in SUBSET {w \in Wsi : POLLIN \in polled[w]} :
       svc' = [svc EXCEPT !.pc = "left", !.out = o, !.in = i, !.woken = pipe]
  /\ polled' = [w \in Wsi |-> {}]
  /\ UNCHANGED <<events, flags, ptvars, pipe, frn, asked>>

LeavePoll ==
  /\ svc.pc = "left"
  /\ inside_poll' = FALSE
  /\ Goto("spin")
  /\ UNCHANGED <<events, flags, foreign_spinlock, foreign_pfd_list, kernel, frn,
                 asked>>

\* Mutant: the list is applied only after a wait that the pipe has ended.
AwaitSpinlock_WhenWoken ==
  /\ svc.pc = "spin"
  /\ ~foreign_spinlock
  /\ svc' = IF svc.woken THEN [svc EXCEPT !.pc = "drain", !.todo = foreign_pfd_list]
                         ELSE [svc EXCEPT !.pc = "fds"]
  /\ UNCHANGED <<events, flags, ptvars, kernel, frn, asked>>

AwaitSpinlock ==
  /\ svc.pc = "spin"
  /\ ~foreign_spinlock
  /\ svc' = [svc EXCEPT !.pc = "drain", !.todo = foreign_pfd_list]
  /\ UNCHANGED <<events, flags, ptvars, kernel, frn, asked>>

DrainOne ==
  /\ svc.pc = "drain"
  /\ svc.todo # <<>>
  /\ svc' = [svc EXCEPT !.pc = "chg", !.w = Head(svc.todo), !.rm = {},
                        !.add = {POLLOUT}, !.back = "drain", !.locked = FALSE,
                        !.todo = Tail(svc.todo)]
  /\ UNCHANGED <<events, flags, ptvars, kernel, frn, asked>>

DrainEnd ==
  /\ svc.pc = "drain"
  /\ svc.todo = <<>>
  /\ foreign_pfd_list' = <<>>
  /\ Goto("fds")
  /\ UNCHANGED <<events, flags, inside_poll, foreign_spinlock, kernel, frn,
                 asked>>

(***************************************************************************)
(* _lws_plat_service_forced_tsi(): service each fd with revents.  The pipe *)
(* is read dry; a connection gets its POLLOUT handled before its POLLIN.   *)
(***************************************************************************)
\* the pipe is read and LWS_CALLBACK_EVENT_WAIT_CANCELLED broadcast, in which the
\* user may turn to a connection c
ServicePipe(c) ==
  /\ svc.pc = "fds"
  /\ svc.woken
  /\ pipe' = FALSE
  /\ svc' = [svc EXCEPT !.woken = FALSE, !.w = c, !.back = "fds",
                        !.pc = IF c = None THEN "fds" ELSE "user"]
  /\ UNCHANGED <<events, flags, ptvars, polled, frn, asked>>

ServicePOLLIN(w) ==
  /\ svc.pc = "fds"
  /\ w \in svc.in \ svc.out
  /\ svc' = [svc EXCEPT !.pc = "user", !.w = w, !.in = @ \ {w}, !.back = "fds"]
  /\ UNCHANGED <<events, flags, ptvars, kernel, frn, asked>>

ServiceEnd ==
  /\ svc.pc = "fds"
  /\ ~svc.woken /\ svc.in = {} /\ svc.out = {}
  /\ Goto("top")
  /\ UNCHANGED <<events, flags, ptvars, kernel, frn, asked>>

(***************************************************************************)
(* lws_handle_POLLOUT_event()                                              *)
(***************************************************************************)
HandlePOLLOUT(w) ==
  /\ svc.pc = "fds"
  /\ w \in svc.out
  /\ leave_pollout_active' = [leave_pollout_active EXCEPT ![w] = FALSE]
  /\ svc' = [svc EXCEPT !.pc = "handle", !.w = w, !.out = @ \ {w}]
  /\ UNCHANGED <<events, handling_pollout, ptvars, kernel, frn, asked>>

SetHandling ==
  /\ svc.pc = "handle"
  /\ handling_pollout' = [handling_pollout EXCEPT ![svc.w] = TRUE]
  /\ Goto("role")
  /\ UNCHANGED <<events, leave_pollout_active, ptvars, kernel, frn, asked>>

\* buffered data was sent, or the role sent something of its own: POLLOUT stays
RoleBails ==
  /\ svc.pc = "role"
  /\ Goto("bail")
  /\ UNCHANGED <<events, flags, ptvars, kernel, frn, asked>>

BailHandling ==
  /\ svc.pc = "bail"
  /\ handling_pollout' = [handling_pollout EXCEPT ![svc.w] = FALSE]
  /\ Goto("bailed")
  /\ UNCHANGED <<events, leave_pollout_active, ptvars, kernel, frn, asked>>

BailLeave ==
  /\ svc.pc = "bailed"
  /\ leave_pollout_active' = [leave_pollout_active EXCEPT ![svc.w] = FALSE]
  /\ Goto("fds")
  /\ UNCHANGED <<events, handling_pollout, ptvars, kernel, frn, asked>>

RoleUserService ==
  /\ svc.pc = "role"
  /\ Goto("eff")
  /\ UNCHANGED <<events, flags, ptvars, kernel, frn, asked>>

SampleLeave ==
  /\ svc.pc = "eff"
  /\ svc' = IF leave_pollout_active[svc.w]
            THEN [svc EXCEPT !.pc = "off", !.eff = TRUE]
            ELSE Change({POLLOUT}, {}, "off")
  /\ UNCHANGED <<events, flags, ptvars, kernel, frn, asked>>

ClearHandling ==
  /\ svc.pc = "off"
  /\ handling_pollout' = [handling_pollout EXCEPT ![svc.w] = FALSE]
  /\ Goto("recheck")
  /\ UNCHANGED <<events, leave_pollout_active, ptvars, kernel, frn, asked>>

RecheckLeave ==
  /\ svc.pc = "recheck"
  /\ svc' = IF ~svc.eff /\ leave_pollout_active[svc.w]
            THEN Change({}, {POLLOUT}, "clear")
            ELSE At("clear")
  /\ UNCHANGED <<events, flags, ptvars, kernel, frn, asked>>

\* twice in the code, with nothing that reads the flag in between
ClearLeave ==
  /\ svc.pc = "clear"
  /\ leave_pollout_active' = [leave_pollout_active EXCEPT ![svc.w] = FALSE]
  /\ Goto("cb")
  /\ UNCHANGED <<events, handling_pollout, ptvars, kernel, frn, asked>>

WriteableCallback ==
  /\ svc.pc = "cb"
  /\ asked' = asked \ {svc.w}
  /\ svc' = [svc EXCEPT !.pc = "user", !.back = "leave"]
  /\ UNCHANGED <<events, flags, ptvars, kernel, frn>>

\* handling_pollout = 0 (it is 0 already) and the last look at the flag
FinalLeave ==
  /\ svc.pc = "leave"
  /\ svc' = IF leave_pollout_active[svc.w]
            THEN Change({}, {POLLOUT}, "fds")
            ELSE At("fds")
  /\ UNCHANGED <<events, flags, ptvars, kernel, frn, asked>>

(***************************************************************************)
(* The user code in a callback of connection svc.w: it may ask for the     *)
(* next WRITEABLE callback, and in Flow it may stop or allow rx, which     *)
(* is applied when it returns (user_callback_handle_rxflow()).             *)
(***************************************************************************)
\* a change made in a callback returns to where the callback returns to
UserAsks ==
  /\ svc.pc = "user"
  /\ asked' = asked \cup {svc.w}
  /\ svc' = [svc EXCEPT !.pc = "chg", !.rm = {}, !.add = {POLLOUT},
                        !.locked = FALSE]
  /\ UNCHANGED <<events, flags, ptvars, kernel, frn>>

UserRxFlow ==
  /\ svc.pc = "user"
  /\ svc.w \in Flow
  /\ svc' = [svc EXCEPT !.pc = "chg", !.locked = FALSE,
               !.rm  = IF POLLIN \in events[svc.w] THEN {POLLIN} ELSE {},
               !.add = IF POLLIN \in events[svc.w] THEN {} ELSE {POLLIN}]
  /\ UNCHANGED <<events, flags, ptvars, kernel, frn, asked>>

UserReturns ==
  /\ svc.pc = "user"
  /\ svc' = [At(svc.back) EXCEPT !.back = "fds"]
  /\ UNCHANGED <<events, flags, ptvars, kernel, frn, asked>>

(***************************************************************************)
(* A foreign thread in lws_callback_on_writable(w), down to                *)
(* _lws_change_pollfd(w, 0, LWS_POLLOUT).                                  *)
(***************************************************************************)
FGoto(t, pc) == frn' = [frn EXCEPT ![t].pc = pc]

FReturn(t) == frn' = [frn EXCEPT ![t] = Idle]

\* user code serialises the calls for one connection
ForeignAsks(t, w) ==
  /\ frn[t].pc = "idle"
  /\ \A u \in Foreign : frn[u].pc # "idle" => frn[u].w # w
  /\ Len(foreign_pfd_list) < MaxList
  /\ asked' = asked \cup {w}
  /\ frn' = [frn EXCEPT ![t].pc = "look", ![t].w = w]
  /\ UNCHANGED <<events, flags, ptvars, kernel, svc>>

LookHandling(t) ==
  /\ frn[t].pc = "look"
  /\ FGoto(t, IF handling_pollout[frn[t].w] THEN "leave" ELSE "lock")
  /\ UNCHANGED <<events, flags, ptvars, kernel, svc, asked>>

SetLeave(t) ==
  /\ frn[t].pc = "leave"
  /\ leave_pollout_active' = [leave_pollout_active EXCEPT ![frn[t].w] = TRUE]
  /\ FReturn(t)
  /\ UNCHANGED <<events, handling_pollout, ptvars, kernel, svc, asked>>

TakeSpinlock(t) ==
  /\ frn[t].pc = "lock"
  /\ foreign_spinlock' = TRUE
  /\ FGoto(t, "check")
  /\ UNCHANGED <<events, flags, inside_poll, foreign_pfd_list, kernel, svc,
                 asked>>

CheckInsidePoll(t) ==
  /\ frn[t].pc = "check"
  /\ FGoto(t, IF inside_poll THEN "append" ELSE "unlock")
  /\ UNCHANGED <<events, flags, ptvars, kernel, svc, asked>>

\* Mutant: the entry names the thread and not the connection.
AppendForeign_Thread(t) ==
  /\ frn[t].pc = "append"
  /\ ~PtLocked
  /\ foreign_pfd_list' = Append(foreign_pfd_list, t)
  /\ foreign_spinlock' = FALSE
  /\ FGoto(t, "cancel")
  /\ UNCHANGED <<events, flags, inside_poll, kernel, svc, asked>>

\* Mutant: the list is changed without lws_pt_lock().
AppendForeign_Unlocked(t) ==
  /\ frn[t].pc = "append"
  /\ foreign_pfd_list' = Append(foreign_pfd_list, frn[t].w)
  /\ svc' = [svc EXCEPT !.todo = IF @ = <<>> THEN @ ELSE Append(@, frn[t].w)]
  /\ foreign_spinlock' = FALSE
  /\ FGoto(t, "cancel")
  /\ UNCHANGED <<events, flags, inside_poll, kernel, asked>>

\* Mutant: foreign_spinlock is not cleared on this way out.
AppendForeign_SpinlockKept(t) ==
  /\ frn[t].pc = "append"
  /\ ~PtLocked
  /\ foreign_pfd_list' = Append(foreign_pfd_list, frn[t].w)
  /\ svc' = [svc EXCEPT !.todo = IF @ = <<>> THEN @ ELSE Append(@, frn[t].w)]
  /\ FGoto(t, "cancel")
  /\ UNCHANGED <<events, flags, inside_poll, foreign_spinlock, kernel, asked>>

\* without lws_pt_lock() the entry is reached by a drain only if that still has
\* a later entry to come to
AppendForeign(t) ==
  /\ frn[t].pc = "append"
  /\ ~PtLocked
  /\ foreign_pfd_list' = Append(foreign_pfd_list, frn[t].w)
  /\ svc' = [svc EXCEPT !.todo = IF @ = <<>> THEN @ ELSE Append(@, frn[t].w)]
  /\ foreign_spinlock' = FALSE
  /\ FGoto(t, "cancel")
  /\ UNCHANGED <<events, flags, inside_poll, kernel, asked>>

CancelService(t) ==
  /\ frn[t].pc = "cancel"
  /\ pipe' = TRUE
  /\ FReturn(t)
  /\ UNCHANGED <<events, flags, ptvars, polled, svc, asked>>

DropSpinlock(t) ==
  /\ frn[t].pc = "unlock"
  /\ foreign_spinlock' = FALSE
  /\ FGoto(t, "read")
  /\ UNCHANGED <<events, flags, inside_poll, foreign_pfd_list, kernel, svc,
                 asked>>

ForeignRead(t) ==
  /\ frn[t].pc = "read"
  /\ frn' = [frn EXCEPT ![t].pc = "write", ![t].tmp = events[frn[t].w]]
  /\ UNCHANGED <<events, flags, ptvars, kernel, svc, asked>>

\* Mutant: the service thread is never cancelled.
ForeignWrite_Silent(t) ==
  /\ frn[t].pc = "write"
  /\ events' = [events EXCEPT ![frn[t].w] = frn[t].tmp \cup {POLLOUT}]
  /\ FReturn(t)
  /\ UNCHANGED <<flags, ptvars, kernel, svc, asked>>

\* the service thread is cancelled only if the events changed
ForeignWrite(t) ==
  /\ frn[t].pc = "write"
  /\ events' = [events EXCEPT ![frn[t].w] = frn[t].tmp \cup {POLLOUT}]
  /\ frn' = [frn EXCEPT ![t] = IF POLLOUT \in @.tmp THEN Idle
                               ELSE [pc |-> "cancel", w |-> @.w, tmp |-> {}]]
  /\ UNCHANGED <<flags, ptvars, kernel, svc, asked>>

-----------------------------------------------------------------------------
ForeignStep(t) ==
  \/ LookHandling(t) \/ SetLeave(t) \/ TakeSpinlock(t) \/ CheckInsidePoll(t)
  \/ AppendForeign(t) \/ CancelService(t) \/ DropSpinlock(t) \/ ForeignRead(t)
  \/ ForeignWrite(t)

ServiceStep ==
  \/ ChangeSpinlock \/ ChangeRead \/ ChangeWrite
  \/ EnterPoll \/ PollStart \/ LeavePoll \/ AwaitSpinlock
  \/ DrainOne \/ DrainEnd \/ ServiceEnd
  \/ \E c \in Wsi \cup {None} : ServicePipe(c)
  \/ \E w \in Wsi : ServicePOLLIN(w) \/ HandlePOLLOUT(w)
  \/ SetHandling \/ RoleBails \/ BailHandling \/ BailLeave \/ RoleUserService
  \/ SampleLeave \/ ClearHandling \/ RecheckLeave \/ ClearLeave
  \/ WriteableCallback \/ FinalLeave
  \/ UserAsks \/ UserRxFlow \/ UserReturns

Next ==
  \/ ServiceStep
  \/ PollReturn
  \/ \E t \in Foreign : ForeignStep(t) \/ \E w \in Wsi : ForeignAsks(t, w)

Spec == Init /\ [][Next]_vars

(***************************************************************************)
(* Fairness: threads that can run do run, a thread that waits for the pt   *)
(* mutex gets it, and foreign calls do not hold the spinlock every time    *)
(* the service thread looks; poll() returns at the latest after its        *)
(* timeout of 23 days; the peer keeps reading, so a connection polled for  *)
(* POLLOUT again and again is reported writable; and what the role itself  *)
(* has to send comes to an end.                                            *)
(***************************************************************************)
Fairness ==
  /\ WF_vars(ServiceStep)
  /\ \A t \in Foreign : WF_vars(ForeignStep(t)) /\ SF_vars(AppendForeign(t))
  /\ SF_vars(AwaitSpinlock)
  /\ WF_vars(PollReturn)
  /\ \A w \in Wsi : SF_vars(PollReturn /\ w \in svc'.out)
  /\ \A w \in Wsi : SF_vars(svc.w = w /\ RoleUserService)

FairSpec == Spec /\ Fairness

-----------------------------------------------------------------------------
InCall(w) == \E t \in Foreign : frn[t].pc # "idle" /\ frn[t].w = w

OnList(w) == \E i \in DOMAIN foreign_pfd_list : foreign_pfd_list[i] = w

\* the service thread is on its way to the WRITEABLE callback of w
CallbackDue(w) ==
  /\ svc.w = w
  /\ \/ svc.pc \in {"eff", "off", "recheck", "clear", "cb"}
     \/ Changing /\ svc.back \in {"off", "clear"}

\* the service thread is setting POLLOUT on w
Setting(w) == svc.w = w /\ Changing /\ POLLOUT \in svc.add

\* something will set POLLOUT on w, or make its callback
Kept(w) ==
  \/ POLLOUT \in events[w] \/ OnList(w)
  \/ CallbackDue(w) \/ Setting(w) \/ InCall(w)

\* A request that no WRITEABLE callback has followed is never forgotten, however
\* the flags of _lws_change_pollfd() and lws_handle_POLLOUT_event() are
\* interleaved, on a connection without rx flow control: the events ask for
\* POLLOUT, or an entry of the foreign list or a change in progress will, or the
\* callback is on its way, or the foreign call that asks has not returned.
RequestKept == \A w \in asked \ Flow : Kept(w)

\* When the service thread sleeps in poll() without POLLOUT among what it polls
\* for on a connection that was asked for, the pipe is readable, or the request
\* is on the foreign list: the direct change of pfd->events always comes with a
\* lws_cancel_service_pt() or in time for the next poll().
DirectChangeWakes ==
  svc.pc = "wait" =>
    \A w \in asked \ Flow :
      InCall(w) \/ POLLOUT \in polled[w] \/ pipe \/ OnList(w)

\* The service thread never spins on a foreign_spinlock nobody will clear,
\* though the flag is not a lock and the service thread's own changes clear it too.
SpinlockReleased ==
  foreign_spinlock =>
    \E t \in Foreign : frn[t].pc \in {"check", "append", "unlock"}

\* Every request is followed by a WRITEABLE callback.
RequestServed == \A w \in Wsi \ Flow : w \in asked ~> w \notin asked
=============================================================================
