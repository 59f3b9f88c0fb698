----------------------------- MODULE Sequencer -----------------------------
(***************************************************************************)
(* Sequencers: per service thread objects with a queue of events that are  *)
(* handed to a user callback from the event loop, one timeout each, and a  *)
(* heartbeat for all, driven by the sorted timer list of the thread.       *)
(*                                                                         *)
(* The service thread runs a pass over the ripe timers with the pt lock    *)
(* held, then other callbacks of the user.  An action of it is one timer   *)
(* callback up to the user code, or one call the user code makes.  Another *)
(* thread may queue an event: it reads going_down first and takes the lock *)
(* after.                                                                  *)
(*                                                                         *)
(* A wsi that is bound to a sequencer reports its connect and its close.   *)
(***************************************************************************)
EXTENDS Sul

CONSTANTS Seqs,        \* sequencers: each is created at most once
          Bound,       \* those with a connection bound to them
          Shared,      \* those other threads queue events on
          Period,      \* LWS_US_PER_SEC, the time between heartbeats
          Timeouts,    \* what users give to lws_seq_timeout_us()
          MaxLag,      \* longest time from the start of a pass to the next
          MaxEvents,   \* events queued when users stop to queue more
          Racing       \* other threads may still be inside
                       \* lws_seq_queue_event() when the sequencer goes

ASSUME SequencerAssumption ==
  /\ Bound \subseteq Seqs /\ Shared \subseteq Seqs
  /\ Period \in Nat /\ Period > 2
  /\ Timeouts \subseteq Nat
  /\ MaxLag \in Nat \ {0}
  /\ MaxEvents \in Nat \ {0}
  /\ Racing \in BOOLEAN

None == "none"
ASSUME NoneAssumption == None \notin Seqs

VARIABLES
  suls,       \* pt->pt_sul_owner
  lag,        \* time since the start of the current or last pass
  pass,       \* inside __lws_sul_service_ripe(), which holds the pt lock
  seq_owner,  \* pt->seq_owner, the sequencers in the order they were made
  life,       \* "none", "live", "going" (going_down is set), "freed"
  queue,      \* seq_event_owner of each sequencer
  cb,         \* the sequencer whose callback is handling Head(queue), or None
  dying,      \* the sequencer that is in its DESTROYED callback, or None
  foreign,    \* the sequencer another thread found not going down, or None
  wsi,        \* the connection bound to each: "none", "open" or "closed"
  held,       \* the sequencer was told that it connected, not that it closed
  ending      \* the context is being destroyed

vars == <<suls, lag, pass, seq_owner, life, queue, cb, dying, foreign, wsi, held, ending>>

Heartbeat == <<"heartbeat", None>>
Pending(s) == <<"pending", s>>
Timeout(s) == <<"timeout", s>>
SulIds == ({"pending", "timeout"} \X Seqs) \cup {Heartbeat}

(* CREATED, TIMED_OUT, HEARTBEAT and the events of users are all "other"  *)
Events == {"WSI_CONNECTED", "WSI_CONN_CLOSE", "other"}

Init ==                                      \* after lws_seq_pt_init()
  /\ suls = <<[sul |-> Heartbeat, us |-> Period]>>
  /\ lag = 0
  /\ pass = FALSE
  /\ seq_owner = <<>>
  /\ life = [s \in Seqs |-> "none"]
  /\ queue = [s \in Seqs |-> <<>>]
  /\ cb = None
  /\ dying = None
  /\ foreign = None
  /\ wsi = [s \in Seqs |-> "none"]
  /\ held = [s \in Seqs |-> FALSE]
  /\ ending = FALSE

-----------------------------------------------------------------------------
(* lws_seq_queue_event() of e on s, after the check of going_down *)
lws_seq_queue_event(s, e) ==
  /\ queue' = [queue EXCEPT ![s] = Append(@, e)]
  /\ suls' = __lws_sul_insert(suls, Pending(s), lag, 1)

Clock ==
  /\ lag < MaxLag
  /\ lag' = lag + 1
  /\ UNCHANGED <<suls, pass, seq_owner, life, queue, cb, dying, foreign, wsi, held, ending>>

(* the event loop comes round: usnow is read, and the lock taken *)
ServiceBegin ==
  /\ ~pass /\ ~ending /\ dying = None
  /\ lag > 0
  /\ pass' = TRUE
  /\ suls' = Rebase(suls, lag)
  /\ lag' = 0
  /\ UNCHANGED <<seq_owner, life, queue, cb, dying, foreign, wsi, held, ending>>

(* the pass takes the head of the list again after each callback *)
RipeIs(sul) ==
  /\ pass /\ cb = None /\ dying = None
  /\ suls # <<>> /\ Ripe(Head(suls)) /\ Head(suls).sul = sul

ServiceEnd ==
  /\ pass /\ cb = None /\ dying = None
  /\ ~(suls # <<>> /\ Ripe(Head(suls)))
  /\ pass' = FALSE
  /\ UNCHANGED <<suls, lag, seq_owner, life, queue, cb, dying, foreign, wsi, held, ending>>

(* each sequencer in turn has its pending timer scheduled: the lists there  *)
(* may be after that, which is one                                         *)
Woken(list) ==
  LET after[n \in 0 .. Len(seq_owner)] ==
        IF n = 0 THEN {list}
        ELSE {__lws_sul_insert(l, Pending(seq_owner[n]), lag, 1) : l \in after[n - 1]}
  IN  after[Len(seq_owner)]

(* Mutant: the heartbeat does not schedule itself again. *)
lws_sul_seq_heartbeat_cb_Once ==
  /\ RipeIs(Heartbeat)
  /\ queue' = [s \in Seqs |-> IF life[s] = "live" THEN Append(queue[s], "other") ELSE queue[s]]
  /\ suls' \in Woken(Tail(suls))
  /\ UNCHANGED <<lag, pass, seq_owner, life, cb, dying, foreign, wsi, held, ending>>

lws_sul_seq_heartbeat_cb ==
  /\ RipeIs(Heartbeat)
  /\ queue' = [s \in Seqs |-> IF life[s] = "live" THEN Append(queue[s], "other") ELSE queue[s]]
  /\ \E list \in Woken(Tail(suls)) : suls' = __lws_sul_insert(list, Heartbeat, lag, Period)
  /\ UNCHANGED <<lag, pass, seq_owner, life, cb, dying, foreign, wsi, held, ending>>

lws_seq_sul_timeout_cb(s) ==
  /\ RipeIs(Timeout(s))
  /\ queue' = [queue EXCEPT ![s] = Append(@, "other")]
  /\ suls' = __lws_sul_insert(Tail(suls), Pending(s), lag, 1)
  /\ UNCHANGED <<lag, pass, seq_owner, life, cb, dying, foreign, wsi, held, ending>>

(* what keeps other threads from a sequencer that goes is up to the user *)
MayDestroy(s) == Racing \/ foreign # s

(* lws_seq_sul_pending_cb() up to the callback, which is told the oldest   *)
(* event; the event stays on the queue while it is handled                 *)
PendingBegin(s) ==
  /\ RipeIs(Pending(s))
  /\ suls' = Tail(suls)
  /\ IF queue[s] = <<>> THEN UNCHANGED <<cb, held, wsi>>
     ELSE /\ cb' = s
          /\ held' = [held EXCEPT ![s] = CASE Head(queue[s]) = "WSI_CONNECTED" -> TRUE
                                           [] Head(queue[s]) = "WSI_CONN_CLOSE" -> FALSE
                                           [] OTHER -> @]
          /\ wsi' = [wsi EXCEPT ![s] = IF Head(queue[s]) = "WSI_CONN_CLOSE" THEN "none" ELSE @]
  /\ UNCHANGED <<lag, pass, seq_owner, life, queue, dying, foreign, ending>>

(* the rest of it: the callback returned n *)
PendingEnd(s, n) ==
  /\ cb = s /\ dying = None
  /\ cb' = None
  /\ queue' = [queue EXCEPT ![s] = Tail(@)]
  /\ IF n THEN MayDestroy(s) /\ dying' = s /\ life' = [life EXCEPT ![s] = "going"]
          ELSE UNCHANGED <<dying, life>>
  /\ UNCHANGED <<suls, lag, pass, seq_owner, foreign, wsi, held, ending>>

-----------------------------------------------------------------------------
(* Calls of user code in the service thread: in a callback of a sequencer, *)
(* or in any other one outside the pass.                                   *)

UserRuns == ~pass \/ cb # None \/ dying # None
RoomFor(s) == Len(queue[s]) < MaxEvents

lws_seq_create(s) ==
  /\ UserRuns /\ ~ending
  /\ life[s] = "none"
  /\ life' = [life EXCEPT ![s] = "live"]
  /\ seq_owner' = Append(seq_owner, s)
  /\ lws_seq_queue_event(s, "other")
  /\ UNCHANGED <<lag, pass, cb, dying, foreign, wsi, held, ending>>

UserQueues(s) ==
  /\ UserRuns
  /\ life[s] = "live" /\ RoomFor(s)
  /\ lws_seq_queue_event(s, "other")
  /\ UNCHANGED <<lag, pass, seq_owner, life, cb, dying, foreign, wsi, held, ending>>

(* a sequencer sets or cancels its timeout for the next step of its work *)
lws_seq_timeout_us(s) ==
  /\ cb = s /\ dying = None
  /\ \E us \in (IF RoomFor(s) THEN Timeouts ELSE {}) \cup {Cancel} :
       suls' = __lws_sul_insert(suls, Timeout(s), lag, us)
  /\ UNCHANGED <<lag, pass, seq_owner, life, queue, cb, dying, foreign, wsi, held, ending>>

(* lws_seq_destroy() up to the DESTROYED callback *)
DestroyBegin(s) ==
  /\ UserRuns /\ dying = None /\ cb # s
  /\ life[s] = "live" /\ MayDestroy(s)
  /\ life' = [life EXCEPT ![s] = "going"]
  /\ dying' = s
  /\ UNCHANGED <<suls, lag, pass, seq_owner, queue, cb, foreign, wsi, held, ending>>

Unlisted(s) == lws_dll2_remove(seq_owner, {i \in DOMAIN seq_owner : seq_owner[i] = s})
Unscheduled(list, sul) == lws_dll2_remove(list, Places(list, sul))

(* Mutant: the timeout of the sequencer stays scheduled. *)
DestroyEnd_KeepTimeout(s) ==
  /\ dying = s
  /\ dying' = None
  /\ life' = [life EXCEPT ![s] = "freed"]
  /\ seq_owner' = Unlisted(s)
  /\ suls' = Unscheduled(suls, Pending(s))
  /\ queue' = [queue EXCEPT ![s] = <<>>]
  /\ UNCHANGED <<lag, pass, cb, foreign, wsi, held, ending>>

(* and the rest of it, under the lock *)
DestroyEnd(s) ==
  /\ dying = s
  /\ dying' = None
  /\ life' = [life EXCEPT ![s] = "freed"]
  /\ seq_owner' = Unlisted(s)
  /\ suls' = Unscheduled(Unscheduled(suls, Timeout(s)), Pending(s))
  /\ queue' = [queue EXCEPT ![s] = <<>>]
  /\ UNCHANGED <<lag, pass, cb, foreign, wsi, held, ending>>

(* lws_seq_destroy_all_on_pt(), when the event loop is left for good *)
ContextDestroy ==
  /\ ~pass /\ dying = None /\ ~ending
  /\ ending' = TRUE
  /\ UNCHANGED <<suls, lag, pass, seq_owner, life, queue, cb, dying, foreign, wsi, held>>

lws_seq_destroy_all_on_pt ==
  /\ ending /\ dying = None /\ seq_owner # <<>> /\ MayDestroy(Head(seq_owner))
  /\ dying' = Head(seq_owner)
  /\ life' = [life EXCEPT ![Head(seq_owner)] = "going"]
  /\ UNCHANGED <<suls, lag, pass, seq_owner, queue, cb, foreign, wsi, held, ending>>

-----------------------------------------------------------------------------
(* another thread: going_down is read without the lock *)
ForeignChecks(s) ==
  /\ foreign = None
  /\ s \in Shared /\ life[s] = "live" /\ RoomFor(s)
  /\ foreign' = s
  /\ UNCHANGED <<suls, lag, pass, seq_owner, life, queue, cb, dying, wsi, held, ending>>

ForeignQueues ==
  /\ foreign # None /\ ~pass
  /\ lws_seq_queue_event(foreign, "other")
  /\ foreign' = None
  /\ UNCHANGED <<lag, pass, seq_owner, life, cb, dying, wsi, held, ending>>

(* the bound connection, from its protocol callbacks *)
WsiConnected(s) ==
  /\ ~pass /\ dying = None /\ ~ending
  /\ s \in Bound /\ wsi[s] = "none" /\ life[s] = "live" /\ RoomFor(s)
  /\ wsi' = [wsi EXCEPT ![s] = "open"]
  /\ lws_seq_queue_event(s, "WSI_CONNECTED")
  /\ UNCHANGED <<lag, pass, seq_owner, life, cb, dying, foreign, held, ending>>

(* wsi->seq is not cleared when the sequencer goes: users that destroy one *)
(* before its connection closed have detached the connection               *)
WsiClosed(s) ==
  /\ ~pass
  /\ wsi[s] = "open" /\ life[s] # "freed"
  /\ wsi' = [wsi EXCEPT ![s] = "closed"]
  /\ IF life[s] = "live" THEN RoomFor(s) /\ lws_seq_queue_event(s, "WSI_CONN_CLOSE")
                         ELSE UNCHANGED <<queue, suls>>
  /\ UNCHANGED <<lag, pass, seq_owner, life, cb, dying, foreign, held, ending>>

(* Mutant: only the next event is looked at. *)
lws_seq_check_wsi_Head(s) == queue[s] # <<>> /\ Head(queue[s]) = "WSI_CONN_CLOSE"

(* a close of the connection is waiting in the queue *)
lws_seq_check_wsi(s) == \E i \in DOMAIN queue[s] : queue[s][i] = "WSI_CONN_CLOSE"

-----------------------------------------------------------------------------
Service ==
  \/ ServiceBegin \/ ServiceEnd
  \/ lws_sul_seq_heartbeat_cb
  \/ \E s \in Seqs : \/ lws_seq_sul_timeout_cb(s)
                     \/ PendingBegin(s)
                     \/ \E n \in BOOLEAN : PendingEnd(s, n)
                     \/ DestroyEnd(s)

User ==
  \/ ContextDestroy
  \/ \E s \in Seqs : \/ lws_seq_create(s) \/ UserQueues(s) \/ lws_seq_timeout_us(s)
                     \/ DestroyBegin(s) \/ WsiConnected(s) \/ WsiClosed(s)

Others ==
  \/ ForeignQueues
  \/ \E s \in Seqs : ForeignChecks(s)

Next == Clock \/ Service \/ User \/ lws_seq_destroy_all_on_pt \/ Others

Spec == Init /\ [][Next]_vars

(* Time goes on, the event loop comes round again and again and callbacks  *)
(* return; another thread that is inside lws_seq_queue_event() leaves it.  *)
FairSpec ==
  /\ Spec
  /\ WF_vars(Clock)
  /\ WF_vars(Service)
  /\ WF_vars(lws_seq_destroy_all_on_pt)
  /\ WF_vars(ForeignQueues)

-----------------------------------------------------------------------------
TypeOK ==
  /\ suls \in Seq([sul : SulIds, us : Int])
  /\ lag \in 0 .. MaxLag
  /\ pass \in BOOLEAN
  /\ seq_owner \in Seq(Seqs)
  /\ life \in [Seqs -> {"none", "live", "going", "freed"}]
  /\ queue \in [Seqs -> Seq(Events)]
  /\ cb \in Seqs \cup {None}
  /\ dying \in Seqs \cup {None}
  /\ foreign \in Seqs \cup {None}
  /\ wsi \in [Seqs -> {"none", "open", "closed"}]
  /\ held \in [Seqs -> BOOLEAN]
  /\ ending \in BOOLEAN

(* The timer list stays sorted with each timer on it at most once, whatever *)
(* mixture of timers callbacks insert and remove during a pass.  The pass   *)
(* only ever looks at the head (sorted-usec-list.c) and still leaves none   *)
(* that was ripe when it began.                                             *)
TimersInOrder ==
  /\ \A i, j \in DOMAIN suls :
       i < j => suls[i].us <= suls[j].us /\ suls[i].sul # suls[j].sul
  /\ ~pass => \A i \in DOMAIN suls : ~Ripe(suls[i])

(* No timer of a freed sequencer is on the list, and no sequencer is freed *)
(* while its callback runs: the pass never calls into freed memory         *)
(* (lws_seq_destroy()).                                                    *)
NothingFreedIsUsed ==
  /\ \A i \in DOMAIN suls : suls[i].sul # Heartbeat => life[suls[i].sul[2]] \in {"live", "going"}
  /\ cb # None => life[cb] = "live"
  /\ foreign # None => life[foreign] # "freed"

(* The timer list is sound whatever callbacks do to it during a pass, and  *)
(* it only reaches sequencers that are there.                              *)
TimersAreSound == TypeOK /\ TimersInOrder /\ NothingFreedIsUsed

(* A sequencer that believes in its connection can ask whether it closed:  *)
(* lws_seq_check_wsi() is right although the close may be far back in the  *)
(* queue and events are handled late.                                      *)
CheckWsiIsRight ==
  \A s \in Seqs : held[s] /\ life[s] = "live"
                  => (lws_seq_check_wsi(s) <=> wsi[s] = "closed")

(* Every queued event is handled in the end, or its sequencer is destroyed *)
(* with it.  The pending timer is good for one event only, so it is the    *)
(* heartbeat that keeps a backlog moving.                                  *)
EventsAreHandled == \A s \in Seqs : []<>(queue[s] = <<>> \/ cb = s)
=============================================================================
