# TLA+ verification of libwebsockets

libwebsockets (lws) is a C library for event-driven networking: a service
thread waits in `poll()`, and callbacks tell the user of the library that a
connection was established, received, may be written or was closed. This
directory holds TLA+ models of the parts of it where the order of events
decides whether the code is right, the configurations that model-check them
with TLC, and proofs for all values of the constants, checked by TLAPS.

| Component | Model | Instance for TLC | Proofs |
|---|---|---|---|
| threadpool | `Threadpool` | `MCThreadpool` | `ThreadpoolMqttProofs` |
| websocket close | `WsClose` | `MCWsClose` | `WsCloseProofs` |
| poll loop, POLLOUT requests | `Pollout` | `MCPollout` | `PolloutProofs` |
| websocket transmit, output, buflist | `WsTx` | `MCWsTx` | `WsTxProofs` |
| ring buffer, lws-mirror plugin | `Ring`, `Mirror`; abstract: `TailQueues` | `MCMirror` | `MirrorProofs` |
| timer list, sequencers | `Sul`, `Sequencer` | `MCSequencer` | `SequencerProofs` |
| async dns | `AsyncDns` | `MCAsyncDns` | `AhPoolAsyncDnsProofs` |
| http/2 streams and credit | `H2` | `MCH2` | `H2Proofs` |
| header tables, peer limits | `AhPool` | `MCAhPool` | `AhPoolAsyncDnsProofs` |
| mqtt client streams | `Mqtt` | `MCMqtt` | `ThreadpoolMqttProofs` |

`PROJECT.json` lists the components, runs, theorems, findings and hazards, and
maps every definition of the models to the source lines it stands for. Source
paths below are relative to the repository. To repeat a run,
`tlc -config MCWsClose.cfg MCWsClose`; to check proofs, `tlapm WsCloseProofs.tla`.

## The system

### Parts, state, operations, interactions

- **Service threads and the poll loop** (`lib/core-net/service.c`, `pollfd.c`,
  `lib/plat/unix/unix-service.c`). A per-thread context (`pt`) has the table of
  pollfds with the `events` of each connection, `inside_poll`,
  `foreign_spinlock`, `foreign_pfd_list`, and an event pipe. Operations: the
  turn of the loop, `lws_callback_on_writable()` (any thread),
  `lws_cancel_service()` (any thread), rx flow control. *Hard:* other threads
  change `events` and flags without a lock while the loop is anywhere.
  *Correct when:* no request is forgotten or slept through, and the loop never
  waits on a flag that nobody clears.
- **Connection close** (`lib/core-net/close.c`, `lib/roles/ws/ops-ws.c`,
  `client-parser-ws.c`, `lib/core-net/wsi-timeout.c`). A connection (`wsi`) has a
  `wsistate` and the state before the close, buffered output, timers, and the ws
  role's control-frame buffer and flags. The same close function is called
  several times on the way down: flush, handshake, shutdown, kill. *Hard:* every
  event can come at every stage, both sides can begin at once, a peer may stop
  answering. *Correct when:* the callbacks come once, at most one CLOSE is sent,
  everything that waits has POLLOUT or a timer, and the close ends.
- **Threadpool** (`lib/misc/threadpool/threadpool.c`). Worker threads, a queue
  and a done list of tasks, each bound to a connection. It asks the poll loop
  for a WRITEABLE callback to sync with the service thread, and the close of a
  connection dequeues its tasks. *Hard:* threads, locks taken in part, statuses
  read without a lock, the service thread joining threads that wait for it.
  *Correct when:* a task is always in one place and freed once, the queue limit
  is exact, syncs end, tasks are reaped, destroy returns.
- **Timers** (`lib/core-net/sorted-usec-list.c`, `wsi-timeout.c`). A sorted list
  of callbacks run by the loop. *Hard:* a callback inserts and removes timers,
  its own too, while the pass over the list is under way. *Correct when:* the
  list stays sorted, a timer is on it once, and never one of a freed object.
- **Sequencer** (`lib/core-net/sequencer.c`). A queue of events per sequence, one
  handled for each scheduled callback, a timeout, a heartbeat for all, and
  sometimes a connection. Other threads may queue. *Hard:* the pending callback
  handles one event and is not scheduled again when others wait; a sequence may
  be destroyed from its own callback. *Correct when:* every event is handled or
  destroyed with its sequence, and a waiting close can be asked about.
- **State manager** (`lib/core-net/state.c`). Steps to a target state through
  notifiers that may veto or re-enter.
- **Output** (`lib/core-net/output.c`, `lib/core/buflist.c`) and the **sending half
  of the ws role** (`lib/roles/ws/ops-ws.c`, `ext/`). `lws_issue_raw()`, the list
  of unsent buffers, fragments, the extension that spreads one write over
  several POLLOUT events. *Hard:* a send stops at any byte, control frames and
  user writes come in between, a close comes at any moment. *Correct when:* the
  peer can parse all of it and nothing accepted is left behind.
- **Ring buffer** (`lib/misc/lws-ring.c`) and its user **lws-mirror**
  (`plugins/protocol_lws_mirror.c`). One writer, several tails; the slowest tail
  frees space; flow control for everybody when the ring is nearly full. *Correct
  when:* each tail reads what was written since it joined, in order, slots are
  freed neither early nor late, and the flow resumes.
- **Frame parser** (`lib/roles/ws/ops-ws.c`, `client-parser-ws.c`). A byte-wise
  state machine for frames, fragments, masks and control frames.
- **HTTP roles** (`lib/roles/http`, `h1`) and **peer limits**
  (`lib/misc/peer-limits.c`). The pool of header tables (ah), its waiting list,
  and the share of one IP address in it. *Hard:* tables are handed from one that
  closes to one that waits, which is deaf until then; records of peers are freed
  late. *Correct when:* nobody waits beside a table it may have, whoever waits
  is served, and no connection points to a freed record.
- **HTTP/2** (`lib/roles/h2`, the mux functions of `lib/core-net/wsi.c`). Streams
  on one connection, windows in both directions, and children that take turns
  at POLLOUT. *Hard:* SETTINGS, credit and data cross; a stream without credit
  stops asking. *Correct when:* both ends agree on every window, whoever can
  send has POLLOUT, and requests are answered.
- **mqtt** (`lib/roles/mqtt`). Streams that share one connection to a broker:
  packet ids, shared subscriptions with a count, PUBLISH in parts. *Hard:* a
  child closes half way; an answer nobody waits for ends the connection of all.
  *Correct when:* packets are not mixed, answers are expected, subscriptions
  last as long as somebody wants them, nobody starves.
- **Async dns** (`lib/system/async-dns`). Queries over UDP with retries, the two
  address families, a cache of counted results. *Hard:* answers are lost, late,
  duplicated, in either order. *Correct when:* results in use stay, counts are
  exact, and whoever waits has something that drives its query to an end.
- **Connect, adopt, vhosts** (`lib/core-net/connect.c`, `adopt.c`, `vhost.c`),
  **secure streams**, **dsh**, **context destroy**: further state machines,
  candidates below.

- **TLS, jose, platform ports, event library glue, codecs, plugins, examples**:
  wrappers, cryptography, I/O and users of the library.

### How the modelled parts meet

A worker of the threadpool cannot call into the poll loop: it sets
`wanted_writeable_cb` and wakes the loop by the event pipe, and the loop asks
for POLLOUT on behalf of the task. `Pollout` models the pipe, the wakeup and
the path from request to callback; `Threadpool` takes from it that a requested
callback comes some time (`writable`). `WsClose` in turn takes `pollout` as a
flag set by `lws_callback_on_writable()` and delivers the event some time or
never (it assumes nothing of the socket). The close of a connection is where
the threadpool's dequeue is called.

`WsTx` opens what `WsClose` takes as an outcome of a write (all, part or none):
the buflist and the frames in it. `Sul` is the timer list as an operator module,
which `Sequencer` extends; the timers of `WsClose`, `AsyncDns` and `Mqtt` are flags
that fire some time. `Ring` is extended by `Mirror`. `H2` and `Mqtt` both contain the
mux of `wsi.c` that lets children share POLLOUT, each with its own role around
it. `AhPool` composes the table pool with the accounting of peers, since a table
that changes hands is counted for both.

## The models

### Threadpool

State: the two lists (newest first, as the code links them), `queue_depth`,
`destroying`, the holder of `tp->lock`; per task the status, whether it still
has its wsi, `wanted_writeable_cb`, `outlive`, and how often it was freed; per
worker its place, its `pool->task`, and the locals of `lws_threadpool_worker_sync()`;
the place of the service thread; the pipe and the pending WRITEABLE callbacks.

A section under `tp->lock` is one step, except the end of a worker's task
(`MoveToDone`, `LeaveTask`), since `lws_threadpool_tsi_context()` walks the lists
without the lock and can see the middle of it. What the code reads or writes
without a lock is a step of its own: the status a worker sets before it calls
the task (`CallTask`), the walk (`ScanStart` to `ScanDoneTask`, with `stale` set when
it looked at a freed task), the status read in a callback
(`lws_threadpool_task_status`), the signal of `lws_threadpool_task_sync`.
`Acquire` to `LeaveTask` are the body of `lws_threadpool_worker()`;
`SyncEnter` to `SyncResume` are the sync with its timed waits; `Dequeue*`, reap,
`lws_threadpool_finish`, `FinishLoop`, `lws_threadpool_destroy` and `Joined` are the
service thread's side. As the component's own README asks, the user calls
finish, then destroy. A signal with nobody waiting is lost.

Not modelled: tasks bound to secure streams, several pools or service threads,
spurious returns of the condition waits, the dump functions. `queue_depth` is
saturated at zero in `FinishLoop`, where nothing reads it any more.

### WsClose

One established websocket connection, client or server, with or without TLS. A
step is one event delivered to it. A handler that asks for the close sets
`closing`; the close call is then the only step that can follow, as the code
makes it before it returns to the loop. History variables record the CLOSE
frames issued (`closes`), the payload chosen and sent (`wanted`, `told`) and the
types of frame issued after a CLOSE (`tail`).

`lws_close_free_wsi` is `__lws_close_free_wsi()` by its branches: `KeepFlushing`,
`FlushFirst`, `rops_close_via_role_protocol_ws`, `StagedClose` (the LRS_SHUTDOWN
stage, reached by TLS servers only, see [Observations](#observations-without-a-run))
and `JustKill`. `HandlePOLLOUT` is `lws_handle_POLLOUT_event()` with
`rops_handle_POLLOUT_ws()` in their order of priority: buffered data, our CLOSE,
the answer to a CLOSE or a PONG, a keepalive PING, the user. `Rx` is what the
two receive paths do with a CLOSE, PING, PONG or a refused message. `Event` is
the rest: end of file, hangup, TLS shutdown done, timers, validity checks,
`lws_set_timeout()` with KILL_SYNC or KILL_ASYNC, context destroy, user timers.
The socket takes all, part or none of a write, by choice.

Not modelled: permessage-deflate and other extensions, ws over h2, other roles
in `close.c`, the bytes of frames. A user callback makes at most one `lws_write()`
and returns nonzero if it fails, as the documentation asks. Branches of the
source that no state of an established ws connection reaches are left out.

### Pollout

One service thread with the `poll()` loop, and foreign threads that call
`lws_callback_on_writable()`; the user serialises calls for one connection. Every
read and write of a variable that both sides use is a step of its own: `ForeignAsks`,
`LookHandling`, `SetLeave`, `TakeSpinlock`, `CheckInsidePoll`, `AppendForeign`, `CancelService`,
`ForeignRead`, `ForeignWrite` are the foreign call; `Change*` is the same
`_lws_change_pollfd()` run by the service thread; `EnterPoll` to `DrainEnd` are
`_lws_plat_service_tsi()` around the wait; `HandlePOLLOUT` to `FinalLeave` are
`lws_handle_POLLOUT_event()`; `User*` is what a callback may do. `polled` is the
kernel's copy of the events, so a change during the wait has no effect until
the next call. `asked` is the history of requests not yet followed by a
WRITEABLE callback. `Smp` chooses whether `lws_pt_lock()` is a mutex
(LWS_MAX_SMP > 1) or nothing; `Flow` is the set of connections whose callbacks
use rx flow control.

`DirectChangeWakes` is about a change of the events made in the foreign call itself; a
request that goes to the foreign list can miss its wakeup (see
[Observations](#observations-without-a-run)), and only `RequestServed` speaks of it.

Not modelled: opening and closing of connections (the fds table is fixed), the
DROP_POLLOUT result that only the mqtt role returns (see `Mqtt`), external polling, other
event libraries, a failed malloc of a list entry, timer callbacks. The memory
barriers of the code are taken to order the steps of a thread.

### Ring, Mirror, TailQueues

`Ring` has `lws_ring` as a record and its functions as operators: create, insert,
count, consume with a tail, update of the oldest tail (which destroys the
elements it passes). `Mirror` is the protocol on top: `Established`, `Receive`,
`ReceiveDropped`, `Writeable(s, n)` (n elements until the pipe is choked),
`WriteFails`, `Timeout`, `Closed`, each one callback;
`__mirror_update_worst_tail` is the step that moves the oldest tail, resumes the
flow and sets the 3 s timeout. `TailQueues` is the abstract specification: one
queue per reader, a bounded fifo behind them. `ImplementsQueues` is the
refinement, with the queue of a session being what the ring holds from its tail
to the head.

Not modelled: several instances and their names, a failed malloc, the zero-copy
insert of the ring, several service threads.

### WsTx

The transmit path of one connection down to what the peer parses. A frame is a
header and at most one payload byte, so that a send may stop before, inside and
after it; a payload byte knows its message and whether it ends it. `UserOp` is
`lws_write()` from a WRITEABLE callback (text, continuation, final or not), `Pollout*`
are the POLLOUT events in their order (buffered data, PONG, the PING of the
keepalive, the draining extension, the user), `WriteDeflated`, `WriteSwallowed` and
`WriteFragment` are
`rops_write_role_protocol_ws()` with permessage-deflate, `lws_issue_raw` the send
with its buflist. `MaxBlind` bounds writes made without asking
`lws_send_pipe_choked()`. The peer is a parser of RFC 6455 frames (`PeerParses`, one
byte a step).

`z.left` says that the extension has input of the user's message left when its
output buffer is full. `PolloutPing` is the PING that falls into this time:
`rops_write_role_protocol_ws()` makes a continuation of it, and the input left is
replaced by the empty one of the PING (`z.lost`) or, in a build with asserts, the
process ends (`PolloutPingAsserts`).

Not modelled: the bytes of deflate, masks and lengths, tls retries, other roles.
The user's buffer is taken to live until the extension has drained it.

### Sul, Sequencer

`Sul` is the sorted list with `__lws_sul_insert` and the ripe head. `Woken` is the
list after the heartbeat went along `seq_owner`, a recursive function. In `Sequencer`
time is the lag of the list behind the clock; a pass begins, runs the ripe
callbacks one by one and ends, with the user's code between
(`PendingBegin`, `PendingEnd`), which may queue, set timeouts or destroy. `Foreign*`
is another thread in `lws_seq_queue_event()`: it reads `going_down`, then takes
the lock. `WsiConnected` and `WsiClosed` are the transport of a bound connection.
`lws_seq_destroy_all_on_pt` is the end of the context. `Racing` says whether users
destroy while another thread may be inside.

Not modelled: LWS_PLAT_TIMER, several service threads, the retry tables. What another
thread does under `lws_pt_lock()` is one step: that is a build with LWS_MAX_SMP > 1, or
one in which only the service thread queues.

### AsyncDns

Connections that resolve one name or a numeric address. `q` holds the queries,
`ent` the cache entries with their counts, `net` the requests that may still be
answered. Actions: a lookup (`QueryCached`, `QueryNumeric`, `QueryPiggyback`,
`QueryNew`), the retry timer (`lws_async_dns_sul_cb_retry`), the pass of the
WRITEABLE callback over the queries one by one (`callback_async_dns`, `Skip`,
`WriteRequest`, `WriteFails`), the answers (`FirstAnswer`, `SecondAnswer`,
`AnswerCname`, and `AnswerRefused` for a bad or duplicate one), the expiry of an
entry (`sul_cb_expire`) and closes. A lookup fails when there is no server or no
free transaction id; in the second case its connection stays on the list of a
query that nobody drives (`Leaked`). `Lost` is a connection whose query was freed
under it. `dangling` is the history of the three steps after which something points
to a freed entry, and which of them it was. `Rare` says which answers and callbacks
happen besides the usual: `bad` (does not parse), `deep` (too many CNAMEs), `requery`
(a callback told of the failure asks again). The passing run has all of them, the
violation none.

Not modelled: label decoding and the bytes of packets, lookups without a
connection, several names.

### H2

A server connection whose peer keeps to RFC 7540. `flight` are the frames of the
peer that have not been parsed, `part` the one being parsed; what the server
sends is with the peer at once. Frames: HEADERS, DATA, WINDOW_UPDATE, SETTINGS,
RST_STREAM, PING and their answers in the queue of protocol sends (`pps`).
`Pollout` is one POLLOUT event: a protocol frame first, then the walk over the
children (`turn`), each served, moved to the tail or dropped, then POLLOUT off if
nobody asks. A child leaves the walk by `lws_wsi_mux_sibling_disconnect`. `Serve*` is
what a stream does in its turn: begin the answer, send
part of a file up to its credit, stop when it has none, read a body and give
credit back. `DataWithMore` is the GOAWAY of a body that came in one read with other
frames. Numbers keep their widths by `MaxWindow` and `Wide`. `Split` lets a
frame come in two reads.

Not modelled: the client, upgrade from h1, ws over h2, CONTINUATION, priorities,
hpack, the preface.

### AhPool

`has`, `wait`, `deaf` and `inuse` are the pool; `ptr`, `live`, `reap`, `wsis`, `ahs` the
records of peers. `lws_header_table_attach` and `__lws_header_table_detach` (with
`Transfer` to an heir or `_lws_destroy_ah`) are the two ends; adoption is two steps
(`lws_get_or_create_peer`, `lws_peer_add_wsi`); `CloseHolder` and `CloseOther` keep the
order of `__lws_reset_wsi()`: the peer is forgotten before the table is given
back, so its table stays counted (`MaxLeaks` bounds by how much). Pipelined requests
keep the table.

Not modelled: the character parsers, h2 streams as holders, a client connection as
the heir of a table (`parsers.c:421`, which goes on connecting with it), several
threads (but for the culling of peers, with `Smp`).

### Mqtt

Streams (`Children`) on one connection (`nwsi`), from CONNACK on. `rops_handle_POLLOUT_mqtt`
is one event: PINGREQ, then the first child that asked and may write, PUBACK
before its callback; `WalkOn` is what follows. Children publish whole or in two
parts, publish again after three seconds, subscribe, unsubscribe and close. The
parser hands each answer to the child that waits for its id, or closes the
connection. A callback that is given a message may fail (`RxPublishFails`): the rest
of what was read is dropped, and the connection goes on. `tx` and `rx` are the wires,
`bsubs` and `bopen` the broker's view. `Behind[t]` are the topics whose name a closing
stream may find where it looks, 7 bytes into the name `t` (or behind its end);
`robbed` is the history of topics whose count was lowered that way. `Patient` says
that a stream waits for one answer before it asks again.

Not modelled: CONNECT, the bytes of packets, a PUBLISH that is split over reads,
MQTT 5 properties, QoS2. The build is one without asserts.

## Runs

Passing runs. `TypeOK` is part of each, by itself or as the first part of the
invariant named here.

| Run | Shows | Bounds |
|---|---|---|
| `threadpool` | `Placement`: an allocated task is on the queue, on the done list or with one worker, and is freed once. `QueueDepthExact`. `SyncEnds`, `QueuedTaskStarts`, `TasksAreReaped`, `DestroyReturns` | 2 tasks, 1 worker, queue limit 1, 1 sync try |
| `ws_close` | `CallbacksOnce`, `OneCloseFrame`, `NoPongAfterClose`, `SendArmed`, `TimerArmed`, `CloseEnds` | none: both roles, TLS or not, keepalive; the state space is finite |
| `pollout` | `RequestKept`, `DirectChangeWakes`, `SpinlockReleased`, `RequestServed` | 2 connections, one of which only uses rx flow control, 1 foreign thread, foreign list of at most 1 when a call begins |
| `ws_tx` | `PeerUnderstands`: whole frames, in order, with the right opcode and FIN, of whole messages unless a keepalive PING threw input of the extension away. `OutputIsSound`: what waits has POLLOUT, the header state is reset, a close follows the flush. `OutputDrains` | 3 bytes in the socket, 2 pieces of a deflated write, 1 blind write |
| `mirror` | `RingIsSound`: slots freed neither early nor late, flow and timeouts follow the room. `ImplementsQueues`: refinement of `TailQueues`. `FlowResumes` | 2 sessions, one with a peer that may stop reading, ring of 4, 2 messages |
| `sequencer` | `TimersAreSound`: the list is sorted, without duplicates and without timers of freed sequencers. `CheckWsiIsRight`. `EventsAreHandled` | 2 sequencers, 2 user events, heartbeat of 3, lag of 1 |
| `async_dns` | `CacheIsSound`: counts exact, no pointer to a freed entry, half an answer is not found, until one of three steps that leave such a pointer. `WaitersAreDriven`: who waits is on the list of a query that goes on, and that has a timer or a visit to come. `WaitsEnd` | 2 connections, 2 queries, 3 retries, 2 entries, 2 transaction ids; with and without IPv6 |
| `h2` | `CreditIsSound`: both ends agree on the windows and nothing exceeds them. `NobodySleeps`. `RequestsAreAnswered` | 2 streams, file of 3 and body of 1 units, windows 0, 2, 3, 2 frames in flight, 1 rare event |
| `ah_pool` | `PoolIsSound`: tables in use and connections of a peer counted exactly, its tables not counted short, records of peers live, limit kept. `WaitersAreListed`: nobody waits beside a table it may have, the deaf are on the list. `WaitersAreServed` | 5 connections, 3 of one address, 2 tables, limit 0 or 1, 1 table counted too many |
| `mqtt` | `WireIsSound`: packets whole, POLLOUT for who waits, answers expected. `SubscriberIsServed`: a topic in use stays subscribed and counted unless a close took from its count. `EveryoneIsServed` | 2 streams, 2 topics, one at the end of the other's name, 2 packet ids, 1 entry on a stream's own list, 1 message of the broker, 1 packet on each wire |

Why the bounds suffice to meet the cases: with two tasks and a limit of one, a
task runs while another is queued, an enqueue is refused, the end of a task
races with the service thread, and a sync can time out and give up; two workers
do not race with each other except under `tp->lock`, and for those the safety
properties are proved. In `Pollout` a request arrives while the service thread
handles the connection or changes the events of another one; that results hold
for more connections and threads is proved. Three bytes of socket room stop a send
before, inside and after a frame. A ring of four wraps, fills up and drains
while one tail lags. Two sequencers with two events make the backlog that only
the heartbeat moves. Two connections share a query, its results and the way they are
lost, or have one each, so that one drops the server under the other, takes the last
transaction id, or trims the entry the other is filling. Windows of 0, 2 and 3 make a
stream's credit zero, negative and positive again with a file of three under
way. Three connections of one address and two tables meet the limit, the full
pool, a table that changes hands and one that stays counted. Two streams share a
topic, leave and subscribe again, rob each other's count, and with two ids publish
again after a timeout.

Some liveness properties name the cases in which the code does not keep the
promise. `TasksAreReaped` excepts a finish that spins, a walk that met a freed
task, and a task that ended, had asked to outlive its wsi and was then dequeued;
`WaitsEnd` counts a connection whose query was freed under it among those whose wait
is over; `CloseEnds` a flush of buffered data with no timer; `FlowResumes` a slowest
session that was never given the timeout and one that joined while the flow was
off. They are described under [Observations](#observations-without-a-run).

Runs in which the code does not do what its comments say; each has an entry
under `findings` with the quotation:

| Run | Property | What happens |
|---|---|---|
| `async_dns_dup` | `NobodyIsLost` | with IPv6, the answer to a retry of the family that has answered destroys the query under the connections that wait for the other one |
| `mqtt_puback` | `PubackIsSent` | a stream that only listens gets a QoS1 message; POLLOUT is asked for the connection, no child asked for itself, so all are skipped and the PUBACK waits |

### Fairness

- *Threadpool.* A worker that can run runs (weak fairness per worker), a task
  function ends some time (strong, as it may go round many times before), the
  waits time out, and the service thread goes on with what it began and makes
  the callbacks that were requested. Nothing is assumed of the user: whether
  tasks are enqueued, dequeued, stopped, or the pool finished is free.
- *WsClose.* A close call that is pending is made, and a timer that stays armed
  fires although other events come first. Nothing is assumed of the peer.
- *Pollout.* Threads run; a thread that waits for the pt mutex gets it (strong);
  foreign calls do not hold the spinlock at each look of the service thread
  (strong); `poll()` returns at the latest after its own timeout (about 23 days);
  the peer goes on reading, so that a connection polled for POLLOUT again and
  again is reported (strong); and what the role itself sends first ends
  (strong). With the missed wakeup above, only the timeout of `poll()` makes
  `RequestServed` hold in some behaviours.

- *WsTx.* The peer reads, callbacks return, POLLOUT events are handled (the PING of
  the keepalive is one), and a socket that has room again and again takes something
  (strong).
- *Mirror.* Timeouts fire and CLOSED follows; only the sessions in `Reading` have a
  peer that always takes more.
- *Sequencer.* Time goes on, the loop comes round, another thread leaves the
  function it is in.
- *AsyncDns.* The UDP socket becomes writable, and a retry timer that has run out is
  served although callbacks that ask again come between (strong). Nothing is
  assumed of the network.
- *H2.* The loop serves POLLOUT, and POLLIN although POLLOUT is handled first
  (strong); the peer gives credit and sends the body it has credit for.
- *AhPool.* A connection with a table finishes or is closed by its timeouts
  (strong, since an adoption comes between). Nothing helps one that waits.
- *Mqtt.* Events are served, the parser runs, the broker reads. The validity timer may
  fire at any time; that it does is assumed only when nothing is on its way that
  would put it off (`Quiet`). Since it is minutes apart, not every POLLOUT is spent on
  a PINGREQ.

Deadlock checking is off for `WsClose`, `Sequencer`, `H2` and `Mqtt`, where a
behaviour really ends (a dead socket, a destroyed context, a closed connection
or all requests answered), and on for the others.

### Observations without a run

Each of these was met while modelling and, where a property or a value of a
constant is named, seen with TLC in the model.

*Threadpool*
- `lws_threadpool_finish()` walks on from a task it has just moved to the done
  list, so all but the first queued task can stay on the queue, although
  `lws-threadpool.h` says it removes everything. With both lists occupied it can
  swap the first tasks of the done list for ever, holding `tp->lock` (`FinishSpins`).
- A task that asked to OUTLIVE its wsi, ended and is then dequeued stays on the done
  list until the pool is destroyed: `lws_threadpool_dequeue_task()` only detaches it
  (`threadpool.c:842`), and nobody is left to ask for its status.
- A task with the OUTLIVE flag is set to STOPPING when its wsi closes, like any
  other; the component's README says it remains unstopped.
- The callback left behind by a timed-out sync reads SYNCING of a worker that
  was already signalled and runs together with the task (needs `SyncTries` 2); the
  README says the two are mutually exclusive.
- An unlocked STOPPING of `lws_threadpool_task_sync()` can overwrite the STOPPED of
  a task that has just ended. The invariants hold with it.
- `lws_threadpool_tsi_context()` can look at a task that was freed (`stale`).

*WsClose, WsTx*
- POLLOUT stays on after our CLOSE is sent, and the WRITEABLE callback is made in
  LRS_AWAITING_CLOSE_ACK, so data can follow the CLOSE (`tail` contains DATA),
  against the comment at `ops-ws.c:1331`.
- A PING that reaches a server overwrites the buffer in which the reason of its
  CLOSE waits (`told` differs from `wanted`); the client checks for this.
- KILL_SYNC removes the timer and then calls a close that may only begin a
  flush, which then has no timer; the same after a server answered a CLOSE with
  data still buffered. Only the peer's reading or hangup ends it.
- For a plain TCP server `shutdown()` sets `socket_is_permanently_unusable`, the
  condition that skips the LRS_SHUTDOWN stage.
- A second write without a look at `lws_send_pipe_choked()` is told the progress of
  the first; with `MaxBlind` = 2 `PeerUnderstands` fails. `README.coding.md` says lws
  enforces one write per WRITEABLE, but the check in the code is `if (0 && ...)`.
- A keepalive PING that is due while the extension drains is written as its
  continuation (`ops-ws.c:1316`, `1580`), although the comment at `ops-ws.c:1341`
  says that control packets can interleave. With input left,
  `assert(!priv->tx.avail_in)` of the extension
  stops the process; without asserts the rest of the message is thrown away and the
  peer gets a message that is well formed and too short (`z.lost`). The PING itself is
  not sent.
- deflate keeps a pointer into the user's buffer while it drains, and
  `tx_draining_ext` is cleared at a close without leaving the list of draining
  connections. Memory of the user and that list are not modelled.

*Pollout*
- The service thread's own change of `events` clears `foreign_spinlock` while a
  foreign call holds it, which then appends after the drain; if its wakeup is
  read with an earlier one, `poll()` sleeps with the request on the list until
  something else wakes it.
- A foreign request and `__lws_rx_flow_control()` read, then write, `pfd->events`:
  the request can be lost. The properties leave such connections out.
- With LWS_MAX_SMP 1, the default, `lws_pt_lock()` is nothing and two threads walk
  `foreign_pfd_list`; `RequestKept` then fails with two connections.
- A list entry keeps the index of the fds table; a connection that closes before
  the drain leaves it to another one.

*Mirror*
- The 3 s timeout is set only when the oldest tail moves, so a session that never
  reads at all from the start is not dropped, although a comment says so.
- A session that joins while the flow is off has its rx on and is not asked to
  write. ESTABLISHED changes the list of sessions under the vhost lock only.

*Sequencer*
- Two events queued before the pending timer fires leave a backlog of one that
  never shrinks: each heartbeat adds an event and takes one. `lws-sequencer.h` says
  one is delivered each time around the loop.
- `going_down` is read before the lock is taken: with `Racing` another thread uses a
  freed sequencer. `wsi->seq` is never cleared. A cancelled timeout leaves a
  TIMED_OUT that is already queued; LWSSEQTO_NONE (0) fires at once rather than
  cancel. A foreign `lws_seq_queue_event()` does not wake `poll()`.

*AsyncDns*
- A positive result is never found again: the name is looked for where the
  address is. With IPv6 `incomplete` is cleared on the wrong object.
- A query that gives up drops the server, which another query then uses through
  a NULL pointer (two query objects reach "crashed"). The tid is compared before
  its lowest bit is cleared, so two queries can share one.
- Three steps leave a pointer to an entry that is gone (`dangling`). An entry expires
  although connections keep its results, against `README.async-dns.md:51`. The entry
  that a query fills between its two answers counts as unused: a numeric lookup, or
  the answer of another query, trims it. A CNAME in the second answer leaves
  `q->last` in the results of the first. What follows a use of one is undefined and
  not followed.
- An answer that does not parse, a CNAME too deep, and a duplicate free the query
  under the connections that wait; a callback told of the failure that asks again
  joins the query that is about to be freed. These connections are never told.
- When no transaction id is free the new query is neither driven nor freed, and its
  connection stays on its list (`Leaked`).
- A cache whose oldest entry is in use grows. The first request goes out only
  after the first retry delay.

*H2*
- What `content-length` leaves of a body is compared with everything that was read, the
  frames behind the body too (`http2.c:2026`): a last DATA that comes in one read
  with another frame ends the connection with "More rx than content_length told".
- SETTINGS can make a window negative; (uint64_t) of it makes the overflow check
  of WINDOW_UPDATE fire and the stream is reset, though the sum is small.
- Body that arrives while the request waits to be acted on does not lower the
  estimate of the peer's credit, so with a body longer than the first credit
  the upload stalls (`BodyLen` above `OurCredit`).
- SETTINGS are acknowledged at the frame header and applied at its end: with
  `Split` data goes out by the old window after the acknowledgement.
- A stream that the peer reset keeps its child, which goes on sending and counts
  as open. A child closed by us tells the peer nothing, and data in flight for
  it ends the connection. Streams with credit of their own but none of the
  connection spin on POLLOUT. h2c upgrade gives stream 1 our window instead of
  the peer's. END_STREAM on DATA is not recorded; rx flow control is ignored.

*AhPool*
- A connection that closes with a table forgets its peer first, so `count_ah`
  stays: after `ip_limit_ah` such closes the address gets no table, and its record
  is never freed. `WaitersAreServed` is therefore stated for limit 0.
- With several threads (`Smp`) a peer can be culled while a connection is adopted, and
  `PoolIsSound` fails; the run and the theorems are for one.
  A client that pipelines without end keeps its table. An h2 stream that gets no
  table ends its whole connection.

*Mqtt*
- A second request before the answer to the first (`Patient` FALSE), the PUBACK of a
  message that was sent again under a new id, and an answer for a child that has
  closed are "unsolicited": they end the connection of all.
- A child that closes within a PUBLISH leaves `inside_payload` set: nobody sends, the
  PINGREQ included, until the validity check hangs up.
- On close of a child its topics are looked up by `&s[1]`, 7 bytes into the name on a
  64-bit build, or in what follows a shorter one. So its own counts are not given
  back and the `uint8_t` wraps; and the close of a stream with `sensor/temp` lowers the
  count of `temp`. Two streams use that; when one gives it up, UNSUBSCRIBE goes out
  and the other hears no more (`SubscriberIsServed` excepts such topics, `robbed`).
- A callback that fails on a message makes the parser return 1 (`mqtt.c:1284`), which
  `ops-mqtt.c:158` does not take for an error: the rest of the read is lost, no
  PUBACK is sent, and the parameters of the packet stay, which the next PUBLISH
  meets with an assert (`mqtt.c:573`).
- Unsubscribing leaves the topic on the child's
  own list; the first entry of the list is never removed; the second stream is
  told SUBSCRIBED before SUBACK; the id wraps to 0.
- DROP_POLLOUT clears a `leave_pollout_active` that a foreign thread set late
  (`service.c:197`); the model has no foreign threads.

## Proofs

Every theorem but one is of the form `Spec => []P`, for all values of the
constants that satisfy the named assumption of the model; `ImplementsQueuesHolds`
is the refinement. Every invariant of a passing run is stated by a theorem, alone
or as a part of a stronger one. Each rests on an inductive invariant `IInv`:
`Init => IInv` and `IInv /\ [Next]_vars => IInv'` are shown with one lemma per
action or group of actions, and `P` follows from `IInv`. TLC finds each `IInv` true
on the instance of its run, but for that of `WsTx`, which it cannot evaluate: its
quantifiers range over all states of the peer. Two modules hold the proofs of two
components each; the specifications of `AsyncDns` and `Mqtt` therefore have names
of their own (`DnsSpec`, `MqttSpec`).

Some theorems have a hypothesis on the constants of the model. The run of the
model satisfies it, and it is needed: without it TLC finds a counterexample to
the property of the theorem (but for lists that repeat a topic, where none was
found on the instance with two streams). The hypothesis says in which
circumstances the code keeps its promise.

| Hypothesis | Theorems | Meaning | Without it |
|---|---|---|---|
| `Smp` (`Pollout`) | `RequestKeptHolds`, `DirectChangeWakesHolds` | a library with pt mutexes | a foreign call and the service thread overwrite each other's events |
| `~Smp` (`AhPool`) | both | one service thread | a peer is culled while it is being adopted to |
| `~Racing` (`Sequencer`) | `TimersAreSoundHolds` | nobody is inside `lws_seq_queue_event()` when its sequencer is destroyed | a freed sequencer is used |
| `MaxBlind <= 1` (`WsTx`) | both | at most one `lws_write()` per callback without `lws_send_pipe_choked()` | the second write is taken for the rest of a frame that was cut, and goes out without a header |
| `~Split` (`H2`) | `CreditIsSoundHolds` | a frame is read whole | SETTINGS are acknowledged before they are applied, and more is sent than the peer accepts |
| `Patient` (`Mqtt`) | `WireIsSoundHolds` | a stream waits for its answer before it asks more | the answer to the first request is unsolicited |
| `Cardinality(Children) < RefMod`, no topic twice in a list (`Mqtt`) | `SubscriberIsServedHolds` | fewer streams in the life of the connection than `ref_count` can count | counts are not given back on close, wrap, and the next stream to leave takes the topic from the others |

- **`ThreadpoolMqttProofs`**, threadpool: `TypeCorrect`, `PlacementHolds`,
  `DepthHolds`, for any sets of tasks and workers, any queue limit and number of
  tries. `Placement` is not inductive alone: a worker in the middle of the end
  of its task has put it on the done list and still points to it, and what the
  service thread holds in a local must exist. `Links` says which task a worker
  has at each place, who holds `tp->lock` there, and what the holder left on the
  lists. Lemmas about the edits of lists (push, unlink, take the tail, swap) say
  which tasks are on the result and that it has no duplicates; a lemma about
  lengths gives `DepthHolds`.
- **`WsCloseProofs`**: `TypeCorrect`, `CallbacksHold`, `OneCloseFrameHolds`,
  `NoPongHolds`, `SendArmedHolds`, `TimerArmedHolds`, for any roles, TLS and
  keepalive. `Handshake` relates the state to what is on the wire: nothing sent
  before the states that send, an answer due only where it was not sent, and
  `pre_close` set once anything was. `Armed` is `SendArmed` also while a close
  call is pending.
- **`PolloutProofs`**: `TypeCorrect`, `RequestKeptHolds`,
  `DirectChangeWakesHolds`, `SpinlockReleasedHolds`, for any sets of connections
  and foreign threads, the second and the third assuming `Smp`. `RequestKept`
  counts a foreign call that has not returned as keeping the request, which is
  not inductive: a call past its last effect keeps nothing. `StrongKept` counts
  a call only while its mark is still to come; `StrongWakes` does so for the
  wakeup. `Handling` and `Reported` say when `handling_pollout` may be set and
  that a reported POLLOUT is still among the events; `Drained` says that the
  passed part of the list was applied. This one and the two strong ones are
  stated under `Smp`, the others hold without; `ChangeShape` that the service
  thread drops POLLOUT only on its way to the callback.
- **`AhPoolAsyncDnsProofs`**, header tables: `PoolIsSoundHolds`,
  `WaitersAreListedHolds`, for any pool, any connections and peers and any
  `ip_limit_ah`, assuming `~Smp`. That no peer holds more tables than its limit
  is not inductive, as the code compares its own `count_ah`: `Counts` says that
  this count is no less than the tables the peer holds (a close leaves it too
  high) and within the limit, and that a record counts its connections. `Places`
  keeps the record that an adoption found. The invariant is split in `PoolOK`
  and `PeersOK`, since a detach with its heir moves only the tables and an
  adoption only the peers. `HeirLemma` is the heart of `WaitersAreListed`: the
  last of the list who may have the table gets it, and if there is none, nobody
  who stays waits in vain.
- **`AhPoolAsyncDnsProofs`**, async dns: `WaitersAreDrivenHolds`,
  `CacheIsSoundHolds`, for any connections, queries, retries, recursions, sizes of the
  cache and values of `Rare`, without a hypothesis. Both rest on `ListsOK`: the waiting
  list has each query once and the cache each entry, a request under way has the tid
  of a query that is there, and a query that goes on has at most one of two families
  answered. For the first, `BoundOK`, `WaitedFor` and `DrivenOK` are followed through
  every step that frees a query: it moves its connections away, and a step that takes
  the timer or the visit of a query leaves it the other. For the second, `CountsOK`
  says that a count is the number of connections that keep the results, `HoldOK` that
  these wait for nothing and what they keep is there, and `FillOK`, which
  `CacheIsSound` does not have, that the entry a query fills between its two answers
  is in the cache, incomplete and with a count of 0. The last two
  are stated while nothing dangles; that the history is set by every step that would
  break one of them is what the proof shows. `AddLemma` says what a new entry leaves of the cache.
- **`ThreadpoolMqttProofs`**, mqtt: `WireIsSoundHolds` (assuming `Patient`),
  `PacketsAreWhole`, `SubscriberIsServedHolds`, for any streams, topics and
  lengths of messages. `BaseInv` needs no hypothesis: `WholeOK` says of every
  packet on the wire whether it may follow the one before, and that the
  connection and the child remember the PUBLISH that is only partly sent;
  `ListOK` that the list has the open children, and that only they ask or wait;
  `ArmedOK` that who asks has POLLOUT. `WireInv` adds that a child waits for one
  answer at a time (`ModeOK`), that each id under way is the one its child waits
  for or one it has given up for a later one, and that no two are the same
  (`AcksOK`, `IdsOK`). `SubsInv` is about counts: that of a topic is at least
  the number of streams that use it and at most those and the ones that have
  closed, which never give theirs back, for every topic that no close has robbed
  (`LostRest` says what a close leaves of the list); and an entry that stands behind another
  of the same topic has count 0, because a topic given up stays on the list
  until UNSUBACK and may be asked for again before.
- **`MirrorProofs`**: `RingIsSoundHolds` and `ImplementsQueuesHolds`, for any
  `Count`, sessions and messages. Everything is said in distances to the head
  (`Dist(a, b) = (b - a) % Count`): the arithmetic of `Wrap` is a handful of
  lemmas, after which a step adds or subtracts. `RingOK` says that the occupied
  slots hold messages and the others nothing; `TailsIn` that each tail is
  between the oldest tail and the head; `Reclaimed` that the oldest tail is that
  of some session unless one that is dying held it back; `Absent` is what
  joining needs. For the refinement `From(ring, t)` is the sequence from a tail
  to the head; lemmas say what insertion, consumption and the move of the oldest
  tail do to it, and each action of `Mirror` is a join, publication, delivery or
  departure of `TailQueues`, or a stutter.
- **`SequencerProofs`**: `TimersAreSoundHolds` (assuming `~Racing`) and
  `CheckWsiIsRightHolds`, for any sequencers, periods and queue lengths.
  `ListOK` is the sorted list without duplicates, with only timers of sequencers
  that are there and, outside a pass, none that is ripe; lemmas say what
  insertion, removal, the heartbeat and a new pass keep of it. The place of
  insertion is a `CHOOSE`, which exists because a least position does
  (`LeastOf`); the heartbeat is a chain of insertions that keeps the list
  (`AfterExists`, `WokenList`). `SeqOK` says what the queue knows of the
  connection: a close that was queued is the last word on it, and a callback
  that is told of the close takes the hold away.
- **`WsTxProofs`**: `PeerUnderstandsHolds`, `OutputIsSoundHolds`, assuming
  `MaxBlind <= 1`, for any sizes of buffer and any number of chunks. That the
  peer is sane is not inductive: it depends on what is still on the wire and in
  the buflist. `PeerOK` says that there is a path of sane states of the peer
  over the wire and then the segments of the buflist, and `Ends` in which state
  it leaves the peer, given the flags of the connection (`inside_frame`, the
  draining extension, the first fragment still to come). `Kept` is a second invariant:
  a message that ends has all its payload unless a PING threw some away. Paths are joined and
  split like sequences (`PathConcat`, `PathSplit`, `PathHead`), so that a
  partial send cuts one in two, whichever byte it stops at. `Flags` relates the
  flags to the buflist.
- **`H2Proofs`**: `CreditIsExactHolds`, `CreditIsSoundHolds` (assuming
  `~Split`), `NobodySleepsHolds`, for any number of streams, any windows and any
  frames in flight. The invariant is an account. `ConnOK`: the window the peer
  gave to the connection is `tx_cr` and the WINDOW_UPDATEs that are on their
  way; `StreamsOK`: the same for each stream, relative to the initial window
  either end goes by, together with the body that is still to come and, for a
  stream that is just opened, where its HEADERS are in the line. It is broken
  and mended by SETTINGS, and `SettingsOK` says in which of four phases these
  are: none; in flight; read as far as the header, with the acknowledgement
  queued; applied and not yet acknowledged. With `Split` there are two more,
  acknowledged and not yet applied, without and with others in flight. The
  account is exact in all of them; whole frames exclude the last two, and then
  nothing is sent while the ends go by different windows. The frames of a kind
  are counted by the cardinality of their places (`Matching`), and lemmas say
  what a frame that is sent or read does to each count. `ChildOK` has the part
  of `NobodySleeps` that a stream can break, and `TurnOK` the part of POLLOUT.

The library's induction theorems cannot be used, as they take an operator as a
parameter. Where an induction over a list is needed the proofs take the least
number for which something fails, by a lemma on least numbers that is itself
proved from the well-ordering of the naturals as a set.

Model-checked only:

- the liveness properties, as the prover handles neither fairness nor ENABLED;
- the violations, which are single counterexamples.

## Plan

Models still to write:

1. `StateManager`: steps, veto and re-entrance.
2. Client connect states, and what a failure in each of them tells the user.
3. `WsParser`: frames, fragments and control frames against a reference
   definition on short inputs.
4. Secure-stream states against the retry timer, dsh, staged context destroy
   with the libuv close, diskcache.

## Not modelled, and why

- TLS wrappers and jose: cryptography and calls into other libraries; the tls
  shutdown is an outcome in `WsClose`.
- Codecs (hpack, deflate, base64, json) and the character parsers of http headers
  and urls: long data, little state.
- Platform ports and other event libraries: they repeat the unix loop or wrap
  I/O.
- Examples, test programs, `lwsws` and the plugins other than lws-mirror: users of
  the library. `win32port` holds vendored zlib and helpers.
- Secure streams, the state manager, dsh, client connect and the staged context
  destroy: within reach, see the plan.
- Allocation, vfs, dll2, logs: leaf helpers. Failure of an allocation is not
  modelled.
