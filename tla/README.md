# TLA+ verification of FreeUnit

FreeUnit is an application server: a main process, a controller that keeps the
configuration, a router whose threads ("engines") speak HTTP, and application
processes that link `libunit`. The parts talk through ports (datagram sockets
with shared-memory queues beside them) and shared-memory segments. What is hard
in this code is not the HTTP parsing but the dispatch between processes that
share memory, run at their own pace and die at any instruction. That is what
this directory models.

## The parts of the system

| part | state | operations | hard behaviour | what makes it correct | module |
|---|---|---|---|---|---|
| numeric circular queue (`nxt_nncq.h`, `nxt_app_nncq.h`) | head, tail, entries in shared memory | enqueue, dequeue by compare-and-set | interleaving of processes, 32-bit wrap, retries | linearizable FIFO, no index lost or doubled | `Nncq`, `Fifo`, `NncqProof` |
| application queue (`nxt_app_queue.h`) | two circular queues, items with a tracking word, one-wake flag | send, receive and claim, cancel | claim against cancel, slot reuse, doorbells | a request runs at most once, no lost wake-up | `AppQueue` |
| router, dispatch (`nxt_router.c`) | requests waiting for an acknowledgement, requests to resend, process counts | send, retract, acknowledge, sweep after the last death, resend, start, idle and start timers | engines race; workers die, start late or not at all | nothing runs twice, nothing is stranded, counts add up | `RouterApp` |
| libunit (`nxt_unit.c`) | contexts, ports, requests, mapped segments | receive, run, reply, quit, detached work | one context per thread over shared port and own port | drains before it sleeps; order of messages kept | `AppQueue`, `PortQueue`, `UnitShm` (partly) |
| port queue (`nxt_port_queue.h`) | queue, nitems, socket beside it | send, read | queue and socket of one sender overtake each other | order per request, no lost wake-up, all arrives | `PortQueue` |
| port socket, writing (`nxt_port_socket.c`) | list of unsent messages, write event, owed markers | send, write event, re-arm, cancel, error | several engines write, one has the event | each message ends once, nothing left unsent | `PortWrite` |
| port RPC (`nxt_port_rpc.c`) | registrations by stream and by peer | register, answer, cancel, remove peer | death of the peer races its answer | a handler gets exactly one last message | `Control` (partly) |
| shared memory (`nxt_port_memory.c`, `nxt_unit.c`) | chunk bitmap, out-of-memory flag, limit | get, free, announce, acknowledge | two processes on one bitmap, no common lock | a chunk has one owner, a waiter is woken | `UnitShm` |
| controller (`nxt_controller.c`) | configuration, waiting requests, flags of what is in flight | change, list, store, delete, restart | change, store and restart of the router together | one change at a time, stored = applied = listed | `Control` |
| main process (`nxt_main_process.c`) | processes, stores and their child | start, reap, restart, store | death between two steps of a store | every request answered, disk agrees | `Control` (partly) |
| router, configuration (`nxt_router.c`) | queues of listeners, engines, joints, listen sockets | apply, fail, post jobs, release | engines leave at their own pace, connections outlive listeners | no use after release, removed port free, kept port served | `Listeners` |
| connections (`nxt_conn_accept.c`, `nxt_h1proto.c`) | listen events, connections, references of requests | accept, handshake, request, free | the last connection closes the listener | references balance | `Listeners` (partly) |
| event engine (`nxt_event_engine.c`, `nxt_timer.c`, `nxt_work_queue.c`) | queues, timers, posted work | post, run | posts from other threads | | steps of the other modules |
| HTTP parsing, routing, WebSocket, upstreams, containers, configuration language, isolation, TLS, language modules | | | sequential or external | | none |

How they interact: an engine turns an HTTP request into a message in a shared
memory segment and sends a 31-byte item through the queue of the application's
*shared port*, with a doorbell datagram when a worker may be asleep. A worker
context takes the item, claims it with the tracking word and answers over the
port of the engine. The router retracts a request with the same word. When the
last worker dies, every engine decides what became of its requests before a
replacement starts.

## Modules

`Nncq` models `nxt_nncq.h` and `nxt_app_nncq.h`. Every load and compare-and-set
is an action; the locals of a call are `th[p]`. The two headers differ in how a
cycle is counted: `nxt_app_nncq.h` counts modulo the number of cycles, `nxt_nncq.h`
truncates to 16 bits, which is `CycleRange` here. `outside` is the other queue of
the pair: the code never enqueues an index it did not dequeue from there.

`Fifo` is the abstract specification that `Nncq` implements: a call takes effect
in one step between its start and its end, and gives up only after others made
progress. The linearization points are the successful compare-and-set of an
entry (enqueue), of the head (dequeue) and the load of an entry of the previous
cycle (empty).

`AppQueue` models `nxt_app_queue.h` with its users. `eng[e]` is a send in
progress (`nxt_router_app_queue_send`, `nxt_app_queue_send_bound`), `rdr[r]` a
receive (`nxt_app_queue_recv_claim`, `nxt_unit_app_queue_recv`,
`nxt_unit_shared_port_recv`), `req[s]` what the router believes of a request:

| `req[s]` | in the router |
|---|---|
| new, sending | not sent, or its send is running |
| queued | in `ack_waiting_req`, message in the queue |
| acked | the worker answered REQ_HEADERS_ACK |
| retracted, taken, failed | answered: the retraction won, a worker was first, the send failed |
| parked, resend | in `requeue_req`; its resend is posted |

The circular queues inside are sequences, which `Nncq` justifies; what callers
can see of the difference, a tail that lags one position behind, is kept. The
depth that a reader computes (`tail - head`) is two separate loads. A context dies
(`Crash`) and is reported (`PortClose`), or its prototype dies: then main tells it
to quit and reports it gone while it runs (`PortCloseRunning`,
`nxt_main_process.c:1990`). Such a context is in `orphans`; it reads the shared queue
and claims, during the sweep and beside a replacement, until it quits
(`OrphanQuits`) or dies.

`RouterApp` models `nxt_app_t` and everything in `nxt_router.c` that changes it.
Here the message of a request is one fact (`req[r].wk`: queued, taken,
acknowledged), because `AppQueue` justifies that a claim and a retraction
exclude each other; what is in detail is the accounting.

| variables | in the code |
|---|---|
| `att[a]` | a start attempt, then the worker that came of it: posted, waiting for a prototype, START_PROCESS queued or sent, expired, registered, reaped, reported gone while it still runs |
| `processes`, `pending`, `unaccounted`, `protoReqs`, `hash`, `active` | the counters of `nxt_app_t` |
| `eco` | `spare_ports`, `idle_ports`, `idle_processes`, `detached_processes` and the counts of every port |
| `adj`, `timer` | `adjust_idle_work` is queued, the idle timer is armed |
| `req[r]`, `ackq`, `reqq`, `requeue` | `nxt_request_rpc_data_t` and the work posted for it, `ack_waiting_req`, `requeue_req`, `requeue_pending` |
| `now`, `draining` | a handler of the main thread, or the loop of `nxt_router_app_start_failed()` of any thread, that is between two critical sections |
| `use`, `free`, `conf`, `gen`, `crashed` | `use_count`, the posted free, the configurations that hold the application, `generation`, a thread used the unmapped queue of a closed port |

An action is a critical section under `app->mutex` with what its thread does
next to its own state. Where another thread can come in between and it matters
(reaping in the idle timer, answering the requests of a failed start, a cohort
that is replayed, the ports of one process that are closed one by one), the
handler is several actions. Three handlers with several sections are one action:
registration of a worker (`WorkerReady`: no engine can have an acknowledgement
of a worker before PORT_ACK), parking and sending of a request (`PortGet`,
`Resend`: the sweep's handler runs on the same engine, so after the send), and
the abandonment followed by the unlink (`AppTimeout`).

`Events` chooses what may happen in an instance, so that each run explores one
kind of trouble to the end. Where workers die, `Atts` is larger than
`MaxProcesses`: a worker that still has to exit must not use up the name that
its replacement needs.

`PortQueue` models the port of a router engine as workers write to it. A request
of `libunit` sends its messages through the queue or, when one does not fit,
through the socket; a marker in the queue says "a datagram
comes here". `req[r]` is the request (`queue_state`, `queue_pos`, the step of
`nxt_unit_port_send_impl`), `rdr` the reading engine
(`nxt_port_queue_read_handler`, with `from_socket` and the suspended message).
`head` and `tail` are counters modulo `Wrap`; a request leaves the queue for the
socket only when its last item is out of the window (`Taken`, `Drain`). A process
may be killed at any step.

| action | in the code |
|---|---|
| `ReqSend`, `TakenHead`, `Drain`, `DrainFails` | `nxt_unit_req_send`, `nxt_unit_req_queue_drain`, `nxt_port_queue_taken` |
| `QueuePublish`, `QueueTail`, `QueueCount`, `QueueOverflow` | `nxt_port_queue_send_pos`: the entry, the tail, `nitems`; a full queue |
| `SendBell`, `SendDatagram`, `SendDatagramFails` | `nxt_unit_port_send_impl`, `nxt_unit_sendmsg` |
| `ReadEvent` .. `ReadMarked`, `Recv...` | one turn of the read handler: doorbell, item, marker, datagram, suspension |

`PortWrite` models the writing side of `nxt_port_socket.c`: an inline send of any
thread (`SocketSend`, `Answer`), the write handler of the owner (`Handler...`),
what both share (`SendOk`, `Sent...`, `Again...`, `InsertTail`, `Cleanup`), the
owed READ_QUEUE markers (`Announce...`), the re-arm posted to the owner
(`Rearm...`, `RetryLater`, `TimerFires`), cancellation and the error handler. A
step is a critical section of `write_mutex`, a system call, or an access to one
of the words that threads share without it.

`Control` composes controller, router and main. A step is the handler of one
message, signal or client request; the controller's state is one record that a
handler changes, with the messages it sends. `Ctl...` actions are handlers of
the controller, `Rtr...` of the router, `Main...`, `Store...` and `Reap...` of
main and its store child. `disk` is the state directory; a configuration is the
set of changes in it, which is enough to tell which one runs, is stored or is
listed. Registrations of `nxt_port_rpc.c` are explicit, because the removal of a
dead peer and the answers race.

`UnitShm` models the memory that flows from a worker to the router. `Scan...`
and `Undo` are the loop of `nxt_unit_mmap_get`, one load or compare-and-set of the
bitmap at a time: a segment passed over (`ScanPass`), a chunk taken (`ScanTake`), a
busy chunk before a run (`ScanBusy`) or at its end (`ScanRunEnds`), a run that is
too short given back chunk by chunk (`Undo`). `Flag`, `ScanEnd`, `NewMmap`,
`SendMmap` are the rest of it and `nxt_unit_new_mmap`, under `outgoing.mutex`;
`WaitAck`, `Retry`, `ReadAck` the wait at the limit; `EngineRecv`, `Complete`,
`CompleteAck`, `OosmHandler`, `Broadcast` the router. The bitmap is touched by both
sides without a lock.

`Listeners` models how configurations replace one another in the router.

| state | in the code |
|---|---|
| `conf` | `tmcf` with its `count`, the engines, what is applied |
| `mem.next`, `mem.prev` | the links of `router->sockets` and the five static queues, as `nxt_queue.h` leaves them |
| `mem.use`, `mem.rt`, `mem.refs`, `mem.live`, `mem.fd` | counts of socket configurations, configurations and listen sockets, what is not freed, the descriptors |
| `eng[e].jobs`, `.lev`, `.joint` | work posted to an engine, its listen events, its joints |
| `conn[c]` | a connection: its listen event, the joint of its request, the joint its TLS connection holds |

`ConfStart` is `nxt_router_conf_start` up to the first wait; `BindNext`, `Bound`,
`BindFailed` the sockets asked from main; `ApplyPost` creates engines and jobs;
`Work` runs a job (`CreateJob`, `UpdateJob`, `DeleteJob`, `QuitJob`);
`CloseTimer` and `EventRelease` close a listener that drains; `ConfWait` counts
the acknowledgements.

`NncqProof`, `AppQueueProof`, `RouterAppProof`, `RouterAppIdleProof`,
`UnitShmProof`, `PortQueueProof`, `PortWriteProof` and `PortArmProof` hold the
theorems.

## Runs

| run | question | properties |
|---|---|---|
| `nncq` | are the circular queues FIFO, through the wrap of the index and with a truncated cycle? | `QueueSound`, `Linearizable` |
| `app_queue_one_live` | one reader that never times out, doorbell by flag: is every request served? | `DoorbellHeard`, `QueuedServed` |
| `app_queue_crash` | two readers, doorbell by position; deaths at every step, readers that outlive their prototype, sweep and resend | `TypeOK`, `SlotsExclusive`, `ClaimXorRetract`, `SlotsLost`, `RunsOnce`, `HeardUnhurt` |
| `router_starts` | expired, failed, late and lost starts, deaths, cohorts, restarts, two contexts | `SlotsAgree`, `WithinMax` |
| `router_requests` | client close, both deadlines, full queue, sweep and resend, removal from the configuration with work in flight | `UseAgree`, `NotStranded`, `FreeClean` |
| `router_idle` | idle timer, detached work, WebSockets, abandoned requests | `TypeOK`, `IdleAgree`, `IdleWatched` |
| `router_live` | is every request answered although starts fail or never report? | `Answered` |
| `port_queue` | two processes answer through queue and socket of one port, with a kill or a refused datagram, across the wrap | `Ordered`, `Woken`, `Delivered` |
| `port_write` | two engines write; the socket fills, memory runs short, the peer dies | `Accounted`, `WriteArmed`, `MarkerArmed` |
| `control` | changes, stores and deletions while controller, router and store child fail or die | `Owned`, `OneChange`, `Settled`, `Agree`, `StateDir`, `Durable` |
| `unit_shm` | two contexts at the limit, two engines, failures and quit | `ChunksAgree`, `MapFirst`, `Woken` |
| `listeners` | configurations add, keep and drop listeners and threads while connections come and go | `RefsAgree`, `SafeUse`, `Served`, `PortFree`, `AcksAgree` |

More configurations ask the same questions of other instances and pass too; they
take longer or say less: `MCControlLive.cfg` (every request of a client is answered),
`MCUnitShmLive.cfg` (a blocked context goes on), `MCListenersTwo.cfg` (two
connections), `MCListenersLive.cfg` (every configuration ends).

What the properties say, briefly: `SlotsExclusive`, an item of the queue has one
user; `ClaimXorRetract`, a retracted request never ran; `SlotsLost`, an item is lost
only with a context that died holding it; `RunsOnce`, no request runs twice;
`DoorbellHeard`, no context sleeps over an item, and `HeardUnhurt` the same of
several readers before the first death. `SlotsAgree`, each attempt owns exactly one
slot of one counter; `WithinMax`, their sum respects `"max"`; `UseAgree`,
`use_count` is the number of things that refer to the application; `IdleAgree`,
the idle queues hold exactly ports with nothing to do; `IdleWatched`, a surplus
of idle workers has a timer; `NotStranded`, a request nobody took has a process,
a start or an answer on its way; `FreeClean`, the assertions of
`nxt_router_free_app()`.

`QueueSound`, no index is lost or doubled and the head is near the tail;
`Ordered`, the messages of a request reach its handler in the order sent, and
the reader never needs a second place for a datagram that came too early;
`Woken` (`PortQueue`), an item in the queue has a doorbell, an event or an awake
reader; `Delivered`, what a living process sent arrives. `Accounted`, every
message of `PortWrite` is in one place or ended once, and the bound on
descriptors counts exactly those that hold some; `WriteArmed`, `MarkerArmed`, a
message or an owed marker has an event, a timer or a thread that will send it.
`Owned`, every call in flight belongs to one request, or to the first
configuration, and its answer to nobody else; `OneChange`, one change is under
way; `Settled`, when nothing is in flight nobody waits; `Agree`, then the router
runs what the controller believes; `StateDir`, what is listed and named by the
stored configuration is on disk; `Durable`, a change that is answered 200 is on
disk.
`ChunksAgree`, a chunk has one owner and the count of chunks is right;
`MapFirst`, no message names a segment its engine cannot have mapped; `Woken`
(`UnitShm`), a context that waits for memory has an acknowledgement on its way, or
somebody holds memory in a segment flagged for one, unless it is one of those
the code forgets (below). `RefsAgree`, every count of `Listeners`
is the number of its holders; `SafeUse`, nobody holds a freed thing; `Served`,
between configurations `router->sockets` holds the listeners of the one in force,
and every engine serves each with it; `PortFree`, an address that is not in it is
closed unless a connection is open on it; `AcksAgree`, the configuration's count is the number of jobs
queued, delayed or acknowledged, so that it ends and never early.

### Disagreements

The models refute statements the code makes of itself. Each has a configuration
of its own that shows the counterexample, `tlc -config <cfg> <module>`; none of
them is among the runs, and the passing runs leave out the event it needs, or
name the state it leads to and stop there.

`MCRouterApp`:

- `MCRouterAppContextDies.cfg`, `NotStranded`: `nxt_process_close_ports()` closes
  the main port of a dead worker before its context ports, so `port_hash_count`
  still counts them when `nxt_router_app_port_close()` (`nxt_router.c:8317`) asks
  whether a replacement is needed. A request that waits is neither swept nor
  given a process, against the comment at 8331.
- `MCRouterAppUnmapped.cfg`, `QueueMapped`: a restart unmaps the old shared queue
  (`nxt_router.c:2331`) under the requests that are still in it; 9210 asserts
  that the queue is there.
- `MCRouterAppIdleReap.cfg`, `NotStranded`: the idle timer does not see queued
  requests; it reaps the only worker after a request was parked for it and
  starts nothing (`nxt_router.c:8770`).
- `MCRouterAppSpare.cfg`, `SpareFilled`: `idle_start` is not cleared when a port
  enters `spare_ports` (`nxt_router.c:7941`); when it leaves, the vacant place
  is not filled from `idle_ports`, as the comment at 7841 says it is.
- `MCRouterAppOrphan.cfg`, `SweepAlone`: workers of a dead prototype are
  reported gone while they run (`nxt_main_process.c:1966-1994`), and can take
  requests during the sweep, against the comment at `nxt_router.c:8326`. The
  tracking word still decides (`RunsOnce`, `ClaimXorRetract` of `AppQueue`, where
  the same happens): a request is answered as taken that such a worker runs for
  nobody, and none runs twice.
- `MCRouterAppContextReap.cfg`, `IdleAgree`: a reaped worker comes back to
  `idle_ports` by way of an acknowledgement from another of its contexts.
- `MCRouterAppFreed.cfg`, `FreedUnused`: a death handled between the last drop
  of a reference and the posted free starts a process for an application that
  is freed next (`nxt_router.c:8431`). A worker that registers in that window
  takes a reference too, and detached work then gets past the test for zero in
  `nxt_router_detached_apply()`.

`MCAppQueue`:

- `MCAppQueueOneCrash.cfg`, `DoorbellHeard`: `nxt_router.c:9361` says
  that a send without a doorbell has "enough READ_QUEUE datagrams [...] already
  outstanding". With one reader the evidence is the flag. A reader takes the
  datagram out of the socket before it clears the flag. If it dies in between,
  and the item was taken before the flag was set, the queue is empty, so
  `nxt_router_app_port_close()` does not ring either; the flag stays at 1 and
  the next request is queued in silence. A replacement that polls with a timeout
  finds it within a second; one that blocks (`nxt_unit_run_shared()`, event
  loops of embedders) does not.

`MCPortWrite`, `MCPortWriteArmed.cfg`, `Armed`:

- an inline message that meets a memory shortage after its first fragment
  (`nxt_port_socket.c:1464`) leaves the list without a re-arm;
- the owner meets a full socket and re-arms while the write handler of an earlier
  edge is in its work queue; that handler then disables the event.

`WriteArmed` is `Armed` without these two.

`MCControl`:

- `MCControlFork.cfg`, `Settled`: `nxt_main_process.c:2905` says that main
  "runs the job itself and answers at once" when `fork()` fails. For a stored
  configuration `nxt_main_store_start()` (3030) stores it in main and never
  answers: the client and every later change wait for ever.
- `MCControlEarly.cfg`, `Owned`: a router that main reaps before it read its
  READY is unknown to the controller, whose `nxt_controller_router_ready` stays 1;
  the next router gets the configuration twice.

`MCUnitShm`:

- `MCUnitShmSkip.cfg`, `AllUnblocked`: a segment that is passed over because the
  response port cannot use it yet (`nxt_unit.c:5289`) is not flagged, so nobody
  acknowledges and the thread stays blocked.
- `MCUnitShmDrain.cfg`, `AllDrained`: a short write waits for an acknowledgement
  that does not come when the application itself frees the memory unsent, or
  when a blocking wait of the same context reads it.
- `MCUnitShmUndo.cfg`, `UndoHeard`: a sized allocation takes chunks one by one and
  gives a run that is too short back (`nxt_unit.c:5298-5318`). While it has them,
  `nxt_router_oosm_handler()` (`nxt_router.c:10335-10346`) may look for free memory
  for another thread that waits; it finds none and sends no acknowledgement. The
  one that gave back may then return at 5355-5361 without asking, because the rest
  is its own, and the other thread stays blocked over free chunks. The look is
  there "to mitigate possible racing condition" (10318); this one it does not
  cover. It takes three chunks, two of them free.
- `MCUnitShmDangling.cfg`, `NoDangling`: a segment whose announcement fails is
  unmapped outside the mutex, and `outgoing.size--` may drop the segment of
  another thread (`nxt_unit.c:5685`).

`MCListeners`: an old socket configuration stays linked in `keeping_sockets` or
`deleting_sockets` until its last joint goes. The next `nxt_router_temp_conf()`
(`nxt_router.c:2602`) initialises those heads, and the later
`nxt_queue_remove()` in `nxt_router_conf_release()` writes through its stale
links and empties the queue of the configuration being applied.

- `MCListenersTorn.cfg`, `PortFree`: a removed listener then gets no delete job
  and stays open although it is reported removed, against the comment at 6096, "a
  successful reconfiguration means the port is free".
- `MCListenersLost.cfg`, `Served`: when that configuration fails, a listener that
  was kept is lost from `router->sockets`; adding its address again fails.

The run `listeners` follows all behaviours up to the first such removal
(`Intact`).

Seen while modelling, and not contradicted by a line of the repository: a
configuration that was applied but not stored, followed by the deletion of a
certificate it no longer names, leaves a `conf.json` that names a deleted bundle
(`StateDir` excludes it); a refused first configuration makes the controller fall
back to the default without storing it (`Agree` excludes it); `nitems` stays one
short after a process dies between its enqueue and its count, and a marker
without a datagram stops the reader (`Woken` and `Delivered` of `PortQueue`
require that neither happened); pending listen sockets leak when a configuration
fails.

The runs of `RouterApp` keep apart the events that a disagreement needs: contexts
and the idle timer, removal and detached work, and so on; `NotStranded` and
`IdleAgree` hold without their meeting and fail with it.

Bounds. `Nncq` uses two entries, so that the ring is full and empty often, and
few cycles, so that the index wraps; `MaxStall` keeps a sleeping thread from
being overtaken by a whole turn of all cycles, which in the code takes 2^30
(`nxt_nncq.h`) or 2^32 operations. Two slots and two requests make `AppQueue` run out of slots and
reuse them while an old entry is still queued. `MaxCrashes` bounds the deaths and the
contexts that outlive their prototype together; two are enough for a death of a
replacement, and for an orphan beside one. An orphan's name is not used again. The run
tells states apart only by what matters of a position, its distance from the head
(`ByDistance`). `SockCap` is the number of doorbells that fill the socket.
`RouterApp` has three names for attempts with a limit of two processes, `"spare"` from 0 to 2 (2 makes two starts
pending, so that cohorts form), two requests where they compete for a queue or a
worker, and one restart. `PortQueue` has two items and one datagram of room, so
that both fill, and counters modulo 8 that start at 6, before the wrap. `PortWrite` has
one datagram of room, two failures and a mix of the five kinds of messages.
`Control` has plans of a few requests each that mix every operation, two
controllers, two routers and two accidents. `UnitShm` has one segment of two
chunks: the limit is reached at once, and a run of two may meet a busy chunk and be
given back. The counterexample of `MCUnitShmUndo.cfg` takes three chunks; a passing
run with three and two engines does not end in time, and the theorem
`WaitersWoken` is for any number. `Listeners` has two addresses, three
configurations (an old one is still in use while the second is replaced), up to
three engines, one connection that may serve any number of requests, one failure.
Time is not modelled: a deadline may fire whenever it
is armed.

Fairness. Engines and contexts are threads, so each one that can take a step
takes it. The main process reports deaths, and a start that a request needs is
made; the resend timer fires. No fairness is assumed for deadlines, for
acknowledgements, for starts nobody needs, or for a failing publication. A poll
timeout is fair where the code has one (`PollTimeouts`). The runs turn deadlock
checking off because a finite number of requests ends in a state where nothing
is left to do; `Nncq` runs forever and is checked for deadlock. In `router_live`
work posted to the main thread and armed start timers get their turn in spite
of other work (strong fairness: the queues are served in order), engines run
their handlers, a worker takes and answers what is queued; nothing is assumed of
a process that was started, which may never report. In `port_queue` the engine
reads and a send that has begun goes on; nobody has to begin one. `LiveSpec` of
`Control` says that some process with a handler to run runs it; that of `UnitShm`
that threads run on and a buffer that is held is sent or freed, with strong
fairness for the mutex; that of `Listeners` that the main thread, the jobs of an
engine and its close timers run. Clients, deaths and failures are never owed.

## Proofs

All for any number of threads, engines, contexts, slots, requests and deaths.

- `QueueConserved` and `QueueLinearizes` (`NncqProof`): `QueueSound`, and
  `Linearizable`, the refinement of `Fifo`, for any number of threads, any size and
  any width of the cycle. Two conditions on the bounds are assumed.
  `Unlapped == MaxStall + 2 * Size <= Size * CycleRange`: no thread is overtaken by
  almost all cycles of an entry between its load and its compare-and-set; in the
  code that leaves nearly 2^30 operations of others for `nxt_nncq.h` and 2^32 for
  `nxt_app_nncq.h`. `Persistent == 2 * Patience <= Retries`, for `Linearizable`
  only: it fixes how much progress of others a call that gives up has seen, half of
  the 16384 or 131072 retries.
  Neither property is inductive. `Ring` unwinds the wrapping words into positions
  that do not wrap: `H`, `T` and `P` of the head, of the tail and of the first
  position without a value, `G[p]` of the position a thread holds. `Placed`: the
  entries of the last `Size` positions before `P` carry the cycles of these
  positions, and the tail is at `P` or one behind. `Holds`: a position in a thread
  is not newer than the word it was read from and at most `MaxStall` older, and an
  entry it could still exchange is the one it read. From these an entry of the
  previous cycle under a position of the tail means that nobody published there
  (`TailEntry`), and under a position of the head that the queue is empty
  (`HeadEntry`). `Owned`: every index is in one place; it gives that a caller with
  an index in hand never meets a full ring (`NotFull`), so the missing test for
  "full" is sound. `Owed`: the tail lags only behind a thread that will move it.
  `Waited` counts the retries: a dequeuer loses one try to one effect of others, an
  enqueuer may lose two to one publication, at the exchange and again when it helps
  the tail over it, which is where the factor in `Persistent` comes from.
  The refinement maps the exchange of the entry to `Put`, that of the head to
  `Take`, the load of an entry of the previous cycle to `Empty`, the last failed try
  to `GiveUp`, and every other step to none.

- `TypeCorrect`, `SlotsApart` (`AppQueueProof`): `TypeOK` and `SlotsExclusive`.
  `TypeOK` is inductive; `SlotsExclusive` is inductive with it: every action moves
  one slot between two of the places that the invariant keeps apart.
- `SlotsLostByDeath` (`AppQueueProof`): `SlotsLost`. Every action except a death
  leaves each slot in one of the places that the invariant names; a death can take
  only the one slot that the dying context holds out of them, and is counted.
- `RunsAtMostOnce`, `RetractedNeverRuns`, `TrackingArbiter`
  (`AppQueueProof`): `RunsOnce`, `ClaimXorRetract`, `TrackingInv`. None of
  the first two is inductive. The strengthening `IInv` adds `TrackingInv`: a
  tracking word that is not stale names the one request that waits in this slot
  and has not run (`TrackingNames`); a send owns its request and, until it
  publishes, its slot (`SendsOwn`); a receive compares with the stream it
  copied and frees a slot only with the word cleared (`ReceivesOwn`); and a
  queued request is tracked or has run (`RouterCanTell`). Stale words are those
  of free slots and of slots taken but not yet filled. `SlotsExclusive` makes
  the step of one actor leave the slots of the others alone. That the router thinks
  a worker gone plays no part: the theorems hold although orphans read the queue
  during a sweep and after it.
- `SleepersHear` (`AppQueueProof`): `HeardUnhurt`, for any number of engines,
  contexts, slots and requests: until a first context dies or is reported gone, if the socket has room
  for a doorbell of each context (`Roomy`). Both conditions are needed: after a
  death it is false (`MCAppQueueOneCrash.cfg`), and in a smaller socket the doorbell
  that is dropped may be the one for a second sleeper. The invariant `BellInv`
  counts: the datagrams, the contexts about to look at the queue and the sends that
  are about to ring are together at least the items, or at least the contexts that
  do not run a request (`Enough`). A send that lands behind as many items as there
  are contexts need not ring, because then the items already cover every context; a
  dequeue moves the head and only makes more sends ring. With one context the flag
  replaces the position, and `FlagUp` says that it is up only while a datagram, a
  context that just read one, or a send about to ring answers for it. `Bounds` says
  that every send got the number of contexts as its bound.

- `LimitKept` (`RouterAppProof`): `WithinMax` for any number of workers,
  prototypes, requests and contexts and every event. The sum of the three
  counters is inductive by itself: it grows only by the slot that
  `nxt_router_app_can_start()` admitted, in the same critical section, and every
  other action moves a slot or gives slots back. It needs no agreement between
  the counters and the attempts (`SlotsAgree`), so it also holds where that
  fails (`MCRouterAppContextReap.cfg`).

- `SurplusWatched` (`RouterAppProof`): `IdleWatched`, for every event. Each action
  that adds a port to an idle queue arms the timer or queues the adjustment in the
  same step, and the handler that disarms either looks at the counts it leaves.

- `SlotsCountedAlways` (`RouterAppIdleProof`): `SlotsAgree`, and
  `QueuedWorkersIdle`: `IdleAgree`, for any number of workers, requests and context
  ports, under `Narrow == Contexts = 0 \/ "idle" \notin Events`. `Narrow` is not a
  convenience: without it `IdleAgree` is false
  (`MCRouterAppContextReap.cfg`). Neither property is inductive, and each needs the
  other. A slot is given back by the phase of its attempt, so `SlotsAgree` needs
  that a handler which moves a counter by one moves one attempt by one phase
  (`SlotInv` of `RouterAppProof`: the attempts the main thread holds, what is
  left of its handler, which message each attempt waits for, what a prototype may
  still answer). The reaping of an idle worker moves a slot too, so it
  needs that the port at the head of `idle_ports` is registered, which is
  `IdleAgree`. For `IdleAgree` a port in a queue must have nothing to do; an
  acknowledgement takes it out and the end of the last request puts it back, so the
  counters of a port must be exact. `IdleInv` therefore adds: `active_requests` and
  `active_websockets` of a port are the numbers of requests acknowledged and
  upgraded there, `detached_router` of a registered worker that of its abandoned
  ones (`PortAgree`); a worker that is not registered has no application
  detachment, and no context port unless the handler of its death has still to
  close it (`PortCleared`); a request that a worker acknowledged refers to one that
  was not told to quit, and a name that is being started is behind no request
  (`LinkSound`); the two queues hold each port once and apart (`QueuesSound`).

- `ReferencesCounted` (`RouterAppIdleProof`): `UseAgree` under the same `Narrow`,
  which it inherits from `IdleInv`: the reference of a detached worker is dropped
  with the last reason for its detachment, so the reasons must be counted exactly.
  `RefInv` is the sum with two facts that make it inductive. `Parked`: a request
  waits in one of `ack_waiting_req` and `requeue_req` at most, and while it does, nothing
  is posted for it; so a request that is swept, retracted or timed out is linked when
  its reference is dropped, and no second post for a request replaces the first.
  `Swept`: `requeue_pending` is the number of posted handlers of a sweep, each with
  a reference of its own, and exactly one start is held while there is one. Each
  action is then shown to take and give back what it adds to and removes from the
  holders (`Balanced`), the loops over the queues as sums over their members.
  `PortCleared` is where the other contexts of a reaped worker would break it.
- `RequestsNotStranded` (`RouterAppIdleProof`): `NotStranded`, for any number of
  workers and requests, under `Single`: one context per worker and no idle timer.
  Both are needed: `MCRouterAppContextDies.cfg` and `MCRouterAppIdleReap.cfg` show
  requests that are forgotten. `WaitInv` adds: `active_requests` is the number of
  requests that wait, fail or are acknowledged, what is queued waits (`Active`),
  `port_hash_count` is `processes`, and without a process and a pending start the
  queue is empty or a thread is in the loop of `nxt_router_app_start_failed()`
  (`Served`). The hard case is the last process that goes: the requests that wait
  then exceed ports and pending starts, so a start is wanted; there is room for it
  because the slot was given back just before; and no sweep holds it off, because a
  sweep has a pending start of its own (`Swept`).
- `FreedEmpty` (`RouterAppIdleProof`): `FreeClean`, under `Attached`: `Narrow`, and no
  detached work. `PortInv` counts the ports: `detached_processes` is the number of
  detached ports, `port_hash_count` that of processes and their other contexts.
  `FreeInv`: once the free is on its way, the configurations are released, nobody
  is detached and no request holds a reference. It comes from
  `ReferencesCounted`: the sum is zero, and none of its terms is negative. It stays
  so because a new request needs a configuration (`StatesStay`). Detached work is
  excluded because it can begin in the window that the paragraph on
  `MCRouterAppFreed.cfg` describes: the worker that registers makes `use_count` 1
  again, `nxt_router_detached_apply()` detaches it, and the free finds
  `detached_processes` 1.
- `CountersTyped` (`RouterAppIdleProof`): `TypeOK` under `Narrow`. The content is that
  no counter passes below zero. None of them can be shown so from the step that
  decrements it; each is a number of things by one of the invariants above
  (`SlotsAgree`, `PortAgree`, `PortInv`, `CountInv`, `RefInv`).

- `DataBehindSegment` (`UnitShmProof`): `MapFirst`, for any number of contexts,
  engines, segments and chunks, under `Orderly == Limit = 1 \/ "mmap" \notin Faults`.
  With several segments and an announcement that fails, `outgoing.size--` drops the
  segment of another thread, the same race as in `MCUnitShmDangling.cfg`, and the
  next segment takes its id: `MapFirst` is then false, so the hypothesis is needed.
  `MapFirst` is not inductive. `MapInv` adds what `sent_over` and `src_thread` are
  for: a segment is mapped, or its announcement is in the port `sent_over`, or the
  thread that made it has still to send it (`SegsLinked`); in the last case nobody
  was told (`MakersLinked`); a buffer, or an allocation that is about to become
  one, lies in a mapped segment or in one that the same thread announced over the
  port the buffer will use (`UsersLinked`); and a datagram on its way lies in a mapped
  segment or behind its announcement in the same port (`MsgsLinked`). `Locked` is
  needed because a new segment's id is the length of the array, read and used under
  `outgoing.mutex`.

- `ChunksHeldOnce` (`UnitShmProof`): `ChunksAgree`, under `Orderly` too. `Owned` and
  `Accounted` need each other and more (`ChunkInv`). A chunk moves from the bit map to
  a context, to a buffer, to a datagram, to the router and back, and each step has to
  be shown to take it from the one holder that it had (`OneMoved`); that the giver is
  a holder at all is `Sizes`: what is in anybody's hands is a set of chunks of a
  segment that exists, and no set is empty that must not be. `outgoing.size--`
  takes a segment away with its chunks, so that under it nobody may hold one but
  the thread whose announcement failed. The count is the number of chunks due
  (`Due`), which changes in another step than the bit map: what was sent or freed and
  is not yet taken off is apart from everything that is still held (`SentApart`), or
  two chunks would be counted as one.

- `WaitersWoken` (`UnitShmProof`): `Woken`, on top of both. `nxt_unit_mmap_get()` sets
  the flag of each segment that it passes over, lets the mutex go, looks at the count,
  and asks; the router frees, then looks at the flag, then posts an ack; all of it
  without a common lock. While a context scans, each segment behind it is flagged, or
  an ack that took the flag off is on its way to it; it is mapped, or it is the
  context's own, announced and without a free chunk (`PassOf`). When the context asks,
  fewer chunks are counted than there are: by a count of pairs (`SomeNotDue`) some
  chunk of some segment is not the application's, and its one holder (`Owned`) is the
  router, a datagram, an allocation under way, or the free bit map of a segment that
  the router can see (`AskSource`). From then on the source of an ack is handed on
  from step to step (`Source`, `Kept`): a free chunk that the OOSM handler will see
  becomes an allocation, that a buffer, that a datagram, that a buffer of the router,
  that a completion, that an ack, and the flags stay up until one is posted. A run
  that is being taken counts as an allocation (`HeldBy`, `Passing`), and it may end
  otherwise than in a buffer: it is given back, and `Undo` sets those that wait
  `apart`, as does the application that frees a buffer unsent. For both the code has
  nobody to tell them (`MCUnitShmUndo.cfg`, `MCUnitShmDrain.cfg`).

  This proof corrected the property. `Woken` excused only a context that passed over
  a segment of another thread or port; TLC agreed with it on two chunks, and it is
  false from five on. A context may pass over a segment of its own, not mapped yet, with
  free chunks in runs that are too short. If the OOSM is handled before the segment is
  mapped, the router sees no free memory and does not answer; when the rest is in
  buffers of the context itself, which is blocked, nobody ever will. `ScanNext` now
  notes this case in `apart` with the other one.

- `WakeupsKept` (`PortQueueProof`): `Woken`, for any number of processes, scripts
  and sizes of queue and socket. The sender that raises `nitems` from zero rings, and the
  reader sleeps after it lowered it to zero, so everything rests on `nitems` meaning
  what it says. `WakeInv` adds: `nitems` is the number of items in the queue, less
  those whose sender has not counted them yet, plus what the reader holds of the count
  between its two decrements, until there is a fault (`Counting`); the READ_SOCKET
  markers under way are never fewer than the datagrams that they announce, and as many
  without a fault (`Balance`); a reader that sleeps beside counted items has an edge
  coming, or a sender that is about to ring or to send its datagram (`Rung`). `Reading`
  ties the reader's steps to what it holds.

- `ChannelOrdered` (`PortQueueProof`): `Ordered`, with kills and refused datagrams
  too. A request that finds the queue full goes on in the socket, where a message
  might overtake one that is still in the queue; `nxt_port_queue_taken()` is there
  to prevent that, and reads two counters of 32 bits, one after the other, that
  other processes move and that wrap. `OrderInv` says, beyond `WakeInv`, how far the
  tail may be from the head (`Ring`: at least one less than the items in the queue,
  at most their number and one for each process, because a process may stall before it
  moves the tail for its item); that the position which a request keeps is at or behind
  its last item, and that the head loaded by the drain check is not so old that the
  position is outside the window although the item is still there (`Places`, lemma
  `NotTaken`): when the check passes, nothing of the request is in the queue; and
  which message a process has at hand (`Sending`). `Channel` then is about what is
  under way: the items of a request stand in the queue in order and its datagrams in
  the socket (`Line`); of an item and a datagram of one request, the item is at hand
  and older, or younger and behind enough markers for the datagram to be read first
  (`Cross`); what was sent and has not arrived is in the queue, in the socket or in the
  reader's hands (`Whole`). The oldest of them therefore arrives next.

- `MessagesAccounted` (`PortWriteProof`): `Accounted`, for any number of engines,
  messages of any kinds, room in the socket and failures. `EndsOnce` says that a
  message that was begun is in one place, and is not inductive. `Core` adds whose
  hands a message may be in (`Hands`): an inline send holds the last message that
  its own thread began, which is not listed, so two threads never hold the same;
  the write handler runs only on the owner and its message is still listed; it
  never reaches the insertion that an inline send makes. It also adds that nothing is listed twice
  (`Listing`), and that a message which waits for its next fragment has fewer left
  than it began with: such a message has two, so it has no descriptors, and the
  rest of it may be put into the list uncounted. Every action then moves one
  message between the hands of one thread, the list and the end (`MoveStep`), or
  none (`StillStep`); the owner's error handler ends all that is listed while its
  write handler is not at a message. The error handler of another engine may run
  while it is, and there the invariant ends (`foreign`).

- `MarkersArmed` (`PortArmProof`): `MarkerArmed`. A marker that is owed has the
  posted re-arm, the timer, the queued or running write handler, a thread at its
  re-arm, or the event set (`MarkerInv`). Every exit of a send re-arms or starts
  the timer while a marker is owed, unless its send failed, and then the peer is
  gone (`GripAt`); a re-arm on the owner enables the event or leaves the timer
  (`RearmArms`).

- `WritesArmed` (`PortArmProof`): `WriteArmed`, under its own exclusions (`Sane`: a
  cut message, a stale edge, a dead peer after a shortage of memory). Whoever finds
  the socket full or lists a message is on its way to the re-arm (`Going`). Two
  things make the invariant more than that. The write handler takes the event down
  when it finds the list empty, so that while it is queued or runs, the event and
  the owner's own way to the re-arm do not count, only what it cannot undo
  (`Others`): a thread of another engine, the re-arm that it posts, the timer. And
  a message is listed without a re-arm when write_ready is down or the list is not
  empty, so that a port whose write_ready is down needs the same promise, listed
  messages or none (`ReadyArmed`, beside `ListArmed`). `AgainArmed` is about the
  handler that met a full socket and is about to trust an event that is active.
  `Base` holds whose message is whose, as in `PortWriteProof`, but without its
  exception: it is true after an error handler of another engine too. It gives that
  a cut message stays cut (`Apart`) and that no marker is owed before a failure
  (`Owing`), without which a dead peer could refuse the re-arm.

Assumptions: `Atts`, `Reqs`, `Ctxs` and `Engines` are finite, there is an engine, `"spare"` does not exceed `"max"`,
`Slots`, `Readers` and `Engines` of `AppQueue` are finite, `NoSlot` is no slot and
`NoStream` (0) no stream, the bounds are naturals; the names that `now` and
`draining` hold beside attempts and requests (`"queued"`, `"fired"`, `"main"`) are
none of those. `Threads` is finite and has the owner of the port, and scripts are
sequences of the five kinds. In `PortQueue`, twice the size of the queue plus the number of
processes is less than `Wrap`, where the counters start again: 16384 against 2^32
in the code. A process that stalls before it moves the tail may find a tail
that came back to its position, and the bound keeps that from confusing the drain check.

Only model-checked: liveness (`QueuedServed`, `Answered`, `Delivered`), which is
out of the prover's reach, and everything about `Control` and `Listeners`.

## What the models leave out

- A dequeue whose 131072 retries are used up reports "empty" (in `Nncq`, with
  few retries, it does). `AppQueue` takes it as never happening, and takes the
  return of a slot to `free_items` as never failing.
- The content of a request and its shared memory.
- A retry timer of the resend (`NXT_AGAIN`, up to 500 times 10 ms) is a resend
  that may happen at any time; giving up is `GiveUpResend`.
- Memory order weaker than sequential consistency: every shared word is accessed
  with the atomic operations of `nxt_atomic.h`, which are full barriers except
  for loads.
- In `RouterApp`: memory pool and port references, failing allocations, the
  shutdown of the router, `"start_timeout"`: 0 (a start without a deadline), the
  race in which a sweep takes a request between its parking and a refused send
  of it.
- In `PortQueue`: reassembly of fragments, a failing read buffer, out-of-band
  data that is refused, the reader inside `libunit`.
- In `PortWrite`: the death of the peer together with a memory shortage; an error
  handler of another engine that frees a message the write handler holds is
  recorded (`foreign`) and excused.
- In `Control`: shutdown of main, the version file, a client that leaves, reads
  of the configuration, validation except of file names, sockets between the
  processes that are full.
- In `UnitShm`: the memory from the router to a worker, which uses the same
  bitmap and has no limit. The router's own failures when a segment arrives
  (`fstat()`, `mmap()`, an allocation: `nxt_port_memory.c:295-365`): the segment is
  not mapped then and all data in it is lost, `sent_over` keeps it for the one
  thread and port, and nothing in the code recovers from it. Only a death of the
  process ends its use. The OOSM handler looks at all words of all bitmaps in one
  step. Its loop misses a chunk that is freed behind it: if the router freed it, the
  completion sends its own acknowledgement; if the application did, those that
  wait are `apart`.
- In `Listeners`: building a configuration and posting its jobs are one step
  each, so a release on an engine does not fall into their middle although the
  queues have no lock there; main's `bind()` is external; one configuration that
  waits for another is in `Control`. `UpdateJob` acknowledges
  (`nxt_router.c:5827`) and releases the old joint (5834) in one step, `CloseFinish`
  acknowledges (6185) and releases (6187) in one: in the code the main thread can
  begin the next configuration in between. What the release can meet then is the
  torn queue of the disagreement above, where the run ends anyway (`Intact`); that
  the acknowledgement of `CloseFinish` comes before the last use of its joint cannot
  be told from the other order.

## Not modelled

Most of the lines of the repository are not protocol: validation tables and
JSON, HTTP parsers, routing and variables, TLS, compression, JavaScript, language
modules, isolation, containers. They run in one thread on the state of one
request, their errors are errors of bytes or of an external library, and tests
reach them. A model of them would repeat the code. PROJECT.json gives the reason
for each part.

## Plan

Done: the queues, the application queue, the process accounting of the router,
ports, shared memory, the control plane, listeners. Next:

1. Proofs: `Owned` of `Control` and `RefsAgree` of `Listeners` go through folds
   over lists, whose values for every list are out of the prover's reach; the
   models would have to keep these sums as sets first.
2. The context's own port and the quit protocol of `libunit`.
3. The connection of a client: timeouts, keep-alive and the order of error and
   body handlers.
