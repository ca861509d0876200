------------------------------ MODULE AppQueue ------------------------------
(***************************************************************************)
(* The shared request queue of an application: src/src/nxt_app_queue.h,    *)
(* the router engines that send requests through it                        *)
(* (nxt_router_app_queue_send, nxt_router_msg_retract in nxt_router.c) and *)
(* the worker contexts that read it (nxt_unit_app_queue_recv,              *)
(* nxt_unit_shared_port_recv, nxt_unit_read_buf in nxt_unit.c).            *)
(*                                                                         *)
(* The two circular queues inside are taken as first-in first-out, which   *)
(* module Nncq justifies; the tail of "queue" may lag one item behind what *)
(* is published, as there.  Positions are counted from 0 and never wrap:   *)
(* the number of requests bounds them.                                     *)
(***************************************************************************)
EXTENDS Integers, Sequences, FiniteSets, SequencesExt

CONSTANTS Engines,      \* router threads that send requests
          Readers,      \* worker contexts that read the queue
          Slots,        \* items of the queue
          NoSlot,       \* no slot
          Streams,      \* stream numbers of the requests
          NoStream,     \* 0, which is no stream number
          SockCap,      \* bound: unread doorbells that fill the socket
          PollTimeouts, \* TRUE: nxt_unit_read_buf(), which polls with a timeout
          MaxCrashes,   \* bound: worker contexts that die or are reported gone
          ProtoDies     \* TRUE: the prototype process may die before its workers

ASSUME EnginesAssumption == IsFiniteSet(Engines)
ASSUME ReadersAssumption == IsFiniteSet(Readers)
ASSUME SlotsAssumption == IsFiniteSet(Slots) /\ NoSlot \notin Slots
ASSUME StreamsAssumption == NoStream \notin Streams
ASSUME BoundsAssumption == /\ SockCap \in Nat \ {0}
                           /\ MaxCrashes \in Nat
                           /\ PollTimeouts \in BOOLEAN /\ ProtoDies \in BOOLEAN

VARIABLES free,      \* free_items: slots, oldest first
          queue,     \* queue: slots, oldest first
          headc,     \* head of queue
          tailc,     \* tail of queue
          item,      \* item[i]: the stream in data, and the tracking word
          notified,  \* the one-wake flag
          bells,     \* READ_QUEUE datagrams in the socket of the shared port
          eng,       \* eng[e]: locals of a send
          bound,     \* bound[e]: the depth_bound that the router passes to it
          rdr,       \* rdr[r]: locals of a receive
          req,       \* req[s]: what the router knows of the request
          cookie,    \* cookie[s]: msg_info.tracking_cookie
          sweep,     \* requests whose requeue handler is posted
          runs,      \* runs[s]: how often a worker claimed the request
          crashes,
          orphans    \* contexts that were reported gone while they ran

rings == <<free, queue, headc, tailc>>
vars == <<rings, item, notified, bells, eng, rdr, req, cookie, sweep, runs,
          crashes, orphans, bound>>

\* Locals of a send: the next step, the request, its slot, the position it
\* took, and whether it is the first send of the request or another one.
Eng(pc, s, slot, pos, turn) ==
  [pc |-> pc, s |-> s, slot |-> slot, pos |-> pos, turn |-> turn]
IdleEng == Eng("idle", NoStream, NoSlot, 0, "first")

\* Locals of a receive: the next step, the slot, the stream copied from it,
\* the result of the claim, and the count that nxt_app_queue_depth() loaded.
Rdr(pc, slot, s, claim, count) ==
  [pc |-> pc, slot |-> slot, s |-> s, claim |-> claim, count |-> count]
RdrAt(pc) == Rdr(pc, NoSlot, NoStream, "lost", 0)

Item(data, tracking) == [data |-> data, tracking |-> tracking]

\* A context that reads the queue or waits for it, and one that the router
\* still counts: a dead one is counted until its port is closed, and one that
\* runs no longer once main has reported it gone.
Alive == {r \in Readers : rdr[r].pc \notin {"dead", "closed", "starting"}}
Counted == {r \in Readers : rdr[r].pc # "closed" /\ r \notin orphans}

\* The contexts in app->port_hash, at least 1 for the doorbell.
Registered == {r \in Counted : rdr[r].pc # "starting"}
DepthBound == IF Registered = {} THEN 1 ELSE Cardinality(Registered)

\* Requests of app->active_requests that no worker acknowledged yet.
Active == {s \in Streams : req[s] \in {"sending", "queued", "parked", "resend"}}

\* Requests in app->ack_waiting_req.
AckWaiting == {s \in Streams : req[s] \in {"sending", "queued"}}

Init ==
  /\ free \in SetToSeqs(Slots)
  /\ queue = <<>> /\ headc = 0 /\ tailc = 0
  /\ item = [i \in Slots |-> Item(NoStream, NoStream)]
  /\ notified = 0 /\ bells = 0
  /\ eng = [e \in Engines |-> IdleEng]
  /\ bound = [e \in Engines |-> 1]
  /\ rdr = [r \in Readers |-> RdrAt("recv")]
  /\ req = [s \in Streams |-> "new"]
  /\ cookie = [s \in Streams |-> NoSlot]
  /\ sweep = {}
  /\ runs = [s \in Streams |-> 0]
  /\ crashes = 0 /\ orphans = {}

-----------------------------------------------------------------------------
(* The router: nxt_router_app_queue_send() with nxt_app_queue_send_bound(). *)

\* A new request is parked in ack_waiting_req and its send starts; a request
\* that the sweep retracted is sent again, nxt_router_app_resend().
Send(e, s) ==
  /\ eng[e] = IdleEng
  /\ req[s] \in {"new", "resend"} /\ s \notin sweep
  /\ req' = [req EXCEPT ![s] = "sending"]
  /\ eng' = [eng EXCEPT ![e] = Eng("get", s, NoSlot, 0,
                                   IF req[s] = "new" THEN "first" ELSE "again")]
  /\ bound' = [bound EXCEPT ![e] = DepthBound]
  /\ UNCHANGED <<rings, item, notified, bells, rdr, cookie, sweep, runs, crashes, orphans>>

\* The send does not look at what free_items answered.
SendGetSlotUnchecked(e) ==
  /\ eng[e].pc = "get"
  /\ free' = IF free = <<>> THEN free ELSE Tail(free)
  /\ eng' = [eng EXCEPT ![e] =
               Eng("fill", eng[e].s, IF free = <<>> THEN NoSlot ELSE Head(free), 0,
                   eng[e].turn)]
  /\ UNCHANGED <<queue, headc, tailc, item, notified, bells, rdr, req, cookie, sweep,
                 runs, crashes, orphans, bound>>

\* Takes a free slot.  Without one the send answers NXT_AGAIN: a new request
\* gets an error, a resent one waits for its retry timer, or belongs to a
\* sweep that took it meanwhile.
SendGetSlot(e) ==
  /\ eng[e].pc = "get"
  /\ \/ /\ free # <<>>
        /\ free' = Tail(free)
        /\ eng' = [eng EXCEPT ![e] =
                     Eng("fill", eng[e].s, Head(free), 0, eng[e].turn)]
        /\ UNCHANGED req
     \/ /\ free = <<>>
        /\ eng' = [eng EXCEPT ![e] = IdleEng]
        /\ req' = [req EXCEPT ![eng[e].s] =
                     IF eng[e].turn = "again" THEN "resend" ELSE "failed"]
        /\ UNCHANGED free
  /\ UNCHANGED <<queue, headc, tailc, item, notified, bells, rdr, cookie, sweep,
                 runs, crashes, orphans, bound>>

SendFill(e) ==
  /\ eng[e].pc = "fill"
  /\ item' = [item EXCEPT ![eng[e].slot] = Item(eng[e].s, eng[e].s)]
  /\ cookie' = [cookie EXCEPT ![eng[e].s] = eng[e].slot]
  /\ eng' = [eng EXCEPT ![e] =
               Eng("publish", eng[e].s, eng[e].slot, 0, eng[e].turn)]
  /\ UNCHANGED <<rings, notified, bells, rdr, req, sweep, runs, crashes, orphans, bound>>

\* nxt_app_nncq_enqueue_pos(): an enqueuer moves a tail that lags behind
\* before it publishes.
SendPublish(e) ==
  /\ eng[e].pc = "publish"
  /\ queue' = Append(queue, eng[e].slot)
  /\ tailc' = headc + Len(queue)
  /\ eng' = [eng EXCEPT ![e] =
               Eng("tail", eng[e].s, NoSlot, headc + Len(queue), "first")]
  /\ UNCHANGED <<free, headc, item, notified, bells, rdr, req, cookie, sweep,
                 runs, crashes, orphans, bound>>

\* Its retries are used up: the slot goes back and the request gets an error,
\* unless a sweep took it meanwhile.
SendPublishFails(e) ==
  /\ eng[e].pc = "publish"
  /\ free' = Append(free, eng[e].slot)
  /\ req' = [req EXCEPT ![eng[e].s] =
               IF eng[e].turn = "again" /\ eng[e].s \in sweep
               THEN "resend" ELSE "failed"]
  /\ eng' = [eng EXCEPT ![e] = IdleEng]
  /\ UNCHANGED <<queue, headc, tailc, item, notified, bells, rdr, cookie, sweep,
                 runs, crashes, orphans, bound>>

SendIncTail(e) ==
  /\ eng[e].pc = "tail"
  /\ tailc' = IF tailc = eng[e].pos THEN tailc + 1 ELSE tailc
  /\ eng' = [eng EXCEPT ![e] = Eng("decide", eng[e].s, NoSlot, eng[e].pos, "first")]
  /\ UNCHANGED <<free, queue, headc, item, notified, bells, rdr, req, cookie,
                 sweep, runs, crashes, orphans, bound>>

\* Mutant: one doorbell too few for the readers.
NotifyDecisionShort(pos, depth) == pos < 0 \/ pos < depth - 1

\* nxt_app_queue_notify_decision()
NotifyDecision(pos, depth) == pos < 0 \/ pos < depth

\* The send is over: the engine keeps the request until it is acknowledged.
SendDone(e) ==
  /\ eng' = [eng EXCEPT ![e] = IdleEng]
  /\ req' = [req EXCEPT ![eng[e].s] = "queued"]

\* One reader: the flag; more: where the item landed, against the head now.
SendDecide(e) ==
  /\ eng[e].pc = "decide"
  /\ LET ring == IF bound[e] = 1 THEN notified = 0
                 ELSE NotifyDecision(eng[e].pos - headc, bound[e])
     IN \/ /\ ring
           /\ eng' = [eng EXCEPT ![e] = Eng("ring", eng[e].s, NoSlot, 0, "first")]
           /\ UNCHANGED req
        \/ /\ ~ring
           /\ SendDone(e)
  /\ notified' = IF bound[e] = 1 THEN 1 ELSE notified
  /\ UNCHANGED <<rings, item, bells, rdr, cookie, sweep, runs, crashes, orphans, bound>>

\* nxt_port_socket_doorbell(): skipped while the socket is full.
SendRing(e) ==
  /\ eng[e].pc = "ring"
  /\ bells' = IF bells < SockCap THEN bells + 1 ELSE bells
  /\ SendDone(e)
  /\ UNCHANGED <<rings, item, notified, rdr, cookie, sweep, runs, crashes, orphans, bound>>

-----------------------------------------------------------------------------
(* The router: what ends the wait of a request for a worker.                *)

\* A retraction that does not look whether a worker was first.
RetractBlind(s) ==
  /\ req[s] = "queued"
  /\ item' = [item EXCEPT ![cookie[s]] = Item(item[cookie[s]].data, NoStream)]
  /\ req' = [req EXCEPT ![s] = "retracted"]
  /\ UNCHANGED <<rings, notified, bells, eng, rdr, cookie, sweep, runs, crashes, orphans, bound>>
\* nxt_router_msg_retract() for a deadline or a client that went away: the
\* compare-and-set of nxt_app_queue_cancel().  The request is answered; a
\* worker that claimed it first works for nobody.
Retract(s) ==
  /\ req[s] = "queued"
  /\ \/ /\ item[cookie[s]].tracking = s
        /\ item' = [item EXCEPT ![cookie[s]] = Item(item[cookie[s]].data, NoStream)]
        /\ req' = [req EXCEPT ![s] = "retracted"]
     \/ /\ item[cookie[s]].tracking # s
        /\ req' = [req EXCEPT ![s] = "taken"]
        /\ UNCHANGED item
  /\ UNCHANGED <<rings, notified, bells, eng, rdr, cookie, sweep, runs, crashes, orphans, bound>>

\* A request that is between two sends is answered without a retraction.
GiveUpResend(s) ==
  /\ req[s] \in {"parked", "resend"}
  /\ req' = [req EXCEPT ![s] = "retracted"]
  /\ UNCHANGED <<rings, item, notified, bells, eng, rdr, cookie, sweep, runs,
                 crashes, orphans, bound>>

\* nxt_router_req_headers_ack_handler(): the worker that claimed the request
\* answers with its own port.  If that port was closed meanwhile, the client
\* gets an error and the worker works for nobody.
Acknowledge(s) ==
  /\ req[s] = "queued" /\ runs[s] > 0
  /\ \/ req' = [req EXCEPT ![s] = "acked"]
     \/ /\ crashes > 0 \/ orphans # {}
        /\ req' = [req EXCEPT ![s] = "taken"]
  /\ UNCHANGED <<rings, item, notified, bells, eng, rdr, cookie, sweep, runs,
                 crashes, orphans, bound>>

-----------------------------------------------------------------------------
(* The worker: nxt_unit_app_queue_recv() with nxt_app_queue_recv_claim().   *)

Recv(r) ==
  /\ rdr[r].pc = "recv"
  /\ \/ /\ queue # <<>>
        /\ rdr' = [rdr EXCEPT ![r] = Rdr("copy", Head(queue), NoStream, "lost", 0)]
        /\ queue' = Tail(queue)
        /\ headc' = headc + 1
     \/ /\ queue = <<>>
        /\ rdr' = [rdr EXCEPT ![r] = RdrAt("wait")]
        /\ UNCHANGED <<queue, headc>>
  /\ UNCHANGED <<free, tailc, item, notified, bells, eng, req, cookie, sweep,
                 runs, crashes, orphans, bound>>

\* The slot is freed as soon as its data is copied, before the claim.
RecvCopyFreesEarly(r) ==
  /\ rdr[r].pc = "copy"
  /\ rdr' = [rdr EXCEPT ![r] = Rdr("claim", rdr[r].slot, item[rdr[r].slot].data,
                                   "lost", 0)]
  /\ free' = Append(free, rdr[r].slot)
  /\ UNCHANGED <<queue, headc, tailc, item, notified, bells, eng, req, cookie,
                 sweep, runs, crashes, orphans, bound>>
RecvCopy(r) ==
  /\ rdr[r].pc = "copy"
  /\ rdr' = [rdr EXCEPT ![r] = Rdr("claim", rdr[r].slot, item[rdr[r].slot].data,
                                   "lost", 0)]
  /\ UNCHANGED <<rings, item, notified, bells, eng, req, cookie, sweep, runs,
                 crashes, orphans, bound>>

\* The claim without a look at the tracking word.
RecvClaimBlind(r) ==
  /\ rdr[r].pc = "claim"
  /\ item' = [item EXCEPT ![rdr[r].slot] = Item(item[rdr[r].slot].data, NoStream)]
  /\ runs' = [runs EXCEPT ![rdr[r].s] = @ + 1]
  /\ rdr' = [rdr EXCEPT ![r] = Rdr("free", rdr[r].slot, rdr[r].s, "won", 0)]
  /\ UNCHANGED <<rings, notified, bells, eng, req, cookie, sweep, crashes, orphans, bound>>
\* The compare-and-set of the tracking word, while the slot is still ours.
RecvClaim(r) ==
  /\ rdr[r].pc = "claim"
  /\ LET i == rdr[r].slot
         won == item[i].tracking = rdr[r].s
     IN /\ item' = IF won THEN [item EXCEPT ![i] = Item(item[i].data, NoStream)]
                   ELSE item
        /\ runs' = IF won THEN [runs EXCEPT ![rdr[r].s] = @ + 1] ELSE runs
        /\ rdr' = [rdr EXCEPT ![r] =
                     Rdr("free", i, rdr[r].s, IF won THEN "won" ELSE "lost", 0)]
  /\ UNCHANGED <<rings, notified, bells, eng, req, cookie, sweep, crashes, orphans, bound>>

\* The slot is not given back.
RecvFreeForgets(r) ==
  /\ rdr[r].pc = "free"
  /\ rdr' = [rdr EXCEPT ![r] = Rdr("depth", NoSlot, NoStream, rdr[r].claim, 0)]
  /\ UNCHANGED <<rings, item, notified, bells, eng, req, cookie, sweep, runs,
                 crashes, orphans, bound>>
RecvFree(r) ==
  /\ rdr[r].pc = "free"
  /\ free' = Append(free, rdr[r].slot)
  /\ rdr' = [rdr EXCEPT ![r] = Rdr("depth", NoSlot, NoStream, rdr[r].claim, 0)]
  /\ UNCHANGED <<queue, headc, tailc, item, notified, bells, eng, req, cookie,
                 sweep, runs, crashes, orphans, bound>>

\* A cancelled message is dropped and the context goes to sleep.
AfterRecvSleeps(r) == RdrAt(IF rdr[r].claim = "won" THEN "run" ELSE "wait")
\* A cancelled message is dropped and the queue read again.
AfterRecv(r) == RdrAt(IF rdr[r].claim = "won" THEN "run" ELSE "recv")

\* nxt_app_queue_depth(): two loads, in the order the compiler chose.
RecvDepth(r) ==
  /\ rdr[r].pc = "depth"
  /\ \/ rdr' = [rdr EXCEPT ![r] = Rdr("depthTail", NoSlot, NoStream,
                                      rdr[r].claim, headc)]
     \/ rdr' = [rdr EXCEPT ![r] = Rdr("depthHead", NoSlot, NoStream,
                                      rdr[r].claim, tailc)]
  /\ UNCHANGED <<rings, item, notified, bells, eng, req, cookie, sweep, runs,
                 crashes, orphans, bound>>

RecvDepth2(r) ==
  /\ rdr[r].pc \in {"depthTail", "depthHead"}
  /\ LET other == IF rdr[r].pc = "depthTail" THEN tailc ELSE headc
     IN rdr' = [rdr EXCEPT ![r] =
                  IF other = rdr[r].count
                  THEN Rdr("rearm", NoSlot, NoStream, rdr[r].claim, 0)
                  ELSE AfterRecv(r)]
  /\ UNCHANGED <<rings, item, notified, bells, eng, req, cookie, sweep, runs,
                 crashes, orphans, bound>>

RecvRearm(r) ==
  /\ rdr[r].pc = "rearm"
  /\ notified' = 0
  /\ rdr' = [rdr EXCEPT ![r] = AfterRecv(r)]
  /\ UNCHANGED <<rings, item, bells, eng, req, cookie, sweep, runs, crashes, orphans, bound>>

\* The application runs the request and the context reads the queue again.
Finish(r) ==
  /\ rdr[r].pc = "run"
  /\ rdr' = [rdr EXCEPT ![r] = RdrAt("recv")]
  /\ UNCHANGED <<rings, item, notified, bells, eng, req, cookie, sweep, runs,
                 crashes, orphans, bound>>

-----------------------------------------------------------------------------
(* The worker: how a context sleeps and wakes.                              *)

\* The datagram is read: nxt_unit_port_recv().
TakeBell(r) ==
  /\ rdr[r].pc = "wait" /\ bells > 0
  /\ bells' = bells - 1
  /\ rdr' = [rdr EXCEPT ![r] = RdrAt("bell")]
  /\ UNCHANGED <<rings, item, notified, eng, req, cookie, sweep, runs, crashes, orphans, bound>>

\* The queue is not read again after a doorbell.
BellHeardOnly(r) ==
  /\ rdr[r].pc = "bell"
  /\ notified' = 0
  /\ rdr' = [rdr EXCEPT ![r] = RdrAt("wait")]
  /\ UNCHANGED <<rings, item, bells, eng, req, cookie, sweep, runs, crashes, orphans, bound>>
\* nxt_app_queue_notification_received(), then the queue is read again.
BellHeard(r) ==
  /\ rdr[r].pc = "bell"
  /\ notified' = 0
  /\ rdr' = [rdr EXCEPT ![r] = RdrAt("recv")]
  /\ UNCHANGED <<rings, item, bells, eng, req, cookie, sweep, runs, crashes, orphans, bound>>

\* The poll() of nxt_unit_read_buf() ends after a second, or wakes a context
\* whose datagram another one takes; nxt_unit_run_shared() has no poll().
PollTimeout(r) ==
  /\ PollTimeouts /\ rdr[r].pc = "wait"
  /\ rdr' = [rdr EXCEPT ![r] = RdrAt("recv")]
  /\ UNCHANGED <<rings, item, notified, bells, eng, req, cookie, sweep, runs,
                 crashes, orphans, bound>>

-----------------------------------------------------------------------------
(* Death of a worker and its replacement.                                   *)

MayFail == crashes + Cardinality(orphans) < MaxCrashes

Crash(r) ==
  /\ MayFail /\ r \in Alive
  /\ crashes' = crashes + 1
  /\ rdr' = [rdr EXCEPT ![r] = RdrAt(IF r \in orphans THEN "closed" ELSE "dead")]
  /\ UNCHANGED <<rings, item, notified, bells, eng, req, cookie, sweep, runs,
                 orphans, bound>>

\* nxt_router_app_port_close(): a doorbell for what is still queued, and when
\* the last process is gone every unacknowledged request is swept.
ClosesPort(r) ==
  /\ sweep' = IF Counted = {r} /\ sweep = {} THEN AckWaiting ELSE sweep
  /\ bells' = IF tailc # headc THEN bells + 1 ELSE bells

\* Main reports the death of a context ...
PortClose(r) ==
  /\ rdr[r].pc = "dead" /\ ClosesPort(r)
  /\ rdr' = [rdr EXCEPT ![r] = RdrAt("closed")]
  /\ UNCHANGED <<rings, item, notified, eng, req, cookie, runs, crashes, orphans,
                 bound>>

\* ... or of its prototype, and with it of the children of the prototype, one
\* by one, whatever they are doing: nxt_main_process_sigchld_handler().
PortCloseRunning(r) ==
  /\ ProtoDies /\ MayFail /\ r \in Alive \ orphans /\ ClosesPort(r)
  /\ orphans' = orphans \cup {r}
  /\ UNCHANGED <<rings, item, notified, eng, rdr, req, cookie, runs, crashes, bound>>

\* Main has sent them QUIT; one that holds no message leaves.  (A bound: no
\* replacement takes its name.)
OrphanQuits(r) ==
  /\ r \in orphans /\ rdr[r].pc \in {"recv", "wait"}
  /\ rdr' = [rdr EXCEPT ![r] = RdrAt("closed")]
  /\ UNCHANGED <<rings, item, notified, bells, eng, req, cookie, sweep, runs,
                 crashes, orphans, bound>>

\* nxt_router_app_requeue_handler(), on the engine of the request, so not
\* during its send.
Requeue(s) ==
  /\ s \in sweep /\ req[s] # "sending"
  /\ sweep' = sweep \ {s}
  /\ \/ /\ req[s] = "queued" /\ item[cookie[s]].tracking = s
        /\ item' = [item EXCEPT ![cookie[s]] = Item(item[cookie[s]].data, NoStream)]
        /\ req' = [req EXCEPT ![s] = "parked"]
     \/ /\ \/ req[s] = "queued" /\ item[cookie[s]].tracking # s
           \/ req[s] = "acked"
        /\ req' = [req EXCEPT ![s] = "taken"]
        /\ UNCHANGED item
     \/ /\ req[s] = "resend"
        /\ req' = [req EXCEPT ![s] = "parked"]
        /\ UNCHANGED item
     \/ /\ req[s] \notin {"queued", "acked", "resend"}
        /\ UNCHANGED <<item, req>>
  /\ UNCHANGED <<rings, notified, bells, eng, rdr, cookie, runs, crashes, orphans, bound>>

\* nxt_router_app_need_start()
NeedStart == Cardinality(Active) > Cardinality(Counted)

\* nxt_router_app_can_start(): "spare", or the slot that a sweep reserved,
\* may ask for a process without a request that needs one.
Start(r) ==
  /\ rdr[r].pc = "closed" /\ r \notin orphans
  /\ sweep = {}
  /\ rdr' = [rdr EXCEPT ![r] = RdrAt("starting")]
  /\ UNCHANGED <<rings, item, notified, bells, eng, req, cookie, sweep, runs,
                 crashes, orphans, bound>>

\* nxt_router_app_port_ready(): the process has registered, and the parked
\* requests are sent again, each on its engine.
Register(r) ==
  /\ rdr[r].pc = "starting"
  /\ rdr' = [rdr EXCEPT ![r] = RdrAt("recv")]
  /\ req' = [s \in Streams |-> IF req[s] = "parked" THEN "resend" ELSE req[s]]
  /\ UNCHANGED <<rings, item, notified, bells, eng, cookie, sweep, runs, crashes, orphans, bound>>

-----------------------------------------------------------------------------
EngineStep(e) == \/ SendGetSlot(e) \/ SendFill(e) \/ SendPublish(e)
                 \/ SendIncTail(e) \/ SendDecide(e) \/ SendRing(e)

ReaderStep(r) == \/ Recv(r) \/ RecvCopy(r) \/ RecvClaim(r) \/ RecvFree(r)
                 \/ RecvDepth(r) \/ RecvDepth2(r) \/ RecvRearm(r) \/ Finish(r)
                 \/ TakeBell(r) \/ BellHeard(r)

Next == \/ \E e \in Engines : \/ EngineStep(e)
                              \/ SendPublishFails(e)
                              \/ \E s \in Streams : Send(e, s)
        \/ \E r \in Readers : \/ ReaderStep(r)
                              \/ PollTimeout(r)
                              \/ Crash(r) \/ PortClose(r)
                              \/ PortCloseRunning(r) \/ OrphanQuits(r)
                              \/ Start(r) \/ Register(r)
        \/ \E s \in Streams : \/ Retract(s) \/ GiveUpResend(s)
                              \/ Acknowledge(s) \/ Requeue(s)

Spec == Init /\ [][Next]_vars

\* Engines and contexts are threads of their own: each one that can go on
\* does; a resend is posted to its engine, a dead process is reaped, a
\* replacement comes up.
Fairness ==
  /\ \A e \in Engines : WF_vars(EngineStep(e))
  /\ \A r \in Readers : /\ WF_vars(ReaderStep(r)) /\ WF_vars(PollTimeout(r))
                        /\ WF_vars(PortClose(r))
                        /\ WF_vars(NeedStart /\ Start(r)) /\ WF_vars(Register(r))
  /\ \A s \in Streams : /\ WF_vars(Requeue(s))
                        /\ WF_vars(req[s] = "resend"
                                   /\ \E e \in Engines : Send(e, s))

FairSpec == Spec /\ Fairness

-----------------------------------------------------------------------------
(* Properties.                                                              *)

EngPcs == {"idle", "get", "fill", "publish", "tail", "decide", "ring"}
RdrPcs == {"recv", "copy", "claim", "free", "depth", "depthHead", "depthTail",
           "rearm", "run", "wait", "bell", "dead", "closed", "starting"}
ReqStates == {"new", "sending", "queued", "acked", "retracted", "taken",
              "parked", "resend", "failed"}

\* The words of nxt_app_queue_t and the locals of send and receive keep
\* their types; a slot is held exactly while the code holds one.
TypeOK ==
  /\ free \in Seq(Slots) /\ queue \in Seq(Slots)
  /\ headc \in Nat /\ tailc \in Nat
  /\ item \in [Slots -> [data : Streams \cup {NoStream},
                         tracking : Streams \cup {NoStream}]]
  /\ notified \in {0, 1} /\ bells \in Nat
  /\ eng \in [Engines -> [pc : EngPcs, s : Streams \cup {NoStream},
                          slot : Slots \cup {NoSlot}, pos : Nat,
                          turn : {"first", "again"}]]
  /\ rdr \in [Readers -> [pc : RdrPcs, slot : Slots \cup {NoSlot},
                          s : Streams \cup {NoStream}, claim : {"won", "lost"},
                          count : Nat]]
  /\ \A e \in Engines : eng[e].pc \in {"fill", "publish"} => eng[e].slot \in Slots
  /\ \A r \in Readers :
       rdr[r].pc \in {"copy", "claim", "free"} => rdr[r].slot \in Slots
  /\ bound \in [Engines -> Nat \ {0}]
  /\ req \in [Streams -> ReqStates]
  /\ cookie \in [Streams -> Slots \cup {NoSlot}]
  /\ sweep \subseteq Streams
  /\ runs \in [Streams -> Nat]
  /\ crashes \in Nat /\ orphans \subseteq Readers

\* The slots that a send or a receive holds.
EngHolds(e) == IF eng[e].pc \in {"fill", "publish"} THEN {eng[e].slot} ELSE {}
RdrHolds(r) == IF rdr[r].pc \in {"copy", "claim", "free"} THEN {rdr[r].slot} ELSE {}

\* No slot is in two places (nxt_app_queue_send_bound, nxt_app_queue_recv_claim):
\* once in free_items, once in queue, or with one sender or one receiver; so
\* no one writes an item that another reads.
SlotsExclusive ==
  /\ IsInjective(free) /\ IsInjective(queue)
  /\ ToSet(free) \cap ToSet(queue) = {}
  /\ \A e \in Engines : EngHolds(e) \cap (ToSet(free) \cup ToSet(queue)) = {}
  /\ \A r \in Readers : RdrHolds(r) \cap (ToSet(free) \cup ToSet(queue)) = {}
  /\ \A e1, e2 \in Engines : e1 # e2 => EngHolds(e1) \cap EngHolds(e2) = {}
  /\ \A r1, r2 \in Readers : r1 # r2 => RdrHolds(r1) \cap RdrHolds(r2) = {}
  /\ \A e \in Engines, r \in Readers : EngHolds(e) \cap RdrHolds(r) = {}

\* A slot is lost only with a worker that died between its dequeue and its
\* release (nxt_app_queue_recv_claim).
SlotsLost ==
  Cardinality(Slots \ (ToSet(free) \cup ToSet(queue)
                       \cup (UNION {EngHolds(e) : e \in Engines})
                       \cup (UNION {RdrHolds(r) : r \in Readers}))) <= crashes

\* A request runs at most once, also when the router retracts it after the
\* death of the last worker and sends it again with the same stream
\* (nxt_router_app_requeue_handler).
RunsOnce == \A s \in Streams : runs[s] <= 1

\* Claim and retraction agree: a request that the router retracted was never
\* and will never be run, and one that the router was told is taken was
\* claimed by a worker, so somebody answers for it (nxt_app_queue_cancel).
ClaimXorRetract ==
  \A s \in Streams : /\ req[s] \in {"retracted", "parked", "resend"} => runs[s] = 0
                     /\ req[s] \in {"taken", "acked"} => runs[s] = 1

\* A slot whose tracking word means nothing: free, or taken and not filled.
Stale(i) == \/ i \in ToSet(free)
            \/ \E e \in Engines : eng[e].pc = "fill" /\ eng[e].slot = i

\* The send of s is past the store of its tracking word and not yet over.
Filled(s) ==
  \E e \in Engines : /\ eng[e].s = s
                     /\ eng[e].pc \in {"publish", "tail", "decide", "ring"}
Unfilled(s) == \E e \in Engines : eng[e].s = s /\ eng[e].pc \in {"get", "fill"}

\* A send in progress owns its request, and its slot until it publishes it.
SendsOwn ==
  /\ \A e \in Engines : IF eng[e].pc = "idle" THEN eng[e] = IdleEng
                         ELSE eng[e].s \in Streams /\ req[eng[e].s] = "sending"
  /\ \A e1, e2 \in Engines :
       e1 # e2 /\ eng[e1].pc # "idle" => eng[e1].s # eng[e2].s
  /\ \A e \in Engines : eng[e].pc = "publish" =>
       /\ cookie[eng[e].s] = eng[e].slot
       /\ item[eng[e].slot].tracking = eng[e].s

\* A tracking word that is not stale names the request that waits there,
\* and that no worker has run.
TrackingNames ==
  \A i \in Slots : ~Stale(i) =>
    /\ item[i].tracking \in {NoStream, item[i].data}
    /\ item[i].tracking # NoStream =>
         LET s == item[i].tracking
         IN /\ cookie[s] = i /\ runs[s] = 0
            /\ req[s] \in {"sending", "queued"}
            /\ ~Unfilled(s)

\* A receive compares the word with the stream it copied, and gives its slot
\* back only with the word cleared.
ReceivesOwn ==
  \A r \in Readers :
    /\ rdr[r].pc \in {"claim", "free"} => rdr[r].s = item[rdr[r].slot].data
    /\ rdr[r].pc = "free" => item[rdr[r].slot].tracking = NoStream

\* The router can always tell: a request in the queue is either tracked in
\* its slot or was run; one that is not in the queue was never run.
RouterCanTell ==
  \A s \in Streams :
    /\ req[s] \in {"new", "retracted", "parked", "resend", "failed"}
         \/ Unfilled(s) => runs[s] = 0
    /\ req[s] = "queued" \/ Filled(s) =>
         /\ cookie[s] \in Slots
         /\ runs[s] = 1 \/ /\ ~Stale(cookie[s])
                           /\ item[cookie[s]].tracking = s
    /\ cookie[s] \in Slots /\ item[cookie[s]].tracking = s => runs[s] = 0

\* What makes claim and retraction exclude each other, as one invariant: the
\* tracking word of nxt_app_queue_item_t is the only arbiter.
TrackingInv == SendsOwn /\ TrackingNames /\ ReceivesOwn /\ RouterCanTell

\* No lost wake-up (nxt_app_queue_notify_decision): when every send has rung
\* or decided not to, and the other contexts run a request, a context does
\* not sleep without a doorbell over an item.
DoorbellHeard ==
  (/\ \A e \in Engines : eng[e].pc \in {"idle", "get", "fill", "publish"}
   /\ \A r \in Readers : rdr[r].pc \in {"wait", "run", "closed", "starting"}
   /\ \E r \in Readers : rdr[r].pc = "wait"
   /\ bells = 0)
  => queue = <<>>

\* The same with several readers, by the position of the item against a head
\* that moves, until a context dies or outlives its prototype: a doorbell that
\* the dead one had read is not sent again.
HeardUnhurt == crashes = 0 /\ orphans = {} => DoorbellHeard

\* Every request in the queue is claimed, retracted or answered in the end:
\* a worker wakes up for it, and the death of workers does not strand it.
QueuedServed ==
  \A s \in Streams : (req[s] \in {"queued", "parked", "resend"} /\ runs[s] = 0)
                       ~> (runs[s] = 1 \/ req[s] \in {"retracted", "failed"})
=============================================================================
