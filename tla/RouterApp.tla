------------------------------ MODULE RouterApp ------------------------------
(***************************************************************************)
(* How the router keeps the processes of one application: nxt_app_t and    *)
(* the functions nxt_router_app_*() and nxt_router_start_*() of            *)
(* src/src/nxt_router.c.                                                   *)
(*                                                                         *)
(* The main thread starts processes, hears of their readiness and death,   *)
(* reaps idle ones, restarts and frees the application.  The engines park  *)
(* requests, take acknowledgements, answers and deadlines.  What they      *)
(* share is changed under app->mutex, so an action is a critical section   *)
(* with what the same thread does next to its own state; a handler with    *)
(* several sections that another thread can come between is several        *)
(* actions, and now or draining remember where it is.                      *)
(*                                                                         *)
(* A start attempt and the worker that comes of it have one name in Atts.  *)
(***************************************************************************)
EXTENDS Integers, Sequences, FiniteSets

CONSTANTS Atts,          \* bound: start attempts and workers at one time
          Protos,        \* bound: prototype processes at one time
          Reqs,          \* requests; each is made once, on an engine of its own
          None,          \* NULL
          MaxProcesses,  \* "processes": {"max"}
          Spare,         \* "processes": {"spare"}
          Contexts,      \* contexts of a worker besides its main one
          MaxGen,        \* bound: restarts of the application
          Events         \* what may happen in an instance

\* Workers die, prototypes exit, a start fails in the router, START_PROCESS
\* waits in the socket's queue, the start deadline expires; detached work,
\* WebSockets, the idle timer, removal from the configuration; the queue is
\* full, the client closes, "limits": {"timeout"}, the deadline without it.
AllEvents == {"die", "exit", "fail", "backlog", "expire", "detach",
              "upgrade", "idle", "remove", "full", "close", "timeout",
              "ackdeadline"}

ASSUME NamesAssumption == /\ IsFiniteSet(Atts) /\ IsFiniteSet(Reqs)
                          /\ None \notin Atts \cup Protos
                          /\ "main" \notin Reqs
                          /\ {"queued", "fired"} \cap Atts = {}
ASSUME LimitsAssumption == /\ MaxProcesses \in Nat \ {0} /\ Spare \in Nat
                           /\ Spare <= MaxProcesses
                           /\ Contexts \in Nat /\ MaxGen \in Nat
ASSUME EventsAssumption == Events \subseteq AllEvents

VARIABLES att,          \* att[a]: the start attempt or worker
          pst,          \* pst[q]: the prototype process
          proto,        \* app->proto_port
          protoReqs,    \* app->proto_port_requests
          now,          \* what the running handler of the main thread has
                        \* left to do
          processes, pending, unaccounted,  \* counters of nxt_app_t
          hash,         \* app->port_hash_count
          active,       \* app->active_requests
          eco,          \* idle_ports, spare_ports, their counters, ports
          adj,          \* app->adjust_idle_work is queued
          timer,        \* app->joint->idle_timer is armed
          gen,          \* app->generation
          req,          \* req[r]: nxt_request_rpc_data_t
          ackq,         \* app->ack_waiting_req
          reqq,         \* app->requeue_req
          requeue,      \* app->requeue_pending
          draining,     \* threads in the loop of start_failed()
          use,          \* app->use_count
          free,         \* nxt_router_free_app() is posted or called
          conf,         \* the configurations that hold the application
          crashed       \* a thread used the queue of a closed shared port

starting == <<att, pst, proto, protoReqs, now>>
slots == <<processes, pending, unaccounted>>
idling == <<eco, adj, timer>>
parked == <<ackq, reqq, draining>>
holding == <<use, free>>
life == <<gen, conf, crashed>>
vars == <<starting, slots, hash, active, idling, req, parked, requeue,
          holding, life>>

\* app->max_pending_processes
MaxPending == IF Spare > 0 THEN Spare ELSE 1

-----------------------------------------------------------------------------
(* Records.                                                                *)

\* An attempt.  Slots of pending_processes: "held" reserved by a sweep,
\* "posted" to the main thread, "replay" run again by it, "wait" for the
\* prototype, "proto" armed for a prototype, "sent" armed for a worker,
\* "expiring" and "lost" being failed.  Slots of unaccounted_processes:
\* "lateP", "lateW".  Then a worker: "up"; "dying" dead and "orphan" alive,
\* with REMOVE_PID on its way; "quit" told to quit by the router and "stray"
\* by main, no longer in the application.
\* msg is START_PROCESS: "queued", "started" and "late" partly sent, before
\* and after the deadline, "sent".
Att(ph, pr, g, msg) == [ph |-> ph, pr |-> pr, gen |-> g, msg |-> msg]
NoAtt == Att("none", None, 0, "none")
Posted == Att("posted", None, 0, "none")

\* nxt_port_t of a worker: active_requests, active_websockets, detached,
\* detached_app, detached_router, idle_start; ctx counts its context ports
\* in port_hash.
Port(ac, ws, dt, ap, rt, start, ctx) ==
  [active |-> ac, ws |-> ws, det |-> dt, app |-> ap, router |-> rt,
   start |-> start, ctx |-> ctx]
NewPort == Port(0, 0, 0, 0, 0, "zero", 0)

\* spare_ports, idle_ports, idle_processes, detached_processes, ports.
Eco(s, i, n, d, p) == [spare |-> s, idle |-> i, n |-> n, det |-> d, port |-> p]

\* A request: what the router knows of it (st), where its message is (wk),
\* the worker and the context that took it, the generation of its shared
\* port, msg_info.cancel, the work posted for it, claimed_expired.
Req(st, wk, w, c, g, cancel, job, twice) ==
  [st |-> st, wk |-> wk, w |-> w, c |-> c, g |-> g, cancel |-> cancel,
   job |-> job, twice |-> twice]
NewReq == Req("new", "none", None, 0, 0, "queued", "none", "no")

Members(s) == {s[i] : i \in 1..Len(s)}

\* nxt_queue_remove(): the link of x leaves its queue.
Without(s, x) ==
  IF x \in Members(s)
    THEN LET i == CHOOSE j \in 1..Len(s) : s[j] = x
         IN  [j \in 1..(Len(s) - 1) |-> IF j < i THEN s[j] ELSE s[j + 1]]
    ELSE s

\* The same for every member of S.
Purged(s, S) ==
  LET kept == {i \in 1..Len(s) : s[i] \notin S}
  IN  [j \in 1..Cardinality(kept) |->
         s[CHOOSE i \in kept : Cardinality({k \in kept : k <= i}) = j]]

InPhase(S) == {a \in Atts : att[a].ph \in S}
InState(S) == {r \in Reqs : req[r].st \in S}

\* port->app # NULL and the main port in port_hash; port->pair[1] # -1; the
\* process runs.
Registered(a) == att[a].ph \in {"up", "dying", "orphan"}
Open(a) == att[a].ph \in {"up", "dying", "orphan", "quit"}
Alive(a) == att[a].ph \in {"up", "orphan", "quit", "stray"}

\* A name is taken again when no request refers to the old port.
Unused(a) == /\ att[a].ph = "none" /\ a \notin now
             /\ \A r \in Reqs : req[r].w # a \/ req[r].st = "done"
UnusedProto(q) == pst[q] = "gone" /\ \A a \in Atts : att[a].pr # q

Running == crashed = "no" /\ conf # "freed"
MainFree == Running /\ now = {} /\ "main" \notin draining /\ free # "called"
EngineFree(r) == Running /\ r \notin draining

\* After prefork: "spare" workers in spare_ports.
Init ==
  \E up \in SUBSET Atts, q \in Protos :
    /\ Cardinality(up) = Spare
    /\ att = [a \in Atts |-> IF a \in up THEN Att("up", q, 0, "none") ELSE NoAtt]
    /\ pst = [p \in Protos |-> IF p = q THEN "up" ELSE "gone"]
    /\ proto = q /\ protoReqs = 0 /\ now = {}
    /\ processes = Spare /\ pending = 0 /\ unaccounted = 0
    /\ hash = Spare /\ active = 0
    /\ \E s \in [1..Spare -> up] :
         /\ \A i, j \in 1..Spare : s[i] = s[j] => i = j
         /\ eco = Eco(s, <<>>, Spare, 0, [a \in Atts |-> NewPort])
    /\ adj = "no" /\ timer = "off" /\ gen = 0
    /\ req = [r \in Reqs |-> NewReq]
    /\ ackq = <<>> /\ reqq = <<>> /\ requeue = 0 /\ draining = {}
    /\ use = 2 /\ free = "no" /\ conf = "live" /\ crashed = "no"

-----------------------------------------------------------------------------
(* References, starts and failures.                                        *)

\* Mutant: the last but one reference frees.
UsesEarly(d, who) ==
  /\ use' = use + d
  /\ free' = IF d < 0 /\ use + d = 1
               THEN IF who = "main" THEN "called" ELSE "posted"
               ELSE free

\* nxt_router_app_use() by d: the last reference frees the application, at
\* once on the main thread, else by a post to it.
Uses(d, who) ==
  /\ use' = use + d
  /\ free' = IF d < 0 /\ use + d = 0
               THEN IF who = "main" THEN "called" ELSE "posted"
               ELSE free

\* Mutant: processes that expired starts left do not count.
WantsUncounted(pr, pe, un, ac, ha, n) ==
  /\ pr + pe < MaxProcesses /\ pe < MaxPending /\ requeue = 0
  /\ ac > ha + pe \/ Spare > n + pe

\* nxt_router_app_can_start() and nxt_router_app_need_start() after a change
\* of the counters they read.
Wants(pr, pe, un, ac, ha, n) ==
  /\ pr + pe + un < MaxProcesses /\ pe < MaxPending /\ requeue = 0
  /\ ac > ha + pe \/ Spare > n + pe

\* Mutant: the posted start has no reference.
StartIfUnheld(start, A, pe, d, who) ==
  \/ /\ start
     /\ \E a \in Atts : Unused(a) /\ att' = [A EXCEPT ![a] = Posted]
     /\ pending' = pe + 1 /\ Uses(d, who)
  \/ ~start /\ att' = A /\ pending' = pe /\ Uses(d, who)

\* Reserves a slot and calls nxt_router_start_app_process(), which takes a
\* reference and posts to the main thread.  A and pe are att and
\* pending_processes before it, d the other changes of use_count.
StartIf(start, A, pe, d, who) ==
  \/ /\ start
     /\ \E a \in Atts : Unused(a) /\ att' = [A EXCEPT ![a] = Posted]
     /\ pending' = pe + 1 /\ Uses(d + 1, who)
  \/ ~start /\ att' = A /\ pending' = pe /\ Uses(d, who)

\* nxt_router_app_drain_first(): the first of requeue_req, else of
\* ack_waiting_req, is taken out to be answered by its engine.
DrainFirst(R, zq, aq) ==
  IF zq # <<>>
    THEN /\ req' = [R EXCEPT ![Head(zq)].job = "err"]
         /\ reqq' = Tail(zq) /\ ackq' = aq
    ELSE /\ req' = [R EXCEPT ![Head(aq)].job = "err"]
         /\ reqq' = zq /\ ackq' = Tail(aq)

\* Mutant: only requeue_req is drained.
StartFailedHalf(who, pe, R, zq, aq) ==
  \/ /\ processes = 0 /\ pe = 0 /\ zq # <<>>
     /\ DrainFirst(R, zq, aq) /\ draining' = draining \cup {who}
  \/ /\ processes # 0 \/ pe # 0 \/ zq = <<>>
     /\ req' = R /\ reqq' = zq /\ ackq' = aq /\ UNCHANGED draining

\* nxt_router_app_start_failed() with pe pending processes left: without a
\* process it answers all requests, or the first of ack_waiting_req while
\* another start is pending.
StartFailed(who, pe, R, zq, aq) ==
  \/ /\ processes = 0 /\ pe = 0 /\ (zq # <<>> \/ aq # <<>>)
     /\ DrainFirst(R, zq, aq) /\ draining' = draining \cup {who}
  \/ /\ processes = 0 /\ pe # 0 /\ aq # <<>>
     /\ req' = [R EXCEPT ![Head(aq)].job = "err"]
     /\ ackq' = Tail(aq) /\ reqq' = zq /\ draining' = draining \cup {who}
  \/ /\ processes # 0 \/ (aq = <<>> /\ (pe # 0 \/ zq = <<>>))
     /\ req' = R /\ reqq' = zq /\ ackq' = aq /\ UNCHANGED draining

\* Mutant: one round only.
DrainStepOnce(who) ==
  /\ Running /\ who \in draining
  /\ draining' = draining \ {who}
  /\ UNCHANGED <<starting, slots, hash, active, idling, req, ackq, reqq, requeue,
                 holding, life>>

\* The next round of its loop.
DrainStep(who) ==
  /\ Running /\ who \in draining
  /\ \/ /\ processes = 0 /\ pending = 0 /\ (reqq # <<>> \/ ackq # <<>>)
        /\ DrainFirst(req, reqq, ackq) /\ UNCHANGED draining
     \/ /\ processes # 0 \/ pending # 0 \/ (reqq = <<>> /\ ackq = <<>>)
        /\ draining' = draining \ {who}
        /\ UNCHANGED <<req, reqq, ackq>>
  /\ UNCHANGED <<starting, slots, hash, active, idling, requeue, holding, life>>

\* Mutant: a cohort gives back one slot.
FailAttemptsOne(S, d) ==
  /\ att' = [a \in Atts |-> IF a \in S THEN NoAtt ELSE att[a]]
  /\ pending' = pending - 1
  /\ StartFailed("main", pending - 1, req, reqq, ackq)
  /\ Uses(d, "main")

\* The attempts S end without a process; d changes use_count.
FailAttempts(S, d) ==
  /\ att' = [a \in Atts |-> IF a \in S THEN NoAtt ELSE att[a]]
  /\ pending' = pending - Cardinality(S)
  /\ StartFailed("main", pending - Cardinality(S), req, reqq, ackq)
  /\ Uses(d, "main")

-----------------------------------------------------------------------------
(* The idle economy.                                                       *)

Queued(e, a) == a \in Members(e.spare) \cup Members(e.idle)

\* nxt_queue_chk_remove(&port->idle_link), idle_processes - 1
Out(e, a) == IF Queued(e, a)
               THEN Eco(Without(e.spare, a), Without(e.idle, a), e.n - 1,
                        e.det, e.port)
               ELSE e

\* nxt_router_app_spare_rebalance() for a port just taken out.
SpareRebalance(e, a) ==
  IF e.port[a].start = "zero" /\ e.n >= Spare
    THEN LET last == e.idle[Len(e.idle)]
         IN  Eco(Append(e.spare, last), Without(e.idle, last), e.n, e.det,
                 [e.port EXCEPT ![last].start = "zero"])
    ELSE e

\* nxt_router_app_port_busy(), and whether it starts a process.
PortBusy(e, a) == IF Queued(e, a) THEN SpareRebalance(Out(e, a), a) ELSE e
BusyStarts(e, a) ==
  /\ Queued(e, a)
  /\ Wants(processes, pending, unaccounted, active, hash, PortBusy(e, a).n)

\* nxt_router_app_port_idle(), and whether it posts adjust_idle_work.
\* Mutant: detached work does not keep a worker busy.
ReallyIdleDetached(e, a, open) ==
  /\ open /\ ~Queued(e, a)
  /\ e.port[a].active = 0 /\ e.port[a].ws = 0

ReallyIdle(e, a, open) ==
  /\ open /\ ~Queued(e, a)
  /\ e.port[a].active = 0 /\ e.port[a].ws = 0 /\ e.port[a].det = 0

PortIdle(e, a, open) ==
  IF ~ReallyIdle(e, a, open) THEN e
  ELSE IF e.n < Spare
    THEN Eco(Append(e.spare, a), e.idle, e.n + 1, e.det, e.port)
    ELSE Eco(e.spare, Append(e.idle, a), e.n + 1, e.det,
             [e.port EXCEPT ![a].start = "set"])

\* Mutant: the first port above "spare" is not reported.
IdleAdjustsLate(e, a, open) == ReallyIdle(e, a, open) /\ e.n > Spare /\ adj = "no"

IdleAdjusts(e, a, open) == ReallyIdle(e, a, open) /\ e.n = Spare /\ adj = "no"

\* The port handed back to the idle queues, with
\* the post of adjust_idle_work and its reference.
BackToIdle(e, a, open, d, who) ==
  LET post == IdleAdjusts(e, a, open)
  IN  /\ eco' = PortIdle(e, a, open)
      /\ adj' = IF post THEN "queued" ELSE adj
      /\ Uses(IF post THEN d + 1 ELSE d, who)

WithPort(e, a, p) == Eco(e.spare, e.idle, e.n, e.det, [e.port EXCEPT ![a] = p])
Counted(e, d) == Eco(e.spare, e.idle, e.n, e.det + d, e.port)

\* A reason to be detached is added or taken: ap and rt are the new counts of
\* reasons; port->detached and detached_processes follow.
Detached(e, a, ap, rt) ==
  LET p == e.port[a]
      d == IF ap + rt > 0 THEN 1 ELSE 0
  IN  Counted(WithPort(e, a, Port(p.active, p.ws, d, ap, rt, p.start, p.ctx)),
              d - p.det)

-----------------------------------------------------------------------------
(* Main thread: start attempts.                                            *)

Message == IF "backlog" \in Events THEN {"queued", "sent"} ELSE {"sent"}

\* nxt_router_start_app_process_handler() for a posted start, or for one that
\* port_ready() replays, which takes its reference itself.
StartHandler(a) ==
  LET d == IF att[a].ph = "posted" THEN -1 ELSE 0
  IN  /\ Running /\ "main" \notin draining
      /\ \/ att[a].ph = "posted" /\ now = {} /\ free # "called"
         \/ att[a].ph = "replay" /\ a \in now
      /\ now' = now \ {a}
      /\ \/ /\ proto # None /\ pst[proto] = "up"
            /\ \E m \in Message :
                 att' = [att EXCEPT ![a] = Att("sent", proto, gen, m)]
            /\ UNCHANGED <<pst, protoReqs, pending, req, parked>>
            /\ Uses(d, "main")
         \/ /\ proto = None /\ protoReqs > 0
            /\ att' = [att EXCEPT ![a] = Att("wait", None, 0, "none")]
            /\ protoReqs' = protoReqs + 1
            /\ UNCHANGED <<pst, pending, req, parked>>
            /\ Uses(d, "main")
         \/ /\ proto = None /\ protoReqs = 0
            /\ \E m \in Message, q \in Protos :
                 /\ UnusedProto(q)
                 /\ att' = [att EXCEPT ![a] = Att("proto", q, gen, m)]
            /\ protoReqs' = 1
            /\ UNCHANGED <<pst, pending, req, parked>>
            /\ Uses(d, "main")
         \/ /\ \/ proto # None /\ pst[proto] = "exited"
               \/ "fail" \in Events /\ (proto # None \/ protoReqs = 0)
            /\ FailAttempts({a}, d)
            /\ UNCHANGED <<pst, protoReqs>>
      /\ UNCHANGED <<proto, processes, unaccounted, hash, active, idling,
                     requeue, life>>

\* The attempts that a prototype start owns: its own and those that joined.
Cohort == InPhase({"wait", "proto"})

\* nxt_router_app_port_error() for an attempt that left no process: one slot
\* goes back, for a prototype start the whole cohort.
PortError(a) ==
  /\ FailAttempts(IF att[a].ph = "proto" THEN Cohort ELSE {a}, 0)
  /\ protoReqs' = IF att[a].ph = "proto" THEN 0 ELSE protoReqs
  /\ UNCHANGED unaccounted

\* The same for an expired start that did leave one: the rest of the cohort
\* goes back, then nxt_router_app_start_expired() follows for a.
PortErrorExpired(a) ==
  LET rest == IF att[a].ph = "proto" THEN Cohort \ {a} ELSE {}
  IN  /\ att' = [b \in Atts |->
                   IF b = a THEN Att("expiring", att[a].pr, att[a].gen,
                                     IF att[a].ph = "proto" THEN "proto" ELSE "sent")
                   ELSE IF b \in rest THEN NoAtt ELSE att[b]]
      /\ pending' = pending - Cardinality(rest)
      /\ IF rest # {} THEN StartFailed("main", pending - Cardinality(rest),
                                       req, reqq, ackq)
                      ELSE UNCHANGED <<req, parked>>
      /\ protoReqs' = IF att[a].ph = "proto" THEN 0 ELSE protoReqs
      /\ now' = {a}
      /\ UNCHANGED <<unaccounted, holding>>

\* nxt_router_start_timeout(): a message still queued is recalled, one partly
\* sent is waited for, one sent has left a process.
StartTimeout(a) ==
  /\ MainFree /\ "expire" \in Events /\ att[a].ph \in {"proto", "sent"}
  /\ \/ /\ att[a].msg = "queued" /\ PortError(a) /\ UNCHANGED now
     \/ /\ att[a].msg = "sent" /\ PortErrorExpired(a)
     \/ /\ att[a].msg = "started"
        /\ att' = [att EXCEPT ![a].msg = "late"]
        /\ UNCHANGED <<pending, unaccounted, protoReqs, now, req, parked, holding>>
  /\ UNCHANGED <<pst, proto, processes, hash, active, idling, requeue, life>>

\* nxt_router_app_start_expired(): the slot moves to unaccounted_processes
\* and a reaper takes the stream.
StartExpired(a) ==
  /\ Running /\ "main" \notin draining /\ a \in now /\ att[a].ph = "expiring"
  /\ att' = [att EXCEPT ![a] =
               Att(IF att[a].msg = "proto" THEN "lateP" ELSE "lateW",
                   att[a].pr, att[a].gen, "sent")]
  /\ pending' = pending - 1 /\ unaccounted' = unaccounted + 1
  /\ StartFailed("main", pending - 1, req, reqq, ackq)
  /\ now' = {}
  /\ UNCHANGED <<pst, proto, protoReqs, processes, hash, active, idling,
                 requeue, holding, life>>

\* START_PROCESS leaves the socket's queue, with a payload maybe in parts;
\* nxt_router_start_buf_completion() fails a start that expired meanwhile,
\* with the process it left or, dropped, without.
MessageLeaves(a) ==
  /\ MainFree /\ att[a].ph \in {"proto", "sent"}
  /\ \/ /\ att[a].msg = "queued"
        /\ \E m \in IF att[a].ph = "proto" THEN {"started", "sent"} ELSE {"sent"} :
             att' = [att EXCEPT ![a].msg = m]
        /\ att[a].ph = "sent" => pst[att[a].pr] # "exited"
        /\ UNCHANGED <<pending, unaccounted, protoReqs, now, req, parked, holding>>
     \/ /\ att[a].msg = "started"
        /\ att' = [att EXCEPT ![a].msg = "sent"]
        /\ UNCHANGED <<pending, unaccounted, protoReqs, now, req, parked, holding>>
     \/ /\ att[a].msg = "late" /\ PortErrorExpired(a)
     \/ /\ att[a].msg = "late" /\ PortError(a) /\ UNCHANGED now
  /\ UNCHANGED <<pst, proto, processes, hash, active, idling, requeue, life>>

\* nxt_router_app_port_ready() for a prototype: it becomes proto_port unless
\* the application was restarted or has one; the cohort is replayed.
ProtoReady(a) ==
  LET late == att[a].ph = "lateP"
      superseded == att[a].gen # gen \/ proto # None
  IN  /\ MainFree /\ att[a].ph \in {"proto", "lateP"} /\ att[a].msg = "sent"
      /\ unaccounted' = IF late THEN unaccounted - 1 ELSE unaccounted
      /\ att' = [b \in Atts |->
                   IF late THEN IF b = a THEN NoAtt ELSE att[b]
                   ELSE IF b \in Cohort THEN Att("replay", None, 0, "none")
                   ELSE att[b]]
      /\ now' = IF late THEN {} ELSE Cohort
      /\ protoReqs' = IF late THEN protoReqs ELSE 0
      /\ pst' = [pst EXCEPT ![att[a].pr] = IF superseded THEN "quit" ELSE "up"]
      /\ proto' = IF superseded THEN proto ELSE att[a].pr
      /\ UNCHANGED <<processes, pending, hash, active, idling, req, parked,
                     requeue, holding, life>>

\* nxt_router_app_port_ready() for a worker: it is registered, requests that
\* wait for it are posted to be sent again and its port is idle; one of an
\* older generation is told to quit.
WorkerReady(a) ==
  LET late == att[a].ph = "lateW"
      pe == IF late THEN pending ELSE pending - 1
      un == IF late THEN unaccounted - 1 ELSE unaccounted
  IN  /\ MainFree /\ att[a].ph \in {"sent", "lateW"} /\ att[a].msg = "sent"
      /\ unaccounted' = un
      /\ \/ /\ att[a].gen # gen
            /\ StartIf(Wants(processes, pe, un, active, hash, eco.n),
                       [att EXCEPT ![a].ph = "quit"], pe, 0, "main")
            /\ UNCHANGED <<processes, hash, eco, adj, req, reqq>>
         \/ /\ att[a].gen = gen
            /\ att' = [att EXCEPT ![a].ph = "up"] /\ pending' = pe
            /\ processes' = processes + 1 /\ hash' = hash + 1
            /\ req' = [r \in Reqs |->
                         IF r \in Members(reqq) THEN [req[r] EXCEPT !.job = "resend"]
                                                ELSE req[r]]
            /\ reqq' = <<>>
            /\ BackToIdle(WithPort(eco, a, NewPort), a, TRUE, 0, "main")
      /\ UNCHANGED <<pst, proto, protoReqs, now, active, timer, ackq, draining,
                     requeue, life>>

\* A process dies before it is ready and REMOVE_PID brings its stream: the
\* error handler of its attempt, or nxt_router_app_unaccounted_release().
StartDies(a) ==
  /\ MainFree /\ "die" \in Events /\ att[a].msg = "sent"
  /\ \/ att[a].ph \in {"proto", "sent"} /\ PortError(a)
     \/ /\ att[a].ph \in {"lateP", "lateW"}
        /\ att' = [att EXCEPT ![a] = NoAtt]
        /\ unaccounted' = unaccounted - 1
        /\ UNCHANGED <<pending, protoReqs, req, parked, holding>>
  /\ UNCHANGED <<pst, proto, now, processes, hash, active, idling, requeue, life>>

-----------------------------------------------------------------------------
(* Main thread: deaths.                                                    *)

\* A prototype exits; main tells its workers to quit and reports them.
ProtoExit(q) ==
  /\ Running /\ \/ pst[q] = "up" /\ "exit" \in Events
                \/ pst[q] = "quit"
  /\ pst' = [pst EXCEPT ![q] = "exited"]
  /\ att' = [a \in Atts |-> IF att[a].ph = "up" /\ att[a].pr = q
                              THEN [att[a] EXCEPT !.ph = "orphan"] ELSE att[a]]
  /\ UNCHANGED <<proto, protoReqs, now, slots, hash, active, idling, req, parked,
                 requeue, holding, life>>

\* REMOVE_PID of a prototype: nxt_router_app_port_close() clears proto_port,
\* nxt_port_rpc_remove_peer() fails the starts sent to it, one by one.
ProtoRemoved(q) ==
  LET lost == {a \in InPhase({"sent"}) : att[a].pr = q}
  IN  /\ MainFree /\ pst[q] = "exited"
      /\ pst' = [pst EXCEPT ![q] = "gone"]
      /\ proto' = IF proto = q THEN None ELSE proto
      /\ now' = lost
      /\ att' = [a \in Atts |-> IF a \in lost THEN Att("lost", None, 0, "none")
                                            ELSE att[a]]
      /\ UNCHANGED <<protoReqs, slots, hash, active, idling, req, parked,
                     requeue, holding, life>>

StartLost(a) ==
  /\ Running /\ "main" \notin draining /\ a \in now /\ att[a].ph = "lost"
  /\ PortError(a) /\ now' = now \ {a}
  /\ UNCHANGED <<pst, proto, processes, hash, active, idling, requeue, life>>

\* A worker dies or, told to quit, exits.
WorkerExit(a) ==
  /\ Running
  /\ \/ att[a].ph = "up" /\ "die" \in Events
        /\ att' = [att EXCEPT ![a].ph = "dying"] /\ UNCHANGED now
     \/ att[a].ph = "stray" /\ a \notin now
        /\ att' = [att EXCEPT ![a] = NoAtt] /\ UNCHANGED now
     \/ att[a].ph = "quit" /\ MainFree
        /\ att' = [att EXCEPT ![a] = NoAtt]
        /\ now' = IF eco.port[a].ctx > 0 THEN {a} ELSE {}
  /\ UNCHANGED <<pst, proto, protoReqs, slots, hash, active, idling, req, parked,
                 requeue, holding, life>>

\* nxt_router_app_port_close() for the main port of a worker.  When the last
\* process is gone and only its replacement is reserved, the requests that
\* wait are posted to their engines first and the start is held.
PortClose(a) ==
  LET e == Detached(PortBusy(eco, a), a, 0, 0)
      det == eco.port[a].det
      pr == processes - 1
      start == Wants(pr, pending, unaccounted, active, hash - 1, e.n)
      sweep == /\ start /\ pr = 0 /\ pending = 0 /\ unaccounted = 0
               /\ ackq # <<>>
      A == [att EXCEPT ![a] =
              IF att[a].ph = "orphan" THEN [att[a] EXCEPT !.ph = "stray"] ELSE NoAtt]
  IN  /\ MainFree
      /\ \/ att[a].ph = "dying"
         \/ att[a].ph = "orphan" /\ pst[att[a].pr] # "exited"
      /\ processes' = pr /\ hash' = hash - 1 /\ eco' = e
      /\ now' = IF eco.port[a].ctx > 0 THEN {a} ELSE {}
      /\ \/ /\ sweep
            /\ \E b \in Atts : Unused(b)
                 /\ att' = [A EXCEPT ![b] = Att("held", None, 0, "none")]
            /\ pending' = 1
            /\ req' = [r \in Reqs |->
                         IF r \in Members(ackq) THEN [req[r] EXCEPT !.job = "requeue"]
                                                ELSE req[r]]
            /\ ackq' = <<>> /\ requeue' = Len(ackq)
            /\ Uses(Len(ackq) - det, "main")
         \/ /\ ~sweep
            /\ StartIf(start, A, pending, -det, "main")
            /\ UNCHANGED <<req, ackq, requeue>>
      /\ UNCHANGED <<pst, proto, protoReqs, unaccounted, active, adj, timer, reqq,
                     draining, life>>

\* The same for a context port, which is closed after the main port.
ContextClose(a) ==
  /\ Running /\ a \in now /\ att[a].ph \in {"none", "stray"}
  /\ hash' = hash - 1
  /\ eco' = WithPort(eco, a, [eco.port[a] EXCEPT !.ctx = @ - 1])
  /\ now' = IF eco.port[a].ctx = 1 THEN {} ELSE now
  /\ UNCHANGED <<att, pst, proto, protoReqs, slots, active, adj, timer, req,
                 parked, requeue, holding, life>>

\* nxt_router_new_port_handler() for a context port of a worker.
ContextReady(a) ==
  /\ MainFree /\ Registered(a) /\ eco.port[a].ctx < Contexts
  /\ hash' = hash + 1
  /\ eco' = WithPort(eco, a, [eco.port[a] EXCEPT !.ctx = @ + 1])
  /\ UNCHANGED <<starting, slots, active, adj, timer, req, parked, requeue,
                 holding, life>>

-----------------------------------------------------------------------------
(* Main thread: detached work, the idle timer, the life of the application. *)

\* nxt_router_detached_apply(), both edges.
DetachedStart(a) ==
  LET p == eco.port[a]
      first == p.det = 0
      e == Detached(eco, a, p.app + 1, p.router)
  IN  /\ MainFree /\ "detach" \in Events /\ Registered(a) /\ use # 0
      /\ p.app < 1 + Contexts
      /\ eco' = IF first THEN PortBusy(e, a) ELSE e
      /\ StartIf(first /\ BusyStarts(e, a), att, pending, IF first THEN 1 ELSE 0,
                 "main")
      /\ UNCHANGED <<pst, proto, protoReqs, now, processes, unaccounted, hash,
                     active, adj, timer, req, parked, requeue, life>>

DetachedFinish(a) ==
  LET p == eco.port[a]
      last == p.app = 1 /\ p.router = 0
      e == Detached(eco, a, p.app - 1, p.router)
  IN  /\ MainFree /\ "detach" \in Events /\ Registered(a) /\ use # 0 /\ p.app > 0
      /\ IF last THEN BackToIdle(e, a, Open(a), -1, "main")
                 ELSE eco' = e /\ UNCHANGED <<adj, holding>>
      /\ UNCHANGED <<starting, slots, hash, active, timer, req, parked, requeue,
                     life>>

\* nxt_router_adjust_idle_timer() begins, as queued work or by the timer.
AdjustBegin ==
  /\ MainFree
  /\ \/ adj = "queued" /\ adj' = "no" /\ now' = {"queued"} /\ UNCHANGED timer
     \/ /\ timer = "on" /\ timer' = "off" /\ now' = {"fired"} /\ UNCHANGED adj
  /\ UNCHANGED <<att, pst, proto, protoReqs, slots, hash, active, eco, req, parked,
                 requeue, holding, life>>

\* One round: the longest idle worker is due and told to quit.
AdjustReap ==
  LET a == Head(eco.idle)
  IN  /\ Running /\ now \cap {"queued", "fired"} # {} /\ eco.n > Spare
      /\ "idle" \in Events
      /\ eco' = Out(eco, a)
      /\ att' = [att EXCEPT ![a].ph = "quit"]
      /\ processes' = processes - 1 /\ hash' = hash - 1
      /\ UNCHANGED <<pst, proto, protoReqs, now, pending, unaccounted, active, adj,
                     timer, req, parked, requeue, holding, life>>

\* Its end: the timer is set for the first worker that is not due.
AdjustEnd ==
  /\ Running /\ now \cap {"queued", "fired"} # {}
  /\ timer' = IF eco.n > Spare THEN "on" ELSE "off"
  /\ now' = {}
  /\ Uses(IF "queued" \in now THEN -1 ELSE 0, "main")
  /\ UNCHANGED <<att, pst, proto, protoReqs, slots, hash, active, eco, adj, req,
                 parked, requeue, life>>

\* nxt_router_app_restart_handler(): a new generation with a shared port of
\* its own; the queue of the old one is unmapped.
Restart ==
  /\ MainFree /\ conf = "live" /\ gen < MaxGen
  /\ gen' = gen + 1
  /\ pst' = IF proto # None /\ pst[proto] = "up"
              THEN [pst EXCEPT ![proto] = "quit"] ELSE pst
  /\ proto' = None
  /\ UNCHANGED <<att, protoReqs, now, slots, hash, active, idling, req, parked,
                 requeue, holding, conf, crashed>>

\* nxt_router_apps_sort() drops the reference of the list of applications;
\* the release of the old configuration, on an engine without requests of
\* it, the other one.
RemoveApp ==
  /\ MainFree /\ "remove" \in Events /\ conf = "live"
  /\ conf' = "unlinked" /\ Uses(-1, "main")
  /\ UNCHANGED <<starting, slots, hash, active, idling, req, parked, requeue, gen,
                 crashed>>

ConfRelease ==
  /\ Running /\ conf = "unlinked"
  /\ InState({"wait", "failing", "acked", "upgraded"}) = {}
  /\ conf' = "released" /\ Uses(-1, "engine")
  /\ UNCHANGED <<starting, slots, hash, active, idling, req, parked, requeue, gen,
                 crashed>>

\* nxt_router_free_app(): every port is taken out, the prototype quits.
FreeApp ==
  LET all == {a \in Atts : Registered(a)}
      ctxs == {x \in Atts \X (1..Contexts) : x[2] <= eco.port[x[1]].ctx}
  IN  /\ Running /\ now = {} /\ "main" \notin draining /\ free # "no"
      /\ conf' = "freed"
      /\ att' = [a \in Atts |-> IF a \in all THEN [att[a] EXCEPT !.ph = "quit"]
                                            ELSE att[a]]
      /\ processes' = processes - Cardinality(all)
      /\ hash' = hash - Cardinality(all) - Cardinality(ctxs)
      /\ eco' = Eco(Purged(eco.spare, all), Purged(eco.idle, all),
                    eco.n - Cardinality({a \in all : Queued(eco, a)}), eco.det,
                    [a \in Atts |-> [eco.port[a] EXCEPT !.ctx = 0]])
      /\ proto' = None
      /\ UNCHANGED <<pst, protoReqs, now, pending, unaccounted, active, adj, timer,
                     gen, req, parked, requeue, holding, crashed>>

-----------------------------------------------------------------------------
(* Engines: the life of a request.                                         *)

OnShared(r) == req[r].st \in {"wait", "failing"}
Linked(r) == req[r].st \in {"wait", "failing", "acked", "upgraded"}

\* nxt_router_msg_retract() reads the queue of the shared port of r at most
\* once; it succeeds while no worker took the message.
Reads(r) == OnShared(r) /\ req[r].cancel = "queued"
Mapped(r) == Reads(r) => req[r].g = gen
Retracts(r) == /\ OnShared(r)
               /\ \/ req[r].cancel = "queued" /\ req[r].wk = "queued"
                  \/ req[r].cancel = "retracted"

\* Mutant: an upgraded request is taken off active_requests again.
UnlinkTwice(r, job, d) ==
  LET w == req[r].w
      p == eco.port[w]
      released == IF req[r].st = "acked"
        THEN Port(p.active - 1, p.ws, p.det, p.app, p.router, p.start, p.ctx)
        ELSE Port(p.active, p.ws - 1, p.det, p.app, p.router, p.start, p.ctx)
  IN  /\ Mapped(r)
      /\ req' = [req EXCEPT ![r] =
                   Req("done", IF Retracts(r) THEN "none" ELSE req[r].wk, w,
                       req[r].c, req[r].g, req[r].cancel, job, "no")]
      /\ ackq' = Without(ackq, r) /\ reqq' = Without(reqq, r)
      /\ active' = active - 1
      /\ IF OnShared(r)
           THEN Uses(d - 1, r) /\ UNCHANGED <<eco, adj>>
           ELSE BackToIdle(WithPort(eco, w, released), w, Open(w), d - 1, r)

\* nxt_request_rpc_data_unlink() with nxt_router_app_port_release(): the
\* message is retracted, the port released, the request taken out of the
\* queue it waits in, the reference dropped.  d changes use_count as well.
Unlink(r, job, d) ==
  LET w == req[r].w
      p == eco.port[w]
      released == IF req[r].st = "acked"
        THEN Port(p.active - 1, p.ws, p.det, p.app, p.router, p.start, p.ctx)
        ELSE Port(p.active, p.ws - 1, p.det, p.app, p.router, p.start, p.ctx)
  IN  /\ Mapped(r)
      /\ req' = [req EXCEPT ![r] =
                   Req("done", IF Retracts(r) THEN "none" ELSE req[r].wk, w,
                       req[r].c, req[r].g, req[r].cancel, job, "no")]
      /\ ackq' = Without(ackq, r) /\ reqq' = Without(reqq, r)
      /\ active' = IF req[r].st = "upgraded" THEN active ELSE active - 1
      /\ IF OnShared(r)
           THEN Uses(d - 1, r) /\ UNCHANGED <<eco, adj>>
           ELSE BackToIdle(WithPort(eco, w, released), w, Open(w), d - 1, r)

\* nxt_router_process_http_request(), nxt_router_app_port_get() and the send
\* of the message, which a full queue refuses.
PortGet(r) ==
  LET start == Wants(processes, pending, unaccounted, active + 1, hash, eco.n)
      unanswerable == ~start /\ processes = 0 /\ pending = 0
  IN  /\ Running /\ req[r].st = "new" /\ conf \in {"live", "unlinked"}
      /\ active' = active + 1
      /\ \E sent \in IF "full" \in Events THEN {"wait", "failing"} ELSE {"wait"} :
           LET R == [req EXCEPT ![r] =
                       Req(sent, IF sent = "wait" THEN "queued" ELSE "none", None, 0,
                           gen, "queued", "none", "no")]
           IN  \/ /\ unanswerable
                  /\ StartFailed(r, pending, R, reqq, Append(ackq, r))
                  /\ Uses(1, r) /\ UNCHANGED <<att, pending>>
               \/ /\ ~unanswerable
                  /\ StartIf(start, att, pending, 1, r)
                  /\ req' = R /\ ackq' = Append(ackq, r)
                  /\ UNCHANGED <<reqq, draining>>
      /\ UNCHANGED <<pst, proto, protoReqs, now, processes, unaccounted, hash,
                     idling, requeue, life>>

\* A context of a worker takes the message, and acknowledges it.
Claim(r, w, c) ==
  /\ Running /\ req[r].wk = "queued" /\ req[r].cancel = "queued"
  /\ Alive(w) /\ att[w].gen = req[r].g /\ c <= eco.port[w].ctx
  /\ req' = [req EXCEPT ![r].wk = "taken", ![r].w = w, ![r].c = c]
  /\ UNCHANGED <<starting, slots, hash, active, idling, parked, requeue, holding,
                 life>>

SendAck(r) ==
  /\ Running /\ req[r].wk = "taken" /\ Alive(req[r].w)
  /\ req' = [req EXCEPT ![r].wk = "acked"]
  /\ UNCHANGED <<starting, slots, hash, active, idling, parked, requeue, holding,
                 life>>

\* nxt_router_req_headers_ack_handler(): the worker is busy; one that is no
\* longer in port_hash fails the request.
HeadersAck(r) ==
  LET w == req[r].w
      p == PortBusy(eco, w).port[w]
      known == IF req[r].c = 0 THEN Registered(w) ELSE eco.port[w].ctx >= req[r].c
  IN  /\ EngineFree(r) /\ req[r].st = "wait" /\ req[r].wk = "acked"
      /\ ackq' = Without(ackq, r) /\ reqq' = Without(reqq, r)
      /\ \/ /\ ~known
            /\ req' = [req EXCEPT ![r].st = "failing"]
            /\ UNCHANGED <<att, pending, eco, holding>>
         \/ /\ known
            /\ req' = [req EXCEPT ![r].st = "acked"]
            /\ eco' = WithPort(PortBusy(eco, w), w,
                               Port(p.active + 1, p.ws, p.det, p.app, p.router,
                                    p.start, p.ctx))
            /\ StartIf(BusyStarts(eco, w), att, pending, 0, r)
      /\ UNCHANGED <<pst, proto, protoReqs, now, processes, unaccounted, hash,
                     active, adj, timer, draining, requeue, life>>

\* nxt_router_app_abandoned_settle() for a request the router gave up on.
Settle(r) ==
  LET w == req[r].w
      p == eco.port[w]
      e == Detached(eco, w, p.app, p.router - 1)
  IN  /\ req' = [req EXCEPT ![r].st = "done"]
      /\ \/ /\ p.router = 1 /\ p.app = 0
            /\ BackToIdle(e, w, Open(w), -2, r)
         \/ /\ p.router > 1 \/ (p.router = 1 /\ p.app > 0)
            /\ eco' = e /\ Uses(-1, r) /\ UNCHANGED adj
         \/ p.router = 0 /\ Uses(-1, r) /\ UNCHANGED <<eco, adj>>
      /\ UNCHANGED <<active, ackq, reqq>>

\* nxt_router_response_ready_handler() for the last message of the worker,
\* or, in PeerGone, nxt_router_response_error_handler() when
\* nxt_router_app_process_remove_pid() tells the engine that it is gone.
Response(r) ==
  /\ EngineFree(r) /\ req[r].wk = "acked" /\ att[req[r].w].ph # "none"
  /\ \/ req[r].st \in {"acked", "failing"} /\ Unlink(r, req[r].job, 0)
     \/ req[r].st = "abandoned" /\ Settle(r)
  /\ UNCHANGED <<starting, slots, hash, timer, draining, requeue, life>>

PeerGone(r) ==
  /\ EngineFree(r) /\ req[r].w \notin now
  /\ \/ /\ req[r].st \in {"acked", "upgraded"}
        /\ att[req[r].w].ph \in {"none", "stray"}
        /\ Unlink(r, req[r].job, 0)
     \/ /\ req[r].st = "abandoned" /\ att[req[r].w].ph \in {"none", "stray"}
        /\ Settle(r)
  /\ UNCHANGED <<starting, slots, hash, timer, draining, requeue, life>>

\* The answer 101: the request becomes a WebSocket of its worker.
Upgrade(r) ==
  LET w == req[r].w
      p == eco.port[w]
  IN  /\ EngineFree(r) /\ "upgrade" \in Events /\ req[r].st = "acked"
      /\ att[w].ph # "none"
      /\ req' = [req EXCEPT ![r].st = "upgraded"]
      /\ eco' = WithPort(eco, w, Port(p.active - 1, p.ws + 1, p.det, p.app,
                                      p.router, p.start, p.ctx))
      /\ active' = active - 1
      /\ UNCHANGED <<starting, slots, hash, adj, timer, parked, requeue, holding,
                     life>>

\* The client closes, the WebSocket ends or an error answer is sent.
Close(r) ==
  /\ EngineFree(r)
  /\ \/ "close" \in Events /\ req[r].st \in {"wait", "acked"}
     \/ req[r].st \in {"failing", "upgraded"}
  /\ Unlink(r, req[r].job, 0)
  /\ UNCHANGED <<starting, slots, hash, timer, draining, requeue, life>>

\* nxt_router_app_timeout() before the acknowledgement: a request that a
\* worker took is answered at the second expiry only.
AckTimeout(r) ==
  /\ EngineFree(r) /\ req[r].st = "wait"
  /\ "timeout" \in Events \/ ("ackdeadline" \in Events /\ ~Retracts(r))
  /\ \/ /\ ~Retracts(r) /\ req[r].twice = "no" /\ Mapped(r)
        /\ req' = [req EXCEPT ![r].cancel = "claimed", ![r].twice = "yes"]
        /\ UNCHANGED <<active, eco, adj, ackq, reqq, holding>>
     \/ /\ Retracts(r) \/ req[r].twice = "yes"
        /\ Unlink(r, req[r].job, 0)
  /\ UNCHANGED <<starting, slots, hash, timer, draining, requeue, life>>

\* The same after it: nxt_router_app_abandon() keeps the worker out of the
\* idle queues, then the request is unlinked.
AppTimeout(r) ==
  LET w == req[r].w
      e == Detached(eco, w, eco.port[w].app, eco.port[w].router + 1)
      b == PortBusy(e, w)
  IN  /\ EngineFree(r) /\ "timeout" \in Events /\ req[r].st = "acked"
      /\ eco' = WithPort(b, w, [b.port[w] EXCEPT !.active = @ - 1])
      /\ active' = active - 1
      /\ req' = [req EXCEPT ![r].st = "abandoned"]
      /\ StartIf(BusyStarts(e, w), att, pending, e.det - eco.det, r)
      /\ UNCHANGED <<pst, proto, protoReqs, now, processes, unaccounted, hash, adj,
                     timer, parked, requeue, life>>

\* nxt_router_http_request_error(), the work that DrainFirst posts.
ErrHandler(r) ==
  /\ EngineFree(r) /\ req[r].job = "err"
  /\ \/ Linked(r) /\ Unlink(r, "none", 0)
     \/ /\ ~Linked(r) /\ req' = [req EXCEPT ![r].job = "none"]
        /\ UNCHANGED <<active, eco, adj, ackq, reqq, holding>>
  /\ UNCHANGED <<starting, slots, hash, timer, draining, requeue, life>>

\* nxt_router_app_requeue_handler(): a request that no worker took is parked
\* for the next process, another one answered; the last handler makes the
\* start that the sweep held.
RequeueHandler(r) ==
  LET last == requeue = 1
      d == IF last THEN 0 ELSE -1
  IN  /\ EngineFree(r) /\ req[r].job = "requeue"
      /\ requeue' = requeue - 1
      /\ att' = [a \in Atts |-> IF last /\ att[a].ph = "held" THEN Posted ELSE att[a]]
      /\ \/ /\ Retracts(r) /\ Mapped(r)
            /\ req' = [req EXCEPT ![r].cancel = "retracted", ![r].wk = "none",
                                  ![r].job = "none"]
            /\ reqq' = Append(reqq, r)
            /\ Uses(d, r) /\ UNCHANGED <<active, eco, adj, ackq>>
         \/ /\ Linked(r) /\ ~Retracts(r) /\ Unlink(r, "none", d)
         \/ /\ ~Linked(r) /\ req' = [req EXCEPT ![r].job = "none"]
            /\ Uses(d, r) /\ UNCHANGED <<active, eco, adj, ackq, reqq>>
      /\ UNCHANGED <<pst, proto, protoReqs, now, slots, hash, timer, draining, life>>

\* nxt_router_app_resend(): the request is sent again and, when the new
\* process is gone too, a process started; a full queue is tried again, a
\* limited number of times.
Resend(r) ==
  LET alone == processes = 0 /\ pending = 0
      start == alone /\ Wants(processes, pending, unaccounted, active, hash, eco.n)
      R == [req EXCEPT ![r].cancel = "queued", ![r].wk = "queued", ![r].job = "none"]
  IN  /\ EngineFree(r) /\ req[r].job = "resend"
      /\ \/ /\ ~OnShared(r) /\ req' = [req EXCEPT ![r].job = "none"]
            /\ UNCHANGED <<att, pending, active, eco, adj, parked, holding>>
         \/ /\ OnShared(r) /\ req[r].g = gen /\ alone /\ ~start
            /\ StartFailed(r, pending, R, reqq, Append(ackq, r))
            /\ UNCHANGED <<att, pending, active, eco, adj, holding>>
         \/ /\ OnShared(r) /\ req[r].g = gen /\ ~(alone /\ ~start)
            /\ StartIf(start, att, pending, 0, r)
            /\ req' = R /\ ackq' = Append(ackq, r)
            /\ UNCHANGED <<active, eco, adj, reqq, draining>>
         \/ /\ OnShared(r) /\ req[r].g = gen /\ "full" \in Events
            /\ start /\ StartIf(TRUE, att, pending, 0, r)
            /\ UNCHANGED <<req, active, eco, adj, parked>>
         \/ /\ OnShared(r) /\ req[r].g = gen /\ "full" \in Events
            /\ ~start /\ Unlink(r, "none", 0)
            /\ UNCHANGED <<att, pending, draining>>
      /\ UNCHANGED <<pst, proto, protoReqs, now, processes, unaccounted, hash,
                     timer, requeue, life>>

\* A handler of r reads the queue of a shared port that Restart closed.
Fault(r) ==
  /\ EngineFree(r)
  /\ \/ /\ ~Mapped(r)
        /\ \/ req[r].job \in {"err", "requeue"} \/ req[r].st = "failing"
           \/ Events \cap {"close", "timeout", "ackdeadline"} # {}
     \/ req[r].job = "resend" /\ OnShared(r) /\ req[r].g # gen
  /\ crashed' = "yes"
  /\ UNCHANGED <<starting, slots, hash, active, idling, req, parked, requeue,
                 holding, gen, conf>>

Next ==
  \/ \E a \in Atts :
       \/ StartHandler(a) \/ StartTimeout(a) \/ StartExpired(a)
       \/ MessageLeaves(a) \/ ProtoReady(a) \/ WorkerReady(a)
       \/ StartDies(a) \/ StartLost(a) \/ WorkerExit(a) \/ PortClose(a)
       \/ ContextClose(a) \/ ContextReady(a)
       \/ DetachedStart(a) \/ DetachedFinish(a)
  \/ \E q \in Protos : ProtoExit(q) \/ ProtoRemoved(q)
  \/ \E who \in Reqs \cup {"main"} : DrainStep(who)
  \/ AdjustBegin \/ AdjustReap \/ AdjustEnd
  \/ Restart \/ RemoveApp \/ ConfRelease \/ FreeApp
  \/ \E r \in Reqs :
       \/ PortGet(r) \/ SendAck(r) \/ HeadersAck(r) \/ Response(r)
       \/ PeerGone(r) \/ Upgrade(r) \/ Close(r) \/ AckTimeout(r)
       \/ AppTimeout(r) \/ ErrHandler(r) \/ RequeueHandler(r)
       \/ Resend(r) \/ Fault(r)
       \/ \E w \in Atts, c \in 0..Contexts : Claim(r, w, c)

Spec == Init /\ [][Next]_vars

\* Work posted to a thread runs and timers fire, in spite of other work; a
\* worker takes what is queued, acknowledges and answers.  Nothing is assumed
\* of a process that is being started, nor of failures and other events.
Fairness ==
  /\ \A a \in Atts : /\ SF_vars(StartHandler(a)) /\ SF_vars(StartTimeout(a))
                     /\ SF_vars(MessageLeaves(a)) /\ WF_vars(StartExpired(a))
  /\ \A who \in Reqs \cup {"main"} : WF_vars(DrainStep(who))
  /\ SF_vars(AdjustBegin) /\ WF_vars(AdjustEnd)
  /\ \A r \in Reqs :
       /\ WF_vars(\E w \in Atts, c \in 0..Contexts : Claim(r, w, c))
       /\ WF_vars(SendAck(r)) /\ WF_vars(HeadersAck(r)) /\ WF_vars(Response(r))
       /\ WF_vars(Close(r) /\ req[r].st = "failing") /\ WF_vars(ErrHandler(r))
       /\ WF_vars(RequeueHandler(r)) /\ WF_vars(Resend(r))

FairSpec == Spec /\ Fairness

-----------------------------------------------------------------------------
(* Properties.                                                             *)

\* Types.  Every counter of nxt_app_t and nxt_port_t is unsigned: one that is
\* taken back twice would wrap.
TypeOK ==
  /\ att \in [Atts ->
       [ph : {"none", "held", "posted", "replay", "wait", "proto", "sent",
              "expiring", "lost", "lateP", "lateW", "up", "dying", "orphan",
              "quit", "stray"},
        pr : Protos \cup {None}, gen : 0..MaxGen,
        msg : {"none", "queued", "started", "late", "sent", "proto"}]]
  /\ pst \in [Protos -> {"up", "quit", "exited", "gone"}]
  /\ proto \in Protos \cup {None}
  /\ now \subseteq Atts \cup {"queued", "fired"}
  /\ {processes, pending, unaccounted, protoReqs, hash, active, requeue, use,
      eco.n, eco.det} \subseteq Nat
  /\ eco.spare \in Seq(Atts) /\ eco.idle \in Seq(Atts)
  /\ eco.port \in [Atts -> [active : Nat, ws : Nat, det : 0..1, app : Nat,
                            router : Nat, start : {"zero", "set"},
                            ctx : 0..Contexts]]
  /\ adj \in {"no", "queued"} /\ timer \in {"off", "on"} /\ gen \in 0..MaxGen
  /\ req \in [Reqs ->
       [st : {"new", "wait", "failing", "acked", "upgraded", "abandoned", "done"},
        wk : {"none", "queued", "taken", "acked"}, w : Atts \cup {None},
        c : 0..Contexts, g : 0..MaxGen,
        cancel : {"queued", "retracted", "claimed"},
        job : {"none", "err", "requeue", "resend"}, twice : {"no", "yes"}]]
  /\ ackq \in Seq(Reqs) /\ reqq \in Seq(Reqs)
  /\ draining \subseteq Reqs \cup {"main"}
  /\ free \in {"no", "posted", "called"}
  /\ conf \in {"live", "unlinked", "released", "freed"} /\ crashed \in {"no", "yes"}

\* Every counter of slots counts what it says (nxt_app_t, nxt_router.h): each
\* attempt gives its slot back exactly once, whatever ends it.
SlotsAgree ==
  /\ processes = Cardinality({a \in Atts : Registered(a)})
  /\ pending = Cardinality(InPhase({"held", "posted", "replay", "wait", "proto",
                                    "sent", "expiring", "lost"}))
  /\ unaccounted = Cardinality(InPhase({"lateP", "lateW"}))
  /\ protoReqs = Cardinality(Cohort)

\* "processes": {"max"} bounds the processes that serve, those being started
\* and those that an expired start left (nxt_router_app_can_start()).
WithinMax == processes + pending + unaccounted <= MaxProcesses

\* use_count is the number of references: two configurations, linked and
\* abandoned requests, posted starts, the queued adjust_idle_work, detached
\* workers and the handlers of a sweep.
UseAgree ==
  conf # "freed" =>
    use = (IF conf = "live" THEN 2 ELSE IF conf = "unlinked" THEN 1 ELSE 0)
          + Cardinality(InState({"wait", "failing", "acked", "upgraded",
                                 "abandoned"}))
          + Cardinality(InPhase({"posted"}))
          + (IF adj = "queued" THEN 1 ELSE 0)
          + (IF "queued" \in now THEN 1 ELSE 0)
          + eco.det
          + Cardinality({r \in Reqs : req[r].job = "requeue"})

\* idle_processes is the length of the idle queues; no more than "spare"
\* ports are spare; what is in a queue is registered and has nothing to do,
\* so the idle timer reaps no worker that has (nxt_router_adjust_idle_timer()).
IdleAgree ==
  LET both == Members(eco.spare) \cup Members(eco.idle)
  IN  /\ eco.n = Len(eco.spare) + Len(eco.idle) /\ eco.n = Cardinality(both)
      /\ Len(eco.spare) <= Spare
      /\ \A a \in both :
           /\ Registered(a)
           /\ eco.port[a].active = 0 /\ eco.port[a].ws = 0 /\ eco.port[a].det = 0

\* While there are more idle workers than "spare", the timer that reaps them
\* is armed or the work that arms it is on its way.
IdleWatched ==
  eco.n > Spare => adj = "queued" \/ timer = "on" \/ now \cap {"queued", "fired"} # {}

\* A request that no worker took is not forgotten: a process can take it, a
\* start is on its way, or it is being answered.
NotStranded ==
  \A r \in Members(ackq) :
    req[r].wk = "queued" /\ req[r].cancel = "queued" =>
      (\E a \in Atts : att[a].ph # "none") \/ draining # {} \/ now # {}

\* The assertions of nxt_router_free_app().
FreeClean ==
  conf = "freed" => /\ processes = 0 /\ eco.det = 0 /\ active = 0 /\ hash = 0
                    /\ eco.n = 0 /\ eco.spare = <<>> /\ eco.idle = <<>>

\* During a sweep no live worker can take a request of the application.
SweepAlone ==
  requeue > 0 => \A a \in Atts : ~Alive(a)

\* A vacant place in spare_ports is filled from idle_ports.
SpareFilled == eco.idle # <<>> => Len(eco.spare) = Spare

\* No thread uses the queue of a shared port after it was unmapped.
QueueMapped == crashed = "no"

\* A freed application has no reference left: none was taken while
\* nxt_router_free_app() was on its way.
FreedUnused == conf = "freed" => use = 0

\* No request waits for ever: even when a process that was started never
\* reports, its deadline ends the wait (nxt_router_start_timeout()) and what
\* nobody can serve is answered (nxt_router_app_start_failed()).
Answered == \A r \in Reqs : req[r].st = "wait" ~> req[r].st = "done"

=============================================================================
