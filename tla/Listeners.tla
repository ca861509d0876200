------------------------------ MODULE Listeners ------------------------------
(***************************************************************************)
(* Listeners of the router while configurations replace one another        *)
(* (src/src/nxt_router.c), with the listen events of its engines           *)
(* (src/src/nxt_conn_accept.c) and the references that connections and     *)
(* requests hold (src/src/nxt_h1proto.c).                                  *)
(*                                                                         *)
(* The main thread of the router sorts the listeners of a configuration    *)
(* into five static queues, asks main for the new sockets, posts jobs to   *)
(* the engines (one thread each) and answers when every job has been       *)
(* acknowledged.  Everything that engines share is counted: a joint (a     *)
(* listener on one engine) by its listen event, its requests and its TLS   *)
(* connections; a socket configuration by its joints; a configuration by   *)
(* its socket configurations; a listen socket by its listen events.        *)
(*                                                                         *)
(* A socket configuration is <<k, a>>: the listener a of configuration k.  *)
(* A listen socket has the name of the one it was made for.  The queues of *)
(* socket configurations are kept link by link, as in nxt_queue.h.         *)
(* An engine looks a listen event up by descriptor; a linked one keeps its *)
(* socket open (SafeUse), so the model finds it by the socket.             *)
(* Applications, certificates and the access log of a configuration are a  *)
(* reason why applying it may fail, and nothing more.                      *)
(***************************************************************************)
EXTENDS Integers, Sequences, FiniteSets, SequencesExt, FiniteSetsExt

CONSTANTS NAddr,       \* addresses of listeners: 1 .. NAddr
          Plans,       \* configurations: [addrs |-> sequence, threads |-> n]
          MaxConf,     \* bound: configurations in one behaviour
          MaxEngine,   \* bound: engines ever created
          Conns,       \* connections open at a time
          MaxFaults    \* bound: failed allocations and accepts

Addrs == 1 .. NAddr

ASSUME ListenersAssumption ==
  /\ NAddr \in 1 .. 6 /\ IsFiniteSet(Conns)
  /\ MaxConf \in Nat \ {0} /\ MaxEngine \in Nat \ {0} /\ MaxFaults \in Nat
  /\ \A p \in Plans : /\ p.addrs \in Seq(Addrs) /\ IsInjective(p.addrs)
                      /\ p.threads \in 1 .. MaxEngine

VARIABLES conf,    \* the configuration in hand
          mem,     \* what the threads share: queues, counts, sockets
          eng,     \* the engines
          conn,    \* the connections
          faults   \* failures so far

vars == <<conf, mem, eng, conn, faults>>

Skcf == (1 .. MaxConf) \X Addrs
None == <<0, 0>>

\* The heads of the queues: router->sockets, and the static ones.
Sockets  == <<0, 1>>
Creating == <<0, 2>>
Pending  == <<0, 3>>
Updating == <<0, 4>>
Keeping  == <<0, 5>>
Deleting == <<0, 6>>
Static == {Creating, Pending, Updating, Keeping, Deleting}
Node == {n \in (0 .. MaxConf) \X (1 .. 6) : n[1] = 0 \/ n[2] \in Addrs}
Engines == 1 .. MaxEngine

-----------------------------------------------------------------------------
(* nxt_queue.h: a link points at its neighbours, whoever they are now.     *)

QueueInit(m, heads) ==
  [m EXCEPT !.next = [n \in Node |-> IF n \in heads THEN n ELSE @[n]],
            !.prev = [n \in Node |-> IF n \in heads THEN n ELSE @[n]]]

InsertTail(m, h, x) ==
  LET p == m.prev[h]
  IN  [m EXCEPT !.prev[x] = p, !.next[p] = x, !.next[x] = h, !.prev[h] = x]

QueueRemove(m, x) ==
  [m EXCEPT !.prev[m.next[x]] = m.prev[x], !.next[m.prev[x]] = m.next[x]]

\* nxt_queue_add(): the head of t is left as it is.
QueueAdd(m, h, t) ==
  LET a == [m EXCEPT !.next[m.prev[h]] = m.next[t],
                     !.prev[m.next[t]] = m.prev[h]]
  IN  [a EXCEPT !.prev[h] = a.prev[t], !.next[a.prev[t]] = h]

\* The elements that a walk from the head h visits.
Walk(m, h) ==
  LET walk[n \in 0 .. Cardinality(Skcf)] ==
        IF n = 0 THEN <<>>
        ELSE LET s == walk[n - 1]
                 x == m.next[IF s = <<>> THEN h ELSE s[Len(s)]]
             IN  IF x \in Skcf THEN Append(s, x) ELSE s
  IN  walk[Cardinality(Skcf)]

-----------------------------------------------------------------------------
NoLev == [count |-> 0, linked |-> FALSE, joint |-> None, draining |-> FALSE,
          timer |-> "off", armed |-> "off"]
NoJoint == [count |-> 0, linked |-> FALSE, stale |-> FALSE, job |-> FALSE]
NoEngine == [st |-> "none", shutdown |-> FALSE, jobs |-> <<>>,
             lev |-> [l \in Skcf |-> NoLev], joint |-> [x \in Skcf |-> NoJoint]]
NoConn == [e |-> 0, ls |-> None, fresh |-> FALSE, ready |-> FALSE, req |-> None,
           tls |-> None]
NoPlan == [addrs |-> <<>>, threads |-> 0]

Init ==
  /\ conf = [k |-> 0, phase |-> "idle", plan |-> NoPlan, bind |-> None,
             count |-> 0, acks |-> 0, cur |-> 0, now |-> NoPlan,
             engines |-> <<>>, born |-> 0]
  /\ mem = [next |-> [n \in Node |-> n], prev |-> [n \in Node |-> n],
            use |-> [x \in Skcf |-> 0], ls |-> [x \in Skcf |-> None],
            rt |-> [k \in 1 .. MaxConf |-> 0], live |-> {},
            fd |-> [l \in Skcf |-> "none"], refs |-> [l \in Skcf |-> 0],
            torn |-> FALSE]
  /\ eng = [e \in Engines |-> NoEngine]
  /\ conn = [c \in Conns |-> NoConn]
  /\ faults = 0

Fault == faults < MaxFaults /\ faults' = faults + 1

-----------------------------------------------------------------------------
(* The main thread.  A configuration starts when the last one has ended    *)
(* (nxt_router_conf_applying).                                             *)

\* nxt_router_socket_conf() and nxt_router_listen_socket_find(): a listener
\* that is there shares its listen socket with the new socket configuration.
Listener(m, x) ==
  LET old == SelectSeq(Walk(m, Sockets), LAMBDA y : m.ls[y][2] = x[2])
      n   == [m EXCEPT !.rt[x[1]] = @ + 1]
  IN  IF old = <<>>
      THEN InsertTail([n EXCEPT !.ls[x] = x, !.fd[x] = "new"], Pending, x)
      ELSE InsertTail(InsertTail(QueueRemove([n EXCEPT !.ls[x] = m.ls[old[1]]], old[1]),
                                 Keeping, old[1]),
                      Updating, x)

Listeners(m, k, addrs) ==
  FoldLeft(LAMBDA n, a : Listener(n, <<k, a>>), m, addrs)

\* Mutant: the listeners that the configuration would remove are forgotten.
ConfErrorForgets(m, c) ==
  LET closed == FoldLeft(LAMBDA n, x : [n EXCEPT !.fd[n.ls[x]] = "freed"],
                         m, Walk(m, Creating))
      back   == QueueAdd(closed, Sockets, Keeping)
  IN  /\ mem' = [back EXCEPT !.live = @ \ {c.k}]
      /\ conf' = [c EXCEPT !.phase = "idle", !.bind = None]

\* nxt_router_conf_error(): the new sockets are closed, the old listeners go
\* back to the router.
ConfError(m, c) ==
  LET closed == FoldLeft(LAMBDA n, x : [n EXCEPT !.fd[n.ls[x]] = "freed"],
                         m, Walk(m, Creating))
      back   == QueueAdd(QueueAdd(closed, Sockets, Keeping), Sockets, Deleting)
  IN  /\ mem' = [back EXCEPT !.live = @ \ {c.k}]
      /\ conf' = [c EXCEPT !.phase = "idle", !.bind = None]

\* nxt_router_conf_start() with nxt_router_temp_conf() and
\* nxt_router_conf_create().
ConfStart(p) ==
  LET k == conf.k + 1
      c == [conf EXCEPT !.k = k, !.plan = p, !.phase = "apply"]
      m == [QueueInit(mem, Static) EXCEPT !.live = @ \cup {k}]
      n == Listeners(m, k, p.addrs)
  IN  /\ conf.phase = "idle" /\ k <= MaxConf
      /\ p.threads > Len(conf.engines)
           => conf.born + p.threads - Len(conf.engines) <= MaxEngine
      /\ \/ /\ conf' = c
            /\ mem' = QueueInit(QueueAdd(n, Deleting, Sockets), {Sockets})
            /\ UNCHANGED faults
         \/ \E j \in 0 .. Len(p.addrs) :       \* it fails after j listeners
              Fault /\ ConfError(Listeners(m, k, SubSeq(p.addrs, 1, j)), c)
      /\ UNCHANGED <<eng, conn>>

Applying == conf.phase = "apply"
ToBind == Walk(mem, Pending)

\* nxt_router_conf_apply() with a pending socket, and
\* nxt_router_listen_socket_rpc_create().
BindNext ==
  LET x == ToBind[1]
      m == InsertTail(QueueRemove(mem, x), Creating, x)
  IN  /\ Applying /\ ToBind /= <<>>
      /\ \/ /\ mem' = m /\ conf' = [conf EXCEPT !.phase = "bind", !.bind = x]
            /\ UNCHANGED faults
         \/ Fault /\ ConfError(m, conf)
      /\ UNCHANGED <<eng, conn>>

\* nxt_router_listen_socket_ready(): main could bind the address.
Bound ==
  /\ conf.phase = "bind"
  /\ \A l \in Skcf : l[2] = conf.bind[2] => mem.fd[l] /= "open"
  /\ mem' = [mem EXCEPT !.fd[mem.ls[conf.bind]] = "open"]
  /\ conf' = [conf EXCEPT !.phase = "apply", !.bind = None]
  /\ UNCHANGED <<eng, conn, faults>>

\* nxt_router_listen_socket_error(): it could not, or listen() failed.
BindFailed ==
  /\ conf.phase = "bind"
  /\ \/ (\E l \in Skcf : l[2] = conf.bind[2] /\ mem.fd[l] = "open") /\ UNCHANGED faults
     \/ Fault
  /\ ConfError(mem, conf)
  /\ UNCHANGED <<eng, conn>>

\* The rest of nxt_router_conf_apply() fails: a certificate, a module, an
\* application, the access log, memory.
ApplyFailed ==
  /\ Applying /\ ToBind = <<>> /\ Fault
  /\ ConfError(mem, conf)
  /\ UNCHANGED <<eng, conn>>

Jobs(op, sks) == [i \in DOMAIN sks |-> [op |-> op, sk |-> sks[i]]]

\* What nxt_router_engines_create() does of the engine: each job is put before
\* the ones built so far, and nxt_router_engine_post() posts them in the order
\* of that list.
EngineJobs(action) ==
  LET q(h) == Walk(mem, h)
  IN  Reverse(CASE action = "keep" ->
                     Jobs("create", q(Creating)) \o Jobs("update", q(Updating))
                       \o Jobs("delete", q(Deleting))
                [] action = "add" ->
                     Jobs("create", q(Creating)) \o Jobs("create", q(Updating))
                [] action = "delete" ->
                     Jobs("quit", <<None>>) \o Jobs("delete", q(Updating))
                       \o Jobs("delete", q(Deleting)))

\* nxt_router_conf_ready() of the last reference: the configuration in hand is
\* in force.  One without listeners is destroyed at once.
Ready(c, m) ==
  /\ conf' = [c EXCEPT !.phase = "idle", !.cur = c.k, !.now = c.plan]
  /\ mem' = [m EXCEPT !.live = IF m.rt[c.k] = 0 THEN @ \ {c.k} ELSE @]

\* The end of nxt_router_conf_apply(): nxt_router_engines_create(),
\* nxt_router_threads_create(), nxt_router_engines_post().
ApplyPost ==
  LET old  == conf.engines
      t    == conf.plan.threads
      keep == [i \in 1 .. Min({t, Len(old)}) |-> old[i]]
      add  == [i \in 1 .. t - Len(old) |-> conf.born + i]
      Action(e) == CASE e \in ToSet(keep) -> "keep"
                     [] e \in ToSet(add) -> "add"
                     [] e \in ToSet(old) \ ToSet(keep) -> "delete"
                     [] OTHER -> "none"
      touched == ToSet(old) \cup ToSet(add)
      new  == ToSet(Walk(mem, Creating) \o Walk(mem, Updating))
      jobs == [e \in touched |-> EngineJobs(Action(e))]
      c    == [conf EXCEPT !.engines = keep \o add, !.born = @ + Len(add), !.phase = "wait",
                           !.count = MapThenSumSet(LAMBDA e : Len(jobs[e]), touched)]
      m    == QueueAdd(QueueAdd([mem EXCEPT !.use = [x \in Skcf |->
                                    IF x \in new THEN @[x] + t ELSE @[x]]],
                                Sockets, Updating),
                       Sockets, Creating)
  IN  /\ Applying /\ ToBind = <<>>
      /\ eng' = [e \in Engines |->
           IF e \notin touched THEN eng[e]
           ELSE [eng[e] EXCEPT !.st = "run", !.jobs = @ \o jobs[e],
                   !.joint = [x \in Skcf |->
                      IF x \in new /\ Action(e) /= "delete"
                      THEN [NoJoint EXCEPT !.count = 1] ELSE @[x]]]]
      /\ IF c.count = 0 THEN Ready(c, m) ELSE conf' = c /\ mem' = m
      /\ UNCHANGED <<conn, faults>>

\* nxt_router_conf_wait(): an acknowledged job.
ConfWait ==
  LET c == [conf EXCEPT !.acks = @ - 1, !.count = @ - 1]
  IN  /\ conf.acks > 0
      /\ IF c.count = 0 THEN Ready(c, mem) ELSE conf' = c /\ UNCHANGED mem
      /\ UNCHANGED <<eng, conn, faults>>

-----------------------------------------------------------------------------
(* The engines.  s holds what the step of one engine may change: m, the    *)
(* shared memory; g, the engine; acks, the jobs it hands back.             *)

World(e) == [m |-> mem, g |-> eng[e], acks |-> 0]

Does(e, s) ==
  /\ mem' = s.m
  /\ eng' = [eng EXCEPT ![e] = s.g]
  /\ conf' = [conf EXCEPT !.acks = @ + s.acks]

\* nxt_router_conf_wait_post()
Ack(s) == [s EXCEPT !.acks = @ + 1]

\* nxt_router_worker_thread_exit() of an engine that has no joints left.
ExitIfDone(s) ==
  IF s.g.shutdown /\ \A x \in Skcf : ~s.g.joint[x].linked
  THEN [s EXCEPT !.g.st = "gone"] ELSE s

\* A socket configuration leaves its queue.  It may have been in one that a
\* later configuration has initialised: torn records that a queue in use lost,
\* or got, an element other than x.
Unlink(m, x) ==
  LET n     == QueueRemove(m, x)
      inUse == {Sockets} \cup IF conf.phase \in {"apply", "bind"} THEN Static ELSE {}
  IN  [n EXCEPT !.torn = @ \/ \E h \in inUse :
         Walk(n, h) /= SelectSeq(Walk(m, h), LAMBDA y : y /= x)]

\* nxt_router_conf_release()
ConfRelease(s, x) ==
  LET t == [s EXCEPT !.g.joint[x] = NoJoint, !.m.use[x] = @ - 1]
      k == x[1]
      u == [t EXCEPT !.m = [Unlink(@, x) EXCEPT !.rt[k] = @ - 1]]
  IN  IF s.g.joint[x].count > 1 THEN [s EXCEPT !.g.joint[x].count = @ - 1]
      ELSE IF t.m.use[x] /= 0 THEN t
      ELSE IF u.m.rt[k] /= 0 THEN u ELSE [u EXCEPT !.m.live = @ \ {k}]

\* nxt_router_listen_socket_release(): the last reference closes the socket.
SocketRelease(s, l) ==
  LET t == [s EXCEPT !.m.refs[l] = @ - 1]
  IN  IF t.m.refs[l] /= 0 THEN t ELSE [t EXCEPT !.m.fd[l] = "freed"]

\* nxt_router_listen_socket_release_stale()
ReleaseStale(s, l, keep) ==
  LET stale == {x \in Skcf : /\ s.g.joint[x].linked /\ s.g.joint[x].stale
                             /\ s.m.ls[x] = l /\ x /= keep}
  IN  FoldSet(LAMBDA x, t : ConfRelease(SocketRelease(t, l), x), s, stale)

\* Mutant: a joint without a listen event holds no reference to the socket.
CreateJobNoRef(s, x, how) ==
  LET l == s.m.ls[x]
      t == [s EXCEPT !.g.joint[x].linked = TRUE]
  IN  Ack(IF how = "stale" THEN [t EXCEPT !.g.joint[x].stale = TRUE]
          ELSE [t EXCEPT !.m.refs[l] = @ + 1, !.g.lev[l] =
                  [NoLev EXCEPT !.count = 1, !.linked = TRUE, !.joint = x,
                     !.timer = IF how = "ok" THEN "off" ELSE "retry",
                     !.armed = IF how = "ok" THEN "on" ELSE "off"]])

\* nxt_router_listen_socket_create(), with nxt_listen_event(): how is "ok";
\* "spare", when there is no spare connection and the timer will retry; or
\* "stale", when the listen event cannot be allocated.
CreateJob(s, x, how) ==
  LET l == s.m.ls[x]
      t == [s EXCEPT !.g.joint[x].linked = TRUE, !.m.refs[l] = @ + 1]
  IN  Ack(IF how = "stale" THEN [t EXCEPT !.g.joint[x].stale = TRUE]
          ELSE [t EXCEPT !.g.lev[l] =
                  [NoLev EXCEPT !.count = 1, !.linked = TRUE, !.joint = x,
                     !.timer = IF how = "ok" THEN "off" ELSE "retry",
                     !.armed = IF how = "ok" THEN "on" ELSE "off"]])

\* nxt_router_listen_socket_update()
UpdateJob(s, x, how) ==
  LET l == s.m.ls[x]
      t == [s EXCEPT !.g.joint[x].linked = TRUE, !.g.lev[l].joint = x]
  IN  IF s.g.lev[l].linked
      THEN ConfRelease(Ack(t), s.g.lev[l].joint)
      ELSE ReleaseStale(CreateJob(s, x, how), l, x)

\* Mutant: without a listen event there is nothing to delete.
DeleteJobBare(s, x) ==
  LET l   == s.m.ls[x]
      lev == s.g.lev[l]
  IN  IF lev.linked
      THEN [s EXCEPT !.g.joint[lev.joint].job = TRUE, !.g.lev[l].timer = "close",
                     !.g.lev[l].armed = IF @ = "on" THEN "last" ELSE @]
      ELSE ExitIfDone(Ack(s))

\* nxt_router_listen_socket_delete(): an accept that is queued already may
\* still run before the timer.
DeleteJob(s, x) ==
  LET l   == s.m.ls[x]
      lev == s.g.lev[l]
  IN  IF lev.linked
      THEN [s EXCEPT !.g.joint[lev.joint].job = TRUE, !.g.lev[l].timer = "close",
                     !.g.lev[l].armed = IF @ = "on" THEN "last" ELSE @]
      ELSE ExitIfDone(Ack(ReleaseStale(s, l, None)))

\* nxt_router_worker_thread_quit()
QuitJob(s) == ExitIfDone(Ack([s EXCEPT !.g.shutdown = TRUE]))

\* Jobs that allocate a listen event; the others run as they are.
Allocates(g, job) ==
  \/ job.op = "create"
  \/ job.op = "update" /\ ~g.lev[mem.ls[job.sk]].linked

Work(e) ==
  LET job == eng[e].jobs[1]
      s   == [World(e) EXCEPT !.g.jobs = Tail(@)]
  IN  /\ eng[e].st = "run" /\ eng[e].jobs /= <<>>
      /\ \E how \in {"ok", "spare", "stale"} :
           /\ how = "ok" \/ Allocates(eng[e], job)
           /\ IF how = "ok" THEN UNCHANGED faults ELSE Fault
           /\ Does(e, CASE job.op = "create" -> CreateJob(s, job.sk, how)
                        [] job.op = "update" -> UpdateJob(s, job.sk, how)
                        [] job.op = "delete" -> DeleteJob(s, job.sk)
                        [] job.op = "quit"   -> QuitJob(s))
      /\ UNCHANGED conn

\* nxt_router_listen_socket_close_ready()
CloseReady(s, x) ==
  IF s.g.joint[x].job THEN Ack([s EXCEPT !.g.joint[x].job = FALSE]) ELSE s

\* nxt_router_listen_socket_close_finish() with the
\* nxt_router_listen_event_release() that it ends with.
CloseFinish(s, l) ==
  LET x == s.g.lev[l].joint
      t == SocketRelease([s EXCEPT !.g.lev[l].linked = FALSE, !.g.lev[l].joint = None], l)
      u == [CloseReady(t, x) EXCEPT !.g.lev[l].count = @ - 1]
      v == IF u.g.lev[l].count = 0 THEN [u EXCEPT !.g.lev[l] = NoLev] ELSE u
  IN  ExitIfDone(ConfRelease(v, x))

\* Mutant: the socket is closed under the connections in flight.
CloseTimerAtOnce(e, l) ==
  LET s == [World(e) EXCEPT !.g.lev[l].timer = "off", !.g.lev[l].armed = "off",
                            !.g.lev[l].draining = TRUE]
  IN  /\ eng[e].st = "run" /\ eng[e].lev[l].timer = "close"
      /\ Does(e, CloseFinish(s, l))
      /\ UNCHANGED <<conn, faults>>

\* Mutant: the answer waits for the connections in flight.
CloseTimerWaits(e, l) ==
  LET s == [World(e) EXCEPT !.g.lev[l].timer = "off", !.g.lev[l].armed = "off",
                            !.g.lev[l].draining = TRUE]
  IN  /\ eng[e].st = "run" /\ eng[e].lev[l].timer = "close"
      /\ Does(e, IF eng[e].lev[l].count > 1 THEN s ELSE CloseFinish(s, l))
      /\ UNCHANGED <<conn, faults>>

\* nxt_router_listen_socket_close()
CloseTimer(e, l) ==
  LET lev == eng[e].lev[l]
      s   == [World(e) EXCEPT !.g.lev[l].timer = "off", !.g.lev[l].armed = "off",
                              !.g.lev[l].draining = TRUE]
  IN  /\ eng[e].st = "run" /\ lev.timer = "close"
      /\ Does(e, IF lev.count > 1 THEN CloseReady(s, lev.joint) ELSE CloseFinish(s, l))
      /\ UNCHANGED <<conn, faults>>

\* nxt_router_listen_event_release() of a connection
EventRelease(s, l) ==
  LET t == [s EXCEPT !.g.lev[l].count = @ - 1]
  IN  IF t.g.lev[l].count = 0 THEN ExitIfDone([t EXCEPT !.g.lev[l] = NoLev])
      ELSE IF t.g.lev[l].draining /\ t.g.lev[l].count = 1 THEN CloseFinish(t, l)
      ELSE ExitIfDone(t)

\* nxt_conn_accept_close_idle(): no descriptor, memory or spare connection.
Stall(e, l) ==
  /\ eng[e].st = "run" /\ eng[e].lev[l].armed \in {"on", "last"} /\ Fault
  /\ eng' = [eng EXCEPT ![e].lev[l].armed = "off",
                        ![e].lev[l].timer = IF @ = "close" THEN @ ELSE "retry"]
  /\ UNCHANGED <<conf, mem, conn>>

\* nxt_conn_listen_timer_handler(); that it fails again changes nothing.
RetryTimer(e, l) ==
  /\ eng[e].st = "run" /\ eng[e].lev[l].timer = "retry"
  /\ eng' = [eng EXCEPT ![e].lev[l].armed = "on", ![e].lev[l].timer = "off"]
  /\ UNCHANGED <<conf, mem, conn, faults>>

-----------------------------------------------------------------------------
(* Connections.                                                            *)

\* nxt_conn_accept()
Accept(e, l, c) ==
  /\ eng[e].st = "run" /\ eng[e].lev[l].armed \in {"on", "last"}
  /\ conn[c] = NoConn
  /\ eng' = [eng EXCEPT ![e].lev[l].count = @ + 1]
  /\ conn' = [conn EXCEPT ![c] = [NoConn EXCEPT !.e = e, !.ls = l, !.fresh = TRUE]]
  /\ UNCHANGED <<conf, mem, faults>>

LevOf(c) == eng[conn[c].e].lev[conn[c].ls]
Idle(c) == conn[c] /= NoConn /\ conn[c].req = None /\ ~conn[c].ready
Refused(c) == LevOf(c).joint = None \/ LevOf(c).draining

\* nxt_http_conn_test(): a TLS connection keeps the joint until it is freed.
Handshake(c) ==
  /\ Idle(c) /\ conn[c].fresh /\ ~Refused(c)
  /\ conn' = [conn EXCEPT ![c].fresh = FALSE, ![c].tls = LevOf(c).joint]
  /\ eng' = [eng EXCEPT ![conn[c].e].joint[LevOf(c).joint].count = @ + 1]
  /\ UNCHANGED <<conf, mem, faults>>

\* nxt_h1p_idle_io_read_handler(): the bytes of a request are there, and the
\* handler that starts it is queued.
ConnRead(c) ==
  /\ Idle(c) /\ ~Refused(c)
  /\ conn' = [conn EXCEPT ![c].fresh = FALSE, ![c].ready = TRUE]
  /\ UNCHANGED <<conf, mem, eng, faults>>

\* nxt_h1p_conn_request_init(): the listener may be draining by now.
RequestStart(c) ==
  /\ conn[c].ready
  /\ conn' = [conn EXCEPT ![c].ready = FALSE, ![c].req = LevOf(c).joint]
  /\ eng' = [eng EXCEPT ![conn[c].e].joint[LevOf(c).joint].count = @ + 1]
  /\ UNCHANGED <<conf, mem, faults>>

\* nxt_h1p_request_close(); a pipelined request starts without a read.
RequestEnd(c, pipelined) ==
  /\ conn[c].req /= None
  /\ conn' = [conn EXCEPT ![c].req = None, ![c].ready = pipelined]
  /\ Does(conn[c].e, ConfRelease(World(conn[c].e), conn[c].req))
  /\ UNCHANGED faults

\* nxt_h1p_conn_free()
ConnFree(c) ==
  LET s == World(conn[c].e)
  IN  /\ conn[c] /= NoConn /\ conn[c].req = None
      /\ conn' = [conn EXCEPT ![c] = NoConn]
      /\ Does(conn[c].e, EventRelease(
            IF conn[c].tls = None THEN s ELSE ConfRelease(s, conn[c].tls), conn[c].ls))
      /\ UNCHANGED faults

-----------------------------------------------------------------------------
MainStep == \/ BindNext \/ Bound \/ BindFailed \/ ApplyFailed \/ ApplyPost \/ ConfWait

EngineStep == \E e \in Engines :
  \/ Work(e)
  \/ \E l \in Skcf : CloseTimer(e, l) \/ RetryTimer(e, l) \/ Stall(e, l)

ConnStep == \E c \in Conns :
  \/ \E e \in Engines, l \in Skcf : Accept(e, l, c)
  \/ Handshake(c) \/ ConnRead(c) \/ RequestStart(c) \/ ConnFree(c)
  \/ \E pipelined \in BOOLEAN : RequestEnd(c, pipelined)

Next == MainStep \/ EngineStep \/ ConnStep \/ \E p \in Plans : ConfStart(p)

Spec == Init /\ [][Next]_vars

\* Main answers the request for a socket; the threads run their queues and
\* timers.  Clients owe nothing.
LiveSpec == /\ Spec /\ WF_vars(MainStep)
            /\ \A e \in Engines :
                 WF_vars(Work(e) \/ \E l \in Skcf : CloseTimer(e, l))

-----------------------------------------------------------------------------
(* Properties.  They are about behaviours in which no queue was torn.      *)

Count(S) == Cardinality(S)
Alive == {c \in Conns : conn[c] /= NoConn}

\* Every count is the number of those who hold it: listen sockets by listen
\* events and stale joints, listen events by the listener and its connections,
\* joints by the listen event, requests and TLS connections, socket
\* configurations by joints, configurations by socket configurations
\* (nxt_router_conf_release(), nxt_router_listen_event_release(),
\* nxt_router_listen_socket_release()).
RefsAgree ==
  /\ \A l \in Skcf :
       mem.refs[l] = Count({e \in Engines : eng[e].lev[l].linked})
                   + Count({<<e, x>> \in Engines \X Skcf :
                              eng[e].joint[x].stale /\ mem.ls[x] = l})
  /\ \A e \in Engines, l \in Skcf :
       eng[e].lev[l].count = Count({c \in Alive : conn[c].e = e /\ conn[c].ls = l})
                           + IF eng[e].lev[l].linked THEN 1 ELSE 0
  /\ \A e \in Engines, x \in Skcf :
       LET j == eng[e].joint[x]
       IN  j.count = Count({l \in Skcf : eng[e].lev[l].joint = x})
                   + Count({c \in Alive : conn[c].e = e /\ conn[c].req = x})
                   + Count({c \in Alive : conn[c].e = e /\ conn[c].tls = x})
                   + IF j.stale \/ (j.count > 0 /\ ~j.linked) THEN 1 ELSE 0
  /\ \A x \in Skcf : x[1] \in mem.live =>
       mem.use[x] = Count({e \in Engines : eng[e].joint[x].count > 0})
  /\ \A k \in mem.live : k /= conf.k \/ conf.phase = "idle" =>
       mem.rt[k] = Count({x \in Skcf : x[1] = k /\ mem.use[x] > 0})

\* An engine that was told to quit leaves with its last joint, and not before;
\* an engine that has left is not one the router posts to.
ExitAgree ==
  \A e \in Engines :
    /\ eng[e].st = "run" /\ eng[e].shutdown => \E x \in Skcf : eng[e].joint[x].linked
    /\ eng[e].st = "gone" => /\ e \notin ToSet(conf.engines) /\ eng[e].jobs = <<>>
                             /\ \A l \in Skcf : eng[e].lev[l] = NoLev

\* Nothing is used after it was freed: a joint's configuration, the socket and
\* the joint of a listen event, the listen event and the engine of a
\* connection, the socket configuration of a job, an engine
\* (nxt_router_listen_socket_close_finish(), nxt_router_conf_release()).
SafeUse ==
  /\ ExitAgree
  /\ \A e \in Engines :
       /\ \A x \in Skcf : eng[e].joint[x].count > 0 => x[1] \in mem.live
       /\ \A l \in Skcf : eng[e].lev[l].linked
            => mem.fd[l] = "open" /\ eng[e].joint[eng[e].lev[l].joint].linked
       /\ \A i \in DOMAIN eng[e].jobs : eng[e].jobs[i].op = "quit"
                                        \/ eng[e].jobs[i].sk[1] \in mem.live
  /\ \A c \in Alive : eng[conn[c].e].st = "run" /\ LevOf(c).linked

\* The listeners that the router knows are those of the configuration in
\* force, and every engine serves each of them with it, or will retry, or
\* could not allocate the listen event.
Served ==
  conf.phase = "idle" /\ conf.cur > 0 =>
    /\ ToSet(Walk(mem, Sockets)) = {<<conf.cur, a>> : a \in ToSet(conf.now.addrs)}
    /\ \A a \in ToSet(conf.now.addrs), e \in ToSet(conf.engines) :
         LET x   == <<conf.cur, a>>
             lev == eng[e].lev[mem.ls[x]]
         IN  \/ eng[e].joint[x].stale
             \/ /\ lev.linked /\ lev.joint = x /\ ~lev.draining
                /\ lev.armed = "on" \/ lev.timer = "retry"

\* An answered configuration has freed every address that it does not use and
\* on which no connection is open (the comment in
\* nxt_router_listen_socket_close()).
PortFree ==
  conf.phase = "idle" => \A l \in Skcf : mem.fd[l] = "open" =>
    \/ l[2] \in ToSet(conf.now.addrs)
    \/ \E e \in Engines : eng[e].lev[l].linked /\ eng[e].lev[l].count > 1

\* The answer never waits for a client: each reference to the temporary
\* configuration is a job in the queue of an engine, an acknowledgement in the
\* queue of the main thread, or a listener whose close timer is set.
AcksAgree ==
  conf.phase = "wait" =>
    conf.count = conf.acks
               + MapThenSumSet(LAMBDA e : Len(eng[e].jobs), Engines)
               + Count({<<e, l>> \in Engines \X Skcf :
                          /\ eng[e].lev[l].timer = "close"
                          /\ eng[e].joint[eng[e].lev[l].joint].job})

\* A configuration is answered even if no client ever does anything again
\* (nxt_router_conf_ready(), nxt_router_conf_error()).
Answered == []<>(conf.phase = "idle")
=============================================================================
