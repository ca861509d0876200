------------------------------- MODULE Control -------------------------------
(***************************************************************************)
(* The control plane: a change that a client sends to the control API,     *)
(* from the controller (src/src/nxt_controller.c) to the router that       *)
(* applies it (src/src/nxt_router.c) and to main, whose store child writes *)
(* it to the state directory (src/src/nxt_main_process.c).  The processes  *)
(* talk through ports; the controller keeps its open calls in              *)
(* nxt_port_rpc.c.  The controller and the router may die at any moment;   *)
(* main starts them again.                                                 *)
(*                                                                         *)
(* A step is the whole handler of one message, signal or request.  A       *)
(* handler of the controller changes the record x and leaves the messages  *)
(* it sends in x.r and x.m; the action then delivers them.  The socket of  *)
(* a port is first in, first out, and is lost with its process.            *)
(*                                                                         *)
(* A configuration is the set of the changes in it.  There is one bundle   *)
(* ("cert") and one njs module ("script"); a file is the number of what    *)
(* was stored in it, 0 when there is none.  The number 1 stands for what   *)
(* was in the state directory before.  Parsing, validation except of the   *)
(* names of files, memory and descriptors are left out.                    *)
(***************************************************************************)
EXTENDS Integers, Sequences, FiniteSets, SequencesExt

CONSTANTS Requests,       \* requests of clients: numbers from 2
          Plans,          \* functions: the operation that each request asks for
          Body,           \* Body[r]: the content that r stores in a file
          Users,          \* Users[f]: the changes that name the file f
          MaxCtl, MaxRtr, \* bounds: controllers, routers ever started
          Mishaps,        \* the kinds of failure that may happen
          MaxAccidents    \* bound: failures and deaths in one behaviour

Files == {"cert", "script"}
Kinds == {"none", "put", "clear", "status", "all", "restart",
          "cert", "uncert", "listcert", "script", "unscript", "listscript"}

\* Failures: an allocation or a write to a port fails in the controller;
\* the router refuses a configuration; the store child fails before, or dies
\* after, its rename(); main cannot fork the child of a job, or of a store of
\* the configuration; main reaps a router that has greeted the controller
\* before it reads the READY of that router.
MishapKinds == {"send", "apply", "store", "torn", "fork", "forkconf", "early"}

ASSUME ControlAssumption ==
  /\ Requests \subseteq Nat \ {0, 1} /\ IsFiniteSet(Requests)
  /\ \A p \in Plans, r \in Requests : p[r] \in Kinds
  /\ \A r \in Requests : Body[r] \in Nat \ {0}
  /\ \A f \in Files : Users[f] \subseteq Requests \cup {1}
  /\ MaxCtl \in Nat \ {0} /\ MaxRtr \in Nat \ {0}
  /\ Mishaps \subseteq MishapKinds /\ MaxAccidents \in Nat

VARIABLES ctl,      \* the controller
          rtr,      \* the router
          main,     \* main: its processes and its stores
          disk,     \* the state directory
          toCtl, toRtr, toMain,   \* the sockets of the ports
          what,     \* the one of Plans that the clients follow
          ans,      \* ans[r]: "new", "open", the answer, or "lost"
          mishaps,  \* the failures that have happened
          past      \* what the properties need to know of the past

vars == <<ctl, rtr, main, disk, toCtl, toRtr, toMain, what, ans, mishaps, past>>

Default == {}
Null == {0}             \* nxt_controller_conf.root == NULL
Naming(f, conf) == conf \cap Users[f] /= {}
Missing(conf, info) == \E f \in Files : Naming(f, conf) /\ info[f] = 0

\* A message: its type, the process it is from or about, its stream, the
\* configuration, file and content that go with it.
Msg(type, pid, stream) ==
  [type |-> type, pid |-> pid, stream |-> stream, conf |-> {}, file |-> "cert",
   body |-> 0]
NoMsg == Msg("none", 0, 0)

NoFiles == [f \in Files |-> 0]

\* A controller that has just been forked: nxt_controller_prefork() has read
\* the state directory in main.  nxt_controller_start() refuses a configuration
\* that names a missing file.
NewCtl(pid, d, router) ==
  [pid |-> pid, up |-> FALSE, listening |-> FALSE, router |-> router,
   ready |-> FALSE, initial |-> 0, storing |-> {}, stored |-> 0,
   waiting |-> <<>>,
   conf |-> IF Missing(d.conf, d.files) THEN Null ELSE d.conf,
   info |-> d.files, unapplied |-> FALSE, old |-> 0, rpc |-> <<>>, next |-> 1]

NewRtr(pid, controller) ==
  [pid |-> pid, boot |-> "forked", controller |-> controller, greeted |-> FALSE,
   pc |-> "idle", cur |-> NoMsg, need |-> {}, got |-> NoFiles,
   deferred |-> NoMsg, posted |-> FALSE, conf |-> Default, files |-> NoFiles]

Init ==
  /\ disk \in [conf : {Null, {1}}, files : [Files -> {0, 1}]]
  /\ ~Missing(disk.conf, disk.files)
  /\ ctl = NewCtl(1, disk, 0)
  /\ rtr = NewRtr(1, 0)
  /\ main = [ctl |-> 1, ctlready |-> FALSE, rtr |-> 1, rtrready |-> FALSE,
             child |-> NoMsg, renamed |-> FALSE, jobs |-> <<>>, owed |-> NoMsg,
             wait |-> FALSE]
  /\ toCtl = <<>> /\ toRtr = <<>> /\ toMain = <<>>
  /\ what \in Plans
  /\ ans = [r \in Requests |-> "new"]
  /\ mishaps = {}
  /\ past = [unsaved |-> FALSE, reset |-> FALSE, ctls |-> 1, rtrs |-> 1]

Accident == Cardinality(mishaps) + past.ctls + past.rtrs - 2 < MaxAccidents

Mishap(kind) ==
  /\ kind \in Mishaps \ mishaps
  /\ Accident
  /\ mishaps' = mishaps \cup {kind}

-----------------------------------------------------------------------------
(* The controller: operators that take the record x and return it changed. *)

\* A request that is answered twice is one that was freed and used again.
Answer(x, r, code) ==
  [x EXCEPT !.ans[r] = IF @ = "open" THEN code ELSE "twice"]

Postponed(x, r) == [x EXCEPT !.c.waiting = Append(@, r)]
InFront(x, r) == [x EXCEPT !.c.waiting = <<r>> \o @]
Unlink(x, r) == [x EXCEPT !.c.waiting = SelectSeq(@, LAMBDA q : q /= r)]

\* nxt_controller_store_in_flight()
StoreInFlight(c) == c.storing /= {}

\* nxt_controller_check_postpone_request()
CheckPostpone(c) ==
  \/ c.waiting /= <<>>
  \/ StoreInFlight(c)
  \/ c.initial /= 0
  \/ ~c.ready
  \/ c.router = 0

\* nxt_port_rpc_register_handler(): handler h for request r; the peer is the
\* router, or 0 for main, whose death no handler waits for.  The request has
\* its configuration, req->conf.
Register(x, h, r, peer, conf) ==
  [x EXCEPT !.c.rpc = Append(@, [stream |-> x.c.next, h |-> h, r |-> r,
                                 peer |-> peer, conf |-> conf]),
            !.c.next = @ + 1]

\* A failed send ends with nxt_port_rpc_cancel().
SendFails(x) == [x EXCEPT !.bad = FALSE]

ToRouter(x, type, conf, h, r) ==
  [Register(x, h, r, x.c.router, conf) EXCEPT
     !.r = Append(@, [Msg(type, x.c.pid, x.c.next) EXCEPT !.conf = conf])]

ToMain(x, type, file, body, conf, r) ==
  [Register(x, type, r, 0, conf) EXCEPT
     !.m = Append(@, [Msg(type, x.c.pid, x.c.next) EXCEPT
                        !.file = file, !.body = body, !.conf = conf])]

\* nxt_controller_process_config() for PUT, POST and DELETE.
ProcessConfig(x, r) ==
  LET value == IF what[r] = "clear" THEN {} ELSE x.c.conf \cup {r} IN
  CASE CheckPostpone(x.c) -> Postponed(x, r)
    [] Missing(value, x.c.info) -> Answer(x, r, "refused")
    [] x.bad -> Answer(SendFails(x), r, "failed")
    [] OTHER -> InFront(ToRouter(x, "data", value, "conf", r), r)

\* nxt_controller_process_status() and the answer while the status is at hand.
ProcessStatus(x, r) ==
  CASE x.status -> Answer(x, r, "ok")
    [] CheckPostpone(x.c) -> Postponed(x, r)
    [] x.bad -> Answer(SendFails(x), r, "failed")
    [] OTHER -> InFront(ToRouter(x, "status", {}, "status", r), r)

\* GET / has the certificates and modules, so that it waits for a store first.
ProcessAll(x, r) ==
  IF StoreInFlight(x.c) THEN Postponed(x, r) ELSE ProcessStatus(x, r)

\* nxt_controller_process_control()
ProcessControl(x, r) ==
  CASE CheckPostpone(x.c) -> Postponed(x, r)
    [] x.bad -> Answer(SendFails(x), r, "failed")
    [] OTHER -> InFront(ToRouter(x, "restart", {}, "restart", r), r)

\* GET of certificates or modules.
ProcessList(x, r, flags) ==
  IF x.c.storing \cap flags /= {} THEN Postponed(x, r) ELSE Answer(x, r, "ok")

\* nxt_cert_info_restore(), nxt_script_info_delete(): the store failed.
Restored(x, f) ==
  IF f = "cert" THEN [x EXCEPT !.c.info["cert"] = x.c.old, !.c.old = 0,
                               !.c.unapplied = x.c.old /= 0]
                ELSE [x EXCEPT !.c.info["script"] = 0]

\* A write to main that fails calls the handler with no message.  The waiting
\* queue is empty then, so that the flush in the handler does nothing.
ProcessPut(x, r, f) ==
  LET y == [x EXCEPT !.c.info[f] = Body[r], !.c.storing = @ \cup {f},
                     !.c.old = IF f = "cert" THEN x.c.info[f] ELSE @,
                     !.c.unapplied = IF f = "cert" THEN FALSE ELSE @] IN
  CASE CheckPostpone(x.c) -> Postponed(x, r)
    [] f = "cert" /\ x.c.info[f] = Body[r] /\ ~x.c.unapplied
         -> Answer(x, r, "ok")
    [] f = "script" /\ x.c.info[f] /= 0 -> Answer(x, r, "refused")
    [] x.bad -> Answer(Restored([SendFails(y) EXCEPT !.c.storing = @ \ {f}], f),
                       r, "failed")
    [] OTHER -> ToMain(y, f, f, Body[r], {}, r)

\* Mutant of ProcessDelete: a bundle in use is deleted.
ProcessDeleteUsed(x, r, f, op) ==
  CASE CheckPostpone(x.c) -> Postponed(x, r)
    [] x.c.info[f] = 0 -> Answer(x, r, "refused")
    [] OTHER -> ToMain([x EXCEPT !.c.storing = @ \cup {op}], op, f, 0, {}, r)

\* nxt_controller_cert_in_use(), nxt_controller_script_in_use(): named by the
\* configuration of the controller.
ProcessDelete(x, r, f, op) ==
  CASE CheckPostpone(x.c) -> Postponed(x, r)
    [] Naming(f, x.c.conf) \/ x.c.info[f] = 0 -> Answer(x, r, "refused")
    [] x.bad -> Answer(SendFails(x), r, "failed")
    [] OTHER -> ToMain([x EXCEPT !.c.storing = @ \cup {op}], op, f, 0, {}, r)

\* nxt_controller_process_request()
ProcessRequest(x, r) ==
  CASE what[r] \in {"put", "clear"} -> ProcessConfig(x, r)
    [] what[r] = "status"           -> ProcessStatus(x, r)
    [] what[r] = "all"              -> ProcessAll(x, r)
    [] what[r] = "restart"          -> ProcessControl(x, r)
    [] what[r] = "cert"             -> ProcessPut(x, r, "cert")
    [] what[r] = "script"           -> ProcessPut(x, r, "script")
    [] what[r] = "uncert"           -> ProcessDelete(x, r, "cert", "uncert")
    [] what[r] = "unscript"         -> ProcessDelete(x, r, "script", "unscript")
    [] what[r] = "listcert"         -> ProcessList(x, r, {"cert", "uncert"})
    [] what[r] = "listscript"       -> ProcessList(x, r, {"script", "unscript"})

\* nxt_controller_flush_requests()
Flush(x) ==
  FoldLeft(ProcessRequest, [x EXCEPT !.c.waiting = <<>>], x.c.waiting)

Reset(x) == [x EXCEPT !.c.conf = Default, !.unsaved = TRUE]

\* nxt_controller_send_current_conf()
SendCurrentConf(x) ==
  LET default == IF x.c.conf = Null
                 THEN [x EXCEPT !.c.conf = Default, !.reset = x.c.pid > 1 \/ @]
                 ELSE [Reset(SendFails(x)) EXCEPT !.reset = TRUE] IN
  IF x.c.conf /= Null /\ ~x.bad
  THEN [ToRouter(x, "data", x.c.conf, "init", 0) EXCEPT !.c.initial = 1]
  ELSE Flush([default EXCEPT !.c.listening = TRUE])

\* Mutant of CertApply: the router keeps the bundle it has.
CertApplyNever(x, r) == Flush(Answer(x, r, "ok"))

\* nxt_controller_cert_apply()
CertApply(x, r) ==
  CASE Naming("cert", x.c.conf) /\ x.c.ready /\ x.c.router /= 0 /\ ~x.bad
         -> InFront(ToRouter(x, "data", x.c.conf, "apply", r), r)
    [] Naming("cert", x.c.conf) /\ x.c.ready /\ x.c.router /= 0 /\ x.bad
         -> Flush(Answer([SendFails(x) EXCEPT !.c.unapplied = TRUE],
                         r, "failed"))
    [] OTHER -> Flush(Answer(x, r, "ok"))

\* nxt_controller_conf_init_handler()
InitHandler(x, ok) ==
  LET y == [IF ok THEN x ELSE [Reset(x) EXCEPT !.reset = @ \/ x.c.ready] EXCEPT
              !.c.initial = 0, !.c.listening = TRUE, !.c.stored = 0] IN
  IF x.c.stored /= 0 THEN CertApply(y, x.c.stored) ELSE Flush(y)

\* Mutant of ConfHandler: the request stays in the queue while main stores.
ConfHandlerQueued(x, r, ok, value) ==
  IF ok THEN ToMain([x EXCEPT !.c.conf = value, !.c.storing = @ \cup {"store"}],
                    "store", "cert", 0, value, r)
        ELSE Flush(Answer(Unlink(x, r), r, "failed"))

\* nxt_controller_conf_handler() and nxt_controller_conf_store()
ConfHandler(x, r, ok, value) ==
  LET y == [Unlink(x, r) EXCEPT !.c.conf = value] IN
  CASE ~ok -> Flush(Answer(Unlink(x, r), r, "failed"))
    [] ok /\ x.bad -> Flush(Answer([SendFails(y) EXCEPT !.unsaved = TRUE],
                                   r, "failed"))
    [] OTHER -> ToMain([y EXCEPT !.c.storing = @ \cup {"store"}], "store", "cert",
                       0, value, r)

\* nxt_controller_process_conf_store()
ConfStored(x, r, ok) ==
  LET y == [x EXCEPT !.c.storing = @ \ {"store"}, !.unsaved = @ \/ ~ok] IN
  Flush(Answer(y, r, IF ok THEN "ok" ELSE "failed"))

\* Mutant of CertStored: the first configuration of a new router is not awaited.
CertStoredAtOnce(x, r, ok) ==
  LET y == [x EXCEPT !.c.storing = @ \ {"cert"}] IN
  IF ok THEN CertApply([y EXCEPT !.c.old = 0], r)
        ELSE Flush(Answer(Restored(y, "cert"), r, "failed"))

\* nxt_controller_cert_store_handler()
CertStored(x, r, ok) ==
  LET y == [x EXCEPT !.c.storing = @ \ {"cert"}] IN
  CASE ~ok -> Flush(Answer(Restored(y, "cert"), r, "failed"))
    [] ok /\ x.c.initial /= 0 -> [y EXCEPT !.c.stored = r, !.c.old = 0]
    [] OTHER -> CertApply([y EXCEPT !.c.old = 0], r)

\* nxt_controller_cert_apply_handler()
CertApplied(x, r, ok) ==
  Flush(Answer([Unlink(x, r) EXCEPT !.c.unapplied = ~ok], r,
               IF ok THEN "ok" ELSE "failed"))

\* nxt_controller_process_script_save()
ScriptSaved(x, r, ok) ==
  LET y == [x EXCEPT !.c.storing = @ \ {"script"}] IN
  IF ok THEN Flush(Answer(y, r, "ok"))
        ELSE Flush(Answer(Restored(y, "script"), r, "failed"))

\* nxt_controller_cert_delete_handler(), nxt_controller_process_script_delete()
FileDeleted(x, r, ok, f, op) ==
  LET y == [x EXCEPT !.c.storing = @ \ {op}] IN
  IF ok THEN Flush(Answer([y EXCEPT !.c.info[f] = 0,
                                    !.c.unapplied = @ /\ f /= "cert"], r, "ok"))
        ELSE Flush(Answer(y, r, "failed"))

\* nxt_controller_status_handler()
StatusHandler(x, r, ok) ==
  [Flush(IF ok THEN [x EXCEPT !.status = TRUE]
               ELSE Answer(Unlink(x, r), r, "failed")) EXCEPT !.status = FALSE]

\* Mutant of RestartHandler: the requests that wait are not run.
RestartHandlerAlone(x, r, ok) ==
  Answer(Unlink(x, r), r, IF ok THEN "ok" ELSE "failed")

\* nxt_controller_app_restart_handler()
RestartHandler(x, r, ok) ==
  Flush(Answer(Unlink(x, r), r, IF ok THEN "ok" ELSE "failed"))

\* The handler of a registration.
Handle(x, reg, ok) ==
  CASE reg.h = "init"     -> InitHandler(x, ok)
    [] reg.h = "conf"     -> ConfHandler(x, reg.r, ok, reg.conf)
    [] reg.h = "apply"    -> CertApplied(x, reg.r, ok)
    [] reg.h = "status"   -> StatusHandler(x, reg.r, ok)
    [] reg.h = "restart"  -> RestartHandler(x, reg.r, ok)
    [] reg.h = "store"    -> ConfStored(x, reg.r, ok)
    [] reg.h = "cert"     -> CertStored(x, reg.r, ok)
    [] reg.h = "script"   -> ScriptSaved(x, reg.r, ok)
    [] reg.h = "uncert"   -> FileDeleted(x, reg.r, ok, "cert", "uncert")
    [] reg.h = "unscript" -> FileDeleted(x, reg.r, ok, "script", "unscript")

\* nxt_port_rpc_handler(): a stream that is not registered has no handler.
RpcHandler(x, stream, ok) ==
  LET regs == {i \in DOMAIN x.c.rpc : x.c.rpc[i].stream = stream} IN
  IF regs = {} THEN x
  ELSE LET i == CHOOSE i \in regs : TRUE
       IN Handle([x EXCEPT !.c.rpc = RemoveAt(@, i)], x.c.rpc[i], ok)

\* nxt_port_rpc_remove_peer(): the error handlers run in order.
RpcRemovePeer(x, peer) ==
  FoldLeft(LAMBDA y, reg : RpcHandler(y, reg.stream, FALSE), x,
           SelectSeq(x.c.rpc, LAMBDA reg : reg.peer = peer))

-----------------------------------------------------------------------------
(* Delivery.  A message for a process that has gone is lost. *)

Deliver(box, alive, msgs) == IF alive THEN box \o msgs ELSE box

\* One handler of the controller.  A chosen failure must have been met.
CtlStep(Op(_), bad) ==
  LET x == Op([c |-> ctl, ans |-> ans, r |-> <<>>, m |-> <<>>, bad |-> bad,
               status |-> FALSE, unsaved |-> past.unsaved,
               reset |-> past.reset]) IN
  /\ ctl.up
  /\ ~x.bad
  /\ IF bad THEN Mishap("send") ELSE UNCHANGED mishaps
  /\ ctl' = x.c
  /\ ans' = x.ans
  /\ toRtr' = Deliver(toRtr, rtr.pid = x.c.router, x.r)
  /\ toMain' = toMain \o x.m
  /\ past' = [past EXCEPT !.unsaved = x.unsaved, !.reset = x.reset]
  /\ UNCHANGED <<rtr, main, disk>>

\* A client connects, and its request is read and processed.
Arrive(r, bad) ==
  /\ ctl.listening
  /\ ans[r] = "new" /\ what[r] /= "none"
  /\ CtlStep(LAMBDA x : ProcessRequest([x EXCEPT !.ans[r] = "open"], r), bad)
  /\ UNCHANGED toCtl

\* The next message of the controller.
CtlReads(type) ==
  /\ toCtl /= <<>>
  /\ Head(toCtl).type \in type
  /\ toCtl' = Tail(toCtl)

\* nxt_controller_process_new_port_handler()
CtlNewPort(bad) ==
  /\ CtlReads({"newport"})
  /\ CtlStep(LAMBDA x :
       LET y == [x EXCEPT !.c.router = Head(toCtl).pid]
       IN IF x.c.ready THEN SendCurrentConf(y) ELSE y, bad)

\* nxt_controller_router_ready_handler()
CtlRouterReady(bad) ==
  /\ CtlReads({"greet"})
  /\ CtlStep(LAMBDA x :
       LET y == [x EXCEPT !.c.ready = TRUE]
       IN IF x.c.router /= 0 THEN SendCurrentConf(y) ELSE y, bad)

\* nxt_controller_remove_pid_handler(), nxt_port_remove_pid(): a process that
\* the controller does not know changes nothing.
CtlRemovePid(bad) ==
  /\ CtlReads({"removepid"})
  /\ CtlStep(LAMBDA x :
       IF x.c.router = Head(toCtl).pid
       THEN [RpcRemovePeer([x EXCEPT !.c.ready = FALSE], x.c.router)
               EXCEPT !.c.router = 0]
       ELSE x, bad)

\* RPC_READY_LAST or RPC_ERROR.
CtlAnswer(bad) ==
  /\ CtlReads({"ready", "error"})
  /\ CtlStep(LAMBDA x : RpcHandler(x, Head(toCtl).stream,
                                   Head(toCtl).type = "ready"), bad)

\* nxt_process_do_start(): READY to main, then nxt_controller_start().
CtlBoot ==
  /\ ctl.pid /= 0 /\ ~ctl.up
  /\ ctl' = [ctl EXCEPT !.up = TRUE]
  /\ toMain' = Append(toMain, [Msg("ready", ctl.pid, 0) EXCEPT !.file = "cert"])
  /\ UNCHANGED <<rtr, main, disk, toCtl, toRtr, ans, mishaps, past>>

\* The controller dies, and its connections close.
CtlDies ==
  /\ ctl.pid /= 0 /\ past.ctls < MaxCtl /\ Accident
  /\ past' = [past EXCEPT !.ctls = @ + 1]
  /\ ctl' = [NewCtl(0, disk, 0) EXCEPT !.conf = Default, !.info = NoFiles]
  /\ ans' = [r \in Requests |-> IF ans[r] = "open" THEN "lost" ELSE ans[r]]
  /\ toCtl' = <<>>
  /\ UNCHANGED <<rtr, main, disk, toRtr, toMain, mishaps>>

-----------------------------------------------------------------------------
(* The router. *)

RtrUp == rtr.pid /= 0 /\ rtr.boot = "up"
TellCtl(pid, msg) ==
  toCtl' = Deliver(toCtl, pid /= 0 /\ ctl.pid = pid, <<msg>>)

\* nxt_process_do_start(): READY to main ...
RtrBoot ==
  /\ rtr.pid /= 0 /\ rtr.boot = "forked"
  /\ rtr' = [rtr EXCEPT !.boot = "start"]
  /\ toMain' = Append(toMain, Msg("rtrready", rtr.pid, 0))
  /\ UNCHANGED <<ctl, main, disk, toCtl, toRtr, ans, mishaps, past>>

\* ... then nxt_router_start(), which greets a controller it was forked with.
RtrStart ==
  /\ rtr.pid /= 0 /\ rtr.boot = "start"
  /\ rtr' = [rtr EXCEPT !.boot = "up", !.greeted = rtr.controller /= 0]
  /\ TellCtl(rtr.controller, Msg("greet", rtr.pid, 0))
  /\ UNCHANGED <<ctl, main, disk, toRtr, toMain, ans, mishaps, past>>

RtrReads(type) ==
  /\ RtrUp /\ toRtr /= <<>>
  /\ Head(toRtr).type = type
  /\ toRtr' = Tail(toRtr)

\* nxt_router_new_port_handler()
RtrNewPort ==
  /\ RtrReads("newport")
  /\ rtr' = [rtr EXCEPT !.controller = Head(toRtr).pid, !.greeted = TRUE]
  /\ TellCtl(Head(toRtr).pid, Msg("greet", rtr.pid, 0))
  /\ UNCHANGED <<ctl, main, disk, toMain, ans, mishaps, past>>

\* nxt_router_remove_pid_handler()
RtrRemovePid ==
  /\ RtrReads("removepid")
  /\ rtr' = [rtr EXCEPT !.controller = IF @ = Head(toRtr).pid THEN 0 ELSE @]
  /\ UNCHANGED <<ctl, main, disk, toCtl, toMain, ans, mishaps, past>>

\* nxt_router_conf_start(): s is the router, m the message.
ConfStart(s, m) ==
  [s EXCEPT !.pc = "apply", !.cur = m, !.got = NoFiles,
            !.need = {f \in Files : Naming(f, m.conf)}]

\* nxt_router_conf_end()
ConfEnd(s) ==
  [s EXCEPT !.pc = "idle", !.cur = NoMsg, !.need = {}, !.got = NoFiles,
            !.posted = @ \/ s.deferred /= NoMsg]

\* nxt_router_conf_data_handler(): one configuration waits while another is
\* applied, and a newer one takes its place.
RtrData ==
  /\ RtrReads("data")
  /\ LET m == Head(toRtr)
         busy == rtr.pc /= "idle" \/ rtr.deferred /= NoMsg
     IN \/ /\ rtr.controller /= m.pid
           /\ UNCHANGED <<rtr, toCtl>>
        \/ /\ rtr.controller = m.pid /\ busy
           /\ rtr' = [rtr EXCEPT !.deferred = m]
           /\ IF rtr.deferred = NoMsg THEN UNCHANGED toCtl
              ELSE TellCtl(rtr.deferred.pid,
                           Msg("error", 0, rtr.deferred.stream))
        \/ /\ rtr.controller = m.pid /\ ~busy
           /\ rtr' = ConfStart(rtr, m)
           /\ UNCHANGED toCtl
  /\ UNCHANGED <<ctl, main, disk, toMain, ans, mishaps, past>>

\* nxt_router_conf_deferred_handler()
RtrDeferred ==
  /\ RtrUp /\ rtr.posted
  /\ rtr' = LET s == [rtr EXCEPT !.posted = FALSE] IN
            IF rtr.deferred = NoMsg \/ rtr.pc /= "idle" THEN s
            ELSE ConfStart([s EXCEPT !.deferred = NoMsg], rtr.deferred)
  /\ UNCHANGED <<ctl, main, disk, toCtl, toRtr, toMain, ans, mishaps, past>>

\* nxt_router_conf_apply(): a bundle or module is asked from main.
RtrAsks(f) ==
  /\ RtrUp /\ rtr.pc = "apply" /\ f \in rtr.need
  /\ rtr' = [rtr EXCEPT !.pc = "wait", !.need = @ \ {f}]
  /\ toMain' = Append(toMain, [Msg("get", rtr.pid, 0) EXCEPT !.file = f])
  /\ UNCHANGED <<ctl, main, disk, toCtl, toRtr, ans, mishaps, past>>

\* nxt_router_tls_rpc_handler(), nxt_router_js_module_rpc_handler()
RtrGets ==
  /\ RtrReads("file")
  /\ LET m == Head(toRtr) IN
     IF m.body /= 0
     THEN /\ rtr' = [rtr EXCEPT !.pc = "apply", !.got[m.file] = m.body]
          /\ UNCHANGED toCtl
     ELSE /\ rtr' = ConfEnd(rtr)
          /\ TellCtl(rtr.cur.pid, Msg("error", 0, rtr.cur.stream))
  /\ UNCHANGED <<ctl, main, disk, toMain, ans, mishaps, past>>

\* nxt_router_conf_error(), or the failure at the head of nxt_router_conf_start()
RtrConfError ==
  /\ RtrUp /\ rtr.pc = "apply"
  /\ Mishap("apply")
  /\ rtr' = ConfEnd(rtr)
  /\ TellCtl(rtr.cur.pid, Msg("error", 0, rtr.cur.stream))
  /\ UNCHANGED <<ctl, main, disk, toRtr, toMain, ans, past>>

\* nxt_router_engines_post(): the engines have the new configuration.
RtrPost ==
  /\ RtrUp /\ rtr.pc = "apply" /\ rtr.need = {}
  /\ rtr' = [rtr EXCEPT !.pc = "posted", !.conf = rtr.cur.conf,
                        !.files = rtr.got]
  /\ UNCHANGED <<ctl, main, disk, toCtl, toRtr, toMain, ans, mishaps, past>>

\* nxt_router_conf_ready(): every engine has answered.
RtrConfReady ==
  /\ RtrUp /\ rtr.pc = "posted"
  /\ rtr' = ConfEnd(rtr)
  /\ TellCtl(rtr.cur.pid, Msg("ready", 0, rtr.cur.stream))
  /\ UNCHANGED <<ctl, main, disk, toRtr, toMain, ans, mishaps, past>>

\* nxt_router_status_handler(), nxt_router_app_restart_handler()
RtrReplies(type) ==
  /\ RtrReads(type)
  /\ LET m == Head(toRtr) IN
     IF rtr.controller = m.pid
     THEN TellCtl(m.pid, Msg("ready", 0, m.stream))
     ELSE UNCHANGED toCtl
  /\ UNCHANGED <<ctl, rtr, main, disk, toMain, ans, mishaps, past>>

RtrDies ==
  /\ rtr.pid /= 0 /\ past.rtrs < MaxRtr /\ Accident
  /\ past' = [past EXCEPT !.rtrs = @ + 1]
  /\ rtr' = [NewRtr(0, 0) EXCEPT !.greeted = rtr.greeted]
  /\ toRtr' = <<>>
  /\ UNCHANGED <<ctl, main, disk, toCtl, toMain, ans, mishaps>>

-----------------------------------------------------------------------------
(* Main. *)

MainReads(types) ==
  /\ toMain /= <<>>
  /\ Head(toMain).type \in types
  /\ toMain' = Tail(toMain)

\* nxt_port_process_ready_handler(): the new port goes to the other process,
\* if that one is registered.  A process that was reaped is not known.
MainReady ==
  /\ MainReads({"ready", "rtrready"})
  /\ LET p == Head(toMain).pid IN
     IF Head(toMain).type = "ready"
     THEN /\ main' = [main EXCEPT !.ctlready = @ \/ main.ctl = p]
          /\ toRtr' = Deliver(toRtr, main.ctl = p /\ rtr.pid = main.rtr
                                       /\ rtr.pid /= 0,
                              <<Msg("newport", p, 0)>>)
          /\ UNCHANGED toCtl
     ELSE /\ main' = [main EXCEPT !.rtrready = @ \/ main.rtr = p]
          /\ toCtl' = Deliver(toCtl, main.rtr = p /\ ctl.pid = main.ctl
                                       /\ ctl.pid /= 0,
                              <<Msg("newport", p, 0)>>)
          /\ UNCHANGED toRtr
  /\ UNCHANGED <<ctl, rtr, disk, ans, mishaps, past>>

\* nxt_cert_store_get_handler(), nxt_script_store_get_handler(): main opens the
\* file that is there now.
MainGet ==
  /\ MainReads({"get"})
  /\ LET m == Head(toMain) IN
     toRtr' = Deliver(toRtr, m.pid = main.rtr /\ m.pid = rtr.pid,
                      <<[Msg("file", 0, 0) EXCEPT !.file = m.file,
                                                  !.body = disk.files[m.file]]>>)
  /\ UNCHANGED <<ctl, rtr, main, disk, toCtl, ans, mishaps, past>>

Stores == {"store", "cert", "uncert", "script", "unscript"}

\* What a store does to the state directory.
Written(job, d) ==
  IF job.type = "store" THEN [d EXCEPT !.conf = job.conf]
                        ELSE [d EXCEPT !.files[job.file] = job.body]

\* nxt_main_store_reply(), nxt_main_store_job_done()
Reply(m, type) ==
  Deliver(toCtl, m.pid /= 0 /\ m.pid = ctl.pid /\ m.pid = main.ctl,
          <<Msg(type, 0, m.stream)>>)

\* A store that arrives: nxt_main_port_conf_store_handler(),
\* nxt_cert_store_put_handler() and the like.  Only the controller may store.
\* It runs in a child, or waits for the one that runs.  When fork() fails, main
\* runs it: a job is answered then, a configuration is not.
MainStore ==
  /\ MainReads(Stores)
  /\ LET m == Head(toMain)
         owed == IF m.type = "store" THEN m ELSE main.owed
     IN \/ /\ m.pid /= main.ctl
           /\ UNCHANGED <<main, disk, toCtl, mishaps>>
        \/ /\ m.pid = main.ctl
           /\ main' = IF main.child = NoMsg
                      THEN [main EXCEPT !.owed = owed, !.child = m]
                      ELSE [main EXCEPT !.owed = owed, !.jobs = Append(@, m)]
           /\ toCtl' = IF m.type = "store" THEN Reply(main.owed, "error")
                                           ELSE toCtl
           /\ UNCHANGED <<disk, mishaps>>
        \/ /\ m.pid = main.ctl /\ main.child = NoMsg
           /\ Mishap(IF m.type = "store" THEN "forkconf" ELSE "fork")
           /\ disk' = Written(m, disk)
           /\ main' = [main EXCEPT !.owed = owed]
           /\ toCtl' = IF m.type = "store" THEN toCtl ELSE Reply(m, "ready")
  /\ UNCHANGED <<ctl, rtr, toRtr, ans, past>>

\* nxt_main_file_store(): rename(); or unlink().
StoreRenames ==
  /\ main.child /= NoMsg /\ ~main.renamed
  /\ disk' = Written(main.child, disk)
  /\ main' = [main EXCEPT !.renamed = TRUE]
  /\ UNCHANGED <<ctl, rtr, toCtl, toRtr, toMain, ans, mishaps, past>>

\* A process of main that has just been forked keeps the port of the other one
\* if main has its READY.
ForkCtl(m) ==
  /\ ctl' = NewCtl(past.ctls, disk, IF m.rtrready THEN m.rtr ELSE 0)
  /\ main' = [m EXCEPT !.ctl = past.ctls, !.ctlready = FALSE, !.wait = FALSE]

\* Mutant of StoreReply: the exit code of the child is not looked at.
StoreReplyReady(type) == "ready"

\* nxt_main_store_exited(): WIFEXITED() with 0 is a success.
StoreReply(type) == type

\* nxt_main_store_exited(): the answer, the next store, and the controller that
\* waited for the stores to end.
StoreEnds(type) ==
  LET job == main.child
      m == [main EXCEPT !.child = IF main.jobs = <<>> THEN NoMsg
                                  ELSE Head(main.jobs),
                        !.jobs = IF @ = <<>> THEN @ ELSE Tail(@),
                        !.renamed = FALSE,
                        !.owed = IF job.type = "store" THEN NoMsg ELSE @]
  IN /\ toCtl' = Reply(IF job.type = "store" THEN main.owed ELSE job,
                        StoreReply(type))
     /\ IF m.child = NoMsg /\ main.wait THEN ForkCtl(m)
        ELSE main' = m /\ UNCHANGED ctl

StoreExits ==
  /\ main.child /= NoMsg /\ main.renamed
  /\ StoreEnds("ready")
  /\ UNCHANGED <<rtr, disk, toRtr, toMain, ans, mishaps, past>>

\* The child fails before the rename, or is killed after it.
StoreFails ==
  /\ main.child /= NoMsg
  /\ Mishap(IF main.renamed THEN "torn" ELSE "store")
  /\ StoreEnds("error")
  /\ UNCHANGED <<rtr, disk, toRtr, toMain, ans, past>>

\* nxt_main_process_sigchld_handler() for the controller.
ReapCtl ==
  /\ main.ctl /= 0 /\ main.ctl /= ctl.pid
  /\ toRtr' = Deliver(toRtr, rtr.pid = main.rtr /\ rtr.pid /= 0,
                      <<Msg("removepid", main.ctl, 0)>>)
  /\ LET m == [main EXCEPT !.ctl = 0, !.ctlready = FALSE] IN
     IF main.child /= NoMsg
     THEN main' = [m EXCEPT !.wait = TRUE] /\ UNCHANGED ctl
     ELSE ForkCtl(m)
  /\ UNCHANGED <<rtr, disk, toCtl, toMain, ans, mishaps, past>>

\* nxt_main_process_sigchld_handler() for the router.
ReapRtr ==
  /\ main.rtr /= rtr.pid
  /\ toCtl' = Deliver(toCtl, ctl.pid = main.ctl /\ ctl.pid /= 0,
                      <<Msg("removepid", main.rtr, 0)>>)
  /\ rtr' = NewRtr(past.rtrs, IF main.ctlready THEN main.ctl ELSE 0)
  /\ main' = [main EXCEPT !.rtr = past.rtrs, !.rtrready = FALSE]
  /\ IF rtr.greeted /\ ~main.rtrready THEN Mishap("early")
                                      ELSE UNCHANGED mishaps
  /\ UNCHANGED <<ctl, disk, toRtr, toMain, ans, past>>

-----------------------------------------------------------------------------
CtlNext ==
  \/ CtlBoot
  \/ \E bad \in BOOLEAN : \/ CtlNewPort(bad) \/ CtlRouterReady(bad)
                          \/ CtlRemovePid(bad) \/ CtlAnswer(bad)

RtrNext ==
  \/ RtrBoot \/ RtrStart \/ RtrNewPort \/ RtrRemovePid \/ RtrData
  \/ RtrDeferred \/ RtrGets \/ RtrPost \/ RtrConfReady
  \/ \E f \in Files : RtrAsks(f)
  \/ \E type \in {"status", "restart"} : RtrReplies(type)

MainNext == MainReady \/ MainGet \/ MainStore \/ ReapCtl \/ ReapRtr
StoreNext == StoreRenames \/ StoreExits

Steps ==
  \/ \E r \in Requests, bad \in BOOLEAN : Arrive(r, bad)
  \/ CtlNext \/ RtrNext \/ MainNext \/ StoreNext
  \/ CtlDies \/ RtrDies \/ RtrConfError \/ StoreFails

Next == Steps /\ UNCHANGED what

Spec == Init /\ [][Next]_vars

\* As long as some process has a handler to run, one does; clients, deaths and
\* failures are free.
LiveSpec == Spec /\ WF_vars((CtlNext \/ RtrNext \/ MainNext \/ StoreNext) /\ UNCHANGED what)

-----------------------------------------------------------------------------
(* Properties. *)

Confs == SUBSET (Requests \cup {1})
Streams == 0..(4 * Cardinality(Requests) + 2 * MaxRtr)
Bodies0 == {0, 1} \cup {Body[r] : r \in Requests}
Msgs == [type : {"none", "newport", "removepid", "greet", "ready", "rtrready",
                 "error", "data", "status", "restart", "get", "file"} \cup Stores,
         pid : 0..(MaxCtl + MaxRtr), stream : Streams, conf : Confs,
         file : Files, body : Bodies0]

\* The type of the variables.
TypeOK ==
  /\ ctl.pid \in 0..MaxCtl /\ ctl.router \in 0..MaxRtr
  /\ {ctl.up, ctl.listening, ctl.ready, ctl.unapplied} \subseteq BOOLEAN
  /\ ctl.initial \in {0, 1} /\ ctl.stored \in Requests \cup {0}
  /\ ctl.storing \subseteq Stores /\ Cardinality(ctl.storing) <= 1
  /\ Range(ctl.waiting) \subseteq Requests
  /\ ctl.conf \in Confs \cup {Null} /\ ctl.info \in [Files -> Bodies0]
  /\ ctl.old \in Bodies0 /\ ctl.next \in Streams
  /\ \A reg \in Range(ctl.rpc) :
       reg.stream \in Streams /\ reg.r \in Requests \cup {0}
         /\ reg.peer \in 0..MaxRtr /\ reg.conf \in Confs
  /\ rtr.pid \in 0..MaxRtr /\ rtr.controller \in 0..MaxCtl
  /\ rtr.boot \in {"forked", "start", "up"}
  /\ rtr.pc \in {"idle", "apply", "wait", "posted"}
  /\ {rtr.greeted, rtr.posted} \subseteq BOOLEAN
  /\ {rtr.cur, rtr.deferred} \subseteq Msgs /\ rtr.need \subseteq Files
  /\ {rtr.got, rtr.files} \subseteq [Files -> Bodies0] /\ rtr.conf \in Confs
  /\ main.ctl \in 0..MaxCtl /\ main.rtr \in 1..MaxRtr
  /\ {main.ctlready, main.rtrready, main.renamed, main.wait} \subseteq BOOLEAN
  /\ {main.child, main.owed} \subseteq Msgs
  /\ disk.conf \in Confs \cup {Null} /\ disk.files \in [Files -> Bodies0]
  /\ Range(toCtl) \cup Range(toRtr) \cup Range(toMain) \cup Range(main.jobs)
       \subseteq Msgs
  /\ ans \in [Requests -> {"new", "open", "ok", "failed", "refused", "lost",
                          "twice"}]
  /\ mishaps \subseteq Mishaps

\* Each request that is open is in exactly one place: it waits in the queue; or
\* it is at the queue's head with one call to the router; or it has one call to
\* main and is not in the queue; or it is the stored bundle that waits for the
\* first configuration of a new router.  An answered request is nowhere.  So
\* every request is answered once, whichever of the answer, the death of the
\* router and a flush of the queue comes first.
Owned ==
  \A r \in Requests :
    LET queued == Cardinality({i \in DOMAIN ctl.waiting : ctl.waiting[i] = r})
        calls == {i \in DOMAIN ctl.rpc : ctl.rpc[i].r = r}
        toMainOnly == \A i \in calls : ctl.rpc[i].peer = 0
    IN /\ ans[r] /= "twice"
       /\ ans[r] = "open" =>
            \/ queued = 1 /\ calls = {} /\ ctl.stored /= r
            \/ /\ queued = 1 /\ Cardinality(calls) = 1 /\ ~toMainOnly
               /\ Head(ctl.waiting) = r /\ ctl.stored /= r
            \/ queued = 0 /\ Cardinality(calls) = 1 /\ toMainOnly
                 /\ ctl.stored /= r
            \/ queued = 0 /\ calls = {} /\ ctl.stored = r
       /\ ans[r] /= "open" => queued = 0 /\ calls = {} /\ ctl.stored /= r

\* One change at a time.  The router has at most one configuration of the
\* living controller that it has not answered, so that none is applied after a
\* newer one; main never gets a store while it runs another.
UnansweredConfs ==
  Cardinality({i \in DOMAIN toRtr : toRtr[i].type = "data"
                                      /\ toRtr[i].pid = ctl.pid})
    + (IF rtr.cur.pid = ctl.pid THEN 1 ELSE 0)
    + (IF rtr.deferred.pid = ctl.pid THEN 1 ELSE 0)
OneChange ==
  /\ ctl.pid /= 0 => UnansweredConfs <= 1
  /\ main.jobs = <<>>
  /\ main.child /= NoMsg =>
       \A i \in DOMAIN toMain : toMain[i].type \in Stores => toMain[i].pid /= main.ctl

\* Nothing is in motion: no message, apply, store or death to handle.
Still ==
  /\ ctl.up /\ RtrUp /\ main.ctl = ctl.pid /\ main.rtr = rtr.pid
  /\ toCtl = <<>> /\ toRtr = <<>> /\ toMain = <<>>
  /\ rtr.pc = "idle" /\ ~rtr.posted /\ main.child = NoMsg

\* When nothing is in motion, every request has its answer.
Settled ==
  Still => /\ ctl.listening /\ ctl.ready /\ ctl.initial = 0
           /\ \A r \in Requests : ans[r] /= "open"

\* ... and the router runs the configuration that the controller shows, with
\* the bundle that is stored.  Not so after the router refused a configuration,
\* or the controller took the default one without sending it.
Agree ==
  Still /\ ~past.reset =>
    /\ rtr.conf = ctl.conf
    /\ ~ctl.unapplied /\ ctl.storing = {} =>
         \A f \in Files : Naming(f, rtr.conf) => rtr.files[f] = disk.files[f]

\* The controller lists the bundles and modules that are in the state
\* directory whenever it answers, also after a store that failed.
Listed ==
  ctl.up /\ ctl.storing = {} /\ "torn" \notin mishaps => ctl.info = disk.files

\* conf.json never names a bundle that is not stored: the next start would
\* refuse it.  Not so when the controller has dropped or could not store the
\* configuration it runs.
DiskClosed == past.unsaved \/ ~Missing(disk.conf, disk.files)

\* What the controller lists and what the next start reads agree with the state
\* directory (nxt_cert_info_add(), nxt_controller_process_cert() and the
\* stores of nxt_main_process.c).
StateDir == Listed /\ DiskClosed

\* A change of the configuration that is answered 200 is on the disk.
Durable ==
  [][\A r \in Requests :
       what[r] \in {"put", "clear"} /\ ans[r] /= "ok" /\ ans'[r] = "ok"
         => \E i \in DOMAIN ctl.rpc :
              ctl.rpc[i].r = r /\ ctl.rpc[i].conf = disk.conf]_vars

\* Every request is answered, or its controller dies: again and again there is
\* none open.
Answered == []<>(\A r \in Requests : ans[r] /= "open")

=============================================================================
