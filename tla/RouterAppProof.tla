--------------------------- MODULE RouterAppProof ---------------------------
(***************************************************************************)
(* "processes": {"max"} is kept, and idle workers above "spare" are        *)
(* watched, for every number of workers, prototypes and requests, and      *)
(* through every event of RouterApp.                                       *)
(*                                                                         *)
(* A slot moves between pending_processes, processes and                   *)
(* unaccounted_processes without a change of their sum; the sum grows by   *)
(* one slot only, where nxt_router_app_can_start() has just found it below *)
(* the limit.  The sum alone is inductive: nothing has to be known of the  *)
(* attempts behind it.                                                     *)
(***************************************************************************)
EXTENDS RouterApp, FiniteSetTheorems, TLAPS

Counters == processes \in Int /\ pending \in Int /\ unaccounted \in Int

LimitInv == Counters /\ WithinMax

\* A set of attempts is finite, so its size can be subtracted.
LEMMA AttemptsCounted ==
  ASSUME NEW S, S \subseteq Atts
  PROVE  Cardinality(S) \in Nat
BY NamesAssumption, FS_Subset, FS_CardinalityType

LEMMA LimitInit == Init => LimitInv
BY LimitsAssumption DEF Init, LimitInv, Counters, WithinMax

\* The end of attempts gives slots back (nxt_router_app_port_error()).
LEMMA FailGivesBack ==
  ASSUME LimitInv, NEW S, S \subseteq Atts, NEW d, FailAttempts(S, d),
         UNCHANGED <<processes, unaccounted>>
  PROVE  LimitInv'
<1>1. Cardinality(S) \in Nat
  BY AttemptsCounted
<1>2. pending' = pending - Cardinality(S)
  BY DEF FailAttempts
<1> QED
  BY <1>1, <1>2, LimitsAssumption DEF LimitInv, Counters, WithinMax

LEMMA PortErrorGivesBack ==
  ASSUME LimitInv, NEW a \in Atts, PortError(a), UNCHANGED processes
  PROVE  LimitInv'
<1>1. (IF att[a].ph = "proto" THEN Cohort ELSE {a}) \subseteq Atts
  BY DEF Cohort, InPhase
<1>2. /\ FailAttempts(IF att[a].ph = "proto" THEN Cohort ELSE {a}, 0)
      /\ UNCHANGED <<processes, unaccounted>>
  BY DEF PortError
<1> QED
  BY <1>1, <1>2, FailGivesBack

LEMMA PortErrorExpiredGivesBack ==
  ASSUME LimitInv, NEW a \in Atts, PortErrorExpired(a), UNCHANGED processes
  PROVE  LimitInv'
<1> DEFINE rest == IF att[a].ph = "proto" THEN Cohort \ {a} ELSE {}
<1>1. rest \subseteq Atts
  BY DEF Cohort, InPhase
<1>2. Cardinality(rest) \in Nat
  BY <1>1, AttemptsCounted
<1>3. pending' = pending - Cardinality(rest) /\ unaccounted' = unaccounted
  BY DEF PortErrorExpired
<1> QED
  BY <1>2, <1>3, LimitsAssumption DEF LimitInv, Counters, WithinMax

LEMMA LimitStarts ==
  ASSUME LimitInv, NEW a \in Atts,
         \/ StartHandler(a) \/ StartTimeout(a) \/ StartExpired(a)
         \/ MessageLeaves(a) \/ ProtoReady(a) \/ StartDies(a) \/ StartLost(a)
  PROVE  LimitInv'
<1> USE LimitsAssumption
<1>1. CASE StartHandler(a)
  <2>1. UNCHANGED <<processes, unaccounted>>
    BY <1>1 DEF StartHandler
  <2>2. \/ UNCHANGED pending
        \/ \E d \in {-1, 0} : FailAttempts({a}, d)
    BY <1>1 DEF StartHandler
  <2>3. CASE UNCHANGED pending
    BY <2>1, <2>3 DEF LimitInv, Counters, WithinMax
  <2>4. CASE \E d \in {-1, 0} : FailAttempts({a}, d)
    BY <2>1, <2>4, FailGivesBack
  <2> QED BY <2>2, <2>3, <2>4
<1>2. CASE StartTimeout(a)
  <2>1. /\ UNCHANGED processes
        /\ \/ PortError(a) \/ PortErrorExpired(a)
           \/ UNCHANGED <<pending, unaccounted>>
    BY <1>2 DEF StartTimeout
  <2>2. CASE UNCHANGED <<pending, unaccounted>>
    BY <2>1, <2>2 DEF LimitInv, Counters, WithinMax
  <2> QED BY <2>1, <2>2, PortErrorGivesBack, PortErrorExpiredGivesBack
<1>3. CASE StartExpired(a)
  BY <1>3 DEF StartExpired, LimitInv, Counters, WithinMax
<1>4. CASE MessageLeaves(a)
  <2>1. /\ UNCHANGED processes
        /\ \/ PortError(a) \/ PortErrorExpired(a)
           \/ UNCHANGED <<pending, unaccounted>>
    BY <1>4 DEF MessageLeaves
  <2>2. CASE UNCHANGED <<pending, unaccounted>>
    BY <2>1, <2>2 DEF LimitInv, Counters, WithinMax
  <2> QED BY <2>1, <2>2, PortErrorGivesBack, PortErrorExpiredGivesBack
<1>5. CASE ProtoReady(a)
  <2>1. /\ UNCHANGED <<processes, pending>>
        /\ unaccounted' = unaccounted \/ unaccounted' = unaccounted - 1
    BY <1>5 DEF ProtoReady
  <2> QED BY <2>1 DEF LimitInv, Counters, WithinMax
<1>6. CASE StartDies(a)
  <2>1. /\ UNCHANGED processes
        /\ \/ PortError(a)
           \/ unaccounted' = unaccounted - 1 /\ UNCHANGED pending
    BY <1>6 DEF StartDies
  <2>2. CASE unaccounted' = unaccounted - 1 /\ UNCHANGED pending
    BY <2>1, <2>2 DEF LimitInv, Counters, WithinMax
  <2> QED BY <2>1, <2>2, PortErrorGivesBack
<1>7. CASE StartLost(a)
  <2>1. UNCHANGED processes /\ PortError(a)
    BY <1>7 DEF StartLost
  <2> QED BY <2>1, PortErrorGivesBack
<1> QED
  BY <1>1, <1>2, <1>3, <1>4, <1>5, <1>6, <1>7

\* nxt_router_app_can_start() leaves room for the slot that it admits.
LEMMA WantsHasRoom ==
  ASSUME NEW pr, NEW pe, NEW un, NEW ac, NEW ha, NEW n, Wants(pr, pe, un, ac, ha, n)
  PROVE  pr + pe + un < MaxProcesses
BY DEF Wants

\* A worker that registers takes the slot it was started on; one that is told
\* to quit gives it back first, and another start may follow.
LEMMA LimitReady ==
  ASSUME LimitInv, NEW a \in Atts, WorkerReady(a)
  PROVE  LimitInv'
<1> USE LimitsAssumption
<1> DEFINE late == att[a].ph = "lateW"
           pe == IF late THEN pending ELSE pending - 1
           un == IF late THEN unaccounted - 1 ELSE unaccounted
           start == Wants(processes, pe, un, active, hash, eco.n)
<1>1. pe \in Int /\ un \in Int /\ pe + un = pending + unaccounted - 1
  BY DEF LimitInv, Counters
<1>2. unaccounted' = un
  BY DEF WorkerReady
<1>3. \/ pending' = pe /\ processes' = processes + 1
      \/ /\ UNCHANGED processes
         /\ pending' = pe \/ (start /\ pending' = pe + 1)
  BY DEF WorkerReady, StartIf
<1>4. start => processes + pe + un < MaxProcesses
  BY WantsHasRoom
<1> HIDE DEF pe, un, start
<1> QED
  BY <1>1, <1>2, <1>3, <1>4 DEF LimitInv, Counters, WithinMax

\* A dead worker leaves its slot, and its replacement reserves one.
LEMMA LimitClose ==
  ASSUME LimitInv, NEW a \in Atts, PortClose(a)
  PROVE  LimitInv'
<1> USE LimitsAssumption
<1> DEFINE e == Detached(PortBusy(eco, a), a, 0, 0)
           start == Wants(processes - 1, pending, unaccounted, active, hash - 1, e.n)
<1>1. processes' = processes - 1 /\ UNCHANGED unaccounted
  BY DEF PortClose
<1>2. \/ start /\ pending = 0 /\ pending' = 1
      \/ pending' = pending
      \/ start /\ pending' = pending + 1
  BY DEF PortClose, StartIf
<1>3. start => processes - 1 + pending + unaccounted < MaxProcesses
  BY WantsHasRoom
<1> HIDE DEF start
<1> QED
  BY <1>1, <1>2, <1>3 DEF LimitInv, Counters, WithinMax

\* The other places that start a process reserve one slot, if there is room.
LEMMA LimitReserve ==
  ASSUME LimitInv,
         \/ \E r \in Reqs : \/ PortGet(r) \/ HeadersAck(r)
                            \/ AppTimeout(r) \/ Resend(r)
         \/ \E a \in Atts : DetachedStart(a)
  PROVE  LimitInv'
<1> USE LimitsAssumption
<1> DEFINE Room == processes + pending + unaccounted < MaxProcesses
           Reserved == /\ UNCHANGED <<processes, unaccounted>>
                       /\ pending' = pending \/ (Room /\ pending' = pending + 1)
<1>1. ASSUME NEW r \in Reqs, PortGet(r) PROVE Reserved
  BY <1>1, WantsHasRoom DEF PortGet, StartIf
<1>2. ASSUME NEW r \in Reqs, HeadersAck(r) PROVE Reserved
  BY <1>2, WantsHasRoom DEF HeadersAck, StartIf, BusyStarts
<1>3. ASSUME NEW r \in Reqs, AppTimeout(r) PROVE Reserved
  BY <1>3, WantsHasRoom DEF AppTimeout, StartIf, BusyStarts
<1>4. ASSUME NEW r \in Reqs, Resend(r) PROVE Reserved
  BY <1>4, WantsHasRoom DEF Resend, StartIf
<1>5. ASSUME NEW a \in Atts, DetachedStart(a) PROVE Reserved
  BY <1>5, WantsHasRoom DEF DetachedStart, StartIf, BusyStarts
<1>6. Reserved
  BY <1>1, <1>2, <1>3, <1>4, <1>5
<1> QED
  BY <1>6 DEF LimitInv, Counters, WithinMax

\* Workers told to quit leave their slots.
LEMMA LimitQuit ==
  ASSUME LimitInv, AdjustReap \/ FreeApp
  PROVE  LimitInv'
<1> USE LimitsAssumption
<1>1. CASE AdjustReap
  <2>1. processes' = processes - 1 /\ UNCHANGED <<pending, unaccounted>>
    BY <1>1 DEF AdjustReap
  <2> QED BY <2>1 DEF LimitInv, Counters, WithinMax
<1>2. CASE FreeApp
  <2> DEFINE all == {a \in Atts : Registered(a)}
  <2>1. Cardinality(all) \in Nat
    BY AttemptsCounted
  <2>2. processes' = processes - Cardinality(all)
        /\ UNCHANGED <<pending, unaccounted>>
    BY <1>2 DEF FreeApp
  <2> HIDE DEF all
  <2> QED BY <2>1, <2>2 DEF LimitInv, Counters, WithinMax
<1> QED BY <1>1, <1>2

\* Everything else leaves the counters alone.
LEMMA SlotsLeft ==
  ASSUME \/ \E a \in Atts : \/ WorkerExit(a) \/ ContextClose(a)
                            \/ ContextReady(a) \/ DetachedFinish(a)
         \/ \E q \in Protos : ProtoExit(q) \/ ProtoRemoved(q)
         \/ \E who \in Reqs \cup {"main"} : DrainStep(who)
         \/ AdjustBegin \/ AdjustEnd \/ Restart \/ RemoveApp \/ ConfRelease
         \/ \E r \in Reqs : \/ SendAck(r) \/ Response(r) \/ PeerGone(r)
                            \/ Upgrade(r) \/ Close(r) \/ AckTimeout(r)
                            \/ ErrHandler(r) \/ RequeueHandler(r) \/ Fault(r)
                            \/ \E w \in Atts, c \in 0..Contexts : Claim(r, w, c)
  PROVE  UNCHANGED <<processes, pending, unaccounted>>
<1> USE DEF slots
<1>1. ASSUME NEW a \in Atts,
             WorkerExit(a) \/ ContextClose(a) \/ ContextReady(a) \/ DetachedFinish(a)
      PROVE  UNCHANGED <<processes, pending, unaccounted>>
  BY <1>1 DEF WorkerExit, ContextClose, ContextReady, DetachedFinish
<1>2. ASSUME NEW q \in Protos, ProtoExit(q) \/ ProtoRemoved(q)
      PROVE  UNCHANGED <<processes, pending, unaccounted>>
  BY <1>2 DEF ProtoExit, ProtoRemoved
<1>3. ASSUME NEW who \in Reqs \cup {"main"}, DrainStep(who)
      PROVE  UNCHANGED <<processes, pending, unaccounted>>
  BY <1>3 DEF DrainStep
<1>4. ASSUME AdjustBegin \/ AdjustEnd \/ Restart \/ RemoveApp \/ ConfRelease
      PROVE  UNCHANGED <<processes, pending, unaccounted>>
  BY <1>4 DEF AdjustBegin, AdjustEnd, Restart, RemoveApp, ConfRelease
<1>5. ASSUME NEW r \in Reqs,
             \/ SendAck(r) \/ Response(r) \/ PeerGone(r) \/ Upgrade(r) \/ Close(r)
             \/ \E w \in Atts, c \in 0..Contexts : Claim(r, w, c)
      PROVE  UNCHANGED <<processes, pending, unaccounted>>
  BY <1>5 DEF SendAck, Response, PeerGone, Upgrade, Close, Claim
<1>6. ASSUME NEW r \in Reqs,
             AckTimeout(r) \/ ErrHandler(r) \/ RequeueHandler(r) \/ Fault(r)
      PROVE  UNCHANGED <<processes, pending, unaccounted>>
  BY <1>6 DEF AckTimeout, ErrHandler, RequeueHandler, Fault
<1> QED
  BY <1>1, <1>2, <1>3, <1>4, <1>5, <1>6

LEMMA LimitStep == LimitInv /\ [Next]_vars => LimitInv'
<1> SUFFICES ASSUME LimitInv, [Next]_vars PROVE LimitInv'
  OBVIOUS
<1>1. UNCHANGED <<processes, pending, unaccounted>> => LimitInv'
  BY DEF LimitInv, Counters, WithinMax
<1>2. CASE UNCHANGED vars
  BY <1>1, <1>2 DEF vars, slots
<1>3. CASE Next
  BY <1>1, <1>3, LimitStarts, LimitReady, LimitClose, LimitReserve, LimitQuit,
     SlotsLeft DEF Next
<1> QED
  BY <1>2, <1>3

\* "processes": {"max"} is never exceeded by the processes that serve, those
\* being started and those that expired starts left behind: no path of
\* nxt_router.c reserves a slot that can_start() did not admit, and none
\* moves a slot into a second counter.
THEOREM LimitKept == Spec => []WithinMax
<1>1. Init => LimitInv
  BY LimitInit
<1>2. LimitInv /\ [Next]_vars => LimitInv'
  BY LimitStep
<1>3. LimitInv => WithinMax
  BY DEF LimitInv
<1> QED
  BY <1>1, <1>2, <1>3, PTL DEF Spec

-----------------------------------------------------------------------------
(* Idle workers are watched.  idle_processes grows by one at a time and    *)
(* only in nxt_router_app_port_idle(), which posts adjust_idle_work when   *)
(* it leaves "spare"; the handler is the only one that takes the post or   *)
(* the timer back, and sets the timer before it returns.                   *)

Adjusting == {"queued", "fired"}

WatchInv ==
  /\ eco.n \in Int /\ adj \in {"no", "queued"}
  /\ now \subseteq Adjusting \/ now \subseteq Atts
  /\ IdleWatched

\* What everything but the handler of the timer does to the economy: it leaves
\* the watch and adds no idle worker, or one that it reports.
Watched ==
  /\ timer' = timer
  /\ adj' \in {"no", "queued"} /\ (adj = "queued" => adj' = "queued")
  /\ eco'.n \in Int
  /\ eco'.n <= eco.n \/ (eco'.n = eco.n + 1 /\ (eco.n = Spare => adj' = "queued"))

\* What it does to the work of the main thread.
NotAdjusting ==
  \/ UNCHANGED now
  \/ now \cap Adjusting = {} /\ now' \subseteq Atts

LEMMA WatchedKeeps ==
  ASSUME WatchInv, Watched, NotAdjusting
  PROVE  WatchInv'
BY LimitsAssumption DEF WatchInv, Watched, NotAdjusting, IdleWatched, Adjusting

LEMMA BackToIdleWatched ==
  ASSUME WatchInv, NEW e, e.n = eco.n, NEW a, NEW open, NEW d, NEW who,
         BackToIdle(e, a, open, d, who), UNCHANGED timer
  PROVE  Watched
<1>1. /\ eco' = PortIdle(e, a, open)
      /\ adj' = IF IdleAdjusts(e, a, open) THEN "queued" ELSE adj
  BY DEF BackToIdle
<1>2. CASE ~ReallyIdle(e, a, open)
  BY <1>1, <1>2 DEF PortIdle, IdleAdjusts, WatchInv, Watched
<1>3. CASE ReallyIdle(e, a, open)
  <2>1. eco'.n = e.n + 1
    BY <1>1, <1>3 DEF PortIdle, Eco
  <2> QED
    BY <1>1, <1>3, <2>1 DEF IdleAdjusts, WatchInv, Watched
<1> QED
  BY <1>2, <1>3

\* A busy port leaves the queues; nobody joins them.
LEMMA BusyShrinks ==
  ASSUME NEW e, e.n \in Int, NEW a
  PROVE  PortBusy(e, a).n \in Int /\ PortBusy(e, a).n <= e.n
<1>1. CASE Queued(e, a)
  <2>1. PortBusy(e, a) = SpareRebalance(Out(e, a), a)
    BY <1>1 DEF PortBusy
  <2>2. Out(e, a).n = e.n - 1
    BY <1>1 DEF Out, Eco
  <2>3. SpareRebalance(Out(e, a), a).n = Out(e, a).n
    BY DEF SpareRebalance, Eco
  <2> QED
    BY <2>1, <2>2, <2>3
<1>2. CASE ~Queued(e, a)
  BY <1>2 DEF PortBusy
<1> QED
  BY <1>1, <1>2

LEMMA UnlinkWatched ==
  ASSUME WatchInv, NEW r, NEW job, NEW d, Unlink(r, job, d), UNCHANGED timer
  PROVE  Watched
<1> DEFINE p == eco.port[req[r].w]
           released == IF req[r].st = "acked"
             THEN Port(p.active - 1, p.ws, p.det, p.app, p.router, p.start, p.ctx)
             ELSE Port(p.active, p.ws - 1, p.det, p.app, p.router, p.start, p.ctx)
           e == WithPort(eco, req[r].w, released)
<1>1. \/ UNCHANGED <<eco, adj>>
      \/ BackToIdle(e, req[r].w, Open(req[r].w), d - 1, r)
  BY DEF Unlink
<1>2. e.n = eco.n
  BY DEF WithPort, Eco
<1> HIDE DEF e
<1>3. CASE UNCHANGED <<eco, adj>>
  BY <1>3 DEF WatchInv, Watched
<1> QED
  BY <1>1, <1>2, <1>3, BackToIdleWatched

LEMMA SettleWatched ==
  ASSUME WatchInv, NEW r, Settle(r), UNCHANGED timer
  PROVE  Watched
<1> DEFINE w == req[r].w
           e == Detached(eco, w, eco.port[w].app, eco.port[w].router - 1)
<1>1. \/ BackToIdle(e, w, Open(w), -2, r)
      \/ eco' = e /\ UNCHANGED adj
      \/ UNCHANGED <<eco, adj>>
  BY DEF Settle
<1>2. e.n = eco.n
  BY DEF Detached, Counted, WithPort, Eco
<1> HIDE DEF e
<1>3. CASE eco' = e /\ UNCHANGED adj
  BY <1>2, <1>3 DEF WatchInv, Watched
<1>4. CASE UNCHANGED <<eco, adj>>
  BY <1>4 DEF WatchInv, Watched
<1> QED
  BY <1>1, <1>2, <1>3, <1>4, BackToIdleWatched

\* The actions that touch the economy.
LEMMA EconomyWatched ==
  ASSUME WatchInv,
         \/ \E a \in Atts : \/ WorkerReady(a) \/ PortClose(a) \/ ContextClose(a)
                            \/ ContextReady(a) \/ DetachedStart(a)
                            \/ DetachedFinish(a)
         \/ FreeApp
         \/ \E r \in Reqs : \/ HeadersAck(r) \/ Response(r) \/ PeerGone(r)
                            \/ Upgrade(r) \/ Close(r) \/ AckTimeout(r)
                            \/ AppTimeout(r) \/ ErrHandler(r)
                            \/ RequeueHandler(r) \/ Resend(r)
  PROVE  Watched
<1> USE LimitsAssumption
<1>0. UNCHANGED <<eco, adj, timer>> => Watched
  BY DEF WatchInv, Watched
<1>1. ASSUME NEW a \in Atts, WorkerReady(a) PROVE Watched
  <2>1. WithPort(eco, a, NewPort).n = eco.n
    BY DEF WithPort, Eco
  <2>2. /\ UNCHANGED timer
        /\ \/ UNCHANGED <<eco, adj>>
           \/ BackToIdle(WithPort(eco, a, NewPort), a, TRUE, 0, "main")
    BY <1>1 DEF WorkerReady
  <2> QED
    BY <1>0, <2>1, <2>2, BackToIdleWatched
<1>2. ASSUME NEW a \in Atts, PortClose(a) PROVE Watched
  <2> DEFINE b == PortBusy(eco, a)
  <2>1. b.n \in Int /\ b.n <= eco.n
    BY BusyShrinks DEF WatchInv
  <2>2. Detached(b, a, 0, 0).n = b.n
    BY DEF Detached, Counted, WithPort, Eco
  <2>3. eco' = Detached(b, a, 0, 0) /\ UNCHANGED <<adj, timer>>
    BY <1>2 DEF PortClose
  <2> HIDE DEF b
  <2> QED
    BY <2>1, <2>2, <2>3 DEF WatchInv, Watched
<1>3. ASSUME NEW a \in Atts, ContextClose(a) \/ ContextReady(a) PROVE Watched
  <2>1. eco'.n = eco.n /\ UNCHANGED <<adj, timer>>
    BY <1>3 DEF ContextClose, ContextReady, WithPort, Eco
  <2> QED
    BY <2>1 DEF WatchInv, Watched
<1>4. ASSUME NEW a \in Atts, DetachedStart(a) PROVE Watched
  <2> DEFINE e == Detached(eco, a, eco.port[a].app + 1, eco.port[a].router)
  <2>1. e.n = eco.n
    BY DEF Detached, Counted, WithPort, Eco
  <2>2. /\ UNCHANGED <<adj, timer>>
        /\ eco' = e \/ eco' = PortBusy(e, a)
    BY <1>4 DEF DetachedStart
  <2> HIDE DEF e
  <2>3. PortBusy(e, a).n \in Int /\ PortBusy(e, a).n <= e.n
    BY <2>1, BusyShrinks DEF WatchInv
  <2> QED
    BY <2>1, <2>2, <2>3 DEF WatchInv, Watched
<1>5. ASSUME NEW a \in Atts, DetachedFinish(a) PROVE Watched
  <2> DEFINE e == Detached(eco, a, eco.port[a].app - 1, eco.port[a].router)
  <2>1. e.n = eco.n
    BY DEF Detached, Counted, WithPort, Eco
  <2>2. /\ UNCHANGED timer
        /\ \/ BackToIdle(e, a, Open(a), -1, "main")
           \/ eco' = e /\ UNCHANGED adj
    BY <1>5 DEF DetachedFinish
  <2> HIDE DEF e
  <2>3. CASE eco' = e /\ UNCHANGED adj
    BY <2>1, <2>2, <2>3 DEF WatchInv, Watched
  <2> QED
    BY <2>1, <2>2, <2>3, BackToIdleWatched
<1>6. ASSUME FreeApp PROVE Watched
  <2> DEFINE S == {a \in {b \in Atts : Registered(b)} : Queued(eco, a)}
  <2>1. Cardinality(S) \in Nat
    BY AttemptsCounted
  <2>2. eco'.n = eco.n - Cardinality(S) /\ UNCHANGED <<adj, timer>>
    BY <1>6 DEF FreeApp, Eco
  <2> HIDE DEF S
  <2> QED
    BY <2>1, <2>2 DEF WatchInv, Watched
<1>7. ASSUME NEW r \in Reqs, HeadersAck(r) PROVE Watched
  <2> DEFINE b == PortBusy(eco, req[r].w)
  <2>1. b.n \in Int /\ b.n <= eco.n
    BY BusyShrinks DEF WatchInv
  <2>2. \A p : WithPort(b, req[r].w, p).n = b.n
    BY DEF WithPort, Eco
  <2>3. /\ UNCHANGED <<adj, timer>>
        /\ UNCHANGED eco \/ \E p : eco' = WithPort(b, req[r].w, p)
    BY <1>7 DEF HeadersAck
  <2> HIDE DEF b
  <2> QED
    BY <1>0, <2>1, <2>2, <2>3 DEF WatchInv, Watched
<1>8. ASSUME NEW r \in Reqs, Response(r) \/ PeerGone(r) PROVE Watched
  <2>1. /\ UNCHANGED timer
        /\ Settle(r) \/ \E job, d : Unlink(r, job, d)
    BY <1>8 DEF Response, PeerGone
  <2> QED
    BY <2>1, UnlinkWatched, SettleWatched
<1>9. ASSUME NEW r \in Reqs, Upgrade(r) PROVE Watched
  <2>1. eco'.n = eco.n /\ UNCHANGED <<adj, timer>>
    BY <1>9 DEF Upgrade, WithPort, Eco
  <2> QED
    BY <2>1 DEF WatchInv, Watched
<1>10. ASSUME NEW r \in Reqs, Close(r) \/ AckTimeout(r) \/ ErrHandler(r)
       PROVE  Watched
  <2>1. /\ UNCHANGED timer
        /\ UNCHANGED <<eco, adj>> \/ \E job, d : Unlink(r, job, d)
    BY <1>10 DEF Close, AckTimeout, ErrHandler
  <2> QED
    BY <1>0, <2>1, UnlinkWatched
<1>11. ASSUME NEW r \in Reqs, AppTimeout(r) PROVE Watched
  <2> DEFINE w == req[r].w
             e == Detached(eco, w, eco.port[w].app, eco.port[w].router + 1)
             b == PortBusy(e, w)
  <2>1. e.n = eco.n
    BY DEF Detached, Counted, WithPort, Eco
  <2>2. eco' = WithPort(b, w, [b.port[w] EXCEPT !.active = @ - 1])
        /\ UNCHANGED <<adj, timer>>
    BY <1>11 DEF AppTimeout
  <2>3. b.n \in Int /\ b.n <= e.n
    BY <2>1, BusyShrinks DEF WatchInv
  <2> HIDE DEF b, e
  <2>4. eco'.n = b.n
    BY <2>2 DEF WithPort, Eco
  <2> QED
    BY <2>1, <2>2, <2>3, <2>4 DEF WatchInv, Watched
<1>12. ASSUME NEW r \in Reqs, RequeueHandler(r) \/ Resend(r) PROVE Watched
  <2>1. /\ UNCHANGED timer
        /\ UNCHANGED <<eco, adj>> \/ \E job, d : Unlink(r, job, d)
    BY <1>12 DEF RequeueHandler, Resend
  <2> QED
    BY <1>0, <2>1, UnlinkWatched
<1> QED
  BY <1>1, <1>2, <1>3, <1>4, <1>5, <1>6, <1>7, <1>8, <1>9, <1>10, <1>11, <1>12

\* The actions that leave it alone.
LEMMA IdlingLeft ==
  ASSUME \/ \E a \in Atts : \/ StartHandler(a) \/ StartTimeout(a) \/ StartExpired(a)
                            \/ MessageLeaves(a) \/ ProtoReady(a) \/ StartDies(a)
                            \/ StartLost(a) \/ WorkerExit(a)
         \/ \E q \in Protos : ProtoExit(q) \/ ProtoRemoved(q)
         \/ \E who \in Reqs \cup {"main"} : DrainStep(who)
         \/ Restart \/ RemoveApp \/ ConfRelease
         \/ \E r \in Reqs : \/ PortGet(r) \/ SendAck(r) \/ Fault(r)
                            \/ \E w \in Atts, c \in 0..Contexts : Claim(r, w, c)
  PROVE  UNCHANGED <<eco, adj, timer>>
<1> USE DEF idling
<1>1. ASSUME NEW a \in Atts,
             \/ StartHandler(a) \/ StartTimeout(a) \/ StartExpired(a)
             \/ MessageLeaves(a)
      PROVE  UNCHANGED <<eco, adj, timer>>
  BY <1>1 DEF StartHandler, StartTimeout, StartExpired, MessageLeaves
<1>2. ASSUME NEW a \in Atts,
             ProtoReady(a) \/ StartDies(a) \/ StartLost(a) \/ WorkerExit(a)
      PROVE  UNCHANGED <<eco, adj, timer>>
  BY <1>2 DEF ProtoReady, StartDies, StartLost, WorkerExit
<1>3. ASSUME NEW q \in Protos, ProtoExit(q) \/ ProtoRemoved(q)
      PROVE  UNCHANGED <<eco, adj, timer>>
  BY <1>3 DEF ProtoExit, ProtoRemoved
<1>4. ASSUME NEW who \in Reqs \cup {"main"}, DrainStep(who)
      PROVE  UNCHANGED <<eco, adj, timer>>
  BY <1>4 DEF DrainStep
<1>5. ASSUME Restart \/ RemoveApp \/ ConfRelease
      PROVE  UNCHANGED <<eco, adj, timer>>
  BY <1>5 DEF Restart, RemoveApp, ConfRelease
<1>6. ASSUME NEW r \in Reqs,
             \/ PortGet(r) \/ SendAck(r) \/ Fault(r)
             \/ \E w \in Atts, c \in 0..Contexts : Claim(r, w, c)
      PROVE  UNCHANGED <<eco, adj, timer>>
  BY <1>6 DEF PortGet, SendAck, Fault, Claim
<1> QED
  BY <1>1, <1>2, <1>3, <1>4, <1>5, <1>6

\* Handlers of the main thread do not run inside one another.
LEMMA MainThreadSerial ==
  ASSUME WatchInv, Next, ~AdjustBegin, ~AdjustReap, ~AdjustEnd
  PROVE  NotAdjusting
<1> USE NamesAssumption DEF NotAdjusting, Adjusting, MainFree, starting
<1>1. \A a \in Atts : a \in now => now \subseteq Atts
  BY DEF WatchInv
<1>2. ASSUME NEW a \in Atts,
             StartHandler(a) \/ StartExpired(a) \/ StartLost(a) \/ ContextClose(a)
      PROVE  NotAdjusting
  <2>1. /\ a \in now \/ now = {}
        /\ now' = now \ {a} \/ now' = {} \/ now' = now
    BY <1>2 DEF StartHandler, StartExpired, StartLost, ContextClose
  <2> QED
    BY <1>1, <2>1
<1>3. ASSUME NEW a \in Atts, StartTimeout(a) \/ MessageLeaves(a)
      PROVE  NotAdjusting
  BY <1>3 DEF StartTimeout, MessageLeaves, PortErrorExpired
<1>4. ASSUME NEW a \in Atts,
             ProtoReady(a) \/ WorkerReady(a) \/ StartDies(a) \/ WorkerExit(a)
      PROVE  NotAdjusting
  BY <1>4 DEF ProtoReady, WorkerReady, StartDies, WorkerExit, Cohort, InPhase
<1>5. ASSUME NEW a \in Atts,
             PortClose(a) \/ ContextReady(a) \/ DetachedStart(a) \/ DetachedFinish(a)
      PROVE  NotAdjusting
  BY <1>5 DEF PortClose, ContextReady, DetachedStart, DetachedFinish
<1>6. ASSUME NEW q \in Protos, ProtoExit(q) \/ ProtoRemoved(q)
      PROVE  NotAdjusting
  BY <1>6 DEF ProtoExit, ProtoRemoved, InPhase
<1>7. ASSUME NEW who \in Reqs \cup {"main"}, DrainStep(who)
      PROVE  NotAdjusting
  BY <1>7 DEF DrainStep
<1>8. ASSUME Restart \/ RemoveApp \/ ConfRelease \/ FreeApp
      PROVE  NotAdjusting
  BY <1>8 DEF Restart, RemoveApp, ConfRelease, FreeApp
<1>9. ASSUME NEW r \in Reqs,
             \/ PortGet(r) \/ SendAck(r) \/ HeadersAck(r) \/ Response(r)
             \/ PeerGone(r) \/ Upgrade(r) \/ Close(r)
             \/ \E w \in Atts, c \in 0..Contexts : Claim(r, w, c)
      PROVE  NotAdjusting
  BY <1>9 DEF PortGet, SendAck, HeadersAck, Response, PeerGone, Upgrade, Close, Claim
<1>10. ASSUME NEW r \in Reqs,
              \/ AckTimeout(r) \/ AppTimeout(r) \/ ErrHandler(r)
              \/ RequeueHandler(r) \/ Resend(r) \/ Fault(r)
       PROVE  NotAdjusting
  BY <1>10 DEF AckTimeout, AppTimeout, ErrHandler, RequeueHandler, Resend, Fault
<1> HIDE DEF NotAdjusting
<1> QED
  BY <1>2, <1>3, <1>4, <1>5, <1>6, <1>7, <1>8, <1>9, <1>10 DEF Next

LEMMA WatchInit == Init => WatchInv
BY LimitsAssumption DEF Init, WatchInv, IdleWatched, Eco

LEMMA WatchStep == WatchInv /\ [Next]_vars => WatchInv'
<1> SUFFICES ASSUME WatchInv, [Next]_vars PROVE WatchInv'
  OBVIOUS
<1> USE LimitsAssumption
<1>1. CASE UNCHANGED vars
  BY <1>1 DEF vars, starting, idling, WatchInv, IdleWatched
<1>2. CASE AdjustBegin
  BY <1>2 DEF AdjustBegin, MainFree, WatchInv, IdleWatched, Adjusting
<1>3. CASE AdjustReap
  <2>1. eco'.n = eco.n \/ eco'.n = eco.n - 1
    BY <1>3 DEF AdjustReap, Out, Eco
  <2>2. UNCHANGED <<adj, timer, now>>
    BY <1>3 DEF AdjustReap
  <2> QED
    BY <2>1, <2>2 DEF WatchInv, IdleWatched
<1>4. CASE AdjustEnd
  BY <1>4 DEF AdjustEnd, WatchInv, IdleWatched
<1>5. CASE Next /\ ~AdjustBegin /\ ~AdjustReap /\ ~AdjustEnd
  <2>1. NotAdjusting
    BY <1>5, MainThreadSerial
  <2>2. UNCHANGED <<eco, adj, timer>> => Watched
    BY DEF WatchInv, Watched
  <2>3. Watched
    BY <1>5, <2>2, IdlingLeft, EconomyWatched DEF Next
  <2> QED
    BY <2>1, <2>3, WatchedKeeps
<1> QED
  BY <1>1, <1>2, <1>3, <1>4, <1>5

\* While more workers are idle than "spare", nxt_router_adjust_idle_timer() is
\* posted, runs, or has armed its timer: no order of releases, deaths,
\* restarts and runs of the handler leaves a surplus worker that nothing will
\* reap.
THEOREM SurplusWatched == Spec => []IdleWatched
<1>1. Init => WatchInv
  BY WatchInit
<1>2. WatchInv /\ [Next]_vars => WatchInv'
  BY WatchStep
<1>3. WatchInv => IdleWatched
  BY DEF WatchInv
<1> QED
  BY <1>1, <1>2, <1>3, PTL DEF Spec

-----------------------------------------------------------------------------
(* The counters of slots of nxt_app_t count the attempts and the workers    *)
(* behind them, for every number of workers, prototypes and requests.       *)
(* Every attempt is in one phase.  A step moves one attempt, or the cohort  *)
(* of a prototype start, from one phase to another, and takes each counter  *)
(* as many down or up as attempts leave or enter the phases it counts.      *)

Phases == {"none", "held", "posted", "replay", "wait", "proto", "sent",
           "expiring", "lost", "lateP", "lateW", "up", "dying", "orphan",
           "quit", "stray"}

AttSet == [ph : Phases, pr : Protos \cup {None}, gen : 0..MaxGen,
           msg : {"none", "queued", "started", "late", "sent", "proto"}]

AttType == /\ att \in [Atts -> AttSet]
           /\ proto \in Protos \cup {None} /\ gen \in 0..MaxGen

\* The phases that a counter counts, and what it counts when the attempts
\* are A.
Serving == {"up", "dying", "orphan"}
Starting == {"held", "posted", "replay", "wait", "proto", "sent", "expiring",
             "lost"}
Late == {"lateP", "lateW"}
Joined == {"wait", "proto"}

Of(A, P) == {a \in Atts : A[a].ph \in P}
Count(A, P) == Cardinality(Of(A, P))
One(ph, P) == IF ph \in P THEN 1 ELSE 0

SlotInv == AttType /\ SlotsAgree

-----------------------------------------------------------------------------
(* Sets of attempts and their sizes.                                       *)

LEMMA OfAtts == ASSUME NEW A, NEW P PROVE Of(A, P) \subseteq Atts
BY DEF Of

LEMMA CountType == ASSUME NEW A, NEW P PROVE Count(A, P) \in Nat
BY OfAtts, AttemptsCounted DEF Count

LEMMA SlotsCounted ==
  SlotsAgree <=> /\ processes = Count(att, Serving)
                 /\ pending = Count(att, Starting)
                 /\ unaccounted = Count(att, Late)
                 /\ protoReqs = Count(att, Joined)
BY DEF SlotsAgree, Count, Of, Serving, Starting, Late, Joined, InPhase, Cohort,
       Registered

LEMMA SlotsCountedNext ==
  SlotsAgree' <=> /\ processes' = Count(att', Serving)
                  /\ pending' = Count(att', Starting)
                  /\ unaccounted' = Count(att', Late)
                  /\ protoReqs' = Count(att', Joined)
BY DEF SlotsAgree, Count, Of, Serving, Starting, Late, Joined, InPhase, Cohort,
       Registered

LEMMA OneMore ==
  ASSUME NEW S, S \subseteq Atts, NEW a \in Atts \ S
  PROVE  Cardinality(S \cup {a}) = Cardinality(S) + 1
BY NamesAssumption, FS_Subset, FS_AddElement

LEMMA OneLess ==
  ASSUME NEW S, S \subseteq Atts, NEW a \in S
  PROVE  Cardinality(S \ {a}) = Cardinality(S) - 1
BY NamesAssumption, FS_Subset, FS_RemoveElement

LEMMA SomeLess ==
  ASSUME NEW S, S \subseteq Atts, NEW T, T \subseteq S
  PROVE  Cardinality(S \ T) = Cardinality(S) - Cardinality(T)
<1>1. IsFiniteSet(S) /\ IsFiniteSet(T)
  BY NamesAssumption, FS_Subset
<1>2. S \cap T = T
  OBVIOUS
<1>3. Cardinality(S \ T) = Cardinality(S) - Cardinality(S \cap T)
  BY <1>1, FS_Difference
<1> QED
  BY <1>2, <1>3

LEMMA NoneLeft == Cardinality({}) = 0
BY FS_EmptySet

LEMMA OneType == ASSUME NEW ph, NEW P PROVE One(ph, P) \in {0, 1}
BY DEF One

\* One attempt changes its phase.
LEMMA CountMove ==
  ASSUME NEW A \in [Atts -> AttSet], NEW a \in Atts, NEW x \in AttSet, NEW P
  PROVE  Count([A EXCEPT ![a] = x], P)
           = Count(A, P) + One(x.ph, P)
                         - One(A[a].ph, P)
<1> DEFINE B == [A EXCEPT ![a] = x]
<1> USE DEF One
<1>1. Of(A, P) \subseteq Atts /\ Count(A, P) \in Nat
  BY OfAtts, CountType
<1>2. CASE x.ph \in P /\ A[a].ph \notin P
  <2>1. Of(B, P) = Of(A, P) \cup {a} /\ a \notin Of(A, P)
    BY <1>2 DEF Of
  <2>2. Cardinality(Of(B, P)) = Cardinality(Of(A, P)) + 1
    BY <1>1, <2>1, OneMore
  <2> QED BY <1>1, <1>2, <2>2 DEF Count
<1>3. CASE x.ph \notin P /\ A[a].ph \in P
  <2>1. Of(B, P) = Of(A, P) \ {a} /\ a \in Of(A, P)
    BY <1>3 DEF Of
  <2>2. Cardinality(Of(B, P)) = Cardinality(Of(A, P)) - 1
    BY <1>1, <2>1, OneLess
  <2> QED BY <1>1, <1>3, <2>2 DEF Count
<1>4. CASE (x.ph \in P) <=> (A[a].ph \in P)
  <2>1. Of(B, P) = Of(A, P)
    BY <1>4 DEF Of
  <2> QED BY <1>1, <1>4, <2>1 DEF Count
<1> QED BY <1>2, <1>3, <1>4

\* All attempts of S go to phases of one kind: they leave the phases P, or
\* stay in them, or were not in them.
LEMMA CountLeave ==
  ASSUME NEW A, NEW S, NEW B, NEW P, S \subseteq Of(A, P),
         \A b \in Atts : IF b \in S THEN B[b].ph \notin P ELSE B[b] = A[b]
  PROVE  Count(B, P) = Count(A, P) - Cardinality(S)
<1>1. Of(B, P) = Of(A, P) \ S
  BY DEF Of
<1> QED
  BY <1>1, OfAtts, SomeLess DEF Count

LEMMA CountStay ==
  ASSUME NEW A, NEW B, NEW P,
         \A b \in Atts : B[b].ph \in P <=> A[b].ph \in P
  PROVE  Count(B, P) = Count(A, P)
<1>1. Of(B, P) = Of(A, P)
  BY DEF Of
<1> QED
  BY <1>1 DEF Count

-----------------------------------------------------------------------------
(* Steps on the attempts.                                                  *)

LEMMA Records ==
  /\ NoAtt \in AttSet /\ NoAtt.ph = "none"
  /\ Posted \in AttSet /\ Posted.ph = "posted"
  /\ \A ph \in Phases, pr \in Protos \cup {None}, g \in 0..MaxGen,
        msg \in {"none", "queued", "started", "late", "sent", "proto"} :
       Att(ph, pr, g, msg) \in AttSet /\ Att(ph, pr, g, msg).ph = ph
  /\ \A x \in AttSet, ph \in Phases :
       [x EXCEPT !.ph = ph] \in AttSet /\ [x EXCEPT !.ph = ph].ph = ph
  /\ \A x \in AttSet, msg \in {"none", "queued", "started", "late", "sent", "proto"} :
       [x EXCEPT !.msg = msg] \in AttSet /\ [x EXCEPT !.msg = msg].ph = x.ph
BY LimitsAssumption DEF NoAtt, Posted, Att, AttSet, Phases

\* A step that moves no attempt from one counter to another.
LEMMA SlotsSame ==
  ASSUME SlotInv, AttType', UNCHANGED <<processes, pending, unaccounted, protoReqs>>,
         \A b \in Atts : /\ att'[b].ph \in Serving <=> att[b].ph \in Serving
                         /\ att'[b].ph \in Starting <=> att[b].ph \in Starting
                         /\ att'[b].ph \in Late <=> att[b].ph \in Late
                         /\ att'[b].ph \in Joined <=> att[b].ph \in Joined
  PROVE  SlotInv'
<1>1. /\ Count(att', Serving) = Count(att, Serving)
      /\ Count(att', Starting) = Count(att, Starting)
      /\ Count(att', Late) = Count(att, Late)
      /\ Count(att', Joined) = Count(att, Joined)
  BY CountStay
<1>2. SlotsAgree'
  BY <1>1, SlotsCounted, SlotsCountedNext DEF SlotInv
<1> QED
  BY <1>2 DEF SlotInv

\* The attempts S end (nxt_router_app_port_error()): a cohort, or one that is
\* in none.
LEMMA FailSlots ==
  ASSUME SlotInv, NEW S, NEW d, FailAttempts(S, d), S \subseteq Of(att, Starting),
         \/ S = Of(att, Joined) /\ protoReqs' = 0
         \/ S \cap Of(att, Joined) = {} /\ UNCHANGED protoReqs,
         UNCHANGED <<processes, unaccounted, proto, gen>>
  PROVE  SlotInv'
<1>1. att' = [a \in Atts |-> IF a \in S THEN NoAtt ELSE att[a]]
      /\ pending' = pending - Cardinality(S)
  BY DEF FailAttempts
<1>2. AttType'
  BY <1>1, Records DEF SlotInv, AttType
<1>3. Count(att', Starting) = Count(att, Starting) - Cardinality(S)
  <2>1. \A b \in Atts : IF b \in S THEN att'[b].ph \notin Starting
                                   ELSE att'[b] = att[b]
    BY <1>1, Records DEF Starting
  <2> QED BY <2>1, CountLeave
<1>4. Count(att', Serving) = Count(att, Serving)
      /\ Count(att', Late) = Count(att, Late)
  <2>1. \A b \in Atts : /\ att'[b].ph \in Serving <=> att[b].ph \in Serving
                        /\ att'[b].ph \in Late <=> att[b].ph \in Late
    BY <1>1, Records DEF Starting, Serving, Late, Of
  <2> QED BY <2>1, CountStay
<1>5. protoReqs' = Count(att', Joined)
  <2>1. CASE S = Of(att, Joined) /\ protoReqs' = 0
    <3>1. Of(att', Joined) = {}
      BY <1>1, <2>1, Records DEF Of, Joined
    <3> QED BY <2>1, <3>1, NoneLeft DEF Count
  <2>2. CASE S \cap Of(att, Joined) = {} /\ UNCHANGED protoReqs
    <3>1. \A b \in Atts : att'[b].ph \in Joined <=> att[b].ph \in Joined
      BY <1>1, <2>2, Records DEF Joined, Of
    <3> QED BY <2>2, <3>1, CountStay, SlotsCounted DEF SlotInv
  <2> QED BY <2>1, <2>2
<1>6. SlotsAgree'
  BY <1>1, <1>3, <1>4, <1>5, SlotsCounted, SlotsCountedNext DEF SlotInv
<1> QED
  BY <1>2, <1>6 DEF SlotInv

\* One attempt moves: what each counter has to do.
LEMMA MoveSlots ==
  ASSUME SlotInv, NEW a \in Atts, NEW x \in AttSet, att' = [att EXCEPT ![a] = x],
         proto' \in Protos \cup {None}, gen' \in 0..MaxGen,
         processes' = processes + One(x.ph, Serving)
                                - One(att[a].ph, Serving),
         pending' = pending + One(x.ph, Starting)
                            - One(att[a].ph, Starting),
         unaccounted' = unaccounted + One(x.ph, Late)
                                    - One(att[a].ph, Late),
         protoReqs' = protoReqs + One(x.ph, Joined)
                                - One(att[a].ph, Joined)
  PROVE  SlotInv'
<1>1. AttType'
  BY DEF SlotInv, AttType
<1>2. att \in [Atts -> AttSet]
  BY DEF SlotInv, AttType
<1>3. ASSUME NEW P
      PROVE  Count(att', P) = Count(att, P) + One(x.ph, P) - One(att[a].ph, P)
  BY <1>2, CountMove
<1>4. SlotsAgree'
  <2>1. /\ processes = Count(att, Serving) /\ pending = Count(att, Starting)
        /\ unaccounted = Count(att, Late) /\ protoReqs = Count(att, Joined)
    BY SlotsCounted DEF SlotInv
  <2>2. /\ processes' = Count(att', Serving) /\ pending' = Count(att', Starting)
        /\ unaccounted' = Count(att', Late) /\ protoReqs' = Count(att', Joined)
    BY <1>3, <2>1
  <2> QED BY <2>2, SlotsCountedNext
<1> QED
  BY <1>1, <1>4 DEF SlotInv

LEMMA SlotInts ==
  ASSUME SlotInv
  PROVE  /\ processes \in Nat /\ pending \in Nat /\ unaccounted \in Nat
         /\ protoReqs \in Nat
         /\ att \in [Atts -> AttSet] /\ proto \in Protos \cup {None}
         /\ gen \in 0..MaxGen
BY SlotsCounted, CountType DEF SlotInv, AttType

\* A start: another attempt takes a free name (nxt_router_start_app_process()).
\* A are the attempts before it.
LEMMA PostCounts ==
  ASSUME NEW A \in [Atts -> AttSet], NEW pe, pe = Count(A, Starting),
         \A b \in Atts : att[b].ph = "none" => A[b].ph = "none",
         NEW start, NEW d, NEW who, StartIf(start, A, pe, d, who)
  PROVE  /\ att' \in [Atts -> AttSet]
         /\ pending' = Count(att', Starting)
         /\ Count(att', Serving) = Count(A, Serving)
         /\ Count(att', Late) = Count(A, Late)
         /\ Count(att', Joined) = Count(A, Joined)
<1>1. CASE att' = A /\ pending' = pe
  BY <1>1
<1>2. CASE \E b \in Atts : /\ Unused(b) /\ att' = [A EXCEPT ![b] = Posted]
                           /\ pending' = pe + 1
  <2>1. PICK b \in Atts : /\ Unused(b) /\ att' = [A EXCEPT ![b] = Posted]
                          /\ pending' = pe + 1
    BY <1>2
  <2>2. A[b].ph = "none"
    BY <2>1 DEF Unused
  <2>3. /\ Posted \in AttSet
        /\ One(Posted.ph, Starting) = 1 /\ One(Posted.ph, Serving) = 0
        /\ One(Posted.ph, Late) = 0 /\ One(Posted.ph, Joined) = 0
        /\ One(A[b].ph, Starting) = 0 /\ One(A[b].ph, Serving) = 0
        /\ One(A[b].ph, Late) = 0 /\ One(A[b].ph, Joined) = 0
    BY <2>2, Records DEF One, Serving, Starting, Late, Joined
  <2>4. ASSUME NEW P
        PROVE  Count(att', P) = Count(A, P) + One(Posted.ph, P) - One(A[b].ph, P)
    BY <2>1, <2>3, CountMove
  <2>5. att' \in [Atts -> AttSet]
    BY <2>1, <2>3
  <2>6. /\ Count(att', Serving) = Count(A, Serving) + 0 - 0
        /\ Count(att', Starting) = Count(A, Starting) + 1 - 0
        /\ Count(att', Late) = Count(A, Late) + 0 - 0
        /\ Count(att', Joined) = Count(A, Joined) + 0 - 0
    BY <2>3, <2>4
  <2>7. /\ Count(A, Serving) \in Nat /\ Count(A, Starting) \in Nat
        /\ Count(A, Late) \in Nat /\ Count(A, Joined) \in Nat
    BY CountType
  <2> QED
    BY <2>1, <2>5, <2>6, <2>7
<1> QED
  BY <1>1, <1>2 DEF StartIf

LEMMA PostSlots ==
  ASSUME SlotInv, NEW start, NEW d, NEW who, StartIf(start, att, pending, d, who),
         UNCHANGED <<processes, unaccounted, protoReqs, proto, gen>>
  PROVE  SlotInv'
<1>1. pending = Count(att, Starting)
  BY SlotsCounted DEF SlotInv
<1>2. /\ att' \in [Atts -> AttSet]
      /\ pending' = Count(att', Starting)
      /\ Count(att', Serving) = Count(att, Serving)
      /\ Count(att', Late) = Count(att, Late)
      /\ Count(att', Joined) = Count(att, Joined)
  BY <1>1, SlotInts, PostCounts
<1>3. SlotsAgree'
  BY <1>2, SlotsCounted, SlotsCountedNext DEF SlotInv
<1> QED
  BY <1>2, <1>3, SlotInts DEF SlotInv, AttType

LEMMA CohortJoined == Cohort = Of(att, Joined)
BY DEF Cohort, InPhase, Of, Joined

LEMMA PortErrorSlots ==
  ASSUME SlotInv, NEW a \in Atts, PortError(a), att[a].ph \in {"proto", "sent", "lost"},
         UNCHANGED <<processes, proto, gen>>
  PROVE  SlotInv'
<1>1. CASE att[a].ph = "proto"
  <2>1. FailAttempts(Of(att, Joined), 0) /\ protoReqs' = 0 /\ UNCHANGED unaccounted
    BY <1>1, CohortJoined DEF PortError
  <2>2. Of(att, Joined) \subseteq Of(att, Starting)
    BY DEF Of, Joined, Starting
  <2> QED BY <2>1, <2>2, FailSlots
<1>2. CASE att[a].ph # "proto"
  <2>1. FailAttempts({a}, 0) /\ UNCHANGED <<unaccounted, protoReqs>>
    BY <1>2 DEF PortError
  <2>2. {a} \subseteq Of(att, Starting) /\ {a} \cap Of(att, Joined) = {}
    BY <1>2 DEF Of, Joined, Starting
  <2> QED BY <2>1, <2>2, FailSlots
<1> QED BY <1>1, <1>2

\* The rest of the cohort of an expired prototype start goes back, and the
\* attempt itself stays pending until nxt_router_app_start_expired().
LEMMA PortErrorExpiredSlots ==
  ASSUME SlotInv, NEW a \in Atts, PortErrorExpired(a), att[a].ph \in {"proto", "sent"},
         UNCHANGED <<processes, proto, gen>>
  PROVE  SlotInv'
<1> DEFINE rest == IF att[a].ph = "proto" THEN Of(att, Joined) \ {a} ELSE {}
           m == IF att[a].ph = "proto" THEN "proto" ELSE "sent"
           x == Att("expiring", att[a].pr, att[a].gen, m)
<1>1. /\ att' = [b \in Atts |-> IF b = a THEN x ELSE IF b \in rest THEN NoAtt
                                ELSE att[b]]
      /\ pending' = pending - Cardinality(rest)
      /\ protoReqs' = IF att[a].ph = "proto" THEN 0 ELSE protoReqs
      /\ UNCHANGED unaccounted
  BY CohortJoined DEF PortErrorExpired
<1>2. x \in AttSet /\ x.ph = "expiring"
  <2>1. att[a].pr \in Protos \cup {None} /\ att[a].gen \in 0..MaxGen
    BY SlotInts DEF AttSet
  <2>2. "expiring" \in Phases /\ m \in {"none", "queued", "started", "late", "sent",
                                        "proto"}
    BY DEF Phases
  <2> QED BY <2>1, <2>2, Records
<1> HIDE DEF x
<1>3. AttType'
  BY <1>1, <1>2, Records, SlotInts DEF AttType
<1>4. Count(att', Starting) = Count(att, Starting) - Cardinality(rest)
  <2>1. rest \subseteq Of(att, Starting)
    BY DEF Of, Joined, Starting
  <2>2. Of(att', Starting) = Of(att, Starting) \ rest
    BY <1>1, <1>2, Records DEF Of, Starting, Joined
  <2> QED BY <2>1, <2>2, OfAtts, SomeLess DEF Count
<1>5. Count(att', Serving) = Count(att, Serving)
      /\ Count(att', Late) = Count(att, Late)
  <2>1. \A b \in Atts : /\ att'[b].ph \in Serving <=> att[b].ph \in Serving
                        /\ att'[b].ph \in Late <=> att[b].ph \in Late
    BY <1>1, <1>2, Records DEF Joined, Serving, Late, Of
  <2> QED BY <2>1, CountStay
<1>6. protoReqs' = Count(att', Joined)
  <2>1. CASE att[a].ph = "proto"
    <3>1. Of(att', Joined) = {}
      BY <1>1, <1>2, <2>1, Records DEF Of, Joined
    <3> QED BY <1>1, <2>1, <3>1, NoneLeft DEF Count
  <2>2. CASE att[a].ph # "proto"
    <3>1. \A b \in Atts : att'[b].ph \in Joined <=> att[b].ph \in Joined
      BY <1>1, <1>2, <2>2 DEF Joined
    <3> QED BY <1>1, <2>2, <3>1, CountStay, SlotsCounted DEF SlotInv
  <2> QED BY <2>1, <2>2
<1>7. SlotsAgree'
  BY <1>1, <1>4, <1>5, <1>6, SlotsCounted, SlotsCountedNext DEF SlotInv
<1> QED
  BY <1>3, <1>7 DEF SlotInv

\* Everything that leaves the attempts alone.
LEMMA SlotsUntouched ==
  ASSUME SlotInv, gen' \in 0..MaxGen, proto' \in Protos \cup {None},
         UNCHANGED <<att, processes, pending, unaccounted, protoReqs>>
  PROVE  SlotInv'
BY SlotsSame, SlotInts DEF AttType

-----------------------------------------------------------------------------
(* The actions.                                                            *)

LEMMA SlotsStartHandler ==
  ASSUME SlotInv, NEW a \in Atts, StartHandler(a)
  PROVE  SlotInv'
<1> USE DEF One, Serving, Starting, Late, Joined
<1>0. /\ UNCHANGED <<proto, processes, unaccounted, gen>>
      /\ att[a].ph \in {"posted", "replay"}
  BY DEF StartHandler, life
<1>1. CASE \E m \in Message : /\ att' = [att EXCEPT ![a] = Att("sent", proto, gen, m)]
                              /\ UNCHANGED <<protoReqs, pending>>
  <2>1. PICK m \in Message : /\ att' = [att EXCEPT ![a] = Att("sent", proto, gen, m)]
                             /\ UNCHANGED <<protoReqs, pending>>
    BY <1>1
  <2>2. Att("sent", proto, gen, m) \in AttSet /\ Att("sent", proto, gen, m).ph = "sent"
    BY SlotInts DEF Message, Phases, Att, AttSet
  <2> HIDE DEF One, Serving, Starting, Late, Joined
  <2>3. AttType'
    BY <1>0, <2>1, <2>2, SlotInts DEF AttType
  <2>4. \A b \in Atts : att'[b].ph = att[b].ph \/ (b = a /\ att'[b].ph = "sent")
    BY <2>1, <2>2, SlotInts
  <2> QED
    BY <1>0, <2>1, <2>3, <2>4, SlotsSame DEF Serving, Starting, Late, Joined
<1>2. CASE /\ att' = [att EXCEPT ![a] = Att("wait", None, 0, "none")]
           /\ protoReqs' = protoReqs + 1 /\ UNCHANGED pending
  <2> DEFINE x == Att("wait", None, 0, "none")
  <2>1. x \in AttSet /\ x.ph = "wait"
    BY LimitsAssumption DEF Phases, Att, AttSet
  <2> HIDE DEF x
  <2>2. /\ processes' = processes + One(x.ph, Serving) - One(att[a].ph, Serving)
        /\ pending' = pending + One(x.ph, Starting) - One(att[a].ph, Starting)
        /\ unaccounted' = unaccounted + One(x.ph, Late) - One(att[a].ph, Late)
        /\ protoReqs' = protoReqs + One(x.ph, Joined) - One(att[a].ph, Joined)
    BY <1>0, <1>2, <2>1, SlotInts
  <2>3. att' = [att EXCEPT ![a] = x] /\ proto' \in Protos \cup {None}
        /\ gen' \in 0..MaxGen
    BY <1>0, <1>2, SlotInts DEF x
  <2> HIDE DEF One, Serving, Starting, Late, Joined
  <2> QED BY <2>1, <2>2, <2>3, MoveSlots
<1>3. CASE \E m \in Message, q \in Protos :
             /\ att' = [att EXCEPT ![a] = Att("proto", q, gen, m)]
             /\ protoReqs = 0 /\ protoReqs' = 1 /\ UNCHANGED pending
  <2>1. PICK m \in Message, q \in Protos :
             /\ att' = [att EXCEPT ![a] = Att("proto", q, gen, m)]
             /\ protoReqs = 0 /\ protoReqs' = 1 /\ UNCHANGED pending
    BY <1>3
  <2> DEFINE x == Att("proto", q, gen, m)
  <2>2. x \in AttSet /\ x.ph = "proto"
    BY SlotInts DEF Phases, Message, Att, AttSet
  <2> HIDE DEF x
  <2>3. /\ processes' = processes + One(x.ph, Serving) - One(att[a].ph, Serving)
        /\ pending' = pending + One(x.ph, Starting) - One(att[a].ph, Starting)
        /\ unaccounted' = unaccounted + One(x.ph, Late) - One(att[a].ph, Late)
        /\ protoReqs' = protoReqs + One(x.ph, Joined) - One(att[a].ph, Joined)
    BY <1>0, <2>1, <2>2, SlotInts
  <2>4. att' = [att EXCEPT ![a] = x] /\ proto' \in Protos \cup {None}
        /\ gen' \in 0..MaxGen
    BY <1>0, <2>1, SlotInts DEF x
  <2> HIDE DEF One, Serving, Starting, Late, Joined
  <2> QED BY <2>2, <2>3, <2>4, MoveSlots
<1>4. CASE \E d \in {-1, 0} : FailAttempts({a}, d) /\ UNCHANGED protoReqs
  <2>1. {a} \subseteq Of(att, Starting) /\ {a} \cap Of(att, Joined) = {}
    BY <1>0 DEF Of
  <2> HIDE DEF One, Serving, Starting, Late, Joined
  <2> QED BY <1>0, <1>4, <2>1, FailSlots
<1> HIDE DEF One, Serving, Starting, Late, Joined
<1> QED
  BY <1>1, <1>2, <1>3, <1>4 DEF StartHandler

LEMMA SlotsExpiry ==
  ASSUME SlotInv, NEW a \in Atts, StartTimeout(a) \/ MessageLeaves(a)
  PROVE  SlotInv'
<1>1. /\ UNCHANGED <<processes, proto, gen>> /\ att[a].ph \in {"proto", "sent"}
      /\ \/ PortError(a) \/ PortErrorExpired(a)
         \/ /\ \E m \in {"late", "started", "sent"} : att' = [att EXCEPT ![a].msg = m]
            /\ UNCHANGED <<pending, unaccounted, protoReqs>>
  BY DEF StartTimeout, MessageLeaves, life
<1>2. CASE /\ \E m \in {"late", "started", "sent"} : att' = [att EXCEPT ![a].msg = m]
           /\ UNCHANGED <<pending, unaccounted, protoReqs>>
  <2>1. PICK m \in {"late", "started", "sent"} : att' = [att EXCEPT ![a].msg = m]
    BY <1>2
  <2>2. [att[a] EXCEPT !.msg = m] \in AttSet /\ [att[a] EXCEPT !.msg = m].ph = att[a].ph
    BY Records, SlotInts
  <2>3. AttType'
    BY <1>1, <2>1, <2>2, SlotInts DEF AttType
  <2>4. \A b \in Atts : att'[b].ph = att[b].ph
    BY <2>1, <2>2, SlotInts
  <2> QED BY <1>1, <1>2, <2>3, <2>4, SlotsSame
<1> QED
  BY <1>1, <1>2, PortErrorSlots, PortErrorExpiredSlots

LEMMA SlotsStartExpired ==
  ASSUME SlotInv, NEW a \in Atts, StartExpired(a)
  PROVE  SlotInv'
<1> DEFINE ph == IF att[a].msg = "proto" THEN "lateP" ELSE "lateW"
           x == Att(ph, att[a].pr, att[a].gen, "sent")
<1>1. /\ att' = [att EXCEPT ![a] = x] /\ att[a].ph = "expiring"
      /\ pending' = pending - 1 /\ unaccounted' = unaccounted + 1
      /\ UNCHANGED <<processes, proto, protoReqs, gen>>
  BY DEF StartExpired, life
<1>2. att[a].pr \in Protos \cup {None} /\ att[a].gen \in 0..MaxGen /\ ph \in Phases
  BY SlotInts DEF AttSet, Phases
<1>3. x \in AttSet /\ x.ph = ph
  BY <1>2, Records
<1>4. ph \in {"lateP", "lateW"}
  OBVIOUS
<1> HIDE DEF x, ph
<1>5. /\ processes' = processes + One(x.ph, Serving) - One(att[a].ph, Serving)
      /\ pending' = pending + One(x.ph, Starting) - One(att[a].ph, Starting)
      /\ unaccounted' = unaccounted + One(x.ph, Late) - One(att[a].ph, Late)
      /\ protoReqs' = protoReqs + One(x.ph, Joined) - One(att[a].ph, Joined)
  BY <1>1, <1>3, <1>4, SlotInts DEF One, Serving, Starting, Late, Joined
<1>6. proto' \in Protos \cup {None} /\ gen' \in 0..MaxGen
  BY <1>1, SlotInts
<1> QED
  BY <1>1, <1>3, <1>5, <1>6, MoveSlots

\* The prototype of a start is there: its cohort is replayed, or nobody waits.
LEMMA SlotsProtoReady ==
  ASSUME SlotInv, NEW a \in Atts, ProtoReady(a)
  PROVE  SlotInv'
<1>0. /\ UNCHANGED <<processes, pending, gen>> /\ att[a].ph \in {"proto", "lateP"}
      /\ proto' \in {proto, att[a].pr} /\ att[a].pr \in Protos \cup {None}
  BY SlotInts DEF ProtoReady, life, AttSet
<1>1. CASE att[a].ph = "lateP"
  <2>1. /\ att' = [b \in Atts |-> IF b = a THEN NoAtt ELSE att[b]]
        /\ unaccounted' = unaccounted - 1 /\ UNCHANGED protoReqs
    BY <1>1 DEF ProtoReady
  <2>2. att' = [att EXCEPT ![a] = NoAtt]
    BY <2>1, SlotInts
  <2>3. /\ processes' = processes + One(NoAtt.ph, Serving) - One(att[a].ph, Serving)
        /\ pending' = pending + One(NoAtt.ph, Starting) - One(att[a].ph, Starting)
        /\ unaccounted' = unaccounted + One(NoAtt.ph, Late) - One(att[a].ph, Late)
        /\ protoReqs' = protoReqs + One(NoAtt.ph, Joined) - One(att[a].ph, Joined)
    BY <1>0, <1>1, <2>1, Records, SlotInts DEF One, Serving, Starting, Late, Joined
  <2> QED
    BY <1>0, <2>2, <2>3, Records, SlotInts, MoveSlots
<1>2. CASE att[a].ph = "proto"
  <2> DEFINE x == Att("replay", None, 0, "none")
  <2>1. /\ att' = [b \in Atts |-> IF b \in Of(att, Joined) THEN x ELSE att[b]]
        /\ protoReqs' = 0 /\ UNCHANGED unaccounted
    BY <1>2, CohortJoined DEF ProtoReady
  <2>2. x \in AttSet /\ x.ph = "replay"
    BY LimitsAssumption DEF Phases, Att, AttSet
  <2> HIDE DEF x
  <2>3. AttType'
    BY <1>0, <2>1, <2>2, SlotInts DEF AttType
  <2>4. /\ Count(att', Serving) = Count(att, Serving)
        /\ Count(att', Starting) = Count(att, Starting)
        /\ Count(att', Late) = Count(att, Late)
    <3>1. \A b \in Atts : /\ att'[b].ph \in Serving <=> att[b].ph \in Serving
                          /\ att'[b].ph \in Starting <=> att[b].ph \in Starting
                          /\ att'[b].ph \in Late <=> att[b].ph \in Late
      BY <2>1, <2>2 DEF Of, Serving, Starting, Late, Joined
    <3> QED BY <3>1, CountStay
  <2>5. Count(att', Joined) = 0
    <3>1. Of(att', Joined) = {}
      BY <2>1, <2>2 DEF Of, Joined
    <3> QED BY <3>1, NoneLeft DEF Count
  <2>6. SlotsAgree'
    BY <1>0, <2>1, <2>4, <2>5, SlotsCounted, SlotsCountedNext DEF SlotInv
  <2> QED
    BY <2>3, <2>6 DEF SlotInv
<1> QED
  BY <1>0, <1>1, <1>2

\* A worker registers, or is told to quit and another may be started.
LEMMA SlotsWorkerReady ==
  ASSUME SlotInv, NEW a \in Atts, WorkerReady(a)
  PROVE  SlotInv'
<1> DEFINE late == att[a].ph = "lateW"
           pe == IF late THEN pending ELSE pending - 1
           un == IF late THEN unaccounted - 1 ELSE unaccounted
<1>0. /\ att[a].ph \in {"sent", "lateW"} /\ unaccounted' = un
      /\ UNCHANGED <<protoReqs, proto, gen>>
  BY DEF WorkerReady, life
<1>1. /\ One(att[a].ph, Serving) = 0 /\ One(att[a].ph, Joined) = 0
      /\ pe = pending - One(att[a].ph, Starting)
      /\ un = unaccounted - One(att[a].ph, Late)
      /\ pe \in Int /\ un \in Int
  BY <1>0, SlotInts DEF One, Serving, Starting, Late, Joined
<1>2. CASE att[a].gen = gen
  <2> DEFINE x == [att[a] EXCEPT !.ph = "up"]
  <2>1. /\ att' = [att EXCEPT ![a].ph = "up"] /\ pending' = pe
        /\ processes' = processes + 1
    BY <1>2 DEF WorkerReady
  <2>2. x \in AttSet /\ x.ph = "up" /\ att' = [att EXCEPT ![a] = x]
    <3>1. att[a] \in AttSet /\ att \in [Atts -> AttSet]
      BY SlotInts
    <3> QED BY <2>1, <3>1 DEF Phases, AttSet
  <2> HIDE DEF x, pe, un
  <2>3. /\ One(x.ph, Serving) = 1 /\ One(x.ph, Starting) = 0
        /\ One(x.ph, Late) = 0 /\ One(x.ph, Joined) = 0
    BY <2>2 DEF One, Serving, Starting, Late, Joined
  <2>4. /\ processes' = processes + One(x.ph, Serving) - One(att[a].ph, Serving)
        /\ pending' = pending + One(x.ph, Starting) - One(att[a].ph, Starting)
        /\ unaccounted' = unaccounted + One(x.ph, Late) - One(att[a].ph, Late)
        /\ protoReqs' = protoReqs + One(x.ph, Joined) - One(att[a].ph, Joined)
        /\ proto' \in Protos \cup {None} /\ gen' \in 0..MaxGen
    BY <1>0, <1>1, <2>1, <2>3, SlotInts DEF One
  <2> QED
    BY <2>2, <2>4, MoveSlots
<1>3. CASE att[a].gen # gen
  <2> DEFINE x == [att[a] EXCEPT !.ph = "quit"]
             A == [att EXCEPT ![a].ph = "quit"]
             start == Wants(processes, pe, un, active, hash, eco.n)
  <2>1. StartIf(start, A, pe, 0, "main") /\ UNCHANGED processes
    BY <1>3 DEF WorkerReady
  <2>2. x \in AttSet /\ x.ph = "quit" /\ A = [att EXCEPT ![a] = x]
    <3>1. att[a] \in AttSet /\ att \in [Atts -> AttSet]
      BY SlotInts
    <3> QED BY <3>1 DEF Phases, AttSet
  <2> HIDE DEF x, A, pe, un, start
  <2>3. /\ One(x.ph, Serving) = 0 /\ One(x.ph, Starting) = 0
        /\ One(x.ph, Late) = 0 /\ One(x.ph, Joined) = 0
    BY <2>2 DEF One, Serving, Starting, Late, Joined
  <2>4. ASSUME NEW P
        PROVE  Count(A, P) = Count(att, P) + One(x.ph, P) - One(att[a].ph, P)
    BY <2>2, SlotInts, CountMove
  <2>5. /\ processes = Count(att, Serving) /\ pending = Count(att, Starting)
        /\ unaccounted = Count(att, Late) /\ protoReqs = Count(att, Joined)
    BY SlotsCounted DEF SlotInv
  <2>6. /\ pe = Count(A, Starting) /\ un = Count(A, Late)
        /\ processes = Count(A, Serving) /\ protoReqs = Count(A, Joined)
    <3>1. /\ One(att[a].ph, Starting) \in Int /\ One(att[a].ph, Late) \in Int
      BY OneType
    <3>2. /\ Count(A, Serving) = Count(att, Serving) + 0 - 0
          /\ Count(A, Starting) = Count(att, Starting) + 0 - One(att[a].ph, Starting)
          /\ Count(A, Late) = Count(att, Late) + 0 - One(att[a].ph, Late)
          /\ Count(A, Joined) = Count(att, Joined) + 0 - 0
      BY <1>1, <2>3, <2>4
    <3> QED BY <1>1, <2>5, <3>1, <3>2, SlotInts
  <2>7. /\ A \in [Atts -> AttSet]
        /\ \A b \in Atts : att[b].ph = "none" => A[b].ph = "none"
    BY <1>0, <2>2, SlotInts
  <2>8. /\ att' \in [Atts -> AttSet]
        /\ pending' = Count(att', Starting)
        /\ Count(att', Serving) = Count(A, Serving)
        /\ Count(att', Late) = Count(A, Late)
        /\ Count(att', Joined) = Count(A, Joined)
    BY <2>1, <2>6, <2>7, PostCounts
  <2>9. SlotsAgree'
    BY <1>0, <2>1, <2>6, <2>8, SlotsCountedNext
  <2> QED
    BY <1>0, <2>8, <2>9, SlotInts DEF SlotInv, AttType
<1> QED
  BY <1>2, <1>3

\* An attempt without a slot, or one in a late phase, ends or moves on.
LEMMA SlotsStartDies ==
  ASSUME SlotInv, NEW a \in Atts, StartDies(a)
  PROVE  SlotInv'
<1>0. UNCHANGED <<processes, proto, gen>>
  BY DEF StartDies, life
<1>1. CASE att[a].ph \in {"proto", "sent"} /\ PortError(a)
  BY <1>0, <1>1, PortErrorSlots
<1>2. CASE /\ att[a].ph \in {"lateP", "lateW"} /\ att' = [att EXCEPT ![a] = NoAtt]
           /\ unaccounted' = unaccounted - 1 /\ UNCHANGED <<pending, protoReqs>>
  <2>1. /\ processes' = processes + One(NoAtt.ph, Serving) - One(att[a].ph, Serving)
        /\ pending' = pending + One(NoAtt.ph, Starting) - One(att[a].ph, Starting)
        /\ unaccounted' = unaccounted + One(NoAtt.ph, Late) - One(att[a].ph, Late)
        /\ protoReqs' = protoReqs + One(NoAtt.ph, Joined) - One(att[a].ph, Joined)
    BY <1>0, <1>2, Records, SlotInts DEF One, Serving, Starting, Late, Joined
  <2> QED
    BY <1>0, <1>2, <2>1, Records, SlotInts, MoveSlots
<1> QED
  BY <1>1, <1>2 DEF StartDies

LEMMA SlotsStartLost ==
  ASSUME SlotInv, NEW a \in Atts, StartLost(a)
  PROVE  SlotInv'
BY PortErrorSlots DEF StartLost, life

LEMMA SlotsProtoExit ==
  ASSUME SlotInv, NEW q \in Protos, ProtoExit(q)
  PROVE  SlotInv'
<1>1. /\ UNCHANGED <<processes, pending, unaccounted, protoReqs, proto, gen>>
      /\ att' = [a \in Atts |-> IF att[a].ph = "up" /\ att[a].pr = q
                                  THEN [att[a] EXCEPT !.ph = "orphan"] ELSE att[a]]
  BY DEF ProtoExit, life, slots
<1>2. \A a \in Atts : /\ [att[a] EXCEPT !.ph = "orphan"] \in AttSet
                      /\ [att[a] EXCEPT !.ph = "orphan"].ph = "orphan"
  <2>1. \A a \in Atts : att[a] \in AttSet
    BY SlotInts
  <2> QED BY <2>1 DEF AttSet, Phases
<1>3. AttType'
  BY <1>1, <1>2, SlotInts DEF AttType
<1>4. \A b \in Atts : att'[b].ph = att[b].ph
                      \/ (att[b].ph = "up" /\ att'[b].ph = "orphan")
  BY <1>1, <1>2
<1> QED
  BY <1>1, <1>3, <1>4, SlotsSame DEF Serving, Starting, Late, Joined

LEMMA SlotsProtoRemoved ==
  ASSUME SlotInv, NEW q \in Protos, ProtoRemoved(q)
  PROVE  SlotInv'
<1> DEFINE lost == {a \in Atts : att[a].ph = "sent" /\ att[a].pr = q}
           x == Att("lost", None, 0, "none")
<1>1. /\ UNCHANGED <<processes, pending, unaccounted, protoReqs, gen>>
      /\ att' = [a \in Atts |-> IF a \in lost THEN x ELSE att[a]]
      /\ proto' \in {proto, None}
  BY DEF ProtoRemoved, life, slots, InPhase
<1>2. x \in AttSet /\ x.ph = "lost"
  BY LimitsAssumption DEF AttSet, Phases, Att
<1> HIDE DEF x
<1>3. AttType'
  BY <1>1, <1>2, SlotInts DEF AttType
<1>4. \A b \in Atts : att'[b].ph = att[b].ph
                      \/ (att[b].ph = "sent" /\ att'[b].ph = "lost")
  BY <1>1, <1>2
<1> QED
  BY <1>1, <1>3, <1>4, SlotsSame DEF Serving, Starting, Late, Joined

LEMMA SlotsWorkerExit ==
  ASSUME SlotInv, NEW a \in Atts, WorkerExit(a)
  PROVE  SlotInv'
<1>1. /\ UNCHANGED <<processes, pending, unaccounted, protoReqs, proto, gen>>
      /\ \/ att[a].ph = "up" /\ att' = [att EXCEPT ![a].ph = "dying"]
         \/ att[a].ph \in {"stray", "quit"} /\ att' = [att EXCEPT ![a] = NoAtt]
  BY DEF WorkerExit, life, slots
<1>2. [att[a] EXCEPT !.ph = "dying"] \in AttSet
      /\ [att[a] EXCEPT !.ph = "dying"].ph = "dying"
  <2>1. att[a] \in AttSet
    BY SlotInts
  <2> QED BY <2>1 DEF AttSet, Phases
<1>3. AttType'
  <2>1. \E x \in AttSet : att' = [att EXCEPT ![a] = x]
    BY <1>1, <1>2, Records
  <2> QED BY <1>1, <2>1, SlotInts DEF AttType
<1>4. \A b \in Atts : \/ att'[b].ph = att[b].ph
                      \/ att[b].ph = "up" /\ att'[b].ph = "dying"
                      \/ att[b].ph \in {"stray", "quit"} /\ att'[b].ph = "none"
  BY <1>1, <1>2, Records, SlotInts
<1> QED
  BY <1>1, <1>3, <1>4, SlotsSame DEF Serving, Starting, Late, Joined

\* A dead worker gives its slot back; its replacement is held for a sweep or
\* posted.
LEMMA SlotsPortClose ==
  ASSUME SlotInv, NEW a \in Atts, PortClose(a)
  PROVE  SlotInv'
<1> DEFINE x == IF att[a].ph = "orphan" THEN [att[a] EXCEPT !.ph = "stray"] ELSE NoAtt
           A == [att EXCEPT ![a] = x]
           h == Att("held", None, 0, "none")
<1>1. /\ att[a].ph \in {"dying", "orphan"}
      /\ UNCHANGED <<unaccounted, protoReqs, proto, gen>>
      /\ processes' = processes - 1
      /\ \/ /\ \E b \in Atts : Unused(b) /\ att' = [A EXCEPT ![b] = h]
            /\ pending = 0 /\ pending' = 1
         \/ \E start, d : StartIf(start, A, pending, d, "main")
  <2> DEFINE e == Detached(PortBusy(eco, a), a, 0, 0)
             start == Wants(processes - 1, pending, unaccounted, active, hash - 1, e.n)
  <2>1. /\ att[a].ph \in {"dying", "orphan"}
        /\ UNCHANGED <<unaccounted, protoReqs, proto, gen>>
        /\ processes' = processes - 1
    BY DEF PortClose, life
  <2>2. \/ /\ \E b \in Atts : Unused(b) /\ att' = [A EXCEPT ![b] = h]
           /\ pending = 0 /\ pending' = 1
        \/ StartIf(start, A, pending, -eco.port[a].det, "main")
    BY Zenon DEF PortClose
  <2> QED BY <2>1, <2>2
<1>2. x \in AttSet /\ x.ph \in {"stray", "none"}
  <2>1. att[a] \in AttSet
    BY SlotInts
  <2>2. CASE att[a].ph = "orphan"
    BY <2>1, <2>2 DEF AttSet, Phases
  <2>3. CASE att[a].ph # "orphan"
    BY <2>3, Records
  <2> QED BY <2>2, <2>3
<1>3. h \in AttSet /\ h.ph = "held"
  BY LimitsAssumption DEF AttSet, Phases, Att
<1> HIDE DEF x, h
<1>4. /\ A \in [Atts -> AttSet]
      /\ \A b \in Atts : att[b].ph = "none" => A[b].ph = "none"
  BY <1>1, <1>2, SlotInts
<1>5. /\ Count(A, Serving) = Count(att, Serving) + One(x.ph, Serving)
                                                 - One(att[a].ph, Serving)
      /\ Count(A, Starting) = Count(att, Starting) + One(x.ph, Starting)
                                                   - One(att[a].ph, Starting)
      /\ Count(A, Late) = Count(att, Late) + One(x.ph, Late) - One(att[a].ph, Late)
      /\ Count(A, Joined) = Count(att, Joined) + One(x.ph, Joined)
                                               - One(att[a].ph, Joined)
  BY <1>2, SlotInts, CountMove
<1>6. /\ One(x.ph, Serving) = 0 /\ One(x.ph, Starting) = 0
      /\ One(x.ph, Late) = 0 /\ One(x.ph, Joined) = 0
      /\ One(att[a].ph, Serving) = 1 /\ One(att[a].ph, Starting) = 0
      /\ One(att[a].ph, Late) = 0 /\ One(att[a].ph, Joined) = 0
  BY <1>1, <1>2 DEF One, Serving, Starting, Late, Joined
<1>7. /\ processes = Count(att, Serving) /\ pending = Count(att, Starting)
      /\ unaccounted = Count(att, Late) /\ protoReqs = Count(att, Joined)
  BY SlotsCounted DEF SlotInv
<1>8. /\ processes' = Count(A, Serving) /\ pending = Count(A, Starting)
      /\ unaccounted = Count(A, Late) /\ protoReqs = Count(A, Joined)
  BY <1>1, <1>5, <1>6, <1>7, SlotInts
<1> HIDE DEF A
<1>9. /\ att' \in [Atts -> AttSet]
      /\ pending' = Count(att', Starting)
      /\ Count(att', Serving) = Count(A, Serving)
      /\ Count(att', Late) = Count(A, Late)
      /\ Count(att', Joined) = Count(A, Joined)
  <2>1. CASE \E start, d : StartIf(start, A, pending, d, "main")
    BY <1>4, <1>8, <2>1, PostCounts
  <2>2. CASE /\ \E b \in Atts : Unused(b) /\ att' = [A EXCEPT ![b] = h]
             /\ pending = 0 /\ pending' = 1
    <3>1. PICK b \in Atts : Unused(b) /\ att' = [A EXCEPT ![b] = h]
      BY <2>2
    <3>2. A[b].ph = "none"
      BY <1>4, <3>1 DEF Unused
    <3>3. /\ One(h.ph, Starting) = 1 /\ One(h.ph, Serving) = 0
          /\ One(h.ph, Late) = 0 /\ One(h.ph, Joined) = 0
          /\ One(A[b].ph, Starting) = 0 /\ One(A[b].ph, Serving) = 0
          /\ One(A[b].ph, Late) = 0 /\ One(A[b].ph, Joined) = 0
      BY <1>3, <3>2 DEF One, Serving, Starting, Late, Joined
    <3>4. ASSUME NEW P
          PROVE  Count(att', P) = Count(A, P) + One(h.ph, P) - One(A[b].ph, P)
      BY <1>3, <1>4, <3>1, CountMove
    <3>5. /\ Count(att', Serving) = Count(A, Serving) + 0 - 0
          /\ Count(att', Starting) = Count(A, Starting) + 1 - 0
          /\ Count(att', Late) = Count(A, Late) + 0 - 0
          /\ Count(att', Joined) = Count(A, Joined) + 0 - 0
      BY <3>3, <3>4
    <3>6. /\ Count(A, Serving) \in Nat /\ Count(A, Starting) \in Nat
          /\ Count(A, Late) \in Nat /\ Count(A, Joined) \in Nat
      BY CountType
    <3>7. att' \in [Atts -> AttSet]
      BY <1>3, <1>4, <3>1
    <3> QED BY <1>8, <2>2, <3>5, <3>6, <3>7
  <2> QED BY <1>1, <2>1, <2>2
<1>10. SlotsAgree'
  BY <1>1, <1>8, <1>9, SlotsCountedNext
<1> QED
  BY <1>1, <1>9, <1>10, SlotInts DEF SlotInv, AttType

\* The reaped worker is one that serves.
LEMMA SlotsReap ==
  ASSUME SlotInv, AdjustReap, Head(eco.idle) \in Atts, Registered(Head(eco.idle))
  PROVE  SlotInv'
<1> DEFINE a == Head(eco.idle)
           x == [att[a] EXCEPT !.ph = "quit"]
<1>1. /\ att' = [att EXCEPT ![a].ph = "quit"] /\ processes' = processes - 1
      /\ UNCHANGED <<pending, unaccounted, protoReqs, proto, gen>>
  BY DEF AdjustReap, life
<1>2. att[a] \in AttSet /\ att[a].ph \in Serving
  BY SlotInts DEF Registered, Serving
<1> HIDE DEF a
<1>3. x \in AttSet /\ x.ph = "quit" /\ att' = [att EXCEPT ![a] = x]
  BY <1>1, <1>2 DEF AttSet, Phases
<1> HIDE DEF x
<1>4. /\ processes' = processes + One(x.ph, Serving) - One(att[a].ph, Serving)
      /\ pending' = pending + One(x.ph, Starting) - One(att[a].ph, Starting)
      /\ unaccounted' = unaccounted + One(x.ph, Late) - One(att[a].ph, Late)
      /\ protoReqs' = protoReqs + One(x.ph, Joined) - One(att[a].ph, Joined)
  BY <1>1, <1>2, <1>3, SlotInts DEF One, Serving, Starting, Late, Joined
<1>5. a \in Atts
  BY DEF a
<1> QED
  BY <1>1, <1>3, <1>4, <1>5, SlotInts, MoveSlots

LEMMA SlotsFreeApp ==
  ASSUME SlotInv, FreeApp
  PROVE  SlotInv'
<1> DEFINE all == Of(att, Serving)
<1>1. /\ att' = [a \in Atts |-> IF a \in all THEN [att[a] EXCEPT !.ph = "quit"]
                                ELSE att[a]]
      /\ processes' = processes - Cardinality(all)
      /\ UNCHANGED <<pending, unaccounted, protoReqs, gen>> /\ proto' = None
  BY DEF FreeApp, Of, Serving, Registered
<1>2. \A a \in Atts : /\ [att[a] EXCEPT !.ph = "quit"] \in AttSet
                      /\ [att[a] EXCEPT !.ph = "quit"].ph = "quit"
  <2>1. \A a \in Atts : att[a] \in AttSet
    BY SlotInts
  <2> QED BY <2>1 DEF AttSet, Phases
<1>3. AttType'
  BY <1>1, <1>2, SlotInts DEF AttType
<1>4. Count(att', Serving) = Count(att, Serving) - Cardinality(all)
  <2>1. \A b \in Atts : IF b \in all THEN att'[b].ph \notin Serving
                                     ELSE att'[b] = att[b]
    BY <1>1, <1>2 DEF Serving
  <2> QED BY <2>1, CountLeave
<1>5. /\ Count(att', Starting) = Count(att, Starting)
      /\ Count(att', Late) = Count(att, Late)
      /\ Count(att', Joined) = Count(att, Joined)
  <2>1. \A b \in Atts : /\ att'[b].ph \in Starting <=> att[b].ph \in Starting
                        /\ att'[b].ph \in Late <=> att[b].ph \in Late
                        /\ att'[b].ph \in Joined <=> att[b].ph \in Joined
    BY <1>1, <1>2 DEF Of, Serving, Starting, Late, Joined
  <2> QED BY <2>1, CountStay
<1>6. SlotsAgree'
  BY <1>1, <1>4, <1>5, SlotsCounted, SlotsCountedNext DEF SlotInv
<1> QED
  BY <1>3, <1>6 DEF SlotInv

LEMMA SlotsRequeue ==
  ASSUME SlotInv, NEW r \in Reqs, RequeueHandler(r)
  PROVE  SlotInv'
<1>1. /\ UNCHANGED <<processes, pending, unaccounted, protoReqs, proto, gen>>
      /\ att' = [a \in Atts |-> IF requeue = 1 /\ att[a].ph = "held" THEN Posted
                                ELSE att[a]]
  BY DEF RequeueHandler, life, slots
<1>2. AttType'
  BY <1>1, Records, SlotInts DEF AttType
<1>3. \A b \in Atts : att'[b].ph = att[b].ph
                      \/ (att[b].ph = "held" /\ att'[b].ph = "posted")
  BY <1>1, Records
<1> QED
  BY <1>1, <1>2, <1>3, SlotsSame DEF Serving, Starting, Late, Joined

LEMMA SlotsInit == Init => SlotInv
<1> SUFFICES ASSUME Init PROVE SlotInv
  OBVIOUS
<1>1. PICK up \in SUBSET Atts, q \in Protos :
        /\ Cardinality(up) = Spare
        /\ att = [a \in Atts |-> IF a \in up THEN Att("up", q, 0, "none") ELSE NoAtt]
        /\ proto = q /\ protoReqs = 0 /\ gen = 0
        /\ processes = Spare /\ pending = 0 /\ unaccounted = 0
  BY DEF Init
<1>2. /\ Att("up", q, 0, "none") \in AttSet /\ Att("up", q, 0, "none").ph = "up"
      /\ NoAtt \in AttSet /\ NoAtt.ph = "none"
  BY LimitsAssumption DEF NoAtt, Att, AttSet, Phases
<1>3. AttType
  BY <1>1, <1>2, LimitsAssumption DEF AttType
<1>4. Of(att, Serving) = up /\ Of(att, Starting) = {}
      /\ Of(att, Late) = {} /\ Of(att, Joined) = {}
  BY <1>1, <1>2 DEF Of, Serving, Starting, Late, Joined
<1>5. SlotsAgree
  BY <1>1, <1>4, NoneLeft, SlotsCounted DEF Count
<1> QED
  BY <1>3, <1>5 DEF SlotInv

\* The start of a process that a request or detached work asks for.
LEMMA SlotsReserve ==
  ASSUME SlotInv,
         \/ \E r \in Reqs : \/ PortGet(r) \/ HeadersAck(r)
                            \/ AppTimeout(r) \/ Resend(r)
         \/ \E a \in Atts : DetachedStart(a)
  PROVE  SlotInv'
<1> DEFINE Reserved == /\ UNCHANGED <<processes, unaccounted, protoReqs, proto, gen>>
                       /\ \/ UNCHANGED <<att, pending>>
                          \/ \E start, d, who : StartIf(start, att, pending, d, who)
<1> USE DEF life
<1>1. ASSUME NEW r \in Reqs, PortGet(r) PROVE Reserved
  BY <1>1 DEF PortGet
<1>2. ASSUME NEW r \in Reqs, HeadersAck(r) PROVE Reserved
  BY <1>2 DEF HeadersAck
<1>3. ASSUME NEW r \in Reqs, AppTimeout(r) PROVE Reserved
  BY <1>3 DEF AppTimeout
<1>4. ASSUME NEW r \in Reqs, Resend(r) PROVE Reserved
  BY <1>4 DEF Resend
<1>5. ASSUME NEW a \in Atts, DetachedStart(a) PROVE Reserved
  BY <1>5 DEF DetachedStart
<1>6. Reserved
  BY <1>1, <1>2, <1>3, <1>4, <1>5
<1> QED
  BY <1>6, PostSlots, SlotsUntouched, SlotInts

\* What else happens does not touch an attempt.
LEMMA AttemptsLeft ==
  ASSUME SlotInv,
         \/ \E a \in Atts : ContextClose(a) \/ ContextReady(a) \/ DetachedFinish(a)
         \/ \E who \in Reqs \cup {"main"} : DrainStep(who)
         \/ AdjustBegin \/ AdjustEnd \/ Restart \/ RemoveApp \/ ConfRelease
         \/ \E r \in Reqs : \/ SendAck(r) \/ Response(r) \/ PeerGone(r)
                            \/ Upgrade(r) \/ Close(r) \/ AckTimeout(r)
                            \/ ErrHandler(r) \/ Fault(r)
                            \/ \E w \in Atts, c \in 0..Contexts : Claim(r, w, c)
  PROVE  /\ UNCHANGED <<att, processes, pending, unaccounted, protoReqs>>
         /\ gen' \in 0..MaxGen /\ proto' \in Protos \cup {None}
<1> DEFINE Goal == /\ UNCHANGED <<att, processes, pending, unaccounted, protoReqs>>
                   /\ gen' \in 0..MaxGen /\ proto' \in Protos \cup {None}
<1>0. /\ gen \in 0..MaxGen /\ proto \in Protos \cup {None} /\ MaxGen \in Nat
  BY SlotInts, LimitsAssumption
<1> USE DEF slots, starting, life
<1>1. ASSUME NEW a \in Atts, ContextClose(a) \/ ContextReady(a) \/ DetachedFinish(a)
      PROVE  Goal
  BY <1>0, <1>1 DEF ContextClose, ContextReady, DetachedFinish
<1>2. ASSUME NEW who \in Reqs \cup {"main"}, DrainStep(who) PROVE Goal
  BY <1>0, <1>2 DEF DrainStep
<1>3. ASSUME AdjustBegin \/ AdjustEnd \/ RemoveApp \/ ConfRelease PROVE Goal
  BY <1>0, <1>3 DEF AdjustBegin, AdjustEnd, RemoveApp, ConfRelease
<1>4. ASSUME Restart PROVE Goal
  BY <1>0, <1>4 DEF Restart
<1>5. ASSUME NEW r \in Reqs,
             \/ SendAck(r) \/ Response(r) \/ PeerGone(r) \/ Upgrade(r) \/ Close(r)
             \/ \E w \in Atts, c \in 0..Contexts : Claim(r, w, c)
      PROVE  Goal
  BY <1>0, <1>5 DEF SendAck, Response, PeerGone, Upgrade, Close, Claim
<1>6. ASSUME NEW r \in Reqs, AckTimeout(r) \/ ErrHandler(r) \/ Fault(r) PROVE Goal
  BY <1>0, <1>6 DEF AckTimeout, ErrHandler, Fault
<1> QED
  BY <1>1, <1>2, <1>3, <1>4, <1>5, <1>6

\* The slots agree after a step, if the worker that it reaps is registered.
LEMMA SlotStep ==
  ASSUME SlotInv, [Next]_vars,
         AdjustReap => Head(eco.idle) \in Atts /\ Registered(Head(eco.idle))
  PROVE  SlotInv'
<1>1. CASE UNCHANGED vars
  BY <1>1, SlotsUntouched, SlotInts DEF vars, starting, slots, life
<1>2. CASE AdjustReap
  BY <1>2, SlotsReap
<1>3. CASE Next /\ ~AdjustReap
  BY <1>3, SlotsStartHandler, SlotsExpiry, SlotsStartExpired, SlotsProtoReady,
     SlotsWorkerReady, SlotsStartDies, SlotsStartLost, SlotsProtoExit,
     SlotsProtoRemoved, SlotsWorkerExit, SlotsPortClose, SlotsFreeApp, SlotsRequeue,
     SlotsReserve, AttemptsLeft, SlotsUntouched DEF Next
<1> QED
  BY <1>1, <1>2, <1>3
=============================================================================
