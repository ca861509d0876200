-------------------------- MODULE RouterAppIdleProof -------------------------
(***************************************************************************)
(* The idle economy of an application is sound, and with it the slots are. *)
(*                                                                         *)
(* A worker in an idle queue is registered and has nothing to do.  That    *)
(* holds because active_requests, active_websockets and the reasons for    *)
(* detachment of a port count the requests behind them, and no request is  *)
(* behind a worker that the router told to quit.  The last needs that a    *)
(* reaped worker has no context port left in port_hash, through which a    *)
(* late acknowledgement could still find it: one context per worker, or no *)
(* idle timer.                                                             *)
(*                                                                         *)
(* The reference count of the application rests on the same invariant:     *)
(* requests, posted starts and handlers, detached workers and the          *)
(* configurations hold the references that use_count counts.               *)
(*                                                                         *)
(* On these rest the theorems about requests that wait (none is forgotten),*)
(* about the end of the application (the assertions of its free hold) and  *)
(* about the counters (none passes below zero).                            *)
(***************************************************************************)
EXTENDS RouterAppProof, SequenceTheorems

PortSet == [active : Int, ws : Int, det : 0..1, app : Nat, router : Nat,
            start : {"zero", "set"}, ctx : 0..Contexts]

EcoSet == [spare : Seq(Atts), idle : Seq(Atts), n : Int, det : Int,
           port : [Atts -> PortSet]]

ReqSet ==
  [st : {"new", "wait", "failing", "acked", "upgraded", "abandoned", "done"},
   wk : {"none", "queued", "taken", "acked"}, w : Atts \cup {None},
   c : 0..Contexts, g : 0..MaxGen,
   cancel : {"queued", "retracted", "claimed"},
   job : {"none", "err", "requeue", "resend"}, twice : {"no", "yes"}]

Distinct(s) == \A i, j \in 1..Len(s) : s[i] = s[j] => i = j
Both(e) == Members(e.spare) \cup Members(e.idle)

\* The queues as lists: no port twice, no more than "spare" spare ones, and
\* idle_start set in idle_ports (in spare_ports it may be too).
QueuesSound(e) ==
  /\ e \in EcoSet
  /\ Distinct(e.spare) /\ Distinct(e.idle)
  /\ Members(e.spare) \cap Members(e.idle) = {}
  /\ e.n = Len(e.spare) + Len(e.idle) /\ Len(e.spare) <= Spare
  /\ \A a \in Members(e.idle) : e.port[a].start = "set"

\* What is in a queue is registered and has nothing to do.
QueuedFree(e, A) ==
  \A a \in Both(e) :
    /\ A[a].ph \in Serving
    /\ e.port[a].active = 0 /\ e.port[a].ws = 0 /\ e.port[a].det = 0

\* The requests R behind worker a that are in state st.
On(R, st, a) == {r \in Reqs : R[r].st = st /\ R[r].w = a}

Held == {"acked", "upgraded", "abandoned"}
Gone == {"none", "stray"}

\* The counters p of a port count them.  The death of a worker clears its
\* reasons for detachment (nxt_router_app_port_close()), so that only those
\* of a registered worker are exact.
PortAgree(p, ph, R, a) ==
  /\ p.active = Cardinality(On(R, "acked", a))
  /\ p.ws = Cardinality(On(R, "upgraded", a))
  /\ p.router <= Cardinality(On(R, "abandoned", a))
  /\ ph \in Serving => p.router = Cardinality(On(R, "abandoned", a))
  /\ p.det = IF p.app + p.router > 0 THEN 1 ELSE 0

\* A worker that is not registered has no detached work of its own, and no
\* context port unless the handler of its death has still to close it.
PortCleared(p, ph, a, busy) ==
  /\ p.app > 0 => ph \in Serving
  /\ p.ctx > 0 => ph \in Serving \/ (a \in busy /\ ph \in Gone)
  /\ a \in busy /\ ph \in Gone => busy = {a} /\ p.ctx > 0

\* A request that a worker acknowledged refers to one that was not told to
\* quit; a name that is being started is referred to by no request.
LinkSound(A, x) ==
  /\ x.wk \in {"taken", "acked"} => x.w \in Atts
  /\ x.st \in Held => x.wk = "acked" /\ A[x.w].ph # "quit"
  /\ x.st # "done" /\ x.w \in Atts => A[x.w].ph \notin Starting \cup Late

Sound(e, A, R, busy) ==
  /\ R \in [Reqs -> ReqSet] /\ QueuesSound(e) /\ QueuedFree(e, A)
  /\ \A a \in Atts : /\ PortAgree(e.port[a], A[a].ph, R, a)
                     /\ PortCleared(e.port[a], A[a].ph, a, busy)
  /\ \A r \in Reqs : LinkSound(A, R[r])

IdleInv ==
  /\ SlotInv /\ WatchInv
  /\ QueuesSound(eco) /\ QueuedFree(eco, att)
  /\ conf # "freed" => Sound(eco, att, req, now)

Narrow == Contexts = 0 \/ "idle" \notin Events

-----------------------------------------------------------------------------
(* Queues.                                                                 *)

LEMMA WithoutProperties ==
  ASSUME NEW S, NEW s \in Seq(S), Distinct(s), NEW x
  PROVE  /\ Without(s, x) \in Seq(S) /\ Distinct(Without(s, x))
         /\ Members(Without(s, x)) = Members(s) \ {x}
         /\ Len(Without(s, x)) = IF x \in Members(s) THEN Len(s) - 1 ELSE Len(s)
<1>1. CASE x \notin Members(s)
  BY <1>1 DEF Without
<1>2. CASE x \in Members(s)
  <2> DEFINE i == CHOOSE j \in 1..Len(s) : s[j] = x
             t == [j \in 1..(Len(s) - 1) |-> IF j < i THEN s[j] ELSE s[j + 1]]
  <2>1. i \in 1..Len(s) /\ s[i] = x
    BY <1>2 DEF Members
  <2>2. Without(s, x) = t
    BY <1>2 DEF Without
  <2>3. Len(s) \in Nat /\ \A j \in 1..Len(s) : s[j] \in S
    OBVIOUS
  <2> HIDE DEF i
  <2>4. t \in [1..(Len(s) - 1) -> S] /\ Len(s) - 1 \in Nat
    BY <2>1, <2>3
  <2>5. t \in Seq(S) /\ Len(t) = Len(s) - 1
    BY <2>4
  <2>6. \A j \in 1..Len(t) : t[j] = IF j < i THEN s[j] ELSE s[j + 1]
    BY <2>5
  <2> HIDE DEF t
  <2>7. Distinct(t)
    <3> SUFFICES ASSUME NEW j \in 1..Len(t), NEW k \in 1..Len(t), t[j] = t[k]
                 PROVE  j = k
      BY DEF Distinct
    <3>1. /\ j \in 1..Len(s) /\ j + 1 \in 1..Len(s)
          /\ k \in 1..Len(s) /\ k + 1 \in 1..Len(s)
      BY <2>3, <2>5
    <3> QED BY <2>1, <2>5, <2>6, <3>1 DEF Distinct
  <2>8. Members(t) = Members(s) \ {x}
    <3>1. ASSUME NEW j \in 1..Len(t)
          PROVE  t[j] \in Members(s) /\ t[j] # x
      <4>1. j \in 1..Len(s) /\ j + 1 \in 1..Len(s)
        BY <2>3, <2>5
      <4> QED BY <2>1, <2>6, <4>1 DEF Members, Distinct
    <3>2. ASSUME NEW k \in 1..Len(s), s[k] # x
          PROVE  s[k] \in Members(t)
      <4>1. CASE k < i
        <5>1. k \in 1..Len(t) /\ t[k] = s[k]
          BY <2>1, <2>3, <2>5, <2>6, <4>1
        <5> QED BY <5>1 DEF Members
      <4>2. CASE k > i
        <5>1. k - 1 \in 1..Len(t) /\ t[k - 1] = s[k]
          BY <2>1, <2>3, <2>5, <2>6, <4>2
        <5> QED BY <5>1 DEF Members
      <4> QED BY <2>1, <3>2, <4>1, <4>2
    <3> QED BY <3>1, <3>2 DEF Members
  <2> QED BY <1>2, <2>2, <2>5, <2>7, <2>8
<1> QED BY <1>1, <1>2

LEMMA AppendMembers ==
  ASSUME NEW S, NEW s \in Seq(S), Distinct(s), NEW x \in S, x \notin Members(s)
  PROVE  /\ Append(s, x) \in Seq(S) /\ Distinct(Append(s, x))
         /\ Members(Append(s, x)) = Members(s) \cup {x}
         /\ Len(Append(s, x)) = Len(s) + 1
<1> DEFINE t == Append(s, x)
<1>1. /\ t \in Seq(S) /\ Len(t) = Len(s) + 1 /\ Len(s) \in Nat
      /\ \A i \in 1..Len(s) : t[i] = s[i]
      /\ t[Len(s) + 1] = x
  OBVIOUS
<1> HIDE DEF t
<1>2. 1..Len(t) = 1..Len(s) \cup {Len(s) + 1}
  BY <1>1
<1>3. Members(t) = Members(s) \cup {x}
  BY <1>1, <1>2 DEF Members
<1>4. Distinct(t)
  BY <1>1, <1>2 DEF Distinct, Members
<1> QED BY <1>1, <1>3, <1>4 DEF t

-----------------------------------------------------------------------------
(* The operators of the economy.                                           *)

LEMMA EcoFields ==
  ASSUME NEW s, NEW i, NEW n, NEW d, NEW p
  PROVE  /\ Eco(s, i, n, d, p).spare = s /\ Eco(s, i, n, d, p).idle = i
         /\ Eco(s, i, n, d, p).n = n /\ Eco(s, i, n, d, p).det = d
         /\ Eco(s, i, n, d, p).port = p
         /\ s \in Seq(Atts) /\ i \in Seq(Atts) /\ n \in Int /\ d \in Int
              /\ p \in [Atts -> PortSet] => Eco(s, i, n, d, p) \in EcoSet
BY DEF Eco, EcoSet

LEMMA EcoTypes ==
  ASSUME NEW e \in EcoSet
  PROVE  /\ e.spare \in Seq(Atts) /\ e.idle \in Seq(Atts) /\ e.n \in Int
         /\ e.det \in Int /\ e.port \in [Atts -> PortSet]
BY DEF EcoSet

\* The counts of a port, which no queue operation changes.
SameCounts(e, f) ==
  \A a \in Atts :
    /\ f.port[a].active = e.port[a].active /\ f.port[a].ws = e.port[a].ws
    /\ f.port[a].det = e.port[a].det /\ f.port[a].app = e.port[a].app
    /\ f.port[a].router = e.port[a].router /\ f.port[a].ctx = e.port[a].ctx

LEMMA OneFewer ==
  ASSUME NEW n \in Int, NEW x \in Nat, NEW y \in Nat, NEW u \in Nat,
         n = x + y, u = x - 1
  PROVE  n - 1 = u + y
OBVIOUS

LEMMA OutSound ==
  ASSUME NEW e, QueuesSound(e), NEW a \in Atts
  PROVE  /\ QueuesSound(Out(e, a)) /\ Both(Out(e, a)) = Both(e) \ {a}
         /\ Out(e, a).port = e.port /\ Out(e, a).det = e.det
         /\ a \in Members(e.spare) => Len(Out(e, a).spare) < Spare
<1>1. CASE ~Queued(e, a)
  BY <1>1 DEF Out, Queued, Both
<1>2. CASE Queued(e, a)
  <2> DEFINE s == Without(e.spare, a)
             i == Without(e.idle, a)
  <2>1. Out(e, a) = Eco(s, i, e.n - 1, e.det, e.port)
    BY <1>2 DEF Out
  <2>2. e \in EcoSet /\ Distinct(e.spare) /\ Distinct(e.idle)
        /\ Members(e.spare) \cap Members(e.idle) = {}
        /\ e.n = Len(e.spare) + Len(e.idle) /\ Len(e.spare) <= Spare
        /\ \A b \in Members(e.idle) : e.port[b].start = "set"
    BY DEF QueuesSound
  <2>3. /\ e.spare \in Seq(Atts) /\ e.idle \in Seq(Atts) /\ e.n \in Int
        /\ e.det \in Int /\ e.port \in [Atts -> PortSet]
    BY <2>2, EcoTypes
  <2>4. /\ s \in Seq(Atts) /\ Distinct(s) /\ Members(s) = Members(e.spare) \ {a}
        /\ Len(s) = IF a \in Members(e.spare) THEN Len(e.spare) - 1 ELSE Len(e.spare)
    BY <2>2, <2>3, WithoutProperties
  <2>5. /\ i \in Seq(Atts) /\ Distinct(i) /\ Members(i) = Members(e.idle) \ {a}
        /\ Len(i) = IF a \in Members(e.idle) THEN Len(e.idle) - 1 ELSE Len(e.idle)
    BY <2>2, <2>3, WithoutProperties
  <2> HIDE DEF s, i
  <2>6. e.n - 1 = Len(s) + Len(i) /\ Len(s) <= Spare
        /\ (a \in Members(e.spare) => Len(s) < Spare)
    <3>1. \/ a \in Members(e.spare) /\ a \notin Members(e.idle)
          \/ a \in Members(e.idle) /\ a \notin Members(e.spare)
      BY <1>2, <2>2 DEF Queued
    <3>2. CASE a \in Members(e.spare) /\ a \notin Members(e.idle)
      <4>1. Len(s) = Len(e.spare) - 1 /\ Len(i) = Len(e.idle)
        BY <2>4, <2>5, <3>2
      <4>2. e.n - 1 = Len(s) + Len(i)
        <5>1. /\ e.n \in Int /\ Len(e.spare) \in Nat /\ Len(e.idle) \in Nat
              /\ Len(s) \in Nat /\ e.n = Len(e.spare) + Len(e.idle)
          BY <2>2, <2>3, <2>4
        <5> QED BY <4>1, <5>1, OneFewer
      <4>3. Len(s) < Spare /\ Len(s) <= Spare
        <5>1. Len(e.spare) \in Nat /\ Len(e.spare) <= Spare /\ Spare \in Nat
          BY <2>2, <2>3, LimitsAssumption
        <5> QED BY <4>1, <5>1
      <4> QED BY <4>2, <4>3
    <3>3. CASE a \in Members(e.idle) /\ a \notin Members(e.spare)
      <4>1. Len(s) = Len(e.spare) /\ Len(i) = Len(e.idle) - 1
        BY <2>4, <2>5, <3>3
      <4> QED BY <2>2, <2>4, <2>5, <3>3, <4>1, LimitsAssumption DEF EcoSet
    <3> QED BY <3>1, <3>2, <3>3
  <2>7. Eco(s, i, e.n - 1, e.det, e.port) \in EcoSet
    BY <2>3, <2>4, <2>5, EcoFields
  <2>8. QueuesSound(Out(e, a))
    <3> DEFINE f == Out(e, a)
    <3>1. f \in EcoSet /\ f.spare = s /\ f.idle = i /\ f.n = e.n - 1 /\ f.port = e.port
      BY <2>1, <2>7, EcoFields
    <3>2. Members(s) \cap Members(i) = {} /\ \A b \in Members(i) : e.port[b].start = "set"
      BY <2>2, <2>4, <2>5
    <3> HIDE DEF f
    <3>3. /\ Distinct(f.spare) /\ Distinct(f.idle)
          /\ f.n = Len(f.spare) + Len(f.idle) /\ Len(f.spare) <= Spare
      BY <2>4, <2>5, <2>6, <3>1
    <3>4. QueuesSound(f)
      BY <3>1, <3>2, <3>3 DEF QueuesSound
    <3> QED BY <3>4 DEF f
  <2>9. Both(Out(e, a)) = Both(e) \ {a}
    BY <2>1, <2>4, <2>5, EcoFields DEF Both
  <2> QED BY <2>1, <2>6, <2>8, <2>9, EcoFields
<1> QED BY <1>1, <1>2

\* nxt_router_app_spare_rebalance(): the assertion that idle_ports is not
\* empty holds, and no port joins or leaves the queues.
LEMMA RebalanceSound ==
  ASSUME NEW e, QueuesSound(e), NEW a \in Atts,
         e.port[a].start = "zero" => Len(e.spare) < Spare
  PROVE  LET f == SpareRebalance(e, a)
         IN  /\ QueuesSound(f) /\ Both(f) = Both(e)
             /\ f.det = e.det /\ SameCounts(e, f)
<1> DEFINE f == SpareRebalance(e, a)
<1>1. CASE ~(e.port[a].start = "zero" /\ e.n >= Spare)
  BY <1>1 DEF SpareRebalance, SameCounts
<1>2. CASE e.port[a].start = "zero" /\ e.n >= Spare
  <2> DEFINE last == e.idle[Len(e.idle)]
             s == Append(e.spare, last)
             i == Without(e.idle, last)
             p == [e.port EXCEPT ![last].start = "zero"]
  <2>1. f = Eco(s, i, e.n, e.det, p)
    BY <1>2 DEF SpareRebalance
  <2>2. e \in EcoSet /\ Distinct(e.spare) /\ Distinct(e.idle)
        /\ Members(e.spare) \cap Members(e.idle) = {}
        /\ e.n = Len(e.spare) + Len(e.idle) /\ Len(e.spare) <= Spare
        /\ \A b \in Members(e.idle) : e.port[b].start = "set"
    BY DEF QueuesSound
  <2>3. /\ e.spare \in Seq(Atts) /\ e.idle \in Seq(Atts) /\ e.n \in Int
        /\ e.det \in Int /\ e.port \in [Atts -> PortSet]
    BY <2>2, EcoTypes
  <2>4. Len(e.idle) \in 1..Len(e.idle)
    <3>1. Len(e.spare) \in Nat /\ Len(e.idle) \in Nat /\ e.n \in Int
      BY <2>3
    <3>2. e.n = Len(e.spare) + Len(e.idle) /\ Len(e.spare) < Spare /\ Spare \in Nat
          /\ e.n >= Spare
      BY <1>2, <2>2, LimitsAssumption
    <3> QED BY <2>2, <3>2, EcoTypes DEF EcoSet
  <2>5. last \in Members(e.idle) /\ last \in Atts /\ last \notin Members(e.spare)
    <3>1. last \in Members(e.idle)
      BY <2>4 DEF Members
    <3>2. Members(e.idle) \subseteq Atts
      BY <2>3 DEF Members
    <3> QED BY <2>2, <3>1, <3>2
  <2> HIDE DEF last
  <2>6. /\ s \in Seq(Atts) /\ Distinct(s) /\ Members(s) = Members(e.spare) \cup {last}
        /\ Len(s) = Len(e.spare) + 1
    BY <2>2, <2>3, <2>5, AppendMembers
  <2>7. /\ i \in Seq(Atts) /\ Distinct(i) /\ Members(i) = Members(e.idle) \ {last}
        /\ Len(i) = Len(e.idle) - 1
    BY <2>2, <2>3, <2>5, WithoutProperties
  <2>8. /\ p \in [Atts -> PortSet]
        /\ \A b \in Atts : b # last => p[b] = e.port[b]
        /\ \A b \in Atts : /\ p[b].active = e.port[b].active /\ p[b].ws = e.port[b].ws
                           /\ p[b].det = e.port[b].det /\ p[b].app = e.port[b].app
                           /\ p[b].router = e.port[b].router
                           /\ p[b].ctx = e.port[b].ctx
    <3>1. \A b \in Atts : e.port[b] \in PortSet
      BY <2>3
    <3> QED BY <2>3, <3>1 DEF PortSet
  <2> HIDE DEF s, i, p, f
  <2>9. e.n = Len(s) + Len(i) /\ Len(s) <= Spare
    <3>1. /\ Len(e.spare) \in Nat /\ Len(e.idle) \in Nat /\ e.n \in Int
          /\ Len(s) \in Nat /\ Len(i) \in Nat
      BY <2>3, <2>6, <2>7
    <3>2. e.n = Len(e.spare) + Len(e.idle) /\ Len(e.spare) < Spare /\ Spare \in Nat
      BY <1>2, <2>2, LimitsAssumption
    <3>3. Len(s) = Len(e.spare) + 1 /\ Len(i) = Len(e.idle) - 1
      BY <2>6, <2>7
    <3> QED BY <2>2, <2>6, <2>7, <3>2, <3>3, EcoTypes DEF EcoSet
  <2>10. f \in EcoSet /\ f.spare = s /\ f.idle = i /\ f.n = e.n /\ f.det = e.det
         /\ f.port = p
    BY <2>1, <2>3, <2>6, <2>7, <2>8, EcoFields
  <2>11. /\ Members(s) \cap Members(i) = {}
         /\ \A b \in Members(i) : p[b].start = "set"
    <3>1. Members(e.idle) \subseteq Atts
      BY <2>3 DEF Members
    <3> QED BY <2>2, <2>6, <2>7, <2>8, <3>1
  <2>12. QueuesSound(f)
    BY <2>6, <2>7, <2>9, <2>10, <2>11 DEF QueuesSound
  <2>13. Both(f) = Both(e)
    BY <2>5, <2>6, <2>7, <2>10 DEF Both
  <2> QED BY <2>8, <2>10, <2>12, <2>13 DEF SameCounts, f
<1> QED BY <1>1, <1>2

\* nxt_router_app_port_busy()
LEMMA BusySound ==
  ASSUME NEW e, QueuesSound(e), NEW a \in Atts
  PROVE  LET f == PortBusy(e, a)
         IN  /\ QueuesSound(f) /\ Both(f) = Both(e) \ {a}
             /\ f.det = e.det /\ SameCounts(e, f)
<1>1. CASE ~Queued(e, a)
  BY <1>1 DEF PortBusy, SameCounts, Queued, Both
<1>2. CASE Queued(e, a)
  <2> DEFINE o == Out(e, a)
  <2>1. /\ QueuesSound(o) /\ Both(o) = Both(e) \ {a}
        /\ o.port = e.port /\ o.det = e.det
        /\ a \in Members(e.spare) => Len(o.spare) < Spare
    BY OutSound
  <2>2. o.port[a].start = "zero" => Len(o.spare) < Spare
    BY <1>2, <2>1 DEF Queued, QueuesSound
  <2>3. PortBusy(e, a) = SpareRebalance(o, a)
    BY <1>2 DEF PortBusy
  <2> HIDE DEF o
  <2> QED BY <2>1, <2>2, <2>3, RebalanceSound DEF SameCounts
<1> QED BY <1>1, <1>2

\* nxt_router_app_port_idle()
LEMMA IdleJoins ==
  ASSUME NEW e, QueuesSound(e), NEW a \in Atts, ReallyIdle(e, a, TRUE)
  PROVE  LET f == PortIdle(e, a, TRUE)
         IN  /\ QueuesSound(f) /\ f.det = e.det /\ SameCounts(e, f)
             /\ Both(f) = Both(e) \cup {a}
<1> DEFINE f == PortIdle(e, a, TRUE)
<1>2. ReallyIdle(e, a, TRUE)
  OBVIOUS
<1>3. /\ QueuesSound(f) /\ f.det = e.det /\ SameCounts(e, f)
      /\ Both(f) = Both(e) \cup {a}
  <2>1. e \in EcoSet /\ Distinct(e.spare) /\ Distinct(e.idle)
        /\ Members(e.spare) \cap Members(e.idle) = {}
        /\ e.n = Len(e.spare) + Len(e.idle) /\ Len(e.spare) <= Spare
        /\ \A b \in Members(e.idle) : e.port[b].start = "set"
    BY DEF QueuesSound
  <2>2. /\ e.spare \in Seq(Atts) /\ e.idle \in Seq(Atts) /\ e.n \in Int
        /\ e.det \in Int /\ e.port \in [Atts -> PortSet]
        /\ Len(e.spare) \in Nat /\ Len(e.idle) \in Nat
    BY <2>1, EcoTypes
  <2>3. a \notin Members(e.spare) /\ a \notin Members(e.idle)
        /\ e.port[a].active = 0 /\ e.port[a].ws = 0 /\ e.port[a].det = 0
    BY <1>2 DEF ReallyIdle, Queued
  <2>4. CASE e.n < Spare
    <3> DEFINE s == Append(e.spare, a)
    <3>1. f = Eco(s, e.idle, e.n + 1, e.det, e.port)
      BY <1>2, <2>4 DEF PortIdle
    <3>2. /\ s \in Seq(Atts) /\ Distinct(s) /\ Members(s) = Members(e.spare) \cup {a}
          /\ Len(s) = Len(e.spare) + 1
      BY <2>1, <2>2, <2>3, AppendMembers
    <3> HIDE DEF s, f
    <3>3. f \in EcoSet /\ f.spare = s /\ f.idle = e.idle /\ f.n = e.n + 1
          /\ f.det = e.det /\ f.port = e.port
      BY <2>2, <3>1, <3>2, EcoFields
    <3>4. e.n + 1 = Len(s) + Len(e.idle) /\ Len(s) <= Spare
      <4>1. e.n = Len(e.spare) + Len(e.idle) /\ Spare \in Nat
            /\ Len(s) = Len(e.spare) + 1
        BY <2>1, <3>2, LimitsAssumption
      <4>2. Len(e.spare) \in Nat /\ Len(e.idle) \in Nat /\ e.n \in Int
            /\ Len(s) \in Nat
        BY <2>2, <3>2
      <4> QED BY <2>1, <2>4, <3>2, <4>1, EcoTypes DEF EcoSet
    <3>5. QueuesSound(f)
      BY <2>1, <2>3, <3>2, <3>3, <3>4 DEF QueuesSound
    <3>6. Both(f) = Both(e) \cup {a}
      BY <3>2, <3>3 DEF Both
    <3> QED BY <3>3, <3>5, <3>6 DEF f, SameCounts
  <2>5. CASE ~(e.n < Spare)
    <3> DEFINE i == Append(e.idle, a)
               p == [e.port EXCEPT ![a].start = "set"]
    <3>1. f = Eco(e.spare, i, e.n + 1, e.det, p)
      BY <1>2, <2>5 DEF PortIdle
    <3>2. /\ i \in Seq(Atts) /\ Distinct(i) /\ Members(i) = Members(e.idle) \cup {a}
          /\ Len(i) = Len(e.idle) + 1
      BY <2>1, <2>2, <2>3, AppendMembers
    <3>3. /\ p \in [Atts -> PortSet] /\ p[a].start = "set"
          /\ \A b \in Atts : b # a => p[b] = e.port[b]
          /\ \A b \in Atts : /\ p[b].active = e.port[b].active
                             /\ p[b].ws = e.port[b].ws
                             /\ p[b].det = e.port[b].det /\ p[b].app = e.port[b].app
                             /\ p[b].router = e.port[b].router
                             /\ p[b].ctx = e.port[b].ctx
      <4>1. \A b \in Atts : e.port[b] \in PortSet
        BY <2>2
      <4> QED BY <2>2, <4>1 DEF PortSet
    <3> HIDE DEF i, p, f
    <3>4. f \in EcoSet /\ f.spare = e.spare /\ f.idle = i /\ f.n = e.n + 1
          /\ f.det = e.det /\ f.port = p
      BY <2>2, <3>1, <3>2, <3>3, EcoFields
    <3>5. e.n + 1 = Len(e.spare) + Len(i)
      <4>1. e.n = Len(e.spare) + Len(e.idle) /\ Len(i) = Len(e.idle) + 1
        BY <2>1, <3>2
      <4>2. Len(e.spare) \in Nat /\ Len(e.idle) \in Nat /\ e.n \in Int
            /\ Len(i) \in Nat
        BY <2>2, <3>2
      <4> QED BY <2>1, <3>2, <4>1, EcoTypes DEF EcoSet
    <3>6. \A b \in Members(i) : p[b].start = "set"
      <4>1. Members(e.idle) \subseteq Atts
        BY <2>2 DEF Members
      <4> QED BY <2>1, <3>2, <3>3, <4>1
    <3>7. QueuesSound(f)
      BY <2>1, <2>3, <3>2, <3>4, <3>5, <3>6 DEF QueuesSound
    <3>8. Both(f) = Both(e) \cup {a}
      BY <3>2, <3>4 DEF Both
    <3> QED BY <3>3, <3>4, <3>7, <3>8 DEF f, SameCounts
  <2> QED BY <2>4, <2>5
<1> QED BY <1>3

MayJoin(e, f, a) ==
  /\ QueuesSound(f) /\ f.det = e.det /\ SameCounts(e, f)
  /\ \/ Both(f) = Both(e)
     \/ /\ Both(f) = Both(e) \cup {a}
        /\ e.port[a].active = 0 /\ e.port[a].ws = 0 /\ e.port[a].det = 0

LEMMA IdleSound ==
  ASSUME NEW e, QueuesSound(e), NEW a \in Atts
  PROVE  MayJoin(e, PortIdle(e, a, TRUE), a)
<1> DEFINE f == PortIdle(e, a, TRUE)
<1>1. CASE ~ReallyIdle(e, a, TRUE)
  <2>1. f = e
    BY <1>1 DEF PortIdle
  <2> QED BY <2>1 DEF SameCounts, MayJoin
<1>2. CASE ReallyIdle(e, a, TRUE)
  <2>1. /\ QueuesSound(f) /\ f.det = e.det /\ SameCounts(e, f)
        /\ Both(f) = Both(e) \cup {a}
    BY <1>2, IdleJoins
  <2>2. e.port[a].active = 0 /\ e.port[a].ws = 0 /\ e.port[a].det = 0
    BY <1>2 DEF ReallyIdle
  <2> HIDE DEF f
  <2>3. MayJoin(e, f, a)
    BY <2>1, <2>2 DEF MayJoin
  <2> QED BY <2>3 DEF f
<1> QED BY <1>1, <1>2

\* A port that is closed joins no queue.
HandedBack(e, f, a) == f = e \/ (Open(a) /\ f = PortIdle(e, a, TRUE))

LEMMA HandedBackSound ==
  ASSUME NEW e, QueuesSound(e), NEW a \in Atts, NEW f, HandedBack(e, f, a)
  PROVE  MayJoin(e, f, a) /\ (a \in Both(f) => a \in Both(e) \/ Open(a))
<1>1. CASE f = e
  BY <1>1 DEF SameCounts, MayJoin
<1>2. CASE Open(a) /\ f = PortIdle(e, a, TRUE)
  <2>1. f = PortIdle(e, a, TRUE)
    BY <1>2
  <2>2. MayJoin(e, f, a)
    BY <2>1, IdleSound
  <2> QED BY <1>2, <2>2
<1> QED BY <1>1, <1>2 DEF HandedBack

\* A new value of the counts of one port, and of detached_processes.
LEMMA PortSound ==
  ASSUME NEW e, QueuesSound(e), NEW a \in Atts, NEW p \in PortSet, NEW d \in Int,
         a \in Both(e) => p.start = e.port[a].start
  PROVE  LET f == Counted(WithPort(e, a, p), d)
             g == WithPort(e, a, p)
         IN  /\ QueuesSound(f) /\ Both(f) = Both(e) /\ f.det = e.det + d
             /\ QueuesSound(g) /\ Both(g) = Both(e) /\ g.det = e.det
             /\ f.port = [e.port EXCEPT ![a] = p] /\ g.port = [e.port EXCEPT ![a] = p]
             /\ f.port \in [Atts -> PortSet]
<1> DEFINE f == Counted(WithPort(e, a, p), d)
           g == WithPort(e, a, p)
           q == [e.port EXCEPT ![a] = p]
<1>1. e \in EcoSet /\ e.spare \in Seq(Atts) /\ e.idle \in Seq(Atts) /\ e.n \in Int
      /\ e.det \in Int /\ e.port \in [Atts -> PortSet]
  BY EcoTypes DEF QueuesSound
<1>2. q \in [Atts -> PortSet] /\ q[a] = p /\ \A b \in Atts : b # a => q[b] = e.port[b]
  BY <1>1
<1>3. g = Eco(e.spare, e.idle, e.n, e.det, q)
  BY DEF WithPort
<1> HIDE DEF q, g, f
<1>4. g \in EcoSet /\ g.spare = e.spare /\ g.idle = e.idle /\ g.n = e.n
      /\ g.det = e.det /\ g.port = q
  BY <1>1, <1>2, <1>3, EcoFields
<1>5. f = Eco(e.spare, e.idle, e.n, e.det + d, q)
  BY <1>4 DEF Counted, f, g
<1>6. f \in EcoSet /\ f.spare = e.spare /\ f.idle = e.idle /\ f.n = e.n
      /\ f.det = e.det + d /\ f.port = q
  BY <1>1, <1>2, <1>5, EcoFields
<1>7. \A b \in Members(e.idle) : q[b].start = "set"
  <2>1. Members(e.idle) \subseteq Atts
    BY <1>1 DEF Members
  <2> QED BY <1>2, <2>1 DEF Both, QueuesSound
<1>8. QueuesSound(f) /\ QueuesSound(g)
  BY <1>4, <1>6, <1>7 DEF QueuesSound
<1>9. Both(f) = Both(e) /\ Both(g) = Both(e)
  BY <1>4, <1>6 DEF Both
<1> QED
  BY <1>2, <1>4, <1>6, <1>8, <1>9 DEF f, g, q

-----------------------------------------------------------------------------
(* The requests behind a worker.                                           *)

LEMMA OnFinite ==
  ASSUME NEW R, NEW st, NEW a
  PROVE  IsFiniteSet(On(R, st, a)) /\ Cardinality(On(R, st, a)) \in Nat
<1>1. On(R, st, a) \subseteq Reqs
  BY DEF On
<1> QED BY <1>1, NamesAssumption, FS_Subset, FS_CardinalityType

LEMMA OnSome ==
  ASSUME NEW R, NEW r \in Reqs
  PROVE  Cardinality(On(R, R[r].st, R[r].w)) > 0
<1> DEFINE S == On(R, R[r].st, R[r].w)
<1>1. r \in S
  BY DEF On
<1>2. IsFiniteSet(S) /\ Cardinality(S) \in Nat
  BY OnFinite
<1> HIDE DEF S
<1>3. Cardinality(S) # 0
  BY <1>1, <1>2, FS_EmptySet
<1>4. Cardinality(S) > 0
  BY <1>2, <1>3
<1> QED BY <1>4 DEF S

LEMMA OnNone ==
  ASSUME NEW R, NEW st, NEW a, Cardinality(On(R, st, a)) = 0
  PROVE  \A r \in Reqs : R[r].st = st => R[r].w # a
<1>1. On(R, st, a) = {}
  BY OnFinite, FS_EmptySet
<1> QED BY <1>1 DEF On

\* No request refers to a: its counters are zero.
LEMMA OnUnused ==
  ASSUME NEW R, NEW a, \A r \in Reqs : R[r].w # a \/ R[r].st = "done",
         NEW st \in Held
  PROVE  Cardinality(On(R, st, a)) = 0
<1>1. On(R, st, a) = {}
  BY DEF On, Held
<1> QED BY <1>1, NoneLeft

\* One request of w changes its state.
OneMoved(R, S, r, w) ==
  /\ S \in [Reqs -> ReqSet] /\ R[r].w = w /\ S[r].w = w
  /\ \A x \in Reqs : x # r => S[x] = R[x]

CountMoved(R, S, r, w, st) ==
  Cardinality(On(S, st, w)) = Cardinality(On(R, st, w))
    + One(S[r].st, {st}) - One(R[r].st, {st})

LEMMA OnMoves ==
  ASSUME NEW R, NEW S, NEW r \in Reqs, NEW w, OneMoved(R, S, r, w), NEW st
  PROVE  CountMoved(R, S, r, w, st)
<1> DEFINE X == On(R, st, w)
           Y == On(S, st, w)
<1>2. IsFiniteSet(X) /\ Cardinality(X) \in Nat
  BY OnFinite
<1>3. CASE S[r].st = st /\ R[r].st # st
  <2>1. Y = X \cup {r} /\ r \notin X
    BY <1>3 DEF On, OneMoved
  <2> HIDE DEF X, Y, CountMoved
  <2>2. Cardinality(Y) = Cardinality(X) + 1
    BY <1>2, <2>1, FS_AddElement
  <2>3. Cardinality(Y) = Cardinality(X) + One(S[r].st, {st}) - One(R[r].st, {st})
    BY <1>2, <1>3, <2>2 DEF One
  <2> QED BY <2>3 DEF X, Y, CountMoved
<1>4. CASE S[r].st # st /\ R[r].st = st
  <2>1. Y = X \ {r} /\ r \in X
    BY <1>4 DEF On, OneMoved
  <2> HIDE DEF X, Y, CountMoved
  <2>2. Cardinality(Y) = Cardinality(X) - 1
    BY <1>2, <2>1, FS_RemoveElement
  <2>3. Cardinality(Y) = Cardinality(X) + One(S[r].st, {st}) - One(R[r].st, {st})
    BY <1>2, <1>4, <2>2 DEF One
  <2> QED BY <2>3 DEF X, Y, CountMoved
<1>5. CASE (S[r].st = st) <=> (R[r].st = st)
  <2>1. Y = X
    BY <1>5 DEF On, OneMoved
  <2> HIDE DEF X, Y, CountMoved
  <2>2. Cardinality(Y) = Cardinality(X) + One(S[r].st, {st}) - One(R[r].st, {st})
    BY <1>2, <1>5, <2>1 DEF One
  <2> QED BY <2>2 DEF X, Y, CountMoved
<1> QED BY <1>3, <1>4, <1>5

-----------------------------------------------------------------------------
(* What a step changes at most.                                            *)

\* The links of the requests to their workers are the same.
SameLinks(R, S) ==
  \A r \in Reqs : S[r].st = R[r].st /\ S[r].w = R[r].w /\ S[r].wk = R[r].wk

LEMMA SameLinksSound ==
  ASSUME NEW e, NEW A, NEW R, NEW S \in [Reqs -> ReqSet], NEW busy,
         Sound(e, A, R, busy), SameLinks(R, S)
  PROVE  Sound(e, A, S, busy)
<1>1. \A st, a : On(S, st, a) = On(R, st, a)
  BY DEF On, SameLinks
<1>2. \A a \in Atts : PortAgree(e.port[a], A[a].ph, S, a)
  BY <1>1 DEF Sound, PortAgree
<1>3. \A r \in Reqs : LinkSound(A, S[r])
  BY DEF Sound, SameLinks, LinkSound
<1> QED BY <1>2, <1>3 DEF Sound

\* Attempts move between the phases of a start, and workers to their end.
Moves(A, B, R) ==
  \A a \in Atts :
    /\ B[a].ph \in Serving <=> A[a].ph \in Serving
    /\ B[a].ph = "quit" => A[a].ph \in {"quit"} \cup Starting \cup Late
    /\ B[a].ph \in Starting \cup Late =>
         \/ A[a].ph \in Starting \cup Late
         \/ \A r \in Reqs : R[r].w # a \/ R[r].st = "done"

\* What the main thread has left to do names no port that is being closed, or
\* the same one.
BusyMoves(A, B, b, c) ==
  \/ /\ c = b
     /\ \A a \in Atts : a \in b => (A[a].ph \in Gone <=> B[a].ph \in Gone)
  \/ \A a \in Atts : /\ a \in b => A[a].ph \notin Gone
                     /\ a \in c => B[a].ph \notin Gone

LEMMA AttemptsSound ==
  ASSUME NEW e, NEW A, NEW B, NEW R, NEW b, NEW c,
         Sound(e, A, R, b), Moves(A, B, R), BusyMoves(A, B, b, c)
  PROVE  Sound(e, B, R, c)
<1>1. \A a \in Atts : PortAgree(e.port[a], B[a].ph, R, a)
  BY DEF Sound, PortAgree, Moves
<1>2. \A a \in Atts : PortCleared(e.port[a], B[a].ph, a, c)
  BY DEF Sound, PortCleared, Moves, BusyMoves
<1>3. ASSUME NEW r \in Reqs
      PROVE  LinkSound(B, R[r])
  <2> DEFINE x == R[r]
  <2>1. LinkSound(A, x)
    BY DEF Sound
  <2>2. x.wk \in {"taken", "acked"} => x.w \in Atts
    BY <2>1 DEF LinkSound
  <2>3. ASSUME x.st \in Held PROVE x.wk = "acked" /\ B[x.w].ph # "quit"
    <3>1. x.wk = "acked" /\ x.w \in Atts /\ A[x.w].ph # "quit" /\ x.st # "done"
      BY <2>1, <2>3 DEF LinkSound, Held
    <3>2. A[x.w].ph \notin Starting \cup Late
      BY <2>1, <3>1 DEF LinkSound
    <3> QED BY <3>1, <3>2 DEF Moves
  <2>4. ASSUME x.st # "done", x.w \in Atts PROVE B[x.w].ph \notin Starting \cup Late
    <3>1. A[x.w].ph \notin Starting \cup Late
      BY <2>1, <2>4 DEF LinkSound
    <3> QED BY <2>4, <3>1 DEF Moves
  <2> HIDE DEF x
  <2>5. LinkSound(B, x)
    BY <2>2, <2>3, <2>4 DEF LinkSound
  <2> QED BY <2>5 DEF x
<1>4. QueuedFree(e, B)
  <2>1. QueuesSound(e) /\ QueuedFree(e, A)
    BY DEF Sound
  <2>2. Both(e) \subseteq Atts
    BY <2>1, EcoTypes DEF Both, Members, QueuesSound
  <2> QED BY <2>1, <2>2 DEF QueuedFree, Moves
<1> QED BY <1>1, <1>2, <1>3, <1>4 DEF Sound

\* One port, its worker and the requests of it change.
SamePort(p, q) ==
  /\ q.active = p.active /\ q.ws = p.ws /\ q.det = p.det /\ q.app = p.app
  /\ q.router = p.router /\ q.ctx = p.ctx

LEMMA OnePortSound ==
  ASSUME NEW e, NEW A, NEW R, NEW b, Sound(e, A, R, b),
         NEW f, QueuesSound(f), NEW B, NEW S \in [Reqs -> ReqSet], NEW c,
         NEW w \in Atts,
         \A a \in Atts : a # w => SamePort(e.port[a], f.port[a]) /\ B[a].ph = A[a].ph,
         \A a \in Atts, st \in Held : a # w => On(S, st, a) = On(R, st, a),
         Both(f) \subseteq Both(e) \cup {w},
         w \in Both(f) => /\ B[w].ph \in Serving /\ f.port[w].active = 0
                          /\ f.port[w].ws = 0 /\ f.port[w].det = 0,
         PortAgree(f.port[w], B[w].ph, S, w),
         \A a \in Atts : PortCleared(f.port[a], B[a].ph, a, c),
         \A r \in Reqs : LinkSound(B, S[r])
  PROVE  Sound(f, B, S, c)
<1>1. QueuedFree(f, B)
  <2>1. QueuedFree(e, A) /\ QueuesSound(e)
    BY DEF Sound
  <2>2. Both(e) \subseteq Atts
    BY <2>1, EcoTypes DEF Both, Members, QueuesSound
  <2>3. ASSUME NEW a \in Both(f), a # w
        PROVE  /\ B[a].ph \in Serving
               /\ f.port[a].active = 0 /\ f.port[a].ws = 0 /\ f.port[a].det = 0
    <3>1. a \in Both(e) /\ a \in Atts
      BY <2>2, <2>3
    <3> QED BY <2>1, <2>3, <3>1 DEF QueuedFree, SamePort
  <2> QED BY <2>3 DEF QueuedFree
<1>2. ASSUME NEW a \in Atts
      PROVE  PortAgree(f.port[a], B[a].ph, S, a)
  <2>1. CASE a # w
    <3>1. /\ On(S, "acked", a) = On(R, "acked", a)
          /\ On(S, "upgraded", a) = On(R, "upgraded", a)
          /\ On(S, "abandoned", a) = On(R, "abandoned", a)
      BY <2>1 DEF Held
    <3>2. PortAgree(e.port[a], A[a].ph, R, a)
      BY DEF Sound
    <3> QED BY <2>1, <3>1, <3>2 DEF PortAgree, SamePort
  <2> QED BY <2>1
<1> QED BY <1>1, <1>2 DEF Sound

-----------------------------------------------------------------------------
(* Steps that leave the economy alone.                                     *)

LEMMA JobTyped ==
  ASSUME NEW R \in [Reqs -> ReqSet], NEW x,
         NEW j \in {"none", "err", "requeue", "resend"}
  PROVE  /\ [R EXCEPT ![x].job = j] \in [Reqs -> ReqSet]
         /\ SameLinks(R, [R EXCEPT ![x].job = j])
<1>1. ASSUME NEW y \in ReqSet
      PROVE  /\ [y EXCEPT !.job = j] \in ReqSet
             /\ [y EXCEPT !.job = j].st = y.st /\ [y EXCEPT !.job = j].w = y.w
             /\ [y EXCEPT !.job = j].wk = y.wk
  BY DEF ReqSet
<1>2. \A r \in Reqs : /\ R[r] \in ReqSet
                      /\ [R EXCEPT ![x].job = j][r] =
                           IF r = x THEN [R[r] EXCEPT !.job = j] ELSE R[r]
  OBVIOUS
<1>3. [R EXCEPT ![x].job = j] \in [Reqs -> ReqSet]
  BY <1>1, <1>2
<1>4. SameLinks(R, [R EXCEPT ![x].job = j])
  BY <1>1, <1>2 DEF SameLinks
<1> QED BY <1>3, <1>4

LEMMA JobsTyped ==
  ASSUME NEW R \in [Reqs -> ReqSet], NEW X,
         NEW j \in {"none", "err", "requeue", "resend"},
         NEW S, S = [r \in Reqs |-> IF r \in X THEN [R[r] EXCEPT !.job = j] ELSE R[r]]
  PROVE  S \in [Reqs -> ReqSet] /\ SameLinks(R, S)
<1>1. ASSUME NEW y \in ReqSet
      PROVE  /\ [y EXCEPT !.job = j] \in ReqSet
             /\ [y EXCEPT !.job = j].st = y.st /\ [y EXCEPT !.job = j].w = y.w
             /\ [y EXCEPT !.job = j].wk = y.wk
  BY DEF ReqSet
<1>2. \A r \in Reqs : R[r] \in ReqSet
  OBVIOUS
<1> QED BY <1>1, <1>2 DEF SameLinks

LEMMA SameLinksSelf == ASSUME NEW R PROVE SameLinks(R, R)
BY DEF SameLinks

\* nxt_router_app_start_failed() posts work for a request, and no more.
LEMMA FailedLinks ==
  ASSUME NEW R \in [Reqs -> ReqSet], NEW who, NEW pe, NEW zq, NEW aq,
         StartFailed(who, pe, R, zq, aq)
  PROVE  req' \in [Reqs -> ReqSet] /\ SameLinks(R, req')
<1>1. \/ req' = R
      \/ req' = [R EXCEPT ![Head(zq)].job = "err"]
      \/ req' = [R EXCEPT ![Head(aq)].job = "err"]
  BY DEF StartFailed, DrainFirst
<1>2. ASSUME NEW x, req' = [R EXCEPT ![x].job = "err"]
      PROVE  req' \in [Reqs -> ReqSet] /\ SameLinks(R, req')
  BY <1>2, JobTyped
<1> QED BY <1>1, <1>2, SameLinksSelf

LEMMA IdleParts ==
  ASSUME IdleInv, conf # "freed"
  PROVE  /\ Sound(eco, att, req, now) /\ att \in [Atts -> AttSet]
         /\ req \in [Reqs -> ReqSet]
         /\ now \subseteq Adjusting \/ now \subseteq Atts
BY SlotInts DEF IdleInv, WatchInv, Sound

\* What is left to do is the close of context ports of one worker, or it
\* names none.
LEMMA BusyOne ==
  ASSUME IdleInv, conf # "freed", NEW a \in Atts, a \in now, att[a].ph \notin Gone
  PROVE  \A b \in Atts : b \in now => att[b].ph \notin Gone
BY IdleParts DEF Sound, PortCleared

\* An attempt moves, the economy and the links are left.
LEMMA QuietSound ==
  ASSUME IdleInv, conf # "freed", eco' = eco, req' \in [Reqs -> ReqSet],
         SameLinks(req, req'), Moves(att, att', req), BusyMoves(att, att', now, now')
  PROVE  Sound(eco', att', req', now')
<1>1. Sound(eco, att', req, now')
  BY IdleParts, AttemptsSound
<1> QED BY <1>1, SameLinksSound

LEMMA FailSound ==
  ASSUME IdleInv, conf # "freed", eco' = eco, NEW S, NEW d, FailAttempts(S, d),
         S \subseteq Of(att, Starting), BusyMoves(att, att', now, now')
  PROVE  Sound(eco', att', req', now')
<1>1. /\ att' = [a \in Atts |-> IF a \in S THEN NoAtt ELSE att[a]]
      /\ StartFailed("main", pending - Cardinality(S), req, reqq, ackq)
  BY DEF FailAttempts
<1>2. req' \in [Reqs -> ReqSet] /\ SameLinks(req, req')
  BY <1>1, IdleParts, FailedLinks
<1>3. Moves(att, att', req)
  BY <1>1, Records DEF Moves, Of, Serving, Starting, Late
<1> QED BY <1>2, <1>3, QuietSound

LEMMA PortErrorSound ==
  ASSUME IdleInv, conf # "freed", eco' = eco, NEW a \in Atts, PortError(a),
         att[a].ph \in {"proto", "sent", "lost"},
         \/ now = {} /\ now' = {}
         \/ a \in now /\ now' = now \ {a} /\ att[a].ph = "lost"
  PROVE  Sound(eco', att', req', now')
<1> DEFINE S == IF att[a].ph = "proto" THEN Cohort ELSE {a}
<1>1. FailAttempts(S, 0)
  BY DEF PortError
<1>2. S \subseteq Of(att, Starting)
  BY DEF Of, Starting, Cohort, InPhase
<1>3. att' = [b \in Atts |-> IF b \in S THEN NoAtt ELSE att[b]]
  BY <1>1 DEF FailAttempts
<1>4. BusyMoves(att, att', now, now')
  <2>1. CASE now = {} /\ now' = {}
    BY <2>1 DEF BusyMoves
  <2>2. CASE a \in now /\ now' = now \ {a} /\ att[a].ph = "lost"
    <3>1. \A b \in Atts : b \in now => att[b].ph \notin Gone
      BY <2>2, BusyOne DEF Gone
    <3>2. S = {a}
      BY <2>2
    <3> QED BY <1>3, <2>2, <3>1, <3>2 DEF BusyMoves
  <2> QED BY <2>1, <2>2
<1> QED BY <1>1, <1>2, <1>4, FailSound

LEMMA PortErrorExpiredSound ==
  ASSUME IdleInv, conf # "freed", eco' = eco, NEW a \in Atts, PortErrorExpired(a),
         att[a].ph \in {"proto", "sent"}, now = {}
  PROVE  Sound(eco', att', req', now')
<1> DEFINE rest == IF att[a].ph = "proto" THEN Cohort \ {a} ELSE {}
           m == IF att[a].ph = "proto" THEN "proto" ELSE "sent"
           x == Att("expiring", att[a].pr, att[a].gen, m)
<1>1. /\ att' = [b \in Atts |->
                   IF b = a THEN x ELSE IF b \in rest THEN NoAtt ELSE att[b]]
      /\ now' = {a}
      /\ \/ StartFailed("main", pending - Cardinality(rest), req, reqq, ackq)
         \/ UNCHANGED req
  BY DEF PortErrorExpired
<1>2. x.ph = "expiring" /\ NoAtt.ph = "none"
  BY DEF Att, NoAtt
<1>3. rest \subseteq Of(att, Starting)
  BY DEF Of, Starting, Cohort, InPhase
<1> HIDE DEF x, rest
<1>4. req' \in [Reqs -> ReqSet] /\ SameLinks(req, req')
  BY <1>1, IdleParts, FailedLinks, SameLinksSelf
<1>5. Moves(att, att', req)
  BY <1>1, <1>2, <1>3 DEF Moves, Of, Serving, Starting, Late
<1>6. BusyMoves(att, att', now, now')
  BY <1>1, <1>2 DEF BusyMoves, Gone
<1> QED BY <1>4, <1>5, <1>6, QuietSound

LEMMA StartHandlerSound ==
  ASSUME IdleInv, NEW a \in Atts, StartHandler(a)
  PROVE  Sound(eco', att', req', now')
<1>0. /\ conf # "freed" /\ eco' = eco /\ att[a].ph \in {"posted", "replay"}
      /\ now' = now \ {a} /\ (now = {} \/ a \in now)
  BY DEF StartHandler, Running, idling
<1>1. \A b \in Atts : b \in now => att[b].ph \notin Gone
  BY <1>0, BusyOne DEF Gone
<1>2. ASSUME NEW x, att' = [att EXCEPT ![a] = x], UNCHANGED req,
             x.ph \in {"sent", "wait", "proto"}
      PROVE  Sound(eco', att', req', now')
  <2>1. Moves(att, att', req)
    BY <1>0, <1>2, IdleParts DEF Moves, Serving, Starting, Late
  <2>2. BusyMoves(att, att', now, now')
    BY <1>0, <1>1, <1>2, IdleParts DEF BusyMoves
  <2> QED BY <1>0, <1>2, <2>1, <2>2, QuietSound, IdleParts, SameLinksSelf
<1>3. ASSUME NEW d, FailAttempts({a}, d)
      PROVE  Sound(eco', att', req', now')
  <2>1. att' = [b \in Atts |-> IF b \in {a} THEN NoAtt ELSE att[b]]
    BY <1>3 DEF FailAttempts
  <2>2. BusyMoves(att, att', now, now')
    BY <1>0, <1>1, <2>1 DEF BusyMoves
  <2>3. {a} \subseteq Of(att, Starting)
    BY <1>0 DEF Of, Starting
  <2> QED BY <1>0, <1>3, <2>2, <2>3, FailSound
<1>4. \/ \E x : att' = [att EXCEPT ![a] = x] /\ UNCHANGED req
                /\ x.ph \in {"sent", "wait", "proto"}
      \/ \E d : FailAttempts({a}, d)
  <2>1. \A ph, pr, g, m : Att(ph, pr, g, m).ph = ph
    BY DEF Att
  <2> QED BY <2>1 DEF StartHandler
<1> QED BY <1>2, <1>3, <1>4

LEMMA ExpirySound ==
  ASSUME IdleInv, NEW a \in Atts, StartTimeout(a) \/ MessageLeaves(a)
  PROVE  Sound(eco', att', req', now')
<1>0. /\ conf # "freed" /\ eco' = eco /\ att[a].ph \in {"proto", "sent"} /\ now = {}
  BY DEF StartTimeout, MessageLeaves, MainFree, Running, idling
<1>1. \/ PortError(a) /\ UNCHANGED now
      \/ PortErrorExpired(a)
      \/ /\ \E m : att' = [att EXCEPT ![a].msg = m]
         /\ UNCHANGED <<now, req>>
  BY DEF StartTimeout, MessageLeaves
<1>2. CASE PortError(a) /\ UNCHANGED now
  <2>1. now' = {} /\ att[a].ph \in {"proto", "sent", "lost"}
    BY <1>0, <1>2
  <2> QED BY <1>0, <1>2, <2>1, PortErrorSound
<1>3. CASE PortErrorExpired(a)
  BY <1>0, <1>3, PortErrorExpiredSound
<1>4. ASSUME NEW m, att' = [att EXCEPT ![a].msg = m], UNCHANGED <<now, req>>
      PROVE  Sound(eco', att', req', now')
  <2>1. \A b \in Atts : att'[b].ph = att[b].ph
    BY <1>0, <1>4, IdleParts DEF AttSet
  <2>2. Moves(att, att', req)
    BY <2>1 DEF Moves
  <2>3. BusyMoves(att, att', now, now')
    BY <1>0, <1>4 DEF BusyMoves
  <2> QED BY <1>0, <1>4, <2>2, <2>3, QuietSound, IdleParts, SameLinksSelf
<1> QED BY <1>1, <1>2, <1>3, <1>4

LEMMA StartExpiredSound ==
  ASSUME IdleInv, NEW a \in Atts, StartExpired(a)
  PROVE  Sound(eco', att', req', now')
<1> DEFINE ph == IF att[a].msg = "proto" THEN "lateP" ELSE "lateW"
           x == Att(ph, att[a].pr, att[a].gen, "sent")
<1>0. /\ conf # "freed" /\ eco' = eco /\ a \in now /\ att[a].ph = "expiring"
      /\ att' = [att EXCEPT ![a] = x] /\ now' = {}
      /\ StartFailed("main", pending - 1, req, reqq, ackq)
  BY DEF StartExpired, Running, idling
<1>1. x.ph \in {"lateP", "lateW"}
  BY DEF Att
<1> HIDE DEF x
<1>2. \A b \in Atts : b \in now => att[b].ph \notin Gone
  BY <1>0, BusyOne DEF Gone
<1>3. Moves(att, att', req)
  BY <1>0, <1>1, IdleParts DEF Moves, Serving, Starting, Late
<1>4. BusyMoves(att, att', now, now')
  BY <1>0, <1>2 DEF BusyMoves
<1> QED BY <1>0, <1>3, <1>4, QuietSound, IdleParts, FailedLinks

LEMMA ProtoReadySound ==
  ASSUME IdleInv, NEW a \in Atts, ProtoReady(a)
  PROVE  Sound(eco', att', req', now')
<1>0. /\ conf # "freed" /\ UNCHANGED <<eco, req>> /\ now = {}
      /\ att[a].ph \in {"proto", "lateP"}
  BY DEF ProtoReady, MainFree, Running, idling
<1> DEFINE x == Att("replay", None, 0, "none")
<1>1. x.ph = "replay" /\ NoAtt.ph = "none"
  BY DEF Att, NoAtt
<1>2. CASE att[a].ph = "lateP"
  <2>1. att' = [b \in Atts |-> IF b = a THEN NoAtt ELSE att[b]] /\ now' = {}
    BY <1>2 DEF ProtoReady
  <2>2. Moves(att, att', req)
    BY <1>1, <1>2, <2>1 DEF Moves, Serving, Starting, Late
  <2>3. BusyMoves(att, att', now, now')
    BY <1>0, <2>1 DEF BusyMoves
  <2> QED BY <1>0, <2>2, <2>3, QuietSound, IdleParts, SameLinksSelf
<1>3. CASE att[a].ph = "proto"
  <2>1. att' = [b \in Atts |-> IF b \in Cohort THEN x ELSE att[b]] /\ now' = Cohort
    BY <1>3 DEF ProtoReady
  <2>2. \A b \in Cohort : b \in Atts /\ att[b].ph \in {"wait", "proto"}
    BY DEF Cohort, InPhase
  <2> HIDE DEF x
  <2>3. Moves(att, att', req)
    BY <1>1, <2>1, <2>2 DEF Moves, Serving, Starting, Late
  <2>4. BusyMoves(att, att', now, now')
    BY <1>0, <1>1, <2>1 DEF BusyMoves, Gone
  <2> QED BY <1>0, <2>3, <2>4, QuietSound, IdleParts, SameLinksSelf
<1> QED BY <1>0, <1>2, <1>3

LEMMA StartEndsSound ==
  ASSUME IdleInv, NEW a \in Atts, StartDies(a) \/ StartLost(a)
  PROVE  Sound(eco', att', req', now')
<1>1. CASE StartDies(a)
  <2>0. conf # "freed" /\ eco' = eco /\ now = {} /\ now' = {}
    BY <1>1 DEF StartDies, MainFree, Running, idling
  <2>1. CASE att[a].ph \in {"proto", "sent"} /\ PortError(a)
    BY <2>0, <2>1, PortErrorSound
  <2>2. CASE /\ att[a].ph \in {"lateP", "lateW"} /\ att' = [att EXCEPT ![a] = NoAtt]
             /\ UNCHANGED req
    <3>1. Moves(att, att', req)
      BY <2>0, <2>2, IdleParts, Records DEF Moves, Serving, Starting, Late
    <3>2. BusyMoves(att, att', now, now')
      BY <2>0 DEF BusyMoves
    <3> QED BY <2>0, <2>2, <3>1, <3>2, QuietSound, IdleParts, SameLinksSelf
  <2> QED BY <1>1, <2>1, <2>2 DEF StartDies
<1>2. CASE StartLost(a)
  <2>1. /\ conf # "freed" /\ eco' = eco /\ a \in now /\ now' = now \ {a}
        /\ att[a].ph = "lost" /\ PortError(a)
    BY <1>2 DEF StartLost, Running, idling
  <2> QED BY <2>1, PortErrorSound
<1> QED BY <1>1, <1>2

LEMMA DeathsSound ==
  ASSUME IdleInv,
         \/ \E q \in Protos : ProtoExit(q) \/ ProtoRemoved(q)
         \/ \E a \in Atts : WorkerExit(a)
  PROVE  Sound(eco', att', req', now')
<1>1. ASSUME NEW q \in Protos, ProtoExit(q) PROVE Sound(eco', att', req', now')
  <2>1. /\ conf # "freed" /\ UNCHANGED <<eco, req, now>>
        /\ att' = [a \in Atts |-> IF att[a].ph = "up" /\ att[a].pr = q
                                    THEN [att[a] EXCEPT !.ph = "orphan"] ELSE att[a]]
    BY <1>1 DEF ProtoExit, Running, idling
  <2>2. \A b \in Atts : att'[b].ph = att[b].ph
                        \/ (att[b].ph = "up" /\ att'[b].ph = "orphan")
    BY <2>1, IdleParts DEF AttSet
  <2>3. Moves(att, att', req)
    BY <2>2 DEF Moves, Serving, Starting, Late
  <2>4. BusyMoves(att, att', now, now')
    BY <2>1, <2>2 DEF BusyMoves, Gone
  <2> QED BY <2>1, <2>3, <2>4, QuietSound, IdleParts, SameLinksSelf
<1>2. ASSUME NEW q \in Protos, ProtoRemoved(q) PROVE Sound(eco', att', req', now')
  <2> DEFINE lost == {a \in Atts : att[a].ph = "sent" /\ att[a].pr = q}
             x == Att("lost", None, 0, "none")
  <2>1. /\ conf # "freed" /\ UNCHANGED <<eco, req>> /\ now = {} /\ now' = lost
        /\ att' = [a \in Atts |-> IF a \in lost THEN x ELSE att[a]]
    BY <1>2 DEF ProtoRemoved, MainFree, Running, idling, InPhase
  <2>2. x.ph = "lost"
    BY DEF Att
  <2> HIDE DEF x
  <2>3. Moves(att, att', req)
    BY <2>1, <2>2 DEF Moves, Serving, Starting, Late
  <2>4. BusyMoves(att, att', now, now')
    BY <2>1, <2>2 DEF BusyMoves, Gone
  <2> QED BY <2>1, <2>3, <2>4, QuietSound, IdleParts, SameLinksSelf
<1>3. ASSUME NEW a \in Atts, WorkerExit(a) PROVE Sound(eco', att', req', now')
  <2>0. /\ conf # "freed" /\ UNCHANGED <<eco, req>>
        /\ \/ att[a].ph = "up" /\ att' = [att EXCEPT ![a].ph = "dying"]
              /\ UNCHANGED now
           \/ /\ att[a].ph = "stray" /\ a \notin now /\ UNCHANGED now
              /\ att' = [att EXCEPT ![a] = NoAtt]
           \/ /\ att[a].ph = "quit" /\ now = {} /\ att' = [att EXCEPT ![a] = NoAtt]
              /\ now' = IF eco.port[a].ctx > 0 THEN {a} ELSE {}
    BY <1>3 DEF WorkerExit, MainFree, Running, idling
  <2>1. att \in [Atts -> AttSet] /\ att[a] \in AttSet
    BY <2>0, IdleParts
  <2>2. CASE att[a].ph = "up" /\ att' = [att EXCEPT ![a].ph = "dying"] /\ UNCHANGED now
    <3>1. \A b \in Atts : att'[b].ph = IF b = a THEN "dying" ELSE att[b].ph
      BY <2>1, <2>2 DEF AttSet
    <3>2. Moves(att, att', req)
      BY <2>2, <3>1 DEF Moves, Serving, Starting, Late
    <3>3. BusyMoves(att, att', now, now')
      BY <2>2, <3>1 DEF BusyMoves, Gone
    <3> QED BY <2>0, <3>2, <3>3, QuietSound, IdleParts, SameLinksSelf
  <2>3. CASE /\ att[a].ph = "stray" /\ a \notin now /\ UNCHANGED now
             /\ att' = [att EXCEPT ![a] = NoAtt]
    <3>1. \A b \in Atts : att'[b].ph = IF b = a THEN "none" ELSE att[b].ph
      BY <2>1, <2>3, Records
    <3>2. Moves(att, att', req)
      BY <2>3, <3>1 DEF Moves, Serving, Starting, Late
    <3>3. BusyMoves(att, att', now, now')
      BY <2>3, <3>1 DEF BusyMoves
    <3> QED BY <2>0, <3>2, <3>3, QuietSound, IdleParts, SameLinksSelf
  <2>4. CASE /\ att[a].ph = "quit" /\ now = {} /\ att' = [att EXCEPT ![a] = NoAtt]
             /\ now' = IF eco.port[a].ctx > 0 THEN {a} ELSE {}
    <3>1. \A b \in Atts : att'[b].ph = IF b = a THEN "none" ELSE att[b].ph
      BY <2>1, <2>4, Records
    <3>2. Moves(att, att', req)
      BY <2>4, <3>1 DEF Moves, Serving, Starting, Late
    <3>3. now' = {}
      BY <2>0, <2>4, IdleParts DEF Sound, PortCleared, Serving
    <3>4. BusyMoves(att, att', now, now')
      BY <2>4, <3>3 DEF BusyMoves
    <3> QED BY <2>0, <3>2, <3>4, QuietSound, IdleParts, SameLinksSelf
  <2> QED BY <2>0, <2>2, <2>3, <2>4
<1> QED BY <1>1, <1>2, <1>3

LEMMA CalmSound ==
  ASSUME IdleInv,
         \/ \E who \in Reqs \cup {"main"} : DrainStep(who)
         \/ AdjustBegin \/ AdjustEnd \/ Restart \/ RemoveApp \/ ConfRelease
         \/ \E r \in Reqs : Fault(r)
  PROVE  Sound(eco', att', req', now')
<1> DEFINE Calm == conf # "freed" /\ UNCHANGED <<eco, att>>
           Idle == now \in {{}, {"queued"}, {"fired"}}
<1>1. ASSUME Calm, req' \in [Reqs -> ReqSet], SameLinks(req, req'),
             \/ now' = now
             \/ now \cap Atts = {} /\ now' \cap Atts = {}
      PROVE  Sound(eco', att', req', now')
  <2>1. Moves(att, att', req)
    BY <1>1 DEF Moves
  <2>2. BusyMoves(att, att', now, now')
    BY <1>1 DEF BusyMoves
  <2> QED BY <1>1, <2>1, <2>2, QuietSound
<1>2. ASSUME NEW who \in Reqs \cup {"main"}, DrainStep(who)
      PROVE  Sound(eco', att', req', now')
  <2>1. Calm /\ now' = now
    BY <1>2 DEF DrainStep, Running, starting, idling
  <2>2. \/ req' = req
        \/ req' = [req EXCEPT ![Head(reqq)].job = "err"]
        \/ req' = [req EXCEPT ![Head(ackq)].job = "err"]
    BY <1>2 DEF DrainStep, DrainFirst
  <2>3. ASSUME NEW x, req' = [req EXCEPT ![x].job = "err"]
        PROVE  req' \in [Reqs -> ReqSet] /\ SameLinks(req, req')
    BY <2>1, <2>3, JobTyped, IdleParts
  <2>4. req' \in [Reqs -> ReqSet] /\ SameLinks(req, req')
    BY <2>1, <2>2, <2>3, SameLinksSelf, IdleParts
  <2> QED BY <1>1, <2>1, <2>4
<1>3. ASSUME AdjustBegin \/ AdjustEnd PROVE Sound(eco', att', req', now')
  <2>1. /\ Calm /\ UNCHANGED req
        /\ now' \subseteq Adjusting /\ (now = {} \/ now \cap Adjusting # {})
    BY <1>3 DEF AdjustBegin, AdjustEnd, MainFree, Running, Adjusting
  <2>2. now \cap Atts = {} /\ now' \cap Atts = {}
    <3>1. Adjusting \cap Atts = {}
      BY NamesAssumption DEF Adjusting
    <3>2. now \subseteq Adjusting \/ now \subseteq Atts
      BY <2>1, IdleParts
    <3> QED BY <2>1, <3>1, <3>2
  <2> QED BY <1>1, <2>1, <2>2, IdleParts, SameLinksSelf
<1>4. ASSUME Restart \/ RemoveApp \/ ConfRelease \/ \E r \in Reqs : Fault(r)
      PROVE  Sound(eco', att', req', now')
  <2>1. Calm /\ UNCHANGED <<now, req>>
    BY <1>4 DEF Restart, RemoveApp, ConfRelease, Fault, MainFree, EngineFree,
                Running, starting, idling
  <2> QED BY <1>1, <2>1, IdleParts, SameLinksSelf
<1> QED BY <1>2, <1>3, <1>4

-----------------------------------------------------------------------------
(* Steps of a request that leave the economy alone.                        *)

\* A start is posted, on a name that no request refers to.
LEMMA PostSound ==
  ASSUME NEW e, NEW R, Sound(e, att, R, now), att \in [Atts -> AttSet],
         \A x \in Reqs : R[x].w \in Atts =>
           R[x].w = req[x].w /\ (req[x].st = "done" => R[x].st = "done"),
         NEW start, NEW pe, NEW d, NEW who, StartIf(start, att, pe, d, who)
  PROVE  Sound(e, att', R, now)
<1>1. CASE att' = att
  BY <1>1
<1>2. ASSUME NEW a \in Atts, Unused(a), att' = [att EXCEPT ![a] = Posted]
      PROVE  Sound(e, att', R, now)
  <2>1. \A b \in Atts : att'[b].ph = IF b = a THEN "posted" ELSE att[b].ph
    BY <1>2, Records
  <2>2. att[a].ph = "none" /\ a \notin now
        /\ \A r \in Reqs : R[r].w # a \/ R[r].st = "done"
    BY <1>2 DEF Unused
  <2>3. Moves(att, att', R)
    BY <2>1, <2>2 DEF Moves, Serving, Starting, Late
  <2>4. BusyMoves(att, att', now, now)
    BY <2>1, <2>2 DEF BusyMoves
  <2> QED BY <2>3, <2>4, AttemptsSound
<1> QED BY <1>1, <1>2 DEF StartIf

\* A request that is behind no worker changes.
LEMMA LooseSound ==
  ASSUME NEW e, NEW A, NEW R, NEW busy, Sound(e, A, R, busy),
         NEW S \in [Reqs -> ReqSet], NEW r \in Reqs,
         \A x \in Reqs : x # r => S[x] = R[x],
         R[r].st \notin Held, S[r].st \notin Held,
         S[r].wk \in {"taken", "acked"} => S[r].w \in Atts,
         S[r].st # "done" /\ S[r].w \in Atts => A[S[r].w].ph \notin Starting \cup Late
  PROVE  Sound(e, A, S, busy)
<1>1. \A st \in Held, a \in Atts : On(S, st, a) = On(R, st, a)
  BY DEF On
<1>2. \A a \in Atts : PortAgree(e.port[a], A[a].ph, S, a)
  BY <1>1 DEF Sound, PortAgree, Held
<1>3. \A x \in Reqs : LinkSound(A, S[x])
  BY DEF Sound, LinkSound
<1> QED BY <1>2, <1>3 DEF Sound

LEMMA ClaimSound ==
  ASSUME IdleInv, NEW r \in Reqs,
         \/ \E w \in Atts, c \in 0..Contexts : Claim(r, w, c)
         \/ SendAck(r)
  PROVE  Sound(eco', att', req', now')
<1>0. conf # "freed" /\ UNCHANGED <<eco, att, now>>
  BY DEF Claim, SendAck, Running, starting, idling
<1>1. /\ Sound(eco, att, req, now) /\ req \in [Reqs -> ReqSet] /\ req[r] \in ReqSet
      /\ LinkSound(att, req[r])
  BY <1>0, IdleParts DEF Sound
<1>2. ASSUME NEW w \in Atts, NEW c \in 0..Contexts, Claim(r, w, c)
      PROVE  Sound(eco', att', req', now')
  <2>1. /\ req' = [req EXCEPT ![r].wk = "taken", ![r].w = w, ![r].c = c]
        /\ req[r].wk = "queued" /\ att[w].ph \notin Starting \cup Late
    BY <1>2 DEF Claim, Alive, Starting, Late
  <2>2. /\ req' \in [Reqs -> ReqSet] /\ \A x \in Reqs : x # r => req'[x] = req[x]
        /\ req'[r].st = req[r].st /\ req'[r].w = w
    <3>1. \A x \in Reqs : req[x] \in ReqSet
      BY <1>1
    <3>2. [req[r] EXCEPT !.wk = "taken", !.w = w, !.c = c] \in ReqSet
          /\ [req[r] EXCEPT !.wk = "taken", !.w = w, !.c = c].st = req[r].st
          /\ [req[r] EXCEPT !.wk = "taken", !.w = w, !.c = c].w = w
      BY <1>1 DEF ReqSet
    <3>3. req' = [req EXCEPT ![r] = [req[r] EXCEPT !.wk = "taken", !.w = w, !.c = c]]
      BY <1>1, <2>1
    <3> QED BY <1>1, <3>2, <3>3
  <2>3. req[r].st \notin Held
    BY <1>1, <2>1 DEF LinkSound
  <2>4. /\ req'[r].st \notin Held /\ req'[r].w \in Atts
        /\ att[req'[r].w].ph \notin Starting \cup Late
    BY <2>1, <2>2, <2>3
  <2>5. Sound(eco, att, req', now)
    BY <1>1, <2>2, <2>3, <2>4, LooseSound
  <2> QED BY <1>0, <2>5
<1>3. CASE SendAck(r)
  <2>1. req' = [req EXCEPT ![r].wk = "acked"] /\ req[r].wk = "taken"
    BY <1>3 DEF SendAck
  <2>2. /\ req' \in [Reqs -> ReqSet] /\ \A x \in Reqs : x # r => req'[x] = req[x]
        /\ req'[r].st = req[r].st /\ req'[r].w = req[r].w
    <3>2. [req[r] EXCEPT !.wk = "acked"] \in ReqSet
          /\ [req[r] EXCEPT !.wk = "acked"].st = req[r].st
          /\ [req[r] EXCEPT !.wk = "acked"].w = req[r].w
      BY <1>1 DEF ReqSet
    <3>3. req' = [req EXCEPT ![r] = [req[r] EXCEPT !.wk = "acked"]]
      BY <1>1, <2>1
    <3> QED BY <1>1, <3>2, <3>3
  <2>3. /\ req[r].st \notin Held /\ req[r].w \in Atts
        /\ req[r].st # "done" => att[req[r].w].ph \notin Starting \cup Late
    <3>1. req[r].st \notin Held /\ req[r].w \in Atts
      BY <1>1, <2>1 DEF LinkSound
    <3> QED BY <1>1, <3>1 DEF LinkSound
  <2>4. Sound(eco, att, req', now)
    BY <1>1, <2>2, <2>3, LooseSound
  <2> QED BY <1>0, <2>4
<1> QED BY <1>2, <1>3

LEMMA PortGetSound ==
  ASSUME IdleInv, NEW r \in Reqs, PortGet(r)
  PROVE  Sound(eco', att', req', now')
<1>0. conf # "freed" /\ UNCHANGED <<eco, now>> /\ req[r].st = "new"
  BY DEF PortGet, Running, idling
<1>1. /\ Sound(eco, att, req, now) /\ req \in [Reqs -> ReqSet]
      /\ att \in [Atts -> AttSet]
  BY <1>0, IdleParts
<1> DEFINE y(sent) == Req(sent, IF sent = "wait" THEN "queued" ELSE "none", None, 0,
                          gen, "queued", "none", "no")
           R(sent) == [req EXCEPT ![r] = y(sent)]
<1>2. ASSUME NEW sent \in {"wait", "failing"}
      PROVE  /\ R(sent) \in [Reqs -> ReqSet] /\ Sound(eco, att, R(sent), now)
             /\ \A x \in Reqs : R(sent)[x].w \in Atts => R(sent)[x] = req[x]
  <2>1. /\ y(sent) \in ReqSet /\ y(sent).st = sent /\ y(sent).w = None
        /\ y(sent).wk \in {"queued", "none"}
    <3>1. gen \in 0..MaxGen /\ 0 \in 0..Contexts
      BY SlotInts, LimitsAssumption DEF IdleInv
    <3> QED BY <3>1 DEF Req, ReqSet
  <2> HIDE DEF y
  <2>2. /\ R(sent) \in [Reqs -> ReqSet] /\ R(sent)[r] = y(sent)
        /\ \A x \in Reqs : x # r => R(sent)[x] = req[x]
    BY <1>1, <2>1
  <2> HIDE DEF R
  <2>3. None \notin Atts
    BY NamesAssumption
  <2>4. sent \notin Held /\ req[r].st \notin Held
    BY <1>0 DEF Held
  <2>5. Sound(eco, att, R(sent), now)
    BY <1>1, <2>1, <2>2, <2>3, <2>4, LooseSound
  <2> QED BY <2>1, <2>2, <2>3, <2>5
<1>3. \E sent \in {"wait", "failing"} :
        \/ /\ StartFailed(r, pending, R(sent), reqq, Append(ackq, r)) /\ UNCHANGED att
        \/ /\ \E start : StartIf(start, att, pending, 1, r)
           /\ req' = R(sent)
  BY DEF PortGet
<1> HIDE DEF R
<1>4. PICK sent \in {"wait", "failing"} :
        \/ /\ StartFailed(r, pending, R(sent), reqq, Append(ackq, r)) /\ UNCHANGED att
        \/ /\ \E start : StartIf(start, att, pending, 1, r)
           /\ req' = R(sent)
  BY <1>3
<1>5. CASE /\ StartFailed(r, pending, R(sent), reqq, Append(ackq, r)) /\ UNCHANGED att
  <2>1. req' \in [Reqs -> ReqSet] /\ SameLinks(R(sent), req')
    BY <1>2, <1>5, FailedLinks
  <2>2. Sound(eco, att, req', now)
    BY <1>2, <2>1, SameLinksSound
  <2> QED BY <1>0, <1>5, <2>2
<1>6. ASSUME NEW start, StartIf(start, att, pending, 1, r), req' = R(sent)
      PROVE  Sound(eco', att', req', now')
  <2>1. Sound(eco, att', R(sent), now)
    BY <1>1, <1>2, <1>6, PostSound
  <2> QED BY <1>0, <1>6, <2>1
<1> QED BY <1>4, <1>5, <1>6

-----------------------------------------------------------------------------
(* Steps of a request behind a worker.                                     *)

LEMMA SoundTypes ==
  ASSUME NEW e, NEW A, NEW R, NEW b, Sound(e, A, R, b)
  PROVE  /\ e.port \in [Atts -> PortSet] /\ Both(e) \subseteq Atts
         /\ e.n \in Int /\ e.det \in Int
         /\ \A a \in Atts : /\ e.port[a].active \in Int /\ e.port[a].ws \in Int
                            /\ e.port[a].app \in Nat /\ e.port[a].router \in Nat
<1>1. QueuesSound(e)
  BY DEF Sound
<1>2. /\ e.spare \in Seq(Atts) /\ e.idle \in Seq(Atts) /\ e.port \in [Atts -> PortSet]
      /\ e.n \in Int /\ e.det \in Int
  BY <1>1, EcoTypes DEF QueuesSound
<1>3. \A a \in Atts : e.port[a] \in PortSet
  BY <1>2
<1>4. \A a \in Atts : /\ e.port[a].active \in Int /\ e.port[a].ws \in Int
                      /\ e.port[a].app \in Nat /\ e.port[a].router \in Nat
  BY <1>3 DEF PortSet
<1>5. Both(e) \subseteq Atts
  BY <1>2 DEF Both, Members
<1> QED BY <1>2, <1>4, <1>5

\* A worker with a request behind it is in no queue and was not told to quit.
LEMMA Behind ==
  ASSUME NEW e, NEW A, NEW R, NEW b, Sound(e, A, R, b), NEW r \in Reqs,
         R[r].st \in Held
  PROVE  /\ R[r].wk = "acked" /\ R[r].w \in Atts /\ R[r].w \notin Both(e)
         /\ A[R[r].w].ph \notin {"quit"} \cup Starting \cup Late
<1> DEFINE w == R[r].w
<1>1. LinkSound(A, R[r])
  BY DEF Sound
<1>2. R[r].wk = "acked" /\ w \in Atts /\ A[w].ph # "quit" /\ R[r].st # "done"
  BY <1>1 DEF LinkSound, Held
<1>3. A[w].ph \notin Starting \cup Late
  BY <1>1, <1>2 DEF LinkSound
<1>4. w \notin Both(e)
  <2> SUFFICES ASSUME w \in Both(e) PROVE FALSE
    OBVIOUS
  <2> DEFINE p == e.port[w]
  <2>1. /\ A[w].ph \in Serving /\ p.active = 0 /\ p.ws = 0 /\ p.det = 0
    BY DEF Sound, QueuedFree
  <2>2. PortAgree(p, A[w].ph, R, w)
    BY <1>2 DEF Sound
  <2>3. p.app \in Nat /\ p.router \in Nat
    BY <1>2, SoundTypes
  <2> HIDE DEF p
  <2>4. p.router = 0
    BY <2>1, <2>2, <2>3 DEF PortAgree
  <2>5. \A st \in Held : Cardinality(On(R, st, w)) = 0
    BY <2>1, <2>2, <2>4 DEF PortAgree, Held
  <2>6. Cardinality(On(R, R[r].st, w)) > 0 /\ Cardinality(On(R, R[r].st, w)) = 0
    BY <2>5, OnSome
  <2> QED BY <2>6
<1> QED BY <1>2, <1>3, <1>4

\* The counters of w follow its request; no other worker joins a queue.
PortMoved(p, q, ph, from, to) ==
  /\ q.app = p.app /\ q.ctx = p.ctx
  /\ q.active = p.active + One(to, {"acked"}) - One(from, {"acked"})
  /\ q.ws = p.ws + One(to, {"upgraded"}) - One(from, {"upgraded"})
  /\ \/ q.router = p.router + One(to, {"abandoned"}) - One(from, {"abandoned"})
     \/ ph \notin Serving /\ q.router = 0
  /\ q.det = IF q.app + q.router > 0 THEN 1 ELSE 0

EconomyMoved(e, f, ph, w) ==
  /\ QueuesSound(f)
  /\ \A a \in Atts : a # w => SamePort(e.port[a], f.port[a])
  /\ Both(f) \subseteq Both(e) \cup {w}
  /\ w \in Both(f) => /\ ph \in Serving /\ f.port[w].active = 0
                      /\ f.port[w].ws = 0 /\ f.port[w].det = 0

LEMMA PortMoveAgrees ==
  ASSUME NEW p, NEW q, NEW ph, NEW R, NEW S, NEW r \in Reqs, NEW w,
         PortAgree(p, ph, R, w), p.router \in Nat, OneMoved(R, S, r, w),
         PortMoved(p, q, ph, R[r].st, S[r].st)
  PROVE  PortAgree(q, ph, S, w)
<1>2. /\ CountMoved(R, S, r, w, "acked") /\ CountMoved(R, S, r, w, "upgraded")
      /\ CountMoved(R, S, r, w, "abandoned")
  BY OnMoves
<1>3. q.active = Cardinality(On(S, "acked", w))
  BY <1>2 DEF PortAgree, PortMoved, CountMoved
<1>4. q.ws = Cardinality(On(S, "upgraded", w))
  BY <1>2 DEF PortAgree, PortMoved, CountMoved
<1> DEFINE ab == Cardinality(On(R, "abandoned", w))
           ab2 == Cardinality(On(S, "abandoned", w))
           up == One(S[r].st, {"abandoned"})
           down == One(R[r].st, {"abandoned"})
           n == p.router
           n2 == q.router
           serves == ph \in Serving
<1>5. /\ ab \in Nat /\ ab2 \in Nat /\ up \in {0, 1} /\ down \in {0, 1} /\ n \in Nat
  BY OnFinite, OneType
<1>6. /\ ab2 = ab + up - down /\ n <= ab /\ (serves => n = ab)
      /\ n2 = n + up - down \/ (~serves /\ n2 = 0)
  BY <1>2 DEF PortAgree, PortMoved, CountMoved
<1> HIDE DEF ab, ab2, up, down, n, n2, serves
<1>7. n2 <= ab2 /\ (serves => n2 = ab2)
  BY <1>5, <1>6
<1> QED BY <1>3, <1>4, <1>7 DEF PortAgree, PortMoved, ab2, n2, serves

LEMMA MoveSound ==
  ASSUME NEW e, NEW A, NEW R, NEW b, Sound(e, A, R, b), NEW r \in Reqs,
         NEW w \in Atts, NEW S, OneMoved(R, S, r, w), LinkSound(A, S[r]),
         NEW f, EconomyMoved(e, f, A[w].ph, w),
         PortMoved(e.port[w], f.port[w], A[w].ph, R[r].st, S[r].st)
  PROVE  Sound(f, A, S, b)
<1>1. \A a \in Atts, st \in Held : a # w => On(S, st, a) = On(R, st, a)
  BY DEF OneMoved, On
<1>2. PortAgree(f.port[w], A[w].ph, S, w)
  BY PortMoveAgrees, SoundTypes DEF Sound
<1>3. \A a \in Atts : PortCleared(f.port[a], A[a].ph, a, b)
  <2>1. \A a \in Atts : PortCleared(e.port[a], A[a].ph, a, b)
    BY DEF Sound
  <2>2. \A a \in Atts : f.port[a].app = e.port[a].app /\ f.port[a].ctx = e.port[a].ctx
    BY DEF SamePort, EconomyMoved, PortMoved
  <2> QED BY <2>1, <2>2 DEF PortCleared
<1>4. \A x \in Reqs : LinkSound(A, S[x])
  BY DEF Sound, OneMoved
<1>5. S \in [Reqs -> ReqSet]
  BY DEF OneMoved
<1> QED BY <1>1, <1>2, <1>3, <1>4, <1>5, OnePortSound DEF EconomyMoved

LEMMA PortFields ==
  ASSUME NEW ac, NEW ws, NEW dt, NEW ap, NEW rt, NEW start, NEW ctx
  PROVE  LET p == Port(ac, ws, dt, ap, rt, start, ctx)
         IN  /\ p.active = ac /\ p.ws = ws /\ p.det = dt /\ p.app = ap
             /\ p.router = rt /\ p.start = start /\ p.ctx = ctx
             /\ ac \in Int /\ ws \in Int /\ dt \in 0..1 /\ ap \in Nat /\ rt \in Nat
                  /\ start \in {"zero", "set"} /\ ctx \in 0..Contexts => p \in PortSet
BY DEF Port, PortSet

\* Only the port of w is another, and no queue changes.
Ported(e, g, w) ==
  /\ QueuesSound(g) /\ Both(g) = Both(e)
  /\ \A a \in Atts : a # w => g.port[a] = e.port[a]

\* A request behind its worker moves, the counters of the port follow and the
\* port may be handed back to the idle queues.
LEMMA ReturnSound ==
  ASSUME NEW e, NEW R, NEW b, Sound(e, att, R, b), NEW r \in Reqs, R[r].st \in Held,
         NEW w, w = R[r].w, NEW g, Ported(e, g, w), NEW f, HandedBack(g, f, w),
         NEW S, OneMoved(R, S, r, w), LinkSound(att, S[r]),
         PortMoved(e.port[w], g.port[w], att[w].ph, R[r].st, S[r].st)
  PROVE  Sound(f, att, S, b)
<1>1. /\ w \in Atts /\ w \notin Both(e)
      /\ att[w].ph \notin {"quit"} \cup Starting \cup Late
  BY Behind
<1>2. MayJoin(g, f, w) /\ (w \in Both(f) => w \in Both(g) \/ Open(w))
  BY <1>1, HandedBackSound DEF Ported
<1>3. \A a \in Atts : SamePort(g.port[a], f.port[a])
  BY <1>2 DEF MayJoin, SameCounts, SamePort
<1>4. EconomyMoved(e, f, att[w].ph, w)
  <2>1. \A a \in Atts : a # w => SamePort(e.port[a], f.port[a])
    BY <1>3 DEF Ported
  <2>2. Both(f) \subseteq Both(e) \cup {w}
    BY <1>2 DEF Ported, MayJoin
  <2>3. w \in Both(f) => /\ att[w].ph \in Serving /\ f.port[w].active = 0
                         /\ f.port[w].ws = 0 /\ f.port[w].det = 0
    BY <1>1, <1>2, <1>3 DEF MayJoin, SamePort, Open, Serving, Ported
  <2> QED BY <1>2, <2>1, <2>2, <2>3 DEF EconomyMoved, MayJoin
<1>5. PortMoved(e.port[w], f.port[w], att[w].ph, R[r].st, S[r].st)
  <2>1. SamePort(g.port[w], f.port[w])
    BY <1>1, <1>3
  <2> QED BY <2>1 DEF SamePort, PortMoved
<1> HIDE DEF HandedBack
<1> QED BY <1>1, <1>4, <1>5, MoveSound

\* nxt_request_rpc_data_unlink()
LEMMA UnlinkSound ==
  ASSUME IdleInv, conf # "freed", NEW r \in Reqs, Linked(r),
         NEW job \in {"none", "err", "requeue", "resend"}, NEW d, Unlink(r, job, d)
  PROVE  /\ Sound(eco', att, req', now)
         /\ \A x \in Reqs : req'[x].w = req[x].w /\ (req[x].st = "done" => req'[x].st = "done")
<1> DEFINE w == req[r].w
           p == eco.port[w]
           released == IF req[r].st = "acked"
             THEN Port(p.active - 1, p.ws, p.det, p.app, p.router, p.start, p.ctx)
             ELSE Port(p.active, p.ws - 1, p.det, p.app, p.router, p.start, p.ctx)
           y == Req("done", IF Retracts(r) THEN "none" ELSE req[r].wk, w,
                    req[r].c, req[r].g, req[r].cancel, job, "no")
<1>1. /\ Sound(eco, att, req, now) /\ req \in [Reqs -> ReqSet] /\ req[r] \in ReqSet
      /\ LinkSound(att, req[r])
  BY IdleParts DEF Sound
<1>2. /\ req' = [req EXCEPT ![r] = y]
      /\ IF OnShared(r) THEN UNCHANGED eco
         ELSE eco' = PortIdle(WithPort(eco, w, released), w, Open(w))
  BY DEF Unlink, BackToIdle
<1>3. /\ y \in ReqSet /\ y.st = "done" /\ y.w = w /\ y.wk \in {"none", req[r].wk}
  BY <1>1 DEF Req, ReqSet
<1> HIDE DEF y
<1>4. /\ req' \in [Reqs -> ReqSet] /\ req'[r] = y
      /\ \A x \in Reqs : x # r => req'[x] = req[x]
  BY <1>1, <1>2, <1>3
<1>5. \A x \in Reqs : req'[x].w = req[x].w /\ (req[x].st = "done" => req'[x].st = "done")
  BY <1>3, <1>4
<1>6. y.wk \in {"taken", "acked"} => w \in Atts
  BY <1>1, <1>3 DEF LinkSound
<1>7. CASE OnShared(r)
  <2>1. req[r].st \notin Held /\ "done" \notin Held
    BY <1>7 DEF OnShared, Held
  <2>2. Sound(eco, att, req', now)
    BY <1>1, <1>3, <1>4, <1>6, <2>1, LooseSound
  <2> QED BY <1>2, <1>5, <1>7, <2>2
<1>8. CASE ~OnShared(r)
  <2>1. req[r].st \in {"acked", "upgraded"}
    BY <1>8 DEF OnShared, Linked
  <2>2. /\ w \in Atts /\ w \notin Both(eco)
        /\ att[w].ph \notin {"quit"} \cup Starting \cup Late
    BY <1>1, <2>1, Behind DEF Held
  <2>3. /\ p \in PortSet /\ PortAgree(p, att[w].ph, req, w) /\ QueuesSound(eco)
    BY <1>1, <2>2, SoundTypes DEF Sound
  <2>4. /\ released \in PortSet /\ released.start = p.start
        /\ released.det = p.det /\ released.app = p.app /\ released.router = p.router
        /\ released.ctx = p.ctx
        /\ released.active = p.active + One("done", {"acked"}) - One(req[r].st, {"acked"})
        /\ released.ws = p.ws + One("done", {"upgraded"}) - One(req[r].st, {"upgraded"})
    <3>1. /\ p.active \in Int /\ p.ws \in Int /\ p.det \in 0..1 /\ p.app \in Nat
          /\ p.router \in Nat /\ p.start \in {"zero", "set"} /\ p.ctx \in 0..Contexts
      BY <2>3 DEF PortSet
    <3> HIDE DEF p
    <3>2. CASE req[r].st = "acked"
      BY <3>1, <3>2, PortFields DEF One
    <3>3. CASE req[r].st = "upgraded"
      BY <3>1, <3>3, PortFields DEF One
    <3> QED BY <2>1, <3>2, <3>3
  <2> HIDE DEF released
  <2> DEFINE g == WithPort(eco, w, released)
  <2>5. Ported(eco, g, w) /\ g.port[w] = released
    <3>1. /\ QueuesSound(g) /\ Both(g) = Both(eco)
          /\ g.port = [eco.port EXCEPT ![w] = released]
      BY <2>2, <2>3, <2>4, PortSound
    <3> QED BY <1>1, <2>2, <3>1, SoundTypes DEF Ported
  <2> HIDE DEF g
  <2>6. HandedBack(g, eco', w)
    <3>1. eco' = PortIdle(g, w, Open(w))
      BY <1>2, <1>8 DEF g
    <3> QED BY <3>1 DEF HandedBack, PortIdle, ReallyIdle
  <2>7. PortMoved(p, g.port[w], att[w].ph, req[r].st, "done")
    <3>1. p.router \in Nat
      BY <2>3 DEF PortSet
    <3>2. One("done", {"abandoned"}) = 0 /\ One(req[r].st, {"abandoned"}) = 0
      BY <2>1 DEF One
    <3>3. p.router = p.router + One("done", {"abandoned"}) - One(req[r].st, {"abandoned"})
      BY <3>1, <3>2
    <3>4. p.det = IF p.app + p.router > 0 THEN 1 ELSE 0
      BY <2>3 DEF PortAgree
    <3> QED BY <2>4, <2>5, <3>3, <3>4 DEF PortMoved
  <2>8. LinkSound(att, req'[r]) /\ req'[r].st = "done"
    BY <1>3, <1>4, <1>6 DEF LinkSound, Held
  <2>9. OneMoved(req, req', r, w)
    BY <1>3, <1>4 DEF OneMoved
  <2>10. PortMoved(p, g.port[w], att[w].ph, req[r].st, req'[r].st)
    BY <2>7, <2>8
  <2>11. req[r].st \in Held
    BY <2>1 DEF Held
  <2>12. Sound(eco', att, req', now)
    BY <1>1, <2>5, <2>6, <2>8, <2>9, <2>10, <2>11, ReturnSound
  <2> QED BY <1>5, <2>12
<1> QED BY <1>7, <1>8

\* A reason for detachment is added or taken.
DetachedTo(e, g, a, ap, rt) ==
  LET p == e.port[a]
      q == g.port[a]
  IN  /\ Ported(e, g, a) /\ q.active = p.active /\ q.ws = p.ws
      /\ q.app = ap /\ q.router = rt /\ q.start = p.start /\ q.ctx = p.ctx
      /\ q.det = IF ap + rt > 0 THEN 1 ELSE 0

LEMMA DetachedSound ==
  ASSUME NEW e, QueuesSound(e), NEW a \in Atts, NEW ap \in Nat, NEW rt \in Nat
  PROVE  DetachedTo(e, Detached(e, a, ap, rt), a, ap, rt)
<1> DEFINE p == e.port[a]
           d == IF ap + rt > 0 THEN 1 ELSE 0
           q == Port(p.active, p.ws, d, ap, rt, p.start, p.ctx)
           g == Counted(WithPort(e, a, q), d - p.det)
<1>1. p \in PortSet /\ e.port \in [Atts -> PortSet]
  BY EcoTypes DEF QueuesSound
<1>2. /\ p.active \in Int /\ p.ws \in Int /\ p.det \in 0..1
      /\ p.start \in {"zero", "set"} /\ p.ctx \in 0..Contexts /\ d \in 0..1
  BY <1>1 DEF PortSet
<1> HIDE DEF p, d
<1>3. /\ q \in PortSet /\ q.active = p.active /\ q.ws = p.ws /\ q.det = d
      /\ q.app = ap /\ q.router = rt /\ q.start = p.start /\ q.ctx = p.ctx
  BY <1>2, PortFields
<1>4. d - p.det \in Int
  BY <1>2
<1> HIDE DEF q
<1>5. QueuesSound(g) /\ Both(g) = Both(e) /\ g.port = [e.port EXCEPT ![a] = q]
  BY <1>3, <1>4, PortSound DEF p
<1>6. g = Detached(e, a, ap, rt)
  BY DEF Detached, p, d, q
<1> HIDE DEF g
<1>7. Ported(e, g, a) /\ g.port[a] = q
  BY <1>1, <1>5 DEF Ported
<1>8. DetachedTo(e, g, a, ap, rt)
  BY <1>3, <1>7 DEF DetachedTo, p, d
<1> QED BY <1>6, <1>8

\* nxt_router_app_abandoned_settle()
LEMMA SettleSound ==
  ASSUME IdleInv, conf # "freed", NEW r \in Reqs, req[r].st = "abandoned", Settle(r)
  PROVE  Sound(eco', att, req', now)
<1> DEFINE w == req[r].w
           p == eco.port[w]
           y == [req[r] EXCEPT !.st = "done"]
           rt == p.router - 1
           g == Detached(eco, w, p.app, rt)
<1>1. /\ Sound(eco, att, req, now) /\ req \in [Reqs -> ReqSet] /\ req[r] \in ReqSet
      /\ LinkSound(att, req[r]) /\ QueuesSound(eco) /\ req[r].st \in Held
  BY IdleParts DEF Sound, Held
<1>2. w \in Atts /\ req[r].wk = "acked"
  BY <1>1, Behind
<1>3. /\ p \in PortSet /\ PortAgree(p, att[w].ph, req, w)
      /\ p.app \in Nat /\ p.router \in Nat
  BY <1>1, <1>2, SoundTypes DEF Sound
<1>4. /\ y \in ReqSet /\ y.st = "done" /\ y.w = w /\ y.wk = "acked"
  BY <1>1, <1>2 DEF ReqSet
<1>5. req' = [req EXCEPT ![r] = y]
  BY <1>1 DEF Settle
<1> HIDE DEF y
<1>6. OneMoved(req, req', r, w) /\ req'[r].st = "done"
  BY <1>1, <1>4, <1>5 DEF OneMoved
<1>7. LinkSound(att, req'[r])
  BY <1>1, <1>2, <1>4, <1>5 DEF LinkSound, Held
<1>8. /\ One("done", {"acked"}) = 0 /\ One("done", {"upgraded"}) = 0
      /\ One("done", {"abandoned"}) = 0 /\ One("abandoned", {"acked"}) = 0
      /\ One("abandoned", {"upgraded"}) = 0 /\ One("abandoned", {"abandoned"}) = 1
  BY DEF One
<1>9. p.active \in Int /\ p.ws \in Int
  BY <1>3 DEF PortSet
<1>10. CASE p.router > 0
  <2>1. rt \in Nat /\ rt = p.router + 0 - 1
    BY <1>3, <1>10
  <2> HIDE DEF rt
  <2>2. /\ Ported(eco, g, w) /\ g.port[w].active = p.active /\ g.port[w].ws = p.ws
        /\ g.port[w].app = p.app /\ g.port[w].router = rt
        /\ g.port[w].ctx = p.ctx
        /\ g.port[w].det = IF p.app + rt > 0 THEN 1 ELSE 0
    <3>1. DetachedTo(eco, g, w, p.app, rt)
      BY <1>1, <1>2, <1>3, <2>1, DetachedSound
    <3> HIDE DEF g
    <3> QED BY <3>1 DEF DetachedTo
  <2>3. HandedBack(g, eco', w)
    <3>1. eco' = g \/ eco' = PortIdle(g, w, Open(w))
      BY <1>3, <1>10 DEF Settle, BackToIdle, rt
    <3> HIDE DEF g
    <3> QED BY <3>1 DEF HandedBack, PortIdle, ReallyIdle
  <2> HIDE DEF g, p
  <2>4. PortMoved(p, g.port[w], att[w].ph, "abandoned", "done")
    BY <1>3, <1>8, <1>9, <2>1, <2>2 DEF PortMoved
  <2>5. PortMoved(eco.port[w], g.port[w], att[w].ph, req[r].st, req'[r].st)
    BY <1>6, <2>4 DEF p
  <2> QED BY <1>1, <1>6, <1>7, <2>2, <2>3, <2>5, ReturnSound
<1>11. CASE p.router = 0
  <2>1. eco' = eco
    BY <1>11 DEF Settle
  <2>2. att[w].ph \notin Serving
    <3>1. Cardinality(On(req, "abandoned", w)) > 0
      BY OnSome
    <3> QED BY <1>3, <1>11, <3>1 DEF PortAgree
  <2>3. PortMoved(p, p, att[w].ph, "abandoned", "done")
    BY <1>3, <1>8, <1>9, <1>11, <2>2 DEF PortMoved, PortAgree
  <2>4. PortMoved(eco.port[w], eco.port[w], att[w].ph, req[r].st, req'[r].st)
    BY <1>6, <2>3
  <2>5. Ported(eco, eco, w) /\ HandedBack(eco, eco', w)
    BY <1>1, <2>1 DEF Ported, HandedBack
  <2> QED BY <1>1, <1>6, <1>7, <2>4, <2>5, ReturnSound
<1> QED BY <1>3, <1>10, <1>11

\* A job done for a request, and nothing else.
LEMMA JobDone ==
  ASSUME IdleInv, conf # "freed", NEW r, req' = [req EXCEPT ![r].job = "none"]
  PROVE  Sound(eco, att, req', now) /\ SameLinks(req, req')
<1>1. req' \in [Reqs -> ReqSet] /\ SameLinks(req, req')
  BY IdleParts, JobTyped
<1> QED BY <1>1, IdleParts, SameLinksSound

LEMMA AnswersSound ==
  ASSUME IdleInv, NEW r \in Reqs,
         Response(r) \/ PeerGone(r) \/ Close(r) \/ AckTimeout(r) \/ ErrHandler(r)
  PROVE  Sound(eco', att', req', now')
<1>1. conf # "freed" /\ UNCHANGED <<att, now>>
  BY DEF Response, PeerGone, Close, AckTimeout, ErrHandler, EngineFree, Running,
         starting
<1>2. /\ Sound(eco, att, req, now) /\ req \in [Reqs -> ReqSet] /\ req[r] \in ReqSet
      /\ req[r].job \in {"none", "err", "requeue", "resend"}
  BY <1>1, IdleParts DEF ReqSet
<1>3. ASSUME NEW job \in {"none", "err", "requeue", "resend"}, Linked(r),
             Unlink(r, job, 0)
      PROVE  Sound(eco', att', req', now')
  <2>1. Sound(eco', att, req', now)
    BY <1>1, <1>3, UnlinkSound
  <2> QED BY <1>1, <2>1
<1>4. ASSUME req[r].st = "abandoned", Settle(r)
      PROVE  Sound(eco', att', req', now')
  BY <1>1, <1>4, SettleSound
<1>5. ASSUME eco' = eco, req' = [req EXCEPT ![r].job = "none"]
      PROVE  Sound(eco', att', req', now')
  BY <1>1, <1>5, JobDone
<1>6. ASSUME eco' = eco, req' = [req EXCEPT ![r].cancel = "claimed", ![r].twice = "yes"]
      PROVE  Sound(eco', att', req', now')
  <2> DEFINE y == [req[r] EXCEPT !.cancel = "claimed", !.twice = "yes"]
  <2>1. y \in ReqSet /\ y.st = req[r].st /\ y.w = req[r].w /\ y.wk = req[r].wk
    BY <1>2 DEF ReqSet
  <2>2. req' = [req EXCEPT ![r] = y]
    BY <1>2, <1>6
  <2> HIDE DEF y
  <2>3. req' \in [Reqs -> ReqSet] /\ SameLinks(req, req')
    BY <1>2, <2>1, <2>2 DEF SameLinks
  <2> QED BY <1>1, <1>2, <1>6, <2>3, SameLinksSound
<1>7. \/ \E job \in {"none", "err", "requeue", "resend"} :
           Linked(r) /\ Unlink(r, job, 0)
      \/ req[r].st = "abandoned" /\ Settle(r)
      \/ eco' = eco /\ req' = [req EXCEPT ![r].job = "none"]
      \/ eco' = eco /\ req' = [req EXCEPT ![r].cancel = "claimed", ![r].twice = "yes"]
  BY <1>2 DEF Response, PeerGone, Close, AckTimeout, ErrHandler, Linked
<1> QED BY <1>3, <1>4, <1>5, <1>6, <1>7

LEMMA RequeueSound ==
  ASSUME IdleInv, NEW r \in Reqs, RequeueHandler(r)
  PROVE  Sound(eco', att', req', now')
<1> DEFINE last == requeue = 1
<1>1. /\ conf # "freed" /\ now' = now
      /\ att' = [a \in Atts |-> IF last /\ att[a].ph = "held" THEN Posted ELSE att[a]]
  BY DEF RequeueHandler, EngineFree, Running
<1>2. /\ Sound(eco, att, req, now) /\ req \in [Reqs -> ReqSet] /\ req[r] \in ReqSet
      /\ LinkSound(att, req[r])
  BY <1>1, IdleParts DEF Sound
<1>3. ASSUME OnShared(r), eco' = eco,
             req' = [req EXCEPT ![r].cancel = "retracted", ![r].wk = "none",
                                ![r].job = "none"]
      PROVE  Sound(eco', att, req', now)
  <2> DEFINE y == [req[r] EXCEPT !.cancel = "retracted", !.wk = "none", !.job = "none"]
  <2>1. y \in ReqSet /\ y.st = req[r].st /\ y.w = req[r].w /\ y.wk = "none"
    BY <1>2 DEF ReqSet
  <2>2. req' = [req EXCEPT ![r] = y]
    BY <1>2, <1>3
  <2> HIDE DEF y
  <2>3. /\ req' \in [Reqs -> ReqSet] /\ req'[r] = y
        /\ \A x \in Reqs : x # r => req'[x] = req[x]
    BY <1>2, <2>1, <2>2
  <2>4. req[r].st \notin Held
    BY <1>3 DEF OnShared, Held
  <2>5. req'[r].st # "done" /\ req'[r].w \in Atts =>
          att[req'[r].w].ph \notin Starting \cup Late
    BY <1>2, <2>1, <2>3 DEF LinkSound
  <2>6. Sound(eco, att, req', now)
    BY <1>2, <2>1, <2>3, <2>4, <2>5, LooseSound
  <2> QED BY <1>3, <2>6
<1>4. ASSUME NEW d, Linked(r), Unlink(r, "none", d)
      PROVE  Sound(eco', att, req', now)
  BY <1>1, <1>4, UnlinkSound
<1>5. ASSUME eco' = eco, req' = [req EXCEPT ![r].job = "none"]
      PROVE  Sound(eco', att, req', now)
  BY <1>1, <1>5, JobDone
<1>6. Sound(eco', att, req', now)
  <2>1. \/ /\ OnShared(r) /\ eco' = eco
           /\ req' = [req EXCEPT ![r].cancel = "retracted", ![r].wk = "none",
                                 ![r].job = "none"]
        \/ \E d : Linked(r) /\ Unlink(r, "none", d)
        \/ eco' = eco /\ req' = [req EXCEPT ![r].job = "none"]
    BY DEF RequeueHandler, Retracts
  <2> QED BY <1>3, <1>4, <1>5, <2>1
<1>7. Posted.ph = "posted"
  BY Records
<1>8. Moves(att, att', req')
  BY <1>1, <1>7 DEF Moves, Serving, Starting, Late
<1>9. BusyMoves(att, att', now, now')
  BY <1>1, <1>7 DEF BusyMoves, Gone
<1> QED BY <1>6, <1>8, <1>9, AttemptsSound

LEMMA ResendSound ==
  ASSUME IdleInv, NEW r \in Reqs, Resend(r)
  PROVE  Sound(eco', att', req', now')
<1> DEFINE R == [req EXCEPT ![r].cancel = "queued", ![r].wk = "queued", ![r].job = "none"]
           y == [req[r] EXCEPT !.cancel = "queued", !.wk = "queued", !.job = "none"]
<1>1. conf # "freed" /\ now' = now
  BY DEF Resend, EngineFree, Running
<1>2. /\ Sound(eco, att, req, now) /\ req \in [Reqs -> ReqSet] /\ req[r] \in ReqSet
      /\ LinkSound(att, req[r]) /\ att \in [Atts -> AttSet]
  BY <1>1, IdleParts DEF Sound
<1>3. y \in ReqSet /\ y.st = req[r].st /\ y.w = req[r].w /\ y.wk = "queued"
  BY <1>2 DEF ReqSet
<1>4. R = [req EXCEPT ![r] = y]
  BY <1>2
<1> HIDE DEF y
<1>5. /\ R \in [Reqs -> ReqSet] /\ R[r] = y /\ \A x \in Reqs : x # r => R[x] = req[x]
  BY <1>2, <1>3, <1>4
<1>6. \/ /\ UNCHANGED <<att, eco>> /\ req' = [req EXCEPT ![r].job = "none"]
      \/ /\ OnShared(r) /\ UNCHANGED <<att, eco>>
         /\ StartFailed(r, pending, R, reqq, Append(ackq, r))
      \/ /\ OnShared(r) /\ UNCHANGED eco /\ req' = R
         /\ \E start : StartIf(start, att, pending, 0, r)
      \/ /\ UNCHANGED <<eco, req>> /\ StartIf(TRUE, att, pending, 0, r)
      \/ /\ OnShared(r) /\ UNCHANGED att /\ Unlink(r, "none", 0)
  BY DEF Resend
<1> HIDE DEF R
<1>7. ASSUME OnShared(r)
      PROVE  Sound(eco, att, R, now)
  <2>1. req[r].st \notin Held /\ y.st \notin Held
    BY <1>3, <1>7 DEF OnShared, Held
  <2>2. R[r].st # "done" /\ R[r].w \in Atts => att[R[r].w].ph \notin Starting \cup Late
    BY <1>2, <1>3, <1>5 DEF LinkSound
  <2> QED BY <1>2, <1>3, <1>5, <2>1, <2>2, LooseSound
<1>8. CASE UNCHANGED <<att, eco>> /\ req' = [req EXCEPT ![r].job = "none"]
  BY <1>1, <1>8, JobDone
<1>9. CASE /\ OnShared(r) /\ UNCHANGED <<att, eco>>
           /\ StartFailed(r, pending, R, reqq, Append(ackq, r))
  <2>1. req' \in [Reqs -> ReqSet] /\ SameLinks(R, req')
    BY <1>5, <1>9, FailedLinks
  <2>2. Sound(eco, att, req', now)
    BY <1>7, <1>9, <2>1, SameLinksSound
  <2> QED BY <1>1, <1>9, <2>2
<1>10. ASSUME NEW start, OnShared(r), UNCHANGED eco, req' = R,
              StartIf(start, att, pending, 0, r)
       PROVE  Sound(eco', att', req', now')
  <2>1. \A x \in Reqs : R[x].w = req[x].w /\ R[x].st = req[x].st
    BY <1>3, <1>5
  <2>2. Sound(eco, att', R, now)
    BY <1>2, <1>7, <1>10, <2>1, PostSound
  <2> QED BY <1>1, <1>10, <2>2
<1>11. CASE UNCHANGED <<eco, req>> /\ StartIf(TRUE, att, pending, 0, r)
  <2>1. Sound(eco, att', req, now)
    BY <1>2, <1>11, PostSound
  <2> QED BY <1>1, <1>11, <2>1
<1>12. CASE OnShared(r) /\ UNCHANGED att /\ Unlink(r, "none", 0)
  <2>1. Linked(r)
    BY <1>12 DEF OnShared, Linked
  <2>2. Sound(eco', att, req', now)
    BY <1>1, <1>12, <2>1, UnlinkSound
  <2> QED BY <1>1, <1>12, <2>2
<1> QED BY <1>6, <1>8, <1>9, <1>10, <1>11, <1>12

\* The counts of one port, written as a whole.
LEMMA WithPortSound ==
  ASSUME NEW e, QueuesSound(e), NEW a \in Atts, NEW q \in PortSet,
         q.start = e.port[a].start
  PROVE  Ported(e, WithPort(e, a, q), a) /\ WithPort(e, a, q).port[a] = q
<1> DEFINE g == WithPort(e, a, q)
<1>1. QueuesSound(g) /\ Both(g) = Both(e) /\ g.port = [e.port EXCEPT ![a] = q]
  BY PortSound
<1>2. e.port \in [Atts -> PortSet]
  BY EcoTypes DEF QueuesSound
<1> HIDE DEF g
<1>3. Ported(e, g, a) /\ g.port[a] = q
  BY <1>1, <1>2 DEF Ported
<1> QED BY <1>3 DEF g

LEMMA PortTypes ==
  ASSUME NEW p \in PortSet
  PROVE  /\ p.active \in Int /\ p.ws \in Int /\ p.det \in 0..1 /\ p.app \in Nat
         /\ p.router \in Nat /\ p.start \in {"zero", "set"} /\ p.ctx \in 0..Contexts
BY DEF PortSet

\* The state of one request is written, and nothing else of it.
StateMoved(R, S, r, st) ==
  OneMoved(R, S, r, R[r].w) /\ S[r].st = st /\ S[r].wk = R[r].wk

LEMMA StateWritten ==
  ASSUME NEW R \in [Reqs -> ReqSet], NEW r \in Reqs,
         NEW st \in {"failing", "acked", "upgraded", "abandoned"}
  PROVE  StateMoved(R, [R EXCEPT ![r].st = st], r, st)
<1> DEFINE y == [R[r] EXCEPT !.st = st]
           S == [R EXCEPT ![r].st = st]
<1>1. y \in ReqSet /\ y.st = st /\ y.w = R[r].w /\ y.wk = R[r].wk
  BY DEF ReqSet
<1>2. S = [R EXCEPT ![r] = y]
  OBVIOUS
<1> HIDE DEF y, S
<1>3. S \in [Reqs -> ReqSet] /\ S[r] = y /\ \A x \in Reqs : x # r => S[x] = R[x]
  BY <1>1, <1>2
<1>4. StateMoved(R, S, r, st)
  BY <1>1, <1>3 DEF OneMoved, StateMoved
<1> QED BY <1>4 DEF S

LEMMA UpgradeSound ==
  ASSUME IdleInv, NEW r \in Reqs, Upgrade(r)
  PROVE  Sound(eco', att', req', now')
<1> DEFINE w == req[r].w
           p == eco.port[w]
           q == Port(p.active - 1, p.ws + 1, p.det, p.app, p.router, p.start, p.ctx)
<1>1. /\ conf # "freed" /\ UNCHANGED <<att, now>> /\ req[r].st = "acked"
      /\ req' = [req EXCEPT ![r].st = "upgraded"] /\ eco' = WithPort(eco, w, q)
  BY DEF Upgrade, EngineFree, Running, starting
<1>2. /\ Sound(eco, att, req, now) /\ req \in [Reqs -> ReqSet] /\ QueuesSound(eco)
      /\ LinkSound(att, req[r]) /\ req[r].st \in Held
  BY <1>1, IdleParts DEF Sound, Held
<1>3. w \in Atts /\ req[r].wk = "acked" /\ att[w].ph \notin {"quit"} \cup Starting \cup Late
  BY <1>2, Behind
<1>4. p \in PortSet /\ PortAgree(p, att[w].ph, req, w)
  BY <1>2, <1>3, SoundTypes DEF Sound
<1>5. /\ OneMoved(req, req', r, w) /\ req'[r].st = "upgraded" /\ req'[r].w = w
      /\ req'[r].wk = "acked"
  <2>1. StateMoved(req, req', r, "upgraded")
    BY <1>1, <1>2, StateWritten
  <2> QED BY <1>3, <2>1 DEF StateMoved, OneMoved
<1>6. LinkSound(att, req'[r])
  BY <1>3, <1>5 DEF LinkSound, Held
<1>7. /\ p.active \in Int /\ p.ws \in Int /\ p.det \in 0..1 /\ p.app \in Nat
      /\ p.router \in Nat /\ p.start \in {"zero", "set"} /\ p.ctx \in 0..Contexts
  BY <1>4, PortTypes
<1>8. p.det = IF p.app + p.router > 0 THEN 1 ELSE 0
  BY <1>4 DEF PortAgree
<1> HIDE DEF p
<1>9. /\ q \in PortSet /\ q.start = p.start /\ q.active = p.active - 1
      /\ q.ws = p.ws + 1 /\ q.det = p.det /\ q.app = p.app /\ q.router = p.router
      /\ q.ctx = p.ctx
  BY <1>7, PortFields
<1> HIDE DEF q
<1>10. PortMoved(p, q, att[w].ph, "acked", "upgraded")
  BY <1>7, <1>8, <1>9 DEF PortMoved, One
<1>11. Ported(eco, eco', w) /\ eco'.port[w] = q
  BY <1>1, <1>2, <1>3, <1>9, WithPortSound DEF p
<1>12. HandedBack(eco', eco', w)
  BY DEF HandedBack
<1>13. PortMoved(eco.port[w], eco'.port[w], att[w].ph, req[r].st, req'[r].st)
  BY <1>1, <1>5, <1>10, <1>11 DEF p
<1>14. Sound(eco', att, req', now)
  BY <1>2, <1>5, <1>6, <1>11, <1>12, <1>13, ReturnSound
<1> QED BY <1>1, <1>14

LEMMA AppTimeoutSound ==
  ASSUME IdleInv, NEW r \in Reqs, AppTimeout(r)
  PROVE  Sound(eco', att', req', now')
<1> DEFINE w == req[r].w
           p == eco.port[w]
           rt == p.router + 1
           e == Detached(eco, w, p.app, rt)
           q == [e.port[w] EXCEPT !.active = @ - 1]
           b == PortBusy(e, w)
<1>1. /\ conf # "freed" /\ now' = now /\ req[r].st = "acked"
      /\ req' = [req EXCEPT ![r].st = "abandoned"]
      /\ eco' = WithPort(b, w, [b.port[w] EXCEPT !.active = @ - 1])
      /\ \E start, d : StartIf(start, att, pending, d, r)
  BY DEF AppTimeout, EngineFree, Running
<1>2. /\ Sound(eco, att, req, now) /\ req \in [Reqs -> ReqSet] /\ QueuesSound(eco)
      /\ LinkSound(att, req[r]) /\ req[r].st \in Held /\ att \in [Atts -> AttSet]
  BY <1>1, IdleParts DEF Sound, Held
<1>3. /\ w \in Atts /\ req[r].wk = "acked" /\ w \notin Both(eco)
      /\ att[w].ph \notin {"quit"} \cup Starting \cup Late
  BY <1>2, Behind
<1>4. p \in PortSet /\ p.app \in Nat /\ p.router \in Nat /\ rt \in Nat
  BY <1>2, <1>3, SoundTypes
<1>5. /\ OneMoved(req, req', r, w) /\ req'[r].st = "abandoned" /\ req'[r].w = w
      /\ req'[r].wk = "acked"
  <2>1. StateMoved(req, req', r, "abandoned")
    BY <1>1, <1>2, StateWritten
  <2> QED BY <1>3, <2>1 DEF StateMoved, OneMoved
<1>6. LinkSound(att, req'[r])
  BY <1>3, <1>5 DEF LinkSound, Held
<1>7. rt = p.router + 1
  OBVIOUS
<1> HIDE DEF rt
<1>8. DetachedTo(eco, e, w, p.app, rt)
  BY <1>2, <1>3, <1>4, DetachedSound
<1>9. p.active \in Int /\ p.ws \in Int
  BY <1>4, PortTypes
<1> HIDE DEF e, p
<1>10. /\ Ported(eco, e, w) /\ e.port[w].active = p.active /\ e.port[w].ws = p.ws
       /\ e.port[w].app = p.app /\ e.port[w].router = rt
       /\ e.port[w].ctx = p.ctx
       /\ e.port[w].det = IF p.app + rt > 0 THEN 1 ELSE 0
  BY <1>8 DEF DetachedTo, p
<1>11. b = e
  BY <1>3, <1>10 DEF PortBusy, Queued, Both, Ported
<1>12. QueuesSound(e) /\ e.port[w] \in PortSet
  BY <1>3, <1>10, EcoTypes DEF Ported, QueuesSound
<1>13. /\ q \in PortSet /\ q.start = e.port[w].start /\ q.active = p.active - 1
       /\ q.ws = p.ws /\ q.det = e.port[w].det /\ q.app = p.app /\ q.router = rt
       /\ q.ctx = p.ctx
  BY <1>9, <1>10, <1>12 DEF PortSet
<1>14. eco' = WithPort(e, w, q)
  BY <1>1, <1>11
<1> HIDE DEF q, b
<1>15. PortMoved(p, q, att[w].ph, "acked", "abandoned")
  BY <1>4, <1>7, <1>9, <1>10, <1>13 DEF PortMoved, One
<1>16. Ported(e, eco', w) /\ eco'.port[w] = q
  BY <1>3, <1>12, <1>13, <1>14, WithPortSound
<1>17. Ported(eco, eco', w) /\ HandedBack(eco', eco', w)
  BY <1>10, <1>16 DEF HandedBack, Ported
<1>18. PortMoved(eco.port[w], eco'.port[w], att[w].ph, req[r].st, req'[r].st)
  BY <1>1, <1>5, <1>15, <1>16 DEF p
<1>19. Sound(eco', att, req', now)
  BY <1>2, <1>5, <1>6, <1>17, <1>18, ReturnSound
<1>20. \A x \in Reqs : req'[x].w = req[x].w /\ (req[x].st = "done" => req'[x].st = "done")
  BY <1>1, <1>5 DEF OneMoved
<1>21. Sound(eco', att', req', now)
  BY <1>1, <1>2, <1>19, <1>20, PostSound
<1> QED BY <1>1, <1>21

\* nxt_router_req_headers_ack_handler()
LEMMA HeadersAckSound ==
  ASSUME IdleInv, NEW r \in Reqs, HeadersAck(r)
  PROVE  Sound(eco', att', req', now')
<1> DEFINE w == req[r].w
           b == PortBusy(eco, w)
           p == b.port[w]
           q == Port(p.active + 1, p.ws, p.det, p.app, p.router, p.start, p.ctx)
           known == IF req[r].c = 0 THEN Registered(w) ELSE eco.port[w].ctx >= req[r].c
<1>1. /\ conf # "freed" /\ now' = now /\ req[r].st = "wait" /\ req[r].wk = "acked"
      /\ \/ UNCHANGED <<att, eco>> /\ req' = [req EXCEPT ![r].st = "failing"]
         \/ /\ known /\ req' = [req EXCEPT ![r].st = "acked"]
            /\ eco' = WithPort(b, w, q)
            /\ \E start : StartIf(start, att, pending, 0, r)
  BY DEF HeadersAck, EngineFree, Running
<1>2. /\ Sound(eco, att, req, now) /\ req \in [Reqs -> ReqSet] /\ QueuesSound(eco)
      /\ LinkSound(att, req[r]) /\ att \in [Atts -> AttSet] /\ req[r].c \in 0..Contexts
  BY <1>1, IdleParts DEF Sound, ReqSet
<1>3. w \in Atts
  BY <1>1, <1>2 DEF LinkSound
<1>4. att[w].ph \notin Starting \cup Late
  BY <1>1, <1>2, <1>3 DEF LinkSound
<1>5. ASSUME UNCHANGED <<att, eco>>, req' = [req EXCEPT ![r].st = "failing"]
      PROVE  Sound(eco', att', req', now')
  <2>1. StateMoved(req, req', r, "failing")
    BY <1>2, <1>5, StateWritten
  <2>2. /\ req' \in [Reqs -> ReqSet] /\ \A x \in Reqs : x # r => req'[x] = req[x]
        /\ req'[r].w = w
    BY <2>1 DEF StateMoved, OneMoved
  <2>3. req[r].st \notin Held /\ req'[r].st \notin Held
    BY <1>1, <2>1 DEF Held, StateMoved
  <2>4. Sound(eco, att, req', now)
    BY <1>2, <1>3, <1>4, <2>2, <2>3, LooseSound
  <2> QED BY <1>1, <1>5, <2>4
<1>6. ASSUME known, req' = [req EXCEPT ![r].st = "acked"], eco' = WithPort(b, w, q),
             NEW start, StartIf(start, att, pending, 0, r)
      PROVE  Sound(eco', att', req', now')
  <2>1. /\ OneMoved(req, req', r, w) /\ req'[r].st = "acked" /\ req'[r].w = w
        /\ req'[r].wk = "acked"
    <3>1. StateMoved(req, req', r, "acked")
      BY <1>2, <1>6, StateWritten
    <3> QED BY <1>1, <3>1 DEF StateMoved, OneMoved
  <2>2. /\ PortAgree(eco.port[w], att[w].ph, req, w)
        /\ PortCleared(eco.port[w], att[w].ph, w, now)
    BY <1>2, <1>3 DEF Sound
  <2>3. att[w].ph # "quit"
    <3>1. CASE req[r].c = 0
      BY <1>6, <3>1 DEF Registered
    <3>2. CASE req[r].c # 0
      <4>1. eco.port[w].ctx > 0
        <5>1. eco.port[w] \in PortSet
          BY <1>2, <1>3, SoundTypes
        <5>2. eco.port[w].ctx \in Int
          BY <5>1, PortTypes
        <5> QED BY <1>2, <1>6, <3>2, <5>2
      <4> QED BY <2>2, <4>1 DEF PortCleared, Serving, Gone
    <3> QED BY <3>1, <3>2
  <2>4. LinkSound(att, req'[r])
    BY <1>3, <1>4, <2>1, <2>3 DEF LinkSound, Held
  <2>5. QueuesSound(b) /\ Both(b) = Both(eco) \ {w} /\ SameCounts(eco, b)
    BY <1>2, <1>3, BusySound
  <2> HIDE DEF b
  <2>6. p \in PortSet
    BY <1>3, <2>5, EcoTypes DEF QueuesSound
  <2>7. /\ p.active \in Int /\ p.ws \in Int /\ p.det \in 0..1 /\ p.app \in Nat
        /\ p.router \in Nat /\ p.start \in {"zero", "set"} /\ p.ctx \in 0..Contexts
    BY <2>6, PortTypes
  <2>8. SamePort(eco.port[w], p)
    BY <1>3, <2>5 DEF SameCounts, SamePort
  <2>9. p.det = IF p.app + p.router > 0 THEN 1 ELSE 0
    BY <2>2, <2>8 DEF PortAgree, SamePort
  <2> HIDE DEF p
  <2>10. /\ q \in PortSet /\ q.start = p.start /\ q.active = p.active + 1
         /\ q.ws = p.ws /\ q.det = p.det /\ q.app = p.app /\ q.router = p.router
         /\ q.ctx = p.ctx
    BY <2>7, PortFields
  <2> HIDE DEF q
  <2>11. Ported(b, eco', w) /\ eco'.port[w] = q
    BY <1>3, <1>6, <2>5, <2>10, WithPortSound DEF p
  <2>12. PortMoved(p, q, att[w].ph, "wait", "acked")
    BY <2>7, <2>9, <2>10 DEF PortMoved, One
  <2>13. PortMoved(eco.port[w], eco'.port[w], att[w].ph, req[r].st, req'[r].st)
    <3>1. PortMoved(eco.port[w], q, att[w].ph, "wait", "acked")
      BY <2>8, <2>12 DEF SamePort, PortMoved
    <3> QED BY <1>1, <2>1, <2>11, <3>1
  <2>14. EconomyMoved(eco, eco', att[w].ph, w)
    BY <2>5, <2>11 DEF EconomyMoved, Ported, SameCounts, SamePort
  <2>15. Sound(eco', att, req', now)
    BY <1>2, <1>3, <2>1, <2>4, <2>13, <2>14, MoveSound
  <2>16. \A x \in Reqs : req'[x].w = req[x].w
                         /\ (req[x].st = "done" => req'[x].st = "done")
    BY <1>1, <2>1 DEF OneMoved
  <2>17. Sound(eco', att', req', now)
    BY <1>2, <1>6, <2>15, <2>16, PostSound
  <2> QED BY <1>1, <2>17
<1> QED BY <1>1, <1>5, <1>6

-----------------------------------------------------------------------------
(* Steps of the main thread with a worker.                                 *)

\* The port of a registered worker changes, not the requests behind it.
WorkerMoved(p, q) ==
  /\ q.active = p.active /\ q.ws = p.ws /\ q.router = p.router
  /\ q.det = IF q.app + q.router > 0 THEN 1 ELSE 0

LEMMA WorkerSound ==
  ASSUME NEW e, NEW A, NEW R, NEW b, Sound(e, A, R, b), NEW w \in Atts,
         A[w].ph \in Serving, NEW f, EconomyMoved(e, f, A[w].ph, w),
         WorkerMoved(e.port[w], f.port[w])
  PROVE  Sound(f, A, R, b)
<1>1. PortAgree(f.port[w], A[w].ph, R, w)
  BY DEF Sound, PortAgree, WorkerMoved
<1>2. \A a \in Atts : PortCleared(f.port[a], A[a].ph, a, b)
  <2>1. PortCleared(f.port[w], A[w].ph, w, b)
    BY DEF PortCleared, Serving, Gone
  <2>2. ASSUME NEW a \in Atts, a # w PROVE PortCleared(f.port[a], A[a].ph, a, b)
    BY <2>2 DEF PortCleared, Sound, EconomyMoved, SamePort
  <2> QED BY <2>1, <2>2
<1>3. R \in [Reqs -> ReqSet] /\ \A r \in Reqs : LinkSound(A, R[r])
  BY DEF Sound
<1> QED BY <1>1, <1>2, <1>3, OnePortSound DEF EconomyMoved

LEMMA ContextReadySound ==
  ASSUME IdleInv, NEW a \in Atts, ContextReady(a)
  PROVE  Sound(eco', att', req', now')
<1> DEFINE p == eco.port[a]
           q == [p EXCEPT !.ctx = @ + 1]
<1>1. /\ conf # "freed" /\ UNCHANGED <<att, req, now>> /\ att[a].ph \in Serving
      /\ eco' = WithPort(eco, a, q) /\ p.ctx < Contexts
  BY DEF ContextReady, MainFree, Running, starting, Registered, Serving
<1>2. Sound(eco, att, req, now) /\ QueuesSound(eco)
  BY <1>1, IdleParts DEF Sound
<1>3. p \in PortSet /\ PortAgree(p, att[a].ph, req, a)
  BY <1>2, SoundTypes DEF Sound
<1>4. p.ctx + 1 \in 0..Contexts
  BY <1>1, <1>3, PortTypes, LimitsAssumption
<1>5. /\ q \in PortSet /\ q.start = p.start /\ q.active = p.active /\ q.ws = p.ws
      /\ q.det = p.det /\ q.app = p.app /\ q.router = p.router
  BY <1>3, <1>4 DEF PortSet
<1> HIDE DEF q
<1>6. Ported(eco, eco', a) /\ eco'.port[a] = q
  BY <1>1, <1>2, <1>5, WithPortSound
<1>7. WorkerMoved(p, eco'.port[a])
  BY <1>3, <1>5, <1>6 DEF WorkerMoved, PortAgree
<1>8. EconomyMoved(eco, eco', att[a].ph, a)
  <2>1. a \in Both(eco) => p.active = 0 /\ p.ws = 0 /\ p.det = 0
    BY <1>2 DEF Sound, QueuedFree
  <2> QED BY <1>1, <1>5, <1>6, <2>1 DEF EconomyMoved, Ported, SamePort
<1>9. Sound(eco', att, req, now)
  BY <1>1, <1>2, <1>7, <1>8, WorkerSound
<1> QED BY <1>1, <1>9

\* A worker with a reason for detachment is in no queue.
LEMMA DetachedOut ==
  ASSUME NEW e, NEW A, NEW R, NEW b, Sound(e, A, R, b), NEW a \in Atts, e.port[a].det # 0
  PROVE  a \notin Both(e)
BY DEF Sound, QueuedFree

LEMMA DetachedStartSound ==
  ASSUME IdleInv, NEW a \in Atts, DetachedStart(a)
  PROVE  Sound(eco', att', req', now')
<1> DEFINE p == eco.port[a]
           ap == p.app + 1
           e == Detached(eco, a, ap, p.router)
<1>1. /\ conf # "freed" /\ UNCHANGED <<req, now>> /\ att[a].ph \in Serving
      /\ eco' = IF p.det = 0 THEN PortBusy(e, a) ELSE e
      /\ \E start, d : StartIf(start, att, pending, d, "main")
  BY DEF DetachedStart, MainFree, Running, Registered, Serving
<1>2. Sound(eco, att, req, now) /\ QueuesSound(eco) /\ att \in [Atts -> AttSet]
  BY <1>1, IdleParts DEF Sound
<1>3. p \in PortSet /\ p.router \in Nat /\ ap \in Nat
  BY <1>2, SoundTypes
<1> HIDE DEF ap
<1>4. DetachedTo(eco, e, a, ap, p.router)
  BY <1>2, <1>3, DetachedSound
<1> HIDE DEF e
<1>5. /\ QueuesSound(e) /\ Both(e) = Both(eco) /\ WorkerMoved(p, e.port[a])
      /\ \A x \in Atts : x # a => e.port[x] = eco.port[x]
  BY <1>4 DEF DetachedTo, Ported, WorkerMoved
<1>6. EconomyMoved(eco, eco', att[a].ph, a) /\ WorkerMoved(p, eco'.port[a])
  <2>1. CASE p.det = 0
    <3> DEFINE b == PortBusy(e, a)
    <3>1. QueuesSound(b) /\ Both(b) = Both(e) \ {a} /\ SameCounts(e, b)
      BY <1>5, BusySound
    <3> HIDE DEF b
    <3>2. eco' = b
      BY <1>1, <2>1 DEF b
    <3>3. \A x \in Atts : SamePort(e.port[x], b.port[x])
      BY <3>1 DEF SameCounts, SamePort
    <3>4. EconomyMoved(eco, b, att[a].ph, a)
      BY <1>5, <3>1, <3>3 DEF EconomyMoved
    <3>5. WorkerMoved(p, b.port[a])
      BY <1>5, <3>3 DEF WorkerMoved, SamePort
    <3> QED BY <3>2, <3>4, <3>5
  <2>2. CASE p.det # 0
    <3>1. eco' = e /\ a \notin Both(eco)
      BY <1>1, <1>2, <2>2, DetachedOut
    <3> QED BY <1>5, <3>1 DEF EconomyMoved, SamePort
  <2> QED BY <2>1, <2>2
<1>7. Sound(eco', att, req, now)
  BY <1>1, <1>2, <1>6, WorkerSound
<1>8. Sound(eco', att', req, now)
  BY <1>1, <1>2, <1>7, PostSound
<1> QED BY <1>1, <1>8

LEMMA DetachedFinishSound ==
  ASSUME IdleInv, NEW a \in Atts, DetachedFinish(a)
  PROVE  Sound(eco', att', req', now')
<1> DEFINE p == eco.port[a]
           ap == p.app - 1
           g == Detached(eco, a, ap, p.router)
<1>1. /\ conf # "freed" /\ UNCHANGED <<att, req, now>> /\ att[a].ph \in Serving
      /\ p.app > 0 /\ (eco' = g \/ eco' = PortIdle(g, a, Open(a)))
  BY DEF DetachedFinish, BackToIdle, MainFree, Running, Registered, Serving, starting
<1>2. Sound(eco, att, req, now) /\ QueuesSound(eco)
  BY <1>1, IdleParts DEF Sound
<1>3. p \in PortSet /\ p.router \in Nat /\ ap \in Nat /\ p.app \in Nat
  BY <1>1, <1>2, SoundTypes
<1>4. a \notin Both(eco)
  <2>1. PortAgree(p, att[a].ph, req, a)
    BY <1>2 DEF Sound
  <2>2. p.det # 0
    BY <1>1, <1>3, <2>1 DEF PortAgree
  <2> QED BY <1>2, <2>2, DetachedOut
<1> HIDE DEF ap
<1>5. DetachedTo(eco, g, a, ap, p.router)
  BY <1>2, <1>3, DetachedSound
<1> HIDE DEF g
<1>6. /\ Ported(eco, g, a) /\ WorkerMoved(p, g.port[a])
  BY <1>5 DEF DetachedTo, WorkerMoved
<1>7. HandedBack(g, eco', a)
  BY <1>1 DEF HandedBack, PortIdle, ReallyIdle
<1>8. MayJoin(g, eco', a)
  BY <1>6, <1>7, HandedBackSound DEF Ported
<1>9. \A x \in Atts : SamePort(g.port[x], eco'.port[x])
  BY <1>8 DEF MayJoin, SameCounts, SamePort
<1>10. WorkerMoved(p, eco'.port[a])
  BY <1>6, <1>9 DEF WorkerMoved, SamePort
<1>11. EconomyMoved(eco, eco', att[a].ph, a)
  <2>1. \A x \in Atts : x # a => SamePort(eco.port[x], eco'.port[x])
    BY <1>6, <1>9 DEF Ported
  <2>2. Both(eco') \subseteq Both(eco) \cup {a} /\ QueuesSound(eco')
    BY <1>6, <1>8 DEF Ported, MayJoin
  <2>3. a \in Both(eco') => /\ eco'.port[a].active = 0 /\ eco'.port[a].ws = 0
                            /\ eco'.port[a].det = 0
    BY <1>4, <1>6, <1>8, <1>9 DEF Ported, MayJoin, SamePort
  <2> QED BY <1>1, <2>1, <2>2, <2>3 DEF EconomyMoved
<1>12. Sound(eco', att, req, now)
  BY <1>1, <1>2, <1>10, <1>11, WorkerSound
<1> QED BY <1>1, <1>12

LEMMA ContextCloseSound ==
  ASSUME IdleInv, NEW a \in Atts, ContextClose(a)
  PROVE  Sound(eco', att', req', now')
<1> DEFINE p == eco.port[a]
           q == [p EXCEPT !.ctx = @ - 1]
<1>1. /\ conf # "freed" /\ UNCHANGED <<att, req>> /\ a \in now /\ att[a].ph \in Gone
      /\ eco' = WithPort(eco, a, q) /\ now' = IF p.ctx = 1 THEN {} ELSE now
  BY DEF ContextClose, Running, Gone
<1>2. /\ Sound(eco, att, req, now) /\ QueuesSound(eco) /\ req \in [Reqs -> ReqSet]
      /\ \A r \in Reqs : LinkSound(att, req[r])
  BY <1>1, IdleParts DEF Sound
<1>3. /\ p \in PortSet /\ PortAgree(p, att[a].ph, req, a)
      /\ \A x \in Atts : PortCleared(eco.port[x], att[x].ph, x, now)
  BY <1>2, SoundTypes DEF Sound
<1>4. p.ctx \in 0..Contexts /\ now = {a} /\ p.ctx > 0
  BY <1>1, <1>3, PortTypes DEF PortCleared
<1>5. /\ q \in PortSet /\ q.start = p.start /\ q.active = p.active /\ q.ws = p.ws
      /\ q.det = p.det /\ q.app = p.app /\ q.router = p.router /\ q.ctx = p.ctx - 1
  <2> DEFINE c == p.ctx - 1
  <2>1. c \in 0..Contexts
    BY <1>4, LimitsAssumption
  <2>2. q = [p EXCEPT !.ctx = c]
    OBVIOUS
  <2> HIDE DEF c
  <2>3. /\ [p EXCEPT !.ctx = c] \in PortSet
        /\ [p EXCEPT !.ctx = c].start = p.start /\ [p EXCEPT !.ctx = c].active = p.active
        /\ [p EXCEPT !.ctx = c].ws = p.ws /\ [p EXCEPT !.ctx = c].det = p.det
        /\ [p EXCEPT !.ctx = c].app = p.app /\ [p EXCEPT !.ctx = c].router = p.router
        /\ [p EXCEPT !.ctx = c].ctx = c
    BY <1>3, <2>1 DEF PortSet
  <2> QED BY <2>2, <2>3 DEF c
<1> HIDE DEF q
<1>6. Ported(eco, eco', a) /\ eco'.port[a] = q
  BY <1>1, <1>2, <1>5, WithPortSound
<1>7. PortAgree(eco'.port[a], att[a].ph, req, a)
  BY <1>3, <1>5, <1>6 DEF PortAgree
<1>8. a \notin Both(eco')
  BY <1>1, <1>2, <1>6 DEF Sound, QueuedFree, Ported, Serving, Gone
<1>9. \A x \in Atts : PortCleared(eco'.port[x], att[x].ph, x, now')
  <2>1. PortCleared(q, att[a].ph, a, now')
    BY <1>1, <1>3, <1>4, <1>5 DEF PortCleared
  <2>2. ASSUME NEW x \in Atts, x # a PROVE PortCleared(eco'.port[x], att[x].ph, x, now')
    <3>1. eco'.port[x] = eco.port[x] /\ x \notin now /\ x \notin now'
      BY <1>1, <1>4, <1>6, <2>2 DEF Ported
    <3> QED BY <1>3, <3>1 DEF PortCleared
  <2> QED BY <1>6, <2>1, <2>2
<1>10. Both(eco') \subseteq Both(eco) /\ QueuesSound(eco')
       /\ \A x \in Atts : x # a => SamePort(eco.port[x], eco'.port[x])
  BY <1>6 DEF Ported, SamePort
<1>11. Sound(eco', att, req, now')
  BY <1>2, <1>7, <1>8, <1>9, <1>10, OnePortSound
<1> QED BY <1>1, <1>11

LEMMA WorkerReadySound ==
  ASSUME IdleInv, NEW a \in Atts, WorkerReady(a)
  PROVE  Sound(eco', att', req', now')
<1>1. /\ conf # "freed" /\ now = {} /\ now' = now /\ att[a].ph \in {"sent", "lateW"}
  BY DEF WorkerReady, MainFree, Running
<1>2. /\ Sound(eco, att, req, now) /\ QueuesSound(eco) /\ req \in [Reqs -> ReqSet]
      /\ att \in [Atts -> AttSet] /\ \A r \in Reqs : LinkSound(att, req[r])
      /\ \A x \in Atts : PortCleared(eco.port[x], att[x].ph, x, now)
  BY <1>1, IdleParts DEF Sound
<1>3. CASE att[a].gen # gen
  <2> DEFINE A == [att EXCEPT ![a].ph = "quit"]
  <2>1. /\ UNCHANGED <<eco, req>>
        /\ \/ att' = A
           \/ \E x \in Atts : Unused(x) /\ att' = [A EXCEPT ![x] = Posted]
    BY <1>3 DEF WorkerReady, StartIf
  <2>2. /\ A \in [Atts -> AttSet]
        /\ \A x \in Atts : A[x].ph = IF x = a THEN "quit" ELSE att[x].ph
    <3>1. A = [att EXCEPT ![a] = [att[a] EXCEPT !.ph = "quit"]]
      BY <1>2
    <3>2. /\ [att[a] EXCEPT !.ph = "quit"] \in AttSet
          /\ [att[a] EXCEPT !.ph = "quit"].ph = "quit"
      <4>1. att[a] \in AttSet /\ "quit" \in Phases
        BY <1>2 DEF Phases
      <4> QED BY <4>1, Records
    <3> QED BY <1>2, <3>1, <3>2
  <2> HIDE DEF A
  <2>3. Moves(att, att', req)
    <3>1. CASE att' = A
      BY <1>1, <2>2, <3>1 DEF Moves, Serving, Starting, Late
    <3>2. ASSUME NEW x \in Atts, Unused(x), att' = [A EXCEPT ![x] = Posted]
          PROVE  Moves(att, att', req)
      <4>1. att[x].ph = "none" /\ \A r \in Reqs : req[r].w # x \/ req[r].st = "done"
        BY <3>2 DEF Unused
      <4>2. \A y \in Atts : att'[y].ph = IF y = x THEN "posted" ELSE A[y].ph
        BY <2>2, <3>2, Records
      <4> QED BY <1>1, <2>2, <4>1, <4>2 DEF Moves, Serving, Starting, Late
    <3> QED BY <2>1, <3>1, <3>2
  <2>4. BusyMoves(att, att', now, now')
    BY <1>1 DEF BusyMoves
  <2> QED BY <1>1, <1>2, <2>1, <2>3, <2>4, QuietSound, SameLinksSelf
<1>4. CASE att[a].gen = gen
  <2> DEFINE g == WithPort(eco, a, NewPort)
  <2>1. /\ att' = [att EXCEPT ![a].ph = "up"] /\ eco' = PortIdle(g, a, TRUE)
        /\ req' = [r \in Reqs |->
                     IF r \in Members(reqq) THEN [req[r] EXCEPT !.job = "resend"]
                                            ELSE req[r]]
    BY <1>4 DEF WorkerReady, BackToIdle
  <2>2. \A x \in Atts : att'[x].ph = IF x = a THEN "up" ELSE att[x].ph
    BY <1>2, <2>1 DEF AttSet
  <2>3. /\ NewPort \in PortSet /\ NewPort.active = 0 /\ NewPort.ws = 0
        /\ NewPort.det = 0 /\ NewPort.app = 0 /\ NewPort.router = 0 /\ NewPort.ctx = 0
    BY PortFields, LimitsAssumption DEF NewPort
  <2>4. a \notin Both(eco)
    BY <1>1, <1>2 DEF Sound, QueuedFree, Serving
  <2>5. Ported(eco, g, a) /\ g.port[a] = NewPort
    <3>1. QueuesSound(g) /\ Both(g) = Both(eco) /\ g.port = [eco.port EXCEPT ![a] = NewPort]
      BY <1>2, <2>3, <2>4, PortSound
    <3> QED BY <1>2, <3>1, SoundTypes DEF Ported
  <2> HIDE DEF g
  <2>6. MayJoin(g, eco', a)
    BY <2>1, <2>5, IdleSound DEF Ported
  <2>7. \A x \in Atts : SamePort(g.port[x], eco'.port[x])
    BY <2>6 DEF MayJoin, SameCounts, SamePort
  <2>8. \A x \in Atts : x # a => SamePort(eco.port[x], eco'.port[x])
                                 /\ att'[x].ph = att[x].ph
    BY <2>2, <2>5, <2>7 DEF Ported
  <2>9. SamePort(NewPort, eco'.port[a]) /\ att'[a].ph = "up"
    BY <2>2, <2>5, <2>7
  <2>10. Both(eco') \subseteq Both(eco) \cup {a} /\ QueuesSound(eco')
    BY <2>5, <2>6 DEF Ported, MayJoin
  <2>11. /\ att'[a].ph \in Serving /\ eco'.port[a].active = 0 /\ eco'.port[a].ws = 0
         /\ eco'.port[a].det = 0
    BY <2>3, <2>9 DEF Serving, SamePort
  <2>12. \A r \in Reqs : req[r].w # a \/ req[r].st = "done"
    BY <1>1, <1>2 DEF LinkSound, Starting, Late
  <2>13. \A st \in Held : Cardinality(On(req, st, a)) = 0
    BY <2>12, OnUnused
  <2>14. PortAgree(eco'.port[a], att'[a].ph, req, a)
    BY <2>3, <2>9, <2>13 DEF PortAgree, SamePort, Held
  <2>15. \A x \in Atts : PortCleared(eco'.port[x], att'[x].ph, x, now)
    <3>1. PortCleared(eco'.port[a], att'[a].ph, a, now)
      BY <1>1, <2>11 DEF PortCleared
    <3>2. ASSUME NEW x \in Atts, x # a PROVE PortCleared(eco'.port[x], att'[x].ph, x, now)
      BY <1>2, <2>8, <3>2 DEF PortCleared, SamePort
    <3> QED BY <3>1, <3>2
  <2>16. ASSUME NEW r \in Reqs PROVE LinkSound(att', req[r])
    <3>1. LinkSound(att, req[r]) /\ (req[r].w # a \/ req[r].st = "done")
      BY <1>2, <2>12
    <3>2. CASE req[r].st = "done"
      BY <3>1, <3>2 DEF LinkSound, Held
    <3>3. CASE req[r].w # a
      <4>1. req[r].w \in Atts => att'[req[r].w].ph = att[req[r].w].ph
        BY <2>8, <3>3
      <4> QED BY <3>1, <4>1 DEF LinkSound
    <3> QED BY <3>1, <3>2, <3>3
  <2>17. Sound(eco', att', req, now)
    BY <1>2, <2>8, <2>10, <2>11, <2>14, <2>15, <2>16, OnePortSound
  <2>18. req' \in [Reqs -> ReqSet] /\ SameLinks(req, req')
    BY <1>2, <2>1, JobsTyped
  <2> QED BY <1>1, <2>17, <2>18, SameLinksSound
<1> QED BY <1>3, <1>4

\* The main port of a worker leaves the application.
LEMMA PortGoneSound ==
  ASSUME NEW e, NEW A, NEW R, Sound(e, A, R, {}), NEW a \in Atts, A[a].ph \in Serving,
         NEW B, B[a].ph \in Gone, \A x \in Atts : x # a => B[x].ph = A[x].ph,
         NEW f, f = Detached(PortBusy(e, a), a, 0, 0)
  PROVE  Sound(f, B, R, IF e.port[a].ctx > 0 THEN {a} ELSE {})
<1> DEFINE b == PortBusy(e, a)
           c == IF e.port[a].ctx > 0 THEN {a} ELSE {}
<1>1. /\ QueuesSound(e) /\ R \in [Reqs -> ReqSet] /\ \A r \in Reqs : LinkSound(A, R[r])
      /\ \A x \in Atts : PortAgree(e.port[x], A[x].ph, R, x)
      /\ \A x \in Atts : PortCleared(e.port[x], A[x].ph, x, {})
  BY DEF Sound
<1>2. QueuesSound(b) /\ Both(b) = Both(e) \ {a} /\ SameCounts(e, b)
  BY <1>1, BusySound
<1> HIDE DEF b
<1>3. DetachedTo(b, f, a, 0, 0)
  BY <1>2, DetachedSound DEF b
<1>4. \A x \in Atts : SamePort(e.port[x], b.port[x])
  BY <1>2 DEF SameCounts, SamePort
<1>5. Ported(b, f, a)
  BY <1>3 DEF DetachedTo
<1>6. /\ \A x \in Atts : x # a => SamePort(e.port[x], f.port[x])
      /\ QueuesSound(f) /\ Both(f) = Both(e) \ {a}
  BY <1>2, <1>4, <1>5 DEF Ported
<1>7. /\ f.port[a].active = e.port[a].active /\ f.port[a].ws = e.port[a].ws
      /\ f.port[a].app = 0 /\ f.port[a].router = 0 /\ f.port[a].det = 0
      /\ f.port[a].ctx = e.port[a].ctx
  BY <1>3, <1>4 DEF DetachedTo, SamePort
<1>8. PortAgree(f.port[a], B[a].ph, R, a)
  <2>1. Cardinality(On(R, "abandoned", a)) \in Nat
    BY OnFinite
  <2>2. B[a].ph \notin Serving
    BY DEF Gone, Serving
  <2> QED BY <1>1, <1>7, <2>1, <2>2 DEF PortAgree
<1>9. \A x \in Atts : PortCleared(f.port[x], B[x].ph, x, c)
  <2>1. PortCleared(f.port[a], B[a].ph, a, c)
    BY <1>7 DEF PortCleared
  <2>2. ASSUME NEW x \in Atts, x # a PROVE PortCleared(f.port[x], B[x].ph, x, c)
    BY <1>1, <1>6, <2>2 DEF PortCleared, SamePort
  <2> QED BY <2>1, <2>2
<1>10. ASSUME NEW r \in Reqs PROVE LinkSound(B, R[r])
  <2>1. LinkSound(A, R[r])
    BY <1>1
  <2>2. CASE R[r].w = a
    BY <2>1, <2>2 DEF LinkSound, Gone, Starting, Late
  <2>3. CASE R[r].w # a
    <3>1. R[r].w \in Atts => B[R[r].w].ph = A[R[r].w].ph
      BY <2>3
    <3>2. R[r].st \in Held => R[r].wk = "acked" /\ R[r].w \in Atts
      BY <2>1 DEF LinkSound
    <3> QED BY <2>1, <3>1, <3>2 DEF LinkSound
  <2> QED BY <2>2, <2>3
<1> HIDE DEF c
<1>11. Sound(f, B, R, c)
  BY <1>1, <1>6, <1>8, <1>9, <1>10, OnePortSound
<1> QED BY <1>11 DEF c

LEMMA PortCloseSound ==
  ASSUME IdleInv, NEW a \in Atts, PortClose(a)
  PROVE  Sound(eco', att', req', now')
<1> DEFINE x == IF att[a].ph = "orphan" THEN [att[a] EXCEPT !.ph = "stray"] ELSE NoAtt
           A == [att EXCEPT ![a] = x]
           H == Att("held", None, 0, "none")
<1>1. /\ conf # "freed" /\ now = {} /\ att[a].ph \in {"dying", "orphan"}
      /\ eco' = Detached(PortBusy(eco, a), a, 0, 0)
      /\ now' = IF eco.port[a].ctx > 0 THEN {a} ELSE {}
      /\ \/ req' = req
         \/ req' = [r \in Reqs |->
                      IF r \in Members(ackq) THEN [req[r] EXCEPT !.job = "requeue"]
                                             ELSE req[r]]
      /\ \/ att' = A
         \/ \E b \in Atts : Unused(b) /\ att' = [A EXCEPT ![b] = Posted]
         \/ \E b \in Atts : Unused(b) /\ att' = [A EXCEPT ![b] = H]
  BY DEF PortClose, MainFree, Running, StartIf
<1>2. /\ Sound(eco, att, req, {}) /\ req \in [Reqs -> ReqSet] /\ att \in [Atts -> AttSet]
  BY <1>1, IdleParts
<1>3. x.ph \in Gone
  <2>1. "stray" \in Phases /\ att[a] \in AttSet
    BY <1>2 DEF Phases
  <2> QED BY <2>1, Records DEF Gone
<1> HIDE DEF x
<1>4. /\ A[a].ph \in Gone /\ \A b \in Atts : b # a => A[b] = att[b]
      /\ DOMAIN A = Atts
  BY <1>2, <1>3
<1> HIDE DEF A
<1>5. att[a].ph \in Serving
  BY <1>1 DEF Serving
<1>6. Sound(eco', A, req, now')
  BY <1>1, <1>2, <1>4, <1>5, PortGoneSound
<1>7. Sound(eco', att', req, now')
  <2>1. ASSUME NEW b \in Atts, Unused(b), NEW y, att' = [A EXCEPT ![b] = y],
               y.ph \in Starting
        PROVE  Sound(eco', att', req, now')
    <3>1. /\ att[b].ph = "none" /\ b # a
          /\ \A r \in Reqs : req[r].w # b \/ req[r].st = "done"
      BY <1>1, <2>1 DEF Unused
    <3>2. att'[b] = y /\ \A d \in Atts : d # b => att'[d] = A[d]
      BY <1>4, <2>1
    <3>3. A[b].ph = "none"
      BY <1>4, <3>1
    <3>4. Moves(A, att', req)
      BY <2>1, <3>1, <3>2, <3>3 DEF Moves, Serving, Starting, Late
    <3>5. \A d \in Atts : d \in now' => d # b
      BY <1>1, <3>1
    <3>6. BusyMoves(A, att', now', now')
      BY <3>2, <3>5 DEF BusyMoves
    <3> QED BY <1>6, <3>4, <3>6, AttemptsSound
  <2>2. H.ph \in Starting /\ Posted.ph \in Starting
    BY Records DEF Att, Starting
  <2> HIDE DEF H
  <2> QED BY <1>1, <1>6, <2>1, <2>2
<1>8. req' \in [Reqs -> ReqSet] /\ SameLinks(req, req')
  BY <1>1, <1>2, JobsTyped, SameLinksSelf
<1> QED BY <1>7, <1>8, SameLinksSound

\* The first of idle_ports is due: it is registered, nothing is behind it and
\* it has no context port.
LEMMA ReapSound ==
  ASSUME IdleInv, Narrow, AdjustReap
  PROVE  /\ Head(eco.idle) \in Atts /\ Registered(Head(eco.idle))
         /\ Sound(eco', att', req', now')
<1> DEFINE a == Head(eco.idle)
           f == Out(eco, a)
<1>1. /\ conf # "freed" /\ now \cap Adjusting # {} /\ eco.n > Spare /\ "idle" \in Events
      /\ eco' = f /\ att' = [att EXCEPT ![a].ph = "quit"] /\ UNCHANGED <<req, now>>
  BY DEF AdjustReap, Running, Adjusting
<1>2. /\ Sound(eco, att, req, now) /\ QueuesSound(eco) /\ req \in [Reqs -> ReqSet]
      /\ att \in [Atts -> AttSet] /\ QueuedFree(eco, att)
      /\ \A r \in Reqs : LinkSound(att, req[r])
      /\ \A x \in Atts : PortAgree(eco.port[x], att[x].ph, req, x)
      /\ \A x \in Atts : PortCleared(eco.port[x], att[x].ph, x, now)
  BY <1>1, IdleParts DEF Sound
<1>3. a \in Members(eco.idle) /\ a \in Atts
  <2>1. eco.idle \in Seq(Atts) /\ eco.spare \in Seq(Atts) /\ eco.n \in Int
    BY <1>2, EcoTypes DEF QueuesSound
  <2>2. Len(eco.idle) \in Nat /\ Len(eco.spare) \in Nat
        /\ eco.n = Len(eco.spare) + Len(eco.idle) /\ Len(eco.spare) <= Spare
    BY <1>2, <2>1 DEF QueuesSound
  <2> DEFINE i == Len(eco.idle)
             k == Len(eco.spare)
             n == eco.n
  <2>3. i > 0
    <3>1. i \in Nat /\ k \in Nat /\ n \in Int /\ n = k + i /\ k <= Spare /\ n > Spare
      BY <1>1, <2>1, <2>2
    <3> HIDE DEF i, k, n
    <3> QED BY <3>1, LimitsAssumption
  <2>4. a = eco.idle[1] /\ 1 \in 1..Len(eco.idle) /\ eco.idle[1] \in Atts
    BY <2>1, <2>2, <2>3
  <2> QED BY <2>4 DEF Members
<1>4. /\ att[a].ph \in Serving /\ eco.port[a].active = 0 /\ eco.port[a].ws = 0
      /\ eco.port[a].det = 0 /\ a \in Both(eco)
  BY <1>2, <1>3 DEF QueuedFree, Both
<1> HIDE DEF a
<1>5. QueuesSound(f) /\ Both(f) = Both(eco) \ {a} /\ f.port = eco.port
  BY <1>2, <1>3, OutSound
<1> HIDE DEF f
<1>6. \A x \in Atts : att'[x].ph = IF x = a THEN "quit" ELSE att[x].ph
  BY <1>1, <1>2, <1>3 DEF AttSet
<1>7. PortAgree(f.port[a], att'[a].ph, req, a)
  BY <1>2, <1>3, <1>5, <1>6 DEF PortAgree, Serving
<1>8. a \notin now
  <2>1. Adjusting \cap Atts = {}
    BY NamesAssumption DEF Adjusting
  <2>2. now \subseteq Adjusting \/ now \subseteq Atts
    BY <1>1, IdleParts
  <2> QED BY <1>1, <1>3, <2>1, <2>2
<1>9. \A x \in Atts : PortCleared(f.port[x], att'[x].ph, x, now)
  <2>1. eco.port[a].app = 0 /\ eco.port[a].ctx = 0
    <3>1. eco.port[a] \in PortSet /\ PortAgree(eco.port[a], att[a].ph, req, a)
      BY <1>2, <1>3, SoundTypes
    <3>2. eco.port[a].app \in Nat /\ eco.port[a].router \in Nat
          /\ eco.port[a].ctx \in 0..Contexts
      BY <3>1, PortTypes
    <3>3. eco.port[a].app = 0
      BY <1>4, <3>1, <3>2 DEF PortAgree
    <3>4. Contexts = 0
      BY <1>1 DEF Narrow
    <3> QED BY <3>2, <3>3, <3>4
  <2>2. PortCleared(f.port[a], att'[a].ph, a, now)
    BY <1>5, <1>8, <2>1 DEF PortCleared
  <2>3. ASSUME NEW x \in Atts, x # a PROVE PortCleared(f.port[x], att'[x].ph, x, now)
    BY <1>2, <1>5, <1>6, <2>3
  <2> QED BY <2>2, <2>3
<1>10. ASSUME NEW r \in Reqs PROVE LinkSound(att', req[r])
  <2>1. LinkSound(att, req[r])
    BY <1>2
  <2>2. req[r].st \in Held => req[r].w # a /\ req[r].w \in Atts
    BY <1>2, <1>4, Behind
  <2>3. req[r].w \in Atts => att'[req[r].w].ph = IF req[r].w = a THEN "quit"
                                                 ELSE att[req[r].w].ph
    BY <1>6
  <2> QED BY <2>1, <2>2, <2>3 DEF LinkSound, Starting, Late
<1>11. \A x \in Atts : x # a => SamePort(eco.port[x], f.port[x]) /\ att'[x].ph = att[x].ph
  BY <1>5, <1>6 DEF SamePort
<1>12. Both(f) \subseteq Both(eco) \cup {a} /\ a \notin Both(f)
  BY <1>5
<1>13. Sound(f, att', req, now)
  BY <1>2, <1>3, <1>5, <1>7, <1>9, <1>10, <1>11, <1>12, OnePortSound
<1>14. Registered(a)
  BY <1>4 DEF Registered, Serving
<1> QED BY <1>1, <1>3, <1>13, <1>14 DEF a

\* A queue without repetitions is as long as it has members.
LEMMA MembersCounted ==
  ASSUME NEW S, NEW s \in Seq(S), Distinct(s)
  PROVE  IsFiniteSet(Members(s)) /\ Cardinality(Members(s)) = Len(s)
<1> DEFINE I == 1..Len(s)
<1>1. Len(s) \in Nat /\ s \in [I -> Members(s)]
  BY DEF Members
<1>2. \A t \in Members(s) : \E i \in I : s[i] = t
  BY DEF Members
<1>3. s \in Bijection(I, Members(s))
  BY <1>1, <1>2 DEF Bijection, Injection, Surjection, IsInjective, Distinct
<1>4. ExistsBijection(I, Members(s))
  BY <1>3 DEF ExistsBijection
<1>5. IsFiniteSet(Members(s))
  BY <1>1, <1>4, FS_NatBijection
<1> QED BY <1>1, <1>4, <1>5, FS_CountingElements

LEMMA QueuesCounted ==
  ASSUME NEW e, QueuesSound(e)
  PROVE  Cardinality(Both(e)) = e.n /\ IsFiniteSet(Both(e))
<1> DEFINE X == Members(e.spare)
           Y == Members(e.idle)
<1>1. e.spare \in Seq(Atts) /\ e.idle \in Seq(Atts) /\ e.n \in Int
  BY EcoTypes DEF QueuesSound
<1>2. /\ IsFiniteSet(X) /\ Cardinality(X) = Len(e.spare)
      /\ IsFiniteSet(Y) /\ Cardinality(Y) = Len(e.idle)
  BY <1>1, MembersCounted DEF QueuesSound
<1>3. X \cap Y = {} /\ Len(e.spare) \in Nat /\ Len(e.idle) \in Nat
  BY <1>1 DEF QueuesSound
<1> HIDE DEF X, Y
<1>4. IsFiniteSet(X \cup Y) /\ Cardinality(X \cup Y)
                              = Cardinality(X) + Cardinality(Y) - Cardinality(X \cap Y)
  BY <1>2, FS_Union
<1>5. Cardinality(X \cup Y) = Len(e.spare) + Len(e.idle)
  <2> DEFINE i == Len(e.spare)
             j == Len(e.idle)
  <2>1. i \in Nat /\ j \in Nat /\ Cardinality(X \cap Y) = 0
    BY <1>3, NoneLeft
  <2>2. Cardinality(X) = i /\ Cardinality(Y) = j
    BY <1>2
  <2> HIDE DEF i, j
  <2>3. Cardinality(X \cup Y) = i + j
    BY <1>4, <2>1, <2>2
  <2> QED BY <2>3 DEF i, j
<1> QED BY <1>4, <1>5 DEF QueuesSound, Both, X, Y

LEMMA PurgedAll ==
  ASSUME NEW s \in Seq(Atts), NEW S, Members(s) \subseteq S
  PROVE  Purged(s, S) = <<>>
<1>1. {i \in 1..Len(s) : s[i] \notin S} = {}
  BY DEF Members
<1> DEFINE kept == {i \in 1..Len(s) : s[i] \notin S}
<1>2. Cardinality(kept) = 0
  BY <1>1, NoneLeft
<1>3. 1..0 = {}
  OBVIOUS
<1>4. Purged(s, S) = [j \in 1..Cardinality(kept) |->
         s[CHOOSE i \in kept : Cardinality({k \in kept : k <= i}) = j]]
  BY DEF Purged
<1> HIDE DEF kept
<1> QED BY <1>2, <1>3, <1>4

\* nxt_router_free_app() leaves the queues empty.
LEMMA FreeSound ==
  ASSUME IdleInv, FreeApp
  PROVE  /\ QueuesSound(eco') /\ QueuedFree(eco', att')
         /\ eco'.spare = <<>> /\ eco'.idle = <<>> /\ eco'.n = 0 /\ eco'.det = eco.det
<1> DEFINE all == {a \in Atts : Registered(a)}
           p == [a \in Atts |-> [eco.port[a] EXCEPT !.ctx = 0]]
           k == {a \in all : Queued(eco, a)}
<1>1. eco' = Eco(Purged(eco.spare, all), Purged(eco.idle, all), eco.n - Cardinality(k),
                 eco.det, p)
  BY DEF FreeApp
<1>2. QueuesSound(eco) /\ QueuedFree(eco, att)
  BY DEF IdleInv
<1>3. /\ eco.spare \in Seq(Atts) /\ eco.idle \in Seq(Atts) /\ eco.n \in Int
      /\ eco.det \in Int /\ eco.port \in [Atts -> PortSet]
  BY <1>2, EcoTypes DEF QueuesSound
<1>4. Both(eco) \subseteq all
  <2>1. Both(eco) \subseteq Atts
    BY <1>3 DEF Both, Members
  <2> QED BY <1>2, <2>1 DEF QueuedFree, Registered, Serving
<1>5. k = Both(eco)
  BY <1>4 DEF Queued, Both
<1>6. eco.n - Cardinality(k) = 0
  <2> DEFINE n == eco.n
  <2>1. Cardinality(k) = n /\ n \in Int
    BY <1>2, <1>3, <1>5, QueuesCounted
  <2> HIDE DEF n, k
  <2>2. n - Cardinality(k) = 0
    BY <2>1
  <2> QED BY <2>2 DEF n
<1>7. p \in [Atts -> PortSet]
  <2>1. ASSUME NEW x \in PortSet PROVE [x EXCEPT !.ctx = 0] \in PortSet
    BY LimitsAssumption DEF PortSet
  <2> QED BY <1>3, <2>1
<1>8. Purged(eco.spare, all) = <<>> /\ Purged(eco.idle, all) = <<>>
  BY <1>3, <1>4, PurgedAll DEF Both
<1> HIDE DEF p, k, all
<1>9. eco' = Eco(<<>>, <<>>, 0, eco.det, p)
  BY <1>1, <1>6, <1>8
<1>10. <<>> \in Seq(Atts) /\ Len(<<>>) = 0 /\ Members(<<>>) = {} /\ Distinct(<<>>)
  BY DEF Members, Distinct
<1>11. /\ eco' \in EcoSet /\ eco'.spare = <<>> /\ eco'.idle = <<>> /\ eco'.n = 0
       /\ eco'.det = eco.det
  BY <1>3, <1>7, <1>9, <1>10 DEF Eco, EcoSet
<1>12. QueuesSound(eco')
  BY <1>10, <1>11, LimitsAssumption DEF QueuesSound
<1>13. QueuedFree(eco', att')
  BY <1>10, <1>11 DEF QueuedFree, Both
<1> QED BY <1>11, <1>12, <1>13

-----------------------------------------------------------------------------
(* The invariant.                                                          *)

LEMMA IdleInit == Init => IdleInv
<1> SUFFICES ASSUME Init PROVE IdleInv
  OBVIOUS
<1>1. SlotInv /\ WatchInv
  BY SlotsInit, WatchInit
<1>2. PICK up \in SUBSET Atts, q \in Protos :
        /\ att = [a \in Atts |-> IF a \in up THEN Att("up", q, 0, "none") ELSE NoAtt]
        /\ \E s \in [1..Spare -> up] :
             /\ \A i, j \in 1..Spare : s[i] = s[j] => i = j
             /\ eco = Eco(s, <<>>, Spare, 0, [a \in Atts |-> NewPort])
  BY ZenonT(60) DEF Init
<1>3. PICK s \in [1..Spare -> up] :
             /\ \A i, j \in 1..Spare : s[i] = s[j] => i = j
             /\ eco = Eco(s, <<>>, Spare, 0, [a \in Atts |-> NewPort])
  BY <1>2
<1>4. req = [r \in Reqs |-> NewReq] /\ now = {}
  BY DEF Init
<1>5. \A a \in Atts : att[a].ph = IF a \in up THEN "up" ELSE "none"
  BY <1>2 DEF Att, NoAtt
<1>6. /\ NewPort \in PortSet /\ NewPort.active = 0 /\ NewPort.ws = 0
      /\ NewPort.det = 0 /\ NewPort.app = 0 /\ NewPort.router = 0 /\ NewPort.ctx = 0
  BY PortFields, LimitsAssumption DEF NewPort
<1>7. /\ NewReq \in ReqSet /\ NewReq.st = "new" /\ NewReq.w = None
      /\ NewReq.wk = "none"
  BY LimitsAssumption DEF NewReq, Req, ReqSet
<1>8. /\ s \in Seq(Atts) /\ Len(s) = Spare /\ Members(s) \subseteq up /\ Distinct(s)
  <2>1. Spare \in Nat
    BY LimitsAssumption
  <2>2. s \in Seq(Atts) /\ Len(s) = Spare
    BY <2>1
  <2> QED BY <1>3, <2>2 DEF Members, Distinct
<1>9. /\ eco \in EcoSet /\ eco.spare = s /\ eco.idle = <<>> /\ eco.n = Spare
      /\ \A a \in Atts : eco.port[a] = NewPort
  BY <1>3, <1>6, <1>8, LimitsAssumption DEF Eco, EcoSet
<1>10. <<>> \in Seq(Atts) /\ Len(<<>>) = 0 /\ Members(<<>>) = {} /\ Distinct(<<>>)
  BY DEF Members, Distinct
<1>11. QueuesSound(eco)
  BY <1>8, <1>9, <1>10, LimitsAssumption DEF QueuesSound
<1>12. QueuedFree(eco, att)
  BY <1>5, <1>6, <1>8, <1>9, <1>10 DEF QueuedFree, Both, Serving
<1> HIDE DEF NewPort, NewReq
<1>13. req \in [Reqs -> ReqSet] /\ \A r \in Reqs : req[r] = NewReq
  BY <1>4, <1>7
<1>14. \A a \in Atts, st \in Held : Cardinality(On(req, st, a)) = 0
  <2>1. \A a \in Atts, st \in Held : On(req, st, a) = {}
    BY <1>7, <1>13 DEF On, Held
  <2> QED BY <2>1, NoneLeft
<1>15. \A a \in Atts : PortAgree(eco.port[a], att[a].ph, req, a)
  BY <1>6, <1>9, <1>14 DEF PortAgree, Held
<1>16. \A a \in Atts : PortCleared(eco.port[a], att[a].ph, a, now)
  BY <1>4, <1>6, <1>9 DEF PortCleared
<1>17. \A r \in Reqs : LinkSound(att, req[r])
  BY <1>7, <1>13, NamesAssumption DEF LinkSound, Held
<1>18. Sound(eco, att, req, now)
  BY <1>11, <1>12, <1>13, <1>15, <1>16, <1>17 DEF Sound
<1> QED BY <1>1, <1>11, <1>12, <1>18 DEF IdleInv

LEMMA SoundStep ==
  ASSUME IdleInv, Narrow, Next
  PROVE  Sound(eco', att', req', now') \/ FreeApp
<1> SUFFICES ASSUME ~FreeApp PROVE Sound(eco', att', req', now')
  OBVIOUS
<1>1. ASSUME NEW a \in Atts,
             \/ StartHandler(a) \/ StartTimeout(a) \/ StartExpired(a)
             \/ MessageLeaves(a) \/ ProtoReady(a) \/ WorkerReady(a)
             \/ StartDies(a) \/ StartLost(a) \/ WorkerExit(a) \/ PortClose(a)
             \/ ContextClose(a) \/ ContextReady(a)
             \/ DetachedStart(a) \/ DetachedFinish(a)
      PROVE  Sound(eco', att', req', now')
  <2>1. CASE StartHandler(a)      BY <2>1, StartHandlerSound
  <2>2. CASE StartTimeout(a)      BY <2>2, ExpirySound
  <2>3. CASE StartExpired(a)      BY <2>3, StartExpiredSound
  <2>4. CASE MessageLeaves(a)     BY <2>4, ExpirySound
  <2>5. CASE ProtoReady(a)        BY <2>5, ProtoReadySound
  <2>6. CASE WorkerReady(a)       BY <2>6, WorkerReadySound
  <2>7. CASE StartDies(a)         BY <2>7, StartEndsSound
  <2>8. CASE StartLost(a)         BY <2>8, StartEndsSound
  <2>9. CASE WorkerExit(a)        BY <2>9, DeathsSound
  <2>10. CASE PortClose(a)        BY <2>10, PortCloseSound
  <2>11. CASE ContextClose(a)     BY <2>11, ContextCloseSound
  <2>12. CASE ContextReady(a)     BY <2>12, ContextReadySound
  <2>13. CASE DetachedStart(a)    BY <2>13, DetachedStartSound
  <2>14. CASE DetachedFinish(a)   BY <2>14, DetachedFinishSound
  <2> QED BY <1>1, <2>1, <2>2, <2>3, <2>4, <2>5, <2>6, <2>7, <2>8, <2>9, <2>10,
             <2>11, <2>12, <2>13, <2>14
<1>2. ASSUME NEW q \in Protos, ProtoExit(q) \/ ProtoRemoved(q)
      PROVE  Sound(eco', att', req', now')
  BY <1>2, DeathsSound
<1>3. ASSUME NEW who \in Reqs \cup {"main"}, DrainStep(who)
      PROVE  Sound(eco', att', req', now')
  BY <1>3, CalmSound
<1>4. CASE AdjustReap
  BY <1>4, ReapSound
<1>5. CASE AdjustBegin \/ AdjustEnd \/ Restart \/ RemoveApp \/ ConfRelease
  BY <1>5, CalmSound
<1>6. ASSUME NEW r \in Reqs,
             \/ PortGet(r) \/ SendAck(r) \/ HeadersAck(r) \/ Response(r)
             \/ PeerGone(r) \/ Upgrade(r) \/ Close(r) \/ AckTimeout(r)
             \/ AppTimeout(r) \/ ErrHandler(r) \/ RequeueHandler(r)
             \/ Resend(r) \/ Fault(r)
             \/ \E w \in Atts, c \in 0..Contexts : Claim(r, w, c)
      PROVE  Sound(eco', att', req', now')
  <2>1. CASE PortGet(r)           BY <2>1, PortGetSound
  <2>2. CASE SendAck(r)           BY <2>2, ClaimSound
  <2>3. CASE HeadersAck(r)        BY <2>3, HeadersAckSound
  <2>4. CASE Response(r) \/ PeerGone(r) \/ Close(r) \/ AckTimeout(r) \/ ErrHandler(r)
    BY <2>4, AnswersSound
  <2>5. CASE Upgrade(r)           BY <2>5, UpgradeSound
  <2>6. CASE AppTimeout(r)        BY <2>6, AppTimeoutSound
  <2>7. CASE RequeueHandler(r)    BY <2>7, RequeueSound
  <2>8. CASE Resend(r)            BY <2>8, ResendSound
  <2>9. CASE Fault(r)             BY <2>9, CalmSound
  <2>10. CASE \E w \in Atts, c \in 0..Contexts : Claim(r, w, c)
    BY <2>10, ClaimSound
  <2> QED BY <1>6, <2>1, <2>2, <2>3, <2>4, <2>5, <2>6, <2>7, <2>8, <2>9, <2>10
<1> QED BY <1>1, <1>2, <1>3, <1>4, <1>5, <1>6 DEF Next

LEMMA IdleStep == Narrow /\ IdleInv /\ [Next]_vars => IdleInv'
<1> SUFFICES ASSUME Narrow, IdleInv, [Next]_vars PROVE IdleInv'
  OBVIOUS
<1>1. WatchInv'
  BY WatchStep DEF IdleInv
<1>2. SlotInv'
  <2>1. AdjustReap => Head(eco.idle) \in Atts /\ Registered(Head(eco.idle))
    BY ReapSound
  <2> QED BY <2>1, SlotStep DEF IdleInv
<1>3. /\ QueuesSound(eco') /\ QueuedFree(eco', att')
      /\ conf' # "freed" => Sound(eco', att', req', now')
  <2>1. CASE UNCHANGED vars
    <3>1. UNCHANGED <<eco, att, req, now, conf>>
      BY <2>1 DEF vars, starting, idling, life
    <3> QED BY <3>1 DEF IdleInv
  <2>2. CASE FreeApp
    <3>1. conf' = "freed"
      BY <2>2 DEF FreeApp
    <3> QED BY <2>2, <3>1, FreeSound
  <2>3. CASE Sound(eco', att', req', now')
    BY <2>3 DEF Sound
  <2> QED BY <2>1, <2>2, <2>3, SoundStep
<1>4. /\ QueuesSound(eco)' /\ QueuedFree(eco, att)'
      /\ (conf # "freed" => Sound(eco, att, req, now))'
  BY <1>3
<1> QED BY <1>1, <1>2, <1>4 DEF IdleInv

LEMMA IdleSafe == Narrow /\ Spec => []IdleInv
<1> SUFFICES ASSUME Narrow PROVE Spec => []IdleInv
  OBVIOUS
<1>1. Init => IdleInv
  BY IdleInit
<1>2. IdleInv /\ [Next]_vars => IdleInv'
  BY IdleStep
<1> QED BY <1>1, <1>2, PTL DEF Spec

\* What the counters of the idle economy say is so: idle_processes counts the
\* ports in the two queues, each is there once, no more than "spare" are spare,
\* and a queued worker is registered and has nothing to do, so that
\* nxt_router_adjust_idle_timer() tells no worker with work to quit.  For every
\* number of processes, requests and events, with one context per worker or
\* without the idle timer.
THEOREM QueuedWorkersIdle == Narrow /\ Spec => []IdleAgree
<1> SUFFICES ASSUME Narrow PROVE Spec => []IdleAgree
  OBVIOUS
<1>1. IdleInv => IdleAgree
  <2> SUFFICES ASSUME IdleInv PROVE IdleAgree
    OBVIOUS
  <2>1. QueuesSound(eco) /\ QueuedFree(eco, att)
    BY DEF IdleInv
  <2>2. Cardinality(Both(eco)) = eco.n
    BY <2>1, QueuesCounted
  <2>3. eco.n = Len(eco.spare) + Len(eco.idle) /\ Len(eco.spare) <= Spare
    BY <2>1 DEF QueuesSound
  <2> QED BY <2>1, <2>2, <2>3 DEF IdleAgree, Both, QueuedFree, Registered, Serving
<1>2. Spec => []IdleInv
  BY IdleSafe
<1> QED BY <1>1, <1>2, PTL

\* processes, pending_processes, unaccounted_processes and proto_port_requests
\* of nxt_app_t count what they say, under the same condition: every attempt
\* gives its slot back exactly once, whatever ends it.
THEOREM SlotsCountedAlways == Narrow /\ Spec => []SlotsAgree
<1> SUFFICES ASSUME Narrow PROVE Spec => []SlotsAgree
  OBVIOUS
<1>1. IdleInv => SlotsAgree
  BY DEF IdleInv, SlotInv
<1>2. Spec => []IdleInv
  BY IdleSafe
<1> QED BY <1>1, <1>2, PTL

-----------------------------------------------------------------------------
(* References.  use_count changes with the things that hold a reference:   *)
(* each is counted apart, so that a step has to account for the ones it    *)
(* moves only.                                                             *)

Holding == {"wait", "failing", "acked", "upgraded", "abandoned"}
Holders(R) == {r \in Reqs : R[r].st \in Holding}
Sweeps(R) == {r \in Reqs : R[r].job = "requeue"}

ConfN == IF conf = "live" THEN 2 ELSE IF conf = "unlinked" THEN 1 ELSE 0
HoldN == Cardinality(Holders(req))
SweepN == Cardinality(Sweeps(req))
PostN == Count(att, {"posted"})
AdjN == IF adj = "queued" THEN 1 ELSE 0
NowN == IF "queued" \in now THEN 1 ELSE 0

\* A request waits in one queue at most, and while it does nothing is posted
\* for it: so that no post for a request replaces another one.
Parked(R, aq, zq) ==
  /\ aq \in Seq(Reqs) /\ zq \in Seq(Reqs) /\ Distinct(aq) /\ Distinct(zq)
  /\ Members(aq) \cap Members(zq) = {}
  /\ \A r \in Members(aq) \cup Members(zq) : R[r].job = "none" /\ R[r].st # "new"
  /\ \A r \in Reqs : R[r].st = "new" => R[r].job = "none"

\* requeue_pending counts the posted handlers of a sweep, and while there is
\* one, one start is held for the last of them.
Swept(R, A, n) ==
  /\ n = Cardinality(Sweeps(R))
  /\ Count(A, {"held"}) = IF n > 0 THEN 1 ELSE 0

RefInv ==
  /\ use \in Int
  /\ conf # "freed" =>
       /\ Parked(req, ackq, reqq) /\ Swept(req, att, requeue)
       /\ use = ConfN + HoldN + PostN + AdjN + NowN + eco.det + SweepN

\* What a step takes and gives back.
Balanced ==
  use' - use = (ConfN' - ConfN) + (HoldN' - HoldN) + (PostN' - PostN)
               + (AdjN' - AdjN) + (NowN' - NowN) + (eco'.det - eco.det)
               + (SweepN' - SweepN)
Kept == use' \in Int /\ Balanced /\ Parked(req', ackq', reqq') /\ Swept(req', att', requeue')

LEMMA ReqsCounted ==
  ASSUME NEW S, S \subseteq Reqs
  PROVE  IsFiniteSet(S) /\ Cardinality(S) \in Nat
BY NamesAssumption, FS_Subset, FS_CardinalityType

LEMMA CountsTyped ==
  /\ ConfN \in Nat /\ HoldN \in Nat /\ SweepN \in Nat /\ PostN \in Nat
  /\ AdjN \in Nat /\ NowN \in Nat
  /\ ConfN' \in Nat /\ HoldN' \in Nat /\ SweepN' \in Nat /\ PostN' \in Nat
  /\ AdjN' \in Nat /\ NowN' \in Nat
<1>1. \A R : Holders(R) \subseteq Reqs /\ Sweeps(R) \subseteq Reqs
  BY DEF Holders, Sweeps
<1>2. HoldN \in Nat /\ SweepN \in Nat /\ HoldN' \in Nat /\ SweepN' \in Nat
  BY <1>1, ReqsCounted DEF HoldN, SweepN
<1>3. PostN \in Nat /\ PostN' \in Nat
  BY CountType DEF PostN
<1> QED BY <1>2, <1>3 DEF ConfN, AdjN, NowN

LEMMA KeptKeeps ==
  ASSUME RefInv, IdleInv, IdleInv', conf # "freed", Kept
  PROVE  RefInv'
<1>1. eco.det \in Int /\ eco'.det \in Int
  BY DEF IdleInv, QueuesSound, EcoSet
<1>2. use = ConfN + HoldN + PostN + AdjN + NowN + eco.det + SweepN /\ use \in Int
  BY DEF RefInv
<1>3. use' = ConfN' + HoldN' + PostN' + AdjN' + NowN' + eco'.det + SweepN'
  <2>1. use' \in Int /\ Balanced
    BY DEF Kept
  <2> DEFINE c == ConfN  h == HoldN  p == PostN  a == AdjN  n == NowN  w == SweepN
             c2 == ConfN'  h2 == HoldN'  p2 == PostN'  a2 == AdjN'  n2 == NowN'
             w2 == SweepN'  d == eco.det  d2 == eco'.det  u == use  u2 == use'
  <2>2. /\ c \in Nat /\ h \in Nat /\ p \in Nat /\ a \in Nat /\ n \in Nat /\ w \in Nat
        /\ c2 \in Nat /\ h2 \in Nat /\ p2 \in Nat /\ a2 \in Nat /\ n2 \in Nat
        /\ w2 \in Nat /\ d \in Int /\ d2 \in Int /\ u \in Int /\ u2 \in Int
    BY <1>1, <1>2, <2>1, CountsTyped
  <2>3. /\ u = c + h + p + a + n + d + w
        /\ u2 - u = (c2 - c) + (h2 - h) + (p2 - p) + (a2 - a) + (n2 - n)
                    + (d2 - d) + (w2 - w)
    BY <1>2, <2>1 DEF Balanced
  <2> HIDE DEF c, h, p, a, n, w, c2, h2, p2, a2, n2, w2, d, d2, u, u2
  <2>4. u2 = c2 + h2 + p2 + a2 + n2 + d2 + w2
    BY <2>2, <2>3
  <2> QED BY <2>4 DEF c2, h2, p2, a2, n2, w2, d2, u2
<1> QED BY <1>3 DEF RefInv, Kept

\* One request moves.
LEMMA HoldersMove ==
  ASSUME NEW R, NEW S, NEW r \in Reqs, \A x \in Reqs : x # r => S[x] = R[x]
  PROVE  /\ R[r].st \in Holding /\ S[r].st \notin Holding =>
              Cardinality(Holders(S)) = Cardinality(Holders(R)) - 1
         /\ R[r].st \notin Holding /\ S[r].st \in Holding =>
              Cardinality(Holders(S)) = Cardinality(Holders(R)) + 1
         /\ (R[r].st \in Holding <=> S[r].st \in Holding) =>
              Cardinality(Holders(S)) = Cardinality(Holders(R))
         /\ R[r].job = "requeue" /\ S[r].job # "requeue" =>
              Cardinality(Sweeps(S)) = Cardinality(Sweeps(R)) - 1
         /\ (R[r].job = "requeue" <=> S[r].job = "requeue") =>
              Cardinality(Sweeps(S)) = Cardinality(Sweeps(R))
<1>1. /\ IsFiniteSet(Holders(R)) /\ IsFiniteSet(Sweeps(R))
      /\ Cardinality(Holders(R)) \in Nat /\ Cardinality(Sweeps(R)) \in Nat
  <2>1. Holders(R) \subseteq Reqs /\ Sweeps(R) \subseteq Reqs
    BY DEF Holders, Sweeps
  <2> QED BY <2>1, ReqsCounted
<1>2. ASSUME R[r].st \in Holding, S[r].st \notin Holding
      PROVE  Cardinality(Holders(S)) = Cardinality(Holders(R)) - 1
  <2>1. Holders(S) = Holders(R) \ {r} /\ r \in Holders(R)
    BY <1>2 DEF Holders
  <2> QED BY <2>1, <1>1, FS_RemoveElement
<1>3. ASSUME R[r].st \notin Holding, S[r].st \in Holding
      PROVE  Cardinality(Holders(S)) = Cardinality(Holders(R)) + 1
  <2>1. Holders(S) = Holders(R) \cup {r} /\ r \notin Holders(R)
    BY <1>3 DEF Holders
  <2> QED BY <2>1, <1>1, FS_AddElement
<1>4. ASSUME R[r].st \in Holding <=> S[r].st \in Holding
      PROVE  Cardinality(Holders(S)) = Cardinality(Holders(R))
  <2>1. Holders(S) = Holders(R)
    BY <1>4 DEF Holders
  <2> QED BY <2>1
<1>5. ASSUME R[r].job = "requeue", S[r].job # "requeue"
      PROVE  Cardinality(Sweeps(S)) = Cardinality(Sweeps(R)) - 1
  <2>1. Sweeps(S) = Sweeps(R) \ {r} /\ r \in Sweeps(R)
    BY <1>5 DEF Sweeps
  <2> QED BY <2>1, <1>1, FS_RemoveElement
<1>6. ASSUME R[r].job = "requeue" <=> S[r].job = "requeue"
      PROVE  Cardinality(Sweeps(S)) = Cardinality(Sweeps(R))
  <2>1. Sweeps(S) = Sweeps(R)
    BY <1>6 DEF Sweeps
  <2> QED BY <2>1
<1> QED BY <1>2, <1>3, <1>4, <1>5, <1>6

\* The requests S have the states of R and the same sweep.
SameRefs(R, S) == Holders(S) = Holders(R) /\ Sweeps(S) = Sweeps(R)

\* The first of a queue leaves it.
LEMMA FirstLeaves ==
  ASSUME NEW q \in Seq(Reqs), Distinct(q), q # <<>>
  PROVE  /\ Head(q) \in Reqs /\ Head(q) \in Members(q)
         /\ Tail(q) \in Seq(Reqs) /\ Distinct(Tail(q))
         /\ Members(Tail(q)) = Members(q) \ {Head(q)}
<1>1. Len(q) \in Nat \ {0} /\ q \in [1..Len(q) -> Reqs] /\ Head(q) = q[1]
  OBVIOUS
<1>2. Tail(q) \in Seq(Reqs) /\ Len(Tail(q)) = Len(q) - 1
      /\ \A k \in 1..(Len(q) - 1) : Tail(q)[k] = q[k + 1]
  OBVIOUS
<1>3. Distinct(Tail(q))
  BY <1>1, <1>2 DEF Distinct
<1>4. Head(q) \in Members(q)
  BY <1>1 DEF Members
<1>5. ASSUME NEW x \in Members(Tail(q)) PROVE x \in Members(q) \ {Head(q)}
  <2>1. PICK k \in 1..(Len(q) - 1) : x = q[k + 1]
    BY <1>2 DEF Members
  <2>2. k + 1 \in 1..Len(q) /\ k + 1 # 1 /\ 1 \in 1..Len(q)
    BY <1>1
  <2>3. x # q[1]
    BY <2>1, <2>2 DEF Distinct
  <2> QED BY <2>1, <2>2, <2>3, <1>1 DEF Members
<1>6. ASSUME NEW x \in Members(q) \ {Head(q)} PROVE x \in Members(Tail(q))
  <2>1. PICK k \in 1..Len(q) : x = q[k]
    BY DEF Members
  <2>2. k # 1
    BY <2>1, <1>1
  <2>3. k - 1 \in 1..(Len(q) - 1) /\ Tail(q)[k - 1] = x
    BY <2>1, <2>2, <1>1, <1>2
  <2> QED BY <2>3, <1>2 DEF Members
<1> QED BY <1>1, <1>2, <1>3, <1>4, <1>5, <1>6

\* x is the first of one of the queues, and taken out.
Popped(x, aq, zq, aq2, zq2) ==
  \/ x = Head(aq) /\ aq # <<>> /\ aq2 = Tail(aq) /\ zq2 = zq
  \/ x = Head(zq) /\ zq # <<>> /\ aq2 = aq /\ zq2 = Tail(zq)

\* A parked request is taken out to be answered.
LEMMA ErrPosted ==
  ASSUME NEW R \in [Reqs -> ReqSet], NEW aq, NEW zq, Parked(R, aq, zq),
         NEW x, NEW aq2, NEW zq2, Popped(x, aq, zq, aq2, zq2),
         NEW S, S = [R EXCEPT ![x].job = "err"]
  PROVE  Parked(S, aq2, zq2) /\ SameRefs(R, S)
<1>1. /\ x \in Reqs /\ x \in Members(aq) \cup Members(zq)
      /\ aq2 \in Seq(Reqs) /\ zq2 \in Seq(Reqs) /\ Distinct(aq2) /\ Distinct(zq2)
      /\ Members(aq2) \cup Members(zq2) = (Members(aq) \cup Members(zq)) \ {x}
      /\ Members(aq2) \cap Members(zq2) = {}
  <2>1. CASE x = Head(aq) /\ aq # <<>> /\ aq2 = Tail(aq) /\ zq2 = zq
    <3>1. /\ x \in Reqs /\ x \in Members(aq) /\ aq2 \in Seq(Reqs)
          /\ Distinct(aq2) /\ Members(aq2) = Members(aq) \ {x}
      BY <2>1, FirstLeaves DEF Parked
    <3> QED BY <2>1, <3>1 DEF Parked
  <2>2. CASE x = Head(zq) /\ zq # <<>> /\ aq2 = aq /\ zq2 = Tail(zq)
    <3>1. /\ x \in Reqs /\ x \in Members(zq) /\ zq2 \in Seq(Reqs)
          /\ Distinct(zq2) /\ Members(zq2) = Members(zq) \ {x}
      BY <2>2, FirstLeaves DEF Parked
    <3> QED BY <2>2, <3>1 DEF Parked
  <2> QED BY <2>1, <2>2 DEF Popped
<1>2. \A r \in Reqs : R[r] \in ReqSet
  OBVIOUS
<1>3. /\ \A r \in Reqs : r # x => S[r] = R[r]
      /\ S[x].job = "err" /\ S[x].st = R[x].st
  BY <1>1, <1>2 DEF ReqSet
<1>4. R[x].job = "none" /\ R[x].st # "new"
  BY <1>1 DEF Parked
<1>5. SameRefs(R, S)
  BY <1>3, <1>4 DEF SameRefs, Holders, Sweeps
<1>6. Members(aq) \cup Members(zq) \subseteq Reqs
  BY DEF Parked, Members
<1>7. \A r \in Members(aq2) \cup Members(zq2) : S[r].job = "none" /\ S[r].st # "new"
  BY <1>1, <1>3, <1>6 DEF Parked
<1>8. \A r \in Reqs : S[r].st = "new" => S[r].job = "none"
  BY <1>3, <1>4 DEF Parked
<1> QED BY <1>1, <1>5, <1>7, <1>8 DEF Parked

LEMMA FailedRefs ==
  ASSUME NEW R \in [Reqs -> ReqSet], NEW who, NEW pe, NEW zq, NEW aq,
         Parked(R, aq, zq), StartFailed(who, pe, R, zq, aq)
  PROVE  Parked(req', ackq', reqq') /\ SameRefs(R, req')
<1>1. \/ req' = R /\ reqq' = zq /\ ackq' = aq
      \/ /\ req' = [R EXCEPT ![Head(aq)].job = "err"] /\ aq # <<>>
         /\ ackq' = Tail(aq) /\ reqq' = zq
      \/ /\ req' = [R EXCEPT ![Head(zq)].job = "err"] /\ zq # <<>>
         /\ ackq' = aq /\ reqq' = Tail(zq)
  BY DEF StartFailed, DrainFirst
<1>2. SameRefs(R, R)
  BY DEF SameRefs
<1>3. \/ req' = R /\ reqq' = zq /\ ackq' = aq
      \/ \E x : Popped(x, aq, zq, ackq', reqq') /\ req' = [R EXCEPT ![x].job = "err"]
  BY <1>1 DEF Popped
<1>4. ASSUME NEW x, Popped(x, aq, zq, ackq', reqq'), req' = [R EXCEPT ![x].job = "err"]
      PROVE  Parked(req', ackq', reqq') /\ SameRefs(R, req')
  BY <1>4, ErrPosted
<1> QED BY <1>2, <1>3, <1>4

-----------------------------------------------------------------------------
(* Steps on the attempts.                                                  *)

LEMMA NowKept ==
  ASSUME NotAdjusting PROVE NowN' = NowN
BY NamesAssumption DEF NotAdjusting, Adjusting, NowN

\* No request leaves or joins the holders of a reference.
LEMMA SameCounted ==
  ASSUME SameRefs(req, req')
  PROVE  HoldN' = HoldN /\ SweepN' = SweepN
BY DEF SameRefs, HoldN, SweepN

LEMMA RefParts ==
  ASSUME RefInv, IdleInv, conf # "freed"
  PROVE  /\ use \in Int /\ eco.det \in Int /\ eco \in EcoSet
         /\ Parked(req, ackq, reqq) /\ Swept(req, att, requeue)
         /\ req \in [Reqs -> ReqSet] /\ att \in [Atts -> AttSet]
         /\ Sound(eco, att, req, now) /\ QueuesSound(eco) /\ SameRefs(req, req)
<1>1. eco \in EcoSet
  BY DEF IdleInv, QueuesSound
<1>2. eco.det \in Int
  BY <1>1 DEF EcoSet
<1> QED BY <1>1, <1>2, IdleParts DEF RefInv, IdleInv, SameRefs

\* Only attempts move: the reference of a posted start goes with it.
LEMMA AttemptKept ==
  ASSUME RefInv, IdleInv, conf # "freed", eco'.det = eco.det,
         UNCHANGED <<adj, conf, requeue>>, NotAdjusting,
         NEW d \in Int, use' = use + d, PostN' = PostN + d,
         Count(att', {"held"}) = Count(att, {"held"}),
         Parked(req', ackq', reqq'), SameRefs(req, req')
  PROVE  Kept
<1>1. /\ ConfN' = ConfN /\ AdjN' = AdjN /\ NowN' = NowN
      /\ HoldN' = HoldN /\ SweepN' = SweepN
  BY NowKept, SameCounted DEF ConfN, AdjN
<1>2. Swept(req', att', requeue')
  BY RefParts DEF Swept, SameRefs
<1>3. use' \in Int /\ Balanced
  BY <1>1, RefParts, CountsTyped DEF Balanced
<1> QED BY <1>2, <1>3 DEF Kept

\* No start is posted, held or handled.
StartsStay(A, B) ==
  \A b \in Atts : /\ B[b].ph = "posted" <=> A[b].ph = "posted"
                  /\ B[b].ph = "held" <=> A[b].ph = "held"

LEMMA StayCounts ==
  ASSUME NEW A, NEW B, StartsStay(A, B)
  PROVE  /\ Count(B, {"posted"}) = Count(A, {"posted"})
         /\ Count(B, {"held"}) = Count(A, {"held"})
<1>1. /\ \A b \in Atts : B[b].ph \in {"posted"} <=> A[b].ph \in {"posted"}
      /\ \A b \in Atts : B[b].ph \in {"held"} <=> A[b].ph \in {"held"}
  BY DEF StartsStay
<1> QED BY <1>1, CountStay

LEMMA StayKept ==
  ASSUME RefInv, IdleInv, conf # "freed", eco'.det = eco.det,
         UNCHANGED <<adj, conf, requeue, use>>, NotAdjusting, StartsStay(att, att'),
         Parked(req', ackq', reqq'), SameRefs(req, req')
  PROVE  Kept
<1>1. PostN' = PostN + 0 /\ Count(att', {"held"}) = Count(att, {"held"})
  BY StayCounts, CountsTyped DEF PostN
<1>2. use' = use + 0
  BY RefParts
<1> QED BY <1>1, <1>2, AttemptKept

\* A posted start is handled.
LEMMA HandledCounts ==
  ASSUME NEW a \in Atts, att[a].ph = "posted", att'[a].ph \notin {"posted", "held"},
         \A b \in Atts : b # a => att'[b] = att[b]
  PROVE  PostN' = PostN - 1 /\ Count(att', {"held"}) = Count(att, {"held"})
<1>1. {a} \subseteq Of(att, {"posted"})
  BY DEF Of
<1>2. \A b \in Atts : IF b \in {a} THEN att'[b].ph \notin {"posted"} ELSE att'[b] = att[b]
  OBVIOUS
<1>3. Count(att', {"posted"}) = Count(att, {"posted"}) - Cardinality({a})
  BY <1>1, <1>2, CountLeave
<1>4. Cardinality({a}) = 1
  BY FS_Singleton
<1>5. \A b \in Atts : att'[b].ph \in {"held"} <=> att[b].ph \in {"held"}
  OBVIOUS
<1> QED BY <1>3, <1>4, <1>5, CountStay DEF PostN

\* Requests and queues are left, or what nxt_router_app_start_failed() does.
Drained ==
  \/ UNCHANGED <<req, ackq, reqq>>
  \/ \E who, pe : StartFailed(who, pe, req, reqq, ackq)

LEMMA DrainedRefs ==
  ASSUME RefInv, IdleInv, conf # "freed", Drained
  PROVE  Parked(req', ackq', reqq') /\ SameRefs(req, req')
<1>1. CASE UNCHANGED <<req, ackq, reqq>>
  BY <1>1, RefParts
<1>2. ASSUME NEW who, NEW pe, StartFailed(who, pe, req, reqq, ackq)
      PROVE  Parked(req', ackq', reqq') /\ SameRefs(req, req')
  BY <1>2, RefParts, FailedRefs
<1> QED BY <1>1, <1>2 DEF Drained

LEMMA FailRefs ==
  ASSUME NEW S, NEW d, FailAttempts(S, d)
  PROVE  /\ Drained /\ use' = use + d
         /\ \A b \in Atts : att'[b] = IF b \in S THEN NoAtt ELSE att[b]
BY DEF FailAttempts, Uses, Drained

LEMMA StartHandlerKept ==
  ASSUME RefInv, IdleInv, NotAdjusting, NEW a \in Atts, StartHandler(a)
  PROVE  Kept
<1> DEFINE d == IF att[a].ph = "posted" THEN -1 ELSE 0
<1>0. /\ conf # "freed" /\ UNCHANGED <<eco, adj, conf, requeue>>
      /\ att[a].ph \in {"posted", "replay"}
  BY DEF StartHandler, Running, idling, life
<1>1. att \in [Atts -> AttSet] /\ use \in Int
  BY <1>0, RefParts
<1>2. use' = use + d
  BY DEF StartHandler, FailAttempts, Uses
<1>3. /\ Drained /\ att'[a].ph \notin {"posted", "held"}
      /\ \A b \in Atts : b # a => att'[b] = att[b]
  <2>1. \A ph, pr, g, m : Att(ph, pr, g, m).ph = ph
    BY DEF Att
  <2>2. ASSUME NEW x, att' = [att EXCEPT ![a] = x], x.ph \in {"sent", "wait", "proto"},
               UNCHANGED <<req, ackq, reqq>>
        PROVE  /\ Drained /\ att'[a].ph \notin {"posted", "held"}
               /\ \A b \in Atts : b # a => att'[b] = att[b]
    BY <1>1, <2>2 DEF Drained
  <2>3. ASSUME NEW k, FailAttempts({a}, k)
        PROVE  /\ Drained /\ att'[a].ph \notin {"posted", "held"}
               /\ \A b \in Atts : b # a => att'[b] = att[b]
    BY <2>3, FailRefs, Records
  <2>4. \/ /\ UNCHANGED <<req, ackq, reqq>>
           /\ \E m \in Message : att' = [att EXCEPT ![a] = Att("sent", proto, gen, m)]
        \/ /\ UNCHANGED <<req, ackq, reqq>>
           /\ att' = [att EXCEPT ![a] = Att("wait", None, 0, "none")]
        \/ /\ UNCHANGED <<req, ackq, reqq>>
           /\ \E m \in Message, q \in Protos :
                att' = [att EXCEPT ![a] = Att("proto", q, gen, m)]
        \/ FailAttempts({a}, d)
    BY DEF StartHandler, parked
  <2> QED BY <2>1, <2>2, <2>3, <2>4
<1>4. Parked(req', ackq', reqq') /\ SameRefs(req, req')
  BY <1>0, <1>3, DrainedRefs
<1>5. CASE att[a].ph = "posted"
  <2>1. PostN' = PostN - 1 /\ Count(att', {"held"}) = Count(att, {"held"})
    BY <1>3, <1>5, HandledCounts
  <2>2. use' = use + (-1) /\ PostN' = PostN + (-1)
    BY <1>1, <1>2, <1>5, <2>1, CountsTyped
  <2> QED BY <1>0, <1>4, <2>1, <2>2, AttemptKept
<1>6. CASE att[a].ph = "replay"
  <2>1. StartsStay(att, att')
    BY <1>3, <1>6 DEF StartsStay
  <2>2. use' = use
    BY <1>1, <1>2, <1>6
  <2> QED BY <1>0, <1>4, <2>1, <2>2, StayKept
<1> QED BY <1>0, <1>5, <1>6

\* nxt_router_app_port_error()
LEMMA PortErrorRefs ==
  ASSUME NEW a \in Atts, att[a].ph \in {"proto", "sent", "lost"},
         PortError(a) \/ PortErrorExpired(a), use \in Int
  PROVE  Drained /\ use' = use /\ StartsStay(att, att')
<1>1. CASE PortError(a)
  <2> DEFINE S == IF att[a].ph = "proto" THEN Cohort ELSE {a}
  <2>1. FailAttempts(S, 0)
    BY <1>1 DEF PortError
  <2>2. \A b \in S : att[b].ph \notin {"posted", "held"}
    BY DEF Cohort, InPhase
  <2> HIDE DEF S
  <2> QED BY <2>1, <2>2, FailRefs, Records DEF StartsStay
<1>2. CASE PortErrorExpired(a)
  <2> DEFINE rest == IF att[a].ph = "proto" THEN Cohort \ {a} ELSE {}
             m == IF att[a].ph = "proto" THEN "proto" ELSE "sent"
             x == Att("expiring", att[a].pr, att[a].gen, m)
  <2>1. /\ att' = [b \in Atts |->
                     IF b = a THEN x ELSE IF b \in rest THEN NoAtt ELSE att[b]]
        /\ UNCHANGED holding
        /\ \/ StartFailed("main", pending - Cardinality(rest), req, reqq, ackq)
           \/ UNCHANGED <<req, parked>>
    BY <1>2 DEF PortErrorExpired
  <2>2. x.ph = "expiring" /\ NoAtt.ph = "none"
    BY DEF Att, NoAtt
  <2>3. \A b \in rest : att[b].ph \notin {"posted", "held"}
    BY DEF Cohort, InPhase
  <2> HIDE DEF x, rest
  <2> QED BY <2>1, <2>2, <2>3 DEF StartsStay, Drained, parked, holding
<1> QED BY <1>1, <1>2

LEMMA ExpiryKept ==
  ASSUME RefInv, IdleInv, NotAdjusting, NEW a \in Atts,
         StartTimeout(a) \/ MessageLeaves(a) \/ StartLost(a) \/ StartDies(a)
  PROVE  Kept
<1>0. conf # "freed" /\ UNCHANGED <<eco, adj, conf, requeue>>
  BY DEF StartTimeout, MessageLeaves, StartLost, StartDies, MainFree, Running,
         idling, life
<1>1. att \in [Atts -> AttSet] /\ use \in Int
  BY <1>0, RefParts
<1>2. Drained /\ use' = use /\ StartsStay(att, att')
  <2>1. \/ PortError(a) \/ PortErrorExpired(a)
        \/ /\ UNCHANGED <<req, parked, holding>>
           /\ \E m \in {"late", "started", "sent"} : att' = [att EXCEPT ![a].msg = m]
        \/ /\ UNCHANGED <<req, parked, holding>> /\ att[a].ph \in Late
           /\ att' = [att EXCEPT ![a] = NoAtt]
    BY DEF StartTimeout, MessageLeaves, StartLost, StartDies, Late
  <2>2. CASE PortError(a) \/ PortErrorExpired(a)
    <3>1. \/ att[a].ph \in {"proto", "sent", "lost"}
          \/ UNCHANGED <<req, parked, holding>> /\ StartsStay(att, att')
      BY <1>1, Records
         DEF StartTimeout, MessageLeaves, StartLost, StartDies, StartsStay
    <3> QED BY <1>1, <2>2, <3>1, PortErrorRefs DEF Drained, parked, holding
  <2>3. ASSUME UNCHANGED <<req, parked, holding>>,
               NEW m \in {"late", "started", "sent"}, att' = [att EXCEPT ![a].msg = m]
        PROVE  Drained /\ use' = use /\ StartsStay(att, att')
    <3> DEFINE y == [att[a] EXCEPT !.msg = m]
    <3>1. att' = [att EXCEPT ![a] = y] /\ y.ph = att[a].ph
      BY <1>1, <2>3, Records
    <3> HIDE DEF y
    <3> QED BY <1>1, <2>3, <3>1 DEF StartsStay, Drained, parked, holding
  <2>4. CASE /\ UNCHANGED <<req, parked, holding>> /\ att[a].ph \in Late
             /\ att' = [att EXCEPT ![a] = NoAtt]
    BY <1>1, <2>4, Records DEF StartsStay, Drained, parked, holding, Late
  <2> QED BY <2>1, <2>2, <2>3, <2>4
<1>3. Parked(req', ackq', reqq') /\ SameRefs(req, req')
  BY <1>0, <1>2, DrainedRefs
<1> QED BY <1>0, <1>2, <1>3, StayKept

LEMMA StartExpiredKept ==
  ASSUME RefInv, IdleInv, NotAdjusting, NEW a \in Atts, StartExpired(a)
  PROVE  Kept
<1> DEFINE x == Att(IF att[a].msg = "proto" THEN "lateP" ELSE "lateW",
                    att[a].pr, att[a].gen, "sent")
<1>0. /\ conf # "freed" /\ UNCHANGED <<eco, adj, conf, requeue, use>>
      /\ att[a].ph = "expiring" /\ att' = [att EXCEPT ![a] = x] /\ Drained
  BY DEF StartExpired, Running, idling, life, holding, Drained
<1>1. x.ph \in Late
  BY DEF Att, Late
<1> HIDE DEF x
<1>2. StartsStay(att, att')
  BY <1>0, <1>1, RefParts DEF StartsStay, Late
<1>3. Parked(req', ackq', reqq') /\ SameRefs(req, req')
  BY <1>0, DrainedRefs
<1> QED BY <1>0, <1>2, <1>3, StayKept

LEMMA DeathsKept ==
  ASSUME RefInv, IdleInv, NotAdjusting,
         \/ \E a \in Atts : ProtoReady(a) \/ WorkerExit(a)
         \/ \E q \in Protos : ProtoExit(q) \/ ProtoRemoved(q)
  PROVE  Kept
<1>0. /\ conf # "freed" /\ UNCHANGED <<eco, adj, conf, requeue, use, req, ackq, reqq>>
  BY DEF ProtoReady, WorkerExit, ProtoExit, ProtoRemoved, MainFree, Running,
         idling, life, holding, parked
<1>1. att \in [Atts -> AttSet]
  BY <1>0, RefParts
<1>2. ASSUME NEW a \in Atts, ProtoReady(a) PROVE StartsStay(att, att')
  <2> DEFINE late == att[a].ph = "lateP"
             x == Att("replay", None, 0, "none")
  <2>1. /\ att' = [b \in Atts |-> IF late THEN IF b = a THEN NoAtt ELSE att[b]
                                  ELSE IF b \in Cohort THEN x ELSE att[b]]
        /\ att[a].ph \in {"proto", "lateP"}
    BY <1>2 DEF ProtoReady
  <2>2. x.ph = "replay"
    BY DEF Att
  <2>3. \A b \in Cohort : att[b].ph \in {"wait", "proto"}
    BY DEF Cohort, InPhase
  <2> HIDE DEF x
  <2> QED BY <2>1, <2>2, <2>3, Records DEF StartsStay
<1>3. ASSUME NEW a \in Atts, WorkerExit(a) PROVE StartsStay(att, att')
  <2>1. \/ att[a].ph = "up" /\ att' = [att EXCEPT ![a].ph = "dying"]
        \/ att[a].ph \in {"stray", "quit"} /\ att' = [att EXCEPT ![a] = NoAtt]
    BY <1>3 DEF WorkerExit
  <2> DEFINE x == [att[a] EXCEPT !.ph = "dying"]
  <2>2. x.ph = "dying"
    BY <1>1, Records DEF Phases
  <2>3. \/ att[a].ph = "up" /\ att' = [att EXCEPT ![a] = x]
        \/ att[a].ph \in {"stray", "quit"} /\ att' = [att EXCEPT ![a] = NoAtt]
    BY <2>1
  <2> HIDE DEF x
  <2> QED BY <1>1, <2>2, <2>3, Records DEF StartsStay
<1>4. ASSUME NEW q \in Protos, ProtoExit(q) PROVE StartsStay(att, att')
  <2>1. att' = [a \in Atts |-> IF att[a].ph = "up" /\ att[a].pr = q
                                 THEN [att[a] EXCEPT !.ph = "orphan"] ELSE att[a]]
    BY <1>4 DEF ProtoExit
  <2>2. \A a \in Atts : [att[a] EXCEPT !.ph = "orphan"].ph = "orphan"
    BY <1>1, Records DEF Phases
  <2> QED BY <2>1, <2>2 DEF StartsStay
<1>5. ASSUME NEW q \in Protos, ProtoRemoved(q) PROVE StartsStay(att, att')
  <2> DEFINE x == Att("lost", None, 0, "none")
             lost == {a \in InPhase({"sent"}) : att[a].pr = q}
  <2>1. att' = [a \in Atts |-> IF a \in lost THEN x ELSE att[a]]
    BY <1>5 DEF ProtoRemoved
  <2>2. x.ph = "lost" /\ \A a \in lost : att[a].ph = "sent"
    BY DEF Att, InPhase
  <2> HIDE DEF x, lost
  <2> QED BY <2>1, <2>2 DEF StartsStay
<1>6. StartsStay(att, att') /\ eco'.det = eco.det
  BY <1>0, <1>2, <1>3, <1>4, <1>5
<1>7. Parked(req', ackq', reqq') /\ SameRefs(req, req')
  BY <1>0, RefParts
<1> QED BY <1>0, <1>6, <1>7, StayKept

LEMMA StaySelf == ASSUME att' = att PROVE StartsStay(att, att')
BY DEF StartsStay

LEMMA DrainStepKept ==
  ASSUME RefInv, IdleInv, NotAdjusting, NEW who, DrainStep(who)
  PROVE  Kept
<1>0. conf # "freed" /\ UNCHANGED <<att, eco, adj, conf, requeue, use>>
  BY DEF DrainStep, Running, starting, idling, life, holding
<1>1. \/ UNCHANGED <<req, ackq, reqq>>
      \/ \E x : Popped(x, ackq, reqq, ackq', reqq') /\ req' = [req EXCEPT ![x].job = "err"]
  BY DEF DrainStep, DrainFirst, Popped
<1>2. Parked(req', ackq', reqq') /\ SameRefs(req, req')
  <2>1. ASSUME NEW x, Popped(x, ackq, reqq, ackq', reqq'),
               req' = [req EXCEPT ![x].job = "err"]
        PROVE  Parked(req', ackq', reqq') /\ SameRefs(req, req')
    BY <1>0, <2>1, RefParts, ErrPosted
  <2> QED BY <1>0, <1>1, <2>1, RefParts
<1> QED BY <1>0, <1>2, StaySelf, StayKept

\* A step that writes to the requests something else than states and posts.
LEMMA UntouchedRefs ==
  ASSUME NEW R, NEW S, NEW aq, NEW zq, Parked(R, aq, zq),
         \A r \in Reqs : S[r].st = R[r].st /\ S[r].job = R[r].job
  PROVE  Parked(S, aq, zq) /\ SameRefs(R, S)
<1>1. Members(aq) \cup Members(zq) \subseteq Reqs
  BY DEF Parked, Members
<1> QED BY <1>1 DEF Parked, SameRefs, Holders, Sweeps

LEMMA CalmKept ==
  ASSUME RefInv, IdleInv, NotAdjusting,
         \/ Restart
         \/ \E a \in Atts : ContextClose(a) \/ ContextReady(a)
         \/ \E r \in Reqs : \/ SendAck(r) \/ Fault(r)
                            \/ \E w \in Atts, c \in 0..Contexts : Claim(r, w, c)
  PROVE  Kept
<1> USE DEF starting, idling, life, holding, parked
<1>0. /\ conf # "freed" /\ UNCHANGED <<att, adj, conf, requeue, use, ackq, reqq>>
  BY DEF Restart, ContextClose, ContextReady, SendAck, Fault, Claim, MainFree,
         Running, EngineFree
<1>1. eco'.det = eco.det
  <2>1. \/ eco' = eco
        \/ \E a, p : eco' = WithPort(eco, a, p)
    BY DEF Restart, ContextClose, ContextReady, SendAck, Fault, Claim
  <2> QED BY <2>1 DEF WithPort, Eco
<1>2. \A r \in Reqs : req'[r].st = req[r].st /\ req'[r].job = req[r].job
  <2>1. \A r \in Reqs : req[r] \in ReqSet
    BY <1>0, RefParts
  <2>2. req \in [Reqs -> ReqSet]
    BY <1>0, RefParts
  <2>3. CASE req' = req
    BY <2>3
  <2>4. ASSUME NEW r \in Reqs, SendAck(r)
      PROVE \A s \in Reqs : req'[s].st = req[s].st /\ req'[s].job = req[s].job
    BY <2>1, <2>2, <2>4 DEF SendAck, ReqSet
  <2>5. ASSUME NEW r \in Reqs, NEW w \in Atts, NEW c \in 0..Contexts, Claim(r, w, c)
        PROVE  \A s \in Reqs : req'[s].st = req[s].st /\ req'[s].job = req[s].job
    <3> DEFINE y == [req[r] EXCEPT !.wk = "taken", !.w = w, !.c = c]
    <3>1. y.st = req[r].st /\ y.job = req[r].job
      BY <2>1 DEF ReqSet
    <3>2. req' = [req EXCEPT ![r] = y]
      BY <2>5 DEF Claim
    <3> HIDE DEF y
    <3> QED BY <2>2, <3>1, <3>2
  <2> QED BY <2>3, <2>4, <2>5 DEF Restart, ContextClose, ContextReady, Fault
<1>3. Parked(req', ackq', reqq') /\ SameRefs(req, req')
  BY <1>0, <1>2, RefParts, UntouchedRefs
<1> QED BY <1>0, <1>1, <1>3, StaySelf, StayKept

\* nxt_router_adjust_idle_timer(): the reference of the queued work is that of
\* its handler, which drops it at its end.
LEMMA AdjustKept ==
  ASSUME RefInv, IdleInv, AdjustBegin \/ AdjustReap \/ AdjustEnd,
         AdjustReap => Head(eco.idle) \in Atts /\ Registered(Head(eco.idle))
  PROVE  Kept
<1> USE DEF idling, life, holding, parked
<1>0. conf # "freed" /\ UNCHANGED <<conf, requeue, req, ackq, reqq>>
  BY DEF AdjustBegin, AdjustReap, AdjustEnd, MainFree, Running
<1>1. Parked(req', ackq', reqq') /\ SameRefs(req, req')
  BY <1>0, RefParts
<1>2. CASE AdjustReap
  <2> DEFINE a == Head(eco.idle)
             x == [att[a] EXCEPT !.ph = "quit"]
  <2>1. /\ a \in Atts /\ att[a].ph \in {"up", "dying", "orphan"}
        /\ att' = [att EXCEPT ![a] = x] /\ eco' = Out(eco, a)
        /\ UNCHANGED <<adj, now, use>>
    BY <1>2 DEF AdjustReap, Registered
  <2>2. x.ph = "quit" /\ att \in [Atts -> AttSet]
    <3>1. att \in [Atts -> AttSet]
      BY <1>0, RefParts
    <3>2. att[a] \in AttSet /\ "quit" \in Phases
      BY <2>1, <3>1 DEF Phases
    <3> QED BY <3>1, <3>2, Records
  <2>3. eco'.det = eco.det
    BY <1>0, <2>1, RefParts, OutSound
  <2> HIDE DEF a, x
  <2>4. StartsStay(att, att')
    BY <2>1, <2>2 DEF StartsStay
  <2>5. NotAdjusting
    BY <2>1 DEF NotAdjusting
  <2> QED BY <1>0, <1>1, <2>1, <2>3, <2>4, <2>5, StayKept
<1>3. CASE AdjustBegin \/ AdjustEnd
  <2>1. att' = att /\ eco' = eco
    BY <1>3 DEF AdjustBegin, AdjustEnd
  <2>2. use \in Int /\ adj \in {"no", "queued"} /\ eco.det \in Int
    BY <1>0, RefParts DEF IdleInv, WatchInv
  <2>3. use' - use = (AdjN' - AdjN) + (NowN' - NowN) /\ use' \in Int
    <3>1. CASE AdjustBegin
      BY <2>2, <3>1 DEF AdjustBegin, MainFree, AdjN, NowN
    <3>2. CASE AdjustEnd
      BY <2>2, <3>2 DEF AdjustEnd, Uses, AdjN, NowN
    <3> QED BY <1>3, <3>1, <3>2
  <2>4. ConfN' = ConfN /\ HoldN' = HoldN /\ PostN' = PostN /\ SweepN' = SweepN
    BY <1>0, <2>1 DEF ConfN, HoldN, PostN, SweepN
  <2>5. Balanced
    BY <2>1, <2>2, <2>3, <2>4, CountsTyped DEF Balanced
  <2> QED BY <1>0, <1>1, <2>1, <2>3, <2>5, RefParts DEF Kept
<1> QED BY <1>2, <1>3

\* A configuration drops its reference.
LEMMA ConfKept ==
  ASSUME RefInv, IdleInv, NotAdjusting, RemoveApp \/ ConfRelease
  PROVE  Kept
<1> USE DEF starting, idling, parked
<1>0. /\ conf # "freed" /\ UNCHANGED <<att, eco, adj, requeue, req, ackq, reqq>>
      /\ use' = use - 1 /\ ConfN' = ConfN - 1 /\ use \in Int
  <2>1. conf # "freed" /\ UNCHANGED <<att, eco, adj, requeue, req, ackq, reqq>>
    BY DEF RemoveApp, ConfRelease, MainFree, Running
  <2>2. use \in Int
    BY DEF RefInv
  <2>3. use' = use - 1 /\ ConfN' = ConfN - 1
    BY <2>2 DEF RemoveApp, ConfRelease, Uses, ConfN
  <2> QED BY <2>1, <2>2, <2>3
<1>1. /\ HoldN' = HoldN /\ PostN' = PostN /\ SweepN' = SweepN /\ AdjN' = AdjN
      /\ NowN' = NowN
  BY <1>0, NowKept DEF HoldN, PostN, SweepN, AdjN
<1>2. Balanced /\ use' \in Int
  BY <1>0, <1>1, CountsTyped, RefParts DEF Balanced
<1> QED BY <1>0, <1>2, RefParts DEF Kept

-----------------------------------------------------------------------------
(* Steps on the requests.                                                  *)

\* A start takes a reference with it (nxt_router_start_app_process()).
LEMMA PostRefs ==
  ASSUME NEW A \in [Atts -> AttSet],
         \A b \in Atts : att[b].ph = "none" => A[b].ph = "none",
         NEW start, NEW pe, NEW d \in Int, NEW who, StartIf(start, A, pe, d, who),
         use \in Int
  PROVE  /\ use' \in Int
         /\ use' = use + d + (PostN' - Count(A, {"posted"}))
         /\ Count(att', {"held"}) = Count(A, {"held"})
<1>0. Count(A, {"posted"}) \in Nat /\ Count(A, {"held"}) \in Nat
  BY CountType
<1>1. CASE att' = A /\ Uses(d, who)
  <2>1. PostN' = Count(A, {"posted"})
    BY <1>1 DEF PostN
  <2> QED BY <1>0, <1>1, <2>1 DEF Uses
<1>2. ASSUME NEW b \in Atts, Unused(b), att' = [A EXCEPT ![b] = Posted], Uses(d + 1, who)
      PROVE  /\ use' \in Int
             /\ use' = use + d + (PostN' - Count(A, {"posted"}))
             /\ Count(att', {"held"}) = Count(A, {"held"})
  <2>1. A[b].ph = "none"
    BY <1>2 DEF Unused
  <2>2. /\ Posted \in AttSet
        /\ One(Posted.ph, {"posted"}) = 1 /\ One(Posted.ph, {"held"}) = 0
        /\ One(A[b].ph, {"posted"}) = 0 /\ One(A[b].ph, {"held"}) = 0
    BY <2>1, Records DEF One
  <2>3. ASSUME NEW P
        PROVE  Count(att', P) = Count(A, P) + One(Posted.ph, P) - One(A[b].ph, P)
    BY <1>2, <2>2, CountMove
  <2>4. /\ Count(att', {"posted"}) = Count(A, {"posted"}) + 1 - 0
        /\ Count(att', {"held"}) = Count(A, {"held"}) + 0 - 0
    BY <2>2, <2>3
  <2>5. PostN' = Count(A, {"posted"}) + 1
    BY <1>0, <2>4 DEF PostN
  <2>6. use' = use + (d + 1)
    BY <1>2 DEF Uses
  <2> QED BY <1>0, <2>4, <2>5, <2>6
<1> QED BY <1>1, <1>2 DEF StartIf

\* So does the post of adjust_idle_work.
LEMMA IdleRefs ==
  ASSUME NEW e, NEW a, NEW open, NEW d \in Int, NEW who, BackToIdle(e, a, open, d, who),
         use \in Int, adj \in {"no", "queued"}
  PROVE  /\ use' \in Int /\ use' = use + d + (AdjN' - AdjN) /\ eco'.det = e.det
<1>1. eco'.det = e.det
  BY DEF BackToIdle, PortIdle, Eco
<1>2. CASE IdleAdjusts(e, a, open)
  <2>1. adj = "no" /\ adj' = "queued" /\ use' = use + (d + 1)
    BY <1>2 DEF BackToIdle, IdleAdjusts, Uses
  <2>2. AdjN = 0 /\ AdjN' = 1
    BY <2>1 DEF AdjN
  <2> QED BY <1>1, <2>1, <2>2
<1>3. CASE ~IdleAdjusts(e, a, open)
  <2>1. adj' = adj /\ use' = use + d
    BY <1>3 DEF BackToIdle, Uses
  <2>2. AdjN' = AdjN /\ AdjN \in Int
    BY <2>1 DEF AdjN
  <2> QED BY <1>1, <2>1, <2>2
<1> QED BY <1>2, <1>3

\* A request leaves the queues.
LEMMA LeavesQueues ==
  ASSUME NEW R, NEW S, NEW aq, NEW zq, Parked(R, aq, zq), NEW r \in Reqs,
         \A x \in Reqs : x # r => S[x] = R[x], S[r].st # "new"
  PROVE  Parked(S, Without(aq, r), Without(zq, r))
<1>1. /\ Without(aq, r) \in Seq(Reqs) /\ Distinct(Without(aq, r))
      /\ Members(Without(aq, r)) = Members(aq) \ {r}
  BY WithoutProperties DEF Parked
<1>2. /\ Without(zq, r) \in Seq(Reqs) /\ Distinct(Without(zq, r))
      /\ Members(Without(zq, r)) = Members(zq) \ {r}
  BY WithoutProperties DEF Parked
<1>3. Members(aq) \cup Members(zq) \subseteq Reqs
  BY DEF Parked, Members
<1> HIDE DEF Members, Distinct
<1> QED BY <1>1, <1>2, <1>3 DEF Parked

\* A request changes and stays where it is.
LEMMA StaysQueued ==
  ASSUME NEW R, NEW S, NEW aq, NEW zq, Parked(R, aq, zq), NEW r \in Reqs,
         \A x \in Reqs : x # r => S[x] = R[x], S[r].st # "new",
         S[r].job = "none" \/ S[r].job = R[r].job
  PROVE  Parked(S, aq, zq)
<1>1. Members(aq) \cup Members(zq) \subseteq Reqs
  BY DEF Parked, Members
<1> QED BY <1>1 DEF Parked

\* A request joins a queue.
LEMMA JoinsQueue ==
  ASSUME NEW R, NEW aq, NEW zq, Parked(R, aq, zq), NEW r \in Reqs,
         r \notin Members(aq) \cup Members(zq), R[r].job = "none", R[r].st # "new"
  PROVE  Parked(R, Append(aq, r), zq) /\ Parked(R, aq, Append(zq, r))
<1>1. /\ Append(aq, r) \in Seq(Reqs) /\ Distinct(Append(aq, r))
      /\ Members(Append(aq, r)) = Members(aq) \cup {r}
  BY AppendMembers DEF Parked
<1>2. /\ Append(zq, r) \in Seq(Reqs) /\ Distinct(Append(zq, r))
      /\ Members(Append(zq, r)) = Members(zq) \cup {r}
  BY AppendMembers DEF Parked
<1> QED BY <1>1, <1>2 DEF Parked

LEMMA UnlinkRefs ==
  ASSUME RefInv, IdleInv, conf # "freed", NEW r \in Reqs, Linked(r),
         NEW job \in {"none", "err", "requeue", "resend"}, NEW d \in Int,
         Unlink(r, job, d)
  PROVE  /\ use' \in Int /\ use' = use + d - 1 + (AdjN' - AdjN)
         /\ eco'.det = eco.det /\ HoldN' = HoldN - 1
         /\ Parked(req', ackq', reqq')
         /\ job = req[r].job => SweepN' = SweepN
         /\ job = "none" /\ req[r].job = "requeue" => SweepN' = SweepN - 1
         /\ job = "none" /\ req[r].job # "requeue" => SweepN' = SweepN
<1> DEFINE w == req[r].w
           p == eco.port[w]
           released == IF req[r].st = "acked"
             THEN Port(p.active - 1, p.ws, p.det, p.app, p.router, p.start, p.ctx)
             ELSE Port(p.active, p.ws - 1, p.det, p.app, p.router, p.start, p.ctx)
           e == WithPort(eco, w, released)
           y == Req("done", IF Retracts(r) THEN "none" ELSE req[r].wk, w,
                    req[r].c, req[r].g, req[r].cancel, job, "no")
<1>1. /\ req' = [req EXCEPT ![r] = y]
      /\ ackq' = Without(ackq, r) /\ reqq' = Without(reqq, r)
      /\ \/ Uses(d - 1, r) /\ UNCHANGED <<eco, adj>>
         \/ BackToIdle(e, w, Open(w), d - 1, r)
  BY DEF Unlink
<1>2. y.st = "done" /\ y.job = job
  BY DEF Req
<1>3. e.det = eco.det
  BY DEF WithPort, Eco
<1> HIDE DEF e, y
<1>4. /\ use \in Int /\ adj \in {"no", "queued"} /\ req \in [Reqs -> ReqSet]
      /\ Parked(req, ackq, reqq)
  BY RefParts DEF IdleInv, WatchInv
<1>5. use' \in Int /\ use' = use + d - 1 + (AdjN' - AdjN) /\ eco'.det = eco.det
  <2>1. CASE Uses(d - 1, r) /\ UNCHANGED <<eco, adj>>
    <3>1. AdjN' = AdjN /\ AdjN \in Int
      BY <2>1 DEF AdjN
    <3> QED BY <1>4, <2>1, <3>1 DEF Uses
  <2>2. CASE BackToIdle(e, w, Open(w), d - 1, r)
    <3>1. d - 1 \in Int
      OBVIOUS
    <3>2. use' \in Int /\ use' = use + (d - 1) + (AdjN' - AdjN) /\ eco'.det = e.det
      BY <1>4, <2>2, <3>1, IdleRefs
    <3> QED BY <1>3, <1>4, <3>2, CountsTyped
  <2> QED BY <1>1, <2>1, <2>2
<1>6. /\ \A x \in Reqs : x # r => req'[x] = req[x]
      /\ req'[r].st = "done" /\ req'[r].job = job
  BY <1>1, <1>2, <1>4
<1>7. Parked(req', ackq', reqq')
  <2>1. Parked(req', Without(ackq, r), Without(reqq, r))
    BY <1>4, <1>6, LeavesQueues
  <2> QED BY <1>1, <2>1
<1>8. req[r].st \in Holding /\ req'[r].st \notin Holding
  BY <1>6 DEF Linked, Holding
<1>9. /\ HoldN' = HoldN - 1
      /\ job = req[r].job => SweepN' = SweepN
      /\ job = "none" /\ req[r].job = "requeue" => SweepN' = SweepN - 1
      /\ job = "none" /\ req[r].job # "requeue" => SweepN' = SweepN
  <2>1. /\ Cardinality(Holders(req')) = Cardinality(Holders(req)) - 1
        /\ req[r].job = "requeue" /\ req'[r].job # "requeue" =>
             Cardinality(Sweeps(req')) = Cardinality(Sweeps(req)) - 1
        /\ (req[r].job = "requeue" <=> req'[r].job = "requeue") =>
             Cardinality(Sweeps(req')) = Cardinality(Sweeps(req))
    BY <1>6, <1>8, HoldersMove
  <2> QED BY <1>6, <2>1 DEF HoldN, SweepN
<1> QED BY <1>5, <1>7, <1>9

\* detached_processes follows port->detached.
LEMMA DetachedRefs ==
  ASSUME NEW e, NEW a, NEW ap, NEW rt
  PROVE  Detached(e, a, ap, rt).det =
           e.det + ((IF ap + rt > 0 THEN 1 ELSE 0) - e.port[a].det)
BY DEF Detached, Counted, WithPort, Eco

LEMMA SettleRefs ==
  ASSUME RefInv, IdleInv, conf # "freed", NEW r \in Reqs, req[r].st = "abandoned",
         Settle(r)
  PROVE  /\ use' \in Int
         /\ use' = use - 1 + (AdjN' - AdjN) + (eco'.det - eco.det)
         /\ eco'.det \in Int
         /\ HoldN' = HoldN - 1 /\ SweepN' = SweepN /\ Parked(req', ackq', reqq')
<1> DEFINE w == req[r].w
           p == eco.port[w]
           rt == p.router - 1
           g == Detached(eco, w, p.app, rt)
<1>1. /\ use \in Int /\ adj \in {"no", "queued"} /\ req \in [Reqs -> ReqSet]
      /\ Parked(req, ackq, reqq) /\ Sound(eco, att, req, now) /\ eco.det \in Int
      /\ req[r] \in ReqSet
  BY RefParts DEF IdleInv, WatchInv
<1>2. w \in Atts
  BY <1>1, Behind DEF Held
<1>3. /\ p.app \in Nat /\ p.router \in Nat /\ PortAgree(p, att[w].ph, req, w)
  BY <1>1, <1>2, SoundTypes DEF Sound
<1>4. p.det = IF p.app + p.router > 0 THEN 1 ELSE 0
  BY <1>3 DEF PortAgree
<1>5. g.det = eco.det + ((IF p.app + rt > 0 THEN 1 ELSE 0) - p.det)
  BY DetachedRefs
<1>6. \/ p.router = 1 /\ p.app = 0 /\ BackToIdle(g, w, Open(w), -2, r)
      \/ /\ p.router > 1 \/ (p.router = 1 /\ p.app > 0)
         /\ eco' = g /\ Uses(-1, r) /\ UNCHANGED adj
      \/ p.router = 0 /\ Uses(-1, r) /\ UNCHANGED <<eco, adj>>
  BY DEF Settle
<1> HIDE DEF g, p
<1>7. /\ use' \in Int /\ eco'.det \in Int
      /\ use' = use - 1 + (AdjN' - AdjN) + (eco'.det - eco.det)
  <2>1. CASE p.router = 1 /\ p.app = 0 /\ BackToIdle(g, w, Open(w), -2, r)
    <3>1. p.det = 1 /\ g.det = eco.det - 1
      BY <1>1, <1>4, <1>5, <2>1
    <3>2. use' \in Int /\ use' = use + (-2) + (AdjN' - AdjN) /\ eco'.det = g.det
      BY <1>1, <2>1, IdleRefs
    <3> QED BY <1>1, <3>1, <3>2, CountsTyped
  <2>2. CASE /\ p.router > 1 \/ (p.router = 1 /\ p.app > 0)
             /\ eco' = g /\ Uses(-1, r) /\ UNCHANGED adj
    <3>1. p.det = 1 /\ g.det = eco.det
      BY <1>1, <1>3, <1>4, <1>5, <2>2
    <3>2. use' = use - 1 /\ AdjN' = AdjN
      BY <1>1, <2>2 DEF Uses, AdjN
    <3> QED BY <1>1, <2>2, <3>1, <3>2, CountsTyped
  <2>3. CASE p.router = 0 /\ Uses(-1, r) /\ UNCHANGED <<eco, adj>>
    <3>1. use' = use - 1 /\ AdjN' = AdjN
      BY <1>1, <2>3 DEF Uses, AdjN
    <3> QED BY <1>1, <2>3, <3>1, CountsTyped
  <2> QED BY <1>6, <2>1, <2>2, <2>3
<1>8. /\ \A x \in Reqs : x # r => req'[x] = req[x]
      /\ req'[r].st = "done" /\ req'[r].job = req[r].job
  BY <1>1 DEF Settle, ReqSet
<1>9. HoldN' = HoldN - 1 /\ SweepN' = SweepN
  <2>1. req[r].st \in Holding /\ req'[r].st \notin Holding
    BY <1>8 DEF Holding
  <2> QED BY <1>8, <2>1, HoldersMove DEF HoldN, SweepN
<1>10. Parked(req', ackq', reqq')
  <2>1. UNCHANGED <<ackq, reqq>>
    BY DEF Settle
  <2> QED BY <1>1, <1>8, <2>1, StaysQueued
<1> QED BY <1>7, <1>9, <1>10

\* A request moves, maybe with a start or a port: no sweep begins or goes on.
LEMMA MovedKept ==
  ASSUME RefInv, IdleInv, conf # "freed", NotAdjusting, UNCHANGED <<conf, requeue>>,
         Count(att', {"held"}) = Count(att, {"held"}),
         use' \in Int, eco'.det \in Int,
         use' - use = (HoldN' - HoldN) + (PostN' - PostN) + (AdjN' - AdjN)
                      + (eco'.det - eco.det),
         SweepN' = SweepN, Parked(req', ackq', reqq')
  PROVE  Kept
<1>1. ConfN' = ConfN /\ NowN' = NowN
  BY NowKept DEF ConfN
<1>2. Swept(req', att', requeue')
  BY RefParts DEF Swept, SweepN
<1>3. Balanced
  BY <1>1, RefParts, CountsTyped DEF Balanced
<1> QED BY <1>2, <1>3 DEF Kept

LEMMA SettledKept ==
  ASSUME RefInv, IdleInv, conf # "freed", NotAdjusting, UNCHANGED <<att, conf, requeue>>,
         NEW r \in Reqs,
         \/ Linked(r) /\ \E job \in {"none", req[r].job} :
              Unlink(r, job, 0) /\ (job = "none" => req[r].job # "requeue")
         \/ req[r].st = "abandoned" /\ Settle(r)
  PROVE  Kept
<1>0. /\ use \in Int /\ eco.det \in Int /\ PostN' = PostN
      /\ Count(att', {"held"}) = Count(att, {"held"})
      /\ req[r].job \in {"none", "err", "requeue", "resend"}
  <2>1. use \in Int /\ eco.det \in Int /\ req[r] \in ReqSet
    BY RefParts
  <2> QED BY <2>1 DEF PostN, ReqSet
<1>1. ASSUME Linked(r), NEW job \in {"none", req[r].job}, Unlink(r, job, 0),
             job = "none" => req[r].job # "requeue"
      PROVE  Kept
  <2>1. job \in {"none", "err", "requeue", "resend"} /\ 0 \in Int
    BY <1>0
  <2>2. /\ use' \in Int /\ use' = use + 0 - 1 + (AdjN' - AdjN)
        /\ eco'.det = eco.det /\ HoldN' = HoldN - 1
        /\ Parked(req', ackq', reqq') /\ SweepN' = SweepN
    BY <1>1, <2>1, UnlinkRefs
  <2>3. use' - use = (HoldN' - HoldN) + (PostN' - PostN) + (AdjN' - AdjN)
                     + (eco'.det - eco.det)
    BY <1>0, <2>2, CountsTyped
  <2> QED BY <1>0, <2>2, <2>3, MovedKept
<1>2. ASSUME req[r].st = "abandoned", Settle(r) PROVE Kept
  <2>1. /\ use' \in Int
        /\ use' = use - 1 + (AdjN' - AdjN) + (eco'.det - eco.det)
        /\ eco'.det \in Int
        /\ HoldN' = HoldN - 1 /\ SweepN' = SweepN /\ Parked(req', ackq', reqq')
    BY <1>2, SettleRefs
  <2>2. use' - use = (HoldN' - HoldN) + (PostN' - PostN) + (AdjN' - AdjN)
                     + (eco'.det - eco.det)
    BY <1>0, <2>1, CountsTyped
  <2> QED BY <1>0, <2>1, <2>2, MovedKept
<1> QED BY <1>1, <1>2

\* A job is done for a request.
LEMMA JobRefs ==
  ASSUME req \in [Reqs -> ReqSet], Parked(req, ackq, reqq), NEW r \in Reqs,
         req' = [req EXCEPT ![r].job = "none"]
  PROVE  /\ Parked(req', ackq, reqq)
         /\ \A x \in Reqs : x # r => req'[x] = req[x]
         /\ req'[r].st = req[r].st /\ req'[r].job = "none"
<1>1. \A x \in Reqs : req[x] \in ReqSet
  OBVIOUS
<1>2. /\ \A x \in Reqs : x # r => req'[x] = req[x]
      /\ req'[r].st = req[r].st /\ req'[r].job = "none"
  BY <1>1 DEF ReqSet
<1>3. Members(ackq) \cup Members(reqq) \subseteq Reqs
  BY DEF Parked, Members
<1>4. Parked(req', ackq, reqq)
  BY <1>2, <1>3 DEF Parked
<1> QED BY <1>2, <1>4

LEMMA AnswersKept ==
  ASSUME RefInv, IdleInv, NotAdjusting, NEW r \in Reqs,
         Response(r) \/ PeerGone(r) \/ Close(r) \/ AckTimeout(r) \/ ErrHandler(r)
  PROVE  Kept
<1> USE DEF starting, life, holding
<1>0. /\ conf # "freed" /\ UNCHANGED <<att, conf, requeue>>
  BY DEF Response, PeerGone, Close, AckTimeout, ErrHandler, EngineFree, Running
<1>1. \/ Linked(r) /\ Unlink(r, req[r].job, 0)
      \/ Linked(r) /\ Unlink(r, "none", 0) /\ req[r].job # "requeue"
      \/ req[r].st = "abandoned" /\ Settle(r)
      \/ /\ UNCHANGED <<eco, adj, use, ackq, reqq>> /\ req[r].st = "wait"
         /\ req' = [req EXCEPT ![r].cancel = "claimed", ![r].twice = "yes"]
      \/ /\ UNCHANGED <<eco, adj, use, ackq, reqq>> /\ req[r].job = "err"
         /\ req' = [req EXCEPT ![r].job = "none"]
  BY DEF Response, PeerGone, Close, AckTimeout, ErrHandler, Linked
<1>2. CASE \/ Linked(r) /\ Unlink(r, req[r].job, 0)
           \/ Linked(r) /\ Unlink(r, "none", 0) /\ req[r].job # "requeue"
           \/ req[r].st = "abandoned" /\ Settle(r)
  <2>1. \/ Linked(r) /\ \E job \in {"none", req[r].job} :
             Unlink(r, job, 0) /\ (job = "none" => req[r].job # "requeue")
        \/ req[r].st = "abandoned" /\ Settle(r)
    BY <1>2
  <2> QED BY <1>0, <2>1, SettledKept
<1>3. CASE /\ UNCHANGED <<eco, adj, use, ackq, reqq>> /\ req[r].st = "wait"
           /\ req' = [req EXCEPT ![r].cancel = "claimed", ![r].twice = "yes"]
  <2> DEFINE y == [req[r] EXCEPT !.cancel = "claimed", !.twice = "yes"]
  <2>1. req \in [Reqs -> ReqSet] /\ req[r] \in ReqSet
    BY <1>0, RefParts
  <2>2. y.st = req[r].st /\ y.job = req[r].job
    BY <2>1 DEF ReqSet
  <2>3. req' = [req EXCEPT ![r] = y]
    BY <1>3
  <2> HIDE DEF y
  <2>4. \A x \in Reqs : req'[x].st = req[x].st /\ req'[x].job = req[x].job
    BY <2>1, <2>2, <2>3
  <2>5. Parked(req', ackq', reqq') /\ SameRefs(req, req')
    BY <1>0, <1>3, <2>4, RefParts, UntouchedRefs
  <2> QED BY <1>0, <1>3, <2>5, StaySelf, StayKept
<1>4. CASE /\ UNCHANGED <<eco, adj, use, ackq, reqq>> /\ req[r].job = "err"
           /\ req' = [req EXCEPT ![r].job = "none"]
  <2>1. /\ Parked(req', ackq, reqq)
        /\ \A x \in Reqs : x # r => req'[x] = req[x]
        /\ req'[r].st = req[r].st /\ req'[r].job = "none"
    <3>1. req \in [Reqs -> ReqSet] /\ Parked(req, ackq, reqq)
      BY <1>0, RefParts
    <3> QED BY <1>4, <3>1, JobRefs
  <2>2. SameRefs(req, req')
    BY <1>4, <2>1 DEF SameRefs, Holders, Sweeps
  <2> QED BY <1>0, <1>4, <2>1, <2>2, StaySelf, StayKept
<1> QED BY <1>1, <1>2, <1>3, <1>4

\* nxt_router_app_port_get(): the request takes its reference, a start another.
LEMMA PortGetKept ==
  ASSUME RefInv, IdleInv, NotAdjusting, NEW r \in Reqs, PortGet(r)
  PROVE  Kept
<1> USE DEF life, idling
<1>0. /\ conf # "freed" /\ UNCHANGED <<eco, adj, conf, requeue>> /\ req[r].st = "new"
  BY DEF PortGet, Running
<1>1. /\ use \in Int /\ eco.det \in Int /\ req \in [Reqs -> ReqSet]
      /\ att \in [Atts -> AttSet] /\ Parked(req, ackq, reqq)
  BY <1>0, RefParts
<1>2. PICK sent \in {"wait", "failing"} :
        \E R, start :
          /\ R = [req EXCEPT ![r] = Req(sent, IF sent = "wait" THEN "queued" ELSE "none",
                                        None, 0, gen, "queued", "none", "no")]
          /\ \/ /\ StartFailed(r, pending, R, reqq, Append(ackq, r))
                /\ Uses(1, r) /\ UNCHANGED att
             \/ /\ StartIf(start, att, pending, 1, r)
                /\ req' = R /\ ackq' = Append(ackq, r) /\ reqq' = reqq
  BY Zenon DEF PortGet
<1> DEFINE y == Req(sent, IF sent = "wait" THEN "queued" ELSE "none",
                    None, 0, gen, "queued", "none", "no")
<1>3. y.st = sent /\ y.job = "none" /\ y \in ReqSet
  <2>1. gen \in 0..MaxGen /\ 0 \in 0..Contexts
    BY SlotInts, LimitsAssumption DEF IdleInv
  <2> QED BY <2>1 DEF Req, ReqSet
<1>4. PICK R, start :
        /\ R = [req EXCEPT ![r] = y]
        /\ \/ /\ StartFailed(r, pending, R, reqq, Append(ackq, r))
              /\ Uses(1, r) /\ UNCHANGED att
           \/ /\ StartIf(start, att, pending, 1, r)
              /\ req' = R /\ ackq' = Append(ackq, r) /\ reqq' = reqq
  BY <1>2
<1> HIDE DEF y
<1>5. /\ R \in [Reqs -> ReqSet] /\ \A x \in Reqs : x # r => R[x] = req[x]
      /\ R[r].st = sent /\ R[r].job = "none"
  BY <1>1, <1>3, <1>4
<1>6. req[r].job = "none" /\ r \notin Members(ackq) \cup Members(reqq)
  BY <1>0, <1>1 DEF Parked
<1>7. Parked(R, Append(ackq, r), reqq)
  <2>1. Parked(R, ackq, reqq)
    BY <1>1, <1>5, StaysQueued
  <2> QED BY <1>5, <1>6, <2>1, JoinsQueue
<1>8. /\ Cardinality(Holders(R)) = Cardinality(Holders(req)) + 1
      /\ Cardinality(Sweeps(R)) = Cardinality(Sweeps(req))
  <2>1. req[r].st \notin Holding /\ R[r].st \in Holding
    BY <1>0, <1>5 DEF Holding
  <2>2. req[r].job = "requeue" <=> R[r].job = "requeue"
    BY <1>5, <1>6
  <2> QED BY <1>5, <2>1, <2>2, HoldersMove
<1>9. /\ Parked(req', ackq', reqq') /\ HoldN' = HoldN + 1 /\ SweepN' = SweepN
  <2>1. CASE StartFailed(r, pending, R, reqq, Append(ackq, r))
    <3>1. Parked(req', ackq', reqq') /\ SameRefs(R, req')
      BY <1>5, <1>7, <2>1, FailedRefs
    <3> QED BY <1>8, <3>1 DEF SameRefs, HoldN, SweepN
  <2>2. CASE req' = R /\ ackq' = Append(ackq, r) /\ reqq' = reqq
    BY <1>7, <1>8, <2>2 DEF HoldN, SweepN
  <2> QED BY <1>4, <2>1, <2>2
<1>10. /\ use' \in Int /\ use' = use + 1 + (PostN' - PostN)
       /\ Count(att', {"held"}) = Count(att, {"held"})
  <2>1. CASE Uses(1, r) /\ UNCHANGED att
    <3>1. use' = use + 1 /\ PostN' = PostN /\ Count(att', {"held"}) = Count(att, {"held"})
      BY <2>1 DEF Uses, PostN
    <3> QED BY <1>1, <3>1, CountsTyped
  <2>2. CASE StartIf(start, att, pending, 1, r)
    BY <1>1, <2>2, PostRefs DEF PostN
  <2> QED BY <1>4, <2>1, <2>2
<1>11. /\ AdjN' = AdjN /\ eco'.det = eco.det
       /\ use' - use = (HoldN' - HoldN) + (PostN' - PostN) + (AdjN' - AdjN)
                       + (eco'.det - eco.det)
  <2>1. AdjN' = AdjN /\ eco'.det = eco.det
    BY <1>0 DEF AdjN
  <2> QED BY <1>1, <1>9, <1>10, <2>1, CountsTyped
<1> QED BY <1>0, <1>1, <1>9, <1>10, <1>11, MovedKept

\* A request changes its state and keeps its reference and its post.
LEMMA StateKeeps ==
  ASSUME NEW R, NEW S, NEW r \in Reqs, \A x \in Reqs : x # r => S[x] = R[x],
         R[r].st \in Holding, S[r].st \in Holding, S[r].job = R[r].job
  PROVE  SameRefs(R, S)
BY DEF SameRefs, Holders, Sweeps

LEMMA SameKept ==
  ASSUME RefInv, IdleInv, conf # "freed", NotAdjusting, UNCHANGED <<conf, requeue, adj>>,
         Count(att', {"held"}) = Count(att, {"held"}),
         use' \in Int, eco'.det \in Int,
         use' = use + (eco'.det - eco.det) + (PostN' - PostN),
         SameRefs(req, req'), Parked(req', ackq', reqq')
  PROVE  Kept
<1>1. AdjN' = AdjN /\ HoldN' = HoldN /\ SweepN' = SweepN
  BY SameCounted DEF AdjN
<1>2. use' - use = (HoldN' - HoldN) + (PostN' - PostN) + (AdjN' - AdjN)
                   + (eco'.det - eco.det)
  BY <1>1, RefParts, CountsTyped
<1> QED BY <1>1, <1>2, MovedKept

LEMMA HeadersAckKept ==
  ASSUME RefInv, IdleInv, NotAdjusting, NEW r \in Reqs, HeadersAck(r)
  PROVE  Kept
<1> DEFINE w == req[r].w
<1> USE DEF life
<1>0. /\ conf # "freed" /\ UNCHANGED <<conf, requeue, adj>>
      /\ req[r].st = "wait" /\ req[r].wk = "acked"
      /\ ackq' = Without(ackq, r) /\ reqq' = Without(reqq, r)
  BY DEF HeadersAck, EngineFree, Running
<1>1. /\ use \in Int /\ eco.det \in Int /\ req \in [Reqs -> ReqSet] /\ req[r] \in ReqSet
      /\ att \in [Atts -> AttSet] /\ Parked(req, ackq, reqq) /\ QueuesSound(eco)
      /\ Sound(eco, att, req, now)
  BY <1>0, RefParts
<1>2. w \in Atts
  <2>1. LinkSound(att, req[r])
    BY <1>1 DEF Sound
  <2> QED BY <1>0, <2>1 DEF LinkSound
<1>3. ASSUME NEW st \in {"failing", "acked"}, req' = [req EXCEPT ![r].st = st]
      PROVE  SameRefs(req, req') /\ Parked(req', ackq', reqq')
  <2>1. /\ \A x \in Reqs : x # r => req'[x] = req[x]
        /\ req'[r].st = st /\ req'[r].job = req[r].job
    BY <1>1, <1>3 DEF ReqSet
  <2>2. req[r].st \in Holding /\ st \in Holding /\ st # "new"
    BY <1>0 DEF Holding
  <2>3. SameRefs(req, req')
    BY <2>1, <2>2, StateKeeps
  <2>4. Parked(req', Without(ackq, r), Without(reqq, r))
    BY <1>1, <2>1, <2>2, LeavesQueues
  <2> QED BY <1>0, <2>3, <2>4
<1>4. CASE req' = [req EXCEPT ![r].st = "failing"] /\ UNCHANGED <<att, eco, holding>>
  <2>1. SameRefs(req, req') /\ Parked(req', ackq', reqq')
    BY <1>3, <1>4
  <2> QED BY <1>0, <1>4, <2>1, StaySelf, StayKept DEF holding
<1>5. ASSUME req' = [req EXCEPT ![r].st = "acked"],
             NEW p, eco' = WithPort(PortBusy(eco, w), w, p),
             NEW start, StartIf(start, att, pending, 0, r)
      PROVE  Kept
  <2>1. SameRefs(req, req') /\ Parked(req', ackq', reqq')
    BY <1>3, <1>5
  <2>2. eco'.det = eco.det
    <3>1. PortBusy(eco, w).det = eco.det
      BY <1>1, <1>2, BusySound
    <3> QED BY <1>5, <3>1 DEF WithPort, Eco
  <2>3. /\ use' \in Int /\ use' = use + 0 + (PostN' - Count(att, {"posted"}))
        /\ Count(att', {"held"}) = Count(att, {"held"})
    BY <1>1, <1>5, PostRefs
  <2>4. use' = use + (eco'.det - eco.det) + (PostN' - PostN)
    BY <1>1, <2>2, <2>3, CountsTyped DEF PostN
  <2> QED BY <1>0, <1>1, <2>1, <2>2, <2>3, <2>4, SameKept
<1>6. \/ req' = [req EXCEPT ![r].st = "failing"] /\ UNCHANGED <<att, eco, holding>>
      \/ /\ req' = [req EXCEPT ![r].st = "acked"]
         /\ \E p : eco' = WithPort(PortBusy(eco, w), w, p)
         /\ \E start : StartIf(start, att, pending, 0, r)
  BY Zenon DEF HeadersAck
<1> QED BY <1>4, <1>5, <1>6

LEMMA UpgradeKept ==
  ASSUME RefInv, IdleInv, NotAdjusting, NEW r \in Reqs, Upgrade(r)
  PROVE  Kept
<1>0. /\ conf # "freed" /\ UNCHANGED <<att, conf, requeue, adj, use, ackq, reqq>>
      /\ req[r].st = "acked" /\ req' = [req EXCEPT ![r].st = "upgraded"]
  BY DEF Upgrade, EngineFree, Running, starting, life, holding, parked
<1>1. req \in [Reqs -> ReqSet] /\ req[r] \in ReqSet /\ Parked(req, ackq, reqq)
  BY <1>0, RefParts
<1>2. eco'.det = eco.det
  BY DEF Upgrade, WithPort, Eco
<1>3. /\ \A x \in Reqs : x # r => req'[x] = req[x]
      /\ req'[r].st = "upgraded" /\ req'[r].job = req[r].job
  BY <1>0, <1>1 DEF ReqSet
<1>4. SameRefs(req, req')
  <2>1. req[r].st \in Holding /\ req'[r].st \in Holding
    BY <1>0, <1>3 DEF Holding
  <2> QED BY <1>3, <2>1, StateKeeps
<1>5. Parked(req', ackq', reqq')
  BY <1>0, <1>1, <1>3, StaysQueued
<1> QED BY <1>0, <1>2, <1>4, <1>5, StaySelf, StayKept

\* nxt_router_app_abandon(): the request keeps its reference until it is
\* settled, and a worker that it keeps out of the idle queues has one too.
LEMMA AppTimeoutKept ==
  ASSUME RefInv, IdleInv, NotAdjusting, NEW r \in Reqs, AppTimeout(r)
  PROVE  Kept
<1> DEFINE w == req[r].w
           e == Detached(eco, w, eco.port[w].app, eco.port[w].router + 1)
           b == PortBusy(e, w)
<1>0. /\ conf # "freed" /\ UNCHANGED <<conf, requeue, adj, ackq, reqq>>
      /\ req[r].st = "acked" /\ req' = [req EXCEPT ![r].st = "abandoned"]
      /\ \E p : eco' = WithPort(b, w, p)
      /\ \E start : StartIf(start, att, pending, e.det - eco.det, r)
  BY Zenon DEF AppTimeout, EngineFree, Running, life, parked
<1>1. /\ use \in Int /\ eco.det \in Int /\ req \in [Reqs -> ReqSet] /\ req[r] \in ReqSet
      /\ att \in [Atts -> AttSet] /\ Parked(req, ackq, reqq) /\ QueuesSound(eco)
      /\ Sound(eco, att, req, now)
  BY <1>0, RefParts
<1>2. w \in Atts
  BY <1>0, <1>1, Behind DEF Held
<1>3. QueuesSound(e)
  <2>1. eco.port[w].app \in Nat /\ eco.port[w].router + 1 \in Nat
    BY <1>1, <1>2, SoundTypes
  <2>2. DetachedTo(eco, e, w, eco.port[w].app, eco.port[w].router + 1)
    BY <1>1, <1>2, <2>1, DetachedSound
  <2> HIDE DEF e
  <2> QED BY <2>2 DEF DetachedTo, Ported
<1> HIDE DEF e
<1>4. eco'.det = e.det /\ e.det \in Int
  <2>1. b.det = e.det
    BY <1>2, <1>3, BusySound
  <2>2. e.det \in Int
    BY <1>3, EcoTypes DEF QueuesSound
  <2> HIDE DEF b
  <2> QED BY <1>0, <2>1, <2>2 DEF WithPort, Eco
<1>5. /\ \A x \in Reqs : x # r => req'[x] = req[x]
      /\ req'[r].st = "abandoned" /\ req'[r].job = req[r].job
  BY <1>0, <1>1 DEF ReqSet
<1>6. SameRefs(req, req')
  <2>1. req[r].st \in Holding /\ req'[r].st \in Holding
    BY <1>0, <1>5 DEF Holding
  <2> QED BY <1>5, <2>1, StateKeeps
<1>7. Parked(req', ackq', reqq')
  BY <1>0, <1>1, <1>5, StaysQueued
<1>8. /\ use' \in Int
      /\ use' = use + (e.det - eco.det) + (PostN' - Count(att, {"posted"}))
      /\ Count(att', {"held"}) = Count(att, {"held"})
  <2>1. e.det - eco.det \in Int
    BY <1>1, <1>4
  <2>2. PICK start : StartIf(start, att, pending, e.det - eco.det, r)
    BY <1>0
  <2> QED BY <1>1, <2>1, <2>2, PostRefs
<1>9. use' = use + (eco'.det - eco.det) + (PostN' - PostN) /\ eco'.det \in Int
  BY <1>4, <1>8 DEF PostN
<1> QED BY <1>0, <1>6, <1>7, <1>8, <1>9, SameKept

\* nxt_router_app_requeue_handler(): its reference passes to the start that
\* the last handler of a sweep posts.
LEMMA RequeueAttempts ==
  ASSUME RefInv, IdleInv, conf # "freed", NEW r \in Reqs, req[r].job = "requeue",
         att' = [a \in Atts |->
                   IF requeue = 1 /\ att[a].ph = "held" THEN Posted ELSE att[a]],
         requeue' = requeue - 1, SweepN' = SweepN - 1
  PROVE  /\ Swept(req', att', requeue')
         /\ PostN' - PostN = IF requeue = 1 THEN 1 ELSE 0
<1>0. /\ att \in [Atts -> AttSet] /\ requeue = SweepN
      /\ Count(att, {"held"}) = IF requeue > 0 THEN 1 ELSE 0
  BY RefParts DEF Swept, SweepN
<1>1. requeue \in Nat /\ requeue > 0
  <2>1. r \in Sweeps(req) /\ Sweeps(req) \subseteq Reqs
    BY DEF Sweeps
  <2>2. IsFiniteSet(Sweeps(req)) /\ SweepN \in Nat
    BY <2>1, ReqsCounted DEF SweepN
  <2>3. SweepN # 0
    BY <2>1, <2>2, FS_EmptySet DEF SweepN
  <2> QED BY <1>0, <2>2, <2>3
<1>2. Count(att, {"held"}) = 1 /\ requeue' = SweepN'
  BY <1>0, <1>1
<1>3. CASE requeue = 1
  <2>1. Cardinality(Of(att, {"held"})) = 1 /\ IsFiniteSet(Of(att, {"held"}))
    BY <1>2, OfAtts, AttemptsCounted, FS_Subset, NamesAssumption DEF Count
  <2>2. PICK b : Of(att, {"held"}) = {b}
    BY <2>1, FS_Singleton
  <2>3. b \in Atts /\ att[b].ph = "held" /\ \A a \in Atts : att[a].ph = "held" => a = b
    BY <2>2 DEF Of
  <2>4. att' = [att EXCEPT ![b] = Posted]
    BY <1>0, <1>3, <2>3
  <2>5. /\ Posted \in AttSet
        /\ One(Posted.ph, {"posted"}) = 1 /\ One(Posted.ph, {"held"}) = 0
        /\ One(att[b].ph, {"posted"}) = 0 /\ One(att[b].ph, {"held"}) = 1
    BY <2>3, Records DEF One
  <2>6. /\ Count(att', {"posted"}) = Count(att, {"posted"}) + 1 - 0
        /\ Count(att', {"held"}) = Count(att, {"held"}) + 0 - 1
    <3>1. \A P : Count(att', P) = Count(att, P) + One(Posted.ph, P) - One(att[b].ph, P)
      BY <1>0, <2>3, <2>4, <2>5, CountMove
    <3> QED BY <2>5, <3>1
  <2>7. PostN' - PostN = 1 /\ Count(att', {"held"}) = 0
    BY <1>2, <2>6, CountType DEF PostN
  <2>8. requeue' = 0
    BY <1>3
  <2>9. requeue' = Cardinality(Sweeps(req')) /\ ~(requeue' > 0)
    BY <1>2, <2>8 DEF SweepN
  <2>10. Swept(req', att', requeue')
    BY <2>7, <2>9 DEF Swept
  <2> QED BY <1>3, <2>7, <2>10
<1>4. CASE requeue # 1
  <2>1. att' = att
    BY <1>0, <1>4
  <2>2. requeue' > 0
    BY <1>1, <1>4
  <2>3. PostN' - PostN = 0
    BY <2>1, CountsTyped DEF PostN
  <2> QED BY <1>2, <1>4, <2>1, <2>2, <2>3 DEF Swept, SweepN
<1> QED BY <1>3, <1>4

LEMMA RequeueKept ==
  ASSUME RefInv, IdleInv, NotAdjusting, NEW r \in Reqs, RequeueHandler(r)
  PROVE  Kept
<1> DEFINE d == IF requeue = 1 THEN 0 ELSE -1
<1>0. /\ conf # "freed" /\ conf' = conf /\ req[r].job = "requeue"
      /\ requeue' = requeue - 1
      /\ att' = [a \in Atts |->
                   IF requeue = 1 /\ att[a].ph = "held" THEN Posted ELSE att[a]]
  BY DEF RequeueHandler, EngineFree, Running, life
<1>1. /\ use \in Int /\ eco.det \in Int /\ req \in [Reqs -> ReqSet] /\ req[r] \in ReqSet
      /\ Parked(req, ackq, reqq)
  BY <1>0, RefParts
<1>2. req[r].st # "new" /\ r \notin Members(ackq) \cup Members(reqq)
  BY <1>0, <1>1 DEF Parked
<1>3. \/ /\ Retracts(r)
         /\ req' = [req EXCEPT ![r].cancel = "retracted", ![r].wk = "none",
                               ![r].job = "none"]
         /\ reqq' = Append(reqq, r)
         /\ Uses(d, r) /\ UNCHANGED <<eco, adj, ackq>>
      \/ Linked(r) /\ Unlink(r, "none", d)
      \/ /\ req' = [req EXCEPT ![r].job = "none"]
         /\ Uses(d, r) /\ UNCHANGED <<eco, adj, ackq, reqq>>
  BY DEF RequeueHandler
<1>4. d \in Int
  OBVIOUS
<1> HIDE DEF d
<1>5. /\ use' \in Int /\ use' = use + d + (HoldN' - HoldN) + (AdjN' - AdjN)
      /\ eco'.det = eco.det /\ SweepN' = SweepN - 1 /\ Parked(req', ackq', reqq')
  <2>1. ASSUME \A x \in Reqs : x # r => req'[x] = req[x],
               req'[r].st = req[r].st, req'[r].job = "none",
               Uses(d, r), UNCHANGED <<eco, adj>>
        PROVE  /\ use' \in Int /\ use' = use + d + (HoldN' - HoldN) + (AdjN' - AdjN)
               /\ eco'.det = eco.det /\ SweepN' = SweepN - 1
    <3>1. HoldN' = HoldN /\ SweepN' = SweepN - 1
      <4>1. req[r].job = "requeue" /\ req'[r].job # "requeue"
        BY <1>0, <2>1
      <4>2. /\ Cardinality(Holders(req')) = Cardinality(Holders(req))
            /\ Cardinality(Sweeps(req')) = Cardinality(Sweeps(req)) - 1
        BY <2>1, <4>1, HoldersMove
      <4> QED BY <4>2 DEF HoldN, SweepN
    <3>2. AdjN' = AdjN /\ use' = use + d /\ eco'.det = eco.det
      BY <2>1 DEF AdjN, Uses
    <3>3. HoldN \in Nat /\ AdjN \in Nat
      BY CountsTyped
    <3> QED BY <1>1, <1>4, <3>1, <3>2, <3>3
  <2>2. CASE /\ Retracts(r)
             /\ req' = [req EXCEPT ![r].cancel = "retracted", ![r].wk = "none",
                                   ![r].job = "none"]
             /\ reqq' = Append(reqq, r)
             /\ Uses(d, r) /\ UNCHANGED <<eco, adj, ackq>>
    <3> DEFINE y == [req[r] EXCEPT !.cancel = "retracted", !.wk = "none", !.job = "none"]
    <3>1. y.st = req[r].st /\ y.job = "none"
      BY <1>1 DEF ReqSet
    <3>2. req' = [req EXCEPT ![r] = y]
      BY <2>2
    <3> HIDE DEF y
    <3>3. /\ \A x \in Reqs : x # r => req'[x] = req[x]
          /\ req'[r].st = req[r].st /\ req'[r].job = "none"
      BY <1>1, <3>1, <3>2
    <3>4. Parked(req', ackq, reqq)
      BY <1>1, <1>2, <3>3, StaysQueued
    <3>5. Parked(req', ackq, Append(reqq, r))
      BY <1>2, <3>3, <3>4, JoinsQueue
    <3> QED BY <2>1, <2>2, <3>3, <3>5
  <2>3. CASE Linked(r) /\ Unlink(r, "none", d)
    <3>1. /\ use' \in Int /\ use' = use + d - 1 + (AdjN' - AdjN)
          /\ eco'.det = eco.det /\ HoldN' = HoldN - 1
          /\ Parked(req', ackq', reqq') /\ SweepN' = SweepN - 1
      BY <1>0, <1>4, <2>3, UnlinkRefs
    <3> QED BY <1>1, <1>4, <3>1, CountsTyped
  <2>4. CASE /\ req' = [req EXCEPT ![r].job = "none"]
             /\ Uses(d, r) /\ UNCHANGED <<eco, adj, ackq, reqq>>
    <3>1. /\ Parked(req', ackq, reqq)
          /\ \A x \in Reqs : x # r => req'[x] = req[x]
          /\ req'[r].st = req[r].st /\ req'[r].job = "none"
      BY <1>1, <2>4, JobRefs
    <3> QED BY <2>1, <2>4, <3>1
  <2> QED BY <1>3, <2>2, <2>3, <2>4
<1>6. Swept(req', att', requeue') /\ PostN' - PostN = IF requeue = 1 THEN 1 ELSE 0
  BY <1>0, <1>5, RequeueAttempts
<1>7. d = (PostN' - PostN) + (SweepN' - SweepN)
  <2>1. SweepN' - SweepN = -1
    BY <1>5, CountsTyped
  <2>2. CASE requeue = 1
    BY <1>6, <2>1, <2>2 DEF d
  <2>3. CASE requeue # 1
    BY <1>6, <2>1, <2>3 DEF d
  <2> QED BY <2>2, <2>3
<1>8. ConfN' = ConfN /\ NowN' = NowN
  BY <1>0, NowKept DEF ConfN
<1>9. Balanced
  BY <1>1, <1>4, <1>5, <1>7, <1>8, CountsTyped DEF Balanced
<1> QED BY <1>5, <1>6, <1>9 DEF Kept

\* nxt_router_app_resend()
LEMMA ResendKept ==
  ASSUME RefInv, IdleInv, NotAdjusting, NEW r \in Reqs, Resend(r)
  PROVE  Kept
<1> DEFINE y == [req[r] EXCEPT !.cancel = "queued", !.wk = "queued", !.job = "none"]
           R == [req EXCEPT ![r] = y]
<1> USE DEF parked, holding
<1>0. conf # "freed" /\ UNCHANGED <<conf, requeue>> /\ req[r].job = "resend"
  BY DEF Resend, EngineFree, Running, life
<1>1. /\ use \in Int /\ eco.det \in Int /\ req \in [Reqs -> ReqSet] /\ req[r] \in ReqSet
      /\ Parked(req, ackq, reqq) /\ att \in [Atts -> AttSet] /\ SameRefs(req, req)
  BY <1>0, RefParts
<1>2. req[r].st # "new" /\ r \notin Members(ackq) \cup Members(reqq)
  BY <1>0, <1>1 DEF Parked
<1>3. \/ /\ req' = [req EXCEPT ![r].job = "none"]
         /\ UNCHANGED <<att, eco, adj, ackq, reqq, use>>
      \/ /\ StartFailed(r, pending, R, reqq, Append(ackq, r))
         /\ UNCHANGED <<att, eco, adj, use>>
      \/ /\ \E start : StartIf(start, att, pending, 0, r)
         /\ req' = R /\ ackq' = Append(ackq, r) /\ UNCHANGED <<eco, adj, reqq>>
      \/ /\ \E start : StartIf(start, att, pending, 0, r)
         /\ UNCHANGED <<req, eco, adj, ackq, reqq>>
      \/ OnShared(r) /\ Unlink(r, "none", 0) /\ UNCHANGED att
  BY DEF Resend
<1>4. y \in ReqSet /\ y.st = req[r].st /\ y.job = "none"
  BY <1>1 DEF ReqSet
<1> HIDE DEF y
<1>5. /\ R \in [Reqs -> ReqSet] /\ \A x \in Reqs : x # r => R[x] = req[x]
      /\ R[r].st = req[r].st /\ R[r].job = "none"
  BY <1>1, <1>4
<1> HIDE DEF R
<1>6. Parked(R, Append(ackq, r), reqq) /\ SameRefs(req, R)
  <2>1. Parked(R, ackq, reqq)
    BY <1>1, <1>2, <1>5, StaysQueued
  <2>2. Parked(R, Append(ackq, r), reqq)
    BY <1>2, <1>5, <2>1, JoinsQueue
  <2> QED BY <1>0, <1>5, <2>2 DEF SameRefs, Holders, Sweeps
<1>7. ASSUME NEW start, StartIf(start, att, pending, 0, r), UNCHANGED <<eco, adj>>,
             SameRefs(req, req'), Parked(req', ackq', reqq')
      PROVE  Kept
  <2>1. /\ use' \in Int /\ use' = use + 0 + (PostN' - Count(att, {"posted"}))
        /\ Count(att', {"held"}) = Count(att, {"held"})
    BY <1>1, <1>7, PostRefs
  <2>2. use' = use + (eco'.det - eco.det) + (PostN' - PostN) /\ eco'.det \in Int
    BY <1>1, <1>7, <2>1, CountsTyped DEF PostN
  <2> QED BY <1>0, <1>7, <2>1, <2>2, SameKept
<1>8. CASE /\ req' = [req EXCEPT ![r].job = "none"]
           /\ UNCHANGED <<att, eco, adj, ackq, reqq, use>>
  <2>1. /\ Parked(req', ackq, reqq)
        /\ \A x \in Reqs : x # r => req'[x] = req[x]
        /\ req'[r].st = req[r].st /\ req'[r].job = "none"
    BY <1>1, <1>8, JobRefs
  <2>2. SameRefs(req, req')
    BY <1>0, <2>1 DEF SameRefs, Holders, Sweeps
  <2> QED BY <1>0, <1>8, <2>1, <2>2, StaySelf, StayKept
<1>9. CASE /\ StartFailed(r, pending, R, reqq, Append(ackq, r))
           /\ UNCHANGED <<att, eco, adj, use>>
  <2>1. Parked(req', ackq', reqq') /\ SameRefs(R, req')
    BY <1>5, <1>6, <1>9, FailedRefs
  <2>2. SameRefs(req, req')
    BY <1>6, <2>1 DEF SameRefs
  <2> QED BY <1>0, <1>9, <2>1, <2>2, StaySelf, StayKept
<1>10. CASE /\ \E start : StartIf(start, att, pending, 0, r)
            /\ req' = R /\ ackq' = Append(ackq, r) /\ UNCHANGED <<eco, adj, reqq>>
  BY <1>6, <1>7, <1>10
<1>11. CASE /\ \E start : StartIf(start, att, pending, 0, r)
            /\ UNCHANGED <<req, eco, adj, ackq, reqq>>
  BY <1>1, <1>7, <1>11
<1>12. CASE OnShared(r) /\ Unlink(r, "none", 0) /\ UNCHANGED att
  <2>1. Linked(r) /\ req[r].job # "requeue"
    BY <1>0, <1>12 DEF Linked, OnShared
  <2> QED BY <1>0, <1>12, <2>1, SettledKept
<1> QED BY <1>3, <1>8, <1>9, <1>10, <1>11, <1>12

-----------------------------------------------------------------------------
(* Steps on the workers.                                                   *)

\* The requests of a queue are posted.
LEMMA PostedJobs ==
  ASSUME NEW R \in [Reqs -> ReqSet], NEW q \in Seq(Reqs),
         NEW job \in {"requeue", "resend"}, NEW S,
         S = [r \in Reqs |-> IF r \in Members(q) THEN [R[r] EXCEPT !.job = job] ELSE R[r]]
  PROVE  \A r \in Reqs : /\ S[r].st = R[r].st
                         /\ r \in Members(q) => S[r].job = job
                         /\ r \notin Members(q) => S[r] = R[r]
<1>1. \A r \in Reqs : /\ [R[r] EXCEPT !.job = job].st = R[r].st
                      /\ [R[r] EXCEPT !.job = job].job = job
  BY DEF ReqSet
<1> QED BY <1>1

LEMMA WorkerReadyKept ==
  ASSUME RefInv, IdleInv, NotAdjusting, NEW a \in Atts, WorkerReady(a)
  PROVE  Kept
<1> DEFINE q == [att[a] EXCEPT !.ph = "quit"]
           u == [att[a] EXCEPT !.ph = "up"]
           A == [att EXCEPT ![a] = q]
           e == WithPort(eco, a, NewPort)
           S == [r \in Reqs |-> IF r \in Members(reqq) THEN [req[r] EXCEPT !.job = "resend"]
                                                       ELSE req[r]]
<1>0. /\ conf # "freed" /\ UNCHANGED <<conf, requeue, ackq>>
      /\ att[a].ph \in {"sent", "lateW"}
  BY DEF WorkerReady, MainFree, Running, life
<1>1. /\ use \in Int /\ eco.det \in Int /\ req \in [Reqs -> ReqSet]
      /\ att \in [Atts -> AttSet] /\ Parked(req, ackq, reqq) /\ SameRefs(req, req)
      /\ adj \in {"no", "queued"}
  BY <1>0, RefParts DEF IdleInv, WatchInv
<1>2. q \in AttSet /\ q.ph = "quit" /\ u.ph = "up"
  <2>1. att[a] \in AttSet /\ "quit" \in Phases /\ "up" \in Phases
    BY <1>1 DEF Phases
  <2> QED BY <2>1, Records
<1>3. \/ /\ \E start, pe : StartIf(start, A, pe, 0, "main")
         /\ UNCHANGED <<eco, adj, req, reqq>>
      \/ /\ att' = [att EXCEPT ![a] = u] /\ req' = S /\ reqq' = <<>>
         /\ BackToIdle(e, a, TRUE, 0, "main")
  BY Zenon DEF WorkerReady
<1>4. e.det = eco.det
  BY DEF WithPort, Eco
<1> HIDE DEF q, u, e
<1>5. ASSUME NEW start, NEW pe, StartIf(start, A, pe, 0, "main"),
             UNCHANGED <<eco, adj, req, reqq>>
      PROVE  Kept
  <2>1. /\ A \in [Atts -> AttSet] /\ StartsStay(att, A)
        /\ \A b \in Atts : att[b].ph = "none" => A[b].ph = "none"
    BY <1>0, <1>1, <1>2 DEF StartsStay
  <2> HIDE DEF A
  <2>2. /\ use' \in Int /\ use' = use + 0 + (PostN' - Count(A, {"posted"}))
        /\ Count(att', {"held"}) = Count(A, {"held"})
    BY <1>1, <1>5, <2>1, PostRefs
  <2>3. /\ Count(A, {"posted"}) = PostN /\ Count(A, {"held"}) = Count(att, {"held"})
    BY <2>1, StayCounts DEF PostN
  <2>4. use' = use + (eco'.det - eco.det) + (PostN' - PostN) /\ eco'.det \in Int
    BY <1>1, <1>5, <2>2, <2>3, CountsTyped
  <2>5. SameRefs(req, req') /\ Parked(req', ackq', reqq')
    BY <1>0, <1>1, <1>5
  <2> QED BY <1>0, <1>5, <2>2, <2>3, <2>4, <2>5, SameKept
<1>6. CASE /\ att' = [att EXCEPT ![a] = u] /\ req' = S /\ reqq' = <<>>
           /\ BackToIdle(e, a, TRUE, 0, "main")
  <2>1. StartsStay(att, att')
    BY <1>0, <1>1, <1>2, <1>6 DEF StartsStay
  <2>2. PostN' = PostN /\ Count(att', {"held"}) = Count(att, {"held"})
    BY <2>1, StayCounts DEF PostN
  <2>3. use' \in Int /\ use' = use + 0 + (AdjN' - AdjN) /\ eco'.det = eco.det
    <3>0. 0 \in Int
      OBVIOUS
    <3>1. BackToIdle(e, a, TRUE, 0, "main")
      BY <1>6, Zenon
    <3>2. use' \in Int /\ use' = use + 0 + (AdjN' - AdjN) /\ eco'.det = e.det
      BY <1>1, <3>0, <3>1, IdleRefs
    <3> QED BY <1>4, <3>2
  <2>4. \A r \in Reqs : /\ S[r].st = req[r].st
                        /\ r \in Members(reqq) => S[r].job = "resend"
                        /\ r \notin Members(reqq) => S[r] = req[r]
    BY <1>1, PostedJobs DEF Parked
  <2>5. \A r \in Members(reqq) : req[r].job = "none" /\ req[r].st # "new"
    BY <1>1 DEF Parked
  <2>6. SameRefs(req, req')
    <3>1. Members(reqq) \subseteq Reqs
      BY <1>1 DEF Parked, Members
    <3>2. \A r \in Reqs : S[r].job = "requeue" <=> req[r].job = "requeue"
      BY <2>4, <2>5
    <3> HIDE DEF S
    <3> QED BY <1>6, <2>4, <3>2 DEF SameRefs, Holders, Sweeps
  <2> HIDE DEF S
  <2>7. Parked(S, ackq, <<>>)
    <3>1. Members(ackq) \subseteq Reqs /\ Members(ackq) \cap Members(reqq) = {}
      <4>1. Members(ackq) \subseteq Reqs
        BY <1>1 DEF Parked, Members
      <4> QED BY <1>1, <4>1 DEF Parked
    <3>2. Members(<<>>) = {} /\ <<>> \in Seq(Reqs) /\ Distinct(<<>>)
      BY DEF Members, Distinct
    <3>3. \A r \in Members(ackq) : S[r].job = "none" /\ S[r].st # "new"
      BY <1>1, <2>4, <3>1 DEF Parked
    <3>4. \A r \in Reqs : S[r].st = "new" => S[r].job = "none"
      BY <1>1, <2>4, <2>5 DEF Parked
    <3> QED BY <1>1, <3>2, <3>3, <3>4 DEF Parked
  <2>8. HoldN' = HoldN /\ SweepN' = SweepN
    BY <2>6, SameCounted
  <2>9. use' - use = (HoldN' - HoldN) + (PostN' - PostN) + (AdjN' - AdjN)
                     + (eco'.det - eco.det) /\ eco'.det \in Int
    BY <1>1, <2>2, <2>3, <2>8, CountsTyped
  <2>10. Parked(req', ackq', reqq')
    BY <1>0, <1>6, <2>7
  <2> QED BY <1>0, <2>2, <2>3, <2>8, <2>9, <2>10, MovedKept
<1> QED BY <1>3, <1>5, <1>6

\* nxt_router_detached_apply()
LEMMA DetachedStartKept ==
  ASSUME RefInv, IdleInv, NotAdjusting, NEW a \in Atts, DetachedStart(a)
  PROVE  Kept
<1> DEFINE p == eco.port[a]
           e == Detached(eco, a, p.app + 1, p.router)
           d == IF p.det = 0 THEN 1 ELSE 0
<1>0. /\ conf # "freed" /\ UNCHANGED <<conf, requeue, adj, req, ackq, reqq>>
      /\ eco' = e \/ eco' = PortBusy(e, a)
      /\ \E start : StartIf(start, att, pending, d, "main")
  BY DEF DetachedStart, MainFree, Running, life, parked
<1>1. /\ use \in Int /\ eco.det \in Int /\ att \in [Atts -> AttSet] /\ QueuesSound(eco)
      /\ Parked(req, ackq, reqq) /\ SameRefs(req, req) /\ Sound(eco, att, req, now)
  BY <1>0, RefParts
<1>2. p.app \in Nat /\ p.router \in Nat /\ p.app + 1 \in Nat /\ p.det \in 0..1
  <2>1. p \in PortSet
    BY <1>1, SoundTypes
  <2> HIDE DEF p
  <2> QED BY <2>1 DEF PortSet
<1>3. QueuesSound(e)
  <2>1. DetachedTo(eco, e, a, p.app + 1, p.router)
    BY <1>1, <1>2, DetachedSound
  <2> HIDE DEF e
  <2> QED BY <2>1 DEF DetachedTo, Ported
<1>4. e.det = eco.det + d /\ d \in Int
  <2>1. e.det = eco.det + ((IF p.app + 1 + p.router > 0 THEN 1 ELSE 0) - p.det)
    BY DetachedRefs
  <2> HIDE DEF p, e
  <2>2. p.app + 1 + p.router > 0
    BY <1>2
  <2> QED BY <1>1, <1>2, <2>1, <2>2
<1> HIDE DEF e, d
<1>5. eco'.det = eco.det + d
  BY <1>0, <1>3, <1>4, BusySound
<1>6. PICK start : StartIf(start, att, pending, d, "main")
  BY <1>0
<1>7. /\ use' \in Int /\ use' = use + d + (PostN' - Count(att, {"posted"}))
      /\ Count(att', {"held"}) = Count(att, {"held"})
  BY <1>1, <1>4, <1>6, PostRefs
<1>8. use' = use + (eco'.det - eco.det) + (PostN' - PostN) /\ eco'.det \in Int
  BY <1>1, <1>4, <1>5, <1>7, CountsTyped DEF PostN
<1> QED BY <1>0, <1>1, <1>7, <1>8, SameKept

LEMMA DetachedFinishKept ==
  ASSUME RefInv, IdleInv, NotAdjusting, NEW a \in Atts, DetachedFinish(a)
  PROVE  Kept
<1> DEFINE p == eco.port[a]
           e == Detached(eco, a, p.app - 1, p.router)
<1>0. /\ conf # "freed" /\ UNCHANGED <<att, conf, requeue, req, ackq, reqq>> /\ p.app > 0
      /\ \/ p.app = 1 /\ p.router = 0 /\ BackToIdle(e, a, Open(a), -1, "main")
         \/ ~(p.app = 1 /\ p.router = 0) /\ eco' = e /\ UNCHANGED <<adj, use>>
  BY DEF DetachedFinish, MainFree, Running, life, parked, starting, holding
<1>1. /\ use \in Int /\ eco.det \in Int /\ att \in [Atts -> AttSet]
      /\ Parked(req, ackq, reqq) /\ SameRefs(req, req) /\ Sound(eco, att, req, now)
      /\ adj \in {"no", "queued"}
  BY <1>0, RefParts DEF IdleInv, WatchInv
<1>2. p.app \in Nat /\ p.router \in Nat /\ PortAgree(p, att[a].ph, req, a)
  BY <1>1, SoundTypes DEF Sound
<1>3. e.det = eco.det + ((IF p.app - 1 + p.router > 0 THEN 1 ELSE 0) - p.det)
  BY DetachedRefs
<1> HIDE DEF p, e
<1>4. p.det = 1
  BY <1>0, <1>2 DEF PortAgree
<1>5. /\ PostN' = PostN /\ HoldN' = HoldN /\ SweepN' = SweepN
      /\ Count(att', {"held"}) = Count(att, {"held"})
  BY <1>0 DEF PostN, HoldN, SweepN
<1>6. use' \in Int /\ eco'.det \in Int /\ use' - use = (AdjN' - AdjN) + (eco'.det - eco.det)
  <2>1. CASE p.app = 1 /\ p.router = 0 /\ BackToIdle(e, a, Open(a), -1, "main")
    <3>1. e.det = eco.det - 1
      BY <1>1, <1>3, <1>4, <2>1
    <3>2. use' \in Int /\ use' = use + (-1) + (AdjN' - AdjN) /\ eco'.det = e.det
      BY <1>1, <2>1, IdleRefs
    <3> QED BY <1>1, <3>1, <3>2, CountsTyped
  <2>2. CASE ~(p.app = 1 /\ p.router = 0) /\ eco' = e /\ UNCHANGED <<adj, use>>
    <3>1. p.app - 1 + p.router > 0
      BY <1>0, <1>2, <2>2
    <3>2. e.det = eco.det
      BY <1>1, <1>3, <1>4, <3>1
    <3>3. AdjN' = AdjN
      BY <2>2 DEF AdjN
    <3> QED BY <1>1, <2>2, <3>2, <3>3, CountsTyped
  <2> QED BY <1>0, <2>1, <2>2
<1>7. use' - use = (HoldN' - HoldN) + (PostN' - PostN) + (AdjN' - AdjN)
                   + (eco'.det - eco.det)
  BY <1>1, <1>5, <1>6, CountsTyped
<1>8. Parked(req', ackq', reqq')
  BY <1>0, <1>1
<1> QED BY <1>0, <1>5, <1>6, <1>7, <1>8, MovedKept

\* nxt_router_app_port_close(): a sweep takes a reference for each handler it
\* posts, and none of an earlier sweep is left.
LEMMA SweepBegins ==
  ASSUME RefInv, IdleInv, conf # "freed", requeue = 0, ackq # <<>>,
         req' = [r \in Reqs |-> IF r \in Members(ackq) THEN [req[r] EXCEPT !.job = "requeue"]
                                                       ELSE req[r]]
  PROVE  /\ HoldN' = HoldN /\ SweepN = 0 /\ SweepN' = Len(ackq) /\ Len(ackq) \in Nat \ {0}
         /\ Count(att, {"held"}) = 0 /\ Parked(req', <<>>, reqq)
<1>1. /\ req \in [Reqs -> ReqSet] /\ Parked(req, ackq, reqq) /\ Swept(req, att, requeue)
  BY RefParts
<1>2. ackq \in Seq(Reqs) /\ Distinct(ackq) /\ Members(ackq) \subseteq Reqs
  BY <1>1 DEF Parked, Members
<1>3. \A r \in Reqs : /\ req'[r].st = req[r].st
                      /\ r \in Members(ackq) => req'[r].job = "requeue"
                      /\ r \notin Members(ackq) => req'[r] = req[r]
  BY <1>1, <1>2, PostedJobs
<1>4. Cardinality(Sweeps(req)) = 0 /\ Count(att, {"held"}) = 0
  BY <1>1 DEF Swept
<1>5. Sweeps(req) = {}
  <2>1. IsFiniteSet(Sweeps(req))
    BY ReqsCounted DEF Sweeps
  <2> QED BY <1>4, <2>1, FS_EmptySet
<1>6. Sweeps(req') = Members(ackq)
  BY <1>2, <1>3, <1>5 DEF Sweeps
<1>7. Cardinality(Members(ackq)) = Len(ackq) /\ Len(ackq) \in Nat \ {0}
  <2>1. Cardinality(Members(ackq)) = Len(ackq)
    BY <1>2, MembersCounted
  <2> QED BY <1>2, <2>1
<1>8. Holders(req') = Holders(req)
  BY <1>3 DEF Holders
<1>9. Parked(req', <<>>, reqq)
  <2>1. Members(reqq) \subseteq Reqs
    BY <1>1 DEF Parked, Members
  <2>2. Members(<<>>) = {} /\ <<>> \in Seq(Reqs) /\ Distinct(<<>>)
    BY DEF Members, Distinct
  <2>3. \A r \in Members(reqq) : req'[r].job = "none" /\ req'[r].st # "new"
    BY <1>1, <1>3, <2>1 DEF Parked
  <2>4. \A r \in Reqs : req'[r].st = "new" => req'[r].job = "none"
    BY <1>1, <1>3 DEF Parked
  <2> QED BY <1>1, <2>2, <2>3, <2>4 DEF Parked
<1> QED BY <1>4, <1>6, <1>7, <1>8, <1>9 DEF HoldN, SweepN

LEMMA PortCloseKept ==
  ASSUME RefInv, IdleInv, NotAdjusting, NEW a \in Atts, PortClose(a)
  PROVE  Kept
<1> DEFINE x == IF att[a].ph = "orphan" THEN [att[a] EXCEPT !.ph = "stray"] ELSE NoAtt
           A == [att EXCEPT ![a] = x]
           H == Att("held", None, 0, "none")
           det == eco.port[a].det
           S == [r \in Reqs |-> IF r \in Members(ackq) THEN [req[r] EXCEPT !.job = "requeue"]
                                                       ELSE req[r]]
<1>0. /\ conf # "freed" /\ UNCHANGED <<conf, adj, reqq>>
      /\ att[a].ph \in {"dying", "orphan"}
      /\ eco' = Detached(PortBusy(eco, a), a, 0, 0)
  BY DEF PortClose, MainFree, Running, life
<1>1. \/ /\ requeue = 0 /\ ackq # <<>>
         /\ \E b \in Atts : Unused(b) /\ att' = [A EXCEPT ![b] = H]
         /\ req' = S /\ ackq' = <<>> /\ requeue' = Len(ackq)
         /\ Uses(Len(ackq) - det, "main")
      \/ /\ \E start : StartIf(start, A, pending, -det, "main")
         /\ UNCHANGED <<req, ackq, requeue>>
  BY DEF PortClose, Wants
<1>2. /\ use \in Int /\ eco.det \in Int /\ req \in [Reqs -> ReqSet]
      /\ att \in [Atts -> AttSet] /\ Parked(req, ackq, reqq) /\ SameRefs(req, req)
      /\ QueuesSound(eco) /\ Sound(eco, att, req, now)
  BY <1>0, RefParts
<1>3. det \in 0..1
  <2>1. eco.port[a] \in PortSet
    BY <1>2, SoundTypes
  <2> QED BY <2>1 DEF PortSet
<1>4. eco'.det = eco.det - det
  <2>1. PortBusy(eco, a).det = eco.det /\ PortBusy(eco, a).port[a].det = det
    BY <1>2, BusySound DEF SameCounts
  <2>2. eco'.det = PortBusy(eco, a).det
                   + ((IF 0 + 0 > 0 THEN 1 ELSE 0) - PortBusy(eco, a).port[a].det)
    BY <1>0, DetachedRefs
  <2>3. eco'.det = eco.det + (0 - det)
    BY <2>1, <2>2
  <2> HIDE DEF det
  <2> QED BY <1>2, <1>3, <2>3
<1>5. x.ph \in Gone /\ x \in AttSet
  <2>1. "stray" \in Phases /\ att[a] \in AttSet
    BY <1>2 DEF Phases
  <2> QED BY <2>1, Records DEF Gone
<1> HIDE DEF x, det
<1>6. /\ A \in [Atts -> AttSet] /\ StartsStay(att, A)
      /\ \A b \in Atts : att[b].ph = "none" => A[b].ph = "none"
  BY <1>0, <1>2, <1>5 DEF StartsStay, Gone
<1> HIDE DEF A
<1>7. Count(A, {"posted"}) = PostN /\ Count(A, {"held"}) = Count(att, {"held"})
  BY <1>6, StayCounts DEF PostN
<1>8. ASSUME requeue = 0, ackq # <<>>, NEW b \in Atts, Unused(b),
             att' = [A EXCEPT ![b] = H],
             req' = S, ackq' = <<>>, requeue' = Len(ackq), Uses(Len(ackq) - det, "main")
      PROVE  Kept
  <2>1. /\ HoldN' = HoldN /\ SweepN = 0 /\ SweepN' = Len(ackq) /\ Len(ackq) \in Nat \ {0}
        /\ Count(att, {"held"}) = 0 /\ Parked(req', <<>>, reqq)
    BY <1>0, <1>8, SweepBegins
  <2>2. A[b].ph = "none"
    BY <1>6, <1>8 DEF Unused
  <2>3. /\ H \in AttSet
        /\ One(H.ph, {"posted"}) = 0 /\ One(H.ph, {"held"}) = 1
        /\ One(A[b].ph, {"posted"}) = 0 /\ One(A[b].ph, {"held"}) = 0
    <3>1. "held" \in Phases /\ None \in Protos \cup {None} /\ 0 \in 0..MaxGen
          /\ "none" \in {"none", "queued", "started", "late", "sent", "proto"}
      BY LimitsAssumption DEF Phases
    <3>2. H \in AttSet /\ H.ph = "held"
      BY <3>1 DEF Att, AttSet
    <3> QED BY <2>2, <3>2 DEF One
  <2> HIDE DEF H
  <2>4. /\ Count(att', {"posted"}) = Count(A, {"posted"}) + 0 - 0
        /\ Count(att', {"held"}) = Count(A, {"held"}) + 1 - 0
    <3>1. \A P : Count(att', P) = Count(A, P) + One(H.ph, P) - One(A[b].ph, P)
      <4>1. A \in [Atts -> AttSet] /\ H \in AttSet /\ att' = [A EXCEPT ![b] = H]
        BY <1>6, <1>8, <2>3
      <4>2. ASSUME NEW P
            PROVE  Count([A EXCEPT ![b] = H], P) = Count(A, P) + One(H.ph, P) - One(A[b].ph, P)
        BY <4>1, CountMove
      <4> QED BY <4>1, <4>2
    <3> QED BY <2>3, <3>1
  <2>5. PostN' = PostN /\ Count(att', {"held"}) = 1
    BY <1>7, <2>1, <2>4, CountType DEF PostN
  <2>6. use' = use + (Len(ackq) - det)
    BY <1>8 DEF Uses
  <2>7. ConfN' = ConfN /\ NowN' = NowN /\ AdjN' = AdjN
    BY <1>0, NowKept DEF ConfN, AdjN
  <2>8. Balanced /\ use' \in Int
    <3>1. Len(ackq) \in Int /\ det \in Int
      BY <1>3, <2>1
    <3> QED BY <1>2, <1>4, <2>1, <2>5, <2>6, <2>7, <3>1, CountsTyped DEF Balanced
  <2>9. Swept(req', att', requeue')
    <3>1. requeue' = Cardinality(Sweeps(req')) /\ requeue' > 0
      BY <1>8, <2>1 DEF SweepN
    <3> QED BY <2>5, <3>1 DEF Swept
  <2>10. Parked(req', ackq', reqq')
    BY <1>0, <1>8, <2>1
  <2> QED BY <2>8, <2>9, <2>10 DEF Kept
<1>9. ASSUME NEW start, StartIf(start, A, pending, -det, "main"),
             UNCHANGED <<req, ackq, requeue>>
      PROVE  Kept
  <2>1. -det \in Int
    BY <1>3
  <2>2. /\ use' \in Int /\ use' = use + (-det) + (PostN' - Count(A, {"posted"}))
        /\ Count(att', {"held"}) = Count(A, {"held"})
    BY <1>2, <1>6, <1>9, <2>1, PostRefs
  <2>3. use' = use + (eco'.det - eco.det) + (PostN' - PostN) /\ eco'.det \in Int
    BY <1>2, <1>3, <1>4, <1>7, <2>2, CountsTyped
  <2>4. SameRefs(req, req') /\ Parked(req', ackq', reqq')
    BY <1>0, <1>2, <1>9
  <2> QED BY <1>0, <1>7, <1>9, <2>2, <2>3, <2>4, SameKept
<1> QED BY <1>1, <1>8, <1>9

-----------------------------------------------------------------------------
(* The reference count.                                                    *)

LEMMA RefInit == Init => RefInv
<1> SUFFICES ASSUME Init PROVE RefInv
  OBVIOUS
<1>1. /\ use = 2 /\ conf = "live" /\ adj = "no" /\ now = {} /\ requeue = 0
      /\ req = [r \in Reqs |-> NewReq] /\ ackq = <<>> /\ reqq = <<>>
      /\ eco.det = 0
  BY DEF Init, Eco
<1>2. \A r \in Reqs : req[r].st = "new" /\ req[r].job = "none"
  BY <1>1 DEF NewReq, Req
<1>3. Holders(req) = {} /\ Sweeps(req) = {}
  BY <1>2 DEF Holders, Sweeps, Holding
<1>4. Parked(req, ackq, reqq)
  BY <1>1, <1>2 DEF Parked, Members, Distinct
<1>5. Of(att, {"posted"}) = {} /\ Of(att, {"held"}) = {}
  <2>1. \A a \in Atts : att[a].ph \in {"up", "none"}
    BY DEF Init, Att, NoAtt
  <2> QED BY <2>1 DEF Of
<1>6. Swept(req, att, requeue)
  <2>1. Cardinality(Sweeps(req)) = 0 /\ Count(att, {"held"}) = 0
    BY <1>3, <1>5, NoneLeft DEF Count
  <2>2. ~(requeue > 0)
    BY <1>1
  <2> QED BY <1>1, <2>1, <2>2 DEF Swept
<1>7. /\ HoldN = 0 /\ SweepN = 0 /\ PostN = 0 /\ AdjN = 0 /\ NowN = 0 /\ ConfN = 2
  BY <1>1, <1>3, <1>5, FS_EmptySet DEF HoldN, SweepN, PostN, AdjN, NowN, ConfN, Count
<1> QED BY <1>1, <1>4, <1>6, <1>7 DEF RefInv

LEMMA RefNext ==
  ASSUME RefInv, IdleInv, Narrow, Next
  PROVE  (conf # "freed" /\ Kept) \/ FreeApp
<1> SUFFICES ASSUME ~FreeApp PROVE conf # "freed" /\ Kept
  OBVIOUS
<1>0. conf # "freed"
  <2> USE DEF MainFree, EngineFree, Running
  <2>1. ASSUME NEW a \in Atts,
               \/ StartHandler(a) \/ StartTimeout(a) \/ StartExpired(a)
               \/ MessageLeaves(a) \/ ProtoReady(a) \/ WorkerReady(a)
               \/ StartDies(a) \/ StartLost(a) \/ WorkerExit(a) \/ PortClose(a)
               \/ ContextClose(a) \/ ContextReady(a)
               \/ DetachedStart(a) \/ DetachedFinish(a)
        PROVE  Running
    BY <2>1 DEF StartHandler, StartTimeout, StartExpired, MessageLeaves, ProtoReady,
            WorkerReady, StartDies, StartLost, WorkerExit, PortClose, ContextClose,
            ContextReady, DetachedStart, DetachedFinish
  <2>2. ASSUME NEW r \in Reqs,
               \/ PortGet(r) \/ SendAck(r) \/ HeadersAck(r) \/ Response(r)
               \/ PeerGone(r) \/ Upgrade(r) \/ Close(r) \/ AckTimeout(r)
               \/ AppTimeout(r) \/ ErrHandler(r) \/ RequeueHandler(r)
               \/ Resend(r) \/ Fault(r)
               \/ \E w \in Atts, c \in 0..Contexts : Claim(r, w, c)
        PROVE  Running
    BY <2>2 DEF PortGet, SendAck, HeadersAck, Response, PeerGone, Upgrade, Close,
            AckTimeout, AppTimeout, ErrHandler, RequeueHandler, Resend, Fault, Claim
  <2>3. ASSUME \/ \E q \in Protos : ProtoExit(q) \/ ProtoRemoved(q)
               \/ \E who \in Reqs \cup {"main"} : DrainStep(who)
               \/ AdjustBegin \/ AdjustReap \/ AdjustEnd
               \/ Restart \/ RemoveApp \/ ConfRelease
        PROVE  Running
    BY <2>3 DEF ProtoExit, ProtoRemoved, DrainStep, AdjustBegin, AdjustReap, AdjustEnd,
            Restart, RemoveApp, ConfRelease
  <2>4. Running
    BY <2>1, <2>2, <2>3 DEF Next
  <2> QED BY <2>4
<1>1. CASE AdjustBegin \/ AdjustReap \/ AdjustEnd
  <2>1. AdjustReap => Head(eco.idle) \in Atts /\ Registered(Head(eco.idle))
    BY ReapSound
  <2> QED BY <1>0, <1>1, <2>1, AdjustKept
<1>2. CASE ~(AdjustBegin \/ AdjustReap \/ AdjustEnd)
  <2>0. NotAdjusting
    BY <1>2, MainThreadSerial DEF IdleInv
  <2>1. ASSUME NEW a \in Atts,
               \/ StartHandler(a) \/ StartTimeout(a) \/ StartExpired(a)
               \/ MessageLeaves(a) \/ ProtoReady(a) \/ WorkerReady(a)
               \/ StartDies(a) \/ StartLost(a) \/ WorkerExit(a) \/ PortClose(a)
               \/ ContextClose(a) \/ ContextReady(a)
               \/ DetachedStart(a) \/ DetachedFinish(a)
        PROVE  Kept
    BY <2>0, <2>1, StartHandlerKept, ExpiryKept, StartExpiredKept, DeathsKept, CalmKept,
       WorkerReadyKept, PortCloseKept, DetachedStartKept, DetachedFinishKept
  <2>2. ASSUME NEW r \in Reqs,
               \/ PortGet(r) \/ SendAck(r) \/ HeadersAck(r) \/ Response(r)
               \/ PeerGone(r) \/ Upgrade(r) \/ Close(r) \/ AckTimeout(r)
               \/ AppTimeout(r) \/ ErrHandler(r) \/ RequeueHandler(r)
               \/ Resend(r) \/ Fault(r)
               \/ \E w \in Atts, c \in 0..Contexts : Claim(r, w, c)
        PROVE  Kept
    BY <2>0, <2>2, PortGetKept, CalmKept, HeadersAckKept, AnswersKept, UpgradeKept,
       AppTimeoutKept, RequeueKept, ResendKept
  <2>3. ASSUME \/ \E q \in Protos : ProtoExit(q) \/ ProtoRemoved(q)
               \/ \E who \in Reqs \cup {"main"} : DrainStep(who)
               \/ Restart \/ RemoveApp \/ ConfRelease
        PROVE  Kept
    BY <2>0, <2>3, DeathsKept, DrainStepKept, CalmKept, ConfKept
  <2>4. Kept
    BY <1>2, <2>1, <2>2, <2>3 DEF Next
  <2> QED BY <1>0, <2>4
<1> QED BY <1>1, <1>2, <1>0

LEMMA RefStep == Narrow /\ IdleInv /\ RefInv /\ [Next]_vars => RefInv'
<1> SUFFICES ASSUME Narrow, IdleInv, RefInv, [Next]_vars PROVE RefInv'
  OBVIOUS
<1>1. IdleInv'
  BY IdleStep
<1>2. CASE UNCHANGED vars
  BY <1>2 DEF vars, starting, idling, parked, holding, life, RefInv, ConfN, HoldN, PostN,
          AdjN, NowN, SweepN
<1>3. CASE FreeApp
  BY <1>3 DEF FreeApp, holding, RefInv
<1>4. CASE conf # "freed" /\ Kept
  BY <1>1, <1>4, KeptKeeps
<1> QED BY <1>2, <1>3, <1>4, RefNext

\* app->use_count is the number of references, whatever the order in which
\* starts, requests, deaths, sweeps, detached work and reconfigurations take and
\* drop them: each of them drops what it took exactly once, so
\* nxt_router_app_use() frees the application neither early nor never.  For
\* every number of processes, requests and events, with one context per worker
\* or without the idle timer.
THEOREM ReferencesCounted == Narrow /\ Spec => []UseAgree
<1> SUFFICES ASSUME Narrow PROVE Spec => []UseAgree
  OBVIOUS
<1>1. RefInv => UseAgree
  BY DEF RefInv, UseAgree, ConfN, HoldN, PostN, AdjN, NowN, SweepN, Holders, Holding,
         Sweeps, Count, Of, InState, InPhase
<1>2. Init => RefInv
  BY RefInit
<1>3. IdleInv /\ RefInv /\ [Next]_vars => RefInv'
  BY RefStep
<1>4. Spec => []IdleInv
  BY IdleSafe
<1> QED BY <1>1, <1>2, <1>3, <1>4, PTL DEF Spec

-----------------------------------------------------------------------------
(* Requests that wait.  While no process serves and none is being started,  *)
(* the queue of requests that wait is empty or being drained; the handlers  *)
(* that lose the last process find a request that waits in active_requests, *)
(* and start a process for it.                                              *)

Using == {"wait", "failing", "acked"}
Users(R) == {r \in Reqs : R[r].st \in Using}
UseN == Cardinality(Users(req))

\* What is in a queue waits for a worker.
Waits(R, aq, zq) ==
  \A r \in Members(aq) \cup Members(zq) : R[r].st \in {"wait", "failing"}

Active == active = UseN /\ Waits(req, ackq, reqq)
Served == processes = 0 /\ pending = 0 => ackq = <<>> \/ draining # {}

WaitInv ==
  /\ conf # "freed" => Served
  /\ NotStranded

\* One context per worker and no idle timer.
Single == Contexts = 0 /\ "idle" \notin Events

\* No request changes its state and none joins a queue.
Quiet ==
  /\ active' = active
  /\ \A r \in Reqs : req'[r].st = req[r].st
  /\ Members(ackq') \subseteq Members(ackq) /\ Members(reqq') \subseteq Members(reqq)

LEMMA QuietActive ==
  ASSUME RefInv, IdleInv, conf # "freed", Active, Quiet
  PROVE  Active'
<1>1. Members(ackq) \cup Members(reqq) \subseteq Reqs
  BY RefParts DEF Parked, Members
<1>2. Users(req') = Users(req)
  BY DEF Quiet, Users
<1>3. UseN' = UseN
  BY <1>2 DEF UseN
<1>4. Waits(req', ackq', reqq')
  BY <1>1 DEF Waits, Active, Quiet
<1>5. active' = UseN'
  BY <1>3 DEF Active, Quiet
<1> QED BY <1>4, <1>5 DEF Active

LEMMA FailedWaits ==
  ASSUME NEW R \in [Reqs -> ReqSet], NEW who, NEW pe, NEW zq, NEW aq,
         Parked(R, aq, zq), StartFailed(who, pe, R, zq, aq)
  PROVE  /\ \A r \in Reqs : req'[r].st = R[r].st
         /\ Members(ackq') \subseteq Members(aq) /\ Members(reqq') \subseteq Members(zq)
<1>1. \A r \in Reqs : req'[r].st = R[r].st
  BY FailedLinks DEF SameLinks
<1>2. \/ ackq' = aq /\ reqq' = zq
      \/ ackq' = Tail(aq) /\ reqq' = zq /\ aq # <<>>
      \/ ackq' = aq /\ reqq' = Tail(zq) /\ zq # <<>>
  BY DEF StartFailed, DrainFirst
<1>3. /\ aq # <<>> => Members(Tail(aq)) \subseteq Members(aq)
      /\ zq # <<>> => Members(Tail(zq)) \subseteq Members(zq)
  BY FirstLeaves DEF Parked
<1> QED BY <1>1, <1>2, <1>3

LEMMA DrainedQuiet ==
  ASSUME RefInv, IdleInv, conf # "freed", Drained, active' = active
  PROVE  Quiet
<1>1. CASE UNCHANGED <<req, ackq, reqq>>
  BY <1>1 DEF Quiet
<1>2. ASSUME NEW who, NEW pe, StartFailed(who, pe, req, reqq, ackq) PROVE Quiet
  BY <1>2, RefParts, FailedWaits DEF Quiet
<1> QED BY <1>1, <1>2 DEF Drained

\* nxt_router_app_start_failed() leaves no request without a process, a start
\* or a thread that answers.
LEMMA FailedServed ==
  ASSUME NEW who, NEW R, NEW zq, NEW aq, processes' = processes,
         StartFailed(who, pending', R, zq, aq)
  PROVE  Served'
BY DEF StartFailed, DrainFirst, Served

\* The attempts of the main thread.
LEMMA AttemptsDrained ==
  ASSUME pending \in Nat, NEW a \in Atts,
         \/ StartHandler(a) \/ StartTimeout(a) \/ StartExpired(a) \/ MessageLeaves(a)
         \/ ProtoReady(a) \/ StartDies(a) \/ StartLost(a) \/ WorkerExit(a)
  PROVE  /\ Drained /\ UNCHANGED <<active, hash, processes>>
         /\ Served => Served'
<1> USE DEF parked, slots
<1>0. UNCHANGED <<active, hash, processes>>
  BY DEF StartHandler, StartTimeout, StartExpired, MessageLeaves, ProtoReady, StartDies,
         StartLost, WorkerExit
<1>1. ASSUME NEW S, NEW d, FailAttempts(S, d) PROVE Drained /\ Served'
  BY <1>0, <1>1, FailedServed DEF FailAttempts, Drained
<1>2. ASSUME UNCHANGED <<req, ackq, reqq, draining, pending>>
      PROVE  Drained /\ (Served => Served')
  BY <1>0, <1>2 DEF Drained, Served
<1>3. ASSUME PortError(a) PROVE Drained /\ Served'
  BY <1>1, <1>3 DEF PortError
<1>4. ASSUME PortErrorExpired(a) PROVE Drained /\ (Served => Served')
  <2> DEFINE rest == IF att[a].ph = "proto" THEN Cohort \ {a} ELSE {}
  <2>1. /\ pending' = pending - Cardinality(rest)
        /\ IF rest # {} THEN StartFailed("main", pending - Cardinality(rest), req, reqq, ackq)
                        ELSE UNCHANGED <<req, parked>>
    BY <1>4 DEF PortErrorExpired
  <2> HIDE DEF rest
  <2>2. CASE rest # {}
    BY <1>0, <2>1, <2>2, FailedServed DEF Drained
  <2>3. CASE rest = {}
    <3>1. pending' = pending - 0
      BY <2>1, <2>3, NoneLeft
    <3>2. pending' = pending
      BY <3>1
    <3> QED BY <1>2, <2>1, <2>3, <3>2
  <2> QED BY <2>2, <2>3
<1>5. ASSUME StartFailed("main", pending', req, reqq, ackq) PROVE Drained /\ Served'
  BY <1>0, <1>5, FailedServed DEF Drained
<1>6. \/ UNCHANGED <<req, ackq, reqq, draining, pending>>
      \/ \E S, d : FailAttempts(S, d)
      \/ PortError(a) \/ PortErrorExpired(a)
      \/ StartFailed("main", pending', req, reqq, ackq)
  <2>1. CASE StartHandler(a)   BY <2>1, Zenon DEF StartHandler
  <2>2. CASE StartTimeout(a)   BY <2>2, Zenon DEF StartTimeout
  <2>3. CASE StartExpired(a)   BY <2>3, Zenon DEF StartExpired
  <2>4. CASE MessageLeaves(a)  BY <2>4, Zenon DEF MessageLeaves
  <2>5. CASE ProtoReady(a)     BY <2>5, Zenon DEF ProtoReady
  <2>6. CASE StartDies(a)      BY <2>6, Zenon DEF StartDies
  <2>7. CASE StartLost(a)      BY <2>7, Zenon DEF StartLost
  <2>8. CASE WorkerExit(a)     BY <2>8, Zenon DEF WorkerExit
  <2> QED BY <2>1, <2>2, <2>3, <2>4, <2>5, <2>6, <2>7, <2>8
<1> QED BY <1>0, <1>1, <1>2, <1>3, <1>4, <1>5, <1>6

\* A request that changes is in no queue afterwards.
LEMMA MovedActive ==
  ASSUME RefInv, IdleInv, conf # "freed", Active, NEW r \in Reqs,
         \A x \in Reqs : x # r => req'[x] = req[x],
         Members(ackq') \subseteq Members(ackq) \ {r},
         Members(reqq') \subseteq Members(reqq) \ {r},
         \/ /\ req[r].st \in Using /\ req'[r].st \notin Using /\ active' = active - 1
         \/ /\ req[r].st \in Using <=> req'[r].st \in Using
            /\ active' = active
  PROVE  Active'
<1>1. Members(ackq) \cup Members(reqq) \subseteq Reqs
  BY RefParts DEF Parked, Members
<1>2. Waits(req', ackq', reqq')
  BY <1>1 DEF Waits, Active
<1>3. Users(req) \subseteq Reqs /\ IsFiniteSet(Users(req)) /\ UseN \in Nat
  <2>1. Users(req) \subseteq Reqs
    BY DEF Users
  <2> QED BY <2>1, ReqsCounted DEF UseN
<1>4. CASE req[r].st \in Using /\ req'[r].st \notin Using /\ active' = active - 1
  <2>1. Users(req') = Users(req) \ {r} /\ r \in Users(req)
    BY <1>4 DEF Users
  <2>2. Cardinality(Users(req')) = Cardinality(Users(req)) - 1
    BY <1>3, <2>1, FS_RemoveElement
  <2> QED BY <1>2, <1>4, <2>2 DEF Active, UseN
<1>5. CASE /\ req[r].st \in Using <=> req'[r].st \in Using
           /\ active' = active
  <2>1. Users(req') = Users(req)
    BY <1>5 DEF Users
  <2> QED BY <1>2, <1>5, <2>1 DEF Active, UseN
<1> QED BY <1>4, <1>5

\* Requests R and queues after r joined one of them.
LEMMA JoinedActive ==
  ASSUME RefInv, IdleInv, conf # "freed", Active, NEW r \in Reqs, NEW R,
         \A x \in Reqs : x # r => R[x] = req[x], R[r].st \in {"wait", "failing"},
         req[r].st = "new" \/ req[r].st = R[r].st
  PROVE  /\ Waits(R, Append(ackq, r), reqq) /\ Waits(R, ackq, Append(reqq, r))
         /\ req[r].st = "new" => Cardinality(Users(R)) = active + 1
         /\ req[r].st # "new" => Cardinality(Users(R)) = active
<1>1. /\ Members(ackq) \cup Members(reqq) \subseteq Reqs
      /\ ackq \in Seq(Reqs) /\ reqq \in Seq(Reqs)
  BY RefParts DEF Parked, Members
<1>2. /\ Members(Append(ackq, r)) \subseteq Members(ackq) \cup {r}
      /\ Members(Append(reqq, r)) \subseteq Members(reqq) \cup {r}
  BY <1>1 DEF Members
<1>3. \A x \in Members(ackq) \cup Members(reqq) \cup {r} : R[x].st \in {"wait", "failing"}
  BY <1>1 DEF Active, Waits
<1>4. Waits(R, Append(ackq, r), reqq) /\ Waits(R, ackq, Append(reqq, r))
  BY <1>2, <1>3 DEF Waits
<1>5. Users(req) \subseteq Reqs /\ IsFiniteSet(Users(req)) /\ UseN \in Nat
  <2>1. Users(req) \subseteq Reqs
    BY DEF Users
  <2> QED BY <2>1, ReqsCounted DEF UseN
<1>6. ASSUME req[r].st = "new" PROVE Cardinality(Users(R)) = active + 1
  <2>1. Users(R) = Users(req) \cup {r} /\ r \notin Users(req)
    BY <1>6 DEF Users, Using
  <2>2. Cardinality(Users(R)) = Cardinality(Users(req)) + 1
    BY <1>5, <2>1, FS_AddElement
  <2> QED BY <2>2 DEF Active, UseN
<1>7. ASSUME req[r].st # "new" PROVE Cardinality(Users(R)) = active
  <2>1. Users(R) = Users(req)
    BY <1>7 DEF Users
  <2> QED BY <2>1 DEF Active, UseN
<1> QED BY <1>4, <1>6, <1>7

\* The same when nxt_router_app_start_failed() follows.
LEMMA FailedActive ==
  ASSUME NEW R \in [Reqs -> ReqSet], NEW who, NEW pe, NEW zq, NEW aq,
         Parked(R, aq, zq), Waits(R, aq, zq), Cardinality(Users(R)) = active',
         StartFailed(who, pe, R, zq, aq)
  PROVE  Active'
<1>1. /\ \A r \in Reqs : req'[r].st = R[r].st
      /\ Members(ackq') \subseteq Members(aq) /\ Members(reqq') \subseteq Members(zq)
  BY FailedWaits
<1>2. Members(aq) \cup Members(zq) \subseteq Reqs
  BY DEF Parked, Members
<1>3. Users(req') = Users(R)
  BY <1>1 DEF Users
<1>4. Waits(req', ackq', reqq')
  BY <1>1, <1>2 DEF Waits
<1>5. active' = UseN'
  BY <1>3 DEF UseN
<1> QED BY <1>4, <1>5 DEF Active

\* A queue that was empty stays so when a request is taken out.
LEMMA EmptyStays == ASSUME NEW r PROVE Without(<<>>, r) = <<>>
<1>1. Members(<<>>) = {}
  BY DEF Members
<1> QED BY <1>1 DEF Without

LEMMA ServedStays ==
  ASSUME pending \in Nat, processes' = processes, draining' = draining,
         pending' \in {pending, pending + 1}, ackq = <<>> => ackq' = <<>>
  PROVE  Served => Served'
<1>1. pending' = 0 => pending = 0
  OBVIOUS
<1> QED BY <1>1 DEF Served

LEMMA StartIfPending ==
  ASSUME NEW start, NEW A, NEW pe \in Int, NEW d, NEW who, StartIf(start, A, pe, d, who)
  PROVE  pending' \in {pe, pe + 1} /\ (start => pending' = pe + 1)
BY DEF StartIf

-----------------------------------------------------------------------------
(* Steps on the requests.                                                  *)

\* What a step keeps: while each worker has one port in port_hash, requests
\* are served if they were.
Tended ==
  Active' /\ (hash = processes => hash' = processes' /\ (Served => Served'))

LEMMA UnlinkTended ==
  ASSUME RefInv, IdleInv, conf # "freed", Active,
         NEW r \in Reqs, Linked(r), NEW job, NEW d, Unlink(r, job, d),
         UNCHANGED <<processes, pending, hash, draining>>
  PROVE  Tended
<1> DEFINE y == Req("done", IF Retracts(r) THEN "none" ELSE req[r].wk, req[r].w,
                    req[r].c, req[r].g, req[r].cancel, job, "no")
<1>1. /\ req' = [req EXCEPT ![r] = y]
      /\ ackq' = Without(ackq, r) /\ reqq' = Without(reqq, r)
      /\ active' = IF req[r].st = "upgraded" THEN active ELSE active - 1
  BY DEF Unlink
<1>2. y.st = "done"
  BY DEF Req
<1> HIDE DEF y
<1>3. req \in [Reqs -> ReqSet] /\ Parked(req, ackq, reqq)
  BY RefParts
<1>4. (\A x \in Reqs : x # r => req'[x] = req[x]) /\ req'[r].st = "done"
  BY <1>1, <1>2, <1>3
<1>5. /\ Members(ackq') = Members(ackq) \ {r}
      /\ Members(reqq') = Members(reqq) \ {r}
  BY <1>1, <1>3, WithoutProperties DEF Parked
<1>6. Active'
  <2>1. CASE req[r].st = "upgraded"
    <3>1. /\ req[r].st \in Using <=> req'[r].st \in Using
          /\ active' = active
      BY <1>1, <1>4, <2>1 DEF Using
    <3> QED BY <1>4, <1>5, <3>1, MovedActive
  <2>2. CASE req[r].st # "upgraded"
    <3>1. req[r].st \in Using /\ req'[r].st \notin Using /\ active' = active - 1
      BY <1>1, <1>4, <2>2 DEF Using, Linked
    <3> QED BY <1>4, <1>5, <3>1, MovedActive
  <2> QED BY <2>1, <2>2
<1>7. ackq = <<>> => ackq' = <<>>
  BY <1>1, EmptyStays
<1>8. Served => Served'
  BY <1>7 DEF Served
<1> QED BY <1>6, <1>8 DEF Tended

\* A request that no queue holds changes its state.
LEMMA StateTended ==
  ASSUME RefInv, IdleInv, conf # "freed", Active,
         NEW r \in Reqs, NEW st, req' = [req EXCEPT ![r].st = st],
         req[r].st \in {"acked", "abandoned"}, st \notin Using,
         active' = IF req[r].st = "acked" THEN active - 1 ELSE active,
         pending \in Nat, pending' \in {pending, pending + 1},
         UNCHANGED <<processes, hash, draining, ackq, reqq>>
  PROVE  Tended
<1>1. req \in [Reqs -> ReqSet] /\ req[r] \in ReqSet
  BY RefParts
<1>2. (\A x \in Reqs : x # r => req'[x] = req[x]) /\ req'[r].st = st
  BY <1>1 DEF ReqSet
<1>3. r \notin Members(ackq) /\ r \notin Members(reqq)
  BY DEF Active, Waits
<1>4. Members(ackq') \subseteq Members(ackq) \ {r} /\ Members(reqq') \subseteq Members(reqq) \ {r}
  BY <1>3
<1>5. \/ /\ req[r].st \in Using /\ req'[r].st \notin Using /\ active' = active - 1
      \/ /\ req[r].st \in Using <=> req'[r].st \in Using
         /\ active' = active
  BY <1>2 DEF Using
<1>6. Active'
  BY <1>2, <1>4, <1>5, MovedActive
<1>7. Served => Served'
  BY ServedStays
<1> QED BY <1>6, <1>7 DEF Tended

\* No state changes, and no request leaves or joins a queue.
LEMMA QuietTended ==
  ASSUME RefInv, IdleInv, conf # "freed", Active,
         \A x \in Reqs : req'[x].st = req[x].st,
         pending \in Nat, pending' \in {pending, pending + 1},
         UNCHANGED <<active, processes, hash, draining, ackq, reqq>>
  PROVE  Tended
<1>1. Quiet
  BY DEF Quiet
<1>2. Active'
  BY <1>1, QuietActive
<1>3. Served => Served'
  BY ServedStays
<1> QED BY <1>2, <1>3 DEF Tended

LEMMA AnswersTended ==
  ASSUME RefInv, IdleInv, conf # "freed", Active,
         NEW r \in Reqs,
         Response(r) \/ PeerGone(r) \/ Close(r) \/ AckTimeout(r) \/ ErrHandler(r)
  PROVE  Tended
<1> USE DEF slots
<1>0. UNCHANGED <<processes, pending, hash, draining>>
  BY DEF Response, PeerGone, Close, AckTimeout, ErrHandler
<1>1. \/ Linked(r) /\ \E job : Unlink(r, job, 0)
      \/ req[r].st = "abandoned" /\ Settle(r)
      \/ /\ UNCHANGED <<active, ackq, reqq>>
         /\ req' = [req EXCEPT ![r].cancel = "claimed", ![r].twice = "yes"]
      \/ /\ UNCHANGED <<active, ackq, reqq>>
         /\ req' = [req EXCEPT ![r].job = "none"]
  BY DEF Response, PeerGone, Close, AckTimeout, ErrHandler, Linked
<1>2. req \in [Reqs -> ReqSet] /\ req[r] \in ReqSet /\ pending \in Nat
  BY RefParts, SlotInts DEF IdleInv
<1>3. CASE Linked(r) /\ \E job : Unlink(r, job, 0)
  BY <1>0, <1>3, UnlinkTended
<1>4. CASE req[r].st = "abandoned" /\ Settle(r)
  <2>1. /\ req' = [req EXCEPT ![r].st = "done"] /\ "done" \notin Using
        /\ active' = (IF req[r].st = "acked" THEN active - 1 ELSE active)
        /\ UNCHANGED <<ackq, reqq>>
    BY <1>4 DEF Settle, Using
  <2> QED BY <1>0, <1>2, <1>4, <2>1, StateTended
<1>5. CASE /\ UNCHANGED <<active, ackq, reqq>>
           /\ req' = [req EXCEPT ![r].cancel = "claimed", ![r].twice = "yes"]
  <2> DEFINE y == [req[r] EXCEPT !.cancel = "claimed", !.twice = "yes"]
  <2>1. y.st = req[r].st
    BY <1>2 DEF ReqSet
  <2>2. req' = [req EXCEPT ![r] = y]
    BY <1>5
  <2> HIDE DEF y
  <2>3. \A x \in Reqs : req'[x].st = req[x].st
    BY <1>2, <2>1, <2>2
  <2> QED BY <1>0, <1>2, <1>5, <2>3, QuietTended
<1>6. CASE /\ UNCHANGED <<active, ackq, reqq>>
           /\ req' = [req EXCEPT ![r].job = "none"]
  <2>1. \A x \in Reqs : req'[x].st = req[x].st
    BY <1>2, <1>6 DEF ReqSet
  <2> QED BY <1>0, <1>2, <1>6, <2>1, QuietTended
<1> QED BY <1>1, <1>3, <1>4, <1>5, <1>6

\* nxt_router_req_headers_ack_handler(): the request leaves the queue it waits
\* in, and is active still.
LEMMA HeadersAckTended ==
  ASSUME RefInv, IdleInv, conf # "freed", Active,
         NEW r \in Reqs, HeadersAck(r)
  PROVE  Tended
<1>1. /\ UNCHANGED <<processes, hash, active, draining>> /\ req[r].st = "wait"
      /\ ackq' = Without(ackq, r) /\ reqq' = Without(reqq, r)
      /\ \E st \in {"failing", "acked"} : req' = [req EXCEPT ![r].st = st]
      /\ \/ pending' = pending
         \/ \E start : StartIf(start, att, pending, 0, r)
  BY DEF HeadersAck
<1>2. /\ req \in [Reqs -> ReqSet] /\ req[r] \in ReqSet /\ pending \in Nat
      /\ Parked(req, ackq, reqq)
  BY RefParts, SlotInts DEF IdleInv
<1>3. PICK st \in {"failing", "acked"} : req' = [req EXCEPT ![r].st = st]
  BY <1>1
<1>4. (\A x \in Reqs : x # r => req'[x] = req[x]) /\ req'[r].st = st
  BY <1>2, <1>3 DEF ReqSet
<1>5. /\ Members(ackq') = Members(ackq) \ {r}
      /\ Members(reqq') = Members(reqq) \ {r}
  BY <1>1, <1>2, WithoutProperties DEF Parked
<1>6. req[r].st \in Using <=> req'[r].st \in Using
  BY <1>1, <1>4 DEF Using
<1>7. Active'
  BY <1>1, <1>4, <1>5, <1>6, MovedActive
<1>8. pending' \in {pending, pending + 1}
  <2>1. pending \in Int
    BY <1>2
  <2> QED BY <1>1, <2>1, StartIfPending
<1>9. ackq = <<>> => ackq' = <<>>
  BY <1>1, EmptyStays
<1>10. Served => Served'
  BY <1>1, <1>2, <1>8, <1>9, ServedStays
<1> QED BY <1>1, <1>7, <1>10 DEF Tended

LEMMA EndsTended ==
  ASSUME RefInv, IdleInv, conf # "freed", Active,
         NEW r \in Reqs, Upgrade(r) \/ AppTimeout(r)
  PROVE  Tended
<1>1. /\ UNCHANGED <<processes, hash, draining, ackq, reqq>> /\ req[r].st = "acked"
      /\ active' = active - 1
      /\ \E st \in {"upgraded", "abandoned"} : req' = [req EXCEPT ![r].st = st]
      /\ \/ pending' = pending
         \/ \E start, d : StartIf(start, att, pending, d, r)
  <2>1. CASE Upgrade(r)    BY <2>1 DEF Upgrade, parked, slots
  <2>2. CASE AppTimeout(r) BY <2>2 DEF AppTimeout, parked
  <2> QED BY <2>1, <2>2
<1>2. PICK st \in {"upgraded", "abandoned"} : req' = [req EXCEPT ![r].st = st]
  BY <1>1
<1>3. pending \in Nat /\ pending' \in {pending, pending + 1}
  <2>1. pending \in Nat /\ pending \in Int
    BY SlotInts DEF IdleInv
  <2> QED BY <1>1, <2>1, StartIfPending
<1>4. st \notin Using /\ active' = IF req[r].st = "acked" THEN active - 1 ELSE active
  BY <1>1 DEF Using
<1> QED BY <1>1, <1>2, <1>3, <1>4, StateTended

\* nxt_router_app_port_get(): a request that joins the queue finds a process, a
\* start, or a thread that answers it.
LEMMA PortGetTended ==
  ASSUME RefInv, IdleInv, conf # "freed", Active,
         NEW r \in Reqs, PortGet(r)
  PROVE  Tended
<1>0. /\ UNCHANGED <<processes, hash>> /\ req[r].st = "new" /\ active' = active + 1
  BY DEF PortGet
<1>1. /\ req \in [Reqs -> ReqSet] /\ pending \in Nat /\ pending \in Int
      /\ Parked(req, ackq, reqq)
  BY <1>0, RefParts, SlotInts DEF IdleInv
<1>2. PICK sent \in {"wait", "failing"} :
        \E R, start :
          /\ R = [req EXCEPT ![r] = Req(sent, IF sent = "wait" THEN "queued" ELSE "none",
                                        None, 0, gen, "queued", "none", "no")]
          /\ \/ /\ StartFailed(r, pending, R, reqq, Append(ackq, r))
                /\ pending' = pending
             \/ /\ ~(~start /\ processes = 0 /\ pending = 0)
                /\ StartIf(start, att, pending, 1, r)
                /\ req' = R /\ ackq' = Append(ackq, r) /\ reqq' = reqq
  BY Zenon DEF PortGet
<1> DEFINE y == Req(sent, IF sent = "wait" THEN "queued" ELSE "none",
                    None, 0, gen, "queued", "none", "no")
<1>3. y.st = sent /\ y.job = "none" /\ y \in ReqSet
  <2>1. gen \in 0..MaxGen /\ 0 \in 0..Contexts
    BY SlotInts, LimitsAssumption DEF IdleInv
  <2> QED BY <2>1 DEF Req, ReqSet
<1>4. PICK R, start :
        /\ R = [req EXCEPT ![r] = y]
        /\ \/ /\ StartFailed(r, pending, R, reqq, Append(ackq, r))
              /\ pending' = pending
           \/ /\ ~(~start /\ processes = 0 /\ pending = 0)
              /\ StartIf(start, att, pending, 1, r)
              /\ req' = R /\ ackq' = Append(ackq, r) /\ reqq' = reqq
  BY <1>2
<1> HIDE DEF y
<1>5. /\ R \in [Reqs -> ReqSet] /\ \A x \in Reqs : x # r => R[x] = req[x]
      /\ R[r].st = sent /\ R[r].job = "none"
  BY <1>1, <1>3, <1>4
<1>6. Parked(R, Append(ackq, r), reqq)
  <2>1. r \notin Members(ackq) \cup Members(reqq)
    BY <1>0, <1>1 DEF Parked
  <2>2. Parked(R, ackq, reqq)
    BY <1>1, <1>5, StaysQueued
  <2> QED BY <1>5, <2>1, <2>2, JoinsQueue
<1>7. Waits(R, Append(ackq, r), reqq) /\ Cardinality(Users(R)) = active'
  BY <1>0, <1>5, JoinedActive
<1>8. CASE /\ StartFailed(r, pending, R, reqq, Append(ackq, r))
           /\ pending' = pending
  <2>1. Active'
    BY <1>5, <1>6, <1>7, <1>8, FailedActive
  <2>2. Served => Served'
    BY <1>0, <1>8, FailedServed
  <2> QED BY <1>0, <2>1, <2>2 DEF Tended
<1>9. CASE /\ ~(~start /\ processes = 0 /\ pending = 0)
           /\ StartIf(start, att, pending, 1, r)
           /\ req' = R /\ ackq' = Append(ackq, r) /\ reqq' = reqq
  <2>1. Active'
    BY <1>7, <1>9 DEF Active, UseN
  <2>2. pending' \in {pending, pending + 1} /\ (start => pending' = pending + 1)
    BY <1>1, <1>9, StartIfPending
  <2>3. ~(processes = 0 /\ pending' = 0)
    BY <1>1, <1>9, <2>2
  <2>4. Served => Served'
    BY <1>0, <2>3 DEF Served
  <2> QED BY <1>0, <2>1, <2>4 DEF Tended
<1> QED BY <1>4, <1>8, <1>9

\* nxt_router_app_requeue_handler()
LEMMA RequeueTended ==
  ASSUME RefInv, IdleInv, conf # "freed", Active,
         NEW r \in Reqs, RequeueHandler(r)
  PROVE  Tended
<1>0. UNCHANGED <<processes, pending, hash, draining>>
  BY DEF RequeueHandler, slots
<1>1. /\ req \in [Reqs -> ReqSet] /\ req[r] \in ReqSet /\ pending \in Nat
      /\ Parked(req, ackq, reqq)
  BY RefParts, SlotInts DEF IdleInv
<1>2. \/ /\ OnShared(r)
         /\ req' = [req EXCEPT ![r].cancel = "retracted", ![r].wk = "none",
                               ![r].job = "none"]
         /\ reqq' = Append(reqq, r) /\ UNCHANGED <<active, ackq>>
      \/ Linked(r) /\ \E d : Unlink(r, "none", d)
      \/ /\ req' = [req EXCEPT ![r].job = "none"]
         /\ UNCHANGED <<active, ackq, reqq>>
  BY DEF RequeueHandler, Retracts
<1>3. CASE /\ OnShared(r)
           /\ req' = [req EXCEPT ![r].cancel = "retracted", ![r].wk = "none",
                                 ![r].job = "none"]
           /\ reqq' = Append(reqq, r) /\ UNCHANGED <<active, ackq>>
  <2> DEFINE y == [req[r] EXCEPT !.cancel = "retracted", !.wk = "none", !.job = "none"]
  <2>1. y.st = req[r].st
    BY <1>1 DEF ReqSet
  <2>2. req' = [req EXCEPT ![r] = y]
    BY <1>3
  <2> HIDE DEF y
  <2>3. (\A x \in Reqs : x # r => req'[x] = req[x]) /\ req'[r].st = req[r].st
    BY <1>1, <2>1, <2>2
  <2>4. req'[r].st \in {"wait", "failing"} /\ req[r].st # "new"
    BY <1>3, <2>3 DEF OnShared
  <2>5. Waits(req', ackq, Append(reqq, r)) /\ Cardinality(Users(req')) = active
    BY <2>3, <2>4, JoinedActive
  <2>6. Active'
    BY <1>3, <2>5 DEF Active, UseN
  <2>7. Served => Served'
    BY <1>0, <1>3 DEF Served
  <2> QED BY <1>0, <2>6, <2>7 DEF Tended
<1>4. CASE Linked(r) /\ \E d : Unlink(r, "none", d)
  BY <1>0, <1>4, UnlinkTended
<1>5. CASE /\ req' = [req EXCEPT ![r].job = "none"]
           /\ UNCHANGED <<active, ackq, reqq>>
  <2>1. \A x \in Reqs : req'[x].st = req[x].st
    BY <1>1, <1>5 DEF ReqSet
  <2> QED BY <1>0, <1>1, <1>5, <2>1, QuietTended
<1> QED BY <1>2, <1>3, <1>4, <1>5

\* nxt_router_app_resend()
LEMMA ResendTended ==
  ASSUME RefInv, IdleInv, conf # "freed", Active,
         NEW r \in Reqs, Resend(r)
  PROVE  Tended
<1> DEFINE y == [req[r] EXCEPT !.cancel = "queued", !.wk = "queued", !.job = "none"]
           R == [req EXCEPT ![r] = y]
<1> USE DEF parked
<1>0. UNCHANGED <<processes, hash>> /\ req[r].job = "resend"
  BY DEF Resend
<1>1. /\ req \in [Reqs -> ReqSet] /\ req[r] \in ReqSet /\ pending \in Nat /\ pending \in Int
      /\ Parked(req, ackq, reqq)
  BY RefParts, SlotInts DEF IdleInv
<1>2. req[r].st # "new" /\ r \notin Members(ackq) \cup Members(reqq)
  BY <1>0, <1>1 DEF Parked
<1>3. \/ /\ req' = [req EXCEPT ![r].job = "none"]
         /\ UNCHANGED <<pending, active, ackq, reqq, draining>>
      \/ /\ OnShared(r) /\ StartFailed(r, pending, R, reqq, Append(ackq, r))
         /\ UNCHANGED <<pending, active>>
      \/ /\ OnShared(r)
         /\ \E start : /\ ~(processes = 0 /\ pending = 0 /\ ~start)
                       /\ StartIf(start, att, pending, 0, r)
         /\ req' = R /\ ackq' = Append(ackq, r) /\ UNCHANGED <<active, reqq, draining>>
      \/ /\ \E start : StartIf(start, att, pending, 0, r)
         /\ UNCHANGED <<req, active, ackq, reqq, draining>>
      \/ OnShared(r) /\ Unlink(r, "none", 0) /\ UNCHANGED <<pending, draining>>
  BY DEF Resend
<1>4. y \in ReqSet /\ y.st = req[r].st /\ y.job = "none"
  BY <1>1 DEF ReqSet
<1> HIDE DEF y
<1>5. /\ R \in [Reqs -> ReqSet] /\ \A x \in Reqs : x # r => R[x] = req[x]
      /\ R[r].st = req[r].st /\ R[r].job = "none"
  BY <1>1, <1>4
<1> HIDE DEF R
<1>6. Parked(R, Append(ackq, r), reqq)
  <2>1. Parked(R, ackq, reqq)
    BY <1>1, <1>2, <1>5, StaysQueued
  <2> QED BY <1>2, <1>5, <2>1, JoinsQueue
<1>7. ASSUME OnShared(r)
      PROVE  Waits(R, Append(ackq, r), reqq) /\ Cardinality(Users(R)) = active
  <2>1. R[r].st \in {"wait", "failing"}
    BY <1>5, <1>7 DEF OnShared
  <2> QED BY <1>2, <1>5, <2>1, JoinedActive
<1>8. CASE /\ req' = [req EXCEPT ![r].job = "none"]
           /\ UNCHANGED <<pending, active, ackq, reqq, draining>>
  <2>1. \A x \in Reqs : req'[x].st = req[x].st
    BY <1>1, <1>8 DEF ReqSet
  <2> QED BY <1>0, <1>1, <1>8, <2>1, QuietTended
<1>9. CASE /\ OnShared(r) /\ StartFailed(r, pending, R, reqq, Append(ackq, r))
           /\ UNCHANGED <<pending, active>>
  <2>1. Active'
    BY <1>5, <1>6, <1>7, <1>9, FailedActive
  <2>2. Served => Served'
    BY <1>0, <1>9, FailedServed
  <2> QED BY <1>0, <2>1, <2>2 DEF Tended
<1>10. ASSUME OnShared(r), NEW start, ~(processes = 0 /\ pending = 0 /\ ~start),
              StartIf(start, att, pending, 0, r),
              req' = R, ackq' = Append(ackq, r), UNCHANGED <<active, reqq, draining>>
       PROVE  Tended
  <2>1. Active'
    BY <1>7, <1>10 DEF Active, UseN
  <2>2. pending' \in {pending, pending + 1} /\ (start => pending' = pending + 1)
    BY <1>1, <1>10, StartIfPending
  <2>3. ~(processes = 0 /\ pending' = 0)
    BY <1>1, <1>10, <2>2
  <2>4. Served => Served'
    BY <1>0, <2>3 DEF Served
  <2> QED BY <1>0, <2>1, <2>4 DEF Tended
<1>11. CASE /\ \E start : StartIf(start, att, pending, 0, r)
            /\ UNCHANGED <<req, active, ackq, reqq, draining>>
  <2>1. pending' \in {pending, pending + 1}
    BY <1>1, <1>11, StartIfPending
  <2> QED BY <1>0, <1>1, <1>11, <2>1, QuietTended
<1>12. CASE OnShared(r) /\ Unlink(r, "none", 0) /\ UNCHANGED <<pending, draining>>
  <2>1. Linked(r)
    BY <1>12 DEF Linked, OnShared
  <2> QED BY <1>0, <1>12, <2>1, UnlinkTended
<1> QED BY <1>3, <1>8, <1>9, <1>10, <1>11, <1>12

-----------------------------------------------------------------------------
(* Steps on the workers.                                                   *)

\* A request that waits is counted by active_requests.
LEMMA WaitersActive ==
  ASSUME RefInv, IdleInv, conf # "freed", Active
  PROVE  active \in Nat /\ (ackq # <<>> => active > 0)
<1>1. ackq \in Seq(Reqs) /\ Distinct(ackq)
  BY RefParts DEF Parked
<1>2. IsFiniteSet(Users(req)) /\ Cardinality(Users(req)) \in Nat
  BY ReqsCounted DEF Users
<1>3. ASSUME ackq # <<>> PROVE active > 0
  <2>1. Head(ackq) \in Reqs /\ Head(ackq) \in Members(ackq)
    BY <1>1, <1>3, FirstLeaves
  <2>2. Head(ackq) \in Users(req)
    BY <2>1 DEF Active, Waits, Users, Using
  <2>3. Cardinality(Users(req)) # 0
    BY <1>2, <2>2, FS_EmptySet
  <2> QED BY <1>2, <2>3 DEF Active, UseN
<1> QED BY <1>2, <1>3 DEF Active, UseN

\* A sweep holds a start, so that none is under way without one.
LEMMA SweepHolds ==
  ASSUME RefInv, IdleInv, conf # "freed", requeue # 0
  PROVE  \E b \in Atts : att[b].ph = "held"
<1>1. Swept(req, att, requeue)
  BY RefParts
<1>2. Cardinality(Sweeps(req)) \in Nat
  BY ReqsCounted DEF Sweeps
<1>3. Count(att, {"held"}) = 1
  BY <1>1, <1>2 DEF Swept
<1>4. Of(att, {"held"}) # {}
  <2>1. Cardinality({}) = 0
    BY NoneLeft
  <2> QED BY <1>3, <2>1 DEF Count
<1> QED BY <1>4 DEF Of

LEMMA NoneHeld ==
  ASSUME RefInv, IdleInv, conf # "freed",
         pending = 0 \/ (pending = 1 /\ \E a \in Atts : att[a].ph = "sent")
  PROVE  requeue = 0
<1> SUFFICES ASSUME requeue # 0 PROVE FALSE
  OBVIOUS
<1>1. PICK b \in Atts : att[b].ph = "held"
  BY SweepHolds
<1>2. /\ pending = Cardinality(Of(att, Starting)) /\ IsFiniteSet(Of(att, Starting))
      /\ b \in Of(att, Starting)
  <2>1. pending = Cardinality(Of(att, Starting))
    BY SlotsCounted DEF IdleInv, SlotInv, Count
  <2>2. IsFiniteSet(Of(att, Starting))
    BY OfAtts, NamesAssumption, FS_Subset
  <2>3. b \in Of(att, Starting)
    BY <1>1 DEF Of, Starting
  <2> QED BY <2>1, <2>2, <2>3
<1>3. CASE pending = 0
  BY <1>2, <1>3, FS_EmptySet
<1>4. ASSUME pending = 1, NEW a \in Atts, att[a].ph = "sent" PROVE FALSE
  <2>1. a \in Of(att, Starting) /\ a # b
    BY <1>1, <1>4 DEF Of, Starting
  <2>2. /\ Cardinality(Of(att, Starting) \ {a}) = pending - 1
        /\ IsFiniteSet(Of(att, Starting) \ {a})
    BY <1>2, <2>1, FS_RemoveElement
  <2>3. Cardinality(Of(att, Starting) \ {a}) = 0
    BY <1>4, <2>2
  <2>4. b \in Of(att, Starting) \ {a}
    BY <1>2, <2>1
  <2> QED BY <2>2, <2>3, <2>4, FS_EmptySet
<1> QED BY <1>3, <1>4

\* Whatever nxt_router_app_port_ready() finds: a new worker serves; one of an
\* older generation gives back a slot, which a start takes when it was the last.
LEMMA WorkerReadyTended ==
  ASSUME RefInv, IdleInv, LimitInv, conf # "freed", Active,
         NEW a \in Atts, WorkerReady(a)
  PROVE  Tended
<1> DEFINE late == att[a].ph = "lateW"
           pe == IF late THEN pending ELSE pending - 1
           un == IF late THEN unaccounted - 1 ELSE unaccounted
           S == [r \in Reqs |-> IF r \in Members(reqq) THEN [req[r] EXCEPT !.job = "resend"]
                                                       ELSE req[r]]
<1>0. /\ UNCHANGED <<active, ackq, draining>> /\ att[a].ph \in {"sent", "lateW"}
      /\ \/ /\ \E A : StartIf(Wants(processes, pe, un, active, hash, eco.n), A, pe, 0, "main")
            /\ UNCHANGED <<processes, hash, req, reqq>>
         \/ /\ processes' = processes + 1 /\ hash' = hash + 1
            /\ req' = S /\ reqq' = <<>>
  BY Zenon DEF WorkerReady
<1>1. /\ req \in [Reqs -> ReqSet] /\ reqq \in Seq(Reqs)
      /\ processes \in Nat /\ pending \in Nat /\ unaccounted \in Nat
  BY RefParts, SlotInts DEF IdleInv, Parked
<1>2. /\ pe \in Int /\ un \in Int /\ pe + un = pending + unaccounted - 1
  BY <1>1
<1>3. ASSUME NEW A, StartIf(Wants(processes, pe, un, active, hash, eco.n), A, pe, 0, "main"),
             UNCHANGED <<processes, hash, req, reqq>>
      PROVE  Tended
  <2>1. Quiet
    BY <1>0, <1>3 DEF Quiet
  <2>2. Active'
    BY <2>1, QuietActive
  <2>3. /\ pending' \in {pe, pe + 1}
        /\ Wants(processes, pe, un, active, hash, eco.n) => pending' = pe + 1
    BY <1>2, <1>3, StartIfPending
  <2>4. pe \in Nat
    <3>1. CASE att[a].ph = "sent"
      <4>1. a \in Of(att, Starting) /\ IsFiniteSet(Of(att, Starting))
        BY <3>1, OfAtts, NamesAssumption, FS_Subset DEF Of, Starting
      <4>2. pending = Cardinality(Of(att, Starting))
        BY SlotsCounted DEF IdleInv, SlotInv, Count
      <4>3. pending # 0
        BY <4>1, <4>2, FS_EmptySet
      <4> QED BY <1>1, <4>3
    <3>2. CASE att[a].ph = "lateW"
      BY <1>1, <3>2
    <3> QED BY <1>0, <3>1, <3>2
  <2>5. ASSUME hash = processes, processes = 0, pe = 0, ackq # <<>>
        PROVE  Wants(processes, pe, un, active, hash, eco.n)
    <3>1. requeue = 0
      <4>1. CASE late
        BY <2>5, <4>1, NoneHeld
      <4>2. CASE ~late
        <5>1. pending = 1 /\ att[a].ph = "sent"
          BY <1>0, <1>1, <2>5, <4>2
        <5> QED BY <5>1, NoneHeld
      <4> QED BY <4>1, <4>2
    <3> HIDE DEF pe, un
    <3>2. processes + pe + un < MaxProcesses /\ pe < MaxPending
      BY <1>1, <1>2, <2>5, LimitsAssumption DEF LimitInv, WithinMax, MaxPending
    <3>3. active > hash + pe
      <4>1. active \in Nat /\ active > 0 /\ hash + pe = 0
        BY <2>5, WaitersActive
      <4> QED BY <4>1
    <3> QED BY <3>1, <3>2, <3>3 DEF Wants
  <2>6. hash = processes /\ processes = 0 /\ pending' = 0 => ackq = <<>>
    <3> HIDE DEF pe, un
    <3> QED BY <2>3, <2>4, <2>5
  <2>7. hash = processes /\ Served => Served'
    BY <1>0, <1>3, <2>6 DEF Served
  <2> QED BY <1>3, <2>2, <2>7 DEF Tended
<1>4. CASE /\ processes' = processes + 1 /\ hash' = hash + 1
           /\ req' = S /\ reqq' = <<>>
  <2>1. \A r \in Reqs : S[r].st = req[r].st
    BY <1>1, PostedJobs
  <2>2. Members(<<>>) = {}
    BY DEF Members
  <2>3. Quiet
    BY <1>0, <1>4, <2>1, <2>2 DEF Quiet
  <2>4. Active'
    BY <2>3, QuietActive
  <2>5. processes' # 0
    BY <1>1, <1>4
  <2> QED BY <1>4, <2>4, <2>5 DEF Tended, Served
<1> QED BY <1>0, <1>3, <1>4

\* nxt_router_app_port_close(): without a process and a start, a request that
\* waits has the slot that was given back.
LEMMA PortCloseTended ==
  ASSUME RefInv, IdleInv, LimitInv, conf # "freed", Active,
         NEW a \in Atts, PortClose(a)
  PROVE  Tended
<1> DEFINE e == Detached(PortBusy(eco, a), a, 0, 0)
           start == Wants(processes - 1, pending, unaccounted, active, hash - 1, e.n)
           S == [r \in Reqs |-> IF r \in Members(ackq) THEN [req[r] EXCEPT !.job = "requeue"]
                                                       ELSE req[r]]
<1>0. /\ processes' = processes - 1 /\ hash' = hash - 1
      /\ UNCHANGED <<active, reqq, draining>>
      /\ \/ req' = S /\ ackq' = <<>>
         \/ /\ \E A, d : StartIf(start, A, pending, d, "main")
            /\ UNCHANGED <<req, ackq>>
  BY Zenon DEF PortClose
<1> HIDE DEF e
<1>1. /\ req \in [Reqs -> ReqSet] /\ ackq \in Seq(Reqs) /\ pending \in Int
      /\ processes \in Nat /\ pending \in Nat /\ unaccounted \in Nat
  BY RefParts, SlotInts DEF IdleInv, Parked
<1>2. CASE req' = S /\ ackq' = <<>>
  <2>1. \A r \in Reqs : S[r].st = req[r].st
    BY <1>1, PostedJobs
  <2>2. Members(<<>>) = {}
    BY DEF Members
  <2>3. Quiet
    BY <1>0, <1>2, <2>1, <2>2 DEF Quiet
  <2>4. Active'
    BY <2>3, QuietActive
  <2> QED BY <1>0, <1>2, <2>4 DEF Tended, Served
<1>3. ASSUME NEW A, NEW d, StartIf(start, A, pending, d, "main"), UNCHANGED <<req, ackq>>
      PROVE  Tended
  <2>1. Quiet
    BY <1>0, <1>3 DEF Quiet
  <2>2. Active'
    BY <2>1, QuietActive
  <2>3. pending' \in {pending, pending + 1} /\ (start => pending' = pending + 1)
    <3> HIDE DEF start
    <3> QED BY <1>1, <1>3, StartIfPending
  <2>4. ASSUME hash = processes, processes - 1 = 0, pending = 0, ackq # <<>> PROVE start
    <3>1. requeue = 0
      BY <2>4, NoneHeld
    <3>2. processes - 1 + pending + unaccounted < MaxProcesses /\ pending < MaxPending
      BY <1>1, <2>4, LimitsAssumption DEF LimitInv, WithinMax, MaxPending
    <3>3. active > hash - 1 + pending
      <4>1. active \in Nat /\ active > 0 /\ hash - 1 + pending = 0
        BY <2>4, WaitersActive
      <4> QED BY <4>1
    <3> QED BY <3>1, <3>2, <3>3 DEF Wants
  <2>5. hash = processes /\ processes - 1 = 0 /\ pending' = 0 => ackq = <<>>
    <3> HIDE DEF start
    <3> QED BY <1>1, <2>3, <2>4
  <2>6. hash = processes /\ Served => Served'
    BY <1>0, <1>3, <2>5 DEF Served
  <2> QED BY <1>0, <2>2, <2>6 DEF Tended
<1> QED BY <1>0, <1>2, <1>3

\* The steps that touch neither the requests nor the counters.
LEMMA ClaimStates ==
  ASSUME req \in [Reqs -> ReqSet], NEW r \in Reqs, NEW w \in Atts, NEW c \in 0..Contexts,
         Claim(r, w, c)
  PROVE  \A x \in Reqs : req'[x].st = req[x].st
<1> DEFINE y == [req[r] EXCEPT !.wk = "taken", !.w = w, !.c = c]
<1>1. \A x \in Reqs : req[x] \in ReqSet
  OBVIOUS
<1>2. y.st = req[r].st
  BY <1>1 DEF ReqSet
<1>3. req' = [req EXCEPT ![r] = y]
  BY DEF Claim
<1> HIDE DEF y
<1> QED BY <1>1, <1>2, <1>3

LEMMA CalmStates ==
  ASSUME req \in [Reqs -> ReqSet],
         \/ Restart \/ RemoveApp \/ ConfRelease \/ AdjustBegin \/ AdjustEnd
         \/ \E q \in Protos : ProtoExit(q) \/ ProtoRemoved(q)
         \/ \E a \in Atts : DetachedStart(a) \/ DetachedFinish(a)
         \/ \E r \in Reqs : \/ SendAck(r) \/ Fault(r)
                            \/ \E w \in Atts, c \in 0..Contexts : Claim(r, w, c)
  PROVE  \A x \in Reqs : req'[x].st = req[x].st
<1>1. req \in [Reqs -> ReqSet] /\ \A r \in Reqs : req[r] \in ReqSet
  OBVIOUS
<1>2. ASSUME NEW r \in Reqs, SendAck(r)
      PROVE  \A x \in Reqs : req'[x].st = req[x].st
  BY <1>1, <1>2 DEF SendAck, ReqSet
<1>3. ASSUME NEW r \in Reqs, NEW w \in Atts, NEW c \in 0..Contexts, Claim(r, w, c)
      PROVE  \A x \in Reqs : req'[x].st = req[x].st
  BY <1>1, <1>3, ClaimStates
<1>4. CASE req' = req
  BY <1>4
<1> QED BY <1>2, <1>3, <1>4 DEF Restart, RemoveApp, ConfRelease, AdjustBegin, AdjustEnd,
           ProtoExit, ProtoRemoved, DetachedStart, DetachedFinish, Fault

LEMMA CalmTended ==
  ASSUME RefInv, IdleInv, conf # "freed", Active,
         \/ Restart \/ RemoveApp \/ ConfRelease \/ AdjustBegin \/ AdjustEnd
         \/ \E q \in Protos : ProtoExit(q) \/ ProtoRemoved(q)
         \/ \E a \in Atts : DetachedStart(a) \/ DetachedFinish(a)
         \/ \E r \in Reqs : \/ SendAck(r) \/ Fault(r)
                            \/ \E w \in Atts, c \in 0..Contexts : Claim(r, w, c)
  PROVE  Tended
<1> USE DEF starting, slots, parked
<1>0. UNCHANGED <<active, processes, hash, draining, ackq, reqq>>
  BY DEF Restart, RemoveApp, ConfRelease, AdjustBegin, AdjustEnd, ProtoExit, ProtoRemoved,
         DetachedStart, DetachedFinish, SendAck, Fault, Claim
<1>1. req \in [Reqs -> ReqSet] /\ pending \in Nat /\ pending \in Int
  BY RefParts, SlotInts DEF IdleInv
<1>2. pending' \in {pending, pending + 1}
  <2>1. \/ pending' = pending
        \/ \E start, d : StartIf(start, att, pending, d, "main")
    BY DEF Restart, RemoveApp, ConfRelease, AdjustBegin, AdjustEnd, ProtoExit, ProtoRemoved,
           DetachedStart, DetachedFinish, SendAck, Fault, Claim
  <2> QED BY <1>1, <2>1, StartIfPending
<1>3. \A x \in Reqs : req'[x].st = req[x].st
  BY <1>1, CalmStates
<1> QED BY <1>0, <1>1, <1>2, <1>3, QuietTended

LEMMA DrainQuiet ==
  ASSUME RefInv, IdleInv, conf # "freed", NEW who, DrainStep(who)
  PROVE  Quiet
<1>0. active' = active
  BY DEF DrainStep
<1>1. CASE UNCHANGED <<req, ackq, reqq>>
  BY <1>0, <1>1 DEF Quiet
<1>2. CASE (reqq # <<>> \/ ackq # <<>>) /\ DrainFirst(req, reqq, ackq)
  <2>1. /\ req \in [Reqs -> ReqSet] /\ ackq \in Seq(Reqs) /\ Distinct(ackq)
        /\ reqq \in Seq(Reqs) /\ Distinct(reqq) /\ \A r \in Reqs : req[r] \in ReqSet
    BY RefParts DEF Parked
  <2>2. PICK x : req' = [req EXCEPT ![x].job = "err"]
    BY <1>2 DEF DrainFirst
  <2>3. \A r \in Reqs : req'[r].st = req[r].st
    BY <2>1, <2>2 DEF ReqSet
  <2>4. \/ ackq' = Tail(ackq) /\ ackq # <<>> /\ reqq' = reqq
        \/ reqq' = Tail(reqq) /\ reqq # <<>> /\ ackq' = ackq
    BY <1>2 DEF DrainFirst
  <2>5. Members(ackq') \subseteq Members(ackq) /\ Members(reqq') \subseteq Members(reqq)
    BY <2>1, <2>4, FirstLeaves
  <2> QED BY <1>0, <2>3, <2>5 DEF Quiet
<1> QED BY <1>1, <1>2 DEF DrainStep

LEMMA DrainTended ==
  ASSUME RefInv, IdleInv, conf # "freed", Active,
         NEW who, DrainStep(who)
  PROVE  Tended
<1>0. UNCHANGED <<active, processes, pending, hash>>
  BY DEF DrainStep, slots
<1>1. Active'
  BY DrainQuiet, QuietActive
<1>2. Served => Served'
  BY <1>0 DEF DrainStep, Served
<1> QED BY <1>0, <1>1, <1>2 DEF Tended

\* With one context per worker no context port is in port_hash.
LEMMA ContextsNone ==
  ASSUME IdleInv, conf # "freed", Contexts = 0, NEW a \in Atts
  PROVE  ~ContextClose(a) /\ ~ContextReady(a)
<1>1. eco.port[a].ctx \in 0..0
  <2>1. Sound(eco, att, req, now)
    BY IdleParts
  <2>2. eco.port[a] \in PortSet
    BY <2>1, SoundTypes
  <2> QED BY <2>2 DEF PortSet
<1>2. ~ContextReady(a)
  BY <1>1 DEF ContextReady
<1>3. ~ContextClose(a)
  <2>1. PortCleared(eco.port[a], att[a].ph, a, now)
    BY IdleParts DEF Sound
  <2> QED BY <1>1, <2>1 DEF ContextClose, PortCleared, Gone
<1> QED BY <1>2, <1>3

\* The idle timer and context ports change the counts of workers only.
LEMMA ReapTended ==
  ASSUME RefInv, IdleInv, conf # "freed", Active,
         AdjustReap \/ \E a \in Atts : ContextClose(a) \/ ContextReady(a)
  PROVE  Active' /\ (Contexts = 0 /\ hash = processes => hash' = processes')
<1>1. UNCHANGED <<active, req, ackq, reqq>>
  BY DEF AdjustReap, ContextClose, ContextReady, parked
<1>2. Quiet
  BY <1>1 DEF Quiet
<1>3. AdjustReap /\ hash = processes => hash' = processes'
  BY DEF AdjustReap
<1> QED BY <1>2, <1>3, QuietActive, ContextsNone

LEMMA TendedNext ==
  ASSUME RefInv, IdleInv, LimitInv, Next, ~FreeApp, conf # "freed", Active
  PROVE  \/ Tended
         \/ AdjustReap \/ \E a \in Atts : ContextClose(a) \/ ContextReady(a)
<1>0. pending \in Nat
  BY SlotInts DEF IdleInv
<1>1. ASSUME NEW a \in Atts,
             \/ StartHandler(a) \/ StartTimeout(a) \/ StartExpired(a) \/ MessageLeaves(a)
             \/ ProtoReady(a) \/ StartDies(a) \/ StartLost(a) \/ WorkerExit(a)
      PROVE  Tended
  <2>1. Drained /\ UNCHANGED <<active, hash, processes>> /\ (Served => Served')
    BY <1>0, <1>1, AttemptsDrained
  <2>2. Quiet
    BY <2>1, DrainedQuiet
  <2>3. Active'
    BY <2>2, QuietActive
  <2> QED BY <2>1, <2>3 DEF Tended
<1>2. ASSUME NEW a \in Atts,
             WorkerReady(a) \/ PortClose(a) \/ DetachedStart(a) \/ DetachedFinish(a)
      PROVE  Tended
  BY <1>2, WorkerReadyTended, PortCloseTended, CalmTended
<1>3. ASSUME \/ \E q \in Protos : ProtoExit(q) \/ ProtoRemoved(q)
             \/ AdjustBegin \/ AdjustEnd \/ Restart \/ RemoveApp \/ ConfRelease
      PROVE  Tended
  BY <1>3, CalmTended
<1>4. ASSUME NEW who, DrainStep(who) PROVE Tended
  BY <1>4, DrainTended
<1>5. ASSUME NEW r \in Reqs,
             \/ PortGet(r) \/ SendAck(r) \/ HeadersAck(r) \/ Response(r)
             \/ PeerGone(r) \/ Upgrade(r) \/ Close(r) \/ AckTimeout(r)
             \/ AppTimeout(r) \/ ErrHandler(r) \/ RequeueHandler(r)
             \/ Resend(r) \/ Fault(r)
             \/ \E w \in Atts, c \in 0..Contexts : Claim(r, w, c)
      PROVE  Tended
  <2>1. CASE PortGet(r)         BY <2>1, PortGetTended
  <2>2. CASE HeadersAck(r)      BY <2>2, HeadersAckTended
  <2>3. CASE Response(r) \/ PeerGone(r) \/ Close(r) \/ AckTimeout(r) \/ ErrHandler(r)
    BY <2>3, AnswersTended
  <2>4. CASE Upgrade(r) \/ AppTimeout(r)   BY <2>4, EndsTended
  <2>5. CASE RequeueHandler(r)  BY <2>5, RequeueTended
  <2>6. CASE Resend(r)          BY <2>6, ResendTended
  <2>7. CASE \/ SendAck(r) \/ Fault(r)
             \/ \E w \in Atts, c \in 0..Contexts : Claim(r, w, c)
    BY <2>7, CalmTended
  <2> QED BY <1>5, <2>1, <2>2, <2>3, <2>4, <2>5, <2>6, <2>7
<1> QED BY <1>1, <1>2, <1>3, <1>4, <1>5 DEF Next

\* A process or a start is an attempt.
LEMMA ServedNotStranded ==
  ASSUME SlotInv, Served PROVE NotStranded
<1>1. CASE processes = 0 /\ pending = 0
  <2>1. ackq = <<>> => Members(ackq) = {}
    BY DEF Members
  <2> QED BY <1>1, <2>1 DEF Served, NotStranded
<1>2. CASE ~(processes = 0 /\ pending = 0)
  <2>1. processes = Cardinality(Of(att, Serving)) /\ pending = Cardinality(Of(att, Starting))
    BY SlotsCounted DEF SlotInv, Count
  <2>2. Of(att, Serving) # {} \/ Of(att, Starting) # {}
    <3>1. Cardinality({}) = 0
      BY NoneLeft
    <3> QED BY <1>2, <2>1, <3>1
  <2>3. \E a \in Atts : att[a].ph # "none"
    BY <2>2 DEF Of, Serving, Starting
  <2> QED BY <2>3 DEF NotStranded
<1> QED BY <1>1, <1>2

LEMMA FreeNotStranded ==
  ASSUME NotStranded, IdleInv, FreeApp PROVE NotStranded'
<1>1. /\ UNCHANGED <<req, ackq, draining, now>>
      /\ att' = [a \in Atts |-> IF a \in {b \in Atts : Registered(b)}
                                  THEN [att[a] EXCEPT !.ph = "quit"] ELSE att[a]]
  BY DEF FreeApp, parked
<1>2. \A a \in Atts : att[a] \in AttSet
  BY SlotInts DEF IdleInv
<1>3. \A a \in Atts : [att[a] EXCEPT !.ph = "quit"].ph = "quit"
  BY <1>2 DEF AttSet
<1>4. \A a \in Atts : att[a].ph # "none" => att'[a].ph # "none"
  BY <1>1, <1>3
<1> QED BY <1>1, <1>4 DEF NotStranded

\* What is known of the application until it is freed.
AppInv == IdleInv /\ RefInv /\ LimitInv

LEMMA AppSafe == Narrow /\ Spec => []AppInv
<1> SUFFICES ASSUME Narrow PROVE Spec => []AppInv
  OBVIOUS
<1>1. Init => RefInv /\ LimitInv
  BY RefInit, LimitInit
<1>2. IdleInv /\ RefInv /\ [Next]_vars => RefInv'
  BY RefStep
<1>3. LimitInv /\ [Next]_vars => LimitInv'
  BY LimitStep
<1>4. Spec => []IdleInv
  BY IdleSafe
<1> QED BY <1>1, <1>2, <1>3, <1>4, PTL DEF Spec, AppInv

\* active_requests counts the requests that wait or run, in every state and, with
\* one context per worker, port_hash_count the workers.
CountInv ==
  conf # "freed" => Active /\ (Contexts = 0 => hash = processes)

LEMMA CountInit == ASSUME Init PROVE CountInv
<1>1. /\ active = 0 /\ ackq = <<>> /\ reqq = <<>> /\ hash = Spare /\ processes = Spare
      /\ req = [r \in Reqs |-> NewReq]
  BY DEF Init
<1>2. Members(<<>>) = {}
  BY DEF Members
<1>3. NewReq.st = "new"
  BY DEF NewReq, Req
<1>4. Users(req) = {}
  BY <1>1, <1>3 DEF Users, Using
<1>5. UseN = 0
  BY <1>4, NoneLeft DEF UseN
<1>6. Active
  BY <1>1, <1>2, <1>5 DEF Active, Waits
<1> QED BY <1>1, <1>6 DEF CountInv

LEMMA CountStep ==
  ASSUME Narrow, AppInv, CountInv, [Next]_vars PROVE CountInv'
<1>1. CASE UNCHANGED vars
  BY <1>1 DEF vars, starting, slots, parked, life, CountInv, Active, UseN
<1>2. CASE FreeApp
  BY <1>2 DEF FreeApp, CountInv
<1>3. CASE Next /\ ~FreeApp
  <2>1. conf # "freed"
    BY <1>3, RefNext DEF AppInv
  <2>2. Tended \/ AdjustReap \/ \E a \in Atts : ContextClose(a) \/ ContextReady(a)
    BY <1>3, <2>1, TendedNext DEF CountInv, AppInv
  <2>3. Active' /\ (Contexts = 0 => hash' = processes')
    BY <2>1, <2>2, ReapTended DEF Tended, CountInv, AppInv
  <2> QED BY <2>3 DEF CountInv
<1> QED BY <1>1, <1>2, <1>3

LEMMA CountSafe == Narrow /\ Spec => []CountInv
<1> SUFFICES ASSUME Narrow PROVE Spec => []CountInv
  OBVIOUS
<1>1. Init => CountInv
  BY CountInit
<1>2. AppInv /\ CountInv /\ [Next]_vars => CountInv'
  BY CountStep
<1>3. Spec => []AppInv
  BY AppSafe
<1> QED BY <1>1, <1>2, <1>3, PTL DEF Spec

LEMMA WaitInit == ASSUME Init PROVE WaitInv
<1>1. ackq = <<>>
  BY DEF Init
<1>2. Members(<<>>) = {}
  BY DEF Members
<1> QED BY <1>1, <1>2 DEF WaitInv, Served, NotStranded

LEMMA WaitStep ==
  ASSUME Single, AppInv, CountInv, WaitInv, AppInv', [Next]_vars PROVE WaitInv'
<1>1. CASE UNCHANGED vars
  BY <1>1 DEF vars, starting, slots, parked, life, WaitInv, Served, NotStranded
<1>2. CASE FreeApp
  <2>1. conf' = "freed"
    BY <1>2 DEF FreeApp
  <2>2. NotStranded'
    BY <1>2, FreeNotStranded DEF WaitInv, AppInv
  <2> QED BY <2>1, <2>2 DEF WaitInv
<1>3. CASE Next /\ ~FreeApp
  <2>1. Narrow
    BY DEF Narrow, Single
  <2>2. conf # "freed"
    BY <1>3, <2>1, RefNext DEF AppInv
  <2>3. ~AdjustReap /\ ~\E a \in Atts : ContextClose(a) \/ ContextReady(a)
    <3>1. ~AdjustReap
      BY DEF AdjustReap, Single
    <3> QED BY <2>2, <3>1, ContextsNone DEF Single, AppInv
  <2>4. Tended /\ hash = processes
    BY <1>3, <2>2, <2>3, TendedNext DEF CountInv, AppInv, Single
  <2>5. SlotInv' /\ Served'
    BY <2>2, <2>4 DEF AppInv, IdleInv, Tended, WaitInv
  <2>6. (SlotInv /\ Served => NotStranded)'
    BY ServedNotStranded, PTL
  <2> QED BY <2>5, <2>6 DEF WaitInv
<1> QED BY <1>1, <1>2, <1>3

\* A request that no worker took is not forgotten: whatever fails, dies, expires
\* or is replaced, a process can take it, a start is on its way, or a thread is
\* in the loop of nxt_router_app_start_failed() that answers it.  For every
\* number of processes and requests, and every event but the idle timer, with
\* one context per worker.
THEOREM RequestsNotStranded == Single /\ Spec => []NotStranded
<1> SUFFICES ASSUME Single PROVE Spec => []NotStranded
  OBVIOUS
<1>0. Narrow
  BY DEF Narrow, Single
<1>1. Init => WaitInv
  BY WaitInit
<1>2. AppInv /\ CountInv /\ WaitInv /\ AppInv' /\ [Next]_vars => WaitInv'
  BY WaitStep
<1>3. WaitInv => NotStranded
  BY DEF WaitInv
<1>4. Spec => []AppInv
  BY <1>0, AppSafe
<1>5. Spec => []CountInv
  BY <1>0, CountSafe
<1> QED BY <1>1, <1>2, <1>3, <1>4, <1>5, PTL DEF Spec

-----------------------------------------------------------------------------
(* Detached workers and context ports.                                     *)

\* The ports that are detached, and a step that leaves them, or moves the port
\* of a and detached_processes with it; both leave the context ports.
DetachedPorts(e) == {a \in Atts : e.port[a].det = 1}
CtxSame(e, f) == \A b \in Atts : f.port[b].ctx = e.port[b].ctx
DetSame(e, f) ==
  /\ f.det = e.det /\ \A b \in Atts : f.port[b].det = e.port[b].det
  /\ CtxSame(e, f)
DetMoved(e, f, a) ==
  /\ f.det = e.det + (f.port[a].det - e.port[a].det)
  /\ \A b \in Atts : b # a => f.port[b].det = e.port[b].det
  /\ CtxSame(e, f)

LEMMA PortDet ==
  ASSUME NEW e, QueuesSound(e)
  PROVE  /\ e.det \in Int /\ \A a \in Atts : e.port[a].det \in 0..1
         /\ e.port \in [Atts -> PortSet]
<1>1. e.det \in Int /\ e.port \in [Atts -> PortSet]
  BY EcoTypes DEF QueuesSound
<1>2. \A a \in Atts : e.port[a] \in PortSet
  BY <1>1
<1> QED BY <1>1, <1>2 DEF PortSet

LEMMA DetCounted ==
  ASSUME NEW e, NEW f, QueuesSound(e), QueuesSound(f),
         e.det = Cardinality(DetachedPorts(e)),
         \/ DetSame(e, f) \/ \E a \in Atts : DetMoved(e, f, a)
         \/ f.det = e.det /\ \A b \in Atts : f.port[b].det = e.port[b].det
  PROVE  f.det = Cardinality(DetachedPorts(f))
<1>1. /\ \A a \in Atts : e.port[a].det \in 0..1 /\ f.port[a].det \in 0..1
      /\ e.det \in Int
  BY PortDet
<1>2. IsFiniteSet(DetachedPorts(e)) /\ Cardinality(DetachedPorts(e)) \in Nat
  <2>1. DetachedPorts(e) \subseteq Atts
    BY DEF DetachedPorts
  <2> QED BY <2>1, NamesAssumption, FS_Subset, FS_CardinalityType
<1>3. CASE f.det = e.det /\ \A b \in Atts : f.port[b].det = e.port[b].det
  <2>1. DetachedPorts(f) = DetachedPorts(e)
    BY <1>3 DEF DetachedPorts
  <2> QED BY <1>3, <2>1
<1>4. ASSUME NEW a \in Atts, DetMoved(e, f, a)
      PROVE  f.det = Cardinality(DetachedPorts(f))
  <2>1. CASE f.port[a].det = e.port[a].det
    <3>1. DetachedPorts(f) = DetachedPorts(e)
      BY <1>4, <2>1 DEF DetMoved, DetachedPorts
    <3>2. f.det = e.det
      BY <1>1, <1>4, <2>1 DEF DetMoved
    <3> QED BY <3>1, <3>2
  <2>2. CASE f.port[a].det = 1 /\ e.port[a].det = 0
    <3>1. DetachedPorts(f) = DetachedPorts(e) \cup {a} /\ a \notin DetachedPorts(e)
      BY <1>4, <2>2 DEF DetMoved, DetachedPorts
    <3>2. f.det = e.det + 1
      BY <1>1, <1>4, <2>2 DEF DetMoved
    <3> QED BY <1>2, <3>1, <3>2, FS_AddElement
  <2>3. CASE f.port[a].det = 0 /\ e.port[a].det = 1
    <3>1. DetachedPorts(f) = DetachedPorts(e) \ {a} /\ a \in DetachedPorts(e)
      BY <1>4, <2>3 DEF DetMoved, DetachedPorts
    <3>2. f.det = e.det - 1
      BY <1>1, <1>4, <2>3 DEF DetMoved
    <3> QED BY <1>2, <3>1, <3>2, FS_RemoveElement
  <2> QED BY <1>1, <2>1, <2>2, <2>3
<1> QED BY <1>3, <1>4 DEF DetSame

LEMMA DetSelf == ASSUME NEW e PROVE DetSame(e, e)
BY DEF DetSame, CtxSame

\* Another value of the other fields of a port.
LEMMA DetWith ==
  ASSUME NEW e, QueuesSound(e), NEW a \in Atts, NEW p, p.det = e.port[a].det,
         p.ctx = e.port[a].ctx
  PROVE  DetSame(e, WithPort(e, a, p))
<1>1. e.port \in [Atts -> PortSet]
  BY PortDet
<1>2. WithPort(e, a, p).det = e.det /\ WithPort(e, a, p).port = [e.port EXCEPT ![a] = p]
  BY DEF WithPort, Eco
<1> QED BY <1>1, <1>2 DEF DetSame, CtxSame

LEMMA DetBusy ==
  ASSUME NEW e, QueuesSound(e), NEW a \in Atts
  PROVE  DetSame(e, PortBusy(e, a)) /\ QueuesSound(PortBusy(e, a))
BY BusySound DEF DetSame, CtxSame, SameCounts

LEMMA DetIdle ==
  ASSUME NEW e, e.port \in [Atts -> PortSet], NEW a \in Atts, NEW open
  PROVE  DetSame(e, PortIdle(e, a, open))
<1>1. \A b \in Atts : e.port[b] \in PortSet
  OBVIOUS
<1> DEFINE q == [e.port[a] EXCEPT !.start = "set"]
<1>2. q.det = e.port[a].det /\ q.ctx = e.port[a].ctx
  BY <1>1 DEF PortSet
<1>3. \/ PortIdle(e, a, open) = e
      \/ PortIdle(e, a, open).det = e.det /\ PortIdle(e, a, open).port = e.port
      \/ /\ PortIdle(e, a, open).det = e.det
         /\ PortIdle(e, a, open).port = [e.port EXCEPT ![a] = q]
  BY DEF PortIdle, Eco
<1> HIDE DEF q
<1> QED BY <1>2, <1>3 DEF DetSame, CtxSame

LEMMA DetDetached ==
  ASSUME NEW e, QueuesSound(e), NEW a \in Atts, NEW ap \in Nat, NEW rt \in Nat
  PROVE  /\ DetMoved(e, Detached(e, a, ap, rt), a)
         /\ QueuesSound(Detached(e, a, ap, rt))
         /\ Detached(e, a, ap, rt).port[a].det = IF ap + rt > 0 THEN 1 ELSE 0
<1> DEFINE g == Detached(e, a, ap, rt)
<1>1. DetachedTo(e, g, a, ap, rt)
  BY DetachedSound
<1>2. g.det = e.det + ((IF ap + rt > 0 THEN 1 ELSE 0) - e.port[a].det)
  BY DetachedRefs
<1> HIDE DEF g
<1>3. /\ g.port[a].det = (IF ap + rt > 0 THEN 1 ELSE 0) /\ QueuesSound(g)
      /\ g.port[a].ctx = e.port[a].ctx
      /\ \A b \in Atts : b # a => g.port[b] = e.port[b]
  BY <1>1 DEF DetachedTo, Ported
<1>4. DetMoved(e, g, a)
  BY <1>2, <1>3 DEF DetMoved, CtxSame
<1> QED BY <1>3, <1>4 DEF g

LEMMA DetThen ==
  ASSUME NEW e, NEW f, NEW g
  PROVE  /\ DetSame(e, f) /\ DetSame(f, g) => DetSame(e, g)
         /\ \A a \in Atts : DetSame(e, f) /\ DetMoved(f, g, a) => DetMoved(e, g, a)
         /\ \A a \in Atts : DetMoved(e, f, a) /\ DetSame(f, g) => DetMoved(e, g, a)
BY DEF DetSame, DetMoved, CtxSame

\* Work that detaches a worker: its own, or a request that it holds.
Working == "detach" \in Events \/ \E r \in Reqs : req[r].st \in Holding

DetStep ==
  \/ DetSame(eco, eco')
  \/ \E a \in Atts : DetMoved(eco, eco', a) /\ (eco'.port[a].det = 0 \/ Working)

LEMMA UnlinkDet ==
  ASSUME IdleInv, conf # "freed", NEW r \in Reqs, Linked(r), NEW job, NEW d,
         Unlink(r, job, d)
  PROVE  DetSame(eco, eco')
<1> DEFINE w == req[r].w
           p == eco.port[w]
           released == IF req[r].st = "acked"
             THEN Port(p.active - 1, p.ws, p.det, p.app, p.router, p.start, p.ctx)
             ELSE Port(p.active, p.ws - 1, p.det, p.app, p.router, p.start, p.ctx)
           g == WithPort(eco, w, released)
<1>1. Sound(eco, att, req, now) /\ QueuesSound(eco)
  BY IdleParts DEF Sound
<1>2. CASE OnShared(r)
  BY <1>2, DetSelf DEF Unlink
<1>3. CASE ~OnShared(r)
  <2>1. req[r].st \in Held
    BY <1>3 DEF OnShared, Linked, Held
  <2>2. w \in Atts
    BY <1>1, <2>1, Behind
  <2>3. p \in PortSet
    BY <1>1, <2>2, SoundTypes
  <2>4. eco' = PortIdle(g, w, Open(w))
    BY <1>3 DEF Unlink, BackToIdle
  <2>5. released.det = p.det /\ released.ctx = p.ctx /\ released \in PortSet
    <3>1. /\ p.active \in Int /\ p.ws \in Int /\ p.det \in 0..1 /\ p.app \in Nat
          /\ p.router \in Nat /\ p.start \in {"zero", "set"} /\ p.ctx \in 0..Contexts
      BY <2>3, PortTypes
    <3>2. p.active - 1 \in Int /\ p.ws - 1 \in Int
      BY <3>1
    <3> HIDE DEF p
    <3> QED BY <3>1, <3>2, PortFields
  <2> HIDE DEF released
  <2>6. DetSame(eco, g) /\ g.port = [eco.port EXCEPT ![w] = released]
    BY <1>1, <2>2, <2>5, DetWith DEF WithPort, Eco
  <2>7. g.port \in [Atts -> PortSet]
    BY <1>1, <2>2, <2>5, <2>6, SoundTypes
  <2> HIDE DEF g
  <2>8. DetSame(g, PortIdle(g, w, Open(w)))
    BY <2>2, <2>7, DetIdle
  <2> QED BY <2>4, <2>6, <2>8, DetThen
<1> QED BY <1>2, <1>3

LEMMA SettleDet ==
  ASSUME IdleInv, conf # "freed", NEW r \in Reqs, req[r].st = "abandoned", Settle(r)
  PROVE  DetStep
<1> DEFINE w == req[r].w
           p == eco.port[w]
           rt == p.router - 1
           g == Detached(eco, w, p.app, rt)
<1>1. Sound(eco, att, req, now) /\ QueuesSound(eco) /\ req[r].st \in Held
  BY IdleParts DEF Sound, Held
<1>2. w \in Atts /\ Working
  BY <1>1, Behind DEF Working, Holding
<1>3. p.app \in Nat /\ p.router \in Nat
  BY <1>1, <1>2, SoundTypes
<1>4. CASE p.router = 0
  BY <1>4, DetSelf DEF Settle, DetStep
<1>5. CASE p.router > 0
  <2>1. rt \in Nat
    BY <1>3, <1>5
  <2>2. eco' = g \/ eco' = PortIdle(g, w, Open(w))
    BY <1>3, <1>5 DEF Settle, BackToIdle
  <2> HIDE DEF rt
  <2>3. DetMoved(eco, g, w) /\ QueuesSound(g)
    BY <1>1, <1>2, <1>3, <2>1, DetDetached
  <2> HIDE DEF g
  <2>4. g.port \in [Atts -> PortSet]
    BY <2>3, PortDet
  <2>5. DetSame(g, PortIdle(g, w, Open(w))) /\ DetSame(g, g)
    BY <1>2, <2>4, DetIdle, DetSelf
  <2>6. DetMoved(eco, eco', w)
    BY <1>2, <2>2, <2>3, <2>5, DetThen
  <2> QED BY <1>2, <2>6 DEF DetStep
<1> QED BY <1>3, <1>4, <1>5

LEMMA DetachedWorkDet ==
  ASSUME IdleInv, conf # "freed", NEW a \in Atts, DetachedStart(a) \/ DetachedFinish(a)
  PROVE  DetStep
<1> DEFINE p == eco.port[a]
           ap == p.app + 1
           am == p.app - 1
           e == Detached(eco, a, ap, p.router)
           f == Detached(eco, a, am, p.router)
<1>1. Sound(eco, att, req, now) /\ QueuesSound(eco)
  BY IdleParts DEF Sound
<1>2. p.app \in Nat /\ p.router \in Nat /\ ap \in Nat
  BY <1>1, SoundTypes
<1>3. Working
  BY DEF DetachedStart, DetachedFinish, Working
<1>4. CASE DetachedStart(a)
  <2>1. eco' = e \/ eco' = PortBusy(e, a)
    BY <1>4 DEF DetachedStart
  <2> HIDE DEF ap
  <2>2. DetMoved(eco, e, a) /\ QueuesSound(e)
    BY <1>1, <1>2, DetDetached
  <2> HIDE DEF e
  <2>3. DetSame(e, PortBusy(e, a)) /\ DetSame(e, e)
    BY <2>2, DetBusy, DetSelf
  <2>4. DetMoved(eco, eco', a)
    BY <2>1, <2>2, <2>3, DetThen
  <2> QED BY <1>3, <2>4 DEF DetStep
<1>5. CASE DetachedFinish(a)
  <2>1. eco' = f \/ eco' = PortIdle(f, a, Open(a))
    BY <1>5 DEF DetachedFinish, BackToIdle
  <2>2. am \in Nat
    BY <1>2, <1>5 DEF DetachedFinish
  <2> HIDE DEF am
  <2>3. DetMoved(eco, f, a) /\ QueuesSound(f)
    BY <1>1, <1>2, <2>2, DetDetached
  <2> HIDE DEF f
  <2>4. f.port \in [Atts -> PortSet]
    BY <2>3, PortDet
  <2>5. DetSame(f, PortIdle(f, a, Open(a))) /\ DetSame(f, f)
    BY <2>4, DetIdle, DetSelf
  <2>6. DetMoved(eco, eco', a)
    BY <2>1, <2>3, <2>5, DetThen
  <2> QED BY <1>3, <2>6 DEF DetStep
<1> QED BY <1>4, <1>5

LEMMA AppTimeoutDet ==
  ASSUME IdleInv, conf # "freed", NEW r \in Reqs, AppTimeout(r)
  PROVE  DetStep
<1> DEFINE w == req[r].w
           rt == eco.port[w].router + 1
           e == Detached(eco, w, eco.port[w].app, rt)
           b == PortBusy(e, w)
           q == [b.port[w] EXCEPT !.active = @ - 1]
<1>1. Sound(eco, att, req, now) /\ QueuesSound(eco) /\ req[r].st = "acked"
  BY IdleParts DEF Sound, AppTimeout
<1>2. w \in Atts /\ Working
  <2>1. req[r].st \in Held /\ req[r].st \in Holding
    BY <1>1 DEF Held, Holding
  <2> QED BY <1>1, <2>1, Behind DEF Working
<1>3. eco.port[w].app \in Nat /\ eco.port[w].router \in Nat /\ rt \in Nat
  BY <1>1, <1>2, SoundTypes
<1>4. eco' = WithPort(b, w, q)
  BY DEF AppTimeout
<1> HIDE DEF rt
<1>5. DetMoved(eco, e, w) /\ QueuesSound(e)
  BY <1>1, <1>2, <1>3, DetDetached
<1> HIDE DEF e
<1>6. DetSame(e, b) /\ QueuesSound(b)
  BY <1>2, <1>5, DetBusy
<1> HIDE DEF b
<1>7. q.det = b.port[w].det /\ q.ctx = b.port[w].ctx
  <2>1. b.port[w] \in PortSet
    BY <1>2, <1>6, PortDet
  <2> QED BY <2>1 DEF PortSet
<1> HIDE DEF q
<1>8. DetSame(b, WithPort(b, w, q))
  BY <1>2, <1>6, <1>7, DetWith
<1>9. DetMoved(eco, eco', w)
  <2>1. DetMoved(eco, b, w)
    BY <1>2, <1>5, <1>6, DetThen
  <2> QED BY <1>2, <1>4, <1>8, <2>1, DetThen
<1> QED BY <1>2, <1>9 DEF DetStep

LEMMA RequestDet ==
  ASSUME IdleInv, conf # "freed", NEW r \in Reqs, Upgrade(r) \/ HeadersAck(r)
  PROVE  DetSame(eco, eco')
<1> DEFINE w == req[r].w
           p == eco.port[w]
           q == Port(p.active - 1, p.ws + 1, p.det, p.app, p.router, p.start, p.ctx)
           b == PortBusy(eco, w)
           u == b.port[w]
           v == Port(u.active + 1, u.ws, u.det, u.app, u.router, u.start, u.ctx)
<1>1. /\ Sound(eco, att, req, now) /\ QueuesSound(eco) /\ LinkSound(att, req[r])
  BY IdleParts DEF Sound
<1>2. CASE Upgrade(r)
  <2>1. req[r].st \in Held /\ eco' = WithPort(eco, w, q)
    BY <1>2 DEF Upgrade, Held
  <2>2. w \in Atts
    BY <1>1, <2>1, Behind
  <2>3. q.det = p.det /\ q.ctx = p.ctx
    BY PortFields
  <2> HIDE DEF q
  <2> QED BY <1>1, <2>1, <2>2, <2>3, DetWith
<1>3. CASE HeadersAck(r)
  <2>1. w \in Atts
    BY <1>1, <1>3 DEF LinkSound, HeadersAck
  <2>2. eco' = eco \/ eco' = WithPort(b, w, v)
    BY <1>3 DEF HeadersAck
  <2>3. v.det = u.det /\ v.ctx = u.ctx
    BY PortFields
  <2>4. DetSame(eco, b) /\ QueuesSound(b)
    BY <1>1, <2>1, DetBusy
  <2> HIDE DEF b, v
  <2>5. DetSame(b, WithPort(b, w, v))
    BY <2>1, <2>3, <2>4, DetWith
  <2> QED BY <2>2, <2>4, <2>5, DetThen, DetSelf
<1> QED BY <1>2, <1>3

LEMMA WorkerReadyDet ==
  ASSUME IdleInv, conf # "freed", NEW a \in Atts, WorkerReady(a)
  PROVE  DetSame(eco, eco')
<1>1. /\ Sound(eco, att, req, now) /\ QueuesSound(eco)
      /\ \A r \in Reqs : LinkSound(att, req[r])
      /\ PortAgree(eco.port[a], att[a].ph, req, a)
      /\ PortCleared(eco.port[a], att[a].ph, a, now)
  BY IdleParts DEF Sound
<1>2. att[a].ph \in {"sent", "lateW"}
  BY DEF WorkerReady
<1> DEFINE g == WithPort(eco, a, NewPort)
<1>3. eco' = eco \/ eco' = PortIdle(g, a, TRUE)
  BY DEF WorkerReady, BackToIdle
<1>4. eco.port[a].det = 0 /\ eco.port[a].ctx = 0
  <2>1. \A r \in Reqs : req[r].w # a \/ req[r].st = "done"
    BY <1>1, <1>2 DEF LinkSound, Starting, Late
  <2>2. Cardinality(On(req, "abandoned", a)) = 0
    BY <2>1, OnUnused DEF Held
  <2>3. eco.port[a].app \in Nat /\ eco.port[a].router \in Nat
    BY <1>1, SoundTypes
  <2>4. eco.port[a].router = 0
    BY <1>1, <2>2, <2>3 DEF PortAgree
  <2>5. eco.port[a].app = 0
    BY <1>1, <1>2, <2>3 DEF PortCleared, Serving
  <2>6. eco.port[a].det = 0
    BY <1>1, <2>4, <2>5 DEF PortAgree
  <2>7. eco.port[a].ctx = 0
    <3>1. eco.port[a] \in PortSet
      BY <1>1, SoundTypes
    <3>2. eco.port[a].ctx \in Nat
      BY <3>1, LimitsAssumption DEF PortSet
    <3> QED BY <1>1, <1>2, <3>2 DEF PortCleared, Serving, Gone
  <2> QED BY <2>6, <2>7
<1>5. NewPort.det = 0 /\ NewPort.ctx = 0 /\ NewPort \in PortSet
  BY PortFields, LimitsAssumption DEF NewPort
<1>6. DetSame(eco, g) /\ g.port = [eco.port EXCEPT ![a] = NewPort]
  BY <1>1, <1>4, <1>5, DetWith DEF WithPort, Eco
<1>7. g.port \in [Atts -> PortSet]
  BY <1>1, <1>5, <1>6, SoundTypes
<1> HIDE DEF g
<1>8. DetSame(g, PortIdle(g, a, TRUE))
  BY <1>7, DetIdle
<1>9. DetSame(eco, PortIdle(g, a, TRUE)) /\ DetSame(eco, eco)
  BY <1>6, <1>8, DetThen, DetSelf
<1> QED BY <1>3, <1>9

LEMMA PortCloseDet ==
  ASSUME IdleInv, conf # "freed", NEW a \in Atts, PortClose(a)
  PROVE  DetStep
<1> DEFINE b == PortBusy(eco, a)
           e == Detached(b, a, 0, 0)
<1>1. QueuesSound(eco)
  BY DEF IdleInv
<1>2. eco' = e
  BY DEF PortClose
<1>3. DetSame(eco, b) /\ QueuesSound(b)
  BY <1>1, DetBusy
<1> HIDE DEF b
<1>4. DetMoved(b, e, a) /\ e.port[a].det = IF 0 + 0 > 0 THEN 1 ELSE 0
  BY <1>3, DetDetached
<1> HIDE DEF e
<1>5. DetMoved(eco, eco', a) /\ eco'.port[a].det = 0
  BY <1>2, <1>3, <1>4, DetThen
<1> QED BY <1>5 DEF DetStep

LEMMA AnswersDet ==
  ASSUME IdleInv, conf # "freed", NEW r \in Reqs,
         \/ Response(r) \/ PeerGone(r) \/ Close(r) \/ AckTimeout(r) \/ ErrHandler(r)
         \/ RequeueHandler(r) \/ Resend(r)
  PROVE  DetStep
<1>1. ASSUME Linked(r), NEW job, NEW d, Unlink(r, job, d) PROVE DetStep
  BY <1>1, UnlinkDet DEF DetStep
<1>2. ASSUME req[r].st = "abandoned", Settle(r) PROVE DetStep
  BY <1>2, SettleDet
<1>3. CASE eco' = eco
  BY <1>3, DetSelf DEF DetStep
<1>4. \/ eco' = eco
      \/ Linked(r) /\ \E job, d : Unlink(r, job, d)
      \/ req[r].st = "abandoned" /\ Settle(r)
  <2> USE DEF Linked
  <2>1. CASE Response(r)        BY <2>1, Zenon DEF Response
  <2>2. CASE PeerGone(r)        BY <2>2, Zenon DEF PeerGone
  <2>3. CASE Close(r)           BY <2>3, Zenon DEF Close
  <2>4. CASE AckTimeout(r)      BY <2>4, Zenon DEF AckTimeout
  <2>5. CASE ErrHandler(r)      BY <2>5, Zenon DEF ErrHandler
  <2>6. CASE RequeueHandler(r)  BY <2>6, Zenon DEF RequeueHandler
  <2>7. CASE Resend(r)          BY <2>7, Zenon DEF Resend, OnShared
  <2> QED BY <2>1, <2>2, <2>3, <2>4, <2>5, <2>6, <2>7
<1> QED BY <1>1, <1>2, <1>3, <1>4

LEMMA DetNext ==
  ASSUME IdleInv, Narrow, Next, ~FreeApp, conf # "freed"
  PROVE  DetStep \/ \E a \in Atts : ContextClose(a) \/ ContextReady(a)
<1> USE DEF idling
<1>1. ASSUME NEW a \in Atts,
             \/ StartHandler(a) \/ StartTimeout(a) \/ StartExpired(a) \/ MessageLeaves(a)
             \/ ProtoReady(a) \/ StartDies(a) \/ StartLost(a) \/ WorkerExit(a)
      PROVE  eco' = eco
  BY <1>1 DEF StartHandler, StartTimeout, StartExpired, MessageLeaves, ProtoReady, StartDies,
          StartLost, WorkerExit
<1>2. ASSUME NEW a \in Atts,
             \/ WorkerReady(a) \/ PortClose(a)
             \/ DetachedStart(a) \/ DetachedFinish(a)
      PROVE  DetStep
  BY <1>2, WorkerReadyDet, PortCloseDet, DetachedWorkDet DEF DetStep
<1>3. ASSUME \/ \E q \in Protos : ProtoExit(q) \/ ProtoRemoved(q)
             \/ \E who \in Reqs \cup {"main"} : DrainStep(who)
             \/ AdjustBegin \/ AdjustEnd \/ Restart \/ RemoveApp \/ ConfRelease
      PROVE  eco' = eco
  BY <1>3 DEF ProtoExit, ProtoRemoved, DrainStep, AdjustBegin, AdjustEnd, Restart,
          RemoveApp, ConfRelease
<1>4. CASE AdjustReap
  <2> DEFINE a == Head(eco.idle)
  <2>1. a \in Atts /\ eco' = Out(eco, a)
    BY <1>4, ReapSound DEF AdjustReap
  <2>2. QueuesSound(eco)
    BY DEF IdleInv
  <2> HIDE DEF a
  <2>3. Out(eco, a).port = eco.port /\ Out(eco, a).det = eco.det
    BY <2>1, <2>2, OutSound
  <2> QED BY <2>1, <2>3 DEF DetStep, DetSame, CtxSame
<1>5. ASSUME NEW r \in Reqs,
             \/ PortGet(r) \/ SendAck(r) \/ HeadersAck(r) \/ Response(r)
             \/ PeerGone(r) \/ Upgrade(r) \/ Close(r) \/ AckTimeout(r)
             \/ AppTimeout(r) \/ ErrHandler(r) \/ RequeueHandler(r)
             \/ Resend(r) \/ Fault(r)
             \/ \E w \in Atts, c \in 0..Contexts : Claim(r, w, c)
      PROVE  DetStep
  <2>1. CASE HeadersAck(r) \/ Upgrade(r)
    BY <2>1, RequestDet DEF DetStep
  <2>2. CASE AppTimeout(r)
    BY <2>2, AppTimeoutDet
  <2>3. CASE \/ Response(r) \/ PeerGone(r) \/ Close(r) \/ AckTimeout(r) \/ ErrHandler(r)
             \/ RequeueHandler(r) \/ Resend(r)
    BY <2>3, AnswersDet
  <2>4. CASE \/ PortGet(r) \/ SendAck(r) \/ Fault(r)
             \/ \E w \in Atts, c \in 0..Contexts : Claim(r, w, c)
    <3>1. eco' = eco
      BY <2>4 DEF PortGet, SendAck, Fault, Claim
    <3> QED BY <3>1, DetSelf DEF DetStep
  <2> QED BY <1>5, <2>1, <2>2, <2>3, <2>4
<1>6. CASE eco' = eco
  BY <1>6, DetSelf DEF DetStep
<1> QED BY <1>1, <1>2, <1>3, <1>4, <1>5, <1>6 DEF Next

\* The context ports in port_hash.
CtxPorts(e) == {x \in Atts \X (1..Contexts) : x[2] <= e.port[x[1]].ctx}

LEMMA CtxFinite ==
  ASSUME NEW e
  PROVE  IsFiniteSet(CtxPorts(e)) /\ Cardinality(CtxPorts(e)) \in Nat
<1>1. IsFiniteSet(Atts \X (1..Contexts))
  <2>1. IsFiniteSet(Atts) /\ IsFiniteSet(1..Contexts)
    BY NamesAssumption, LimitsAssumption, FS_Interval
  <2> QED BY <2>1, FS_Product
<1>2. CtxPorts(e) \subseteq Atts \X (1..Contexts)
  BY DEF CtxPorts
<1> QED BY <1>1, <1>2, FS_Subset, FS_CardinalityType

LEMMA CtxKept ==
  ASSUME NEW e, NEW f, CtxSame(e, f) PROVE CtxPorts(f) = CtxPorts(e)
BY DEF CtxSame, CtxPorts

\* One more, and one less.
LEMMA CtxAdded ==
  ASSUME NEW e, QueuesSound(e), NEW a \in Atts, NEW f,
         e.port[a].ctx + 1 \in 1..Contexts, f.port[a].ctx = e.port[a].ctx + 1,
         \A b \in Atts : b # a => f.port[b].ctx = e.port[b].ctx
  PROVE  Cardinality(CtxPorts(f)) = Cardinality(CtxPorts(e)) + 1
<1> DEFINE c == e.port[a].ctx
           x == <<a, c + 1>>
<1>1. c \in Nat
  <2>1. e.port[a] \in PortSet
    BY PortDet
  <2> QED BY <2>1, LimitsAssumption DEF PortSet
<1>2. x \in Atts \X (1..Contexts) /\ x \notin CtxPorts(e)
  BY <1>1 DEF CtxPorts
<1>3. CtxPorts(f) = CtxPorts(e) \cup {x}
  <2>1. ASSUME NEW y \in Atts \X (1..Contexts)
        PROVE  y[2] <= f.port[y[1]].ctx <=> y[2] <= e.port[y[1]].ctx \/ y = x
    <3>1. y = <<y[1], y[2]>> /\ y[1] \in Atts /\ y[2] \in 1..Contexts
      OBVIOUS
    <3>2. CASE y[1] # a
      BY <3>1, <3>2
    <3>3. CASE y[1] = a
      <4>1. y[2] <= c + 1 <=> y[2] <= c \/ y[2] = c + 1
        BY <1>1, <3>1
      <4> QED BY <3>1, <3>3, <4>1
    <3> QED BY <3>2, <3>3
  <2> QED BY <1>2, <2>1 DEF CtxPorts
<1> QED BY <1>2, <1>3, CtxFinite, FS_AddElement

\* port_hash_count is the number of main and context ports, and
\* detached_processes the number of detached workers.
PortInv ==
  conf # "freed" => /\ eco.det = Cardinality(DetachedPorts(eco))
                    /\ hash = processes + Cardinality(CtxPorts(eco))

LEMMA PortInit == ASSUME Init PROVE PortInv
<1>1. /\ eco.det = 0 /\ eco.port = [a \in Atts |-> NewPort] /\ hash = Spare
      /\ processes = Spare
  BY EcoFields DEF Init
<1>2. NewPort.det = 0 /\ NewPort.ctx = 0
  BY PortFields DEF NewPort
<1>3. DetachedPorts(eco) = {}
  BY <1>1, <1>2 DEF DetachedPorts
<1>4. CtxPorts(eco) = {}
  <2>1. ASSUME NEW y \in CtxPorts(eco) PROVE FALSE
    <3>1. y[1] \in Atts /\ y[2] \in 1..Contexts /\ y[2] <= eco.port[y[1]].ctx
      BY DEF CtxPorts
    <3>2. eco.port[y[1]].ctx = 0
      BY <1>1, <1>2, <3>1
    <3> QED BY <3>1, <3>2, LimitsAssumption
  <2> QED BY <2>1
<1>5. Cardinality({}) = 0
  BY FS_EmptySet
<1> QED BY <1>1, <1>3, <1>4, <1>5, LimitsAssumption DEF PortInv

LEMMA HashNext ==
  ASSUME Next, ~FreeApp
  PROVE  \/ UNCHANGED <<hash, processes>>
         \/ hash' = hash + 1 /\ processes' = processes + 1
         \/ hash' = hash - 1 /\ processes' = processes - 1
         \/ \E a \in Atts : ContextClose(a) \/ ContextReady(a)
<1> USE DEF slots
<1>1. ASSUME NEW a \in Atts,
             \/ StartHandler(a) \/ StartTimeout(a) \/ StartExpired(a) \/ MessageLeaves(a)
             \/ ProtoReady(a) \/ StartDies(a) \/ StartLost(a) \/ WorkerExit(a)
             \/ DetachedStart(a) \/ DetachedFinish(a)
      PROVE  UNCHANGED <<hash, processes>>
  BY <1>1 DEF StartHandler, StartTimeout, StartExpired, MessageLeaves, ProtoReady, StartDies,
          StartLost, WorkerExit, DetachedStart, DetachedFinish
<1>2. ASSUME NEW a \in Atts, WorkerReady(a)
      PROVE  \/ UNCHANGED <<hash, processes>>
             \/ hash' = hash + 1 /\ processes' = processes + 1
  BY <1>2 DEF WorkerReady
<1>3. ASSUME AdjustReap \/ \E a \in Atts : PortClose(a)
      PROVE  hash' = hash - 1 /\ processes' = processes - 1
  BY <1>3 DEF AdjustReap, PortClose
<1>4. ASSUME \/ \E q \in Protos : ProtoExit(q) \/ ProtoRemoved(q)
             \/ \E who \in Reqs \cup {"main"} : DrainStep(who)
             \/ AdjustBegin \/ AdjustEnd \/ Restart \/ RemoveApp \/ ConfRelease
      PROVE  UNCHANGED <<hash, processes>>
  BY <1>4 DEF ProtoExit, ProtoRemoved, DrainStep, AdjustBegin, AdjustEnd, Restart,
          RemoveApp, ConfRelease
<1>5. ASSUME NEW r \in Reqs,
             \/ PortGet(r) \/ SendAck(r) \/ HeadersAck(r) \/ Response(r)
             \/ PeerGone(r) \/ Upgrade(r) \/ Close(r) \/ AckTimeout(r)
             \/ AppTimeout(r) \/ ErrHandler(r) \/ RequeueHandler(r)
             \/ Resend(r) \/ Fault(r)
             \/ \E w \in Atts, c \in 0..Contexts : Claim(r, w, c)
      PROVE  UNCHANGED <<hash, processes>>
  BY <1>5 DEF PortGet, SendAck, HeadersAck, Response, PeerGone, Upgrade, Close, AckTimeout,
          AppTimeout, ErrHandler, RequeueHandler, Resend, Fault, Claim
<1> QED BY <1>1, <1>2, <1>3, <1>4, <1>5 DEF Next

LEMMA ContextStep ==
  ASSUME IdleInv, conf # "freed", NEW a \in Atts, ContextClose(a) \/ ContextReady(a),
         hash = processes + Cardinality(CtxPorts(eco)), processes \in Nat
  PROVE  /\ processes' = processes /\ eco'.det = eco.det
         /\ \A b \in Atts : eco'.port[b].det = eco.port[b].det
         /\ hash' = processes + Cardinality(CtxPorts(eco'))
<1>1. QueuesSound(eco) /\ PortCleared(eco.port[a], att[a].ph, a, now)
  BY IdleParts DEF Sound
<1>2. eco.port[a] \in PortSet /\ eco.port \in [Atts -> PortSet]
  BY <1>1, PortDet
<1>3. eco.port[a].ctx \in 0..Contexts
  BY <1>2 DEF PortSet
<1>4. processes' = processes
  BY DEF ContextClose, ContextReady, slots
<1>5. ASSUME NEW c, eco' = WithPort(eco, a, [eco.port[a] EXCEPT !.ctx = c])
      PROVE  /\ eco'.det = eco.det /\ \A b \in Atts : eco'.port[b].det = eco.port[b].det
             /\ eco'.port[a].ctx = c
             /\ \A b \in Atts : b # a => eco'.port[b].ctx = eco.port[b].ctx
  <2> DEFINE q == [eco.port[a] EXCEPT !.ctx = c]
  <2>1. q.det = eco.port[a].det /\ q.ctx = c
    BY <1>2 DEF PortSet
  <2> HIDE DEF q
  <2>2. eco' = WithPort(eco, a, q)
    BY <1>5 DEF q
  <2>3. eco'.det = eco.det /\ eco'.port = [eco.port EXCEPT ![a] = q]
    BY <2>2 DEF WithPort, Eco
  <2> QED BY <1>2, <2>1, <2>3
<1>6. /\ IsFiniteSet(CtxPorts(eco)) /\ Cardinality(CtxPorts(eco)) \in Nat
      /\ Cardinality(CtxPorts(eco')) \in Nat
  BY CtxFinite
<1>7. CASE ContextReady(a)
  <2>1. /\ eco.port[a].ctx < Contexts /\ hash' = hash + 1
        /\ eco' = WithPort(eco, a, [eco.port[a] EXCEPT !.ctx = eco.port[a].ctx + 1])
    BY <1>7 DEF ContextReady
  <2>2. eco.port[a].ctx + 1 \in 1..Contexts
    BY <1>3, <2>1, LimitsAssumption
  <2>3. Cardinality(CtxPorts(eco')) = Cardinality(CtxPorts(eco)) + 1
    BY <1>1, <1>5, <2>1, <2>2, CtxAdded
  <2> QED BY <1>4, <1>5, <1>6, <2>1, <2>3
<1>8. CASE ContextClose(a)
  <2>1. /\ hash' = hash - 1 /\ a \in now /\ att[a].ph \in Gone
        /\ eco' = WithPort(eco, a, [eco.port[a] EXCEPT !.ctx = eco.port[a].ctx - 1])
    BY <1>8 DEF ContextClose, Gone
  <2>2. eco.port[a].ctx > 0
    BY <1>1, <2>1 DEF PortCleared
  <2>3. /\ eco'.port[a].ctx + 1 = eco.port[a].ctx /\ eco'.port[a].ctx + 1 \in 1..Contexts
    <3>1. eco'.port[a].ctx = eco.port[a].ctx - 1
      BY <1>5, <2>1
    <3> QED BY <1>3, <2>2, <3>1, LimitsAssumption
  <2>4. QueuesSound(eco')
    BY <1>8, ContextCloseSound DEF Sound
  <2>5. Cardinality(CtxPorts(eco)) = Cardinality(CtxPorts(eco')) + 1
    BY <1>5, <2>1, <2>3, <2>4, CtxAdded
  <2> QED BY <1>4, <1>5, <1>6, <2>1, <2>5
<1> QED BY <1>7, <1>8

LEMMA PortStep ==
  ASSUME Narrow, AppInv, AppInv', PortInv, [Next]_vars PROVE PortInv'
<1>1. CASE UNCHANGED vars
  BY <1>1 DEF vars, slots, idling, life, PortInv, DetachedPorts, CtxPorts
<1>2. CASE FreeApp
  BY <1>2 DEF FreeApp, PortInv
<1>3. CASE Next /\ ~FreeApp
  <2>1. conf # "freed"
    BY <1>3, RefNext DEF AppInv
  <2>2. /\ QueuesSound(eco) /\ QueuesSound(eco') /\ IdleInv
        /\ eco.det = Cardinality(DetachedPorts(eco))
        /\ hash = processes + Cardinality(CtxPorts(eco)) /\ processes \in Nat
    BY <2>1, SlotInts DEF AppInv, IdleInv, PortInv
  <2>3. Cardinality(CtxPorts(eco)) \in Nat
    BY CtxFinite
  <2>4. ASSUME NEW a \in Atts, ContextClose(a) \/ ContextReady(a) PROVE PortInv'
    <3>1. /\ processes' = processes /\ eco'.det = eco.det
          /\ \A b \in Atts : eco'.port[b].det = eco.port[b].det
          /\ hash' = processes + Cardinality(CtxPorts(eco'))
      BY <2>1, <2>2, <2>4, ContextStep
    <3>2. eco'.det = Cardinality(DetachedPorts(eco'))
      BY <2>2, <3>1, DetCounted
    <3> QED BY <3>1, <3>2 DEF PortInv
  <2>5. ASSUME ~\E a \in Atts : ContextClose(a) \/ ContextReady(a) PROVE PortInv'
    <3>1. DetStep
      BY <1>3, <2>1, <2>2, <2>5, DetNext
    <3>2. DetSame(eco, eco') \/ \E a \in Atts : DetMoved(eco, eco', a)
      BY <3>1 DEF DetStep
    <3>3. eco'.det = Cardinality(DetachedPorts(eco'))
      BY <2>2, <3>2, DetCounted
    <3>4. CtxPorts(eco') = CtxPorts(eco)
      BY <3>2, CtxKept DEF DetSame, DetMoved
    <3>5. hash' = processes' + Cardinality(CtxPorts(eco))
      BY <1>3, <2>2, <2>3, <2>5, HashNext
    <3> QED BY <3>3, <3>4, <3>5 DEF PortInv
  <2> QED BY <2>4, <2>5
<1> QED BY <1>1, <1>2, <1>3

LEMMA PortSafe == Narrow /\ Spec => []PortInv
<1> SUFFICES ASSUME Narrow PROVE Spec => []PortInv
  OBVIOUS
<1>1. Init => PortInv
  BY PortInit
<1>2. AppInv /\ AppInv' /\ PortInv /\ [Next]_vars => PortInv'
  BY PortStep
<1>3. Spec => []AppInv
  BY AppSafe
<1> QED BY <1>1, <1>2, <1>3, PTL DEF Spec

-----------------------------------------------------------------------------
(* The end of the application.                                             *)

LEMMA UsesFree ==
  ASSUME NEW d, NEW who, Uses(d, who)
  PROVE  free' = free \/ (use' = 0 /\ free' \in {"posted", "called"})
BY DEF Uses

\* The free of the application is asked for by the last reference.
LEMMA FreeNext ==
  ASSUME Next, ~FreeApp
  PROVE  free' = free \/ (use' = 0 /\ free' \in {"posted", "called"})
<1> USE DEF holding
<1>1. ASSUME NEW S, NEW d, FailAttempts(S, d) PROVE \E i, who : Uses(i, who)
  BY <1>1, Zenon DEF FailAttempts
<1>2. ASSUME NEW start, NEW A, NEW pe, NEW d, NEW w, StartIf(start, A, pe, d, w)
      PROVE  \E i, who : Uses(i, who)
  BY <1>2, Zenon DEF StartIf
<1>3. ASSUME NEW e, NEW a, NEW open, NEW d, NEW w, BackToIdle(e, a, open, d, w)
      PROVE  \E i, who : Uses(i, who)
  BY <1>3, Zenon DEF BackToIdle
<1>4. ASSUME NEW r, Settle(r) \/ \E job, d : Unlink(r, job, d)
      PROVE  \E i, who : Uses(i, who)
  <2>1. CASE Settle(r)
    BY <1>3, <2>1, Zenon DEF Settle
  <2>2. ASSUME NEW job, NEW d, Unlink(r, job, d) PROVE \E i, who : Uses(i, who)
    BY <1>3, <2>2, Zenon DEF Unlink
  <2> QED BY <1>4, <2>1, <2>2
<1>5. ASSUME NEW a, PortError(a) \/ PortErrorExpired(a)
      PROVE  free' = free \/ \E i, who : Uses(i, who)
  BY <1>1, <1>5, Zenon DEF PortError, PortErrorExpired
<1>6. ASSUME NEW a \in Atts PROVE
      \/ StartHandler(a) \/ StartTimeout(a) \/ StartExpired(a) \/ MessageLeaves(a)
      \/ ProtoReady(a) \/ StartDies(a) \/ StartLost(a) \/ WorkerExit(a)
      => free' = free \/ \E i, who : Uses(i, who)
  <2>1. CASE StartHandler(a)   BY <1>1, <2>1, Zenon DEF StartHandler
  <2>2. CASE StartTimeout(a)   BY <1>5, <2>2, Zenon DEF StartTimeout
  <2>3. CASE StartExpired(a)   BY <2>3, Zenon DEF StartExpired
  <2>4. CASE MessageLeaves(a)  BY <1>5, <2>4, Zenon DEF MessageLeaves
  <2>5. CASE ProtoReady(a)     BY <2>5, Zenon DEF ProtoReady
  <2>6. CASE StartDies(a)      BY <1>5, <2>6, Zenon DEF StartDies
  <2>7. CASE StartLost(a)      BY <1>5, <2>7, Zenon DEF StartLost
  <2>8. CASE WorkerExit(a)     BY <2>8, Zenon DEF WorkerExit
  <2> QED BY <2>1, <2>2, <2>3, <2>4, <2>5, <2>6, <2>7, <2>8
<1>7. ASSUME NEW a \in Atts PROVE
      \/ WorkerReady(a) \/ PortClose(a) \/ ContextClose(a) \/ ContextReady(a)
      \/ DetachedStart(a) \/ DetachedFinish(a)
      => free' = free \/ \E i, who : Uses(i, who)
  <2>1. CASE WorkerReady(a)    BY <1>2, <1>3, <2>1, Zenon DEF WorkerReady
  <2>2. CASE PortClose(a)      BY <1>2, <2>2, Zenon DEF PortClose
  <2>3. CASE ContextClose(a)   BY <2>3, Zenon DEF ContextClose
  <2>4. CASE ContextReady(a)   BY <2>4, Zenon DEF ContextReady
  <2>5. CASE DetachedStart(a)  BY <1>2, <2>5, Zenon DEF DetachedStart
  <2>6. CASE DetachedFinish(a) BY <1>3, <2>6, Zenon DEF DetachedFinish
  <2> QED BY <2>1, <2>2, <2>3, <2>4, <2>5, <2>6
<1>8. ASSUME \/ \E q \in Protos : ProtoExit(q) \/ ProtoRemoved(q)
             \/ \E who \in Reqs \cup {"main"} : DrainStep(who)
             \/ AdjustBegin \/ AdjustReap \/ AdjustEnd \/ Restart \/ RemoveApp \/ ConfRelease
      PROVE  free' = free \/ \E i, who : Uses(i, who)
  <2>1. CASE \E q \in Protos : ProtoExit(q) \/ ProtoRemoved(q)
    BY <2>1, Zenon DEF ProtoExit, ProtoRemoved
  <2>2. CASE \E who \in Reqs \cup {"main"} : DrainStep(who)
    BY <2>2, Zenon DEF DrainStep
  <2>3. CASE AdjustBegin \/ AdjustReap \/ AdjustEnd
    BY <2>3, Zenon DEF AdjustBegin, AdjustReap, AdjustEnd
  <2>4. CASE Restart \/ RemoveApp \/ ConfRelease
    BY <2>4, Zenon DEF Restart, RemoveApp, ConfRelease
  <2> QED BY <1>8, <2>1, <2>2, <2>3, <2>4
<1>9. ASSUME NEW r \in Reqs PROVE
      \/ PortGet(r) \/ SendAck(r) \/ HeadersAck(r) \/ Response(r)
      \/ PeerGone(r) \/ Upgrade(r) \/ Close(r) \/ AckTimeout(r)
      \/ AppTimeout(r) \/ ErrHandler(r) \/ RequeueHandler(r)
      \/ Resend(r) \/ Fault(r)
      \/ \E w \in Atts, c \in 0..Contexts : Claim(r, w, c)
      => free' = free \/ \E i, who : Uses(i, who)
  <2>1. CASE PortGet(r)         BY <1>2, <2>1, Zenon DEF PortGet
  <2>2. CASE SendAck(r)         BY <2>2, Zenon DEF SendAck
  <2>3. CASE HeadersAck(r)      BY <1>2, <2>3, Zenon DEF HeadersAck
  <2>4. CASE Response(r)        BY <1>4, <2>4, Zenon DEF Response
  <2>5. CASE PeerGone(r)        BY <1>4, <2>5, Zenon DEF PeerGone
  <2>6. CASE Upgrade(r)         BY <2>6, Zenon DEF Upgrade
  <2>7. CASE Close(r)           BY <1>4, <2>7, Zenon DEF Close
  <2>8. CASE AckTimeout(r)      BY <1>4, <2>8, Zenon DEF AckTimeout
  <2>9. CASE AppTimeout(r)      BY <1>2, <2>9, Zenon DEF AppTimeout
  <2>10. CASE ErrHandler(r)     BY <1>4, <2>10, Zenon DEF ErrHandler
  <2>11. CASE RequeueHandler(r) BY <1>4, <2>11, Zenon DEF RequeueHandler
  <2>12. CASE Resend(r)         BY <1>2, <1>4, <2>12, Zenon DEF Resend
  <2>13. CASE Fault(r)          BY <2>13, Zenon DEF Fault
  <2>14. CASE \E w \in Atts, c \in 0..Contexts : Claim(r, w, c)
    BY <2>14, Zenon DEF Claim
  <2> QED BY <2>1, <2>2, <2>3, <2>4, <2>5, <2>6, <2>7, <2>8, <2>9, <2>10, <2>11, <2>12,
             <2>13, <2>14
<1>10. free' = free \/ \E i, who : Uses(i, who)
  BY <1>6, <1>7, <1>8, <1>9 DEF Next
<1> QED BY <1>10, UsesFree

\* Without a request that holds a reference, none takes one once the
\* configurations are released.
LEMMA StatesStay ==
  ASSUME RefInv, IdleInv, Next, ~FreeApp, conf = "released",
         \A r \in Reqs : req[r].st \notin Holding
  PROVE  \A r \in Reqs : req'[r].st = req[r].st
<1>0. /\ conf # "freed" /\ req \in [Reqs -> ReqSet] /\ pending \in Nat
      /\ Parked(req, ackq, reqq)
  BY RefParts, SlotInts DEF IdleInv
<1>1. ASSUME NEW a \in Atts,
             \/ StartHandler(a) \/ StartTimeout(a) \/ StartExpired(a) \/ MessageLeaves(a)
             \/ ProtoReady(a) \/ StartDies(a) \/ StartLost(a) \/ WorkerExit(a)
      PROVE  \A r \in Reqs : req'[r].st = req[r].st
  <2>1. Drained /\ active' = active
    BY <1>0, <1>1, AttemptsDrained
  <2> QED BY <1>0, <2>1, DrainedQuiet DEF Quiet
<1>2. ASSUME NEW a \in Atts, WorkerReady(a) \/ PortClose(a)
      PROVE  \A r \in Reqs : req'[r].st = req[r].st
  <2>1. \/ req' = req
        \/ \E q \in {ackq, reqq}, job \in {"requeue", "resend"} :
             req' = [r \in Reqs |-> IF r \in Members(q) THEN [req[r] EXCEPT !.job = job]
                                                        ELSE req[r]]
    BY <1>2, Zenon DEF WorkerReady, PortClose
  <2>2. ackq \in Seq(Reqs) /\ reqq \in Seq(Reqs)
    BY <1>0 DEF Parked
  <2>3. ASSUME NEW q \in {ackq, reqq}, NEW job \in {"requeue", "resend"},
               req' = [r \in Reqs |-> IF r \in Members(q) THEN [req[r] EXCEPT !.job = job]
                                                          ELSE req[r]]
        PROVE  \A r \in Reqs : req'[r].st = req[r].st
    BY <1>0, <2>2, <2>3, PostedJobs
  <2> QED BY <2>1, <2>3
<1>3. ASSUME NEW a \in Atts, ContextClose(a) \/ ContextReady(a) PROVE req' = req
  BY <1>3 DEF ContextClose, ContextReady
<1>4. ASSUME \/ \E q \in Protos : ProtoExit(q) \/ ProtoRemoved(q)
             \/ \E a \in Atts : DetachedStart(a) \/ DetachedFinish(a)
             \/ AdjustBegin \/ AdjustEnd \/ Restart \/ RemoveApp \/ ConfRelease
      PROVE  \A r \in Reqs : req'[r].st = req[r].st
  BY <1>0, <1>4, CalmStates
<1>5. ASSUME NEW who, DrainStep(who) PROVE \A r \in Reqs : req'[r].st = req[r].st
  BY <1>0, <1>5, DrainQuiet DEF Quiet
<1>6. CASE AdjustReap
  BY <1>6 DEF AdjustReap
<1>7. ASSUME NEW r \in Reqs,
             \/ SendAck(r) \/ Fault(r)
             \/ \E w \in Atts, c \in 0..Contexts : Claim(r, w, c)
      PROVE  \A x \in Reqs : req'[x].st = req[x].st
  BY <1>0, <1>7, CalmStates
<1>8. ASSUME NEW r \in Reqs, ErrHandler(r) \/ RequeueHandler(r) \/ Resend(r)
      PROVE  \A x \in Reqs : req'[x].st = req[x].st
  <2>1. ~Linked(r) /\ ~OnShared(r)
    BY DEF Linked, OnShared, Holding
  <2>2. req' = [req EXCEPT ![r].job = "none"]
    BY <1>8, <2>1, Zenon DEF ErrHandler, RequeueHandler, Resend, Retracts
  <2>3. SameLinks(req, req')
    BY <1>0, <2>2, JobTyped
  <2> QED BY <2>3 DEF SameLinks
<1>9. ASSUME NEW r \in Reqs
      PROVE  /\ ~PortGet(r) /\ ~HeadersAck(r) /\ ~Response(r) /\ ~PeerGone(r) /\ ~Upgrade(r)
             /\ ~Close(r) /\ ~AckTimeout(r) /\ ~AppTimeout(r)
  BY DEF PortGet, HeadersAck, Response, PeerGone, Upgrade, Close, AckTimeout, AppTimeout,
         Holding
<1> QED BY <1>1, <1>2, <1>3, <1>4, <1>5, <1>6, <1>7, <1>8, <1>9 DEF Next

\* No detached work, and the idle timer and several contexts apart.
Attached == Narrow /\ "detach" \notin Events

\* Once the free is on its way no configuration, request or worker refers to the
\* application.
FreeInv ==
  conf # "freed" /\ free # "no" =>
    /\ conf = "released" /\ eco.det = 0
    /\ \A r \in Reqs : req[r].st \notin Holding

LEMMA LastReference ==
  ASSUME AppInv, PortInv, conf # "freed", use = 0,
         conf \in {"live", "unlinked", "released", "freed"}
  PROVE  /\ conf = "released" /\ eco.det = 0
         /\ \A r \in Reqs : req[r].st \notin Holding
<1>1. eco.det \in Nat
  <2>1. DetachedPorts(eco) \subseteq Atts
    BY DEF DetachedPorts
  <2> QED BY <2>1, NamesAssumption, FS_Subset, FS_CardinalityType DEF PortInv
<1>2. use = ConfN + HoldN + PostN + AdjN + NowN + eco.det + SweepN
  BY DEF AppInv, RefInv
<1>3. ConfN = 0 /\ HoldN = 0 /\ eco.det = 0
  BY <1>1, <1>2, CountsTyped
<1>4. conf = "released"
  BY <1>3 DEF ConfN
<1>5. Holders(req) = {}
  <2>1. IsFiniteSet(Holders(req))
    BY ReqsCounted DEF Holders
  <2> QED BY <1>3, <2>1, FS_EmptySet DEF HoldN
<1> QED BY <1>3, <1>4, <1>5 DEF Holders

\* What the router asserts when it frees the application.
Freed == conf \in {"live", "unlinked", "released", "freed"} /\ FreeInv /\ FreeClean

LEMMA FreedInit == ASSUME Init PROVE Freed
BY DEF Init, Freed, FreeInv, FreeClean

LEMMA ConfNext ==
  ASSUME Next, ~FreeApp
  PROVE  conf' = conf \/ (conf = "live" /\ conf' = "unlinked")
         \/ (conf = "unlinked" /\ conf' = "released")
<1> USE DEF life
<1>1. ASSUME NEW a \in Atts,
             \/ StartHandler(a) \/ StartTimeout(a) \/ StartExpired(a) \/ MessageLeaves(a)
             \/ ProtoReady(a) \/ StartDies(a) \/ StartLost(a) \/ WorkerExit(a)
             \/ WorkerReady(a) \/ PortClose(a) \/ ContextClose(a) \/ ContextReady(a)
             \/ DetachedStart(a) \/ DetachedFinish(a)
      PROVE  conf' = conf
  BY <1>1 DEF StartHandler, StartTimeout, StartExpired, MessageLeaves, ProtoReady, StartDies,
          StartLost, WorkerExit, WorkerReady, PortClose, ContextClose, ContextReady,
          DetachedStart, DetachedFinish
<1>2. ASSUME \/ \E q \in Protos : ProtoExit(q) \/ ProtoRemoved(q)
             \/ \E who \in Reqs \cup {"main"} : DrainStep(who)
             \/ AdjustBegin \/ AdjustReap \/ AdjustEnd \/ Restart
      PROVE  conf' = conf
  BY <1>2 DEF ProtoExit, ProtoRemoved, DrainStep, AdjustBegin, AdjustReap, AdjustEnd, Restart
<1>3. ASSUME NEW r \in Reqs,
             \/ PortGet(r) \/ SendAck(r) \/ HeadersAck(r) \/ Response(r)
             \/ PeerGone(r) \/ Upgrade(r) \/ Close(r) \/ AckTimeout(r)
             \/ AppTimeout(r) \/ ErrHandler(r) \/ RequeueHandler(r)
             \/ Resend(r) \/ Fault(r)
             \/ \E w \in Atts, c \in 0..Contexts : Claim(r, w, c)
      PROVE  conf' = conf
  BY <1>3 DEF PortGet, SendAck, HeadersAck, Response, PeerGone, Upgrade, Close, AckTimeout,
          AppTimeout, ErrHandler, RequeueHandler, Resend, Fault, Claim
<1>4. CASE RemoveApp
  BY <1>4 DEF RemoveApp
<1>5. CASE ConfRelease
  BY <1>5 DEF ConfRelease
<1> QED BY <1>1, <1>2, <1>3, <1>4, <1>5 DEF Next

LEMMA FreeInvKept ==
  ASSUME Attached, AppInv, PortInv, AppInv', PortInv', Freed, Next, ~FreeApp
  PROVE  Freed'
<1>0. Narrow /\ conf # "freed"
  BY RefNext DEF AppInv, Attached
<1>1. /\ conf' \in {"live", "unlinked", "released"}
      /\ conf = "released" => conf' = "released"
  BY <1>0, ConfNext DEF Freed
<1>2. CASE use' = 0
  <2>1. (/\ AppInv /\ PortInv /\ conf # "freed" /\ use = 0
         /\ conf \in {"live", "unlinked", "released", "freed"}
         => /\ conf = "released" /\ eco.det = 0
            /\ \A r \in Reqs : req[r].st \notin Holding)'
    BY LastReference, PTL
  <2> QED BY <1>1, <1>2, <2>1 DEF Freed, FreeInv, FreeClean
<1>3. CASE free' = free /\ free = "no"
  BY <1>1, <1>3 DEF Freed, FreeInv, FreeClean
<1>4. CASE free' = free /\ free # "no"
  <2>1. /\ conf = "released" /\ eco.det = 0
        /\ \A r \in Reqs : req[r].st \notin Holding
    BY <1>0, <1>4 DEF Freed, FreeInv
  <2>2. \A r \in Reqs : req'[r].st \notin Holding
    BY <2>1, StatesStay DEF AppInv
  <2>3. ~Working
    BY <2>1 DEF Working, Attached
  <2>4. QueuesSound(eco) /\ QueuesSound(eco') /\ eco.det = Cardinality(DetachedPorts(eco))
    BY <1>0 DEF AppInv, IdleInv, PortInv
  <2>5. \A a \in Atts : eco.port[a].det = 0
    <3>1. DetachedPorts(eco) \subseteq Atts
      BY DEF DetachedPorts
    <3>2. DetachedPorts(eco) = {}
      BY <2>1, <2>4, <3>1, NamesAssumption, FS_Subset, FS_EmptySet
    <3>3. \A a \in Atts : eco.port[a].det \in 0..1
      BY <2>4, PortDet
    <3> QED BY <3>2, <3>3 DEF DetachedPorts
  <2>6. eco'.det = 0
    <3>1. ASSUME NEW a \in Atts, ContextClose(a) \/ ContextReady(a) PROVE eco'.det = eco.det
      BY <3>1 DEF ContextClose, ContextReady, WithPort, Eco
    <3>2. CASE DetStep
      BY <2>1, <2>3, <2>5, <3>2 DEF DetStep, DetSame, DetMoved
    <3> QED BY <1>0, <2>1, <3>1, <3>2, DetNext DEF AppInv
  <2> QED BY <1>1, <2>1, <2>2, <2>6 DEF Freed, FreeInv, FreeClean
<1> QED BY <1>2, <1>3, <1>4, FreeNext

\* The free takes the ports that are registered, and those are all.
LEMMA FreeCounts ==
  ASSUME AppInv, PortInv, FreeApp
  PROVE  processes' = 0 /\ hash' = 0
<1> DEFINE all == {a \in Atts : Registered(a)}
           ctxs == {x \in Atts \X (1..Contexts) : x[2] <= eco.port[x[1]].ctx}
<1>1. /\ conf # "freed"
      /\ processes' = processes - Cardinality(all)
      /\ hash' = hash - Cardinality(all) - Cardinality(ctxs)
  BY DEF FreeApp, Running
<1>2. processes = Cardinality(all) /\ processes \in Nat
  BY SlotInts DEF AppInv, IdleInv, SlotInv, SlotsAgree
<1>3. ctxs = CtxPorts(eco)
  BY DEF CtxPorts
<1>4. hash = processes + Cardinality(ctxs) /\ Cardinality(ctxs) \in Nat
  BY <1>1, <1>3, CtxFinite DEF PortInv
<1> HIDE DEF all, ctxs
<1> QED BY <1>1, <1>2, <1>4

LEMMA FreeAppClean ==
  ASSUME AppInv, CountInv, PortInv, Freed, FreeApp
  PROVE  Freed'
<1>1. conf # "freed" /\ free # "no" /\ conf' = "freed" /\ active' = active
  BY DEF FreeApp, Running
<1>2. eco'.spare = <<>> /\ eco'.idle = <<>> /\ eco'.n = 0 /\ eco'.det = eco.det
  BY FreeSound DEF AppInv
<1>3. eco.det = 0 /\ \A r \in Reqs : req[r].st \notin Holding
  BY <1>1 DEF Freed, FreeInv
<1>4. active = 0
  <2>1. Users(req) = {}
    BY <1>3 DEF Users, Using, Holding
  <2> QED BY <1>1, <2>1, FS_EmptySet DEF CountInv, Active, UseN
<1> QED BY <1>1, <1>2, <1>3, <1>4, FreeCounts DEF Freed, FreeInv, FreeClean

LEMMA FreedStep ==
  ASSUME Attached, AppInv, CountInv, PortInv, AppInv', PortInv', Freed, [Next]_vars
  PROVE  Freed'
<1>1. CASE UNCHANGED vars
  BY <1>1 DEF vars, slots, idling, holding, life, Freed, FreeInv, FreeClean
<1>2. CASE FreeApp
  BY <1>2, FreeAppClean
<1>3. CASE Next /\ ~FreeApp
  BY <1>3, FreeInvKept
<1> QED BY <1>1, <1>2, <1>3

\* The assertions of nxt_router_free_app() hold: when the application is freed,
\* however starts, requests, deaths and the removal from the configuration
\* interleave, it has no process, no port in its hash and its idle queues, no
\* detached worker and no active request.  For every number of processes and
\* requests; without detached work, which can begin between the last reference
\* and the free that it posts.
THEOREM FreedEmpty == Attached /\ Spec => []FreeClean
<1> SUFFICES ASSUME Attached PROVE Spec => []FreeClean
  OBVIOUS
<1>0. Narrow
  BY DEF Attached
<1>1. Init => Freed
  BY FreedInit
<1>2. AppInv /\ CountInv /\ PortInv /\ AppInv' /\ PortInv' /\ Freed /\ [Next]_vars => Freed'
  BY FreedStep
<1>3. Freed => FreeClean
  BY DEF Freed
<1>4. Spec => []AppInv
  BY <1>0, AppSafe
<1>5. Spec => []CountInv
  BY <1>0, CountSafe
<1>6. Spec => []PortInv
  BY <1>0, PortSafe
<1> QED BY <1>1, <1>2, <1>3, <1>4, <1>5, <1>6, PTL DEF Spec

-----------------------------------------------------------------------------
(* The types of the state.                                                 *)

\* What the invariants above do not type.
RestTyped ==
  /\ pst \in [Protos -> {"up", "quit", "exited", "gone"}] /\ timer \in {"off", "on"}
  /\ draining \subseteq Reqs \cup {"main"}
  /\ free \in {"no", "posted", "called"}
  /\ conf \in {"live", "unlinked", "released", "freed"} /\ crashed \in {"no", "yes"}

PstStep ==
  \/ pst' = pst
  \/ \E q : \E s \in {"up", "quit", "exited", "gone"} : pst' = [pst EXCEPT ![q] = s]

Drains == draining' \subseteq draining \cup Reqs \cup {"main"}

\* One step of the variables of RestTyped.
RestStep ==
  /\ PstStep /\ Drains
  /\ timer' \in {timer, "off", "on"} /\ crashed' \in {crashed, "yes"}

LEMMA FailedDrains ==
  ASSUME NEW who \in Reqs \cup {"main"}, NEW pe, NEW R, NEW zq, NEW aq,
         StartFailed(who, pe, R, zq, aq)
  PROVE  Drains
<1>1. draining' = draining \/ draining' = draining \cup {who}
  BY Zenon DEF StartFailed
<1> QED BY <1>1 DEF Drains

LEMMA RestAttempt ==
  ASSUME NEW a \in Atts,
         \/ StartHandler(a) \/ StartTimeout(a) \/ StartExpired(a) \/ MessageLeaves(a)
         \/ ProtoReady(a) \/ StartDies(a) \/ StartLost(a) \/ WorkerExit(a)
  PROVE  RestStep
<1> USE DEF slots, idling, parked, life
<1>1. timer' = timer /\ crashed' = crashed
  BY DEF StartHandler, StartTimeout, StartExpired, MessageLeaves, ProtoReady, StartDies,
         StartLost, WorkerExit
<1>2. PstStep
  <2>1. CASE ProtoReady(a)
    <3>1. \E q : \E s \in {"up", "quit", "exited", "gone"} : pst' = [pst EXCEPT ![q] = s]
      <4>1. \E b : pst' = [pst EXCEPT ![att[a].pr] = IF b THEN "quit" ELSE "up"]
        BY <2>1, Zenon DEF ProtoReady
      <4>2. PICK b : pst' = [pst EXCEPT ![att[a].pr] = IF b THEN "quit" ELSE "up"]
        BY <4>1
      <4>3. (IF b THEN "quit" ELSE "up") \in {"up", "quit", "exited", "gone"}
        OBVIOUS
      <4> QED BY <4>2, <4>3
    <3> QED BY <3>1 DEF PstStep
  <2>2. CASE ~ProtoReady(a)
    <3>1. pst' = pst
      BY <2>2 DEF StartHandler, StartTimeout, StartExpired, MessageLeaves, StartDies, StartLost,
         WorkerExit
    <3> QED BY <3>1 DEF PstStep
  <2> QED BY <2>1, <2>2
<1>3. draining' = draining \/ \E pe, R, zq, aq : StartFailed("main", pe, R, zq, aq)
  <2>1. ASSUME NEW S, NEW d, FailAttempts(S, d)
        PROVE  \E pe, R, zq, aq : StartFailed("main", pe, R, zq, aq)
    BY <2>1, Zenon DEF FailAttempts
  <2>2. ASSUME PortError(a) \/ PortErrorExpired(a)
        PROVE  draining' = draining \/ \E pe, R, zq, aq : StartFailed("main", pe, R, zq, aq)
    <3>1. CASE PortError(a)         BY <2>1, <3>1, Zenon DEF PortError
    <3>2. CASE PortErrorExpired(a)  BY <3>2, Zenon DEF PortErrorExpired
    <3> QED BY <2>2, <3>1, <3>2
  <2>3. CASE StartHandler(a)   BY <2>1, <2>3, Zenon DEF StartHandler
  <2>4. CASE StartTimeout(a)   BY <2>2, <2>4, Zenon DEF StartTimeout
  <2>5. CASE StartExpired(a)   BY <2>5, Zenon DEF StartExpired
  <2>6. CASE MessageLeaves(a)  BY <2>2, <2>6, Zenon DEF MessageLeaves
  <2>7. CASE ProtoReady(a)     BY <2>7, Zenon DEF ProtoReady
  <2>8. CASE StartDies(a)      BY <2>2, <2>8, Zenon DEF StartDies
  <2>9. CASE StartLost(a)      BY <2>2, <2>9, Zenon DEF StartLost
  <2>10. CASE WorkerExit(a)    BY <2>10, Zenon DEF WorkerExit
  <2> QED BY <2>3, <2>4, <2>5, <2>6, <2>7, <2>8, <2>9, <2>10
<1>4. Drains
  BY <1>3, FailedDrains DEF Drains
<1> QED BY <1>1, <1>2, <1>4 DEF RestStep

LEMMA RestWorker ==
  ASSUME \/ \E a \in Atts : \/ WorkerReady(a) \/ PortClose(a) \/ ContextClose(a)
                            \/ ContextReady(a) \/ DetachedStart(a) \/ DetachedFinish(a)
         \/ AdjustBegin \/ AdjustReap \/ AdjustEnd \/ RemoveApp \/ ConfRelease
  PROVE  RestStep
<1> USE DEF starting, slots, idling, parked, life
<1>1. /\ pst' = pst /\ crashed' = crashed /\ draining' = draining
  BY DEF WorkerReady, PortClose, ContextClose, ContextReady, DetachedStart, DetachedFinish,
         AdjustBegin, AdjustReap, AdjustEnd, RemoveApp, ConfRelease
<1>2. timer' \in {timer, "off", "on"}
  BY DEF WorkerReady, PortClose, ContextClose, ContextReady, DetachedStart, DetachedFinish,
         AdjustBegin, AdjustReap, AdjustEnd, RemoveApp, ConfRelease
<1> QED BY <1>1, <1>2 DEF RestStep, PstStep, Drains

LEMMA RestMain ==
  ASSUME \/ \E q \in Protos : ProtoExit(q) \/ ProtoRemoved(q)
         \/ \E who \in Reqs \cup {"main"} : DrainStep(who)
         \/ Restart \/ FreeApp
  PROVE  RestStep
<1> USE DEF starting, slots, idling, parked, life
<1>1. timer' = timer /\ crashed' = crashed
  BY DEF ProtoExit, ProtoRemoved, DrainStep, Restart, FreeApp
<1>2. PstStep
  <2>1. ASSUME NEW q, ProtoExit(q) \/ ProtoRemoved(q)
        PROVE  \E s \in {"exited", "gone"} : pst' = [pst EXCEPT ![q] = s]
    BY <2>1 DEF ProtoExit, ProtoRemoved
  <2>2. CASE Restart
    <3>1. pst' = pst \/ pst' = [pst EXCEPT ![proto] = "quit"]
      BY <2>2 DEF Restart
    <3> QED BY <3>1 DEF PstStep
  <2>3. ASSUME FreeApp \/ \E who \in Reqs \cup {"main"} : DrainStep(who) PROVE pst' = pst
    BY <2>3 DEF FreeApp, DrainStep
  <2> QED BY <2>1, <2>2, <2>3 DEF PstStep
<1>3. draining' \subseteq draining
  BY DEF ProtoExit, ProtoRemoved, DrainStep, Restart, FreeApp
<1> QED BY <1>1, <1>2, <1>3 DEF RestStep, Drains

LEMMA RestRequest ==
  ASSUME NEW r \in Reqs,
         \/ PortGet(r) \/ SendAck(r) \/ HeadersAck(r) \/ Response(r)
         \/ PeerGone(r) \/ Upgrade(r) \/ Close(r) \/ AckTimeout(r)
         \/ AppTimeout(r) \/ ErrHandler(r) \/ RequeueHandler(r)
         \/ Resend(r) \/ Fault(r)
         \/ \E w \in Atts, c \in 0..Contexts : Claim(r, w, c)
  PROVE  RestStep
<1> USE DEF starting, slots, idling, parked, life
<1>1. pst' = pst /\ timer' = timer /\ crashed' \in {crashed, "yes"}
  BY DEF PortGet, SendAck, HeadersAck, Response, PeerGone, Upgrade, Close, AckTimeout,
         AppTimeout, ErrHandler, RequeueHandler, Resend, Fault, Claim
<1>2. CASE PortGet(r)
  <2>1. draining' = draining \/ \E pe, R, zq, aq : StartFailed(r, pe, R, zq, aq)
    BY <1>2, Zenon DEF PortGet
  <2>2. Drains
    BY <2>1, FailedDrains DEF Drains
  <2> QED BY <1>1, <2>2 DEF RestStep, PstStep
<1>3. CASE Resend(r)
  <2>1. draining' = draining \/ \E pe, R, zq, aq : StartFailed(r, pe, R, zq, aq)
    BY <1>3, Zenon DEF Resend
  <2>2. Drains
    BY <2>1, FailedDrains DEF Drains
  <2> QED BY <1>1, <2>2 DEF RestStep, PstStep
<1>4. CASE ~PortGet(r) /\ ~Resend(r)
  <2>1. draining' = draining
    BY <1>4 DEF SendAck, HeadersAck, Response, PeerGone, Upgrade, Close, AckTimeout,
         AppTimeout, ErrHandler, RequeueHandler, Fault, Claim
  <2> QED BY <1>1, <2>1 DEF RestStep, PstStep, Drains
<1> QED BY <1>2, <1>3, <1>4

LEMMA RestNext ==
  ASSUME Next, RestTyped
  PROVE  RestTyped'
<1>1. RestStep
  BY RestAttempt, RestWorker, RestMain, RestRequest DEF Next
<1>2. /\ free' \in {"no", "posted", "called"}
      /\ conf' \in {"live", "unlinked", "released", "freed"}
  <2>1. CASE FreeApp
    BY <2>1 DEF FreeApp, holding, RestTyped
  <2>2. CASE ~FreeApp
    BY <2>2, FreeNext, ConfNext DEF RestTyped
  <2> QED BY <2>1, <2>2
<1>3. pst' \in [Protos -> {"up", "quit", "exited", "gone"}]
  BY <1>1 DEF RestStep, PstStep, RestTyped
<1> QED BY <1>1, <1>2, <1>3 DEF RestStep, Drains, RestTyped

\* The invariants make the counters natural numbers.
LEMMA LiveTyped ==
  ASSUME AppInv, CountInv, PortInv, RestTyped, conf # "freed"
  PROVE  TypeOK
<1>1. /\ processes \in Nat /\ pending \in Nat /\ unaccounted \in Nat /\ protoReqs \in Nat
      /\ att \in [Atts -> AttSet] /\ proto \in Protos \cup {None} /\ gen \in 0..MaxGen
  BY SlotInts DEF AppInv, IdleInv
<1>2. adj \in {"no", "queued"} /\ now \subseteq Atts \cup {"queued", "fired"}
  BY DEF AppInv, IdleInv, WatchInv, Adjusting
<1>3. /\ req \in [Reqs -> ReqSet] /\ QueuesSound(eco)
      /\ \A a \in Atts : PortAgree(eco.port[a], att[a].ph, req, a)
  BY DEF AppInv, IdleInv, Sound
<1>4. /\ eco.spare \in Seq(Atts) /\ eco.idle \in Seq(Atts) /\ eco.n \in Int
      /\ eco.det \in Int /\ eco.port \in [Atts -> PortSet]
  BY <1>3, EcoTypes DEF QueuesSound
<1>5. eco.n \in Nat
  <2> DEFINE n == eco.n
             s == eco.spare
             i == eco.idle
  <2>1. n = Len(s) + Len(i)
    BY <1>3 DEF QueuesSound
  <2>2. s \in Seq(Atts) /\ i \in Seq(Atts)
    BY <1>4
  <2> HIDE DEF n, s, i
  <2>3. n \in Nat
    BY <2>1, <2>2
  <2> QED BY <2>3 DEF n
<1>6. eco.det \in Nat
  <2>1. DetachedPorts(eco) \subseteq Atts
    BY DEF DetachedPorts
  <2> QED BY <2>1, NamesAssumption, FS_Subset, FS_CardinalityType DEF PortInv
<1>7. hash \in Nat
  <2>1. hash = processes + Cardinality(CtxPorts(eco))
    BY DEF PortInv
  <2> QED BY <1>1, <2>1, CtxFinite
<1>8. active \in Nat
  <2>1. Users(req) \subseteq Reqs
    BY DEF Users
  <2> QED BY <2>1, ReqsCounted DEF CountInv, Active, UseN
<1>9. use \in Nat
  <2>1. use = ConfN + HoldN + PostN + AdjN + NowN + eco.det + SweepN
    BY DEF AppInv, RefInv
  <2> QED BY <1>6, <2>1, CountsTyped
<1>10. requeue \in Nat /\ ackq \in Seq(Reqs) /\ reqq \in Seq(Reqs)
  <2>1. requeue = SweepN
    BY DEF AppInv, RefInv, Swept, SweepN
  <2> QED BY <2>1, CountsTyped DEF AppInv, RefInv, Parked
<1>11. eco.port \in [Atts -> [active : Nat, ws : Nat, det : 0..1, app : Nat, router : Nat,
                              start : {"zero", "set"}, ctx : 0..Contexts]]
  <2>1. ASSUME NEW a \in Atts PROVE eco.port[a].active \in Nat /\ eco.port[a].ws \in Nat
    <3>1. \A st : On(req, st, a) \subseteq Reqs
      BY DEF On
    <3>2. \A st : Cardinality(On(req, st, a)) \in Nat
      BY <3>1, ReqsCounted
    <3> QED BY <1>3, <3>2 DEF PortAgree
  <2>2. ASSUME NEW p \in PortSet, p.active \in Nat, p.ws \in Nat
        PROVE  p \in [active : Nat, ws : Nat, det : 0..1, app : Nat, router : Nat,
                      start : {"zero", "set"}, ctx : 0..Contexts]
    BY <2>2 DEF PortSet
  <2> QED BY <1>4, <2>1, <2>2
<1>12. {processes, pending, unaccounted, protoReqs, hash, active, requeue, use, eco.n, eco.det}
         \subseteq Nat
  BY <1>1, <1>5, <1>6, <1>7, <1>8, <1>9, <1>10
<1> QED BY <1>1, <1>2, <1>3, <1>4, <1>10, <1>11, <1>12
       DEF TypeOK, RestTyped, AttSet, Phases, ReqSet

LEMMA FreeTyped ==
  ASSUME AppInv, PortInv, AppInv', TypeOK, RestTyped', FreeApp
  PROVE  TypeOK'
<1>1. (/\ processes \in Nat /\ pending \in Nat /\ unaccounted \in Nat /\ protoReqs \in Nat
       /\ att \in [Atts -> AttSet] /\ proto \in Protos \cup {None} /\ gen \in 0..MaxGen)'
  <2>1. (SlotInv => /\ processes \in Nat /\ pending \in Nat /\ unaccounted \in Nat
                    /\ protoReqs \in Nat
                    /\ att \in [Atts -> AttSet] /\ proto \in Protos \cup {None}
                    /\ gen \in 0..MaxGen)'
    BY SlotInts, PTL
  <2> QED BY <2>1 DEF AppInv, IdleInv
<1>2. /\ now' = now /\ active' = active /\ adj' = adj /\ req' = req /\ ackq' = ackq
      /\ reqq' = reqq /\ requeue' = requeue /\ use' = use
  BY DEF FreeApp, parked, holding
<1>3. hash' = 0
  BY FreeCounts
<1>4. /\ eco'.spare = <<>> /\ eco'.idle = <<>> /\ eco'.n = 0 /\ eco'.det = eco.det
  BY FreeSound DEF AppInv
<1>5. eco'.port \in [Atts -> [active : Nat, ws : Nat, det : 0..1, app : Nat, router : Nat,
                              start : {"zero", "set"}, ctx : 0..Contexts]]
  <2> DEFINE P == [active : Nat, ws : Nat, det : 0..1, app : Nat, router : Nat,
                   start : {"zero", "set"}, ctx : 0..Contexts]
  <2>1. eco'.port = [a \in Atts |-> [eco.port[a] EXCEPT !.ctx = 0]]
    BY DEF FreeApp, Eco
  <2>2. eco.port \in [Atts -> P]
    BY DEF TypeOK
  <2>3. ASSUME NEW x \in P PROVE [x EXCEPT !.ctx = 0] \in P
    BY LimitsAssumption
  <2> HIDE DEF P
  <2>4. [a \in Atts |-> [eco.port[a] EXCEPT !.ctx = 0]] \in [Atts -> P]
    BY <2>2, <2>3
  <2> QED BY <2>1, <2>4 DEF P
<1>6. {processes, pending, unaccounted, protoReqs, hash, active, requeue, use,
       eco.n, eco.det}' \subseteq Nat
  <2>1. active \in Nat /\ requeue \in Nat /\ use \in Nat /\ eco.det \in Nat
    BY DEF TypeOK
  <2> QED BY <1>1, <1>2, <1>3, <1>4, <2>1
<1>7. eco'.spare \in Seq(Atts) /\ eco'.idle \in Seq(Atts)
  BY <1>4
<1>8. now' \subseteq Atts \cup {"queued", "fired"} /\ adj' \in {"no", "queued"}
      /\ req' \in [Reqs -> ReqSet] /\ ackq' \in Seq(Reqs) /\ reqq' \in Seq(Reqs)
  BY <1>2 DEF TypeOK, ReqSet
<1> QED BY <1>1, <1>5, <1>6, <1>7, <1>8 DEF TypeOK, RestTyped, AttSet, Phases, ReqSet

LEMMA TypeStep ==
  ASSUME Narrow, AppInv, CountInv, PortInv, AppInv', CountInv', PortInv', TypeOK, [Next]_vars
  PROVE  TypeOK'
<1>1. CASE UNCHANGED vars
  BY <1>1 DEF vars, starting, slots, idling, parked, holding, life, TypeOK
<1>2. CASE Next
  <2>1. RestTyped'
    <3>1. RestTyped
      BY DEF TypeOK, RestTyped
    <3> QED BY <1>2, <3>1, RestNext
  <2>2. CASE FreeApp
    BY <2>1, <2>2, FreeTyped
  <2>3. CASE ~FreeApp
    <3>1. conf # "freed"
      BY <1>2, <2>3, RefNext DEF AppInv
    <3>2. conf' # "freed"
      BY <1>2, <2>3, <3>1, ConfNext
    <3>3. (AppInv /\ CountInv /\ PortInv /\ RestTyped /\ conf # "freed" => TypeOK)'
      BY LiveTyped, PTL
    <3> QED BY <2>1, <3>2, <3>3
  <2> QED BY <2>2, <2>3
<1> QED BY <1>1, <1>2

\* Every variable keeps its type; above all no counter of the application, of
\* its ports or of its references passes below zero, where the unsigned
\* nxt_atomic_t of nxt_app_t (nxt_router.h) would wrap, whatever starts, requests,
\* deaths, timers and the removal of the application do.  For every number of
\* processes and requests, except that a worker with several contexts meets the
\* idle timer.
THEOREM CountersTyped == Narrow /\ Spec => []TypeOK
<1> SUFFICES ASSUME Narrow PROVE Spec => []TypeOK
  OBVIOUS
<1>1. Init => TypeOK
  <2>1. Init => AppInv
    BY IdleInit, RefInit, LimitInit DEF AppInv
  <2>2. Init => RestTyped /\ conf # "freed"
    BY DEF Init, RestTyped
  <2> QED BY <2>1, <2>2, CountInit, PortInit, LiveTyped
<1>2. AppInv /\ CountInv /\ PortInv /\ AppInv' /\ CountInv' /\ PortInv' /\ TypeOK
      /\ [Next]_vars => TypeOK'
  BY TypeStep
<1>3. Spec => []AppInv
  BY AppSafe
<1>4. Spec => []CountInv
  BY CountSafe
<1>5. Spec => []PortInv
  BY PortSafe
<1> QED BY <1>1, <1>2, <1>3, <1>4, <1>5, PTL DEF Spec

=============================================================================
