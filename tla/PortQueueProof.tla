--------------------------- MODULE PortQueueProof ---------------------------
(***************************************************************************)
(* The queue and the socket of a port are one channel, and its reader does *)
(* not sleep over what is in it, for any number of processes, messages,    *)
(* sizes of queue and socket, widths of the counters and faults.           *)
(***************************************************************************)
EXTENDS PortQueue, FiniteSetTheorems, TLAPS

-----------------------------------------------------------------------------
(* What the variables hold.                                                *)

Real == [r : Reqs, k : Nat, last : BOOLEAN, err : BOOLEAN]
Items == Real \cup {ReadSocket}
Datagrams == Real \cup {ReadQueue}

SendPcs == {"idle", "taken", "window", "publish", "tail", "count", "bell", "dgram",
            "dead"}
ReadPcs == {"sleep", "loop", "taken", "release", "second", "uncount", "recredit",
            "recv"}
ReqSet == [pc : SendPcs, state : QueueStates, sent : Nat, queue_pos : Positions,
           msg : Items, queue : BOOLEAN, pos : Positions, head : Positions,
           done : BOOLEAN]
RdrSet == [pc : ReadPcs, ready : BOOLEAN, from : Nat, smsg : Items, item : Items]

Types ==
  /\ queue \in Seq(Items) /\ Len(queue) <= QueueSize
  /\ head \in Positions /\ tail \in Positions
  /\ nitems \in Int
  /\ sock \in Seq(Datagrams)
  /\ edge \in BOOLEAN
  /\ req \in [Reqs -> ReqSet]
  /\ rdr \in RdrSet
  /\ got \in [Reqs -> Seq(Real)]
  /\ open \subseteq Reqs
  /\ faults \in Nat

\* The places that hold an item at hand, and the steps without a credit.
Hands == {"taken", "uncount", "recredit"}
Ends == {"sleep", "release", "second", "uncount", "recredit"}

Reading ==
  /\ rdr.pc \notin Hands => rdr.item = ReadSocket
  /\ rdr.pc \in Hands \cup {"release", "second"} => rdr.from = 0
  /\ rdr.pc \in Ends => ~rdr.ready
  /\ sock # <<>> => edge \/ rdr.ready
  /\ rdr.smsg # ReadSocket => rdr.pc \in {"loop", "taken"}

-----------------------------------------------------------------------------
(* The numbers: items that are counted, markers and their datagrams.       *)

\* How many of the first n entries are in S.
Hits(s, n, S) == Cardinality({i \in 1..n : s[i] \in S})

Tailing == {r \in Reqs : req[r].pc = "tail"}
Uncounted == {r \in Reqs : req[r].pc \in {"tail", "count"}}
Owing == {r \in Reqs : req[r].pc \in {"tail", "count", "dgram"} /\ ~req[r].queue}

Credit == CASE rdr.pc \in {"sleep", "second", "recredit"} -> 0
            [] rdr.pc \in {"loop", "release", "uncount", "recv"} -> 1
            [] rdr.pc = "taken" -> 2

Counting == faults = 0 => nitems = Len(queue) - Cardinality(Uncounted) + Credit

\* Markers taken and not yet used, and the datagram set aside.
Asked == rdr.from + (IF rdr.pc \in Hands /\ rdr.item = ReadSocket THEN 1 ELSE 0)
Aside == IF rdr.smsg = ReadSocket THEN 0 ELSE 1

Markers == Hits(queue, Len(queue), {ReadSocket}) + Asked
Arriving == Hits(sock, Len(sock), Real) + Aside + Cardinality(Owing)

Balance == Markers >= Arriving /\ (faults = 0 => Markers = Arriving)

Rung ==
  faults = 0 /\ rdr.pc = "sleep" /\ rdr.from = 0 /\ nitems > 0 =>
    edge \/ \E r \in Reqs : req[r].pc \in {"bell", "dgram"}

WakeInv == Types /\ Reading /\ Counting /\ Balance /\ Rung

-----------------------------------------------------------------------------
(* The order.                                                              *)

\* A message that a process has at hand.
SendingAt(r) ==
  /\ req[r].pc \in {"taken", "window", "publish", "tail", "count", "bell", "dgram"} =>
       /\ req[r].msg \in Real /\ req[r].msg.r = r
       /\ req[r].msg.k = IF req[r].queue /\ req[r].pc \in {"tail", "count", "bell"}
                           THEN req[r].sent ELSE req[r].sent + 1
       /\ req[r].msg.last = req[r].done
       /\ req[r].msg.err => req[r].done /\ req[r].state = "failed" /\ ~req[r].queue
  /\ req[r].pc = "bell" => req[r].queue
  /\ req[r].pc = "dgram" => ~req[r].queue
  /\ req[r].pc \in {"taken", "window"} => ~req[r].queue /\ req[r].state = "queued"
                                          /\ ~req[r].msg.err
  /\ req[r].state = "failed" => req[r].done
Sending == \A r \in Reqs : SendingAt(r)

\* How far a tail is from a head.
Far(h, t) == IF (t - h) % Wrap = Wrap - 1 THEN -1 ELSE (t - h) % Wrap
Dist == Far(head, tail)

\* The tail lags one item behind, or is ahead of the items that were there when
\* some process stopped before it moved it.
Ring ==
  /\ Len(queue) - 1 <= Dist
  /\ Dist + Cardinality(Tailing) <= Len(queue) + Cardinality(Reqs)

\* The last item of r in the queue q with head h and a tail d further is at
\* position p, or before it; what r loaded as the head is at most so old that
\* p is in the window after it.
Last(r, p, q, h, d, pc, loaded) ==
  \A i \in 1..Len(q) : q[i].r = r =>
    \E n \in i..Len(q) :
      /\ p = (h + n - 1) % Wrap
      /\ pc # "tail" => n <= d
      /\ pc = "window" => \E e \in 0..(QueueSize - n) : h = (loaded + e) % Wrap
LastAt(r, p) == Last(r, p, queue, head, Dist, req[r].pc, req[r].head)

Without(r, q) == \A i \in 1..Len(q) : q[i].r # r
NoItem(r) == Without(r, queue)

Rests(r) == req[r].pc = "idle" \/ (req[r].pc = "publish" /\ req[r].queue)
PlaceOf(r) ==
  /\ Rests(r) /\ ~req[r].done /\ req[r].state = "queued" => LastAt(r, req[r].queue_pos)
  /\ Rests(r) /\ ~req[r].done /\ req[r].state # "queued" => NoItem(r)
  /\ req[r].pc \in {"taken", "window"} => LastAt(r, req[r].queue_pos)
  /\ req[r].pc \in {"publish", "tail", "count", "dgram"} /\ ~req[r].queue
     /\ ~req[r].msg.err => NoItem(r) /\ req[r].state \in {"unqueued", "socket"}
  /\ req[r].pc \in {"tail", "count", "bell"} /\ req[r].queue /\ ~req[r].done =>
       LastAt(r, req[r].pos)
  /\ req[r].pc \in {"publish", "tail", "count", "bell"} /\ req[r].queue
     /\ ~req[r].done => req[r].state \in {"unqueued", "queued"}
Places == \A r \in Reqs : PlaceOf(r)

\* The channel: the item at hand x and the queue q, the datagram set aside y and
\* the socket s, a markers asked for, the numbers of messages sent n, the messages
\* that arrived g, the open requests o.
At(x, s, i) == IF i = 0 THEN x ELSE s[i]

\* Messages of a request in one place follow each other.
Line(x, s) ==
  \A i, j \in 0..Len(s) :
    /\ i < j /\ At(x, s, i) \in Real /\ At(x, s, j) \in Real
    /\ At(x, s, i).r = At(x, s, j).r
    => At(x, s, i).k < At(x, s, j).k

\* Of a message in the queue and one in the socket, the reader meets the older
\* one first: it has the item at hand, or the markers before the item call for
\* the datagram.
Cross(x, q, y, s, a) ==
  \A i \in 0..Len(q), j \in 0..Len(s) :
    At(x, q, i) \in Real /\ At(y, s, j) \in Real /\ At(x, q, i).r = At(y, s, j).r =>
      \/ At(x, q, i).k < At(y, s, j).k /\ (i = 0 \/ At(y, s, j).err)
      \/ /\ At(x, q, i).k > At(y, s, j).k /\ i > 0
         /\ Hits(q, i - 1, {ReadSocket}) + a
              >= Hits(s, j, Real) + (IF y = ReadSocket THEN 0 ELSE 1)

Held(x, s, r, k) == \E i \in 0..Len(s) : At(x, s, i).r = r /\ At(x, s, i).k = k

\* What is in the channel has not arrived; errors are in the socket (e) only,
\* and end their requests.
Fine(m, e, n, g, o) ==
  m.k <= n[m.r] /\ (m.r \in o => m.k > Len(g[m.r])) /\ (m.err => e /\ m.last)
Fines(x, s, e, n, g, o) ==
  \A i \in 0..Len(s) : At(x, s, i) \in Real => Fine(At(x, s, i), e, n, g, o)

\* What is sent and has not arrived is in the channel.
Whole(x, q, y, s, n, g, o) ==
  \A r \in o :
    /\ Len(g[r]) <= n[r]
    /\ \A k \in (Len(g[r]) + 1)..n[r] : Held(x, q, r, k) \/ Held(y, s, r, k)

Flow(x, q, y, s, n, g, o) ==
  /\ Fines(x, q, FALSE, n, g, o) /\ Fines(y, s, TRUE, n, g, o)
  /\ Whole(x, q, y, s, n, g, o)

Arrived(g) == \A r \in Reqs : \A i \in 1..Len(g[r]) : g[r][i].k = i \/ g[r][i].err

Order(x, q, y, s, a, n, g, o) ==
  Line(x, q) /\ Line(y, s) /\ Cross(x, q, y, s, a) /\ Flow(x, q, y, s, n, g, o)
  /\ Arrived(g)

Sent == [r \in Reqs |-> req[r].sent]
Channel == Order(rdr.item, queue, rdr.smsg, sock, Asked, Sent, got, open)

OrderInv == Ring /\ Places /\ Channel

-----------------------------------------------------------------------------
(* Messages, sequences and sets.                                           *)

LEMMA Marks ==
  /\ ReadSocket \notin Real /\ ReadQueue \notin Real
  /\ ReadSocket.r = NoReq /\ ReadQueue.r = NoReq
  /\ ReadSocket \in Items /\ ReadQueue \in Datagrams
BY PortQueueAssumption DEF Real, Items, Datagrams, ReadSocket, ReadQueue, Msg

LEMMA RealParts ==
  ASSUME NEW m \in Real
  PROVE  /\ m.r \in Reqs /\ m.k \in Nat /\ m.last \in BOOLEAN /\ m.err \in BOOLEAN
         /\ m # ReadSocket /\ m # ReadQueue /\ m \in Items /\ m \in Datagrams
BY Marks DEF Real, Items, Datagrams

LEMMA MsgReal ==
  ASSUME NEW r \in Reqs, NEW k \in Nat, NEW last \in BOOLEAN, NEW err \in BOOLEAN
  PROVE  /\ Msg(r, k, last, err) \in Real
         /\ Msg(r, k, last, err).r = r /\ Msg(r, k, last, err).k = k
         /\ Msg(r, k, last, err).last = last /\ Msg(r, k, last, err).err = err
BY DEF Msg, Real

LEMMA ItemParts ==
  /\ \A m \in Items : m \in Real <=> m # ReadSocket
  /\ \A m \in Items : m \in Real <=> m.r \in Reqs
  /\ \A m \in Datagrams : m \in Real <=> m # ReadQueue
  /\ \A m \in Datagrams : m \in Real <=> m.r \in Reqs
<1>1. \A m \in Real : m.r \in Reqs
  BY RealParts
<1> QED BY <1>1, Marks, PortQueueAssumption DEF Items, Datagrams

LEMMA Appended ==
  ASSUME NEW S, NEW s \in Seq(S), NEW x \in S
  PROVE  /\ Append(s, x) \in Seq(S) /\ Len(Append(s, x)) = Len(s) + 1
         /\ Len(s) \in Nat
         /\ \A i \in 1..Len(s) : Append(s, x)[i] = s[i] /\ s[i] \in S
         /\ Append(s, x)[Len(s) + 1] = x
OBVIOUS

LEMMA Tailed ==
  ASSUME NEW S, NEW s \in Seq(S), s # <<>>
  PROVE  /\ Tail(s) \in Seq(S) /\ Len(Tail(s)) = Len(s) - 1
         /\ Len(s) \in Nat \ {0}
         /\ \A i \in 1..(Len(s) - 1) : Tail(s)[i] = s[i + 1]
         /\ Head(s) = s[1] /\ s[1] \in S /\ \A i \in 1..Len(s) : s[i] \in S
OBVIOUS

LEMMA HitsType ==
  ASSUME NEW s, NEW n \in Nat, NEW S
  PROVE  /\ IsFiniteSet({i \in 1..n : s[i] \in S}) /\ Hits(s, n, S) \in Nat
         /\ n = 0 => Hits(s, n, S) = 0
<1>1. IsFiniteSet(1..n)
  BY FS_Interval
<1>2. {i \in 1..n : s[i] \in S} \subseteq 1..n
  OBVIOUS
<1>3. IsFiniteSet({i \in 1..n : s[i] \in S})
  BY <1>1, <1>2, FS_Subset
<1>4. n = 0 => {i \in 1..n : s[i] \in S} = {}
  OBVIOUS
<1> QED BY <1>3, <1>4, FS_CardinalityType, FS_EmptySet DEF Hits

\* One entry more.
LEMMA HitsNext ==
  ASSUME NEW s, NEW n \in Nat, NEW S
  PROVE  Hits(s, n + 1, S) = Hits(s, n, S) + (IF s[n + 1] \in S THEN 1 ELSE 0)
<1> DEFINE A == {i \in 1..n : s[i] \in S}
           B == {i \in 1..(n + 1) : s[i] \in S}
<1>1. IsFiniteSet(A) /\ n + 1 \notin A
  BY HitsType
<1>2. CASE s[n + 1] \in S
  <2>1. B = A \cup {n + 1}
    BY <1>2
  <2> QED BY <1>1, <1>2, <2>1, FS_AddElement DEF Hits
<1>3. CASE s[n + 1] \notin S
  <2>1. B = A
    BY <1>3
  <2> QED BY <1>3, <2>1, HitsType DEF Hits
<1> QED BY <1>2, <1>3

LEMMA HitsMore ==
  ASSUME NEW s, NEW m \in Nat, NEW n \in Nat, m <= n, NEW S
  PROVE  Hits(s, m, S) <= Hits(s, n, S)
<1>1. {i \in 1..m : s[i] \in S} \subseteq {i \in 1..n : s[i] \in S}
  OBVIOUS
<1> QED BY <1>1, HitsType, FS_Subset DEF Hits

LEMMA HitsSame ==
  ASSUME NEW s, NEW t, NEW n \in Nat, NEW S, \A i \in 1..n : t[i] = s[i]
  PROVE  Hits(t, n, S) = Hits(s, n, S)
<1>1. {i \in 1..n : t[i] \in S} = {i \in 1..n : s[i] \in S}
  OBVIOUS
<1> QED BY <1>1 DEF Hits

\* Without the first entry.
LEMMA HitsTail ==
  ASSUME NEW s, NEW t, NEW n \in Nat, NEW S, \A i \in 1..n : t[i] = s[i + 1]
  PROVE  Hits(s, n + 1, S) = Hits(t, n, S) + (IF s[1] \in S THEN 1 ELSE 0)
<1> DEFINE A == {i \in 1..n : t[i] \in S}
           B == {i \in 1..(n + 1) : s[i] \in S}
           f == [i \in A |-> i + 1]
<1>1. IsFiniteSet(A) /\ IsFiniteSet(B)
  BY HitsType
<1>2. f \in Bijection(A, B \ {1})
  <2>1. f \in [A -> B \ {1}]
    OBVIOUS
  <2>2. \A a, b \in A : f[a] = f[b] => a = b
    OBVIOUS
  <2>3. ASSUME NEW b \in B \ {1} PROVE \E a \in A : f[a] = b
    <3>1. b - 1 \in A /\ f[b - 1] = b
      OBVIOUS
    <3> QED BY <3>1
  <2> QED BY <2>1, <2>2, <2>3 DEF Bijection, Injection, Surjection, IsInjective
<1>3. Cardinality(B \ {1}) = Cardinality(A)
  BY <1>1, <1>2, FS_Bijection DEF ExistsBijection
<1>4. Cardinality(B \ {1}) = IF 1 \in B THEN Cardinality(B) - 1 ELSE Cardinality(B)
  BY <1>1, FS_RemoveElement
<1>5. 1 \in B <=> s[1] \in S
  OBVIOUS
<1>6. Cardinality(A) \in Nat /\ Cardinality(B) \in Nat
  BY <1>1, FS_CardinalityType
<1> HIDE DEF A, B, f
<1>7. Hits(s, n + 1, S) = Cardinality(B) /\ Hits(t, n, S) = Cardinality(A)
  BY DEF Hits, A, B
<1> QED BY <1>3, <1>4, <1>5, <1>6, <1>7

\* One process enters or leaves a set of processes.
LEMMA MoveCard ==
  ASSUME NEW A \in SUBSET Reqs, NEW B \in SUBSET Reqs, NEW r \in Reqs,
         A \ {r} = B \ {r}
  PROVE  /\ Cardinality(A) \in Nat /\ Cardinality(B) \in Nat
         /\ Cardinality(B) <= Cardinality(Reqs)
         /\ Cardinality(B) = Cardinality(A) - (IF r \in A THEN 1 ELSE 0)
                                            + (IF r \in B THEN 1 ELSE 0)
<1>1. IsFiniteSet(A) /\ IsFiniteSet(B) /\ Cardinality(B) <= Cardinality(Reqs)
  BY FS_Subset, PortQueueAssumption
<1>2. Cardinality(A) \in Nat /\ Cardinality(B) \in Nat
  BY <1>1, FS_CardinalityType
<1>3. Cardinality(A \ {r}) = IF r \in A THEN Cardinality(A) - 1 ELSE Cardinality(A)
  BY <1>1, FS_RemoveElement
<1>4. Cardinality(B \ {r}) = IF r \in B THEN Cardinality(B) - 1 ELSE Cardinality(B)
  BY <1>1, FS_RemoveElement
<1> QED BY <1>1, <1>2, <1>3, <1>4


-----------------------------------------------------------------------------
(* Positions.                                                              *)

LEMMA WrapNat ==
  /\ Wrap \in Nat \ {0} /\ QueueSize \in Nat \ {0} /\ SockCap \in Nat \ {0}
  /\ Cardinality(Reqs) \in Nat /\ 2 * QueueSize + Cardinality(Reqs) < Wrap
  /\ 0 \in Positions
<1>1. Cardinality(Reqs) \in Nat
  BY FS_CardinalityType, PortQueueAssumption
<1> QED BY <1>1, PortQueueAssumption DEF Positions

LEMMA ModType ==
  ASSUME NEW x \in Int
  PROVE  x % Wrap \in Positions
BY WrapNat DEF Positions

LEMMA ModSmall ==
  ASSUME NEW x \in Int
  PROVE  /\ 0 <= x /\ x < Wrap => x % Wrap = x
         /\ Wrap <= x /\ x < 2 * Wrap => x % Wrap = x - Wrap
         /\ -Wrap <= x /\ x < 0 => x % Wrap = x + Wrap
<1> DEFINE W == Wrap
<1>1. W \in Nat \ {0}
  BY WrapNat
<1> HIDE DEF W
<1>2. ASSUME 0 <= x, x < W PROVE x % W = x
  BY <1>1, <1>2
<1>3. ASSUME W <= x, x < 2 * W PROVE x % W = x - W
  BY <1>1, <1>3
<1>4. ASSUME -W <= x, x < 0 PROVE x % W = x + W
  BY <1>1, <1>4
<1> QED BY <1>2, <1>3, <1>4 DEF W

-----------------------------------------------------------------------------
(* What the steps of a process do to its request.                          *)

Only(r) ==
  /\ req' \in [Reqs -> ReqSet]
  /\ \A s \in Reqs \ {r} : req'[s] = req[s]

LEMMA ReqParts ==
  ASSUME NEW q \in ReqSet
  PROVE  /\ q.pc \in SendPcs /\ q.state \in QueueStates /\ q.sent \in Nat
         /\ q.queue_pos \in Positions /\ q.msg \in Items /\ q.queue \in BOOLEAN
         /\ q.pos \in Positions /\ q.head \in Positions /\ q.done \in BOOLEAN
BY DEF ReqSet

LEMMA OneReq ==
  ASSUME Types, NEW r \in Reqs, NEW q \in ReqSet, req' = [req EXCEPT ![r] = q]
  PROVE  Only(r) /\ req'[r] = q /\ req[r] \in ReqSet
BY DEF Types, Only

LEMMA RestParts ==
  ASSUME NEW q \in ReqSet
  PROVE  /\ Rest(q) \in ReqSet
         /\ Rest(q).pc = "idle" /\ Rest(q).state = q.state /\ Rest(q).sent = q.sent
         /\ Rest(q).queue_pos = (IF q.done THEN 0 ELSE q.queue_pos)
         /\ Rest(q).msg = ReadSocket /\ Rest(q).queue = FALSE /\ Rest(q).pos = 0
         /\ Rest(q).head = 0 /\ Rest(q).done = q.done
BY Marks, WrapNat, ReqParts DEF Rest, NewReq, ReqSet, SendPcs

LEMMA InQueueParts ==
  ASSUME NEW q \in ReqSet
  PROVE  /\ InQueue(q) \in ReqSet
         /\ InQueue(q).pc = "idle" /\ InQueue(q).sent = q.sent
         /\ InQueue(q).state = (IF q.state = "unqueued" THEN "queued" ELSE q.state)
         /\ InQueue(q).queue_pos =
              (IF q.state \in {"unqueued", "queued"} /\ ~q.done THEN q.pos ELSE 0)
         /\ InQueue(q).msg = ReadSocket /\ InQueue(q).queue = FALSE
         /\ InQueue(q).pos = 0 /\ InQueue(q).head = 0 /\ InQueue(q).done = q.done
<1> DEFINE state == IF q.state = "unqueued" THEN "queued" ELSE q.state
           p == IF state = "queued" /\ ~q.done THEN q.pos ELSE 0
<1>1. state \in QueueStates /\ p \in Positions
  BY WrapNat, ReqParts DEF QueueStates
<1>2. p = (IF q.state \in {"unqueued", "queued"} /\ ~q.done THEN q.pos ELSE 0)
  BY ReqParts DEF QueueStates
<1>3. InQueue(q) = [Rest(q) EXCEPT !.state = state, !.queue_pos = p]
  BY DEF InQueue
<1> HIDE DEF state, p
<1>4. PICK s : s = Rest(q)
  OBVIOUS
<1>5. InQueue(q) = [s EXCEPT !.state = state, !.queue_pos = p]
  BY <1>3, <1>4
<1>6. s \in ReqSet
  BY <1>4, RestParts
<1>7. /\ InQueue(q) \in ReqSet
      /\ InQueue(q).state = state /\ InQueue(q).queue_pos = p
      /\ InQueue(q).pc = s.pc /\ InQueue(q).sent = s.sent /\ InQueue(q).msg = s.msg
      /\ InQueue(q).queue = s.queue /\ InQueue(q).pos = s.pos
      /\ InQueue(q).head = s.head /\ InQueue(q).done = s.done
  BY <1>1, <1>5, <1>6 DEF ReqSet
<1> QED BY <1>2, <1>4, <1>7, RestParts DEF state

LEMMA ReqSendDoes ==
  ASSUME Types, NEW r \in Reqs, NEW fits \in BOOLEAN, NEW shm_ok \in BOOLEAN,
         NEW last \in BOOLEAN, ReqSend(r, fits, shm_ok, last)
  PROVE  /\ Only(r)
         /\ req'[r].msg = Msg(r, req[r].sent + 1, last, FALSE)
         /\ req'[r].done = last
         /\ req'[r].queue = ToQueue(r, fits, shm_ok, last)
         /\ req'[r].pc = (IF ~ToQueue(r, fits, shm_ok, last) /\ req[r].state = "queued"
                            THEN "taken" ELSE "publish")
         /\ req'[r].state = req[r].state /\ req'[r].sent = req[r].sent
         /\ req'[r].queue_pos = req[r].queue_pos /\ req'[r].pos = req[r].pos
         /\ req'[r].head = req[r].head
<1> DEFINE q == req[r]
           b == ToQueue(r, fits, shm_ok, last)
           m == Msg(r, req[r].sent + 1, last, FALSE)
           p == IF ~b /\ req[r].state = "queued" THEN "taken" ELSE "publish"
           n == [q EXCEPT !.pc = p, !.msg = m, !.queue = b, !.done = last]
<1>1. q \in ReqSet /\ req \in [Reqs -> ReqSet]
  BY DEF Types
<1>2. b \in BOOLEAN /\ p \in SendPcs /\ m \in Items
  <2>1. b \in BOOLEAN
    BY DEF ToQueue
  <2>2. p \in SendPcs
    BY DEF SendPcs
  <2>3. m \in Real
    <3>1. req[r].sent + 1 \in Nat
      BY <1>1, ReqParts
    <3> QED BY <3>1, MsgReal
  <2> QED BY <2>1, <2>2, <2>3, RealParts
<1>3. req' = [req EXCEPT ![r].pc = p, ![r].msg = m, ![r].queue = b, ![r].done = last]
  BY DEF ReqSend
<1> HIDE DEF b, m, p
<1>6. req' = [req EXCEPT ![r] = n]
  BY <1>1, <1>3
<1>4. /\ n \in ReqSet /\ n.pc = p /\ n.msg = m /\ n.queue = b /\ n.done = last
      /\ n.state = q.state /\ n.sent = q.sent /\ n.queue_pos = q.queue_pos
      /\ n.pos = q.pos /\ n.head = q.head
  BY <1>1, <1>2 DEF ReqSet
<1> HIDE DEF n
<1>5. Only(r) /\ req'[r] = n
  BY <1>6, <1>4, OneReq
<1> QED BY <1>4, <1>5 DEF b, m, p


LEMMA PlainBufDoes ==
  ASSUME Types, NEW r \in Reqs, PlainBuf(r)
  PROVE  /\ Only(r) /\ req'[r].state = "socket"
         /\ req'[r].pc = req[r].pc /\ req'[r].msg = req[r].msg
         /\ req'[r].queue = req[r].queue /\ req'[r].done = req[r].done
         /\ req'[r].sent = req[r].sent /\ req'[r].queue_pos = req[r].queue_pos
         /\ req'[r].pos = req[r].pos /\ req'[r].head = req[r].head
<1> DEFINE n == [req[r] EXCEPT !.state = "socket"]
<1>1. req[r] \in ReqSet /\ req \in [Reqs -> ReqSet]
  BY DEF Types
<1>2. req' = [req EXCEPT ![r] = n]
  BY <1>1 DEF PlainBuf
<1>3. n \in ReqSet
  BY <1>1 DEF ReqSet, QueueStates
<1> QED BY <1>1, <1>2, <1>3, OneReq DEF ReqSet

LEMMA TakenHeadDoes ==
  ASSUME Types, NEW r \in Reqs, TakenHead(r)
  PROVE  /\ Only(r) /\ req'[r].pc = "window" /\ req'[r].head = head
         /\ req'[r].state = req[r].state /\ req'[r].msg = req[r].msg
         /\ req'[r].queue = req[r].queue /\ req'[r].done = req[r].done
         /\ req'[r].sent = req[r].sent /\ req'[r].queue_pos = req[r].queue_pos
         /\ req'[r].pos = req[r].pos
<1> DEFINE n == [req[r] EXCEPT !.pc = "window", !.head = head]
<1>1. req[r] \in ReqSet /\ req \in [Reqs -> ReqSet] /\ head \in Positions
  BY DEF Types
<1>2. req' = [req EXCEPT ![r] = n]
  BY <1>1 DEF TakenHead
<1>3. n \in ReqSet
  BY <1>1 DEF ReqSet, SendPcs
<1> QED BY <1>1, <1>2, <1>3, OneReq DEF ReqSet

LEMMA DrainDoes ==
  ASSUME Types, NEW r \in Reqs, Drain(r)
  PROVE  /\ Only(r)
         /\ req'[r].pc = (IF Taken(r) THEN "publish" ELSE "taken")
         /\ req'[r].state = (IF Taken(r) THEN "socket" ELSE req[r].state)
         /\ ~Taken(r) => req'[r].queue_pos = req[r].queue_pos
         /\ req'[r].msg = req[r].msg
         /\ req'[r].queue = req[r].queue /\ req'[r].done = req[r].done
         /\ req'[r].sent = req[r].sent /\ req'[r].pos = req[r].pos
<1> DEFINE q == req[r]
           p == IF Taken(r) THEN "publish" ELSE "taken"
           st == IF Taken(r) THEN "socket" ELSE q.state
           qp == IF Taken(r) THEN 0 ELSE q.queue_pos
           n == [q EXCEPT !.pc = p, !.state = st, !.queue_pos = qp, !.head = 0]
<1>1. q \in ReqSet /\ req \in [Reqs -> ReqSet]
  BY DEF Types
<1>2. p \in SendPcs /\ st \in QueueStates /\ qp \in Positions /\ 0 \in Positions
  BY <1>1, ReqParts, WrapNat DEF SendPcs, QueueStates
<1>3. req' = [req EXCEPT ![r].pc = p, ![r].state = st, ![r].queue_pos = qp,
                         ![r].head = 0]
  BY DEF Drain
<1> HIDE DEF p, st, qp
<1>4. req' = [req EXCEPT ![r] = n]
  BY <1>1, <1>3
<1>5. /\ n \in ReqSet /\ n.pc = p /\ n.state = st /\ n.queue_pos = qp
      /\ n.msg = q.msg /\ n.queue = q.queue /\ n.done = q.done /\ n.sent = q.sent
      /\ n.pos = q.pos
  BY <1>1, <1>2 DEF ReqSet
<1> HIDE DEF n
<1>6. Only(r) /\ req'[r] = n
  BY <1>4, <1>5, OneReq
<1> QED BY <1>5, <1>6 DEF p, st, qp

LEMMA DrainFailsDoes ==
  ASSUME Types, NEW r \in Reqs, DrainFails(r)
  PROVE  /\ Only(r) /\ req'[r].pc = "publish" /\ req'[r].state = "failed"
         /\ req'[r].msg = Msg(r, req[r].sent + 1, TRUE, TRUE)
         /\ req'[r].done = TRUE /\ req'[r].queue = req[r].queue
         /\ req'[r].sent = req[r].sent /\ req'[r].queue_pos = req[r].queue_pos
         /\ req'[r].pos = req[r].pos
<1> DEFINE q == req[r]
           m == Msg(r, req[r].sent + 1, TRUE, TRUE)
           n == [q EXCEPT !.pc = "publish", !.state = "failed", !.msg = m,
                          !.done = TRUE, !.head = 0]
<1>1. q \in ReqSet /\ req \in [Reqs -> ReqSet]
  BY DEF Types
<1>2. m \in Items
  <2>1. req[r].sent + 1 \in Nat
    BY <1>1, ReqParts
  <2> QED BY <2>1, MsgReal, RealParts
<1>3. req' = [req EXCEPT ![r].pc = "publish", ![r].state = "failed", ![r].msg = m,
                         ![r].done = TRUE, ![r].head = 0]
  BY DEF DrainFails
<1> HIDE DEF m
<1>4. req' = [req EXCEPT ![r] = n]
  BY <1>1, <1>3
<1>5. /\ n \in ReqSet /\ n.pc = "publish" /\ n.state = "failed" /\ n.msg = m
      /\ n.queue = q.queue /\ n.done = TRUE /\ n.sent = q.sent
      /\ n.queue_pos = q.queue_pos /\ n.pos = q.pos
  BY <1>1, <1>2, WrapNat DEF ReqSet, SendPcs, QueueStates
<1> HIDE DEF n
<1>6. Only(r) /\ req'[r] = n
  BY <1>4, <1>5, OneReq
<1> QED BY <1>5, <1>6 DEF m

LEMMA PublishDoes ==
  ASSUME Types, NEW r \in Reqs, QueuePublish(r)
  PROVE  /\ Only(r) /\ req'[r].pc = "tail"
         /\ req'[r].pos = (head + Len(queue)) % Wrap
         /\ req'[r].sent = (IF req[r].queue THEN req[r].sent + 1 ELSE req[r].sent)
         /\ req'[r].state = req[r].state /\ req'[r].msg = req[r].msg
         /\ req'[r].queue = req[r].queue /\ req'[r].done = req[r].done
         /\ req'[r].queue_pos = req[r].queue_pos /\ req'[r].head = req[r].head
<1> DEFINE q == req[r]
           p == (head + Len(queue)) % Wrap
           se == IF req[r].queue THEN q.sent + 1 ELSE q.sent
           n == [q EXCEPT !.pc = "tail", !.pos = p, !.sent = se]
<1>1. q \in ReqSet /\ req \in [Reqs -> ReqSet] /\ Len(queue) \in Nat /\ head \in Int
  BY DEF Types, Positions
<1>2. p \in Positions /\ se \in Nat
  <2>1. p \in Positions
    BY <1>1, ModType
  <2> QED BY <1>1, <2>1, ReqParts
<1>3. req' = [req EXCEPT ![r].pc = "tail", ![r].pos = p, ![r].sent = se]
  BY DEF QueuePublish
<1> HIDE DEF p, se
<1>4. req' = [req EXCEPT ![r] = n]
  BY <1>1, <1>3
<1>5. /\ n \in ReqSet /\ n.pc = "tail" /\ n.pos = p /\ n.sent = se
      /\ n.state = q.state /\ n.msg = q.msg /\ n.queue = q.queue /\ n.done = q.done
      /\ n.queue_pos = q.queue_pos /\ n.head = q.head
  BY <1>1, <1>2 DEF ReqSet, SendPcs
<1> HIDE DEF n
<1>6. Only(r) /\ req'[r] = n
  BY <1>4, <1>5, OneReq
<1> QED BY <1>5, <1>6 DEF p, se

\* A send that ends without a message: no place, a refused datagram.
LEMMA RestDoes ==
  ASSUME Types, NEW r \in Reqs, req' = [req EXCEPT ![r] = Rest(@)]
  PROVE  /\ Only(r) /\ req'[r].pc = "idle" /\ req'[r].state = req[r].state
         /\ req'[r].sent = req[r].sent /\ req'[r].queue = FALSE
         /\ req'[r].done = req[r].done
         /\ ~req[r].done => req'[r].queue_pos = req[r].queue_pos
<1>1. req[r] \in ReqSet /\ req \in [Reqs -> ReqSet]
  BY DEF Types
<1>2. PICK n : n = Rest(req[r])
  OBVIOUS
<1>3. req' = [req EXCEPT ![r] = n]
  BY <1>1, <1>2
<1>4. n \in ReqSet
  BY <1>1, <1>2, RestParts
<1>5. Only(r) /\ req'[r] = n
  BY <1>3, <1>4, OneReq
<1> QED BY <1>1, <1>2, <1>5, RestParts

LEMMA TailDoes ==
  ASSUME Types, NEW r \in Reqs, QueueTail(r)
  PROVE  /\ Only(r) /\ req'[r].pc = "count"
         /\ req[r].queue => req'[r].pos = req[r].pos
         /\ req'[r].state = req[r].state /\ req'[r].msg = req[r].msg
         /\ req'[r].queue = req[r].queue /\ req'[r].done = req[r].done
         /\ req'[r].sent = req[r].sent
         /\ req'[r].queue_pos = req[r].queue_pos /\ req'[r].head = req[r].head
<1> DEFINE q == req[r]
           p == IF req[r].queue THEN q.pos ELSE 0
           n == [q EXCEPT !.pc = "count", !.pos = p]
<1>1. q \in ReqSet /\ req \in [Reqs -> ReqSet]
  BY DEF Types
<1>2. p \in Positions
  BY <1>1, WrapNat, ReqParts
<1>3. req' = [req EXCEPT ![r].pc = "count", ![r].pos = p]
  BY DEF QueueTail
<1> HIDE DEF p
<1>4. req' = [req EXCEPT ![r] = n]
  BY <1>1, <1>3
<1>5. /\ n \in ReqSet /\ n.pc = "count" /\ n.pos = p
      /\ n.state = q.state /\ n.msg = q.msg /\ n.queue = q.queue /\ n.done = q.done
      /\ n.queue_pos = q.queue_pos /\ n.head = q.head /\ n.sent = q.sent
  BY <1>1, <1>2 DEF ReqSet, SendPcs
<1> HIDE DEF n
<1>6. Only(r) /\ req'[r] = n
  BY <1>4, <1>5, OneReq
<1> QED BY <1>5, <1>6 DEF p

\* A message is in the queue and the send is over.
LEMMA InQueueDoes ==
  ASSUME Types, NEW r \in Reqs, req' = [req EXCEPT ![r] = InQueue(@)]
  PROVE  /\ Only(r) /\ req'[r].pc = "idle" /\ req'[r].queue = FALSE
         /\ req'[r].state = (IF req[r].state = "unqueued" THEN "queued" ELSE req[r].state)
         /\ req[r].state \in {"unqueued", "queued"} /\ ~req[r].done =>
              req'[r].queue_pos = req[r].pos
         /\ req'[r].sent = req[r].sent /\ req'[r].done = req[r].done
<1>1. req[r] \in ReqSet /\ req \in [Reqs -> ReqSet]
  BY DEF Types
<1>2. PICK n : n = InQueue(req[r])
  OBVIOUS
<1>3. req' = [req EXCEPT ![r] = n]
  BY <1>1, <1>2
<1>4. n \in ReqSet
  BY <1>1, <1>2, InQueueParts
<1>5. Only(r) /\ req'[r] = n
  BY <1>3, <1>4, OneReq
<1> QED BY <1>1, <1>2, <1>5, InQueueParts

LEMMA CountDoes ==
  ASSUME Types, NEW r \in Reqs, QueueCount(r)
  PROVE  /\ Only(r)
         /\ ~req[r].queue \/ nitems = 0 =>
              /\ req'[r].pc = (IF req[r].queue THEN "bell" ELSE "dgram")
              /\ req'[r].state = req[r].state /\ req'[r].msg = req[r].msg
              /\ req'[r].queue = req[r].queue /\ req'[r].done = req[r].done
              /\ req'[r].sent = req[r].sent /\ req'[r].pos = req[r].pos
              /\ req'[r].queue_pos = req[r].queue_pos /\ req'[r].head = req[r].head
         /\ req[r].queue /\ nitems # 0 => req' = [req EXCEPT ![r] = InQueue(@)]
<1> DEFINE q == req[r]
           p == IF req[r].queue THEN "bell" ELSE "dgram"
           n == [q EXCEPT !.pc = p]
<1>1. q \in ReqSet /\ req \in [Reqs -> ReqSet]
  BY DEF Types
<1>2. CASE ~req[r].queue \/ nitems = 0
  <2>1. req' = [req EXCEPT ![r] = [req[r] EXCEPT !.pc = p]]
    <3>1. CASE ~req[r].queue
      BY <1>1, <3>1 DEF QueueCount
    <3>2. CASE req[r].queue /\ nitems = 0
      BY <1>1, <3>2 DEF QueueCount
    <3> QED BY <1>2, <3>1, <3>2
  <2>2. p \in SendPcs
    BY DEF SendPcs
  <2> HIDE DEF p
  <2>3. n \in ReqSet /\ n.pc = p /\ n.pos = q.pos
        /\ n.state = q.state /\ n.msg = q.msg /\ n.queue = q.queue /\ n.done = q.done
        /\ n.queue_pos = q.queue_pos /\ n.head = q.head /\ n.sent = q.sent
    BY <1>1, <2>2 DEF ReqSet
  <2>4. req' = [req EXCEPT ![r] = n]
    BY <2>1
  <2> HIDE DEF n
  <2>5. Only(r) /\ req'[r] = n
    BY <2>3, <2>4, OneReq
  <2> QED BY <1>2, <2>3, <2>5 DEF p
<1>3. CASE req[r].queue /\ nitems # 0
  <2>1. req' = [req EXCEPT ![r] = InQueue(@)]
    BY <1>1, <1>3 DEF QueueCount
  <2> QED BY <1>3, <2>1, InQueueDoes
<1> QED BY <1>2, <1>3

LEMMA DatagramDoes ==
  ASSUME Types, NEW r \in Reqs, SendDatagram(r)
  PROVE  /\ Only(r) /\ req'[r].pc = "idle" /\ req'[r].state = req[r].state
         /\ req'[r].sent = req[r].sent + 1 /\ req'[r].queue = FALSE
         /\ req'[r].done = req[r].done
         /\ ~req[r].done => req'[r].queue_pos = req[r].queue_pos
<1> DEFINE q == [req[r] EXCEPT !.sent = @ + 1]
<1>1. req[r] \in ReqSet /\ req \in [Reqs -> ReqSet]
  BY DEF Types
<1>2. /\ q \in ReqSet /\ q.sent = req[r].sent + 1 /\ q.state = req[r].state
      /\ q.done = req[r].done /\ q.queue_pos = req[r].queue_pos
  BY <1>1, ReqParts DEF ReqSet
<1>3. req' = [req EXCEPT ![r] = Rest(q)]
  BY <1>1 DEF SendDatagram
<1> HIDE DEF q
<1>4. PICK n : n = Rest(q)
  OBVIOUS
<1>5. n \in ReqSet /\ req' = [req EXCEPT ![r] = n]
  BY <1>2, <1>3, <1>4, RestParts
<1>6. Only(r) /\ req'[r] = n
  BY <1>5, OneReq
<1>7. /\ n.pc = "idle" /\ n.state = q.state /\ n.sent = q.sent
      /\ n.queue = FALSE /\ n.done = q.done
      /\ ~q.done => n.queue_pos = q.queue_pos
  BY <1>2, <1>4, RestParts
<1> QED BY <1>2, <1>6, <1>7

LEMMA KilledDoes ==
  ASSUME Types, NEW r \in Reqs, Killed(r)
  PROVE  /\ Only(r) /\ req'[r].pc = "dead" /\ req'[r].state = req[r].state
         /\ req'[r].sent = req[r].sent /\ req'[r].queue = FALSE
         /\ req'[r].done = TRUE
<1> DEFINE q == [req[r] EXCEPT !.done = TRUE]
<1>1. req[r] \in ReqSet /\ req \in [Reqs -> ReqSet]
  BY DEF Types
<1>2. q \in ReqSet /\ q.sent = req[r].sent /\ q.state = req[r].state /\ q.done = TRUE
  BY <1>1, ReqParts DEF ReqSet
<1>3. req' = [req EXCEPT ![r] = [Rest(q) EXCEPT !.pc = "dead"]]
  BY <1>1 DEF Killed
<1> HIDE DEF q
<1>4. PICK s : s = Rest(q)
  OBVIOUS
<1>5. s \in ReqSet
  BY <1>2, <1>4, RestParts
<1> DEFINE n == [s EXCEPT !.pc = "dead"]
<1>6. /\ n \in ReqSet /\ n.pc = "dead" /\ n.state = s.state /\ n.sent = s.sent
      /\ n.queue = s.queue /\ n.done = s.done
  BY <1>5 DEF ReqSet, SendPcs
<1>7. req' = [req EXCEPT ![r] = n]
  BY <1>3, <1>4
<1> HIDE DEF n
<1>8. Only(r) /\ req'[r] = n
  BY <1>6, <1>7, OneReq
<1>9. s.state = q.state /\ s.sent = q.sent /\ s.queue = FALSE /\ s.done = q.done
  BY <1>2, <1>4, RestParts
<1> QED BY <1>2, <1>6, <1>8, <1>9


-----------------------------------------------------------------------------
(* What the steps of the reader do to its locals.                          *)

LEMMA RdrParts ==
  ASSUME NEW q \in RdrSet
  PROVE  /\ q.pc \in ReadPcs /\ q.ready \in BOOLEAN /\ q.from \in Nat
         /\ q.smsg \in Items /\ q.item \in Items
BY DEF RdrSet

LEMMA EventDoes ==
  ASSUME Types, ReadEvent
  PROVE  /\ rdr' \in RdrSet /\ rdr'.pc = "loop" /\ rdr'.ready = TRUE
         /\ rdr'.from = rdr.from /\ rdr'.smsg = rdr.smsg /\ rdr'.item = rdr.item
BY DEF ReadEvent, Types, RdrSet, ReadPcs

\* The reader goes on with the same locals.
LEMMA PcDoes ==
  ASSUME Types, NEW p \in ReadPcs, rdr' = [rdr EXCEPT !.pc = p]
  PROVE  /\ rdr' \in RdrSet /\ rdr'.pc = p /\ rdr'.ready = rdr.ready
         /\ rdr'.from = rdr.from /\ rdr'.smsg = rdr.smsg /\ rdr'.item = rdr.item
BY DEF Types, RdrSet

\* ... or with the first item of the queue.
LEMMA TakeDoes ==
  ASSUME Types, queue # <<>>, NEW p \in ReadPcs,
         rdr' = [rdr EXCEPT !.pc = p, !.item = Head(queue)]
  PROVE  /\ rdr' \in RdrSet /\ rdr'.pc = p /\ rdr'.ready = rdr.ready
         /\ rdr'.from = rdr.from /\ rdr'.smsg = rdr.smsg /\ rdr'.item = queue[1]
<1>1. Head(queue) = queue[1] /\ queue[1] \in Items
  BY Tailed DEF Types
<1> QED BY <1>1 DEF Types, RdrSet

LEMMA ItemDoes ==
  ASSUME Types, ReadItem
  PROVE  /\ rdr' \in RdrSet /\ rdr'.pc = "loop" /\ rdr'.ready = rdr.ready
         /\ rdr'.from = (IF rdr.item = ReadSocket THEN rdr.from + 1 ELSE rdr.from)
         /\ rdr'.smsg = rdr.smsg /\ rdr'.item = ReadSocket
<1> DEFINE f == IF rdr.item = ReadSocket THEN rdr.from + 1 ELSE rdr.from
<1>1. rdr \in RdrSet
  BY DEF Types
<1>2. f \in Nat
  BY <1>1, RdrParts
<1>3. rdr' = [rdr EXCEPT !.pc = "loop", !.item = ReadSocket, !.from = f]
  BY DEF ReadItem
<1> HIDE DEF f
<1>4. /\ rdr' \in RdrSet /\ rdr'.pc = "loop" /\ rdr'.ready = rdr.ready
      /\ rdr'.from = f /\ rdr'.smsg = rdr.smsg /\ rdr'.item = ReadSocket
  BY <1>1, <1>2, <1>3, Marks DEF RdrSet, ReadPcs
<1> QED BY <1>4 DEF f

\* A datagram is used for a marker: the one set aside ...
LEMMA AsideDoes ==
  ASSUME Types, rdr.from > 0, rdr' = [rdr EXCEPT !.smsg = ReadSocket, !.from = @ - 1]
  PROVE  /\ rdr' \in RdrSet /\ rdr'.pc = rdr.pc /\ rdr'.ready = rdr.ready
         /\ rdr'.from = rdr.from - 1 /\ rdr'.smsg = ReadSocket /\ rdr'.item = rdr.item
<1>1. PICK f \in Nat : f = rdr.from - 1
  BY RdrParts DEF Types
<1>2. rdr' = [rdr EXCEPT !.smsg = ReadSocket, !.from = f]
  BY <1>1
<1> QED BY <1>1, <1>2, Marks DEF Types, RdrSet

\* ... or the first one of the socket.
LEMMA UseDoes ==
  ASSUME Types, rdr.from > 0, rdr' = [rdr EXCEPT !.pc = "loop", !.from = @ - 1]
  PROVE  /\ rdr' \in RdrSet /\ rdr'.pc = "loop" /\ rdr'.ready = rdr.ready
         /\ rdr'.from = rdr.from - 1 /\ rdr'.smsg = rdr.smsg /\ rdr'.item = rdr.item
<1>1. PICK f \in Nat : f = rdr.from - 1
  BY RdrParts DEF Types
<1>2. rdr' = [rdr EXCEPT !.pc = "loop", !.from = f]
  BY <1>1
<1> QED BY <1>1, <1>2 DEF Types, RdrSet, ReadPcs

LEMMA SuspendDoes ==
  ASSUME Types, sock # <<>>, Head(sock) # ReadQueue,
         rdr' = [rdr EXCEPT !.pc = "loop", !.smsg = Head(sock)]
  PROVE  /\ rdr' \in RdrSet /\ rdr'.pc = "loop" /\ rdr'.ready = rdr.ready
         /\ rdr'.from = rdr.from /\ rdr'.smsg = sock[1] /\ rdr'.item = rdr.item
         /\ sock[1] \in Real
<1>1. Head(sock) = sock[1] /\ sock[1] \in Datagrams
  BY Tailed DEF Types
<1>2. sock[1] \in Real /\ sock[1] \in Items
  BY <1>1, ItemParts, RealParts
<1> QED BY <1>1, <1>2 DEF Types, RdrSet, ReadPcs

LEMMA AgainDoes ==
  ASSUME Types, RecvAgain
  PROVE  /\ rdr' \in RdrSet /\ rdr'.pc = "loop" /\ rdr'.ready = FALSE
         /\ rdr'.from = rdr.from /\ rdr'.smsg = rdr.smsg /\ rdr'.item = rdr.item
BY DEF RecvAgain, Types, RdrSet, ReadPcs

LEMMA ProcessTypes ==
  ASSUME Types, NEW m \in Real, Process(m)
  PROVE  got' \in [Reqs -> Seq(Real)] /\ open' \subseteq Reqs
<1>1. m.r \in Reqs
  BY RealParts
<1>2. Append(got[m.r], m) \in Seq(Real)
  BY <1>1 DEF Types
<1> QED BY <1>1, <1>2 DEF Types, Process

-----------------------------------------------------------------------------
(* The types.                                                              *)

LEMMA TypesInit == Init => Types
<1> SUFFICES ASSUME Init PROVE Types
  OBVIOUS
<1>1. \A qs \in QueueStates : NewReq(qs) \in ReqSet
  BY Marks, WrapNat DEF NewReq, ReqSet, SendPcs
<1>2. NewReq("unqueued") \in ReqSet /\ NewReq("socket") \in ReqSet
  BY <1>1 DEF QueueStates
<1>3. req \in [Reqs -> ReqSet]
  BY <1>2 DEF Init
<1>4. Rdr \in RdrSet
  BY Marks DEF Rdr, RdrSet, ReadPcs
<1>5. head \in Positions
  BY PortQueueAssumption DEF Init, Positions
<1>6. queue \in Seq(Items) /\ Len(queue) = 0 /\ sock \in Seq(Datagrams)
  BY DEF Init
<1>7. got \in [Reqs -> Seq(Real)]
  BY DEF Init
<1>8. rdr \in RdrSet /\ tail \in Positions /\ open \subseteq Reqs
  BY <1>4, <1>5 DEF Init
<1>10. nitems \in Int /\ faults \in Nat
  BY DEF Init
<1>11. edge \in BOOLEAN
  BY DEF Init
<1>9. Len(queue) <= QueueSize
  BY <1>6, WrapNat
<1> QED BY <1>3, <1>5, <1>6, <1>7, <1>8, <1>9, <1>10, <1>11 DEF Types

LEMMA TypesPublish ==
  ASSUME Types, NEW r \in Reqs, QueuePublish(r)
  PROVE  Types'
<1> DEFINE x == IF req[r].queue THEN req[r].msg ELSE ReadSocket
<1>1. queue \in Seq(Items) /\ Len(queue) \in Nat /\ head \in Int
  BY DEF Types, Positions
<1>2. x \in Items
  BY Marks, ReqParts DEF Types
<1>3. queue' = Append(queue, x)
  BY DEF QueuePublish
<1> HIDE DEF x
<1>4. queue' \in Seq(Items) /\ Len(queue') <= QueueSize
  BY <1>1, <1>2, <1>3, WrapNat DEF QueuePublish
<1>5. tail' \in Positions
  BY <1>1, ModType DEF QueuePublish
<1> QED BY <1>4, <1>5, PublishDoes DEF Types, Only, QueuePublish

LEMMA TypesSend ==
  ASSUME Types, Sending, NEW r \in Reqs,
         SendStep(r) \/ SendDatagramFails(r) \/ Killed(r)
  PROVE  Types'
<1>1. ASSUME NEW fits \in BOOLEAN, NEW shm_ok \in BOOLEAN, NEW last \in BOOLEAN,
             ReqSend(r, fits, shm_ok, last)
      PROVE  Types'
  <2>1. req' \in [Reqs -> ReqSet]
    BY <1>1, ReqSendDoes DEF Only
  <2> QED BY <1>1, <2>1 DEF Types, ReqSend, ring
<1>2. CASE PlainBuf(r)
  BY <1>2, PlainBufDoes DEF Types, Only, PlainBuf, ring
<1>3. CASE TakenHead(r)
  BY <1>3, TakenHeadDoes DEF Types, Only, TakenHead, ring
<1>4. CASE Drain(r)
  BY <1>4, DrainDoes DEF Types, Only, Drain, ring
<1>5. CASE DrainFails(r)
  BY <1>5, DrainFailsDoes DEF Types, Only, DrainFails, ring
<1>6. CASE QueuePublish(r)
  BY <1>6, TypesPublish
<1>7. CASE QueueOverflow(r)
  BY <1>7, RestDoes DEF Types, Only, QueueOverflow, ring
<1>8. CASE QueueTail(r)
  <2>1. tail' \in Positions
    <3>1. tail \in Positions /\ tail + 1 \in Int
      BY DEF Types, Positions
    <3> QED BY <1>8, <3>1, ModType DEF QueueTail
  <2> QED BY <1>8, <2>1, TailDoes DEF Types, Only, QueueTail
<1>9. CASE QueueCount(r)
  <2>1. nitems' \in Int
    BY <1>9 DEF QueueCount, Types
  <2> QED BY <1>9, <2>1, CountDoes DEF Types, Only, QueueCount, ring
<1>10. CASE SendBell(r)
  <2>1. sock' \in Seq(Datagrams) /\ edge' \in BOOLEAN
    BY <1>10, Marks DEF SendBell, Types
  <2> QED BY <1>10, <2>1, InQueueDoes DEF Types, Only, SendBell, ring
<1>11. CASE SendDatagram(r)
  <2>1. req[r].msg \in Datagrams
    BY <1>11, RealParts DEF SendDatagram, Sending, SendingAt
  <2>2. sock' \in Seq(Datagrams) /\ edge' \in BOOLEAN
    BY <1>11, <2>1 DEF SendDatagram, Types
  <2>3. req' \in [Reqs -> ReqSet]
    BY <1>11, DatagramDoes DEF Only
  <2> QED BY <1>11, <2>2, <2>3 DEF Types, SendDatagram, ring
<1>12. CASE SendDatagramFails(r)
  <2>1. req' \in [Reqs -> ReqSet]
    BY <1>12, RestDoes DEF Only, SendDatagramFails
  <2>2. faults' \in Nat
    BY <1>12 DEF SendDatagramFails, Types
  <2> QED BY <1>12, <2>1, <2>2 DEF Types, SendDatagramFails, ring
<1>13. CASE Killed(r)
  <2>1. req' \in [Reqs -> ReqSet]
    BY <1>13, KilledDoes DEF Only, Killed
  <2>2. faults' \in Nat
    BY <1>13 DEF Killed, Types
  <2> QED BY <1>13, <2>1, <2>2 DEF Types, Killed, ring
<1> QED BY <1>1, <1>2, <1>3, <1>4, <1>5, <1>6, <1>7, <1>8, <1>9, <1>10, <1>11, <1>12,
           <1>13 DEF SendStep


LEMMA DequeueDoes ==
  ASSUME Types, queue # <<>>, Dequeue
  PROVE  /\ queue' \in Seq(Items) /\ Len(queue') = Len(queue) - 1
         /\ Len(queue) \in Nat \ {0}
         /\ \A i \in 1..Len(queue') : queue'[i] = queue[i + 1]
         /\ queue[1] \in Items /\ Head(queue) = queue[1]
         /\ head' = (head + 1) % Wrap /\ head' \in Positions
<1>1. /\ queue' \in Seq(Items) /\ Len(queue') = Len(queue) - 1
      /\ Len(queue) \in Nat \ {0}
      /\ \A i \in 1..(Len(queue) - 1) : queue'[i] = queue[i + 1]
      /\ queue[1] \in Items /\ Head(queue) = queue[1]
  BY Tailed DEF Types, Dequeue
<1>2. head + 1 \in Int /\ head' = (head + 1) % Wrap
  BY DEF Types, Positions, Dequeue
<1> QED BY <1>1, <1>2, ModType

LEMMA TypesRead ==
  ASSUME Types, Reading, ReadStep
  PROVE  Types'
<1>1. CASE ReadEvent
  <2>1. edge' \in BOOLEAN
    BY <1>1 DEF ReadEvent
  <2>2. nitems' \in Int
    BY <1>1 DEF ReadEvent, Types
  <2> QED BY <1>1, <2>1, <2>2, EventDoes DEF Types, ReadEvent, ring
<1>2. CASE ReadQueueItem
  <2>1. CASE queue # <<>> /\ Dequeue
             /\ rdr' = [rdr EXCEPT !.pc = "taken", !.item = Head(queue)]
    <3>1. rdr' \in RdrSet
      BY <2>1, TakeDoes DEF ReadPcs
    <3>2. queue' \in Seq(Items) /\ Len(queue') <= QueueSize /\ head' \in Positions
      BY <2>1, DequeueDoes, WrapNat DEF Types
    <3> QED BY <1>2, <3>1, <3>2 DEF Types, ReadQueueItem
  <2>2. CASE /\ rdr' = [rdr EXCEPT !.pc = IF rdr.ready THEN "recv" ELSE "release"]
             /\ UNCHANGED <<queue, head>>
    <3>1. PICK p \in ReadPcs : rdr' = [rdr EXCEPT !.pc = p]
      BY <2>2 DEF ReadPcs
    <3>2. rdr' \in RdrSet
      BY <3>1, PcDoes
    <3> QED BY <1>2, <2>2, <3>2 DEF Types, ReadQueueItem
  <2> QED BY <1>2, <2>1, <2>2 DEF ReadQueueItem
<1>3. CASE ReadRelease
  <2>1. rdr' \in RdrSet
    BY <1>3, PcDoes DEF ReadRelease, ReadPcs
  <2>2. nitems' \in Int
    BY <1>3 DEF ReadRelease, Types
  <2> QED BY <1>3, <2>1, <2>2 DEF Types, ReadRelease, ring
<1>4. CASE ReadSecond
  <2>1. CASE queue # <<>> /\ Dequeue
             /\ rdr' = [rdr EXCEPT !.pc = "uncount", !.item = Head(queue)]
    <3>1. rdr' \in RdrSet
      BY <2>1, TakeDoes DEF ReadPcs
    <3>2. queue' \in Seq(Items) /\ Len(queue') <= QueueSize /\ head' \in Positions
      BY <2>1, DequeueDoes, WrapNat DEF Types
    <3> QED BY <1>4, <3>1, <3>2 DEF Types, ReadSecond
  <2>2. CASE /\ rdr' = [rdr EXCEPT !.pc = "sleep"] /\ UNCHANGED <<queue, head>>
    <3>2. rdr' \in RdrSet
      BY <2>2, PcDoes DEF ReadPcs
    <3> QED BY <1>4, <2>2, <3>2 DEF Types, ReadSecond
  <2> QED BY <1>4, <2>1, <2>2 DEF ReadSecond
<1>5. CASE ReadUncount
  <2>1. rdr' \in RdrSet
    BY <1>5, PcDoes DEF ReadUncount, ReadPcs
  <2>2. nitems' \in Int
    BY <1>5 DEF ReadUncount, Types
  <2> QED BY <1>5, <2>1, <2>2 DEF Types, ReadUncount, ring
<1>6. CASE ReadItem
  <2>1. rdr' \in RdrSet
    BY <1>6, ItemDoes
  <2>2. nitems' \in Int
    BY <1>6 DEF ReadItem, Types
  <2>3. rdr.item # ReadSocket => rdr.item \in Real
    BY RdrParts, ItemParts DEF Types
  <2>4. got' \in [Reqs -> Seq(Real)] /\ open' \subseteq Reqs
    BY <1>6, <2>3, ProcessTypes DEF ReadItem, Types
  <2> QED BY <1>6, <2>1, <2>2, <2>4 DEF Types, ReadItem, ring
<1>7. CASE ReadMarked
  <2>1. CASE /\ rdr.smsg # ReadSocket /\ Process(rdr.smsg)
             /\ rdr' = [rdr EXCEPT !.smsg = ReadSocket, !.from = @ - 1]
             /\ UNCHANGED nitems
    <3>1. rdr' \in RdrSet
      BY <1>7, <2>1, AsideDoes DEF ReadMarked
    <3>2. rdr.smsg \in Real
      BY <2>1, RdrParts, ItemParts DEF Types
    <3>3. got' \in [Reqs -> Seq(Real)] /\ open' \subseteq Reqs
      BY <2>1, <3>2, ProcessTypes
    <3> QED BY <1>7, <2>1, <3>1, <3>3 DEF Types, ReadMarked, ring
  <2>2. CASE /\ rdr' = [rdr EXCEPT !.pc = IF rdr.ready THEN "recv" ELSE "sleep"]
             /\ nitems' = IF rdr.ready THEN nitems ELSE nitems - 1
             /\ UNCHANGED <<got, open>>
    <3>1. PICK p \in ReadPcs : rdr' = [rdr EXCEPT !.pc = p]
      BY <2>2 DEF ReadPcs
    <3>2. rdr' \in RdrSet
      BY <3>1, PcDoes
    <3>3. nitems' \in Int
      BY <2>2 DEF Types
    <3> QED BY <1>7, <2>2, <3>2, <3>3 DEF Types, ReadMarked, ring
  <2> QED BY <1>7, <2>1, <2>2 DEF ReadMarked
<1>8. CASE RecvAgain
  BY <1>8, AgainDoes DEF Types, RecvAgain, ring
<1>9. CASE RecvDoorbell
  <2>1. rdr' \in RdrSet
    BY <1>9, PcDoes DEF RecvDoorbell, ReadPcs
  <2>2. sock' \in Seq(Datagrams)
    BY <1>9, Tailed DEF RecvDoorbell, Types
  <2> QED BY <1>9, <2>1, <2>2 DEF Types, RecvDoorbell, ring
<1>10. CASE RecvDatagram
  <2>1. sock' \in Seq(Datagrams) /\ Head(sock) = sock[1] /\ sock[1] \in Datagrams
    BY <1>10, Tailed DEF RecvDatagram, Types
  <2>2. sock[1] \in Real
    BY <1>10, <2>1, ItemParts DEF RecvDatagram
  <2>3. CASE /\ rdr.from > 0 /\ Process(Head(sock))
             /\ rdr' = [rdr EXCEPT !.pc = "loop", !.from = @ - 1]
    <3>1. rdr' \in RdrSet
      BY <2>3, UseDoes
    <3>2. got' \in [Reqs -> Seq(Real)] /\ open' \subseteq Reqs
      BY <2>1, <2>2, <2>3, ProcessTypes
    <3> QED BY <1>10, <2>1, <3>1, <3>2 DEF Types, RecvDatagram, ring
  <2>4. CASE /\ rdr' = IF rdr.smsg = ReadSocket
                         THEN [rdr EXCEPT !.pc = "loop", !.smsg = Head(sock)]
                         ELSE [rdr EXCEPT !.pc = "sleep"]
             /\ UNCHANGED <<got, open>>
    <3>1. CASE rdr.smsg = ReadSocket
      <4>1. rdr' \in RdrSet
        BY <1>10, <2>4, <3>1, SuspendDoes DEF RecvDatagram
      <4> QED BY <1>10, <2>1, <2>4, <4>1 DEF Types, RecvDatagram, ring
    <3>2. CASE rdr.smsg # ReadSocket
      <4>1. rdr' \in RdrSet
        BY <2>4, <3>2, PcDoes DEF ReadPcs
      <4> QED BY <1>10, <2>1, <2>4, <4>1 DEF Types, RecvDatagram, ring
    <3> QED BY <3>1, <3>2
  <2> QED BY <1>10, <2>3, <2>4 DEF RecvDatagram
<1> QED BY <1>1, <1>2, <1>3, <1>4, <1>5, <1>6, <1>7, <1>8, <1>9, <1>10 DEF ReadStep


-----------------------------------------------------------------------------
(* The message at hand.                                                    *)

LEMMA SendingInit == Init => Sending
<1> SUFFICES ASSUME Init, NEW r \in Reqs PROVE SendingAt(r)
  BY DEF Sending
<1>1. req[r] \in {NewReq("unqueued"), NewReq("socket")}
  BY DEF Init
<1> QED BY <1>1 DEF NewReq, SendingAt

LEMMA SendingKept ==
  ASSUME Types, Sending, NEW r \in Reqs, Only(r), SendingAt(r)'
  PROVE  Sending'
<1> SUFFICES ASSUME NEW s \in Reqs PROVE SendingAt(s)'
  BY DEF Sending
<1>1. CASE s # r
  <2>1. req'[s] = req[s]
    BY <1>1 DEF Only
  <2> QED BY <2>1 DEF Sending, SendingAt
<1> QED BY <1>1

LEMMA SendingSend ==
  ASSUME Types, Sending, NEW r \in Reqs,
         SendStep(r) \/ SendDatagramFails(r) \/ Killed(r)
  PROVE  Sending'
<1>0. SendingAt(r) /\ req[r] \in ReqSet
  BY DEF Sending, Types
<1>1. ASSUME NEW fits \in BOOLEAN, NEW shm_ok \in BOOLEAN, NEW last \in BOOLEAN,
             ReqSend(r, fits, shm_ok, last)
      PROVE  Sending'
  <2>1. req[r].sent + 1 \in Nat
    BY <1>0, ReqParts
  <2>2. PICK m : m = Msg(r, req[r].sent + 1, last, FALSE)
    OBVIOUS
  <2>3. m \in Real /\ m.r = r /\ m.k = req[r].sent + 1 /\ m.last = last /\ m.err = FALSE
    BY <2>1, <2>2 DEF Msg, Real
  <2>4. req'[r].msg = m /\ req'[r].done = last
    BY <1>1, <2>2, ReqSendDoes
  <2>5. req'[r].pc \in {"taken", "publish"}
    BY <1>1, ReqSendDoes
  <2>6. req'[r].pc = "taken" => ~req'[r].queue /\ req'[r].state = "queued"
    BY <1>1, ReqSendDoes
  <2>7. req'[r].state # "failed" /\ req'[r].sent = req[r].sent
    <3>1. req[r].state # "failed"
      BY <1>1 DEF ReqSend
    <3> QED BY <1>1, <3>1, ReqSendDoes
  <2>8. SendingAt(r)'
    BY <2>3, <2>4, <2>5, <2>6, <2>7 DEF SendingAt
  <2> QED BY <1>1, <2>8, ReqSendDoes, SendingKept
<1>2. CASE PlainBuf(r)
  <2>1. SendingAt(r)'
    BY <1>0, <1>2, PlainBufDoes DEF PlainBuf, SendingAt
  <2> QED BY <1>2, <2>1, PlainBufDoes, SendingKept
<1>3. CASE TakenHead(r)
  <2>1. SendingAt(r)'
    BY <1>0, <1>3, TakenHeadDoes DEF TakenHead, SendingAt
  <2> QED BY <1>3, <2>1, TakenHeadDoes, SendingKept
<1>4. CASE Drain(r)
  <2>1. SendingAt(r)'
    <3>1. /\ req[r].pc = "window"
          /\ req'[r].pc \in {"publish", "taken"}
          /\ req'[r].state \in {"socket", req[r].state}
          /\ req'[r].pc = "taken" => req'[r].state = req[r].state
          /\ req'[r].msg = req[r].msg /\ req'[r].sent = req[r].sent
      <4>1. CASE Taken(r)
        <5>1. req'[r].pc = "publish" /\ req'[r].state = "socket"
              /\ req'[r].msg = req[r].msg /\ req'[r].sent = req[r].sent
          BY <1>4, <4>1, DrainDoes
        <5> QED BY <1>4, <5>1 DEF Drain
      <4>2. CASE ~Taken(r)
        <5>1. req'[r].pc = "taken" /\ req'[r].state = req[r].state
              /\ req'[r].msg = req[r].msg /\ req'[r].sent = req[r].sent
          BY <1>4, <4>2, DrainDoes
        <5> QED BY <1>4, <5>1 DEF Drain
      <4> QED BY <4>1, <4>2
    <3>2. req'[r].queue = req[r].queue /\ req'[r].done = req[r].done
      BY <1>4, DrainDoes
    <3> QED BY <1>0, <3>1, <3>2 DEF SendingAt
  <2> QED BY <1>4, <2>1, DrainDoes, SendingKept
<1>5. CASE DrainFails(r)
  <2>1. req[r].sent + 1 \in Nat
    BY <1>0, ReqParts
  <2>2. PICK m : m = Msg(r, req[r].sent + 1, TRUE, TRUE)
    OBVIOUS
  <2>3. m \in Real /\ m.r = r /\ m.k = req[r].sent + 1 /\ m.last = TRUE /\ m.err = TRUE
    BY <2>1, <2>2 DEF Msg, Real
  <2>4. req'[r].msg = m /\ req'[r].done = TRUE /\ req'[r].pc = "publish"
        /\ req'[r].state = "failed" /\ req'[r].sent = req[r].sent
    BY <1>5, <2>2, DrainFailsDoes
  <2>5. ~req'[r].queue
    BY <1>0, <1>5, DrainFailsDoes DEF DrainFails, SendingAt
  <2>6. SendingAt(r)'
    BY <2>3, <2>4, <2>5 DEF SendingAt
  <2> QED BY <1>5, <2>6, DrainFailsDoes, SendingKept
<1>6. CASE QueuePublish(r)
  <2>1. SendingAt(r)'
    <3>1. /\ req[r].pc = "publish" /\ req'[r].pc = "tail"
          /\ req'[r].state = req[r].state /\ req'[r].msg = req[r].msg
          /\ req'[r].queue = req[r].queue /\ req'[r].done = req[r].done
          /\ req'[r].sent = (IF req[r].queue THEN req[r].sent + 1 ELSE req[r].sent)
      BY <1>6, PublishDoes DEF QueuePublish
    <3>2. CASE req[r].queue
      BY <1>0, <3>1, <3>2 DEF SendingAt
    <3>3. CASE ~req[r].queue
      BY <1>0, <3>1, <3>3 DEF SendingAt
    <3> QED BY <3>2, <3>3
  <2> QED BY <1>6, <2>1, PublishDoes, SendingKept
<1>7. CASE QueueOverflow(r) \/ SendDatagramFails(r)
  <2>1. req' = [req EXCEPT ![r] = Rest(@)]
    BY <1>7 DEF QueueOverflow, SendDatagramFails
  <2>2. SendingAt(r)'
    <3>1. req'[r].pc = "idle" /\ req'[r].state = req[r].state
          /\ req'[r].done = req[r].done
      BY <2>1, RestDoes
    <3> QED BY <1>0, <3>1 DEF SendingAt
  <2> QED BY <2>1, <2>2, RestDoes, SendingKept
<1>8. CASE QueueTail(r)
  <2>1. SendingAt(r)'
    <3>1. /\ req[r].pc = "tail" /\ req'[r].pc = "count"
          /\ req'[r].state = req[r].state /\ req'[r].msg = req[r].msg
          /\ req'[r].queue = req[r].queue /\ req'[r].done = req[r].done
          /\ req'[r].sent = req[r].sent
      BY <1>8, TailDoes DEF QueueTail
    <3> QED BY <1>0, <3>1 DEF SendingAt
  <2> QED BY <1>8, <2>1, TailDoes, SendingKept
<1>9. ASSUME req' = [req EXCEPT ![r] = InQueue(@)]
      PROVE  Sending'
  <2>1. SendingAt(r)'
    <3>1. /\ req'[r].pc = "idle" /\ req'[r].done = req[r].done
          /\ req'[r].state = (IF req[r].state = "unqueued" THEN "queued"
                                                         ELSE req[r].state)
      BY <1>9, InQueueDoes
    <3>2. req'[r].state = "failed" => req[r].state = "failed"
      BY <3>1
    <3> QED BY <1>0, <3>1, <3>2 DEF SendingAt
  <2> QED BY <1>9, <2>1, InQueueDoes, SendingKept
<1>10. CASE QueueCount(r)
  <2>1. CASE ~req[r].queue \/ nitems = 0
    <3>1. SendingAt(r)'
      <4>1. /\ req[r].pc = "count"
            /\ req'[r].pc = (IF req[r].queue THEN "bell" ELSE "dgram")
            /\ req'[r].state = req[r].state /\ req'[r].msg = req[r].msg
            /\ req'[r].queue = req[r].queue /\ req'[r].done = req[r].done
            /\ req'[r].sent = req[r].sent
        BY <1>10, <2>1, CountDoes DEF QueueCount
      <4>2. CASE req[r].queue
        BY <1>0, <4>1, <4>2 DEF SendingAt
      <4>3. CASE ~req[r].queue
        BY <1>0, <4>1, <4>3 DEF SendingAt
      <4> QED BY <4>2, <4>3
    <3> QED BY <1>10, <3>1, CountDoes, SendingKept
  <2>2. CASE req[r].queue /\ nitems # 0
    BY <1>9, <1>10, <2>2, CountDoes
  <2> QED BY <2>1, <2>2
<1>11. CASE SendBell(r)
  BY <1>9, <1>11 DEF SendBell
<1>12. CASE SendDatagram(r)
  <2>1. SendingAt(r)'
    <3>1. req'[r].pc = "idle" /\ req'[r].state = req[r].state
          /\ req'[r].done = req[r].done
      BY <1>12, DatagramDoes
    <3> QED BY <1>0, <3>1 DEF SendingAt
  <2> QED BY <1>12, <2>1, DatagramDoes, SendingKept
<1>13. CASE Killed(r)
  <2>1. SendingAt(r)'
    BY <1>13, KilledDoes DEF SendingAt
  <2> QED BY <1>13, <2>1, KilledDoes, SendingKept
<1> QED BY <1>1, <1>2, <1>3, <1>4, <1>5, <1>6, <1>7, <1>8, <1>10, <1>11, <1>12, <1>13
        DEF SendStep


-----------------------------------------------------------------------------
(* Steps of a process, by what they share with others.                     *)

SharedButFaults == <<ring, nitems, sock, edge, rdr, got, open>>
Before == {"idle", "taken", "window", "publish"}

\* A step of a process that has published nothing yet.
Quiet(r) ==
  \/ \E fits, shm_ok, last \in BOOLEAN : ReqSend(r, fits, shm_ok, last)
  \/ PlainBuf(r) \/ TakenHead(r) \/ Drain(r) \/ DrainFails(r) \/ QueueOverflow(r)

Faulty(r) == SendDatagramFails(r) \/ Killed(r)

LEMMA QuietDoes ==
  ASSUME Types, NEW r \in Reqs, Quiet(r)
  PROVE  /\ Only(r) /\ UNCHANGED SharedButFaults /\ UNCHANGED faults
         /\ req[r].pc \in Before /\ req'[r].pc \in Before
         /\ req'[r].sent = req[r].sent
<1>1. ASSUME NEW fits \in BOOLEAN, NEW shm_ok \in BOOLEAN, NEW last \in BOOLEAN,
             ReqSend(r, fits, shm_ok, last)
      PROVE  /\ Only(r) /\ UNCHANGED SharedButFaults /\ UNCHANGED faults
             /\ req[r].pc = "idle" /\ req'[r].pc \in {"taken", "publish"}
             /\ req'[r].sent = req[r].sent
  <2>1. /\ UNCHANGED SharedButFaults /\ UNCHANGED faults /\ req[r].pc = "idle"
    BY <1>1 DEF ReqSend, SharedButFaults
  <2>2. Only(r) /\ req'[r].pc \in {"taken", "publish"} /\ req'[r].sent = req[r].sent
    BY <1>1, ReqSendDoes
  <2> QED BY <2>1, <2>2
<1>2. CASE PlainBuf(r)
  BY <1>2, PlainBufDoes DEF PlainBuf, SharedButFaults, Before
<1>3. CASE TakenHead(r)
  BY <1>3, TakenHeadDoes DEF TakenHead, SharedButFaults, Before
<1>4. CASE Drain(r)
  BY <1>4, DrainDoes DEF Drain, SharedButFaults, Before
<1>5. CASE DrainFails(r)
  BY <1>5, DrainFailsDoes DEF DrainFails, SharedButFaults, Before
<1>6. CASE QueueOverflow(r)
  BY <1>6, RestDoes DEF QueueOverflow, SharedButFaults, Before
<1>7. ASSUME NEW fits \in BOOLEAN, NEW shm_ok \in BOOLEAN, NEW last \in BOOLEAN,
             ReqSend(r, fits, shm_ok, last)
      PROVE  /\ Only(r) /\ UNCHANGED SharedButFaults /\ UNCHANGED faults
             /\ req[r].pc \in Before /\ req'[r].pc \in Before
             /\ req'[r].sent = req[r].sent
  BY <1>1, <1>7 DEF Before
<1> QED BY <1>2, <1>3, <1>4, <1>5, <1>6, <1>7 DEF Quiet

LEMMA FaultyDoes ==
  ASSUME Types, NEW r \in Reqs, Faulty(r)
  PROVE  /\ Only(r) /\ UNCHANGED SharedButFaults /\ faults' > 0
         /\ req'[r].pc \in {"idle", "dead"} /\ req'[r].sent = req[r].sent
<1>1. CASE SendDatagramFails(r)
  <2>1. Only(r) /\ req'[r].pc = "idle" /\ req'[r].sent = req[r].sent
    BY <1>1, RestDoes DEF SendDatagramFails
  <2>2. faults' > 0
    BY <1>1 DEF SendDatagramFails, Types
  <2> QED BY <1>1, <2>1, <2>2 DEF SendDatagramFails, SharedButFaults
<1>2. CASE Killed(r)
  <2>1. Only(r) /\ req'[r].pc = "dead" /\ req'[r].sent = req[r].sent
    BY <1>2, KilledDoes
  <2>2. faults' > 0
    BY <1>2 DEF Killed, Types
  <2> QED BY <1>2, <2>1, <2>2 DEF Killed, SharedButFaults
<1> QED BY <1>1, <1>2 DEF Faulty

LEMMA SendCases ==
  ASSUME NEW r \in Reqs, SendStep(r) \/ SendDatagramFails(r) \/ Killed(r)
  PROVE  \/ Quiet(r) \/ Faulty(r) \/ QueuePublish(r) \/ QueueTail(r) \/ QueueCount(r)
         \/ SendBell(r) \/ SendDatagram(r)
BY DEF SendStep, Quiet, Faulty

\* The sets of processes that the numbers count.
LEMMA SetsMove ==
  ASSUME NEW r \in Reqs, Only(r)
  PROVE  /\ Cardinality(Tailing) \in Nat /\ Cardinality(Tailing)' \in Nat
         /\ Cardinality(Tailing)' <= Cardinality(Reqs)
         /\ Cardinality(Tailing)' = Cardinality(Tailing)
              - (IF req[r].pc = "tail" THEN 1 ELSE 0)
              + (IF req'[r].pc = "tail" THEN 1 ELSE 0)
         /\ Cardinality(Uncounted) \in Nat /\ Cardinality(Uncounted)' \in Nat
         /\ Cardinality(Uncounted)' = Cardinality(Uncounted)
              - (IF req[r].pc \in {"tail", "count"} THEN 1 ELSE 0)
              + (IF req'[r].pc \in {"tail", "count"} THEN 1 ELSE 0)
         /\ Cardinality(Owing) \in Nat /\ Cardinality(Owing)' \in Nat
         /\ Cardinality(Owing)' = Cardinality(Owing)
              - (IF req[r].pc \in {"tail", "count", "dgram"} /\ ~req[r].queue
                   THEN 1 ELSE 0)
              + (IF req'[r].pc \in {"tail", "count", "dgram"} /\ ~req'[r].queue
                   THEN 1 ELSE 0)
<1>1. /\ Tailing \in SUBSET Reqs /\ Tailing' \in SUBSET Reqs
      /\ Tailing \ {r} = Tailing' \ {r}
      /\ r \in Tailing <=> req[r].pc = "tail"
      /\ r \in Tailing' <=> req'[r].pc = "tail"
  BY DEF Only, Tailing
<1>2. /\ Uncounted \in SUBSET Reqs /\ Uncounted' \in SUBSET Reqs
      /\ Uncounted \ {r} = Uncounted' \ {r}
      /\ r \in Uncounted <=> req[r].pc \in {"tail", "count"}
      /\ r \in Uncounted' <=> req'[r].pc \in {"tail", "count"}
  BY DEF Only, Uncounted
<1>3. /\ Owing \in SUBSET Reqs /\ Owing' \in SUBSET Reqs
      /\ Owing \ {r} = Owing' \ {r}
      /\ r \in Owing <=> req[r].pc \in {"tail", "count", "dgram"} /\ ~req[r].queue
      /\ r \in Owing' <=> req'[r].pc \in {"tail", "count", "dgram"} /\ ~req'[r].queue
  BY DEF Only, Owing
<1>4. /\ Cardinality(Tailing) \in Nat /\ Cardinality(Tailing') \in Nat
      /\ Cardinality(Tailing') <= Cardinality(Reqs)
      /\ Cardinality(Tailing') = Cardinality(Tailing)
              - (IF r \in Tailing THEN 1 ELSE 0) + (IF r \in Tailing' THEN 1 ELSE 0)
  BY <1>1, MoveCard
<1>5. /\ Cardinality(Uncounted) \in Nat /\ Cardinality(Uncounted') \in Nat
      /\ Cardinality(Uncounted') = Cardinality(Uncounted)
              - (IF r \in Uncounted THEN 1 ELSE 0) + (IF r \in Uncounted' THEN 1 ELSE 0)
  BY <1>2, MoveCard
<1>6. /\ Cardinality(Owing) \in Nat /\ Cardinality(Owing') \in Nat
      /\ Cardinality(Owing') = Cardinality(Owing)
              - (IF r \in Owing THEN 1 ELSE 0) + (IF r \in Owing' THEN 1 ELSE 0)
  BY <1>3, MoveCard
<1> QED BY <1>1, <1>2, <1>3, <1>4, <1>5, <1>6

\* No process moves: the reader does.
LEMMA SetsStay ==
  ASSUME UNCHANGED req
  PROVE  /\ Cardinality(Tailing)' = Cardinality(Tailing)
         /\ Cardinality(Uncounted)' = Cardinality(Uncounted)
         /\ Cardinality(Owing)' = Cardinality(Owing)
         /\ Cardinality(Tailing) \in Nat /\ Cardinality(Uncounted) \in Nat
         /\ Cardinality(Owing) \in Nat
<1>1. Tailing' = Tailing /\ Uncounted' = Uncounted /\ Owing' = Owing
  BY DEF Tailing, Uncounted, Owing
<1>2. Tailing \subseteq Reqs /\ Uncounted \subseteq Reqs /\ Owing \subseteq Reqs
  BY DEF Tailing, Uncounted, Owing
<1>3. IsFiniteSet(Tailing) /\ IsFiniteSet(Uncounted) /\ IsFiniteSet(Owing)
  BY <1>2, FS_Subset, PortQueueAssumption
<1> QED BY <1>1, <1>3, FS_CardinalityType

LEMMA NumberTypes ==
  ASSUME Types
  PROVE  /\ Len(queue) \in Nat /\ Len(sock) \in Nat /\ rdr.from \in Nat
         /\ Asked \in Nat /\ Aside \in {0, 1} /\ Credit \in 0..2
         /\ Hits(queue, Len(queue), {ReadSocket}) \in Nat
         /\ Hits(sock, Len(sock), Real) \in Nat
<1>1. Len(queue) \in Nat /\ Len(sock) \in Nat /\ rdr.from \in Nat
  BY RdrParts DEF Types
<1>2. Asked \in Nat
  BY <1>1 DEF Asked
<1>3. Aside \in {0, 1}
  BY DEF Aside
<1>4. rdr.pc \in ReadPcs
  BY RdrParts DEF Types
<1>5. Credit \in 0..2
  BY <1>4 DEF Credit, ReadPcs
<1> QED BY <1>1, <1>2, <1>3, <1>5, HitsType

\* The numbers depend on the queue, the socket and the reader only.
LEMMA NumbersStay ==
  ASSUME UNCHANGED <<queue, sock, rdr>>
  PROVE  /\ Len(queue)' = Len(queue) /\ Credit' = Credit
         /\ Asked' = Asked /\ Aside' = Aside
         /\ Hits(queue, Len(queue), {ReadSocket})' = Hits(queue, Len(queue), {ReadSocket})
         /\ Hits(sock, Len(sock), Real)' = Hits(sock, Len(sock), Real)
BY DEF Credit, Asked, Aside, Hits, Real, ReadSocket, Msg


-----------------------------------------------------------------------------
(* The numbers, at the steps of a process.                                 *)

LEMMA RdrStays ==
  ASSUME UNCHANGED rdr
  PROVE  Credit' = Credit /\ Asked' = Asked /\ Aside' = Aside
BY DEF Credit, Asked, Aside, ReadSocket, Msg

LEMMA HitsAppended ==
  ASSUME NEW T, NEW s \in Seq(T), NEW x \in T, NEW S
  PROVE  /\ Hits(Append(s, x), Len(Append(s, x)), S) =
              Hits(s, Len(s), S) + (IF x \in S THEN 1 ELSE 0)
         /\ \A n \in 0..Len(s) : Hits(Append(s, x), n, S) = Hits(s, n, S)
<1> DEFINE t == Append(s, x)
<1>1. /\ Len(t) = Len(s) + 1 /\ Len(s) \in Nat /\ t[Len(s) + 1] = x
      /\ \A i \in 1..Len(s) : t[i] = s[i]
  BY Appended
<1> HIDE DEF t
<1>2. ASSUME NEW n \in 0..Len(s) PROVE Hits(t, n, S) = Hits(s, n, S)
  <2>1. n \in Nat /\ \A i \in 1..n : t[i] = s[i]
    BY <1>1
  <2> QED BY <2>1, HitsSame
<1>3. Hits(t, Len(s), S) = Hits(s, Len(s), S)
  BY <1>1, <1>2
<1>4. Hits(t, Len(s) + 1, S) = Hits(t, Len(s), S) + (IF t[Len(s) + 1] \in S THEN 1 ELSE 0)
  BY <1>1, HitsNext
<1>5. Hits(t, Len(t), S) = Hits(s, Len(s), S) + (IF x \in S THEN 1 ELSE 0)
  BY <1>1, <1>3, <1>4
<1> QED BY <1>2, <1>5 DEF t

LEMMA HitsTailed ==
  ASSUME NEW T, NEW s \in Seq(T), s # <<>>, NEW S
  PROVE  /\ Hits(s, Len(s), S) =
              Hits(Tail(s), Len(Tail(s)), S) + (IF s[1] \in S THEN 1 ELSE 0)
         /\ \A n \in 1..Len(s) : Hits(s, n, S) =
              Hits(Tail(s), n - 1, S) + (IF s[1] \in S THEN 1 ELSE 0)
<1> DEFINE t == Tail(s)
<1>1. /\ Len(t) = Len(s) - 1 /\ Len(s) \in Nat \ {0}
      /\ \A i \in 1..(Len(s) - 1) : t[i] = s[i + 1]
  BY Tailed
<1> HIDE DEF t
<1>2. ASSUME NEW n \in 1..Len(s)
      PROVE  Hits(s, n, S) = Hits(t, n - 1, S) + (IF s[1] \in S THEN 1 ELSE 0)
  <2>1. PICK m \in Nat : n = m + 1 /\ m = n - 1
    BY <1>1
  <2>2. \A i \in 1..m : t[i] = s[i + 1]
    BY <1>1, <2>1
  <2>3. Hits(s, m + 1, S) = Hits(t, m, S) + (IF s[1] \in S THEN 1 ELSE 0)
    BY <2>2, HitsTail
  <2> QED BY <2>1, <2>3
<1>3. Hits(s, Len(s), S) = Hits(t, Len(t), S) + (IF s[1] \in S THEN 1 ELSE 0)
  BY <1>1, <1>2
<1> QED BY <1>2, <1>3 DEF t

LEMMA ReadingSend ==
  ASSUME Types, Reading, NEW r \in Reqs,
         SendStep(r) \/ SendDatagramFails(r) \/ Killed(r)
  PROVE  Reading'
<1>1. rdr' = rdr /\ ((UNCHANGED <<sock, edge>>) \/ edge' = TRUE)
  <2>1. CASE Quiet(r)
    BY <2>1, QuietDoes DEF SharedButFaults
  <2>2. CASE Faulty(r)
    BY <2>2, FaultyDoes DEF SharedButFaults
  <2>3. CASE QueuePublish(r) \/ QueueTail(r) \/ QueueCount(r)
    BY <2>3 DEF QueuePublish, QueueTail, QueueCount
  <2>4. CASE SendBell(r) \/ SendDatagram(r)
    BY <2>4 DEF SendBell, SendDatagram
  <2> QED BY <2>1, <2>2, <2>3, <2>4, SendCases
<1>2. CASE UNCHANGED <<sock, edge>>
  BY <1>1, <1>2 DEF Reading, ReadSocket, Msg
<1>3. CASE edge' = TRUE
  BY <1>1, <1>3 DEF Reading, ReadSocket, Msg
<1> QED BY <1>1, <1>2, <1>3

LEMMA CountingSend ==
  ASSUME Types, Sending, Counting, NEW r \in Reqs,
         SendStep(r) \/ SendDatagramFails(r) \/ Killed(r)
  PROVE  Counting'
<1>0. SendingAt(r)
  BY DEF Sending
<1>1. ASSUME Only(r), UNCHANGED <<queue, rdr, nitems, faults>>,
             req[r].pc \in {"tail", "count"} <=> req'[r].pc \in {"tail", "count"}
      PROVE  Counting'
  <2>1. Cardinality(Uncounted)' = Cardinality(Uncounted)
    BY <1>1, SetsMove
  <2> QED BY <1>1, <2>1, RdrStays DEF Counting
<1>2. CASE Quiet(r)
  BY <1>1, <1>2, QuietDoes DEF SharedButFaults, Before, ring
<1>3. CASE Faulty(r)
  BY <1>3, FaultyDoes DEF Counting
<1>4. CASE QueuePublish(r)
  <2>1. Cardinality(Uncounted)' = Cardinality(Uncounted) + 1
        /\ Cardinality(Uncounted) \in Nat
    <3>1. Only(r) /\ req[r].pc = "publish" /\ req'[r].pc = "tail"
      BY <1>4, PublishDoes DEF QueuePublish
    <3> QED BY <3>1, SetsMove
  <2>2. Len(queue') = Len(queue) + 1 /\ Len(queue) \in Nat
    BY <1>4 DEF QueuePublish, Types
  <2>3. Credit' = Credit /\ nitems' = nitems /\ faults' = faults /\ Credit \in Int
    BY <1>4, RdrStays, NumberTypes DEF QueuePublish
  <2> QED BY <2>1, <2>2, <2>3 DEF Counting
<1>5. CASE QueueTail(r)
  BY <1>1, <1>5, TailDoes DEF QueueTail
<1>6. CASE QueueCount(r)
  <2>1. req[r].pc = "count" /\ req'[r].pc \in {"idle", "bell", "dgram"} /\ Only(r)
    <3>1. CASE ~req[r].queue \/ nitems = 0
      BY <1>6, <3>1, CountDoes DEF QueueCount
    <3>2. CASE req[r].queue /\ nitems # 0
      <4>1. req' = [req EXCEPT ![r] = InQueue(@)]
        BY <1>6, <3>2, CountDoes
      <4> QED BY <1>6, <4>1, InQueueDoes DEF QueueCount
    <3> QED BY <3>1, <3>2
  <2>2. Cardinality(Uncounted)' = Cardinality(Uncounted) - 1
        /\ Cardinality(Uncounted) \in Nat
    BY <2>1, SetsMove
  <2>3. Credit' = Credit /\ nitems' = nitems + 1 /\ faults' = faults /\ Credit \in Int
        /\ queue' = queue /\ Len(queue) \in Nat
    BY <1>6, RdrStays, NumberTypes DEF QueueCount, ring
  <2>4. nitems \in Int
    BY DEF Types
  <2> QED BY <2>2, <2>3, <2>4 DEF Counting
<1>7. CASE SendBell(r)
  <2>1. Only(r) /\ req'[r].pc = "idle"
    BY <1>7, InQueueDoes DEF SendBell
  <2> QED BY <1>1, <1>7, <2>1 DEF SendBell, ring
<1>8. CASE SendDatagram(r)
  BY <1>1, <1>8, DatagramDoes DEF SendDatagram, ring
<1> QED BY <1>2, <1>3, <1>4, <1>5, <1>6, <1>7, <1>8, SendCases

LEMMA RungSend ==
  ASSUME Types, Rung, NEW r \in Reqs,
         SendStep(r) \/ SendDatagramFails(r) \/ Killed(r)
  PROVE  Rung'
<1>1. ASSUME Only(r), UNCHANGED <<rdr, nitems, faults, edge>>,
             req[r].pc \notin {"bell", "dgram"}
      PROVE  Rung'
  <2>1. \A s \in Reqs : req[s].pc \in {"bell", "dgram"} => req'[s].pc = req[s].pc
    BY <1>1 DEF Only
  <2> QED BY <1>1, <2>1 DEF Rung
<1>2. CASE Quiet(r)
  BY <1>1, <1>2, QuietDoes DEF SharedButFaults, Before
<1>3. CASE Faulty(r)
  BY <1>3, FaultyDoes DEF Rung
<1>4. CASE QueuePublish(r)
  BY <1>1, <1>4, PublishDoes DEF QueuePublish
<1>5. CASE QueueTail(r)
  BY <1>1, <1>5, TailDoes DEF QueueTail
<1>6. CASE QueueCount(r)
  <2>1. CASE ~req[r].queue \/ nitems = 0
    <3>1. req'[r].pc \in {"bell", "dgram"}
      BY <1>6, <2>1, CountDoes
    <3> QED BY <3>1 DEF Rung
  <2>2. CASE req[r].queue /\ nitems # 0
    <3>1. Only(r)
      BY <1>6, CountDoes
    <3>2. \A s \in Reqs : req[s].pc \in {"bell", "dgram"} => req'[s].pc = req[s].pc
      BY <1>6, <3>1 DEF Only, QueueCount
    <3>3. nitems' = nitems + 1 /\ nitems \in Int
      BY <1>6 DEF QueueCount, Types
    <3>4. rdr' = rdr /\ faults' = faults /\ edge' = edge
      BY <1>6 DEF QueueCount
    <3> QED BY <2>2, <3>2, <3>3, <3>4 DEF Rung
  <2> QED BY <2>1, <2>2
<1>7. CASE SendBell(r) \/ SendDatagram(r)
  BY <1>7 DEF SendBell, SendDatagram, Rung
<1> QED BY <1>2, <1>3, <1>4, <1>5, <1>6, <1>7, SendCases

LEMMA BalanceSend ==
  ASSUME Types, Sending, Balance, NEW r \in Reqs,
         SendStep(r) \/ SendDatagramFails(r) \/ Killed(r)
  PROVE  Balance'
<1>0. SendingAt(r) /\ req[r] \in ReqSet
  BY DEF Sending, Types
<1>n. /\ Asked \in Nat /\ Aside \in Nat
      /\ Hits(queue, Len(queue), {ReadSocket}) \in Nat
      /\ Hits(sock, Len(sock), Real) \in Nat
  BY NumberTypes
<1>u. ASSUME UNCHANGED <<queue, sock, rdr>>
      PROVE  Markers' = Markers
             /\ Arriving' = Arriving - Cardinality(Owing) + Cardinality(Owing)'
             /\ Cardinality(Owing) \in Nat
  <2>1. /\ Hits(queue, Len(queue), {ReadSocket})' = Hits(queue, Len(queue), {ReadSocket})
        /\ Hits(sock, Len(sock), Real)' = Hits(sock, Len(sock), Real)
        /\ Asked' = Asked /\ Aside' = Aside
    BY <1>u, NumbersStay
  <2>2. Cardinality(Owing) \in Nat /\ Cardinality(Owing)' \in Nat
    <3>1. Owing \subseteq Reqs /\ Owing' \subseteq Reqs
      BY DEF Owing
    <3> QED BY <3>1, FS_Subset, FS_CardinalityType, PortQueueAssumption
  <2> QED BY <1>n, <2>1, <2>2 DEF Markers, Arriving
<1>t. Markers \in Nat /\ (Cardinality(Owing) \in Nat => Arriving \in Nat)
  BY <1>n DEF Markers, Arriving
<1>1. ASSUME Only(r), UNCHANGED <<queue, sock, rdr, faults>>,
             (req[r].pc \in {"tail", "count", "dgram"} /\ ~req[r].queue)
               <=> (req'[r].pc \in {"tail", "count", "dgram"} /\ ~req'[r].queue)
      PROVE  Balance'
  <2>1. Cardinality(Owing)' = Cardinality(Owing) /\ Cardinality(Owing) \in Nat
    BY <1>1, SetsMove
  <2> QED BY <1>1, <1>u, <1>t, <2>1 DEF Balance
<1>2. CASE Quiet(r)
  BY <1>1, <1>2, QuietDoes DEF SharedButFaults, Before, ring
<1>3. CASE Faulty(r)
  <2>1. Only(r) /\ UNCHANGED <<queue, sock, rdr>> /\ faults' > 0
        /\ req'[r].pc \in {"idle", "dead"}
    BY <1>3, FaultyDoes DEF SharedButFaults, ring
  <2>2. Cardinality(Owing)' <= Cardinality(Owing) /\ Cardinality(Owing)' \in Nat
    BY <2>1, SetsMove
  <2> QED BY <1>u, <1>t, <2>1, <2>2 DEF Balance
<1>4. CASE QueuePublish(r)
  <2> DEFINE x == IF req[r].queue THEN req[r].msg ELSE ReadSocket
  <2>1. x \in Items /\ queue \in Seq(Items)
    BY <1>0, Marks, ReqParts DEF Types
  <2>2. queue' = Append(queue, x)
    BY <1>4 DEF QueuePublish
  <2>3. x \in {ReadSocket} <=> ~req[r].queue
    BY <1>0, <1>4, RealParts DEF QueuePublish, SendingAt
  <2> HIDE DEF x
  <2>4. Hits(queue', Len(queue'), {ReadSocket}) =
          Hits(queue, Len(queue), {ReadSocket}) + (IF x \in {ReadSocket} THEN 1 ELSE 0)
    BY <2>1, <2>2, HitsAppended
  <2>5. Asked' = Asked /\ Aside' = Aside /\ sock' = sock /\ faults' = faults
    BY <1>4, RdrStays DEF QueuePublish
  <2>6. /\ Cardinality(Owing)' =
             Cardinality(Owing) + (IF x \in {ReadSocket} THEN 1 ELSE 0)
        /\ Cardinality(Owing) \in Nat
    <3>1. /\ Only(r) /\ req[r].pc = "publish" /\ req'[r].pc = "tail"
          /\ req'[r].queue = req[r].queue
      BY <1>4, PublishDoes DEF QueuePublish
    <3> QED BY <2>3, <3>1, SetsMove
  <2>7. Hits(sock, Len(sock), Real)' = Hits(sock, Len(sock), Real)
    BY <2>5 DEF Hits, Real
  <2>8. Hits(queue, Len(queue), {ReadSocket})' = Hits(queue', Len(queue'), {ReadSocket})
    BY DEF Hits, ReadSocket, Msg
  <2> QED BY <1>n, <2>4, <2>5, <2>6, <2>7, <2>8 DEF Balance, Markers, Arriving
<1>5. CASE QueueTail(r)
  BY <1>1, <1>5, TailDoes DEF QueueTail
<1>6. CASE QueueCount(r)
  <2>1. CASE ~req[r].queue \/ nitems = 0
    <3>1. /\ Only(r) /\ req[r].pc = "count"
          /\ req'[r].pc = (IF req[r].queue THEN "bell" ELSE "dgram")
          /\ req'[r].queue = req[r].queue
      BY <1>6, <2>1, CountDoes DEF QueueCount
    <3> QED BY <1>1, <1>6, <3>1 DEF QueueCount, ring
  <2>2. CASE req[r].queue /\ nitems # 0
    <3>1. req' = [req EXCEPT ![r] = InQueue(@)]
      BY <1>6, <2>2, CountDoes
    <3>2. Only(r) /\ req'[r].pc = "idle"
      BY <3>1, InQueueDoes
    <3> QED BY <1>1, <1>6, <2>2, <3>2 DEF QueueCount, ring
  <2> QED BY <2>1, <2>2
<1>7. CASE SendBell(r)
  <2>1. Only(r) /\ req[r].pc = "bell" /\ req'[r].pc = "idle"
    BY <1>7, InQueueDoes DEF SendBell
  <2>2. Cardinality(Owing)' = Cardinality(Owing) /\ Cardinality(Owing) \in Nat
    BY <2>1, SetsMove
  <2>3. sock' = Append(sock, ReadQueue) /\ sock \in Seq(Datagrams)
        /\ queue' = queue /\ rdr' = rdr /\ faults' = faults
    BY <1>7 DEF SendBell, Types, ring
  <2>4. Hits(sock', Len(sock'), Real) = Hits(sock, Len(sock), Real)
    <3>1. Hits(sock', Len(sock'), Real) =
            Hits(sock, Len(sock), Real) + (IF ReadQueue \in Real THEN 1 ELSE 0)
      BY <2>3, Marks, HitsAppended
    <3> QED BY <1>n, <3>1, Marks
  <2>5. Asked' = Asked /\ Aside' = Aside
    BY <2>3, RdrStays
  <2>6. /\ Hits(sock, Len(sock), Real)' = Hits(sock', Len(sock'), Real)
        /\ Hits(queue, Len(queue), {ReadSocket})' = Hits(queue, Len(queue), {ReadSocket})
    BY <2>3 DEF Hits, Real, ReadSocket, Msg
  <2> QED BY <1>n, <2>2, <2>3, <2>4, <2>5, <2>6 DEF Balance, Markers, Arriving
<1>8. CASE SendDatagram(r)
  <2>1. Only(r) /\ req[r].pc = "dgram" /\ req'[r].pc = "idle" /\ ~req[r].queue
        /\ req[r].msg \in Real
    BY <1>0, <1>8, DatagramDoes DEF SendDatagram, SendingAt
  <2>2. Cardinality(Owing)' = Cardinality(Owing) - 1 /\ Cardinality(Owing) \in Nat
    BY <2>1, SetsMove
  <2>3. sock' = Append(sock, req[r].msg) /\ sock \in Seq(Datagrams)
        /\ queue' = queue /\ rdr' = rdr /\ faults' = faults
    BY <1>8 DEF SendDatagram, Types, ring
  <2>4. Hits(sock', Len(sock'), Real) = Hits(sock, Len(sock), Real) + 1
    <3>1. PICK m : m = req[r].msg
      OBVIOUS
    <3>2. m \in Real /\ m \in Datagrams
      BY <2>1, <3>1, RealParts
    <3>3. sock' = Append(sock, m)
      BY <2>3, <3>1
    <3>4. Hits(sock', Len(sock'), Real) =
            Hits(sock, Len(sock), Real) + (IF m \in Real THEN 1 ELSE 0)
      BY <2>3, <3>2, <3>3, HitsAppended
    <3> QED BY <3>2, <3>4
  <2>5. Asked' = Asked /\ Aside' = Aside
    BY <2>3, RdrStays
  <2>6. /\ Hits(sock, Len(sock), Real)' = Hits(sock', Len(sock'), Real)
        /\ Hits(queue, Len(queue), {ReadSocket})' = Hits(queue, Len(queue), {ReadSocket})
    BY <2>3 DEF Hits, Real, ReadSocket, Msg
  <2> QED BY <1>n, <2>2, <2>3, <2>4, <2>5, <2>6 DEF Balance, Markers, Arriving
<1> QED BY <1>2, <1>3, <1>4, <1>5, <1>6, <1>7, <1>8, SendCases


-----------------------------------------------------------------------------
(* The numbers, at the steps of the reader.                                *)

\* The reader finds nothing in the queue only when nothing is set aside.
LEMMA NothingAside ==
  ASSUME Types, Balance, queue = <<>>, rdr.from = 0, rdr.pc \notin Hands
  PROVE  rdr.smsg = ReadSocket
<1>1. Hits(queue, Len(queue), {ReadSocket}) = 0
  BY HitsType
<1>2. Asked = 0
  BY DEF Asked
<1>3. Cardinality(Owing) \in Nat
  <2>1. Owing \subseteq Reqs
    BY DEF Owing
  <2> QED BY <2>1, FS_Subset, FS_CardinalityType, PortQueueAssumption
<1>4. Hits(sock, Len(sock), Real) \in Nat /\ Aside \in {0, 1}
  BY NumberTypes
<1>5. Aside = 0
  BY <1>1, <1>2, <1>3, <1>4 DEF Balance, Markers, Arriving
<1> QED BY <1>5 DEF Aside

\* The step that the code has for a second datagram is never taken.
LEMMA SuspendFree ==
  ASSUME Types, Reading, RecvDatagram, rdr.from = 0
  PROVE  rdr' = [rdr EXCEPT !.pc = "loop", !.smsg = Head(sock)] /\ UNCHANGED <<got, open>>
<1>1. rdr.smsg = ReadSocket
  BY DEF Reading, RecvDatagram
<1> QED BY <1>1 DEF RecvDatagram

LEMMA ReadingRead ==
  ASSUME Types, Reading, Balance, ReadStep
  PROVE  Reading'
<1>0. ReadSocket' = ReadSocket
  BY DEF ReadSocket, Msg
<1> USE DEF Hands, Ends
<1>1. CASE ReadEvent
  <2>1. rdr'.pc = "loop" /\ rdr'.ready = TRUE /\ rdr'.item = rdr.item
        /\ rdr'.smsg = rdr.smsg /\ rdr.pc = "sleep"
    BY <1>1, EventDoes DEF ReadEvent
  <2> QED BY <1>0, <2>1 DEF Reading
<1>2. CASE ReadQueueItem
  <2>1. CASE queue # <<>> /\ Dequeue
             /\ rdr' = [rdr EXCEPT !.pc = "taken", !.item = Head(queue)]
    <3>1. /\ rdr'.pc = "taken" /\ rdr'.ready = rdr.ready /\ rdr'.from = rdr.from
          /\ rdr'.smsg = rdr.smsg
      BY <2>1, TakeDoes DEF ReadPcs
    <3>2. rdr.from = 0 /\ rdr.pc = "loop" /\ sock' = sock /\ edge' = edge
      BY <1>2 DEF ReadQueueItem
    <3> QED BY <1>0, <3>1, <3>2 DEF Reading
  <2>2. CASE /\ queue = <<>>
             /\ rdr' = [rdr EXCEPT !.pc = IF rdr.ready THEN "recv" ELSE "release"]
    <3>1. PICK p \in ReadPcs : /\ p = IF rdr.ready THEN "recv" ELSE "release"
                               /\ rdr' = [rdr EXCEPT !.pc = p]
      BY <2>2 DEF ReadPcs
    <3>2. /\ rdr'.pc = p /\ rdr'.ready = rdr.ready
          /\ rdr'.from = rdr.from /\ rdr'.smsg = rdr.smsg /\ rdr'.item = rdr.item
      BY <3>1, PcDoes
    <3>3. rdr.from = 0 /\ rdr.pc = "loop" /\ sock' = sock /\ edge' = edge
      BY <1>2 DEF ReadQueueItem
    <3>4. rdr.smsg = ReadSocket
      BY <2>2, <3>3, NothingAside
    <3>5. CASE rdr.ready
      BY <1>0, <3>1, <3>2, <3>3, <3>4, <3>5 DEF Reading
    <3>6. CASE ~rdr.ready
      BY <1>0, <3>1, <3>2, <3>3, <3>4, <3>6 DEF Reading
    <3> QED BY <3>5, <3>6
  <2> QED BY <1>2, <2>1, <2>2 DEF ReadQueueItem
<1>3. ASSUME NEW p \in ReadPcs, rdr' = [rdr EXCEPT !.pc = p],
             UNCHANGED <<sock, edge>>,
             \/ rdr.pc = "release" /\ p = "second"
             \/ rdr.pc = "second" /\ p = "sleep"
             \/ rdr.pc = "uncount" /\ p = "recredit"
      PROVE  Reading'
  <2>1. /\ rdr'.pc = p /\ rdr'.ready = rdr.ready
        /\ rdr'.from = rdr.from /\ rdr'.smsg = rdr.smsg /\ rdr'.item = rdr.item
    BY <1>3, PcDoes
  <2> QED BY <1>0, <1>3, <2>1 DEF Reading
<1>4. CASE ReadRelease
  BY <1>3, <1>4 DEF ReadRelease, ReadPcs
<1>5. CASE ReadSecond
  <2>1. CASE queue # <<>> /\ Dequeue
             /\ rdr' = [rdr EXCEPT !.pc = "uncount", !.item = Head(queue)]
    <3>1. /\ rdr'.pc = "uncount" /\ rdr'.ready = rdr.ready /\ rdr'.from = rdr.from
          /\ rdr'.smsg = rdr.smsg
      BY <2>1, TakeDoes DEF ReadPcs
    <3>2. rdr.pc = "second" /\ sock' = sock /\ edge' = edge
      BY <1>5 DEF ReadSecond
    <3> QED BY <1>0, <3>1, <3>2 DEF Reading
  <2>2. CASE rdr' = [rdr EXCEPT !.pc = "sleep"]
    BY <1>3, <1>5, <2>2 DEF ReadSecond, ReadPcs
  <2> QED BY <1>5, <2>1, <2>2 DEF ReadSecond
<1>6. CASE ReadUncount
  BY <1>3, <1>6 DEF ReadUncount, ReadPcs
<1>7. CASE ReadItem
  <2>1. /\ rdr'.pc = "loop" /\ rdr'.ready = rdr.ready /\ rdr'.item = ReadSocket
    BY <1>7, ItemDoes
  <2>2. UNCHANGED <<sock, edge>>
    BY <1>7 DEF ReadItem
  <2> QED BY <1>0, <2>1, <2>2 DEF Reading
<1>8. CASE ReadMarked
  <2>1. CASE rdr' = [rdr EXCEPT !.smsg = ReadSocket, !.from = @ - 1]
    <3>1. /\ rdr'.pc = rdr.pc /\ rdr'.ready = rdr.ready /\ rdr'.item = rdr.item
          /\ rdr.pc = "loop"
      BY <1>8, <2>1, AsideDoes DEF ReadMarked
    <3>2. UNCHANGED <<sock, edge>>
      BY <1>8 DEF ReadMarked
    <3> QED BY <1>0, <3>1, <3>2 DEF Reading
  <2>2. CASE /\ rdr.smsg = ReadSocket
             /\ rdr' = [rdr EXCEPT !.pc = IF rdr.ready THEN "recv" ELSE "sleep"]
    <3>1. PICK p \in ReadPcs : /\ p = IF rdr.ready THEN "recv" ELSE "sleep"
                               /\ rdr' = [rdr EXCEPT !.pc = p]
      BY <2>2 DEF ReadPcs
    <3>2. /\ rdr'.pc = p /\ rdr'.ready = rdr.ready
          /\ rdr'.from = rdr.from /\ rdr'.smsg = rdr.smsg /\ rdr'.item = rdr.item
      BY <3>1, PcDoes
    <3>3. rdr.pc = "loop" /\ sock' = sock /\ edge' = edge
      BY <1>8 DEF ReadMarked
    <3>5. CASE rdr.ready
      BY <1>0, <2>2, <3>1, <3>2, <3>3, <3>5 DEF Reading
    <3>6. CASE ~rdr.ready
      BY <1>0, <2>2, <3>1, <3>2, <3>3, <3>6 DEF Reading
    <3> QED BY <3>5, <3>6
  <2> QED BY <1>8, <2>1, <2>2 DEF ReadMarked
<1>9. CASE RecvAgain
  <2>1. rdr'.pc = "loop" /\ rdr'.item = rdr.item /\ rdr.pc = "recv" /\ sock' = <<>>
    BY <1>9, AgainDoes DEF RecvAgain
  <2> QED BY <1>0, <2>1 DEF Reading
<1>10. ASSUME rdr.pc = "recv", rdr'.pc = "loop", rdr'.ready = rdr.ready,
              rdr'.item = rdr.item, sock # <<>>, edge' = edge
       PROVE  Reading'
  BY <1>0, <1>10 DEF Reading
<1>11. CASE RecvDoorbell
  <2>1. rdr'.pc = "loop" /\ rdr'.ready = rdr.ready /\ rdr'.item = rdr.item
    BY <1>11, PcDoes DEF RecvDoorbell, ReadPcs
  <2> QED BY <1>10, <1>11, <2>1 DEF RecvDoorbell
<1>12. CASE RecvDatagram
  <2>1. CASE rdr.from > 0 /\ rdr' = [rdr EXCEPT !.pc = "loop", !.from = @ - 1]
    <3>1. rdr'.pc = "loop" /\ rdr'.ready = rdr.ready /\ rdr'.item = rdr.item
      BY <2>1, UseDoes
    <3> QED BY <1>10, <1>12, <3>1 DEF RecvDatagram
  <2>2. CASE rdr.from = 0
    <3>1. rdr'.pc = "loop" /\ rdr'.ready = rdr.ready /\ rdr'.item = rdr.item
      BY <1>12, <2>2, SuspendFree, SuspendDoes DEF RecvDatagram
    <3> QED BY <1>10, <1>12, <3>1 DEF RecvDatagram
  <2> QED BY <1>12, <2>1, <2>2 DEF RecvDatagram
<1> QED BY <1>1, <1>2, <1>4, <1>5, <1>6, <1>7, <1>8, <1>9, <1>11, <1>12 DEF ReadStep

LEMMA RungRead ==
  ASSUME Types, Reading, Counting, ReadStep
  PROVE  Rung'
<1>1. ASSUME rdr'.pc # "sleep" \/ rdr'.from > 0
      PROVE  Rung'
  BY <1>1 DEF Rung
<1>2. CASE ReadEvent
  BY <1>1, <1>2, EventDoes
<1>3. CASE ReadQueueItem
  <2>1. CASE queue # <<>> /\ rdr' = [rdr EXCEPT !.pc = "taken", !.item = Head(queue)]
    BY <1>1, <2>1, TakeDoes DEF ReadPcs
  <2>2. CASE rdr' = [rdr EXCEPT !.pc = IF rdr.ready THEN "recv" ELSE "release"]
    <3>1. PICK p \in ReadPcs : p # "sleep" /\ rdr' = [rdr EXCEPT !.pc = p]
      BY <2>2 DEF ReadPcs
    <3> QED BY <1>1, <3>1, PcDoes
  <2> QED BY <1>3, <2>1, <2>2 DEF ReadQueueItem
<1>4. CASE ReadRelease
  BY <1>1, <1>4, PcDoes DEF ReadRelease, ReadPcs
<1>5. CASE ReadSecond
  <2>1. CASE queue # <<>> /\ rdr' = [rdr EXCEPT !.pc = "uncount", !.item = Head(queue)]
    BY <1>1, <2>1, TakeDoes DEF ReadPcs
  <2>2. CASE queue = <<>>
    <3>1. Credit = 0 /\ Len(queue) = 0
      BY <1>5, <2>2 DEF ReadSecond, Credit
    <3>2. Uncounted \subseteq Reqs
      BY DEF Uncounted
    <3>3. Cardinality(Uncounted) \in Nat
      BY <3>2, FS_Subset, FS_CardinalityType, PortQueueAssumption
    <3>4. faults = 0 => ~(nitems > 0)
      BY <3>1, <3>3 DEF Counting
    <3>5. nitems' = nitems /\ faults' = faults
      BY <1>5 DEF ReadSecond
    <3> QED BY <3>4, <3>5 DEF Rung
  <2> QED BY <1>5, <2>1, <2>2 DEF ReadSecond
<1>6. CASE ReadUncount
  BY <1>1, <1>6, PcDoes DEF ReadUncount, ReadPcs
<1>7. CASE ReadItem
  BY <1>1, <1>7, ItemDoes
<1>8. CASE ReadMarked
  <2>1. CASE rdr' = [rdr EXCEPT !.smsg = ReadSocket, !.from = @ - 1]
    BY <1>1, <1>8, <2>1, AsideDoes DEF ReadMarked
  <2>2. CASE rdr' = [rdr EXCEPT !.pc = IF rdr.ready THEN "recv" ELSE "sleep"]
    <3>1. PICK p \in ReadPcs : rdr' = [rdr EXCEPT !.pc = p]
      BY <2>2 DEF ReadPcs
    <3>2. rdr'.from = rdr.from
      BY <3>1, PcDoes
    <3> QED BY <1>1, <1>8, <3>2 DEF ReadMarked
  <2> QED BY <1>8, <2>1, <2>2 DEF ReadMarked
<1>9. CASE RecvAgain
  BY <1>1, <1>9, AgainDoes
<1>10. CASE RecvDoorbell
  BY <1>1, <1>10, PcDoes DEF RecvDoorbell, ReadPcs
<1>11. CASE RecvDatagram
  <2>1. CASE rdr.from > 0 /\ rdr' = [rdr EXCEPT !.pc = "loop", !.from = @ - 1]
    BY <1>1, <2>1, UseDoes
  <2>2. CASE rdr.from = 0
    BY <1>1, <1>11, <2>2, SuspendFree, SuspendDoes DEF RecvDatagram
  <2> QED BY <1>11, <2>1, <2>2 DEF RecvDatagram
<1> QED BY <1>2, <1>3, <1>4, <1>5, <1>6, <1>7, <1>8, <1>9, <1>10, <1>11 DEF ReadStep


LEMMA CountingKept ==
  ASSUME Types, Counting, UNCHANGED <<req, faults>>,
         nitems' - nitems = (Len(queue') - Len(queue)) + (Credit' - Credit),
         nitems' \in Int, Len(queue') \in Nat, Credit' \in Int
  PROVE  Counting'
<1>1. Cardinality(Uncounted)' = Cardinality(Uncounted) /\ Cardinality(Uncounted) \in Nat
  BY SetsStay
<1>2. nitems \in Int /\ Len(queue) \in Nat /\ Credit \in Int
  BY NumberTypes DEF Types
<1>3. ASSUME faults' = 0
      PROVE  nitems' = Len(queue') - Cardinality(Uncounted)' + Credit'
  <2>1. nitems = Len(queue) - Cardinality(Uncounted) + Credit
    BY <1>3 DEF Counting
  <2>2. nitems' - nitems = (Len(queue') - Len(queue)) + (Credit' - Credit)
    OBVIOUS
  <2>3. nitems' \in Int /\ Len(queue') \in Nat /\ Credit' \in Int
    OBVIOUS
  <2>4. PICK a, b, c, d, x, y, z : a = nitems /\ b = Len(queue) /\ c = Credit
             /\ d = Cardinality(Uncounted) /\ x = nitems' /\ y = Len(queue') /\ z = Credit'
    OBVIOUS
  <2>5. /\ a \in Int /\ b \in Nat /\ c \in Int /\ d \in Nat
        /\ x \in Int /\ y \in Nat /\ z \in Int
        /\ a = b - d + c /\ x - a = (y - b) + (z - c)
    BY <1>1, <1>2, <2>1, <2>2, <2>3, <2>4
  <2>6. x = y - d + z
    BY <2>5
  <2>7. nitems' = Len(queue') - Cardinality(Uncounted) + Credit'
    BY <2>4, <2>6
  <2> QED BY <1>1, <2>7
<1> QED BY <1>3 DEF Counting

LEMMA CountingRead ==
  ASSUME Types, Reading, Counting, ReadStep
  PROVE  Counting'
<1>0. UNCHANGED <<req, faults>>
  BY DEF ReadStep, ReadEvent, ReadQueueItem, ReadRelease, ReadSecond, ReadUncount,
         ReadItem, ReadMarked, RecvAgain, RecvDoorbell, RecvDatagram
<1>i. nitems \in Int /\ Len(queue) \in Nat
  BY DEF Types
<1>1. CASE ReadEvent
  <2>1. rdr.pc = "sleep" /\ rdr'.pc = "loop" /\ nitems' = nitems + 1 /\ queue' = queue
    BY <1>1, EventDoes DEF ReadEvent, ring
  <2>2. Credit = 0 /\ Credit' = 1
    BY <2>1 DEF Credit
  <2> QED BY <1>0, <1>i, <2>1, <2>2, CountingKept
<1>2. CASE ReadQueueItem
  <2>1. CASE queue # <<>> /\ Dequeue
             /\ rdr' = [rdr EXCEPT !.pc = "taken", !.item = Head(queue)]
    <3>1. rdr.pc = "loop" /\ rdr'.pc = "taken" /\ nitems' = nitems
      BY <1>2, <2>1, TakeDoes DEF ReadPcs, ReadQueueItem
    <3>2. Credit = 1 /\ Credit' = 2
      BY <3>1 DEF Credit
    <3>3. Len(queue') = Len(queue) - 1
      BY <2>1, DequeueDoes
    <3> QED BY <1>0, <1>i, <3>1, <3>2, <3>3, CountingKept
  <2>2. CASE queue = <<>> /\ UNCHANGED <<queue, head>>
             /\ rdr' = [rdr EXCEPT !.pc = IF rdr.ready THEN "recv" ELSE "release"]
    <3>1. PICK p \in ReadPcs : p \in {"recv", "release"} /\ rdr' = [rdr EXCEPT !.pc = p]
      BY <2>2 DEF ReadPcs
    <3>2. rdr.pc = "loop" /\ rdr'.pc \in {"recv", "release"} /\ nitems' = nitems
      BY <1>2, <3>1, PcDoes DEF ReadQueueItem
    <3>3. Credit = 1 /\ Credit' = 1
      BY <3>2 DEF Credit
    <3> QED BY <1>0, <1>i, <2>2, <3>2, <3>3, CountingKept
  <2> QED BY <1>2, <2>1, <2>2 DEF ReadQueueItem
<1>3. CASE ReadRelease
  <2>1. rdr.pc = "release" /\ rdr'.pc = "second" /\ nitems' = nitems - 1 /\ queue' = queue
    BY <1>3, PcDoes DEF ReadRelease, ReadPcs, ring
  <2>2. Credit = 1 /\ Credit' = 0
    BY <2>1 DEF Credit
  <2> QED BY <1>0, <1>i, <2>1, <2>2, CountingKept
<1>4. CASE ReadSecond
  <2>1. CASE queue # <<>> /\ Dequeue
             /\ rdr' = [rdr EXCEPT !.pc = "uncount", !.item = Head(queue)]
    <3>1. rdr.pc = "second" /\ rdr'.pc = "uncount" /\ nitems' = nitems
      BY <1>4, <2>1, TakeDoes DEF ReadPcs, ReadSecond
    <3>2. Credit = 0 /\ Credit' = 1
      BY <3>1 DEF Credit
    <3>3. Len(queue') = Len(queue) - 1
      BY <2>1, DequeueDoes
    <3> QED BY <1>0, <1>i, <3>1, <3>2, <3>3, CountingKept
  <2>2. CASE UNCHANGED <<queue, head>> /\ rdr' = [rdr EXCEPT !.pc = "sleep"]
    <3>1. rdr.pc = "second" /\ rdr'.pc = "sleep" /\ nitems' = nitems
      BY <1>4, <2>2, PcDoes DEF ReadPcs, ReadSecond
    <3>2. Credit = 0 /\ Credit' = 0
      BY <3>1 DEF Credit
    <3> QED BY <1>0, <1>i, <2>2, <3>1, <3>2, CountingKept
  <2> QED BY <1>4, <2>1, <2>2 DEF ReadSecond
<1>5. CASE ReadUncount
  <2>1. rdr.pc = "uncount" /\ rdr'.pc = "recredit" /\ nitems' = nitems - 1
        /\ queue' = queue
    BY <1>5, PcDoes DEF ReadUncount, ReadPcs, ring
  <2>2. Credit = 1 /\ Credit' = 0
    BY <2>1 DEF Credit
  <2> QED BY <1>0, <1>i, <2>1, <2>2, CountingKept
<1>6. CASE ReadItem
  <2>1. rdr'.pc = "loop" /\ queue' = queue /\ rdr.pc \in {"taken", "recredit"}
        /\ nitems' = IF rdr.pc = "taken" THEN nitems - 1 ELSE nitems + 1
    BY <1>6, ItemDoes DEF ReadItem, ring
  <2>2. CASE rdr.pc = "taken"
    <3>1. Credit = 2 /\ Credit' = 1
      BY <2>1, <2>2 DEF Credit
    <3> QED BY <1>0, <1>i, <2>1, <2>2, <3>1, CountingKept
  <2>3. CASE rdr.pc = "recredit"
    <3>1. Credit = 0 /\ Credit' = 1
      BY <2>1, <2>3 DEF Credit
    <3> QED BY <1>0, <1>i, <2>1, <2>3, <3>1, CountingKept
  <2> QED BY <2>1, <2>2, <2>3
<1>7. CASE ReadMarked
  <2>1. CASE UNCHANGED nitems /\ rdr' = [rdr EXCEPT !.smsg = ReadSocket, !.from = @ - 1]
    <3>1. rdr'.pc = rdr.pc /\ rdr.pc = "loop" /\ queue' = queue /\ nitems' = nitems
      BY <1>7, <2>1, AsideDoes DEF ReadMarked, ring
    <3>2. Credit = 1 /\ Credit' = 1
      BY <3>1 DEF Credit
    <3> QED BY <1>0, <1>i, <3>1, <3>2, CountingKept
  <2>2. CASE /\ rdr' = [rdr EXCEPT !.pc = IF rdr.ready THEN "recv" ELSE "sleep"]
             /\ nitems' = IF rdr.ready THEN nitems ELSE nitems - 1
    <3>1. PICK p \in ReadPcs : /\ p = IF rdr.ready THEN "recv" ELSE "sleep"
                               /\ rdr' = [rdr EXCEPT !.pc = p]
      BY <2>2 DEF ReadPcs
    <3>2. rdr'.pc = p /\ rdr.pc = "loop" /\ queue' = queue
      BY <1>7, <3>1, PcDoes DEF ReadMarked, ring
    <3>3. CASE rdr.ready
      <4>1. Credit = 1 /\ Credit' = 1 /\ nitems' = nitems
        BY <2>2, <3>1, <3>2, <3>3 DEF Credit
      <4> QED BY <1>0, <1>i, <3>2, <4>1, CountingKept
    <3>4. CASE ~rdr.ready
      <4>1. Credit = 1 /\ Credit' = 0 /\ nitems' = nitems - 1
        BY <2>2, <3>1, <3>2, <3>4 DEF Credit
      <4> QED BY <1>0, <1>i, <3>2, <4>1, CountingKept
    <3> QED BY <3>3, <3>4
  <2> QED BY <1>7, <2>1, <2>2 DEF ReadMarked
<1>8. ASSUME rdr.pc = "recv", rdr'.pc = "loop", UNCHANGED <<queue, nitems>>
      PROVE  Counting'
  <2>1. Credit = 1 /\ Credit' = 1
    BY <1>8 DEF Credit
  <2> QED BY <1>0, <1>i, <1>8, <2>1, CountingKept
<1>9. CASE RecvAgain
  BY <1>8, <1>9, AgainDoes DEF RecvAgain, ring
<1>10. CASE RecvDoorbell
  <2>1. rdr'.pc = "loop"
    BY <1>10, PcDoes DEF RecvDoorbell, ReadPcs
  <2> QED BY <1>8, <1>10, <2>1 DEF RecvDoorbell, ring
<1>11. CASE RecvDatagram
  <2>1. rdr'.pc = "loop"
    <3>1. CASE rdr.from > 0 /\ rdr' = [rdr EXCEPT !.pc = "loop", !.from = @ - 1]
      BY <3>1, UseDoes
    <3>2. CASE rdr.from = 0
      BY <1>11, <3>2, SuspendFree, SuspendDoes DEF RecvDatagram
    <3> QED BY <1>11, <3>1, <3>2 DEF RecvDatagram
  <2> QED BY <1>8, <1>11, <2>1 DEF RecvDatagram, ring
<1> QED BY <1>1, <1>2, <1>3, <1>4, <1>5, <1>6, <1>7, <1>9, <1>10, <1>11 DEF ReadStep

\* A step of the reader that uses as many markers as datagrams.
LEMMA BalanceKept ==
  ASSUME Types, Types', Balance, UNCHANGED <<req, faults>>,
         (Hits(queue', Len(queue'), {ReadSocket}) + Asked')
           - (Hits(queue, Len(queue), {ReadSocket}) + Asked) =
         (Hits(sock', Len(sock'), Real) + Aside')
           - (Hits(sock, Len(sock), Real) + Aside)
  PROVE  Balance'
<1>1. Cardinality(Owing)' = Cardinality(Owing) /\ Cardinality(Owing) \in Nat
  BY SetsStay
<1>2. /\ Asked \in Nat /\ Aside \in Nat
      /\ Hits(queue, Len(queue), {ReadSocket}) \in Nat
      /\ Hits(sock, Len(sock), Real) \in Nat
  BY NumberTypes
<1>3. /\ Hits(sock, Len(sock), Real)' = Hits(sock', Len(sock'), Real)
      /\ Hits(queue, Len(queue), {ReadSocket})' = Hits(queue', Len(queue'), {ReadSocket})
  BY DEF Hits, Real, ReadSocket, Msg
<1>4. /\ Asked' \in Nat /\ Aside' \in Nat
      /\ Hits(queue', Len(queue'), {ReadSocket}) \in Nat
      /\ Hits(sock', Len(sock'), Real) \in Nat
  <2>1. Len(queue') \in Nat /\ Len(sock') \in Nat /\ rdr'.from \in Nat
    BY RdrParts DEF Types
  <2>2. Asked' \in Nat /\ Aside' \in Nat
    BY <2>1 DEF Asked, Aside
  <2> QED BY <2>1, <2>2, HitsType
<1>5. /\ Markers = Hits(queue, Len(queue), {ReadSocket}) + Asked
      /\ Markers' = Hits(queue', Len(queue'), {ReadSocket}) + Asked'
  BY <1>3 DEF Markers
<1>6. /\ Arriving = Hits(sock, Len(sock), Real) + Aside + Cardinality(Owing)
      /\ Arriving' = Hits(sock', Len(sock'), Real) + Aside' + Cardinality(Owing)
  BY <1>1, <1>3 DEF Arriving
<1>7. /\ Markers \in Nat /\ Arriving \in Nat /\ Markers' \in Nat /\ Arriving' \in Nat
      /\ Markers' - Markers = Arriving' - Arriving
  <2>1. PICK a, b, c, d, e, f, g, h, n :
          /\ a = Hits(queue, Len(queue), {ReadSocket}) /\ b = Asked
          /\ c = Hits(sock, Len(sock), Real) /\ d = Aside
          /\ e = Hits(queue', Len(queue'), {ReadSocket}) /\ f = Asked'
          /\ g = Hits(sock', Len(sock'), Real) /\ h = Aside'
          /\ n = Cardinality(Owing)
    OBVIOUS
  <2>2. /\ a \in Nat /\ b \in Nat /\ c \in Nat /\ d \in Nat /\ e \in Nat
        /\ f \in Nat /\ g \in Nat /\ h \in Nat /\ n \in Nat
    BY <1>1, <1>2, <1>4, <2>1
  <2>3. (e + f) - (a + b) = (g + h) - (c + d)
    BY <2>1
  <2>4. /\ Markers = a + b /\ Arriving = c + d + n
        /\ Markers' = e + f /\ Arriving' = g + h + n
    BY <1>5, <1>6, <2>1
  <2> QED BY <2>2, <2>3, <2>4
<1> QED BY <1>7 DEF Balance

\* What is asked for and set aside, from the reader's locals.
LEMMA AskedIs ==
  /\ rdr.pc \notin Hands => Asked = rdr.from + 0
  /\ rdr.pc \in Hands => Asked = rdr.from + (IF rdr.item = ReadSocket THEN 1 ELSE 0)
  /\ rdr'.pc \notin Hands => Asked' = rdr'.from + 0
  /\ rdr'.pc \in Hands =>
       Asked' = rdr'.from + (IF rdr'.item = ReadSocket THEN 1 ELSE 0)
  /\ Aside = IF rdr.smsg = ReadSocket THEN 0 ELSE 1
  /\ Aside' = IF rdr'.smsg = ReadSocket THEN 0 ELSE 1
BY DEF Asked, Aside, ReadSocket, Msg, Hands

LEMMA BalanceRead ==
  ASSUME Types, Types', Reading, Balance, ReadStep
  PROVE  Balance'
<1>0. UNCHANGED <<req, faults>>
  BY DEF ReadStep, ReadEvent, ReadQueueItem, ReadRelease, ReadSecond, ReadUncount,
         ReadItem, ReadMarked, RecvAgain, RecvDoorbell, RecvDatagram
<1>n. /\ Asked \in Nat /\ Aside \in Nat
      /\ Hits(queue, Len(queue), {ReadSocket}) \in Nat
      /\ Hits(sock, Len(sock), Real) \in Nat
      /\ rdr.from \in Nat
  BY NumberTypes
<1>n2. /\ Hits(queue', Len(queue'), {ReadSocket}) \in Nat
       /\ Hits(sock', Len(sock'), Real) \in Nat
  <2>1. Len(queue') \in Nat /\ Len(sock') \in Nat
    BY DEF Types
  <2> QED BY <2>1, HitsType
<1>a. Asked' \in Nat /\ Aside' \in Nat
  <2>1. rdr'.from \in Nat
    BY RdrParts DEF Types
  <2> QED BY <2>1 DEF Asked, Aside
<1>1. ASSUME UNCHANGED <<queue, sock>>, rdr'.from = rdr.from, rdr'.smsg = rdr.smsg,
             \/ rdr.pc \notin Hands /\ rdr'.pc \notin Hands
             \/ rdr.pc \in Hands /\ rdr'.pc \in Hands /\ rdr'.item = rdr.item
      PROVE  Balance'
  <2>1. Asked' = Asked /\ Aside' = Aside
    BY <1>1, AskedIs
  <2> QED BY <1>0, <1>1, <1>n, <2>1, BalanceKept
<1>2. CASE ReadEvent
  BY <1>1, <1>2, EventDoes DEF ReadEvent, ring, Hands
<1>3. ASSUME queue # <<>>, Dequeue, UNCHANGED sock, rdr'.item = queue[1],
             rdr'.from = rdr.from, rdr'.smsg = rdr.smsg,
             rdr.pc \notin Hands, rdr'.pc \in Hands
      PROVE  Balance'
  <2>1. Hits(queue, Len(queue), {ReadSocket}) =
          Hits(queue', Len(queue'), {ReadSocket})
            + (IF queue[1] \in {ReadSocket} THEN 1 ELSE 0)
    BY <1>3, HitsTailed DEF Types, Dequeue
  <2>2. Asked' = Asked + (IF queue[1] = ReadSocket THEN 1 ELSE 0)
    BY <1>3, <1>n, AskedIs
  <2>3. Aside' = Aside
    BY <1>3, AskedIs
  <2>4. Hits(queue', Len(queue'), {ReadSocket}) + Asked' =
          Hits(queue, Len(queue), {ReadSocket}) + Asked + 0
    BY <1>n, <1>n2, <2>1, <2>2
  <2>5. Hits(sock', Len(sock'), Real) + Aside' = Hits(sock, Len(sock), Real) + Aside + 0
    BY <1>3, <1>n, <2>3
  <2> QED BY <1>0, <1>n, <1>a, <2>4, <2>5, BalanceKept
<1>4. CASE ReadQueueItem
  <2>1. CASE queue # <<>> /\ Dequeue
             /\ rdr' = [rdr EXCEPT !.pc = "taken", !.item = Head(queue)]
    <3>1. /\ rdr'.pc = "taken" /\ rdr'.item = queue[1] /\ rdr'.from = rdr.from
          /\ rdr'.smsg = rdr.smsg
      BY <2>1, TakeDoes DEF ReadPcs
    <3> QED BY <1>3, <1>4, <2>1, <3>1 DEF ReadQueueItem, Hands
  <2>2. CASE UNCHANGED <<queue, head>>
             /\ rdr' = [rdr EXCEPT !.pc = IF rdr.ready THEN "recv" ELSE "release"]
    <3>1. PICK p \in ReadPcs : p \in {"recv", "release"} /\ rdr' = [rdr EXCEPT !.pc = p]
      BY <2>2 DEF ReadPcs
    <3>2. /\ rdr'.pc = p /\ rdr'.from = rdr.from /\ rdr'.smsg = rdr.smsg
      BY <3>1, PcDoes
    <3> QED BY <1>1, <1>4, <2>2, <3>1, <3>2 DEF ReadQueueItem, Hands
  <2> QED BY <1>4, <2>1, <2>2 DEF ReadQueueItem
<1>5. CASE ReadRelease
  <2>1. rdr.pc = "release" /\ rdr'.pc = "second" /\ queue' = queue /\ sock' = sock
        /\ rdr'.from = rdr.from /\ rdr'.smsg = rdr.smsg
    BY <1>5, PcDoes DEF ReadRelease, ReadPcs, ring
  <2> QED BY <1>1, <2>1 DEF Hands
<1>6. CASE ReadSecond
  <2>1. CASE queue # <<>> /\ Dequeue
             /\ rdr' = [rdr EXCEPT !.pc = "uncount", !.item = Head(queue)]
    <3>1. /\ rdr'.pc = "uncount" /\ rdr'.item = queue[1] /\ rdr'.from = rdr.from
          /\ rdr'.smsg = rdr.smsg
      BY <2>1, TakeDoes DEF ReadPcs
    <3> QED BY <1>3, <1>6, <2>1, <3>1 DEF ReadSecond, Hands
  <2>2. CASE UNCHANGED <<queue, head>> /\ rdr' = [rdr EXCEPT !.pc = "sleep"]
    <3>1. /\ rdr'.pc = "sleep" /\ rdr'.from = rdr.from /\ rdr'.smsg = rdr.smsg
      BY <2>2, PcDoes DEF ReadPcs
    <3> QED BY <1>1, <1>6, <2>2, <3>1 DEF ReadSecond, Hands
  <2> QED BY <1>6, <2>1, <2>2 DEF ReadSecond
<1>7. CASE ReadUncount
  <2>1. rdr.pc = "uncount" /\ rdr'.pc = "recredit" /\ queue' = queue /\ sock' = sock
        /\ rdr'.from = rdr.from /\ rdr'.smsg = rdr.smsg /\ rdr'.item = rdr.item
    BY <1>7, PcDoes DEF ReadUncount, ReadPcs, ring
  <2> QED BY <1>1, <2>1 DEF Hands
<1>8. CASE ReadItem
  <2>1. /\ rdr.pc \in {"taken", "recredit"} /\ rdr'.pc = "loop"
        /\ rdr'.from = (IF rdr.item = ReadSocket THEN rdr.from + 1 ELSE rdr.from)
        /\ rdr'.smsg = rdr.smsg /\ queue' = queue /\ sock' = sock
    BY <1>8, ItemDoes DEF ReadItem, ring
  <2>2. Asked = rdr.from + (IF rdr.item = ReadSocket THEN 1 ELSE 0)
    BY <2>1, AskedIs DEF Hands
  <2>3. Asked' = rdr'.from + 0 /\ Aside' = Aside
    BY <2>1, AskedIs DEF Hands
  <2>4. Asked' = Asked
    BY <1>n, <2>1, <2>2, <2>3
  <2> QED BY <1>0, <1>n, <2>1, <2>3, <2>4, BalanceKept
<1>9. CASE ReadMarked
  <2>0. rdr.pc = "loop" /\ rdr.from > 0 /\ queue' = queue /\ sock' = sock
    BY <1>9 DEF ReadMarked, ring
  <2>1. CASE rdr.smsg # ReadSocket
             /\ rdr' = [rdr EXCEPT !.smsg = ReadSocket, !.from = @ - 1]
    <3>1. rdr'.pc = rdr.pc /\ rdr'.from = rdr.from - 1 /\ rdr'.smsg = ReadSocket
      BY <2>0, <2>1, AsideDoes
    <3>2. Asked' = Asked - 1 /\ Aside' = Aside - 1
      <4>1. Asked = rdr.from + 0 /\ Asked' = rdr'.from + 0 /\ Aside = 1 /\ Aside' = 0
        BY <2>0, <2>1, <3>1, AskedIs DEF Hands
      <4> QED BY <1>n, <3>1, <4>1
    <3>3. Hits(queue', Len(queue'), {ReadSocket}) + Asked' =
            Hits(queue, Len(queue), {ReadSocket}) + Asked + (-1)
      BY <1>n, <2>0, <3>2
    <3>4. Hits(sock', Len(sock'), Real) + Aside' =
            Hits(sock, Len(sock), Real) + Aside + (-1)
      BY <1>n, <2>0, <3>2
    <3> QED BY <1>0, <1>n, <1>a, <3>3, <3>4, BalanceKept
  <2>2. CASE rdr' = [rdr EXCEPT !.pc = IF rdr.ready THEN "recv" ELSE "sleep"]
    <3>1. PICK p \in ReadPcs : p \in {"recv", "sleep"} /\ rdr' = [rdr EXCEPT !.pc = p]
      BY <2>2 DEF ReadPcs
    <3>2. /\ rdr'.pc = p /\ rdr'.from = rdr.from /\ rdr'.smsg = rdr.smsg
      BY <3>1, PcDoes
    <3> QED BY <1>1, <2>0, <3>1, <3>2 DEF Hands
  <2> QED BY <1>9, <2>1, <2>2 DEF ReadMarked
<1>10. CASE RecvAgain
  BY <1>1, <1>10, AgainDoes DEF RecvAgain, ring, Hands
<1>11. CASE RecvDoorbell
  <2>1. rdr.pc = "recv" /\ rdr'.pc = "loop" /\ rdr'.from = rdr.from
        /\ rdr'.smsg = rdr.smsg /\ queue' = queue
    BY <1>11, PcDoes DEF RecvDoorbell, ReadPcs, ring
  <2>2. Asked' = Asked /\ Aside' = Aside
    BY <2>1, AskedIs DEF Hands
  <2>3. sock # <<>> /\ sock' = Tail(sock) /\ Head(sock) = ReadQueue
        /\ sock \in Seq(Datagrams)
    BY <1>11 DEF RecvDoorbell, Types
  <2>4. sock[1] \notin Real
    BY <2>3, Tailed, Marks
  <2>5. Hits(sock, Len(sock), Real) =
          Hits(sock', Len(sock'), Real) + (IF sock[1] \in Real THEN 1 ELSE 0)
    BY <2>3, HitsTailed
  <2>6. Hits(sock', Len(sock'), Real) + Aside' = Hits(sock, Len(sock), Real) + Aside + 0
    BY <1>n, <1>n2, <2>2, <2>4, <2>5
  <2>7. Hits(queue', Len(queue'), {ReadSocket}) + Asked' =
          Hits(queue, Len(queue), {ReadSocket}) + Asked + 0
    BY <1>n, <2>1, <2>2
  <2> QED BY <1>0, <1>n, <1>a, <2>6, <2>7, BalanceKept
<1>12. CASE RecvDatagram
  <2>0. rdr.pc = "recv" /\ sock # <<>> /\ sock' = Tail(sock) /\ Head(sock) # ReadQueue
        /\ sock \in Seq(Datagrams) /\ queue' = queue
    BY <1>12 DEF RecvDatagram, Types, ring
  <2>1. sock[1] \in Real
    BY <2>0, Tailed, ItemParts
  <2>2. Hits(sock, Len(sock), Real) =
          Hits(sock', Len(sock'), Real) + (IF sock[1] \in Real THEN 1 ELSE 0)
    BY <2>0, HitsTailed
  <2>3. Hits(sock', Len(sock'), Real) = Hits(sock, Len(sock), Real) - 1
    BY <1>n, <1>n2, <2>1, <2>2
  <2>4. CASE rdr.from > 0 /\ rdr' = [rdr EXCEPT !.pc = "loop", !.from = @ - 1]
    <3>1. rdr'.pc = "loop" /\ rdr'.from = rdr.from - 1 /\ rdr'.smsg = rdr.smsg
      BY <2>4, UseDoes
    <3>2. Asked = rdr.from + 0 /\ Asked' = rdr'.from + 0 /\ Aside' = Aside
      BY <2>0, <3>1, AskedIs DEF Hands
    <3>3. Hits(queue', Len(queue'), {ReadSocket}) + Asked' =
            Hits(queue, Len(queue), {ReadSocket}) + Asked + (-1)
      BY <1>n, <2>0, <3>1, <3>2
    <3>4. Hits(sock', Len(sock'), Real) + Aside' =
            Hits(sock, Len(sock), Real) + Aside + (-1)
      BY <1>n, <2>3, <3>2
    <3> QED BY <1>0, <1>n, <1>a, <3>3, <3>4, BalanceKept
  <2>5. CASE rdr.from = 0
    <3>1. rdr'.pc = "loop" /\ rdr'.from = rdr.from /\ rdr'.smsg = sock[1]
      BY <1>12, <2>0, <2>5, SuspendFree, SuspendDoes
    <3>2. rdr.smsg = ReadSocket /\ rdr'.smsg # ReadSocket
      BY <2>0, <2>1, <3>1, RealParts DEF Reading
    <3>3. Asked' = Asked /\ Aside = 0 /\ Aside' = 1
      BY <2>0, <3>1, <3>2, AskedIs DEF Hands
    <3>4. Hits(queue', Len(queue'), {ReadSocket}) + Asked' =
            Hits(queue, Len(queue), {ReadSocket}) + Asked + 0
      BY <1>n, <2>0, <3>3
    <3>5. Hits(sock', Len(sock'), Real) + Aside' =
            Hits(sock, Len(sock), Real) + Aside + 0
      BY <1>n, <2>3, <3>3
    <3> QED BY <1>0, <1>n, <1>a, <3>4, <3>5, BalanceKept
  <2> QED BY <1>12, <2>4, <2>5 DEF RecvDatagram
<1> QED BY <1>2, <1>4, <1>5, <1>6, <1>7, <1>8, <1>9, <1>10, <1>11, <1>12 DEF ReadStep


-----------------------------------------------------------------------------
(* No wake-up is lost.                                                     *)

LEMMA WakeInit == Init => Reading /\ Counting /\ Balance /\ Rung
<1> SUFFICES ASSUME Init
             PROVE  Reading /\ Counting /\ Balance /\ Rung
  OBVIOUS
<1>1. /\ queue = <<>> /\ sock = <<>> /\ nitems = 0 /\ Len(queue) = 0 /\ Len(sock) = 0
      /\ rdr.pc = "sleep" /\ rdr.ready = FALSE /\ rdr.from = 0
      /\ rdr.smsg = ReadSocket /\ rdr.item = ReadSocket
  BY DEF Init, Rdr
<1>2. \A r \in Reqs : req[r].pc = "idle"
  BY DEF Init, NewReq
<1>3. Uncounted = {} /\ Owing = {}
  BY <1>2 DEF Uncounted, Owing
<1>4. Cardinality(Uncounted) = 0 /\ Cardinality(Owing) = 0
  BY <1>3, FS_EmptySet
<1>5. Hits(queue, Len(queue), {ReadSocket}) = 0 /\ Hits(sock, Len(sock), Real) = 0
  BY <1>1, HitsType
<1>6. Asked = 0 /\ Aside = 0 /\ Credit = 0
  BY <1>1 DEF Asked, Aside, Credit, Hands
<1>7. Reading
  BY <1>1 DEF Reading, Hands, Ends
<1>8. Counting
  BY <1>1, <1>4, <1>6 DEF Counting
<1>9. Balance
  BY <1>4, <1>5, <1>6 DEF Balance, Markers, Arriving
<1>10. Rung
  BY <1>1 DEF Rung
<1> QED BY <1>7, <1>8, <1>9, <1>10

LEMMA WakeKept ==
  ASSUME WakeInv, Sending, [Next]_vars
  PROVE  WakeInv' /\ Sending'
<1> USE DEF WakeInv
<1>1. ASSUME NEW r \in Reqs, SendStep(r) \/ SendDatagramFails(r) \/ Killed(r)
      PROVE  WakeInv' /\ Sending'
  BY <1>1, TypesSend, SendingSend, ReadingSend, CountingSend, BalanceSend, RungSend
<1>2. CASE ReadStep
  <2>1. Types' /\ Reading' /\ Counting' /\ Rung'
    BY <1>2, TypesRead, ReadingRead, CountingRead, RungRead
  <2>2. Balance'
    BY <1>2, <2>1, BalanceRead
  <2>3. req' = req
    BY <1>2 DEF ReadStep, ReadEvent, ReadQueueItem, ReadRelease, ReadSecond, ReadUncount,
         ReadItem, ReadMarked, RecvAgain, RecvDoorbell, RecvDatagram
  <2>4. Sending'
    BY <2>3 DEF Sending, SendingAt, Real
  <2> QED BY <2>1, <2>2, <2>4
<1>3. CASE UNCHANGED vars
  <2>1. /\ UNCHANGED <<queue, sock, rdr>> /\ UNCHANGED req /\ faults' = faults
        /\ nitems' = nitems /\ edge' = edge
    BY <1>3 DEF vars, ring
  <2>2. Types' /\ Reading'
    BY <1>3 DEF vars, ring, Types, Reading, Items, Datagrams, Real, ReqSet, RdrSet,
                ReadSocket, ReadQueue, Msg, Positions, Hands, Ends
  <2>3. Counting' /\ Balance'
    BY <2>1, NumbersStay, SetsStay DEF Counting, Balance, Markers, Arriving
  <2>4. Rung' /\ Sending'
    BY <2>1 DEF Rung, Sending, SendingAt, Real
  <2> QED BY <2>2, <2>3, <2>4
<1> QED BY <1>1, <1>2, <1>3 DEF Next

\* What the numbers say of a reader that sleeps.
LEMMA WakeWoken == WakeInv => Woken
<1> SUFFICES ASSUME WakeInv, faults = 0, rdr.pc = "sleep", ~edge,
                    queue # <<>> \/ sock # <<>>,
                    \A r \in Reqs : req[r].pc \notin {"tail", "count", "bell", "dgram"}
             PROVE  FALSE
  BY DEF Woken
<1>1. Types /\ Reading /\ Counting /\ Balance /\ Rung
  BY DEF WakeInv
<1>2. sock = <<>> /\ rdr.smsg = ReadSocket
  BY <1>1 DEF Reading, Ends
<1>3. queue \in Seq(Items) /\ queue # <<>>
  BY <1>1, <1>2 DEF Types
<1>4. Len(queue) \in Nat \ {0} /\ Len(sock) = 0
  BY <1>2, <1>3
<1>5. Uncounted = {} /\ Owing = {}
  BY DEF Uncounted, Owing
<1>6. Cardinality(Uncounted) = 0 /\ Cardinality(Owing) = 0
  BY <1>5, FS_EmptySet
<1>7. Hits(sock, Len(sock), Real) = 0 /\ Aside = 0
  BY <1>2, <1>4, HitsType DEF Aside
<1>8. Markers = 0
  BY <1>1, <1>6, <1>7 DEF Balance, Arriving
<1>9. rdr.from = 0
  <2>1. Asked = rdr.from + 0
    BY DEF Asked, Hands
  <2> QED BY <1>1, <1>8, <2>1, NumberTypes DEF Markers
<1>10. nitems > 0
  <2>1. Credit = 0
    BY DEF Credit
  <2> QED BY <1>1, <1>4, <1>6, <2>1 DEF Counting
<1> QED BY <1>1, <1>9, <1>10 DEF Rung

\* The reader of a port does not sleep while something that it could read is in
\* the queue or the socket, unless a process is about to count, ring or send:
\* nitems, which nxt_port_queue_send_pos() and nxt_port_queue_read_handler()
\* change at different times, never misses a doorbell.  For any number of
\* processes and any sizes of the queue and the socket.
THEOREM WakeupsKept == Spec => []Woken
<1>1. Init => WakeInv /\ Sending
  BY TypesInit, SendingInit, WakeInit DEF WakeInv
<1>2. WakeInv /\ Sending /\ [Next]_vars => WakeInv' /\ Sending'
  BY WakeKept
<1>3. WakeInv /\ Sending => Woken
  BY WakeWoken
<1> QED BY <1>1, <1>2, <1>3, PTL DEF Spec


-----------------------------------------------------------------------------
(* The tail and the positions of items.                                    *)

\* A position, some steps further or one back.
LEMMA Further ==
  ASSUME NEW h \in Positions, NEW d \in -1..(Wrap - 1)
  PROVE  /\ (h + d) % Wrap \in Positions
         /\ (h + d) % Wrap \in {h + d, h + d - Wrap, h + d + Wrap}
<1>1. h + d \in Int /\ -Wrap <= h + d /\ h + d < 2 * Wrap
  BY WrapNat DEF Positions
<1>2. PICK x \in Int : x = h + d
  BY <1>1
<1>3. PICK y : y = x % Wrap
  OBVIOUS
<1>4. y \in Positions /\ (y = x \/ y = x - Wrap \/ y = x + Wrap)
  BY <1>1, <1>2, <1>3, ModSmall, ModType, WrapNat
<1>5. y = (h + d) % Wrap
  BY <1>2, <1>3
<1>6. y = h + d \/ y = h + d - Wrap \/ y = h + d + Wrap
  BY <1>2, <1>4, WrapNat DEF Positions
<1>7. y \in {h + d, h + d - Wrap, h + d + Wrap}
  BY <1>6
<1> QED BY <1>4, <1>5, <1>7

LEMMA FarIs ==
  ASSUME NEW h \in Positions, NEW t \in Positions
  PROVE  Far(h, t) \in -1..(Wrap - 2) /\ t = (h + Far(h, t)) % Wrap
<1>1. t - h \in Int /\ -Wrap <= t - h /\ t - h < Wrap
  BY WrapNat DEF Positions
<1>2. PICK x \in Int : x = t - h
  BY <1>1
<1>3. PICK y : y = x % Wrap
  OBVIOUS
<1>4. y \in Positions /\ (y = x \/ y = x + Wrap)
  BY <1>1, <1>2, <1>3, ModSmall, ModType, WrapNat
<1>5. PICK d : d = Far(h, t)
  OBVIOUS
<1>6. d = IF y = Wrap - 1 THEN -1 ELSE y
  BY <1>2, <1>3, <1>5 DEF Far
<1>7. d \in -1..(Wrap - 2) /\ (h + d = t \/ h + d = t + Wrap \/ h + d = t - Wrap)
  BY <1>2, <1>4, <1>6, WrapNat DEF Positions
<1>8. PICK z \in Int : z = h + d
  BY <1>7, WrapNat DEF Positions
<1>9. z % Wrap = t
  <2>1. t \in 0..(Wrap - 1) /\ (z = t \/ z = t + Wrap \/ z = t - Wrap)
    BY <1>7, <1>8 DEF Positions
  <2> QED BY <2>1, ModSmall, WrapNat
<1> QED BY <1>5, <1>7, <1>8, <1>9

\* Two distances to one position are the same.
LEMMA FarOne ==
  ASSUME NEW h \in Positions, NEW d \in -1..(Wrap - 2), NEW e \in -1..(Wrap - 2),
         (h + d) % Wrap = (h + e) % Wrap
  PROVE  d = e
<1>1. /\ (h + d) % Wrap \in {h + d, h + d - Wrap, h + d + Wrap}
      /\ (h + e) % Wrap \in {h + e, h + e - Wrap, h + e + Wrap}
  BY Further, WrapNat
<1>2. PICK x, y : x = (h + d) % Wrap /\ y = (h + e) % Wrap
  OBVIOUS
<1>3. /\ x = h + d \/ x = h + d - Wrap \/ x = h + d + Wrap
      /\ y = h + e \/ y = h + e - Wrap \/ y = h + e + Wrap
      /\ x = y
  BY <1>1, <1>2
<1> QED BY <1>3, WrapNat DEF Positions

LEMMA FarFrom ==
  ASSUME NEW h \in Positions, NEW d \in -1..(Wrap - 2)
  PROVE  Far(h, (h + d) % Wrap) = d
<1>1. (h + d) % Wrap \in Positions
  BY Further, WrapNat
<1> QED BY <1>1, FarIs, FarOne

\* Going further in two steps.
LEMMA FurtherTwice ==
  ASSUME NEW h \in Positions, NEW d \in -1..(Wrap - 1), NEW e \in -1..(Wrap - 1),
         d + e \in -1..(Wrap - 1)
  PROVE  (((h + d) % Wrap) + e) % Wrap = (h + (d + e)) % Wrap
<1>1. PICK x : x = (h + d) % Wrap
  OBVIOUS
<1>2. x \in Positions /\ (x = h + d \/ x = h + d - Wrap \/ x = h + d + Wrap)
  BY <1>1, Further
<1>3. PICK y : y = (x + e) % Wrap
  OBVIOUS
<1>4. y \in Positions /\ (y = x + e \/ y = x + e - Wrap \/ y = x + e + Wrap)
  BY <1>2, <1>3, Further
<1>5. PICK z : z = (h + (d + e)) % Wrap
  OBVIOUS
<1>6. z \in Positions
      /\ (z = h + (d + e) \/ z = h + (d + e) - Wrap \/ z = h + (d + e) + Wrap)
  BY <1>5, Further
<1>7. y = z
  BY <1>2, <1>4, <1>6, WrapNat DEF Positions
<1> QED BY <1>1, <1>3, <1>5, <1>7

LEMMA RingTypes ==
  ASSUME Types
  PROVE  /\ Dist \in -1..(Wrap - 2) /\ tail = (head + Dist) % Wrap
         /\ Cardinality(Tailing) \in Nat /\ Len(queue) \in Nat
         /\ Len(queue) <= QueueSize
         /\ \A r \in Reqs : req[r].pc = "tail" => Cardinality(Tailing) >= 1
<1>1. Tailing \in SUBSET Reqs
  BY DEF Tailing
<1>2. IsFiniteSet(Tailing) /\ Cardinality(Tailing) \in Nat
  BY <1>1, FS_Subset, FS_CardinalityType, PortQueueAssumption
<1>3. ASSUME NEW r \in Reqs, req[r].pc = "tail"
      PROVE  Cardinality(Tailing) >= 1
  <2>1. r \in Tailing
    BY <1>3 DEF Tailing
  <2>2. Cardinality(Tailing) # 0
    BY <1>2, <2>1, FS_EmptySet
  <2> QED BY <1>2, <2>2
<1>4. Dist \in -1..(Wrap - 2) /\ tail = (head + Dist) % Wrap
  BY FarIs DEF Types, Dist
<1> QED BY <1>2, <1>3, <1>4 DEF Types

\* A process that publishes sets the tail to the position of its item ...
LEMMA RingPublish ==
  ASSUME Types, Types', Ring, NEW r \in Reqs, QueuePublish(r)
  PROVE  Ring' /\ Dist' = Len(queue)
<1>1. Only(r) /\ req'[r].pc = "tail" /\ req[r].pc = "publish"
  BY PublishDoes DEF QueuePublish
<1>2. Len(queue) \in Nat /\ Len(queue) < QueueSize /\ Len(queue') = Len(queue) + 1
  <2>1. PICK m : queue' = Append(queue, m)
    BY DEF QueuePublish
  <2> QED BY <2>1 DEF QueuePublish, Types
<1>3. head \in Positions /\ head' = head /\ tail' = (head + Len(queue)) % Wrap
  BY DEF QueuePublish, Types
<1>4. Len(queue) \in -1..(Wrap - 2)
  BY <1>2, WrapNat
<1>5. Dist' = Len(queue)
  BY <1>3, <1>4, FarFrom DEF Dist
<1>6. Cardinality(Tailing)' \in Nat /\ Cardinality(Tailing)' <= Cardinality(Reqs)
  BY <1>1, SetsMove
<1> QED BY <1>2, <1>5, <1>6, WrapNat DEF Ring

\* ... and moves it behind the item unless someone else did.
LEMMA RingTail ==
  ASSUME Types, Ring, NEW r \in Reqs, QueueTail(r)
  PROVE  /\ Ring' /\ Dist \in Int /\ Dist' \in Int /\ Dist <= Dist'
         /\ \A n \in 1..Len(queue) : req[r].pos = (head + n - 1) % Wrap => n <= Dist'
<1>1. Only(r) /\ req'[r].pc = "count" /\ req[r].pc = "tail"
  BY TailDoes DEF QueueTail
<1>2. queue' = queue /\ head' = head /\ head \in Positions /\ tail \in Positions
  BY DEF QueueTail, Types
<1>3. /\ Cardinality(Tailing) \in Nat /\ Cardinality(Tailing) >= 1
      /\ Cardinality(Tailing)' = Cardinality(Tailing) - 1
  BY <1>1, SetsMove, RingTypes
<1>4. /\ Len(queue) \in Nat /\ Len(queue) <= QueueSize /\ Len(queue') = Len(queue)
      /\ Dist \in -1..(Wrap - 2) /\ tail = (head + Dist) % Wrap
  BY <1>2, RingTypes
<1>5. /\ Len(queue) - 1 <= Dist
      /\ Dist + Cardinality(Tailing) <= Len(queue) + Cardinality(Reqs)
  BY DEF Ring
<1>6. Dist + 1 \in -1..(Wrap - 2) /\ Dist \in Int
  BY <1>3, <1>4, <1>5, WrapNat
<1>7. CASE tail = req[r].pos
  <2>1. tail' = (tail + 1) % Wrap
    BY <1>7 DEF QueueTail
  <2>2. tail' = (head + (Dist + 1)) % Wrap
    <3>1. PICK d \in -1..(Wrap - 1), e \in -1..(Wrap - 1) : d = Dist /\ e = 1
      BY <1>4, WrapNat
    <3>2. d + e \in -1..(Wrap - 1)
      BY <1>6, <3>1, WrapNat
    <3>3. (((head + d) % Wrap) + e) % Wrap = (head + (d + e)) % Wrap
      BY <1>2, <3>2, FurtherTwice
    <3> QED BY <1>4, <2>1, <3>1, <3>3
  <2>3. Dist' = Dist + 1
    BY <1>2, <1>6, <2>2, FarFrom DEF Dist
  <2>4. ASSUME NEW n \in 1..Len(queue), req[r].pos = (head + n - 1) % Wrap
        PROVE  n <= Dist'
    <3>1. head + n - 1 = head + (n - 1) /\ n - 1 \in -1..(Wrap - 2)
      BY <1>2, <1>4, WrapNat DEF Positions
    <3>2. Dist = n - 1
      BY <1>2, <1>4, <1>7, <2>4, <3>1, FarOne
    <3> QED BY <1>4, <2>3, <3>2
  <2>5. Ring'
    BY <1>3, <1>4, <1>5, <1>6, <2>3, WrapNat DEF Ring
  <2> QED BY <1>6, <2>3, <2>4, <2>5
<1>8. CASE tail # req[r].pos
  <2>1. tail' = tail
    BY <1>8 DEF QueueTail
  <2>2. Dist' = Dist
    BY <1>2, <2>1 DEF Dist
  <2>3. ASSUME NEW n \in 1..Len(queue), req[r].pos = (head + n - 1) % Wrap
        PROVE  n <= Dist'
    <3>1. head + n - 1 = head + (n - 1)
      BY <1>2, <1>4, WrapNat DEF Positions
    <3>2. Dist # n - 1
      BY <1>4, <1>8, <2>3, <3>1
    <3> QED BY <1>4, <1>5, <2>2, <3>2
  <2>4. Ring'
    BY <1>3, <1>4, <1>5, <1>6, <2>2, WrapNat DEF Ring
  <2> QED BY <1>6, <2>2, <2>3, <2>4
<1> QED BY <1>7, <1>8

\* The reader takes the first item.
LEMMA RingDequeue ==
  ASSUME Types, Ring, UNCHANGED <<tail, req>>, queue # <<>>, Dequeue
  PROVE  Ring' /\ Dist \in Int /\ Dist' = Dist - 1
<1>1. /\ Len(queue) \in Nat \ {0} /\ Len(queue') = Len(queue) - 1
      /\ head' = (head + 1) % Wrap /\ head \in Positions /\ head' \in Positions
  BY DequeueDoes DEF Types
<1>2. Dist \in -1..(Wrap - 2) /\ tail = (head + Dist) % Wrap /\ Len(queue) - 1 <= Dist
  BY RingTypes DEF Ring
<1>3. Dist - 1 \in -1..(Wrap - 2) /\ Dist = 1 + (Dist - 1) /\ Dist \in Int
  BY <1>1, <1>2, WrapNat
<1>4. tail = (head' + (Dist - 1)) % Wrap
  <2>1. PICK d \in -1..(Wrap - 1), e \in -1..(Wrap - 1) : d = 1 /\ e = Dist - 1
    BY <1>3, WrapNat
  <2>2. d + e \in -1..(Wrap - 1) /\ d + e = Dist
    BY <1>2, <1>3, <2>1, WrapNat
  <2>3. (((head + d) % Wrap) + e) % Wrap = (head + (d + e)) % Wrap
    BY <1>1, <2>2, FurtherTwice
  <2> QED BY <1>1, <1>2, <2>1, <2>2, <2>3
<1>5. Dist' = Dist - 1
  BY <1>1, <1>3, <1>4, FarFrom DEF Dist
<1>6. Cardinality(Tailing)' = Cardinality(Tailing) /\ Cardinality(Tailing) \in Nat
  BY SetsStay
<1> QED BY <1>1, <1>2, <1>3, <1>5, <1>6, WrapNat DEF Ring

\* The other steps of a process.
LEMMA RingStays ==
  ASSUME Types, Ring, UNCHANGED ring,
         UNCHANGED req \/ \E r \in Reqs : Only(r) /\ req'[r].pc # "tail"
  PROVE  Ring' /\ Dist' = Dist
<1>1. Dist' = Dist /\ Len(queue') = Len(queue)
  BY DEF ring, Dist
<1>2. Cardinality(Tailing)' \in Nat /\ Cardinality(Tailing)' <= Cardinality(Tailing)
  <2>1. CASE UNCHANGED req
    BY <2>1, SetsStay
  <2>2. ASSUME NEW r \in Reqs, Only(r), req'[r].pc # "tail"
        PROVE  Cardinality(Tailing)' \in Nat
               /\ Cardinality(Tailing)' <= Cardinality(Tailing)
    BY <2>2, SetsMove
  <2> QED BY <2>1, <2>2
<1>3. Cardinality(Tailing) \in Nat /\ Dist \in Int /\ Len(queue) \in Nat
  BY RingTypes
<1> QED BY <1>1, <1>2, <1>3, WrapNat DEF Ring


\* What leaves the last item of a process where it is.
LEMMA LastKept ==
  ASSUME NEW r, NEW p, NEW h, NEW q, Len(q) \in Nat, NEW d \in Int, NEW pc, NEW loaded,
         Last(r, p, q, h, d, pc, loaded),
         NEW q2, Len(q2) \in Nat, Len(q) <= Len(q2), NEW d2 \in Int, NEW pc2, NEW loaded2,
         \A i \in 1..Len(q2) : q2[i].r = r => i <= Len(q) /\ q[i].r = r,
         pc2 # "tail" => \/ pc # "tail" /\ d <= d2
                         \/ \A n \in 1..Len(q) : p = (h + n - 1) % Wrap => n <= d2,
         pc2 = "window" => pc = "window" /\ loaded2 = loaded
  PROVE  Last(r, p, q2, h, d2, pc2, loaded2)
<1> SUFFICES ASSUME NEW i \in 1..Len(q2), q2[i].r = r
             PROVE  \E n \in i..Len(q2) :
                      /\ p = (h + n - 1) % Wrap
                      /\ pc2 # "tail" => n <= d2
                      /\ pc2 = "window" =>
                           \E e \in 0..(QueueSize - n) : h = (loaded2 + e) % Wrap
  BY DEF Last
<1>1. i \in 1..Len(q) /\ q[i].r = r
  OBVIOUS
<1>2. PICK n \in i..Len(q) :
        /\ p = (h + n - 1) % Wrap
        /\ pc # "tail" => n <= d
        /\ pc = "window" => \E e \in 0..(QueueSize - n) : h = (loaded + e) % Wrap
  BY <1>1 DEF Last
<1>3. n \in i..Len(q2) /\ n \in 1..Len(q)
  BY <1>1
<1>4. pc2 # "tail" => n <= d2
  BY <1>2, <1>3
<1>5. pc2 = "window" => \E e \in 0..(QueueSize - n) : h = (loaded2 + e) % Wrap
  BY <1>2
<1> QED BY <1>2, <1>3, <1>4, <1>5

LEMMA LastNew ==
  ASSUME NEW r, NEW S, NEW q \in Seq(S), NEW m \in S, NEW h \in Positions, NEW d,
         NEW loaded
  PROVE  Last(r, (h + Len(q)) % Wrap, Append(q, m), h, d, "tail", loaded)
<1>1. Len(Append(q, m)) = Len(q) + 1 /\ Len(q) \in Nat
  OBVIOUS
<1>2. h + (Len(q) + 1) - 1 = h + Len(q)
  BY <1>1, WrapNat DEF Positions
<1>3. ASSUME NEW i \in 1..(Len(q) + 1)
      PROVE  \E n \in i..(Len(q) + 1) : (h + Len(q)) % Wrap = (h + n - 1) % Wrap
  <2>1. Len(q) + 1 \in i..(Len(q) + 1)
    BY <1>1
  <2> QED BY <1>2, <2>1
<1> QED BY <1>1, <1>3 DEF Last

LEMMA LastWindow ==
  ASSUME NEW r, NEW p, NEW q, Len(q) \in Nat, Len(q) <= QueueSize,
         NEW h \in Positions, NEW d, NEW loaded, Last(r, p, q, h, d, "taken", loaded)
  PROVE  Last(r, p, q, h, d, "window", h)
<1> SUFFICES ASSUME NEW i \in 1..Len(q), q[i].r = r
             PROVE  \E n \in i..Len(q) :
                      /\ p = (h + n - 1) % Wrap
                      /\ n <= d
                      /\ \E e \in 0..(QueueSize - n) : h = (h + e) % Wrap
  BY DEF Last
<1>1. PICK n \in i..Len(q) : p = (h + n - 1) % Wrap /\ n <= d
  BY DEF Last
<1>2. 0 \in 0..(QueueSize - n)
  BY WrapNat
<1>3. h = (h + 0) % Wrap
  <2>1. h \in Int /\ 0 <= h /\ h < Wrap /\ h + 0 = h
    BY WrapNat DEF Positions
  <2> QED BY <2>1, ModSmall
<1> QED BY <1>1, <1>2, <1>3

LEMMA LastDequeue ==
  ASSUME NEW r, NEW p, NEW S, NEW q \in Seq(S), q # <<>>, Len(q) <= QueueSize,
         NEW h \in Positions, NEW d \in Int, NEW pc, NEW loaded \in Positions,
         Last(r, p, q, h, d, pc, loaded)
  PROVE  Last(r, p, Tail(q), (h + 1) % Wrap, d - 1, pc, loaded)
<1> DEFINE t == Tail(q)
<1>1. /\ Len(t) = Len(q) - 1 /\ Len(q) \in Nat \ {0}
      /\ \A i \in 1..(Len(q) - 1) : t[i] = q[i + 1]
  BY Tailed
<1> HIDE DEF t
<1> SUFFICES ASSUME NEW i \in 1..Len(t), t[i].r = r
             PROVE  \E n \in i..Len(t) :
                      /\ p = (((h + 1) % Wrap) + n - 1) % Wrap
                      /\ pc # "tail" => n <= d - 1
                      /\ pc = "window" => \E e \in 0..(QueueSize - n) :
                           (h + 1) % Wrap = (loaded + e) % Wrap
  BY DEF Last, t
<1>2. i + 1 \in 1..Len(q) /\ q[i + 1].r = r
  BY <1>1
<1>3. PICK n \in (i + 1)..Len(q) :
        /\ p = (h + n - 1) % Wrap
        /\ pc # "tail" => n <= d
        /\ pc = "window" => \E e \in 0..(QueueSize - n) : h = (loaded + e) % Wrap
  BY <1>2 DEF Last
<1>4. n \in Nat /\ n <= QueueSize /\ i \in Nat /\ n >= i + 1 /\ i >= 1
  BY <1>1, WrapNat
<1>5. n - 1 \in i..Len(t)
  BY <1>1, <1>4
<1>6. p = (((h + 1) % Wrap) + (n - 1) - 1) % Wrap
  <2>1. PICK a \in -1..(Wrap - 1), b \in -1..(Wrap - 1) : a = 1 /\ b = n - 2
    BY <1>4, WrapNat
  <2>2. a + b \in -1..(Wrap - 1) /\ h + (a + b) = h + n - 1
    BY <1>4, <2>1, WrapNat DEF Positions
  <2>3. (((h + a) % Wrap) + b) % Wrap = (h + (a + b)) % Wrap
    BY <2>2, FurtherTwice
  <2>4. PICK x \in Positions : x = (h + 1) % Wrap
    BY Further, WrapNat
  <2>5. x + b = x + (n - 1) - 1
    BY <1>4, <2>1, WrapNat DEF Positions
  <2> QED BY <1>3, <2>1, <2>2, <2>3, <2>4, <2>5
<1>7. pc # "tail" => n - 1 <= d - 1
  BY <1>3, <1>4
<1>8. ASSUME pc = "window"
      PROVE  \E e \in 0..(QueueSize - (n - 1)) : (h + 1) % Wrap = (loaded + e) % Wrap
  <2>1. PICK e \in 0..(QueueSize - n) : h = (loaded + e) % Wrap
    BY <1>3, <1>8
  <2>2. e + 1 \in 0..(QueueSize - (n - 1))
    BY <1>4, WrapNat
  <2>3. PICK a \in -1..(Wrap - 1), b \in -1..(Wrap - 1) : a = e /\ b = 1
    BY <1>4, WrapNat
  <2>4. a + b \in -1..(Wrap - 1)
    BY <1>4, <2>3, WrapNat
  <2>5. (((loaded + a) % Wrap) + b) % Wrap = (loaded + (a + b)) % Wrap
    BY <2>4, FurtherTwice
  <2>6. (h + 1) % Wrap = (loaded + (e + 1)) % Wrap
    BY <2>1, <2>3, <2>5
  <2> QED BY <2>2, <2>6
<1>9. PICK k : k = n - 1
  OBVIOUS
<1> QED BY <1>5, <1>6, <1>7, <1>8, <1>9

\* nxt_port_queue_taken() does not miss an item that is still in the queue,
\* however many the reader took between its two loads and however far the
\* senders moved the tail.
LEMMA NotTaken ==
  ASSUME Types, Ring, NEW r \in Reqs, req[r].pc = "window",
         LastAt(r, req[r].queue_pos), Taken(r)
  PROVE  NoItem(r)
<1> SUFFICES ASSUME NEW i \in 1..Len(queue), queue[i].r = r
             PROVE  FALSE
  BY DEF NoItem, Without
<1>1. /\ Len(queue) \in Nat /\ Len(queue) <= QueueSize /\ head \in Positions
      /\ Dist \in -1..(Wrap - 2) /\ tail = (head + Dist) % Wrap
      /\ Dist <= Len(queue) + Cardinality(Reqs) /\ Dist \in Int
  <2>1. Cardinality(Tailing) \in Nat /\ Dist \in Int
    BY RingTypes
  <2> QED BY <2>1, RingTypes, WrapNat DEF Ring, Types
<1>2. req[r].head \in Positions
  BY ReqParts DEF Types
<1>3. PICK n \in i..Len(queue) :
        /\ req[r].queue_pos = (head + n - 1) % Wrap /\ n <= Dist
        /\ \E e \in 0..(QueueSize - n) : head = (req[r].head + e) % Wrap
  BY DEF LastAt, Last
<1>4. PICK e \in 0..(QueueSize - n) : head = (req[r].head + e) % Wrap
  BY <1>3
<1>5. /\ n \in Nat /\ n >= 1 /\ e \in Nat /\ n + e <= QueueSize
      /\ e + Dist \in 0..(Wrap - 1) /\ e + (n - 1) \in 0..(Wrap - 1)
  <2>1. i \in Nat /\ i >= 1 /\ n \in Nat /\ n >= 1 /\ QueueSize \in Nat /\ Wrap \in Nat
    BY <1>1, WrapNat
  <2>2. e \in Nat /\ n + e <= QueueSize
    BY <2>1
  <2>3. PICK c \in Nat : c = Cardinality(Reqs) /\ 2 * QueueSize + c < Wrap
    BY WrapNat
  <2>4. Dist \in Int /\ n <= Dist /\ Dist <= Len(queue) + c
    BY <1>1, <1>3, <2>3
  <2> QED BY <1>1, <2>1, <2>2, <2>3, <2>4
<1>6. ASSUME NEW h \in Positions, NEW a \in 0..(Wrap - 1)
      PROVE  (((h + a) % Wrap) - h) % Wrap = a
  <2>1. PICK x : x = (h + a) % Wrap
    OBVIOUS
  <2>2. x \in Positions /\ (x = h + a \/ x = h + a - Wrap \/ x = h + a + Wrap)
    BY <2>1, Further, WrapNat
  <2>3. PICK y \in Int : y = x - h
    BY <2>2, WrapNat DEF Positions
  <2>4. y = a \/ y = a - Wrap
    BY <2>2, <2>3, WrapNat DEF Positions
  <2>5. y % Wrap = a
    <3>1. /\ 0 <= y /\ y < Wrap => y % Wrap = y
          /\ -Wrap <= y /\ y < 0 => y % Wrap = y + Wrap
      BY ModSmall
    <3>2. Wrap \in Nat /\ a \in Nat /\ a < Wrap
      BY WrapNat
    <3>3. CASE y = a
      BY <3>1, <3>2, <3>3
    <3>4. CASE y = a - Wrap
      BY <3>1, <3>2, <3>4
    <3> QED BY <2>4, <3>3, <3>4
  <2> QED BY <2>1, <2>3, <2>5
<1>7. (tail - req[r].head) % Wrap = e + Dist
  <2>1. PICK a \in -1..(Wrap - 1), b \in -1..(Wrap - 1) : a = e /\ b = Dist
    BY <1>1, <1>5, WrapNat
  <2>2. a + b \in -1..(Wrap - 1) /\ a + b \in 0..(Wrap - 1)
    BY <1>5, <2>1
  <2>3. tail = (req[r].head + (a + b)) % Wrap
    BY <1>1, <1>2, <1>4, <2>1, <2>2, FurtherTwice
  <2> QED BY <1>2, <1>6, <2>1, <2>2, <2>3
<1>8. (req[r].queue_pos - req[r].head) % Wrap = e + (n - 1)
  <2>1. PICK a \in -1..(Wrap - 1), b \in -1..(Wrap - 1) : a = e /\ b = n - 1
    BY <1>1, <1>5, WrapNat
  <2>2. a + b \in -1..(Wrap - 1) /\ a + b \in 0..(Wrap - 1) /\ head + b = head + n - 1
    BY <1>1, <1>5, <2>1, WrapNat DEF Positions
  <2>3. req[r].queue_pos = (req[r].head + (a + b)) % Wrap
    BY <1>2, <1>3, <1>4, <2>1, <2>2, FurtherTwice
  <2> QED BY <1>2, <1>6, <2>1, <2>2, <2>3
<1>9. PICK w : w = e + Dist
  OBVIOUS
<1>10. e + (n - 1) >= IF w > QueueSize THEN QueueSize ELSE w
  BY <1>7, <1>8, <1>9 DEF Taken
<1> QED BY <1>1, <1>3, <1>5, <1>9, <1>10, WrapNat


-----------------------------------------------------------------------------
(* The places of the items of a request.                                   *)

LEMMA PlaceKept ==
  ASSUME NEW s \in Reqs, PlaceOf(s), req'[s] = req[s],
         \A p : LastAt(s, p) =>
           Last(s, p, queue', head', Dist', req[s].pc, req[s].head),
         NoItem(s) => Without(s, queue')
  PROVE  PlaceOf(s)'
<1> DEFINE q == req[s]
<1>1. req'[s] = q
  OBVIOUS
<1>2. \A p : Last(s, p, queue, head, Dist, q.pc, q.head) =>
             Last(s, p, queue', head', Dist', q.pc, q.head)
  BY DEF LastAt
<1>3. PlaceOf(s)' <=>
        /\ (q.pc = "idle" \/ (q.pc = "publish" /\ q.queue)) /\ ~q.done
           /\ q.state = "queued" =>
             Last(s, q.queue_pos, queue', head', Dist', q.pc, q.head)
        /\ (q.pc = "idle" \/ (q.pc = "publish" /\ q.queue)) /\ ~q.done
           /\ q.state # "queued" => Without(s, queue')
        /\ q.pc \in {"taken", "window"} =>
             Last(s, q.queue_pos, queue', head', Dist', q.pc, q.head)
        /\ q.pc \in {"publish", "tail", "count", "dgram"} /\ ~q.queue /\ ~q.msg.err =>
             Without(s, queue') /\ q.state \in {"unqueued", "socket"}
        /\ q.pc \in {"tail", "count", "bell"} /\ q.queue /\ ~q.done =>
             Last(s, q.pos, queue', head', Dist', q.pc, q.head)
        /\ q.pc \in {"publish", "tail", "count", "bell"} /\ q.queue /\ ~q.done =>
             q.state \in {"unqueued", "queued"}
  BY <1>1 DEF PlaceOf, Rests, LastAt, NoItem
<1>4. /\ (q.pc = "idle" \/ (q.pc = "publish" /\ q.queue)) /\ ~q.done
           /\ q.state = "queued" =>
             Last(s, q.queue_pos, queue, head, Dist, q.pc, q.head)
      /\ (q.pc = "idle" \/ (q.pc = "publish" /\ q.queue)) /\ ~q.done
           /\ q.state # "queued" => Without(s, queue)
      /\ q.pc \in {"taken", "window"} =>
             Last(s, q.queue_pos, queue, head, Dist, q.pc, q.head)
      /\ q.pc \in {"publish", "tail", "count", "dgram"} /\ ~q.queue /\ ~q.msg.err =>
             Without(s, queue) /\ q.state \in {"unqueued", "socket"}
      /\ q.pc \in {"tail", "count", "bell"} /\ q.queue /\ ~q.done =>
             Last(s, q.pos, queue, head, Dist, q.pc, q.head)
      /\ q.pc \in {"publish", "tail", "count", "bell"} /\ q.queue /\ ~q.done =>
             q.state \in {"unqueued", "queued"}
  BY DEF PlaceOf, Rests, LastAt, NoItem
<1> HIDE DEF q
<1>5. Without(s, queue) => Without(s, queue')
  BY DEF NoItem
<1> QED BY <1>2, <1>3, <1>4, <1>5

\* A request whose process does something else than publish.
LEMMA LastStays ==
  ASSUME Types, UNCHANGED ring, NEW s \in Reqs, NEW p, LastAt(s, p),
         NEW pc, NEW loaded, req[s].pc # "tail" \/ pc = "tail",
         pc = "window" => req[s].pc = "window" /\ loaded = req[s].head
  PROVE  Last(s, p, queue', head', Dist', pc, loaded)
<1>1. queue' = queue /\ head' = head /\ Dist' = Dist
  BY DEF ring, Dist
<1>2. Len(queue) \in Nat /\ Dist \in Int
  BY RingTypes
<1>3. Last(s, p, queue, head, Dist, req[s].pc, req[s].head)
  BY DEF LastAt
<1>4. pc # "tail" => req[s].pc # "tail" /\ Dist <= Dist
  BY <1>2
<1>5. Last(s, p, queue, head, Dist, pc, loaded)
  BY <1>2, <1>3, <1>4, LastKept
<1> QED BY <1>1, <1>5

LEMMA PlacesOthers ==
  ASSUME Types, UNCHANGED ring, Places, NEW r \in Reqs, Only(r)
  PROVE  \A s \in Reqs \ {r} : PlaceOf(s)'
<1> SUFFICES ASSUME NEW s \in Reqs \ {r}
             PROVE  PlaceOf(s)'
  OBVIOUS
<1>1. PlaceOf(s) /\ req'[s] = req[s]
  BY DEF Places, Only
<1>2. ASSUME NEW p, LastAt(s, p)
      PROVE  Last(s, p, queue', head', Dist', req[s].pc, req[s].head)
  BY <1>2, LastStays
<1>3. NoItem(s) => Without(s, queue')
  BY DEF ring, NoItem
<1> QED BY <1>1, <1>2, <1>3, PlaceKept

LEMMA PlacesMove ==
  ASSUME NEW r \in Reqs, PlaceOf(r)', \A s \in Reqs \ {r} : PlaceOf(s)'
  PROVE  Places'
BY DEF Places

\* nxt_unit_req_send() decides from queue_state; a request that may still have
\* items in the queue sends to the queue or waits for them.
LEMMA PlaceReqSend ==
  ASSUME Types, Places, NEW r \in Reqs, NEW fits \in BOOLEAN, NEW shm_ok \in BOOLEAN,
         NEW last \in BOOLEAN, ReqSend(r, fits, shm_ok, last)
  PROVE  PlaceOf(r)'
<1>1. UNCHANGED ring /\ req[r].pc = "idle" /\ ~req[r].done /\ req[r].state # "failed"
  BY DEF ReqSend
<1>2. req[r].state \in QueueStates
  BY ReqParts DEF Types
<1>3. /\ req[r].state = "queued" => LastAt(r, req[r].queue_pos)
      /\ req[r].state # "queued" => NoItem(r)
  BY <1>1 DEF Places, PlaceOf, Rests
<1>4. NoItem(r)' <=> NoItem(r)
  BY <1>1 DEF ring, NoItem
<1>5. CASE ToQueue(r, fits, shm_ok, last)
  <2>1. /\ req'[r].pc = "publish" /\ req'[r].queue = TRUE /\ req'[r].done = last
        /\ req'[r].state = req[r].state /\ req'[r].queue_pos = req[r].queue_pos
    BY <1>5, ReqSendDoes
  <2>2. ~last => req[r].state \in {"unqueued", "queued"}
    BY <1>5 DEF ToQueue
  <2>3. req[r].state = "queued" => LastAt(r, req[r].queue_pos)'
    <3>1. req[r].state = "queued" =>
            Last(r, req[r].queue_pos, queue', head', Dist', "publish", req'[r].head)
      BY <1>1, <1>3, LastStays
    <3> QED BY <2>1, <3>1 DEF LastAt
  <2> QED BY <1>3, <1>4, <2>1, <2>2, <2>3 DEF PlaceOf, Rests
<1>6. CASE ~ToQueue(r, fits, shm_ok, last) /\ req[r].state = "queued"
  <2>1. /\ req'[r].pc = "taken" /\ req'[r].queue_pos = req[r].queue_pos
    BY <1>6, ReqSendDoes
  <2>2. LastAt(r, req[r].queue_pos)'
    <3>1. Last(r, req[r].queue_pos, queue', head', Dist', "taken", req'[r].head)
      BY <1>1, <1>3, <1>6, LastStays
    <3> QED BY <2>1, <3>1 DEF LastAt
  <2> QED BY <2>1, <2>2 DEF PlaceOf, Rests
<1>7. CASE ~ToQueue(r, fits, shm_ok, last) /\ req[r].state # "queued"
  <2>0. req'[r].queue = ToQueue(r, fits, shm_ok, last)
    BY ReqSendDoes
  <2>1. /\ req'[r].pc = "publish" /\ ~req'[r].queue
        /\ req'[r].state = req[r].state
    BY <1>7, <2>0, ReqSendDoes
  <2>2. req[r].state \in {"unqueued", "socket"}
    BY <1>1, <1>2, <1>7 DEF QueueStates
  <2> QED BY <1>3, <1>4, <1>7, <2>1, <2>2 DEF PlaceOf, Rests
<1> QED BY <1>5, <1>6, <1>7

LEMMA PlaceQuiet ==
  ASSUME Types, Ring, Places, Sending, NEW r \in Reqs, Quiet(r)
  PROVE  PlaceOf(r)'
<1>1. PlaceOf(r) /\ SendingAt(r)
  BY DEF Places, Sending
<1>2. UNCHANGED ring
  BY QuietDoes DEF SharedButFaults
<1>3. NoItem(r)' <=> NoItem(r)
  BY <1>2 DEF ring, NoItem
<1>4. CASE PlainBuf(r)
  <2>1. /\ req[r].pc = "idle" /\ ~req[r].done /\ req[r].state = "unqueued"
        /\ req'[r].pc = "idle" /\ req'[r].state = "socket"
    BY <1>4, PlainBufDoes DEF PlainBuf
  <2>2. NoItem(r)
    BY <1>1, <2>1 DEF PlaceOf, Rests
  <2> QED BY <1>3, <2>1, <2>2 DEF PlaceOf, Rests
<1>5. CASE TakenHead(r)
  <2>1. /\ req[r].pc = "taken" /\ req'[r].pc = "window" /\ req'[r].head = head
        /\ req'[r].queue_pos = req[r].queue_pos
    BY <1>5, TakenHeadDoes DEF TakenHead
  <2>2. Last(r, req[r].queue_pos, queue, head, Dist, "taken", req[r].head)
    BY <1>1, <2>1 DEF PlaceOf, LastAt
  <2>3. Last(r, req[r].queue_pos, queue, head, Dist, "window", head)
    BY <2>2, LastWindow, RingTypes DEF Types
  <2>4. queue' = queue /\ head' = head /\ Dist' = Dist
    BY <1>2 DEF ring, Dist
  <2>5. LastAt(r, req[r].queue_pos)'
    BY <2>1, <2>3, <2>4 DEF LastAt
  <2> QED BY <2>1, <2>5 DEF PlaceOf, Rests
<1>6. CASE Drain(r)
  <2>1. req[r].pc = "window" /\ LastAt(r, req[r].queue_pos)
    BY <1>1, <1>6 DEF Drain, PlaceOf
  <2>2. req[r].queue = FALSE /\ req[r].state = "queued"
    <3>1. req[r].queue \in BOOLEAN
      BY ReqParts DEF Types
    <3> QED BY <1>1, <2>1, <3>1 DEF SendingAt
  <2>3. CASE Taken(r)
    <3>1. req'[r].pc = "publish" /\ req'[r].state = "socket" /\ req'[r].queue = FALSE
      BY <1>6, <2>2, <2>3, DrainDoes
    <3>2. NoItem(r)'
      BY <1>3, <2>1, <2>3, NotTaken
    <3> QED BY <3>1, <3>2 DEF PlaceOf, Rests
  <2>4. CASE ~Taken(r)
    <3>1. req'[r].pc = "taken" /\ req'[r].queue_pos = req[r].queue_pos
      BY <1>6, <2>4, DrainDoes
    <3>2. Last(r, req[r].queue_pos, queue', head', Dist', "taken", req'[r].head)
      BY <1>2, <2>1, LastStays
    <3>3. LastAt(r, req[r].queue_pos)'
      BY <3>1, <3>2 DEF LastAt
    <3> QED BY <3>1, <3>3 DEF PlaceOf, Rests
  <2> QED BY <2>3, <2>4
<1>7. CASE DrainFails(r)
  <2>1. /\ req'[r].pc = "publish" /\ req'[r].done = TRUE
        /\ req'[r].msg = Msg(r, req[r].sent + 1, TRUE, TRUE)
        /\ req'[r].queue = req[r].queue
    BY <1>7, DrainFailsDoes
  <2>2. req[r].queue = FALSE
    <3>1. req[r].queue \in BOOLEAN
      BY ReqParts DEF Types
    <3> QED BY <1>1, <1>7, <3>1 DEF SendingAt, DrainFails
  <2>3. req'[r].msg.err = TRUE
    BY <2>1 DEF Msg
  <2> QED BY <2>1, <2>2, <2>3 DEF PlaceOf, Rests
<1>8. CASE QueueOverflow(r)
  <2>1. /\ req[r].pc = "publish" /\ req'[r].pc = "idle" /\ req'[r].state = req[r].state
        /\ req'[r].done = req[r].done
        /\ ~req[r].done => req'[r].queue_pos = req[r].queue_pos
    BY <1>8, RestDoes DEF QueueOverflow
  <2>2. CASE req[r].done
    BY <2>1, <2>2 DEF PlaceOf, Rests
  <2>3. CASE ~req[r].done /\ req[r].queue
    <3>1. req[r].state = "queued" => LastAt(r, req[r].queue_pos)'
      <4>1. req[r].state = "queued" =>
              Last(r, req[r].queue_pos, queue', head', Dist', "idle", req'[r].head)
        <5>1. req[r].state = "queued" => LastAt(r, req[r].queue_pos)
          BY <1>1, <2>1, <2>3 DEF PlaceOf, Rests
        <5> QED BY <1>2, <2>1, <5>1, LastStays
      <4> QED BY <2>1, <2>3, <4>1 DEF LastAt
    <3>2. req[r].state # "queued" => NoItem(r)
      BY <1>1, <2>1, <2>3 DEF PlaceOf, Rests
    <3> QED BY <1>3, <2>1, <2>3, <3>1, <3>2 DEF PlaceOf, Rests
  <2>4. CASE ~req[r].done /\ ~req[r].queue
    <3>1. NoItem(r) /\ req[r].state \in {"unqueued", "socket"}
      BY <1>1, <2>1, <2>4 DEF PlaceOf, SendingAt
    <3> QED BY <1>3, <2>1, <2>4, <3>1 DEF PlaceOf, Rests
  <2> QED BY <2>2, <2>3, <2>4
<1>9. ASSUME NEW fits \in BOOLEAN, NEW shm_ok \in BOOLEAN, NEW last \in BOOLEAN,
             ReqSend(r, fits, shm_ok, last)
      PROVE  PlaceOf(r)'
  BY <1>9, PlaceReqSend
<1> QED BY <1>4, <1>5, <1>6, <1>7, <1>8, <1>9 DEF Quiet


LEMMA PlacesPublish ==
  ASSUME Types, Types', Ring, Places, Sending, NEW r \in Reqs, QueuePublish(r)
  PROVE  Places'
<1> DEFINE m == IF req[r].queue THEN req[r].msg ELSE ReadSocket
<1>1. PlaceOf(r) /\ SendingAt(r) /\ req[r].pc = "publish" /\ req[r] \in ReqSet
  BY DEF Places, Sending, QueuePublish, Types
<1>2. m \in Items /\ (m.r = r \/ m.r = NoReq) /\ (~req[r].queue => m.r = NoReq)
  BY <1>1, Marks, RealParts, ReqParts DEF SendingAt
<1>3. queue' = Append(queue, m) /\ head' = head /\ head \in Positions /\ queue \in Seq(Items)
  BY DEF QueuePublish, Types
<1> HIDE DEF m
<1>4. /\ Len(queue) \in Nat /\ Len(queue') = Len(queue) + 1
      /\ \A i \in 1..Len(queue) : queue'[i] = queue[i]
      /\ queue'[Len(queue) + 1] = m
  BY <1>2, <1>3, Appended
<1>5. Dist' = Len(queue) /\ Dist \in Int
  BY RingPublish, RingTypes
<1>6. ASSUME NEW s \in Reqs \ {r}
      PROVE  PlaceOf(s)'
  <2>1. PlaceOf(s) /\ req'[s] = req[s]
    BY PublishDoes DEF Places, Only
  <2>2. m.r # s
    BY <1>2, PortQueueAssumption
  <2>3. \A i \in 1..Len(queue') : queue'[i].r = s => i <= Len(queue) /\ queue[i].r = s
    BY <1>4, <2>2
  <2>4. NoItem(s) => Without(s, queue')
    BY <1>4, <2>3 DEF NoItem, Without
  <2>5. ASSUME NEW p, LastAt(s, p)
        PROVE  Last(s, p, queue', head', Dist', req[s].pc, req[s].head)
    <3>1. Last(s, p, queue, head, Dist, req[s].pc, req[s].head)
      BY <2>5 DEF LastAt
    <3>2. \A n \in 1..Len(queue) : p = (head + n - 1) % Wrap => n <= Dist'
      BY <1>4, <1>5
    <3>3. Len(queue') \in Nat /\ Len(queue) <= Len(queue') /\ Dist' \in Int
      BY <1>4, <1>5
    <3>4. Last(s, p, queue', head, Dist', req[s].pc, req[s].head)
      BY <1>4, <1>5, <2>3, <3>1, <3>2, <3>3, LastKept
    <3> QED BY <1>3, <3>4
  <2> QED BY <2>1, <2>4, <2>5, PlaceKept
<1>7. PlaceOf(r)'
  <2>1. /\ req'[r].pc = "tail" /\ req'[r].pos = (head + Len(queue)) % Wrap
        /\ req'[r].state = req[r].state /\ req'[r].msg = req[r].msg
        /\ req'[r].queue = req[r].queue /\ req'[r].done = req[r].done
    BY PublishDoes
  <2>2. CASE req[r].queue
    <3>1. Last(r, (head + Len(queue)) % Wrap, Append(queue, m), head, Dist', "tail",
               req'[r].head)
      BY <1>2, <1>3, LastNew
    <3>2. LastAt(r, req[r].pos)'
      BY <1>3, <2>1, <3>1 DEF LastAt
    <3>3. ~req[r].done => req[r].state \in {"unqueued", "queued"}
      BY <1>1, <2>2 DEF PlaceOf
    <3> QED BY <2>1, <2>2, <3>2, <3>3 DEF PlaceOf, Rests
  <2>3. CASE ~req[r].queue
    <3>1. ~req[r].msg.err => NoItem(r) /\ req[r].state \in {"unqueued", "socket"}
      BY <1>1, <2>3 DEF PlaceOf
    <3>2. NoItem(r) => NoItem(r)'
      <4>1. m.r # r
        BY <1>2, <2>3, PortQueueAssumption
      <4> QED BY <1>4, <4>1 DEF NoItem, Without
    <3> QED BY <2>1, <2>3, <3>1, <3>2 DEF PlaceOf, Rests
  <2> QED BY <2>2, <2>3
<1> QED BY <1>6, <1>7, PlacesMove

LEMMA PlacesTail ==
  ASSUME Types, Ring, Places, NEW r \in Reqs, QueueTail(r)
  PROVE  Places'
<1>1. PlaceOf(r) /\ req[r].pc = "tail" /\ queue' = queue /\ head' = head
  BY DEF Places, QueueTail
<1>2. /\ Len(queue) \in Nat /\ Dist \in Int /\ Dist' \in Int /\ Dist <= Dist'
      /\ \A n \in 1..Len(queue) : req[r].pos = (head + n - 1) % Wrap => n <= Dist'
  BY RingTail, RingTypes
<1>3. ASSUME NEW s \in Reqs \ {r}
      PROVE  PlaceOf(s)'
  <2>1. PlaceOf(s) /\ req'[s] = req[s]
    BY TailDoes DEF Places, Only
  <2>2. NoItem(s) => Without(s, queue')
    BY <1>1 DEF NoItem
  <2>3. ASSUME NEW p, LastAt(s, p)
        PROVE  Last(s, p, queue', head', Dist', req[s].pc, req[s].head)
    <3>1. Last(s, p, queue, head, Dist, req[s].pc, req[s].head)
      BY <2>3 DEF LastAt
    <3>2. Last(s, p, queue, head, Dist', req[s].pc, req[s].head)
      BY <1>2, <3>1, LastKept
    <3> QED BY <1>1, <3>2
  <2> QED BY <2>1, <2>2, <2>3, PlaceKept
<1>4. PlaceOf(r)'
  <2>1. /\ req'[r].pc = "count" /\ (req[r].queue => req'[r].pos = req[r].pos)
        /\ req'[r].state = req[r].state /\ req'[r].msg = req[r].msg
        /\ req'[r].queue = req[r].queue /\ req'[r].done = req[r].done
    BY TailDoes
  <2>2. CASE req[r].queue /\ ~req[r].done
    <3>1. /\ Last(r, req[r].pos, queue, head, Dist, "tail", req[r].head)
          /\ req[r].state \in {"unqueued", "queued"}
      BY <1>1, <2>2 DEF PlaceOf, LastAt
    <3>2. Last(r, req[r].pos, queue, head, Dist', "count", req'[r].head)
      BY <1>2, <3>1, LastKept
    <3>3. LastAt(r, req[r].pos)'
      BY <1>1, <2>1, <2>2, <3>2 DEF LastAt
    <3> QED BY <2>1, <2>2, <3>1, <3>3 DEF PlaceOf, Rests
  <2>3. CASE req[r].queue /\ req[r].done
    BY <2>1, <2>3 DEF PlaceOf, Rests
  <2>4. CASE ~req[r].queue
    <3>1. ~req[r].msg.err => NoItem(r) /\ req[r].state \in {"unqueued", "socket"}
      BY <1>1, <2>4 DEF PlaceOf
    <3>2. NoItem(r)' <=> NoItem(r)
      BY <1>1 DEF NoItem
    <3> QED BY <2>1, <2>4, <3>1, <3>2 DEF PlaceOf, Rests
  <2> QED BY <2>2, <2>3, <2>4
<1> QED BY <1>3, <1>4, PlacesMove

\* A message that is in the queue, once its process is through.
LEMMA PlaceInQueue ==
  ASSUME Types, UNCHANGED ring, NEW r \in Reqs, PlaceOf(r), req[r].queue,
         req[r].pc \in {"count", "bell"}, req' = [req EXCEPT ![r] = InQueue(@)]
  PROVE  PlaceOf(r)'
<1>1. /\ req'[r].pc = "idle" /\ req'[r].done = req[r].done
      /\ req'[r].state = (IF req[r].state = "unqueued" THEN "queued" ELSE req[r].state)
      /\ req[r].state \in {"unqueued", "queued"} /\ ~req[r].done =>
           req'[r].queue_pos = req[r].pos
  BY InQueueDoes
<1>2. CASE req[r].done
  BY <1>1, <1>2 DEF PlaceOf, Rests
<1>3. CASE ~req[r].done
  <2>1. LastAt(r, req[r].pos) /\ req[r].state \in {"unqueued", "queued"}
    BY <1>3 DEF PlaceOf
  <2>2. req'[r].state = "queued" /\ req'[r].queue_pos = req[r].pos
    BY <1>1, <1>3, <2>1
  <2>3. Last(r, req[r].pos, queue', head', Dist', "idle", req'[r].head)
    BY <2>1, LastStays
  <2>4. LastAt(r, req[r].queue_pos)'
    BY <1>1, <2>2, <2>3 DEF LastAt
  <2> QED BY <1>1, <2>2, <2>4 DEF PlaceOf, Rests
<1> QED BY <1>2, <1>3

\* A message that went to the socket, or was refused.
LEMMA PlaceRest ==
  ASSUME UNCHANGED ring, NEW r \in Reqs, PlaceOf(r), SendingAt(r),
         req[r].pc = "dgram", req'[r].pc = "idle", req'[r].state = req[r].state,
         req'[r].done = req[r].done
  PROVE  PlaceOf(r)'
<1>1. CASE req[r].done
  BY <1>1 DEF PlaceOf, Rests
<1>2. CASE ~req[r].done
  <2>1. NoItem(r) /\ req[r].state \in {"unqueued", "socket"}
    BY <1>2 DEF PlaceOf, SendingAt
  <2>2. NoItem(r)'
    BY <2>1 DEF NoItem, ring
  <2> QED BY <2>1, <2>2 DEF PlaceOf, Rests
<1> QED BY <1>1, <1>2

LEMMA PlaceCount ==
  ASSUME Types, Places, NEW r \in Reqs, QueueCount(r)
  PROVE  PlaceOf(r)'
<1>1. PlaceOf(r) /\ req[r].pc = "count" /\ UNCHANGED ring
  BY DEF Places, QueueCount
<1>2. CASE ~req[r].queue
  <2>1. /\ req'[r].pc = "dgram" /\ req'[r].state = req[r].state
        /\ req'[r].msg = req[r].msg /\ req'[r].queue = req[r].queue
    BY <1>2, CountDoes
  <2>2. ~req[r].msg.err => NoItem(r) /\ req[r].state \in {"unqueued", "socket"}
    BY <1>1, <1>2 DEF PlaceOf
  <2>3. NoItem(r)' <=> NoItem(r)
    BY <1>1 DEF NoItem, ring
  <2> QED BY <1>2, <2>1, <2>2, <2>3 DEF PlaceOf, Rests
<1>3. CASE req[r].queue /\ nitems = 0
  <2>1. /\ req'[r].pc = "bell" /\ req'[r].state = req[r].state
        /\ req'[r].queue = req[r].queue /\ req'[r].pos = req[r].pos
        /\ req'[r].done = req[r].done
    BY <1>3, CountDoes
  <2>2. ~req[r].done => LastAt(r, req[r].pos) /\ req[r].state \in {"unqueued", "queued"}
    BY <1>1, <1>3 DEF PlaceOf
  <2>3. ~req[r].done => Last(r, req[r].pos, queue', head', Dist', "bell", req'[r].head)
    BY <1>1, <2>2, LastStays
  <2>4. ~req[r].done => LastAt(r, req[r].pos)'
    BY <2>1, <2>3 DEF LastAt
  <2> QED BY <1>3, <2>1, <2>2, <2>4 DEF PlaceOf, Rests
<1>4. CASE req[r].queue /\ nitems # 0
  BY <1>1, <1>4, CountDoes, PlaceInQueue
<1> QED BY <1>2, <1>3, <1>4

LEMMA PlacesSend ==
  ASSUME Types, Types', Ring, Places, Sending, NEW r \in Reqs,
         SendStep(r) \/ SendDatagramFails(r) \/ Killed(r)
  PROVE  Ring' /\ Places'
<1>0. PlaceOf(r) /\ SendingAt(r)
  BY DEF Places, Sending
<1>a. ASSUME UNCHANGED ring, Only(r), req'[r].pc # "tail", PlaceOf(r)'
      PROVE  Ring' /\ Places'
  BY <1>a, RingStays, PlacesOthers, PlacesMove
<1>1. CASE Quiet(r)
  BY <1>1, <1>a, QuietDoes, PlaceQuiet DEF SharedButFaults, Before
<1>2. CASE SendDatagramFails(r)
  <2>1. UNCHANGED ring /\ req[r].pc = "dgram"
    BY <1>2 DEF SendDatagramFails
  <2>2. /\ Only(r) /\ req'[r].pc = "idle" /\ req'[r].state = req[r].state
        /\ req'[r].done = req[r].done
    BY <1>2, RestDoes DEF SendDatagramFails
  <2> QED BY <1>0, <1>a, <2>1, <2>2, PlaceRest
<1>3. CASE Killed(r)
  <2>1. UNCHANGED ring
    BY <1>3 DEF Killed
  <2>2. Only(r) /\ req'[r].pc = "dead"
    BY <1>3, KilledDoes
  <2>3. PlaceOf(r)'
    BY <2>2 DEF PlaceOf, Rests
  <2> QED BY <1>a, <2>1, <2>2, <2>3
<1>4. CASE QueuePublish(r)
  BY <1>4, RingPublish, PlacesPublish
<1>5. CASE QueueTail(r)
  BY <1>5, RingTail, PlacesTail
<1>6. CASE QueueCount(r)
  <2>1. UNCHANGED ring
    BY <1>6 DEF QueueCount
  <2>2. Only(r) /\ req'[r].pc # "tail"
    BY <1>6, CountDoes, InQueueDoes
  <2> QED BY <1>6, <1>a, <2>1, <2>2, PlaceCount
<1>7. CASE SendBell(r)
  <2>1. UNCHANGED ring /\ req[r].pc = "bell" /\ req' = [req EXCEPT ![r] = InQueue(@)]
    BY <1>7 DEF SendBell
  <2>2. Only(r) /\ req'[r].pc # "tail"
    BY <2>1, InQueueDoes
  <2>3. req[r].queue
    BY <1>0, <2>1 DEF SendingAt
  <2> QED BY <1>0, <1>a, <2>1, <2>2, <2>3, PlaceInQueue
<1>8. CASE SendDatagram(r)
  <2>1. UNCHANGED ring /\ req[r].pc = "dgram"
    BY <1>8 DEF SendDatagram
  <2>2. /\ Only(r) /\ req'[r].pc = "idle" /\ req'[r].state = req[r].state
        /\ req'[r].done = req[r].done
    BY <1>8, DatagramDoes
  <2> QED BY <1>0, <1>a, <2>1, <2>2, PlaceRest
<1> QED BY <1>1, <1>2, <1>3, <1>4, <1>5, <1>6, <1>7, <1>8, SendCases DEF Faulty

LEMMA PlacesDequeue ==
  ASSUME Types, Ring, Places, UNCHANGED <<tail, req>>, queue # <<>>, Dequeue
  PROVE  Ring' /\ Places'
<1>1. Ring' /\ Dist \in Int /\ Dist' = Dist - 1
  BY RingDequeue
<1>2. /\ queue \in Seq(Items) /\ Len(queue) <= QueueSize /\ head \in Positions
      /\ queue' = Tail(queue) /\ head' = (head + 1) % Wrap
  BY DEF Types, Dequeue
<1>3. ASSUME NEW s \in Reqs
      PROVE  PlaceOf(s)'
  <2>1. PlaceOf(s) /\ req'[s] = req[s] /\ req[s].head \in Positions
    BY ReqParts DEF Places, Types
  <2>2. NoItem(s) => Without(s, queue')
    BY DequeueDoes DEF NoItem, Without
  <2>3. ASSUME NEW p, LastAt(s, p)
        PROVE  Last(s, p, queue', head', Dist', req[s].pc, req[s].head)
    <3>1. Last(s, p, queue, head, Dist, req[s].pc, req[s].head)
      BY <2>3 DEF LastAt
    <3>2. Last(s, p, Tail(queue), (head + 1) % Wrap, Dist - 1, req[s].pc, req[s].head)
      BY <1>1, <1>2, <2>1, <3>1, LastDequeue
    <3> QED BY <1>1, <1>2, <3>2
  <2> QED BY <2>1, <2>2, <2>3, PlaceKept
<1> QED BY <1>1, <1>3 DEF Places

LEMMA PlacesStay ==
  ASSUME Types, Ring, Places, UNCHANGED ring, UNCHANGED req
  PROVE  Ring' /\ Places'
<1>1. Dist' = Dist
  BY DEF ring, Dist
<1> QED BY <1>1, RingStays DEF Places, PlaceOf, Rests, LastAt, NoItem, ring

LEMMA PlacesRead ==
  ASSUME Types, Ring, Places, ReadStep
  PROVE  Ring' /\ Places'
<1>1. UNCHANGED <<tail, req>>
  BY DEF ReadStep, ReadEvent, ReadQueueItem, ReadRelease, ReadSecond, ReadUncount,
         ReadItem, ReadMarked, RecvAgain, RecvDoorbell, RecvDatagram, ring
<1>2. UNCHANGED <<queue, head>> \/ (queue # <<>> /\ Dequeue)
  BY DEF ReadStep, ReadEvent, ReadQueueItem, ReadRelease, ReadSecond, ReadUncount,
         ReadItem, ReadMarked, RecvAgain, RecvDoorbell, RecvDatagram, ring
<1>3. CASE UNCHANGED <<queue, head>>
  BY <1>1, <1>3, PlacesStay DEF ring
<1> QED BY <1>1, <1>2, <1>3, PlacesDequeue

LEMMA PlacesInit == Init => Ring /\ Places
<1> SUFFICES ASSUME Init
             PROVE  Ring /\ Places
  OBVIOUS
<1>1. queue = <<>> /\ Len(queue) = 0 /\ head \in Positions /\ tail = head
  BY PortQueueAssumption DEF Init, Positions
<1>2. \A r \in Reqs : req[r].pc = "idle" /\ req[r].state \in {"unqueued", "socket"}
  BY DEF Init, NewReq
<1>3. Tailing = {}
  BY <1>2 DEF Tailing
<1>4. Cardinality(Tailing) = 0
  BY <1>3, FS_EmptySet
<1>5. Dist = 0
  <2>1. 0 \in -1..(Wrap - 2) /\ head + 0 = head /\ head \in Int /\ 0 <= head /\ head < Wrap
    BY <1>1, WrapNat DEF Positions
  <2>2. head % Wrap = head
    BY <2>1, ModSmall
  <2>3. Far(head, (head + 0) % Wrap) = 0
    BY <1>1, <2>1, FarFrom
  <2> QED BY <1>1, <2>1, <2>2, <2>3 DEF Dist
<1>6. Ring
  BY <1>1, <1>4, <1>5, WrapNat DEF Ring
<1>7. \A r \in Reqs : NoItem(r)
  BY <1>1 DEF NoItem, Without
<1> QED BY <1>2, <1>6, <1>7 DEF Places, PlaceOf, Rests


-----------------------------------------------------------------------------
(* The channel, one end at a time.                                         *)

\* t is s and m after it.
Longer(s, m, t) ==
  /\ Len(t) = Len(s) + 1 /\ Len(s) \in Nat
  /\ \A i \in 1..Len(s) : t[i] = s[i]
  /\ t[Len(s) + 1] = m

LEMMA LongerIs ==
  ASSUME NEW S, NEW s \in Seq(S), NEW m \in S
  PROVE  Longer(s, m, Append(s, m))
BY Appended DEF Longer

LEMMA AtAppend ==
  ASSUME NEW s, NEW m, NEW t, Longer(s, m, t)
  PROVE  /\ Len(t) = Len(s) + 1 /\ Len(s) \in Nat
         /\ \A x : \A i \in 0..Len(s) : At(x, t, i) = At(x, s, i)
         /\ \A x : \A i \in 0..Len(t) : i \in 0..Len(s) \/ (i > 0 /\ i - 1 = Len(s)
                                                            /\ At(x, t, i) = m)
         /\ \A n \in 0..Len(s) : \A T : Hits(t, n, T) = Hits(s, n, T)
<1>1. /\ Len(t) = Len(s) + 1 /\ Len(s) \in Nat
      /\ \A i \in 1..Len(s) : t[i] = s[i]
      /\ t[Len(s) + 1] = m
  BY DEF Longer
<1>2. \A i \in 0..Len(s) : i = 0 \/ i \in 1..Len(s)
  BY <1>1
<1>3. \A x : \A i \in 0..Len(s) : At(x, t, i) = At(x, s, i)
  BY <1>1, <1>2 DEF At
<1>4. ASSUME NEW x, NEW i \in 0..Len(t)
      PROVE  i \in 0..Len(s) \/ (i > 0 /\ i - 1 = Len(s) /\ At(x, t, i) = m)
  <2>1. i \in 0..Len(s) \/ (i = Len(s) + 1 /\ i > 0)
    BY <1>1
  <2> QED BY <1>1, <2>1 DEF At
<1>5. ASSUME NEW n \in 0..Len(s), NEW T
      PROVE  Hits(t, n, T) = Hits(s, n, T)
  <2>1. n \in Nat /\ \A i \in 1..n : t[i] = s[i]
    BY <1>1
  <2> QED BY <2>1, HitsSame
<1> QED BY <1>1, <1>3, <1>4, <1>5

LEMMA AtTail ==
  ASSUME NEW S, NEW s \in Seq(S), s # <<>>, NEW x
  PROVE  /\ Len(Tail(s)) = Len(s) - 1 /\ Len(s) \in Nat \ {0} /\ Len(Tail(s)) \in Nat
         /\ Head(s) = s[1] /\ s[1] \in S /\ Tail(s) \in Seq(S)
         /\ \A i \in 0..Len(Tail(s)) :
              /\ At(s[1], Tail(s), i) = At(x, s, i + 1) /\ i + 1 \in 1..Len(s)
              /\ i + 1 \in 0..Len(s)
<1>1. /\ Len(Tail(s)) = Len(s) - 1 /\ Len(s) \in Nat \ {0} /\ Tail(s) \in Seq(S)
      /\ \A i \in 1..(Len(s) - 1) : Tail(s)[i] = s[i + 1]
      /\ Head(s) = s[1] /\ s[1] \in S
  BY Tailed
<1>2. ASSUME NEW i \in 0..Len(Tail(s))
      PROVE  /\ At(s[1], Tail(s), i) = At(x, s, i + 1) /\ i + 1 \in 1..Len(s)
             /\ i + 1 \in 0..Len(s)
  <2>1. i \in 0..(Len(s) - 1) /\ i + 1 \in 1..Len(s) /\ i + 1 \in 0..Len(s) /\ i + 1 # 0
    BY <1>1
  <2>2. CASE i = 0
    BY <2>1, <2>2 DEF At
  <2>3. CASE i # 0
    <3>1. i \in 1..(Len(s) - 1)
      BY <2>1, <2>3
    <3> QED BY <1>1, <2>1, <2>3, <3>1 DEF At
  <2> QED BY <2>1, <2>2, <2>3
<1> QED BY <1>1, <1>2

LEMMA AtType ==
  ASSUME NEW S, NEW s \in Seq(S), NEW x \in S, NEW i \in 0..Len(s)
  PROVE  At(x, s, i) \in S
<1>1. i = 0 \/ i \in 1..Len(s)
  OBVIOUS
<1> QED BY <1>1 DEF At

LEMMA LineAppend ==
  ASSUME NEW s, NEW m, NEW t, Longer(s, m, t), NEW x, Line(x, s),
         m \in Real => \A i \in 0..Len(s) :
           At(x, s, i) \in Real /\ At(x, s, i).r = m.r => At(x, s, i).k < m.k
  PROVE  Line(x, t)
<1>1. /\ Len(t) = Len(s) + 1 /\ Len(s) \in Nat
      /\ \A i \in 0..Len(s) : At(x, t, i) = At(x, s, i)
      /\ \A i \in 0..Len(t) : i \in 0..Len(s) \/ (i > 0 /\ i - 1 = Len(s)
                                                  /\ At(x, t, i) = m)
  BY AtAppend
<1>2. ASSUME NEW i \in 0..Len(t), NEW j \in 0..Len(t), i < j, At(x, t, i) \in Real,
             At(x, t, j) \in Real, At(x, t, i).r = At(x, t, j).r
      PROVE  At(x, t, i).k < At(x, t, j).k
  <2>1. i \in 0..Len(s)
    BY <1>1, <1>2
  <2>2. CASE j \in 0..Len(s)
    <3>1. At(x, t, i) = At(x, s, i) /\ At(x, t, j) = At(x, s, j)
      BY <1>1, <2>1, <2>2
    <3> QED BY <1>2, <2>1, <2>2, <3>1 DEF Line
  <2>3. CASE j \notin 0..Len(s)
    <3>1. At(x, t, i) = At(x, s, i) /\ At(x, t, j) = m
      BY <1>1, <2>1, <2>3
    <3> QED BY <1>2, <2>1, <3>1
  <2> QED BY <2>2, <2>3
<1> QED BY <1>2 DEF Line

LEMMA LineDrop ==
  ASSUME NEW s, Len(s) \in Nat, NEW x, Line(x, s)
  PROVE  Line(ReadSocket, s)
<1>1. ASSUME NEW i \in 0..Len(s), NEW j \in 0..Len(s), i < j,
             At(ReadSocket, s, i) \in Real, At(ReadSocket, s, j) \in Real,
             At(ReadSocket, s, i).r = At(ReadSocket, s, j).r
      PROVE  At(ReadSocket, s, i).k < At(ReadSocket, s, j).k
  <2>1. i # 0 /\ j # 0
    BY <1>1, Marks DEF At
  <2>2. At(x, s, i) = At(ReadSocket, s, i) /\ At(x, s, j) = At(ReadSocket, s, j)
    BY <2>1 DEF At
  <2> QED BY <1>1, <2>2 DEF Line
<1> QED BY <1>1 DEF Line

LEMMA LineTail ==
  ASSUME NEW S, NEW s \in Seq(S), s # <<>>, NEW x, Line(x, s)
  PROVE  Line(Head(s), Tail(s))
<1> DEFINE t == Tail(s)
           y == s[1]
<1>1. /\ Len(t) = Len(s) - 1 /\ Len(s) \in Nat \ {0} /\ Head(s) = y
      /\ \A i \in 0..Len(t) : At(y, t, i) = At(x, s, i + 1) /\ i + 1 \in 0..Len(s)
  BY AtTail
<1> HIDE DEF t, y
<1>2. ASSUME NEW i \in 0..Len(t), NEW j \in 0..Len(t), i < j, At(y, t, i) \in Real,
             At(y, t, j) \in Real, At(y, t, i).r = At(y, t, j).r
      PROVE  At(y, t, i).k < At(y, t, j).k
  <2>1. i + 1 \in 0..Len(s) /\ j + 1 \in 0..Len(s) /\ i + 1 < j + 1
    BY <1>1, <1>2
  <2>2. At(y, t, i) = At(x, s, i + 1) /\ At(y, t, j) = At(x, s, j + 1)
    BY <1>1
  <2> QED BY <1>2, <2>1, <2>2 DEF Line
<1>3. Line(y, t)
  BY <1>2 DEF Line
<1> QED BY <1>1, <1>3 DEF t

-----------------------------------------------------------------------------
(* A message in the queue and one in the socket.                           *)

Place(y) == IF y = ReadSocket THEN 0 ELSE 1

\* The reader meets item m at place i before or after datagram d at place j.
Meets(m, i, d, j, q, y, s, a) ==
  m \in Real /\ d \in Real /\ m.r = d.r =>
    \/ m.k < d.k /\ (i = 0 \/ d.err)
    \/ m.k > d.k /\ i > 0 /\ Hits(q, i - 1, {ReadSocket}) + a >= Hits(s, j, Real) + Place(y)

LEMMA CrossIs ==
  ASSUME NEW x, NEW q, NEW y, NEW s, NEW a
  PROVE  Cross(x, q, y, s, a) <=>
           \A i \in 0..Len(q), j \in 0..Len(s) :
             Meets(At(x, q, i), i, At(y, s, j), j, q, y, s, a)
BY DEF Cross, Meets, Place

LEMMA CrossItem ==
  ASSUME NEW x, NEW q \in Seq(Items), NEW y, NEW s \in Seq(Datagrams), NEW a \in Nat,
         Cross(x, q, y, s, a), NEW m \in Items, NEW t, Longer(q, m, t),
         m \in Real =>
           /\ Hits(q, Len(q), {ReadSocket}) + a >= Hits(s, Len(s), Real) + Place(y)
           /\ \A j \in 0..Len(s) :
                At(y, s, j) \in Real /\ At(y, s, j).r = m.r => At(y, s, j).k < m.k
  PROVE  Cross(x, t, y, s, a)
<1>1. /\ Len(t) = Len(q) + 1 /\ Len(q) \in Nat
      /\ \A i \in 0..Len(q) : At(x, t, i) = At(x, q, i)
      /\ \A i \in 0..Len(t) : i \in 0..Len(q) \/ (i > 0 /\ i - 1 = Len(q)
                                                  /\ At(x, t, i) = m)
      /\ \A n \in 0..Len(q) : Hits(t, n, {ReadSocket}) = Hits(q, n, {ReadSocket})
  BY AtAppend
<1>2. Len(s) \in Nat
  OBVIOUS
<1>3. ASSUME NEW i \in 0..Len(t), NEW j \in 0..Len(s)
      PROVE  Meets(At(x, t, i), i, At(y, s, j), j, t, y, s, a)
  <2>1. CASE i \in 0..Len(q)
    <3>1. Meets(At(x, q, i), i, At(y, s, j), j, q, y, s, a)
      BY <2>1, CrossIs
    <3>2. At(x, t, i) = At(x, q, i)
      BY <1>1, <2>1
    <3>3. ASSUME i > 0
          PROVE  Hits(t, i - 1, {ReadSocket}) = Hits(q, i - 1, {ReadSocket})
      <4>1. PICK n \in 0..Len(q) : n = i - 1
        BY <1>1, <2>1, <3>3
      <4> QED BY <1>1, <4>1
    <3> QED BY <3>1, <3>2, <3>3 DEF Meets
  <2>2. CASE i \notin 0..Len(q)
    <3>1. At(x, t, i) = m /\ i > 0 /\ i - 1 = Len(q) /\ Len(q) \in 0..Len(q)
      BY <1>1, <2>2
    <3>2. Hits(t, i - 1, {ReadSocket}) = Hits(q, Len(q), {ReadSocket})
      BY <1>1, <3>1
    <3>3. j \in Nat /\ j <= Len(s)
      BY <1>2
    <3>4. /\ Hits(s, j, Real) <= Hits(s, Len(s), Real) /\ Hits(s, j, Real) \in Nat
          /\ Hits(s, Len(s), Real) \in Nat
      BY <1>2, <3>3, HitsMore, HitsType
    <3>5. Hits(q, Len(q), {ReadSocket}) \in Nat /\ Place(y) \in Nat
      BY <1>1, HitsType DEF Place
    <3>6. ASSUME m \in Real, At(y, s, j) \in Real, m.r = At(y, s, j).r
          PROVE  /\ At(y, s, j).k < m.k
                 /\ Hits(q, Len(q), {ReadSocket}) + a >= Hits(s, j, Real) + Place(y)
      BY <3>4, <3>5, <3>6
    <3>7. m \in Real /\ At(y, s, j) \in Real => m.k \in Nat /\ At(y, s, j).k \in Nat
      BY RealParts
    <3> QED BY <3>1, <3>2, <3>6, <3>7 DEF Meets
  <2> QED BY <2>1, <2>2
<1> QED BY <1>3, CrossIs

LEMMA CrossDatagram ==
  ASSUME NEW x, NEW q \in Seq(Items), NEW y, NEW s \in Seq(Datagrams), NEW a \in Nat,
         Cross(x, q, y, s, a), NEW m \in Datagrams, NEW t, Longer(s, m, t),
         m \in Real => \A i \in 0..Len(q) :
           At(x, q, i) \in Real /\ At(x, q, i).r = m.r =>
             At(x, q, i).k < m.k /\ (i = 0 \/ m.err)
  PROVE  Cross(x, q, y, t, a)
<1>1. /\ Len(t) = Len(s) + 1 /\ Len(s) \in Nat
      /\ \A i \in 0..Len(s) : At(y, t, i) = At(y, s, i)
      /\ \A i \in 0..Len(t) : i \in 0..Len(s) \/ (i > 0 /\ i - 1 = Len(s)
                                                  /\ At(y, t, i) = m)
      /\ \A n \in 0..Len(s) : Hits(t, n, Real) = Hits(s, n, Real)
  BY AtAppend
<1>2. ASSUME NEW i \in 0..Len(q), NEW j \in 0..Len(t)
      PROVE  Meets(At(x, q, i), i, At(y, t, j), j, q, y, t, a)
  <2>1. CASE j \in 0..Len(s)
    <3>1. Meets(At(x, q, i), i, At(y, s, j), j, q, y, s, a)
      BY <2>1, CrossIs
    <3> QED BY <1>1, <2>1, <3>1 DEF Meets
  <2>2. CASE j \notin 0..Len(s)
    BY <1>1, <2>2 DEF Meets
  <2> QED BY <2>1, <2>2
<1> QED BY <1>2, CrossIs

\* The reader takes the next item while it asks for no datagram.
LEMMA CrossTake ==
  ASSUME NEW q \in Seq(Items), q # <<>>, NEW y \in Items, NEW s \in Seq(Datagrams),
         Cross(ReadSocket, q, y, s, 0)
  PROVE  Cross(Head(q), Tail(q), y, s, IF Head(q) = ReadSocket THEN 1 ELSE 0)
<1> DEFINE t == Tail(q)
           b == IF q[1] \in {ReadSocket} THEN 1 ELSE 0
<1>1. /\ Len(t) = Len(q) - 1 /\ Len(q) \in Nat \ {0} /\ Len(t) \in Nat /\ Head(q) = q[1]
      /\ \A i \in 0..Len(t) :
           At(q[1], t, i) = At(ReadSocket, q, i + 1) /\ i + 1 \in 1..Len(q)
           /\ i + 1 \in 0..Len(q)
  BY AtTail
<1>2. \A n \in 1..Len(q) : Hits(q, n, {ReadSocket}) = Hits(t, n - 1, {ReadSocket}) + b
  BY HitsTailed
<1>3. b \in Nat /\ b = IF Head(q) = ReadSocket THEN 1 ELSE 0
  BY <1>1
<1> HIDE DEF t, b
<1>4. ASSUME NEW i \in 0..Len(t), NEW j \in 0..Len(s)
      PROVE  Meets(At(q[1], t, i), i, At(y, s, j), j, t, y, s, b)
  <2>1. /\ Meets(At(ReadSocket, q, i + 1), i + 1, At(y, s, j), j, q, y, s, 0)
        /\ At(q[1], t, i) = At(ReadSocket, q, i + 1) /\ i + 1 \in 1..Len(q)
    BY <1>1, CrossIs
  <2>2. Hits(s, j, Real) \in Nat /\ Place(y) \in Nat
    <3>1. j \in Nat
      OBVIOUS
    <3> QED BY <3>1, HitsType DEF Place
  <2>3. CASE i = 0
    <3>1. Hits(q, (i + 1) - 1, {ReadSocket}) + 0 = 0
      <4>1. PICK n \in Nat : n = 0 /\ n = (i + 1) - 1
        BY <2>3
      <4>2. Hits(q, n, {ReadSocket}) = 0
        BY <4>1, HitsType
      <4> QED BY <4>1, <4>2
    <3>2. At(y, s, j) \in Real => Hits(s, j, Real) + Place(y) >= 1
      <4>1. CASE j = 0
        BY <2>2, <4>1, Marks, HitsType DEF At, Place
      <4>2. CASE j # 0
        <5>1. j \in 1..Len(s) /\ j - 1 \in Nat /\ j = (j - 1) + 1
          BY <4>2
        <5>2. Hits(s, (j - 1) + 1, Real) =
                Hits(s, j - 1, Real) + (IF s[(j - 1) + 1] \in Real THEN 1 ELSE 0)
          BY <5>1, HitsNext
        <5>3. Hits(s, j - 1, Real) \in Nat /\ At(y, s, j) = s[j]
          BY <4>2, <5>1, HitsType DEF At
        <5>4. Hits(s, j, Real) = Hits(s, j - 1, Real) + (IF s[j] \in Real THEN 1 ELSE 0)
          BY <5>1, <5>2
        <5> QED BY <2>2, <5>3, <5>4
      <4> QED BY <4>1, <4>2
    <3> QED BY <2>1, <2>2, <2>3, <3>1, <3>2 DEF Meets
  <2>4. CASE i # 0
    <3>1. i \in 1..Len(q) /\ i - 1 \in Nat /\ (i + 1) - 1 = i /\ i > 0
      BY <1>1, <2>4
    <3>2. Hits(q, (i + 1) - 1, {ReadSocket}) = Hits(t, i - 1, {ReadSocket}) + b
      BY <1>2, <3>1
    <3>3. Hits(t, i - 1, {ReadSocket}) \in Nat
      BY <3>1, HitsType
    <3> QED BY <1>3, <2>1, <2>2, <3>1, <3>2, <3>3 DEF Meets
  <2> QED BY <2>3, <2>4
<1>5. Cross(q[1], t, y, s, b)
  BY <1>4, CrossIs
<1> QED BY <1>1, <1>3, <1>5 DEF t

LEMMA CrossDone ==
  ASSUME NEW x, NEW q, Len(q) \in Nat, NEW y, NEW s, NEW a, Cross(x, q, y, s, a)
  PROVE  Cross(ReadSocket, q, y, s, a)
<1>1. ASSUME NEW i \in 0..Len(q), NEW j \in 0..Len(s)
      PROVE  Meets(At(ReadSocket, q, i), i, At(y, s, j), j, q, y, s, a)
  <2>1. Meets(At(x, q, i), i, At(y, s, j), j, q, y, s, a)
    BY CrossIs
  <2>2. CASE i = 0
    BY <2>2, Marks DEF Meets, At
  <2>3. CASE i # 0
    BY <2>1, <2>3 DEF At
  <2> QED BY <2>2, <2>3
<1> QED BY <1>1, CrossIs

\* A marker is used for the datagram that was set aside ...
LEMMA CrossUse ==
  ASSUME NEW x, NEW q, Len(q) \in Nat, NEW y \in Real, NEW s, Len(s) \in Nat,
         NEW a \in Nat, a > 0, Cross(x, q, y, s, a)
  PROVE  Cross(x, q, ReadSocket, s, a - 1)
<1>1. ASSUME NEW i \in 0..Len(q), NEW j \in 0..Len(s)
      PROVE  Meets(At(x, q, i), i, At(ReadSocket, s, j), j, q, ReadSocket, s, a - 1)
  <2>1. Meets(At(x, q, i), i, At(y, s, j), j, q, y, s, a)
    BY CrossIs
  <2>2. Place(y) = 1 /\ Place(ReadSocket) = 0
    BY RealParts DEF Place
  <2>3. CASE j = 0
    BY <2>3, Marks DEF Meets, At
  <2>4. CASE j # 0
    <3>1. At(ReadSocket, s, j) = At(y, s, j)
      BY <2>4 DEF At
    <3>2. i > 0 => Hits(q, i - 1, {ReadSocket}) \in Nat
      <4>1. i > 0 => i - 1 \in Nat
        OBVIOUS
      <4> QED BY <4>1, HitsType
    <3>3. Hits(s, j, Real) \in Nat
      <4>1. j \in Nat
        OBVIOUS
      <4> QED BY <4>1, HitsType
    <3> QED BY <2>1, <2>2, <3>1, <3>2, <3>3 DEF Meets
  <2> QED BY <2>3, <2>4
<1> QED BY <1>1, CrossIs

\* ... which it was while no other one was.
LEMMA CrossAside ==
  ASSUME NEW x, NEW q, Len(q) \in Nat, NEW s \in Seq(Datagrams), s # <<>>,
         NEW a \in Nat, Cross(x, q, ReadSocket, s, a)
  PROVE  /\ Head(s) \in Real => Cross(x, q, Head(s), Tail(s), a)
         /\ Head(s) \notin Real => Cross(x, q, ReadSocket, Tail(s), a)
<1> DEFINE t == Tail(s)
           b == IF s[1] \in Real THEN 1 ELSE 0
           y == IF s[1] \in Real THEN s[1] ELSE ReadSocket
<1>1. /\ Len(t) = Len(s) - 1 /\ Len(s) \in Nat \ {0} /\ Len(t) \in Nat /\ Head(s) = s[1]
      /\ \A i \in 0..Len(t) :
           At(s[1], t, i) = At(ReadSocket, s, i + 1) /\ i + 1 \in 1..Len(s)
           /\ i + 1 \in 0..Len(s)
  BY AtTail
<1>2. \A n \in 1..Len(s) : Hits(s, n, Real) = Hits(t, n - 1, Real) + b
  BY HitsTailed
<1>3. b \in Nat /\ Place(y) = b /\ Place(ReadSocket) = 0
  BY RealParts DEF Place
<1>4. \A j \in 0..Len(t) : At(y, t, j) \in Real => At(y, t, j) = At(s[1], t, j)
  BY Marks DEF At
<1>5. Head(s) \in Real => y = Head(s)
  BY <1>1
<1>6. Head(s) \notin Real => y = ReadSocket
  BY <1>1
<1> HIDE DEF t, b, y
<1>7. ASSUME NEW i \in 0..Len(q), NEW j \in 0..Len(t)
      PROVE  Meets(At(x, q, i), i, At(y, t, j), j, q, y, t, a)
  <2>1. /\ Meets(At(x, q, i), i, At(ReadSocket, s, j + 1), j + 1, q, ReadSocket, s, a)
        /\ At(s[1], t, j) = At(ReadSocket, s, j + 1) /\ j + 1 \in 1..Len(s)
    BY <1>1, CrossIs
  <2>2. Hits(s, j + 1, Real) = Hits(t, j, Real) + b /\ Hits(t, j, Real) \in Nat
    <3>1. PICK n \in 1..Len(s) : n = j + 1 /\ n - 1 = j /\ j \in Nat
      BY <2>1
    <3>2. Hits(s, n, Real) = Hits(t, n - 1, Real) + b
      BY <1>2
    <3>3. Hits(t, j, Real) \in Nat
      BY <3>1, HitsType
    <3> QED BY <3>1, <3>2, <3>3
  <2>3. i > 0 => Hits(q, i - 1, {ReadSocket}) \in Nat
    <3>1. i > 0 => i - 1 \in Nat
      OBVIOUS
    <3> QED BY <3>1, HitsType
  <2>4. At(y, t, j) \in Real => At(y, t, j) = At(ReadSocket, s, j + 1)
    BY <1>4, <2>1
  <2> QED BY <1>3, <2>1, <2>2, <2>3, <2>4 DEF Meets
<1>8. Cross(x, q, y, t, a)
  BY <1>7, CrossIs
<1> QED BY <1>5, <1>6, <1>8 DEF t


-----------------------------------------------------------------------------
(* What is in the channel.                                                 *)

LEMMA FinesAppend ==
  ASSUME NEW s, NEW m, NEW t, Longer(s, m, t), NEW x, NEW e, NEW n, NEW g, NEW o,
         Fines(x, s, e, n, g, o), m \in Real => Fine(m, e, n, g, o)
  PROVE  Fines(x, t, e, n, g, o)
<1>1. /\ \A i \in 0..Len(s) : At(x, t, i) = At(x, s, i)
      /\ \A i \in 0..Len(t) : i \in 0..Len(s) \/ At(x, t, i) = m
  BY AtAppend
<1>2. ASSUME NEW i \in 0..Len(t), At(x, t, i) \in Real
      PROVE  Fine(At(x, t, i), e, n, g, o)
  <2>1. CASE i \in 0..Len(s)
    <3>1. At(x, t, i) = At(x, s, i)
      BY <1>1, <2>1
    <3> QED BY <1>2, <2>1, <3>1 DEF Fines
  <2>2. CASE i \notin 0..Len(s)
    BY <1>1, <1>2, <2>2
  <2> QED BY <2>1, <2>2
<1> QED BY <1>2 DEF Fines

LEMMA FinesMore ==
  ASSUME NEW x, NEW s, NEW e, NEW n, NEW g, NEW o, Fines(x, s, e, n, g, o), NEW n2,
         \A r \in Reqs : n[r] \in Nat /\ n2[r] \in Nat /\ n[r] <= n2[r]
  PROVE  Fines(x, s, e, n2, g, o)
<1>1. ASSUME NEW i \in 0..Len(s), At(x, s, i) \in Real
      PROVE  Fine(At(x, s, i), e, n2, g, o)
  <2>1. PICK m \in Real : m = At(x, s, i)
    BY <1>1
  <2>2. m.k \in Nat /\ m.r \in Reqs
    BY RealParts
  <2>3. Fine(m, e, n, g, o)
    BY <1>1, <2>1 DEF Fines
  <2>4. m.k <= n2[m.r]
    <3>1. PICK a \in Nat, b \in Nat : a = n[m.r] /\ b = n2[m.r] /\ a <= b
      BY <2>2
    <3>2. m.k <= a
      BY <2>3, <3>1 DEF Fine
    <3>3. m.k <= b
      BY <2>2, <3>1, <3>2
    <3> QED BY <3>1, <3>3
  <2> QED BY <2>1, <2>3, <2>4 DEF Fine
<1> QED BY <1>1 DEF Fines

LEMMA FinesTail ==
  ASSUME NEW S, NEW s \in Seq(S), s # <<>>, NEW x, NEW e, NEW n, NEW g, NEW o,
         Fines(x, s, e, n, g, o)
  PROVE  Fines(Head(s), Tail(s), e, n, g, o)
<1> DEFINE t == Tail(s)
           y == s[1]
<1>1. /\ Head(s) = y
      /\ \A i \in 0..Len(t) : At(y, t, i) = At(x, s, i + 1) /\ i + 1 \in 0..Len(s)
  BY AtTail
<1> HIDE DEF t, y
<1>2. ASSUME NEW i \in 0..Len(t), At(y, t, i) \in Real
      PROVE  Fine(At(y, t, i), e, n, g, o)
  <2>1. At(y, t, i) = At(x, s, i + 1) /\ i + 1 \in 0..Len(s)
    BY <1>1
  <2>2. PICK j \in 0..Len(s) : At(y, t, i) = At(x, s, j)
    BY <2>1
  <2> QED BY <1>2, <2>2 DEF Fines
<1>3. Fines(y, t, e, n, g, o)
  BY <1>2 DEF Fines
<1> QED BY <1>1, <1>3 DEF t

LEMMA FinesDrop ==
  ASSUME NEW x, NEW s, NEW e, NEW n, NEW g, NEW o, Fines(x, s, e, n, g, o)
  PROVE  Fines(ReadSocket, s, e, n, g, o)
<1>1. ASSUME NEW i \in 0..Len(s), At(ReadSocket, s, i) \in Real
      PROVE  Fine(At(ReadSocket, s, i), e, n, g, o)
  <2>1. i # 0
    BY <1>1, Marks DEF At
  <2>2. At(ReadSocket, s, i) = At(x, s, i)
    BY <2>1 DEF At
  <2> QED BY <1>1, <2>2 DEF Fines
<1> QED BY <1>1 DEF Fines

LEMMA HeldAppend ==
  ASSUME NEW s, NEW m, NEW t, Longer(s, m, t), NEW x
  PROVE  /\ \A r, k : Held(x, s, r, k) => Held(x, t, r, k)
         /\ Held(x, t, m.r, m.k)
<1>1. /\ Len(t) = Len(s) + 1 /\ Len(s) \in Nat
      /\ \A i \in 0..Len(s) : At(x, t, i) = At(x, s, i)
      /\ \A i \in 0..Len(t) : i \in 0..Len(s) \/ (i > 0 /\ i - 1 = Len(s)
                                                  /\ At(x, t, i) = m)
  BY AtAppend
<1>2. ASSUME NEW r, NEW k, Held(x, s, r, k)
      PROVE  Held(x, t, r, k)
  <2>1. PICK i \in 0..Len(s) : At(x, s, i).r = r /\ At(x, s, i).k = k
    BY <1>2 DEF Held
  <2>2. i \in 0..Len(t) /\ At(x, t, i) = At(x, s, i)
    BY <1>1
  <2> QED BY <2>1, <2>2 DEF Held
<1>3. Held(x, t, m.r, m.k)
  <2>1. PICK j \in 0..Len(t) : j = Len(t) /\ j \notin 0..Len(s)
    BY <1>1
  <2>2. At(x, t, j) = m
    BY <1>1, <2>1
  <2> QED BY <2>2 DEF Held
<1> QED BY <1>2, <1>3

LEMMA HeldTail ==
  ASSUME NEW S, NEW s \in Seq(S), s # <<>>, NEW r \in Reqs, NEW k,
         Held(ReadSocket, s, r, k)
  PROVE  /\ Held(Head(s), Tail(s), r, k)
         /\ Head(s).r \notin Reqs => Held(ReadSocket, Tail(s), r, k)
<1> DEFINE t == Tail(s)
<1>1. /\ Len(t) = Len(s) - 1 /\ Len(s) \in Nat \ {0} /\ Head(s) = s[1]
      /\ \A i \in 0..Len(t) : At(s[1], t, i) = At(ReadSocket, s, i + 1)
  BY AtTail
<1> HIDE DEF t
<1>2. PICK i \in 0..Len(s) :
        At(ReadSocket, s, i).r = r /\ At(ReadSocket, s, i).k = k
  BY DEF Held
<1>3. i # 0
  BY <1>2, Marks, PortQueueAssumption DEF At
<1>4. PICK j \in 0..Len(t) : i = j + 1
  <2>1. i - 1 \in 0..Len(t) /\ i = (i - 1) + 1
    BY <1>1, <1>3
  <2> QED BY <2>1
<1>5. At(s[1], t, j) = At(ReadSocket, s, i)
  BY <1>1, <1>4
<1>6. Held(s[1], t, r, k)
  BY <1>2, <1>5 DEF Held
<1>7. ASSUME s[1].r \notin Reqs
      PROVE  Held(ReadSocket, t, r, k)
  <2>1. j # 0
    BY <1>2, <1>5, <1>7 DEF At
  <2>2. At(ReadSocket, t, j) = At(ReadSocket, s, i)
    BY <1>5, <2>1 DEF At
  <2> QED BY <1>2, <2>2 DEF Held
<1> QED BY <1>1, <1>6, <1>7 DEF t

LEMMA HeldDrop ==
  ASSUME NEW x, NEW s, NEW r, NEW k, Held(x, s, r, k)
  PROVE  Held(ReadSocket, s, r, k) \/ (x.r = r /\ x.k = k)
<1>1. PICK i \in 0..Len(s) : At(x, s, i).r = r /\ At(x, s, i).k = k
  BY DEF Held
<1>2. CASE i = 0
  BY <1>1, <1>2 DEF At
<1>3. CASE i # 0
  <2>1. At(ReadSocket, s, i) = At(x, s, i)
    BY <1>3 DEF At
  <2> QED BY <1>1, <2>1 DEF Held
<1> QED BY <1>2, <1>3

LEMMA WholeKept ==
  ASSUME NEW x, NEW q, NEW y, NEW s, NEW n, NEW g, NEW o, Whole(x, q, y, s, n, g, o),
         NEW x2, NEW q2, NEW y2, NEW s2,
         \A r \in o : \A k : Held(x, q, r, k) \/ Held(y, s, r, k) =>
           Held(x2, q2, r, k) \/ Held(y2, s2, r, k)
  PROVE  Whole(x2, q2, y2, s2, n, g, o)
BY DEF Whole

\* One more message of r is sent.
LEMMA WholeSent ==
  ASSUME NEW x, NEW q, NEW y, NEW s, NEW n \in [Reqs -> Nat], NEW g \in [Reqs -> Seq(Real)],
         NEW o \in SUBSET Reqs, Whole(x, q, y, s, n, g, o),
         NEW x2, NEW q2, NEW y2, NEW s2,
         \A r \in o : \A k : Held(x, q, r, k) \/ Held(y, s, r, k) =>
           Held(x2, q2, r, k) \/ Held(y2, s2, r, k),
         NEW r \in Reqs, Held(x2, q2, r, n[r] + 1) \/ Held(y2, s2, r, n[r] + 1)
  PROVE  Whole(x2, q2, y2, s2, [n EXCEPT ![r] = @ + 1], g, o)
<1>1. PICK n2 : n2 = [n EXCEPT ![r] = @ + 1]
  OBVIOUS
<1>2. n2[r] = n[r] + 1 /\ \A u \in Reqs \ {r} : n2[u] = n[u]
  BY <1>1
<1>3. ASSUME NEW u \in o
      PROVE  /\ Len(g[u]) <= n2[u]
             /\ \A k \in (Len(g[u]) + 1)..n2[u] :
                  Held(x2, q2, u, k) \/ Held(y2, s2, u, k)
  <2>1. Len(g[u]) \in Nat /\ n[u] \in Nat /\ Len(g[u]) <= n[u]
    BY DEF Whole
  <2>2. \A k \in (Len(g[u]) + 1)..n[u] : Held(x2, q2, u, k) \/ Held(y2, s2, u, k)
    BY DEF Whole
  <2>3. CASE u = r
    <3>1. Len(g[u]) <= n2[u]
      BY <1>2, <2>1, <2>3
    <3>2. ASSUME NEW k \in (Len(g[u]) + 1)..n2[u]
          PROVE  Held(x2, q2, u, k) \/ Held(y2, s2, u, k)
      <4>1. k \in (Len(g[u]) + 1)..n[u] \/ k = n[u] + 1
        BY <1>2, <2>1, <2>3
      <4> QED BY <2>2, <2>3, <4>1
    <3> QED BY <3>1, <3>2
  <2>4. CASE u # r
    BY <1>2, <2>1, <2>2, <2>4
  <2> QED BY <2>3, <2>4
<1>4. Whole(x2, q2, y2, s2, n2, g, o)
  BY <1>3 DEF Whole
<1> QED BY <1>1, <1>4


-----------------------------------------------------------------------------
(* The order, from one end of the channel to the other.                    *)

Parts(x, q, y, s, a, n, g, o) ==
  /\ x \in Items /\ q \in Seq(Items) /\ y \in Items /\ s \in Seq(Datagrams)
  /\ a \in Nat /\ n \in [Reqs -> Nat] /\ g \in [Reqs -> Seq(Real)] /\ o \in SUBSET Reqs

LEMMA OrderMark ==
  ASSUME NEW x, NEW q, NEW y, NEW s, NEW a, NEW n, NEW g, NEW o,
         Parts(x, q, y, s, a, n, g, o), Order(x, q, y, s, a, n, g, o),
         NEW m \in Items \ Real, NEW t, Longer(q, m, t)
  PROVE  Order(x, t, y, s, a, n, g, o)
<1>1. Line(x, t)
  BY LineAppend DEF Order
<1>2. Cross(x, t, y, s, a)
  BY CrossItem DEF Order, Parts
<1>3. Fines(x, t, FALSE, n, g, o)
  BY FinesAppend DEF Order, Flow
<1>4. Whole(x, t, y, s, n, g, o)
  BY HeldAppend, WholeKept DEF Order, Flow
<1> QED BY <1>1, <1>2, <1>3, <1>4 DEF Order, Flow

LEMMA OrderBell ==
  ASSUME NEW x, NEW q, NEW y, NEW s, NEW a, NEW n, NEW g, NEW o,
         Parts(x, q, y, s, a, n, g, o), Order(x, q, y, s, a, n, g, o),
         NEW m \in Datagrams \ Real, NEW t, Longer(s, m, t)
  PROVE  Order(x, q, y, t, a, n, g, o)
<1>1. Line(y, t)
  BY LineAppend DEF Order
<1>2. Cross(x, q, y, t, a)
  BY CrossDatagram DEF Order, Parts
<1>3. Fines(y, t, TRUE, n, g, o)
  BY FinesAppend DEF Order, Flow
<1>4. Whole(x, q, y, t, n, g, o)
  BY HeldAppend, WholeKept DEF Order, Flow
<1> QED BY <1>1, <1>2, <1>3, <1>4 DEF Order, Flow

\* A message that is new is younger than what is in the channel.
LEMMA Younger ==
  ASSUME NEW x, NEW s, NEW e, NEW n \in [Reqs -> Nat], NEW g, NEW o,
         Fines(x, s, e, n, g, o), NEW m \in Real, m.k = n[m.r] + 1
  PROVE  /\ \A i \in 0..Len(s) :
              At(x, s, i) \in Real /\ At(x, s, i).r = m.r => At(x, s, i).k < m.k
         /\ \A r \in Reqs : /\ n[r] \in Nat /\ [n EXCEPT ![m.r] = @ + 1][r] \in Nat
                            /\ n[r] <= [n EXCEPT ![m.r] = @ + 1][r]
<1>1. m.r \in Reqs /\ n[m.r] \in Nat
  BY RealParts
<1>2. ASSUME NEW i \in 0..Len(s), At(x, s, i) \in Real, At(x, s, i).r = m.r
      PROVE  At(x, s, i).k < m.k
  <2>1. PICK d \in Real : d = At(x, s, i)
    BY <1>2
  <2>2. d.k \in Nat /\ d.k <= n[m.r]
    BY <1>2, <2>1, RealParts DEF Fines, Fine
  <2> QED BY <1>1, <2>1, <2>2
<1> QED BY <1>1, <1>2

LEMMA FineNew ==
  ASSUME NEW n \in [Reqs -> Nat], NEW g \in [Reqs -> Seq(Real)], NEW o \in SUBSET Reqs,
         NEW m \in Real, m.k = n[m.r] + 1, NEW e, m.err => e /\ m.last,
         m.r \in o => Len(g[m.r]) <= n[m.r]
  PROVE  Fine(m, e, [n EXCEPT ![m.r] = @ + 1], g, o)
<1>1. m.r \in Reqs /\ n[m.r] \in Nat /\ Len(g[m.r]) \in Nat /\ m.k \in Nat
  BY RealParts
<1>2. [n EXCEPT ![m.r] = @ + 1][m.r] = m.k
  BY <1>1
<1> QED BY <1>1, <1>2 DEF Fine

\* A message to the queue, behind the markers of all that is in the socket.
LEMMA OrderItem ==
  ASSUME NEW x, NEW q, NEW y, NEW s, NEW a, NEW n, NEW g, NEW o,
         Parts(x, q, y, s, a, n, g, o), Order(x, q, y, s, a, n, g, o),
         NEW m \in Real, m.k = n[m.r] + 1, ~m.err, NEW t, Longer(q, m, t),
         Hits(q, Len(q), {ReadSocket}) + a >= Hits(s, Len(s), Real) + Place(y)
  PROVE  Order(x, t, y, s, a, [n EXCEPT ![m.r] = @ + 1], g, o)
<1>0. /\ q \in Seq(Items) /\ s \in Seq(Datagrams) /\ a \in Nat /\ n \in [Reqs -> Nat]
      /\ g \in [Reqs -> Seq(Real)] /\ o \in SUBSET Reqs
      /\ m \in Items /\ m.r \in Reqs
  BY RealParts DEF Parts
<1>1. /\ Line(x, q) /\ Line(y, s) /\ Cross(x, q, y, s, a) /\ Arrived(g)
      /\ Fines(x, q, FALSE, n, g, o) /\ Fines(y, s, TRUE, n, g, o)
      /\ Whole(x, q, y, s, n, g, o)
  BY DEF Order, Flow
<1>2. PICK n2 : n2 = [n EXCEPT ![m.r] = @ + 1]
  OBVIOUS
<1>3. /\ \A i \in 0..Len(q) :
           At(x, q, i) \in Real /\ At(x, q, i).r = m.r => At(x, q, i).k < m.k
      /\ \A i \in 0..Len(s) :
           At(y, s, i) \in Real /\ At(y, s, i).r = m.r => At(y, s, i).k < m.k
      /\ \A r \in Reqs : n[r] \in Nat /\ n2[r] \in Nat /\ n[r] <= n2[r]
  BY <1>0, <1>1, <1>2, Younger
<1>4. Line(x, t)
  BY <1>1, <1>3, LineAppend
<1>5. Cross(x, t, y, s, a)
  BY <1>0, <1>1, <1>3, CrossItem
<1>6. Fine(m, FALSE, n2, g, o)
  BY <1>0, <1>1, <1>2, FineNew DEF Whole
<1>7. Fines(x, q, FALSE, n2, g, o) /\ Fines(y, s, TRUE, n2, g, o)
  BY <1>1, <1>3, FinesMore
<1>8. Fines(x, t, FALSE, n2, g, o)
  BY <1>6, <1>7, FinesAppend
<1>9. Whole(x, t, y, s, n2, g, o)
  <2>1. Held(x, t, m.r, n[m.r] + 1) /\ \A r, k : Held(x, q, r, k) => Held(x, t, r, k)
    BY HeldAppend
  <2> QED BY <1>0, <1>1, <1>2, <2>1, WholeSent
<1>10. Order(x, t, y, s, a, n2, g, o)
  BY <1>1, <1>4, <1>5, <1>7, <1>8, <1>9 DEF Order, Flow
<1> QED BY <1>2, <1>10

\* A message to the socket, when none of its request is in the queue.
LEMMA OrderDatagram ==
  ASSUME NEW x, NEW q, NEW y, NEW s, NEW a, NEW n, NEW g, NEW o,
         Parts(x, q, y, s, a, n, g, o), Order(x, q, y, s, a, n, g, o),
         NEW m \in Real, m.k = n[m.r] + 1, m.err => m.last, NEW t, Longer(s, m, t),
         m.err \/ Without(m.r, q)
  PROVE  Order(x, q, y, t, a, [n EXCEPT ![m.r] = @ + 1], g, o)
<1>0. /\ q \in Seq(Items) /\ s \in Seq(Datagrams) /\ a \in Nat /\ n \in [Reqs -> Nat]
      /\ g \in [Reqs -> Seq(Real)] /\ o \in SUBSET Reqs
      /\ m \in Datagrams /\ m.r \in Reqs
  BY RealParts DEF Parts
<1>1. /\ Line(x, q) /\ Line(y, s) /\ Cross(x, q, y, s, a) /\ Arrived(g)
      /\ Fines(x, q, FALSE, n, g, o) /\ Fines(y, s, TRUE, n, g, o)
      /\ Whole(x, q, y, s, n, g, o)
  BY DEF Order, Flow
<1>2. PICK n2 : n2 = [n EXCEPT ![m.r] = @ + 1]
  OBVIOUS
<1>3. /\ \A i \in 0..Len(q) :
           At(x, q, i) \in Real /\ At(x, q, i).r = m.r => At(x, q, i).k < m.k
      /\ \A i \in 0..Len(s) :
           At(y, s, i) \in Real /\ At(y, s, i).r = m.r => At(y, s, i).k < m.k
      /\ \A r \in Reqs : n[r] \in Nat /\ n2[r] \in Nat /\ n[r] <= n2[r]
  BY <1>0, <1>1, <1>2, Younger
<1>4. Line(y, t)
  BY <1>1, <1>3, LineAppend
<1>5. Cross(x, q, y, t, a)
  <2>1. ASSUME NEW i \in 0..Len(q), At(x, q, i) \in Real, At(x, q, i).r = m.r
        PROVE  i = 0 \/ m.err
    <3>1. CASE Without(m.r, q) /\ i # 0
      <4>1. i \in 1..Len(q) /\ At(x, q, i) = q[i]
        BY <1>0, <3>1 DEF At
      <4> QED BY <2>1, <3>1, <4>1 DEF Without
    <3> QED BY <3>1
  <2> QED BY <1>0, <1>1, <1>3, <2>1, CrossDatagram
<1>6. Fine(m, TRUE, n2, g, o)
  BY <1>0, <1>1, <1>2, FineNew DEF Whole
<1>7. Fines(x, q, FALSE, n2, g, o) /\ Fines(y, s, TRUE, n2, g, o)
  BY <1>1, <1>3, FinesMore
<1>8. Fines(y, t, TRUE, n2, g, o)
  BY <1>6, <1>7, FinesAppend
<1>9. Whole(x, q, y, t, n2, g, o)
  <2>1. Held(y, t, m.r, n[m.r] + 1) /\ \A r, k : Held(y, s, r, k) => Held(y, t, r, k)
    BY HeldAppend
  <2> QED BY <1>0, <1>1, <1>2, <2>1, WholeSent
<1>10. Order(x, q, y, t, a, n2, g, o)
  BY <1>1, <1>4, <1>5, <1>7, <1>8, <1>9 DEF Order, Flow
<1> QED BY <1>2, <1>10

\* The reader takes an item.
LEMMA OrderTake ==
  ASSUME NEW q, NEW y, NEW s, NEW n, NEW g, NEW o,
         Parts(ReadSocket, q, y, s, 0, n, g, o),
         Order(ReadSocket, q, y, s, 0, n, g, o), q # <<>>
  PROVE  Order(Head(q), Tail(q), y, s, IF Head(q) = ReadSocket THEN 1 ELSE 0, n, g, o)
<1>0. q \in Seq(Items) /\ y \in Items /\ s \in Seq(Datagrams) /\ o \in SUBSET Reqs
  BY DEF Parts
<1>1. Line(Head(q), Tail(q))
  BY <1>0, LineTail DEF Order
<1>2. Cross(Head(q), Tail(q), y, s, IF Head(q) = ReadSocket THEN 1 ELSE 0)
  BY <1>0, CrossTake DEF Order
<1>3. Fines(Head(q), Tail(q), FALSE, n, g, o)
  BY <1>0, FinesTail DEF Order, Flow
<1>4. Whole(Head(q), Tail(q), y, s, n, g, o)
  <2>1. ASSUME NEW r \in o, NEW k, Held(ReadSocket, q, r, k)
        PROVE  Held(Head(q), Tail(q), r, k)
    BY <1>0, <2>1, HeldTail
  <2> QED BY <2>1, WholeKept DEF Order, Flow
<1> QED BY <1>1, <1>2, <1>3, <1>4 DEF Order, Flow

\* The reader takes a datagram and sets it aside, or a doorbell.
LEMMA OrderAside ==
  ASSUME NEW x, NEW q, NEW s, NEW a, NEW n, NEW g, NEW o,
         Parts(x, q, ReadSocket, s, a, n, g, o),
         Order(x, q, ReadSocket, s, a, n, g, o), s # <<>>
  PROVE  /\ Head(s) \in Real => Order(x, q, Head(s), Tail(s), a, n, g, o)
         /\ Head(s) \notin Real => Order(x, q, ReadSocket, Tail(s), a, n, g, o)
<1>0. /\ q \in Seq(Items) /\ s \in Seq(Datagrams) /\ o \in SUBSET Reqs /\ a \in Nat
      /\ Len(q) \in Nat /\ Tail(s) \in Seq(Datagrams) /\ Len(Tail(s)) \in Nat
      /\ Head(s) \in Datagrams
  BY Tailed DEF Parts
<1>1. Line(Head(s), Tail(s)) /\ Line(ReadSocket, Tail(s))
  BY <1>0, LineTail, LineDrop DEF Order
<1>2. /\ Head(s) \in Real => Cross(x, q, Head(s), Tail(s), a)
      /\ Head(s) \notin Real => Cross(x, q, ReadSocket, Tail(s), a)
  BY <1>0, CrossAside DEF Order
<1>3. Fines(Head(s), Tail(s), TRUE, n, g, o) /\ Fines(ReadSocket, Tail(s), TRUE, n, g, o)
  BY <1>0, FinesTail, FinesDrop DEF Order, Flow
<1>4. Whole(x, q, Head(s), Tail(s), n, g, o)
  <2>1. ASSUME NEW r \in o, NEW k, Held(ReadSocket, s, r, k)
        PROVE  Held(Head(s), Tail(s), r, k)
    BY <1>0, <2>1, HeldTail
  <2> QED BY <2>1, WholeKept DEF Order, Flow
<1>5. ASSUME Head(s) \notin Real
      PROVE  Whole(x, q, ReadSocket, Tail(s), n, g, o)
  <2>1. Head(s).r \notin Reqs
    BY <1>0, <1>5, ItemParts
  <2>2. ASSUME NEW r \in o, NEW k, Held(ReadSocket, s, r, k)
        PROVE  Held(ReadSocket, Tail(s), r, k)
    BY <1>0, <2>1, <2>2, HeldTail
  <2> QED BY <2>2, WholeKept DEF Order, Flow
<1> QED BY <1>1, <1>2, <1>3, <1>4, <1>5 DEF Order, Flow


-----------------------------------------------------------------------------
(* A message arrives.                                                      *)

Took(m, g, o, g2, o2) ==
  /\ g2 = IF m.r \in o THEN [g EXCEPT ![m.r] = Append(@, m)] ELSE g
  /\ o2 = IF m.last THEN o \ {m.r} ELSE o

LEMMA TookDoes ==
  ASSUME NEW m \in Real, NEW g \in [Reqs -> Seq(Real)], NEW o \in SUBSET Reqs,
         NEW g2, NEW o2, Took(m, g, o, g2, o2)
  PROVE  /\ g2 \in [Reqs -> Seq(Real)] /\ o2 \in SUBSET Reqs /\ o2 \subseteq o
         /\ \A r \in Reqs : r # m.r \/ m.r \notin o => g2[r] = g[r]
         /\ m.r \in o => /\ Len(g2[m.r]) = Len(g[m.r]) + 1
                         /\ \A i \in 1..Len(g[m.r]) : g2[m.r][i] = g[m.r][i]
                         /\ g2[m.r][Len(g[m.r]) + 1] = m
         /\ m.r \in o2 => m.r \in o /\ ~m.last
<1>1. m.r \in Reqs /\ g[m.r] \in Seq(Real) /\ m.last \in BOOLEAN
  BY RealParts
<1>2. o2 \in SUBSET Reqs /\ o2 \subseteq o /\ (m.r \in o2 => m.r \in o /\ ~m.last)
  BY DEF Took
<1>3. CASE m.r \in o
  <2>1. PICK w : w = Append(g[m.r], m)
    OBVIOUS
  <2>2. /\ w \in Seq(Real) /\ Len(w) = Len(g[m.r]) + 1
        /\ \A i \in 1..Len(g[m.r]) : w[i] = g[m.r][i]
        /\ w[Len(g[m.r]) + 1] = m
    BY <1>1, <2>1, Appended
  <2>3. g2 = [g EXCEPT ![m.r] = w]
    BY <1>3, <2>1 DEF Took
  <2>4. g2 \in [Reqs -> Seq(Real)] /\ g2[m.r] = w /\ \A r \in Reqs \ {m.r} : g2[r] = g[r]
    BY <1>1, <2>2, <2>3
  <2> QED BY <1>2, <1>3, <2>2, <2>4
<1>4. CASE m.r \notin o
  <2>1. g2 = g
    BY <1>4 DEF Took
  <2> QED BY <1>2, <1>4, <2>1
<1> QED BY <1>3, <1>4

\* Message m is the oldest of its request in the channel, and what is left without
\* it is x2 at hand and y2 set aside.
Oldest(m, x, q, y, s, n, g, o, x2, y2) ==
  /\ m \in Real /\ Fine(m, TRUE, n, g, o) /\ x2 \in Items /\ y2 \in Items
  /\ q \in Seq(Items) /\ s \in Seq(Datagrams)
  /\ n \in [Reqs -> Nat] /\ g \in [Reqs -> Seq(Real)] /\ o \in SUBSET Reqs
  /\ Whole(x, q, y, s, n, g, o) /\ Arrived(g)
  /\ Fines(x2, q, FALSE, n, g, o) /\ Fines(y2, s, TRUE, n, g, o)
  /\ \A i \in 0..Len(q) : At(x2, q, i) \in Real /\ At(x2, q, i).r = m.r =>
       m.err \/ m.k < At(x2, q, i).k
  /\ \A i \in 0..Len(s) : At(y2, s, i) \in Real /\ At(y2, s, i).r = m.r =>
       m.err \/ m.k < At(y2, s, i).k
  /\ \A r \in Reqs : \A k : Held(x, q, r, k) \/ Held(y, s, r, k) =>
       Held(x2, q, r, k) \/ Held(y2, s, r, k) \/ (r = m.r /\ k = m.k)

\* It is the next one to arrive.
LEMMA Arrives ==
  ASSUME NEW x, NEW q, NEW y, NEW s, NEW n, NEW g, NEW o, NEW m, NEW x2, NEW y2,
         Oldest(m, x, q, y, s, n, g, o, x2, y2),
         NEW g2, NEW o2, Took(m, g, o, g2, o2)
  PROVE  Flow(x2, q, y2, s, n, g2, o2) /\ Arrived(g2)
<1> USE DEF Oldest
<1>1. m.r \in Reqs /\ m.k \in Nat /\ g[m.r] \in Seq(Real) /\ n[m.r] \in Nat
  BY RealParts
<1>2. PICK l \in Nat : l = Len(g[m.r])
  BY <1>1
<1>3. m.k <= n[m.r] /\ (m.r \in o => m.k > l) /\ (m.err => m.last)
  BY <1>2 DEF Fine
<1>4. /\ g2 \in [Reqs -> Seq(Real)] /\ o2 \in SUBSET Reqs /\ o2 \subseteq o
      /\ \A r \in Reqs : r # m.r \/ m.r \notin o => g2[r] = g[r]
      /\ m.r \in o => /\ Len(g2[m.r]) = l + 1
                      /\ \A i \in 1..l : g2[m.r][i] = g[m.r][i]
                      /\ g2[m.r][l + 1] = m
      /\ m.r \in o2 => m.r \in o /\ ~m.last
  <2>1. m \in Real /\ g \in [Reqs -> Seq(Real)] /\ o \in SUBSET Reqs
    OBVIOUS
  <2>2. /\ g2 \in [Reqs -> Seq(Real)] /\ o2 \in SUBSET Reqs /\ o2 \subseteq o
        /\ \A r \in Reqs : r # m.r \/ m.r \notin o => g2[r] = g[r]
        /\ m.r \in o => /\ Len(g2[m.r]) = Len(g[m.r]) + 1
                        /\ \A i \in 1..Len(g[m.r]) : g2[m.r][i] = g[m.r][i]
                        /\ g2[m.r][Len(g[m.r]) + 1] = m
        /\ m.r \in o2 => m.r \in o /\ ~m.last
    BY ONLY <2>1, TookDoes, Took(m, g, o, g2, o2)
  <2> QED BY ONLY <1>2, <2>2
<1>5. ASSUME m.r \in o, ~m.err
      PROVE  m.k = l + 1
  <2> SUFFICES ASSUME m.k # l + 1
               PROVE  FALSE
    OBVIOUS
  <2>1. PICK k \in Nat : k = l + 1 /\ k < m.k /\ k \in (l + 1)..n[m.r]
    <3>1. m.k > l /\ m.k <= n[m.r] /\ m.k \in Nat /\ n[m.r] \in Nat
      BY <1>1, <1>3, <1>5
    <3>2. l + 1 < m.k /\ l + 1 \in (l + 1)..n[m.r] /\ l + 1 \in Nat
      BY <3>1
    <3> QED BY <3>2
  <2>2. Held(x, q, m.r, k) \/ Held(y, s, m.r, k)
    BY <1>2, <1>5, <2>1 DEF Whole
  <2>3. Held(x2, q, m.r, k) \/ Held(y2, s, m.r, k)
    BY <1>1, <2>1, <2>2
  <2>4. CASE Held(x2, q, m.r, k)
    <3>1. PICK i \in 0..Len(q) : At(x2, q, i).r = m.r /\ At(x2, q, i).k = k
      BY <2>4 DEF Held
    <3>2. At(x2, q, i) \in Real
      BY <1>1, <3>1, AtType, ItemParts
    <3>3. m.k < k
      BY <1>5, <3>1, <3>2
    <3> QED BY <1>1, <2>1, <3>3
  <2>5. CASE Held(y2, s, m.r, k)
    <3>1. PICK i \in 0..Len(s) : At(y2, s, i).r = m.r /\ At(y2, s, i).k = k
      BY <2>5 DEF Held
    <3>2. At(y2, s, i) \in Real
      <4>1. CASE i = 0
        BY <1>1, <3>1, <4>1, ItemParts DEF At
      <4>2. CASE i # 0
        <5>1. i \in 1..Len(s) /\ At(y2, s, i) = s[i] /\ s[i] \in Datagrams
          BY <4>2 DEF At
        <5> QED BY <1>1, <3>1, <5>1, ItemParts
      <4> QED BY <4>1, <4>2
    <3>3. m.k < k
      BY <1>5, <3>1, <3>2
    <3> QED BY <1>1, <2>1, <3>3
  <2> QED BY <2>3, <2>4, <2>5
<1>6. m.r \in o2 => ~m.err /\ m.r \in o /\ m.k = l + 1 /\ Len(g2[m.r]) = m.k
  BY <1>3, <1>4, <1>5
<1>7. ASSUME NEW d \in Real, NEW e, Fine(d, e, n, g, o),
             d.r = m.r => m.err \/ m.k < d.k
      PROVE  Fine(d, e, n, g2, o2)
  <2>1. d.r \in Reqs /\ d.k \in Nat
    BY RealParts
  <2>2. ASSUME d.r \in o2
        PROVE  d.k > Len(g2[d.r])
    <3>1. CASE d.r = m.r
      BY <1>1, <1>6, <1>7, <2>1, <2>2, <3>1
    <3>2. CASE d.r # m.r
      <4>1. g2[d.r] = g[d.r] /\ d.r \in o
        BY <1>4, <2>1, <2>2, <3>2
      <4> QED BY <1>7, <4>1 DEF Fine
    <3> QED BY <3>1, <3>2
  <2> QED BY <1>7, <2>2 DEF Fine
<1>8. Fines(x2, q, FALSE, n, g2, o2)
  BY <1>7 DEF Fines
<1>9. Fines(y2, s, TRUE, n, g2, o2)
  BY <1>7 DEF Fines
<1>10. Whole(x2, q, y2, s, n, g2, o2)
  <2>1. ASSUME NEW r \in o2
        PROVE  /\ Len(g2[r]) <= n[r]
               /\ \A k \in (Len(g2[r]) + 1)..n[r] : Held(x2, q, r, k) \/ Held(y2, s, r, k)
    <3>1. r \in o /\ r \in Reqs
      BY <1>4
    <3>2. CASE r = m.r
      <4>1. Len(g2[r]) = m.k /\ m.k = l + 1
        BY <1>6, <3>2
      <4>2. Len(g2[r]) <= n[r]
        BY <1>3, <3>2, <4>1
      <4>3. ASSUME NEW k \in (m.k + 1)..n[r]
            PROVE  Held(x2, q, r, k) \/ Held(y2, s, r, k)
        <5>1. k \in (l + 1)..n[r] /\ k # m.k
          BY <1>1, <1>2, <3>2, <4>1
        <5>2. Held(x, q, r, k) \/ Held(y, s, r, k)
          BY <1>2, <3>1, <3>2, <5>1 DEF Whole
        <5> QED BY <3>1, <5>1, <5>2
      <4> QED BY <4>1, <4>2, <4>3
    <3>3. CASE r # m.r
      <4>1. g2[r] = g[r]
        BY <1>4, <3>1, <3>3
      <4>2. Len(g[r]) <= n[r]
        BY <3>1 DEF Whole
      <4>3. ASSUME NEW k \in (Len(g[r]) + 1)..n[r]
            PROVE  Held(x2, q, r, k) \/ Held(y2, s, r, k)
        <5>1. Held(x, q, r, k) \/ Held(y, s, r, k)
          BY <3>1 DEF Whole
        <5> QED BY <3>1, <3>3, <5>1
      <4> QED BY <4>1, <4>2, <4>3
    <3> QED BY <3>2, <3>3
  <2> QED BY <2>1 DEF Whole
<1>11. Arrived(g2)
  <2>1. ASSUME NEW r \in Reqs, NEW i \in 1..Len(g2[r])
        PROVE  g2[r][i].k = i \/ g2[r][i].err
    <3>1. CASE r # m.r \/ m.r \notin o
      <4>1. g2[r] = g[r]
        BY <1>4, <3>1
      <4> QED BY <2>1, <4>1 DEF Arrived
    <3>2. CASE r = m.r /\ m.r \in o
      <4>1. i \in 1..l \/ i = l + 1
        BY <1>2, <1>4, <2>1, <3>2
      <4>2. CASE i \in 1..l
        <5>1. g2[r][i] = g[r][i] /\ i \in 1..Len(g[r])
          BY <1>2, <1>4, <3>2, <4>2
        <5> QED BY <5>1 DEF Arrived
      <4>3. CASE i = l + 1
        BY <1>4, <1>5, <3>2, <4>3
      <4> QED BY <4>1, <4>2, <4>3
    <3> QED BY <3>1, <3>2
  <2> QED BY <2>1 DEF Arrived
<1> QED BY <1>8, <1>9, <1>10, <1>11 DEF Flow

\* The item at hand: it is older than the rest of the queue (Line) and than every
\* datagram (Cross).
LEMMA OrderDone ==
  ASSUME NEW x, NEW q, NEW y, NEW s, NEW a, NEW n, NEW g, NEW o,
         Parts(x, q, y, s, a, n, g, o), Order(x, q, y, s, a, n, g, o),
         x \in Real, NEW g2, NEW o2, Took(x, g, o, g2, o2)
  PROVE  Order(ReadSocket, q, y, s, a, n, g2, o2)
<1>0. /\ q \in Seq(Items) /\ y \in Items /\ s \in Seq(Datagrams) /\ Len(q) \in Nat
      /\ n \in [Reqs -> Nat] /\ g \in [Reqs -> Seq(Real)] /\ o \in SUBSET Reqs
      /\ Len(s) \in Nat /\ a \in Nat
  BY DEF Parts
<1>1. /\ Line(x, q) /\ Line(y, s) /\ Cross(x, q, y, s, a) /\ Arrived(g)
      /\ Fines(x, q, FALSE, n, g, o) /\ Fines(y, s, TRUE, n, g, o)
      /\ Whole(x, q, y, s, n, g, o)
  BY DEF Order, Flow
<1>2. At(x, q, 0) = x /\ 0 \in 0..Len(q)
  BY <1>0 DEF At
<1>3. Fine(x, FALSE, n, g, o) /\ Fine(x, TRUE, n, g, o)
  BY <1>1, <1>2 DEF Fines, Fine
<1>4. ASSUME NEW i \in 0..Len(q), At(ReadSocket, q, i) \in Real,
             At(ReadSocket, q, i).r = x.r
      PROVE  x.k < At(ReadSocket, q, i).k
  <2>1. i # 0
    BY <1>4, Marks DEF At
  <2>2. At(ReadSocket, q, i) = At(x, q, i) /\ 0 < i
    BY <2>1 DEF At
  <2> QED BY <1>1, <1>2, <1>4, <2>2 DEF Line
<1>5. ASSUME NEW j \in 0..Len(s), At(y, s, j) \in Real, At(y, s, j).r = x.r
      PROVE  x.k < At(y, s, j).k
  <2>1. Meets(x, 0, At(y, s, j), j, q, y, s, a)
    BY <1>1, <1>2, CrossIs
  <2> QED BY <1>5, <2>1 DEF Meets
<1>6. Fines(ReadSocket, q, FALSE, n, g, o)
  BY <1>1, FinesDrop
<1>7. \A r \in Reqs : \A k : Held(x, q, r, k) \/ Held(y, s, r, k) =>
        Held(ReadSocket, q, r, k) \/ Held(y, s, r, k) \/ (r = x.r /\ k = x.k)
  BY HeldDrop
<1>8. Flow(ReadSocket, q, y, s, n, g2, o2) /\ Arrived(g2)
  <2>1. Oldest(x, x, q, y, s, n, g, o, ReadSocket, y)
    BY <1>0, <1>1, <1>3, <1>4, <1>5, <1>6, <1>7, Marks DEF Oldest
  <2> QED BY <2>1, Arrives
<1>9. Line(ReadSocket, q) /\ Cross(ReadSocket, q, y, s, a)
  BY <1>0, <1>1, LineDrop, CrossDone
<1> QED BY <1>1, <1>8, <1>9 DEF Order

\* The datagram set aside, when a marker asks for it.
LEMMA OrderUse ==
  ASSUME NEW q, NEW y, NEW s, NEW a, NEW n, NEW g, NEW o,
         Parts(ReadSocket, q, y, s, a, n, g, o), Order(ReadSocket, q, y, s, a, n, g, o),
         y \in Real, a > 0, NEW g2, NEW o2, Took(y, g, o, g2, o2)
  PROVE  Order(ReadSocket, q, ReadSocket, s, a - 1, n, g2, o2)
<1>0. /\ q \in Seq(Items) /\ y \in Items /\ s \in Seq(Datagrams) /\ Len(q) \in Nat
      /\ n \in [Reqs -> Nat] /\ g \in [Reqs -> Seq(Real)] /\ o \in SUBSET Reqs
      /\ Len(s) \in Nat /\ a \in Nat
  BY DEF Parts
<1>1. /\ Line(ReadSocket, q) /\ Line(y, s) /\ Cross(ReadSocket, q, y, s, a)
      /\ Fines(ReadSocket, q, FALSE, n, g, o) /\ Fines(y, s, TRUE, n, g, o)
      /\ Whole(ReadSocket, q, y, s, n, g, o) /\ Arrived(g)
  BY DEF Order, Flow
<1>2. At(y, s, 0) = y /\ 0 \in 0..Len(s)
  BY <1>0 DEF At
<1>3. Fine(y, TRUE, n, g, o)
  BY <1>1, <1>2 DEF Fines
<1>4. ASSUME NEW i \in 0..Len(q), At(ReadSocket, q, i) \in Real,
             At(ReadSocket, q, i).r = y.r
      PROVE  y.err \/ y.k < At(ReadSocket, q, i).k
  <2>1. Meets(At(ReadSocket, q, i), i, y, 0, q, y, s, a)
    BY <1>1, <1>2, CrossIs
  <2>2. i # 0
    BY <1>4, Marks DEF At
  <2>3. At(ReadSocket, q, i).k \in Nat /\ y.k \in Nat
    BY <1>4, RealParts
  <2> QED BY <1>4, <2>1, <2>2, <2>3 DEF Meets
<1>5. ASSUME NEW j \in 0..Len(s), At(ReadSocket, s, j) \in Real,
             At(ReadSocket, s, j).r = y.r
      PROVE  y.k < At(ReadSocket, s, j).k
  <2>1. j # 0
    BY <1>5, Marks DEF At
  <2>2. At(ReadSocket, s, j) = At(y, s, j) /\ 0 < j
    BY <2>1 DEF At
  <2> QED BY <1>1, <1>2, <1>5, <2>2 DEF Line
<1>6. Fines(ReadSocket, s, TRUE, n, g, o)
  BY <1>1, FinesDrop
<1>7. \A r \in Reqs : \A k : Held(ReadSocket, q, r, k) \/ Held(y, s, r, k) =>
        Held(ReadSocket, q, r, k) \/ Held(ReadSocket, s, r, k) \/ (r = y.r /\ k = y.k)
  BY HeldDrop
<1>8. Flow(ReadSocket, q, ReadSocket, s, n, g2, o2) /\ Arrived(g2)
  <2>1. Oldest(y, ReadSocket, q, y, s, n, g, o, ReadSocket, ReadSocket)
    BY <1>0, <1>1, <1>3, <1>4, <1>5, <1>6, <1>7, Marks DEF Oldest
  <2> QED BY <2>1, Arrives
<1>9. Line(ReadSocket, s) /\ Cross(ReadSocket, q, ReadSocket, s, a - 1)
  BY <1>0, <1>1, LineDrop, CrossUse
<1> QED BY <1>1, <1>8, <1>9 DEF Order


-----------------------------------------------------------------------------
(* The steps of processes and of the reader, on the channel.               *)

LEMMA ChannelParts ==
  ASSUME Types
  PROVE  Parts(rdr.item, queue, rdr.smsg, sock, Asked, Sent, got, open)
<1>1. Sent \in [Reqs -> Nat]
  <2>1. \A r \in Reqs : req[r].sent \in Nat
    BY ReqParts DEF Types
  <2> QED BY <2>1 DEF Sent
<1>2. rdr.item \in Items /\ rdr.smsg \in Items /\ Asked \in Nat
  BY RdrParts, NumberTypes DEF Types
<1> QED BY <1>1, <1>2 DEF Parts, Types

LEMMA SentSame ==
  ASSUME NEW r \in Reqs, Only(r), req'[r].sent = req[r].sent
  PROVE  Sent' = Sent
BY DEF Sent, Only

LEMMA SentOne ==
  ASSUME NEW r \in Reqs, Only(r), req'[r].sent = req[r].sent + 1
  PROVE  Sent' = [Sent EXCEPT ![r] = @ + 1] /\ Sent[r] = req[r].sent
BY DEF Sent, Only

LEMMA ChannelStays ==
  ASSUME Channel, UNCHANGED <<queue, sock, got, open>>, rdr'.item = rdr.item,
         rdr'.smsg = rdr.smsg, Asked' = Asked, Sent' = Sent
  PROVE  Channel'
BY DEF Channel

LEMMA ChannelPublish ==
  ASSUME Types, Sending, Balance, Channel, NEW r \in Reqs, QueuePublish(r)
  PROVE  Channel'
<1>1. SendingAt(r) /\ req[r].pc = "publish" /\ req[r] \in ReqSet
  BY DEF Sending, QueuePublish, Types
<1>2. /\ sock' = sock /\ rdr' = rdr /\ got' = got /\ open' = open /\ Asked' = Asked
      /\ rdr'.item = rdr.item /\ rdr'.smsg = rdr.smsg
  BY RdrStays DEF QueuePublish
<1>3. Parts(rdr.item, queue, rdr.smsg, sock, Asked, Sent, got, open)
  BY ChannelParts
<1>4. Order(rdr.item, queue, rdr.smsg, sock, Asked, Sent, got, open)
  BY DEF Channel
<1>5. queue \in Seq(Items) /\ Only(r)
  BY PublishDoes DEF Types
<1>6. CASE req[r].queue
  <2>1. PICK m \in Real : m = req[r].msg
    BY <1>1 DEF SendingAt
  <2>2. m.r = r /\ m.k = req[r].sent + 1 /\ ~m.err /\ m \in Items
    BY <1>1, <1>6, <2>1, RealParts DEF SendingAt
  <2>3. queue' = Append(queue, m)
    BY <1>6, <2>1 DEF QueuePublish
  <2>4. Longer(queue, m, queue')
    BY <1>5, <2>2, <2>3, LongerIs
  <2>5. Sent' = [Sent EXCEPT ![m.r] = @ + 1] /\ m.k = Sent[m.r] + 1
    BY <1>6, <2>2, PublishDoes, SentOne
  <2>6. Hits(queue, Len(queue), {ReadSocket}) + Asked
          >= Hits(sock, Len(sock), Real) + Place(rdr.smsg)
    <3>1. Place(rdr.smsg) = Aside
      BY DEF Place, Aside
    <3>2. Cardinality(Owing) \in Nat
      BY <1>5, SetsMove
    <3> QED BY <3>1, <3>2, NumberTypes DEF Balance, Markers, Arriving
  <2>7. Order(rdr.item, queue', rdr.smsg, sock, Asked, [Sent EXCEPT ![m.r] = @ + 1],
              got, open)
    BY <1>3, <1>4, <2>2, <2>4, <2>5, <2>6, OrderItem
  <2> QED BY <1>2, <2>5, <2>7 DEF Channel
<1>7. CASE ~req[r].queue
  <2>1. queue' = Append(queue, ReadSocket) /\ ReadSocket \in Items \ Real
    BY <1>7, Marks DEF QueuePublish
  <2>2. Longer(queue, ReadSocket, queue')
    BY <1>5, <2>1, LongerIs
  <2>3. Sent' = Sent
    BY <1>7, PublishDoes, SentSame
  <2>4. Order(rdr.item, queue', rdr.smsg, sock, Asked, Sent, got, open)
    BY <1>3, <1>4, <2>1, <2>2, OrderMark
  <2> QED BY <1>2, <2>3, <2>4 DEF Channel
<1> QED BY <1>6, <1>7

LEMMA ChannelDatagram ==
  ASSUME Types, Sending, Places, Channel, NEW r \in Reqs, SendDatagram(r)
  PROVE  Channel'
<1>1. SendingAt(r) /\ PlaceOf(r) /\ req[r].pc = "dgram" /\ req[r] \in ReqSet
  BY DEF Sending, Places, SendDatagram, Types
<1>2. /\ queue' = queue /\ rdr' = rdr /\ got' = got /\ open' = open /\ Asked' = Asked
      /\ rdr'.item = rdr.item /\ rdr'.smsg = rdr.smsg /\ sock' = Append(sock, req[r].msg)
  BY RdrStays DEF SendDatagram, ring
<1>3. Parts(rdr.item, queue, rdr.smsg, sock, Asked, Sent, got, open)
  BY ChannelParts
<1>4. Order(rdr.item, queue, rdr.smsg, sock, Asked, Sent, got, open)
  BY DEF Channel
<1>5. ~req[r].queue
  BY <1>1 DEF SendingAt
<1>6. PICK m \in Real : m = req[r].msg
  BY <1>1 DEF SendingAt
<1>7. m.r = r /\ m.k = req[r].sent + 1 /\ m \in Datagrams
  BY <1>1, <1>5, <1>6, RealParts DEF SendingAt
<1>8. m.err => m.last
  BY <1>1, <1>6 DEF SendingAt
<1>9. m.err \/ Without(m.r, queue)
  BY <1>1, <1>5, <1>6, <1>7 DEF PlaceOf, NoItem
<1>10. Longer(sock, m, sock')
  BY <1>2, <1>6, <1>7, LongerIs DEF Types
<1>11. Sent' = [Sent EXCEPT ![m.r] = @ + 1] /\ m.k = Sent[m.r] + 1
  BY <1>7, DatagramDoes, SentOne
<1>12. Order(rdr.item, queue, rdr.smsg, sock', Asked, [Sent EXCEPT ![m.r] = @ + 1],
             got, open)
  BY <1>3, <1>4, <1>8, <1>9, <1>10, <1>11, OrderDatagram
<1> QED BY <1>2, <1>11, <1>12 DEF Channel

LEMMA ChannelBell ==
  ASSUME Types, Channel, NEW r \in Reqs, SendBell(r)
  PROVE  Channel'
<1>1. /\ queue' = queue /\ rdr' = rdr /\ got' = got /\ open' = open /\ Asked' = Asked
      /\ rdr'.item = rdr.item /\ rdr'.smsg = rdr.smsg /\ sock' = Append(sock, ReadQueue)
  BY RdrStays DEF SendBell, ring
<1>2. Parts(rdr.item, queue, rdr.smsg, sock, Asked, Sent, got, open)
  BY ChannelParts
<1>3. Order(rdr.item, queue, rdr.smsg, sock, Asked, Sent, got, open)
  BY DEF Channel
<1>4. ReadQueue \in Datagrams \ Real /\ sock \in Seq(Datagrams)
  BY Marks DEF Types
<1>5. Longer(sock, ReadQueue, sock')
  BY <1>1, <1>4, LongerIs
<1>6. Sent' = Sent
  <2>1. Only(r) /\ req'[r].sent = req[r].sent
    BY InQueueDoes DEF SendBell
  <2> QED BY <2>1, SentSame
<1>7. Order(rdr.item, queue, rdr.smsg, sock', Asked, Sent, got, open)
  BY <1>2, <1>3, <1>4, <1>5, OrderBell
<1> QED BY <1>1, <1>6, <1>7 DEF Channel

LEMMA ChannelSend ==
  ASSUME Types, Sending, Balance, Places, Channel, NEW r \in Reqs,
         SendStep(r) \/ SendDatagramFails(r) \/ Killed(r)
  PROVE  Channel'
<1>0. ASSUME UNCHANGED <<queue, sock, rdr, got, open>>, Only(r),
             req'[r].sent = req[r].sent
      PROVE  Channel'
  BY <1>0, SentSame, RdrStays, ChannelStays
<1>1. CASE Quiet(r)
  BY <1>0, <1>1, QuietDoes DEF SharedButFaults, ring
<1>2. CASE Faulty(r)
  BY <1>0, <1>2, FaultyDoes DEF SharedButFaults, ring
<1>3. CASE QueuePublish(r)
  BY <1>3, ChannelPublish
<1>4. CASE QueueTail(r)
  <2>1. UNCHANGED <<queue, sock, rdr, got, open>>
    BY <1>4 DEF QueueTail
  <2> QED BY <1>0, <1>4, <2>1, TailDoes
<1>5. CASE QueueCount(r)
  <2>1. UNCHANGED <<queue, sock, rdr, got, open>>
    BY <1>5 DEF QueueCount, ring
  <2>2. Only(r) /\ req'[r].sent = req[r].sent
    BY <1>5, CountDoes, InQueueDoes
  <2> QED BY <1>0, <2>1, <2>2
<1>6. CASE SendBell(r)
  BY <1>6, ChannelBell
<1>7. CASE SendDatagram(r)
  BY <1>7, ChannelDatagram
<1> QED BY <1>1, <1>2, <1>3, <1>4, <1>5, <1>6, <1>7, SendCases

LEMMA ChannelTake ==
  ASSUME Types, Channel, rdr.from = 0, rdr.pc \notin Hands, rdr.item = ReadSocket,
         queue # <<>>, Dequeue, NEW p \in Hands,
         rdr' = [rdr EXCEPT !.pc = p, !.item = Head(queue)],
         UNCHANGED <<sock, req, got, open>>
  PROVE  Channel'
<1>1. p \in ReadPcs
  BY DEF Hands, ReadPcs
<1>2. /\ rdr'.pc = p /\ rdr'.from = 0 /\ rdr'.smsg = rdr.smsg
      /\ rdr'.item = Head(queue)
  BY <1>1, TakeDoes, DequeueDoes
<1>3. Asked = 0 /\ Asked' = IF Head(queue) = ReadSocket THEN 1 ELSE 0
  BY <1>2 DEF Asked, ReadSocket, Msg, Hands
<1>4. Sent' = Sent /\ queue' = Tail(queue)
  BY DEF Sent, Dequeue
<1>5. Parts(ReadSocket, queue, rdr.smsg, sock, 0, Sent, got, open)
  BY <1>3, ChannelParts
<1>6. Order(ReadSocket, queue, rdr.smsg, sock, 0, Sent, got, open)
  BY <1>3 DEF Channel
<1>7. Order(Head(queue), Tail(queue), rdr.smsg, sock,
            IF Head(queue) = ReadSocket THEN 1 ELSE 0, Sent, got, open)
  BY <1>5, <1>6, OrderTake
<1> QED BY <1>2, <1>3, <1>4, <1>7 DEF Channel

LEMMA ChannelItem ==
  ASSUME Types, Reading, Channel, ReadItem
  PROVE  Channel'
<1>1. /\ rdr.pc \in Hands /\ rdr'.pc = "loop" /\ rdr.from = 0 /\ rdr'.item = ReadSocket
      /\ rdr'.from = (IF rdr.item = ReadSocket THEN rdr.from + 1 ELSE rdr.from)
      /\ rdr'.smsg = rdr.smsg
  BY ItemDoes DEF ReadItem, Reading, Hands
<1>2. queue' = queue /\ sock' = sock /\ Sent' = Sent
  BY DEF ReadItem, ring, Sent
<1>3. CASE rdr.item = ReadSocket
  <2>1. Asked = 1 /\ Asked' = 1
    <3>1. Asked = rdr.from + 1 /\ Asked' = rdr'.from + 0
      BY <1>1, <1>3, AskedIs DEF Hands
    <3> QED BY <1>1, <1>3, <3>1
  <2>2. UNCHANGED <<got, open>>
    BY <1>3 DEF ReadItem
  <2> QED BY <1>1, <1>2, <1>3, <2>1, <2>2, ChannelStays
<1>4. CASE rdr.item # ReadSocket
  <2>1. rdr.item \in Real
    BY <1>4, ItemParts, RdrParts DEF Types
  <2>2. Took(rdr.item, got, open, got', open')
    BY <1>4 DEF ReadItem, Process, Took
  <2>3. Asked' = Asked
    <3>1. Asked = rdr.from + 0 /\ Asked' = rdr'.from + 0
      BY <1>1, <1>4, AskedIs DEF Hands
    <3> QED BY <1>1, <1>4, <3>1
  <2>4. Order(ReadSocket, queue, rdr.smsg, sock, Asked, Sent, got', open')
    BY <2>1, <2>2, ChannelParts, OrderDone DEF Channel
  <2> QED BY <1>1, <1>2, <2>3, <2>4 DEF Channel
<1> QED BY <1>3, <1>4

LEMMA ChannelMarked ==
  ASSUME Types, Reading, Channel, ReadMarked
  PROVE  Channel'
<1>1. /\ rdr.pc = "loop" /\ rdr.from > 0 /\ rdr.item = ReadSocket /\ rdr.from \in Nat
      /\ queue' = queue /\ sock' = sock /\ Sent' = Sent
  BY RdrParts DEF ReadMarked, Reading, Hands, ring, Sent, Types
<1>2. Asked = rdr.from
  BY <1>1, AskedIs DEF Hands
<1>3. CASE /\ rdr.smsg # ReadSocket /\ Process(rdr.smsg)
           /\ rdr' = [rdr EXCEPT !.smsg = ReadSocket, !.from = @ - 1]
  <2>1. /\ rdr'.pc = "loop" /\ rdr'.from = rdr.from - 1 /\ rdr'.smsg = ReadSocket
        /\ rdr'.item = ReadSocket
    BY <1>1, <1>3, AsideDoes
  <2>2. Asked' = Asked - 1
    BY <1>1, <1>2, <2>1, AskedIs DEF Hands
  <2>3. rdr.smsg \in Real
    BY <1>3, ItemParts, RdrParts DEF Types
  <2>4. Took(rdr.smsg, got, open, got', open')
    BY <1>3 DEF Process, Took
  <2>5. Order(ReadSocket, queue, rdr.smsg, sock, Asked, Sent, got, open)
    BY <1>1 DEF Channel
  <2>6. Parts(ReadSocket, queue, rdr.smsg, sock, Asked, Sent, got, open)
    BY <1>1, ChannelParts
  <2>7. Order(ReadSocket, queue, ReadSocket, sock, Asked - 1, Sent, got', open')
    BY <1>1, <1>2, <2>3, <2>4, <2>5, <2>6, OrderUse
  <2> QED BY <1>1, <2>1, <2>2, <2>7 DEF Channel
<1>4. CASE /\ rdr' = [rdr EXCEPT !.pc = IF rdr.ready THEN "recv" ELSE "sleep"]
           /\ UNCHANGED <<got, open>>
  <2>1. PICK p \in {"recv", "sleep"} : rdr' = [rdr EXCEPT !.pc = p]
    BY <1>4
  <2>2. /\ rdr'.pc = p /\ rdr'.from = rdr.from /\ rdr'.smsg = rdr.smsg
        /\ rdr'.item = rdr.item
    BY <2>1, PcDoes DEF ReadPcs
  <2>3. Asked' = Asked
    BY <1>1, <1>2, <2>1, <2>2, AskedIs DEF Hands
  <2> QED BY <1>1, <1>4, <2>2, <2>3, ChannelStays
<1> QED BY <1>3, <1>4 DEF ReadMarked

LEMMA ChannelRecv ==
  ASSUME Types, Reading, Channel, RecvDoorbell \/ RecvDatagram
  PROVE  Channel'
<1>1. /\ rdr.pc = "recv" /\ rdr.item = ReadSocket /\ rdr.smsg = ReadSocket
      /\ rdr.from \in Nat /\ queue' = queue /\ sock # <<>> /\ sock' = Tail(sock)
      /\ Sent' = Sent
  BY RdrParts DEF RecvDoorbell, RecvDatagram, Reading, Hands, ring, Sent, Types
<1>2. Asked = rdr.from
  BY <1>1, AskedIs DEF Hands
<1>3. /\ Parts(ReadSocket, queue, ReadSocket, sock, Asked, Sent, got, open)
      /\ Order(ReadSocket, queue, ReadSocket, sock, Asked, Sent, got, open)
  BY <1>1, ChannelParts DEF Channel
<1>4. sock \in Seq(Datagrams) /\ Head(sock) \in Datagrams /\ Tail(sock) \in Seq(Datagrams)
  BY <1>1, Tailed DEF Types
<1>5. CASE RecvDoorbell
  <2>1. /\ rdr'.pc = "loop" /\ rdr'.from = rdr.from /\ rdr'.smsg = rdr.smsg
        /\ rdr'.item = rdr.item
    BY <1>5, PcDoes DEF RecvDoorbell, ReadPcs
  <2>2. Asked' = Asked
    BY <1>1, <1>2, <2>1, AskedIs DEF Hands
  <2>3. Head(sock) \notin Real
    BY <1>5, Marks DEF RecvDoorbell
  <2>4. Order(ReadSocket, queue, ReadSocket, Tail(sock), Asked, Sent, got, open)
    BY <1>1, <1>3, <2>3, OrderAside
  <2>5. UNCHANGED <<got, open>>
    BY <1>5 DEF RecvDoorbell
  <2> QED BY <1>1, <2>1, <2>2, <2>4, <2>5 DEF Channel
<1>6. CASE RecvDatagram
  <2>1. Head(sock) \in Real
    BY <1>4, <1>6, ItemParts DEF RecvDatagram
  <2>2. Order(ReadSocket, queue, Head(sock), Tail(sock), Asked, Sent, got, open)
    BY <1>1, <1>3, <2>1, OrderAside
  <2>3. CASE rdr.from > 0
    <3>1. Process(Head(sock)) /\ rdr' = [rdr EXCEPT !.pc = "loop", !.from = @ - 1]
      BY <1>6, <2>3 DEF RecvDatagram
    <3>2. /\ rdr'.pc = "loop" /\ rdr'.from = rdr.from - 1 /\ rdr'.smsg = rdr.smsg
          /\ rdr'.item = rdr.item
      BY <2>3, <3>1, UseDoes
    <3>3. Asked' = Asked - 1
      BY <1>1, <1>2, <3>2, AskedIs DEF Hands
    <3>4. Took(Head(sock), got, open, got', open')
      BY <3>1 DEF Process, Took
    <3>5. Parts(ReadSocket, queue, Head(sock), Tail(sock), Asked, Sent, got, open)
      BY <1>3, <1>4, <2>1, RealParts DEF Parts
    <3>6. Order(ReadSocket, queue, ReadSocket, Tail(sock), Asked - 1, Sent, got', open')
      BY <1>2, <2>1, <2>2, <2>3, <3>4, <3>5, OrderUse
    <3> QED BY <1>1, <3>2, <3>3, <3>6 DEF Channel
  <2>4. CASE rdr.from = 0
    <3>1. /\ rdr' = [rdr EXCEPT !.pc = "loop", !.smsg = Head(sock)]
          /\ UNCHANGED <<got, open>>
      BY <1>6, <2>4, SuspendFree
    <3>2. Head(sock) # ReadQueue /\ Head(sock) = sock[1]
      BY <1>1, <1>4, <1>6 DEF RecvDatagram
    <3>3. /\ rdr'.pc = "loop" /\ rdr'.from = rdr.from /\ rdr'.smsg = Head(sock)
          /\ rdr'.item = rdr.item
      BY <1>1, <3>1, <3>2, SuspendDoes
    <3>4. Asked' = Asked
      BY <1>1, <1>2, <3>3, AskedIs DEF Hands
    <3> QED BY <1>1, <2>2, <3>1, <3>3, <3>4 DEF Channel
  <2> QED BY <1>1, <2>3, <2>4
<1> QED BY <1>5, <1>6

LEMMA ChannelRead ==
  ASSUME Types, Reading, Channel, ReadStep
  PROVE  Channel'
<1>0. UNCHANGED req
  BY DEF ReadStep, ReadEvent, ReadQueueItem, ReadRelease, ReadSecond, ReadUncount,
         ReadItem, ReadMarked, RecvAgain, RecvDoorbell, RecvDatagram
<1>1. ASSUME UNCHANGED <<queue, sock, got, open>>, rdr'.item = rdr.item,
             rdr'.smsg = rdr.smsg, rdr'.from = rdr.from,
             rdr.pc \in Hands <=> rdr'.pc \in Hands
      PROVE  Channel'
  <2>1. Asked' = Asked /\ Sent' = Sent
    BY <1>0, <1>1 DEF Asked, Sent, ReadSocket, Msg, Hands
  <2> QED BY <1>1, <2>1, ChannelStays
<1>2. ASSUME NEW p \in ReadPcs, rdr' = [rdr EXCEPT !.pc = p],
             UNCHANGED <<queue, sock, got, open>>, rdr.pc \in Hands <=> p \in Hands
      PROVE  Channel'
  BY <1>1, <1>2, PcDoes
<1>3. CASE ReadEvent
  BY <1>1, <1>3, EventDoes DEF ReadEvent, ring, Hands
<1>4. CASE ReadQueueItem
  <2>1. rdr.pc = "loop" /\ rdr.from = 0 /\ rdr.item = ReadSocket
    BY <1>4 DEF ReadQueueItem, Reading, Hands
  <2>2. CASE queue # <<>> /\ Dequeue
             /\ rdr' = [rdr EXCEPT !.pc = "taken", !.item = Head(queue)]
    BY <1>4, <2>1, <2>2, ChannelTake DEF ReadQueueItem, Hands
  <2>3. CASE rdr' = [rdr EXCEPT !.pc = IF rdr.ready THEN "recv" ELSE "release"]
             /\ UNCHANGED <<queue, head>>
    <3>1. PICK p \in {"recv", "release"} : rdr' = [rdr EXCEPT !.pc = p]
      BY <2>3
    <3> QED BY <1>2, <1>4, <2>1, <2>3, <3>1 DEF ReadQueueItem, Hands, ReadPcs
  <2> QED BY <1>4, <2>2, <2>3 DEF ReadQueueItem
<1>5. CASE ReadRelease
  BY <1>2, <1>5 DEF ReadRelease, ring, Hands, ReadPcs
<1>6. CASE ReadSecond
  <2>1. rdr.pc = "second" /\ rdr.from = 0 /\ rdr.item = ReadSocket
    BY <1>6 DEF ReadSecond, Reading, Hands
  <2>2. CASE queue # <<>> /\ Dequeue
             /\ rdr' = [rdr EXCEPT !.pc = "uncount", !.item = Head(queue)]
    BY <1>6, <2>1, <2>2, ChannelTake DEF ReadSecond, Hands
  <2>3. CASE rdr' = [rdr EXCEPT !.pc = "sleep"] /\ UNCHANGED <<queue, head>>
    BY <1>2, <1>6, <2>1, <2>3 DEF ReadSecond, Hands, ReadPcs
  <2> QED BY <1>6, <2>2, <2>3 DEF ReadSecond
<1>7. CASE ReadUncount
  BY <1>2, <1>7 DEF ReadUncount, ring, Hands, ReadPcs
<1>8. CASE ReadItem
  BY <1>8, ChannelItem
<1>9. CASE ReadMarked
  BY <1>9, ChannelMarked
<1>10. CASE RecvAgain
  BY <1>1, <1>10, AgainDoes DEF RecvAgain, ring, Hands
<1>11. CASE RecvDoorbell \/ RecvDatagram
  BY <1>11, ChannelRecv
<1> QED BY <1>3, <1>4, <1>5, <1>6, <1>7, <1>8, <1>9, <1>10, <1>11 DEF ReadStep

LEMMA ChannelInit == Init => Channel
<1> SUFFICES ASSUME Init
             PROVE  Channel
  OBVIOUS
<1>1. /\ queue = <<>> /\ sock = <<>> /\ Len(queue) = 0 /\ Len(sock) = 0
      /\ rdr.item = ReadSocket /\ rdr.smsg = ReadSocket
      /\ \A r \in Reqs : got[r] = <<>> /\ Len(got[r]) = 0
      /\ open = Reqs
  BY DEF Init, Rdr
<1>2. \A r \in Reqs : Sent[r] = 0
  BY DEF Init, NewReq, Sent
<1>3. \A i \in 0..0 : At(ReadSocket, <<>>, i) = ReadSocket /\ ReadSocket \notin Real
  BY Marks DEF At
<1>4. /\ Line(ReadSocket, queue) /\ Line(ReadSocket, sock)
      /\ Cross(ReadSocket, queue, ReadSocket, sock, Asked)
  BY <1>1, <1>3 DEF Line, Cross
<1>5. /\ Fines(ReadSocket, queue, FALSE, Sent, got, open)
      /\ Fines(ReadSocket, sock, TRUE, Sent, got, open)
  BY <1>1, <1>3 DEF Fines
<1>6. Whole(ReadSocket, queue, ReadSocket, sock, Sent, got, open)
  BY <1>1, <1>2 DEF Whole
<1>7. Arrived(got)
  BY <1>1 DEF Arrived
<1> QED BY <1>1, <1>4, <1>5, <1>6, <1>7 DEF Channel, Order, Flow

LEMMA OrderKept ==
  ASSUME WakeInv, Sending, OrderInv, [Next]_vars
  PROVE  OrderInv'
<1>0. WakeInv' /\ Sending'
  BY WakeKept
<1> USE DEF WakeInv, OrderInv
<1>1. ASSUME NEW r \in Reqs, SendStep(r) \/ SendDatagramFails(r) \/ Killed(r)
      PROVE  OrderInv'
  BY <1>0, <1>1, PlacesSend, ChannelSend
<1>2. CASE ReadStep
  BY <1>2, PlacesRead, ChannelRead
<1>3. CASE UNCHANGED vars
  <2>1. /\ UNCHANGED ring /\ UNCHANGED req /\ UNCHANGED <<queue, sock, got, open>>
        /\ UNCHANGED rdr
    BY <1>3 DEF vars, ring
  <2>2. Sent' = Sent /\ rdr'.item = rdr.item /\ rdr'.smsg = rdr.smsg
    BY <2>1 DEF Sent
  <2> QED BY <2>1, <2>2, PlacesStay, RdrStays, ChannelStays
<1> QED BY <1>1, <1>2, <1>3 DEF Next

\* The messages of a request reach their handler in the order they were sent and
\* without a gap, over the queue, the socket or both, and the place for one
\* suspended datagram is enough: nxt_unit_req_send() and
\* nxt_unit_req_queue_drain() leave the queue only when nxt_port_queue_taken()
\* is right that nothing of the request is in it, and
\* nxt_port_queue_read_handler() reads one datagram for every marker.  For any
\* number of processes and messages, any sizes of the queue and the socket, and
\* any processes killed or datagrams refused.
THEOREM ChannelOrdered == Spec => []Ordered
<1>1. Init => WakeInv /\ Sending /\ OrderInv
  BY TypesInit, SendingInit, WakeInit, PlacesInit, ChannelInit DEF WakeInv, OrderInv
<1>2. WakeInv /\ Sending /\ OrderInv /\ [Next]_vars =>
        WakeInv' /\ Sending' /\ OrderInv'
  BY WakeKept, OrderKept
<1>3. WakeInv /\ Sending /\ OrderInv => Ordered
  <2> SUFFICES ASSUME WakeInv, OrderInv
               PROVE  Ordered
    OBVIOUS
  <2>1. InOrder
    BY DEF OrderInv, Channel, Order, Arrived, InOrder
  <2>2. SuspendOne
    BY DEF WakeInv, Reading, SuspendOne
  <2> QED BY <2>1, <2>2 DEF Ordered
<1> QED BY <1>1, <1>2, <1>3, PTL DEF Spec

=============================================================================
