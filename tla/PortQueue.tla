------------------------------ MODULE PortQueue -----------------------------
(***************************************************************************)
(* The port of a router engine as the worker processes write to it: a      *)
(* queue in shared memory (src/src/nxt_port_queue.h) beside a datagram     *)
(* socket, the messages of requests that choose between them               *)
(* (nxt_unit_req_send, nxt_unit_port_send_impl in nxt_unit.c) and the      *)
(* engine that joins both again (nxt_port_queue_read_handler in            *)
(* nxt_port_socket.c).                                                     *)
(*                                                                         *)
(* The circular queue is first-in first-out (module Nncq), with a tail     *)
(* that lags one item behind until its enqueuer or the next one moves it;  *)
(* head and tail are counters of a fixed width, Wrap values.  A slot goes  *)
(* back to free_items with the dequeue that empties it.  Each request is   *)
(* sent by a process of its own.                                           *)
(***************************************************************************)
EXTENDS Integers, Sequences, FiniteSetsExt

CONSTANTS Reqs,       \* requests, each of its own process
          NoReq,      \* the sender of a marker or a doorbell
          MaxMsgs,    \* bound: messages of each request, the last one included
          QueueSize,  \* NXT_PORT_QUEUE_SIZE
          Wrap,       \* head and tail count modulo Wrap (2^32 in the code)
          Starts,     \* positions that the counters reached before
          SockCap,    \* bound: unread datagrams that fill the socket
          MaxFaults   \* bound: processes killed and datagrams refused

ASSUME PortQueueAssumption ==
  /\ IsFiniteSet(Reqs) /\ NoReq \notin Reqs
  /\ {QueueSize, Wrap, SockCap} \subseteq Nat \ {0}
  /\ MaxMsgs \in [Reqs -> Nat \ {0}]
  /\ MaxFaults \in Nat
  /\ 2 * QueueSize + Cardinality(Reqs) < Wrap /\ Starts \subseteq 0..(Wrap - 1)

VARIABLES queue,   \* the items of the queue, oldest first
          head,    \* position of the oldest item
          tail,    \* position after the newest one, or one less
          nitems,  \* items counted, and one for a reader that is awake
          sock,    \* datagrams in the socket, oldest first
          edge,    \* an event of the socket that the engine has not polled
          req,     \* req[r]: what the process knows of its request
          rdr,     \* the engine that reads the port
          got,     \* got[r]: the messages that reached the handler, in order
          open,    \* requests whose handler is registered
          faults

ring == <<queue, head, tail>>
vars == <<ring, nitems, sock, edge, req, rdr, got, open, faults>>

\* The k-th message of request r; "last" ends the request, and "err" is the
\* error of nxt_unit_req_send_error().
Msg(r, k, last, err) == [r |-> r, k |-> k, last |-> last, err |-> err]
ReadSocket == Msg(NoReq, 0, FALSE, FALSE)   \* the marker in the queue
ReadQueue == Msg(NoReq, 1, FALSE, FALSE)    \* the doorbell in the socket

QueueStates == {"unqueued", "queued", "socket", "failed"}

\* A request: the next step of its process, queue_state, messages sent,
\* queue_pos, the message at hand, whether it goes to the queue, the position
\* its item or marker took, and the head that nxt_port_queue_taken() loaded.
NewReq(qs) ==
  [pc |-> "idle", state |-> qs, sent |-> 0, queue_pos |-> 0, msg |-> ReadSocket,
   queue |-> FALSE, pos |-> 0, head |-> 0, done |-> FALSE]

\* The locals of a send that is over are gone.
Rest(q) == [NewReq(q.state) EXCEPT !.sent = q.sent, !.done = q.done,
                                   !.queue_pos = IF q.done THEN 0 ELSE q.queue_pos]

\* The reader: the next step, read_ready, from_socket, the suspended message
\* (none: ReadSocket) and the item that it took.
Rdr == [pc |-> "sleep", ready |-> FALSE, from |-> 0, smsg |-> ReadSocket,
        item |-> ReadSocket]

Init ==
  /\ head \in Starts /\ tail = head /\ queue = <<>>
  /\ nitems = 0 /\ sock = <<>> /\ edge = FALSE
  /\ req \in [Reqs -> {NewReq("unqueued"), NewReq("socket")}]
  /\ rdr = Rdr
  /\ got = [r \in Reqs |-> <<>>] /\ open = Reqs
  /\ faults = 0

-----------------------------------------------------------------------------
(* A worker process: nxt_unit_req_send().                                  *)

\* Whether the message may go to the queue.  The acknowledgement, the first
\* message of a request, always goes to the socket.
ToQueue(r, fits, shm_ok, last) ==
  /\ fits /\ (req[r].sent = 0 => last)
  /\ \/ last
     \/ req[r].state = "queued"
     \/ req[r].state = "unqueued" /\ shm_ok

\* A request that left the queue for a message that does not fit waits first.
ReqSend(r, fits, shm_ok, last) ==
  LET queued == ToQueue(r, fits, shm_ok, last)
  IN /\ req[r].pc = "idle" /\ ~req[r].done /\ req[r].state # "failed"
     /\ req[r].sent < MaxMsgs[r] /\ (req[r].sent = MaxMsgs[r] - 1 => last)
     /\ req' = [req EXCEPT
          ![r].pc = IF ~queued /\ req[r].state = "queued" THEN "taken"
                                                          ELSE "publish",
          ![r].msg = Msg(r, req[r].sent + 1, last, FALSE),
          ![r].queue = queued, ![r].done = last]
     /\ UNCHANGED <<ring, nitems, sock, edge, rdr, got, open, faults>>

\* A plain buffer over NXT_UNIT_QUEUE_PLAIN_SIZE: the request stays on the
\* socket.
PlainBuf(r) ==
  /\ req[r].pc = "idle" /\ ~req[r].done /\ req[r].sent > 0
  /\ req[r].state = "unqueued"
  /\ req' = [req EXCEPT ![r].state = "socket"]
  /\ UNCHANGED <<ring, nitems, sock, edge, rdr, got, open, faults>>

\* nxt_port_queue_taken() loads the head ...
TakenHead(r) ==
  /\ req[r].pc = "taken"
  /\ req' = [req EXCEPT ![r].pc = "window", ![r].head = head]
  /\ UNCHANGED <<ring, nitems, sock, edge, rdr, got, open, faults>>

\* Mutant: positions are compared as if they never wrapped.
TakenNoWrap(r) == req[r].queue_pos < req[r].head

\* ... and then the tail: the item was taken if it is outside the window.
Taken(r) ==
  LET waiting == (tail - req[r].head) % Wrap
      window == IF waiting > QueueSize THEN QueueSize ELSE waiting
  IN (req[r].queue_pos - req[r].head) % Wrap >= window

\* nxt_unit_req_queue_drain(): asks again, or moves to the socket for good.
Drain(r) ==
  /\ req[r].pc = "window"
  /\ req' = [req EXCEPT ![r].pc = IF Taken(r) THEN "publish" ELSE "taken",
                        ![r].state = IF Taken(r) THEN "socket" ELSE @,
                        ![r].queue_pos = IF Taken(r) THEN 0 ELSE @, ![r].head = 0]
  /\ UNCHANGED <<ring, nitems, sock, edge, rdr, got, open, faults>>

\* The wait is over NXT_UNIT_DRAIN_TIMEOUT: nxt_unit_req_send_error() ends
\* the request with an error on the socket.
DrainFails(r) ==
  /\ req[r].pc = "window" /\ ~Taken(r)
  /\ req' = [req EXCEPT ![r].pc = "publish", ![r].state = "failed",
                        ![r].msg = Msg(r, req[r].sent + 1, TRUE, TRUE),
                        ![r].done = TRUE, ![r].head = 0]
  /\ UNCHANGED <<ring, nitems, sock, edge, rdr, got, open, faults>>

-----------------------------------------------------------------------------
(* nxt_unit_port_send_impl() with nxt_port_queue_send_pos().               *)

\* The message or, for one that goes to the socket, a marker.
QueuePublish(r) ==
  /\ req[r].pc = "publish" /\ Len(queue) < QueueSize
  /\ queue' = Append(queue, IF req[r].queue THEN req[r].msg ELSE ReadSocket)
  /\ tail' = (head + Len(queue)) % Wrap
  /\ req' = [req EXCEPT ![r].pc = "tail", ![r].pos = (head + Len(queue)) % Wrap,
                        ![r].sent = IF req[r].queue THEN @ + 1 ELSE @]
  /\ UNCHANGED <<head, nitems, sock, edge, rdr, got, open, faults>>

\* No free item, or the retries of the enqueue are used up by another one:
\* the caller gets -1.
QueueOverflow(r) ==
  /\ req[r].pc = "publish"
  /\ Len(queue) = QueueSize \/ \E s \in Reqs \ {r} : req[s].pc = "tail"
  /\ req' = [req EXCEPT ![r] = Rest(@)]
  /\ UNCHANGED <<ring, nitems, sock, edge, rdr, got, open, faults>>

\* nxt_nncq_tail_cmp_inc().
QueueTail(r) ==
  /\ req[r].pc = "tail"
  /\ tail' = IF tail = req[r].pos THEN (tail + 1) % Wrap ELSE tail
  /\ req' = [req EXCEPT ![r].pc = "count", ![r].pos = IF req[r].queue THEN @ ELSE 0]
  /\ UNCHANGED <<queue, head, nitems, sock, edge, rdr, got, open, faults>>

\* nxt_unit_req_send() keeps only the position of a message that is in the
\* queue, as long as the request may have to wait for it.
InQueue(q) ==
  LET state == IF q.state = "unqueued" THEN "queued" ELSE q.state
  IN [Rest(q) EXCEPT !.state = state,
                     !.queue_pos = IF state = "queued" /\ ~q.done THEN q.pos ELSE 0]

\* The sender that counts the first item rings the doorbell.
QueueCount(r) ==
  /\ req[r].pc = "count"
  /\ nitems' = nitems + 1
  /\ req' = [req EXCEPT ![r] =
       CASE ~req[r].queue -> [@ EXCEPT !.pc = "dgram"]
         [] req[r].queue /\ nitems = 0 -> [@ EXCEPT !.pc = "bell"]
         [] OTHER -> InQueue(@)]
  /\ UNCHANGED <<ring, sock, edge, rdr, got, open, faults>>

\* sendmsg() blocks while the socket is full.
SendBell(r) ==
  /\ req[r].pc = "bell" /\ Len(sock) < SockCap
  /\ sock' = Append(sock, ReadQueue) /\ edge' = TRUE
  /\ req' = [req EXCEPT ![r] = InQueue(@)]
  /\ UNCHANGED <<ring, nitems, rdr, got, open, faults>>

SendDatagram(r) ==
  /\ req[r].pc = "dgram" /\ Len(sock) < SockCap
  /\ sock' = Append(sock, req[r].msg) /\ edge' = TRUE
  /\ req' = [req EXCEPT ![r] = Rest([@ EXCEPT !.sent = req[r].sent + 1])]
  /\ UNCHANGED <<ring, nitems, rdr, got, open, faults>>

\* sendmsg() fails after the marker.
SendDatagramFails(r) ==
  /\ req[r].pc = "dgram" /\ faults < MaxFaults
  /\ faults' = faults + 1
  /\ req' = [req EXCEPT ![r] = Rest(@)]
  /\ UNCHANGED <<ring, nitems, sock, edge, rdr, got, open>>

\* The process is killed in the middle of a send.  (Between two sends it leaves
\* nothing behind, and a process may stop sending anyway.)
Killed(r) ==
  /\ req[r].pc \notin {"idle", "dead"} /\ faults < MaxFaults
  /\ faults' = faults + 1
  /\ req' = [req EXCEPT ![r] = [Rest([@ EXCEPT !.done = TRUE]) EXCEPT !.pc = "dead"]]
  /\ UNCHANGED <<ring, nitems, sock, edge, rdr, got, open>>

-----------------------------------------------------------------------------
(* The router engine: nxt_port_queue_read_handler().                       *)

ReadEvent ==
  /\ rdr.pc = "sleep" /\ edge
  /\ edge' = FALSE
  /\ rdr' = [rdr EXCEPT !.pc = "loop", !.ready = TRUE]
  /\ nitems' = nitems + 1
  /\ UNCHANGED <<ring, sock, req, got, open, faults>>

Dequeue == queue' = Tail(queue) /\ head' = (head + 1) % Wrap

\* Takes an item; with none it reads the socket, or prepares to sleep.
ReadQueueItem ==
  /\ rdr.pc = "loop" /\ rdr.from = 0
  /\ \/ /\ queue # <<>> /\ Dequeue
        /\ rdr' = [rdr EXCEPT !.pc = "taken", !.item = Head(queue)]
     \/ /\ queue = <<>>
        /\ rdr' = [rdr EXCEPT !.pc = IF rdr.ready THEN "recv" ELSE "release"]
        /\ UNCHANGED <<queue, head>>
  /\ UNCHANGED <<tail, nitems, sock, edge, req, got, open, faults>>

\* Mutant: the credit is kept.
ReadReleaseNothing ==
  /\ rdr.pc = "release"
  /\ rdr' = [rdr EXCEPT !.pc = "second"]
  /\ UNCHANGED <<ring, nitems, sock, edge, req, got, open, faults>>

\* Gives its credit back and looks at the queue once more before it sleeps.
ReadRelease ==
  /\ rdr.pc = "release"
  /\ nitems' = nitems - 1
  /\ rdr' = [rdr EXCEPT !.pc = "second"]
  /\ UNCHANGED <<ring, sock, edge, req, got, open, faults>>

\* Mutant: no second look.
ReadNoSecond ==
  /\ rdr.pc = "second"
  /\ rdr' = [rdr EXCEPT !.pc = "sleep"]
  /\ UNCHANGED <<ring, nitems, sock, edge, req, got, open, faults>>

ReadSecond ==
  /\ rdr.pc = "second"
  /\ \/ /\ queue # <<>> /\ Dequeue
        /\ rdr' = [rdr EXCEPT !.pc = "uncount", !.item = Head(queue)]
     \/ /\ queue = <<>>
        /\ rdr' = [rdr EXCEPT !.pc = "sleep"]
        /\ UNCHANGED <<queue, head>>
  /\ UNCHANGED <<tail, nitems, sock, edge, req, got, open, faults>>

\* The item that the second look found is not counted any more; the credit
\* is taken again by the step after it.
ReadUncount ==
  /\ rdr.pc = "uncount"
  /\ nitems' = nitems - 1
  /\ rdr' = [rdr EXCEPT !.pc = "recredit"]
  /\ UNCHANGED <<ring, sock, edge, req, got, open, faults>>

\* nxt_port_rpc_handler(): a message finds its handler until the last one
\* has come.
Process(m) ==
  /\ got' = IF m.r \in open THEN [got EXCEPT ![m.r] = Append(@, m)] ELSE got
  /\ open' = IF m.last THEN open \ {m.r} ELSE open

\* An item: a marker asks for one datagram, a message is processed.
ReadItem ==
  /\ rdr.pc \in {"taken", "recredit"}
  /\ nitems' = IF rdr.pc = "taken" THEN nitems - 1 ELSE nitems + 1
  /\ rdr' = [rdr EXCEPT !.pc = "loop", !.item = ReadSocket,
                        !.from = IF rdr.item = ReadSocket THEN @ + 1 ELSE @]
  /\ IF rdr.item = ReadSocket THEN UNCHANGED <<got, open>>
                              ELSE Process(rdr.item)
  /\ UNCHANGED <<ring, sock, edge, req, faults>>

\* A marker waits for its datagram: the suspended one, the next one of the
\* socket, or one that has not come.
ReadMarked ==
  /\ rdr.pc = "loop" /\ rdr.from > 0
  /\ \/ /\ rdr.smsg # ReadSocket
        /\ Process(rdr.smsg)
        /\ rdr' = [rdr EXCEPT !.smsg = ReadSocket, !.from = @ - 1]
        /\ UNCHANGED nitems
     \/ /\ rdr.smsg = ReadSocket
        /\ rdr' = [rdr EXCEPT !.pc = IF rdr.ready THEN "recv" ELSE "sleep"]
        /\ nitems' = IF rdr.ready THEN nitems ELSE nitems - 1
        /\ UNCHANGED <<got, open>>
  /\ UNCHANGED <<ring, sock, edge, req, faults>>

\* An empty socket: NXT_AGAIN clears read_ready.
RecvAgain ==
  /\ rdr.pc = "recv" /\ sock = <<>>
  /\ rdr' = [rdr EXCEPT !.pc = "loop", !.ready = FALSE]
  /\ UNCHANGED <<ring, nitems, sock, edge, req, got, open, faults>>

RecvDoorbell ==
  /\ rdr.pc = "recv" /\ sock # <<>> /\ Head(sock) = ReadQueue
  /\ sock' = Tail(sock)
  /\ rdr' = [rdr EXCEPT !.pc = "loop"]
  /\ UNCHANGED <<ring, nitems, edge, req, got, open, faults>>

\* A datagram whose marker the reader has not met is suspended; there is
\* place for one, and the next one ends the handler without its credit.
RecvDatagram ==
  /\ rdr.pc = "recv" /\ sock # <<>> /\ Head(sock) # ReadQueue
  /\ sock' = Tail(sock)
  /\ \/ /\ rdr.from > 0
        /\ Process(Head(sock))
        /\ rdr' = [rdr EXCEPT !.pc = "loop", !.from = @ - 1]
     \/ /\ rdr.from = 0
        /\ rdr' = IF rdr.smsg = ReadSocket
                    THEN [rdr EXCEPT !.pc = "loop", !.smsg = Head(sock)]
                    ELSE [rdr EXCEPT !.pc = "sleep"]
        /\ UNCHANGED <<got, open>>
  /\ UNCHANGED <<ring, nitems, edge, req, faults>>

-----------------------------------------------------------------------------
SendStep(r) ==
  \/ \E fits, shm_ok, last \in BOOLEAN : ReqSend(r, fits, shm_ok, last)
  \/ PlainBuf(r)
  \/ TakenHead(r) \/ Drain(r) \/ DrainFails(r)
  \/ QueuePublish(r) \/ QueueOverflow(r) \/ QueueTail(r) \/ QueueCount(r)
  \/ SendBell(r) \/ SendDatagram(r)

ReadStep ==
  \/ ReadEvent \/ ReadQueueItem \/ ReadRelease \/ ReadSecond \/ ReadUncount
  \/ ReadItem \/ ReadMarked \/ RecvAgain \/ RecvDoorbell \/ RecvDatagram

Next ==
  \/ \E r \in Reqs : SendStep(r) \/ SendDatagramFails(r) \/ Killed(r)
  \/ ReadStep

Spec == Init /\ [][Next]_vars

\* A send that has begun goes on, and the engine runs: both are threads of
\* the operating system, and neither waits for a client here.
SendGoesOn(r) ==
  \/ TakenHead(r) \/ Drain(r) \/ QueuePublish(r) \/ QueueOverflow(r)
  \/ QueueTail(r) \/ QueueCount(r) \/ SendBell(r) \/ SendDatagram(r)

Fairness == WF_vars(ReadStep) /\ \A r \in Reqs : WF_vars(SendGoesOn(r))

LiveSpec == Spec /\ Fairness

-----------------------------------------------------------------------------
(* Properties.                                                             *)

Positions == 0..(Wrap - 1)
Counts == 0..(1 + Max({MaxMsgs[r] : r \in Reqs}))
Msgs == [r : Reqs \cup {NoReq}, k : Counts, last : BOOLEAN, err : BOOLEAN]

TypeOK ==
  /\ queue \in Seq(Msgs) /\ Len(queue) <= QueueSize
  /\ head \in Positions /\ tail \in Positions
  /\ nitems \in Int
  /\ sock \in Seq(Msgs) /\ Len(sock) <= SockCap
  /\ edge \in BOOLEAN
  /\ req \in [Reqs -> [pc : {"idle", "taken", "window", "publish", "tail",
                             "count", "bell", "dgram", "dead"},
                       state : QueueStates, sent : Counts,
                       queue_pos : Positions, msg : Msgs, queue : BOOLEAN,
                       pos : Positions, head : Positions, done : BOOLEAN]]
  /\ rdr \in [pc : {"sleep", "loop", "taken", "release", "second", "uncount",
                    "recredit", "recv"},
              ready : BOOLEAN, from : 0..1, smsg : Msgs, item : Msgs]
  /\ got \in [Reqs -> Seq(Msgs)]
  /\ open \subseteq Reqs
  /\ faults \in 0..MaxFaults

\* The router gets the messages of a request in the order they were sent and
\* without a gap, whichever way each one took and whatever other processes
\* do or fail to do; only the error of a failed drain may overtake
\* (the comment of nxt_unit_req_send()).
InOrder ==
  \A r \in Reqs : \A i \in 1..Len(got[r]) : got[r][i].k = i \/ got[r][i].err

\* The place for one suspended datagram is enough: the reader meets a second
\* one only after the marker of the first (nxt_port_queue_read_handler()).
SuspendOne ==
  rdr.pc = "recv" /\ sock # <<>> /\ Head(sock) # ReadQueue /\ rdr.from = 0
    => rdr.smsg = ReadSocket

\* The two ways of a message, queue and socket, are one channel in order
\* (nxt_unit_req_send(), nxt_port_queue_read_handler()).
Ordered == InOrder /\ SuspendOne

\* No lost wake-up: the engine does not sleep over items, or over a datagram
\* it could read, unless a sender is about to count, ring or send
\* (nitems in nxt_port_queue_send_pos() and nxt_port_queue_read_handler()).
\* A process killed between its enqueue and its fetch_add leaves nitems one
\* short, and a marker without a datagram stops the reader: faults are out.
Woken ==
  faults = 0 /\ rdr.pc = "sleep" /\ ~edge /\ (queue # <<>> \/ sock # <<>>) =>
    \E r \in Reqs : req[r].pc \in {"tail", "count", "bell", "dgram"}

\* In the end every message that was sent has reached the handler, or the
\* request ended before it, unless a process was killed or a datagram was
\* refused: a reader that sleeps is woken for what is left.
Delivered ==
  <>[](\A r \in Reqs : Len(got[r]) = req[r].sent \/ r \notin open \/ faults > 0)
=============================================================================
