------------------------------ MODULE PortWrite -----------------------------
(***************************************************************************)
(* The writing side of a port: src/src/nxt_port_socket.c from              *)
(* nxt_port_socket_send() to nxt_port_socket_cancel(), and                 *)
(* nxt_port_error_handler().  Threads of several engines send on one port; *)
(* only the engine that owns the port has its write event.                 *)
(*                                                                         *)
(* A step is one critical section of port->write_mutex, one system call or *)
(* one access to a word that threads share without it (write_ready,        *)
(* announce, rearm_pending, socket.error, the event).  The work of one     *)
(* engine does not interleave with itself.  The write event is edge        *)
(* triggered: enabling it reports a socket that is writable now, and after *)
(* that only a full socket that becomes writable.                          *)
(*                                                                         *)
(* A message is a fragment or more.  Buffers, descriptors and shared       *)
(* memory are left out, except that a message carries descriptors or not.  *)
(***************************************************************************)
EXTENDS Integers, Sequences, FiniteSets

CONSTANTS Threads,     \* engines that send on the port
          Owner,       \* port->engine
          Scripts,     \* functions: the kinds of the messages that t sends
          SockCap,     \* bound: unread datagrams that fill the socket
          MaxFdMsgs,   \* NXT_PORT_MAX_FD_MSGS
          MaxFaults    \* bound: failed allocations and ENOBUFS or ENOMEM

\* Kinds: a message; one with descriptors; one of two fragments, where the
\* first reaches max_share or not; the READ_QUEUE wake-up of a message that is
\* in the port queue already; a doorbell that a backlogged port skips.
Kinds == {"plain", "fd", "big", "wake", "doorbell"}

ASSUME PortWriteAssumption ==
  /\ IsFiniteSet(Threads) /\ Owner \in Threads
  /\ \A s \in Scripts : \A t \in Threads : s[t] \in Seq(Kinds)
  /\ SockCap \in Nat \ {0} /\ MaxFdMsgs \in Nat \ {0} /\ MaxFaults \in Nat

VARIABLES script,     \* the one of Scripts that the threads follow
          messages,   \* port->messages
          ready,      \* socket.write_ready
          error,      \* socket.error: "none", "full" (EAGAIN) or "nomem"
          active,     \* the write event is enabled
          edge,       \* the poller has a writable event to report
          polled,     \* the write handler is in the work queue of the owner
          unread,     \* datagrams in the socket
          alive,      \* the peer
          announce,   \* READ_QUEUE markers that the port owes
          pending,    \* rearm_pending
          timer,      \* retry_timer
          fdcount,    \* fd_messages
          th,         \* th[t]: locals of a send or of the write handler
          errq,       \* errq[t]: error handlers in the work queue of t
          left,       \* left[m]: fragments of m not sent
          ends,       \* ends[m]: how m ended, in order
          next,       \* next[t]: messages that t has begun to send
          woken,      \* markers and wake-ups that reached the peer
          foreign,    \* an error handler ran on another engine
          stale,      \* the owner met a full socket while the handler of an
                      \* earlier edge was in its work queue
          faults

list == <<messages, fdcount>>
event == <<active, edge, polled, timer, pending>>
socket == <<ready, error, unread, alive>>
history == <<script, ends, next, woken, foreign, stale>>
vars == <<list, event, socket, announce, th, errq, left, history, faults>>

\* The i-th message of thread t.
Msgs == UNION {{<<t, i>> : i \in 1..Len(script[t])} : t \in Threads}
Kind(m) == script[m[1]][m[2]]
NoMsg == <<Owner, 0>>
Fragments(m) == IF Kind(m) = "big" THEN 2 ELSE 1

\* Locals: the next step, the message at hand, whether this is the write
\* handler, enable_write, retry_later, the answer, and "failed".
Loc(pc, m, handler) ==
  [pc |-> pc, m |-> m, handler |-> handler, enable |-> FALSE, retry |-> FALSE,
   ret |-> "ok", failed |-> FALSE]
Idle == Loc("idle", NoMsg, FALSE)

Init ==
  /\ script \in Scripts
  /\ messages = <<>> /\ fdcount = 0
  /\ ready = TRUE /\ error = "none" /\ unread = 0 /\ alive = TRUE
  /\ active = FALSE /\ edge = FALSE /\ polled = FALSE
  /\ timer = FALSE /\ pending = FALSE
  /\ announce = 0
  /\ th = [t \in Threads |-> Idle]
  /\ errq = [t \in Threads |-> 0]
  /\ left = [m \in Msgs |-> Fragments(m)]
  /\ ends = [m \in Msgs |-> <<>>]
  /\ next = [t \in Threads |-> 0] /\ woken = 0
  /\ foreign = FALSE /\ stale = FALSE
  /\ faults = 0

-----------------------------------------------------------------------------
(* Helpers.                                                                *)

Writable == ~alive \/ unread < SockCap

HasFd(m) == Kind(m) = "fd"

Listed == {messages[i] : i \in 1..Len(messages)}

End(m, how) == ends' = [ends EXCEPT ![m] = Append(@, how)]

\* nxt_port_msg_fd_uncount(), when the message leaves the list.
Uncount(m) == IF HasFd(m) /\ fdcount > 0 THEN fdcount - 1 ELSE fdcount

FirstFragment(m) == left[m] = Fragments(m)

\* nxt_port_msg_alloc() and the bound on messages with descriptors.
MayHold(m) == ~(HasFd(m) /\ fdcount >= MaxFdMsgs)
AllocFails == faults < MaxFaults /\ faults' = faults + 1

-----------------------------------------------------------------------------
(* nxt_port_rearm() and what it leads to.                                  *)

\* nxt_port_announce() on the owner: the state of the socket after it, and
\* whether the port may be armed.
AnnounceSent ==
  /\ announce > 0 /\ alive /\ unread < SockCap
  /\ unread' = unread + 1 /\ announce' = announce - 1 /\ woken' = woken + 1
  /\ error' = "none"
  /\ UNCHANGED <<ready, alive, errq, faults>>
AnnounceFull ==
  /\ announce > 0 /\ alive /\ unread = SockCap
  /\ ready' = FALSE /\ error' = "full"
  /\ UNCHANGED <<unread, alive, announce, woken, errq, faults>>
AnnounceNothing ==
  /\ announce = 0
  /\ UNCHANGED <<socket, announce, woken, errq, faults>>
AnnounceNoMem ==
  /\ announce > 0 /\ alive /\ faults < MaxFaults
  /\ ready' = FALSE /\ error' = "nomem" /\ faults' = faults + 1
  /\ UNCHANGED <<unread, alive, announce, woken, errq>>
AnnounceFails ==
  /\ announce > 0 /\ ~alive
  /\ announce' = announce - 1
  /\ errq' = [errq EXCEPT ![Owner] = @ + 1]
  /\ UNCHANGED <<socket, woken, faults>>

\* nxt_port_retry_later(): the event goes down and the timer brings it back.
RetryLater ==
  /\ IF timer THEN UNCHANGED <<active, edge>> ELSE active' = FALSE /\ edge' = FALSE
  /\ timer' = TRUE

EnableWrite == active' = TRUE /\ edge' = Writable'

\* nxt_port_rearm_now(); "armed" is retry_timer.enabled, which the handler of
\* the timer finds cleared.
RearmNow(armed) ==
  IF armed
    THEN UNCHANGED <<active, edge, timer, socket, announce, woken, errq, faults>>
    ELSE \/ (AnnounceNothing \/ AnnounceSent \/ AnnounceFull)
              /\ EnableWrite /\ timer' = FALSE
         \/ /\ AnnounceNoMem
            /\ active' = FALSE /\ edge' = FALSE /\ timer' = TRUE
         \/ /\ AnnounceFails
            /\ timer' = FALSE /\ UNCHANGED <<active, edge>>

\* The owner re-arms at once; another engine posts, once.
Rearm(t) ==
  /\ th[t].pc = "rearm"
  /\ th' = [th EXCEPT ![t].pc = "answer"]
  /\ IF t = Owner THEN RearmNow(timer) /\ UNCHANGED pending
                  ELSE /\ pending' = TRUE
                       /\ UNCHANGED <<active, edge, timer, socket, announce,
                                      woken, errq, faults>>
  /\ stale' = (stale \/ (polled /\ ready # ready'))
  /\ UNCHANGED <<list, polled, left, ends, next, foreign, script>>

\* nxt_port_rearm_work_handler(): the flag goes down before the work.
\* nxt_event_engine_post_handler() puts posted work behind what is already
\* in the work queue, the write handler included.
RearmPosted ==
  /\ th[Owner] = Idle /\ ~polled /\ pending
  /\ pending' = FALSE
  /\ RearmNow(timer)
  /\ UNCHANGED <<list, polled, th, left, ends, next, foreign, stale, script>>

\* nxt_event_engine_start() runs its work queues empty before it polls and
\* before timers expire.
QueuesEmpty == th[Owner] = Idle /\ ~polled /\ errq[Owner] = 0

\* nxt_port_retry_handler().
TimerFires ==
  /\ QueuesEmpty /\ timer
  /\ RearmNow(FALSE)
  /\ UNCHANGED <<list, polled, pending, th, left, ends, next, foreign, stale, script>>

-----------------------------------------------------------------------------
(* nxt_port_socket_send() and nxt_port_msg_chk_insert().                   *)

\* A wake-up that was not taken is owed; any other message goes back.
Refuse(t, m) ==
  IF Kind(m) = "wake"
    THEN /\ th' = [th EXCEPT ![t] = [Loc("answer", m, FALSE) EXCEPT !.ret = "owed"]]
         /\ UNCHANGED ends
    ELSE End(m, "back") /\ th' = [th EXCEPT ![t] = Idle]

SocketSend(t) ==
  LET m == <<t, next[t] + 1>>
  IN /\ th[t] = Idle /\ next[t] < Len(script[t])
     /\ next' = [next EXCEPT ![t] = @ + 1]
     /\ \/ /\ ready /\ messages = <<>>                        \* NXT_DECLINED
           /\ th' = [th EXCEPT ![t] = Loc("send", m, FALSE)]
           /\ UNCHANGED <<list, ends, faults>>
        \/ /\ ~ready \/ messages # <<>>
           /\ \/ /\ Kind(m) = "doorbell"                      \* NXT_DONE
                 /\ End(m, "skipped")
                 /\ UNCHANGED <<list, th, faults>>
              \/ /\ Kind(m) # "doorbell"
                 /\ \/ MayHold(m) /\ AllocFails               \* NXT_ERROR
                    \/ ~MayHold(m) /\ UNCHANGED faults
                 /\ Refuse(t, m)
                 /\ UNCHANGED list
              \/ /\ Kind(m) # "doorbell" /\ MayHold(m)        \* NXT_OK
                 /\ messages' = Append(messages, m)
                 /\ fdcount' = IF HasFd(m) THEN fdcount + 1 ELSE fdcount
                 /\ UNCHANGED <<ends, th, faults>>
     /\ UNCHANGED <<event, socket, announce, errq, left, woken, foreign,
                 stale, script>>

\* Mutant: the marker is owed, and nobody is told.
AnswerNoRearm(t) ==
  /\ th[t].pc = "answer"
  /\ announce' = IF th[t].ret = "owed" /\ ~th[t].failed THEN announce + 1
                                                       ELSE announce
  /\ th' = [th EXCEPT ![t] = Idle]
  /\ UNCHANGED <<list, event, socket, errq, left, history, faults>>

\* The end of nxt_port_write_msgs() and of nxt_port_socket_send(): a wake-up
\* that did not go out is owed, if the socket lives.
Answer(t) ==
  /\ th[t].pc = "answer"
  /\ LET owed == th[t].ret = "owed" /\ ~th[t].failed
     IN /\ announce' = IF owed THEN announce + 1 ELSE announce
        /\ th' = [th EXCEPT ![t] = IF owed THEN Loc("rearm", th[t].m, FALSE)
                                           ELSE Idle]
  /\ UNCHANGED <<list, event, socket, errq, left, history, faults>>

-----------------------------------------------------------------------------
(* nxt_port_write_msgs(), inline and as the write handler.                 *)

\* The poller reports the edge and puts the handler into the work queue.
Poll ==
  /\ QueuesEmpty /\ edge /\ active
  /\ edge' = FALSE /\ ready' = TRUE /\ polled' = TRUE
  /\ UNCHANGED <<list, active, timer, pending, error, unread, alive, announce,
                 th, errq, left, history, faults>>

HandlerStart ==
  /\ th[Owner] = Idle /\ polled
  /\ polled' = FALSE
  /\ th' = [th EXCEPT ![Owner] = Loc("first", NoMsg, TRUE)]
  /\ UNCHANGED <<list, active, edge, timer, pending, socket, announce, errq,
                 left, history, faults>>

\* nxt_port_msg_first().
HandlerFirst ==
  /\ th[Owner].pc = "first"
  /\ th' = [th EXCEPT ![Owner] =
       IF messages = <<>> THEN Loc("block", NoMsg, TRUE)
                          ELSE Loc("send", Head(messages), TRUE)]
  /\ UNCHANGED <<list, event, socket, announce, errq, left, history, faults>>

\* The list was empty: nxt_port_fd_disable_write().
HandlerBlock ==
  /\ th[Owner].pc = "block"
  /\ active' = FALSE /\ edge' = FALSE
  /\ th' = [th EXCEPT ![Owner].pc = "clean"]
  /\ UNCHANGED <<list, polled, timer, pending, socket, announce, errq, left,
                 history, faults>>

\* sendmsg() takes a fragment.
SendOk(t) ==
  LET m == th[t].m
  IN /\ th[t].pc = "send" /\ alive /\ unread < SockCap
     /\ unread' = unread + 1 /\ error' = "none"
     /\ left' = [left EXCEPT ![m] = @ - 1]
     /\ woken' = IF Kind(m) \in {"wake", "doorbell"} THEN woken + 1 ELSE woken
     /\ th' = [th EXCEPT ![t].pc = "sent"]
     /\ UNCHANGED <<list, event, ready, alive, announce, errq, ends, next,
                    foreign, stale, faults, script>>

\* nxt_queue_remove(): the link of m leaves the list.
Without(m) ==
  IF m \in Listed
    THEN LET i == CHOOSE j \in 1..Len(messages) : messages[j] = m
         IN  [j \in 1..(Len(messages) - 1) |->
                IF j < i THEN messages[j] ELSE messages[j + 1]]
    ELSE messages

\* Mutant: a message that was sent stays in the list.
SentLastStays(t) ==
  LET m == th[t].m
  IN /\ th[t].pc = "sent" /\ left[m] = 0
     /\ End(m, "sent")
     /\ th' = [th EXCEPT ![t] = Loc("clean", m, FALSE)]
     /\ UNCHANGED <<list, event, socket, announce, errq, left, next, woken,
                    foreign, stale, faults, script>>

\* The message is whole: it leaves the list, and the handler goes on while the
\* socket is ready.
SentLast(t) ==
  LET m == th[t].m
  IN /\ th[t].pc = "sent" /\ left[m] = 0
     /\ End(m, "sent")
     /\ messages' = IF th[t].handler THEN Without(m) ELSE messages
     /\ fdcount' = IF th[t].handler THEN Uncount(m) ELSE fdcount
     /\ th' = [th EXCEPT ![t] =
          CASE ~th[t].handler -> Loc("clean", m, FALSE)
            [] th[t].handler /\ ready -> Loc("first", NoMsg, TRUE)
            [] OTHER -> [Loc("clean", NoMsg, TRUE) EXCEPT !.enable = ~active]]
     /\ UNCHANGED <<event, socket, announce, errq, left, next, woken, foreign,
                    stale, faults, script>>

\* More fragments, below max_share: the next one.
SentMore(t) ==
  /\ th[t].pc = "sent" /\ left[th[t].m] > 0
  /\ th' = [th EXCEPT ![t].pc = "send"]
  /\ UNCHANGED <<list, event, socket, announce, errq, left, history, faults>>

\* The share is used up: the rest goes to the tail of the list.  The inline
\* call leaves it there and re-arms.
SentShare(t) ==
  LET m == th[t].m
  IN /\ th[t].pc = "sent" /\ left[m] > 0
     /\ messages' = Append(Without(m), m)
     /\ th' = [th EXCEPT ![t] =
          CASE ~th[t].handler -> [Loc("clean", m, FALSE) EXCEPT !.enable = TRUE]
            [] th[t].handler /\ ready -> Loc("first", NoMsg, TRUE)
            [] OTHER -> [Loc("clean", NoMsg, TRUE) EXCEPT !.enable = ~active]]
     /\ UNCHANGED <<fdcount, event, socket, announce, errq, left, history, faults>>

\* No memory for the rest of an inline message: it is dropped and the error
\* handler is raised on a socket that works.
SentShareFails(t) ==
  LET m == th[t].m
  IN /\ th[t].pc = "sent" /\ left[m] > 0 /\ ~th[t].handler
     /\ AllocFails
     /\ End(m, "dropped")
     /\ errq' = [errq EXCEPT ![t] = @ + 1]
     /\ th' = [th EXCEPT ![t] = Loc("clean", m, FALSE)]
     /\ UNCHANGED <<list, event, socket, announce, left, next, woken, foreign,
                 stale, script>>

\* sendmsg() fails outright: the peer is gone.  A first fragment sent inline
\* is still the caller's.
SendFails(t) ==
  LET m == th[t].m
      back == FirstFragment(m) /\ ~th[t].handler
  IN /\ th[t].pc = "send" /\ ~alive
     /\ errq' = [errq EXCEPT ![t] = @ + 1]
     /\ IF th[t].handler \/ (back /\ Kind(m) = "wake")
          THEN UNCHANGED ends
          ELSE End(m, IF back THEN "back" ELSE "dropped")
     /\ th' = [th EXCEPT ![t].pc = "clean", ![t].failed = TRUE]
     /\ UNCHANGED <<list, event, socket, announce, left, next, woken, foreign,
                    stale, faults, script>>

\* EAGAIN, or ENOBUFS and ENOMEM: the call returned, and write_ready is not
\* stored yet.
SendAgain(t) ==
  /\ th[t].pc = "send" /\ alive
  /\ \/ unread = SockCap /\ error' = "full" /\ UNCHANGED faults
     \/ AllocFails /\ error' = "nomem"
  /\ th' = [th EXCEPT ![t].pc = "again"]
  /\ UNCHANGED <<list, event, ready, unread, alive, announce, errq, left, history>>

\* The handler leaves its message in the list and waits for the event, or for
\* the timer if the socket may be writable.
AgainHandler ==
  /\ th[Owner].pc = "again" /\ th[Owner].handler
  /\ ready' = FALSE
  /\ th' = [th EXCEPT ![Owner] = [Loc("clean", NoMsg, TRUE) EXCEPT
                                    !.retry = error # "full", !.enable = ~active]]
  /\ UNCHANGED <<list, event, error, unread, alive, announce, errq, left, history,
                 faults>>

AgainInline(t) ==
  /\ th[t].pc = "again" /\ ~th[t].handler
  /\ ready' = FALSE
  /\ th' = [th EXCEPT ![t].pc = "insert"]
  /\ stale' = (stale \/ (polled /\ t = Owner))
  /\ UNCHANGED <<list, event, error, unread, alive, announce, errq, left, ends,
                 next, woken, foreign, faults, script>>

\* nxt_port_msg_insert_tail(): the message waits for the handler.
InsertTail(t) ==
  LET m == th[t].m
  IN /\ th[t].pc = "insert" /\ MayHold(m)
     /\ messages' = Append(messages, m)
     /\ fdcount' = IF HasFd(m) THEN fdcount + 1 ELSE fdcount
     /\ th' = [th EXCEPT ![t] = [Loc("clean", m, FALSE) EXCEPT !.enable = TRUE]]
     /\ UNCHANGED <<event, socket, announce, errq, left, history, faults>>

\* It cannot wait: a first fragment goes back to the caller and the event is
\* re-armed for the others; the rest of a message is dropped.
InsertTailFails(t) ==
  LET m == th[t].m
      wake == Kind(m) = "wake"
  IN /\ th[t].pc = "insert"
     /\ \/ MayHold(m) /\ AllocFails
        \/ ~MayHold(m) /\ UNCHANGED faults
     /\ IF FirstFragment(m)
          THEN /\ th' = [th EXCEPT ![t] =
                    [Loc("clean", m, FALSE) EXCEPT
                       !.enable = TRUE, !.ret = IF wake THEN "owed" ELSE "ok"]]
               /\ UNCHANGED errq
          ELSE /\ th' = [th EXCEPT ![t] = Loc("clean", m, FALSE)]
               /\ errq' = [errq EXCEPT ![t] = @ + 1]
     /\ IF wake THEN UNCHANGED ends
                ELSE End(m, IF FirstFragment(m) THEN "back" ELSE "cut")
     /\ UNCHANGED <<list, event, socket, announce, left, next, woken, foreign,
                 stale, script>>

\* Mutant: an event that looks active is not re-armed.
CleanupLooks(t) ==
  /\ th[t].pc = "clean"
  /\ LET failed == th[t].failed
         rearm == /\ ~failed /\ ~th[t].retry
                  /\ (th[t].enable /\ ~active) \/ announce > 0
     IN /\ IF ~failed /\ th[t].retry THEN RetryLater
                                     ELSE UNCHANGED <<active, edge, timer>>
        /\ th' = [th EXCEPT ![t].pc = IF rearm THEN "rearm" ELSE "answer"]
  /\ UNCHANGED <<list, polled, pending, socket, announce, errq, left, history,
                 faults>>

\* The exit: nothing is armed after a failed send; else the paced retry, or
\* a re-arm that also pays an owed marker.
Cleanup(t) ==
  /\ th[t].pc = "clean"
  /\ LET failed == th[t].failed
         rearm == ~failed /\ ~th[t].retry /\ (th[t].enable \/ announce > 0)
     IN /\ IF ~failed /\ th[t].retry THEN RetryLater
                                     ELSE UNCHANGED <<active, edge, timer>>
        /\ th' = [th EXCEPT ![t].pc = IF rearm THEN "rearm" ELSE "answer"]
  /\ UNCHANGED <<list, polled, pending, socket, announce, errq, left, history,
                 faults>>

-----------------------------------------------------------------------------
\* nxt_port_error_handler(), on the engine whose send failed: everything in
\* the list is completed.
ErrorHandler(t) ==
  /\ th[t] = Idle /\ errq[t] > 0
  /\ errq' = [errq EXCEPT ![t] = @ - 1]
  /\ ends' = [m \in Msgs |-> IF m \in Listed THEN Append(ends[m], "dropped")
                                             ELSE ends[m]]
  /\ messages' = <<>>
  /\ fdcount' = fdcount - Cardinality({m \in Listed : HasFd(m)})
  /\ foreign' = (foreign \/ t # Owner)
  /\ UNCHANGED <<event, socket, announce, th, left, next, woken, stale,
                 faults, script>>

\* nxt_port_socket_cancel(), which the router calls on the engine of the port.
Cancel(m) ==
  /\ th[Owner] = Idle /\ Kind(m) \in {"plain", "fd"}
  /\ m \in Listed /\ FirstFragment(m)
  /\ messages' = Without(m)
  /\ fdcount' = Uncount(m)
  /\ End(m, "cancelled")
  /\ UNCHANGED <<event, socket, announce, th, errq, left, next, woken, foreign,
                 stale, faults, script>>

\* The peer reads a datagram.  A full socket that becomes writable is an
\* edge; the kernel may report another read as one too.
PeerReads ==
  /\ alive /\ unread > 0
  /\ unread' = unread - 1
  /\ edge' \in (IF active /\ unread = SockCap THEN {TRUE} ELSE {edge, active})
  /\ UNCHANGED <<list, active, polled, timer, pending, ready, error, alive,
                 announce, th, errq, left, history, faults>>

PeerDies ==
  /\ alive
  /\ alive' = FALSE /\ unread' = 0 /\ edge' = active
  /\ UNCHANGED <<list, active, polled, timer, pending, ready, error, announce,
                 th, errq, left, history, faults>>

Inline(t) ==
  \/ SocketSend(t) \/ Answer(t) \/ Rearm(t)
  \/ SendOk(t) \/ SentLast(t) \/ SentMore(t) \/ SentShare(t) \/ SentShareFails(t)
  \/ SendFails(t) \/ SendAgain(t) \/ AgainInline(t)
  \/ InsertTail(t) \/ InsertTailFails(t) \/ Cleanup(t) \/ ErrorHandler(t)

Engine == Poll \/ HandlerStart \/ HandlerFirst \/ HandlerBlock \/ AgainHandler
          \/ RearmPosted \/ TimerFires

Next ==
  \/ \E t \in Threads : Inline(t)
  \/ Engine
  \/ \E m \in Msgs : Cancel(m)
  \/ PeerReads \/ PeerDies

Spec == Init /\ [][Next]_vars

-----------------------------------------------------------------------------
(* Properties.                                                             *)

\* Messages that a thread holds outside the list.
Held == {th[t].m : t \in {u \in Threads : ~th[u].handler /\ th[u].pc \in
                            {"send", "sent", "again", "insert"}}}

\* Every message that was begun is in one place, or ended once: sent, given
\* back to the caller, cancelled, or completed by the error handler.  An
\* error handler of another engine may free a message that the write handler
\* has just taken from the list (nxt_port_msg_first() takes no reference).
EndsOnce ==
  ~foreign => \A m \in Msgs :
    m[2] <= next[m[1]] /\ Kind(m) # "wake" =>
      Len(ends[m]) + (IF m \in Listed THEN 1 ELSE 0)
                   + (IF m \in Held THEN 1 ELSE 0)
        = 1

\* No thread is on its way and no work waits.
Quiet == /\ \A t \in Threads : th[t] = Idle /\ errq[t] = 0
         /\ ~polled /\ ~pending /\ ~timer

\* A message in the list is never left to an event that does not come: with
\* nothing else under way, the poller has an edge to report, or the socket is
\* full and the event is enabled for the read that makes room.  A port whose
\* peer died after a shortage of memory is out: nxt_port_announce() arms
\* nothing for it, and write_ready may stay 0.
Armed ==
  Quiet /\ messages # <<>> /\ (alive \/ faults = 0) =>
    active /\ (edge \/ (alive /\ unread = SockCap))

\* The same, with two exits out that Armed shows not to re-arm: a message
\* that was cut, its first fragment sent inline and no memory for the rest;
\* and a send of the owner that met a full socket while the handler of an
\* earlier edge was in its work queue, whose disable comes after the re-arm.
WriteArmed == ~stale /\ (\A m \in Msgs : ends[m] # <<"cut">>) => Armed

\* An owed marker is not forgotten either: something brings the re-arm back,
\* or the peer has unread datagrams and looks into the queue for them.
MarkerArmed ==
  Quiet /\ announce > 0 /\ alive => unread > 0 \/ (active /\ edge)

\* fd_messages is the number of messages in the list that hold descriptors, so
\* that a port refuses one more exactly at its bound.
FdCounted ==
  ~foreign => fdcount = Cardinality({m \in Listed : HasFd(m)})

\* Neither a message nor its place among the bounded ones is lost or counted
\* twice, whoever ends it (nxt_port_msg_chk_insert(), nxt_port_write_handler(),
\* nxt_port_socket_cancel(), nxt_port_error_handler()).
Accounted == EndsOnce /\ FdCounted

TypeOK ==
  /\ Listed \subseteq Msgs /\ Len(messages) = Cardinality(Listed)
  /\ fdcount \in 0..MaxFdMsgs
  /\ {ready, alive, active, edge, polled, timer, pending, foreign} \subseteq BOOLEAN
  /\ error \in {"none", "full", "nomem"}
  /\ unread \in 0..SockCap /\ announce \in Nat /\ woken \in Nat
  /\ th \in [Threads -> [pc : {"idle", "send", "sent", "again", "insert", "clean",
                               "rearm", "answer", "first", "block"},
                         m : Msgs \cup {NoMsg}, handler : BOOLEAN,
                         enable : BOOLEAN, retry : BOOLEAN,
                         ret : {"ok", "owed"}, failed : BOOLEAN]]
  /\ \A t \in Threads : th[t].handler => t = Owner
  /\ errq \in [Threads -> Nat] /\ left \in [Msgs -> 0..2]
  /\ next \in [Threads -> Nat] /\ faults \in 0..MaxFaults
=============================================================================
