------------------------------- MODULE UnitShm ------------------------------
(***************************************************************************)
(* Shared memory from a worker process to the router: the segments that    *)
(* the contexts of the process share (nxt_unit_mmap_get, nxt_unit_new_mmap,*)
(* nxt_unit_mmap_buf_send, nxt_unit_mmap_release in nxt_unit.c), and the   *)
(* router that maps them, reads the chunks and frees them                  *)
(* (nxt_port_memory.c, nxt_router_oosm_handler in nxt_router.c).           *)
(*                                                                         *)
(* Both sides allocate and free in one bit map without a common lock.  At  *)
(* the "shm" limit a context flags the segments (oosm), tells the router's *)
(* main engine, and waits for an acknowledgement: blocked in recv, or, for *)
(* a write that may be short, in the event loop of the application.        *)
(*                                                                         *)
(* The ports deliver in order (module PortQueue).  A context is a thread.  *)
(***************************************************************************)
EXTENDS Integers, Sequences, FiniteSets, FiniteSetsExt

CONSTANTS Ctxs,       \* contexts of the process, one thread each
          Engines,    \* router engines: the response ports of requests
          NoCtx,      \* nobody holds outgoing.mutex
          Mapped,     \* sent_over of a segment that the router mapped: 0xFFFF
          Limit,      \* shm_mmap_limit
          NChunks,    \* PORT_MMAP_CHUNK_COUNT
          Modes,      \* kinds of allocation that are tried
          MaxGets,    \* bound: allocations, retries aside
          MaxInbox,   \* bound: unread messages of a context
          Faults,     \* failures that may happen
          MaxFaults   \* bound: how many of them

ASSUME UnitShmAssumption ==
  /\ NoCtx \notin Ctxs /\ Mapped \notin Engines
  /\ IsFiniteSet(Ctxs) /\ IsFiniteSet(Engines) /\ Engines # {}
  /\ {Limit, NChunks, MaxGets, MaxInbox} \subseteq Nat \ {0} /\ MaxFaults \in Nat
  /\ Modes \subseteq {"block", "nb", "probe"}
  /\ Faults \subseteq {"oosm", "shm", "mmap", "quit"}

VARIABLES segs,    \* outgoing.elts[0 .. size - 1]
          alloc,   \* outgoing.allocated_chunks
          mutex,   \* holder of outgoing.mutex
          ctx,     \* ctx[x]: where context x is in its code
          bufs,    \* bufs[x]: the buffers of its requests
          drain,   \* drain[x]: a short write of x that waits for an ack
          inbox,   \* inbox[x]: messages for the context, oldest first
          chan,    \* chan[e]: messages of the process for engine e
          oosms,   \* OOSM messages for the router's main engine
          rbufs,   \* buffers of the router over chunks of the process
          freed,   \* freed[s]: completions that have not looked at oosm yet
          posts,   \* broadcasts of SHM_ACK posted to the main engine
          lost,    \* data messages that found no segment
          gets,    \* allocations so far, retries aside
          faults   \* failures so far

router == <<rbufs, freed, posts, lost>>
bounds == <<gets, faults>>
vars == <<segs, alloc, mutex, ctx, bufs, drain, inbox, chan, oosms, router, bounds>>

Chunks == 0..(NChunks - 1)
Segs == 1..Limit

\* A context: the next step; of the allocation under way, the mode, *n and
\* min_n, the response port, the segment and the chunk that are looked at and
\* the buffer; of a send, the chunks that went; and, for the properties only,
\* whether a segment was passed over that the router could not see free memory
\* in, or a sibling freed memory, or gave back a run, while it waits.
Idle == [pc |-> "idle", mode |-> "probe", n |-> 1, min |-> 1,
         eng |-> CHOOSE e \in Engines : TRUE,
         i |-> 1, at |-> 0, apart |-> FALSE, s |-> 1, cs |-> {}, sent |-> {},
         quit |-> FALSE]

Back(x) == [Idle EXCEPT !.quit = ctx[x].quit]

Init ==
  /\ segs = <<>> /\ alloc = 0 /\ mutex = NoCtx
  /\ ctx = [x \in Ctxs |-> Idle] /\ bufs = [x \in Ctxs |-> {}]
  /\ drain = [x \in Ctxs |-> "no"] /\ inbox = [x \in Ctxs |-> <<>>]
  /\ chan = [e \in Engines |-> <<>>] /\ oosms = 0
  /\ rbufs = {} /\ freed = [s \in Segs |-> 0] /\ posts = 0 /\ lost = FALSE
  /\ gets = 0 /\ faults = 0

Fault(f) == f \in Faults /\ faults < MaxFaults /\ faults' = faults + 1 /\ UNCHANGED gets

-----------------------------------------------------------------------------
(* A context allocates: nxt_unit_mmap_get().                               *)

\* What is asked for and the least that will do: a small buffer, which could
\* be plain memory, a write that may be short, a blocking write that sends
\* its data in parts, and a buffer of a given size.
Wants(mode) ==
  CASE mode = "probe" -> {<<1, 1>>}
    [] mode = "nb" -> {<<n, 0>> : n \in 1..NChunks}
    [] OTHER -> {<<n, n>> : n \in 1..NChunks} \cup {<<n, 1>> : n \in 1..NChunks}

\* A request takes a buffer; the first one finds no segment to look at.
GetBuf(x, mode, want, e) ==
  /\ ctx[x].pc = "idle" /\ ~ctx[x].quit /\ gets < MaxGets
  /\ mode \in Modes /\ (mode = "nb" => drain[x] = "no")
  /\ mutex = NoCtx
  /\ mutex' = x
  /\ ctx' = [ctx EXCEPT ![x] = [Idle EXCEPT
       !.pc = IF segs = <<>> THEN "new" ELSE "scan", !.mode = mode,
       !.n = want[1], !.min = want[2], !.eng = e]]
  /\ gets' = gets + 1
  /\ UNCHANGED <<segs, alloc, bufs, drain, inbox, chan, oosms, router, faults>>

\* Mutant: every segment is usable over every port.
UsableAnyPort(x, seg) == TRUE

\* A segment that the router has not mapped yet belongs to the thread and
\* the port that carry it there.
Usable(x, seg) ==
  seg.over = Mapped \/ (seg.over = ctx[x].eng /\ seg.thr = x)

\* The segment that is looked at, and chunk c.at of it, one load or
\* compare-and-set at a time: nxt_port_mmap_get_free_chunk() looks for a first
\* free chunk, nxt_port_mmap_chk_set_chunk_busy() takes it and those behind it.
\* Only the holder of the mutex takes chunks; the router frees some meanwhile.
Scanning(x) == ctx[x].pc = "scan" /\ ctx[x].i <= Len(segs)
Looking(x) == Scanning(x) /\ Usable(x, segs[ctx[x].i])
AtFree(x) == ctx[x].at \in segs[ctx[x].i].free

ScanPass(x) ==
  /\ Scanning(x) /\ ~Usable(x, segs[ctx[x].i])
  /\ ctx' = [ctx EXCEPT ![x].i = @ + 1, ![x].apart = TRUE]
  /\ UNCHANGED <<segs, alloc, mutex, bufs, drain, inbox, chan, oosms, router, bounds>>

\* The caller gets the run.
Taken(x, cs) ==
  [Back(x) EXCEPT !.pc = "got", !.eng = ctx[x].eng, !.s = segs[ctx[x].i].id, !.cs = cs]

\* Takes the chunk; n chunks are enough.
ScanTake(x) ==
  LET c == ctx[x]
      cs == c.cs \cup {c.at}
  IN /\ Looking(x) /\ AtFree(x)
     /\ segs' = [segs EXCEPT ![c.i].free = @ \ {c.at}]
     /\ ctx' = [ctx EXCEPT ![x] =
          IF Cardinality(cs) >= c.n THEN Taken(x, cs)
          ELSE [c EXCEPT !.s = segs[c.i].id, !.cs = cs, !.at = @ + 1]]
     /\ UNCHANGED <<alloc, mutex, bufs, drain, inbox, chan, oosms, router, bounds>>

\* No chunk is held: the search goes on behind a busy one.
ScanBusy(x) ==
  /\ Looking(x) /\ ~AtFree(x) /\ ctx[x].cs = {} /\ ctx[x].at < NChunks
  /\ ctx' = [ctx EXCEPT ![x].at = @ + 1]
  /\ UNCHANGED <<segs, alloc, mutex, bufs, drain, inbox, chan, oosms, router, bounds>>

\* The run ends at a busy chunk: long enough, or to be given back.
ScanRunEnds(x) ==
  /\ Looking(x) /\ ~AtFree(x) /\ ctx[x].cs # {}
  /\ ctx' = [ctx EXCEPT ![x] =
       IF Cardinality(ctx[x].cs) >= ctx[x].min THEN Taken(x, ctx[x].cs)
       ELSE [ctx[x] EXCEPT !.pc = "undo"]]
  /\ UNCHANGED <<segs, alloc, mutex, bufs, drain, inbox, chan, oosms, router, bounds>>

\* The run is given back, chunk by chunk, the first one first, and the search
\* goes on behind the busy chunk.  Nobody is told; history notes it of the
\* contexts that wait.
Undo(x) ==
  LET c == ctx[x]
  IN /\ c.pc = "undo"
     /\ \E k \in c.cs :
          /\ \A j \in c.cs : k <= j
          /\ segs' = [segs EXCEPT ![c.i].free = @ \cup {k}]
          /\ ctx' = [y \in Ctxs |->
               IF y # x THEN [ctx[y] EXCEPT !.apart = @ \/ ctx[y].pc = "wait"]
               ELSE IF c.cs = {k} THEN [c EXCEPT !.pc = "scan", !.cs = {}, !.at = @ + 1]
               ELSE [c EXCEPT !.cs = @ \ {k}]]
     /\ drain' = [y \in Ctxs |-> IF drain[y] = "asked" THEN "apart" ELSE drain[y]]
     /\ UNCHANGED <<alloc, mutex, bufs, inbox, chan, oosms, router, bounds>>

\* The segment is done with.
ScanNext(x) ==
  LET c == ctx[x]
      seg == segs[c.i]
  IN /\ Looking(x) /\ ~AtFree(x) /\ c.cs = {} /\ c.at >= NChunks
     /\ ctx' = [ctx EXCEPT ![x] =
          IF c.mode = "probe" THEN [c EXCEPT !.i = @ + 1, !.at = 0]
          ELSE [c EXCEPT !.pc = "flag",
                         !.apart = @ \/ (seg.over # Mapped /\ seg.free # {})]]
     /\ UNCHANGED <<segs, alloc, mutex, bufs, drain, inbox, chan, oosms, router, bounds>>

Flag(x) ==
  /\ ctx[x].pc = "flag"
  /\ segs' = [segs EXCEPT ![ctx[x].i].oosm = TRUE]
  /\ ctx' = [ctx EXCEPT ![x].pc = "scan", ![x].i = @ + 1, ![x].at = 0]
  /\ UNCHANGED <<alloc, mutex, bufs, drain, inbox, chan, oosms, router, bounds>>

\* Below the limit a new segment is made, at the limit the mutex is let go.
ScanEnd(x) ==
  /\ ctx[x].pc = "scan" /\ ctx[x].i > Len(segs)
  /\ IF Len(segs) >= Limit
     THEN mutex' = NoCtx /\ ctx' = [ctx EXCEPT ![x].pc = "full"]
     ELSE UNCHANGED mutex /\ ctx' = [ctx EXCEPT ![x].pc = "new"]
  /\ UNCHANGED <<segs, alloc, bufs, drain, inbox, chan, oosms, router, bounds>>

\* All of the memory is the application's own: nobody to wait for.
AllOurs(x) == alloc + ctx[x].min >= Limit * NChunks

\* The caller gets NULL.  A write that may be short waits for an ack.
Refused(x, asked) ==
  /\ ctx' = [ctx EXCEPT ![x] = Back(x)]
  /\ drain' = IF ctx[x].mode # "nb" THEN drain
              ELSE [drain EXCEPT ![x] =
                     IF ctx[x].apart THEN "apart" ELSE asked]

Full(x) ==
  /\ ctx[x].pc = "full" /\ (ctx[x].mode = "probe" \/ AllOurs(x))
  /\ Refused(x, "unasked")
  /\ UNCHANGED <<segs, alloc, mutex, bufs, inbox, chan, oosms, router, bounds>>

\* nxt_unit_send_oosm(), to the router's main port.
SendOosm(x) ==
  /\ ctx[x].pc = "full" /\ ctx[x].mode # "probe" /\ ~AllOurs(x)
  /\ oosms' = oosms + 1
  /\ IF ctx[x].mode = "nb" THEN Refused(x, "asked")
     ELSE ctx' = [ctx EXCEPT ![x].pc = "wait"] /\ UNCHANGED drain
  /\ UNCHANGED <<segs, alloc, mutex, bufs, inbox, chan, router, bounds>>

SendOosmFails(x) ==
  /\ ctx[x].pc = "full" /\ ctx[x].mode # "probe" /\ ~AllOurs(x)
  /\ Fault("oosm") /\ Refused(x, "unasked")
  /\ UNCHANGED <<segs, alloc, mutex, bufs, inbox, chan, oosms, router>>

\* nxt_unit_wait_shm_ack(): the ack is not shown to shm_ack_handler().
WaitAck(x) ==
  /\ ctx[x].pc = "wait" /\ inbox[x] # <<>> /\ Head(inbox[x]) = "ack"
  /\ inbox' = [inbox EXCEPT ![x] = Tail(@)]
  /\ ctx' = [ctx EXCEPT ![x].pc = "retry"]
  /\ drain' = [drain EXCEPT ![x] = IF @ = "no" THEN @ ELSE "eaten"]
  /\ UNCHANGED <<segs, alloc, mutex, bufs, chan, oosms, router, bounds>>

\* QUIT stays in pending_rbuf, for the event loop.
WaitQuit(x) ==
  /\ ctx[x].pc = "wait" /\ inbox[x] # <<>> /\ Head(inbox[x]) = "quit"
  /\ inbox' = [inbox EXCEPT ![x] = Tail(@)]
  /\ ctx' = [ctx EXCEPT ![x] = [Back(x) EXCEPT !.quit = TRUE]]
  /\ UNCHANGED <<segs, alloc, mutex, bufs, drain, chan, oosms, router, bounds>>

Retry(x) ==
  /\ ctx[x].pc = "retry" /\ mutex = NoCtx
  /\ mutex' = x
  /\ ctx' = [ctx EXCEPT ![x].pc = "scan", ![x].i = 1, ![x].at = 0,
                        ![x].apart = FALSE]
  /\ UNCHANGED <<segs, alloc, bufs, drain, inbox, chan, oosms, router, bounds>>

\* nxt_unit_new_mmap(): the first n chunks are taken; the mutex is let go
\* while the segment is sent.
NewMmap(x) ==
  LET c == ctx[x]
      id == Len(segs) + 1
  IN /\ c.pc = "new"
     /\ segs' = Append(segs, [id |-> id, over |-> c.eng, thr |-> x, oosm |-> FALSE,
                              free |-> Chunks \ (0..(c.n - 1)), live |-> TRUE])
     /\ ctx' = [ctx EXCEPT ![x].pc = "mmap", ![x].s = id, ![x].cs = 0..(c.n - 1)]
     /\ mutex' = NoCtx
     /\ UNCHANGED <<alloc, bufs, drain, inbox, chan, oosms, router, bounds>>

NewMmapFails(x) ==
  /\ ctx[x].pc = "new" /\ Fault("shm")
  /\ mutex' = NoCtx /\ Refused(x, "unasked")
  /\ UNCHANGED <<segs, alloc, bufs, inbox, chan, oosms, router>>

SendMmap(x) ==
  /\ ctx[x].pc = "mmap"
  /\ chan' = [chan EXCEPT ![ctx[x].eng] =
       Append(@, [kind |-> "mmap", s |-> ctx[x].s, cs |-> {}])]
  /\ ctx' = [ctx EXCEPT ![x].pc = "sent"]
  /\ UNCHANGED <<segs, alloc, mutex, bufs, drain, inbox, oosms, router, bounds>>

\* The memory is unmapped; the entry goes once the mutex is held again.
SendMmapFails(x) ==
  /\ ctx[x].pc = "mmap" /\ Fault("mmap")
  /\ segs' = [n \in DOMAIN segs |-> IF segs[n].id = ctx[x].s /\ segs[n].thr = x
                                   THEN [segs[n] EXCEPT !.live = FALSE]
                                   ELSE segs[n]]
  /\ ctx' = [ctx EXCEPT ![x].pc = "unsent"]
  /\ UNCHANGED <<alloc, mutex, bufs, drain, inbox, chan, oosms, router>>

Unsent(x) ==
  /\ ctx[x].pc = "unsent" /\ mutex = NoCtx
  /\ segs' = SubSeq(segs, 1, Len(segs) - 1)
  /\ Refused(x, "unasked")
  /\ UNCHANGED <<alloc, mutex, bufs, inbox, chan, oosms, router, bounds>>

\* The buffer is counted under the mutex and belongs to a request.
Got(x) ==
  LET c == ctx[x]
  IN /\ c.pc = "got" \/ (c.pc = "sent" /\ mutex = NoCtx)
     /\ alloc' = alloc + Cardinality(c.cs)
     /\ bufs' = [bufs EXCEPT ![x] = @ \cup {[s |-> c.s, cs |-> c.cs, eng |-> c.eng]}]
     /\ ctx' = [ctx EXCEPT ![x] = Back(x)]
     /\ mutex' = NoCtx
     /\ UNCHANGED <<segs, drain, inbox, chan, oosms, router, bounds>>

-----------------------------------------------------------------------------
(* A context sends and frees: nxt_unit_mmap_buf_send(), nxt_unit_mmap_release(). *)

\* Mutant: the rest of the buffer starts with a chunk that went.
SendBufOverlap(x, b, m) ==
  LET used == {c \in b.cs : c < Min(b.cs) + m}
  IN /\ ctx[x].pc = "idle" /\ b \in bufs[x]
     /\ chan' = [chan EXCEPT ![b.eng] = Append(@, [kind |-> "data", s |-> b.s, cs |-> used])]
     /\ bufs' = [bufs EXCEPT ![x] = @ \ {b}]
     /\ ctx' = [ctx EXCEPT ![x].pc = "count", ![x].s = b.s, ![x].sent = used,
                           ![x].cs = (b.cs \ used) \cup {Max(used)}]
     /\ UNCHANGED <<segs, alloc, mutex, drain, inbox, oosms, router, bounds>>

\* The first m chunks of the buffer hold data.
SendBuf(x, b, m) ==
  LET used == {c \in b.cs : c < Min(b.cs) + m}
  IN /\ ctx[x].pc = "idle" /\ b \in bufs[x]
     /\ chan' = [chan EXCEPT ![b.eng] = Append(@, [kind |-> "data", s |-> b.s, cs |-> used])]
     /\ bufs' = [bufs EXCEPT ![x] = @ \ {b}]
     /\ ctx' = [ctx EXCEPT ![x].pc = "count", ![x].s = b.s, ![x].sent = used,
                           ![x].cs = b.cs \ used]
     /\ UNCHANGED <<segs, alloc, mutex, drain, inbox, oosms, router, bounds>>

\* The chunks that went are the router's; the rest is freed.
Count(x) ==
  /\ ctx[x].pc = "count"
  /\ alloc' = alloc - Cardinality(ctx[x].sent)
  /\ ctx' = [ctx EXCEPT ![x] = IF @.cs = {} THEN Back(x)
                               ELSE [@ EXCEPT !.pc = "free", !.sent = {}]]
  /\ UNCHANGED <<segs, mutex, bufs, drain, inbox, chan, oosms, router, bounds>>

\* A buffer that is not sent, or could not be.
FreeBuf(x, b) ==
  /\ ctx[x].pc = "idle" /\ b \in bufs[x]
  /\ bufs' = [bufs EXCEPT ![x] = @ \ {b}]
  /\ ctx' = [ctx EXCEPT ![x].pc = "drop", ![x].s = b.s, ![x].cs = b.cs]
  /\ UNCHANGED <<segs, alloc, mutex, drain, inbox, chan, oosms, router, bounds>>

\* nxt_unit_mmap_release(): the bits, then the count.  Nobody is told; history
\* notes it of the contexts that wait.
Release(x) ==
  /\ ctx[x].pc \in {"free", "drop"}
  /\ segs' = [segs EXCEPT ![ctx[x].s].free = @ \cup ctx[x].cs]
  /\ ctx' = [y \in Ctxs |->
       IF y = x THEN [ctx[x] EXCEPT !.pc = "count", !.sent = ctx[x].cs, !.cs = {}]
       ELSE [ctx[y] EXCEPT !.apart = @ \/ (ctx[x].pc = "drop" /\ ctx[y].pc = "wait")]]
  /\ drain' = [y \in Ctxs |-> IF ctx[x].pc = "drop" /\ drain[y] = "asked" THEN "apart"
                              ELSE drain[y]]
  /\ UNCHANGED <<alloc, mutex, bufs, inbox, chan, oosms, router, bounds>>

\* The event loop: shm_ack_handler() writes on.
ReadAck(x) ==
  /\ ctx[x].pc = "idle" /\ inbox[x] # <<>> /\ Head(inbox[x]) = "ack"
  /\ inbox' = [inbox EXCEPT ![x] = Tail(@)]
  /\ drain' = [drain EXCEPT ![x] = "no"]
  /\ IF drain[x] = "no" \/ ctx[x].quit THEN UNCHANGED ctx
     ELSE \E e \in Engines : ctx' = [ctx EXCEPT ![x] =
            [Back(x) EXCEPT !.pc = "retry", !.mode = "nb", !.min = 0, !.eng = e]]
  /\ UNCHANGED <<segs, alloc, mutex, bufs, chan, oosms, router, bounds>>

ReadQuit(x) ==
  /\ ctx[x].pc = "idle" /\ inbox[x] # <<>> /\ Head(inbox[x]) = "quit"
  /\ inbox' = [inbox EXCEPT ![x] = Tail(@)]
  /\ ctx' = [ctx EXCEPT ![x].quit = TRUE]
  /\ UNCHANGED <<segs, alloc, mutex, bufs, drain, chan, oosms, router, bounds>>

-----------------------------------------------------------------------------
(* The router.                                                             *)

\* nxt_port_incoming_port_mmap(), or the data of a request.
EngineRecv(e) ==
  LET m == Head(chan[e])
      known == m.s <= Len(segs) /\ segs[m.s].over = Mapped
  IN /\ chan[e] # <<>>
     /\ chan' = [chan EXCEPT ![e] = Tail(@)]
     /\ segs' = IF m.kind = "mmap" THEN [segs EXCEPT ![m.s].over = Mapped] ELSE segs
     /\ rbufs' = IF m.kind = "data" /\ known THEN rbufs \cup {[s |-> m.s, cs |-> m.cs]}
                 ELSE rbufs
     /\ lost' = (lost \/ (m.kind = "data" /\ ~known))
     /\ UNCHANGED <<alloc, mutex, ctx, bufs, drain, inbox, oosms, freed, posts, bounds>>

\* nxt_port_mmap_buf_completion(): the bits ...
Complete(b) ==
  /\ segs' = [segs EXCEPT ![b.s].free = @ \cup b.cs]
  /\ rbufs' = rbufs \ {b}
  /\ freed' = [freed EXCEPT ![b.s] = @ + 1]
  /\ UNCHANGED <<alloc, mutex, ctx, bufs, drain, inbox, chan, oosms, posts, lost,
                 bounds>>

\* ... and then the flag.
CompleteAck(s) ==
  /\ freed[s] > 0
  /\ freed' = [freed EXCEPT ![s] = @ - 1]
  /\ segs' = [segs EXCEPT ![s].oosm = FALSE]
  /\ posts' = posts + (IF segs[s].oosm THEN 1 ELSE 0)
  /\ UNCHANGED <<alloc, mutex, ctx, bufs, drain, inbox, chan, oosms, rbufs, lost,
                 bounds>>

\* nxt_port_broadcast_shm_ack() on the main engine, to every context.
AckAll == inbox' = [x \in Ctxs |-> Append(inbox[x], "ack")]
Room == \A x \in Ctxs : Len(inbox[x]) < MaxInbox

Broadcast ==
  /\ posts > 0 /\ Room
  /\ posts' = posts - 1 /\ AckAll
  /\ UNCHANGED <<segs, alloc, mutex, ctx, bufs, drain, chan, oosms, rbufs, freed, lost,
                 bounds>>

\* Mutant: the handler does not look for memory that is free already.
OosmHandlerBlind ==
  /\ oosms > 0 /\ Room
  /\ oosms' = oosms - 1
  /\ UNCHANGED <<segs, alloc, mutex, ctx, bufs, drain, inbox, chan, router, bounds>>

\* nxt_router_oosm_handler(): a mapped segment with a free chunk.  (One look: a
\* chunk that is freed behind the loop over the words has its own ack, if the
\* router frees it, or sets those that wait apart.)
OosmHandler ==
  /\ oosms > 0 /\ Room
  /\ oosms' = oosms - 1
  /\ IF \E n \in DOMAIN segs : segs[n].over = Mapped /\ segs[n].free # {}
     THEN AckAll ELSE UNCHANGED inbox
  /\ UNCHANGED <<segs, alloc, mutex, ctx, bufs, drain, chan, router, bounds>>

\* External: main asks a context to quit.
Quit(x) ==
  /\ Fault("quit") /\ Len(inbox[x]) < MaxInbox
  /\ ~ctx[x].quit /\ \A n \in DOMAIN inbox[x] : inbox[x][n] # "quit"
  /\ inbox' = [inbox EXCEPT ![x] = Append(@, "quit")]
  /\ UNCHANGED <<segs, alloc, mutex, ctx, bufs, drain, chan, oosms, router>>

CtxStep(x) ==
  \/ ScanPass(x) \/ ScanTake(x) \/ ScanBusy(x) \/ ScanRunEnds(x) \/ Undo(x)
  \/ ScanNext(x) \/ Flag(x) \/ ScanEnd(x) \/ Full(x)
  \/ SendOosm(x) \/ WaitAck(x) \/ WaitQuit(x) \/ Retry(x)
  \/ NewMmap(x) \/ SendMmap(x) \/ Unsent(x) \/ Got(x)
  \/ Count(x) \/ Release(x) \/ ReadAck(x) \/ ReadQuit(x)
Fails(x) ==
  SendOosmFails(x) \/ NewMmapFails(x) \/ SendMmapFails(x) \/ Quit(x)
Ends(x) == \E b \in bufs[x] : FreeBuf(x, b) \/ \E m \in 1..Cardinality(b.cs) : SendBuf(x, b, m)
Starts(x) ==
  \E mode \in Modes, e \in Engines :
    \E want \in Wants(mode) : GetBuf(x, mode, want, e)
RouterStep ==
  \/ \E e \in Engines : EngineRecv(e)
  \/ \E b \in rbufs : Complete(b)
  \/ \E s \in Segs : CompleteAck(s)
  \/ Broadcast \/ OosmHandler

Next ==
  \/ \E x \in Ctxs : CtxStep(x) \/ Fails(x) \/ Ends(x) \/ Starts(x)
  \/ RouterStep

Spec == Init /\ [][Next]_vars

\* The engines and the contexts run on; a context that holds a buffer sends it
\* or frees it.  Nobody has to start an allocation.
LiveSpec ==
  /\ Spec
  /\ \A x \in Ctxs : WF_vars(CtxStep(x)) /\ WF_vars(Ends(x))
  /\ \A x \in Ctxs : SF_vars(Got(x)) /\ SF_vars(Retry(x))
  /\ \A e \in Engines : WF_vars(EngineRecv(e))
  /\ WF_vars(\E b \in rbufs : Complete(b))
  /\ \A s \in Segs : WF_vars(CompleteAck(s))
  /\ WF_vars(Broadcast) /\ WF_vars(OosmHandler)

-----------------------------------------------------------------------------
(* Properties.                                                             *)

\* Who has chunk c of segment s: a buffer, a context at work, a message, the
\* router, or nobody, and then it is free.
Holders(s, c) ==
  (UNION {{<<"buffer", x, b>> : b \in {b \in bufs[x] : b.s = s /\ c \in b.cs}} : x \in Ctxs})
  \cup {<<"context", x>> : x \in {x \in Ctxs : ctx[x].s = s /\ c \in ctx[x].cs}}
  \cup (UNION {{<<"message", e, k>> :
                  k \in {k \in DOMAIN chan[e] : chan[e][k].s = s /\ c \in chan[e][k].cs}}
                : e \in Engines})
  \cup {<<"router", b>> : b \in {b \in rbufs : b.s = s /\ c \in b.cs}}
  \cup {<<"free">> : f \in {f \in {c} : f \in segs[s].free}}

\* The values of the variables.
TypeOK ==
  /\ Len(segs) <= Limit
  /\ \A n \in DOMAIN segs : /\ segs[n].over \in Engines \cup {Mapped}
                            /\ segs[n].free \subseteq Chunks
  /\ alloc \in Nat /\ mutex \in Ctxs \cup {NoCtx}
  /\ \A x \in Ctxs : Len(inbox[x]) <= MaxInbox
  /\ oosms \in Nat /\ posts \in Nat /\ gets \in 0..MaxGets /\ faults \in 0..MaxFaults

\* Two processes allocate and free in one bit map (nxt_port_mmap_chk_set_chunk_busy,
\* nxt_port_mmap_set_chunk_free): each chunk is free or has one holder, never
\* both and never neither, through partial sends and failures.
Owned ==
  \A n \in DOMAIN segs, c \in Chunks : \E h \in Holders(n, c) : Holders(n, c) = {h}

\* allocated_chunks is what the application holds and has not sent, or has sent or
\* freed and not yet taken off.  It decides between waiting for the router and
\* failing at once.
Due == {p \in Ctxs \X (Segs \X Chunks) :
          \/ \E b \in bufs[p[1]] : b.s = p[2][1] /\ p[2][2] \in b.cs
          \/ /\ ctx[p[1]].pc \in {"count", "free", "drop"} /\ ctx[p[1]].s = p[2][1]
             /\ p[2][2] \in ctx[p[1]].cs \cup ctx[p[1]].sent}
Accounted == alloc = Cardinality(Due)

\* The bit map of each segment and the counter of the application agree with
\* the chunks that are really held.
ChunksAgree == Owned /\ Accounted

\* Data never overtakes the segment that holds it, whatever port and thread
\* carries each (sent_over and src_thread in nxt_unit_mmap_get()).
MapFirst == ~lost

\* The ways in which a waiting context may be woken: an ack or a question on its
\* way, or a flagged segment with a chunk that the router, or one of the holders,
\* has to give back.
AckComing(x, holders) ==
  \/ \E n \in DOMAIN inbox[x] : inbox[x][n] \in {"ack", "quit"}
  \/ posts > 0 \/ oosms > 0
  \/ \E n \in DOMAIN segs : /\ segs[n].oosm
                            /\ \/ freed[n] > 0
                               \/ \E b \in rbufs : b.s = n
                               \/ \E y \in holders :
                                    \/ \E b \in bufs[y] : b.s = n
                                    \/ ctx[y].s = n /\ ctx[y].cs # {}
                               \/ \E e \in Engines : \E k \in DOMAIN chan[e] :
                                    chan[e][k].kind = "data" /\ chan[e][k].s = n

\* A context that waits for memory, blocked in recv or in its event loop, is not
\* forgotten: an ack is on its way, or memory that the router still holds is in a
\* segment flagged for one.  Left out: a context that passed over a segment the
\* router had not mapped, because another thread or port carries it (it sets no
\* flag there), or although it had free chunks, in runs too short (the router,
\* asked too early, does not see them, and the context's own frees tell nobody);
\* and one that waits while a sibling drops a buffer, or gives back a run that was
\* too short: the router, asked while the sibling had the run, saw nothing free
\* (MCUnitShmUndo.cfg).
Woken ==
  \A x \in Ctxs :
    /\ ctx[x].pc = "wait" /\ ~ctx[x].apart => AckComing(x, Ctxs \ {x})
    /\ drain[x] = "asked" /\ ~ctx[x].quit => AckComing(x, Ctxs)

\* The array of segments holds no header that is unmapped.
NoDangling == \A x \in Ctxs : ctx[x].pc = "scan" =>
                \A n \in DOMAIN segs : segs[n].live

\* What nxt_unit_mmap_get() would need for its rollback to be harmless: a run
\* that x gives back leaves nobody asleep over it.
UndoHeard ==
  \A x, y \in Ctxs : ctx[x].pc = "undo" /\ ctx[y].pc = "wait" /\ ~ctx[y].apart
    => AckComing(y, Ctxs \ {x, y}) \/ \E b \in bufs[x] : segs[b.s].oosm

\* A context that waits for an ack gets on, unless it passed over a segment or
\* a sibling freed the memory that it waited for.
Unblocked == \A x \in Ctxs :
  (ctx[x].pc = "wait" /\ ~ctx[x].apart) ~> (ctx[x].pc # "wait" \/ ctx[x].apart)

\* What the comment in nxt_router_oosm_handler() is after, "to mitigate possible
\* racing condition": every wait ends.
AllUnblocked == \A x \in Ctxs : ctx[x].pc = "wait" ~> ctx[x].pc # "wait"

\* A write that was short is tried again.
AllDrained == \A x \in Ctxs : drain[x] # "no" ~> drain[x] = "no"
=============================================================================
