---------------------------- MODULE UnitShmProof ----------------------------
(***************************************************************************)
(* Shared memory, for any number of contexts, engines, segments and chunks:*)
(* data never overtakes the segment that holds it (DataBehindSegment), each*)
(* chunk is free or has one holder and the counter of the application      *)
(* agrees (ChunksHeldOnce), and a context that asked for memory is not     *)
(* forgotten (WaitersWoken).                                               *)
(*                                                                         *)
(* A segment that the router has not mapped is used only by the thread     *)
(* that made it, over the port that carries it: sent_over and src_thread.  *)
(* Its announcement is in that port before the thread has a buffer in it,  *)
(* so a datagram that names it comes behind.  When an announcement fails,  *)
(* outgoing.size-- may drop the segment of another thread                  *)
(* (MCUnitShmDangling.cfg); with one segment, or no such failure, it       *)
(* cannot: Orderly.                                                        *)
(*                                                                         *)
(* A chunk goes from the bit map to a context, a buffer, a datagram, the   *)
(* router and back to the bit map, one holder at a time.                   *)
(*                                                                         *)
(* At the limit a context flags the segments and asks.  Some chunk is then *)
(* not the application's own, and whoever has it hands it on until a       *)
(* completion finds the flag, or the handler of the question finds it free.*)
(***************************************************************************)
EXTENDS UnitShm, SequenceTheorems, FiniteSetTheorems, WellFoundedInduction, TLAPS

Orderly == Limit = 1 \/ "mmap" \notin Faults

CtxPcs == {"idle", "new", "scan", "flag", "full", "wait", "retry", "mmap", "sent",
           "unsent", "got", "undo", "count", "free", "drop"}

SegSet == [id : Nat, over : Engines \cup {Mapped}, thr : Ctxs, oosm : BOOLEAN,
           free : SUBSET Int, live : BOOLEAN]
CtxSet == [pc : CtxPcs, mode : {"block", "nb", "probe"}, n : Nat, min : Nat,
           eng : Engines, i : Nat \ {0}, at : Nat, apart : BOOLEAN, s : Nat,
           cs : SUBSET Int, sent : SUBSET Int, quit : BOOLEAN]
BufSet == [s : Nat, cs : SUBSET Int, eng : Engines]
MsgSet == [kind : {"mmap", "data"}, s : Nat, cs : SUBSET Int]

Types ==
  /\ segs \in Seq(SegSet)
  /\ ctx \in [Ctxs -> CtxSet]
  /\ bufs \in [Ctxs -> SUBSET BufSet]
  /\ chan \in [Engines -> Seq(MsgSet)]
  /\ rbufs \subseteq [s : Nat, cs : SUBSET Int]

\* outgoing.mutex protects the array; a segment is added below the limit.
Locked ==
  /\ Len(segs) <= Limit
  /\ \A x \in Ctxs :
       /\ ctx[x].pc \in {"scan", "undo", "flag", "new", "got"} => mutex = x
       /\ ctx[x].pc = "new" => Len(segs) < Limit

\* An announcement of segment n is among the first k messages of engine e.
ToldIn(e, n, k) == \E j \in 1..k : chan[e][j].kind = "mmap" /\ chan[e][j].s = n
Told(e, n) == ToldIn(e, n, Len(chan[e]))

\* What thread x sends over e may lie in segment n.
Ready(n, e, x) ==
  /\ n \in 1..Len(segs)
  /\ \/ segs[n].over = Mapped
     \/ segs[n].over = e /\ segs[n].thr = x /\ Told(e, n)

Making == {"mmap", "unsent"}

\* Each segment is mapped, announced or with the thread that makes it.
SegsLinked ==
  \A n \in 1..Len(segs) :
    /\ segs[n].id = n
    /\ \/ segs[n].over = Mapped
       \/ Told(segs[n].over, n)
       \/ ctx[segs[n].thr].pc \in Making /\ ctx[segs[n].thr].s = n

\* A segment that is being made was announced to nobody.
MakersLinked ==
  \A x \in Ctxs : ctx[x].pc \in Making =>
    /\ ctx[x].s \in 1..Len(segs)
    /\ segs[ctx[x].s].over = ctx[x].eng /\ segs[ctx[x].s].thr = x
    /\ \A e \in Engines : ~Told(e, ctx[x].s)
    /\ ctx[x].pc = "unsent" => Limit = 1

UsersLinked ==
  \A x \in Ctxs :
    /\ ctx[x].pc \in {"got", "sent"} => Ready(ctx[x].s, ctx[x].eng, x)
    /\ \A b \in bufs[x] : Ready(b.s, b.eng, x)

MsgsLinked ==
  \A e \in Engines : \A k \in 1..Len(chan[e]) :
    LET m == chan[e][k]
    IN  /\ m.s \in 1..Len(segs)
        /\ m.kind = "data" => \/ segs[m.s].over = Mapped
                              \/ segs[m.s].over = e /\ ToldIn(e, m.s, k - 1)

Links == SegsLinked /\ MakersLinked /\ UsersLinked /\ MsgsLinked

MapInv == Types /\ Locked /\ Links /\ MapFirst

-----------------------------------------------------------------------------
(* Types.                                                                  *)

LEMMA IdleType == Idle \in CtxSet /\ Idle.pc = "idle"
<1>1. (CHOOSE e \in Engines : TRUE) \in Engines
  BY UnitShmAssumption
<1> QED BY <1>1 DEF Idle, CtxSet, CtxPcs

LEMMA BackType ==
  ASSUME Types, NEW x \in Ctxs
  PROVE  Back(x) \in CtxSet /\ Back(x).pc = "idle"
<1>1. ctx[x].quit \in BOOLEAN
  BY DEF Types, CtxSet
<1> QED BY <1>1, IdleType DEF Back, CtxSet

\* The locals of a context after each step.
Others(x) == \A y \in Ctxs \ {x} : ctx'[y] = ctx[y]

Kept1(x) == /\ ctx'[x].mode = ctx[x].mode /\ ctx'[x].n = ctx[x].n /\ ctx'[x].min = ctx[x].min
            /\ ctx'[x].eng = ctx[x].eng /\ ctx'[x].quit = ctx[x].quit
Load1(x) == ctx'[x].s = ctx[x].s /\ ctx'[x].cs = ctx[x].cs /\ ctx'[x].sent = ctx[x].sent
Empty1(x) == ctx'[x].cs = {} /\ ctx'[x].sent = {} /\ ctx'[x].n \in 1..NChunks

LEMMA BackFacts ==
  ASSUME Types, NEW x \in Ctxs
  PROVE  /\ Back(x).pc = "idle" /\ Back(x).n = 1 /\ Back(x).cs = {} /\ Back(x).sent = {}
         /\ Back(x).quit = ctx[x].quit /\ Back(x).mode = "probe"
         /\ 1 \in 1..NChunks
BY UnitShmAssumption DEF Back, Idle

LEMMA CtxFacts ==
  ASSUME Types, NEW x \in Ctxs, NEW v, ctx' = [ctx EXCEPT ![x] = v]
  PROVE  ctx'[x] = v /\ Others(x)
BY DEF Types, Others

LEMMA WantsType ==
  ASSUME NEW mode, NEW want \in Wants(mode)
  PROVE  want[1] \in Nat /\ want[2] \in Nat
<1>1. NChunks \in Nat
  BY UnitShmAssumption
<1>2. CASE mode = "probe"
  BY <1>2 DEF Wants
<1>3. CASE mode = "nb"
  BY <1>1, <1>3 DEF Wants
<1>4. CASE mode \notin {"probe", "nb"}
  BY <1>1, <1>4 DEF Wants
<1> QED BY <1>2, <1>3, <1>4

\* A change of one segment that leaves sent_over, src_thread and its id alone.
SegsKept ==
  /\ Len(segs') = Len(segs)
  /\ \A n \in 1..Len(segs) : /\ segs'[n].id = segs[n].id
                             /\ segs'[n].over = segs[n].over
                             /\ segs'[n].thr = segs[n].thr

\* A segment changes in its bits or its flag only.
LEMMA SegChange ==
  ASSUME Types, NEW i, NEW v, segs' = [segs EXCEPT ![i] = v],
         i \in 1..Len(segs) => /\ v \in SegSet /\ v.id = segs[i].id
                               /\ v.over = segs[i].over /\ v.thr = segs[i].thr
  PROVE  segs' \in Seq(SegSet) /\ SegsKept
<1>1. segs \in Seq(SegSet) /\ (i \in 1..Len(segs) => v \in SegSet)
  BY DEF Types
<1> DEFINE p == [segs EXCEPT ![i] = v]
<1>2. /\ p \in Seq(SegSet) /\ Len(p) = Len(segs)
      /\ \A n \in 1..Len(segs) : p[n] = IF n = i THEN v ELSE segs[n]
  <2>1. Len(segs) \in Nat /\ segs \in [1..Len(segs) -> SegSet]
    BY <1>1
  <2>2. p \in [1..Len(segs) -> SegSet]
    BY <1>1, <2>1
  <2>3. p \in Seq(SegSet) /\ Len(p) = Len(segs)
    BY <2>1, <2>2
  <2>4. \A n \in 1..Len(segs) : p[n] = IF n = i THEN v ELSE segs[n]
    BY <2>1
  <2> QED BY <2>3, <2>4
<1>3. segs' = p
  OBVIOUS
<1> HIDE DEF p
<1> QED BY <1>2, <1>3 DEF SegsKept

LEMMA FreeChange ==
  ASSUME Types, NEW i, NEW S \in SUBSET Int, segs' = [segs EXCEPT ![i].free = S]
  PROVE  segs' \in Seq(SegSet) /\ SegsKept
<1> DEFINE v == [segs[i] EXCEPT !.free = S]
<1>1. segs' = [segs EXCEPT ![i] = v]
  OBVIOUS
<1>2. ASSUME i \in 1..Len(segs)
      PROVE  /\ v \in SegSet /\ v.id = segs[i].id
             /\ v.over = segs[i].over /\ v.thr = segs[i].thr
  <2>1. segs[i] \in SegSet
    BY <1>2 DEF Types
  <2> QED BY <2>1 DEF SegSet
<1> HIDE DEF v
<1> QED BY <1>1, <1>2, SegChange

LEMMA FlagChange ==
  ASSUME Types, NEW i, NEW S \in BOOLEAN, segs' = [segs EXCEPT ![i].oosm = S]
  PROVE  segs' \in Seq(SegSet) /\ SegsKept
<1> DEFINE v == [segs[i] EXCEPT !.oosm = S]
<1>1. segs' = [segs EXCEPT ![i] = v]
  OBVIOUS
<1>2. ASSUME i \in 1..Len(segs)
      PROVE  /\ v \in SegSet /\ v.id = segs[i].id
             /\ v.over = segs[i].over /\ v.thr = segs[i].thr
  <2>1. segs[i] \in SegSet
    BY <1>2 DEF Types
  <2> QED BY <2>1 DEF SegSet
<1> HIDE DEF v
<1> QED BY <1>1, <1>2, SegChange

-----------------------------------------------------------------------------
(* Links.                                                                  *)

\* A context goes on without making or announcing a segment.
Moved(x) ==
  \/ ctx'[x].pc = ctx[x].pc /\ ctx'[x].s = ctx[x].s /\ ctx'[x].eng = ctx[x].eng
  \/ /\ ctx[x].pc \notin Making /\ ctx'[x].pc \notin Making
     /\ ctx'[x].pc \in {"got", "sent"} => Ready(ctx'[x].s, ctx'[x].eng, x)
  \/ /\ ctx[x].pc \in Making /\ ctx'[x].pc \in Making /\ Limit = 1
     /\ ctx'[x].s = ctx[x].s /\ ctx'[x].eng = ctx[x].eng

LEMMA LinksKept ==
  ASSUME Types, Links, chan' = chan, SegsKept, \A x \in Ctxs : Moved(x),
         \A x \in Ctxs : \A b \in bufs'[x] : Ready(b.s, b.eng, x)
  PROVE  Links'
<1>1. \A e, n, k : ToldIn(e, n, k)' = ToldIn(e, n, k)
  BY DEF ToldIn
<1>2. \A e, n : Told(e, n)' = Told(e, n)
  BY <1>1 DEF Told
<1>3. Len(segs) \in Nat /\ \A n \in 1..Len(segs) : segs[n].thr \in Ctxs
  <2>1. Len(segs) \in Nat /\ \A n \in 1..Len(segs) : segs[n] \in SegSet
    BY DEF Types
  <2> QED BY <2>1 DEF SegSet
<1>4. ASSUME NEW n, NEW e, NEW x, Ready(n, e, x) PROVE Ready(n, e, x)'
  BY <1>2, <1>4 DEF Ready, SegsKept
<1>5. SegsLinked'
  <2> SUFFICES ASSUME NEW n \in 1..Len(segs)
               PROVE  /\ segs'[n].id = n
                      /\ \/ segs'[n].over = Mapped
                         \/ Told(segs[n].over, n)'
                         \/ ctx'[segs'[n].thr].pc \in Making /\ ctx'[segs'[n].thr].s = n
    BY DEF SegsLinked, SegsKept
  <2>1. /\ segs'[n].id = segs[n].id /\ segs'[n].over = segs[n].over
        /\ segs'[n].thr = segs[n].thr
    BY DEF SegsKept
  <2>2. Moved(segs[n].thr)
    BY <1>3
  <2> QED BY <1>2, <2>1, <2>2 DEF Links, SegsLinked, Moved, Making
<1>6. MakersLinked'
  BY <1>2 DEF Links, MakersLinked, SegsKept, Moved
<1>7. UsersLinked'
  <2> SUFFICES ASSUME NEW x \in Ctxs
               PROVE  /\ ctx'[x].pc \in {"got", "sent"} => Ready(ctx[x].s, ctx[x].eng, x)'
                      /\ \A b \in bufs'[x] : Ready(b.s, b.eng, x)'
    BY DEF UsersLinked
  <2>1. ASSUME ctx'[x].pc \in {"got", "sent"} PROVE Ready(ctx'[x].s, ctx'[x].eng, x)
    BY <2>1 DEF Links, UsersLinked, Moved, Making
  <2>2. ASSUME ctx'[x].pc \in {"got", "sent"} PROVE Ready(ctx[x].s, ctx[x].eng, x)'
    BY <2>1, <2>2, <1>2 DEF Ready, SegsKept
  <2>3. ASSUME NEW b \in bufs'[x] PROVE Ready(b.s, b.eng, x)'
    BY <1>4
  <2> QED BY <2>2, <2>3
<1>8. MsgsLinked'
  BY <1>1 DEF Links, MsgsLinked, SegsKept
<1> QED BY <1>5, <1>6, <1>7, <1>8 DEF Links


LEMMA Steady ==
  ASSUME MapInv, Types', Locked', chan' = chan, SegsKept, lost' = lost,
         \A x \in Ctxs : Moved(x),
         \A x \in Ctxs : \A b \in bufs'[x] : b \in bufs[x] \/ Ready(b.s, b.eng, x)
  PROVE  MapInv'
<1>1. \A x \in Ctxs : \A b \in bufs'[x] : Ready(b.s, b.eng, x)
  BY DEF MapInv, Links, UsersLinked
<1>2. Links'
  BY <1>1, LinksKept DEF MapInv
<1> QED BY <1>2 DEF MapInv, MapFirst

\* How a step of context x may move the mutex.
MutexMoved(x) == \/ mutex' = mutex
                 \/ mutex = NoCtx /\ mutex' = x
                 \/ mutex = x /\ mutex' = NoCtx

Guarded == {"scan", "undo", "flag", "new", "got"}

LEMMA LockKept ==
  ASSUME Locked, NEW x \in Ctxs, MutexMoved(x), Len(segs') <= Limit,
         \A y \in Ctxs \ {x} : ctx'[y].pc = ctx[y].pc,
         ctx'[x].pc \in Guarded => mutex' = x,
         ctx'[x].pc = "new" => Len(segs') < Limit,
         \/ Len(segs') = Len(segs)
         \/ \A y \in Ctxs \ {x} : ctx[y].pc # "new"
  PROVE  Locked'
BY UnitShmAssumption DEF Locked, MutexMoved, Guarded

\* A step of context x that changes its locals only.
LEMMA CtxMoves ==
  ASSUME MapInv, NEW x \in Ctxs, NEW v \in CtxSet, ctx' = [ctx EXCEPT ![x] = v],
         UNCHANGED <<segs, chan, rbufs, lost>>, ctx[x].pc \notin Making,
         v.pc \notin Making \cup {"got", "sent"}, MutexMoved(x),
         bufs' \in [Ctxs -> SUBSET BufSet],
         \A y \in Ctxs : bufs'[y] \subseteq bufs[y],
         v.pc \in Guarded => mutex' = x, v.pc = "new" => Len(segs) < Limit
  PROVE  MapInv'
<1>1. Types'
  BY DEF MapInv, Types
<1>2. ctx'[x] = v /\ \A y \in Ctxs \ {x} : ctx'[y] = ctx[y]
  BY DEF MapInv, Types
<1>3. SegsKept /\ chan' = chan /\ lost' = lost
  BY DEF SegsKept
<1>4. Locked'
  <2>1. Locked /\ Len(segs') = Len(segs) /\ Len(segs') <= Limit
    BY DEF MapInv, Locked
  <2> QED BY <1>2, <2>1, LockKept
<1>5. \A y \in Ctxs : Moved(y)
  BY <1>2 DEF Moved
<1>6. \A y \in Ctxs : \A b \in bufs'[y] : b \in bufs[y] \/ Ready(b.s, b.eng, y)
  OBVIOUS
<1> QED BY <1>1, <1>3, <1>4, <1>5, <1>6, Steady

\* A step that changes nothing of this.
LEMMA Apart ==
  ASSUME MapInv, UNCHANGED <<segs, mutex, ctx, bufs, chan, rbufs, lost>>
  PROVE  MapInv'
<1>1. Types' /\ Locked' /\ SegsKept
  BY DEF MapInv, Types, Locked, SegsKept
<1>2. \A y \in Ctxs : Moved(y)
  BY DEF Moved
<1> QED BY <1>1, <1>2, Steady

-----------------------------------------------------------------------------
(* The steps of a context.                                                 *)

LEMMA GetBufStep ==
  ASSUME MapInv, NEW x \in Ctxs, NEW mode, NEW e \in Engines,
         NEW want \in Wants(mode), GetBuf(x, mode, want, e)
  PROVE  MapInv'
<1> DEFINE v == [Idle EXCEPT
       !.pc = IF segs = <<>> THEN "new" ELSE "scan", !.mode = mode,
       !.n = want[1], !.min = want[2], !.eng = e]
<1>1. /\ ctx' = [ctx EXCEPT ![x] = v] /\ UNCHANGED <<segs, chan, rbufs, lost, bufs>>
      /\ mutex = NoCtx /\ mutex' = x /\ ctx[x].pc = "idle" /\ mode \in Modes
  BY DEF GetBuf, router
<1>2. want[1] \in Nat /\ want[2] \in Nat
  BY WantsType
<1>3. mode \in {"block", "nb", "probe"}
  BY <1>1, UnitShmAssumption DEF MapInv, Types, CtxSet
<1>4. v \in CtxSet /\ v.pc \in {"new", "scan"} /\ (v.pc = "new" => segs = <<>>)
  BY <1>2, <1>3, IdleType DEF CtxSet, CtxPcs
<1>5. segs = <<>> => Len(segs) < Limit
  BY UnitShmAssumption
<1>6. bufs' \in [Ctxs -> SUBSET BufSet] /\ \A y \in Ctxs : bufs'[y] \subseteq bufs[y]
  BY <1>1 DEF MapInv, Types
<1> HIDE DEF v
<1> QED BY <1>1, <1>4, <1>5, <1>6, CtxMoves DEF Making, Guarded, MutexMoved

\* Steps that let go of the locals, or go on to a step without a segment.
LEMMA PlainStep ==
  ASSUME MapInv, NEW x \in Ctxs, NEW v \in CtxSet, ctx' = [ctx EXCEPT ![x] = v],
         UNCHANGED <<segs, chan, rbufs, lost, bufs>>, MutexMoved(x),
         ctx[x].pc \notin Making, v.pc \notin Making \cup {"got", "sent"} \cup Guarded
  PROVE  MapInv'
<1>1. bufs' \in [Ctxs -> SUBSET BufSet] /\ \A y \in Ctxs : bufs'[y] \subseteq bufs[y]
  BY DEF MapInv, Types
<1> QED BY <1>1, CtxMoves DEF Guarded

LEMMA ScanEndStep ==
  ASSUME MapInv, NEW x \in Ctxs, ScanEnd(x)
  PROVE  MapInv'
<1>1. mutex = x /\ ctx[x].pc = "scan" /\ ctx[x] \in CtxSet /\ Len(segs) \in Nat
  BY DEF ScanEnd, MapInv, Locked, Types
<1>2. CASE Len(segs) >= Limit
  <2> DEFINE v == [ctx[x] EXCEPT !.pc = "full"]
  <2>1. v \in CtxSet /\ v.pc = "full"
    BY <1>1 DEF CtxSet, CtxPcs
  <2>2. /\ ctx' = [ctx EXCEPT ![x] = v] /\ UNCHANGED <<segs, chan, rbufs, lost, bufs>>
        /\ mutex' = NoCtx
    BY <1>2 DEF ScanEnd, router
  <2> HIDE DEF v
  <2> QED BY <1>1, <2>1, <2>2, PlainStep DEF MutexMoved, Making, Guarded
<1>3. CASE ~(Len(segs) >= Limit)
  <2> DEFINE v == [ctx[x] EXCEPT !.pc = "new"]
  <2>1. v \in CtxSet /\ v.pc = "new"
    BY <1>1 DEF CtxSet, CtxPcs
  <2>2. /\ ctx' = [ctx EXCEPT ![x] = v] /\ UNCHANGED <<segs, chan, rbufs, lost, bufs>>
        /\ mutex' = mutex
    BY <1>3 DEF ScanEnd, router
  <2>3. bufs' \in [Ctxs -> SUBSET BufSet] /\ \A y \in Ctxs : bufs'[y] \subseteq bufs[y]
    BY <2>2 DEF MapInv, Types
  <2>4. Len(segs) < Limit
    BY <1>1, <1>3, UnitShmAssumption
  <2> HIDE DEF v
  <2> QED BY <1>1, <2>1, <2>2, <2>3, <2>4, CtxMoves DEF MutexMoved, Making
<1> QED BY <1>2, <1>3

\* The caller gets NULL, without a segment.
LEMMA RefusedStep ==
  ASSUME MapInv, NEW x \in Ctxs, NEW asked, Refused(x, asked),
         UNCHANGED <<segs, chan, rbufs, lost, bufs>>, MutexMoved(x),
         ctx[x].pc \notin Making
  PROVE  MapInv'
<1>1. ctx' = [ctx EXCEPT ![x] = Back(x)]
  BY DEF Refused
<1>2. Back(x) \in CtxSet /\ Back(x).pc = "idle"
  BY BackType DEF MapInv
<1> QED BY <1>1, <1>2, PlainStep DEF Making, Guarded

LEMMA RefusalSteps ==
  ASSUME MapInv, NEW x \in Ctxs,
         Full(x) \/ SendOosm(x) \/ SendOosmFails(x) \/ NewMmapFails(x)
  PROVE  MapInv'
<1>1. CASE Full(x)
  BY <1>1, RefusedStep DEF Full, MutexMoved, Making, router
<1>2. CASE SendOosm(x)
  <2>1. CASE ctx[x].mode = "nb"
    BY <1>2, <2>1, RefusedStep DEF SendOosm, MutexMoved, Making, router
  <2>2. CASE ctx[x].mode # "nb"
    <3> DEFINE v == [ctx[x] EXCEPT !.pc = "wait"]
    <3>0. ctx[x] \in CtxSet
      BY DEF MapInv, Types
    <3>1. v \in CtxSet /\ v.pc = "wait"
      BY <3>0 DEF CtxSet, CtxPcs
    <3>2. /\ ctx' = [ctx EXCEPT ![x] = v] /\ UNCHANGED <<segs, chan, rbufs, lost, bufs>>
          /\ mutex' = mutex /\ ctx[x].pc = "full"
      BY <1>2, <2>2 DEF SendOosm, router
    <3> HIDE DEF v
    <3> QED BY <3>1, <3>2, PlainStep DEF MutexMoved, Making, Guarded
  <2> QED BY <2>1, <2>2
<1>3. CASE SendOosmFails(x)
  BY <1>3, RefusedStep DEF SendOosmFails, MutexMoved, Making, router
<1>4. CASE NewMmapFails(x)
  <2>1. mutex = x /\ mutex' = NoCtx
    BY <1>4 DEF NewMmapFails, MapInv, Locked
  <2> QED BY <1>4, <2>1, RefusedStep DEF NewMmapFails, MutexMoved, Making, router
<1> QED BY <1>1, <1>2, <1>3, <1>4


LEMMA WaitSteps ==
  ASSUME MapInv, NEW x \in Ctxs, WaitAck(x) \/ WaitQuit(x) \/ ReadQuit(x) \/ Count(x)
  PROVE  MapInv'
<1>0. ctx[x] \in CtxSet /\ UNCHANGED <<segs, chan, rbufs, lost, bufs, mutex>>
  BY DEF MapInv, Types, WaitAck, WaitQuit, ReadQuit, Count, router
<1>1. Back(x) \in CtxSet /\ Back(x).pc = "idle"
  BY BackType DEF MapInv
<1> USE DEF MutexMoved, Making, Guarded
<1>2. CASE WaitAck(x)
  <2> DEFINE v == [ctx[x] EXCEPT !.pc = "retry"]
  <2>1. v \in CtxSet /\ v.pc = "retry"
    BY <1>0 DEF CtxSet, CtxPcs
  <2>2. ctx' = [ctx EXCEPT ![x] = v] /\ ctx[x].pc = "wait"
    BY <1>2 DEF WaitAck
  <2> HIDE DEF v
  <2> QED BY <1>0, <2>1, <2>2, PlainStep
<1>3. CASE WaitQuit(x)
  <2> DEFINE v == [Back(x) EXCEPT !.quit = TRUE]
  <2>1. v \in CtxSet /\ v.pc = "idle"
    BY <1>1 DEF CtxSet, CtxPcs
  <2>2. ctx' = [ctx EXCEPT ![x] = v] /\ ctx[x].pc = "wait"
    BY <1>3 DEF WaitQuit
  <2> HIDE DEF v
  <2> QED BY <1>0, <2>1, <2>2, PlainStep
<1>4. CASE ReadQuit(x)
  <2> DEFINE v == [ctx[x] EXCEPT !.quit = TRUE]
  <2>1. ctx' = [ctx EXCEPT ![x] = v] /\ ctx[x].pc = "idle"
    BY <1>4 DEF ReadQuit
  <2>2. v \in CtxSet /\ v.pc = "idle"
    BY <1>0, <2>1 DEF CtxSet, CtxPcs
  <2> HIDE DEF v
  <2> QED BY <1>0, <2>1, <2>2, PlainStep
<1>5. CASE Count(x)
  <2> DEFINE w == [ctx[x] EXCEPT !.pc = "free", !.sent = {}]
             v == IF ctx[x].cs = {} THEN Back(x) ELSE w
  <2>1. w \in CtxSet /\ w.pc = "free"
    BY <1>0 DEF CtxSet, CtxPcs
  <2>2. v \in CtxSet /\ v.pc \in {"idle", "free"}
    BY <1>1, <2>1
  <2>3. ctx' = [ctx EXCEPT ![x] = v] /\ ctx[x].pc = "count"
    BY <1>5 DEF Count
  <2> HIDE DEF v
  <2> QED BY <1>0, <2>2, <2>3, PlainStep
<1> QED BY <1>2, <1>3, <1>4, <1>5

LEMMA ApartType ==
  ASSUME NEW c \in CtxSet, NEW a \in BOOLEAN
  PROVE  LET d == [c EXCEPT !.apart = a]
         IN  d \in CtxSet /\ d.pc = c.pc /\ d.eng = c.eng /\ d.s = c.s
BY DEF CtxSet

LEMMA RetryStep ==
  ASSUME MapInv, NEW x \in Ctxs, Retry(x)
  PROVE  MapInv'
<1> DEFINE v == [ctx[x] EXCEPT !.pc = "scan", !.i = 1, !.at = 0, !.apart = FALSE]
<1>1. v \in CtxSet /\ v.pc = "scan"
  <2> DEFINE u == [ctx[x] EXCEPT !.pc = "scan"]
             t == [u EXCEPT !.i = 1]
             w == [t EXCEPT !.at = 0]
  <2>0. ctx[x] \in CtxSet
    BY DEF MapInv, Types
  <2>3. u \in CtxSet /\ u.pc = "scan"
    BY <2>0 DEF CtxSet, CtxPcs
  <2>4. t \in CtxSet /\ t.pc = "scan"
    <3> HIDE DEF u
    <3> QED BY <2>3 DEF CtxSet
  <2>1. w \in CtxSet /\ w.pc = "scan"
    <3> HIDE DEF t
    <3> QED BY <2>4 DEF CtxSet
  <2>2. v = [w EXCEPT !.apart = FALSE]
    OBVIOUS
  <2> HIDE DEF w, v
  <2> QED BY <2>1, <2>2, ApartType
<1>2. /\ ctx' = [ctx EXCEPT ![x] = v] /\ ctx[x].pc = "retry"
      /\ UNCHANGED <<segs, chan, rbufs, lost, bufs>> /\ mutex = NoCtx /\ mutex' = x
  BY DEF Retry, router
<1>3. bufs' \in [Ctxs -> SUBSET BufSet] /\ \A y \in Ctxs : bufs'[y] \subseteq bufs[y]
  BY <1>2 DEF MapInv, Types
<1> HIDE DEF v
<1> QED BY <1>1, <1>2, <1>3, CtxMoves DEF MutexMoved, Making

LEMMA ReadAckStep ==
  ASSUME MapInv, NEW x \in Ctxs, ReadAck(x)
  PROVE  MapInv'
<1>1. ctx[x].pc = "idle" /\ UNCHANGED <<segs, chan, rbufs, lost, bufs, mutex>>
  BY DEF ReadAck, router
<1>2. CASE ctx' = ctx
  BY <1>1, <1>2, Apart
<1>3. ASSUME NEW e \in Engines, ctx' = [ctx EXCEPT ![x] =
               [Back(x) EXCEPT !.pc = "retry", !.mode = "nb", !.min = 0, !.eng = e]]
      PROVE  MapInv'
  <2> DEFINE v == [Back(x) EXCEPT !.pc = "retry", !.mode = "nb", !.min = 0, !.eng = e]
  <2>1. Back(x) \in CtxSet
    BY BackType DEF MapInv
  <2>2. v \in CtxSet /\ v.pc = "retry"
    BY <2>1 DEF CtxSet, CtxPcs
  <2>3. ctx' = [ctx EXCEPT ![x] = v]
    BY <1>3
  <2> HIDE DEF v
  <2> QED BY <1>1, <2>2, <2>3, PlainStep DEF MutexMoved, Making, Guarded
<1> QED BY <1>2, <1>3 DEF ReadAck

LEMMA FreeBufStep ==
  ASSUME MapInv, NEW x \in Ctxs, NEW b \in bufs[x], FreeBuf(x, b)
  PROVE  MapInv'
<1> DEFINE v == [ctx[x] EXCEPT !.pc = "drop", !.s = b.s, !.cs = b.cs]
<1>1. ctx[x] \in CtxSet /\ b \in BufSet
  BY DEF MapInv, Types
<1>2. v \in CtxSet /\ v.pc = "drop"
  BY <1>1 DEF CtxSet, CtxPcs, BufSet
<1>3. /\ ctx' = [ctx EXCEPT ![x] = v] /\ ctx[x].pc = "idle"
      /\ UNCHANGED <<segs, chan, rbufs, lost, mutex>>
      /\ bufs' = [bufs EXCEPT ![x] = @ \ {b}]
  BY DEF FreeBuf, router
<1>4. bufs' \in [Ctxs -> SUBSET BufSet] /\ \A y \in Ctxs : bufs'[y] \subseteq bufs[y]
  BY <1>3 DEF MapInv, Types
<1> HIDE DEF v
<1> QED BY <1>2, <1>3, <1>4, CtxMoves DEF MutexMoved, Making, Guarded

\* What each step of the search does to the locals.
LEMMA ScanPassFacts ==
  ASSUME Types, NEW x \in Ctxs, ScanPass(x)
  PROVE  /\ Others(x) /\ ctx' \in [Ctxs -> CtxSet] /\ segs' = segs
         /\ ctx[x].pc = "scan" /\ ctx'[x].pc = "scan" /\ Kept1(x) /\ Load1(x)
         /\ ctx[x].i \in 1..Len(segs) /\ ctx'[x].i = ctx[x].i + 1 /\ ctx'[x].apart
         /\ ~Usable(x, segs[ctx[x].i])
<1> DEFINE c == ctx[x]
           w == [c EXCEPT !.i = @ + 1]
           v == [w EXCEPT !.apart = TRUE]
<1>1. c \in CtxSet
  BY DEF Types
<1>2. /\ w \in CtxSet /\ w.pc = c.pc /\ w.mode = c.mode /\ w.n = c.n /\ w.min = c.min
      /\ w.eng = c.eng /\ w.quit = c.quit /\ w.s = c.s /\ w.cs = c.cs /\ w.sent = c.sent
      /\ w.i = c.i + 1
  BY <1>1 DEF CtxSet
<1>3. ctx' = [ctx EXCEPT ![x] = v] /\ segs' = segs /\ Scanning(x) /\ ~Usable(x, segs[c.i])
  BY DEF ScanPass
<1>4. c.i \in 1..Len(segs) /\ c.pc = "scan"
  BY <1>1, <1>3 DEF Scanning, CtxSet, Types
<1> HIDE DEF w
<1>5. /\ v \in CtxSet /\ v.pc = w.pc /\ v.mode = w.mode /\ v.n = w.n /\ v.min = w.min
      /\ v.eng = w.eng /\ v.quit = w.quit /\ v.s = w.s /\ v.cs = w.cs /\ v.sent = w.sent
      /\ v.i = w.i
  BY <1>2 DEF CtxSet
<1>6. v.apart
  BY <1>2 DEF CtxSet
<1> HIDE DEF v
<1>7. ctx'[x] = v /\ Others(x)
  BY <1>3, CtxFacts
<1>8. ctx' \in [Ctxs -> CtxSet]
  BY <1>3, <1>5 DEF Types
<1> QED BY <1>2, <1>3, <1>4, <1>5, <1>6, <1>7, <1>8 DEF Kept1, Load1

LEMMA ScanBusyFacts ==
  ASSUME Types, NEW x \in Ctxs, ScanBusy(x)
  PROVE  /\ Others(x) /\ ctx' \in [Ctxs -> CtxSet] /\ segs' = segs
         /\ ctx[x].pc = "scan" /\ ctx'[x].pc = "scan" /\ Kept1(x) /\ Load1(x)
         /\ ctx'[x].i = ctx[x].i /\ ctx'[x].apart = ctx[x].apart /\ ctx[x].cs = {}
<1> DEFINE c == ctx[x]
           v == [c EXCEPT !.at = @ + 1]
<1>1. c \in CtxSet
  BY DEF Types
<1>2. /\ v \in CtxSet /\ v.pc = c.pc /\ v.mode = c.mode /\ v.n = c.n /\ v.min = c.min
      /\ v.eng = c.eng /\ v.quit = c.quit /\ v.s = c.s /\ v.cs = c.cs /\ v.sent = c.sent
      /\ v.i = c.i /\ v.apart = c.apart
  BY <1>1 DEF CtxSet
<1>3. ctx' = [ctx EXCEPT ![x] = v] /\ segs' = segs /\ c.pc = "scan" /\ c.cs = {}
  BY DEF ScanBusy, Looking, Scanning
<1> HIDE DEF v
<1>4. ctx'[x] = v /\ Others(x)
  BY <1>3, CtxFacts
<1>5. ctx' \in [Ctxs -> CtxSet]
  BY <1>2, <1>3 DEF Types
<1> QED BY <1>2, <1>3, <1>4, <1>5 DEF Kept1, Load1

LEMMA ScanNextFacts ==
  ASSUME Types, NEW x \in Ctxs, ScanNext(x)
  PROVE  LET i == ctx[x].i
             seg == segs[i]
         IN  /\ Others(x) /\ ctx' \in [Ctxs -> CtxSet] /\ segs' = segs
             /\ ctx[x].pc = "scan" /\ i \in 1..Len(segs) /\ Kept1(x) /\ Load1(x)
             /\ ctx[x].cs = {} /\ Usable(x, seg)
             /\ \/ ctx[x].mode = "probe" /\ ctx'[x].pc = "scan" /\ ctx'[x].i = i + 1
                \/ /\ ctx'[x].pc = "flag" /\ ctx'[x].i = i
                   /\ ~ctx'[x].apart => ~ctx[x].apart /\ (seg.over = Mapped \/ seg.free = {})
<1> DEFINE c == ctx[x]
           i == c.i
           seg == segs[i]
           late == c.apart \/ (seg.over # Mapped /\ seg.free # {})
           u == [c EXCEPT !.i = @ + 1, !.at = 0]
           w == [c EXCEPT !.pc = "flag"]
           v == [w EXCEPT !.apart = late]
           K(r) == /\ r \in CtxSet /\ r.mode = c.mode /\ r.n = c.n /\ r.min = c.min
                   /\ r.eng = c.eng /\ r.quit = c.quit
                   /\ r.s = c.s /\ r.cs = c.cs /\ r.sent = c.sent
<1>1. c \in CtxSet
  BY DEF Types
<1>2. K(u) /\ u.pc = c.pc /\ u.i = i + 1
  <2> DEFINE t == [c EXCEPT !.i = @ + 1]
  <2>1. K(t) /\ t.pc = c.pc /\ t.i = i + 1
    BY <1>1 DEF CtxSet
  <2>2. u = [t EXCEPT !.at = 0]
    OBVIOUS
  <2> HIDE DEF t, u
  <2> QED BY <2>1, <2>2 DEF CtxSet
<1>3. K(w) /\ w.pc = "flag" /\ w.i = i
  BY <1>1 DEF CtxSet, CtxPcs
<1>4. /\ Looking(x) /\ c.cs = {} /\ segs' = segs
      /\ \/ c.mode = "probe" /\ ctx' = [ctx EXCEPT ![x] = u]
         \/ ctx' = [ctx EXCEPT ![x] = v]
  BY DEF ScanNext
<1>5. c.pc = "scan" /\ i \in 1..Len(segs) /\ Usable(x, seg)
  BY <1>1, <1>4 DEF Looking, Scanning, CtxSet, Types
<1>6. late \in BOOLEAN /\ (~late => ~c.apart /\ (seg.over = Mapped \/ seg.free = {}))
  OBVIOUS
<1> HIDE DEF u, w, late
<1>7. K(v) /\ v.pc = "flag" /\ v.i = i
  <2>1. /\ v \in CtxSet /\ v.mode = w.mode /\ v.n = w.n /\ v.min = w.min
        /\ v.eng = w.eng /\ v.quit = w.quit
        /\ v.s = w.s /\ v.cs = w.cs /\ v.sent = w.sent /\ v.pc = w.pc /\ v.i = w.i
    BY <1>3, <1>6 DEF CtxSet
  <2> HIDE DEF v
  <2> QED BY <1>3, <2>1
<1>8. v.apart = late
  BY <1>3, Zenon DEF CtxSet
<1> HIDE DEF v
<1>9. CASE c.mode = "probe" /\ ctx' = [ctx EXCEPT ![x] = u]
  <2>1. ctx'[x] = u /\ Others(x)
    BY <1>9, CtxFacts
  <2>2. ctx' \in [Ctxs -> CtxSet]
    BY <1>2, <1>9 DEF Types
  <2> QED BY <1>2, <1>4, <1>5, <1>9, <2>1, <2>2 DEF Kept1, Load1
<1>10. CASE ctx' = [ctx EXCEPT ![x] = v]
  <2>1. ctx'[x] = v /\ Others(x)
    BY <1>10, CtxFacts
  <2>2. ctx' \in [Ctxs -> CtxSet]
    BY <1>7, <1>10 DEF Types
  <2>3. ~ctx'[x].apart => ~late
    BY <1>8, <2>1
  <2> QED BY <1>4, <1>5, <1>6, <1>7, <2>1, <2>2, <2>3 DEF Kept1, Load1
<1> QED BY <1>4, <1>9, <1>10

\* The run that the caller gets.
LEMMA TakenFacts ==
  ASSUME Types, NEW x \in Ctxs, ctx[x].i \in 1..Len(segs), NEW cs \in SUBSET Int
  PROVE  LET v == Taken(x, cs)
         IN  /\ v \in CtxSet /\ v.pc = "got" /\ v.eng = ctx[x].eng /\ v.quit = ctx[x].quit
             /\ v.s = segs[ctx[x].i].id /\ v.cs = cs /\ v.sent = {} /\ v.n = 1
<1>1. Back(x) \in CtxSet /\ Back(x).sent = {} /\ Back(x).quit = ctx[x].quit /\ Back(x).n = 1
  BY BackType, BackFacts
<1>2. ctx[x].eng \in Engines /\ segs[ctx[x].i].id \in Nat
  <2>1. ctx[x] \in CtxSet /\ segs[ctx[x].i] \in SegSet
    BY DEF Types
  <2> QED BY <2>1 DEF CtxSet, SegSet
<1> QED BY <1>1, <1>2 DEF Taken, CtxSet, CtxPcs

LEMMA ScanTakeFacts ==
  ASSUME Types, NEW x \in Ctxs, ScanTake(x)
  PROVE  LET i == ctx[x].i
             at == ctx[x].at
         IN  /\ Others(x) /\ ctx' \in [Ctxs -> CtxSet]
             /\ segs' = [segs EXCEPT ![i].free = segs[i].free \ {at}]
             /\ ctx[x].pc = "scan" /\ i \in 1..Len(segs) /\ Usable(x, segs[i])
             /\ at \in segs[i].free
             /\ ctx'[x].s = segs[i].id /\ ctx'[x].cs = ctx[x].cs \cup {at}
             /\ ctx'[x].eng = ctx[x].eng /\ ctx'[x].quit = ctx[x].quit
             /\ \/ ctx'[x].pc = "got" /\ ctx'[x].sent = {} /\ ctx'[x].n = 1
                \/ /\ ctx'[x].pc = "scan" /\ ctx'[x].i = i /\ Kept1(x)
                   /\ ctx'[x].sent = ctx[x].sent /\ ctx'[x].apart = ctx[x].apart
<1> DEFINE c == ctx[x]
           i == c.i
           cs == c.cs \cup {c.at}
           u == Taken(x, cs)
           v == [c EXCEPT !.s = segs[i].id, !.cs = cs, !.at = @ + 1]
<1>1. c \in CtxSet
  BY DEF Types
<1>2. /\ Looking(x) /\ AtFree(x)
      /\ segs' = [segs EXCEPT ![i].free = segs[i].free \ {c.at}]
      /\ ctx' = [ctx EXCEPT ![x] = u] \/ ctx' = [ctx EXCEPT ![x] = v]
  BY DEF ScanTake
<1>3. c.pc = "scan" /\ i \in 1..Len(segs) /\ Usable(x, segs[i]) /\ c.at \in segs[i].free
  BY <1>1, <1>2 DEF Looking, Scanning, AtFree, CtxSet, Types
<1>4. cs \in SUBSET Int /\ segs[i].id \in Nat
  <2>1. segs[i] \in SegSet
    BY <1>3 DEF Types
  <2> QED BY <1>1, <2>1 DEF CtxSet, SegSet
<1>5. /\ u \in CtxSet /\ u.pc = "got" /\ u.eng = c.eng /\ u.quit = c.quit
      /\ u.s = segs[i].id /\ u.cs = cs /\ u.sent = {} /\ u.n = 1
  <2> HIDE DEF cs
  <2> QED BY <1>3, <1>4, TakenFacts
<1> HIDE DEF u
<1>6. /\ v \in CtxSet /\ v.pc = c.pc /\ v.mode = c.mode /\ v.n = c.n /\ v.min = c.min
      /\ v.eng = c.eng /\ v.quit = c.quit /\ v.s = segs[i].id /\ v.cs = cs
      /\ v.sent = c.sent /\ v.i = i /\ v.apart = c.apart
  <2> DEFINE t == [c EXCEPT !.s = segs[i].id, !.cs = cs]
  <2>1. /\ t \in CtxSet /\ t.pc = c.pc /\ t.mode = c.mode /\ t.n = c.n /\ t.min = c.min
        /\ t.eng = c.eng /\ t.quit = c.quit /\ t.s = segs[i].id /\ t.cs = cs
        /\ t.sent = c.sent /\ t.i = i /\ t.apart = c.apart
    <3> HIDE DEF cs
    <3> QED BY <1>1, <1>4 DEF CtxSet
  <2>2. v = [t EXCEPT !.at = @ + 1]
    OBVIOUS
  <2> HIDE DEF t, v
  <2> QED BY <2>1, <2>2 DEF CtxSet
<1> HIDE DEF v
<1>7. CASE ctx' = [ctx EXCEPT ![x] = u]
  <2>1. ctx'[x] = u /\ Others(x)
    BY <1>7, CtxFacts
  <2>2. ctx' \in [Ctxs -> CtxSet]
    BY <1>5, <1>7 DEF Types
  <2> QED BY <1>2, <1>3, <1>5, <2>1, <2>2
<1>8. CASE ctx' = [ctx EXCEPT ![x] = v]
  <2>1. ctx'[x] = v /\ Others(x)
    BY <1>8, CtxFacts
  <2>2. ctx' \in [Ctxs -> CtxSet]
    BY <1>6, <1>8 DEF Types
  <2> QED BY <1>2, <1>3, <1>6, <2>1, <2>2 DEF Kept1
<1> QED BY <1>2, <1>7, <1>8

LEMMA ScanRunEndsFacts ==
  ASSUME Types, NEW x \in Ctxs, ScanRunEnds(x)
  PROVE  LET i == ctx[x].i
         IN  /\ Others(x) /\ ctx' \in [Ctxs -> CtxSet] /\ segs' = segs
             /\ ctx[x].pc = "scan" /\ i \in 1..Len(segs) /\ Usable(x, segs[i])
             /\ ctx[x].cs # {} /\ ctx'[x].cs = ctx[x].cs
             /\ ctx'[x].eng = ctx[x].eng /\ ctx'[x].quit = ctx[x].quit
             /\ \/ /\ ctx'[x].pc = "got" /\ ctx'[x].sent = {} /\ ctx'[x].n = 1
                   /\ ctx'[x].s = segs[i].id
                \/ /\ ctx'[x].pc = "undo" /\ ctx'[x].i = i /\ Kept1(x) /\ Load1(x)
                   /\ ctx'[x].apart = ctx[x].apart
<1> DEFINE c == ctx[x]
           i == c.i
           u == Taken(x, c.cs)
           v == [c EXCEPT !.pc = "undo"]
<1>1. c \in CtxSet
  BY DEF Types
<1>2. /\ Looking(x) /\ c.cs # {} /\ segs' = segs
      /\ ctx' = [ctx EXCEPT ![x] = u] \/ ctx' = [ctx EXCEPT ![x] = v]
  BY DEF ScanRunEnds
<1>3. c.pc = "scan" /\ i \in 1..Len(segs) /\ Usable(x, segs[i])
  BY <1>1, <1>2 DEF Looking, Scanning, CtxSet, Types
<1>4. c.cs \in SUBSET Int
  BY <1>1 DEF CtxSet
<1>5. /\ u \in CtxSet /\ u.pc = "got" /\ u.eng = c.eng /\ u.quit = c.quit
      /\ u.s = segs[i].id /\ u.cs = c.cs /\ u.sent = {} /\ u.n = 1
  BY <1>3, <1>4, TakenFacts
<1> HIDE DEF u
<1>6. /\ v \in CtxSet /\ v.pc = "undo" /\ v.mode = c.mode /\ v.n = c.n /\ v.min = c.min
      /\ v.eng = c.eng /\ v.quit = c.quit /\ v.s = c.s /\ v.cs = c.cs
      /\ v.sent = c.sent /\ v.i = i /\ v.apart = c.apart
  BY <1>1 DEF CtxSet, CtxPcs
<1> HIDE DEF v
<1>7. CASE ctx' = [ctx EXCEPT ![x] = u]
  <2>1. ctx'[x] = u /\ Others(x)
    BY <1>7, CtxFacts
  <2>2. ctx' \in [Ctxs -> CtxSet]
    BY <1>5, <1>7 DEF Types
  <2> QED BY <1>2, <1>3, <1>5, <2>1, <2>2
<1>8. CASE ctx' = [ctx EXCEPT ![x] = v]
  <2>1. ctx'[x] = v /\ Others(x)
    BY <1>8, CtxFacts
  <2>2. ctx' \in [Ctxs -> CtxSet]
    BY <1>6, <1>8 DEF Types
  <2> QED BY <1>2, <1>3, <1>6, <2>1, <2>2 DEF Kept1, Load1
<1> QED BY <1>2, <1>7, <1>8

\* The other contexts keep what they have; those that wait may be set apart.
LEMMA UndoFacts ==
  ASSUME Types, NEW x \in Ctxs, Undo(x)
  PROVE  LET i == ctx[x].i
         IN  /\ ctx' \in [Ctxs -> CtxSet] /\ ctx[x].pc = "undo"
             /\ Kept1(x) /\ ctx'[x].s = ctx[x].s /\ ctx'[x].sent = ctx[x].sent
             /\ ctx'[x].i = i /\ ctx'[x].apart = ctx[x].apart
             /\ \E k \in ctx[x].cs :
                  /\ segs' = [segs EXCEPT ![i].free = segs[i].free \cup {k}]
                  /\ ctx'[x].cs = ctx[x].cs \ {k}
                  /\ \/ ctx'[x].pc = "scan" /\ ctx'[x].cs = {}
                     \/ ctx'[x].pc = "undo" /\ ctx'[x].cs # {}
             /\ \A y \in Ctxs \ {x} :
                  /\ ctx'[y].pc = ctx[y].pc /\ ctx'[y].i = ctx[y].i /\ Kept1(y) /\ Load1(y)
                  /\ ~ctx'[y].apart => ~ctx[y].apart /\ ctx[y].pc # "wait"
<1> DEFINE c == ctx[x]
           i == c.i
           a(y) == ctx[y].apart \/ ctx[y].pc = "wait"
           w(y) == [ctx[y] EXCEPT !.apart = a(y)]
           u == [c EXCEPT !.pc = "scan", !.cs = {}, !.at = @ + 1]
           v(k) == [c EXCEPT !.cs = @ \ {k}]
           r(k) == IF c.cs = {k} THEN u ELSE v(k)
           K(q, d) == /\ q \in CtxSet /\ q.mode = d.mode /\ q.n = d.n /\ q.min = d.min
                      /\ q.eng = d.eng /\ q.quit = d.quit /\ q.i = d.i /\ q.s = d.s
                      /\ q.sent = d.sent
<1>1. \A y \in Ctxs : ctx[y] \in CtxSet
  BY DEF Types
<1>2. PICK k \in c.cs : /\ segs' = [segs EXCEPT ![i].free = segs[i].free \cup {k}]
                        /\ ctx' = [y \in Ctxs |-> IF y # x THEN w(y) ELSE r(k)]
  BY DEF Undo
<1>3. c.pc = "undo"
  BY DEF Undo
<1>4. K(u, c) /\ u.pc = "scan" /\ u.cs = {} /\ u.apart = c.apart
  <2> DEFINE t == [c EXCEPT !.pc = "scan", !.cs = {}]
  <2>1. K(t, c) /\ t.pc = "scan" /\ t.cs = {} /\ t.apart = c.apart
    BY <1>1 DEF CtxSet, CtxPcs
  <2>2. u = [t EXCEPT !.at = @ + 1]
    OBVIOUS
  <2> HIDE DEF t, u
  <2> QED BY <2>1, <2>2 DEF CtxSet
<1>5. K(v(k), c) /\ v(k).pc = "undo" /\ v(k).cs = c.cs \ {k} /\ v(k).apart = c.apart
  BY <1>1, <1>3 DEF CtxSet
<1> HIDE DEF u, v
<1>6. /\ K(r(k), c) /\ r(k).cs = c.cs \ {k} /\ r(k).apart = c.apart
      /\ \/ r(k).pc = "scan" /\ r(k).cs = {}
         \/ r(k).pc = "undo" /\ r(k).cs # {}
  <2>1. CASE c.cs = {k}
    BY <1>4, <2>1
  <2>2. CASE c.cs # {k}
    BY <1>2, <1>5, <2>2
  <2> QED BY <2>1, <2>2
<1> HIDE DEF r
<1>7. ASSUME NEW y \in Ctxs
      PROVE  K(w(y), ctx[y]) /\ w(y).pc = ctx[y].pc /\ w(y).cs = ctx[y].cs
  <2>1. a(y) \in BOOLEAN /\ ctx[y] \in CtxSet
    BY <1>1
  <2> HIDE DEF a
  <2> QED BY <2>1 DEF CtxSet
<1>8. ASSUME NEW y \in Ctxs PROVE w(y).apart = a(y)
  <2>1. ctx[y] \in CtxSet
    BY <1>1
  <2> HIDE DEF a
  <2> QED BY <2>1, Zenon DEF CtxSet
<1>9. ASSUME NEW y \in Ctxs, ~w(y).apart
      PROVE  ~ctx[y].apart /\ ctx[y].pc # "wait"
  <2>1. ~a(y)
    <3> HIDE DEF a, w
    <3> QED BY <1>8, <1>9
  <2> QED BY <2>1
<1> HIDE DEF w
<1>10. ctx'[x] = r(k) /\ \A y \in Ctxs \ {x} : ctx'[y] = w(y)
  BY <1>2
<1>11. ctx' \in [Ctxs -> CtxSet]
  BY <1>2, <1>6, <1>7
<1>12. /\ \A y \in Ctxs \ {x} :
            /\ ctx'[y].pc = ctx[y].pc /\ ctx'[y].i = ctx[y].i /\ Kept1(y) /\ Load1(y)
            /\ ~ctx'[y].apart => ~ctx[y].apart /\ ctx[y].pc # "wait"
  BY <1>7, <1>9, <1>10 DEF Kept1, Load1
<1>13. /\ Kept1(x) /\ ctx'[x].s = c.s /\ ctx'[x].sent = c.sent /\ ctx'[x].i = i
       /\ ctx'[x].apart = c.apart
  BY <1>6, <1>10 DEF Kept1
<1> QED BY <1>2, <1>3, <1>6, <1>10, <1>11, <1>12, <1>13

\* A segment that a scan may use is ready: the thread that made it is not
\* making it any more.
LEMMA UsableReady ==
  ASSUME MapInv, NEW x \in Ctxs, ctx[x].pc \in {"scan", "undo"},
         ctx[x].i \in 1..Len(segs), Usable(x, segs[ctx[x].i])
  PROVE  Ready(ctx[x].i, ctx[x].eng, x) /\ segs[ctx[x].i].id = ctx[x].i
BY DEF Usable, Ready, MapInv, Links, SegsLinked, Making

LEMMA ScanMoves ==
  ASSUME MapInv, NEW x \in Ctxs, ctx' \in [Ctxs -> CtxSet], segs' \in Seq(SegSet), SegsKept,
         UNCHANGED <<mutex, bufs, chan, rbufs, lost>>, ctx[x].pc \in {"scan", "undo"},
         ctx'[x].pc \in {"scan", "undo", "flag", "got"},
         ctx'[x].pc = "got" => Ready(ctx'[x].s, ctx'[x].eng, x),
         \A y \in Ctxs \ {x} : /\ ctx'[y].pc = ctx[y].pc /\ ctx'[y].s = ctx[y].s
                               /\ ctx'[y].eng = ctx[y].eng
  PROVE  MapInv'
<1>1. Types'
  BY DEF MapInv, Types
<1>2. Locked'
  <2>1. Locked /\ Len(segs') = Len(segs) /\ Len(segs') <= Limit /\ mutex = x
    BY DEF MapInv, Locked, SegsKept
  <2> QED BY <2>1, LockKept DEF MutexMoved
<1>3. \A y \in Ctxs : Moved(y)
  BY DEF Moved, Making
<1> QED BY <1>1, <1>2, <1>3, Steady

LEMMA ScanSteps ==
  ASSUME MapInv, NEW x \in Ctxs,
         ScanPass(x) \/ ScanTake(x) \/ ScanBusy(x) \/ ScanRunEnds(x) \/ ScanNext(x)
  PROVE  MapInv'
<1>1. Types /\ UNCHANGED <<mutex, bufs, chan, rbufs, lost>>
  BY DEF MapInv, ScanPass, ScanTake, ScanBusy, ScanRunEnds, ScanNext, router
<1>2. segs' = segs => segs' \in Seq(SegSet) /\ SegsKept
  BY <1>1 DEF Types, SegsKept
<1>3. Others(x) => \A y \in Ctxs \ {x} : /\ ctx'[y].pc = ctx[y].pc /\ ctx'[y].s = ctx[y].s
                                         /\ ctx'[y].eng = ctx[y].eng
  BY DEF Others
<1>4. CASE ScanPass(x)
  BY <1>1, <1>2, <1>3, <1>4, ScanPassFacts, ScanMoves
<1>5. CASE ScanBusy(x)
  BY <1>1, <1>2, <1>3, <1>5, ScanBusyFacts, ScanMoves
<1>6. CASE ScanNext(x)
  <2>1. /\ Others(x) /\ ctx' \in [Ctxs -> CtxSet] /\ segs' = segs /\ ctx[x].pc = "scan"
        /\ ctx'[x].pc \in {"scan", "flag"}
    BY <1>1, <1>6, ScanNextFacts
  <2> QED BY <1>1, <1>2, <1>3, <2>1, ScanMoves
<1>7. CASE ScanRunEnds(x)
  <2>1. /\ Others(x) /\ ctx' \in [Ctxs -> CtxSet] /\ segs' = segs /\ ctx[x].pc = "scan"
        /\ ctx[x].i \in 1..Len(segs) /\ Usable(x, segs[ctx[x].i])
        /\ ctx'[x].pc \in {"got", "undo"} /\ ctx'[x].eng = ctx[x].eng
        /\ ctx'[x].pc = "got" => ctx'[x].s = segs[ctx[x].i].id
    BY <1>1, <1>7, ScanRunEndsFacts
  <2> QED BY <1>1, <1>2, <1>3, <2>1, UsableReady, ScanMoves
<1>8. CASE ScanTake(x)
  <2> DEFINE i == ctx[x].i
             F == segs[i].free \ {ctx[x].at}
  <2>1. /\ Others(x) /\ ctx' \in [Ctxs -> CtxSet] /\ ctx[x].pc = "scan"
        /\ segs' = [segs EXCEPT ![i].free = F]
        /\ i \in 1..Len(segs) /\ Usable(x, segs[i])
        /\ ctx'[x].pc \in {"got", "scan"} /\ ctx'[x].eng = ctx[x].eng
        /\ ctx'[x].s = segs[i].id
    BY <1>1, <1>8, ScanTakeFacts
  <2>2. F \in SUBSET Int
    <3>1. segs[i] \in SegSet
      BY <1>1, <2>1 DEF Types
    <3> QED BY <3>1 DEF SegSet
  <2>3. segs' \in Seq(SegSet) /\ SegsKept
    <3> HIDE DEF F
    <3> QED BY <1>1, <2>1, <2>2, FreeChange
  <2> QED BY <1>1, <1>3, <2>1, <2>3, UsableReady, ScanMoves
<1> QED BY <1>4, <1>5, <1>6, <1>7, <1>8

LEMMA UndoStep ==
  ASSUME MapInv, NEW x \in Ctxs, Undo(x)
  PROVE  MapInv'
<1> DEFINE i == ctx[x].i
<1>1. Types /\ UNCHANGED <<mutex, bufs, chan, rbufs, lost>>
  BY DEF MapInv, Undo, router
<1>2. /\ ctx' \in [Ctxs -> CtxSet] /\ ctx[x].pc = "undo"
      /\ \A y \in Ctxs \ {x} : ctx'[y].pc = ctx[y].pc /\ Kept1(y) /\ Load1(y)
  BY <1>1, UndoFacts
<1>3. PICK k \in ctx[x].cs : /\ segs' = [segs EXCEPT ![i].free = segs[i].free \cup {k}]
                             /\ ctx'[x].pc \in {"scan", "undo"}
  BY <1>1, UndoFacts
<1>4. segs' \in Seq(SegSet) /\ SegsKept
  <2>1. CASE i \in 1..Len(segs)
    <3>1. segs[i] \in SegSet /\ ctx[x] \in CtxSet
      BY <1>1, <2>1 DEF Types
    <3>2. segs[i].free \cup {k} \in SUBSET Int
      BY <3>1 DEF SegSet, CtxSet
    <3> QED BY <1>1, <1>3, <3>2, FreeChange
  <2>2. CASE i \notin 1..Len(segs)
    <3>1. segs \in Seq(SegSet) /\ DOMAIN segs = 1..Len(segs)
      BY <1>1 DEF Types
    <3>2. segs' = segs
      BY <1>3, <2>2, <3>1
    <3> QED BY <3>1, <3>2 DEF SegsKept
  <2> QED BY <2>1, <2>2
<1>5. \A y \in Ctxs \ {x} : /\ ctx'[y].pc = ctx[y].pc /\ ctx'[y].s = ctx[y].s
                            /\ ctx'[y].eng = ctx[y].eng
  BY <1>2 DEF Kept1, Load1
<1> QED BY <1>1, <1>2, <1>3, <1>4, <1>5, ScanMoves

LEMMA FlagStep ==
  ASSUME MapInv, NEW x \in Ctxs, Flag(x)
  PROVE  MapInv'
<1> DEFINE v == [ctx[x] EXCEPT !.pc = "scan", !.i = @ + 1, !.at = 0]
<1>1. /\ ctx[x] \in CtxSet /\ ctx[x].pc = "flag" /\ mutex = x
      /\ UNCHANGED <<mutex, bufs, chan, rbufs, lost>>
  BY DEF Flag, MapInv, Types, Locked, router
<1>2. v \in CtxSet /\ v.pc = "scan" /\ ctx' = [ctx EXCEPT ![x] = v]
  <2> DEFINE u == [ctx[x] EXCEPT !.pc = "scan"]
  <2>1. u \in CtxSet /\ u.pc = "scan" /\ u.i = ctx[x].i
    BY <1>1 DEF CtxSet, CtxPcs
  <2> DEFINE w == [u EXCEPT !.i = @ + 1]
  <2>2. v = [w EXCEPT !.at = 0] /\ ctx' = [ctx EXCEPT ![x] = v]
    BY DEF Flag
  <2> HIDE DEF u, v
  <2>3. w \in CtxSet /\ w.pc = "scan"
    BY <2>1 DEF CtxSet
  <2> HIDE DEF w
  <2> QED BY <2>2, <2>3 DEF CtxSet
<1>3. segs' \in Seq(SegSet) /\ SegsKept
  BY FlagChange DEF MapInv, Flag
<1> HIDE DEF v
<1>4. ctx'[x] = v /\ \A y \in Ctxs \ {x} : ctx'[y] = ctx[y]
  BY <1>2 DEF MapInv, Types
<1>5. Types'
  BY <1>1, <1>2, <1>3 DEF MapInv, Types
<1>6. Locked'
  <2>1. Locked /\ Len(segs') = Len(segs) /\ Len(segs') <= Limit
    BY <1>3 DEF MapInv, Locked, SegsKept
  <2> QED BY <1>1, <1>2, <1>4, <2>1, LockKept DEF MutexMoved
<1>7. \A y \in Ctxs : Moved(y)
  BY <1>1, <1>2, <1>4 DEF Moved, Making
<1> QED BY <1>1, <1>3, <1>5, <1>6, <1>7, Steady

LEMMA ReleaseStep ==
  ASSUME MapInv, NEW x \in Ctxs, Release(x)
  PROVE  MapInv'
<1> DEFINE i == ctx[x].s
           v == [ctx[x] EXCEPT !.pc = "count", !.sent = ctx[x].cs, !.cs = {}]
           w(y) == [ctx[y] EXCEPT !.apart = @ \/ (ctx[x].pc = "drop" /\ ctx[y].pc = "wait")]
<1>1. /\ \A y \in Ctxs : ctx[y] \in CtxSet
      /\ ctx[x].pc \in {"free", "drop"} /\ UNCHANGED <<mutex, bufs, chan, rbufs, lost>>
  BY DEF Release, MapInv, Types, router
<1>2. v \in CtxSet /\ v.pc = "count"
  BY <1>1 DEF CtxSet, CtxPcs
<1>3. ASSUME NEW y \in Ctxs
      PROVE  /\ w(y) \in CtxSet /\ w(y).pc = ctx[y].pc /\ w(y).s = ctx[y].s
             /\ w(y).eng = ctx[y].eng
  <2> DEFINE a == ctx[y].apart \/ (ctx[x].pc = "drop" /\ ctx[y].pc = "wait")
  <2>1. a \in BOOLEAN
    OBVIOUS
  <2>2. w(y) = [ctx[y] EXCEPT !.apart = a]
    OBVIOUS
  <2> HIDE DEF a, w
  <2> QED BY <1>1, <2>1, <2>2, ApartType
<1>4. ctx' = [y \in Ctxs |-> IF y = x THEN v ELSE w(y)]
  BY DEF Release
<1>5. segs' \in Seq(SegSet) /\ SegsKept
  <2>1. CASE i \in 1..Len(segs)
    <3>1. segs[i] \in SegSet
      BY <2>1 DEF MapInv, Types
    <3>2. segs[i].free \cup ctx[x].cs \in SUBSET Int
      BY <1>1, <3>1 DEF SegSet, CtxSet
    <3>3. segs' = [segs EXCEPT ![i].free = segs[i].free \cup ctx[x].cs]
      BY DEF Release
    <3> QED BY <3>2, <3>3, FreeChange DEF MapInv
  <2>2. CASE i \notin 1..Len(segs)
    <3>1. segs \in Seq(SegSet) /\ DOMAIN segs = 1..Len(segs)
      BY DEF MapInv, Types
    <3>2. segs' = segs
      BY <2>2, <3>1 DEF Release
    <3> QED BY <3>1, <3>2 DEF SegsKept
  <2> QED BY <2>1, <2>2
<1> HIDE DEF v, w
<1>6. ctx'[x] = v /\ \A y \in Ctxs \ {x} : ctx'[y] = w(y)
  BY <1>4
<1>7. Types'
  BY <1>1, <1>2, <1>3, <1>4, <1>5 DEF MapInv, Types
<1>8. Locked'
  <2>1. Locked /\ Len(segs') = Len(segs) /\ Len(segs') <= Limit
    BY <1>5 DEF MapInv, Locked, SegsKept
  <2> QED BY <1>1, <1>2, <1>3, <1>6, <2>1, LockKept DEF MutexMoved, Guarded
<1>9. \A y \in Ctxs : Moved(y)
  BY <1>1, <1>2, <1>3, <1>6 DEF Moved, Making
<1> QED BY <1>1, <1>5, <1>7, <1>8, <1>9, Steady

LEMMA GotStep ==
  ASSUME MapInv, NEW x \in Ctxs, Got(x)
  PROVE  MapInv'
<1> DEFINE c == ctx[x]
           b == [s |-> c.s, cs |-> c.cs, eng |-> c.eng]
<1>1. /\ c \in CtxSet /\ c.pc \in {"got", "sent"} /\ UNCHANGED <<segs, chan, rbufs, lost>>
      /\ mutex' = NoCtx /\ (mutex = x \/ mutex = NoCtx)
      /\ ctx' = [ctx EXCEPT ![x] = Back(x)]
      /\ bufs' = [bufs EXCEPT ![x] = @ \cup {b}]
  BY DEF Got, MapInv, Types, Locked, router
<1>2. Back(x) \in CtxSet /\ Back(x).pc = "idle"
  BY BackType DEF MapInv
<1>3. b \in BufSet /\ b.s = c.s /\ b.eng = c.eng
  BY <1>1 DEF CtxSet, BufSet
<1>4. Ready(c.s, c.eng, x)
  BY <1>1 DEF MapInv, Links, UsersLinked
<1> HIDE DEF b
<1>5. Types'
  BY <1>1, <1>2, <1>3 DEF MapInv, Types
<1>6. ctx'[x] = Back(x) /\ \A y \in Ctxs \ {x} : ctx'[y] = ctx[y]
  BY <1>1 DEF MapInv, Types
<1>7. \A y \in Ctxs : \A d \in bufs'[y] : d \in bufs[y] \/ (y = x /\ d = b)
  BY <1>1 DEF MapInv, Types
<1>8. \A y \in Ctxs : \A d \in bufs'[y] : d \in bufs[y] \/ Ready(d.s, d.eng, y)
  BY <1>3, <1>4, <1>7
<1>9. Locked' /\ SegsKept
  <2>1. Locked /\ Len(segs') = Len(segs) /\ Len(segs') <= Limit
    BY <1>1 DEF MapInv, Locked
  <2>2. SegsKept
    BY <1>1 DEF SegsKept
  <2> QED BY <1>1, <1>2, <1>6, <2>1, <2>2, LockKept DEF MutexMoved, Guarded
<1>10. \A y \in Ctxs : Moved(y)
  BY <1>1, <1>2, <1>6 DEF Moved, Making
<1> QED BY <1>1, <1>5, <1>8, <1>9, <1>10, Steady

LEMMA SendMmapFailsStep ==
  ASSUME Orderly, MapInv, NEW x \in Ctxs, SendMmapFails(x)
  PROVE  MapInv'
<1> DEFINE v == [ctx[x] EXCEPT !.pc = "unsent"]
           seg(n) == IF segs[n].id = ctx[x].s /\ segs[n].thr = x
                     THEN [segs[n] EXCEPT !.live = FALSE] ELSE segs[n]
<1>1. /\ ctx[x] \in CtxSet /\ ctx[x].pc = "mmap" /\ ctx' = [ctx EXCEPT ![x] = v]
      /\ UNCHANGED <<mutex, bufs, chan, rbufs, lost>> /\ Limit = 1
  BY DEF SendMmapFails, MapInv, Types, router, Fault, Orderly
<1>2. v \in CtxSet /\ v.pc = "unsent" /\ v.s = ctx[x].s /\ v.eng = ctx[x].eng
  BY <1>1 DEF CtxSet, CtxPcs
<1>3. segs' \in Seq(SegSet) /\ SegsKept
  <2>1. segs \in Seq(SegSet) /\ DOMAIN segs = 1..Len(segs) /\ Len(segs) \in Nat
    BY DEF MapInv, Types
  <2>2. segs' = [n \in 1..Len(segs) |-> seg(n)]
    BY <2>1 DEF SendMmapFails
  <2>3. ASSUME NEW n \in 1..Len(segs)
        PROVE  /\ seg(n) \in SegSet /\ seg(n).id = segs[n].id
               /\ seg(n).over = segs[n].over /\ seg(n).thr = segs[n].thr
    <3>1. segs[n] \in SegSet
      BY <2>1
    <3> QED BY <3>1 DEF SegSet
  <2> HIDE DEF seg
  <2>4. segs' \in [1..Len(segs) -> SegSet]
    BY <2>2, <2>3
  <2>5. segs' \in Seq(SegSet) /\ Len(segs') = Len(segs)
    BY <2>1, <2>4
  <2> QED BY <2>2, <2>3, <2>5 DEF SegsKept
<1> HIDE DEF v
<1>4. ctx'[x] = v /\ \A y \in Ctxs \ {x} : ctx'[y] = ctx[y]
  BY <1>1 DEF MapInv, Types
<1>5. Types'
  BY <1>1, <1>2, <1>3 DEF MapInv, Types
<1>6. Locked'
  <2>1. Locked /\ Len(segs') = Len(segs) /\ Len(segs') <= Limit
    BY <1>3 DEF MapInv, Locked, SegsKept
  <2> QED BY <1>1, <1>2, <1>4, <2>1, LockKept DEF MutexMoved, Guarded
<1>7. \A y \in Ctxs : Moved(y)
  BY <1>1, <1>2, <1>4 DEF Moved, Making
<1> QED BY <1>1, <1>3, <1>5, <1>6, <1>7, Steady

LEMMA CompletionSteps ==
  ASSUME MapInv, (\E b \in rbufs : Complete(b)) \/ (\E s \in Segs : CompleteAck(s))
  PROVE  MapInv'
<1>1. UNCHANGED <<mutex, ctx, bufs, chan, lost>>
  BY DEF Complete, CompleteAck
<1>2. /\ segs' \in Seq(SegSet) /\ SegsKept
      /\ rbufs' \subseteq [s : Nat, cs : SUBSET Int]
  <2>1. ASSUME NEW b \in rbufs, Complete(b)
        PROVE  /\ segs' \in Seq(SegSet) /\ SegsKept
               /\ rbufs' \subseteq [s : Nat, cs : SUBSET Int]
    <3>1. b.cs \subseteq Int /\ rbufs' \subseteq [s : Nat, cs : SUBSET Int]
      BY <2>1 DEF Complete, MapInv, Types
    <3>2. CASE b.s \in 1..Len(segs)
      <4>1. segs[b.s] \in SegSet
        BY <3>2 DEF MapInv, Types
      <4>2. segs[b.s].free \cup b.cs \in SUBSET Int
        BY <3>1, <4>1 DEF SegSet
      <4>3. segs' = [segs EXCEPT ![b.s].free = segs[b.s].free \cup b.cs]
        BY <2>1 DEF Complete
      <4> QED BY <3>1, <4>2, <4>3, FreeChange DEF MapInv
    <3>3. CASE b.s \notin 1..Len(segs)
      <4>1. segs \in Seq(SegSet) /\ DOMAIN segs = 1..Len(segs)
        BY DEF MapInv, Types
      <4>2. segs' = segs
        BY <2>1, <3>3, <4>1 DEF Complete
      <4> QED BY <3>1, <4>1, <4>2 DEF SegsKept
    <3> QED BY <3>2, <3>3
  <2>2. ASSUME NEW s \in Segs, CompleteAck(s)
        PROVE  /\ segs' \in Seq(SegSet) /\ SegsKept
               /\ rbufs' \subseteq [s : Nat, cs : SUBSET Int]
    BY <2>2, FlagChange DEF CompleteAck, MapInv, Types
  <2> QED BY <2>1, <2>2
<1>3. Types'
  BY <1>1, <1>2 DEF MapInv, Types
<1>4. Locked'
  BY <1>1, <1>2 DEF MapInv, Locked, SegsKept
<1>5. \A y \in Ctxs : Moved(y)
  BY <1>1 DEF Moved
<1> QED BY <1>1, <1>2, <1>3, <1>4, <1>5, Steady

\* The first n chunks of a new segment are the thread's; nobody else adds one
\* while it holds the mutex, and nobody was told of it.
LEMMA NewMmapStep ==
  ASSUME MapInv, NEW x \in Ctxs, NewMmap(x)
  PROVE  MapInv'
<1> DEFINE c == ctx[x]
           id == Len(segs) + 1
           v == [c EXCEPT !.pc = "mmap", !.s = id, !.cs = 0..(c.n - 1)]
           seg == [id |-> id, over |-> c.eng, thr |-> x, oosm |-> FALSE,
                   free |-> Chunks \ (0..(c.n - 1)), live |-> TRUE]
<1>1. /\ c \in CtxSet /\ c.pc = "new" /\ mutex = x /\ Len(segs) \in Nat
      /\ Len(segs) < Limit /\ Limit \in Nat /\ segs \in Seq(SegSet)
  BY UnitShmAssumption DEF NewMmap, MapInv, Types, Locked
<1>2. /\ UNCHANGED <<bufs, chan, rbufs, lost>> /\ mutex' = NoCtx
      /\ segs' = Append(segs, seg) /\ ctx' = [ctx EXCEPT ![x] = v]
  BY DEF NewMmap, router
<1>3. v \in CtxSet /\ v.pc = "mmap" /\ v.s = id /\ v.eng = c.eng
  <2> DEFINE j == id
             S == 0..(c.n - 1)
  <2>1. j \in Nat /\ S \in SUBSET Int
    BY <1>1
  <2>2. v = [c EXCEPT !.pc = "mmap", !.s = j, !.cs = S]
    OBVIOUS
  <2> HIDE DEF j, S, v, c
  <2>3. v \in CtxSet /\ v.pc = "mmap" /\ v.s = j /\ v.eng = c.eng
    BY <1>1, <2>1, <2>2 DEF CtxSet, CtxPcs
  <2> QED BY <2>3 DEF j
<1>4. seg \in SegSet /\ seg.id = id /\ seg.over = c.eng /\ seg.thr = x
  BY <1>1 DEF SegSet, CtxSet, Chunks
<1> HIDE DEF v, seg
<1>5. /\ segs' \in Seq(SegSet) /\ Len(segs') = Len(segs) + 1 /\ segs'[id] = seg
      /\ \A n \in 1..Len(segs) : segs'[n] = segs[n]
  BY <1>1, <1>2, <1>4
<1>6. ctx'[x] = v /\ \A y \in Ctxs \ {x} : ctx'[y] = ctx[y]
  BY <1>2 DEF MapInv, Types
<1>7. Types'
  BY <1>2, <1>3, <1>5 DEF MapInv, Types
<1>8. Locked'
  <2>1. Len(segs') <= Limit
    BY <1>1, <1>5
  <2>2. Locked /\ \A y \in Ctxs \ {x} : ctx[y].pc # "new"
    BY <1>1 DEF MapInv, Locked
  <2> QED BY <1>1, <1>2, <1>3, <1>6, <2>1, <2>2, LockKept DEF MutexMoved, Guarded
<1>9. \A e, n, k : ToldIn(e, n, k)' = ToldIn(e, n, k)
  BY <1>2 DEF ToldIn
<1>10. \A e, n : Told(e, n)' = Told(e, n)
  BY <1>2, <1>9 DEF Told
<1>11. \A e \in Engines : ~Told(e, id)
  BY <1>1 DEF MapInv, Links, MsgsLinked, Told, ToldIn
<1>12. ASSUME NEW n, NEW e, NEW y, Ready(n, e, y) PROVE Ready(n, e, y)'
  BY <1>1, <1>5, <1>10, <1>12 DEF Ready
<1>13. SegsLinked'
  <2> SUFFICES ASSUME NEW n \in 1..(Len(segs) + 1)
               PROVE  /\ segs'[n].id = n
                      /\ \/ segs'[n].over = Mapped
                         \/ Told(segs[n].over, n)'
                         \/ ctx'[segs'[n].thr].pc \in Making /\ ctx'[segs'[n].thr].s = n
    BY <1>5 DEF SegsLinked
  <2>1. CASE n = id
    BY <2>1, <1>3, <1>4, <1>5, <1>6 DEF Making
  <2>2. CASE n # id
    <3>1. n \in 1..Len(segs) /\ segs'[n] = segs[n] /\ segs[n] \in SegSet
      BY <2>2, <1>1, <1>5
    <3>2. segs[n].thr \in Ctxs
      BY <3>1 DEF SegSet
    <3>3. ctx[segs[n].thr].pc \in Making => ctx'[segs[n].thr] = ctx[segs[n].thr]
      BY <1>1, <1>6, <3>2 DEF Making
    <3> QED BY <1>10, <3>1, <3>3 DEF MapInv, Links, SegsLinked
  <2> QED BY <2>1, <2>2
<1>14. MakersLinked'
  <2> SUFFICES ASSUME NEW y \in Ctxs, ctx'[y].pc \in Making
               PROVE  /\ ctx'[y].s \in 1..Len(segs')
                      /\ segs'[ctx'[y].s].over = ctx'[y].eng /\ segs'[ctx'[y].s].thr = y
                      /\ \A e \in Engines : ~Told(e, ctx[y].s)'
                      /\ ctx'[y].pc = "unsent" => Limit = 1
    BY DEF MakersLinked
  <2>1. \A e : Told(e, ctx[y].s)' = Told(e, ctx'[y].s)
    BY <1>2 DEF Told, ToldIn
  <2>2. CASE y = x
    BY <2>1, <2>2, <1>1, <1>3, <1>4, <1>5, <1>6, <1>11
  <2>3. CASE y # x
    BY <2>1, <2>3, <1>1, <1>5, <1>6 DEF MapInv, Links, MakersLinked
  <2> QED BY <2>2, <2>3
<1>15. UsersLinked'
  <2> SUFFICES ASSUME NEW y \in Ctxs
               PROVE  /\ ctx'[y].pc \in {"got", "sent"} => Ready(ctx[y].s, ctx[y].eng, y)'
                      /\ \A b \in bufs[y] : Ready(b.s, b.eng, y)'
    BY <1>2 DEF UsersLinked
  <2>1. ASSUME NEW b \in bufs[y] PROVE Ready(b.s, b.eng, y)'
    BY <1>12 DEF MapInv, Links, UsersLinked
  <2>2. ASSUME ctx'[y].pc \in {"got", "sent"} PROVE Ready(ctx[y].s, ctx[y].eng, y)'
    <3>1. y # x /\ ctx'[y] = ctx[y]
      BY <2>2, <1>3, <1>6
    <3>2. Ready(ctx[y].s, ctx[y].eng, y)
      BY <2>2, <3>1 DEF MapInv, Links, UsersLinked
    <3> QED BY <3>1, <3>2, <1>1, <1>5, <1>10 DEF Ready
  <2> QED BY <2>1, <2>2
<1>16. MsgsLinked'
  <2> SUFFICES ASSUME NEW e \in Engines, NEW k \in 1..Len(chan[e])
               PROVE  LET m == chan[e][k]
                      IN  /\ m.s \in 1..Len(segs')
                          /\ m.kind = "data" => \/ segs'[m.s].over = Mapped
                                                \/ segs'[m.s].over = e /\ ToldIn(e, m.s, k - 1)
    BY <1>2, <1>9 DEF MsgsLinked
  <2>1. LET m == chan[e][k]
        IN  /\ m.s \in 1..Len(segs)
            /\ m.kind = "data" => \/ segs[m.s].over = Mapped
                                  \/ segs[m.s].over = e /\ ToldIn(e, m.s, k - 1)
    BY DEF MapInv, Links, MsgsLinked
  <2> QED BY <1>1, <1>5, <2>1
<1> QED BY <1>2, <1>7, <1>8, <1>13, <1>14, <1>15, <1>16 DEF MapInv, Links, MapFirst

-----------------------------------------------------------------------------
(* Messages.                                                               *)

LEMMA ChanGrows ==
  ASSUME Types, NEW o \in Engines, NEW m \in MsgSet,
         chan' = [chan EXCEPT ![o] = Append(@, m)]
  PROVE  /\ chan' \in [Engines -> Seq(MsgSet)]
         /\ \A e \in Engines : \A n : \A k \in 0..Len(chan[e]) : ToldIn(e, n, k)' <=> ToldIn(e, n, k)
         /\ \A e \in Engines : \A n : Told(e, n)' <=>
                (Told(e, n) \/ (e = o /\ m.kind = "mmap" /\ m.s = n))
         /\ \A e \in Engines :
              /\ Len(chan'[e]) = IF e = o THEN Len(chan[e]) + 1 ELSE Len(chan[e])
              /\ \A k \in 1..Len(chan[e]) : chan'[e][k] = chan[e][k]
         /\ chan'[o][Len(chan[o]) + 1] = m
<1>1. \A e \in Engines : chan[e] \in Seq(MsgSet) /\ Len(chan[e]) \in Nat
  BY DEF Types
<1>2. chan' \in [Engines -> Seq(MsgSet)]
  BY <1>1 DEF Types
<1>3. chan'[o] = Append(chan[o], m) /\ \A e \in Engines \ {o} : chan'[e] = chan[e]
  BY DEF Types
<1>4. \A e \in Engines :
              /\ Len(chan'[e]) = IF e = o THEN Len(chan[e]) + 1 ELSE Len(chan[e])
              /\ \A k \in 1..Len(chan[e]) : chan'[e][k] = chan[e][k]
  <2> SUFFICES ASSUME NEW e \in Engines
               PROVE  /\ Len(chan'[e]) = IF e = o THEN Len(chan[e]) + 1 ELSE Len(chan[e])
                      /\ \A k \in 1..Len(chan[e]) : chan'[e][k] = chan[e][k]
    OBVIOUS
  <2>1. CASE e = o
    BY <1>1, <1>3, <2>1
  <2>2. CASE e # o
    BY <1>3, <2>2
  <2> QED BY <2>1, <2>2
<1>5. chan'[o][Len(chan[o]) + 1] = m
  BY <1>1, <1>3
<1>6. \A e \in Engines : \A n : \A k \in 0..Len(chan[e]) : ToldIn(e, n, k)' <=> ToldIn(e, n, k)
  BY <1>1, <1>4 DEF ToldIn
<1>7. ASSUME NEW e \in Engines, NEW n
      PROVE  Told(e, n)' <=> Told(e, n) \/ (e = o /\ m.kind = "mmap" /\ m.s = n)
  <2>1. CASE e # o
    BY <1>1, <1>4, <2>1 DEF Told, ToldIn
  <2>2. CASE e = o
    <3>1. \A j : j \in 1..(Len(chan[o]) + 1) <=> j \in 1..Len(chan[o]) \/ j = Len(chan[o]) + 1
      BY <1>1
    <3> QED BY <1>4, <1>5, <2>2, <3>1 DEF Told, ToldIn
  <2> QED BY <2>1, <2>2
<1> QED BY <1>2, <1>4, <1>5, <1>6, <1>7


LEMMA MsgsGrow ==
  ASSUME Types, MsgsLinked, NEW o \in Engines, NEW m \in MsgSet, UNCHANGED segs,
         chan' = [chan EXCEPT ![o] = Append(@, m)], m.s \in 1..Len(segs),
         m.kind = "data" => \/ segs[m.s].over = Mapped
                            \/ segs[m.s].over = o /\ Told(o, m.s)
  PROVE  MsgsLinked'
<1> SUFFICES ASSUME NEW e \in Engines, NEW k \in 1..Len(chan'[e])
             PROVE  LET d == chan'[e][k]
                    IN  /\ d.s \in 1..Len(segs)
                        /\ d.kind = "data" => \/ segs[d.s].over = Mapped
                                              \/ segs[d.s].over = e /\ ToldIn(e, chan[e][k].s, k - 1)'
  BY DEF MsgsLinked
<1>1. /\ \A n : \A j \in 0..Len(chan[e]) : ToldIn(e, n, j)' <=> ToldIn(e, n, j)
      /\ Len(chan'[e]) = IF e = o THEN Len(chan[e]) + 1 ELSE Len(chan[e])
      /\ \A j \in 1..Len(chan[e]) : chan'[e][j] = chan[e][j]
      /\ chan'[o][Len(chan[o]) + 1] = m
  BY ChanGrows
<1>2. Len(chan[e]) \in Nat
  BY DEF Types
<1> DEFINE d == chan'[e][k]
<1>3. ToldIn(e, chan[e][k].s, k - 1)' <=> ToldIn(e, d.s, k - 1)
  <2>1. k - 1 \in 0..Len(chan[e])
    BY <1>1, <1>2
  <2>2. ToldIn(e, chan[e][k].s, k - 1)'
          <=> \E j \in 1..(k - 1) : chan'[e][j].kind = "mmap" /\ chan'[e][j].s = d.s
    BY DEF ToldIn
  <2>3. \A j \in 1..(k - 1) : chan'[e][j] = chan[e][j]
    BY <1>1, <1>2, <2>1
  <2> QED BY <2>2, <2>3 DEF ToldIn
<1>4. CASE k \in 1..Len(chan[e])
  <2>1. d = chan[e][k]
    BY <1>1, <1>4
  <2> QED BY <1>3, <1>4, <2>1 DEF MsgsLinked
<1>5. CASE k \notin 1..Len(chan[e])
  <2>1. e = o /\ k = Len(chan[e]) + 1 /\ d = m /\ k - 1 = Len(chan[e])
    BY <1>1, <1>2, <1>5
  <2> QED BY <1>3, <2>1 DEF Told
<1> QED BY <1>4, <1>5

\* The announcement goes: the thread's buffer may be sent behind it.
LEMMA SendMmapStep ==
  ASSUME MapInv, NEW x \in Ctxs, SendMmap(x)
  PROVE  MapInv'
<1> DEFINE c == ctx[x]
           o == c.eng
           m == [kind |-> "mmap", s |-> c.s, cs |-> {}]
           v == [c EXCEPT !.pc = "sent"]
<1>1. /\ c \in CtxSet /\ c.pc = "mmap" /\ o \in Engines
      /\ UNCHANGED <<segs, mutex, bufs, rbufs, lost>> /\ ctx' = [ctx EXCEPT ![x] = v]
      /\ chan' = [chan EXCEPT ![o] = Append(@, m)]
  BY DEF SendMmap, MapInv, Types, CtxSet, router
<1>2. v \in CtxSet /\ v.pc = "sent" /\ v.s = c.s /\ v.eng = o
  BY <1>1 DEF CtxSet, CtxPcs
<1>3. m \in MsgSet /\ m.kind = "mmap" /\ m.s = c.s
  BY <1>1 DEF MsgSet, CtxSet
<1> HIDE DEF m, v
<1>4. /\ c.s \in 1..Len(segs) /\ segs[c.s].over = o /\ segs[c.s].thr = x
  BY <1>1 DEF MapInv, Links, MakersLinked, Making
<1>5. ctx'[x] = v /\ \A y \in Ctxs \ {x} : ctx'[y] = ctx[y]
  BY <1>1 DEF MapInv, Types
<1>6. /\ chan' \in [Engines -> Seq(MsgSet)]
      /\ \A e \in Engines : \A n : Told(e, n)' <=> Told(e, n) \/ (e = o /\ n = c.s)
  <2>1. /\ chan' \in [Engines -> Seq(MsgSet)]
        /\ \A e \in Engines : \A n : Told(e, n)' <=>
                (Told(e, n) \/ (e = o /\ m.kind = "mmap" /\ m.s = n))
    BY <1>1, <1>3, ChanGrows DEF MapInv
  <2> QED BY <1>3, <2>1
<1>7. Types'
  BY <1>1, <1>2, <1>6 DEF MapInv, Types
<1>8. Locked'
  <2>1. Locked /\ Len(segs') = Len(segs) /\ Len(segs') <= Limit
    BY <1>1 DEF MapInv, Locked
  <2> QED BY <1>1, <1>2, <1>5, <2>1, LockKept DEF MutexMoved, Guarded
<1>9. ASSUME NEW n, NEW e \in Engines, NEW y, Ready(n, e, y) PROVE Ready(n, e, y)'
  BY <1>1, <1>6, <1>9 DEF Ready
<1>10. SegsLinked'
  <2> SUFFICES ASSUME NEW n \in 1..Len(segs)
               PROVE  /\ segs[n].id = n
                      /\ \/ segs[n].over = Mapped
                         \/ Told(segs[n].over, n)'
                         \/ ctx'[segs[n].thr].pc \in Making /\ ctx'[segs[n].thr].s = n
    BY <1>1 DEF SegsLinked
  <2>1. segs[n] \in SegSet
    BY DEF MapInv, Types
  <2>2. segs[n].over \in Engines \cup {Mapped} /\ segs[n].thr \in Ctxs
    BY <2>1 DEF SegSet
  <2>3. \A e \in Engines : segs[n].over = e =>
           (Told(segs[n].over, n)' <=> Told(e, n) \/ (e = o /\ n = c.s))
    BY <1>1, <1>6
  <2>4. CASE n = c.s
    BY <1>4, <2>3, <2>4, <1>1 DEF MapInv, Links, SegsLinked
  <2>5. CASE n # c.s
    <3>1. segs[n].thr = x /\ ctx[x].s = n => FALSE
      BY <2>5
    <3> QED BY <1>5, <2>2, <2>3, <2>5, <3>1 DEF MapInv, Links, SegsLinked
  <2> QED BY <2>4, <2>5
<1>11. MakersLinked'
  <2> SUFFICES ASSUME NEW y \in Ctxs, ctx'[y].pc \in Making
               PROVE  /\ ctx'[y].s \in 1..Len(segs)
                      /\ segs[ctx'[y].s].over = ctx'[y].eng /\ segs[ctx'[y].s].thr = y
                      /\ \A e \in Engines : ~Told(e, ctx[y].s)'
                      /\ ctx'[y].pc = "unsent" => Limit = 1
    BY <1>1 DEF MakersLinked
  <2>1. y # x /\ ctx'[y] = ctx[y]
    BY <1>2, <1>5 DEF Making
  <2>2. \A e \in Engines : Told(e, ctx[y].s)' <=> Told(e, ctx[y].s) \/ (e = o /\ ctx[y].s = c.s)
    <3>1. \A e \in Engines : \A n : n = ctx'[y].s => (Told(e, n)' <=> Told(e, ctx[y].s)')
      OBVIOUS
    <3> QED BY <1>6, <2>1, <3>1
  <2>3. ctx[y].s # c.s
    BY <1>4, <2>1 DEF MapInv, Links, MakersLinked
  <2> QED BY <2>1, <2>2, <2>3 DEF MapInv, Links, MakersLinked
<1>12. UsersLinked'
  <2> SUFFICES ASSUME NEW y \in Ctxs
               PROVE  /\ ctx'[y].pc \in {"got", "sent"} => Ready(ctx[y].s, ctx[y].eng, y)'
                      /\ \A b \in bufs[y] : Ready(b.s, b.eng, y)'
    BY <1>1 DEF UsersLinked
  <2>1. ASSUME NEW b \in bufs[y] PROVE Ready(b.s, b.eng, y)'
    <3>1. b.eng \in Engines
      BY DEF MapInv, Types, BufSet
    <3> QED BY <3>1, <1>9 DEF MapInv, Links, UsersLinked
  <2>2. ASSUME ctx'[y].pc \in {"got", "sent"} PROVE Ready(ctx[y].s, ctx[y].eng, y)'
    <3>1. ctx'[y].s = ctx[y].s /\ ctx'[y].eng = ctx[y].eng /\ ctx[y].eng \in Engines
      BY <1>1, <1>2, <1>5 DEF MapInv, Types, CtxSet
    <3>2. Ready(ctx[y].s, ctx[y].eng, y)' <=>
             /\ ctx[y].s \in 1..Len(segs)
             /\ \/ segs[ctx[y].s].over = Mapped
                \/ /\ segs[ctx[y].s].over = ctx[y].eng /\ segs[ctx[y].s].thr = y
                   /\ Told(ctx[y].eng, ctx[y].s) \/ (ctx[y].eng = o /\ ctx[y].s = c.s)
      <4>1. Told(ctx[y].eng, ctx[y].s)' <=>
               Told(ctx[y].eng, ctx[y].s) \/ (ctx[y].eng = o /\ ctx[y].s = c.s)
        BY <3>1, <1>6
      <4> QED BY <3>1, <4>1, <1>1 DEF Ready
    <3>3. CASE y = x
      BY <3>2, <3>3, <1>4
    <3>4. CASE y # x
      BY <2>2, <3>2, <3>4, <1>5 DEF MapInv, Links, UsersLinked, Ready
    <3> QED BY <3>3, <3>4
  <2> QED BY <2>1, <2>2
<1>13. MsgsLinked'
  BY <1>1, <1>3, <1>4, MsgsGrow DEF MapInv, Links
<1> QED BY <1>1, <1>7, <1>8, <1>10, <1>11, <1>12, <1>13 DEF MapInv, Links, MapFirst

\* A datagram follows the announcement of its segment.
LEMMA SendBufStep ==
  ASSUME MapInv, NEW x \in Ctxs, NEW b \in bufs[x], NEW k, SendBuf(x, b, k)
  PROVE  MapInv'
<1> DEFINE used == {c \in b.cs : c < Min(b.cs) + k}
           m == [kind |-> "data", s |-> b.s, cs |-> used]
           v == [ctx[x] EXCEPT !.pc = "count", !.s = b.s, !.sent = used, !.cs = b.cs \ used]
<1>1. /\ ctx[x] \in CtxSet /\ ctx[x].pc = "idle" /\ b \in BufSet
      /\ UNCHANGED <<segs, mutex, rbufs, lost>> /\ ctx' = [ctx EXCEPT ![x] = v]
      /\ chan' = [chan EXCEPT ![b.eng] = Append(@, m)]
      /\ bufs' = [bufs EXCEPT ![x] = @ \ {b}]
  BY DEF SendBuf, MapInv, Types, router
<1>2. b.eng \in Engines /\ b.s \in Nat /\ b.cs \in SUBSET Int
  BY <1>1 DEF BufSet
<1>3. used \in SUBSET Int /\ b.cs \ used \in SUBSET Int
  BY <1>2
<1> HIDE DEF used
<1>4. v \in CtxSet /\ v.pc = "count"
  BY <1>1, <1>2, <1>3 DEF CtxSet, CtxPcs
<1>5. m \in MsgSet /\ m.kind = "data" /\ m.s = b.s
  BY <1>2, <1>3 DEF MsgSet
<1> HIDE DEF m, v
<1>6. ctx'[x] = v /\ \A y \in Ctxs \ {x} : ctx'[y] = ctx[y]
  BY <1>1 DEF MapInv, Types
<1>7. /\ bufs' \in [Ctxs -> SUBSET BufSet] /\ \A y \in Ctxs : bufs'[y] \subseteq bufs[y]
  BY <1>1 DEF MapInv, Types
<1>8. /\ chan' \in [Engines -> Seq(MsgSet)]
      /\ \A e \in Engines : \A n : Told(e, n)' <=> Told(e, n)
  BY <1>1, <1>2, <1>5, ChanGrows DEF MapInv
<1>9. Types'
  BY <1>1, <1>4, <1>7, <1>8 DEF MapInv, Types
<1>10. Locked'
  <2>1. Locked /\ Len(segs') = Len(segs) /\ Len(segs') <= Limit
    BY <1>1 DEF MapInv, Locked
  <2> QED BY <1>1, <1>4, <1>6, <2>1, LockKept DEF MutexMoved, Guarded
<1>11. ASSUME NEW n, NEW e \in Engines, NEW y, Ready(n, e, y) PROVE Ready(n, e, y)'
  BY <1>1, <1>8, <1>11 DEF Ready
<1>12. SegsLinked'
  <2> SUFFICES ASSUME NEW n \in 1..Len(segs)
               PROVE  /\ segs[n].id = n
                      /\ \/ segs[n].over = Mapped
                         \/ Told(segs[n].over, n)'
                         \/ ctx'[segs[n].thr].pc \in Making /\ ctx'[segs[n].thr].s = n
    BY <1>1 DEF SegsLinked
  <2>1. segs[n] \in SegSet
    BY DEF MapInv, Types
  <2>2. segs[n].over \in Engines \cup {Mapped} /\ segs[n].thr \in Ctxs
    BY <2>1 DEF SegSet
  <2>3. segs[n].over \in Engines => (Told(segs[n].over, n)' <=> Told(segs[n].over, n))
    BY <1>1, <1>8
  <2>4. segs[n].thr = x => ctx[segs[n].thr].pc \notin Making
    BY <1>1 DEF Making
  <2> QED BY <1>6, <2>2, <2>3, <2>4 DEF MapInv, Links, SegsLinked
<1>13. MakersLinked'
  <2> SUFFICES ASSUME NEW y \in Ctxs, ctx'[y].pc \in Making
               PROVE  /\ ctx'[y].s \in 1..Len(segs)
                      /\ segs[ctx'[y].s].over = ctx'[y].eng /\ segs[ctx'[y].s].thr = y
                      /\ \A e \in Engines : ~Told(e, ctx[y].s)'
                      /\ ctx'[y].pc = "unsent" => Limit = 1
    BY <1>1 DEF MakersLinked
  <2>1. y # x /\ ctx'[y] = ctx[y]
    BY <1>4, <1>6 DEF Making
  <2>2. \A e \in Engines : Told(e, ctx[y].s)' <=> Told(e, ctx[y].s)
    <3>1. \A e \in Engines : \A n : n = ctx'[y].s => (Told(e, n)' <=> Told(e, ctx[y].s)')
      OBVIOUS
    <3> QED BY <1>8, <2>1, <3>1
  <2> QED BY <2>1, <2>2 DEF MapInv, Links, MakersLinked
<1>14. UsersLinked'
  <2> SUFFICES ASSUME NEW y \in Ctxs
               PROVE  /\ ctx'[y].pc \in {"got", "sent"} => Ready(ctx[y].s, ctx[y].eng, y)'
                      /\ \A d \in bufs'[y] : Ready(d.s, d.eng, y)'
    BY DEF UsersLinked
  <2>1. ASSUME NEW d \in bufs'[y] PROVE Ready(d.s, d.eng, y)'
    <3>1. d \in bufs[y] /\ d.eng \in Engines
      BY <1>7 DEF MapInv, Types, BufSet
    <3> QED BY <3>1, <1>11 DEF MapInv, Links, UsersLinked
  <2>2. ASSUME ctx'[y].pc \in {"got", "sent"} PROVE Ready(ctx[y].s, ctx[y].eng, y)'
    <3>1. y # x /\ ctx'[y] = ctx[y] /\ ctx[y].eng \in Engines
      BY <2>2, <1>4, <1>6 DEF MapInv, Types, CtxSet
    <3>2. Ready(ctx[y].s, ctx[y].eng, y)
      BY <2>2, <3>1 DEF MapInv, Links, UsersLinked
    <3>3. Told(ctx[y].eng, ctx[y].s)' <=> Told(ctx[y].eng, ctx[y].s)
      BY <3>1, <1>8
    <3> QED BY <3>1, <3>2, <3>3, <1>1 DEF Ready
  <2> QED BY <2>1, <2>2
<1>15. MsgsLinked'
  <2>1. Ready(b.s, b.eng, x)
    BY DEF MapInv, Links, UsersLinked
  <2> QED BY <1>1, <1>2, <1>5, <2>1, MsgsGrow DEF MapInv, Links, Ready
<1> QED BY <1>1, <1>9, <1>10, <1>12, <1>13, <1>14, <1>15 DEF MapInv, Links, MapFirst


\* With one segment, the one that is dropped is the one whose announcement
\* failed, and nobody has a part of it.
LEMMA UnsentStep ==
  ASSUME MapInv, NEW x \in Ctxs, Unsent(x)
  PROVE  MapInv'
<1>1. /\ ctx[x].pc = "unsent" /\ mutex = NoCtx /\ UNCHANGED <<mutex, bufs, chan, rbufs, lost>>
      /\ segs' = SubSeq(segs, 1, Len(segs) - 1) /\ ctx' = [ctx EXCEPT ![x] = Back(x)]
      /\ segs \in Seq(SegSet) /\ Len(segs) \in Nat
  BY DEF Unsent, Refused, MapInv, Types, router
<1>2. Back(x) \in CtxSet /\ Back(x).pc = "idle"
  BY BackType DEF MapInv
<1>3. /\ Limit = 1 /\ ctx[x].s \in 1..Len(segs) /\ Len(segs) <= Limit
      /\ segs[ctx[x].s].over = ctx[x].eng /\ segs[ctx[x].s].thr = x
      /\ \A e \in Engines : ~Told(e, ctx[x].s)
  BY <1>1 DEF MapInv, Locked, Links, MakersLinked, Making
<1>4. Len(segs) = 1 /\ ctx[x].s = 1
  <2>1. ASSUME NEW l \in Nat, NEW i \in 1..l, l <= 1 PROVE l = 1 /\ i = 1
    BY <2>1
  <2> QED BY <1>1, <1>3, <2>1
<1>5. segs[1].over # Mapped /\ segs[1].thr = x /\ \A e \in Engines : ~Told(e, 1)
  <2>1. ctx[x].eng \in Engines
    BY DEF MapInv, Types, CtxSet
  <2> QED BY <1>3, <1>4, <2>1, UnitShmAssumption
<1>6. segs' \in Seq(SegSet) /\ Len(segs') = 0
  BY <1>1, <1>4
<1>7. ctx'[x] = Back(x) /\ \A y \in Ctxs \ {x} : ctx'[y] = ctx[y]
  BY <1>1 DEF MapInv, Types
<1>8. ASSUME NEW e \in Engines PROVE Len(chan[e]) = 0
  <2>1. chan[e] \in Seq(MsgSet) /\ Len(chan[e]) \in Nat
    BY DEF MapInv, Types
  <2> SUFFICES ASSUME 1 \in 1..Len(chan[e]) PROVE FALSE
    BY <2>1
  <2>2. chan[e][1] \in MsgSet
    BY <2>1
  <2>3. chan[e][1].kind \in {"mmap", "data"}
    BY <2>2 DEF MsgSet
  <2>4. /\ chan[e][1].s \in 1..Len(segs)
        /\ chan[e][1].kind = "data" => \/ segs[chan[e][1].s].over = Mapped
                                       \/ ToldIn(e, chan[e][1].s, 1 - 1)
    BY DEF MapInv, Links, MsgsLinked
  <2>5. chan[e][1].s = 1
    BY <1>4, <2>4
  <2>6. ~ToldIn(e, 1, 1 - 1)
    BY DEF ToldIn
  <2>7. chan[e][1].kind # "mmap"
    BY <1>5, <2>5 DEF Told, ToldIn
  <2> QED BY <1>5, <2>3, <2>4, <2>5, <2>6, <2>7
<1>9. \A n : \A e \in Engines, y \in Ctxs : ~Ready(n, e, y)
  BY <1>4, <1>5 DEF Ready
<1>10. \A y \in Ctxs : bufs[y] = {} /\ ctx'[y].pc \notin {"got", "sent"}
  <2> SUFFICES ASSUME NEW y \in Ctxs
               PROVE  bufs[y] = {} /\ ctx'[y].pc \notin {"got", "sent"}
    OBVIOUS
  <2>1. ctx[y].eng \in Engines /\ \A b \in bufs[y] : b.eng \in Engines
    BY DEF MapInv, Types, CtxSet, BufSet
  <2>2. bufs[y] = {} /\ ctx[y].pc \notin {"got", "sent"}
    BY <1>9, <2>1 DEF MapInv, Links, UsersLinked
  <2> QED BY <1>2, <1>7, <2>2
<1>11. \A y \in Ctxs : ctx'[y].pc \notin Making
  <2> SUFFICES ASSUME NEW y \in Ctxs, y # x, ctx[y].pc \in Making PROVE FALSE
    BY <1>2, <1>7 DEF Making
  <2>1. ctx[y].s \in 1..Len(segs) /\ segs[ctx[y].s].thr = y
    BY DEF MapInv, Links, MakersLinked
  <2> QED BY <1>4, <1>5, <2>1
<1>12. Types'
  BY <1>1, <1>2, <1>6 DEF MapInv, Types
<1>13. Locked'
  <2>1. Locked /\ Len(segs') <= Limit /\ \A y \in Ctxs \ {x} : ctx[y].pc # "new"
    BY <1>1, <1>3, <1>6, UnitShmAssumption DEF MapInv, Locked
  <2> QED BY <1>1, <1>2, <1>7, <2>1, LockKept DEF MutexMoved, Guarded
<1>14. SegsLinked'
  BY <1>6 DEF SegsLinked
<1>15. MakersLinked'
  BY <1>11 DEF MakersLinked
<1>16. UsersLinked'
  BY <1>1, <1>10 DEF UsersLinked
<1>17. MsgsLinked'
  BY <1>1, <1>8 DEF MsgsLinked
<1> QED BY <1>1, <1>12, <1>13, <1>14, <1>15, <1>16, <1>17 DEF MapInv, Links, MapFirst

LEMMA TailFacts ==
  ASSUME NEW S, NEW q \in Seq(S), q # <<>>
  PROVE  /\ Tail(q) \in Seq(S) /\ Len(Tail(q)) = Len(q) - 1
         /\ \A k \in 1..(Len(q) - 1) : Tail(q)[k] = q[k + 1]
BY HeadTailProperties

LEMMA ChanShrinks ==
  ASSUME Types, NEW o \in Engines, chan[o] # <<>>, chan' = [chan EXCEPT ![o] = Tail(@)]
  PROVE  /\ chan' \in [Engines -> Seq(MsgSet)] /\ chan[o][1] \in MsgSet
         /\ Head(chan[o]) = chan[o][1] /\ 1 \in 1..Len(chan[o])
         /\ Len(chan[o]) \in Nat /\ Len(chan'[o]) = Len(chan[o]) - 1
         /\ \A k \in 1..(Len(chan[o]) - 1) : chan'[o][k] = chan[o][k + 1]
         /\ \A e \in Engines \ {o} : chan'[e] = chan[e]
<1>1. chan[o] \in Seq(MsgSet) /\ Len(chan[o]) \in Nat /\ Len(chan[o]) # 0
  BY DEF Types
<1>2. chan'[o] = Tail(chan[o]) /\ \A e \in Engines \ {o} : chan'[e] = chan[e]
  BY DEF Types
<1>3. /\ Tail(chan[o]) \in Seq(MsgSet) /\ Len(Tail(chan[o])) = Len(chan[o]) - 1
      /\ \A k \in 1..(Len(chan[o]) - 1) : Tail(chan[o])[k] = chan[o][k + 1]
  BY <1>1, TailFacts
<1>4. chan' \in [Engines -> Seq(MsgSet)]
  BY <1>3 DEF Types
<1>5. chan[o][1] \in MsgSet /\ Head(chan[o]) = chan[o][1] /\ 1 \in 1..Len(chan[o])
  BY <1>1
<1>6. /\ Len(chan'[o]) = Len(chan[o]) - 1
      /\ \A k \in 1..(Len(chan[o]) - 1) : chan'[o][k] = chan[o][k + 1]
  BY <1>2, <1>3
<1> QED BY <1>1, <1>2, <1>4, <1>5, <1>6

\* The router maps the segment before it sees data in it.
LEMMA EngineRecvStep ==
  ASSUME MapInv, NEW o \in Engines, EngineRecv(o)
  PROVE  MapInv'
<1> DEFINE m == chan[o][1]
           maps(n) == m.kind = "mmap" /\ n = m.s
<1>1. /\ chan[o] # <<>> /\ chan' = [chan EXCEPT ![o] = Tail(@)]
      /\ UNCHANGED <<mutex, ctx, bufs>>
  BY DEF EngineRecv
<1>2. /\ chan' \in [Engines -> Seq(MsgSet)] /\ m \in MsgSet
      /\ Head(chan[o]) = m /\ 1 \in 1..Len(chan[o])
      /\ Len(chan[o]) \in Nat /\ Len(chan'[o]) = Len(chan[o]) - 1
      /\ \A k \in 1..(Len(chan[o]) - 1) : chan'[o][k] = chan[o][k + 1]
      /\ \A e \in Engines \ {o} : chan'[e] = chan[e]
  BY <1>1, ChanShrinks DEF MapInv
<1>3. m.kind \in {"mmap", "data"} /\ m.s \in Nat /\ m.cs \in SUBSET Int
  BY <1>2 DEF MsgSet
<1>4. m.s \in 1..Len(segs) /\ (m.kind = "data" => segs[m.s].over = Mapped)
  <2>1. ~ToldIn(o, m.s, 1 - 1)
    BY DEF ToldIn
  <2> QED BY <1>2, <2>1 DEF MapInv, Links, MsgsLinked
<1>5. segs \in Seq(SegSet) /\ Len(segs) \in Nat /\ \A n \in 1..Len(segs) : segs[n] \in SegSet
  BY DEF MapInv, Types
<1>6. /\ segs' \in Seq(SegSet) /\ Len(segs') = Len(segs)
      /\ \A n \in 1..Len(segs) : /\ segs'[n].id = segs[n].id /\ segs'[n].thr = segs[n].thr
                                 /\ segs'[n].over = IF maps(n) THEN Mapped ELSE segs[n].over
  <2>1. CASE m.kind = "mmap"
    <3> DEFINE v == [segs[m.s] EXCEPT !.over = Mapped]
    <3>1. v \in SegSet /\ v.id = segs[m.s].id /\ v.thr = segs[m.s].thr /\ v.over = Mapped
      <4>1. segs[m.s] \in SegSet
        BY <1>4, <1>5
      <4> QED BY <4>1 DEF SegSet
    <3>2. segs' = [segs EXCEPT ![m.s] = v]
      BY <1>2, <2>1 DEF EngineRecv
    <3> HIDE DEF v
    <3>3. segs' \in [1..Len(segs) -> SegSet]
      <4>1. segs \in [1..Len(segs) -> SegSet]
        BY <1>5
      <4> QED BY <3>1, <3>2, <4>1
    <3>4. segs' \in Seq(SegSet) /\ Len(segs') = Len(segs)
      BY <1>5, <3>3
    <3>5. \A n \in 1..Len(segs) : segs'[n] = IF n = m.s THEN v ELSE segs[n]
      BY <1>5, <3>2
    <3> QED BY <2>1, <3>1, <3>4, <3>5
  <2>2. CASE m.kind # "mmap"
    BY <1>2, <1>5, <2>2 DEF EngineRecv
  <2> QED BY <2>1, <2>2
<1>7. ~lost' /\ rbufs' \subseteq [s : Nat, cs : SUBSET Int]
  <2>1. CASE m.kind = "mmap"
    BY <1>2, <2>1 DEF EngineRecv, MapInv, Types, MapFirst
  <2>2. CASE m.kind # "mmap"
    <3>1. m.s <= Len(segs) /\ segs[m.s].over = Mapped
      BY <1>3, <1>4, <1>5, <2>2
    <3>2. ~lost' /\ rbufs' \in {rbufs, rbufs \cup {[s |-> m.s, cs |-> m.cs]}}
      BY <1>2, <3>1 DEF EngineRecv, MapInv, MapFirst
    <3> QED BY <1>3, <3>2 DEF MapInv, Types
  <2> QED BY <2>1, <2>2
<1>8. ASSUME NEW n, NEW e \in Engines PROVE Told(e, n)' => Told(e, n)
  <2>1. CASE e = o
    BY <1>2, <2>1 DEF Told, ToldIn
  <2>2. CASE e # o
    BY <1>2, <2>2 DEF Told, ToldIn
  <2> QED BY <2>1, <2>2
<1>10. ASSUME NEW n, NEW e \in Engines, Told(e, n), ~maps(n) PROVE Told(e, n)'
  <2>1. CASE e = o
    <3>1. PICK j \in 1..Len(chan[o]) : chan[o][j].kind = "mmap" /\ chan[o][j].s = n
      BY <1>10, <2>1 DEF Told, ToldIn
    <3>2. j # 1
      BY <1>10, <3>1
    <3>3. j - 1 \in 1..Len(chan'[o]) /\ chan'[o][j - 1] = chan[o][j]
      BY <1>2, <3>1, <3>2
    <3> QED BY <2>1, <3>1, <3>3 DEF Told, ToldIn
  <2>2. CASE e # o
    BY <1>2, <1>10, <2>2 DEF Told, ToldIn
  <2> QED BY <2>1, <2>2
<1>11. Types' /\ Locked'
  <2>1. Types'
    BY <1>1, <1>2, <1>6, <1>7 DEF MapInv, Types
  <2>2. Locked'
    BY <1>1, <1>6 DEF MapInv, Locked
  <2> QED BY <2>1, <2>2
<1> HIDE DEF m
<1>12. SegsLinked'
  <2> SUFFICES ASSUME NEW n \in 1..Len(segs)
               PROVE  /\ segs'[n].id = n
                      /\ \/ segs'[n].over = Mapped
                         \/ Told(segs[n].over, n)'
                         \/ ctx[segs'[n].thr].pc \in Making /\ ctx[segs'[n].thr].s = n
    BY <1>1, <1>6 DEF SegsLinked
  <2>1. /\ segs'[n].id = segs[n].id /\ segs'[n].thr = segs[n].thr
        /\ segs'[n].over = IF maps(n) THEN Mapped ELSE segs[n].over
    BY <1>6
  <2>2. segs[n].over \in Engines \cup {Mapped}
    BY <1>5 DEF SegSet
  <2>3. CASE maps(n)
    BY <2>1, <2>3 DEF MapInv, Links, SegsLinked
  <2>4. CASE ~maps(n)
    <3>1. \A e \in Engines : segs[n].over = e /\ Told(e, n) => Told(segs[n].over, n)'
      BY <1>10, <2>1, <2>4
    <3> QED BY <2>1, <2>2, <2>4, <3>1 DEF MapInv, Links, SegsLinked
  <2> QED BY <2>3, <2>4
<1>13. MakersLinked'
  <2> SUFFICES ASSUME NEW y \in Ctxs, ctx[y].pc \in Making
               PROVE  /\ ctx[y].s \in 1..Len(segs)
                      /\ segs'[ctx[y].s].over = ctx[y].eng /\ segs'[ctx[y].s].thr = y
                      /\ \A e \in Engines : ~Told(e, ctx[y].s)'
                      /\ ctx[y].pc = "unsent" => Limit = 1
    BY <1>1, <1>6 DEF MakersLinked
  <2>1. /\ ctx[y].s \in 1..Len(segs) /\ segs[ctx[y].s].over = ctx[y].eng
        /\ segs[ctx[y].s].thr = y /\ \A e \in Engines : ~Told(e, ctx[y].s)
        /\ ctx[y].pc = "unsent" => Limit = 1
    BY DEF MapInv, Links, MakersLinked
  <2>2. ~maps(ctx[y].s)
    BY <1>2, <2>1 DEF m, Told, ToldIn
  <2>3. \A e \in Engines : ~Told(e, ctx[y].s)'
    <3>1. \A e \in Engines : Told(e, ctx[y].s)' => Told(e, ctx[y].s)
      <4>1. \A e \in Engines : \A n : n = ctx'[y].s => (Told(e, n)' <=> Told(e, ctx[y].s)')
        OBVIOUS
      <4> QED BY <1>1, <1>8, <4>1
    <3> QED BY <2>1, <3>1
  <2> QED BY <1>6, <2>1, <2>2, <2>3
<1>14. ASSUME NEW n, NEW e \in Engines, NEW y, Ready(n, e, y) PROVE Ready(n, e, y)'
  <2>1. CASE maps(n)
    BY <1>6, <1>14, <2>1 DEF Ready
  <2>2. CASE ~maps(n)
    BY <1>6, <1>10, <1>14, <2>2 DEF Ready
  <2> QED BY <2>1, <2>2
<1>15. UsersLinked'
  <2> SUFFICES ASSUME NEW y \in Ctxs
               PROVE  /\ ctx[y].pc \in {"got", "sent"} => Ready(ctx[y].s, ctx[y].eng, y)'
                      /\ \A b \in bufs[y] : Ready(b.s, b.eng, y)'
    BY <1>1 DEF UsersLinked
  <2>1. ctx[y].eng \in Engines /\ \A b \in bufs[y] : b.eng \in Engines
    BY DEF MapInv, Types, CtxSet, BufSet
  <2>2. ASSUME NEW b \in bufs[y] PROVE Ready(b.s, b.eng, y)'
    BY <1>14, <2>1 DEF MapInv, Links, UsersLinked
  <2>3. ASSUME ctx[y].pc \in {"got", "sent"} PROVE Ready(ctx[y].s, ctx[y].eng, y)'
    <3>1. Ready(ctx[y].s, ctx[y].eng, y)
      BY <2>3 DEF MapInv, Links, UsersLinked
    <3>2. \A n : \A e \in Engines : n = ctx'[y].s /\ e = ctx'[y].eng /\ Ready(n, e, y)'
             => Ready(ctx[y].s, ctx[y].eng, y)'
      OBVIOUS
    <3> QED BY <1>1, <1>14, <2>1, <3>1, <3>2
  <2> QED BY <2>2, <2>3
<1>16. MsgsLinked'
  <2> SUFFICES ASSUME NEW e \in Engines, NEW k \in 1..Len(chan'[e])
               PROVE  LET d == chan'[e][k]
                      IN  /\ d.s \in 1..Len(segs)
                          /\ d.kind = "data" => \/ segs'[d.s].over = Mapped
                                                \/ segs'[d.s].over = e /\ ToldIn(e, chan[e][k].s, k - 1)'
    BY <1>6 DEF MsgsLinked
  <2> DEFINE d == chan'[e][k]
             h == IF e = o THEN k + 1 ELSE k
  <2>1. h \in 1..Len(chan[e]) /\ d = chan[e][h] /\ k \in Nat \ {0}
    <3>1. Len(chan[e]) \in Nat /\ Len(chan'[e]) \in Nat
      BY <1>2 DEF MapInv, Types
    <3> QED BY <1>2, <3>1
  <2>2. /\ d.s \in 1..Len(segs)
        /\ d.kind = "data" => \/ segs[d.s].over = Mapped
                              \/ segs[d.s].over = e /\ ToldIn(e, d.s, h - 1)
    BY <2>1 DEF MapInv, Links, MsgsLinked
  <2>3. segs'[d.s].over = IF maps(d.s) THEN Mapped ELSE segs[d.s].over
    BY <1>6, <2>2
  <2>4. ASSUME ToldIn(e, d.s, h - 1), ~maps(d.s)
        PROVE  ToldIn(e, chan[e][k].s, k - 1)'
    <3>1. PICK j \in 1..(h - 1) : chan[e][j].kind = "mmap" /\ chan[e][j].s = d.s
      BY <2>4 DEF ToldIn
    <3>2. CASE e = o
      <4>1. j # 1
        BY <2>4, <3>1, <3>2 DEF m
      <4>2. j - 1 \in 1..(k - 1) /\ chan'[e][j - 1] = chan[e][j]
        BY <1>2, <2>1, <3>1, <3>2, <4>1
      <4> QED BY <3>1, <4>2 DEF ToldIn
    <3>3. CASE e # o
      BY <1>2, <3>1, <3>3 DEF ToldIn
    <3> QED BY <3>2, <3>3
  <2> QED BY <2>2, <2>3, <2>4
<1> QED BY <1>7, <1>11, <1>12, <1>13, <1>15, <1>16 DEF MapInv, Links, MapFirst

-----------------------------------------------------------------------------
(* The specification.                                                      *)

LEMMA MapInit == Init => MapInv
<1> SUFFICES ASSUME Init PROVE MapInv
  OBVIOUS
<1>1. /\ segs = <<>> /\ \A x \in Ctxs : ctx[x] = Idle /\ bufs[x] = {}
      /\ \A e \in Engines : chan[e] = <<>>
      /\ rbufs = {} /\ lost = FALSE
  BY DEF Init
<1>2. Types
  BY <1>1, IdleType DEF Init, Types
<1>3. Locked
  BY <1>1, IdleType, UnitShmAssumption DEF Locked
<1>4. Links
  BY <1>1, IdleType DEF Links, SegsLinked, MakersLinked, UsersLinked, MsgsLinked, Making
<1> QED BY <1>1, <1>2, <1>3, <1>4 DEF MapInv, MapFirst

LEMMA MapStep ==
  ASSUME Orderly, MapInv, [Next]_vars
  PROVE  MapInv'
<1>1. ASSUME NEW x \in Ctxs, CtxStep(x) PROVE MapInv'
  BY <1>1, ScanSteps, UndoStep, FlagStep, ScanEndStep, RefusalSteps, WaitSteps, RetryStep, NewMmapStep,
     SendMmapStep, UnsentStep, GotStep, ReleaseStep, ReadAckStep DEF CtxStep
<1>2. ASSUME NEW x \in Ctxs, Fails(x) PROVE MapInv'
  <2>1. CASE Quit(x)
    BY <2>1, Apart DEF Quit, router
  <2> QED BY <1>2, <2>1, RefusalSteps, SendMmapFailsStep DEF Fails
<1>3. ASSUME NEW x \in Ctxs, Ends(x) PROVE MapInv'
  BY <1>3, FreeBufStep, SendBufStep DEF Ends
<1>4. ASSUME NEW x \in Ctxs, Starts(x) PROVE MapInv'
  BY <1>4, GetBufStep DEF Starts
<1>5. CASE RouterStep
  <2>1. CASE Broadcast \/ OosmHandler
    BY <2>1, Apart DEF Broadcast, OosmHandler, router
  <2> QED BY <1>5, <2>1, EngineRecvStep, CompletionSteps DEF RouterStep
<1>6. CASE UNCHANGED vars
  BY <1>6, Apart DEF vars, router
<1> QED BY <1>1, <1>2, <1>3, <1>4, <1>5, <1>6 DEF Next

\* No datagram reaches the router before the segment that it names, whatever
\* the thread and the port that carry each: sent_over and src_thread in
\* nxt_unit_mmap_get(), and the order of nxt_unit_new_mmap() and of the sends
\* behind it.  With more than one segment this needs that announcements do not
\* fail, because outgoing.size-- in nxt_unit_new_mmap() may drop another's.
THEOREM DataBehindSegment == Orderly /\ Spec => []MapFirst
<1>1. Orderly /\ Init => Orderly /\ MapInv
  BY MapInit
<1>2. (Orderly /\ MapInv) /\ [Next]_vars => (Orderly /\ MapInv)'
  BY MapStep DEF Orderly
<1>3. Orderly /\ MapInv => MapFirst
  BY DEF MapInv
<1> QED BY <1>1, <1>2, <1>3, PTL DEF Spec
-----------------------------------------------------------------------------
(* The chunks.                                                             *)

Bare == {"idle", "new", "flag", "full", "wait", "retry"}
Seeking == {"scan", "undo"}

\* A chunk that a context has at hand is in a segment the router mapped, or in
\* its own; a run that it is taking or giving back, in the one it looks at.
SizeOf(x) ==
  /\ ctx[x].n \in 1..NChunks
  /\ ctx[x].cs \subseteq Chunks /\ ctx[x].sent \subseteq Chunks
  /\ ctx[x].pc \in Bare => ctx[x].cs = {}
  /\ ctx[x].pc # "count" => ctx[x].sent = {}
  /\ ctx[x].pc \notin Bare \cup {"scan", "count"} => ctx[x].cs # {}
  /\ ctx[x].pc \in Seeking /\ ctx[x].cs # {} =>
       ctx[x].s = ctx[x].i /\ Usable(x, segs[ctx[x].i])
  /\ ctx[x].cs # {} => /\ ctx[x].s \in 1..Len(segs)
                       /\ segs[ctx[x].s].over = Mapped \/ segs[ctx[x].s].thr = x
  /\ ctx[x].sent # {} => ctx[x].s \in Segs
  /\ \A b \in bufs[x] : b.cs \subseteq Chunks /\ b.cs # {}

ChanSizes ==
  \A e \in Engines : \A k \in 1..Len(chan[e]) :
    /\ chan[e][k].cs \subseteq Chunks
    /\ chan[e][k].kind = "data" <=> chan[e][k].cs # {}

RouterSizes ==
  \A b \in rbufs : /\ b.cs \subseteq Chunks /\ b.cs # {}
                   /\ b.s \in 1..Len(segs) /\ segs[b.s].over = Mapped

Sizes ==
  /\ \A n \in 1..Len(segs) : segs[n].free \subseteq Chunks
  /\ \A x \in Ctxs : SizeOf(x)
  /\ ChanSizes /\ RouterSizes

\* What a context takes off the count is not in its hands any more.
SentApart ==
  \A x \in Ctxs :
    /\ ctx[x].sent \cap ctx[x].cs = {}
    /\ \A b \in bufs[x] : b.s = ctx[x].s => b.cs \cap ctx[x].sent = {}

ChunkInv == Sizes /\ Owned /\ SentApart /\ Accounted

\* The kinds of holders h of chunk c of segment n, in buffers B, contexts C,
\* messages M, the router R and the bit maps of S.
InBuffer(B, h, n, c) ==
  \E x \in Ctxs : \E b \in B[x] : h = <<"buffer", x, b>> /\ b.s = n /\ c \in b.cs
InContext(C, h, n, c) ==
  \E x \in Ctxs : h = <<"context", x>> /\ C[x].s = n /\ c \in C[x].cs
InMessage(M, h, n, c) ==
  \E e \in Engines : \E k \in 1..Len(M[e]) :
    h = <<"message", e, k>> /\ M[e][k].s = n /\ c \in M[e][k].cs
InRouter(R, h, n, c) == \E b \in R : h = <<"router", b>> /\ b.s = n /\ c \in b.cs
InMap(S, h, n, c) == h = <<"free">> /\ c \in S[n].free

Has(B, C, M, R, S, h, n, c) ==
  \/ InBuffer(B, h, n, c) \/ InContext(C, h, n, c) \/ InMessage(M, h, n, c)
  \/ InRouter(R, h, n, c) \/ InMap(S, h, n, c)
OneHolder(B, C, M, R, S, n, c) == \E h : \A g : Has(B, C, M, R, S, g, n, c) <=> g = h

LEMMA HoldersAre ==
  ASSUME Types, NEW n, NEW c, NEW h
  PROVE  h \in Holders(n, c) <=> Has(bufs, ctx, chan, rbufs, segs, h, n, c)
<1> DEFINE P1 == UNION {{<<"buffer", x, b>> : b \in {b \in bufs[x] : b.s = n /\ c \in b.cs}}
                     : x \in Ctxs}
           P2 == {<<"context", x>> : x \in {x \in Ctxs : ctx[x].s = n /\ c \in ctx[x].cs}}
           P3 == UNION {{<<"message", e, k>> :
                   k \in {k \in DOMAIN chan[e] : chan[e][k].s = n /\ c \in chan[e][k].cs}}
                   : e \in Engines}
           P4 == {<<"router", b>> : b \in {b \in rbufs : b.s = n /\ c \in b.cs}}
           P5 == {<<"free">> : f \in {f \in {c} : f \in segs[n].free}}
<1>1. h \in P1 <=> InBuffer(bufs, h, n, c)
  BY DEF InBuffer
<1>2. h \in P2 <=> InContext(ctx, h, n, c)
  BY DEF InContext
<1>3. h \in P3 <=> InMessage(chan, h, n, c)
  <2>1. \A e \in Engines : DOMAIN chan[e] = 1..Len(chan[e])
    BY DEF Types
  <2> QED BY <2>1 DEF InMessage
<1>4. h \in P4 <=> InRouter(rbufs, h, n, c)
  BY DEF InRouter
<1>5. h \in P5 <=> InMap(segs, h, n, c)
  BY DEF InMap
<1>6. Holders(n, c) = P1 \cup P2 \cup P3 \cup P4 \cup P5
  BY Zenon DEF Holders
<1> HIDE DEF P1, P2, P3, P4, P5
<1> QED BY <1>1, <1>2, <1>3, <1>4, <1>5, <1>6 DEF Has

OwnedAll == \A n \in 1..Len(segs), c \in Chunks :
              OneHolder(bufs, ctx, chan, rbufs, segs, n, c)

LEMMA OwnedIs == Types => (Owned <=> OwnedAll)
<1> SUFFICES ASSUME Types PROVE Owned <=> OwnedAll
  OBVIOUS
<1>1. DOMAIN segs = 1..Len(segs)
  BY DEF Types
<1>2. ASSUME NEW n, NEW c
      PROVE  (\E h \in Holders(n, c) : Holders(n, c) = {h})
               <=> OneHolder(bufs, ctx, chan, rbufs, segs, n, c)
  <2>1. \A h : h \in Holders(n, c) <=> Has(bufs, ctx, chan, rbufs, segs, h, n, c)
    BY HoldersAre
  <2>2. ASSUME NEW h \in Holders(n, c), Holders(n, c) = {h}
        PROVE  OneHolder(bufs, ctx, chan, rbufs, segs, n, c)
    BY <2>1, <2>2 DEF OneHolder
  <2>3. ASSUME NEW h, \A g : Has(bufs, ctx, chan, rbufs, segs, g, n, c) <=> g = h
        PROVE  h \in Holders(n, c) /\ Holders(n, c) = {h}
    BY <2>1, <2>3
  <2> QED BY <2>2, <2>3 DEF OneHolder
<1> QED BY <1>1, <1>2 DEF Owned, OwnedAll

LEMMA OwnedNext == Types' => (Owned' <=> OwnedAll')
BY OwnedIs, PTL

\* A holder is of one kind.
LEMMA Kinds ==
  ASSUME NEW B, NEW C, NEW M, NEW R, NEW S, NEW h, NEW n, NEW c
  PROVE  /\ InBuffer(B, h, n, c) => h[1] = "buffer"
         /\ InContext(C, h, n, c) => h[1] = "context"
         /\ InMessage(M, h, n, c) => h[1] = "message"
         /\ InRouter(R, h, n, c) => h[1] = "router"
         /\ InMap(S, h, n, c) => h[1] = "free"
<1>1. InBuffer(B, h, n, c) => h[1] = "buffer"
  BY DEF InBuffer
<1>2. InContext(C, h, n, c) => h[1] = "context"
  BY DEF InContext
<1>3. InMessage(M, h, n, c) => h[1] = "message"
  BY DEF InMessage
<1>4. InRouter(R, h, n, c) => h[1] = "router"
  BY DEF InRouter
<1>5. InMap(S, h, n, c) => h[1] = "free"
  BY DEF InMap
<1> QED BY <1>1, <1>2, <1>3, <1>4, <1>5

LEMMA OneIs ==
  ASSUME NEW B, NEW C, NEW M, NEW R, NEW S, NEW n, NEW c, NEW h,
         Has(B, C, M, R, S, h, n, c), \A g : Has(B, C, M, R, S, g, n, c) => g = h
  PROVE  OneHolder(B, C, M, R, S, n, c)
<1> SUFFICES \E k : \A g : Has(B, C, M, R, S, g, n, c) <=> g = k
  BY DEF OneHolder
<1> WITNESS h
<1> QED OBVIOUS

\* A chunk stays where it is, or goes from f to d.
LEMMA OneKept ==
  ASSUME NEW B, NEW C, NEW M, NEW R, NEW S, NEW B2, NEW C2, NEW M2, NEW R2, NEW S2,
         NEW n, NEW c, OneHolder(B, C, M, R, S, n, c),
         \A g : Has(B2, C2, M2, R2, S2, g, n, c) <=> Has(B, C, M, R, S, g, n, c)
  PROVE  OneHolder(B2, C2, M2, R2, S2, n, c)
BY DEF OneHolder

LEMMA OneMoved ==
  ASSUME NEW B, NEW C, NEW M, NEW R, NEW S, NEW B2, NEW C2, NEW M2, NEW R2, NEW S2,
         NEW n, NEW c, OneHolder(B, C, M, R, S, n, c),
         NEW f, NEW d, Has(B, C, M, R, S, f, n, c),
         \A g : Has(B2, C2, M2, R2, S2, g, n, c)
                  <=> g = d \/ (g # f /\ Has(B, C, M, R, S, g, n, c))
  PROVE  OneHolder(B2, C2, M2, R2, S2, n, c)
<1>1. \A g : Has(B, C, M, R, S, g, n, c) => g = f
  BY DEF OneHolder
<1>2. \A g : Has(B2, C2, M2, R2, S2, g, n, c) <=> g = d
  BY <1>1
<1> SUFFICES \E k : \A g : Has(B2, C2, M2, R2, S2, g, n, c) <=> g = k
  BY DEF OneHolder
<1> WITNESS d
<1> QED BY <1>2

\* How each kind changes.
LEMMA ContextChange ==
  ASSUME NEW C, NEW C2, NEW x \in Ctxs, NEW n, NEW c, NEW h,
         \A y \in Ctxs \ {x} : C2[y].s = C[y].s /\ C2[y].cs = C[y].cs
  PROVE  InContext(C2, h, n, c) <=>
           \/ h = <<"context", x>> /\ C2[x].s = n /\ c \in C2[x].cs
           \/ h # <<"context", x>> /\ InContext(C, h, n, c)
<1>1. \A y \in Ctxs : <<"context", y>> = <<"context", x>> <=> y = x
  OBVIOUS
<1> QED BY <1>1 DEF InContext

LEMMA BufferAdded ==
  ASSUME NEW B, NEW B2, NEW x \in Ctxs, \A y \in Ctxs \ {x} : B2[y] = B[y], NEW b,
         B2[x] = B[x] \cup {b}, NEW n, NEW c, NEW h
  PROVE  InBuffer(B2, h, n, c) <=>
           \/ h = <<"buffer", x, b>> /\ b.s = n /\ c \in b.cs
           \/ InBuffer(B, h, n, c)
BY DEF InBuffer

LEMMA BufferTaken ==
  ASSUME NEW B, NEW B2, NEW x \in Ctxs, \A y \in Ctxs \ {x} : B2[y] = B[y], NEW b,
         B2[x] = B[x] \ {b}, NEW n, NEW c, NEW h
  PROVE  InBuffer(B2, h, n, c) <=> h # <<"buffer", x, b>> /\ InBuffer(B, h, n, c)
<1>1. \A y, d : <<"buffer", y, d>> = <<"buffer", x, b>> <=> y = x /\ d = b
  OBVIOUS
<1> QED BY <1>1 DEF InBuffer

\* The messages of M and one more for e.
OneMore(M, M2, e) ==
  /\ \A o \in Engines \ {e} : M2[o] = M[o]
  /\ Len(M[e]) \in Nat /\ Len(M2[e]) = Len(M[e]) + 1
  /\ \A k \in 1..Len(M[e]) : M2[e][k] = M[e][k]

LEMMA MessageAdded ==
  ASSUME NEW M, NEW M2, NEW e \in Engines, OneMore(M, M2, e),
         NEW n, NEW c, NEW h
  PROVE  InMessage(M2, h, n, c) <=>
           \/ h = <<"message", e, Len(M[e]) + 1>>
              /\ M2[e][Len(M[e]) + 1].s = n /\ c \in M2[e][Len(M[e]) + 1].cs
           \/ InMessage(M, h, n, c)
<1> DEFINE l == Len(M[e])
           m == M2[e][l + 1]
<1>0. /\ \A o \in Engines \ {e} : M2[o] = M[o]
      /\ l \in Nat /\ Len(M2[e]) = l + 1
      /\ \A k \in 1..l : M2[e][k] = M[e][k]
  BY DEF OneMore
<1>1. 1..(l + 1) = 1..l \cup {l + 1}
  BY <1>0
<1>2. ASSUME InMessage(M2, h, n, c)
      PROVE  \/ h = <<"message", e, l + 1>> /\ m.s = n /\ c \in m.cs
             \/ InMessage(M, h, n, c)
  <2>1. PICK o \in Engines : \E k \in 1..Len(M2[o]) :
          h = <<"message", o, k>> /\ M2[o][k].s = n /\ c \in M2[o][k].cs
    BY <1>2 DEF InMessage
  <2>4. PICK k \in 1..Len(M2[o]) :
          h = <<"message", o, k>> /\ M2[o][k].s = n /\ c \in M2[o][k].cs
    BY <2>1
  <2>2. CASE o = e /\ k = l + 1
    BY <2>4, <2>2
  <2>3. CASE o # e \/ k \in 1..l
    BY <1>0, <2>4, <2>3 DEF InMessage
  <2> QED BY <1>0, <1>1, <2>2, <2>3
<1>3. ASSUME h = <<"message", e, l + 1>> /\ m.s = n /\ c \in m.cs
      PROVE  InMessage(M2, h, n, c)
  <2>1. l + 1 \in 1..Len(M2[e])
    BY <1>0
  <2> QED BY <1>3, <2>1 DEF InMessage
<1>4. ASSUME InMessage(M, h, n, c) PROVE InMessage(M2, h, n, c)
  <2>1. PICK o \in Engines : \E k \in 1..Len(M[o]) :
          h = <<"message", o, k>> /\ M[o][k].s = n /\ c \in M[o][k].cs
    BY <1>4 DEF InMessage
  <2>2. \A k \in 1..Len(M[o]) : k \in 1..Len(M2[o]) /\ M2[o][k] = M[o][k]
    BY <1>0, <1>1
  <2> QED BY <2>1, <2>2 DEF InMessage
<1> QED BY <1>2, <1>3, <1>4

\* The messages of e behind the first move up.
Behind(e, f, g) ==
  \/ \E k \in Nat \ {0} : f = <<"message", e, k + 1>> /\ g = <<"message", e, k>>
  \/ \E o \in Engines \ {e}, k \in Nat : f = <<"message", o, k>> /\ g = <<"message", o, k>>

LEMMA BehindOne ==
  ASSUME NEW e \in Engines, NEW f, NEW g, NEW h
  PROVE  /\ Behind(e, f, g) /\ Behind(e, f, h) => g = h
         /\ Behind(e, f, h) /\ Behind(e, g, h) => f = g
         /\ Behind(e, f, g) => f[1] = "message" /\ g[1] = "message"
         /\ ~Behind(e, <<"message", e, 1>>, g)
<1>1. ASSUME Behind(e, f, g), Behind(e, f, h) PROVE g = h
  BY <1>1 DEF Behind
<1>2. ASSUME Behind(e, f, h), Behind(e, g, h) PROVE f = g
  BY <1>2 DEF Behind
<1>3. ASSUME Behind(e, f, g) PROVE f[1] = "message" /\ g[1] = "message"
  BY <1>3 DEF Behind
<1>4. ASSUME Behind(e, <<"message", e, 1>>, g) PROVE FALSE
  BY <1>4 DEF Behind
<1> QED BY <1>1, <1>2, <1>3, <1>4

LEMMA MessageTaken ==
  ASSUME NEW M, NEW M2, NEW e \in Engines, \A o \in Engines \ {e} : M2[o] = M[o],
         \A o \in Engines : Len(M[o]) \in Nat,
         Len(M[e]) # 0, Len(M2[e]) = Len(M[e]) - 1,
         \A k \in 1..Len(M2[e]) : M2[e][k] = M[e][k + 1],
         NEW n, NEW c, NEW h
  PROVE  /\ InMessage(M2, h, n, c) => \E f : Behind(e, f, h) /\ InMessage(M, f, n, c)
         /\ InMessage(M, h, n, c) =>
              \/ h = <<"message", e, 1>> /\ M[e][1].s = n /\ c \in M[e][1].cs
              \/ \E g : Behind(e, h, g) /\ InMessage(M2, g, n, c)
<1>1. ASSUME InMessage(M2, h, n, c)
      PROVE  \E f : Behind(e, f, h) /\ InMessage(M, f, n, c)
  <2>1. PICK o \in Engines : \E k \in 1..Len(M2[o]) :
          h = <<"message", o, k>> /\ M2[o][k].s = n /\ c \in M2[o][k].cs
    BY <1>1 DEF InMessage
  <2>2. PICK k \in 1..Len(M2[o]) :
          h = <<"message", o, k>> /\ M2[o][k].s = n /\ c \in M2[o][k].cs
    BY <2>1
  <2>3. CASE o = e
    <3>1. k \in Nat \ {0} /\ k + 1 \in 1..Len(M[e]) /\ M2[e][k] = M[e][k + 1]
      BY <2>3
    <3>2. InMessage(M, <<"message", e, k + 1>>, n, c)
      BY <2>2, <2>3, <3>1 DEF InMessage
    <3>3. Behind(e, <<"message", e, k + 1>>, h)
      BY <2>2, <2>3, <3>1 DEF Behind
    <3> QED BY <3>2, <3>3
  <2>4. CASE o # e
    <3>1. k \in Nat /\ k \in 1..Len(M[o]) /\ M2[o][k] = M[o][k]
      BY <2>4
    <3>2. InMessage(M, h, n, c)
      BY <2>2, <3>1 DEF InMessage
    <3>3. Behind(e, h, h)
      BY <2>2, <2>4, <3>1 DEF Behind
    <3> QED BY <3>2, <3>3
  <2> QED BY <2>3, <2>4
<1>2. ASSUME InMessage(M, h, n, c)
      PROVE  \/ h = <<"message", e, 1>> /\ M[e][1].s = n /\ c \in M[e][1].cs
             \/ \E g : Behind(e, h, g) /\ InMessage(M2, g, n, c)
  <2>1. PICK o \in Engines : \E k \in 1..Len(M[o]) :
          h = <<"message", o, k>> /\ M[o][k].s = n /\ c \in M[o][k].cs
    BY <1>2 DEF InMessage
  <2>2. PICK k \in 1..Len(M[o]) :
          h = <<"message", o, k>> /\ M[o][k].s = n /\ c \in M[o][k].cs
    BY <2>1
  <2>3. CASE o = e /\ k = 1
    BY <2>2, <2>3
  <2>4. CASE o = e /\ k # 1
    <3>1. PICK j : j = k - 1
      OBVIOUS
    <3>2. j \in Nat \ {0} /\ j + 1 = k /\ j \in 1..Len(M2[e]) /\ M2[e][j] = M[e][k]
      BY <2>4, <3>1
    <3>3. InMessage(M2, <<"message", e, j>>, n, c)
      BY <2>2, <2>4, <3>2 DEF InMessage
    <3>4. Behind(e, h, <<"message", e, j>>)
      BY <2>2, <2>4, <3>2 DEF Behind
    <3> QED BY <3>3, <3>4
  <2>5. CASE o # e
    <3>1. k \in Nat /\ k \in 1..Len(M2[o]) /\ M2[o][k] = M[o][k]
      BY <2>5
    <3>2. InMessage(M2, h, n, c)
      BY <2>2, <3>1 DEF InMessage
    <3>3. Behind(e, h, h)
      BY <2>2, <2>5, <3>1 DEF Behind
    <3> QED BY <3>2, <3>3
  <2> QED BY <2>3, <2>4, <2>5
<1> QED BY <1>1, <1>2

LEMMA RouterChange ==
  ASSUME NEW R, NEW b, NEW n, NEW c, NEW h
  PROVE  /\ InRouter(R \cup {b}, h, n, c) <=>
              \/ h = <<"router", b>> /\ b.s = n /\ c \in b.cs
              \/ InRouter(R, h, n, c)
         /\ InRouter(R \ {b}, h, n, c) <=> h # <<"router", b>> /\ InRouter(R, h, n, c)
<1>1. \A d : <<"router", d>> = <<"router", b>> <=> d = b
  OBVIOUS
<1> QED BY <1>1 DEF InRouter

-----------------------------------------------------------------------------
(* The bit map: what nxt_unit_mmap_get() takes is free.                    *)

LEMMA LeastNat ==
  ASSUME NEW T \in SUBSET Nat, T # {}
  PROVE  \E m \in T : \A k \in T : m <= k
<1> DEFINE I == {0..m : m \in T}
<1>1. IsWellFoundedOn(StrictSubsetOrdering(Nat), FiniteSubsetsOf(Nat))
  BY FS_StrictSubsetOrderingWellFounded
<1>2. I \subseteq FiniteSubsetsOf(Nat) /\ I # {}
  <2>1. \A m \in T : 0..m \in SUBSET Nat /\ IsFiniteSet(0..m)
    BY FS_Interval
  <2> QED BY <2>1 DEF FiniteSubsetsOf
<1>3. PICK i \in I : \A j \in I : ~(<<j, i>> \in StrictSubsetOrdering(Nat))
  <2> HIDE DEF I
  <2> QED BY <1>1, <1>2, WFMin
<1>4. PICK m \in T : i = 0..m
  OBVIOUS
<1>5. ASSUME NEW k \in T, k < m PROVE FALSE
  <2>1. 0..k \in I /\ 0..k \subseteq i /\ 0..k # i
    BY <1>4, <1>5
  <2>2. 0..k \in SUBSET Nat /\ i \in SUBSET Nat
    BY <1>4
  <2>3. <<0..k, i>> \in StrictSubsetOrdering(Nat)
    BY <2>1, <2>2 DEF StrictSubsetOrdering
  <2> QED BY <1>3, <2>1, <2>3
<1> QED BY <1>5

-----------------------------------------------------------------------------
(* Steps that move no chunk.                                               *)

\* The chunk is on account of context x.
InDue(B, C, x, s, c) ==
  \/ \E b \in B[x] : b.s = s /\ c \in b.cs
  \/ C[x].pc \in {"count", "free", "drop"} /\ C[x].s = s /\ c \in C[x].cs \cup C[x].sent

LEMMA DueIs ==
  Due = {p \in Ctxs \X (Segs \X Chunks) : InDue(bufs, ctx, p[1], p[2][1], p[2][2])}
BY DEF Due, InDue

LEMMA DueKept ==
  ASSUME \A x \in Ctxs, s \in Segs, c \in Chunks :
           InDue(bufs', ctx', x, s, c) <=> InDue(bufs, ctx, x, s, c)
  PROVE  Due' = Due
<1>1. Due' = {p \in Ctxs \X (Segs \X Chunks) : InDue(bufs', ctx', p[1], p[2][1], p[2][2])}
  BY DEF Due, InDue
<1> QED BY <1>1, DueIs

LEMMA DueFinite == IsFiniteSet(Due) /\ IsFiniteSet(Chunks) /\ Cardinality(Due) \in Nat
<1>1. Limit \in Nat /\ NChunks \in Nat /\ IsFiniteSet(Ctxs)
  BY UnitShmAssumption
<1>2. IsFiniteSet(Segs) /\ IsFiniteSet(Chunks)
  BY <1>1, FS_Interval DEF Segs, Chunks
<1>3. IsFiniteSet(Segs \X Chunks)
  BY <1>2, FS_Product
<1>4. IsFiniteSet(Ctxs \X (Segs \X Chunks))
  BY <1>1, <1>3, FS_Product
<1>5. Due \in SUBSET (Ctxs \X (Segs \X Chunks))
  BY DEF Due
<1>6. IsFiniteSet(Due)
  BY <1>4, <1>5, FS_Subset
<1> QED BY <1>2, <1>6, FS_CardinalityType
\* A context has the same chunks, or none before and after.
SameLoad(x) ==
  \/ /\ {ctx[x].pc, ctx'[x].pc} \subseteq Bare \cup {"scan"} /\ ctx'[x].n \in 1..NChunks
     /\ ctx[x].cs = {} /\ ctx[x].sent = {} /\ ctx'[x].cs = {} /\ ctx'[x].sent = {}
  \/ /\ ctx'[x].pc = ctx[x].pc \/ {ctx[x].pc, ctx'[x].pc} \subseteq {"mmap", "sent", "unsent"}
     /\ ctx'[x].n = ctx[x].n /\ ctx'[x].s = ctx[x].s
     /\ ctx'[x].cs = ctx[x].cs /\ ctx'[x].sent = ctx[x].sent
     /\ ctx'[x].pc \in Seeking => ctx'[x].i = ctx[x].i /\ ctx'[x].eng = ctx[x].eng
  \/ /\ ctx[x].pc = "scan" /\ ctx'[x].pc \in {"undo", "got"}
     /\ ctx[x].cs # {} /\ ctx'[x].n \in 1..NChunks /\ ctx'[x].s = ctx[x].s
     /\ ctx'[x].cs = ctx[x].cs /\ ctx'[x].sent = ctx[x].sent
     /\ ctx'[x].pc = "undo" => ctx'[x].i = ctx[x].i /\ ctx'[x].eng = ctx[x].eng

LEMMA LoadKept ==
  ASSUME Sizes, \A x \in Ctxs : SameLoad(x), bufs' = bufs
  PROVE  /\ \A h, n, c : InContext(ctx', h, n, c) <=> InContext(ctx, h, n, c)
         /\ Due' = Due
         /\ SentApart => SentApart'
<1>1. ASSUME NEW x \in Ctxs
      PROVE  /\ ctx'[x].cs = ctx[x].cs /\ ctx'[x].sent = ctx[x].sent
             /\ ctx[x].cs \cup ctx[x].sent # {} => ctx'[x].s = ctx[x].s
             /\ ctx[x].cs \cup ctx[x].sent # {} =>
                  (ctx'[x].pc \in {"count", "free", "drop"} <=> ctx[x].pc \in {"count", "free", "drop"})
  <2>1. SizeOf(x) /\ SameLoad(x)
    BY DEF Sizes
  <2>2. CASE {ctx[x].pc, ctx'[x].pc} \subseteq {"mmap", "sent", "unsent"}
    BY <2>1, <2>2 DEF SizeOf, SameLoad, Bare
  <2>3. CASE ~({ctx[x].pc, ctx'[x].pc} \subseteq {"mmap", "sent", "unsent"})
    BY <2>1, <2>3 DEF SizeOf, SameLoad, Bare
  <2> QED BY <2>2, <2>3
<1>2. \A x \in Ctxs : \A n, c : ctx'[x].s = n /\ c \in ctx'[x].cs <=> ctx[x].s = n /\ c \in ctx[x].cs
  BY <1>1
<1>3. \A h, n, c : InContext(ctx', h, n, c) <=> InContext(ctx, h, n, c)
  BY <1>2 DEF InContext
<1>4. Due' = Due
  <2>1. ASSUME NEW x \in Ctxs, NEW s \in Segs, NEW c \in Chunks
        PROVE  InDue(bufs', ctx', x, s, c) <=> InDue(bufs, ctx, x, s, c)
    BY <1>1 DEF InDue
  <2> QED BY <2>1, DueKept
<1>5. ASSUME SentApart PROVE SentApart'
  BY <1>1, <1>5 DEF SentApart
<1> QED BY <1>3, <1>4, <1>5

\* Segments may be added or mapped.
SegsGrow ==
  /\ Len(segs') >= Len(segs)
  /\ \A n \in 1..Len(segs) : /\ segs'[n].thr = segs[n].thr
                             /\ segs'[n].over = segs[n].over \/ segs'[n].over = Mapped

LEMMA SizeOfKept ==
  ASSUME MapInv, Sizes, Len(segs') \in Nat, NEW x \in Ctxs, SegsGrow, SameLoad(x),
         bufs'[x] = bufs[x]
  PROVE  SizeOf(x)'
<1>1. SizeOf(x) /\ SameLoad(x) /\ bufs'[x] = bufs[x]
  BY DEF Sizes
<1>2. CASE ctx'[x].cs = {}
  <2>1. ctx'[x].pc \in Bare \cup {"scan", "count"}
    BY <1>1, <1>2 DEF SizeOf, SameLoad, Bare
  <2>2. /\ ctx'[x].n \in 1..NChunks /\ ctx'[x].sent \subseteq Chunks
        /\ ctx'[x].pc # "count" => ctx'[x].sent = {}
        /\ ctx'[x].sent # {} => ctx'[x].s \in Segs
    BY <1>1, <1>2 DEF SizeOf, SameLoad, Bare
  <2> QED BY <1>1, <1>2, <2>1, <2>2 DEF SizeOf, Bare
<1>3. CASE ctx'[x].cs # {}
  <2>1. /\ ctx'[x].s = ctx[x].s /\ ctx[x].cs # {} /\ ctx'[x].cs = ctx[x].cs
        /\ ctx[x].s \in 1..Len(segs)
    BY <1>1, <1>3 DEF SameLoad, SizeOf
  <2>2. Len(segs) \in Nat
    BY DEF MapInv, Types
  <2>3. ctx'[x].s \in 1..Len(segs')
    BY <2>1, <2>2 DEF SegsGrow
  <2>4. segs'[ctx'[x].s].over = Mapped \/ segs'[ctx'[x].s].thr = x
    BY <1>1, <2>1 DEF SizeOf, SegsGrow
  <2>5. ASSUME ctx'[x].pc \in Seeking
        PROVE  ctx'[x].s = ctx'[x].i /\ Usable(x, segs[ctx[x].i])'
    <3>1. ctx[x].pc \in Seeking /\ ctx'[x].i = ctx[x].i /\ ctx'[x].eng = ctx[x].eng
      BY <1>1, <1>3, <2>5 DEF SameLoad, Seeking
    <3>2. ctx[x].s = ctx[x].i /\ Usable(x, segs[ctx[x].i])
      BY <1>1, <2>1, <3>1 DEF SizeOf
    <3> QED BY <2>1, <3>1, <3>2 DEF Usable, SegsGrow
  <2>6. ctx'[x].pc \notin Bare
    BY <1>1, <1>3, <2>1 DEF SizeOf, SameLoad, Bare
  <2>7. /\ ctx'[x].n \in 1..NChunks /\ ctx'[x].sent \subseteq Chunks
        /\ ctx'[x].pc # "count" => ctx'[x].sent = {}
        /\ ctx'[x].sent # {} => ctx'[x].s \in Segs
    BY <1>1, <1>3, <2>1 DEF SizeOf, SameLoad
  <2> QED BY <1>1, <1>3, <2>1, <2>3, <2>4, <2>5, <2>6, <2>7 DEF SizeOf
<1> QED BY <1>2, <1>3

LEMMA SizesKept ==
  ASSUME MapInv, Sizes, \A x \in Ctxs : SameLoad(x), bufs' = bufs, chan' = chan, rbufs' = rbufs,
         Len(segs') = Len(segs),
         \A n \in 1..Len(segs) :
           /\ segs'[n].free \subseteq Chunks /\ segs'[n].thr = segs[n].thr
           /\ segs'[n].over = segs[n].over \/ segs'[n].over = Mapped
  PROVE  Sizes'
<1>1. ASSUME NEW x \in Ctxs PROVE SizeOf(x)'
  <2>1. SegsGrow /\ Len(segs') \in Nat
    BY DEF SegsGrow, MapInv, Types
  <2> QED BY <2>1, SizeOfKept
<1> QED BY <1>1 DEF Sizes, ChanSizes, RouterSizes

\* Nothing moves.
LEMMA Quiet ==
  ASSUME MapInv, MapInv', ChunkInv, \A x \in Ctxs : SameLoad(x),
         bufs' = bufs, chan' = chan, rbufs' = rbufs, alloc' = alloc, SegsKept,
         \A n \in 1..Len(segs) : segs'[n].free = segs[n].free
  PROVE  ChunkInv'
<1>1. /\ \A h, n, c : InContext(ctx', h, n, c) <=> InContext(ctx, h, n, c)
      /\ Due' = Due /\ SentApart'
  BY LoadKept DEF ChunkInv
<1>2. Accounted'
  BY <1>1 DEF ChunkInv, Accounted
<1>3. Sizes'
  BY SizesKept DEF ChunkInv, Sizes, SegsKept
<1>4. ASSUME NEW n \in 1..Len(segs), NEW c \in Chunks
      PROVE  OneHolder(bufs', ctx', chan', rbufs', segs', n, c)
  <2>1. OneHolder(bufs, ctx, chan, rbufs, segs, n, c)
    BY OwnedIs DEF ChunkInv, MapInv, OwnedAll
  <2>2. \A g : InMap(segs', g, n, c) <=> InMap(segs, g, n, c)
    BY DEF InMap
  <2>3. \A g : Has(bufs', ctx', chan', rbufs', segs', g, n, c)
                 <=> Has(bufs, ctx, chan, rbufs, segs, g, n, c)
    BY <1>1, <2>2 DEF Has
  <2> QED BY <2>1, <2>3, OneKept
<1>5. Owned'
  <2>1. OwnedAll'
    BY <1>4 DEF OwnedAll, SegsKept
  <2> QED BY <2>1, OwnedNext DEF MapInv
<1> QED BY <1>1, <1>2, <1>3, <1>5 DEF ChunkInv

LEMMA ToBack ==
  ASSUME Types, NEW x \in Ctxs, ctx' = [ctx EXCEPT ![x] = Back(x)]
  PROVE  /\ Others(x) /\ ctx'[x].pc = "idle" /\ Empty1(x) /\ ctx'[x].quit = ctx[x].quit
<1>1. ctx'[x] = Back(x) /\ Others(x)
  BY CtxFacts
<1> QED BY <1>1, BackFacts DEF Empty1

LEMMA RefusedFacts ==
  ASSUME Types, NEW x \in Ctxs, NEW a, Refused(x, a)
  PROVE  /\ Others(x) /\ ctx'[x].pc = "idle" /\ Empty1(x) /\ ctx'[x].quit = ctx[x].quit
BY ToBack DEF Refused

LEMMA WantsSize ==
  ASSUME NEW mode, NEW want \in Wants(mode)
  PROVE  want[1] \in 1..NChunks
<1>1. NChunks \in Nat \ {0}
  BY UnitShmAssumption
<1> QED BY <1>1 DEF Wants

LEMMA GetBufFacts ==
  ASSUME Types, NEW x \in Ctxs, NEW mode, NEW e \in Engines,
         NEW want \in Wants(mode), GetBuf(x, mode, want, e)
  PROVE  /\ Others(x) /\ ctx[x].pc = "idle" /\ ctx'[x].pc \in {"new", "scan"} /\ Empty1(x)
         /\ ctx'[x].i = 1 /\ ~ctx'[x].quit /\ ~ctx[x].quit
<1> DEFINE v == [Idle EXCEPT
       !.pc = IF segs = <<>> THEN "new" ELSE "scan", !.mode = mode,
       !.n = want[1], !.min = want[2], !.eng = e]
<1>1. /\ v.pc \in {"new", "scan"} /\ v.n = want[1] /\ v.cs = {} /\ v.sent = {}
      /\ v.i = 1
  BY DEF Idle
<1>2. ~v.quit
  BY DEF Idle
<1>3. ctx' = [ctx EXCEPT ![x] = v] /\ ctx[x].pc = "idle" /\ ~ctx[x].quit
  BY DEF GetBuf
<1> HIDE DEF v
<1>4. ctx'[x] = v /\ Others(x)
  BY <1>3, CtxFacts
<1> QED BY <1>1, <1>2, <1>3, <1>4, WantsSize DEF Empty1

\* Steps that set the place only, and what is set beside it.
LEMMA PcFacts ==
  ASSUME Types, NEW x \in Ctxs, NEW p, ctx' = [ctx EXCEPT ![x].pc = p]
  PROVE  /\ Others(x) /\ ctx'[x].pc = p /\ Kept1(x) /\ Load1(x)
         /\ ctx'[x].i = ctx[x].i /\ ctx'[x].apart = ctx[x].apart
<1> DEFINE v == [ctx[x] EXCEPT !.pc = p]
<1>1. ctx[x] \in CtxSet
  BY DEF Types
<1>2. /\ v.pc = p /\ v.mode = ctx[x].mode /\ v.n = ctx[x].n /\ v.min = ctx[x].min
      /\ v.eng = ctx[x].eng /\ v.quit = ctx[x].quit /\ v.s = ctx[x].s
      /\ v.cs = ctx[x].cs /\ v.sent = ctx[x].sent /\ v.i = ctx[x].i /\ v.apart = ctx[x].apart
  BY <1>1 DEF CtxSet
<1>3. ctx' = [ctx EXCEPT ![x] = v]
  OBVIOUS
<1> HIDE DEF v
<1>4. ctx'[x] = v /\ Others(x)
  BY <1>3, CtxFacts
<1> QED BY <1>2, <1>4 DEF Kept1, Load1

LEMMA FlagFacts ==
  ASSUME Types, NEW x \in Ctxs, Flag(x)
  PROVE  /\ Others(x) /\ ctx[x].pc = "flag" /\ ctx'[x].pc = "scan" /\ Kept1(x) /\ Load1(x)
         /\ ctx'[x].i = ctx[x].i + 1 /\ ctx'[x].apart = ctx[x].apart
<1> DEFINE v == [ctx[x] EXCEPT !.pc = "scan", !.i = @ + 1, !.at = 0]
<1>1. ctx[x] \in CtxSet
  BY DEF Types
<1>2. /\ v.pc = "scan" /\ v.mode = ctx[x].mode /\ v.n = ctx[x].n /\ v.min = ctx[x].min
      /\ v.eng = ctx[x].eng /\ v.quit = ctx[x].quit /\ v.s = ctx[x].s
      /\ v.cs = ctx[x].cs /\ v.sent = ctx[x].sent /\ v.i = ctx[x].i + 1
      /\ v.apart = ctx[x].apart
  BY <1>1 DEF CtxSet
<1>3. ctx' = [ctx EXCEPT ![x] = v] /\ ctx[x].pc = "flag"
  BY DEF Flag
<1> HIDE DEF v
<1>4. ctx'[x] = v /\ Others(x)
  BY <1>3, CtxFacts
<1> QED BY <1>2, <1>3, <1>4 DEF Kept1, Load1

LEMMA RetryFacts ==
  ASSUME Types, NEW x \in Ctxs, Retry(x)
  PROVE  /\ Others(x) /\ ctx[x].pc = "retry" /\ ctx'[x].pc = "scan" /\ Kept1(x) /\ Load1(x)
         /\ ctx'[x].i = 1
<1> DEFINE v == [ctx[x] EXCEPT !.pc = "scan", !.i = 1, !.at = 0, !.apart = FALSE]
<1>1. ctx[x] \in CtxSet
  BY DEF Types
<1>2. /\ v.pc = "scan" /\ v.mode = ctx[x].mode /\ v.n = ctx[x].n /\ v.min = ctx[x].min
      /\ v.eng = ctx[x].eng /\ v.quit = ctx[x].quit /\ v.s = ctx[x].s
      /\ v.cs = ctx[x].cs /\ v.sent = ctx[x].sent /\ v.i = 1
  BY <1>1 DEF CtxSet
<1>3. ctx' = [ctx EXCEPT ![x] = v] /\ ctx[x].pc = "retry"
  BY DEF Retry
<1> HIDE DEF v
<1>4. ctx'[x] = v /\ Others(x)
  BY <1>3, CtxFacts
<1> QED BY <1>2, <1>3, <1>4 DEF Kept1, Load1

LEMMA ReadAckFacts ==
  ASSUME Types, NEW x \in Ctxs, ReadAck(x)
  PROVE  /\ Others(x) /\ ctx[x].pc = "idle" /\ ctx'[x].quit = ctx[x].quit
         /\ ctx'[x] = ctx[x] \/ (ctx'[x].pc = "retry" /\ Empty1(x))
<1>1. CASE ctx' = ctx
  BY <1>1 DEF ReadAck, Others
<1>2. ASSUME NEW e \in Engines, ctx' = [ctx EXCEPT ![x] =
               [Back(x) EXCEPT !.pc = "retry", !.mode = "nb", !.min = 0, !.eng = e]]
      PROVE  /\ Others(x) /\ ctx[x].pc = "idle" /\ ctx'[x].quit = ctx[x].quit
             /\ ctx'[x].pc = "retry" /\ Empty1(x)
  <2> DEFINE v == [Back(x) EXCEPT !.pc = "retry", !.mode = "nb", !.min = 0, !.eng = e]
  <2>1. Back(x) \in CtxSet
    BY BackType
  <2>2. v.pc = "retry" /\ v.n = 1 /\ v.cs = {} /\ v.sent = {} /\ v.quit = ctx[x].quit
    BY <2>1, BackFacts DEF CtxSet
  <2>3. ctx' = [ctx EXCEPT ![x] = v]
    BY <1>2
  <2> HIDE DEF v
  <2>4. ctx'[x] = v /\ Others(x)
    BY <2>3, CtxFacts
  <2> QED BY <2>2, <2>4, BackFacts DEF Empty1, ReadAck
<1> QED BY <1>1, <1>2 DEF ReadAck

LEMMA QuitFacts ==
  ASSUME Types, NEW x \in Ctxs, WaitQuit(x) \/ ReadQuit(x)
  PROVE  /\ Others(x) /\ ctx[x].pc \in {"idle", "wait"} /\ ctx'[x].pc = "idle"
         /\ ctx'[x].quit
         /\ (Load1(x) /\ ctx'[x].n = ctx[x].n /\ ctx[x].pc = "idle") \/ Empty1(x)
<1>1. CASE WaitQuit(x)
  <2> DEFINE v == [Back(x) EXCEPT !.quit = TRUE]
  <2>1. Back(x) \in CtxSet
    BY BackType
  <2>2. v.pc = "idle" /\ v.n = 1 /\ v.cs = {} /\ v.sent = {}
    BY <2>1, BackFacts DEF CtxSet
  <2>5. v.quit
    BY <2>1 DEF CtxSet
  <2>3. ctx' = [ctx EXCEPT ![x] = v] /\ ctx[x].pc = "wait"
    BY <1>1 DEF WaitQuit
  <2> HIDE DEF v
  <2>4. ctx'[x] = v /\ Others(x)
    BY <2>3, CtxFacts
  <2> QED BY <2>2, <2>3, <2>4, <2>5, BackFacts DEF Empty1
<1>2. CASE ReadQuit(x)
  <2> DEFINE v == [ctx[x] EXCEPT !.quit = TRUE]
  <2>1. ctx[x] \in CtxSet
    BY DEF Types
  <2>2. v.pc = ctx[x].pc /\ v.n = ctx[x].n /\ v.cs = ctx[x].cs /\ v.sent = ctx[x].sent
        /\ v.s = ctx[x].s
    BY <2>1 DEF CtxSet
  <2>5. v.quit
    BY <2>1 DEF CtxSet
  <2>3. ctx' = [ctx EXCEPT ![x] = v] /\ ctx[x].pc = "idle"
    BY <1>2 DEF ReadQuit
  <2> HIDE DEF v
  <2>4. ctx'[x] = v /\ Others(x)
    BY <2>3, CtxFacts
  <2> QED BY <2>2, <2>3, <2>4, <2>5 DEF Load1
<1> QED BY <1>1, <1>2

LEMMA NewMmapFacts ==
  ASSUME Types, NEW x \in Ctxs, NewMmap(x)
  PROVE  /\ Others(x) /\ ctx[x].pc = "new" /\ ctx'[x].pc = "mmap" /\ Kept1(x)
         /\ ctx'[x].s = Len(segs) + 1 /\ ctx'[x].cs = 0..(ctx[x].n - 1)
         /\ ctx'[x].sent = ctx[x].sent
<1> DEFINE v == [ctx[x] EXCEPT !.pc = "mmap", !.s = Len(segs) + 1, !.cs = 0..(ctx[x].n - 1)]
<1>1. ctx[x] \in CtxSet
  BY DEF Types
<1>2. /\ v.pc = "mmap" /\ v.mode = ctx[x].mode /\ v.n = ctx[x].n /\ v.min = ctx[x].min
      /\ v.eng = ctx[x].eng /\ v.quit = ctx[x].quit /\ v.s = Len(segs) + 1
      /\ v.cs = 0..(ctx[x].n - 1) /\ v.sent = ctx[x].sent
  BY <1>1 DEF CtxSet
<1>3. ctx' = [ctx EXCEPT ![x] = v] /\ ctx[x].pc = "new"
  BY DEF NewMmap
<1> HIDE DEF v
<1>4. ctx'[x] = v /\ Others(x)
  BY <1>3, CtxFacts
<1> QED BY <1>2, <1>3, <1>4 DEF Kept1

LEMMA SendBufFacts ==
  ASSUME Types, NEW x \in Ctxs, NEW b, NEW m, SendBuf(x, b, m)
  PROVE  LET used == {c \in b.cs : c < Min(b.cs) + m}
         IN  /\ Others(x) /\ ctx[x].pc = "idle" /\ ctx'[x].pc = "count" /\ Kept1(x)
             /\ ctx'[x].s = b.s /\ ctx'[x].cs = b.cs \ used /\ ctx'[x].sent = used
<1> DEFINE used == {c \in b.cs : c < Min(b.cs) + m}
           v == [ctx[x] EXCEPT !.pc = "count", !.s = b.s, !.sent = used, !.cs = b.cs \ used]
<1>1. ctx[x] \in CtxSet
  BY DEF Types
<1>3. ctx' = [ctx EXCEPT ![x] = v] /\ ctx[x].pc = "idle"
  BY DEF SendBuf
<1> HIDE DEF used
<1>2. /\ v.pc = "count" /\ v.mode = ctx[x].mode /\ v.n = ctx[x].n /\ v.min = ctx[x].min
      /\ v.eng = ctx[x].eng /\ v.quit = ctx[x].quit /\ v.s = b.s
      /\ v.cs = b.cs \ used /\ v.sent = used
  BY <1>1 DEF CtxSet
<1> HIDE DEF v
<1>4. ctx'[x] = v /\ Others(x)
  BY <1>3, CtxFacts
<1> QED BY <1>2, <1>3, <1>4 DEF Kept1, used

LEMMA FreeBufFacts ==
  ASSUME Types, NEW x \in Ctxs, NEW b, FreeBuf(x, b)
  PROVE  /\ Others(x) /\ ctx[x].pc = "idle" /\ ctx'[x].pc = "drop" /\ Kept1(x)
         /\ ctx'[x].s = b.s /\ ctx'[x].cs = b.cs /\ ctx'[x].sent = ctx[x].sent
<1> DEFINE v == [ctx[x] EXCEPT !.pc = "drop", !.s = b.s, !.cs = b.cs]
<1>1. ctx[x] \in CtxSet
  BY DEF Types
<1>2. /\ v.pc = "drop" /\ v.mode = ctx[x].mode /\ v.n = ctx[x].n /\ v.min = ctx[x].min
      /\ v.eng = ctx[x].eng /\ v.quit = ctx[x].quit /\ v.s = b.s
      /\ v.cs = b.cs /\ v.sent = ctx[x].sent
  BY <1>1 DEF CtxSet
<1>3. ctx' = [ctx EXCEPT ![x] = v] /\ ctx[x].pc = "idle"
  BY DEF FreeBuf
<1> HIDE DEF v
<1>4. ctx'[x] = v /\ Others(x)
  BY <1>3, CtxFacts
<1> QED BY <1>2, <1>3, <1>4 DEF Kept1

LEMMA CountFacts ==
  ASSUME Types, NEW x \in Ctxs, Count(x)
  PROVE  /\ Others(x) /\ ctx[x].pc = "count" /\ ctx'[x].quit = ctx[x].quit
         /\ \/ ctx[x].cs = {} /\ ctx'[x].pc = "idle" /\ Empty1(x)
            \/ /\ ctx[x].cs # {} /\ ctx'[x].pc = "free" /\ ctx'[x].n = ctx[x].n
               /\ ctx'[x].s = ctx[x].s /\ ctx'[x].cs = ctx[x].cs /\ ctx'[x].sent = {}
<1>1. CASE ctx[x].cs = {}
  <2>1. ctx' = [ctx EXCEPT ![x] = Back(x)] /\ ctx[x].pc = "count"
    BY <1>1 DEF Count
  <2> QED BY <1>1, <2>1, ToBack
<1>2. CASE ctx[x].cs # {}
  <2> DEFINE v == [ctx[x] EXCEPT !.pc = "free", !.sent = {}]
  <2>1. ctx[x] \in CtxSet
    BY DEF Types
  <2>2. /\ v.pc = "free" /\ v.n = ctx[x].n /\ v.quit = ctx[x].quit /\ v.s = ctx[x].s
        /\ v.cs = ctx[x].cs /\ v.sent = {}
    BY <2>1 DEF CtxSet
  <2>3. ctx' = [ctx EXCEPT ![x] = v] /\ ctx[x].pc = "count"
    BY <1>2 DEF Count
  <2> HIDE DEF v
  <2>4. ctx'[x] = v /\ Others(x)
    BY <2>3, CtxFacts
  <2> QED BY <1>2, <2>2, <2>3, <2>4
<1> QED BY <1>1, <1>2

\* The other contexts keep what they have; those that wait may be set apart.
LEMMA ReleaseFacts ==
  ASSUME Types, NEW x \in Ctxs, Release(x)
  PROVE  /\ ctx[x].pc \in {"free", "drop"} /\ ctx'[x].pc = "count" /\ Kept1(x)
         /\ ctx'[x].s = ctx[x].s /\ ctx'[x].cs = {} /\ ctx'[x].sent = ctx[x].cs
         /\ \A y \in Ctxs \ {x} :
              /\ ctx'[y].pc = ctx[y].pc /\ ctx'[y].i = ctx[y].i /\ Kept1(y) /\ Load1(y)
              /\ ~ctx'[y].apart => /\ ~ctx[y].apart
                                   /\ ~(ctx[x].pc = "drop" /\ ctx[y].pc = "wait")
<1> DEFINE v == [ctx[x] EXCEPT !.pc = "count", !.sent = ctx[x].cs, !.cs = {}]
           a(y) == ctx[y].apart \/ (ctx[x].pc = "drop" /\ ctx[y].pc = "wait")
           w(y) == [ctx[y] EXCEPT !.apart = a(y)]
<1>1. \A y \in Ctxs : ctx[y] \in CtxSet
  BY DEF Types
<1>2. /\ v.pc = "count" /\ v.mode = ctx[x].mode /\ v.n = ctx[x].n /\ v.min = ctx[x].min
      /\ v.eng = ctx[x].eng /\ v.quit = ctx[x].quit /\ v.s = ctx[x].s
      /\ v.cs = {} /\ v.sent = ctx[x].cs
  BY <1>1 DEF CtxSet
<1>3. ctx' = [y \in Ctxs |-> IF y = x THEN v ELSE w(y)] /\ ctx[x].pc \in {"free", "drop"}
  BY DEF Release
<1>4. ASSUME NEW y \in Ctxs
      PROVE  /\ w(y).pc = ctx[y].pc /\ w(y).i = ctx[y].i /\ w(y).mode = ctx[y].mode
             /\ w(y).n = ctx[y].n /\ w(y).min = ctx[y].min
             /\ w(y).eng = ctx[y].eng /\ w(y).quit = ctx[y].quit
             /\ w(y).s = ctx[y].s /\ w(y).cs = ctx[y].cs /\ w(y).sent = ctx[y].sent
  <2> HIDE DEF a
  <2> QED BY <1>1 DEF CtxSet
<1>5. ASSUME NEW y \in Ctxs PROVE w(y).apart = a(y)
  <2>1. ctx[y] \in CtxSet
    BY <1>1
  <2> HIDE DEF a
  <2> QED BY <2>1, Zenon DEF CtxSet
<1>6. ASSUME NEW y \in Ctxs, ~w(y).apart
      PROVE  ~ctx[y].apart /\ ~(ctx[x].pc = "drop" /\ ctx[y].pc = "wait")
  <2>1. ~a(y)
    <3> HIDE DEF a, w
    <3> QED BY <1>5, <1>6
  <2> QED BY <2>1
<1> HIDE DEF v, w
<1>7. ctx'[x] = v /\ \A y \in Ctxs \ {x} : ctx'[y] = w(y)
  BY <1>3
<1> QED BY <1>2, <1>3, <1>4, <1>6, <1>7 DEF Kept1, Load1

LEMMA QuietCtx ==
  ASSUME MapInv, ChunkInv, NEW x \in Ctxs,
         \/ \E mode \in Modes, e \in Engines : \E want \in Wants(mode) : GetBuf(x, mode, want, e)
         \/ Flag(x) \/ ScanEnd(x) \/ Full(x) \/ SendOosm(x) \/ SendOosmFails(x)
         \/ WaitAck(x) \/ WaitQuit(x) \/ Retry(x) \/ NewMmapFails(x) \/ ReadAck(x)
         \/ ReadQuit(x) \/ SendMmapFails(x)
         \/ ScanPass(x) \/ ScanBusy(x) \/ ScanRunEnds(x) \/ ScanNext(x)
  PROVE  \A y \in Ctxs : SameLoad(y)
<1>1. SizeOf(x) /\ Types
  BY DEF ChunkInv, Sizes, MapInv
<1>2. Others(x) => \A y \in Ctxs \ {x} : SameLoad(y)
  BY DEF Others, SameLoad
<1>3. SUFFICES Others(x) /\ SameLoad(x)
  BY <1>2
<1>4. Load1(x) /\ ctx'[x].n = ctx[x].n /\ ctx[x].cs = {}
      /\ {ctx[x].pc, ctx'[x].pc} \subseteq Bare \cup {"scan"} => SameLoad(x)
  BY <1>1 DEF Load1, SameLoad, SizeOf, Bare
<1>5. Empty1(x) /\ ctx[x].pc \in Bare /\ ctx'[x].pc \in Bare \cup {"scan"} => SameLoad(x)
  BY <1>1 DEF Empty1, SameLoad, SizeOf, Bare
<1>0. ctx[x].pc \in Bare => ctx[x].cs = {}
  BY <1>1 DEF SizeOf
<1>6. ASSUME NEW mode \in Modes, NEW e \in Engines, NEW want \in Wants(mode),
             GetBuf(x, mode, want, e)
      PROVE  Others(x) /\ SameLoad(x)
  BY <1>1, <1>5, <1>6, GetBufFacts DEF Bare
<1>7. CASE Flag(x)
  BY <1>0, <1>1, <1>4, <1>7, FlagFacts DEF Bare, Kept1
<1>8. CASE ScanEnd(x)
  <2>1. /\ ctx[x].pc = "scan" /\ ctx[x].i > Len(segs)
        /\ \E p \in {"full", "new"} : ctx' = [ctx EXCEPT ![x].pc = p]
    BY <1>8 DEF ScanEnd
  <2>2. Len(segs) \in Nat /\ ctx[x].i \in Nat
    BY <1>1 DEF Types, CtxSet
  <2>3. ctx[x].cs = {}
    BY <1>1, <2>1, <2>2 DEF SizeOf, Seeking
  <2> QED BY <1>1, <1>4, <2>1, <2>3, PcFacts DEF Bare, Kept1
<1>9. CASE Full(x) \/ SendOosmFails(x) \/ NewMmapFails(x)
  <2>1. ctx[x].pc \in {"full", "new"} /\ \E a : Refused(x, a)
    BY <1>9 DEF Full, SendOosmFails, NewMmapFails
  <2> QED BY <1>1, <1>5, <2>1, RefusedFacts DEF Bare
<1>10. CASE SendOosm(x)
  <2>1. CASE ctx[x].mode = "nb"
    BY <1>1, <1>5, <1>10, <2>1, RefusedFacts DEF SendOosm, Bare
  <2>2. CASE ctx[x].mode # "nb"
    <3>1. ctx[x].pc = "full" /\ ctx' = [ctx EXCEPT ![x].pc = "wait"]
      BY <1>10, <2>2 DEF SendOosm
    <3>2. Others(x) /\ ctx'[x].pc = "wait" /\ Kept1(x) /\ Load1(x)
      BY <1>1, <3>1, PcFacts
    <3> QED BY <1>0, <1>4, <3>1, <3>2 DEF Bare, Kept1
  <2> QED BY <2>1, <2>2
<1>11. CASE WaitAck(x)
  <2>1. ctx[x].pc = "wait" /\ ctx' = [ctx EXCEPT ![x].pc = "retry"]
    BY <1>11 DEF WaitAck
  <2>2. Others(x) /\ ctx'[x].pc = "retry" /\ Kept1(x) /\ Load1(x)
    BY <1>1, <2>1, PcFacts
  <2> QED BY <1>0, <1>4, <2>1, <2>2 DEF Bare, Kept1
<1>12. CASE WaitQuit(x) \/ ReadQuit(x)
  BY <1>0, <1>1, <1>4, <1>5, <1>12, QuitFacts DEF Bare
<1>13. CASE Retry(x)
  BY <1>0, <1>1, <1>4, <1>13, RetryFacts DEF Bare, Kept1
<1>14. CASE ReadAck(x)
  <2>1. ctx'[x] = ctx[x] => SameLoad(x)
    BY DEF SameLoad
  <2> QED BY <1>1, <1>5, <1>14, <2>1, ReadAckFacts DEF Bare
<1>15. CASE SendMmapFails(x)
  <2>1. ctx[x].pc = "mmap" /\ ctx' = [ctx EXCEPT ![x].pc = "unsent"]
    BY <1>15 DEF SendMmapFails
  <2>2. /\ Others(x) /\ ctx'[x].pc = "unsent" /\ Kept1(x) /\ Load1(x)
    BY <1>1, <2>1, PcFacts
  <2> QED BY <2>1, <2>2 DEF SameLoad, Kept1, Load1, Seeking
<1>16. CASE ScanPass(x)
  <2>1. ctx[x].pc = "scan" /\ ~Usable(x, segs[ctx[x].i]) /\ Others(x) /\ ctx'[x].pc = "scan"
        /\ Kept1(x) /\ Load1(x)
    BY <1>1, <1>16, ScanPassFacts
  <2>2. ctx[x].cs = {}
    BY <1>1, <2>1 DEF SizeOf, Seeking
  <2> QED BY <1>4, <2>1, <2>2 DEF Kept1
<1>17. CASE ScanBusy(x)
  BY <1>1, <1>4, <1>17, ScanBusyFacts DEF Kept1
<1>18. CASE ScanNext(x)
  <2>1. /\ ctx[x].pc = "scan" /\ ctx[x].cs = {} /\ Others(x) /\ ctx'[x].pc \in {"scan", "flag"}
        /\ Kept1(x) /\ Load1(x)
    BY <1>1, <1>18, ScanNextFacts
  <2> QED BY <1>4, <2>1 DEF Kept1, Bare
<1>19. CASE ScanRunEnds(x)
  <2>1. /\ Others(x) /\ ctx[x].pc = "scan" /\ ctx[x].i \in 1..Len(segs)
        /\ Usable(x, segs[ctx[x].i]) /\ ctx[x].cs # {} /\ ctx'[x].cs = ctx[x].cs
        /\ ctx'[x].eng = ctx[x].eng
        /\ \/ /\ ctx'[x].pc = "got" /\ ctx'[x].sent = {} /\ ctx'[x].n = 1
              /\ ctx'[x].s = segs[ctx[x].i].id
           \/ /\ ctx'[x].pc = "undo" /\ ctx'[x].i = ctx[x].i /\ Kept1(x) /\ Load1(x)
    BY <1>1, <1>19, ScanRunEndsFacts
  <2>2. ctx[x].s = ctx[x].i /\ ctx[x].sent = {} /\ ctx[x].n \in 1..NChunks
    BY <1>1, <2>1 DEF SizeOf, Seeking
  <2>3. segs[ctx[x].i].id = ctx[x].i
    BY <2>1, UsableReady
  <2>4. 1 \in 1..NChunks
    BY <1>1, BackFacts
  <2> QED BY <2>1, <2>2, <2>3, <2>4 DEF SameLoad, Kept1, Load1
<1> QED BY <1>6, <1>7, <1>8, <1>9, <1>10, <1>11, <1>12, <1>13, <1>14, <1>15, <1>16, <1>17,
           <1>18, <1>19

LEMMA FlagFrees ==
  ASSUME Types, NEW i, NEW S \in BOOLEAN, segs' = [segs EXCEPT ![i].oosm = S]
  PROVE  SegsKept /\ \A n \in 1..Len(segs) : segs'[n].free = segs[n].free
<1>1. SegsKept
  BY FlagChange
<1>2. ASSUME NEW n \in 1..Len(segs) PROVE segs'[n].free = segs[n].free
  <2>1. segs[n] \in SegSet /\ n \in DOMAIN segs
    BY DEF Types
  <2>2. segs'[n] = segs[n] \/ segs'[n] = [segs[n] EXCEPT !.oosm = S]
    BY <2>1
  <2> QED BY <2>1, <2>2 DEF SegSet
<1> QED BY <1>1, <1>2

LEMMA UnmapFrees ==
  ASSUME Types, NEW x \in Ctxs, SendMmapFails(x)
  PROVE  SegsKept /\ \A n \in 1..Len(segs) : /\ segs'[n].free = segs[n].free
                                             /\ segs'[n].oosm = segs[n].oosm
<1> DEFINE w(n) == IF segs[n].id = ctx[x].s /\ segs[n].thr = x
                   THEN [segs[n] EXCEPT !.live = FALSE] ELSE segs[n]
<1>1. DOMAIN segs = 1..Len(segs) /\ Len(segs) \in Nat /\ \A n \in 1..Len(segs) : segs[n] \in SegSet
  BY DEF Types
<1>2. segs' = [n \in 1..Len(segs) |-> w(n)]
  BY <1>1 DEF SendMmapFails
<1>3. ASSUME NEW n \in 1..Len(segs)
      PROVE  /\ w(n).free = segs[n].free /\ w(n).oosm = segs[n].oosm /\ w(n).id = segs[n].id
             /\ w(n).over = segs[n].over /\ w(n).thr = segs[n].thr /\ w(n) \in SegSet
  BY <1>1 DEF SegSet
<1> HIDE DEF w
<1>4. segs' \in Seq(SegSet) /\ Len(segs') = Len(segs)
  BY <1>1, <1>2, <1>3
<1>5. \A n \in 1..Len(segs) : segs'[n] = w(n)
  BY <1>2
<1> QED BY <1>3, <1>4, <1>5 DEF SegsKept

LEMMA QuietSteps ==
  ASSUME MapInv, MapInv', ChunkInv, NEW x \in Ctxs,
         \/ Starts(x)
         \/ Flag(x) \/ ScanEnd(x) \/ Full(x) \/ SendOosm(x) \/ SendOosmFails(x)
         \/ WaitAck(x) \/ WaitQuit(x) \/ Retry(x) \/ NewMmapFails(x) \/ ReadAck(x)
         \/ ReadQuit(x) \/ SendMmapFails(x)
         \/ ScanPass(x) \/ ScanBusy(x) \/ ScanRunEnds(x) \/ ScanNext(x)
  PROVE  ChunkInv'
<1>1. \A y \in Ctxs : SameLoad(y)
  BY QuietCtx DEF Starts
<1>2. Types
  BY DEF MapInv
<1>3. segs' = segs => SegsKept /\ \A n \in 1..Len(segs) : segs'[n].free = segs[n].free
  BY DEF SegsKept
<1>4. SegsKept /\ \A n \in 1..Len(segs) : segs'[n].free = segs[n].free
  <2>1. CASE Flag(x)
    <3>1. segs' = [segs EXCEPT ![ctx[x].i].oosm = TRUE]
      BY <2>1 DEF Flag
    <3> QED BY <1>2, <3>1, FlagFrees
  <2>2. CASE SendMmapFails(x)
    BY <1>2, <2>2, UnmapFrees
  <2>4. CASE ~Flag(x) /\ ~SendMmapFails(x)
    <3>1. segs' = segs
      BY <2>4 DEF Starts, GetBuf, ScanEnd, Full, SendOosm, SendOosmFails, WaitAck,
            WaitQuit, Retry, NewMmapFails, ReadAck, ReadQuit, ScanPass, ScanBusy,
            ScanRunEnds, ScanNext
    <3> QED BY <1>3, <3>1
  <2> QED BY <2>1, <2>2, <2>4
<1>5. bufs' = bufs /\ chan' = chan /\ rbufs' = rbufs /\ alloc' = alloc
  BY DEF Starts, GetBuf, Flag, ScanEnd, Full, SendOosm, SendOosmFails, WaitAck,
         WaitQuit, Retry, NewMmapFails, ReadAck, ReadQuit, SendMmapFails, ScanPass, ScanBusy,
         ScanRunEnds, ScanNext, router
<1> QED BY <1>1, <1>4, <1>5, Quiet

LEMMA QuietRouter ==
  ASSUME MapInv, MapInv', ChunkInv,
         \/ \E s \in Segs : CompleteAck(s)
         \/ Broadcast \/ OosmHandler \/ (\E x \in Ctxs : Quit(x)) \/ UNCHANGED vars
  PROVE  ChunkInv'
<1>1. ctx' = ctx /\ bufs' = bufs /\ chan' = chan /\ rbufs' = rbufs /\ alloc' = alloc
  BY DEF CompleteAck, Broadcast, OosmHandler, Quit, vars, router
<1>2. \A x \in Ctxs : SameLoad(x)
  BY <1>1 DEF SameLoad
<1>3. SegsKept /\ \A n \in 1..Len(segs) : segs'[n].free = segs[n].free
  <2>1. CASE segs' = segs
    BY <2>1 DEF SegsKept
  <2>2. ASSUME NEW s \in Segs, CompleteAck(s)
        PROVE  SegsKept /\ \A n \in 1..Len(segs) : segs'[n].free = segs[n].free
    <3>1. segs' = [segs EXCEPT ![s].oosm = FALSE]
      BY <2>2 DEF CompleteAck
    <3> QED BY <3>1, FlagFrees DEF MapInv
  <2> QED BY <2>1, <2>2 DEF Broadcast, OosmHandler, Quit, vars, router
<1> QED BY <1>1, <1>2, <1>3, Quiet

-----------------------------------------------------------------------------
(* Steps that move chunks.                                                 *)

LEMMA OldOwner ==
  ASSUME MapInv, ChunkInv, NEW n \in 1..Len(segs), NEW c \in Chunks
  PROVE  OneHolder(bufs, ctx, chan, rbufs, segs, n, c)
BY OwnedIs DEF ChunkInv, MapInv, OwnedAll

LEMMA NewOwners ==
  ASSUME MapInv', \A n \in 1..Len(segs'), c \in Chunks :
                    OneHolder(bufs', ctx', chan', rbufs', segs', n, c)
  PROVE  Owned'
<1>1. OwnedAll'
  BY DEF OwnedAll
<1> QED BY <1>1, OwnedNext DEF MapInv

LEMMA SizesOthers ==
  ASSUME MapInv, Sizes, MapInv', NEW x \in Ctxs, SizeOf(x)', SegsGrow,
         \A y \in Ctxs \ {x} : SameLoad(y) /\ bufs'[y] = bufs[y],
         \A n \in 1..Len(segs') : segs'[n].free \subseteq Chunks,
         ChanSizes', RouterSizes'
  PROVE  Sizes'
<1>0. Len(segs') \in Nat
  BY DEF MapInv, Types
<1>1. ASSUME NEW y \in Ctxs \ {x} PROVE SizeOf(y)'
  BY <1>0, SizeOfKept
<1>2. \A y \in Ctxs : SizeOf(y)'
  BY <1>1
<1> QED BY <1>2 DEF Sizes

LEMMA RouterSizesKept ==
  ASSUME MapInv, MapInv', Sizes, SegsGrow, rbufs' \subseteq rbufs
  PROVE  RouterSizes'
<1>1. Len(segs) \in Nat /\ Len(segs') \in Nat
  BY DEF MapInv, Types
<1> QED BY <1>1 DEF Sizes, RouterSizes, SegsGrow

LEMMA FreeFacts ==
  ASSUME Types, NEW i \in 1..Len(segs), NEW F, segs' = [segs EXCEPT ![i].free = F]
  PROVE  /\ Len(segs') = Len(segs)
         /\ \A n \in 1..Len(segs) :
              /\ segs'[n].free = IF n = i THEN F ELSE segs[n].free
              /\ segs'[n].oosm = segs[n].oosm /\ segs'[n].over = segs[n].over
              /\ segs'[n].thr = segs[n].thr /\ segs'[n].id = segs[n].id
<1>1. Len(segs) \in Nat /\ DOMAIN segs = 1..Len(segs)
      /\ \A n \in 1..Len(segs) : segs[n] \in SegSet
  BY DEF Types
<1> DEFINE v == [segs[i] EXCEPT !.free = F]
<1>2. /\ v.free = F /\ v.oosm = segs[i].oosm /\ v.over = segs[i].over
      /\ v.thr = segs[i].thr /\ v.id = segs[i].id
  BY <1>1 DEF SegSet
<1>3. segs' = [segs EXCEPT ![i] = v]
  OBVIOUS
<1> HIDE DEF v
<1>4. DOMAIN segs' = 1..Len(segs) /\ \A n \in 1..Len(segs) : segs'[n] = IF n = i THEN v ELSE segs[n]
  BY <1>1, <1>3
<1>5. Len(segs') = Len(segs)
  BY <1>1, <1>3, <1>4
<1> QED BY <1>2, <1>4, <1>5

\* A context without chunks holds none.
LEMMA NoneHeld ==
  ASSUME NEW x \in Ctxs, ctx[x].cs = {}, NEW n, NEW c
  PROVE  ~InContext(ctx, <<"context", x>>, n, c)
<1>1. \A y \in Ctxs : <<"context", y>> = <<"context", x>> => y = x
  OBVIOUS
<1> QED BY <1>1 DEF InContext

\* The chunks C of segment s come onto or off the account of x.
LEMMA DueMoves ==
  ASSUME NEW x \in Ctxs, NEW s, NEW C \in SUBSET Chunks, C # {} => s \in Segs
  PROVE  /\ /\ \A y \in Ctxs, t \in Segs, c \in Chunks :
                 InDue(bufs', ctx', y, t, c)
                   <=> InDue(bufs, ctx, y, t, c) \/ (y = x /\ t = s /\ c \in C)
            /\ \A c \in C : ~InDue(bufs, ctx, x, s, c)
            => Cardinality(Due') = Cardinality(Due) + Cardinality(C)
         /\ /\ \A y \in Ctxs, t \in Segs, c \in Chunks :
                 InDue(bufs', ctx', y, t, c)
                   <=> InDue(bufs, ctx, y, t, c) /\ ~(y = x /\ t = s /\ c \in C)
            /\ \A c \in C : InDue(bufs, ctx, x, s, c)
            => Cardinality(Due') = Cardinality(Due) - Cardinality(C)
<1> DEFINE T == {x} \X ({s} \X C)
<1>1. IsFiniteSet(Due) /\ IsFiniteSet(C) /\ Cardinality(Due) \in Nat /\ Cardinality(C) \in Nat
  <2>1. IsFiniteSet(C)
    BY DueFinite, FS_Subset
  <2> QED BY <2>1, DueFinite, FS_CardinalityType
<1>2. IsFiniteSet(T) /\ Cardinality(T) = Cardinality(C)
  <2>1. /\ IsFiniteSet({x}) /\ Cardinality({x}) = 1
        /\ IsFiniteSet({s}) /\ Cardinality({s}) = 1
    BY FS_Singleton
  <2> DEFINE U == {s} \X C
  <2>2. IsFiniteSet(U) /\ Cardinality(U) = 1 * Cardinality(C)
    BY <1>1, <2>1, FS_Product
  <2>3. IsFiniteSet(U) /\ Cardinality(U) = Cardinality(C)
    BY <1>1, <2>2
  <2> HIDE DEF U
  <2>4. IsFiniteSet({x} \X U) /\ Cardinality({x} \X U) = 1 * Cardinality(U)
    BY <2>1, <2>3, FS_Product
  <2> QED BY <1>1, <2>3, <2>4 DEF U
<1>3. /\ Due = {p \in Ctxs \X (Segs \X Chunks) : InDue(bufs, ctx, p[1], p[2][1], p[2][2])}
      /\ Due' = {p \in Ctxs \X (Segs \X Chunks) : InDue(bufs', ctx', p[1], p[2][1], p[2][2])}
  BY DEF Due, InDue
<1>4. T \subseteq Ctxs \X (Segs \X Chunks)
  OBVIOUS
<1>5. ASSUME NEW p \in Ctxs \X (Segs \X Chunks)
      PROVE  /\ p[1] \in Ctxs /\ p[2][1] \in Segs /\ p[2][2] \in Chunks
             /\ p \in T <=> p[1] = x /\ p[2][1] = s /\ p[2][2] \in C
  OBVIOUS
<1> HIDE DEF T
<1>6. ASSUME \A y \in Ctxs, t \in Segs, c \in Chunks :
               InDue(bufs', ctx', y, t, c)
                 <=> InDue(bufs, ctx, y, t, c) \/ (y = x /\ t = s /\ c \in C),
             \A c \in C : ~InDue(bufs, ctx, x, s, c)
      PROVE  Cardinality(Due') = Cardinality(Due) + Cardinality(C)
  <2>1. \A p \in Ctxs \X (Segs \X Chunks) : p \in Due' <=> p \in Due \/ p \in T
    BY <1>3, <1>5, <1>6
  <2>2. Due' = Due \cup T
    BY <1>3, <1>4, <2>1
  <2>3. Due \cap T = {}
    BY <1>3, <1>5, <1>6
  <2>4. Cardinality(Due \cap T) = 0
    BY <2>3, FS_EmptySet
  <2>5. Cardinality(Due \cup T) = Cardinality(Due) + Cardinality(T) - Cardinality(Due \cap T)
    BY <1>1, <1>2, FS_Union
  <2> QED BY <1>1, <1>2, <2>2, <2>4, <2>5
<1>7. ASSUME \A y \in Ctxs, t \in Segs, c \in Chunks :
               InDue(bufs', ctx', y, t, c)
                 <=> InDue(bufs, ctx, y, t, c) /\ ~(y = x /\ t = s /\ c \in C),
             \A c \in C : InDue(bufs, ctx, x, s, c)
      PROVE  Cardinality(Due') = Cardinality(Due) - Cardinality(C)
  <2>1. \A p \in Ctxs \X (Segs \X Chunks) : p \in Due' <=> p \in Due /\ p \notin T
    BY <1>3, <1>5, <1>7
  <2>2. Due' = Due \ T
    BY <1>3, <2>1
  <2>3. Due \cap T = T
    BY <1>3, <1>4, <1>5, <1>7
  <2>4. Cardinality(Due \ T) = Cardinality(Due) - Cardinality(Due \cap T)
    BY <1>1, FS_Difference
  <2> QED BY <1>2, <2>2, <2>3, <2>4
<1> QED BY <1>6, <1>7

\* Nobody holds chunks of a segment that is not there.
LEMMA NobodyBeyond ==
  ASSUME MapInv, Sizes, NEW n, n \notin 1..Len(segs), NEW c, NEW g
  PROVE  /\ ~InBuffer(bufs, g, n, c) /\ ~InContext(ctx, g, n, c)
         /\ ~InMessage(chan, g, n, c) /\ ~InRouter(rbufs, g, n, c)
<1>1. ~InBuffer(bufs, g, n, c)
  BY DEF InBuffer, MapInv, Links, UsersLinked, Ready
<1>2. ~InContext(ctx, g, n, c)
  BY DEF InContext, Sizes, SizeOf
<1>3. ~InMessage(chan, g, n, c)
  BY DEF InMessage, MapInv, Links, MsgsLinked
<1>4. ~InRouter(rbufs, g, n, c)
  BY DEF InRouter, Sizes, RouterSizes
<1> QED BY <1>1, <1>2, <1>3, <1>4

LEMMA NewMmapChunks ==
  ASSUME MapInv, MapInv', ChunkInv, NEW x \in Ctxs, NewMmap(x)
  PROVE  ChunkInv'
<1> DEFINE l == Len(segs)
           C == 0..(ctx[x].n - 1)
           v == [id |-> l + 1, over |-> ctx[x].eng, thr |-> x, oosm |-> FALSE,
                 free |-> Chunks \ C, live |-> TRUE]
<1>1. /\ Others(x) /\ ctx[x].pc = "new" /\ ctx'[x].pc = "mmap" /\ Kept1(x)
      /\ ctx'[x].s = l + 1 /\ ctx'[x].cs = C /\ ctx'[x].sent = ctx[x].sent
  BY NewMmapFacts DEF MapInv
<1>2. bufs' = bufs /\ chan' = chan /\ rbufs' = rbufs /\ alloc' = alloc
  BY DEF NewMmap, router
<1>3. /\ SizeOf(x) /\ ctx[x].cs = {} /\ ctx[x].sent = {} /\ l \in Nat
      /\ ctx[x].n \in 1..NChunks /\ NChunks \in Nat
  <2>1. SizeOf(x)
    BY DEF ChunkInv, Sizes
  <2>2. l \in Nat /\ NChunks \in Nat
    BY UnitShmAssumption DEF MapInv, Types
  <2> QED BY <1>1, <2>1, <2>2 DEF SizeOf, Bare
<1>4. C \subseteq Chunks /\ C # {}
  BY <1>3 DEF Chunks
<1>5. segs' = Append(segs, v) /\ segs \in Seq(SegSet)
  BY DEF NewMmap, MapInv, Types
<1>6. v.free = Chunks \ C /\ v.thr = x
  OBVIOUS
<1> HIDE DEF v
<1>7. Len(segs') = l + 1 /\ segs'[l + 1] = v /\ \A n \in 1..l : segs'[n] = segs[n]
  BY <1>3, <1>5
<1> HIDE DEF C
<1>8. \A y \in Ctxs \ {x} : SameLoad(y) /\ bufs'[y] = bufs[y]
  BY <1>1, <1>2 DEF Others, SameLoad
<1>9. SizeOf(x)'
  <2>1. l + 1 \in 1..Len(segs') /\ segs'[l + 1].thr = x
    BY <1>3, <1>6, <1>7
  <2>2. ctx'[x].n \in 1..NChunks /\ \A b \in bufs'[x] : b.cs \subseteq Chunks /\ b.cs # {}
    BY <1>1, <1>2, <1>3 DEF SizeOf, Kept1
  <2> QED BY <1>1, <1>3, <1>4, <2>1, <2>2 DEF SizeOf, Bare, Seeking
<1>10. SegsGrow
  BY <1>3, <1>7 DEF SegsGrow
<1>11. Sizes'
  <2>1. \A n \in 1..Len(segs') : segs'[n].free \subseteq Chunks
    <3>1. \A n \in 1..(l + 1) : n = l + 1 \/ n \in 1..l
      BY <1>3
    <3> QED BY <1>6, <1>7, <3>1 DEF ChunkInv, Sizes
  <2>2. ChanSizes'
    BY <1>2 DEF ChunkInv, Sizes, ChanSizes
  <2>3. RouterSizes'
    BY <1>2, <1>10, RouterSizesKept DEF ChunkInv
  <2> QED BY <1>8, <1>9, <1>10, <2>1, <2>2, <2>3, SizesOthers DEF ChunkInv
<1>12. SentApart'
  BY <1>1, <1>2, <1>3 DEF ChunkInv, SentApart, Others
<1>13. Due' = Due
  <2>1. ASSUME NEW y \in Ctxs, NEW s \in Segs, NEW c \in Chunks
        PROVE  InDue(bufs', ctx', y, s, c) <=> InDue(bufs, ctx, y, s, c)
    BY <1>1, <1>2 DEF InDue, Others
  <2> QED BY <2>1, DueKept
<1>14. ASSUME NEW n \in 1..Len(segs'), NEW c \in Chunks
       PROVE  OneHolder(bufs', ctx', chan', rbufs', segs', n, c)
  <2> DEFINE d == <<"context", x>>
  <2>2. \A g : InContext(ctx', g, n, c) <=>
                 \/ g = d /\ l + 1 = n /\ c \in C
                 \/ g # d /\ InContext(ctx, g, n, c)
    <3>1. \A y \in Ctxs \ {x} : ctx'[y].s = ctx[y].s /\ ctx'[y].cs = ctx[y].cs
      BY <1>1 DEF Others
    <3> QED BY <1>1, <3>1, ContextChange
  <2>3. ~InContext(ctx, d, n, c)
    BY <1>3, NoneHeld
  <2> HIDE DEF d
  <2>5. CASE n \in 1..l
    <3>1. OneHolder(bufs, ctx, chan, rbufs, segs, n, c) /\ n # l + 1
      BY <1>3, <2>5, OldOwner
    <3>2. \A g : InMap(segs', g, n, c) <=> InMap(segs, g, n, c)
      BY <1>7, <2>5 DEF InMap
    <3>3. \A g : Has(bufs', ctx', chan', rbufs', segs', g, n, c)
                   <=> Has(bufs, ctx, chan, rbufs, segs, g, n, c)
      BY <1>2, <2>2, <2>3, <3>1, <3>2 DEF Has
    <3> QED BY <3>1, <3>3, OneKept
  <2>6. CASE n = l + 1
    <3>1. n \notin 1..Len(segs)
      BY <1>3, <2>6
    <3>2. \A g : /\ ~InBuffer(bufs, g, n, c) /\ ~InContext(ctx, g, n, c)
                 /\ ~InMessage(chan, g, n, c) /\ ~InRouter(rbufs, g, n, c)
      BY <3>1, NobodyBeyond DEF ChunkInv
    <3>3. \A g : InMap(segs', g, n, c) <=> g = <<"free">> /\ c \notin C
      BY <1>6, <1>7, <2>6 DEF InMap
    <3>4. CASE c \in C
      <4>1. \A g : Has(bufs', ctx', chan', rbufs', segs', g, n, c) <=> g = d
        BY <1>2, <2>2, <2>6, <3>2, <3>3, <3>4 DEF Has
      <4>2. Has(bufs', ctx', chan', rbufs', segs', d, n, c)
        BY <4>1
      <4> QED BY <4>1, <4>2, OneIs
    <3>5. CASE c \notin C
      <4>1. \A g : Has(bufs', ctx', chan', rbufs', segs', g, n, c) <=> g = <<"free">>
        BY <1>2, <2>2, <2>6, <3>2, <3>3, <3>5 DEF Has
      <4>2. Has(bufs', ctx', chan', rbufs', segs', <<"free">>, n, c)
        BY <4>1
      <4> QED BY <4>1, <4>2, OneIs
    <3> QED BY <3>4, <3>5
  <2> QED BY <1>3, <1>7, <2>5, <2>6
<1>15. Owned'
  BY <1>14, NewOwners
<1> QED BY <1>2, <1>11, <1>12, <1>13, <1>15 DEF ChunkInv, Accounted

LEMMA OneOnly ==
  ASSUME MapInv, ChunkInv, NEW n \in 1..Len(segs), NEW c \in Chunks, NEW f, NEW g,
         Has(bufs, ctx, chan, rbufs, segs, f, n, c), Has(bufs, ctx, chan, rbufs, segs, g, n, c)
  PROVE  f = g
BY OldOwner DEF OneHolder

LEMMA ContextHas ==
  ASSUME NEW x \in Ctxs, NEW n, NEW c
  PROVE  InContext(ctx, <<"context", x>>, n, c) <=> ctx[x].s = n /\ c \in ctx[x].cs
<1>1. \A y \in Ctxs : <<"context", y>> = <<"context", x>> => y = x
  OBVIOUS
<1> QED BY <1>1 DEF InContext

LEMMA ContextMoves ==
  ASSUME NEW x \in Ctxs, NEW n, NEW c,
         \A y \in Ctxs \ {x} : ctx'[y].s = ctx[y].s /\ ctx'[y].cs = ctx[y].cs
  PROVE  \A g : InContext(ctx', g, n, c) <=>
                  \/ g = <<"context", x>> /\ ctx'[x].s = n /\ c \in ctx'[x].cs
                  \/ g # <<"context", x>> /\ InContext(ctx, g, n, c)
BY ContextChange

\* A message is added behind the others of o.
LEMMA MessageSent ==
  ASSUME Types, NEW o \in Engines, NEW m \in MsgSet,
         chan' = [chan EXCEPT ![o] = Append(@, m)]
  PROVE  /\ \A n, c, h :
              InMessage(chan', h, n, c) <=>
                \/ h = <<"message", o, Len(chan[o]) + 1>> /\ m.s = n /\ c \in m.cs
                \/ InMessage(chan, h, n, c)
         /\ ChanSizes /\ m.cs \subseteq Chunks /\ (m.kind = "data" <=> m.cs # {}) => ChanSizes'
<1>1. /\ Len(chan[o]) \in Nat /\ \A e \in Engines : Len(chan[e]) \in Nat
  BY DEF Types
<1>2. /\ \A e \in Engines :
              /\ Len(chan'[e]) = IF e = o THEN Len(chan[e]) + 1 ELSE Len(chan[e])
              /\ \A k \in 1..Len(chan[e]) : chan'[e][k] = chan[e][k]
      /\ chan'[o][Len(chan[o]) + 1] = m
  BY ChanGrows
<1>3. \A e \in Engines \ {o} : chan'[e] = chan[e]
  BY DEF Types
<1>4. ASSUME NEW n, NEW c, NEW h
      PROVE  InMessage(chan', h, n, c) <=>
                \/ h = <<"message", o, Len(chan[o]) + 1>> /\ m.s = n /\ c \in m.cs
                \/ InMessage(chan, h, n, c)
  <2>1. Len(chan'[o]) = Len(chan[o]) + 1 /\ \A k \in 1..Len(chan[o]) : chan'[o][k] = chan[o][k]
    BY <1>2
  <2>2. InMessage(chan', h, n, c) <=>
          \/ h = <<"message", o, Len(chan[o]) + 1>>
             /\ chan'[o][Len(chan[o]) + 1].s = n /\ c \in chan'[o][Len(chan[o]) + 1].cs
          \/ InMessage(chan, h, n, c)
    <3>1. OneMore(chan, chan', o)
      BY <1>1, <1>3, <2>1 DEF OneMore
    <3>2. PICK M2 : M2 = chan'
      OBVIOUS
    <3>3. PICK M : M = chan
      OBVIOUS
    <3>4. OneMore(M, M2, o)
      BY <3>1, <3>2, <3>3
    <3>5. InMessage(M2, h, n, c) <=>
            \/ h = <<"message", o, Len(M[o]) + 1>>
               /\ M2[o][Len(M[o]) + 1].s = n /\ c \in M2[o][Len(M[o]) + 1].cs
            \/ InMessage(M, h, n, c)
      BY <3>4, MessageAdded
    <3> QED BY <3>2, <3>3, <3>5
  <2> QED BY <1>2, <2>2
<1>5. ASSUME ChanSizes, m.cs \subseteq Chunks, m.kind = "data" <=> m.cs # {}
      PROVE  ChanSizes'
  <2> SUFFICES ASSUME NEW e \in Engines, NEW k \in 1..Len(chan'[e])
               PROVE  /\ chan'[e][k].cs \subseteq Chunks
                      /\ chan'[e][k].kind = "data" <=> chan'[e][k].cs # {}
    BY DEF ChanSizes
  <2>1. CASE k \in 1..Len(chan[e])
    <3>1. chan'[e][k] = chan[e][k]
      BY <1>2, <2>1
    <3> QED BY <1>5, <2>1, <3>1 DEF ChanSizes
  <2>2. CASE k \notin 1..Len(chan[e])
    <3>1. e = o /\ k = Len(chan[o]) + 1
      BY <1>1, <1>2, <2>2
    <3> QED BY <1>2, <1>5, <3>1
  <2> QED BY <2>1, <2>2
<1> QED BY <1>4, <1>5

\* The announcement holds no chunk.
LEMMA SendMmapChunks ==
  ASSUME MapInv, MapInv', ChunkInv, NEW x \in Ctxs, SendMmap(x)
  PROVE  ChunkInv'
<1> DEFINE m == [kind |-> "mmap", s |-> ctx[x].s, cs |-> {}]
           o == ctx[x].eng
<1>1. /\ ctx[x].pc = "mmap" /\ ctx' = [ctx EXCEPT ![x].pc = "sent"]
      /\ segs' = segs /\ bufs' = bufs /\ rbufs' = rbufs /\ alloc' = alloc
      /\ chan' = [chan EXCEPT ![o] = Append(@, m)]
  BY DEF SendMmap, router
<1>2. Others(x) /\ ctx'[x].pc = "sent" /\ Kept1(x) /\ Load1(x)
  BY <1>1, PcFacts DEF MapInv
<1>3. \A y \in Ctxs : SameLoad(y)
  BY <1>1, <1>2 DEF SameLoad, Others, Kept1, Load1
<1>4. m \in MsgSet /\ o \in Engines
  BY DEF MsgSet, MapInv, Types, CtxSet
<1>5. m.cs = {} /\ m.kind = "mmap"
  OBVIOUS
<1> HIDE DEF m
<1>6. \A n, c, h : InMessage(chan', h, n, c) <=> InMessage(chan, h, n, c)
  BY <1>1, <1>4, <1>5, MessageSent DEF MapInv
<1>7. ChanSizes'
  BY <1>1, <1>4, <1>5, MessageSent DEF MapInv, ChunkInv, Sizes
<1>8. /\ \A h, n, c : InContext(ctx', h, n, c) <=> InContext(ctx, h, n, c)
      /\ Due' = Due /\ SentApart'
  BY <1>1, <1>3, LoadKept DEF ChunkInv
<1>9. Sizes'
  <2>1. SegsGrow /\ RouterSizes'
    BY <1>1 DEF SegsGrow, MapInv, Types, ChunkInv, Sizes, RouterSizes
  <2>2. SizeOf(x)'
    <3>1. SizeOf(x)
      BY DEF ChunkInv, Sizes
    <3> QED BY <1>1, <1>2, <3>1 DEF SizeOf, Kept1, Load1, Bare, Seeking
  <2> QED BY <1>1, <1>3, <1>7, <2>1, <2>2, SizesOthers DEF ChunkInv, Sizes
<1>10. ASSUME NEW n \in 1..Len(segs'), NEW c \in Chunks
       PROVE  OneHolder(bufs', ctx', chan', rbufs', segs', n, c)
  <2>1. OneHolder(bufs, ctx, chan, rbufs, segs, n, c)
    BY <1>1, OldOwner
  <2>2. \A g : Has(bufs', ctx', chan', rbufs', segs', g, n, c)
                 <=> Has(bufs, ctx, chan, rbufs, segs, g, n, c)
    BY <1>1, <1>6, <1>8 DEF Has
  <2> QED BY <2>1, <2>2, OneKept
<1>11. Owned'
  BY <1>10, NewOwners
<1> QED BY <1>1, <1>8, <1>9, <1>11 DEF ChunkInv, Accounted

\* With one segment, nothing is left to hold.
LEMMA UnsentChunks ==
  ASSUME MapInv, MapInv', ChunkInv, NEW x \in Ctxs, Unsent(x)
  PROVE  ChunkInv'
<1>1. /\ ctx[x].pc = "unsent" /\ bufs' = bufs /\ chan' = chan /\ rbufs' = rbufs /\ alloc' = alloc
      /\ segs' = SubSeq(segs, 1, Len(segs) - 1) /\ segs \in Seq(SegSet) /\ Len(segs) \in Nat
      /\ Refused(x, "unasked")
  BY DEF Unsent, MapInv, Types, router
<1>2. Others(x) /\ ctx'[x].pc = "idle" /\ Empty1(x)
  BY <1>1, RefusedFacts DEF MapInv
<1>3. /\ Limit = 1 /\ ctx[x].s \in 1..Len(segs) /\ Len(segs) <= Limit
      /\ segs[ctx[x].s].over = ctx[x].eng /\ segs[ctx[x].s].thr = x
      /\ ctx[x].eng \in Engines
  BY <1>1 DEF MapInv, Locked, Links, MakersLinked, Making, Types, CtxSet
<1>4. Len(segs) = 1 /\ ctx[x].s = 1
  <2>1. ASSUME NEW l \in Nat, NEW i \in 1..l, l <= 1 PROVE l = 1 /\ i = 1
    BY <2>1
  <2> QED BY <1>1, <1>3, <2>1
<1>5. segs[1].over # Mapped /\ segs[1].thr = x
  BY <1>3, <1>4, UnitShmAssumption
<1>6. Len(segs') = 0
  BY <1>1, <1>4
<1>7. ASSUME NEW y \in Ctxs \ {x} PROVE SizeOf(y) /\ ctx[y].cs = {} /\ ctx'[y] = ctx[y]
  <2>1. SizeOf(y) /\ ctx'[y] = ctx[y]
    BY <1>2 DEF ChunkInv, Sizes, Others
  <2>2. ASSUME ctx[y].cs # {} PROVE FALSE
    <3>1. ctx[y].s = 1
      BY <1>4, <2>1, <2>2 DEF SizeOf
    <3> QED BY <1>5, <2>1, <2>2, <3>1 DEF SizeOf
  <2> QED BY <2>1, <2>2
<1>8. rbufs = {}
  <2> SUFFICES ASSUME NEW b \in rbufs PROVE FALSE
    OBVIOUS
  <2>1. b.s \in 1..Len(segs) /\ segs[b.s].over = Mapped
    BY DEF ChunkInv, Sizes, RouterSizes
  <2>2. b.s = 1
    BY <1>4, <2>1
  <2> QED BY <1>5, <2>1, <2>2
<1>9. SizeOf(x)
  BY DEF ChunkInv, Sizes
<1>10. Sizes'
  <2>1. SizeOf(x)'
    BY <1>1, <1>2, <1>9 DEF SizeOf, Empty1, Bare
  <2>2. \A y \in Ctxs \ {x} : SizeOf(y)'
    BY <1>1, <1>7 DEF SizeOf
  <2>3. ChanSizes' /\ RouterSizes'
    BY <1>1, <1>8 DEF ChunkInv, Sizes, ChanSizes, RouterSizes
  <2> QED BY <1>6, <2>1, <2>2, <2>3 DEF Sizes
<1>11. SentApart'
  BY <1>1, <1>2, <1>7 DEF ChunkInv, SentApart, Empty1
<1>12. Due' = Due
  <2>1. ASSUME NEW y \in Ctxs, NEW s \in Segs, NEW c \in Chunks
        PROVE  InDue(bufs', ctx', y, s, c) <=> InDue(bufs, ctx, y, s, c)
    BY <1>1, <1>2, <1>7 DEF InDue
  <2> QED BY <2>1, DueKept
<1>13. Owned'
  BY <1>6, NewOwners
<1> QED BY <1>1, <1>10, <1>11, <1>12, <1>13 DEF ChunkInv, Accounted

\* The chunks of the context become a buffer.
LEMMA GotChunks ==
  ASSUME MapInv, MapInv', ChunkInv, NEW x \in Ctxs, Got(x)
  PROVE  ChunkInv'
<1> DEFINE s == ctx[x].s
           C == ctx[x].cs
           b == [s |-> s, cs |-> C, eng |-> ctx[x].eng]
           f == <<"context", x>>
           d == <<"buffer", x, b>>
<1>1. /\ ctx[x].pc \in {"got", "sent"} /\ alloc' = alloc + Cardinality(C)
      /\ bufs' = [bufs EXCEPT ![x] = @ \cup {b}] /\ ctx' = [ctx EXCEPT ![x] = Back(x)]
      /\ segs' = segs /\ chan' = chan /\ rbufs' = rbufs
  BY DEF Got, router
<1>2. Others(x) /\ ctx'[x].pc = "idle" /\ Empty1(x)
  BY <1>1, ToBack DEF MapInv
<1>3. SizeOf(x)
  BY DEF ChunkInv, Sizes
<1>4. /\ C \subseteq Chunks /\ C # {} /\ ctx[x].sent = {} /\ s \in 1..Len(segs) /\ s \in Segs
  <2>1. C \subseteq Chunks /\ C # {} /\ ctx[x].sent = {} /\ s \in 1..Len(segs)
    BY <1>1, <1>3 DEF SizeOf, Bare
  <2>2. Len(segs) \in Nat /\ Len(segs) <= Limit /\ Limit \in Nat
    BY UnitShmAssumption DEF MapInv, Types, Locked
  <2> QED BY <2>1, <2>2 DEF Segs
<1>5. b.s = s /\ b.cs = C
  OBVIOUS
<1> HIDE DEF b
<1>6. bufs'[x] = bufs[x] \cup {b} /\ \A y \in Ctxs \ {x} : bufs'[y] = bufs[y]
  BY <1>1 DEF MapInv, Types
<1>7. \A y \in Ctxs \ {x} : SameLoad(y) /\ ctx'[y] = ctx[y]
  BY <1>2 DEF Others, SameLoad
<1>8. Sizes'
  <2>1. SizeOf(x)'
    BY <1>2, <1>3, <1>4, <1>5, <1>6 DEF SizeOf, Empty1, Bare
  <2>2. SegsGrow /\ RouterSizes' /\ ChanSizes'
    BY <1>1 DEF SegsGrow, MapInv, Types, ChunkInv, Sizes, RouterSizes, ChanSizes
  <2> QED BY <1>1, <1>6, <1>7, <2>1, <2>2, SizesOthers DEF ChunkInv, Sizes
<1>9. SentApart'
  BY <1>2, <1>6, <1>7 DEF ChunkInv, SentApart, Empty1
<1>10. Accounted'
  <2>1. ASSUME NEW c \in C PROVE ~InDue(bufs, ctx, x, s, c)
    <3>1. ctx[x].pc \notin {"count", "free", "drop"}
      BY <1>1
    <3>2. ASSUME NEW a \in bufs[x], a.s = s, c \in a.cs PROVE FALSE
      <4>1. Has(bufs, ctx, chan, rbufs, segs, <<"buffer", x, a>>, s, c)
        BY <3>2 DEF Has, InBuffer
      <4>2. Has(bufs, ctx, chan, rbufs, segs, f, s, c)
        BY ContextHas DEF Has
      <4>3. <<"buffer", x, a>> = f
        BY <1>4, <4>1, <4>2, OneOnly
      <4> QED BY <4>3
    <3> QED BY <3>1, <3>2 DEF InDue
  <2>2. ASSUME NEW y \in Ctxs, NEW t \in Segs, NEW c \in Chunks
        PROVE  InDue(bufs', ctx', y, t, c)
                 <=> InDue(bufs, ctx, y, t, c) \/ (y = x /\ t = s /\ c \in C)
    <3>1. CASE y # x
      BY <1>6, <1>7, <3>1 DEF InDue
    <3>2. CASE y = x
      BY <1>1, <1>2, <1>5, <1>6, <3>2 DEF InDue
    <3> QED BY <3>1, <3>2
  <2> HIDE DEF s, C
  <2>3. Cardinality(Due') = Cardinality(Due) + Cardinality(C)
    BY <1>4, <2>1, <2>2, DueMoves
  <2> QED BY <1>1, <2>3 DEF ChunkInv, Accounted
<1>11. ASSUME NEW n \in 1..Len(segs'), NEW c \in Chunks
       PROVE  OneHolder(bufs', ctx', chan', rbufs', segs', n, c)
  <2>1. OneHolder(bufs, ctx, chan, rbufs, segs, n, c)
    BY <1>1, OldOwner
  <2>2. \A g : InContext(ctx', g, n, c) <=> g # f /\ InContext(ctx, g, n, c)
    <3>1. \A y \in Ctxs \ {x} : ctx'[y].s = ctx[y].s /\ ctx'[y].cs = ctx[y].cs
      BY <1>7
    <3>2. \A g : InContext(ctx', g, n, c) <=>
                   \/ g = f /\ ctx'[x].s = n /\ c \in ctx'[x].cs
                   \/ g # f /\ InContext(ctx, g, n, c)
      BY <3>1, ContextMoves
    <3> QED BY <1>2, <3>2 DEF Empty1
  <2>3. InContext(ctx, f, n, c) <=> s = n /\ c \in C
    BY ContextHas
  <2>4. \A g : InBuffer(bufs', g, n, c)
                 <=> (g = d /\ s = n /\ c \in C) \/ InBuffer(bufs, g, n, c)
    <3>1. \A g : InBuffer(bufs', g, n, c)
                   <=> (g = d /\ b.s = n /\ c \in b.cs) \/ InBuffer(bufs, g, n, c)
      BY <1>6, BufferAdded
    <3> QED BY <1>5, <3>1
  <2>5. f[1] = "context"
    OBVIOUS
  <2> HIDE DEF d, f, s, C
  <2>6. CASE s = n /\ c \in C
    <3>1. Has(bufs, ctx, chan, rbufs, segs, f, n, c)
      BY <2>3, <2>6 DEF Has
    <3>2. \A g : Has(bufs', ctx', chan', rbufs', segs', g, n, c)
                   <=> g = d \/ (g # f /\ Has(bufs, ctx, chan, rbufs, segs, g, n, c))
      BY <1>1, <2>2, <2>4, <2>5, <2>6, Kinds DEF Has
    <3> QED BY <2>1, <3>1, <3>2, OneMoved
  <2>7. CASE ~(s = n /\ c \in C)
    <3>1. \A g : Has(bufs', ctx', chan', rbufs', segs', g, n, c)
                   <=> Has(bufs, ctx, chan, rbufs, segs, g, n, c)
      BY <1>1, <2>2, <2>3, <2>4, <2>7 DEF Has
    <3> QED BY <2>1, <3>1, OneKept
  <2> QED BY <2>6, <2>7
<1>12. Owned'
  BY <1>11, NewOwners
<1> QED BY <1>8, <1>9, <1>10, <1>12 DEF ChunkInv

LEMMA MapTypes == MapInv => /\ Len(segs) \in Nat /\ Len(segs) <= Limit /\ Limit \in Nat
                            /\ 1..Len(segs) \subseteq Segs
BY UnitShmAssumption DEF MapInv, Types, Locked, Segs

\* The buffer is in the hands of the context again.
LEMMA FreeBufChunks ==
  ASSUME MapInv, MapInv', ChunkInv, NEW x \in Ctxs, NEW b \in bufs[x], FreeBuf(x, b)
  PROVE  ChunkInv'
<1> DEFINE f == <<"buffer", x, b>>
           d == <<"context", x>>
<1>1. /\ alloc' = alloc /\ bufs' = [bufs EXCEPT ![x] = @ \ {b}]
      /\ segs' = segs /\ chan' = chan /\ rbufs' = rbufs
  BY DEF FreeBuf, router
<1>2. /\ Others(x) /\ ctx[x].pc = "idle" /\ ctx'[x].pc = "drop" /\ Kept1(x)
      /\ ctx'[x].s = b.s /\ ctx'[x].cs = b.cs /\ ctx'[x].sent = ctx[x].sent
  BY FreeBufFacts DEF MapInv
<1>3. SizeOf(x)
  BY DEF ChunkInv, Sizes
<1>4. /\ ctx[x].cs = {} /\ ctx[x].sent = {} /\ b.cs \subseteq Chunks /\ b.cs # {}
  BY <1>2, <1>3 DEF SizeOf, Bare
<1>5. b.s \in 1..Len(segs) /\ (segs[b.s].over = Mapped \/ segs[b.s].thr = x)
  BY DEF MapInv, Links, UsersLinked, Ready
<1>6. bufs'[x] = bufs[x] \ {b} /\ \A y \in Ctxs \ {x} : bufs'[y] = bufs[y]
  BY <1>1 DEF MapInv, Types
<1>7. \A y \in Ctxs \ {x} : SameLoad(y) /\ ctx'[y] = ctx[y]
  BY <1>2 DEF Others, SameLoad
<1>8. Sizes'
  <2>1. SizeOf(x)'
    <3>1. \A a \in bufs'[x] : a.cs \subseteq Chunks /\ a.cs # {}
      BY <1>3, <1>6 DEF SizeOf
    <3>2. ctx'[x].n \in 1..NChunks
      BY <1>2, <1>3 DEF SizeOf, Kept1
    <3> QED BY <1>1, <1>2, <1>4, <1>5, <3>1, <3>2 DEF SizeOf, Bare, Seeking
  <2>2. SegsGrow /\ RouterSizes' /\ ChanSizes'
    BY <1>1 DEF SegsGrow, MapInv, Types, ChunkInv, Sizes, RouterSizes, ChanSizes
  <2> QED BY <1>1, <1>6, <1>7, <2>1, <2>2, SizesOthers DEF ChunkInv, Sizes
<1>9. SentApart'
  BY <1>2, <1>4, <1>6, <1>7 DEF ChunkInv, SentApart
<1>10. ASSUME NEW n \in 1..Len(segs), NEW c \in Chunks, b.s = n, c \in b.cs
       PROVE  Has(bufs, ctx, chan, rbufs, segs, f, n, c)
  BY <1>10 DEF Has, InBuffer
<1>11. Due' = Due
  <2>1. ASSUME NEW y \in Ctxs, NEW t \in Segs, NEW c \in Chunks
        PROVE  InDue(bufs', ctx', y, t, c) <=> InDue(bufs, ctx, y, t, c)
    <3>1. CASE y # x
      BY <1>6, <1>7, <3>1 DEF InDue
    <3>2. CASE y = x
      BY <1>2, <1>4, <1>6, <3>2 DEF InDue
    <3> QED BY <3>1, <3>2
  <2> QED BY <2>1, DueKept
<1>12. ASSUME NEW n \in 1..Len(segs'), NEW c \in Chunks
       PROVE  OneHolder(bufs', ctx', chan', rbufs', segs', n, c)
  <2>1. OneHolder(bufs, ctx, chan, rbufs, segs, n, c)
    BY <1>1, OldOwner
  <2>2. \A g : InContext(ctx', g, n, c) <=>
                 (g = d /\ b.s = n /\ c \in b.cs) \/ (g # d /\ InContext(ctx, g, n, c))
    <3>1. \A y \in Ctxs \ {x} : ctx'[y].s = ctx[y].s /\ ctx'[y].cs = ctx[y].cs
      BY <1>7
    <3>2. \A g : InContext(ctx', g, n, c) <=>
                   \/ g = d /\ ctx'[x].s = n /\ c \in ctx'[x].cs
                   \/ g # d /\ InContext(ctx, g, n, c)
      BY <3>1, ContextMoves
    <3> QED BY <1>2, <3>2
  <2>3. ~InContext(ctx, d, n, c)
    BY <1>4, NoneHeld
  <2>4. \A g : InBuffer(bufs', g, n, c) <=> g # f /\ InBuffer(bufs, g, n, c)
    BY <1>6, BufferTaken
  <2>5. f[1] = "buffer" /\ (InBuffer(bufs, f, n, c) => b.s = n /\ c \in b.cs)
    <3>1. \A y, a : <<"buffer", y, a>> = f => a = b
      OBVIOUS
    <3> HIDE DEF d
    <3> QED BY <3>1 DEF InBuffer
  <2> HIDE DEF d, f
  <2>6. CASE b.s = n /\ c \in b.cs
    <3>1. Has(bufs, ctx, chan, rbufs, segs, f, n, c)
      BY <1>1, <1>10, <2>6
    <3>2. \A g : Has(bufs', ctx', chan', rbufs', segs', g, n, c)
                   <=> g = d \/ (g # f /\ Has(bufs, ctx, chan, rbufs, segs, g, n, c))
      BY <1>1, <2>2, <2>3, <2>4, <2>5, <2>6, Kinds DEF Has
    <3> QED BY <2>1, <3>1, <3>2, OneMoved
  <2>7. CASE ~(b.s = n /\ c \in b.cs)
    <3>1. \A g : Has(bufs', ctx', chan', rbufs', segs', g, n, c)
                   <=> Has(bufs, ctx, chan, rbufs, segs, g, n, c)
      BY <1>1, <2>2, <2>3, <2>4, <2>5, <2>7 DEF Has
    <3> QED BY <2>1, <3>1, OneKept
  <2> QED BY <2>6, <2>7
<1>13. Owned'
  BY <1>12, NewOwners
<1> QED BY <1>1, <1>8, <1>9, <1>11, <1>13 DEF ChunkInv, Accounted

LEMMA BufferHas ==
  ASSUME NEW x \in Ctxs, NEW b \in bufs[x], NEW n, NEW c
  PROVE  InBuffer(bufs, <<"buffer", x, b>>, n, c) <=> b.s = n /\ c \in b.cs
<1>1. \A y, a : <<"buffer", y, a>> = <<"buffer", x, b>> => a = b
  OBVIOUS
<1>2. ASSUME InBuffer(bufs, <<"buffer", x, b>>, n, c) PROVE b.s = n /\ c \in b.cs
  BY <1>1, <1>2 DEF InBuffer
<1>3. ASSUME b.s = n /\ c \in b.cs PROVE InBuffer(bufs, <<"buffer", x, b>>, n, c)
  BY <1>3 DEF InBuffer
<1> QED BY <1>2, <1>3

\* The first chunk of a buffer always goes.
LEMMA SomeUsed ==
  ASSUME NEW C \in SUBSET Chunks, C # {}, NEW m \in Nat \ {0}
  PROVE  {c \in C : c < Min(C) + m} # {}
<1>1. NChunks \in Nat
  BY UnitShmAssumption
<1>2. C \in SUBSET Nat
  BY <1>1 DEF Chunks
<1>3. \E k \in C : \A j \in C : k <= j
  BY <1>2, LeastNat
<1>4. Min(C) \in C
  BY <1>3 DEF Min
<1>5. Min(C) \in {c \in C : c < Min(C) + m}
  <2>1. PICK k : k = Min(C)
    OBVIOUS
  <2>3. k \in C
    BY <1>4, <2>1
  <2>4. k \in Nat
    BY <1>2, <2>3
  <2>2. k \in Nat /\ k < k + m
    BY <2>4
  <2> QED BY <1>4, <2>1, <2>2
<1> QED BY <1>5

\* A part of the buffer goes as a message, the rest is in the hands of the context.
LEMMA SendBufChunks ==
  ASSUME MapInv, MapInv', ChunkInv, NEW x \in Ctxs, NEW b \in bufs[x],
         NEW l \in 1..Cardinality(b.cs), SendBuf(x, b, l)
  PROVE  ChunkInv'
<1> DEFINE used == {c \in b.cs : c < Min(b.cs) + l}
           m == [kind |-> "data", s |-> b.s, cs |-> used]
           o == b.eng
           f == <<"buffer", x, b>>
           d == <<"context", x>>
           q == <<"message", o, Len(chan[o]) + 1>>
<1>1. /\ alloc' = alloc /\ bufs' = [bufs EXCEPT ![x] = @ \ {b}]
      /\ segs' = segs /\ rbufs' = rbufs /\ chan' = [chan EXCEPT ![o] = Append(@, m)]
  BY DEF SendBuf, router
<1>2. /\ Others(x) /\ ctx[x].pc = "idle" /\ ctx'[x].pc = "count" /\ Kept1(x)
      /\ ctx'[x].s = b.s /\ ctx'[x].cs = b.cs \ used /\ ctx'[x].sent = used
  BY SendBufFacts DEF MapInv
<1>3. SizeOf(x)
  BY DEF ChunkInv, Sizes
<1>4. /\ ctx[x].cs = {} /\ ctx[x].sent = {} /\ b.cs \subseteq Chunks /\ b.cs # {}
  BY <1>2, <1>3 DEF SizeOf, Bare
<1>5. /\ b.s \in 1..Len(segs) /\ (segs[b.s].over = Mapped \/ segs[b.s].thr = x)
      /\ b.s \in Segs
  BY MapTypes DEF MapInv, Links, UsersLinked, Ready
<1>6. used \subseteq b.cs /\ used # {}
  <2>1. l \in Nat \ {0}
    OBVIOUS
  <2> QED BY <1>4, <2>1, SomeUsed
<1> HIDE DEF used
<1>7. m \in MsgSet /\ o \in Engines
  <2>1. b \in BufSet
    BY DEF MapInv, Types
  <2>2. b.s \in Nat /\ b.cs \in SUBSET Int /\ b.eng \in Engines
    BY <2>1 DEF BufSet
  <2> QED BY <1>6, <2>2 DEF MsgSet
<1>8. m.s = b.s /\ m.cs = used /\ m.kind = "data"
  OBVIOUS
<1> HIDE DEF m
<1>9. /\ \A n, c, h :
           InMessage(chan', h, n, c) <=>
             (h = q /\ m.s = n /\ c \in m.cs) \/ InMessage(chan, h, n, c)
      /\ ChanSizes /\ m.cs \subseteq Chunks /\ (m.kind = "data" <=> m.cs # {}) => ChanSizes'
  BY <1>1, <1>7, MessageSent DEF MapInv
<1> HIDE DEF o
<1>10. bufs'[x] = bufs[x] \ {b} /\ \A y \in Ctxs \ {x} : bufs'[y] = bufs[y]
  BY <1>1 DEF MapInv, Types
<1>11. \A y \in Ctxs \ {x} : SameLoad(y) /\ ctx'[y] = ctx[y]
  BY <1>2 DEF Others, SameLoad
<1>12. Sizes'
  <2>1. SizeOf(x)'
    <3>1. \A a \in bufs'[x] : a.cs \subseteq Chunks /\ a.cs # {}
      BY <1>3, <1>10 DEF SizeOf
    <3>2. ctx'[x].n \in 1..NChunks
      BY <1>2, <1>3 DEF SizeOf, Kept1
    <3> QED BY <1>1, <1>2, <1>4, <1>5, <1>6, <3>1, <3>2 DEF SizeOf, Bare, Seeking
  <2>2. SegsGrow /\ RouterSizes'
    BY <1>1 DEF SegsGrow, MapInv, Types, ChunkInv, Sizes, RouterSizes
  <2>3. ChanSizes'
    BY <1>4, <1>6, <1>8, <1>9 DEF ChunkInv, Sizes
  <2> QED BY <1>1, <1>10, <1>11, <2>1, <2>2, <2>3, SizesOthers DEF ChunkInv, Sizes
<1>13. SentApart'
  <2>1. ASSUME NEW a \in bufs[x] \ {b}, a.s = b.s, NEW c \in a.cs, c \in used PROVE FALSE
    <3>1. InBuffer(bufs, <<"buffer", x, a>>, b.s, c) /\ InBuffer(bufs, f, b.s, c)
      BY <1>6, <2>1, BufferHas
    <3>2. <<"buffer", x, a>> = f
      BY <1>4, <1>5, <1>6, <2>1, <3>1, OneOnly DEF Has
    <3> QED BY <2>1, <3>2
  <2>2. \A a \in bufs'[x] : a.s = ctx'[x].s => a.cs \cap ctx'[x].sent = {}
    BY <1>2, <1>10, <2>1
  <2>3. ctx'[x].sent \cap ctx'[x].cs = {}
    BY <1>2
  <2> QED BY <1>10, <1>11, <2>2, <2>3 DEF ChunkInv, SentApart
<1>14. Due' = Due
  <2>1. ASSUME NEW y \in Ctxs, NEW t \in Segs, NEW c \in Chunks
        PROVE  InDue(bufs', ctx', y, t, c) <=> InDue(bufs, ctx, y, t, c)
    <3>1. CASE y # x
      BY <1>10, <1>11, <3>1 DEF InDue
    <3>2. CASE y = x
      BY <1>2, <1>4, <1>6, <1>10, <3>2 DEF InDue
    <3> QED BY <3>1, <3>2
  <2> QED BY <2>1, DueKept
<1>15. ASSUME NEW n \in 1..Len(segs'), NEW c \in Chunks
       PROVE  OneHolder(bufs', ctx', chan', rbufs', segs', n, c)
  <2>1. OneHolder(bufs, ctx, chan, rbufs, segs, n, c)
    BY <1>1, OldOwner
  <2>2. \A g : InContext(ctx', g, n, c) <=>
                 \/ g = d /\ b.s = n /\ c \in b.cs \ used
                 \/ g # d /\ InContext(ctx, g, n, c)
    <3>1. \A y \in Ctxs \ {x} : ctx'[y].s = ctx[y].s /\ ctx'[y].cs = ctx[y].cs
      BY <1>11
    <3>2. \A g : InContext(ctx', g, n, c) <=>
                   \/ g = d /\ ctx'[x].s = n /\ c \in ctx'[x].cs
                   \/ g # d /\ InContext(ctx, g, n, c)
      BY <3>1, ContextMoves
    <3> QED BY <1>2, <3>2
  <2>3. ~InContext(ctx, d, n, c)
    BY <1>4, NoneHeld
  <2>4. \A g : InBuffer(bufs', g, n, c) <=> g # f /\ InBuffer(bufs, g, n, c)
    BY <1>10, BufferTaken
  <2>5. f[1] = "buffer" /\ (InBuffer(bufs, f, n, c) <=> b.s = n /\ c \in b.cs)
    BY BufferHas
  <2>6. \A g : InMessage(chan', g, n, c)
                 <=> (g = q /\ b.s = n /\ c \in used) \/ InMessage(chan, g, n, c)
    BY <1>8, <1>9
  <2> HIDE DEF d, f, q
  <2>7. CASE b.s = n /\ c \in used
    <3>1. Has(bufs, ctx, chan, rbufs, segs, f, n, c)
      BY <1>6, <2>5, <2>7 DEF Has
    <3>2. \A g : Has(bufs', ctx', chan', rbufs', segs', g, n, c)
                   <=> g = q \/ (g # f /\ Has(bufs, ctx, chan, rbufs, segs, g, n, c))
      BY <1>1, <2>2, <2>3, <2>4, <2>5, <2>6, <2>7, Kinds DEF Has
    <3> QED BY <2>1, <3>1, <3>2, OneMoved
  <2>8. CASE b.s = n /\ c \in b.cs \ used
    <3>1. Has(bufs, ctx, chan, rbufs, segs, f, n, c)
      BY <2>5, <2>8 DEF Has
    <3>2. \A g : Has(bufs', ctx', chan', rbufs', segs', g, n, c)
                   <=> g = d \/ (g # f /\ Has(bufs, ctx, chan, rbufs, segs, g, n, c))
      BY <1>1, <2>2, <2>3, <2>4, <2>5, <2>6, <2>8, Kinds DEF Has
    <3> QED BY <2>1, <3>1, <3>2, OneMoved
  <2>9. CASE ~(b.s = n /\ c \in b.cs)
    <3>1. \A g : Has(bufs', ctx', chan', rbufs', segs', g, n, c)
                   <=> Has(bufs, ctx, chan, rbufs, segs, g, n, c)
      BY <1>1, <1>6, <2>2, <2>3, <2>4, <2>5, <2>6, <2>9 DEF Has
    <3> QED BY <2>1, <3>1, OneKept
  <2> QED BY <2>7, <2>8, <2>9
<1>16. Owned'
  BY <1>15, NewOwners
<1> QED BY <1>1, <1>12, <1>13, <1>14, <1>16 DEF ChunkInv, Accounted

\* The chunks that went come off the account.
LEMMA CountChunks ==
  ASSUME MapInv, MapInv', ChunkInv, NEW x \in Ctxs, Count(x)
  PROVE  ChunkInv'
<1> DEFINE s == ctx[x].s
           C == ctx[x].sent
<1>1. /\ alloc' = alloc - Cardinality(C) /\ bufs' = bufs
      /\ segs' = segs /\ rbufs' = rbufs /\ chan' = chan
  BY DEF Count, router
<1>2. /\ Others(x) /\ ctx[x].pc = "count"
      /\ \/ ctx[x].cs = {} /\ ctx'[x].pc = "idle" /\ Empty1(x)
         \/ /\ ctx[x].cs # {} /\ ctx'[x].pc = "free" /\ ctx'[x].n = ctx[x].n
            /\ ctx'[x].s = s /\ ctx'[x].cs = ctx[x].cs /\ ctx'[x].sent = {}
  BY CountFacts DEF MapInv
<1>3. SizeOf(x)
  BY DEF ChunkInv, Sizes
<1>4. C \subseteq Chunks /\ (C # {} => s \in Segs)
  BY <1>3 DEF SizeOf
<1>5. ctx'[x].cs = ctx[x].cs /\ (ctx[x].cs # {} => ctx'[x].s = s) /\ ctx'[x].sent = {}
  BY <1>2 DEF Empty1
<1>6. \A y \in Ctxs \ {x} : SameLoad(y) /\ ctx'[y] = ctx[y]
  BY <1>2 DEF Others, SameLoad
<1>7. Sizes'
  <2>1. SizeOf(x)'
    BY <1>1, <1>2, <1>3, <1>5 DEF SizeOf, Empty1, Bare, Seeking
  <2>2. SegsGrow /\ RouterSizes' /\ ChanSizes'
    BY <1>1 DEF SegsGrow, MapInv, Types, ChunkInv, Sizes, RouterSizes, ChanSizes
  <2> QED BY <1>1, <1>6, <2>1, <2>2, SizesOthers DEF ChunkInv, Sizes
<1>8. SentApart'
  BY <1>1, <1>5, <1>6 DEF ChunkInv, SentApart
<1>9. Accounted'
  <2>1. ASSUME NEW c \in C PROVE InDue(bufs, ctx, x, s, c)
    BY <1>2, <2>1 DEF InDue
  <2>2. ASSUME NEW y \in Ctxs, NEW t \in Segs, NEW c \in Chunks
        PROVE  InDue(bufs', ctx', y, t, c)
                 <=> InDue(bufs, ctx, y, t, c) /\ ~(y = x /\ t = s /\ c \in C)
    <3>1. CASE y # x
      BY <1>1, <1>6, <3>1 DEF InDue
    <3>2. CASE y = x
      <4>1. C \cap ctx[x].cs = {} /\ \A b \in bufs[x] : b.s = s => b.cs \cap C = {}
        BY DEF ChunkInv, SentApart
      <4> QED BY <1>1, <1>2, <1>5, <3>2, <4>1 DEF InDue
    <3> QED BY <3>1, <3>2
  <2> HIDE DEF s, C
  <2>3. Cardinality(Due') = Cardinality(Due) - Cardinality(C)
    BY <1>4, <2>1, <2>2, DueMoves
  <2> QED BY <1>1, <2>3 DEF ChunkInv, Accounted
<1>10. ASSUME NEW n \in 1..Len(segs'), NEW c \in Chunks
       PROVE  OneHolder(bufs', ctx', chan', rbufs', segs', n, c)
  <2>1. OneHolder(bufs, ctx, chan, rbufs, segs, n, c)
    BY <1>1, OldOwner
  <2>2. \A g : InContext(ctx', g, n, c) <=> InContext(ctx, g, n, c)
    BY <1>5, <1>6 DEF InContext
  <2>3. \A g : Has(bufs', ctx', chan', rbufs', segs', g, n, c)
                 <=> Has(bufs, ctx, chan, rbufs, segs, g, n, c)
    BY <1>1, <2>2 DEF Has
  <2> QED BY <2>1, <2>3, OneKept
<1>11. Owned'
  BY <1>10, NewOwners
<1> QED BY <1>7, <1>8, <1>9, <1>11 DEF ChunkInv

\* The chunks of the context are free.
LEMMA ReleaseChunks ==
  ASSUME MapInv, MapInv', ChunkInv, NEW x \in Ctxs, Release(x)
  PROVE  ChunkInv'
<1> DEFINE s == ctx[x].s
           C == ctx[x].cs
           F == segs[s].free
           f == <<"context", x>>
           d == <<"free">>
<1>1. /\ alloc' = alloc /\ bufs' = bufs /\ rbufs' = rbufs /\ chan' = chan
      /\ segs' = [segs EXCEPT ![s].free = F \cup C]
  BY DEF Release, router
<1>2. /\ ctx[x].pc \in {"free", "drop"} /\ ctx'[x].pc = "count" /\ Kept1(x)
      /\ ctx'[x].s = s /\ ctx'[x].cs = {} /\ ctx'[x].sent = C
      /\ \A y \in Ctxs \ {x} : /\ ctx'[y].pc = ctx[y].pc /\ ctx'[y].i = ctx[y].i
                               /\ Kept1(y) /\ Load1(y)
  BY ReleaseFacts DEF MapInv
<1>3. SizeOf(x)
  BY DEF ChunkInv, Sizes
<1>4. /\ C \subseteq Chunks /\ C # {} /\ ctx[x].sent = {} /\ s \in 1..Len(segs) /\ s \in Segs
  <2>1. C \subseteq Chunks /\ C # {} /\ ctx[x].sent = {} /\ s \in 1..Len(segs)
    BY <1>2, <1>3 DEF SizeOf, Bare
  <2> QED BY <2>1, MapTypes
<1>5. /\ Len(segs') = Len(segs)
      /\ \A n \in 1..Len(segs) :
           /\ segs'[n].free = IF n = s THEN F \cup C ELSE segs[n].free
           /\ segs'[n].over = segs[n].over /\ segs'[n].thr = segs[n].thr
  <2> HIDE DEF s, F, C
  <2> QED BY <1>1, <1>4, FreeFacts DEF MapInv
<1>6. \A y \in Ctxs \ {x} : SameLoad(y) /\ bufs'[y] = bufs[y] /\ Load1(y)
  BY <1>1, <1>2 DEF Kept1, Load1, SameLoad
<1>7. Sizes'
  <2>1. SizeOf(x)'
    <3>1. ctx'[x].n \in 1..NChunks
      BY <1>2, <1>3 DEF SizeOf, Kept1
    <3> QED BY <1>1, <1>2, <1>3, <1>4, <3>1 DEF SizeOf, Bare
  <2>2. SegsGrow
    BY <1>5, MapTypes DEF SegsGrow
  <2>3. RouterSizes' /\ ChanSizes'
    <3>1. RouterSizes'
      BY <1>1, <2>2, RouterSizesKept DEF ChunkInv
    <3> QED BY <1>1, <3>1 DEF ChunkInv, Sizes, ChanSizes
  <2>4. \A n \in 1..Len(segs') : segs'[n].free \subseteq Chunks
    BY <1>4, <1>5 DEF ChunkInv, Sizes
  <2> QED BY <1>6, <2>1, <2>2, <2>3, <2>4, SizesOthers DEF ChunkInv
<1>8. SentApart'
  <2>1. ASSUME NEW a \in bufs[x], a.s = s, NEW c \in a.cs, c \in C PROVE FALSE
    <3>1. InBuffer(bufs, <<"buffer", x, a>>, s, c) /\ InContext(ctx, f, s, c)
      BY <2>1, BufferHas, ContextHas
    <3>2. <<"buffer", x, a>> = f
      BY <1>4, <2>1, <3>1, OneOnly DEF Has
    <3> QED BY <3>2
  <2>2. \A a \in bufs'[x] : a.s = ctx'[x].s => a.cs \cap ctx'[x].sent = {}
    BY <1>1, <1>2, <2>1
  <2>3. ctx'[x].sent \cap ctx'[x].cs = {}
    BY <1>2
  <2> QED BY <1>6, <2>2, <2>3 DEF ChunkInv, SentApart, Load1
<1>9. Due' = Due
  <2>1. ASSUME NEW y \in Ctxs, NEW t \in Segs, NEW c \in Chunks
        PROVE  InDue(bufs', ctx', y, t, c) <=> InDue(bufs, ctx, y, t, c)
    <3>1. CASE y # x
      BY <1>2, <1>6, <3>1 DEF InDue, Load1
    <3>2. CASE y = x
      BY <1>1, <1>2, <1>4, <3>2 DEF InDue
    <3> QED BY <3>1, <3>2
  <2> QED BY <2>1, DueKept
<1>10. ASSUME NEW n \in 1..Len(segs'), NEW c \in Chunks
       PROVE  OneHolder(bufs', ctx', chan', rbufs', segs', n, c)
  <2>0. n \in 1..Len(segs)
    BY <1>5
  <2>1. OneHolder(bufs, ctx, chan, rbufs, segs, n, c)
    BY <2>0, OldOwner
  <2>2. \A g : InContext(ctx', g, n, c) <=> g # f /\ InContext(ctx, g, n, c)
    <3>1. \A y \in Ctxs \ {x} : ctx'[y].s = ctx[y].s /\ ctx'[y].cs = ctx[y].cs
      BY <1>6 DEF Load1
    <3>2. \A g : InContext(ctx', g, n, c) <=>
                   \/ g = f /\ ctx'[x].s = n /\ c \in ctx'[x].cs
                   \/ g # f /\ InContext(ctx, g, n, c)
      BY <3>1, ContextMoves
    <3> QED BY <1>2, <3>2
  <2>3. f[1] = "context" /\ (InContext(ctx, f, n, c) <=> s = n /\ c \in C)
    BY ContextHas
  <2>4. \A g : InMap(segs', g, n, c) <=> InMap(segs, g, n, c) \/ (g = d /\ s = n /\ c \in C)
    BY <1>5, <2>0 DEF InMap
  <2> HIDE DEF d, f, s, C
  <2>5. CASE s = n /\ c \in C
    <3>1. Has(bufs, ctx, chan, rbufs, segs, f, n, c)
      BY <2>3, <2>5 DEF Has
    <3>2. \A g : Has(bufs', ctx', chan', rbufs', segs', g, n, c)
                   <=> g = d \/ (g # f /\ Has(bufs, ctx, chan, rbufs, segs, g, n, c))
      BY <1>1, <2>2, <2>3, <2>4, <2>5, Kinds DEF Has
    <3> QED BY <2>1, <3>1, <3>2, OneMoved
  <2>6. CASE ~(s = n /\ c \in C)
    <3>1. \A g : Has(bufs', ctx', chan', rbufs', segs', g, n, c)
                   <=> Has(bufs, ctx, chan, rbufs, segs, g, n, c)
      BY <1>1, <2>2, <2>3, <2>4, <2>6 DEF Has
    <3> QED BY <2>1, <3>1, OneKept
  <2> QED BY <2>5, <2>6
<1>11. Owned'
  BY <1>10, NewOwners
<1> QED BY <1>1, <1>7, <1>8, <1>9, <1>11 DEF ChunkInv, Accounted

\* A free chunk of the segment that is looked at becomes one of context x.
LEMMA ScanTakeChunks ==
  ASSUME MapInv, MapInv', ChunkInv, NEW x \in Ctxs, ScanTake(x)
  PROVE  ChunkInv'
<1> DEFINE i == ctx[x].i
           at == ctx[x].at
           F == segs[i].free
           C == ctx[x].cs
<1>1. /\ Others(x) /\ ctx[x].pc = "scan" /\ i \in 1..Len(segs)
      /\ Usable(x, segs[i]) /\ at \in F
      /\ segs' = [segs EXCEPT ![i].free = F \ {at}]
      /\ ctx'[x].s = segs[i].id /\ ctx'[x].cs = C \cup {at} /\ ctx'[x].eng = ctx[x].eng
      /\ \/ ctx'[x].pc = "got" /\ ctx'[x].sent = {} /\ ctx'[x].n = 1
         \/ /\ ctx'[x].pc = "scan" /\ ctx'[x].i = i /\ ctx'[x].n = ctx[x].n
            /\ ctx'[x].sent = ctx[x].sent
  BY ScanTakeFacts DEF MapInv, Kept1
<1>2. bufs' = bufs /\ chan' = chan /\ rbufs' = rbufs /\ alloc' = alloc
  BY DEF ScanTake, router
<1>3. /\ SizeOf(x) /\ C \subseteq Chunks /\ (C # {} => ctx[x].s = i) /\ ctx[x].sent = {}
      /\ F \subseteq Chunks
  BY <1>1 DEF ChunkInv, Sizes, SizeOf, Seeking
<1>4. ctx'[x].sent = {} /\ ctx'[x].n \in 1..NChunks /\ ctx'[x].pc \in {"got", "scan"}
  <2>1. 1 \in 1..NChunks
    BY BackFacts DEF MapInv
  <2> QED BY <1>1, <1>3, <2>1 DEF SizeOf
<1>5. ctx'[x].s = i
  BY <1>1, UsableReady
<1>6. /\ Len(segs') = Len(segs)
      /\ \A n \in 1..Len(segs) :
           /\ segs'[n].free = IF n = i THEN F \ {at} ELSE segs[n].free
           /\ segs'[n].over = segs[n].over /\ segs'[n].thr = segs[n].thr
  BY <1>1, FreeFacts DEF MapInv
<1>7. \A y \in Ctxs \ {x} : SameLoad(y) /\ bufs'[y] = bufs[y]
  BY <1>1, <1>2 DEF Others, SameLoad
<1>8. SizeOf(x)'
  <2>1. segs'[i].over = Mapped \/ segs'[i].thr = x
    BY <1>1, <1>6 DEF Usable
  <2>2. i \in 1..Len(segs') /\ ctx'[x].cs \subseteq Chunks /\ ctx'[x].cs # {}
    BY <1>1, <1>3, <1>6
  <2>3. \A b \in bufs'[x] : b.cs \subseteq Chunks /\ b.cs # {}
    BY <1>2, <1>3 DEF SizeOf
  <2>4. ctx'[x].pc = "scan" => ctx'[x].i = i /\ Usable(x, segs[ctx[x].i])'
    BY <1>1, <1>6 DEF Usable
  <2> QED BY <1>4, <1>5, <2>1, <2>2, <2>3, <2>4 DEF SizeOf, Bare, Seeking
<1>9. SegsGrow
  BY <1>6 DEF SegsGrow, MapInv, Types
<1>10. Sizes'
  <2>1. \A n \in 1..Len(segs') : segs'[n].free \subseteq Chunks
    BY <1>3, <1>6 DEF ChunkInv, Sizes
  <2>2. ChanSizes'
    BY <1>2 DEF ChunkInv, Sizes, ChanSizes
  <2>3. RouterSizes'
    BY <1>2, <1>9, RouterSizesKept DEF ChunkInv
  <2> QED BY <1>7, <1>8, <1>9, <2>1, <2>2, <2>3, SizesOthers DEF ChunkInv
<1>11. SentApart'
  BY <1>1, <1>2, <1>4 DEF ChunkInv, SentApart, Others
<1>12. Due' = Due
  <2>1. ASSUME NEW y \in Ctxs, NEW s \in Segs, NEW c \in Chunks
        PROVE  InDue(bufs', ctx', y, s, c) <=> InDue(bufs, ctx, y, s, c)
    BY <1>1, <1>2, <1>4 DEF InDue, Others
  <2> QED BY <2>1, DueKept
<1>13. ASSUME NEW n \in 1..Len(segs'), NEW c \in Chunks
       PROVE  OneHolder(bufs', ctx', chan', rbufs', segs', n, c)
  <2> DEFINE f == <<"free">>
             d == <<"context", x>>
  <2>0. n \in 1..Len(segs)
    BY <1>6
  <2>1. OneHolder(bufs, ctx, chan, rbufs, segs, n, c)
    BY <2>0, OldOwner
  <2>2. \A g : InContext(ctx', g, n, c) <=>
                 \/ g = d /\ i = n /\ c \in C \cup {at}
                 \/ g # d /\ InContext(ctx, g, n, c)
    <3>1. \A y \in Ctxs \ {x} : ctx'[y].s = ctx[y].s /\ ctx'[y].cs = ctx[y].cs
      BY <1>1 DEF Others
    <3>2. \A g : InContext(ctx', g, n, c) <=>
                   \/ g = d /\ ctx'[x].s = n /\ c \in ctx'[x].cs
                   \/ g # d /\ InContext(ctx, g, n, c)
      BY <3>1, ContextChange
    <3> QED BY <1>1, <1>5, <3>2
  <2>3. InContext(ctx, d, n, c) <=> i = n /\ c \in C
    <3>1. InContext(ctx, d, n, c) <=> ctx[x].s = n /\ c \in C
      BY ContextHas
    <3> QED BY <1>3, <3>1
  <2>4. \A g : InMap(segs', g, n, c) <=> InMap(segs, g, n, c) /\ ~(i = n /\ c = at)
    BY <1>6, <2>0 DEF InMap
  <2>5. CASE i = n /\ c = at
    <3>1. \A g : InMap(segs, g, n, c) <=> g = f
      BY <1>1, <2>5 DEF InMap
    <3>2. Has(bufs, ctx, chan, rbufs, segs, f, n, c)
      BY <3>1 DEF Has
    <3>3. f[1] = "free" /\ d[1] = "context"
      OBVIOUS
    <3> HIDE DEF f, d
    <3>5. d # f
      BY <3>3
    <3>6. ~InContext(ctx, d, n, c)
      BY <2>1, <3>2, <3>5 DEF OneHolder, Has
    <3>4. \A g : Has(bufs', ctx', chan', rbufs', segs', g, n, c)
                   <=> g = d \/ (g # f /\ Has(bufs, ctx, chan, rbufs, segs, g, n, c))
      BY <1>2, <2>2, <2>4, <2>5, <3>1, <3>3, <3>6, Kinds DEF Has
    <3> QED BY <2>1, <3>2, <3>4, OneMoved
  <2>6. CASE ~(i = n /\ c = at)
    <3> HIDE DEF d
    <3>1. \A g : InContext(ctx', g, n, c) <=> InContext(ctx, g, n, c)
      BY <2>2, <2>3, <2>6
    <3>2. \A g : Has(bufs', ctx', chan', rbufs', segs', g, n, c)
                   <=> Has(bufs, ctx, chan, rbufs, segs, g, n, c)
      BY <1>2, <2>4, <2>6, <3>1 DEF Has
    <3> QED BY <2>1, <3>2, OneKept
  <2> QED BY <2>5, <2>6
<1>14. Owned'
  BY <1>13, NewOwners
<1> QED BY <1>2, <1>10, <1>11, <1>12, <1>14 DEF ChunkInv, Accounted

\* A chunk of a run that is too short goes back to the bit map.
LEMMA UndoChunks ==
  ASSUME MapInv, MapInv', ChunkInv, NEW x \in Ctxs, Undo(x)
  PROVE  ChunkInv'
<1> DEFINE i == ctx[x].i
           C == ctx[x].cs
           F == segs[i].free
           f == <<"context", x>>
           d == <<"free">>
<1>1. alloc' = alloc /\ bufs' = bufs /\ rbufs' = rbufs /\ chan' = chan
  BY DEF Undo, router
<1>2. /\ ctx[x].pc = "undo" /\ Kept1(x) /\ ctx'[x].s = ctx[x].s
      /\ ctx'[x].sent = ctx[x].sent /\ ctx'[x].i = i
      /\ \A y \in Ctxs \ {x} : /\ ctx'[y].pc = ctx[y].pc /\ ctx'[y].i = ctx[y].i
                               /\ Kept1(y) /\ Load1(y)
  BY UndoFacts DEF MapInv
<1>3. PICK k \in C : /\ segs' = [segs EXCEPT ![i].free = F \cup {k}]
                     /\ ctx'[x].cs = C \ {k}
                     /\ \/ ctx'[x].pc = "scan" /\ ctx'[x].cs = {}
                        \/ ctx'[x].pc = "undo" /\ ctx'[x].cs # {}
  BY UndoFacts DEF MapInv
<1>4. /\ SizeOf(x) /\ C \subseteq Chunks /\ ctx[x].sent = {} /\ ctx[x].s = i
      /\ i \in 1..Len(segs) /\ Usable(x, segs[i]) /\ k \in Chunks
  BY <1>2, <1>3 DEF ChunkInv, Sizes, SizeOf, Seeking
<1>5. /\ Len(segs') = Len(segs)
      /\ \A n \in 1..Len(segs) :
           /\ segs'[n].free = IF n = i THEN F \cup {k} ELSE segs[n].free
           /\ segs'[n].over = segs[n].over /\ segs'[n].thr = segs[n].thr
  <2> HIDE DEF i, F, C
  <2> QED BY <1>3, <1>4, FreeFacts DEF MapInv
<1>6. \A y \in Ctxs \ {x} : SameLoad(y) /\ bufs'[y] = bufs[y] /\ Load1(y)
  BY <1>1, <1>2 DEF Kept1, Load1, SameLoad
<1>7. Sizes'
  <2>1. SizeOf(x)'
    <3>1. ctx'[x].n \in 1..NChunks /\ ctx'[x].eng = ctx[x].eng
      BY <1>2, <1>4 DEF SizeOf, Kept1
    <3>2. Usable(x, segs[ctx[x].i])'
      BY <1>2, <1>4, <1>5, <3>1 DEF Usable
    <3>3. segs'[i].over = Mapped \/ segs'[i].thr = x
      BY <1>4, <1>5 DEF Usable
    <3>4. \A b \in bufs'[x] : b.cs \subseteq Chunks /\ b.cs # {}
      BY <1>1, <1>4 DEF SizeOf
    <3>5. i \in 1..Len(segs') /\ ctx'[x].cs \subseteq Chunks
      BY <1>3, <1>4, <1>5
    <3> QED BY <1>2, <1>3, <1>4, <3>1, <3>2, <3>3, <3>4, <3>5 DEF SizeOf, Bare, Seeking
  <2>2. SegsGrow
    BY <1>5, MapTypes DEF SegsGrow
  <2>3. RouterSizes' /\ ChanSizes'
    <3>1. RouterSizes'
      BY <1>1, <2>2, RouterSizesKept DEF ChunkInv
    <3> QED BY <1>1, <3>1 DEF ChunkInv, Sizes, ChanSizes
  <2>4. \A n \in 1..Len(segs') : segs'[n].free \subseteq Chunks
    BY <1>4, <1>5 DEF ChunkInv, Sizes
  <2> QED BY <1>6, <2>1, <2>2, <2>3, <2>4, SizesOthers DEF ChunkInv
<1>8. SentApart'
  BY <1>1, <1>2, <1>4, <1>6 DEF ChunkInv, SentApart, Load1
<1>9. Due' = Due
  <2>1. ASSUME NEW y \in Ctxs, NEW t \in Segs, NEW c \in Chunks
        PROVE  InDue(bufs', ctx', y, t, c) <=> InDue(bufs, ctx, y, t, c)
    <3>1. CASE y # x
      BY <1>2, <1>6, <3>1 DEF InDue, Load1
    <3>2. CASE y = x
      BY <1>1, <1>2, <1>3, <3>2 DEF InDue
    <3> QED BY <3>1, <3>2
  <2> QED BY <2>1, DueKept
<1>10. ASSUME NEW n \in 1..Len(segs'), NEW c \in Chunks
       PROVE  OneHolder(bufs', ctx', chan', rbufs', segs', n, c)
  <2>0. n \in 1..Len(segs)
    BY <1>5
  <2>1. OneHolder(bufs, ctx, chan, rbufs, segs, n, c)
    BY <2>0, OldOwner
  <2>2. \A g : InContext(ctx', g, n, c) <=>
                 \/ g = f /\ i = n /\ c \in C \ {k}
                 \/ g # f /\ InContext(ctx, g, n, c)
    <3>1. \A y \in Ctxs \ {x} : ctx'[y].s = ctx[y].s /\ ctx'[y].cs = ctx[y].cs
      BY <1>6 DEF Load1
    <3>2. \A g : InContext(ctx', g, n, c) <=>
                   \/ g = f /\ ctx'[x].s = n /\ c \in ctx'[x].cs
                   \/ g # f /\ InContext(ctx, g, n, c)
      BY <3>1, ContextMoves
    <3> QED BY <1>2, <1>3, <1>4, <3>2
  <2>3. f[1] = "context" /\ (InContext(ctx, f, n, c) <=> i = n /\ c \in C)
    <3>1. f[1] = "context" /\ (InContext(ctx, f, n, c) <=> ctx[x].s = n /\ c \in C)
      BY ContextHas
    <3> QED BY <1>4, <3>1
  <2>4. \A g : InMap(segs', g, n, c) <=> InMap(segs, g, n, c) \/ (g = d /\ i = n /\ c = k)
    BY <1>5, <2>0 DEF InMap
  <2> HIDE DEF d, f, i, C
  <2>5. CASE i = n /\ c = k
    <3>1. Has(bufs, ctx, chan, rbufs, segs, f, n, c)
      BY <1>3, <2>3, <2>5 DEF Has
    <3>2. \A g : Has(bufs', ctx', chan', rbufs', segs', g, n, c)
                   <=> g = d \/ (g # f /\ Has(bufs, ctx, chan, rbufs, segs, g, n, c))
      BY <1>1, <2>2, <2>3, <2>4, <2>5, Kinds DEF Has
    <3> QED BY <2>1, <3>1, <3>2, OneMoved
  <2>6. CASE ~(i = n /\ c = k)
    <3>1. \A g : InContext(ctx', g, n, c) <=> InContext(ctx, g, n, c)
      BY <2>2, <2>3, <2>6
    <3>2. \A g : Has(bufs', ctx', chan', rbufs', segs', g, n, c)
                   <=> Has(bufs, ctx, chan, rbufs, segs, g, n, c)
      BY <1>1, <2>4, <2>6, <3>1 DEF Has
    <3> QED BY <2>1, <3>2, OneKept
  <2> QED BY <2>5, <2>6
<1>11. Owned'
  BY <1>10, NewOwners
<1> QED BY <1>1, <1>7, <1>8, <1>9, <1>11 DEF ChunkInv, Accounted

\* The router is done with a buffer.
LEMMA CompleteChunks ==
  ASSUME MapInv, MapInv', ChunkInv, NEW b \in rbufs, Complete(b)
  PROVE  ChunkInv'
<1> DEFINE s == b.s
           C == b.cs
           F == segs[s].free
           f == <<"router", b>>
           d == <<"free">>
<1>1. /\ alloc' = alloc /\ bufs' = bufs /\ rbufs' = rbufs \ {b} /\ chan' = chan /\ ctx' = ctx
      /\ segs' = [segs EXCEPT ![s].free = F \cup C]
  BY DEF Complete
<1>2. C \subseteq Chunks /\ C # {} /\ s \in 1..Len(segs)
  BY DEF ChunkInv, Sizes, RouterSizes
<1>3. /\ Len(segs') = Len(segs)
      /\ \A n \in 1..Len(segs) :
           /\ segs'[n].free = IF n = s THEN F \cup C ELSE segs[n].free
           /\ segs'[n].over = segs[n].over /\ segs'[n].thr = segs[n].thr
  <2> HIDE DEF s, F, C
  <2> QED BY <1>1, <1>2, FreeFacts DEF MapInv
<1>4. \A x \in Ctxs : SameLoad(x)
  BY <1>1 DEF SameLoad
<1>5. SegsGrow
  BY <1>3, MapTypes DEF SegsGrow
<1>6. Sizes'
  <2>1. ASSUME NEW x \in Ctxs PROVE SizeOf(x)'
    BY <1>1, <1>4, <1>5, SizeOfKept DEF ChunkInv
  <2>2. RouterSizes' /\ ChanSizes'
    <3>1. RouterSizes'
      BY <1>1, <1>5, RouterSizesKept DEF ChunkInv
    <3> QED BY <1>1, <3>1 DEF ChunkInv, Sizes, ChanSizes
  <2>3. \A n \in 1..Len(segs') : segs'[n].free \subseteq Chunks
    BY <1>2, <1>3 DEF ChunkInv, Sizes
  <2> QED BY <2>1, <2>2, <2>3 DEF Sizes
<1>7. Due' = Due /\ SentApart'
  BY <1>1, <1>4, LoadKept DEF ChunkInv
<1>8. ASSUME NEW n \in 1..Len(segs'), NEW c \in Chunks
      PROVE  OneHolder(bufs', ctx', chan', rbufs', segs', n, c)
  <2>0. n \in 1..Len(segs)
    BY <1>3
  <2>1. OneHolder(bufs, ctx, chan, rbufs, segs, n, c)
    BY <2>0, OldOwner
  <2>2. \A g : InRouter(rbufs \ {b}, g, n, c) <=> g # f /\ InRouter(rbufs, g, n, c)
    BY RouterChange
  <2>3. f[1] = "router" /\ (InRouter(rbufs, f, n, c) <=> s = n /\ c \in C)
    <3>1. \A a : <<"router", a>> = f <=> a = b
      OBVIOUS
    <3> QED BY <3>1 DEF InRouter
  <2>4. \A g : InMap(segs', g, n, c) <=> InMap(segs, g, n, c) \/ (g = d /\ s = n /\ c \in C)
    BY <1>3, <2>0 DEF InMap
  <2> HIDE DEF d, f, s, C
  <2>5. CASE s = n /\ c \in C
    <3>1. Has(bufs, ctx, chan, rbufs, segs, f, n, c)
      BY <2>3, <2>5 DEF Has
    <3>2. \A g : Has(bufs', ctx', chan', rbufs', segs', g, n, c)
                   <=> g = d \/ (g # f /\ Has(bufs, ctx, chan, rbufs, segs, g, n, c))
      BY <1>1, <2>2, <2>3, <2>4, <2>5, Kinds DEF Has
    <3> QED BY <2>1, <3>1, <3>2, OneMoved
  <2>6. CASE ~(s = n /\ c \in C)
    <3>1. \A g : Has(bufs', ctx', chan', rbufs', segs', g, n, c)
                   <=> Has(bufs, ctx, chan, rbufs, segs, g, n, c)
      BY <1>1, <2>2, <2>3, <2>4, <2>6 DEF Has
    <3> QED BY <2>1, <3>1, OneKept
  <2> QED BY <2>5, <2>6
<1>9. Owned'
  BY <1>8, NewOwners
<1> QED BY <1>1, <1>6, <1>7, <1>9 DEF ChunkInv, Accounted

LEMMA OverFacts ==
  ASSUME Types, NEW i \in 1..Len(segs), segs' = [segs EXCEPT ![i].over = Mapped]
  PROVE  /\ Len(segs') = Len(segs)
         /\ \A n \in 1..Len(segs) :
              /\ segs'[n].over = IF n = i THEN Mapped ELSE segs[n].over
              /\ segs'[n].oosm = segs[n].oosm /\ segs'[n].free = segs[n].free
              /\ segs'[n].thr = segs[n].thr /\ segs'[n].id = segs[n].id
<1>1. Len(segs) \in Nat /\ DOMAIN segs = 1..Len(segs)
      /\ \A n \in 1..Len(segs) : segs[n] \in SegSet
  BY DEF Types
<1> DEFINE v == [segs[i] EXCEPT !.over = Mapped]
<1>2. /\ v.free = segs[i].free /\ v.oosm = segs[i].oosm /\ v.over = Mapped
      /\ v.thr = segs[i].thr /\ v.id = segs[i].id
  BY <1>1 DEF SegSet
<1>3. segs' = [segs EXCEPT ![i] = v]
  OBVIOUS
<1> HIDE DEF v
<1>4. DOMAIN segs' = 1..Len(segs) /\ \A n \in 1..Len(segs) : segs'[n] = IF n = i THEN v ELSE segs[n]
  BY <1>1, <1>3
<1>5. Len(segs') = Len(segs)
  BY <1>1, <1>3, <1>4
<1> QED BY <1>2, <1>4, <1>5

\* What the router does with a message.
LEMMA EngineRecvFacts ==
  ASSUME MapInv, MapInv', NEW o \in Engines, EngineRecv(o)
  PROVE  LET m == chan[o][1]
         IN  /\ UNCHANGED <<alloc, mutex, ctx, bufs, drain, inbox, oosms, freed, posts>>
             /\ 1 \in 1..Len(chan[o]) /\ m \in MsgSet /\ m.s \in 1..Len(segs)
             /\ chan[o] # <<>> /\ chan' = [chan EXCEPT ![o] = Tail(@)]
             /\ Len(segs') = Len(segs)
             /\ \A n \in 1..Len(segs) :
                  /\ segs'[n].oosm = segs[n].oosm /\ segs'[n].free = segs[n].free
                  /\ segs'[n].thr = segs[n].thr /\ segs'[n].id = segs[n].id
                  /\ segs'[n].over =
                       IF m.kind = "mmap" /\ n = m.s THEN Mapped ELSE segs[n].over
             /\ \/ m.kind = "mmap" /\ rbufs' = rbufs
                \/ /\ m.kind = "data" /\ segs[m.s].over = Mapped
                   /\ rbufs' = rbufs \cup {[s |-> m.s, cs |-> m.cs]}
<1> DEFINE m == chan[o][1]
<1>1. chan[o] # <<>> /\ chan' = [chan EXCEPT ![o] = Tail(@)]
  BY DEF EngineRecv
<1>2. /\ m \in MsgSet /\ Head(chan[o]) = m /\ 1 \in 1..Len(chan[o])
  BY <1>1, ChanShrinks DEF MapInv
<1>3. m.kind \in {"mmap", "data"} /\ m.s \in 1..Len(segs)
  BY <1>2 DEF MsgSet, MapInv, Links, MsgsLinked
<1>4. /\ UNCHANGED <<alloc, mutex, ctx, bufs, drain, inbox, oosms, freed, posts>>
      /\ segs' = IF m.kind = "mmap" THEN [segs EXCEPT ![m.s].over = Mapped] ELSE segs
      /\ rbufs' = IF m.kind = "data" /\ m.s <= Len(segs) /\ segs[m.s].over = Mapped
                  THEN rbufs \cup {[s |-> m.s, cs |-> m.cs]} ELSE rbufs
      /\ lost' = (lost \/ (m.kind = "data" /\ ~(m.s <= Len(segs) /\ segs[m.s].over = Mapped)))
  BY <1>2 DEF EngineRecv
<1>5. m.kind = "data" => m.s <= Len(segs) /\ segs[m.s].over = Mapped
  <2>1. ~lost'
    BY DEF MapInv, MapFirst
  <2> QED BY <1>4, <2>1
<1> HIDE DEF m
<1>6. CASE m.kind = "mmap"
  <2>1. segs' = [segs EXCEPT ![m.s].over = Mapped] /\ rbufs' = rbufs
    BY <1>4, <1>6
  <2>2. /\ Len(segs') = Len(segs)
        /\ \A n \in 1..Len(segs) :
             /\ segs'[n].over = IF n = m.s THEN Mapped ELSE segs[n].over
             /\ segs'[n].oosm = segs[n].oosm /\ segs'[n].free = segs[n].free
             /\ segs'[n].thr = segs[n].thr /\ segs'[n].id = segs[n].id
    BY <1>3, <2>1, OverFacts DEF MapInv
  <2> QED BY <1>1, <1>2, <1>3, <1>4, <1>6, <2>1, <2>2 DEF m
<1>7. CASE m.kind = "data"
  <2>1. segs' = segs /\ rbufs' = rbufs \cup {[s |-> m.s, cs |-> m.cs]}
    BY <1>4, <1>5, <1>7
  <2> QED BY <1>1, <1>2, <1>3, <1>4, <1>5, <1>7, <2>1 DEF m
<1> QED BY <1>3, <1>6, <1>7

LEMMA MessageRead ==
  ASSUME Types, NEW o \in Engines, chan[o] # <<>>, chan' = [chan EXCEPT ![o] = Tail(@)],
         NEW n, NEW c, NEW h
  PROVE  /\ InMessage(chan', h, n, c) => \E f : Behind(o, f, h) /\ InMessage(chan, f, n, c)
         /\ InMessage(chan, h, n, c) =>
              \/ h = <<"message", o, 1>> /\ chan[o][1].s = n /\ c \in chan[o][1].cs
              \/ \E g : Behind(o, h, g) /\ InMessage(chan', g, n, c)
<1>1. /\ Len(chan[o]) \in Nat /\ Len(chan'[o]) = Len(chan[o]) - 1 /\ Len(chan[o]) # 0
      /\ \A k \in 1..(Len(chan[o]) - 1) : chan'[o][k] = chan[o][k + 1]
      /\ \A e \in Engines \ {o} : chan'[e] = chan[e]
  <2>1. /\ Len(chan[o]) \in Nat /\ Len(chan'[o]) = Len(chan[o]) - 1 /\ 1 \in 1..Len(chan[o])
        /\ \A k \in 1..(Len(chan[o]) - 1) : chan'[o][k] = chan[o][k + 1]
        /\ \A e \in Engines \ {o} : chan'[e] = chan[e]
    BY ChanShrinks
  <2> QED BY <2>1
<1>2. \A e \in Engines : Len(chan[e]) \in Nat
  BY DEF Types
<1>3. PICK M : M = chan
  OBVIOUS
<1>4. PICK M2 : M2 = chan'
  OBVIOUS
<1>5. /\ \A e \in Engines \ {o} : M2[e] = M[e]
      /\ \A e \in Engines : Len(M[e]) \in Nat
      /\ Len(M[o]) # 0 /\ Len(M2[o]) = Len(M[o]) - 1
      /\ \A k \in 1..Len(M2[o]) : M2[o][k] = M[o][k + 1]
  BY <1>1, <1>2, <1>3, <1>4
<1>6. /\ InMessage(M2, h, n, c) => \E f : Behind(o, f, h) /\ InMessage(M, f, n, c)
      /\ InMessage(M, h, n, c) =>
              \/ h = <<"message", o, 1>> /\ M[o][1].s = n /\ c \in M[o][1].cs
              \/ \E g : Behind(o, h, g) /\ InMessage(M2, g, n, c)
  BY <1>5, MessageTaken
<1> QED BY <1>3, <1>4, <1>6

LEMMA EngineRecvChunks ==
  ASSUME MapInv, MapInv', ChunkInv, NEW o \in Engines, EngineRecv(o)
  PROVE  ChunkInv'
<1> DEFINE m == chan[o][1]
           r == [s |-> m.s, cs |-> m.cs]
<1>1. /\ alloc' = alloc /\ ctx' = ctx /\ bufs' = bufs
      /\ 1 \in 1..Len(chan[o]) /\ m \in MsgSet /\ m.s \in 1..Len(segs)
      /\ chan[o] # <<>> /\ chan' = [chan EXCEPT ![o] = Tail(@)]
      /\ Len(segs') = Len(segs)
      /\ \A n \in 1..Len(segs) :
           /\ segs'[n].free = segs[n].free /\ segs'[n].thr = segs[n].thr
           /\ segs'[n].over = IF m.kind = "mmap" /\ n = m.s THEN Mapped ELSE segs[n].over
      /\ \/ m.kind = "mmap" /\ rbufs' = rbufs
         \/ m.kind = "data" /\ segs[m.s].over = Mapped /\ rbufs' = rbufs \cup {r}
  BY EngineRecvFacts
<1>2. r.s = m.s /\ r.cs = m.cs
  OBVIOUS
<1>3. m.cs \subseteq Chunks /\ (m.kind = "data" <=> m.cs # {})
  BY <1>1 DEF ChunkInv, Sizes, ChanSizes
<1> HIDE DEF r
<1>4. \A x \in Ctxs : SameLoad(x)
  BY <1>1 DEF SameLoad
<1>5. SegsGrow
  BY <1>1, MapTypes DEF SegsGrow
<1>6. ChanSizes'
  <2>1. /\ Len(chan[o]) \in Nat /\ Len(chan'[o]) = Len(chan[o]) - 1
        /\ \A k \in 1..(Len(chan[o]) - 1) : chan'[o][k] = chan[o][k + 1]
        /\ \A e \in Engines \ {o} : chan'[e] = chan[e]
    BY <1>1, ChanShrinks DEF MapInv
  <2> SUFFICES ASSUME NEW e \in Engines, NEW k \in 1..Len(chan'[e])
               PROVE  /\ chan'[e][k].cs \subseteq Chunks
                      /\ chan'[e][k].kind = "data" <=> chan'[e][k].cs # {}
    BY DEF ChanSizes
  <2>2. \E j \in 1..Len(chan[e]) : chan'[e][k] = chan[e][j]
    <3>1. CASE e # o
      BY <2>1, <3>1
    <3>2. CASE e = o
      <4>1. k + 1 \in 1..Len(chan[o]) /\ chan'[o][k] = chan[o][k + 1]
        BY <2>1, <3>2
      <4> QED BY <3>2, <4>1
    <3> QED BY <3>1, <3>2
  <2> QED BY <2>2 DEF ChunkInv, Sizes, ChanSizes
<1>7. Sizes'
  <2>1. ASSUME NEW x \in Ctxs PROVE SizeOf(x)'
    BY <1>1, <1>4, <1>5, SizeOfKept DEF ChunkInv
  <2>2. RouterSizes'
    <3>1. ASSUME NEW b \in rbufs
          PROVE  /\ b.cs \subseteq Chunks /\ b.cs # {}
                 /\ b.s \in 1..Len(segs') /\ segs'[b.s].over = Mapped
      BY <1>1 DEF ChunkInv, Sizes, RouterSizes
    <3>2. CASE rbufs' = rbufs
      BY <3>1, <3>2 DEF RouterSizes
    <3>3. CASE m.kind = "data" /\ segs[m.s].over = Mapped /\ rbufs' = rbufs \cup {r}
      <4>1. /\ r.cs \subseteq Chunks /\ r.cs # {}
            /\ r.s \in 1..Len(segs') /\ segs'[r.s].over = Mapped
        BY <1>1, <1>2, <1>3, <3>3
      <4> QED BY <3>1, <3>3, <4>1 DEF RouterSizes
    <3> QED BY <1>1, <3>2, <3>3
  <2>3. \A n \in 1..Len(segs') : segs'[n].free \subseteq Chunks
    BY <1>1 DEF ChunkInv, Sizes
  <2> QED BY <1>6, <2>1, <2>2, <2>3 DEF Sizes
<1>8. Due' = Due /\ SentApart'
  BY <1>1, <1>4, LoadKept DEF ChunkInv
<1>9. ASSUME NEW n \in 1..Len(segs'), NEW c \in Chunks
      PROVE  OneHolder(bufs', ctx', chan', rbufs', segs', n, c)
  <2> DEFINE q == <<"message", o, 1>>
             d == <<"router", r>>
             Old(g) == Has(bufs, ctx, chan, rbufs, segs, g, n, c)
             New(g) == Has(bufs', ctx', chan', rbufs', segs', g, n, c)
             Still(g) == InBuffer(bufs, g, n, c) \/ InContext(ctx, g, n, c) \/ InMap(segs, g, n, c)
                         \/ InRouter(rbufs, g, n, c)
             Read == m.s = n /\ c \in m.cs
  <2>0. n \in 1..Len(segs)
    BY <1>1
  <2>1. PICK h : \A g : Old(g) <=> g = h
    BY <2>0, OldOwner DEF OneHolder
  <2>2. \A g : InMap(segs', g, n, c) <=> InMap(segs, g, n, c)
    BY <1>1, <2>0 DEF InMap
  <2>3. \A g : InRouter(rbufs', g, n, c) <=> (g = d /\ Read) \/ InRouter(rbufs, g, n, c)
    <3>1. CASE m.kind = "mmap" /\ rbufs' = rbufs
      BY <1>3, <3>1
    <3>2. CASE m.kind = "data" /\ rbufs' = rbufs \cup {r}
      <4>1. \A g : InRouter(rbufs \cup {r}, g, n, c) <=>
              \/ g = <<"router", r>> /\ r.s = n /\ c \in r.cs
              \/ InRouter(rbufs, g, n, c)
        BY RouterChange
      <4> QED BY <1>2, <3>2, <4>1
    <3> QED BY <1>1, <3>1, <3>2
  <2>4. \A g : /\ InMessage(chan', g, n, c) => \E f : Behind(o, f, g) /\ InMessage(chan, f, n, c)
               /\ InMessage(chan, g, n, c) =>
                    \/ g = q /\ Read
                    \/ \E k : Behind(o, g, k) /\ InMessage(chan', k, n, c)
    BY <1>1, MessageRead DEF MapInv
  <2>5. Read => InMessage(chan, q, n, c)
    BY <1>1 DEF InMessage
  <2>6. /\ \A g : Old(g) <=> Still(g) \/ InMessage(chan, g, n, c)
        /\ \A g : New(g) <=> Still(g) \/ InMessage(chan', g, n, c) \/ (g = d /\ Read)
    BY <1>1, <2>2, <2>3 DEF Has
  <2>7. /\ \A g : Still(g) => g[1] # "message"
        /\ \A g : InMessage(chan, g, n, c) => g[1] = "message"
    BY Kinds
  <2>8. \A f, g, k : /\ Behind(o, f, g) /\ Behind(o, f, k) => g = k
                     /\ ~Behind(o, q, g)
    BY BehindOne
  <2> HIDE DEF q, d, Old, New, Still, Read
  <2>9. CASE Read
    <3>1. h = q /\ InMessage(chan, h, n, c)
      BY <2>1, <2>5, <2>6, <2>9
    <3>2. \A g : ~Still(g) /\ ~InMessage(chan', g, n, c)
      BY <2>1, <2>4, <2>6, <2>7, <2>8, <3>1
    <3>3. New(d) /\ \A g : New(g) => g = d
      BY <2>6, <2>9, <3>2
    <3> QED BY <3>3, OneIs DEF New
  <2>10. CASE ~Read /\ InMessage(chan, h, n, c)
    <3>1. PICK k : Behind(o, h, k) /\ InMessage(chan', k, n, c)
      BY <2>4, <2>10
    <3>2. \A g : ~Still(g)
      BY <2>1, <2>6, <2>7, <2>10
    <3>3. New(k) /\ \A g : New(g) => g = k
      BY <2>1, <2>4, <2>6, <2>8, <2>10, <3>1, <3>2
    <3> QED BY <3>3, OneIs DEF New
  <2>11. CASE ~Read /\ ~InMessage(chan, h, n, c)
    <3>1. \A g : ~InMessage(chan', g, n, c)
      BY <2>1, <2>4, <2>6, <2>11
    <3>2. New(h) /\ \A g : New(g) => g = h
      BY <2>1, <2>6, <2>11, <3>1
    <3> QED BY <3>2, OneIs DEF New
  <2> QED BY <2>9, <2>10, <2>11
<1>10. Owned'
  BY <1>9, NewOwners
<1> QED BY <1>1, <1>7, <1>8, <1>10 DEF ChunkInv, Accounted

LEMMA ChunkInit == Init => ChunkInv
<1> SUFFICES ASSUME Init PROVE ChunkInv
  OBVIOUS
<1>1. MapInv
  BY MapInit
<1>2. Len(segs) = 0 /\ rbufs = {} /\ alloc = 0
  BY DEF Init
<1>3. \A x \in Ctxs : ctx[x] = Idle /\ bufs[x] = {}
  BY DEF Init
<1>4. \A e \in Engines : Len(chan[e]) = 0
  BY DEF Init
<1>5. /\ Idle.pc = "idle" /\ Idle.cs = {} /\ Idle.sent = {} /\ Idle.n = 1
      /\ 1 \in 1..NChunks
  BY UnitShmAssumption DEF Idle
<1>6. Sizes
  BY <1>2, <1>3, <1>4, <1>5 DEF Sizes, SizeOf, ChanSizes, RouterSizes, Bare
<1>7. SentApart
  BY <1>3, <1>5 DEF SentApart
<1>8. Accounted
  <2>1. Due = {}
    BY <1>3, <1>5 DEF Due
  <2>2. Cardinality(Due) = 0
    BY <2>1, FS_EmptySet
  <2> QED BY <1>2, <2>2 DEF Accounted
<1>9. Owned
  <2>1. OwnedAll
    BY <1>2 DEF OwnedAll
  <2> QED BY <1>1, <2>1, OwnedIs DEF MapInv
<1> QED BY <1>6, <1>7, <1>8, <1>9 DEF ChunkInv

LEMMA ChunkStep == Orderly /\ MapInv /\ MapInv' /\ ChunkInv /\ [Next]_vars => ChunkInv'
<1> SUFFICES ASSUME Orderly, MapInv, MapInv', ChunkInv, [Next]_vars PROVE ChunkInv'
  OBVIOUS
<1>1. ASSUME NEW x \in Ctxs, CtxStep(x) PROVE ChunkInv'
  <2>1. CASE ScanTake(x)
    BY <2>1, ScanTakeChunks
  <2>0. CASE Undo(x)
    BY <2>0, UndoChunks
  <2>2. CASE NewMmap(x)
    BY <2>2, NewMmapChunks
  <2>3. CASE SendMmap(x)
    BY <2>3, SendMmapChunks
  <2>4. CASE Unsent(x)
    BY <2>4, UnsentChunks
  <2>5. CASE Got(x)
    BY <2>5, GotChunks
  <2>6. CASE Count(x)
    BY <2>6, CountChunks
  <2>7. CASE Release(x)
    BY <2>7, ReleaseChunks
  <2>8. CASE \/ Flag(x) \/ ScanEnd(x) \/ Full(x) \/ SendOosm(x) \/ WaitAck(x) \/ WaitQuit(x)
             \/ Retry(x) \/ ReadAck(x) \/ ReadQuit(x)
             \/ ScanPass(x) \/ ScanBusy(x) \/ ScanRunEnds(x) \/ ScanNext(x)
    BY <2>8, QuietSteps
  <2> QED BY <1>1, <2>0, <2>1, <2>2, <2>3, <2>4, <2>5, <2>6, <2>7, <2>8 DEF CtxStep
<1>2. ASSUME NEW x \in Ctxs, Fails(x) PROVE ChunkInv'
  BY <1>2, QuietSteps, QuietRouter DEF Fails
<1>3. ASSUME NEW x \in Ctxs, Ends(x) PROVE ChunkInv'
  BY <1>3, FreeBufChunks, SendBufChunks DEF Ends
<1>4. ASSUME NEW x \in Ctxs, Starts(x) PROVE ChunkInv'
  BY <1>4, QuietSteps
<1>5. CASE RouterStep
  BY <1>5, EngineRecvChunks, CompleteChunks, QuietRouter DEF RouterStep
<1>6. CASE UNCHANGED vars
  BY <1>6, QuietRouter
<1> QED BY <1>1, <1>2, <1>3, <1>4, <1>5, <1>6 DEF Next

\* The bit maps and allocated_chunks agree with the chunks that are really held,
\* for any number of contexts, engines, segments and chunks: nxt_unit_mmap_get(),
\* nxt_unit_mmap_buf_send(), nxt_unit_mmap_release() and the router's
\* nxt_port_mmap_buf_completion() hand each chunk on from one holder to the next.
THEOREM ChunksHeldOnce == Orderly /\ Spec => []ChunksAgree
<1> DEFINE Inv == Orderly /\ MapInv /\ ChunkInv
<1>1. Orderly /\ Init => Inv
  BY MapInit, ChunkInit
<1>2. Inv /\ [Next]_vars => Inv'
  <2> SUFFICES ASSUME Inv, [Next]_vars PROVE Inv'
    OBVIOUS
  <2>1. Orderly' /\ MapInv'
    BY MapStep DEF Orderly
  <2> QED BY <2>1, ChunkStep
<1>3. Inv => ChunksAgree
  BY DEF ChunkInv, ChunksAgree
<1> QED BY <1>1, <1>2, <1>3, PTL DEF Spec

-----------------------------------------------------------------------------
(* The wake-ups.                                                           *)

\* An ack is on its way to x.
Signal(x) == posts > 0 \/ \E n \in 1..Len(inbox[x]) : inbox[x][n] \in {"ack", "quit"}

\* The segment stays: it is mapped, or its announcement is on its way.
Firm(n) == segs[n].over = Mapped \/ Told(segs[n].over, n)

\* The router sees the free chunks of n, or there are none until x frees one.
Plain(n, x) == Firm(n) /\ (segs[n].over # Mapped => segs[n].thr = x /\ segs[n].free = {})

Passing == {"scan", "undo", "flag", "full"}

\* nxt_unit_mmap_get() flags the segments that it passes over; a flag is taken
\* off only with an ack.
PassOf(x) ==
  ctx[x].pc \in Passing /\ ctx[x].mode # "probe" /\ ~ctx[x].apart =>
    /\ \A n \in 1..Len(segs) :
         n < ctx[x].i => Plain(n, x) /\ (segs[n].oosm \/ Signal(x))
    /\ ctx[x].pc = "flag" => ctx[x].i \in 1..Len(segs) /\ Plain(ctx[x].i, x)
    /\ ctx[x].pc = "full" => ctx[x].i > Len(segs) /\ Len(segs) = Limit

\* Data in segment n is on its way to the router, or context y has chunks of it
\* that it will send or give back.
Posted(n) == \E e \in Engines : \E k \in 1..Len(chan[e]) :
               chan[e][k].kind = "data" /\ chan[e][k].s = n
HeldBy(n, y) == \/ \E b \in bufs[y] : b.s = n
                \/ ctx[y].pc \in {"got", "sent", "drop"} /\ ctx[y].s = n
                \/ ctx[y].pc \in Seeking /\ ctx[y].s = n /\ ctx[y].cs # {}

\* Where an ack will come from, if segment n is flagged: a completion, data on
\* its way to one, or the OOSM handler.
Source(n, H) ==
  \/ freed[n] > 0
  \/ \E b \in rbufs : b.s = n
  \/ Posted(n)
  \/ \E y \in H : HeldBy(n, y)
  \/ segs[n].over = Mapped /\ segs[n].free # {} /\ oosms > 0

\* All segments are flagged, and one of them will send an ack.
Kept(x, H) ==
  \/ Signal(x)
  \/ /\ Len(segs) = Limit /\ \A n \in 1..Len(segs) : segs[n].oosm /\ Firm(n)
     /\ \E n \in 1..Len(segs) : Source(n, H)

SleepOf(x) ==
  /\ ctx[x].pc = "wait" /\ ~ctx[x].apart => Kept(x, Ctxs \ {x})
  /\ drain[x] = "asked" /\ ~ctx[x].quit => Kept(x, Ctxs)

WakeTypes ==
  /\ inbox \in [Ctxs -> Seq({"ack", "quit"})] /\ posts \in Nat /\ oosms \in Nat
  /\ freed \in [Segs -> Nat] /\ drain \in [Ctxs -> {"no", "asked", "unasked", "apart", "eaten"}]

WakeInv == WakeTypes /\ \A x \in Ctxs : PassOf(x) /\ SleepOf(x)

Drains == {"no", "asked", "unasked", "apart", "eaten"}
Words == {"ack", "quit"}

LEMMA InboxTypes ==
  ASSUME WakeTypes,
         \/ inbox' = inbox
         \/ AckAll
         \/ \E x \in Ctxs : inbox[x] # <<>> /\ inbox' = [inbox EXCEPT ![x] = Tail(@)]
         \/ \E x \in Ctxs : inbox' = [inbox EXCEPT ![x] = Append(@, "quit")]
  PROVE  inbox' \in [Ctxs -> Seq(Words)]
<1>1. inbox \in [Ctxs -> Seq(Words)]
  BY DEF WakeTypes, Words
<1>2. CASE AckAll
  <2>1. \A x \in Ctxs : Append(inbox[x], "ack") \in Seq(Words)
    BY <1>1 DEF Words
  <2> QED BY <1>2, <2>1 DEF AckAll
<1>3. ASSUME NEW x \in Ctxs, inbox[x] # <<>>, inbox' = [inbox EXCEPT ![x] = Tail(@)]
      PROVE  inbox' \in [Ctxs -> Seq(Words)]
  <2>1. Tail(inbox[x]) \in Seq(Words)
    BY <1>1, <1>3, TailFacts
  <2> QED BY <1>1, <1>3, <2>1
<1>4. ASSUME NEW x \in Ctxs, inbox' = [inbox EXCEPT ![x] = Append(@, "quit")]
      PROVE  inbox' \in [Ctxs -> Seq(Words)]
  <2>1. Append(inbox[x], "quit") \in Seq(Words)
    BY <1>1 DEF Words
  <2> QED BY <1>1, <1>4, <2>1
<1> QED BY <1>1, <1>2, <1>3, <1>4

LEMMA RefusedDrain ==
  ASSUME WakeTypes, NEW x \in Ctxs, NEW a \in Drains, Refused(x, a)
  PROVE  /\ drain' \in [Ctxs -> Drains] /\ \A y \in Ctxs \ {x} : drain'[y] = drain[y]
         /\ drain'[x] = drain[x] \/ (drain'[x] \in {a, "apart"} /\ (ctx[x].apart => drain'[x] = "apart"))
<1> DEFINE v == IF ctx[x].apart THEN "apart" ELSE a
<1>1. drain \in [Ctxs -> Drains]
  BY DEF WakeTypes, Drains
<1>2. v \in Drains /\ v \in {a, "apart"} /\ (ctx[x].apart => v = "apart")
  BY DEF Drains
<1>3. drain' = drain \/ drain' = [drain EXCEPT ![x] = v]
  BY DEF Refused
<1> HIDE DEF v
<1> QED BY <1>1, <1>2, <1>3

LEMMA CtxWakeTypes ==
  ASSUME MapInv, ChunkInv, WakeTypes, NEW x \in Ctxs,
         CtxStep(x) \/ Fails(x) \/ Ends(x) \/ Starts(x)
  PROVE  /\ WakeTypes' /\ freed' = freed /\ posts' = posts
<1>1. freed' = freed /\ posts' = posts
  BY DEF CtxStep, Fails, Ends, Starts, ScanPass, ScanTake, ScanBusy,
         ScanRunEnds, Undo, ScanNext, Flag, ScanEnd, Full, SendOosm, WaitAck,
         WaitQuit, Retry, NewMmap, SendMmap, Unsent, Got, Count, Release, ReadAck, ReadQuit,
         SendOosmFails, NewMmapFails, SendMmapFails, Quit, FreeBuf, SendBuf, GetBuf, router
<1>2. oosms' = oosms \/ oosms' = oosms + 1
  BY DEF CtxStep, Fails, Ends, Starts, ScanPass, ScanTake, ScanBusy,
         ScanRunEnds, Undo, ScanNext, Flag, ScanEnd, Full, SendOosm, WaitAck,
         WaitQuit, Retry, NewMmap, SendMmap, Unsent, Got, Count, Release, ReadAck, ReadQuit,
         SendOosmFails, NewMmapFails, SendMmapFails, Quit, FreeBuf, SendBuf, GetBuf
<1>3. oosms' \in Nat
  BY <1>2 DEF WakeTypes
<1>4. inbox' \in [Ctxs -> Seq(Words)]
  <2>1. \/ inbox' = inbox
        \/ inbox[x] # <<>> /\ inbox' = [inbox EXCEPT ![x] = Tail(@)]
        \/ inbox' = [inbox EXCEPT ![x] = Append(@, "quit")]
    BY DEF CtxStep, Fails, Ends, Starts, ScanPass, ScanTake, ScanBusy,
         ScanRunEnds, Undo, ScanNext, Flag, ScanEnd, Full, SendOosm, WaitAck,
         WaitQuit, Retry, NewMmap, SendMmap, Unsent, Got, Count, Release, ReadAck, ReadQuit,
         SendOosmFails, NewMmapFails, SendMmapFails, Quit, FreeBuf, SendBuf, GetBuf
  <2> QED BY <2>1, InboxTypes
<1>5. drain' \in [Ctxs -> Drains]
  <2>1. drain \in [Ctxs -> Drains]
    BY DEF WakeTypes, Drains
  <2>2. CASE Full(x) \/ SendOosmFails(x) \/ NewMmapFails(x) \/ Unsent(x) \/ SendOosm(x)
    <3>1. drain' = drain \/ \E a \in {"asked", "unasked"} : Refused(x, a)
      BY <2>2 DEF Full, SendOosmFails, NewMmapFails, Unsent, SendOosm
    <3>2. {"asked", "unasked"} \subseteq Drains
      BY DEF Drains
    <3> QED BY <2>1, <3>1, <3>2, RefusedDrain
  <2>3. CASE WaitAck(x) \/ ReadAck(x)
    <3>1. \E v \in Drains : drain' = [drain EXCEPT ![x] = v]
      BY <2>1, <2>3 DEF WaitAck, ReadAck, Drains
    <3> QED BY <2>1, <3>1
  <2>4. CASE Release(x) \/ Undo(x)
    BY <2>1, <2>4 DEF Release, Undo, Drains
  <2>5. CASE drain' = drain
    BY <2>1, <2>5
  <2> QED BY <2>2, <2>3, <2>4, <2>5 DEF CtxStep, Fails, Ends, Starts, ScanPass, ScanTake, ScanBusy,
         ScanRunEnds, Undo, ScanNext, Flag, ScanEnd,
        WaitQuit, Retry, NewMmap, SendMmap, Got, Count, ReadQuit, SendMmapFails, Quit,
        FreeBuf, SendBuf, GetBuf
<1> QED BY <1>1, <1>3, <1>4, <1>5 DEF WakeTypes, Words, Drains

LEMMA RouterWakeTypes ==
  ASSUME MapInv, ChunkInv, WakeTypes, RouterStep
  PROVE  WakeTypes'
<1>1. drain' = drain
  BY DEF RouterStep, EngineRecv, Complete, CompleteAck, Broadcast, OosmHandler
<1>2. inbox' = inbox \/ AckAll
  BY DEF RouterStep, EngineRecv, Complete, CompleteAck, Broadcast, OosmHandler
<1>3. inbox' \in [Ctxs -> Seq(Words)]
  BY <1>2, InboxTypes
<1>4. oosms' \in Nat
  <2>1. oosms' = oosms \/ (oosms > 0 /\ oosms' = oosms - 1)
    BY DEF RouterStep, EngineRecv, Complete, CompleteAck, Broadcast, OosmHandler
  <2>2. oosms \in Nat
    BY DEF WakeTypes
  <2> QED BY <2>1, <2>2
<1>5. posts' \in Nat
  <2>1. \/ posts' = posts \/ posts' = posts + 0 \/ posts' = posts + 1
        \/ posts > 0 /\ posts' = posts - 1
    BY DEF RouterStep, EngineRecv, Complete, CompleteAck, Broadcast, OosmHandler, router
  <2>2. posts \in Nat
    BY DEF WakeTypes
  <2> QED BY <2>1, <2>2
<1>6. freed' \in [Segs -> Nat]
  <2>1. ASSUME NEW b \in rbufs, Complete(b) PROVE freed' \in [Segs -> Nat]
    <3>1. b.s \in Segs
      BY MapTypes DEF ChunkInv, Sizes, RouterSizes
    <3> QED BY <2>1, <3>1 DEF Complete, WakeTypes
  <2>2. ASSUME NEW s \in Segs, CompleteAck(s) PROVE freed' \in [Segs -> Nat]
    BY <2>2 DEF CompleteAck, WakeTypes
  <2>3. CASE freed' = freed
    BY <2>3 DEF WakeTypes
  <2> QED BY <2>1, <2>2, <2>3 DEF RouterStep, EngineRecv, Broadcast, OosmHandler, router
<1> QED BY <1>1, <1>3, <1>4, <1>5, <1>6 DEF WakeTypes, Words

\* What a step of somebody else leaves to z.
SegCalm ==
  /\ Len(segs') = Len(segs)
  /\ \A n \in 1..Len(segs) : /\ segs'[n].thr = segs[n].thr
                             /\ segs'[n].over = segs[n].over \/ segs'[n].over = Mapped
                             /\ Firm(n) => Firm(n)'
Noticed(z) ==
  /\ Signal(z) => Signal(z)'
  /\ \A n \in 1..Len(segs) : segs[n].oosm => segs'[n].oosm \/ Signal(z)'
Calls(z, H) == \A n \in 1..Len(segs) :
                 Source(n, H) => Signal(z)' \/ \E k \in 1..Len(segs) : Source(k, H)'

LEMMA PassKept ==
  ASSUME NEW z \in Ctxs, PassOf(z), SegCalm, Noticed(z),
         ctx'[z].pc = ctx[z].pc, ctx'[z].mode = ctx[z].mode, ctx'[z].i = ctx[z].i,
         ~ctx'[z].apart => ~ctx[z].apart,
         \A n \in 1..Len(segs) :
           segs[n].over # Mapped /\ segs[n].thr = z /\ segs[n].free = {} => segs'[n].free = {}
  PROVE  PassOf(z)'
<1>1. ASSUME NEW n \in 1..Len(segs), Plain(n, z) PROVE Plain(n, z)'
  <2>1. Firm(n)'
    BY <1>1 DEF Plain, SegCalm
  <2>2. segs'[n].over # Mapped => segs'[n].thr = z /\ segs'[n].free = {}
    BY <1>1 DEF Plain, SegCalm
  <2> QED BY <2>1, <2>2 DEF Plain
<1> SUFFICES ASSUME ctx'[z].pc \in Passing, ctx'[z].mode # "probe", ~ctx'[z].apart
             PROVE  /\ \A n \in 1..Len(segs') :
                         n < ctx'[z].i => Plain(n, z)' /\ (segs'[n].oosm \/ Signal(z)')
                    /\ ctx'[z].pc = "flag" => ctx'[z].i \in 1..Len(segs') /\ Plain(ctx[z].i, z)'
                    /\ ctx'[z].pc = "full" => ctx'[z].i > Len(segs') /\ Len(segs') = Limit
  BY DEF PassOf, Passing
<1>2. /\ \A n \in 1..Len(segs) : n < ctx[z].i => Plain(n, z) /\ (segs[n].oosm \/ Signal(z))
      /\ ctx[z].pc = "flag" => ctx[z].i \in 1..Len(segs) /\ Plain(ctx[z].i, z)
      /\ ctx[z].pc = "full" => ctx[z].i > Len(segs) /\ Len(segs) = Limit
  BY DEF PassOf, Passing
<1>3. ASSUME NEW n \in 1..Len(segs'), n < ctx'[z].i
      PROVE  Plain(n, z)' /\ (segs'[n].oosm \/ Signal(z)')
  <2>1. n \in 1..Len(segs) /\ Plain(n, z) /\ (segs[n].oosm \/ Signal(z))
    BY <1>2, <1>3 DEF SegCalm
  <2> QED BY <1>1, <2>1 DEF Noticed
<1>4. ASSUME ctx'[z].pc = "flag" PROVE Plain(ctx[z].i, z)'
  <2>1. PICK i : i = ctx[z].i
    OBVIOUS
  <2>2. i \in 1..Len(segs) /\ Plain(i, z)
    BY <1>2, <1>4, <2>1
  <2>3. Plain(i, z)'
    BY <1>1, <2>2
  <2> QED BY <2>1, <2>3 DEF Plain, Firm, Told, ToldIn
<1> QED BY <1>2, <1>3, <1>4 DEF SegCalm

LEMMA KeptOn ==
  ASSUME NEW z, NEW H, Kept(z, H), SegCalm, Noticed(z), Calls(z, H)
  PROVE  Kept(z, H)'
<1>1. CASE Signal(z)'
  BY <1>1 DEF Kept
<1>2. CASE ~Signal(z)'
  <2>1. /\ Len(segs) = Limit /\ \A n \in 1..Len(segs) : segs[n].oosm /\ Firm(n)
        /\ \E n \in 1..Len(segs) : Source(n, H)
    BY <1>2 DEF Kept, Noticed
  <2>2. Len(segs') = Limit /\ \A n \in 1..Len(segs') : segs'[n].oosm /\ Firm(n)'
    BY <1>2, <2>1 DEF SegCalm, Noticed
  <2>3. \E k \in 1..Len(segs') : Source(k, H)'
    BY <1>2, <2>1 DEF SegCalm, Calls
  <2> QED BY <2>2, <2>3 DEF Kept
<1> QED BY <1>1, <1>2

LEMMA SleepKept ==
  ASSUME NEW z \in Ctxs, SleepOf(z), SegCalm, Noticed(z),
         ctx'[z].pc = "wait" /\ ~ctx'[z].apart =>
           ctx[z].pc = "wait" /\ ~ctx[z].apart /\ Calls(z, Ctxs \ {z}),
         drain'[z] = "asked" /\ ~ctx'[z].quit =>
           drain[z] = "asked" /\ ~ctx[z].quit /\ Calls(z, Ctxs)
  PROVE  SleepOf(z)'
<1>1. ASSUME ctx'[z].pc = "wait", ~ctx'[z].apart PROVE Kept(z, Ctxs \ {z})'
  BY <1>1, KeptOn DEF SleepOf
<1>2. ASSUME drain'[z] = "asked", ~ctx'[z].quit PROVE Kept(z, Ctxs)'
  BY <1>2, KeptOn DEF SleepOf
<1> QED BY <1>1, <1>2 DEF SleepOf

\* A step of x that moves no chunk.
QuietFrame(x) ==
  /\ Len(segs') = Len(segs)
  /\ \A n \in 1..Len(segs) : /\ segs'[n].over = segs[n].over /\ segs'[n].thr = segs[n].thr
                             /\ segs'[n].free = segs[n].free
                             /\ segs[n].oosm => segs'[n].oosm
  /\ chan' = chan /\ bufs' = bufs /\ rbufs' = rbufs /\ freed' = freed /\ posts' = posts
  /\ oosms' = oosms \/ oosms' = oosms + 1
  /\ Others(x) /\ \A n : HeldBy(n, x) => HeldBy(n, x)'
  /\ \A z \in Ctxs \ {x} : inbox'[z] = inbox[z] /\ drain'[z] = drain[z]

LEMMA FirmSame ==
  ASSUME NEW n, chan' = chan, segs'[n].over = segs[n].over, Firm(n)
  PROVE  Firm(n)'
BY DEF Firm, Told, ToldIn

LEMMA SignalSame ==
  ASSUME NEW z, inbox'[z] = inbox[z], posts' = posts, Signal(z)
  PROVE  Signal(z)'
BY DEF Signal

LEMMA QuietFrameFacts ==
  ASSUME WakeTypes, NEW x \in Ctxs, QuietFrame(x)
  PROVE  /\ SegCalm
         /\ \A z \in Ctxs : inbox'[z] = inbox[z] => Noticed(z)
         /\ \A z \in Ctxs : \A H \in SUBSET Ctxs : Calls(z, H)
<1>1. SegCalm
  BY FirmSame DEF QuietFrame, SegCalm
<1>2. ASSUME NEW z \in Ctxs, inbox'[z] = inbox[z] PROVE Noticed(z)
  BY <1>2, SignalSame DEF QuietFrame, Noticed
<1>3. ASSUME NEW z \in Ctxs, NEW H \in SUBSET Ctxs, NEW n \in 1..Len(segs), Source(n, H)
      PROVE  Source(n, H)'
  <2>1. oosms > 0 => oosms' > 0
    BY DEF QuietFrame, WakeTypes
  <2>2. segs'[n].over = segs[n].over /\ segs'[n].free = segs[n].free
        /\ chan' = chan /\ bufs' = bufs /\ rbufs' = rbufs /\ freed' = freed
    BY DEF QuietFrame
  <2>3. ASSUME NEW y \in H, HeldBy(n, y) PROVE HeldBy(n, y)'
    <3>1. CASE y = x
      BY <2>3, <3>1 DEF QuietFrame
    <3>2. CASE y # x
      <4>1. ctx'[y] = ctx[y] /\ bufs' = bufs
        BY <3>2 DEF QuietFrame, Others
      <4> QED BY <2>3, <4>1 DEF HeldBy
    <3> QED BY <3>1, <3>2
  <2>4. (\E y \in H : HeldBy(n, y)) => \E y \in H : HeldBy(n, y)'
    BY <2>3
  <2> QED BY <1>3, <2>1, <2>2, <2>4 DEF Source, Posted
<1> QED BY <1>1, <1>2, <1>3 DEF Calls

LEMMA QuietOthersWake ==
  ASSUME WakeInv, NEW x \in Ctxs, QuietFrame(x), NEW z \in Ctxs \ {x}
  PROVE  PassOf(z)' /\ SleepOf(z)'
<1>1. ctx'[z] = ctx[z] /\ inbox'[z] = inbox[z] /\ drain'[z] = drain[z]
  BY DEF QuietFrame, Others
<1>2. SegCalm /\ Noticed(z) /\ \A H \in SUBSET Ctxs : Calls(z, H)
  BY <1>1, QuietFrameFacts DEF WakeInv
<1>3. PassOf(z) /\ SleepOf(z)
  BY DEF WakeInv
<1>4. \A n \in 1..Len(segs) : segs'[n].free = segs[n].free
  BY DEF QuietFrame
<1>5. PassOf(z)'
  BY <1>1, <1>2, <1>3, <1>4, PassKept
<1>6. Calls(z, Ctxs) /\ Calls(z, Ctxs \ {z})
  BY <1>2
<1>7. SleepOf(z)'
  BY <1>1, <1>2, <1>3, <1>6, SleepKept
<1> QED BY <1>5, <1>7

LEMMA OosmFacts ==
  ASSUME Types, NEW i, NEW S \in BOOLEAN, segs' = [segs EXCEPT ![i].oosm = S]
  PROVE  /\ Len(segs') = Len(segs)
         /\ \A n \in 1..Len(segs) :
              /\ segs'[n].oosm = IF n = i THEN S ELSE segs[n].oosm
              /\ segs'[n].over = segs[n].over /\ segs'[n].free = segs[n].free
              /\ segs'[n].thr = segs[n].thr
<1>1. SegsKept /\ \A n \in 1..Len(segs) : segs'[n].free = segs[n].free
  BY FlagFrees
<1>2. ASSUME NEW n \in 1..Len(segs)
      PROVE  segs'[n].oosm = IF n = i THEN S ELSE segs[n].oosm
  <2>1. segs[n] \in SegSet /\ n \in DOMAIN segs
    BY DEF Types
  <2>2. CASE n # i
    BY <2>1, <2>2
  <2>3. CASE n = i
    <3>1. segs'[n] = [segs[n] EXCEPT !.oosm = S]
      BY <2>1, <2>3
    <3>2. segs'[n].oosm = S
      BY <2>1, <3>1, Zenon DEF SegSet
    <3> QED BY <2>3, <3>2
  <2> QED BY <2>2, <2>3
<1> QED BY <1>1, <1>2 DEF SegsKept

LEMMA SegsSameFrame ==
  ASSUME segs' = segs
  PROVE  /\ Len(segs') = Len(segs)
         /\ \A n \in 1..Len(segs) : /\ segs'[n].over = segs[n].over /\ segs'[n].thr = segs[n].thr
                                    /\ segs'[n].free = segs[n].free
                                    /\ segs[n].oosm => segs'[n].oosm
OBVIOUS

\* The steps that leave the inbox of x alone.
LEMMA FrameHolds ==
  ASSUME MapInv, ChunkInv, WakeTypes, NEW x \in Ctxs,
         \/ Starts(x) \/ Flag(x) \/ ScanEnd(x) \/ Full(x) \/ SendOosm(x) \/ SendOosmFails(x)
         \/ Retry(x) \/ NewMmapFails(x) \/ SendMmapFails(x) \/ Count(x)
         \/ ScanPass(x) \/ ScanBusy(x) \/ ScanRunEnds(x) \/ ScanNext(x)
  PROVE  QuietFrame(x) /\ inbox' = inbox
<1>1. Types
  BY DEF MapInv
<1>2. /\ chan' = chan /\ bufs' = bufs /\ rbufs' = rbufs /\ freed' = freed /\ posts' = posts
      /\ (oosms' = oosms \/ oosms' = oosms + 1) /\ inbox' = inbox
  BY DEF Starts, GetBuf, Flag, ScanEnd, Full, SendOosm, SendOosmFails, Retry, NewMmapFails,
         SendMmapFails, Count, ScanPass, ScanBusy, ScanRunEnds, ScanNext, router
<1>3. ASSUME NEW n, HeldBy(n, x) PROVE HeldBy(n, x)'
  <2>1. SizeOf(x)
    BY DEF ChunkInv, Sizes
  <2>2. CASE \/ Starts(x) \/ Flag(x) \/ Full(x) \/ SendOosm(x) \/ SendOosmFails(x)
             \/ Retry(x) \/ NewMmapFails(x) \/ SendMmapFails(x) \/ Count(x)
    <3>1. ctx[x].pc \notin {"got", "sent", "drop"} \cup Seeking
      BY <2>2 DEF Starts, GetBuf, Flag, Full, SendOosm, SendOosmFails, Retry, NewMmapFails,
                  SendMmapFails, Count, Seeking
    <3> QED BY <1>2, <1>3, <3>1 DEF HeldBy
  <2>3. CASE ScanEnd(x) \/ ScanPass(x) \/ ScanBusy(x) \/ ScanNext(x)
    <3>1. ctx[x].pc = "scan" /\ ctx[x].cs = {}
      <4>1. CASE ScanEnd(x)
        <5>1. ctx[x].pc = "scan" /\ ctx[x].i > Len(segs)
          BY <4>1 DEF ScanEnd
        <5>2. Len(segs) \in Nat /\ ctx[x].i \in Nat
          BY <1>1 DEF Types, CtxSet
        <5> QED BY <2>1, <5>1, <5>2 DEF SizeOf, Seeking
      <4>2. CASE ScanPass(x)
        <5>1. ctx[x].pc = "scan" /\ ~Usable(x, segs[ctx[x].i])
          BY <4>2 DEF ScanPass, Scanning
        <5> QED BY <2>1, <5>1 DEF SizeOf, Seeking
      <4> QED BY <2>3, <4>1, <4>2 DEF ScanBusy, ScanNext, Looking, Scanning
    <3> QED BY <1>2, <1>3, <3>1 DEF HeldBy
  <2>4. CASE ScanRunEnds(x)
    <3>1. /\ ctx[x].pc = "scan" /\ ctx[x].i \in 1..Len(segs) /\ Usable(x, segs[ctx[x].i])
          /\ ctx[x].cs # {} /\ ctx'[x].cs = ctx[x].cs
          /\ \/ ctx'[x].pc = "got" /\ ctx'[x].s = segs[ctx[x].i].id
             \/ ctx'[x].pc = "undo" /\ ctx'[x].s = ctx[x].s
      BY <1>1, <2>4, ScanRunEndsFacts DEF Load1
    <3>2. ctx[x].s = ctx[x].i /\ segs[ctx[x].i].id = ctx[x].i
      BY <2>1, <3>1, UsableReady DEF SizeOf, Seeking
    <3> QED BY <1>2, <1>3, <3>1, <3>2 DEF HeldBy, Seeking
  <2> QED BY <2>2, <2>3, <2>4
<1>4. Others(x)
  <2>1. CASE Starts(x)
    BY <1>1, <2>1, GetBufFacts DEF Starts
  <2>2. CASE Flag(x)
    BY <1>1, <2>2, FlagFacts
  <2>3. CASE ScanEnd(x)
    <3>1. \E p \in {"full", "new"} : ctx' = [ctx EXCEPT ![x].pc = p]
      BY <2>3 DEF ScanEnd
    <3> QED BY <1>1, <3>1, PcFacts
  <2>4. CASE Full(x) \/ SendOosmFails(x) \/ NewMmapFails(x)
    <3>1. \E a : Refused(x, a)
      BY <2>4 DEF Full, SendOosmFails, NewMmapFails
    <3> QED BY <1>1, <3>1, RefusedFacts
  <2>5. CASE SendOosm(x)
    <3>1. CASE ctx[x].mode = "nb"
      BY <1>1, <2>5, <3>1, RefusedFacts DEF SendOosm
    <3>2. CASE ctx[x].mode # "nb"
      <4>1. ctx' = [ctx EXCEPT ![x].pc = "wait"]
        BY <2>5, <3>2 DEF SendOosm
      <4> QED BY <1>1, <4>1, PcFacts
    <3> QED BY <3>1, <3>2
  <2>6. CASE Retry(x)
    BY <1>1, <2>6, RetryFacts
  <2>7. CASE SendMmapFails(x)
    <3>1. ctx' = [ctx EXCEPT ![x].pc = "unsent"]
      BY <2>7 DEF SendMmapFails
    <3> QED BY <1>1, <3>1, PcFacts
  <2>8. CASE Count(x)
    BY <1>1, <2>8, CountFacts
  <2>9. CASE ScanPass(x) \/ ScanBusy(x) \/ ScanRunEnds(x) \/ ScanNext(x)
    BY <1>1, <2>9, ScanPassFacts, ScanBusyFacts, ScanRunEndsFacts, ScanNextFacts
  <2> QED BY <2>1, <2>2, <2>3, <2>4, <2>5, <2>6, <2>7, <2>8, <2>9
<1>5. \A z \in Ctxs \ {x} : drain'[z] = drain[z]
  <2>1. drain' = drain \/ \E a \in Drains : Refused(x, a)
    BY DEF Starts, GetBuf, Flag, ScanEnd, Full, SendOosm, SendOosmFails, Retry, NewMmapFails,
         SendMmapFails, Count, ScanPass, ScanBusy, ScanRunEnds, ScanNext, Drains
  <2> QED BY <2>1, RefusedDrain
<1>6. /\ Len(segs') = Len(segs)
      /\ \A n \in 1..Len(segs) : /\ segs'[n].over = segs[n].over /\ segs'[n].thr = segs[n].thr
                                 /\ segs'[n].free = segs[n].free
                                 /\ segs[n].oosm => segs'[n].oosm
  <2>1. CASE Flag(x)
    <3>1. segs' = [segs EXCEPT ![ctx[x].i].oosm = TRUE]
      BY <2>1 DEF Flag
    <3> QED BY <1>1, <3>1, OosmFacts
  <2>2. CASE SendMmapFails(x)
    BY <1>1, <2>2, UnmapFrees DEF SegsKept
  <2>3. CASE segs' = segs
    BY <2>3, SegsSameFrame
  <2> QED BY <2>1, <2>2, <2>3 DEF Starts, GetBuf, ScanEnd, Full, SendOosm, SendOosmFails,
        Retry, NewMmapFails, Count, ScanPass, ScanBusy, ScanRunEnds, ScanNext
<1> QED BY <1>2, <1>3, <1>4, <1>5, <1>6 DEF QuietFrame

LEMMA PlainSame ==
  ASSUME NEW x \in Ctxs, QuietFrame(x), NEW n \in 1..Len(segs), Plain(n, x)
  PROVE  Plain(n, x)'
<1>1. Firm(n)'
  BY FirmSame DEF QuietFrame, Plain
<1>2. segs'[n].over # Mapped => segs'[n].thr = x /\ segs'[n].free = {}
  BY DEF QuietFrame, Plain
<1> QED BY <1>1, <1>2 DEF Plain

\* The next segment is looked at, or the last one was.
LEMMA PassOwn ==
  ASSUME MapInv, MapInv', ChunkInv, WakeInv, NEW x \in Ctxs,
         \/ Starts(x) \/ Flag(x) \/ ScanEnd(x) \/ Full(x) \/ SendOosm(x) \/ SendOosmFails(x)
         \/ Retry(x) \/ NewMmapFails(x) \/ SendMmapFails(x) \/ Count(x)
         \/ ScanPass(x) \/ ScanBusy(x) \/ ScanRunEnds(x) \/ ScanNext(x)
  PROVE  PassOf(x)'
<1>1. Types /\ PassOf(x) /\ WakeTypes /\ Len(segs) \in Nat /\ ctx[x].i \in Nat \ {0}
  BY MapTypes DEF MapInv, WakeInv, Types, CtxSet
<1>2. QuietFrame(x) /\ inbox' = inbox
  BY <1>1, FrameHolds
<1>3. SegCalm /\ Noticed(x) /\ Len(segs') = Len(segs)
  BY <1>1, <1>2, QuietFrameFacts DEF QuietFrame
<1>4. \A n \in 1..Len(segs) : Plain(n, x) => Plain(n, x)'
  BY <1>2, PlainSame
<1>5. ctx'[x].pc \notin {"scan", "undo", "flag", "full"} => PassOf(x)'
  BY DEF PassOf, Passing
<1>6. ctx'[x].pc = "scan" /\ ctx'[x].i = 1 => PassOf(x)'
  BY <1>1, <1>3 DEF PassOf, Passing
<1>7. CASE Starts(x)
  BY <1>1, <1>5, <1>6, <1>7, GetBufFacts DEF Starts
<1>8. CASE Retry(x)
  BY <1>1, <1>6, <1>8, RetryFacts
<1>9. CASE Flag(x)
  <2>1. /\ ctx[x].pc = "flag" /\ ctx'[x].pc = "scan" /\ ctx'[x].i = ctx[x].i + 1
        /\ ctx'[x].mode = ctx[x].mode /\ ctx'[x].apart = ctx[x].apart
    BY <1>1, <1>9, FlagFacts DEF Kept1
  <2>2. \A n \in 1..Len(segs) : n = ctx[x].i => segs'[n].oosm
    <3>1. segs' = [segs EXCEPT ![ctx[x].i].oosm = TRUE]
      BY <1>9 DEF Flag
    <3> QED BY <1>1, <3>1, OosmFacts
  <2> SUFFICES ASSUME ctx'[x].mode # "probe", ~ctx'[x].apart, NEW n \in 1..Len(segs),
                      n < ctx'[x].i
               PROVE  Plain(n, x)' /\ (segs'[n].oosm \/ Signal(x)')
    BY <1>3, <2>1 DEF PassOf, Passing
  <2>3. CASE n = ctx[x].i
    <3>1. Plain(ctx[x].i, x)
      BY <1>1, <2>1 DEF PassOf, Passing
    <3>2. Plain(n, x)
      BY <2>3, <3>1
    <3> QED BY <1>4, <2>2, <2>3, <3>2
  <2>4. CASE n < ctx[x].i
    <3>1. Plain(n, x) /\ (segs[n].oosm \/ Signal(x))
      BY <1>1, <2>1, <2>4 DEF PassOf, Passing
    <3> QED BY <1>3, <1>4, <3>1 DEF Noticed
  <2> QED BY <1>1, <2>1, <2>3, <2>4
<1>10. CASE ScanEnd(x)
  <2>1. ctx[x].pc = "scan" /\ ctx[x].i > Len(segs)
        /\ \/ ctx' = [ctx EXCEPT ![x].pc = "new"]
           \/ Len(segs) >= Limit /\ ctx' = [ctx EXCEPT ![x].pc = "full"]
    BY <1>10 DEF ScanEnd
  <2>2. CASE ctx' = [ctx EXCEPT ![x].pc = "new"]
    <3>1. ctx'[x].pc = "new"
      BY <1>1, <2>2, PcFacts
    <3> QED BY <1>5, <3>1
  <2>3. CASE Len(segs) >= Limit /\ ctx' = [ctx EXCEPT ![x].pc = "full"]
    <3>1. /\ ctx'[x].pc = "full" /\ ctx'[x].i = ctx[x].i
          /\ ctx'[x].mode = ctx[x].mode /\ ctx'[x].apart = ctx[x].apart
      BY <1>1, <2>3, PcFacts DEF Kept1
    <3>2. Len(segs) = Limit
      BY <2>3, MapTypes
    <3> SUFFICES ASSUME ctx'[x].mode # "probe", ~ctx'[x].apart, NEW n \in 1..Len(segs),
                        n < ctx'[x].i
                 PROVE  Plain(n, x)' /\ (segs'[n].oosm \/ Signal(x)')
      BY <1>3, <2>1, <3>1, <3>2 DEF PassOf, Passing
    <3>3. Plain(n, x) /\ (segs[n].oosm \/ Signal(x))
      BY <1>1, <2>1, <3>1 DEF PassOf, Passing
    <3> QED BY <1>3, <1>4, <3>3 DEF Noticed
  <2> QED BY <2>1, <2>2, <2>3
<1>11. CASE ScanNext(x)
  <2> DEFINE i == ctx[x].i
  <2>1. /\ ctx[x].pc = "scan" /\ i \in 1..Len(segs) /\ Kept1(x)
        /\ \/ ctx'[x].pc = "scan" /\ ctx[x].mode = "probe"
           \/ /\ Usable(x, segs[i]) /\ ctx'[x].pc = "flag" /\ ctx'[x].i = i
              /\ ~ctx'[x].apart => ~ctx[x].apart /\ (segs[i].over = Mapped \/ segs[i].free = {})
    BY <1>1, <1>11, ScanNextFacts
  <2>2. CASE ctx'[x].pc = "scan" /\ ctx[x].mode = "probe"
    BY <2>1, <2>2 DEF PassOf, Passing, Kept1
  <2>3. CASE /\ Usable(x, segs[i]) /\ ctx'[x].pc = "flag" /\ ctx'[x].i = i
             /\ ~ctx'[x].apart => ~ctx[x].apart /\ (segs[i].over = Mapped \/ segs[i].free = {})
    <3> SUFFICES ASSUME ctx'[x].mode # "probe", ~ctx'[x].apart
                 PROVE  /\ \A n \in 1..Len(segs) :
                             n < i => Plain(n, x)' /\ (segs'[n].oosm \/ Signal(x)')
                        /\ Plain(ctx[x].i, x)'
      BY <1>3, <2>1, <2>3 DEF PassOf, Passing
    <3>1. ASSUME NEW n \in 1..Len(segs), n < i
          PROVE  Plain(n, x)' /\ (segs'[n].oosm \/ Signal(x)')
      <4>1. Plain(n, x) /\ (segs[n].oosm \/ Signal(x))
        BY <1>1, <2>1, <2>3, <3>1 DEF PassOf, Passing, Kept1
      <4> QED BY <1>3, <1>4, <4>1 DEF Noticed
    <3>2. Plain(i, x)
      <4>1. segs[i].over = Mapped \/ Told(segs[i].over, i)
        BY <2>1, <2>3 DEF MapInv, Links, SegsLinked, Usable, Making
      <4> QED BY <2>3, <4>1 DEF Plain, Firm, Usable
    <3>3. PICK k : k = i
      OBVIOUS
    <3>4. Plain(k, x)'
      BY <1>4, <2>1, <3>2, <3>3
    <3>5. ctx'[x].i = ctx[x].i /\ ctx[x].i = k
      BY <2>3, <3>3
    <3>6. Plain(ctx[x].i, x)'
      BY <3>4, <3>5 DEF Plain, Firm, Told, ToldIn
    <3> QED BY <3>1, <3>6
  <2> QED BY <2>1, <2>2, <2>3
<1>16. CASE ScanPass(x)
  BY <1>1, <1>16, ScanPassFacts DEF PassOf, Passing
<1>17. CASE ScanBusy(x)
  <2>1. /\ ctx'[x].pc = ctx[x].pc /\ ctx'[x].mode = ctx[x].mode /\ ctx'[x].i = ctx[x].i
        /\ ctx'[x].apart = ctx[x].apart
    BY <1>1, <1>17, ScanBusyFacts DEF Kept1
  <2>2. \A n \in 1..Len(segs) : segs'[n].free = segs[n].free
    BY <1>2 DEF QuietFrame
  <2> QED BY <1>1, <1>3, <2>1, <2>2, PassKept
<1>18. CASE ScanRunEnds(x)
  <2>1. /\ ctx[x].pc = "scan"
        /\ \/ ctx'[x].pc = "got"
           \/ /\ ctx'[x].pc = "undo" /\ ctx'[x].i = ctx[x].i /\ ctx'[x].mode = ctx[x].mode
              /\ ctx'[x].apart = ctx[x].apart
    BY <1>1, <1>18, ScanRunEndsFacts DEF Kept1
  <2>2. CASE ctx'[x].pc = "got"
    BY <1>5, <2>2
  <2>3. CASE ctx'[x].pc = "undo"
    <3> SUFFICES ASSUME ctx'[x].mode # "probe", ~ctx'[x].apart, NEW n \in 1..Len(segs),
                        n < ctx'[x].i
                 PROVE  Plain(n, x)' /\ (segs'[n].oosm \/ Signal(x)')
      BY <1>3, <2>3 DEF PassOf, Passing
    <3>1. Plain(n, x) /\ (segs[n].oosm \/ Signal(x))
      BY <1>1, <2>1, <2>3 DEF PassOf, Passing
    <3> QED BY <1>3, <1>4, <3>1 DEF Noticed
  <2> QED BY <2>1, <2>2, <2>3
<1>12. CASE Full(x) \/ SendOosmFails(x) \/ NewMmapFails(x)
  <2>1. \E a : Refused(x, a)
    BY <1>12 DEF Full, SendOosmFails, NewMmapFails
  <2> QED BY <1>1, <1>5, <2>1, RefusedFacts
<1>13. CASE SendOosm(x)
  <2>1. CASE ctx[x].mode = "nb"
    BY <1>1, <1>5, <1>13, <2>1, RefusedFacts DEF SendOosm
  <2>2. CASE ctx[x].mode # "nb"
    <3>1. ctx' = [ctx EXCEPT ![x].pc = "wait"]
      BY <1>13, <2>2 DEF SendOosm
    <3>2. ctx'[x].pc = "wait"
      BY <1>1, <3>1, PcFacts
    <3> QED BY <1>5, <3>2
  <2> QED BY <2>1, <2>2
<1>14. CASE SendMmapFails(x)
  <2>1. ctx' = [ctx EXCEPT ![x].pc = "unsent"]
    BY <1>14 DEF SendMmapFails
  <2>2. ctx'[x].pc = "unsent"
    BY <1>1, <2>1, PcFacts
  <2> QED BY <1>5, <2>2
<1>15. CASE Count(x)
  BY <1>1, <1>5, <1>15, CountFacts
<1> QED BY <1>7, <1>8, <1>9, <1>10, <1>11, <1>12, <1>13, <1>14, <1>15, <1>16, <1>17, <1>18

\* x does not wait in recv; what it asked for before is still coming.
LEMMA SleepOwn ==
  ASSUME MapInv, MapInv', ChunkInv, WakeInv, NEW x \in Ctxs,
         \/ Starts(x) \/ Flag(x) \/ ScanEnd(x) \/ Full(x) \/ SendOosmFails(x)
         \/ Retry(x) \/ NewMmapFails(x) \/ SendMmapFails(x) \/ Count(x)
         \/ ScanPass(x) \/ ScanBusy(x) \/ ScanRunEnds(x) \/ ScanNext(x)
  PROVE  SleepOf(x)'
<1>1. Types /\ SleepOf(x) /\ WakeTypes
  BY DEF MapInv, WakeInv
<1>2. QuietFrame(x) /\ inbox' = inbox
  BY <1>1, FrameHolds
<1>3. SegCalm /\ Noticed(x) /\ Calls(x, Ctxs)
  BY <1>1, <1>2, QuietFrameFacts
<1>4. SUFFICES /\ ctx'[x].pc # "wait" /\ (~ctx'[x].quit => ~ctx[x].quit)
               /\ drain'[x] = "asked" => drain[x] = "asked"
  BY <1>1, <1>3, SleepKept
<1>5. drain' = drain \/ Refused(x, "unasked")
  BY DEF Starts, GetBuf, Flag, ScanEnd, Full, SendOosmFails, Retry, NewMmapFails,
         SendMmapFails, Count, ScanPass, ScanBusy, ScanRunEnds, ScanNext
<1>6. drain'[x] = "asked" => drain[x] = "asked"
  BY <1>1, <1>5, RefusedDrain DEF Drains
<1>7. CASE Starts(x)
  BY <1>1, <1>6, <1>7, GetBufFacts DEF Starts
<1>8. CASE Retry(x)
  BY <1>1, <1>6, <1>8, RetryFacts DEF Kept1
<1>9. CASE Flag(x)
  BY <1>1, <1>6, <1>9, FlagFacts DEF Kept1
<1>10. CASE ScanEnd(x)
  <2>1. \E p \in {"full", "new"} : ctx' = [ctx EXCEPT ![x].pc = p]
    BY <1>10 DEF ScanEnd
  <2> QED BY <1>1, <1>6, <2>1, PcFacts DEF Kept1
<1>11. CASE ScanPass(x) \/ ScanBusy(x) \/ ScanRunEnds(x) \/ ScanNext(x)
  BY <1>1, <1>6, <1>11, ScanPassFacts, ScanBusyFacts, ScanRunEndsFacts, ScanNextFacts DEF Kept1
<1>12. CASE Full(x) \/ SendOosmFails(x) \/ NewMmapFails(x)
  <2>1. \E a : Refused(x, a)
    BY <1>12 DEF Full, SendOosmFails, NewMmapFails
  <2> QED BY <1>1, <1>6, <2>1, RefusedFacts
<1>14. CASE SendMmapFails(x)
  <2>1. ctx' = [ctx EXCEPT ![x].pc = "unsent"]
    BY <1>14 DEF SendMmapFails
  <2>2. ctx'[x].pc = "unsent" /\ ctx'[x].quit = ctx[x].quit
    BY <1>1, <2>1, PcFacts DEF Kept1
  <2> QED BY <1>6, <2>2
<1>15. CASE Count(x)
  BY <1>1, <1>6, <1>15, CountFacts
<1> QED BY <1>7, <1>8, <1>9, <1>10, <1>11, <1>12, <1>14, <1>15

\* A message of the router is read.
LEMMA ReadWake ==
  ASSUME MapInv, WakeInv, NEW x \in Ctxs,
         WaitAck(x) \/ WaitQuit(x) \/ ReadAck(x) \/ ReadQuit(x),
         NEW z \in Ctxs
  PROVE  PassOf(z)' /\ SleepOf(z)'
<1>1. Types /\ WakeTypes
  BY DEF MapInv, WakeInv
<1>2. /\ chan' = chan /\ bufs' = bufs /\ rbufs' = rbufs /\ freed' = freed /\ posts' = posts
      /\ oosms' = oosms /\ segs' = segs /\ ctx[x].pc \in {"wait", "idle"}
      /\ inbox' = [inbox EXCEPT ![x] = Tail(@)]
      /\ drain' = drain \/ drain' = [drain EXCEPT ![x] = drain'[x]]
  BY <1>1 DEF WaitAck, WaitQuit, ReadAck, ReadQuit, router, WakeTypes
<1>3. Others(x) /\ ctx'[x].pc \in {"idle", "retry"} /\ (drain'[x] = "asked" => ctx'[x].quit)
  <2>1. CASE WaitAck(x)
    <3>1. ctx' = [ctx EXCEPT ![x].pc = "retry"]
      BY <2>1 DEF WaitAck
    <3>2. Others(x) /\ ctx'[x].pc = "retry"
      BY <1>1, <3>1, PcFacts
    <3>3. drain'[x] # "asked"
      BY <1>1, <2>1 DEF WaitAck, WakeTypes
    <3> QED BY <3>2, <3>3
  <2>2. CASE WaitQuit(x) \/ ReadQuit(x)
    BY <1>1, <2>2, QuitFacts
  <2>3. CASE ReadAck(x)
    <3>1. drain'[x] # "asked"
      BY <1>1, <2>3 DEF ReadAck, WakeTypes
    <3> QED BY <1>1, <2>3, <3>1, ReadAckFacts
  <2> QED BY <2>1, <2>2, <2>3
<1>4. \A y \in Ctxs \ {x} : inbox'[y] = inbox[y] /\ drain'[y] = drain[y]
  BY <1>1, <1>2 DEF WakeTypes
<1>5. QuietFrame(x)
  <2>1. \A n : HeldBy(n, x) => HeldBy(n, x)'
    BY <1>2 DEF HeldBy, Seeking
  <2> QED BY <1>2, <1>3, <1>4, <2>1, SegsSameFrame DEF QuietFrame
<1>6. PassOf(x)' /\ SleepOf(x)'
  BY <1>3 DEF PassOf, Passing, SleepOf
<1> QED BY <1>5, <1>6, QuietOthersWake

-----------------------------------------------------------------------------
(* A context that asks: some chunk is not the application's own.           *)

\* The count is below the limit, so a chunk is not in it.
LEMMA SomeNotDue ==
  ASSUME Accounted, alloc < Limit * NChunks
  PROVE  \E n \in Segs, c \in Chunks : \A y \in Ctxs : ~InDue(bufs, ctx, y, n, c)
<1>1. Limit \in Nat \ {0} /\ NChunks \in Nat \ {0}
  BY UnitShmAssumption
<1>2. IsFiniteSet(Segs) /\ Cardinality(Segs) = Limit
  BY <1>1, FS_Interval DEF Segs
<1>3. IsFiniteSet(Chunks) /\ Cardinality(Chunks) = NChunks
  BY <1>1, FS_Interval DEF Chunks
<1>4. Cardinality(Segs \X Chunks) = Limit * NChunks
  BY <1>2, <1>3, FS_Product
<1>5. SUFFICES ASSUME \A n \in Segs, c \in Chunks : \E y \in Ctxs : InDue(bufs, ctx, y, n, c)
               PROVE  FALSE
  OBVIOUS
<1> DEFINE f == [p \in Due |-> p[2]]
<1>6. \A p \in Due : p[2] \in Segs \X Chunks
  BY DEF Due
<1>7. ASSUME NEW q \in Segs \X Chunks PROVE \E p \in Due : f[p] = q
  <2>1. q[1] \in Segs /\ q[2] \in Chunks /\ q = <<q[1], q[2]>>
    OBVIOUS
  <2>2. PICK y \in Ctxs : InDue(bufs, ctx, y, q[1], q[2])
    BY <1>5, <2>1
  <2>3. <<y, q>> \in Due /\ <<y, q>>[2] = q
    BY <2>2, DueIs
  <2>4. f[<<y, q>>] = q
    BY <2>3
  <2> QED BY <2>3, <2>4
<1>8. f \in Surjection(Due, Segs \X Chunks)
  BY <1>6, <1>7 DEF Surjection
<1>9. Cardinality(Segs \X Chunks) <= Cardinality(Due)
  <2> HIDE DEF f
  <2> QED BY <1>8, DueFinite, FS_Surjection
<1> QED BY <1>1, <1>4, <1>9, DueFinite DEF Accounted

\* Somebody has that chunk: the router, a message, a buffer about to be one, or
\* nobody.
LEMMA AskSource ==
  ASSUME MapInv, ChunkInv, WakeInv, NEW x \in Ctxs, SendOosm(x), ~ctx[x].apart
  PROVE  \E n \in 1..Len(segs) : \/ Source(n, Ctxs \ {x})
                                 \/ segs[n].over = Mapped /\ segs[n].free # {}
<1>1. /\ ctx[x].pc = "full" /\ ctx[x].mode # "probe" /\ ~AllOurs(x) /\ Types
      /\ PassOf(x) /\ OwnedAll /\ Sizes /\ Accounted
  BY OwnedIs DEF SendOosm, MapInv, WakeInv, ChunkInv
<1>2. /\ \A n \in 1..Len(segs) : n < ctx[x].i => Plain(n, x)
      /\ ctx[x].i > Len(segs) /\ Len(segs) = Limit
  BY <1>1 DEF PassOf, Passing
<1>3. ctx[x].i \in Nat /\ ctx[x].min \in Nat /\ Len(segs) \in Nat
  BY <1>1 DEF Types, CtxSet
<1>4. \A n \in 1..Len(segs) : Plain(n, x)
  BY <1>2, <1>3
<1>5. alloc < Limit * NChunks
  <2>1. alloc \in Nat
    BY <1>1, DueFinite DEF Accounted
  <2>2. Limit * NChunks \in Nat
    BY UnitShmAssumption
  <2> QED BY <1>1, <1>3, <2>1, <2>2 DEF AllOurs
<1>6. PICK n \in Segs, c \in Chunks : \A y \in Ctxs : ~InDue(bufs, ctx, y, n, c)
  BY <1>1, <1>5, SomeNotDue
<1>7. n \in 1..Len(segs) /\ Plain(n, x)
  BY <1>2, <1>4, <1>6 DEF Segs
<1>8. PICK h : Has(bufs, ctx, chan, rbufs, segs, h, n, c)
  BY <1>1, <1>7 DEF OwnedAll, OneHolder
<1> SUFFICES Source(n, Ctxs \ {x}) \/ (segs[n].over = Mapped /\ segs[n].free # {})
  BY <1>7
<1>9. CASE InBuffer(bufs, h, n, c)
  BY <1>6, <1>9 DEF InBuffer, InDue
<1>10. CASE InContext(ctx, h, n, c)
  <2>1. PICK y \in Ctxs : ctx[y].s = n /\ c \in ctx[y].cs
    BY <1>10 DEF InContext
  <2>2. ctx[y].pc \notin Bare /\ ctx[y].pc \in CtxPcs
    BY <1>1, <2>1 DEF Sizes, SizeOf, Types, CtxSet
  <2>3. y # x
    BY <1>1, <2>2 DEF Bare
  <2>4. ctx[y].pc \notin {"count", "free", "drop"}
    BY <1>6, <2>1 DEF InDue
  <2>5. ctx[y].pc \notin Making
    <3> SUFFICES ASSUME ctx[y].pc \in Making PROVE FALSE
      OBVIOUS
    <3>1. segs[n].over = ctx[y].eng /\ ~Told(ctx[y].eng, n) /\ ctx[y].eng \in Engines
      BY <1>1, <2>1 DEF MapInv, Links, MakersLinked, Types, CtxSet
    <3>2. segs[n].over # Mapped
      BY <3>1, UnitShmAssumption
    <3> QED BY <1>7, <3>1, <3>2 DEF Plain, Firm
  <2>6. ctx[y].pc \in {"got", "sent"} \cup Seeking /\ ctx[y].cs # {}
    BY <2>1, <2>2, <2>4, <2>5 DEF CtxPcs, Bare, Making, Seeking
  <2> QED BY <2>1, <2>3, <2>6 DEF Source, Posted, HeldBy
<1>11. CASE InMessage(chan, h, n, c)
  <2>1. PICK e \in Engines : \E k \in 1..Len(chan[e]) :
          chan[e][k].s = n /\ c \in chan[e][k].cs
    BY <1>11 DEF InMessage
  <2>2. PICK k \in 1..Len(chan[e]) : chan[e][k].s = n /\ c \in chan[e][k].cs
    BY <2>1
  <2>3. chan[e][k].kind = "data"
    BY <1>1, <2>2 DEF Sizes, ChanSizes
  <2> QED BY <2>2, <2>3 DEF Source, Posted, HeldBy
<1>12. CASE InRouter(rbufs, h, n, c)
  BY <1>12 DEF InRouter, Source, Posted, HeldBy
<1>13. CASE InMap(segs, h, n, c)
  BY <1>7, <1>13 DEF InMap, Plain
<1> QED BY <1>8, <1>9, <1>10, <1>11, <1>12, <1>13 DEF Has

LEMMA AskWake ==
  ASSUME MapInv, MapInv', ChunkInv, WakeInv, NEW x \in Ctxs, SendOosm(x)
  PROVE  SleepOf(x)'
<1>1. Types /\ PassOf(x) /\ SleepOf(x) /\ WakeTypes /\ Len(segs) \in Nat /\ ctx[x].i \in Nat
  BY MapTypes DEF MapInv, WakeInv, Types, CtxSet
<1>2. QuietFrame(x) /\ inbox' = inbox /\ segs' = segs
  BY <1>1, FrameHolds DEF SendOosm
<1>3. SegCalm /\ Noticed(x) /\ Calls(x, Ctxs) /\ Calls(x, Ctxs \ {x})
  BY <1>1, <1>2, QuietFrameFacts
<1>4. ctx[x].pc = "full" /\ ctx[x].mode # "probe" /\ oosms' = oosms + 1
  BY DEF SendOosm
<1>5. ASSUME ~ctx[x].apart PROVE Kept(x, Ctxs \ {x})' /\ Kept(x, Ctxs)'
  <2>1. CASE Signal(x)
    BY <1>3, <2>1 DEF Noticed, Kept
  <2>2. CASE ~Signal(x)
    <3>1. Len(segs') = Limit /\ \A n \in 1..Len(segs) : Firm(n) /\ segs[n].oosm
      BY <1>1, <1>2, <1>4, <1>5, <2>2 DEF PassOf, Passing, Plain
    <3>2. \A n \in 1..Len(segs') : segs'[n].oosm /\ Firm(n)'
      BY <1>2, <1>3, <3>1 DEF SegCalm
    <3>3. Signal(x)' \/ \E n \in 1..Len(segs') : Source(n, Ctxs \ {x})'
      <4>1. PICK n \in 1..Len(segs) : \/ Source(n, Ctxs \ {x})
                                      \/ segs[n].over = Mapped /\ segs[n].free # {}
        BY <1>5, AskSource
      <4>2. CASE Source(n, Ctxs \ {x})
        BY <1>2, <1>3, <4>2 DEF Calls
      <4>3. CASE segs[n].over = Mapped /\ segs[n].free # {}
        <5>1. oosms' > 0
          BY <1>1, <1>4 DEF WakeTypes
        <5>2. Source(n, Ctxs \ {x})'
          BY <1>2, <4>3, <5>1 DEF Source, Posted, HeldBy
        <5> QED BY <1>2, <5>2
      <4> QED BY <4>1, <4>2, <4>3
    <3>4. \A n : Source(n, Ctxs \ {x})' => Source(n, Ctxs)'
      BY DEF Source, Posted, HeldBy
    <3> QED BY <3>1, <3>2, <3>3, <3>4 DEF Kept
  <2> QED BY <2>1, <2>2
<1>6. CASE ctx[x].mode = "nb"
  <2>1. Refused(x, "asked")
    BY <1>6 DEF SendOosm
  <2>2. ctx'[x].pc = "idle" /\ ctx'[x].quit = ctx[x].quit
    BY <1>1, <2>1, RefusedFacts
  <2>3. CASE ctx[x].apart
    <3>1. drain'[x] = "apart"
      BY <1>1, <1>6, <2>1, <2>3 DEF Refused, WakeTypes
    <3> QED BY <2>2, <3>1 DEF SleepOf
  <2>4. CASE ~ctx[x].apart
    BY <1>5, <2>2, <2>4 DEF SleepOf
  <2> QED BY <2>3, <2>4
<1>7. CASE ctx[x].mode # "nb"
  <2>1. ctx' = [ctx EXCEPT ![x].pc = "wait"] /\ drain' = drain
    BY <1>7 DEF SendOosm
  <2>2. ctx'[x].quit = ctx[x].quit /\ ctx'[x].apart = ctx[x].apart
    BY <1>1, <2>1, PcFacts DEF Kept1
  <2>3. ASSUME ctx'[x].pc = "wait", ~ctx'[x].apart PROVE Kept(x, Ctxs \ {x})'
    BY <1>5, <2>2, <2>3
  <2>4. ASSUME drain'[x] = "asked", ~ctx'[x].quit PROVE Kept(x, Ctxs)'
    BY <1>1, <1>3, <2>1, <2>2, <2>4, KeptOn DEF SleepOf
  <2> QED BY <2>3, <2>4 DEF SleepOf
<1> QED BY <1>6, <1>7

\* All of the steps that move no chunk.
LEMMA QuietWake ==
  ASSUME MapInv, MapInv', ChunkInv, WakeInv, NEW x \in Ctxs, NEW z \in Ctxs,
         \/ Starts(x) \/ Flag(x) \/ ScanEnd(x) \/ Full(x) \/ SendOosm(x) \/ SendOosmFails(x)
         \/ Retry(x) \/ NewMmapFails(x) \/ SendMmapFails(x) \/ Count(x)
         \/ ScanPass(x) \/ ScanBusy(x) \/ ScanRunEnds(x) \/ ScanNext(x)
  PROVE  PassOf(z)' /\ SleepOf(z)'
<1>1. QuietFrame(x)
  BY FrameHolds DEF WakeInv
<1>2. PassOf(x)'
  BY PassOwn
<1>3. SleepOf(x)'
  BY AskWake, SleepOwn
<1> QED BY <1>1, <1>2, <1>3, QuietOthersWake

-----------------------------------------------------------------------------
(* The steps that move a chunk to somebody else.                           *)

LEMMA SourceKept ==
  ASSUME NEW x \in Ctxs, NEW H \in SUBSET Ctxs, x \in H, NEW n, Source(n, H),
         freed' = freed, oosms' = oosms, rbufs' = rbufs, Posted(n) => Posted(n)',
         \A y \in Ctxs \ {x} : HeldBy(n, y) => HeldBy(n, y)',
         HeldBy(n, x) => HeldBy(n, x)' \/ Posted(n)',
         segs[n].over = Mapped /\ segs[n].free # {} =>
           segs'[n].over = Mapped /\ (segs'[n].free # {} \/ HeldBy(n, x)')
  PROVE  Source(n, H)'
<1>1. CASE \E y \in H : HeldBy(n, y)
  <2>1. PICK y \in H : HeldBy(n, y)
    BY <1>1
  <2>2. HeldBy(n, y)' \/ Posted(n)'
    BY <2>1
  <2> QED BY <2>2 DEF Source
<1>2. CASE freed[n] > 0 \/ \E b \in rbufs : b.s = n
  BY <1>2 DEF Source
<1>3. CASE Posted(n)
  BY <1>3 DEF Source
<1>4. CASE segs[n].over = Mapped /\ segs[n].free # {} /\ oosms > 0
  BY <1>4 DEF Source
<1> QED BY <1>1, <1>2, <1>3, <1>4 DEF Source

LEMMA MoveWake ==
  ASSUME WakeInv, NEW x \in Ctxs, Others(x), inbox' = inbox, drain' = drain, posts' = posts,
         SegCalm,
         \A n \in 1..Len(segs) : /\ segs[n].oosm => segs'[n].oosm
                                 /\ segs[n].free = {} => segs'[n].free = {},
         ctx'[x].pc \in {"scan", "undo", "flag", "full"} => PassOf(x)',
         ctx'[x].pc # "wait", ctx'[x].quit = ctx[x].quit,
         \A H \in SUBSET Ctxs : \A n \in 1..Len(segs) :
           x \in H /\ Source(n, H) => Source(n, H)',
         NEW z \in Ctxs
  PROVE  PassOf(z)' /\ SleepOf(z)'
<1>1. PassOf(z) /\ SleepOf(z)
  BY DEF WakeInv
<1>2. Noticed(z)
  BY SignalSame DEF Noticed
<1>3. Calls(z, Ctxs) /\ (z # x => Calls(z, Ctxs \ {z}))
  BY DEF Calls
<1>4. CASE z = x
  <2>1. PassOf(z)'
    BY <1>4 DEF PassOf, Passing
  <2>2. SleepOf(z)'
    BY <1>1, <1>2, <1>3, <1>4, SleepKept
  <2> QED BY <2>1, <2>2
<1>5. CASE z # x
  <2>1. ctx'[z] = ctx[z]
    BY <1>5 DEF Others
  <2>2. PassOf(z)'
    BY <1>1, <1>2, <2>1, PassKept
  <2>3. SleepOf(z)'
    BY <1>1, <1>2, <1>3, <1>5, <2>1, SleepKept
  <2> QED BY <2>2, <2>3
<1> QED BY <1>4, <1>5

\* The chunk is in the hands of the context.
LEMMA ScanTakeWake ==
  ASSUME MapInv, ChunkInv, WakeInv, NEW x \in Ctxs, ScanTake(x), NEW z \in Ctxs
  PROVE  PassOf(z)' /\ SleepOf(z)'
<1> DEFINE i == ctx[x].i
           F == segs[i].free \ {ctx[x].at}
<1>1. /\ inbox' = inbox /\ drain' = drain /\ posts' = posts /\ freed' = freed
      /\ oosms' = oosms /\ rbufs' = rbufs /\ chan' = chan /\ bufs' = bufs
  BY DEF ScanTake, router
<1>2. /\ Others(x) /\ i \in 1..Len(segs) /\ ctx'[x].quit = ctx[x].quit
      /\ ctx[x].pc = "scan" /\ Usable(x, segs[i])
      /\ segs' = [segs EXCEPT ![i].free = F] /\ ctx'[x].s = segs[i].id
      /\ ctx'[x].cs = ctx[x].cs \cup {ctx[x].at}
      /\ \/ ctx'[x].pc = "got"
         \/ /\ ctx'[x].pc = "scan" /\ ctx'[x].i = i /\ ctx'[x].mode = ctx[x].mode
            /\ ctx'[x].apart = ctx[x].apart
  BY ScanTakeFacts DEF MapInv, Kept1
<1>3. F \subseteq segs[i].free
  OBVIOUS
<1> HIDE DEF F
<1>4. /\ Len(segs') = Len(segs)
      /\ \A n \in 1..Len(segs) :
              /\ segs'[n].free = IF n = i THEN F ELSE segs[n].free
              /\ segs'[n].oosm = segs[n].oosm /\ segs'[n].over = segs[n].over
              /\ segs'[n].thr = segs[n].thr
  BY <1>2, FreeFacts DEF MapInv
<1>5. SegCalm
  BY <1>1, <1>4, FirmSame DEF SegCalm
<1>6. ctx'[x].s = i /\ ctx'[x].cs # {}
  BY <1>2, UsableReady
<1>7. \A n \in 1..Len(segs) : /\ segs[n].oosm => segs'[n].oosm
                              /\ segs[n].free = {} => segs'[n].free = {}
  BY <1>3, <1>4
<1>8. ASSUME NEW H \in SUBSET Ctxs, NEW n \in 1..Len(segs), x \in H, Source(n, H)
      PROVE  Source(n, H)'
  <2>1. Posted(n) => Posted(n)'
    BY <1>1 DEF Posted
  <2>2. \A y \in Ctxs \ {x} : HeldBy(n, y) => HeldBy(n, y)'
    BY <1>1, <1>2 DEF HeldBy, Others
  <2>3. n = i => HeldBy(n, x)'
    BY <1>2, <1>6 DEF HeldBy, Seeking
  <2>4. ctx[x].cs # {} => ctx[x].s = i
    BY <1>2 DEF ChunkInv, Sizes, SizeOf, Seeking
  <2>5. HeldBy(n, x) => HeldBy(n, x)'
    <3>1. HeldBy(n, x) => n = i \/ \E b \in bufs[x] : b.s = n
      BY <1>2, <2>4 DEF HeldBy
    <3>2. (\E b \in bufs[x] : b.s = n) => HeldBy(n, x)'
      BY <1>1 DEF HeldBy
    <3> QED BY <2>3, <3>1, <3>2
  <2> QED BY <1>1, <1>4, <1>8, <2>1, <2>2, <2>3, <2>5, SourceKept
<1>9. ctx'[x].pc \in {"scan", "undo", "flag", "full"} => PassOf(x)'
  <2>1. Noticed(x) /\ PassOf(x)
    BY <1>1, <1>7, SignalSame DEF Noticed, WakeInv
  <2> QED BY <1>2, <1>5, <1>7, <2>1, PassKept
<1> QED BY <1>1, <1>2, <1>5, <1>7, <1>8, <1>9, MoveWake

\* They become a buffer.
LEMMA GotWake ==
  ASSUME MapInv, WakeInv, NEW x \in Ctxs, Got(x), NEW z \in Ctxs
  PROVE  PassOf(z)' /\ SleepOf(z)'
<1> DEFINE b == [s |-> ctx[x].s, cs |-> ctx[x].cs, eng |-> ctx[x].eng]
<1>1. /\ inbox' = inbox /\ drain' = drain /\ posts' = posts /\ freed' = freed
      /\ oosms' = oosms /\ rbufs' = rbufs /\ chan' = chan /\ segs' = segs
      /\ bufs' = [bufs EXCEPT ![x] = @ \cup {b}]
  BY DEF Got, router
<1>6. b.s = ctx[x].s
  OBVIOUS
<1> HIDE DEF b
<1>2. /\ Others(x) /\ ctx'[x].pc = "idle" /\ ctx'[x].quit = ctx[x].quit
      /\ ctx[x].pc \in {"got", "sent"}
  BY ToBack DEF Got, MapInv
<1>3. SegCalm
  BY <1>1, FirmSame DEF SegCalm
<1>4. bufs'[x] = bufs[x] \cup {b} /\ \A y \in Ctxs \ {x} : bufs'[y] = bufs[y]
  BY <1>1 DEF MapInv, Types
<1>5. ASSUME NEW H \in SUBSET Ctxs, NEW n \in 1..Len(segs), x \in H, Source(n, H)
      PROVE  Source(n, H)'
  <2>1. Posted(n) => Posted(n)'
    BY <1>1 DEF Posted
  <2>2. \A y \in Ctxs \ {x} : HeldBy(n, y) => HeldBy(n, y)'
    BY <1>2, <1>4 DEF HeldBy, Others
  <2>3. HeldBy(n, x) => HeldBy(n, x)'
    BY <1>2, <1>4, <1>6 DEF HeldBy, Seeking
  <2> QED BY <1>1, <1>5, <2>1, <2>2, <2>3, SourceKept
<1> QED BY <1>1, <1>2, <1>3, <1>5, MoveWake

\* A buffer is given up.
LEMMA FreeBufWake ==
  ASSUME MapInv, WakeInv, NEW x \in Ctxs, NEW b \in bufs[x], FreeBuf(x, b), NEW z \in Ctxs
  PROVE  PassOf(z)' /\ SleepOf(z)'
<1>1. /\ inbox' = inbox /\ drain' = drain /\ posts' = posts /\ freed' = freed
      /\ oosms' = oosms /\ rbufs' = rbufs /\ chan' = chan /\ segs' = segs
      /\ bufs' = [bufs EXCEPT ![x] = @ \ {b}]
  BY DEF FreeBuf, router
<1>2. /\ Others(x) /\ ctx[x].pc = "idle" /\ ctx'[x].pc = "drop" /\ ctx'[x].quit = ctx[x].quit
      /\ ctx'[x].s = b.s
  BY FreeBufFacts DEF MapInv, Kept1
<1>3. SegCalm
  BY <1>1, FirmSame DEF SegCalm
<1>4. bufs'[x] = bufs[x] \ {b} /\ \A y \in Ctxs \ {x} : bufs'[y] = bufs[y]
  BY <1>1 DEF MapInv, Types
<1>5. ASSUME NEW H \in SUBSET Ctxs, NEW n \in 1..Len(segs), x \in H, Source(n, H)
      PROVE  Source(n, H)'
  <2>1. Posted(n) => Posted(n)'
    BY <1>1 DEF Posted
  <2>2. \A y \in Ctxs \ {x} : HeldBy(n, y) => HeldBy(n, y)'
    BY <1>2, <1>4 DEF HeldBy, Others
  <2>3. HeldBy(n, x) => HeldBy(n, x)'
    BY <1>2, <1>4 DEF HeldBy, Seeking
  <2> QED BY <1>1, <1>5, <2>1, <2>2, <2>3, SourceKept
<1> QED BY <1>1, <1>2, <1>3, <1>5, MoveWake

LEMMA ChanGrowsWake ==
  ASSUME MapInv, NEW o \in Engines, NEW m \in MsgSet, segs' = segs,
         chan' = [chan EXCEPT ![o] = Append(@, m)]
  PROVE  /\ SegCalm /\ \A n : Posted(n) => Posted(n)'
         /\ m.kind = "data" => Posted(m.s)'
<1>1. /\ \A e \in Engines : \A n : Told(e, n) => Told(e, n)'
      /\ \A e \in Engines :
              /\ Len(chan'[e]) = IF e = o THEN Len(chan[e]) + 1 ELSE Len(chan[e])
              /\ \A k \in 1..Len(chan[e]) : chan'[e][k] = chan[e][k]
      /\ chan'[o][Len(chan[o]) + 1] = m
  BY ChanGrows DEF MapInv
<1>2. \A e \in Engines : Len(chan[e]) \in Nat
  BY DEF MapInv, Types
<1>3. \A n \in 1..Len(segs) : segs[n].over \in Engines \cup {Mapped}
  <2>1. \A n \in 1..Len(segs) : segs[n] \in SegSet
    BY DEF MapInv, Types
  <2> QED BY <2>1 DEF SegSet
<1>4. ASSUME NEW n \in 1..Len(segs), Firm(n) PROVE Firm(n)'
  <2>1. CASE segs[n].over = Mapped
    BY <2>1 DEF Firm
  <2>2. CASE segs[n].over # Mapped
    <3>1. PICK e \in Engines : e = segs[n].over
      BY <1>3, <2>2
    <3>2. Told(e, n)'
      BY <1>1, <1>4, <2>2, <3>1 DEF Firm
    <3>3. segs'[n].over = e
      BY <3>1
    <3> QED BY <3>2, <3>3 DEF Firm, Told, ToldIn
  <2> QED BY <2>1, <2>2
<1>5. SegCalm
  BY <1>4 DEF SegCalm
<1>6. ASSUME NEW n, Posted(n) PROVE Posted(n)'
  <2>1. PICK e \in Engines : \E k \in 1..Len(chan[e]) : chan[e][k].kind = "data" /\ chan[e][k].s = n
    BY <1>6 DEF Posted
  <2>2. PICK k \in 1..Len(chan[e]) : chan[e][k].kind = "data" /\ chan[e][k].s = n
    BY <2>1
  <2>3. k \in 1..Len(chan'[e]) /\ chan'[e][k] = chan[e][k]
    BY <1>1, <1>2, <2>2
  <2> QED BY <2>2, <2>3 DEF Posted
<1>7. ASSUME m.kind = "data" PROVE Posted(m.s)'
  <2>1. PICK k : k = Len(chan[o]) + 1
    OBVIOUS
  <2>2. k \in 1..Len(chan'[o]) /\ chan'[o][k] = m
    BY <1>1, <1>2, <2>1
  <2> QED BY <1>7, <2>2 DEF Posted
<1> QED BY <1>5, <1>6, <1>7

\* A part of a buffer goes.
LEMMA SendBufWake ==
  ASSUME MapInv, WakeInv, NEW x \in Ctxs, NEW b \in bufs[x],
         NEW l \in 1..Cardinality(b.cs), SendBuf(x, b, l), NEW z \in Ctxs
  PROVE  PassOf(z)' /\ SleepOf(z)'
<1> DEFINE used == {c \in b.cs : c < Min(b.cs) + l}
           m == [kind |-> "data", s |-> b.s, cs |-> used]
<1>1. /\ inbox' = inbox /\ drain' = drain /\ posts' = posts /\ freed' = freed
      /\ oosms' = oosms /\ rbufs' = rbufs /\ segs' = segs
      /\ bufs' = [bufs EXCEPT ![x] = @ \ {b}] /\ chan' = [chan EXCEPT ![b.eng] = Append(@, m)]
  BY DEF SendBuf, router
<1>2. /\ Others(x) /\ ctx[x].pc = "idle" /\ ctx'[x].pc = "count" /\ ctx'[x].quit = ctx[x].quit
  BY SendBufFacts DEF MapInv, Kept1
<1>3. b \in BufSet /\ b.eng \in Engines /\ used \subseteq b.cs
  BY DEF MapInv, Types, BufSet
<1> HIDE DEF used
<1>4. m \in MsgSet /\ m.kind = "data" /\ m.s = b.s
  BY <1>3 DEF MsgSet, BufSet
<1> HIDE DEF m
<1>5. SegCalm /\ (\A n : Posted(n) => Posted(n)') /\ Posted(m.s)'
  BY <1>1, <1>3, <1>4, ChanGrowsWake
<1>6. bufs'[x] = bufs[x] \ {b} /\ \A y \in Ctxs \ {x} : bufs'[y] = bufs[y]
  BY <1>1 DEF MapInv, Types
<1>7. ASSUME NEW H \in SUBSET Ctxs, NEW n \in 1..Len(segs), x \in H, Source(n, H)
      PROVE  Source(n, H)'
  <2>1. Posted(n) => Posted(n)'
    BY <1>5
  <2>2. \A y \in Ctxs \ {x} : HeldBy(n, y) => HeldBy(n, y)'
    BY <1>2, <1>6 DEF HeldBy, Others
  <2>3. n = b.s => Posted(n)'
    BY <1>4, <1>5
  <2>4. HeldBy(n, x) => HeldBy(n, x)' \/ Posted(n)'
    BY <1>2, <1>6, <2>3 DEF HeldBy, Seeking
  <2> QED BY <1>1, <1>7, <2>1, <2>2, <2>4, SourceKept
<1> QED BY <1>1, <1>2, <1>5, <1>7, MoveWake

\* A segment is announced.
LEMMA SendMmapWake ==
  ASSUME MapInv, WakeInv, NEW x \in Ctxs, SendMmap(x), NEW z \in Ctxs
  PROVE  PassOf(z)' /\ SleepOf(z)'
<1> DEFINE m == [kind |-> "mmap", s |-> ctx[x].s, cs |-> {}]
<1>1. /\ inbox' = inbox /\ drain' = drain /\ posts' = posts /\ freed' = freed
      /\ oosms' = oosms /\ rbufs' = rbufs /\ segs' = segs /\ bufs' = bufs
      /\ chan' = [chan EXCEPT ![ctx[x].eng] = Append(@, m)] /\ ctx[x].pc = "mmap"
      /\ ctx' = [ctx EXCEPT ![x].pc = "sent"]
  BY DEF SendMmap, router
<1>2. /\ Others(x) /\ ctx'[x].pc = "sent" /\ ctx'[x].quit = ctx[x].quit
  BY <1>1, PcFacts DEF MapInv, Kept1
<1>3. m \in MsgSet /\ ctx[x].eng \in Engines
  BY DEF MapInv, Types, CtxSet, MsgSet
<1> HIDE DEF m
<1>4. SegCalm /\ (\A n : Posted(n) => Posted(n)')
  BY <1>1, <1>3, ChanGrowsWake
<1>5. ASSUME NEW H \in SUBSET Ctxs, NEW n \in 1..Len(segs), x \in H, Source(n, H)
      PROVE  Source(n, H)'
  <2>1. Posted(n) => Posted(n)'
    BY <1>4
  <2>2. \A y \in Ctxs \ {x} : HeldBy(n, y) => HeldBy(n, y)'
    BY <1>1, <1>2 DEF HeldBy, Others
  <2>3. HeldBy(n, x) => HeldBy(n, x)'
    BY <1>1 DEF HeldBy, Seeking
  <2> QED BY <1>1, <1>5, <2>1, <2>2, <2>3, SourceKept
<1> QED BY <1>1, <1>2, <1>4, <1>5, MoveWake

-----------------------------------------------------------------------------
(* The steps that add, drop or free.                                       *)

\* What a context frees itself is no source of an ack, and it is noted.
LEMMA ReleaseWake ==
  ASSUME MapInv, ChunkInv, WakeInv, NEW x \in Ctxs, Release(x), NEW z \in Ctxs
  PROVE  PassOf(z)' /\ SleepOf(z)'
<1> DEFINE i == ctx[x].s
           F == segs[i].free \cup ctx[x].cs
<1>1. /\ inbox' = inbox /\ posts' = posts /\ freed' = freed /\ oosms' = oosms
      /\ rbufs' = rbufs /\ chan' = chan /\ bufs' = bufs
      /\ segs' = [segs EXCEPT ![i].free = F]
      /\ drain' = [y \in Ctxs |-> IF ctx[x].pc = "drop" /\ drain[y] = "asked" THEN "apart"
                                  ELSE drain[y]]
  BY DEF Release, router
<1>2. /\ ctx[x].pc \in {"free", "drop"} /\ ctx'[x].pc = "count" /\ ctx'[x].quit = ctx[x].quit
      /\ \A y \in Ctxs \ {x} :
              /\ ctx'[y].pc = ctx[y].pc /\ ctx'[y].i = ctx[y].i /\ ctx'[y].mode = ctx[y].mode
              /\ ctx'[y].quit = ctx[y].quit /\ ctx'[y].s = ctx[y].s /\ ctx'[y].cs = ctx[y].cs
              /\ ~ctx'[y].apart => /\ ~ctx[y].apart
                                   /\ ~(ctx[x].pc = "drop" /\ ctx[y].pc = "wait")
  BY ReleaseFacts DEF MapInv, Kept1, Load1
<1>3. i \in 1..Len(segs) /\ (segs[i].over = Mapped \/ segs[i].thr = x)
  BY <1>2 DEF ChunkInv, Sizes, SizeOf, Bare
<1> HIDE DEF F
<1>4. /\ Len(segs') = Len(segs)
      /\ \A n \in 1..Len(segs) :
              /\ segs'[n].free = IF n = i THEN F ELSE segs[n].free
              /\ segs'[n].oosm = segs[n].oosm /\ segs'[n].over = segs[n].over
              /\ segs'[n].thr = segs[n].thr
  BY <1>1, <1>3, FreeFacts DEF MapInv
<1>5. SegCalm
  BY <1>1, <1>4, FirmSame DEF SegCalm
<1>6. PassOf(z) /\ SleepOf(z) /\ Noticed(z)
  BY <1>1, <1>4, SignalSame DEF Noticed, WakeInv
<1>7. \A n \in 1..Len(segs) : segs[n].free \subseteq segs'[n].free
  BY <1>4 DEF F
<1>8. ASSUME ctx[x].pc = "free", NEW H \in SUBSET Ctxs, x \in H PROVE Calls(z, H)
  <2> SUFFICES ASSUME NEW n \in 1..Len(segs), Source(n, H) PROVE Source(n, H)'
    BY DEF Calls
  <2>1. Posted(n) => Posted(n)'
    BY <1>1 DEF Posted
  <2>2. \A y \in Ctxs \ {x} : HeldBy(n, y) => HeldBy(n, y)'
    BY <1>1, <1>2 DEF HeldBy
  <2>3. HeldBy(n, x) => HeldBy(n, x)'
    BY <1>1, <1>8 DEF HeldBy, Seeking
  <2>4. segs[n].free # {} => segs'[n].free # {}
    BY <1>7
  <2> QED BY <1>1, <1>4, <1>8, <2>1, <2>2, <2>3, <2>4, SourceKept
<1>9. drain'[z] = "asked" => drain[z] = "asked" /\ ctx[x].pc = "free"
  BY <1>1, <1>2
<1>10. CASE z = x
  <2>1. PassOf(z)'
    BY <1>2, <1>10 DEF PassOf, Passing
  <2>2. SleepOf(z)'
    BY <1>2, <1>5, <1>6, <1>8, <1>9, <1>10, SleepKept
  <2> QED BY <2>1, <2>2
<1>11. CASE z # x
  <2>1. \A n \in 1..Len(segs) :
          segs[n].over # Mapped /\ segs[n].thr = z /\ segs[n].free = {} => segs'[n].free = {}
    BY <1>3, <1>4, <1>11
  <2>2. PassOf(z)'
    BY <1>2, <1>5, <1>6, <1>11, <2>1, PassKept
  <2>3. ctx[x].pc = "free" => Calls(z, Ctxs) /\ Calls(z, Ctxs \ {z})
    BY <1>8, <1>11
  <2>4. SleepOf(z)'
    BY <1>2, <1>5, <1>6, <1>9, <1>11, <2>3, SleepKept
  <2> QED BY <2>2, <2>4
<1> QED BY <1>10, <1>11

\* A run that is given back is noted of everybody who waits.
LEMMA UndoWake ==
  ASSUME MapInv, ChunkInv, WakeInv, NEW x \in Ctxs, Undo(x), NEW z \in Ctxs
  PROVE  PassOf(z)' /\ SleepOf(z)'
<1> DEFINE i == ctx[x].i
<1>1. /\ inbox' = inbox /\ posts' = posts /\ freed' = freed /\ oosms' = oosms
      /\ rbufs' = rbufs /\ chan' = chan /\ bufs' = bufs
      /\ drain' = [y \in Ctxs |-> IF drain[y] = "asked" THEN "apart" ELSE drain[y]]
  BY DEF Undo, router
<1>2. /\ ctx[x].pc = "undo" /\ ctx'[x].i = i /\ ctx'[x].apart = ctx[x].apart
      /\ ctx'[x].mode = ctx[x].mode /\ ctx'[x].quit = ctx[x].quit
      /\ ctx'[x].pc \in {"scan", "undo"}
      /\ \A y \in Ctxs \ {x} :
              /\ ctx'[y].pc = ctx[y].pc /\ ctx'[y].i = ctx[y].i /\ ctx'[y].mode = ctx[y].mode
              /\ ctx'[y].quit = ctx[y].quit
              /\ ~ctx'[y].apart => ~ctx[y].apart /\ ctx[y].pc # "wait"
      /\ \E c \in ctx[x].cs : segs' = [segs EXCEPT ![i].free = segs[i].free \cup {c}]
  BY UndoFacts DEF MapInv, Kept1
<1>3. PICK F : segs' = [segs EXCEPT ![i].free = F] /\ F # {}
  BY <1>2
<1>4. i \in 1..Len(segs) /\ (segs[i].over = Mapped \/ segs[i].thr = x)
  BY <1>2 DEF ChunkInv, Sizes, SizeOf, Bare, Seeking
<1>5. /\ Len(segs') = Len(segs)
      /\ \A n \in 1..Len(segs) :
              /\ segs'[n].free = IF n = i THEN F ELSE segs[n].free
              /\ segs'[n].oosm = segs[n].oosm /\ segs'[n].over = segs[n].over
              /\ segs'[n].thr = segs[n].thr
  BY <1>3, <1>4, FreeFacts DEF MapInv
<1>6. SegCalm
  BY <1>1, <1>5, FirmSame DEF SegCalm
<1>7. PassOf(z) /\ SleepOf(z) /\ Noticed(z)
  BY <1>1, <1>5, SignalSame DEF Noticed, WakeInv
<1>8. drain'[z] # "asked"
  BY <1>1
<1>9. CASE z = x
  <2>1. SleepOf(z)'
    BY <1>2, <1>6, <1>7, <1>8, <1>9, SleepKept
  <2> SUFFICES ASSUME ctx'[x].mode # "probe", ~ctx'[x].apart, NEW n \in 1..Len(segs), n < i
               PROVE  Plain(n, x)' /\ (segs'[n].oosm \/ Signal(x)')
    BY <1>2, <1>5, <1>9, <2>1 DEF PassOf, Passing
  <2>2. Plain(n, x) /\ (segs[n].oosm \/ Signal(x))
    BY <1>2, <1>7, <1>9 DEF PassOf, Passing
  <2>3. n # i
    BY <1>4
  <2>4. segs'[n].free = segs[n].free /\ segs'[n].over = segs[n].over /\ segs'[n].thr = segs[n].thr
    BY <1>5, <2>3
  <2>5. Firm(n)'
    BY <1>6, <2>2 DEF SegCalm, Plain
  <2>6. Plain(n, x)'
    BY <2>2, <2>4, <2>5 DEF Plain
  <2> QED BY <1>7, <1>9, <2>2, <2>6 DEF Noticed
<1>10. CASE z # x
  <2>1. \A n \in 1..Len(segs) :
          segs[n].over # Mapped /\ segs[n].thr = z /\ segs[n].free = {} => segs'[n].free = {}
    BY <1>4, <1>5, <1>10
  <2>2. PassOf(z)'
    BY <1>2, <1>6, <1>7, <1>10, <2>1, PassKept
  <2>3. SleepOf(z)'
    BY <1>2, <1>6, <1>7, <1>8, <1>10, SleepKept
  <2> QED BY <2>2, <2>3
<1> QED BY <1>9, <1>10

LEMMA SleepSignal ==
  ASSUME NEW z \in Ctxs, SleepOf(z), \A H \in SUBSET Ctxs : Kept(z, H) => Signal(z)',
         ctx'[z].pc = "wait" /\ ~ctx'[z].apart => ctx[z].pc = "wait" /\ ~ctx[z].apart,
         drain'[z] = "asked" /\ ~ctx'[z].quit => drain[z] = "asked" /\ ~ctx[z].quit
  PROVE  SleepOf(z)'
<1>1. ASSUME ctx'[z].pc = "wait", ~ctx'[z].apart PROVE Kept(z, Ctxs \ {z})'
  BY <1>1 DEF SleepOf, Kept
<1>2. ASSUME drain'[z] = "asked", ~ctx'[z].quit PROVE Kept(z, Ctxs)'
  BY <1>2 DEF SleepOf, Kept
<1> QED BY <1>1, <1>2 DEF SleepOf

\* Below the limit nobody waits without an ack on its way.
LEMMA NewMmapWake ==
  ASSUME MapInv, WakeInv, NEW x \in Ctxs, NewMmap(x), NEW z \in Ctxs
  PROVE  PassOf(z)' /\ SleepOf(z)'
<1>1. inbox' = inbox /\ posts' = posts /\ drain' = drain
  BY DEF NewMmap, router
<1>2. Others(x) /\ ctx[x].pc = "new" /\ ctx'[x].pc = "mmap" /\ ctx'[x].quit = ctx[x].quit
  BY NewMmapFacts DEF MapInv, Kept1
<1>3. mutex = x /\ Len(segs) < Limit /\ Len(segs) \in Nat /\ Limit \in Nat
  BY <1>2, MapTypes DEF MapInv, Locked
<1>4. \A H \in SUBSET Ctxs : Kept(z, H) => Signal(z)'
  BY <1>1, <1>3, SignalSame DEF Kept
<1>5. SleepOf(z)'
  <2>1. ctx'[z].pc = "wait" /\ ~ctx'[z].apart => ctx[z].pc = "wait" /\ ~ctx[z].apart
    BY <1>2 DEF Others
  <2>2. ctx'[z].quit = ctx[z].quit
    BY <1>2 DEF Others
  <2>3. SleepOf(z)
    BY DEF WakeInv
  <2> QED BY <1>1, <1>4, <2>1, <2>2, <2>3, SleepSignal
<1>6. PassOf(z)'
  <2>1. CASE z = x
    BY <1>2, <2>1 DEF PassOf, Passing
  <2>2. CASE z # x
    <3>1. ctx'[z] = ctx[z] /\ ctx[z].pc \notin {"scan", "undo", "flag"}
      BY <1>2, <1>3, <2>2 DEF Others, MapInv, Locked
    <3>2. ~(ctx[z].pc = "full" /\ ctx[z].mode # "probe" /\ ~ctx[z].apart)
      BY <1>3 DEF WakeInv, PassOf, Passing
    <3> QED BY <3>1, <3>2 DEF PassOf, Passing
  <2> QED BY <2>1, <2>2
<1> QED BY <1>5, <1>6

\* The only segment was never announced, and nobody waits for it.
LEMMA UnsentWake ==
  ASSUME MapInv, WakeInv, NEW x \in Ctxs, Unsent(x), NEW z \in Ctxs
  PROVE  PassOf(z)' /\ SleepOf(z)'
<1>1. inbox' = inbox /\ posts' = posts /\ Refused(x, "unasked") /\ mutex = NoCtx
      /\ ctx[x].pc = "unsent"
  BY DEF Unsent, router
<1>2. Others(x) /\ ctx'[x].pc = "idle" /\ ctx'[x].quit = ctx[x].quit
  BY <1>1, RefusedFacts DEF MapInv
<1>3. /\ ctx[x].s \in 1..Len(segs) /\ Limit = 1 /\ segs[ctx[x].s].over = ctx[x].eng
      /\ ctx[x].eng \in Engines /\ \A e \in Engines : ~Told(e, ctx[x].s)
  BY <1>1 DEF MapInv, Links, MakersLinked, Making, Types, CtxSet
<1>4. Len(segs) = 1 /\ ctx[x].s = 1
  <2>1. Len(segs) \in Nat /\ Len(segs) <= 1
    BY <1>3, MapTypes
  <2>2. PICK i, l : i = ctx[x].s /\ l = Len(segs)
    OBVIOUS
  <2>3. l \in Nat /\ l <= 1 /\ i \in 1..l
    BY <1>3, <2>1, <2>2
  <2> QED BY <2>2, <2>3
<1>5. 1 \in 1..Len(segs) /\ ~Firm(1)
  BY <1>3, <1>4, UnitShmAssumption DEF Firm
<1>6. \A H \in SUBSET Ctxs : Kept(z, H) => Signal(z)'
  BY <1>1, <1>5, SignalSame DEF Kept
<1>7. SleepOf(z)'
  <2>1. ctx'[z].pc = "wait" /\ ~ctx'[z].apart => ctx[z].pc = "wait" /\ ~ctx[z].apart
    BY <1>2 DEF Others
  <2>2. ctx'[z].quit = ctx[z].quit
    BY <1>2 DEF Others
  <2>3. SleepOf(z) /\ WakeTypes
    BY DEF WakeInv
  <2>4. drain'[z] = "asked" => drain[z] = "asked"
    BY <1>1, <2>3, RefusedDrain DEF Drains
  <2> QED BY <1>6, <2>1, <2>2, <2>3, <2>4, SleepSignal
<1>8. PassOf(z)'
  <2>1. CASE z = x
    BY <1>2, <2>1 DEF PassOf, Passing
  <2>2. CASE z # x
    <3>1. ctx'[z] = ctx[z] /\ ctx[z].pc \notin {"scan", "undo", "flag"}
      BY <1>1, <1>2, <2>2, UnitShmAssumption DEF Others, MapInv, Locked
    <3>2. ~(ctx[z].pc = "full" /\ ctx[z].mode # "probe" /\ ~ctx[z].apart)
      BY <1>4, <1>5 DEF WakeInv, PassOf, Passing, Plain
    <3> QED BY <3>1, <3>2 DEF PassOf, Passing
  <2> QED BY <2>1, <2>2
<1> QED BY <1>7, <1>8

-----------------------------------------------------------------------------
(* The steps of the router.                                                *)

LEMMA RouterKeeps ==
  ASSUME WakeInv, ctx' = ctx, drain' = drain, SegCalm,
         \A n \in 1..Len(segs) : segs[n].over # Mapped => segs'[n].free = segs[n].free,
         NEW z \in Ctxs, Noticed(z), Calls(z, Ctxs), Calls(z, Ctxs \ {z})
  PROVE  PassOf(z)' /\ SleepOf(z)'
<1>1. PassOf(z) /\ SleepOf(z)
  BY DEF WakeInv
<1>2. PassOf(z)'
  BY <1>1, PassKept
<1>3. SleepOf(z)'
  BY <1>1, SleepKept
<1> QED BY <1>2, <1>3

LEMMA SignalAll ==
  ASSUME NEW z \in Ctxs, Signal(z)'
  PROVE  Noticed(z) /\ \A H \in SUBSET Ctxs : Calls(z, H)
BY DEF Noticed, Calls

LEMMA AckAllSignal ==
  ASSUME WakeTypes, AckAll, NEW z \in Ctxs
  PROVE  Signal(z)'
<1>1. inbox'[z] = Append(inbox[z], "ack")
  BY DEF AckAll
<1>2. inbox[z] \in Seq({"ack", "quit"}) /\ Len(inbox[z]) \in Nat
  BY DEF WakeTypes
<1>3. PICK k : k = Len(inbox[z]) + 1
  OBVIOUS
<1>4. k \in 1..Len(inbox'[z]) /\ inbox'[z][k] = "ack"
  BY <1>1, <1>2, <1>3
<1> QED BY <1>4 DEF Signal

LEMMA StillCalm ==
  ASSUME segs' = segs, chan' = chan
  PROVE  /\ SegCalm
         /\ \A n \in 1..Len(segs) : segs[n].over # Mapped => segs'[n].free = segs[n].free
BY FirmSame DEF SegCalm

\* An ack for everybody.
LEMMA BroadcastWake ==
  ASSUME WakeInv, Broadcast, NEW z \in Ctxs
  PROVE  PassOf(z)' /\ SleepOf(z)'
<1>1. segs' = segs /\ chan' = chan /\ ctx' = ctx /\ drain' = drain /\ AckAll
  BY DEF Broadcast
<1>2. Noticed(z) /\ Calls(z, Ctxs) /\ Calls(z, Ctxs \ {z})
  BY <1>1, AckAllSignal, SignalAll DEF WakeInv
<1> QED BY <1>1, <1>2, StillCalm, RouterKeeps

\* The handler answers when it finds memory; else the ack comes from elsewhere.
LEMMA OosmHandlerWake ==
  ASSUME MapInv, WakeInv, OosmHandler, NEW z \in Ctxs
  PROVE  PassOf(z)' /\ SleepOf(z)'
<1>1. /\ segs' = segs /\ chan' = chan /\ ctx' = ctx /\ drain' = drain /\ bufs' = bufs
      /\ rbufs' = rbufs /\ freed' = freed /\ posts' = posts
  BY DEF OosmHandler, router
<1>2. CASE AckAll
  <2>1. Noticed(z) /\ Calls(z, Ctxs) /\ Calls(z, Ctxs \ {z})
    BY <1>2, AckAllSignal, SignalAll DEF WakeInv
  <2> QED BY <1>1, <2>1, StillCalm, RouterKeeps
<1>3. CASE ~AckAll
  <2>1. inbox' = inbox /\ \A n \in 1..Len(segs) : ~(segs[n].over = Mapped /\ segs[n].free # {})
    <3>1. DOMAIN segs = 1..Len(segs)
      BY DEF MapInv, Types
    <3> QED BY <1>3, <3>1 DEF OosmHandler
  <2>2. Noticed(z)
    BY <1>1, <2>1, SignalSame DEF Noticed
  <2>3. \A H \in SUBSET Ctxs : Calls(z, H)
    BY <1>1, <2>1 DEF Calls, Source, Posted, HeldBy
  <2>4. Calls(z, Ctxs) /\ Calls(z, Ctxs \ {z})
    BY <2>3
  <2> QED BY <1>1, <2>2, <2>4, StillCalm, RouterKeeps
<1> QED BY <1>2, <1>3

\* The bits are freed before the flag is looked at.
LEMMA CompleteWake ==
  ASSUME MapInv, ChunkInv, WakeInv, NEW b \in rbufs, Complete(b), NEW z \in Ctxs
  PROVE  PassOf(z)' /\ SleepOf(z)'
<1> DEFINE F == segs[b.s].free \cup b.cs
<1>1. /\ segs' = [segs EXCEPT ![b.s].free = F] /\ chan' = chan /\ ctx' = ctx /\ drain' = drain
      /\ inbox' = inbox /\ posts' = posts /\ freed' = [freed EXCEPT ![b.s] = @ + 1]
  BY DEF Complete
<1>2. b.s \in 1..Len(segs) /\ segs[b.s].over = Mapped /\ b.s \in Segs
  BY MapTypes DEF ChunkInv, Sizes, RouterSizes
<1> HIDE DEF F
<1>3. /\ Len(segs') = Len(segs)
      /\ \A n \in 1..Len(segs) :
              /\ segs'[n].free = IF n = b.s THEN F ELSE segs[n].free
              /\ segs'[n].oosm = segs[n].oosm /\ segs'[n].over = segs[n].over
              /\ segs'[n].thr = segs[n].thr
  BY <1>1, <1>2, FreeFacts DEF MapInv
<1>4. SegCalm
  BY <1>1, <1>3, FirmSame DEF SegCalm
<1>5. Noticed(z)
  BY <1>1, <1>3, SignalSame DEF Noticed
<1>6. freed'[b.s] > 0
  BY <1>1, <1>2 DEF WakeInv, WakeTypes
<1>7. \A H : Source(b.s, H)'
  <2>1. PICK n : n = b.s
    OBVIOUS
  <2>2. freed'[n] > 0
    BY <1>6, <2>1
  <2>3. \A H : Source(n, H)'
    BY <2>2 DEF Source
  <2> QED BY <2>1, <2>3 DEF Source
<1>8. Calls(z, Ctxs) /\ Calls(z, Ctxs \ {z})
  BY <1>2, <1>7 DEF Calls
<1>9. \A n \in 1..Len(segs) : segs[n].over # Mapped => segs'[n].free = segs[n].free
  BY <1>2, <1>3
<1> QED BY <1>1, <1>4, <1>5, <1>8, <1>9, RouterKeeps

\* A flag is taken off, and an ack is posted.
LEMMA CompleteAckWake ==
  ASSUME MapInv, WakeInv, NEW s \in Segs, CompleteAck(s), NEW z \in Ctxs
  PROVE  PassOf(z)' /\ SleepOf(z)'
<1>1. /\ segs' = [segs EXCEPT ![s].oosm = FALSE] /\ chan' = chan /\ ctx' = ctx /\ drain' = drain
      /\ inbox' = inbox /\ posts' = posts + (IF segs[s].oosm THEN 1 ELSE 0)
      /\ bufs' = bufs /\ rbufs' = rbufs /\ oosms' = oosms
      /\ freed' = [freed EXCEPT ![s] = @ - 1]
  BY DEF CompleteAck
<1>2. /\ Len(segs') = Len(segs)
      /\ \A n \in 1..Len(segs) :
              /\ segs'[n].oosm = IF n = s THEN FALSE ELSE segs[n].oosm
              /\ segs'[n].over = segs[n].over /\ segs'[n].free = segs[n].free
              /\ segs'[n].thr = segs[n].thr
  BY <1>1, OosmFacts DEF MapInv
<1>3. SegCalm
  BY <1>1, <1>2, FirmSame DEF SegCalm
<1>4. posts' \in Nat /\ posts \in Nat /\ posts' >= posts /\ (segs[s].oosm => posts' > 0)
  BY <1>1 DEF WakeInv, WakeTypes
<1>5. \A n \in 1..Len(segs) : segs[n].over # Mapped => segs'[n].free = segs[n].free
  BY <1>2
<1>6. Signal(z) => Signal(z)'
  BY <1>1, <1>4 DEF Signal
<1>7. segs[s].oosm => Signal(z)'
  BY <1>4 DEF Signal
<1>8. CASE segs[s].oosm
  <2>1. Noticed(z) /\ Calls(z, Ctxs) /\ Calls(z, Ctxs \ {z})
    BY <1>7, <1>8, SignalAll
  <2> QED BY <1>1, <1>3, <1>5, <2>1, RouterKeeps
<1>9. CASE ~segs[s].oosm
  <2>1. Noticed(z)
    BY <1>2, <1>6, <1>9 DEF Noticed
  <2>2. PassOf(z)'
    BY <1>1, <1>3, <1>5, <2>1, PassKept DEF WakeInv
  <2>3. CASE s \in 1..Len(segs)
    <3>1. \A H \in SUBSET Ctxs : Kept(z, H) => Signal(z)'
      BY <1>6, <1>9, <2>3 DEF Kept
    <3>2. SleepOf(z)'
      BY <1>1, <3>1, SleepSignal DEF WakeInv
    <3> QED BY <2>2, <3>2
  <2>4. CASE s \notin 1..Len(segs)
    <3>1. \A n \in 1..Len(segs) : n \in Segs
      BY MapTypes
    <3>2. \A n \in 1..Len(segs) : freed'[n] = freed[n]
      BY <1>1, <2>4, <3>1 DEF WakeInv, WakeTypes
    <3>3. \A H \in SUBSET Ctxs : Calls(z, H)
      BY <1>1, <1>2, <3>2 DEF Calls, Source, Posted, HeldBy
    <3>4. Calls(z, Ctxs) /\ Calls(z, Ctxs \ {z})
      BY <3>3
    <3> QED BY <1>1, <1>3, <1>5, <2>1, <3>4, RouterKeeps
  <2> QED BY <2>3, <2>4
<1> QED BY <1>8, <1>9

\* Data becomes a buffer of the router, an announcement maps the segment.
LEMMA EngineRecvWake ==
  ASSUME MapInv, MapInv', WakeInv, NEW o \in Engines, EngineRecv(o), NEW z \in Ctxs
  PROVE  PassOf(z)' /\ SleepOf(z)'
<1> DEFINE m == chan[o][1]
<1>1. /\ ctx' = ctx /\ bufs' = bufs /\ drain' = drain /\ inbox' = inbox /\ oosms' = oosms
      /\ freed' = freed /\ posts' = posts
      /\ chan[o] # <<>> /\ chan' = [chan EXCEPT ![o] = Tail(@)]
      /\ Len(segs') = Len(segs)
      /\ \A n \in 1..Len(segs) :
           /\ segs'[n].oosm = segs[n].oosm /\ segs'[n].free = segs[n].free
           /\ segs'[n].thr = segs[n].thr
           /\ segs'[n].over = IF m.kind = "mmap" /\ n = m.s THEN Mapped ELSE segs[n].over
      /\ \/ m.kind = "mmap" /\ rbufs' = rbufs
         \/ m.kind = "data" /\ rbufs' = rbufs \cup {[s |-> m.s, cs |-> m.cs]}
  BY EngineRecvFacts
<1>2. /\ Len(chan[o]) \in Nat /\ Len(chan'[o]) = Len(chan[o]) - 1
      /\ \A k \in 1..(Len(chan[o]) - 1) : chan'[o][k] = chan[o][k + 1]
      /\ \A e \in Engines \ {o} : chan'[e] = chan[e]
  BY <1>1, ChanShrinks DEF MapInv
<1>3. ASSUME NEW e \in Engines, NEW j \in 1..Len(chan[e]), e # o \/ j # 1
      PROVE  \E k \in 1..Len(chan'[e]) : chan'[e][k] = chan[e][j]
  <2>1. CASE e # o
    BY <1>2, <2>1
  <2>2. CASE e = o
    <3>1. j - 1 \in 1..Len(chan'[o]) /\ chan'[o][j - 1] = chan[o][j]
      <4>1. j - 1 \in 1..(Len(chan[o]) - 1) /\ (j - 1) + 1 = j
        BY <1>2, <1>3, <2>2
      <4> QED BY <1>2, <4>1
    <3> QED BY <2>2, <3>1
  <2> QED BY <2>1, <2>2
<1>4. ASSUME NEW n \in 1..Len(segs), Firm(n) PROVE Firm(n)'
  <2>1. CASE segs'[n].over = Mapped
    BY <2>1 DEF Firm
  <2>2. CASE segs'[n].over # Mapped
    <3>1. segs'[n].over = segs[n].over /\ ~(m.kind = "mmap" /\ m.s = n)
      BY <1>1, <2>2
    <3>2. segs[n] \in SegSet
      BY DEF MapInv, Types
    <3>3. PICK e \in Engines : e = segs[n].over
      BY <2>2, <3>1, <3>2 DEF SegSet
    <3>4. PICK j \in 1..Len(chan[e]) : chan[e][j].kind = "mmap" /\ chan[e][j].s = n
      BY <1>4, <2>2, <3>1, <3>3 DEF Firm, Told, ToldIn
    <3>5. e # o \/ j # 1
      BY <3>1, <3>4
    <3>6. \E k \in 1..Len(chan'[e]) : chan'[e][k].kind = "mmap" /\ chan'[e][k].s = n
      BY <1>3, <3>4, <3>5
    <3> QED BY <3>1, <3>3, <3>6 DEF Firm, Told, ToldIn
  <2> QED BY <2>1, <2>2
<1>5. SegCalm
  BY <1>1, <1>4 DEF SegCalm
<1>6. Noticed(z)
  BY <1>1, SignalSame DEF Noticed
<1>7. ASSUME NEW n, Posted(n) PROVE Posted(n)' \/ \E b \in rbufs' : b.s = n
  <2>1. PICK e \in Engines : \E k \in 1..Len(chan[e]) : chan[e][k].kind = "data" /\ chan[e][k].s = n
    BY <1>7 DEF Posted
  <2>2. PICK j \in 1..Len(chan[e]) : chan[e][j].kind = "data" /\ chan[e][j].s = n
    BY <2>1
  <2>3. CASE e = o /\ j = 1
    <3>1. m.kind = "data" /\ m.s = n
      BY <2>2, <2>3
    <3>2. PICK b : b = [s |-> m.s, cs |-> m.cs]
      OBVIOUS
    <3>3. b.s = n
      BY <3>1, <3>2
    <3>4. b \in rbufs'
      BY <1>1, <3>1, <3>2
    <3> QED BY <3>3, <3>4
  <2>4. CASE e # o \/ j # 1
    <3>1. \E k \in 1..Len(chan'[e]) : chan'[e][k].kind = "data" /\ chan'[e][k].s = n
      BY <1>3, <2>2, <2>4
    <3> QED BY <3>1 DEF Posted
  <2> QED BY <2>3, <2>4
<1>8. \A b \in rbufs : b \in rbufs'
  BY <1>1
<1>9. ASSUME NEW H \in SUBSET Ctxs, NEW n \in 1..Len(segs), Source(n, H) PROVE Source(n, H)'
  <2>1. CASE Posted(n)
    BY <1>7, <2>1 DEF Source
  <2>2. CASE \E b \in rbufs : b.s = n
    BY <1>8, <2>2 DEF Source
  <2>3. CASE freed[n] > 0 \/ \E y \in H : HeldBy(n, y)
    BY <1>1, <2>3 DEF Source, HeldBy
  <2>4. CASE segs[n].over = Mapped /\ segs[n].free # {} /\ oosms > 0
    BY <1>1, <2>4 DEF Source
  <2> QED BY <1>9, <2>1, <2>2, <2>3, <2>4 DEF Source
<1>10. Calls(z, Ctxs) /\ Calls(z, Ctxs \ {z})
  BY <1>9 DEF Calls
<1> QED BY <1>1, <1>5, <1>6, <1>10, RouterKeeps

\* A message of main, or nothing at all.
LEMMA QuitWake ==
  ASSUME WakeInv, NEW z \in Ctxs,
         segs' = segs, chan' = chan, ctx' = ctx, drain' = drain, bufs' = bufs,
         rbufs' = rbufs, freed' = freed, posts' = posts, oosms' = oosms,
         inbox' = inbox \/ \E x \in Ctxs : inbox' = [inbox EXCEPT ![x] = Append(@, "quit")]
  PROVE  PassOf(z)' /\ SleepOf(z)'
<1>1. Calls(z, Ctxs) /\ Calls(z, Ctxs \ {z})
  <2>1. \A H \in SUBSET Ctxs : Calls(z, H)
    BY DEF Calls, Source, Posted, HeldBy
  <2> QED BY <2>1
<1>2. CASE inbox'[z] = inbox[z]
  <2>1. Noticed(z)
    BY <1>2, SignalSame DEF Noticed
  <2> QED BY <1>1, <2>1, StillCalm, RouterKeeps
<1>3. CASE inbox'[z] # inbox[z]
  <2>1. inbox[z] \in Seq({"ack", "quit"}) /\ Len(inbox[z]) \in Nat
        /\ inbox \in [Ctxs -> Seq({"ack", "quit"})]
    BY DEF WakeInv, WakeTypes
  <2>2. inbox'[z] = Append(inbox[z], "quit")
    BY <1>3, <2>1
  <2>3. PICK k : k = Len(inbox[z]) + 1
    OBVIOUS
  <2>4. k \in 1..Len(inbox'[z]) /\ inbox'[z][k] = "quit"
    BY <2>1, <2>2, <2>3
  <2>5. Signal(z)'
    BY <2>4 DEF Signal
  <2>6. Noticed(z)
    BY <2>5, SignalAll
  <2> QED BY <1>1, <2>6, StillCalm, RouterKeeps
<1> QED BY <1>2, <1>3

-----------------------------------------------------------------------------
(* The wake-ups are kept.                                                  *)

LEMMA WakeInit ==
  Init => WakeInv
<1> SUFFICES ASSUME Init PROVE WakeInv
  OBVIOUS
<1>1. WakeTypes
  <2>1. Segs \subseteq Nat /\ <<>> \in Seq({"ack", "quit"})
    BY UnitShmAssumption DEF Segs
  <2> QED BY <2>1 DEF Init, WakeTypes
<1>2. \A x \in Ctxs : ctx[x].pc = "idle" /\ drain[x] = "no"
  BY IdleType DEF Init
<1> QED BY <1>1, <1>2 DEF WakeInv, PassOf, Passing, SleepOf

LEMMA WakeStep ==
  ASSUME MapInv, MapInv', ChunkInv, WakeInv, [Next]_vars
  PROVE  WakeInv'
<1>1. ASSUME NEW x \in Ctxs, CtxStep(x) \/ Fails(x) \/ Ends(x) \/ Starts(x)
      PROVE  WakeInv'
  <2>1. WakeTypes'
    BY <1>1, CtxWakeTypes DEF WakeInv
  <2>2. ASSUME NEW z \in Ctxs PROVE PassOf(z)' /\ SleepOf(z)'
    <3>1. CASE \/ Starts(x) \/ Flag(x) \/ ScanEnd(x) \/ Full(x) \/ SendOosm(x) \/ SendOosmFails(x)
               \/ Retry(x) \/ NewMmapFails(x) \/ SendMmapFails(x) \/ Count(x)
               \/ ScanPass(x) \/ ScanBusy(x) \/ ScanRunEnds(x) \/ ScanNext(x)
      BY <3>1, QuietWake
    <3>2. CASE WaitAck(x) \/ WaitQuit(x) \/ ReadAck(x) \/ ReadQuit(x)
      BY <3>2, ReadWake
    <3>3. CASE ScanTake(x) \/ Undo(x)
      BY <3>3, ScanTakeWake, UndoWake
    <3>4. CASE NewMmap(x) \/ SendMmap(x) \/ Unsent(x) \/ Got(x) \/ Release(x)
      BY <3>4, NewMmapWake, SendMmapWake, UnsentWake, GotWake, ReleaseWake
    <3>5. CASE Quit(x)
      BY <3>5, QuitWake DEF Quit, router
    <3>6. CASE Ends(x)
      BY <3>6, FreeBufWake, SendBufWake DEF Ends
    <3> QED BY <1>1, <3>1, <3>2, <3>3, <3>4, <3>5, <3>6 DEF CtxStep, Fails
  <2> QED BY <2>1, <2>2 DEF WakeInv
<1>2. CASE RouterStep
  <2>1. WakeTypes'
    BY <1>2, RouterWakeTypes DEF WakeInv
  <2>2. ASSUME NEW z \in Ctxs PROVE PassOf(z)' /\ SleepOf(z)'
    BY <1>2, EngineRecvWake, CompleteWake, CompleteAckWake, BroadcastWake, OosmHandlerWake
       DEF RouterStep
  <2> QED BY <2>1, <2>2 DEF WakeInv
<1>3. CASE UNCHANGED vars
  <2>1. WakeTypes'
    BY <1>3 DEF vars, router, WakeInv, WakeTypes
  <2>2. ASSUME NEW z \in Ctxs PROVE PassOf(z)' /\ SleepOf(z)'
    BY <1>3, QuitWake DEF vars, router
  <2> QED BY <2>1, <2>2 DEF WakeInv
<1> QED BY <1>1, <1>2, <1>3 DEF Next

LEMMA KeptComes ==
  ASSUME MapInv, ChunkInv, WakeInv, NEW x \in Ctxs, NEW H \in SUBSET Ctxs, Kept(x, H)
  PROVE  AckComing(x, H)
<1>1. DOMAIN segs = 1..Len(segs) /\ DOMAIN inbox[x] = 1..Len(inbox[x])
      /\ \A e \in Engines : DOMAIN chan[e] = 1..Len(chan[e])
  <2>1. inbox[x] \in Seq({"ack", "quit"})
    BY DEF WakeInv, WakeTypes
  <2> QED BY <2>1 DEF MapInv, Types
<1>2. CASE Signal(x)
  BY <1>1, <1>2 DEF Signal, AckComing
<1>3. CASE ~Signal(x)
  <2>1. PICK n \in 1..Len(segs) : segs[n].oosm /\ Source(n, H)
    BY <1>3 DEF Kept
  <2>2. CASE freed[n] > 0 \/ \E b \in rbufs : b.s = n
    BY <1>1, <2>1, <2>2 DEF AckComing
  <2>3. CASE Posted(n)
    BY <1>1, <2>1, <2>3 DEF Posted, AckComing
  <2>4. CASE \E y \in H : HeldBy(n, y)
    <3>1. PICK y \in H : HeldBy(n, y)
      BY <2>4
    <3>2. ctx[y].pc \in {"got", "sent", "drop"} => ctx[y].cs # {}
      BY DEF ChunkInv, Sizes, SizeOf, Bare
    <3>3. (\E b \in bufs[y] : b.s = n) \/ (ctx[y].s = n /\ ctx[y].cs # {})
      BY <3>1, <3>2 DEF HeldBy
    <3> QED BY <1>1, <2>1, <3>3 DEF AckComing
  <2>5. CASE oosms > 0
    BY <2>5 DEF AckComing
  <2> QED BY <2>1, <2>2, <2>3, <2>4, <2>5 DEF Source
<1> QED BY <1>2, <1>3

\* A context that asked for memory is not forgotten, for any number of contexts,
\* engines, segments and chunks: nxt_unit_mmap_get() flags the segments it passes
\* over and then asks, the completion clears the flag and posts an ack, and
\* nxt_router_oosm_handler() looks for what was freed in between.  A chunk that a
\* context has taken for a run counts as held: if the run is long enough, its
\* data comes back through the router.  If it is too short it is given back, and
\* Undo excuses those that wait then.
THEOREM WaitersWoken == Orderly /\ Spec => []Woken
<1> DEFINE Inv == Orderly /\ MapInv /\ ChunkInv /\ WakeInv
<1>1. Orderly /\ Init => Inv
  BY MapInit, ChunkInit, WakeInit
<1>2. Inv /\ [Next]_vars => Inv'
  <2> SUFFICES ASSUME Inv, [Next]_vars PROVE Inv'
    OBVIOUS
  <2>1. Orderly' /\ MapInv'
    BY MapStep DEF Orderly
  <2>2. ChunkInv'
    BY <2>1, ChunkStep
  <2> QED BY <2>1, <2>2, WakeStep
<1>3. Inv => Woken
  <2> SUFFICES ASSUME Inv, NEW x \in Ctxs
               PROVE  /\ ctx[x].pc = "wait" /\ ~ctx[x].apart => AckComing(x, Ctxs \ {x})
                      /\ drain[x] = "asked" /\ ~ctx[x].quit => AckComing(x, Ctxs)
    BY DEF Woken
  <2>1. SleepOf(x)
    BY DEF WakeInv
  <2>2. \A H \in SUBSET Ctxs : Kept(x, H) => AckComing(x, H)
    BY KeptComes
  <2> QED BY <2>1, <2>2 DEF SleepOf
<1> QED BY <1>1, <1>2, <1>3, PTL DEF Spec

=============================================================================
