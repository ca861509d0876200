-------------------------------- MODULE Nncq --------------------------------
(***************************************************************************)
(* The numeric naive circular queue of src/src/nxt_nncq.h and, with        *)
(* CycleRange = Cycles, of src/src/nxt_app_nncq.h: an array of entries in  *)
(* memory shared by processes, a head and a tail, each moved only by       *)
(* compare-and-set.  Every access to shared memory is a step of its own.   *)
(*                                                                         *)
(* The queue has no test for "full".  Its two users, nxt_port_queue.h and  *)
(* nxt_app_queue.h, keep Size slot indexes in a pair of such queues, so a  *)
(* caller that enqueues a value took it out of the other queue before:     *)
(* "outside" is the set of values that are in no caller's hands and not    *)
(* in this queue.                                                          *)
(*                                                                         *)
(* head and tail wrap at IndexRange (2^32 in the code).  A thread          *)
(* that sleeps between its load and its compare-and-set while the others   *)
(* go around all CycleRange cycles meets its old values again; MaxStall    *)
(* bounds how far the others may run ahead of such a thread (the code      *)
(* needs 2^30 operations of others for it).                                *)
(***************************************************************************)
EXTENDS Integers, Sequences, FiniteSets

CONSTANTS Threads,     \* threads of the processes that map the queue
          Size,        \* NXT_NNCQ_SIZE
          Cycles,      \* 2^32 / NXT_NNCQ_SIZE
          CycleRange,  \* values of nxt_nncq_cycle_t, or NXT_APP_NNCQ_CYCLES
          Retries,     \* NXT_NNCQ_RETRIES
          MaxStall,    \* bound: positions a sleeping thread is overtaken by
          Patience     \* see Fifo

\* The static assertions of nxt_nncq.h:33-37 and nxt_app_nncq.h:32-37.
ASSUME SizeAssumption == Size \in Nat \ {0}
ASSUME CyclesAssumption == /\ Cycles \in Nat \ {0}
                           /\ CycleRange \in Nat \ {0, 1}
                           /\ Cycles % CycleRange = 0
ASSUME RetriesAssumption == Retries \in Nat \ {0}
ASSUME StallAssumption == MaxStall \in Nat /\ Patience \in Nat

VARIABLES head, tail, entries,
          outside,     \* values the callers may enqueue
          th,          \* th[p]: the locals of the call that p is in
          ret,         \* ret[p]: outcome of the last call
          seen         \* seen[p]: effects of others during the call of p

vars == <<head, tail, entries, outside, th, ret, seen>>

IndexRange == Size * Cycles
Values == 0 .. Size - 1

EnqPcs == {"enqTail", "enqEntry", "enqHelp", "enqCas", "enqInc"}
DeqPcs == {"deqHead", "deqEntry", "deqCas"}

\* pc: the next access to shared memory; val: the argument of the enqueue;
\* pos: t or h; ent: e; tries: r.
Idle == [pc |-> "idle", val |-> 0, pos |-> 0, ent |-> 0, tries |-> 0]

-----------------------------------------------------------------------------
(* The inline helpers.                                                      *)

Map(i) == i % Size
\* The cast to nxt_nncq_cycle_t truncates.
Cycle(i) == (i \div Size) % CycleRange
NextCycleNoWrap(c) == c + 1
NextCycle(c) == (c + 1) % CycleRange
NewEntry(c, v) == c * Size + (v % Size)

\* The bound on stalls: no thread that holds a position of the tail (pcs of
\* the enqueue) or of the head is overtaken by more than MaxStall.
NotLapped(i, pcs) ==
  \A p \in Threads : th[p].pc \in pcs => (i - th[p].pos) % IndexRange <= MaxStall

\* nxt_nncq_tail_cmp_inc(): moves the tail only if it is still t.
TailCmpInc(t) ==
  /\ tail = t => NotLapped(t + 1, EnqPcs \ {"enqTail"})
  /\ tail' = IF tail = t THEN (t + 1) % IndexRange ELSE tail

-----------------------------------------------------------------------------
(* Outcomes of the calls, and how a call starts, retries and ends.          *)

NoRet == [kind |-> "none", val |-> 0]
Ok == [kind |-> "ok", val |-> 0]
Error == [kind |-> "error", val |-> 0]
EmptyRet == [kind |-> "empty", val |-> 0]
Got(v) == [kind |-> "value", val |-> v]

\* The call of p has not taken effect yet.
Pending(p) == th[p].pc \notin {"idle", "enqInc"}

\* A call of p takes effect: the others that are in a call see it.
TakesEffect(p) ==
  seen' = [r \in Threads |->
             IF r = p THEN 0
             ELSE IF Pending(r) /\ seen[r] < Patience
                  THEN seen[r] + 1 ELSE seen[r]]

Start(p, pc, v) ==
  /\ th[p] = Idle
  /\ th' = [th EXCEPT ![p].pc = pc, ![p].val = v]
  /\ ret' = [ret EXCEPT ![p] = NoRet]
  /\ UNCHANGED <<head, tail, entries, seen>>

Return(p, r) ==
  /\ th' = [th EXCEPT ![p] = Idle]
  /\ ret' = [ret EXCEPT ![p] = r]

\* "continue": the loop again from loop, or failure without retries left.
LastTry(p) == th[p].tries + 1 = Retries
Again(p, loop) ==
  /\ ~LastTry(p)
  /\ th' = [th EXCEPT ![p].pc = loop, ![p].pos = 0, ![p].ent = 0,
                       ![p].tries = @ + 1]
  /\ UNCHANGED <<outside, ret, seen>>

RetryEnqueue(p) ==
  \/ Again(p, "enqTail")
  \/ /\ LastTry(p)
     /\ Return(p, Error)
     /\ outside' = outside \cup {th[p].val}
     /\ seen' = [seen EXCEPT ![p] = 0]

RetryDequeue(p) ==
  \/ Again(p, "deqHead")
  \/ /\ LastTry(p)
     /\ Return(p, EmptyRet)
     /\ seen' = [seen EXCEPT ![p] = 0]
     /\ UNCHANGED outside

Init == /\ head = Size /\ tail = Size
        /\ entries = [j \in Values |-> 0]
        /\ outside = Values
        /\ th = [p \in Threads |-> Idle]
        /\ ret = [p \in Threads |-> NoRet]
        /\ seen = [p \in Threads |-> 0]

-----------------------------------------------------------------------------
(* nxt_nncq_enqueue_pos()                                                   *)

Enqueue(p, v) ==
  /\ v \in outside
  /\ outside' = outside \ {v}
  /\ Start(p, "enqTail", v)

EnqLoadTail(p) ==
  /\ th[p].pc = "enqTail"
  /\ th' = [th EXCEPT ![p].pc = "enqEntry", ![p].pos = tail]
  /\ UNCHANGED <<head, tail, entries, outside, ret, seen>>

EnqLoadEntry(p) ==
  /\ th[p].pc = "enqEntry"
  /\ LET e == entries[Map(th[p].pos)]
         tc == Cycle(th[p].pos)
     IN \/ /\ Cycle(e) = tc
           /\ th' = [th EXCEPT ![p].pc = "enqHelp"]
           /\ UNCHANGED <<outside, ret, seen>>
        \/ /\ Cycle(e) # tc /\ NextCycle(Cycle(e)) # tc
           /\ RetryEnqueue(p)
        \/ /\ Cycle(e) # tc /\ NextCycle(Cycle(e)) = tc
           /\ th' = [th EXCEPT ![p].pc = "enqCas", ![p].ent = e]
           /\ UNCHANGED <<outside, ret, seen>>
  /\ UNCHANGED <<head, tail, entries>>

\* The entry is taken but the tail still points to it: help, then retry.
EnqHelpTail(p) ==
  /\ th[p].pc = "enqHelp"
  /\ TailCmpInc(th[p].pos)
  /\ RetryEnqueue(p)
  /\ UNCHANGED <<head, entries>>

\* The value goes into the queue.
Publish(p) ==
  /\ entries' = [entries EXCEPT ![Map(th[p].pos)] =
                    NewEntry(Cycle(th[p].pos), th[p].val)]
  /\ th' = [th EXCEPT ![p].pc = "enqInc"]
  /\ ret' = [ret EXCEPT ![p] = Ok]
  /\ TakesEffect(p)
  /\ UNCHANGED outside

\* A plain store in place of the compare-and-set.
EnqStoreEntry(p) ==
  /\ th[p].pc = "enqCas"
  /\ Publish(p)
  /\ UNCHANGED <<head, tail>>
EnqCasEntry(p) ==
  /\ th[p].pc = "enqCas"
  /\ \/ /\ entries[Map(th[p].pos)] = th[p].ent
        /\ Publish(p)
     \/ /\ entries[Map(th[p].pos)] # th[p].ent
        /\ RetryEnqueue(p)
        /\ UNCHANGED entries
  /\ UNCHANGED <<head, tail>>

EnqIncTail(p) ==
  /\ th[p].pc = "enqInc"
  /\ TailCmpInc(th[p].pos)
  /\ th' = [th EXCEPT ![p] = Idle]
  /\ UNCHANGED <<head, entries, outside, ret, seen>>

-----------------------------------------------------------------------------
(* nxt_nncq_dequeue()                                                       *)

Dequeue(p) == Start(p, "deqHead", 0) /\ UNCHANGED outside

DeqLoadHead(p) ==
  /\ th[p].pc = "deqHead"
  /\ th' = [th EXCEPT ![p].pc = "deqEntry", ![p].pos = head]
  /\ UNCHANGED <<head, tail, entries, outside, ret, seen>>

DeqLoadEntry(p) ==
  /\ th[p].pc = "deqEntry"
  /\ LET e == entries[Map(th[p].pos)]
         hc == Cycle(th[p].pos)
     IN \/ /\ Cycle(e) = hc
           /\ th' = [th EXCEPT ![p].pc = "deqCas", ![p].ent = e]
           /\ UNCHANGED <<outside, ret, seen>>
        \/ /\ Cycle(e) # hc /\ NextCycle(Cycle(e)) = hc
           /\ Return(p, EmptyRet)
           /\ seen' = [seen EXCEPT ![p] = 0]
           /\ UNCHANGED outside
        \/ /\ Cycle(e) # hc /\ NextCycle(Cycle(e)) # hc
           /\ RetryDequeue(p)
  /\ UNCHANGED <<head, tail, entries>>

\* The value leaves the queue.
TakeOut(p) ==
  /\ head' = (th[p].pos + 1) % IndexRange
  /\ Return(p, Got(Map(th[p].ent)))
  /\ outside' = outside \cup {Map(th[p].ent)}
  /\ TakesEffect(p)

DeqCasHead(p) ==
  /\ th[p].pc = "deqCas"
  /\ \/ /\ head = th[p].pos
        /\ NotLapped(head + 1, DeqPcs \ {"deqHead"})
        /\ TakeOut(p)
     \/ /\ head # th[p].pos
        /\ RetryDequeue(p)
        /\ UNCHANGED head
  /\ UNCHANGED <<tail, entries>>

-----------------------------------------------------------------------------
Next == \E p \in Threads :
          \/ \E v \in Values : Enqueue(p, v)
          \/ EnqLoadTail(p) \/ EnqLoadEntry(p) \/ EnqHelpTail(p)
          \/ EnqCasEntry(p) \/ EnqIncTail(p)
          \/ Dequeue(p)
          \/ DeqLoadHead(p) \/ DeqLoadEntry(p) \/ DeqCasHead(p)

Spec == Init /\ [][Next]_vars

-----------------------------------------------------------------------------
(* Properties.                                                              *)

\* The shared words and the locals of enqueue and dequeue keep their ranges:
\* an index is below 2^32, an entry below CycleRange * Size.
TypeOK ==
  /\ head \in 0 .. IndexRange - 1 /\ tail \in 0 .. IndexRange - 1
  /\ entries \in [Values -> 0 .. CycleRange * Size - 1]
  /\ outside \subseteq Values
  /\ th \in [Threads -> [pc : {"idle"} \cup EnqPcs \cup DeqPcs,
                         val : Values,
                         pos : 0 .. IndexRange - 1,
                         ent : 0 .. CycleRange * Size - 1,
                         tries : 0 .. Retries - 1]]
  /\ seen \in [Threads -> 0 .. Patience]

\* The first position that no value was published at: the tail, or one
\* further while an enqueuer has not moved the tail yet.
PublishedTail == IF Cycle(entries[Map(tail)]) = Cycle(tail)
                 THEN tail + 1 ELSE tail

\* The values in the queue, oldest first.
Contents == [k \in 1 .. (PublishedTail - head) % IndexRange |->
                Map(entries[Map(head + k - 1)])]

\* No slot index is lost or doubled (nxt_nncq_enqueue_pos, nxt_nncq_dequeue):
\* every value is in exactly one place, one position of the queue, the hands
\* of one enqueuer, or outside.
Conservation ==
  \A v \in Values :
    LET places == {k \in DOMAIN Contents : Contents[k] = v}
        hands == {p \in Threads : /\ th[p].pc \in EnqPcs \ {"enqInc"}
                                  /\ th[p].val = v}
    IN Cardinality(places) + Cardinality(hands)
         + (IF v \in outside THEN 1 ELSE 0) = 1

\* The head passes the tail by one at most: a dequeuer may take the entry
\* that an enqueuer has published and not yet moved the tail over.  So
\* tail - head, as nxt_app_queue_depth() computes it, is either a number of
\* items or 2^32 - 1.
HeadNearTail == \/ (tail - head) % IndexRange <= Size
                \/ /\ (tail - head) % IndexRange = IndexRange - 1
                   /\ \E p \in Threads : th[p].pc = "enqInc" /\ th[p].pos = tail

\* The counters and entries always describe a queue of distinct values
\* (nxt_nncq_enqueue_pos(), nxt_nncq_dequeue()).
QueueSound == Conservation /\ HeadNearTail

\* The calls linearise: every call is one atomic step of the abstract queue
\* between its start and its end; "empty" is reported only when the queue is
\* empty or the retries ran out, and those run out only under contention.
Calls == INSTANCE Fifo WITH
           queue <- Contents,
           op <- [p \in Threads |->
                    CASE ~Pending(p) -> [kind |-> "none", val |-> 0]
                      [] Pending(p) /\ th[p].pc \in EnqPcs ->
                           [kind |-> "put", val |-> th[p].val]
                      [] th[p].pc \in DeqPcs -> [kind |-> "take", val |-> 0]]
Linearizable == Calls!FSpec
=============================================================================
