---------------------------- MODULE AppQueueProof ----------------------------
(***************************************************************************)
(* Proofs about AppQueue for any number of engines, worker contexts, slots *)
(* and requests, and any number of crashes and of contexts that outlive    *)
(* their prototype (the doorbells, at the end, are enough until the first  *)
(* one).                                                                   *)
(***************************************************************************)
EXTENDS AppQueue, FiniteSetTheorems, TLAPS

\* Taking the oldest entry of a queue: it leaves the set of entries, once.
LEMMA TailFacts ==
  ASSUME NEW S, NEW q \in Seq(S), q # <<>>
  PROVE  /\ Head(q) \in S
         /\ Tail(q) \in Seq(S)
         /\ ToSet(q) = ToSet(Tail(q)) \cup {Head(q)}
         /\ IsInjective(q) => /\ IsInjective(Tail(q))
                              /\ Head(q) \notin ToSet(Tail(q))
<1>1. Len(q) \in Nat \ {0} /\ q \in [1 .. Len(q) -> S] /\ Head(q) = q[1]
  OBVIOUS
<1>2. Tail(q) \in Seq(S) /\ Len(Tail(q)) = Len(q) - 1
      /\ \A k \in 1 .. Len(q) - 1 : Tail(q)[k] = q[k + 1]
  OBVIOUS
<1>3. DOMAIN Tail(q) = 1 .. Len(q) - 1 /\ DOMAIN q = 1 .. Len(q)
  BY <1>1, <1>2
<1>4. ToSet(q) = ToSet(Tail(q)) \cup {Head(q)}
  <2>1. ASSUME NEW x \in ToSet(q) PROVE x \in ToSet(Tail(q)) \cup {Head(q)}
    <3>1. PICK k \in 1 .. Len(q) : x = q[k]
      BY <1>3 DEF ToSet
    <3>2. CASE k = 1
      BY <3>1, <3>2, <1>1
    <3>3. CASE k # 1
      <4>1. k - 1 \in 1 .. Len(q) - 1 /\ Tail(q)[k - 1] = q[k]
        BY <3>3, <1>1, <1>2
      <4> QED BY <4>1, <3>1, <1>3 DEF ToSet
    <3> QED BY <3>2, <3>3
  <2>2. ASSUME NEW x \in ToSet(Tail(q)) PROVE x \in ToSet(q)
    <3>1. PICK k \in 1 .. Len(q) - 1 : x = Tail(q)[k]
      BY <1>3 DEF ToSet
    <3>2. k + 1 \in 1 .. Len(q) /\ x = q[k + 1]
      BY <3>1, <1>1, <1>2
    <3> QED BY <3>2, <1>3 DEF ToSet
  <2>3. Head(q) \in ToSet(q)
    BY <1>1, <1>3 DEF ToSet
  <2> QED BY <2>1, <2>2, <2>3
<1>5. ASSUME IsInjective(q)
      PROVE  IsInjective(Tail(q)) /\ Head(q) \notin ToSet(Tail(q))
  <2>1. \A a, b \in 1 .. Len(q) : q[a] = q[b] => a = b
    BY <1>5, <1>3 DEF IsInjective
  <2>2. IsInjective(Tail(q))
    BY <2>1, <1>1, <1>2, <1>3 DEF IsInjective
  <2>3. Head(q) \notin ToSet(Tail(q))
    BY <2>1, <1>1, <1>2, <1>3 DEF ToSet
  <2> QED BY <2>2, <2>3
<1> QED BY <1>1, <1>2, <1>4, <1>5

\* Adding an entry to a queue.
LEMMA AppendFacts ==
  ASSUME NEW S, NEW q \in Seq(S), NEW x \in S
  PROVE  /\ Append(q, x) \in Seq(S)
         /\ ToSet(Append(q, x)) = ToSet(q) \cup {x}
         /\ IsInjective(q) /\ x \notin ToSet(q) => IsInjective(Append(q, x))
<1>1. Len(q) \in Nat /\ DOMAIN q = 1 .. Len(q)
  OBVIOUS
<1>2. Append(q, x) \in Seq(S) /\ DOMAIN Append(q, x) = 1 .. Len(q) + 1
      /\ Append(q, x)[Len(q) + 1] = x
      /\ \A k \in 1 .. Len(q) : Append(q, x)[k] = q[k]
  OBVIOUS
<1>3. ToSet(Append(q, x)) = ToSet(q) \cup {x}
  BY <1>1, <1>2 DEF ToSet
<1>4. IsInjective(q) /\ x \notin ToSet(q) => IsInjective(Append(q, x))
  BY <1>1, <1>2 DEF ToSet, IsInjective
<1> QED BY <1>2, <1>3, <1>4

-----------------------------------------------------------------------------
(* The type invariant.                                                      *)

LEMMA TypeInit == Init => TypeOK
<1> SUFFICES ASSUME Init PROVE TypeOK
  OBVIOUS
<1>1. free \in Seq(Slots)
  <2>1. Cardinality(Slots) \in Nat
    BY SlotsAssumption, FS_CardinalityType
  <2>2. free \in [1 .. Cardinality(Slots) -> Slots]
    BY DEF Init, SetToSeqs
  <2> QED BY <2>1, <2>2
<1>2. queue \in Seq(Slots)
  BY DEF Init
<1> QED BY <1>1, <1>2 DEF Init, TypeOK, Eng, IdleEng, Rdr, RdrAt, Item, EngPcs, RdrPcs, ReqStates

\* A cancelled word keeps the items typed, also for a cookie that names none.
LEMMA CancelType ==
  ASSUME TypeOK, NEW s \in Streams,
         \/ item' = item
         \/ item' = [item EXCEPT ![cookie[s]] = Item(item[cookie[s]].data, NoStream)]
  PROVE  item' \in [Slots -> [data : Streams \cup {NoStream},
                              tracking : Streams \cup {NoStream}]]
<1> DEFINE T == [data : Streams \cup {NoStream}, tracking : Streams \cup {NoStream}]
<1>1. item \in [Slots -> T]
  BY DEF TypeOK
<1>2. cookie[s] \in Slots => Item(item[cookie[s]].data, NoStream) \in T
  BY <1>1 DEF Item
<1> HIDE DEF T
<1>3. item' \in [Slots -> T]
  BY <1>1, <1>2
<1> QED BY <1>3 DEF T

\* A send gets a bound of at least one, whoever is registered.
LEMMA BoundType == DepthBound \in Nat \ {0}
<1>1. IsFiniteSet(Registered)
  BY ReadersAssumption, FS_Subset DEF Registered, Counted
<1>2. CASE Registered = {}
  BY <1>2 DEF DepthBound
<1>3. CASE Registered # {}
  <2>1. Cardinality(Registered) \in Nat /\ Cardinality(Registered) # 0
    BY <1>1, <1>3, FS_CardinalityType, FS_EmptySet
  <2> QED BY <2>1, <1>3 DEF DepthBound
<1> QED BY <1>2, <1>3

LEMMA TypeStep == TypeOK /\ [Next]_vars => TypeOK'
<1> SUFFICES ASSUME TypeOK, [Next]_vars PROVE TypeOK'
  OBVIOUS
<1> USE BoundsAssumption DEF TypeOK, EngPcs, RdrPcs, ReqStates, Eng, IdleEng, Rdr, RdrAt, Item, rings
<1>1. ASSUME NEW e \in Engines, NEW s \in Streams, Send(e, s) PROVE TypeOK'
  <2>1. bound' \in [Engines -> Nat \ {0}]
    BY <1>1, BoundType DEF Send
  <2> QED BY <1>1, <2>1 DEF Send
<1>2. ASSUME NEW e \in Engines, SendGetSlot(e) PROVE TypeOK'
  <2>1. CASE free # <<>>
    <3>1. Head(free) \in Slots /\ Tail(free) \in Seq(Slots)
      BY <2>1, TailFacts
    <3>2. free' \in Seq(Slots) /\ req' = req
      BY <1>2, <2>1, <3>1 DEF SendGetSlot
    <3>3. eng' = [eng EXCEPT ![e] = Eng("fill", eng[e].s, Head(free), 0, eng[e].turn)]
      BY <1>2, <2>1 DEF SendGetSlot
    <3> QED BY <1>2, <3>1, <3>2, <3>3 DEF SendGetSlot
  <2>2. CASE free = <<>>
    <3>1. /\ free' = free /\ eng' = [eng EXCEPT ![e] = IdleEng]
          /\ req' = [req EXCEPT ![eng[e].s] =
                       IF eng[e].turn = "again" THEN "resend" ELSE "failed"]
      BY <1>2, <2>2 DEF SendGetSlot
    <3>2. req' \in [Streams -> ReqStates]
      BY <3>1
    <3> QED BY <1>2, <3>1, <3>2 DEF SendGetSlot
  <2> QED BY <2>1, <2>2
<1>3. ASSUME NEW e \in Engines, SendFill(e) PROVE TypeOK'
  BY <1>3 DEF SendFill, SendDone
<1>4. ASSUME NEW e \in Engines, SendPublish(e) PROVE TypeOK'
  BY <1>4, AppendFacts DEF SendPublish
<1>5. ASSUME NEW e \in Engines, SendPublishFails(e) PROVE TypeOK'
  BY <1>5, AppendFacts DEF SendPublishFails, SendDone
<1>6. ASSUME NEW e \in Engines, SendIncTail(e) PROVE TypeOK'
  BY <1>6 DEF SendIncTail, SendDone
<1>7. ASSUME NEW e \in Engines, SendDecide(e) PROVE TypeOK'
  <2>1. eng' = [eng EXCEPT ![e] = Eng("ring", eng[e].s, NoSlot, 0, "first")]
        \/ eng' = [eng EXCEPT ![e] = IdleEng]
    BY <1>7 DEF SendDecide, SendDone
  <2>2. req' = req \/ req' = [req EXCEPT ![eng[e].s] = "queued"]
    BY <1>7 DEF SendDecide, SendDone
  <2>3. notified' \in {0, 1}
    BY <1>7 DEF SendDecide
  <2>4. UNCHANGED <<rings, item, bells, rdr, cookie, sweep, runs, crashes, orphans, bound>>
    BY <1>7 DEF SendDecide
  <2>5. req' \in [Streams -> ReqStates]
    BY <2>2
  <2>6. CASE eng' = [eng EXCEPT ![e] = IdleEng]
    BY <2>3, <2>4, <2>5, <2>6
  <2>7. CASE eng' = [eng EXCEPT ![e] = Eng("ring", eng[e].s, NoSlot, 0, "first")]
    BY <2>3, <2>4, <2>5, <2>7
  <2> QED BY <2>1, <2>6, <2>7
<1>8. ASSUME NEW e \in Engines, SendRing(e) PROVE TypeOK'
  <2>1. bells' \in Nat
    BY <1>8 DEF SendRing
  <2> QED BY <1>8, <2>1 DEF SendRing, SendDone
<1>9. ASSUME NEW r \in Readers, Recv(r) PROVE TypeOK'
  <2>1. CASE queue # <<>>
    <3>1. Head(queue) \in Slots /\ Tail(queue) \in Seq(Slots)
      BY <2>1, TailFacts
    <3>2. queue' = Tail(queue) /\ headc' = headc + 1
      BY <1>9, <2>1 DEF Recv
    <3>3. rdr' = [rdr EXCEPT ![r] = Rdr("copy", Head(queue), NoStream, "lost", 0)]
      BY <1>9, <2>1 DEF Recv
    <3> QED BY <1>9, <3>1, <3>2, <3>3 DEF Recv
  <2>2. CASE queue = <<>>
    <3>1. queue' = queue /\ headc' = headc /\ rdr' = [rdr EXCEPT ![r] = RdrAt("wait")]
      BY <1>9, <2>2 DEF Recv
    <3> QED BY <1>9, <3>1 DEF Recv
  <2> QED BY <2>1, <2>2
<1>10. ASSUME NEW r \in Readers, RecvCopy(r) PROVE TypeOK'
  BY <1>10 DEF RecvCopy
<1>11. ASSUME NEW r \in Readers, RecvClaim(r) PROVE TypeOK'
  <2>1. item' = item
        \/ item' = [item EXCEPT ![rdr[r].slot] = Item(item[rdr[r].slot].data, NoStream)]
    BY <1>11 DEF RecvClaim
  <2>2. runs' = runs \/ runs' = [runs EXCEPT ![rdr[r].s] = @ + 1]
    BY <1>11 DEF RecvClaim
  <2>3. PICK c \in {"won", "lost"} :
          rdr' = [rdr EXCEPT ![r] = Rdr("free", rdr[r].slot, rdr[r].s, c, 0)]
    BY <1>11 DEF RecvClaim
  <2>4. item' \in [Slots -> [data : Streams \cup {NoStream},
                             tracking : Streams \cup {NoStream}]]
    BY <1>11, <2>1 DEF RecvClaim
  <2>5. runs' \in [Streams -> Nat]
    <3>1. runs \in [Streams -> Nat]
      OBVIOUS
    <3> HIDE DEF TypeOK
    <3> QED BY <2>2, <3>1
  <2>6. rdr[r].slot \in Slots
    BY <1>11 DEF RecvClaim
  <2>7. UNCHANGED <<rings, notified, bells, eng, req, cookie, sweep, crashes, orphans, bound>>
    BY <1>11 DEF RecvClaim
  <2> QED BY <2>3, <2>4, <2>5, <2>6, <2>7
<1>12. ASSUME NEW r \in Readers, RecvFree(r) PROVE TypeOK'
  BY <1>12, AppendFacts DEF RecvFree
<1>13. ASSUME NEW r \in Readers, RecvDepth(r) PROVE TypeOK'
  <2>1. PICK pc \in {"depthTail", "depthHead"}, n \in Nat :
          rdr' = [rdr EXCEPT ![r] = Rdr(pc, NoSlot, NoStream, rdr[r].claim, n)]
    BY <1>13 DEF RecvDepth
  <2> QED BY <1>13, <2>1 DEF RecvDepth
<1>14. ASSUME NEW r \in Readers, RecvDepth2(r) PROVE TypeOK'
  BY <1>14 DEF RecvDepth2, AfterRecv
<1>15. ASSUME NEW r \in Readers, RecvRearm(r) PROVE TypeOK'
  BY <1>15 DEF RecvRearm, AfterRecv
<1>16. ASSUME NEW r \in Readers, Finish(r) PROVE TypeOK'
  BY <1>16 DEF Finish
<1>17. ASSUME NEW r \in Readers, TakeBell(r) PROVE TypeOK'
  BY <1>17 DEF TakeBell
<1>18. ASSUME NEW r \in Readers, BellHeard(r) PROVE TypeOK'
  BY <1>18 DEF BellHeard
<1>19. ASSUME NEW r \in Readers, PollTimeout(r) PROVE TypeOK'
  BY <1>19 DEF PollTimeout
<1>20. ASSUME NEW r \in Readers, Crash(r) PROVE TypeOK'
  BY <1>20 DEF Crash
<1>21. ASSUME NEW r \in Readers, PortClose(r) PROVE TypeOK'
  BY <1>21 DEF PortClose, ClosesPort, AckWaiting
<1>29. ASSUME NEW r \in Readers, PortCloseRunning(r) PROVE TypeOK'
  BY <1>29 DEF PortCloseRunning, ClosesPort, AckWaiting
<1>30. ASSUME NEW r \in Readers, OrphanQuits(r) PROVE TypeOK'
  BY <1>30 DEF OrphanQuits
<1>22. ASSUME NEW r \in Readers, Start(r) PROVE TypeOK'
  BY <1>22 DEF Start
<1>23. ASSUME NEW r \in Readers, Register(r) PROVE TypeOK'
  BY <1>23 DEF Register
<1>24. ASSUME NEW s \in Streams, Retract(s) PROVE TypeOK'
  <2>1. item' \in [Slots -> [data : Streams \cup {NoStream},
                             tracking : Streams \cup {NoStream}]]
    <3>1. item' = item
          \/ item' = [item EXCEPT ![cookie[s]] = Item(item[cookie[s]].data, NoStream)]
      BY <1>24 DEF Retract
    <3> QED BY <3>1, CancelType
  <2> QED BY <1>24, <2>1 DEF Retract
<1>25. ASSUME NEW s \in Streams, GiveUpResend(s) PROVE TypeOK'
  BY <1>25 DEF GiveUpResend
<1>26. ASSUME NEW s \in Streams, Acknowledge(s) PROVE TypeOK'
  BY <1>26 DEF Acknowledge
<1>27. ASSUME NEW s \in Streams, Requeue(s) PROVE TypeOK'
  <2>1. item' \in [Slots -> [data : Streams \cup {NoStream},
                             tracking : Streams \cup {NoStream}]]
    <3>1. item' = item
          \/ item' = [item EXCEPT ![cookie[s]] = Item(item[cookie[s]].data, NoStream)]
      BY <1>27 DEF Requeue
    <3> QED BY <3>1, CancelType
  <2>2. req' = req \/ req' = [req EXCEPT ![s] = "parked"]
        \/ req' = [req EXCEPT ![s] = "taken"]
    BY <1>27 DEF Requeue
  <2> QED BY <1>27, <2>1, <2>2 DEF Requeue
<1>28. CASE UNCHANGED vars
  BY <1>28 DEF vars
<1> QED BY <1>1, <1>2, <1>3, <1>4, <1>5, <1>6, <1>7, <1>8, <1>9, <1>10, <1>11, <1>12, <1>13, <1>14, <1>15, <1>16, <1>17, <1>18, <1>19, <1>20, <1>21, <1>22, <1>23, <1>24, <1>25, <1>26, <1>27, <1>28, <1>29, <1>30 DEF Next, EngineStep, ReaderStep

\* The words of nxt_app_queue_t and the locals of its senders and receivers
\* keep their types: nxt_app_queue_send_bound(), nxt_app_queue_recv_claim().
THEOREM TypeCorrect == Spec => []TypeOK
<1>1. Init => TypeOK
  BY TypeInit
<1>2. TypeOK /\ [Next]_vars => TypeOK'
  BY TypeStep
<1> QED BY <1>1, <1>2, PTL DEF Spec

-----------------------------------------------------------------------------
(* No slot is in two places.                                                *)

\* What one step of a send, or of a receive, changes of the slots held.
LEMMA EngHoldsChange ==
  ASSUME TypeOK, NEW e \in Engines, NEW v, eng' = [eng EXCEPT ![e] = v]
  PROVE  /\ \A x \in Engines \ {e} : EngHolds(x)' = EngHolds(x)
         /\ EngHolds(e)' = IF v.pc \in {"fill", "publish"} THEN {v.slot} ELSE {}
BY DEF TypeOK, EngHolds

LEMMA RdrHoldsChange ==
  ASSUME TypeOK, NEW r \in Readers, NEW v, rdr' = [rdr EXCEPT ![r] = v]
  PROVE  /\ \A x \in Readers \ {r} : RdrHolds(x)' = RdrHolds(x)
         /\ RdrHolds(r)' = IF v.pc \in {"copy", "claim", "free"} THEN {v.slot} ELSE {}
BY DEF TypeOK, RdrHolds

LEMMA EngHoldsSame == ASSUME eng' = eng PROVE \A x \in Engines : EngHolds(x)' = EngHolds(x)
BY DEF EngHolds

LEMMA RdrHoldsSame == ASSUME rdr' = rdr PROVE \A x \in Readers : RdrHolds(x)' = RdrHolds(x)
BY DEF RdrHolds

\* A step that moves no slot, or only forgets one, keeps slots apart.
LEMMA SlotsForgotten ==
  ASSUME SlotsExclusive, free' = free, queue' = queue,
         \A x \in Engines : EngHolds(x)' \subseteq EngHolds(x),
         \A x \in Readers : RdrHolds(x)' \subseteq RdrHolds(x)
  PROVE  SlotsExclusive'
<1>1. ToSet(free)' = ToSet(free) /\ ToSet(queue)' = ToSet(queue)
  OBVIOUS
<1>2. IsInjective(free)' /\ IsInjective(queue)'
  BY DEF SlotsExclusive
<1> QED BY <1>1, <1>2, Zenon DEF SlotsExclusive

LEMMA SlotsInit == Init => SlotsExclusive
<1> SUFFICES ASSUME Init PROVE SlotsExclusive
  OBVIOUS
<1>1. IsInjective(free)
  BY DEF Init, SetToSeqs, IsInjective
<1>2. IsInjective(queue) /\ ToSet(queue) = {}
  BY DEF Init, IsInjective, ToSet
<1>3. \A e \in Engines : EngHolds(e) = {}
  BY DEF Init, EngHolds, IdleEng, Eng
<1>4. \A r \in Readers : RdrHolds(r) = {}
  BY DEF Init, RdrHolds, RdrAt, Rdr
<1> QED BY <1>1, <1>2, <1>3, <1>4 DEF SlotsExclusive

LEMMA SlotsStep == TypeOK /\ SlotsExclusive /\ [Next]_vars => SlotsExclusive'
<1> SUFFICES ASSUME TypeOK, SlotsExclusive, [Next]_vars PROVE SlotsExclusive'
  OBVIOUS
<1> USE DEF Eng, IdleEng, Rdr, RdrAt, rings
<1>1. ASSUME NEW e \in Engines, NEW s \in Streams, Send(e, s) PROVE SlotsExclusive'
  <2>1. \A x \in Engines : EngHolds(x)' \subseteq EngHolds(x)
    BY <1>1, EngHoldsChange DEF Send, EngHolds
  <2>2. UNCHANGED <<free, queue, rdr>>
    BY <1>1 DEF Send
  <2> QED BY <2>1, <2>2, RdrHoldsSame, SlotsForgotten
<1>2. ASSUME NEW e \in Engines, SendGetSlot(e) PROVE SlotsExclusive'
  <2>1. CASE free # <<>>
    <3> DEFINE i == Head(free)
    <3>1. /\ ToSet(free) = ToSet(Tail(free)) \cup {i}
          /\ IsInjective(Tail(free)) /\ i \notin ToSet(Tail(free))
      BY <2>1, TailFacts DEF TypeOK, SlotsExclusive
    <3>2. /\ free' = Tail(free) /\ queue' = queue /\ rdr' = rdr
          /\ eng' = [eng EXCEPT ![e] = Eng("fill", eng[e].s, i, 0, eng[e].turn)]
      BY <1>2, <2>1 DEF SendGetSlot
    <3>3. /\ EngHolds(e)' = {i}
          /\ \A x \in Engines \ {e} : EngHolds(x)' = EngHolds(x)
          /\ \A x \in Readers : RdrHolds(x)' = RdrHolds(x)
      BY <3>2 DEF EngHolds, RdrHolds, TypeOK
    <3>4. ToSet(free)' = ToSet(Tail(free)) /\ ToSet(queue)' = ToSet(queue)
          /\ IsInjective(free)' /\ IsInjective(queue)'
      BY <3>1, <3>2 DEF SlotsExclusive
    <3> HIDE DEF i
    <3> QED BY <3>1, <3>3, <3>4 DEF SlotsExclusive
  <2>2. CASE free = <<>>
    <3>1. UNCHANGED <<free, queue, rdr>> /\ eng' = [eng EXCEPT ![e] = IdleEng]
      BY <1>2, <2>2 DEF SendGetSlot
    <3>2. \A x \in Engines : EngHolds(x)' \subseteq EngHolds(x)
      BY <3>1, EngHoldsChange
    <3> QED BY <3>1, <3>2, RdrHoldsSame, SlotsForgotten
  <2> QED BY <2>1, <2>2
<1>3. ASSUME NEW e \in Engines, SendFill(e) PROVE SlotsExclusive'
  <2>1. \A x \in Engines : EngHolds(x)' \subseteq EngHolds(x)
    BY <1>3, EngHoldsChange DEF SendFill, EngHolds
  <2>2. UNCHANGED <<free, queue, rdr>>
    BY <1>3 DEF SendFill
  <2> QED BY <2>1, <2>2, RdrHoldsSame, SlotsForgotten
<1>4. ASSUME NEW e \in Engines, SendPublish(e) PROVE SlotsExclusive'
  <2> DEFINE i == eng[e].slot
  <2>1. EngHolds(e) = {i} /\ i \in Slots
    BY <1>4 DEF SendPublish, EngHolds, TypeOK
  <2>2. EngHolds(e)' = {} /\ \A x \in Engines \ {e} : EngHolds(x)' = EngHolds(x)
    BY <1>4 DEF SendPublish, EngHolds, TypeOK
  <2>3. queue' = Append(queue, i) /\ free' = free /\ rdr' = rdr
    BY <1>4 DEF SendPublish
  <2>4. i \notin ToSet(queue) /\ IsInjective(queue) /\ IsInjective(free)
    BY <2>1 DEF SlotsExclusive
  <2>5. /\ ToSet(queue)' = ToSet(queue) \cup {i} /\ ToSet(free)' = ToSet(free)
        /\ IsInjective(queue)' /\ IsInjective(free)'
    BY <2>1, <2>3, <2>4, AppendFacts DEF TypeOK
  <2>6. \A x \in Readers : RdrHolds(x)' = RdrHolds(x)
    BY <2>3, RdrHoldsSame
  <2> HIDE DEF i
  <2> QED BY <2>1, <2>2, <2>5, <2>6 DEF SlotsExclusive
<1>5. ASSUME NEW e \in Engines, SendPublishFails(e) PROVE SlotsExclusive'
  <2> DEFINE i == eng[e].slot
  <2>1. EngHolds(e) = {i} /\ i \in Slots
    BY <1>5 DEF SendPublishFails, EngHolds, TypeOK
  <2>2. EngHolds(e)' = {} /\ \A x \in Engines \ {e} : EngHolds(x)' = EngHolds(x)
    BY <1>5 DEF SendPublishFails, EngHolds, TypeOK
  <2>3. free' = Append(free, i) /\ queue' = queue /\ rdr' = rdr
    BY <1>5 DEF SendPublishFails
  <2>4. i \notin ToSet(free) /\ IsInjective(free) /\ IsInjective(queue)
    BY <2>1 DEF SlotsExclusive
  <2>5. /\ ToSet(free)' = ToSet(free) \cup {i} /\ ToSet(queue)' = ToSet(queue)
        /\ IsInjective(free)' /\ IsInjective(queue)'
    BY <2>1, <2>3, <2>4, AppendFacts DEF TypeOK
  <2>6. \A x \in Readers : RdrHolds(x)' = RdrHolds(x)
    BY <2>3, RdrHoldsSame
  <2> HIDE DEF i
  <2> QED BY <2>1, <2>2, <2>5, <2>6 DEF SlotsExclusive
<1>6. ASSUME NEW e \in Engines, SendIncTail(e) PROVE SlotsExclusive'
  <2>1. \A x \in Engines : EngHolds(x)' \subseteq EngHolds(x)
    BY <1>6, EngHoldsChange DEF SendIncTail, EngHolds
  <2>2. UNCHANGED <<free, queue, rdr>>
    BY <1>6 DEF SendIncTail
  <2> QED BY <2>1, <2>2, RdrHoldsSame, SlotsForgotten
<1>7. ASSUME NEW e \in Engines, SendDecide(e) PROVE SlotsExclusive'
  <2>1. eng' = [eng EXCEPT ![e] = Eng("ring", eng[e].s, NoSlot, 0, "first")]
        \/ eng' = [eng EXCEPT ![e] = IdleEng]
    BY <1>7 DEF SendDecide, SendDone
  <2>2. \A x \in Engines : EngHolds(x)' \subseteq EngHolds(x)
    BY <2>1, EngHoldsChange
  <2>3. UNCHANGED <<free, queue, rdr>>
    BY <1>7 DEF SendDecide
  <2> QED BY <2>2, <2>3, RdrHoldsSame, SlotsForgotten
<1>8. ASSUME NEW e \in Engines, SendRing(e) PROVE SlotsExclusive'
  <2>1. \A x \in Engines : EngHolds(x)' \subseteq EngHolds(x)
    BY <1>8, EngHoldsChange DEF SendRing, SendDone, EngHolds
  <2>2. UNCHANGED <<free, queue, rdr>>
    BY <1>8 DEF SendRing
  <2> QED BY <2>1, <2>2, RdrHoldsSame, SlotsForgotten
<1>9. ASSUME NEW r \in Readers, Recv(r) PROVE SlotsExclusive'
  <2>1. CASE queue # <<>>
    <3> DEFINE i == Head(queue)
    <3>1. /\ ToSet(queue) = ToSet(Tail(queue)) \cup {i}
          /\ IsInjective(Tail(queue)) /\ i \notin ToSet(Tail(queue))
      BY <2>1, TailFacts DEF TypeOK, SlotsExclusive
    <3>2. /\ queue' = Tail(queue) /\ free' = free /\ eng' = eng
          /\ rdr' = [rdr EXCEPT ![r] = Rdr("copy", i, NoStream, "lost", 0)]
      BY <1>9, <2>1 DEF Recv
    <3>3. /\ RdrHolds(r)' = {i}
          /\ \A x \in Readers \ {r} : RdrHolds(x)' = RdrHolds(x)
          /\ \A x \in Engines : EngHolds(x)' = EngHolds(x)
      BY <3>2 DEF EngHolds, RdrHolds, TypeOK
    <3>4. ToSet(queue)' = ToSet(Tail(queue)) /\ ToSet(free)' = ToSet(free)
          /\ IsInjective(free)' /\ IsInjective(queue)'
      BY <3>1, <3>2 DEF SlotsExclusive
    <3> HIDE DEF i
    <3> QED BY <3>1, <3>3, <3>4 DEF SlotsExclusive
  <2>2. CASE queue = <<>>
    <3>1. UNCHANGED <<free, queue, eng>> /\ rdr' = [rdr EXCEPT ![r] = RdrAt("wait")]
      BY <1>9, <2>2 DEF Recv
    <3>2. \A x \in Readers : RdrHolds(x)' \subseteq RdrHolds(x)
      BY <3>1, RdrHoldsChange
    <3> QED BY <3>1, <3>2, EngHoldsSame, SlotsForgotten
  <2> QED BY <2>1, <2>2
<1>10. ASSUME NEW r \in Readers, RecvCopy(r) PROVE SlotsExclusive'
  <2>1. \A x \in Readers : RdrHolds(x)' \subseteq RdrHolds(x)
    BY <1>10, RdrHoldsChange DEF RecvCopy, RdrHolds
  <2>2. UNCHANGED <<free, queue, eng>>
    BY <1>10 DEF RecvCopy
  <2> QED BY <2>1, <2>2, EngHoldsSame, SlotsForgotten
<1>11. ASSUME NEW r \in Readers, RecvClaim(r) PROVE SlotsExclusive'
  <2>1. PICK c \in {"won", "lost"} :
          rdr' = [rdr EXCEPT ![r] = Rdr("free", rdr[r].slot, rdr[r].s, c, 0)]
    BY <1>11 DEF RecvClaim
  <2>2. \A x \in Readers : RdrHolds(x)' \subseteq RdrHolds(x)
    BY <1>11, <2>1, RdrHoldsChange DEF RecvClaim, RdrHolds
  <2>3. UNCHANGED <<free, queue, eng>>
    BY <1>11 DEF RecvClaim
  <2> QED BY <2>2, <2>3, EngHoldsSame, SlotsForgotten
<1>12. ASSUME NEW r \in Readers, RecvFree(r) PROVE SlotsExclusive'
  <2> DEFINE i == rdr[r].slot
  <2>1. RdrHolds(r) = {i} /\ i \in Slots
    BY <1>12 DEF RecvFree, RdrHolds, TypeOK
  <2>2. RdrHolds(r)' = {} /\ \A x \in Readers \ {r} : RdrHolds(x)' = RdrHolds(x)
    BY <1>12 DEF RecvFree, RdrHolds, TypeOK
  <2>3. free' = Append(free, i) /\ queue' = queue /\ eng' = eng
    BY <1>12 DEF RecvFree
  <2>4. i \notin ToSet(free) /\ IsInjective(free) /\ IsInjective(queue)
    BY <2>1 DEF SlotsExclusive
  <2>5. /\ ToSet(free)' = ToSet(free) \cup {i} /\ ToSet(queue)' = ToSet(queue)
        /\ IsInjective(free)' /\ IsInjective(queue)'
    BY <2>1, <2>3, <2>4, AppendFacts DEF TypeOK
  <2>6. \A x \in Engines : EngHolds(x)' = EngHolds(x)
    BY <2>3, EngHoldsSame
  <2> HIDE DEF i
  <2> QED BY <2>1, <2>2, <2>5, <2>6 DEF SlotsExclusive
<1>13. ASSUME NEW r \in Readers, RecvDepth(r) PROVE SlotsExclusive'
  <2>0. PICK pc \in {"depthTail", "depthHead"}, k \in Nat :
          rdr' = [rdr EXCEPT ![r] = Rdr(pc, NoSlot, NoStream, rdr[r].claim, k)]
    BY <1>13 DEF RecvDepth, TypeOK
  <2>1. \A x \in Readers : RdrHolds(x)' \subseteq RdrHolds(x)
    BY <2>0 DEF RdrHolds, TypeOK
  <2>2. UNCHANGED <<free, queue, eng>>
    BY <1>13 DEF RecvDepth
  <2> QED BY <2>1, <2>2, EngHoldsSame, SlotsForgotten
<1>14. ASSUME NEW r \in Readers, RecvDepth2(r) PROVE SlotsExclusive'
  <2>1. \A x \in Readers : RdrHolds(x)' \subseteq RdrHolds(x)
    BY <1>14, RdrHoldsChange DEF RecvDepth2, AfterRecv, RdrHolds
  <2>2. UNCHANGED <<free, queue, eng>>
    BY <1>14 DEF RecvDepth2
  <2> QED BY <2>1, <2>2, EngHoldsSame, SlotsForgotten
<1>15. ASSUME NEW r \in Readers, RecvRearm(r) PROVE SlotsExclusive'
  <2>1. \A x \in Readers : RdrHolds(x)' \subseteq RdrHolds(x)
    BY <1>15, RdrHoldsChange DEF RecvRearm, AfterRecv, RdrHolds
  <2>2. UNCHANGED <<free, queue, eng>>
    BY <1>15 DEF RecvRearm
  <2> QED BY <2>1, <2>2, EngHoldsSame, SlotsForgotten
<1>16. ASSUME NEW r \in Readers, Finish(r) PROVE SlotsExclusive'
  <2>1. \A x \in Readers : RdrHolds(x)' \subseteq RdrHolds(x)
    BY <1>16, RdrHoldsChange DEF Finish, RdrHolds
  <2>2. UNCHANGED <<free, queue, eng>>
    BY <1>16 DEF Finish
  <2> QED BY <2>1, <2>2, EngHoldsSame, SlotsForgotten
<1>17. ASSUME NEW r \in Readers, TakeBell(r) PROVE SlotsExclusive'
  <2>1. \A x \in Readers : RdrHolds(x)' \subseteq RdrHolds(x)
    BY <1>17, RdrHoldsChange DEF TakeBell, RdrHolds
  <2>2. UNCHANGED <<free, queue, eng>>
    BY <1>17 DEF TakeBell
  <2> QED BY <2>1, <2>2, EngHoldsSame, SlotsForgotten
<1>18. ASSUME NEW r \in Readers, BellHeard(r) PROVE SlotsExclusive'
  <2>1. \A x \in Readers : RdrHolds(x)' \subseteq RdrHolds(x)
    BY <1>18, RdrHoldsChange DEF BellHeard, RdrHolds
  <2>2. UNCHANGED <<free, queue, eng>>
    BY <1>18 DEF BellHeard
  <2> QED BY <2>1, <2>2, EngHoldsSame, SlotsForgotten
<1>19. ASSUME NEW r \in Readers, PollTimeout(r) PROVE SlotsExclusive'
  <2>1. \A x \in Readers : RdrHolds(x)' \subseteq RdrHolds(x)
    BY <1>19, RdrHoldsChange DEF PollTimeout, RdrHolds
  <2>2. UNCHANGED <<free, queue, eng>>
    BY <1>19 DEF PollTimeout
  <2> QED BY <2>1, <2>2, EngHoldsSame, SlotsForgotten
<1>20. ASSUME NEW r \in Readers, Crash(r) PROVE SlotsExclusive'
  <2>1. \A x \in Readers : RdrHolds(x)' \subseteq RdrHolds(x)
    BY <1>20, RdrHoldsChange DEF Crash, RdrHolds
  <2>2. UNCHANGED <<free, queue, eng>>
    BY <1>20 DEF Crash
  <2> QED BY <2>1, <2>2, EngHoldsSame, SlotsForgotten
<1>21. ASSUME NEW r \in Readers, PortClose(r) PROVE SlotsExclusive'
  <2>1. \A x \in Readers : RdrHolds(x)' \subseteq RdrHolds(x)
    BY <1>21, RdrHoldsChange DEF PortClose, RdrHolds
  <2>2. UNCHANGED <<free, queue, eng>>
    BY <1>21 DEF PortClose
  <2> QED BY <2>1, <2>2, EngHoldsSame, SlotsForgotten
<1>29. ASSUME NEW r \in Readers, PortCloseRunning(r) PROVE SlotsExclusive'
  BY <1>29, EngHoldsSame, RdrHoldsSame, SlotsForgotten DEF PortCloseRunning
<1>30. ASSUME NEW r \in Readers, OrphanQuits(r) PROVE SlotsExclusive'
  <2>1. \A x \in Readers : RdrHolds(x)' \subseteq RdrHolds(x)
    BY <1>30, RdrHoldsChange DEF OrphanQuits, RdrHolds
  <2>2. UNCHANGED <<free, queue, eng>>
    BY <1>30 DEF OrphanQuits
  <2> QED BY <2>1, <2>2, EngHoldsSame, SlotsForgotten
<1>22. ASSUME NEW r \in Readers, Start(r) PROVE SlotsExclusive'
  <2>1. \A x \in Readers : RdrHolds(x)' \subseteq RdrHolds(x)
    BY <1>22, RdrHoldsChange DEF Start, RdrHolds
  <2>2. UNCHANGED <<free, queue, eng>>
    BY <1>22 DEF Start
  <2> QED BY <2>1, <2>2, EngHoldsSame, SlotsForgotten
<1>23. ASSUME NEW r \in Readers, Register(r) PROVE SlotsExclusive'
  <2>1. \A x \in Readers : RdrHolds(x)' \subseteq RdrHolds(x)
    BY <1>23, RdrHoldsChange DEF Register, RdrHolds
  <2>2. UNCHANGED <<free, queue, eng>>
    BY <1>23 DEF Register
  <2> QED BY <2>1, <2>2, EngHoldsSame, SlotsForgotten
<1>24. ASSUME NEW s \in Streams, Retract(s) PROVE SlotsExclusive'
  BY <1>24, EngHoldsSame, RdrHoldsSame, SlotsForgotten DEF Retract
<1>25. ASSUME NEW s \in Streams, GiveUpResend(s) PROVE SlotsExclusive'
  BY <1>25, EngHoldsSame, RdrHoldsSame, SlotsForgotten DEF GiveUpResend
<1>26. ASSUME NEW s \in Streams, Acknowledge(s) PROVE SlotsExclusive'
  BY <1>26, EngHoldsSame, RdrHoldsSame, SlotsForgotten DEF Acknowledge
<1>27. ASSUME NEW s \in Streams, Requeue(s) PROVE SlotsExclusive'
  BY <1>27, EngHoldsSame, RdrHoldsSame, SlotsForgotten DEF Requeue
<1>28. CASE UNCHANGED vars
  BY <1>28, EngHoldsSame, RdrHoldsSame, SlotsForgotten DEF vars
<1> QED BY <1>1, <1>2, <1>3, <1>4, <1>5, <1>6, <1>7, <1>8, <1>9, <1>10, <1>11,
    <1>12, <1>13, <1>14, <1>15, <1>16, <1>17, <1>18, <1>19, <1>20, <1>21,
    <1>22, <1>23, <1>24, <1>25, <1>26, <1>27, <1>28, <1>29, <1>30 DEF Next, EngineStep,
    ReaderStep

\* No slot of the queue is in two places, however sends, receives, deaths and
\* replacements interleave: nxt_app_queue_send_bound() takes a slot from
\* free_items and nxt_app_queue_recv_claim() gives it back after its claim.
THEOREM SlotsApart == Spec => []SlotsExclusive
<1>1. Init => TypeOK /\ SlotsExclusive
  BY TypeInit, SlotsInit
<1>2. (TypeOK /\ SlotsExclusive) /\ [Next]_vars => (TypeOK /\ SlotsExclusive)'
  BY TypeStep, SlotsStep
<1> QED BY <1>1, <1>2, PTL DEF Spec

-----------------------------------------------------------------------------
(* A slot is lost only with a context that dies while it holds it.          *)

\* Where a slot may be, and the slots that are nowhere.
InPlace(i) == \/ i \in ToSet(free) \/ i \in ToSet(queue)
              \/ \E e \in Engines : i \in EngHolds(e)
              \/ \E r \in Readers : i \in RdrHolds(r)
Lost == {i \in Slots : ~InPlace(i)}

LEMMA LostCounted == SlotsLost <=> Cardinality(Lost) <= crashes
<1>1. Lost = Slots \ (ToSet(free) \cup ToSet(queue)
                      \cup (UNION {EngHolds(e) : e \in Engines})
                      \cup (UNION {RdrHolds(r) : r \in Readers}))
  BY DEF Lost, InPlace
<1> QED BY <1>1 DEF SlotsLost

\* A step that takes no slot from where it is.
LEMMA PlacesSame ==
  ASSUME free' = free, queue' = queue,
         \A x \in Engines : EngHolds(x) \subseteq EngHolds(x)',
         \A x \in Readers : RdrHolds(x) \subseteq RdrHolds(x)'
  PROVE  \A i \in Slots : InPlace(i) => InPlace(i)'
<1>1. ToSet(free)' = ToSet(free) /\ ToSet(queue)' = ToSet(queue)
  OBVIOUS
<1> QED BY <1>1, Zenon DEF InPlace

\* A step of a send that moves its own slot at most.
LEMMA PlacesSend ==
  ASSUME NEW e \in Engines, rdr' = rdr,
         \A x \in Engines \ {e} : EngHolds(x)' = EngHolds(x),
         \A i \in ToSet(free) \cup ToSet(queue) \cup EngHolds(e) :
            i \in ToSet(free)' \cup ToSet(queue)' \cup EngHolds(e)'
  PROVE  \A i \in Slots : InPlace(i) => InPlace(i)'
<1>1. \A x \in Readers : RdrHolds(x)' = RdrHolds(x)
  BY RdrHoldsSame
<1> QED BY <1>1 DEF InPlace

\* The same for a receive.
LEMMA PlacesReceive ==
  ASSUME NEW r \in Readers, eng' = eng,
         \A x \in Readers \ {r} : RdrHolds(x)' = RdrHolds(x),
         \A i \in ToSet(free) \cup ToSet(queue) \cup RdrHolds(r) :
            i \in ToSet(free)' \cup ToSet(queue)' \cup RdrHolds(r)'
  PROVE  \A i \in Slots : InPlace(i) => InPlace(i)'
<1>1. \A x \in Engines : EngHolds(x)' = EngHolds(x)
  BY EngHoldsSame
<1> QED BY <1>1 DEF InPlace

Kept == \A i \in Slots : InPlace(i) => InPlace(i)'

LEMMA KeptStep ==
  ASSUME TypeOK, [Next]_vars, \A r \in Readers : ~Crash(r)
  PROVE  Kept /\ crashes' = crashes
<1> USE DEF Eng, IdleEng, Rdr, RdrAt, rings
<1>1. ASSUME NEW e \in Engines, NEW s \in Streams, Send(e, s)
      PROVE  Kept /\ crashes' = crashes
  <2>1. \A x \in Engines : EngHolds(x) \subseteq EngHolds(x)'
    BY <1>1, EngHoldsChange DEF Send, EngHolds
  <2> QED BY <1>1, <2>1, RdrHoldsSame, PlacesSame DEF Send, Kept
<1>2. ASSUME NEW e \in Engines, SendGetSlot(e) PROVE Kept /\ crashes' = crashes
  <2>1. CASE free # <<>>
    <3>0. ToSet(free) = ToSet(Tail(free)) \cup {Head(free)} /\ free' = Tail(free)
      BY <1>2, <2>1, TailFacts DEF SendGetSlot, TypeOK
    <3>1. /\ EngHolds(e)' = {Head(free)} /\ EngHolds(e) = {}
          /\ \A x \in Engines \ {e} : EngHolds(x)' = EngHolds(x)
          /\ queue' = queue
      <4>1. /\ eng' = [eng EXCEPT ![e] = Eng("fill", eng[e].s, Head(free), 0, eng[e].turn)]
            /\ queue' = queue /\ eng[e].pc = "get"
        BY <1>2, <2>1 DEF SendGetSlot
      <4> QED BY <4>1 DEF EngHolds, TypeOK
    <3>3. ToSet(free) = ToSet(free)' \cup {Head(free)} /\ ToSet(queue)' = ToSet(queue)
      BY <3>0, <3>1
    <3>2. rdr' = rdr /\ crashes' = crashes
      BY <1>2 DEF SendGetSlot
    <3> QED BY <3>1, <3>2, <3>3, PlacesSend DEF Kept
  <2>2. CASE free = <<>>
    <3>1. \A x \in Engines : EngHolds(x) \subseteq EngHolds(x)'
      BY <1>2, <2>2 DEF SendGetSlot, EngHolds, TypeOK
    <3>2. UNCHANGED <<free, queue, rdr, crashes>>
      BY <1>2, <2>2 DEF SendGetSlot
    <3> QED BY <3>1, <3>2, RdrHoldsSame, PlacesSame DEF Kept
  <2> QED BY <2>1, <2>2
<1>3. ASSUME NEW e \in Engines, SendFill(e) PROVE Kept /\ crashes' = crashes
  <2>1. \A x \in Engines : EngHolds(x) \subseteq EngHolds(x)'
    BY <1>3, EngHoldsChange DEF SendFill, EngHolds
  <2> QED BY <1>3, <2>1, RdrHoldsSame, PlacesSame DEF SendFill, Kept
<1>4. ASSUME NEW e \in Engines, SendPublish(e) PROVE Kept /\ crashes' = crashes
  <2>1. /\ ToSet(queue') = ToSet(queue) \cup {eng[e].slot} /\ free' = free
        /\ EngHolds(e) = {eng[e].slot}
        /\ \A x \in Engines \ {e} : EngHolds(x)' = EngHolds(x)
    BY <1>4, AppendFacts DEF SendPublish, EngHolds, TypeOK
  <2> QED BY <1>4, <2>1, PlacesSend DEF SendPublish, Kept
<1>5. ASSUME NEW e \in Engines, SendPublishFails(e) PROVE Kept /\ crashes' = crashes
  <2>1. /\ ToSet(free') = ToSet(free) \cup {eng[e].slot} /\ queue' = queue
        /\ EngHolds(e) = {eng[e].slot}
        /\ \A x \in Engines \ {e} : EngHolds(x)' = EngHolds(x)
    BY <1>5, AppendFacts DEF SendPublishFails, EngHolds, TypeOK
  <2> QED BY <1>5, <2>1, PlacesSend DEF SendPublishFails, Kept
<1>6. ASSUME NEW e \in Engines, SendIncTail(e) \/ SendDecide(e) \/ SendRing(e)
      PROVE  Kept /\ crashes' = crashes
  <2>1. EngHolds(e) = {} /\ \A x \in Engines \ {e} : EngHolds(x)' = EngHolds(x)
    BY <1>6 DEF SendIncTail, SendDecide, SendRing, SendDone, EngHolds, TypeOK
  <2>2. UNCHANGED <<free, queue, rdr, crashes>>
    BY <1>6 DEF SendIncTail, SendDecide, SendRing
  <2> QED BY <2>1, <2>2, PlacesSend DEF Kept
<1>7. ASSUME NEW r \in Readers, Recv(r) PROVE Kept /\ crashes' = crashes
  <2>1. /\ RdrHolds(r) = {} /\ ToSet(free)' = ToSet(free) /\ eng' = eng
        /\ \A x \in Readers \ {r} : RdrHolds(x)' = RdrHolds(x)
        /\ crashes' = crashes
    BY <1>7 DEF Recv, RdrHolds, TypeOK
  <2>2. CASE queue # <<>>
    <3>1. ToSet(queue) = ToSet(Tail(queue)) \cup {Head(queue)} /\ queue' = Tail(queue)
      BY <1>7, <2>2, TailFacts DEF Recv, TypeOK
    <3>2. RdrHolds(r)' = {Head(queue)}
      BY <1>7, <2>2 DEF Recv, RdrHolds, TypeOK
    <3>3. ToSet(queue) = ToSet(queue)' \cup {Head(queue)}
      BY <3>1
    <3> QED BY <2>1, <3>2, <3>3, PlacesReceive DEF Kept
  <2>3. CASE queue = <<>>
    <3>1. ToSet(queue)' = ToSet(queue)
      BY <1>7, <2>3 DEF Recv
    <3> QED BY <2>1, <3>1, PlacesReceive DEF Kept
  <2> QED BY <2>2, <2>3
<1>8. ASSUME NEW r \in Readers, RecvCopy(r) \/ RecvClaim(r)
      PROVE  Kept /\ crashes' = crashes
  <2>0. /\ rdr'[r].pc \in {"claim", "free"} /\ rdr'[r].slot = rdr[r].slot
        /\ \A x \in Readers \ {r} : rdr'[x] = rdr[x]
    BY <1>8 DEF RecvCopy, RecvClaim, TypeOK
  <2>1. \A x \in Readers : RdrHolds(x) \subseteq RdrHolds(x)'
    BY <2>0 DEF RdrHolds
  <2>2. UNCHANGED <<free, queue, eng, crashes>>
    BY <1>8 DEF RecvCopy, RecvClaim
  <2> QED BY <2>1, <2>2, EngHoldsSame, PlacesSame DEF Kept
<1>9. ASSUME NEW r \in Readers, RecvFree(r) PROVE Kept /\ crashes' = crashes
  <2>1. /\ ToSet(free') = ToSet(free) \cup {rdr[r].slot} /\ queue' = queue
        /\ RdrHolds(r) = {rdr[r].slot}
        /\ \A x \in Readers \ {r} : RdrHolds(x)' = RdrHolds(x)
    BY <1>9, AppendFacts DEF RecvFree, RdrHolds, TypeOK
  <2> QED BY <1>9, <2>1, PlacesReceive DEF RecvFree, Kept
<1>10. ASSUME NEW r \in Readers,
              \/ RecvDepth(r) \/ RecvDepth2(r) \/ RecvRearm(r) \/ Finish(r)
              \/ TakeBell(r) \/ BellHeard(r) \/ PollTimeout(r)
              \/ PortClose(r) \/ OrphanQuits(r) \/ Start(r) \/ Register(r)
       PROVE  Kept /\ crashes' = crashes
  <2>1. rdr[r].pc \notin {"copy", "claim", "free"} /\ UNCHANGED <<free, queue, eng, crashes>>
    BY <1>10 DEF RecvDepth, RecvDepth2, RecvRearm, Finish, TakeBell, BellHeard,
                 PollTimeout, PortClose, OrphanQuits, Start, Register
  <2>2. \A x \in Readers \ {r} : rdr'[x] = rdr[x]
    BY <1>10 DEF RecvDepth, RecvDepth2, RecvRearm, Finish, TakeBell, BellHeard,
                 PollTimeout, PortClose, OrphanQuits, Start, Register, TypeOK
  <2>3. \A x \in Readers : RdrHolds(x) \subseteq RdrHolds(x)'
    BY <2>1, <2>2 DEF RdrHolds
  <2> QED BY <2>1, <2>3, EngHoldsSame, PlacesSame DEF Kept
<1>11. ASSUME NEW s \in Streams,
              Retract(s) \/ GiveUpResend(s) \/ Acknowledge(s) \/ Requeue(s)
       PROVE  Kept /\ crashes' = crashes
  <2>1. UNCHANGED <<free, queue, eng, rdr, crashes>>
    BY <1>11 DEF Retract, GiveUpResend, Acknowledge, Requeue
  <2> QED BY <2>1, EngHoldsSame, RdrHoldsSame, PlacesSame DEF Kept
<1>12. CASE UNCHANGED vars
  BY <1>12, EngHoldsSame, RdrHoldsSame, PlacesSame DEF vars, Kept
<1>13. ASSUME NEW r \in Readers, PortCloseRunning(r) PROVE Kept /\ crashes' = crashes
  BY <1>13, EngHoldsSame, RdrHoldsSame, PlacesSame DEF PortCloseRunning, Kept
<1> QED BY <1>1, <1>2, <1>3, <1>4, <1>5, <1>6, <1>7, <1>8, <1>9, <1>10, <1>11, <1>12, <1>13
        DEF Next, EngineStep, ReaderStep

\* The death of a context loses the one slot that it held.
LEMMA CrashLoses ==
  ASSUME TypeOK, NEW r \in Readers, Crash(r)
  PROVE  Lost' \subseteq Lost \cup {rdr[r].slot} /\ crashes' = crashes + 1
<1>1. UNCHANGED <<free, queue, eng>> /\ crashes' = crashes + 1
  BY DEF Crash, rings
<1>2. \A x \in Readers \ {r} : RdrHolds(x)' = RdrHolds(x)
  BY DEF Crash, TypeOK, RdrHolds
<1>3. RdrHolds(r) \subseteq {rdr[r].slot}
  BY DEF RdrHolds
<1>4. \A x \in Engines : EngHolds(x)' = EngHolds(x)
  BY <1>1, EngHoldsSame
<1>5. ToSet(free)' = ToSet(free) /\ ToSet(queue)' = ToSet(queue)
  BY <1>1
<1> QED BY <1>1, <1>2, <1>3, <1>4, <1>5 DEF Lost, InPlace

LEMMA LostStep == TypeOK /\ SlotsLost /\ [Next]_vars => SlotsLost'
<1> SUFFICES ASSUME TypeOK, SlotsLost, [Next]_vars PROVE SlotsLost'
  OBVIOUS
<1>1. IsFiniteSet(Lost) /\ Cardinality(Lost) \in Nat /\ Cardinality(Lost) <= crashes
  BY LostCounted, SlotsAssumption, FS_Subset, FS_CardinalityType DEF Lost
<1>2. crashes \in Nat
  BY DEF TypeOK
<1>3. ASSUME NEW r \in Readers, Crash(r) PROVE Cardinality(Lost') <= crashes'
  <2>1. Lost' \subseteq Lost \cup {rdr[r].slot} /\ crashes' = crashes + 1
    BY <1>3, CrashLoses
  <2>2. IsFiniteSet(Lost \cup {rdr[r].slot})
        /\ Cardinality(Lost \cup {rdr[r].slot}) <= Cardinality(Lost) + 1
    BY <1>1, FS_AddElement
  <2>3. Cardinality(Lost') <= Cardinality(Lost \cup {rdr[r].slot})
        /\ Cardinality(Lost') \in Nat /\ Cardinality(Lost \cup {rdr[r].slot}) \in Nat
    BY <2>1, <2>2, FS_Subset, FS_CardinalityType
  <2> QED BY <1>1, <1>2, <2>1, <2>2, <2>3
<1>4. ASSUME \A r \in Readers : ~Crash(r) PROVE Cardinality(Lost') <= crashes'
  <2>1. Kept /\ crashes' = crashes
    BY <1>4, KeptStep
  <2>2. Lost' \subseteq Lost
    BY <2>1 DEF Kept, Lost
  <2>3. Cardinality(Lost') <= Cardinality(Lost) /\ Cardinality(Lost') \in Nat
    BY <1>1, <2>2, FS_Subset, FS_CardinalityType
  <2> QED BY <1>1, <1>2, <2>1, <2>3
<1>5. (SlotsLost <=> Cardinality(Lost) <= crashes)'
  BY LostCounted, PTL
<1> QED BY <1>3, <1>4, <1>5

LEMMA LostInit == Init => SlotsLost
<1> SUFFICES ASSUME Init PROVE SlotsLost
  OBVIOUS
<1> DEFINE n == Cardinality(Slots)
<1>1. n \in Nat /\ Cardinality(1..n) = n
  BY SlotsAssumption, FS_CardinalityType, FS_Interval
<1>2. free \in [1..n -> Slots] /\ \A i, j \in 1..n : i # j => free[i] # free[j]
  BY DEF Init, SetToSeqs
<1>3. free \in Injection(1..n, Slots)
  BY <1>2 DEF Injection, IsInjective
<1>4. free \in Surjection(1..n, Slots)
  BY <1>1, <1>3, SlotsAssumption, FS_Injection
<1>5. \A i \in Slots : i \in ToSet(free)
  BY <1>2, <1>4 DEF Surjection, ToSet
<1>6. Lost = {}
  BY <1>5 DEF Lost, InPlace
<1>7. Cardinality(Lost) = 0 /\ crashes = 0
  BY <1>6, FS_EmptySet DEF Init
<1> QED BY <1>7, LostCounted

\* A slot leaves the circulation only with a context that died between its
\* dequeue and its release, one for each death: nxt_app_queue_recv_claim(),
\* nxt_app_queue_send_bound().
THEOREM SlotsLostByDeath == Spec => []SlotsLost
<1>1. Init => TypeOK /\ SlotsLost
  BY TypeInit, LostInit
<1>2. (TypeOK /\ SlotsLost) /\ [Next]_vars => (TypeOK /\ SlotsLost)'
  BY TypeStep, LostStep
<1> QED BY <1>1, <1>2, PTL DEF Spec

-----------------------------------------------------------------------------
(* A request is claimed by one worker or retracted by the router, never    *)
(* both and never twice.                                                   *)

\* The inductive invariant: what the tracking words mean, on top of the
\* separation of slots that keeps two actors from one word.
IInv == /\ TypeOK /\ SlotsExclusive
        /\ SendsOwn /\ TrackingNames /\ ReceivesOwn /\ RouterCanTell
        /\ RunsOnce /\ ClaimXorRetract

\* The part that the steps below preserve.
Claims == /\ SendsOwn /\ TrackingNames /\ ReceivesOwn /\ RouterCanTell
          /\ RunsOnce /\ ClaimXorRetract

LEMMA ClaimsInit == Init => Claims
<1> SUFFICES ASSUME Init PROVE Claims
  OBVIOUS
<1> USE StreamsAssumption, SlotsAssumption DEF Init, Eng, IdleEng, Rdr, RdrAt, Item
<1>1. \A s \in Streams : ~Unfilled(s) /\ ~Filled(s)
  BY DEF Unfilled, Filled
<1>2. SendsOwn
  BY DEF SendsOwn
<1>3. TrackingNames
  BY DEF TrackingNames
<1>4. ReceivesOwn
  BY DEF ReceivesOwn
<1>5. RouterCanTell
  BY <1>1 DEF RouterCanTell
<1>6. RunsOnce /\ ClaimXorRetract
  BY DEF RunsOnce, ClaimXorRetract
<1> QED BY <1>2, <1>3, <1>4, <1>5, <1>6 DEF Claims

-----------------------------------------------------------------------------
(* Steps that leave the words, the cookies and the counts alone.            *)

\* Only locals of a receive change, and no receive gets to its claim.
LEMMA ReaderMoves ==
  ASSUME IInv, UNCHANGED <<free, item, eng, req, cookie, runs>>,
         \A r \in Readers : rdr'[r] = rdr[r] \/ rdr'[r].pc \notin {"claim", "free"}
  PROVE  Claims'
<1>1. ReceivesOwn'
  BY DEF IInv, ReceivesOwn
<1>2. \A i : Stale(i)' <=> Stale(i)
  BY DEF Stale
<1>3. \A s : (Unfilled(s)' <=> Unfilled(s)) /\ (Filled(s)' <=> Filled(s))
  BY DEF Unfilled, Filled
<1>4. SendsOwn'
  BY DEF IInv, SendsOwn
<1>5. TrackingNames'
  BY <1>2, <1>3 DEF IInv, TrackingNames
<1>6. RouterCanTell'
  BY <1>2, <1>3 DEF IInv, RouterCanTell
<1>7. RunsOnce' /\ ClaimXorRetract'
  BY DEF IInv, RunsOnce, ClaimXorRetract
<1> QED BY <1>1, <1>4, <1>5, <1>6, <1>7 DEF Claims

\* A send goes on after it stored the tracking word.
LEMMA SenderMoves ==
  ASSUME IInv, NEW e \in Engines, eng[e].pc \in {"publish", "tail", "decide"},
         eng'[e].s = eng[e].s, eng'[e].pc \in {"tail", "decide", "ring"},
         \A x \in Engines \ {e} : eng'[x] = eng[x],
         UNCHANGED <<free, item, rdr, req, cookie, runs>>
  PROVE  Claims'
<1>0. eng \in [Engines -> [pc : EngPcs, s : Streams \cup {NoStream},
                           slot : Slots \cup {NoSlot}, pos : Nat,
                           turn : {"first", "again"}]]
  BY DEF IInv, TypeOK
<1>1. ReceivesOwn'
  BY DEF IInv, ReceivesOwn
<1>2. \A i : Stale(i)' <=> Stale(i)
  BY <1>0 DEF Stale
<1>3. \A s : (Unfilled(s)' <=> Unfilled(s)) /\ (Filled(s)' <=> Filled(s))
  BY <1>0 DEF Unfilled, Filled
<1>4. SendsOwn'
  BY <1>0 DEF IInv, SendsOwn
<1>5. TrackingNames'
  BY <1>2, <1>3 DEF IInv, TrackingNames
<1>6. RouterCanTell'
  BY <1>2, <1>3 DEF IInv, RouterCanTell
<1>7. RunsOnce' /\ ClaimXorRetract'
  BY DEF IInv, RunsOnce, ClaimXorRetract
<1> QED BY <1>1, <1>4, <1>5, <1>6, <1>7 DEF Claims

\* A send is over.
LEMMA SenderDone ==
  ASSUME IInv, NEW e \in Engines, eng[e].pc \in {"decide", "ring"}, SendDone(e),
         UNCHANGED <<free, item, rdr, cookie, runs>>
  PROVE  Claims'
<1>0. eng \in [Engines -> [pc : EngPcs, s : Streams \cup {NoStream},
                           slot : Slots \cup {NoSlot}, pos : Nat,
                           turn : {"first", "again"}]]
      /\ req \in [Streams -> ReqStates]
  BY DEF IInv, TypeOK
<1> DEFINE s == eng[e].s
<1>1. /\ s \in Streams /\ req[s] = "sending"
      /\ \A x \in Engines \ {e} : eng[x].s # s
  BY <1>0, StreamsAssumption DEF IInv, SendsOwn
<1>2. eng' = [eng EXCEPT ![e] = IdleEng] /\ req' = [req EXCEPT ![s] = "queued"]
  BY DEF SendDone
<1> HIDE DEF s
<1>3. \A i : Stale(i)' <=> Stale(i)
  BY <1>0, <1>2 DEF Stale, IdleEng, Eng
<1>4. \A x \in Streams : Unfilled(x)' <=> Unfilled(x)
  BY <1>0, <1>2 DEF Unfilled, IdleEng, Eng
<1>5. Filled(s) /\ \A x \in Streams : Filled(x)' <=> (Filled(x) /\ x # s)
  BY <1>0, <1>1, <1>2, StreamsAssumption DEF Filled, IdleEng, Eng, s
<1>6. SendsOwn'
  BY <1>0, <1>1, <1>2, StreamsAssumption DEF IInv, SendsOwn, IdleEng, Eng
<1>7. TrackingNames'
  BY <1>0, <1>1, <1>2, <1>3, <1>4 DEF IInv, TrackingNames, TypeOK
<1>8. ReceivesOwn'
  BY DEF IInv, ReceivesOwn
<1>9. RouterCanTell'
  BY <1>0, <1>1, <1>2, <1>3, <1>4, <1>5 DEF IInv, RouterCanTell
<1>10. RunsOnce' /\ ClaimXorRetract'
  BY <1>0, <1>1, <1>2 DEF IInv, RunsOnce, ClaimXorRetract
<1> QED BY <1>6, <1>7, <1>8, <1>9, <1>10 DEF Claims

\* The router decides about a request that no word tracks.
LEMMA RequestMoves ==
  ASSUME IInv, NEW s \in Streams,
         NEW v \in {"retracted", "acked", "taken", "parked"},
         req[s] # "sending", req' = [req EXCEPT ![s] = v],
         \A i \in Slots : ~Stale(i) => item[i].tracking # s,
         v \in {"retracted", "parked"} => runs[s] = 0,
         v \in {"acked", "taken"} => runs[s] = 1,
         UNCHANGED <<free, item, eng, rdr, cookie, runs>>
  PROVE  Claims'
<1>0. eng \in [Engines -> [pc : EngPcs, s : Streams \cup {NoStream},
                           slot : Slots \cup {NoSlot}, pos : Nat,
                           turn : {"first", "again"}]]
      /\ req \in [Streams -> ReqStates]
  BY DEF IInv, TypeOK
<1>1. \A x \in Engines : eng[x].s # s \/ eng[x].pc = "idle"
  BY DEF IInv, SendsOwn
<1>2. ~Unfilled(s) /\ ~Filled(s)
  BY <1>1 DEF Unfilled, Filled
<1>3. /\ \A i : Stale(i)' <=> Stale(i)
      /\ \A x : (Unfilled(x)' <=> Unfilled(x)) /\ (Filled(x)' <=> Filled(x))
  BY DEF Stale, Unfilled, Filled
<1>4. SendsOwn'
  BY <1>0, <1>1 DEF IInv, SendsOwn
<1>5. TrackingNames'
  BY <1>0, <1>3 DEF IInv, TrackingNames
<1>6. ReceivesOwn'
  BY DEF IInv, ReceivesOwn
<1>7. RouterCanTell'
  BY <1>0, <1>2, <1>3 DEF IInv, RouterCanTell
<1>8. RunsOnce' /\ ClaimXorRetract'
  BY <1>0 DEF IInv, RunsOnce, ClaimXorRetract
<1> QED BY <1>4, <1>5, <1>6, <1>7, <1>8 DEF Claims

\* The router retracts a request whose word still names it.
LEMMA RequestCancelled ==
  ASSUME IInv, NEW s \in Streams, NEW v \in {"retracted", "parked"},
         req[s] = "queued", item[cookie[s]].tracking = s,
         item' = [item EXCEPT ![cookie[s]] = Item(item[cookie[s]].data, NoStream)],
         req' = [req EXCEPT ![s] = v],
         UNCHANGED <<free, eng, rdr, cookie, runs>>
  PROVE  Claims'
<1>0. eng \in [Engines -> [pc : EngPcs, s : Streams \cup {NoStream},
                           slot : Slots \cup {NoSlot}, pos : Nat,
                           turn : {"first", "again"}]]
      /\ req \in [Streams -> ReqStates]
  BY DEF IInv, TypeOK
<1> DEFINE c == cookie[s]
<1>1. c \in Slots /\ runs[s] = 0
  BY DEF IInv, RouterCanTell
<1>2. item' = [item EXCEPT ![c] = Item(item[c].data, NoStream)] /\ item[c].tracking = s
  OBVIOUS
<1>3. /\ item'[c].data = item[c].data /\ item'[c].tracking = NoStream
      /\ \A i \in Slots \ {c} : item'[i] = item[i]
  BY <1>1, <1>2 DEF IInv, TypeOK, Item
<1>4. \A x \in Engines : eng[x].s # s \/ eng[x].pc = "idle"
  BY DEF IInv, SendsOwn
<1>5. ~Unfilled(s) /\ ~Filled(s)
  BY <1>4 DEF Unfilled, Filled
<1>6. /\ \A i : Stale(i)' <=> Stale(i)
      /\ \A x : (Unfilled(x)' <=> Unfilled(x)) /\ (Filled(x)' <=> Filled(x))
  BY DEF Stale, Unfilled, Filled
<1>7. SendsOwn'
  BY <1>0, <1>1, <1>2, <1>3, <1>4 DEF IInv, SendsOwn, TypeOK
<1>8. TrackingNames'
  <2>1. \A i \in Slots \ {c} : ~Stale(i) => item[i].tracking # s
    BY StreamsAssumption DEF IInv, TrackingNames
  <2> QED BY <1>0, <1>3, <1>6, <2>1 DEF IInv, TrackingNames
<1>9. ReceivesOwn'
  <2>1. \A r \in Readers : rdr[r].pc \in {"claim", "free"} => rdr[r].slot \in Slots
    BY DEF IInv, TypeOK
  <2> QED BY <1>1, <1>3, <2>1 DEF IInv, ReceivesOwn
<1>10. RouterCanTell'
  BY <1>0, <1>1, <1>2, <1>3, <1>5, <1>6, StreamsAssumption DEF IInv, RouterCanTell
<1>11. RunsOnce' /\ ClaimXorRetract'
  BY <1>0, <1>1 DEF IInv, RunsOnce, ClaimXorRetract
<1> QED BY <1>7, <1>8, <1>9, <1>10, <1>11 DEF Claims

-----------------------------------------------------------------------------
(* The steps of a send that touch slots and words.                          *)

LEMMA ClaimsSend ==
  ASSUME IInv, NEW e \in Engines, NEW s \in Streams, Send(e, s)
  PROVE  Claims'
<1>0. eng \in [Engines -> [pc : EngPcs, s : Streams \cup {NoStream},
                           slot : Slots \cup {NoSlot}, pos : Nat,
                           turn : {"first", "again"}]]
      /\ req \in [Streams -> ReqStates]
  BY DEF IInv, TypeOK
<1>1. /\ eng[e] = IdleEng /\ req[s] \in {"new", "resend"}
      /\ \E t \in {"first", "again"} :
           eng' = [eng EXCEPT ![e] = Eng("get", s, NoSlot, 0, t)]
      /\ req' = [req EXCEPT ![s] = "sending"]
      /\ UNCHANGED <<free, item, rdr, cookie, runs>>
  BY DEF Send, rings
<1>2. \A x \in Engines : eng[x].s # s
  BY <1>0, <1>1, StreamsAssumption DEF IInv, SendsOwn, IdleEng, Eng
<1>3. \A i : Stale(i)' <=> Stale(i)
  BY <1>0, <1>1 DEF Stale, IdleEng, Eng
<1>4. \A x \in Streams : Unfilled(x)' <=> (Unfilled(x) \/ x = s)
  BY <1>0, <1>1 DEF Unfilled, IdleEng, Eng
<1>5. ~Filled(s) /\ \A x \in Streams : Filled(x)' <=> Filled(x)
  BY <1>0, <1>1, <1>2 DEF Filled, IdleEng, Eng
<1>6. SendsOwn'
  BY <1>0, <1>1, <1>2, StreamsAssumption DEF IInv, SendsOwn, IdleEng, Eng
<1>7. TrackingNames'
  BY <1>0, <1>1, <1>3, <1>4 DEF IInv, TrackingNames, TypeOK
<1>8. ReceivesOwn'
  BY <1>1 DEF IInv, ReceivesOwn
<1>9. RouterCanTell'
  BY <1>0, <1>1, <1>3, <1>4, <1>5 DEF IInv, RouterCanTell
<1>10. RunsOnce' /\ ClaimXorRetract'
  BY <1>0, <1>1 DEF IInv, RunsOnce, ClaimXorRetract
<1> QED BY <1>6, <1>7, <1>8, <1>9, <1>10 DEF Claims

LEMMA ClaimsGetSlot ==
  ASSUME IInv, NEW e \in Engines, SendGetSlot(e), free # <<>>
  PROVE  Claims'
<1>0. eng \in [Engines -> [pc : EngPcs, s : Streams \cup {NoStream},
                           slot : Slots \cup {NoSlot}, pos : Nat,
                           turn : {"first", "again"}]]
      /\ req \in [Streams -> ReqStates]
  BY DEF IInv, TypeOK
<1>1. /\ eng[e].pc = "get" /\ free' = Tail(free)
      /\ eng' = [eng EXCEPT ![e] = Eng("fill", eng[e].s, Head(free), 0, eng[e].turn)]
      /\ UNCHANGED <<item, rdr, req, cookie, runs>>
  BY DEF SendGetSlot
<1>2. ToSet(free) = ToSet(Tail(free)) \cup {Head(free)}
  BY TailFacts DEF IInv, TypeOK
<1>3. \A i : Stale(i)' <=> Stale(i)
  <2>1. \A x \in Engines : /\ x # e => eng'[x] = eng[x]
                           /\ eng'[e].pc = "fill" /\ eng'[e].slot = Head(free)
    BY <1>0, <1>1 DEF Eng
  <2> QED BY <1>1, <1>2, <2>1 DEF Stale
<1>4. \A x : (Unfilled(x)' <=> Unfilled(x)) /\ (Filled(x)' <=> Filled(x))
  BY <1>0, <1>1 DEF Unfilled, Filled, Eng
<1>5. SendsOwn'
  BY <1>0, <1>1 DEF IInv, SendsOwn, Eng
<1>6. TrackingNames'
  BY <1>1, <1>3, <1>4 DEF IInv, TrackingNames
<1>7. ReceivesOwn'
  BY <1>1 DEF IInv, ReceivesOwn
<1>8. RouterCanTell'
  BY <1>1, <1>3, <1>4 DEF IInv, RouterCanTell
<1>9. RunsOnce' /\ ClaimXorRetract'
  BY <1>1 DEF IInv, RunsOnce, ClaimXorRetract
<1> QED BY <1>5, <1>6, <1>7, <1>8, <1>9 DEF Claims

LEMMA ClaimsNoSlot ==
  ASSUME IInv, NEW e \in Engines, SendGetSlot(e), free = <<>>
  PROVE  Claims'
<1>0. eng \in [Engines -> [pc : EngPcs, s : Streams \cup {NoStream},
                           slot : Slots \cup {NoSlot}, pos : Nat,
                           turn : {"first", "again"}]]
      /\ req \in [Streams -> ReqStates]
  BY DEF IInv, TypeOK
<1> DEFINE s == eng[e].s
<1>1. /\ s \in Streams /\ req[s] = "sending"
      /\ \A x \in Engines \ {e} : eng[x].s # s
  BY <1>0, StreamsAssumption DEF IInv, SendsOwn, SendGetSlot
<1>2. /\ eng[e].pc = "get" /\ eng' = [eng EXCEPT ![e] = IdleEng]
      /\ \E v \in {"resend", "failed"} : req' = [req EXCEPT ![s] = v]
      /\ UNCHANGED <<free, item, rdr, cookie, runs>>
  BY DEF SendGetSlot
<1>3. Unfilled(s)
  BY <1>2 DEF Unfilled
<1> HIDE DEF s
<1>4. runs[s] = 0 /\ \A i \in Slots : ~Stale(i) => item[i].tracking # s
  BY <1>1, <1>3, StreamsAssumption DEF IInv, RouterCanTell, TrackingNames
<1>5. \A i : Stale(i)' <=> Stale(i)
  BY <1>0, <1>2 DEF Stale, IdleEng, Eng
<1>6. \A x \in Streams : Unfilled(x)' <=> (Unfilled(x) /\ x # s)
  BY <1>0, <1>1, <1>2, StreamsAssumption DEF Unfilled, IdleEng, Eng, s
<1>7. ~Filled(s) /\ \A x \in Streams : Filled(x)' <=> Filled(x)
  BY <1>0, <1>1, <1>2 DEF Filled, IdleEng, Eng, s
<1>8. SendsOwn'
  BY <1>0, <1>1, <1>2, StreamsAssumption DEF IInv, SendsOwn, IdleEng, Eng
<1>9. TrackingNames'
  BY <1>0, <1>1, <1>2, <1>4, <1>5, <1>6 DEF IInv, TrackingNames, TypeOK
<1>10. ReceivesOwn'
  BY <1>2 DEF IInv, ReceivesOwn
<1>11. RouterCanTell'
  BY <1>0, <1>1, <1>2, <1>4, <1>5, <1>6, <1>7 DEF IInv, RouterCanTell
<1>12. RunsOnce' /\ ClaimXorRetract'
  BY <1>0, <1>1, <1>2, <1>4 DEF IInv, RunsOnce, ClaimXorRetract
<1> QED BY <1>8, <1>9, <1>10, <1>11, <1>12 DEF Claims

LEMMA ClaimsFill ==
  ASSUME IInv, NEW e \in Engines, SendFill(e)
  PROVE  Claims'
<1>0. eng \in [Engines -> [pc : EngPcs, s : Streams \cup {NoStream},
                           slot : Slots \cup {NoSlot}, pos : Nat,
                           turn : {"first", "again"}]]
      /\ req \in [Streams -> ReqStates]
  BY DEF IInv, TypeOK
<1> DEFINE s == eng[e].s
<1> DEFINE c == eng[e].slot
<1>1. /\ s \in Streams /\ req[s] = "sending"
      /\ \A x \in Engines \ {e} : eng[x].s # s
  BY <1>0, StreamsAssumption DEF IInv, SendsOwn, SendFill
<1>2. /\ c \in Slots /\ c \notin ToSet(free)
      /\ \A x \in Engines \ {e} : eng[x].pc \in {"fill", "publish"} => eng[x].slot # c
      /\ \A r \in Readers : rdr[r].pc \in {"copy", "claim", "free"} => rdr[r].slot # c
  BY DEF IInv, SlotsExclusive, EngHolds, RdrHolds, TypeOK, SendFill
<1>3. /\ eng[e].pc = "fill"
      /\ eng' = [eng EXCEPT ![e] = Eng("publish", s, c, 0, eng[e].turn)]
      /\ item' = [item EXCEPT ![c] = Item(s, s)]
      /\ cookie' = [cookie EXCEPT ![s] = c]
      /\ UNCHANGED <<free, rdr, req, runs>>
  BY DEF SendFill, rings
<1>4. Stale(c) /\ Unfilled(s)
  BY <1>3 DEF Stale, Unfilled
<1>5. runs[s] = 0 /\ \A i \in Slots : ~Stale(i) => item[i].tracking # s
  BY <1>1, <1>4, StreamsAssumption DEF IInv, RouterCanTell, TrackingNames
<1> HIDE DEF s, c
<1>6. /\ item'[c].data = s /\ item'[c].tracking = s
      /\ \A i \in Slots \ {c} : item'[i] = item[i]
  BY <1>2, <1>3 DEF IInv, TypeOK, Item
<1>7. cookie'[s] = c /\ \A x \in Streams \ {s} : cookie'[x] = cookie[x]
  BY <1>1, <1>3 DEF IInv, TypeOK
<1>8. /\ eng'[e].pc = "publish" /\ eng'[e].s = s /\ eng'[e].slot = c
      /\ \A x \in Engines \ {e} : eng'[x] = eng[x]
  BY <1>0, <1>3 DEF Eng
<1>9. \A i : Stale(i)' <=> (Stale(i) /\ i # c)
  BY <1>2, <1>3, <1>8 DEF Stale, c
<1>10. \A x \in Streams : /\ Unfilled(x)' <=> (Unfilled(x) /\ x # s)
                          /\ Filled(x)' <=> (Filled(x) \/ x = s)
  BY <1>1, <1>3, <1>8 DEF Unfilled, Filled, s
<1>11. SendsOwn'
  <2>1. \A x \in Engines \ {e} : eng[x].pc = "publish" =>
          eng[x].s \in Streams \ {s} /\ eng[x].slot \in Slots \ {c}
    BY <1>1, <1>2 DEF IInv, SendsOwn, TypeOK
  <2>2. \A x \in Engines : IF eng'[x].pc = "idle" THEN eng'[x] = IdleEng
                            ELSE eng'[x].s \in Streams /\ req'[eng'[x].s] = "sending"
    BY <1>1, <1>3, <1>8 DEF IInv, SendsOwn
  <2>3. \A x, y \in Engines : x # y /\ eng'[x].pc # "idle" => eng'[x].s # eng'[y].s
    BY <1>1, <1>3, <1>8 DEF IInv, SendsOwn, s
  <2> QED BY <1>6, <1>7, <1>8, <2>1, <2>2, <2>3 DEF IInv, SendsOwn
<1>12. TrackingNames'
  <2>1. ASSUME NEW i \in Slots \ {c}, ~Stale(i)
        PROVE  item[i].tracking # NoStream =>
                 item[i].tracking \in Streams \ {s}
    BY <1>5, <2>1 DEF IInv, TypeOK
  <2> QED BY <1>1, <1>3, <1>5, <1>6, <1>7, <1>9, <1>10, <2>1 DEF IInv, TrackingNames
<1>13. ReceivesOwn'
  <2>1. \A r \in Readers : rdr[r].pc \in {"claim", "free"} => rdr[r].slot \in Slots \ {c}
    BY <1>2 DEF IInv, TypeOK
  <2> QED BY <1>3, <1>6, <2>1 DEF IInv, ReceivesOwn
<1>14. RouterCanTell'
  BY <1>1, <1>2, <1>3, <1>4, <1>5, <1>6, <1>7, <1>9, <1>10 DEF IInv, RouterCanTell
<1>15. RunsOnce' /\ ClaimXorRetract'
  BY <1>3 DEF IInv, RunsOnce, ClaimXorRetract
<1> QED BY <1>11, <1>12, <1>13, <1>14, <1>15 DEF Claims

LEMMA ClaimsPublishFails ==
  ASSUME IInv, NEW e \in Engines, SendPublishFails(e)
  PROVE  Claims'
<1>0. eng \in [Engines -> [pc : EngPcs, s : Streams \cup {NoStream},
                           slot : Slots \cup {NoSlot}, pos : Nat,
                           turn : {"first", "again"}]]
      /\ req \in [Streams -> ReqStates]
  BY DEF IInv, TypeOK
<1> DEFINE s == eng[e].s
<1> DEFINE c == eng[e].slot
<1>1. /\ s \in Streams /\ req[s] = "sending"
      /\ \A x \in Engines \ {e} : eng[x].s # s
  BY <1>0, StreamsAssumption DEF IInv, SendsOwn, SendPublishFails
<1>2. /\ c \in Slots /\ c \notin ToSet(free)
      /\ \A x \in Engines \ {e} : eng[x].pc \in {"fill", "publish"} => eng[x].slot # c
      /\ \A r \in Readers : rdr[r].pc \in {"copy", "claim", "free"} => rdr[r].slot # c
  BY DEF IInv, SlotsExclusive, EngHolds, RdrHolds, TypeOK, SendPublishFails
<1>3. /\ eng[e].pc = "publish" /\ eng' = [eng EXCEPT ![e] = IdleEng]
      /\ free' = Append(free, c)
      /\ \E v \in {"resend", "failed"} : req' = [req EXCEPT ![s] = v]
      /\ UNCHANGED <<item, rdr, cookie, runs>>
  BY DEF SendPublishFails
<1>4. cookie[s] = c /\ item[c].tracking = s /\ Filled(s)
  BY <1>3 DEF IInv, SendsOwn, Filled
<1> HIDE DEF s, c
<1>5. runs[s] = 0 /\ \A i \in Slots \ {c} : ~Stale(i) => item[i].tracking # s
  BY <1>1, <1>2, <1>4, StreamsAssumption DEF IInv, RouterCanTell, TrackingNames
<1>6. ToSet(free)' = ToSet(free) \cup {c}
  BY <1>2, <1>3, AppendFacts DEF IInv, TypeOK
<1>7. \A i : Stale(i)' <=> (Stale(i) \/ i = c)
  BY <1>0, <1>3, <1>6 DEF Stale, IdleEng, Eng
<1>8. \A x \in Streams : /\ Unfilled(x)' <=> Unfilled(x)
                         /\ Filled(x)' <=> (Filled(x) /\ x # s)
  BY <1>0, <1>1, <1>3, StreamsAssumption DEF Unfilled, Filled, IdleEng, Eng, s
<1>9. ~Unfilled(s)
  BY <1>1, <1>3 DEF Unfilled, s
<1>10. SendsOwn'
  BY <1>0, <1>1, <1>3, StreamsAssumption DEF IInv, SendsOwn, IdleEng, Eng
<1>11. TrackingNames'
  BY <1>0, <1>1, <1>3, <1>5, <1>7, <1>8 DEF IInv, TrackingNames, TypeOK
<1>12. ReceivesOwn'
  BY <1>3 DEF IInv, ReceivesOwn
<1>13. RouterCanTell'
  BY <1>0, <1>1, <1>3, <1>4, <1>5, <1>7, <1>8 DEF IInv, RouterCanTell
<1>14. RunsOnce' /\ ClaimXorRetract'
  BY <1>0, <1>1, <1>3, <1>5 DEF IInv, RunsOnce, ClaimXorRetract
<1> QED BY <1>10, <1>11, <1>12, <1>13, <1>14 DEF Claims

-----------------------------------------------------------------------------
(* The steps of a receive that touch slots and words.                       *)

LEMMA ClaimsCopy ==
  ASSUME IInv, NEW r \in Readers, RecvCopy(r)
  PROVE  Claims'
<1>1. /\ rdr' = [rdr EXCEPT ![r] =
                   Rdr("claim", rdr[r].slot, item[rdr[r].slot].data, "lost", 0)]
      /\ UNCHANGED <<free, item, eng, req, cookie, runs>>
  BY DEF RecvCopy, rings
<1>2. ReceivesOwn'
  BY <1>1 DEF IInv, ReceivesOwn, TypeOK, Rdr
<1>3. /\ \A i : Stale(i)' <=> Stale(i)
      /\ \A s : (Unfilled(s)' <=> Unfilled(s)) /\ (Filled(s)' <=> Filled(s))
  BY <1>1 DEF Stale, Unfilled, Filled
<1>4. SendsOwn'
  BY <1>1 DEF IInv, SendsOwn
<1>5. TrackingNames'
  BY <1>1, <1>3 DEF IInv, TrackingNames
<1>6. RouterCanTell'
  BY <1>1, <1>3 DEF IInv, RouterCanTell
<1>7. RunsOnce' /\ ClaimXorRetract'
  BY <1>1 DEF IInv, RunsOnce, ClaimXorRetract
<1> QED BY <1>2, <1>4, <1>5, <1>6, <1>7 DEF Claims

\* The claim is won for a request: its word is cleared and it runs.
LEMMA ClaimsWon ==
  ASSUME IInv, NEW r \in Readers, RecvClaim(r),
         item[rdr[r].slot].tracking = rdr[r].s, rdr[r].s \in Streams
  PROVE  Claims'
<1> DEFINE c == rdr[r].slot
<1>0. /\ c \in Slots /\ c \notin ToSet(free)
      /\ \A x \in Engines : eng[x].pc \in {"fill", "publish"} => eng[x].slot # c
      /\ \A x \in Readers \ {r} :
           rdr[x].pc \in {"copy", "claim", "free"} => rdr[x].slot # c
  BY DEF IInv, SlotsExclusive, EngHolds, RdrHolds, TypeOK, RecvClaim
<1>1. ~Stale(c)
  BY <1>0 DEF Stale
<1> DEFINE s == rdr[r].s
<1>2. /\ item[c].tracking = s /\ s \in Streams
      /\ item' = [item EXCEPT ![c] = Item(item[c].data, NoStream)]
      /\ runs' = [runs EXCEPT ![s] = runs[s] + 1]
      /\ rdr' = [rdr EXCEPT ![r] = Rdr("free", c, s, "won", 0)]
      /\ item[c].data = s
      /\ UNCHANGED <<free, eng, req, cookie>>
  BY DEF RecvClaim, rings, IInv, ReceivesOwn
<1>3. /\ cookie[s] = c /\ runs[s] = 0 /\ req[s] \in {"sending", "queued"}
      /\ ~Unfilled(s)
  BY <1>0, <1>1, <1>2, StreamsAssumption DEF IInv, TrackingNames
<1>4. /\ rdr'[r].pc = "free" /\ rdr'[r].s = s /\ rdr'[r].slot = c
      /\ \A x \in Readers \ {r} : rdr'[x] = rdr[x]
  BY <1>2 DEF Rdr, IInv, TypeOK
<1> HIDE DEF s, c
<1>5. /\ item'[c].data = item[c].data /\ item'[c].tracking = NoStream
      /\ \A i \in Slots \ {c} : item'[i] = item[i]
  BY <1>0, <1>2 DEF IInv, TypeOK, Item
<1>6. runs'[s] = 1 /\ \A x \in Streams \ {s} : runs'[x] = runs[x]
  BY <1>2, <1>3 DEF IInv, TypeOK
<1>7. /\ \A i : Stale(i)' <=> Stale(i)
      /\ \A x : (Unfilled(x)' <=> Unfilled(x)) /\ (Filled(x)' <=> Filled(x))
  BY <1>2 DEF Stale, Unfilled, Filled
<1>8. SendsOwn'
  BY <1>0, <1>2, <1>5 DEF IInv, SendsOwn, TypeOK
<1>9. TrackingNames'
  <2>1. ASSUME NEW i \in Slots \ {c}, ~Stale(i), item[i].tracking # NoStream
        PROVE  item[i].tracking \in Streams \ {s}
    BY <1>3, <2>1 DEF IInv, TrackingNames, TypeOK
  <2> QED BY <1>2, <1>5, <1>6, <1>7, <2>1 DEF IInv, TrackingNames
<1>10. ReceivesOwn'
  <2>1. \A x \in Readers \ {r} :
          rdr[x].pc \in {"claim", "free"} => rdr[x].slot \in Slots \ {c}
    BY <1>0 DEF IInv, TypeOK
  <2> QED BY <1>2, <1>4, <1>5, <2>1 DEF IInv, ReceivesOwn
<1>11. RouterCanTell'
  BY <1>2, <1>3, <1>5, <1>6, <1>7, StreamsAssumption DEF IInv, RouterCanTell
<1>12. RunsOnce' /\ ClaimXorRetract'
  BY <1>2, <1>3, <1>6 DEF IInv, RunsOnce, ClaimXorRetract
<1> QED BY <1>8, <1>9, <1>10, <1>11, <1>12 DEF Claims

\* The claim is lost: the word was cleared by the router.
LEMMA ClaimsLost ==
  ASSUME IInv, NEW r \in Readers, RecvClaim(r),
         ~(item[rdr[r].slot].tracking = rdr[r].s /\ rdr[r].s \in Streams)
  PROVE  Claims'
<1> DEFINE c == rdr[r].slot
<1>0. /\ c \in Slots /\ c \notin ToSet(free)
      /\ \A x \in Engines : eng[x].pc \in {"fill", "publish"} => eng[x].slot # c
      /\ \A x \in Readers \ {r} :
           rdr[x].pc \in {"copy", "claim", "free"} => rdr[x].slot # c
  BY DEF IInv, SlotsExclusive, EngHolds, RdrHolds, TypeOK, RecvClaim
<1>1. ~Stale(c)
  BY <1>0 DEF Stale
<1>2. item[c].data = rdr[r].s
  BY DEF RecvClaim, IInv, ReceivesOwn
<1>3. item[c].tracking = NoStream
  BY <1>0, <1>1, <1>2 DEF IInv, TrackingNames, TypeOK
<1>4. runs' = runs
  BY <1>3, StreamsAssumption DEF RecvClaim, IInv, TypeOK
<1>5. item' = item
  BY <1>0, <1>3 DEF RecvClaim, IInv, TypeOK, Item
<1>6. \E v \in {"won", "lost"} : rdr' = [rdr EXCEPT ![r] = Rdr("free", c, rdr[r].s, v, 0)]
  BY DEF RecvClaim
<1>7. UNCHANGED <<free, eng, req, cookie>>
  BY DEF RecvClaim, rings
<1>8. ReceivesOwn'
  <2>1. /\ rdr'[r].pc = "free" /\ rdr'[r].s = rdr[r].s /\ rdr'[r].slot = c
        /\ \A x \in Readers \ {r} : rdr'[x] = rdr[x]
    BY <1>6 DEF IInv, TypeOK, Rdr
  <2> QED BY <1>2, <1>3, <1>5, <2>1 DEF IInv, ReceivesOwn
<1>9. /\ \A i : Stale(i)' <=> Stale(i)
      /\ \A s : (Unfilled(s)' <=> Unfilled(s)) /\ (Filled(s)' <=> Filled(s))
  BY <1>7 DEF Stale, Unfilled, Filled
<1>10. SendsOwn'
  BY <1>5, <1>7 DEF IInv, SendsOwn
<1>11. TrackingNames'
  BY <1>4, <1>5, <1>7, <1>9 DEF IInv, TrackingNames
<1>12. RouterCanTell'
  BY <1>4, <1>5, <1>7, <1>9 DEF IInv, RouterCanTell
<1>13. RunsOnce' /\ ClaimXorRetract'
  BY <1>4, <1>7 DEF IInv, RunsOnce, ClaimXorRetract
<1> QED BY <1>8, <1>10, <1>11, <1>12, <1>13 DEF Claims

LEMMA ClaimsFree ==
  ASSUME IInv, NEW r \in Readers, RecvFree(r)
  PROVE  Claims'
<1> DEFINE c == rdr[r].slot
<1>0. /\ c \in Slots /\ c \notin ToSet(free)
      /\ \A x \in Engines : eng[x].pc \in {"fill", "publish"} => eng[x].slot # c
      /\ \A x \in Readers \ {r} :
           rdr[x].pc \in {"copy", "claim", "free"} => rdr[x].slot # c
  BY DEF IInv, SlotsExclusive, EngHolds, RdrHolds, TypeOK, RecvFree
<1>1. ~Stale(c)
  BY <1>0 DEF Stale
<1>2. /\ item[c].tracking = NoStream /\ free' = Append(free, c)
      /\ rdr' = [rdr EXCEPT ![r] = Rdr("depth", NoSlot, NoStream, rdr[r].claim, 0)]
      /\ UNCHANGED <<item, eng, req, cookie, runs>>
  BY DEF RecvFree, IInv, ReceivesOwn
<1> HIDE DEF c
<1>3. ToSet(free)' = ToSet(free) \cup {c}
  BY <1>0, <1>2, AppendFacts DEF IInv, TypeOK
<1>4. \A i : Stale(i)' <=> (Stale(i) \/ i = c)
  BY <1>2, <1>3 DEF Stale
<1>5. \A s : (Unfilled(s)' <=> Unfilled(s)) /\ (Filled(s)' <=> Filled(s))
  BY <1>2 DEF Unfilled, Filled
<1>6. SendsOwn'
  BY <1>2 DEF IInv, SendsOwn
<1>7. TrackingNames'
  BY <1>2, <1>4, <1>5 DEF IInv, TrackingNames
<1>8. ReceivesOwn'
  BY <1>2 DEF IInv, ReceivesOwn, TypeOK, Rdr
<1>9. RouterCanTell'
  BY <1>2, <1>4, <1>5, StreamsAssumption DEF IInv, RouterCanTell
<1>10. RunsOnce' /\ ClaimXorRetract'
  BY <1>2 DEF IInv, RunsOnce, ClaimXorRetract
<1> QED BY <1>6, <1>7, <1>8, <1>9, <1>10 DEF Claims

-----------------------------------------------------------------------------
(* What the router decides about a request.                                 *)

\* A word that names no request in the queue: the request was run.
LEMMA QueuedUntracked ==
  ASSUME IInv, NEW s \in Streams, req[s] = "queued", item[cookie[s]].tracking # s
  PROVE  runs[s] = 1 /\ \A i \in Slots : ~Stale(i) => item[i].tracking # s
BY StreamsAssumption DEF IInv, RouterCanTell, TrackingNames

LEMMA ClaimsRetract ==
  ASSUME IInv, NEW s \in Streams, Retract(s)
  PROVE  Claims'
<1>1. CASE item[cookie[s]].tracking = s
  <2>1. /\ req[s] = "queued" /\ req' = [req EXCEPT ![s] = "retracted"]
        /\ item' = [item EXCEPT ![cookie[s]] = Item(item[cookie[s]].data, NoStream)]
        /\ UNCHANGED <<free, eng, rdr, cookie, runs>>
    BY <1>1 DEF Retract, rings
  <2> QED BY <1>1, <2>1, RequestCancelled
<1>2. CASE item[cookie[s]].tracking # s
  <2>1. /\ req[s] = "queued" /\ req' = [req EXCEPT ![s] = "taken"]
        /\ UNCHANGED <<free, item, eng, rdr, cookie, runs>>
    BY <1>2 DEF Retract, rings
  <2> QED BY <1>2, <2>1, QueuedUntracked, RequestMoves
<1> QED BY <1>1, <1>2

LEMMA ClaimsGiveUp ==
  ASSUME IInv, NEW s \in Streams, GiveUpResend(s)
  PROVE  Claims'
<1>1. /\ req[s] \in {"parked", "resend"} /\ req' = [req EXCEPT ![s] = "retracted"]
      /\ UNCHANGED <<free, item, eng, rdr, cookie, runs>>
  BY DEF GiveUpResend, rings
<1>2. runs[s] = 0 /\ \A i \in Slots : ~Stale(i) => item[i].tracking # s
  BY <1>1, StreamsAssumption DEF IInv, RouterCanTell, TrackingNames
<1> QED BY <1>1, <1>2, RequestMoves

LEMMA ClaimsAcknowledge ==
  ASSUME IInv, NEW s \in Streams, Acknowledge(s)
  PROVE  Claims'
<1>1. /\ req[s] = "queued" /\ runs[s] > 0
      /\ req' = [req EXCEPT ![s] = "acked"] \/ req' = [req EXCEPT ![s] = "taken"]
      /\ UNCHANGED <<free, item, eng, rdr, cookie, runs>>
  BY DEF Acknowledge, rings
<1>2. item[cookie[s]].tracking # s
  BY <1>1 DEF IInv, RouterCanTell
<1> QED BY <1>1, <1>2, QueuedUntracked, RequestMoves

LEMMA ClaimsRequeue ==
  ASSUME IInv, NEW s \in Streams, Requeue(s)
  PROVE  Claims'
<1>1. UNCHANGED <<free, eng, rdr, cookie, runs>>
  BY DEF Requeue, rings
<1>2. CASE req[s] = "queued" /\ item[cookie[s]].tracking = s
  <2>1. /\ req' = [req EXCEPT ![s] = "parked"]
        /\ item' = [item EXCEPT ![cookie[s]] = Item(item[cookie[s]].data, NoStream)]
    BY <1>2 DEF Requeue
  <2> QED BY <1>1, <1>2, <2>1, RequestCancelled
<1>3. CASE req[s] = "queued" /\ item[cookie[s]].tracking # s
  <2>1. req' = [req EXCEPT ![s] = "taken"] /\ item' = item
    BY <1>3 DEF Requeue
  <2> QED BY <1>1, <1>3, <2>1, QueuedUntracked, RequestMoves
<1>4. CASE req[s] \in {"acked", "resend"}
  <2>1. \A i \in Slots : ~Stale(i) => item[i].tracking # s
    BY <1>4, StreamsAssumption DEF IInv, TrackingNames
  <2>2. CASE req[s] = "acked"
    <3>1. req' = [req EXCEPT ![s] = "taken"] /\ item' = item /\ runs[s] = 1
      BY <2>2 DEF Requeue, IInv, ClaimXorRetract
    <3> QED BY <1>1, <2>1, <2>2, <3>1, RequestMoves
  <2>3. CASE req[s] = "resend"
    <3>1. req' = [req EXCEPT ![s] = "parked"] /\ item' = item /\ runs[s] = 0
      BY <2>3 DEF Requeue, IInv, ClaimXorRetract
    <3> QED BY <1>1, <2>1, <2>3, <3>1, RequestMoves
  <2> QED BY <1>4, <2>2, <2>3
<1>5. CASE req[s] \notin {"queued", "acked", "resend"}
  <2>1. item' = item /\ req' = req
    BY <1>5 DEF Requeue
  <2> QED BY <1>1, <2>1, ReaderMoves
<1> QED BY <1>2, <1>3, <1>4, <1>5

LEMMA ClaimsRegister ==
  ASSUME IInv, NEW r \in Readers, Register(r)
  PROVE  Claims'
<1>1. /\ rdr' = [rdr EXCEPT ![r] = RdrAt("recv")]
      /\ req' = [s \in Streams |-> IF req[s] = "parked" THEN "resend" ELSE req[s]]
      /\ UNCHANGED <<free, item, eng, cookie, runs>>
  BY DEF Register, rings
<1>2. \A s \in Streams : \/ req'[s] = req[s]
                         \/ req[s] = "parked" /\ req'[s] = "resend"
  BY <1>1
<1>3. /\ \A i : Stale(i)' <=> Stale(i)
      /\ \A s : (Unfilled(s)' <=> Unfilled(s)) /\ (Filled(s)' <=> Filled(s))
  BY <1>1 DEF Stale, Unfilled, Filled
<1>4. SendsOwn'
  BY <1>1, <1>2 DEF IInv, SendsOwn
<1>5. TrackingNames'
  BY <1>1, <1>2, <1>3 DEF IInv, TrackingNames, TypeOK
<1>6. ReceivesOwn'
  BY <1>1 DEF IInv, ReceivesOwn, TypeOK, RdrAt, Rdr
<1>7. RouterCanTell'
  BY <1>1, <1>2, <1>3 DEF IInv, RouterCanTell
<1>8. RunsOnce' /\ ClaimXorRetract'
  BY <1>1, <1>2 DEF IInv, RunsOnce, ClaimXorRetract
<1> QED BY <1>4, <1>5, <1>6, <1>7, <1>8 DEF Claims

-----------------------------------------------------------------------------
(* The invariant.                                                           *)

LEMMA ClaimsStep == IInv /\ [Next]_vars => Claims'
<1> SUFFICES ASSUME IInv, [Next]_vars PROVE Claims'
  OBVIOUS
<1> USE DEF rings
<1>1. ASSUME NEW e \in Engines, NEW s \in Streams, Send(e, s) PROVE Claims'
  BY <1>1, ClaimsSend
<1>2. ASSUME NEW e \in Engines, SendGetSlot(e) PROVE Claims'
  BY <1>2, ClaimsGetSlot, ClaimsNoSlot
<1>3. ASSUME NEW e \in Engines, SendFill(e) PROVE Claims'
  BY <1>3, ClaimsFill
<1>4. ASSUME NEW e \in Engines, SendPublish(e) PROVE Claims'
  <2>1. eng[e].pc \in {"publish", "tail"}
    BY <1>4 DEF SendPublish
  <2>2. /\ eng'[e].s = eng[e].s /\ eng'[e].pc \in {"tail", "decide", "ring"}
        /\ \A x \in Engines \ {e} : eng'[x] = eng[x]
    BY <1>4 DEF SendPublish, IInv, TypeOK, Eng
  <2>3. UNCHANGED <<free, item, rdr, req, cookie, runs>>
    BY <1>4 DEF SendPublish
  <2> QED BY <2>1, <2>2, <2>3, SenderMoves
<1>5. ASSUME NEW e \in Engines, SendPublishFails(e) PROVE Claims'
  BY <1>5, ClaimsPublishFails
<1>6. ASSUME NEW e \in Engines, SendIncTail(e) PROVE Claims'
  <2>1. eng[e].pc \in {"publish", "tail"}
    BY <1>6 DEF SendIncTail
  <2>2. /\ eng'[e].s = eng[e].s /\ eng'[e].pc \in {"tail", "decide", "ring"}
        /\ \A x \in Engines \ {e} : eng'[x] = eng[x]
    BY <1>6 DEF SendIncTail, IInv, TypeOK, Eng
  <2>3. UNCHANGED <<free, item, rdr, req, cookie, runs>>
    BY <1>6 DEF SendIncTail
  <2> QED BY <2>1, <2>2, <2>3, SenderMoves
<1>7. ASSUME NEW e \in Engines, SendDecide(e) PROVE Claims'
  <2>1. \/ /\ eng' = [eng EXCEPT ![e] = Eng("ring", eng[e].s, NoSlot, 0, "first")]
           /\ req' = req
        \/ SendDone(e)
    BY <1>7 DEF SendDecide
  <2>2. eng[e].pc = "decide" /\ UNCHANGED <<free, item, rdr, cookie, runs>>
    BY <1>7 DEF SendDecide
  <2>3. CASE SendDone(e)
    BY <2>2, <2>3, SenderDone
  <2>4. CASE /\ eng' = [eng EXCEPT ![e] = Eng("ring", eng[e].s, NoSlot, 0, "first")]
             /\ req' = req
    <3>1. /\ eng'[e].s = eng[e].s /\ eng'[e].pc = "ring"
          /\ \A x \in Engines \ {e} : eng'[x] = eng[x]
      BY <2>4 DEF IInv, TypeOK, Eng
    <3> QED BY <2>2, <2>4, <3>1, SenderMoves
  <2> QED BY <2>1, <2>3, <2>4
<1>8. ASSUME NEW e \in Engines, SendRing(e) PROVE Claims'
  BY <1>8, SenderDone DEF SendRing
<1>9. ASSUME NEW r \in Readers, Recv(r) PROVE Claims'
  <2>1. UNCHANGED <<free, item, eng, req, cookie, runs>>
    BY <1>9 DEF Recv
  <2>2. \A x \in Readers : rdr'[x] = rdr[x] \/ rdr'[x].pc \notin {"claim", "free"}
    BY <1>9 DEF Recv, IInv, TypeOK, RdrAt, Rdr
  <2> QED BY <2>1, <2>2, ReaderMoves
<1>10. ASSUME NEW r \in Readers, RecvCopy(r) PROVE Claims'
  BY <1>10, ClaimsCopy
<1>11. ASSUME NEW r \in Readers, RecvClaim(r) PROVE Claims'
  BY <1>11, ClaimsWon, ClaimsLost
<1>12. ASSUME NEW r \in Readers, RecvFree(r) PROVE Claims'
  BY <1>12, ClaimsFree
<1>13. ASSUME NEW r \in Readers, RecvDepth(r) PROVE Claims'
  <2>1. UNCHANGED <<free, item, eng, req, cookie, runs>>
    BY <1>13 DEF RecvDepth
  <2>2. \A x \in Readers : rdr'[x] = rdr[x] \/ rdr'[x].pc \notin {"claim", "free"}
    BY <1>13 DEF RecvDepth, IInv, TypeOK, RdrAt, Rdr
  <2> QED BY <2>1, <2>2, ReaderMoves
<1>14. ASSUME NEW r \in Readers, RecvDepth2(r) PROVE Claims'
  <2>1. UNCHANGED <<free, item, eng, req, cookie, runs>>
    BY <1>14 DEF RecvDepth2
  <2>2. \A x \in Readers : rdr'[x] = rdr[x] \/ rdr'[x].pc \notin {"claim", "free"}
    BY <1>14 DEF RecvDepth2, AfterRecv, IInv, TypeOK, RdrAt, Rdr
  <2> QED BY <2>1, <2>2, ReaderMoves
<1>15. ASSUME NEW r \in Readers, RecvRearm(r) PROVE Claims'
  <2>1. UNCHANGED <<free, item, eng, req, cookie, runs>>
    BY <1>15 DEF RecvRearm
  <2>2. \A x \in Readers : rdr'[x] = rdr[x] \/ rdr'[x].pc \notin {"claim", "free"}
    BY <1>15 DEF RecvRearm, AfterRecv, IInv, TypeOK, RdrAt, Rdr
  <2> QED BY <2>1, <2>2, ReaderMoves
<1>16. ASSUME NEW r \in Readers, Finish(r) PROVE Claims'
  <2>1. UNCHANGED <<free, item, eng, req, cookie, runs>>
    BY <1>16 DEF Finish
  <2>2. \A x \in Readers : rdr'[x] = rdr[x] \/ rdr'[x].pc \notin {"claim", "free"}
    BY <1>16 DEF Finish, IInv, TypeOK, RdrAt, Rdr
  <2> QED BY <2>1, <2>2, ReaderMoves
<1>17. ASSUME NEW r \in Readers, TakeBell(r) PROVE Claims'
  <2>1. UNCHANGED <<free, item, eng, req, cookie, runs>>
    BY <1>17 DEF TakeBell
  <2>2. \A x \in Readers : rdr'[x] = rdr[x] \/ rdr'[x].pc \notin {"claim", "free"}
    BY <1>17 DEF TakeBell, IInv, TypeOK, RdrAt, Rdr
  <2> QED BY <2>1, <2>2, ReaderMoves
<1>18. ASSUME NEW r \in Readers, BellHeard(r) PROVE Claims'
  <2>1. UNCHANGED <<free, item, eng, req, cookie, runs>>
    BY <1>18 DEF BellHeard
  <2>2. \A x \in Readers : rdr'[x] = rdr[x] \/ rdr'[x].pc \notin {"claim", "free"}
    BY <1>18 DEF BellHeard, IInv, TypeOK, RdrAt, Rdr
  <2> QED BY <2>1, <2>2, ReaderMoves
<1>19. ASSUME NEW r \in Readers, PollTimeout(r) PROVE Claims'
  <2>1. UNCHANGED <<free, item, eng, req, cookie, runs>>
    BY <1>19 DEF PollTimeout
  <2>2. \A x \in Readers : rdr'[x] = rdr[x] \/ rdr'[x].pc \notin {"claim", "free"}
    BY <1>19 DEF PollTimeout, IInv, TypeOK, RdrAt, Rdr
  <2> QED BY <2>1, <2>2, ReaderMoves
<1>20. ASSUME NEW r \in Readers, Crash(r) PROVE Claims'
  <2>1. UNCHANGED <<free, item, eng, req, cookie, runs>>
    BY <1>20 DEF Crash
  <2>2. \A x \in Readers : rdr'[x] = rdr[x] \/ rdr'[x].pc \notin {"claim", "free"}
    BY <1>20 DEF Crash, IInv, TypeOK, RdrAt, Rdr
  <2> QED BY <2>1, <2>2, ReaderMoves
<1>21. ASSUME NEW r \in Readers, PortClose(r) PROVE Claims'
  <2>1. UNCHANGED <<free, item, eng, req, cookie, runs>>
    BY <1>21 DEF PortClose
  <2>2. \A x \in Readers : rdr'[x] = rdr[x] \/ rdr'[x].pc \notin {"claim", "free"}
    BY <1>21 DEF PortClose, IInv, TypeOK, RdrAt, Rdr
  <2> QED BY <2>1, <2>2, ReaderMoves
<1>29. ASSUME NEW r \in Readers, PortCloseRunning(r) PROVE Claims'
  BY <1>29, ReaderMoves DEF PortCloseRunning
<1>30. ASSUME NEW r \in Readers, OrphanQuits(r) PROVE Claims'
  <2>1. UNCHANGED <<free, item, eng, req, cookie, runs>>
    BY <1>30 DEF OrphanQuits
  <2>2. \A x \in Readers : rdr'[x] = rdr[x] \/ rdr'[x].pc \notin {"claim", "free"}
    BY <1>30 DEF OrphanQuits, IInv, TypeOK, RdrAt, Rdr
  <2> QED BY <2>1, <2>2, ReaderMoves
<1>22. ASSUME NEW r \in Readers, Start(r) PROVE Claims'
  <2>1. UNCHANGED <<free, item, eng, req, cookie, runs>>
    BY <1>22 DEF Start
  <2>2. \A x \in Readers : rdr'[x] = rdr[x] \/ rdr'[x].pc \notin {"claim", "free"}
    BY <1>22 DEF Start, IInv, TypeOK, RdrAt, Rdr
  <2> QED BY <2>1, <2>2, ReaderMoves
<1>23. ASSUME NEW r \in Readers, Register(r) PROVE Claims'
  BY <1>23, ClaimsRegister
<1>24. ASSUME NEW s \in Streams, Retract(s) PROVE Claims'
  BY <1>24, ClaimsRetract
<1>25. ASSUME NEW s \in Streams, GiveUpResend(s) PROVE Claims'
  BY <1>25, ClaimsGiveUp
<1>26. ASSUME NEW s \in Streams, Acknowledge(s) PROVE Claims'
  BY <1>26, ClaimsAcknowledge
<1>27. ASSUME NEW s \in Streams, Requeue(s) PROVE Claims'
  BY <1>27, ClaimsRequeue
<1>28. CASE UNCHANGED vars
  BY <1>28, ReaderMoves DEF vars
<1> QED BY <1>1, <1>2, <1>3, <1>4, <1>5, <1>6, <1>7, <1>8, <1>9, <1>10, <1>11,
    <1>12, <1>13, <1>14, <1>15, <1>16, <1>17, <1>18, <1>19, <1>20, <1>21,
    <1>22, <1>23, <1>24, <1>25, <1>26, <1>27, <1>28, <1>29, <1>30 DEF Next, EngineStep,
    ReaderStep

LEMMA Invariance == Spec => []IInv
<1>1. Init => IInv
  BY TypeInit, SlotsInit, ClaimsInit DEF IInv, Claims
<1>2. IInv /\ [Next]_vars => IInv'
  <2> SUFFICES ASSUME IInv, [Next]_vars PROVE IInv'
    OBVIOUS
  <2>1. TypeOK' /\ SlotsExclusive'
    BY TypeStep, SlotsStep DEF IInv
  <2>2. Claims'
    BY ClaimsStep
  <2> QED BY <2>1, <2>2 DEF IInv, Claims
<1> QED BY <1>1, <1>2, PTL DEF Spec

\* A request runs at most once, whatever the interleaving of sends, receives,
\* retractions, deaths and resends (nxt_router_app_requeue_handler,
\* nxt_app_queue_recv_claim).
THEOREM RunsAtMostOnce == Spec => []RunsOnce
<1>1. IInv => RunsOnce
  BY DEF IInv
<1> QED BY <1>1, Invariance, PTL

\* A request that nxt_router_msg_retract() took back was not and is not run;
\* one that it reports as taken was claimed (nxt_app_queue_cancel).
THEOREM RetractedNeverRuns == Spec => []ClaimXorRetract
<1>1. IInv => ClaimXorRetract
  BY DEF IInv
<1> QED BY <1>1, Invariance, PTL

\* The tracking word of a slot that is not stale names the request that waits
\* there; the router and the workers decide by it alone (nxt_app_queue_item_t).
THEOREM TrackingArbiter == Spec => []TrackingInv
<1>1. IInv => TrackingInv
  BY DEF IInv, TrackingInv
<1> QED BY <1>1, Invariance, PTL

-----------------------------------------------------------------------------
(* The doorbells, until a context dies.                                     *)

\* The socket of the shared port has room for a doorbell of each context.
Roomy == Cardinality(Readers) <= SockCap

\* The depth_bound of every send, while no context is gone.
Depth == IF Readers = {} THEN 1 ELSE Cardinality(Readers)

\* The contexts that may take an item before they run one, and those that
\* will look at the queue.
Open == {r \in Readers : rdr[r].pc \in {"wait", "bell", "recv"}}
Up == {r \in Readers : rdr[r].pc \in {"bell", "recv"}}

\* The sends that will ring, unless the flag is up.
Rings(e) == \/ eng[e].pc = "ring"
            \/ eng[e].pc \in {"tail", "decide"} /\ eng[e].pos - headc < Depth
Ringing == {e \in Engines : Rings(e)}
Coming == bells + Cardinality(Up) + Cardinality(Ringing)

\* A look at the queue is coming for each item, or for each context that is
\* not busy.
Enough == Len(queue) <= Coming \/ Cardinality(Open) <= Coming

\* The flag is up only while a doorbell is on its way to the one context.
Flagged == \/ bells > 0
           \/ \E r \in Readers : rdr[r].pc = "bell"
           \/ \E e \in Engines : eng[e].pc = "ring"
FlagUp == Depth = 1 /\ notified = 1 => Flagged

AllUp == \A r \in Readers : rdr[r].pc \notin {"dead", "closed", "starting"}
Bounds == \A e \in Engines : eng[e].pc # "idle" => bound[e] = Depth

BellInv == AllUp /\ Bounds /\ FlagUp /\ Enough

LEMMA DepthFacts ==
  /\ Depth \in Nat \ {0}
  /\ Cardinality(Readers) \in Nat
  /\ Cardinality(Readers) <= Depth
<1>1. Cardinality(Readers) \in Nat /\ (Cardinality(Readers) = 0 <=> Readers = {})
  BY ReadersAssumption, FS_CardinalityType, FS_EmptySet
<1> QED BY <1>1 DEF Depth

\* Two sets that differ in one element at most.
LEMMA OneMoves ==
  ASSUME NEW S, NEW T, NEW x, IsFiniteSet(S), S \ {x} = T \ {x}
  PROVE  /\ IsFiniteSet(T) /\ Cardinality(S) \in Nat /\ Cardinality(T) \in Nat
         /\ (x \in S <=> x \in T) => Cardinality(T) = Cardinality(S)
         /\ x \in S /\ x \notin T => Cardinality(T) = Cardinality(S) - 1
         /\ x \notin S /\ x \in T => Cardinality(T) = Cardinality(S) + 1
<1>1. CASE x \in S <=> x \in T
  <2>1. S = T
    BY <1>1
  <2> QED BY <2>1, <1>1, FS_CardinalityType
<1>2. CASE x \in S /\ x \notin T
  <2>1. T = S \ {x}
    BY <1>2
  <2>2. IsFiniteSet(T) /\ Cardinality(T) = Cardinality(S) - 1
    BY <2>1, <1>2, FS_RemoveElement
  <2> QED BY <2>2, <1>2, FS_CardinalityType
<1>3. CASE x \notin S /\ x \in T
  <2>1. T = S \cup {x}
    BY <1>3
  <2>2. IsFiniteSet(T) /\ Cardinality(T) = Cardinality(S) + 1
    BY <2>1, <1>3, FS_AddElement
  <2> QED BY <2>2, <1>3, FS_CardinalityType
<1> QED BY <1>1, <1>2, <1>3

LEMMA FiniteCounts ==
  /\ IsFiniteSet(Open) /\ Cardinality(Open) \in Nat
  /\ Cardinality(Open) <= Cardinality(Readers)
  /\ IsFiniteSet(Up) /\ Cardinality(Up) \in Nat
  /\ IsFiniteSet(Ringing) /\ Cardinality(Ringing) \in Nat
<1>1. Open \in SUBSET Readers /\ Up \in SUBSET Readers
  BY DEF Open, Up
<1>2. Ringing \in SUBSET Engines
  BY DEF Ringing
<1>3. IsFiniteSet(Open) /\ Cardinality(Open) <= Cardinality(Readers) /\ IsFiniteSet(Up)
  BY <1>1, ReadersAssumption, FS_Subset
<1>4. IsFiniteSet(Ringing)
  BY <1>2, EnginesAssumption, FS_Subset
<1> QED BY <1>3, <1>4, FS_CardinalityType

\* What a step of one context does to the counts.
LEMMA ReaderCounts ==
  ASSUME NEW r \in Readers, \A x \in Readers \ {r} : rdr'[x] = rdr[x]
  PROVE  /\ Cardinality(Open') \in Nat /\ Cardinality(Up') \in Nat
         /\ LET was == rdr[r].pc \in {"wait", "bell", "recv"}
                is == rdr'[r].pc \in {"wait", "bell", "recv"}
            IN /\ (was <=> is) => Cardinality(Open') = Cardinality(Open)
               /\ was /\ ~is => Cardinality(Open') = Cardinality(Open) - 1
               /\ ~was /\ is => Cardinality(Open') = Cardinality(Open) + 1
         /\ LET was == rdr[r].pc \in {"bell", "recv"}
                is == rdr'[r].pc \in {"bell", "recv"}
            IN /\ (was <=> is) => Cardinality(Up') = Cardinality(Up)
               /\ was /\ ~is => Cardinality(Up') = Cardinality(Up) - 1
               /\ ~was /\ is => Cardinality(Up') = Cardinality(Up) + 1
<1>2. Open \ {r} = Open' \ {r} /\ Up \ {r} = Up' \ {r}
  BY DEF Open, Up
<1>3. /\ r \in Open <=> rdr[r].pc \in {"wait", "bell", "recv"}
      /\ r \in Open' <=> rdr'[r].pc \in {"wait", "bell", "recv"}
      /\ r \in Up <=> rdr[r].pc \in {"bell", "recv"}
      /\ r \in Up' <=> rdr'[r].pc \in {"bell", "recv"}
  BY DEF Open, Up
<1>4. /\ IsFiniteSet(Open') /\ Cardinality(Open') \in Nat
      /\ (r \in Open <=> r \in Open') => Cardinality(Open') = Cardinality(Open)
      /\ r \in Open /\ r \notin Open' => Cardinality(Open') = Cardinality(Open) - 1
      /\ r \notin Open /\ r \in Open' => Cardinality(Open') = Cardinality(Open) + 1
  BY <1>2, FiniteCounts, OneMoves
<1>5. /\ IsFiniteSet(Up') /\ Cardinality(Up') \in Nat
      /\ (r \in Up <=> r \in Up') => Cardinality(Up') = Cardinality(Up)
      /\ r \in Up /\ r \notin Up' => Cardinality(Up') = Cardinality(Up) - 1
      /\ r \notin Up /\ r \in Up' => Cardinality(Up') = Cardinality(Up) + 1
  BY <1>2, FiniteCounts, OneMoves
<1> QED BY <1>3, <1>4, <1>5

\* What a step of one send does to the count of the sends that will ring.
LEMMA EngineCounts ==
  ASSUME NEW e \in Engines, \A x \in Engines \ {e} : eng'[x] = eng[x],
         headc' = headc
  PROVE  /\ Cardinality(Ringing') \in Nat
         /\ (Rings(e) <=> Rings(e)') => Cardinality(Ringing') = Cardinality(Ringing)
         /\ Rings(e) /\ ~Rings(e)' => Cardinality(Ringing') = Cardinality(Ringing) - 1
         /\ ~Rings(e) /\ Rings(e)' => Cardinality(Ringing') = Cardinality(Ringing) + 1
         /\ Rings(e)' <=> \/ eng'[e].pc = "ring"
                          \/ /\ eng'[e].pc \in {"tail", "decide"}
                             /\ eng'[e].pos - headc < Depth
<1>2. Depth' = Depth
  BY DEF Depth
<1>3. \A x \in Engines \ {e} : Rings(x)' <=> Rings(x)
  BY <1>2 DEF Rings
<1>4. Ringing \ {e} = Ringing' \ {e} /\ (e \in Ringing <=> Rings(e))
      /\ (e \in Ringing' <=> Rings(e)')
  BY <1>3 DEF Ringing
<1>5. /\ IsFiniteSet(Ringing') /\ Cardinality(Ringing') \in Nat
      /\ (e \in Ringing <=> e \in Ringing') => Cardinality(Ringing') = Cardinality(Ringing)
      /\ e \in Ringing /\ e \notin Ringing' => Cardinality(Ringing') = Cardinality(Ringing) - 1
      /\ e \notin Ringing /\ e \in Ringing' => Cardinality(Ringing') = Cardinality(Ringing) + 1
  BY <1>4, FiniteCounts, OneMoves
<1>6. Rings(e)' <=> \/ eng'[e].pc = "ring"
                    \/ /\ eng'[e].pc \in {"tail", "decide"}
                       /\ eng'[e].pos - headc < Depth
  BY <1>2 DEF Rings
<1> QED BY <1>4, <1>5, <1>6

\* A context that takes the oldest item brings the others forward.
LEMMA MoreRing ==
  ASSUME TypeOK, eng' = eng, headc' \in Nat, headc' >= headc
  PROVE  Cardinality(Ringing') \in Nat /\ Cardinality(Ringing') >= Cardinality(Ringing)
<1>1. Depth' = Depth
  BY DEF Depth
<1>2. ASSUME NEW e \in Engines, Rings(e) PROVE Rings(e)'
  <2>1. eng[e].pos \in Nat /\ headc \in Nat /\ Depth \in Nat
    BY DepthFacts DEF TypeOK
  <2> QED BY <1>1, <1>2, <2>1 DEF Rings
<1>3. Ringing \in SUBSET Ringing' /\ Ringing' \in SUBSET Engines
  BY <1>2 DEF Ringing
<1>4. IsFiniteSet(Ringing')
  BY <1>3, EnginesAssumption, FS_Subset
<1>5. Cardinality(Ringing) <= Cardinality(Ringing')
  BY <1>3, <1>4, FS_Subset
<1>6. Cardinality(Ringing') \in Nat /\ Cardinality(Ringing) \in Nat
  BY <1>4, FiniteCounts, FS_CardinalityType
<1> QED BY <1>5, <1>6

\* A doorbell on its way is a look that is coming.
LEMMA SomeComing ==
  ASSUME NEW b \in Nat, NEW S, NEW T, IsFiniteSet(S), IsFiniteSet(T),
         b > 0 \/ S # {} \/ T # {}
  PROVE  b + Cardinality(S) + Cardinality(T) >= 1
<1>1. /\ Cardinality(S) \in Nat /\ Cardinality(T) \in Nat
      /\ Cardinality(S) = 0 <=> S = {}
      /\ Cardinality(T) = 0 <=> T = {}
  BY FS_CardinalityType, FS_EmptySet
<1>2. b > 0 \/ Cardinality(S) # 0 \/ Cardinality(T) # 0
  BY <1>1
<1> QED BY <1>1, <1>2

\* A context that moves without taking an item: one that ends a request looks
\* at the queue again, and one that sleeps is woken by a doorbell, or by the
\* timeout of its poll.
LEMMA Looks ==
  ASSUME TypeOK, BellInv, NEW r \in Readers, NEW v, rdr' = [rdr EXCEPT ![r] = v],
         UNCHANGED <<queue, headc, eng, bound>>,
         \/ /\ rdr[r].pc \notin {"wait", "bell", "recv"} /\ bells' = bells
            /\ v.pc \notin {"wait", "bell", "dead", "closed", "starting"}
         \/ rdr[r].pc \in {"wait", "bell"} /\ v.pc = "recv" /\ bells' = bells
         \/ /\ rdr[r].pc = "wait" /\ v.pc = "bell"
            /\ bells > 0 /\ bells' = bells - 1
  PROVE  AllUp' /\ Bounds' /\ Enough'
<1>1. /\ \A x \in Readers \ {r} : rdr'[x] = rdr[x]
      /\ rdr'[r] = v
  BY DEF TypeOK
<1>2. AllUp'
  BY <1>1 DEF AllUp, BellInv
<1>3. Bounds'
  BY DEF Bounds, Depth, BellInv
<1>4. Ringing' = Ringing
  BY DEF Ringing, Rings, Depth
<1>5. /\ Cardinality(Open) \in Nat /\ Cardinality(Open') \in Nat
      /\ Cardinality(Up) \in Nat /\ Cardinality(Up') \in Nat
      /\ Cardinality(Ringing) \in Nat
      /\ bells \in Nat /\ bells' \in Nat /\ Len(queue) \in Nat
  BY <1>1, ReaderCounts, FiniteCounts DEF TypeOK
<1>6. \/ /\ Cardinality(Open') = Cardinality(Open) + 1
         /\ bells' + Cardinality(Up') >= bells + Cardinality(Up) + 1
      \/ /\ Cardinality(Open') = Cardinality(Open)
         /\ bells' + Cardinality(Up') >= bells + Cardinality(Up)
  <2>1. CASE rdr[r].pc \notin {"wait", "bell", "recv"}
    <3>1. bells' = bells
      BY <2>1
    <3>2. CASE v.pc = "recv"
      <4>1. /\ Cardinality(Open') = Cardinality(Open) + 1
            /\ Cardinality(Up') = Cardinality(Up) + 1
        BY <1>1, <2>1, <3>2, ReaderCounts
      <4> QED BY <4>1, <3>1, <1>5
    <3>3. CASE v.pc # "recv"
      <4>1. v.pc \notin {"wait", "bell", "recv"}
        BY <2>1, <3>3
      <4>2. Cardinality(Open') = Cardinality(Open) /\ Cardinality(Up') = Cardinality(Up)
        BY <1>1, <2>1, <4>1, ReaderCounts
      <4> QED BY <4>2, <3>1, <1>5
    <3> QED BY <3>2, <3>3
  <2>2. CASE rdr[r].pc \in {"wait", "bell"} /\ v.pc = "recv" /\ bells' = bells
    <3>1. Cardinality(Open') = Cardinality(Open)
      BY <1>1, <2>2, ReaderCounts
    <3>2. Cardinality(Up') = Cardinality(Up) \/ Cardinality(Up') = Cardinality(Up) + 1
      BY <1>1, <2>2, ReaderCounts
    <3> QED BY <2>2, <3>1, <3>2, <1>5
  <2>3. CASE rdr[r].pc = "wait" /\ v.pc = "bell" /\ bells > 0 /\ bells' = bells - 1
    <3>1. Cardinality(Open') = Cardinality(Open) /\ Cardinality(Up') = Cardinality(Up) + 1
      BY <1>1, <2>3, ReaderCounts
    <3> QED BY <2>3, <3>1, <1>5
  <2> QED BY <2>1, <2>2, <2>3
<1>7. Len(queue) <= bells + Cardinality(Up) + Cardinality(Ringing)
      \/ Cardinality(Open) <= bells + Cardinality(Up) + Cardinality(Ringing)
  BY DEF BellInv, Enough, Coming
<1>8. Len(queue) <= bells' + Cardinality(Up') + Cardinality(Ringing)
      \/ Cardinality(Open') <= bells' + Cardinality(Up') + Cardinality(Ringing)
  BY <1>5, <1>6, <1>7
<1> QED BY <1>2, <1>3, <1>4, <1>8 DEF Enough, Coming

\* The flag stays accounted for while nothing that answers for it moves.
LEMMA FlagKeptByReader ==
  ASSUME TypeOK, FlagUp, NEW r \in Readers, NEW v, rdr' = [rdr EXCEPT ![r] = v],
         UNCHANGED <<eng, bells>>, notified' = notified, rdr[r].pc # "bell"
  PROVE  FlagUp'
<1>1. \A x \in Readers \ {r} : rdr'[x] = rdr[x]
  BY DEF TypeOK
<1> QED BY <1>1 DEF FlagUp, Flagged, Depth

LEMMA FlagKeptByEngine ==
  ASSUME TypeOK, FlagUp, NEW e \in Engines, NEW v, eng' = [eng EXCEPT ![e] = v],
         UNCHANGED <<rdr, bells>>, notified' = notified, eng[e].pc # "ring"
  PROVE  FlagUp'
<1>1. \A x \in Engines \ {e} : eng'[x] = eng[x]
  BY DEF TypeOK
<1> QED BY <1>1 DEF FlagUp, Flagged, Depth

\* A send that is not about to ring moves.
LEMMA EngineMoves ==
  ASSUME TypeOK, BellInv, NEW e \in Engines, NEW v, eng' = [eng EXCEPT ![e] = v],
         UNCHANGED <<queue, headc, rdr, bells, notified>>,
         eng[e].pc # "ring", v.pc # "ring", ~Rings(e) \/ Rings(e)',
         \/ bound' = bound /\ eng[e].pc # "idle"
         \/ bound' = [bound EXCEPT ![e] = Depth]
  PROVE  BellInv'
<1>1. \A x \in Engines \ {e} : eng'[x] = eng[x]
  BY DEF TypeOK
<1>2. AllUp'
  BY DEF AllUp, BellInv
<1>3. Bounds'
  BY <1>1 DEF Bounds, Depth, BellInv, TypeOK
<1>4. FlagUp'
  BY FlagKeptByEngine DEF BellInv
<1>5. Open' = Open /\ Up' = Up
  BY DEF Open, Up
<1>6. /\ Cardinality(Open) \in Nat /\ Cardinality(Up) \in Nat
      /\ Cardinality(Ringing) \in Nat /\ Cardinality(Ringing') \in Nat
      /\ Cardinality(Ringing') >= Cardinality(Ringing)
  BY <1>1, EngineCounts, FiniteCounts
<1>7. bells \in Nat /\ Len(queue) \in Nat
  BY DEF TypeOK
<1>8. Len(queue) <= bells + Cardinality(Up) + Cardinality(Ringing)
      \/ Cardinality(Open) <= bells + Cardinality(Up) + Cardinality(Ringing)
  BY DEF BellInv, Enough, Coming
<1>9. Len(queue) <= bells + Cardinality(Up) + Cardinality(Ringing')
      \/ Cardinality(Open) <= bells + Cardinality(Up) + Cardinality(Ringing')
  BY <1>6, <1>7, <1>8
<1>10. Enough'
  BY <1>5, <1>9 DEF Enough, Coming
<1> QED BY <1>2, <1>3, <1>4, <1>10 DEF BellInv

\* A send publishes its item: it will ring unless there are as many items
\* before it as contexts.
LEMMA BellPublish ==
  ASSUME TypeOK, BellInv, NEW e \in Engines, SendPublish(e)
  PROVE  BellInv'
<1> DEFINE v == Eng("tail", eng[e].s, NoSlot, headc + Len(queue), "first")
<1>1. /\ eng' = [eng EXCEPT ![e] = v] /\ eng[e].pc = "publish"
      /\ UNCHANGED <<headc, rdr, bells, notified, bound>>
      /\ queue' = Append(queue, eng[e].slot)
  BY DEF SendPublish
<1>2. v.pc = "tail" /\ v.pos = headc + Len(queue)
  BY DEF Eng
<1> HIDE DEF v
<1>3. (\A x \in Engines \ {e} : eng'[x] = eng[x]) /\ eng'[e] = v
  BY <1>1 DEF TypeOK
<1>4. AllUp'
  BY <1>1 DEF AllUp, BellInv
<1>5. Bounds'
  BY <1>1, <1>3 DEF Bounds, Depth, BellInv
<1>6. FlagUp'
  BY <1>1, FlagKeptByEngine DEF BellInv
<1>7. Len(queue') = Len(queue) + 1 /\ Len(queue) \in Nat /\ headc \in Nat /\ bells \in Nat
  BY <1>1 DEF TypeOK
<1>8. Open' = Open /\ Up' = Up
  BY <1>1 DEF Open, Up
<1>9. Depth \in Nat /\ Cardinality(Readers) <= Depth /\ Cardinality(Readers) \in Nat
  BY DepthFacts
<1>10. /\ Cardinality(Open) \in Nat /\ Cardinality(Up) \in Nat
       /\ Cardinality(Open) <= Cardinality(Readers) /\ Cardinality(Ringing) \in Nat
  BY FiniteCounts
<1>11. ~Rings(e)
  BY <1>1 DEF Rings
<1>12. Rings(e)' <=> Len(queue) < Depth
  <2>1. Rings(e)' <=> v.pos - headc < Depth
    BY <1>1, <1>2, <1>3, EngineCounts
  <2> QED BY <2>1, <1>2, <1>7, <1>9
<1>13. /\ Len(queue) < Depth => Cardinality(Ringing') = Cardinality(Ringing) + 1
       /\ ~(Len(queue) < Depth) => Cardinality(Ringing') = Cardinality(Ringing)
  BY <1>1, <1>3, <1>11, <1>12, EngineCounts
<1>14. Len(queue) <= bells + Cardinality(Up) + Cardinality(Ringing)
       \/ Cardinality(Open) <= bells + Cardinality(Up) + Cardinality(Ringing)
  BY DEF BellInv, Enough, Coming
<1>15. Len(queue') <= bells + Cardinality(Up) + Cardinality(Ringing')
       \/ Cardinality(Open) <= bells + Cardinality(Up) + Cardinality(Ringing')
  BY <1>7, <1>9, <1>10, <1>13, <1>14
<1>16. Enough'
  BY <1>1, <1>8, <1>15 DEF Enough, Coming
<1> QED BY <1>4, <1>5, <1>6, <1>16 DEF BellInv

\* A send decides: with one context by the flag, with more by the position.
LEMMA BellDecide ==
  ASSUME TypeOK, BellInv, NEW e \in Engines, SendDecide(e)
  PROVE  BellInv'
<1>1. /\ eng[e].pc = "decide" /\ UNCHANGED <<queue, headc, rdr, bells, bound>>
      /\ notified' = IF bound[e] = 1 THEN 1 ELSE notified
  BY DEF SendDecide, rings
<1>2. bound[e] = Depth
  BY <1>1 DEF BellInv, Bounds
<1> DEFINE ring == IF Depth = 1 THEN notified = 0
                   ELSE NotifyDecision(eng[e].pos - headc, Depth)
<1>3. PICK v : /\ eng' = [eng EXCEPT ![e] = v]
               /\ v.pc \in {"ring", "idle"} /\ (v.pc = "ring" <=> ring)
  <2>1. \/ ring /\ eng' = [eng EXCEPT ![e] = Eng("ring", eng[e].s, NoSlot, 0, "first")]
        \/ ~ring /\ eng' = [eng EXCEPT ![e] = IdleEng]
    BY <1>2 DEF SendDecide, SendDone
  <2> HIDE DEF ring
  <2>2. Eng("ring", eng[e].s, NoSlot, 0, "first").pc = "ring" /\ IdleEng.pc = "idle"
    BY DEF Eng, IdleEng
  <2> QED BY <2>1, <2>2
<1>4. (\A x \in Engines \ {e} : eng'[x] = eng[x]) /\ eng'[e] = v
  BY <1>3 DEF TypeOK
<1>5. AllUp'
  BY <1>1 DEF AllUp, BellInv
<1>6. Bounds'
  <2>1. \A x \in Engines : eng'[x].pc # "idle" => eng[x].pc # "idle"
    BY <1>1, <1>4
  <2> QED BY <1>1, <2>1 DEF Bounds, Depth, BellInv
<1>7. Depth \in Nat /\ Cardinality(Readers) <= Depth /\ Cardinality(Readers) \in Nat
      /\ Depth' = Depth
  BY DepthFacts DEF Depth
<1>8. Open' = Open /\ Up' = Up
  BY <1>1 DEF Open, Up
<1>9. /\ Cardinality(Open) \in Nat /\ Cardinality(Up) \in Nat
      /\ Cardinality(Open) <= Cardinality(Readers) /\ Cardinality(Ringing) \in Nat
  BY FiniteCounts
<1>10. Rings(e)' <=> v.pc = "ring"
  BY <1>1, <1>3, <1>4, EngineCounts
<1>11. bells \in Nat /\ Len(queue) \in Nat /\ headc \in Nat /\ eng[e].pos \in Nat
  BY DEF TypeOK
<1>12. Len(queue) <= bells + Cardinality(Up) + Cardinality(Ringing)
       \/ Cardinality(Open) <= bells + Cardinality(Up) + Cardinality(Ringing)
  BY DEF BellInv, Enough, Coming
<1>13. CASE Depth # 1
  <2>1. Rings(e) <=> ring
    BY <1>1, <1>7, <1>11, <1>13 DEF Rings, NotifyDecision
  <2> HIDE DEF ring
  <2>2. Cardinality(Ringing') = Cardinality(Ringing)
    BY <2>1, <1>1, <1>3, <1>4, <1>10, EngineCounts
  <2>3. Enough'
    BY <2>2, <1>1, <1>8, <1>12 DEF Enough, Coming
  <2>4. FlagUp'
    BY <1>7, <1>13 DEF FlagUp
  <2> QED BY <1>5, <1>6, <2>3, <2>4 DEF BellInv
<1>14. CASE Depth = 1
  <2>1. Flagged'
    <3>1. CASE v.pc = "ring"
      BY <3>1, <1>4 DEF Flagged
    <3>2. CASE v.pc # "ring"
      <4>1. notified = 1
        BY <3>2, <1>3, <1>14 DEF TypeOK
      <4>2. Flagged
        BY <4>1, <1>14 DEF BellInv, FlagUp
      <4> QED BY <4>2, <1>1, <1>4 DEF Flagged
    <3> QED BY <3>1, <3>2
  <2>2. bells > 0 \/ Up' # {} \/ Ringing' # {}
    BY <2>1, <1>1 DEF Flagged, Up, Ringing, Rings
  <2>3. IsFiniteSet(Up') /\ IsFiniteSet(Ringing')
    <3>1. Ringing' \in SUBSET Engines
      BY DEF Ringing
    <3> QED BY <1>8, <3>1, FiniteCounts, EnginesAssumption, FS_Subset
  <2>4. bells + Cardinality(Up') + Cardinality(Ringing') >= 1
    BY <2>2, <2>3, <1>11, SomeComing
  <2>5. Cardinality(Open) <= 1
    BY <1>7, <1>9, <1>14
  <2>6. Cardinality(Ringing') \in Nat /\ Cardinality(Up') \in Nat
    BY <2>3, FS_CardinalityType
  <2>7. Cardinality(Open) <= bells + Cardinality(Up') + Cardinality(Ringing')
    BY <2>4, <2>5, <2>6, <1>9, <1>11
  <2>8. Enough'
    BY <2>7, <1>1, <1>8 DEF Enough, Coming
  <2>9. FlagUp'
    BY <2>1 DEF FlagUp
  <2> QED BY <1>5, <1>6, <2>8, <2>9 DEF BellInv
<1> QED BY <1>13, <1>14

\* A doorbell rings, or the socket already holds one for every context.
LEMMA BellRing ==
  ASSUME Roomy, TypeOK, BellInv, NEW e \in Engines, SendRing(e)
  PROVE  BellInv'
<1>1. /\ eng[e].pc = "ring" /\ UNCHANGED <<queue, headc, rdr, notified, bound>>
      /\ bells' = IF bells < SockCap THEN bells + 1 ELSE bells
      /\ eng' = [eng EXCEPT ![e] = IdleEng]
  BY DEF SendRing, SendDone, rings
<1>2. IdleEng.pc = "idle"
  BY DEF IdleEng, Eng
<1>3. (\A x \in Engines \ {e} : eng'[x] = eng[x]) /\ eng'[e].pc = "idle"
  BY <1>1, <1>2 DEF TypeOK
<1>4. AllUp'
  BY <1>1 DEF AllUp, BellInv
<1>5. Bounds'
  BY <1>1, <1>3 DEF Bounds, Depth, BellInv
<1>6. bells \in Nat /\ bells' \in Nat /\ SockCap \in Nat \ {0} /\ Len(queue) \in Nat
  BY <1>1, BoundsAssumption DEF TypeOK
<1>7. FlagUp'
  BY <1>1, <1>6 DEF FlagUp, Flagged
<1>8. Open' = Open /\ Up' = Up
  BY <1>1 DEF Open, Up
<1>9. Rings(e) /\ ~Rings(e)'
  BY <1>1, <1>3 DEF Rings
<1>10. Cardinality(Ringing') = Cardinality(Ringing) - 1 /\ Cardinality(Ringing') \in Nat
  BY <1>1, <1>3, <1>9, EngineCounts
<1>11. /\ Cardinality(Open) \in Nat /\ Cardinality(Up) \in Nat
       /\ Cardinality(Open) <= Cardinality(Readers) /\ Cardinality(Ringing) \in Nat
       /\ Cardinality(Readers) \in Nat
  BY FiniteCounts, DepthFacts
<1>12. Len(queue) <= bells + Cardinality(Up) + Cardinality(Ringing)
       \/ Cardinality(Open) <= bells + Cardinality(Up) + Cardinality(Ringing)
  BY DEF BellInv, Enough, Coming
<1>13. Len(queue) <= bells' + Cardinality(Up) + Cardinality(Ringing')
       \/ Cardinality(Open) <= bells' + Cardinality(Up) + Cardinality(Ringing')
  <2>1. CASE bells < SockCap
    BY <2>1, <1>1, <1>6, <1>10, <1>11, <1>12
  <2>2. CASE ~(bells < SockCap)
    BY <2>2, <1>1, <1>6, <1>10, <1>11 DEF Roomy
  <2> QED BY <2>1, <2>2
<1>14. Enough'
  BY <1>1, <1>8, <1>13 DEF Enough, Coming
<1> QED BY <1>4, <1>5, <1>7, <1>14 DEF BellInv

\* A context takes an item, or finds none and goes to sleep.
LEMMA BellRecv ==
  ASSUME TypeOK, BellInv, NEW r \in Readers, Recv(r)
  PROVE  BellInv'
<1>1. PICK v : /\ rdr' = [rdr EXCEPT ![r] = v] /\ UNCHANGED <<bells, notified, eng, bound>>
               /\ rdr[r].pc = "recv"
               /\ \/ /\ v.pc = "copy" /\ queue # <<>>
                     /\ queue' = Tail(queue) /\ headc' = headc + 1
                  \/ v.pc = "wait" /\ queue = <<>> /\ queue' = queue /\ headc' = headc
  <2>1. /\ Rdr("copy", Head(queue), NoStream, "lost", 0).pc = "copy"
        /\ RdrAt("wait").pc = "wait"
    BY DEF Rdr, RdrAt
  <2> QED BY <2>1 DEF Recv
<1>2. (\A x \in Readers \ {r} : rdr'[x] = rdr[x]) /\ rdr'[r] = v
  BY <1>1 DEF TypeOK
<1>3. AllUp'
  BY <1>1, <1>2 DEF AllUp, BellInv
<1>4. Bounds'
  BY <1>1 DEF Bounds, Depth, BellInv
<1>5. FlagUp'
  BY <1>1, FlagKeptByReader DEF BellInv
<1>6. bells \in Nat /\ headc \in Nat /\ Len(queue) \in Nat
  BY DEF TypeOK
<1>7. Cardinality(Ringing') \in Nat /\ Cardinality(Ringing') >= Cardinality(Ringing)
  BY <1>1, <1>6, MoreRing
<1>8. /\ Cardinality(Open) \in Nat /\ Cardinality(Up) \in Nat
      /\ Cardinality(Ringing) \in Nat
  BY FiniteCounts
<1>9. Cardinality(Open') \in Nat /\ Cardinality(Up') \in Nat
  BY <1>2, ReaderCounts
<1>10. Len(queue) <= bells + Cardinality(Up) + Cardinality(Ringing)
       \/ Cardinality(Open) <= bells + Cardinality(Up) + Cardinality(Ringing)
  BY DEF BellInv, Enough, Coming
<1>11. Len(queue') <= bells + Cardinality(Up') + Cardinality(Ringing')
       \/ Cardinality(Open') <= bells + Cardinality(Up') + Cardinality(Ringing')
  <2>1. CASE v.pc = "copy"
    <3>1. Cardinality(Open') = Cardinality(Open) - 1 /\ Cardinality(Up') = Cardinality(Up) - 1
      BY <2>1, <1>1, <1>2, ReaderCounts
    <3>2. Len(queue') = Len(queue) - 1
      BY <2>1, <1>1 DEF TypeOK
    <3> QED BY <3>1, <3>2, <1>6, <1>7, <1>8, <1>9, <1>10
  <2>2. CASE v.pc = "wait"
    <3>1. Len(queue') = 0
      BY <2>2, <1>1
    <3> QED BY <3>1, <1>6, <1>7, <1>9
  <2> QED BY <2>1, <2>2, <1>1
<1>12. Enough'
  BY <1>1, <1>11 DEF Enough, Coming
<1> QED BY <1>3, <1>4, <1>5, <1>12 DEF BellInv

\* While no context has died or was reported gone, every step keeps the
\* doorbells enough.
LEMMA BellStep ==
  ASSUME Roomy, TypeOK, BellInv, [Next]_vars, crashes' = 0, orphans = {}, orphans' = {}
  PROVE  BellInv'
<1> USE DEF rings
<1>0. /\ \A pc, s, i, p, t : /\ Eng(pc, s, i, p, t).pc = pc
                             /\ Eng(pc, s, i, p, t).pos = p
      /\ \A pc, i, s, c, n : Rdr(pc, i, s, c, n).pc = pc
      /\ \A pc : RdrAt(pc).pc = pc
      /\ IdleEng.pc = "idle"
  BY DEF Eng, Rdr, RdrAt, IdleEng
<1>a. AllUp /\ FlagUp
  BY DEF BellInv
<1>b. crashes \in Nat
  BY DEF TypeOK
<1>1. ASSUME NEW e \in Engines, NEW s \in Streams, Send(e, s) PROVE BellInv'
  <2> DEFINE v == Eng("get", s, NoSlot, 0, IF req[s] = "new" THEN "first" ELSE "again")
  <2>1. DepthBound = Depth
    <3>1. Registered = Readers
      BY <1>a DEF Registered, Counted, AllUp
    <3> QED BY <3>1 DEF DepthBound, Depth
  <2>2. /\ eng' = [eng EXCEPT ![e] = v] /\ bound' = [bound EXCEPT ![e] = Depth]
        /\ eng[e].pc = "idle" /\ UNCHANGED <<queue, headc, rdr, bells, notified>>
    BY <1>1, <1>0, <2>1 DEF Send
  <2>3. v.pc = "get" /\ ~Rings(e)
    BY <2>2, <1>0 DEF Rings
  <2> HIDE DEF v
  <2> QED BY <2>2, <2>3, EngineMoves
<1>2. ASSUME NEW e \in Engines, SendGetSlot(e) PROVE BellInv'
  <2>1. PICK v : eng' = [eng EXCEPT ![e] = v] /\ v.pc \in {"fill", "idle"}
    BY <1>2, <1>0 DEF SendGetSlot
  <2>2. eng[e].pc = "get" /\ UNCHANGED <<queue, headc, rdr, bells, notified, bound>>
    BY <1>2 DEF SendGetSlot
  <2>3. ~Rings(e)
    BY <2>2 DEF Rings
  <2> QED BY <2>1, <2>2, <2>3, EngineMoves
<1>3. ASSUME NEW e \in Engines, SendFill(e) PROVE BellInv'
  <2>1. PICK v : /\ eng' = [eng EXCEPT ![e] = v]
                 /\ v = Eng("publish", eng[e].s, eng[e].slot, 0, eng[e].turn)
    BY <1>3 DEF SendFill
  <2>4. v.pc = "publish"
    BY <2>1, <1>0
  <2>2. eng[e].pc = "fill" /\ UNCHANGED <<queue, headc, rdr, bells, notified, bound>>
    BY <1>3 DEF SendFill
  <2>3. ~Rings(e)
    BY <2>2 DEF Rings
  <2> QED BY <2>1, <2>2, <2>3, <2>4, EngineMoves
<1>4. ASSUME NEW e \in Engines, SendPublish(e) PROVE BellInv'
  BY <1>4, BellPublish
<1>5. ASSUME NEW e \in Engines, SendPublishFails(e) PROVE BellInv'
  <2>1. PICK v : eng' = [eng EXCEPT ![e] = v] /\ v.pc = "idle"
    BY <1>5, <1>0 DEF SendPublishFails
  <2>2. eng[e].pc = "publish" /\ UNCHANGED <<queue, headc, rdr, bells, notified, bound>>
    BY <1>5 DEF SendPublishFails
  <2>3. ~Rings(e)
    BY <2>2 DEF Rings
  <2> QED BY <2>1, <2>2, <2>3, EngineMoves
<1>6. ASSUME NEW e \in Engines, SendIncTail(e) PROVE BellInv'
  <2>0. PICK v : /\ eng' = [eng EXCEPT ![e] = v]
                 /\ v = Eng("decide", eng[e].s, NoSlot, eng[e].pos, "first")
    BY <1>6 DEF SendIncTail
  <2>1. eng' = [eng EXCEPT ![e] = v] /\ v.pc = "decide" /\ v.pos = eng[e].pos
    BY <2>0, <1>0
  <2>2. eng[e].pc = "tail" /\ UNCHANGED <<queue, headc, rdr, bells, notified, bound>>
    BY <1>6 DEF SendIncTail
  <2>3. (\A x \in Engines \ {e} : eng'[x] = eng[x]) /\ eng'[e] = v
    BY <2>1 DEF TypeOK
  <2>4. ~Rings(e) \/ Rings(e)'
    BY <2>1, <2>2, <2>3 DEF Rings, Depth
  <2> QED BY <2>1, <2>2, <2>4, EngineMoves
<1>7. ASSUME NEW e \in Engines, SendDecide(e) PROVE BellInv'
  BY <1>7, BellDecide
<1>8. ASSUME NEW e \in Engines, SendRing(e) PROVE BellInv'
  BY <1>8, BellRing
<1>9. ASSUME NEW r \in Readers, Recv(r) PROVE BellInv'
  BY <1>9, BellRecv
<1>10. ASSUME NEW r \in Readers, RecvCopy(r) \/ RecvClaim(r) \/ RecvFree(r)
       PROVE  BellInv'
  <2>1. PICK v : rdr' = [rdr EXCEPT ![r] = v] /\ v.pc \in {"claim", "free", "depth"}
    <3>1. CASE RecvCopy(r)
      <4>1. PICK v : /\ rdr' = [rdr EXCEPT ![r] = v]
                     /\ v = Rdr("claim", rdr[r].slot, item[rdr[r].slot].data, "lost", 0)
        BY <3>1 DEF RecvCopy
      <4>2. v.pc = "claim"
        BY <4>1, <1>0
      <4> QED BY <4>1, <4>2
    <3>2. CASE RecvClaim(r)
      <4>1. PICK v, c : /\ rdr' = [rdr EXCEPT ![r] = v]
                        /\ v = Rdr("free", rdr[r].slot, rdr[r].s, c, 0)
        BY <3>2 DEF RecvClaim
      <4>2. v.pc = "free"
        BY <4>1, <1>0
      <4> QED BY <4>1, <4>2
    <3>3. CASE RecvFree(r)
      <4>1. PICK v : /\ rdr' = [rdr EXCEPT ![r] = v]
                     /\ v = Rdr("depth", NoSlot, NoStream, rdr[r].claim, 0)
        BY <3>3 DEF RecvFree
      <4>2. v.pc = "depth"
        BY <4>1, <1>0
      <4> QED BY <4>1, <4>2
    <3> QED BY <1>10, <3>1, <3>2, <3>3
  <2>2. /\ rdr[r].pc \in {"copy", "claim", "free"}
        /\ UNCHANGED <<queue, headc, eng, bound, bells, notified>>
    BY <1>10 DEF RecvCopy, RecvClaim, RecvFree
  <2>3. AllUp' /\ Bounds' /\ Enough'
    BY <2>1, <2>2, Looks
  <2>4. FlagUp'
    BY <2>1, <2>2, <1>a, FlagKeptByReader
  <2> QED BY <2>3, <2>4 DEF BellInv
<1>11. ASSUME NEW r \in Readers, RecvDepth(r) \/ RecvDepth2(r) \/ Finish(r)
       PROVE  BellInv'
  <2>1. PICK v : /\ rdr' = [rdr EXCEPT ![r] = v]
                 /\ v.pc \in {"depthTail", "depthHead", "rearm", "run", "recv"}
    BY <1>11, <1>0 DEF RecvDepth, RecvDepth2, Finish, AfterRecv
  <2>2. /\ rdr[r].pc \in {"depth", "depthTail", "depthHead", "run"}
        /\ UNCHANGED <<queue, headc, eng, bound, bells, notified>>
    BY <1>11 DEF RecvDepth, RecvDepth2, Finish
  <2>3. AllUp' /\ Bounds' /\ Enough'
    BY <2>1, <2>2, Looks
  <2>4. FlagUp'
    BY <2>1, <2>2, <1>a, FlagKeptByReader
  <2> QED BY <2>3, <2>4 DEF BellInv
<1>12. ASSUME NEW r \in Readers, RecvRearm(r) \/ BellHeard(r) PROVE BellInv'
  <2>1. PICK v : rdr' = [rdr EXCEPT ![r] = v] /\ v.pc \in {"run", "recv"}
                 /\ (rdr[r].pc = "bell" => v.pc = "recv")
    BY <1>12, <1>0 DEF RecvRearm, BellHeard, AfterRecv
  <2>2. /\ rdr[r].pc \in {"rearm", "bell"} /\ notified' = 0
        /\ UNCHANGED <<queue, headc, eng, bound, bells>>
    BY <1>12 DEF RecvRearm, BellHeard
  <2>3. AllUp' /\ Bounds' /\ Enough'
    BY <2>1, <2>2, Looks
  <2>4. FlagUp'
    BY <2>2 DEF FlagUp
  <2> QED BY <2>3, <2>4 DEF BellInv
<1>13. ASSUME NEW r \in Readers, TakeBell(r) PROVE BellInv'
  <2>1. PICK v : rdr' = [rdr EXCEPT ![r] = v] /\ v.pc = "bell"
    BY <1>13, <1>0 DEF TakeBell
  <2>2. /\ rdr[r].pc = "wait" /\ bells > 0 /\ bells' = bells - 1
        /\ UNCHANGED <<queue, headc, eng, bound>>
    BY <1>13 DEF TakeBell
  <2>3. AllUp' /\ Bounds' /\ Enough'
    BY <2>1, <2>2, Looks
  <2>4. rdr'[r].pc = "bell"
    BY <2>1 DEF TypeOK
  <2> QED BY <2>3, <2>4 DEF BellInv, FlagUp, Flagged
<1>14. ASSUME NEW r \in Readers, PollTimeout(r) PROVE BellInv'
  <2>1. PICK v : rdr' = [rdr EXCEPT ![r] = v] /\ v.pc = "recv"
    BY <1>14, <1>0 DEF PollTimeout
  <2>2. rdr[r].pc = "wait" /\ UNCHANGED <<queue, headc, eng, bound, bells, notified>>
    BY <1>14 DEF PollTimeout
  <2>3. AllUp' /\ Bounds' /\ Enough'
    BY <2>1, <2>2, Looks
  <2>4. FlagUp'
    BY <2>1, <2>2, <1>a, FlagKeptByReader
  <2> QED BY <2>3, <2>4 DEF BellInv
<1>15. ASSUME NEW r \in Readers, Crash(r) PROVE FALSE
  BY <1>15, <1>b DEF Crash
<1>16. ASSUME NEW r \in Readers, PortClose(r) \/ Start(r) \/ Register(r) PROVE FALSE
  BY <1>16, <1>a DEF PortClose, Start, Register, AllUp
<1>20. ASSUME NEW r \in Readers, PortCloseRunning(r) \/ OrphanQuits(r) PROVE FALSE
  BY <1>20 DEF PortCloseRunning, OrphanQuits
<1>17. ASSUME UNCHANGED <<queue, headc, eng, rdr, bound, bells, notified>>
       PROVE  BellInv'
  <2>1. Open' = Open /\ Up' = Up /\ Ringing' = Ringing /\ Depth' = Depth
    BY <1>17 DEF Open, Up, Ringing, Rings, Depth
  <2> QED BY <1>17, <2>1 DEF BellInv, AllUp, Bounds, FlagUp, Flagged, Enough, Coming
<1>18. ASSUME NEW s \in Streams,
              Retract(s) \/ GiveUpResend(s) \/ Acknowledge(s) \/ Requeue(s)
       PROVE  BellInv'
  BY <1>18, <1>17 DEF Retract, GiveUpResend, Acknowledge, Requeue
<1>19. CASE UNCHANGED vars
  BY <1>19, <1>17 DEF vars
<1> QED BY <1>1, <1>2, <1>3, <1>4, <1>5, <1>6, <1>7, <1>8, <1>9, <1>10, <1>11,
    <1>12, <1>13, <1>14, <1>15, <1>16, <1>18, <1>19, <1>20 DEF Next, EngineStep, ReaderStep

LEMMA BellInit == Init => BellInv
<1> SUFFICES ASSUME Init PROVE BellInv
  OBVIOUS
<1>1. /\ \A r \in Readers : rdr[r].pc = "recv"
      /\ \A e \in Engines : eng[e].pc = "idle"
      /\ notified = 0 /\ bells = 0 /\ Len(queue) = 0
  BY DEF Init, RdrAt, Rdr, IdleEng, Eng
<1>2. 0 <= bells + Cardinality(Up) + Cardinality(Ringing)
  BY <1>1, FiniteCounts
<1> QED BY <1>1, <1>2 DEF BellInv, AllUp, Bounds, FlagUp, Enough, Coming

\* An item over which every context sleeps or runs a request has a doorbell.
LEMMA BellHears == TypeOK /\ BellInv => DoorbellHeard
<1> SUFFICES ASSUME TypeOK, BellInv,
                    \A e \in Engines : eng[e].pc \in {"idle", "get", "fill", "publish"},
                    \A r \in Readers : rdr[r].pc \in {"wait", "run", "closed", "starting"},
                    NEW r \in Readers, rdr[r].pc = "wait", bells = 0
             PROVE  queue = <<>>
  BY DEF DoorbellHeard
<1>1. Up = {} /\ Ringing = {} /\ Open # {}
  BY DEF Up, Ringing, Rings, Open
<1>2. Cardinality(Up) = 0 /\ Cardinality(Ringing) = 0
  BY <1>1, FS_EmptySet
<1>3. Cardinality(Open) \in Nat /\ Cardinality(Open) # 0
  BY <1>1, FiniteCounts, FS_EmptySet
<1>4. Len(queue) <= 0 \/ Cardinality(Open) <= 0
  BY <1>2 DEF BellInv, Enough, Coming
<1>5. Len(queue) = 0
  BY <1>3, <1>4 DEF TypeOK
<1> QED BY <1>5 DEF TypeOK

\* No wake-up is lost until a context dies or is reported gone: when every
\* send has rung or decided not to, a context does not sleep over an item
\* without a doorbell, if the socket has room for a doorbell of each context
\* (nxt_app_queue_notify_decision, nxt_port_socket_doorbell).
THEOREM SleepersHear ==
  Roomy /\ Spec => []HeardUnhurt
<1> DEFINE Unhurt == crashes = 0 /\ orphans = {}
           Inv == Roomy /\ TypeOK /\ (Unhurt => BellInv)
<1>1. Roomy /\ Init => Inv
  BY TypeInit, BellInit
<1>2. Inv /\ [Next]_vars => Inv'
  <2> SUFFICES ASSUME Inv, [Next]_vars PROVE Inv'
    OBVIOUS
  <2>1. TypeOK' /\ Roomy'
    BY TypeStep DEF Roomy
  <2>2. ASSUME Unhurt' PROVE Unhurt
    <3>1. /\ crashes \in Nat /\ (crashes' = crashes \/ crashes' = crashes + 1)
          /\ orphans \subseteq orphans'
      BY DEF TypeOK, vars, Next, EngineStep, ReaderStep, Send, SendGetSlot,
             SendFill, SendPublish, SendPublishFails, SendIncTail, SendDecide,
             SendRing, Recv, RecvCopy, RecvClaim, RecvFree, RecvDepth, RecvDepth2,
             RecvRearm, Finish, TakeBell, BellHeard, PollTimeout, Crash, PortClose,
             PortCloseRunning, OrphanQuits, Start, Register, Retract, GiveUpResend,
             Acknowledge, Requeue
    <3> QED BY <2>2, <3>1
  <2>3. Unhurt' => BellInv'
    BY <2>2, BellStep
  <2> QED BY <2>1, <2>3
<1>3. Inv => HeardUnhurt
  BY BellHears DEF HeardUnhurt
<1> QED BY <1>1, <1>2, <1>3, PTL DEF Spec

=============================================================================
