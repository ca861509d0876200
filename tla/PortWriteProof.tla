--------------------------- MODULE PortWriteProof ---------------------------
(***************************************************************************)
(* No message of a port is lost, ended twice or counted twice, for any     *)
(* number of engines, messages, fragments in the socket and failures.      *)
(*                                                                         *)
(* A message that was begun is with the thread that sends it inline, in    *)
(* port->messages, or ended.  The write handler leaves the message it      *)
(* sends in the list; only its own engine takes it out.  An error handler  *)
(* of another engine breaks this (foreign), and the invariant ends there.  *)
(***************************************************************************)
EXTENDS PortWrite, FiniteSetTheorems, TLAPS

Pcs == {"idle", "send", "sent", "again", "insert", "clean", "rearm", "answer",
        "first", "block"}
Holding == {"send", "sent", "again", "insert"}
Hows == {"sent", "back", "skipped", "dropped", "cut", "cancelled"}

LocSet == [pc : Pcs, m : Threads \X Nat, handler : BOOLEAN, enable : BOOLEAN,
           retry : BOOLEAN, ret : {"ok", "owed"}, failed : BOOLEAN]

Types ==
  /\ script \in Scripts
  /\ messages \in Seq(Msgs)
  /\ th \in [Threads -> LocSet]
  /\ ends \in [Msgs -> Seq(Hows)]
  /\ next \in [Threads -> Nat]
  /\ left \in [Msgs -> Int]

Distinct(s) == \A i, j \in 1..Len(s) : s[i] = s[j] => i = j
Members(s) == {s[i] : i \in 1..Len(s)}

\* A thread that sends inline; the write handler at its message.
Holds(t) == ~th[t].handler /\ th[t].pc \in Holding
Takes(t) == th[t].handler /\ th[t].pc \in Holding

HandsAt(t) ==
  /\ th[t].handler => t = Owner
  /\ Holds(t) => /\ th[t].m = <<t, next[t]>> /\ th[t].m \in Msgs
                 /\ th[t].m \notin Listed
  /\ Takes(t) => th[t].m \in Listed /\ th[t].pc # "insert"
  /\ th[t].pc = "sent" => left[th[t].m] < Fragments(th[t].m)
Hands == \A t \in Threads : HandsAt(t)

Begun(m) == m[2] <= next[m[1]]
Listing ==
  /\ Distinct(messages)
  /\ \A m \in Msgs : /\ left[m] <= Fragments(m)
                     /\ m \in Listed => Begun(m)
                     /\ ~Begun(m) => ends[m] = <<>>

Placed ==
  \A m \in Msgs : Begun(m) /\ Kind(m) # "wake" =>
    Len(ends[m]) + (IF m \in Listed THEN 1 ELSE 0) + (IF m \in Held THEN 1 ELSE 0) = 1

Counted == fdcount = Cardinality({m \in Listed : HasFd(m)})

Core == Types /\ Hands /\ Listing /\ Placed /\ Counted
WriteInv == foreign \/ Core

-----------------------------------------------------------------------------
(* The list.                                                               *)

LEMMA MsgParts ==
  ASSUME NEW m \in Msgs
  PROVE  m = <<m[1], m[2]>> /\ m[1] \in Threads /\ m[2] \in 1..Len(script[m[1]])
BY DEF Msgs

LEMMA ListedMsgs ==
  ASSUME Types
  PROVE  Listed \subseteq Msgs
BY DEF Types, Listed

LEMMA AppendMembers ==
  ASSUME NEW S, NEW s \in Seq(S), Distinct(s), NEW x \in S, x \notin Members(s)
  PROVE  /\ Append(s, x) \in Seq(S) /\ Distinct(Append(s, x))
         /\ Members(Append(s, x)) = Members(s) \cup {x}
<1> DEFINE t == Append(s, x)
<1>1. /\ t \in Seq(S) /\ Len(t) = Len(s) + 1 /\ Len(s) \in Nat
      /\ \A i \in 1..Len(s) : t[i] = s[i]
      /\ t[Len(s) + 1] = x
  OBVIOUS
<1> HIDE DEF t
<1>2. 1..Len(t) = 1..Len(s) \cup {Len(s) + 1}
  BY <1>1
<1>3. Members(t) = Members(s) \cup {x}
  BY <1>1, <1>2 DEF Members
<1>4. Distinct(t)
  BY <1>1, <1>2 DEF Distinct, Members
<1> QED BY <1>1, <1>3, <1>4 DEF t

LEMMA WithoutMembers ==
  ASSUME NEW S, messages \in Seq(S), Distinct(messages), NEW x
  PROVE  /\ Without(x) \in Seq(S) /\ Distinct(Without(x))
         /\ Members(Without(x)) = Listed \ {x}
<1> DEFINE s == messages
<1>1. CASE x \notin Listed
  BY <1>1 DEF Without, Listed, Members
<1>2. CASE x \in Listed
  <2> DEFINE i == CHOOSE j \in 1..Len(s) : s[j] = x
             t == [j \in 1..(Len(s) - 1) |-> IF j < i THEN s[j] ELSE s[j + 1]]
  <2>1. i \in 1..Len(s) /\ s[i] = x
    BY <1>2 DEF Listed
  <2>2. Without(x) = t
    BY <1>2 DEF Without
  <2>3. Len(s) \in Nat /\ \A j \in 1..Len(s) : s[j] \in S
    OBVIOUS
  <2> HIDE DEF i
  <2>4. t \in [1..(Len(s) - 1) -> S] /\ Len(s) - 1 \in Nat
    BY <2>1, <2>3
  <2>5. t \in Seq(S) /\ Len(t) = Len(s) - 1
    BY <2>4
  <2>6. \A j \in 1..Len(t) : t[j] = IF j < i THEN s[j] ELSE s[j + 1]
    BY <2>5
  <2> HIDE DEF t
  <2>7. Distinct(t)
    <3> SUFFICES ASSUME NEW j \in 1..Len(t), NEW k \in 1..Len(t), t[j] = t[k]
                 PROVE  j = k
      BY DEF Distinct
    <3>1. /\ j \in 1..Len(s) /\ j + 1 \in 1..Len(s)
          /\ k \in 1..Len(s) /\ k + 1 \in 1..Len(s)
      BY <2>3, <2>5
    <3> QED BY <2>1, <2>5, <2>6, <3>1 DEF Distinct
  <2>8. Members(t) = Listed \ {x}
    <3>1. ASSUME NEW j \in 1..Len(t)
          PROVE  t[j] \in Listed /\ t[j] # x
      <4>1. j \in 1..Len(s) /\ j + 1 \in 1..Len(s)
        BY <2>3, <2>5
      <4> QED BY <2>1, <2>6, <4>1 DEF Listed, Distinct
    <3>2. ASSUME NEW k \in 1..Len(s), s[k] # x
          PROVE  s[k] \in Members(t)
      <4>1. CASE k < i
        <5>1. k \in 1..Len(t) /\ t[k] = s[k]
          BY <2>1, <2>3, <2>5, <2>6, <4>1
        <5> QED BY <5>1 DEF Members
      <4>2. CASE k > i
        <5>1. k - 1 \in 1..Len(t) /\ t[k - 1] = s[k]
          BY <2>1, <2>3, <2>5, <2>6, <4>2
        <5> QED BY <5>1 DEF Members
      <4> QED BY <2>1, <3>2, <4>1, <4>2
    <3> QED BY <3>1, <3>2 DEF Members, Listed
  <2> QED BY <2>2, <2>5, <2>7, <2>8
<1> QED BY <1>1, <1>2

LEMMA FdFinite ==
  ASSUME messages \in Seq(Msgs)
  PROVE  LET F == {m \in Listed : HasFd(m)}
         IN  IsFiniteSet(F) /\ Cardinality(F) \in Nat
<1>1. IsFiniteSet(1..Len(messages))
  BY FS_Interval
<1>2. IsFiniteSet(Listed)
  <2>1. messages \in [1..Len(messages) -> Listed]
    BY DEF Listed
  <2>2. messages \in Surjection(1..Len(messages), Listed)
    BY <2>1 DEF Surjection, Listed
  <2> QED BY <1>1, <2>2, FS_Surjection
<1>3. IsFiniteSet({m \in Listed : HasFd(m)})
  BY <1>2, FS_Subset
<1> QED BY <1>3, FS_CardinalityType

LEMMA FdAdd ==
  ASSUME messages \in Seq(Msgs), NEW x, x \notin Listed
  PROVE  Cardinality({m \in Listed \cup {x} : HasFd(m)})
           = Cardinality({m \in Listed : HasFd(m)}) + (IF HasFd(x) THEN 1 ELSE 0)
<1> DEFINE F == {m \in Listed : HasFd(m)}
           G == {m \in Listed \cup {x} : HasFd(m)}
<1>1. IsFiniteSet(F) /\ Cardinality(F) \in Nat /\ x \notin F
  BY FdFinite
<1>2. CASE HasFd(x)
  <2>1. G = F \cup {x}
    BY <1>2
  <2> HIDE DEF F, G
  <2>2. Cardinality(G) = Cardinality(F) + 1
    BY <1>1, <2>1, FS_AddElement
  <2> QED BY <1>2, <2>2 DEF F, G
<1>3. CASE ~HasFd(x)
  <2>1. G = F
    BY <1>3
  <2> HIDE DEF F, G
  <2>2. Cardinality(G) = Cardinality(F) + 0
    BY <1>1, <2>1
  <2> QED BY <1>3, <2>2 DEF F, G
<1> QED BY <1>2, <1>3

LEMMA FdDrop ==
  ASSUME messages \in Seq(Msgs), Counted, NEW x \in Listed
  PROVE  Uncount(x) = Cardinality({m \in Listed \ {x} : HasFd(m)})
<1> DEFINE F == {m \in Listed : HasFd(m)}
           G == {m \in Listed \ {x} : HasFd(m)}
<1>1. IsFiniteSet(F) /\ Cardinality(F) \in Nat
  BY FdFinite
<1>2. CASE HasFd(x)
  <2>1. G = F \ {x} /\ x \in F
    BY <1>2
  <2> HIDE DEF F, G
  <2>2. Cardinality(G) = Cardinality(F) - 1 /\ Cardinality(G) \in Nat
    BY <1>1, <2>1, FS_RemoveElement, FS_CardinalityType
  <2>3. fdcount = Cardinality(F)
    BY DEF Counted, F
  <2>4. fdcount > 0
    BY <1>1, <2>2, <2>3
  <2> QED BY <1>2, <2>2, <2>3, <2>4 DEF Uncount, G
<1>3. CASE ~HasFd(x)
  <2>1. G = F
    BY <1>3
  <2> QED BY <1>3, <2>1 DEF Uncount, Counted
<1> QED BY <1>2, <1>3

-----------------------------------------------------------------------------
(* Steps.                                                                  *)

LEMMA SameMsgs ==
  ASSUME script' = script
  PROVE  /\ Msgs' = Msgs /\ \A m : Kind(m)' = Kind(m)
         /\ \A m : Fragments(m)' = Fragments(m) /\ HasFd(m)' = HasFd(m)
BY DEF Msgs, Kind, Fragments, HasFd

\* Who holds a message is the thread that sends it.
LEMMA HeldBy ==
  ASSUME Types, Hands, NEW m \in Msgs
  PROVE  m \in Held <=> Holds(m[1]) /\ th[m[1]].m = m
<1>1. m[1] \in Threads
  BY MsgParts
<1>2. ASSUME m \in Held PROVE Holds(m[1]) /\ th[m[1]].m = m
  <2>1. PICK t \in Threads : Holds(t) /\ th[t].m = m
    BY <1>2 DEF Held, Holds, Holding
  <2>2. m = <<t, next[t]>>
    BY <2>1 DEF Hands, HandsAt
  <2>3. m[1] = t
    BY <2>2
  <2> QED BY <2>1, <2>3
<1>3. ASSUME Holds(m[1]), th[m[1]].m = m PROVE m \in Held
  BY <1>1, <1>3 DEF Held, Holds, Holding
<1> QED BY <1>2, <1>3

\* A step of thread t that leaves every message where it is.
LEMMA StillStep ==
  ASSUME Core, NEW t \in Threads, th' \in [Threads -> LocSet],
         \A u \in Threads \ {t} : th'[u] = th[u],
         UNCHANGED <<script, messages, ends, next, fdcount>>,
         left' \in [Msgs -> Int], \A m \in Msgs : left'[m] <= left[m],
         HandsAt(t)', Holds(t)' = Holds(t), Holds(t) => th'[t].m = th[t].m
  PROVE  Core'
<1>1. Types'
  BY SameMsgs DEF Core, Types
<1>2. Listed' = Listed
  BY DEF Listed
<1>3. \A m : left'[m] = left'[m] /\ Begun(m)' = Begun(m)
  BY DEF Begun
<1>4. \A m \in Msgs : left[m] \in Int /\ left'[m] \in Int /\ Fragments(m) \in Int
  BY DEF Core, Types, Fragments
<1>5. Hands'
  <2> SUFFICES ASSUME NEW u \in Threads, u # t PROVE HandsAt(u)'
    BY DEF Hands
  <2>1. th'[u] = th[u] /\ HandsAt(u)
    BY DEF Core, Hands
  <2>2. Holds(u)' = Holds(u) /\ Takes(u)' = Takes(u)
    BY <2>1 DEF Holds, Takes
  <2>3. ASSUME th[u].pc = "sent" PROVE left'[th[u].m] < Fragments(th[u].m)
    <3>1. th[u].m \in Msgs
      <4>1. Holds(u) \/ Takes(u)
        BY <2>3 DEF Holds, Takes, Holding
      <4>2. Listed \subseteq Msgs
        BY ListedMsgs DEF Core
      <4> QED BY <2>1, <4>1, <4>2 DEF HandsAt
    <3>2. left[th[u].m] < Fragments(th[u].m)
      BY <2>1, <2>3 DEF HandsAt
    <3> QED BY <1>4, <3>1, <3>2
  <2> QED BY <1>2, <2>1, <2>2, <2>3, SameMsgs DEF HandsAt
<1>6. Held' = Held
  <2> SUFFICES ASSUME NEW u \in Threads
               PROVE  /\ Holds(u)' = Holds(u)
                      /\ Holds(u) => th'[u].m = th[u].m
    BY DEF Held, Holds, Holding
  <2>1. CASE u = t
    BY <2>1
  <2>2. CASE u # t
    BY <2>2 DEF Holds
  <2> QED BY <2>1, <2>2
<1>7. Listing'
  BY <1>2, <1>3, <1>4, SameMsgs DEF Core, Listing
<1>8. Placed'
  BY <1>2, <1>3, <1>6, SameMsgs DEF Core, Placed
<1>9. Counted'
  BY <1>2, SameMsgs DEF Core, Counted
<1> QED BY <1>1, <1>5, <1>7, <1>8, <1>9 DEF Core

\* A step of thread t that moves the message x between its hands, the list and
\* the end.
LEMMA MoveStep ==
  ASSUME Core, NEW t \in Threads, NEW x \in Msgs, Types', Distinct(messages)', Counted',
         script' = script, left' = left,
         \A u \in Threads \ {t} : th'[u] = th[u] /\ next'[u] = next[u],
         x \in Listed \/ x[1] = t,
         x \in Listed' \/ x \notin Listed \/ t = Owner,
         \A m \in Msgs \ {x} : /\ m \in Listed' <=> m \in Listed
                               /\ ends'[m] = ends[m] /\ Begun(m)' = Begun(m),
         Listed' \subseteq Msgs,
         HandsAt(t)', Holds(t) => th[t].m = x, Holds(t)' => th'[t].m = x,
         Begun(x)',
         Kind(x) # "wake" => Len(ends'[x]) + (IF x \in Listed' THEN 1 ELSE 0)
                               + (IF Holds(t)' THEN 1 ELSE 0) = 1
  PROVE  Core'
<1>1. Hands'
  <2> SUFFICES ASSUME NEW u \in Threads, u # t PROVE HandsAt(u)'
    BY DEF Hands
  <2>1. th'[u] = th[u] /\ next'[u] = next[u] /\ HandsAt(u)
    BY DEF Core, Hands
  <2>2. Holds(u)' = Holds(u) /\ Takes(u)' = Takes(u)
    BY <2>1 DEF Holds, Takes
  <2>3. ASSUME Holds(u) PROVE th[u].m \notin Listed'
    <3>1. th[u].m = <<u, next[u]>> /\ th[u].m \in Msgs /\ th[u].m \notin Listed
      BY <2>1, <2>3 DEF HandsAt
    <3>2. th[u].m[1] = u
      BY <3>1
    <3>3. th[u].m # x
      BY <3>1, <3>2
    <3> QED BY <3>1, <3>3
  <2>4. ASSUME Takes(u) PROVE th[u].m \in Listed'
    <3>1. th[u].m \in Listed /\ u = Owner
      BY <2>1, <2>4 DEF HandsAt, Takes
    <3>2. Listed \subseteq Msgs
      BY ListedMsgs DEF Core
    <3> QED BY <3>1, <3>2
  <2> QED BY <2>1, <2>2, <2>3, <2>4, SameMsgs DEF HandsAt
<1>2. Listing'
  BY SameMsgs DEF Core, Listing
<1>3. Placed'
  <2> SUFFICES ASSUME NEW m \in Msgs, Begun(m)', Kind(m) # "wake"
               PROVE  Len(ends'[m]) + (IF m \in Listed' THEN 1 ELSE 0)
                        + (IF m \in Held' THEN 1 ELSE 0) = 1
    BY SameMsgs DEF Placed
  <2>1. m \in Held <=> Holds(m[1]) /\ th[m[1]].m = m
    BY HeldBy DEF Core
  <2>2. m \in Held' <=> Holds(m[1])' /\ th'[m[1]].m = m
    <3>0. m[1] \in Threads
      BY MsgParts
    <3>1. ASSUME m \in Held' PROVE Holds(m[1])' /\ th'[m[1]].m = m
      <4>1. PICK u \in Threads : Holds(u)' /\ th'[u].m = m
        BY <3>1 DEF Held, Holds, Holding
      <4>2. m = <<u, next'[u]>>
        BY <1>1, <4>1 DEF Hands, HandsAt
      <4>3. m[1] = u
        BY <4>2
      <4> QED BY <4>1, <4>3
    <3>2. ASSUME Holds(m[1])', th'[m[1]].m = m PROVE m \in Held'
      BY <3>0, <3>2 DEF Held, Holds, Holding
    <3> QED BY <3>1, <3>2
  <2>3. m[1] \in Threads
    BY MsgParts
  <2>4. CASE m # x
    <3>1. m \in Held' <=> m \in Held
      <4>1. CASE m[1] = t
        BY <2>1, <2>2, <2>4, <4>1
      <4>2. CASE m[1] # t
        BY <2>1, <2>2, <2>3, <4>2 DEF Holds
      <4> QED BY <4>1, <4>2
    <3> QED BY <2>4, <3>1 DEF Core, Placed
  <2>5. CASE m = x
    <3>1. x \in Held' <=> Holds(t)'
      <4>1. ASSUME Holds(t)' PROVE x \in Held'
        <5>1. th'[t].m = <<t, next'[t]>> /\ th'[t].m = x
          BY <4>1 DEF HandsAt
        <5>2. x[1] = t
          BY <5>1
        <5> QED BY <2>2, <2>5, <4>1, <5>1, <5>2
      <4>2. ASSUME x \in Held', x[1] # t PROVE FALSE
        <5>1. x[1] \in Threads /\ th'[x[1]] = th[x[1]] /\ Holds(x[1])' /\ th'[x[1]].m = x
          BY <2>2, <2>3, <2>5, <4>2
        <5>2. Holds(x[1]) /\ th[x[1]].m = x
          BY <5>1 DEF Holds
        <5>3. x \notin Listed
          BY <5>1, <5>2 DEF Core, Hands, HandsAt
        <5> QED BY <4>2, <5>3
      <4> QED BY <2>2, <2>5, <4>1, <4>2
    <3> QED BY <2>5, <3>1
  <2> QED BY <2>4, <2>5
<1> QED BY <1>1, <1>2, <1>3 DEF Core


LEMMA LocType ==
  ASSUME NEW pc \in Pcs, NEW m \in Threads \X Nat, NEW h \in BOOLEAN
  PROVE  /\ Loc(pc, m, h) \in LocSet /\ Loc(pc, m, h).pc = pc
         /\ Loc(pc, m, h).m = m /\ Loc(pc, m, h).handler = h
BY DEF Loc, LocSet

LEMMA NoMsgType == NoMsg \in Threads \X Nat
BY PortWriteAssumption DEF NoMsg

LEMMA MsgType ==
  ASSUME NEW m \in Msgs, Types
  PROVE  m \in Threads \X Nat
<1>1. m = <<m[1], m[2]>> /\ m[1] \in Threads /\ m[2] \in 1..Len(script[m[1]])
  BY MsgParts
<1>2. m[2] \in Nat
  BY <1>1
<1> QED BY <1>1, <1>2

LEMMA IdleFacts == Idle \in LocSet /\ Idle.pc = "idle" /\ Idle.handler = FALSE
<1>1. "idle" \in Pcs
  BY DEF Pcs
<1> QED BY <1>1, LocType, NoMsgType DEF Idle

\* Steps that are no concern of any message.
LEMMA ApartStep ==
  ASSUME Core, UNCHANGED <<script, messages, ends, next, fdcount, th, left>>
  PROVE  Core'
<1>1. Owner \in Threads /\ HandsAt(Owner) /\ left \in [Msgs -> Int]
  BY PortWriteAssumption DEF Core, Hands, Types
<1>2. HandsAt(Owner)' /\ Holds(Owner)' = Holds(Owner)
  BY <1>1, SameMsgs DEF HandsAt, Holds, Takes, Listed
<1>3. th' \in [Threads -> LocSet] /\ left' \in [Msgs -> Int] /\ \A m \in Msgs : left'[m] <= left[m]
  BY <1>1 DEF Core, Types
<1> QED BY <1>1, <1>2, <1>3, StillStep

\* A thread without a message goes on without one.
LEMMA FreeStep ==
  ASSUME Core, NEW t \in Threads, NEW v \in LocSet, th' = [th EXCEPT ![t] = v],
         UNCHANGED <<script, messages, ends, next, fdcount, left>>,
         ~Holds(t), v.pc \notin Holding, v.handler => t = Owner
  PROVE  Core'
<1>1. th'[t] = v /\ th' \in [Threads -> LocSet] /\ \A u \in Threads \ {t} : th'[u] = th[u]
  BY DEF Core, Types
<1>2. HandsAt(t)' /\ ~Holds(t)'
  BY <1>1 DEF HandsAt, Holds, Takes, Holding
<1>3. left' \in [Msgs -> Int] /\ \A m \in Msgs : left'[m] <= left[m]
  BY DEF Core, Types
<1>4. Holds(t)' = Holds(t) /\ ~Holds(t)
  BY <1>2 DEF Holds
<1> QED BY <1>1, <1>2, <1>3, <1>4, StillStep

\* The send of a message goes on.
LEMMA GoStep ==
  ASSUME Core, NEW t \in Threads, NEW v \in LocSet, th' = [th EXCEPT ![t] = v],
         UNCHANGED <<script, messages, ends, next, fdcount>>,
         left' \in [Msgs -> Int], \A m \in Msgs : left'[m] <= left[m],
         th[t].pc \in Holding, v.pc \in Holding, v.handler = th[t].handler, v.m = th[t].m,
         v.handler => v.pc # "insert",
         v.pc = "sent" => left'[v.m] < Fragments(v.m)
  PROVE  Core'
<1>1. th'[t] = v /\ th' \in [Threads -> LocSet] /\ \A u \in Threads \ {t} : th'[u] = th[u]
  BY DEF Core, Types
<1>2. HandsAt(t)
  BY DEF Core, Hands
<1>3. HandsAt(t)' /\ Holds(t)' = Holds(t)
  BY <1>1, <1>2, SameMsgs DEF HandsAt, Holds, Takes, Listed
<1> QED BY <1>1, <1>3, StillStep

LEMMA EventSteps ==
  ASSUME Core, RearmPosted \/ TimerFires \/ Poll \/ PeerReads \/ PeerDies
  PROVE  Core'
<1>1. UNCHANGED <<script, messages, ends, next, fdcount, th, left>>
  BY DEF RearmPosted, TimerFires, Poll, PeerReads, PeerDies, list, history
<1> QED BY <1>1, ApartStep

LEMMA PlainSteps ==
  ASSUME Core, NEW t \in Threads, Rearm(t) \/ Answer(t) \/ Cleanup(t)
  PROVE  Core'
<1>1. /\ th[t] \in LocSet /\ HandsAt(t)
      /\ UNCHANGED <<script, messages, ends, next, fdcount, left>>
  BY DEF Core, Types, Hands, Rearm, Answer, Cleanup, list, history
<1>2. ASSUME NEW p \in {"answer", "rearm"}, th[t].pc \in {"clean", "rearm"},
             th' = [th EXCEPT ![t].pc = p]
      PROVE  Core'
  <2> DEFINE v == [th[t] EXCEPT !.pc = p]
  <2>1. v \in LocSet /\ v.pc = p /\ v.handler = th[t].handler
    BY <1>1, <1>2 DEF LocSet, Pcs
  <2>2. th' = [th EXCEPT ![t] = v]
    BY <1>2
  <2> HIDE DEF v
  <2> QED BY <1>1, <1>2, <2>1, <2>2, FreeStep DEF Holds, Holding, HandsAt
<1>3. CASE Rearm(t)
  BY <1>2, <1>3 DEF Rearm
<1>4. CASE Cleanup(t)
  BY <1>2, <1>4 DEF Cleanup
<1>5. CASE Answer(t)
  <2> DEFINE v == IF th[t].ret = "owed" /\ ~th[t].failed THEN Loc("rearm", th[t].m, FALSE)
                  ELSE Idle
  <2>1. th' = [th EXCEPT ![t] = v] /\ th[t].pc = "answer"
    BY <1>5 DEF Answer
  <2>2. th[t].m \in Threads \X Nat /\ "rearm" \in Pcs
    BY <1>1 DEF LocSet, Pcs
  <2>3. v \in LocSet /\ v.pc \in {"rearm", "idle"} /\ v.handler = FALSE
    BY <2>2, LocType, IdleFacts
  <2> HIDE DEF v
  <2> QED BY <1>1, <2>1, <2>3, FreeStep DEF Holds, Holding
<1> QED BY <1>3, <1>4, <1>5

LEMMA HandlerSteps ==
  ASSUME Core, HandlerStart \/ HandlerFirst \/ HandlerBlock \/ AgainHandler
  PROVE  Core'
<1> DEFINE t == Owner
<1>1. /\ t \in Threads /\ th[t] \in LocSet /\ HandsAt(t)
      /\ UNCHANGED <<script, messages, ends, next, fdcount, left>>
  BY PortWriteAssumption DEF Core, Types, Hands, HandlerStart, HandlerFirst, HandlerBlock,
     AgainHandler, list, history
<1>2. CASE HandlerStart
  <2> DEFINE v == Loc("first", NoMsg, TRUE)
  <2>1. th' = [th EXCEPT ![t] = v] /\ ~Holds(t)
    BY <1>2, IdleFacts DEF HandlerStart, Holds, Holding
  <2>2. "first" \in Pcs
    BY DEF Pcs
  <2>3. v \in LocSet /\ v.pc = "first"
    BY <2>2, LocType, NoMsgType
  <2> HIDE DEF v
  <2> QED BY <1>1, <2>1, <2>3, FreeStep DEF Holding
<1>3. CASE HandlerBlock
  <2> DEFINE v == [th[t] EXCEPT !.pc = "clean"]
  <2>1. v \in LocSet /\ v.pc = "clean"
    BY <1>1 DEF LocSet, Pcs
  <2>2. th' = [th EXCEPT ![t] = v] /\ th[t].pc = "block"
    BY <1>3 DEF HandlerBlock
  <2> HIDE DEF v
  <2> QED BY <1>1, <2>1, <2>2, FreeStep DEF Holds, Holding
<1>4. CASE AgainHandler
  <2> DEFINE u == Loc("clean", NoMsg, TRUE)
             v == [u EXCEPT !.retry = error # "full", !.enable = ~active]
  <2>1. u \in LocSet /\ u.pc = "clean"
    <3>1. "clean" \in Pcs
      BY DEF Pcs
    <3> QED BY <3>1, LocType, NoMsgType
  <2>2. th' = [th EXCEPT ![t] = v] /\ ~Holds(t)
    BY <1>4 DEF AgainHandler, Holds
  <2>3. v \in LocSet /\ v.pc = "clean"
    <3> DEFINE a == (error # "full")
               b == ~active
               w == [u EXCEPT !.retry = a]
    <3>1. a \in BOOLEAN /\ b \in BOOLEAN
      OBVIOUS
    <3>2. v = [w EXCEPT !.enable = b]
      OBVIOUS
    <3> HIDE DEF u, v, a, b
    <3>3. w \in LocSet /\ w.pc = "clean"
      BY <2>1, <3>1 DEF LocSet
    <3> HIDE DEF w
    <3> QED BY <3>1, <3>2, <3>3 DEF LocSet
  <2> HIDE DEF v
  <2> QED BY <1>1, <2>2, <2>3, FreeStep DEF Holding
<1>5. CASE HandlerFirst
  <2>1. th[t].pc = "first"
    BY <1>5 DEF HandlerFirst
  <2>2. CASE messages = <<>>
    <3> DEFINE v == Loc("block", NoMsg, TRUE)
    <3>1. th' = [th EXCEPT ![t] = v]
      BY <1>5, <2>2 DEF HandlerFirst
    <3>2. "block" \in Pcs
      BY DEF Pcs
    <3>3. v \in LocSet /\ v.pc = "block"
      BY <3>2, LocType, NoMsgType
    <3> HIDE DEF v
    <3> QED BY <1>1, <2>1, <3>1, <3>3, FreeStep DEF Holds, Holding
  <2>3. CASE messages # <<>>
    <3> DEFINE h == Head(messages)
               v == Loc("send", h, TRUE)
    <3>1. th' = [th EXCEPT ![t] = v]
      BY <1>5, <2>3 DEF HandlerFirst
    <3>2. h \in Listed /\ h \in Msgs
      <4>1. messages \in Seq(Msgs) /\ Len(messages) \in Nat /\ Len(messages) # 0
        BY <2>3 DEF Core, Types
      <4>2. h = messages[1] /\ 1 \in 1..Len(messages)
        BY <4>1
      <4> QED BY <4>1, <4>2 DEF Listed
    <3>3. h \in Threads \X Nat /\ "send" \in Pcs
      BY <3>2, MsgType DEF Core, Pcs
    <3>4. v \in LocSet /\ v.pc = "send" /\ v.m = h /\ v.handler = TRUE
      BY <3>3, LocType
    <3> HIDE DEF v, h
    <3>5. th'[t] = v /\ th' \in [Threads -> LocSet] /\ \A u \in Threads \ {t} : th'[u] = th[u]
      BY <1>1, <3>1, <3>4 DEF Core, Types
    <3>6. HandsAt(t)' /\ ~Holds(t) /\ ~Holds(t)'
      BY <1>1, <2>1, <3>2, <3>4, <3>5 DEF HandsAt, Holds, Takes, Holding, Listed
    <3>7. left' \in [Msgs -> Int] /\ \A m \in Msgs : left'[m] <= left[m]
      BY <1>1 DEF Core, Types
    <3>8. Holds(t)' = Holds(t)
      BY <3>6 DEF Holds
    <3> QED BY <1>1, <3>5, <3>6, <3>7, <3>8, StillStep
  <2> QED BY <2>2, <2>3
<1> QED BY <1>2, <1>3, <1>4, <1>5

LEMMA SendSteps ==
  ASSUME Core, NEW t \in Threads, SendOk(t) \/ SentMore(t) \/ SendAgain(t) \/ AgainInline(t)
  PROVE  Core'
<1>1. /\ th[t] \in LocSet /\ HandsAt(t) /\ left \in [Msgs -> Int] /\ Listed \subseteq Msgs
      /\ UNCHANGED <<script, messages, ends, next, fdcount>>
  BY ListedMsgs DEF Core, Types, Hands, SendOk, SentMore, SendAgain, AgainInline, list, history
<1>2. ASSUME NEW p \in Holding, th[t].pc \in Holding, th' = [th EXCEPT ![t].pc = p],
             left' \in [Msgs -> Int], \A m \in Msgs : left'[m] <= left[m],
             th[t].handler => p # "insert",
             p = "sent" => left'[th[t].m] < Fragments(th[t].m)
      PROVE  Core'
  <2> DEFINE v == [th[t] EXCEPT !.pc = p]
  <2>1. v \in LocSet /\ v.pc = p /\ v.handler = th[t].handler /\ v.m = th[t].m
    BY <1>1 DEF LocSet, Pcs, Holding
  <2>2. th' = [th EXCEPT ![t] = v]
    BY <1>2
  <2> HIDE DEF v
  <2> QED BY <1>1, <1>2, <2>1, <2>2, GoStep
<1>3. CASE SendOk(t)
  <2> DEFINE m == th[t].m
  <2>1. /\ th[t].pc = "send" /\ th' = [th EXCEPT ![t].pc = "sent"]
        /\ left' = [left EXCEPT ![m] = @ - 1]
    BY <1>3 DEF SendOk
  <2>2. m \in Msgs
    <3>1. Holds(t) \/ Takes(t)
      BY <2>1 DEF Holds, Takes, Holding
    <3> QED BY <1>1, <3>1 DEF HandsAt
  <2>3. \A d \in Msgs : left[d] \in Int /\ left[d] <= Fragments(d) /\ Fragments(d) \in Int
    BY <1>1 DEF Core, Listing, Fragments
  <2>4. left' \in [Msgs -> Int] /\ \A d \in Msgs : left'[d] <= left[d]
    BY <1>1, <2>1, <2>2, <2>3
  <2>5. left'[m] < Fragments(m)
    BY <1>1, <2>1, <2>2, <2>3
  <2> QED BY <1>2, <2>1, <2>4, <2>5 DEF Holding
<1>4. CASE SentMore(t) \/ SendAgain(t) \/ AgainInline(t)
  <2>1. left' = left
    BY <1>4 DEF SentMore, SendAgain, AgainInline
  <2>2. left' \in [Msgs -> Int] /\ \A d \in Msgs : left'[d] <= left[d]
    BY <1>1, <2>1
  <2> QED BY <1>2, <1>4, <2>2 DEF SentMore, SendAgain, AgainInline, Holding
<1> QED BY <1>3, <1>4


\* The message of a thread that sends inline, and one of the list.
LEMMA HeldFacts ==
  ASSUME Core, NEW t \in Threads, Holds(t)
  PROVE  LET x == th[t].m
         IN /\ x \in Msgs /\ x[1] = t /\ x \notin Listed /\ Begun(x)
            /\ Kind(x) # "wake" => ends[x] \in Seq(Hows) /\ Len(ends[x]) = 0
<1> DEFINE x == th[t].m
<1>1. x = <<t, next[t]>> /\ x \in Msgs /\ x \notin Listed
  BY DEF Core, Hands, HandsAt
<1>2. x[1] = t /\ Begun(x)
  <2>1. x[1] = t /\ x[2] = next[t] /\ next[t] \in Nat
    BY <1>1 DEF Core, Types
  <2> QED BY <2>1 DEF Begun
<1>3. x \in Held
  BY <1>1, <1>2, HeldBy DEF Core
<1>4. ends[x] \in Seq(Hows) /\ Len(ends[x]) \in Nat
  BY <1>1 DEF Core, Types
<1>5. Kind(x) # "wake" => Len(ends[x]) + 0 + 1 = 1
  BY <1>1, <1>2, <1>3 DEF Core, Placed
<1> QED BY <1>1, <1>2, <1>4, <1>5

LEMMA ListedFacts ==
  ASSUME Core, NEW x \in Listed
  PROVE  /\ x \in Msgs /\ Begun(x)
         /\ ends[x] \in Seq(Hows)
         /\ Kind(x) # "wake" => Len(ends[x]) = 0
<1>1. x \in Msgs /\ Begun(x)
  BY ListedMsgs DEF Core, Listing
<1>2. ends[x] \in Seq(Hows) /\ Len(ends[x]) \in Nat
  BY <1>1 DEF Core, Types
<1>3. Kind(x) # "wake" => Len(ends[x]) + 1 + (IF x \in Held THEN 1 ELSE 0) = 1
  BY <1>1 DEF Core, Placed
<1>4. Kind(x) # "wake" => Len(ends[x]) = 0
  <2> DEFINE n == Len(ends[x])
             h == IF x \in Held THEN 1 ELSE 0
  <2>1. n \in Nat /\ h \in Nat /\ (Kind(x) # "wake" => n + 1 + h = 1)
    BY <1>2, <1>3
  <2> HIDE DEF n, h
  <2>2. Kind(x) # "wake" => n = 0
    BY <2>1
  <2> QED BY <2>2 DEF n
<1> QED BY <1>1, <1>2, <1>4

\* A thread is through with the message it sent inline: it ends the message, or
\* the message is a wake-up.
LEMMA DropStep ==
  ASSUME Core, NEW t \in Threads, NEW v \in LocSet, th' = [th EXCEPT ![t] = v],
         Holds(t), v.pc \notin Holding, v.handler = FALSE,
         UNCHANGED <<script, messages, next, fdcount, left>>,
         NEW how \in Hows,
         \/ Kind(th[t].m) = "wake" /\ ends' = ends
         \/ ends' = [ends EXCEPT ![th[t].m] = Append(@, how)]
  PROVE  Core'
<1> DEFINE x == th[t].m
<1>1. /\ x \in Msgs /\ x[1] = t /\ x \notin Listed /\ Begun(x)
      /\ Kind(x) # "wake" => ends[x] \in Seq(Hows) /\ Len(ends[x]) = 0
  BY HeldFacts
<1>2. /\ Listed' = Listed /\ Listed \subseteq Msgs /\ Distinct(messages)
      /\ \A m : Begun(m)' = Begun(m)
  BY ListedMsgs DEF Listed, Begun, Core, Listing
<1>3. th'[t] = v /\ th' \in [Threads -> LocSet] /\ \A u \in Threads \ {t} : th'[u] = th[u]
  BY DEF Core, Types
<1>4. HandsAt(t)' /\ ~Holds(t)'
  BY <1>3 DEF HandsAt, Holds, Takes, Holding
<1>5. /\ ends' \in [Msgs -> Seq(Hows)]
      /\ \A m \in Msgs \ {x} : ends'[m] = ends[m]
      /\ Kind(x) # "wake" => Len(ends'[x]) = 1
  <2>1. ends \in [Msgs -> Seq(Hows)]
    BY DEF Core, Types
  <2> HIDE DEF x
  <2>2. CASE ends' = ends /\ Kind(x) = "wake"
    BY <2>1, <2>2
  <2>3. CASE ends' = [ends EXCEPT ![x] = Append(@, how)]
    <3>1. ends[x] \in Seq(Hows) /\ Append(ends[x], how) \in Seq(Hows)
          /\ Len(Append(ends[x], how)) = Len(ends[x]) + 1
      BY <1>1, <2>1
    <3> QED BY <1>1, <2>1, <2>3, <3>1
  <2> QED BY <2>2, <2>3 DEF x
<1>6. Types'
  BY <1>3, <1>5, SameMsgs DEF Core, Types
<1>7. Counted' /\ Distinct(messages)'
  BY <1>2, SameMsgs DEF Core, Counted, Listing
<1>8. Kind(x) # "wake" => Len(ends'[x]) + (IF x \in Listed' THEN 1 ELSE 0)
                            + (IF Holds(t)' THEN 1 ELSE 0) = 1
  BY <1>1, <1>2, <1>4, <1>5
<1> HIDE DEF x
<1>9. Holds(t) => th[t].m = x
  BY DEF x
<1> QED BY <1>1, <1>2, <1>3, <1>4, <1>5, <1>6, <1>7, <1>8, <1>9, MoveStep

\* The message it sent inline goes to the tail of the list.
LEMMA PutStep ==
  ASSUME Core, NEW t \in Threads, NEW v \in LocSet, th' = [th EXCEPT ![t] = v],
         Holds(t), v.pc \notin Holding, v.handler = FALSE,
         messages' = Append(messages, th[t].m),
         fdcount' = IF HasFd(th[t].m) THEN fdcount + 1 ELSE fdcount,
         UNCHANGED <<script, ends, next, left>>
  PROVE  Core'
<1> DEFINE x == th[t].m
<1>1. /\ x \in Msgs /\ x[1] = t /\ x \notin Listed /\ Begun(x)
      /\ Kind(x) # "wake" => ends[x] \in Seq(Hows) /\ Len(ends[x]) = 0
  BY HeldFacts
<1>2. /\ messages \in Seq(Msgs) /\ Distinct(messages) /\ Listed = Members(messages)
      /\ \A m : Begun(m)' = Begun(m)
  BY DEF Listed, Begun, Core, Types, Listing, Members
<1>3. th'[t] = v /\ th' \in [Threads -> LocSet] /\ \A u \in Threads \ {t} : th'[u] = th[u]
  BY DEF Core, Types
<1>4. HandsAt(t)' /\ ~Holds(t)'
  BY <1>3 DEF HandsAt, Holds, Takes, Holding
<1>5. messages' \in Seq(Msgs) /\ Distinct(messages)' /\ Members(messages') = Listed \cup {x}
  <2> HIDE DEF x
  <2>1. /\ Append(messages, x) \in Seq(Msgs) /\ Distinct(Append(messages, x))
        /\ Members(Append(messages, x)) = Members(messages) \cup {x}
    BY <1>1, <1>2, AppendMembers
  <2>2. messages' = Append(messages, x)
    BY DEF x
  <2>3. Distinct(messages)' = Distinct(messages')
    BY DEF Distinct
  <2> QED BY <1>2, <2>1, <2>2, <2>3
<1>6. Listed' = Listed \cup {x}
  BY <1>5 DEF Listed, Members
<1>7. Types'
  BY <1>3, <1>5, SameMsgs DEF Core, Types
<1>8. Counted'
  <2>1. fdcount = Cardinality({m \in Listed : HasFd(m)})
    BY DEF Core, Counted
  <2>2. Cardinality({m \in Listed \cup {x} : HasFd(m)})
           = Cardinality({m \in Listed : HasFd(m)}) + (IF HasFd(x) THEN 1 ELSE 0)
    BY <1>1, <1>2, FdAdd
  <2>3. Cardinality({m \in Listed : HasFd(m)}) \in Nat
    BY <1>2, FdFinite
  <2>4. {m \in Listed' : HasFd(m)'} = {m \in Listed \cup {x} : HasFd(m)}
    BY <1>6, SameMsgs
  <2>5. fdcount' = Cardinality({m \in Listed \cup {x} : HasFd(m)})
    BY <2>1, <2>2, <2>3
  <2> QED BY <2>4, <2>5 DEF Counted
<1>9. Kind(x) # "wake" => Len(ends'[x]) + (IF x \in Listed' THEN 1 ELSE 0)
                            + (IF Holds(t)' THEN 1 ELSE 0) = 1
  BY <1>1, <1>4, <1>6
<1>10. Listed' \subseteq Msgs /\ \A m \in Msgs \ {x} : m \in Listed' <=> m \in Listed
  BY <1>1, <1>6, ListedMsgs DEF Core
<1> HIDE DEF x
<1>11. Holds(t) => th[t].m = x
  BY DEF x
<1> QED BY <1>1, <1>2, <1>3, <1>4, <1>5, <1>6, <1>7, <1>8, <1>9, <1>10, <1>11, MoveStep

\* The owner takes a message out of the list and ends it.
LEMMA TakeStep ==
  ASSUME Core, NEW v \in LocSet, th' = [th EXCEPT ![Owner] = v],
         ~Holds(Owner), v.pc \notin Holding,
         NEW x \in Listed, messages' = Without(x), fdcount' = Uncount(x),
         NEW how \in Hows, ends' = [ends EXCEPT ![x] = Append(@, how)],
         UNCHANGED <<script, next, left>>
  PROVE  Core'
<1> DEFINE t == Owner
<1>1. /\ t \in Threads /\ x \in Msgs /\ Begun(x) /\ ends[x] \in Seq(Hows)
      /\ Kind(x) # "wake" => Len(ends[x]) = 0
  BY PortWriteAssumption, ListedFacts
<1>2. /\ messages \in Seq(Msgs) /\ Distinct(messages) /\ Listed \subseteq Msgs
      /\ \A m : Begun(m)' = Begun(m)
  BY ListedMsgs DEF Begun, Core, Types, Listing
<1>3. th'[t] = v /\ th' \in [Threads -> LocSet] /\ \A u \in Threads \ {t} : th'[u] = th[u]
  BY <1>1 DEF Core, Types
<1>4. HandsAt(t)' /\ ~Holds(t)'
  BY <1>3 DEF HandsAt, Holds, Takes, Holding
<1>5. messages' \in Seq(Msgs) /\ Distinct(messages)' /\ Members(messages') = Listed \ {x}
  <2>1. /\ Without(x) \in Seq(Msgs) /\ Distinct(Without(x))
        /\ Members(Without(x)) = Listed \ {x}
    BY <1>2, WithoutMembers
  <2>2. Distinct(messages)' = Distinct(messages')
    BY DEF Distinct
  <2> QED BY <2>1, <2>2
<1>6. Listed' = Listed \ {x}
  BY <1>5 DEF Listed, Members
<1>7. /\ ends' \in [Msgs -> Seq(Hows)]
      /\ \A m \in Msgs \ {x} : ends'[m] = ends[m]
      /\ Kind(x) # "wake" => Len(ends'[x]) = 1
  <2>1. ends \in [Msgs -> Seq(Hows)]
    BY DEF Core, Types
  <2>2. Append(ends[x], how) \in Seq(Hows) /\ Len(Append(ends[x], how)) = Len(ends[x]) + 1
    BY <1>1
  <2> QED BY <1>1, <2>1, <2>2
<1>8. Types'
  BY <1>3, <1>5, <1>7, SameMsgs DEF Core, Types
<1>9. Counted'
  <2>1. Uncount(x) = Cardinality({m \in Listed \ {x} : HasFd(m)})
    BY <1>2, FdDrop DEF Core
  <2>2. {m \in Listed' : HasFd(m)'} = {m \in Listed \ {x} : HasFd(m)}
    BY <1>6, SameMsgs
  <2> QED BY <2>1, <2>2 DEF Counted
<1>10. Kind(x) # "wake" => Len(ends'[x]) + (IF x \in Listed' THEN 1 ELSE 0)
                            + (IF Holds(t)' THEN 1 ELSE 0) = 1
  BY <1>4, <1>6, <1>7
<1>11. Listed' \subseteq Msgs /\ \A m \in Msgs \ {x} : m \in Listed' <=> m \in Listed
  BY <1>2, <1>6
<1>12. \A u \in Threads \ {t} : next'[u] = next[u]
  OBVIOUS
<1> QED BY <1>1, <1>2, <1>3, <1>4, <1>5, <1>7, <1>8, <1>9, <1>10, <1>11, <1>12, MoveStep

\* The rest of the message that the write handler sends goes to the tail.
LEMMA TailStep ==
  ASSUME Core, NEW v \in LocSet, th' = [th EXCEPT ![Owner] = v],
         ~Holds(Owner), v.pc \notin Holding,
         NEW x \in Listed, messages' = Append(Without(x), x),
         UNCHANGED <<script, next, left, fdcount, ends>>
  PROVE  Core'
<1> DEFINE t == Owner
<1>1. /\ t \in Threads /\ x \in Msgs /\ Begun(x) /\ ends[x] \in Seq(Hows)
      /\ Kind(x) # "wake" => Len(ends[x]) = 0
  BY PortWriteAssumption, ListedFacts
<1>2. /\ messages \in Seq(Msgs) /\ Distinct(messages) /\ Listed \subseteq Msgs
      /\ \A m : Begun(m)' = Begun(m)
  BY ListedMsgs DEF Begun, Core, Types, Listing
<1>3. th'[t] = v /\ th' \in [Threads -> LocSet] /\ \A u \in Threads \ {t} : th'[u] = th[u]
  BY <1>1 DEF Core, Types
<1>4. HandsAt(t)' /\ ~Holds(t)'
  BY <1>3 DEF HandsAt, Holds, Takes, Holding
<1>5. messages' \in Seq(Msgs) /\ Distinct(messages)' /\ Members(messages') = Listed
  <2> DEFINE s == Without(x)
  <2>1. s \in Seq(Msgs) /\ Distinct(s) /\ Members(s) = Listed \ {x}
    BY <1>2, WithoutMembers
  <2> HIDE DEF s
  <2>2. /\ Append(s, x) \in Seq(Msgs) /\ Distinct(Append(s, x))
        /\ Members(Append(s, x)) = Members(s) \cup {x}
    BY <1>1, <2>1, AppendMembers
  <2>3. Distinct(messages)' = Distinct(messages')
    BY DEF Distinct
  <2> QED BY <2>1, <2>2, <2>3 DEF s
<1>6. Listed' = Listed
  BY <1>5 DEF Listed, Members
<1>7. Types'
  BY <1>3, <1>5, SameMsgs DEF Core, Types
<1>8. Counted'
  <2>1. {m \in Listed' : HasFd(m)'} = {m \in Listed : HasFd(m)}
    BY <1>6, SameMsgs
  <2> QED BY <2>1 DEF Counted, Core
<1>9. Kind(x) # "wake" => Len(ends'[x]) + (IF x \in Listed' THEN 1 ELSE 0)
                            + (IF Holds(t)' THEN 1 ELSE 0) = 1
  BY <1>1, <1>4, <1>6
<1>10. \A u \in Threads \ {t} : next'[u] = next[u]
  OBVIOUS
<1> QED BY <1>1, <1>2, <1>3, <1>4, <1>5, <1>6, <1>7, <1>8, <1>9, <1>10, MoveStep


\* Locals of a thread on its way out.
LEMMA CleanLoc ==
  ASSUME NEW m \in Threads \X Nat, NEW h \in BOOLEAN, NEW b \in BOOLEAN,
         NEW r \in {"ok", "owed"}
  PROVE  /\ [Loc("clean", m, h) EXCEPT !.enable = b] \in LocSet
         /\ [Loc("clean", m, h) EXCEPT !.enable = b].pc = "clean"
         /\ [Loc("clean", m, h) EXCEPT !.enable = b].handler = h
         /\ [Loc("clean", m, h) EXCEPT !.enable = b, !.ret = r] \in LocSet
         /\ [Loc("clean", m, h) EXCEPT !.enable = b, !.ret = r].pc = "clean"
         /\ [Loc("clean", m, h) EXCEPT !.enable = b, !.ret = r].handler = h
<1> DEFINE u == Loc("clean", m, h)
           v == [u EXCEPT !.enable = b]
           w == [u EXCEPT !.enable = b, !.ret = r]
<1>1. "clean" \in Pcs
  BY DEF Pcs
<1>2. u \in LocSet /\ u.pc = "clean" /\ u.handler = h
  BY <1>1, LocType
<1>3. w = [v EXCEPT !.ret = r]
  OBVIOUS
<1> HIDE DEF u, w
<1>4. v \in LocSet /\ v.pc = "clean" /\ v.handler = h
  BY <1>2 DEF LocSet
<1> HIDE DEF v
<1>5. w \in LocSet /\ w.pc = "clean" /\ w.handler = h
  BY <1>3, <1>4 DEF LocSet
<1> QED BY <1>4, <1>5 DEF u, v, w

LEMMA AtMessage ==
  ASSUME Core, NEW t \in Threads, th[t].pc \in Holding
  PROVE  /\ th[t] \in LocSet /\ th[t].m \in Threads \X Nat /\ th[t].handler \in BOOLEAN
         /\ th[t].handler => t = Owner /\ th[t].m \in Listed /\ ~Holds(t)
         /\ ~th[t].handler => Holds(t)
         /\ Loc("clean", th[t].m, FALSE) \in LocSet
         /\ Loc("clean", th[t].m, FALSE).pc = "clean"
         /\ Loc("clean", th[t].m, FALSE).handler = FALSE
<1>1. th[t] \in LocSet /\ HandsAt(t)
  BY DEF Core, Types, Hands
<1>2. th[t].m \in Threads \X Nat /\ th[t].handler \in BOOLEAN
  BY <1>1 DEF LocSet
<1>3. "clean" \in Pcs
  BY DEF Pcs
<1> QED BY <1>1, <1>2, <1>3, LocType DEF HandsAt, Holds, Takes

\* What the write handler does next.
LEMMA OnLoc ==
  LET v == IF ready THEN Loc("first", NoMsg, TRUE)
           ELSE [Loc("clean", NoMsg, TRUE) EXCEPT !.enable = ~active]
  IN  v \in LocSet /\ v.pc \notin Holding
<1>1. "first" \in Pcs /\ TRUE \in BOOLEAN /\ (~active) \in BOOLEAN
  BY DEF Pcs
<1>2. Loc("first", NoMsg, TRUE) \in LocSet /\ Loc("first", NoMsg, TRUE).pc = "first"
  BY <1>1, LocType, NoMsgType
<1>3. /\ [Loc("clean", NoMsg, TRUE) EXCEPT !.enable = ~active] \in LocSet
      /\ [Loc("clean", NoMsg, TRUE) EXCEPT !.enable = ~active].pc = "clean"
  BY <1>1, CleanLoc, NoMsgType
<1> QED BY <1>2, <1>3 DEF Holding

LEMMA SentLastStep ==
  ASSUME Core, NEW t \in Threads, SentLast(t)
  PROVE  Core'
<1> DEFINE m == th[t].m
<1>1. /\ th[t].pc = "sent" /\ UNCHANGED <<script, next, left>>
      /\ ends' = [ends EXCEPT ![m] = Append(@, "sent")] /\ "sent" \in Hows
  BY DEF SentLast, End, Hows
<1>2. /\ th[t] \in LocSet /\ m \in Threads \X Nat /\ th[t].handler \in BOOLEAN
      /\ th[t].handler => t = Owner /\ m \in Listed /\ ~Holds(t)
      /\ ~th[t].handler => Holds(t)
      /\ Loc("clean", m, FALSE) \in LocSet /\ Loc("clean", m, FALSE).pc = "clean"
      /\ Loc("clean", m, FALSE).handler = FALSE
  BY <1>1, AtMessage DEF Holding
<1>3. CASE th[t].handler
  <2> DEFINE v == IF ready THEN Loc("first", NoMsg, TRUE)
                  ELSE [Loc("clean", NoMsg, TRUE) EXCEPT !.enable = ~active]
  <2>1. th' = [th EXCEPT ![t] = v] /\ messages' = Without(m) /\ fdcount' = Uncount(m)
    BY <1>3 DEF SentLast
  <2>2. v \in LocSet /\ v.pc \notin Holding
    BY OnLoc
  <2> HIDE DEF v, m
  <2> QED BY <1>1, <1>2, <1>3, <2>1, <2>2, TakeStep
<1>4. CASE ~th[t].handler
  <2> DEFINE v == Loc("clean", m, FALSE)
  <2>1. th' = [th EXCEPT ![t] = v] /\ messages' = messages /\ fdcount' = fdcount
    BY <1>4 DEF SentLast
  <2>2. v \in LocSet /\ v.pc \notin Holding /\ v.handler = FALSE
    BY <1>2 DEF Holding
  <2> HIDE DEF v
  <2> QED BY <1>1, <1>2, <1>4, <2>1, <2>2, DropStep
<1> QED BY <1>3, <1>4

LEMMA SentShareStep ==
  ASSUME Core, NEW t \in Threads, SentShare(t)
  PROVE  Core'
<1> DEFINE m == th[t].m
<1>1. /\ th[t].pc = "sent" /\ UNCHANGED <<script, next, left, ends, fdcount>>
      /\ messages' = Append(Without(m), m) /\ left[m] > 0
  BY DEF SentShare, history
<1>2. /\ th[t] \in LocSet /\ m \in Threads \X Nat /\ th[t].handler \in BOOLEAN
      /\ th[t].handler => t = Owner /\ m \in Listed /\ ~Holds(t)
      /\ ~th[t].handler => Holds(t)
  BY <1>1, AtMessage DEF Holding
<1>3. CASE th[t].handler
  <2> DEFINE v == IF ready THEN Loc("first", NoMsg, TRUE)
                  ELSE [Loc("clean", NoMsg, TRUE) EXCEPT !.enable = ~active]
  <2>1. th' = [th EXCEPT ![t] = v]
    BY <1>3 DEF SentShare
  <2>2. v \in LocSet /\ v.pc \notin Holding
    BY OnLoc
  <2> HIDE DEF v, m
  <2> QED BY <1>1, <1>2, <1>3, <2>1, <2>2, TailStep
<1>4. CASE ~th[t].handler
  <2> DEFINE v == [Loc("clean", m, FALSE) EXCEPT !.enable = TRUE]
  <2>1. th' = [th EXCEPT ![t] = v]
    BY <1>4 DEF SentShare
  <2>2. v \in LocSet /\ v.pc = "clean" /\ v.handler = FALSE
    BY <1>2, CleanLoc
  <2>3. m \notin Listed /\ m \in Msgs
    BY <1>2, <1>4, HeldFacts
  <2>4. Without(m) = messages
    BY <2>3 DEF Without
  <2>5. ~HasFd(m)
    <3>1. left[m] < Fragments(m) /\ left[m] \in Int
      BY <1>1, <2>3 DEF Core, Hands, HandsAt, Types
    <3>2. Fragments(m) # 1
      BY <1>1, <3>1
    <3> QED BY <3>2 DEF Fragments, HasFd
  <2> HIDE DEF v
  <2>6. v.pc \notin Holding
    BY <2>2 DEF Holding
  <2> QED BY <1>1, <1>2, <1>4, <2>1, <2>2, <2>4, <2>5, <2>6, PutStep
<1> QED BY <1>3, <1>4

LEMMA SentShareFailsStep ==
  ASSUME Core, NEW t \in Threads, SentShareFails(t)
  PROVE  Core'
<1> DEFINE m == th[t].m
           v == Loc("clean", m, FALSE)
<1>1. /\ th[t].pc = "sent" /\ ~th[t].handler /\ UNCHANGED <<script, messages, next, fdcount, left>>
      /\ ends' = [ends EXCEPT ![m] = Append(@, "dropped")] /\ "dropped" \in Hows
      /\ th' = [th EXCEPT ![t] = v]
  BY DEF SentShareFails, End, list, Hows
<1>2. Holds(t) /\ v \in LocSet /\ v.pc = "clean" /\ v.handler = FALSE
  BY <1>1, AtMessage DEF Holding
<1> HIDE DEF v
<1>3. v.pc \notin Holding
  BY <1>2 DEF Holding
<1> QED BY <1>1, <1>2, <1>3, DropStep

LEMMA SendFailsStep ==
  ASSUME Core, NEW t \in Threads, SendFails(t)
  PROVE  Core'
<1> DEFINE m == th[t].m
           u == [th[t] EXCEPT !.pc = "clean"]
           v == [u EXCEPT !.failed = TRUE]
<1>1. /\ th[t].pc = "send" /\ UNCHANGED <<script, messages, next, fdcount, left>>
  BY DEF SendFails, list
<1>2. /\ th[t] \in LocSet /\ m \in Threads \X Nat /\ th[t].handler \in BOOLEAN
      /\ th[t].handler => t = Owner /\ m \in Listed /\ ~Holds(t)
      /\ ~th[t].handler => Holds(t)
  BY <1>1, AtMessage DEF Holding
<1>3. th' = [th EXCEPT ![t] = v]
  <2>1. th' = [th EXCEPT ![t].pc = "clean", ![t].failed = TRUE] /\ th \in [Threads -> LocSet]
    BY DEF SendFails, Core, Types
  <2> QED BY <2>1
<1>4. v \in LocSet /\ v.pc = "clean" /\ v.handler = th[t].handler
  <2>1. u \in LocSet /\ u.pc = "clean" /\ u.handler = th[t].handler
    BY <1>2 DEF LocSet, Pcs
  <2> HIDE DEF u
  <2> QED BY <2>1 DEF LocSet
<1>5. v.pc \notin Holding
  BY <1>4 DEF Holding
<1> HIDE DEF v
<1>6. CASE th[t].handler
  <2>1. ends' = ends
    BY <1>6 DEF SendFails
  <2> QED BY <1>1, <1>2, <1>3, <1>4, <1>5, <1>6, <2>1, FreeStep
<1>7. CASE ~th[t].handler
  <2>1. \/ Kind(m) = "wake" /\ ends' = ends
        \/ ends' = [ends EXCEPT ![m] = Append(@, "back")]
        \/ ends' = [ends EXCEPT ![m] = Append(@, "dropped")]
    BY <1>7 DEF SendFails, End
  <2>2. v.handler = FALSE
    BY <1>2, <1>4, <1>7
  <2>3. "back" \in Hows /\ "dropped" \in Hows
    BY DEF Hows
  <2>4. CASE ends' = [ends EXCEPT ![m] = Append(@, "back")]
    BY <1>1, <1>2, <1>3, <1>4, <1>5, <1>7, <2>2, <2>3, <2>4, DropStep
  <2>5. CASE ends' # [ends EXCEPT ![m] = Append(@, "back")]
    BY <1>1, <1>2, <1>3, <1>4, <1>5, <1>7, <2>1, <2>2, <2>3, <2>5, DropStep
  <2> QED BY <2>4, <2>5
<1> QED BY <1>6, <1>7

LEMMA InsertTailStep ==
  ASSUME Core, NEW t \in Threads, InsertTail(t)
  PROVE  Core'
<1> DEFINE m == th[t].m
           v == [Loc("clean", m, FALSE) EXCEPT !.enable = TRUE]
<1>1. /\ th[t].pc = "insert" /\ messages' = Append(messages, m)
      /\ fdcount' = IF HasFd(m) THEN fdcount + 1 ELSE fdcount
      /\ th' = [th EXCEPT ![t] = v] /\ UNCHANGED <<script, ends, next, left>>
  BY DEF InsertTail, history
<1>2. m \in Threads \X Nat /\ Holds(t)
  <2>1. ~th[t].handler
    BY <1>1 DEF Core, Hands, HandsAt, Takes, Holding
  <2> QED BY <1>1, <2>1, AtMessage DEF Holding
<1>3. v \in LocSet /\ v.pc = "clean" /\ v.handler = FALSE
  BY <1>2, CleanLoc
<1> HIDE DEF v
<1>4. v.pc \notin Holding
  BY <1>3 DEF Holding
<1> QED BY <1>1, <1>2, <1>3, <1>4, PutStep

LEMMA InsertTailFailsStep ==
  ASSUME Core, NEW t \in Threads, InsertTailFails(t)
  PROVE  Core'
<1> DEFINE m == th[t].m
           r == IF Kind(m) = "wake" THEN "owed" ELSE "ok"
           v == IF FirstFragment(m)
                THEN [Loc("clean", m, FALSE) EXCEPT !.enable = TRUE, !.ret = r]
                ELSE Loc("clean", m, FALSE)
           how == IF FirstFragment(m) THEN "back" ELSE "cut"
<1>1. /\ th[t].pc = "insert" /\ th' = [th EXCEPT ![t] = v]
      /\ UNCHANGED <<script, messages, next, fdcount, left>>
      /\ \/ Kind(m) = "wake" /\ ends' = ends
         \/ ends' = [ends EXCEPT ![m] = Append(@, how)]
  BY DEF InsertTailFails, End, list
<1>2. m \in Threads \X Nat /\ Holds(t) /\ Loc("clean", m, FALSE) \in LocSet
      /\ Loc("clean", m, FALSE).pc = "clean" /\ Loc("clean", m, FALSE).handler = FALSE
  <2>1. ~th[t].handler
    BY <1>1 DEF Core, Hands, HandsAt, Takes, Holding
  <2> QED BY <1>1, <2>1, AtMessage DEF Holding
<1>3. r \in {"ok", "owed"} /\ how \in Hows
  BY DEF Hows
<1> HIDE DEF r
<1>4. v \in LocSet /\ v.pc = "clean" /\ v.handler = FALSE
  BY <1>2, <1>3, CleanLoc
<1> HIDE DEF v, how
<1>5. v.pc \notin Holding
  BY <1>4 DEF Holding
<1> QED BY <1>1, <1>2, <1>3, <1>4, <1>5, DropStep

LEMMA CancelStep ==
  ASSUME Core, NEW m \in Msgs, Cancel(m)
  PROVE  Core'
<1>1. /\ m \in Listed /\ messages' = Without(m) /\ fdcount' = Uncount(m)
      /\ ends' = [ends EXCEPT ![m] = Append(@, "cancelled")] /\ "cancelled" \in Hows
      /\ UNCHANGED <<script, next, left, th>> /\ th[Owner] = Idle
  BY DEF Cancel, End, Hows
<1>2. Idle \in LocSet /\ Idle.pc \notin Holding /\ ~Holds(Owner)
  BY <1>1, IdleFacts DEF Holding, Holds
<1>3. th' = [th EXCEPT ![Owner] = Idle]
  BY <1>1, PortWriteAssumption DEF Core, Types
<1> QED BY <1>1, <1>2, <1>3, TakeStep


\* A thread begins a message: it sends it inline, lists it, skips it or is
\* refused.
LEMMA SocketSendStep ==
  ASSUME Core, NEW t \in Threads, SocketSend(t)
  PROVE  Core'
<1>0. PICK x : x = <<t, next[t] + 1>>
  OBVIOUS
<1>1. /\ th[t] = Idle /\ next[t] < Len(script[t]) /\ next' = [next EXCEPT ![t] = @ + 1]
      /\ UNCHANGED <<script, left>>
  BY DEF SocketSend
<1>2. /\ next \in [Threads -> Nat] /\ next[t] \in Nat /\ Len(script[t]) \in Nat
      /\ th \in [Threads -> LocSet] /\ messages \in Seq(Msgs) /\ ends \in [Msgs -> Seq(Hows)]
      /\ Distinct(messages) /\ Listed = Members(messages) /\ Listed \subseteq Msgs
  <2>1. script[t] \in Seq(Kinds)
    BY PortWriteAssumption DEF Core, Types
  <2> QED BY <2>1, ListedMsgs DEF Core, Types, Listing, Listed, Members
<1>3. x \in Msgs /\ x[1] = t /\ x[2] = next[t] + 1 /\ x \in Threads \X Nat
  BY <1>0, <1>1, <1>2 DEF Msgs
<1>4. x \notin Listed /\ ends[x] = <<>>
  <2>1. ~Begun(x)
    BY <1>2, <1>3 DEF Begun
  <2> QED BY <1>3, <2>1 DEF Core, Listing
<1>5. /\ next' \in [Threads -> Nat] /\ next'[t] = next[t] + 1
      /\ \A u \in Threads \ {t} : next'[u] = next[u]
  BY <1>1, <1>2
<1>6. Begun(x)'
  BY <1>2, <1>3, <1>5 DEF Begun
<1>7. ASSUME NEW m \in Msgs \ {x} PROVE Begun(m)' = Begun(m)
  <2>1. m = <<m[1], m[2]>> /\ m[1] \in Threads /\ m[2] \in 1..Len(script[m[1]])
    BY MsgParts
  <2>2. CASE m[1] = t
    <3>1. m[2] # next[t] + 1 /\ m[2] \in Int
      BY <1>0, <2>1, <2>2
    <3> QED BY <1>2, <1>5, <2>2, <3>1 DEF Begun
  <2>3. CASE m[1] # t
    BY <1>5, <2>1, <2>3 DEF Begun
  <2> QED BY <2>2, <2>3
<1>8. ~Holds(t) /\ ~Takes(t) /\ th[t].pc = "idle" /\ th[t].handler = FALSE
  BY <1>1, IdleFacts DEF Holds, Takes, Holding
<1>9. x = <<t, next'[t]>>
  BY <1>0, <1>5
<1>10. CASE /\ UNCHANGED <<messages, fdcount, ends>>
            /\ th' = [th EXCEPT ![t] = Loc("send", x, FALSE)]
  <2> DEFINE v == Loc("send", x, FALSE)
  <2>1. "send" \in Pcs
    BY DEF Pcs
  <2>2. v \in LocSet /\ v.pc = "send" /\ v.m = x /\ v.handler = FALSE
    BY <1>3, <2>1, LocType
  <2> HIDE DEF v
  <2>3. /\ th' \in [Threads -> LocSet] /\ th'[t] = v
        /\ \A u \in Threads \ {t} : th'[u] = th[u]
    BY <1>2, <1>10, <2>2 DEF v
  <2>4. Listed' = Listed
    BY <1>10 DEF Listed
  <2>5. HandsAt(t)' /\ Holds(t)'
    BY <1>3, <1>4, <1>9, <2>2, <2>3, <2>4, SameMsgs, <1>1 DEF HandsAt, Holds, Takes, Holding
  <2>6. Types'
    BY <1>1, <1>2, <1>5, <1>10, <2>3, SameMsgs DEF Core, Types
  <2>7. Counted' /\ Distinct(messages)'
    BY <1>1, <1>2, <1>10, <2>4, SameMsgs DEF Core, Counted
  <2>8. Len(ends'[x]) + (IF x \in Listed' THEN 1 ELSE 0) + (IF Holds(t)' THEN 1 ELSE 0) = 1
    BY <1>4, <1>10, <2>4, <2>5
  <2> QED BY <1>1, <1>2, <1>3, <1>4, <1>5, <1>6, <1>7, <1>8, <1>10, <2>2, <2>3, <2>4, <2>5,
             <2>6, <2>7, <2>8, MoveStep
<1>11. ASSUME NEW v \in LocSet, th' = [th EXCEPT ![t] = v], v.pc \notin Holding,
              v.handler = FALSE, UNCHANGED <<messages, fdcount>>, NEW how \in Hows,
              \/ Kind(x) = "wake" /\ ends' = ends
              \/ ends' = [ends EXCEPT ![x] = Append(@, how)]
       PROVE  Core'
  <2>1. /\ th' \in [Threads -> LocSet] /\ th'[t] = v
        /\ \A u \in Threads \ {t} : th'[u] = th[u]
    BY <1>2, <1>11
  <2>2. Listed' = Listed
    BY <1>11 DEF Listed
  <2>3. HandsAt(t)' /\ ~Holds(t)'
    BY <1>11, <2>1 DEF HandsAt, Holds, Takes, Holding
  <2>4. /\ ends' \in [Msgs -> Seq(Hows)]
        /\ \A m \in Msgs \ {x} : ends'[m] = ends[m]
        /\ Kind(x) # "wake" => Len(ends'[x]) = 1
    <3>1. CASE ends' = ends /\ Kind(x) = "wake"
      BY <1>2, <3>1
    <3>2. CASE ends' = [ends EXCEPT ![x] = Append(@, how)]
      <4>1. Append(<<>>, how) \in Seq(Hows) /\ Len(Append(<<>>, how)) = 1
        BY <1>11
      <4> QED BY <1>2, <1>3, <1>4, <3>2, <4>1
    <3> QED BY <1>11, <3>1, <3>2
  <2>5. Types'
    BY <1>1, <1>2, <1>5, <1>11, <2>1, <2>4, SameMsgs DEF Core, Types
  <2>6. Counted' /\ Distinct(messages)'
    BY <1>1, <1>2, <1>11, <2>2, SameMsgs DEF Core, Counted
  <2>7. Kind(x) # "wake" => Len(ends'[x]) + (IF x \in Listed' THEN 1 ELSE 0)
                              + (IF Holds(t)' THEN 1 ELSE 0) = 1
    BY <1>4, <2>2, <2>3, <2>4
  <2> QED BY <1>1, <1>2, <1>3, <1>4, <1>5, <1>6, <1>7, <1>8, <2>1, <2>2, <2>3, <2>4, <2>5,
             <2>6, <2>7, MoveStep
<1>12. CASE /\ messages' = Append(messages, x)
            /\ fdcount' = IF HasFd(x) THEN fdcount + 1 ELSE fdcount
            /\ UNCHANGED <<ends, th>>
  <2>1. /\ messages' \in Seq(Msgs) /\ Distinct(messages)'
        /\ Members(messages') = Listed \cup {x}
    <3>1. /\ Append(messages, x) \in Seq(Msgs) /\ Distinct(Append(messages, x))
          /\ Members(Append(messages, x)) = Members(messages) \cup {x}
      BY <1>2, <1>3, <1>4, AppendMembers
    <3>2. Distinct(messages)' = Distinct(messages')
      BY DEF Distinct
    <3> QED BY <1>2, <1>12, <3>1, <3>2
  <2>2. Listed' = Listed \cup {x}
    BY <2>1 DEF Listed, Members
  <2>3. HandsAt(t)' /\ ~Holds(t)'
    BY <1>8, <1>12 DEF HandsAt, Holds, Takes, Holding
  <2>4. Types'
    BY <1>1, <1>2, <1>5, <1>12, <2>1, SameMsgs DEF Core, Types
  <2>5. Counted'
    <3>1. fdcount = Cardinality({m \in Listed : HasFd(m)})
      BY DEF Core, Counted
    <3>2. Cardinality({m \in Listed \cup {x} : HasFd(m)})
             = Cardinality({m \in Listed : HasFd(m)}) + (IF HasFd(x) THEN 1 ELSE 0)
      BY <1>2, <1>4, FdAdd
    <3>3. Cardinality({m \in Listed : HasFd(m)}) \in Nat
      BY <1>2, FdFinite
    <3>4. {m \in Listed' : HasFd(m)'} = {m \in Listed \cup {x} : HasFd(m)}
      BY <1>1, <2>2, SameMsgs
    <3>5. fdcount' = Cardinality({m \in Listed \cup {x} : HasFd(m)})
      BY <1>12, <3>1, <3>2, <3>3
    <3> QED BY <3>4, <3>5 DEF Counted
  <2>6. Len(ends'[x]) + (IF x \in Listed' THEN 1 ELSE 0) + (IF Holds(t)' THEN 1 ELSE 0) = 1
    BY <1>4, <1>12, <2>2, <2>3
  <2>7. \A m \in Msgs \ {x} : /\ m \in Listed' <=> m \in Listed
                              /\ ends'[m] = ends[m] /\ Begun(m)' = Begun(m)
    BY <1>7, <1>12, <2>2
  <2>8. /\ Listed' \subseteq Msgs
        /\ \A u \in Threads \ {t} : th'[u] = th[u] /\ next'[u] = next[u]
    BY <1>2, <1>3, <1>5, <1>12, <2>2
  <2> QED BY <1>1, <1>3, <1>4, <1>6, <1>8, <2>1, <2>3, <2>4, <2>5, <2>6, <2>7, <2>8, MoveStep
<1>13. \/ /\ UNCHANGED <<messages, fdcount, ends>>
          /\ th' = [th EXCEPT ![t] = Loc("send", x, FALSE)]
       \/ UNCHANGED <<messages, fdcount, th>> /\ ends' = [ends EXCEPT ![x] = Append(@, "skipped")]
       \/ UNCHANGED <<messages, fdcount>> /\ Refuse(t, x)
       \/ /\ messages' = Append(messages, x)
          /\ fdcount' = IF HasFd(x) THEN fdcount + 1 ELSE fdcount
          /\ UNCHANGED <<ends, th>>
  BY <1>0 DEF SocketSend, End, list
<1>14. Idle \in LocSet /\ Idle.pc \notin Holding /\ Idle.handler = FALSE
  BY IdleFacts DEF Holding
<1>15. CASE UNCHANGED <<messages, fdcount, th>> /\ ends' = [ends EXCEPT ![x] = Append(@, "skipped")]
  <2>1. th' = [th EXCEPT ![t] = Idle] /\ "skipped" \in Hows
    BY <1>1, <1>2, <1>15 DEF Hows
  <2> QED BY <1>11, <1>14, <1>15, <2>1
<1>16. CASE UNCHANGED <<messages, fdcount>> /\ Refuse(t, x)
  <2>1. CASE Kind(x) = "wake"
    <3> DEFINE u == Loc("answer", x, FALSE)
               v == [u EXCEPT !.ret = "owed"]
    <3>1. "answer" \in Pcs /\ "back" \in Hows
      BY DEF Pcs, Hows
    <3>2. u \in LocSet /\ u.pc = "answer" /\ u.handler = FALSE
      BY <1>3, <3>1, LocType
    <3>3. th' = [th EXCEPT ![t] = v] /\ ends' = ends
      BY <1>16, <2>1 DEF Refuse
    <3> HIDE DEF u
    <3>4. v \in LocSet /\ v.pc = "answer" /\ v.handler = FALSE
      BY <3>2 DEF LocSet
    <3> HIDE DEF v
    <3>5. v.pc \notin Holding
      BY <3>4 DEF Holding
    <3> QED BY <1>11, <1>16, <2>1, <3>1, <3>3, <3>4, <3>5
  <2>2. CASE Kind(x) # "wake"
    <3>1. th' = [th EXCEPT ![t] = Idle] /\ ends' = [ends EXCEPT ![x] = Append(@, "back")]
      BY <1>16, <2>2 DEF Refuse, End
    <3>2. "back" \in Hows
      BY DEF Hows
    <3> QED BY <1>11, <1>14, <1>16, <3>1, <3>2
  <2> QED BY <2>1, <2>2
<1> QED BY <1>10, <1>12, <1>13, <1>15, <1>16

\* The error handler of the owner ends whatever is in the list; its write
\* handler is not at a message.
LEMMA ErrorStep ==
  ASSUME Core, ErrorHandler(Owner)
  PROVE  Core'
<1>1. /\ th[Owner] = Idle /\ UNCHANGED <<th, left, next, script>> /\ messages' = <<>>
      /\ ends' = [m \in Msgs |-> IF m \in Listed THEN Append(ends[m], "dropped") ELSE ends[m]]
      /\ fdcount' = fdcount - Cardinality({m \in Listed : HasFd(m)})
  BY DEF ErrorHandler
<1>2. /\ messages \in Seq(Msgs) /\ ends \in [Msgs -> Seq(Hows)]
      /\ Listed \subseteq Msgs /\ Listed' = {}
      /\ \A m : Begun(m)' = Begun(m)
  BY <1>1, ListedMsgs DEF Core, Types, Listed, Begun
<1>3. \A m \in Msgs : /\ ends[m] \in Seq(Hows) /\ Append(ends[m], "dropped") \in Seq(Hows)
                      /\ Len(ends[m]) \in Nat
                      /\ Len(Append(ends[m], "dropped")) = Len(ends[m]) + 1
  <2>1. "dropped" \in Hows
    BY DEF Hows
  <2> QED BY <1>2, <2>1
<1>4. \A m \in Msgs : ends'[m] = IF m \in Listed THEN Append(ends[m], "dropped") ELSE ends[m]
  BY <1>1
<1>5. ends' \in [Msgs -> Seq(Hows)]
  BY <1>1, <1>3
<1>6. messages' \in Seq(Msgs) /\ Distinct(messages)'
  BY <1>1 DEF Distinct
<1>7. Types'
  BY <1>1, <1>5, <1>6, SameMsgs DEF Core, Types
<1>8. Hands'
  <2> SUFFICES ASSUME NEW u \in Threads PROVE HandsAt(u)'
    BY DEF Hands
  <2>1. HandsAt(u) /\ Holds(u)' = Holds(u) /\ Takes(u)' = Takes(u)
    BY <1>1 DEF Core, Hands, Holds, Takes
  <2>2. ~Takes(u)
    <3>1. Takes(u) => u = Owner
      BY <2>1 DEF HandsAt, Takes
    <3>2. ~Takes(Owner)
      BY <1>1, IdleFacts DEF Takes
    <3> QED BY <3>1, <3>2
  <2> QED BY <1>1, <1>2, <2>1, <2>2, SameMsgs DEF HandsAt
<1>9. Listing'
  BY <1>1, <1>2, <1>4, <1>6, SameMsgs DEF Core, Listing
<1>10. Placed'
  <2>1. Held' = Held
    BY <1>1 DEF Held
  <2> SUFFICES ASSUME NEW m \in Msgs, Begun(m), Kind(m) # "wake"
               PROVE  Len(ends'[m]) + 0 + (IF m \in Held THEN 1 ELSE 0) = 1
    BY <1>1, <1>2, <2>1, SameMsgs DEF Placed
  <2>2. Len(ends[m]) + (IF m \in Listed THEN 1 ELSE 0) + (IF m \in Held THEN 1 ELSE 0) = 1
    BY DEF Core, Placed
  <2>3. Len(ends'[m]) = Len(ends[m]) + (IF m \in Listed THEN 1 ELSE 0)
    <3>1. Len(ends[m]) \in Nat /\ Len(Append(ends[m], "dropped")) = Len(ends[m]) + 1
      BY <1>3
    <3>2. CASE m \in Listed
      BY <1>4, <3>1, <3>2
    <3>3. CASE m \notin Listed
      BY <1>4, <3>1, <3>3
    <3> QED BY <3>2, <3>3
  <2> DEFINE a == Len(ends[m])
             b == IF m \in Listed THEN 1 ELSE 0
             c == IF m \in Held THEN 1 ELSE 0
             d == Len(ends'[m])
  <2>4. a \in Nat /\ b \in Nat /\ c \in Nat /\ a + b + c = 1 /\ d = a + b
    BY <1>3, <2>2, <2>3
  <2> HIDE DEF a, b, c, d
  <2>5. d + 0 + c = 1
    BY <2>4
  <2> QED BY <2>5 DEF c, d
<1>11. Counted'
  <2>1. {m \in Listed' : HasFd(m)'} = {}
    BY <1>2
  <2>2. fdcount' = 0
    BY <1>1, <1>2, FdFinite DEF Core, Counted
  <2> QED BY <2>1, <2>2, FS_EmptySet DEF Counted
<1> QED BY <1>7, <1>8, <1>9, <1>10, <1>11 DEF Core

-----------------------------------------------------------------------------
(* The theorem.                                                            *)

LEMMA WriteInit == Init => WriteInv
<1> SUFFICES ASSUME Init PROVE Core
  BY DEF WriteInv
<1>1. Types
  <2>1. \A m \in Msgs : Fragments(m) \in Int
    BY DEF Fragments
  <2>2. th \in [Threads -> LocSet] /\ script \in Scripts /\ next \in [Threads -> Nat]
    BY IdleFacts DEF Init
  <2>3. messages \in Seq(Msgs) /\ ends \in [Msgs -> Seq(Hows)] /\ left \in [Msgs -> Int]
    BY <2>1 DEF Init
  <2> QED BY <2>2, <2>3 DEF Types
<1>2. Listed = {} /\ \A t \in Threads : th[t] = Idle
  BY DEF Init, Listed
<1>3. \A t \in Threads : ~Holds(t) /\ ~Takes(t) /\ th[t].pc = "idle" /\ th[t].handler = FALSE
  BY <1>2, IdleFacts DEF Holds, Takes, Holding
<1>4. Hands
  BY <1>3 DEF Hands, HandsAt
<1>5. \A m \in Msgs : ~Begun(m)
  <2> SUFFICES ASSUME NEW m \in Msgs PROVE ~Begun(m)
    OBVIOUS
  <2>1. m[1] \in Threads /\ m[2] \in 1..Len(script[m[1]])
    BY MsgParts
  <2>2. next[m[1]] = 0
    BY <2>1 DEF Init
  <2> QED BY <2>1, <2>2 DEF Begun
<1>6. Listing
  <2>1. \A m \in Msgs : ends[m] = <<>> /\ left[m] = Fragments(m) /\ Fragments(m) \in Int
    BY DEF Init, Fragments
  <2>2. Distinct(messages)
    BY DEF Init, Distinct
  <2> QED BY <1>2, <2>1, <2>2 DEF Listing
<1>7. Placed
  BY <1>5 DEF Placed
<1>8. Counted
  <2>1. {m \in Listed : HasFd(m)} = {} /\ fdcount = 0
    BY <1>2 DEF Init
  <2> QED BY <2>1, FS_EmptySet DEF Counted
<1> QED BY <1>1, <1>4, <1>6, <1>7, <1>8 DEF Core

LEMMA WriteStep == WriteInv /\ [Next]_vars => WriteInv'
<1> SUFFICES ASSUME WriteInv, [Next]_vars, ~foreign' PROVE Core'
  BY DEF WriteInv
<1>1. foreign' = foreign \/ \E t \in Threads : ErrorHandler(t)
  <2>1. ASSUME NEW t \in Threads, Inline(t) PROVE foreign' = foreign \/ ErrorHandler(t)
    BY <2>1 DEF Inline, SocketSend, Answer, Rearm, SendOk, SentLast, SentMore, SentShare,
       SentShareFails, SendFails, SendAgain, AgainInline, InsertTail, InsertTailFails, Cleanup,
       history
  <2>2. CASE Engine
    BY <2>2 DEF Engine, Poll, HandlerStart, HandlerFirst, HandlerBlock, AgainHandler,
       RearmPosted, TimerFires, history
  <2>3. CASE (\E m \in Msgs : Cancel(m)) \/ PeerReads \/ PeerDies \/ UNCHANGED vars
    BY <2>3 DEF Cancel, PeerReads, PeerDies, vars, history
  <2> QED BY <2>1, <2>2, <2>3 DEF Next
<1>2. \A t \in Threads : ErrorHandler(t) => foreign' = (foreign \/ t # Owner)
  BY DEF ErrorHandler
<1>3. Core
  BY <1>1, <1>2 DEF WriteInv
<1>4. ASSUME NEW t \in Threads, Inline(t) PROVE Core'
  <2>1. CASE Answer(t) \/ Rearm(t) \/ Cleanup(t)
    BY <1>3, <2>1, PlainSteps
  <2>2. CASE SendOk(t) \/ SentMore(t) \/ SendAgain(t) \/ AgainInline(t)
    BY <1>3, <2>2, SendSteps
  <2>3. CASE SocketSend(t)
    BY <1>3, <2>3, SocketSendStep
  <2>4. CASE SentLast(t) \/ SentShare(t) \/ SentShareFails(t)
    BY <1>3, <2>4, SentLastStep, SentShareStep, SentShareFailsStep
  <2>5. CASE SendFails(t) \/ InsertTail(t) \/ InsertTailFails(t)
    BY <1>3, <2>5, SendFailsStep, InsertTailStep, InsertTailFailsStep
  <2>6. CASE ErrorHandler(t)
    <3>1. t = Owner
      BY <1>2, <2>6
    <3> QED BY <1>3, <2>6, <3>1, ErrorStep
  <2> QED BY <1>4, <2>1, <2>2, <2>3, <2>4, <2>5, <2>6 DEF Inline
<1>5. CASE Engine
  BY <1>3, <1>5, EventSteps, HandlerSteps DEF Engine
<1>6. CASE \E m \in Msgs : Cancel(m)
  BY <1>3, <1>6, CancelStep
<1>7. CASE PeerReads \/ PeerDies
  BY <1>3, <1>7, EventSteps
<1>8. CASE UNCHANGED vars
  BY <1>3, <1>8, ApartStep DEF vars, list, history
<1> QED BY <1>4, <1>5, <1>6, <1>7, <1>8 DEF Next

\* Whatever the engines do between the critical sections of write_mutex, a
\* message that nxt_port_socket_send() took is sent, given back, cancelled,
\* skipped or completed by nxt_port_error_handler() exactly once, or it is still
\* with its sender or in port->messages, and never in both; and fd_messages is
\* the number of listed messages with descriptors, whichever of
\* nxt_port_msg_chk_insert(), nxt_port_write_handler(), nxt_port_socket_cancel()
\* and nxt_port_error_handler() changed the list; until an error handler runs
\* on an engine that does not own the port.
THEOREM MessagesAccounted == Spec => []Accounted
<1>1. WriteInv => Accounted
  BY DEF WriteInv, Core, Accounted, EndsOnce, FdCounted, Placed, Counted, Begun
<1> QED BY <1>1, WriteInit, WriteStep, PTL DEF Spec

=============================================================================
