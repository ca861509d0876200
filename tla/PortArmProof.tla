---------------------------- MODULE PortArmProof ----------------------------
(***************************************************************************)
(* A message in port->messages, or a marker that is owed, is never left to *)
(* an event that does not come, for any number of engines, messages, room  *)
(* in the socket and failures.                                             *)
(*                                                                         *)
(* Whoever finds the socket full or puts a message into the list is on its *)
(* way to nxt_port_rearm().  The write handler may take the event down     *)
(* behind such a thread, but not behind the re-arm that it posts, which    *)
(* the owner handles after the write handler.                              *)
(***************************************************************************)
EXTENDS PortWriteProof

-----------------------------------------------------------------------------
(* The message at hand.                                                    *)

ArmTypes ==
  /\ Types
  /\ announce \in Nat /\ faults \in Nat /\ unread \in 0..SockCap

\* The write handler runs on the owner; a send that failed has lost its peer;
\* an inline send holds the last message that its thread began.
GripAt(t) ==
  /\ th[t].handler => t = Owner
  /\ th[t].pc \in {"first", "block"} => th[t].handler
  /\ th[t].failed => ~alive
  /\ th[t].pc \in Holding => th[t].m \in Msgs /\ Begun(th[t].m)
  /\ Takes(t) => th[t].pc # "insert"
  /\ Holds(t) => /\ th[t].m = <<t, next[t]>> /\ th[t].m \notin Listed /\ ends[th[t].m] = <<>>
                 /\ Kind(th[t].m) # "big" =>
                      left[th[t].m] = IF th[t].pc = "sent" THEN 0 ELSE 1
Grip ==
  /\ \A t \in Threads : GripAt(t)
  /\ \A t, u \in Threads : Takes(t) /\ Holds(u) => th[u].m # th[t].m

\* A message that was cut is out of reach, so that it stays cut.
Loose(m) == m \in Listed \/ \E t \in Threads : th[t].pc \in Holding /\ th[t].m = m
Apart ==
  \A m \in Msgs : /\ Loose(m) => Begun(m) /\ ends[m] # <<"cut">>
                  /\ ~Begun(m) => ends[m] = <<>> /\ left[m] = Fragments(m)

\* Markers are owed after a failure; the handler is queued or runs.
Owing ==
  /\ faults = 0 => announce = 0 /\ \A t \in Threads : th[t].ret = "ok"
  /\ polled => ~th[Owner].handler

Base == ArmTypes /\ Grip /\ Apart /\ Owing

-----------------------------------------------------------------------------
(* Who re-arms the event.                                                  *)

Going(t) ==
  \/ th[t].pc \in {"rearm", "insert"}
  \/ th[t].pc = "clean" /\ ~th[t].failed /\ (th[t].enable \/ th[t].retry)

\* The re-arm that is posted, the timer, or a thread of another engine: the
\* write handler does not take these down.
Others == pending \/ timer \/ \E t \in Threads \ {Owner} : Going(t)

IsSet == active /\ (edge \/ (alive /\ unread = SockCap))

AtPc(p) == th[Owner].handler /\ th[Owner].pc = p
Runs == th[Owner].handler /\ th[Owner].pc \in {"first", "block", "send", "sent", "again"}
Errors == \E t \in Threads : errq[t] > 0
NoCut == \A m \in Msgs : ends[m] # <<"cut">>
Sane == ~stale /\ NoCut /\ (alive \/ faults = 0)

\* write_ready is down, or messages wait.
ReadyArmed == ~ready => IF polled \/ Runs THEN Others ELSE Others \/ Going(Owner) \/ IsSet
ListArmed ==
  messages # <<>> =>
    IF AtPc("block") THEN Others \/ Errors
                     ELSE Others \/ Going(Owner) \/ IsSet \/ polled \/ Runs \/ Errors
AgainArmed == AtPc("again") /\ error = "full" => ~active \/ IsSet
ArmInv == Sane => ReadyArmed /\ ListArmed /\ AgainArmed

MarkerInv ==
  announce > 0 /\ alive =>
    \/ pending \/ timer \/ polled \/ IsSet \/ Runs \/ AtPc("clean")
    \/ \E t \in Threads : th[t].pc = "rearm"

-----------------------------------------------------------------------------
(* Locals.                                                                 *)

LEMMA IdleFields ==
  /\ Idle \in LocSet /\ Idle.pc = "idle" /\ Idle.handler = FALSE /\ Idle.failed = FALSE
  /\ Idle.ret = "ok"
<1>1. Idle.failed = FALSE /\ Idle.ret = "ok"
  BY DEF Idle, Loc
<1> QED BY <1>1, IdleFacts

LEMMA LocStep ==
  ASSUME th \in [Threads -> LocSet], NEW t \in Threads, NEW v \in LocSet,
         th' = [th EXCEPT ![t] = v]
  PROVE  /\ th' \in [Threads -> LocSet] /\ th'[t] = v
         /\ \A u \in Threads \ {t} : th'[u] = th[u]
OBVIOUS

LEMMA PcStep ==
  ASSUME th \in [Threads -> LocSet], NEW t \in Threads, NEW p \in Pcs,
         th' = [th EXCEPT ![t].pc = p]
  PROVE  /\ th' \in [Threads -> LocSet] /\ \A u \in Threads \ {t} : th'[u] = th[u]
         /\ th'[t].pc = p /\ th'[t].m = th[t].m /\ th'[t].handler = th[t].handler
         /\ th'[t].enable = th[t].enable /\ th'[t].retry = th[t].retry
         /\ th'[t].ret = th[t].ret /\ th'[t].failed = th[t].failed
<1> DEFINE v == [th[t] EXCEPT !.pc = p]
<1>1. th[t] \in LocSet
  OBVIOUS
<1>2. /\ v \in LocSet /\ v.pc = p /\ v.m = th[t].m /\ v.handler = th[t].handler
      /\ v.enable = th[t].enable /\ v.retry = th[t].retry
      /\ v.ret = th[t].ret /\ v.failed = th[t].failed
  BY <1>1 DEF LocSet
<1>3. th' = [th EXCEPT ![t] = v]
  OBVIOUS
<1> HIDE DEF v
<1> QED BY <1>2, <1>3, LocStep

-----------------------------------------------------------------------------
(* Grip and Apart.                                                         *)

\* A step of thread t that concerns the message x and nobody else's.
LEMMA MineStep ==
  ASSUME Types, Grip, Apart, NEW t \in Threads, NEW x \in Msgs, script' = script,
         alive' => alive,
         \A u \in Threads \ {t} : th'[u] = th[u] /\ next'[u] = next[u],
         \A m \in Msgs \ {x} : /\ m \in Listed' => m \in Listed
                               /\ ends'[m] = ends[m] /\ left'[m] = left[m],
         \A m \in Msgs : Begun(m) => Begun(m)',
         \A u \in Threads \ {t} : th[u].pc \in Holding => th[u].m # x,
         th'[t].pc \in Holding => th'[t].m = x,
         GripAt(t)', Begun(x)', Loose(x)' => ends'[x] # <<"cut">>
  PROVE  Grip' /\ Apart'
<1>1. ASSUME NEW u \in Threads, u # t PROVE GripAt(u)'
  <2>1. th'[u] = th[u] /\ next'[u] = next[u] /\ GripAt(u)
    BY <1>1 DEF Grip
  <2>2. Holds(u)' = Holds(u) /\ Takes(u)' = Takes(u)
    BY <2>1 DEF Holds, Takes
  <2>3. ASSUME th[u].pc \in Holding
        PROVE  /\ th[u].m \in Msgs /\ Begun(th[u].m)'
               /\ th[u].m \notin Listed => th[u].m \notin Listed'
               /\ ends'[th[u].m] = ends[th[u].m] /\ left'[th[u].m] = left[th[u].m]
    BY <1>1, <2>1, <2>3 DEF GripAt
  <2>4. Holds(u) => th[u].pc \in Holding
    BY DEF Holds
  <2> QED BY <2>1, <2>2, <2>3, <2>4, SameMsgs DEF GripAt
<1>2. ASSUME NEW u \in Threads, NEW w \in Threads, Takes(u)', Holds(w)'
      PROVE  th'[w].m # th'[u].m
  <2>1. th'[u].pc \in Holding /\ th'[w].pc \in Holding /\ u # w
    BY <1>2 DEF Takes, Holds
  <2>2. CASE u = t
    <3>1. th'[w] = th[w] /\ th'[u].m = x
      BY <2>1, <2>2
    <3> QED BY <2>1, <2>2, <3>1
  <2>3. CASE w = t
    <3>1. th'[u] = th[u] /\ th'[w].m = x
      BY <2>1, <2>3
    <3> QED BY <2>1, <2>3, <3>1
  <2>4. CASE u # t /\ w # t
    <3>1. th'[u] = th[u] /\ th'[w] = th[w]
      BY <2>4
    <3>2. Takes(u) /\ Holds(w)
      BY <1>2, <3>1 DEF Takes, Holds
    <3> QED BY <3>1, <3>2 DEF Grip
  <2> QED BY <2>2, <2>3, <2>4
<1>3. Grip'
  BY <1>1, <1>2 DEF Grip
<1>4. ASSUME NEW m \in Msgs, m # x, Loose(m)' PROVE Loose(m)
  <2>1. CASE m \in Listed'
    BY <1>4, <2>1 DEF Loose
  <2>2. CASE \E u \in Threads : th'[u].pc \in Holding /\ th'[u].m = m
    <3>1. PICK u \in Threads : th'[u].pc \in Holding /\ th'[u].m = m
      BY <2>2
    <3>2. th'[u] = th[u]
      BY <1>4, <3>1
    <3> QED BY <3>1, <3>2 DEF Loose
  <2> QED BY <1>4, <2>1, <2>2 DEF Loose
<1>5. Apart'
  <2> SUFFICES ASSUME NEW m \in Msgs
               PROVE  /\ Loose(m)' => Begun(m)' /\ ends'[m] # <<"cut">>
                      /\ ~Begun(m)' => ends'[m] = <<>> /\ left'[m] = Fragments(m)
    BY SameMsgs DEF Apart
  <2>1. CASE m = x
    BY <2>1
  <2>2. CASE m # x
    BY <1>4, <2>2 DEF Apart
  <2> QED BY <2>1, <2>2
<1> QED BY <1>3, <1>5

\* A step of thread t, which then has no message in its hands.
LEMMA NoneStep ==
  ASSUME Types, Grip, Apart, NEW t \in Threads, alive' => alive,
         \A u \in Threads \ {t} : th'[u] = th[u],
         UNCHANGED <<script, messages, ends, next, left>>,
         th'[t].pc \notin Holding, GripAt(t)'
  PROVE  Grip' /\ Apart'
<1>1. Listed' = Listed /\ \A m : Begun(m)' = Begun(m)
  BY DEF Listed, Begun
<1>2. ASSUME NEW u \in Threads, u # t PROVE GripAt(u)'
  <2>1. th'[u] = th[u] /\ GripAt(u)
    BY <1>2 DEF Grip
  <2> QED BY <1>1, <2>1, SameMsgs DEF GripAt, Holds, Takes
<1>3. ASSUME NEW u \in Threads, NEW w \in Threads, Takes(u)', Holds(w)'
      PROVE  th'[w].m # th'[u].m
  <2>1. u # t /\ w # t
    BY <1>3 DEF Takes, Holds
  <2>2. th'[u] = th[u] /\ th'[w] = th[w]
    BY <2>1
  <2>3. Takes(u) /\ Holds(w)
    BY <1>3, <2>2 DEF Takes, Holds
  <2> QED BY <2>2, <2>3 DEF Grip
<1>4. ASSUME NEW m \in Msgs, Loose(m)' PROVE Loose(m)
  <2>1. CASE m \in Listed'
    BY <1>1, <2>1 DEF Loose
  <2>2. CASE \E u \in Threads : th'[u].pc \in Holding /\ th'[u].m = m
    <3>1. PICK u \in Threads : th'[u].pc \in Holding /\ th'[u].m = m
      BY <2>2
    <3>2. th'[u] = th[u]
      BY <3>1
    <3> QED BY <3>1, <3>2 DEF Loose
  <2> QED BY <1>4, <2>1, <2>2 DEF Loose
<1> QED BY <1>1, <1>2, <1>3, <1>4, SameMsgs DEF Grip, Apart

\* A step outside of the threads.
LEMMA OuterStep ==
  ASSUME Types, Grip, Apart, alive' => alive,
         UNCHANGED <<script, messages, ends, next, left, th>>
  PROVE  Grip' /\ Apart'
<1>1. /\ Listed' = Listed /\ \A m : Begun(m)' = Begun(m)
      /\ \A u \in Threads : Holds(u)' = Holds(u) /\ Takes(u)' = Takes(u)
      /\ \A m : Loose(m)' = Loose(m)
  BY DEF Listed, Begun, Holds, Takes, Loose
<1>2. ASSUME NEW u \in Threads PROVE GripAt(u)'
  <2>1. GripAt(u)
    BY DEF Grip
  <2> QED BY <1>1, <2>1, SameMsgs DEF GripAt
<1> QED BY <1>1, <1>2, SameMsgs DEF Grip, Apart

\* The message of a thread is no other's.
LEMMA MineAlone ==
  ASSUME Grip, NEW t \in Threads, th[t].pc \in Holding
  PROVE  \A u \in Threads \ {t} : th[u].pc \in Holding => th[u].m # th[t].m
<1> SUFFICES ASSUME NEW u \in Threads \ {t}, th[u].pc \in Holding PROVE th[u].m # th[t].m
  OBVIOUS
<1>1. GripAt(t) /\ GripAt(u)
  BY DEF Grip
<1>2. CASE Holds(t) /\ Holds(u)
  <2>1. th[t].m = <<t, next[t]>> /\ th[u].m = <<u, next[u]>>
    BY <1>1, <1>2 DEF GripAt
  <2> QED BY <2>1
<1>3. CASE Takes(t) /\ Takes(u)
  BY <1>1, <1>3 DEF GripAt, Takes
<1>4. CASE (Takes(t) /\ Holds(u)) \/ (Takes(u) /\ Holds(t))
  BY <1>4 DEF Grip
<1>5. Holds(t) \/ Takes(t)
  BY DEF Holds, Takes
<1>6. Holds(u) \/ Takes(u)
  BY DEF Holds, Takes
<1> QED BY <1>2, <1>3, <1>4, <1>5, <1>6

LEMMA NotCut ==
  ASSUME NEW s \in Seq(Hows), NEW how \in Hows, how # "cut"
  PROVE  Append(s, how) # <<"cut">>
<1>1. Append(s, how)[Len(s) + 1] = how /\ Len(Append(s, how)) = Len(s) + 1 /\ Len(s) \in Nat
  OBVIOUS
<1>2. ASSUME Append(s, how) = <<"cut">> PROVE FALSE
  <2>1. Len(s) = 0
    BY <1>1, <1>2
  <2>2. Append(s, how)[1] = how
    BY <1>1, <2>1
  <2> QED BY <1>2, <2>2
<1> QED BY <1>2

LEMMA WithoutType ==
  ASSUME NEW S, messages \in Seq(S), NEW x
  PROVE  Without(x) \in Seq(S) /\ Members(Without(x)) \subseteq Listed
<1> DEFINE s == messages
<1>1. CASE x \notin Listed
  BY <1>1 DEF Without, Listed, Members
<1>2. CASE x \in Listed
  <2> DEFINE i == CHOOSE j \in 1..Len(s) : s[j] = x
             t == [j \in 1..(Len(s) - 1) |-> IF j < i THEN s[j] ELSE s[j + 1]]
  <2>1. i \in 1..Len(s)
    BY <1>2 DEF Listed
  <2>2. Without(x) = t
    BY <1>2 DEF Without
  <2>3. Len(s) \in Nat /\ \A j \in 1..Len(s) : s[j] \in S /\ s[j] \in Listed
    BY DEF Listed
  <2> HIDE DEF i
  <2>4. t \in [1..(Len(s) - 1) -> S] /\ t \in [1..(Len(s) - 1) -> Listed] /\ Len(s) - 1 \in Nat
    BY <2>1, <2>3
  <2>5. t \in Seq(S) /\ t \in Seq(Listed)
    BY <2>4
  <2> HIDE DEF t
  <2>6. Members(t) \subseteq Listed
    BY <2>5 DEF Members
  <2> QED BY <2>2, <2>5, <2>6
<1> QED BY <1>1, <1>2


-----------------------------------------------------------------------------
(* What the actions do to the locals.                                      *)

Only(t) ==
  th' \in [Threads -> LocSet] /\ \A u \in Threads \ {t} : th'[u] = th[u]

\* Thread t goes to p with the locals it has, or with new ones.
GoesTo(t, p) ==
  /\ Only(t) /\ th'[t].pc = p /\ th'[t].m = th[t].m /\ th'[t].handler = th[t].handler
  /\ th'[t].enable = th[t].enable /\ th'[t].retry = th[t].retry
  /\ th'[t].ret = th[t].ret /\ th'[t].failed = th[t].failed
After(t, p, h) ==
  Only(t) /\ th'[t].pc = p /\ th'[t].handler = h /\ th'[t].failed = FALSE

LEMMA GoesEffects ==
  ASSUME Types, NEW t \in Threads
  PROVE  /\ Rearm(t) => GoesTo(t, "answer")
         /\ SendOk(t) => GoesTo(t, "sent")
         /\ SentMore(t) => GoesTo(t, "send")
         /\ SendAgain(t) => GoesTo(t, "again")
         /\ AgainInline(t) => GoesTo(t, "insert")
         /\ HandlerBlock => GoesTo(Owner, "clean")
         /\ Cleanup(t) => IF /\ ~th[t].failed /\ ~th[t].retry
                             /\ (th[t].enable \/ announce > 0)
                          THEN GoesTo(t, "rearm") ELSE GoesTo(t, "answer")
<1>0. th \in [Threads -> LocSet] /\ Owner \in Threads
  BY PortWriteAssumption DEF Types
<1>1. \A p \in {"answer", "sent", "send", "again", "insert", "clean", "rearm"} : p \in Pcs
  BY DEF Pcs
<1>2. ASSUME NEW u \in Threads, NEW p \in Pcs, th' = [th EXCEPT ![u].pc = p]
      PROVE  GoesTo(u, p)
  BY <1>0, <1>2, PcStep DEF GoesTo, Only
<1>3. Rearm(t) => GoesTo(t, "answer")
  BY <1>1, <1>2 DEF Rearm
<1>4. SendOk(t) => GoesTo(t, "sent")
  BY <1>1, <1>2 DEF SendOk
<1>5. SentMore(t) => GoesTo(t, "send")
  BY <1>1, <1>2 DEF SentMore
<1>6. SendAgain(t) => GoesTo(t, "again")
  BY <1>1, <1>2 DEF SendAgain
<1>7. AgainInline(t) => GoesTo(t, "insert")
  BY <1>1, <1>2 DEF AgainInline
<1>8. HandlerBlock => GoesTo(Owner, "clean")
  BY <1>0, <1>1, <1>2 DEF HandlerBlock
<1>9. Cleanup(t) => IF /\ ~th[t].failed /\ ~th[t].retry
                       /\ (th[t].enable \/ announce > 0)
                    THEN GoesTo(t, "rearm") ELSE GoesTo(t, "answer")
  <2> DEFINE c == ~th[t].failed /\ ~th[t].retry /\ (th[t].enable \/ announce > 0)
  <2>1. Cleanup(t) => th' = [th EXCEPT ![t].pc = IF c THEN "rearm" ELSE "answer"]
    BY DEF Cleanup
  <2> HIDE DEF c
  <2>2. ASSUME Cleanup(t), c PROVE GoesTo(t, "rearm")
    BY <1>1, <1>2, <2>1, <2>2
  <2>3. ASSUME Cleanup(t), ~c PROVE GoesTo(t, "answer")
    BY <1>1, <1>2, <2>1, <2>3
  <2> QED BY <2>2, <2>3 DEF c
<1> QED BY <1>3, <1>4, <1>5, <1>6, <1>7, <1>8, <1>9

LEMMA NewLoc ==
  ASSUME Types, NEW t \in Threads, NEW p \in Pcs, NEW m \in Threads \X Nat, NEW h \in BOOLEAN,
         th' = [th EXCEPT ![t] = Loc(p, m, h)]
  PROVE  /\ After(t, p, h) /\ th'[t].m = m /\ th'[t].ret = "ok"
<1> DEFINE v == Loc(p, m, h)
<1>1. v \in LocSet /\ v.pc = p /\ v.m = m /\ v.handler = h /\ v.ret = "ok" /\ v.failed = FALSE
  <2>1. v.ret = "ok" /\ v.failed = FALSE
    BY DEF Loc
  <2> QED BY <2>1, LocType
<1>2. th \in [Threads -> LocSet] /\ th' = [th EXCEPT ![t] = v]
  BY DEF Types
<1> HIDE DEF v
<1>3. /\ th' \in [Threads -> LocSet] /\ th'[t] = v
      /\ \A u \in Threads \ {t} : th'[u] = th[u]
  BY <1>1, <1>2, LocStep
<1> QED BY <1>1, <1>3 DEF After, Only

\* Locals on the way out: enable and the answer.
LEMMA OutLoc ==
  ASSUME Types, NEW t \in Threads, NEW m \in Threads \X Nat, NEW h \in BOOLEAN,
         NEW b \in BOOLEAN, NEW r \in {"ok", "owed"},
         \/ /\ th' = [th EXCEPT ![t] = [Loc("clean", m, h) EXCEPT !.enable = b]]
            /\ r = "ok"
         \/ th' = [th EXCEPT ![t] = [Loc("clean", m, h) EXCEPT !.enable = b, !.ret = r]]
  PROVE  After(t, "clean", h) /\ th'[t].ret = r /\ th'[t].enable = b
<1> DEFINE u == Loc("clean", m, h)
           v == [u EXCEPT !.enable = b]
           w == [u EXCEPT !.enable = b, !.ret = r]
<1>0. th \in [Threads -> LocSet] /\ "clean" \in Pcs
  BY DEF Types, Pcs
<1>1. (th' = [th EXCEPT ![t] = v] /\ r = "ok") \/ th' = [th EXCEPT ![t] = w]
  OBVIOUS
<1>2. u \in LocSet /\ u.pc = "clean" /\ u.handler = h /\ u.failed = FALSE /\ u.ret = "ok"
  <2>1. u.failed = FALSE /\ u.ret = "ok"
    BY DEF Loc
  <2> QED BY <1>0, <2>1, LocType
<1>3. w = [v EXCEPT !.ret = r]
  OBVIOUS
<1> HIDE DEF u, w
<1>4. /\ v \in LocSet /\ v.pc = "clean" /\ v.handler = h /\ v.enable = b
      /\ v.failed = FALSE /\ v.ret = "ok"
  BY <1>2 DEF LocSet
<1> HIDE DEF v
<1>5. /\ w \in LocSet /\ w.pc = "clean" /\ w.handler = h /\ w.enable = b
      /\ w.failed = FALSE /\ w.ret = r
  BY <1>3, <1>4 DEF LocSet
<1>6. CASE th' = [th EXCEPT ![t] = v] /\ r = "ok"
  <2>1. /\ th' \in [Threads -> LocSet] /\ th'[t] = v
        /\ \A x \in Threads \ {t} : th'[x] = th[x]
    BY <1>0, <1>4, <1>6, LocStep
  <2> QED BY <1>4, <1>6, <2>1 DEF After, Only
<1>7. CASE th' = [th EXCEPT ![t] = w]
  <2>1. /\ th' \in [Threads -> LocSet] /\ th'[t] = w
        /\ \A x \in Threads \ {t} : th'[x] = th[x]
    BY <1>0, <1>5, <1>7, LocStep
  <2> QED BY <1>5, <2>1 DEF After, Only
<1> QED BY <1>1, <1>6, <1>7

LEMMA ToIdle ==
  ASSUME Types, NEW t \in Threads, th' = [th EXCEPT ![t] = Idle]
  PROVE  After(t, "idle", FALSE) /\ th'[t].ret = "ok"
<1>1. "idle" \in Pcs /\ FALSE \in BOOLEAN
  BY DEF Pcs
<1> QED BY <1>1, NewLoc, NoMsgType DEF Idle

LEMMA Message ==
  ASSUME Types, NEW t \in Threads
  PROVE  th[t] \in LocSet /\ th[t].m \in Threads \X Nat /\ th[t].handler \in BOOLEAN
<1>1. th[t] \in LocSet
  BY DEF Types
<1> QED BY <1>1 DEF LocSet

LEMMA AnswerEffect ==
  ASSUME Types, NEW t \in Threads, Answer(t)
  PROVE  /\ th'[t].ret = "ok"
         /\ IF th[t].ret = "owed" /\ ~th[t].failed THEN After(t, "rearm", FALSE)
                                                   ELSE After(t, "idle", FALSE)
<1> DEFINE c == th[t].ret = "owed" /\ ~th[t].failed
<1>1. th' = [th EXCEPT ![t] = IF c THEN Loc("rearm", th[t].m, FALSE) ELSE Idle]
  BY DEF Answer
<1>2. "rearm" \in Pcs /\ FALSE \in BOOLEAN /\ th[t].m \in Threads \X Nat
  BY Message DEF Pcs
<1> HIDE DEF c
<1>3. CASE c
  <2>1. th' = [th EXCEPT ![t] = Loc("rearm", th[t].m, FALSE)]
    BY <1>1, <1>3
  <2>2. After(t, "rearm", FALSE) /\ th'[t].ret = "ok"
    BY <1>2, <2>1, NewLoc
  <2> QED BY <1>3, <2>2 DEF c
<1>4. CASE ~c
  <2>1. th' = [th EXCEPT ![t] = Idle]
    BY <1>1, <1>4
  <2> QED BY <1>4, <2>1, ToIdle DEF c
<1> QED BY <1>3, <1>4

\* The write handler goes on, or leaves.
LEMMA HandlerEffects ==
  ASSUME Types
  PROVE  /\ HandlerStart => After(Owner, "first", TRUE) /\ th'[Owner].ret = "ok"
         /\ HandlerFirst =>
              /\ th'[Owner].ret = "ok"
              /\ IF messages = <<>> THEN After(Owner, "block", TRUE)
                                    ELSE /\ After(Owner, "send", TRUE)
                                         /\ th'[Owner].m = Head(messages)
                                         /\ Head(messages) \in Listed
         /\ AgainHandler =>
              /\ After(Owner, "clean", TRUE) /\ th'[Owner].ret = "ok"
              /\ th'[Owner].retry = (error # "full") /\ th'[Owner].enable = ~active
<1>0. Owner \in Threads /\ th \in [Threads -> LocSet] /\ TRUE \in BOOLEAN
  BY PortWriteAssumption DEF Types
<1>1. ASSUME HandlerStart PROVE After(Owner, "first", TRUE) /\ th'[Owner].ret = "ok"
  <2>1. "first" \in Pcs /\ th' = [th EXCEPT ![Owner] = Loc("first", NoMsg, TRUE)]
    BY <1>1 DEF Pcs, HandlerStart
  <2> QED BY <1>0, <2>1, NoMsgType, NewLoc
<1>2. ASSUME HandlerFirst
      PROVE  /\ th'[Owner].ret = "ok"
             /\ IF messages = <<>> THEN After(Owner, "block", TRUE)
                                   ELSE /\ After(Owner, "send", TRUE)
                                        /\ th'[Owner].m = Head(messages)
                                        /\ Head(messages) \in Listed
  <2>1. CASE messages = <<>>
    <3>1. "block" \in Pcs /\ th' = [th EXCEPT ![Owner] = Loc("block", NoMsg, TRUE)]
      BY <1>2, <2>1 DEF Pcs, HandlerFirst
    <3>2. After(Owner, "block", TRUE) /\ th'[Owner].ret = "ok"
      BY <1>0, <3>1, NoMsgType, NewLoc
    <3> QED BY <2>1, <3>2
  <2>2. CASE messages # <<>>
    <3> DEFINE h == Head(messages)
    <3>1. h \in Listed /\ h \in Msgs
      <4>1. messages \in Seq(Msgs) /\ Len(messages) \in Nat /\ Len(messages) # 0
        BY <2>2 DEF Types
      <4>2. h = messages[1] /\ 1 \in 1..Len(messages)
        BY <4>1
      <4> QED BY <4>1, <4>2 DEF Listed
    <3>2. "send" \in Pcs /\ h \in Threads \X Nat
      BY <3>1, MsgType DEF Pcs
    <3>3. th' = [th EXCEPT ![Owner] = Loc("send", h, TRUE)]
      BY <1>2, <2>2 DEF HandlerFirst
    <3> HIDE DEF h
    <3>4. After(Owner, "send", TRUE) /\ th'[Owner].ret = "ok" /\ th'[Owner].m = h
      BY <1>0, <3>2, <3>3, NewLoc
    <3> QED BY <2>2, <3>1, <3>4 DEF h
  <2> QED BY <2>1, <2>2
<1>3. ASSUME AgainHandler
      PROVE  /\ After(Owner, "clean", TRUE) /\ th'[Owner].ret = "ok"
             /\ th'[Owner].retry = (error # "full") /\ th'[Owner].enable = ~active
  <2> DEFINE u == Loc("clean", NoMsg, TRUE)
             a == (error # "full")
             b == ~active
             w == [u EXCEPT !.retry = a]
             v == [u EXCEPT !.retry = a, !.enable = b]
  <2>1. th' = [th EXCEPT ![Owner] = v] /\ v = [w EXCEPT !.enable = b]
    BY <1>3 DEF AgainHandler
  <2>2. a \in BOOLEAN /\ b \in BOOLEAN /\ "clean" \in Pcs
    BY DEF Pcs
  <2>3. u \in LocSet /\ u.pc = "clean" /\ u.handler = TRUE /\ u.failed = FALSE /\ u.ret = "ok"
    <3>1. u.failed = FALSE /\ u.ret = "ok"
      BY DEF Loc
    <3> QED BY <2>2, <3>1, LocType, NoMsgType
  <2> HIDE DEF u, v, a, b
  <2>4. /\ w \in LocSet /\ w.pc = "clean" /\ w.handler = TRUE /\ w.failed = FALSE
        /\ w.ret = "ok" /\ w.retry = a
    BY <2>2, <2>3 DEF LocSet
  <2> HIDE DEF w
  <2>5. /\ v \in LocSet /\ v.pc = "clean" /\ v.handler = TRUE /\ v.failed = FALSE
        /\ v.ret = "ok" /\ v.retry = a /\ v.enable = b
    BY <2>1, <2>2, <2>4 DEF LocSet
  <2>6. /\ th' \in [Threads -> LocSet] /\ th'[Owner] = v
        /\ \A x \in Threads \ {Owner} : th'[x] = th[x]
    BY <1>0, <2>1, <2>5, LocStep
  <2> QED BY <2>5, <2>6 DEF After, Only, a, b
<1> QED BY <1>1, <1>2, <1>3

\* A send ends.
LEMMA OutEffects ==
  ASSUME Types, NEW t \in Threads
  PROVE  /\ SentLast(t) \/ SentShare(t) =>
              /\ th'[t].ret = "ok"
              /\ IF th[t].handler /\ ready THEN After(t, "first", TRUE)
                                           ELSE After(t, "clean", th[t].handler)
         /\ SentShare(t) /\ ~th[t].handler => th'[t].enable = TRUE
         /\ SentShareFails(t) => After(t, "clean", FALSE) /\ th'[t].ret = "ok"
         /\ InsertTail(t) => After(t, "clean", FALSE) /\ th'[t].ret = "ok" /\ th'[t].enable = TRUE
         /\ InsertTailFails(t) =>
              /\ After(t, "clean", FALSE)
              /\ th'[t].ret = "owed" => Kind(th[t].m) = "wake"
              /\ FirstFragment(th[t].m) => th'[t].enable = TRUE
<1> DEFINE m == th[t].m
<1>0. /\ m \in Threads \X Nat /\ th[t].handler \in BOOLEAN /\ th \in [Threads -> LocSet]
      /\ TRUE \in BOOLEAN /\ FALSE \in BOOLEAN /\ (~active) \in BOOLEAN
      /\ "clean" \in Pcs /\ "first" \in Pcs /\ "ok" \in {"ok", "owed"}
  BY Message DEF Types, Pcs
<1>2. ASSUME SentLast(t) \/ SentShare(t)
      PROVE  /\ th'[t].ret = "ok"
             /\ IF th[t].handler /\ ready THEN After(t, "first", TRUE)
                                          ELSE After(t, "clean", th[t].handler)
             /\ SentShare(t) /\ ~th[t].handler => th'[t].enable = TRUE
  <2>1. CASE th[t].handler /\ ready
    <3>1. th' = [th EXCEPT ![t] = Loc("first", NoMsg, TRUE)]
      BY <1>2, <2>1 DEF SentLast, SentShare
    <3>2. After(t, "first", TRUE) /\ th'[t].ret = "ok"
      BY <1>0, <3>1, NewLoc, NoMsgType
    <3> QED BY <2>1, <3>2
  <2>2. CASE th[t].handler /\ ~ready
    <3>1. th' = [th EXCEPT ![t] = [Loc("clean", NoMsg, TRUE) EXCEPT !.enable = ~active]]
      BY <1>2, <2>2 DEF SentLast, SentShare
    <3>2. After(t, "clean", TRUE) /\ th'[t].ret = "ok"
      BY <1>0, OutLoc, <3>1, NoMsgType
    <3>3. th[t].handler = TRUE
      BY <1>0, <2>2
    <3> QED BY <2>2, <3>2, <3>3
  <2>3. CASE ~th[t].handler
    <3>0. th[t].handler = FALSE
      BY <1>0, <2>3
    <3>1. CASE SentLast(t) /\ ~SentShare(t)
      <4>1. th' = [th EXCEPT ![t] = Loc("clean", m, FALSE)]
        BY <2>3, <3>1 DEF SentLast
      <4>2. After(t, "clean", FALSE) /\ th'[t].ret = "ok"
        BY <1>0, <4>1, NewLoc
      <4> QED BY <3>0, <3>1, <4>2
    <3>2. CASE SentShare(t)
      <4>1. th' = [th EXCEPT ![t] = [Loc("clean", m, FALSE) EXCEPT !.enable = TRUE]]
        BY <2>3, <3>2 DEF SentShare
      <4>2. After(t, "clean", FALSE) /\ th'[t].ret = "ok" /\ th'[t].enable = TRUE
        BY <1>0, OutLoc, <4>1
      <4> QED BY <3>0, <4>2
    <3> QED BY <1>2, <3>1, <3>2
  <2> QED BY <2>1, <2>2, <2>3
<1>3. ASSUME SentShareFails(t) PROVE After(t, "clean", FALSE) /\ th'[t].ret = "ok"
  <2>1. th' = [th EXCEPT ![t] = Loc("clean", m, FALSE)]
    BY <1>3 DEF SentShareFails
  <2> QED BY <1>0, <2>1, NewLoc
<1>4. ASSUME InsertTail(t)
      PROVE  After(t, "clean", FALSE) /\ th'[t].ret = "ok" /\ th'[t].enable = TRUE
  <2>1. th' = [th EXCEPT ![t] = [Loc("clean", m, FALSE) EXCEPT !.enable = TRUE]]
    BY <1>4 DEF InsertTail
  <2> QED BY <1>0, OutLoc, <2>1
<1>5. ASSUME InsertTailFails(t)
      PROVE  /\ After(t, "clean", FALSE)
             /\ th'[t].ret = "owed" => Kind(th[t].m) = "wake"
             /\ FirstFragment(th[t].m) => th'[t].enable = TRUE
  <2> DEFINE r == IF Kind(m) = "wake" THEN "owed" ELSE "ok"
  <2>0. r \in {"ok", "owed"} /\ (r = "owed" => Kind(m) = "wake")
    OBVIOUS
  <2>1. CASE FirstFragment(m)
    <3>1. th' = [th EXCEPT ![t] = [Loc("clean", m, FALSE) EXCEPT !.enable = TRUE, !.ret = r]]
      BY <1>5, <2>1 DEF InsertTailFails
    <3> HIDE DEF r
    <3>2. After(t, "clean", FALSE) /\ th'[t].ret = r /\ th'[t].enable = TRUE
      BY <1>0, OutLoc, <2>0, <3>1
    <3> QED BY <2>0, <3>2
  <2>2. CASE ~FirstFragment(m)
    <3>1. th' = [th EXCEPT ![t] = Loc("clean", m, FALSE)]
      BY <1>5, <2>2 DEF InsertTailFails
    <3>2. After(t, "clean", FALSE) /\ th'[t].ret = "ok"
      BY <1>0, <3>1, NewLoc
    <3> QED BY <2>2, <3>2
  <2> QED BY <2>1, <2>2
<1> QED BY <1>2, <1>3, <1>4, <1>5

LEMMA SendFailsEffect ==
  ASSUME Types, NEW t \in Threads, SendFails(t)
  PROVE  /\ Only(t) /\ th'[t].pc = "clean" /\ th'[t].handler = th[t].handler
         /\ th'[t].ret = th[t].ret /\ th'[t].failed = TRUE
<1> DEFINE u == [th[t] EXCEPT !.pc = "clean"]
           v == [u EXCEPT !.failed = TRUE]
<1>1. th[t] \in LocSet /\ th \in [Threads -> LocSet]
  BY DEF Types
<1>2. th' = [th EXCEPT ![t] = v]
  <2>1. th' = [th EXCEPT ![t].pc = "clean", ![t].failed = TRUE]
    BY DEF SendFails
  <2> QED BY <1>1, <2>1
<1>3. u \in LocSet /\ u.pc = "clean" /\ u.handler = th[t].handler /\ u.ret = th[t].ret
  BY <1>1 DEF LocSet, Pcs
<1> HIDE DEF u
<1>4. /\ v \in LocSet /\ v.pc = "clean" /\ v.handler = th[t].handler /\ v.ret = th[t].ret
      /\ v.failed = TRUE
  BY <1>3 DEF LocSet
<1> HIDE DEF v
<1>5. /\ th' \in [Threads -> LocSet] /\ th'[t] = v
      /\ \A w \in Threads \ {t} : th'[w] = th[w]
  BY <1>1, <1>2, <1>4, LocStep
<1> QED BY <1>4, <1>5 DEF Only


-----------------------------------------------------------------------------
(* Every step keeps Base.                                                  *)

LEMMA OwingStep ==
  ASSUME Owing, NEW t \in Threads, Only(t),
         faults' = 0 => faults = 0 /\ announce' = 0 /\ th'[t].ret = "ok",
         polled' => ~th'[Owner].handler
  PROVE  Owing'
BY DEF Owing, Only

LEMMA RearmTypes ==
  ASSUME ArmTypes, Owing, NEW a, RearmNow(a)
  PROVE  /\ announce' \in Nat /\ faults' \in Nat /\ unread' \in 0..SockCap /\ alive' = alive
         /\ faults' = 0 => faults = 0 /\ announce' = 0
<1>1. announce \in Nat /\ faults \in Nat /\ unread \in 0..SockCap /\ SockCap \in Nat
  BY PortWriteAssumption DEF ArmTypes
<1>2. faults = 0 => announce = 0
  BY DEF Owing
<1> QED BY <1>1, <1>2 DEF RearmNow, AnnounceSent, AnnounceFull, AnnounceNothing,
           AnnounceNoMem, AnnounceFails, socket

LEMMA BaseOuter ==
  ASSUME Base, Poll \/ RearmPosted \/ TimerFires \/ PeerReads \/ PeerDies \/ UNCHANGED vars
  PROVE  Base'
<1>0. ArmTypes /\ Types /\ Grip /\ Apart /\ Owing /\ Owner \in Threads
  BY PortWriteAssumption DEF Base, ArmTypes
<1>1. UNCHANGED <<script, messages, ends, next, left, th>>
  BY DEF RearmPosted, TimerFires, Poll, PeerReads, PeerDies, list, history, vars
<1>2. /\ announce' \in Nat /\ faults' \in Nat /\ unread' \in 0..SockCap /\ (alive' => alive)
      /\ faults' = 0 => faults = 0 /\ announce' = 0
  <2>1. CASE RearmPosted \/ TimerFires
    BY <1>0, <2>1, RearmTypes DEF RearmPosted, TimerFires
  <2>2. CASE Poll \/ PeerReads \/ PeerDies \/ UNCHANGED vars
    <3>1. announce' = announce /\ faults' = faults
      BY <2>2 DEF Poll, PeerReads, PeerDies, vars
    <3>2. unread' \in 0..SockCap /\ (alive' => alive)
      <4>1. unread \in 0..SockCap /\ SockCap \in Nat
        BY <1>0, PortWriteAssumption DEF ArmTypes
      <4>2. CASE Poll \/ UNCHANGED vars
        BY <4>1, <4>2 DEF Poll, vars, socket
      <4>3. CASE PeerReads
        BY <4>1, <4>3 DEF PeerReads
      <4>4. CASE PeerDies
        BY <4>1, <4>4 DEF PeerDies
      <4> QED BY <2>2, <4>2, <4>3, <4>4
    <3> QED BY <1>0, <3>1, <3>2 DEF ArmTypes, Owing
  <2> QED BY <2>1, <2>2
<1>3. ArmTypes'
  BY <1>0, <1>1, <1>2, SameMsgs DEF ArmTypes, Types
<1>4. Grip' /\ Apart'
  BY <1>0, <1>1, <1>2, OuterStep
<1>5. polled' => ~th[Owner].handler
  <2>1. Poll => th[Owner] = Idle
    BY DEF Poll, QueuesEmpty
  <2>2. ~Poll => polled' = polled
    BY DEF RearmPosted, TimerFires, PeerReads, PeerDies, vars, event
  <2> QED BY <1>0, <2>1, <2>2, IdleFields DEF Owing
<1>6. Owing'
  BY <1>0, <1>1, <1>2, <1>5 DEF Owing
<1> QED BY <1>3, <1>4, <1>6 DEF Base

\* Thread t has no message after the step.
LEMMA BaseNone ==
  ASSUME Base, NEW t \in Threads, Only(t), alive' => alive,
         UNCHANGED <<script, messages, ends, next, left>>,
         announce' \in Nat, faults' \in Nat, unread' \in 0..SockCap,
         faults' = 0 => faults = 0 /\ announce' = 0 /\ th'[t].ret = "ok",
         polled' => ~th'[Owner].handler,
         th'[t].pc \notin Holding, th'[t].handler => t = Owner,
         th'[t].pc \in {"first", "block"} => th'[t].handler,
         th'[t].failed => ~alive'
  PROVE  Base'
<1>0. ArmTypes /\ Types /\ Grip /\ Apart /\ Owing
  BY DEF Base, ArmTypes
<1>1. GripAt(t)'
  BY DEF GripAt, Holds, Takes
<1>2. ArmTypes'
  BY <1>0, SameMsgs DEF ArmTypes, Types, Only
<1>3. Grip' /\ Apart'
  BY <1>0, <1>1, NoneStep DEF Only
<1>4. Owing'
  BY <1>0, OwingStep
<1> QED BY <1>2, <1>3, <1>4 DEF Base

LEMMA BasePlain ==
  ASSUME Base, NEW t \in Threads, Rearm(t) \/ Answer(t) \/ Cleanup(t)
  PROVE  Base'
<1>0. ArmTypes /\ Types /\ Grip /\ Apart /\ Owing /\ GripAt(t)
  BY DEF Base, ArmTypes, Grip
<1>1. UNCHANGED <<script, messages, ends, next, left>>
  BY DEF Rearm, Answer, Cleanup, list, history
<1>2. /\ announce \in Nat /\ faults \in Nat /\ unread \in 0..SockCap
      /\ (faults = 0 => announce = 0 /\ th[t].ret = "ok")
      /\ polled => ~th[Owner].handler
  BY <1>0 DEF ArmTypes, Owing
<1>3. CASE Rearm(t)
  <2>1. GoesTo(t, "answer")
    BY <1>0, <1>3, GoesEffects
  <2>2. Only(t) /\ "answer" \notin Holding
    BY <2>1 DEF GoesTo, Holding
  <2>3. /\ announce' \in Nat /\ faults' \in Nat /\ unread' \in 0..SockCap /\ alive' = alive
        /\ faults' = 0 => faults = 0 /\ announce' = 0
    <3>1. CASE t = Owner
      BY <1>0, <1>3, <3>1, RearmTypes DEF Rearm
    <3>2. CASE t # Owner
      BY <1>2, <1>3, <3>2 DEF Rearm, socket
    <3> QED BY <3>1, <3>2
  <2>4. polled' = polled /\ th'[Owner].handler = th[Owner].handler
    BY <1>3, <2>1, PortWriteAssumption DEF Rearm, GoesTo, Only
  <2> QED BY <1>0, <1>1, <1>2, <2>1, <2>2, <2>3, <2>4, BaseNone DEF GoesTo, GripAt
<1>4. CASE Cleanup(t)
  <2>1. GoesTo(t, "rearm") \/ GoesTo(t, "answer")
    BY <1>0, <1>4, GoesEffects
  <2>2. Only(t) /\ th'[t].pc \notin Holding /\ th'[t].pc \notin {"first", "block"}
    BY <2>1 DEF GoesTo, Holding
  <2>3. announce' = announce /\ faults' = faults /\ unread' = unread /\ alive' = alive
    BY <1>4 DEF Cleanup, socket
  <2>4. polled' = polled /\ th'[Owner].handler = th[Owner].handler
    BY <1>4, <2>1, PortWriteAssumption DEF Cleanup, GoesTo, Only
  <2>5. th'[t].handler = th[t].handler /\ th'[t].failed = th[t].failed /\ th'[t].ret = th[t].ret
    BY <2>1 DEF GoesTo
  <2> QED BY <1>0, <1>1, <1>2, <2>2, <2>3, <2>4, <2>5, BaseNone DEF GripAt
<1>5. CASE Answer(t)
  <2>1. /\ th'[t].ret = "ok"
        /\ After(t, "rearm", FALSE) \/ After(t, "idle", FALSE)
    BY <1>0, <1>5, AnswerEffect
  <2>2. /\ Only(t) /\ th'[t].pc \notin Holding /\ th'[t].pc \notin {"first", "block"}
        /\ ~th'[t].handler /\ ~th'[t].failed
    BY <2>1 DEF After, Holding
  <2>3. faults' = faults /\ unread' = unread /\ alive' = alive /\ polled' = polled
    BY <1>5 DEF Answer, socket, event
  <2>4. announce' \in Nat /\ (faults = 0 => announce' = 0)
    BY <1>2, <1>5 DEF Answer
  <2>5. th'[Owner].handler => th[Owner].handler
    BY <2>2, PortWriteAssumption DEF Only
  <2> QED BY <1>0, <1>1, <1>2, <2>1, <2>2, <2>3, <2>4, <2>5, BaseNone
<1> QED BY <1>3, <1>4, <1>5

LEMMA BaseHandler ==
  ASSUME Base, \/ HandlerStart \/ HandlerBlock \/ AgainHandler
               \/ HandlerFirst /\ messages = <<>>
  PROVE  Base'
<1>0. ArmTypes /\ Types /\ Grip /\ Apart /\ Owing /\ Owner \in Threads /\ GripAt(Owner)
  BY PortWriteAssumption DEF Base, ArmTypes, Grip
<1>1. /\ UNCHANGED <<script, messages, ends, next, left>>
      /\ announce' = announce /\ faults' = faults /\ unread' = unread /\ alive' = alive
  BY DEF HandlerStart, HandlerBlock, AgainHandler, HandlerFirst, list, history, socket
<1>2. /\ announce \in Nat /\ faults \in Nat /\ unread \in 0..SockCap
      /\ (faults = 0 => announce = 0 /\ th[Owner].ret = "ok")
      /\ polled => ~th[Owner].handler
  BY <1>0 DEF ArmTypes, Owing
<1>3. CASE HandlerBlock
  <2>1. GoesTo(Owner, "clean") /\ polled' = polled
    BY <1>0, <1>3, GoesEffects DEF HandlerBlock
  <2>2. "clean" \notin Holding
    BY DEF Holding
  <2> QED BY <1>0, <1>1, <1>2, <2>1, <2>2, BaseNone DEF GoesTo, GripAt
<1>4. CASE HandlerStart
  <2>1. After(Owner, "first", TRUE) /\ th'[Owner].ret = "ok" /\ polled' = FALSE
    BY <1>0, <1>4, HandlerEffects DEF HandlerStart
  <2>2. "first" \notin Holding
    BY DEF Holding
  <2> QED BY <1>0, <1>1, <1>2, <2>1, <2>2, BaseNone DEF After
<1>5. CASE AgainHandler
  <2>1. /\ After(Owner, "clean", TRUE) /\ th'[Owner].ret = "ok" /\ polled' = polled
        /\ th[Owner].handler
    BY <1>0, <1>5, HandlerEffects DEF AgainHandler, event
  <2>2. "clean" \notin Holding
    BY DEF Holding
  <2> QED BY <1>0, <1>1, <1>2, <2>1, <2>2, BaseNone DEF After
<1>6. CASE HandlerFirst /\ messages = <<>>
  <2>1. /\ After(Owner, "block", TRUE) /\ th'[Owner].ret = "ok" /\ polled' = polled
        /\ th[Owner].pc = "first"
    BY <1>0, <1>6, HandlerEffects DEF HandlerFirst, event
  <2>2. "block" \notin Holding /\ th[Owner].handler
    BY <1>0, <2>1 DEF Holding, GripAt
  <2> QED BY <1>0, <1>1, <1>2, <2>1, <2>2, BaseNone DEF After
<1> QED BY <1>3, <1>4, <1>5, <1>6


\* A step of thread t with the message x.
LEMMA BaseMine ==
  ASSUME Base, NEW t \in Threads, NEW x \in Msgs, Only(t),
         UNCHANGED <<script, alive, next, announce, polled>>,
         messages' \in Seq(Msgs), \A m \in Listed' : m \in Listed \/ m = x,
         ends' \in [Msgs -> Seq(Hows)], \A m \in Msgs \ {x} : ends'[m] = ends[m],
         left' \in [Msgs -> Int], \A m \in Msgs \ {x} : left'[m] = left[m],
         faults' \in Nat, unread' \in 0..SockCap,
         faults' = 0 => faults = 0 /\ th'[t].ret = "ok",
         th'[Owner].handler => th[Owner].handler,
         Begun(x), \A u \in Threads \ {t} : th[u].pc \in Holding => th[u].m # x,
         th'[t].pc \in Holding => th'[t].m = x,
         GripAt(t)', Loose(x)' => ends'[x] # <<"cut">>
  PROVE  Base'
<1>0. ArmTypes /\ Types /\ Grip /\ Apart /\ Owing
  BY DEF Base, ArmTypes
<1>1. ArmTypes'
  BY <1>0, SameMsgs DEF ArmTypes, Types, Only
<1>2. \A m : Begun(m)' = Begun(m)
  BY DEF Begun
<1>3. Grip' /\ Apart'
  <2>1. \A u \in Threads \ {t} : th'[u] = th[u] /\ next'[u] = next[u]
    BY DEF Only
  <2>2. \A m \in Msgs \ {x} : /\ m \in Listed' => m \in Listed
                              /\ ends'[m] = ends[m] /\ left'[m] = left[m]
    OBVIOUS
  <2> QED BY <1>0, <1>2, <2>1, <2>2, MineStep
<1>4. Owing'
  BY <1>0, OwingStep DEF Owing
<1> QED BY <1>1, <1>3, <1>4 DEF Base

LEMMA AtHand ==
  ASSUME Base, NEW t \in Threads, th[t].pc \in Holding
  PROVE  LET x == th[t].m
         IN /\ x \in Msgs /\ Begun(x) /\ ends[x] # <<"cut">> /\ ends[x] \in Seq(Hows)
            /\ \A u \in Threads \ {t} : th[u].pc \in Holding => th[u].m # x
            /\ left[x] \in Int
<1> DEFINE x == th[t].m
<1>1. x \in Msgs /\ Begun(x)
  BY DEF Base, Grip, GripAt
<1>2. Loose(x)
  BY DEF Loose
<1>3. ends[x] # <<"cut">> /\ ends[x] \in Seq(Hows) /\ left[x] \in Int
  BY <1>1, <1>2 DEF Base, Apart, ArmTypes, Types
<1>4. \A u \in Threads \ {t} : th[u].pc \in Holding => th[u].m # x
  BY MineAlone DEF Base
<1> QED BY <1>1, <1>3, <1>4

\* The send of a message goes on.
LEMMA BaseGo ==
  ASSUME Base, NEW t \in Threads, SendOk(t) \/ SentMore(t) \/ SendAgain(t) \/ AgainInline(t)
  PROVE  Base'
<1>0. ArmTypes /\ Types /\ Grip /\ Apart /\ Owing /\ GripAt(t) /\ Owner \in Threads
  BY PortWriteAssumption DEF Base, ArmTypes, Grip
<1> DEFINE x == th[t].m
<1>1. th[t].pc \in Holding /\ UNCHANGED <<script, alive, next, announce, polled, messages, ends>>
  BY DEF SendOk, SentMore, SendAgain, AgainInline, list, history, event, Holding, socket
<1>2. /\ x \in Msgs /\ Begun(x) /\ ends[x] # <<"cut">>
      /\ \A u \in Threads \ {t} : th[u].pc \in Holding => th[u].m # x
      /\ left[x] \in Int
  BY <1>1, AtHand
<1>3. PICK p \in Holding :
        /\ GoesTo(t, p) /\ p # th[t].pc
        /\ p = "sent" <=> SendOk(t)
        /\ p = "insert" => ~th[t].handler
        /\ p = "send" => left[x] > 0 /\ th[t].pc = "sent"
        /\ p # "send" => th[t].pc # "sent"
  <2>1. CASE SendOk(t)
    BY <1>0, <2>1, GoesEffects DEF Holding, SendOk
  <2>2. CASE SentMore(t)
    <3>1. ~SendOk(t)
      BY <2>2 DEF SentMore, SendOk
    <3> QED BY <1>0, <2>2, <3>1, GoesEffects DEF Holding, SentMore
  <2>3. CASE SendAgain(t) /\ ~SendOk(t)
    BY <1>0, <2>3, GoesEffects DEF Holding, SendAgain
  <2>4. CASE AgainInline(t)
    <3>1. ~SendOk(t)
      BY <2>4 DEF AgainInline, SendOk
    <3> QED BY <1>0, <2>4, <3>1, GoesEffects DEF Holding, AgainInline
  <2> QED BY <2>1, <2>2, <2>3, <2>4
<1>4. /\ Only(t) /\ th'[t].pc = p /\ th'[t].m = x /\ th'[t].handler = th[t].handler
      /\ th'[t].failed = th[t].failed /\ th'[t].ret = th[t].ret
  BY <1>3 DEF GoesTo
<1>5. left \in [Msgs -> Int] /\ unread \in 0..SockCap /\ faults \in Nat /\ SockCap \in Nat
  BY <1>0, PortWriteAssumption DEF ArmTypes, Types
<1>7. /\ left' \in [Msgs -> Int] /\ \A m \in Msgs \ {x} : left'[m] = left[m]
      /\ left'[x] = IF SendOk(t) THEN left[x] - 1 ELSE left[x]
      /\ unread' \in 0..SockCap /\ faults' \in Nat /\ (faults' = 0 => faults = 0)
  <2>1. CASE SendOk(t)
    <3>1. left' = [left EXCEPT ![x] = @ - 1] /\ unread' = unread + 1 /\ unread < SockCap
          /\ faults' = faults
      BY <2>1 DEF SendOk
    <3>2. /\ left' \in [Msgs -> Int] /\ \A m \in Msgs \ {x} : left'[m] = left[m]
          /\ left'[x] = left[x] - 1
      BY <1>2, <1>5, <3>1
    <3>3. unread' \in 0..SockCap
      BY <1>5, <3>1
    <3> QED BY <1>5, <2>1, <3>1, <3>2, <3>3
  <2>2. CASE ~SendOk(t)
    <3>1. left' = left /\ unread' = unread
      BY <2>2 DEF SentMore, SendAgain, AgainInline, socket
    <3>2. faults' = faults \/ faults' = faults + 1
      BY <2>2 DEF SentMore, SendAgain, AgainInline, AllocFails
    <3> QED BY <1>5, <2>2, <3>1, <3>2
  <2> QED BY <2>1, <2>2
<1>8. GripAt(t)'
  <2>1. Listed' = Listed /\ \A m : Begun(m)' = Begun(m)
    BY <1>1 DEF Listed, Begun
  <2>2. Holds(t)' = Holds(t) /\ Takes(t)' = Takes(t)
    BY <1>1, <1>3, <1>4 DEF Holds, Takes
  <2>3. ASSUME Holds(t), Kind(x) # "big" PROVE left'[x] = IF p = "sent" THEN 0 ELSE 1
    <3>1. left[x] = IF th[t].pc = "sent" THEN 0 ELSE 1
      BY <1>0, <2>3 DEF GripAt
    <3> QED BY <1>3, <1>7, <3>1
  <2>4. p \notin {"first", "block"}
    BY DEF Holding
  <2>5. Takes(t) => p # "insert"
    BY <1>3 DEF Takes
  <2>6. /\ th'[t].handler => t = Owner
        /\ th'[t].failed => ~alive'
        /\ th'[t].m \in Msgs' /\ Begun(th[t].m)' /\ Kind(th[t].m)' = Kind(x)
    <3>1. Begun(th[t].m)' /\ Kind(th[t].m)' = Kind(x)
      BY <1>1, <1>2, <1>4 DEF Begun, Kind
    <3> QED BY <1>0, <1>1, <1>2, <1>4, <3>1, SameMsgs DEF GripAt
  <2>7. Holds(t) => th'[t].m = <<t, next'[t]>> /\ th'[t].m \notin Listed' /\ ends'[th'[t].m] = <<>>
    BY <1>0, <1>1, <1>4, <2>1 DEF GripAt
  <2>8. Holds(t) /\ Kind(th[t].m)' # "big" =>
          left'[th'[t].m] = IF th'[t].pc = "sent" THEN 0 ELSE 1
    BY <1>4, <2>3, <2>6
  <2> QED BY <1>4, <2>2, <2>4, <2>5, <2>6, <2>7, <2>8 DEF GripAt
<1>9. th'[Owner].handler = th[Owner].handler
  BY <1>0, <1>4 DEF Only
<1>10. faults' = 0 => faults = 0 /\ th'[t].ret = "ok"
  BY <1>0, <1>4, <1>7 DEF Owing
<1>11. /\ messages' \in Seq(Msgs) /\ ends' \in [Msgs -> Seq(Hows)] /\ Listed' = Listed
       /\ ends' = ends
  BY <1>0, <1>1 DEF Types, Listed
<1> HIDE DEF x
<1> QED BY <1>1, <1>2, <1>4, <1>7, <1>8, <1>9, <1>10, <1>11, BaseMine


\* Thread t lets go of its message: the message may be listed or ended.
LEMMA BaseLet ==
  ASSUME Base, NEW t \in Threads, Only(t), th[t].pc \in Holding,
         UNCHANGED <<script, alive, next, announce, polled, left, unread>>,
         messages' \in Seq(Msgs), \A m \in Listed' : m \in Listed \/ m = th[t].m,
         NEW how \in Hows, ends' = ends \/ ends' = [ends EXCEPT ![th[t].m] = Append(@, how)],
         how = "cut" => th[t].m \notin Listed',
         faults' \in Nat, faults' = 0 => faults = 0 /\ th'[t].ret = "ok",
         th'[t].handler => th[t].handler,
         th'[t].pc \notin Holding, th'[t].pc \in {"first", "block"} => th'[t].handler,
         th'[t].failed => ~alive
  PROVE  Base'
<1>b. PICK x : x = th[t].m
  OBVIOUS
<1>0. ArmTypes /\ Types /\ GripAt(t) /\ Owner \in Threads
  BY PortWriteAssumption DEF Base, ArmTypes, Grip
<1>1. /\ x \in Msgs /\ Begun(x) /\ ends[x] # <<"cut">> /\ ends[x] \in Seq(Hows)
      /\ \A u \in Threads \ {t} : th[u].pc \in Holding => th[u].m # x
  BY <1>b, AtHand
<1>2. /\ ends' \in [Msgs -> Seq(Hows)] /\ \A m \in Msgs \ {x} : ends'[m] = ends[m]
      /\ ends'[x] = ends[x] \/ ends'[x] = Append(ends[x], how)
  <2>1. ends \in [Msgs -> Seq(Hows)] /\ Append(ends[x], how) \in Seq(Hows)
    BY <1>0, <1>1 DEF Types
  <2> QED BY <1>b, <1>1, <2>1
<1>3. ASSUME Loose(x)' PROVE ends'[x] # <<"cut">>
  <2>1. CASE how = "cut"
    <3>1. \A u \in Threads : th'[u].pc \in Holding => th'[u].m # x
      <4>1. \A u \in Threads \ {t} : th'[u] = th[u]
        BY DEF Only
      <4> QED BY <1>1, <4>1
    <3>2. x \notin Listed'
      BY <1>b, <2>1
    <3> QED BY <1>3, <3>1, <3>2 DEF Loose
  <2>2. CASE how # "cut"
    BY <1>1, <1>2, <2>2, NotCut
  <2> QED BY <2>1, <2>2
<1>4. GripAt(t)'
  BY <1>0 DEF GripAt, Holds, Takes
<1>5. th'[Owner].handler => th[Owner].handler
  BY <1>0 DEF Only
<1>6. unread' \in 0..SockCap /\ left' \in [Msgs -> Int] /\ left' = left
  BY <1>0 DEF ArmTypes, Types
<1>7. \A m \in Listed' : m \in Listed \/ m = x
  BY <1>b
<1> QED BY <1>1, <1>2, <1>3, <1>4, <1>5, <1>6, <1>7, BaseMine

LEMMA Members2 ==
  ASSUME NEW s \in Seq(Msgs), NEW x \in Msgs
  PROVE  Append(s, x) \in Seq(Msgs) /\ Members(Append(s, x)) = Members(s) \cup {x}
<1> DEFINE t == Append(s, x)
<1>1. /\ t \in Seq(Msgs) /\ Len(t) = Len(s) + 1 /\ Len(s) \in Nat
      /\ \A i \in 1..Len(s) : t[i] = s[i]
      /\ t[Len(s) + 1] = x
  OBVIOUS
<1> HIDE DEF t
<1>2. 1..Len(t) = 1..Len(s) \cup {Len(s) + 1}
  BY <1>1
<1>3. Members(t) = Members(s) \cup {x}
  BY <1>1, <1>2 DEF Members
<1> QED BY <1>1, <1>3 DEF t

LEMMA BaseOut ==
  ASSUME Base, NEW t \in Threads,
         \/ SentLast(t) \/ SentShare(t) \/ SentShareFails(t) \/ SendFails(t)
         \/ InsertTail(t) \/ InsertTailFails(t)
  PROVE  Base'
<1> DEFINE x == th[t].m
<1>0. ArmTypes /\ Types /\ GripAt(t) /\ Owing /\ messages \in Seq(Msgs) /\ faults \in Nat
      /\ th[t].handler \in BOOLEAN
  BY Message DEF Base, ArmTypes, Grip, Types
<1>1. /\ th[t].pc \in Holding
      /\ UNCHANGED <<script, alive, next, announce, polled, left, unread>>
  BY DEF SentLast, SentShare, SentShareFails, SendFails, InsertTail, InsertTailFails, list,
     history, event, Holding, socket
<1>2. x \in Msgs /\ ends[x] \in Seq(Hows)
  BY <1>1, AtHand
<1>3. Listed = Members(messages) /\ Listed' = Members(messages')
  BY DEF Listed, Members
<1>4. /\ "clean" \notin Holding /\ "first" \notin Holding
      /\ {"sent", "dropped", "back", "cut"} \subseteq Hows
  BY DEF Holding, Hows
<1>5. faults = 0 => th[t].ret = "ok"
  BY <1>0 DEF Owing
<1>6. ASSUME messages' = messages
      PROVE  messages' \in Seq(Msgs) /\ \A m \in Listed' : m \in Listed \/ m = x
  BY <1>0, <1>3, <1>6
<1>7. ASSUME NEW s \in Seq(Msgs), Members(s) \subseteq Listed, messages' = Append(s, x)
      PROVE  messages' \in Seq(Msgs) /\ \A m \in Listed' : m \in Listed \/ m = x
  BY <1>2, <1>3, <1>7, Members2
<1>8. /\ Without(x) \in Seq(Msgs) /\ Members(Without(x)) \subseteq Listed
  BY <1>0, WithoutType
<1>9. CASE SentLast(t)
  <2>1. /\ th'[t].ret = "ok"
        /\ (After(t, "first", TRUE) /\ th[t].handler) \/ After(t, "clean", th[t].handler)
    BY <1>0, <1>9, OutEffects
  <2>2. ends' = [ends EXCEPT ![x] = Append(@, "sent")] /\ faults' = faults
    BY <1>9 DEF SentLast, End
  <2>3. messages' \in Seq(Msgs) /\ \A m \in Listed' : m \in Listed \/ m = x
    <3>1. messages' = messages \/ messages' = Without(x)
      BY <1>9 DEF SentLast
    <3> QED BY <1>3, <1>6, <1>8, <3>1
  <2> HIDE DEF x
  <2>4. "sent" # "cut" /\ "sent" \in Hows
    BY <1>4
  <2>5. /\ Only(t) /\ (th'[t].handler => th[t].handler) /\ th'[t].pc \notin Holding
        /\ (th'[t].pc \in {"first", "block"} => th'[t].handler) /\ ~th'[t].failed
    BY <1>4, <2>1 DEF After
  <2> QED BY <1>0, <1>1, <2>1, <2>2, <2>3, <2>4, <2>5, BaseLet DEF x
<1>10. CASE SentShare(t)
  <2>1. /\ th'[t].ret = "ok"
        /\ (After(t, "first", TRUE) /\ th[t].handler) \/ After(t, "clean", th[t].handler)
    BY <1>0, <1>10, OutEffects
  <2>2. ends' = ends /\ faults' = faults
    BY <1>10 DEF SentShare, history
  <2>3. messages' \in Seq(Msgs) /\ \A m \in Listed' : m \in Listed \/ m = x
    <3>1. messages' = Append(Without(x), x)
      BY <1>10 DEF SentShare
    <3> HIDE DEF x
    <3> QED BY <1>7, <1>8, <3>1
  <2> HIDE DEF x
  <2>4. "sent" # "cut" /\ "sent" \in Hows
    BY <1>4
  <2>5. /\ Only(t) /\ (th'[t].handler => th[t].handler) /\ th'[t].pc \notin Holding
        /\ (th'[t].pc \in {"first", "block"} => th'[t].handler) /\ ~th'[t].failed
    BY <1>4, <2>1 DEF After
  <2> QED BY <1>0, <1>1, <2>1, <2>2, <2>3, <2>4, <2>5, BaseLet DEF x
<1>11. CASE SentShareFails(t)
  <2>1. After(t, "clean", FALSE) /\ th'[t].ret = "ok"
    BY <1>0, <1>11, OutEffects
  <2>2. ends' = [ends EXCEPT ![x] = Append(@, "dropped")] /\ faults' = faults + 1 /\ messages' = messages
    BY <1>11 DEF SentShareFails, End, AllocFails, list
  <2>3. messages' \in Seq(Msgs) /\ \A m \in Listed' : m \in Listed \/ m = x
    BY <1>6, <2>2
  <2>4. "dropped" # "cut" /\ "dropped" \in Hows /\ faults' \in Nat /\ faults' # 0
    BY <1>0, <1>4, <2>2
  <2>5. Only(t) /\ th'[t].handler = FALSE /\ th'[t].pc \notin Holding /\ th'[t].pc = "clean" /\ ~th'[t].failed
    BY <1>4, <2>1 DEF After
  <2> QED BY <1>0, <1>1, <2>2, <2>3, <2>4, <2>5, BaseLet
<1>12. CASE SendFails(t)
  <2>1. /\ Only(t) /\ th'[t].pc = "clean" /\ th'[t].handler = th[t].handler
        /\ th'[t].ret = th[t].ret
    BY <1>0, <1>12, SendFailsEffect
  <2>2. faults' = faults /\ messages' = messages /\ ~alive
    BY <1>12 DEF SendFails, list
  <2>3. PICK how \in {"back", "dropped"} :
          ends' = ends \/ ends' = [ends EXCEPT ![x] = Append(@, how)]
    BY <1>12 DEF SendFails, End
  <2>4. messages' \in Seq(Msgs) /\ \A m \in Listed' : m \in Listed \/ m = x
    BY <1>6, <2>2
  <2>5. how # "cut" /\ how \in Hows
    BY <1>4
  <2>6. th'[t].pc \notin Holding
    BY <1>4, <2>1
  <2> QED BY <1>0, <1>1, <1>5, <2>1, <2>2, <2>3, <2>4, <2>5, <2>6, BaseLet
<1>13. CASE InsertTail(t)
  <2>1. After(t, "clean", FALSE) /\ th'[t].ret = "ok"
    BY <1>0, <1>13, OutEffects
  <2>2. ends' = ends /\ faults' = faults /\ messages' = Append(messages, x)
    BY <1>13 DEF InsertTail, history
  <2>3. messages' \in Seq(Msgs) /\ \A m \in Listed' : m \in Listed \/ m = x
    <3> HIDE DEF x
    <3> QED BY <1>0, <1>3, <1>7, <2>2
  <2>4. "sent" # "cut" /\ "sent" \in Hows
    BY <1>4
  <2>5. Only(t) /\ th'[t].handler = FALSE /\ th'[t].pc \notin Holding /\ th'[t].pc = "clean" /\ ~th'[t].failed
    BY <1>4, <2>1 DEF After
  <2> QED BY <1>0, <1>1, <2>1, <2>2, <2>3, <2>4, <2>5, BaseLet
<1>14. CASE InsertTailFails(t)
  <2>1. After(t, "clean", FALSE) /\ (th'[t].ret = "owed" => Kind(x) = "wake")
    BY <1>0, <1>14, OutEffects
  <2>2. /\ th[t].pc = "insert" /\ messages' = messages
        /\ (faults' = faults + 1 \/ (faults' = faults /\ ~MayHold(x)))
    BY <1>14 DEF InsertTailFails, list, AllocFails
  <2>3. PICK how \in {"back", "cut"} :
          ends' = ends \/ ends' = [ends EXCEPT ![x] = Append(@, how)]
    BY <1>14 DEF InsertTailFails, End
  <2>4. messages' \in Seq(Msgs) /\ \A m \in Listed' : m \in Listed \/ m = x
    BY <1>6, <2>2
  <2>5. x \notin Listed'
    <3>1. Holds(t)
      BY <1>0, <1>1, <2>2 DEF GripAt, Holds, Takes
    <3> QED BY <1>0, <1>3, <2>2, <3>1 DEF GripAt
  <2>6. faults' \in Nat /\ (faults' = 0 => faults = 0 /\ th'[t].ret = "ok")
    <3>1. th'[t].ret \in {"ok", "owed"}
      <4>1. th'[t] \in LocSet
        BY <2>1 DEF After, Only
      <4> QED BY <4>1 DEF LocSet
    <3>2. Kind(x) = "wake" => MayHold(x)
      BY DEF MayHold, HasFd
    <3> QED BY <1>0, <2>1, <2>2, <3>1, <3>2
  <2>7. Only(t) /\ th'[t].handler = FALSE /\ th'[t].pc \notin Holding /\ th'[t].pc = "clean" /\ ~th'[t].failed
    BY <1>4, <2>1 DEF After
  <2>8. how \in Hows
    BY <1>4
  <2> QED BY <1>0, <1>1, <2>3, <2>4, <2>5, <2>6, <2>7, <2>8, BaseLet
<1> QED BY <1>9, <1>10, <1>11, <1>12, <1>13, <1>14


\* A listed message is in nobody's hands but those of the write handler.
LEMMA ListedApart ==
  ASSUME Base, NEW x \in Listed
  PROVE  /\ x \in Msgs /\ Begun(x) /\ ends[x] # <<"cut">>
         /\ \A u \in Threads \ {Owner} : th[u].pc \in Holding => th[u].m # x
<1>1. x \in Msgs /\ Loose(x)
  BY ListedMsgs DEF Base, ArmTypes, Loose
<1>2. ASSUME NEW u \in Threads \ {Owner}, th[u].pc \in Holding PROVE th[u].m # x
  <2>1. GripAt(u)
    BY DEF Base, Grip
  <2>2. Holds(u)
    BY <1>2, <2>1 DEF GripAt, Holds
  <2> QED BY <2>1, <2>2 DEF GripAt
<1> QED BY <1>1, <1>2 DEF Base, Apart

LEMMA BaseFirst ==
  ASSUME Base, HandlerFirst, messages # <<>>
  PROVE  Base'
<1>0. ArmTypes /\ Types /\ GripAt(Owner) /\ Owner \in Threads /\ Owing
  BY PortWriteAssumption DEF Base, ArmTypes, Grip
<1>1. PICK x : x = Head(messages)
  OBVIOUS
<1>2. /\ After(Owner, "send", TRUE) /\ th'[Owner].m = x /\ x \in Listed /\ th'[Owner].ret = "ok"
  BY <1>0, <1>1, HandlerEffects
<1>3. /\ th[Owner].pc = "first"
      /\ UNCHANGED <<script, alive, next, announce, polled, messages, ends, left, faults, unread>>
  BY DEF HandlerFirst, list, history, event, socket
<1>4. /\ x \in Msgs /\ Begun(x) /\ ends[x] # <<"cut">>
      /\ \A u \in Threads \ {Owner} : th[u].pc \in Holding => th[u].m # x
  BY <1>2, ListedApart
<1>5. Listed' = Listed /\ (\A m : Begun(m)' = Begun(m)) /\ Msgs' = Msgs
  BY <1>3, SameMsgs DEF Listed, Begun
<1>6. /\ Only(Owner) /\ th'[Owner].pc = "send" /\ th'[Owner].handler = TRUE
      /\ th'[Owner].failed = FALSE
  BY <1>2 DEF After
<1>7. GripAt(Owner)'
  <2>1. Begun(th[Owner].m)' /\ th'[Owner].m \in Msgs'
    BY <1>2, <1>3, <1>4, <1>5 DEF Begun
  <2> QED BY <1>6, <2>1 DEF GripAt, Holds, Takes
<1>8. th[Owner].handler
  BY <1>0, <1>3 DEF GripAt
<1>9. /\ messages' \in Seq(Msgs) /\ ends' \in [Msgs -> Seq(Hows)] /\ left' \in [Msgs -> Int]
      /\ faults' \in Nat /\ unread' \in 0..SockCap /\ ends' = ends /\ left' = left /\ faults' = faults
  BY <1>0, <1>3 DEF ArmTypes, Types
<1> QED BY <1>0, <1>2, <1>3, <1>4, <1>5, <1>6, <1>7, <1>8, <1>9, BaseMine

LEMMA BaseCancel ==
  ASSUME Base, NEW x \in Msgs, Cancel(x)
  PROVE  Base'
<1>0. ArmTypes /\ Types /\ Owner \in Threads /\ Owing
  BY PortWriteAssumption DEF Base, ArmTypes
<1>1. /\ x \in Listed /\ messages' = Without(x)
      /\ ends' = [ends EXCEPT ![x] = Append(@, "cancelled")]
      /\ th[Owner] = Idle
      /\ UNCHANGED <<script, alive, next, announce, polled, left, faults, unread, th>>
  BY DEF Cancel, End, event, socket
<1>2. /\ Begun(x) /\ ends[x] # <<"cut">>
      /\ \A u \in Threads \ {Owner} : th[u].pc \in Holding => th[u].m # x
  BY <1>1, ListedApart
<1>3. messages' \in Seq(Msgs) /\ \A m \in Listed' : m \in Listed \/ m = x
  <2>1. messages' \in Seq(Msgs) /\ Members(messages') \subseteq Listed
    BY <1>0, <1>1, WithoutType DEF Types
  <2> QED BY <2>1 DEF Members, Listed
<1>4. /\ ends' \in [Msgs -> Seq(Hows)] /\ \A m \in Msgs \ {x} : ends'[m] = ends[m]
      /\ ends'[x] # <<"cut">>
  <2>1. ends \in [Msgs -> Seq(Hows)] /\ "cancelled" \in Hows /\ "cancelled" # "cut"
    BY <1>0 DEF Types, Hows
  <2>2. Append(ends[x], "cancelled") \in Seq(Hows) /\ Append(ends[x], "cancelled") # <<"cut">>
    BY <2>1, NotCut
  <2> QED BY <1>1, <2>1, <2>2
<1>5. th'[Owner].pc = "idle" /\ th'[Owner].handler = FALSE /\ th'[Owner].failed = FALSE
      /\ th'[Owner].ret = "ok"
  BY <1>1, IdleFields
<1>6. GripAt(Owner)' /\ th'[Owner].pc \notin Holding
  BY <1>5 DEF GripAt, Holds, Takes, Holding
<1>7. Only(Owner) /\ faults' \in Nat /\ unread' \in 0..SockCap /\ left' \in [Msgs -> Int] /\ left' = left
      /\ faults' = faults
  BY <1>0, <1>1 DEF Only, ArmTypes, Types
<1> QED BY <1>0, <1>1, <1>2, <1>3, <1>4, <1>5, <1>6, <1>7, BaseMine

LEMMA BaseError ==
  ASSUME Base, NEW t \in Threads, ErrorHandler(t)
  PROVE  Base'
<1>0. ArmTypes /\ Types /\ Grip /\ Apart /\ Owing
  BY DEF Base, ArmTypes
<1>1. /\ messages' = <<>>
      /\ ends' = [m \in Msgs |-> IF m \in Listed THEN Append(ends[m], "dropped") ELSE ends[m]]
      /\ UNCHANGED <<script, alive, next, announce, polled, left, faults, unread, th>>
  BY DEF ErrorHandler, event, socket
<1>2. Listed' = {} /\ \A m : Begun(m)' = Begun(m)
  BY <1>1 DEF Listed, Begun
<1>3. \A m \in Msgs : /\ ends[m] \in Seq(Hows) /\ Append(ends[m], "dropped") \in Seq(Hows)
                      /\ Append(ends[m], "dropped") # <<"cut">>
  <2>1. "dropped" \in Hows /\ "dropped" # "cut"
    BY DEF Hows
  <2>2. \A m \in Msgs : ends[m] \in Seq(Hows)
    BY <1>0 DEF Types
  <2> QED BY <2>1, <2>2, NotCut
<1>4. \A m \in Msgs : ends'[m] = IF m \in Listed THEN Append(ends[m], "dropped") ELSE ends[m]
  BY <1>1
<1>5. ends' \in [Msgs -> Seq(Hows)] /\ messages' \in Seq(Msgs)
  BY <1>1, <1>3
<1>6. ArmTypes'
  BY <1>0, <1>1, <1>5, SameMsgs DEF ArmTypes, Types
<1>7. Grip'
  <2>1. ASSUME NEW u \in Threads PROVE GripAt(u)'
    <3>1. GripAt(u) /\ Holds(u)' = Holds(u) /\ Takes(u)' = Takes(u)
      BY <1>0, <1>1 DEF Grip, Holds, Takes
    <3>2. Holds(u) => ends'[th[u].m] = <<>>
      <4>1. Holds(u) => th[u].m \in Msgs /\ th[u].m \notin Listed /\ ends[th[u].m] = <<>>
        BY <3>1 DEF GripAt, Holds
      <4> QED BY <1>4, <4>1
    <3> QED BY <1>1, <1>2, <3>1, <3>2, SameMsgs DEF GripAt
  <2>2. \A u, w \in Threads : Takes(u)' /\ Holds(w)' => th'[w].m # th'[u].m
    BY <1>0, <1>1 DEF Grip, Holds, Takes
  <2> QED BY <2>1, <2>2 DEF Grip
<1>8. Apart'
  <2> SUFFICES ASSUME NEW m \in Msgs
               PROVE  /\ Loose(m)' => Begun(m) /\ ends'[m] # <<"cut">>
                      /\ ~Begun(m) => ends'[m] = <<>> /\ left[m] = Fragments(m)
    BY <1>1, <1>2, SameMsgs DEF Apart
  <2>1. Loose(m)' => Loose(m)
    BY <1>1, <1>2 DEF Loose
  <2>2. m \in Listed => Loose(m)
    BY DEF Loose
  <2>3. /\ Loose(m) => Begun(m) /\ ends[m] # <<"cut">>
        /\ ~Begun(m) => ends[m] = <<>> /\ left[m] = Fragments(m)
    BY <1>0 DEF Apart
  <2> QED BY <1>3, <1>4, <2>1, <2>2, <2>3
<1>9. Owing'
  BY <1>0, <1>1 DEF Owing
<1> QED BY <1>6, <1>7, <1>8, <1>9 DEF Base

\* What nxt_port_socket_send() does with a new message.
LEMMA SendCases ==
  ASSUME Types, NEW t \in Threads, SocketSend(t), NEW x, x = <<t, next[t] + 1>>
  PROVE  \/ /\ After(t, "send", FALSE) /\ th'[t].m = x /\ th'[t].ret = "ok"
            /\ UNCHANGED <<messages, ends, faults>>
         \/ /\ After(t, "idle", FALSE) /\ th'[t].ret = "ok"
            /\ UNCHANGED <<messages, faults>>
            /\ \E how \in {"skipped", "back"} : ends' = [ends EXCEPT ![x] = Append(@, how)]
         \/ /\ After(t, "idle", FALSE) /\ th'[t].ret = "ok"
            /\ messages' = messages /\ faults' = faults + 1
            /\ \E how \in {"skipped", "back"} : ends' = [ends EXCEPT ![x] = Append(@, how)]
         \/ /\ After(t, "answer", FALSE)
            /\ UNCHANGED <<messages, ends>> /\ faults' = faults + 1
         \/ /\ After(t, "idle", FALSE) /\ th'[t].ret = "ok"
            /\ messages' = Append(messages, x) /\ (~ready \/ messages # <<>>)
            /\ UNCHANGED <<ends, faults>>
<1>0. /\ th[t] = Idle /\ th \in [Threads -> LocSet] /\ next[t] \in Nat /\ x \in Threads \X Nat
      /\ "send" \in Pcs /\ "answer" \in Pcs /\ FALSE \in BOOLEAN
  BY DEF SocketSend, Types, Pcs
<1>1. \/ /\ UNCHANGED <<messages, ends, faults>>
         /\ th' = [th EXCEPT ![t] = Loc("send", x, FALSE)]
      \/ UNCHANGED <<messages, th, faults>> /\ ends' = [ends EXCEPT ![x] = Append(@, "skipped")]
      \/ messages' = messages /\ Refuse(t, x) /\ MayHold(x) /\ faults' = faults + 1
      \/ UNCHANGED <<messages, faults>> /\ Refuse(t, x) /\ ~MayHold(x)
      \/ /\ messages' = Append(messages, x) /\ UNCHANGED <<ends, th, faults>>
         /\ ~ready \/ messages # <<>>
  BY DEF SocketSend, End, list, AllocFails
<1>2. CASE /\ UNCHANGED <<messages, ends, faults>>
           /\ th' = [th EXCEPT ![t] = Loc("send", x, FALSE)]
  BY <1>0, <1>2, NewLoc
<1>3. th' = th => th' = [th EXCEPT ![t] = Idle]
  BY <1>0
<1>4. CASE UNCHANGED <<messages, th, faults>> /\ ends' = [ends EXCEPT ![x] = Append(@, "skipped")]
  BY <1>3, <1>4, ToIdle
<1>5. CASE Kind(x) # "wake" /\ messages' = messages /\ Refuse(t, x) /\ MayHold(x) /\ faults' = faults + 1
  <2>1. th' = [th EXCEPT ![t] = Idle] /\ ends' = [ends EXCEPT ![x] = Append(@, "back")]
    BY <1>5 DEF Refuse, End
  <2> QED BY <1>5, <2>1, ToIdle
<1>6. CASE UNCHANGED <<messages, faults>> /\ Refuse(t, x) /\ ~MayHold(x)
  <2>1. Kind(x) # "wake"
    BY <1>6 DEF MayHold, HasFd
  <2>2. th' = [th EXCEPT ![t] = Idle] /\ ends' = [ends EXCEPT ![x] = Append(@, "back")]
    BY <1>6, <2>1 DEF Refuse, End
  <2> QED BY <1>6, <2>2, ToIdle
<1>7. CASE Kind(x) = "wake" /\ messages' = messages /\ Refuse(t, x) /\ faults' = faults + 1
  <2> DEFINE u == Loc("answer", x, FALSE)
             v == [u EXCEPT !.ret = "owed"]
  <2>1. u \in LocSet /\ u.pc = "answer" /\ u.handler = FALSE /\ u.failed = FALSE
    <3>1. u.failed = FALSE
      BY DEF Loc
    <3> QED BY <1>0, <3>1, LocType
  <2>2. th' = [th EXCEPT ![t] = v] /\ ends' = ends
    BY <1>7 DEF Refuse
  <2> HIDE DEF u
  <2>3. v \in LocSet /\ v.pc = "answer" /\ v.handler = FALSE /\ v.failed = FALSE
    BY <2>1 DEF LocSet
  <2> HIDE DEF v
  <2>4. /\ th' \in [Threads -> LocSet] /\ th'[t] = v
        /\ \A w \in Threads \ {t} : th'[w] = th[w]
    BY <1>0, <2>2, <2>3, LocStep
  <2>5. After(t, "answer", FALSE)
    BY <2>3, <2>4 DEF After, Only
  <2> QED BY <1>7, <2>2, <2>5
<1>8. CASE /\ messages' = Append(messages, x) /\ UNCHANGED <<ends, th, faults>>
           /\ ~ready \/ messages # <<>>
  BY <1>3, <1>8, ToIdle
<1> QED BY <1>1, <1>2, <1>4, <1>5, <1>6, <1>7, <1>8

LEMMA BaseSend ==
  ASSUME Base, NEW t \in Threads, SocketSend(t)
  PROVE  Base'
<1>0. ArmTypes /\ Types /\ Grip /\ Apart /\ Owing /\ Owner \in Threads
  BY PortWriteAssumption DEF Base, ArmTypes
<1>a. PICK x : x = <<t, next[t] + 1>>
  OBVIOUS
<1>1. /\ th[t] = Idle /\ next[t] < Len(script[t]) /\ next' = [next EXCEPT ![t] = @ + 1]
      /\ UNCHANGED <<script, left, alive, announce, polled, unread>>
  BY DEF SocketSend, event, socket
<1>2. /\ next \in [Threads -> Nat] /\ next[t] \in Nat /\ Len(script[t]) \in Nat
      /\ messages \in Seq(Msgs) /\ ends \in [Msgs -> Seq(Hows)] /\ Listed = Members(messages)
      /\ Listed' = Members(messages') /\ faults \in Nat
  <2>1. script[t] \in Seq(Kinds)
    BY <1>0, PortWriteAssumption DEF Types
  <2> QED BY <1>0, <2>1 DEF ArmTypes, Types, Listed, Members
<1>3. x \in Msgs /\ x[1] = t /\ x[2] = next[t] + 1
  BY <1>a, <1>1, <1>2 DEF Msgs
<1>4. ~Begun(x)
  BY <1>2, <1>3 DEF Begun
<1>5. /\ x \notin Listed /\ ends[x] = <<>> /\ left[x] = Fragments(x)
      /\ \A u \in Threads : th[u].pc \in Holding => th[u].m # x
  <2>1. x \notin Listed /\ ends[x] = <<>> /\ left[x] = Fragments(x)
    BY <1>0, <1>3, <1>4 DEF Apart, Loose
  <2>2. ASSUME NEW u \in Threads, th[u].pc \in Holding PROVE th[u].m # x
    <3>1. Begun(th[u].m)
      BY <1>0, <2>2 DEF Grip, GripAt
    <3> QED BY <1>4, <3>1
  <2> QED BY <2>1, <2>2
<1>6. /\ next' \in [Threads -> Nat] /\ next'[t] = next[t] + 1
      /\ \A u \in Threads \ {t} : next'[u] = next[u]
  BY <1>1, <1>2
<1>7. Begun(x)'
  BY <1>2, <1>3, <1>6 DEF Begun
<1>8. ASSUME NEW m \in Msgs, Begun(m) PROVE Begun(m)'
  <2>1. m[1] \in Threads /\ m[2] \in Nat
    BY MsgParts
  <2> DEFINE u == m[1]
  <2>2. next'[u] >= next[u] /\ next[u] \in Nat /\ next'[u] \in Nat
    <3>1. u \in Threads
      BY <2>1
    <3> HIDE DEF u
    <3>2. next'[u] = next[u] \/ next'[u] = next[u] + 1
      BY <1>6, <3>1
    <3>3. next[u] \in Nat
      BY <1>2, <3>1
    <3> QED BY <3>2, <3>3
  <2> QED BY <1>8, <2>1, <2>2 DEF Begun
<1>9. x = <<t, next'[t]>>
  BY <1>a, <1>6
\* The message is listed, ended, at hand or refused.
<1>10. ASSUME Only(t), th'[t].handler = FALSE, th'[t].failed = FALSE,
              th'[t].pc \notin {"first", "block"},
              messages' \in Seq(Msgs), Listed' \subseteq Listed \cup {x},
              ends' \in [Msgs -> Seq(Hows)], \A m \in Msgs \ {x} : ends'[m] = ends[m],
              ends'[x] # <<"cut">>, faults' \in Nat,
              faults' = 0 => faults = 0 /\ th'[t].ret = "ok",
              th'[t].pc \in Holding => /\ th'[t].pc = "send" /\ th'[t].m = x
                                       /\ x \notin Listed' /\ ends'[x] = <<>>
       PROVE  Base'
  <2>1. ArmTypes'
    BY <1>0, <1>1, <1>6, <1>10, SameMsgs DEF ArmTypes, Types, Only
  <2>2. GripAt(t)'
    <3>1. CASE th'[t].pc \in Holding
      <4>1. th'[t].m = x /\ th'[t].pc = "send" /\ x \notin Listed' /\ ends'[x] = <<>>
        BY <1>10, <3>1
      <4>2. Begun(th[t].m)'
        BY <1>7, <4>1 DEF Begun
      <4>3. Kind(th[t].m)' # "big" => left'[x] = 1
        <5>1. Kind(th[t].m)' = Kind(x)
          BY <1>1, <4>1 DEF Kind
        <5> QED BY <1>1, <1>5, <5>1 DEF Fragments
      <4>4. ~Takes(t)'
        BY <1>10 DEF Takes
      <4>5. th'[t].m \in Msgs'
        BY <1>1, <1>3, <4>1, SameMsgs
      <4>6. Holds(t)' => /\ th'[t].m = <<t, next'[t]>> /\ th'[t].m \notin Listed'
                         /\ ends'[th'[t].m] = <<>>
                         /\ Kind(th[t].m)' # "big" =>
                              left'[th'[t].m] = IF th'[t].pc = "sent" THEN 0 ELSE 1
        BY <1>9, <4>1, <4>3
      <4> QED BY <1>10, <4>2, <4>4, <4>5, <4>6 DEF GripAt
    <3>2. CASE th'[t].pc \notin Holding
      BY <1>10, <3>2 DEF GripAt, Holds, Takes
    <3> QED BY <3>1, <3>2
  <2>3. Grip' /\ Apart'
    <3>1. \A u \in Threads \ {t} : th'[u] = th[u] /\ next'[u] = next[u]
      BY <1>6, <1>10 DEF Only
    <3>2. \A m \in Msgs \ {x} : /\ m \in Listed' => m \in Listed
                                /\ ends'[m] = ends[m] /\ left'[m] = left[m]
      BY <1>1, <1>10
    <3>3. \A u \in Threads \ {t} : th[u].pc \in Holding => th[u].m # x
      BY <1>5
    <3> QED BY <1>0, <1>1, <1>3, <1>7, <1>8, <1>10, <2>2, <3>1, <3>2, <3>3, MineStep
  <2>4. Owing'
    <3>1. polled' => ~th'[Owner].handler
      BY <1>0, <1>1, <1>10 DEF Owing, Only
    <3>2. faults' = 0 => faults = 0 /\ announce' = 0 /\ th'[t].ret = "ok"
      BY <1>0, <1>1, <1>10 DEF Owing
    <3> QED BY <1>0, <1>10, <3>1, <3>2, OwingStep
  <2> QED BY <2>1, <2>3, <2>4 DEF Base
<1>11. ASSUME messages' = messages PROVE messages' \in Seq(Msgs) /\ Listed' = Listed
  BY <1>2, <1>11
<1>12. ASSUME ends' = ends
       PROVE  /\ ends' \in [Msgs -> Seq(Hows)] /\ \A m \in Msgs \ {x} : ends'[m] = ends[m]
              /\ ends'[x] # <<"cut">> /\ ends'[x] = <<>>
  <2>1. Len(<<"cut">>) = 1 /\ Len(<<>>) = 0
    OBVIOUS
  <2>2. <<"cut">> # <<>>
    BY <2>1
  <2> QED BY <1>2, <1>5, <1>12, <2>2
<1>13. ASSUME NEW how \in {"skipped", "back"}, ends' = [ends EXCEPT ![x] = Append(@, how)]
       PROVE  /\ ends' \in [Msgs -> Seq(Hows)] /\ \A m \in Msgs \ {x} : ends'[m] = ends[m]
              /\ ends'[x] # <<"cut">>
  <2>1. how \in Hows /\ how # "cut" /\ ends[x] \in Seq(Hows)
    BY <1>2, <1>3 DEF Hows
  <2>2. Append(ends[x], how) \in Seq(Hows) /\ Append(ends[x], how) # <<"cut">>
    BY <2>1, NotCut
  <2> QED BY <1>2, <1>3, <1>13, <2>2
<1>14. "idle" \notin Holding /\ "answer" \notin Holding
  BY DEF Holding
<1>15. CASE /\ After(t, "send", FALSE) /\ th'[t].m = x /\ th'[t].ret = "ok"
            /\ UNCHANGED <<messages, ends, faults>>
  BY <1>2, <1>5, <1>10, <1>11, <1>12, <1>15 DEF After
<1>16. CASE /\ After(t, "idle", FALSE) /\ th'[t].ret = "ok"
            /\ messages' = messages /\ faults' \in {faults, faults + 1}
            /\ \E how \in {"skipped", "back"} : ends' = [ends EXCEPT ![x] = Append(@, how)]
  <2>1. faults' \in Nat /\ (faults' = 0 => faults = 0)
    BY <1>2, <1>16
  <2>2. /\ ends' \in [Msgs -> Seq(Hows)] /\ \A m \in Msgs \ {x} : ends'[m] = ends[m]
        /\ ends'[x] # <<"cut">>
    BY <1>13, <1>16
  <2> QED BY <1>10, <1>11, <1>14, <1>16, <2>1, <2>2 DEF After
<1>17. CASE After(t, "answer", FALSE) /\ UNCHANGED <<messages, ends>> /\ faults' = faults + 1
  <2>1. faults' \in Nat /\ faults' # 0
    BY <1>2, <1>17
  <2> QED BY <1>10, <1>11, <1>12, <1>14, <1>17, <2>1 DEF After
<1>18. CASE /\ After(t, "idle", FALSE) /\ th'[t].ret = "ok"
            /\ messages' = Append(messages, x) /\ UNCHANGED <<ends, faults>>
  <2>1. messages' \in Seq(Msgs) /\ Listed' = Listed \cup {x}
    BY <1>2, <1>3, <1>18, Members2
  <2> QED BY <1>2, <1>10, <1>12, <1>14, <1>18, <2>1 DEF After
<1> QED BY <1>0, <1>a, <1>15, <1>16, <1>17, <1>18, SendCases

LEMMA BaseInit == Init => Base /\ ArmInv /\ MarkerInv
<1> SUFFICES ASSUME Init PROVE Base /\ ArmInv /\ MarkerInv
  OBVIOUS
<1>0. Owner \in Threads /\ SockCap \in Nat /\ \A t \in Threads : th[t] = Idle
  BY PortWriteAssumption DEF Init
<1>1. Types
  <2>1. messages \in Seq(Msgs) /\ ends \in [Msgs -> Seq(Hows)] /\ next \in [Threads -> Nat]
        /\ script \in Scripts
    BY DEF Init
  <2>2. th \in [Threads -> LocSet]
    BY IdleFields DEF Init
  <2>3. left \in [Msgs -> Int]
    <3>1. \A m \in Msgs : Fragments(m) \in Int
      BY DEF Fragments
    <3> QED BY <3>1 DEF Init
  <2> QED BY <2>1, <2>2, <2>3 DEF Types
<1>2. ArmTypes
  BY <1>0, <1>1 DEF ArmTypes, Init
<1>3. \A t \in Threads : /\ th[t].pc = "idle" /\ th[t].handler = FALSE /\ th[t].failed = FALSE
                         /\ th[t].ret = "ok"
  BY <1>0, IdleFields
<1>4. \A t \in Threads : th[t].pc \notin Holding
  BY <1>3 DEF Holding
<1>5. Grip
  BY <1>3, <1>4 DEF Grip, GripAt, Holds, Takes
<1>6. Apart
  <2>1. Listed = {}
    BY DEF Init, Listed
  <2>2. \A m \in Msgs : ~Loose(m) /\ ends[m] = <<>> /\ left[m] = Fragments(m)
    BY <1>4, <2>1 DEF Loose, Init
  <2> QED BY <2>2 DEF Apart
<1>7. Owing
  BY <1>0, <1>3 DEF Owing, Init
<1>8. ArmInv
  BY <1>0, <1>3 DEF ArmInv, ReadyArmed, ListArmed, AgainArmed, AtPc, Init
<1>9. MarkerInv
  BY DEF MarkerInv, Init
<1> QED BY <1>2, <1>5, <1>6, <1>7, <1>8, <1>9 DEF Base

LEMMA BaseStep ==
  ASSUME Base, [Next]_vars
  PROVE  Base'
<1>1. ASSUME NEW t \in Threads, Inline(t) PROVE Base'
  <2>1. CASE SocketSend(t)
    BY <2>1, BaseSend
  <2>2. CASE Answer(t) \/ Rearm(t) \/ Cleanup(t)
    BY <2>2, BasePlain
  <2>3. CASE SendOk(t) \/ SentMore(t) \/ SendAgain(t) \/ AgainInline(t)
    BY <2>3, BaseGo
  <2>4. CASE \/ SentLast(t) \/ SentShare(t) \/ SentShareFails(t) \/ SendFails(t)
             \/ InsertTail(t) \/ InsertTailFails(t)
    BY <2>4, BaseOut
  <2>5. CASE ErrorHandler(t)
    BY <2>5, BaseError
  <2> QED BY <1>1, <2>1, <2>2, <2>3, <2>4, <2>5 DEF Inline
<1>2. CASE \/ HandlerStart \/ HandlerBlock \/ AgainHandler
           \/ HandlerFirst /\ messages = <<>>
  BY <1>2, BaseHandler
<1>3. CASE HandlerFirst /\ messages # <<>>
  BY <1>3, BaseFirst
<1>4. CASE \E m \in Msgs : Cancel(m)
  BY <1>4, BaseCancel
<1>5. CASE Poll \/ RearmPosted \/ TimerFires \/ PeerReads \/ PeerDies \/ UNCHANGED vars
  BY <1>5, BaseOuter
<1> QED BY <1>1, <1>2, <1>3, <1>4, <1>5 DEF Next, Engine

-----------------------------------------------------------------------------
(* Markers.                                                                *)

\* A re-arm on the owner enables the event or leaves the timer; only a peer
\* that is gone stops it.
LEMMA RearmArms ==
  ASSUME ArmTypes, NEW a, a => timer, RearmNow(a), announce = 0 \/ alive
  PROVE  timer' \/ IsSet'
<1>0. unread \in 0..SockCap /\ announce \in Nat /\ SockCap \in Nat
  BY PortWriteAssumption DEF ArmTypes
<1>1. CASE a
  BY <1>1 DEF RearmNow
<1>2. CASE ~a
  <2>1. CASE AnnounceNoMem /\ timer' = TRUE
    BY <2>1
  <2>2. CASE (AnnounceNothing \/ AnnounceSent \/ AnnounceFull) /\ EnableWrite
    <3>1. active' = TRUE /\ edge' = (~alive' \/ unread' < SockCap) /\ unread' \in 0..SockCap
      BY <1>0, <2>2 DEF EnableWrite, Writable, AnnounceNothing, AnnounceSent, AnnounceFull, socket
    <3>2. CASE alive' /\ unread' = SockCap
      BY <3>1, <3>2 DEF IsSet
    <3>3. CASE ~alive' \/ unread' # SockCap
      <4>1. ~alive' \/ unread' < SockCap
        BY <1>0, <3>1, <3>3
      <4>2. edge'
        BY <3>1, <4>1
      <4> QED BY <3>1, <4>2 DEF IsSet
    <3> QED BY <3>2, <3>3
  <2>3. CASE AnnounceFails
    BY <1>0, <2>3 DEF AnnounceFails
  <2> QED BY <1>2, <2>1, <2>2, <2>3 DEF RearmNow
<1> QED BY <1>1, <1>2

\* The write event stays set when only the socket or the list changes.
LEMMA SetStep ==
  ASSUME UNCHANGED <<active, edge>>, IsSet,
         UNCHANGED <<alive, unread>> \/ unread # SockCap
  PROVE  IsSet'
BY DEF IsSet

LEMMA SetReads ==
  ASSUME PeerReads \/ PeerDies, IsSet
  PROVE  IsSet'
<1>1. CASE PeerDies
  BY <1>1 DEF PeerDies, IsSet
<1>2. CASE PeerReads
  <2>1. active /\ active' = active /\ (edge \/ unread = SockCap)
    BY <1>2 DEF PeerReads, IsSet
  <2>2. edge' \in IF active /\ unread = SockCap THEN {TRUE} ELSE {edge, active}
    BY <1>2 DEF PeerReads
  <2>3. edge'
    BY <2>1, <2>2
  <2> QED BY <2>1, <2>3 DEF IsSet
<1> QED BY <1>1, <1>2

\* Steps between the start of a send and its exit, which leave the event alone.
Middle(t) ==
  \/ SocketSend(t) \/ SendOk(t) \/ SentMore(t) \/ SendAgain(t) \/ AgainInline(t)
  \/ SentLast(t) \/ SentShare(t) \/ SentShareFails(t) \/ SendFails(t)
  \/ InsertTail(t) \/ InsertTailFails(t)

LEMMA MiddleEffects ==
  ASSUME Base, NEW t \in Threads, Middle(t)
  PROVE  /\ Only(t) /\ UNCHANGED <<active, edge, polled, timer, pending, alive, announce, script>>
         /\ IsSet => IsSet'
         /\ th[t].pc \in {"idle", "send", "sent", "again", "insert"}
         /\ th'[t].handler = th[t].handler
         /\ th[t].handler => /\ th[t].pc \in {"send", "sent", "again"}
                             /\ th'[t].pc \in {"first", "send", "sent", "again", "clean"}
<1>0. Types /\ GripAt(t) /\ th[t].handler \in BOOLEAN /\ Owner \in Threads
  BY Message, PortWriteAssumption DEF Base, ArmTypes, Grip
<1>1. UNCHANGED <<active, edge, polled, timer, pending, alive, announce, script>>
  BY DEF Middle, SocketSend, SendOk, SentMore, SendAgain, AgainInline, SentLast, SentShare,
     SentShareFails, SendFails, InsertTail, InsertTailFails, event, socket, history
<1>2. UNCHANGED <<alive, unread>> \/ unread # SockCap
  <2>1. SendOk(t) => unread # SockCap
    BY PortWriteAssumption DEF SendOk, Base, ArmTypes
  <2>2. ~SendOk(t) => UNCHANGED <<alive, unread>>
    BY DEF Middle, SocketSend, SentMore, SendAgain, AgainInline, SentLast, SentShare,
       SentShareFails, SendFails, InsertTail, InsertTailFails, event, socket, history
  <2> QED BY <2>1, <2>2
<1>3. CASE SocketSend(t)
  <2>1. th[t].pc = "idle" /\ th[t].handler = FALSE
    BY <1>3, IdleFields DEF SocketSend
  <2>2. PICK p : After(t, p, FALSE)
    BY <1>0, <1>3, SendCases
  <2> QED BY <1>1, <1>2, <2>1, <2>2, SetStep DEF After
<1>4. CASE SendOk(t) \/ SentMore(t) \/ SendAgain(t) \/ AgainInline(t)
  <2>1. PICK p : /\ GoesTo(t, p) /\ th[t].pc \in {"send", "sent", "again"}
                 /\ p \in {"sent", "send", "again"} \/ ~th[t].handler
    BY <1>0, <1>4, GoesEffects DEF SendOk, SentMore, SendAgain, AgainInline
  <2> QED BY <1>1, <1>2, <2>1, SetStep DEF GoesTo
<1>5. CASE SentLast(t) \/ SentShare(t)
  <2>1. /\ (After(t, "first", TRUE) /\ th[t].handler) \/ After(t, "clean", th[t].handler)
        /\ th[t].pc = "sent"
    BY <1>0, <1>5, OutEffects DEF SentLast, SentShare
  <2> QED BY <1>0, <1>1, <1>2, <2>1, SetStep DEF After
<1>6. CASE SentShareFails(t) \/ InsertTail(t) \/ InsertTailFails(t)
  <2>1. After(t, "clean", FALSE) /\ th[t].pc \in {"sent", "insert"}
    BY <1>0, <1>6, OutEffects DEF SentShareFails, InsertTail, InsertTailFails
  <2>2. th[t].handler = FALSE
    BY <1>0, <1>6, <2>1 DEF SentShareFails, InsertTail, InsertTailFails, GripAt, Takes, Holding
  <2> QED BY <1>1, <1>2, <2>1, <2>2, SetStep DEF After
<1>7. CASE SendFails(t)
  <2>1. /\ Only(t) /\ th'[t].pc = "clean" /\ th'[t].handler = th[t].handler
        /\ th[t].pc = "send"
    BY <1>0, <1>7, SendFailsEffect DEF SendFails
  <2> QED BY <1>1, <1>2, <2>1, SetStep
<1> QED BY <1>3, <1>4, <1>5, <1>6, <1>7 DEF Middle

LEMMA MarkerStep ==
  ASSUME Base, MarkerInv, [Next]_vars
  PROVE  MarkerInv'
<1> SUFFICES ASSUME announce' > 0, alive'
             PROVE  \/ pending' \/ timer' \/ polled' \/ IsSet' \/ Runs' \/ AtPc("clean")'
                    \/ \E u \in Threads : th'[u].pc = "rearm"
  BY DEF MarkerInv
<1>0. ArmTypes /\ Types /\ Grip /\ Owner \in Threads /\ announce \in Nat
  BY PortWriteAssumption DEF Base, ArmTypes
\* Nothing that would bring the re-arm back goes away.
<1>1. ASSUME announce > 0 /\ alive, UNCHANGED <<pending, timer, polled>>, IsSet => IsSet',
             Runs \/ AtPc("clean") => Runs' \/ AtPc("clean")',
             \A u \in Threads : th[u].pc = "rearm" => th'[u].pc = "rearm"
      PROVE  \/ pending' \/ timer' \/ polled' \/ IsSet' \/ Runs' \/ AtPc("clean")'
             \/ \E u \in Threads : th'[u].pc = "rearm"
  BY <1>1 DEF MarkerInv
<1>2. ASSUME NEW t \in Threads, Middle(t)
      PROVE  \/ pending' \/ timer' \/ polled' \/ IsSet' \/ Runs' \/ AtPc("clean")'
             \/ \E u \in Threads : th'[u].pc = "rearm"
  <2>1. /\ Only(t) /\ UNCHANGED <<active, edge, polled, timer, pending, alive, announce, script>>
        /\ IsSet => IsSet'
        /\ th[t].pc \in {"idle", "send", "sent", "again", "insert"}
        /\ th'[t].handler = th[t].handler
        /\ th[t].handler => /\ th[t].pc \in {"send", "sent", "again"}
                            /\ th'[t].pc \in {"first", "send", "sent", "again", "clean"}
    BY <1>2, MiddleEffects
  <2>2. Runs \/ AtPc("clean") => Runs' \/ AtPc("clean")'
    <3>1. CASE t = Owner
      BY <2>1, <3>1 DEF Runs, AtPc
    <3>2. CASE t # Owner
      BY <1>0, <2>1, <3>2 DEF Runs, AtPc, Only
    <3> QED BY <3>1, <3>2
  <2>3. \A u \in Threads : th[u].pc = "rearm" => th'[u].pc = "rearm"
    BY <2>1 DEF Only
  <2> QED BY <1>1, <2>1, <2>2, <2>3
<1>3. ASSUME NEW t \in Threads, Answer(t)
      PROVE  \/ pending' \/ timer' \/ polled' \/ IsSet' \/ Runs' \/ AtPc("clean")'
             \/ \E u \in Threads : th'[u].pc = "rearm"
  <2>1. After(t, "rearm", FALSE) \/ (After(t, "idle", FALSE) /\ announce' = announce)
    BY <1>0, <1>3, AnswerEffect DEF Answer
  <2>2. CASE After(t, "rearm", FALSE)
    BY <2>2 DEF After
  <2>3. CASE After(t, "idle", FALSE) /\ announce' = announce
    <3>1. UNCHANGED <<pending, timer, polled, active, edge, alive, unread>> /\ th[t].pc = "answer"
      BY <1>3 DEF Answer, event, socket
    <3>2. Runs \/ AtPc("clean") => Runs' \/ AtPc("clean")'
      <4>1. CASE t = Owner
        BY <3>1, <4>1 DEF Runs, AtPc
      <4>2. CASE t # Owner
        BY <1>0, <2>3, <4>2 DEF Runs, AtPc, After, Only
      <4> QED BY <4>1, <4>2
    <3>3. \A u \in Threads : th[u].pc = "rearm" => th'[u].pc = "rearm"
      BY <2>3, <3>1 DEF After, Only
    <3> QED BY <1>1, <2>3, <3>1, <3>2, <3>3, SetStep
  <2> QED BY <2>1, <2>2, <2>3
<1>4. ASSUME NEW t \in Threads, Cleanup(t)
      PROVE  timer' \/ \E u \in Threads : th'[u].pc = "rearm"
  <2>1. announce > 0 /\ alive /\ ~th[t].failed
    BY <1>0, <1>4 DEF Cleanup, socket, Grip, GripAt
  <2>2. CASE th[t].retry
    BY <1>4, <2>1, <2>2 DEF Cleanup, RetryLater
  <2>3. CASE ~th[t].retry
    BY <1>0, <1>4, <2>1, <2>3, GoesEffects DEF GoesTo
  <2> QED BY <2>2, <2>3
<1>5. ASSUME NEW t \in Threads, Rearm(t) PROVE pending' \/ timer' \/ IsSet'
  <2>1. CASE t = Owner
    <3>1. RearmNow(timer) /\ alive' = alive
      BY <1>0, <1>5, <2>1, RearmTypes DEF Rearm, Base
    <3> QED BY <1>0, <3>1, RearmArms
  <2>2. CASE t # Owner
    BY <1>5, <2>2 DEF Rearm
  <2> QED BY <2>1, <2>2
<1>6. ASSUME RearmPosted \/ TimerFires PROVE timer' \/ IsSet'
  <2>1. PICK a \in {timer, FALSE} : RearmNow(a)
    BY <1>6 DEF RearmPosted, TimerFires
  <2>2. alive' = alive
    BY <1>0, <2>1, RearmTypes DEF Base
  <2> QED BY <1>0, <2>1, <2>2, RearmArms
<1>7. CASE \/ PeerReads \/ PeerDies \/ UNCHANGED vars
           \/ (\E m \in Msgs : Cancel(m)) \/ (\E t \in Threads : ErrorHandler(t))
  <2>1. UNCHANGED <<pending, timer, polled, th, announce>> /\ (alive' => alive)
    BY <1>7 DEF PeerReads, PeerDies, vars, Cancel, ErrorHandler, event, socket
  <2>2. IsSet => IsSet'
    <3>1. CASE PeerReads \/ PeerDies
      BY <3>1, SetReads
    <3>2. CASE ~(PeerReads \/ PeerDies)
      <4>1. UNCHANGED <<active, edge, alive, unread>>
        BY <1>7, <3>2 DEF vars, Cancel, ErrorHandler, event, socket
      <4> QED BY <4>1, SetStep
    <3> QED BY <3>1, <3>2
  <2>3. Runs' = Runs /\ AtPc("clean")' = AtPc("clean")
    BY <2>1 DEF Runs, AtPc
  <2> QED BY <1>1, <2>1, <2>2, <2>3
<1>8. CASE Poll
  BY <1>8 DEF Poll
<1>9. ASSUME HandlerStart \/ HandlerFirst \/ HandlerBlock \/ AgainHandler
      PROVE  Runs' \/ AtPc("clean")'
  <2>1. CASE HandlerBlock
    <3>1. GoesTo(Owner, "clean") /\ th[Owner].pc = "block"
      BY <1>0, <2>1, GoesEffects DEF HandlerBlock
    <3> QED BY <1>0, <3>1 DEF Grip, GripAt, GoesTo, AtPc
  <2>2. CASE HandlerStart \/ HandlerFirst \/ AgainHandler
    BY <1>0, <2>2, HandlerEffects DEF After, Runs, AtPc
  <2> QED BY <1>9, <2>1, <2>2
<1> QED BY <1>2, <1>3, <1>4, <1>5, <1>6, <1>7, <1>8, <1>9 DEF Next, Inline, Middle, Engine

-----------------------------------------------------------------------------
(* Messages.                                                               *)

ErrTypes == errq \in [Threads -> Nat]

LEMMA ErrStep ==
  ASSUME ErrTypes, [Next]_vars
  PROVE  ErrTypes'
<1>0. Owner \in Threads
  BY PortWriteAssumption
<1>1. \/ errq' = errq
      \/ \E t \in Threads : errq' = [errq EXCEPT ![t] = @ + 1]
      \/ \E t \in Threads : errq[t] > 0 /\ errq' = [errq EXCEPT ![t] = @ - 1]
  <2>1. ASSUME NEW a, RearmNow(a)
        PROVE  errq' = errq \/ errq' = [errq EXCEPT ![Owner] = @ + 1]
    BY <2>1 DEF RearmNow, AnnounceSent, AnnounceFull, AnnounceNothing, AnnounceNoMem, AnnounceFails
  <2>2. CASE RearmPosted \/ TimerFires
    BY <1>0, <2>1, <2>2 DEF RearmPosted, TimerFires
  <2>3. CASE \E t \in Threads : Rearm(t)
    BY <1>0, <2>1, <2>3 DEF Rearm
  <2>4. CASE \E t \in Threads : Middle(t) \/ Answer(t) \/ Cleanup(t) \/ ErrorHandler(t)
    BY <2>4 DEF Middle, SocketSend, Answer, SendOk, SentMore, SendAgain, AgainInline, SentLast,
       SentShare, SentShareFails, SendFails, InsertTail, InsertTailFails, Cleanup, ErrorHandler
  <2>5. CASE \/ Poll \/ HandlerStart \/ HandlerFirst \/ HandlerBlock \/ AgainHandler
             \/ PeerReads \/ PeerDies \/ UNCHANGED vars \/ \E m \in Msgs : Cancel(m)
    BY <2>5 DEF Poll, HandlerStart, HandlerFirst, HandlerBlock, AgainHandler, PeerReads,
       PeerDies, vars, Cancel
  <2> QED BY <2>2, <2>3, <2>4, <2>5 DEF Next, Inline, Middle, Engine
<1> QED BY <1>1 DEF ErrTypes

\* A message that was cut stays cut.
LEMMA CutStep ==
  ASSUME Base, [Next]_vars, NEW m \in Msgs, ends[m] = <<"cut">>
  PROVE  ends'[m] = <<"cut">>
<1>0. Types /\ ends \in [Msgs -> Seq(Hows)]
  BY DEF Base, ArmTypes, Types
<1>1. ASSUME NEW x \in Msgs, ends[x] # <<"cut">>, NEW how,
             ends' = ends \/ ends' = [ends EXCEPT ![x] = Append(@, how)]
      PROVE  ends'[m] = <<"cut">>
  BY <1>0, <1>1
<1>2. ASSUME NEW t \in Threads, SocketSend(t) PROVE ends'[m] = <<"cut">>
  <2>1. PICK x : x = <<t, next[t] + 1>>
    OBVIOUS
  <2>2. ends' = ends \/ \E how : ends' = [ends EXCEPT ![x] = Append(@, how)]
    BY <1>0, <1>2, <2>1, SendCases
  <2>3. x \in Msgs /\ ~Begun(x)
    <3>1. script[t] \in Seq(Kinds)
      BY <1>0, PortWriteAssumption DEF Types
    <3>2. next[t] \in Nat /\ Len(script[t]) \in Nat /\ next[t] < Len(script[t])
      BY <1>0, <1>2, <3>1 DEF Types, SocketSend
    <3>3. x[1] = t /\ x[2] = next[t] + 1
      BY <2>1
    <3> QED BY <2>1, <3>2, <3>3 DEF Msgs, Begun
  <2>4. Len(<<"cut">>) = 1 /\ Len(<<>>) = 0
    OBVIOUS
  <2>5. ends[x] # <<"cut">>
    BY <2>3, <2>4 DEF Base, Apart
  <2> QED BY <1>0, <1>1, <2>2, <2>3, <2>5
<1>3. ASSUME NEW t \in Threads,
             SentLast(t) \/ SentShareFails(t) \/ SendFails(t) \/ InsertTailFails(t)
      PROVE  ends'[m] = <<"cut">>
  <2>1. /\ th[t].pc \in Holding
        /\ ends' = ends \/ \E how : ends' = [ends EXCEPT ![th[t].m] = Append(@, how)]
    BY <1>3 DEF SentLast, SentShareFails, SendFails, InsertTailFails, End, Holding
  <2>2. th[t].m \in Msgs /\ ends[th[t].m] # <<"cut">>
    BY <2>1, AtHand
  <2> QED BY <1>0, <1>1, <2>1, <2>2
<1>4. ASSUME NEW t \in Threads, ErrorHandler(t) PROVE ends'[m] = <<"cut">>
  <2>1. m \notin Listed
    BY ListedApart
  <2> QED BY <1>4, <2>1 DEF ErrorHandler
<1>5. ASSUME NEW x \in Msgs, Cancel(x) PROVE ends'[m] = <<"cut">>
  <2>1. ends' = [ends EXCEPT ![x] = Append(@, "cancelled")] /\ x \in Listed
    BY <1>5 DEF Cancel, End
  <2>2. ends[x] # <<"cut">>
    BY <2>1, ListedApart
  <2> QED BY <1>1, <2>1, <2>2
<1>6. CASE \/ \E t \in Threads : \/ Answer(t) \/ Rearm(t) \/ SendOk(t) \/ SentMore(t)
                                 \/ SentShare(t) \/ SendAgain(t) \/ AgainInline(t)
                                 \/ InsertTail(t) \/ Cleanup(t)
           \/ Engine \/ PeerReads \/ PeerDies \/ UNCHANGED vars
  <2>1. ends' = ends
    BY <1>6 DEF Answer, Rearm, SendOk, SentMore, SentShare, SendAgain, AgainInline, InsertTail,
       Cleanup, Engine, Poll, HandlerStart, HandlerFirst, HandlerBlock, AgainHandler,
       RearmPosted, TimerFires, PeerReads, PeerDies, vars, history
  <2> QED BY <2>1
<1> QED BY <1>2, <1>3, <1>4, <1>5, <1>6 DEF Next, Inline

\* An exit that does not re-arm is never forgotten.
LEMMA SaneStep ==
  ASSUME Base, [Next]_vars, Sane'
  PROVE  Sane
<1>0. ArmTypes /\ Owing /\ script' = script
  <2>1. script' = script
    BY DEF Next, Inline, Engine, SocketSend, Answer, Rearm, SendOk, SentLast, SentMore, SentShare,
       SentShareFails, SendFails, SendAgain, AgainInline, InsertTail, InsertTailFails, Cleanup,
       ErrorHandler, Poll, HandlerStart, HandlerFirst, HandlerBlock, AgainHandler, RearmPosted,
       TimerFires, Cancel, PeerReads, PeerDies, vars, history
  <2> QED BY <2>1 DEF Base
<1>1. ~stale
  BY DEF Next, Inline, Engine, SocketSend, Answer, Rearm, SendOk, SentLast, SentMore, SentShare,
     SentShareFails, SendFails, SendAgain, AgainInline, InsertTail, InsertTailFails, Cleanup,
     ErrorHandler, Poll, HandlerStart, HandlerFirst, HandlerBlock, AgainHandler, RearmPosted,
     TimerFires, Cancel, PeerReads, PeerDies, vars, history, Sane
<1>2. NoCut
  BY <1>0, CutStep, SameMsgs DEF NoCut, Sane
<1>3. (alive' => alive) /\ (faults' = 0 => faults = 0)
  <2>1. ASSUME NEW a, RearmNow(a) PROVE alive' = alive /\ (faults' = 0 => faults = 0)
    BY <1>0, <2>1, RearmTypes
  <2>2. CASE RearmPosted \/ TimerFires
    BY <2>1, <2>2 DEF RearmPosted, TimerFires
  <2>3. CASE \E t \in Threads : Rearm(t)
    BY <2>1, <2>3 DEF Rearm, socket
  <2>4. CASE ~(RearmPosted \/ TimerFires \/ \E t \in Threads : Rearm(t))
    <3>1. alive' => alive
      BY <2>4 DEF Next, Inline, Engine, SocketSend, Answer, SendOk, SentLast, SentMore, SentShare,
         SentShareFails, SendFails, SendAgain, AgainInline, InsertTail, InsertTailFails, Cleanup,
         ErrorHandler, Poll, HandlerStart, HandlerFirst, HandlerBlock, AgainHandler,
         Cancel, PeerReads, PeerDies, vars, socket
    <3>2. faults' = faults \/ faults' = faults + 1
      BY <2>4 DEF Next, Inline, Engine, SocketSend, Answer, SendOk, SentLast, SentMore, SentShare,
         SentShareFails, SendFails, SendAgain, AgainInline, InsertTail, InsertTailFails, Cleanup,
         ErrorHandler, Poll, HandlerStart, HandlerFirst, HandlerBlock, AgainHandler,
         Cancel, PeerReads, PeerDies, vars, AllocFails
    <3>3. faults \in Nat
      BY <1>0 DEF ArmTypes
    <3> QED BY <3>1, <3>2, <3>3
  <2> QED BY <2>2, <2>3, <2>4
<1> QED BY <1>1, <1>2, <1>3 DEF Sane

\* Who was on its way to the re-arm still is.
LEMMA GoingStep ==
  ASSUME NEW t \in Threads, Only(t), pending => pending', timer => timer',
         t # Owner => (Going(t) => Going(t)')
  PROVE  /\ Others => Others'
         /\ t # Owner => (Going(Owner) => Going(Owner)')
<1>0. Owner \in Threads
  BY PortWriteAssumption
<1>1. ASSUME NEW u \in Threads, u # t PROVE Going(u)' = Going(u)
  BY <1>1 DEF Going, Only
<1>2. ASSUME NEW u \in Threads \ {Owner}, Going(u) PROVE Going(u)'
  BY <1>1, <1>2
<1>3. Others => Others'
  BY <1>2 DEF Others
<1> QED BY <1>0, <1>1, <1>3

\* A step that leaves the write handler where it was.
LEMMA StillArmed ==
  ASSUME ReadyArmed, ListArmed, Others => Others',
         Going(Owner) => Going(Owner)' \/ Others', IsSet => IsSet',
         polled' = polled, Runs' = Runs, AtPc("block")' = AtPc("block"),
         ~ready' => ~ready \/ Others' \/ (~polled' /\ ~Runs' /\ Going(Owner)'),
         messages' # <<>> => messages # <<>> \/ ~ready \/ Others'
                             \/ (Going(Owner)' /\ ~AtPc("block")'),
         Errors => Errors' \/ messages' = <<>>
  PROVE  ReadyArmed' /\ ListArmed'
<1>1. AtPc("block") => Runs
  BY DEF AtPc, Runs
<1>2. ReadyArmed'
  BY DEF ReadyArmed
<1>3. ListArmed'
  <2>1. CASE Others'
    BY <2>1 DEF ListArmed
  <2>2. CASE ~Others' /\ messages # <<>>
    BY <2>2 DEF ListArmed
  <2>3. CASE ~Others' /\ ~ready
    BY <1>1, <2>3 DEF ListArmed, ReadyArmed
  <2>4. CASE Going(Owner)' /\ ~AtPc("block")'
    BY <2>4 DEF ListArmed
  <2> QED BY <2>1, <2>2, <2>3, <2>4 DEF ListArmed
<1> QED BY <1>2, <1>3

LEMMA OthersArmed ==
  ASSUME Others'
  PROVE  ReadyArmed' /\ ListArmed'
BY DEF ReadyArmed, ListArmed

LEMMA ErrorsRise ==
  ASSUME ErrTypes, NEW t \in Threads, errq' = errq \/ errq' = [errq EXCEPT ![t] = @ + 1]
  PROVE  /\ Errors => Errors'
         /\ errq' = [errq EXCEPT ![t] = @ + 1] => Errors'
<1>1. CASE errq' = errq
  <2>1. errq' = [errq EXCEPT ![t] = @ + 1] => FALSE
    BY <1>1 DEF ErrTypes
  <2> QED BY <1>1, <2>1 DEF Errors
<1>2. CASE errq' = [errq EXCEPT ![t] = @ + 1]
  <2>1. errq'[t] > 0
    BY <1>2 DEF ErrTypes
  <2> QED BY <2>1 DEF Errors
<1> QED BY <1>1, <1>2

\* Steps of a send, of the write handler too, before its exit.
LEMMA ArmMiddle ==
  ASSUME Base, ErrTypes, ReadyArmed, ListArmed, AgainArmed, Sane', NEW t \in Threads, Middle(t)
  PROVE  ReadyArmed' /\ ListArmed' /\ AgainArmed'
<1>0. ArmTypes /\ Types /\ Owing /\ GripAt(t) /\ Owner \in Threads /\ th[t].handler \in BOOLEAN
      /\ (th[t].handler => t = Owner)
  BY Message, PortWriteAssumption DEF Base, ArmTypes, Grip, GripAt
<1>1. /\ Only(t) /\ UNCHANGED <<active, edge, polled, timer, pending, alive, announce, script>>
      /\ IsSet => IsSet'
      /\ th[t].pc \in {"idle", "send", "sent", "again", "insert"}
      /\ th'[t].handler = th[t].handler
      /\ th[t].handler => /\ th[t].pc \in {"send", "sent", "again"}
                          /\ th'[t].pc \in {"first", "send", "sent", "again", "clean"}
  BY MiddleEffects
<1>2. AgainArmed'
  <2>1. CASE SendAgain(t)
    <3>1. error' = "full" => alive' /\ unread' = SockCap
      BY <2>1 DEF SendAgain
    <3> QED BY <3>1 DEF AgainArmed, IsSet
  <2>2. CASE SendOk(t)
    BY <2>2 DEF SendOk, AgainArmed
  <2>3. CASE ~SendAgain(t) /\ ~SendOk(t)
    <3>1. error' = error
      BY <2>3 DEF Middle, SocketSend, SentMore, AgainInline, SentLast, SentShare,
         SentShareFails, SendFails, InsertTail, InsertTailFails, socket
    <3>2. AtPc("again")' => AtPc("again")
      <4>1. CASE t = Owner
        <5>1. th[t].handler => th'[t].pc # "again"
          <6>1. CASE SentMore(t)
            BY <1>0, <6>1, GoesEffects DEF GoesTo
          <6>2. CASE SentLast(t) \/ SentShare(t)
            BY <1>0, <6>2, OutEffects DEF After
          <6>3. CASE SendFails(t)
            BY <1>0, <6>3, SendFailsEffect
          <6>4. CASE SocketSend(t) \/ AgainInline(t) \/ SentShareFails(t) \/ InsertTail(t)
                     \/ InsertTailFails(t)
            <7>1. ~th[t].handler
              BY <1>0, <6>4, IdleFields DEF SocketSend, AgainInline, SentShareFails, InsertTail,
                 InsertTailFails, GripAt, Takes, Holding
            <7> QED BY <7>1
          <6> QED BY <2>3, <6>1, <6>2, <6>3, <6>4 DEF Middle
        <5> QED BY <1>1, <4>1, <5>1 DEF AtPc
      <4>2. CASE t # Owner
        BY <1>0, <1>1, <4>2 DEF AtPc, Only
      <4> QED BY <4>1, <4>2
    <3> QED BY <1>1, <3>1, <3>2 DEF AgainArmed
  <2> QED BY <2>1, <2>2, <2>3
<1>3. /\ Errors => Errors'
      /\ SendFails(t) => Errors'
  <2>1. errq' = errq \/ errq' = [errq EXCEPT ![t] = @ + 1]
    BY DEF Middle, SocketSend, SendOk, SentMore, SendAgain, AgainInline, SentLast, SentShare,
       SentShareFails, SendFails, InsertTail, InsertTailFails
  <2>2. SendFails(t) => errq' = [errq EXCEPT ![t] = @ + 1]
    BY DEF SendFails
  <2> QED BY <2>1, <2>2, ErrorsRise
\* The write handler.
<1>4. CASE th[t].handler
  <2>1. t = Owner /\ ~polled' /\ Runs /\ (Others => Others')
    <3>1. t = Owner
      BY <1>0, <1>4
    <3>2. Runs /\ ~polled'
      BY <1>0, <1>1, <1>4, <3>1 DEF Runs, Owing
    <3> QED BY <1>1, <3>1, <3>2, GoingStep
  <2>2. ready' = ready
    BY <1>4 DEF Middle, SocketSend, SendOk, SentMore, SendAgain, AgainInline, SentLast, SentShare,
       SentShareFails, SendFails, InsertTail, InsertTailFails, socket
  <2>3. CASE ~ready
    <3>1. Others'
      BY <2>1, <2>3 DEF ReadyArmed
    <3> QED BY <1>2, <3>1, OthersArmed
  <2>4. CASE ready
    <3>1. ReadyArmed'
      BY <2>2, <2>4 DEF ReadyArmed
    <3>2. ~AtPc("block")'
      BY <1>1, <1>4, <2>1 DEF AtPc
    <3>3. Runs' \/ Errors'
      <4>1. CASE SendFails(t)
        BY <1>3, <4>1
      <4>2. CASE ~SendFails(t)
        <5>1. th'[t].pc # "clean"
          <6>1. CASE SentLast(t) \/ SentShare(t)
            BY <1>0, <1>4, <2>4, <6>1, OutEffects DEF After
          <6>2. CASE SendOk(t) \/ SentMore(t) \/ SendAgain(t)
            BY <1>0, <6>2, GoesEffects DEF GoesTo
          <6>3. CASE SocketSend(t) \/ AgainInline(t) \/ SentShareFails(t) \/ InsertTail(t)
                     \/ InsertTailFails(t)
            <7>1. ~th[t].handler
              BY <1>0, <6>3, IdleFields DEF SocketSend, AgainInline, SentShareFails, InsertTail,
                 InsertTailFails, GripAt, Takes, Holding
            <7> QED BY <1>4, <7>1
          <6> QED BY <4>2, <6>1, <6>2, <6>3 DEF Middle
        <5> QED BY <1>1, <1>4, <2>1, <5>1 DEF Runs
      <4> QED BY <4>1, <4>2
    <3>4. ListArmed'
      BY <3>2, <3>3 DEF ListArmed
    <3> QED BY <1>2, <3>1, <3>4
  <2> QED BY <2>3, <2>4
\* A send on the stack of its caller.
<1>5. CASE ~th[t].handler
  <2>1. Runs' = Runs /\ AtPc("block")' = AtPc("block")
    <3>1. CASE t = Owner
      <4>1. ~Runs' /\ ~Runs /\ ~AtPc("block")' /\ ~AtPc("block")
        BY <1>1, <1>5, <3>1 DEF Runs, AtPc
      <4> QED BY <4>1 DEF Runs, AtPc
    <3>2. CASE t # Owner
      BY <1>0, <1>1, <3>2 DEF Runs, AtPc, Only
    <3> QED BY <3>1, <3>2
  <2>2. Going(t) => th[t].pc = "insert"
    BY <1>1 DEF Going
  <2>3. AgainInline(t) \/ InsertTail(t) \/ InsertTailFails(t) \/ SentShare(t) => Going(t)'
    <3>1. CASE AgainInline(t)
      BY <1>0, <3>1, GoesEffects DEF GoesTo, Going
    <3>2. CASE InsertTail(t)
      BY <1>0, <3>2, OutEffects DEF After, Going
    <3>3. CASE SentShare(t)
      BY <1>0, <1>5, <3>3, OutEffects DEF After, Going
    <3>4. CASE InsertTailFails(t)
      <4>b. PICK x : x = th[t].m
        OBVIOUS
      <4>1. CASE FirstFragment(x)
        BY <1>0, <3>4, <4>b, <4>1, OutEffects DEF After, Going
      <4>2. CASE ~FirstFragment(x)
        <5>1. th[t].pc = "insert" /\ Holds(t) /\ th[t].pc \in Holding
          BY <1>5, <3>4 DEF InsertTailFails, Holds, Holding
        <5>2. x \in Msgs /\ ends[x] = <<>> /\ (Kind(x) # "big" => left[x] = 1)
          BY <1>0, <4>b, <5>1 DEF GripAt
        <5>3. Kind(x) = "big"
          BY <4>2, <5>2 DEF FirstFragment, Fragments
        <5>4. ends' = [ends EXCEPT ![x] = Append(@, "cut")]
          BY <3>4, <4>b, <4>2, <5>3 DEF InsertTailFails, End
        <5>5. ends'[x] = <<"cut">>
          <6>1. ends \in [Msgs -> Seq(Hows)]
            BY <1>0 DEF Types
          <6>2. ends'[x] = Append(<<>>, "cut")
            BY <5>2, <5>4, <6>1
          <6> QED BY <6>2
        <5>6. Msgs' = Msgs
          BY <1>1, SameMsgs
        <5> QED BY <5>2, <5>5, <5>6 DEF Sane, NoCut
      <4> QED BY <4>1, <4>2
    <3> QED BY <3>1, <3>2, <3>3, <3>4
  <2>4. Going(t) => Going(t)'
    <3>1. th[t].pc = "insert" => InsertTail(t) \/ InsertTailFails(t)
      BY IdleFields DEF Middle, SocketSend, SendOk, SentMore, SendAgain, AgainInline, SentLast,
         SentShare, SentShareFails, SendFails
    <3> QED BY <2>2, <2>3, <3>1
  <2>5. (Others => Others') /\ (Going(Owner) => Going(Owner)')
    BY <1>1, <2>4, GoingStep
  <2>6. t # Owner /\ Going(t)' => Others'
    BY DEF Others
  <2>7. t = Owner => ~Runs' /\ ~AtPc("block")'
    BY <1>1, <1>5 DEF Runs, AtPc
  <2>8. ~ready' => ~ready \/ Others' \/ (~polled' /\ ~Runs' /\ Going(Owner)')
    <3>1. CASE AgainInline(t)
      <4>1. t = Owner => ~polled'
        BY <1>1, <3>1 DEF AgainInline, Sane
      <4> QED BY <2>3, <2>6, <2>7, <3>1, <4>1
    <3>2. CASE ~AgainInline(t)
      <4>1. ready' = ready
        BY <3>2 DEF Middle, SocketSend, SendOk, SentMore, SendAgain, SentLast, SentShare,
           SentShareFails, SendFails, InsertTail, InsertTailFails, socket
      <4> QED BY <4>1
    <3> QED BY <3>1, <3>2
  <2>9. messages' # <<>> => messages # <<>> \/ ~ready \/ Others'
                            \/ (Going(Owner)' /\ ~AtPc("block")')
    <3>1. CASE InsertTail(t) \/ SentShare(t)
      BY <2>3, <2>6, <2>7, <3>1
    <3>2. CASE SocketSend(t)
      <4>1. PICK x : x = <<t, next[t] + 1>>
        OBVIOUS
      <4> QED BY <1>0, <3>2, <4>1, SendCases
    <3>3. CASE ~(InsertTail(t) \/ SentShare(t) \/ SocketSend(t))
      <4>1. messages' = messages
        BY <1>5, <3>3 DEF Middle, SendOk, SentMore, SendAgain, AgainInline, SentLast,
           SentShareFails, SendFails, InsertTailFails, list
      <4> QED BY <4>1
    <3> QED BY <3>1, <3>2, <3>3
  <2>10. polled' = polled /\ (IsSet => IsSet')
    BY <1>1
  <2> QED BY <1>2, <1>3, <2>1, <2>5, <2>8, <2>9, <2>10, StillArmed
<1> QED BY <1>4, <1>5

\* The answer, and the exit with its paced retry.
LEMMA ArmExit ==
  ASSUME Base, ReadyArmed, ListArmed, AgainArmed, NEW t \in Threads, Answer(t) \/ Cleanup(t)
  PROVE  ReadyArmed' /\ ListArmed' /\ AgainArmed'
<1>0. Types /\ Owner \in Threads
  BY PortWriteAssumption DEF Base, ArmTypes
<1>1. /\ UNCHANGED <<ready, error, alive, unread, messages, errq, polled, pending>>
      /\ th[t].pc \in {"answer", "clean"}
  BY DEF Answer, Cleanup, socket, list, event
<1>2. Only(t) /\ th'[t].pc \in {"rearm", "answer", "idle"}
  <2>1. CASE Answer(t)
    BY <1>0, <2>1, AnswerEffect DEF After
  <2>2. CASE Cleanup(t)
    BY <1>0, <2>2, GoesEffects DEF GoesTo
  <2> QED BY <2>1, <2>2
<1>3. (Runs' = Runs) /\ (AtPc("block")' = AtPc("block")) /\ (AtPc("again")' = AtPc("again"))
  <2>1. CASE t = Owner
    <3>1. /\ ~Runs' /\ ~Runs /\ ~AtPc("block")' /\ ~AtPc("block")
          /\ ~AtPc("again")' /\ ~AtPc("again")
      BY <1>1, <1>2, <2>1 DEF Runs, AtPc
    <3> QED BY <3>1 DEF Runs, AtPc
  <2>2. CASE t # Owner
    BY <1>0, <1>2, <2>2 DEF Runs, AtPc, Only
  <2> QED BY <2>1, <2>2
<1>4. Errors' = Errors
  BY <1>1 DEF Errors
<1>5. CASE Cleanup(t) /\ ~th[t].failed /\ th[t].retry
  <2>1. timer' /\ (~active' \/ (timer /\ UNCHANGED <<active, edge>>))
    BY <1>5 DEF Cleanup, RetryLater
  <2>2. Others'
    BY <2>1 DEF Others
  <2>3. AgainArmed'
    BY <1>1, <1>3, <2>1 DEF AgainArmed, IsSet
  <2> QED BY <2>2, <2>3, OthersArmed
<1>6. CASE ~(Cleanup(t) /\ ~th[t].failed /\ th[t].retry)
  <2>1. UNCHANGED <<active, edge, timer>>
    BY <1>6 DEF Cleanup, Answer, event
  <2>2. Going(t) => Going(t)'
    <3>1. ASSUME Going(t) PROVE Cleanup(t) /\ ~th[t].failed /\ th[t].enable /\ ~th[t].retry
      BY <1>1, <1>6, <3>1 DEF Going, Answer
    <3>2. ASSUME Going(t) PROVE GoesTo(t, "rearm")
      BY <1>0, <3>1, <3>2, GoesEffects
    <3> QED BY <3>2 DEF GoesTo, Going
  <2>3. (Others => Others') /\ (Going(Owner) => Going(Owner)')
    BY <1>1, <1>2, <2>1, <2>2, GoingStep
  <2>4. IsSet' = IsSet
    BY <1>1, <2>1 DEF IsSet
  <2>5. AgainArmed'
    BY <1>1, <1>3, <2>1, <2>4 DEF AgainArmed
  <2> QED BY <1>1, <1>3, <1>4, <2>3, <2>4, <2>5, StillArmed
<1> QED BY <1>5, <1>6

\* The re-arm, inline, posted and from the timer.
LEMMA ArmRearm ==
  ASSUME Base, ReadyArmed, ListArmed, AgainArmed, Sane, Sane',
         (\E t \in Threads : Rearm(t)) \/ RearmPosted \/ TimerFires
  PROVE  ReadyArmed' /\ ListArmed' /\ AgainArmed'
<1>0. ArmTypes /\ Types /\ Owing /\ Owner \in Threads
  BY PortWriteAssumption DEF Base, ArmTypes
<1>1. ASSUME NEW a, a => timer, RearmNow(a) PROVE timer' \/ IsSet'
  <2>1. announce = 0 \/ alive
    BY <1>0 DEF Sane, Owing
  <2> QED BY <1>0, <1>1, <2>1, RearmArms
<1>2. CASE RearmPosted \/ TimerFires
  <2>1. PICK a \in {timer, FALSE} : RearmNow(a)
    BY <1>2 DEF RearmPosted, TimerFires
  <2>2. timer' \/ IsSet'
    BY <1>1, <2>1
  <2>3. th'[Owner] = Idle /\ ~polled'
    <3>1. th[Owner] = Idle /\ ~polled
      BY <1>2 DEF RearmPosted, TimerFires, QueuesEmpty
    <3>2. th' = th /\ polled' = polled
      BY <1>2 DEF RearmPosted, TimerFires
    <3> QED BY <3>1, <3>2
  <2>4. ~polled' /\ ~Runs' /\ ~AtPc("block")' /\ ~AtPc("again")'
    BY <2>3, IdleFields DEF Runs, AtPc
  <2> QED BY <2>2, <2>4 DEF ReadyArmed, ListArmed, AgainArmed, Others
<1>3. ASSUME NEW t \in Threads, Rearm(t) PROVE ReadyArmed' /\ ListArmed' /\ AgainArmed'
  <2>1. Only(t) /\ th'[t].pc = "answer"
    BY <1>0, <1>3, GoesEffects DEF GoesTo
  <2>2. CASE t # Owner
    <3>1. /\ pending' /\ UNCHANGED <<active, edge, error, alive, unread>>
          /\ th'[Owner] = th[Owner]
      BY <1>0, <1>3, <2>1, <2>2 DEF Rearm, socket, Only
    <3>2. AgainArmed'
      BY <3>1 DEF AgainArmed, AtPc, IsSet
    <3> QED BY <3>1, <3>2, OthersArmed DEF Others
  <2>3. CASE t = Owner
    <3>1. /\ RearmNow(timer) /\ pending' = pending /\ polled' = polled
          /\ polled => ready' = ready
      BY <1>3, <2>3 DEF Rearm, Sane
    <3>2. timer' \/ IsSet'
      BY <1>1, <3>1
    <3>3. ~Runs' /\ ~AtPc("block")' /\ ~AtPc("again")'
      BY <2>1, <2>3 DEF Runs, AtPc
    <3>4. AgainArmed' /\ ListArmed'
      BY <3>2, <3>3 DEF AgainArmed, ListArmed, Others
    <3>5. ReadyArmed'
      <4>1. CASE timer'
        BY <4>1, OthersArmed DEF Others
      <4>2. CASE ~timer' /\ IsSet'
        <5>1. ~timer
          BY <3>1, <4>2 DEF RearmNow
        <5>2. Others => Others'
          BY <2>1, <2>3, <3>1, <5>1, GoingStep
        <5>3. ASSUME polled, ~ready' PROVE Others'
          BY <3>1, <5>2, <5>3 DEF ReadyArmed
        <5> QED BY <3>1, <3>3, <4>2, <5>3 DEF ReadyArmed
      <4> QED BY <3>2, <4>1, <4>2
    <3> QED BY <3>4, <3>5
  <2> QED BY <2>2, <2>3
<1> QED BY <1>2, <1>3

\* The poller and the write handler.
LEMMA ArmHandler ==
  ASSUME Base, ReadyArmed, ListArmed, AgainArmed,
         Poll \/ HandlerStart \/ HandlerFirst \/ HandlerBlock \/ AgainHandler
  PROVE  ReadyArmed' /\ ListArmed' /\ AgainArmed'
<1>0. ArmTypes /\ Types /\ Owing /\ Owner \in Threads /\ GripAt(Owner)
  BY PortWriteAssumption DEF Base, ArmTypes, Grip
<1>1. CASE Poll
  <2>1. ready' /\ polled' /\ th'[Owner] = Idle
    BY <1>1 DEF Poll, QueuesEmpty
  <2>2. ~AtPc("block")' /\ ~AtPc("again")'
    BY <2>1, IdleFields DEF AtPc
  <2> QED BY <2>1, <2>2 DEF ReadyArmed, ListArmed, AgainArmed
<1>2. ASSUME Only(Owner), UNCHANGED <<pending, timer>> PROVE Others => Others'
  BY <1>0, <1>2, GoingStep
<1>3. CASE HandlerStart
  <2>1. /\ After(Owner, "first", TRUE) /\ polled
        /\ UNCHANGED <<pending, timer, ready, messages>>
    BY <1>0, <1>3, HandlerEffects DEF HandlerStart, socket, list
  <2>2. Runs' /\ ~AtPc("block")' /\ ~AtPc("again")' /\ Only(Owner)
    BY <2>1 DEF Runs, AtPc, After
  <2>3. ~ready' => Others'
    BY <1>2, <2>1, <2>2 DEF ReadyArmed
  <2> QED BY <2>2, <2>3 DEF ReadyArmed, ListArmed, AgainArmed
<1>4. CASE HandlerFirst
  <2>1. /\ th[Owner].pc = "first" /\ th[Owner].handler
        /\ UNCHANGED <<pending, timer, ready, messages>>
    BY <1>0, <1>4 DEF HandlerFirst, event, socket, list, GripAt
  <2>2. /\ Only(Owner) /\ th'[Owner].handler
        /\ th'[Owner].pc = IF messages = <<>> THEN "block" ELSE "send"
    BY <1>0, <1>4, HandlerEffects DEF After
  <2>3. Runs /\ Runs' /\ ~AtPc("again")' /\ (AtPc("block")' => messages' = <<>>)
    BY <2>1, <2>2 DEF Runs, AtPc
  <2>4. ~ready' => Others'
    BY <1>2, <2>1, <2>2, <2>3 DEF ReadyArmed
  <2> QED BY <2>3, <2>4 DEF ReadyArmed, ListArmed, AgainArmed
<1>5. CASE HandlerBlock
  <2>1. /\ th[Owner].pc = "block" /\ th[Owner].handler
        /\ UNCHANGED <<pending, timer, ready, messages, errq>>
    BY <1>0, <1>5 DEF HandlerBlock, socket, list, GripAt
  <2>2. Only(Owner) /\ th'[Owner].handler /\ th'[Owner].pc = "clean"
    BY <1>0, <1>5, <2>1, GoesEffects DEF GoesTo
  <2>3. Runs /\ AtPc("block") /\ ~AtPc("block")' /\ ~AtPc("again")'
    BY <2>1, <2>2 DEF Runs, AtPc
  <2>4. Errors' = Errors
    BY <2>1 DEF Errors
  <2>5. Others => Others'
    BY <1>2, <2>1, <2>2
  <2>6. ReadyArmed'
    BY <2>1, <2>3, <2>5 DEF ReadyArmed
  <2>7. ListArmed'
    BY <2>1, <2>3, <2>4, <2>5 DEF ListArmed
  <2> QED BY <2>3, <2>6, <2>7 DEF AgainArmed
<1>6. CASE AgainHandler
  <2>1. /\ AtPc("again") /\ ~polled' /\ UNCHANGED <<active, edge, alive, unread>>
    BY <1>0, <1>6 DEF AgainHandler, AtPc, event, Owing
  <2>2. /\ th'[Owner].pc = "clean" /\ ~th'[Owner].failed
        /\ th'[Owner].retry = (error # "full") /\ th'[Owner].enable = ~active
    BY <1>0, <1>6, HandlerEffects DEF After
  <2>3. ~Runs' /\ ~AtPc("block")' /\ ~AtPc("again")'
    BY <2>2 DEF Runs, AtPc
  <2>4. Going(Owner)' \/ IsSet'
    <3>1. CASE error = "full" /\ active
      <4>1. IsSet
        BY <2>1, <3>1 DEF AgainArmed
      <4> QED BY <2>1, <4>1 DEF IsSet
    <3>2. CASE error # "full"
      <4>1. th'[Owner].retry
        BY <2>2, <3>2
      <4> QED BY <2>2, <4>1 DEF Going
    <3>3. CASE ~active
      <4>1. th'[Owner].enable
        BY <2>2, <3>3
      <4> QED BY <2>2, <4>1 DEF Going
    <3> QED BY <3>1, <3>2, <3>3
  <2> QED BY <2>1, <2>3, <2>4 DEF ReadyArmed, ListArmed, AgainArmed
<1> QED BY <1>1, <1>3, <1>4, <1>5, <1>6

\* The error handler, a cancelled message and the peer.
LEMMA ArmOuter ==
  ASSUME Base, ReadyArmed, ListArmed, AgainArmed,
         \/ PeerReads \/ PeerDies \/ UNCHANGED vars
         \/ (\E m \in Msgs : Cancel(m)) \/ (\E t \in Threads : ErrorHandler(t))
  PROVE  ReadyArmed' /\ ListArmed' /\ AgainArmed'
<1>1. UNCHANGED <<pending, timer, polled, th, ready, error, active>>
  BY DEF PeerReads, PeerDies, vars, Cancel, ErrorHandler, event, socket
<1>2. IsSet => IsSet'
  <2>1. CASE PeerReads \/ PeerDies
    BY <2>1, SetReads
  <2>2. CASE ~(PeerReads \/ PeerDies)
    <3>1. UNCHANGED <<active, edge, alive, unread>>
      BY <2>2 DEF vars, Cancel, ErrorHandler, event, socket
    <3> QED BY <3>1, SetStep
  <2> QED BY <2>1, <2>2
<1>3. /\ Runs' = Runs /\ AtPc("block")' = AtPc("block") /\ AtPc("again")' = AtPc("again")
      /\ Others' = Others /\ Going(Owner)' = Going(Owner)
  BY <1>1 DEF Runs, AtPc, Others, Going
<1>4. messages' # <<>> => messages # <<>>
  <2>1. CASE \E m \in Msgs : Cancel(m)
    <3>1. Listed # {}
      BY <2>1 DEF Cancel
    <3>2. messages = <<>> => Listed = {}
      BY DEF Listed
    <3> QED BY <3>1, <3>2
  <2>2. CASE ~\E m \in Msgs : Cancel(m)
    BY <2>2 DEF PeerReads, PeerDies, vars, ErrorHandler, list
  <2> QED BY <2>1, <2>2
<1>5. Errors => Errors' \/ messages' = <<>>
  <2>1. errq' = errq \/ messages' = <<>>
    BY DEF PeerReads, PeerDies, vars, Cancel, ErrorHandler
  <2> QED BY <2>1 DEF Errors
<1>6. AgainArmed'
  BY <1>1, <1>2, <1>3 DEF AgainArmed
<1> QED BY <1>1, <1>2, <1>3, <1>4, <1>5, <1>6, StillArmed

LEMMA ArmStep ==
  ASSUME Base, ErrTypes, ArmInv, [Next]_vars
  PROVE  ArmInv'
<1> SUFFICES ASSUME Sane' PROVE ReadyArmed' /\ ListArmed' /\ AgainArmed'
  BY DEF ArmInv
<1>1. Sane /\ ReadyArmed /\ ListArmed /\ AgainArmed
  BY SaneStep DEF ArmInv
<1>2. CASE \E t \in Threads : Middle(t)
  BY <1>1, <1>2, ArmMiddle
<1>3. CASE \E t \in Threads : Answer(t) \/ Cleanup(t)
  BY <1>1, <1>3, ArmExit
<1>4. CASE (\E t \in Threads : Rearm(t)) \/ RearmPosted \/ TimerFires
  BY <1>1, <1>4, ArmRearm
<1>5. CASE Poll \/ HandlerStart \/ HandlerFirst \/ HandlerBlock \/ AgainHandler
  BY <1>1, <1>5, ArmHandler
<1>6. CASE \/ PeerReads \/ PeerDies \/ UNCHANGED vars
           \/ (\E m \in Msgs : Cancel(m)) \/ (\E t \in Threads : ErrorHandler(t))
  BY <1>1, <1>6, ArmOuter
<1> QED BY <1>2, <1>3, <1>4, <1>5, <1>6 DEF Next, Inline, Middle, Engine

-----------------------------------------------------------------------------
(* The theorems.                                                           *)

LEMMA QuietFacts ==
  ASSUME Base, Quiet
  PROVE  ~Others /\ ~Going(Owner) /\ ~Runs /\ ~polled /\ ~Errors /\ (\A p : ~AtPc(p))
         /\ (\A t \in Threads : th[t].pc # "rearm") /\ ~pending /\ ~timer
<1>0. Owner \in Threads
  BY PortWriteAssumption
<1>1. \A t \in Threads : th[t].pc = "idle" /\ ~th[t].handler /\ errq[t] = 0
  BY IdleFields DEF Quiet
<1>2. \A t \in Threads : ~Going(t)
  BY <1>1 DEF Going
<1> QED BY <1>0, <1>1, <1>2 DEF Quiet, Others, Runs, Errors, AtPc

\* nxt_port_announce(), nxt_port_rearm() and nxt_port_retry_later(): a
\* READ_QUEUE marker that could not be sent stays owed only while something
\* brings the re-arm back, or while the peer has datagrams to read, however
\* the engines, the peer and the failures interleave.
THEOREM MarkersArmed == Spec => []MarkerArmed
<1>1. Init => Base /\ MarkerInv
  BY BaseInit
<1>2. Base /\ MarkerInv /\ [Next]_vars => Base' /\ MarkerInv'
  BY BaseStep, MarkerStep
<1>3. Base /\ MarkerInv => MarkerArmed
  <2> SUFFICES ASSUME Base, MarkerInv, Quiet, announce > 0, alive
               PROVE  unread > 0 \/ (active /\ edge)
    BY DEF MarkerArmed
  <2>1. IsSet
    BY QuietFacts DEF MarkerInv
  <2>2. SockCap > 0
    BY PortWriteAssumption
  <2> QED BY <2>1, <2>2 DEF IsSet
<1> QED BY <1>1, <1>2, <1>3, PTL DEF Spec

\* nxt_port_write_handler(), nxt_port_rearm() and nxt_port_socket_send(): a
\* message in port->messages has a thread on its way to the re-arm, a re-arm
\* or a retry that is due, or the write event set, except after the two exits
\* that WriteArmed names.
THEOREM WritesArmed == Spec => []WriteArmed
<1>1. Init => Base /\ ErrTypes /\ ArmInv
  BY BaseInit DEF Init, ErrTypes
<1>2. Base /\ ErrTypes /\ ArmInv /\ [Next]_vars => Base' /\ ErrTypes' /\ ArmInv'
  BY BaseStep, ErrStep, ArmStep
<1>3. Base /\ ErrTypes /\ ArmInv => WriteArmed
  <2> SUFFICES ASSUME Base, ArmInv, ~stale, \A m \in Msgs : ends[m] # <<"cut">>,
                      Quiet, messages # <<>>, alive \/ faults = 0
               PROVE  active /\ (edge \/ (alive /\ unread = SockCap))
    BY DEF WriteArmed, Armed
  <2>1. Sane
    BY DEF Sane, NoCut
  <2>2. ListArmed
    BY <2>1 DEF ArmInv
  <2>3. IsSet
    BY <2>2, QuietFacts DEF ListArmed
  <2> QED BY <2>3 DEF IsSet
<1> QED BY <1>1, <1>2, <1>3, PTL DEF Spec

=============================================================================
