------------------------------ MODULE NncqProof ------------------------------
(***************************************************************************)
(* The numeric circular queue loses and doubles no index, and its calls    *)
(* are linearizable, for every number of threads, every size and every     *)
(* width of the cycle.                                                     *)
(*                                                                         *)
(* The words in memory wrap.  The proof counts positions that do not: H of *)
(* the head, T of the tail, P of the first position that no value was      *)
(* published at, and G[p] of the position that thread p holds.  The last   *)
(* Size positions before P have their own cycle in their entries; a        *)
(* position that a thread holds is not newer than the word it came from,   *)
(* and less than a turn of all cycles older.  So the cycle that a thread   *)
(* reads tells exactly whether its position is still the first free one    *)
(* (TailEntry) or the first taken one (HeadEntry), and a compare-and-set   *)
(* that succeeds does what the thread meant (RingPublish, RingHead).       *)
(***************************************************************************)
EXTENDS Nncq, FiniteSetTheorems, SequenceTheorems, TLAPS
-----------------------------------------------------------------------------
(* Division.                                                               *)

LEMMA DivMod ==
  ASSUME NEW x \in Int, NEW n \in Nat \ {0}
  PROVE  /\ x \div n \in Int /\ x % n \in 0 .. n - 1
         /\ x = n * (x \div n) + (x % n)
<1>1. x \div n \in Int /\ x % n \in 0 .. n - 1
  OBVIOUS
<1>2. x = n * (x \div n) + (x % n)
  OBVIOUS
<1> QED BY <1>1, <1>2

LEMMA TimesMonotone ==
  ASSUME NEW n \in Nat \ {0}, NEW d \in Int
  PROVE  /\ d >= 1 => n * d >= n
         /\ d <= -1 => n * d <= -n
         /\ n * d \in Int
OBVIOUS

LEMMA DivUnique ==
  ASSUME NEW n \in Nat \ {0}, NEW q \in Int, NEW r \in 0 .. n - 1, NEW x \in Int,
         x = n * q + r
  PROVE  x \div n = q /\ x % n = r
<1> DEFINE p == x \div n
           s == x % n
<1>1. p \in Int /\ s \in 0 .. n - 1 /\ x = n * p + s
  BY DivMod
<1> HIDE DEF p, s
<1>2. n * (q - p) = s - r
  BY <1>1
<1>3. q - p = 0
  BY <1>1, <1>2, TimesMonotone
<1> QED BY <1>1, <1>3 DEF p, s

\* Congruence: the same remainder means a difference that n divides.
LEMMA ModEqual ==
  ASSUME NEW n \in Nat \ {0}, NEW x \in Int, NEW y \in Int
  PROVE  /\ x % n = y % n => \E k \in Int : x = y + n * k
         /\ (\E k \in Int : x = y + n * k) => x % n = y % n
<1>1. ASSUME x % n = y % n PROVE \E k \in Int : x = y + n * k
  <2> DEFINE p == x \div n
             s == x % n
             q == y \div n
  <2>1. p \in Int /\ q \in Int /\ s \in Int /\ x = n * p + s /\ y = n * q + s
    BY <1>1, DivMod
  <2> HIDE DEF p, q, s
  <2>2. x = y + n * (p - q) /\ p - q \in Int
    BY <2>1
  <2> QED BY <2>2
<1>2. ASSUME NEW k \in Int, x = y + n * k PROVE x % n = y % n
  <2> DEFINE q == y \div n
             s == y % n
  <2>1. q \in Int /\ s \in 0 .. n - 1 /\ y = n * q + s
    BY DivMod
  <2> HIDE DEF q, s
  <2>2. x = n * (q + k) + s /\ q + k \in Int
    BY <1>2, <2>1
  <2>3. x % n = s
    BY <2>1, <2>2, DivUnique
  <2> QED BY <2>3 DEF s
<1> QED BY <1>1, <1>2

LEMMA ModNear ==
  ASSUME NEW n \in Nat \ {0}, NEW x \in Int, NEW y \in Int,
         x % n = y % n, x - y < n, y - x < n
  PROVE  x = y
<1>1. PICK k \in Int : x = y + n * k
  BY ModEqual
<1>2. n * k = x - y
  BY <1>1
<1> QED BY <1>2, TimesMonotone

LEMMA ModShift ==
  ASSUME NEW n \in Nat \ {0}
  PROVE  \A x, y, z \in Int : x % n = y % n =>
           (x + z) % n = (y + z) % n /\ (z - x) % n = (z - y) % n
<1> SUFFICES ASSUME NEW x \in Int, NEW y \in Int, NEW z \in Int, x % n = y % n
             PROVE  (x + z) % n = (y + z) % n /\ (z - x) % n = (z - y) % n
  OBVIOUS
<1>1. PICK k \in Int : x = y + n * k
  BY ModEqual
<1>2. x + z = (y + z) + n * k /\ z - x = (z - y) + n * (-k) /\ -k \in Int
  BY <1>1
<1>3. ASSUME NEW u \in Int, NEW v \in Int, NEW j \in Int, u = v + n * j
      PROVE  u % n = v % n
  BY <1>3, ModEqual
<1> DEFINE a == x + z
           b == y + z
           c == z - x
           d == z - y
           m == -k
<1>4. /\ a \in Int /\ b \in Int /\ c \in Int /\ d \in Int /\ m \in Int
      /\ a = b + n * k /\ c = d + n * m
  BY <1>2
<1> HIDE DEF a, b, c, d, m
<1>5. a % n = b % n /\ c % n = d % n
  BY <1>3, <1>4
<1> QED BY <1>5 DEF a, b, c, d

LEMMA ModIdem ==
  ASSUME NEW n \in Nat \ {0}, NEW x \in Int
  PROVE  (x % n) % n = x % n /\ (x \in 0 .. n - 1 => x % n = x)
<1>1. ASSUME NEW y \in 0 .. n - 1 PROVE y % n = y
  <2>1. y = n * 0 + y
    OBVIOUS
  <2> QED BY <2>1, DivUnique
<1> QED BY <1>1, DivMod

-----------------------------------------------------------------------------
(* Positions.  head, tail and the positions that threads hold are positions *)
(* that count from the start of the queue, modulo IndexRange.               *)

LEMMA Sizes ==
  /\ Size \in Nat \ {0} /\ IndexRange \in Nat \ {0} /\ CycleRange \in Nat \ {0}
  /\ 1 < CycleRange /\ Cycles \in Nat \ {0} /\ IndexRange = Size * Cycles
  /\ \E w \in Nat \ {0} : Cycles = CycleRange * w
<1>1. Size \in Nat \ {0} /\ Cycles \in Nat \ {0} /\ CycleRange \in Nat \ {0} /\ 1 < CycleRange
  BY SizeAssumption, CyclesAssumption
<1>2. \E w \in Nat \ {0} : Cycles = CycleRange * w
  <2> DEFINE w == Cycles \div CycleRange
  <2>1. w \in Int /\ Cycles = CycleRange * w
    BY <1>1, CyclesAssumption, DivMod
  <2> HIDE DEF w
  <2>2. w \in Nat \ {0}
    BY <1>1, <2>1
  <2> QED BY <2>1, <2>2
<1>3. IndexRange \in Nat \ {0} /\ IndexRange = Size * Cycles
  BY <1>1 DEF IndexRange
<1> QED BY <1>1, <1>2, <1>3

LEMMA MapType ==
  ASSUME NEW x \in Int
  PROVE  Map(x) \in Values /\ Cycle(x) \in 0 .. CycleRange - 1 /\ x \div Size \in Int
<1>1. x \div Size \in Int /\ x % Size \in 0 .. Size - 1
  BY Sizes, DivMod
<1>2. (x \div Size) % CycleRange \in 0 .. CycleRange - 1
  BY <1>1, Sizes, DivMod
<1> QED BY <1>1, <1>2 DEF Map, Cycle, Values

\* The wrap of a position loses neither its index nor its cycle: Size divides
\* IndexRange, and CycleRange divides Cycles.
LEMMA WrapKeeps ==
  ASSUME NEW x \in Int
  PROVE  /\ x % IndexRange \in 0 .. IndexRange - 1
         /\ Map(x % IndexRange) = Map(x) /\ Cycle(x % IndexRange) = Cycle(x)
<1> DEFINE y == x % IndexRange
           d == x \div IndexRange
           c == y \div Size
           i == y % Size
<1>1. d \in Int /\ y \in 0 .. IndexRange - 1 /\ x = IndexRange * d + y
  BY Sizes, DivMod
<1>2. c \in Int /\ i \in 0 .. Size - 1 /\ y = Size * c + i
  <2>1. Size \in Nat \ {0} /\ y \in Int
    BY <1>1, Sizes
  <2> HIDE DEF y
  <2> QED BY <2>1, DivMod
<1>3. PICK w \in Nat \ {0} : Cycles = CycleRange * w
  BY Sizes
<1>4. Map(y) = i /\ Cycle(y) = c % CycleRange
  BY DEF Map, Cycle
<1> HIDE DEF y, d, c, i
<1> DEFINE e == Cycles * d + c
<1>5. e \in Int
  BY <1>1, <1>2, Sizes
<1>6. x = Size * e + i
  BY <1>1, <1>2, Sizes
<1>7. x \div Size = e /\ x % Size = i
  <2> HIDE DEF e
  <2> QED BY <1>2, <1>5, <1>6, Sizes, DivUnique
<1>8. e % CycleRange = c % CycleRange
  <2> DEFINE k == w * d
  <2>1. k \in Int /\ e = c + CycleRange * k
    BY <1>1, <1>2, <1>3, Sizes
  <2> HIDE DEF k, e
  <2> QED BY <1>2, <1>5, <2>1, Sizes, ModEqual
<1>9. Map(x) = i /\ Cycle(x) = c % CycleRange
  BY <1>7, <1>8 DEF Map, Cycle
<1> QED BY <1>1, <1>4, <1>9 DEF y

\* One cycle further.
LEMMA CycleFurther ==
  ASSUME NEW x \in Int
  PROVE  Map(x + Size) = Map(x) /\ Cycle(x + Size) = NextCycle(Cycle(x))
<1> DEFINE c == x \div Size
           i == x % Size
           y == x + Size
           b == c + 1
           m == c % CycleRange
<1>1. c \in Int /\ i \in 0 .. Size - 1 /\ x = Size * c + i
  BY Sizes, DivMod
<1>2. Map(x) = i /\ Cycle(x) = m
  BY DEF Map, Cycle
<1> HIDE DEF c, i
<1>3. b \in Int /\ y \in Int /\ y = Size * b + i
  BY <1>1, Sizes
<1> HIDE DEF y, b
<1>4. y \div Size = b /\ y % Size = i
  BY <1>1, <1>3, Sizes, DivUnique
<1>5. CycleRange \in Nat \ {0}
  BY Sizes
<1>8. m \in Int /\ m % CycleRange = c % CycleRange
  <2>1. m % CycleRange = c % CycleRange
    BY <1>1, <1>5, ModIdem
  <2>2. m \in Int
    BY <1>1, <1>5, DivMod
  <2> QED BY <2>1, <2>2
<1> HIDE DEF m
<1>6. (m + 1) % CycleRange = (c + 1) % CycleRange
  <2>1. \A u, t, z \in Int : u % CycleRange = t % CycleRange =>
          (u + z) % CycleRange = (t + z) % CycleRange
          /\ (z - u) % CycleRange = (z - t) % CycleRange
    BY <1>5, ModShift, Zenon
  <2>2. \A z \in Int : (m + z) % CycleRange = (c + z) % CycleRange
    BY <1>1, <1>8, <2>1, Zenon
  <2>3. 1 \in Int
    OBVIOUS
  <2> QED BY <2>2, <2>3, Zenon
<1>7. Map(y) = i /\ Cycle(y) = (c + 1) % CycleRange
  BY <1>4 DEF Map, Cycle, b
<1> QED BY <1>2, <1>6, <1>7 DEF NextCycle, y

\* A position is known by its index and cycle, up to Size * CycleRange.
LEMMA SamePosition ==
  ASSUME NEW x \in Int, NEW y \in Int, Map(x) = Map(y), Cycle(x) = Cycle(y),
         x - y < Size * CycleRange, y - x < Size * CycleRange
  PROVE  x = y
<1> DEFINE p == x \div Size
           q == y \div Size
           i == x % Size
           n == Size * CycleRange
<1>1. p \in Int /\ q \in Int /\ i \in Int /\ x = Size * p + i /\ y = Size * q + i
  BY Sizes, DivMod DEF Map
<1>2. p % CycleRange = q % CycleRange
  BY DEF Cycle
<1> HIDE DEF p, q, i
<1>3. PICK k \in Int : p = q + CycleRange * k
  <2>1. CycleRange \in Nat \ {0} /\ p \in Int /\ q \in Int
    BY <1>1, Sizes
  <2> QED BY <1>2, <2>1, ModEqual, Zenon
<1>4. x - y = n * k
  BY <1>1, <1>3, Sizes
<1>5. n \in Nat \ {0} /\ x - y < n /\ y - x < n
  BY Sizes
<1> HIDE DEF n
<1> QED BY <1>4, <1>5, TimesMonotone

LEMMA SameSlot ==
  ASSUME NEW x \in Int, NEW y \in Int, Map(x) = Map(y), x - y < Size, y - x < Size
  PROVE  x = y
BY Sizes, ModNear DEF Map

\* Size positions in a row have all the indexes.
LEMMA SlotWindow ==
  ASSUME NEW P \in Int, NEW j \in Values
  PROVE  \E q \in P - Size .. P - 1 : Map(q) = j
<1> DEFINE x == P - 1 - j
           d == x \div Size
           r == x % Size
           q == P - 1 - r
<1>1. x \in Int /\ j \in 0 .. Size - 1
  BY Sizes DEF Values
<1>2. d \in Int /\ r \in 0 .. Size - 1 /\ x = Size * d + r
  <2> HIDE DEF x
  <2> QED BY <1>1, Sizes, DivMod
<1> HIDE DEF d, r
<1>3. q \in P - Size .. P - 1 /\ q = Size * d + j
  BY <1>1, <1>2, Sizes
<1> HIDE DEF q
<1>4. q % Size = j
  BY <1>1, <1>2, <1>3, Sizes, DivUnique
<1> QED BY <1>3, <1>4 DEF Map

LEMMA EntryParts ==
  ASSUME NEW c \in 0 .. CycleRange - 1, NEW v \in Values
  PROVE  /\ NewEntry(c, v) \in 0 .. CycleRange * Size - 1
         /\ Map(NewEntry(c, v)) = v /\ Cycle(NewEntry(c, v)) = c
<1> DEFINE e == NewEntry(c, v)
<1>1. v \in 0 .. Size - 1
  BY DEF Values
<1>2. e = Size * c + v /\ e \in Int
  <2>1. v % Size = v
    <3>1. Size \in Nat \ {0} /\ v \in Int
      BY <1>1, Sizes
    <3> QED BY <1>1, <3>1, ModIdem
  <2> QED BY <1>1, <2>1, Sizes DEF NewEntry
<1> HIDE DEF e
<1>3. e \div Size = c /\ e % Size = v
  BY <1>1, <1>2, Sizes, DivUnique
<1>4. c % CycleRange = c
  BY Sizes, ModIdem
<1>5. e \in 0 .. CycleRange * Size - 1
  <2>1. PICK n \in Int : n = CycleRange - 1 - c
    BY Sizes
  <2>2. Size * n >= 0 /\ Size * n = CycleRange * Size - Size - Size * c
    BY <2>1, Sizes
  <2> QED BY <1>1, <1>2, <2>2, Sizes
<1> QED BY <1>3, <1>4, <1>5 DEF Map, Cycle, e

LEMMA CycleMoves ==
  ASSUME NEW c \in 0 .. CycleRange - 1
  PROVE  NextCycle(c) # c /\ NextCycle(c) \in 0 .. CycleRange - 1
<1>1. CASE c = CycleRange - 1
  <2>1. c + 1 = CycleRange * 1 + 0
    BY <1>1, Sizes
  <2>2. (c + 1) % CycleRange = 0
    BY <2>1, Sizes, DivUnique
  <2> QED BY <1>1, <2>2, Sizes DEF NextCycle
<1>2. CASE c + 1 \in 0 .. CycleRange - 1
  <2>1. (c + 1) % CycleRange = c + 1
    <3>1. CycleRange \in Nat \ {0} /\ c + 1 \in Int
      BY Sizes
    <3>2. \A x \in Int : x \in 0 .. CycleRange - 1 => x % CycleRange = x
      BY <3>1, ModIdem
    <3> QED BY <1>2, <3>1, <3>2
  <2> QED BY <1>2, <2>1, Sizes DEF NextCycle
<1> QED BY <1>1, <1>2, Sizes

-----------------------------------------------------------------------------
(* The invariant.  H, T and P are the positions, counted from the start of   *)
(* the queue, of the head, of the tail and of the first position that no     *)
(* value was published at; G[p] is the position that thread p holds.         *)

\* No thread is overtaken so far that an index and a cycle come again, and a
\* call that gives up has seen the others make progress.
Unlapped == MaxStall + 2 * Size <= Size * CycleRange
Persistent == 2 * Patience <= Retries

InHand == {"enqTail", "enqEntry", "enqHelp", "enqCas"}
AtTail == {"enqEntry", "enqHelp", "enqCas", "enqInc"}
AtHead == {"deqEntry", "deqCas"}

\* The value at position q.
Val(q) == Map(entries[Map(q)])

Placed(H, P, T) ==
  /\ head = H % IndexRange /\ tail = T % IndexRange
  /\ H <= P /\ P - H <= Size /\ T <= P /\ P <= T + 1
  /\ \A q \in P - Size .. P - 1 : Cycle(entries[Map(q)]) = Cycle(q)

\* What a thread remembers is not newer than the head and the tail are, and an
\* entry that it can still exchange or take is the one it read; e and f are
\* the entries at the head and at the first free position.
Holds(x, e, f, H, P, T, g) ==
  /\ x.pc \in AtTail => x.pos = g % IndexRange /\ g <= T /\ T - g <= MaxStall
  /\ x.pc \in AtHead => x.pos = g % IndexRange /\ g <= H /\ H - g <= MaxStall
  /\ x.pc \in {"enqHelp", "enqInc", "deqCas"} => g < P
  /\ x.pc = "enqCas" => /\ NextCycle(Cycle(x.ent)) = Cycle(x.pos)
                        /\ g = P => f = x.ent
  /\ x.pc = "deqCas" /\ g = H => e = x.ent

\* The tail lags only behind a thread that will move it.
Owed(P, T, G) == P = T + 1 => \E p \in Threads : th[p].pc = "enqInc" /\ G[p] = T

\* Every value is in one place.
Owned(H, P) ==
  /\ \A q, s \in H .. P - 1 : Val(q) = Val(s) => q = s
  /\ \A p, r \in Threads :
       th[p].pc \in InHand /\ th[r].pc \in InHand /\ th[p].val = th[r].val => p = r
  /\ \A q \in H .. P - 1 : /\ Val(q) \notin outside
                           /\ \A p \in Threads : th[p].pc \in InHand => th[p].val # Val(q)
  /\ \A p \in Threads : th[p].pc \in InHand => th[p].val \notin outside
  /\ \A v \in Values : \/ v \in outside
                       \/ \E p \in Threads : th[p].pc \in InHand /\ th[p].val = v
                       \/ \E q \in H .. P - 1 : Val(q) = v

\* Every retry but the first has seen others take effect: an enqueuer that fails
\* because of one publication may fail on it twice, at the exchange and at the
\* help.
Waited(x, n, H, P, T, g) ==
  \/ n = Patience
  \/ /\ x.pc = "enqTail" => 2 * n >= x.tries - 1 + (P - T)
     /\ x.pc \in {"enqEntry", "enqHelp"} => /\ 2 * n >= x.tries - 1
                                            /\ g < P => 2 * n >= x.tries - 2 + 2 * (P - g)
     /\ x.pc = "enqCas" => 2 * n >= x.tries - 1 + 2 * (P - g)
     /\ x.pc = "deqHead" => n >= x.tries
     /\ x.pc \in AtHead => n >= x.tries + (H - g)

Ring(H, P, T, G) ==
  /\ Placed(H, P, T) /\ Owned(H, P) /\ Owed(P, T, G)
  /\ \A p \in Threads : /\ Holds(th[p], entries[Map(H)], entries[Map(P)], H, P, T, G[p])
                         /\ Waited(th[p], seen[p], H, P, T, G[p])

RingInv ==
  /\ TypeOK
  /\ \E H, P, T \in Int, G \in [Threads -> Int] : Ring(H, P, T, G)

-----------------------------------------------------------------------------
(* Types, and one thread that moves.                                       *)

ThreadSet == [pc : {"idle"} \cup EnqPcs \cup DeqPcs, val : Values,
              pos : 0 .. IndexRange - 1, ent : 0 .. CycleRange * Size - 1,
              tries : 0 .. Retries - 1]

Others(p) == \A r \in Threads : r # p => th'[r] = th[r]

LEMMA Laps ==
  ASSUME Unlapped
  PROVE  /\ MaxStall \in Nat /\ Size * CycleRange \in Nat
         /\ MaxStall + 2 * Size <= Size * CycleRange
         /\ Size * CycleRange <= IndexRange
<1>1. PICK w \in Nat \ {0} : Cycles = CycleRange * w
  BY Sizes
<1> DEFINE n == Size * CycleRange
<1>2. n \in Nat \ {0} /\ IndexRange = n * w
  BY <1>1, Sizes
<1>3. n <= IndexRange
  <2> HIDE DEF n
  <2> QED BY <1>2, TimesMonotone
<1> QED BY <1>2, <1>3, StallAssumption DEF Unlapped

LEMMA ThreadType ==
  ASSUME TypeOK, NEW p \in Threads
  PROVE  /\ th \in [Threads -> ThreadSet] /\ th[p] \in ThreadSet
         /\ th[p].pc \in {"idle"} \cup EnqPcs \cup DeqPcs /\ th[p].val \in Values
         /\ th[p].pos \in 0 .. IndexRange - 1
         /\ th[p].ent \in 0 .. CycleRange * Size - 1
         /\ th[p].tries \in 0 .. Retries - 1 /\ seen[p] \in 0 .. Patience
<1>1. th \in [Threads -> ThreadSet] /\ seen[p] \in 0 .. Patience
  BY DEF TypeOK, ThreadSet
<1>2. th[p] \in ThreadSet
  BY <1>1
<1> QED BY <1>1, <1>2 DEF ThreadSet

LEMMA OneThread ==
  ASSUME TypeOK, NEW p \in Threads, NEW y \in ThreadSet, th' = [th EXCEPT ![p] = y]
  PROVE  th' \in [Threads -> ThreadSet] /\ th'[p] = y /\ Others(p)
BY ThreadType DEF Others

LEMMA IdleType ==
  /\ Idle \in ThreadSet /\ Idle.pc = "idle" /\ Idle.tries = 0 /\ Idle.val = 0
<1>1. /\ 0 \in Values /\ 0 \in 0 .. IndexRange - 1 /\ 0 \in 0 .. Retries - 1
  BY Sizes, RetriesAssumption DEF Values
<1>2. 0 \in 0 .. CycleRange * Size - 1
  BY Sizes
<1> QED BY <1>1, <1>2 DEF Idle, ThreadSet

\* The steps of a thread that touch its locals only.
LEMMA LocalStep ==
  ASSUME TypeOK, NEW p \in Threads, NEW pc \in {"idle"} \cup EnqPcs \cup DeqPcs,
         NEW v \in Values, NEW x \in 0 .. IndexRange - 1,
         NEW e \in 0 .. CycleRange * Size - 1
  PROVE  /\ th' = [th EXCEPT ![p].pc = pc] =>
              /\ th' \in [Threads -> ThreadSet] /\ Others(p)
              /\ th'[p] = [th[p] EXCEPT !.pc = pc]
         /\ th' = [th EXCEPT ![p].pc = pc, ![p].val = v] =>
              /\ th' \in [Threads -> ThreadSet] /\ Others(p)
              /\ th'[p] = [th[p] EXCEPT !.pc = pc, !.val = v]
         /\ th' = [th EXCEPT ![p].pc = pc, ![p].pos = x] =>
              /\ th' \in [Threads -> ThreadSet] /\ Others(p)
              /\ th'[p] = [th[p] EXCEPT !.pc = pc, !.pos = x]
         /\ th' = [th EXCEPT ![p].pc = pc, ![p].ent = e] =>
              /\ th' \in [Threads -> ThreadSet] /\ Others(p)
              /\ th'[p] = [th[p] EXCEPT !.pc = pc, !.ent = e]
<1> DEFINE a == [th[p] EXCEPT !.pc = pc]
           b == [th[p] EXCEPT !.pc = pc, !.val = v]
           c == [th[p] EXCEPT !.pc = pc, !.pos = x]
           d == [th[p] EXCEPT !.pc = pc, !.ent = e]
<1>1. th[p] \in ThreadSet /\ th \in [Threads -> ThreadSet]
  BY ThreadType
<1>2. a \in ThreadSet /\ b \in ThreadSet /\ c \in ThreadSet /\ d \in ThreadSet
  BY <1>1 DEF ThreadSet
<1>3. /\ [th EXCEPT ![p].pc = pc] = [th EXCEPT ![p] = a]
      /\ [th EXCEPT ![p].pc = pc, ![p].val = v] = [th EXCEPT ![p] = b]
      /\ [th EXCEPT ![p].pc = pc, ![p].pos = x] = [th EXCEPT ![p] = c]
      /\ [th EXCEPT ![p].pc = pc, ![p].ent = e] = [th EXCEPT ![p] = d]
  BY <1>1
<1> HIDE DEF a, b, c, d
<1>4. /\ th' = [th EXCEPT ![p].pc = pc] =>
            th' \in [Threads -> ThreadSet] /\ Others(p) /\ th'[p] = a
      /\ th' = [th EXCEPT ![p].pc = pc, ![p].val = v] =>
            th' \in [Threads -> ThreadSet] /\ Others(p) /\ th'[p] = b
      /\ th' = [th EXCEPT ![p].pc = pc, ![p].pos = x] =>
            th' \in [Threads -> ThreadSet] /\ Others(p) /\ th'[p] = c
      /\ th' = [th EXCEPT ![p].pc = pc, ![p].ent = e] =>
            th' \in [Threads -> ThreadSet] /\ Others(p) /\ th'[p] = d
  BY <1>2, <1>3, OneThread
<1> QED BY <1>4 DEF a, b, c, d

\* What remains of a record when fields of it are replaced.
LEMMA Fields ==
  ASSUME NEW y \in ThreadSet, NEW pc, NEW v, NEW x, NEW e
  PROVE  /\ LET a == [y EXCEPT !.pc = pc]
            IN  /\ a.pc = pc /\ a.val = y.val /\ a.pos = y.pos /\ a.ent = y.ent
                /\ a.tries = y.tries
         /\ LET a == [y EXCEPT !.pc = pc, !.val = v]
            IN  /\ a.pc = pc /\ a.val = v /\ a.pos = y.pos /\ a.ent = y.ent
                /\ a.tries = y.tries
         /\ LET a == [y EXCEPT !.pc = pc, !.pos = x]
            IN  /\ a.pc = pc /\ a.val = y.val /\ a.pos = x /\ a.ent = y.ent
                /\ a.tries = y.tries
         /\ LET a == [y EXCEPT !.pc = pc, !.ent = e]
            IN  /\ a.pc = pc /\ a.val = y.val /\ a.pos = y.pos /\ a.ent = e
                /\ a.tries = y.tries
BY DEF ThreadSet

LEMMA AgainDoes ==
  ASSUME TypeOK, NEW p \in Threads, NEW loop \in {"enqTail", "deqHead"}, Again(p, loop)
  PROVE  /\ th' \in [Threads -> ThreadSet] /\ Others(p)
         /\ th'[p].pc = loop /\ th'[p].val = th[p].val /\ th'[p].tries = th[p].tries + 1
         /\ outside' = outside /\ seen' = seen /\ ret' = ret
<1> DEFINE t == th[p].tries
           y == [th[p] EXCEPT !.pc = loop, !.pos = 0, !.ent = 0, !.tries = t + 1]
<1>1. th[p] \in ThreadSet /\ t \in 0 .. Retries - 1 /\ t + 1 # Retries
  BY ThreadType DEF Again, LastTry
<1>2. t + 1 \in 0 .. Retries - 1 /\ loop \in {"idle"} \cup EnqPcs \cup DeqPcs
  BY <1>1, RetriesAssumption DEF EnqPcs, DeqPcs
<1>3. 0 \in 0 .. IndexRange - 1 /\ 0 \in 0 .. CycleRange * Size - 1
  BY Sizes
<1>4. th' = [th EXCEPT ![p] = y]
  BY <1>1, ThreadType DEF Again
<1> HIDE DEF t
<1>5. /\ y \in ThreadSet /\ y.pc = loop /\ y.val = th[p].val /\ y.tries = t + 1
  BY <1>1, <1>2, <1>3 DEF ThreadSet
<1> HIDE DEF y
<1>6. th' \in [Threads -> ThreadSet] /\ th'[p] = y /\ Others(p)
  BY <1>4, <1>5, OneThread
<1> QED BY <1>5, <1>6 DEF Again, t

-----------------------------------------------------------------------------
(* Ownership of the values.                                                *)

LEMMA OwnedSame ==
  ASSUME NEW H \in Int, NEW P \in Int, Owned(H, P), NEW p \in Threads, Others(p),
         entries' = entries, outside' = outside,
         th'[p].pc \in InHand <=> th[p].pc \in InHand,
         th[p].pc \in InHand => th'[p].val = th[p].val
  PROVE  Owned(H, P)'
<1>1. \A q : Val(q)' = Val(q)
  BY DEF Val
<1>2. \A r \in Threads : /\ th'[r].pc \in InHand <=> th[r].pc \in InHand
                         /\ th[r].pc \in InHand => th'[r].val = th[r].val
  BY DEF Others
<1> QED BY <1>1, <1>2 DEF Owned

\* A value comes into the hands of an enqueuer.
LEMMA OwnedBegun ==
  ASSUME NEW H \in Int, NEW P \in Int, Owned(H, P), NEW p \in Threads, Others(p),
         entries' = entries, NEW v \in outside, outside' = outside \ {v},
         th[p].pc \notin InHand, th'[p].pc \in InHand, th'[p].val = v
  PROVE  Owned(H, P)'
<1>1. \A q : Val(q)' = Val(q)
  BY DEF Val
<1>2. \A r \in Threads : r # p => /\ th'[r].pc \in InHand <=> th[r].pc \in InHand
                                  /\ th'[r].val = th[r].val
  BY DEF Others
<1> QED BY <1>1, <1>2 DEF Owned

\* It goes back when the enqueuer gives up.
LEMMA OwnedGivenUp ==
  ASSUME NEW H \in Int, NEW P \in Int, Owned(H, P), NEW p \in Threads, Others(p),
         entries' = entries, outside' = outside \cup {th[p].val},
         th[p].pc \in InHand, th'[p].pc \notin InHand
  PROVE  Owned(H, P)'
<1>1. \A q : Val(q)' = Val(q)
  BY DEF Val
<1>2. \A r \in Threads : r # p => /\ th'[r].pc \in InHand <=> th[r].pc \in InHand
                                  /\ th'[r].val = th[r].val
  BY DEF Others
<1> QED BY <1>1, <1>2 DEF Owned

\* It goes to the end of the queue when it is published.
LEMMA OwnedPublished ==
  ASSUME NEW H \in Int, NEW P \in Int, H <= P, Owned(H, P), NEW p \in Threads, Others(p),
         \A q \in H .. P - 1 : Val(q)' = Val(q), Val(P)' = th[p].val, outside' = outside,
         th[p].pc \in InHand, th'[p].pc \notin InHand
  PROVE  Owned(H, P + 1)'
<1>1. \A q \in H .. (P + 1) - 1 : q = P \/ q \in H .. P - 1
  OBVIOUS
<1>2. P \in H .. (P + 1) - 1 /\ \A q \in H .. P - 1 : q \in H .. (P + 1) - 1
  OBVIOUS
<1>3. \A r \in Threads : r # p => /\ th'[r].pc \in InHand <=> th[r].pc \in InHand
                                  /\ th'[r].val = th[r].val
  BY DEF Others
<1>4. \A q, s \in H .. (P + 1) - 1 : Val(q)' = Val(s)' => q = s
  BY <1>1 DEF Owned
<1>5. \A q \in H .. (P + 1) - 1 :
        /\ Val(q)' \notin outside'
        /\ \A r \in Threads : th'[r].pc \in InHand => th'[r].val # Val(q)'
  BY <1>1, <1>3 DEF Owned
<1>6. /\ \A r, s \in Threads :
           th'[r].pc \in InHand /\ th'[s].pc \in InHand /\ th'[r].val = th'[s].val => r = s
      /\ \A r \in Threads : th'[r].pc \in InHand => th'[r].val \notin outside'
  BY <1>3 DEF Owned
<1>7. \A v \in Values : \/ v \in outside'
                        \/ \E r \in Threads : th'[r].pc \in InHand /\ th'[r].val = v
                        \/ \E q \in H .. (P + 1) - 1 : Val(q)' = v
  <2> SUFFICES ASSUME NEW v \in Values
               PROVE  \/ v \in outside'
                      \/ \E r \in Threads : th'[r].pc \in InHand /\ th'[r].val = v
                      \/ \E q \in H .. (P + 1) - 1 : Val(q)' = v
    OBVIOUS
  <2>1. CASE v \in outside
    BY <2>1
  <2>2. ASSUME NEW r \in Threads, th[r].pc \in InHand, th[r].val = v
        PROVE  \/ \E s \in Threads : th'[s].pc \in InHand /\ th'[s].val = v
               \/ \E q \in H .. (P + 1) - 1 : Val(q)' = v
    <3>1. CASE r = p
      BY <1>2, <2>2, <3>1
    <3>2. CASE r # p
      BY <1>3, <2>2, <3>2
    <3> QED BY <3>1, <3>2
  <2>3. ASSUME NEW q \in H .. P - 1, Val(q) = v
        PROVE  \E s \in H .. (P + 1) - 1 : Val(s)' = v
    BY <1>2, <2>3
  <2> QED BY <2>1, <2>2, <2>3 DEF Owned
<1> QED BY <1>4, <1>5, <1>6, <1>7 DEF Owned

\* It leaves the queue at its head.
LEMMA OwnedTakenOut ==
  ASSUME NEW H \in Int, NEW P \in Int, H < P, Owned(H, P), NEW p \in Threads, Others(p),
         entries' = entries, outside' = outside \cup {Val(H)},
         th[p].pc \notin InHand, th'[p].pc \notin InHand
  PROVE  Owned(H + 1, P)'
<1>1. \A q : Val(q)' = Val(q)
  BY DEF Val
<1>2. \A r \in Threads : /\ th'[r].pc \in InHand <=> th[r].pc \in InHand
                         /\ th[r].pc \in InHand => th'[r].val = th[r].val
  BY DEF Others
<1>3. H \in H .. P - 1 /\ \A q \in H + 1 .. P - 1 : q \in H .. P - 1 /\ q # H
  OBVIOUS
<1>4. \A q \in H .. P - 1 : q = H \/ q \in H + 1 .. P - 1
  OBVIOUS
<1>5. \A q, s \in H + 1 .. P - 1 : Val(q)' = Val(s)' => q = s
  BY <1>1, <1>3 DEF Owned
<1>6. \A q \in H + 1 .. P - 1 :
        /\ Val(q)' \notin outside'
        /\ \A r \in Threads : th'[r].pc \in InHand => th'[r].val # Val(q)'
  BY <1>1, <1>2, <1>3 DEF Owned
<1>7. /\ \A r, s \in Threads :
           th'[r].pc \in InHand /\ th'[s].pc \in InHand /\ th'[r].val = th'[s].val => r = s
      /\ \A r \in Threads : th'[r].pc \in InHand => th'[r].val \notin outside'
  BY <1>2, <1>3 DEF Owned
<1>8. \A v \in Values : \/ v \in outside'
                        \/ \E r \in Threads : th'[r].pc \in InHand /\ th'[r].val = v
                        \/ \E q \in H + 1 .. P - 1 : Val(q)' = v
  BY <1>1, <1>2, <1>4 DEF Owned
<1> QED BY <1>5, <1>6, <1>7, <1>8 DEF Owned

\* A value in a hand is not in the queue, which is then not full.
LEMMA NotFull ==
  ASSUME TypeOK, NEW H \in Int, NEW P \in Int, Placed(H, P, P), Owned(H, P),
         NEW p \in Threads, th[p].pc \in InHand
  PROVE  P - H < Size
<1> DEFINE D == H .. P - 1
           S == Values \ {th[p].val}
           f == [q \in D |-> Val(q)]
<1>1. th[p].val \in Values
  BY ThreadType
<1>2. \A q \in D : Val(q) \in S
  <2>1. ASSUME NEW q \in D PROVE Val(q) \in Values
    <3>1. Map(q) \in Values
      BY MapType
    <3>2. entries[Map(q)] \in 0 .. CycleRange * Size - 1
      BY <3>1 DEF TypeOK
    <3>3. entries[Map(q)] \in Int
      BY <3>2, Sizes
    <3> QED BY <3>3, MapType DEF Val
  <2> QED BY <2>1 DEF Owned
<1>3. IsFiniteSet(Values) /\ Cardinality(Values) = Size
  BY Sizes, FS_Interval DEF Values
<1>4. IsFiniteSet(S) /\ Cardinality(S) = Size - 1
  BY <1>1, <1>3, FS_RemoveElement
<1>5. f \in Injection(D, S)
  BY <1>2 DEF Injection, IsInjective, Owned
<1>6. Cardinality(D) <= Cardinality(S)
  <2> HIDE DEF D, S, f
  <2> QED BY <1>4, <1>5, FS_Injection
<1>7. Cardinality(D) = P - H
  <2>1. H <= P
    BY DEF Placed
  <2> QED BY <2>1, FS_Interval
<1> QED BY <1>4, <1>6, <1>7, Sizes

-----------------------------------------------------------------------------
(* What an entry tells about a position.                                   *)

LEMMA EntryType ==
  ASSUME TypeOK, NEW g \in Int
  PROVE  /\ entries[Map(g)] \in 0 .. CycleRange * Size - 1 /\ entries[Map(g)] \in Int
         /\ Cycle(entries[Map(g)]) \in 0 .. CycleRange - 1
<1>1. Map(g) \in Values
  BY MapType
<1>2. entries[Map(g)] \in 0 .. CycleRange * Size - 1
  BY <1>1 DEF TypeOK
<1>3. entries[Map(g)] \in Int
  BY <1>2, Sizes
<1> QED BY <1>2, <1>3, MapType

\* The last position that a value was published at in the entry of g.
LEMMA LastPublished ==
  ASSUME NEW H \in Int, NEW P \in Int, NEW T \in Int, Placed(H, P, T), NEW g \in Int
  PROVE  \E q \in P - Size .. P - 1 :
           /\ Map(q) = Map(g) /\ Cycle(entries[Map(g)]) = Cycle(q)
           /\ q + Size \in Int /\ Map(q + Size) = Map(g)
           /\ Cycle(q + Size) = NextCycle(Cycle(entries[Map(g)]))
<1>1. PICK q \in P - Size .. P - 1 : Map(q) = Map(g)
  BY MapType, SlotWindow
<1>2. Cycle(entries[Map(g)]) = Cycle(q)
  BY <1>1 DEF Placed
<1>3. q \in Int /\ q + Size \in Int
  BY Sizes
<1> QED BY <1>1, <1>2, <1>3, CycleFurther

\* An enqueuer that took its position from the tail: the entry has the cycle
\* before that of the position exactly when nobody has published there.
LEMMA TailEntry ==
  ASSUME Unlapped, TypeOK, NEW H \in Int, NEW P \in Int, NEW T \in Int, Placed(H, P, T),
         NEW g \in Int, g <= T, T - g <= MaxStall
  PROVE  /\ NextCycle(Cycle(entries[Map(g)])) = Cycle(g) => g = P /\ g = T
         /\ Cycle(entries[Map(g)]) = Cycle(g) => g < P
         /\ g = T /\ g < P => Cycle(entries[Map(g)]) = Cycle(g)
         /\ g = P => /\ NextCycle(Cycle(entries[Map(g)])) = Cycle(g)
                     /\ Cycle(entries[Map(g)]) # Cycle(g)
<1> DEFINE c == Cycle(entries[Map(g)])
<1>1. PICK q \in P - Size .. P - 1 :
        /\ Map(q) = Map(g) /\ c = Cycle(q)
        /\ q + Size \in Int /\ Map(q + Size) = Map(g)
        /\ Cycle(q + Size) = NextCycle(c)
  BY LastPublished
<1>2. /\ T <= P /\ P <= T + 1 /\ Size \in Nat \ {0} /\ MaxStall \in Nat
      /\ Size * CycleRange \in Nat /\ MaxStall + 2 * Size <= Size * CycleRange
  BY Sizes, Laps DEF Placed
<1>3. c \in 0 .. CycleRange - 1
  BY EntryType
<1> HIDE DEF c
<1>4. ASSUME NextCycle(c) = Cycle(g) PROVE g = P /\ g = T
  <2> DEFINE s == q + Size
             n == Size * CycleRange
  <2>1. s \in Int /\ s - g < n /\ g - s < n
    BY <1>1, <1>2
  <2>2. s = g
    <3> HIDE DEF s
    <3> QED BY <1>1, <1>4, <2>1, SamePosition DEF s
  <2> QED BY <1>1, <1>2, <2>2
<1>5. ASSUME g = P PROVE NextCycle(c) = Cycle(g) /\ c # Cycle(g)
  <2>1. q + Size = g
    <3> DEFINE s == q + Size
    <3>1. s \in Int /\ s - g < Size /\ g - s < Size
      BY <1>1, <1>2, <1>5
    <3> HIDE DEF s
    <3> QED BY <1>1, <3>1, SameSlot DEF s
  <2>2. NextCycle(c) # c
    BY <1>3, CycleMoves
  <2> QED BY <1>1, <2>1, <2>2
<1>6. ASSUME g = T, g < P PROVE c = Cycle(g)
  <2>1. q = g
    BY <1>1, <1>2, <1>6, SameSlot
  <2> QED BY <1>1, <2>1
<1>7. g <= P
  BY <1>2
<1> QED BY <1>4, <1>5, <1>6, <1>7 DEF c

\* A dequeuer that took its position from the head: the entry has the cycle
\* before that of the position only when the queue is empty, and at the head
\* it has one of the two.
LEMMA HeadEntry ==
  ASSUME Unlapped, TypeOK, NEW H \in Int, NEW P \in Int, NEW T \in Int, Placed(H, P, T),
         NEW g \in Int, g <= H, H - g <= MaxStall
  PROVE  /\ NextCycle(Cycle(entries[Map(g)])) = Cycle(g) => g = H /\ H = P
         /\ Cycle(entries[Map(g)]) = Cycle(g) => g < P
         /\ g = H /\ H < P => Cycle(entries[Map(g)]) = Cycle(g)
         /\ g = P => /\ NextCycle(Cycle(entries[Map(g)])) = Cycle(g)
                     /\ Cycle(entries[Map(g)]) # Cycle(g)
<1> DEFINE c == Cycle(entries[Map(g)])
<1>1. PICK q \in P - Size .. P - 1 :
        /\ Map(q) = Map(g) /\ c = Cycle(q)
        /\ q + Size \in Int /\ Map(q + Size) = Map(g)
        /\ Cycle(q + Size) = NextCycle(c)
  BY LastPublished
<1>2. /\ H <= P /\ P - H <= Size /\ Size \in Nat \ {0} /\ MaxStall \in Nat
      /\ Size * CycleRange \in Nat /\ MaxStall + 2 * Size <= Size * CycleRange
  BY Sizes, Laps DEF Placed
<1>3. c \in 0 .. CycleRange - 1
  BY EntryType
<1> HIDE DEF c
<1>4. ASSUME NextCycle(c) = Cycle(g) PROVE g = H /\ H = P
  <2> DEFINE s == q + Size
             n == Size * CycleRange
  <2>1. s \in Int /\ s - g < n /\ g - s < n
    BY <1>1, <1>2
  <2>2. s = g
    <3> HIDE DEF s
    <3> QED BY <1>1, <1>4, <2>1, SamePosition DEF s
  <2> QED BY <1>1, <1>2, <2>2
<1>5. ASSUME g = P PROVE NextCycle(c) = Cycle(g) /\ c # Cycle(g)
  <2>1. q + Size = g
    <3> DEFINE s == q + Size
    <3>1. s \in Int /\ s - g < Size /\ g - s < Size
      BY <1>1, <1>2, <1>5
    <3> HIDE DEF s
    <3> QED BY <1>1, <3>1, SameSlot DEF s
  <2>2. NextCycle(c) # c
    BY <1>3, CycleMoves
  <2> QED BY <1>1, <2>1, <2>2
<1>6. ASSUME g = H, H < P PROVE c = Cycle(g)
  <2>1. q = g
    BY <1>1, <1>2, <1>6, SameSlot
  <2> QED BY <1>1, <2>1
<1>7. g <= P
  BY <1>2
<1> QED BY <1>4, <1>5, <1>6, <1>7 DEF c

\* The remainder as an operator, so that a proof uses only what is said of it here.
Mod(x, n) == x % n

LEMMA ModFacts ==
  ASSUME NEW n \in Nat \ {0}
  PROVE  /\ \A x \in Int : /\ Mod(x, n) \in Int /\ Mod(Mod(x, n), n) = Mod(x, n)
                           /\ x \in 0 .. n - 1 => Mod(x, n) = x
         /\ \A x, y \in Int : Mod(x, n) = Mod(y, n) =>
              \A z \in Int : Mod(x + z, n) = Mod(y + z, n) /\ Mod(z - x, n) = Mod(z - y, n)
<1>1. ASSUME NEW x \in Int
      PROVE  /\ Mod(x, n) \in Int /\ Mod(Mod(x, n), n) = Mod(x, n)
             /\ x \in 0 .. n - 1 => Mod(x, n) = x
  <2>1. (x % n) % n = x % n /\ (x \in 0 .. n - 1 => x % n = x)
    BY ModIdem
  <2>2. x % n \in Int
    BY DivMod
  <2> QED BY <2>1, <2>2, Zenon DEF Mod
<1>2. \A x, y \in Int : Mod(x, n) = Mod(y, n) =>
        \A z \in Int : Mod(x + z, n) = Mod(y + z, n) /\ Mod(z - x, n) = Mod(z - y, n)
  <2>1. \A x, y, z \in Int : x % n = y % n =>
          (x + z) % n = (y + z) % n /\ (z - x) % n = (z - y) % n
    BY ModShift
  <2>2. ASSUME NEW x \in Int, NEW y \in Int, Mod(x, n) = Mod(y, n), NEW z \in Int
        PROVE  Mod(x + z, n) = Mod(y + z, n) /\ Mod(z - x, n) = Mod(z - y, n)
    <3>1. x % n = y % n
      BY <2>2, Zenon DEF Mod
    <3>2. (x + z) % n = (y + z) % n /\ (z - x) % n = (z - y) % n
      BY <2>1, <3>1
    <3> QED BY <3>2, Zenon DEF Mod
  <2> QED BY <2>2, Zenon
<1> QED BY <1>1, <1>2

\* The distance of two positions, as the words in memory give it.
Distant(x, y, z, n) ==
  /\ (((x % n) + z) - (y % n)) % n = ((x + z) - y) % n
  /\ (x + z) - y \in 0 .. n - 1 => ((x + z) - y) % n = (x + z) - y
  /\ ((x % n) + z) % n = (x + z) % n

LEMMA Distances == \A x, y, z \in Int : Distant(x, y, z, IndexRange)
<1>1. PICK n \in Nat \ {0} : n = IndexRange
  BY Sizes
<1>2. /\ \A x \in Int : /\ Mod(x, n) \in Int /\ Mod(Mod(x, n), n) = Mod(x, n)
                        /\ x \in 0 .. n - 1 => Mod(x, n) = x
      /\ \A x, y \in Int : Mod(x, n) = Mod(y, n) =>
           \A z \in Int : Mod(x + z, n) = Mod(y + z, n) /\ Mod(z - x, n) = Mod(z - y, n)
  BY ModFacts
<1>3. ASSUME NEW x \in Int, NEW y \in Int, NEW z \in Int
      PROVE  /\ Mod((Mod(x, n) + z) - Mod(y, n), n) = Mod((x + z) - y, n)
             /\ (x + z) - y \in 0 .. n - 1 => Mod((x + z) - y, n) = (x + z) - y
             /\ Mod(Mod(x, n) + z, n) = Mod(x + z, n)
  <2>1. PICK a, b \in Int :
          /\ a = Mod(x, n) /\ b = Mod(y, n)
          /\ Mod(a, n) = Mod(x, n) /\ Mod(b, n) = Mod(y, n)
    BY <1>2
  <2>2. PICK u, w \in Int : u = x + z /\ w = a + z
    OBVIOUS
  <2>3. \A i \in Int : Mod(a + i, n) = Mod(x + i, n)
    BY <1>2, <2>1
  <2>4. Mod(w, n) = Mod(u, n)
    BY <2>2, <2>3, Zenon
  <2>5. \A i \in Int : Mod(w + i, n) = Mod(u + i, n)
    BY <1>2, <2>4
  <2>6. \A i \in Int : Mod(i - b, n) = Mod(i - y, n)
    BY <1>2, <2>1
  <2>7. Mod(w - b, n) = Mod(u - y, n)
    <3>1. PICK v \in Int : v = -y
      OBVIOUS
    <3>2. w - y = w + v /\ u - y = u + v
      BY <3>1
    <3>3. Mod(w + v, n) = Mod(u + v, n)
      BY <2>5, Zenon
    <3>4. Mod(w - b, n) = Mod(w - y, n)
      BY <2>6, Zenon
    <3> QED BY <3>2, <3>3, <3>4, Zenon
  <2>8. PICK d \in Int : d = u - y
    OBVIOUS
  <2>9. d \in 0 .. n - 1 => Mod(d, n) = d
    BY <1>2
  <2> QED BY <2>1, <2>2, <2>4, <2>7, <2>8, <2>9
<1>4. \A x, y, z \in Int : Distant(x, y, z, n)
  BY <1>3, Zenon DEF Mod, Distant
<1> QED BY <1>1, <1>4

LEMMA Apart ==
  ASSUME NEW x \in Int, NEW y \in Int, (x + 1) - y \in 0 .. IndexRange - 1
  PROVE  (((x % IndexRange) + 1) - (y % IndexRange)) % IndexRange = (x + 1) - y
<1>1. Distant(x, y, 1, IndexRange)
  BY Distances
<1> QED BY <1>1, Zenon DEF Distant

\* One position further.
LEMMA OneOn ==
  ASSUME NEW x \in Int
  PROVE  ((x % IndexRange) + 1) % IndexRange = (x + 1) % IndexRange
<1>1. Distant(x, x, 1, IndexRange)
  BY Distances
<1> QED BY <1>1, Zenon DEF Distant

\* A thread that finds its position in the head or the tail holds it.
LEMMA Caught ==
  ASSUME Unlapped, NEW x \in Int, NEW y \in Int, y <= x, x - y <= MaxStall,
         x % IndexRange = y % IndexRange
  PROVE  x = y
<1>1. x - y < IndexRange /\ y - x < IndexRange
  BY Laps, Sizes
<1> QED BY <1>1, Sizes, ModNear

-----------------------------------------------------------------------------
(* The steps of the shared words.                                          *)

\* Nothing shared moves.
LEMMA RingSame ==
  ASSUME NEW H \in Int, NEW P \in Int, NEW T \in Int, NEW G \in [Threads -> Int],
         Ring(H, P, T, G), NEW p \in Threads, Others(p),
         head' = head, tail' = tail, entries' = entries, Owned(H, P)',
         \A r \in Threads : r # p => seen'[r] = seen[r], th[p].pc # "enqInc",
         NEW g \in Int, Holds(th'[p], entries[Map(H)], entries[Map(P)], H, P, T, g),
         Waited(th'[p], seen'[p], H, P, T, g)
  PROVE  \E F \in [Threads -> Int] : F[p] = g /\ Ring(H, P, T, F)'
<1> DEFINE F == [G EXCEPT ![p] = g]
<1>1. F \in [Threads -> Int] /\ F[p] = g /\ \A r \in Threads : r # p => F[r] = G[r]
  OBVIOUS
<1> HIDE DEF F
<1>2. Placed(H, P, T)'
  BY DEF Ring, Placed
<1>3. Owed(P, T, F)'
  BY <1>1 DEF Ring, Owed, Others
<1>4. ASSUME NEW r \in Threads
      PROVE  /\ Holds(th'[r], entries'[Map(H)], entries'[Map(P)], H, P, T, F[r])
             /\ Waited(th'[r], seen'[r], H, P, T, F[r])
  <2>1. CASE r = p
    BY <1>1, <2>1
  <2>2. CASE r # p
    BY <1>1, <2>2 DEF Ring, Others
  <2> QED BY <2>1, <2>2
<1>5. Ring(H, P, T, F)'
  BY <1>2, <1>3, <1>4 DEF Ring
<1> QED BY <1>1, <1>5

LEMMA WaitedLonger ==
  ASSUME NEW x, x.tries \in Int, NEW n \in 0 .. Patience, NEW H \in Int, NEW P \in Int,
         NEW T \in Int, NEW g \in Int, Waited(x, n, H, P, T, g)
  PROVE  /\ Waited(x, n, H, P, T + 1, g)
         /\ \A m \in 0 .. Patience :
              /\ m = n + 1 \/ (m = n /\ ~(n < Patience)) =>
                   /\ Waited(x, m, H, P + 1, T, g)
                   /\ Waited(x, m, H + 1, P, T, g)
<1>1. Waited(x, n, H, P, T + 1, g)
  BY DEF Waited
<1>2. ASSUME NEW m \in 0 .. Patience, m = n + 1 \/ (m = n /\ ~(n < Patience))
      PROVE  /\ Waited(x, m, H, P + 1, T, g)
             /\ Waited(x, m, H + 1, P, T, g)
  BY <1>2, StallAssumption DEF Waited
<1> QED BY <1>1, <1>2

\* nxt_nncq_tail_cmp_inc() by a thread that saw its position published: the tail
\* is behind that position no more.
LEMMA RingTail ==
  ASSUME Unlapped, TypeOK, NEW H \in Int, NEW P \in Int, NEW T \in Int,
         NEW G \in [Threads -> Int], Ring(H, P, T, G),
         NEW p \in Threads, th[p].pc \in {"enqHelp", "enqInc"}, Others(p),
         TailCmpInc(th[p].pos), head' = head, entries' = entries, Owned(H, P)',
         th'[p].pc \in {"enqTail", "idle"},
         \A r \in Threads : r # p => seen'[r] = seen[r],
         \A n \in {T, T + 1} : n > G[p] => Waited(th'[p], seen'[p], H, P, n, G[p])
  PROVE  \E n \in {T, T + 1} : n > G[p] /\ Ring(H, P, n, G)'
<1> DEFINE g == G[p]
<1>1. /\ g \in Int /\ th[p].pos = g % IndexRange /\ g <= T /\ T - g <= MaxStall /\ g < P
  BY DEF Ring, Holds, AtTail
<1>2. /\ head = H % IndexRange /\ tail = T % IndexRange /\ T <= P /\ P <= T + 1
      /\ H <= P /\ P - H <= Size
  BY DEF Ring, Placed
<1> HIDE DEF g
<1>3. CASE tail = th[p].pos
  <2>1. g = T /\ P = T + 1
    <3>1. g = T
      BY <1>1, <1>2, <1>3, Caught
    <3> QED BY <1>1, <1>2, <3>1
  <2>2. tail' = (T + 1) % IndexRange
    <3>1. tail' = (tail + 1) % IndexRange
      BY <1>3 DEF TailCmpInc
    <3>2. ((T % IndexRange) + 1) % IndexRange = (T + 1) % IndexRange
      BY OneOn
    <3> QED BY <1>2, <3>1, <3>2
  <2>3. ASSUME NEW r \in Threads, th[r].pc \in AtTail
        PROVE  T + 1 - G[r] <= MaxStall
    <3>1. ((tail + 1) - th[r].pos) % IndexRange <= MaxStall
      BY <1>3, <2>3 DEF TailCmpInc, NotLapped, EnqPcs, AtTail
    <3>2. PICK y \in Int : y = G[r]
      OBVIOUS
    <3>3. th[r].pos = y % IndexRange /\ y <= T /\ T - y <= MaxStall
      BY <2>3, <3>2 DEF Ring, Holds
    <3>4. (T + 1) - y \in 0 .. IndexRange - 1
      BY <3>3, Laps, Sizes
    <3>5. (((T % IndexRange) + 1) - (y % IndexRange)) % IndexRange = (T + 1) - y
      BY <3>4, Apart
    <3> QED BY <1>2, <3>1, <3>2, <3>3, <3>5
  <2>4. Placed(H, P, T + 1)'
    BY <1>2, <2>1, <2>2 DEF Ring, Placed
  <2>5. Owed(P, T + 1, G)'
    BY <2>1 DEF Owed
  <2>6. ASSUME NEW r \in Threads
        PROVE  /\ Holds(th'[r], entries'[Map(H)], entries'[Map(P)], H, P, T + 1, G[r])
               /\ Waited(th'[r], seen'[r], H, P, T + 1, G[r])
    <3>1. CASE r = p
      <4>1. Holds(th'[r], entries'[Map(H)], entries'[Map(P)], H, P, T + 1, G[r])
        BY <3>1 DEF Holds, AtTail, AtHead
      <4> QED BY <2>1, <3>1, <4>1 DEF g
    <3>2. CASE r # p
      <4>1. /\ th'[r] = th[r] /\ seen'[r] = seen[r] /\ G[r] \in Int
            /\ Holds(th[r], entries[Map(H)], entries[Map(P)], H, P, T, G[r])
            /\ Waited(th[r], seen[r], H, P, T, G[r])
        BY <3>2 DEF Ring, Others
      <4>2. Holds(th[r], entries[Map(H)], entries[Map(P)], H, P, T + 1, G[r])
        BY <2>3, <4>1 DEF Holds
      <4>3. Waited(th[r], seen[r], H, P, T + 1, G[r])
        <5>1. th[r].tries \in Int /\ seen[r] \in 0 .. Patience
          BY ThreadType, RetriesAssumption
        <5> QED BY <4>1, <5>1, WaitedLonger
      <4> QED BY <4>1, <4>2, <4>3
    <3> QED BY <3>1, <3>2
  <2>7. Ring(H, P, T + 1, G)'
    BY <2>4, <2>5, <2>6 DEF Ring
  <2> QED BY <2>1, <2>7 DEF g
<1>4. CASE tail # th[p].pos
  <2>1. g # T
    BY <1>1, <1>2, <1>4
  <2>2. Placed(H, P, T)'
    BY <1>4 DEF Ring, Placed, TailCmpInc
  <2>3. Owed(P, T, G)'
    BY <2>1 DEF Ring, Owed, Others, g
  <2>4. ASSUME NEW r \in Threads
        PROVE  /\ Holds(th'[r], entries'[Map(H)], entries'[Map(P)], H, P, T, G[r])
               /\ Waited(th'[r], seen'[r], H, P, T, G[r])
    <3>1. CASE r = p
      <4>1. Holds(th'[r], entries'[Map(H)], entries'[Map(P)], H, P, T, G[r])
        BY <3>1 DEF Holds, AtTail, AtHead
      <4> QED BY <1>1, <2>1, <3>1, <4>1 DEF g
    <3>2. CASE r # p
      BY <3>2 DEF Ring, Others
    <3> QED BY <3>1, <3>2
  <2>5. Ring(H, P, T, G)'
    BY <2>2, <2>3, <2>4 DEF Ring
  <2> QED BY <1>1, <2>1, <2>5 DEF g
<1> QED BY <1>3, <1>4

\* The others, when a call of p takes effect.
LEMMA WaitedEffect ==
  ASSUME TypeOK, NEW p \in Threads, TakesEffect(p), NEW r \in Threads, r # p,
         NEW H \in Int, NEW P \in Int, NEW T \in Int, NEW g \in Int,
         Waited(th[r], seen[r], H, P, T, g)
  PROVE  /\ Waited(th[r], seen'[r], H, P + 1, T, g)
         /\ Waited(th[r], seen'[r], H + 1, P, T, g)
<1> DEFINE n == seen[r]
           m == seen'[r]
<1>1. m = IF Pending(r) /\ n < Patience THEN n + 1 ELSE n
  BY DEF TakesEffect
<1>2. n \in 0 .. Patience /\ th[r].tries \in Int
  BY ThreadType, RetriesAssumption
<1>3. CASE Pending(r)
  <2> HIDE DEF n, m
  <2>1. m \in 0 .. Patience /\ (m = n + 1 \/ (m = n /\ ~(n < Patience)))
    BY <1>1, <1>2, <1>3, StallAssumption
  <2>2. Waited(th[r], n, H, P, T, g)
    BY DEF n
  <2>3. /\ Waited(th[r], m, H, P + 1, T, g)
        /\ Waited(th[r], m, H + 1, P, T, g)
    BY <1>2, <2>1, <2>2, WaitedLonger
  <2> QED BY <2>3 DEF m
<1>4. CASE ~Pending(r)
  BY <1>4 DEF Pending, Waited, AtHead
<1> QED BY <1>3, <1>4

\* The exchange of the entry succeeds: the position is the tail, nobody published
\* there before, and the entry that is overwritten is not in the queue.
LEMMA RingPublish ==
  ASSUME Unlapped, TypeOK, NEW H \in Int, NEW P \in Int, NEW T \in Int,
         NEW G \in [Threads -> Int], Ring(H, P, T, G),
         NEW p \in Threads, th[p].pc = "enqCas", Others(p),
         entries[Map(th[p].pos)] = th[p].ent,
         entries' = [entries EXCEPT ![Map(th[p].pos)] =
                       NewEntry(Cycle(th[p].pos), th[p].val)],
         th'[p].pc = "enqInc", th'[p].pos = th[p].pos,
         head' = head, tail' = tail, outside' = outside, TakesEffect(p)
  PROVE  /\ P = T /\ Ring(H, P + 1, T, G)' /\ P - H < Size
         /\ Val(P)' = th[p].val /\ \A q \in H .. P - 1 : Val(q)' = Val(q)
<1>1. PICK g \in Int : g = G[p]
  OBVIOUS
<1>2. /\ th[p].pos = g % IndexRange /\ g <= T /\ T - g <= MaxStall
      /\ NextCycle(Cycle(th[p].ent)) = Cycle(th[p].pos)
  BY <1>1 DEF Ring, Holds, AtTail
<1>3. Map(th[p].pos) = Map(g) /\ Cycle(th[p].pos) = Cycle(g)
  BY <1>2, WrapKeeps
<1>4. Placed(H, P, T) /\ Owned(H, P)
  BY DEF Ring
<1>5. g = P /\ g = T
  BY <1>2, <1>3, <1>4, TailEntry
<1>6. P - H < Size
  <2>1. Placed(H, P, P)
    BY <1>4, <1>5
  <2> QED BY <1>4, <2>1, NotFull DEF InHand
<1>7. /\ entries' = [entries EXCEPT ![Map(P)] = NewEntry(Cycle(P), th[p].val)]
      /\ Map(P) \in Values /\ Cycle(P) \in 0 .. CycleRange - 1 /\ th[p].val \in Values
      /\ entries \in [Values -> 0 .. CycleRange * Size - 1]
  BY <1>3, <1>5, MapType, ThreadType DEF TypeOK
<1>8. /\ Cycle(entries'[Map(P)]) = Cycle(P) /\ Map(entries'[Map(P)]) = th[p].val
  BY <1>7, EntryParts
<1>9. \A q \in P + 1 - Size .. P - 1 : entries'[Map(q)] = entries[Map(q)]
  <2> SUFFICES ASSUME NEW q \in P + 1 - Size .. P - 1
               PROVE  entries'[Map(q)] = entries[Map(q)]
    OBVIOUS
  <2>1. q \in Int /\ q - P < Size /\ P - q < Size /\ q # P
    BY Sizes
  <2>2. Map(q) # Map(P) /\ Map(q) \in Values
    BY <2>1, SameSlot, MapType
  <2> QED BY <1>7, <2>2
<1>10. H .. P - 1 \subseteq P + 1 - Size .. P - 1
  BY <1>6, Sizes
<1>11. \A q \in H .. P - 1 : Val(q)' = Val(q)
  BY <1>9, <1>10 DEF Val
<1>12. Val(P)' = th[p].val
  BY <1>8 DEF Val
<1>13. Owned(H, P + 1)'
  <2>1. H <= P
    BY <1>4 DEF Placed
  <2> QED BY <1>4, <1>11, <1>12, <2>1, OwnedPublished DEF InHand
<1>14. Placed(H, P + 1, T)'
  <2>1. /\ head = H % IndexRange /\ tail = T % IndexRange /\ H <= P
        /\ \A q \in P - Size .. P - 1 : Cycle(entries[Map(q)]) = Cycle(q)
    BY <1>4 DEF Placed
  <2>2. H <= P + 1 /\ (P + 1) - H <= Size /\ T <= P + 1 /\ P + 1 <= T + 1
    BY <1>5, <1>6, <2>1, Sizes
  <2>3. ASSUME NEW q \in (P + 1) - Size .. (P + 1) - 1
        PROVE  Cycle(entries'[Map(q)]) = Cycle(q)
    <3>1. CASE q = P
      BY <1>8, <3>1
    <3>2. CASE q # P
      <4>1. q \in P + 1 - Size .. P - 1 /\ q \in P - Size .. P - 1
        BY <3>2, Sizes
      <4> QED BY <1>9, <2>1, <4>1
    <3> QED BY <3>1, <3>2
  <2> QED BY <2>1, <2>2, <2>3 DEF Placed
<1>15. Owed(P + 1, T, G)'
  BY <1>1, <1>5 DEF Owed
<1>16. ASSUME NEW r \in Threads
       PROVE  /\ Holds(th'[r], entries'[Map(H)], entries'[Map(P + 1)], H, P + 1, T, G[r])
              /\ Waited(th'[r], seen'[r], H, P + 1, T, G[r])
  <2>1. CASE r = p
    <3>1. Holds(th'[r], entries'[Map(H)], entries'[Map(P + 1)], H, P + 1, T, G[r])
      <4>1. /\ th'[p].pc = "enqInc" /\ th'[p].pos = G[p] % IndexRange
            /\ G[p] <= T /\ T - G[p] <= MaxStall
        BY <1>1, <1>2
      <4>2. G[p] < P + 1
        BY <1>1, <1>5
      <4> QED BY <2>1, <4>1, <4>2 DEF Holds, AtTail, AtHead
    <3>2. Waited(th'[r], seen'[r], H, P + 1, T, G[r])
      BY <2>1 DEF Waited, AtHead
    <3> QED BY <3>1, <3>2
  <2>2. CASE r # p
    <3>1. /\ th'[r] = th[r] /\ G[r] \in Int
          /\ Holds(th[r], entries[Map(H)], entries[Map(P)], H, P, T, G[r])
          /\ Waited(th[r], seen[r], H, P, T, G[r])
      BY <2>2 DEF Ring, Others
    <3>2. Holds(th[r], entries'[Map(H)], entries'[Map(P + 1)], H, P + 1, T, G[r])
      <4>1. H < P => entries'[Map(H)] = entries[Map(H)]
        <5>1. H < P => H \in P + 1 - Size .. P - 1
          BY <1>6, Sizes
        <5> QED BY <1>9, <5>1
      <4>2. th[r].pc = "enqCas" => G[r] # P + 1
        BY <1>5, <3>1 DEF Holds, AtTail
      <4> QED BY <3>1, <4>1, <4>2 DEF Holds
    <3>3. Waited(th[r], seen'[r], H, P + 1, T, G[r])
      BY <2>2, <3>1, WaitedEffect
    <3> QED BY <3>1, <3>2, <3>3
  <2> QED BY <2>1, <2>2
<1>17. Ring(H, P + 1, T, G)'
  BY <1>13, <1>14, <1>15, <1>16 DEF Ring
<1> QED BY <1>5, <1>6, <1>11, <1>12, <1>17

\* The head moves over a value that was published, and that the dequeuer read.
LEMMA RingHead ==
  ASSUME Unlapped, TypeOK, NEW H \in Int, NEW P \in Int, NEW T \in Int,
         NEW G \in [Threads -> Int], Ring(H, P, T, G),
         NEW p \in Threads, th[p].pc = "deqCas", Others(p), head = th[p].pos,
         NotLapped(head + 1, DeqPcs \ {"deqHead"}), head' = (th[p].pos + 1) % IndexRange,
         outside' = outside \cup {Map(th[p].ent)}, th'[p].pc = "idle",
         tail' = tail, entries' = entries, TakesEffect(p)
  PROVE  H < P /\ Map(th[p].ent) = Val(H) /\ Ring(H + 1, P, T, G)'
<1>1. PICK g \in Int : g = G[p]
  OBVIOUS
<1>2. /\ th[p].pos = g % IndexRange /\ g <= H /\ H - g <= MaxStall /\ g < P
      /\ g = H => entries[Map(H)] = th[p].ent
  BY <1>1 DEF Ring, Holds, AtHead
<1>3. Placed(H, P, T) /\ Owned(H, P) /\ Owed(P, T, G)
  BY DEF Ring
<1>4. /\ head = H % IndexRange /\ tail = T % IndexRange /\ T <= P /\ P <= T + 1
      /\ H <= P /\ P - H <= Size
      /\ \A q \in P - Size .. P - 1 : Cycle(entries[Map(q)]) = Cycle(q)
  BY <1>3 DEF Placed
<1>5. g = H
  BY <1>2, <1>4, Caught
<1>6. H < P /\ Map(th[p].ent) = Val(H)
  BY <1>2, <1>5 DEF Val
<1>7. Owned(H + 1, P)'
  BY <1>3, <1>6, OwnedTakenOut DEF InHand
<1>8. head' = (H + 1) % IndexRange
  <2>1. ((H % IndexRange) + 1) % IndexRange = (H + 1) % IndexRange
    BY OneOn
  <2> QED BY <1>4, <2>1
<1>9. Placed(H + 1, P, T)'
  BY <1>4, <1>6, <1>8, Sizes DEF Placed
<1>10. Owed(P, T, G)'
  BY <1>3 DEF Owed, Others
<1>11. ASSUME NEW r \in Threads, th[r].pc \in AtHead
       PROVE  H + 1 - G[r] <= MaxStall
  <2>1. ((head + 1) - th[r].pos) % IndexRange <= MaxStall
    BY <1>11 DEF NotLapped, DeqPcs, AtHead
  <2>2. PICK y \in Int : y = G[r]
    OBVIOUS
  <2>3. th[r].pos = y % IndexRange /\ y <= H /\ H - y <= MaxStall
    BY <1>11, <2>2 DEF Ring, Holds
  <2>4. (H + 1) - y \in 0 .. IndexRange - 1
    BY <2>3, Laps, Sizes
  <2>5. (((H % IndexRange) + 1) - (y % IndexRange)) % IndexRange = (H + 1) - y
    BY <2>4, Apart
  <2> QED BY <1>4, <2>1, <2>2, <2>3, <2>5
<1>12. ASSUME NEW r \in Threads
       PROVE  /\ Holds(th'[r], entries'[Map(H + 1)], entries'[Map(P)], H + 1, P, T, G[r])
              /\ Waited(th'[r], seen'[r], H + 1, P, T, G[r])
  <2>1. CASE r = p
    BY <2>1 DEF Holds, Waited, AtTail, AtHead
  <2>2. CASE r # p
    <3>1. /\ th'[r] = th[r] /\ G[r] \in Int
          /\ Holds(th[r], entries[Map(H)], entries[Map(P)], H, P, T, G[r])
          /\ Waited(th[r], seen[r], H, P, T, G[r])
      BY <2>2 DEF Ring, Others
    <3>2. Holds(th[r], entries'[Map(H + 1)], entries'[Map(P)], H + 1, P, T, G[r])
      BY <1>11, <3>1 DEF Holds, AtHead
    <3>3. Waited(th[r], seen'[r], H + 1, P, T, G[r])
      BY <2>2, <3>1, WaitedEffect
    <3> QED BY <3>1, <3>2, <3>3
  <2> QED BY <2>1, <2>2
<1>13. Ring(H + 1, P, T, G)'
  BY <1>7, <1>9, <1>10, <1>12 DEF Ring
<1> QED BY <1>6, <1>13

-----------------------------------------------------------------------------
(* Retries.                                                                *)

LEMMA ReturnDoes ==
  ASSUME TypeOK, NEW p \in Threads, NEW k, Return(p, k)
  PROVE  /\ th' \in [Threads -> ThreadSet] /\ Others(p) /\ th'[p] = Idle
         /\ th'[p].pc = "idle" /\ ret' = [ret EXCEPT ![p] = k]
<1>1. th' = [th EXCEPT ![p] = Idle]
  BY DEF Return
<1>2. th' \in [Threads -> ThreadSet] /\ Others(p) /\ th'[p] = Idle
  BY <1>1, IdleType, OneThread
<1> QED BY <1>2, IdleType DEF Return

LEMMA SeenReset ==
  ASSUME TypeOK, NEW p \in Threads, seen' = [seen EXCEPT ![p] = 0]
  PROVE  /\ seen' \in [Threads -> 0 .. Patience] /\ seen'[p] = 0
         /\ \A r \in Threads : r # p => seen'[r] = seen[r]
BY StallAssumption DEF TypeOK

LEMMA SeenEffect ==
  ASSUME TypeOK, NEW p \in Threads, TakesEffect(p)
  PROVE  seen' \in [Threads -> 0 .. Patience]
<1>1. ASSUME NEW r \in Threads
      PROVE  (IF r = p THEN 0 ELSE IF Pending(r) /\ seen[r] < Patience
              THEN seen[r] + 1 ELSE seen[r]) \in 0 .. Patience
  <2>1. seen[r] \in 0 .. Patience
    BY ThreadType
  <2> QED BY <2>1, StallAssumption
<1> QED BY <1>1 DEF TakesEffect

LEMMA RetryEnqueueDoes ==
  ASSUME TypeOK, NEW p \in Threads, th[p].pc \in InHand, RetryEnqueue(p)
  PROVE  /\ th' \in [Threads -> ThreadSet] /\ Others(p) /\ outside' \subseteq Values
         /\ seen' \in [Threads -> 0 .. Patience]
         /\ \A r \in Threads : r # p => seen'[r] = seen[r]
         /\ \/ /\ th'[p].pc = "enqTail" /\ th'[p].val = th[p].val
               /\ th'[p].tries = th[p].tries + 1
               /\ outside' = outside /\ seen' = seen /\ ret' = ret
            \/ /\ th'[p].pc = "idle" /\ th[p].tries + 1 = Retries
               /\ outside' = outside \cup {th[p].val}
               /\ ret' = [ret EXCEPT ![p] = Error] /\ seen' = [seen EXCEPT ![p] = 0]
<1>1. CASE Again(p, "enqTail")
  BY <1>1, AgainDoes DEF TypeOK
<1>2. CASE /\ LastTry(p) /\ Return(p, Error) /\ outside' = outside \cup {th[p].val}
           /\ seen' = [seen EXCEPT ![p] = 0]
  <2>1. th[p].val \in Values /\ outside \subseteq Values
    BY ThreadType DEF TypeOK
  <2> QED BY <1>2, <2>1, ReturnDoes, SeenReset DEF LastTry
<1> QED BY <1>1, <1>2 DEF RetryEnqueue

LEMMA RetryDequeueDoes ==
  ASSUME TypeOK, NEW p \in Threads, RetryDequeue(p)
  PROVE  /\ th' \in [Threads -> ThreadSet] /\ Others(p) /\ outside' = outside
         /\ seen' \in [Threads -> 0 .. Patience]
         /\ \A r \in Threads : r # p => seen'[r] = seen[r]
         /\ \/ /\ th'[p].pc = "deqHead" /\ th'[p].tries = th[p].tries + 1
               /\ seen' = seen /\ ret' = ret
            \/ /\ th'[p].pc = "idle" /\ th[p].tries + 1 = Retries
               /\ ret' = [ret EXCEPT ![p] = EmptyRet] /\ seen' = [seen EXCEPT ![p] = 0]
<1>1. CASE Again(p, "deqHead")
  BY <1>1, AgainDoes DEF TypeOK
<1>2. CASE /\ LastTry(p) /\ Return(p, EmptyRet) /\ outside' = outside
           /\ seen' = [seen EXCEPT ![p] = 0]
  BY <1>2, ReturnDoes, SeenReset DEF LastTry
<1> QED BY <1>1, <1>2 DEF RetryDequeue

LEMMA RetryEnqueueOwned ==
  ASSUME TypeOK, NEW p \in Threads, th[p].pc \in InHand, RetryEnqueue(p),
         entries' = entries, NEW H \in Int, NEW P \in Int, Owned(H, P)
  PROVE  Owned(H, P)'
<1>1. CASE th'[p].pc = "enqTail"
  BY <1>1, RetryEnqueueDoes, OwnedSame DEF InHand
<1>2. CASE th'[p].pc = "idle"
  BY <1>2, RetryEnqueueDoes, OwnedGivenUp DEF InHand
<1> QED BY <1>1, <1>2, RetryEnqueueDoes

\* An enqueuer retries, if others made progress since its last try.
LEMMA RingRetryEnqueue ==
  ASSUME TypeOK, NEW H \in Int, NEW P \in Int, NEW T \in Int, NEW G \in [Threads -> Int],
         Ring(H, P, T, G), NEW p \in Threads, th[p].pc \in InHand, RetryEnqueue(p),
         head' = head, tail' = tail, entries' = entries,
         seen[p] = Patience \/ 2 * seen[p] >= th[p].tries + (P - T)
  PROVE  \E F \in [Threads -> Int] : Ring(H, P, T, F)'
<1>1. Owned(H, P)'
  BY RetryEnqueueOwned DEF Ring
<1>2. th'[p].pc \in {"enqTail", "idle"}
  BY RetryEnqueueDoes
<1>3. Holds(th'[p], entries[Map(H)], entries[Map(P)], H, P, T, G[p])
  BY <1>2 DEF Holds, AtTail, AtHead
<1>4. Waited(th'[p], seen'[p], H, P, T, G[p])
  <2>1. th[p].tries \in Int /\ seen[p] \in Int
    BY ThreadType, RetriesAssumption, StallAssumption
  <2>2. CASE th'[p].pc = "enqTail"
    <3>1. th'[p].tries = th[p].tries + 1 /\ seen'[p] = seen[p]
      BY <2>2, RetryEnqueueDoes
    <3> QED BY <2>1, <2>2, <3>1 DEF Waited, AtHead
  <2>3. CASE th'[p].pc = "idle"
    BY <2>3 DEF Waited, AtHead
  <2> QED BY <1>2, <2>2, <2>3
<1>5. Others(p) /\ \A r \in Threads : r # p => seen'[r] = seen[r]
  BY RetryEnqueueDoes
<1>6. \E F \in [Threads -> Int] : F[p] = G[p] /\ Ring(H, P, T, F)'
  <2>1. G[p] \in Int /\ th[p].pc # "enqInc"
    BY DEF InHand
  <2> QED BY <1>1, <1>3, <1>4, <1>5, <2>1, RingSame
<1> QED BY <1>6

LEMMA RingRetryDequeue ==
  ASSUME TypeOK, NEW H \in Int, NEW P \in Int, NEW T \in Int, NEW G \in [Threads -> Int],
         Ring(H, P, T, G), NEW p \in Threads, th[p].pc \in AtHead, RetryDequeue(p),
         head' = head, tail' = tail, entries' = entries,
         seen[p] = Patience \/ seen[p] >= th[p].tries + 1
  PROVE  \E F \in [Threads -> Int] : Ring(H, P, T, F)'
<1>0. th'[p].pc \in {"deqHead", "idle"} /\ Others(p) /\ outside' = outside
  BY RetryDequeueDoes
<1>1. Owned(H, P)'
  BY <1>0, OwnedSame DEF Ring, InHand, AtHead
<1>3. Holds(th'[p], entries[Map(H)], entries[Map(P)], H, P, T, G[p])
  BY <1>0 DEF Holds, AtTail, AtHead
<1>4. Waited(th'[p], seen'[p], H, P, T, G[p])
  <2>1. th[p].tries \in Int /\ seen[p] \in Int
    BY ThreadType, RetriesAssumption, StallAssumption
  <2>2. CASE th'[p].pc = "deqHead"
    <3>1. th'[p].tries = th[p].tries + 1 /\ seen'[p] = seen[p]
      BY <2>2, RetryDequeueDoes
    <3> QED BY <2>1, <2>2, <3>1 DEF Waited, AtHead
  <2>3. CASE th'[p].pc = "idle"
    BY <2>3 DEF Waited, AtHead
  <2> QED BY <1>0, <2>2, <2>3
<1>5. \A r \in Threads : r # p => seen'[r] = seen[r]
  BY RetryDequeueDoes
<1>6. \E F \in [Threads -> Int] : F[p] = G[p] /\ Ring(H, P, T, F)'
  <2>1. G[p] \in Int /\ th[p].pc # "enqInc"
    BY DEF AtHead
  <2> QED BY <1>0, <1>1, <1>3, <1>4, <1>5, <2>1, RingSame
<1> QED BY <1>6

-----------------------------------------------------------------------------
(* The actions: each keeps the types, and moves P or H as it takes effect.  *)

LEMMA Typed ==
  ASSUME th' \in [Threads -> ThreadSet], seen' \in [Threads -> 0 .. Patience],
         outside' \subseteq Values, entries' \in [Values -> 0 .. CycleRange * Size - 1],
         head' \in 0 .. IndexRange - 1, tail' \in 0 .. IndexRange - 1
  PROVE  TypeOK'
BY DEF TypeOK, ThreadSet

LEMMA TypedSame ==
  ASSUME TypeOK, th' \in [Threads -> ThreadSet], seen' \in [Threads -> 0 .. Patience],
         outside' \subseteq Values, entries' = entries, head' = head, tail' = tail
  PROVE  TypeOK'
BY Typed DEF TypeOK

LEMMA TypedTail ==
  ASSUME TypeOK, th' \in [Threads -> ThreadSet], seen' \in [Threads -> 0 .. Patience],
         outside' \subseteq Values, entries' = entries, head' = head,
         NEW p \in Threads, TailCmpInc(th[p].pos)
  PROVE  TypeOK'
<1>1. th[p].pos + 1 \in Int
  BY ThreadType, Sizes
<1>2. (th[p].pos + 1) % IndexRange \in 0 .. IndexRange - 1
  <2> DEFINE y == th[p].pos + 1
  <2> HIDE DEF y
  <2>1. y \in Int
    BY <1>1 DEF y
  <2>2. y % IndexRange \in 0 .. IndexRange - 1
    BY <2>1, WrapKeeps
  <2> QED BY <2>2 DEF y
<1>3. tail' \in 0 .. IndexRange - 1
  BY <1>2 DEF TailCmpInc, TypeOK
<1> QED BY <1>3, Typed DEF TypeOK

\* What Ring says of one thread.
Local(p, H, P, T, G, g, n, r) ==
  /\ g = G[p] /\ n = seen[p] /\ r = th[p].tries /\ n \in 0 .. Patience
  /\ Holds(th[p], entries[Map(H)], entries[Map(P)], H, P, T, g)
  /\ Waited(th[p], n, H, P, T, g)
  /\ Placed(H, P, T) /\ Owned(H, P)
  /\ H <= P /\ T <= P /\ P <= T + 1

LEMMA RingOf ==
  ASSUME TypeOK, NEW H \in Int, NEW P \in Int, NEW T \in Int, NEW G \in [Threads -> Int],
         Ring(H, P, T, G), NEW p \in Threads
  PROVE  \E g, n, r \in Int : Local(p, H, P, T, G, g, n, r)
<1>1. G[p] \in Int /\ seen[p] \in Int /\ th[p].tries \in Int /\ seen[p] \in 0 .. Patience
  BY ThreadType, RetriesAssumption, StallAssumption
<1>2. /\ Holds(th[p], entries[Map(H)], entries[Map(P)], H, P, T, G[p])
      /\ Waited(th[p], seen[p], H, P, T, G[p])
      /\ Placed(H, P, T) /\ Owned(H, P)
  BY DEF Ring
<1>3. H <= P /\ T <= P /\ P <= T + 1
  BY <1>2 DEF Placed
<1>4. Local(p, H, P, T, G, G[p], seen[p], th[p].tries)
  BY <1>1, <1>2, <1>3 DEF Local
<1> QED BY <1>1, <1>4, Zenon

LEMMA EnqueueRing ==
  ASSUME TypeOK, NEW H \in Int, NEW P \in Int, NEW T \in Int, NEW G \in [Threads -> Int],
         Ring(H, P, T, G), NEW p \in Threads, NEW v \in Values, Enqueue(p, v)
  PROVE  /\ TypeOK' /\ \E F \in [Threads -> Int] : Ring(H, P, T, F)'
         /\ th[p].pc = "idle" /\ th'[p].pc = "enqTail" /\ th'[p].val = v /\ Others(p)
<1>1. /\ th[p] = Idle /\ th' = [th EXCEPT ![p].pc = "enqTail", ![p].val = v]
      /\ head' = head /\ tail' = tail /\ entries' = entries /\ seen' = seen
      /\ v \in outside /\ outside' = outside \ {v}
  BY DEF Enqueue, Start
<1>2. /\ th' \in [Threads -> ThreadSet] /\ Others(p)
      /\ th'[p] = [th[p] EXCEPT !.pc = "enqTail", !.val = v]
  <2>1. "enqTail" \in {"idle"} \cup EnqPcs \cup DeqPcs
    BY DEF EnqPcs
  <2>2. 0 \in 0 .. IndexRange - 1 /\ 0 \in 0 .. CycleRange * Size - 1
    BY Sizes
  <2> QED BY <1>1, <2>1, <2>2, LocalStep
<1>3. th[p].pc = "idle" /\ th[p].tries = 0 /\ th[p] \in ThreadSet
  BY <1>1, IdleType
<1>4. th'[p].pc = "enqTail" /\ th'[p].val = v /\ th'[p].tries = 0
  BY <1>2, <1>3, Fields
<1>5. TypeOK'
  BY <1>1, <1>2, TypedSame DEF TypeOK
<1>6. Owned(H, P)'
  <2>1. Owned(H, P)
    BY DEF Ring
  <2> QED BY <1>1, <1>2, <1>3, <1>4, <2>1, OwnedBegun DEF InHand
<1>7. G[p] \in Int /\ seen[p] \in 0 .. Patience /\ P <= T + 1
  BY ThreadType DEF Ring, Placed
<1>8. /\ Holds(th'[p], entries[Map(H)], entries[Map(P)], H, P, T, G[p])
      /\ Waited(th'[p], seen'[p], H, P, T, G[p])
  <2>1. Holds(th'[p], entries[Map(H)], entries[Map(P)], H, P, T, G[p])
    BY <1>4 DEF Holds, AtTail, AtHead
  <2>2. PICK n \in 0 .. Patience : n = seen'[p]
    BY <1>1, <1>7
  <2>3. n \in Int /\ 2 * n >= 0 - 1 + (P - T)
    BY <1>7, <2>2, StallAssumption
  <2>4. Waited(th'[p], n, H, P, T, G[p])
    BY <1>4, <2>3 DEF Waited, AtHead
  <2> QED BY <2>1, <2>2, <2>4
<1>9. \E F \in [Threads -> Int] : F[p] = G[p] /\ Ring(H, P, T, F)'
  BY <1>1, <1>2, <1>3, <1>6, <1>7, <1>8, RingSame
<1> QED BY <1>2, <1>3, <1>4, <1>5, <1>9

LEMMA DequeueRing ==
  ASSUME TypeOK, NEW H \in Int, NEW P \in Int, NEW T \in Int, NEW G \in [Threads -> Int],
         Ring(H, P, T, G), NEW p \in Threads, Dequeue(p)
  PROVE  /\ TypeOK' /\ \E F \in [Threads -> Int] : Ring(H, P, T, F)'
         /\ th[p].pc = "idle" /\ th'[p].pc = "deqHead" /\ Others(p)
<1>1. /\ th[p] = Idle /\ th' = [th EXCEPT ![p].pc = "deqHead", ![p].val = 0]
      /\ head' = head /\ tail' = tail /\ entries' = entries /\ seen' = seen
      /\ outside' = outside
  BY DEF Dequeue, Start
<1>2. /\ th' \in [Threads -> ThreadSet] /\ Others(p)
      /\ th'[p] = [th[p] EXCEPT !.pc = "deqHead", !.val = 0]
  <2>1. "deqHead" \in {"idle"} \cup EnqPcs \cup DeqPcs
    BY DEF DeqPcs
  <2>2. 0 \in 0 .. IndexRange - 1 /\ 0 \in 0 .. CycleRange * Size - 1 /\ 0 \in Values
    BY Sizes DEF Values
  <2> QED BY <1>1, <2>1, <2>2, LocalStep
<1>3. th[p].pc = "idle" /\ th[p].tries = 0 /\ th[p] \in ThreadSet
  BY <1>1, IdleType
<1>4. th'[p].pc = "deqHead" /\ th'[p].tries = 0
  BY <1>2, <1>3, Fields
<1>5. TypeOK'
  BY <1>1, <1>2, TypedSame DEF TypeOK
<1>6. Owned(H, P)'
  <2>1. Owned(H, P)
    BY DEF Ring
  <2> QED BY <1>1, <1>2, <1>3, <1>4, <2>1, OwnedSame DEF InHand
<1>7. G[p] \in Int /\ seen[p] \in 0 .. Patience
  BY ThreadType
<1>8. /\ Holds(th'[p], entries[Map(H)], entries[Map(P)], H, P, T, G[p])
      /\ Waited(th'[p], seen'[p], H, P, T, G[p])
  BY <1>1, <1>4, <1>7, StallAssumption DEF Holds, Waited, AtTail, AtHead
<1>9. \E F \in [Threads -> Int] : F[p] = G[p] /\ Ring(H, P, T, F)'
  BY <1>1, <1>2, <1>3, <1>6, <1>7, <1>8, RingSame
<1> QED BY <1>2, <1>3, <1>4, <1>5, <1>9

LEMMA EnqLoadTailRing ==
  ASSUME TypeOK, NEW H \in Int, NEW P \in Int, NEW T \in Int, NEW G \in [Threads -> Int],
         Ring(H, P, T, G), NEW p \in Threads, EnqLoadTail(p)
  PROVE  /\ TypeOK' /\ \E F \in [Threads -> Int] : Ring(H, P, T, F)'
         /\ th[p].pc = "enqTail" /\ th'[p].pc = "enqEntry" /\ th'[p].val = th[p].val
         /\ Others(p)
<1>1. /\ th[p].pc = "enqTail" /\ th' = [th EXCEPT ![p].pc = "enqEntry", ![p].pos = tail]
      /\ head' = head /\ tail' = tail /\ entries' = entries /\ seen' = seen
      /\ outside' = outside
  BY DEF EnqLoadTail
<1>2. /\ th' \in [Threads -> ThreadSet] /\ Others(p)
      /\ th'[p] = [th[p] EXCEPT !.pc = "enqEntry", !.pos = tail]
  <2>1. "enqEntry" \in {"idle"} \cup EnqPcs \cup DeqPcs /\ tail \in 0 .. IndexRange - 1
    BY DEF EnqPcs, TypeOK
  <2>2. 0 \in 0 .. CycleRange * Size - 1 /\ 0 \in Values
    BY Sizes DEF Values
  <2> QED BY <1>1, <2>1, <2>2, LocalStep
<1>3. /\ th'[p].pc = "enqEntry" /\ th'[p].val = th[p].val /\ th'[p].pos = tail
      /\ th'[p].tries = th[p].tries
  BY <1>2, ThreadType, Fields
<1>4. TypeOK'
  BY <1>1, <1>2, TypedSame DEF TypeOK
<1>0. PICK g, n, r \in Int : Local(p, H, P, T, G, g, n, r)
  BY RingOf, Zenon
<1>5. /\ n = seen[p] /\ r = th[p].tries /\ Waited(th[p], n, H, P, T, g)
      /\ Placed(H, P, T) /\ Owned(H, P) /\ T <= P /\ P <= T + 1
  BY <1>0 DEF Local
<1>6. Owned(H, P)'
  BY <1>1, <1>2, <1>3, <1>5, OwnedSame DEF InHand
<1>7. Holds(th'[p], entries[Map(H)], entries[Map(P)], H, P, T, T)
  <2>1. tail = T % IndexRange /\ MaxStall \in Nat
    BY <1>5, StallAssumption DEF Placed
  <2> QED BY <1>3, <2>1 DEF Holds, AtTail, AtHead
<1>8. Waited(th'[p], seen'[p], H, P, T, T)
  <2>1. n = Patience \/ 2 * n >= r - 1 + (P - T)
    BY <1>1, <1>5 DEF Waited
  <2>2. n = Patience \/ (2 * n >= r - 1 /\ (T < P => 2 * n >= r - 2 + 2 * (P - T)))
    BY <1>5, <2>1
  <2> QED BY <1>1, <1>3, <1>5, <2>2 DEF Waited, AtHead
<1>9. \E F \in [Threads -> Int] : F[p] = T /\ Ring(H, P, T, F)'
  BY <1>1, <1>2, <1>6, <1>7, <1>8, RingSame
<1> QED BY <1>1, <1>2, <1>3, <1>4, <1>9

LEMMA DeqLoadHeadRing ==
  ASSUME TypeOK, NEW H \in Int, NEW P \in Int, NEW T \in Int, NEW G \in [Threads -> Int],
         Ring(H, P, T, G), NEW p \in Threads, DeqLoadHead(p)
  PROVE  /\ TypeOK' /\ \E F \in [Threads -> Int] : Ring(H, P, T, F)'
         /\ th[p].pc = "deqHead" /\ th'[p].pc = "deqEntry" /\ Others(p)
<1>1. /\ th[p].pc = "deqHead" /\ th' = [th EXCEPT ![p].pc = "deqEntry", ![p].pos = head]
      /\ head' = head /\ tail' = tail /\ entries' = entries /\ seen' = seen
      /\ outside' = outside
  BY DEF DeqLoadHead
<1>2. /\ th' \in [Threads -> ThreadSet] /\ Others(p)
      /\ th'[p] = [th[p] EXCEPT !.pc = "deqEntry", !.pos = head]
  <2>1. "deqEntry" \in {"idle"} \cup EnqPcs \cup DeqPcs /\ head \in 0 .. IndexRange - 1
    BY DEF DeqPcs, TypeOK
  <2>2. 0 \in 0 .. CycleRange * Size - 1 /\ 0 \in Values
    BY Sizes DEF Values
  <2> QED BY <1>1, <2>1, <2>2, LocalStep
<1>3. /\ th'[p].pc = "deqEntry" /\ th'[p].pos = head /\ th'[p].tries = th[p].tries
  BY <1>2, ThreadType, Fields
<1>4. TypeOK'
  BY <1>1, <1>2, TypedSame DEF TypeOK
<1>0. PICK g, n, r \in Int : Local(p, H, P, T, G, g, n, r)
  BY RingOf, Zenon
<1>5. /\ n = seen[p] /\ r = th[p].tries /\ Waited(th[p], n, H, P, T, g)
      /\ Placed(H, P, T) /\ Owned(H, P)
  BY <1>0 DEF Local
<1>6. Owned(H, P)'
  BY <1>1, <1>2, <1>3, <1>5, OwnedSame DEF InHand
<1>7. Holds(th'[p], entries[Map(H)], entries[Map(P)], H, P, T, H)
  <2>1. head = H % IndexRange /\ MaxStall \in Nat
    BY <1>5, StallAssumption DEF Placed
  <2> QED BY <1>3, <2>1 DEF Holds, AtTail, AtHead
<1>8. Waited(th'[p], seen'[p], H, P, T, H)
  <2>1. n = Patience \/ n >= r + (H - H)
    BY <1>1, <1>5 DEF Waited
  <2> QED BY <1>1, <1>3, <1>5, <2>1 DEF Waited, AtHead
<1>9. \E F \in [Threads -> Int] : F[p] = H /\ Ring(H, P, T, F)'
  BY <1>1, <1>2, <1>6, <1>7, <1>8, RingSame
<1> QED BY <1>1, <1>2, <1>3, <1>4, <1>9

\* A step inside a call that has no effect, and a try that failed because the
\* others made progress.
Inside(p) ==
  /\ Others(p) /\ seen' = seen /\ ret' = ret
  /\ \/ th[p].pc \in InHand /\ th'[p].pc \in InHand /\ th'[p].val = th[p].val
     \/ th[p].pc \in DeqPcs /\ th'[p].pc \in DeqPcs

EnqFails(p) ==
  /\ th[p].pc \in InHand /\ RetryEnqueue(p)
  /\ seen[p] = Patience \/ 2 * seen[p] >= th[p].tries

DeqFails(p) ==
  /\ th[p].pc \in AtHead /\ RetryDequeue(p)
  /\ seen[p] = Patience \/ seen[p] >= th[p].tries + 1

LEMMA EnqLoadEntryRing ==
  ASSUME Unlapped, TypeOK, NEW H \in Int, NEW P \in Int, NEW T \in Int,
         NEW G \in [Threads -> Int], Ring(H, P, T, G), NEW p \in Threads, EnqLoadEntry(p)
  PROVE  /\ TypeOK' /\ \E F \in [Threads -> Int] : Ring(H, P, T, F)'
         /\ entries' = entries /\ (Inside(p) \/ EnqFails(p))
<1> DEFINE e == entries[Map(th[p].pos)]
           c == Cycle(th[p].pos)
<1>1. /\ th[p].pc = "enqEntry" /\ head' = head /\ tail' = tail /\ entries' = entries
  BY DEF EnqLoadEntry
<1>0. PICK g, n, r \in Int : Local(p, H, P, T, G, g, n, r)
  BY RingOf, Zenon
<1>2. /\ g = G[p] /\ n = seen[p] /\ r = th[p].tries
      /\ Holds(th[p], entries[Map(H)], entries[Map(P)], H, P, T, g)
      /\ Waited(th[p], n, H, P, T, g)
      /\ Placed(H, P, T) /\ Owned(H, P) /\ T <= P /\ P <= T + 1
  BY <1>0 DEF Local
<1>3. th[p].pos = g % IndexRange /\ g <= T /\ T - g <= MaxStall
  BY <1>1, <1>2 DEF Holds, AtTail
<1>4. e = entries[Map(g)] /\ c = Cycle(g) /\ e \in 0 .. CycleRange * Size - 1
  BY <1>3, WrapKeeps, EntryType
<1>5. /\ NextCycle(Cycle(e)) = c => g = P /\ g = T
      /\ Cycle(e) = c => g < P
      /\ g = T /\ g < P => Cycle(e) = c
      /\ g = P => NextCycle(Cycle(e)) = c
  BY <1>2, <1>3, <1>4, TailEntry
<1>6. n = Patience \/ (2 * n >= r - 1 /\ (g < P => 2 * n >= r - 2 + 2 * (P - g)))
  BY <1>1, <1>2 DEF Waited
<1>7. \/ /\ Cycle(e) = c /\ th' = [th EXCEPT ![p].pc = "enqHelp"]
         /\ outside' = outside /\ seen' = seen /\ ret' = ret
      \/ Cycle(e) # c /\ NextCycle(Cycle(e)) # c /\ RetryEnqueue(p)
      \/ /\ NextCycle(Cycle(e)) = c /\ th' = [th EXCEPT ![p].pc = "enqCas", ![p].ent = e]
         /\ outside' = outside /\ seen' = seen /\ ret' = ret
  BY DEF EnqLoadEntry
<1> HIDE DEF e, c
<1>8. /\ {"enqHelp", "enqCas"} \subseteq {"idle"} \cup EnqPcs \cup DeqPcs
      /\ 0 \in 0 .. IndexRange - 1 /\ 0 \in Values
  BY Sizes DEF EnqPcs, Values
<1>9. CASE /\ Cycle(e) = c /\ th' = [th EXCEPT ![p].pc = "enqHelp"]
           /\ outside' = outside /\ seen' = seen /\ ret' = ret
  <2>1. /\ th' \in [Threads -> ThreadSet] /\ Others(p)
        /\ th'[p] = [th[p] EXCEPT !.pc = "enqHelp"]
    BY <1>4, <1>8, <1>9, LocalStep
  <2>2. /\ th'[p].pc = "enqHelp" /\ th'[p].val = th[p].val /\ th'[p].pos = th[p].pos
        /\ th'[p].tries = th[p].tries
    BY <2>1, ThreadType, Fields
  <2>3. TypeOK'
    BY <1>1, <1>9, <2>1, TypedSame DEF TypeOK
  <2>4. Owned(H, P)'
    BY <1>1, <1>2, <1>9, <2>1, <2>2, OwnedSame DEF InHand
  <2>5. Holds(th'[p], entries[Map(H)], entries[Map(P)], H, P, T, g)
    BY <1>3, <1>5, <1>9, <2>2 DEF Holds, AtTail, AtHead
  <2>6. Waited(th'[p], seen'[p], H, P, T, g)
    BY <1>2, <1>6, <1>9, <2>2 DEF Waited, AtHead
  <2>7. \E F \in [Threads -> Int] : F[p] = g /\ Ring(H, P, T, F)'
    BY <1>1, <1>9, <2>1, <2>4, <2>5, <2>6, RingSame
  <2> QED BY <1>1, <1>9, <2>1, <2>2, <2>3, <2>7 DEF Inside, InHand
<1>10. CASE Cycle(e) # c /\ NextCycle(Cycle(e)) # c /\ RetryEnqueue(p)
  <2>1. g < T
    BY <1>2, <1>3, <1>5, <1>10
  <2>2. n = Patience \/ 2 * n >= r + (P - T)
    BY <1>2, <1>6, <2>1
  <2>3. n = Patience \/ 2 * n >= r
    BY <1>2, <2>2
  <2>4. \E F \in [Threads -> Int] : Ring(H, P, T, F)'
    BY <1>1, <1>2, <1>10, <2>2, RingRetryEnqueue DEF InHand
  <2>5. TypeOK'
    BY <1>1, <1>10, RetryEnqueueDoes, TypedSame DEF InHand
  <2> QED BY <1>1, <1>2, <1>10, <2>3, <2>4, <2>5 DEF EnqFails, InHand
<1>11. CASE /\ NextCycle(Cycle(e)) = c /\ th' = [th EXCEPT ![p].pc = "enqCas", ![p].ent = e]
            /\ outside' = outside /\ seen' = seen /\ ret' = ret
  <2>1. /\ th' \in [Threads -> ThreadSet] /\ Others(p)
        /\ th'[p] = [th[p] EXCEPT !.pc = "enqCas", !.ent = e]
    BY <1>4, <1>8, <1>11, LocalStep
  <2>2. /\ th'[p].pc = "enqCas" /\ th'[p].val = th[p].val /\ th'[p].pos = th[p].pos
        /\ th'[p].tries = th[p].tries /\ th'[p].ent = e
    BY <2>1, ThreadType, Fields
  <2>3. TypeOK'
    BY <1>1, <1>11, <2>1, TypedSame DEF TypeOK
  <2>4. Owned(H, P)'
    BY <1>1, <1>2, <1>11, <2>1, <2>2, OwnedSame DEF InHand
  <2>5. g = P /\ g = T
    BY <1>5, <1>11
  <2>6. Holds(th'[p], entries[Map(H)], entries[Map(P)], H, P, T, g)
    BY <1>3, <1>4, <1>11, <2>2, <2>5 DEF Holds, AtTail, AtHead, c
  <2>7. Waited(th'[p], seen'[p], H, P, T, g)
    <3>1. n = Patience \/ 2 * n >= r - 1 + 2 * (P - g)
      BY <1>2, <1>6, <2>5
    <3> QED BY <1>2, <1>11, <2>2, <3>1 DEF Waited, AtHead
  <2>8. \E F \in [Threads -> Int] : F[p] = g /\ Ring(H, P, T, F)'
    BY <1>1, <1>11, <2>1, <2>4, <2>6, <2>7, RingSame
  <2> QED BY <1>1, <1>11, <2>1, <2>2, <2>3, <2>8 DEF Inside, InHand
<1> QED BY <1>7, <1>9, <1>10, <1>11

LEMMA EnqHelpTailRing ==
  ASSUME Unlapped, TypeOK, NEW H \in Int, NEW P \in Int, NEW T \in Int,
         NEW G \in [Threads -> Int], Ring(H, P, T, G), NEW p \in Threads, EnqHelpTail(p)
  PROVE  /\ TypeOK' /\ \E S \in Int : Ring(H, P, S, G)'
         /\ entries' = entries /\ EnqFails(p)
<1>1. /\ th[p].pc = "enqHelp" /\ head' = head /\ entries' = entries
      /\ TailCmpInc(th[p].pos) /\ RetryEnqueue(p)
  BY DEF EnqHelpTail
<1>0. PICK g, n, r \in Int : Local(p, H, P, T, G, g, n, r)
  BY RingOf, Zenon
<1>2. /\ g = G[p] /\ n = seen[p] /\ r = th[p].tries
      /\ Holds(th[p], entries[Map(H)], entries[Map(P)], H, P, T, g)
      /\ Waited(th[p], n, H, P, T, g)
      /\ Placed(H, P, T) /\ Owned(H, P) /\ T <= P /\ P <= T + 1
  BY <1>0 DEF Local
<1>3. g < P /\ (n = Patience \/ (2 * n >= r - 1 /\ 2 * n >= r - 2 + 2 * (P - g)))
  BY <1>1, <1>2 DEF Holds, Waited
<1>4. Owned(H, P)'
  BY <1>1, <1>2, RetryEnqueueOwned DEF InHand
<1>5. /\ th' \in [Threads -> ThreadSet] /\ Others(p) /\ outside' \subseteq Values
      /\ seen' \in [Threads -> 0 .. Patience]
      /\ \A q \in Threads : q # p => seen'[q] = seen[q]
      /\ \/ /\ th'[p].pc = "enqTail" /\ th'[p].tries = r + 1 /\ seen'[p] = n
         \/ th'[p].pc = "idle"
  BY <1>1, <1>2, RetryEnqueueDoes DEF InHand
<1>6. TypeOK'
  BY <1>1, <1>5, TypedTail
<1>7. ASSUME NEW S \in {T, T + 1}, S > G[p]
      PROVE  Waited(th'[p], seen'[p], H, P, S, G[p])
  <2>1. n = Patience \/ 2 * n >= (r + 1) - 1 + (P - S)
    BY <1>2, <1>3, <1>7
  <2> QED BY <1>5, <2>1 DEF Waited, AtHead
<1>8. \E S \in {T, T + 1} : S > G[p] /\ Ring(H, P, S, G)'
  BY <1>1, <1>4, <1>5, <1>7, RingTail
<1>9. n = Patience \/ 2 * n >= r
  BY <1>2, <1>3
<1> QED BY <1>1, <1>2, <1>6, <1>8, <1>9 DEF EnqFails, InHand

LEMMA EnqIncTailRing ==
  ASSUME Unlapped, TypeOK, NEW H \in Int, NEW P \in Int, NEW T \in Int,
         NEW G \in [Threads -> Int], Ring(H, P, T, G), NEW p \in Threads, EnqIncTail(p)
  PROVE  /\ TypeOK' /\ \E S \in Int : Ring(H, P, S, G)'
         /\ entries' = entries /\ Others(p) /\ seen' = seen /\ ret' = ret
         /\ th[p].pc = "enqInc" /\ th'[p].pc = "idle"
<1>1. /\ th[p].pc = "enqInc" /\ head' = head /\ entries' = entries /\ outside' = outside
      /\ seen' = seen /\ ret' = ret /\ TailCmpInc(th[p].pos) /\ th' = [th EXCEPT ![p] = Idle]
  BY DEF EnqIncTail
<1>2. th' \in [Threads -> ThreadSet] /\ Others(p) /\ th'[p].pc = "idle"
  BY <1>1, IdleType, OneThread
<1>3. TypeOK'
  BY <1>1, <1>2, TypedTail DEF TypeOK
<1>4. Owned(H, P)'
  BY <1>1, <1>2, OwnedSame DEF InHand, Ring
<1>5. \A S \in {T, T + 1} : S > G[p] => Waited(th'[p], seen'[p], H, P, S, G[p])
  BY <1>2 DEF Waited, AtHead
<1>6. \E S \in {T, T + 1} : S > G[p] /\ Ring(H, P, S, G)'
  BY <1>1, <1>2, <1>4, <1>5, RingTail
<1> QED BY <1>1, <1>2, <1>3, <1>6

\* The exchange: the value is at the end of the queue, or the try failed.
LEMMA EnqCasEntryRing ==
  ASSUME Unlapped, TypeOK, NEW H \in Int, NEW P \in Int, NEW T \in Int,
         NEW G \in [Threads -> Int], Ring(H, P, T, G), NEW p \in Threads, EnqCasEntry(p)
  PROVE  /\ TypeOK'
         /\ \/ /\ \E F \in [Threads -> Int] : Ring(H, P, T, F)'
               /\ entries' = entries /\ EnqFails(p)
            \/ /\ Ring(H, P + 1, T, G)' /\ Val(P)' = th[p].val
               /\ \A q \in H .. P - 1 : Val(q)' = Val(q)
               /\ Others(p) /\ TakesEffect(p) /\ ret' = [ret EXCEPT ![p] = Ok]
               /\ th[p].pc = "enqCas" /\ th'[p].pc = "enqInc"
<1>1. th[p].pc = "enqCas" /\ head' = head /\ tail' = tail
  BY DEF EnqCasEntry
<1>0. PICK g, n, r \in Int : Local(p, H, P, T, G, g, n, r)
  BY RingOf, Zenon
<1>2. /\ g = G[p] /\ n = seen[p] /\ r = th[p].tries
      /\ Holds(th[p], entries[Map(H)], entries[Map(P)], H, P, T, g)
      /\ Waited(th[p], n, H, P, T, g)
      /\ Placed(H, P, T) /\ Owned(H, P) /\ T <= P /\ P <= T + 1
  BY <1>0 DEF Local
<1>3. /\ th[p].pos = g % IndexRange /\ g <= T /\ T - g <= MaxStall
      /\ g = P => entries[Map(P)] = th[p].ent
  BY <1>1, <1>2 DEF Holds, AtTail
<1>4. Map(th[p].pos) = Map(g) /\ Cycle(th[p].pos) = Cycle(g)
  BY <1>3, WrapKeeps
<1>5. CASE entries[Map(th[p].pos)] # th[p].ent /\ RetryEnqueue(p) /\ entries' = entries
  <2>1. g < P
    BY <1>2, <1>3, <1>4, <1>5
  <2>2. n = Patience \/ 2 * n >= r - 1 + 2 * (P - g)
    BY <1>1, <1>2 DEF Waited
  <2>3. n = Patience \/ 2 * n >= r + (P - T)
    BY <1>2, <1>3, <2>1, <2>2
  <2>4. n = Patience \/ 2 * n >= r
    BY <1>2, <2>3
  <2>5. \E F \in [Threads -> Int] : Ring(H, P, T, F)'
    BY <1>1, <1>2, <1>5, <2>3, RingRetryEnqueue DEF InHand
  <2>6. TypeOK'
    BY <1>1, <1>5, RetryEnqueueDoes, TypedSame DEF InHand
  <2> QED BY <1>1, <1>2, <1>5, <2>4, <2>5, <2>6 DEF EnqFails, InHand
<1>6. CASE entries[Map(th[p].pos)] = th[p].ent /\ Publish(p)
  <2>1. /\ entries' = [entries EXCEPT ![Map(th[p].pos)] =
                         NewEntry(Cycle(th[p].pos), th[p].val)]
        /\ th' = [th EXCEPT ![p].pc = "enqInc"] /\ ret' = [ret EXCEPT ![p] = Ok]
        /\ TakesEffect(p) /\ outside' = outside
    BY <1>6 DEF Publish
  <2>2. /\ th' \in [Threads -> ThreadSet] /\ Others(p)
        /\ th'[p] = [th[p] EXCEPT !.pc = "enqInc"]
    <3>1. /\ "enqInc" \in {"idle"} \cup EnqPcs \cup DeqPcs /\ 0 \in 0 .. IndexRange - 1
          /\ 0 \in 0 .. CycleRange * Size - 1 /\ 0 \in Values
      BY Sizes DEF EnqPcs, Values
    <3> QED BY <2>1, <3>1, LocalStep
  <2>3. th'[p].pc = "enqInc" /\ th'[p].pos = th[p].pos
    BY <2>2, ThreadType, Fields
  <2>4. /\ P = T /\ Ring(H, P + 1, T, G)' /\ P - H < Size
        /\ Val(P)' = th[p].val /\ \A q \in H .. P - 1 : Val(q)' = Val(q)
    <3>1. /\ entries[Map(th[p].pos)] = th[p].ent /\ Others(p) /\ TakesEffect(p)
          /\ entries' = [entries EXCEPT ![Map(th[p].pos)] =
                           NewEntry(Cycle(th[p].pos), th[p].val)]
          /\ outside' = outside
      BY <1>6, <2>1, <2>2
    <3> QED BY <1>1, <2>3, <3>1, RingPublish
  <2>5. entries' \in [Values -> 0 .. CycleRange * Size - 1]
    <3> DEFINE w == NewEntry(Cycle(g), th[p].val)
    <3>1. w \in 0 .. CycleRange * Size - 1
      BY EntryParts, ThreadType, MapType
    <3>2. entries' = [entries EXCEPT ![Map(g)] = w] /\ Map(g) \in Values
      BY <1>4, <2>1, MapType
    <3> HIDE DEF w
    <3> QED BY <3>1, <3>2 DEF TypeOK
  <2>6. TypeOK'
    BY <1>1, <2>1, <2>2, <2>5, SeenEffect, Typed DEF TypeOK
  <2> QED BY <1>1, <2>1, <2>2, <2>3, <2>4, <2>6
<1> QED BY <1>5, <1>6 DEF EnqCasEntry

\* The load of the entry at the head: "empty" means that nothing is published.
LEMMA DeqLoadEntryRing ==
  ASSUME Unlapped, TypeOK, NEW H \in Int, NEW P \in Int, NEW T \in Int,
         NEW G \in [Threads -> Int], Ring(H, P, T, G), NEW p \in Threads, DeqLoadEntry(p)
  PROVE  /\ TypeOK' /\ \E F \in [Threads -> Int] : Ring(H, P, T, F)'
         /\ entries' = entries
         /\ \/ Inside(p) \/ DeqFails(p)
            \/ /\ H = P /\ th[p].pc \in DeqPcs /\ Others(p) /\ th'[p].pc = "idle"
               /\ ret' = [ret EXCEPT ![p] = EmptyRet] /\ seen' = [seen EXCEPT ![p] = 0]
<1> DEFINE e == entries[Map(th[p].pos)]
           c == Cycle(th[p].pos)
<1>1. /\ th[p].pc = "deqEntry" /\ head' = head /\ tail' = tail /\ entries' = entries
  BY DEF DeqLoadEntry
<1>0. PICK g, n, r \in Int : Local(p, H, P, T, G, g, n, r)
  BY RingOf, Zenon
<1>2. /\ g = G[p] /\ n = seen[p] /\ r = th[p].tries
      /\ Holds(th[p], entries[Map(H)], entries[Map(P)], H, P, T, g)
      /\ Waited(th[p], n, H, P, T, g)
      /\ Placed(H, P, T) /\ Owned(H, P)
  BY <1>0 DEF Local
<1>3. th[p].pos = g % IndexRange /\ g <= H /\ H - g <= MaxStall
  BY <1>1, <1>2 DEF Holds, AtHead
<1>4. e = entries[Map(g)] /\ c = Cycle(g) /\ e \in 0 .. CycleRange * Size - 1
  BY <1>3, WrapKeeps, EntryType
<1>5. /\ NextCycle(Cycle(e)) = c => g = H /\ H = P
      /\ Cycle(e) = c => g < P
      /\ g = H /\ H < P => Cycle(e) = c
      /\ g = P => NextCycle(Cycle(e)) = c
  BY <1>2, <1>3, <1>4, HeadEntry
<1>6. n = Patience \/ n >= r + (H - g)
  BY <1>1, <1>2 DEF Waited, AtHead
<1>7. \/ /\ Cycle(e) = c /\ th' = [th EXCEPT ![p].pc = "deqCas", ![p].ent = e]
         /\ outside' = outside /\ seen' = seen /\ ret' = ret
      \/ /\ NextCycle(Cycle(e)) = c /\ Return(p, EmptyRet)
         /\ outside' = outside /\ seen' = [seen EXCEPT ![p] = 0]
      \/ Cycle(e) # c /\ NextCycle(Cycle(e)) # c /\ RetryDequeue(p)
  BY DEF DeqLoadEntry
<1> HIDE DEF e, c
<1>8. CASE /\ Cycle(e) = c /\ th' = [th EXCEPT ![p].pc = "deqCas", ![p].ent = e]
           /\ outside' = outside /\ seen' = seen /\ ret' = ret
  <2>1. /\ th' \in [Threads -> ThreadSet] /\ Others(p)
        /\ th'[p] = [th[p] EXCEPT !.pc = "deqCas", !.ent = e]
    <3>1. /\ "deqCas" \in {"idle"} \cup EnqPcs \cup DeqPcs
          /\ 0 \in 0 .. IndexRange - 1 /\ 0 \in Values
      BY Sizes DEF DeqPcs, Values
    <3> QED BY <1>4, <1>8, <3>1, LocalStep
  <2>2. /\ th'[p].pc = "deqCas" /\ th'[p].pos = th[p].pos
        /\ th'[p].tries = th[p].tries /\ th'[p].ent = e
    BY <2>1, ThreadType, Fields
  <2>3. TypeOK'
    BY <1>1, <1>8, <2>1, TypedSame DEF TypeOK
  <2>4. Owned(H, P)'
    BY <1>1, <1>2, <1>8, <2>1, <2>2, OwnedSame DEF InHand
  <2>5. Holds(th'[p], entries[Map(H)], entries[Map(P)], H, P, T, g)
    BY <1>3, <1>4, <1>5, <1>8, <2>2 DEF Holds, AtTail, AtHead
  <2>6. Waited(th'[p], seen'[p], H, P, T, g)
    BY <1>2, <1>6, <1>8, <2>2 DEF Waited, AtHead
  <2>7. \E F \in [Threads -> Int] : F[p] = g /\ Ring(H, P, T, F)'
    BY <1>1, <1>8, <2>1, <2>4, <2>5, <2>6, RingSame
  <2> QED BY <1>1, <1>8, <2>1, <2>2, <2>3, <2>7 DEF Inside, DeqPcs
<1>9. CASE /\ NextCycle(Cycle(e)) = c /\ Return(p, EmptyRet)
           /\ outside' = outside /\ seen' = [seen EXCEPT ![p] = 0]
  <2>1. /\ th' \in [Threads -> ThreadSet] /\ Others(p) /\ th'[p].pc = "idle"
        /\ ret' = [ret EXCEPT ![p] = EmptyRet]
    BY <1>9, ReturnDoes
  <2>2. /\ seen' \in [Threads -> 0 .. Patience]
        /\ \A q \in Threads : q # p => seen'[q] = seen[q]
    BY <1>9, SeenReset
  <2>3. TypeOK'
    BY <1>1, <1>9, <2>1, <2>2, TypedSame DEF TypeOK
  <2>4. Owned(H, P)'
    BY <1>1, <1>2, <1>9, <2>1, OwnedSame DEF InHand
  <2>5. /\ Holds(th'[p], entries[Map(H)], entries[Map(P)], H, P, T, g)
        /\ Waited(th'[p], seen'[p], H, P, T, g)
    BY <2>1 DEF Holds, Waited, AtTail, AtHead
  <2>6. \E F \in [Threads -> Int] : F[p] = g /\ Ring(H, P, T, F)'
    <3>1. /\ th[p].pc # "enqInc" /\ Others(p)
          /\ head' = head /\ tail' = tail /\ entries' = entries
          /\ \A q \in Threads : q # p => seen'[q] = seen[q]
      BY <1>1, <2>1, <2>2
    <3> QED BY <2>4, <2>5, <3>1, RingSame
  <2> QED BY <1>1, <1>5, <1>9, <2>1, <2>3, <2>6 DEF DeqPcs
<1>10. CASE Cycle(e) # c /\ NextCycle(Cycle(e)) # c /\ RetryDequeue(p)
  <2>1. g < H
    <3>1. H <= P
      BY <1>2 DEF Placed
    <3> QED BY <1>3, <1>5, <1>10, <3>1
  <2>2. n = Patience \/ n >= r + 1
    BY <1>6, <2>1
  <2>3. \E F \in [Threads -> Int] : Ring(H, P, T, F)'
    BY <1>1, <1>2, <1>10, <2>2, RingRetryDequeue DEF AtHead
  <2>4. TypeOK'
    BY <1>1, <1>10, RetryDequeueDoes, TypedSame DEF TypeOK
  <2> QED BY <1>1, <1>2, <1>10, <2>2, <2>3, <2>4 DEF DeqFails, AtHead
<1> QED BY <1>7, <1>8, <1>9, <1>10

\* The exchange of the head: the oldest value leaves, or the try failed.
LEMMA DeqCasHeadRing ==
  ASSUME Unlapped, TypeOK, NEW H \in Int, NEW P \in Int, NEW T \in Int,
         NEW G \in [Threads -> Int], Ring(H, P, T, G), NEW p \in Threads, DeqCasHead(p)
  PROVE  /\ TypeOK' /\ entries' = entries
         /\ \/ /\ \E F \in [Threads -> Int] : Ring(H, P, T, F)'
               /\ DeqFails(p)
            \/ /\ Ring(H + 1, P, T, G)' /\ H < P
               /\ Others(p) /\ TakesEffect(p) /\ ret' = [ret EXCEPT ![p] = Got(Val(H))]
               /\ th[p].pc \in DeqPcs /\ th'[p].pc = "idle"
<1>1. th[p].pc = "deqCas" /\ entries' = entries /\ tail' = tail
  BY DEF DeqCasHead
<1>0. PICK g, n, r \in Int : Local(p, H, P, T, G, g, n, r)
  BY RingOf, Zenon
<1>2. /\ g = G[p] /\ n = seen[p] /\ r = th[p].tries
      /\ Holds(th[p], entries[Map(H)], entries[Map(P)], H, P, T, g)
      /\ Waited(th[p], n, H, P, T, g)
      /\ Placed(H, P, T) /\ Owned(H, P)
  BY <1>0 DEF Local
<1>3. th[p].pos = g % IndexRange /\ g <= H /\ head = H % IndexRange
  BY <1>1, <1>2 DEF Holds, AtHead, Placed
<1>4. CASE head # th[p].pos /\ RetryDequeue(p) /\ head' = head
  <2>1. g < H
    BY <1>3, <1>4
  <2>2. n = Patience \/ n >= r + (H - g)
    BY <1>1, <1>2 DEF Waited, AtHead
  <2>3. n = Patience \/ n >= r + 1
    BY <2>1, <2>2
  <2>4. \E F \in [Threads -> Int] : Ring(H, P, T, F)'
    BY <1>1, <1>2, <1>4, <2>3, RingRetryDequeue DEF AtHead
  <2>5. TypeOK'
    BY <1>1, <1>4, RetryDequeueDoes, TypedSame DEF TypeOK
  <2> QED BY <1>1, <1>2, <1>4, <2>3, <2>4, <2>5 DEF DeqFails, AtHead
<1>5. CASE head = th[p].pos /\ NotLapped(head + 1, DeqPcs \ {"deqHead"}) /\ TakeOut(p)
  <2>1. /\ head' = (th[p].pos + 1) % IndexRange /\ Return(p, Got(Map(th[p].ent)))
        /\ outside' = outside \cup {Map(th[p].ent)} /\ TakesEffect(p)
    BY <1>5 DEF TakeOut
  <2>2. /\ th' \in [Threads -> ThreadSet] /\ Others(p) /\ th'[p].pc = "idle"
        /\ ret' = [ret EXCEPT ![p] = Got(Map(th[p].ent))]
    BY <2>1, ReturnDoes
  <2>3. H < P /\ Map(th[p].ent) = Val(H) /\ Ring(H + 1, P, T, G)'
    BY <1>1, <1>5, <2>1, <2>2, RingHead
  <2>4. outside' \subseteq Values
    <3>1. th[p].ent \in Int
      BY ThreadType, Sizes
    <3> QED BY <2>1, <3>1, MapType DEF TypeOK
  <2>5. head' \in 0 .. IndexRange - 1
    <3>1. (H + 1) % IndexRange \in 0 .. IndexRange - 1
      BY WrapKeeps
    <3>2. head' = (H + 1) % IndexRange
      BY <2>3 DEF Ring, Placed
    <3> QED BY <3>1, <3>2
  <2>6. TypeOK'
    BY <1>1, <2>1, <2>2, <2>4, <2>5, SeenEffect, Typed DEF TypeOK
  <2> QED BY <1>1, <2>1, <2>2, <2>3, <2>6 DEF DeqPcs
<1> QED BY <1>4, <1>5 DEF DeqCasHead

-----------------------------------------------------------------------------
(* The invariant holds.                                                    *)

LEMMA RingInit ==
  ASSUME Init
  PROVE  /\ TypeOK
         /\ \A G \in [Threads -> Int] : Ring(Size, Size, Size, G)
<1>1. Size < IndexRange /\ Size \in 0 .. IndexRange - 1 /\ Size % IndexRange = Size
  <2>1. PICK w \in Nat \ {0} : Cycles = CycleRange * w
    BY Sizes
  <2>2. 2 <= Cycles
    <3>1. CycleRange * w >= CycleRange
      BY Sizes, TimesMonotone
    <3> QED BY <2>1, <3>1, Sizes
  <2>3. PICK k \in Nat : Cycles = k + 2
    <3>1. Cycles - 2 \in Nat /\ Cycles = (Cycles - 2) + 2
      BY <2>2, Sizes
    <3> QED BY <3>1
  <2>4. IndexRange = Size * k + 2 * Size
    BY <2>3, Sizes
  <2>5. Size * k \in Nat
    BY Sizes
  <2>6. Size < IndexRange /\ Size \in 0 .. IndexRange - 1
    BY <2>4, <2>5, Sizes
  <2> QED BY <2>6, Sizes, ModIdem
<1>2. \A q \in 0 .. Size - 1 : Map(q) = q /\ Cycle(q) = 0
  <2> SUFFICES ASSUME NEW q \in 0 .. Size - 1 PROVE Map(q) = q /\ Cycle(q) = 0
    OBVIOUS
  <2>1. q \in Int /\ q = Size * 0 + q
    BY Sizes
  <2>2. q \div Size = 0 /\ q % Size = q
    BY <2>1, Sizes, DivUnique
  <2>3. 0 % CycleRange = 0
    <3>1. 0 \in 0 .. CycleRange - 1
      BY Sizes
    <3> QED BY <3>1, Sizes, ModIdem
  <2> QED BY <2>2, <2>3 DEF Map, Cycle
<1>3. /\ head = Size /\ tail = Size /\ entries = [j \in Values |-> 0] /\ outside = Values
      /\ th = [p \in Threads |-> Idle] /\ seen = [p \in Threads |-> 0]
  BY DEF Init
<1>4. TypeOK
  <2>1. th \in [Threads -> ThreadSet] /\ seen \in [Threads -> 0 .. Patience]
    BY <1>3, IdleType, StallAssumption
  <2>2. 0 \in 0 .. CycleRange * Size - 1
    BY Sizes
  <2> QED BY <1>1, <1>3, <2>1, <2>2 DEF TypeOK, ThreadSet
<1>5. Placed(Size, Size, Size)
  <2>1. ASSUME NEW q \in Size - Size .. Size - 1 PROVE Cycle(entries[Map(q)]) = Cycle(q)
    <3>1. q \in 0 .. Size - 1 /\ 0 \in 0 .. Size - 1
      BY Sizes
    <3>2. Map(q) = q /\ Cycle(q) = 0 /\ Cycle(0) = 0
      BY <1>2, <3>1
    <3> QED BY <1>3, <3>1, <3>2 DEF Values
  <2> QED BY <1>1, <1>3, <2>1, Sizes DEF Placed
<1>6. \A p \in Threads : th[p].pc = "idle"
  BY <1>3, IdleType
<1>7. Owned(Size, Size)
  <2>1. \A q \in Size .. Size - 1 : FALSE
    BY Sizes
  <2> QED BY <1>3, <1>6, <2>1 DEF Owned, InHand
<1>8. ASSUME NEW G \in [Threads -> Int] PROVE Ring(Size, Size, Size, G)
  <2>1. Owed(Size, Size, G)
    BY Sizes DEF Owed
  <2>2. ASSUME NEW p \in Threads
        PROVE  /\ Holds(th[p], entries[Map(Size)], entries[Map(Size)], Size, Size, Size, G[p])
               /\ Waited(th[p], seen[p], Size, Size, Size, G[p])
    BY <1>6 DEF Holds, Waited, AtTail, AtHead
  <2> QED BY <1>5, <1>7, <2>1, <2>2 DEF Ring
<1> QED BY <1>4, <1>8

LEMMA RingStep ==
  ASSUME Unlapped, TypeOK, NEW H \in Int, NEW P \in Int, NEW T \in Int,
         NEW G \in [Threads -> Int], Ring(H, P, T, G), Next
  PROVE  RingInv'
<1>1. PICK p \in Threads :
         \/ \E v \in Values : Enqueue(p, v)
         \/ EnqLoadTail(p) \/ EnqLoadEntry(p) \/ EnqHelpTail(p)
         \/ EnqCasEntry(p) \/ EnqIncTail(p)
         \/ Dequeue(p)
         \/ DeqLoadHead(p) \/ DeqLoadEntry(p) \/ DeqCasHead(p)
  BY DEF Next
<1>2. ASSUME NEW v \in Values, Enqueue(p, v)
      PROVE  TypeOK' /\ \E F \in [Threads -> Int] : Ring(H, P, T, F)'
  BY <1>2, EnqueueRing
<1>3. ASSUME EnqLoadTail(p)
      PROVE  TypeOK' /\ \E F \in [Threads -> Int] : Ring(H, P, T, F)'
  BY <1>3, EnqLoadTailRing
<1>4. ASSUME EnqLoadEntry(p)
      PROVE  TypeOK' /\ \E F \in [Threads -> Int] : Ring(H, P, T, F)'
  BY <1>4, EnqLoadEntryRing
<1>5. ASSUME EnqHelpTail(p) PROVE TypeOK' /\ \E S \in Int : Ring(H, P, S, G)'
  BY <1>5, EnqHelpTailRing
<1>6. ASSUME EnqCasEntry(p)
      PROVE  /\ TypeOK'
             /\ (\E F \in [Threads -> Int] : Ring(H, P, T, F)') \/ Ring(H, P + 1, T, G)'
  BY <1>6, EnqCasEntryRing
<1>7. ASSUME EnqIncTail(p) PROVE TypeOK' /\ \E S \in Int : Ring(H, P, S, G)'
  BY <1>7, EnqIncTailRing
<1>8. ASSUME Dequeue(p)
      PROVE  TypeOK' /\ \E F \in [Threads -> Int] : Ring(H, P, T, F)'
  BY <1>8, DequeueRing
<1>9. ASSUME DeqLoadHead(p)
      PROVE  TypeOK' /\ \E F \in [Threads -> Int] : Ring(H, P, T, F)'
  BY <1>9, DeqLoadHeadRing
<1>10. ASSUME DeqLoadEntry(p)
       PROVE  TypeOK' /\ \E F \in [Threads -> Int] : Ring(H, P, T, F)'
  BY <1>10, DeqLoadEntryRing
<1>11. ASSUME DeqCasHead(p)
       PROVE  /\ TypeOK'
              /\ (\E F \in [Threads -> Int] : Ring(H, P, T, F)') \/ Ring(H + 1, P, T, G)'
  BY <1>11, DeqCasHeadRing
<1>12. TypeOK'
  BY <1>1, <1>2, <1>3, <1>4, <1>5, <1>6, <1>7, <1>8, <1>9, <1>10, <1>11
<1>13. \/ \E F \in [Threads -> Int] : Ring(H, P, T, F)'
       \/ \E S \in Int : Ring(H, P, S, G)'
       \/ Ring(H, P + 1, T, G)' \/ Ring(H + 1, P, T, G)'
  BY <1>1, <1>2, <1>3, <1>4, <1>5, <1>6, <1>7, <1>8, <1>9, <1>10, <1>11
<1>14. \E h, k, t \in Int, F \in [Threads -> Int] : Ring(h, k, t, F)'
  <2>1. H + 1 \in Int /\ P + 1 \in Int
    OBVIOUS
  <2> QED BY <1>13, <2>1, Zenon
<1> QED BY <1>12, <1>14 DEF RingInv

LEMMA RingSafe ==
  ASSUME Unlapped
  PROVE  Spec => []RingInv
<1>1. Init => RingInv
  <2>1. [p \in Threads |-> 0] \in [Threads -> Int] /\ Size \in Int
    BY Sizes
  <2> QED BY <2>1, RingInit, Zenon DEF RingInv
<1>2. RingInv /\ [Next]_vars => RingInv'
  <2> SUFFICES ASSUME RingInv, [Next]_vars PROVE RingInv'
    OBVIOUS
  <2>1. PICK H, P, T \in Int, G \in [Threads -> Int] : TypeOK /\ Ring(H, P, T, G)
    BY DEF RingInv
  <2>2. CASE Next
    BY <2>1, <2>2, RingStep
  <2>3. CASE UNCHANGED vars
    <3>1. /\ head' = head /\ tail' = tail /\ entries' = entries /\ outside' = outside
          /\ th' = th /\ seen' = seen
      BY <2>3 DEF vars
    <3>2. TypeOK'
      BY <2>1, <3>1 DEF TypeOK
    <3>3. (Placed(H, P, T) /\ Owned(H, P) /\ Owed(P, T, G))'
      BY <2>1, <3>1 DEF Ring, Placed, Owned, Owed, Val
    <3>4. Ring(H, P, T, G)'
      BY <2>1, <3>1, <3>3 DEF Ring
    <3> QED BY <3>2, <3>4 DEF RingInv
  <2> QED BY <2>2, <2>3
<1> QED BY <1>1, <1>2, PTL DEF Spec

-----------------------------------------------------------------------------
(* What the invariant says of the queue that its users see.                *)

LEMMA SizeBelow ==
  ASSUME Unlapped
  PROVE  Size \in 1 .. IndexRange - 1
BY Laps, Sizes

LEMMA PublishedTailIs ==
  ASSUME Unlapped, TypeOK, NEW H \in Int, NEW P \in Int, NEW T \in Int, Placed(H, P, T)
  PROVE  PublishedTail = (T % IndexRange) + (P - T)
<1>1. tail = T % IndexRange /\ T <= P /\ P <= T + 1
  BY DEF Placed
<1>2. Map(tail) = Map(T) /\ Cycle(tail) = Cycle(T) /\ T % IndexRange \in Int
  <2>1. T % IndexRange \in 0 .. IndexRange - 1
    BY WrapKeeps
  <2> QED BY <1>1, <2>1, WrapKeeps, Sizes
<1>3. /\ T < P => Cycle(entries[Map(T)]) = Cycle(T)
      /\ T = P => Cycle(entries[Map(T)]) # Cycle(T)
  <2>1. T <= T /\ T - T <= MaxStall
    BY StallAssumption
  <2> QED BY <2>1, TailEntry
<1>4. CASE T < P
  <2>1. P - T = 1
    BY <1>1, <1>4
  <2> QED BY <1>1, <1>2, <1>3, <1>4, <2>1 DEF PublishedTail
<1>5. CASE T = P
  <2>1. PublishedTail = tail
    BY <1>2, <1>3, <1>5 DEF PublishedTail
  <2>2. (T % IndexRange) + (P - T) = T % IndexRange
    BY <1>2, <1>5
  <2> QED BY <1>1, <2>1, <2>2
<1> QED BY <1>1, <1>4, <1>5

LEMMA ContentsOf ==
  ASSUME Unlapped, TypeOK, NEW H \in Int, NEW P \in Int, NEW T \in Int, Placed(H, P, T)
  PROVE  Contents = [k \in 1 .. P - H |-> Val(H + (k - 1))]
<1>1. head = H % IndexRange /\ H <= P /\ P - H <= Size
  BY DEF Placed
<1>2. (PublishedTail - head) % IndexRange = P - H
  <2>1. PICK z \in Int : z = P - T
    OBVIOUS
  <2>2. (T + z) - H = P - H /\ (T + z) - H \in 0 .. IndexRange - 1
    BY <1>1, <2>1, SizeBelow, Sizes
  <2>3. /\ (((T % IndexRange) + z) - (H % IndexRange)) % IndexRange
                = ((T + z) - H) % IndexRange
        /\ (T + z) - H \in 0 .. IndexRange - 1 =>
                ((T + z) - H) % IndexRange = (T + z) - H
    <3>1. Distant(T, H, z, IndexRange)
      BY Distances
    <3> QED BY <3>1, Zenon DEF Distant
  <2>4. PublishedTail = (T % IndexRange) + z
    BY <2>1, PublishedTailIs
  <2> QED BY <1>1, <2>2, <2>3, <2>4
<1>3. ASSUME NEW k \in 1 .. P - H PROVE Map(head + k - 1) = Map(H + (k - 1))
  <2>1. PICK z \in Int : z = k - 1
    OBVIOUS
  <2>2. head % Size = H % Size /\ head \in Int
    <3>1. H % IndexRange \in 0 .. IndexRange - 1 /\ Map(H % IndexRange) = Map(H)
      BY WrapKeeps
    <3> QED BY <1>1, <3>1, Sizes DEF Map
  <2>3. (head + z) % Size = (H + z) % Size
    <3>1. Size \in Nat \ {0}
      BY Sizes
    <3>2. \A x, y, w \in Int : x % Size = y % Size =>
            (x + w) % Size = (y + w) % Size /\ (w - x) % Size = (w - y) % Size
      BY <3>1, ModShift, Zenon
    <3> QED BY <2>2, <3>2, Zenon
  <2> QED BY <2>1, <2>3 DEF Map
<1> QED BY <1>2, <1>3 DEF Contents, Val

\* The values from position h to position k, and when the queue is those from H
\* to P.
Queue(h, k) == [j \in 1 .. k - h |-> Val(h + (j - 1))]
ContentsMapped ==
  \A H, P, T \in Int : \A G \in [Threads -> Int] :
    Ring(H, P, T, G) => Contents = Queue(H, P)

LEMMA ContentsAre == Unlapped /\ TypeOK => ContentsMapped
BY ContentsOf DEF Ring, Queue, ContentsMapped

LEMMA OneOrNone ==
  /\ Cardinality({}) = 0
  /\ \A x : Cardinality({x}) = 1
BY FS_EmptySet, FS_Singleton

LEMMA RingConserves ==
  ASSUME Unlapped, TypeOK, NEW H \in Int, NEW P \in Int, NEW T \in Int,
         NEW G \in [Threads -> Int], Ring(H, P, T, G)
  PROVE  Conservation
<1>1. Contents = [k \in 1 .. P - H |-> Val(H + (k - 1))]
  BY ContentsAre DEF ContentsMapped, Queue
<1>2. Owned(H, P)
  BY DEF Ring
<1> SUFFICES ASSUME NEW v \in Values
             PROVE  LET places == {k \in DOMAIN Contents : Contents[k] = v}
                        hands == {p \in Threads : /\ th[p].pc \in EnqPcs \ {"enqInc"}
                                                  /\ th[p].val = v}
                    IN Cardinality(places) + Cardinality(hands)
                         + (IF v \in outside THEN 1 ELSE 0) = 1
  BY DEF Conservation
<1> DEFINE places == {k \in DOMAIN Contents : Contents[k] = v}
           hands == {p \in Threads : th[p].pc \in EnqPcs \ {"enqInc"} /\ th[p].val = v}
<1>3. places = {k \in 1 .. P - H : Val(H + (k - 1)) = v}
  BY <1>1
<1>4. hands = {p \in Threads : th[p].pc \in InHand /\ th[p].val = v}
  BY DEF EnqPcs, InHand
<1>5. \A k \in 1 .. P - H : H + (k - 1) \in H .. P - 1
  OBVIOUS
<1>6. Cardinality({}) = 0 /\ \A x : Cardinality({x}) = 1
  BY OneOrNone
<1> SUFFICES Cardinality(places) + Cardinality(hands) + (IF v \in outside THEN 1 ELSE 0) = 1
  OBVIOUS
<1> HIDE DEF places, hands
<1>7. CASE v \in outside
  <2>1. places = {} /\ hands = {}
    BY <1>2, <1>3, <1>4, <1>5, <1>7 DEF Owned
  <2> QED BY <1>6, <1>7, <2>1
<1>8. CASE \E p \in Threads : th[p].pc \in InHand /\ th[p].val = v
  <2>1. PICK p \in Threads : th[p].pc \in InHand /\ th[p].val = v
    BY <1>8
  <2>2. v \notin outside /\ places = {}
    BY <1>2, <1>3, <1>5, <2>1 DEF Owned
  <2>3. hands = {p}
    BY <1>2, <1>4, <2>1 DEF Owned
  <2> QED BY <1>6, <2>2, <2>3
<1>9. CASE \E q \in H .. P - 1 : Val(q) = v
  <2>1. PICK q \in H .. P - 1 : Val(q) = v
    BY <1>9
  <2>2. v \notin outside /\ hands = {}
    BY <1>2, <1>4, <2>1 DEF Owned
  <2>3. PICK j \in 1 .. P - H : H + (j - 1) = q
    <3>1. q - H + 1 \in 1 .. P - H /\ H + ((q - H + 1) - 1) = q
      OBVIOUS
    <3> QED BY <3>1
  <2>4. \A k \in 1 .. P - H : H + (k - 1) = q => k = j
    BY <2>3
  <2>5. places = {j}
    <3>1. \A k \in 1 .. P - H : Val(H + (k - 1)) = v => k = j
      BY <1>2, <1>5, <2>1, <2>4 DEF Owned
    <3>2. Val(H + (j - 1)) = v
      BY <2>1, <2>3
    <3> QED BY <1>3, <3>1, <3>2
  <2>6. Cardinality(places) = 1 /\ Cardinality(hands) = 0
    BY <1>6, <2>2, <2>5, Zenon
  <2> QED BY <2>2, <2>6
<1> QED BY <1>2, <1>7, <1>8, <1>9 DEF Owned

LEMMA RingNear ==
  ASSUME Unlapped, TypeOK, NEW H \in Int, NEW P \in Int, NEW T \in Int,
         NEW G \in [Threads -> Int], Ring(H, P, T, G)
  PROVE  HeadNearTail
<1>1. /\ head = H % IndexRange /\ tail = T % IndexRange
      /\ H <= P /\ P - H <= Size /\ T <= P /\ P <= T + 1
  BY DEF Ring, Placed
<1>2. (tail - head) % IndexRange = (T - H) % IndexRange /\ tail \in Int
  <2>1. Distant(T, H, 0, IndexRange)
    BY Distances
  <2>2. (((T % IndexRange) + 0) - (H % IndexRange)) % IndexRange = ((T + 0) - H) % IndexRange
    BY <2>1, Zenon DEF Distant
  <2>3. T % IndexRange \in Int
    BY Sizes, DivMod
  <2> QED BY <1>1, <2>2, <2>3
<1>3. CASE H <= T
  <2>1. T - H \in 0 .. IndexRange - 1 /\ T - H <= Size
    BY <1>1, <1>3, SizeBelow, Sizes
  <2>2. (T - H) % IndexRange = T - H
    <3>1. PICK d \in Int : d = T - H
      OBVIOUS
    <3>2. d % IndexRange = d
      BY <2>1, <3>1, Sizes, ModIdem
    <3> QED BY <3>1, <3>2
  <2> QED BY <1>2, <2>1, <2>2 DEF HeadNearTail
<1>4. CASE T < H
  <2>1. T - H = -1 /\ P = T + 1
    BY <1>1, <1>4
  <2>2. (T - H) % IndexRange = IndexRange - 1
    <3>1. PICK n \in Nat \ {0} : n = IndexRange
      BY Sizes
    <3>2. -1 = n * (-1) + (n - 1) /\ n - 1 \in 0 .. n - 1 /\ -1 \in Int
      OBVIOUS
    <3>3. -1 % n = n - 1
      BY <3>2, DivUnique
    <3> QED BY <2>1, <3>1, <3>3
  <2>3. PICK p \in Threads : th[p].pc = "enqInc" /\ G[p] = T
    BY <2>1 DEF Ring, Owed
  <2>4. th[p].pos = tail
    BY <1>1, <2>3 DEF Ring, Holds, AtTail
  <2> QED BY <1>2, <2>2, <2>3, <2>4 DEF HeadNearTail
<1> QED BY <1>3, <1>4

\* No slot index is lost or doubled by nxt_nncq_enqueue_pos() and
\* nxt_nncq_dequeue(), however many threads run them, and the head passes the
\* tail by one at most: for every size of the queue and every width of the
\* cycle, as long as no thread sleeps through nearly all cycles of an entry.
THEOREM QueueConserved == Unlapped /\ Spec => []QueueSound
<1> SUFFICES ASSUME Unlapped PROVE Spec => []QueueSound
  OBVIOUS
<1>1. Spec => []RingInv
  BY RingSafe
<1>2. RingInv => QueueSound
  <2> SUFFICES ASSUME RingInv PROVE QueueSound
    OBVIOUS
  <2>1. PICK H, P, T \in Int, G \in [Threads -> Int] : TypeOK /\ Ring(H, P, T, G)
    BY DEF RingInv
  <2> QED BY <2>1, RingConserves, RingNear DEF QueueSound
<1> QED BY <1>1, <1>2, PTL

-----------------------------------------------------------------------------
(* Linearizability: the calls of the abstract queue, as the threads make    *)
(* them.                                                                   *)

LEMMA SeqOf ==
  ASSUME NEW n \in Nat, NEW S, NEW s \in [1 .. n -> S]
  PROVE  s \in Seq(S) /\ Len(s) = n
OBVIOUS

LEMMA AppendIs ==
  ASSUME NEW n \in Nat, NEW S, NEW s \in [1 .. n -> S], NEW t \in [1 .. n + 1 -> S],
         \A k \in 1 .. n : t[k] = s[k]
  PROVE  t = Append(s, t[n + 1])
<1>1. s \in Seq(S) /\ Len(s) = n
  BY SeqOf
<1>2. t \in Seq(S) /\ Len(t) = n + 1
  <2>1. n + 1 \in Nat
    OBVIOUS
  <2> QED BY <2>1, SeqOf
<1>3. n + 1 \in 1 .. n + 1
  OBVIOUS
<1>4. PICK e \in S : e = t[n + 1]
  BY <1>3
<1>5. /\ Append(s, e) \in Seq(S) /\ Len(Append(s, e)) = n + 1
      /\ \A k \in 1 .. n : Append(s, e)[k] = s[k]
      /\ Append(s, e)[n + 1] = e
  BY <1>1, AppendProperties
<1>6. PICK a \in Seq(S) : a = Append(s, e)
  BY <1>5
<1>7. \A k \in 1 .. n + 1 : k = n + 1 \/ k \in 1 .. n
  OBVIOUS
<1>8. \A k \in 1 .. n + 1 : t[k] = a[k]
  BY <1>4, <1>5, <1>6, <1>7
<1>9. t = a
  BY <1>2, <1>5, <1>6, <1>8, SeqEqual
<1> QED BY <1>4, <1>6, <1>9

LEMMA TailIs ==
  ASSUME NEW n \in Nat, n >= 1, NEW S, NEW s \in [1 .. n -> S], NEW t \in [1 .. n - 1 -> S],
         \A k \in 1 .. n - 1 : t[k] = s[k + 1]
  PROVE  s # <<>> /\ t = Tail(s) /\ Head(s) = s[1]
<1>1. s \in Seq(S) /\ Len(s) = n
  BY SeqOf
<1>2. t \in Seq(S) /\ Len(t) = n - 1
  <2>1. PICK m \in Nat : m = n - 1
    OBVIOUS
  <2>2. t \in [1 .. m -> S]
    BY <2>1
  <2> QED BY <2>1, <2>2, SeqOf
<1>3. s # <<>>
  BY <1>1, EmptySeq
<1>4. /\ Tail(s) \in Seq(S) /\ Len(Tail(s)) = n - 1
      /\ \A k \in 1 .. n - 1 : Tail(s)[k] = s[k + 1]
  BY <1>1, <1>3, HeadTailProperties
<1>5. PICK a \in Seq(S) : a = Tail(s)
  BY <1>4
<1>6. t = a
  BY <1>2, <1>4, <1>5, SeqEqual
<1> QED BY <1>1, <1>3, <1>5, <1>6

LEMMA ValType ==
  ASSUME TypeOK, NEW q \in Int
  PROVE  Val(q) \in Values
BY EntryType, MapType DEF Val

QueuesTyped == \A h, k \in Int : Queue(h, k) \in [1 .. k - h -> Values]

LEMMA QueueType == TypeOK => QueuesTyped
<1> SUFFICES ASSUME TypeOK, NEW h \in Int, NEW k \in Int
             PROVE  Queue(h, k) \in [1 .. k - h -> Values]
  BY DEF QueuesTyped
<1>1. \A j \in 1 .. k - h : Val(h + (j - 1)) \in Values
  <2>1. \A q \in Int : Val(q) \in Values
    BY ValType
  <2>2. \A j \in 1 .. k - h : h + (j - 1) \in Int
    OBVIOUS
  <2> QED BY <2>1, <2>2
<1> QED BY <1>1 DEF Queue

\* The call that a thread is in.
OpFor(x) == IF x.pc \in InHand THEN [kind |-> "put", val |-> x.val]
            ELSE IF x.pc \in DeqPcs THEN [kind |-> "take", val |-> 0]
            ELSE [kind |-> "none", val |-> 0]

Ops == [p \in Threads |->
          CASE ~Pending(p) -> [kind |-> "none", val |-> 0]
            [] Pending(p) /\ th[p].pc \in EnqPcs ->
                 [kind |-> "put", val |-> th[p].val]
            [] th[p].pc \in DeqPcs -> [kind |-> "take", val |-> 0]]

OpsMapped == Ops = [r \in Threads |-> OpFor(th[r])]

LEMMA OpsAre == TypeOK => OpsMapped
<1> SUFFICES ASSUME TypeOK, NEW p \in Threads
             PROVE  (CASE ~Pending(p) -> [kind |-> "none", val |-> 0]
                       [] Pending(p) /\ th[p].pc \in EnqPcs ->
                            [kind |-> "put", val |-> th[p].val]
                       [] th[p].pc \in DeqPcs -> [kind |-> "take", val |-> 0])
                    = OpFor(th[p])
  BY DEF Ops, OpsMapped
<1>1. th[p].pc \in {"idle"} \cup EnqPcs \cup DeqPcs
  BY ThreadType
<1>2. CASE th[p].pc \in {"idle", "enqInc"}
  BY <1>2 DEF Pending, OpFor, InHand, DeqPcs
<1>3. CASE th[p].pc \in InHand
  BY <1>3 DEF Pending, OpFor, InHand, EnqPcs, DeqPcs
<1>4. CASE th[p].pc \in DeqPcs
  BY <1>4 DEF Pending, OpFor, InHand, EnqPcs, DeqPcs
<1> QED BY <1>1, <1>2, <1>3, <1>4 DEF EnqPcs, InHand

LEMMA OpsStep ==
  ASSUME TypeOK, TypeOK', NEW p \in Threads, Others(p)
  PROVE  /\ Ops[p] = OpFor(th[p]) /\ Ops' = [Ops EXCEPT ![p] = OpFor(th'[p])]
         /\ OpFor(th'[p]) = OpFor(th[p]) => Ops' = Ops
<1>1. Ops = [r \in Threads |-> OpFor(th[r])]
  BY OpsAre DEF OpsMapped
<1>2. (TypeOK => OpsMapped)'
  BY OpsAre, PTL
<1>3. Ops' = [r \in Threads |-> OpFor(th'[r])]
  BY <1>2 DEF OpsMapped
<1>4. \A r \in Threads : r # p => OpFor(th'[r]) = OpFor(th[r])
  BY DEF Others
<1> QED BY <1>1, <1>3, <1>4

LEMMA PendingOps ==
  ASSUME TypeOK, NEW r \in Threads
  PROVE  Pending(r) <=> Ops[r] # [kind |-> "none", val |-> 0]
<1>1. Ops[r] = OpFor(th[r]) /\ th[r].pc \in {"idle"} \cup EnqPcs \cup DeqPcs
  BY OpsAre, ThreadType DEF OpsMapped
<1>2. CASE th[r].pc \in {"idle", "enqInc"}
  BY <1>1, <1>2 DEF Pending, OpFor, InHand, DeqPcs
<1>3. CASE th[r].pc \in InHand
  <2>1. Ops[r].kind = "put"
    BY <1>1, <1>3 DEF OpFor
  <2>2. Ops[r] # [kind |-> "none", val |-> 0]
    BY <2>1
  <2> QED BY <1>3, <2>2 DEF Pending, InHand
<1>4. CASE th[r].pc \in DeqPcs
  <2>1. Ops[r].kind = "take"
    BY <1>1, <1>4 DEF OpFor, DeqPcs, InHand
  <2>2. Ops[r] # [kind |-> "none", val |-> 0]
    BY <2>1
  <2> QED BY <1>4, <2>2 DEF Pending, DeqPcs
<1> QED BY <1>1, <1>2, <1>3, <1>4 DEF EnqPcs, InHand

-----------------------------------------------------------------------------
(* The steps of the abstract queue, in terms of Contents and Ops.           *)

NoCall == [kind |-> "none", val |-> 0]
TakeCall == [kind |-> "take", val |-> 0]

Effect(p) ==
  seen' = [r \in Threads |->
             IF r = p THEN 0
             ELSE IF Ops[r] # NoCall /\ seen[r] < Patience
                  THEN seen[r] + 1 ELSE seen[r]]

LEMMA AsCallPut ==
  ASSUME NEW p \in Threads, NEW v \in Values, \A k \in DOMAIN Contents : Contents[k] # v,
         \A r \in Threads : Ops[r] # [kind |-> "put", val |-> v], Ops[p] = NoCall,
         Ops' = [Ops EXCEPT ![p] = [kind |-> "put", val |-> v]],
         ret' = [ret EXCEPT ![p] = NoRet], Contents' = Contents, seen' = seen
  PROVE  Calls!CallPut(p, v)
<1>1. v \notin {Contents[k] : k \in DOMAIN Contents}
  BY Zenon
<1> QED BY <1>1, Zenon DEF Calls!CallPut, Calls!Call, Calls!PutOf, Calls!NoOp, Calls!NoRet,
           Calls!ToSet, Ops, NoCall, NoRet

LEMMA AsCallTake ==
  ASSUME NEW p \in Threads, Ops[p] = NoCall, Ops' = [Ops EXCEPT ![p] = TakeCall],
         ret' = [ret EXCEPT ![p] = NoRet], Contents' = Contents, seen' = seen
  PROVE  Calls!CallTake(p)
BY Zenon DEF Calls!CallTake, Calls!Call, Calls!TakeOp, Calls!NoOp, Calls!NoRet,
   Ops, NoCall, TakeCall, NoRet

LEMMA AsPut ==
  ASSUME NEW p \in Threads, Ops[p].kind = "put", Contents' = Append(Contents, Ops[p].val),
         Ops' = [Ops EXCEPT ![p] = NoCall], ret' = [ret EXCEPT ![p] = Ok], Effect(p)
  PROVE  Calls!Put(p)
BY Zenon DEF Calls!Put, Calls!End, Calls!TakesEffect, Calls!Ok, Calls!NoOp,
   Ops, NoCall, Ok, Effect

LEMMA AsTake ==
  ASSUME NEW p \in Threads, Ops[p] = TakeCall, Contents # <<>>, Contents' = Tail(Contents),
         Ops' = [Ops EXCEPT ![p] = NoCall], ret' = [ret EXCEPT ![p] = Got(Head(Contents))],
         Effect(p)
  PROVE  Calls!Take(p)
BY Zenon DEF Calls!Take, Calls!End, Calls!TakesEffect, Calls!Got, Calls!NoOp, Calls!TakeOp,
   Ops, NoCall, TakeCall, Got, Effect

LEMMA AsEmpty ==
  ASSUME NEW p \in Threads, Ops[p] = TakeCall, Contents = <<>>, Contents' = Contents,
         Ops' = [Ops EXCEPT ![p] = NoCall], ret' = [ret EXCEPT ![p] = EmptyRet],
         seen' = [seen EXCEPT ![p] = 0]
  PROVE  Calls!Empty(p)
BY Zenon DEF Calls!Empty, Calls!End, Calls!EmptyRet, Calls!NoOp, Calls!TakeOp,
   Ops, NoCall, TakeCall, EmptyRet

LEMMA AsGiveUp ==
  ASSUME NEW p \in Threads, Ops[p] # NoCall, seen[p] >= Patience, Contents' = Contents,
         Ops' = [Ops EXCEPT ![p] = NoCall],
         ret' = [ret EXCEPT ![p] = IF Ops[p] = TakeCall THEN EmptyRet ELSE Error],
         seen' = [seen EXCEPT ![p] = 0]
  PROVE  Calls!GiveUp(p)
BY Zenon DEF Calls!GiveUp, Calls!End, Calls!EmptyRet, Calls!Error, Calls!NoOp, Calls!TakeOp,
   Ops, NoCall, TakeCall, EmptyRet, Error

\* A step of Fifo, or none.
Simulated ==
  \/ \E p \in Threads : \/ \E v \in Values : Calls!CallPut(p, v)
                        \/ Calls!CallTake(p) \/ Calls!Put(p) \/ Calls!Take(p)
                        \/ Calls!Empty(p) \/ Calls!GiveUp(p)
  \/ Contents' = Contents /\ Ops' = Ops /\ ret' = ret /\ seen' = seen

LEMMA SimulatedStep ==
  ASSUME Simulated
  PROVE  [Calls!FNext]_(Calls!fvars)
<1>1. ASSUME Contents' = Contents, Ops' = Ops, ret' = ret, seen' = seen
      PROVE  UNCHANGED Calls!fvars
  BY <1>1, Zenon DEF Calls!fvars, Ops
<1> QED BY <1>1, Zenon DEF Simulated, Calls!FNext

-----------------------------------------------------------------------------
(* The simulation.                                                         *)

LEMMA ContentsBoth ==
  ASSUME Unlapped, TypeOK, TypeOK', NEW H \in Int, NEW P \in Int, NEW T \in Int,
         NEW G \in [Threads -> Int], Ring(H, P, T, G),
         NEW h \in Int, NEW k \in Int, NEW t \in Int, NEW F \in [Threads -> Int],
         Ring(h, k, t, F)'
  PROVE  /\ Contents = Queue(H, P) /\ Contents' = Queue(h, k)'
         /\ Queue(H, P) \in [1 .. P - H -> Values] /\ Queue(h, k)' \in [1 .. k - h -> Values]
<1>1. Contents = Queue(H, P)
  BY ContentsAre DEF ContentsMapped
<1>2. (Unlapped /\ TypeOK => ContentsMapped)'
  BY ContentsAre, PTL
<1>3. ContentsMapped'
  BY <1>2 DEF Unlapped
<1>4. Contents' = Queue(h, k)'
  BY <1>3 DEF ContentsMapped
<1>5. Queue(H, P) \in [1 .. P - H -> Values]
  BY QueueType DEF QueuesTyped
<1>6. \A x, y \in Int : Queue(x, y)' \in [1 .. y - x -> Values]
  <2>1. (TypeOK => QueuesTyped)'
    BY QueueType, PTL
  <2> QED BY <2>1 DEF QueuesTyped
<1> QED BY <1>1, <1>4, <1>5, <1>6

LEMMA ContentsSame ==
  ASSUME Unlapped, TypeOK, TypeOK', NEW H \in Int, NEW P \in Int, NEW T \in Int,
         NEW G \in [Threads -> Int], Ring(H, P, T, G),
         NEW t \in Int, NEW F \in [Threads -> Int], Ring(H, P, t, F)', entries' = entries
  PROVE  Contents' = Contents
<1>1. Queue(H, P)' = Queue(H, P)
  BY DEF Queue, Val
<1> QED BY <1>1, ContentsBoth

LEMMA EffectOf ==
  ASSUME TypeOK, NEW p \in Threads, TakesEffect(p)
  PROVE  Effect(p)
BY PendingOps DEF TakesEffect, Effect, NoCall

LEMMA SimEnqueue ==
  ASSUME TypeOK, TypeOK', NEW H \in Int, NEW P \in Int, Owned(H, P),
         Contents = Queue(H, P), Contents' = Contents,
         NEW p \in Threads, NEW v \in Values, Enqueue(p, v),
         th[p].pc = "idle", th'[p].pc = "enqTail", th'[p].val = v, Others(p)
  PROVE  Simulated
<1>1. v \in outside /\ ret' = [ret EXCEPT ![p] = NoRet] /\ seen' = seen
  BY DEF Enqueue, Start
<1>2. \A k \in DOMAIN Contents : Contents[k] # v
  <2>1. \A k \in 1 .. P - H : H + (k - 1) \in H .. P - 1
    OBVIOUS
  <2>2. \A q \in H .. P - 1 : Val(q) # v
    BY <1>1 DEF Owned
  <2> QED BY <2>1, <2>2 DEF Queue
<1>3. ASSUME NEW r \in Threads, Ops[r] = [kind |-> "put", val |-> v] PROVE FALSE
  <2>1. OpFor(th[r]) = [kind |-> "put", val |-> v]
    BY <1>3, OpsAre DEF OpsMapped
  <2>2. th[r].pc \in InHand /\ th[r].val = v
    BY <2>1 DEF OpFor
  <2> QED BY <1>1, <2>2 DEF Owned
<1>4. /\ Ops[p] = OpFor(th[p]) /\ Ops' = [Ops EXCEPT ![p] = OpFor(th'[p])]
  BY OpsStep
<1>5. OpFor(th[p]) = NoCall /\ OpFor(th'[p]) = [kind |-> "put", val |-> v]
  BY DEF OpFor, NoCall, InHand, DeqPcs
<1>6. Calls!CallPut(p, v)
  BY <1>1, <1>2, <1>3, <1>4, <1>5, AsCallPut
<1> QED BY <1>6 DEF Simulated

LEMMA SimDequeue ==
  ASSUME TypeOK, TypeOK', Contents' = Contents, NEW p \in Threads, Dequeue(p),
         th[p].pc = "idle", th'[p].pc = "deqHead", Others(p)
  PROVE  Simulated
<1>1. ret' = [ret EXCEPT ![p] = NoRet] /\ seen' = seen
  BY DEF Dequeue, Start
<1>2. /\ Ops[p] = OpFor(th[p]) /\ Ops' = [Ops EXCEPT ![p] = OpFor(th'[p])]
  BY OpsStep
<1>3. OpFor(th[p]) = NoCall /\ OpFor(th'[p]) = TakeCall
  BY DEF OpFor, NoCall, TakeCall, InHand, DeqPcs
<1>4. Calls!CallTake(p)
  BY <1>1, <1>2, <1>3, AsCallTake
<1> QED BY <1>4 DEF Simulated

LEMMA SimInside ==
  ASSUME TypeOK, TypeOK', Contents' = Contents, NEW p \in Threads, Inside(p)
  PROVE  Simulated
<1>1. OpFor(th'[p]) = OpFor(th[p])
  BY DEF Inside, OpFor, InHand, DeqPcs
<1>2. Ops' = Ops
  BY <1>1, OpsStep DEF Inside
<1> QED BY <1>2 DEF Inside, Simulated

\* An enqueuer that gives up has seen Patience effects of others.
LEMMA SimEnqFails ==
  ASSUME Persistent, TypeOK, TypeOK', Contents' = Contents, NEW p \in Threads, EnqFails(p)
  PROVE  Simulated
<1>1. th[p].pc \in InHand /\ RetryEnqueue(p)
  BY DEF EnqFails
<1>2. /\ Others(p)
      /\ \/ /\ th'[p].pc = "enqTail" /\ th'[p].val = th[p].val
            /\ seen' = seen /\ ret' = ret
         \/ /\ th'[p].pc = "idle" /\ th[p].tries + 1 = Retries
            /\ ret' = [ret EXCEPT ![p] = Error] /\ seen' = [seen EXCEPT ![p] = 0]
  BY <1>1, RetryEnqueueDoes
<1>3. CASE th'[p].pc = "enqTail"
  <2>1. Inside(p)
    BY <1>1, <1>2, <1>3 DEF Inside, InHand
  <2> QED BY <2>1, SimInside
<1>4. CASE th'[p].pc = "idle"
  <2>1. /\ Ops[p] = OpFor(th[p]) /\ Ops' = [Ops EXCEPT ![p] = OpFor(th'[p])]
    BY <1>2, OpsStep
  <2>2. /\ OpFor(th[p]) = [kind |-> "put", val |-> th[p].val] /\ OpFor(th'[p]) = NoCall
    BY <1>1, <1>4 DEF OpFor, NoCall, InHand, DeqPcs
  <2>3. Ops[p].kind = "put"
    BY <2>1, <2>2
  <2>4. Ops[p] # NoCall /\ Ops[p] # TakeCall
    BY <2>3 DEF NoCall, TakeCall
  <2>5. PICK n, r \in Int : n = seen[p] /\ r = th[p].tries
    BY ThreadType, RetriesAssumption, StallAssumption
  <2>6. n >= Patience
    <3>1. n = Patience \/ 2 * n >= r
      BY <2>5 DEF EnqFails
    <3>2. r + 1 = Retries /\ 2 * Patience <= Retries
      BY <1>2, <1>4, <2>5 DEF Persistent
    <3> QED BY <3>1, <3>2, RetriesAssumption, StallAssumption
  <2>7. /\ ret' = [ret EXCEPT ![p] = IF Ops[p] = TakeCall THEN EmptyRet ELSE Error]
        /\ seen' = [seen EXCEPT ![p] = 0] /\ seen[p] >= Patience
        /\ Ops' = [Ops EXCEPT ![p] = NoCall]
    BY <1>2, <1>4, <2>1, <2>2, <2>4, <2>5, <2>6
  <2>8. Calls!GiveUp(p)
    BY <2>4, <2>7, AsGiveUp
  <2> QED BY <2>8 DEF Simulated
<1> QED BY <1>2, <1>3, <1>4

LEMMA SimDeqFails ==
  ASSUME Persistent, TypeOK, TypeOK', Contents' = Contents, NEW p \in Threads, DeqFails(p)
  PROVE  Simulated
<1>1. th[p].pc \in AtHead /\ RetryDequeue(p)
  BY DEF DeqFails
<1>2. /\ Others(p)
      /\ \/ /\ th'[p].pc = "deqHead" /\ seen' = seen /\ ret' = ret
         \/ /\ th'[p].pc = "idle" /\ th[p].tries + 1 = Retries
            /\ ret' = [ret EXCEPT ![p] = EmptyRet] /\ seen' = [seen EXCEPT ![p] = 0]
  BY <1>1, RetryDequeueDoes
<1>3. CASE th'[p].pc = "deqHead"
  <2>1. Inside(p)
    BY <1>1, <1>2, <1>3 DEF Inside, AtHead, DeqPcs
  <2> QED BY <2>1, SimInside
<1>4. CASE th'[p].pc = "idle"
  <2>1. /\ Ops[p] = OpFor(th[p]) /\ Ops' = [Ops EXCEPT ![p] = OpFor(th'[p])]
    BY <1>2, OpsStep
  <2>2. OpFor(th[p]) = TakeCall /\ OpFor(th'[p]) = NoCall
    BY <1>1, <1>4 DEF OpFor, NoCall, TakeCall, InHand, DeqPcs, AtHead
  <2>3. Ops[p] # NoCall /\ Ops[p] = TakeCall
    <3>1. TakeCall.kind = "take" /\ NoCall.kind = "none"
      BY DEF TakeCall, NoCall
    <3> QED BY <2>1, <2>2, <3>1
  <2>4. PICK n, r \in Int : n = seen[p] /\ r = th[p].tries
    BY ThreadType, RetriesAssumption, StallAssumption
  <2>5. n >= Patience
    <3>1. n = Patience \/ n >= r + 1
      BY <2>4 DEF DeqFails
    <3>2. r + 1 = Retries /\ 2 * Patience <= Retries
      BY <1>2, <1>4, <2>4 DEF Persistent
    <3> QED BY <3>1, <3>2, RetriesAssumption, StallAssumption
  <2>6. /\ ret' = [ret EXCEPT ![p] = IF Ops[p] = TakeCall THEN EmptyRet ELSE Error]
        /\ seen' = [seen EXCEPT ![p] = 0] /\ seen[p] >= Patience
        /\ Ops' = [Ops EXCEPT ![p] = NoCall]
    BY <1>2, <1>4, <2>1, <2>2, <2>3, <2>4, <2>5
  <2>7. Calls!GiveUp(p)
    BY <2>3, <2>6, AsGiveUp
  <2> QED BY <2>7 DEF Simulated
<1> QED BY <1>2, <1>3, <1>4

LEMMA SimPublish ==
  ASSUME TypeOK, TypeOK', NEW H \in Int, NEW P \in Int, H <= P,
         Contents = Queue(H, P), Contents' = Queue(H, P + 1)',
         Queue(H, P) \in [1 .. P - H -> Values],
         Queue(H, P + 1)' \in [1 .. (P + 1) - H -> Values],
         NEW p \in Threads, Val(P)' = th[p].val, \A q \in H .. P - 1 : Val(q)' = Val(q),
         Others(p), TakesEffect(p), ret' = [ret EXCEPT ![p] = Ok],
         th[p].pc = "enqCas", th'[p].pc = "enqInc"
  PROVE  Simulated
<1>1. /\ Ops[p] = OpFor(th[p]) /\ Ops' = [Ops EXCEPT ![p] = OpFor(th'[p])]
  BY OpsStep
<1>2. /\ OpFor(th[p]) = [kind |-> "put", val |-> th[p].val] /\ OpFor(th'[p]) = NoCall
  BY DEF OpFor, NoCall, InHand, DeqPcs
<1>3. Ops[p].kind = "put" /\ Ops[p].val = th[p].val
  BY <1>1, <1>2
<1>4. Contents' = Append(Contents, th[p].val)
  <2>1. PICK n \in Nat : n = P - H
    OBVIOUS
  <2>2. PICK s \in [1 .. n -> Values] : s = Contents
    BY <2>1
  <2>3. PICK t \in [1 .. n + 1 -> Values] : t = Contents'
    <3>1. 1 .. (P + 1) - H = 1 .. n + 1
      BY <2>1
    <3> QED BY <3>1
  <2>4. \A k \in 1 .. n : t[k] = s[k]
    <3> SUFFICES ASSUME NEW k \in 1 .. n PROVE t[k] = s[k]
      OBVIOUS
    <3>1. k \in 1 .. P - H /\ k \in 1 .. (P + 1) - H /\ H + (k - 1) \in H .. P - 1
      BY <2>1
    <3>2. s[k] = Val(H + (k - 1))
      BY <2>2, <3>1 DEF Queue
    <3>3. t[k] = Val(H + (k - 1))'
      BY <2>3, <3>1 DEF Queue
    <3>4. PICK q \in H .. P - 1 : q = H + (k - 1)
      BY <3>1
    <3>5. Val(q)' = Val(q)
      OBVIOUS
    <3> QED BY <3>2, <3>3, <3>4, <3>5
  <2>5. t[n + 1] = th[p].val
    <3>1. n + 1 \in 1 .. (P + 1) - H /\ H + ((n + 1) - 1) = P
      BY <2>1
    <3>2. t[n + 1] = Val(H + ((n + 1) - 1))'
      BY <2>3, <3>1 DEF Queue
    <3> QED BY <3>1, <3>2
  <2>6. t = Append(s, t[n + 1])
    BY <2>4, AppendIs
  <2> QED BY <2>2, <2>3, <2>5, <2>6
<1>5. Calls!Put(p)
  <2>1. Effect(p)
    BY EffectOf
  <2>2. Contents' = Append(Contents, Ops[p].val) /\ Ops' = [Ops EXCEPT ![p] = NoCall]
    BY <1>1, <1>2, <1>3, <1>4
  <2> QED BY <1>3, <2>1, <2>2, AsPut
<1> QED BY <1>5 DEF Simulated

LEMMA SimTakeOut ==
  ASSUME TypeOK, TypeOK', NEW H \in Int, NEW P \in Int, H < P,
         Contents = Queue(H, P), Contents' = Queue(H + 1, P)', entries' = entries,
         Queue(H, P) \in [1 .. P - H -> Values],
         Queue(H + 1, P)' \in [1 .. P - (H + 1) -> Values],
         NEW p \in Threads,
         Others(p), TakesEffect(p), ret' = [ret EXCEPT ![p] = Got(Val(H))],
         th[p].pc \in DeqPcs, th'[p].pc = "idle"
  PROVE  Simulated
<1>1. /\ Ops[p] = OpFor(th[p]) /\ Ops' = [Ops EXCEPT ![p] = OpFor(th'[p])]
  BY OpsStep
<1>2. OpFor(th[p]) = TakeCall /\ OpFor(th'[p]) = NoCall
  BY DEF OpFor, NoCall, TakeCall, InHand, DeqPcs
<1>3. Contents # <<>> /\ Contents' = Tail(Contents) /\ Head(Contents) = Val(H)
  <2>1. PICK n \in Nat : n = P - H /\ n >= 1
    OBVIOUS
  <2>2. PICK s \in [1 .. n -> Values] : s = Contents
    BY <2>1
  <2>3. PICK t \in [1 .. n - 1 -> Values] : t = Contents'
    <3>1. 1 .. P - (H + 1) = 1 .. n - 1
      BY <2>1
    <3> QED BY <3>1
  <2>4. \A k \in 1 .. n - 1 : t[k] = s[k + 1]
    <3> SUFFICES ASSUME NEW k \in 1 .. n - 1 PROVE t[k] = s[k + 1]
      OBVIOUS
    <3>1. k + 1 \in 1 .. P - H /\ k \in 1 .. P - (H + 1)
      BY <2>1
    <3>2. s[k + 1] = Val(H + ((k + 1) - 1))
      BY <2>2, <3>1 DEF Queue
    <3>3. t[k] = Val((H + 1) + (k - 1))'
      BY <2>3, <3>1 DEF Queue
    <3>4. (H + 1) + (k - 1) = H + ((k + 1) - 1)
      OBVIOUS
    <3>5. \A q : Val(q)' = Val(q)
      BY DEF Val
    <3> QED BY <3>2, <3>3, <3>4, <3>5
  <2>5. s[1] = Val(H)
    <3>1. 1 \in 1 .. P - H /\ H + (1 - 1) = H
      BY <2>1
    <3>2. s[1] = Val(H + (1 - 1))
      BY <2>2, <3>1 DEF Queue
    <3> QED BY <3>1, <3>2
  <2>6. s # <<>> /\ t = Tail(s) /\ Head(s) = s[1]
    BY <2>1, <2>4, TailIs
  <2> QED BY <2>2, <2>3, <2>5, <2>6
<1>4. Calls!Take(p)
  <2>1. Effect(p)
    BY EffectOf
  <2> QED BY <1>1, <1>2, <1>3, <2>1, AsTake
<1> QED BY <1>4 DEF Simulated

LEMMA SimEmpty ==
  ASSUME TypeOK, TypeOK', NEW H \in Int, NEW P \in Int, H = P,
         Contents = Queue(H, P), Contents' = Contents,
         NEW p \in Threads, Others(p), ret' = [ret EXCEPT ![p] = EmptyRet],
         seen' = [seen EXCEPT ![p] = 0], th[p].pc \in DeqPcs, th'[p].pc = "idle"
  PROVE  Simulated
<1>1. /\ Ops[p] = OpFor(th[p]) /\ Ops' = [Ops EXCEPT ![p] = OpFor(th'[p])]
  BY OpsStep
<1>2. OpFor(th[p]) = TakeCall /\ OpFor(th'[p]) = NoCall
  BY DEF OpFor, NoCall, TakeCall, InHand, DeqPcs
<1>3. Contents = <<>>
  <2>1. Queue(H, P) \in [1 .. 0 -> Values]
    <3>1. P - H = 0
      OBVIOUS
    <3> QED BY <3>1, QueueType DEF QueuesTyped
  <2>2. Queue(H, P) \in Seq(Values) /\ Len(Queue(H, P)) = 0
    BY <2>1, SeqOf
  <2> QED BY <2>2, EmptySeq
<1>4. Calls!Empty(p)
  BY <1>1, <1>2, <1>3, AsEmpty
<1> QED BY <1>4 DEF Simulated

LEMMA SimInit ==
  ASSUME Unlapped
  PROVE  Init => Calls!FInit
<1> SUFFICES ASSUME Init PROVE Calls!FInit
  OBVIOUS
<1>1. TypeOK /\ Ring(Size, Size, Size, [p \in Threads |-> 0])
  <2>1. [p \in Threads |-> 0] \in [Threads -> Int]
    OBVIOUS
  <2> QED BY <2>1, RingInit, Zenon
<1>2. Contents = Queue(Size, Size)
  <2>1. [p \in Threads |-> 0] \in [Threads -> Int] /\ Size \in Int
    BY Sizes
  <2>2. ContentsMapped
    BY <1>1, ContentsAre
  <2> QED BY <1>1, <2>1, <2>2, Zenon DEF ContentsMapped
<1>3. Contents = <<>>
  <2>1. Size \in Int /\ Size - Size = 0
    BY Sizes
  <2>2. Queue(Size, Size) \in [1 .. 0 -> Values]
    BY <1>1, <2>1, QueueType DEF QueuesTyped
  <2>3. Queue(Size, Size) \in Seq(Values) /\ Len(Queue(Size, Size)) = 0
    BY <2>2, SeqOf
  <2> QED BY <1>2, <2>3, EmptySeq
<1>4. Ops = [p \in Threads |-> NoCall]
  <2>1. Ops = [p \in Threads |-> OpFor(th[p])]
    BY <1>1, OpsAre DEF OpsMapped
  <2>2. \A p \in Threads : OpFor(th[p]) = NoCall
    <3>1. \A p \in Threads : th[p].pc = "idle"
      BY IdleType DEF Init
    <3> QED BY <3>1 DEF OpFor, NoCall, InHand, DeqPcs
  <2> QED BY <2>1, <2>2
<1>5. ret = [p \in Threads |-> NoRet] /\ seen = [p \in Threads |-> 0]
  BY DEF Init
<1> QED BY <1>3, <1>4, <1>5, Zenon DEF Calls!FInit, Calls!NoOp, Calls!NoRet, Ops, NoCall, NoRet

LEMMA SimStep ==
  ASSUME Unlapped, Persistent, TypeOK, NEW H \in Int, NEW P \in Int, NEW T \in Int,
         NEW G \in [Threads -> Int], Ring(H, P, T, G), Next
  PROVE  Simulated
<1>1. PICK p \in Threads :
         \/ \E v \in Values : Enqueue(p, v)
         \/ EnqLoadTail(p) \/ EnqLoadEntry(p) \/ EnqHelpTail(p)
         \/ EnqCasEntry(p) \/ EnqIncTail(p)
         \/ Dequeue(p)
         \/ DeqLoadHead(p) \/ DeqLoadEntry(p) \/ DeqCasHead(p)
  BY DEF Next
<1>2. Contents = Queue(H, P) /\ Owned(H, P) /\ H <= P
  BY ContentsAre DEF ContentsMapped, Ring, Placed
<1>3. ASSUME NEW v \in Values, Enqueue(p, v) PROVE Simulated
  <2>1. /\ TypeOK' /\ \E F \in [Threads -> Int] : Ring(H, P, T, F)'
        /\ th[p].pc = "idle" /\ th'[p].pc = "enqTail" /\ th'[p].val = v /\ Others(p)
    BY <1>3, EnqueueRing
  <2>2. entries' = entries
    BY <1>3 DEF Enqueue, Start
  <2>3. Contents' = Contents
    BY <2>1, <2>2, ContentsSame
  <2> QED BY <1>2, <1>3, <2>1, <2>3, SimEnqueue
<1>4. ASSUME EnqLoadTail(p) PROVE Simulated
  <2>1. /\ TypeOK' /\ \E F \in [Threads -> Int] : Ring(H, P, T, F)'
        /\ th[p].pc = "enqTail" /\ th'[p].pc = "enqEntry" /\ th'[p].val = th[p].val
        /\ Others(p)
    BY <1>4, EnqLoadTailRing
  <2>2. entries' = entries /\ Inside(p)
    BY <1>4, <2>1 DEF EnqLoadTail, Inside, InHand
  <2>3. Contents' = Contents
    BY <2>1, <2>2, ContentsSame
  <2> QED BY <2>1, <2>2, <2>3, SimInside
<1>5. ASSUME EnqLoadEntry(p) PROVE Simulated
  <2>1. /\ TypeOK' /\ \E F \in [Threads -> Int] : Ring(H, P, T, F)'
        /\ entries' = entries /\ (Inside(p) \/ EnqFails(p))
    BY <1>5, EnqLoadEntryRing
  <2>2. Contents' = Contents
    BY <2>1, ContentsSame
  <2> QED BY <2>1, <2>2, SimInside, SimEnqFails
<1>6. ASSUME EnqHelpTail(p) PROVE Simulated
  <2>1. /\ TypeOK' /\ \E S \in Int : Ring(H, P, S, G)'
        /\ entries' = entries /\ EnqFails(p)
    BY <1>6, EnqHelpTailRing
  <2>2. Contents' = Contents
    BY <2>1, ContentsSame
  <2> QED BY <2>1, <2>2, SimEnqFails
<1>7. ASSUME EnqCasEntry(p) PROVE Simulated
  <2>1. TypeOK'
    BY <1>7, EnqCasEntryRing
  <2>2. CASE /\ \E F \in [Threads -> Int] : Ring(H, P, T, F)'
             /\ entries' = entries /\ EnqFails(p)
    <3>1. Contents' = Contents
      BY <2>1, <2>2, ContentsSame
    <3> QED BY <2>1, <2>2, <3>1, SimEnqFails
  <2>3. CASE /\ Ring(H, P + 1, T, G)' /\ Val(P)' = th[p].val
             /\ \A q \in H .. P - 1 : Val(q)' = Val(q)
             /\ Others(p) /\ TakesEffect(p) /\ ret' = [ret EXCEPT ![p] = Ok]
             /\ th[p].pc = "enqCas" /\ th'[p].pc = "enqInc"
    <3>1. P + 1 \in Int
      OBVIOUS
    <3>2. /\ Contents' = Queue(H, P + 1)' /\ Queue(H, P) \in [1 .. P - H -> Values]
          /\ Queue(H, P + 1)' \in [1 .. (P + 1) - H -> Values]
      BY <2>1, <2>3, <3>1, ContentsBoth
    <3> QED BY <1>2, <2>1, <2>3, <3>2, SimPublish
  <2> QED BY <1>7, <2>2, <2>3, EnqCasEntryRing
<1>8. ASSUME EnqIncTail(p) PROVE Simulated
  <2>1. /\ TypeOK' /\ \E S \in Int : Ring(H, P, S, G)'
        /\ entries' = entries /\ Others(p) /\ seen' = seen /\ ret' = ret
        /\ th[p].pc = "enqInc" /\ th'[p].pc = "idle"
    BY <1>8, EnqIncTailRing
  <2>2. Contents' = Contents
    BY <2>1, ContentsSame
  <2>3. OpFor(th'[p]) = OpFor(th[p])
    BY <2>1 DEF OpFor, InHand, DeqPcs
  <2>4. Ops' = Ops
    BY <2>1, <2>3, OpsStep
  <2> QED BY <2>1, <2>2, <2>4 DEF Simulated
<1>9. ASSUME Dequeue(p) PROVE Simulated
  <2>1. /\ TypeOK' /\ \E F \in [Threads -> Int] : Ring(H, P, T, F)'
        /\ th[p].pc = "idle" /\ th'[p].pc = "deqHead" /\ Others(p)
    BY <1>9, DequeueRing
  <2>2. entries' = entries
    BY <1>9 DEF Dequeue, Start
  <2>3. Contents' = Contents
    BY <2>1, <2>2, ContentsSame
  <2> QED BY <1>9, <2>1, <2>3, SimDequeue
<1>10. ASSUME DeqLoadHead(p) PROVE Simulated
  <2>1. /\ TypeOK' /\ \E F \in [Threads -> Int] : Ring(H, P, T, F)'
        /\ th[p].pc = "deqHead" /\ th'[p].pc = "deqEntry" /\ Others(p)
    BY <1>10, DeqLoadHeadRing
  <2>2. entries' = entries /\ Inside(p)
    BY <1>10, <2>1 DEF DeqLoadHead, Inside, DeqPcs
  <2>3. Contents' = Contents
    BY <2>1, <2>2, ContentsSame
  <2> QED BY <2>1, <2>2, <2>3, SimInside
<1>11. ASSUME DeqLoadEntry(p) PROVE Simulated
  <2>1. /\ TypeOK' /\ \E F \in [Threads -> Int] : Ring(H, P, T, F)'
        /\ entries' = entries
        /\ \/ Inside(p) \/ DeqFails(p)
           \/ /\ H = P /\ th[p].pc \in DeqPcs /\ Others(p) /\ th'[p].pc = "idle"
              /\ ret' = [ret EXCEPT ![p] = EmptyRet] /\ seen' = [seen EXCEPT ![p] = 0]
    BY <1>11, DeqLoadEntryRing
  <2>2. Contents' = Contents
    BY <2>1, ContentsSame
  <2>3. CASE /\ H = P /\ th[p].pc \in DeqPcs /\ Others(p) /\ th'[p].pc = "idle"
             /\ ret' = [ret EXCEPT ![p] = EmptyRet] /\ seen' = [seen EXCEPT ![p] = 0]
    BY <1>2, <2>1, <2>2, <2>3, SimEmpty
  <2> QED BY <2>1, <2>2, <2>3, SimInside, SimDeqFails
<1>12. ASSUME DeqCasHead(p) PROVE Simulated
  <2>1. TypeOK' /\ entries' = entries
    BY <1>12, DeqCasHeadRing
  <2>2. CASE (\E F \in [Threads -> Int] : Ring(H, P, T, F)') /\ DeqFails(p)
    <3>1. Contents' = Contents
      BY <2>1, <2>2, ContentsSame
    <3> QED BY <2>1, <2>2, <3>1, SimDeqFails
  <2>3. CASE /\ Ring(H + 1, P, T, G)' /\ H < P
             /\ Others(p) /\ TakesEffect(p) /\ ret' = [ret EXCEPT ![p] = Got(Val(H))]
             /\ th[p].pc \in DeqPcs /\ th'[p].pc = "idle"
    <3>1. H + 1 \in Int
      OBVIOUS
    <3>2. /\ Contents' = Queue(H + 1, P)' /\ Queue(H, P) \in [1 .. P - H -> Values]
          /\ Queue(H + 1, P)' \in [1 .. P - (H + 1) -> Values]
      BY <2>1, <2>3, <3>1, ContentsBoth
    <3> QED BY <1>2, <2>1, <2>3, <3>2, SimTakeOut
  <2> QED BY <1>12, <2>2, <2>3, DeqCasHeadRing
<1> QED BY <1>1, <1>3, <1>4, <1>5, <1>6, <1>7, <1>8, <1>9, <1>10, <1>11, <1>12

LEMMA StutterStep ==
  ASSUME UNCHANGED vars
  PROVE  Simulated
<1>1. /\ head' = head /\ tail' = tail /\ entries' = entries /\ outside' = outside
      /\ th' = th /\ ret' = ret /\ seen' = seen
  BY DEF vars
<1>2. Contents' = Contents
  BY <1>1 DEF Contents, PublishedTail
<1>3. Ops' = Ops
  BY <1>1 DEF Ops, Pending
<1> QED BY <1>1, <1>2, <1>3 DEF Simulated

\* Every call of nxt_nncq_enqueue_pos() and nxt_nncq_dequeue() takes effect in
\* one atomic step between its start and its end, on one first-in first-out
\* queue; "empty" is returned only when the queue was empty at that step, or
\* when the retries ran out, and by then at least Patience calls of others took
\* effect: for every number of threads, every size and every width of the cycle.
THEOREM QueueLinearizes == Unlapped /\ Persistent /\ Spec => Linearizable
<1> SUFFICES ASSUME Unlapped, Persistent PROVE Spec => Linearizable
  OBVIOUS
<1>1. Init => Calls!FInit
  BY SimInit
<1>2. RingInv /\ [Next]_vars => [Calls!FNext]_(Calls!fvars)
  <2> SUFFICES ASSUME RingInv, [Next]_vars PROVE [Calls!FNext]_(Calls!fvars)
    OBVIOUS
  <2>1. PICK H, P, T \in Int, G \in [Threads -> Int] : TypeOK /\ Ring(H, P, T, G)
    BY DEF RingInv
  <2>2. CASE Next
    <3>1. Simulated
      BY <2>1, <2>2, SimStep
    <3> QED BY <3>1, SimulatedStep
  <2>3. CASE UNCHANGED vars
    <3>1. Simulated
      BY <2>3, StutterStep
    <3> QED BY <3>1, SimulatedStep
  <2> QED BY <2>2, <2>3
<1>3. Spec => []RingInv
  BY RingSafe
<1> QED BY <1>1, <1>2, <1>3, PTL DEF Spec, Linearizable, Calls!FSpec
=============================================================================
