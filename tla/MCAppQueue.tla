----------------------------- MODULE MCAppQueue -----------------------------
(* AppQueue for TLC.  Engines, readers, slots and streams are symmetric.    *)
EXTENDS AppQueue, TLC
CONSTANTS e1, e2, r1, r2, i1, i2, s1, s2
Symm == Permutations(Engines) \cup Permutations(Readers)
          \cup Permutations(Slots) \cup Permutations(Streams)

\* Positions matter only by their distance from the head, and depth_bound is a
\* local of a send.
Near(r) == IF rdr[r].pc \in {"depthTail", "depthHead"} THEN rdr[r].count - headc ELSE 0
Bound(e) == IF eng[e].pc \in {"idle", "ring"} THEN 0 ELSE bound[e]
Behind(e) == IF eng[e].pc \in {"tail", "decide"} THEN eng[e].pos - headc ELSE 0
ByDistance ==
  <<free, queue, tailc - headc, item, notified, bells,
    [e \in Engines |-> <<eng[e].pc, eng[e].s, eng[e].slot, eng[e].turn, Bound(e), Behind(e)>>],
    [r \in Readers |-> <<rdr[r].pc, rdr[r].slot, rdr[r].s, rdr[r].claim, Near(r)>>],
    req, cookie, sweep, runs, crashes, orphans>>
=============================================================================
