-------------------------------- MODULE Fifo --------------------------------
(***************************************************************************)
(* What a numeric circular queue promises its callers: a first-in          *)
(* first-out queue of numbers on which every call takes effect in one      *)
(* atomic step between its start and its end.  A call may also give up,    *)
(* without an effect, but only after Patience calls of other threads took  *)
(* effect while it was running (nxt_nncq.h: "each retry means another      *)
(* party made progress").                                                  *)
(***************************************************************************)
EXTENDS Naturals, Sequences, SequencesExt

CONSTANTS Threads,   \* the callers
          Values,    \* the numbers: slot indexes
          Patience   \* calls of others that a call sees before it gives up

VARIABLES queue,     \* the numbers in the queue, oldest first
          op,        \* op[p]: the running call of p
          ret,       \* ret[p]: the outcome of p's last call
          seen       \* seen[p]: effects of others during p's call, capped

fvars == <<queue, op, ret, seen>>

NoOp    == [kind |-> "none", val |-> 0]
PutOf(v) == [kind |-> "put", val |-> v]
TakeOp  == [kind |-> "take", val |-> 0]

NoRet    == NoOp
Ok       == [kind |-> "ok", val |-> 0]
Error    == [kind |-> "error", val |-> 0]
EmptyRet == [kind |-> "empty", val |-> 0]
Got(v)   == [kind |-> "value", val |-> v]

\* A call of p takes effect: the others that are in a call see it.
TakesEffect(p) ==
  seen' = [r \in Threads |->
             IF r = p THEN 0
             ELSE IF op[r] # NoOp /\ seen[r] < Patience
                  THEN seen[r] + 1 ELSE seen[r]]

FInit == /\ queue = <<>>
         /\ op = [p \in Threads |-> NoOp]
         /\ ret = [p \in Threads |-> NoRet]
         /\ seen = [p \in Threads |-> 0]

Call(p, o) ==
  /\ op[p] = NoOp
  /\ op' = [op EXCEPT ![p] = o]
  /\ ret' = [ret EXCEPT ![p] = NoRet]
  /\ UNCHANGED <<queue, seen>>

\* A caller owns the value that it puts.
CallPut(p, v) ==
  /\ v \notin ToSet(queue)
  /\ \A r \in Threads : op[r] # PutOf(v)
  /\ Call(p, PutOf(v))

CallTake(p) == Call(p, TakeOp)

End(p, r) ==
  /\ op' = [op EXCEPT ![p] = NoOp]
  /\ ret' = [ret EXCEPT ![p] = r]

Put(p) ==
  /\ op[p].kind = "put"
  /\ queue' = Append(queue, op[p].val)
  /\ End(p, Ok)
  /\ TakesEffect(p)

Take(p) ==
  /\ op[p] = TakeOp
  /\ queue # <<>>
  /\ queue' = Tail(queue)
  /\ End(p, Got(Head(queue)))
  /\ TakesEffect(p)

Empty(p) ==
  /\ op[p] = TakeOp
  /\ queue = <<>>
  /\ End(p, EmptyRet)
  /\ seen' = [seen EXCEPT ![p] = 0]
  /\ UNCHANGED queue

GiveUp(p) ==
  /\ op[p] # NoOp
  /\ seen[p] >= Patience
  /\ End(p, IF op[p] = TakeOp THEN EmptyRet ELSE Error)
  /\ seen' = [seen EXCEPT ![p] = 0]
  /\ UNCHANGED queue

FNext == \E p \in Threads :
           \/ \E v \in Values : CallPut(p, v)
           \/ CallTake(p)
           \/ Put(p)
           \/ Take(p)
           \/ Empty(p)
           \/ GiveUp(p)

FSpec == FInit /\ [][FNext]_fvars
=============================================================================
