---------------------------- MODULE BoundedFifo ----------------------------
(***************************************************************************)
(* What a channel promises: a first-in first-out queue of at most limit    *)
(* values that threads put into and take from, blocking while it is full   *)
(* or empty.  Once shut it accepts nothing, still hands out what it holds, *)
(* and then answers "closed".                                              *)
(***************************************************************************)
EXTENDS Integers, Sequences

CONSTANTS Threads, Values, Narrow(_)
VARIABLES limit,   \* capacity; 0 while there is no queue
          q,       \* what is queued
          shut,
          blocked, \* per thread: "no", "put" or "take"
          ret      \* the last return: who, the status, the value, whether it is whole
vars == <<limit, q, shut, blocked, ret>>

Init ==
  /\ limit = 0
  /\ q = << >>
  /\ shut = FALSE
  /\ blocked = [t \in Threads |-> "no"]
  /\ ret = << >>

Make ==
  /\ limit = 0
  /\ limit' \in Nat \ {0}
  /\ UNCHANGED <<q, shut, blocked, ret>>

Return(t, st, v, w) ==
  /\ blocked' = [blocked EXCEPT ![t] = "no"]
  /\ ret' = <<t, st, v, w>>

Put(t, v) ==
  /\ blocked[t] # "take"
  /\ ~shut /\ Len(q) < limit
  /\ q' = Append(q, v)
  /\ Return(t, "ok", 0, FALSE)
  /\ UNCHANGED <<limit, shut>>

\* The value is handed out whole or narrowed, as the call asks.
Take(t) ==
  /\ blocked[t] # "put"
  /\ q # << >>
  /\ q' = Tail(q)
  /\ \E w \in BOOLEAN : Return(t, "ok", IF w THEN Head(q) ELSE Narrow(Head(q)), w)
  /\ UNCHANGED <<limit, shut>>

\* A thread blocks only on an open queue that is full, or empty.
BlockPut(t) ==
  /\ blocked[t] = "no" /\ ~shut /\ Len(q) = limit
  /\ blocked' = [blocked EXCEPT ![t] = "put"]
  /\ UNCHANGED <<limit, q, shut, ret>>

BlockTake(t) ==
  /\ blocked[t] = "no" /\ ~shut /\ q = << >>
  /\ blocked' = [blocked EXCEPT ![t] = "take"]
  /\ UNCHANGED <<limit, q, shut, ret>>

Refuse(t) ==
  /\ shut
  /\ blocked[t] = "put" \/ blocked[t] = "no" \/ q = << >>
  /\ Return(t, "closed", 0, FALSE)
  /\ UNCHANGED <<limit, q, shut>>

\* A call that does not block finds nothing.
Empty(t) ==
  /\ blocked[t] = "no" /\ ~shut /\ q = << >>
  /\ Return(t, "empty", 0, FALSE)
  /\ UNCHANGED <<limit, q, shut>>

Shut(t) ==
  /\ limit > 0
  /\ blocked[t] = "no"
  /\ shut' = TRUE
  /\ Return(t, "ok", 0, FALSE)
  /\ UNCHANGED <<limit, q>>

Discard ==
  /\ limit > 0
  /\ \A t \in Threads : blocked[t] = "no"
  /\ limit' = 0
  /\ q' = << >>
  /\ UNCHANGED <<shut, blocked, ret>>

Next ==
  \/ Make \/ Discard
  \/ \E t \in Threads :
       \/ \E v \in Values : Put(t, v)
       \/ Take(t) \/ BlockPut(t) \/ BlockTake(t) \/ Refuse(t) \/ Empty(t) \/ Shut(t)

Spec == Init /\ [][Next]_vars
=============================================================================
