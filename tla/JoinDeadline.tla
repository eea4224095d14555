---------------------------- MODULE JoinDeadline ----------------------------
(***************************************************************************)
(* The clock of fx_nursery_join_all_timeout on Linux (fx_task_nursery.c    *)
(* 224-248 and 291-319).  Nursery lets a timed join expire at any moment;  *)
(* here time is explicit: the wall clock is a timespec, one tick is the    *)
(* resolution of the timeout argument, PerSec ticks make a second, and the *)
(* task of slot i returns at tick ends[i] of the call.                     *)
(***************************************************************************)
EXTENDS Integers

CONSTANTS
  NTasks,     \* slots pending when the call begins
  PerSec,     \* ticks in a second: 1000 ms in the code
  Timeouts,   \* the values of timeout_ms
  Horizon     \* bound: no task returns, and no clock is read, after it

ASSUME DeadlineAssumption ==
  /\ NTasks \in Nat \ {0}
  /\ PerSec \in Nat \ {0}
  /\ Timeouts \subseteq Nat
  /\ Horizon \in Nat

VARIABLES
  now,       \* ticks since the call
  phase,     \* tv_nsec of the clock when the call began, in ticks
  ends,      \* when each task returns; Horizon + 1 is never
  timeout,   \* timeout_ms
  pc,        \* "next", "wait" or "returned"
  i,         \* the slot being joined
  until,     \* the absolute timespec given to pthread_timedjoin_np
  since,     \* history: when the wait for slot i began
  rc

vars == <<now, phase, ends, timeout, pc, i, until, since, rc>>
Times == 0 .. Horizon + 1

\* clock_gettime: seconds since the call's second, and the fraction.
Clock == [sec |-> (phase + now) \div PerSec, sub |-> (phase + now) % PerSec]

\* Mutant of AddTimeout: the carry is taken from the fraction, and not added
\* to the seconds.
AddLosesCarry(ts, t) ==
  LET sub == ts.sub + (t % PerSec)
      sec == ts.sec + (t \div PerSec)
  IN  [sec |-> sec, sub |-> IF sub >= PerSec THEN sub - PerSec ELSE sub]

\* The deadline computation, its carry included.
AddTimeout(ts, t) ==
  LET sub == ts.sub + (t % PerSec)
      sec == ts.sec + (t \div PerSec)
  IN  IF sub >= PerSec THEN [sec |-> sec + 1, sub |-> sub - PerSec]
                       ELSE [sec |-> sec, sub |-> sub]

Elapsed(ts) == ts.sec * PerSec + ts.sub - phase

Init ==
  /\ now = 0
  /\ phase \in 0 .. PerSec - 1
  /\ ends \in [0 .. NTasks - 1 -> Times]
  /\ timeout \in Timeouts
  /\ pc = "next"
  /\ i = 0
  /\ until = [sec |-> 0, sub |-> 0] /\ since = 0
  /\ rc = "none"

\* Mutant of NextSlot: the deadline is computed once, for the first slot.
NextSlotShares ==
  /\ pc = "next"
  /\ IF i < NTasks
       THEN /\ pc' = "wait" /\ since' = now
            /\ until' = IF i = 0 THEN AddTimeout(Clock, timeout) ELSE until
            /\ UNCHANGED rc
       ELSE pc' = "returned" /\ rc' = "ok" /\ UNCHANGED <<until, since>>
  /\ UNCHANGED <<now, phase, ends, timeout, i>>

\* The loop takes the next slot: each one gets the whole timeout again.
NextSlot ==
  /\ pc = "next"
  /\ IF i < NTasks
       THEN pc' = "wait" /\ since' = now /\ until' = AddTimeout(Clock, timeout) /\ UNCHANGED rc
       ELSE pc' = "returned" /\ rc' = "ok" /\ UNCHANGED <<until, since>>
  /\ UNCHANGED <<now, phase, ends, timeout, i>>

\* pthread_timedjoin_np: EINVAL when tv_nsec is not a fraction of a second,
\* at once when the thread has ended, ETIMEDOUT at the deadline.
Invalid == until.sub >= PerSec
Ended == ends[i] <= now
\* Mutant of Expired: off by one.
ExpiredLate == Elapsed(until) < now

Expired == Elapsed(until) <= now

JoinDone ==
  /\ pc = "wait" /\ ~Invalid /\ Ended
  /\ pc' = "next"
  /\ i' = i + 1
  /\ UNCHANGED <<now, phase, ends, timeout, until, since, rc>>

JoinGivesUp ==
  /\ pc = "wait" /\ (Invalid \/ (~Ended /\ Expired))
  /\ pc' = "returned"
  /\ rc' = IF Invalid THEN "err" ELSE "timeout"
  /\ UNCHANGED <<now, phase, ends, timeout, i, until, since>>

\* The caller wakes as soon as it can: the clock only moves while it waits.
Tick ==
  /\ pc = "wait" /\ ~Invalid /\ ~Ended /\ ~Expired
  /\ now' = now + 1
  /\ UNCHANGED <<phase, ends, timeout, pc, i, until, since, rc>>

Next == NextSlot \/ JoinDone \/ JoinGivesUp \/ Tick

Spec == Init /\ [][Next]_vars

\* The carry makes every deadline a valid timespec, exactly one timeout after
\* the wait for its slot began (229-238): the join never fails with EINVAL,
\* and no slot is given up early or late.
DeadlineValid ==
  /\ rc # "err"
  /\ pc = "wait" => until.sub \in 0 .. PerSec - 1 /\ Elapsed(until) = since + timeout

\* The call is bounded by one timeout per pending slot (310), not by one in
\* all: the header's "Join with deadline (ms)" holds for each slot by itself.
WithinSlotBudgets == now <= NTasks * timeout

\* TIMEOUT and OK are answered for the right reason: on OK no task is left
\* running, on TIMEOUT the slot it stopped at has not ended and was waited
\* for from since on, a full timeout of its own.
TimeoutEarned ==
  /\ rc = "ok" => \A j \in 0 .. NTasks - 1 : ends[j] <= now
  /\ rc = "timeout" => ends[i] > now /\ now - since >= timeout

=============================================================================
