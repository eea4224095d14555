--------------------------- MODULE DeadlineProofs ---------------------------
(***************************************************************************)
(* Theorems about JoinDeadline, for every number of slots, resolution of   *)
(* the clock, timeout and task.                                            *)
(***************************************************************************)
EXTENDS JoinDeadline, TLAPS

LEMMA Quotient ==
  ASSUME NEW a \in Nat, NEW b \in Nat \ {0}
  PROVE  /\ a \div b \in Nat /\ a % b \in 0 .. b - 1
         /\ a = (a \div b) * b + (a % b)
  OBVIOUS

LEMMA Distribute ==
  ASSUME NEW a \in Nat, NEW b \in Nat, NEW c \in Nat
  PROVE  /\ (a + b) * c = a * c + b * c
         /\ (a + b + 1) * c = a * c + b * c + c
         /\ a * c \in Nat
  OBVIOUS

LEMMA Monotone ==
  ASSUME NEW a \in Nat, NEW b \in Nat, NEW c \in Nat, a <= b
  PROVE  a * c <= b * c
<1>1. PICK d \in Nat : b = a + d
  BY b - a \in Nat
<1> QED BY <1>1, Distribute

\* Whatever the fractions, the carry yields a valid timespec one timeout on.
LEMMA AddTimeoutExact ==
  ASSUME now \in Nat, phase \in 0 .. PerSec - 1, NEW t \in Nat
  PROVE  LET d == AddTimeout(Clock, t)
         IN  d.sub \in 0 .. PerSec - 1 /\ Elapsed(d) = now + t
<1> USE DeadlineAssumption
<1> DEFINE s == (phase + now) \div PerSec
           f == (phase + now) % PerSec
           ts == t \div PerSec
           tf == t % PerSec
<1>1. /\ s \in Nat /\ f \in 0 .. PerSec - 1 /\ phase + now = s * PerSec + f
      /\ ts \in Nat /\ tf \in 0 .. PerSec - 1 /\ t = ts * PerSec + tf
  <2>1. phase + now \in Nat /\ PerSec \in Nat \ {0}
    OBVIOUS
  <2>2. s \in Nat /\ f \in 0 .. PerSec - 1 /\ phase + now = s * PerSec + f
    BY <2>1, Quotient
  <2>3. ts \in Nat /\ tf \in 0 .. PerSec - 1 /\ t = ts * PerSec + tf
    BY <2>1, Quotient
  <2> QED BY <2>2, <2>3
<1>2. Clock = [sec |-> s, sub |-> f]
  BY DEF Clock
<1>3. AddTimeout(Clock, t) = IF f + tf >= PerSec THEN [sec |-> s + ts + 1, sub |-> f + tf - PerSec]
                                                 ELSE [sec |-> s + ts, sub |-> f + tf]
  BY <1>2 DEF AddTimeout
<1> HIDE DEF s, f, ts, tf
<1>4. /\ (s + ts) * PerSec = s * PerSec + ts * PerSec
      /\ (s + ts + 1) * PerSec = s * PerSec + ts * PerSec + PerSec
      /\ s * PerSec \in Nat /\ ts * PerSec \in Nat
  BY <1>1, Distribute
<1> QED BY <1>1, <1>3, <1>4 DEF Elapsed

(***************************************************************************)
(* Before slot i is joined, at most i timeouts have passed; while it is    *)
(* waited for, the deadline is one timeout after that wait began, and not  *)
(* behind the clock.                                                       *)
(***************************************************************************)
DeadlineInv ==
  /\ now \in Nat /\ since \in Nat /\ phase \in 0 .. PerSec - 1 /\ timeout \in Nat
  /\ ends \in [0 .. NTasks - 1 -> Times]
  /\ pc \in {"next", "wait", "returned"} /\ i \in 0 .. NTasks
  /\ \A j \in 0 .. NTasks - 1 : j < i => ends[j] <= now
  /\ pc = "next" => now <= i * timeout
  /\ pc = "wait" =>
       /\ i < NTasks
       /\ until.sub \in 0 .. PerSec - 1
       /\ Elapsed(until) = since + timeout
       /\ now <= since + timeout
       /\ since <= i * timeout
  /\ pc # "returned" => rc = "none"
  /\ pc = "returned" => now <= NTasks * timeout /\ rc \in {"ok", "timeout"}
  /\ rc = "ok" => i = NTasks
  /\ rc = "timeout" => i < NTasks /\ ends[i] > now /\ now - since >= timeout

LEMMA DeadlineInit == Init => DeadlineInv
<1> SUFFICES ASSUME Init PROVE DeadlineInv
  OBVIOUS
<1>1. timeout \in Nat /\ 0 * timeout = 0
  BY DeadlineAssumption DEF Init
<1> QED BY <1>1, DeadlineAssumption DEF Init, DeadlineInv

LEMMA DeadlineStep == DeadlineInv /\ [Next]_vars => DeadlineInv'
<1> SUFFICES ASSUME DeadlineInv, [Next]_vars PROVE DeadlineInv'
  OBVIOUS
<1> USE DeadlineAssumption
<1>0. i \in Nat /\ (i + 1) * timeout = i * timeout + timeout /\ i * timeout \in Nat
  BY Distribute DEF DeadlineInv
<1>1. CASE NextSlot
  <2>1. CASE i < NTasks
    <3>1. pc = "next" /\ pc' = "wait" /\ since' = now
          /\ until' = AddTimeout(Clock, timeout)
          /\ UNCHANGED <<now, phase, ends, timeout, i, rc>>
      BY <1>1, <2>1 DEF NextSlot
    <3>2. until'.sub \in 0 .. PerSec - 1 /\ Elapsed(until)' = now + timeout
      BY <3>1, AddTimeoutExact DEF DeadlineInv, Elapsed
    <3> QED BY <1>0, <2>1, <3>1, <3>2 DEF DeadlineInv
  <2>2. CASE i = NTasks
    BY <1>1, <2>2 DEF NextSlot, DeadlineInv
  <2> QED BY <2>1, <2>2 DEF DeadlineInv
<1>2. CASE JoinDone
  BY <1>0, <1>2 DEF JoinDone, Ended, DeadlineInv
<1>3. CASE JoinGivesUp
  <2>1. pc = "wait" /\ ~Invalid /\ ~Ended /\ Expired /\ pc' = "returned" /\ rc' = "timeout"
        /\ UNCHANGED <<now, phase, ends, timeout, i, until, since>>
    BY <1>3 DEF JoinGivesUp, Invalid, DeadlineInv
  <2>2. (i + 1) * timeout <= NTasks * timeout
    BY <2>1, Monotone DEF DeadlineInv
  <2>3. ends[i] > now
    BY <2>1 DEF Ended, DeadlineInv, Times
  <2>4. now <= NTasks * timeout /\ now - since >= timeout
    BY <1>0, <2>1, <2>2 DEF Expired, DeadlineInv
  <2> QED BY <2>1, <2>3, <2>4 DEF DeadlineInv
<1>4. CASE Tick
  <2>1. Elapsed(until)' = Elapsed(until) /\ until' = until /\ now' = now + 1 /\ pc = "wait"
        /\ UNCHANGED <<phase, ends, timeout, pc, i, since, rc>>
    BY <1>4 DEF Tick, Elapsed
  <2>2. Elapsed(until) > now
    BY <1>4 DEF Tick, Expired, DeadlineInv
  <2>3. \A j \in 0 .. NTasks - 1 : j < i => ends[j] <= now + 1
    BY DEF DeadlineInv, Times
  <2> QED BY <1>0, <2>1, <2>2, <2>3 DEF DeadlineInv
<1>5. CASE UNCHANGED vars
  BY <1>5 DEF vars, DeadlineInv, Elapsed
<1> QED BY <1>1, <1>2, <1>3, <1>4, <1>5 DEF Next

THEOREM DeadlineInvariant == Spec => []DeadlineInv
  BY DeadlineInit, DeadlineStep, PTL DEF Spec

\* Every deadline is a valid timespec, exactly one timeout after the wait for
\* its slot began: no EINVAL, and no slot is given up early or late.
THEOREM DeadlineValidHolds == Spec => []DeadlineValid
<1>1. DeadlineInv => DeadlineValid
  BY DEF DeadlineInv, DeadlineValid
<1> QED BY <1>1, DeadlineInvariant, PTL

\* The call takes at most one timeout per slot that was pending.
THEOREM WithinSlotBudgetsHolds == Spec => []WithinSlotBudgets
<1>1. DeadlineInv => WithinSlotBudgets
  <2> SUFFICES ASSUME DeadlineInv PROVE now <= NTasks * timeout
    BY DEF WithinSlotBudgets
  <2>1. i \in Nat /\ (i + 1) * timeout = i * timeout + timeout /\ i * timeout <= NTasks * timeout
    BY DeadlineAssumption, Distribute, Monotone DEF DeadlineInv
  <2>2. i < NTasks => (i + 1) * timeout <= NTasks * timeout
    BY DeadlineAssumption, Monotone DEF DeadlineInv
  <2>3. i * timeout \in Nat /\ (i + 1) * timeout \in Nat /\ NTasks * timeout \in Nat
    BY DeadlineAssumption, <2>1, Distribute DEF DeadlineInv
  <2> QED BY <2>1, <2>2, <2>3 DEF DeadlineInv
<1> QED BY <1>1, DeadlineInvariant, PTL

\* OK means that every task has returned, TIMEOUT that the slot it stopped
\* at has not, and was itself waited for a full timeout.
THEOREM TimeoutEarnedHolds == Spec => []TimeoutEarned
<1>1. DeadlineInv => TimeoutEarned
  BY DEF DeadlineInv, TimeoutEarned
<1> QED BY <1>1, DeadlineInvariant, PTL
=============================================================================
