------------------------------- MODULE Select -------------------------------
(***************************************************************************)
(* fx_select_recv2 (host/concur/fx_select.c): poll channel a, then b, then *)
(* sleep one millisecond, until a value is found or the counter passes the *)
(* timeout.  A channel is what BoundedFifo says of it, a queue and a shut  *)
(* flag; other threads put, take and close between any two polls.  The     *)
(* counter is a uint32_t.                                                  *)
(***************************************************************************)
EXTENDS Integers, Sequences

CONSTANTS
  Capacity,   \* of both channels
  Wrap,       \* 2^32, where waited and timeout_ms wrap around
  Timeouts,   \* timeout_ms
  Half,       \* 2^31: int32 is -Half .. Half - 1
  MaxPuts     \* bound: values other threads put in all

ASSUME SelectAssumption ==
  /\ Capacity \in Nat \ {0}
  /\ Wrap \in Nat \ {0}
  /\ Timeouts \subseteq 0 .. Wrap - 1
  /\ MaxPuts \in Nat
  /\ Half \in Nat \ {0}

VARIABLES
  q,         \* contents of "a" and "b"; values are numbered as they are put
  shut,
  given,     \* which channels are not NULL
  puts,      \* values put so far, by which the next one is numbered
  pc,        \* "test", "pollA", "pollB", "sleep" or "returned"
  waited,
  timeout,
  result,    \* [st, which, val]; val 0 is the caller's out left alone
  taken,     \* history: values other threads took
  got,       \* history: the value the call took, as it was in the channel
  steady     \* history: channels with a value ever since the round of polls began

vars == <<q, shut, given, puts, pc, waited, timeout, result, taken, got, steady>>
chans == <<q, shut, given, puts>>

Chans == {"a", "b"}
Result(st, which, val) == [st |-> st, which |-> which, val |-> val]

Init ==
  /\ q = [c \in Chans |-> << >>]
  /\ shut = [c \in Chans |-> FALSE]
  /\ given \in SUBSET Chans
  /\ puts = 0
  /\ pc = "test"
  /\ waited = 0
  /\ timeout \in Timeouts
  /\ result = Result("none", "none", 0)
  /\ taken = {}
  /\ got = {}
  /\ steady = {}

\* Other threads at the channels.
Put(c) ==
  /\ puts < MaxPuts
  /\ ~shut[c] /\ Len(q[c]) < Capacity
  /\ puts' = puts + 1
  /\ q' = [q EXCEPT ![c] = Append(@, puts')]
  /\ UNCHANGED <<shut, given, pc, waited, timeout, result, taken, got, steady>>

Take(c) ==
  /\ q[c] # << >>
  /\ taken' = taken \cup {Head(q[c])}
  /\ q' = [q EXCEPT ![c] = Tail(@)]
  /\ steady' = IF q'[c] = << >> THEN steady \ {c} ELSE steady
  /\ UNCHANGED <<shut, given, puts, pc, waited, timeout, result, got>>

Close(c) ==
  /\ ~shut[c]
  /\ shut' = [shut EXCEPT ![c] = TRUE]
  /\ UNCHANGED <<q, given, puts, pc, waited, timeout, result, taken, got, steady>>

\* A round of polls begins, or the call gives up.
Test ==
  /\ pc = "test"
  /\ IF waited <= timeout
       THEN /\ pc' = "pollA"
            /\ steady' = {c \in given : q[c] # << >>}
            /\ UNCHANGED result
       ELSE /\ pc' = "returned"
            /\ result' = Result("timeout", "none", 0)
            /\ UNCHANGED steady
  /\ UNCHANGED <<chans, waited, timeout, taken, got>>

\* A value is an int64 that try_recv casts to int32.
Narrow(v) == ((v + Half) % (2 * Half)) - Half

Delivers(c) ==
  /\ pc' = "returned"
  /\ result' = Result("ok", c, Narrow(Head(q[c])))
  /\ got' = got \cup {Head(q[c])}

\* Mutants of Poll: the value stays in the channel; the channels are looked
\* at in the first round alone.
PollPeeks(c, here, next) ==
  /\ pc = here
  /\ IF c \in given /\ q[c] # << >>
       THEN Delivers(c)
       ELSE pc' = next /\ UNCHANGED <<result, got>>
  /\ UNCHANGED <<chans, waited, timeout, taken, steady>>

PollOnce(c, here, next) ==
  /\ pc = here
  /\ IF c \in given /\ q[c] # << >> /\ waited = 0
       THEN Delivers(c) /\ q' = [q EXCEPT ![c] = Tail(@)]
       ELSE pc' = next /\ UNCHANGED <<q, result, got>>
  /\ UNCHANGED <<shut, given, puts, waited, timeout, taken, steady>>

\* try_recv of one channel: EMPTY and CLOSED are the same to the loop.
Poll(c, here, next) ==
  /\ pc = here
  /\ IF c \in given /\ q[c] # << >>
       THEN Delivers(c) /\ q' = [q EXCEPT ![c] = Tail(@)]
       ELSE pc' = next /\ UNCHANGED <<q, result, got>>
  /\ UNCHANGED <<shut, given, puts, waited, timeout, taken, steady>>

PollA == Poll("a", "pollA", "pollB")
PollB == Poll("b", "pollB", "sleep")

\* Mutant of Sleep: the counter does not move.
SleepForgets ==
  /\ pc = "sleep"
  /\ pc' = IF timeout = 0 THEN "returned" ELSE "test"
  /\ result' = IF timeout = 0 THEN Result("timeout", "none", 0) ELSE result
  /\ UNCHANGED <<chans, waited, timeout, taken, got, steady>>

Sleep ==
  /\ pc = "sleep"
  /\ IF timeout = 0
       THEN /\ pc' = "returned"
            /\ result' = Result("timeout", "none", 0)
            /\ UNCHANGED waited
       ELSE /\ pc' = "test"
            /\ waited' = (waited + 1) % Wrap
            /\ UNCHANGED result
  /\ UNCHANGED <<chans, timeout, taken, got, steady>>

SelectStep == Test \/ PollA \/ PollB \/ Sleep

Next == SelectStep \/ \E c \in given : Put(c) \/ Take(c) \/ Close(c)

Spec == Init /\ [][Next]_vars

\* The calling thread runs and its sleeps end; nobody has to put anything.
FairSpec == Spec /\ WF_vars(SelectStep)

(***************************************************************************)
(* Properties.                                                             *)
(***************************************************************************)
Contents(s) == {s[k] : k \in 1 .. Len(s)}

\* Every value put is in exactly one place: a queue, another thread, or the
\* caller.  A timeout takes nothing, a success one value, which it hands out
\* as the int32 it is cast to, and the two polls never both take.
EveryValueOnce ==
  /\ Contents(q["a"]) \cup Contents(q["b"]) \cup taken \cup got = 1 .. puts
  /\ got \cap (taken \cup Contents(q["a"]) \cup Contents(q["b"])) = {}
  /\ taken \cap (Contents(q["a"]) \cup Contents(q["b"])) = {}
  /\ IF result.st = "ok" THEN \E v \in got : got = {v} /\ result.val = Narrow(v)
                         ELSE got = {}

\* A timeout is never answered past a channel that held a value throughout
\* the last round of polls, however many went before it and however the
\* closes and the other takers interleave (24-39).
NoStrandedValue == result.st = "timeout" => steady = {}

\* "without blocking forever" (fx_select.h 12): the call returns, when the
\* timeout is below the greatest uint32_t.
SelectReturns == pc # "returned" ~> pc = "returned"

=============================================================================
