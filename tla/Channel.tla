------------------------------ MODULE Channel ------------------------------
(***************************************************************************)
(* The bounded channel, host/concur/fx_chan.c: a ring buffer of int64      *)
(* values under one mutex, with the condition variables not_empty and      *)
(* not_full.  A step is what a thread does from getting the mutex to       *)
(* releasing it, by returning or by waiting.  A waiting thread is woken by *)
(* a signal, by a broadcast or for no reason, then competes for the mutex  *)
(* with every other thread and tests its condition again.                  *)
(***************************************************************************)
EXTENDS Integers, FiniteSets, Sequences

CONSTANTS
  Threads,    \* the threads that share the channel
  Requests,   \* arguments of create
  Values,     \* values sent
  Half        \* 2^31: int32 is -Half .. Half - 1

ASSUME ChannelAssumption ==
  /\ IsFiniteSet(Threads)
  /\ Requests \subseteq Int
  /\ Values \subseteq Int
  /\ Half \in Nat \ {0}

VARIABLES
  mem,      \* "null", "live" or "freed"
  buf, cap, len, head, closed,
  pc,       \* per thread, see States
  arg,      \* per thread: the value its blocked send carries
  wide,     \* per thread: its blocked receive is recv_i64
  ret       \* the last return: who, the status, the value, whether it is an int64

vars == <<mem, buf, cap, len, head, closed, pc, arg, wide, ret>>
ring == <<buf, len, head>>

\* waitNE, waitNF: blocked on not_empty, not_full.  wokeNE, wokeNF: woken,
\* not yet in possession of the mutex.
States == {"idle", "waitNE", "wokeNE", "waitNF", "wokeNF"}
In(s) == {t \in Threads : pc[t] = s}

\* The cast of an int64 to int32.
Narrow(v) == ((v + Half) % (2 * Half)) - Half

Returns == Threads \X {"ok", "closed", "empty"} \X Int \X BOOLEAN

TypeOK ==
  /\ mem \in {"null", "live", "freed"}
  /\ cap \in Nat /\ len \in 0 .. cap /\ head \in 0 .. cap
  /\ mem = "live" => cap > 0 /\ head < cap
  /\ buf \in [0 .. cap - 1 -> Values \cup {0}]
  /\ closed \in BOOLEAN
  /\ pc \in [Threads -> States]
  /\ arg \in [Threads -> Values \cup {0}]
  /\ wide \in [Threads -> BOOLEAN]
  /\ ret = << >> \/ ret \in Returns

Init ==
  /\ mem = "null"
  /\ buf = << >> /\ cap = 0 /\ len = 0 /\ head = 0
  /\ closed = FALSE
  /\ pc = [t \in Threads |-> "idle"]
  /\ arg = [t \in Threads |-> 0]
  /\ wide = [t \in Threads |-> FALSE]
  /\ ret = << >>

\* Mutant of Clamped: the capacity is not raised to 1.
ClampedNever(c) == c
Clamped(c) == IF c < 1 THEN 1 ELSE c

\* A failed calloc or mutex_init returns NULL and leaves nothing behind.
Create(c) ==
  /\ mem = "null"
  /\ mem' = "live"
  /\ cap' = Clamped(c)
  /\ buf' = [k \in 0 .. cap' - 1 |-> 0]
  /\ UNCHANGED <<len, head, closed, pc, arg, wide, ret>>

Return(t) == pc' = [pc EXCEPT ![t] = "idle"]

(***************************************************************************)
(* What happens to the threads when t leaves its critical section: it goes *)
(* back to its caller, and one thread in state s, if any, is signalled.    *)
(***************************************************************************)
\* Mutants of ReturnAndSignal: a receiver is only signalled when the buffer
\* was empty; a sender only when it was full.
SignalsFirstOnly(t, s, woken) ==
  IF s = "waitNE" /\ len > 0
    THEN Return(t)
    ELSE \/ In(s) = {} /\ Return(t)
         \/ \E w \in In(s) : pc' = [pc EXCEPT ![t] = "idle", ![w] = woken]

SignalsWhenFull(t, s, woken) ==
  IF s = "waitNF" /\ len < cap
    THEN Return(t)
    ELSE \/ In(s) = {} /\ Return(t)
         \/ \E w \in In(s) : pc' = [pc EXCEPT ![t] = "idle", ![w] = woken]

ReturnAndSignal(t, s, woken) ==
  \/ In(s) = {} /\ Return(t)
  \/ \E w \in In(s) : pc' = [pc EXCEPT ![t] = "idle", ![w] = woken]

\* Mutant of Roused: only not_empty is broadcast.
RousedReceivers(s) == IF s = "waitNE" THEN "wokeNE" ELSE s

Roused(s) == CASE s = "waitNE" -> "wokeNE"
               [] s = "waitNF" -> "wokeNF"
               [] OTHER        -> s

Spurious(t) ==
  /\ pc[t] \in {"waitNE", "waitNF"}
  /\ pc' = [pc EXCEPT ![t] = Roused(@)]
  /\ UNCHANGED <<mem, ring, cap, closed, arg, wide, ret>>

(***************************************************************************)
(* send_i64, and send, which widens its argument.                          *)
(***************************************************************************)
Sends(t, v) ==
  /\ mem = "live"
  /\ pc[t] = "idle" \/ (pc[t] = "wokeNF" /\ arg[t] = v)

SendBlocks(t, v) ==
  /\ Sends(t, v)
  /\ len >= cap /\ ~closed
  /\ pc' = [pc EXCEPT ![t] = "waitNF"]
  /\ arg' = [arg EXCEPT ![t] = v]
  /\ UNCHANGED <<mem, ring, cap, closed, wide, ret>>

SendClosed(t, v) ==
  /\ Sends(t, v)
  /\ closed
  /\ Return(t)
  /\ ret' = <<t, "closed", 0, FALSE>>
  /\ arg' = [arg EXCEPT ![t] = 0]
  /\ UNCHANGED <<mem, ring, cap, closed, wide>>

\* Mutant of Last: the tail ignores head.
LastIsLen == len % cap
Last == (head + len) % cap

SendPuts(t, v) ==
  /\ Sends(t, v)
  /\ len < cap /\ ~closed
  /\ buf' = [buf EXCEPT ![Last] = v]
  /\ len' = len + 1
  /\ ReturnAndSignal(t, "waitNE", "wokeNE")
  /\ ret' = <<t, "ok", 0, FALSE>>
  /\ arg' = [arg EXCEPT ![t] = 0]
  /\ UNCHANGED <<mem, head, cap, closed, wide>>

(***************************************************************************)
(* recv_i64 when w is TRUE; recv and try_recv narrow the value.            *)
(***************************************************************************)
Receives(t, w) ==
  /\ mem = "live"
  /\ pc[t] = "idle" \/ (pc[t] = "wokeNE" /\ wide[t] = w)

RecvBlocks(t, w) ==
  /\ Receives(t, w)
  /\ len = 0 /\ ~closed
  /\ pc' = [pc EXCEPT ![t] = "waitNE"]
  /\ wide' = [wide EXCEPT ![t] = w]
  /\ UNCHANGED <<mem, ring, cap, closed, arg, ret>>

RecvClosed(t, w) ==
  /\ Receives(t, w)
  /\ len = 0 /\ closed
  /\ Return(t)
  /\ ret' = <<t, "closed", 0, FALSE>>
  /\ wide' = [wide EXCEPT ![t] = FALSE]
  /\ UNCHANGED <<mem, ring, cap, closed, arg>>

RecvTakes(t, w) ==
  /\ Receives(t, w)
  /\ len > 0
  /\ head' = (head + 1) % cap
  /\ len' = len - 1
  /\ ReturnAndSignal(t, "waitNF", "wokeNF")
  /\ ret' = <<t, "ok", IF w THEN buf[head] ELSE Narrow(buf[head]), w>>
  /\ wide' = [wide EXCEPT ![t] = FALSE]
  /\ UNCHANGED <<mem, buf, cap, closed, arg>>

\* try_recv never waits; a value is taken by RecvTakes(t, FALSE), which has
\* the same body, and an empty closed channel answers as RecvClosed does.
TryRecvEmpty(t) ==
  /\ mem = "live"
  /\ pc[t] = "idle"
  /\ len = 0 /\ ~closed
  /\ ret' = <<t, "empty", 0, FALSE>>
  /\ UNCHANGED <<mem, ring, cap, closed, pc, arg, wide>>

Close(t) ==
  /\ mem = "live"
  /\ pc[t] = "idle"
  /\ closed' = TRUE
  /\ pc' = [u \in Threads |-> Roused(pc[u])]
  /\ ret' = <<t, "ok", 0, FALSE>>
  /\ UNCHANGED <<mem, ring, cap, arg, wide>>

\* destroy takes no lock: its caller must know that no thread is in a call.
Destroy ==
  /\ mem = "live"
  /\ In("idle") = Threads
  /\ mem' = "freed"
  /\ UNCHANGED <<ring, cap, closed, pc, arg, wide, ret>>

Send(t, v) == SendBlocks(t, v) \/ SendClosed(t, v) \/ SendPuts(t, v)
Recv(t, w) == RecvBlocks(t, w) \/ RecvClosed(t, w) \/ RecvTakes(t, w)

Next ==
  \/ \E c \in Requests : Create(c)
  \/ Destroy
  \/ \E t \in Threads :
       \/ \E v \in Values : Send(t, v)
       \/ \E w \in BOOLEAN : Recv(t, w)
       \/ TryRecvEmpty(t)
       \/ Close(t)
       \/ Spurious(t)

Spec == Init /\ [][Next]_vars

(***************************************************************************)
(* A woken thread gets the mutex in the end.  No call has to be made and   *)
(* no spurious wakeup has to happen.                                       *)
(***************************************************************************)
Resume(t) ==
  \/ pc[t] = "wokeNF" /\ Send(t, arg[t])
  \/ pc[t] = "wokeNE" /\ Recv(t, wide[t])

FairSpec == Spec /\ \A t \in Threads : WF_vars(Resume(t))

(***************************************************************************)
(* Properties.                                                             *)
(***************************************************************************)

\* No wakeup is lost although each send and receive signals one thread only
\* and any thread may overtake the one signalled (93-163): while a receiver
\* sleeps there is a woken receiver for every queued value, while a sender
\* sleeps a woken sender for every free slot, and nobody sleeps once closed.
NoLostWakeup ==
  /\ In("waitNE") # {} => ~closed /\ Cardinality(In("wokeNE")) >= len
  /\ In("waitNF") # {} => ~closed /\ Cardinality(In("wokeNF")) >= cap - len

\* The ring buffer is a first-in first-out queue: nothing is lost, doubled
\* or reordered where head and tail wrap, nothing enters after close, and
\* what was accepted before it can still be received.
Queued ==
  IF mem = "live" THEN [k \in 1 .. len |-> buf[(head + k - 1) % cap]] ELSE << >>

BlockedIn ==
  [t \in Threads |-> CASE pc[t] \in {"waitNE", "wokeNE"} -> "take"
                       [] pc[t] \in {"waitNF", "wokeNF"} -> "put"
                       [] OTHER -> "no"]

Fifo == INSTANCE BoundedFifo WITH
  limit <- IF mem = "live" THEN cap ELSE 0, q <- Queued, shut <- closed,
  blocked <- BlockedIn
ImplementsFifo == Fifo!Spec

\* Closing releases every thread blocked in the channel, senders too.
CloseReleases == closed ~> In("idle") = Threads

\* A value in the channel does not sit there while receivers sleep, nor a
\* free slot while senders do.
ValuesFlow ==
  /\ (len > 0 /\ In("waitNE") # {}) ~> (len = 0 \/ In("waitNE") = {})
  /\ (len < cap /\ In("waitNF") # {}) ~> (len = cap \/ In("waitNF") = {})

=============================================================================
