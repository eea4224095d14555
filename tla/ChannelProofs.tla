--------------------------- MODULE ChannelProofs ---------------------------
(***************************************************************************)
(* Theorems about Channel, for every number of threads, capacity, set of   *)
(* values and width of the narrow integers.                                *)
(***************************************************************************)
EXTENDS Channel, FiniteSetTheorems, TLAPS

(***************************************************************************)
(* Types.  A channel that was not created is unused.                       *)
(***************************************************************************)
ChanInv ==
  /\ TypeOK
  /\ mem = "null" => cap = 0 /\ len = 0 /\ head = 0 /\ In("idle") = Threads

LEMMA NarrowInt == \A v \in Int : Narrow(v) \in Int
  BY ChannelAssumption DEF Narrow

LEMMA ReturnAndSignalTypes ==
  ASSUME NEW t \in Threads, NEW s, NEW woken \in States, pc \in [Threads -> States],
         ReturnAndSignal(t, s, woken)
  PROVE  pc' \in [Threads -> States]
  BY DEF ReturnAndSignal, Return, In, States

LEMMA RousedTypes == \A s \in States : Roused(s) \in States
  BY DEF Roused, States

LEMMA ChanInvInit == Init => ChanInv
<1> SUFFICES ASSUME Init PROVE ChanInv
  OBVIOUS
<1>1. << >> \in [0 .. 0 - 1 -> Values \cup {0}]
  OBVIOUS
<1>2. /\ mem = "null" /\ buf = << >> /\ cap = 0 /\ len = 0 /\ head = 0 /\ closed = FALSE
      /\ pc \in [Threads -> States] /\ arg \in [Threads -> Values \cup {0}]
      /\ wide \in [Threads -> BOOLEAN] /\ ret = << >>
  BY DEF Init, States
<1>3. buf \in [0 .. cap - 1 -> Values \cup {0}]
  BY <1>1, <1>2
<1>4. cap \in Nat /\ len \in 0 .. cap /\ head \in 0 .. cap
  BY <1>2
<1>5. mem # "live"
  BY <1>2
<1>6. TypeOK
  BY <1>2, <1>3, <1>4, <1>5, Zenon DEF TypeOK
<1>7. In("idle") = Threads
  BY DEF Init, In
<1> QED BY <1>2, <1>6, <1>7 DEF ChanInv

LEMMA CreateKeeps ==
  ASSUME ChanInv, NEW c \in Requests, Create(c)
  PROVE  ChanInv'
<1>1. Clamped(c) \in Nat \ {0}
  BY ChannelAssumption DEF Clamped
<1>2. cap' \in Nat \ {0} /\ buf' \in [0 .. cap' - 1 -> Values \cup {0}]
  BY <1>1 DEF Create
<1>3. len = 0 /\ head = 0
  BY DEF Create, ChanInv
<1> QED BY <1>2, <1>3 DEF ChanInv, TypeOK, Create

LEMMA ReturnTypes ==
  ASSUME NEW t \in Threads, NEW st \in {"ok", "closed", "empty"}, NEW v \in Int,
         NEW w \in BOOLEAN
  PROVE  <<t, st, v, w>> \in Returns
  BY DEF Returns

LEMMA ReturnConstants ==
  ASSUME NEW t \in Threads
  PROVE  /\ <<t, "ok", 0, FALSE>> \in Returns
         /\ <<t, "closed", 0, FALSE>> \in Returns
         /\ <<t, "empty", 0, FALSE>> \in Returns
<1>1. 0 \in Int /\ FALSE \in BOOLEAN
  OBVIOUS
<1>2. \A st \in {"ok", "closed", "empty"} : <<t, st, 0, FALSE>> \in Returns
  BY <1>1, ReturnTypes
<1> QED BY <1>2

LEMMA SendKeeps ==
  ASSUME ChanInv, NEW t \in Threads, NEW v \in Values, Send(t, v)
  PROVE  ChanInv'
<1>1. CASE SendBlocks(t, v)
  BY <1>1 DEF SendBlocks, Sends, ring, ChanInv, TypeOK, States
<1>2. CASE SendClosed(t, v)
  BY <1>2, ReturnConstants DEF SendClosed, Sends, Return, ring, ChanInv, TypeOK, States
<1>3. CASE SendPuts(t, v)
  <2>1. pc' \in [Threads -> States]
    BY <1>3, ReturnAndSignalTypes DEF SendPuts, ChanInv, TypeOK, States
  <2>2. Last \in 0 .. cap - 1
    BY <1>3 DEF SendPuts, Sends, Last, ChanInv, TypeOK
  <2>3. buf' \in [0 .. cap - 1 -> Values \cup {0}] /\ len' \in 0 .. cap
    BY <1>3, <2>2 DEF SendPuts, Sends, ChanInv, TypeOK
  <2>4. arg' \in [Threads -> Values \cup {0}] /\ ret' \in Returns
    BY <1>3, ReturnConstants DEF SendPuts, ChanInv, TypeOK
  <2> QED BY <1>3, <2>1, <2>3, <2>4 DEF SendPuts, Sends, ChanInv, TypeOK
<1> QED BY <1>1, <1>2, <1>3 DEF Send

LEMMA RecvKeeps ==
  ASSUME ChanInv, NEW t \in Threads, NEW w \in BOOLEAN, Recv(t, w)
  PROVE  ChanInv'
<1>1. CASE RecvBlocks(t, w)
  BY <1>1 DEF RecvBlocks, Receives, ring, ChanInv, TypeOK, States
<1>2. CASE RecvClosed(t, w)
  BY <1>2, ReturnConstants DEF RecvClosed, Receives, Return, ring, ChanInv, TypeOK, States
<1>3. CASE RecvTakes(t, w)
  <2>1. pc' \in [Threads -> States]
    BY <1>3, ReturnAndSignalTypes DEF RecvTakes, ChanInv, TypeOK, States
  <2>2. mem = "live" /\ cap > 0 /\ head \in 0 .. cap - 1 /\ len \in 1 .. cap
    BY <1>3 DEF RecvTakes, Receives, ChanInv, TypeOK
  <2>3. head' \in 0 .. cap - 1 /\ len' \in 0 .. cap
    BY <1>3, <2>2 DEF RecvTakes, ChanInv, TypeOK
  <2>4. buf[head] \in Int
    <3>1. buf \in [0 .. cap - 1 -> Values \cup {0}]
      BY DEF ChanInv, TypeOK
    <3>2. buf[head] \in Values \cup {0}
      BY <2>2, <3>1
    <3>3. Values \subseteq Int
      BY ChannelAssumption
    <3>4. 0 \in Int
      OBVIOUS
    <3> QED BY <3>2, <3>3, <3>4, Zenon
  <2>5. ret' \in Returns
    <3>1. (IF w THEN buf[head] ELSE Narrow(buf[head])) \in Int
      BY <2>4, NarrowInt
    <3>2. ret' = <<t, "ok", IF w THEN buf[head] ELSE Narrow(buf[head]), w>>
      BY <1>3 DEF RecvTakes
    <3> QED BY <3>1, <3>2, ReturnTypes
  <2>6. wide' \in [Threads -> BOOLEAN]
    BY <1>3 DEF RecvTakes, ChanInv, TypeOK
  <2> QED BY <1>3, <2>1, <2>2, <2>3, <2>5, <2>6 DEF RecvTakes, ChanInv, TypeOK
<1> QED BY <1>1, <1>2, <1>3 DEF Recv

LEMMA OthersKeep ==
  ASSUME ChanInv, NEW t \in Threads, TryRecvEmpty(t) \/ Close(t) \/ Spurious(t)
  PROVE  ChanInv'
<1>1. CASE TryRecvEmpty(t)
  BY <1>1, ReturnConstants DEF TryRecvEmpty, ring, ChanInv, TypeOK, In
<1>2. CASE Close(t)
  <2>1. pc' \in [Threads -> States]
    BY <1>2, RousedTypes DEF Close, ChanInv, TypeOK
  <2> QED BY <1>2, <2>1, ReturnConstants DEF Close, ring, ChanInv, TypeOK
<1>3. CASE Spurious(t)
  <2>1. pc' \in [Threads -> States]
    BY <1>3, RousedTypes DEF Spurious, ChanInv, TypeOK
  <2> QED BY <1>3, <2>1 DEF Spurious, ring, ChanInv, TypeOK, In
<1> QED BY <1>1, <1>2, <1>3

LEMMA ChanInvNext == ChanInv /\ [Next]_vars => ChanInv'
<1> SUFFICES ASSUME ChanInv, [Next]_vars PROVE ChanInv'
  OBVIOUS
<1>1. CASE Destroy
  BY <1>1 DEF Destroy, ring, ChanInv, TypeOK
<1>2. CASE UNCHANGED vars
  BY <1>2 DEF vars, ChanInv, TypeOK, In
<1> QED BY <1>1, <1>2, CreateKeeps, SendKeeps, RecvKeeps, OthersKeep DEF Next

THEOREM ChanInvariant == Spec => []ChanInv
  BY ChanInvInit, ChanInvNext, PTL DEF Spec

\* The types, with head and len inside the capacity.
THEOREM TypeOKHolds == Spec => []TypeOK
<1>1. ChanInv => TypeOK
  BY DEF ChanInv
<1> QED BY <1>1, ChanInvariant, PTL

(***************************************************************************)
(* No lost wakeup.  A put adds a value and wakes a sleeping receiver, if   *)
(* there is one; it is itself no receiver that was woken.  It may be a     *)
(* sender that was, but then it takes the free slot that one was counted   *)
(* for.  A take is the mirror image.                                       *)
(***************************************************************************)
LEMMA Counts ==
  ASSUME NEW S \in SUBSET Threads
  PROVE  IsFiniteSet(S) /\ Cardinality(S) \in Nat
  BY ChannelAssumption, FS_Subset, FS_CardinalityType

LEMMA CountsMore ==
  ASSUME NEW S \in SUBSET Threads, NEW T \in SUBSET Threads, S \subseteq T
  PROVE  /\ Cardinality(T) >= Cardinality(S)
         /\ \A w \in T \ S : Cardinality(T) >= Cardinality(S) + 1
<1>1. IsFiniteSet(T) /\ IsFiniteSet(S) /\ Cardinality(S) \in Nat /\ Cardinality(T) \in Nat
  BY Counts
<1>2. Cardinality(S) <= Cardinality(T)
  BY <1>1, FS_Subset
<1>3. Cardinality(S) = Cardinality(T) => S = T
  BY <1>1, FS_Subset
<1> QED BY <1>1, <1>2, <1>3

LEMMA CountsLess ==
  ASSUME NEW S \in SUBSET Threads, NEW T \in SUBSET Threads, NEW t, S \ {t} \subseteq T
  PROVE  Cardinality(T) >= Cardinality(S) - 1
<1>1. IsFiniteSet(S) /\ Cardinality(S) \in Nat /\ Cardinality(T) \in Nat
  BY Counts
<1>2. Cardinality(S \ {t}) \in {Cardinality(S), Cardinality(S) - 1}
  BY <1>1, FS_RemoveElement
<1>3. S \ {t} \in SUBSET Threads
  OBVIOUS
<1>4. Cardinality(T) >= Cardinality(S \ {t})
  BY <1>3, CountsMore
<1> QED BY <1>1, <1>2, <1>4

\* Nobody is in the ring's way when nobody sleeps more than before, nobody
\* who was woken is gone, and the ring and the flag are as they were.
LEMMA Steady ==
  ASSUME ChanInv, NoLostWakeup,
         In("waitNE")' \subseteq In("waitNE"), In("waitNF")' \subseteq In("waitNF"),
         In("wokeNE") \subseteq In("wokeNE")', In("wokeNF") \subseteq In("wokeNF")',
         UNCHANGED <<len, cap, closed>>
  PROVE  NoLostWakeup'
<1>1. /\ Cardinality(In("wokeNE")') >= Cardinality(In("wokeNE"))
      /\ Cardinality(In("wokeNF")') >= Cardinality(In("wokeNF"))
  BY CountsMore DEF In
<1>2. /\ In("wokeNE") \in SUBSET Threads /\ In("wokeNE")' \in SUBSET Threads
      /\ In("wokeNF") \in SUBSET Threads /\ In("wokeNF")' \in SUBSET Threads
  BY DEF In
<1>3. /\ Cardinality(In("wokeNE")) \in Nat /\ Cardinality(In("wokeNE")') \in Nat
      /\ Cardinality(In("wokeNF")) \in Nat /\ Cardinality(In("wokeNF")') \in Nat
  BY <1>2, Counts
<1> QED BY <1>1, <1>3 DEF NoLostWakeup, ChanInv, TypeOK

\* Nobody sleeps in a closed channel.
LEMMA ClosedSleepless ==
  ASSUME NoLostWakeup, closed, In("waitNE")' \subseteq In("waitNE"), In("waitNF")' \subseteq In("waitNF")
  PROVE  NoLostWakeup'
  BY DEF NoLostWakeup

LEMMA SendWakes ==
  ASSUME ChanInv, NoLostWakeup, NEW t \in Threads, NEW v \in Values, Send(t, v)
  PROVE  NoLostWakeup'
<1>1. CASE SendBlocks(t, v)
  <2>1. /\ In("waitNE")' \subseteq In("waitNE") /\ In("wokeNE") \subseteq In("wokeNE")'
        /\ ~closed' /\ len' = len /\ len >= cap /\ cap' = cap
    BY <1>1 DEF SendBlocks, Sends, In, ring, ChanInv, TypeOK
  <2>2. /\ Cardinality(In("wokeNE")') >= Cardinality(In("wokeNE"))
        /\ Cardinality(In("wokeNE")) \in Nat /\ Cardinality(In("wokeNE")') \in Nat
        /\ Cardinality(In("wokeNF")') \in Nat
    BY <2>1, CountsMore, Counts DEF In
  <2> QED BY <2>1, <2>2 DEF NoLostWakeup, ChanInv, TypeOK
<1>2. CASE SendClosed(t, v)
  BY <1>2, ClosedSleepless DEF SendClosed, Return, In, ChanInv, TypeOK
<1>3. CASE SendPuts(t, v)
  <2>1. /\ ~closed /\ closed' = closed /\ cap' = cap /\ len' = len + 1 /\ len < cap
        /\ pc[t] \in {"idle", "wokeNF"}
        /\ ReturnAndSignal(t, "waitNE", "wokeNE")
    BY <1>3 DEF SendPuts, Sends
  <2>2. In("waitNF")' \subseteq In("waitNF") /\ In("wokeNF") \ {t} \subseteq In("wokeNF")'
    BY <2>1 DEF ReturnAndSignal, Return, In, ChanInv, TypeOK
  <2>3. Cardinality(In("wokeNF")') >= Cardinality(In("wokeNF")) - 1
    BY <2>2, CountsLess DEF In
  <2>4. In("waitNE")' # {} =>
          /\ In("waitNE") # {}
          /\ Cardinality(In("wokeNE")') >= Cardinality(In("wokeNE")) + 1
    <3>1. CASE In("waitNE") = {}
      BY <2>1, <3>1 DEF ReturnAndSignal, Return, In, ChanInv, TypeOK
    <3>2. CASE In("waitNE") # {}
      <4>1. PICK w \in In("waitNE") : pc' = [pc EXCEPT ![t] = "idle", ![w] = "wokeNE"]
        BY <2>1, <3>2 DEF ReturnAndSignal
      <4>2. w \in In("wokeNE")' \ In("wokeNE") /\ In("wokeNE") \subseteq In("wokeNE")'
        BY <2>1, <4>1 DEF In, ChanInv, TypeOK
      <4> QED BY <3>2, <4>2, CountsMore DEF In
    <3> QED BY <3>1, <3>2
  <2>5. /\ Cardinality(In("wokeNE")) \in Nat /\ Cardinality(In("wokeNE")') \in Nat
        /\ Cardinality(In("wokeNF")) \in Nat /\ Cardinality(In("wokeNF")') \in Nat
    BY Counts DEF In
  <2> QED BY <2>1, <2>2, <2>3, <2>4, <2>5 DEF NoLostWakeup, ChanInv, TypeOK
<1> QED BY <1>1, <1>2, <1>3 DEF Send

LEMMA RecvWakes ==
  ASSUME ChanInv, NoLostWakeup, NEW t \in Threads, NEW w \in BOOLEAN, Recv(t, w)
  PROVE  NoLostWakeup'
<1>1. CASE RecvBlocks(t, w)
  <2>1. /\ In("waitNF")' \subseteq In("waitNF") /\ In("wokeNF") \subseteq In("wokeNF")'
        /\ ~closed' /\ len' = 0 /\ len = 0 /\ cap' = cap
    BY <1>1 DEF RecvBlocks, Receives, In, ring, ChanInv, TypeOK
  <2>2. /\ Cardinality(In("wokeNF")') >= Cardinality(In("wokeNF"))
        /\ Cardinality(In("wokeNF")) \in Nat /\ Cardinality(In("wokeNF")') \in Nat
        /\ Cardinality(In("wokeNE")') \in Nat
    BY <2>1, CountsMore, Counts DEF In
  <2> QED BY <2>1, <2>2 DEF NoLostWakeup, ChanInv, TypeOK
<1>2. CASE RecvClosed(t, w)
  BY <1>2, ClosedSleepless DEF RecvClosed, Return, In, ChanInv, TypeOK
<1>3. CASE RecvTakes(t, w)
  <2>1. /\ closed' = closed /\ cap' = cap /\ len' = len - 1 /\ len > 0
        /\ pc[t] \in {"idle", "wokeNE"}
        /\ ReturnAndSignal(t, "waitNF", "wokeNF")
    BY <1>3 DEF RecvTakes, Receives
  <2>2. In("waitNE")' \subseteq In("waitNE") /\ In("wokeNE") \ {t} \subseteq In("wokeNE")'
    BY <2>1 DEF ReturnAndSignal, Return, In, ChanInv, TypeOK
  <2>3. Cardinality(In("wokeNE")') >= Cardinality(In("wokeNE")) - 1
    BY <2>2, CountsLess DEF In
  <2>4. In("waitNF")' # {} =>
          /\ In("waitNF") # {}
          /\ Cardinality(In("wokeNF")') >= Cardinality(In("wokeNF")) + 1
    <3>1. CASE In("waitNF") = {}
      BY <2>1, <3>1 DEF ReturnAndSignal, Return, In, ChanInv, TypeOK
    <3>2. CASE In("waitNF") # {}
      <4>1. PICK u \in In("waitNF") : pc' = [pc EXCEPT ![t] = "idle", ![u] = "wokeNF"]
        BY <2>1, <3>2 DEF ReturnAndSignal
      <4>2. u \in In("wokeNF")' \ In("wokeNF") /\ In("wokeNF") \subseteq In("wokeNF")'
        BY <2>1, <4>1 DEF In, ChanInv, TypeOK
      <4> QED BY <3>2, <4>2, CountsMore DEF In
    <3> QED BY <3>1, <3>2
  <2>5. /\ Cardinality(In("wokeNE")) \in Nat /\ Cardinality(In("wokeNE")') \in Nat
        /\ Cardinality(In("wokeNF")) \in Nat /\ Cardinality(In("wokeNF")') \in Nat
    BY Counts DEF In
  <2> QED BY <2>1, <2>2, <2>3, <2>4, <2>5 DEF NoLostWakeup, ChanInv, TypeOK
<1> QED BY <1>1, <1>2, <1>3 DEF Recv

LEMMA NoLostWakeupInit == Init => NoLostWakeup
  BY DEF Init, NoLostWakeup, In

LEMMA NoLostWakeupNext == ChanInv /\ NoLostWakeup /\ [Next]_vars => NoLostWakeup'
<1> SUFFICES ASSUME ChanInv, NoLostWakeup, [Next]_vars PROVE NoLostWakeup'
  OBVIOUS
<1>1. ASSUME NEW c \in Requests, Create(c) PROVE NoLostWakeup'
  <2>1. In("waitNE") = {} /\ In("waitNF") = {}
    BY <1>1 DEF Create, In, ChanInv
  <2> QED BY <1>1, <2>1 DEF Create, In, NoLostWakeup
<1>2. CASE Destroy \/ UNCHANGED vars
  BY <1>2, Steady DEF Destroy, vars, ring, In
<1>3. ASSUME NEW t \in Threads, TryRecvEmpty(t) PROVE NoLostWakeup'
  BY <1>3, Steady DEF TryRecvEmpty, ring, In
<1>4. ASSUME NEW t \in Threads, Close(t) PROVE NoLostWakeup'
  BY <1>4 DEF Close, Roused, In, NoLostWakeup, ChanInv, TypeOK
<1>5. ASSUME NEW t \in Threads, Spurious(t) PROVE NoLostWakeup'
  BY <1>5, Steady DEF Spurious, Roused, ring, In, ChanInv, TypeOK
<1> QED BY <1>1, <1>2, <1>3, <1>4, <1>5, SendWakes, RecvWakes DEF Next

\* One signal for each put and each take is enough, for any number of
\* threads, in whatever order they get the mutex.
THEOREM NoLostWakeupHolds == Spec => []NoLostWakeup
  BY ChanInvariant, NoLostWakeupInit, NoLostWakeupNext, PTL DEF Spec

(***************************************************************************)
(* The channel is a bounded queue.  Each step is one of the queue's, or    *)
(* one it does not see: a wakeup, and going back to sleep.                 *)
(***************************************************************************)
limit == IF mem = "live" THEN cap ELSE 0

\* The ring's arithmetic, for indices up to twice the capacity.
At(x) == x % cap

LEMMA AtIs ==
  ASSUME cap \in Nat \ {0}
  PROVE  \A x \in Nat : x < cap + cap => At(x) = IF x < cap THEN x ELSE x - cap
  BY DEF At

LEMMA QueuedIs ==
  ASSUME ChanInv, mem = "live"
  PROVE  /\ Queued = [k \in 1 .. len |-> buf[At(head + k - 1)]]
         /\ Queued \in Seq(Values \cup {0})
         /\ Len(Queued) = len /\ limit = cap
         /\ cap \in Nat \ {0} /\ head \in 0 .. cap - 1 /\ len \in 0 .. cap
<1>1. cap \in Nat \ {0} /\ head \in 0 .. cap - 1 /\ len \in 0 .. cap
  BY DEF ChanInv, TypeOK
<1>2. ASSUME NEW k \in 1 .. len PROVE buf[At(head + k - 1)] \in Values \cup {0}
  <2>1. At(head + k - 1) \in 0 .. cap - 1
    BY <1>1 DEF At
  <2> QED BY <2>1 DEF ChanInv, TypeOK
<1> QED BY <1>1, <1>2 DEF Queued, limit, At

LEMMA PutAppends ==
  ASSUME ChanInv, NEW t \in Threads, NEW v \in Values, SendPuts(t, v)
  PROVE  Queued' = Append(Queued, v)
<1>1. /\ mem = "live" /\ mem' = "live" /\ len < cap /\ len' = len + 1
      /\ head' = head /\ cap' = cap /\ buf' = [buf EXCEPT ![Last] = v]
  BY DEF SendPuts, Sends
<1>2. /\ Queued = [k \in 1 .. len |-> buf[At(head + k - 1)]]
      /\ Queued \in Seq(Values \cup {0}) /\ Len(Queued) = len
      /\ cap \in Nat \ {0} /\ head \in 0 .. cap - 1 /\ len \in 0 .. cap
  BY <1>1, QueuedIs
<1>3. Queued' = [k \in 1 .. len + 1 |-> buf'[At(head + k - 1)]]
  BY <1>1 DEF Queued, At
<1>4. buf \in [0 .. cap - 1 -> Values \cup {0}]
  BY DEF ChanInv, TypeOK
<1>5. Last \in 0 .. cap - 1 /\ buf'[Last] = v
  BY <1>1, <1>2, <1>4 DEF Last, At
<1>6. ASSUME NEW k \in 1 .. len
      PROVE  buf'[At(head + k - 1)] = buf[At(head + k - 1)]
  <2>0. head + k - 1 \in Nat /\ head + k - 1 < cap + cap /\ head + len \in Nat /\ head + len < cap + cap
    BY <1>1, <1>2
  <2>1. At(head + k - 1) = IF head + k - 1 < cap THEN head + k - 1 ELSE head + k - 1 - cap
    BY <1>2, <2>0, AtIs
  <2>2. Last = IF head + len < cap THEN head + len ELSE head + len - cap
    <3>1. Last = At(head + len)
      BY DEF Last, At
    <3> QED BY <1>2, <2>0, <3>1, AtIs
  <2>3. At(head + k - 1) # Last /\ At(head + k - 1) \in 0 .. cap - 1
    BY <1>1, <1>2, <2>1, <2>2
  <2> QED BY <1>1, <1>4, <2>3
<1>7. head + (len + 1) - 1 = head + len
  BY <1>2
<1>8. buf'[At(head + (len + 1) - 1)] = v
  BY <1>5, <1>7 DEF Last, At
<1>9. ASSUME NEW k \in 1 .. len + 1 PROVE Queued'[k] = Append(Queued, v)[k]
  <2>0. Queued'[k] = buf'[At(head + k - 1)]
    BY <1>3
  <2>1. CASE k \in 1 .. len
    <3>1. Append(Queued, v)[k] = Queued[k]
      BY <1>2, <2>1
    <3>2. Queued[k] = buf[At(head + k - 1)]
      BY <1>2, <2>1
    <3> QED BY <1>6, <2>0, <2>1, <3>1, <3>2
  <2>2. CASE k = len + 1
    <3>1. Append(Queued, v)[k] = v
      BY <1>2, <2>2
    <3> QED BY <1>8, <2>0, <2>2, <3>1
  <2> QED BY <1>2, <2>1, <2>2
<1>10. Append(Queued, v) = [k \in 1 .. len + 1 |-> Append(Queued, v)[k]]
  BY <1>2
<1> QED BY <1>3, <1>9, <1>10

LEMMA TakeRemoves ==
  ASSUME ChanInv, NEW t \in Threads, NEW w \in BOOLEAN, RecvTakes(t, w)
  PROVE  Queued # << >> /\ Head(Queued) = buf[head] /\ Queued' = Tail(Queued)
<1>1. /\ mem = "live" /\ mem' = "live" /\ len > 0 /\ len' = len - 1
      /\ head' = At(head + 1) /\ cap' = cap /\ buf' = buf
  BY DEF RecvTakes, Receives, At
<1>2. /\ Queued = [k \in 1 .. len |-> buf[At(head + k - 1)]]
      /\ Queued \in Seq(Values \cup {0}) /\ Len(Queued) = len
      /\ cap \in Nat \ {0} /\ head \in 0 .. cap - 1 /\ len \in 0 .. cap
  BY <1>1, QueuedIs
<1>3. Queued' = [k \in 1 .. len - 1 |-> buf[At(At(head + 1) + k - 1)]]
  BY <1>1 DEF Queued, At
<1>4. At(head) = head
  <2>1. head \in Nat /\ head < cap + cap
    BY <1>2
  <2> QED BY <1>2, <2>1, AtIs
<1>5. Queued # << >> /\ Head(Queued) = buf[head]
  BY <1>1, <1>2, <1>4
<1>6. ASSUME NEW k \in 1 .. len - 1
      PROVE  At(At(head + 1) + k - 1) = At(head + (k + 1) - 1)
  <2>0. head + 1 \in Nat /\ head + 1 < cap + cap /\ head + (k + 1) - 1 = head + k
        /\ head + k \in Nat /\ head + k < cap + cap
    BY <1>1, <1>2
  <2>1. At(head + 1) = IF head + 1 < cap THEN head + 1 ELSE head + 1 - cap
    BY <1>2, <2>0, AtIs
  <2>2. At(head + 1) \in 0 .. cap - 1
    BY <1>2, <2>1
  <2> DEFINE h == At(head + 1)
  <2>3. At(h + k - 1) = IF h + k - 1 < cap THEN h + k - 1 ELSE h + k - 1 - cap
    <3>1. h + k - 1 \in Nat /\ h + k - 1 < cap + cap
      BY <1>1, <1>2, <2>2
    <3> QED BY <1>2, <3>1, AtIs
  <2>4. At(head + (k + 1) - 1) = IF head + k < cap THEN head + k ELSE head + k - cap
    BY <1>2, <2>0, AtIs
  <2> QED BY <1>2, <2>1, <2>3, <2>4
<1>7. Tail(Queued) = [k \in 1 .. len - 1 |-> Queued[k + 1]]
  BY <1>1, <1>2
<1>8. ASSUME NEW k \in 1 .. len - 1
      PROVE  Queued[k + 1] = buf[At(At(head + 1) + k - 1)]
  <2>1. Queued[k + 1] = buf[At(head + (k + 1) - 1)]
    BY <1>2
  <2> QED BY <1>6, <2>1
<1> QED BY <1>3, <1>5, <1>7, <1>8

LEMMA SignalBlocks ==
  ASSUME ChanInv, NEW t \in Threads, NEW s, NEW woken,
         <<s, woken>> \in {<<"waitNE", "wokeNE">>, <<"waitNF", "wokeNF">>},
         pc[t] # s, ReturnAndSignal(t, s, woken)
  PROVE  BlockedIn' = [BlockedIn EXCEPT ![t] = "no"]
<1>1. pc \in [Threads -> States] /\ In(s) \subseteq Threads
  BY DEF ChanInv, TypeOK, In
<1>2. CASE Return(t)
  BY <1>1, <1>2 DEF Return, BlockedIn, States
<1>3. ASSUME NEW w \in In(s), pc' = [pc EXCEPT ![t] = "idle", ![w] = woken]
      PROVE  BlockedIn' = [BlockedIn EXCEPT ![t] = "no"]
  <2>1. w \in Threads /\ w # t /\ pc[w] = s
    BY <1>3 DEF In
  <2>2. pc' = [u \in Threads |-> IF u = t THEN "idle" ELSE IF u = w THEN woken ELSE pc[u]]
    BY <1>1, <1>3, <2>1
  <2> QED BY <1>1, <2>1, <2>2 DEF BlockedIn, States
<1> QED BY <1>2, <1>3 DEF ReturnAndSignal

LEMMA ReturnBlocks ==
  ASSUME ChanInv, NEW t \in Threads, Return(t)
  PROVE  BlockedIn' = [BlockedIn EXCEPT ![t] = "no"]
  BY DEF ChanInv, TypeOK, Return, BlockedIn, States

fifoVars == <<limit, Queued, closed, BlockedIn, ret>>

LEMMA FifoUnchanged ==
  ASSUME UNCHANGED <<mem, buf, cap, len, head>> PROVE limit' = limit /\ Queued' = Queued
  BY DEF limit, Queued

LEMMA SendIsPut ==
  ASSUME ChanInv, NEW t \in Threads, NEW v \in Values, Send(t, v)
  PROVE  [Fifo!Next]_fifoVars
<1>1. CASE SendBlocks(t, v)
  <2>1. /\ mem = "live" /\ ~closed /\ len >= cap /\ pc[t] \in {"idle", "wokeNF"}
        /\ pc' = [pc EXCEPT ![t] = "waitNF"]
        /\ UNCHANGED <<mem, buf, cap, len, head, closed, ret>>
    BY <1>1 DEF SendBlocks, Sends, ring
  <2>2. limit' = limit /\ Queued' = Queued /\ Len(Queued) = limit
    BY <2>1, FifoUnchanged, QueuedIs
  <2>3. BlockedIn' = [BlockedIn EXCEPT ![t] = "put"] /\ BlockedIn[t] \in {"no", "put"}
    BY <2>1 DEF ChanInv, TypeOK, BlockedIn, States
  <2>4. CASE BlockedIn[t] = "no"
    <3>1. Fifo!BlockPut(t)
      BY <2>1, <2>2, <2>3, <2>4 DEF Fifo!BlockPut, limit
    <3> QED BY <3>1 DEF Fifo!Next
  <2>5. CASE BlockedIn[t] = "put"
    BY <2>1, <2>2, <2>3, <2>5 DEF fifoVars, BlockedIn
  <2> QED BY <2>3, <2>4, <2>5
<1>2. CASE SendClosed(t, v)
  <2>1. /\ closed /\ pc[t] \in {"idle", "wokeNF"} /\ Return(t) /\ ret' = <<t, "closed", 0, FALSE>>
        /\ UNCHANGED <<mem, buf, cap, len, head, closed>>
    BY <1>2 DEF SendClosed, Sends, ring
  <2>2. BlockedIn[t] \in {"no", "put"}
    BY <2>1 DEF BlockedIn
  <2>3. Fifo!Refuse(t)
    BY <2>1, <2>2, FifoUnchanged, ReturnBlocks DEF Fifo!Refuse, Fifo!Return, limit
  <2> QED BY <2>3 DEF Fifo!Next
<1>3. CASE SendPuts(t, v)
  <2>1. /\ mem = "live" /\ ~closed /\ len < cap /\ pc[t] \in {"idle", "wokeNF"}
        /\ ReturnAndSignal(t, "waitNE", "wokeNE") /\ ret' = <<t, "ok", 0, FALSE>>
        /\ UNCHANGED <<mem, cap, closed>>
    BY <1>3 DEF SendPuts, Sends
  <2>2. Queued' = Append(Queued, v) /\ Len(Queued) < limit /\ limit' = limit
    BY <1>3, <2>1, PutAppends, QueuedIs DEF limit
  <2>3. BlockedIn' = [BlockedIn EXCEPT ![t] = "no"] /\ BlockedIn[t] # "take"
    BY <2>1, SignalBlocks DEF BlockedIn
  <2>4. Fifo!Put(t, v)
    BY <2>1, <2>2, <2>3 DEF Fifo!Put, Fifo!Return, limit
  <2> QED BY <2>4 DEF Fifo!Next
<1> QED BY <1>1, <1>2, <1>3 DEF Send

LEMMA RecvIsTake ==
  ASSUME ChanInv, NEW t \in Threads, NEW w \in BOOLEAN, Recv(t, w)
  PROVE  [Fifo!Next]_fifoVars
<1>1. CASE RecvBlocks(t, w)
  <2>1. /\ mem = "live" /\ ~closed /\ len = 0 /\ pc[t] \in {"idle", "wokeNE"}
        /\ pc' = [pc EXCEPT ![t] = "waitNE"]
        /\ UNCHANGED <<mem, buf, cap, len, head, closed, ret>>
    BY <1>1 DEF RecvBlocks, Receives, ring
  <2>2. limit' = limit /\ Queued' = Queued /\ Queued = << >>
    BY <2>1, FifoUnchanged, QueuedIs
  <2>3. BlockedIn' = [BlockedIn EXCEPT ![t] = "take"] /\ BlockedIn[t] \in {"no", "take"}
    BY <2>1 DEF ChanInv, TypeOK, BlockedIn, States
  <2>4. CASE BlockedIn[t] = "no"
    <3>1. Fifo!BlockTake(t)
      BY <2>1, <2>2, <2>3, <2>4 DEF Fifo!BlockTake, limit
    <3> QED BY <3>1 DEF Fifo!Next
  <2>5. CASE BlockedIn[t] = "take"
    BY <2>1, <2>2, <2>3, <2>5 DEF fifoVars, BlockedIn
  <2> QED BY <2>3, <2>4, <2>5
<1>2. CASE RecvClosed(t, w)
  <2>1. /\ mem = "live" /\ closed /\ len = 0 /\ Return(t) /\ ret' = <<t, "closed", 0, FALSE>>
        /\ UNCHANGED <<mem, buf, cap, len, head, closed>>
    BY <1>2 DEF RecvClosed, Receives, ring
  <2>2. Queued = << >>
    BY <2>1, QueuedIs
  <2>3. Fifo!Refuse(t)
    BY <2>1, <2>2, FifoUnchanged, ReturnBlocks DEF Fifo!Refuse, Fifo!Return, limit
  <2> QED BY <2>3 DEF Fifo!Next
<1>3. CASE RecvTakes(t, w)
  <2>1. /\ mem = "live" /\ pc[t] \in {"idle", "wokeNE"}
        /\ ReturnAndSignal(t, "waitNF", "wokeNF")
        /\ ret' = <<t, "ok", IF w THEN buf[head] ELSE Narrow(buf[head]), w>>
        /\ UNCHANGED <<mem, cap, closed>>
    BY <1>3 DEF RecvTakes, Receives
  <2>2. Queued # << >> /\ Head(Queued) = buf[head] /\ Queued' = Tail(Queued) /\ limit' = limit
    BY <1>3, <2>1, TakeRemoves DEF limit
  <2>3. BlockedIn' = [BlockedIn EXCEPT ![t] = "no"] /\ BlockedIn[t] # "put"
    BY <2>1, SignalBlocks DEF BlockedIn
  <2>4. Fifo!Take(t)
    BY <2>1, <2>2, <2>3 DEF Fifo!Take, Fifo!Return, limit
  <2> QED BY <2>4 DEF Fifo!Next
<1> QED BY <1>1, <1>2, <1>3 DEF Recv

LEMMA FifoInit == Init => Fifo!Init
  BY DEF Init, Fifo!Init, Queued, BlockedIn

LEMMA FifoNext == ChanInv /\ [Next]_vars => [Fifo!Next]_fifoVars
<1> SUFFICES ASSUME ChanInv, [Next]_vars PROVE [Fifo!Next]_fifoVars
  OBVIOUS
<1>1. ASSUME NEW c \in Requests, Create(c) PROVE Fifo!Make
  <2>1. Clamped(c) \in Nat \ {0}
    BY ChannelAssumption DEF Clamped
  <2>2. Queued = << >> /\ Queued' = << >>
    BY <1>1 DEF Create, Queued, ChanInv
  <2> QED BY <1>1, <2>1, <2>2 DEF Create, Fifo!Make, BlockedIn
<1>2. CASE Destroy
  <2>1. cap > 0 /\ \A t \in Threads : BlockedIn[t] = "no"
    BY <1>2 DEF Destroy, In, BlockedIn, ChanInv, TypeOK
  <2> QED BY <1>2, <2>1 DEF Destroy, Fifo!Discard, Fifo!Next, Queued, BlockedIn, ring
<1>3. ASSUME NEW t \in Threads, TryRecvEmpty(t) PROVE Fifo!Empty(t)
  <2>1. Queued = << >> /\ Queued' = Queued /\ limit' = limit
    BY <1>3, QueuedIs, FifoUnchanged DEF TryRecvEmpty, ring
  <2>2. BlockedIn' = [BlockedIn EXCEPT ![t] = "no"] /\ BlockedIn[t] = "no"
    BY <1>3 DEF TryRecvEmpty, BlockedIn
  <2> QED BY <1>3, <2>1, <2>2 DEF TryRecvEmpty, Fifo!Empty, Fifo!Return, limit
<1>4. ASSUME NEW t \in Threads, Close(t) PROVE Fifo!Shut(t)
  <2>1. Queued' = Queued /\ limit' = limit /\ limit > 0
    BY <1>4, QueuedIs, FifoUnchanged DEF Close, ring
  <2>2. BlockedIn' = [BlockedIn EXCEPT ![t] = "no"] /\ BlockedIn[t] = "no"
    BY <1>4 DEF Close, BlockedIn, Roused, ChanInv, TypeOK, States
  <2> QED BY <1>4, <2>1, <2>2 DEF Close, Fifo!Shut, Fifo!Return, limit
<1>5. ASSUME NEW t \in Threads, Spurious(t) PROVE UNCHANGED fifoVars
  <2>1. Queued' = Queued /\ limit' = limit
    BY <1>5, FifoUnchanged DEF Spurious, ring
  <2>2. BlockedIn' = BlockedIn
    BY <1>5 DEF Spurious, BlockedIn, Roused, ChanInv, TypeOK, States
  <2> QED BY <1>5, <2>1, <2>2 DEF Spurious, fifoVars
<1>6. CASE UNCHANGED vars
  BY <1>6 DEF vars, fifoVars, limit, Queued, BlockedIn
<1> QED BY <1>1, <1>2, <1>3, <1>4, <1>5, <1>6, SendIsPut, RecvIsTake DEF Next, Fifo!Next

\* The ring buffer, its mutex and its two condition variables implement the
\* abstract queue.
THEOREM ChannelImplementsFifo == Spec => ImplementsFifo
<1>1. ChanInv /\ [Next]_vars => [Fifo!Next]_(Fifo!vars)
  BY FifoNext DEF fifoVars, Fifo!vars, limit
<1>2. Spec => Fifo!Spec
  BY <1>1, ChanInvariant, FifoInit, PTL DEF Spec, Fifo!Spec
<1> QED BY <1>2 DEF ImplementsFifo
=============================================================================
