---------------------------- MODULE SelectProofs ----------------------------
(***************************************************************************)
(* Theorems about Select, for every capacity, timeout and number of puts.  *)
(***************************************************************************)
EXTENDS Select, TLAPS

Steps == {"test", "pollA", "pollB", "sleep", "returned"}

(***************************************************************************)
(* Values.  No queue holds a value twice, the queues share none, and the   *)
(* caller has none before the call has returned.                           *)
(***************************************************************************)
Distinct(s) == \A i, j \in 1 .. Len(s) : s[i] = s[j] => i = j

ValueInv ==
  /\ q \in [Chans -> Seq(Nat)] /\ given \subseteq Chans
  /\ puts \in Nat
  /\ \A c \in Chans : Distinct(q[c])
  /\ Contents(q["a"]) \cap Contents(q["b"]) = {}
  /\ pc # "returned" => result.st # "ok"
  /\ EveryValueOnce

LEMMA AppendContents ==
  ASSUME NEW s \in Seq(Nat), NEW v \in Nat, v \notin Contents(s), Distinct(s)
  PROVE  /\ Contents(Append(s, v)) = Contents(s) \cup {v}
         /\ Distinct(Append(s, v)) /\ Append(s, v) \in Seq(Nat)
  BY DEF Contents, Distinct

LEMMA TailContents ==
  ASSUME NEW s \in Seq(Nat), s # << >>, Distinct(s)
  PROVE  /\ Contents(Tail(s)) = Contents(s) \ {Head(s)}
         /\ Head(s) \in Contents(s)
         /\ Distinct(Tail(s)) /\ Tail(s) \in Seq(Nat)
<1>1. /\ Len(s) \in Nat /\ Len(s) > 0 /\ Head(s) = s[1]
      /\ Tail(s) \in Seq(Nat) /\ Len(Tail(s)) = Len(s) - 1
      /\ \A i \in 1 .. Len(s) - 1 : Tail(s)[i] = s[i + 1]
  OBVIOUS
<1>2. Head(s) \in Contents(s) /\ Distinct(Tail(s))
  BY <1>1 DEF Contents, Distinct
<1>3. ASSUME NEW v \in Contents(Tail(s)) PROVE v \in Contents(s) \ {Head(s)}
  <2>1. PICK i \in 1 .. Len(s) - 1 : v = s[i + 1]
    BY <1>1 DEF Contents
  <2> QED BY <1>1, <2>1 DEF Contents, Distinct
<1>4. ASSUME NEW v \in Contents(s), v # Head(s) PROVE v \in Contents(Tail(s))
  <2>1. PICK i \in 1 .. Len(s) : v = s[i]
    BY DEF Contents
  <2>2. i - 1 \in 1 .. Len(s) - 1 /\ Tail(s)[i - 1] = s[i]
    BY <1>1, <1>4, <2>1
  <2> QED BY <1>1, <2>1, <2>2 DEF Contents
<1> QED BY <1>1, <1>2, <1>3, <1>4

LEMMA ValueInvInit == Init => ValueInv
<1> SUFFICES ASSUME Init PROVE ValueInv
  OBVIOUS
<1>1. \A c \in Chans : q[c] = << >>
  BY DEF Init
<1>2. Contents(<< >>) = {} /\ Distinct(<< >>)
  BY DEF Contents, Distinct
<1>3. 1 .. puts = {} /\ taken = {} /\ got = {} /\ result.st = "none"
  BY DEF Init, Result
<1>4. Contents(q["a"]) = {} /\ Contents(q["b"]) = {}
  BY <1>1, <1>2 DEF Chans
<1> QED BY <1>1, <1>2, <1>3, <1>4 DEF Init, ValueInv, EveryValueOnce

\* Where a value is: in a queue, with another thread or with the caller.
LEMMA PutKeeps ==
  ASSUME ValueInv, NEW c \in Chans, Put(c)
  PROVE  ValueInv'
<1>1. /\ puts' = puts + 1 /\ q' = [q EXCEPT ![c] = Append(@, puts')]
      /\ UNCHANGED <<taken, result, pc, given, got>>
  BY DEF Put
<1>2. puts' \in Nat /\ puts' \notin 1 .. puts /\ 1 .. puts' = (1 .. puts) \cup {puts'}
  BY <1>1 DEF ValueInv
<1>3. \A d \in Chans : q[d] \in Seq(Nat) /\ Distinct(q[d]) /\ puts' \notin Contents(q[d])
  BY <1>2 DEF ValueInv, EveryValueOnce, Chans
<1>4. /\ q' \in [Chans -> Seq(Nat)]
      /\ Contents(q'[c]) = Contents(q[c]) \cup {puts'}
      /\ Distinct(q'[c])
      /\ \A d \in Chans \ {c} : q'[d] = q[d]
  BY <1>1, <1>2, <1>3, AppendContents DEF ValueInv
<1>5. puts' \notin taken \cup got /\ got' = got
  BY <1>1, <1>2 DEF ValueInv, EveryValueOnce
<1> DEFINE all == 1 .. puts
<1>6. /\ Contents(q["a"]) \cup Contents(q["b"]) \cup taken \cup got = all
      /\ 1 .. puts' = all \cup {puts'}
  BY <1>2 DEF ValueInv, EveryValueOnce
<1> HIDE DEF all
<1>7. /\ Contents(q["a"])' \cup Contents(q["b"])' = Contents(q["a"]) \cup Contents(q["b"]) \cup {puts'}
      /\ Contents(q["a"])' \cap Contents(q["b"])' = {}
  BY <1>3, <1>4 DEF ValueInv, Chans
<1>8. EveryValueOnce'
  BY <1>1, <1>5, <1>6, <1>7 DEF ValueInv, EveryValueOnce
<1> QED BY <1>1, <1>2, <1>4, <1>5, <1>7, <1>8 DEF ValueInv, Chans

LEMMA TakeKeeps ==
  ASSUME ValueInv, NEW c \in Chans, Take(c)
  PROVE  ValueInv'
<1>1. /\ q[c] # << >> /\ taken' = taken \cup {Head(q[c])} /\ q' = [q EXCEPT ![c] = Tail(@)]
      /\ UNCHANGED <<puts, result, pc, given, got>>
  BY DEF Take
<1>2. /\ q' \in [Chans -> Seq(Nat)]
      /\ Contents(q'[c]) = Contents(q[c]) \ {Head(q[c])} /\ Head(q[c]) \in Contents(q[c])
      /\ Distinct(q'[c])
      /\ \A d \in Chans \ {c} : q'[d] = q[d]
  BY <1>1, TailContents DEF ValueInv
<1> QED BY <1>1, <1>2 DEF ValueInv, EveryValueOnce, Chans

LEMMA PollKeeps ==
  ASSUME ValueInv, NEW c \in Chans, NEW here \in {"pollA", "pollB"}, NEW next \in Steps,
         next # "returned", Poll(c, here, next)
  PROVE  ValueInv'
<1>1. pc = here /\ UNCHANGED <<puts, taken, given>> /\ got = {}
  BY DEF Poll, ValueInv, EveryValueOnce
<1>2. CASE c \in given /\ q[c] # << >>
  <2>1. /\ result'.st = "ok" /\ result'.val = Narrow(Head(q[c]))
        /\ q' = [q EXCEPT ![c] = Tail(@)] /\ pc' = "returned"
        /\ got' = {Head(q[c])}
    BY <1>1, <1>2 DEF Poll, Delivers, Result
  <2>2. /\ q' \in [Chans -> Seq(Nat)]
        /\ Contents(q'[c]) = Contents(q[c]) \ {Head(q[c])} /\ Head(q[c]) \in Contents(q[c])
        /\ Distinct(q'[c])
        /\ \A d \in Chans \ {c} : q'[d] = q[d]
    BY <1>2, <2>1, TailContents DEF ValueInv
  <2> QED BY <1>1, <2>1, <2>2 DEF ValueInv, EveryValueOnce, Chans
<1>3. CASE ~(c \in given /\ q[c] # << >>)
  BY <1>1, <1>3 DEF Poll, ValueInv, EveryValueOnce
<1> QED BY <1>2, <1>3

LEMMA ValueInvNext == ValueInv /\ [Next]_vars => ValueInv'
<1> SUFFICES ASSUME ValueInv, [Next]_vars PROVE ValueInv'
  OBVIOUS
<1>1. CASE UNCHANGED vars
  BY <1>1 DEF vars, ValueInv, EveryValueOnce
<1>2. ASSUME NEW c, Close(c) PROVE ValueInv'
  BY <1>2 DEF Close, ValueInv, EveryValueOnce
<1>3. CASE Test \/ Sleep
  <2>1. UNCHANGED <<q, puts, taken, given, got>> /\ result.st # "ok" /\ result'.st # "ok"
    BY <1>3 DEF Test, Sleep, chans, ValueInv, Result
  <2> QED BY <2>1 DEF ValueInv, EveryValueOnce
<1>4. CASE PollA
  BY <1>4, PollKeeps DEF PollA, Chans, Steps
<1>5. CASE PollB
  BY <1>5, PollKeeps DEF PollB, Chans, Steps
<1>6. ASSUME NEW c \in given, Put(c) \/ Take(c) PROVE ValueInv'
  <2>1. c \in Chans
    BY DEF ValueInv
  <2> QED BY <1>6, <2>1, PutKeeps, TakeKeeps
<1> QED BY <1>1, <1>2, <1>3, <1>4, <1>5, <1>6 DEF Next, SelectStep

\* Every value that was put is in one place, whatever the interleaving.
THEOREM EveryValueOnceHolds == Spec => []EveryValueOnce
<1>1. ValueInv => EveryValueOnce
  BY DEF ValueInv
<1> QED BY <1>1, ValueInvInit, ValueInvNext, PTL DEF Spec

(***************************************************************************)
(* The last poll.  A channel counted as steady is not empty, so that a poll  *)
(* that finds nothing is of a channel that is not counted: none is left    *)
(* counted when a round of polls has ended.                                *)
(***************************************************************************)
StrandInv ==
  /\ pc \in Steps
  /\ waited \in Nat /\ timeout \in Nat
  /\ pc # "returned" => result.st = "none" /\ \A c \in steady : c \in given /\ q[c] # << >>
  /\ pc = "pollB" => "a" \notin steady
  /\ pc \in {"sleep", "test"} => steady = {}
  /\ steady \subseteq Chans
  /\ q \in [Chans -> Seq(Nat)] /\ puts \in Nat /\ given \subseteq Chans
  /\ NoStrandedValue

LEMMA StrandInvInit == Init => StrandInv
<1> SUFFICES ASSUME Init PROVE StrandInv
  OBVIOUS
<1>1. timeout \in Nat
  BY SelectAssumption DEF Init
<1>2. /\ pc = "test" /\ waited = 0 /\ steady = {} /\ result.st = "none"
      /\ puts = 0 /\ q = [c \in Chans |-> << >>] /\ given \subseteq Chans
  BY DEF Init, Result
<1> QED BY <1>1, <1>2 DEF StrandInv, Steps, NoStrandedValue

LEMMA OthersStrandNobody ==
  ASSUME StrandInv, NEW c \in given, Put(c) \/ Take(c) \/ Close(c)
  PROVE  StrandInv'
<1>1. c \in Chans
  BY DEF StrandInv
<1>2. CASE Put(c)
  <2>1. q' = [q EXCEPT ![c] = Append(@, puts')] /\ puts' = puts + 1
        /\ UNCHANGED <<pc, waited, timeout, result, steady, given>>
    BY <1>2 DEF Put
  <2>2. q' \in [Chans -> Seq(Nat)] /\ \A d \in Chans : q[d] # << >> => q'[d] # << >>
    BY <1>1, <2>1 DEF StrandInv
  <2> QED BY <2>1, <2>2 DEF StrandInv, NoStrandedValue
<1>3. CASE Take(c)
  <2>1. q[c] # << >> /\ q' = [q EXCEPT ![c] = Tail(@)]
        /\ steady' = (IF q'[c] = << >> THEN steady \ {c} ELSE steady)
        /\ UNCHANGED <<pc, waited, timeout, result, puts, given>>
    BY <1>3 DEF Take
  <2>2. /\ q' \in [Chans -> Seq(Nat)] /\ \A d \in Chans \ {c} : q'[d] = q[d]
        /\ steady' \subseteq steady /\ \A d \in steady' : d # c \/ q'[c] # << >>
    BY <1>1, <2>1 DEF StrandInv
  <2> QED BY <2>1, <2>2 DEF StrandInv, NoStrandedValue
<1>4. CASE Close(c)
  BY <1>4 DEF Close, StrandInv, NoStrandedValue
<1> QED BY <1>2, <1>3, <1>4

LEMMA PollStrandsNobody ==
  ASSUME StrandInv, PollA \/ PollB
  PROVE  StrandInv'
<1>1. ASSUME NEW c \in Chans, NEW here, NEW next \in Steps, Poll(c, here, next),
             c \in given /\ q[c] # << >>
      PROVE  StrandInv'
  <2>1. /\ pc' = "returned" /\ result'.st = "ok" /\ q' = [q EXCEPT ![c] = Tail(@)]
        /\ UNCHANGED <<waited, timeout, steady, puts, given>>
    BY <1>1 DEF Poll, Delivers, Result
  <2>2. q' \in [Chans -> Seq(Nat)]
    BY <1>1, <2>1 DEF StrandInv
  <2> QED BY <2>1, <2>2 DEF StrandInv, NoStrandedValue, Steps
<1>2. ASSUME PollA, ~("a" \in given /\ q["a"] # << >>) PROVE StrandInv'
  BY <1>2 DEF PollA, Poll, StrandInv, NoStrandedValue, Steps
<1>3. ASSUME PollB, ~("b" \in given /\ q["b"] # << >>) PROVE StrandInv'
  BY <1>3 DEF PollB, Poll, StrandInv, NoStrandedValue, Steps, Chans
<1> QED BY <1>1, <1>2, <1>3 DEF PollA, PollB, Chans, Steps

LEMMA TestStrandsNobody ==
  ASSUME StrandInv, Test \/ Sleep
  PROVE  StrandInv'
<1>1. CASE Test
  <2>1. /\ pc = "test" /\ steady' = IF waited <= timeout THEN {c \in given : q[c] # << >>} ELSE steady
        /\ UNCHANGED <<q, given, puts, waited, timeout>>
    BY <1>1 DEF Test, chans
  <2>2. CASE waited <= timeout
    BY <1>1, <2>1, <2>2 DEF Test, StrandInv, NoStrandedValue, Steps
  <2>3. CASE ~(waited <= timeout)
    <3>1. pc' = "returned" /\ steady' = {}
      BY <1>1, <2>1, <2>3 DEF Test, StrandInv
    <3> QED BY <2>1, <3>1 DEF StrandInv, NoStrandedValue, Steps
  <2> QED BY <2>2, <2>3
<1>2. CASE Sleep
  <2>1. /\ steady = {} /\ steady' = {} /\ pc' \in {"returned", "test"}
        /\ pc' = "test" => result' = result
        /\ UNCHANGED <<q, given, puts, timeout>>
    BY <1>2 DEF Sleep, chans, StrandInv
  <2>2. waited' \in Nat
    BY <1>2, SelectAssumption DEF Sleep, StrandInv
  <2> QED BY <1>2, <2>1, <2>2 DEF Sleep, StrandInv, NoStrandedValue, Steps
<1> QED BY <1>1, <1>2

LEMMA StrandInvNext == StrandInv /\ [Next]_vars => StrandInv'
<1> SUFFICES ASSUME StrandInv, [Next]_vars PROVE StrandInv'
  OBVIOUS
<1>1. CASE UNCHANGED vars
  BY <1>1 DEF vars, StrandInv, NoStrandedValue
<1> QED
  BY <1>1, OthersStrandNobody, PollStrandsNobody, TestStrandsNobody DEF Next, SelectStep

\* A timeout is never answered past a channel that held a value throughout the
\* last round of polls.
THEOREM NoStrandedValueHolds == Spec => []NoStrandedValue
<1>1. StrandInv => NoStrandedValue
  BY DEF StrandInv
<1> QED BY <1>1, StrandInvInit, StrandInvNext, PTL DEF Spec
=============================================================================
