---------------------------- MODULE BridgeProofs ----------------------------
(***************************************************************************)
(* Theorems about AsyncBridge, for every number of slots, capacity and set *)
(* of values.  The bridge only calls its nursery and its channel, so what  *)
(* NurseryProofs and ChannelProofs prove holds inside it.                  *)
(***************************************************************************)
EXTENDS AsyncBridge, FiniteSetTheorems, TLAPS

\* NurseryProofs is about the supervisor and the poller too, which the bridge
\* has not got: their variables stand still.
P == INSTANCE NurseryProofs WITH
  Sizes <- {HardMax}, Kinds <- {"finite"}, Platform <- "linux",
  JoinMayFail <- FALSE, OutsideCallers <- FALSE,
  Policies <- {}, policy <- 0, failed <- FALSE, verdict <- "none",
  polling <- FALSE, at <- 0, count <- 0, asked <- 0

Threads == Tasks \cup {Main}

Q == INSTANCE ChannelProofs WITH
  Threads <- Threads, Requests <- {ChanCap}, Values <- TaskVals,
  mem <- cmem, cap <- ccap, pc <- cpc

\* The assumptions of the two modules hold of what the bridge passes.
LEMMA NurseryPremises ==
  /\ HardMax \in Nat \ {0}
  /\ {HardMax} \subseteq Int
  /\ {"finite"} \subseteq {"finite", "poll", "stuck"}
  /\ "linux" \in {"linux", "posix", "windows"}
  /\ FALSE \in BOOLEAN
  /\ {} \subseteq Int
  BY BridgeAssumption

LEMMA ChannelPremises ==
  /\ Q!IsFiniteSet(Threads)
  /\ {ChanCap} \subseteq Int
  /\ TaskVals \subseteq Int
  /\ Half \in Nat \ {0}
<1>1. IsFiniteSet(0 .. HardMax - 1)
  BY BridgeAssumption, FS_Interval
<1>2. IsFiniteSet(Threads)
  BY <1>1, FS_AddElement DEF Threads, Tasks, Main
<1>3. Q!IsFiniteSet(Threads)
  BY <1>2 DEF IsFiniteSet, Q!IsFiniteSet
<1> QED BY <1>3, BridgeAssumption

LEMMA SoundBridge == P!SoundHost
  BY DEF P!SoundHost

(***************************************************************************)
(* The calls of the bridge are calls of the nursery and of the channel.    *)
(***************************************************************************)
LEMMA NurseryNext == [N!Next]_nurVars => [P!Next]_(P!vars)
<1>1. UNCHANGED nurVars => UNCHANGED P!vars
  BY DEF P!vars, nurVars
<1>2. ASSUME NEW m \in {HardMax}, N!Create(m) PROVE P!Create(m)
  BY <1>2 DEF N!Create, P!Create, N!tasks, P!tasks, N!owner, P!owner
<1>3. N!CreateFails => P!CreateFails
  BY DEF N!CreateFails, P!CreateFails, N!handle, P!handle, N!tasks, P!tasks, N!owner, P!owner
<1>4. N!MayCall <=> P!MayCall
  BY DEF N!MayCall, P!MayCall, N!Slots, P!Slots
<1>5. N!CanSpawn <=> P!CanSpawn
  BY DEF N!CanSpawn, P!CanSpawn
<1>6. ASSUME NEW k \in {"finite"}, N!Spawn(k) PROVE P!Spawn(k)
  BY <1>4, <1>5, <1>6 DEF N!Spawn, P!Spawn, N!handle, P!handle, N!owner, P!owner
<1>7. N!SpawnFails => P!SpawnFails
  BY <1>4, <1>5 DEF N!SpawnFails, P!SpawnFails, N!handle, P!handle, N!owner, P!owner
<1>8. N!SpawnRefused => P!SpawnRefused
  BY <1>4 DEF N!SpawnRefused, P!SpawnRefused, N!handle, P!handle, N!tasks, P!tasks, N!owner, P!owner
<1>9. N!RequestCancel => P!RequestCancel
  BY <1>4 DEF N!RequestCancel, P!RequestCancel, N!handle, P!handle, N!tasks, P!tasks, N!owner, P!owner
<1>10. N!OwnerCall => P!OwnerCall
  BY DEF N!OwnerCall, P!OwnerCall, N!Join, P!Join, N!Shutdown, P!Shutdown, N!ShutdownDead, P!ShutdownDead,
         N!DestroyDead, P!DestroyDead, N!handle, P!handle, N!tasks, P!tasks, N!owner, P!owner
<1>11. \A k : N!Pending(k) = P!Pending(k)
  BY DEF N!Pending, P!Pending, N!Slots, P!Slots
<1>12. \A r : N!Return(r) <=> P!Return(r)
  BY DEF N!Return, P!Return
<1>13. \A k : N!Scan(k) <=> P!Scan(k)
  BY <1>11, <1>12 DEF N!Scan, P!Scan
<1>14. N!Enter => P!Enter
  BY <1>12, <1>13 DEF N!Enter, P!Enter, N!handle, P!handle, N!tasks, P!tasks
<1>15. N!Reap => P!Reap
  BY DEF N!Reap, P!Reap, N!handle, P!handle
<1>16. N!JoinTimesOut \/ N!JoinFails => P!JoinTimesOut \/ P!JoinFails
  BY <1>12 DEF N!JoinTimesOut, P!JoinTimesOut, N!JoinFails, P!JoinFails, N!handle, P!handle, N!tasks, P!tasks
<1>17. N!Relock => P!Relock
  BY <1>13 DEF N!Relock, P!Relock, N!handle, P!handle
<1>18. N!MarkDead \/ N!Free => P!MarkDead \/ P!Free
  BY DEF N!MarkDead, P!MarkDead, N!Free, P!Free, N!tasks, P!tasks
<1>19. ASSUME NEW i, N!TaskStep(i) PROVE P!TaskStep(i)
  BY <1>19 DEF N!TaskStep, P!TaskStep, N!TaskStart, P!TaskStart, N!TaskReturn, P!TaskReturn,
     N!BodyReturns, P!BodyReturns, N!handle, P!handle, N!owner, P!owner
<1>20. N!Slots = P!Slots
  BY DEF N!Slots, P!Slots
<1>21. N!AnyCall => P!AnyCall
  BY <1>6, <1>7, <1>8, <1>9 DEF N!AnyCall, P!AnyCall
<1>22. N!OwnerStep \/ N!JoinFails => P!OwnerStep \/ P!JoinFails
  BY <1>14, <1>15, <1>16, <1>17, <1>18 DEF N!OwnerStep, P!OwnerStep
<1>23. N!Next => P!Next
  BY <1>2, <1>3, <1>10, <1>19, <1>20, <1>21, <1>22 DEF N!Next, P!Next
<1> QED BY <1>1, <1>23

LEMMA ChannelNext == [C!Next]_chanVars => [Q!Next]_(Q!vars)
<1>1. UNCHANGED chanVars => UNCHANGED Q!vars
  BY DEF Q!vars, chanVars
<1> USE DEF C!ring, Q!ring, Threads
<1>2. ASSUME NEW c \in {ChanCap}, C!Create(c) PROVE Q!Create(c)
  BY <1>2 DEF C!Create, Q!Create, C!Clamped, Q!Clamped
<1>3. \A s : C!In(s) = Q!In(s)
  BY DEF C!In, Q!In
<1>4. C!Destroy => Q!Destroy
  BY <1>3 DEF C!Destroy, Q!Destroy
<1>5. \A t : C!Return(t) <=> Q!Return(t)
  BY DEF C!Return, Q!Return
<1>6. \A t, s, w : C!ReturnAndSignal(t, s, w) <=> Q!ReturnAndSignal(t, s, w)
  BY <1>3, <1>5 DEF C!ReturnAndSignal, Q!ReturnAndSignal
<1>7. ASSUME NEW t, NEW v, C!Send(t, v) PROVE Q!Send(t, v)
  BY <1>5, <1>6, <1>7 DEF C!Send, Q!Send, C!SendBlocks, Q!SendBlocks, C!SendClosed, Q!SendClosed,
     C!SendPuts, Q!SendPuts, C!Sends, Q!Sends, C!Last, Q!Last
<1>8. ASSUME NEW t, NEW w, C!Recv(t, w) PROVE Q!Recv(t, w)
  BY <1>5, <1>6, <1>8 DEF C!Recv, Q!Recv, C!RecvBlocks, Q!RecvBlocks, C!RecvClosed, Q!RecvClosed,
     C!RecvTakes, Q!RecvTakes, C!Receives, Q!Receives, C!Narrow, Q!Narrow
<1>9. \A s : C!Roused(s) = Q!Roused(s)
  BY DEF C!Roused, Q!Roused
<1>10. ASSUME NEW t, C!Close(t) PROVE Q!Close(t)
  BY <1>9, <1>10 DEF C!Close, Q!Close
<1>11. ASSUME NEW t, C!Spurious(t) PROVE Q!Spurious(t)
  BY <1>9, <1>11 DEF C!Spurious, Q!Spurious
<1>12. ASSUME NEW t, C!TryRecvEmpty(t) PROVE Q!TryRecvEmpty(t)
  BY <1>12 DEF C!TryRecvEmpty, Q!TryRecvEmpty
<1>13. C!Next => Q!Next
  BY <1>2, <1>4, <1>7, <1>8, <1>10, <1>11, <1>12 DEF C!Next, Q!Next
<1> QED BY <1>1, <1>13

LEMMA NurserySteps == [Next]_vars => [N!Next]_nurVars
<1> SUFFICES ASSUME [Next]_vars PROVE [N!Next]_nurVars
  OBVIOUS
<1> USE DEF N!Next, N!AnyCall, N!OwnerCall
<1>1. ASSUME NEW b, NEW v, SpawnTask(b, v) PROVE N!Next
  BY <1>1 DEF SpawnTask
<1>2. CASE SpawnRefused
  BY <1>2 DEF SpawnRefused
<1>3. CASE MainNursery
  BY <1>3 DEF MainNursery
<1>4. CASE MainInNursery
  BY <1>4 DEF MainInNursery
<1>5. CASE MainBox \/ MainDestroysBox \/ MainResumes \/ (\E t \in Tasks \cup {Main} : Wakes(t))
  BY <1>5 DEF MainBox, MainDestroysBox, MainResumes, Wakes
<1>6. ASSUME NEW i \in Tasks, TaskStep(i) PROVE [N!Next]_nurVars
  <2>1. i \in N!Slots
    BY DEF Tasks, N!Slots
  <2>2. CASE TaskStart(i) \/ TaskReturn(i)
    BY <2>1, <2>2 DEF TaskStart, TaskReturn, N!TaskStep
  <2>3. CASE StoreTask(i) \/ SendTask(i)
    BY <2>3 DEF StoreTask, SendTask
  <2> QED BY <1>6, <2>2, <2>3 DEF TaskStep
<1>7. CASE UNCHANGED vars
  BY <1>7 DEF vars
<1> QED BY <1>1, <1>2, <1>3, <1>4, <1>5, <1>6, <1>7 DEF Next

\* Whatever the tasks and the channel do, the nursery is a Nursery.
THEOREM BridgeKeepsNursery == Spec => N!Spec
<1>1. Init => N!Init
  BY DEF Init
<1>2. N!vars = nurVars
  BY DEF N!vars, nurVars
<1>3. [Next]_vars => [N!Next]_(N!vars)
  BY NurserySteps DEF N!vars, nurVars
<1> QED BY <1>1, <1>3, PTL DEF Spec, N!Spec

(***************************************************************************)
(* The tasks.  A body that has not finished runs on a thread that was not  *)
(* joined, and only a sending body that has not finished is in a call of   *)
(* the channel; what waits there carries a value of its task.              *)
(***************************************************************************)
BodyTypes ==
  /\ body \in [Tasks -> {"none", "store", "send"}]
  /\ fresh \in [Tasks -> BOOLEAN]
  /\ val \in [Tasks -> TaskVals \cup {0}]
  /\ slot \in [Tasks -> TaskVals \cup {0}]

BodyAgrees(i) ==
  /\ fresh[i] => thr[i] \in {"created", "running"} /\ val[i] \in TaskVals
  /\ cpc[i] # "idle" => fresh[i] /\ thr[i] = "running" /\ body[i] = "send"
  /\ ~fresh[i] /\ body[i] = "store" => slot[i] = val[i]

ArgAgrees == \A t \in Threads : cpc[t] \in {"waitNF", "wokeNF"} => arg[t] \in TaskVals

BridgeInv ==
  /\ P!Inductive
  /\ Q!ChanInv
  /\ BodyTypes
  /\ \A i \in Tasks : BodyAgrees(i)
  /\ ArgAgrees

LEMMA ThreadFacts ==
  ASSUME P!Inductive
  PROVE  /\ thr \in [Tasks -> {"none", "created", "running", "done", "reaped"}]
         /\ n \in Int
         /\ \A i \in Tasks : thr[i] = "none" <=> i >= n
         /\ \A i \in Tasks : joined[i] => thr[i] = "reaped"
         /\ mem = "freed" \/ (mem = "live" /\ ~live) => \A i \in Tasks : thr[i] \in {"none", "reaped"}
<1>1. P!Slots = Tasks
  BY DEF P!Slots, Tasks
<1>2. /\ thr \in [Tasks -> {"none", "created", "running", "done", "reaped"}]
      /\ n \in Int
  BY <1>1, BridgeAssumption DEF P!Inductive, P!TypeInv, P!TypeOK
<1>3. \A i \in Tasks : (thr[i] = "none" <=> i >= n) /\ (joined[i] => thr[i] = "reaped")
  BY <1>1 DEF P!Inductive, P!TypeInv, P!SlotsAgree
<1>4. ASSUME mem = "freed" \/ (mem = "live" /\ ~live), NEW i \in Tasks
      PROVE  thr[i] \in {"none", "reaped"}
  <2>1. i < n => joined[i]
    BY <1>1, <1>4 DEF P!Inductive, P!ScopeInv, P!AllJoined
  <2>2. i \in Int
    BY DEF Tasks
  <2> QED BY <2>1, <2>2, <1>2, <1>3
<1> QED BY <1>2, <1>3, <1>4

LEMMA ChannelTypes ==
  ASSUME Q!ChanInv
  PROVE  /\ cpc \in [Threads -> {"idle", "waitNE", "wokeNE", "waitNF", "wokeNF"}]
         /\ arg \in [Threads -> TaskVals \cup {0}]
         /\ wide \in [Threads -> BOOLEAN]
  BY DEF Q!ChanInv, Q!TypeOK, Q!States

\* A thread's call moves no other thread out of the channel or into it.
LEMMA ChannelCall ==
  ASSUME Q!ChanInv, ArgAgrees, NEW t \in Threads,
         \/ \E v \in TaskVals : C!Send(t, v)
         \/ \E w \in BOOLEAN : C!Recv(t, w)
         \/ C!Close(t)
  PROVE  /\ ArgAgrees'
         /\ \A u \in Threads \ {t} : cpc'[u] = "idle" <=> cpc[u] = "idle"
<1> USE ChannelTypes DEF ArgAgrees, C!ReturnAndSignal, C!Return, C!In, Threads
<1>1. ASSUME NEW v \in TaskVals, C!SendBlocks(t, v) \/ C!SendClosed(t, v)
      PROVE  /\ ArgAgrees'
             /\ \A u \in Threads \ {t} : cpc'[u] = "idle" <=> cpc[u] = "idle"
  BY <1>1 DEF C!SendBlocks, C!SendClosed, C!Sends
<1>2. ASSUME NEW v \in TaskVals, C!SendPuts(t, v)
      PROVE  /\ ArgAgrees'
             /\ \A u \in Threads \ {t} : cpc'[u] = "idle" <=> cpc[u] = "idle"
  BY <1>2 DEF C!SendPuts, C!Sends
<1>3. ASSUME NEW w \in BOOLEAN, C!RecvBlocks(t, w) \/ C!RecvClosed(t, w)
      PROVE  /\ ArgAgrees'
             /\ \A u \in Threads \ {t} : cpc'[u] = "idle" <=> cpc[u] = "idle"
  BY <1>3 DEF C!RecvBlocks, C!RecvClosed, C!Receives
<1>4. ASSUME NEW w \in BOOLEAN, C!RecvTakes(t, w)
      PROVE  /\ ArgAgrees'
             /\ \A u \in Threads \ {t} : cpc'[u] = "idle" <=> cpc[u] = "idle"
  BY <1>4 DEF C!RecvTakes, C!Receives
<1>5. CASE C!Close(t)
  <2>1. cpc' = [u \in Threads |-> C!Roused(cpc[u])] /\ arg' = arg
    BY <1>5 DEF C!Close
  <2>2. \A u \in Threads :
          /\ C!Roused(cpc[u]) = "idle" <=> cpc[u] = "idle"
          /\ C!Roused(cpc[u]) \in {"waitNF", "wokeNF"} => cpc[u] \in {"waitNF", "wokeNF"}
    BY DEF C!Roused
  <2> QED BY <2>1, <2>2
<1> HIDE DEF ArgAgrees
<1> QED BY <1>1, <1>2, <1>3, <1>4, <1>5 DEF C!Send, C!Recv

LEMMA ChannelWake ==
  ASSUME Q!ChanInv, ArgAgrees, NEW t \in Threads, C!Spurious(t)
  PROVE  /\ ArgAgrees'
         /\ \A u \in Threads : cpc'[u] = "idle" <=> cpc[u] = "idle"
<1>1. cpc[t] \in {"waitNE", "waitNF"} /\ cpc' = [cpc EXCEPT ![t] = C!Roused(cpc[t])] /\ arg' = arg
  BY DEF C!Spurious
<1>2. /\ C!Roused(cpc[t]) # "idle"
      /\ C!Roused(cpc[t]) \in {"waitNF", "wokeNF"} => cpc[t] \in {"waitNF", "wokeNF"}
  BY <1>1 DEF C!Roused
<1> QED BY <1>1, <1>2, ChannelTypes DEF ArgAgrees

(***************************************************************************)
(* One lemma per kind of step: what it makes of the tasks, and that it is  *)
(* a step of the channel or none.                                          *)
(***************************************************************************)
Kept ==
  /\ BodyTypes'
  /\ \A i \in Tasks : BodyAgrees(i)'
  /\ ArgAgrees'
  /\ [C!Next]_chanVars

LEMMA SpawnKeeps ==
  ASSUME BridgeInv, NEW b \in {"store", "send"}, NEW v \in TaskVals, SpawnTask(b, v)
  PROVE  Kept
<1>1. /\ thr' = [thr EXCEPT ![n] = "created"]
      /\ body' = [body EXCEPT ![n] = b]
      /\ fresh' = [fresh EXCEPT ![n] = TRUE]
      /\ val' = [val EXCEPT ![n] = v]
      /\ UNCHANGED <<chanVars, slot>>
  BY DEF SpawnTask, N!Spawn
<1>2. BodyTypes'
  BY <1>1 DEF BridgeInv, BodyTypes
<1>3. ArgAgrees'
  BY <1>1 DEF BridgeInv, ArgAgrees, chanVars
<1>4. ASSUME NEW i \in Tasks PROVE BodyAgrees(i)'
  <2>1. cpc' = cpc /\ BodyAgrees(i)
    BY <1>1 DEF chanVars, BridgeInv
  <2>2. CASE i = n
    <3>1. thr[i] = "none"
      BY <2>2, ThreadFacts DEF BridgeInv
    <3>2. cpc[i] = "idle"
      BY <2>1, <3>1 DEF BodyAgrees
    <3>3. fresh'[i] /\ thr'[i] = "created" /\ val'[i] = v
      BY <1>1, <2>2, ThreadFacts DEF BridgeInv, BodyTypes
    <3> QED BY <2>1, <3>2, <3>3 DEF BodyAgrees
  <2>3. CASE i # n
    BY <1>1, <2>1, <2>3, ThreadFacts DEF BridgeInv, BodyTypes, BodyAgrees
  <2> QED BY <2>2, <2>3
<1> QED BY <1>1, <1>2, <1>3, <1>4 DEF Kept

LEMMA StoreKeeps ==
  ASSUME BridgeInv, NEW i \in Tasks, StoreTask(i)
  PROVE  Kept
<1>1. /\ fresh[i] /\ body[i] = "store"
      /\ slot' = [slot EXCEPT ![i] = val[i]]
      /\ fresh' = [fresh EXCEPT ![i] = FALSE]
      /\ UNCHANGED <<nurVars, chanVars, body, val>>
  BY DEF StoreTask
<1>2. BodyTypes'
  BY <1>1 DEF BridgeInv, BodyTypes
<1>3. ArgAgrees'
  BY <1>1 DEF BridgeInv, ArgAgrees, chanVars
<1>4. ASSUME NEW j \in Tasks PROVE BodyAgrees(j)'
  <2>1. BodyAgrees(j) /\ thr' = thr /\ cpc' = cpc
    BY <1>1 DEF BridgeInv, nurVars, chanVars
  <2> QED BY <1>1, <2>1 DEF BridgeInv, BodyTypes, BodyAgrees
<1> QED BY <1>1, <1>2, <1>3, <1>4 DEF Kept

LEMMA SendTaskKeeps ==
  ASSUME BridgeInv, NEW i \in Tasks, SendTask(i)
  PROVE  Kept
<1>1. /\ thr[i] = "running" /\ fresh[i] /\ body[i] = "send"
      /\ fresh' = [fresh EXCEPT ![i] = (cpc'[i] # "idle")]
      /\ UNCHANGED <<nurVars, body, val, slot>>
  BY DEF SendTask
<1>2. C!Send(i, val[i])
  BY DEF SendTask, Send, ChanSend, MbSend
<1>3. val[i] \in TaskVals /\ i \in Threads
  BY <1>1 DEF BridgeInv, BodyAgrees, Threads
<1>4. ArgAgrees' /\ \A u \in Threads \ {i} : cpc'[u] = "idle" <=> cpc[u] = "idle"
  BY <1>2, <1>3, ChannelCall DEF BridgeInv
<1>5. BodyTypes'
  BY <1>1 DEF BridgeInv, BodyTypes
<1>6. ASSUME NEW j \in Tasks PROVE BodyAgrees(j)'
  <2>1. BodyAgrees(j) /\ thr' = thr /\ j \in Threads
    BY <1>1 DEF BridgeInv, nurVars, Threads
  <2>2. fresh'[j] <=> IF j = i THEN cpc'[i] # "idle" ELSE fresh[j]
    BY <1>1 DEF BridgeInv, BodyTypes
  <2> QED BY <1>1, <1>3, <1>4, <2>1, <2>2 DEF BodyAgrees
<1>7. C!Next
  BY <1>2, <1>3 DEF C!Next, Threads
<1> QED BY <1>4, <1>5, <1>6, <1>7 DEF Kept

\* The nursery's own steps: a thread that is joined had returned.
LEMMA NurseryKeeps ==
  ASSUME BridgeInv, UNCHANGED <<chanVars, taskVars>>,
         \A i \in Tasks : \/ thr'[i] = thr[i]
                          \/ thr[i] = "created" /\ thr'[i] = "running"
                          \/ ~fresh[i]
  PROVE  Kept
<1>1. BodyTypes' /\ ArgAgrees'
  BY DEF BridgeInv, BodyTypes, ArgAgrees, chanVars, taskVars
<1>2. ASSUME NEW i \in Tasks PROVE BodyAgrees(i)'
  BY DEF BridgeInv, BodyAgrees, chanVars, taskVars
<1> QED BY <1>1, <1>2 DEF Kept

LEMMA OwnerThreads ==
  ASSUME BridgeInv, N!OwnerStep
  PROVE  \A i \in Tasks : thr'[i] = thr[i] \/ ~fresh[i]
<1>1. CASE N!Reap
  <2>1. thr[idx] = "done" /\ thr' = [thr EXCEPT ![idx] = "reaped"]
    BY <1>1 DEF N!Reap
  <2> QED BY <2>1, ThreadFacts DEF BridgeInv, BodyAgrees
<1>2. CASE N!Enter \/ N!JoinTimesOut \/ N!Relock \/ N!MarkDead \/ N!Free
  BY <1>2 DEF N!Enter, N!JoinTimesOut, N!Relock, N!MarkDead, N!Free, N!tasks
<1> QED BY <1>1, <1>2 DEF N!OwnerStep

LEMMA MainNurseryKeeps ==
  ASSUME BridgeInv, MainNursery \/ SpawnRefused \/ MainInNursery
  PROVE  Kept
<1>1. UNCHANGED <<chanVars, taskVars>>
  BY DEF MainNursery, SpawnRefused, MainInNursery
<1>2. CASE MainNursery
  BY <1>1, <1>2, NurseryKeeps
  DEF MainNursery, N!Create, N!Join, N!Shutdown, N!DestroyDead, N!RequestCancel, N!tasks
<1>3. CASE SpawnRefused
  BY <1>1, <1>3, NurseryKeeps DEF SpawnRefused, N!SpawnFails, N!SpawnRefused, N!tasks
<1>4. CASE MainInNursery
  BY <1>1, <1>4, NurseryKeeps, OwnerThreads DEF MainInNursery
<1> QED BY <1>2, <1>3, <1>4

LEMMA ThreadKeeps ==
  ASSUME BridgeInv, NEW i \in Tasks, TaskStart(i) \/ TaskReturn(i)
  PROVE  Kept
<1>1. UNCHANGED <<chanVars, taskVars>>
  BY DEF TaskStart, TaskReturn
<1>2. CASE TaskStart(i)
  <2>1. thr[i] = "created" /\ thr' = [thr EXCEPT ![i] = "running"]
    BY <1>2 DEF TaskStart, N!TaskStart
  <2> QED BY <1>1, <2>1, NurseryKeeps, ThreadFacts DEF BridgeInv
<1>3. CASE TaskReturn(i)
  <2>1. ~fresh[i] /\ thr' = [thr EXCEPT ![i] = "done"]
    BY <1>3 DEF TaskReturn, N!TaskReturn
  <2> QED BY <1>1, <2>1, NurseryKeeps, ThreadFacts DEF BridgeInv
<1> QED BY <1>2, <1>3

\* Main's calls of the channel, and its waits there, are no task's.
LEMMA ChannelKeeps ==
  ASSUME BridgeInv, UNCHANGED <<nurVars, taskVars>>, [C!Next]_chanVars, ArgAgrees',
         \A i \in Tasks : cpc'[i] = "idle" <=> cpc[i] = "idle"
  PROVE  Kept
<1>1. BodyTypes'
  BY DEF BridgeInv, BodyTypes, taskVars
<1>2. ASSUME NEW i \in Tasks PROVE BodyAgrees(i)'
  BY DEF BridgeInv, BodyAgrees, nurVars, taskVars
<1> QED BY <1>1, <1>2 DEF Kept

LEMMA MainIsNoTask == Main \in Threads /\ Main \notin Tasks /\ Tasks \subseteq Threads
  BY BridgeAssumption DEF Main, Tasks, Threads

LEMMA MainCallKeeps ==
  ASSUME BridgeInv, UNCHANGED <<nurVars, taskVars>>,
         \/ \E v \in TaskVals : C!Send(Main, v)
         \/ \E w \in BOOLEAN : C!Recv(Main, w)
         \/ C!Close(Main)
  PROVE  Kept
<1>1. ArgAgrees' /\ \A u \in Threads \ {Main} : cpc'[u] = "idle" <=> cpc[u] = "idle"
  BY MainIsNoTask, ChannelCall DEF BridgeInv
<1>2. C!Next
  BY MainIsNoTask DEF C!Next, Threads
<1> QED BY <1>1, <1>2, MainIsNoTask, ChannelKeeps

LEMMA MainBoxKeeps ==
  ASSUME BridgeInv, MainBox
  PROVE  Kept
<1>1. UNCHANGED <<nurVars, taskVars>>
  BY DEF MainBox
<1>2. CASE ChanCreate \/ MbCreate
  <2>1. C!Create(ChanCap)
    BY <1>2 DEF ChanCreate, MbCreate
  <2>2. C!Next /\ UNCHANGED <<cpc, arg>>
    BY <2>1 DEF C!Next, C!Create
  <2>3. ArgAgrees'
    BY <2>2 DEF BridgeInv, ArgAgrees
  <2> QED BY <1>1, <2>2, <2>3, ChannelKeeps
<1>3. ASSUME NEW v \in TaskVals, Send(Main, v) PROVE Kept
  BY <1>1, <1>3, MainCallKeeps DEF Send, ChanSend, MbSend
<1>4. ASSUME NEW w \in BOOLEAN, ChanRecv(w) PROVE Kept
  BY <1>1, <1>4, MainCallKeeps DEF ChanRecv
<1>5. CASE MbRecv
  BY <1>1, <1>5, MainCallKeeps DEF MbRecv
<1>6. CASE C!Close(Main)
  BY <1>1, <1>6, MainCallKeeps
<1> QED BY <1>2, <1>3, <1>4, <1>5, <1>6 DEF MainBox

LEMMA MainDestroysKeeps ==
  ASSUME BridgeInv, MainDestroysBox
  PROVE  Kept
<1>1. UNCHANGED <<nurVars, taskVars>> /\ C!Destroy
  BY DEF MainDestroysBox, BoxDestroy
<1>2. C!Next /\ UNCHANGED <<cpc, arg>>
  BY <1>1 DEF C!Next, C!Destroy
<1>3. ArgAgrees'
  BY <1>2 DEF BridgeInv, ArgAgrees
<1> QED BY <1>1, <1>2, <1>3, ChannelKeeps

LEMMA MainResumesKeeps ==
  ASSUME BridgeInv, MainResumes
  PROVE  Kept
<1>1. UNCHANGED <<nurVars, taskVars>> /\ C!Resume(Main)
  BY DEF MainResumes
<1>2. CASE cpc[Main] = "wokeNF" /\ C!Send(Main, arg[Main])
  <2>1. arg[Main] \in TaskVals
    BY <1>2, MainIsNoTask DEF BridgeInv, ArgAgrees
  <2> QED BY <1>1, <1>2, <2>1, MainCallKeeps
<1>3. CASE C!Recv(Main, wide[Main])
  <2>1. wide[Main] \in BOOLEAN
    BY MainIsNoTask, ChannelTypes DEF BridgeInv
  <2> QED BY <1>1, <1>3, <2>1, MainCallKeeps
<1> QED BY <1>1, <1>2, <1>3 DEF C!Resume

LEMMA WakesKeeps ==
  ASSUME BridgeInv, NEW t \in Tasks \cup {Main}, Wakes(t)
  PROVE  Kept
<1>1. UNCHANGED <<nurVars, taskVars>> /\ C!Spurious(t) /\ t \in Threads
  BY DEF Wakes, Threads
<1>2. C!Next
  BY <1>1 DEF C!Next
<1>3. ArgAgrees' /\ \A u \in Threads : cpc'[u] = "idle" <=> cpc[u] = "idle"
  BY <1>1, ChannelWake DEF BridgeInv
<1> QED BY <1>1, <1>2, <1>3, MainIsNoTask, ChannelKeeps

LEMMA StepKeeps == BridgeInv /\ [Next]_vars => Kept
<1> SUFFICES ASSUME BridgeInv, [Next]_vars PROVE Kept
  OBVIOUS
<1>1. CASE UNCHANGED vars
  <2>1. UNCHANGED <<chanVars, taskVars, thr>>
    BY <1>1 DEF vars, nurVars
  <2> QED BY <2>1, NurseryKeeps
<1>2. ASSUME NEW i \in Tasks, TaskStep(i) PROVE Kept
  BY <1>2, ThreadKeeps, StoreKeeps, SendTaskKeeps DEF TaskStep
<1> QED
  BY <1>1, <1>2, SpawnKeeps, MainNurseryKeeps, MainBoxKeeps, MainDestroysKeeps,
     MainResumesKeeps, WakesKeeps
  DEF Next

LEMMA BridgeInvInit == Init => BridgeInv
<1> SUFFICES ASSUME Init PROVE BridgeInv
  OBVIOUS
<1>1. N!Init /\ C!Init
  BY DEF Init
<1>2. P!Init
  BY <1>1 DEF N!Init, P!Init, N!Slots, P!Slots
<1>3. P!Inductive
  BY <1>2, P!InductiveInit, NurseryPremises
<1>4. Q!Init
  BY <1>1 DEF C!Init, Q!Init, Threads
<1>5. Q!ChanInv
  BY <1>4, Q!ChanInvInit, ChannelPremises
<1>6. BodyTypes /\ \A i \in Tasks : ~fresh[i] /\ body[i] = "none"
  BY DEF Init, BodyTypes
<1>7. \A t \in Threads : cpc[t] = "idle"
  BY <1>1 DEF C!Init, Threads
<1> QED BY <1>3, <1>5, <1>6, <1>7 DEF BridgeInv, BodyAgrees, ArgAgrees, Threads

LEMMA BridgeInvNext == BridgeInv /\ [Next]_vars => BridgeInv'
<1> SUFFICES ASSUME BridgeInv, [Next]_vars PROVE BridgeInv'
  OBVIOUS
<1>1. Kept
  BY StepKeeps
<1>2. [P!Next]_(P!vars)
  BY NurserySteps, NurseryNext
<1>3. P!Inductive'
  BY <1>2, P!InductiveNext, NurseryPremises, SoundBridge DEF BridgeInv
<1>4. [Q!Next]_(Q!vars)
  BY <1>1, ChannelNext DEF Kept
<1>5. Q!ChanInv'
  BY <1>4, Q!ChanInvNext, ChannelPremises DEF BridgeInv, Threads
<1> QED BY <1>1, <1>3, <1>5 DEF Kept, BridgeInv

THEOREM BridgeInvariant == Spec => []BridgeInv
  BY BridgeInvInit, BridgeInvNext, PTL DEF Spec

\* Whatever the tasks and the nursery do, the channel is a Channel.
THEOREM BridgeKeepsChannel == Spec => C!Spec
<1>1. Init => C!Init
  BY DEF Init
<1>2. BridgeInv /\ [Next]_vars => [C!Next]_(C!vars)
  BY StepKeeps DEF Kept, C!vars, chanVars
<1> QED BY <1>1, <1>2, BridgeInvariant, PTL DEF Spec, C!Spec

\* What await_i32 reads after the join is what the task was spawned with.
THEOREM AwaitSeesStoreHolds == Spec => []AwaitSeesStore
<1>1. BridgeInv => AwaitSeesStore
  BY ThreadFacts DEF BridgeInv, BodyAgrees, AwaitSeesStore
<1> QED BY <1>1, BridgeInvariant, PTL

\* When the nursery is dead no task is in the channel, which may then go.
THEOREM NobodyInChannelHolds == Spec => []NobodyInChannel
<1>1. BridgeInv => NobodyInChannel
  BY ThreadFacts DEF BridgeInv, BodyAgrees, NobodyInChannel
<1> QED BY <1>1, BridgeInvariant, PTL
=============================================================================
