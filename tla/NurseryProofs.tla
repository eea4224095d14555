--------------------------- MODULE NurseryProofs ---------------------------
(***************************************************************************)
(* Proofs about Nursery for every size, platform and mix of task bodies,   *)
(* then about what runs over it: the supervisor and the poller.            *)
(***************************************************************************)
EXTENDS Supervise, NurseryPending, FiniteSetTheorems, TLAPS

\* What the common loop does to the owner, whatever slot it starts from.
LEMMA ScanEffect ==
  ASSUME TypeOK, NEW k \in 0 .. HardMax, Scan(k)
  PROVE  \/ /\ Pending(k) = {}
            /\ Return("ok")
            /\ cancel' = cancel
         \/ /\ idx' \in Pending(k)
            /\ \A j \in Pending(k) : idx' <= j
            /\ pc' = "wait"
            /\ op' = op
            /\ rc' = rc
            /\ cancel' \in BOOLEAN
  BY DEF Scan, TypeOK

LEMMA TypeInvInit == Init => TypeInv
<1> SUFFICES ASSUME Init PROVE TypeInv
  OBVIOUS
<1> USE NurseryAssumption DEF Init, Slots
<1>1. TypeOK
  <2>1. used \in [Slots -> BOOLEAN] /\ joined \in [Slots -> BOOLEAN]
    OBVIOUS
  <2>2. thr \in [Slots -> {"none", "created", "running", "done", "reaped"}]
    OBVIOUS
  <2>3. kind \in [Slots -> {"finite", "poll", "stuck"}]
    OBVIOUS
  <2>4. n \in 0 .. HardMax /\ cap \in 0 .. HardMax /\ idx \in 0 .. HardMax
    OBVIOUS
  <2> QED BY <2>1, <2>2, <2>3, <2>4 DEF TypeOK
<1>2. SlotsAgree
  BY DEF SlotsAgree
<1>3. HandleAgrees /\ LoopAgrees
  BY DEF HandleAgrees, LoopAgrees
<1> QED BY <1>1, <1>2, <1>3 DEF TypeInv

LEMMA TypeInvNext == TypeInv /\ [Next]_vars => TypeInv'
<1> SUFFICES ASSUME TypeInv, [Next]_vars PROVE TypeInv'
  OBVIOUS
<1> USE NurseryAssumption DEF TypeInv, TypeOK, SlotsAgree, HandleAgrees, LoopAgrees,
        handle, tasks, owner, Slots
<1>1. ASSUME NEW m \in Sizes, Create(m) PROVE TypeInv'
  BY <1>1 DEF Create
<1>2. CASE CreateFails
  BY <1>2 DEF CreateFails
<1>3. ASSUME NEW k \in Kinds, Spawn(k) PROVE TypeInv'
  BY <1>3 DEF Spawn, CanSpawn, MayCall
<1>4. CASE SpawnFails
  BY <1>4 DEF SpawnFails, CanSpawn, MayCall
<1>5. CASE SpawnRefused
  BY <1>5 DEF SpawnRefused
<1>6. CASE RequestCancel
  BY <1>6 DEF RequestCancel
<1>7. ASSUME NEW o \in {"join", "timed"}, Join(o) PROVE TypeInv'
  BY <1>7 DEF Join
<1>8. ASSUME NEW o \in {"shutdown", "destroy"}, Shutdown(o) PROVE TypeInv'
  BY <1>8 DEF Shutdown
<1>9. CASE ShutdownDead \/ DestroyDead
  BY <1>9 DEF ShutdownDead, DestroyDead
<1>10. CASE Enter
  <2>1. CASE ~live
    BY <1>10, <2>1 DEF Enter, Return
  <2>2. CASE live
    BY <1>10, <2>2, ScanEffect DEF Enter, Return, Pending
  <2> QED BY <2>1, <2>2
<1>11. CASE Reap
  BY <1>11 DEF Reap
<1>12. CASE JoinTimesOut \/ JoinFails
  BY <1>12 DEF JoinTimesOut, JoinFails, Return
<1>13. CASE Relock
  BY <1>13, ScanEffect DEF Relock, Return, Pending
<1>14. CASE MarkDead \/ Free
  BY <1>14 DEF MarkDead, Free
<1>15. ASSUME NEW i \in Slots, TaskStep(i) PROVE TypeInv'
  BY <1>15 DEF TaskStep, TaskStart, TaskReturn
<1>16. CASE UNCHANGED vars
  BY <1>16 DEF vars
<1> QED
  BY <1>1, <1>2, <1>3, <1>4, <1>5, <1>6, <1>7, <1>8, <1>9, <1>10, <1>11, <1>12,
     <1>13, <1>14, <1>15, <1>16 DEF Next, AnyCall, OwnerCall, OwnerStep

\* Type correctness, with the agreement of flags, threads and loop index.
THEOREM TypeInvariant == Spec => []TypeInv
  BY TypeInvInit, TypeInvNext, PTL DEF Spec

\* No thread is joined twice, whoever holds the handle and whatever fails.
THEOREM JoinedOnceHolds == Spec => []JoinedOnce
<1>1. TypeInv => JoinedOnce
  BY NurseryAssumption DEF TypeInv, TypeOK, SlotsAgree, LoopAgrees, JoinedOnce, Slots
<1> QED BY <1>1, TypeInvariant, PTL

(***************************************************************************)
(* The scope invariant.  Between the end of shutdown's joins and the store *)
(* to live every thread is reaped and the owner is busy, so on a sound     *)
(* host nobody is left who could spawn.                                    *)
(***************************************************************************)
LEMMA NobodyCalls ==
  ASSUME SoundHost, TypeInv, AllJoined, pc # "idle"
  PROVE  ~MayCall
  BY NurseryAssumption
  DEF SoundHost, TypeInv, TypeOK, SlotsAgree, AllJoined, MayCall, Slots

LEMMA LoopDone ==
  ASSUME TypeInv, NEW k \in 0 .. HardMax, Pending(k) = {},
         \A j \in Slots : j < k /\ j < n => joined[j]
  PROVE  AllJoined
<1> SUFFICES ASSUME NEW i \in Slots, i < n PROVE joined[i]
  BY DEF AllJoined
<1>1. CASE i < k
  BY <1>1
<1>2. CASE k <= i
  <2>1. used[i]
    BY DEF TypeInv, SlotsAgree
  <2>2. i \notin Pending(k)
    OBVIOUS
  <2> QED BY <1>2, <2>1, <2>2 DEF Pending
<1> QED BY <1>1, <1>2, NurseryAssumption DEF Slots

LEMMA LastRelock ==
  ASSUME TypeInv, Relock, Pending(idx + 1) = {}
  PROVE  AllJoined'
<1>1. idx \in Slots /\ joined' = [joined EXCEPT ![idx] = TRUE] /\ n' = n
  BY NurseryAssumption DEF Relock, tasks, TypeInv, TypeOK, LoopAgrees, Slots
<1> SUFFICES ASSUME NEW i \in Slots, i < n PROVE joined'[i]
  BY <1>1 DEF AllJoined
<1>2. CASE i = idx
  BY <1>1, <1>2 DEF TypeInv, TypeOK
<1>3. CASE i < idx
  BY <1>1, <1>3 DEF Relock, TypeInv, TypeOK, LoopAgrees
<1>4. CASE idx + 1 <= i
  <2>1. used[i] /\ i \notin Pending(idx + 1)
    BY DEF TypeInv, SlotsAgree
  <2>2. joined[i]
    BY <1>4, <2>1 DEF Pending
  <2> QED BY <1>1, <2>2 DEF TypeInv, TypeOK
<1> QED BY <1>2, <1>3, <1>4, <1>1, NurseryAssumption DEF Slots

LEMMA InductiveInit == Init => Inductive
  BY TypeInvInit DEF Init, Inductive, ScopeInv

LEMMA InductiveNext ==
  ASSUME SoundHost
  PROVE  Inductive /\ [Next]_vars => Inductive'
<1> SUFFICES ASSUME Inductive, [Next]_vars PROVE ScopeInv'
  BY TypeInvNext DEF Inductive
<1> USE DEF Inductive, handle, tasks, owner
<1>0. TypeInv
  OBVIOUS
<1>1. ASSUME NEW m \in Sizes, Create(m) PROVE ScopeInv'
  BY <1>1 DEF Create, ScopeInv, TypeInv, HandleAgrees, AllJoined
<1>2. CASE CreateFails \/ SpawnRefused \/ RequestCancel
  BY <1>2 DEF CreateFails, SpawnRefused, RequestCancel, ScopeInv, AllJoined
<1>3. ASSUME NEW k \in Kinds, Spawn(k) PROVE ScopeInv'
  <2>1. mem = "live" /\ live /\ MayCall
    BY <1>3 DEF Spawn, CanSpawn, MayCall
  <2>2. pc # "mark" /\ pc # "free"
    BY <2>1, NobodyCalls DEF ScopeInv
  <2> QED BY <1>3, <2>1, <2>2 DEF Spawn, CanSpawn, ScopeInv
<1>4. CASE SpawnFails
  <2>1. ASSUME NEW i \in Slots, i < n, joined[i] PROVE joined'[i]
    <3>1. i # n
      BY <2>1, NurseryAssumption DEF TypeInv, TypeOK, Slots
    <3> QED BY <1>4, <2>1, <3>1 DEF SpawnFails, CanSpawn, TypeInv, TypeOK
  <2> QED BY <1>4, <2>1 DEF SpawnFails, CanSpawn, ScopeInv, AllJoined
<1>5. CASE OwnerCall
  <2>1. ASSUME NEW o \in {"join", "timed"}, Join(o) PROVE ScopeInv'
    BY <2>1 DEF Join, ScopeInv, AllJoined
  <2>2. ASSUME NEW o \in {"shutdown", "destroy"}, Shutdown(o) PROVE ScopeInv'
    BY <2>2 DEF Shutdown, ScopeInv, AllJoined
  <2>3. CASE ShutdownDead \/ DestroyDead
    BY <2>3 DEF ShutdownDead, DestroyDead, ScopeInv, AllJoined
  <2> QED BY <1>5, <2>1, <2>2, <2>3 DEF OwnerCall
<1>6. CASE Enter
  <2>1. CASE ~live
    BY <1>6, <2>1 DEF Enter, Return, ScopeInv, AllJoined
  <2>2. CASE live /\ Pending(0) = {}
    <3>1. AllJoined
      BY <2>2, LoopDone, NurseryAssumption DEF Slots
    <3> QED BY <1>6, <2>2, <3>1, ScanEffect DEF Enter, Scan, Return, ScopeInv, AllJoined
  <2>3. CASE live /\ Pending(0) # {}
    BY <1>6, <2>3 DEF Enter, Scan, ScopeInv, AllJoined
  <2> QED BY <2>1, <2>2, <2>3
<1>7. CASE Reap
  BY <1>7 DEF Reap, ScopeInv, AllJoined
<1>8. CASE JoinTimesOut \/ JoinFails
  <2>1. op = "timed"
    BY <1>8 DEF SoundHost, JoinTimesOut, JoinFails
  <2> QED BY <1>8, <2>1 DEF JoinTimesOut, JoinFails, Return, ScopeInv, AllJoined
<1>9. CASE Relock
  <2>1. live /\ mem = "live" /\ idx \in Slots /\ joined' = [joined EXCEPT ![idx] = TRUE]
    BY <1>9, NurseryAssumption
    DEF Relock, TypeInv, TypeOK, LoopAgrees, HandleAgrees, Slots
  <2>2. CASE Pending(idx + 1) = {}
    <3>1. AllJoined'
      BY <1>9, <2>2, LastRelock
    <3> QED BY <1>9, <2>1, <2>2, <3>1 DEF Relock, Scan, Return, ScopeInv, AllJoined
  <2>3. CASE Pending(idx + 1) # {}
    BY <1>9, <2>1, <2>3 DEF Relock, Scan, ScopeInv
  <2> QED BY <2>2, <2>3
<1>10. CASE MarkDead \/ Free
  BY <1>10 DEF MarkDead, Free, ScopeInv, AllJoined, TypeInv, HandleAgrees
<1>11. ASSUME NEW i \in Slots, TaskStep(i) PROVE ScopeInv'
  BY <1>11 DEF TaskStep, TaskStart, TaskReturn, ScopeInv, AllJoined
<1>12. CASE UNCHANGED vars
  BY <1>12 DEF vars, ScopeInv, AllJoined
<1> QED
  BY <1>1, <1>2, <1>3, <1>4, <1>5, <1>6, <1>7, <1>8, <1>9, <1>10, <1>11, <1>12
  DEF Next, AnyCall, OwnerStep

THEOREM ScopeInvariant ==
  ASSUME SoundHost
  PROVE  Spec => []Inductive
<1>1. Init => Inductive
  BY InductiveInit
<1>2. Inductive /\ [Next]_vars => Inductive'
  BY InductiveNext
<1> QED BY <1>1, <1>2, PTL DEF Spec

LEMMA AllJoinedNoneAlive ==
  ASSUME TypeInv, AllJoined
  PROVE  Alive = {} /\ Pending(0) = {} /\ \A i \in Slots : thr[i] \in {"none", "reaped"}
<1>1. ASSUME NEW i \in Slots PROVE thr[i] \in {"none", "reaped"}
  BY <1>1, NurseryAssumption DEF TypeInv, TypeOK, SlotsAgree, AllJoined, Slots
<1>2. Alive = {}
  BY <1>1 DEF Alive
<1>3. Pending(0) = {}
  BY DEF Pending, AllJoined
<1> QED BY <1>1, <1>2, <1>3

\* "Join all, mark dead": a dead nursery has no pending task and no thread.
THEOREM DeadMeansJoinedHolds ==
  ASSUME SoundHost
  PROVE  Spec => []DeadMeansJoined
<1>1. Inductive => DeadMeansJoined
  BY AllJoinedNoneAlive DEF Inductive, ScopeInv, DeadMeansJoined
<1> QED BY <1>1, ScopeInvariant, PTL

\* Join before teardown: no thread outlives the memory it runs from.
THEOREM NoThreadOutlivesHolds ==
  ASSUME SoundHost
  PROVE  Spec => []NoThreadOutlives
<1>1. Inductive => NoThreadOutlives
  BY AllJoinedNoneAlive DEF Inductive, ScopeInv, NoThreadOutlives
<1> QED BY <1>1, ScopeInvariant, PTL

\* A dead nursery never changes again but for being freed.
THEOREM TombstoneFrozenHolds ==
  ASSUME SoundHost
  PROVE  Spec => TombstoneFrozen
<1> DEFINE Frozen == mem = "live" /\ ~live => UNCHANGED <<live, cancel, cap, tasks>>
<1>1. Inductive /\ [Next]_vars => [Frozen]_vars
  <2> SUFFICES ASSUME Inductive, Next, mem = "live", ~live
               PROVE  UNCHANGED <<live, cancel, cap, tasks>>
    OBVIOUS
  <2> USE DEF handle, tasks, owner
  <2>1. Alive = {} /\ pc \notin {"wait", "relock", "mark"}
    BY AllJoinedNoneAlive DEF Inductive, ScopeInv, TypeInv, LoopAgrees
  <2>2. ASSUME NEW m \in Sizes, Create(m) PROVE FALSE
    BY <2>2 DEF Create
  <2>3. CASE CreateFails \/ AnyCall
    BY <2>3 DEF CreateFails, AnyCall, Spawn, CanSpawn, SpawnFails, SpawnRefused, RequestCancel
  <2>4. CASE OwnerCall
    BY <2>4 DEF OwnerCall, Join, Shutdown, ShutdownDead, DestroyDead
  <2>5. CASE OwnerStep \/ JoinFails
    BY <2>1, <2>5 DEF OwnerStep, Enter, Return, Reap, JoinTimesOut, JoinFails, Relock,
                      MarkDead, Free
  <2>6. ASSUME NEW i \in Slots, TaskStep(i)
        PROVE  UNCHANGED <<live, cancel, cap, tasks>>
    BY <2>1, <2>6 DEF TaskStep, TaskStart, TaskReturn, Alive
  <2> QED BY <2>2, <2>3, <2>4, <2>5, <2>6 DEF Next
<1> QED BY <1>1, ScopeInvariant, PTL DEF Spec, TombstoneFrozen

(***************************************************************************)
(* Refinement: every step of the nursery is a step of the scope or leaves  *)
(* it as it is.                                                            *)
(***************************************************************************)
LEMMA ScopeStutters ==
  ASSUME UNCHANGED <<mem, live>>, Alive' = Alive
  PROVE  UNCHANGED <<Phase, Alive>>
  BY DEF Phase

LEMMA ScopeInit == Init => Scope!Init
  BY DEF Init, Scope!Init, Phase, Alive

LEMMA ScopeStep ==
  ASSUME Inductive, [Next]_vars
  PROVE  [Scope!Next]_<<Phase, Alive>>
<1> USE DEF handle, tasks, owner
<1>1. ASSUME NEW m \in Sizes, Create(m) PROVE Scope!Next
  BY <1>1 DEF Create, Scope!Next, Scope!Open, Phase, Alive
<1>2. ASSUME NEW k \in Kinds, Spawn(k) PROVE Scope!Next
  <2>1. n \in Slots /\ n \notin Alive
    BY <1>2, NurseryAssumption
    DEF Spawn, CanSpawn, MayCall, Inductive, TypeInv, TypeOK, HandleAgrees, SlotsAgree, Alive, Slots
  <2>2. Alive' = Alive \cup {n}
    BY <1>2, <2>1 DEF Spawn, CanSpawn, Inductive, TypeInv, TypeOK, Alive
  <2>3. Phase = "open" /\ Phase' = "open"
    BY <1>2 DEF Spawn, CanSpawn, MayCall, Phase
  <2> QED BY <2>1, <2>2, <2>3 DEF Scope!Next, Scope!Start
<1>3. CASE CreateFails \/ SpawnFails \/ SpawnRefused \/ RequestCancel
  BY <1>3, ScopeStutters
  DEF CreateFails, SpawnFails, SpawnRefused, RequestCancel, Alive
<1>4. CASE OwnerCall
  BY <1>4, ScopeStutters DEF OwnerCall, Join, Shutdown, ShutdownDead, DestroyDead, Alive
<1>5. CASE Enter \/ JoinTimesOut \/ JoinFails \/ Relock
  BY <1>5, ScopeStutters DEF Enter, JoinTimesOut, JoinFails, Relock, Alive
<1>6. CASE Reap
  <2>1. Alive' = Alive
    BY <1>6 DEF Reap, Inductive, TypeInv, TypeOK, Alive
  <2> QED BY <1>6, <2>1, ScopeStutters DEF Reap
<1>7. CASE MarkDead
  <2>1. Alive = {} /\ Alive' = {} /\ mem = "live" /\ live
    BY <1>7, AllJoinedNoneAlive
    DEF MarkDead, Inductive, ScopeInv, TypeInv, HandleAgrees, Alive
  <2> QED BY <1>7, <2>1 DEF MarkDead, Phase, Scope!Next, Scope!Close
<1>8. CASE Free
  <2>1. Alive' = Alive /\ mem = "live" /\ ~live
    BY <1>8 DEF Free, Inductive, ScopeInv, TypeInv, HandleAgrees, Alive
  <2> QED BY <1>8, <2>1 DEF Free, Phase, Scope!Next, Scope!Release
<1>9. ASSUME NEW i \in Slots, TaskStart(i) PROVE UNCHANGED <<Phase, Alive>>
  <2>1. Alive' = Alive
    BY <1>9 DEF TaskStart, Inductive, TypeInv, TypeOK, Alive
  <2> QED BY <1>9, <2>1, ScopeStutters DEF TaskStart
<1>10. ASSUME NEW i \in Slots, TaskReturn(i) PROVE Scope!Next
  <2>1. i \in Alive /\ Alive' = Alive \ {i}
    BY <1>10 DEF TaskReturn, Inductive, TypeInv, TypeOK, Alive
  <2> QED BY <1>10, <2>1 DEF TaskReturn, Phase, Scope!Next, Scope!Finish
<1>11. CASE UNCHANGED vars
  BY <1>11, ScopeStutters DEF vars, Alive
<1> QED
  BY <1>1, <1>2, <1>3, <1>4, <1>5, <1>6, <1>7, <1>8, <1>9, <1>10, <1>11
  DEF Next, AnyCall, OwnerStep, TaskStep

\* The nursery implements the structured scope.
THEOREM NurseryImplementsScope ==
  ASSUME SoundHost
  PROVE  Spec => ImplementsScope
<1>1. Inductive /\ [Next]_vars => [Scope!Next]_<<Phase, Alive>>
  BY ScopeStep
<1> QED BY <1>1, ScopeInit, ScopeInvariant, PTL DEF Spec, ImplementsScope, Scope!Spec

(***************************************************************************)
(* The verdict of a join, on any host.                                     *)
(***************************************************************************)
LEMMA VerdictStep ==
  ASSUME TypeInv, Next, LoopEnds
  PROVE  rc' = "ok" <=> Pending(0)' = {}
<1> USE DEF LoopEnds, handle, tasks, owner
<1>1. CASE Enter
  <2>1. Pending(0) = {} /\ rc' = "ok"
    BY <1>1 DEF Enter, Scan, Return
  <2> QED BY <1>1, <2>1 DEF Enter, Pending
<1>2. CASE JoinTimesOut \/ JoinFails
  <2>1. idx \in Pending(0)
    <3>0. pc = "wait"
      BY <1>2 DEF JoinTimesOut, JoinFails
    <3>1. idx \in Slots /\ 0 <= idx /\ idx < n /\ ~joined[idx]
      BY <3>0, NurseryAssumption DEF TypeInv, TypeOK, LoopAgrees, Slots
    <3>2. used[idx]
      BY <3>1 DEF TypeInv, SlotsAgree
    <3> QED BY <3>1, <3>2 DEF Pending
  <2>2. Pending(0)' = Pending(0)
    BY <1>2 DEF JoinTimesOut, JoinFails, Pending
  <2> QED BY <1>2, <2>1, <2>2 DEF JoinTimesOut, JoinFails, Return
<1>3. CASE Relock
  <2>1. Pending(idx + 1) = {} /\ rc' = "ok"
    BY <1>3 DEF Relock, Scan, Return
  <2>2. AllJoined'
    BY <1>3, <2>1, LastRelock
  <2> QED BY <2>1, <2>2 DEF AllJoined, Pending
<1>4. ASSUME NEW m \in Sizes, Create(m) PROVE FALSE
  BY <1>4 DEF Create
<1>5. CASE CreateFails \/ AnyCall
  BY <1>5 DEF CreateFails, AnyCall, Spawn, CanSpawn, SpawnFails, SpawnRefused, RequestCancel
<1>6. CASE OwnerCall
  BY <1>6 DEF OwnerCall, Join, Shutdown, ShutdownDead, DestroyDead
<1>7. CASE Reap \/ MarkDead \/ Free
  BY <1>7 DEF Reap, MarkDead, Free
<1>8. ASSUME NEW i \in Slots, TaskStep(i) PROVE FALSE
  BY <1>8 DEF TaskStep, TaskStart, TaskReturn
<1> QED
  BY <1>1, <1>2, <1>3, <1>4, <1>5, <1>6, <1>7, <1>8 DEF Next, OwnerStep

\* A join answers OK exactly when nothing handed out is left to join.
THEOREM JoinVerdictHolds == Spec => JoinVerdict
<1>1. TypeInv /\ [Next]_vars => [LoopEnds => (rc' = "ok" <=> Pending(0)' = {})]_vars
  BY VerdictStep
<1> QED BY <1>1, TypeInvariant, PTL DEF Spec, JoinVerdict

(***************************************************************************)
(* Supervision.  A report is a request_cancel or leaves the nursery as it  *)
(* is, so a supervised nursery is a nursery and keeps all of the above.    *)
(***************************************************************************)
LEMMA SupStep == [SupNext]_allVars => [Next]_vars
<1> SUFFICES ASSUME [SupNext]_allVars PROVE [Next]_vars
  OBVIOUS
<1>1. CASE NurseryStep
  BY <1>1 DEF NurseryStep, Next, AnyCall
<1>2. CASE ReportOk
  BY <1>2 DEF ReportOk
<1>3. CASE ReportFailure
  BY <1>3 DEF ReportFailure, Next, AnyCall
<1>4. CASE UNCHANGED allVars
  BY <1>4 DEF allVars
<1> QED BY <1>1, <1>2, <1>3, <1>4 DEF SupNext

\* A supervised nursery is a nursery.
THEOREM SupervisedIsNursery == SupSpec => Spec
<1>1. SupInit => Init
  BY DEF SupInit
<1> QED BY <1>1, SupStep, PTL DEF SupSpec, Spec

\* Cancellation that no policy asked for belongs to a teardown that is not
\* over, which it leaves by clearing live.
IsolationInv ==
  /\ mem = "null" => ~cancel
  /\ pc = "free" => ~live
  /\ policy \notin {OneForAll, RestForOne} /\ cancel =>
       ~live \/ (op \in {"shutdown", "destroy"} /\ pc # "idle")

LEMMA IsolationStep ==
  ASSUME Platform # "posix", Platform = "windows" => ~JoinMayFail,
         TypeInv, IsolationInv, [SupNext]_allVars
  PROVE  IsolationInv'
<1> USE DEF IsolationInv, handle, tasks, owner
<1>1. CASE ReportFailure
  <2>1. CASE Cancels(policy)
    BY <1>1, <2>1
    DEF ReportFailure, RequestCancel, MayCall, Cancels, normalize_policy,
        OneForOne, OneForAll, RestForOne, Escalate
  <2>2. CASE ~Cancels(policy)
    BY <1>1, <2>2 DEF ReportFailure, vars
  <2> QED BY <2>1, <2>2
<1>2. CASE ReportOk \/ UNCHANGED allVars
  BY <1>2 DEF ReportOk, allVars, supVars, vars
<1>3. CASE NurseryStep /\ UNCHANGED supVars
  <2> USE DEF supVars
  <2>1. ASSUME NEW m \in Sizes, Create(m) PROVE IsolationInv'
    BY <1>3, <2>1 DEF Create, TypeInv, HandleAgrees
  <2>2. CASE CreateFails \/ SpawnRefused \/ SpawnFails
    BY <1>3, <2>2 DEF CreateFails, SpawnRefused, SpawnFails
  <2>3. ASSUME NEW k \in Kinds, Spawn(k) PROVE IsolationInv'
    BY <1>3, <2>3 DEF Spawn
  <2>4. CASE OwnerCall
    <3>1. ASSUME NEW o \in {"join", "timed"}, Join(o) PROVE IsolationInv'
      BY <1>3, <3>1 DEF Join
    <3>2. ASSUME NEW o \in {"shutdown", "destroy"}, Shutdown(o) PROVE IsolationInv'
      BY <1>3, <3>2 DEF Shutdown
    <3>3. CASE ShutdownDead \/ DestroyDead
      BY <1>3, <3>3 DEF ShutdownDead, DestroyDead
    <3> QED BY <2>4, <3>1, <3>2, <3>3 DEF OwnerCall
  <2>5. CASE Enter
    BY <1>3, <2>5 DEF Enter, Scan, Return
  <2>6. CASE JoinTimesOut \/ JoinFails
    BY <1>3, <2>6 DEF JoinTimesOut, JoinFails, Return
  <2>7. CASE Relock
    BY <1>3, <2>7 DEF Relock, Scan, Return, TypeInv, HandleAgrees
  <2>8. CASE Reap \/ MarkDead \/ Free
    BY <1>3, <2>8 DEF Reap, MarkDead, Free
  <2>9. ASSUME NEW i \in Slots, TaskStep(i) PROVE IsolationInv'
    BY <1>3, <2>9 DEF TaskStep, TaskStart, TaskReturn
  <2> QED
    BY <1>3, <2>1, <2>2, <2>3, <2>4, <2>5, <2>6, <2>7, <2>8, <2>9
    DEF NurseryStep, OwnerStep
<1> QED BY <1>1, <1>2, <1>3 DEF SupNext

\* Under one_for_one, escalate and what is no policy, a failed child costs
\* its siblings nothing.  The POSIX fallback of the timed join cancels by
\* itself, and a shutdown whose wait fails leaves its cancellation behind.
THEOREM IsolationHolds ==
  ASSUME Platform # "posix", Platform = "windows" => ~JoinMayFail
  PROVE  SupSpec => []Isolation
<1>1. SupInit => IsolationInv
  BY DEF SupInit, Init, IsolationInv
<1>2. TypeInv /\ IsolationInv /\ [SupNext]_allVars => IsolationInv'
  BY IsolationStep
<1>3. IsolationInv => Isolation
  BY DEF IsolationInv, Isolation, TearingDown
<1> QED BY <1>1, <1>2, <1>3, SupervisedIsNursery, TypeInvariant, PTL DEF SupSpec

(***************************************************************************)
(* The unlocked count of the pending tasks.  Slots keep their joined flag  *)
(* and n only grows, so what the loop has passed and is still pending was  *)
(* pending when it was read, and has been counted.                         *)
(***************************************************************************)
LEMMA JoinedStays ==
  ASSUME TypeInv, [Next]_vars
  PROVE  n <= n' /\ \A i \in Slots : i < n /\ joined[i] => joined'[i]
<1> USE NurseryAssumption DEF TypeInv, TypeOK, handle, tasks, owner, Slots
<1>1. ASSUME NEW m \in Sizes, Create(m) PROVE UNCHANGED <<n, joined>>
  BY <1>1 DEF Create
<1>2. CASE CreateFails \/ SpawnRefused \/ RequestCancel
  BY <1>2 DEF CreateFails, SpawnRefused, RequestCancel
<1>3. ASSUME NEW k \in Kinds, Spawn(k)
      PROVE  n <= n' /\ \A i \in Slots : i < n /\ joined[i] => joined'[i]
  BY <1>3 DEF Spawn, CanSpawn
<1>4. CASE SpawnFails
  BY <1>4 DEF SpawnFails, CanSpawn
<1>5. CASE OwnerCall
  BY <1>5 DEF OwnerCall, Join, Shutdown, ShutdownDead, DestroyDead
<1>6. CASE Relock
  BY <1>6 DEF Relock
<1>7. CASE Enter \/ Reap \/ JoinTimesOut \/ JoinFails \/ MarkDead \/ Free
  BY <1>7 DEF Enter, Reap, JoinTimesOut, JoinFails, MarkDead, Free
<1>8. ASSUME NEW i \in Slots, TaskStep(i) PROVE UNCHANGED <<n, joined>>
  BY <1>8 DEF TaskStep, TaskStart, TaskReturn
<1>9. CASE UNCHANGED vars
  BY <1>9 DEF vars
<1> QED
  BY <1>1, <1>2, <1>3, <1>4, <1>5, <1>6, <1>7, <1>8, <1>9 DEF Next, AnyCall, OwnerStep

Passed == {i \in 0 .. asked - 1 : i < at /\ ~joined[i]}

PollInv ==
  polling => /\ asked \in 0 .. n /\ at \in 0 .. n /\ count \in Nat
             /\ Cardinality(Passed) <= count

LEMMA PassedFinite ==
  ASSUME asked \in Nat
  PROVE  IsFiniteSet(Passed) /\ Cardinality(Passed) \in Nat
<1>1. IsFiniteSet(0 .. asked - 1) /\ Passed \in SUBSET (0 .. asked - 1)
  BY FS_Interval DEF Passed
<1> QED BY <1>1, FS_Subset, FS_CardinalityType

LEMMA PollStep ==
  ASSUME TypeInv, PollInv, [PollNext]_<<vars, pollVars>>
  PROVE  PollInv'
<1> USE DEF PollInv
<1>0. n \in 0 .. HardMax /\ HardMax \in Nat
  BY NurseryAssumption DEF TypeInv, TypeOK
<1>1. CASE Next /\ UNCHANGED pollVars
  <2> SUFFICES ASSUME polling PROVE PollInv'
    BY <1>1 DEF pollVars
  <2>1. Passed' \in SUBSET Passed
    <3> SUFFICES ASSUME NEW i \in Passed' PROVE i \in Passed
      OBVIOUS
    <3>1. i \in 0 .. asked - 1 /\ i < at /\ ~joined'[i]
      BY <1>1 DEF Passed, pollVars
    <3>2. i \in Slots /\ i < n
      BY <1>0, <3>1 DEF Slots
    <3> QED BY <1>1, <3>1, <3>2, JoinedStays DEF Passed
  <2>2. Cardinality(Passed') <= Cardinality(Passed) /\ Cardinality(Passed') \in Nat
    BY <1>0, <2>1, PassedFinite, FS_Subset, FS_CardinalityType
  <2>3. n' \in Nat /\ n <= n'
    BY <1>0, <1>1, JoinedStays, TypeInvNext DEF TypeInv, TypeOK
  <2> QED BY <1>0, <1>1, <2>2, <2>3, PassedFinite DEF pollVars
<1>2. CASE PollCall
  <2>1. polling' /\ asked' = n /\ at' = 0 /\ count' = 0 /\ n' = n
    BY <1>2 DEF PollCall, vars
  <2>2. Passed' = {}
    BY <1>0, <2>1 DEF Passed
  <2> QED BY <1>0, <2>1, <2>2, FS_EmptySet
<1>3. CASE PollSlot
  <2>1. /\ polling /\ at < n /\ at' = at + 1 /\ UNCHANGED <<n, joined, asked>>
        /\ count' = IF used[at] /\ ~joined[at] THEN count + 1 ELSE count
    BY <1>3 DEF PollSlot, vars
  <2>2. used[at]
    BY <1>0, <2>1 DEF TypeInv, SlotsAgree, Slots
  <2>3. IsFiniteSet(Passed) /\ Cardinality(Passed) \in Nat
    BY <1>0, <2>1, PassedFinite
  <2>4. CASE joined[at]
    <3>1. Passed' = Passed
      BY <1>0, <2>1, <2>4 DEF Passed
    <3> QED BY <1>0, <2>1, <2>2, <2>4, <3>1
  <2>5. CASE ~joined[at]
    <3>1. Passed' \in SUBSET (Passed \cup {at})
      BY <1>0, <2>1 DEF Passed
    <3>2. IsFiniteSet(Passed \cup {at}) /\ Cardinality(Passed \cup {at}) <= Cardinality(Passed) + 1
      BY <2>3, FS_AddElement
    <3>3. Cardinality(Passed') <= Cardinality(Passed) + 1
      BY <2>3, <3>1, <3>2, FS_Subset, FS_CardinalityType
    <3>4. Cardinality(Passed') \in Nat
      BY <3>1, <3>2, FS_Subset, FS_CardinalityType
    <3> QED BY <1>0, <2>1, <2>2, <2>3, <2>5, <3>3, <3>4
  <2> QED BY <2>4, <2>5
<1>4. CASE PollReturn
  BY <1>4 DEF PollReturn
<1>5. CASE UNCHANGED <<vars, pollVars>>
  BY <1>5 DEF vars, pollVars, Passed
<1> QED BY <1>1, <1>2, <1>3, <1>4, <1>5 DEF PollNext

\* The unlocked count misses no task that is pending when it answers.
THEOREM NeverUndercountsHolds == PollSpec => NeverUndercounts
<1> DEFINE Counted == PollReturn => Cardinality({i \in 0 .. asked - 1 : ~joined[i]}) <= count
<1>1. PollInit => TypeInv /\ PollInv
  BY TypeInvInit DEF PollInit, PollInv
<1>2. TypeInv /\ PollInv /\ [PollNext]_<<vars, pollVars>> => TypeInv' /\ PollInv'
  <2>1. [PollNext]_<<vars, pollVars>> => [Next]_vars
    BY DEF PollNext, PollCall, PollSlot, PollReturn, vars
  <2> QED BY <2>1, TypeInvNext, PollStep
<1>3. TypeInv /\ PollInv /\ [PollNext]_<<vars, pollVars>> => [Counted]_<<vars, pollVars>>
  <2> SUFFICES ASSUME TypeInv, PollInv, PollReturn
               PROVE  Cardinality({i \in 0 .. asked - 1 : ~joined[i]}) <= count
    OBVIOUS
  <2>1. polling /\ at >= n /\ asked \in 0 .. n /\ at \in 0 .. n /\ n \in Nat
    BY DEF PollReturn, PollInv, TypeInv, TypeOK
  <2>2. {i \in 0 .. asked - 1 : ~joined[i]} = Passed
    BY <2>1 DEF Passed
  <2> QED BY <2>1, <2>2 DEF PollInv
<1> QED BY <1>1, <1>2, <1>3, PTL DEF PollSpec, NeverUndercounts
=============================================================================
