------------------------------ MODULE Nursery ------------------------------
(***************************************************************************)
(* The structured task nursery, host/concur/fx_task_nursery.c: an array of *)
(* at most cap slots, one OS thread per slot, that must all be joined      *)
(* before the nursery is torn down.                                        *)
(*                                                                         *)
(* A critical section of the nursery's mutex is one step.  The mutex is    *)
(* not held while the owner is blocked in pthread_join, between the two    *)
(* critical sections of shutdown, nor between join_all's last section and  *)
(* the one that clears live, so those are separate steps, told apart by    *)
(* pc.                                                                     *)
(*                                                                         *)
(* One thread, the owner, creates, joins and destroys the nursery.  Tasks  *)
(* may spawn siblings and request cancellation; so may other threads of    *)
(* the host when OutsideCallers is TRUE.                                   *)
(***************************************************************************)
EXTENDS Integers, FiniteSets

CONSTANTS
  HardMax,         \* FX_NURSERY_HARD_MAX
  Sizes,           \* the arguments of create_sized
  Kinds,           \* the task bodies the host passes to spawn
  Platform,        \* which #if branch of join_one is compiled
  JoinMayFail,     \* the system's timed join or wait may report an error
  OutsideCallers   \* threads outside the nursery hold the handle

ASSUME NurseryAssumption ==
  /\ HardMax \in Nat \ {0}
  /\ Sizes \subseteq Int
  /\ Kinds \subseteq {"finite", "poll", "stuck"}
  /\ Platform \in {"linux", "posix", "windows"}
  /\ JoinMayFail \in BOOLEAN
  /\ OutsideCallers \in BOOLEAN

VARIABLES
  mem,      \* the handle: "null", "live" or "freed"
  live,     \* n->live
  cancel,   \* n->cancel
  n,        \* n->n, slots handed out; never decreases
  cap,      \* n->cap
  used,     \* slots[i].used
  joined,   \* slots[i].joined
  thr,      \* the OS thread of slot i
  kind,     \* the body slot i runs
  op,       \* the owner's call in progress
  pc,       \* where the owner is in it
  idx,      \* its loop variable i
  rc        \* the status the last call of any thread returned

vars == <<mem, live, cancel, n, cap, used, joined, thr, kind, op, pc, idx, rc>>
handle == <<mem, live, cap>>
tasks  == <<n, used, joined, thr, kind>>
owner  == <<op, pc, idx>>

Slots == 0 .. HardMax - 1

\* Threads that still run code of the nursery (the trampoline reads the slot).
Alive == {i \in Slots : thr[i] \in {"created", "running"}}

TypeOK ==
  /\ mem \in {"null", "live", "freed"}
  /\ live \in BOOLEAN
  /\ cancel \in BOOLEAN
  /\ n \in 0 .. HardMax
  /\ cap \in 0 .. HardMax
  /\ used \in [Slots -> BOOLEAN]
  /\ joined \in [Slots -> BOOLEAN]
  /\ thr \in [Slots -> {"none", "created", "running", "done", "reaped"}]
  /\ kind \in [Slots -> {"finite", "poll", "stuck"}]
  /\ op \in {"none", "join", "timed", "shutdown", "destroy"}
  /\ pc \in {"idle", "enter", "wait", "relock", "mark", "free"}
  /\ idx \in 0 .. HardMax
  /\ rc \in {"none", "ok", "err", "full", "dead", "timeout"}

Init ==
  /\ mem = "null"
  /\ live = FALSE
  /\ cancel = FALSE
  /\ n = 0
  /\ cap = 0
  /\ used = [i \in Slots |-> FALSE]
  /\ joined = [i \in Slots |-> FALSE]
  /\ thr = [i \in Slots |-> "none"]
  /\ kind = [i \in Slots |-> "finite"]
  /\ op = "none"
  /\ pc = "idle"
  /\ idx = 0
  /\ rc = "none"

(***************************************************************************)
(* Creation.  A size out of range, a failed calloc or a failed             *)
(* pthread_mutex_init return NULL.                                         *)
(***************************************************************************)
Create(m) ==
  /\ mem = "null"
  /\ m \in 1 .. HardMax
  /\ mem' = "live"
  /\ live' = TRUE
  /\ cap' = m
  /\ rc' = "ok"
  /\ UNCHANGED <<cancel, tasks, owner>>

CreateFails ==
  /\ mem = "null"
  /\ rc' = "err"
  /\ UNCHANGED <<handle, cancel, tasks, owner>>

(***************************************************************************)
(* Calls any holder of the handle may make: the owner between two calls of *)
(* its own, a running task, another thread of the host.  Using the handle  *)
(* after destroy was called is outside the contract of the header, but a   *)
(* task only stops holding it when it is done.                             *)
(***************************************************************************)
MayCall ==
  /\ mem = "live"
  /\ \/ pc = "idle"
     \/ \E i \in Slots : thr[i] = "running"
     \/ OutsideCallers /\ op # "destroy"

\* Mutant of CanSpawn: the live test is dropped.
CanSpawnInTomb == n < cap

CanSpawn == live /\ n < cap

Spawn(k) ==
  /\ MayCall
  /\ CanSpawn
  /\ used' = [used EXCEPT ![n] = TRUE]
  /\ joined' = [joined EXCEPT ![n] = FALSE]
  /\ thr' = [thr EXCEPT ![n] = "created"]
  /\ kind' = [kind EXCEPT ![n] = k]
  /\ n' = n + 1
  /\ rc' = "ok"
  /\ UNCHANGED <<handle, cancel, owner>>

\* Mutant of SpawnFails: the used flag is not put back.
SpawnFailsKeepsUsed ==
  /\ MayCall
  /\ CanSpawn
  /\ used' = [used EXCEPT ![n] = TRUE]
  /\ joined' = [joined EXCEPT ![n] = FALSE]
  /\ rc' = "err"
  /\ UNCHANGED <<handle, cancel, n, thr, kind, owner>>

\* pthread_create failed: the slot was wiped and its used flag is put back.
SpawnFails ==
  /\ MayCall
  /\ CanSpawn
  /\ used' = [used EXCEPT ![n] = FALSE]
  /\ joined' = [joined EXCEPT ![n] = FALSE]
  /\ rc' = "err"
  /\ UNCHANGED <<handle, cancel, n, thr, kind, owner>>

SpawnRefused ==
  /\ MayCall
  /\ \/ ~live /\ rc' = "dead"
     \/ live /\ n >= cap /\ rc' = "full"
  /\ UNCHANGED <<handle, cancel, tasks, owner>>

RequestCancel ==
  /\ MayCall
  /\ IF live
       THEN cancel' = TRUE /\ rc' = "ok"
       ELSE rc' = "dead" /\ UNCHANGED cancel
  /\ UNCHANGED <<handle, tasks, owner>>

(***************************************************************************)
(* The threads.  fx_nursery_tramp reads fn and arg from the slot, then the *)
(* body runs.  A "finite" body returns by itself, a "poll" body once it    *)
(* sees cancel_requested, a "stuck" body never does.                       *)
(***************************************************************************)
TaskStart(i) ==
  /\ thr[i] = "created"
  /\ thr' = [thr EXCEPT ![i] = "running"]
  /\ UNCHANGED <<handle, cancel, n, used, joined, kind, owner, rc>>

BodyReturns(i) ==
  \/ kind[i] = "finite"
  \/ kind[i] = "poll" /\ cancel

TaskReturn(i) ==
  /\ thr[i] = "running"
  /\ BodyReturns(i)
  /\ thr' = [thr EXCEPT ![i] = "done"]
  /\ UNCHANGED <<handle, cancel, n, used, joined, kind, owner, rc>>

(***************************************************************************)
(* join_all, join_all_timeout, shutdown and destroy share one loop.        *)
(* Return(r) is what the enclosing call does with the status r of the      *)
(* loop; destroy ignores it.                                               *)
(***************************************************************************)
Return(r) ==
  /\ pc' = IF op \in {"shutdown", "destroy"} /\ r = "ok" THEN "mark"
           ELSE IF op = "destroy" THEN "free"
           ELSE "idle"
  /\ rc' = r
  /\ UNCHANGED <<op, idx>>

\* Mutant of Pending: the joined flag is not looked at.
PendingAgain(k) == {i \in Slots : k <= i /\ i < n /\ used[i]}

Pending(k) == {i \in Slots : k <= i /\ i < n /\ used[i] /\ ~joined[i]}

\* Mutant of Scan: the POSIX fallback blocks without asking for cancellation.
ScanWithoutCancel(k) ==
  IF Pending(k) = {}
    THEN Return("ok") /\ UNCHANGED cancel
    ELSE /\ \E i \in Pending(k) : /\ \A j \in Pending(k) : i <= j
                                  /\ idx' = i
         /\ pc' = "wait"
         /\ UNCHANGED <<cancel, op, rc>>

\* The loop from index k up to the next blocking join, or to its end.  The
\* POSIX fallback of the timed join asks for cancellation before it blocks.
Scan(k) ==
  IF Pending(k) = {}
    THEN Return("ok") /\ UNCHANGED cancel
    ELSE /\ \E i \in Pending(k) : /\ \A j \in Pending(k) : i <= j
                                  /\ idx' = i
         /\ pc' = "wait"
         /\ cancel' = (cancel \/ (op = "timed" /\ Platform = "posix"))
         /\ UNCHANGED <<op, rc>>

Join(o) ==
  /\ pc = "idle"
  /\ mem = "live"
  /\ op' = o
  /\ pc' = "enter"
  /\ UNCHANGED <<handle, cancel, tasks, idx, rc>>

\* Mutants of Shutdown: the tombstone comes first; no cancellation.
ShutdownTombFirst(o) ==
  /\ pc = "idle"
  /\ mem = "live"
  /\ live
  /\ cancel' = TRUE
  /\ live' = FALSE
  /\ op' = o
  /\ pc' = "enter"
  /\ UNCHANGED <<mem, cap, tasks, idx, rc>>

ShutdownWithoutCancel(o) ==
  /\ pc = "idle"
  /\ mem = "live"
  /\ live
  /\ op' = o
  /\ pc' = "enter"
  /\ UNCHANGED <<handle, cancel, tasks, idx, rc>>

\* The first critical section of shutdown, also when destroy calls it.
Shutdown(o) ==
  /\ pc = "idle"
  /\ mem = "live"
  /\ live
  /\ cancel' = TRUE
  /\ op' = o
  /\ pc' = "enter"
  /\ UNCHANGED <<handle, tasks, idx, rc>>

ShutdownDead ==
  /\ pc = "idle"
  /\ mem = "live"
  /\ ~live
  /\ rc' = "dead"
  /\ UNCHANGED <<handle, cancel, tasks, owner>>

\* Mutant of DestroyDead: destroy frees a live nursery too.
DestroyAnyway ==
  /\ pc = "idle"
  /\ mem = "live"
  /\ op' = "destroy"
  /\ pc' = "free"
  /\ UNCHANGED <<handle, cancel, tasks, idx, rc>>

\* destroy reads live without the lock.
DestroyDead ==
  /\ pc = "idle"
  /\ mem = "live"
  /\ ~live
  /\ op' = "destroy"
  /\ pc' = "free"
  /\ UNCHANGED <<handle, cancel, tasks, idx, rc>>

\* Mutant of Enter: destroy does not join.
EnterWithoutJoin ==
  /\ pc = "enter"
  /\ IF live /\ op # "destroy"
       THEN Scan(0)
       ELSE Return(IF live THEN "ok" ELSE "dead") /\ UNCHANGED cancel
  /\ UNCHANGED <<handle, tasks>>

Enter ==
  /\ pc = "enter"
  /\ IF live THEN Scan(0) ELSE Return("dead") /\ UNCHANGED cancel
  /\ UNCHANGED <<handle, tasks>>

\* The system's join returns; the mutex is not held.
Reap ==
  /\ pc = "wait"
  /\ thr[idx] = "done"
  /\ thr' = [thr EXCEPT ![idx] = "reaped"]
  /\ pc' = "relock"
  /\ UNCHANGED <<handle, cancel, n, used, joined, kind, op, idx, rc>>

JoinTimesOut ==
  /\ pc = "wait"
  /\ op = "timed"
  /\ Platform # "posix"
  /\ Return("timeout")
  /\ UNCHANGED <<handle, cancel, tasks>>

\* Linux: clock_gettime or pthread_timedjoin_np fails.  Windows: any wait
\* may return WAIT_FAILED.
JoinFails ==
  /\ pc = "wait"
  /\ JoinMayFail
  /\ \/ Platform = "linux" /\ op = "timed"
     \/ Platform = "windows"
  /\ Return("err")
  /\ UNCHANGED <<handle, cancel, tasks>>

\* Mutant of Relock: the loop ends after the first thread.
RelockOnce ==
  /\ pc = "relock"
  /\ joined' = [joined EXCEPT ![idx] = TRUE]
  /\ Return("ok")
  /\ UNCHANGED <<handle, cancel, n, used, thr, kind>>

Relock ==
  /\ pc = "relock"
  /\ joined' = [joined EXCEPT ![idx] = TRUE]
  /\ Scan(idx + 1)
  /\ UNCHANGED <<handle, n, used, thr, kind>>

\* The last critical section of shutdown.
MarkDead ==
  /\ pc = "mark"
  /\ live' = FALSE
  /\ pc' = IF op = "destroy" THEN "free" ELSE "idle"
  /\ rc' = "ok"
  /\ UNCHANGED <<mem, cap, cancel, tasks, op, idx>>

Free ==
  /\ pc = "free"
  /\ mem' = "freed"
  /\ pc' = "idle"
  /\ UNCHANGED <<live, cap, cancel, tasks, op, idx, rc>>

TaskStep(i) == TaskStart(i) \/ TaskReturn(i)

OwnerStep ==
  \/ Enter
  \/ Reap
  \/ JoinTimesOut
  \/ Relock
  \/ MarkDead
  \/ Free

OwnerCall ==
  \/ \E o \in {"join", "timed"} : Join(o)
  \/ \E o \in {"shutdown", "destroy"} : Shutdown(o)
  \/ ShutdownDead
  \/ DestroyDead

AnyCall ==
  \/ \E k \in Kinds : Spawn(k)
  \/ SpawnFails
  \/ SpawnRefused
  \/ RequestCancel

Next ==
  \/ \E m \in Sizes : Create(m)
  \/ CreateFails
  \/ AnyCall
  \/ OwnerCall
  \/ OwnerStep
  \/ JoinFails
  \/ \E i \in Slots : TaskStep(i)

Spec == Init /\ [][Next]_vars

(***************************************************************************)
(* The scheduler runs every thread that can run, the owner's included, and *)
(* a timed join that waits long enough times out.  Nothing obliges anyone  *)
(* to make a call, nor a call of the system to fail.                       *)
(***************************************************************************)
Fairness ==
  /\ WF_vars(OwnerStep)
  /\ \A i \in Slots : WF_vars(TaskStep(i))

FairSpec == Spec /\ Fairness

(***************************************************************************)
(* Properties.                                                             *)
(***************************************************************************)

\* "Join all, mark dead" (fx_task_nursery.h): once live is cleared no slot
\* waits to be joined and no thread runs, although shutdown drops the mutex
\* between the end of its joins and the store to live (335-341).
DeadMeansJoined == mem = "live" /\ ~live => Alive = {} /\ Pending(0) = {}

\* Join before teardown: when destroy has freed the slots (358-359) every
\* thread ever created has been reaped, so no trampoline or body can touch
\* the freed array and no thread is leaked.
NoThreadOutlives == mem = "freed" => \A i \in Slots : thr[i] \in {"none", "reaped"}

\* The system's join is called on a thread only while that thread has not
\* been joined before (196-260): a second join of the same pthread_t is
\* undefined.
JoinedOnce == pc = "wait" => thr[idx] \in {"created", "running", "done"}

\* What the status of a join says is true when its last critical section
\* ends: OK, every slot handed out is joined, those spawned while the loop
\* was blocked too; any other status, some slot is still pending (262-319).
LoopEnds ==
  live /\ pc \in {"enter", "wait", "relock"} /\ pc' \in {"idle", "mark", "free"}

JoinVerdict == [][LoopEnds => (rc' = "ok" <=> Pending(0)' = {})]_vars

\* A tombstone never changes again but for being freed: no spawn succeeds,
\* no thread moves, no flag flips (spawn, request_cancel and join_all check
\* live in the section that would act).
TombstoneFrozen ==
  [][mem = "live" /\ ~live => UNCHANGED <<live, cancel, cap, tasks>>]_vars

\* What no call can help: it waits for a body that never ends.
BehindStuckTask == pc = "wait" /\ thr[idx] = "running" /\ kind[idx] = "stuck"

\* A shutdown or destroy that was entered returns unless it meets a body
\* that never ends: the cancel flag reaches every polling task, and tasks
\* that keep spawning siblings run out of slots, since n never decreases and
\* is bounded by cap.
ShutdownReturns ==
  (op \in {"shutdown", "destroy"} /\ pc # "idle") ~> (pc = "idle" \/ BehindStuckTask)

\* The portable timed join cannot time out (251-257), yet it returns like a
\* shutdown does, since it asks for cancellation before it blocks; the other
\* two return whatever their tasks do.
TimedJoinReturns ==
  (op = "timed" /\ pc # "idle") ~>
    (pc = "idle" \/ (Platform = "posix" /\ BehindStuckTask))

\* The nursery implements the structured scope of NurseryScope.
Phase ==
  CASE mem = "null"  -> "none"
    [] mem = "freed" -> "freed"
    [] mem = "live"  -> IF live THEN "open" ELSE "closed"

Scope == INSTANCE NurseryScope WITH phase <- Phase, active <- Alive, Tasks <- Slots
ImplementsScope == Scope!Spec

(***************************************************************************)
(* The inductive invariant behind those properties.  TypeInv needs nothing *)
(* of the constants; ScopeInv needs a sound host.                          *)
(***************************************************************************)

\* Slots are handed out in order, and a slot's flags agree with its thread
\* but for the moment between the system's join and the store to joined.
SlotsAgree ==
  \A i \in Slots :
    /\ used[i] <=> i < n
    /\ thr[i] = "none" <=> i >= n
    /\ joined[i] => thr[i] = "reaped"
    /\ thr[i] = "reaped" => joined[i] \/ (pc = "relock" /\ idx = i)

HandleAgrees ==
  /\ mem = "null" => n = 0 /\ pc = "idle" /\ ~live
  /\ mem = "live" => n <= cap
  /\ pc # "idle" => mem = "live"

\* The loop has left only joined slots behind it.
LoopAgrees ==
  /\ pc \in {"wait", "relock"} => /\ live
                                  /\ idx < n
                                  /\ ~joined[idx]
                                  /\ \A j \in Slots : j < idx => joined[j]
  /\ pc = "wait" => thr[idx] # "reaped"
  /\ pc = "relock" => thr[idx] = "reaped"

TypeInv == TypeOK /\ SlotsAgree /\ HandleAgrees /\ LoopAgrees

AllJoined == \A i \in Slots : i < n => joined[i]

\* From the end of shutdown's joins on, nobody is left to spawn.
ScopeInv ==
  /\ pc = "mark" => live /\ AllJoined
  /\ pc = "free" => AllJoined /\ ~live
  /\ pc = "enter" /\ op \in {"shutdown", "destroy"} => live
  /\ mem = "live" /\ ~live => AllJoined
  /\ mem = "freed" => AllJoined /\ ~live

Inductive == TypeInv /\ ScopeInv

\* The handle stays with the owner and the tasks, and a wait on a thread the
\* nursery created does not fail.
SoundHost == ~OutsideCallers /\ (Platform = "windows" => ~JoinMayFail)

=============================================================================
