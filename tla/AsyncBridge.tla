---------------------------- MODULE AsyncBridge ----------------------------
(***************************************************************************)
(* host/concur/fx_async_bridge.c: the calls std/nursery, std/chan and      *)
(* std/mailbox make, composed of a Nursery and a Channel.  One thread of   *)
(* the program, Main, owns both; the tasks it spawns either store a value  *)
(* in a slot of their own or send one into the box, which is a channel or  *)
(* a mailbox (fx_mailbox.c), a channel behind a pointer.                   *)
(*                                                                         *)
(* Main's receives go to a fresh slot that only the facade reads, right    *)
(* after the call: what it holds is the value in the channel's ret.        *)
(***************************************************************************)
EXTENDS Integers, FiniteSets, Sequences

CONSTANTS
  HardMax,    \* slots of the nursery
  ChanCap,    \* the argument of chan_create
  TaskVals,   \* the values tasks carry
  Half        \* 2^31

ASSUME BridgeAssumption ==
  /\ HardMax \in Nat \ {0}
  /\ ChanCap \in Int
  /\ TaskVals \subseteq Int
  /\ Half \in Nat \ {0}

VARIABLES
  mem, live, cancel, n, cap, used, joined, thr, kind, op, pc, idx, rc,  \* Nursery
  cmem, buf, ccap, len, head, closed, cpc, arg, wide, ret,             \* Channel
  box,       \* "none", "channel" or "mailbox": what Main created
  body,      \* per task: "store", "send", or "none" before it is spawned
  fresh,     \* per task: its body has not finished, and its arg is not freed
  val,       \* per task: the value its arg carries
  slot       \* per task: slots[i].value, calloc'ed, never freed

nurVars == <<mem, live, cancel, n, cap, used, joined, thr, kind, op, pc, idx, rc>>
chanVars == <<cmem, buf, ccap, len, head, closed, cpc, arg, wide, ret>>
taskVars == <<body, fresh, val, slot>>
vars == <<nurVars, chanVars, box, taskVars>>

Tasks == 0 .. HardMax - 1
Main == HardMax

\* The nursery's own view of a body is "finite": when it ends is decided here.
N == INSTANCE Nursery WITH
  Sizes <- {HardMax}, Kinds <- {"finite"}, Platform <- "linux",
  JoinMayFail <- FALSE, OutsideCallers <- FALSE

C == INSTANCE Channel WITH
  Threads <- Tasks \cup {Main}, Requests <- {ChanCap}, Values <- TaskVals,
  mem <- cmem, cap <- ccap, pc <- cpc

Init ==
  /\ N!Init
  /\ C!Init
  /\ box = "none"
  /\ body = [i \in Tasks |-> "none"]
  /\ fresh = [i \in Tasks |-> FALSE]
  /\ val = [i \in Tasks |-> 0]
  /\ slot = [i \in Tasks |-> 0]

(***************************************************************************)
(* The calls of a channel and of a mailbox.  create fails like the         *)
(* channel's; a mailbox whose channel cannot be had is freed again.  A     *)
(* mailbox has no int64 calls.                                             *)
(***************************************************************************)
ChanCreate == C!Create(ChanCap) /\ box' = "channel"
MbCreate == C!Create(ChanCap) /\ box' = "mailbox"

ChanSend(t, v) == box = "channel" /\ C!Send(t, v)
MbSend(t, v) == box = "mailbox" /\ C!Send(t, v)
Send(t, v) == ChanSend(t, v) \/ MbSend(t, v)

ChanRecv(w) == box = "channel" /\ C!Recv(Main, w)
MbRecv == box = "mailbox" /\ C!Recv(Main, FALSE)

\* The struct of a mailbox goes with its channel.
BoxDestroy == C!Destroy /\ box' = "none"

\* Main is in no call of its own.
MainFree == pc = "idle" /\ cpc[Main] = "idle"

(***************************************************************************)
(* spawn_add, spawn_send, spawn_mb_send: the arg is malloced, then spawn.  *)
(* When spawn refuses, the arg is left behind.                             *)
(***************************************************************************)
SpawnTask(b, v) ==
  /\ MainFree
  /\ b = "send" => box # "none"
  /\ N!Spawn("finite")
  /\ body' = [body EXCEPT ![n] = b]
  /\ fresh' = [fresh EXCEPT ![n] = TRUE]
  /\ val' = [val EXCEPT ![n] = v]
  /\ UNCHANGED <<chanVars, box, slot>>

(***************************************************************************)
(* The bodies: fx_async_store_task, and fx_async_send_task with            *)
(* fx_async_mb_send_task.  The send's status is ignored.                   *)
(***************************************************************************)
StoreTask(i) ==
  /\ thr[i] = "running" /\ fresh[i] /\ body[i] = "store"
  /\ slot' = [slot EXCEPT ![i] = val[i]]
  /\ fresh' = [fresh EXCEPT ![i] = FALSE]
  /\ UNCHANGED <<nurVars, chanVars, box, body, val>>

SendTask(i) ==
  /\ thr[i] = "running" /\ fresh[i] /\ body[i] = "send"
  /\ Send(i, val[i])
  /\ fresh' = [fresh EXCEPT ![i] = (cpc'[i] # "idle")]
  /\ UNCHANGED <<nurVars, box, body, val, slot>>

\* Mutant of TaskReturn: the thread ends before its body has.
ReturnsEarly(i) ==
  /\ N!TaskReturn(i)
  /\ UNCHANGED <<chanVars, box, taskVars>>

TaskReturn(i) ==
  /\ ~fresh[i]
  /\ N!TaskReturn(i)
  /\ UNCHANGED <<chanVars, box, taskVars>>

TaskStart(i) == N!TaskStart(i) /\ UNCHANGED <<chanVars, box, taskVars>>

\* A refused spawn leaks the arg; no state of the program refers to it.
SpawnRefused ==
  /\ MainFree
  /\ N!SpawnFails \/ N!SpawnRefused
  /\ UNCHANGED <<chanVars, box, taskVars>>

(***************************************************************************)
(* Main.  It destroys the box when the nursery is dead or gone.            *)
(***************************************************************************)
MainNursery ==
  /\ MainFree
  /\ \/ N!Create(HardMax)
     \/ \E o \in {"join", "timed"} : N!Join(o)
     \/ \E o \in {"shutdown", "destroy"} : N!Shutdown(o)
     \/ N!DestroyDead
     \/ N!RequestCancel
  /\ UNCHANGED <<chanVars, box, taskVars>>

MainBox ==
  /\ MainFree
  /\ \/ ChanCreate \/ MbCreate
     \/ /\ \/ \E v \in TaskVals : Send(Main, v)
           \/ \E w \in BOOLEAN : ChanRecv(w)
           \/ MbRecv
           \/ C!Close(Main)
        /\ UNCHANGED box
  /\ UNCHANGED <<nurVars, taskVars>>

MainDestroysBox ==
  /\ MainFree
  /\ mem = "freed" \/ (mem = "live" /\ ~live)
  /\ BoxDestroy
  /\ UNCHANGED <<nurVars, taskVars>>

MainResumes ==
  /\ C!Resume(Main)
  /\ UNCHANGED <<nurVars, box, taskVars>>

\* Whoever sleeps in the channel may wake for no reason.
Wakes(t) ==
  /\ C!Spurious(t)
  /\ UNCHANGED <<nurVars, box, taskVars>>

MainInNursery == N!OwnerStep /\ UNCHANGED <<chanVars, box, taskVars>>

TaskStep(i) == TaskStart(i) \/ StoreTask(i) \/ SendTask(i) \/ TaskReturn(i)

Next ==
  \/ \E b \in {"store", "send"}, v \in TaskVals : SpawnTask(b, v)
  \/ SpawnRefused
  \/ MainNursery
  \/ MainBox
  \/ MainDestroysBox
  \/ MainResumes
  \/ MainInNursery
  \/ \E t \in Tasks \cup {Main} : Wakes(t)
  \/ \E i \in Tasks : TaskStep(i)

Spec == Init /\ [][Next]_vars

\* Every thread that can run does; Main's calls are its own choice.
FairSpec ==
  /\ Spec
  /\ WF_vars(MainInNursery)
  /\ WF_vars(MainResumes)
  /\ \A i \in Tasks : WF_vars(TaskStep(i))

(***************************************************************************)
(* Properties.                                                             *)
(***************************************************************************)

\* await_i32 after join_all reads what the task was spawned with, and a task
\* that was joined has freed its arg (std/nursery.fx 62-65).
AwaitSeesStore ==
  \A i \in Tasks : joined[i] =>
    /\ ~fresh[i]
    /\ body[i] = "store" => slot[i] = val[i]

\* Once the nursery is dead no task is left inside the channel, so that the
\* channel can be destroyed then; before, a sender may be asleep in it.
NobodyInChannel ==
  mem = "freed" \/ (mem = "live" /\ ~live) => \A i \in Tasks : cpc[i] = "idle"

\* The cancel flag does not reach a sender blocked on a full channel, but
\* closing the channel first makes every teardown end.
CloseThenShutdown ==
  closed /\ op \in {"shutdown", "destroy"} /\ pc # "idle" ~> pc = "idle"

=============================================================================
