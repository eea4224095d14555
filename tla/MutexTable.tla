----------------------------- MODULE MutexTable -----------------------------
(***************************************************************************)
(* host/concur/fx_mutex.c: a fixed table of mutexes behind small integer   *)
(* handles.  The table has no lock of its own, so each read and each write *)
(* of an entry is a step.                                                  *)
(*                                                                         *)
(* The use that is modelled: one thread creates and destroys.  It destroys *)
(* a mutex that nobody owns and on which no call is in progress.  Every    *)
(* thread may call lock at any time with any handle, also one that was     *)
(* destroyed, is being destroyed or belongs by now to another mutex; it    *)
(* does not lock what it owns, and unlocks only that.                      *)
(*                                                                         *)
(* The entries are plain ints: two stores with no call between them may be *)
(* seen in either order.                                                   *)
(***************************************************************************)
EXTENDS Integers

CONSTANTS
  SlotCount,  \* FX_MUTEX_SLOTS
  Threads,
  Creator,    \* the thread that creates and destroys
  Nobody      \* the holder of a free mutex

ASSUME MutexAssumption ==
  /\ SlotCount \in Nat \ {0}
  /\ Creator \in Threads
  /\ Nobody \notin Threads
  /\ "raw" \notin Threads \cup {Nobody}

VARIABLES
  used,    \* g_used
  alive,   \* g_slots[i].alive
  mu,      \* g_slots[i].mu: "raw" before init and after destroy, or its holder
  pc,      \* per thread: the next step of its call
  at,      \* per thread: the slot its call is about
  owns     \* history: <<t, h>> when t was told it locked h, until it unlocks

vars == <<used, alive, mu, pc, at, owns>>
entries == <<used, alive, mu, owns>>

\* A handle is the index of its slot plus one.
Slots == 1 .. SlotCount

Init ==
  /\ used = [h \in Slots |-> FALSE]
  /\ alive = [h \in Slots |-> FALSE]
  /\ mu = [h \in Slots |-> "raw"]
  /\ pc = [t \in Threads |-> "idle"]
  /\ at = [t \in Threads |-> 1]
  /\ owns = {}

Goto(t, s) == pc' = [pc EXCEPT ![t] = s] /\ UNCHANGED at

Call(t, s, h) ==
  /\ pc[t] = "idle"
  /\ pc' = [pc EXCEPT ![t] = s]
  /\ at' = [at EXCEPT ![t] = h]

(***************************************************************************)
(* create: scan for an entry that is not used, set it up.                  *)
(***************************************************************************)
CreateCall == Call(Creator, "scan", 1) /\ UNCHANGED entries

ScanUsed ==
  /\ pc[Creator] = "scan"
  /\ at[Creator] \in Slots /\ used[at[Creator]]
  /\ at' = [at EXCEPT ![Creator] = @ + 1]
  /\ UNCHANGED <<entries, pc>>

CreateFull ==
  /\ pc[Creator] = "scan"
  /\ at[Creator] > SlotCount
  /\ Goto(Creator, "idle")
  /\ UNCHANGED entries

\* pthread_mutex_init; when it fails the entry is left as it was.
InitMutex ==
  /\ pc[Creator] = "scan"
  /\ at[Creator] \in Slots /\ ~used[at[Creator]]
  /\ \/ mu' = [mu EXCEPT ![at[Creator]] = Nobody] /\ Goto(Creator, "init")
     \/ UNCHANGED mu /\ Goto(Creator, "idle")
  /\ UNCHANGED <<used, alive, owns>>

SetAlive ==
  /\ pc[Creator] \in {"init", "used"}
  /\ alive' = [alive EXCEPT ![at[Creator]] = TRUE]
  /\ Goto(Creator, IF pc[Creator] = "init" THEN "alive" ELSE "idle")
  /\ UNCHANGED <<used, mu, owns>>

SetUsed ==
  /\ pc[Creator] \in {"init", "alive"}
  /\ used' = [used EXCEPT ![at[Creator]] = TRUE]
  /\ Goto(Creator, IF pc[Creator] = "init" THEN "used" ELSE "idle")
  /\ UNCHANGED <<alive, mu, owns>>

(***************************************************************************)
(* destroy: a handle whose entry is not used is refused.                   *)
(***************************************************************************)
InUse(h) ==
  {t \in Threads : <<t, h>> \in owns \/ (pc[t] \in {"looked", "lock"} /\ at[t] = h)}

\* Mutant of DestroyCall: alive is left to the memset.
DestroyCallKeepsAlive(h) ==
  /\ used[h]
  /\ InUse(h) = {}
  /\ Call(Creator, "dead", h)
  /\ UNCHANGED entries

DestroyCall(h) ==
  /\ used[h]
  /\ InUse(h) = {}
  /\ Call(Creator, "dead", h)
  /\ alive' = [alive EXCEPT ![h] = FALSE]
  /\ UNCHANGED <<used, mu, owns>>

DestroyMutex ==
  /\ pc[Creator] = "dead"
  /\ mu' = [mu EXCEPT ![at[Creator]] = "raw"]
  /\ Goto(Creator, "wipe")
  /\ UNCHANGED <<used, alive, owns>>

\* memset
Wipe ==
  /\ pc[Creator] = "wipe"
  /\ alive' = [alive EXCEPT ![at[Creator]] = FALSE]
  /\ Goto(Creator, "unuse")
  /\ UNCHANGED <<used, mu, owns>>

\* Mutants of ClearUsed: the entry stays used; the handle is taken for the
\* index, so that the next one is freed.
ClearNothing ==
  /\ pc[Creator] = "unuse"
  /\ Goto(Creator, "idle")
  /\ UNCHANGED entries
ClearNext ==
  /\ pc[Creator] = "unuse"
  /\ used' = [h \in Slots |-> used[h] /\ h # at[Creator] + 1]
  /\ Goto(Creator, "idle")
  /\ UNCHANGED <<alive, mu, owns>>

ClearUsed ==
  /\ pc[Creator] = "unuse"
  /\ used' = [used EXCEPT ![at[Creator]] = FALSE]
  /\ Goto(Creator, "idle")
  /\ UNCHANGED <<alive, mu, owns>>

(***************************************************************************)
(* lock: slot_mut reads used, then alive; then pthread_mutex_lock, which   *)
(* waits for the holder.                                                   *)
(***************************************************************************)
LookUsed(t, h) ==
  /\ <<t, h>> \notin owns
  /\ used[h] /\ Call(t, "looked", h)
  /\ UNCHANGED entries

LookAlive(t) ==
  /\ pc[t] = "looked"
  /\ Goto(t, IF alive[at[t]] THEN "lock" ELSE "idle")
  /\ UNCHANGED entries

Lock(t) ==
  /\ pc[t] = "lock"
  /\ mu[at[t]] \notin Threads
  /\ mu' = [mu EXCEPT ![at[t]] = t]
  /\ owns' = owns \cup {<<t, at[t]>>}
  /\ Goto(t, "idle")
  /\ UNCHANGED <<used, alive>>

\* unlock.  The two reads and the release are one step: what t owns is not
\* destroyed.  Where they refuse, t still owns the mutex.
Unlock(t, h) ==
  /\ pc[t] = "idle"
  /\ <<t, h>> \in owns
  /\ used[h] /\ alive[h]
  /\ mu' = [mu EXCEPT ![h] = Nobody]
  /\ owns' = owns \ {<<t, h>>}
  /\ UNCHANGED <<used, alive, pc, at>>

Next ==
  \/ CreateCall \/ ScanUsed \/ CreateFull \/ InitMutex \/ SetAlive \/ SetUsed
  \/ \E h \in Slots : DestroyCall(h)
  \/ DestroyMutex \/ Wipe \/ ClearUsed
  \/ \E t \in Threads : \E h \in Slots : LookUsed(t, h) \/ Unlock(t, h)
  \/ \E t \in Threads : LookAlive(t) \/ Lock(t)

Spec == Init /\ [][Next]_vars

(***************************************************************************)
(* Properties.                                                             *)
(***************************************************************************)

\* No thread reaches pthread_mutex_lock with a mutex that is not set up or
\* already destroyed, whatever handle it uses and however its two reads fall
\* between the stores of create and destroy (28-57, 89-109); and create sets
\* up no entry in which a mutex is alive.
MutexReady ==
  /\ \A t \in Threads : pc[t] = "lock" => mu[at[t]] # "raw"
  /\ pc[Creator] = "init" => mu[at[Creator]] = Nobody /\ ~alive[at[Creator]]

\* What a thread owns it holds and can give back, but for the moment before
\* create has stored used: a thread with an old handle of that slot may be
\* in already, and would be refused.
CanUnlock ==
  \A t \in Threads, h \in Slots : <<t, h>> \in owns =>
    mu[h] = t /\ alive[h] /\ (used[h] \/ (pc[Creator] = "alive" /\ at[Creator] = h))

\* create answers 0 for want of room only when every slot holds a mutex:
\* entries of destroyed ones come back.
FullOnlyWhenFull ==
  [][pc[Creator] = "scan" /\ at[Creator] > SlotCount => \A h \in Slots : alive[h]]_vars

\* The table is a pool of locks, each with one owner at most.
Pool == INSTANCE LockPool WITH Handles <- Slots, made <- {h \in Slots : alive[h]}
ImplementsPool == Pool!Spec
=============================================================================
