----------------------------- MODULE MutexProofs -----------------------------
(***************************************************************************)
(* Theorems about MutexTable, for every number of slots and threads.       *)
(***************************************************************************)
EXTENDS MutexTable, TLAPS

MutexTypes ==
  /\ used \in [Slots -> BOOLEAN]
  /\ alive \in [Slots -> BOOLEAN]
  /\ mu \in [Slots -> Threads \cup {Nobody, "raw"}]
  /\ pc \in [Threads -> {"idle", "looked", "lock", "scan", "init", "alive", "used",
                         "dead", "wipe", "unuse"}]
  /\ at \in [Threads -> 1 .. SlotCount + 1]
  /\ owns \subseteq Threads \X Slots

\* Where the threads are, and what that says of the slot they are at.
CallsAgree ==
  /\ \A t \in Threads : pc[t] \notin {"idle", "looked", "lock"} => t = Creator
  /\ \A t \in Threads : pc[t] \notin {"idle", "scan"} => at[t] \in Slots
  /\ \A t \in Threads : pc[t] = "lock" => alive[at[t]]
  /\ pc[Creator] = "scan" => \A h \in Slots : h < at[Creator] => used[h]
  /\ pc[Creator] \in {"init", "used"} => mu[at[Creator]] = Nobody /\ ~alive[at[Creator]]
  /\ pc[Creator] = "used" => used[at[Creator]]
  /\ pc[Creator] = "alive" => alive[at[Creator]]
  /\ pc[Creator] \in {"dead", "wipe", "unuse"} => ~alive[at[Creator]]

\* An entry is used exactly while it is alive, but for the one the creator
\* is about; what is owned is alive and held, what is alive is set up.
EntriesAgree ==
  /\ \A h \in Slots : alive[h] => mu[h] # "raw"
  /\ \A h \in Slots : used[h] /\ ~alive[h] =>
       pc[Creator] \in {"used", "dead", "wipe", "unuse"} /\ at[Creator] = h
  /\ \A h \in Slots : alive[h] /\ ~used[h] => pc[Creator] = "alive" /\ at[Creator] = h
  /\ \A t \in Threads, h \in Slots : <<t, h>> \in owns => mu[h] = t /\ alive[h]

MutexInv == MutexTypes /\ CallsAgree /\ EntriesAgree

LEMMA MutexInvInit == Init => MutexInv
  BY MutexAssumption DEF Init, MutexInv, MutexTypes, CallsAgree, EntriesAgree, Slots

LEMMA CreateKeeps ==
  ASSUME MutexInv, CreateCall \/ ScanUsed \/ CreateFull \/ InitMutex \/ SetAlive \/ SetUsed
  PROVE  MutexInv'
<1> USE MutexAssumption DEF MutexInv, Call, Goto, entries, Slots
<1>1. CASE CreateCall
  BY <1>1 DEF CreateCall, MutexTypes, CallsAgree, EntriesAgree
<1>2. CASE ScanUsed
  BY <1>2 DEF ScanUsed, MutexTypes, CallsAgree, EntriesAgree
<1>3. CASE CreateFull
  BY <1>3 DEF CreateFull, MutexTypes, CallsAgree, EntriesAgree
<1>4. CASE InitMutex
  <2>1. MutexTypes'
    BY <1>4 DEF InitMutex, MutexTypes, CallsAgree
  <2>2. CallsAgree'
    BY <1>4 DEF InitMutex, MutexTypes, CallsAgree, EntriesAgree
  <2>3. EntriesAgree'
    BY <1>4 DEF InitMutex, MutexTypes, CallsAgree, EntriesAgree
  <2> QED BY <2>1, <2>2, <2>3
<1>5. CASE SetAlive
  <2>1. MutexTypes'
    BY <1>5 DEF SetAlive, MutexTypes, CallsAgree
  <2>2. CallsAgree'
    BY <1>5 DEF SetAlive, MutexTypes, CallsAgree, EntriesAgree
  <2>3. EntriesAgree'
    BY <1>5 DEF SetAlive, MutexTypes, CallsAgree, EntriesAgree
  <2> QED BY <2>1, <2>2, <2>3
<1>6. CASE SetUsed
  <2>1. MutexTypes'
    BY <1>6 DEF SetUsed, MutexTypes, CallsAgree
  <2>2. CallsAgree'
    BY <1>6 DEF SetUsed, MutexTypes, CallsAgree, EntriesAgree
  <2>3. EntriesAgree'
    BY <1>6 DEF SetUsed, MutexTypes, CallsAgree, EntriesAgree
  <2> QED BY <2>1, <2>2, <2>3
<1> QED BY <1>1, <1>2, <1>3, <1>4, <1>5, <1>6

LEMMA DestroyKeeps ==
  ASSUME MutexInv, (\E h \in Slots : DestroyCall(h)) \/ DestroyMutex \/ Wipe \/ ClearUsed
  PROVE  MutexInv'
<1> USE MutexAssumption DEF MutexInv, Call, Goto, entries, Slots
<1>1. ASSUME NEW h \in Slots, DestroyCall(h) PROVE MutexInv'
  <2>1. \A t \in Threads :
          <<t, h>> \notin owns /\ (pc[t] \in {"looked", "lock"} => at[t] # h)
    BY <1>1 DEF DestroyCall, InUse
  <2>2. MutexTypes'
    BY <1>1 DEF DestroyCall, MutexTypes
  <2>3. /\ pc'[Creator] = "dead" /\ at'[Creator] = h /\ ~alive'[h]
        /\ \A t \in Threads : t # Creator => pc'[t] = pc[t] /\ at'[t] = at[t]
        /\ \A k \in Slots : k # h => alive'[k] = alive[k]
    BY <1>1 DEF DestroyCall, MutexTypes
  <2>4. CallsAgree'
    BY <1>1, <2>1, <2>2, <2>3 DEF CallsAgree, MutexTypes
  <2>5. EntriesAgree'
    BY <1>1, <2>1 DEF DestroyCall, MutexTypes, EntriesAgree
  <2> QED BY <2>2, <2>4, <2>5
<1>2. CASE DestroyMutex
  <2>1. MutexTypes'
    BY <1>2 DEF DestroyMutex, MutexTypes, CallsAgree
  <2>2. CallsAgree'
    BY <1>2 DEF DestroyMutex, MutexTypes, CallsAgree
  <2>3. EntriesAgree'
    BY <1>2 DEF DestroyMutex, MutexTypes, CallsAgree, EntriesAgree
  <2> QED BY <2>1, <2>2, <2>3
<1>3. CASE Wipe
  BY <1>3 DEF Wipe, MutexTypes, CallsAgree, EntriesAgree
<1>4. CASE ClearUsed
  BY <1>4 DEF ClearUsed, MutexTypes, CallsAgree, EntriesAgree
<1> QED BY <1>1, <1>2, <1>3, <1>4

LEMMA UserKeeps ==
  ASSUME MutexInv, NEW t \in Threads,
         (\E h \in Slots : LookUsed(t, h) \/ Unlock(t, h)) \/ LookAlive(t) \/ Lock(t)
  PROVE  MutexInv'
<1> USE MutexAssumption DEF MutexInv, Call, Goto, entries, Slots
<1>1. ASSUME NEW h \in Slots, LookUsed(t, h) PROVE MutexInv'
  BY <1>1 DEF LookUsed, MutexTypes, CallsAgree, EntriesAgree
<1>2. ASSUME NEW h \in Slots, Unlock(t, h) PROVE MutexInv'
  BY <1>2 DEF Unlock, MutexTypes, CallsAgree, EntriesAgree
<1>3. CASE LookAlive(t)
  BY <1>3 DEF LookAlive, MutexTypes, CallsAgree, EntriesAgree
<1>4. CASE Lock(t)
  BY <1>4 DEF Lock, MutexTypes, CallsAgree, EntriesAgree
<1> QED BY <1>1, <1>2, <1>3, <1>4

LEMMA MutexInvNext == MutexInv /\ [Next]_vars => MutexInv'
<1> SUFFICES ASSUME MutexInv, [Next]_vars PROVE MutexInv'
  OBVIOUS
<1>1. CASE UNCHANGED vars
  BY <1>1 DEF vars, MutexInv, MutexTypes, CallsAgree, EntriesAgree
<1> QED BY <1>1, CreateKeeps, DestroyKeeps, UserKeeps DEF Next

\* Types, where each thread is, and how used, alive and the mutex agree.
THEOREM MutexInvariant == Spec => []MutexInv
  BY MutexInvInit, MutexInvNext, PTL DEF Spec

\* Nobody locks a mutex that is not set up, and none is set up twice.
THEOREM MutexReadyHolds == Spec => []MutexReady
<1>1. MutexInv => MutexReady
  BY MutexAssumption DEF MutexInv, MutexTypes, CallsAgree, EntriesAgree, MutexReady, Slots
<1> QED BY <1>1, MutexInvariant, PTL

\* What a thread owns it holds and can give back.
THEOREM CanUnlockHolds == Spec => []CanUnlock
<1>1. MutexInv => CanUnlock
  BY DEF MutexInv, EntriesAgree, CanUnlock
<1> QED BY <1>1, MutexInvariant, PTL

\* create is refused for want of room only when every slot holds a mutex.
THEOREM FullOnlyWhenFullHolds == Spec => FullOnlyWhenFull
<1>1. MutexInv => (pc[Creator] = "scan" /\ at[Creator] > SlotCount => \A h \in Slots : alive[h])
  BY MutexAssumption DEF MutexInv, MutexTypes, CallsAgree, EntriesAgree, Slots
<1>2. MutexInv /\ [Next]_vars =>
        [pc[Creator] = "scan" /\ at[Creator] > SlotCount => \A h \in Slots : alive[h]]_vars
  BY <1>1
<1> QED BY <1>2, MutexInvariant, PTL DEF FullOnlyWhenFull, Spec

(***************************************************************************)
(* The table implements a pool of locks.  Storing alive makes the lock,    *)
(* clearing it drops the lock, and the steps in between are stutters.      *)
(***************************************************************************)
Made == {h \in Slots : alive[h]}

LEMMA SetAliveMakes == MutexInv /\ SetAlive => Pool!Next
<1> SUFFICES ASSUME MutexInv, SetAlive PROVE \E h \in Slots : Pool!Make(h)
  BY DEF Pool!Next
<1>1. at[Creator] \in Slots /\ ~alive[at[Creator]] /\ owns' = owns
  BY MutexAssumption DEF MutexInv, CallsAgree, SetAlive
<1>2. Made' = Made \cup {at[Creator]}
  BY <1>1 DEF SetAlive, MutexInv, MutexTypes, Made
<1> QED BY <1>1, <1>2 DEF Pool!Make, Made

LEMMA DestroyCallDrops ==
  ASSUME MutexInv, NEW h \in Slots, DestroyCall(h)
  PROVE  Pool!Next
<1>1. ~Pool!Owned(h)
  BY DEF DestroyCall, InUse, Pool!Owned
<1>2. Made' = Made \ {h} /\ owns' = owns
  BY DEF DestroyCall, MutexInv, MutexTypes, Made
<1> QED BY <1>1, <1>2 DEF Pool!Next, Pool!Drop, Made

LEMMA LockAcquires ==
  ASSUME MutexInv, NEW t \in Threads, Lock(t)
  PROVE  Pool!Next
<1>1. at[t] \in Made /\ UNCHANGED Made
  BY DEF Lock, MutexInv, CallsAgree, Made
<1>2. ~Pool!Owned(at[t])
  BY <1>1 DEF Lock, MutexInv, EntriesAgree, Pool!Owned, Made
<1>3. owns' = owns \cup {<<t, at[t]>>}
  BY DEF Lock
<1> QED BY <1>1, <1>2, <1>3 DEF Pool!Next, Pool!Acquire, Made

LEMMA UnlockReleases ==
  ASSUME NEW t \in Threads, NEW h \in Slots, Unlock(t, h)
  PROVE  Pool!Next
<1>1. h \in Made /\ UNCHANGED Made
  BY DEF Unlock, Made
<1> QED BY <1>1 DEF Unlock, Pool!Next, Pool!Release, Made

LEMMA PoolStep == MutexInv /\ [Next]_vars => [Pool!Next]_(Pool!vars)
<1> SUFFICES ASSUME MutexInv, [Next]_vars, ~(Pool!Next)
             PROVE  alive' = alive /\ owns' = owns
  BY DEF Pool!vars
<1>1. CASE CreateCall \/ ScanUsed \/ CreateFull \/ InitMutex \/ SetUsed \/ DestroyMutex \/ ClearUsed
  BY <1>1 DEF CreateCall, ScanUsed, CreateFull, InitMutex, SetUsed, DestroyMutex, ClearUsed, entries
<1>2. CASE Wipe
  <2>1. ~alive[at[Creator]]
    BY <1>2 DEF Wipe, MutexInv, CallsAgree
  <2> QED BY <1>2, <2>1 DEF Wipe, MutexInv, MutexTypes
<1>3. ASSUME NEW t \in Threads, NEW h \in Slots, LookUsed(t, h) \/ LookAlive(t)
      PROVE  alive' = alive /\ owns' = owns
  BY <1>3 DEF LookUsed, LookAlive, entries
<1>4. CASE UNCHANGED vars
  BY <1>4 DEF vars
<1>5. Slots # {}
  BY MutexAssumption DEF Slots
<1> QED BY <1>1, <1>2, <1>3, <1>4, <1>5, SetAliveMakes, DestroyCallDrops, LockAcquires, UnlockReleases DEF Next

\* The mutex table refines the pool of locks: at most one owner, whoever
\* keeps an old handle.
THEOREM TableImplementsPool == Spec => ImplementsPool
<1>1. Init => Pool!Init
  BY DEF Init, Pool!Init
<1> QED BY <1>1, PoolStep, MutexInvariant, PTL DEF Spec, ImplementsPool, Pool!Spec
=============================================================================
