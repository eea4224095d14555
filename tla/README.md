# fxlang: a verification project

fxlang is a small systems language: a compiler written in itself
(`compiler-source/`), a standard library (`std/`, `lib/`) and a host runtime in
C (`host/`) that programs link against. This directory models the host runtime's
stateful core in TLA+, checks it with TLC and proves theorems about it with
TLAPS.

## The system

| component | state | operations | meets |
|---|---|---|---|
| task nursery `host/concur/fx_task_nursery.c` | live, cancel, n, cap, slots (thread, used, joined), a mutex | create, spawn, request_cancel, pending, join_all, join_all_timeout, shutdown, destroy | OS threads; task bodies call spawn and cancel_requested back |
| channel `fx_chan.c` | ring buffer, len, head, closed, a mutex, two condition variables | create, send, recv, try_recv, close, destroy | threads, tasks of a nursery |
| select `fx_select.c` | a local counter | recv2 | polls two channels with try_recv |
| mailbox `fx_mailbox.c` | a pointer to a channel | the channel's | channel |
| supervision `fx_supervise.c` | none | normalize_policy, apply | calls request_cancel of a nursery |
| async bridge `fx_async_bridge.c` | value slots, the malloc'ed arg of a task | i64 handles for all of the above, the bodies store, send, mb_send | `std/nursery.fx`, `std/chan.fx`, `std/select.fx`, `std/mailbox.fx`, `std/supervise.fx` |
| mutex table `fx_mutex.c` | 64 process-wide slots | create, lock, unlock, destroy | `std/sync.fx` |
| capability runtime `host/cap/fx_cap_runtime.c` | guest sessions (tree, caps, arena, fuel), the last text read | guest_begin, begin_nested, end, mint_*, burn, alloc, read_file, path_allowed | `std/guest.fx`, `std/cap.fx` |
| network dial `host/cap/fx_net_dial.c`, TLS probe | descriptors handed to the program | dial with an allow list, close | sockets |
| directory listing `host/std_fs_walk/ref.c` | a buffer kept between calls | list_names, list_ok | `std/fs_walk.fx` |
| process, time, env, argv shims | a captured output | run, slice, now, get | the operating system |
| library `lib/*.fx` | ring queue, id pool, cache | pure data structures | programs |
| standard library `std/*.fx` | none to speak of | encoding, json_validate, path, map ... | programs |
| compiler `compiler-source/lib/*.fx` | tokens, AST, scopes, loans | lex, parse, check, emit | files |

What is hard here: threads that spawn, join and cancel each other while the
nursery's mutex is dropped around each blocking join; single signals on
condition variables with barging and spurious wakeups; a poll loop that races
with other threads at two channels; error paths of the system's join; teardown
in the presence of blocked senders; a table of mutexes without a lock of its own, read
while it is written; counters, carries and casts at their boundaries; and, in the
single-threaded capability runtime, error paths after every system call, a recursive
teardown that edits the table it walks, handles that outlive what they name, and budgets
shared with an arena that may refuse.

What makes each part correct: a nursery leaves no thread behind and joins none
twice; a channel is a bounded queue that loses neither value nor wakeup; select
takes each value once and answers a timeout truthfully; supervision cancels whom
the policy says; a facade program that closes before it shuts down terminates; a
guest session's end is the end of all below it and of everything obtained through
it, and its budgets are spent by exactly what was obtained; a mutex of the table has
one owner at most, whatever late handles are used; a call that reaches the operating
system gives back what it opened, whichever step fails, opens nothing outside its root
and answers what happened.

## Modules

| module | models | state and actions |
|---|---|---|
| `NurseryScope` | the promise of a nursery: a scope that opens, in which tasks start and finish, that closes only when none is active | `phase`, `active` |
| `Nursery` | `fx_task_nursery.c` | one variable per field of `FxNursery` and `FxNurserySlot`, the state `thr` of each OS thread, and `op`, `pc`, `idx`: where the owner is in the join loop. One action per critical section |
| `NurseryPending` | `fx_nursery_pending`, which takes no lock | extends `Nursery` by a poller that reads one slot per step |
| `JoinDeadline` | the timespec arithmetic of the Linux timed join | a wall clock in ticks, the deadline of the slot being joined, and as history when the wait for that slot began (`since`) |
| `BoundedFifo` | the promise of a channel: a queue of bounded length that can be shut | `q`, `shut`, who is blocked on what |
| `Channel` | `fx_chan.c` | the fields of `FxChan`, and per thread whether it sleeps on a condition variable or was woken from it. One action per critical section |
| `Select` | `fx_select.c` | two channels as `BoundedFifo` describes them, the wrapping counter, and as history the value the call took (`got`) and the channels that held one ever since the round of polls began (`steady`) |
| `Supervise` | `fx_supervise.c` | extends `Nursery` by reports of ended children |
| `AsyncBridge` | `fx_async_bridge.c`, `fx_mailbox.c` | instances of `Nursery` and `Channel`, the args and value slots of tasks, and `box`: whether the program's channel is one of its own or a mailbox's |
| `LockPool` | the promise of the mutex table: locks that come and go under handles, with one owner each | `made`, `owns` |
| `MutexTable` | `fx_mutex.c` | `used`, `alive`, `mu` per entry, `pc` and `at` per thread. One action per read or write of an entry |
| `GuestTree` | the promise of guest sessions: what was begun under a session ends with it, in one step, and so do the capabilities minted there | `alive`, `above`, `usable` |
| `GuestSession` | `fx_cap_runtime.c` but for the file calls (`HostIO`) and the host check | the fields of `FxGuestCtx` and of the capabilities, `text` for `g_last_text`, and `ending`, the stack of activations of the recursive `guest_end`. One action per call; `guest_end` is a step per activation entered and per activation left |
| `HostIO` | the path check and the file calls of `fx_cap_runtime.c`, `fx_net_dial.c`, `std_fs_walk/ref.c` | descriptors, buffers, `pc` and what the call in progress carries. One action per system call or failure of one |
| `NurseryProofs`, `DeadlineProofs`, `ChannelProofs`, `SelectProofs`, `BridgeProofs`, `GuestProofs`, `MutexProofs`, `HostProofs` | theorems: the first about `Nursery`, `Supervise` and `NurseryPending`, the others about `JoinDeadline`, `Channel`, `Select`, `AsyncBridge`, `GuestSession`, `MutexTable` and `HostIO` | |
| `MC*` | constants for TLC | |

A critical section of a mutex is one step, since nothing outside it sees its
middle; where the code drops the mutex (around a blocking join, between the two
sections of shutdown) the steps are separate. Data is abstract: a task body is
"finite" (returns by itself), "poll" (returns once it sees the cancel flag) or
"stuck" (never returns), a sent value is a small integer. An integer keeps its
width where the code depends on it: `Narrow` of `Channel` and `Select` is the cast to int32 with
2^31 scaled down, `Select` counts modulo `Wrap`, the room left in an arena is a difference
modulo `SizeWrap`. A return of the channel's says whether its value is whole (an `_i64` call) or
cast, so that `BoundedFifo` can tell which of the two the caller must have got. NULL handles are left out: every
call refuses them first and changes nothing. Handles are used by their contract:
no call begins after `destroy` was called, which no code can check. In the same
way a host capability is not used after `fscap_free`; a capability or a session
that a guest call made may be used for ever, since `guest_end` keeps it as a
tombstone. Calls that are refused without changing anything are not actions.

`MutexTable` takes the same view of the table's contract. One thread creates and destroys,
and it destroys a mutex that nobody owns and that no call has got as far as looking up. Any
thread may call `lock` at any time with any handle, one that was destroyed, is being
destroyed or names another mutex by now: that is what the two flags of an entry are for.
Outside the contract the code makes no promise: two threads in `create` may find the same
unused entry, and a `lock` that has passed its lookup may meet a destroyed mutex. No program
of the repository uses `std/sync`, so none breaks the contract. A thread does not lock what
it owns, which is undefined for a default pthread mutex. A late caller may be in before
`create` has stored `used`, which is why `CanUnlock` has an exception.

`HostIO` numbers what the program owes the system. A path is a sequence of one-letter
strings, since the check is about the letters `.`, `/`, `\` and `:`. Of a name of a directory
the model keeps the length, and of a name in the listing's buffer also the place: `len` is the
code's, the bytes written so far. `FilesUnderRoot` has a part for each mistake a path check can
make. Both say "under" by the places at which the components of the two paths begin and end
(`UnderRoot`), not by what the code tests: `OpensOnlyUnderRoot`, that nothing else is opened, and
`ServesBelow`, that a relative path below the root is not refused, whether or not the root ends in
a separator. Each has its own mutant. The second leaves out what the code refuses on purpose, paths that are not relative
(a leading separator, a drive letter), and what it refuses by a coarse test: two dots side by side,
also inside a name such as `b..c`, where the header speaks of a ".." escape. A refused dial (TLS, a bad port, a host or port that is not allowed, a name
that does not resolve) changes nothing and is not an action. What the model shows of the
code, besides its properties: a short `fread` is accepted as the text; `readdir` failing
looks like the end of the directory; a socket outlives the session whose capability dialed
it; a root may be continued by
either separator.

`Nursery` has three constants that choose the program it models. `Platform`
selects the branch of the `#if` in `join_one`; `JoinMayFail` lets the system's
timed join (or any Windows wait) report an error; `OutsideCallers` gives the
handle to threads outside the nursery.

## What the runs show

| run | checks | what it shows |
|---|---|---|
| `Supervise` | `Inductive`, `DeadMeansJoined`, `NoThreadOutlives`, `JoinedOnce`, `JoinVerdict`, `TombstoneFrozen`, `ImplementsScope`, `Isolation`, `FailureStopsAll` | a nursery, with the handle kept to the owner and the tasks, under every policy: no thread is left behind or joined twice, statuses are true, the nursery refines `NurseryScope`; which policies cancel siblings, including those spawned after the failure |
| `Nursery_race` | `DeadMeansJoined`, violated | see below |
| `NurseryPending` | `NeverUndercounts`, `ShutdownReturns`, `TimedJoinReturns` | with outside threads spawning too, on the portable platform: the unlocked count may be of no single moment, but it never misses a task that was pending throughout, so that 0 can be relied on; a shutdown returns unless it meets a body that never ends, and so does the timed join, which has no timeout there |
| `JoinDeadline` | `DeadlineValid`, `WithinSlotBudgets`, `TimeoutEarned` | the carry is right for every phase of the clock: each slot's deadline is one timeout after the wait for that slot began; a slot given up had all of it; the call takes up to one timeout per pending slot |
| `Channel` | `TypeOK`, `NoLostWakeup`, `ImplementsFifo`, `CloseReleases`, `ValuesFlow` | the ring is a FIFO queue, and at any time enough threads are awake for the values and free slots there are; values and free slots reach sleepers; close releases all |
| `Supervise_header` | `OnlyOneForAllCancels`, violated | see below |
| `Select` | `EveryValueOnce`, `NoStrandedValue`, `SelectReturns` | no value is lost or taken twice by the two polls, and the one taken is handed out as its int32; a timeout is never answered past a channel that held a value throughout the last round of polls, however many there were; the call returns |
| `AsyncBridge` | `AwaitSeesStore`, `NobodyInChannel`, `CloseThenShutdown` | await after join sees the store; a dead nursery has nobody in the channel or mailbox; closing it first makes every teardown end |
| `GuestSession_tree` | `TreeAgrees`, `TextHasCap`, `EndReturns`, `ImplementsTree` | the child tables and the parent pointers stay the same tree, within the tables, while the teardown walks and edits it; every `guest_end` returns, and to its caller it is one step that ends exactly the subtree with its capabilities; the last text never outlives the capability it was read through |
| `GuestSession_budgets` | `BlocksDisjoint`, `BudgetsKept` | blocks are aligned, inside the arena and never overlap, although the room left is computed in a type that wraps around; an allocation the arena refuses costs no budget, and no sequence of calls obtains more than was granted; what was obtained is counted byte by byte (`BytesVia`), so that a byte handed out twice would show too |
| `MutexTable` | `MutexReady`, `CanUnlock`, `FullOnlyWhenFull`, `ImplementsPool` | however the reads of a late `lock` fall between the stores of `create` and `destroy`, it reaches no mutex that is not set up; a lock has one owner, who can give it back; entries come back |
| `HostIO` | `CallsGiveBack`, `FilesUnderRoot`, `WriteAnswersTrue`, `ListingWhole` | with every system call free to fail: descriptors and buffers are given back, a file that is opened is under the root component by component, a relative path below the root is served, "ok" from a write means that the data is in the file, a listing is whole or empty and fits its buffer |

Two runs find a disagreement between the code and what is written about it:

* `Nursery_race`: `shutdown` drops the mutex between the end of its joins and the
  store to `live`. A thread outside the nursery that spawns there succeeds, and the
  nursery is dead with a running task (header: "Join all, mark dead").
* `Supervise_header`: `rest_for_one` requests cancellation of the whole nursery,
  where the header lists it among the policies that continue.

More were met while modelling and have no run of their own. The first three can be seen
by changing one constant of a run: `destroy` frees the slots under a running thread
when a Windows wait failed (`NoThreadOutlives` with `Platform = "windows"` and
`JoinMayFail = TRUE`); `join_all_timeout` takes a full timeout per slot where the
header speaks of a deadline (`WithinSlotBudgets` is the bound that holds); select
with the greatest uint32 timeout, which is what -1 from the facade becomes, never
returns (`SelectReturns` with `Timeouts <- MaxTimeout`). A capability with an absolute
root, which the header of the capability runtime allows (23), denies every path, since a
path must be relative and begin with the root (`ServesBelow` without its `Relative`). Descriptor 0 is a valid socket and the
failure value of dial; the model leaves it out of `Fds`. `recv2_status` of `std/select.fx`
takes a value and drops it. `list_names` of `std/fs_walk.fx` looks the directory up twice,
and answers one that went away in between as an empty one.

### Bounds

* Nursery: three slots, sizes on both sides of what `create_sized` accepts. Two
  slots give a loop with an earlier and a later slot; three allow a task to spawn
  under a join that is not the last. `n` never decreases, so a nursery makes at
  most three spawns and the state space is finite without any further bound.
* Supervise: as the nursery, with the policies 1 to 4 and a number on each side of them.
* Channel: three threads (two sleepers on one condition variable beside an active
  thread), capacities 1 (a request of 0, raised) and 2, two values, of which one does
  not fit the narrow type (`Half = 2`: -2 .. 1). No symmetry is used, as liveness is checked.
* JoinDeadline: three slots, seconds of three ticks, timeouts of 0 to 4 ticks (a
  carry, a whole second, zero), a horizon that lets each slot use its budget.
* Select: channels of one or two values, a counter that wraps at 4, so that a call goes through
  several rounds of polls, up to three puts, of which two do not fit the narrow type (`Half = 2`).
* AsyncBridge: two tasks and two values, a channel or mailbox of one value, so that senders
  block; whoever sleeps there may wake for no reason, as in `Channel`.
* NurseryPending: three slots, so that `n` can grow twice under one count. The kinds
  of bodies are "poll" and "stuck": a polling body may end at any time once somebody
  asked for cancellation, as a finite one does.
* GuestSession_tree: four sessions make a grandchild and a child table of two that fills
  up, loses its first entry and is refilled; one capability, whose table it fills; no
  amounts, so no arena is used.
* GuestSession_budgets: one session with an arena of 5 or 3 bytes aligned to 2, so that
  a block can end on and off the alignment and the padding can pass the end; two capabilities
  share it; amounts 0 to 3, of which 0 is refused. `SizeWrap` is 8, so that a negative difference would
  pass for room. Arenas do not interact, so one is enough.
* MutexTable: a creator and two users, so that a late caller meets an owner; three entries,
  so that the scan passes a used one and an entry in the middle comes back.
* HostIO: two descriptors (the listing's is taken while a socket is open); every path of up
  to four characters and five roots, among them one with a separator at its end, one of two
  components, "." and an absolute one; two addresses to dial, so that a failed one is
  followed by another; names that make a buffer of two bytes grow two times in one listing.
  `MaxDoublings` bounds how often the buffer can double at all; at 4 no name of the run
  comes near it, and in the proofs it is any number.

### Fairness

Weak fairness is assumed of the owner's steps inside a call, of each task's thread
and of a woken thread's next step in the channel: the operating system runs every
thread that can run, and a mutex whose holders all leave it is not withheld for
ever from a thread that wants it. No call has to be made, nobody has to cancel,
no spurious wakeup has to happen, no join has to fail. Of the guest runtime only this
is assumed: a `guest_end` in progress runs on (`EndChild \/ EndSelf`), as a call on the
one host thread does. `NurseryPending` assumes the same of the poller's reads.

## What is proved

`NurseryProofs`, for every `HardMax`, set of sizes and kinds of bodies:

* `TypeInvariant`, `JoinedOnceHolds`, `JoinVerdictHolds` need no assumption but
  `NurseryAssumption`: they hold on every platform, with outside callers and failing
  joins. `TypeInv` adds to the types that slots are handed out in order, that `joined`
  agrees with the thread's state but for the moment between the system's join and
  the store to `joined`, and that the join loop has left only joined slots behind
  its index: without the last part the status of a join could not be related to the
  slots it skipped.
* `ScopeInvariant`, `DeadMeansJoinedHolds`, `NoThreadOutlivesHolds`,
  `TombstoneFrozenHolds` and `NurseryImplementsScope` assume `SoundHost`: the handle
  stays with the owner and the tasks, and Windows waits on a thread do not fail. The
  run `Nursery_race` shows that the first half cannot be dropped. `ScopeInv` says that from the end
  of shutdown's joins to the store to `live` every slot is joined, so that nobody is
  left to spawn; that is what makes the gap between the two critical sections harmless.

* `SupervisedIsNursery`: a supervised nursery is a nursery, since `request_cancel` is all
  that `fx_supervise.c` does to it; what is proved of the nursery so holds of it.
* `IsolationHolds` assumes that the platform is not the portable one, whose timed join cancels
  by itself, and that Windows waits do not fail, since a shutdown that gives up leaves its
  cancellation behind. On Linux it needs neither sound joins nor a private handle.
  `IsolationInv` adds that a teardown frees nothing before `live` is cleared.
* `NeverUndercountsHolds`, on every platform and host. `PollInv`: what the loop has passed and
  is still pending is at most what it has counted. A slot that was joined stays joined and
  `n` only grows (`JoinedStays`), so that set never gains a slot behind the loop's back.

The argument of each preservation lemma goes action by action.

`DeadlineProofs`, for every number of slots, resolution and phase of the clock, timeout and task:
`AddTimeoutExact` says that the carry yields a valid timespec exactly one timeout on.
`DeadlineInv` keeps that it is one timeout after the wait for the slot began until the slot is left,
and bounds the time at which the loop gets to slot i by i timeouts, whatever the
tasks before it did; `DeadlineValidHolds`, `WithinSlotBudgetsHolds` and
`TimeoutEarnedHolds` follow.

`ChannelProofs`, for every finite set of threads, capacity and set of values:

* `TypeOKHolds` and, on it, `NoLostWakeupHolds`. The argument counts: a put adds one value
  and wakes one receiver if any sleeps; the thread that puts was itself counted at most once,
  among the woken senders, and the free slot it was counted for is the one it takes. A take
  mirrors this. `CountsMore` and `CountsLess` state the counting once, by the library's facts
  on cardinality, which is why the threads must be finitely many.
* `ChannelImplementsFifo`: the queue is the ring read from `head`, modulo the capacity. A put
  writes at the position after the last, which no queued value occupies; a take shifts
  the reading by one. The lemmas about the remainder carry the argument, so that
  the wrap-around is proved for every capacity.

`SelectProofs`, for every capacity, timeout and number of puts: `EveryValueOnceHolds` needs
that no queue holds a value twice and the two queues share none; `NoStrandedValueHolds`
follows each round of polls, at each point of which a channel that held a value since the round
began is one that still has to be polled.

`BridgeProofs`, for every number of slots, capacity and set of values. The bridge is proved
as it is built: `P` and `Q` are the proofs of the nursery and the channel with the
bridge's variables in place of theirs, and their inductive invariants hold here because every
step of the bridge is a step of each or leaves it alone.

* `BridgeKeepsNursery` and `BridgeKeepsChannel` say so: the bridge refines both modules. The
  second needs an invariant, `BridgeInv`, as a call of the channel asks that its caller be in no
  other and a `destroy` that nobody be in any: a body that has not finished runs on a thread
  that is not joined, and only a body that sends and has not finished is in the channel.
* `AwaitSeesStoreHolds` and `NobodyInChannelHolds` follow from it and the nursery's own
  `ScopeInv`: a slot that is joined is one whose thread was reaped, so its body had finished.

The nursery's handle stays with the owner and the tasks and the platform is Linux, as in the
`INSTANCE` of `AsyncBridge`, so that `SoundHost` holds and is not assumed.

`GuestProofs`, for every number of sessions and capabilities, every limit and alignment:

* `TextHasCapHolds`. `TextHasCap` is not inductive: freeing a host capability drops the text
  only when it is one for reading, so `TextInv` adds that the text's capability is of kind
  "fs". With that, the two places that clear a live flag (`EndSelf`, `FreeHost`) both drop
  the text when it matters, and a new capability is never the text's.
* `TreeAgreesHolds`. `TreeInv` adds that a table holds no session twice; only then does
  taking out the first occurrence, by moving the last entry to its place, take out the
  session (`UnlinkedRemoves`).
* `BlocksDisjointHolds`. `ArenaInv` adds that what was handed out ends at or before
  `arena_used`, and that a budgeted capability belongs to a session; `PaddedRoundsUp` says
  that rounding never goes back. As no arena is larger than size_t, a difference that is not negative is
  what it is over the integers (`SmallRemainder`), which is why the test before it is needed. A session that begins has handed out nothing.
* `BudgetsKeptHolds`. `BudgetInv` keeps the account of each capability: what is left is what
  was granted, less the fuel burnt and the bytes obtained. A new block adds exactly
  its size to those bytes because it begins where everything handed out has ended, so the
  proof rests on `ArenaInv`, and on the library's facts on the cardinality of unions.
* `ImplementsTreeHolds`: a `guest_end` in progress maps to a tree in which nothing has ended yet,
  and the return of its outermost activation to the one step of `GuestTree` that ends the whole
  subtree. The steps between must be stutters, and at the last one the sessions
  that are dead must be those below the root and no others. `RefInv` carries this: sessions begin in
  order, so that a parent is the older one; the activations on the stack are a path in the
  tree; what ended since the call is below its root. That the code has missed nobody
  below comes from `TreeInv` (`NobodyLeft`): of the live sessions left below one whose table
  is empty, the oldest has a live parent that lists it, which is either that one, whose table
  would not be empty, or older still.

`MutexProofs`, for every number of slots and threads: `MutexInvariant` relates the place of
the creator to what the entry it is at looks like: `used` and `alive` disagree for that entry
alone. From it follow `MutexReadyHolds`, `CanUnlockHolds`, `FullOnlyWhenFullHolds` and
`TableImplementsPool`.

`HostProofs`, for every set of descriptors, paths and names: `CallsGiveBackHolds` from `Debt`,
which says at each step of each call what that call holds (a descriptor from the open to
the close or the hand-over, a block from malloc to the end of the read), and
`WriteAnswersTrueHolds`.

* `ListingWholeHolds`. `ListingInv` says where each name of the buffer lies: at the end of
  the one before and its newline, and all of them below `len`, which is below the capacity. `EnsureCap`
  states what the growth leaves behind when it succeeds and when it does not.
* `FilesUnderRootHolds`. `PathInv` says that from the check to the open the root and the path
  are those of the check. The rest is about two paths: one that begins with the other
  has its components, provided the prefix ends at a separator, which is what `ends_root` tests,
  and `has_dotdot` finds every component "..".
  For the other direction (`BelowAllowed`): if neither the last character of the root nor the
  one after it in the path separated, the component of the path that lies across the end of the root
  (`ComponentStart`, `ComponentEnd`) would be none of the root's, and the path not below it.

Model-checked only: the liveness properties, which the prover cannot reach. These are
`FailureStopsAll`, `ShutdownReturns`, `TimedJoinReturns`, `CloseReleases`, `ValuesFlow`,
`SelectReturns`, `CloseThenShutdown` and `EndReturns`. Every safety property and every refinement of a
passing run is a theorem, under the assumptions named above.

## What is not modelled

The comparison of a host and a port with a capability's allow list is a pure test whose
only effect is a refused dial. The TLS probe calls read and write functions that are not in
the repository. In the bridge, `slot_set` has no caller, and `select_recv2_slots` copies
two results of select to slots that no other thread sees. The Windows branches of the file
shims are left out. The process, time, environment and argument shims are single calls to
the system and keep no state that a later call depends on. File contents, what a socket
carries and the formatting of output are I/O. The prebuilt archives behind `zspec/` have no
source here. The library and the standard library are sequential data structures and
algorithms on text; the compiler is a translation of text to text, whose loan checker alone
has state worth a model. Out-of-memory answers of `calloc` are refusals, like every other
refused call, except where they leave something behind (`CreateFails`, `SpawnFails`) or
follow something opened (`ReadFails`, `ListName`).

## Plan

1. Concurrency substrate: nursery, channel, select, supervision, bridge, mailbox (done).
2. Guest sessions: tree, budgets, last text (done). The calls that reach the system (done).
3. The mutex table (done).
4. Proofs: of every safety property and refinement of these modules (done).
5. Data structures and algorithms: `RingQueue`, `IdPool`, encoding, json_validate, as pure
   operators in one run over bounded inputs.
6. The compiler's loan checker as a state machine over scopes and loans.
