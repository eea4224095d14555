--------------------------- MODULE NurseryPending ---------------------------
(***************************************************************************)
(* fx_nursery_pending (fx_task_nursery.c 122-134) run by a thread of the   *)
(* host beside everything Nursery does.  The loop takes no lock: n->n is   *)
(* read again before every slot, and each slot is read at a time of its    *)
(* own, so the sum may be a number of pending tasks that never was.        *)
(***************************************************************************)
EXTENDS Nursery

VARIABLES
  polling,   \* a call is in progress
  at,        \* its loop variable
  count,     \* its sum so far
  asked      \* history: n->n when the call began

pollVars == <<polling, at, count, asked>>

PollInit == Init /\ polling = FALSE /\ at = 0 /\ count = 0 /\ asked = 0

\* Mutant of PollCall: the loop starts at the second slot.
PollFromSecond ==
  /\ mem = "live"
  /\ op # "destroy"
  /\ ~polling
  /\ polling' = TRUE
  /\ at' = 1
  /\ count' = 0
  /\ asked' = n
  /\ UNCHANGED vars

PollCall ==
  /\ mem = "live"
  /\ op # "destroy"
  /\ ~polling
  /\ polling' = TRUE
  /\ at' = 0
  /\ count' = 0
  /\ asked' = n
  /\ UNCHANGED vars

PollSlot ==
  /\ polling
  /\ at < n
  /\ count' = IF used[at] /\ ~joined[at] THEN count + 1 ELSE count
  /\ at' = at + 1
  /\ UNCHANGED <<vars, polling, asked>>

PollReturn ==
  /\ polling
  /\ at >= n
  /\ polling' = FALSE
  /\ UNCHANGED <<vars, at, count, asked>>

\* destroy must not run while another thread is inside a call.
NoDestroyUnderCall == op' = "destroy" /\ op # "destroy" => ~polling

PollNext ==
  \/ Next /\ NoDestroyUnderCall /\ UNCHANGED pollVars
  \/ PollCall
  \/ PollSlot
  \/ PollReturn

PollSpec == PollInit /\ [][PollNext]_<<vars, pollVars>>

\* The poller runs like every other thread.
PollFairSpec ==
  /\ PollSpec
  /\ WF_<<vars, pollVars>>(PollSlot \/ PollReturn)
  /\ WF_<<vars, pollVars>>(OwnerStep /\ UNCHANGED pollVars)
  /\ \A i \in Slots : WF_<<vars, pollVars>>(TaskStep(i) /\ UNCHANGED pollVars)

\* The sum never misses a task: those handed out before the call that are
\* still pending when it answers are all counted, whatever ran in between.
\* In particular an answer of 0 can be acted on: joined never goes back.
NeverUndercounts ==
  [][PollReturn => Cardinality({i \in 0 .. asked - 1 : ~joined[i]}) <= count
    ]_<<vars, pollVars>>

=============================================================================
