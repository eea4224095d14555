---------------------------- MODULE NurseryScope ----------------------------
(***************************************************************************)
(* What a nursery promises, without slots, threads or locks: a scope that  *)
(* tasks can be started in while it is open, that closes only when none of *)
(* them is active, and that never opens again.                             *)
(***************************************************************************)
CONSTANT Tasks
VARIABLES phase, active

Init == phase = "none" /\ active = {}

Open == phase = "none" /\ phase' = "open" /\ UNCHANGED active

\* A task is started at most once: what is active grows by a new member.
Start(t) ==
  /\ phase = "open"
  /\ t \notin active
  /\ active' = active \cup {t}
  /\ UNCHANGED phase

Finish(t) == t \in active /\ active' = active \ {t} /\ UNCHANGED phase

Close == phase = "open" /\ active = {} /\ phase' = "closed" /\ UNCHANGED active

Release == phase = "closed" /\ phase' = "freed" /\ UNCHANGED active

Next == Open \/ Close \/ Release \/ \E t \in Tasks : Start(t) \/ Finish(t)

Spec == Init /\ [][Next]_<<phase, active>>
=============================================================================
