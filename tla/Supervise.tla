----------------------------- MODULE Supervise -----------------------------
(***************************************************************************)
(* host/concur/fx_supervise.c over a nursery: whoever learns that a child  *)
(* ended reports its status, and the policy decides what becomes of the    *)
(* siblings.  The only calls of request_cancel here are those of the       *)
(* policy.                                                                 *)
(***************************************************************************)
EXTENDS Nursery

CONSTANT Policies   \* the policy arguments: 1 .. 4, and numbers that are none

ASSUME SuperviseAssumption == Policies \subseteq Int

VARIABLES
  policy,    \* the argument every report of this behaviour uses
  failed,    \* history: a failure was reported to a live nursery
  verdict    \* the status the last report returned

supVars == <<policy, failed, verdict>>
allVars == <<vars, supVars>>

OneForOne == 1
OneForAll == 2
RestForOne == 3
Escalate == 4

\* Mutant of normalize_policy: an unknown policy is the strictest one.
NormalizeUpward(p) ==
  IF p \in {OneForOne, OneForAll, RestForOne, Escalate} THEN p ELSE OneForAll

normalize_policy(p) ==
  IF p \in {OneForOne, OneForAll, RestForOne, Escalate} THEN p ELSE OneForOne

SupInit == Init /\ policy \in Policies /\ failed = FALSE /\ verdict = "none"

ReportOk ==
  /\ MayCall
  /\ verdict' = "continue"
  /\ UNCHANGED <<vars, policy, failed>>

\* Mutant of Cancels: rest_for_one is forgotten in the test.
CancelsAllOnly(p) == normalize_policy(p) = OneForAll

Cancels(p) == normalize_policy(p) \in {OneForAll, RestForOne}

ReportFailure ==
  /\ MayCall
  /\ failed' = (failed \/ live)
  /\ \/ Cancels(policy) /\ RequestCancel /\ verdict' = IF live THEN "continue" ELSE "err"
     \/ ~Cancels(policy) /\ UNCHANGED vars
        /\ verdict' = IF normalize_policy(policy) = Escalate THEN "escalate" ELSE "continue"
  /\ UNCHANGED policy

\* All that Next has but the free request_cancel.
NurseryStep ==
  \/ \E m \in Sizes : Create(m)
  \/ CreateFails
  \/ \E k \in Kinds : Spawn(k)
  \/ SpawnFails
  \/ SpawnRefused
  \/ OwnerCall
  \/ OwnerStep
  \/ JoinFails
  \/ \E i \in Slots : TaskStep(i)

SupNext ==
  \/ NurseryStep /\ UNCHANGED supVars
  \/ ReportOk
  \/ ReportFailure

SupSpec == SupInit /\ [][SupNext]_allVars

SupFairSpec ==
  /\ SupSpec
  /\ WF_allVars(OwnerStep /\ UNCHANGED supVars)
  /\ \A i \in Slots : WF_allVars(TaskStep(i) /\ UNCHANGED supVars)

(***************************************************************************)
(* Properties.                                                             *)
(***************************************************************************)
TearingDown == ~live \/ op \in {"shutdown", "destroy"}

\* Under one_for_one, escalate and every number that is no policy, a failed
\* child never costs its siblings: nothing but a teardown cancels them.
Isolation == policy \notin {OneForAll, RestForOne} /\ cancel => TearingDown

\* One failure under one_for_all or rest_for_one ends every sibling that can
\* end, those spawned after the cancellation too: spawn does not refuse them,
\* and they see the flag.
FailureStopsAll ==
  failed /\ policy \in {OneForAll, RestForOne} ~> \A i \in Alive : kind[i] = "stuck"

\* fx_supervise.h 18-21: rest_for_one continues, and cancellation belongs to
\* one_for_all.
OnlyOneForAllCancels == policy # OneForAll /\ cancel => TearingDown

=============================================================================
