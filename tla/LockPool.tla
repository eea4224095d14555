------------------------------ MODULE LockPool ------------------------------
(***************************************************************************)
(* What the mutex table promises: locks come and go under handles, a       *)
(* handle names one lock at a time, and a lock has at most one owner, who  *)
(* keeps it until giving it back.                                          *)
(***************************************************************************)
CONSTANTS Threads, Handles
VARIABLES made,   \* the handles that name a lock
          owns    \* who owns what: pairs of a thread and a handle
vars == <<made, owns>>

Init == made = {} /\ owns = {}

Owned(h) == \E t \in Threads : <<t, h>> \in owns

Make(h) == h \notin made /\ made' = made \cup {h} /\ UNCHANGED owns

Acquire(t, h) ==
  /\ h \in made /\ ~Owned(h)
  /\ owns' = owns \cup {<<t, h>>}
  /\ UNCHANGED made

Release(t, h) ==
  /\ h \in made /\ <<t, h>> \in owns
  /\ owns' = owns \ {<<t, h>>}
  /\ UNCHANGED made

Drop(h) == ~Owned(h) /\ made' = made \ {h} /\ UNCHANGED owns

Next ==
  \E h \in Handles : Make(h) \/ Drop(h) \/ \E t \in Threads : Acquire(t, h) \/ Release(t, h)

Spec == Init /\ [][Next]_vars
=============================================================================
