----------------------------- MODULE GuestTree -----------------------------
(***************************************************************************)
(* What guest sessions promise: a session begun under another one lives no *)
(* longer than it, and a capability no longer than the session that minted *)
(* it.  Ending a session is one step, whatever hangs below it.             *)
(***************************************************************************)
CONSTANTS Sessions, Caps
VARIABLES
  alive,    \* sessions that have not ended
  above,    \* per session: itself and the sessions it was begun under
  usable    \* pairs <<c, g>>: capability c was minted by g and not revoked
vars == <<alive, above, usable>>

Init ==
  /\ alive = {}
  /\ above = [g \in Sessions |-> {}]
  /\ usable = {}

\* A session is begun once; its handle never names another one.
Begin(g, parents) ==
  /\ above[g] = {}
  /\ alive' = alive \cup {g}
  /\ above' = [above EXCEPT ![g] = parents \cup {g}]
  /\ UNCHANGED usable

Nest(g, p) == p \in alive /\ Begin(g, above[p])

Mint(c, g) ==
  /\ g \in alive
  /\ \A u \in usable : u[1] # c
  /\ usable' = usable \cup {<<c, g>>}
  /\ UNCHANGED <<alive, above>>

End(g) ==
  /\ g \in alive
  /\ alive' = {h \in alive : g \notin above[h]}
  /\ usable' = {u \in usable : g \notin above[u[2]]}
  /\ UNCHANGED above

Next ==
  \/ \E g \in Sessions : Begin(g, {}) \/ End(g)
  \/ \E g, p \in Sessions : Nest(g, p)
  \/ \E c \in Caps, g \in Sessions : Mint(c, g)

Spec == Init /\ [][Next]_vars
=============================================================================
