---------------------------- MODULE GuestSession ----------------------------
(***************************************************************************)
(* Guest sessions, host/cap/fx_cap_runtime.c: a session owns a bump arena, *)
(* the capabilities it minted and a table of nested sessions.  The host is *)
(* one thread.  guest_end calls itself for the first entry of the table as *)
(* long as there is one, and every call takes itself out of its parent's   *)
(* table; the calls in progress are the stack ending.  A session or        *)
(* capability that was minted is never freed, only marked dead, so a new   *)
(* one is a new number.  A call that is refused changes nothing and is not *)
(* an action.                                                              *)
(***************************************************************************)
EXTENDS Integers, Sequences, FiniteSets

CONSTANTS
  MaxSessions,   \* bound: sessions begun in all
  MaxMinted,     \* bound: capabilities minted in all
  MaxChildren,   \* FX_GUEST_MAX_CHILDREN
  MaxCaps,       \* FX_GUEST_MAX_CAPS
  Align,         \* sizeof(void *)
  DefaultArena,  \* FX_GUEST_DEFAULT_ARENA
  ArenaRequests, \* the arguments arena_bytes
  SizeWrap,      \* 2^64, where size_t wraps around
  Amounts        \* byte counts, fuel units and budgets the callers pass

ASSUME GuestAssumption ==
  /\ MaxSessions \in Nat /\ MaxMinted \in Nat
  /\ MaxChildren \in Nat \ {0} /\ MaxCaps \in Nat \ {0}
  /\ Align \in Nat \ {0} /\ DefaultArena \in Nat \ {0}
  /\ ArenaRequests \subseteq Int /\ Amounts \subseteq Int
  \* Requests are int64_t, whose greatest value is far from the end of size_t.
  /\ SizeWrap \in Nat /\ \A a \in ArenaRequests \cup {DefaultArena} : a + Align <= SizeWrap

VARIABLES
  sess,      \* per session: "none", "live" or "dead"
  rooted,    \* per session: it has a default root
  parent,    \* per session: its parent, 0 for none
  children,  \* per session: children[0 .. children_n - 1]
  size,      \* per session: arena_size
  top,       \* per session: arena_used
  kind,      \* per capability: its kind, "none" before it is minted
  by,        \* per capability: the session that minted it, 0 for the host
  live,      \* per capability: its live flag
  left,      \* per capability: budget_remaining or units_remaining
  text,      \* g_last_text: the capability it was read through, 0 for none
  ending,    \* the activations of guest_end, innermost last
  above,     \* history, per session: itself and those it was begun under
  granted,   \* history, per capability: its budget when minted
  blocks,    \* history: what the arenas that exist have handed out
  burnt      \* history, per capability: units burnt

tree == <<sess, rooted, parent, children, above>>
arena == <<size, top, blocks>>
caps == <<kind, by, live, left, granted, burnt>>
vars == <<tree, arena, caps, text, ending>>

Sessions == 1 .. MaxSessions
Caps == 1 .. MaxMinted
Budgeted == {"alloc", "fuel"}
Kinds == Budgeted \cup {"fs", "out", "net"}

Init ==
  /\ sess = [g \in Sessions |-> "none"]
  /\ rooted = [g \in Sessions |-> FALSE]
  /\ parent = [g \in Sessions |-> 0]
  /\ children = [g \in Sessions |-> << >>]
  /\ size = [g \in Sessions |-> 0]
  /\ top = [g \in Sessions |-> 0]
  /\ kind = [c \in Caps |-> "none"]
  /\ by = [c \in Caps |-> 0]
  /\ live = [c \in Caps |-> FALSE]
  /\ left = [c \in Caps |-> 0]
  /\ text = 0
  /\ ending = << >>
  /\ above = [g \in Sessions |-> {}]
  /\ granted = [c \in Caps |-> 0]
  /\ blocks = {}
  /\ burnt = [c \in Caps |-> 0]

Fresh(g) == sess[g] = "none" /\ \A h \in Sessions : h < g => sess[h] # "none"
FreshCap(c) == kind[c] = "none" /\ \A d \in Caps : d < c => kind[d] # "none"

(***************************************************************************)
(* guest_begin and guest_begin_nested.  r tells whether a root is passed;  *)
(* a nested session without one inherits its parent's.                     *)
(***************************************************************************)
NewArena(g, request) ==
  /\ size' = [size EXCEPT ![g] = IF request > 0 THEN request ELSE DefaultArena]
  /\ UNCHANGED <<top, blocks>>

Begin(g, r, request) ==
  /\ ending = << >>
  /\ Fresh(g)
  /\ sess' = [sess EXCEPT ![g] = "live"]
  /\ rooted' = [rooted EXCEPT ![g] = r]
  /\ above' = [above EXCEPT ![g] = {g}]
  /\ NewArena(g, request)
  /\ UNCHANGED <<parent, children, caps, text, ending>>

\* Mutant of HasPlace: the table's limit is off by one.
HasPlacePast(p) == Len(children[p]) <= MaxChildren
HasPlace(p) == Len(children[p]) < MaxChildren

BeginNested(p, g, r, request) ==
  /\ ending = << >>
  /\ Fresh(g)
  /\ sess[p] = "live"
  /\ HasPlace(p)
  /\ sess' = [sess EXCEPT ![g] = "live"]
  /\ rooted' = [rooted EXCEPT ![g] = r \/ rooted[p]]
  /\ parent' = [parent EXCEPT ![g] = p]
  /\ children' = [children EXCEPT ![p] = Append(@, g)]
  /\ above' = [above EXCEPT ![g] = above[p] \cup {g}]
  /\ NewArena(g, request)
  /\ UNCHANGED <<caps, text, ending>>

(***************************************************************************)
(* guest_end.                                                              *)
(***************************************************************************)
Ending == ending[Len(ending)]

EndCall(g) ==
  /\ ending = << >>
  /\ sess[g] = "live"
  /\ ending' = <<g>>
  /\ UNCHANGED <<tree, arena, caps, text>>

\* The loop: a dead first entry would be called for ever and never leave.
EndChild ==
  /\ ending # << >>
  /\ children[Ending] # << >>
  /\ sess[Head(children[Ending])] = "live"
  /\ ending' = Append(ending, Head(children[Ending]))
  /\ UNCHANGED <<tree, arena, caps, text>>

\* Mutants of Unlinked: the table is cut where g was; nothing leaves.
UnlinkedCut(s, g) ==
  IF \E i \in DOMAIN s : s[i] = g
    THEN SubSeq(s, 1, (CHOOSE k \in DOMAIN s : s[k] = g) - 1)
    ELSE s
UnlinkedNever(s, g) == s

\* guest_unlink_from_parent: the last entry moves to the place of g.
Unlinked(s, g) ==
  IF \E i \in DOMAIN s : s[i] = g
    THEN LET i == CHOOSE k \in DOMAIN s : s[k] = g
         IN  SubSeq([s EXCEPT ![i] = s[Len(s)]], 1, Len(s) - 1)
    ELSE s

Revoke(g) ==
  /\ live' = [c \in Caps |-> live[c] /\ by[c] # g]
  /\ left' = [c \in Caps |-> IF by[c] = g THEN 0 ELSE left[c]]
  /\ UNCHANGED <<kind, by, granted, burnt>>

\* Mutant of clear_last_text: the text survives.
keep_last_text == text' = text
clear_last_text == text' = 0

EndSelf ==
  /\ ending # << >>
  /\ children[Ending] = << >>
  /\ children' = [p \in Sessions |->
                    IF p = parent[Ending] THEN Unlinked(children[p], Ending) ELSE children[p]]
  /\ parent' = [parent EXCEPT ![Ending] = 0]
  /\ Revoke(Ending)
  /\ size' = [size EXCEPT ![Ending] = 0]
  /\ top' = [top EXCEPT ![Ending] = 0]
  /\ sess' = [sess EXCEPT ![Ending] = "dead"]
  /\ clear_last_text
  /\ blocks' = {b \in blocks : b.arena # Ending}
  /\ ending' = SubSeq(ending, 1, Len(ending) - 1)
  /\ UNCHANGED <<rooted, above>>

(***************************************************************************)
(* The mint calls: a table per kind, in each session.                      *)
(***************************************************************************)
NewCap(c, k, g, amount) ==
  /\ FreshCap(c)
  /\ kind' = [kind EXCEPT ![c] = k]
  /\ by' = [by EXCEPT ![c] = g]
  /\ live' = [live EXCEPT ![c] = TRUE]
  /\ left' = [left EXCEPT ![c] = amount]
  /\ granted' = [granted EXCEPT ![c] = amount]
  /\ UNCHANGED <<burnt, tree, arena, text, ending>>

TableOf(g, k) == {c \in Caps : by[c] = g /\ kind[c] = k}

MayMint(g, k) ==
  /\ ending = << >>
  /\ sess[g] = "live"
  /\ Cardinality(TableOf(g, k)) < MaxCaps

\* mint_fscap, mint_outcap: an empty root stands for the session's, which
\* may be empty too.
MintRooted(c, g, k, r) ==
  /\ MayMint(g, k)
  /\ r \/ rooted[g]
  /\ NewCap(c, k, g, 0)

MintNet(c, g) == MayMint(g, "net") /\ NewCap(c, "net", g, 0)

MintAlloc(c, g, budget) == MayMint(g, "alloc") /\ budget > 0 /\ NewCap(c, "alloc", g, budget)

MintFuel(c, g, units) == MayMint(g, "fuel") /\ units > 0 /\ NewCap(c, "fuel", g, units)

\* fscap_mint and outcap_mint: the host owns the capability and frees it.
MintHost(c, k) == ending = << >> /\ NewCap(c, k, 0, 0)

FreeHost(c) ==
  /\ ending = << >>
  /\ live[c] /\ by[c] = 0
  /\ live' = [live EXCEPT ![c] = FALSE]
  /\ IF kind[c] = "fs" THEN clear_last_text ELSE UNCHANGED text
  /\ UNCHANGED <<tree, arena, kind, by, left, granted, burnt, ending>>

(***************************************************************************)
(* guest_bump_alloc, called by guest_alloc with no capability (c = 0) and  *)
(* by alloccap_alloc.                                                      *)
(***************************************************************************)
\* No overflow: arena_used + align is at most the size and the alignment.
Padded(g) == ((top[g] + Align - 1) \div Align) * Align

\* Mutant of Fits: the difference is not kept from wrapping around.
FitsUnguarded(g, n) == n <= (size[g] - Padded(g)) % SizeWrap

Fits(g, n) == Padded(g) <= size[g] /\ n <= (size[g] - Padded(g)) % SizeWrap

Bump(g, c, n) ==
  /\ ending = << >>
  /\ sess[g] = "live"
  /\ n > 0
  /\ Fits(g, n)
  /\ top' = [top EXCEPT ![g] = Padded(g) + n]
  /\ blocks' = blocks \cup {[arena |-> g, via |-> c, lo |-> Padded(g), hi |-> Padded(g) + n]}
  /\ UNCHANGED size

Alloc(g, n) == Bump(g, 0, n) /\ UNCHANGED <<tree, caps, text, ending>>

\* Mutant of AllocVia: the budget is charged before the arena answers.
ChargesFirst(c, n) ==
  /\ kind[c] = "alloc" /\ live[c]
  /\ n > 0 /\ n <= left[c]
  /\ left' = [left EXCEPT ![c] = left[c] - n]
  /\ Bump(by[c], c, n) \/ (~Fits(by[c], n) /\ UNCHANGED arena)
  /\ UNCHANGED <<tree, kind, by, live, granted, burnt, text, ending>>

AllocVia(c, n) ==
  /\ kind[c] = "alloc" /\ live[c]
  /\ n > 0 /\ n <= left[c]
  /\ Bump(by[c], c, n)
  /\ left' = [left EXCEPT ![c] = left[c] - n]
  /\ UNCHANGED <<tree, kind, by, live, granted, burnt, text, ending>>

Burn(c, n) ==
  /\ ending = << >>
  /\ kind[c] = "fuel" /\ live[c]
  /\ n > 0 /\ n <= left[c]
  /\ left' = [left EXCEPT ![c] = left[c] - n]
  /\ burnt' = [burnt EXCEPT ![c] = burnt[c] + n]
  /\ UNCHANGED <<tree, arena, kind, by, live, granted, text, ending>>

\* io_cap_read_file.  The old text goes first, whatever becomes of the call;
\* the handle may be a tombstone, the path refused or the file unreadable.
ReadFile(c) ==
  /\ ending = << >>
  /\ kind[c] = "fs" /\ (live[c] \/ by[c] # 0)
  /\ \/ live[c] /\ text' = c
     \/ text' = 0
  /\ UNCHANGED <<tree, arena, caps, ending>>

Next ==
  \/ \E g \in Sessions, r \in BOOLEAN, a \in ArenaRequests : Begin(g, r, a)
  \/ \E p, g \in Sessions, r \in BOOLEAN, a \in ArenaRequests : BeginNested(p, g, r, a)
  \/ \E g \in Sessions : EndCall(g)
  \/ EndChild
  \/ EndSelf
  \/ \E c \in Caps, g \in Sessions :
       \/ \E k \in {"fs", "out"}, r \in BOOLEAN : MintRooted(c, g, k, r)
       \/ MintNet(c, g)
       \/ \E n \in Amounts : MintAlloc(c, g, n) \/ MintFuel(c, g, n)
  \/ \E c \in Caps, k \in {"fs", "out"} : MintHost(c, k)
  \/ \E c \in Caps : FreeHost(c) \/ ReadFile(c)
  \/ \E g \in Sessions, n \in Amounts : Alloc(g, n)
  \/ \E c \in Caps, n \in Amounts : AllocVia(c, n) \/ Burn(c, n)

Spec == Init /\ [][Next]_vars

\* guest_end runs on; nobody has to call anything.
FairSpec == Spec /\ WF_vars(EndChild \/ EndSelf)

(***************************************************************************)
(* Properties.                                                             *)
(***************************************************************************)
\* The tables and the parent pointers are the same tree, and whatever is in
\* a table is live: guest_end of a dead entry would return without leaving
\* the table, and the loop over it would not end (320-327).  Children that
\* ended give back their places, and the table is never overrun (616).
TreeAgrees ==
  \A p, g \in Sessions :
    /\ (parent[g] = p) <=> \E i \in DOMAIN children[p] : children[p][i] = g
    /\ parent[g] = p => sess[p] = "live" /\ sess[g] = "live"
    /\ Len(children[p]) <= MaxChildren

\* The memory handed out of a live arena is inside it, aligned, and never
\* handed out twice, padding, budgets and failures notwithstanding (420-441).
BlocksDisjoint ==
  /\ \A b \in blocks :
       sess[b.arena] = "live" /\ b.lo % Align = 0 /\ b.hi <= size[b.arena]
  /\ \A b, d \in blocks : b # d /\ b.arena = d.arena => b.hi <= d.lo \/ d.hi <= b.lo

\* A budget is spent by exactly what was obtained through it: an allocation
\* the arena refuses costs nothing (489-497), and no sequence of calls gets
\* more than was granted.
BytesVia(c) == UNION {b.lo .. b.hi - 1 : b \in {d \in blocks : d.via = c}}

Spent(c) == burnt[c] + Cardinality(BytesVia(c))

BudgetsKept ==
  \A c \in Caps :
    kind[c] \in Budgeted /\ live[c] => left[c] >= 0 /\ left[c] = granted[c] - Spent(c)

\* The last text was read through a capability that still holds: the end of
\* any session, a denied read and the free of a host capability drop it.
TextHasCap == text # 0 => live[text]

\* Every end of a session returns.
EndReturns == ending # << >> ~> ending = << >>

\* "Ending the parent ends children and revokes their caps": seen from
\* outside, guest_end is one step that ends the session, all that was ever
\* begun under it and is left, and nothing else, with their capabilities.
InTree(g) == sess[g] = "live" /\ (ending # << >> => ending[1] \notin above[g])

Tree == INSTANCE GuestTree WITH
  alive <- {g \in Sessions : InTree(g)},
  usable <- {<<c, by[c]>> : c \in {d \in Caps : by[d] # 0 /\ live[d] /\ InTree(by[d])}}
ImplementsTree == Tree!Spec
=============================================================================
