---------------------------- MODULE GuestProofs ----------------------------
(***************************************************************************)
(* Theorems about GuestSession, for every bound, limit and alignment.      *)
(***************************************************************************)
EXTENDS GuestSession, FiniteSetTheorems, WellFoundedInduction, TLAPS

(***************************************************************************)
(* The last text.  Its capability is a live one for reading, and it loses  *)
(* its flag in two places only: the end of a session, which drops the text *)
(* whoever it came from, and the free of a host capability, which drops it *)
(* when that one could have been read through.                             *)
(***************************************************************************)
CapTypes ==
  /\ kind \in [Caps -> Kinds \cup {"none"}]
  /\ live \in [Caps -> BOOLEAN]
  /\ text \in 0 .. MaxMinted

TextInv == CapTypes /\ (text # 0 => live[text] /\ kind[text] = "fs")

LEMMA TextCapIsCap == CapTypes /\ text # 0 => text \in Caps
  BY GuestAssumption DEF CapTypes, Caps

LEMMA TextInvInit == Init => TextInv
  BY GuestAssumption DEF Init, TextInv, CapTypes, Caps, Kinds

LEMMA NewCapKeeps ==
  ASSUME TextInv, NEW c \in Caps, NEW k \in Kinds, NEW g, NEW a, NewCap(c, k, g, a)
  PROVE  TextInv'
<1>1. CapTypes'
  BY DEF NewCap, TextInv, CapTypes
<1>2. text # 0 => text # c
  BY DEF NewCap, FreshCap, TextInv
<1>3. text' = text /\ \A d \in Caps : d # c => live'[d] = live[d] /\ kind'[d] = kind[d]
  BY DEF NewCap, TextInv, CapTypes
<1> QED BY <1>1, <1>2, <1>3, TextCapIsCap DEF TextInv

LEMMA EndSelfKeeps ==
  ASSUME TextInv, EndSelf
  PROVE  TextInv'
  BY GuestAssumption DEF TextInv, CapTypes, EndSelf, Revoke, clear_last_text

LEMMA FreeHostKeeps ==
  ASSUME TextInv, NEW c \in Caps, FreeHost(c)
  PROVE  TextInv'
<1>1. CapTypes'
  BY GuestAssumption DEF TextInv, CapTypes, FreeHost, clear_last_text
<1>2. CASE text' = 0
  BY <1>1, <1>2 DEF TextInv
<1>3. CASE text' # 0
  <2>1. text' = text /\ kind[c] # "fs" /\ text # c
    BY <1>3 DEF FreeHost, TextInv, clear_last_text
  <2> QED BY <1>1, <2>1, TextCapIsCap DEF FreeHost, TextInv, CapTypes, clear_last_text
<1> QED BY <1>2, <1>3

LEMMA ReadFileKeeps ==
  ASSUME TextInv, NEW c \in Caps, ReadFile(c)
  PROVE  TextInv'
<1>1. c \in 0 .. MaxMinted
  BY GuestAssumption DEF Caps
<1> QED BY <1>1, GuestAssumption DEF ReadFile, TextInv, CapTypes, caps

LEMMA TextInvNext == TextInv /\ [Next]_vars => TextInv'
<1> SUFFICES ASSUME TextInv, [Next]_vars PROVE TextInv'
  OBVIOUS
<1> DEFINE Untouched == UNCHANGED <<kind, live, text>>
<1>1. Untouched => TextInv'
  BY DEF TextInv, CapTypes
<1>2. ASSUME NEW c \in Caps, NEW g \in Sessions, NEW k \in {"fs", "out"}, NEW r,
             MintRooted(c, g, k, r)
      PROVE  TextInv'
  BY <1>2, NewCapKeeps DEF MintRooted, Kinds
<1>3. ASSUME NEW c \in Caps, NEW g \in Sessions, MintNet(c, g)
      PROVE  TextInv'
  BY <1>3, NewCapKeeps DEF MintNet, Kinds
<1>4. ASSUME NEW c \in Caps, NEW g \in Sessions, NEW n \in Amounts,
             MintAlloc(c, g, n) \/ MintFuel(c, g, n)
      PROVE  TextInv'
  BY <1>4, NewCapKeeps DEF MintAlloc, MintFuel, Kinds, Budgeted
<1>5. ASSUME NEW c \in Caps, NEW k \in {"fs", "out"}, MintHost(c, k)
      PROVE  TextInv'
  BY <1>5, NewCapKeeps DEF MintHost, Kinds
<1>6. ASSUME NEW g \in Sessions, NEW r, NEW a, Begin(g, r, a)
      PROVE  Untouched
  BY <1>6 DEF Begin, caps
<1>7. ASSUME NEW p, NEW g, NEW r, NEW a, BeginNested(p, g, r, a)
      PROVE  Untouched
  BY <1>7 DEF BeginNested, caps
<1>8. ASSUME NEW g, EndCall(g) PROVE Untouched
  BY <1>8 DEF EndCall, caps
<1>9. ASSUME EndChild PROVE Untouched
  BY <1>9 DEF EndChild, caps
<1>10. ASSUME NEW g, NEW n, Alloc(g, n) PROVE Untouched
  BY <1>10 DEF Alloc, caps
<1>11. ASSUME NEW c, NEW n, AllocVia(c, n) \/ Burn(c, n) PROVE Untouched
  BY <1>11 DEF AllocVia, Burn
<1>12. CASE UNCHANGED vars
  BY <1>12, <1>1 DEF vars, caps
<1> HIDE DEF Untouched
<1> QED
  BY <1>1, <1>2, <1>3, <1>4, <1>5, <1>6, <1>7, <1>8, <1>9, <1>10, <1>11, <1>12,
     EndSelfKeeps, FreeHostKeeps, ReadFileKeeps
  DEF Next

\* The last text was read through a capability that still holds.
THEOREM TextHasCapHolds == Spec => []TextHasCap
<1>1. TextInv => TextHasCap
  BY DEF TextInv, TextHasCap
<1> QED BY <1>1, TextInvInit, TextInvNext, PTL DEF Spec

(***************************************************************************)
(* The tree.  The tables and the parent pointers agree because a table     *)
(* holds no session twice, so that unlinking the first occurrence unlinks  *)
(* the session; and a session that was not begun is in no table.           *)
(***************************************************************************)
TreeTypes ==
  /\ sess \in [Sessions -> {"none", "live", "dead"}]
  /\ parent \in [Sessions -> 0 .. MaxSessions]
  /\ children \in [Sessions -> Seq(Sessions)]
  /\ ending \in Seq(Sessions)

Distinct(s) == \A i, j \in DOMAIN s : s[i] = s[j] => i = j
Listed(s, g) == \E i \in DOMAIN s : s[i] = g

TreeInv ==
  /\ TreeTypes
  /\ TreeAgrees
  /\ \A p \in Sessions : Distinct(children[p])

\* guest_unlink_from_parent takes out one session and keeps the others.
LEMMA UnlinkedRemoves ==
  ASSUME NEW S, NEW s \in Seq(S), NEW g, Distinct(s)
  PROVE  /\ Unlinked(s, g) \in Seq(S)
         /\ Len(Unlinked(s, g)) <= Len(s)
         /\ Distinct(Unlinked(s, g))
         /\ \A e : Listed(Unlinked(s, g), e) <=> e # g /\ Listed(s, e)
<1>1. CASE ~Listed(s, g)
  BY <1>1 DEF Unlinked, Listed
<1>2. CASE Listed(s, g)
  <2> DEFINE k == CHOOSE i \in DOMAIN s : s[i] = g
             t == [s EXCEPT ![k] = s[Len(s)]]
             u == SubSeq(t, 1, Len(s) - 1)
  <2>1. k \in 1 .. Len(s) /\ s[k] = g
    BY <1>2 DEF Listed
  <2>2. Unlinked(s, g) = u
    BY <1>2 DEF Unlinked, Listed
  <2> HIDE DEF k
  <2>3. t \in Seq(S) /\ Len(t) = Len(s)
    BY <2>1
  <2>4. /\ u \in Seq(S) /\ Len(u) = Len(s) - 1
        /\ \A i \in 1 .. Len(s) - 1 : u[i] = IF i = k THEN s[Len(s)] ELSE s[i]
    BY <2>1, <2>3
  <2> HIDE DEF u
  <2>5. Distinct(u)
    BY <2>1, <2>4 DEF Distinct
  <2>6. ASSUME NEW e PROVE Listed(u, e) => e # g /\ Listed(s, e)
    BY <2>1, <2>4 DEF Listed, Distinct
  <2>7. ASSUME NEW e, e # g, Listed(s, e) PROVE Listed(u, e)
    <3>1. PICK i \in 1 .. Len(s) : s[i] = e
      BY <2>7 DEF Listed
    <3>2. CASE i = Len(s)
      BY <2>1, <2>4, <2>7, <3>1, <3>2 DEF Listed
    <3>3. CASE i < Len(s)
      BY <2>1, <2>4, <2>7, <3>1, <3>3 DEF Listed
    <3> QED BY <3>1, <3>2, <3>3
  <2> QED BY <2>2, <2>4, <2>5, <2>6, <2>7
<1> QED BY <1>1, <1>2

LEMMA AppendAdds ==
  ASSUME NEW S, NEW s \in Seq(S), NEW g \in S, Distinct(s), ~Listed(s, g)
  PROVE  /\ Append(s, g) \in Seq(S)
         /\ Len(Append(s, g)) = Len(s) + 1
         /\ Distinct(Append(s, g))
         /\ \A h : Listed(Append(s, g), h) <=> h = g \/ Listed(s, h)
<1> DEFINE t == Append(s, g)
<1>1. /\ t \in Seq(S) /\ Len(t) = Len(s) + 1
      /\ \A i \in 1 .. Len(s) : t[i] = s[i]
      /\ t[Len(s) + 1] = g
  OBVIOUS
<1> HIDE DEF t
<1>2. DOMAIN t = 1 .. Len(s) + 1 /\ DOMAIN s = 1 .. Len(s) /\ Len(s) \in Nat
  BY <1>1
<1>3. Distinct(t)
  BY <1>1, <1>2 DEF Distinct, Listed
<1>4. ASSUME NEW h PROVE Listed(t, h) => h = g \/ Listed(s, h)
  BY <1>1, <1>2 DEF Listed
<1>5. ASSUME NEW h, h = g \/ Listed(s, h) PROVE Listed(t, h)
  <2>1. CASE h = g
    BY <1>1, <1>2, <2>1 DEF Listed
  <2>2. CASE Listed(s, h)
    BY <1>1, <1>2, <2>2 DEF Listed
  <2> QED BY <1>5, <2>1, <2>2
<1> QED BY <1>1, <1>3, <1>4, <1>5 DEF t

LEMMA TreeInvInit == Init => TreeInv
  BY GuestAssumption DEF Init, TreeInv, TreeTypes, TreeAgrees, Distinct, Sessions

LEMMA BeginKeepsTree ==
  ASSUME TreeInv, NEW g \in Sessions, NEW r, NEW a, Begin(g, r, a)
  PROVE  TreeInv'
<1>1. TreeTypes'
  BY DEF TreeInv, TreeTypes, Begin
<1>2. sess[g] = "none" /\ UNCHANGED <<parent, children>>
  BY DEF Begin, Fresh
<1>3. \A h \in Sessions : sess[h] = "live" => sess'[h] = "live"
  BY DEF Begin, TreeInv, TreeTypes
<1> QED BY <1>1, <1>2, <1>3 DEF TreeInv, TreeAgrees

LEMMA BeginNestedKeepsTree ==
  ASSUME TreeInv, NEW p \in Sessions, NEW g \in Sessions, NEW r, NEW a,
         BeginNested(p, g, r, a)
  PROVE  TreeInv'
<1>1. /\ sess[g] = "none" /\ sess[p] = "live" /\ Len(children[p]) < MaxChildren
      /\ sess' = [sess EXCEPT ![g] = "live"]
      /\ parent' = [parent EXCEPT ![g] = p]
      /\ children' = [children EXCEPT ![p] = Append(@, g)]
      /\ ending' = ending
  BY DEF BeginNested, Fresh, HasPlace
<1>2. p # 0 /\ p \in 0 .. MaxSessions
  BY GuestAssumption DEF Sessions
<1>3. TreeTypes'
  BY <1>1, <1>2 DEF TreeInv, TreeTypes
<1>4. \A q \in Sessions : ~Listed(children[q], g)
  BY <1>1 DEF TreeInv, TreeAgrees, TreeTypes, Listed
<1>5. children'[p] = Append(children[p], g) /\ \A q \in Sessions : q # p => children'[q] = children[q]
  BY <1>1 DEF TreeInv, TreeTypes
<1>6. /\ Len(children'[p]) = Len(children[p]) + 1
      /\ Distinct(children'[p])
      /\ \A h : Listed(children'[p], h) <=> h = g \/ Listed(children[p], h)
  BY <1>4, <1>5, AppendAdds DEF TreeInv, TreeTypes
<1>7. ASSUME NEW q \in Sessions PROVE Distinct(children'[q])
  BY <1>5, <1>6 DEF TreeInv
<1>8. ASSUME NEW q \in Sessions, NEW h \in Sessions
      PROVE  (parent'[h] = q) <=> Listed(children'[q], h)
  <2>1. (parent[h] = q) <=> Listed(children[q], h)
    BY DEF TreeInv, TreeAgrees, Listed
  <2>2. CASE h = g
    BY <1>1, <1>4, <1>5, <1>6, <2>2 DEF TreeInv, TreeTypes
  <2>3. CASE h # g
    BY <1>1, <1>5, <1>6, <2>1, <2>3 DEF TreeInv, TreeTypes
  <2> QED BY <2>2, <2>3
<1>9. ASSUME NEW q \in Sessions, NEW h \in Sessions, parent'[h] = q
      PROVE  sess'[q] = "live" /\ sess'[h] = "live"
  BY <1>1, <1>9 DEF TreeInv, TreeTypes, TreeAgrees
<1>10. \A q \in Sessions : Len(children'[q]) <= MaxChildren
  BY <1>1, <1>5, <1>6, GuestAssumption DEF TreeInv, TreeTypes, TreeAgrees
<1> QED BY <1>3, <1>7, <1>8, <1>9, <1>10 DEF TreeInv, TreeAgrees, Listed

LEMMA EndSelfKeepsTree ==
  ASSUME TreeInv, EndSelf
  PROVE  TreeInv'
<1> DEFINE e == Ending
           Table(q) == IF q = parent[e] THEN Unlinked(children[q], e) ELSE children[q]
<1>1. /\ e \in Sessions
      /\ children[e] = << >>
      /\ children' = [q \in Sessions |-> Table(q)]
      /\ parent' = [parent EXCEPT ![e] = 0]
      /\ sess' = [sess EXCEPT ![e] = "dead"]
      /\ ending' = SubSeq(ending, 1, Len(ending) - 1)
  BY DEF EndSelf, Ending, TreeInv, TreeTypes
<1> HIDE DEF e
<1>2. ASSUME NEW q \in Sessions
      PROVE  /\ children'[q] \in Seq(Sessions)
             /\ Len(children'[q]) <= MaxChildren
             /\ Distinct(children'[q])
             /\ \A h \in Sessions :
                  Listed(children'[q], h) <=> Listed(children[q], h) /\ ~(q = parent[e] /\ h = e)
  <2>1. children[q] \in Seq(Sessions) /\ Len(children[q]) <= MaxChildren /\ Distinct(children[q])
    BY DEF TreeInv, TreeTypes, TreeAgrees
  <2>2. CASE q = parent[e]
    <3> DEFINE u == Unlinked(children[q], e)
    <3>1. /\ u \in Seq(Sessions) /\ Len(u) <= Len(children[q]) /\ Distinct(u)
          /\ \A h : Listed(u, h) <=> h # e /\ Listed(children[q], h)
      BY <2>1, UnlinkedRemoves
    <3>2. children'[q] = u
      BY <1>1, <2>2
    <3> HIDE DEF u
    <3> QED BY <2>1, <2>2, <3>1, <3>2, GuestAssumption
  <2>3. CASE q # parent[e]
    BY <1>1, <2>1, <2>3
  <2> QED BY <2>2, <2>3
<1>3. TreeTypes'
  <2>1. children' \in [Sessions -> Seq(Sessions)]
    BY <1>1, <1>2
  <2>2. ending' \in Seq(Sessions)
    BY <1>1 DEF TreeInv, TreeTypes
  <2>3. parent' \in [Sessions -> 0 .. MaxSessions] /\ sess' \in [Sessions -> {"none", "live", "dead"}]
    BY <1>1, GuestAssumption DEF TreeInv, TreeTypes
  <2> QED BY <2>1, <2>2, <2>3 DEF TreeTypes
<1>4. ASSUME NEW q \in Sessions, NEW h \in Sessions
      PROVE  (parent'[h] = q) <=> Listed(children'[q], h)
  <2>1. (parent[h] = q) <=> Listed(children[q], h)
    BY DEF TreeInv, TreeAgrees, Listed
  <2>2. CASE h = e
    BY <1>1, <1>2, <2>1, <2>2, GuestAssumption DEF TreeInv, TreeTypes, Sessions
  <2>3. CASE h # e
    BY <1>1, <1>2, <2>1, <2>3 DEF TreeInv, TreeTypes
  <2> QED BY <2>2, <2>3
<1>5. ASSUME NEW q \in Sessions, NEW h \in Sessions, parent'[h] = q
      PROVE  sess'[q] = "live" /\ sess'[h] = "live"
  <2>1. q # 0
    BY GuestAssumption DEF Sessions
  <2>2. h # e /\ parent[h] = q
    BY <1>1, <1>5, <2>1 DEF TreeInv, TreeTypes
  <2>3. q # e
    BY <1>1, <2>2 DEF TreeInv, TreeAgrees
  <2> QED BY <1>1, <2>2, <2>3 DEF TreeInv, TreeTypes, TreeAgrees
<1> QED BY <1>2, <1>3, <1>4, <1>5 DEF TreeInv, TreeAgrees, Listed

LEMMA TreeInvNext == TreeInv /\ [Next]_vars => TreeInv'
<1> SUFFICES ASSUME TreeInv, [Next]_vars PROVE TreeInv'
  OBVIOUS
<1> DEFINE Untouched == UNCHANGED <<sess, parent, children, ending>>
<1>1. Untouched => TreeInv'
  BY DEF TreeInv, TreeTypes, TreeAgrees
<1>2. ASSUME NEW g \in Sessions, EndCall(g)
      PROVE  TreeInv'
  <2>1. UNCHANGED <<sess, parent, children>> /\ ending' \in Seq(Sessions)
    BY <1>2 DEF EndCall, tree, TreeInv, TreeTypes
  <2> QED BY <2>1 DEF TreeInv, TreeTypes, TreeAgrees
<1>3. ASSUME EndChild PROVE TreeInv'
  <2>1. UNCHANGED <<sess, parent, children>> /\ ending' \in Seq(Sessions)
    BY <1>3 DEF EndChild, tree, TreeInv, TreeTypes, Ending
  <2> QED BY <2>1 DEF TreeInv, TreeTypes, TreeAgrees
<1>4. ASSUME NEW c, NEW g, NEW k, NEW r, MintRooted(c, g, k, r) PROVE Untouched
  BY <1>4 DEF MintRooted, NewCap, tree
<1>5. ASSUME NEW c, NEW g, NEW n, MintNet(c, g) \/ MintAlloc(c, g, n) \/ MintFuel(c, g, n)
      PROVE  Untouched
  BY <1>5 DEF MintNet, MintAlloc, MintFuel, NewCap, tree
<1>6. ASSUME NEW c, NEW k, MintHost(c, k) PROVE Untouched
  BY <1>6 DEF MintHost, NewCap, tree
<1>7. ASSUME NEW c, FreeHost(c) \/ ReadFile(c) PROVE Untouched
  BY <1>7 DEF FreeHost, ReadFile, tree
<1>8. ASSUME NEW g, NEW c, NEW n, Alloc(g, n) \/ AllocVia(c, n) \/ Burn(c, n)
      PROVE  Untouched
  BY <1>8 DEF Alloc, AllocVia, Burn, tree
<1>9. CASE UNCHANGED vars
  BY <1>9, <1>1 DEF vars, tree
<1> HIDE DEF Untouched
<1> QED
  BY <1>1, <1>2, <1>3, <1>4, <1>5, <1>6, <1>7, <1>8, <1>9,
     BeginKeepsTree, BeginNestedKeepsTree, EndSelfKeepsTree
  DEF Next

\* The tables and the parent pointers are one tree of live sessions, within
\* the limit of each table, at every point of every teardown.
THEOREM TreeAgreesHolds == Spec => []TreeAgrees
<1>1. TreeInv => TreeAgrees
  BY DEF TreeInv
<1> QED BY <1>1, TreeInvInit, TreeInvNext, PTL DEF Spec

(***************************************************************************)
(* The arena.  What was handed out of a session's arena ends at or before  *)
(* arena_used, so that a new block, which begins at or after it, meets     *)
(* none of them; a session that begins has handed out nothing.             *)
(***************************************************************************)
ArenaTypes ==
  /\ sess \in [Sessions -> {"none", "live", "dead"}]
  /\ ending \in Seq(Sessions)
  /\ size \in [Sessions -> Nat]
  /\ top \in [Sessions -> Nat]
  /\ kind \in [Caps -> Kinds \cup {"none"}]
  /\ by \in [Caps -> 0 .. MaxSessions]
  /\ \A c \in Caps : kind[c] = "alloc" => by[c] \in Sessions

\* A block that was handed out, and two that do not overlap.
Sound(b) ==
  /\ b.arena \in Sessions /\ sess[b.arena] = "live"
  /\ b.lo \in Nat /\ b.hi \in Nat
  /\ b.lo % Align = 0
  /\ b.hi <= top[b.arena] /\ b.hi <= size[b.arena]

Apart(b, d) == b # d /\ b.arena = d.arena => b.hi <= d.lo \/ d.hi <= b.lo

ArenaInv ==
  /\ ArenaTypes
  /\ \A g \in Sessions : size[g] < SizeWrap
  /\ \A b \in blocks : Sound(b)
  /\ \A b, d \in blocks : Apart(b, d)

LEMMA MultipleDivides ==
  ASSUME NEW a \in Nat \ {0}, NEW k \in Nat
  PROVE  (k * a) % a = 0
  OBVIOUS

\* A size_t difference that is not negative is what it is over the integers.
LEMMA SmallRemainder ==
  ASSUME NEW b \in Nat, NEW x \in 0 .. b - 1
  PROVE  x % b = x
  OBVIOUS

LEMMA QuotientBounds ==
  ASSUME NEW a \in Nat \ {0}, NEW x \in Nat
  PROVE  x \div a \in Nat /\ (x \div a) * a <= x /\ x < (x \div a) * a + a
  OBVIOUS

\* Rounding up reaches a multiple of the alignment, never going back.
LEMMA PaddedRoundsUp ==
  ASSUME ArenaTypes, NEW g \in Sessions
  PROVE  Padded(g) \in Nat /\ top[g] <= Padded(g) /\ Padded(g) % Align = 0
<1> DEFINE x == top[g] + Align - 1
           k == x \div Align
<1>1. x \in Nat /\ Align \in Nat \ {0} /\ top[g] \in Nat
  BY GuestAssumption DEF ArenaTypes
<1>2. k \in Nat /\ k * Align <= x /\ x < k * Align + Align
  BY <1>1, QuotientBounds
<1>3. (k * Align) % Align = 0
  BY <1>1, <1>2, MultipleDivides
<1>4. Padded(g) = k * Align
  BY DEF Padded
<1>5. x = top[g] + Align - 1
  OBVIOUS
<1> HIDE DEF k, x
<1>6. k * Align \in Nat
  BY <1>1, <1>2
<1> QED BY <1>1, <1>2, <1>3, <1>4, <1>5, <1>6

\* Every size an arena may have is a size_t.
LEMMA SizesFit ==
  /\ SizeWrap \in Nat /\ 0 < SizeWrap
  /\ DefaultArena \in Nat /\ DefaultArena < SizeWrap
  /\ \A a \in ArenaRequests : a \in Int /\ a < SizeWrap
<1>1. Align \in Nat \ {0} /\ DefaultArena \in Nat /\ SizeWrap \in Nat
  BY GuestAssumption
<1>2. DefaultArena + Align <= SizeWrap
  BY GuestAssumption
<1>3. ASSUME NEW a \in ArenaRequests PROVE a \in Int /\ a + Align <= SizeWrap
  BY GuestAssumption
<1> QED BY <1>1, <1>2, <1>3

LEMMA ArenaInvInit == Init => ArenaInv
<1> SUFFICES ASSUME Init PROVE ArenaInv
  OBVIOUS
<1>1. ArenaTypes
  BY GuestAssumption DEF Init, ArenaTypes, Sessions, Caps, Kinds
<1>2. blocks = {} /\ \A g \in Sessions : size[g] < SizeWrap
  BY SizesFit DEF Init
<1> QED BY <1>1, <1>2 DEF ArenaInv

\* A session that begins had no arena.
LEMMA NewArenaKeeps ==
  ASSUME ArenaInv, NEW g \in Sessions, NEW a \in ArenaRequests, sess[g] = "none",
         sess' = [sess EXCEPT ![g] = "live"], NewArena(g, a),
         UNCHANGED <<kind, by, ending>>
  PROVE  ArenaInv'
<1>1. a \in Int /\ DefaultArena \in Nat
  BY GuestAssumption
<1>2. ArenaTypes'
  BY <1>1 DEF ArenaInv, ArenaTypes, NewArena
<1>3. UNCHANGED <<top, blocks>>
  BY DEF NewArena
<1>4. ASSUME NEW b \in blocks PROVE Sound(b)'
  <2>1. Sound(b) /\ b.arena # g
    BY DEF ArenaInv, Sound
  <2> QED BY <2>1, <1>3 DEF ArenaInv, ArenaTypes, Sound, NewArena
<1>5. ASSUME NEW h \in Sessions PROVE size'[h] < SizeWrap
  BY <1>1, SizesFit DEF ArenaInv, ArenaTypes, NewArena
<1> QED BY <1>2, <1>3, <1>4, <1>5 DEF ArenaInv, Apart

LEMMA EndSelfKeepsArena ==
  ASSUME ArenaInv, EndSelf
  PROVE  ArenaInv'
<1> DEFINE e == Ending
<1>1. /\ e \in Sessions
      /\ size' = [size EXCEPT ![e] = 0] /\ top' = [top EXCEPT ![e] = 0]
      /\ sess' = [sess EXCEPT ![e] = "dead"]
      /\ blocks' = {b \in blocks : b.arena # e}
      /\ ending' = SubSeq(ending, 1, Len(ending) - 1)
      /\ UNCHANGED <<kind, by>>
  BY DEF EndSelf, Revoke, Ending, ArenaInv, ArenaTypes
<1> HIDE DEF e
<1>2. ArenaTypes'
  BY <1>1 DEF ArenaInv, ArenaTypes
<1>3. ASSUME NEW b \in blocks' PROVE Sound(b)'
  BY <1>1, <1>3 DEF ArenaInv, ArenaTypes, Sound
<1>4. ASSUME NEW h \in Sessions PROVE size'[h] < SizeWrap
  BY <1>1, SizesFit DEF ArenaInv, ArenaTypes
<1> QED BY <1>1, <1>2, <1>3, <1>4 DEF ArenaInv, Apart

LEMMA BumpKeepsArena ==
  ASSUME ArenaInv, NEW g \in Sessions, NEW c, NEW n \in Amounts, Bump(g, c, n),
         UNCHANGED <<sess, kind, by, ending>>
  PROVE  ArenaInv'
<1> PICK lo : lo = Padded(g)
  OBVIOUS
<1> PICK new : new = [arena |-> g, via |-> c, lo |-> lo, hi |-> lo + n]
  OBVIOUS
<1>1. lo \in Nat /\ top[g] <= lo /\ lo % Align = 0
  BY PaddedRoundsUp DEF ArenaInv
<1>2. /\ n \in Nat /\ sess[g] = "live"
      /\ lo <= size[g] /\ n <= (size[g] - lo) % SizeWrap
      /\ top' = [top EXCEPT ![g] = lo + n]
      /\ blocks' = blocks \cup {new}
      /\ size' = size
  BY GuestAssumption DEF Bump, Fits
<1>3. new.arena = g /\ new.lo = lo /\ new.hi = lo + n
  OBVIOUS
<1>4. size[g] \in Nat /\ top[g] \in Nat /\ n <= size[g] - lo
  <2>1. size[g] \in Nat /\ top[g] \in Nat /\ SizeWrap \in Nat /\ size[g] < SizeWrap
    BY GuestAssumption DEF ArenaInv, ArenaTypes
  <2>2. size[g] - lo \in 0 .. SizeWrap - 1
    BY <1>1, <1>2, <2>1
  <2> QED BY <1>2, <2>1, <2>2, SmallRemainder
<1>5. ArenaTypes'
  BY <1>1, <1>2 DEF ArenaInv, ArenaTypes
<1>6. Sound(new)'
  BY <1>1, <1>2, <1>3, <1>4 DEF ArenaInv, ArenaTypes, Sound
<1>7. ASSUME NEW b \in blocks PROVE Sound(b)' /\ Apart(b, new) /\ Apart(new, b)
  <2>1. Sound(b)
    BY DEF ArenaInv
  <2>2. b.arena = g => b.hi <= lo
    BY <1>1, <1>4, <2>1 DEF Sound
  <2> QED BY <1>1, <1>2, <1>3, <1>4, <2>1, <2>2 DEF ArenaInv, ArenaTypes, Sound, Apart
<1>8. ASSUME NEW b \in blocks', NEW d \in blocks' PROVE Apart(b, d)
  BY <1>2, <1>7 DEF ArenaInv, Apart
<1> QED BY <1>2, <1>5, <1>6, <1>7, <1>8 DEF ArenaInv, Apart

LEMMA MintKeepsArena ==
  ASSUME ArenaInv, NEW c \in Caps, NEW k \in Kinds, NEW g \in 0 .. MaxSessions, NEW a,
         k = "alloc" => g \in Sessions, NewCap(c, k, g, a)
  PROVE  ArenaInv'
<1>1. UNCHANGED <<sess, size, top, blocks, ending>>
  BY DEF NewCap, tree, arena
<1>2. ArenaTypes'
  BY <1>1 DEF NewCap, ArenaInv, ArenaTypes
<1> QED BY <1>1, <1>2 DEF ArenaInv, Sound, Apart

LEMMA ArenaInvNext == TreeInv /\ ArenaInv /\ [Next]_vars => ArenaInv'
<1> SUFFICES ASSUME TreeInv, ArenaInv, [Next]_vars PROVE ArenaInv'
  OBVIOUS
<1> DEFINE Untouched == UNCHANGED <<sess, size, top, blocks, kind, by, ending>>
<1>1. Untouched => ArenaInv'
  BY DEF ArenaInv, ArenaTypes, Sound, Apart
<1>2. ASSUME NEW g \in Sessions, NEW r, NEW a \in ArenaRequests, Begin(g, r, a)
      PROVE  ArenaInv'
  BY <1>2, NewArenaKeeps DEF Begin, Fresh, caps
<1>3. ASSUME NEW p, NEW g \in Sessions, NEW r, NEW a \in ArenaRequests, BeginNested(p, g, r, a)
      PROVE  ArenaInv'
  BY <1>3, NewArenaKeeps DEF BeginNested, Fresh, caps
<1>4. ASSUME ending' \in Seq(Sessions), UNCHANGED <<sess, size, top, blocks, kind, by>>
      PROVE  ArenaInv'
  BY <1>4 DEF ArenaInv, ArenaTypes, Sound, Apart
<1>5. ASSUME NEW g \in Sessions, EndCall(g) PROVE ArenaInv'
  <2>1. ending' \in Seq(Sessions)
    BY <1>5 DEF EndCall
  <2> QED BY <1>4, <1>5, <2>1 DEF EndCall, tree, arena, caps
<1>6. ASSUME EndChild PROVE ArenaInv'
  <2>1. ending' \in Seq(Sessions)
    BY <1>6 DEF EndChild, Ending, TreeInv, TreeTypes
  <2> QED BY <1>4, <1>6, <2>1 DEF EndChild, tree, arena, caps
<1>7. ASSUME NEW g \in Sessions PROVE g \in 0 .. MaxSessions
  BY GuestAssumption DEF Sessions
<1>8. ASSUME NEW c \in Caps, NEW g \in Sessions, NEW k \in {"fs", "out"}, NEW r,
             MintRooted(c, g, k, r)
      PROVE  ArenaInv'
  BY <1>7, <1>8, MintKeepsArena DEF MintRooted, Kinds
<1>9. ASSUME NEW c \in Caps, NEW g \in Sessions, MintNet(c, g)
      PROVE  ArenaInv'
  BY <1>7, <1>9, MintKeepsArena DEF MintNet, Kinds
<1>10. ASSUME NEW c \in Caps, NEW g \in Sessions, NEW n \in Amounts,
             MintAlloc(c, g, n) \/ MintFuel(c, g, n)
      PROVE  ArenaInv'
  BY <1>7, <1>10, MintKeepsArena DEF MintAlloc, MintFuel, Kinds, Budgeted
<1>11. ASSUME NEW c \in Caps, NEW k \in {"fs", "out"}, MintHost(c, k)
      PROVE  ArenaInv'
  <2>1. 0 \in 0 .. MaxSessions
    BY GuestAssumption
  <2>2. k \in Kinds /\ k # "alloc" /\ NewCap(c, k, 0, 0)
    BY <1>11 DEF MintHost, Kinds
  <2> QED BY <2>1, <2>2, MintKeepsArena
<1>12. ASSUME NEW c, FreeHost(c) \/ ReadFile(c) PROVE Untouched
  BY <1>12 DEF FreeHost, ReadFile, tree, arena, caps
<1>13. ASSUME NEW g \in Sessions, NEW n \in Amounts, Alloc(g, n)
       PROVE  ArenaInv'
  BY <1>13, BumpKeepsArena DEF Alloc, tree, caps
<1>14. ASSUME NEW c \in Caps, NEW n \in Amounts, AllocVia(c, n)
       PROVE  ArenaInv'
  BY <1>14, BumpKeepsArena DEF AllocVia, tree, ArenaInv, ArenaTypes
<1>15. ASSUME NEW c, NEW n, Burn(c, n) PROVE Untouched
  BY <1>15 DEF Burn, tree, arena
<1>16. CASE UNCHANGED vars
  BY <1>16, <1>1 DEF vars, tree, arena, caps
<1> HIDE DEF Untouched
<1> QED
  BY <1>1, <1>2, <1>3, <1>5, <1>6, <1>8, <1>9, <1>11, <1>12, <1>13, <1>14, <1>15, <1>16,
     <1>10, EndSelfKeepsArena
  DEF Next

\* Memory is handed out inside the arena of a live session, aligned and
\* never twice, for every alignment, arena size and request.
THEOREM BlocksDisjointHolds == Spec => []BlocksDisjoint
<1>1. ArenaInv => BlocksDisjoint
  BY DEF ArenaInv, Sound, Apart, BlocksDisjoint
<1> QED BY <1>1, TreeInvInit, TreeInvNext, ArenaInvInit, ArenaInvNext, PTL DEF Spec

(***************************************************************************)
(* The budgets.  What a capability obtained lies in the arena of the       *)
(* session that minted it, so that a new block adds exactly its length and *)
(* a session that ends takes no block of a capability that still holds.    *)
(***************************************************************************)
BudgetTypes ==
  /\ live \in [Caps -> BOOLEAN]
  /\ left \in [Caps -> Int] /\ granted \in [Caps -> Int] /\ burnt \in [Caps -> Int]

InArenaOf(b) == b.via # 0 => b.via \in Caps /\ kind[b.via] = "alloc" /\ b.arena = by[b.via]

Account(c) ==
  /\ IsFiniteSet(BytesVia(c))
  /\ kind[c] = "none" => burnt[c] = 0
  /\ kind[c] \in Budgeted /\ live[c] => left[c] >= 0 /\ left[c] = granted[c] - Spent(c)

BudgetInv ==
  /\ BudgetTypes
  /\ \A b \in blocks : InArenaOf(b)
  /\ \A c \in Caps : Account(c)

\* A set of two parts with nothing in common.
LEMMA DisjointUnion ==
  ASSUME NEW S, IsFiniteSet(S), NEW T, IsFiniteSet(T), S \cap T = {}
  PROVE  IsFiniteSet(S \cup T) /\ Cardinality(S \cup T) = Cardinality(S) + Cardinality(T)
<1>1. Cardinality(S \cap T) = 0
  BY FS_EmptySet
<1>2. Cardinality(S) \in Nat /\ Cardinality(T) \in Nat
  BY FS_CardinalityType
<1>3. /\ IsFiniteSet(S \cup T)
      /\ Cardinality(S \cup T) = Cardinality(S) + Cardinality(T) - Cardinality(S \cap T)
  BY FS_Union
<1> QED BY <1>1, <1>2, <1>3

LEMMA CapIsNumber == \A c \in Caps : c \in Nat \ {0}
  BY DEF Caps

LEMMA BudgetInit == Init => BudgetInv
<1> SUFFICES ASSUME Init PROVE BudgetInv
  OBVIOUS
<1>1. BudgetTypes /\ blocks = {} /\ \A c \in Caps : kind[c] = "none" /\ burnt[c] = 0
  BY DEF Init, BudgetTypes
<1>2. ASSUME NEW c \in Caps PROVE Account(c)
  <2>1. BytesVia(c) = {}
    BY <1>1 DEF BytesVia
  <2> QED BY <1>1, <2>1, FS_EmptySet DEF Account, Budgeted
<1> QED BY <1>1, <1>2 DEF BudgetInv

\* A capability whose blocks, flag, kind and counters stay keeps its account.
LEMMA SameAccount ==
  ASSUME NEW c \in Caps, Account(c), BytesVia(c)' = BytesVia(c), kind'[c] = kind[c], burnt'[c] = burnt[c],
         live'[c] => live[c] /\ left'[c] = left[c] /\ granted'[c] = granted[c]
  PROVE  Account(c)'
BY DEF Account, Spent

LEMMA NewCapKeepsBudgets ==
  ASSUME BudgetInv, ArenaInv, NEW c \in Caps, NEW k \in Kinds, NEW g, NEW a \in Int,
         k \in Budgeted => a >= 0, NewCap(c, k, g, a)
  PROVE  BudgetInv'
<1>1. /\ kind[c] = "none"
      /\ kind' = [kind EXCEPT ![c] = k] /\ by' = [by EXCEPT ![c] = g]
      /\ live' = [live EXCEPT ![c] = TRUE] /\ left' = [left EXCEPT ![c] = a]
      /\ granted' = [granted EXCEPT ![c] = a]
      /\ burnt' = burnt /\ blocks' = blocks
  BY DEF NewCap, FreshCap, arena
<1>2. kind \in [Caps -> Kinds \cup {"none"}] /\ DOMAIN by = Caps
  BY DEF ArenaInv, ArenaTypes
<1>3. BudgetTypes'
  BY <1>1 DEF BudgetInv, BudgetTypes
<1>4. ASSUME NEW b \in blocks PROVE InArenaOf(b)' /\ b.via # c
  <2>1. InArenaOf(b) /\ b.via # c
    BY <1>1, CapIsNumber DEF BudgetInv, InArenaOf
  <2> QED BY <2>1, <1>1, <1>2 DEF InArenaOf
<1>5. ASSUME NEW d \in Caps PROVE Account(d)'
  <2>1. Account(d) /\ BytesVia(d)' = BytesVia(d)
    BY <1>1 DEF BudgetInv, BytesVia
  <2>2. CASE d = c
    <3>1. BytesVia(c) = {} /\ Cardinality(BytesVia(c)) = 0
      BY <1>4, FS_EmptySet DEF BytesVia
    <3>2. burnt[c] = 0 /\ Spent(c)' = 0
      BY <1>1, <2>1, <2>2, <3>1 DEF Spent, Account
    <3>3. left'[c] = a /\ granted'[c] = a /\ kind'[c] = k
      BY <1>1, <1>2 DEF BudgetInv, BudgetTypes
    <3>4. k # "none"
      BY DEF Kinds, Budgeted
    <3> QED BY <2>1, <2>2, <3>2, <3>3, <3>4 DEF Account
  <2>3. CASE d # c
    BY <1>1, <1>2, <2>1, <2>3, SameAccount DEF BudgetInv, BudgetTypes
  <2> QED BY <2>2, <2>3
<1> QED BY <1>1, <1>3, <1>4, <1>5 DEF BudgetInv

LEMMA EndSelfKeepsBudgets ==
  ASSUME BudgetInv, ArenaInv, EndSelf
  PROVE  BudgetInv'
<1> DEFINE e == Ending
<1>1. /\ live' = [c \in Caps |-> live[c] /\ by[c] # e]
      /\ left' = [c \in Caps |-> IF by[c] = e THEN 0 ELSE left[c]]
      /\ blocks' = {b \in blocks : b.arena # e}
      /\ UNCHANGED <<kind, by, granted, burnt>>
  BY DEF EndSelf, Revoke
<1> HIDE DEF e
<1>2. BudgetTypes'
  <2>1. \A c \in Caps : (live[c] /\ by[c] # e) \in BOOLEAN
    OBVIOUS
  <2>2. live' \in [Caps -> BOOLEAN]
    BY <1>1, <2>1, Zenon
  <2>3. left' \in [Caps -> Int]
    BY <1>1 DEF BudgetInv, BudgetTypes
  <2> QED BY <1>1, <2>2, <2>3 DEF BudgetInv, BudgetTypes
<1>3. ASSUME NEW b \in blocks' PROVE InArenaOf(b)'
  BY <1>1, <1>3 DEF BudgetInv, InArenaOf
<1>4. ASSUME NEW c \in Caps PROVE Account(c)'
  <2>1. Account(c)
    BY DEF BudgetInv
  <2>2. CASE live'[c]
    <3>1. live[c] /\ by[c] # e
      BY <1>1, <2>2
    <3>2. \A b \in blocks : b.via = c => b.arena # e
      BY <3>1, CapIsNumber DEF BudgetInv, InArenaOf
    <3>3. BytesVia(c)' = BytesVia(c)
      BY <1>1, <3>2 DEF BytesVia
    <3>4. left'[c] = left[c]
      BY <1>1, <3>1
    <3> QED BY <1>1, <2>1, <3>1, <3>3, <3>4, SameAccount
  <2>3. CASE ~live'[c]
    <3>1. BytesVia(c)' \in SUBSET BytesVia(c)
      BY <1>1 DEF BytesVia
    <3>2. IsFiniteSet(BytesVia(c)')
      BY <2>1, <3>1, FS_Subset DEF Account
    <3> QED BY <1>1, <2>1, <2>3, <3>2 DEF Account
  <2> QED BY <2>2, <2>3
<1> QED BY <1>2, <1>3, <1>4 DEF BudgetInv

\* The new block begins where no block of its arena ended.
LEMMA AllocViaKeepsBudgets ==
  ASSUME BudgetInv, ArenaInv, NEW c \in Caps, NEW n \in Amounts, AllocVia(c, n)
  PROVE  BudgetInv'
<1> DEFINE g == by[c]
           lo == Padded(g)
           new == [arena |-> g, via |-> c, lo |-> lo, hi |-> lo + n]
<1>1. /\ kind[c] = "alloc" /\ live[c]
      /\ n > 0 /\ n <= left[c]
      /\ blocks' = blocks \cup {new}
      /\ left' = [left EXCEPT ![c] = left[c] - n]
      /\ UNCHANGED <<kind, by, live, granted, burnt>>
  BY DEF AllocVia, Bump
<1>2. n \in Int /\ g \in Sessions
  BY <1>1, GuestAssumption DEF ArenaInv, ArenaTypes
<1>3. lo \in Nat /\ top[g] \in Nat /\ top[g] <= lo
  BY <1>2, PaddedRoundsUp DEF ArenaInv, ArenaTypes
<1>4. new.arena = g /\ new.via = c /\ new.lo = lo /\ new.hi = lo + n
  OBVIOUS
<1> HIDE DEF g, lo, new
<1>5. BudgetTypes'
  BY <1>1, <1>2 DEF BudgetInv, BudgetTypes
<1>6. ASSUME NEW b \in blocks' PROVE InArenaOf(b)'
  BY <1>1, <1>4, <1>6 DEF BudgetInv, InArenaOf, g
<1>7. BytesVia(c)' = BytesVia(c) \cup (lo .. lo + n - 1)
  <2>1. ASSUME NEW x PROVE x \in BytesVia(c)' <=> x \in BytesVia(c) \/ x \in new.lo .. new.hi - 1
    <3>1. x \in BytesVia(c)' <=> \E b \in blocks' : b.via = c /\ x \in b.lo .. b.hi - 1
      BY DEF BytesVia
    <3>2. x \in BytesVia(c) <=> \E b \in blocks : b.via = c /\ x \in b.lo .. b.hi - 1
      BY DEF BytesVia
    <3>3. \A b : b \in blocks' <=> b \in blocks \/ b = new
      BY <1>1
    <3> QED BY <3>1, <3>2, <3>3, <1>4, Zenon
  <2>2. new.lo .. new.hi - 1 = lo .. lo + n - 1
    BY <1>2, <1>3, <1>4
  <2> QED BY <2>1, <2>2
<1>8. BytesVia(c) \cap (lo .. lo + n - 1) = {}
  <2> SUFFICES ASSUME NEW b \in blocks, b.via = c, NEW x \in b.lo .. b.hi - 1, x \in lo .. lo + n - 1
               PROVE  FALSE
    BY DEF BytesVia
  <2>1. Sound(b) /\ b.arena = g
    BY CapIsNumber DEF ArenaInv, BudgetInv, InArenaOf, g
  <2>2. b.hi <= top[g] /\ b.hi \in Nat /\ b.lo \in Nat
    BY <2>1 DEF Sound
  <2> QED BY <2>2, <1>2, <1>3
<1>9. /\ IsFiniteSet(lo .. lo + n - 1)
      /\ Cardinality(lo .. lo + n - 1) = n
  <2>1. n > 0
    BY <1>1
  <2>2. lo \in Int /\ lo + n - 1 \in Int /\ lo + n - 1 >= lo /\ (lo + n - 1) - lo + 1 = n
    BY <2>1, <1>2, <1>3
  <2> HIDE <1>1
  <2> QED BY <2>2, FS_Interval
<1>10. Account(c)'
  <2>1. IsFiniteSet(BytesVia(c)) /\ Cardinality(BytesVia(c)) \in Nat
    BY FS_CardinalityType DEF BudgetInv, Account
  <2>2. /\ IsFiniteSet(BytesVia(c)')
        /\ Cardinality(BytesVia(c)') = Cardinality(BytesVia(c)) + n
    BY <2>1, <1>7, <1>8, <1>9, DisjointUnion
  <2>3. Account(c) /\ left[c] \in Int /\ granted[c] \in Int /\ burnt[c] \in Int
    BY DEF BudgetInv, BudgetTypes
  <2>4. left[c] = granted[c] - (burnt[c] + Cardinality(BytesVia(c)))
    BY <1>1, <2>3 DEF Account, Spent, Budgeted
  <2>5. left'[c] = left[c] - n
    BY <1>1 DEF BudgetInv, BudgetTypes
  <2>6. left'[c] >= 0 /\ left'[c] = granted[c] - (burnt[c] + Cardinality(BytesVia(c)'))
    BY <1>1, <1>2, <2>1, <2>2, <2>3, <2>4, <2>5
  <2> QED BY <1>1, <2>2, <2>3, <2>6 DEF Account, Spent
<1>11. ASSUME NEW d \in Caps, d # c PROVE Account(d)'
  <2>1. BytesVia(d)' = BytesVia(d)
    BY <1>1, <1>4, <1>11 DEF BytesVia
  <2>2. left'[d] = left[d]
    BY <1>1, <1>11 DEF BudgetInv, BudgetTypes
  <2> QED BY <1>1, <2>1, <2>2, SameAccount DEF BudgetInv
<1> QED BY <1>5, <1>6, <1>10, <1>11 DEF BudgetInv

LEMMA BurnKeepsBudgets ==
  ASSUME BudgetInv, NEW c \in Caps, NEW n \in Amounts, Burn(c, n)
  PROVE  BudgetInv'
<1>1. /\ kind[c] = "fuel" /\ live[c] /\ n > 0 /\ n <= left[c] /\ n \in Int
      /\ left' = [left EXCEPT ![c] = left[c] - n]
      /\ burnt' = [burnt EXCEPT ![c] = burnt[c] + n]
      /\ UNCHANGED <<kind, by, live, granted, blocks>>
  BY GuestAssumption DEF Burn, arena
<1>2. BudgetTypes'
  BY <1>1 DEF BudgetInv, BudgetTypes
<1>3. \A d \in Caps : BytesVia(d)' = BytesVia(d)
  BY <1>1 DEF BytesVia
<1>4. Account(c)'
  <2>1. Account(c) /\ left[c] \in Int /\ granted[c] \in Int /\ burnt[c] \in Int
    BY DEF BudgetInv, BudgetTypes
  <2>2. Cardinality(BytesVia(c)) \in Nat
    BY <2>1, FS_CardinalityType DEF Account
  <2>3. left[c] = granted[c] - (burnt[c] + Cardinality(BytesVia(c)))
    BY <1>1, <2>1 DEF Account, Spent, Budgeted
  <2>4. left'[c] = left[c] - n /\ burnt'[c] = burnt[c] + n
    BY <1>1 DEF BudgetInv, BudgetTypes
  <2>5. left'[c] >= 0 /\ left'[c] = granted[c] - (burnt'[c] + Cardinality(BytesVia(c)))
    BY <1>1, <2>1, <2>2, <2>3, <2>4
  <2> QED BY <1>1, <1>3, <2>1, <2>5 DEF Account, Spent
<1>5. ASSUME NEW d \in Caps, d # c PROVE Account(d)'
  <2>1. left'[d] = left[d] /\ burnt'[d] = burnt[d]
    BY <1>1, <1>5 DEF BudgetInv, BudgetTypes
  <2> QED BY <1>1, <1>3, <2>1, SameAccount DEF BudgetInv
<1>6. \A b \in blocks' : InArenaOf(b)'
  BY <1>1 DEF BudgetInv, InArenaOf
<1> QED BY <1>2, <1>4, <1>5, <1>6 DEF BudgetInv

LEMMA FreeHostKeepsBudgets ==
  ASSUME BudgetInv, NEW c \in Caps, FreeHost(c)
  PROVE  BudgetInv'
<1>1. live' = [live EXCEPT ![c] = FALSE] /\ UNCHANGED <<kind, by, left, granted, burnt, blocks>>
  BY DEF FreeHost, arena
<1>2. BudgetTypes'
  BY <1>1 DEF BudgetInv, BudgetTypes
<1>3. \A d \in Caps : BytesVia(d)' = BytesVia(d) /\ (live'[d] => live[d])
  BY <1>1 DEF BytesVia, BudgetInv, BudgetTypes
<1>4. \A d \in Caps : Account(d)'
  BY <1>1, <1>3, SameAccount DEF BudgetInv
<1> QED BY <1>1, <1>2, <1>4 DEF BudgetInv, InArenaOf

\* Memory obtained from the session itself is on no capability's account.
LEMMA AllocKeepsBudgets ==
  ASSUME BudgetInv, NEW g \in Sessions, NEW n \in Amounts, Alloc(g, n)
  PROVE  BudgetInv'
<1> DEFINE new == [arena |-> g, via |-> 0, lo |-> Padded(g), hi |-> Padded(g) + n]
<1>1. blocks' = blocks \cup {new} /\ UNCHANGED <<kind, by, live, left, granted, burnt>>
  BY DEF Alloc, Bump, caps
<1>2. new.via = 0
  OBVIOUS
<1> HIDE DEF new
<1>3. \A c \in Caps : BytesVia(c)' = BytesVia(c)
  BY <1>1, <1>2, CapIsNumber DEF BytesVia
<1>4. \A c \in Caps : Account(c)'
  BY <1>1, <1>3, SameAccount DEF BudgetInv
<1> QED BY <1>1, <1>2, <1>4 DEF BudgetInv, BudgetTypes, InArenaOf

LEMMA BudgetNext == ArenaInv /\ BudgetInv /\ [Next]_vars => BudgetInv'
<1> SUFFICES ASSUME ArenaInv, BudgetInv, [Next]_vars PROVE BudgetInv'
  OBVIOUS
<1> DEFINE Untouched == UNCHANGED <<blocks, kind, by, live, left, granted, burnt>>
<1>1. Untouched => BudgetInv'
  BY DEF BudgetInv, BudgetTypes, InArenaOf, Account, Spent, BytesVia
<1>2. ASSUME NEW g, NEW r, NEW a, Begin(g, r, a) PROVE Untouched
  BY <1>2 DEF Begin, NewArena, caps
<1>3. ASSUME NEW p, NEW g, NEW r, NEW a, BeginNested(p, g, r, a) PROVE Untouched
  BY <1>3 DEF BeginNested, NewArena, caps
<1>4. ASSUME NEW g, EndCall(g) \/ EndChild PROVE Untouched
  BY <1>4 DEF EndCall, EndChild, arena, caps
<1>5. ASSUME NEW c \in Caps, NEW g, NEW k \in {"fs", "out"}, NEW r, MintRooted(c, g, k, r)
      PROVE  BudgetInv'
  BY <1>5, NewCapKeepsBudgets DEF MintRooted, Kinds, Budgeted
<1>6. ASSUME NEW c \in Caps, NEW g, MintNet(c, g) PROVE BudgetInv'
  BY <1>6, NewCapKeepsBudgets DEF MintNet, Kinds, Budgeted
<1>7. ASSUME NEW c \in Caps, NEW g, NEW n \in Amounts, MintAlloc(c, g, n) \/ MintFuel(c, g, n)
      PROVE  BudgetInv'
  <2>1. n \in Int /\ n >= 0
    BY <1>7, GuestAssumption DEF MintAlloc, MintFuel
  <2> QED BY <1>7, <2>1, NewCapKeepsBudgets DEF MintAlloc, MintFuel, Kinds, Budgeted
<1>8. ASSUME NEW c \in Caps, NEW k \in {"fs", "out"}, MintHost(c, k) PROVE BudgetInv'
  BY <1>8, NewCapKeepsBudgets DEF MintHost, Kinds, Budgeted
<1>9. ASSUME NEW c, ReadFile(c) PROVE Untouched
  BY <1>9 DEF ReadFile, arena, caps
<1>10. CASE UNCHANGED vars
  BY <1>10, <1>1 DEF vars, arena, caps
<1> HIDE DEF Untouched
<1> QED
  BY <1>1, <1>2, <1>3, <1>4, <1>5, <1>6, <1>7, <1>8, <1>9, <1>10, EndSelfKeepsBudgets,
     FreeHostKeepsBudgets, AllocKeepsBudgets, AllocViaKeepsBudgets, BurnKeepsBudgets
  DEF Next

\* Whatever is refused and whatever ends, a budget is down by exactly what
\* was obtained through its capability, and never below nothing.
THEOREM BudgetsKeptHolds == Spec => []BudgetsKept
<1>1. BudgetInv => BudgetsKept
  BY DEF BudgetInv, Account, BudgetsKept
<1> QED
  BY <1>1, TreeInvInit, TreeInvNext, ArenaInvInit, ArenaInvNext, BudgetInit, BudgetNext, PTL DEF Spec

(***************************************************************************)
(* The refinement.  A session is numbered after its parent, and above is   *)
(* its parent's with itself; that is why a session without children has    *)
(* nobody left under it, and the last step of guest_end, which takes the   *)
(* session itself, shows nothing that its first step had not taken away.   *)
(***************************************************************************)
LEMMA LeastNumber ==
  ASSUME NEW T, T \subseteq Nat, T # {}
  PROVE  \E m \in T : \A k \in T : m <= k
<1>1. PICK m \in T : \A k \in T : ~(<<k, m>> \in OpToRel(<, Nat))
  BY NatLessThanWellFounded, WFMin
<1>2. ASSUME NEW k \in T PROVE ~(k < m)
  BY <1>1 DEF OpToRel
<1> QED BY <1>2

RefTypes ==
  /\ above \in [Sessions -> SUBSET Sessions]
  /\ kind \in [Caps -> Kinds \cup {"none"}]
  /\ by \in [Caps -> 0 .. MaxSessions]
  /\ live \in [Caps -> BOOLEAN]

\* Sessions are begun in the order of their numbers, and only once.
BegunInOrder ==
  /\ \A g \in Sessions : sess[g] = "none" => above[g] = {}
  /\ \A g, h \in Sessions : h < g /\ sess[h] = "none" => sess[g] = "none"

AboveIsTree ==
  \A g \in Sessions :
    /\ parent[g] < g
    /\ sess[g] = "live" => above[g] = {g} \cup (IF parent[g] = 0 THEN {} ELSE above[parent[g]])

\* The calls in progress are below the one that was asked for.
EndingBelow == ending # << >> => \A i \in DOMAIN ending : ending[1] \in above[ending[i]]

MintedByBegun ==
  \A c \in Caps :
    /\ kind[c] = "none" => by[c] = 0
    /\ by[c] # 0 => sess[by[c]] # "none"

RefInv == RefTypes /\ BegunInOrder /\ AboveIsTree /\ EndingBelow /\ MintedByBegun

LEMMA SessionIsNumber == \A g \in Sessions : g \in Nat \ {0} /\ g \in 0 .. MaxSessions
  BY GuestAssumption DEF Sessions

LEMMA RefInit == Init => RefInv
<1> SUFFICES ASSUME Init PROVE RefInv
  OBVIOUS
<1>1. RefTypes
  BY GuestAssumption DEF Init, RefTypes
<1> QED
  BY <1>1, SessionIsNumber DEF Init, RefInv, BegunInOrder, AboveIsTree, EndingBelow, MintedByBegun

\* What begins is live, the others are as they were.
LEMMA BeginKeepsRef ==
  ASSUME TreeInv, RefInv, NEW g \in Sessions, NEW A \in SUBSET Sessions, Fresh(g),
         ending = << >>, ending' = << >>,
         sess' = [sess EXCEPT ![g] = "live"], above' = [above EXCEPT ![g] = {g} \cup A],
         \/ A = {} /\ parent' = parent
         \/ \E p \in Sessions : sess[p] = "live" /\ A = above[p] /\ parent' = [parent EXCEPT ![g] = p],
         UNCHANGED <<kind, by, live>>
  PROVE  RefInv'
<1>1. sess[g] = "none" /\ \A h \in Sessions : h < g => sess[h] # "none"
  BY DEF Fresh
<1>2. \A h \in Sessions : sess'[h] = IF h = g THEN "live" ELSE sess[h]
  BY DEF TreeInv, TreeTypes
<1>3. \A h \in Sessions : above'[h] = IF h = g THEN {g} \cup A ELSE above[h]
  BY DEF RefInv, RefTypes
<1>4. RefTypes'
  BY DEF RefInv, RefTypes
<1>5. BegunInOrder'
  BY <1>1, <1>2, <1>3, SessionIsNumber DEF RefInv, BegunInOrder
<1>6. parent[g] = 0
  BY <1>1, SessionIsNumber DEF TreeInv, TreeTypes, TreeAgrees, Sessions
<1>7. ASSUME NEW h \in Sessions
      PROVE  /\ parent'[h] < h
             /\ sess'[h] = "live" => above'[h] = {h} \cup (IF parent'[h] = 0 THEN {} ELSE above'[parent'[h]])
  <2>1. CASE h # g
    <3>1. parent'[h] = parent[h] /\ parent[h] < h
      BY <2>1 DEF TreeInv, TreeTypes, RefInv, AboveIsTree
    <3>2. parent[h] # 0 => parent[h] \in Sessions /\ parent[h] # g
      BY <1>1 DEF TreeInv, TreeTypes, TreeAgrees, Sessions
    <3> QED BY <2>1, <3>1, <3>2, <1>2, <1>3 DEF RefInv, AboveIsTree
  <2>2. CASE h = g /\ A = {} /\ parent' = parent
    BY <2>2, <1>3, <1>6, SessionIsNumber
  <2>3. ASSUME NEW p \in Sessions, h = g, sess[p] = "live", A = above[p],
               parent' = [parent EXCEPT ![g] = p]
        PROVE  /\ parent'[h] < h
               /\ above'[h] = {h} \cup (IF parent'[h] = 0 THEN {} ELSE above'[parent'[h]])
    <3>1. parent'[g] = p
      BY <2>3 DEF TreeInv, TreeTypes
    <3>2. p # g /\ p # 0 /\ ~(g < p)
      BY <1>1, <2>3, SessionIsNumber DEF RefInv, BegunInOrder
    <3> QED BY <2>3, <3>1, <3>2, <1>3, SessionIsNumber
  <2> QED BY <2>1, <2>2, <2>3
<1>8. MintedByBegun'
  <2>1. \A c \in Caps : by[c] # 0 => by[c] \in Sessions
    BY DEF RefInv, RefTypes, Sessions
  <2> QED BY <1>2, <2>1 DEF RefInv, MintedByBegun
<1> QED BY <1>4, <1>5, <1>7, <1>8 DEF RefInv, AboveIsTree, EndingBelow

LEMMA EndCallKeepsRef ==
  ASSUME TreeInv, RefInv, NEW g \in Sessions, EndCall(g)
  PROVE  RefInv'
<1>1. ending' = <<g>> /\ sess[g] = "live" /\ UNCHANGED <<sess, parent, above, kind, by, live>>
  BY DEF EndCall, tree, caps
<1>2. g \in above[g]
  BY <1>1 DEF RefInv, AboveIsTree
<1> QED BY <1>1, <1>2 DEF RefInv, RefTypes, BegunInOrder, AboveIsTree, EndingBelow, MintedByBegun

LEMMA EndChildKeepsRef ==
  ASSUME TreeInv, RefInv, EndChild
  PROVE  RefInv' /\ ending' # << >> /\ ending'[1] = ending[1]
<1> DEFINE e == Ending
           h == Head(children[Ending])
<1>1. /\ ending # << >> /\ children[e] # << >> /\ sess[h] = "live"
      /\ ending' = Append(ending, h)
      /\ UNCHANGED <<sess, parent, above, kind, by, live>>
  BY DEF EndChild, tree, caps
<1>2. /\ ending \in Seq(Sessions) /\ Len(ending) \in DOMAIN ending
      /\ e \in Sessions /\ e = ending[Len(ending)]
  BY <1>1 DEF TreeInv, TreeTypes, Ending
<1>3. children[e] \in Seq(Sessions) /\ h \in Sessions /\ 1 \in DOMAIN children[e] /\ children[e][1] = h
  BY <1>1, <1>2 DEF TreeInv, TreeTypes
<1>4. parent[h] = e
  BY <1>2, <1>3 DEF TreeInv, TreeAgrees
<1> HIDE DEF e, h
<1>5. above[h] = {h} \cup above[e]
  BY <1>1, <1>2, <1>3, <1>4, SessionIsNumber DEF RefInv, AboveIsTree
<1>6. ending[1] \in above[h]
  BY <1>1, <1>2, <1>5 DEF RefInv, EndingBelow
<1>7. /\ ending' # << >> /\ ending'[1] = ending[1]
      /\ \A i \in DOMAIN ending' : ending'[i] = h \/ (i \in DOMAIN ending /\ ending'[i] = ending[i])
  BY <1>1, <1>2, <1>3
<1>8. EndingBelow'
  BY <1>1, <1>6, <1>7 DEF RefInv, EndingBelow
<1> QED BY <1>1, <1>7, <1>8 DEF RefInv, RefTypes, BegunInOrder, AboveIsTree, MintedByBegun

\* A session with an empty table has no live session below it.
LEMMA NobodyLeft ==
  ASSUME TreeInv, RefInv, NEW e \in Sessions, children[e] = << >>,
         NEW g \in Sessions, sess[g] = "live", e \in above[g]
  PROVE  g = e
<1> SUFFICES ASSUME g # e PROVE FALSE
  OBVIOUS
<1> DEFINE Left == {h \in Sessions : sess[h] = "live" /\ h # e /\ e \in above[h]}
<1>1. g \in Left /\ Left \subseteq Nat
  BY SessionIsNumber
<1> PICK m \in Left : \A k \in Left : m <= k
  BY <1>1, LeastNumber
<1>2. m \in Sessions /\ sess[m] = "live" /\ m # e /\ e \in above[m]
  OBVIOUS
<1>3. parent[m] # 0
  BY <1>2 DEF RefInv, AboveIsTree
<1>4. parent[m] \in Sessions /\ parent[m] < m /\ e \in above[parent[m]]
  BY <1>2, <1>3 DEF RefInv, AboveIsTree, TreeInv, TreeTypes, Sessions
<1>5. sess[parent[m]] = "live" /\ Listed(children[parent[m]], m)
  BY <1>2, <1>4 DEF TreeInv, TreeAgrees, Listed
<1>6. parent[m] # e
  BY <1>5 DEF Listed
<1>7. parent[m] \in Left
  BY <1>4, <1>5, <1>6
<1> QED BY <1>1, <1>2, <1>4, <1>7

LEMMA EndSelfKeepsRef ==
  ASSUME TreeInv, RefInv, EndSelf
  PROVE  RefInv'
<1> DEFINE e == Ending
<1>1. /\ ending # << >> /\ children[e] = << >>
      /\ parent' = [parent EXCEPT ![e] = 0]
      /\ sess' = [sess EXCEPT ![e] = "dead"]
      /\ ending' = SubSeq(ending, 1, Len(ending) - 1)
      /\ live' = [c \in Caps |-> live[c] /\ by[c] # e]
      /\ UNCHANGED <<above, kind, by>>
  BY DEF EndSelf, Revoke
<1>2. /\ ending \in Seq(Sessions) /\ Len(ending) \in DOMAIN ending
      /\ e \in Sessions /\ e = ending[Len(ending)]
  BY <1>1 DEF TreeInv, TreeTypes, Ending
<1> HIDE DEF e
<1>3. sess[e] # "none"
  BY <1>1, <1>2 DEF RefInv, EndingBelow, BegunInOrder
<1>4. \A h \in Sessions : sess'[h] = IF h = e THEN "dead" ELSE sess[h]
  BY <1>1 DEF TreeInv, TreeTypes
<1>5. \A h \in Sessions : parent'[h] = IF h = e THEN 0 ELSE parent[h]
  BY <1>1 DEF TreeInv, TreeTypes
<1>6. RefTypes'
  <2>1. \A c \in Caps : (live[c] /\ by[c] # e) \in BOOLEAN
    OBVIOUS
  <2>2. live' \in [Caps -> BOOLEAN]
    BY <1>1, <2>1, Zenon
  <2> QED BY <1>1, <2>2 DEF RefInv, RefTypes
<1>7. BegunInOrder'
  BY <1>1, <1>3, <1>4 DEF RefInv, BegunInOrder
<1>8. AboveIsTree'
  BY <1>1, <1>4, <1>5, SessionIsNumber DEF RefInv, AboveIsTree
<1>9. EndingBelow'
  BY <1>1, <1>2 DEF RefInv, EndingBelow
<1>10. MintedByBegun'
  <2>1. \A c \in Caps : by[c] # 0 => by[c] \in Sessions
    BY DEF RefInv, RefTypes, Sessions
  <2> QED BY <1>1, <1>4, <2>1 DEF RefInv, MintedByBegun
<1> QED BY <1>6, <1>7, <1>8, <1>9, <1>10 DEF RefInv

LEMMA MintKeepsRef ==
  ASSUME RefInv, NEW c \in Caps, NEW k \in Kinds, NEW g \in 0 .. MaxSessions, NEW a,
         g # 0 => sess[g] = "live", NewCap(c, k, g, a)
  PROVE  RefInv'
<1>1. /\ kind' = [kind EXCEPT ![c] = k] /\ by' = [by EXCEPT ![c] = g]
      /\ live' = [live EXCEPT ![c] = TRUE]
      /\ UNCHANGED <<sess, parent, above, ending>>
  BY DEF NewCap, tree
<1>2. RefTypes'
  BY <1>1 DEF RefInv, RefTypes
<1>3. k # "none"
  BY DEF Kinds, Budgeted
<1>4. \A d \in Caps : /\ kind'[d] = IF d = c THEN k ELSE kind[d]
                      /\ by'[d] = IF d = c THEN g ELSE by[d]
  BY <1>1 DEF RefInv, RefTypes
<1>5. MintedByBegun'
  BY <1>1, <1>3, <1>4 DEF RefInv, MintedByBegun
<1> QED BY <1>1, <1>2, <1>5 DEF RefInv, BegunInOrder, AboveIsTree, EndingBelow

Alive == {g \in Sessions : InTree(g)}
Usable == {<<c, by[c]>> : c \in {d \in Caps : by[d] # 0 /\ live[d] /\ InTree(by[d])}}

\* Seen from outside, nothing happens when no session leaves the tree and
\* every capability keeps its maker and, unless the host made it or the
\* session is on its way out, its flag.
LEMMA Stutters ==
  ASSUME above' = above, by' = by,
         \A g \in Sessions : InTree(g)' = InTree(g),
         \A c \in Caps : by[c] # 0 => by[c] \in Sessions,
         \A c \in Caps : by[c] # 0 /\ InTree(by[c]) => live'[c] = live[c]
  PROVE  UNCHANGED Tree!vars
<1>1. Alive' = Alive
  BY DEF Alive
<1>2. \A c \in Caps : (by'[c] # 0 /\ live'[c] /\ InTree(by[c])') = (by[c] # 0 /\ live[c] /\ InTree(by[c]))
  OBVIOUS
<1>3. Usable' = Usable
  BY <1>2 DEF Usable
<1> QED BY <1>1, <1>3 DEF Tree!vars, Alive, Usable

LEMMA BeginRefines ==
  ASSUME TreeInv, RefInv, NEW g \in Sessions, NEW A \in SUBSET Sessions, Fresh(g),
         ending = << >>, ending' = << >>,
         sess' = [sess EXCEPT ![g] = "live"], above' = [above EXCEPT ![g] = A \cup {g}],
         UNCHANGED <<by, live>>
  PROVE  Tree!Begin(g, A)
<1>1. sess[g] = "none" /\ above[g] = {}
  BY DEF Fresh, RefInv, BegunInOrder
<1>2. \A h \in Sessions : InTree(h)' <=> h = g \/ InTree(h)
  BY DEF InTree, TreeInv, TreeTypes
<1>3. Alive' = Alive \cup {g}
  BY <1>2 DEF Alive
<1>4. \A c \in Caps : by[c] # 0 => by[c] \in Sessions /\ by[c] # g
  BY <1>1 DEF RefInv, RefTypes, MintedByBegun, Sessions
<1>5. \A c \in Caps : (by'[c] # 0 /\ live'[c] /\ InTree(by[c])') = (by[c] # 0 /\ live[c] /\ InTree(by[c]))
  BY <1>2, <1>4
<1>6. Usable' = Usable
  BY <1>5 DEF Usable
<1> QED BY <1>1, <1>3, <1>6 DEF Tree!Begin, Alive, Usable

LEMMA EndCallRefines ==
  ASSUME TreeInv, RefInv, NEW g \in Sessions, EndCall(g)
  PROVE  Tree!End(g)
<1>1. /\ ending = << >> /\ ending' = <<g>> /\ sess[g] = "live"
      /\ UNCHANGED <<sess, above, by, live>>
  BY DEF EndCall, tree, caps
<1>2. g \in Alive
  BY <1>1 DEF Alive, InTree
<1>3. \A h \in Sessions : InTree(h)' <=> InTree(h) /\ g \notin above[h]
  BY <1>1 DEF InTree
<1>4. Alive' = {h \in Alive : g \notin above[h]}
  BY <1>3 DEF Alive
<1>5. \A c \in Caps : by[c] # 0 => by[c] \in Sessions
  BY DEF RefInv, RefTypes, Sessions
<1>6. \A u : u \in Usable' <=> u \in Usable /\ g \notin above[u[2]]
  BY <1>1, <1>3, <1>5 DEF Usable
<1>7. Usable' = {u \in Usable : g \notin above[u[2]]}
  BY <1>6
<1> QED BY <1>1, <1>2, <1>4, <1>7 DEF Tree!End, Alive, Usable

LEMMA EndChildRefines ==
  ASSUME TreeInv, RefInv, EndChild
  PROVE  UNCHANGED Tree!vars
<1>1. ending # << >> /\ ending' # << >> /\ ending'[1] = ending[1]
  BY EndChildKeepsRef DEF EndChild
<1>2. UNCHANGED <<sess, above, by, live>>
  BY DEF EndChild, tree, caps
<1>3. \A g \in Sessions : InTree(g)' = InTree(g)
  BY <1>1, <1>2 DEF InTree
<1> QED BY <1>2, <1>3, Stutters DEF RefInv, RefTypes, Sessions

\* The session and what is above it left the tree when the end was asked for;
\* when that one is taken, nobody below it is left.
LEMMA EndSelfRefines ==
  ASSUME TreeInv, RefInv, EndSelf
  PROVE  UNCHANGED Tree!vars
<1> DEFINE e == Ending
<1>1. /\ ending # << >> /\ children[e] = << >>
      /\ sess' = [sess EXCEPT ![e] = "dead"]
      /\ ending' = SubSeq(ending, 1, Len(ending) - 1)
      /\ live' = [c \in Caps |-> live[c] /\ by[c] # e]
      /\ UNCHANGED <<above, by>>
  BY DEF EndSelf, Revoke
<1>2. /\ ending \in Seq(Sessions) /\ Len(ending) \in DOMAIN ending
      /\ e \in Sessions /\ e = ending[Len(ending)]
  BY <1>1 DEF TreeInv, TreeTypes, Ending
<1> HIDE DEF e
<1>3. ending[1] \in above[e]
  BY <1>1, <1>2 DEF RefInv, EndingBelow
<1>4. ~InTree(e)
  BY <1>1, <1>3 DEF InTree
<1>5. ASSUME NEW g \in Sessions PROVE InTree(g)' <=> InTree(g)
  <2>1. CASE g = e
    BY <1>1, <1>2, <1>4, <2>1 DEF InTree, TreeInv, TreeTypes
  <2>2. CASE g # e /\ Len(ending) = 1
    <3>1. ending' = << >> /\ ending[1] = e
      BY <1>1, <1>2, <2>2
    <3>2. sess[g] = "live" => e \notin above[g]
      BY <1>1, <1>2, <2>2, NobodyLeft
    <3> QED BY <1>1, <2>2, <3>1, <3>2 DEF InTree, TreeInv, TreeTypes
  <2>3. CASE g # e /\ Len(ending) # 1
    <3>1. Len(ending) \in Nat /\ Len(ending) - 1 >= 1
      <4>1. Len(ending) \in Nat /\ DOMAIN ending = 1 .. Len(ending)
        BY <1>2
      <4>2. Len(ending) \in 1 .. Len(ending)
        BY <1>2, <4>1
      <4> QED BY <2>3, <4>1, <4>2
    <3>2. Len(ending') = Len(ending) - 1 /\ ending'[1] = ending[1]
      BY <1>1, <1>2, <3>1
    <3>3. ending' # << >>
      BY <3>1, <3>2
    <3> QED BY <1>1, <2>3, <3>2, <3>3 DEF InTree, TreeInv, TreeTypes
  <2> QED BY <2>1, <2>2, <2>3
<1>6. \A g \in Sessions : InTree(g)' = InTree(g)
  BY <1>5 DEF InTree
<1>7. \A c \in Caps : by[c] # 0 => by[c] \in Sessions
  BY DEF RefInv, RefTypes, Sessions
<1>8. ASSUME NEW c \in Caps, InTree(by[c]) PROVE live'[c] = live[c]
  BY <1>1, <1>4, <1>8 DEF RefInv, RefTypes
<1> QED BY <1>1, <1>6, <1>7, <1>8, Stutters

LEMMA MintRefines ==
  ASSUME TreeInv, RefInv, NEW c \in Caps, NEW k \in Kinds, NEW g \in Sessions, NEW a,
         MayMint(g, k), NewCap(c, k, g, a)
  PROVE  Tree!Mint(c, g)
<1>1. /\ ending = << >> /\ sess[g] = "live" /\ kind[c] = "none"
      /\ by' = [by EXCEPT ![c] = g] /\ live' = [live EXCEPT ![c] = TRUE]
      /\ UNCHANGED <<sess, above, ending>>
  BY DEF MayMint, NewCap, FreshCap, tree
<1>2. by[c] = 0
  BY <1>1 DEF RefInv, MintedByBegun
<1>3. g \in Alive /\ Alive' = Alive /\ g # 0
  BY <1>1, SessionIsNumber DEF Alive, InTree
<1>4. \A h : InTree(h)' <=> InTree(h)
  BY <1>1 DEF InTree
<1>5. \A d \in Caps : /\ by'[d] = IF d = c THEN g ELSE by[d]
                      /\ live'[d] = IF d = c THEN TRUE ELSE live[d]
  BY <1>1 DEF RefInv, RefTypes
<1>6. \A u : u \in Usable' <=> u \in Usable \/ u = <<c, g>>
  BY <1>2, <1>3, <1>4, <1>5 DEF Usable, Alive
<1>7. Usable' = Usable \cup {<<c, g>>}
  BY <1>6
<1>8. \A u \in Usable : u[1] # c
  BY <1>2 DEF Usable
<1> QED BY <1>1, <1>3, <1>7, <1>8 DEF Tree!Mint, Alive, Usable

LEMMA MintHostRefines ==
  ASSUME TreeInv, RefInv, NEW c \in Caps, NEW k \in {"fs", "out"}, MintHost(c, k)
  PROVE  UNCHANGED Tree!vars
<1>1. /\ kind[c] = "none" /\ by' = [by EXCEPT ![c] = 0] /\ live' = [live EXCEPT ![c] = TRUE]
      /\ UNCHANGED <<sess, above, ending>>
  BY DEF MintHost, NewCap, FreshCap, tree
<1>2. by[c] = 0 /\ by' = by
  BY <1>1 DEF RefInv, RefTypes, MintedByBegun
<1>3. ASSUME NEW d \in Caps, by[d] # 0 PROVE live'[d] = live[d] /\ by[d] \in Sessions
  <2>1. d # c /\ by[d] \in Sessions
    BY <1>1, <1>2, <1>3 DEF RefInv, RefTypes, Sessions
  <2>2. live \in [Caps -> BOOLEAN]
    BY DEF RefInv, RefTypes
  <2>3. live'[d] = live[d]
    BY <1>1, <2>1, <2>2, Zenon
  <2> QED BY <2>1, <2>3
<1>4. \A h \in Sessions : InTree(h)' = InTree(h)
  BY <1>1 DEF InTree
<1> QED BY <1>1, <1>2, <1>3, <1>4, Stutters

LEMMA FreeHostRefines ==
  ASSUME TreeInv, RefInv, NEW c \in Caps, FreeHost(c)
  PROVE  UNCHANGED Tree!vars
<1>1. /\ by[c] = 0 /\ live' = [live EXCEPT ![c] = FALSE]
      /\ UNCHANGED <<sess, above, ending, by>>
  BY DEF FreeHost, tree
<1>2. ASSUME NEW d \in Caps, by[d] # 0 PROVE live'[d] = live[d] /\ by[d] \in Sessions
  <2>1. d # c /\ by[d] \in Sessions
    BY <1>1, <1>2 DEF RefInv, RefTypes, Sessions
  <2>2. live \in [Caps -> BOOLEAN]
    BY DEF RefInv, RefTypes
  <2>3. live'[d] = live[d]
    BY <1>1, <2>1, <2>2, Zenon
  <2> QED BY <2>1, <2>3
<1>3. \A h \in Sessions : InTree(h)' = InTree(h)
  BY <1>1 DEF InTree
<1> QED BY <1>1, <1>2, <1>3, Stutters

(***************************************************************************)
(* Every step keeps the invariant and is a step of the tree, or none.      *)
(***************************************************************************)
LEMMA RefNext ==
  TreeInv /\ RefInv /\ [Next]_vars => RefInv' /\ [Tree!Next]_Tree!vars
<1> SUFFICES ASSUME TreeInv, RefInv, [Next]_vars PROVE RefInv' /\ [Tree!Next]_Tree!vars
  OBVIOUS
<1> DEFINE Goal == RefInv' /\ [Tree!Next]_Tree!vars
           Untouched == UNCHANGED <<sess, parent, above, ending, kind, by, live>>
<1>1. ASSUME Untouched PROVE Goal
  <2>1. RefInv'
    BY <1>1 DEF RefInv, RefTypes, BegunInOrder, AboveIsTree, EndingBelow, MintedByBegun
  <2>2. \A h \in Sessions : InTree(h)' = InTree(h)
    BY <1>1 DEF InTree
  <2>3. UNCHANGED Tree!vars
    BY <1>1, <2>2, Stutters DEF RefInv, RefTypes, Sessions
  <2> QED BY <2>1, <2>3
<1>2. ASSUME NEW g \in Sessions, NEW r, NEW a, Begin(g, r, a) PROVE Goal
  <2>1. /\ ending = << >> /\ ending' = << >> /\ Fresh(g) /\ parent' = parent
        /\ sess' = [sess EXCEPT ![g] = "live"] /\ above' = [above EXCEPT ![g] = {g}]
        /\ UNCHANGED <<kind, by, live>>
    BY <1>2 DEF Begin, caps
  <2>2. {g} \cup {} = {g} /\ {} \cup {g} = {g} /\ {} \in SUBSET Sessions
    OBVIOUS
  <2>3. RefInv'
    BY <2>1, <2>2, BeginKeepsRef
  <2>4. Tree!Begin(g, {})
    BY <2>1, <2>2, BeginRefines
  <2> QED BY <2>3, <2>4 DEF Tree!Next
<1>3. ASSUME NEW p \in Sessions, NEW g \in Sessions, NEW r, NEW a, BeginNested(p, g, r, a)
      PROVE  Goal
  <2>1. /\ ending = << >> /\ ending' = << >> /\ Fresh(g) /\ sess[p] = "live"
        /\ parent' = [parent EXCEPT ![g] = p]
        /\ sess' = [sess EXCEPT ![g] = "live"] /\ above' = [above EXCEPT ![g] = above[p] \cup {g}]
        /\ UNCHANGED <<kind, by, live>>
    BY <1>3 DEF BeginNested, caps
  <2>2. above[p] \in SUBSET Sessions /\ above[p] \cup {g} = {g} \cup above[p]
    BY DEF RefInv, RefTypes
  <2>3. RefInv'
    BY <2>1, <2>2, BeginKeepsRef
  <2>4. Tree!Begin(g, above[p])
    BY <2>1, <2>2, BeginRefines
  <2>5. p \in Alive
    BY <2>1 DEF Alive, InTree
  <2>6. Tree!Nest(g, p)
    BY <2>4, <2>5 DEF Tree!Nest, Alive
  <2> QED BY <2>3, <2>6 DEF Tree!Next
<1>4. ASSUME NEW g \in Sessions, EndCall(g) PROVE Goal
  BY <1>4, EndCallKeepsRef, EndCallRefines DEF Tree!Next
<1>5. ASSUME EndChild PROVE Goal
  BY <1>5, EndChildKeepsRef, EndChildRefines
<1>6. ASSUME EndSelf PROVE Goal
  BY <1>6, EndSelfKeepsRef, EndSelfRefines
<1>7. ASSUME NEW c \in Caps, NEW k \in Kinds, NEW g \in Sessions, NEW a, MayMint(g, k), NewCap(c, k, g, a)
      PROVE  Goal
  <2>1. g \in 0 .. MaxSessions /\ sess[g] = "live"
    BY <1>7, SessionIsNumber DEF MayMint
  <2> QED BY <1>7, <2>1, MintKeepsRef, MintRefines DEF Tree!Next
<1>8. ASSUME NEW c \in Caps, NEW g \in Sessions, NEW k \in {"fs", "out"}, NEW r, MintRooted(c, g, k, r)
      PROVE  Goal
  BY <1>7, <1>8 DEF MintRooted, Kinds
<1>9. ASSUME NEW c \in Caps, NEW g \in Sessions, MintNet(c, g) PROVE Goal
  BY <1>7, <1>9 DEF MintNet, Kinds
<1>10. ASSUME NEW c \in Caps, NEW g \in Sessions, NEW n, MintAlloc(c, g, n) \/ MintFuel(c, g, n)
       PROVE  Goal
  BY <1>7, <1>10 DEF MintAlloc, MintFuel, Kinds, Budgeted
<1>11. ASSUME NEW c \in Caps, NEW k \in {"fs", "out"}, MintHost(c, k) PROVE Goal
  <2>1. k \in Kinds /\ 0 \in 0 .. MaxSessions /\ NewCap(c, k, 0, 0)
    BY <1>11, GuestAssumption DEF MintHost, Kinds
  <2> QED BY <1>11, <2>1, MintKeepsRef, MintHostRefines
<1>12. ASSUME NEW c \in Caps, FreeHost(c) PROVE Goal
  <2>1. live' = [live EXCEPT ![c] = FALSE] /\ UNCHANGED <<sess, parent, above, ending, kind, by>>
    BY <1>12 DEF FreeHost, tree
  <2>2. RefInv'
    BY <2>1 DEF RefInv, RefTypes, BegunInOrder, AboveIsTree, EndingBelow, MintedByBegun
  <2> QED BY <1>12, <2>2, FreeHostRefines
<1>13. ASSUME NEW c, ReadFile(c) PROVE Untouched
  BY <1>13 DEF ReadFile, tree, caps
<1>14. ASSUME NEW g, NEW c, NEW n, Alloc(g, n) \/ AllocVia(c, n) \/ Burn(c, n) PROVE Untouched
  BY <1>14 DEF Alloc, AllocVia, Burn, tree, caps
<1>15. CASE UNCHANGED vars
  BY <1>1, <1>15 DEF vars, tree, caps
<1> HIDE DEF Untouched
<1>16. Goal
  BY <1>1, <1>2, <1>3, <1>4, <1>5, <1>6, <1>8, <1>9, <1>10, <1>11, <1>12, <1>13, <1>14, <1>15 DEF Next
<1> QED BY <1>16

\* "Ending the parent ends children and revokes their caps": guest sessions
\* are the tree GuestTree describes, in which an end is one step.
THEOREM ImplementsTreeHolds == Spec => ImplementsTree
<1>1. Init => Tree!Init
  <2> SUFFICES ASSUME Init PROVE Tree!Init
    OBVIOUS
  <2>1. \A g \in Sessions : ~InTree(g)
    BY DEF Init, InTree
  <2>2. \A c \in Caps : by[c] = 0
    BY DEF Init
  <2> QED BY <2>1, <2>2 DEF Init, Tree!Init
<1> QED BY <1>1, TreeInvInit, TreeInvNext, RefInit, RefNext, PTL DEF Spec, ImplementsTree, Tree!Spec
=============================================================================
