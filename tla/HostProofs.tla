----------------------------- MODULE HostProofs -----------------------------
(***************************************************************************)
(* Theorems about HostIO, for every set of descriptors, paths and names.   *)
(***************************************************************************)
EXTENDS HostIO, WellFoundedInduction, TLAPS

(***************************************************************************)
(* At each step of a call it is known what the call itself holds: a        *)
(* descriptor from the open to the close, or until dial hands it over, and *)
(* a block of text from malloc to the end of the read.                     *)
(***************************************************************************)
Reading == {"seek_end", "tell", "seek_set", "malloc", "fread"}
HasFd == Reading \cup {"fwrite", "fclose", "connect", "dialed", "readdir", "give_up"}
HasNone == {"idle", "deny", "read", "write", "socket"}

Debt ==
  /\ pc \in HasFd \cup HasNone
  /\ text \in BOOLEAN /\ bufs \in Nat
  /\ bufs = (IF text THEN 1 ELSE 0) + (IF pc = "fread" THEN 1 ELSE 0)
  /\ pc \in Reading \cup {"read"} => ~text
  /\ pc \in HasNone => fd = 0 /\ open = socks
  /\ pc \in HasFd => fd \in Fds /\ fd \notin socks /\ open = socks \cup {fd}

LEMMA DebtInit == Init => Debt
<1> SUFFICES ASSUME Init PROVE Debt
  OBVIOUS
<1>1. pc = "idle" /\ text = FALSE /\ bufs = 0 /\ fd = 0 /\ open = {} /\ socks = {}
  BY DEF Init
<1>2. ~text /\ text \in BOOLEAN
  BY <1>1, Zenon
<1>3. pc = "idle" /\ bufs = 0 /\ fd = 0 /\ open = socks
  BY <1>1
<1> QED BY <1>2, <1>3 DEF Debt, HasFd, HasNone, Reading

LEMMA ReadKeeps ==
  ASSUME Debt,
         \/ ReadOpens \/ ReadSeeks \/ ReadMallocs \/ ReadFails \/ ReadDone
         \/ Deny \/ OpenFails
  PROVE  Debt'
<1> USE DEF Debt, HasFd, HasNone, Reading, session, system, buffer, Return, Opens, Closes, IsNextFd
<1>1. CASE ReadOpens   BY <1>1 DEF ReadOpens
<1>2. CASE ReadSeeks   BY <1>2 DEF ReadSeeks
<1>3. CASE ReadMallocs BY <1>3 DEF ReadMallocs
<1>4. CASE ReadFails   BY <1>4 DEF ReadFails
<1>5. CASE ReadDone    BY <1>5 DEF ReadDone
<1>6. CASE Deny        BY <1>6 DEF Deny
<1>7. CASE OpenFails   BY <1>7 DEF OpenFails
<1> QED BY <1>1, <1>2, <1>3, <1>4, <1>5, <1>6, <1>7

LEMMA WriteKeeps ==
  ASSUME Debt, WriteOpens \/ WritesData \/ WriteCloses
  PROVE  Debt'
<1> USE DEF Debt, HasFd, HasNone, Reading, session, system, buffer, Return, Opens, Closes, IsNextFd
<1>1. CASE WriteOpens  BY <1>1 DEF WriteOpens
<1>2. CASE WritesData  BY <1>2 DEF WritesData
<1>3. CASE WriteCloses
  <2>1. pc = "fclose" /\ pc' = "idle" /\ fd' = 0 /\ open' = open \ {fd}
        /\ UNCHANGED <<text, bufs, socks>>
    BY <1>3 DEF WriteCloses
  <2> QED BY <2>1
<1> QED BY <1>1, <1>2, <1>3

LEMMA CallKeeps ==
  ASSUME Debt, NEW r, NEW p, NEW n, ReadCall(r, p) \/ WriteCall(r, p) \/ DialCall(n)
  PROVE  Debt'
<1> USE DEF Debt, HasFd, HasNone, Reading, session, system, Begin, FileCall, clear_last_text
<1>1. CASE ReadCall(r, p)
  <2>1. /\ pc = "idle" /\ pc' \in {"read", "deny"} /\ bufs' = (IF text THEN bufs - 1 ELSE bufs)
        /\ UNCHANGED <<open, socks, fd>>
    BY <1>1 DEF ReadCall
  <2>2. ~text' /\ text' \in BOOLEAN
    BY <1>1, Zenon DEF ReadCall
  <2>3. bufs' = 0
    BY <2>1
  <2> QED BY <2>1, <2>2, <2>3
<1>2. CASE WriteCall(r, p) BY <1>2 DEF WriteCall
<1>3. CASE DialCall(n)     BY <1>3 DEF DialCall
<1> QED BY <1>1, <1>2, <1>3

LEMMA DialKeeps ==
  ASSUME Debt, DialSocket \/ Connected \/ ConnectFails \/ DialReturns
  PROVE  Debt'
<1> USE DEF Debt, HasFd, HasNone, Reading, session, system, buffer, Return, Opens, Closes, IsNextFd
<1>1. CASE DialSocket   BY <1>1 DEF DialSocket
<1>2. CASE Connected    BY <1>2 DEF Connected
<1>3. CASE ConnectFails BY <1>3 DEF ConnectFails
<1>4. CASE DialReturns  BY <1>4, HostIOAssumption DEF DialReturns
<1> QED BY <1>1, <1>2, <1>3, <1>4

LEMMA ListKeeps ==
  ASSUME Debt,
         \/ ListFails \/ ListCall \/ ListGivesUp \/ ListEnds
         \/ \E k \in NameLens : ListName(k)
  PROVE  Debt'
<1> USE DEF Debt, HasFd, HasNone, Reading, session, system, buffer, Return, Begin, Closes, IsNextFd
<1>1. CASE ListFails   BY <1>1 DEF ListFails
<1>2. CASE ListCall    BY <1>2 DEF ListCall
<1>3. CASE ListGivesUp BY <1>3 DEF ListGivesUp
<1>4. CASE ListEnds    BY <1>4 DEF ListEnds
<1>5. ASSUME NEW k \in NameLens, ListName(k) PROVE Debt'
  BY <1>5 DEF ListName
<1> QED BY <1>1, <1>2, <1>3, <1>4, <1>5

LEMMA DebtNext == Debt /\ [Next]_vars => Debt'
<1> SUFFICES ASSUME Debt, [Next]_vars PROVE Debt'
  OBVIOUS
<1>1. CASE GuestEnd
  <2>1. /\ pc = "idle" /\ bufs' = (IF text THEN bufs - 1 ELSE bufs)
        /\ UNCHANGED <<open, socks, pc, fd>>
    BY <1>1 DEF GuestEnd, clear_last_text, system
  <2>2. ~text' /\ text' \in BOOLEAN
    BY <1>1, Zenon DEF GuestEnd, clear_last_text
  <2>3. bufs' = 0
    BY <2>1 DEF Debt
  <2> QED BY <2>1, <2>2, <2>3 DEF Debt, HasFd, HasNone, Reading
<1>2. ASSUME NEW s \in socks, CloseSock(s) PROVE Debt'
  BY <1>2 DEF CloseSock, session, Debt, HasFd, HasNone, Reading
<1>3. CASE UNCHANGED vars
  BY <1>3 DEF vars, session, system, Debt
<1> QED
  BY <1>1, <1>2, <1>3, ReadKeeps, WriteKeeps, CallKeeps, DialKeeps, ListKeeps DEF Next

\* Whichever step of whichever call fails, the call gives back every
\* descriptor and block that it does not hand to the program.
THEOREM CallsGiveBackHolds == Spec => []CallsGiveBack
<1>1. Debt => CallsGiveBack
  BY DEF Debt, CallsGiveBack, HasNone, HasFd, Reading
<1> QED BY <1>1, DebtInit, DebtNext, PTL DEF Spec

(***************************************************************************)
(* The answer of write_file.  Only a write between its open and its close  *)
(* has touched the file and not answered yet.                              *)
(***************************************************************************)
WriteInv ==
  /\ WriteAnswersTrue
  /\ pc \notin {"idle", "fwrite", "fclose"} => disk = "old"
  /\ pc # "idle" => result = "none"

LEMMA WriteInvInit == Init => WriteInv
  BY DEF Init, WriteInv, WriteAnswersTrue

LEMMA WriteInvNext == WriteInv /\ [Next]_vars => WriteInv'
<1> SUFFICES ASSUME WriteInv, [Next]_vars PROVE WriteInv'
  OBVIOUS
<1> USE DEF WriteInv, WriteAnswersTrue
<1>1. CASE WriteCloses
  <2>1. PICK flushed \in BOOLEAN :
          /\ disk' = IF flushed /\ left = 0 THEN "whole" ELSE "part"
          /\ pc' = "idle" /\ result' = CloseVerdict(flushed)
    BY <1>1 DEF WriteCloses, Return
  <2> QED BY <2>1 DEF CloseVerdict
<1>2. CASE ReadDone \/ Deny \/ OpenFails \/ ReadFails
  BY <1>2 DEF ReadDone, Deny, OpenFails, ReadFails, Return
<1>3. CASE ReadOpens \/ ReadSeeks \/ ReadMallocs
  BY <1>3 DEF ReadOpens, ReadSeeks, ReadMallocs, Opens
<1>4. CASE WriteOpens \/ WritesData
  BY <1>4 DEF WriteOpens, WritesData, Opens
<1>5. ASSUME NEW r, NEW p, ReadCall(r, p) \/ WriteCall(r, p) PROVE WriteInv'
  BY <1>5 DEF ReadCall, WriteCall, FileCall, Begin
<1>6. ASSUME NEW n, DialCall(n) PROVE WriteInv'
  BY <1>6 DEF DialCall, Begin
<1>7. CASE DialSocket \/ Connected \/ ConnectFails
  BY <1>7 DEF DialSocket, Connected, ConnectFails, Opens
<1>8. CASE DialReturns
  BY <1>8 DEF DialReturns, Return
<1>9. CASE ListFails \/ ListCall
  BY <1>9 DEF ListFails, ListCall, Begin
<1>10. ASSUME NEW k, ListName(k) PROVE WriteInv'
  BY <1>10 DEF ListName
<1>11. CASE ListGivesUp \/ ListEnds
  BY <1>11 DEF ListGivesUp, ListEnds, Return
<1>12. CASE GuestEnd \/ (\E s \in socks : CloseSock(s)) \/ UNCHANGED vars
  BY <1>12 DEF GuestEnd, CloseSock, vars
<1> HIDE DEF WriteInv, WriteAnswersTrue
<1> QED
  BY <1>1, <1>2, <1>3, <1>4, <1>5, <1>6, <1>7, <1>8, <1>9, <1>10, <1>11, <1>12 DEF Next

\* write_file answers "ok" only for a file that holds all of the data.
THEOREM WriteAnswersTrueHolds == Spec => []WriteAnswersTrue
<1>1. WriteInv => WriteAnswersTrue
  BY DEF WriteInv
<1> QED BY <1>1, WriteInvInit, WriteInvNext, PTL DEF Spec

(***************************************************************************)
(* The listing.  The program knows the size of its block, and what it has  *)
(* written is short of it; the names and what readdir gave are in step     *)
(* except between a failed realloc and the answer.                         *)
(***************************************************************************)
Named == [at : Nat, n : Nat]

Placed(ns, end) ==
  /\ \A i \in DOMAIN ns : ns[i].at = IF i = 1 THEN 0 ELSE ns[i - 1].at + ns[i - 1].n + 1
  /\ \A i \in DOMAIN ns : ns[i].at + ns[i].n + 1 <= end
  /\ end = IF ns = << >> THEN 0 ELSE ns[Len(ns)].at + ns[Len(ns)].n + 1

SameNames(ns, ks) == Len(ns) = Len(ks) /\ \A i \in DOMAIN ks : ns[i].n = ks[i]

ListingInv ==
  /\ lcap \in Int /\ lsize = lcap
  /\ len \in Nat /\ names \in Seq(Named) /\ given \in Seq(Nat)
  /\ Placed(names, len)
  /\ names # << >> \/ pc \in {"readdir", "give_up"} => len < lsize
  /\ pc # "give_up" => names = << >> \/ SameNames(names, given)
  /\ pc = "readdir" => SameNames(names, given)
  /\ pc \in {"readdir", "give_up"} => result = "none"

LEMMA CapacityInt == \A c \in Capacities : c \in Int
<1> SUFFICES ASSUME NEW k \in 0 .. MaxDoublings PROVE FirstCap * 2^k \in Int
  BY DEF Capacities
<1>1. 2^k \in Int
  OBVIOUS
<1> QED BY <1>1, HostIOAssumption

\* What ensure_cap leaves behind, when it succeeds and when it does not.
LEMMA EnsureCap ==
  ASSUME NEW need \in Nat, NEW grew \in BOOLEAN, ensure_cap(need, grew),
         lcap \in Int, lsize = lcap
  PROVE  /\ lcap' \in Int /\ lsize' = lcap' /\ lcap <= lcap'
         /\ need <= lcap \/ grew => need <= lcap'
<1>1. CASE need > lcap /\ grew
  <2>1. PICK c \in Capacities : Enough(c, need) /\ lcap' = c /\ lsize' = c
    BY <1>1 DEF ensure_cap
  <2> QED BY <1>1, <2>1, CapacityInt DEF Enough
<1>2. CASE ~(need > lcap /\ grew)
  BY <1>2 DEF ensure_cap
<1> QED BY <1>1, <1>2

\* A name is put where the last one ended.
LEMMA PlacedAppend ==
  ASSUME NEW ns \in Seq(Named), NEW end \in Nat, NEW k \in Nat, Placed(ns, end)
  PROVE  /\ Append(ns, [at |-> end, n |-> k]) \in Seq(Named)
         /\ Placed(Append(ns, [at |-> end, n |-> k]), end + k + 1)
<1> DEFINE m == [at |-> end, n |-> k]
           new == Append(ns, m)
<1>1. m \in Named /\ m.at = end /\ m.n = k
  BY DEF Named
<1>2. /\ new \in Seq(Named) /\ Len(new) = Len(ns) + 1 /\ DOMAIN new = 1 .. Len(ns) + 1
      /\ new[Len(ns) + 1] = m /\ new # << >>
      /\ DOMAIN ns = 1 .. Len(ns) /\ \A i \in 1 .. Len(ns) : new[i] = ns[i] /\ ns[i] \in Named
  BY <1>1
<1>3. \A i \in 1 .. Len(ns) : ns[i].at \in Nat /\ ns[i].n \in Nat
  BY <1>2 DEF Named
<1> HIDE DEF m, new
<1>4. ASSUME NEW i \in 1 .. Len(ns) + 1
      PROVE  /\ new[i].at = IF i = 1 THEN 0 ELSE new[i - 1].at + new[i - 1].n + 1
             /\ new[i].at + new[i].n + 1 <= end + k + 1
  <2>1. CASE i <= Len(ns)
    <3>1. i \in DOMAIN ns /\ (i # 1 => i - 1 \in 1 .. Len(ns))
      BY <2>1, <1>2
    <3>2. /\ ns[i].at = IF i = 1 THEN 0 ELSE ns[i - 1].at + ns[i - 1].n + 1
          /\ ns[i].at + ns[i].n + 1 <= end
      BY <3>1 DEF Placed
    <3>3. new[i] = ns[i] /\ (i # 1 => new[i - 1] = ns[i - 1])
      BY <3>1, <1>2
    <3>4. ns[i].at \in Nat /\ ns[i].n \in Nat
      BY <3>1, <1>2, <1>3
    <3> HIDE <2>1, <1>2, <1>3
    <3> QED BY <3>2, <3>3, <3>4
  <2>2. CASE i = Len(ns) + 1 /\ ns = << >>
    BY <2>2, <1>1, <1>2 DEF Placed
  <2>3. CASE i = Len(ns) + 1 /\ ns # << >>
    <3>1. Len(ns) \in 1 .. Len(ns) /\ i # 1
      BY <2>3
    <3> QED BY <3>1, <2>3, <1>1, <1>2, <1>3 DEF Placed
  <2> QED BY <2>1, <2>2, <2>3
<1>5. Placed(new, end + k + 1)
  BY <1>1, <1>2, <1>4 DEF Placed
<1> QED BY <1>2, <1>5 DEF m, new

LEMMA SameNamesAppend ==
  ASSUME NEW ns \in Seq(Named), NEW ks \in Seq(Nat), NEW m \in Named, SameNames(ns, ks)
  PROVE  SameNames(Append(ns, m), Append(ks, m.n))
<1>1. m.n \in Nat
  BY DEF Named
<1> QED BY <1>1 DEF SameNames

LEMMA ListingInit == Init => ListingInv
  BY DEF Init, ListingInv, Placed

LEMMA ListNameKeeps ==
  ASSUME ListingInv, NEW k \in NameLens, ListName(k)
  PROVE  ListingInv'
<1>1. PICK grew \in BOOLEAN :
        /\ ensure_cap(Need(k), grew)
        /\ IF Need(k) <= lcap \/ grew
             THEN /\ names' = Append(names, [at |-> len, n |-> k])
                  /\ len' = len + k + 1
                  /\ UNCHANGED pc
             ELSE pc' = "give_up" /\ UNCHANGED <<len, names>>
  BY DEF ListName
<1>2. k \in Nat /\ Need(k) \in Nat /\ Need(k) = len + k + 2
  BY HostIOAssumption DEF ListingInv, Need
<1>3. /\ lcap' \in Int /\ lsize' = lcap' /\ lcap <= lcap'
      /\ Need(k) <= lcap \/ grew => Need(k) <= lcap'
  BY <1>1, <1>2, EnsureCap DEF ListingInv
<1>4. pc = "readdir" /\ given' = Append(given, k) /\ given' \in Seq(Nat) /\ result' = "none"
  BY <1>2 DEF ListName, ListingInv
<1>5. CASE Need(k) <= lcap \/ grew
  <2>1. names' = Append(names, [at |-> len, n |-> k]) /\ len' = len + k + 1 /\ pc' = pc
    BY <1>1, <1>5
  <2>2. names' \in Seq(Named) /\ Placed(names', len')
    BY <2>1, <1>2, PlacedAppend DEF ListingInv
  <2>3. [at |-> len, n |-> k] \in Named /\ [at |-> len, n |-> k].n = k
    BY <1>2 DEF Named, ListingInv
  <2>4. SameNames(names', given')
    BY <2>1, <2>3, <1>4, SameNamesAppend DEF ListingInv
  <2>5. len' \in Nat /\ len' < lsize'
    BY <2>1, <1>2, <1>3, <1>5 DEF ListingInv
  <2> QED BY <2>1, <2>2, <2>4, <2>5, <1>3, <1>4 DEF ListingInv
<1>6. CASE ~(Need(k) <= lcap \/ grew)
  <2>1. pc' = "give_up" /\ len' = len /\ names' = names
    BY <1>1, <1>6
  <2> QED BY <2>1, <1>3, <1>4 DEF ListingInv
<1> QED BY <1>5, <1>6

\* A call that begins finds or leaves a block of the size the program knows.
LEMMA EmptyKeeps ==
  ASSUME lcap' \in Int, lsize' = lcap', len' = 0, names' = << >>, given' = << >>,
         pc' \in {"readdir", "give_up"} => 0 < lcap' /\ result' = "none"
  PROVE  ListingInv'
BY DEF ListingInv, Placed, SameNames

LEMMA ListingNext == ListingInv /\ [Next]_vars => ListingInv'
<1> SUFFICES ASSUME ListingInv, [Next]_vars PROVE ListingInv'
  OBVIOUS
<1>1. CASE ListCall
  <2>1. ensure_cap(1, TRUE) /\ 1 \in Nat /\ TRUE \in BOOLEAN /\ lcap \in Int /\ lsize = lcap
    BY <1>1 DEF ListCall, ListingInv
  <2>2. lcap' \in Int /\ lsize' = lcap' /\ 1 <= lcap'
    BY <2>1, EnsureCap
  <2> QED BY <1>1, <2>2, EmptyKeeps DEF ListCall, Begin
<1>2. CASE ListFails
  <2>1. PICK grew \in BOOLEAN : ensure_cap(1, grew)
    BY <1>2 DEF ListFails
  <2>2. lcap' \in Int /\ lsize' = lcap'
    BY <2>1, EnsureCap DEF ListingInv
  <2> QED BY <1>2, <2>2, EmptyKeeps DEF ListFails
<1>3. ASSUME NEW k \in NameLens, ListName(k) PROVE ListingInv'
  BY <1>3, ListNameKeeps
<1>4. CASE ListGivesUp
  BY <1>4 DEF ListGivesUp, Return, ListingInv, Placed
<1>5. CASE ListEnds
  BY <1>5 DEF ListEnds, Return, buffer, ListingInv
<1>6. ASSUME NEW r, NEW p, ReadCall(r, p) \/ WriteCall(r, p) PROVE ListingInv'
  BY <1>6, EmptyKeeps DEF ReadCall, WriteCall, FileCall, Begin, ListingInv
<1>7. ASSUME NEW n, DialCall(n) PROVE ListingInv'
  BY <1>7, EmptyKeeps DEF DialCall, Begin, ListingInv
<1>8. CASE ReadDone \/ Deny \/ OpenFails \/ ReadFails \/ WriteCloses \/ DialReturns
  BY <1>8 DEF ReadDone, Deny, OpenFails, ReadFails, WriteCloses, DialReturns, Return, buffer, ListingInv
<1>9. CASE ReadOpens \/ ReadSeeks \/ ReadMallocs \/ WriteOpens \/ WritesData
  BY <1>9 DEF ReadOpens, ReadSeeks, ReadMallocs, WriteOpens, WritesData, Opens, buffer, ListingInv
<1>10. CASE DialSocket \/ Connected \/ ConnectFails
  BY <1>10 DEF DialSocket, Connected, ConnectFails, Opens, buffer, ListingInv
<1>11. CASE GuestEnd \/ (\E s \in socks : CloseSock(s)) \/ UNCHANGED vars
  BY <1>11 DEF GuestEnd, CloseSock, vars, buffer, ListingInv
<1> QED BY <1>1, <1>2, <1>3, <1>4, <1>5, <1>6, <1>7, <1>8, <1>9, <1>10, <1>11 DEF Next

\* A listing is complete or empty, and the names and the terminator stay
\* inside the block, also when a realloc in an earlier listing failed.
THEOREM ListingWholeHolds == Spec => []ListingWhole
<1>1. ListingInv => ListingWhole
  <2> SUFFICES ASSUME ListingInv PROVE ListingWhole
    OBVIOUS
  <2>1. pc \in {"readdir", "give_up"} => len < lsize
    BY DEF ListingInv
  <2>2. ASSUME NEW i \in DOMAIN names
        PROVE  /\ names[i].at + names[i].n + 1 < lsize
               /\ names[i].at = IF i = 1 THEN 0 ELSE names[i - 1].at + names[i - 1].n + 1
    <3>1. names # << >> /\ names[i] \in Named
      BY <2>2 DEF ListingInv
    <3>2. names[i].at \in Nat /\ names[i].n \in Nat /\ len \in Nat /\ lsize \in Int /\ len < lsize
      BY <3>1 DEF ListingInv, Named
    <3>3. /\ names[i].at = IF i = 1 THEN 0 ELSE names[i - 1].at + names[i - 1].n + 1
          /\ names[i].at + names[i].n + 1 <= len
      BY DEF ListingInv, Placed
    <3> HIDE DEF ListingInv
    <3> QED BY <3>2, <3>3
  <2>3. result = "listed" /\ names # << >> => SameNames(names, given)
    BY DEF ListingInv
  <2> QED BY <2>1, <2>2, <2>3 DEF ListingWhole, SameNames
<1> QED BY <1>1, ListingInit, ListingNext, PTL DEF Spec

(***************************************************************************)
(* The path check.  Where the path goes on after the root, it starts a new *)
(* component, so the components of the root are components of the path and *)
(* no component of the path crosses the end of the root.                   *)
(***************************************************************************)
LEMMA PrefixFacts ==
  ASSUME NEW r \in Seq(STRING), NEW p \in Seq(STRING), IsPrefix(r, p)
  PROVE  Len(r) \in Nat /\ Len(p) \in Nat /\ Len(r) <= Len(p) /\ \A i \in 1 .. Len(r) : p[i] = r[i]
<1>1. Len(r) <= Len(p) /\ SubSeq(r, 1, Len(r)) = SubSeq(p, 1, Len(r))
  BY DEF IsPrefix
<1>2. ASSUME NEW i \in 1 .. Len(r) PROVE p[i] = r[i]
  <2>1. SubSeq(r, 1, Len(r))[i] = r[i]
    OBVIOUS
  <2>2. SubSeq(p, 1, Len(r))[i] = p[i]
    BY <1>1
  <2> QED BY <1>1, <2>1, <2>2
<1> QED BY <1>1, <1>2

LEMMA SameText ==
  ASSUME NEW r \in Seq(STRING), NEW p \in Seq(STRING), NEW i \in 1 .. Len(r), NEW j \in 1 .. Len(r),
         Len(r) <= Len(p), \A k \in 1 .. Len(r) : p[k] = r[k]
  PROVE  SubSeq(p, i, j) = SubSeq(r, i, j)
OBVIOUS

LEMMA AllowedUnderRoot ==
  ASSUME NEW r \in Seq(STRING), NEW p \in Seq(STRING), r # << >>, path_allowed(r, p)
  PROVE  UnderRoot(r, p)
<1>1. /\ Len(r) \in Nat /\ Len(p) \in Nat /\ Len(r) < Len(p) /\ 1 <= Len(r)
      /\ \A i \in 1 .. Len(r) : p[i] = r[i]
  BY PrefixFacts DEF path_allowed
<1>2. p[Len(r) + 1] \in Separators \/ p[Len(r)] \in Separators
  BY <1>1 DEF path_allowed, ends_root
<1>3. ASSUME NEW i \in 1 .. Len(r), NEW j \in 1 .. Len(r), IsName(r, i, j)
      PROVE  IsName(p, i, j) /\ SubSeq(p, i, j) = SubSeq(r, i, j)
  <2>1. SubSeq(p, i, j) = SubSeq(r, i, j)
    BY <1>1, SameText
  <2>2. i <= j /\ \A k \in i .. j : p[k] \notin Separators
    BY <1>1, <1>3 DEF IsName
  <2>3. i = 1 \/ p[i - 1] \in Separators
    BY <1>1, <1>3 DEF IsName
  <2>4. j = Len(p) \/ p[j + 1] \in Separators
    <3>1. CASE j = Len(r)
      BY <3>1, <2>2, <1>1, <1>2
    <3>2. CASE j # Len(r)
      BY <3>2, <1>1, <1>3 DEF IsName
    <3> QED BY <3>1, <3>2
  <2> QED BY <2>1, <2>2, <2>3, <2>4, <1>3 DEF IsName
<1>4. ASSUME NEW i \in 1 .. Len(r), NEW j \in 1 .. Len(p), IsName(p, i, j)
      PROVE  j <= Len(r) /\ IsName(r, i, j)
  <2>1. i <= j /\ \A k \in i .. j : p[k] \notin Separators
    BY <1>4 DEF IsName
  <2>2. j <= Len(r)
    <3> SUFFICES ASSUME j > Len(r) PROVE FALSE
      BY <1>1
    <3>1. Len(r) \in i .. j /\ Len(r) + 1 \in i .. j
      BY <1>1
    <3> QED BY <3>1, <2>1, <1>2
  <2>3. SubSeq(p, i, j) = SubSeq(r, i, j)
    BY <1>1, <2>2, SameText
  <2>4. i = 1 \/ r[i - 1] \in Separators
    BY <1>1, <1>4 DEF IsName
  <2>5. j = Len(r) \/ r[j + 1] \in Separators
    BY <1>1, <2>2, <1>4 DEF IsName
  <2>6. \A k \in i .. j : r[k] \notin Separators
    BY <1>1, <2>1, <2>2
  <2> QED BY <2>1, <2>2, <2>3, <2>4, <2>5, <2>6, <1>4 DEF IsName
<1>5. ASSUME NEW i \in 1 .. Len(p), NEW j \in 1 .. Len(p), SubSeq(p, i, j) = <<".", ".">>
      PROVE  FALSE
  <2>1. SubSeq(p, i, j) \in Seq(STRING) /\ Len(SubSeq(p, i, j)) = (IF i <= j THEN j - i + 1 ELSE 0)
    BY <1>1
  <2>2. j = i + 1
    BY <2>1, <1>5
  <2>3. SubSeq(p, i, j)[1] = p[i] /\ SubSeq(p, i, j)[2] = p[i + 1]
    BY <2>2, <1>1
  <2>4. i \in 1 .. Len(p) - 1 /\ p[i] = "." /\ p[i + 1] = "."
    <3>1. <<".", ".">>[1] = "." /\ <<".", ".">>[2] = "."
      OBVIOUS
    <3>2. p[i] = "." /\ p[i + 1] = "."
      BY <2>3, <3>1, <1>5
    <3>3. i \in 1 .. Len(p) - 1
      BY <2>2, <1>1
    <3> QED BY <3>2, <3>3
  <2> QED BY <2>4 DEF path_allowed, has_dotdot
<1> QED BY <1>3, <1>4, <1>5 DEF UnderRoot

LEMMA LeastIndex ==
  ASSUME NEW T, T \subseteq Nat, T # {}
  PROVE  \E m \in T : \A k \in T : m <= k
<1>1. PICK m \in T : \A k \in T : ~(<<k, m>> \in OpToRel(<, Nat))
  BY NatLessThanWellFounded, WFMin
<1>2. ASSUME NEW k \in T PROVE ~(k < m)
  BY <1>1 DEF OpToRel
<1> QED BY <1>2

\* Where the component begins that a place of a path lies in, and where it ends.
LEMMA ComponentStart ==
  ASSUME NEW r \in Seq(STRING), NEW n \in 1 .. Len(r), r[n] \notin Separators
  PROVE  \E i \in 1 .. n : /\ i = 1 \/ r[i - 1] \in Separators
                          /\ \A k \in i .. n : r[k] \notin Separators
<1> DEFINE T == {i \in 1 .. n : \A k \in i .. n : r[k] \notin Separators}
<1>1. T \subseteq Nat /\ n \in T
  OBVIOUS
<1>2. PICK m \in T : \A k \in T : m <= k
  <2> HIDE DEF T
  <2> QED BY <1>1, LeastIndex
<1>3. m \in 1 .. n /\ \A k \in m .. n : r[k] \notin Separators
  OBVIOUS
<1>4. ASSUME m # 1, r[m - 1] \notin Separators PROVE FALSE
  <2>1. m - 1 \in 1 .. n /\ \A k \in m - 1 .. n : r[k] \notin Separators
    BY <1>3, <1>4
  <2>2. m - 1 \in T
    BY <2>1
  <2> HIDE DEF T
  <2>3. m <= m - 1
    BY <1>2, <2>2
  <2> QED BY <1>3, <2>3
<1> QED BY <1>3, <1>4

LEMMA ComponentEnd ==
  ASSUME NEW p \in Seq(STRING), NEW n \in 1 .. Len(p), NEW i \in 1 .. n,
         \A k \in i .. n : p[k] \notin Separators
  PROVE  \E j \in n .. Len(p) : /\ j = Len(p) \/ p[j + 1] \in Separators
                               /\ \A k \in i .. j : p[k] \notin Separators
<1> DEFINE T == {j \in n .. Len(p) : j = Len(p) \/ p[j + 1] \in Separators}
<1>1. T \subseteq Nat /\ Len(p) \in T
  OBVIOUS
<1>2. PICK m \in T : \A k \in T : m <= k
  <2> HIDE DEF T
  <2> QED BY <1>1, LeastIndex
<1>3. m \in n .. Len(p) /\ (m = Len(p) \/ p[m + 1] \in Separators)
  OBVIOUS
<1>4. ASSUME NEW k \in i .. m, k > n, p[k] \in Separators PROVE FALSE
  <2>1. k - 1 \in n .. Len(p) /\ p[(k - 1) + 1] \in Separators /\ k - 1 < m
    BY <1>3, <1>4
  <2>2. k - 1 \in T
    BY <2>1
  <2> HIDE DEF T
  <2>3. m <= k - 1
    BY <1>2, <2>2
  <2> QED BY <1>3, <1>4, <2>3
<1> QED BY <1>3, <1>4

\* Did the root and the path go on in the middle of a name, the component of
\* the path there would reach past the root, and path were not below it.
LEMMA BelowAllowed ==
  ASSUME NEW r \in Seq(STRING), NEW p \in Seq(STRING), r # << >>,
         Relative(p), Below(r, p), \A i \in 2 .. Len(p) : p[i - 1] = "." => p[i] # "."
  PROVE  path_allowed(r, p)
<1> DEFINE n == Len(r)
<1>1. /\ n \in Nat /\ Len(p) \in Nat /\ n < Len(p) /\ 1 <= n
      /\ \A k \in 1 .. n : p[k] = r[k]
  BY PrefixFacts DEF Below
<1>2. ends_root(r, p)
  <2> SUFFICES ASSUME p[n + 1] \notin Separators, r[n] \notin Separators
               PROVE  FALSE
    BY DEF ends_root
  <2>1. PICK i \in 1 .. n : /\ i = 1 \/ r[i - 1] \in Separators
                           /\ \A k \in i .. n : r[k] \notin Separators
    <3>1. n \in 1 .. Len(r)
      BY <1>1
    <3> HIDE DEF n
    <3> QED BY <3>1, ComponentStart
  <2>2. \A k \in i .. n + 1 : p[k] \notin Separators
    BY <1>1, <2>1
  <2>3. PICK j \in n + 1 .. Len(p) : /\ j = Len(p) \/ p[j + 1] \in Separators
                                    /\ \A k \in i .. j : p[k] \notin Separators
    <3>1. n + 1 \in 1 .. Len(p) /\ i \in 1 .. n + 1
      BY <1>1
    <3> HIDE DEF n
    <3> QED BY <3>1, <2>2, ComponentEnd
  <2>4. i = 1 \/ p[i - 1] \in Separators
    BY <1>1, <2>1
  <2>5. Len(SubSeq(p, i, j)) = j - i + 1 /\ j - i + 1 >= 2 /\ Len(<<".">>) = 1
    BY <1>1
  <2>6. IsName(p, i, j)
    <3>1. Len(SubSeq(p, i, j)) # Len(<<".">>)
      BY <2>5
    <3>2. SubSeq(p, i, j) # <<".">>
      BY <3>1, Zenon
    <3>3. i <= j
      BY <2>3
    <3> QED BY <2>3, <2>4, <3>2, <3>3 DEF IsName
  <2>7. j <= n
    BY <1>1, <2>6 DEF Below, UnderRoot
  <2> QED BY <1>1, <2>7
<1>3. ~has_dotdot(p)
  <2> SUFFICES ASSUME NEW k \in 1 .. Len(p) - 1, p[k] = "." /\ p[k + 1] = "."
               PROVE  FALSE
    BY DEF has_dotdot
  <2>1. k + 1 \in 2 .. Len(p) /\ (k + 1) - 1 = k
    BY <1>1
  <2> QED BY <2>1
<1> QED BY <1>1, <1>2, <1>3 DEF path_allowed, Relative, Below

(***************************************************************************)
(* Between the check and the open, root and path are those of the check.   *)
(***************************************************************************)
PathInv ==
  /\ root \in Seq(STRING) /\ path \in Seq(STRING)
  /\ pc \in {"read", "write"} => root # << >> /\ path_allowed(root, path)
  /\ pc = "deny" => root # << >>
  /\ pc = "deny" /\ held => ~path_allowed(root, path)

LEMMA PathInit == Init => PathInv
  BY DEF Init, PathInv

LEMMA PathNext == PathInv /\ [Next]_vars => PathInv'
<1> SUFFICES ASSUME PathInv, [Next]_vars PROVE PathInv'
  OBVIOUS
<1>1. ASSUME NEW r \in Roots, NEW p \in Paths, ReadCall(r, p) \/ WriteCall(r, p) PROVE PathInv'
  <2>1. r \in Seq(STRING) \ {<< >>} /\ p \in Seq(STRING)
    BY HostIOAssumption
  <2>2. /\ pc' \in {"read", "write", "deny"} /\ pc' = "deny" <=> ~(held /\ path_allowed(r, p))
        /\ root' = r /\ path' = p /\ held' = held
    BY <1>1 DEF ReadCall, WriteCall, FileCall, Begin, session
  <2>3. path_allowed(root', path') <=> path_allowed(r, p)
    BY <2>2
  <2> QED BY <2>1, <2>2, <2>3 DEF PathInv
<1>2. CASE /\ root' = << >> /\ path' = << >> /\ pc' \notin {"read", "write", "deny"}
  BY <1>2 DEF PathInv
<1>3. CASE UNCHANGED <<root, path>> /\ pc' \notin {"read", "write", "deny"}
  BY <1>3 DEF PathInv
<1>4. CASE Deny \/ OpenFails \/ ReadFails \/ ReadDone \/ WriteCloses \/ DialReturns \/ ListGivesUp \/ ListEnds
  BY <1>2, <1>4 DEF Deny, OpenFails, ReadFails, ReadDone, WriteCloses, DialReturns, ListGivesUp, ListEnds, Return
<1>5. CASE ReadOpens \/ WriteOpens
  BY <1>2, <1>5 DEF ReadOpens, WriteOpens, Opens
<1>6. CASE ReadSeeks \/ ReadMallocs \/ WritesData \/ DialSocket \/ Connected \/ ConnectFails
  BY <1>3, <1>6 DEF ReadSeeks, ReadMallocs, WritesData, DialSocket, Connected, ConnectFails, Opens
<1>7. ASSUME NEW n, DialCall(n) PROVE PathInv'
  BY <1>3, <1>7 DEF DialCall, Begin
<1>8. ASSUME NEW k, ListName(k) PROVE PathInv'
  BY <1>3, <1>8 DEF ListName
<1>9. CASE ListFails \/ ListCall \/ GuestEnd \/ (\E s \in socks : CloseSock(s))
  BY <1>3, <1>9 DEF ListFails, ListCall, Begin, GuestEnd, CloseSock
<1>10. CASE UNCHANGED vars
  BY <1>10 DEF vars, session, PathInv
<1> QED BY <1>1, <1>4, <1>5, <1>6, <1>7, <1>8, <1>9, <1>10 DEF Next

\* A file is opened only under the root of its capability, component by
\* component; and while the session lives a relative path below the root, with
\* or without a separator at the root's end, is refused only for two dots side
\* by side.
THEOREM FilesUnderRootHolds == Spec => []FilesUnderRoot
<1>1. PathInv => OpensOnlyUnderRoot
  BY AllowedUnderRoot DEF PathInv, OpensOnlyUnderRoot
<1>2. PathInv => ServesBelow
  BY BelowAllowed DEF PathInv, ServesBelow
<1>3. PathInv => FilesUnderRoot
  BY <1>1, <1>2 DEF FilesUnderRoot
<1> QED BY <1>3, PathInit, PathNext, PTL DEF Spec
=============================================================================
