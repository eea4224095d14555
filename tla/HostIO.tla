------------------------------- MODULE HostIO -------------------------------
(***************************************************************************)
(* The calls of a guest that reach the operating system: read_file and     *)
(* write_file through a rooted capability (host/cap/fx_cap_runtime.c),     *)
(* dial and close through a net capability (fx_net_dial.c), and the        *)
(* listing of a directory (host/std_fs_walk/ref.c).  Each system call is a *)
(* step and may fail; one call is in progress at a time.  What the program *)
(* owes the system is descriptors and heap blocks, so that is the state.   *)
(* A path is a sequence of characters, one-letter strings.                 *)
(***************************************************************************)
EXTENDS Integers, FiniteSets, Sequences, SequencesExt

CONSTANTS
  Fds,        \* the descriptors the system hands out
  Roots,      \* the roots of the session's file capabilities
  Paths,      \* the paths the guest passes
  MaxAddrs,   \* bound: addresses getaddrinfo answers
  NameLens,   \* lengths of directory entries; . and .., which are skipped, left out
  MaxNames,   \* bound: entries of a directory
  FirstCap,   \* 4096, the first size of the listing buffer
  MaxDoublings \* bound: how often the buffer can double before malloc has no block

ASSUME HostIOAssumption ==
  /\ Fds \subseteq Nat \ {0}
  /\ Roots \subseteq Seq(STRING) \ {<< >>} /\ Paths \subseteq Seq(STRING)
  /\ MaxAddrs \in Nat /\ NameLens \subseteq Nat \ {0} /\ MaxNames \in Nat
  /\ FirstCap \in Nat \ {0} /\ MaxDoublings \in Nat

VARIABLES
  held,      \* the session that minted the capabilities is live
  text,      \* g_last_text is set
  bufs,      \* malloc'ed text buffers not freed
  open,      \* open descriptors
  socks,     \* descriptors dial returned and the program has not closed
  lcap,      \* g_list_cap
  lsize,     \* the real size of the block g_list_buf
  pc,        \* the next step of the call in progress
  fd,        \* its descriptor, 0 for none
  root, path,\* of the file calls, until the file is open
  left,      \* dial: addresses to try;  write: bytes the file did not take
  disk,      \* write: what the file holds
  len,       \* listing: the bytes written so far
  names,     \* listing: the names in the buffer, each with its place
  given,     \* history, listing: the names readdir gave
  result     \* what the last call answered

session == <<held, text, bufs>>
system == <<open, socks>>
buffer == <<lcap, lsize, len, names, given>>
vars == <<session, system, buffer, pc, fd, root, path, left, disk, result>>

Init ==
  /\ held = TRUE /\ text = FALSE /\ bufs = 0
  /\ open = {} /\ socks = {}
  /\ lcap = 0 /\ lsize = 0 /\ len = 0 /\ names = << >> /\ given = << >>
  /\ pc = "idle" /\ fd = 0 /\ root = << >> /\ path = << >>
  /\ left = 0 /\ disk = "old" /\ result = "none"

(***************************************************************************)
(* path_allowed.                                                           *)
(***************************************************************************)
Separators == {"/", "\\"}

has_dotdot(p) == \E i \in 1 .. Len(p) - 1 : p[i] = "." /\ p[i + 1] = "."

\* Mutants of ends_root: any path that begins with the root will do; the
\* separator is looked for behind the root alone.
ends_root_anywhere(r, p) == TRUE
ends_root_behind(r, p) == p[Len(r) + 1] \in Separators

\* The character after the root, or the last of the root, separates.
ends_root(r, p) == p[Len(r) + 1] \in Separators \/ r[Len(r)] \in Separators

path_allowed(r, p) ==
  /\ p # << >>
  /\ p[1] \notin Separators
  /\ Len(p) < 2 \/ p[2] # ":"
  /\ ~has_dotdot(p)
  /\ IsPrefix(r, p) /\ Len(p) > Len(r)
  /\ ends_root(r, p)

(***************************************************************************)
(* The parts every call is made of.  Answers are forgotten when the next   *)
(* call begins.                                                            *)
(***************************************************************************)
Begin(next) ==
  /\ pc = "idle" /\ pc' = next
  /\ disk' = "old" /\ len' = 0 /\ names' = << >> /\ given' = << >> /\ result' = "none"

Return(answer) ==
  /\ pc' = "idle" /\ result' = answer
  /\ fd' = 0 /\ root' = << >> /\ path' = << >> /\ left' = 0

\* The lowest descriptor that is free.
IsNextFd(d) == d \in Fds \ open /\ \A e \in Fds \ open : d <= e

Opens(next) ==
  /\ \E d \in Fds : IsNextFd(d) /\ fd' = d /\ open' = open \cup {d}
  /\ pc' = next

Closes == open' = open \ {fd}

clear_last_text == text' = FALSE /\ bufs' = IF text THEN bufs - 1 ELSE bufs

GuestEnd ==
  /\ held /\ pc = "idle"
  /\ held' = FALSE /\ clear_last_text
  /\ UNCHANGED <<system, buffer, pc, fd, root, path, left, disk, result>>

(***************************************************************************)
(* io_cap_read_file and io_cap_write_file.                                 *)
(***************************************************************************)
FileCall(r, p, next) ==
  /\ Begin(IF held /\ path_allowed(r, p) THEN next ELSE "deny")
  /\ root' = r /\ path' = p
  /\ UNCHANGED <<system, lcap, lsize, fd, left>>

ReadCall(r, p) == FileCall(r, p, "read") /\ clear_last_text /\ UNCHANGED held
WriteCall(r, p) == FileCall(r, p, "write") /\ UNCHANGED session

Deny == pc = "deny" /\ Return("denied") /\ UNCHANGED <<session, system, buffer, disk>>

OpenFails ==
  /\ pc \in {"read", "write"}
  /\ Return("err")
  /\ UNCHANGED <<session, system, buffer, disk>>

ReadOpens ==
  /\ pc = "read" /\ Opens("seek_end")
  /\ root' = << >> /\ path' = << >>
  /\ UNCHANGED <<session, socks, buffer, left, disk, result>>

ReadSeeks ==
  /\ \/ pc = "seek_end" /\ pc' = "tell"
     \/ pc = "tell" /\ pc' = "seek_set"
     \/ pc = "seek_set" /\ pc' = "malloc"
  /\ UNCHANGED <<session, system, buffer, fd, root, path, left, disk, result>>

ReadMallocs ==
  /\ pc = "malloc" /\ pc' = "fread"
  /\ bufs' = bufs + 1
  /\ UNCHANGED <<held, text, system, buffer, fd, root, path, left, disk, result>>

\* A failed fseek, ftell or malloc closes the file.
ReadFails ==
  /\ pc \in {"seek_end", "tell", "seek_set", "malloc"}
  /\ Closes
  /\ Return("err")
  /\ UNCHANGED <<session, socks, buffer, disk>>

\* fread may fall short: the text is what was read.
ReadDone ==
  /\ pc = "fread"
  /\ Closes /\ text' = TRUE
  /\ Return("ok")
  /\ UNCHANGED <<held, bufs, socks, buffer, disk>>

\* fopen with "wb" empties the file.
WriteOpens ==
  /\ pc = "write" /\ Opens("fwrite")
  /\ disk' = "empty"
  /\ root' = << >> /\ path' = << >>
  /\ UNCHANGED <<session, socks, buffer, left, result>>

WritesData ==
  /\ pc = "fwrite" /\ pc' = "fclose"
  /\ left' \in {0, 1}
  /\ UNCHANGED <<session, system, buffer, fd, root, path, disk, result>>

\* Mutant of CloseVerdict: the status of fclose is not looked at.
WriteVerdict(flushed) == IF left = 0 THEN "ok" ELSE "err"
CloseVerdict(flushed) == IF flushed /\ left = 0 THEN "ok" ELSE "err"

\* The stream is buffered: fclose writes the rest, or fails.
WriteCloses ==
  /\ pc = "fclose" /\ Closes
  /\ \E flushed \in BOOLEAN :
       /\ disk' = IF flushed /\ left = 0 THEN "whole" ELSE "part"
       /\ Return(CloseVerdict(flushed))
  /\ UNCHANGED <<session, socks, buffer>>

(***************************************************************************)
(* netcap_dial: the addresses are tried one after the other.  TLS, a bad   *)
(* port, a host or port off the allow list and a name that does not        *)
(* resolve are refusals that change nothing.                               *)
(***************************************************************************)
DialCall(n) ==
  /\ held /\ Begin("socket")
  /\ left' = n
  /\ UNCHANGED <<session, system, lcap, lsize, fd, root, path>>

DialSocket ==
  /\ pc = "socket" /\ left > 0
  /\ \/ Opens("connect") /\ UNCHANGED left
     \/ fd' = 0 /\ left' = left - 1 /\ UNCHANGED <<open, pc>>
  /\ UNCHANGED <<session, socks, buffer, root, path, disk, result>>

Connected ==
  /\ pc = "connect" /\ pc' = "dialed"
  /\ UNCHANGED <<session, system, buffer, fd, root, path, left, disk, result>>

\* Mutant of ConnectFails: sock is not set to invalid again.
ConnectFailsKeepsFd ==
  /\ pc = "connect" /\ pc' = "socket"
  /\ Closes /\ left' = left - 1
  /\ UNCHANGED <<session, socks, buffer, fd, root, path, disk, result>>

ConnectFails ==
  /\ pc = "connect" /\ pc' = "socket"
  /\ Closes /\ fd' = 0 /\ left' = left - 1
  /\ UNCHANGED <<session, socks, buffer, root, path, disk, result>>

\* No socket is the answer 0, which is why Fds leaves out descriptor 0.
DialReturns ==
  /\ pc = "dialed" \/ (pc = "socket" /\ left = 0)
  /\ socks' = IF fd = 0 THEN socks ELSE socks \cup {fd}
  /\ Return(IF fd = 0 THEN "err" ELSE "ok")
  /\ UNCHANGED <<session, open, buffer, disk>>

\* netcap_close.  The system frees the descriptor also when close fails.
CloseSock(s) ==
  /\ pc = "idle" /\ s \in socks
  /\ open' = open \ {s} /\ socks' = socks \ {s}
  /\ UNCHANGED <<session, buffer, pc, fd, root, path, left, disk, result>>

(***************************************************************************)
(* fs_list_names.  The buffer is kept from call to call; it holds each     *)
(* name with a newline, and a terminator.                                  *)
(***************************************************************************)
Capacities == {FirstCap * 2^k : k \in 0 .. MaxDoublings}

\* FirstCap or what there was, doubled until it is enough.
Enough(c, need) ==
  /\ c \in Capacities /\ need <= c
  /\ \A d \in Capacities : need <= d => c <= d

\* Mutant of ensure_cap: the new capacity is stored before realloc answers.
ensure_cap_early(need, grew) ==
  IF need > lcap
    THEN \E c \in Capacities :
           Enough(c, need) /\ lcap' = c /\ lsize' = IF grew THEN c ELSE lsize
    ELSE UNCHANGED <<lcap, lsize>>

\* grew tells whether realloc, if it is called, succeeds.
ensure_cap(need, grew) ==
  IF need > lcap /\ grew
    THEN \E c \in Capacities : Enough(c, need) /\ lcap' = c /\ lsize' = c
    ELSE UNCHANGED <<lcap, lsize>>

\* The buffer cannot be had, or the directory not opened: the answer is "".
ListFails ==
  /\ pc = "idle"
  /\ \E grew \in BOOLEAN : ensure_cap(1, grew)
  /\ len' = 0 /\ names' = << >> /\ given' = << >> /\ disk' = "old" /\ result' = "listed"
  /\ UNCHANGED <<session, system, pc, fd, root, path, left>>

ListCall ==
  /\ Begin("readdir")
  /\ ensure_cap(1, TRUE)
  /\ \E d \in Fds : IsNextFd(d) /\ fd' = d /\ open' = open \cup {d}
  /\ UNCHANGED <<session, socks, root, path, left>>

Need(k) == len + k + 2

ListName(k) ==
  /\ pc = "readdir" /\ Len(given) < MaxNames
  /\ given' = Append(given, k)
  /\ \E grew \in BOOLEAN :
       /\ ensure_cap(Need(k), grew)
       /\ IF Need(k) <= lcap \/ grew
            THEN /\ names' = Append(names, [at |-> len, n |-> k])
                 /\ len' = len + k + 1
                 /\ UNCHANGED pc
            ELSE pc' = "give_up" /\ UNCHANGED <<len, names>>
  /\ UNCHANGED <<session, system, fd, root, path, left, disk, result>>

ListGivesUp ==
  /\ pc = "give_up" /\ Closes
  /\ len' = 0 /\ names' = << >>
  /\ Return("listed")
  /\ UNCHANGED <<session, socks, lcap, lsize, given, disk>>

\* readdir answers NULL at the end, and also when it fails.
ListEnds ==
  /\ pc = "readdir" /\ Closes
  /\ Return("listed")
  /\ UNCHANGED <<session, socks, buffer, disk>>

Next ==
  \/ GuestEnd
  \/ \E r \in Roots, p \in Paths : ReadCall(r, p) \/ WriteCall(r, p)
  \/ Deny \/ OpenFails
  \/ ReadOpens \/ ReadSeeks \/ ReadMallocs \/ ReadFails \/ ReadDone
  \/ WriteOpens \/ WritesData \/ WriteCloses
  \/ \E n \in 1 .. MaxAddrs : DialCall(n)
  \/ DialSocket \/ Connected \/ ConnectFails \/ DialReturns
  \/ \E s \in socks : CloseSock(s)
  \/ ListFails \/ ListCall \/ ListGivesUp \/ ListEnds
  \/ \E k \in NameLens : ListName(k)

Spec == Init /\ [][Next]_vars

(***************************************************************************)
(* Properties.                                                             *)
(***************************************************************************)

\* Between two calls the program owes the system what it was handed and no
\* more, whichever step of whichever call failed: the sockets it has not
\* closed, which are open, and the buffer of the last text.
CallsGiveBack ==
  pc = "idle" => open = socks /\ bufs = (IF text THEN 1 ELSE 0)

\* A component of a path, other than ".", from place i to place j.
IsName(p, i, j) ==
  /\ i <= j
  /\ \A k \in i .. j : p[k] \notin Separators
  /\ i = 1 \/ p[i - 1] \in Separators
  /\ j = Len(p) \/ p[j + 1] \in Separators
  /\ SubSeq(p, i, j) # <<".">>

\* Where the root is, path has the components of the root, and none is "..".
UnderRoot(r, p) ==
  /\ \A i \in 1 .. Len(r), j \in 1 .. Len(r) :
       IsName(r, i, j) => IsName(p, i, j) /\ SubSeq(p, i, j) = SubSeq(r, i, j)
  /\ \A i \in 1 .. Len(r), j \in 1 .. Len(p) :
       IsName(p, i, j) => j <= Len(r) /\ IsName(r, i, j)
  /\ \A i, j \in 1 .. Len(p) : IsName(p, i, j) => SubSeq(p, i, j) # <<".", ".">>

\* What is written below the root: longer than it, and under it.
Below(r, p) == IsPrefix(r, p) /\ Len(p) > Len(r) /\ UnderRoot(r, p)

Relative(p) == p # << >> /\ p[1] \notin Separators /\ (Len(p) < 2 \/ p[2] # ":")

\* A file that is opened lies under the root, component by component, whatever
\* separators the two are written with and whether or not the root ends in one.
OpensOnlyUnderRoot == pc \in {"read", "write"} => UnderRoot(root, path)

\* While the session lives, a relative path below the root is served, unless two
\* dots stand side by side in it, also inside a name (94-100).
ServesBelow ==
  pc = "deny" /\ held =>
    ~ /\ Relative(path) /\ Below(root, path)
      /\ \A i \in 2 .. Len(path) : path[i - 1] = "." => path[i] # "."

\* The path check errs on neither side, but for absolute paths and for the
\* dots of a name: it opens nothing that is not under the root, and refuses
\* nothing that is (102-136; fx_cap_runtime.h 68).
FilesUnderRoot == OpensOnlyUnderRoot /\ ServesBelow

\* "ok" from write_file means the file holds all of the data, although the
\* last of it is only written by fclose; a refusal has not touched it.
WriteAnswersTrue ==
  /\ pc = "idle" /\ result = "ok" /\ disk # "old" => disk = "whole"
  /\ result = "denied" => disk = "old"

\* A listing holds every name that readdir gave, in order, or is empty.  The
\* names lie one after the other with a newline between, and neither they nor
\* the terminator pass the end of the buffer, after failed reallocs too.
ListingWhole ==
  /\ pc \in {"readdir", "give_up"} => len < lsize
  /\ \A i \in DOMAIN names :
       /\ names[i].at + names[i].n + 1 < lsize
       /\ names[i].at = IF i = 1 THEN 0 ELSE names[i - 1].at + names[i - 1].n + 1
  /\ result = "listed" /\ names # << >> =>
       Len(names) = Len(given) /\ \A i \in DOMAIN given : names[i].n = given[i]
=============================================================================
