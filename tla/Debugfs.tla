------------------------------ MODULE Debugfs ------------------------------
(* The readers of core/gpudridebug.c and what the Fence and the Stat page  *)
(* make of them (tui/fenceinfo.c, update_client_info of tui/stateinfo.c).  *)
(* A name is the sequence of the pieces that tell names apart, so that one *)
(* is a prefix of another as the strings are; a line is a record of what   *)
(* the code tells apart in it.                                             *)
EXTENDS Integers, SequencesExt

CONSTANTS
    MAX_CLIENT_COUNT,   \* clients of the Stat page
    ToldCount           \* the room update_client_info tells the reader of

-----------------------------------------------------------------------------
(* amdGpuRingInfo: the ring files among the entries of the directory.      *)

RingTypes == {"gfx", "sdma", "comp", "uvd", "kiq", "vce"}

\* parseRingInfo, without the numbers, which no page reads
parseRingInfo(name) ==
    [shortname |-> name, type |-> IF Head(name) \in RingTypes THEN Head(name) ELSE "unknow"]

\* an entry that is no ring has no name to parse; the array has no say in it
amdGpuRingInfo(dir) ==
    LET listed[n \in 0 .. Len(dir)] ==
            IF n = 0 THEN <<>>
            ELSE IF dir[n] = <<>> THEN listed[n - 1]
            ELSE Append(listed[n - 1], parseRingInfo(dir[n]))
    IN listed[Len(dir)]

-----------------------------------------------------------------------------
(* amdGpuQueryFenceInfo: a block per ring, a header and then its fences.   *)

Fields == {"signaled", "emitted", "trailing_fence", "emitted_trial", "preempted", "reset",
           "both"}
Zeroes == [f \in Fields |-> 0]

\* one round of the inner loop: the second "emitted" of a block is the trailing
\* one, a third is ignored, and any header ends the block
Fence(s, line) ==
    CASE line.what = "ring" -> [s EXCEPT !.inside = FALSE]
      [] line.what = "emitted" ->
            [s EXCEPT !.emitted_index = @ + 1,
                      !.info = CASE s.emitted_index = 0 -> [@ EXCEPT !["emitted"] = line.value]
                                 [] s.emitted_index = 1 -> [@ EXCEPT !["emitted_trial"] = line.value]
                                 [] OTHER -> @]
      [] OTHER -> [s EXCEPT !.info = [@ EXCEPT ![line.what] = line.value]]

\* the bug of names compared by their family alone
HeaderOfFamily(short, line) == line.what = "ring" /\ Head(short) = Head(line.name)
\* the outer loop: a header that begins with the name of the ring
Header(short, line) == line.what = "ring" /\ IsPrefix(short, line.name)

\* what becomes of the reader's variables with one line of the file
Line(short, s, line) ==
    IF s.inside THEN Fence(s, line)
    ELSE IF Header(short, line) THEN [s EXCEPT !.inside = TRUE, !.emitted_index = 0]
    ELSE s

Unread == [inside |-> FALSE, emitted_index |-> 0, info |-> Zeroes]

\* the variables after each of the lines
Reading(file, short) ==
    LET state[n \in 0 .. Len(file)] ==
            IF n = 0 THEN Unread ELSE Line(short, state[n - 1], file[n])
    IN state

\* the last line of the file is looked at twice if it belongs to the ring
amdGpuQueryFenceInfo(file, short) ==
    LET end == Reading(file, short)[Len(file)]
    IN IF end.inside THEN Fence(end, file[Len(file)]).info ELSE end.info

\* update_fence_info: a row for each ring that was listed
FenceRows(rings, file) ==
    [n \in DOMAIN rings |-> amdGpuQueryFenceInfo(file, rings[n].shortname)]

-----------------------------------------------------------------------------
(* amdGpuQueryClientInfo: fscanf with widths of 20, 5, 3, 5 and 10.  A     *)
(* file that cannot be opened, or whose first line is not that of the      *)
(* table, is an error before any client is read: update_client_info hands  *)
(* it on, which is the failure of the clients in StatPage.                 *)

\* what becomes of a client, by the shape of its line: a name with a space, or
\* a pid of six digits, ends the list; a uid of six digits is cut to five, and
\* what is left of its line is taken for the next client, which ends the list
Shapes == {"plain", "spaced", "long_pid", "long_uid"}
Fails(c) == c.shape \in {"spaced", "long_pid"}

ScannedUid(c) == IF c.shape = "long_uid" THEN "cut" ELSE c.uid

\* the bug of a reader that takes the rest of such a line for nothing
ReadableAlways(clients, n) == TRUE
\* the reader gets as far as the n-th client and finds its seven fields
Readable(clients, n) ==
    /\ \A k \in 1 .. n : ~Fails(clients[k])
    /\ \A k \in 1 .. n - 1 : clients[k].shape # "long_uid"

amdGpuQueryClientInfo(clients) ==
    LET count == Cardinality({ n \in DOMAIN clients : n <= ToldCount /\ Readable(clients, n) })
    IN [n \in 1 .. count |->
            [command |-> clients[n].command, uid |-> ScannedUid(clients[n])]]

\* the entry that is written to last, in part if its client cannot be read
Touched(clients) ==
    LET count == Len(amdGpuQueryClientInfo(clients))
        more == \/ count < Len(clients)
                \/ count > 0 /\ clients[count].shape = "long_uid"
    IN IF count < ToldCount /\ more THEN count + 1 ELSE count

\* update_client_info: rows beyond the clients are blanked; an owner without an
\* account is read through NULL
ClientRows(clients, rows, accounts) ==
    LET infos == amdGpuQueryClientInfo(clients)
        shown == { n \in 1 .. rows : n <= Len(infos) /\ infos[n].command # "unknow" }
    IN [crashed |-> \E n \in shown : infos[n].uid \notin accounts,
        drawn |-> [n \in 1 .. rows |-> IF n \in shown THEN infos[n].command ELSE "blank"]]

=============================================================================
