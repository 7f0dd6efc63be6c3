------------------------------ MODULE Readers ------------------------------
(* What the readers of Debugfs, TextFiles and Bios make of a file, for all *)
(* files up to a bound.  A file grows by a line, a block or a table; after *)
(* every step the readers are compared with what the file says.            *)
EXTENDS Debugfs, TextFiles, Bios

CONSTANTS
    RingNames, Clients, IdEntries, CpuLines, KeyLines, BiosTables,  \* what may be added
    Accounts,       \* the user ids of those with an account
    MaxAdded        \* bound on the length of a file, in rings for that of the fences

ASSUME BoundAssumption ==
    MaxAdded \in Nat /\ MAX_CLIENT_COUNT \in Nat /\ ToldCount \in Nat

\* names and keys are not empty
ASSUME NameAssumption ==
    /\ \A name \in RingNames : name \in Seq(STRING) /\ name # <<>>
    /\ \A line \in KeyLines : line.key \in Seq(STRING) /\ line.key # <<>>

\* no key of /proc/cpuinfo has one of the two as a proper beginning
ASSUME CpuLinesAssumption ==
    \A line \in CpuLines :
        /\ line.key \in Seq(STRING) /\ line.value \in Seq(0 .. 9)
        /\ \A item \in {<<"cpu", "cores">>, <<"siblings">>} :
              IsPrefix(item, line.key) => line.key = item

VARIABLES
    topic,          \* which file
    layout,         \* of a fence file: by the age of the kernel, and the type of ring
    rings,          \* the rings that a fence file has blocks of
    file

vars == <<topic, layout, rings, file>>

Topics == {"fences", "clients", "ids", "cpuinfo", "keys", "bios", "capabilities"}

Init ==
    /\ topic \in Topics
    /\ layout \in IF topic = "fences" THEN {"old", "new"} ELSE {"old"}
    /\ rings = <<>> /\ file = <<>>

Add(this, what) ==
    /\ topic = this /\ Len(file) < MaxAdded
    /\ \E one \in what : file' = Append(file, one)
    /\ UNCHANGED <<topic, layout, rings>>

-----------------------------------------------------------------------------
(* The files, as the kernel and the distributions write them.              *)

\* the fences of a ring: the older kernels write two of them, the newer ones four
\* for some types of rings and seven for those of type gfx
RingFences(name) ==
    CASE layout = "old" \/ Head(name) \notin {"gfx", "sdma"} -> <<"signaled", "emitted">>
      [] layout = "new" /\ Head(name) = "sdma" ->
            <<"signaled", "emitted", "trailing_fence", "emitted">>
      [] layout = "new" /\ Head(name) = "gfx" ->
            <<"signaled", "emitted", "trailing_fence", "emitted", "preempted", "reset", "both">>

\* every value in the file is another one
FenceValue(k, n) == 10 * k + n
Block(name, k) ==
    LET fences == RingFences(name)
    IN [n \in 1 .. Len(fences) + 1 |->
            IF n = 1 THEN [what |-> "ring", name |-> name]
            ELSE [what |-> fences[n - 1], value |-> FenceValue(k, n - 1)]]

\* in the directory the files of the rings are among others
Directory == <<<<>>>> \o rings \o <<<<>>>>

AddRing ==
    /\ topic = "fences" /\ Len(rings) < MaxAdded
    /\ \E name \in RingNames \ Range(rings) :
          rings' = Append(rings, name) /\ file' = file \o Block(name, Len(rings) + 1)
    /\ UNCHANGED <<topic, layout>>
AddClient == Add("clients", Clients)
AddId == Add("ids", IdEntries)
AddCpuLine == Add("cpuinfo", { line \in CpuLines : \A k \in DOMAIN file : file[k].key # line.key })
AddKeyLine == Add("keys", { line \in KeyLines : \A k \in DOMAIN file : file[k].key # line.key })
AddTable == Add("bios", { t \in BiosTables : \A k \in DOMAIN file : file[k].table # t.table })
AddCapability ==
    Add("capabilities", { c \in 1 .. Len(Capabilities) : \A k \in DOMAIN file : file[k] < c })

Next == AddRing \/ AddClient \/ AddId \/ AddCpuLine \/ AddKeyLine \/ AddTable
        \/ AddCapability

Spec == Init /\ [][Next]_vars

-----------------------------------------------------------------------------
(* Properties                                                              *)

\* The fences of ring k as the file has them; the trailing "emitted" of the ring
\* whose block ends the file is, if it has none, taken to be the other one.
Place == [signaled |-> 1, emitted |-> 2, trailing_fence |-> 3, emitted_trial |-> 4,
          preempted |-> 5, reset |-> 6, both |-> 7]
FencesOf(k) ==
    LET count == Len(RingFences(rings[k]))
    IN [f \in Fields |->
            CASE Place[f] <= count -> FenceValue(k, Place[f])
              [] count = 2 /\ f = "emitted_trial" /\ k = Len(rings) -> FenceValue(k, 2)
              [] OTHER -> 0]

\* The Fence page has a row for each ring, with the fences of that ring and of no
\* other, on old and new kernels, unless its name begins the name of another ring.
FencesRight ==
    topic = "fences" =>
        LET listed == amdGpuRingInfo(Directory)
            rows == FenceRows(listed, file)
        IN /\ Len(listed) = Len(rings)
           /\ \A k \in DOMAIN rings :
                 (\A m \in DOMAIN rings \ {k} : ~IsPrefix(rings[k], rings[m]))
                     => listed[k].shortname = rings[k] /\ rows[k] = FencesOf(k)

\* The list of clients is the beginning of the file, each with its own user id but
\* perhaps the last; it is all of it if no name has a space and no number is wide,
\* the room it is told of permitting.  Whatever the lines look like, it is written
\* behind its array only if there are more clients than that, or as many and the
\* last has a wide user id, whose rest is taken for one more.  An owner without an
\* account, which ends the program, is looked up only if a client of the file that
\* is not called "unknow" has none, or has a wide user id.
ClientsListed ==
    topic = "clients" =>
        LET infos == amdGpuQueryClientInfo(file)
            plain == \A k \in DOMAIN file : file[k].shape = "plain"
        IN /\ Len(infos) <= Len(file)
           /\ \A n \in DOMAIN infos : infos[n].command = file[n].command
           /\ \A n \in 1 .. Len(infos) - 1 : infos[n].uid = file[n].uid
           /\ plain => Len(infos) = IF Len(file) < ToldCount THEN Len(file) ELSE ToldCount
           /\ Touched(file) > MAX_CLIENT_COUNT =>
                 \/ Len(file) > MAX_CLIENT_COUNT
                 \/ Len(file) = MAX_CLIENT_COUNT /\ file[Len(file)].shape = "long_uid"
           /\ ClientRows(file, MAX_CLIENT_COUNT, Accounts).crashed =>
                 \E k \in DOMAIN file :
                    /\ file[k].command # "unknow"
                    /\ file[k].uid \notin Accounts \/ file[k].shape = "long_uid"

\* A card that is listed with its revision is called by its entry, however many
\* others are, unless an entry before it has a comma or an apostrophe in its name;
\* a card that is not listed never gets the name of another.
NamesFound ==
    topic = "ids" =>
        \A did \in { e.did : e \in IdEntries }, rid \in { e.rid : e \in IdEntries } :
            LET got == getDeviceNameFromAmdgpuIDS(file, [did |-> did, rid |-> rid, amd |-> TRUE])
                own == { k \in DOMAIN file : file[k].did = did /\ file[k].rid = rid }
                odd == { k \in DOMAIN file : Odd(file[k]) }
            IN /\ got.ok => \E k \in own : got.name = file[k].name.head
               /\ own # {} /\ (\A k \in odd : Min(own) <= k) =>
                     got.ok /\ got.name = file[Min(own)].name.head

\* The counts of cores and of threads are those of the file, although both go
\* through one buffer, as long as there are no fewer digits in the second; and a
\* key of meminfo, of an uevent or of os-release is found in any order of the
\* lines, if at most one line holds it.
LookupsRight ==
    /\ topic = "cpuinfo" =>
          LET got == getCpuCores(file)
              Of(key) == { file[k].value : k \in { m \in DOMAIN file : file[m].key = key } }
          IN /\ got.ok <=> Of(<<"cpu", "cores">>) # {} /\ Of(<<"siblings">>) # {}
             /\ \A c \in Of(<<"cpu", "cores">>), t \in Of(<<"siblings">>) :
                   got.cores = c /\ (Len(t) >= Len(c) => got.threads = t)
    /\ topic = "keys" =>
          \A k \in DOMAIN file :
              (\A m \in DOMAIN file \ {k} : ~Holds(file[m].key, file[k].key)) =>
                  /\ getProcMemInfo(file, file[k].key) = file[k].value
                  /\ sysfs_get_uevent(file, file[k].key).value = file[k].value
                  /\ getOSReleaseInfo(file, file[k].key) = file[k].value

\* A table the image lacks is drawn as nothing, although its header is then read
\* from the start of the image, unless the image is as short as two or three
\* blocks; and the names of the capabilities end inside their buffer if the C
\* library empties it, or if there are no more than four.
Image(blocks) ==
    [signature |-> TRUE, blocks |-> blocks, code |-> 0,
     tables |-> [t \in { file[k].table : k \in DOMAIN file } |->
                    CHOOSE e \in Range(file) : e.table = t]]
BiosInBounds ==
    /\ topic = "bios" =>
          \A blocks \in 1 .. 5 :
              LET lines == BiosLines(Image(blocks))
              IN blocks \notin {2, 3} =>
                    \A l \in DOMAIN lines : lines[l] # "start"
    /\ topic = "capabilities" =>
          \A library \in Libraries :
              library = "empties_first" \/ Len(file) <= 4 =>
                  vbios_get_capability(library, Range(file)).size < CapabilitySize

=============================================================================
