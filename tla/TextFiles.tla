----------------------------- MODULE TextFiles -----------------------------
(* The small files the program looks things up in: /proc/meminfo and       *)
(* /proc/cpuinfo (utils/utils.c), uevent and vbios_version of sysfs        *)
(* (core/gpuinfo.c), amdgpu.ids (tui/device.c), os-release and the DMI     *)
(* entries (tui/systeminfo.c).  A line is a record of a key and a value; a *)
(* key is the sequence of its words, so that one can begin another.        *)
EXTENDS Integers, SequencesExt

CONSTANTS MAX_NAME_SIZE     \* the room for a name or a short file

-----------------------------------------------------------------------------
(* Numbers.  The digits of a number are a sequence; atoi reads them.       *)

\* a key that holds name anywhere, as strstr finds it: the last one counts
Holds(key, name) ==
    \E i \in 1 .. Len(key) : IsPrefix(name, SubSeq(key, i, Len(key)))

getProcMemInfo(file, name) ==
    LET hits == { n \in DOMAIN file : Holds(file[n].key, name) }
    IN IF hits = {} THEN 0 ELSE file[Max(hits)].value

\* the bug of values that are joined
OverwriteAppended(buf, digits) == buf \o digits
\* strncpy of a value without its end: what was longer before shows through
Overwrite(buf, digits) == digits \o SubSeq(buf, Len(digits) + 1, Len(buf))

\* the lines whose key begins with the item
Beginning(file, item) == { n \in DOMAIN file : IsPrefix(item, file[n].key) }

\* the first of them
parseCpuInfo(file, item, buf) ==
    LET hits == Beginning(file, item)
    IN IF hits = {} THEN [found |-> FALSE, buf |-> buf]
       ELSE [found |-> TRUE, buf |-> Overwrite(buf, file[Min(hits)].value)]

\* both numbers go through one buffer, which is cleared before the first
getCpuCores(file) ==
    LET cores == parseCpuInfo(file, <<"cpu", "cores">>, <<>>)
        threads == parseCpuInfo(file, <<"siblings">>, cores.buf)
    IN [ok |-> cores.found /\ threads.found, cores |-> cores.buf, threads |-> threads.buf]

-----------------------------------------------------------------------------
(* Names.                                                                  *)

\* sysfs_get_uevent: the first line whose key is exactly that one
sysfs_get_uevent(file, name) ==
    LET hits == { n \in DOMAIN file : file[n].key = name }
    IN IF hits = {} THEN [ok |-> FALSE] ELSE [ok |-> TRUE, value |-> file[Min(hits)].value]

\* getOSReleaseInfo: the first line that begins with the name, with the text in
\* quotes if there are any, else up to the end of the line
getOSReleaseInfo(file, name) ==
    LET hits == Beginning(file, name)
    IN IF hits = {} THEN "unknow" ELSE file[Min(hits)].value

\* get_dmi_info and gpuQueryVbiosVersion: a file of one line, whose last byte is
\* taken for its line end; an empty one leaves what there was
get_dmi_info(before, length) ==
    IF length = 0 THEN before
    ELSE [shown |-> (IF length < MAX_NAME_SIZE THEN length ELSE MAX_NAME_SIZE) - 1]
gpuQueryVbiosVersion(length) ==
    IF length = 0 THEN [ok |-> FALSE]
    ELSE [ok |-> TRUE, shown |-> (IF length < MAX_NAME_SIZE THEN length ELSE MAX_NAME_SIZE - 1) - 1]

\* getDeviceNameFromAmdgpuIDS: the first entry of the device and its revision;
\* scanf stops a name at a comma or an apostrophe, and at the entry after it
Odd(entry) == entry.name.tail # ""

\* the bug of a search by the device alone
EntryOfDevice(entry, device_id, revision_id) == entry.did = device_id
EntryOf(entry, device_id, revision_id) ==
    entry.did = device_id /\ entry.rid = revision_id

getDeviceNameFromAmdgpuIDS(file, device) ==
    LET Scanned(i) == \A k \in 1 .. i - 1 : ~Odd(file[k])
        hits == { i \in DOMAIN file : Scanned(i) /\ EntryOf(file[i], device.did, device.rid) }
    IN IF ~device.amd \/ hits = {} THEN [ok |-> FALSE]
       ELSE [ok |-> TRUE, name |-> file[Min(hits)].name.head]

\* DeviceGetDeviceName: else the name that libpciaccess knows, else the numbers
DeviceGetDeviceName(file, device) ==
    LET listed == getDeviceNameFromAmdgpuIDS(file, device)
    IN IF listed.ok THEN listed.name
       ELSE IF device.pciName # "null" THEN device.pciName ELSE "unknow device"

=============================================================================
