------------------------------ MODULE Devices ------------------------------
(* The device table of tui/device.c: the enumeration of the PCI functions  *)
(* of class 03 by InitDeviceContext, the search for the DRM node of a card *)
(* by gpuGetDeviceByBus (core/gpudevice.c), its retry by deviceUpdate, and *)
(* FreeDeviceContext.  Cards and nodes come and go while the search reads  *)
(* the directory; the process may run out of descriptors.  The two arrays  *)
(* of GPU_MAX_CARD_SUPPORT entries are written without a look at their     *)
(* size: what the program does after it has written behind one of them is  *)
(* undefined, and the model stops there (pc is "overrun").                 *)
EXTENDS Integers, Sequences, FiniteSets

CONSTANTS
    CardCount,      \* PCI functions, those of class 03 first, in the order of the bus
    DisplayCounts,  \* how many of them may be of class 03
    Foreign,        \* those of another vendor than AMD
    Bare,           \* those that never have a driver or a node
    Virtual,        \* card nodes of no PCI function
    Domain, Slot,   \* the PCI address of each card; Slot stands for bus:dev.func
    ByteRange,      \* 2^8: the search is given the domain as uint8_t
    MaxCards,       \* GPU_MAX_CARD_SUPPORT
    MaxOpen,        \* descriptors the process may hold
    None,
    MaxEvents       \* bound: changes of the environment and failing calls

Card == 0 .. CardCount - 1
Node == (Card \ Bare) \cup Virtual      \* a card's node is named after it

ASSUME CountAssumption ==
    CardCount \in Nat /\ MaxCards \in Nat /\ DisplayCounts \subseteq 0 .. CardCount
ASSUME NodeAssumption ==
    /\ Foreign \subseteq Card /\ None \notin Card \cup Virtual
    /\ \A v \in Virtual : v \notin Nat
    /\ IsFiniteSet(Virtual)
ASSUME AddressAssumption ==
    /\ ByteRange \in Nat \ {0}
    /\ Domain \in [Card -> Nat]
    /\ \A c, d \in Card : Domain[c] = Domain[d] /\ Slot[c] = Slot[d] => c = d
ASSUME BoundAssumption == MaxOpen \in Nat /\ MaxEvents \in Nat

VARIABLES
    cardCount,      \* the functions of class 03: the cards below it
    driver,         \* cards with a kernel driver, pci_device_has_kernel_driver
    node,           \* /dev/dri/cardN: "none", "refused" by open, "odd", or "ok"
    events,         \* how many changes and failing calls there were
    pc, cursor,     \* where the thread is, and the index of its loop
    devs, deviceCount, freed,
    gpuDevice, driverisLoaded,
    caller, target, unread, devices, ret, found,     \* the search
    open,           \* descriptors the process holds
    troubled        \* history: a search ended early or met an odd node

envVars == <<cardCount, driver, node>>
tableVars == <<devs, deviceCount, freed>>
bindVars == <<gpuDevice, driverisLoaded>>
searchVars == <<caller, target, unread, devices, ret, found, open, troubled>>
vars == <<envVars, events, pc, cursor, tableVars, bindVars, searchVars>>

Stopped == {"exited", "crashed", "overrun"}

\* a call that may fail does, or the environment changes: MaxEvents bounds how often
Happens == events < MaxEvents /\ events' = events + 1

\* what gpuQueryPciInfo compares: the node's domain in full, the card's cut to a byte
Answers(c, n) ==
    /\ n \in Card
    /\ Domain[n] = Domain[c] % ByteRange /\ Slot[n] = Slot[c]

\* gpuQueryPciInfo works: the node is there and its uevent names a PCI slot
HasPciInfo(n) == n \in Card /\ node[n] # "none"

-----------------------------------------------------------------------------

Init ==
    /\ cardCount \in DisplayCounts
    /\ driver \in SUBSET (Card \ Bare) /\ node \in [Node -> {"none", "ok"}]
    /\ events = 0
    /\ pc = "enumerate" /\ cursor = 0
    /\ devs = [i \in 0 .. MaxCards - 1 |-> None] /\ deviceCount = 0 /\ freed = {}
    /\ gpuDevice = [c \in Card |-> None]
    /\ driverisLoaded = [c \in Card |-> FALSE]
    /\ caller = "enumerate" /\ target = None
    /\ unread = {} /\ devices = <<>> /\ ret = 0 /\ found = None
    /\ open = 0 /\ troubled = FALSE

\* how UpdateDeviceInfo comes back to InitDeviceContext or to deviceUpdate,
\* which both stop at an error
ReturnTo(who, ok) ==
    /\ pc' = IF ok THEN who ELSE "idle"
    /\ cursor' = IF ok THEN cursor + 1 ELSE 0

\* the variables of the search go out of scope
NoSearch ==
    /\ caller' = "enumerate" /\ target' = None /\ unread' = {} /\ devices' = <<>>
    /\ ret' = 0 /\ found' = None

\* DeviceGetDriverName, then opendir and the first readdir of the search: if there
\* is no node there may be no directory, and readdir is then called with NULL
BeginSearch(who, c) ==
    /\ caller' = who /\ target' = c
    /\ unread' = {n \in Node : node[n] # "none"}
    /\ devices' = <<>> /\ ret' = 0 /\ found' = None
    /\ pc' = "open" \/ (unread' = {} /\ pc' = "crashed")
    /\ UNCHANGED <<cursor, open, troubled, events, bindVars>>

\* DeviceGetDriverName fails; or the driver is unbound between its access and its
\* readlink, whose error is taken for a size, and an empty name has no last slash
UpdateDeviceInfo(who, c) ==
    \/ BeginSearch(who, c)
    \/ /\ Happens /\ ReturnTo(who, FALSE)
       /\ driverisLoaded' = [driverisLoaded EXCEPT ![c] = FALSE]
       /\ UNCHANGED <<gpuDevice, searchVars>>
    \/ Happens /\ pc' = "crashed" /\ UNCHANGED <<cursor, bindVars, searchVars>>

-----------------------------------------------------------------------------
(* InitDeviceContext: AllocDevice and InitDevice for each card.            *)

Full == deviceCount = MaxCards

AllocDevice(c) ==
    /\ ~Full
    /\ devs' = [devs EXCEPT ![deviceCount] = c]
    /\ deviceCount' = deviceCount + 1
    /\ UNCHANGED freed

\* the first error ends the enumeration: the later cards stay out of the table
EnumerationFails ==
    /\ pc = "enumerate" /\ cursor < cardCount /\ Happens
    /\ pc' = "idle" /\ cursor' = 0
    /\ \/ UNCHANGED tableVars                       \* no memory for the device
       \/ cursor \notin Foreign /\ AllocDevice(cursor)    \* its irq cannot be read
    /\ UNCHANGED <<envVars, bindVars, searchVars>>

\* a card of another vendor, or one without a kernel driver, is left at that
InitDevice ==
    /\ pc = "enumerate" /\ cursor < cardCount
    /\ AllocDevice(cursor)
    /\ IF cursor \in driver \ Foreign
       THEN UpdateDeviceInfo("enumerate", cursor)
       ELSE cursor' = cursor + 1 /\ UNCHANGED <<pc, events, bindVars, searchVars>>
    /\ UNCHANGED envVars

\* one card too many: its pointer is stored behind the table, over deviceCount
TableOverruns ==
    /\ pc = "enumerate" /\ cursor < cardCount /\ Full
    /\ pc' = "overrun"
    /\ UNCHANGED <<envVars, events, cursor, tableVars, bindVars, searchVars>>

Enumerated ==
    /\ pc = "enumerate" /\ cursor = cardCount
    /\ pc' = "idle" /\ cursor' = 0
    /\ UNCHANGED <<envVars, events, tableVars, bindVars, searchVars>>

-----------------------------------------------------------------------------
(* gpuGetDevices: every node readdir returns is opened and looked at.      *)

\* gpuOpenDevice finds a DRM node, and devices[] has no room for its descriptor
TooMany(n) == node[n] = "ok" /\ open < MaxOpen /\ Len(devices) = MaxCards

\* gpuOpenDevice: a node that is opened and then refused is not closed
OpenNode(n) ==
    /\ pc = "open" /\ n \in unread /\ ~TooMany(n)
    /\ unread' = unread \ {n}
    /\ IF node[n] \in {"none", "refused"} \/ open >= MaxOpen
       THEN ret' = 1 /\ UNCHANGED <<open, devices, troubled>>
       ELSE /\ open' = open + 1
            /\ IF node[n] = "odd"
               THEN ret' = 1 /\ troubled' = TRUE /\ UNCHANGED devices
               ELSE ret' = 0 /\ devices' = Append(devices, n) /\ UNCHANGED troubled
    /\ UNCHANGED <<envVars, events, pc, cursor, tableVars, bindVars, caller, target,
                   found>>

\* the descriptor is stored behind devices[], on the stack
SearchOverruns ==
    /\ pc = "open" /\ \E n \in unread : TooMany(n)
    /\ pc' = "overrun"
    /\ UNCHANGED <<envVars, events, cursor, tableVars, bindVars, searchVars>>

\* gpuGetDeviceByBus returns NULL in the middle: what is open stays open
SearchAborts ==
    /\ ReturnTo(caller, FALSE) /\ NoSearch
    /\ troubled' = (troubled \/ devices # <<>> \/ found # None)
    /\ UNCHANGED <<open, bindVars>>

\* the result is that of the last node that was opened
NodesRead ==
    /\ pc = "open" /\ unread = {}
    /\ IF ret = 0
       THEN \/ pc' = "match" /\ UNCHANGED <<cursor, events, bindVars, searchVars>>
            \/ SearchAborts /\ Happens                \* no memory for the array
       ELSE SearchAborts /\ UNCHANGED events
    /\ UNCHANGED <<envVars, tableVars>>

-----------------------------------------------------------------------------
(* gpuGetDeviceByBus: the nodes are compared and closed one after another. *)

\* the bug of a comparison that leaves out the domain
MatchBySlot(n) ==
    /\ pc = "match" /\ devices # <<>> /\ n = Head(devices) /\ HasPciInfo(n)
    /\ devices' = Tail(devices)
    /\ IF Slot[n] = Slot[target]
       THEN found' = n /\ open' = open
       ELSE found' = found /\ open' = open - 1
    /\ UNCHANGED <<envVars, events, pc, cursor, tableVars, bindVars, caller, target,
                   unread, ret, troubled>>
\* the bug of a search that does not close the nodes of other cards
MatchKeepsOpen(n) ==
    /\ pc = "match" /\ devices # <<>> /\ n = Head(devices) /\ HasPciInfo(n)
    /\ devices' = Tail(devices)
    /\ found' = IF Answers(target, n) THEN n ELSE found
    /\ UNCHANGED <<envVars, events, pc, cursor, tableVars, bindVars, caller, target,
                   unread, ret, open, troubled>>
MatchNode(n) ==
    /\ pc = "match" /\ devices # <<>> /\ n = Head(devices) /\ HasPciInfo(n)
    /\ devices' = Tail(devices)
    /\ IF Answers(target, n)
       THEN found' = n /\ open' = open
       ELSE found' = found /\ open' = open - 1
    /\ UNCHANGED <<envVars, events, pc, cursor, tableVars, bindVars, caller, target,
                   unread, ret, troubled>>

\* gpuQueryPciInfo fails
MatchFails ==
    /\ pc = "match" /\ devices # <<>> /\ ~HasPciInfo(Head(devices))
    /\ SearchAborts
    /\ UNCHANGED <<envVars, events, tableVars>>

\* all nodes compared: UpdateDeviceInfo ends with the node that was found or with
\* an error; after an update WindowInit draws the page, whose error ends the pass
Matched ==
    /\ pc = "match" /\ devices = <<>>
    /\ NoSearch
    /\ gpuDevice' = [gpuDevice EXCEPT ![target] = found]
    /\ driverisLoaded' = [driverisLoaded EXCEPT ![target] = @ \/ found # None]
    /\ \/ ReturnTo(caller, found # None) /\ UNCHANGED events
       \/ found # None /\ caller = "update" /\ Happens /\ ReturnTo(caller, FALSE)
    /\ UNCHANGED <<envVars, tableVars, open, troubled>>

-----------------------------------------------------------------------------
(* deviceUpdate, every 500 ms: the cards of the table that are not loaded. *)

\* the bug of a loop that starts behind the first card
StartBehindFirst ==
    /\ pc = "idle"
    /\ pc' = "update" /\ cursor' = 1
    /\ UNCHANGED <<envVars, events, tableVars, bindVars, searchVars>>
StartUpdate ==
    /\ pc = "idle"
    /\ pc' = "update" /\ cursor' = 0
    /\ UNCHANGED <<envVars, events, tableVars, bindVars, searchVars>>

\* the bug of a retry that does not leave out the cards that are loaded
WaitingAlways(i) == driver \cap {devs[i]} # {}
Waiting(i) == driver \cap {devs[i]} # {} /\ ~driverisLoaded[devs[i]]

\* the bug of a loop that looks at the entry behind the last one
SkipTooFar ==
    /\ pc = "update" /\ cursor <= deviceCount
    /\ cursor < deviceCount => ~Waiting(cursor)
    /\ cursor' = cursor + 1
    /\ UNCHANGED <<envVars, events, pc, tableVars, bindVars, searchVars>>
UpdateSkip ==
    /\ pc = "update" /\ cursor < deviceCount /\ ~Waiting(cursor)
    /\ cursor' = cursor + 1
    /\ UNCHANGED <<envVars, events, pc, tableVars, bindVars, searchVars>>

\* also a card of another vendor, which InitDevice left alone
UpdateRetry ==
    /\ pc = "update" /\ cursor < deviceCount /\ Waiting(cursor)
    /\ UpdateDeviceInfo("update", devs[cursor])
    /\ UNCHANGED <<envVars, tableVars>>

UpdateDone ==
    /\ pc = "update" /\ cursor = deviceCount
    /\ pc' = "idle" /\ cursor' = 0
    /\ UNCHANGED <<envVars, events, tableVars, bindVars, searchVars>>

-----------------------------------------------------------------------------
(* main() leaves its loop: FreeDeviceContext and FreeDevice.               *)

Exit ==
    /\ pc = "idle"
    /\ pc' = "free" /\ cursor' = 0
    /\ UNCHANGED <<envVars, events, tableVars, bindVars, searchVars>>

\* the bug of a release that leaves the device in the table
FreedStaysInTable ==
    /\ pc = "free" /\ cursor < deviceCount
    /\ freed' = freed \cup ({devs[cursor]} \ {None})
    /\ deviceCount' = deviceCount - 1 /\ cursor' = cursor + 1
    /\ UNCHANGED <<envVars, events, pc, devs, bindVars, searchVars>>
\* devs[deviceCount--] = NULL clears the entry behind the last one; in a full
\* table that is deviceCount itself, and which of the two stores is last is open
FreeDevice ==
    /\ pc = "free" /\ cursor < deviceCount
    /\ freed' = freed \cup ({devs[cursor]} \ {None})
    /\ devs' = [i \in DOMAIN devs |-> IF i \in {cursor, deviceCount} THEN None ELSE devs[i]]
    /\ deviceCount' \in IF deviceCount = MaxCards THEN {0, deviceCount - 1}
                                                  ELSE {deviceCount - 1}
    /\ cursor' = cursor + 1
    /\ UNCHANGED <<envVars, events, pc, bindVars, searchVars>>

Freed ==
    /\ pc = "free" /\ cursor >= deviceCount
    /\ pc' = "exited"
    /\ UNCHANGED <<envVars, events, cursor, tableVars, bindVars, searchVars>>

-----------------------------------------------------------------------------
(* The environment: drivers are bound, nodes appear, vanish and change.    *)

DriverAppears ==
    /\ pc \notin Stopped \cup {"free"} /\ Happens
    /\ \E c \in Card \ (driver \cup Bare) : driver' = driver \cup {c}
    /\ UNCHANGED <<cardCount, node, pc, cursor, tableVars, bindVars, searchVars>>

NodeChanges ==
    /\ pc \notin Stopped \cup {"free"} /\ Happens
    /\ \E n \in Node, s \in {"none", "refused", "odd", "ok"} :
          s # node[n] /\ node' = [node EXCEPT ![n] = s]
    /\ UNCHANGED <<cardCount, driver, pc, cursor, tableVars, bindVars, searchVars>>

Enumerate == EnumerationFails \/ InitDevice \/ TableOverruns \/ Enumerated
Search ==
    \/ \E n \in Node : OpenNode(n) \/ MatchNode(n)
    \/ SearchOverruns \/ NodesRead \/ MatchFails \/ Matched
Update == StartUpdate \/ UpdateSkip \/ UpdateRetry \/ UpdateDone
Free == Exit \/ FreeDevice \/ Freed

Next == Enumerate \/ Search \/ Update \/ Free \/ DriverAppears \/ NodeChanges

Spec == Init /\ [][Next]_vars

\* each call returns, and the loop of main() goes on updating while it runs
FairSpec == Spec /\ WF_vars(Enumerate) /\ WF_vars(Search) /\ WF_vars(Update)

-----------------------------------------------------------------------------
(* Properties                                                              *)

\* Every variable keeps the values the code can give it; the loops stay inside
\* the table, no more descriptors are held than the process may hold, and an array
\* is overrun only where there are more cards, or more different nodes were in the
\* directory, than it has room for: no card is entered and no node stored twice.
TypeOK ==
    /\ cardCount \in 0 .. CardCount /\ driver \subseteq Card
    /\ node \in [Node -> {"none", "refused", "odd", "ok"}]
    /\ events \in 0 .. MaxEvents
    /\ pc \in {"enumerate", "open", "match", "idle", "update", "free"} \cup Stopped
    /\ cursor \in 0 .. cardCount
    /\ devs \in [0 .. MaxCards - 1 -> Card \cup {None}]
    /\ deviceCount \in 0 .. cardCount /\ deviceCount <= MaxCards /\ freed \subseteq Card
    /\ gpuDevice \in [Card -> Node \cup {None}] /\ driverisLoaded \in [Card -> BOOLEAN]
    /\ caller \in {"enumerate", "update"} /\ target \in Card \cup {None}
    /\ unread \subseteq Node /\ devices \in Seq(Node) /\ ret \in {0, 1}
    /\ Len(devices) <= MaxCards /\ found \in Node \cup {None}
    /\ open \in 0 .. MaxOpen /\ troubled \in BOOLEAN
    /\ pc = "overrun" =>
          \/ cardCount > MaxCards
          \/ Cardinality(unread \cup {devices[i] : i \in DOMAIN devices}) > MaxCards

Loaded == {c \in Card : driverisLoaded[c]}

\* A card that counts as loaded is bound to the node of its own PCI function,
\* whatever other nodes were read, opened or removed during the search, as long
\* as its domain fits the byte the search is given.
BoundToOwn == \A c \in Loaded : Domain[c] < ByteRange => gpuDevice[c] = c

\* Unless a search ended early or met a node that is none, every descriptor
\* belongs to a loaded card or to the search that is under way: a search without
\* a result, or one of many nodes, leaves nothing open behind.
DescriptorsOwned ==
    ~troubled =>
        open = Cardinality(Loaded) + Len(devices) + (IF found = None THEN 0 ELSE 1)

\* FreeDeviceContext frees no device twice and leaves no freed one in the table,
\* although its count goes down as its index goes up, or is overwritten when the
\* first device of a full table is freed: at the end as many devices are freed as
\* are still counted, or one more.
FreeSafe ==
    /\ \A i \in DOMAIN devs : devs[i] \notin freed
    /\ pc = "exited" => Cardinality(freed) - deviceCount \in {0, 1}

\* Every card with a driver has a usable node and a domain that fits its byte; the
\* other nodes that are there are usable and of a card, and there is room for the
\* search to store all of them.
Healthy ==
    LET there == {n \in Node : node[n] # "none"}
    IN /\ \A c \in driver : c \in there /\ Domain[c] < ByteRange
       /\ \A n \in there : n \in Card /\ node[n] = "ok"
       /\ Cardinality(there) <= MaxCards /\ open + Cardinality(there) <= MaxOpen

\* Once everything is and stays usable, every card of the table that has a driver
\* is loaded while the program runs: the retry needs no key and no new driver.
RetryLoads ==
    <>[]Healthy =>
        <>[](\/ pc \in Stopped \cup {"free"}
             \/ \A i \in 0 .. deviceCount - 1 : devs[i] \in driver => devs[i] \in Loaded)

\* The table implements Binding: a card is bound once, to a node that answers to
\* the address the search was given, after its driver appeared, and stays bound.
Table == INSTANCE Binding WITH NoNode <- None, bound <- gpuDevice
Binds == Table!Spec

=============================================================================
