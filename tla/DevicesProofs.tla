--------------------------- MODULE DevicesProofs ---------------------------
(* Proofs about Devices, for any number of cards, nodes and descriptors.   *)
(* What carries them is that a search is always for the card of the loop   *)
(* index, which is not loaded, that a card is loaded exactly if it has a   *)
(* node, and that the nodes of a search are all different.  The last part  *)
(* is about how far a pass over the table is from its end.                 *)
EXTENDS Devices, FiniteSetTheorems, WellFoundedInduction, TLAPS

Searching == pc \in {"open", "match"}
Freeing == pc \in {"free", "exited"}

\* The table has each card at its own place unless it is freed, and a search is for the card of
\* the loop index.
TableInv ==
    /\ \A i \in DOMAIN devs : devs[i] \in {i, None} /\ devs[i] \notin freed
    /\ ~Freeing => freed = {} /\ \A i \in 0 .. deviceCount - 1 : devs[i] = i
    /\ pc = "enumerate" => deviceCount = cursor
    /\ Searching => /\ target = cursor /\ cursor < deviceCount /\ target \in driver
                    /\ caller = "enumerate" => deviceCount = cursor + 1

\* The nodes of a search are different, open, and read once.
SearchInv ==
    /\ pc \notin {"open", "match", "overrun"} => devices = <<>> /\ found = None
    /\ pc = "open" => found = None
    /\ open >= Len(devices)
    /\ \A i, j \in 1 .. Len(devices) : devices[i] = devices[j] => i = j
    /\ \A i \in 1 .. Len(devices) : devices[i] \notin unread /\ devices[i] # found
    /\ found # None => Answers(target, found)

\* A card is loaded exactly if it has a node, which answers to its address; the
\* cards that the enumeration has not reached, or is searching, are not loaded.
BindInv ==
    /\ \A c \in Card : gpuDevice[c] = None <=> ~driverisLoaded[c]
    /\ \A c \in Card : gpuDevice[c] # None => Answers(c, gpuDevice[c])
    /\ Searching => ~driverisLoaded[target]
    /\ pc = "enumerate" \/ (Searching /\ caller = "enumerate") =>
          \A c \in Card : c >= cursor => ~driverisLoaded[c]

\* The devices before the loop index are freed, those up to the count are not; the
\* table counts as full before the first device is freed only.
FreeInv ==
    Freeing =>
        /\ freed = 0 .. cursor - 1 /\ cursor <= deviceCount + 1
        /\ cursor + deviceCount <= MaxCards
        /\ \A i \in cursor .. deviceCount - 1 : devs[i] = i
        /\ pc = "exited" => cursor >= deviceCount

IInv == TypeOK /\ TableInv /\ SearchInv /\ BindInv /\ FreeInv

-----------------------------------------------------------------------------

LEMMA Constants ==
    /\ CardCount \in Nat /\ MaxCards \in Nat /\ MaxOpen \in Nat /\ MaxEvents \in Nat
    /\ Card \subseteq Nat /\ None \notin Node /\ None \notin Card
<1> QED
  BY CountAssumption, NodeAssumption, BoundAssumption DEF Card, Node

\* The cards of class 03 are the first ones.
LEMMA Displays ==
    ASSUME TypeOK
    PROVE  /\ cardCount \in Nat /\ cardCount <= CardCount /\ 0 \in 0 .. cardCount
           /\ \A c \in Nat : c < cardCount => c \in Card
<1> QED
  BY Constants DEF TypeOK, Card

LEMMA HappensType == ASSUME TypeOK, Happens PROVE events' \in 0 .. MaxEvents
<1> QED
  BY Constants DEF Happens, TypeOK

LEMMA InitInv == Init => IInv
<1> SUFFICES ASSUME Init PROVE IInv
  OBVIOUS
<1>1. TypeOK
  <2>1. /\ cardCount \in 0 .. CardCount /\ driver \subseteq Card
        /\ node \in [Node -> {"none", "refused", "odd", "ok"}]
        /\ devs \in [0 .. MaxCards - 1 -> Card \cup {None}]
        /\ gpuDevice \in [Card -> Node \cup {None}]
    BY CountAssumption DEF Init
  <2>2. driverisLoaded \in [Card -> BOOLEAN] /\ troubled \in BOOLEAN
    BY DEF Init
  <2>3. devices \in Seq(Node) /\ Len(devices) = 0
    BY DEF Init
  <2> QED
    BY <2>1, <2>2, <2>3, Constants DEF Init, TypeOK
<1>2. TableInv
  BY DEF Init, TableInv, Searching, Freeing
<1>3. SearchInv
  BY DEF Init, SearchInv, Searching
<1>4. BindInv
  <2>1. \A c \in Card : gpuDevice[c] = None /\ ~driverisLoaded[c]
    BY DEF Init
  <2> QED
    BY <2>1 DEF Init, BindInv, Searching
<1>5. FreeInv
  BY DEF Init, FreeInv, Freeing
<1> QED
  BY <1>1, <1>2, <1>3, <1>4, <1>5 DEF IInv

\* A step that leaves the search and the bindings alone, outside of a search.
LEMMA QuietStep ==
    ASSUME IInv, ~Searching, ~Searching', pc # "overrun", pc' # "enumerate",
           UNCHANGED <<driver, bindVars, searchVars>>
    PROVE  SearchInv' /\ BindInv'
<1>1. SearchInv'
  BY DEF IInv, SearchInv, Searching, searchVars
<1>2. BindInv'
  BY DEF IInv, BindInv, bindVars, Answers
<1> QED
  BY <1>1, <1>2

\* The same step keeps the type of what it leaves alone.
LEMMA QuietType ==
    ASSUME TypeOK, UNCHANGED <<cardCount, driver, node, bindVars, searchVars>>
    PROVE  /\ cardCount' \in 0 .. CardCount
           /\ driver' \subseteq Card /\ node' \in [Node -> {"none", "refused", "odd", "ok"}]
           /\ gpuDevice' \in [Card -> Node \cup {None}] /\ driverisLoaded' \in [Card -> BOOLEAN]
           /\ caller' \in {"enumerate", "update"} /\ target' \in Card \cup {None}
           /\ unread' \subseteq Node /\ devices' \in Seq(Node) /\ ret' \in {0, 1}
           /\ Len(devices') <= MaxCards
           /\ found' \in Node \cup {None} /\ open' \in 0 .. MaxOpen /\ troubled' \in BOOLEAN
<1> QED
  BY DEF TypeOK, bindVars, searchVars

\* AllocDevice puts the card of the enumeration at its own place.
LEMMA Allocated ==
    ASSUME IInv, pc = "enumerate", cursor < cardCount, AllocDevice(cursor)
    PROVE  /\ devs' \in [0 .. MaxCards - 1 -> Card \cup {None}]
           /\ deviceCount' = cursor + 1 /\ deviceCount' \in 0 .. cardCount
           /\ deviceCount' <= MaxCards
           /\ freed' = freed /\ freed = {}
           /\ \A i \in DOMAIN devs' : devs'[i] \in {i, None}
           /\ \A i \in 0 .. deviceCount' - 1 : devs'[i] = i
<1> USE DEF IInv, TypeOK, TableInv, AllocDevice
<1>0. cardCount \in Nat /\ cursor \in Card
  BY Displays
<1>1. deviceCount = cursor /\ cursor \in 0 .. MaxCards - 1 /\ cursor \in Card /\ freed = {}
  BY <1>0, Constants DEF Freeing, Full
<1>2. devs' = [devs EXCEPT ![cursor] = cursor] /\ devs' \in [0 .. MaxCards - 1 -> Card \cup {None}]
  BY <1>1
<1>3. \A i \in 0 .. MaxCards - 1 : devs'[i] = IF i = cursor THEN cursor ELSE devs[i]
  BY <1>1, <1>2
<1>4. deviceCount' = cursor + 1 /\ deviceCount' \in 0 .. cardCount /\ deviceCount' <= MaxCards
  BY <1>0, <1>1, Constants
<1>5. \A i \in 0 .. cursor - 1 : devs[i] = i
  BY <1>1 DEF Freeing
<1>6. \A i \in 0 .. deviceCount' - 1 : devs'[i] = i
  BY <1>1, <1>3, <1>4, <1>5, Constants
<1> QED
  BY <1>1, <1>2, <1>3, <1>4, <1>6

LEMMA EnumerationFailsInv == ASSUME IInv, EnumerationFails PROVE IInv'
<1> USE DEF EnumerationFails
<1>1. /\ devs' \in [0 .. MaxCards - 1 -> Card \cup {None}]
      /\ deviceCount' \in 0 .. cardCount /\ deviceCount' <= MaxCards /\ freed' = {}
      /\ \A i \in DOMAIN devs' : devs'[i] \in {i, None}
      /\ \A i \in 0 .. deviceCount' - 1 : devs'[i] = i
  <2>1. CASE UNCHANGED tableVars
    BY <2>1 DEF IInv, TypeOK, TableInv, Freeing, tableVars
  <2>2. CASE AllocDevice(cursor)
    BY <2>2, Allocated
  <2> QED
    BY <2>1, <2>2
<1>2. TypeOK'
  <2>1. TypeOK /\ UNCHANGED <<cardCount, driver, node, bindVars, searchVars>>
    BY DEF IInv, envVars
  <2>2. events' \in 0 .. MaxEvents /\ pc' = "idle" /\ cursor' = 0 /\ 0 \in 0 .. cardCount
    BY <2>1, HappensType, Displays
  <2>3. freed' \subseteq Card /\ cardCount' = cardCount
    BY <1>1, <2>1
  <2> QED
    BY <1>1, <2>1, <2>2, <2>3, QuietType DEF TypeOK
<1>3. TableInv'
  BY <1>1 DEF TableInv, Searching, Freeing
<1>4. SearchInv' /\ BindInv'
  BY QuietStep DEF Searching, envVars
<1>5. FreeInv'
  BY DEF FreeInv, Freeing
<1> QED
  BY <1>2, <1>3, <1>4, <1>5 DEF IInv

\* UpdateDeviceInfo of a card with a driver that is not loaded, at the loop index.
Starts(who, c) ==
    /\ UpdateDeviceInfo(who, c)
    /\ ~Searching /\ pc # "overrun" /\ c \in driver /\ ~driverisLoaded[c] /\ cardCount' = cardCount /\ driver' = driver /\ node' = node
    /\ who \in {"enumerate", "update"} /\ c = cursor /\ cursor < cardCount

LEMMA StartsInv ==
    ASSUME IInv, NEW who, NEW c \in Card, Starts(who, c)
    PROVE  /\ SearchInv' /\ events' \in 0 .. MaxEvents
           /\ gpuDevice' = gpuDevice /\ driverisLoaded' = driverisLoaded
           /\ caller' \in {"enumerate", "update"} /\ target' \in Card \cup {None}
           /\ unread' \subseteq Node /\ devices' \in Seq(Node) /\ ret' \in {0, 1}
           /\ Len(devices') <= MaxCards
           /\ found' \in Node \cup {None} /\ open' \in 0 .. MaxOpen /\ troubled' \in BOOLEAN
           /\ \/ pc' = "open" /\ cursor' = cursor /\ caller' = who /\ target' = c
              \/ pc' = "crashed" /\ cursor' = cursor
              \/ pc' = "idle" /\ cursor' = 0
<1> USE DEF Starts, IInv, Searching
<1>1. CASE BeginSearch(who, c)
  <2>1. /\ caller' = who /\ target' = c /\ unread' \subseteq Node
        /\ devices' = <<>> /\ ret' = 0 /\ found' = None
        /\ pc' \in {"open", "crashed"} /\ cursor' = cursor
        /\ UNCHANGED <<open, troubled, events, gpuDevice, driverisLoaded>>
    BY <1>1 DEF BeginSearch, bindVars
  <2>2. devices' \in Seq(Node) /\ Len(devices') = 0 /\ Len(devices') <= MaxCards
    BY <2>1, Constants
  <2>3. SearchInv'
    BY <2>1, <2>2, Constants DEF SearchInv, TypeOK
  <2>4. events' \in 0 .. MaxEvents /\ open' \in 0 .. MaxOpen /\ troubled' \in BOOLEAN
    BY <2>1 DEF TypeOK
  <2> QED
    BY <2>1, <2>2, <2>3, <2>4
<1>2. CASE ~BeginSearch(who, c) /\ pc' # "crashed"
  <2>1. /\ Happens /\ pc' = "idle" /\ cursor' = 0
        /\ driverisLoaded' = [driverisLoaded EXCEPT ![c] = FALSE]
        /\ gpuDevice' = gpuDevice /\ UNCHANGED searchVars
    BY <1>2 DEF UpdateDeviceInfo, ReturnTo
  <2>2. driverisLoaded' = driverisLoaded
    <3>1. driverisLoaded[c] = FALSE
      BY DEF TypeOK
    <3> QED
      BY <2>1, <3>1 DEF TypeOK
  <2>3. events' \in 0 .. MaxEvents
    BY <2>1, HappensType
  <2>4. SearchInv'
    BY <2>1, <2>2, QuietStep DEF bindVars
  <2> QED
    BY <2>1, <2>2, <2>3, <2>4 DEF searchVars, TypeOK
<1>3. CASE ~BeginSearch(who, c) /\ pc' = "crashed"
  <2>1. Happens /\ UNCHANGED <<cursor, bindVars, searchVars>>
    BY <1>3 DEF UpdateDeviceInfo, ReturnTo
  <2>2. events' \in 0 .. MaxEvents
    BY <2>1, HappensType
  <2>3. SearchInv'
    BY <1>3, <2>1, QuietStep
  <2> QED
    BY <1>3, <2>1, <2>2, <2>3 DEF searchVars, bindVars, TypeOK
<1> QED
  BY <1>1, <1>2, <1>3

LEMMA InitDeviceInv == ASSUME IInv, InitDevice PROVE IInv'
<1>1. /\ pc = "enumerate" /\ cursor < cardCount /\ AllocDevice(cursor) /\ UNCHANGED envVars
      /\ cursor \in Card /\ ~driverisLoaded[cursor] /\ ~Searching /\ ~Freeing
      /\ cardCount' = cardCount /\ cardCount \in Nat /\ 0 \in 0 .. cardCount
  <2>1. pc = "enumerate" /\ cursor < cardCount /\ AllocDevice(cursor) /\ UNCHANGED envVars
    BY DEF InitDevice
  <2>2. cursor \in Card /\ cardCount \in Nat /\ 0 \in 0 .. cardCount
    BY <2>1, Displays DEF IInv, TypeOK
  <2> QED
    BY <2>1, <2>2 DEF Searching, Freeing, IInv, TypeOK, BindInv, envVars
<1>2. /\ devs' \in [0 .. MaxCards - 1 -> Card \cup {None}]
      /\ deviceCount' = cursor + 1 /\ deviceCount' \in 0 .. cardCount
      /\ deviceCount' <= MaxCards
      /\ freed' = {}
      /\ \A i \in DOMAIN devs' : devs'[i] \in {i, None}
      /\ \A i \in 0 .. deviceCount' - 1 : devs'[i] = i
  BY <1>1, Allocated
<1>3. CASE cursor \in driver \ Foreign
  <2>1. Starts("enumerate", cursor)
    BY <1>1, <1>3 DEF InitDevice, Starts, envVars
  <2>2. /\ SearchInv' /\ events' \in 0 .. MaxEvents
        /\ gpuDevice' = gpuDevice /\ driverisLoaded' = driverisLoaded
        /\ caller' \in {"enumerate", "update"} /\ target' \in Card \cup {None}
        /\ unread' \subseteq Node /\ devices' \in Seq(Node) /\ ret' \in {0, 1}
        /\ Len(devices') <= MaxCards
        /\ found' \in Node \cup {None} /\ open' \in 0 .. MaxOpen /\ troubled' \in BOOLEAN
        /\ \/ pc' = "open" /\ cursor' = cursor /\ caller' = "enumerate" /\ target' = cursor
           \/ pc' = "crashed" /\ cursor' = cursor
           \/ pc' = "idle" /\ cursor' = 0
    BY <1>1, <2>1, StartsInv
  <2>3. TypeOK'
    <3>1. /\ cardCount' \in 0 .. CardCount /\ driver' \subseteq Card
          /\ node' \in [Node -> {"none", "refused", "odd", "ok"}]
          /\ gpuDevice' \in [Card -> Node \cup {None}] /\ driverisLoaded' \in [Card -> BOOLEAN]
      BY <1>1, <2>2 DEF IInv, TypeOK, envVars
    <3>2. pc' \in {"open", "crashed", "idle"} /\ cursor' \in 0 .. cardCount
      BY <1>1, <2>2, Constants DEF IInv, TypeOK
    <3>3. cursor' \in 0 .. cardCount' /\ deviceCount' \in 0 .. cardCount' /\ freed' \subseteq Card
      BY <1>1, <1>2, <3>2
    <3> QED
      BY <1>2, <2>2, <3>1, <3>2, <3>3 DEF TypeOK, Stopped
  <2>4. TableInv'
    BY <1>1, <1>2, <1>3, <2>2, Constants DEF TableInv, Searching, Freeing, envVars, IInv, TypeOK
  <2>5. BindInv'
    BY <1>1, <2>2 DEF BindInv, Searching, IInv, Answers
  <2>6. FreeInv'
    BY <2>2 DEF FreeInv, Freeing
  <2> QED
    BY <2>2, <2>3, <2>4, <2>5, <2>6 DEF IInv
<1>4. CASE cursor \notin driver \ Foreign
  <2>1. cursor' = cursor + 1 /\ UNCHANGED <<pc, events, bindVars, searchVars>>
    BY <1>4 DEF InitDevice
  <2>2. TypeOK'
    BY <1>1, <1>2, <2>1, QuietType, Constants DEF IInv, TypeOK, envVars
  <2>3. TableInv'
    BY <1>1, <1>2, <2>1 DEF TableInv, Searching, Freeing
  <2>4. SearchInv'
    BY <1>1, <2>1 DEF IInv, SearchInv, Searching, searchVars
  <2>5. BindInv'
    <3>1. \A c \in Card : c >= cursor + 1 => c >= cursor
      BY <1>1, Constants DEF IInv, TypeOK
    <3> QED
      BY <1>1, <2>1, <3>1 DEF IInv, BindInv, Searching, bindVars, Answers
  <2>6. FreeInv'
    BY <1>1, <2>1 DEF FreeInv, Freeing
  <2> QED
    BY <2>2, <2>3, <2>4, <2>5, <2>6 DEF IInv
<1> QED
  BY <1>3, <1>4

LEMMA EnumeratedInv == ASSUME IInv, Enumerated PROVE IInv'
<1> USE DEF Enumerated
<1>1. UNCHANGED <<cardCount, driver, node, bindVars, searchVars, events, devs, deviceCount, freed>>
      /\ pc = "enumerate" /\ pc' = "idle" /\ cursor' = 0 /\ 0 \in 0 .. cardCount
  BY Displays DEF envVars, tableVars, IInv
<1>2. TypeOK'
  <2>1. TypeOK
    BY DEF IInv
  <2> QED
    BY <1>1, <2>1, QuietType DEF TypeOK
<1>3. TableInv'
  BY <1>1 DEF IInv, TableInv, Searching, Freeing
<1>4. SearchInv' /\ BindInv'
  BY <1>1, QuietStep DEF Searching
<1>5. FreeInv'
  BY <1>1 DEF FreeInv, Freeing
<1> QED
  BY <1>2, <1>3, <1>4, <1>5 DEF IInv

\* The table is overrun only by more cards than it has room for.
LEMMA TableOverrunsInv == ASSUME IInv, TableOverruns PROVE IInv'
<1>1. /\ UNCHANGED <<cardCount, driver, node, bindVars, searchVars, events, cursor, devs,
                     deviceCount, freed>>
      /\ pc = "enumerate" /\ pc' = "overrun" /\ TypeOK
  BY DEF TableOverruns, envVars, tableVars, IInv
<1>2. cardCount > MaxCards
  <2>1. cursor < cardCount /\ deviceCount = MaxCards /\ deviceCount = cursor
    BY DEF TableOverruns, Full, IInv, TableInv
  <2> QED
    BY <1>1, <2>1, Displays, Constants
<1>3. TypeOK'
  BY <1>1, <1>2, QuietType DEF TypeOK, Stopped
<1>4. TableInv'
  BY <1>1 DEF IInv, TableInv, Searching, Freeing
<1>5. SearchInv' /\ BindInv'
  BY <1>1, QuietStep DEF Searching
<1>6. FreeInv'
  BY <1>1 DEF FreeInv, Freeing
<1> QED
  BY <1>3, <1>4, <1>5, <1>6 DEF IInv

-----------------------------------------------------------------------------
(* The search                                                              *)

\* What a step of the search that does not end it leaves alone.
Goes ==
    /\ pc' = pc \/ (pc' = "match" /\ unread = {})
    /\ UNCHANGED <<cardCount, driver, node, cursor, devs, deviceCount, freed, bindVars, caller, target>>

LEMMA GoesInv ==
    ASSUME IInv, Searching, Searching', Goes
    PROVE  TableInv' /\ BindInv' /\ FreeInv'
<1>1. TableInv'
  BY DEF Goes, IInv, TableInv, Searching, Freeing
<1>2. BindInv'
  BY DEF Goes, IInv, BindInv, Searching, bindVars, Answers
<1>3. FreeInv'
  BY DEF FreeInv, Freeing, Searching
<1> QED
  BY <1>1, <1>2, <1>3

LEMMA OpenNodeInv == ASSUME IInv, NEW n \in Node, OpenNode(n) PROVE IInv'
<1>1. /\ pc = "open" /\ pc' = "open" /\ n \in unread /\ unread' = unread \ {n}
      /\ UNCHANGED <<cardCount, driver, node, events, cursor, devs, deviceCount, freed, bindVars,
                     caller, target, found>>
  BY DEF OpenNode, envVars, tableVars
<1>2. TypeOK /\ SearchInv /\ devices \in Seq(Node) /\ found = None
  BY <1>1 DEF IInv, TypeOK, SearchInv
<1>3. /\ ret' \in {0, 1}
      /\ \/ UNCHANGED <<open, devices, troubled>>
         \/ /\ open < MaxOpen /\ open' = open + 1 /\ troubled' = TRUE /\ devices' = devices
         \/ /\ open < MaxOpen /\ open' = open + 1 /\ troubled' = troubled
            /\ Len(devices) < MaxCards /\ devices' = Append(devices, n)
  <2>1. CASE node[n] \in {"none", "refused"} \/ open >= MaxOpen
    BY <2>1 DEF OpenNode
  <2>2. CASE ~(node[n] \in {"none", "refused"} \/ open >= MaxOpen)
    <3>1. open < MaxOpen
      BY <1>2, <2>2, Constants DEF TypeOK
    <3>2. CASE node[n] = "odd"
      BY <2>2, <3>1, <3>2 DEF OpenNode
    <3>3. CASE node[n] # "odd"
      <4>1. node[n] = "ok"
        BY <1>2, <2>2, <3>3 DEF TypeOK
      <4>2. Len(devices) # MaxCards /\ Len(devices) <= MaxCards /\ Len(devices) \in Nat
        BY <1>2, <3>1, <4>1 DEF OpenNode, TooMany, TypeOK
      <4>3. Len(devices) < MaxCards
        BY <4>2, Constants
      <4> QED
        BY <2>2, <3>1, <3>3, <4>3 DEF OpenNode
    <3> QED
      BY <3>2, <3>3
  <2> QED
    BY <2>1, <2>2
<1>4. devices' \in Seq(Node) /\ Len(devices') <= MaxCards
      /\ open' \in 0 .. MaxOpen /\ troubled' \in BOOLEAN
  <2>1. open \in 0 .. MaxOpen /\ MaxOpen \in Nat /\ troubled \in BOOLEAN
    BY <1>2, Constants DEF TypeOK
  <2>2. Append(devices, n) \in Seq(Node)
    BY <1>2
  <2>3. open' \in 0 .. MaxOpen
    BY <1>3, <2>1
  <2>4. devices' \in Seq(Node) /\ troubled' \in BOOLEAN
    BY <1>2, <1>3, <2>1, <2>2, Zenon
  <2>5. Len(devices') <= MaxCards
    <3>1. CASE devices' = devices
      BY <1>2, <3>1 DEF TypeOK
    <3>2. CASE Len(devices) < MaxCards /\ devices' = Append(devices, n)
      <4>1. Len(devices') = Len(devices) + 1 /\ Len(devices) \in Nat
        BY <1>2, <3>2
      <4> QED
        BY <3>2, <4>1, Constants
    <3> QED
      BY <1>3, <3>1, <3>2
  <2> QED
    BY <2>3, <2>4, <2>5
<1>5. TypeOK'
  BY <1>1, <1>2, <1>3, <1>4 DEF TypeOK, bindVars
<1>6. SearchInv'
  <2>1. CASE devices' = devices
    BY <1>1, <1>2, <1>3, <1>4, <2>1, Constants DEF SearchInv, Searching, Answers, TypeOK
  <2>2. CASE devices' = Append(devices, n) /\ open' = open + 1
    <3>1. /\ Len(devices) \in Nat /\ Len(devices') = Len(devices) + 1
          /\ \A i \in 1 .. Len(devices) : devices'[i] = devices[i]
          /\ devices'[Len(devices) + 1] = n
      BY <1>2, <2>2
    <3>2. \A i \in 1 .. Len(devices') : i \in 1 .. Len(devices) \/ i = Len(devices) + 1
      BY <3>1
    <3>3. \A i \in 1 .. Len(devices) : devices[i] # n /\ devices[i] \notin unread
      BY <1>1, <1>2 DEF SearchInv
    <3>4. \A i, j \in 1 .. Len(devices') : devices'[i] = devices'[j] => i = j
      BY <1>2, <3>1, <3>2, <3>3 DEF SearchInv
    <3>5. \A i \in 1 .. Len(devices') : devices'[i] \notin unread' /\ devices'[i] # found'
      BY <1>1, <1>2, <3>1, <3>2, <3>3, Constants DEF SearchInv
    <3>6. open' >= Len(devices')
      BY <1>2, <2>2, <3>1, Constants DEF SearchInv, TypeOK
    <3> QED
      BY <1>1, <1>2, <3>4, <3>5, <3>6 DEF SearchInv, Searching
  <2> QED
    BY <1>3, <2>1, <2>2
<1>7. TableInv' /\ BindInv' /\ FreeInv'
  BY <1>1, GoesInv DEF Goes, Searching
<1> QED
  BY <1>5, <1>6, <1>7 DEF IInv

\* There are finitely many nodes.
LEMMA NodesFinite ==
    ASSUME NEW S \in SUBSET Node
    PROVE  IsFiniteSet(S) /\ Cardinality(S) \in Nat
<1>1. IsFiniteSet(Card)
  BY CountAssumption, FS_Interval DEF Card
<1>2. IsFiniteSet(Node)
  BY <1>1, NodeAssumption, FS_Subset, FS_Union DEF Node
<1> QED
  BY <1>2, FS_Subset, FS_CardinalityType

\* The nodes of a search that was read once each, and one that is still to be read.
LEMMA Different ==
    ASSUME NEW s \in Seq(Node), NEW S \in SUBSET Node, NEW n \in S, IsFiniteSet(S),
           \A i, j \in 1 .. Len(s) : s[i] = s[j] => i = j,
           \A i \in 1 .. Len(s) : s[i] \notin S
    PROVE  Cardinality(S \cup {s[i] : i \in DOMAIN s}) > Len(s)
<1> DEFINE k == Len(s)
           R == {s[i] : i \in 1 .. k}
           T == S \cup R
           f == [i \in 1 .. k + 1 |-> IF i = k + 1 THEN n ELSE s[i]]
<1>1. k \in Nat /\ DOMAIN s = 1 .. k
  OBVIOUS
<1>2. IsFiniteSet(1 .. k) /\ IsFiniteSet(1 .. k + 1) /\ Cardinality(1 .. k + 1) = k + 1
  BY <1>1, FS_Interval
<1>3. IsFiniteSet(R)
  <2> DEFINE g == [i \in 1 .. k |-> s[i]]
  <2>1. g \in Surjection(1 .. k, R)
    BY DEF Surjection
  <2> HIDE DEF g
  <2> QED
    BY <1>2, <2>1, FS_Surjection
<1>4. IsFiniteSet(T) /\ Cardinality(T) \in Nat
  BY <1>3, FS_Union, FS_CardinalityType
<1>5. f \in [1 .. k + 1 -> T]
  BY <1>1
<1>6. \A x, y \in 1 .. k + 1 : f[x] = f[y] => x = y
  <2>1. \A x \in 1 .. k + 1 : x = k + 1 \/ x \in 1 .. k
    BY <1>1
  <2>2. f[k + 1] = n /\ \A x \in 1 .. k : f[x] = s[x]
    BY <1>1
  <2> HIDE DEF f
  <2>3. \A x \in 1 .. k : s[x] # n
    OBVIOUS
  <2> QED
    BY <2>1, <2>2, <2>3
<1> HIDE DEF f, T
<1>7. ~(Cardinality(T) < k + 1)
  <2>1. SUFFICES ASSUME Cardinality(T) < k + 1
                 PROVE  FALSE
    OBVIOUS
  <2>2. \E x, y \in 1 .. k + 1 : x # y /\ f[x] = f[y]
    BY <1>2, <1>4, <1>5, <2>1, FS_PigeonHole
  <2> QED
    BY <1>6, <2>2
<1> QED
  <2>1. R = {s[i] : i \in DOMAIN s}
    BY <1>1
  <2>2. Cardinality(T) > k
    BY <1>1, <1>4, <1>7
  <2> QED
    BY <2>1, <2>2 DEF T

\* The array of the search is overrun only by more nodes than it has room for.
LEMMA SearchOverrunsInv == ASSUME IInv, SearchOverruns PROVE IInv'
<1>1. /\ UNCHANGED <<cardCount, driver, node, bindVars, searchVars, events, cursor, devs,
                     deviceCount, freed>>
      /\ pc = "open" /\ pc' = "overrun" /\ TypeOK
      /\ UNCHANGED <<unread, devices, found, open, gpuDevice, driverisLoaded>>
  BY DEF SearchOverruns, envVars, tableVars, searchVars, bindVars, IInv
<1>2. Cardinality(unread \cup {devices[i] : i \in DOMAIN devices}) > MaxCards
  <2>1. PICK n \in unread : Len(devices) = MaxCards
    BY DEF SearchOverruns, TooMany
  <2>2. devices \in Seq(Node) /\ unread \in SUBSET Node /\ IsFiniteSet(unread)
    BY <1>1, NodesFinite DEF TypeOK
  <2>3. /\ \A i, j \in 1 .. Len(devices) : devices[i] = devices[j] => i = j
        /\ \A i \in 1 .. Len(devices) : devices[i] \notin unread
    BY DEF IInv, SearchInv
  <2>4. Cardinality(unread \cup {devices[i] : i \in DOMAIN devices}) > Len(devices)
    BY <2>1, <2>2, <2>3, Different
  <2> QED
    BY <2>1, <2>4
<1>3. TypeOK'
  BY <1>1, <1>2, QuietType DEF TypeOK, Stopped
<1>4. TableInv'
  BY <1>1 DEF IInv, TableInv, Searching, Freeing
<1>5. SearchInv'
  BY <1>1 DEF IInv, SearchInv, searchVars, Searching, Answers
<1>6. BindInv'
  BY <1>1 DEF IInv, BindInv, Searching, Answers
<1>7. FreeInv'
  BY <1>1 DEF FreeInv, Freeing
<1> QED
  BY <1>3, <1>4, <1>5, <1>6, <1>7 DEF IInv

\* Comparing the first node: the rest keeps what it had.
LEMMA Rest ==
    ASSUME NEW s \in Seq(Node), s # <<>>
    PROVE  /\ Tail(s) \in Seq(Node) /\ Len(Tail(s)) = Len(s) - 1 /\ Len(s) \in Nat /\ Len(s) >= 1
           /\ Head(s) = s[1] /\ s[1] \in Node
           /\ \A i \in 1 .. Len(Tail(s)) : Tail(s)[i] = s[i + 1] /\ i + 1 \in 1 .. Len(s)
<1>1. Len(s) \in Nat /\ Len(s) >= 1
  OBVIOUS
<1> QED
  BY <1>1

LEMMA MatchNodeInv == ASSUME IInv, NEW n \in Node, MatchNode(n) PROVE IInv'
<1>1. /\ pc = "match" /\ pc' = "match" /\ devices # <<>> /\ n = Head(devices)
      /\ devices' = Tail(devices)
      /\ UNCHANGED <<cardCount, driver, node, events, cursor, devs, deviceCount, freed, bindVars,
                     caller, target, unread, ret, troubled>>
      /\ \/ Answers(target, n) /\ found' = n /\ open' = open
         \/ found' = found /\ open' = open - 1
  BY DEF MatchNode, envVars, tableVars
<1>2. TypeOK /\ SearchInv /\ devices \in Seq(Node) /\ open \in 0 .. MaxOpen /\ MaxOpen \in Nat
  BY Constants DEF IInv, TypeOK
<1>3. /\ devices' \in Seq(Node) /\ Len(devices') = Len(devices) - 1 /\ Len(devices) \in Nat
      /\ Len(devices) >= 1 /\ n = devices[1]
      /\ \A i \in 1 .. Len(devices') : devices'[i] = devices[i + 1] /\ i + 1 \in 1 .. Len(devices)
  BY <1>1, <1>2, Rest
<1>4. /\ open >= Len(devices) /\ open' \in 0 .. MaxOpen /\ open' >= Len(devices')
      /\ Len(devices') <= MaxCards
  BY <1>1, <1>2, <1>3, Constants DEF SearchInv, TypeOK
<1>5. TypeOK'
  <2>1. found' \in Node \cup {None}
    BY <1>1, <1>2 DEF TypeOK
  <2> QED
    BY <1>1, <1>2, <1>3, <1>4, <2>1 DEF TypeOK, bindVars
<1>6. SearchInv'
  <2>1. \A i, j \in 1 .. Len(devices') : devices'[i] = devices'[j] => i = j
    <3>1. SUFFICES ASSUME NEW i \in 1 .. Len(devices'), NEW j \in 1 .. Len(devices'),
                          devices[i + 1] = devices[j + 1]
                   PROVE  i = j
      BY <1>3
    <3>2. i + 1 = j + 1
      BY <1>2, <1>3, <3>1 DEF SearchInv
    <3> QED
      BY <3>2
  <2>2. \A i \in 1 .. Len(devices') : devices'[i] \notin unread' /\ devices'[i] # found'
    <3>1. SUFFICES ASSUME NEW i \in 1 .. Len(devices')
                   PROVE  devices[i + 1] \notin unread /\ devices[i + 1] # found'
      BY <1>1, <1>3
    <3>2. i + 1 \in 1 .. Len(devices) /\ 1 \in 1 .. Len(devices) /\ i + 1 # 1
      BY <1>3
    <3>3. devices[i + 1] # n /\ devices[i + 1] # found /\ devices[i + 1] \notin unread
      BY <1>2, <1>3, <3>2 DEF SearchInv
    <3> QED
      BY <1>1, <3>3
  <2>3. found' # None => Answers(target, found')
    BY <1>1, <1>2 DEF SearchInv
  <2> QED
    BY <1>1, <1>4, <2>1, <2>2, <2>3 DEF SearchInv, Searching, Answers
<1>7. TableInv' /\ BindInv' /\ FreeInv'
  BY <1>1, GoesInv DEF Goes, Searching
<1> QED
  BY <1>5, <1>6, <1>7 DEF IInv

\* gpuGetDeviceByBus gives up: the loop it was called from ends.
LEMMA SearchAbortsInv ==
    ASSUME IInv, Searching, SearchAborts, events' \in 0 .. MaxEvents,
           UNCHANGED <<envVars, tableVars>>
    PROVE  IInv'
<1>1. /\ pc' = "idle" /\ cursor' = 0
      /\ caller' = "enumerate" /\ target' = None /\ unread' = {} /\ devices' = <<>>
      /\ ret' = 0 /\ found' = None
      /\ troubled' = (troubled \/ devices # <<>> \/ found # None)
      /\ UNCHANGED <<open, gpuDevice, driverisLoaded, driver, node, devs, deviceCount, freed>>
  BY DEF SearchAborts, ReturnTo, NoSearch, envVars, tableVars, bindVars
<1>2. TypeOK'
  <2>1. TypeOK /\ 0 \in 0 .. cardCount /\ cardCount' = cardCount
    BY Displays DEF IInv, envVars
  <2>2. devices' \in Seq(Node) /\ Len(devices') <= MaxCards /\ troubled' \in BOOLEAN
    BY <1>1, <2>1, Constants DEF TypeOK
  <2> QED
    BY <1>1, <2>1, <2>2 DEF TypeOK
<1>3. TableInv'
  BY <1>1 DEF IInv, TableInv, Searching, Freeing
<1>4. SearchInv'
  <2>1. Len(devices') = 0 /\ open' \in Nat
    BY <1>1, Constants DEF IInv, TypeOK
  <2> QED
    BY <1>1, <2>1 DEF SearchInv
<1>5. BindInv'
  BY <1>1 DEF IInv, BindInv, Searching, Answers
<1>6. FreeInv'
  BY <1>1 DEF FreeInv, Freeing
<1> QED
  BY <1>2, <1>3, <1>4, <1>5, <1>6 DEF IInv

LEMMA NodesReadInv == ASSUME IInv, NodesRead PROVE IInv'
<1>0. pc = "open" /\ unread = {} /\ UNCHANGED <<envVars, tableVars>> /\ TypeOK /\ Searching
  BY DEF NodesRead, IInv, Searching
<1>1. CASE pc' = "match" /\ UNCHANGED <<cursor, events, bindVars, searchVars>>
  <2>1. TypeOK'
    BY <1>0, <1>1, QuietType DEF TypeOK, envVars, tableVars
  <2>2. SearchInv'
    BY <1>0, <1>1 DEF IInv, SearchInv, Searching, searchVars, Answers
  <2>3. TableInv' /\ BindInv' /\ FreeInv'
    BY <1>0, <1>1, GoesInv DEF Goes, Searching, envVars, tableVars, searchVars
  <2> QED
    BY <2>1, <2>2, <2>3 DEF IInv
<1>2. CASE SearchAborts /\ Happens
  BY <1>0, <1>2, HappensType, SearchAbortsInv
<1>3. CASE SearchAborts /\ UNCHANGED events
  BY <1>0, <1>3, SearchAbortsInv DEF TypeOK
<1> QED
  BY <1>1, <1>2, <1>3 DEF NodesRead

LEMMA MatchFailsInv == ASSUME IInv, MatchFails PROVE IInv'
<1>1. /\ Searching /\ SearchAborts /\ UNCHANGED <<envVars, tableVars>>
      /\ events' \in 0 .. MaxEvents
  BY DEF MatchFails, Searching, IInv, TypeOK
<1> QED
  BY <1>1, SearchAbortsInv

LEMMA MatchedInv == ASSUME IInv, Matched PROVE IInv'
<1>1. /\ pc = "match" /\ Searching /\ target = cursor /\ target \in driver /\ target \in Card
      /\ cursor < deviceCount /\ deviceCount \in 0 .. cardCount /\ cursor \in 0 .. cardCount
      /\ caller = "enumerate" => deviceCount = cursor + 1
      /\ caller \in {"enumerate", "update"} /\ ~driverisLoaded[target]
      /\ found \in Node \cup {None} /\ cardCount \in Nat /\ cardCount' = cardCount
  BY Displays DEF envVars, Matched, Searching, IInv, TypeOK, TableInv, BindInv
<1>2. /\ caller' = "enumerate" /\ target' = None /\ unread' = {} /\ devices' = <<>>
      /\ ret' = 0 /\ found' = None
      /\ UNCHANGED <<open, troubled, driver, node, devs, deviceCount, freed>>
      /\ gpuDevice' = [gpuDevice EXCEPT ![target] = found]
      /\ driverisLoaded' = [driverisLoaded EXCEPT ![target] = @ \/ found # None]
  BY DEF Matched, NoSearch, envVars, tableVars
<1>3. \/ pc' = caller /\ cursor' = cursor + 1 /\ found # None
      \/ pc' = "idle" /\ cursor' = 0
  <2>1. CASE ReturnTo(caller, found # None)
    BY <2>1 DEF ReturnTo
  <2>2. CASE ReturnTo(caller, FALSE)
    BY <2>2 DEF ReturnTo
  <2> QED
    BY <2>1, <2>2 DEF Matched
<1>4. /\ events' \in 0 .. MaxEvents /\ pc' \in {"enumerate", "update", "idle"}
      /\ cursor' \in 0 .. cardCount
  <2>1. events' = events \/ Happens
    BY DEF Matched
  <2>2. events' \in 0 .. MaxEvents
    BY <2>1, HappensType DEF IInv, TypeOK
  <2> QED
    BY <1>1, <1>3, <2>2
<1>5. \A c \in Card : /\ c # target => /\ gpuDevice'[c] = gpuDevice[c]
                                       /\ driverisLoaded'[c] = driverisLoaded[c]
                      /\ c = target => /\ gpuDevice'[c] = found
                                       /\ driverisLoaded'[c] <=> found # None
  <2>1. gpuDevice \in [Card -> Node \cup {None}] /\ driverisLoaded \in [Card -> BOOLEAN]
    BY DEF IInv, TypeOK
  <2> QED
    BY <1>1, <1>2, <2>1
<1>6. TypeOK'
  <2>1. gpuDevice' \in [Card -> Node \cup {None}] /\ driverisLoaded' \in [Card -> BOOLEAN]
    <3>1. gpuDevice \in [Card -> Node \cup {None}] /\ driverisLoaded \in [Card -> BOOLEAN]
      BY DEF IInv, TypeOK
    <3>2. (driverisLoaded[target] \/ found # None) \in BOOLEAN
      BY <1>1, <3>1
    <3> QED
      BY <1>1, <1>2, <3>1, <3>2
  <2>2. devices' \in Seq(Node) /\ Len(devices') <= MaxCards
    BY <1>2, Constants
  <2>3. TypeOK
    BY DEF IInv
  <2>4. cursor' \in 0 .. cardCount' /\ cardCount' = cardCount
    BY <1>1, <1>4
  <2> QED
    BY <1>2, <1>4, <2>1, <2>2, <2>3, <2>4 DEF TypeOK
<1>7. TableInv'
  BY <1>1, <1>2, <1>3 DEF IInv, TableInv, Searching, Freeing
<1>8. SearchInv'
  <2>1. Len(devices') = 0 /\ open' \in Nat
    BY <1>2, Constants DEF IInv, TypeOK
  <2> QED
    BY <1>2, <2>1 DEF SearchInv
<1>9. BindInv'
  <2>1. \A c \in Card : gpuDevice'[c] = None <=> ~driverisLoaded'[c]
    BY <1>5 DEF IInv, BindInv
  <2>2. \A c \in Card : gpuDevice'[c] # None => Answers(c, gpuDevice'[c])
    BY <1>5 DEF IInv, BindInv, SearchInv
  <2>3. ~Searching'
    BY <1>4 DEF Searching
  <2>4. ASSUME pc' = "enumerate", NEW c \in Card, c >= cursor' PROVE ~driverisLoaded'[c]
    <3>1. caller = "enumerate" /\ cursor' = cursor + 1 /\ c \in Nat
      BY <1>1, <1>3, <2>4, Constants
    <3>2. c >= cursor /\ c # target
      BY <1>1, <2>4, <3>1
    <3> QED
      BY <1>1, <1>5, <3>1, <3>2 DEF IInv, BindInv
  <2> QED
    BY <2>1, <2>2, <2>3, <2>4 DEF BindInv, Answers
<1>10. FreeInv'
  BY <1>4 DEF FreeInv, Freeing
<1> QED
  BY <1>6, <1>7, <1>8, <1>9, <1>10 DEF IInv

-----------------------------------------------------------------------------
(* The update, the release and the environment                             *)

\* A step between searches that moves the loop of the update only.
LEMMA LoopStep ==
    ASSUME IInv, ~Searching, ~Freeing, pc # "overrun", UNCHANGED <<envVars, events, tableVars, bindVars, searchVars>>,
           pc' \in {"idle", "update", "free"}, cursor' \in 0 .. cardCount,
           pc' = "free" => cursor' = 0
    PROVE  IInv'
<1>1. /\ TypeOK /\ freed = {} /\ deviceCount \in Nat /\ deviceCount <= MaxCards
      /\ \A i \in 0 .. deviceCount - 1 : devs[i] = i
  BY Displays DEF IInv, TypeOK, TableInv
<1>2. UNCHANGED <<cardCount, driver, node, events, devs, deviceCount, freed, bindVars, searchVars>>
  BY DEF envVars, tableVars
<1>3. TypeOK'
  BY <1>1, <1>2, QuietType DEF TypeOK
<1>4. TableInv'
  BY <1>1, <1>2 DEF IInv, TableInv, Searching, Freeing
<1>5. SearchInv' /\ BindInv'
  BY <1>2, QuietStep DEF Searching
<1>6. FreeInv'
  <2>1. CASE pc' = "free"
    <3>1. cursor' = 0 /\ freed' = {} /\ deviceCount' = deviceCount /\ devs' = devs
      BY <1>1, <1>2, <2>1
    <3>2. /\ 0 .. cursor' - 1 = {} /\ cursor' <= deviceCount' + 1
          /\ cursor' + deviceCount' <= MaxCards
      BY <1>1, <3>1, Constants
    <3> QED
      BY <1>1, <2>1, <3>1, <3>2 DEF FreeInv
  <2>2. CASE pc' # "free"
    BY <2>2 DEF FreeInv, Freeing
  <2> QED
    BY <2>1, <2>2
<1> QED
  BY <1>3, <1>4, <1>5, <1>6 DEF IInv

LEMMA LoopInv == ASSUME IInv, StartUpdate \/ UpdateSkip \/ UpdateDone \/ Exit PROVE IInv'
<1>1. /\ ~Searching /\ ~Freeing /\ pc # "overrun"
      /\ UNCHANGED <<envVars, events, tableVars, bindVars, searchVars>>
  BY DEF StartUpdate, UpdateSkip, UpdateDone, Exit, Searching, Freeing
<1>2. pc' \in {"idle", "update", "free"} /\ (pc' = "free" => cursor' = 0)
  BY DEF StartUpdate, UpdateSkip, UpdateDone, Exit
<1>3. cursor' \in 0 .. cardCount
  BY Displays DEF StartUpdate, UpdateSkip, UpdateDone, Exit, IInv, TypeOK
<1> QED
  BY <1>1, <1>2, <1>3, LoopStep

LEMMA UpdateRetryInv == ASSUME IInv, UpdateRetry PROVE IInv'
<1>1. /\ pc = "update" /\ cursor < deviceCount /\ Waiting(cursor)
      /\ UNCHANGED <<cardCount, driver, node, devs, deviceCount, freed>>
      /\ UpdateDeviceInfo("update", devs[cursor])
  BY DEF UpdateRetry, envVars, tableVars
<1>2. TypeOK /\ cursor \in 0 .. deviceCount - 1 /\ freed = {} /\ cursor < cardCount
      /\ cardCount \in Nat /\ 0 \in 0 .. cardCount /\ cursor \in Card
  BY <1>1, Displays DEF IInv, TypeOK, TableInv, Freeing
<1>3. devs[cursor] = cursor /\ cursor \in driver /\ cursor \in Card /\ ~driverisLoaded[cursor]
  BY <1>1, <1>2 DEF IInv, TableInv, Freeing, Waiting, TypeOK
<1>4. Starts("update", cursor)
  BY <1>1, <1>2, <1>3 DEF Starts, Searching
<1>5. /\ SearchInv' /\ events' \in 0 .. MaxEvents
      /\ gpuDevice' = gpuDevice /\ driverisLoaded' = driverisLoaded
      /\ caller' \in {"enumerate", "update"} /\ target' \in Card \cup {None}
      /\ unread' \subseteq Node /\ devices' \in Seq(Node) /\ ret' \in {0, 1}
      /\ Len(devices') <= MaxCards
      /\ found' \in Node \cup {None} /\ open' \in 0 .. MaxOpen /\ troubled' \in BOOLEAN
      /\ \/ pc' = "open" /\ cursor' = cursor /\ caller' = "update" /\ target' = cursor
         \/ pc' = "crashed" /\ cursor' = cursor
         \/ pc' = "idle" /\ cursor' = 0
  BY <1>3, <1>4, StartsInv
<1>6. TypeOK'
  <2>1. pc' \in {"open", "crashed", "idle"} /\ cursor' \in 0 .. cardCount
    BY <1>2, <1>5, Constants DEF TypeOK
  <2>2. gpuDevice' \in [Card -> Node \cup {None}] /\ driverisLoaded' \in [Card -> BOOLEAN]
    BY <1>2, <1>5 DEF TypeOK
  <2> QED
    BY <1>1, <1>2, <1>5, <2>1, <2>2 DEF TypeOK, Stopped
<1>7. TableInv'
  BY <1>1, <1>2, <1>3, <1>5 DEF IInv, TableInv, Searching, Freeing
<1>8. BindInv'
  BY <1>1, <1>3, <1>5 DEF IInv, BindInv, Searching, Answers
<1>9. FreeInv'
  BY <1>5 DEF FreeInv, Freeing
<1> QED
  BY <1>5, <1>6, <1>7, <1>8, <1>9 DEF IInv

LEMMA DriverAppearsInv == ASSUME IInv, DriverAppears PROVE IInv'
<1>1. PICK c \in Card \ driver : driver' = driver \cup {c}
  BY DEF DriverAppears
<1>2. /\ UNCHANGED <<cardCount, node, pc, cursor, devs, deviceCount, freed, bindVars, searchVars>>
      /\ events' \in 0 .. MaxEvents /\ TypeOK
  BY HappensType DEF DriverAppears, tableVars, IInv
<1>3. TypeOK'
  BY <1>1, <1>2 DEF TypeOK, bindVars, searchVars
<1>4. TableInv'
  BY <1>1, <1>2 DEF IInv, TableInv, Searching, Freeing, searchVars
<1>5. SearchInv' /\ BindInv'
  BY <1>2 DEF IInv, SearchInv, BindInv, Searching, searchVars, bindVars, Answers
<1>6. FreeInv'
  BY <1>2 DEF IInv, FreeInv, Freeing
<1> QED
  BY <1>3, <1>4, <1>5, <1>6 DEF IInv

LEMMA NodeChangesInv == ASSUME IInv, NodeChanges PROVE IInv'
<1>1. /\ UNCHANGED <<cardCount, driver, pc, cursor, devs, deviceCount, freed, bindVars, searchVars>>
      /\ events' \in 0 .. MaxEvents /\ TypeOK
  BY HappensType DEF NodeChanges, tableVars, IInv
<1>2. node' \in [Node -> {"none", "refused", "odd", "ok"}]
  BY <1>1 DEF NodeChanges, TypeOK
<1>3. TypeOK'
  BY <1>1, <1>2 DEF TypeOK, bindVars, searchVars
<1>4. TableInv'
  BY <1>1 DEF IInv, TableInv, Searching, Freeing, searchVars
<1>5. SearchInv' /\ BindInv'
  BY <1>1 DEF IInv, SearchInv, BindInv, Searching, searchVars, bindVars, Answers
<1>6. FreeInv'
  BY <1>1 DEF IInv, FreeInv, Freeing
<1> QED
  BY <1>3, <1>4, <1>5, <1>6 DEF IInv

LEMMA FreeDeviceInv == ASSUME IInv, FreeDevice PROVE IInv'
<1>1. /\ pc = "free" /\ pc' = "free" /\ cursor < deviceCount /\ cursor' = cursor + 1
      /\ freed' = freed \cup ({devs[cursor]} \ {None})
      /\ devs' = [i \in DOMAIN devs |-> IF i \in {cursor, deviceCount} THEN None ELSE devs[i]]
      /\ UNCHANGED <<cardCount, driver, node, events, bindVars, searchVars>>
  BY DEF FreeDevice, envVars
<1>2. /\ TypeOK /\ cursor \in Nat /\ deviceCount \in 0 .. cardCount /\ cardCount \in Nat
      /\ MaxCards \in Nat /\ deviceCount <= MaxCards /\ cursor \in 0 .. MaxCards - 1
      /\ DOMAIN devs = 0 .. MaxCards - 1 /\ cardCount' = cardCount /\ cursor \in Card
  <2>1. cardCount \in Nat /\ TypeOK /\ MaxCards \in Nat
    BY Displays, Constants DEF IInv
  <2>2. cursor \in Nat /\ deviceCount \in 0 .. cardCount /\ deviceCount <= MaxCards
    BY <2>1 DEF TypeOK
  <2>3. cursor \in Card /\ cursor \in 0 .. MaxCards - 1
    BY <1>1, <2>1, <2>2, Displays
  <2> QED
    BY <1>1, <2>1, <2>2, <2>3 DEF TypeOK
<1>3. /\ deviceCount' \in 0 .. cardCount /\ cursor' \in 0 .. cardCount
      /\ deviceCount' <= MaxCards
      /\ deviceCount' = deviceCount - 1 \/ (deviceCount' = 0 /\ deviceCount = MaxCards)
  <2>1. CASE deviceCount = MaxCards
    <3>1. deviceCount' \in {0, deviceCount - 1}
      BY <2>1 DEF FreeDevice
    <3> QED
      BY <1>1, <1>2, <2>1, <3>1
  <2>2. CASE deviceCount # MaxCards
    <3>1. deviceCount' = deviceCount - 1
      BY <2>2 DEF FreeDevice
    <3> QED
      BY <1>1, <1>2, <3>1
  <2> QED
    BY <2>1, <2>2
<1>4. TypeOK'
  <2>1. freed' \subseteq Card
    BY <1>1, <1>2 DEF TypeOK
  <2>2. devs' \in [0 .. MaxCards - 1 -> Card \cup {None}]
    BY <1>1, <1>2 DEF TypeOK
  <2> QED
    BY <1>1, <1>2, <1>3, <2>1, <2>2, QuietType DEF TypeOK
<1>5. TableInv'
  <2>1. ASSUME NEW i \in DOMAIN devs' PROVE devs'[i] \in {i, None} /\ devs'[i] \notin freed'
    <3>1. i \in DOMAIN devs /\ freed \subseteq Card /\ None \notin freed
      BY <1>1, <1>2, <2>1, Constants DEF TypeOK
    <3>2. devs[i] \in {i, None} /\ devs[i] \notin freed /\ devs[cursor] \in {cursor, None}
      BY <1>2, <3>1 DEF IInv, TableInv
    <3>3. CASE i \in {cursor, deviceCount}
      BY <1>1, <3>1, <3>2, <3>3
    <3>4. CASE i \notin {cursor, deviceCount}
      BY <1>1, <3>1, <3>2, <3>4
    <3> QED
      BY <3>3, <3>4
  <2> QED
    BY <1>1, <2>1 DEF TableInv, Searching, Freeing
<1>6. SearchInv' /\ BindInv'
  BY <1>1, QuietStep DEF Searching
<1>7. FreeInv'
  <2>1. SUFFICES /\ freed' = 0 .. cursor' - 1 /\ cursor' <= deviceCount' + 1
                 /\ cursor' + deviceCount' <= MaxCards
                 /\ \A i \in cursor' .. deviceCount' - 1 : devs'[i] = i
    BY <1>1 DEF FreeInv
  <2>2. /\ freed = 0 .. cursor - 1 /\ cursor + deviceCount <= MaxCards
        /\ \A i \in cursor .. deviceCount - 1 : devs[i] = i
    BY <1>1 DEF IInv, FreeInv, Freeing
  <2>3. devs[cursor] = cursor /\ cursor # None
    BY <1>1, <1>2, <2>2, Constants
  <2>4. freed' = 0 .. cursor' - 1
    <3>1. freed' = (0 .. cursor - 1) \cup {cursor}
      BY <1>1, <2>2, <2>3
    <3>2. (0 .. cursor - 1) \cup {cursor} = 0 .. cursor
      BY <1>2
    <3> QED
      BY <1>1, <1>2, <3>1, <3>2
  <2>5. CASE deviceCount' = deviceCount - 1
    <3>1. cursor' <= deviceCount' + 1 /\ cursor' + deviceCount' <= MaxCards
      BY <1>1, <1>2, <2>2, <2>5
    <3>2. ASSUME NEW i \in cursor' .. deviceCount' - 1 PROVE devs'[i] = i
      <4>1. i \in cursor .. deviceCount - 1 /\ i # cursor /\ i # deviceCount /\ i \in DOMAIN devs
        BY <1>1, <1>2, <2>5, <3>2
      <4> QED
        BY <1>1, <2>2, <4>1
    <3> QED
      BY <2>4, <3>1, <3>2
  <2>6. CASE deviceCount' = 0 /\ deviceCount = MaxCards
    <3>1. cursor = 0 /\ cursor' = 1 /\ MaxCards >= 1
      BY <1>1, <1>2, <2>2, <2>6
    <3>2. cursor' .. deviceCount' - 1 = {}
      BY <2>6, <3>1
    <3> QED
      BY <1>2, <2>4, <2>6, <3>1, <3>2
  <2> QED
    BY <1>3, <2>5, <2>6
<1> QED
  BY <1>4, <1>5, <1>6, <1>7 DEF IInv

LEMMA FreedInv == ASSUME IInv, Freed PROVE IInv'
<1>1. /\ pc = "free" /\ pc' = "exited" /\ cursor >= deviceCount /\ TypeOK
      /\ UNCHANGED <<cardCount, driver, node, events, cursor, devs, deviceCount, freed, bindVars, searchVars>>
  BY DEF Freed, envVars, tableVars, IInv
<1>2. TypeOK'
  BY <1>1, QuietType DEF TypeOK, Stopped
<1>3. TableInv'
  BY <1>1 DEF IInv, TableInv, Searching, Freeing
<1>4. SearchInv' /\ BindInv'
  BY <1>1, QuietStep DEF Searching
<1>5. FreeInv'
  BY <1>1 DEF IInv, FreeInv, Freeing
<1> QED
  BY <1>2, <1>3, <1>4, <1>5 DEF IInv

LEMMA NextInv == IInv /\ [Next]_vars => IInv'
<1> SUFFICES ASSUME IInv, [Next]_vars PROVE IInv'
  OBVIOUS
<1>1. CASE Enumerate
  BY <1>1, EnumerationFailsInv, InitDeviceInv, TableOverrunsInv, EnumeratedInv DEF Enumerate
<1>2. CASE Search
  BY <1>2, OpenNodeInv, MatchNodeInv, SearchOverrunsInv, NodesReadInv, MatchFailsInv, MatchedInv
  DEF Search
<1>3. CASE Update
  BY <1>3, LoopInv, UpdateRetryInv DEF Update
<1>4. CASE Free
  BY <1>4, LoopInv, FreeDeviceInv, FreedInv DEF Free
<1>5. CASE DriverAppears
  BY <1>5, DriverAppearsInv
<1>6. CASE NodeChanges
  BY <1>6, NodeChangesInv
<1>7. CASE UNCHANGED vars
  <2>1. UNCHANGED <<cardCount, driver, node, events, pc, cursor, devs, deviceCount, freed, gpuDevice,
                    driverisLoaded, caller, target, unread, devices, ret, found, open, troubled>>
    BY <1>7 DEF vars, envVars, tableVars, bindVars, searchVars
  <2>2. TypeOK' /\ TableInv' /\ SearchInv'
    BY <2>1 DEF IInv, TypeOK, TableInv, SearchInv, Searching, Freeing, Answers
  <2>3. BindInv' /\ FreeInv'
    BY <2>1 DEF IInv, BindInv, FreeInv, Searching, Freeing, Answers
  <2> QED
    BY <2>2, <2>3 DEF IInv
<1> QED
  BY <1>1, <1>2, <1>3, <1>4, <1>5, <1>6, <1>7 DEF Next

-----------------------------------------------------------------------------

\* The invariant is inductive: it holds throughout every behaviour of the table.
THEOREM Invariance == Spec => []IInv
<1> QED
  BY InitInv, NextInv, PTL DEF Spec

\* The types and the bounds of the loops hold for any number of cards and nodes:
\* UpdateDeviceInfo and FreeDeviceContext never look outside of the table, and only
\* more cards, or more different nodes, than GPU_MAX_CARD_SUPPORT make InitDeviceContext
\* or gpuGetDevices write behind an array.
THEOREM TypeCorrect == Spec => []TypeOK
<1>1. IInv => TypeOK
  BY DEF IInv
<1> QED
  BY <1>1, Invariance, PTL

\* A loaded card whose domain fits the byte is bound to the node of its own PCI
\* function, for any buses and nodes: PCI addresses are unique.
THEOREM OwnNode == Spec => []BoundToOwn
<1>1. IInv => BoundToOwn
  <2>1. SUFFICES ASSUME IInv, NEW c \in Loaded, Domain[c] < ByteRange
                 PROVE  gpuDevice[c] = c
    BY DEF BoundToOwn
  <2>2. c \in Card /\ Answers(c, gpuDevice[c])
    BY <2>1 DEF IInv, BindInv, Loaded
  <2>3. /\ gpuDevice[c] \in Card /\ Domain[gpuDevice[c]] = Domain[c] % ByteRange
        /\ Slot[gpuDevice[c]] = Slot[c]
    BY <2>2 DEF Answers
  <2>4. Domain[c] % ByteRange = Domain[c]
    BY <2>1, <2>2, AddressAssumption
  <2> QED
    BY <2>2, <2>3, <2>4, AddressAssumption
<1> QED
  BY <1>1, Invariance, PTL

\* No device is freed twice, none that was freed is left in the table, and at the
\* end as many are freed as are still counted, or one more: also of a full table,
\* whose count is overwritten.
THEOREM FreedOnce == Spec => []FreeSafe
<1>1. IInv => FreeSafe
  <2> SUFFICES ASSUME IInv PROVE FreeSafe
    OBVIOUS
  <2>1. \A i \in DOMAIN devs : devs[i] \notin freed
    BY DEF IInv, TableInv
  <2>2. ASSUME pc = "exited"
        PROVE  Cardinality(freed) - deviceCount \in {0, 1}
    <3>1. freed = 0 .. cursor - 1 /\ cursor <= deviceCount + 1 /\ cursor >= deviceCount
      BY <2>2 DEF IInv, FreeInv, Freeing
    <3>2. cursor \in Nat /\ deviceCount \in Nat
      BY Displays DEF IInv, TypeOK
    <3>3. Cardinality(0 .. cursor - 1) = cursor
      BY <3>2, FS_Interval
    <3> QED
      BY <3>1, <3>2, <3>3
  <2> QED
    BY <2>1, <2>2 DEF FreeSafe
<1> QED
  BY <1>1, Invariance, PTL

\* The table implements Binding: every step of it binds one card, for which a
\* driver is there, to a node that answers to its address, or binds none.
THEOREM ImplementsBinding == Spec => Binds
<1>1. Init => Table!Init
  BY DEF Init, Table!Init
<1>2. IInv /\ [Next]_vars => [Table!Next]_(Table!vars)
  <2> SUFFICES ASSUME IInv, [Next]_vars PROVE [Table!Next]_(Table!vars)
    OBVIOUS
  <2>1. CASE Matched
    <3>1. target \in Card /\ target \in driver /\ ~driverisLoaded[target] /\ gpuDevice[target] = None
      BY <2>1 DEF Matched, Searching, IInv, TypeOK, TableInv, BindInv
    <3>2. driver' = driver /\ gpuDevice' = [gpuDevice EXCEPT ![target] = found]
      BY <2>1 DEF Matched, envVars
    <3>3. CASE found = None
      <4>1. gpuDevice' = gpuDevice
        BY <3>1, <3>2, <3>3 DEF IInv, TypeOK
      <4> QED
        BY <3>2, <4>1 DEF Table!vars
    <3>4. CASE found # None
      <4>1. found \in Node /\ Answers(target, found)
        BY <3>4 DEF IInv, TypeOK, SearchInv
      <4>2. Table!Bind(target, found)
        BY <3>1, <3>2, <4>1 DEF Table!Bind
      <4> QED
        BY <3>1, <4>1, <4>2 DEF Table!Next
    <3> QED
      BY <3>3, <3>4
  <2>2. CASE DriverAppears
    <3>1. Table!DriverAppears
      BY <2>2 DEF DriverAppears, bindVars, Table!DriverAppears
    <3> QED
      BY <3>1 DEF Table!Next
  <2>3. CASE UNCHANGED <<driver, gpuDevice>>
    BY <2>3 DEF Table!vars
  <2>4. CASE Enumerate \/ Update
    <3>1. ASSUME NEW who, NEW c, UpdateDeviceInfo(who, c) PROVE gpuDevice' = gpuDevice
      BY <3>1 DEF UpdateDeviceInfo, BeginSearch, bindVars
    <3>2. UNCHANGED <<driver, gpuDevice>>
      BY <2>4, <3>1 DEF Enumerate, EnumerationFails, InitDevice, TableOverruns, Enumerated, Update, StartUpdate,
           UpdateSkip, UpdateRetry, UpdateDone, envVars, bindVars
    <3> QED
      BY <2>3, <3>2
  <2>5. CASE Search /\ ~Matched
    <3>1. UNCHANGED <<driver, gpuDevice>>
      BY <2>5 DEF Search, OpenNode, MatchNode, SearchOverruns, NodesRead, MatchFails, SearchAborts, envVars, bindVars
    <3> QED
      BY <2>3, <3>1
  <2>6. CASE Free \/ NodeChanges \/ UNCHANGED vars
    <3>1. UNCHANGED <<driver, gpuDevice>>
      BY <2>6 DEF Free, Exit, FreeDevice, Freed, NodeChanges, vars, envVars, bindVars
    <3> QED
      BY <2>3, <3>1
  <2> QED
    BY <2>1, <2>2, <2>4, <2>5, <2>6 DEF Next
<1> QED
  BY <1>1, <1>2, Invariance, PTL DEF Spec, Binds, Table!Spec

-----------------------------------------------------------------------------
(* The descriptors                                                         *)

LEMMA LoadedFinite == IsFiniteSet(Loaded) /\ Cardinality(Loaded) \in Nat
<1>1. IsFiniteSet(Card)
  BY Constants, FS_Interval DEF Card
<1>2. Loaded \subseteq Card
  BY DEF Loaded
<1> QED
  BY <1>1, <1>2, FS_Subset, FS_CardinalityType

\* A step that changes neither the bindings nor the search keeps the account.
LEMMA OwnedQuiet ==
    ASSUME DescriptorsOwned, driverisLoaded' = driverisLoaded, open' = open, found' = found,
           devices' = devices, troubled' = troubled
    PROVE  DescriptorsOwned'
<1>1. Loaded' = Loaded
  BY DEF Loaded
<1> QED
  BY <1>1 DEF DescriptorsOwned

\* Beginning or giving up a search leaves nothing open that was not before.
LEMMA OwnedBegin ==
    ASSUME IInv, DescriptorsOwned, ~Searching, NEW who, NEW c \in Card, Starts(who, c)
    PROVE  DescriptorsOwned'
<1>1. /\ pc \notin {"open", "match", "overrun"} /\ driverisLoaded' = driverisLoaded
      /\ UpdateDeviceInfo(who, c)
  BY StartsInv DEF Starts, Searching
<1>2. devices = <<>> /\ found = None
  BY <1>1 DEF IInv, SearchInv
<1>3. UNCHANGED <<open, troubled, devices, found>>
  BY <1>1, <1>2 DEF UpdateDeviceInfo, BeginSearch, searchVars
<1> QED
  BY <1>1, <1>3, OwnedQuiet

LEMMA OwnedAbort ==
    ASSUME IInv, DescriptorsOwned, SearchAborts PROVE DescriptorsOwned'
<1>1. /\ devices' = <<>> /\ found' = None /\ open' = open /\ driverisLoaded' = driverisLoaded
      /\ troubled' = (troubled \/ devices # <<>> \/ found # None)
  BY DEF SearchAborts, NoSearch, bindVars
<1>2. CASE ~troubled'
  BY <1>1, <1>2, OwnedQuiet DEF IInv, TypeOK
<1> QED
  BY <1>2 DEF DescriptorsOwned

LEMMA OwnedOpen ==
    ASSUME IInv, DescriptorsOwned, NEW n \in Node, OpenNode(n) PROVE DescriptorsOwned'
<1>1. found' = found /\ driverisLoaded' = driverisLoaded /\ devices \in Seq(Node) /\ open \in Nat
  BY Constants DEF OpenNode, bindVars, IInv, TypeOK
<1>2. CASE node[n] \in {"none", "refused"} \/ open >= MaxOpen
  BY <1>1, <1>2, OwnedQuiet DEF OpenNode
<1>3. CASE ~(node[n] \in {"none", "refused"} \/ open >= MaxOpen) /\ node[n] = "odd"
  BY <1>3 DEF OpenNode, DescriptorsOwned
<1>4. CASE ~(node[n] \in {"none", "refused"} \/ open >= MaxOpen) /\ node[n] # "odd"
  <2>1. open' = open + 1 /\ devices' = Append(devices, n) /\ troubled' = troubled
    BY <1>4 DEF OpenNode
  <2>2. Len(devices') = Len(devices) + 1 /\ Len(devices) \in Nat /\ Loaded' = Loaded
    BY <1>1, <2>1 DEF Loaded
  <2> QED
    BY <1>1, <2>1, <2>2, LoadedFinite DEF DescriptorsOwned
<1> QED
  BY <1>2, <1>3, <1>4

\* Two nodes of the search never answer to the same address.
LEMMA OwnedMatch ==
    ASSUME IInv, DescriptorsOwned, NEW n \in Node, MatchNode(n) PROVE DescriptorsOwned'
<1>1. /\ pc = "match" /\ devices # <<>> /\ n = Head(devices) /\ devices' = Tail(devices)
      /\ driverisLoaded' = driverisLoaded /\ troubled' = troubled
      /\ devices \in Seq(Node) /\ open \in Nat
  BY Constants DEF MatchNode, bindVars, IInv, TypeOK
<1>2. /\ Len(devices') = Len(devices) - 1 /\ Len(devices) \in Nat /\ Len(devices) >= 1
      /\ n = devices[1] /\ Loaded' = Loaded
  BY <1>1, Rest DEF Loaded
<1>3. n # found
  BY <1>2 DEF IInv, SearchInv
<1>4. CASE Answers(target, n)
  <2>1. found' = n /\ open' = open /\ n # None
    BY <1>4, Constants DEF MatchNode
  <2>2. found = None
    <3>1. SUFFICES ASSUME found # None PROVE FALSE
      OBVIOUS
    <3>2. Answers(target, found)
      BY <3>1 DEF IInv, SearchInv
    <3> QED
      BY <1>3, <1>4, <3>2, AddressAssumption DEF Answers
  <2> QED
    BY <1>1, <1>2, <2>1, <2>2, LoadedFinite DEF DescriptorsOwned
<1>5. CASE ~Answers(target, n)
  <2>1. found' = found /\ open' = open - 1
    BY <1>5 DEF MatchNode
  <2> QED
    BY <1>1, <1>2, <2>1, LoadedFinite DEF DescriptorsOwned
<1> QED
  BY <1>4, <1>5

\* The descriptor of the node that was found becomes that of a loaded card.
LEMMA OwnedMatched ==
    ASSUME IInv, DescriptorsOwned, Matched PROVE DescriptorsOwned'
<1>1. /\ devices = <<>> /\ devices' = <<>> /\ found' = None /\ open' = open /\ troubled' = troubled
      /\ driverisLoaded' = [driverisLoaded EXCEPT ![target] = @ \/ found # None]
      /\ target \in Card /\ target \notin Loaded
      /\ driverisLoaded \in [Card -> BOOLEAN] /\ open \in Nat
  BY Constants DEF Matched, NoSearch, Searching, IInv, TypeOK, TableInv, BindInv, Loaded
<1>2. CASE found = None
  <2>1. Loaded' = Loaded
    BY <1>1, <1>2 DEF Loaded
  <2> QED
    BY <1>1, <1>2, <2>1 DEF DescriptorsOwned
<1>3. CASE found # None
  <2>1. Loaded' = Loaded \cup {target}
    BY <1>1, <1>3 DEF Loaded
  <2>2. Cardinality(Loaded') = Cardinality(Loaded) + 1
    BY <1>1, <2>1, LoadedFinite, FS_AddElement
  <2> QED
    BY <1>1, <1>3, <2>2, LoadedFinite DEF DescriptorsOwned
<1> QED
  BY <1>2, <1>3

\* Unless a search ended early or met an odd node, every open descriptor belongs
\* to a loaded card or to the search, for any number of cards and nodes.
THEOREM NothingLeaks == Spec => []DescriptorsOwned
<1>1. Init => DescriptorsOwned
  <2> SUFFICES ASSUME Init PROVE DescriptorsOwned
    OBVIOUS
  <2>1. Loaded = {} /\ open = 0 /\ devices = <<>> /\ found = None
    BY DEF Init, Loaded
  <2> QED
    BY <2>1, FS_EmptySet DEF DescriptorsOwned
<1>2. IInv /\ DescriptorsOwned /\ [Next]_vars => DescriptorsOwned'
  <2> SUFFICES ASSUME IInv, DescriptorsOwned, [Next]_vars PROVE DescriptorsOwned'
    OBVIOUS
  <2>1. CASE InitDevice
    <3>1. /\ pc = "enumerate" /\ cursor < cardCount /\ UNCHANGED envVars /\ ~Searching
          /\ cursor \in Card /\ ~driverisLoaded[cursor] /\ pc # "overrun"
          /\ cardCount' = cardCount
      BY <2>1, Displays DEF InitDevice, Searching, IInv, TypeOK, BindInv, envVars
    <3>2. CASE cursor \in driver \ Foreign
      <4>1. Starts("enumerate", cursor)
        BY <2>1, <3>1, <3>2 DEF InitDevice, Starts, envVars
      <4> QED
        BY <3>1, <4>1, OwnedBegin
    <3>3. CASE cursor \notin driver \ Foreign
      BY <2>1, <3>3, OwnedQuiet DEF InitDevice, bindVars, searchVars
    <3> QED
      BY <3>2, <3>3
  <2>2. CASE UpdateRetry
    <3>1. /\ pc = "update" /\ cursor < deviceCount /\ Waiting(cursor) /\ UNCHANGED envVars
          /\ UpdateDeviceInfo("update", devs[cursor]) /\ ~Searching
      BY <2>2 DEF UpdateRetry, Searching
    <3>2. devs[cursor] = cursor /\ cursor < cardCount /\ cursor \in Nat
      BY <3>1, Displays DEF IInv, TypeOK, TableInv, Freeing
    <3>3. Starts("update", cursor) /\ cursor \in Card
      BY <3>1, <3>2, Displays DEF Starts, Waiting, envVars, IInv
    <3> QED
      BY <3>1, <3>3, OwnedBegin
  <2>3. CASE NodesRead
    <3>1. CASE UNCHANGED <<cursor, events, bindVars, searchVars>>
      BY <3>1, OwnedQuiet DEF bindVars, searchVars
    <3> QED
      BY <2>3, <3>1, OwnedAbort DEF NodesRead
  <2>4. CASE MatchFails
    BY <2>4, OwnedAbort DEF MatchFails
  <2>5. ASSUME NEW n \in Node, OpenNode(n) \/ MatchNode(n) PROVE DescriptorsOwned'
    BY <2>5, OwnedOpen, OwnedMatch
  <2>6. CASE Matched
    BY <2>6, OwnedMatched
  <2>7. CASE \/ EnumerationFails \/ TableOverruns \/ Enumerated \/ SearchOverruns
             \/ StartUpdate \/ UpdateSkip \/ UpdateDone \/ Free
    <3>1. UNCHANGED <<bindVars, searchVars>>
      BY <2>7 DEF EnumerationFails, TableOverruns, Enumerated, SearchOverruns, StartUpdate, UpdateSkip, UpdateDone, Free, Exit,
           FreeDevice, Freed
    <3> QED
      BY <3>1, OwnedQuiet DEF bindVars, searchVars
  <2>8. CASE DriverAppears \/ NodeChanges \/ UNCHANGED vars
    BY <2>8, OwnedQuiet DEF DriverAppears, NodeChanges, vars, bindVars, searchVars
  <2> QED
    BY <2>1, <2>2, <2>3, <2>4, <2>5, <2>6, <2>7, <2>8 DEF Next, Enumerate, Search, Update
<1> QED
  BY <1>1, <1>2, Invariance, PTL DEF Spec

-----------------------------------------------------------------------------
(* What a pass over the table still has before it.  The measure is         *)
(* lexicographic: the failures and changes that may still come, the        *)
(* devices that are left, how far the search for the present one is, and   *)
(* the nodes it has still to read or to compare.                           *)

EventsLeft == MaxEvents - events
LoopLeft == IF pc \in {"idle"} \cup Stopped THEN 0 ELSE (CardCount - cursor) + 1
Stage == IF pc = "open" THEN 2 ELSE IF pc = "match" THEN 1 ELSE 3
NodesLeft == IF pc = "open" THEN Cardinality(unread) ELSE Len(devices)

Measures == [1 .. 4 -> Nat]
Left == <<EventsLeft, LoopLeft, Stage, NodesLeft>>
Below == LexProductOrdering(OpToRel(<, Nat), Nat, 4)

\* the first of the four that changes gets smaller
Lower ==
    \/ EventsLeft' < EventsLeft
    \/ /\ EventsLeft' = EventsLeft
       /\ \/ LoopLeft' < LoopLeft
          \/ LoopLeft' = LoopLeft /\ Stage' < Stage
          \/ LoopLeft' = LoopLeft /\ Stage' = Stage /\ NodesLeft' < NodesLeft

LEMMA LeftType == TypeOK => Left \in Measures
<1> SUFFICES ASSUME TypeOK PROVE Left \in Measures
  OBVIOUS
<1>1. EventsLeft \in Nat
  BY Constants DEF EventsLeft, TypeOK
<1>2. LoopLeft \in Nat
  BY Constants DEF LoopLeft, TypeOK
<1>3. Cardinality(unread) \in Nat /\ Len(devices) \in Nat
  BY NodesFinite DEF TypeOK
<1>4. NodesLeft \in Nat /\ Stage \in Nat
  BY <1>3 DEF NodesLeft, Stage
<1> QED
  BY <1>1, <1>2, <1>4 DEF Left, Measures

LEMMA LowerIsBelow ==
    ASSUME Left \in Measures, Left' \in Measures, Lower
    PROVE  <<Left', Left>> \in Below
<1> DEFINE a == Left'
           b == Left
           R == OpToRel(<, Nat)
<1>1. /\ a[1] = EventsLeft' /\ a[2] = LoopLeft' /\ a[3] = Stage' /\ a[4] = NodesLeft'
      /\ b[1] = EventsLeft /\ b[2] = LoopLeft /\ b[3] = Stage /\ b[4] = NodesLeft
  BY DEF Left
<1> HIDE DEF a, b
<1>2. \E j \in 1 .. 4 : (\A k \in 1 .. j - 1 : a[k] = b[k]) /\ a[j] < b[j]
  <2>1. CASE a[1] < b[1]
    BY <2>1
  <2>2. CASE a[1] = b[1] /\ a[2] < b[2]
    BY <2>2
  <2>3. CASE a[1] = b[1] /\ a[2] = b[2] /\ a[3] < b[3]
    BY <2>3
  <2>4. CASE a[1] = b[1] /\ a[2] = b[2] /\ a[3] = b[3] /\ a[4] < b[4]
    BY <2>4
  <2> QED
    BY <1>1, <2>1, <2>2, <2>3, <2>4 DEF Lower
<1>3. a \in [1 .. 4 -> Nat] /\ b \in [1 .. 4 -> Nat]
  BY DEF a, b, Measures
<1>4. \A j \in 1 .. 4 : a[j] < b[j] => <<a[j], b[j]>> \in R
  BY <1>3 DEF OpToRel
<1> QED
  BY <1>2, <1>3, <1>4 DEF Below, LexProductOrdering, a, b

\* Every step but the start of a pass lowers the measure.
LEMMA StepLowers ==
    ASSUME IInv, Next, ~StartUpdate, ~Exit
    PROVE  Lower
<1> USE Constants
<1>1. /\ cursor \in 0 .. cardCount /\ deviceCount \in 0 .. cardCount /\ cardCount \in Nat
      /\ cardCount <= CardCount
      /\ Searching => cursor < deviceCount
  BY Displays DEF IInv, TypeOK, TableInv
<1>2. ASSUME Happens PROVE Lower
  <2>1. events' = events + 1 /\ events \in Nat
    BY <1>2 DEF Happens, IInv, TypeOK
  <2> QED
    BY <2>1 DEF Lower, EventsLeft
<1>3. ASSUME UNCHANGED events PROVE EventsLeft' = EventsLeft
  BY <1>3 DEF EventsLeft
\* the loop goes on, or ends
<1>4. ASSUME pc \notin {"idle"} \cup Stopped, cursor < cardCount, cursor' = cursor + 1
      PROVE  LoopLeft' < LoopLeft
  <2>1. LoopLeft = (CardCount - cursor) + 1
    BY <1>4 DEF LoopLeft
  <2>2. LoopLeft' = 0 \/ LoopLeft' = (CardCount - cursor') + 1
    BY DEF LoopLeft
  <2> QED
    BY <1>1, <1>4, <2>1, <2>2
<1>5. ASSUME pc \notin {"idle"} \cup Stopped, pc' \in {"idle"} \cup Stopped
      PROVE  LoopLeft' < LoopLeft
  BY <1>1, <1>5 DEF LoopLeft
<1>6. ASSUME Searching, NEW ok \in BOOLEAN, ReturnTo(caller, ok)
      PROVE  LoopLeft' < LoopLeft
  <2>1. cursor < cardCount /\ pc \notin {"idle"} \cup Stopped
    BY <1>1, <1>6 DEF Searching, Stopped
  <2>2. CASE ok
    BY <1>4, <1>6, <2>1, <2>2 DEF ReturnTo
  <2>3. CASE ~ok
    BY <1>5, <1>6, <2>1, <2>3 DEF ReturnTo
  <2> QED
    BY <2>2, <2>3
<1>7. ASSUME NEW who, NEW c, pc \in {"enumerate", "update"}, UpdateDeviceInfo(who, c)
      PROVE  Lower
  <2>1. CASE Happens
    BY <1>2, <2>1
  <2>2. CASE BeginSearch(who, c)
    <3>1. CASE pc' = "crashed"
      BY <1>3, <1>5, <1>7, <2>2, <3>1 DEF BeginSearch, Stopped, Lower
    <3>2. CASE pc' = "open"
      <4>1. LoopLeft' = LoopLeft
        BY <1>7, <2>2, <3>2 DEF BeginSearch, LoopLeft, Stopped
      <4>2. Stage = 3 /\ Stage' = 2
        BY <1>7, <3>2 DEF Stage
      <4> QED
        BY <1>3, <2>2, <4>1, <4>2 DEF BeginSearch, Lower
    <3> QED
      BY <2>2, <3>1, <3>2 DEF BeginSearch
  <2> QED
    BY <1>7, <2>1, <2>2 DEF UpdateDeviceInfo
<1>8. CASE EnumerationFails
  BY <1>2, <1>8 DEF EnumerationFails
<1>9. CASE InitDevice
  <2>1. CASE cursor' = cursor + 1 /\ UNCHANGED events
    BY <1>3, <1>4, <1>9, <2>1 DEF InitDevice, Stopped, Lower
  <2> QED
    BY <1>7, <1>9, <2>1 DEF InitDevice
<1>10. CASE TableOverruns \/ Enumerated \/ SearchOverruns \/ UpdateDone \/ Freed
  BY <1>3, <1>5, <1>10 DEF TableOverruns, Enumerated, SearchOverruns, UpdateDone, Freed, Stopped, Lower
<1>11. CASE \E n \in Node : OpenNode(n)
  <2>1. PICK n \in Node : OpenNode(n)
    BY <1>11
  <2>2. /\ pc = "open" /\ pc' = "open" /\ cursor' = cursor /\ n \in unread
        /\ unread' = unread \ {n} /\ UNCHANGED events
    BY <2>1 DEF OpenNode
  <2>3. unread \in SUBSET Node
    BY DEF IInv, TypeOK
  <2>4. Cardinality(unread') = Cardinality(unread) - 1 /\ Cardinality(unread) \in Nat
    BY <2>2, <2>3, NodesFinite, FS_RemoveElement
  <2>5. NodesLeft' < NodesLeft
    BY <2>2, <2>4 DEF NodesLeft
  <2>6. LoopLeft' = LoopLeft /\ Stage' = Stage
    BY <2>2 DEF LoopLeft, Stage
  <2> QED
    BY <1>3, <2>2, <2>5, <2>6 DEF Lower
<1>12. CASE \E n \in Node : MatchNode(n)
  <2>1. PICK n \in Node : MatchNode(n)
    BY <1>12
  <2>2. /\ pc = "match" /\ pc' = "match" /\ cursor' = cursor /\ devices # <<>>
        /\ devices' = Tail(devices) /\ UNCHANGED events
    BY <2>1 DEF MatchNode
  <2>3. devices \in Seq(Node)
    BY DEF IInv, TypeOK
  <2>4. NodesLeft' < NodesLeft
    BY <2>2, <2>3 DEF NodesLeft
  <2>5. LoopLeft' = LoopLeft /\ Stage' = Stage
    BY <2>2 DEF LoopLeft, Stage
  <2> QED
    BY <1>3, <2>2, <2>4, <2>5 DEF Lower
<1>13. ASSUME Searching, SearchAborts PROVE LoopLeft' < LoopLeft
  BY <1>6, <1>13 DEF SearchAborts
<1>14. CASE NodesRead
  <2>1. CASE pc' = "match" /\ UNCHANGED <<cursor, events>>
    <3>1. LoopLeft' = LoopLeft
      BY <1>14, <2>1 DEF NodesRead, LoopLeft, Stopped
    <3>2. Stage = 2 /\ Stage' = 1
      BY <1>14, <2>1 DEF NodesRead, Stage
    <3> QED
      BY <1>3, <2>1, <3>1, <3>2 DEF Lower
  <2>2. CASE SearchAborts /\ UNCHANGED events
    BY <1>3, <1>13, <1>14, <2>2 DEF NodesRead, Searching, Lower
  <2> QED
    BY <1>2, <1>14, <2>1, <2>2 DEF NodesRead, searchVars
<1>15. CASE MatchFails
  BY <1>3, <1>13, <1>15 DEF MatchFails, Searching, Lower
<1>16. CASE Matched
  <2>1. CASE ReturnTo(caller, found # None) /\ UNCHANGED events
    BY <1>3, <1>6, <1>16, <2>1 DEF Matched, Searching, Lower
  <2> QED
    BY <1>2, <1>16, <2>1 DEF Matched
<1>17. CASE UpdateSkip
  BY <1>1, <1>3, <1>4, <1>17 DEF UpdateSkip, Stopped, Lower
<1>18. CASE UpdateRetry
  BY <1>7, <1>18 DEF UpdateRetry
<1>19. CASE FreeDevice
  BY <1>1, <1>3, <1>4, <1>19 DEF FreeDevice, Stopped, Lower
<1>20. CASE DriverAppears \/ NodeChanges
  BY <1>2, <1>20 DEF DriverAppears, NodeChanges
<1> QED
  BY <1>8, <1>9, <1>10, <1>11, <1>12, <1>14, <1>15, <1>16, <1>17, <1>18, <1>19, <1>20
  DEF Next, Enumerate, Search, Update, Free

\* The enumeration, every pass of deviceUpdate and the release of the devices come to an
\* end: each step of theirs, whatever fails and whatever nodes and drivers come and go
\* meanwhile, lowers a measure for which there is no infinite descent.
THEOREM PassesDescend ==
    /\ IsWellFoundedOn(Below, Measures)
    /\ Spec => [](Left \in Measures)
    /\ Spec => [][StartUpdate \/ Exit \/ <<Left', Left>> \in Below]_vars
<1>1. IsWellFoundedOn(Below, Measures)
  BY NatLessThanWellFounded, WFLexProductOrdering DEF Below, Measures
<1>2. IInv => Left \in Measures
  BY LeftType DEF IInv
<1>3. ASSUME IInv, Left \in Measures, (Left \in Measures)', [Next]_vars
      PROVE  [StartUpdate \/ Exit \/ <<Left', Left>> \in Below]_vars
  BY <1>3, StepLowers, LowerIsBelow
<1>4. Spec => [](Left \in Measures)
  BY <1>2, Invariance, PTL
<1>5. Spec => [][StartUpdate \/ Exit \/ <<Left', Left>> \in Below]_vars
  BY <1>2, <1>3, Invariance, PTL DEF Spec
<1> QED
  BY <1>1, <1>4, <1>5

=============================================================================
