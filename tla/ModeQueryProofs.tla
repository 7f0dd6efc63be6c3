-------------------------- MODULE ModeQueryProofs --------------------------
(* Proofs about ModeQuery, for any number of connectors, modes, properties *)
(* and queries, and any number of failing calls.                           *)
EXTENDS ModeQuery, WellFoundedInduction, TLAPS

Sizing == pc \in {"idle", "resources", "copy_resources", "connector", "copy_connector"}
Copying == pc \in {"copy_resources", "copy_connector"}
WithConnector == pc \in Loops \cup {"encoder", "crtc"}

\* A connector is held exactly while its properties, encoder and crtc are asked
\* for, a property only within the loops over them.
ControlInv ==
    /\ Sizing => connector # "live"
    /\ WithConnector => connector = "live"
    /\ Sizing \/ pc \in {"encoder", "crtc"} => prop # "live"
    /\ pc \in {"resources", "copy_resources"} => i = 0 /\ listed = 0

\* HeapAccounted, kind by kind: with the blocks that are in use.
Within(blocks) == blocks \in 0 .. failures
AccountInv ==
    /\ Within(heap["resource"] - queries) /\ Within(heap["blob"])
    /\ connector = "live" => Within(heap["connector"] - 1)
    /\ connector # "live" => Within(heap["connector"])
    /\ prop = "live" => Within(heap["property"] - 1)
    /\ prop # "live" => Within(heap["property"])
    /\ Copying => Within(heap["buffers"] - 1)
    /\ ~Copying => Within(heap["buffers"])

IInv == TypeOK /\ ControlInv /\ AccountInv /\ MemorySafe

-----------------------------------------------------------------------------

LEMMA Constants ==
    MaxCount \in Nat /\ MaxQueries \in Nat /\ MaxEvents \in Nat /\ PropCount \in Nat \ {0}
<1> QED
  BY SizeAssumption, PropAssumption

LEMMA PlusIs ==
    ASSUME NEW h \in [Kind -> Int], NEW k \in Kind
    PROVE  /\ Plus(h, k) \in [Kind -> Int]
           /\ \A j \in Kind : Plus(h, k)[j] = IF j = k THEN h[j] + 1 ELSE h[j]
<1> QED
  BY DEF Plus

LEMMA MinusIs ==
    ASSUME NEW h \in [Kind -> Int], NEW k \in Kind
    PROVE  /\ Minus(h, k) \in [Kind -> Int]
           /\ \A j \in Kind : Minus(h, k)[j] = IF j = k THEN h[j] - 1 ELSE h[j]
<1> QED
  BY DEF Minus

LEMMA InitInv == Init => IInv
<1> SUFFICES ASSUME Init PROVE IInv
  OBVIOUS
<1>1. heap \in [Kind -> Int] /\ \A k \in Kind : heap[k] = 0
  BY DEF Init
<1>2. TypeOK
  <2>1. /\ kernel \in [Volatile -> 0 .. MaxCount] /\ oom \in BOOLEAN /\ overread = {}
        /\ heap \in [Kind -> Int]
    BY <1>1 DEF Init
  <2>2. /\ pc = "idle" /\ sized = 0 /\ i = 0 /\ listed = 0 /\ p = 1 /\ resource = "null"
        /\ connector = "null" /\ prop = "null" /\ queries = 0 /\ events = 0 /\ failures = 0
    BY DEF Init
  <2> QED
    BY <2>1, <2>2, Constants DEF TypeOK, Loops
<1>3. ControlInv /\ MemorySafe
  BY DEF Init, ControlInv, MemorySafe, Sizing, WithConnector, Loops
<1>4. AccountInv
  <2>1. /\ heap["resource"] = 0 /\ heap["connector"] = 0 /\ heap["property"] = 0
        /\ heap["blob"] = 0 /\ heap["buffers"] = 0
    BY <1>1 DEF Kind
  <2> QED
    BY <2>1 DEF Init, AccountInv, Within, Copying
<1> QED
  BY <1>2, <1>3, <1>4 DEF IInv

-----------------------------------------------------------------------------
(* How a getter ends the query                                             *)

Fails == Happens /\ failures' = failures + 1 /\ oom' \in {oom, TRUE}

LEMMA FailsType ==
    ASSUME TypeOK, Fails
    PROVE  /\ events' \in 0 .. MaxEvents /\ failures' \in 0 .. events' /\ oom' \in BOOLEAN
           /\ failures' = failures + 1 /\ failures \in Nat
<1>1. events' = events + 1 /\ events < MaxEvents /\ failures' = failures + 1
  BY DEF Fails, Happens
<1>2. events \in 0 .. MaxEvents /\ failures \in 0 .. events /\ oom \in BOOLEAN
  BY DEF TypeOK
<1>3. oom' \in BOOLEAN
  BY <1>2, Zenon DEF Fails
<1> QED
  BY <1>1, <1>2, <1>3, Constants

LEMMA Failing == (IoctlFails => Fails /\ oom' = oom) /\ (OutOfMemory => Fails /\ oom' = TRUE)
<1> QED
  BY DEF IoctlFails, OutOfMemory, Fails

\* The property is freed, the connector is not, and of what the getter itself
\* allocated at most one block of a kind is lost.
LosesOne ==
    /\ heap' \in [Kind -> Int]
    /\ heap'["resource"] \in {heap["resource"], heap["resource"] + 1}
    /\ heap'["connector"] = heap["connector"] /\ heap'["blob"] = heap["blob"]
    /\ prop = "live" => heap'["property"] = heap["property"] - 1
    /\ prop # "live" => heap'["property"] = heap["property"]
    /\ \/ heap'["buffers"] = heap["buffers"]
       \/ heap'["buffers"] = heap["buffers"] + 1 /\ ~Copying

\* The getter frees its own buffers, and that is all.
FreesBuffers ==
    /\ heap' \in [Kind -> Int]
    /\ \A k \in Kind \ {"buffers"} : heap'[k] = heap[k]
    /\ Copying => heap'["buffers"] = heap["buffers"] - 1
    /\ ~Copying => heap'["buffers"] = heap["buffers"]

\* A failing getter lets the query return: of each kind at most one block more is
\* lost, whatever the query held.
LEMMA ReturnInv ==
    ASSUME IInv, pc # "crashed", Fails, Return,
           UNCHANGED <<kernel, overread, queries>>,
           resource' = resource \/ resource' = "gutted",
           LosesOne
    PROVE  IInv'
<1>1. /\ pc' = "idle" /\ sized' = 0 /\ i' = 0 /\ listed' = 0 /\ p' = 1
      /\ connector' = "null" /\ prop' = "null"
  BY DEF Return
<1>2. /\ events' \in 0 .. MaxEvents /\ failures' \in 0 .. events' /\ oom' \in BOOLEAN
      /\ failures' = failures + 1 /\ failures \in Nat
  BY FailsType DEF IInv
<1>3. TypeOK'
  <2>1. /\ kernel' \in [Volatile -> 0 .. MaxCount] /\ overread' \subseteq {"resources", "connector"}
        /\ queries' \in Nat /\ resource' \in {"null", "live", "stale", "gutted"}
    BY DEF IInv, TypeOK
  <2> QED
    BY <1>1, <1>2, <2>1, Constants DEF TypeOK, Loops, LosesOne
<1>4. ControlInv'
  BY <1>1 DEF ControlInv, Sizing, WithConnector, Loops
<1>5. AccountInv'
  <2>1. queries \in Nat /\ \A k \in Kind : heap[k] \in Int
    BY DEF IInv, TypeOK
  <2>2. /\ heap["resource"] \in Int /\ heap["connector"] \in Int /\ heap["property"] \in Int
        /\ heap["blob"] \in Int /\ heap["buffers"] \in Int
    BY <2>1 DEF Kind
  <2>3. /\ heap'["resource"] - queries' \in 0 .. failures' /\ heap'["blob"] \in 0 .. failures'
    BY <1>2, <2>1, <2>2 DEF IInv, AccountInv, Within, LosesOne
  <2>4. heap'["connector"] \in 0 .. failures' /\ heap'["property"] \in 0 .. failures'
    BY <1>2, <2>2 DEF IInv, AccountInv, Within, LosesOne
  <2>5. heap'["buffers"] \in 0 .. failures'
    BY <1>2, <2>2 DEF IInv, AccountInv, Within, LosesOne
  <2> QED
    BY <1>1, <2>3, <2>4, <2>5 DEF AccountInv, Within, Copying
<1>6. MemorySafe'
  <2>1. overread' \subseteq {"connector"} /\ pc' # "crashed" /\ ~(i' < listed')
    BY <1>1 DEF IInv, MemorySafe
  <2> QED
    BY <2>1 DEF MemorySafe
<1> QED
  BY <1>3, <1>4, <1>5, <1>6 DEF IInv

\* Running out of memory crashes the program: what the getter held is freed.
LEMMA CrashInv ==
    ASSUME IInv, Fails, oom' = TRUE, Crash, resource' = resource,
           UNCHANGED <<kernel, overread, queries>>,
           FreesBuffers
    PROVE  IInv'
<1>1. pc' = "crashed" /\ UNCHANGED <<sized, i, listed, p, connector, prop>>
  BY DEF Crash
<1>2. /\ events' \in 0 .. MaxEvents /\ failures' \in 0 .. events' /\ oom' \in BOOLEAN
      /\ failures' = failures + 1 /\ failures \in Nat
  BY FailsType DEF IInv
<1>3. TypeOK'
  <2>1. TypeOK /\ heap' \in [Kind -> Int]
    BY DEF IInv, FreesBuffers
  <2> QED
    BY <1>1, <1>2, <2>1 DEF TypeOK, Loops
<1>4. ControlInv'
  BY <1>1 DEF ControlInv, Sizing, WithConnector, Loops
<1>5. AccountInv'
  <2>1. queries \in Nat /\ \A k \in Kind : heap[k] \in Int
    BY DEF IInv, TypeOK
  <2>2. /\ heap'["resource"] = heap["resource"] /\ heap'["connector"] = heap["connector"]
        /\ heap'["property"] = heap["property"] /\ heap'["blob"] = heap["blob"]
    BY DEF Kind, FreesBuffers
  <2>3. /\ heap["resource"] \in Int /\ heap["connector"] \in Int /\ heap["property"] \in Int
        /\ heap["blob"] \in Int /\ heap["buffers"] \in Int
    BY <2>1 DEF Kind
  <2>4. /\ Within(heap["resource"] - queries)' /\ Within(heap["blob"])'
        /\ connector' = "live" => Within(heap["connector"] - 1)'
        /\ connector' # "live" => Within(heap["connector"])'
        /\ prop' = "live" => Within(heap["property"] - 1)'
        /\ prop' # "live" => Within(heap["property"])'
    BY <1>1, <1>2, <2>1, <2>2, <2>3 DEF IInv, AccountInv, Within
  <2>5. Within(heap["buffers"])'
    BY <1>2, <2>3 DEF IInv, AccountInv, Within, FreesBuffers
  <2> QED
    BY <1>1, <2>4, <2>5 DEF AccountInv, Copying
<1>6. MemorySafe'
  BY DEF IInv, MemorySafe
<1> QED
  BY <1>3, <1>4, <1>5, <1>6 DEF IInv

LEMMA NextConnectorIs ==
    ASSUME NEW n \in Nat, NEW count \in 0 .. MaxCount, n <= count, NextConnector(n, count)
    PROVE  /\ i' = n /\ listed' = count /\ listed' \in 0 .. MaxCount /\ i' \in 0 .. listed'
           /\ pc' \in {"connector", "idle"} /\ (pc' = "connector" => i' < listed')
<1> QED
  BY Constants DEF NextConnector

\* Running out of memory for the resource: the query goes on with whatever
\* resource there was before, or crashes.
LEMMA UnsetInv ==
    ASSUME IInv, Sizing, Fails, oom' = TRUE, ResourceUnset,
           UNCHANGED <<kernel, overread, queries>>, FreesBuffers
    PROVE  IInv'
<1>1. CASE resource \in {"null", "gutted"}
  BY <1>1, CrashInv DEF ResourceUnset
<1>2. CASE resource \notin {"null", "gutted"}
  <2>1. /\ resource' = "stale" /\ UNCHANGED <<connector, prop, p, sized>>
        /\ \E n \in 0 .. MaxCount : NextConnector(0, n)
    BY <1>2 DEF ResourceUnset
  <2>2. /\ listed' \in 0 .. MaxCount /\ i' \in 0 .. listed' /\ pc' \in {"connector", "idle"}
        /\ (pc' = "connector" => i' < listed')
    <3>1. PICK n \in 0 .. MaxCount : NextConnector(0, n)
      BY <2>1
    <3>2. 0 <= n /\ 0 \in Nat
      BY <3>1, Constants
    <3> QED
      BY <3>1, <3>2, NextConnectorIs
  <2>3. /\ events' \in 0 .. MaxEvents /\ failures' \in 0 .. events' /\ oom' \in BOOLEAN
        /\ failures' = failures + 1 /\ failures \in Nat
    BY FailsType DEF IInv
  <2>4. TypeOK'
    <3>1. TypeOK /\ heap' \in [Kind -> Int]
      BY DEF IInv, FreesBuffers
    <3> QED
      BY <2>1, <2>2, <2>3, <3>1 DEF TypeOK, Loops
  <2>5. connector # "live" /\ prop # "live"
    BY DEF IInv, ControlInv, Sizing
  <2>6. ControlInv'
    BY <2>1, <2>2, <2>5 DEF ControlInv, Sizing, WithConnector, Loops
  <2>7. AccountInv'
    <3>1. queries \in Nat /\ \A k \in Kind : heap[k] \in Int
      BY DEF IInv, TypeOK
    <3>2. /\ heap'["resource"] = heap["resource"] /\ heap'["connector"] = heap["connector"]
          /\ heap'["property"] = heap["property"] /\ heap'["blob"] = heap["blob"]
          /\ heap["resource"] \in Int /\ heap["connector"] \in Int /\ heap["property"] \in Int
          /\ heap["blob"] \in Int /\ heap["buffers"] \in Int
      BY <3>1 DEF Kind, FreesBuffers
    <3>3. /\ heap'["resource"] - queries' \in 0 .. failures' /\ heap'["blob"] \in 0 .. failures'
          /\ heap'["connector"] \in 0 .. failures' /\ heap'["property"] \in 0 .. failures'
      BY <2>3, <2>5, <3>1, <3>2 DEF IInv, AccountInv, Within
    <3>4. heap'["buffers"] \in 0 .. failures'
      BY <2>3, <3>2 DEF IInv, AccountInv, Within, FreesBuffers
    <3> QED
      BY <2>1, <2>2, <2>5, <3>3, <3>4 DEF AccountInv, Copying, Within
  <2>8. MemorySafe'
    BY DEF IInv, MemorySafe
  <2> QED
    BY <2>4, <2>6, <2>7, <2>8 DEF IInv
<1> QED
  BY <1>1, <1>2

\* Nothing is freed where there are no buffers yet.
LEMMA NothingFreed ==
    ASSUME TypeOK, ~Copying, heap' = heap PROVE FreesBuffers
<1> QED
  BY DEF FreesBuffers, TypeOK

LEMMA BuffersFreed ==
    ASSUME TypeOK, Copying, heap' = Minus(heap, "buffers") PROVE FreesBuffers
<1>1. heap \in [Kind -> Int] /\ "buffers" \in Kind
  BY DEF TypeOK, Kind
<1> QED
  BY <1>1, MinusIs DEF FreesBuffers

\* What a return without any freeing loses: the buffers, if there are any.
LEMMA NothingReturned ==
    ASSUME TypeOK, prop # "live", heap' = heap PROVE LosesOne
<1>1. \A k \in Kind : heap[k] \in Int
  BY DEF TypeOK
<1> QED
  BY <1>1 DEF LosesOne, TypeOK

LEMMA BuffersLost ==
    ASSUME TypeOK, prop # "live", ~Copying, heap' = Plus(heap, "buffers") PROVE LosesOne
<1>1. heap \in [Kind -> Int] /\ "buffers" \in Kind
  BY DEF TypeOK, Kind
<1>2. heap' \in [Kind -> Int] /\ \A j \in Kind : heap'[j] = IF j = "buffers" THEN heap[j] + 1 ELSE heap[j]
  BY <1>1, PlusIs
<1>3. /\ heap'["resource"] = heap["resource"] /\ heap'["connector"] = heap["connector"]
      /\ heap'["property"] = heap["property"] /\ heap'["blob"] = heap["blob"]
      /\ heap'["buffers"] = heap["buffers"] + 1
  BY <1>2 DEF Kind
<1> QED
  BY <1>2, <1>3 DEF LosesOne

-----------------------------------------------------------------------------
(* The getters                                                             *)

LEMMA HeapInts ==
    ASSUME TypeOK
    PROVE  /\ heap \in [Kind -> Int]
           /\ heap["resource"] \in Int /\ heap["connector"] \in Int /\ heap["property"] \in Int
           /\ heap["blob"] \in Int /\ heap["buffers"] \in Int
<1> QED
  BY DEF TypeOK, Kind

\* One block more, or one less, of the buffers.
LEMMA OneMore ==
    ASSUME heap \in [Kind -> Int], heap' = Plus(heap, "buffers")
    PROVE  /\ heap' \in [Kind -> Int] /\ heap'["buffers"] = heap["buffers"] + 1
           /\ heap'["resource"] = heap["resource"] /\ heap'["connector"] = heap["connector"]
           /\ heap'["property"] = heap["property"] /\ heap'["blob"] = heap["blob"]
<1>1. "buffers" \in Kind
  BY DEF Kind
<1>2. heap' \in [Kind -> Int] /\ \A j \in Kind : heap'[j] = IF j = "buffers" THEN heap[j] + 1 ELSE heap[j]
  BY <1>1, PlusIs
<1> QED
  BY <1>2 DEF Kind

LEMMA OneLess ==
    ASSUME heap \in [Kind -> Int], heap' = Minus(heap, "buffers")
    PROVE  /\ heap' \in [Kind -> Int] /\ heap'["buffers"] = heap["buffers"] - 1
           /\ heap'["resource"] = heap["resource"] /\ heap'["connector"] = heap["connector"]
           /\ heap'["property"] = heap["property"] /\ heap'["blob"] = heap["blob"]
<1>1. "buffers" \in Kind
  BY DEF Kind
<1>2. heap' \in [Kind -> Int] /\ \A j \in Kind : heap'[j] = IF j = "buffers" THEN heap[j] - 1 ELSE heap[j]
  BY <1>1, MinusIs
<1> QED
  BY <1>2 DEF Kind

\* A step that works, and leaves the rest of the types to be shown.
LEMMA WorksType ==
    ASSUME TypeOK, Works, UNCHANGED kernel
    PROVE  /\ kernel' \in [Volatile -> 0 .. MaxCount] /\ events' \in 0 .. MaxEvents
           /\ failures' \in 0 .. events' /\ oom' \in BOOLEAN
           /\ failures' = failures /\ oom' = oom /\ failures \in Nat
<1>1. events' = events /\ failures' = failures /\ oom' = oom
  BY DEF Works
<1>2. events \in 0 .. MaxEvents /\ failures \in 0 .. events /\ oom \in BOOLEAN
  BY DEF TypeOK
<1>3. oom' \in BOOLEAN
  BY <1>1, <1>2
<1>4. events' \in 0 .. MaxEvents /\ failures' \in 0 .. events' /\ failures \in Nat
  BY <1>1, <1>2, Constants
<1>5. kernel' \in [Volatile -> 0 .. MaxCount]
  BY DEF TypeOK
<1> QED
  BY <1>1, <1>3, <1>4, <1>5

LEMMA StartQueryInv == ASSUME IInv, StartQuery PROVE IInv'
<1>1. /\ pc = "idle" /\ pc' = "resources" /\ resource' \in {"stale", resource}
      /\ connector' = "null" /\ i' = 0 /\ listed' = 0 /\ Works
      /\ UNCHANGED <<kernel, sized, p, prop, heap, overread, queries>>
  BY DEF StartQuery, Goto
<1>2. TypeOK /\ connector # "live" /\ prop # "live"
  BY <1>1 DEF IInv, ControlInv, Sizing
<1>3. TypeOK'
  <2>1. /\ resource' \in {"null", "live", "stale", "gutted"} /\ sized' \in 0 .. MaxCount + 1
        /\ p' \in 1 .. PropCount /\ prop' \in {"null", "live", "freed"} /\ heap' \in [Kind -> Int]
        /\ overread' \subseteq {"resources", "connector"} /\ queries' \in Nat
    BY <1>1, <1>2 DEF TypeOK
  <2> QED
    BY <1>1, <1>2, <2>1, WorksType, Constants DEF TypeOK, Loops
<1>4. ControlInv'
  BY <1>1, <1>2 DEF ControlInv, Sizing, WithConnector, Loops
<1>5. AccountInv'
  BY <1>1, <1>2 DEF IInv, AccountInv, Within, Works, Copying
<1>6. MemorySafe'
  BY <1>1 DEF IInv, MemorySafe, Works
<1> QED
  BY <1>3, <1>4, <1>5, <1>6 DEF IInv

LEMMA GetModeResourceInv == ASSUME IInv, GetModeResource PROVE IInv'
<1>1. /\ pc = "resources" /\ ~Copying /\ Sizing /\ TypeOK /\ UNCHANGED <<kernel, overread, queries>>
      /\ connector # "live" /\ prop # "live" /\ i = 0 /\ listed = 0
  BY DEF GetModeResource, Copying, Sizing, IInv, ControlInv
<1>2. CASE /\ Works /\ sized' = kernel["connectors"] /\ heap' = Plus(heap, "buffers")
           /\ Goto("copy_resources")
           /\ UNCHANGED <<i, listed, p, pointerVars>>
  <2>1. /\ pc' = "copy_resources" /\ UNCHANGED <<i, listed, p, resource, connector, prop>>
        /\ events' = events /\ failures' = failures /\ oom' = oom
        /\ sized' = kernel["connectors"]
    BY <1>2 DEF Goto, pointerVars, Works
  <2>2. /\ heap' \in [Kind -> Int] /\ heap'["buffers"] = heap["buffers"] + 1
        /\ heap'["resource"] = heap["resource"] /\ heap'["connector"] = heap["connector"]
        /\ heap'["property"] = heap["property"] /\ heap'["blob"] = heap["blob"]
    BY <1>1, <1>2, HeapInts, OneMore
  <2>3. kernel["connectors"] \in 0 .. MaxCount
    BY <1>1 DEF TypeOK, Volatile
  <2>4. TypeOK'
    <3>1. sized' \in 0 .. MaxCount + 1
      BY <2>1, <2>3, Constants
    <3> QED
      BY <1>1, <1>2, <2>1, <2>2, <3>1, WorksType DEF TypeOK, Loops
  <2>5. ControlInv'
    BY <1>1, <2>1 DEF ControlInv, Sizing, WithConnector, Loops
  <2>6. AccountInv'
    BY <1>1, <2>1, <2>2, HeapInts DEF IInv, AccountInv, Within, Copying
  <2>7. MemorySafe'
    BY <1>1, <2>1 DEF IInv, MemorySafe
  <2> QED
    BY <2>4, <2>5, <2>6, <2>7 DEF IInv
<1>3. CASE IoctlFails /\ FirstFails /\ UNCHANGED heap
  <2>1. Fails /\ Return /\ resource' = resource /\ LosesOne /\ pc # "crashed"
    BY <1>1, <1>3, Failing, NothingReturned DEF FirstFails
  <2> QED
    BY <1>1, <2>1, ReturnInv
<1>4. CASE OutOfMemory /\ ResourceUnset /\ UNCHANGED heap
  BY <1>1, <1>4, Failing, NothingFreed, UnsetInv
<1> QED
  BY <1>2, <1>3, <1>4 DEF GetModeResource

LEMMA ResourcesChangedInv == ASSUME IInv, ResourcesChanged PROVE IInv'
<1>1. /\ pc = "copy_resources" /\ Copying /\ Sizing /\ TypeOK
      /\ pc' = "resources" /\ sized' = 0 /\ heap' = Minus(heap, "buffers") /\ Works
      /\ UNCHANGED <<kernel, i, listed, p, resource, connector, prop, overread, queries>>
      /\ connector # "live" /\ prop # "live" /\ i = 0 /\ listed = 0
  BY DEF ResourcesChanged, Retry, Copying, Sizing, IInv, ControlInv, pointerVars
<1>2. /\ heap' \in [Kind -> Int] /\ heap'["buffers"] = heap["buffers"] - 1
      /\ heap'["resource"] = heap["resource"] /\ heap'["connector"] = heap["connector"]
      /\ heap'["property"] = heap["property"] /\ heap'["blob"] = heap["blob"]
  BY <1>1, HeapInts, OneLess
<1>3. TypeOK'
  BY <1>1, <1>2, WorksType, Constants DEF TypeOK, Loops
<1>4. ControlInv'
  BY <1>1 DEF ControlInv, Sizing, WithConnector, Loops
<1>5. AccountInv'
  BY <1>1, <1>2, HeapInts DEF IInv, AccountInv, Within, Copying, Works
<1>6. MemorySafe'
  BY <1>1 DEF IInv, MemorySafe, Works
<1> QED
  BY <1>3, <1>4, <1>5, <1>6 DEF IInv

LEMMA CopyModeResourceInv == ASSUME IInv, CopyModeResource PROVE IInv'
<1>1. /\ pc = "copy_resources" /\ Copying /\ Sizing /\ TypeOK /\ UNCHANGED <<kernel, overread>>
      /\ connector # "live" /\ prop # "live" /\ i = 0 /\ listed = 0
      /\ heap \in [Kind -> Int] /\ "resource" \in Kind /\ "buffers" \in Kind
  BY DEF CopyModeResource, Copying, Sizing, IInv, ControlInv, TypeOK, Kind
<1>2. CASE /\ Works /\ resource' = "live" /\ queries' = queries + 1 /\ sized' = 0
           /\ heap' = Plus(Minus(heap, "buffers"), "resource")
           /\ NextConnector(0, kernel["connectors"])
           /\ UNCHANGED <<connector, prop, p>>
  <2>1. /\ kernel["connectors"] \in 0 .. MaxCount /\ queries \in Nat
        /\ queries' = queries + 1
    BY <1>1, <1>2 DEF TypeOK, Volatile
  <2>2. /\ listed' \in 0 .. MaxCount /\ i' \in 0 .. listed' /\ pc' \in {"connector", "idle"}
        /\ (pc' = "connector" => i' < listed')
    <3>1. 0 \in Nat /\ 0 <= kernel["connectors"]
      BY <2>1, Constants
    <3> QED
      BY <1>2, <2>1, <3>1, NextConnectorIs
  <2>3. /\ heap' \in [Kind -> Int] /\ heap'["buffers"] = heap["buffers"] - 1
        /\ heap'["resource"] = heap["resource"] + 1 /\ heap'["connector"] = heap["connector"]
        /\ heap'["property"] = heap["property"] /\ heap'["blob"] = heap["blob"]
    <3>1. /\ Minus(heap, "buffers") \in [Kind -> Int]
          /\ \A j \in Kind : Minus(heap, "buffers")[j] = IF j = "buffers" THEN heap[j] - 1 ELSE heap[j]
      BY <1>1, MinusIs
    <3>2. /\ heap' \in [Kind -> Int]
          /\ \A j \in Kind : heap'[j] = IF j = "resource" THEN Minus(heap, "buffers")[j] + 1
                                                          ELSE Minus(heap, "buffers")[j]
      BY <1>1, <1>2, <3>1, PlusIs
    <3> QED
      BY <3>1, <3>2 DEF Kind
  <2>4. TypeOK'
    <3>1. queries' \in Nat /\ sized' \in 0 .. MaxCount + 1 /\ overread' \subseteq {"resources", "connector"}
      BY <1>1, <1>2, <2>1, Constants DEF TypeOK
    <3> QED
      BY <1>1, <1>2, <2>2, <2>3, <3>1, WorksType DEF TypeOK, Loops
  <2>5. ControlInv'
    BY <1>1, <1>2, <2>2 DEF ControlInv, Sizing, WithConnector, Loops
  <2>6. AccountInv'
    <3>1. failures' = failures /\ connector' = connector /\ prop' = prop /\ ~Copying'
      BY <1>2, <2>2 DEF Works, Copying
    <3> QED
      BY <1>1, <2>1, <2>3, <3>1, HeapInts DEF IInv, AccountInv, Within
  <2>7. MemorySafe'
    BY <1>1, <1>2, <2>2 DEF IInv, MemorySafe
  <2> QED
    BY <2>4, <2>5, <2>6, <2>7 DEF IInv
<1>3. CASE IoctlFails /\ Return /\ UNCHANGED <<resource, heap, queries>>
  <2>1. Fails /\ Return /\ resource' = resource /\ LosesOne /\ pc # "crashed"
    BY <1>1, <1>3, Failing, NothingReturned
  <2> QED
    BY <1>1, <1>3, <2>1, ReturnInv
<1>4. CASE OutOfMemory /\ UNCHANGED queries /\ ResourceUnset /\ heap' = Minus(heap, "buffers")
  BY <1>1, <1>4, Failing, BuffersFreed, UnsetInv
<1>5. CASE OutOfMemory /\ UNCHANGED queries /\ Return /\ resource' = "gutted" /\ heap' = Plus(heap, "resource")
  <2>1. /\ heap' \in [Kind -> Int]
        /\ \A j \in Kind : heap'[j] = IF j = "resource" THEN heap[j] + 1 ELSE heap[j]
    BY <1>1, <1>5, PlusIs
  <2>2. LosesOne
    BY <1>1, <2>1 DEF LosesOne, Kind
  <2> QED
    BY <1>1, <1>5, <2>2, Failing, ReturnInv
<1> QED
  BY <1>2, <1>3, <1>4, <1>5 DEF CopyModeResource

LEMMA GetConnectorInv == ASSUME IInv, GetConnector PROVE IInv'
<1>1. /\ pc = "connector" /\ ~Copying /\ Sizing /\ TypeOK
      /\ UNCHANGED <<kernel, resource, overread, queries>>
      /\ connector # "live" /\ prop # "live" /\ i < listed
  BY DEF GetConnector, Copying, Sizing, IInv, ControlInv, TypeOK
<1>2. CASE /\ Works /\ sized' = kernel["modes"] /\ heap' = Plus(heap, "buffers")
           /\ Goto("copy_connector")
           /\ UNCHANGED <<i, listed, p, connector, prop>>
  <2>1. /\ pc' = "copy_connector" /\ events' = events /\ failures' = failures /\ oom' = oom
        /\ sized' = kernel["modes"]
    BY <1>2 DEF Goto, Works
  <2>2. /\ heap' \in [Kind -> Int] /\ heap'["buffers"] = heap["buffers"] + 1
        /\ heap'["resource"] = heap["resource"] /\ heap'["connector"] = heap["connector"]
        /\ heap'["property"] = heap["property"] /\ heap'["blob"] = heap["blob"]
    BY <1>1, <1>2, HeapInts, OneMore
  <2>3. kernel["modes"] \in 0 .. MaxCount
    BY <1>1 DEF TypeOK, Volatile
  <2>4. TypeOK'
    <3>1. sized' \in 0 .. MaxCount + 1
      BY <2>1, <2>3, Constants
    <3> QED
      BY <1>1, <1>2, <2>1, <2>2, <3>1, WorksType DEF TypeOK, Loops
  <2>5. ControlInv'
    BY <1>1, <1>2, <2>1 DEF ControlInv, Sizing, WithConnector, Loops
  <2>6. AccountInv'
    BY <1>1, <1>2, <2>1, <2>2, HeapInts DEF IInv, AccountInv, Within, Copying
  <2>7. MemorySafe'
    BY <1>1, <1>2, <2>1 DEF IInv, MemorySafe
  <2> QED
    BY <2>4, <2>5, <2>6, <2>7 DEF IInv
<1>3. CASE IoctlFails /\ Return /\ UNCHANGED heap
  <2>1. Fails /\ LosesOne /\ pc # "crashed"
    BY <1>1, <1>3, Failing, NothingReturned
  <2> QED
    BY <1>1, <1>3, <2>1, ReturnInv
<1>4. CASE OutOfMemory /\ ConnectorUnset /\ UNCHANGED heap
  BY <1>1, <1>4, Failing, NothingFreed, CrashInv DEF ConnectorUnset
<1> QED
  BY <1>2, <1>3, <1>4 DEF GetConnector

LEMMA CopyConnectorInv == ASSUME IInv, CopyConnector PROVE IInv'
<1>1. /\ pc = "copy_connector" /\ Copying /\ Sizing /\ TypeOK
      /\ UNCHANGED <<kernel, resource, queries>>
      /\ connector # "live" /\ prop # "live" /\ i < listed
      /\ listed \in 0 .. MaxCount /\ i \in 0 .. listed /\ MaxCount \in Nat
      /\ heap \in [Kind -> Int] /\ "connector" \in Kind /\ "buffers" \in Kind
  BY Constants DEF CopyConnector, Copying, Sizing, IInv, ControlInv, TypeOK, Kind
<1>2. CASE /\ Works /\ sized' = 0
           /\ UseConnector(Plus(Minus(heap, "buffers"), "connector"))
           /\ overread' = overread \cup (IF kernel["modes"] > sized THEN {"connector"} ELSE {})
  <2> DEFINE h == Plus(Minus(heap, "buffers"), "connector")
  <2>1. /\ h \in [Kind -> Int]
        /\ \A j \in Kind : h[j] = IF j = "connector" THEN heap[j] + 1
                                  ELSE IF j = "buffers" THEN heap[j] - 1 ELSE heap[j]
    <3>1. /\ Minus(heap, "buffers") \in [Kind -> Int]
          /\ \A j \in Kind : Minus(heap, "buffers")[j] = IF j = "buffers" THEN heap[j] - 1 ELSE heap[j]
      BY <1>1, MinusIs
    <3>2. /\ h \in [Kind -> Int]
          /\ \A j \in Kind : h[j] = IF j = "connector" THEN Minus(heap, "buffers")[j] + 1
                                                       ELSE Minus(heap, "buffers")[j]
      BY <1>1, <3>1, PlusIs
    <3> QED
      BY <3>1, <3>2
  <2>2. \/ /\ heap' = Minus(h, "connector") /\ connector' = "freed"
           /\ NextConnector(i + 1, listed) /\ UNCHANGED <<p, prop>>
        \/ /\ heap' = h /\ connector' = "live" /\ p' = 1 /\ prop' = "null"
           /\ pc' = "edid" /\ UNCHANGED <<i, listed>>
    BY <1>2 DEF UseConnector, FreeConnector, Goto
  <2>3. /\ overread' \subseteq {"connector"} /\ failures' = failures /\ oom' = oom
        /\ sized' \in 0 .. MaxCount + 1
    BY <1>1, <1>2 DEF IInv, MemorySafe, Works
  <2>4. CASE /\ heap' = Minus(h, "connector") /\ connector' = "freed"
             /\ NextConnector(i + 1, listed) /\ UNCHANGED <<p, prop>>
    <3>1. /\ listed' = listed /\ i' \in 0 .. listed' /\ pc' \in {"connector", "idle"}
          /\ (pc' = "connector" => i' < listed')
      <4>1. i + 1 \in Nat /\ i + 1 <= listed
        BY <1>1
      <4> QED
        BY <1>1, <2>4, <4>1, NextConnectorIs
    <3>2. /\ heap' \in [Kind -> Int]
          /\ \A j \in Kind : heap'[j] = IF j = "connector" THEN h[j] - 1 ELSE h[j]
      BY <1>1, <2>1, <2>4, MinusIs
    <3>3. /\ heap'["buffers"] = heap["buffers"] - 1 /\ heap'["resource"] = heap["resource"]
          /\ heap'["connector"] = heap["connector"] /\ heap'["property"] = heap["property"]
          /\ heap'["blob"] = heap["blob"]
      BY <1>1, <2>1, <3>2, HeapInts DEF Kind
    <3>4. TypeOK'
      BY <1>1, <1>2, <2>3, <2>4, <3>1, <3>2, WorksType, Constants DEF TypeOK, Loops
    <3>5. ControlInv'
      BY <1>1, <2>4, <3>1 DEF ControlInv, Sizing, WithConnector, Loops
    <3>6. AccountInv'
      BY <1>1, <2>3, <2>4, <3>1, <3>3, HeapInts DEF IInv, AccountInv, Within, Copying
    <3>7. MemorySafe'
      BY <1>1, <2>3, <3>1 DEF IInv, MemorySafe
    <3> QED
      BY <3>4, <3>5, <3>6, <3>7 DEF IInv
  <2>5. CASE /\ heap' = h /\ connector' = "live" /\ p' = 1 /\ prop' = "null"
             /\ pc' = "edid" /\ UNCHANGED <<i, listed>>
    <3>1. /\ heap'["buffers"] = heap["buffers"] - 1 /\ heap'["resource"] = heap["resource"]
          /\ heap'["connector"] = heap["connector"] + 1 /\ heap'["property"] = heap["property"]
          /\ heap'["blob"] = heap["blob"] /\ heap' \in [Kind -> Int]
      BY <2>1, <2>5 DEF Kind
    <3>2. TypeOK'
      BY <1>1, <1>2, <2>3, <2>5, <3>1, WorksType, Constants DEF TypeOK, Loops
    <3>3. ControlInv'
      BY <1>1, <2>5 DEF ControlInv, Sizing, WithConnector, Loops
    <3>4. AccountInv'
      BY <1>1, <2>3, <2>5, <3>1, HeapInts DEF IInv, AccountInv, Within, Copying
    <3>5. MemorySafe'
      BY <1>1, <2>3, <2>5 DEF IInv, MemorySafe
    <3> QED
      BY <3>2, <3>3, <3>4, <3>5 DEF IInv
  <2> QED
    BY <2>2, <2>4, <2>5
<1>3. CASE IoctlFails /\ Return /\ UNCHANGED <<heap, overread>>
  <2>1. Fails /\ LosesOne /\ pc # "crashed"
    BY <1>1, <1>3, Failing, NothingReturned
  <2> QED
    BY <1>1, <1>3, <2>1, ReturnInv
<1>4. CASE OutOfMemory /\ UNCHANGED overread /\ ConnectorUnset /\ heap' = Minus(heap, "buffers")
  BY <1>1, <1>4, Failing, BuffersFreed, CrashInv DEF ConnectorUnset
<1>5. CASE OutOfMemory /\ UNCHANGED overread /\ Return /\ UNCHANGED heap
  <2>1. Fails /\ LosesOne /\ pc # "crashed"
    BY <1>1, <1>5, Failing, NothingReturned
  <2> QED
    BY <1>1, <1>5, <2>1, ReturnInv
<1> QED
  BY <1>2, <1>3, <1>4, <1>5 DEF CopyConnector

LEMMA GetPropertyInv == ASSUME IInv, GetProperty PROVE IInv'
<1>1. /\ pc \in Loops /\ WithConnector /\ ~Copying /\ TypeOK
      /\ UNCHANGED <<kernel, resource, overread, queries>>
      /\ connector = "live" /\ prop # "live" /\ pc # "crashed"
      /\ heap \in [Kind -> Int] /\ "property" \in Kind
  BY DEF GetProperty, Copying, WithConnector, Loops, IInv, ControlInv, TypeOK, Kind
<1>2. CASE /\ Works /\ sized' = 1 /\ prop' = "live" /\ heap' = Plus(heap, "property")
           /\ UNCHANGED <<pc, i, listed, p, connector>>
  <2>1. /\ heap' \in [Kind -> Int]
        /\ \A j \in Kind : heap'[j] = IF j = "property" THEN heap[j] + 1 ELSE heap[j]
    BY <1>1, <1>2, PlusIs
  <2>2. /\ heap'["buffers"] = heap["buffers"] /\ heap'["resource"] = heap["resource"]
        /\ heap'["connector"] = heap["connector"] /\ heap'["property"] = heap["property"] + 1
        /\ heap'["blob"] = heap["blob"]
    BY <2>1 DEF Kind
  <2>3. TypeOK'
    BY <1>1, <1>2, <2>1, WorksType, Constants DEF TypeOK, Loops
  <2>4. ControlInv'
    BY <1>1, <1>2 DEF ControlInv, Sizing, WithConnector, Loops
  <2>5. AccountInv'
    BY <1>1, <1>2, <2>2, HeapInts DEF IInv, AccountInv, Within, Copying, Works
  <2>6. MemorySafe'
    BY <1>1, <1>2 DEF IInv, MemorySafe, Works
  <2> QED
    BY <2>3, <2>4, <2>5, <2>6 DEF IInv
<1>3. CASE IoctlFails /\ Return /\ UNCHANGED heap
  <2>1. Fails /\ LosesOne
    BY <1>1, <1>3, Failing, NothingReturned
  <2> QED
    BY <1>1, <1>3, <2>1, ReturnInv
<1>4. CASE (IoctlFails \/ OutOfMemory) /\ Return /\ heap' = Plus(heap, "buffers")
  <2>1. Fails /\ LosesOne
    BY <1>1, <1>4, Failing, BuffersLost
  <2> QED
    BY <1>1, <1>4, <2>1, ReturnInv
<1>5. CASE OutOfMemory /\ UNCHANGED heap /\ Crash
  BY <1>1, <1>5, Failing, NothingFreed, CrashInv
<1> QED
  BY <1>2, <1>3, <1>4, <1>5 DEF GetProperty

LEMMA NextPropertyIs ==
    ASSUME TypeOK, pc \in Loops, NextProperty
    PROVE  /\ p' \in 1 .. PropCount /\ prop' \in {"freed", "null"}
           /\ pc' \in Loops \cup {"encoder"} /\ (pc' = "encoder" => prop' = "null")
<1>1. p \in 1 .. PropCount /\ PropCount \in Nat \ {0}
  BY Constants DEF TypeOK
<1> QED
  BY <1>1 DEF NextProperty, Loops

\* The property is freed and the loop goes on, or the next call is made.
LEMMA PropertyDone ==
    ASSUME IInv, pc \in Loops, prop = "live", NextProperty, sized' = 0,
           UNCHANGED <<kernel, i, listed, resource, connector, overread, queries>>,
           events' \in 0 .. MaxEvents, failures' \in 0 .. events', oom' = oom,
           failures' \in {failures, failures + 1},
           heap' \in [Kind -> Int], heap'["resource"] = heap["resource"],
           heap'["connector"] = heap["connector"], heap'["property"] = heap["property"] - 1,
           heap'["blob"] = heap["blob"],
           heap'["buffers"] \in {heap["buffers"], heap["buffers"] + (failures' - failures)}
    PROVE  IInv'
<1>1. /\ TypeOK /\ connector = "live" /\ ~Copying /\ i < listed /\ failures \in Nat /\ queries \in Nat
      /\ oom \in BOOLEAN
  BY DEF Copying, Loops, IInv, ControlInv, TypeOK, WithConnector
<1>2. /\ p' \in 1 .. PropCount /\ prop' \in {"freed", "null"}
      /\ pc' \in Loops \cup {"encoder"} /\ (pc' = "encoder" => prop' = "null")
  BY <1>1, NextPropertyIs
<1>3. TypeOK'
  BY <1>1, <1>2, Constants DEF TypeOK, Loops
<1>4. ControlInv'
  BY <1>1, <1>2 DEF ControlInv, Sizing, WithConnector, Loops
<1>5. AccountInv'
  BY <1>1, <1>2, HeapInts DEF IInv, AccountInv, Within, Copying, Loops
<1>6. MemorySafe'
  BY <1>1, <1>2 DEF IInv, MemorySafe, Loops
<1> QED
  BY <1>3, <1>4, <1>5, <1>6 DEF IInv

LEMMA UsePropertyInv == ASSUME IInv, UseProperty PROVE IInv'
<1>1. /\ pc \in Loops /\ prop = "live" /\ TypeOK /\ NextProperty /\ sized' = 0 /\ Works
      /\ UNCHANGED <<kernel, i, listed, resource, connector, overread, queries>>
      /\ heap \in [Kind -> Int] /\ heap' = Minus(heap, "property") /\ "property" \in Kind
  BY DEF UseProperty, IInv, TypeOK, FreeProperty, Kind
<1>2. /\ heap' \in [Kind -> Int]
      /\ \A j \in Kind : heap'[j] = IF j = "property" THEN heap[j] - 1 ELSE heap[j]
  BY <1>1, MinusIs
<1>3. /\ heap'["buffers"] = heap["buffers"] /\ heap'["resource"] = heap["resource"]
      /\ heap'["connector"] = heap["connector"] /\ heap'["property"] = heap["property"] - 1
      /\ heap'["blob"] = heap["blob"]
  BY <1>2 DEF Kind
<1>4. /\ events' \in 0 .. MaxEvents /\ failures' \in 0 .. events' /\ failures' = failures
      /\ oom' = oom
  BY <1>1, WorksType
<1> QED
  BY <1>1, <1>2, <1>3, <1>4, PropertyDone

LEMMA GetPropBlobInv == ASSUME IInv, GetPropBlob PROVE IInv'
<1>1. /\ pc \in Loops /\ pc # "crashed" /\ prop = "live" /\ TypeOK /\ ~Copying
      /\ UNCHANGED <<kernel, resource, overread, queries>>
      /\ heap \in [Kind -> Int] /\ "property" \in Kind /\ "blob" \in Kind /\ "buffers" \in Kind
  BY DEF GetPropBlob, IInv, TypeOK, Loops, Kind, Copying
<1>2. CASE /\ Works /\ heap' = FreeProperty(FreePropBlob(Plus(heap, "blob"))) /\ NextProperty
           /\ sized' = 0 /\ UNCHANGED <<i, listed, connector>>
  <2>1. /\ Plus(heap, "blob") \in [Kind -> Int]
        /\ \A j \in Kind : Plus(heap, "blob")[j] = IF j = "blob" THEN heap[j] + 1 ELSE heap[j]
    BY <1>1, PlusIs
  <2> DEFINE h == Minus(Plus(heap, "blob"), "blob")
  <2>2. /\ h \in [Kind -> Int]
        /\ \A j \in Kind : h[j] = IF j = "blob" THEN Plus(heap, "blob")[j] - 1 ELSE Plus(heap, "blob")[j]
    BY <1>1, <2>1, MinusIs
  <2>3. /\ heap' \in [Kind -> Int]
        /\ \A j \in Kind : heap'[j] = IF j = "property" THEN h[j] - 1 ELSE h[j]
    BY <1>1, <1>2, <2>2, MinusIs DEF FreeProperty, FreePropBlob
  <2>4. /\ heap'["buffers"] = heap["buffers"] /\ heap'["resource"] = heap["resource"]
        /\ heap'["connector"] = heap["connector"] /\ heap'["property"] = heap["property"] - 1
        /\ heap'["blob"] = heap["blob"]
    BY <1>1, <2>1, <2>2, <2>3, HeapInts DEF Kind
  <2>5. /\ events' \in 0 .. MaxEvents /\ failures' \in 0 .. events' /\ failures' = failures
        /\ oom' = oom
    BY <1>1, <1>2, WorksType
  <2> QED
    BY <1>1, <1>2, <2>3, <2>4, <2>5, PropertyDone
<1>3. ASSUME NEW h \in {heap, Plus(heap, "buffers")}, IoctlFails, heap' = FreeProperty(h),
             IF p < PropCount THEN NextProperty /\ sized' = 0 /\ UNCHANGED <<i, listed, connector>>
                              ELSE Return
      PROVE  IInv'
  <2>1. /\ h \in [Kind -> Int] /\ h["buffers"] \in {heap["buffers"], heap["buffers"] + 1}
        /\ h["resource"] = heap["resource"] /\ h["connector"] = heap["connector"]
        /\ h["property"] = heap["property"] /\ h["blob"] = heap["blob"]
    <3>1. CASE h = heap
      BY <1>1, <3>1
    <3>2. CASE h = Plus(heap, "buffers")
      <4>1. /\ h \in [Kind -> Int]
            /\ \A j \in Kind : h[j] = IF j = "buffers" THEN heap[j] + 1 ELSE heap[j]
        BY <1>1, <3>2, PlusIs
      <4> QED
        BY <4>1 DEF Kind
    <3> QED
      BY <1>3, <3>1, <3>2
  <2>2. /\ heap' \in [Kind -> Int]
        /\ \A j \in Kind : heap'[j] = IF j = "property" THEN h[j] - 1 ELSE h[j]
    BY <1>1, <1>3, <2>1, MinusIs DEF FreeProperty
  <2>3. /\ heap'["buffers"] \in {heap["buffers"], heap["buffers"] + 1}
        /\ heap'["resource"] = heap["resource"] /\ heap'["connector"] = heap["connector"]
        /\ heap'["property"] = heap["property"] - 1 /\ heap'["blob"] = heap["blob"]
    BY <2>1, <2>2 DEF Kind
  <2>4. /\ Fails /\ oom' = oom /\ events' \in 0 .. MaxEvents /\ failures' \in 0 .. events'
        /\ failures' = failures + 1 /\ failures \in Nat
    BY <1>1, <1>3, Failing, FailsType
  <2>5. CASE NextProperty /\ sized' = 0 /\ UNCHANGED <<i, listed, connector>>
    <3>1. heap'["buffers"] \in {heap["buffers"], heap["buffers"] + (failures' - failures)}
      BY <2>3, <2>4
    <3> QED
      BY <1>1, <2>2, <2>3, <2>4, <2>5, <3>1, PropertyDone
  <2>6. CASE Return
    <3>1. LosesOne
      BY <1>1, <2>2, <2>3 DEF LosesOne
    <3> QED
      BY <1>1, <2>4, <2>6, <3>1, ReturnInv
  <2> QED
    BY <1>3, <2>5, <2>6
<1>4. CASE OutOfMemory /\ Crash /\ UNCHANGED heap
  BY <1>1, <1>4, Failing, NothingFreed, CrashInv
<1> QED
  BY <1>2, <1>3, <1>4 DEF GetPropBlob

\* The connector is freed and the next one follows.
LEMMA ConnectorDoneInv ==
    ASSUME IInv, pc \in {"encoder", "crtc"}, Works, ConnectorDone,
           UNCHANGED <<sized, p, prop, kernel, resource, overread, queries>>
    PROVE  IInv'
<1>1. /\ TypeOK /\ connector = "live" /\ prop # "live" /\ ~Copying /\ listed \in 0 .. MaxCount
      /\ i \in 0 .. listed /\ i < listed /\ MaxCount \in Nat
      /\ heap \in [Kind -> Int] /\ "connector" \in Kind
  BY Constants DEF IInv, ControlInv, TypeOK, WithConnector, Copying, Kind
<1>2. heap' = Minus(heap, "connector") /\ connector' = "freed" /\ NextConnector(i + 1, listed)
  BY DEF ConnectorDone, FreeConnector
<1>3. /\ listed' = listed /\ i' \in 0 .. listed' /\ pc' \in {"connector", "idle"}
      /\ (pc' = "connector" => i' < listed')
  <2>1. i + 1 \in Nat /\ i + 1 <= listed
    BY <1>1
  <2> QED
    BY <1>1, <1>2, <2>1, NextConnectorIs
<1>4. /\ heap' \in [Kind -> Int]
      /\ \A j \in Kind : heap'[j] = IF j = "connector" THEN heap[j] - 1 ELSE heap[j]
  BY <1>1, <1>2, MinusIs
<1>5. /\ heap'["buffers"] = heap["buffers"] /\ heap'["resource"] = heap["resource"]
      /\ heap'["connector"] = heap["connector"] - 1 /\ heap'["property"] = heap["property"]
      /\ heap'["blob"] = heap["blob"]
  BY <1>4 DEF Kind
<1>6. TypeOK'
  BY <1>1, <1>2, <1>3, <1>4, WorksType DEF TypeOK, Loops
<1>7. ControlInv'
  BY <1>1, <1>2, <1>3 DEF ControlInv, Sizing, WithConnector, Loops
<1>8. AccountInv'
  BY <1>1, <1>2, <1>3, <1>5, HeapInts DEF IInv, AccountInv, Within, Copying, Works
<1>9. MemorySafe'
  BY <1>1, <1>3 DEF IInv, MemorySafe, Works
<1> QED
  BY <1>6, <1>7, <1>8, <1>9 DEF IInv

LEMMA GetEncoderInv == ASSUME IInv, GetEncoder \/ GetCrtc PROVE IInv'
<1>1. /\ pc \in {"encoder", "crtc"} /\ pc # "crashed" /\ TypeOK /\ ~Copying
      /\ UNCHANGED <<kernel, resource, overread, queries>>
      /\ connector = "live" /\ prop # "live" /\ i < listed
  BY DEF GetEncoder, GetCrtc, IInv, ControlInv, TypeOK, Copying, WithConnector
<1>2. CASE Works /\ ConnectorDone /\ UNCHANGED <<sized, p, prop>>
  BY <1>1, <1>2, ConnectorDoneInv
<1>3. CASE Works /\ pc' = "crtc" /\ UNCHANGED <<sized, i, listed, p, connector, prop, heap>>
  <2>1. TypeOK'
    BY <1>1, <1>3, WorksType DEF TypeOK, Loops
  <2>2. ControlInv'
    BY <1>1, <1>3 DEF ControlInv, Sizing, WithConnector, Loops
  <2>3. AccountInv'
    BY <1>1, <1>3 DEF IInv, AccountInv, Within, Copying, Works
  <2>4. MemorySafe'
    BY <1>1, <1>3 DEF IInv, MemorySafe, Works
  <2> QED
    BY <2>1, <2>2, <2>3, <2>4 DEF IInv
<1>4. CASE IoctlFails /\ Return /\ UNCHANGED heap
  <2>1. Fails /\ LosesOne
    BY <1>1, <1>4, Failing, NothingReturned
  <2> QED
    BY <1>1, <1>4, <2>1, ReturnInv
<1> QED
  BY <1>2, <1>3, <1>4 DEF GetEncoder, GetCrtc, Goto

LEMMA KernelChangesInv == ASSUME IInv, KernelChanges PROVE IInv'
<1>1. /\ UNCHANGED <<pc, sized, i, listed, p, resource, connector, prop, heap, overread, queries,
                     failures, oom>>
      /\ events' = events + 1 /\ events < MaxEvents
      /\ \E a \in Volatile, n \in 0 .. MaxCount : kernel' = [kernel EXCEPT ![a] = n]
  BY DEF KernelChanges, Happens, callVars, pointerVars
<1>2. events' \in 0 .. MaxEvents /\ failures' \in 0 .. events'
  <2>1. events \in 0 .. MaxEvents /\ failures \in 0 .. events
    BY DEF IInv, TypeOK
  <2> QED
    BY <1>1, <2>1, Constants
<1>3. TypeOK'
  <2>1. kernel' \in [Volatile -> 0 .. MaxCount]
    BY <1>1 DEF IInv, TypeOK
  <2> QED
    BY <1>1, <1>2, <2>1 DEF IInv, TypeOK, Loops
<1>4. ControlInv' /\ AccountInv' /\ MemorySafe'
  BY <1>1 DEF IInv, ControlInv, AccountInv, MemorySafe, Within, Sizing, Copying, WithConnector
<1> QED
  BY <1>3, <1>4 DEF IInv

LEMMA NextInv == IInv /\ [Next]_vars => IInv'
<1> SUFFICES ASSUME IInv, [Next]_vars PROVE IInv'
  OBVIOUS
<1>1. CASE Getters
  BY <1>1, GetModeResourceInv, ResourcesChangedInv, CopyModeResourceInv, GetConnectorInv,
     CopyConnectorInv, GetPropertyInv, UsePropertyInv, GetPropBlobInv, GetEncoderInv DEF Getters
<1>2. CASE UNCHANGED vars
  <2>1. UNCHANGED <<kernel, pc, sized, i, listed, p, resource, connector, prop, heap, overread,
                    queries, events, failures, oom>>
    BY <1>2 DEF vars, callVars, pointerVars
  <2>2. TypeOK' /\ ControlInv'
    BY <2>1 DEF IInv, TypeOK, ControlInv, Sizing, WithConnector
  <2>3. AccountInv' /\ MemorySafe'
    BY <2>1 DEF IInv, AccountInv, MemorySafe, Within, Copying
  <2> QED
    BY <2>2, <2>3 DEF IInv
<1> QED
  BY <1>1, <1>2, StartQueryInv, KernelChangesInv DEF Next

-----------------------------------------------------------------------------

\* The invariant is inductive: it holds throughout every behaviour of the getters.
THEOREM Invariance == Spec => []IInv
<1> QED
  BY InitInv, NextInv, PTL DEF Spec

\* The loops stay inside the connectors of the resource and the properties of the
\* connector, for any numbers of them.
THEOREM TypeCorrect == Spec => []TypeOK
<1>1. IInv => TypeOK
  BY DEF IInv
<1> QED
  BY <1>1, Invariance, PTL

\* Of each kind of block, no more are lost than calls failed, besides one mode
\* resource for each query; for any number of queries.
THEOREM LossesBounded == Spec => []HeapAccounted
<1>1. IInv => HeapAccounted
  <2> SUFFICES ASSUME IInv, NEW kind \in Kind PROVE heap[kind] - Held(kind) \in 0 .. failures
    BY DEF HeapAccounted
  <2>2. CASE kind = "resource"
    BY <2>2 DEF IInv, AccountInv, Within, Held
  <2>3. CASE kind = "connector"
    BY <2>3, HeapInts DEF IInv, AccountInv, Within, Held
  <2>4. CASE kind = "property"
    BY <2>4, HeapInts DEF IInv, AccountInv, Within, Held
  <2>5. CASE kind = "blob"
    BY <2>5, HeapInts DEF IInv, AccountInv, Within, Held
  <2>6. CASE kind = "buffers"
    BY <2>6, HeapInts DEF IInv, AccountInv, Within, Held, Copying
  <2> QED
    BY <2>2, <2>3, <2>4, <2>5, <2>6 DEF Kind
<1> QED
  BY <1>1, Invariance, PTL

\* Unless memory runs out, no pointer is used that is NULL or stale, whatever
\* calls fail and however the kernel's sizes change.
THEOREM PointersSafe == Spec => []MemorySafe
<1>1. IInv => MemorySafe
  BY DEF IInv
<1> QED
  BY <1>1, Invariance, PTL

-----------------------------------------------------------------------------
(* What a query still has before it.  The measure is lexicographic: the    *)
(* failures and changes that may still come; whether the resource has to   *)
(* be sized again; the connectors, the calls for one of them, and the      *)
(* properties that are left; and whether the present one was read.         *)

EventsLeft == MaxEvents - events
Stage ==
    CASE pc = "copy_resources" /\ sized # kernel["connectors"] -> 3
      [] pc = "resources" -> 2
      [] pc = "copy_resources" /\ sized = kernel["connectors"] -> 1
      [] OTHER -> 0
ConnectorsLeft == listed - i
Phase ==
    CASE pc = "connector" -> 6 [] pc = "copy_connector" -> 5 [] pc = "edid" -> 4
      [] pc = "dpms" -> 3 [] pc = "encoder" -> 2 [] pc = "crtc" -> 1 [] OTHER -> 0
PropertiesLeft == PropCount - p
Unread == IF prop = "live" THEN 0 ELSE 1

Measures == [1 .. 6 -> Nat]
Left == <<EventsLeft, Stage, ConnectorsLeft, Phase, PropertiesLeft, Unread>>
Below == LexProductOrdering(OpToRel(<, Nat), Nat, 6)

\* the first of the six that changes gets smaller
Lower ==
    \/ EventsLeft' < EventsLeft
    \/ EventsLeft' = EventsLeft /\ Stage' < Stage
    \/ /\ EventsLeft' = EventsLeft /\ Stage' = Stage
       /\ \/ ConnectorsLeft' < ConnectorsLeft
          \/ ConnectorsLeft' = ConnectorsLeft /\ Phase' < Phase
          \/ /\ ConnectorsLeft' = ConnectorsLeft /\ Phase' = Phase
             /\ \/ PropertiesLeft' < PropertiesLeft
                \/ PropertiesLeft' = PropertiesLeft /\ Unread' < Unread

LEMMA LeftType == TypeOK => Left \in Measures
<1> SUFFICES ASSUME TypeOK PROVE Left \in Measures
  OBVIOUS
<1>1. EventsLeft \in Nat /\ ConnectorsLeft \in Nat /\ PropertiesLeft \in Nat
  <2>1. /\ events \in 0 .. MaxEvents /\ listed \in 0 .. MaxCount /\ i \in 0 .. listed
        /\ p \in 1 .. PropCount
    BY DEF TypeOK
  <2> QED
    BY <2>1, Constants DEF EventsLeft, ConnectorsLeft, PropertiesLeft
<1>2. Stage \in Nat /\ Phase \in Nat /\ Unread \in Nat
  BY DEF Stage, Phase, Unread
<1> QED
  BY <1>1, <1>2 DEF Left, Measures

LEMMA LowerIsBelow ==
    ASSUME Left \in Measures, Left' \in Measures, Lower
    PROVE  <<Left', Left>> \in Below
<1> DEFINE a == Left'
           b == Left
           R == OpToRel(<, Nat)
<1>1. /\ a[1] = EventsLeft' /\ a[2] = Stage' /\ a[3] = ConnectorsLeft' /\ a[4] = Phase'
      /\ a[5] = PropertiesLeft' /\ a[6] = Unread'
      /\ b[1] = EventsLeft /\ b[2] = Stage /\ b[3] = ConnectorsLeft /\ b[4] = Phase
      /\ b[5] = PropertiesLeft /\ b[6] = Unread
  BY DEF Left
<1> HIDE DEF a, b
<1>2. \E j \in 1 .. 6 : (\A k \in 1 .. j - 1 : a[k] = b[k]) /\ a[j] < b[j]
  <2>1. \A j \in 1 .. 6 : \A k \in 1 .. j - 1 : k \in {1, 2, 3, 4, 5}
    OBVIOUS
  <2>2. CASE a[1] < b[1]
    BY <2>2
  <2>3. CASE a[1] = b[1] /\ a[2] < b[2]
    BY <2>3
  <2>4. CASE a[1] = b[1] /\ a[2] = b[2] /\ a[3] < b[3]
    BY <2>4
  <2>5. CASE a[1] = b[1] /\ a[2] = b[2] /\ a[3] = b[3] /\ a[4] < b[4]
    BY <2>5
  <2>6. CASE a[1] = b[1] /\ a[2] = b[2] /\ a[3] = b[3] /\ a[4] = b[4] /\ a[5] < b[5]
    BY <2>6
  <2>7. CASE /\ a[1] = b[1] /\ a[2] = b[2] /\ a[3] = b[3] /\ a[4] = b[4] /\ a[5] = b[5]
             /\ a[6] < b[6]
    BY <2>7
  <2> QED
    BY <1>1, <2>2, <2>3, <2>4, <2>5, <2>6, <2>7 DEF Lower
<1>3. a \in [1 .. 6 -> Nat] /\ b \in [1 .. 6 -> Nat]
  BY DEF a, b, Measures
<1>4. \A j \in 1 .. 6 : a[j] < b[j] => <<a[j], b[j]>> \in R
  BY <1>3 DEF OpToRel
<1> QED
  BY <1>2, <1>3, <1>4 DEF Below, LexProductOrdering, a, b

\* Every step but the start of a query lowers the measure.
LEMMA StepLowers ==
    ASSUME TypeOK, TypeOK', Getters \/ KernelChanges
    PROVE  Lower
<1> USE Constants
<1>1. ASSUME Happens PROVE Lower
  <2>1. events' = events + 1 /\ events \in Nat
    BY <1>1 DEF Happens, TypeOK
  <2> QED
    BY <2>1 DEF Lower, EventsLeft
<1>2. ASSUME IoctlFails \/ OutOfMemory PROVE Lower
  BY <1>1, <1>2 DEF IoctlFails, OutOfMemory
<1>3. ASSUME Works PROVE EventsLeft' = EventsLeft
  BY <1>3 DEF Works, EventsLeft
<1>4. ASSUME NEW n, NextConnector(n, listed), n = i + 1, pc \notin {"resources", "copy_resources"}
      PROVE  Stage' = Stage /\ ConnectorsLeft' < ConnectorsLeft
  <2>1. Stage' = 0 /\ Stage = 0
    BY <1>4 DEF Stage, NextConnector
  <2> QED
    BY <1>4, <2>1 DEF NextConnector, ConnectorsLeft, TypeOK
<1>5. ASSUME NextProperty, UNCHANGED <<i, listed>>, pc \in Loops
      PROVE  /\ Stage' = Stage /\ ConnectorsLeft' = ConnectorsLeft
             /\ \/ Phase' < Phase
                \/ Phase' = Phase /\ PropertiesLeft' < PropertiesLeft
  <2>1. Stage' = 0 /\ Stage = 0
    BY <1>5 DEF Stage, NextProperty, Loops
  <2>2. ConnectorsLeft' = ConnectorsLeft
    BY <1>5 DEF ConnectorsLeft
  <2>3. CASE p < PropCount
    BY <1>5, <2>1, <2>2, <2>3 DEF NextProperty, Phase, PropertiesLeft, TypeOK
  <2>4. CASE ~(p < PropCount)
    BY <1>5, <2>1, <2>2, <2>4 DEF NextProperty, Phase, Loops
  <2> QED
    BY <2>3, <2>4
<1>6. CASE GetModeResource
  <2>1. CASE Works /\ sized' = kernel["connectors"] /\ Goto("copy_resources")
    <3>1. Stage = 2 /\ Stage' = 1
      BY <1>6, <2>1 DEF GetModeResource, Goto, Stage
    <3> QED
      BY <1>3, <2>1, <3>1 DEF Lower
  <2> QED
    BY <1>2, <1>6, <2>1 DEF GetModeResource
<1>7. CASE ResourcesChanged
  <2>1. Stage = 3 /\ Stage' = 2
    BY <1>7 DEF ResourcesChanged, Retry, Stage
  <2> QED
    BY <1>3, <1>7, <2>1 DEF Lower, ResourcesChanged
<1>8. CASE CopyModeResource
  <2>1. CASE Works /\ sized = kernel["connectors"] /\ NextConnector(0, kernel["connectors"])
    <3>1. Stage = 1 /\ Stage' = 0
      BY <1>8, <2>1 DEF CopyModeResource, NextConnector, Stage
    <3> QED
      BY <1>3, <2>1, <3>1 DEF Lower
  <2> QED
    BY <1>2, <1>8, <2>1 DEF CopyModeResource
<1>9. CASE GetConnector
  <2>1. CASE Works /\ Goto("copy_connector") /\ UNCHANGED <<i, listed>>
    <3>1. Stage = 0 /\ Stage' = 0 /\ Phase = 6 /\ Phase' = 5 /\ ConnectorsLeft' = ConnectorsLeft
      BY <1>9, <2>1 DEF GetConnector, Goto, Stage, Phase, ConnectorsLeft
    <3> QED
      BY <1>3, <2>1, <3>1 DEF Lower
  <2> QED
    BY <1>2, <1>9, <2>1 DEF GetConnector
<1>10. CASE CopyConnector
  <2>1. CASE Works /\ NextConnector(i + 1, listed)
    BY <1>3, <1>4, <1>10, <2>1 DEF CopyConnector, Lower
  <2>2. CASE Works /\ Goto("edid") /\ UNCHANGED <<i, listed>>
    <3>1. Stage = 0 /\ Stage' = 0 /\ Phase = 5 /\ Phase' = 4 /\ ConnectorsLeft' = ConnectorsLeft
      BY <1>10, <2>2 DEF CopyConnector, Goto, Stage, Phase, ConnectorsLeft
    <3> QED
      BY <1>3, <2>2, <3>1 DEF Lower
  <2> QED
    BY <1>2, <1>10, <2>1, <2>2 DEF CopyConnector, UseConnector
<1>11. CASE GetProperty
  <2>1. CASE Works /\ prop' = "live" /\ UNCHANGED <<pc, i, listed, p, connector>>
    <3>1. /\ Stage = 0 /\ Stage' = 0 /\ Phase' = Phase /\ ConnectorsLeft' = ConnectorsLeft
          /\ PropertiesLeft' = PropertiesLeft /\ Unread = 1 /\ Unread' = 0
      BY <1>11, <2>1 DEF GetProperty, Loops, Stage, Phase, ConnectorsLeft, PropertiesLeft, Unread
    <3> QED
      BY <1>3, <2>1, <3>1 DEF Lower
  <2> QED
    BY <1>2, <1>11, <2>1 DEF GetProperty
<1>12. CASE UseProperty
  BY <1>3, <1>5, <1>12 DEF UseProperty, Lower
<1>13. CASE GetPropBlob
  <2>1. CASE Works /\ NextProperty /\ UNCHANGED <<i, listed>>
    BY <1>3, <1>5, <1>13, <2>1 DEF GetPropBlob, Loops, Lower
  <2> QED
    BY <1>2, <1>13, <2>1 DEF GetPropBlob
<1>14. CASE GetEncoder \/ GetCrtc
  <2>1. CASE Works /\ ConnectorDone
    BY <1>3, <1>4, <1>14, <2>1 DEF GetEncoder, GetCrtc, ConnectorDone, Lower
  <2>2. CASE Works /\ Goto("crtc") /\ UNCHANGED <<i, listed>> /\ pc = "encoder"
    <3>1. Stage = 0 /\ Stage' = 0 /\ Phase = 2 /\ Phase' = 1 /\ ConnectorsLeft' = ConnectorsLeft
      BY <2>2 DEF Goto, Stage, Phase, ConnectorsLeft
    <3> QED
      BY <1>3, <2>2, <3>1 DEF Lower
  <2> QED
    BY <1>2, <1>14, <2>1, <2>2 DEF GetEncoder, GetCrtc
<1>15. CASE KernelChanges
  BY <1>1, <1>15 DEF KernelChanges
<1> QED
  BY <1>6, <1>7, <1>8, <1>9, <1>10, <1>11, <1>12, <1>13, <1>14, <1>15 DEF Getters

\* A query cannot go on for ever: every step that does not start one, whatever fails
\* and however often the kernel changes its resources under it, lowers a measure for
\* which there is no infinite descent (the loops of query_display_info and the retry
\* of gpuGetModeResouce).
THEOREM QueriesDescend ==
    /\ IsWellFoundedOn(Below, Measures)
    /\ Spec => [](Left \in Measures)
    /\ Spec => [][StartQuery \/ <<Left', Left>> \in Below]_vars
<1>1. IsWellFoundedOn(Below, Measures)
  BY NatLessThanWellFounded, WFLexProductOrdering DEF Below, Measures
<1>2. IInv => TypeOK /\ Left \in Measures
  BY LeftType DEF IInv
<1>3. ASSUME TypeOK, TypeOK', Left \in Measures, (Left \in Measures)', [Next]_vars
      PROVE  [StartQuery \/ <<Left', Left>> \in Below]_vars
  <2>1. CASE Getters \/ KernelChanges
    BY <1>3, <2>1, StepLowers, LowerIsBelow
  <2> QED
    BY <1>3, <2>1 DEF Next
<1>4. Spec => [][StartQuery \/ <<Left', Left>> \in Below]_vars
  BY <1>2, <1>3, Invariance, PTL DEF Spec
<1>5. Spec => [](Left \in Measures)
  BY <1>2, Invariance, PTL
<1> QED
  BY <1>1, <1>4, <1>5

=============================================================================
