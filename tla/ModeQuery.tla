----------------------------- MODULE ModeQuery -----------------------------
(* One query of the Display page at the level of its calls: query_display_ *)
(* info and getConnectorPropBlob/Enum (tui/displayinfo.c) on the getters   *)
(* of core/gpumode.c.  A getter asks the kernel for the sizes, allocates,  *)
(* asks again for the contents and copies them; in between the sizes may   *)
(* change.  Each ioctl may fail and memory may run out.  The contents are  *)
(* abstracted: Display models what the page shows of them.                 *)
EXTENDS Integers

CONSTANTS
    MaxCount,       \* bound on the number of connectors and on that of modes
    PropCount,      \* properties of a connector, in the order of the kernel
    EdidAt,         \* the one that is called EDID and is a blob
    MaxQueries,     \* bound on the queries
    MaxEvents       \* bound on failures and on changes of the sizes

ASSUME SizeAssumption == MaxCount \in Nat /\ MaxQueries \in Nat /\ MaxEvents \in Nat
ASSUME PropAssumption == PropCount \in Nat /\ EdidAt \in 1 .. PropCount

VARIABLES
    kernel,         \* the sizes that may change: connectors, modes of a connector
    pc,             \* the call that is next; Copy... when its first ioctl was made
    sized,          \* the size the first ioctl of the present getter returned
    i, listed, p,   \* loops over the connectors of the resource, and the properties
    resource, connector, prop,     \* the caller's pointers
    heap,           \* blocks allocated and not freed, per kind
    overread,       \* getters that copied more than the kernel had filled
    queries,        \* mode resources that queries received
    events,
    failures, oom   \* history: calls that failed, and whether memory ran out

callVars == <<pc, sized, i, listed, p>>
pointerVars == <<resource, connector, prop>>
vars == <<kernel, callVars, pointerVars, heap, overread, queries, events, failures, oom>>

Kind == {"resource", "connector", "property", "blob", "buffers"}
Volatile == {"connectors", "modes"}
Loops == {"edid", "dpms"}

Happens == events < MaxEvents /\ events' = events + 1
Plus(h, k) == [h EXCEPT ![k] = @ + 1]
Minus(h, k) == [h EXCEPT ![k] = @ - 1]

-----------------------------------------------------------------------------
(* What the kernel answers.                                                *)

IoctlFails == Happens /\ failures' = failures + 1 /\ UNCHANGED oom
OutOfMemory == Happens /\ failures' = failures + 1 /\ oom' = TRUE
Works == UNCHANGED <<events, failures, oom>>

\* a monitor on an MST hub comes or goes, or a probe changes the list of modes
KernelChanges ==
    /\ pc # "crashed" /\ Happens
    /\ \E a \in Volatile, n \in 0 .. MaxCount : n # kernel[a] /\ kernel' = [kernel EXCEPT ![a] = n]
    /\ UNCHANGED <<callVars, pointerVars, heap, overread, queries, failures, oom>>

-----------------------------------------------------------------------------

Init ==
    /\ kernel \in [Volatile -> 0 .. MaxCount]
    /\ pc = "idle" /\ sized = 0 /\ i = 0 /\ listed = 0 /\ p = 1
    /\ resource = "null" /\ connector = "null" /\ prop = "null"
    /\ heap = [k \in Kind |-> 0] /\ overread = {} /\ queries = 0
    /\ events = 0 /\ failures = 0 /\ oom = FALSE

\* query_display_info is left; its local variables are gone
Return ==
    /\ pc' = "idle" /\ sized' = 0 /\ i' = 0 /\ listed' = 0 /\ p' = 1
    /\ connector' = "null" /\ prop' = "null"

\* a NULL pointer, or one to memory that was freed, is used
Crash == pc' = "crashed" /\ UNCHANGED <<sized, i, listed, p, connector, prop>>

Goto(where) == pc' = where

\* the static pointer keeps the resource of the query before
StartQuery ==
    /\ pc = "idle" /\ queries < MaxQueries
    /\ Goto("resources")
    /\ resource' = IF resource = "live" THEN "stale" ELSE resource
    /\ connector' = "null" /\ i' = 0 /\ listed' = 0
    /\ UNCHANGED <<kernel, sized, p, prop, heap, overread, queries>> /\ Works

-----------------------------------------------------------------------------
(* gpuGetModeResouce: the id arrays.  Running out of memory it returns 0,  *)
(* the result of the ioctl, and leaves the caller's pointer as it was.     *)

\* the bug of a loop that goes one connector too far
NextConnectorLate(n, count) ==
    /\ i' = n /\ listed' = count
    /\ IF n <= count THEN pc' = "connector" ELSE pc' = "idle"
\* the loop over the connectors of whatever resource the caller has; at its end
\* query_display_info returns
NextConnector(n, count) ==
    /\ i' = n /\ listed' = count
    /\ IF n < count THEN pc' = "connector" ELSE pc' = "idle"

ResourceUnset ==
    /\ IF resource \in {"null", "gutted"} THEN Crash /\ UNCHANGED resource
       ELSE /\ resource' = "stale"
            /\ \E n \in 0 .. MaxCount : NextConnector(0, n)
            /\ UNCHANGED <<connector, prop, p, sized>>

\* the bug of treating the failed ioctl as the failed allocations are
FirstFailsUnset == ResourceUnset
FirstFails == Return /\ UNCHANGED resource

GetModeResource ==
    /\ pc = "resources"
    /\ \/ Works /\ sized' = kernel["connectors"] /\ heap' = Plus(heap, "buffers")
          /\ Goto("copy_resources")
          /\ UNCHANGED <<i, listed, p, pointerVars>>
       \/ IoctlFails /\ FirstFails /\ UNCHANGED heap
       \/ OutOfMemory /\ ResourceUnset /\ UNCHANGED heap
    /\ UNCHANGED <<kernel, overread, queries>>

\* the bug of a retry that asks for the contents again without sizing them anew
RetryUnsized == pc' = "copy_resources" /\ UNCHANGED <<sized, heap>>
Retry == pc' = "resources" /\ sized' = 0 /\ heap' = Minus(heap, "buffers")

\* a changed size starts it all over
ResourcesChanged ==
    /\ pc = "copy_resources" /\ sized # kernel["connectors"]
    /\ Retry /\ Works
    /\ UNCHANGED <<kernel, i, listed, p, pointerVars, overread, queries>>

CopyModeResource ==
    /\ pc = "copy_resources"
    /\ \/ /\ sized = kernel["connectors"]
          /\ Works /\ resource' = "live" /\ queries' = queries + 1 /\ sized' = 0
          /\ heap' = Plus(Minus(heap, "buffers"), "resource")
          /\ NextConnector(0, kernel["connectors"])
          /\ UNCHANGED <<connector, prop, p>>
       \/ IoctlFails /\ Return /\ UNCHANGED <<resource, heap, queries>>
       \/ /\ sized = kernel["connectors"]
          /\ OutOfMemory /\ UNCHANGED queries
          /\ \/ ResourceUnset /\ heap' = Minus(heap, "buffers")
             \/ Return /\ resource' = "gutted" /\ heap' = Plus(heap, "resource")
    /\ UNCHANGED <<kernel, overread>>

-----------------------------------------------------------------------------
(* gpuGetConnector, gpuFreeConnector: encoders, modes and properties.      *)

FreeConnector(h) == Minus(h, "connector")

\* the connector was read: without a monitor it is freed, else its properties follow
UseConnector(h) ==
    \/ /\ heap' = FreeConnector(h) /\ connector' = "freed"
       /\ NextConnector(i + 1, listed) /\ UNCHANGED <<p, prop>>
    \/ heap' = h /\ connector' = "live" /\ p' = 1 /\ prop' = "null"
       /\ Goto("edid") /\ UNCHANGED <<i, listed>>

\* it was not, and the caller goes on with the pointer of the last round
ConnectorUnset == Crash

GetConnector ==
    /\ pc = "connector"
    /\ \/ Works /\ sized' = kernel["modes"] /\ heap' = Plus(heap, "buffers")
          /\ Goto("copy_connector")
          /\ UNCHANGED <<i, listed, p, connector, prop>>
       \/ IoctlFails /\ Return /\ UNCHANGED heap
       \/ OutOfMemory /\ ConnectorUnset /\ UNCHANGED heap
    /\ UNCHANGED <<kernel, resource, overread, queries>>

CopyConnector ==
    /\ pc = "copy_connector"
    /\ \/ /\ Works /\ sized' = 0
          /\ UseConnector(Plus(Minus(heap, "buffers"), "connector"))
          /\ overread' = overread \cup (IF kernel["modes"] > sized THEN {"connector"} ELSE {})
       \/ IoctlFails /\ Return /\ UNCHANGED <<heap, overread>>
       \/ OutOfMemory /\ UNCHANGED overread
          /\ \/ ConnectorUnset /\ heap' = Minus(heap, "buffers")
             \/ Return /\ UNCHANGED heap
    /\ UNCHANGED <<kernel, resource, queries>>

-----------------------------------------------------------------------------
(* gpuGetProperty, called by getConnectorPropBlob ("edid") and then by     *)
(* getConnectorPropEnum ("dpms") for each property of the connector.       *)

\* the bug of a loop that frees no property
FreeNoProperty(h) == h
FreeProperty(h) == Minus(h, "property")

\* after the last property of a loop: the other loop, the encoder, or, for a
\* monitor that is off, the next connector
NextProperty ==
    IF p < PropCount
    THEN p' = p + 1 /\ prop' = "freed" /\ UNCHANGED pc
    ELSE p' = 1 /\ prop' = "null" /\ pc' = IF pc = "edid" THEN "dpms" ELSE "encoder"

GetProperty ==
    /\ pc \in Loops /\ prop # "live"
    /\ \/ /\ Works /\ sized' = 1 /\ prop' = "live"
          /\ heap' = Plus(heap, "property")
          /\ UNCHANGED <<pc, i, listed, p, connector>>
       \/ IoctlFails /\ Return /\ UNCHANGED heap             \* of the first ioctl
       \/ IoctlFails /\ Return /\ heap' = Plus(heap, "buffers")   \* of the second
       \/ OutOfMemory /\ UNCHANGED heap /\ Crash             \* it returns 0
       \/ OutOfMemory /\ Return /\ heap' = Plus(heap, "buffers")  \* for the copies
    /\ UNCHANGED <<kernel, resource, overread, queries>>

\* a property that is not the one looked for, or DPMS, which is copied
UseProperty ==
    /\ pc \in Loops /\ prop = "live" /\ (pc = "edid" => p # EdidAt)
    /\ heap' = FreeProperty(heap) /\ NextProperty /\ sized' = 0 /\ Works
    /\ UNCHANGED <<kernel, i, listed, resource, connector, overread, queries>>

-----------------------------------------------------------------------------
(* gpuGetPropBlob: an error is forgotten when another property follows.    *)

FreePropBlob(h) == Minus(h, "blob")

GetPropBlob ==
    /\ pc = "edid" /\ prop = "live" /\ p = EdidAt
    /\ \/ Works /\ heap' = FreeProperty(FreePropBlob(Plus(heap, "blob"))) /\ NextProperty
          /\ sized' = 0 /\ UNCHANGED <<i, listed, connector>>
       \/ \E h \in {heap, Plus(heap, "buffers")} :     \* the first ioctl, or the second
             /\ IoctlFails /\ heap' = FreeProperty(h)
             /\ IF p < PropCount
                THEN NextProperty /\ sized' = 0 /\ UNCHANGED <<i, listed, connector>>
                ELSE Return
       \/ OutOfMemory /\ Crash /\ UNCHANGED heap       \* propBlob is NULL
    /\ UNCHANGED <<kernel, resource, overread, queries>>

-----------------------------------------------------------------------------
(* gpuGetEncoder and gpuGetCrtc: one ioctl each.                           *)

\* the round of the loop ends with gpuFreeConnector
ConnectorDone ==
    /\ heap' = FreeConnector(heap) /\ connector' = "freed" /\ NextConnector(i + 1, listed)

\* a monitor that is off has no encoder
GetEncoder ==
    /\ pc = "encoder"
    /\ \/ Works /\ ConnectorDone /\ UNCHANGED <<sized, p, prop>>
       \/ Works /\ Goto("crtc") /\ UNCHANGED <<sized, i, listed, p, connector, prop, heap>>
       \/ IoctlFails /\ Return /\ UNCHANGED heap
    /\ UNCHANGED <<kernel, resource, overread, queries>>

GetCrtc ==
    /\ pc = "crtc"
    /\ \/ Works /\ ConnectorDone /\ UNCHANGED <<sized, p, prop>>
       \/ IoctlFails /\ Return /\ UNCHANGED heap
    /\ UNCHANGED <<kernel, resource, overread, queries>>

Getters ==
    \/ GetModeResource \/ ResourcesChanged \/ CopyModeResource
    \/ GetConnector \/ CopyConnector
    \/ GetProperty \/ UseProperty \/ GetPropBlob
    \/ GetEncoder \/ GetCrtc

Next == StartQuery \/ Getters \/ KernelChanges

Spec == Init /\ [][Next]_vars

\* every call of a query returns
FairSpec == Spec /\ WF_vars(Getters)

-----------------------------------------------------------------------------
(* Properties                                                              *)

\* Every variable keeps the values the code can give it; the loops stay inside
\* the connectors of the resource and the properties of the connector.
TypeOK ==
    /\ kernel \in [Volatile -> 0 .. MaxCount]
    /\ pc \in {"idle", "resources", "copy_resources", "connector", "copy_connector",
               "encoder", "crtc", "crashed"} \cup Loops
    /\ sized \in 0 .. MaxCount + 1
    /\ listed \in 0 .. MaxCount /\ i \in 0 .. listed
    /\ (pc \in {"connector", "copy_connector", "encoder", "crtc"} \cup Loops => i < listed)
    /\ p \in 1 .. PropCount
    /\ resource \in {"null", "live", "stale", "gutted"}
    /\ connector \in {"null", "live", "freed"} /\ prop \in {"null", "live", "freed"}
    /\ heap \in [Kind -> Int] /\ overread \subseteq {"resources", "connector"}
    /\ queries \in Nat /\ events \in 0 .. MaxEvents /\ failures \in 0 .. events
    /\ oom \in BOOLEAN

\* the blocks that are in use: of mode resources one for each query so far, as
\* query_display_info frees none of them
Held(kind) ==
    CASE kind = "resource" -> queries
      [] kind = "connector" -> IF connector = "live" THEN 1 ELSE 0
      [] kind = "property" -> IF prop = "live" THEN 1 ELSE 0
      [] kind = "blob" -> 0
      [] kind = "buffers" -> IF pc \in {"copy_resources", "copy_connector"} THEN 1 ELSE 0

\* Whatever connectors, properties and blobs a query goes through, it frees them
\* as often as it got them; only a failing call may leave blocks behind, at
\* most one of each kind, and each query leaves its mode resource.
HeapAccounted == \A kind \in Kind : heap[kind] - Held(kind) \in 0 .. failures

\* Unless memory runs out, no query uses a pointer that is NULL, was freed, or
\* belongs to the query before, although the getters return 0 without a result
\* on some of their error paths.  And the id arrays are never copied beyond what
\* the kernel filled, however the connectors change between the two ioctls; the
\* modes of a connector may be.
MemorySafe ==
    /\ ~oom => /\ pc # "crashed"
               /\ i < listed => resource = "live"
    /\ overread \subseteq {"connector"}

\* Each query comes to an end, however often the resources change under it.
QueryReturns == []<>(pc \in {"idle", "crashed"})

=============================================================================
