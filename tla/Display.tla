------------------------------ MODULE Display ------------------------------
(***************************************************************************)
(* The Display page (src/tui/displayinfo.c) against monitors that are      *)
(* plugged in, unplugged, woken and put to sleep at any time, also between *)
(* the ioctls of one query.                                                *)
(*                                                                         *)
(* A query reads the connectors in order into display_state.  Only if      *)
(* needUpdateDisplayInfo finds that it differs from current_display_state  *)
(* is it copied, its EDIDs parsed and the page drawn from it.  A monitor   *)
(* is abstracted to its identity, which its EDID carries, the resolution   *)
(* it runs at, and whether it is on (the DPMS value and the presence of an *)
(* encoder, which change together).  What is read of one connector is read *)
(* at one moment.  A device whose driver comes late has a message instead  *)
(* of the page until then.                                                 *)
(*                                                                         *)
(* The page is drawn into the curses buffer of the main window, which the  *)
(* callers clear before, deviceUpdate excepted: a driver that appears, of  *)
(* any device, has the page drawn over what the window holds.              *)
(***************************************************************************)
EXTENDS Naturals, Sequences

CONSTANTS
    Devices,        \* the GPUs
    FirstDevice,    \* the active one at the start
    LateDevices,    \* those whose driver is not loaded at the start
    Monitors,       \* the monitors at hand
    NoMonitor,      \* no monitor, no EDID, no device
    Connectors,     \* the number of connectors of each device
    Resolution,     \* the resolution each monitor runs at
    Serials,        \* the monitors whose EDID has a serial number
    MAX_DISPLAY_COUNT,  \* the displays display_state has room for, 8 in the code
    MaxFailures,    \* bound: failing ioctls
    MaxChanges      \* bound: changes of the monitors

ASSUME DeviceAssumption ==
    /\ FirstDevice \in Devices /\ LateDevices \subseteq Devices
    /\ NoMonitor \notin Devices /\ NoMonitor \notin Monitors
ASSUME ConnectorsAssumption == Connectors \in [Devices -> Nat]
ASSUME RoomAssumption == MAX_DISPLAY_COUNT \in Nat
ASSUME BoundAssumption == MaxFailures \in Nat /\ MaxChanges \in Nat

VARIABLES
    sinks,          \* what is plugged into each connector
    loaded,         \* the devices whose driver is loaded
    active,         \* the active device
    onTab,          \* the Display page is the active one
    pc,             \* the handler that runs: none, the page's init or its update;
                    \* "overrun" once it has written behind display_state
    next,           \* the connector query_display_info reads next
    current_device, \* the tag of getAllInfo
    display,        \* display_state
    current,        \* current_display_state
    buffer,         \* what was drawn in the main window since it was cleared
    screen,         \* what the terminal shows of it
    queried,        \* history: the last query reached its end
    undrawn,        \* history: no draw since the page's last error
    late,           \* history: a driver appeared since the window was cleared
    failures, changes

worldVars == <<sinks, changes>>
userVars  == <<loaded, active, onTab>>
drawVars  == <<buffer, screen, undrawn, late>>
vars == <<worldVars, userVars, drawVars, pc, next, current_device, display, current,
          queried, failures>>

Empty == [monitor |-> NoMonitor, on |-> FALSE]
Sinks == {Empty} \cup [monitor : Monitors, on : BOOLEAN]
Infos == [conn : Nat, monitor : Monitors, on : BOOLEAN, edid : Monitors \cup {NoMonitor}]

\* struct DisplayState, with the device it was queried of; named and labelled
\* are the displays whose EDID was parsed and whose connector name was set
States  == [valid : BOOLEAN, of : Devices \cup {NoMonitor}, connectors : Nat,
            list : Seq(Infos), named : SUBSET Nat, labelled : SUBSET Nat]
Unknown == [valid |-> FALSE, of |-> NoMonitor, connectors |-> 0,
            list |-> <<>>, named |-> {}, labelled |-> {}]

\* the window is empty, has another page, a dialog or a message, or the displays,
\* mixed with what was there before and has not been cleared
Contents == [page : {"blank", "other", "display"}, state : States, mixed : BOOLEAN]
Blank    == [page |-> "blank", state |-> Unknown, mixed |-> FALSE]
Other    == [page |-> "other", state |-> Unknown, mixed |-> FALSE]
Drawn(s) == [page |-> "display", state |-> s, mixed |-> FALSE]

\* refresh_display_ui in a window that holds base
DrawnOver(base, s) == [Drawn(s) EXCEPT !.mixed = base \notin {Blank, Drawn(s)}]

-----------------------------------------------------------------------------
(* The comparison and the parser.                                          *)

\* what needUpdateDisplayInfo looks at: the size of a display that is off is 0
Look(info) == <<info.on, IF info.on THEN Resolution[info.monitor] ELSE NoMonitor>>

\* the bug of looking at the displays that are on only
NeedUpdateOfLit(cur, new) ==
    \/ ~cur.valid
    \/ cur.connectors # new.connectors
    \/ Len(cur.list) # Len(new.list)
    \/ \E i \in 1 .. Len(cur.list) :
          cur.list[i].on /\ Look(cur.list[i]) # Look(new.list[i])
NeedUpdate(cur, new) ==
    \/ ~cur.valid
    \/ cur.connectors # new.connectors
    \/ Len(cur.list) # Len(new.list)
    \/ \E i \in 1 .. Len(cur.list) : Look(cur.list[i]) # Look(new.list[i])

\* parseEDIDInfo returns an error at an EDID without a serial number, not at
\* a display without an EDID
Unparsed(info) == info.edid \in Monitors \ Serials

\* update_display_info: the display parseEDIDInfo fails on is the last one it
\* looks at, and gets no connector name
Parsed(s) ==
    LET good(n) == \A i \in 1 .. n : ~Unparsed(s.list[i])
    IN [s EXCEPT !.named    = {i \in 1 .. Len(s.list) : good(i - 1)},
                 !.labelled = {i \in 1 .. Len(s.list) : good(i)}]

ParsedAll(s) == \A i \in 1 .. Len(s.list) : ~Unparsed(s.list[i])

-----------------------------------------------------------------------------
(* The monitors.                                                           *)

Slots == UNION { {d} \X (1 .. Connectors[d]) : d \in Devices }

\* a monitor is plugged into one connector at most
OnePlug(s) ==
    \A p, q \in Slots :
        s[p[1]][p[2]].monitor = s[q[1]][q[2]].monitor /\ p # q =>
            s[p[1]][p[2]] = Empty

Init ==
    /\ sinks \in { [d \in Devices |-> [c \in 1 .. Connectors[d] |-> s[<<d, c>>]]] :
                       s \in [Slots -> Sinks] }
    /\ OnePlug(sinks)
    /\ loaded = Devices \ LateDevices
    /\ active = FirstDevice /\ onTab = FALSE /\ pc = "idle" /\ next = 1
    /\ current_device = NoMonitor
    /\ display = Unknown /\ current = Unknown /\ buffer = Other /\ screen = Other
    /\ queried = FALSE /\ undrawn = FALSE /\ late = FALSE
    /\ failures = 0 /\ changes = 0

\* a monitor is plugged in, unplugged, woken or put to sleep
Change ==
    /\ pc # "overrun"
    /\ changes < MaxChanges /\ changes' = changes + 1
    /\ \E p \in Slots, s \in Sinks :
          /\ sinks[p[1]][p[2]] # s
          /\ sinks' = [sinks EXCEPT ![p[1]][p[2]] = s]
          /\ s = Empty \/ sinks[p[1]][p[2]] = Empty \/ s.monitor = sinks[p[1]][p[2]].monitor
    /\ OnePlug(sinks')
    /\ UNCHANGED <<userVars, drawVars, pc, next, current_device, display, current,
                   queried, failures>>

-----------------------------------------------------------------------------
(* query_display_info                                                      *)

\* the bug of a query that goes on with the list of the query before
BeginQueryUncleared(handler, device) ==
    /\ pc' = handler /\ next' = 1
    /\ display' = [display EXCEPT !.valid = TRUE, !.of = device]

\* the state is cleared before anything is asked of the kernel
BeginQuery(handler, device) ==
    /\ pc' = handler /\ next' = 1
    /\ display' = [Unknown EXCEPT !.valid = TRUE, !.of = device]

Querying == pc \in {"init", "update"}
Room     == Len(display.list) < MAX_DISPLAY_COUNT

\* the bug of leaving the loop at a connector without a monitor
FirstGapEnds(sink) == IF sink = Empty THEN Connectors[active] + 1 ELSE next + 1
Following(sink) == next + 1

\* one connector that is read: a display is appended for a monitor; an EDID
\* that cannot be read, because it is gone by now, stays empty
Reads ==
    /\ Querying /\ next <= Connectors[active]
    /\ sinks[active][next] = Empty \/ Room
    /\ next' = Following(sinks[active][next])
    /\ LET sink == sinks[active][next]
       IN IF sink = Empty THEN UNCHANGED <<display, failures>>
          ELSE \E edid \in {sink.monitor, NoMonitor} :
                  /\ edid = sink.monitor => UNCHANGED failures
                  /\ edid = NoMonitor => failures < MaxFailures /\ failures' = failures + 1
                  /\ display' = [display EXCEPT
                        !.connectors = Connectors[active],
                        !.list = Append(@, [conn |-> next, monitor |-> sink.monitor,
                                            on |-> sink.on, edid |-> edid])]
    /\ UNCHANGED <<worldVars, userVars, drawVars, pc, current_device, current, queried>>

\* one display more than displayinfo[] has room for: nothing checks the count,
\* and what the program does after it has written behind the array is undefined
Overruns ==
    /\ Querying /\ next <= Connectors[active]
    /\ sinks[active][next] # Empty /\ ~Room
    /\ pc' = "overrun"
    /\ UNCHANGED <<worldVars, userVars, drawVars, next, current_device, display, current,
                   queried, failures>>

\* an ioctl fails: the handler returns with what was read so far, which the
\* next query clears before anything looks at it
QueryFails ==
    /\ Querying /\ failures < MaxFailures
    /\ failures' = failures + 1
    /\ pc' = "idle" /\ next' = 1 /\ queried' = FALSE /\ undrawn' = TRUE
    /\ UNCHANGED <<worldVars, userVars, current_device, display, current, buffer, screen,
                   late>>

\* an init always draws, an update what is new
Draws(changed) == pc = "init" \/ changed

\* what the handler draws over: the update clears the window itself, the init
\* finds it as its caller left it; the bug is an update that does not clear
BaseUncleared == buffer
Base == IF pc = "update" THEN Blank ELSE buffer

\* the rest of the handler: an error of update_display_info comes before the
\* WindowClear and the draw
QueryDone ==
    /\ Querying /\ next > Connectors[active]
    /\ pc' = "idle" /\ next' = 1 /\ queried' = TRUE
    /\ LET changed == NeedUpdate(current, display)
           failed  == changed /\ ~ParsedAll(display)
           draws   == Draws(changed) /\ ~failed
       IN /\ current' = IF changed THEN Parsed(display) ELSE current
          /\ IF draws
             THEN /\ buffer' = DrawnOver(Base, current') /\ screen' = buffer'
                  /\ late' = (late /\ pc = "init")
             ELSE UNCHANGED <<buffer, screen, late>>
          /\ undrawn' = IF draws THEN FALSE ELSE failed \/ undrawn
    /\ UNCHANGED <<worldVars, userVars, current_device, display, failures>>

-----------------------------------------------------------------------------
(* The handlers.                                                           *)

\* tabDisplayInfoInit in a window that holds base, on a terminal that shows
\* before: getAllInfo asks the kernel only for another device than the tag,
\* which it sets first
PageInit(base, before) ==
    IF active' = current_device
    THEN /\ buffer' = DrawnOver(base, current) /\ screen' = buffer' /\ undrawn' = FALSE
         /\ UNCHANGED <<pc, next, current_device, display>>
    ELSE /\ current_device' = active'
         /\ BeginQuery("init", active')
         /\ buffer' = base /\ screen' = before /\ UNCHANGED undrawn

\* mainInit with the page selected: without a driver, the message
MainInit(base, before) ==
    \/ /\ active' \notin loaded'
       /\ buffer' = Other /\ screen' = Other
       /\ UNCHANGED <<pc, next, current_device, display, undrawn>>
    \/ active' \in loaded' /\ PageInit(base, before)

\* WindowClear, then mainInit
ClearAndInit(before) == MainInit(Blank, before) /\ late' = FALSE

\* Ctrl-N and Ctrl-P to the page, and away from it
ShowPage ==
    /\ pc = "idle" /\ ~onTab
    /\ onTab' = TRUE /\ UNCHANGED <<active, loaded>>
    /\ ClearAndInit(screen)
    /\ UNCHANGED <<worldVars, current, queried, failures>>

\* the page that follows is drawn, or fails and leaves the terminal alone
LeavePage ==
    /\ pc = "idle" /\ onTab
    /\ onTab' = FALSE /\ UNCHANGED <<active, loaded>>
    /\ buffer' = Other /\ screen' \in {Other, screen} /\ late' = FALSE
    /\ UNCHANGED <<worldVars, pc, next, current_device, display, current, queried,
                   undrawn, failures>>

\* F3 and F4, on this page or another
SwitchDevice ==
    /\ pc = "idle"
    /\ active' \in Devices \ {active} /\ UNCHANGED <<onTab, loaded>>
    /\ IF onTab THEN ClearAndInit(screen)
       ELSE UNCHANGED <<pc, next, current_device, display, drawVars>>
    /\ UNCHANGED <<worldVars, current, queried, failures>>

\* the init after a resize or a dialog: the terminal shows something else by then
Redraw ==
    /\ pc = "idle" /\ onTab
    /\ UNCHANGED userVars
    /\ ClearAndInit(Other)
    /\ UNCHANGED <<worldVars, current, queried, failures>>

\* deviceUpdate finds the driver of a device, the active one or another, and
\* calls mainInit on the window as it is
DriverAppears ==
    /\ pc = "idle"
    /\ \E d \in Devices \ loaded : loaded' = loaded \cup {d}
    /\ UNCHANGED <<active, onTab>>
    /\ IF onTab THEN MainInit(buffer, screen) /\ late' = TRUE
       ELSE UNCHANGED <<pc, next, current_device, display, drawVars>>
    /\ UNCHANGED <<worldVars, current, queried, failures>>

\* the page is due and the device has its driver: tabDisplayInfoUpdate
Update ==
    /\ pc = "idle" /\ onTab /\ active \in loaded
    /\ BeginQuery("update", active)
    /\ UNCHANGED <<worldVars, userVars, drawVars, current_device, current, queried, failures>>

Handlers == Reads \/ Overruns \/ QueryFails \/ QueryDone
User     == ShowPage \/ LeavePage \/ SwitchDevice \/ Redraw

Next == Change \/ User \/ DriverAppears \/ Update \/ Handlers

Spec == Init /\ [][Next]_vars

\* the loop calls the update every 500 ms, and each of its ioctls returns
FairSpec == Spec /\ WF_vars(Update) /\ WF_vars(Handlers)

-----------------------------------------------------------------------------
(* Properties                                                              *)

\* Every variable keeps its type.  No more displays are stored than there is
\* room for, and the array is overrun only by a connector behind the first
\* MAX_DISPLAY_COUNT of its device: monitors that move during a query are counted
\* twice, but what an earlier query found, failed or not, is not counted again.
TypeOK ==
    /\ \A d \in Devices : sinks[d] \in [1 .. Connectors[d] -> Sinks]
    /\ loaded \subseteq Devices /\ active \in Devices /\ onTab \in BOOLEAN
    /\ pc \in {"idle", "init", "update", "overrun"} /\ next \in Nat \ {0}
    /\ current_device \in Devices \cup {NoMonitor}
    /\ display \in States /\ current \in States
    /\ Len(display.list) <= MAX_DISPLAY_COUNT /\ Len(current.list) <= MAX_DISPLAY_COUNT
    /\ pc = "overrun" => next \in MAX_DISPLAY_COUNT + 1 .. Connectors[active]
    /\ buffer \in Contents /\ screen \in Contents
    /\ queried \in BOOLEAN /\ undrawn \in BOOLEAN /\ late \in BOOLEAN
    /\ failures \in 0 .. MaxFailures /\ changes \in 0 .. MaxChanges

AtRest == pc = "idle" /\ onTab /\ active \in loaded

\* After any sequence of visits, updates, device switches and errors, the
\* terminal shows current_display_state, unless an error of the page came after
\* the last draw.  Nothing that was in the window before is mixed with it, unless
\* a driver appeared, of whatever device, and the window was not cleared since.
ScreenIsCurrent ==
    AtRest /\ ~undrawn =>
        /\ screen.page = "display" /\ screen.state = current
        /\ screen.mixed => late

LooksOf(list) == [i \in 1 .. Len(list) |-> Look(list[i])]
Looks(s) == LooksOf(s.list)

\* What was then drawn last, a page skipped as unchanged included, looks like
\* what the last query that came to its end read, and that query was one of the
\* active device, whichever was active when the page was left.
ShowsQueried ==
    AtRest /\ ~undrawn /\ queried =>
        /\ display.of = active
        /\ screen.state.connectors = display.connectors
        /\ Looks(screen.state) = Looks(display)

\* The displays that are plugged into a device, in order.
Connected(d) == SelectSeq(sinks[d], LAMBDA s : s # Empty)

\* When nothing more is plugged, pressed or lost, the displays the program
\* knows come to look like those that are connected, whatever a query that was
\* interleaved with changes has read before.
CatchesUp ==
    <>[](AtRest \/ pc = "update") =>
        <>[](Looks(current) = LooksOf(Connected(active)))

-----------------------------------------------------------------------------
(* What the program's own texts say.                                       *)

\* parseEDIDInfo puts "unknow" where a serial number is missing: the page is
\* drawn also for such a display
SerialUnknownShown == AtRest /\ failures = 0 => screen.page = "display"

=============================================================================
