------------------------------ MODULE Monitor ------------------------------
(***************************************************************************)
(* The event loop of amdtop: main() in src/tui/main.c, the dispatch of     *)
(* events to the four windows (src/tui/window.c), the device, tab, main    *)
(* and status windows, and the pages (tabs) drawn in the main window.      *)
(*                                                                         *)
(* One thread runs everything.  What makes it hard is the shared context   *)
(* (active device, active tab) that one window changes and another reads,  *)
(* the handlers that stop at the first error in the middle of a redraw,    *)
(* the two modal dialogs that call getch() themselves, drivers that appear *)
(* while the program runs, terminal resizes and the exit flag that a       *)
(* signal sets at any moment.  Time is abstracted: a periodic handler that *)
(* the loop looks at may or may not be due (Scheduler has the clock).      *)
(*                                                                         *)
(* A page is what its init last drew; the values on it are abstracted to   *)
(* the tab and the device they describe.  The main window's curses buffer  *)
(* is the set of what was drawn in it since it was last cleared: a handler *)
(* that does not clear it first draws over what is there.                  *)
(***************************************************************************)
EXTENDS Integers

CONSTANTS
    DeviceCount,     \* dctx->deviceCount once InitDeviceContext has run
    TabCount,        \* getTabInfoCount()
    StatTab,         \* the tab that may find the window too small
    DriverlessTabs,  \* the tabs shown without a driver: System and About
    RefreshTabs,     \* the tabs with a period and an update callback
    ClearTabs,       \* those of them whose update clears the window: Display
    FallibleTabs,    \* the tabs whose init or update may return an error
    SensorMayFail,   \* whether the load query of the status window may fail
    Sizes,           \* the terminal sizes
    Cramped,         \* the sizes in which the Stat page does not fit
    NoHelp           \* the sizes in which helperHandler returns at once

Dev == 0 .. DeviceCount - 1
Tab == 0 .. TabCount - 1

ASSUME CountsAssumption == DeviceCount \in Nat /\ TabCount \in Nat \ {0, 1}
ASSUME TabsAssumption ==
    /\ StatTab \in Tab /\ StatTab \notin DriverlessTabs
    /\ DriverlessTabs \subseteq Tab
    /\ RefreshTabs \subseteq Tab /\ ClearTabs \subseteq RefreshTabs
    /\ FallibleTabs \subseteq Tab
ASSUME SizesAssumption ==
    Cramped \subseteq Sizes /\ NoHelp \subseteq Sizes /\ SensorMayFail \in BOOLEAN

VARIABLES
    pc,              \* where the thread is: blocked in a getch, or in WindowsUpdate
    devIdx,          \* the loop index of deviceUpdate
    requeset_exit,   \* the exit flag, spelled as in main.c
    inputTimeout,    \* the last timeout(ms) given to ncurses; -1 blocks for ever
    driverisLoaded,  \* Device.driverisLoaded
    activeDeviceID,
    activeTabID,
    tabMark,         \* the tab that carries the "*" of updateActiveTab
    page,            \* the page last initialised, and whether on the present window
    needRefresh,     \* the flag of the Stat page
    mainBuffer,      \* what was drawn in the main window since it was cleared
    mainShown,       \* what the terminal shows of it
    statusBuffer,    \* what the status window's curses buffer says
    statusShown,     \* what the terminal shows of it
    term,            \* the size of the terminal
    layout,          \* the size the windows were last laid out for
    resizeKey,       \* a KEY_RESIZE waits in the input
    swallowed,       \* history: a dialog consumed the last KEY_RESIZE
    failed,          \* history: an init or an update of a page returned an error
    appeared         \* history: the active device got its driver since the clear

loopVars   == <<pc, devIdx, requeset_exit, inputTimeout>>
ctxVars    == <<activeDeviceID, activeTabID>>
mainVars   == <<page, needRefresh, mainBuffer, mainShown, failed, appeared>>
statusVars == <<statusBuffer, statusShown>>
sizeVars   == <<term, layout, resizeKey, swallowed>>
vars == <<loopVars, ctxVars, mainVars, statusVars, sizeVars,
          driverisLoaded, tabMark>>

NoText   == [dev |-> -1, driver |-> FALSE]
NoPage   == [tab |-> -1, dev |-> -1, live |-> FALSE]
Pages    == [tab : Tab \cup {-1}, dev : Dev \cup {0, -1}, live : BOOLEAN]
Views    == [what : {"page", "nodriver", "small", "help", "prompt"},
             tab : Tab, dev : Dev \cup {0}]
Texts    == [dev : Dev \cup {-1}, driver : BOOLEAN]
Stopped  == {"closed", "aborted"}
Dialogs  == {"help", "prompt"}

-----------------------------------------------------------------------------
(* What the handlers read of the context.                                  *)

ActiveLoaded == activeDeviceID \in Dev /\ driverisLoaded[activeDeviceID]

\* mainInit goes on to the page's own init
PageRuns == activeTabID \in DriverlessTabs \/ ActiveLoaded

\* the main window's view of the selection a handler finds in the context
Shown(what) == [what |-> what, tab |-> activeTabID', dev |-> activeDeviceID']

UnwrappedTab(t) == t + 1
NextTab(t) == IF t + 1 >= TabCount THEN 0 ELSE t + 1
PrevTab(t) == IF t - 1 < 0 THEN TabCount - 1 ELSE t - 1

Neighbours(d) == { IF d - 1 <= 0 THEN 0 ELSE d - 1,
                   IF d + 1 >= DeviceCount THEN DeviceCount - 1 ELSE d + 1 }

-----------------------------------------------------------------------------
(* Pieces of handlers.  ok is the success of the call, kept the page as    *)
(* the call finds it, base what the buffer of the main window holds then,  *)
(* before what the terminal shows unless the call refreshes the window.    *)

\* draw in the main window, then wrefresh
Paint(base, what) ==
    mainBuffer' = base \cup {Shown(what)} /\ mainShown' = mainBuffer'

\* draw a part of a page and return an error before the wrefresh
PaintInPart(base, before) ==
    /\ activeTabID' \in FallibleTabs
    /\ mainBuffer' \in {base, base \cup {Shown("page")}}
    /\ mainShown' = before /\ failed' = TRUE

\* the bug of a page that says "too small" and goes on refreshing its bars
StatTooSmallButRefreshing(base) ==
    /\ needRefresh' = needRefresh
    /\ page' = [tab |-> activeTabID', dev |-> activeDeviceID', live |-> FALSE]
    /\ Paint(base, "small") /\ UNCHANGED failed

\* tabStateInfoInit in a window that is too small: no bars are created
StatTooSmall(base) ==
    /\ needRefresh' = FALSE
    /\ page' = [tab |-> activeTabID', dev |-> activeDeviceID', live |-> FALSE]
    /\ Paint(base, "small") /\ UNCHANGED failed

\* TabinfoInit on a window that is large enough
TabinfoInit(base, before, ok) ==
    /\ page' = [tab |-> activeTabID', dev |-> activeDeviceID', live |-> TRUE]
    /\ UNCHANGED needRefresh
    /\ IF ok THEN Paint(base, "page") /\ UNCHANGED failed
             ELSE PaintInPart(base, before)

TooSmall == activeTabID' = StatTab /\ layout' \in Cramped

\* the bug of a message that is written to the window and never refreshed
MainInitUnrefreshed(kept, base, before, ok) ==
    \/ /\ ~PageRuns' /\ ok
       /\ page' = kept /\ UNCHANGED <<needRefresh, failed>>
       /\ mainBuffer' = base \cup {Shown("nodriver")} /\ mainShown' = before
    \/ PageRuns' /\ TooSmall /\ ok /\ StatTooSmall(base)
    \/ PageRuns' /\ ~TooSmall /\ TabinfoInit(base, before, ok)

MainInit(kept, base, before, ok) ==
    \/ /\ ~PageRuns' /\ ok
       /\ page' = kept /\ UNCHANGED <<needRefresh, failed>>
       /\ Paint(base, "nodriver")
    \/ PageRuns' /\ TooSmall /\ ok /\ StatTooSmall(base)
    \/ PageRuns' /\ ~TooSmall /\ TabinfoInit(base, before, ok)

\* WindowClear of the main window
Cleared == {}

\* the bug of a handler that changes the page and does not clear the window
InitWithoutClear(kept, before, ok) ==
    MainInit(kept, mainBuffer, before, ok) /\ appeared' = FALSE

\* WindowExit, WindowClear and WindowInit, as all handlers but one have it
ClearAndInit(kept, before, ok) ==
    MainInit(kept, Cleared, before, ok) /\ appeared' = FALSE

\* statusInit: without the sensor value it returns before the wrefresh
StatusInit(before, sensor) ==
    LET text == IF activeDeviceID' \in Dev
                THEN [dev |-> activeDeviceID', driver |-> ActiveLoaded']
                ELSE NoText
    IN /\ statusBuffer' = text
       /\ IF ActiveLoaded' /\ ~sensor
          THEN SensorMayFail /\ statusShown' = before
          ELSE statusShown' = text

\* the bug of a device switch that leaves the status window alone
StatusReinitForgotten(ok) == ok \in BOOLEAN /\ UNCHANGED statusVars
StatusReinit(ok) ==
    IF ok THEN \E sensor \in BOOLEAN : StatusInit(statusShown, sensor)
          ELSE UNCHANGED statusVars

\* the end of a pass of the loop in main()
AfterEventForEver == pc' = "getch"
AfterEvent == pc' = IF requeset_exit THEN "closed" ELSE "getch"

\* the bug of a resize handler that does not lay the windows out again
InitWinLayoutKept == layout' = layout
InitWinLayout == layout' = term

\* lay out, clear and initialise the windows in order, stopping at an error
WindowsUpdateUi(ok) ==
    /\ InitWinLayout
    /\ tabMark' = activeTabID
    /\ ClearAndInit([page EXCEPT !.live = FALSE], {}, ok)
    /\ IF ok THEN \E sensor \in BOOLEAN : StatusInit(NoText, sensor)
             ELSE statusBuffer' = NoText /\ statusShown' = NoText

-----------------------------------------------------------------------------
(* main() up to the loop: whatever InitDeviceContext found is used, and an *)
(* error of InitWindowContext is not looked at.                            *)

Init ==
    /\ pc = "start" /\ devIdx = 0
    /\ requeset_exit = FALSE /\ inputTimeout = 100
    /\ driverisLoaded \in [Dev -> BOOLEAN]
    /\ activeDeviceID = 0 /\ activeTabID = 0 /\ tabMark = -1
    /\ page = NoPage /\ needRefresh = TRUE /\ mainBuffer = {} /\ mainShown = {}
    /\ failed = FALSE /\ appeared = FALSE
    /\ statusBuffer = NoText /\ statusShown = NoText
    /\ term \in Sizes /\ layout = term /\ resizeKey = FALSE /\ swallowed = FALSE

Start ==
    /\ pc = "start"
    /\ UNCHANGED <<devIdx, requeset_exit, inputTimeout, ctxVars, term, resizeKey,
                   swallowed, driverisLoaded>>
    /\ \E ok \in BOOLEAN : WindowsUpdateUi(ok)
    /\ AfterEvent

-----------------------------------------------------------------------------
(* getch() returned KEY_RESIZE: an error makes main() return there.        *)

Resize ==
    /\ pc = "getch" /\ resizeKey
    /\ resizeKey' = FALSE /\ swallowed' = FALSE
    /\ UNCHANGED <<devIdx, requeset_exit, inputTimeout, ctxVars, term, driverisLoaded>>
    /\ \E ok \in BOOLEAN :
          /\ WindowsUpdateUi(ok)
          /\ IF ok THEN AfterEvent ELSE pc' = "aborted"

-----------------------------------------------------------------------------
(* getch() returned a key: WindowsDispatchInput offers it to the windows.  *)

\* F3 and F4 in deviceHandleInput
SwitchDevice ==
    /\ pc = "getch" /\ DeviceCount > 1
    /\ activeDeviceID' \in Neighbours(activeDeviceID) \ {activeDeviceID}
    /\ UNCHANGED <<activeTabID, tabMark, sizeVars, driverisLoaded>>
    /\ \E ok \in BOOLEAN : ClearAndInit(page, mainShown, ok) /\ StatusReinit(ok)
    /\ AfterEvent
    /\ UNCHANGED <<devIdx, requeset_exit, inputTimeout>>

\* Ctrl-N, Ctrl-P and the page keys in tabHandleInput: an error of the new
\* page leaves the mark on the old one
SwitchTab ==
    /\ pc = "getch"
    /\ activeTabID' \in {NextTab(activeTabID), PrevTab(activeTabID)}
    /\ UNCHANGED <<activeDeviceID, sizeVars, driverisLoaded>>
    /\ \E ok \in BOOLEAN :
          /\ ClearAndInit(page, mainShown, ok)
          /\ tabMark' = IF ok THEN activeTabID' ELSE tabMark
    /\ AfterEvent
    /\ UNCHANGED <<devIdx, requeset_exit, inputTimeout, statusVars>>

\* 'q' and '?' in mainHandleInput: the dialog is drawn, the help in a cleared
\* window and the prompt over the page, and getch() called without a timeout
OpenDialog(which) ==
    /\ pc = "getch"
    /\ which = "help" => layout \notin NoHelp
    /\ pc' = which /\ inputTimeout' = -1
    /\ UNCHANGED <<ctxVars, page, needRefresh, failed>>
    /\ IF which = "help" THEN Paint(Cleared, which) /\ appeared' = FALSE
                         ELSE Paint(mainBuffer, which) /\ UNCHANGED appeared
    /\ UNCHANGED <<devIdx, requeset_exit, statusVars, sizeVars, driverisLoaded, tabMark>>

\* a key no window acts on, F3 on the first device among them
IgnoredKey ==
    /\ pc = "getch"
    /\ AfterEvent
    /\ UNCHANGED <<devIdx, requeset_exit, inputTimeout, ctxVars, mainVars, statusVars,
                   sizeVars, driverisLoaded, tabMark>>

-----------------------------------------------------------------------------
(* The getch() inside a dialog takes any key, a KEY_RESIZE as well, which  *)
(* then is not seen by main().                                             *)

DialogKey ==
    \/ UNCHANGED sizeVars
    \/ /\ resizeKey /\ resizeKey' = FALSE /\ swallowed' = TRUE
       /\ UNCHANGED <<term, layout>>

\* 'y' in exitProgram
ConfirmExit ==
    /\ pc = "prompt"
    /\ requeset_exit' = TRUE /\ pc' = "closed"
    /\ UNCHANGED <<devIdx, inputTimeout, ctxVars, mainVars, statusVars, sizeVars,
                   driverisLoaded, tabMark>>

\* any other key in exitProgram
ClosePrompt ==
    /\ pc = "prompt" /\ DialogKey
    /\ inputTimeout' = 100
    /\ UNCHANGED <<ctxVars, driverisLoaded>>
    /\ \E ok \in BOOLEAN : ClearAndInit(page, mainShown, ok)
    /\ AfterEvent
    /\ UNCHANGED <<devIdx, requeset_exit, statusVars, tabMark>>

\* helperHandler restores a timeout only after the page was drawn again
HelpTimeoutForgotten(ok) == inputTimeout
HelpTimeout(ok) == IF ok THEN 200 ELSE inputTimeout

CloseHelp ==
    /\ pc = "help" /\ DialogKey
    /\ UNCHANGED <<ctxVars, driverisLoaded>>
    /\ \E ok \in BOOLEAN :
          ClearAndInit(page, mainShown, ok) /\ inputTimeout' = HelpTimeout(ok)
    /\ AfterEvent
    /\ UNCHANGED <<devIdx, requeset_exit, statusVars, tabMark>>

-----------------------------------------------------------------------------
(* getch() timed out: WindowsUpdate looks at the windows in order; the tab *)
(* window has nothing to update.  Any error ends the pass.                 *)

Timeout ==
    /\ pc = "getch" /\ inputTimeout # -1 /\ ~resizeKey
    /\ pc' \in {"device", "main"}          \* the device window is due, or not
    /\ devIdx' = 0
    /\ UNCHANGED <<requeset_exit, inputTimeout, ctxVars, mainVars, statusVars, sizeVars,
                   driverisLoaded, tabMark>>

\* deviceUpdate is the one handler that calls mainInit on a window it does not
\* clear: the new page is drawn over what the window holds
HotplugInit(ok) ==
    /\ MainInit(page, mainBuffer, mainShown, ok)
    /\ appeared' = (appeared \/ devIdx = activeDeviceID)

\* a device of deviceUpdate's loop that has a driver, or has none yet
DeviceSkip ==
    /\ pc = "device" /\ devIdx < DeviceCount
    /\ devIdx' = devIdx + 1
    /\ UNCHANGED <<pc, requeset_exit, inputTimeout, ctxVars, mainVars, statusVars,
                   sizeVars, driverisLoaded, tabMark>>

\* a device whose kernel driver appeared: UpdateDeviceInfo, then mainInit
DeviceAppears ==
    /\ pc = "device" /\ devIdx < DeviceCount /\ ~driverisLoaded[devIdx]
    /\ driverisLoaded' = [driverisLoaded EXCEPT ![devIdx] = TRUE]
    /\ UNCHANGED <<ctxVars, sizeVars>>
    /\ \E ok \in BOOLEAN :
          /\ HotplugInit(ok)
          /\ IF ok THEN devIdx' = devIdx + 1 /\ pc' = pc
                   ELSE devIdx' = devIdx /\ AfterEvent
    /\ UNCHANGED <<requeset_exit, inputTimeout, statusVars, tabMark>>

\* its driver name or its DRM node cannot be read: tried again next time
DeviceFails ==
    /\ pc = "device" /\ devIdx < DeviceCount /\ ~driverisLoaded[devIdx]
    /\ AfterEvent
    /\ UNCHANGED <<devIdx, requeset_exit, inputTimeout, ctxVars, mainVars, statusVars,
                   sizeVars, driverisLoaded, tabMark>>

DevicesDone ==
    /\ pc = "device" /\ devIdx >= DeviceCount
    /\ pc' = "main"
    /\ UNCHANGED <<devIdx, requeset_exit, inputTimeout, ctxVars, mainVars, statusVars,
                   sizeVars, driverisLoaded, tabMark>>

\* the page's update callback runs and finds something to do
PageRefreshes ==
    /\ ActiveLoaded /\ activeTabID \in RefreshTabs
    /\ activeTabID = StatTab => needRefresh

\* the Display page clears the window for what it found, the others draw their
\* values over the old ones
MainUpdate ==
    /\ pc = "main" /\ PageRefreshes
    /\ UNCHANGED ctxVars
    /\ \/ /\ IF activeTabID \in ClearTabs
             THEN Paint(Cleared, "page") /\ appeared' = FALSE
             ELSE Paint(mainBuffer, "page") /\ UNCHANGED appeared
          /\ pc' = "status" /\ UNCHANGED failed
       \/ PaintInPart(mainBuffer, mainShown) /\ AfterEvent /\ UNCHANGED appeared
    /\ UNCHANGED <<devIdx, requeset_exit, inputTimeout, page, needRefresh, statusVars,
                   sizeVars, driverisLoaded, tabMark>>

\* neither the main window nor its page is due, or the page has nothing new
MainSkip ==
    /\ pc = "main" /\ pc' = "status"
    /\ UNCHANGED <<devIdx, requeset_exit, inputTimeout, ctxVars, mainVars, statusVars,
                   sizeVars, driverisLoaded, tabMark>>

\* statusUpdate refreshes the window even when the sensor query fails
StatusUpdate ==
    /\ pc = "status" /\ AfterEvent
    /\ statusShown' \in {statusBuffer, statusShown}     \* due, or not
    /\ UNCHANGED <<devIdx, requeset_exit, inputTimeout, ctxVars, mainVars, statusBuffer,
                   sizeVars, driverisLoaded, tabMark>>

-----------------------------------------------------------------------------
(* The environment: signal_handler, and the terminal that is resized.      *)

Signal ==
    /\ pc \notin Stopped /\ ~requeset_exit
    /\ requeset_exit' = TRUE
    /\ UNCHANGED <<pc, devIdx, inputTimeout, ctxVars, mainVars, statusVars, sizeVars,
                   driverisLoaded, tabMark>>

Winch ==
    /\ pc \notin Stopped \cup {"start"}
    /\ term' \in Sizes \ {term} /\ resizeKey' = TRUE
    /\ UNCHANGED <<loopVars, ctxVars, mainVars, statusVars, layout, swallowed,
                   driverisLoaded, tabMark>>

WindowsUpdate ==
    \/ DeviceSkip \/ DeviceAppears \/ DeviceFails \/ DevicesDone
    \/ MainUpdate \/ MainSkip \/ StatusUpdate

Key == \/ SwitchDevice \/ SwitchTab \/ IgnoredKey
       \/ \E which \in Dialogs : OpenDialog(which)

DialogAnswer == ConfirmExit \/ ClosePrompt \/ CloseHelp

Next == \/ Start \/ Resize \/ Key \/ DialogAnswer \/ Timeout \/ WindowsUpdate
        \/ Signal \/ Winch

Spec == Init /\ [][Next]_vars

\* the thread never rests between two getch() calls and a getch() with a
\* timeout or a pending KEY_RESIZE returns; nobody has to press a key
FairSpec ==
    Spec /\ WF_vars(Start) /\ WF_vars(Timeout) /\ WF_vars(Resize) /\ WF_vars(WindowsUpdate)

-----------------------------------------------------------------------------
(* Properties                                                              *)

\* Every variable keeps the values the code can give it; in particular the
\* active tab stays an index of tabinfoList and the device one of devs.
TypeOK ==
    /\ pc \in {"start", "getch", "device", "main", "status"} \cup Dialogs \cup Stopped
    /\ devIdx \in 0 .. DeviceCount
    /\ requeset_exit \in BOOLEAN /\ inputTimeout \in {-1, 100, 200}
    /\ driverisLoaded \in [Dev -> BOOLEAN]
    /\ activeDeviceID \in Dev \cup {0} /\ activeTabID \in Tab
    /\ tabMark \in Tab \cup {-1}
    /\ page \in Pages /\ needRefresh \in BOOLEAN
    /\ mainBuffer \subseteq Views /\ mainShown \subseteq Views
    /\ failed \in BOOLEAN /\ appeared \in BOOLEAN
    /\ statusBuffer \in Texts /\ statusShown \in Texts
    /\ term \in Sizes /\ layout \in Sizes
    /\ resizeKey \in BOOLEAN /\ swallowed \in BOOLEAN

Running == pc \notin {"start"} \cup Stopped

\* Whenever the program runs and the active page can be shown, its init has
\* run for the active tab and the active device, and on the present curses
\* window, so that an update never draws through the bars of a window that
\* InitWinLayout deleted; a Stat page that was too small has no bars, and
\* then its update does nothing.
PageReady ==
    Running /\ PageRuns =>
        /\ page.tab = activeTabID /\ page.dev = activeDeviceID
        /\ page.live \/ (activeTabID = StatTab /\ ~needRefresh)

\* mainInit of the active tab cannot fail: no query of its page is made that
\* returns an error
CannotFail == activeTabID \notin FallibleTabs \/ ~PageRuns

\* the kinds of what the terminal shows in the main window
Kinds == { v.what : v \in mainShown }

\* no error of a page can have disturbed what the main window shows
Undisturbed == ~failed \/ CannotFail

\* A page whose queries cannot fail carries the mark.  It, the message of any
\* page that needs a driver that is not there, and every page as long as no
\* page has failed, is on the terminal for the active tab and device, whatever
\* failed on the pages and devices visited before; while the driver is missing
\* no page is shown, and outside the dialogs nothing of a dialog remains.
ScreenFollows ==
    Running =>
        /\ activeTabID \notin FallibleTabs => tabMark = activeTabID
        /\ Undisturbed =>
              /\ \A v \in mainShown : v.tab = activeTabID /\ v.dev = activeDeviceID
              /\ pc \notin Dialogs =>
                    /\ ~PageRuns => Kinds = {"nodriver"}
                    /\ PageRuns => Kinds \cap {"page", "small"} # {}
                    /\ Kinds \cap Dialogs = {}
                    /\ "small" \in Kinds => activeTabID = StatTab /\ layout \in Cramped

\* There the terminal also shows all that is in the window's buffer, nothing
\* drawn waits for a later refresh to appear.  "Driver is not Loaded!" stands
\* beside a page only where the active device got its driver while the page was
\* selected: deviceUpdate draws the page over the message, and the message
\* stays until the window is cleared for another reason.
NothingRemains ==
    Running /\ Undisturbed =>
        /\ mainShown = mainBuffer
        /\ "nodriver" \in Kinds /\ PageRuns => appeared

\* The windows fit the terminal, or a KEY_RESIZE is still to come, or a
\* dialog took it: a resize is lost in no other way.
LayoutFollows == layout # term => resizeKey \/ swallowed \/ pc = "start"

\* Until a page has failed every dialog gives the input its timeout back and
\* the window its page, so that the loop goes on refreshing.
DialogsEnd ==
    ~failed /\ pc \in {"getch", "device", "main", "status"} =>
        inputTimeout # -1 /\ Kinds \cap Dialogs = {}

\* Until a page has failed the status window describes the active device, and
\* it claims no driver that is not loaded.
StatusFollows ==
    ~failed /\ Running =>
        /\ statusBuffer.dev = IF activeDeviceID \in Dev THEN activeDeviceID ELSE -1
        /\ statusBuffer.driver => ActiveLoaded

\* A signal ends the program without a key being pressed, unless a dialog, or
\* the timeout a failed help page left behind, blocks the input for ever.
ExitHonoured ==
    requeset_exit ~> (pc \in Stopped \cup Dialogs \/ inputTimeout = -1)

-----------------------------------------------------------------------------
(* What the program's own texts say.                                       *)

\* helper_str: "type any key exit this help!"
AnyKeyLeavesHelp == pc = "getch" => "help" \notin Kinds

=============================================================================
