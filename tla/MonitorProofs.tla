--------------------------- MODULE MonitorProofs ---------------------------
(***************************************************************************)
(* Proofs about Monitor, for every number of devices and tabs and every    *)
(* choice of the tabs that may fail: type correctness, that updates only   *)
(* reach a page that is ready, that the terminal follows the selection and *)
(* what can remain beside it, that a resize is only ever lost to a dialog, *)
(* and that a request to exit ends the loop soon.                          *)
(***************************************************************************)
EXTENDS Monitor, TLAPS

-----------------------------------------------------------------------------
(* Type correctness                                                        *)

\* The values the windows start with have their types.
LEMMA ConstantViews == NoPage \in Pages /\ NoText \in Texts
<1>2. NoPage \in Pages
  BY DEF NoPage, Pages
<1>3. NoText \in Texts
  BY DEF NoText, Texts
<1> QED
  BY <1>2, <1>3

\* The part of the types that mainInit is concerned with.
MainTyped ==
    /\ page \in Pages /\ needRefresh \in BOOLEAN
    /\ mainBuffer \subseteq Views /\ mainShown \subseteq Views
    /\ failed \in BOOLEAN

\* mainInit leaves the main window's variables in their types.
LEMMA MainInitType ==
    ASSUME NEW kept \in Pages, NEW base, base \subseteq Views,
           NEW before, before \subseteq Views, NEW ok \in BOOLEAN,
           activeTabID' \in Tab, activeDeviceID' \in Dev \cup {0},
           needRefresh \in BOOLEAN, failed \in BOOLEAN, MainInit(kept, base, before, ok)
    PROVE  MainTyped'
<1>1. \A what \in {"page", "nodriver", "small"} : Shown(what) \in Views
  BY DEF Shown, Views
<1>2. \A b \in BOOLEAN :
         [tab |-> activeTabID', dev |-> activeDeviceID', live |-> b] \in Pages
  BY DEF Pages
<1>3. CASE /\ page' = kept /\ Paint(base, "nodriver")
           /\ UNCHANGED <<needRefresh, failed>>
  BY <1>1, <1>3 DEF MainTyped, Paint
<1>4. CASE StatTooSmall(base)
  BY <1>1, <1>2, <1>4 DEF StatTooSmall, MainTyped, Paint
<1>5. CASE TabinfoInit(base, before, ok)
  BY <1>1, <1>2, <1>5 DEF TabinfoInit, MainTyped, Paint, PaintInPart
<1> QED
  BY <1>3, <1>4, <1>5 DEF MainInit

\* So do the handlers that clear the window before.
LEMMA ClearAndInitType ==
    ASSUME NEW kept \in Pages, NEW before, before \subseteq Views, NEW ok \in BOOLEAN,
           activeTabID' \in Tab, activeDeviceID' \in Dev \cup {0},
           needRefresh \in BOOLEAN, failed \in BOOLEAN, ClearAndInit(kept, before, ok)
    PROVE  MainTyped' /\ appeared' = FALSE
<1>1. MainInit(kept, {}, before, ok) /\ appeared' = FALSE
  BY DEF ClearAndInit, Cleared
<1>2. MainTyped'
  BY <1>1, MainInitType
<1> QED
  BY <1>1, <1>2

\* statusInit leaves the status window's variables in their types.
LEMMA StatusInitType ==
    ASSUME NEW before \in Texts, NEW sensor \in BOOLEAN,
           driverisLoaded' \in [Dev -> BOOLEAN], StatusInit(before, sensor)
    PROVE  statusBuffer' \in Texts /\ statusShown' \in Texts
<1>1. activeDeviceID' \in Dev => ActiveLoaded' = driverisLoaded'[activeDeviceID']
  BY Zenon DEF ActiveLoaded
<1>2. statusBuffer' \in Texts
  BY <1>1 DEF StatusInit, Texts, NoText
<1> QED
  BY <1>2 DEF StatusInit

\* So does a whole redraw of the screen.
LEMMA UpdateUiType ==
    ASSUME TypeOK, NEW ok \in BOOLEAN, UNCHANGED <<ctxVars, driverisLoaded>>,
           WindowsUpdateUi(ok)
    PROVE  /\ MainTyped' /\ appeared' = FALSE
           /\ statusBuffer' \in Texts /\ statusShown' \in Texts
           /\ layout' = term /\ tabMark' = activeTabID
<1>1. [page EXCEPT !.live = FALSE] \in Pages /\ NoText \in Texts
  <2>1. page \in [tab : Tab \cup {-1}, dev : Dev \cup {0, -1}, live : BOOLEAN]
    BY DEF TypeOK, Pages
  <2>2. [page EXCEPT !.live = FALSE] \in Pages
    BY <2>1 DEF Pages
  <2> QED
    BY <2>2, ConstantViews
<1>2. MainTyped' /\ appeared' = FALSE
  <2>1. ClearAndInit([page EXCEPT !.live = FALSE], {}, ok) /\ {} \subseteq Views
    BY DEF WindowsUpdateUi
  <2>2. /\ activeTabID' \in Tab /\ activeDeviceID' \in Dev \cup {0}
        /\ needRefresh \in BOOLEAN /\ failed \in BOOLEAN
    BY DEF TypeOK, ctxVars
  <2> QED
    BY ONLY <1>1, <2>1, <2>2, ClearAndInitType
<1>3. statusBuffer' \in Texts /\ statusShown' \in Texts
  <2>1. CASE ok
    BY <2>1, <1>1, StatusInitType DEF WindowsUpdateUi, TypeOK
  <2>2. CASE ~ok
    BY <2>2, <1>1 DEF WindowsUpdateUi
  <2> QED
    BY <2>1, <2>2
<1> QED
  BY <1>2, <1>3 DEF WindowsUpdateUi, InitWinLayout

LEMMA InitType == Init => TypeOK
<1> SUFFICES ASSUME Init
             PROVE  TypeOK
  OBVIOUS
<1>1. devIdx \in 0 .. DeviceCount /\ activeTabID \in Tab
  BY CountsAssumption DEF Init, Tab
<1>2. term \in Sizes /\ layout \in Sizes
  BY DEF Init
<1>3. page \in Pages /\ statusBuffer \in Texts /\ statusShown \in Texts
  BY ConstantViews DEF Init
<1> QED
  BY <1>1, <1>2, <1>3 DEF Init, TypeOK

LEMMA NextType == TypeOK /\ [Next]_vars => TypeOK'
<1> SUFFICES ASSUME TypeOK, [Next]_vars
             PROVE  TypeOK'
  OBVIOUS
<1> USE DEF loopVars, ctxVars, mainVars, statusVars, sizeVars, MainTyped
<1>1. CASE Start
  <2>1. PICK ok \in BOOLEAN : WindowsUpdateUi(ok)
    BY <1>1 DEF Start
  <2> QED
    BY <1>1, <2>1, UpdateUiType DEF Start, TypeOK, AfterEvent, Stopped, Dialogs
<1>2. CASE Resize
  <2>1. PICK ok \in BOOLEAN : /\ WindowsUpdateUi(ok)
                              /\ IF ok THEN AfterEvent ELSE pc' = "aborted"
    BY <1>2 DEF Resize
  <2> QED
    BY <1>2, <2>1, UpdateUiType DEF Resize, TypeOK, AfterEvent, Stopped, Dialogs
<1>3. CASE SwitchDevice
  <2>1. PICK ok \in BOOLEAN : ClearAndInit(page, mainShown, ok) /\ StatusReinit(ok)
    BY <1>3 DEF SwitchDevice
  <2>2. activeDeviceID' \in Dev
    BY <1>3, CountsAssumption DEF SwitchDevice, Neighbours, Dev, TypeOK
  <2>3. MainTyped' /\ appeared' = FALSE
    <3>1. /\ activeTabID' \in Tab /\ activeDeviceID' \in Dev \cup {0}
          /\ page \in Pages /\ mainShown \subseteq Views
          /\ needRefresh \in BOOLEAN /\ failed \in BOOLEAN
      BY <1>3, <2>2 DEF SwitchDevice, TypeOK
    <3> QED
      BY <2>1, <3>1, ClearAndInitType
  <2>4. statusBuffer' \in Texts /\ statusShown' \in Texts
    BY <1>3, <2>1, StatusInitType DEF SwitchDevice, StatusReinit, TypeOK
  <2> QED
    BY <1>3, <2>2, <2>3, <2>4 DEF SwitchDevice, TypeOK, AfterEvent, Stopped, Dialogs
<1>4. CASE SwitchTab
  <2>1. PICK ok \in BOOLEAN : /\ ClearAndInit(page, mainShown, ok)
                              /\ tabMark' = IF ok THEN activeTabID' ELSE tabMark
    BY <1>4 DEF SwitchTab
  <2>2. activeTabID' \in Tab
    BY <1>4, CountsAssumption DEF SwitchTab, NextTab, PrevTab, Tab, TypeOK
  <2>3. MainTyped' /\ appeared' = FALSE
    BY <1>4, <2>1, <2>2, ClearAndInitType DEF SwitchTab, TypeOK
  <2> QED
    BY <1>4, <2>1, <2>2, <2>3 DEF SwitchTab, TypeOK, AfterEvent, Stopped, Dialogs
<1>5. ASSUME NEW which \in Dialogs, OpenDialog(which)
      PROVE  TypeOK'
  <2>1. Shown(which) \in Views
    BY <1>5 DEF OpenDialog, TypeOK, Shown, Views, Dialogs
  <2>2. mainBuffer' \subseteq Views /\ mainShown' \subseteq Views /\ appeared' \in BOOLEAN
    BY <1>5, <2>1 DEF OpenDialog, Paint, Cleared, TypeOK
  <2> QED
    BY <1>5, <2>2 DEF OpenDialog, TypeOK, Dialogs
<1>6. CASE ClosePrompt
  <2>1. PICK ok \in BOOLEAN : ClearAndInit(page, mainShown, ok)
    BY <1>6 DEF ClosePrompt
  <2>2. MainTyped' /\ appeared' = FALSE
    BY <1>6, <2>1, ClearAndInitType DEF ClosePrompt, TypeOK
  <2> QED
    BY <1>6, <2>2 DEF ClosePrompt, DialogKey, TypeOK, AfterEvent, Stopped, Dialogs
<1>7. CASE CloseHelp
  <2>1. PICK ok \in BOOLEAN : ClearAndInit(page, mainShown, ok) /\ inputTimeout' = HelpTimeout(ok)
    BY <1>7 DEF CloseHelp
  <2>2. MainTyped' /\ appeared' = FALSE
    BY <1>7, <2>1, ClearAndInitType DEF CloseHelp, TypeOK
  <2> QED
    BY <1>7, <2>1, <2>2
    DEF CloseHelp, HelpTimeout, DialogKey, TypeOK, AfterEvent, Stopped, Dialogs
<1>8. CASE DeviceAppears
  <2>1. PICK ok \in BOOLEAN : /\ HotplugInit(ok)
                              /\ IF ok THEN devIdx' = devIdx + 1 /\ pc' = pc
                                       ELSE devIdx' = devIdx /\ AfterEvent
    BY <1>8 DEF DeviceAppears
  <2>2. MainTyped' /\ appeared' \in BOOLEAN
    BY <1>8, <2>1, MainInitType DEF DeviceAppears, HotplugInit, TypeOK
  <2>3. devIdx' \in 0 .. DeviceCount
    BY <1>8, <2>1, CountsAssumption DEF DeviceAppears, TypeOK
  <2>4. driverisLoaded' \in [Dev -> BOOLEAN]
    BY <1>8 DEF DeviceAppears, TypeOK
  <2> QED
    BY <1>8, <2>1, <2>2, <2>3, <2>4 DEF DeviceAppears, TypeOK, AfterEvent, Stopped, Dialogs
<1>9. CASE MainUpdate
  <2>1. Shown("page") \in Views
    BY <1>9 DEF MainUpdate, TypeOK, Shown, Views
  <2>2. /\ mainBuffer' \subseteq Views /\ mainShown' \subseteq Views
        /\ failed' \in BOOLEAN /\ appeared' \in BOOLEAN
    BY <1>9, <2>1 DEF MainUpdate, Paint, PaintInPart, Cleared, TypeOK
  <2> QED
    BY <1>9, <2>2 DEF MainUpdate, TypeOK, AfterEvent, Stopped
<1>10. CASE Timeout \/ DeviceSkip
  <2>1. devIdx' \in 0 .. DeviceCount
    BY <1>10, CountsAssumption DEF Timeout, DeviceSkip, TypeOK
  <2> QED
    BY <1>10, <2>1 DEF Timeout, DeviceSkip, TypeOK
<1>11. CASE IgnoredKey \/ ConfirmExit \/ DeviceFails \/ DevicesDone \/ MainSkip \/ Signal
  <2>1. CASE IgnoredKey
    BY <2>1 DEF TypeOK, IgnoredKey, AfterEvent, Stopped
  <2>2. CASE ConfirmExit
    BY <2>2 DEF TypeOK, ConfirmExit, Stopped
  <2>3. CASE DeviceFails
    BY <2>3 DEF TypeOK, DeviceFails, AfterEvent, Stopped
  <2>4. CASE DevicesDone \/ MainSkip
    BY <2>4 DEF TypeOK, DevicesDone, MainSkip
  <2>5. CASE Signal
    BY <2>5 DEF TypeOK, Signal
  <2> QED
    BY <1>11, <2>1, <2>2, <2>3, <2>4, <2>5
<1>12. CASE StatusUpdate
  BY <1>12 DEF TypeOK, StatusUpdate, AfterEvent, Stopped
<1>13. CASE Winch
  BY <1>13 DEF TypeOK, Winch
<1>14. CASE UNCHANGED vars
  BY <1>14 DEF vars, TypeOK
<1> QED
  BY <1>1, <1>2, <1>3, <1>4, <1>5, <1>6, <1>7, <1>8, <1>9, <1>10, <1>11, <1>12, <1>13, <1>14
  DEF Next, Key, DialogAnswer, WindowsUpdate

\* Every behaviour of the monitor keeps its variables in their types.
THEOREM TypeCorrect == Spec => []TypeOK
BY InitType, NextType, PTL DEF Spec

-----------------------------------------------------------------------------
(* Updates reach a page that is ready, and the terminal follows            *)

\* A page that mainInit can show is initialised for the selection.
LEMMA MainInitReady ==
    ASSUME NEW kept, NEW base, NEW before, NEW ok \in BOOLEAN,
           MainInit(kept, base, before, ok), PageRuns'
    PROVE  /\ page'.tab = activeTabID' /\ page'.dev = activeDeviceID'
           /\ page'.live \/ (activeTabID' = StatTab /\ ~needRefresh')
BY DEF MainInit, TabinfoInit, StatTooSmall, TooSmall

\* What the buffer of the main window may hold, whatever has failed.
Fits(v) ==
    /\ v.tab = activeTabID /\ v.dev = activeDeviceID
    /\ v.what \in Dialogs => pc \in Dialogs
    /\ v.what \in {"page", "small"} => PageRuns
    /\ v.what = "small" => activeTabID = StatTab /\ layout \in Cramped
    /\ v.what = "nodriver" /\ PageRuns => appeared

BufferFollows == Running => \A v \in mainBuffer : Fits(v)

\* What the buffer holds at least, and the terminal shows, if no page disturbs it.
Shows ==
    Running /\ Undisturbed =>
        /\ mainShown = mainBuffer
        /\ pc \notin Dialogs =>
              /\ PageRuns => \E v \in mainBuffer : v.what \in {"page", "small"}
              /\ ~PageRuns => \E v \in mainBuffer : v.what = "nodriver"

\* The tab that carries the mark.
Marked == Running /\ activeTabID \notin FallibleTabs => tabMark = activeTabID

\* mainInit adds to a window that fits a view that fits.
LEMMA MainInitFits ==
    ASSUME NEW kept, NEW base, NEW before, NEW ok \in BOOLEAN,
           MainInit(kept, base, before, ok), \A v \in base : Fits(v)'
    PROVE  \A v \in mainBuffer' : Fits(v)'
<1>1. CASE ~PageRuns' /\ Paint(base, "nodriver")
  BY <1>1 DEF Paint, Shown, Fits, Dialogs
<1>2. CASE PageRuns' /\ TooSmall /\ Paint(base, "small")
  BY <1>2 DEF Paint, Shown, Fits, Dialogs, TooSmall
<1>3. CASE PageRuns' /\ mainBuffer' \in {base, base \cup {Shown("page")}}
  BY <1>3 DEF Shown, Fits, Dialogs
<1> QED
  BY <1>1, <1>2, <1>3 DEF MainInit, StatTooSmall, TabinfoInit, Paint, PaintInPart

\* What mainInit shows, unless the page's init fails.
LEMMA MainInitShows ==
    ASSUME NEW kept, NEW base, NEW before, NEW ok \in BOOLEAN,
           MainInit(kept, base, before, ok), Undisturbed', failed \in BOOLEAN
    PROVE  ok /\ Shows'
<1>0. ASSUME NEW what \in {"page", "small", "nodriver"}, Paint(base, what),
             what = "nodriver" <=> ~PageRuns'
      PROVE  Shows'
  <2>1. Shown(what) \in mainBuffer' /\ Shown(what).what = what
    BY <1>0 DEF Paint, Shown
  <2>2. mainShown' = mainBuffer'
    BY <1>0 DEF Paint
  <2> QED
    BY <1>0, <2>1, <2>2 DEF Shows
<1>1. CASE ~PageRuns' /\ ok /\ Paint(base, "nodriver")
  BY <1>0, <1>1
<1>2. CASE PageRuns' /\ TooSmall /\ ok /\ Paint(base, "small")
  BY <1>0, <1>2
<1>3. CASE PageRuns' /\ ~TooSmall /\ TabinfoInit(base, before, ok)
  <2>1. ok
    BY <1>3 DEF TabinfoInit, PaintInPart, Undisturbed, CannotFail
  <2> QED
    BY <1>0, <1>3, <2>1 DEF TabinfoInit
<1> QED
  BY <1>1, <1>2, <1>3 DEF MainInit, StatTooSmall

\* Whether the page runs depends on the context and the drivers only.
LEMMA PageRunsKept ==
    ASSUME UNCHANGED <<ctxVars, driverisLoaded>>
    PROVE  PageRuns' <=> PageRuns
BY DEF PageRuns, ActiveLoaded, ctxVars

\* The inductive invariant.
IInv == TypeOK /\ PageReady /\ BufferFollows /\ Shows /\ Marked

LEMMA InitInv == Init => IInv
BY InitType DEF Init, IInv, PageReady, BufferFollows, Shows, Marked, Running

LEMMA ReadyStep == TypeOK /\ PageReady /\ [Next]_vars => PageReady'
<1> SUFFICES ASSUME TypeOK, PageReady, [Next]_vars
             PROVE  PageReady'
  OBVIOUS
<1> USE DEF loopVars, mainVars, statusVars, sizeVars
<1>1. CASE \E kept, base, before : \E ok \in BOOLEAN : MainInit(kept, base, before, ok)
  BY <1>1, MainInitReady DEF PageReady
<1>2. CASE /\ UNCHANGED <<ctxVars, driverisLoaded, page, needRefresh>>
           /\ Running' => Running
  BY <1>2, PageRunsKept DEF PageReady, ctxVars
<1>3. CASE Start \/ Resize
  BY <1>1, <1>3 DEF Start, Resize, WindowsUpdateUi, ClearAndInit
<1>4. CASE SwitchDevice \/ SwitchTab \/ ClosePrompt \/ CloseHelp \/ DeviceAppears
  BY <1>1, <1>4
  DEF SwitchDevice, SwitchTab, ClosePrompt, CloseHelp, DeviceAppears, HotplugInit, ClearAndInit
<1>5. CASE \/ IgnoredKey \/ \E which \in Dialogs : OpenDialog(which)
  BY <1>2, <1>5 DEF IgnoredKey, OpenDialog, Running, Stopped
<1>6. CASE ConfirmExit
  BY <1>2, <1>6 DEF ConfirmExit, Running, Stopped
<1>7. CASE Timeout \/ DeviceSkip \/ DeviceFails \/ DevicesDone
  BY <1>2, <1>7 DEF Timeout, DeviceSkip, DeviceFails, DevicesDone, Running, Stopped
<1>8. CASE MainUpdate \/ MainSkip \/ StatusUpdate
  BY <1>2, <1>8 DEF MainUpdate, MainSkip, StatusUpdate, Running, Stopped
<1>9. CASE Signal \/ Winch \/ UNCHANGED vars
  BY <1>2, <1>9 DEF Signal, Winch, vars, Running
<1> QED
  BY <1>3, <1>4, <1>5, <1>6, <1>7, <1>8, <1>9 DEF Next, Key, DialogAnswer, WindowsUpdate

\* What holds of the main window after a step that clears it and draws it again.
LEMMA ClearedStep ==
    ASSUME NEW kept, NEW before, NEW ok \in BOOLEAN, ClearAndInit(kept, before, ok),
           failed \in BOOLEAN
    PROVE  BufferFollows' /\ Shows'
<1>1. MainInit(kept, {}, before, ok)
  BY DEF ClearAndInit, Cleared
<1>2. BufferFollows'
  BY <1>1, MainInitFits DEF BufferFollows
<1>3. ASSUME Undisturbed'
      PROVE  Shows'
  BY <1>1, <1>3, MainInitShows
<1>4. ASSUME ~Undisturbed'
      PROVE  Shows'
  BY <1>4 DEF Shows
<1> QED
  BY <1>2, <1>3, <1>4

\* A step that leaves the selection, the window and its history alone.
Resting ==
    /\ UNCHANGED <<ctxVars, driverisLoaded, mainVars, tabMark, layout>>
    /\ Running /\ (pc \in Dialogs <=> pc' \in Dialogs)

LEMMA RestingStep ==
    ASSUME BufferFollows, Shows, Resting
    PROVE  BufferFollows' /\ Shows'
<1>1. PageRuns' <=> PageRuns
  BY PageRunsKept DEF Resting
<1>2. Undisturbed' <=> Undisturbed
  BY <1>1 DEF Undisturbed, CannotFail, Resting, ctxVars, mainVars
<1>3. BufferFollows'
  BY <1>1 DEF BufferFollows, Fits, Resting, ctxVars, mainVars
<1>4. Shows'
  BY <1>1, <1>2 DEF Shows, Resting, ctxVars, mainVars
<1> QED
  BY <1>3, <1>4

\* A driver that appears: the page is drawn over what the window holds.
LEMMA AppearsStep ==
    ASSUME TypeOK, BufferFollows, Shows, DeviceAppears
    PROVE  BufferFollows' /\ Shows'
<1>1. PICK ok \in BOOLEAN : HotplugInit(ok)
  BY DEF DeviceAppears
<1>2. MainInit(page, mainBuffer, mainShown, ok)
  BY <1>1 DEF HotplugInit
<1>3. Running /\ pc \notin Dialogs /\ UNCHANGED <<activeTabID, activeDeviceID, layout>>
  BY DEF DeviceAppears, Running, Stopped, Dialogs, ctxVars, sizeVars
<1>4. /\ PageRuns => PageRuns'
      /\ PageRuns' => PageRuns \/ devIdx = activeDeviceID
  BY <1>3 DEF DeviceAppears, PageRuns, ActiveLoaded, TypeOK
<1>5. appeared' = (appeared \/ devIdx = activeDeviceID)
  BY <1>1 DEF HotplugInit
<1>6. ASSUME NEW v \in mainBuffer
      PROVE  Fits(v)'
  <2>1. Fits(v)
    BY <1>3 DEF BufferFollows
  <2> QED
    BY <1>3, <1>4, <1>5, <2>1 DEF Fits
<1>7. BufferFollows'
  BY <1>2, <1>6, MainInitFits DEF BufferFollows
<1>8. ASSUME Undisturbed'
      PROVE  Shows'
  BY <1>2, <1>8, MainInitShows DEF TypeOK
<1>9. ASSUME ~Undisturbed'
      PROVE  Shows'
  BY <1>9 DEF Shows
<1> QED
  BY <1>7, <1>8, <1>9

\* A dialog that is drawn, the help in a cleared window, the prompt over the page.
LEMMA DialogOpens ==
    ASSUME BufferFollows, Shows, NEW which \in Dialogs, OpenDialog(which)
    PROVE  BufferFollows' /\ Shows'
<1>1. /\ Running /\ pc \notin Dialogs /\ pc' \in Dialogs
      /\ UNCHANGED <<activeTabID, activeDeviceID, layout, driverisLoaded>>
  BY DEF OpenDialog, Running, Stopped, Dialogs, ctxVars, sizeVars
<1>2. PageRuns' <=> PageRuns
  BY <1>1, PageRunsKept DEF ctxVars
<1>3. \/ mainBuffer' = {Shown(which)}
      \/ mainBuffer' = mainBuffer \cup {Shown(which)} /\ UNCHANGED appeared
  BY DEF OpenDialog, Paint, Cleared
<1>4. ASSUME NEW v, v = Shown(which)
      PROVE  Fits(v)'
  BY <1>1, <1>4 DEF Fits, Shown, Dialogs
<1>5. ASSUME NEW v \in mainBuffer, UNCHANGED appeared
      PROVE  Fits(v)'
  BY <1>1, <1>2, <1>5 DEF BufferFollows, Fits
<1>6. BufferFollows'
  BY <1>3, <1>4, <1>5 DEF BufferFollows
<1>7. Shows'
  BY <1>1 DEF Shows, OpenDialog, Paint
<1> QED
  BY <1>6, <1>7

\* An update of the page draws over its window, or clears it, or fails.
LEMMA UpdateStep ==
    ASSUME TypeOK, BufferFollows, Shows, MainUpdate
    PROVE  BufferFollows' /\ Shows'
<1>1. /\ Running /\ pc \notin Dialogs /\ pc' \notin Dialogs
      /\ UNCHANGED <<activeTabID, activeDeviceID, layout, driverisLoaded>>
  BY DEF MainUpdate, AfterEvent, Running, Stopped, Dialogs, ctxVars, sizeVars
<1>2. PageRuns' /\ PageRuns
  BY <1>1, PageRunsKept DEF MainUpdate, PageRefreshes, PageRuns, ctxVars
<1>3. \/ mainBuffer' = {Shown("page")}
      \/ /\ mainBuffer' \in {mainBuffer, mainBuffer \cup {Shown("page")}}
         /\ UNCHANGED appeared
  BY DEF MainUpdate, Paint, PaintInPart, Cleared
<1>4. ASSUME NEW v, v = Shown("page")
      PROVE  Fits(v)'
  BY <1>1, <1>2, <1>4 DEF Fits, Shown, Dialogs
<1>5. ASSUME NEW v \in mainBuffer, UNCHANGED appeared
      PROVE  Fits(v)'
  BY <1>1, <1>2, <1>5 DEF BufferFollows, Fits
<1>6. BufferFollows'
  BY <1>3, <1>4, <1>5 DEF BufferFollows
<1>7. ASSUME Undisturbed'
      PROVE  Shows'
  <2>1. ~PaintInPart(mainBuffer, mainShown)
    BY <1>2, <1>7 DEF PaintInPart, Undisturbed, CannotFail
  <2>2. mainShown' = mainBuffer' /\ Shown("page") \in mainBuffer'
    BY <2>1 DEF MainUpdate, Paint, Cleared
  <2>3. PICK v \in mainBuffer' : v.what = "page"
    BY <2>2 DEF Shown
  <2> QED
    BY <1>2, <2>2, <2>3 DEF Shows
<1>8. ASSUME ~Undisturbed'
      PROVE  Shows'
  BY <1>8 DEF Shows
<1> QED
  BY <1>6, <1>7, <1>8

LEMMA ScreenStep ==
    TypeOK /\ BufferFollows /\ Shows /\ [Next]_vars => BufferFollows' /\ Shows'
<1> SUFFICES ASSUME TypeOK, BufferFollows, Shows, [Next]_vars, Running'
             PROVE  BufferFollows' /\ Shows'
  BY DEF BufferFollows, Shows
<1> USE DEF loopVars, statusVars, sizeVars
<1>0. failed \in BOOLEAN
  BY DEF TypeOK
<1>1. CASE Start \/ Resize
  BY <1>0, <1>1, ClearedStep DEF Start, Resize, WindowsUpdateUi
<1>2. CASE SwitchDevice \/ SwitchTab \/ ClosePrompt \/ CloseHelp
  BY <1>0, <1>2, ClearedStep DEF SwitchDevice, SwitchTab, ClosePrompt, CloseHelp
<1>3. CASE DeviceAppears
  BY <1>3, AppearsStep
<1>4. CASE \E which \in Dialogs : OpenDialog(which)
  BY <1>4, DialogOpens
<1>5. CASE MainUpdate
  BY <1>5, UpdateStep
<1>6. CASE IgnoredKey \/ Timeout \/ DeviceSkip \/ DeviceFails \/ DevicesDone
  BY <1>6, RestingStep
  DEF Resting, IgnoredKey, Timeout, DeviceSkip, DeviceFails, DevicesDone, AfterEvent,
      Running, Stopped, Dialogs
<1>7. CASE MainSkip \/ StatusUpdate
  BY <1>7, RestingStep
  DEF Resting, MainSkip, StatusUpdate, AfterEvent, Running, Stopped, Dialogs
<1>8. CASE Signal \/ Winch \/ UNCHANGED vars
  BY <1>8, RestingStep DEF Resting, Signal, Winch, vars, Running, Stopped, Dialogs
<1>9. CASE ConfirmExit
  BY <1>9 DEF ConfirmExit, Running, Stopped
<1> QED
  BY <1>1, <1>2, <1>3, <1>4, <1>5, <1>6, <1>7, <1>8, <1>9
  DEF Next, Key, DialogAnswer, WindowsUpdate

LEMMA MarkStep == TypeOK /\ Marked /\ [Next]_vars => Marked'
<1> SUFFICES ASSUME TypeOK, Marked, [Next]_vars, Running', activeTabID' \notin FallibleTabs
             PROVE  tabMark' = activeTabID'
  BY DEF Marked
<1> USE DEF loopVars, ctxVars
<1>1. CASE Start \/ Resize
  BY <1>1 DEF Start, Resize, WindowsUpdateUi
<1>2. CASE SwitchTab
  <2>1. PICK ok \in BOOLEAN : /\ ClearAndInit(page, mainShown, ok)
                              /\ tabMark' = IF ok THEN activeTabID' ELSE tabMark
    BY <1>2 DEF SwitchTab
  <2>2. ok
    BY <2>1 DEF ClearAndInit, MainInit, TabinfoInit, PaintInPart
  <2> QED
    BY <2>1, <2>2
<1>3. CASE Running /\ UNCHANGED <<activeTabID, tabMark>>
  BY <1>3 DEF Marked
<1>4. CASE SwitchDevice \/ ClosePrompt \/ CloseHelp \/ DeviceAppears \/ MainUpdate
  BY <1>3, <1>4
  DEF SwitchDevice, ClosePrompt, CloseHelp, DeviceAppears, MainUpdate, Running, Stopped
<1>5. CASE ConfirmExit \/ \E which \in Dialogs : OpenDialog(which)
  BY <1>3, <1>5 DEF ConfirmExit, OpenDialog, Running, Stopped
<1>6. CASE IgnoredKey \/ Timeout \/ DeviceSkip \/ DeviceFails \/ DevicesDone
  BY <1>3, <1>6
  DEF IgnoredKey, Timeout, DeviceSkip, DeviceFails, DevicesDone, Running, Stopped
<1>7. CASE MainSkip \/ StatusUpdate \/ Signal \/ Winch \/ UNCHANGED vars
  BY <1>3, <1>7 DEF MainSkip, StatusUpdate, Signal, Winch, vars, Running, Stopped
<1> QED
  BY <1>1, <1>2, <1>4, <1>5, <1>6, <1>7 DEF Next, Key, DialogAnswer, WindowsUpdate

\* IInv holds in every reachable state.
THEOREM Invariance == Spec => []IInv
<1>1. IInv /\ [Next]_vars => IInv'
  BY NextType, ReadyStep, ScreenStep, MarkStep DEF IInv
<1> QED
  BY <1>1, InitInv, PTL DEF Spec

\* WindowsUpdate never draws through a page that was not initialised for the
\* selection, or through curses windows that a resize deleted.
THEOREM UpdatesReachReadyPages == Spec => []PageReady
<1>1. IInv => PageReady
  BY DEF IInv
<1> QED
  BY <1>1, Invariance, PTL

\* What the terminal shows is on the selected tab and device, it is the page if
\* the driver is there and the message if not, unless a query of the page failed.
THEOREM TerminalFollows == Spec => []ScreenFollows
<1>1. ASSUME IInv
      PROVE  ScreenFollows
  <2>1. ASSUME Running, Undisturbed
        PROVE  /\ \A v \in mainShown : Fits(v)
               /\ pc \notin Dialogs =>
                     /\ PageRuns => \E v \in mainShown : v.what \in {"page", "small"}
                     /\ ~PageRuns => \E v \in mainShown : v.what = "nodriver"
    BY <1>1, <2>1 DEF IInv, BufferFollows, Shows
  <2>2. \A v \in mainShown : v.what \in {"page", "nodriver", "small"} \cup Dialogs
    BY <1>1 DEF IInv, TypeOK, Views, Dialogs
  <2>3. ASSUME Running, Undisturbed, pc \notin Dialogs
        PROVE  /\ ~PageRuns => Kinds = {"nodriver"}
               /\ PageRuns => Kinds \cap {"page", "small"} # {}
               /\ Kinds \cap Dialogs = {}
               /\ "small" \in Kinds => activeTabID = StatTab /\ layout \in Cramped
    <3>1. ASSUME ~PageRuns
          PROVE  Kinds = {"nodriver"}
      BY <2>1, <2>2, <2>3, <3>1 DEF Fits, Kinds
    <3>2. ASSUME PageRuns
          PROVE  Kinds \cap {"page", "small"} # {}
      BY <2>1, <2>3, <3>2 DEF Kinds
    <3>3. Kinds \cap Dialogs = {}
      BY <2>1, <2>3 DEF Fits, Kinds
    <3>4. "small" \in Kinds => activeTabID = StatTab /\ layout \in Cramped
      BY <2>1, <2>3 DEF Fits, Kinds
    <3> QED
      BY <3>1, <3>2, <3>3, <3>4
  <2> QED
    BY <1>1, <2>1, <2>3 DEF ScreenFollows, IInv, Marked, Fits
<1> QED
  BY <1>1, Invariance, PTL

\* "Driver is not Loaded!" is beside a page only if deviceUpdate drew the page over
\* it, and nothing that was drawn is held back from the terminal.
THEOREM OnlyTheMessageRemains == Spec => []NothingRemains
<1>1. ASSUME IInv
      PROVE  NothingRemains
  BY <1>1 DEF IInv, NothingRemains, BufferFollows, Shows, Fits, Kinds
<1> QED
  BY <1>1, Invariance, PTL

-----------------------------------------------------------------------------
(* Dialogs and the status window, until a page has failed                  *)

\* An init that does not succeed is remembered.
LEMMA FailureSeen ==
    ASSUME NEW kept, NEW before, NEW ok \in BOOLEAN, ClearAndInit(kept, before, ok),
           failed \in BOOLEAN, ~failed'
    PROVE  ok /\ ~failed
BY DEF ClearAndInit, MainInit, TabinfoInit, PaintInPart, StatTooSmall

LEMMA HotplugSeen ==
    ASSUME NEW ok \in BOOLEAN, HotplugInit(ok), failed \in BOOLEAN, ~failed'
    PROVE  ok /\ ~failed
BY DEF HotplugInit, MainInit, TabinfoInit, PaintInPart, StatTooSmall

\* Where no dialog is open its timeout is gone.
TimeoutBack == ~failed /\ pc \notin Dialogs \cup Stopped => inputTimeout # -1

LEMMA DialogStep == TypeOK /\ TimeoutBack /\ [Next]_vars => TimeoutBack'
<1> SUFFICES ASSUME TypeOK, TimeoutBack, [Next]_vars, ~failed',
                    pc' \notin Dialogs \cup Stopped
             PROVE  inputTimeout' # -1
  BY DEF TimeoutBack
<1> USE DEF loopVars, mainVars, statusVars, sizeVars
<1>0. failed \in BOOLEAN
  BY DEF TypeOK
<1>1. CASE ~failed /\ UNCHANGED inputTimeout /\ pc \notin Dialogs \cup Stopped
  BY <1>1 DEF TimeoutBack
<1>2. CASE Start \/ Resize
  BY <1>0, <1>1, <1>2, FailureSeen DEF Start, Resize, WindowsUpdateUi, Dialogs, Stopped
<1>3. CASE SwitchDevice \/ SwitchTab
  BY <1>0, <1>1, <1>3, FailureSeen DEF SwitchDevice, SwitchTab, Dialogs, Stopped
<1>4. CASE DeviceAppears
  BY <1>0, <1>1, <1>4, HotplugSeen DEF DeviceAppears, Dialogs, Stopped
<1>5. CASE ClosePrompt
  BY <1>5 DEF ClosePrompt
<1>6. CASE CloseHelp
  <2>1. PICK ok \in BOOLEAN : ClearAndInit(page, mainShown, ok) /\ inputTimeout' = HelpTimeout(ok)
    BY <1>6 DEF CloseHelp
  <2>2. ok
    BY <1>0, <2>1, FailureSeen
  <2> QED
    BY <2>1, <2>2 DEF HelpTimeout
<1>7. CASE MainUpdate
  BY <1>0, <1>1, <1>7 DEF MainUpdate, PaintInPart, Dialogs, Stopped
<1>8. CASE ConfirmExit \/ \E which \in Dialogs : OpenDialog(which)
  BY <1>8 DEF ConfirmExit, OpenDialog, Stopped
<1>9. CASE IgnoredKey \/ Timeout \/ DeviceSkip \/ DeviceFails \/ DevicesDone
  BY <1>1, <1>9 DEF IgnoredKey, Timeout, DeviceSkip, DeviceFails, DevicesDone, Dialogs, Stopped
<1>10. CASE MainSkip \/ StatusUpdate \/ Signal \/ Winch \/ UNCHANGED vars
  BY <1>1, <1>10 DEF MainSkip, StatusUpdate, Signal, Winch, vars, Dialogs, Stopped
<1> QED
  BY <1>2, <1>3, <1>4, <1>5, <1>6, <1>7, <1>8, <1>9, <1>10
  DEF Next, Key, DialogAnswer, WindowsUpdate

\* Until a page fails, no dialog leaves its endless timeout or its text behind.
THEOREM DialogsLeaveNothing == Spec => []DialogsEnd
<1>1. Init => TimeoutBack
  BY DEF Init, TimeoutBack, Dialogs
<1>2. TimeoutBack /\ ScreenFollows => DialogsEnd
  BY DEF TimeoutBack, ScreenFollows, Undisturbed, DialogsEnd, Dialogs, Stopped, Running
<1> QED
  BY <1>1, <1>2, DialogStep, TypeCorrect, TerminalFollows, PTL DEF Spec

LEMMA StatusStep == TypeOK /\ StatusFollows /\ [Next]_vars => StatusFollows'
<1> SUFFICES ASSUME TypeOK, StatusFollows, [Next]_vars, ~failed', Running'
             PROVE  StatusFollows'
  BY DEF StatusFollows
<1> USE DEF loopVars, mainVars, statusVars, sizeVars
<1>0. failed \in BOOLEAN
  BY DEF TypeOK
\* a redraw that goes as far as the status window
<1>1. ASSUME NEW before, NEW sensor \in BOOLEAN, StatusInit(before, sensor)
      PROVE  StatusFollows'
  BY <1>1 DEF StatusInit, StatusFollows, NoText, ActiveLoaded
\* a step that leaves device and text alone and takes no driver away
<1>2. CASE /\ UNCHANGED <<activeDeviceID, statusBuffer>> /\ ~failed /\ Running
           /\ ActiveLoaded => ActiveLoaded'
  BY <1>2 DEF StatusFollows
<1>3. CASE Start \/ Resize
  <2>1. PICK ok \in BOOLEAN : WindowsUpdateUi(ok)
    BY <1>3 DEF Start, Resize
  <2>2. ok
    BY <1>0, <2>1, FailureSeen DEF WindowsUpdateUi
  <2> QED
    BY <1>1, <2>1, <2>2 DEF WindowsUpdateUi
<1>4. CASE SwitchDevice
  <2>1. PICK ok \in BOOLEAN : ClearAndInit(page, mainShown, ok) /\ StatusReinit(ok)
    BY <1>4 DEF SwitchDevice
  <2>2. ok
    BY <1>0, <2>1, FailureSeen
  <2> QED
    BY <1>1, <2>1, <2>2 DEF StatusReinit
<1>5. CASE SwitchTab \/ ClosePrompt \/ CloseHelp
  <2>1. PICK ok \in BOOLEAN : ClearAndInit(page, mainShown, ok)
    BY <1>5 DEF SwitchTab, ClosePrompt, CloseHelp
  <2>2. ~failed
    BY <1>0, <2>1, FailureSeen
  <2>3. UNCHANGED <<activeDeviceID, driverisLoaded, statusBuffer>> /\ Running
    BY <1>5 DEF SwitchTab, ClosePrompt, CloseHelp, Running, Stopped, ctxVars
  <2> QED
    BY <1>2, <2>2, <2>3 DEF ActiveLoaded
<1>6. CASE DeviceAppears
  <2>1. PICK ok \in BOOLEAN : HotplugInit(ok)
    BY <1>6 DEF DeviceAppears
  <2>2. ~failed
    BY <1>0, <2>1, HotplugSeen
  <2>3. ActiveLoaded => ActiveLoaded'
    BY <1>6 DEF DeviceAppears, ActiveLoaded, TypeOK, ctxVars
  <2> QED
    BY <1>2, <1>6, <2>2, <2>3 DEF DeviceAppears, ctxVars, Running, Stopped
<1>7. CASE MainUpdate
  <2>1. UNCHANGED <<ctxVars, driverisLoaded, statusBuffer>> /\ ~failed /\ Running
    BY <1>0, <1>7 DEF MainUpdate, PaintInPart, Running, Stopped
  <2> QED
    BY <1>2, <2>1 DEF ActiveLoaded, ctxVars
<1>8. CASE UNCHANGED <<ctxVars, driverisLoaded, statusBuffer, failed>> /\ Running
  BY <1>2, <1>8 DEF ActiveLoaded, ctxVars
<1>9. CASE IgnoredKey \/ Timeout \/ DeviceSkip \/ DeviceFails \/ DevicesDone
  BY <1>8, <1>9
  DEF IgnoredKey, Timeout, DeviceSkip, DeviceFails, DevicesDone, Running, Stopped
<1>10. CASE MainSkip \/ StatusUpdate \/ Signal \/ Winch \/ UNCHANGED vars
  BY <1>8, <1>10 DEF MainSkip, StatusUpdate, Signal, Winch, vars, Running, Stopped
<1>11. CASE ConfirmExit \/ \E which \in Dialogs : OpenDialog(which)
  BY <1>8, <1>11 DEF ConfirmExit, OpenDialog, Running, Stopped
<1> QED
  BY <1>3, <1>4, <1>5, <1>6, <1>7, <1>9, <1>10, <1>11
  DEF Next, Key, DialogAnswer, WindowsUpdate

\* Until a page fails, the status window describes the active device.
THEOREM StatusDescribes == Spec => []StatusFollows
<1>1. Init => StatusFollows
  BY DEF Init, StatusFollows, Running
<1> QED
  BY <1>1, StatusStep, TypeCorrect, PTL DEF Spec

-----------------------------------------------------------------------------
(* Resizes                                                                 *)

LEMMA LayoutStep == LayoutFollows /\ [Next]_vars => LayoutFollows'
<1> SUFFICES ASSUME LayoutFollows, [Next]_vars
             PROVE  LayoutFollows'
  OBVIOUS
<1> USE DEF loopVars, mainVars, statusVars, sizeVars
<1>1. CASE Start \/ Resize
  BY <1>1 DEF Start, Resize, WindowsUpdateUi, InitWinLayout, LayoutFollows
<1>2. CASE Winch
  BY <1>2 DEF Winch, LayoutFollows
<1>3. CASE ClosePrompt \/ CloseHelp
  BY <1>3 DEF ClosePrompt, CloseHelp, DialogKey, LayoutFollows
<1>4. CASE \/ Key \/ ConfirmExit \/ Timeout \/ WindowsUpdate \/ Signal \/ UNCHANGED vars
  <2>1. UNCHANGED sizeVars /\ (pc' = "start" <=> pc = "start")
    BY <1>4 DEF Key, SwitchDevice, SwitchTab, IgnoredKey, OpenDialog, Dialogs, ConfirmExit,
      Timeout, WindowsUpdate, DeviceSkip, DeviceAppears, DeviceFails, DevicesDone,
      MainUpdate, MainSkip, StatusUpdate, Signal, AfterEvent, vars
  <2> QED
    BY <2>1 DEF LayoutFollows
<1> QED
  BY <1>1, <1>2, <1>3, <1>4 DEF Next, DialogAnswer

\* A resize is never lost, except to a dialog that reads the KEY_RESIZE.
THEOREM ResizesAreSeen == Spec => []LayoutFollows
<1>1. Init => LayoutFollows
  BY DEF Init, LayoutFollows
<1> QED
  BY <1>1, LayoutStep, PTL DEF Spec

-----------------------------------------------------------------------------
(* How long the program goes on once the exit was requested.               *)

\* an upper bound of the steps of the thread before it stops, dialogs included
StepsLeft ==
    CASE pc = "getch" -> DeviceCount + 4
      [] pc = "device" -> (DeviceCount - devIdx) + 3
      [] pc = "main" -> 2
      [] pc \in Stopped -> 0
      [] OTHER -> 1

LEMMA StepsLeftType == TypeOK => StepsLeft \in 0 .. DeviceCount + 4
BY CountsAssumption DEF TypeOK, StepsLeft, Stopped

LEMMA ExitStep ==
    ASSUME TypeOK, requeset_exit, Next, ~Winch
    PROVE  requeset_exit' /\ StepsLeft' < StepsLeft
<1> USE CountsAssumption
<1>first. devIdx \in Int /\ DeviceCount \in Int /\ devIdx <= DeviceCount
  BY DEF TypeOK
<1>1. ASSUME pc \notin Stopped, AfterEvent
      PROVE  StepsLeft' < StepsLeft
  <2>1. StepsLeft' = 0
    BY <1>1 DEF AfterEvent, StepsLeft, Stopped
  <2>2. StepsLeft > 0
    BY <1>1 DEF StepsLeft, TypeOK
  <2> QED
    BY <2>1, <2>2
<1>2. CASE Start \/ ClosePrompt \/ CloseHelp
  BY <1>1, <1>2 DEF Start, ClosePrompt, CloseHelp, Stopped
<1>3. CASE Resize
  <2>1. CASE pc' = "aborted"
    BY <1>3, <2>1 DEF Resize, StepsLeft, Stopped
  <2> QED
    BY <1>1, <1>3, <2>1 DEF Resize, Stopped
<1>4. CASE SwitchDevice \/ SwitchTab \/ IgnoredKey
  BY <1>1, <1>4 DEF SwitchDevice, SwitchTab, IgnoredKey, Stopped
<1>5. CASE \E which \in Dialogs : OpenDialog(which)
  BY <1>5 DEF OpenDialog, Dialogs, StepsLeft, Stopped
<1>6. CASE ConfirmExit
  BY <1>6 DEF ConfirmExit, StepsLeft, Stopped
<1>7. CASE Timeout
  BY <1>7 DEF Timeout, StepsLeft, loopVars, Stopped
<1>next. ASSUME pc = "device", pc' = "device", devIdx' = devIdx + 1
       PROVE  StepsLeft' < StepsLeft
  <2>1. StepsLeft = (DeviceCount - devIdx) + 3
    BY <1>next DEF StepsLeft, Stopped
  <2>2. StepsLeft' = (DeviceCount - devIdx') + 3
    BY <1>next DEF StepsLeft, Stopped
  <2> QED
    BY <1>first, <1>next, <2>1, <2>2
<1>8. CASE DeviceSkip
  BY <1>8, <1>next DEF DeviceSkip
<1>9. CASE DeviceAppears
  <2>1. CASE devIdx' = devIdx + 1 /\ pc' = pc
    BY <1>9, <1>next, <2>1 DEF DeviceAppears
  <2> QED
    BY <1>1, <1>9, <2>1 DEF DeviceAppears, Stopped
<1>10. CASE DeviceFails \/ StatusUpdate
  BY <1>1, <1>10 DEF DeviceFails, StatusUpdate, Stopped
<1>11. CASE DevicesDone
  <2>1. StepsLeft = (DeviceCount - devIdx) + 3 /\ StepsLeft' = 2
    BY <1>11 DEF DevicesDone, StepsLeft, Stopped
  <2> QED
    BY <1>first, <1>11, <2>1 DEF DevicesDone
<1>12. CASE MainUpdate
  <2>1. CASE pc' = "status"
    BY <1>12, <2>1 DEF MainUpdate, StepsLeft, Stopped
  <2> QED
    BY <1>1, <1>12, <2>1 DEF MainUpdate, Stopped
<1>13. CASE MainSkip
  BY <1>13 DEF MainSkip, StepsLeft, Stopped
<1> QED
  BY <1>2, <1>3, <1>4, <1>5, <1>6, <1>7, <1>8, <1>9, <1>10, <1>11, <1>12, <1>13
  DEF Next, Key, DialogAnswer, WindowsUpdate, Signal

\* Once the exit is requested, by a signal or by the prompt, nothing takes the request
\* back, and every step but a resize of the terminal brings the end nearer: the thread
\* takes at most four steps and one per device, whatever keys come and whatever fails.
THEOREM ExitIsNear ==
    Spec => [][requeset_exit =>
                  /\ requeset_exit'
                  /\ StepsLeft \in 0 .. DeviceCount + 4
                  /\ StepsLeft' < StepsLeft \/ (Winch /\ StepsLeft' = StepsLeft)]_vars
<1>1. ASSUME TypeOK, [Next]_vars
      PROVE  [requeset_exit =>
                  /\ requeset_exit'
                  /\ StepsLeft \in 0 .. DeviceCount + 4
                  /\ StepsLeft' < StepsLeft \/ (Winch /\ StepsLeft' = StepsLeft)]_vars
  <2>1. ASSUME Winch
        PROVE  StepsLeft' = StepsLeft /\ requeset_exit' = requeset_exit
    BY <2>1 DEF Winch, loopVars, StepsLeft
  <2> QED
    BY <1>1, <2>1, ExitStep, StepsLeftType
<1> QED
  BY <1>1, TypeCorrect, PTL DEF Spec

=============================================================================
