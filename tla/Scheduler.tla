----------------------------- MODULE Scheduler -----------------------------
(***************************************************************************)
(* The clock of the event loop: getch() with its timeouts, WindowsUpdate   *)
(* (src/tui/window.c) that runs the windows that are due, in order, until  *)
(* one of them fails, and mainUpdate with the period of the active page.   *)
(*                                                                         *)
(* The unit of time is the 100 ms of the shortest timeout.  Of a window    *)
(* the module keeps the age, the time since last_update_time; ages stop at *)
(* Cap, and a window set due by an init (last_update_time = 0) has that    *)
(* age.  What a handler does is abstracted to its result and its duration. *)
(***************************************************************************)
EXTENDS Integers

CONSTANTS
    Period,      \* Window.period, by WindowType
    PagePeriod,  \* TabInfo.period of the active page, 0 if it is not refreshed
    MaxWork,     \* the longest a handler takes
    Cap          \* the age at which ages stop

\* enum WindowType, the order in which the windows are visited
Device == 1
Tab    == 2
Main   == 3
Status == 4
Win    == 1 .. 4

LongTimeout == 2          \* timeout(200) of helperHandler
Forever     == 0          \* timeout(-1)

\* the age that no window exceeds, see Timely
Limit(w) == Period[w] - 1 + 4 * MaxWork + LongTimeout + (w - 1) * MaxWork

ASSUME PeriodAssumption == Period \in [Win -> Nat \ {0}] /\ PagePeriod \in Nat
ASSUME WorkAssumption == MaxWork \in Nat
ASSUME CapAssumption ==
    Cap \in Nat /\ PagePeriod <= Cap /\ \A w \in Win : Limit(w) < Cap

VARIABLES
    age,        \* of the windows
    pageAge,    \* of the active page
    loaded,     \* whether the driver of the active device is
    timeout,    \* how long getch() waits
    next,       \* the next window of WindowsUpdate, or 0: blocked in getch()
    due,        \* the windows due at the current_time of this WindowsUpdate
    excused,    \* history: a key or an error came since the window's last update
    quiet       \* history: the last step was no key and no error

vars == <<age, pageAge, loaded, timeout, next, due, excused, quiet>>

Later(a, d) == IF a + d > Cap THEN Cap ELSE a + d
Aged(d)     == [w \in Win |-> Later(age[w], d)]

Init ==
    /\ age = [w \in Win |-> Cap] /\ pageAge = Cap
    /\ loaded \in BOOLEAN
    /\ timeout = 1 /\ next = 0 /\ due = {}
    /\ excused = [w \in Win |-> TRUE] /\ quiet = TRUE

-----------------------------------------------------------------------------
(* getch() times out: WindowsUpdate reads the clock once.                  *)

DueAt(ages) == { w \in Win : ages[w] >= Period[w] }

TimesOut ==
    /\ next = 0 /\ timeout # Forever
    /\ age' = Aged(timeout) /\ pageAge' = Later(pageAge, timeout)
    /\ due' = DueAt(age') /\ next' = 1
    /\ quiet' = TRUE
    /\ UNCHANGED <<loaded, timeout, excused>>

\* the bugs of a loop that goes past the last window, or visits every other
FollowingUnbounded(w) == w + 1
FollowingSkips(w) == IF w >= Main THEN 0 ELSE w + 2
Following(w) == IF w = Status THEN 0 ELSE w + 1

NotDue(w) ==
    /\ next = w /\ w \notin due
    /\ next' = Following(w) /\ quiet' = TRUE
    /\ UNCHANGED <<age, pageAge, loaded, timeout, due, excused>>

\* mainUpdate reads the clock again for the page, and leaves the page alone
\* as long as the active device has no driver; deviceUpdate may initialise the
\* page, TabinfoInit makes it due, and nothing else in an update touches the
\* page's age
PageAge(w, d) ==
    IF w = Main /\ loaded /\ PagePeriod > 0 /\ pageAge >= PagePeriod THEN {0}
    ELSE IF w = Device THEN {Later(pageAge, d), Cap}
    ELSE {Later(pageAge, d)}

\* deviceUpdate finds the driver of the active device, and initialises its page
Loads(w) ==
    \/ UNCHANGED loaded
    \/ w = Device /\ loaded' = TRUE /\ pageAge' = Cap

\* last_update_time is read after the update, so only later work ages it; a
\* loop that forgets it updates the window at every pass
UpdatedForgotten(w, d) == [Aged(d) EXCEPT ![w] = Later(age[w], d)]
Updated(w, d) == [Aged(d) EXCEPT ![w] = 0]

Updates(w) ==
    /\ next = w /\ w \in due
    /\ \E d \in 0 .. MaxWork : age' = Updated(w, d) /\ pageAge' \in PageAge(w, d)
    /\ Loads(w)
    /\ next' = Following(w)
    /\ excused' = [excused EXCEPT ![w] = FALSE] /\ quiet' = TRUE
    /\ UNCHANGED <<timeout, due>>

\* an update returns an error: the pass ends, last_update_time stays; the tab
\* window has no update that could fail
Fails(w) ==
    /\ next = w /\ w \in due \ {Tab}
    /\ \E d \in 0 .. MaxWork :
          /\ age' = Aged(d)
          /\ pageAge' \in {Later(pageAge, d)} \cup (IF w = Device THEN {Cap} ELSE {})
    /\ Loads(w)
    /\ next' = 0
    /\ excused' = [v \in Win |-> v >= w \/ excused[v]] /\ quiet' = FALSE
    /\ UNCHANGED <<timeout, due>>

-----------------------------------------------------------------------------
(* getch() returns a key, after any part of the timeout.                   *)

Waits == IF timeout = Forever THEN {0, Cap} ELSE 0 .. timeout

\* a key without effect, and the keys that draw another page, or that of another
\* device: TabinfoInit, unless its driver is missing
PlainKey ==
    /\ next = 0
    /\ \E d \in Waits :
          age' = Aged(d) /\ pageAge' \in {Later(pageAge, d), Cap}
    /\ loaded' \in BOOLEAN /\ (loaded' /\ ~loaded => pageAge' = Cap)
    /\ excused' = [w \in Win |-> TRUE] /\ quiet' = FALSE
    /\ UNCHANGED <<timeout, next, due>>

\* KEY_RESIZE: WindowsInit sets last_update_time of each window to 0
ResizeKey ==
    /\ next = 0
    /\ age' = [w \in Win |-> Cap] /\ pageAge' \in {pageAge, Cap}
    /\ excused' = [w \in Win |-> TRUE] /\ quiet' = FALSE
    /\ UNCHANGED <<loaded, timeout, next, due>>

\* a dialog waits for its own key as long as the user likes; the prompt then
\* sets timeout(100), the help timeout(200), or nothing if the page fails
DialogKeys ==
    /\ next = 0
    /\ \E d \in 0 .. Cap : age' = Aged(d) /\ pageAge' \in {Later(pageAge, d), Cap}
    /\ timeout' \in {1, LongTimeout, Forever}
    /\ excused' = [w \in Win |-> TRUE] /\ quiet' = FALSE
    /\ UNCHANGED <<loaded, next, due>>

Pass == \E w \in Win : NotDue(w) \/ Updates(w) \/ Fails(w)

Next == TimesOut \/ Pass \/ PlainKey \/ ResizeKey \/ DialogKeys

Spec == Init /\ [][Next]_vars

\* getch() with a timeout returns and a handler returns
FairSpec == Spec /\ WF_vars(TimesOut) /\ WF_vars(Pass)

-----------------------------------------------------------------------------
(* Properties                                                              *)

\* Ages stay within the cap and the pass within the windows.
TypeOK ==
    /\ age \in [Win -> 0 .. Cap] /\ pageAge \in 0 .. Cap /\ loaded \in BOOLEAN
    /\ timeout \in {1, LongTimeout, Forever}
    /\ next \in 0 .. 4 /\ due \subseteq Win
    /\ excused \in [Win -> BOOLEAN] /\ quiet \in BOOLEAN

\* A window is never older than its period by more than one timeout and the
\* work of a whole pass and of the windows before it, unless since its last
\* update a key was pressed or the update of this window or of an earlier one
\* failed: an error of a later window never delays an earlier one.
Timely == \A w \in Win : ~excused[w] => age[w] <= Limit(w)

\* Once there are no keys and no errors, every window is updated again and again,
\* and so is the page if the active device has its driver by then, unless a failed
\* page left the help's endless getch() behind.
KeepsRefreshing ==
    <>[]quiet => /\ \A w \in Win : []<>(age[w] = 0 \/ timeout = Forever)
                 /\ []<>(pageAge = 0 \/ ~loaded \/ timeout = Forever)

=============================================================================
