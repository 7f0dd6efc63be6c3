------------------------------ MODULE StatPage ------------------------------
(* The Stat page of tui/stateinfo.c for one device: the order in which an  *)
(* update queries the sensors, draws and refreshes, the maxima of the bars *)
(* (tui/window.c), and the load of the processor.  The value of a sensor   *)
(* is abstracted to the time it was read at, the load is computed.         *)
EXTENDS Integers

CONSTANTS
    Changes,        \* of idle and busy ticks, from one time to the next
    Word,           \* 2^64, the range of the tick counters
    MaxTime, MaxFailures    \* bounds

Ticks == [idle : Int, busy : Nat]
Total(ticks) == ticks.idle + ticks.busy

ASSUME TickAssumption ==
    Word \in Nat \ {0} /\ Changes \subseteq { c \in Ticks : Total(c) >= 0 }
ASSUME BoundAssumption == MaxTime \in Nat \ {0} /\ MaxFailures \in Nat
\* the counters are far from their range: 2^64 is a thousand times the ticks of
\* millions of years
ASSUME WordAssumption ==
    1000 < Word /\ \A c \in Changes : MaxTime * (1000 * c.idle) < Word

VARIABLES
    time,           \* of the sensors
    zeroMax,        \* the bars for which the device reports a maximum of 0
    first,          \* no load was computed yet
    since,          \* ticks since the last reading of /proc/stat that counted
    load, interval, \* last_percent, and history: the ticks it was computed from
    max,            \* of the bars: "unset", "default" (100), or the "device"'s
    buffer, screen, \* when the values in the window and on the terminal were read
    drawnBy,        \* history: what refreshed the window last, "update" or "prompt"
    needRefresh,
    pc,             \* "start", "idle", "prompt" (awaiting its key), or "crashed"
    failures

loadVars == <<first, since, load, interval>>
drawVars == <<buffer, screen, drawnBy>>
vars == <<time, zeroMax, loadVars, max, drawVars, needRefresh, pc, failures>>

\* the values of the page, and the query of update_sensor_value each is drawn after
QueryOf ==
    [GFX |-> 1, MEM |-> 2, GPU |-> 3,
     VRAM |-> 6, VIS |-> 6, GTT |-> 6, RAM |-> 6, CPU |-> 6,
     Temp |-> 7, Power |-> 8, PGFX |-> 9, PMEM |-> 10]
Item == DOMAIN QueryOf
LastQuery == 10
Bars == {"GFX", "MEM", "GPU", "VRAM", "VIS", "GTT", "RAM", "CPU"}
DeviceBars == Bars \ {"GPU", "CPU"}     \* those with a maximum of the device's

Blank == [item \in Item |-> 0]
NoTicks == [idle |-> 0, busy |-> 0]
Plus(a, b) == [idle |-> a.idle + b.idle, busy |-> a.busy + b.busy]

-----------------------------------------------------------------------------

Init ==
    /\ time = 1 /\ zeroMax \in {{}, {"VIS"}}
    /\ first = TRUE /\ since = NoTicks /\ load = 0 /\ interval = NoTicks
    /\ max = "unset" /\ buffer = Blank /\ screen = Blank /\ drawnBy = "update"
    /\ needRefresh = TRUE /\ pc = "start" /\ failures = 0

\* time goes by: the sensors have other values, the processor worked and idled;
\* of the idle ticks, those of iowait may even be taken back
Tick ==
    /\ pc # "crashed" /\ time < MaxTime
    /\ time' = time + 1
    /\ IF first THEN UNCHANGED since ELSE \E c \in Changes : since' = Plus(since, c)
    /\ UNCHANGED <<zeroMax, first, load, interval, max, drawVars, needRefresh, pc, failures>>

-----------------------------------------------------------------------------
(* getCpuLoad                                                              *)

\* in unsigned words: the share of the idle ticks, in thousandths
IdleShare(ticks) == (((ticks.idle % Word) * 1000) % Word) \div Total(ticks)

\* the bugs of a load without the remainder, and of the idle share taken for the load
LoadUnreduced(ticks) == 1000 - IdleShare(ticks)
LoadOfIdle(ticks) == IdleShare(ticks) % 1000
Load(ticks) == ((1000 - IdleShare(ticks)) % Word) % 1000

\* the first call reads /proc/stat twice, 50 ms apart; a reading that shows no tick
\* since the last is not kept
getCpuLoad ==
    \E ticks \in IF first THEN Changes ELSE {since} :
        /\ first' = FALSE
        /\ IF Total(ticks) = 0 THEN since' = ticks /\ UNCHANGED <<load, interval>>
           ELSE since' = NoTicks /\ load' = Load(ticks) /\ interval' = ticks

-----------------------------------------------------------------------------
(* update_sensor_value and update_client_info                              *)

MayFail == failures < MaxFailures

\* the number of queries that are answered
Answered == IF MayFail THEN 0 .. LastQuery ELSE {LastQuery}

ShownBy(n) == { item \in Item : QueryOf[item] <= n }

\* the bug of an update that goes on after a query that failed
ReadBehind(read, n) ==
    [item \in Item |-> IF QueryOf[item] = n + 1 THEN read[item] ELSE time]
Read(read, n) == [item \in Item |-> IF item \in ShownBy(n) THEN time ELSE read[item]]

\* barSetValue divides by the maximum
ZeroMax(maxima) ==
    CASE maxima = "unset" -> Bars [] maxima = "default" -> {} [] maxima = "device" -> zeroMax
DividesByZero(n, maxima) == ShownBy(n) \cap ZeroMax(maxima) # {}

\* a query that fails ends the callback before its wrefresh
UpdateSensors(read, maxima) ==
    \E n \in Answered, clients \in {TRUE, ~MayFail} :
        IF DividesByZero(n, maxima)
        THEN pc' = "crashed" /\ UNCHANGED <<drawVars, failures, loadVars>>
        ELSE /\ pc' = "idle" /\ buffer' = Read(read, n)
             /\ IF n = LastQuery /\ clients
                THEN screen' = buffer' /\ drawnBy' = "update" /\ UNCHANGED failures
                ELSE UNCHANGED <<screen, drawnBy>> /\ failures' = failures + 1
             /\ IF n >= QueryOf.CPU THEN getCpuLoad ELSE UNCHANGED loadVars

-----------------------------------------------------------------------------
(* The callbacks of the page.                                              *)

\* the bug of bars that are created without a maximum
CreatedUnset == "unset"
\* barCreate
Created == "default"

\* tabStateInfoInit: all bars are created, then the maxima queried, which may fail,
\* and only then set
InitPage ==
    /\ pc # "crashed"
    /\ \/ /\ MayFail /\ failures' = failures + 1
          /\ max' = Created /\ buffer' = Blank /\ pc' = "idle"
          /\ UNCHANGED <<screen, drawnBy, loadVars>>
       \/ max' = "device" /\ UpdateSensors(Blank, "device")
    /\ UNCHANGED <<time, zeroMax, needRefresh>>

\* the same in a window that is too small
TooSmall ==
    /\ pc # "crashed"
    /\ needRefresh' = FALSE /\ pc' = "idle"
    /\ buffer' = Blank /\ screen' = Blank /\ drawnBy' = "update"
    /\ UNCHANGED <<time, zeroMax, loadVars, max, failures>>

\* tabStateInfoUpdate, also after an init that failed
UpdatePage ==
    /\ pc = "idle" /\ needRefresh
    /\ UNCHANGED max /\ UpdateSensors(buffer, max)
    /\ UNCHANGED <<time, zeroMax, needRefresh>>

\* exitProgram draws its prompt over the page and refreshes the window, the help
\* clears it first; the page is initialised again when the key is typed
Prompt ==
    /\ pc = "idle" /\ pc' = "prompt" /\ drawnBy' = "prompt"
    /\ \/ screen' = buffer /\ UNCHANGED buffer
       \/ screen' = Blank /\ buffer' = Blank
    /\ UNCHANGED <<time, zeroMax, loadVars, max, needRefresh, failures>>

Next == Tick \/ InitPage \/ TooSmall \/ UpdatePage \/ Prompt

Spec == Init /\ [][Next]_vars

-----------------------------------------------------------------------------
(* Properties                                                              *)

\* Every variable keeps the values the code can give it; the load stays below
\* 1000, whatever the counters do, so that the bar never shows 100 percent.
TypeOK ==
    /\ time \in 1 .. MaxTime /\ zeroMax \subseteq DeviceBars
    /\ first \in BOOLEAN /\ since \in Ticks /\ Total(since) >= 0
    /\ load \in 0 .. 999 /\ interval \in Ticks
    /\ max \in {"unset", "default", "device"}
    /\ buffer \in [Item -> 0 .. MaxTime] /\ screen \in [Item -> 0 .. MaxTime]
    /\ drawnBy \in {"update", "prompt"}
    /\ needRefresh \in BOOLEAN /\ pc \in {"start", "idle", "prompt", "crashed"}
    /\ failures \in 0 .. MaxFailures

\* The values on the terminal were all read in one update, although an update may
\* end after any of its queries: nothing refreshes the window then.  Only the exit
\* prompt brings such a mixture to the terminal, and there no value is older than
\* one that is queried after it.
OfOneUpdate ==
    \A a, b \in Item :
        /\ drawnBy = "update" => screen[a] = screen[b]
        /\ QueryOf[a] < QueryOf[b] => screen[a] >= screen[b]

\* The load is within a thousandth the busy share of all ticks since the last one,
\* also of those in updates that did not get to it; but 0 instead of 1000 when next
\* to none of them were idle.  (When the kernel takes back idle ticks, anything.)
LoadShown ==
    LET busy == 1000 * interval.busy
    IN interval.idle >= 0 /\ Total(interval) > 0 =>
          \/ 1000 * interval.idle < Total(interval) /\ load = 0
          \/ busy <= load * Total(interval) /\ (load - 1) * Total(interval) < busy

\* No bar divides by zero unless the device reports a maximum of 0, although after
\* an init that failed the updates go on without the maxima.
DividesSafely == zeroMax = {} => pc # "crashed"

=============================================================================
