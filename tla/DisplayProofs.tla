--------------------------- MODULE DisplayProofs ---------------------------
(***************************************************************************)
(* Proofs about Display, for any devices, monitors and connectors: types,  *)
(* when the array of displays is overrun, that the terminal shows what the *)
(* last complete query of the active device looked like and what can be    *)
(* mixed with it, and that a query reads what is connected.                *)
(***************************************************************************)
EXTENDS Display, TLAPS

Loaded == onTab /\ active \in loaded

\* The tag is the active device's while the page is active, and an update that
\* has not drawn yet leaves the terminal as the last draw did.
Tagged  == Loaded => current_device = active
Running == Querying => Loaded
Mirrors ==
    Loaded /\ ~undrawn /\ pc \in {"idle", "update"} =>
        /\ screen.page = "display" /\ screen.state = current
        /\ screen.mixed => late

\* The init starts in a cleared window, unless a driver appeared.
Fresh == pc = "init" => buffer = Blank \/ late

\* A query that runs is one of the active device and has stored at most one
\* display per connector it has read.
Counting ==
    Querying =>
        /\ next <= Connectors[active] + 1
        /\ Len(display.list) < next
        /\ display.of = active

\* A query that was completed was compared with what the program remembers.
Compared ==
    queried /\ pc = "idle" =>
        /\ display.of = current_device
        /\ current.connectors = display.connectors
        /\ Looks(current) = Looks(display)

IInv == TypeOK /\ Tagged /\ Running /\ Mirrors /\ Fresh /\ Counting /\ Compared

-----------------------------------------------------------------------------
(* What the operators return                                               *)

\* The first state of a query, and that before any.
LEMMA UnknownState ==
    /\ Unknown \in States /\ Other \in Contents /\ Blank \in Contents
    /\ Unknown.list = <<>>
    /\ \A d \in Devices :
          LET s == [Unknown EXCEPT !.valid = TRUE, !.of = d]
          IN s \in States /\ s.list = <<>> /\ s.of = d
<1>1. <<>> \in Seq(Infos)
  OBVIOUS
<1> QED
  BY <1>1 DEF Unknown, States, Other, Blank, Contents

\* The page drawn over something: mixed with it unless the window was empty or
\* has the same page.
LEMMA DrawnContents ==
    ASSUME NEW base, NEW s \in States
    PROVE  /\ DrawnOver(base, s) \in Contents
           /\ DrawnOver(base, s).page = "display" /\ DrawnOver(base, s).state = s
           /\ DrawnOver(Blank, s).mixed = FALSE
<1>1. (base \notin {Blank, Drawn(s)}) \in BOOLEAN
  OBVIOUS
<1>2. DrawnOver(base, s) \in Contents
  BY <1>1 DEF DrawnOver, Drawn, Contents
<1>3. DrawnOver(base, s).page = "display" /\ DrawnOver(base, s).state = s
  BY DEF DrawnOver, Drawn
<1>4. DrawnOver(Blank, s).mixed = (Blank \notin {Blank, Drawn(s)})
  BY DEF DrawnOver, Drawn
<1>5. Blank \in {Blank, Drawn(s)}
  OBVIOUS
<1> QED
  BY <1>2, <1>3, <1>4, <1>5

\* A state whose EDIDs were parsed is one, of the same displays.
LEMMA ParsedState ==
    ASSUME NEW s \in States
    PROVE  /\ Parsed(s) \in States
           /\ Parsed(s).list = s.list /\ Parsed(s).connectors = s.connectors
           /\ Parsed(s).of = s.of
<1> DEFINE good(n) == \A i \in 1 .. n : ~Unparsed(s.list[i])
           N == {i \in 1 .. Len(s.list) : good(i - 1)}
           L == {i \in 1 .. Len(s.list) : good(i)}
<1>1. Len(s.list) \in Nat
  BY DEF States
<1>2. N \in SUBSET Nat /\ L \in SUBSET Nat
  BY <1>1
<1>3. Parsed(s) = [s EXCEPT !.named = N, !.labelled = L]
  BY DEF Parsed
<1> HIDE DEF N, L
<1> QED
  BY <1>2, <1>3 DEF States

\* States that needUpdateDisplayInfo finds no difference between look the same.
LEMMA SameLooks ==
    ASSUME NEW cur \in States, NEW new \in States, ~NeedUpdate(cur, new)
    PROVE  cur.connectors = new.connectors /\ Looks(cur) = Looks(new)
<1>1. Len(cur.list) = Len(new.list)
  BY DEF NeedUpdate
<1>2. \A i \in 1 .. Len(cur.list) : Look(cur.list[i]) = Look(new.list[i])
  BY DEF NeedUpdate
<1> QED
  BY <1>1, <1>2 DEF NeedUpdate, Looks, LooksOf

\* The display appended for a connector.
LEMMA Appended ==
    ASSUME NEW s \in States, NEW k \in Nat, NEW info \in Infos
    PROVE  LET t == [s EXCEPT !.connectors = k, !.list = Append(@, info)]
           IN t \in States /\ Len(t.list) = Len(s.list) + 1 /\ t.of = s.of
<1>1. Append(s.list, info) \in Seq(Infos) /\ Len(Append(s.list, info)) = Len(s.list) + 1
  BY DEF States
<1> QED
  BY <1>1 DEF States

-----------------------------------------------------------------------------
(* The invariant                                                           *)

LEMMA InitInv == Init => IInv
<1> SUFFICES ASSUME Init
             PROVE  IInv
  OBVIOUS
<1>1. \A d \in Devices : sinks[d] \in [1 .. Connectors[d] -> Sinks]
  <2>1. PICK s \in [Slots -> Sinks] :
            sinks = [d \in Devices |-> [c \in 1 .. Connectors[d] |-> s[<<d, c>>]]]
    BY DEF Init
  <2>2. \A d \in Devices : \A c \in 1 .. Connectors[d] : <<d, c>> \in Slots
    BY DEF Slots
  <2> QED
    BY <2>1, <2>2
<1>2. /\ display \in States /\ current \in States
      /\ Len(display.list) = 0 /\ Len(current.list) = 0
      /\ screen \in Contents /\ buffer \in Contents
  BY UnknownState DEF Init
<1>3. TypeOK
  <2>1. /\ queried \in BOOLEAN /\ undrawn \in BOOLEAN /\ onTab \in BOOLEAN
        /\ late \in BOOLEAN /\ loaded \subseteq Devices
    BY DEF Init
  <2>2. failures \in 0 .. MaxFailures /\ changes \in 0 .. MaxChanges
    BY BoundAssumption DEF Init
  <2>3. /\ active \in Devices /\ current_device \in Devices \cup {NoMonitor}
        /\ pc = "idle" /\ next \in Nat \ {0}
    BY DeviceAssumption DEF Init
  <2> QED
    BY <1>1, <1>2, <2>1, <2>2, <2>3, RoomAssumption DEF TypeOK
<1> QED
  BY <1>3 DEF Init, IInv, Tagged, Running, Mirrors, Fresh, Counting, Compared, Loaded, Querying

\* What mainInit does to the invariant, whoever calls it, in a window that is
\* cleared or where a driver has just appeared.
LEMMA MainInitInv ==
    ASSUME IInv, NEW base \in Contents, NEW before \in Contents, MainInit(base, before),
           pc = "idle", active' \in Devices, onTab' = TRUE, loaded' \subseteq Devices,
           late' \in BOOLEAN, base = Blank \/ late',
           UNCHANGED <<worldVars, current, queried, failures>>
    PROVE  IInv'
<1> USE DEF worldVars, Loaded, Querying
<1>1. CASE active' \notin loaded'
  <2>1. /\ buffer' = Other /\ screen' = Other
        /\ UNCHANGED <<pc, next, current_device, display, undrawn>>
    BY <1>1 DEF MainInit
  <2>2. TypeOK'
    BY <2>1, UnknownState DEF IInv, TypeOK
  <2>3. Compared'
    BY <2>1 DEF IInv, Compared, Looks
  <2> QED
    BY <1>1, <2>1, <2>2, <2>3 DEF IInv, Tagged, Running, Mirrors, Fresh, Counting
<1>2. CASE active' \in loaded' /\ active' = current_device
  <2>1. /\ buffer' = DrawnOver(base, current) /\ screen' = buffer' /\ undrawn' = FALSE
        /\ UNCHANGED <<pc, next, current_device, display>>
    BY <1>2 DEF MainInit, PageInit
  <2>2. /\ DrawnOver(base, current) \in Contents
        /\ DrawnOver(base, current).page = "display"
        /\ DrawnOver(base, current).state = current
        /\ DrawnOver(Blank, current).mixed = FALSE
    BY DrawnContents DEF IInv, TypeOK
  <2>3. TypeOK'
    BY <2>1, <2>2 DEF IInv, TypeOK
  <2>4. Tagged' /\ Running' /\ Fresh' /\ Counting'
    BY <1>2, <2>1 DEF Tagged, Running, Fresh, Counting
  <2>5. Mirrors'
    <3>1. screen'.mixed => late'
      BY <2>1, <2>2
    <3> QED
      BY <2>1, <2>2, <3>1 DEF Mirrors
  <2>6. Compared'
    BY <2>1 DEF IInv, Compared, Looks
  <2> QED
    BY <2>3, <2>4, <2>5, <2>6 DEF IInv
<1>3. CASE active' \in loaded' /\ active' # current_device
  <2>1. /\ current_device' = active' /\ BeginQuery("init", active')
        /\ buffer' = base /\ screen' = before /\ UNCHANGED undrawn
    BY <1>3 DEF MainInit, PageInit
  <2>2. display' \in States /\ display'.list = <<>> /\ display'.of = active'
    BY <2>1, UnknownState DEF BeginQuery
  <2>3. pc' = "init" /\ next' = 1
    BY <2>1 DEF BeginQuery
  <2>4. TypeOK'
    <3>1. Len(display'.list) <= MAX_DISPLAY_COUNT
      BY <2>2, RoomAssumption
    <3>2. UNCHANGED <<sinks, changes, current, queried, failures, undrawn>>
      BY <2>1
    <3> QED
      BY <2>1, <2>2, <2>3, <3>1, <3>2 DEF IInv, TypeOK
  <2>5. Connectors[active'] \in Nat
    BY ConnectorsAssumption
  <2> QED
    BY <1>3, <2>1, <2>2, <2>3, <2>4, <2>5
    DEF IInv, Tagged, Running, Mirrors, Fresh, Counting, Compared
<1> QED
  BY <1>1, <1>2, <1>3

\* One connector more is read.
LEMMA ReadsInv == IInv /\ Reads => IInv'
<1> SUFFICES ASSUME IInv, Reads
             PROVE  IInv'
  OBVIOUS
<1> USE DEF worldVars, userVars, drawVars
<1>1. next \in 1 .. Connectors[active] /\ next' = next + 1 /\ Querying
  BY DEF IInv, TypeOK, Reads, Following
<1>2. Connectors[active] \in Nat
  BY ConnectorsAssumption DEF IInv, TypeOK
<1>3. sinks[active][next] \in Sinks
  BY <1>1 DEF IInv, TypeOK
<1>4. /\ display' \in States /\ display'.of = display.of
      /\ Len(display'.list) \in {Len(display.list), Len(display.list) + 1}
      /\ Len(display'.list) = Len(display.list) \/ Room
      /\ failures' \in 0 .. MaxFailures
  <2>1. CASE sinks[active][next] = Empty
    BY <2>1 DEF Reads, IInv, TypeOK, States
  <2>2. CASE sinks[active][next] # Empty
    <3> DEFINE sink == sinks[active][next]
    <3>1. PICK edid \in {sink.monitor, NoMonitor} :
             /\ edid = sink.monitor => UNCHANGED failures
             /\ edid = NoMonitor => failures < MaxFailures /\ failures' = failures + 1
             /\ display' = [display EXCEPT
                   !.connectors = Connectors[active],
                   !.list = Append(@, [conn |-> next, monitor |-> sink.monitor,
                                       on |-> sink.on, edid |-> edid])]
      BY <2>2 DEF Reads
    <3>2. sink.monitor \in Monitors /\ sink.on \in BOOLEAN
      BY <1>3, <2>2 DEF Sinks
    <3>3. [conn |-> next, monitor |-> sink.monitor, on |-> sink.on, edid |-> edid] \in Infos
      BY <1>1, <3>1, <3>2 DEF Infos
    <3>4. Connectors[active] \in Nat /\ display \in States
      BY <1>2 DEF IInv, TypeOK
    <3>5. failures' \in 0 .. MaxFailures
      BY <3>1, BoundAssumption DEF IInv, TypeOK
    <3> DEFINE info == [conn |-> next, monitor |-> sink.monitor, on |-> sink.on,
                        edid |-> edid]
               k == Connectors[active]
    <3>6. display' = [display EXCEPT !.connectors = k, !.list = Append(@, info)]
      BY <3>1
    <3>7. info \in Infos /\ k \in Nat
      BY <3>3, <3>4
    <3> HIDE DEF sink, info, k
    <3>8. display' \in States /\ Len(display'.list) = Len(display.list) + 1
          /\ display'.of = display.of
      BY <3>4, <3>6, <3>7, Appended
    <3>9. Room
      BY <2>2 DEF Reads
    <3> QED
      BY <3>5, <3>8, <3>9
  <2> QED
    BY <2>1, <2>2
<1>5. Len(display.list) \in Nat /\ Len(display.list) < next /\ display.of = active
  BY <1>1 DEF IInv, TypeOK, Counting, States
<1>6. Len(display'.list) \in Nat
  BY <1>4 DEF States
<1>7. Len(display'.list) < next' /\ Len(display'.list) <= MAX_DISPLAY_COUNT
  <2>1. Len(display.list) <= MAX_DISPLAY_COUNT
    BY DEF IInv, TypeOK
  <2>2. Len(display'.list) < next'
    BY <1>1, <1>4, <1>5, <1>6
  <2>3. CASE Len(display'.list) = Len(display.list)
    BY <2>1, <2>2, <2>3
  <2>4. CASE Room /\ Len(display'.list) = Len(display.list) + 1
    BY <1>5, <2>2, <2>4, RoomAssumption DEF Room
  <2> QED
    BY <1>4, <2>3, <2>4
<1>8. TypeOK'
  BY <1>1, <1>4, <1>7 DEF IInv, TypeOK, Reads, Querying
<1>9. Counting'
  BY <1>1, <1>2, <1>4, <1>5, <1>7 DEF Counting, Reads, Querying
<1> QED
  BY <1>1, <1>8, <1>9
  DEF IInv, Tagged, Running, Mirrors, Fresh, Compared, Reads, Loaded, Querying

\* A display more than there is room for is on a connector behind the first
\* MAX_DISPLAY_COUNT.
LEMMA OverrunsInv == IInv /\ Overruns => IInv'
<1> SUFFICES ASSUME IInv, Overruns
             PROVE  IInv'
  OBVIOUS
<1> USE DEF worldVars, userVars, drawVars
<1>1. Len(display.list) \in Nat /\ Len(display.list) < next /\ next \in Nat
  BY DEF IInv, TypeOK, Counting, States, Overruns
<1>2. next \in MAX_DISPLAY_COUNT + 1 .. Connectors[active]
  <2>1. MAX_DISPLAY_COUNT \in Nat /\ Connectors[active] \in Nat
    BY RoomAssumption, ConnectorsAssumption DEF IInv, TypeOK
  <2>2. next <= Connectors[active] /\ Len(display.list) >= MAX_DISPLAY_COUNT
    BY <1>1, <2>1 DEF Overruns, Room
  <2> QED
    BY <1>1, <2>1, <2>2
<1>3. TypeOK'
  BY <1>2 DEF IInv, TypeOK, Overruns
<1>4. /\ pc' = "overrun"
      /\ UNCHANGED <<onTab, active, loaded, current_device, screen, current, undrawn, late>>
  BY DEF Overruns
<1>5. Tagged' /\ Running' /\ Fresh' /\ Counting' /\ Compared' /\ Mirrors'
  BY <1>4
  DEF IInv, Tagged, Running, Fresh, Counting, Compared, Mirrors, Loaded, Querying
<1> QED
  BY <1>3, <1>5 DEF IInv

\* A query comes to its end.
LEMMA DoneInv == IInv /\ QueryDone => IInv'
<1> SUFFICES ASSUME IInv, QueryDone
             PROVE  IInv'
  OBVIOUS
<1> USE DEF worldVars, userVars, Loaded, Querying
<1> DEFINE changed == NeedUpdate(current, display)
           failed  == changed /\ ~ParsedAll(display)
           draws   == Draws(changed) /\ ~failed
<1>1. /\ current' = IF changed THEN Parsed(display) ELSE current
      /\ IF draws
         THEN /\ buffer' = DrawnOver(Base, current') /\ screen' = buffer'
              /\ late' = (late /\ pc = "init")
         ELSE UNCHANGED <<buffer, screen, late>>
      /\ undrawn' = IF draws THEN FALSE ELSE failed \/ undrawn
      /\ pc' = "idle" /\ next' = 1 /\ queried' = TRUE /\ Querying
      /\ UNCHANGED <<worldVars, userVars, current_device, display, failures>>
  BY DEF QueryDone
<1>2. display \in States /\ current \in States
  BY DEF IInv, TypeOK
<1>3. /\ current' \in States
      /\ Len(current'.list) <= MAX_DISPLAY_COUNT
      /\ current'.connectors = display.connectors
      /\ Looks(current') = Looks(display)
  <2>1. CASE changed
    BY <1>1, <1>2, <2>1, ParsedState DEF Looks, IInv, TypeOK
  <2>2. CASE ~changed
    BY <1>1, <1>2, <2>2, SameLooks DEF IInv, TypeOK
  <2> QED
    BY <2>1, <2>2
<1>4. screen' \in Contents /\ buffer' \in Contents /\ late' \in BOOLEAN
  <2>1. DrawnOver(Base, current') \in Contents
    BY <1>3, DrawnContents
  <2>2. screen \in Contents /\ buffer \in Contents /\ late \in BOOLEAN
    BY DEF IInv, TypeOK
  <2> QED
    BY <1>1, <2>1, <2>2
<1>5. undrawn' \in BOOLEAN
  BY <1>1 DEF IInv, TypeOK
<1>6. TypeOK'
  <2>1. UNCHANGED <<sinks, changes, loaded, active, onTab, current_device, display, failures>>
    BY <1>1
  <2>2. /\ pc' = "idle" /\ next' \in Nat \ {0}
        /\ queried' \in BOOLEAN
    BY <1>1
  <2> QED
    BY <1>3, <1>4, <1>5, <2>1, <2>2 DEF IInv, TypeOK
<1>7. Mirrors'
  <2>1. CASE draws
    <3> DEFINE now == current'
    <3>0. screen' = DrawnOver(Base, now) /\ now \in States
      BY <1>1, <1>3, <2>1
    <3> HIDE DEF now
    <3>1a. screen'.page = "display" /\ screen'.state = now
      BY <3>0, DrawnContents
    <3>1. screen'.page = "display" /\ screen'.state = current'
      BY <3>1a DEF now
    <3>2. CASE Base = Blank
      BY <1>1, <1>3, <2>1, <3>1, <3>2, DrawnContents DEF Mirrors
    <3>3. CASE Base # Blank
      <4>1. pc = "init" /\ late
        BY <1>1, <3>3 DEF Base, IInv, Fresh
      <4> QED
        BY <1>1, <2>1, <3>1, <4>1 DEF Mirrors
    <3> QED
      BY <3>2, <3>3
  <2>2. CASE ~draws
    <3>1. SUFFICES ASSUME ~undrawn', Loaded'
                   PROVE  /\ screen'.page = "display" /\ screen'.state = current'
                          /\ screen'.mixed => late'
      BY DEF Mirrors
    <3>2. ~failed /\ ~undrawn
      BY <1>1, <2>2, <3>1
    <3>3. ~changed /\ pc = "update"
      BY <1>1, <2>2, <3>2 DEF Draws
    <3> QED
      BY <1>1, <2>2, <3>1, <3>2, <3>3 DEF IInv, Mirrors
  <2> QED
    BY <2>1, <2>2
<1>8. display.of = current_device
  BY <1>1 DEF IInv, Counting, Tagged, Running
<1>9. Compared'
  BY <1>1, <1>3, <1>8 DEF Compared, Looks
<1> QED
  BY <1>1, <1>6, <1>7, <1>9 DEF IInv, Tagged, Running, Fresh, Counting

LEMMA NextInv == IInv /\ [Next]_vars => IInv'
<1> SUFFICES ASSUME IInv, [Next]_vars
             PROVE  IInv'
  OBVIOUS
<1> USE DEF worldVars, userVars, drawVars, Loaded, Querying
<1>1. CASE Change
  <2>1. changes' \in 0 .. MaxChanges
    BY <1>1, BoundAssumption DEF Change, IInv, TypeOK
  <2>2. \A d \in Devices : sinks'[d] \in [1 .. Connectors[d] -> Sinks]
    <3>1. PICK p \in Slots, s \in Sinks : sinks' = [sinks EXCEPT ![p[1]][p[2]] = s]
      BY <1>1 DEF Change
    <3>2. p[1] \in Devices /\ p[2] \in 1 .. Connectors[p[1]]
      BY <3>1 DEF Slots
    <3> QED
      BY <3>1, <3>2 DEF IInv, TypeOK
  <2>3. TypeOK'
    BY <1>1, <2>1, <2>2 DEF Change, IInv, TypeOK
  <2> QED
    BY <1>1, <2>3
    DEF Change, IInv, Tagged, Running, Mirrors, Fresh, Counting, Compared, Looks
<1>2. CASE ShowPage
  BY <1>2, MainInitInv, UnknownState DEF ShowPage, ClearAndInit, IInv, TypeOK
<1>3. CASE LeavePage
  <2>1. TypeOK'
    BY <1>3, UnknownState DEF LeavePage, IInv, TypeOK
  <2> QED
    BY <1>3, <2>1
    DEF LeavePage, IInv, Tagged, Running, Mirrors, Fresh, Counting, Compared, Looks
<1>4. CASE SwitchDevice
  <2>1. CASE onTab
    BY <1>4, <2>1, MainInitInv, UnknownState DEF SwitchDevice, ClearAndInit, IInv, TypeOK
  <2>2. CASE ~onTab
    <3>1. TypeOK'
      BY <1>4, <2>2 DEF SwitchDevice, IInv, TypeOK
    <3> QED
      BY <1>4, <2>2, <3>1
      DEF SwitchDevice, IInv, Tagged, Running, Mirrors, Fresh, Counting, Compared, Looks
  <2> QED
    BY <2>1, <2>2 DEF IInv, TypeOK
<1>5. CASE Redraw
  <2>1. MainInit(Blank, Other) /\ late' = FALSE
    BY <1>5 DEF Redraw, ClearAndInit
  <2>2. active' \in Devices /\ onTab' = TRUE /\ pc = "idle" /\ loaded' \subseteq Devices
    BY <1>5 DEF Redraw, IInv, TypeOK
  <2> QED
    BY <1>5, <2>1, <2>2, MainInitInv, UnknownState DEF Redraw
<1>6. CASE DriverAppears
  <2>1. loaded' \subseteq Devices /\ loaded \subseteq loaded' /\ pc = "idle"
    BY <1>6 DEF DriverAppears, IInv, TypeOK
  <2>2. CASE onTab
    <3>1. MainInit(buffer, screen) /\ late' = TRUE
      BY <1>6, <2>2 DEF DriverAppears
    <3>2. /\ active' \in Devices /\ onTab' = TRUE
          /\ buffer \in Contents /\ screen \in Contents
      BY <1>6, <2>2 DEF DriverAppears, IInv, TypeOK
    <3> QED
      BY <1>6, <2>1, <3>1, <3>2, MainInitInv DEF DriverAppears
  <2>3. CASE ~onTab
    <3>1. TypeOK'
      BY <1>6, <2>1, <2>3 DEF DriverAppears, IInv, TypeOK
    <3> QED
      BY <1>6, <2>1, <2>3, <3>1
      DEF DriverAppears, IInv, Tagged, Running, Mirrors, Fresh, Counting, Compared, Looks
  <2> QED
    BY <2>2, <2>3 DEF IInv, TypeOK
<1>7. CASE Update
  <2>1. display' \in States /\ display'.list = <<>> /\ display'.of = active
    BY <1>7, UnknownState DEF Update, BeginQuery, IInv, TypeOK
  <2>2. pc' = "update" /\ next' = 1
    BY <1>7 DEF Update, BeginQuery
  <2>3. Connectors[active] \in Nat
    BY ConnectorsAssumption DEF IInv, TypeOK
  <2>4. Len(display'.list) <= MAX_DISPLAY_COUNT
    BY <2>1, RoomAssumption
  <2>5. TypeOK'
    BY <1>7, <2>1, <2>2, <2>4 DEF Update, IInv, TypeOK
  <2> QED
    BY <1>7, <2>1, <2>2, <2>3, <2>5
    DEF Update, IInv, Tagged, Running, Mirrors, Fresh, Counting, Compared
<1>8. CASE Reads
  BY <1>8, ReadsInv
<1>9. CASE Overruns
  BY <1>9, OverrunsInv
<1>10. CASE QueryFails
  <2>1. failures' \in 0 .. MaxFailures
    BY <1>10, BoundAssumption DEF QueryFails, IInv, TypeOK
  <2>2. TypeOK'
    <3>1. pc' = "idle" /\ next' \in Nat \ {0}
      BY <1>10 DEF QueryFails
    <3>2. queried' \in BOOLEAN /\ undrawn' \in BOOLEAN
      BY <1>10 DEF QueryFails
    <3>3. UNCHANGED <<sinks, changes, loaded, active, onTab, current_device, display,
                      current, buffer, screen, late>>
      BY <1>10 DEF QueryFails
    <3> QED
      BY <2>1, <3>1, <3>2, <3>3 DEF IInv, TypeOK
  <2> QED
    BY <1>10, <2>2 DEF QueryFails, IInv, Tagged, Running, Mirrors, Fresh, Counting, Compared
<1>11. CASE QueryDone
  BY <1>11, DoneInv
<1>12. CASE UNCHANGED vars
  BY <1>12 DEF vars, IInv, TypeOK, Tagged, Running, Mirrors, Fresh, Counting, Compared, Looks
<1> QED
  BY <1>1, <1>2, <1>3, <1>4, <1>5, <1>6, <1>7, <1>8, <1>9, <1>10, <1>11, <1>12
  DEF Next, User, Handlers

\* IInv holds in every reachable state.
THEOREM Invariance == Spec => []IInv
BY InitInv, NextInv, PTL DEF Spec

\* Types hold, and display_state is overrun by nothing but a connector behind the
\* first MAX_DISPLAY_COUNT of a device.
THEOREM TypeCorrect == Spec => []TypeOK
<1>1. IInv => TypeOK
  BY DEF IInv
<1> QED
  BY <1>1, Invariance, PTL

\* Without an error since the last draw the terminal shows what the program
\* remembers, and something else beside it only after a driver appeared.
THEOREM TerminalIsCurrent == Spec => []ScreenIsCurrent
<1>1. IInv => ScreenIsCurrent
  BY DEF IInv, Mirrors, ScreenIsCurrent, AtRest, Loaded
<1> QED
  BY <1>1, Invariance, PTL

\* It shows what the last complete query of the active device looked like.
THEOREM TerminalShowsQuery == Spec => []ShowsQueried
<1>1. IInv => ShowsQueried
  BY DEF IInv, Mirrors, Compared, Tagged, ShowsQueried, AtRest, Loaded, Looks
<1> QED
  BY <1>1, Invariance, PTL

-----------------------------------------------------------------------------
(* What a query reads when no monitor changes meanwhile.                   *)

\* The list has the monitors of the connectors before n, each once, in their order.
Describes(list, n) ==
    /\ \A c \in 1 .. n - 1 :
          sinks[active][c] # Empty => \E i \in 1 .. Len(list) : list[i].conn = c
    /\ \A i \in 1 .. Len(list) :
          /\ list[i].conn \in 1 .. n - 1
          /\ sinks[active][list[i].conn] = [monitor |-> list[i].monitor, on |-> list[i].on]
          /\ list[i].monitor # NoMonitor
    /\ \A i, j \in 1 .. Len(list) : i < j => list[i].conn < list[j].conn

ReadSoFar == Describes(display.list, next)

LEMMA BeginReads ==
    ASSUME IInv, Next, pc = "idle", Querying'
    PROVE  ReadSoFar'
<1>1. \/ BeginQuery("init", active')
      \/ BeginQuery("update", active)
  BY DEF Next, Change, User, ShowPage, LeavePage, SwitchDevice, Redraw, DriverAppears,
    ClearAndInit, MainInit, PageInit, Update, Handlers, Reads, Overruns, QueryFails, QueryDone,
    Querying
<1>2. next' = 1 /\ display'.list = <<>>
  BY <1>1 DEF BeginQuery, Unknown
<1> QED
  BY <1>2 DEF ReadSoFar, Describes

LEMMA MoreIsRead ==
    ASSUME IInv, Reads, ReadSoFar, sinks' = sinks
    PROVE  ReadSoFar'
<1> DEFINE sink == sinks[active][next]
           list == display.list
<1>1. /\ next \in 1 .. Connectors[active] /\ next' = next + 1 /\ active' = active
  BY DEF IInv, TypeOK, Reads, Following, userVars
<1>2. sink \in Sinks /\ list \in Seq(Infos)
  BY <1>1 DEF IInv, TypeOK, States
<1>3. CASE sink = Empty
  <2>1. display'.list = list
    BY <1>3 DEF Reads
  <2>2. \A c \in 1 .. next' - 1 : c \in 1 .. next - 1 \/ c = next
    BY <1>1
  <2>3. \A c \in 1 .. next - 1 : c \in 1 .. next' - 1
    BY <1>1
  <2> HIDE DEF list
  <2>4. Describes(list, next) /\ sinks[active][next] = Empty
    BY <1>3 DEF ReadSoFar, list
  <2>5. \A c \in 1 .. next' - 1 :
            sinks[active][c] # Empty => \E i \in 1 .. Len(list) : list[i].conn = c
    BY <2>2, <2>4, Zenon DEF Describes
  <2>6. \A i \in 1 .. Len(list) :
            /\ list[i].conn \in 1 .. next' - 1
            /\ sinks[active][list[i].conn] = [monitor |-> list[i].monitor, on |-> list[i].on]
            /\ list[i].monitor # NoMonitor
    BY <2>3, <2>4, Zenon DEF Describes
  <2>7. \A i, j \in 1 .. Len(list) : i < j => list[i].conn < list[j].conn
    BY <2>4, Zenon DEF Describes
  <2> QED
    BY <1>1, <2>1, <2>5, <2>6, <2>7, Zenon DEF ReadSoFar, Describes
<1>4. CASE sink # Empty
  <2>1. PICK edid \in {sink.monitor, NoMonitor} :
            display' = [display EXCEPT
                  !.connectors = Connectors[active],
                  !.list = Append(@, [conn |-> next, monitor |-> sink.monitor,
                                      on |-> sink.on, edid |-> edid])]
    BY <1>4 DEF Reads
  <2> DEFINE info == [conn |-> next, monitor |-> sink.monitor, on |-> sink.on, edid |-> edid]
             n == Len(list)
  <2>2. sink.monitor \in Monitors /\ sink.on \in BOOLEAN
        /\ sink = [monitor |-> sink.monitor, on |-> sink.on]
    BY <1>2, <1>4 DEF Sinks
  <2>3. display'.list = Append(list, info)
    BY <2>1 DEF IInv, TypeOK, States
  <2>4. info \in Infos /\ info.conn = next /\ info.monitor = sink.monitor /\ info.on = sink.on
        /\ info.monitor # NoMonitor
    BY <1>1, <2>2, DeviceAssumption, ConnectorsAssumption DEF Infos, IInv, TypeOK
  <2> HIDE DEF info, sink, list
  <2> DEFINE more == display'.list
  <2>5. /\ n \in Nat /\ Len(more) = n + 1 /\ more[n + 1] = info
        /\ \A i \in 1 .. n : more[i] = list[i]
    BY <1>2, <2>3, <2>4
  <2> HIDE DEF n, more
  <2>6. \A i \in 1 .. n + 1 : i \in 1 .. n \/ i = n + 1
    BY <2>5
  <2>7. \A c \in 1 .. next' - 1 : c \in 1 .. next - 1 \/ c = next
    BY <1>1
  <2>8. /\ \A c \in 1 .. next - 1 : c \in 1 .. next' - 1 /\ c < next
        /\ next \in 1 .. next' - 1
        /\ \A i \in 1 .. n : i \in 1 .. n + 1 /\ ~(n + 1 < i)
        /\ n + 1 \in 1 .. n + 1 /\ ~(n + 1 < n + 1)
    BY <1>1, <2>5
  <2>9. /\ \A c \in 1 .. next - 1 :
              sinks[active][c] # Empty => \E i \in 1 .. n : list[i].conn = c
        /\ \A i \in 1 .. n :
              /\ list[i].conn \in 1 .. next - 1
              /\ sinks[active][list[i].conn] = [monitor |-> list[i].monitor, on |-> list[i].on]
              /\ list[i].monitor # NoMonitor
        /\ \A i, j \in 1 .. n : i < j => list[i].conn < list[j].conn
    BY DEF ReadSoFar, Describes, list, n
  <2>10. \A c \in 1 .. next' - 1 :
            sinks[active][c] # Empty => \E i \in 1 .. n + 1 : more[i].conn = c
    BY <2>4, <2>5, <2>7, <2>8, <2>9
  <2>11. \A i \in 1 .. n + 1 :
            /\ more[i].conn \in 1 .. next' - 1
            /\ sinks[active][more[i].conn] = [monitor |-> more[i].monitor, on |-> more[i].on]
            /\ more[i].monitor # NoMonitor
    <3>1. ASSUME NEW i \in 1 .. n + 1
          PROVE  /\ more[i].conn \in 1 .. next' - 1
                 /\ sinks[active][more[i].conn] = [monitor |-> more[i].monitor, on |-> more[i].on]
                 /\ more[i].monitor # NoMonitor
      <4>1. CASE i \in 1 .. n
        BY <2>5, <2>8, <2>9, <4>1
      <4>2. CASE i = n + 1
        BY <2>2, <2>4, <2>5, <2>8, <4>2 DEF sink
      <4> QED
        BY <2>6, <4>1, <4>2
    <3> QED
      BY <3>1
  <2>12. \A i, j \in 1 .. n + 1 : i < j => more[i].conn < more[j].conn
    <3>1. ASSUME NEW i \in 1 .. n + 1, NEW j \in 1 .. n + 1, i < j
          PROVE  more[i].conn < more[j].conn
      <4>1. i \in 1 .. n
        BY <2>5, <3>1
      <4>2. CASE j \in 1 .. n
        BY <2>5, <2>9, <3>1, <4>1, <4>2
      <4>3. CASE j = n + 1
        BY <2>4, <2>5, <2>8, <2>9, <4>1, <4>3
      <4> QED
        BY <2>6, <4>2, <4>3
    <3> QED
      BY <3>1
  <2> QED
    BY <1>1, <2>5, <2>10, <2>11, <2>12 DEF ReadSoFar, Describes, more
<1> QED
  BY <1>3, <1>4

\* A query during which no monitor changes knows what is connected: as long as none does
\* the list grows by the monitors of the connectors that are read, in their order, and
\* when the query ends the displays that the program remembers look like that list, of all
\* connectors of the active device.  An EDID that cannot be read changes nothing of it.
THEOREM UndisturbedQueries ==
    Spec => /\ [][Querying' /\ (pc = "idle" \/ ReadSoFar) /\ sinks' = sinks
                     => ReadSoFar']_vars
            /\ [][QueryDone /\ ReadSoFar =>
                     /\ Describes(display.list, Connectors[active] + 1)'
                     /\ Looks(current') = Looks(display')]_vars
<1>1. ASSUME IInv, [Next]_vars
      PROVE  [Querying' /\ (pc = "idle" \/ ReadSoFar) /\ sinks' = sinks => ReadSoFar']_vars
  <2>1. SUFFICES ASSUME Next, Querying', pc = "idle" \/ ReadSoFar, sinks' = sinks
                 PROVE  ReadSoFar'
    BY <1>1
  <2>2. CASE pc = "idle"
    BY <1>1, <2>1, <2>2, BeginReads
  <2>3. CASE Reads /\ ReadSoFar
    BY <1>1, <2>1, <2>3, MoreIsRead
  <2>4. CASE Change /\ ReadSoFar
    BY <2>1, <2>4 DEF Change, ReadSoFar, Describes, userVars
  <2> QED
    BY <2>1, <2>2, <2>3, <2>4 DEF Next, User, ShowPage, LeavePage, SwitchDevice, Redraw, DriverAppears,
      Update, Handlers, Overruns, QueryFails, QueryDone, Querying
<1>2. ASSUME IInv, IInv', [Next]_vars
      PROVE  [QueryDone /\ ReadSoFar =>
                 /\ Describes(display.list, Connectors[active] + 1)'
                 /\ Looks(current') = Looks(display')]_vars
  <2>1. SUFFICES ASSUME QueryDone, ReadSoFar
                 PROVE  /\ Describes(display.list, Connectors[active] + 1)'
                        /\ Looks(current') = Looks(display')
    BY <1>2
  <2>2. next = Connectors[active] + 1
    BY <1>2, <2>1, ConnectorsAssumption DEF IInv, TypeOK, Counting, QueryDone, Querying
  <2>3. UNCHANGED <<sinks, active, display>>
    BY <2>1 DEF QueryDone, worldVars, userVars
  <2>4. Looks(current') = Looks(display')
    BY <1>2, <2>1 DEF IInv, Compared, QueryDone, Looks
  <2> QED
    BY <2>1, <2>2, <2>3, <2>4 DEF ReadSoFar, Describes
<1> QED
  BY <1>1, <1>2, Invariance, PTL DEF Spec

=============================================================================
