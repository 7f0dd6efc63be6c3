--------------------------- MODULE StatPageProofs ---------------------------
(* Proofs about StatPage, for tick counters of any range, any changes of   *)
(* the counters, and any number of updates and failures.                   *)
EXTENDS StatPage, TLAPS

\* An update that ended early left the values of the later queries as they were:
\* none of them is newer than one that is queried before it.
BufferInv ==
    /\ \A a \in Item : buffer[a] <= time
    /\ \A a, b \in Item : QueryOf[a] <= QueryOf[b] => buffer[a] >= buffer[b]

\* Only a page that was never initialised, and is then not updated, has bars
\* without a maximum.
MaximaInv == max = "unset" /\ needRefresh => pc = "start"

IInv == TypeOK /\ BufferInv /\ OfOneUpdate /\ MaximaInv /\ DividesSafely

-----------------------------------------------------------------------------

LEMMA Queries == \A item \in Item : QueryOf[item] \in 1 .. LastQuery
<1> QED
  BY DEF Item, QueryOf, LastQuery

LEMMA BlankType ==
    /\ Blank \in [Item -> 0 .. MaxTime]
    /\ \A a \in Item : Blank[a] = 0
<1> QED
  BY BoundAssumption DEF Blank

\* The reading of the processor: the load is below 1000 whatever the ticks are.
LEMMA LoadRange ==
    ASSUME NEW ticks \in Ticks, Total(ticks) >= 0, Total(ticks) # 0
    PROVE  Load(ticks) \in 0 .. 999
<1>1. ticks.idle \in Int /\ Total(ticks) \in Nat \ {0} /\ Word \in Nat \ {0}
  BY TickAssumption DEF Ticks, Total
<1>2. ticks.idle % Word \in Nat
  BY <1>1
<1>3. ((ticks.idle % Word) * 1000) % Word \in Nat
  BY <1>1, <1>2
<1>4. IdleShare(ticks) \in Int
  BY <1>1, <1>3 DEF IdleShare
<1>5. (1000 - IdleShare(ticks)) % Word \in Nat
  BY <1>1, <1>4
<1> QED
  BY <1>5 DEF Load

LoadType ==
    /\ first \in BOOLEAN /\ since \in Ticks /\ Total(since) >= 0
    /\ load \in 0 .. 999 /\ interval \in Ticks

LEMMA NoTicksType == NoTicks \in Ticks /\ Total(NoTicks) = 0
<1> QED
  BY DEF NoTicks, Ticks, Total

LEMMA CpuLoadType == ASSUME LoadType, getCpuLoad PROVE LoadType'
<1>1. PICK ticks \in IF first THEN Changes ELSE {since} :
          /\ first' = FALSE
          /\ IF Total(ticks) = 0 THEN since' = ticks /\ UNCHANGED <<load, interval>>
             ELSE since' = NoTicks /\ load' = Load(ticks) /\ interval' = ticks
  BY DEF getCpuLoad
<1>2. ticks \in Ticks /\ Total(ticks) >= 0
  BY <1>1, TickAssumption DEF LoadType
<1>3. load' \in 0 .. 999 /\ interval' \in Ticks
  BY <1>1, <1>2, LoadRange DEF LoadType
<1>4. since' \in Ticks /\ Total(since') >= 0
  <2>1. CASE Total(ticks) = 0
    BY <1>1, <1>2, <2>1
  <2>2. CASE Total(ticks) # 0
    BY <1>1, <2>2, NoTicksType
  <2> QED
    BY <2>1, <2>2
<1>5. first' \in BOOLEAN
  BY <1>1
<1> QED
  BY <1>3, <1>4, <1>5 DEF LoadType, Total

LEMMA LoadUnchanged == ASSUME LoadType, UNCHANGED loadVars PROVE LoadType'
<1>1. first' = first /\ since' = since /\ load' = load /\ interval' = interval
  BY DEF loadVars
<1>2. first' \in BOOLEAN
  BY <1>1, Zenon DEF LoadType
<1>3. since' \in Ticks /\ Total(since') >= 0
  BY <1>1 DEF LoadType
<1>4. load' \in 0 .. 999 /\ interval' \in Ticks
  BY <1>1 DEF LoadType
<1> QED
  BY <1>2, <1>3, <1>4 DEF LoadType, Total

-----------------------------------------------------------------------------
(* An update                                                               *)

\* What a page that is read into keeps, and what it shows when all was answered.
LEMMA ReadKeeps ==
    ASSUME NEW read \in [Item -> 0 .. MaxTime], NEW n \in 0 .. LastQuery,
           time \in 1 .. MaxTime,
           \A a \in Item : read[a] <= time,
           \A a, b \in Item : QueryOf[a] <= QueryOf[b] => read[a] >= read[b]
    PROVE  /\ Read(read, n) \in [Item -> 0 .. MaxTime]
           /\ \A a \in Item : Read(read, n)[a] <= time
           /\ \A a, b \in Item : QueryOf[a] <= QueryOf[b] => Read(read, n)[a] >= Read(read, n)[b]
           /\ n = LastQuery => \A a \in Item : Read(read, n)[a] = time
<1>1. \A a \in Item : Read(read, n)[a] = IF QueryOf[a] <= n THEN time ELSE read[a]
  BY DEF Read, ShownBy
<1>2. Read(read, n) \in [Item -> 0 .. MaxTime]
  <2>1. ASSUME NEW a \in Item PROVE (IF a \in ShownBy(n) THEN time ELSE read[a]) \in 0 .. MaxTime
    BY BoundAssumption
  <2> QED
    BY <2>1 DEF Read
<1>3. \A a \in Item : read[a] \in Int /\ QueryOf[a] \in Int /\ QueryOf[a] <= LastQuery
  BY BoundAssumption, Queries DEF LastQuery
<1>4. time \in Int /\ n \in Int
  BY BoundAssumption DEF LastQuery
<1>5. \A a \in Item : Read(read, n)[a] <= time
  BY <1>1, <1>3, <1>4
<1>6. ASSUME NEW a \in Item, NEW b \in Item, QueryOf[a] <= QueryOf[b]
      PROVE  Read(read, n)[a] >= Read(read, n)[b]
  <2>1. CASE QueryOf[b] <= n
    BY <1>1, <1>3, <1>4, <1>6, <2>1
  <2>2. CASE ~(QueryOf[b] <= n)
    BY <1>1, <1>3, <1>4, <1>6, <2>2
  <2> QED
    BY <2>1, <2>2
<1>7. ASSUME n = LastQuery PROVE \A a \in Item : Read(read, n)[a] = time
  BY <1>1, <1>3, <1>7
<1> QED
  BY <1>2, <1>5, <1>6, <1>7

LEMMA Answers == ASSUME NEW n \in Answered PROVE n \in 0 .. LastQuery
<1> QED
  BY DEF Answered, MayFail, LastQuery

\* UpdateSensors, with the page as it was or cleared, and the maxima that are set.
LEMMA UpdateInv ==
    ASSUME IInv, UNCHANGED <<time, zeroMax, needRefresh>>,
           NEW read \in [Item -> 0 .. MaxTime],
           \A a \in Item : read[a] <= time,
           \A a, b \in Item : QueryOf[a] <= QueryOf[b] => read[a] >= read[b],
           UpdateSensors(read, max'), max' \in {"default", "device"}
    PROVE  IInv'
<1>1. PICK n \in Answered, clients \in {TRUE, ~MayFail} :
        IF DividesByZero(n, max')
        THEN pc' = "crashed" /\ UNCHANGED <<drawVars, failures, loadVars>>
        ELSE /\ pc' = "idle" /\ buffer' = Read(read, n)
             /\ IF n = LastQuery /\ clients
                THEN screen' = buffer' /\ drawnBy' = "update" /\ UNCHANGED failures
                ELSE UNCHANGED <<screen, drawnBy>> /\ failures' = failures + 1
             /\ IF n >= QueryOf.CPU THEN getCpuLoad ELSE UNCHANGED loadVars
  BY DEF UpdateSensors
<1>2. /\ time \in 1 .. MaxTime /\ zeroMax \subseteq DeviceBars /\ needRefresh \in BOOLEAN
      /\ buffer \in [Item -> 0 .. MaxTime] /\ screen \in [Item -> 0 .. MaxTime]
      /\ drawnBy \in {"update", "prompt"} /\ failures \in 0 .. MaxFailures /\ LoadType
  BY DEF IInv, TypeOK, LoadType
<1>3. MaximaInv'
  BY DEF MaximaInv
<1>4. CASE DividesByZero(n, max')
  <2>1. pc' = "crashed" /\ UNCHANGED <<buffer, screen, drawnBy, failures, loadVars>>
    BY <1>1, <1>4 DEF drawVars
  <2>2. TypeOK'
    BY <1>2, <2>1, LoadUnchanged DEF TypeOK, LoadType
  <2>3. BufferInv' /\ OfOneUpdate'
    BY <2>1 DEF IInv, BufferInv, OfOneUpdate
  <2>4. DividesSafely'
    <3>1. ZeroMax(max') # {}
      BY <1>4 DEF DividesByZero
    <3>2. zeroMax # {}
      BY <3>1 DEF ZeroMax
    <3> QED
      BY <3>2 DEF DividesSafely
  <2> QED
    BY <1>3, <2>2, <2>3, <2>4 DEF IInv
<1>5. CASE ~DividesByZero(n, max')
  <2>1. /\ pc' = "idle" /\ buffer' = Read(read, n)
        /\ \/ /\ n = LastQuery /\ screen' = buffer' /\ drawnBy' = "update"
              /\ failures' = failures
           \/ UNCHANGED <<screen, drawnBy>> /\ failures' = failures + 1
        /\ getCpuLoad \/ UNCHANGED loadVars
    BY <1>1, <1>5
  <2>2. LoadType'
    BY <1>2, <2>1, CpuLoadType, LoadUnchanged
  <2>3. /\ buffer' \in [Item -> 0 .. MaxTime]
        /\ \A a \in Item : buffer'[a] <= time
        /\ \A a, b \in Item : QueryOf[a] <= QueryOf[b] => buffer'[a] >= buffer'[b]
        /\ n = LastQuery => \A a \in Item : buffer'[a] = time
    BY <1>2, <2>1, Answers, ReadKeeps
  <2>4. failures' \in 0 .. MaxFailures
    <3>1. CASE failures' = failures
      BY <1>2, <3>1
    <3>2. CASE failures' # failures
      <4>1. failures' = failures + 1 /\ ~(n = LastQuery /\ clients)
        BY <1>1, <1>5, <3>2
      <4>2. MayFail
        BY <4>1 DEF Answered
      <4> QED
        BY <1>2, <4>1, <4>2, BoundAssumption DEF MayFail
    <3> QED
      BY <3>1, <3>2
  <2>5. TypeOK'
    BY <1>2, <2>1, <2>2, <2>3, <2>4 DEF TypeOK, LoadType
  <2>6. BufferInv'
    BY <2>3 DEF BufferInv
  <2>7. OfOneUpdate'
    BY <1>2, <2>1, <2>3 DEF IInv, OfOneUpdate
  <2>8. DividesSafely'
    BY <2>1 DEF DividesSafely
  <2> QED
    BY <1>3, <2>5, <2>6, <2>7, <2>8 DEF IInv
<1> QED
  BY <1>4, <1>5

-----------------------------------------------------------------------------
(* The steps                                                               *)

LEMMA InitInv == Init => IInv
<1> SUFFICES ASSUME Init PROVE IInv
  OBVIOUS
<1>1. buffer = Blank /\ screen = Blank /\ time = 1 /\ max = "unset" /\ pc = "start"
      /\ since = NoTicks /\ interval = NoTicks
  BY DEF Init
<1>2. TypeOK
  <2>1. zeroMax \subseteq DeviceBars
    BY DEF Init, DeviceBars, Bars
  <2>2. since \in Ticks /\ Total(since) >= 0 /\ interval \in Ticks
    BY <1>1, NoTicksType
  <2>3. buffer \in [Item -> 0 .. MaxTime] /\ screen \in [Item -> 0 .. MaxTime]
    BY <1>1, BlankType
  <2>4. time \in 1 .. MaxTime /\ failures \in 0 .. MaxFailures
    BY BoundAssumption DEF Init
  <2>5. /\ first \in BOOLEAN /\ load \in 0 .. 999 /\ max \in {"unset", "default", "device"}
        /\ drawnBy \in {"update", "prompt"} /\ needRefresh \in BOOLEAN
        /\ pc \in {"start", "idle", "prompt", "crashed"}
    BY DEF Init
  <2> QED
    BY <2>1, <2>2, <2>3, <2>4, <2>5 DEF TypeOK
<1>3. BufferInv /\ OfOneUpdate
  BY <1>1, BlankType DEF BufferInv, OfOneUpdate
<1>4. MaximaInv /\ DividesSafely
  BY <1>1 DEF MaximaInv, DividesSafely
<1> QED
  BY <1>2, <1>3, <1>4 DEF IInv

LEMMA TickInv == ASSUME IInv, Tick PROVE IInv'
<1>1. /\ time' = time + 1 /\ time < MaxTime /\ time \in 1 .. MaxTime /\ MaxTime \in Nat
      /\ UNCHANGED <<zeroMax, first, load, interval, max, buffer, screen, drawnBy,
                     needRefresh, pc, failures>>
  BY BoundAssumption DEF Tick, drawVars, IInv, TypeOK
<1>2. since' \in Ticks /\ Total(since') >= 0
  <2>1. since \in Ticks /\ Total(since) >= 0
    BY DEF IInv, TypeOK
  <2>2. CASE UNCHANGED since
    BY <2>1, <2>2
  <2>3. CASE \E c \in Changes : since' = Plus(since, c)
    <3>1. PICK c \in Changes : since' = Plus(since, c)
      BY <2>3
    <3>2. c \in Ticks /\ Total(c) >= 0
      BY TickAssumption
    <3> QED
      BY <2>1, <3>1, <3>2 DEF Plus, Ticks, Total
  <2> QED
    BY <2>2, <2>3 DEF Tick
<1>3. TypeOK'
  BY <1>1, <1>2 DEF IInv, TypeOK, Total
<1>4. BufferInv'
  <2>1. ASSUME NEW a \in Item PROVE buffer[a] <= time + 1
    BY <1>1 DEF IInv, TypeOK, BufferInv
  <2> QED
    BY <1>1, <2>1 DEF IInv, BufferInv
<1>5. OfOneUpdate' /\ MaximaInv' /\ DividesSafely'
  BY <1>1 DEF IInv, OfOneUpdate, MaximaInv, DividesSafely
<1> QED
  BY <1>3, <1>4, <1>5 DEF IInv

\* A cleared page is in order at any time.
LEMMA BlankInOrder ==
    ASSUME time \in 1 .. MaxTime
    PROVE  /\ \A a \in Item : Blank[a] <= time
           /\ \A a, b \in Item : QueryOf[a] <= QueryOf[b] => Blank[a] >= Blank[b]
<1> QED
  BY BlankType, BoundAssumption

LEMMA InitPageInv == ASSUME IInv, InitPage PROVE IInv'
<1>0. UNCHANGED <<time, zeroMax, needRefresh>> /\ time \in 1 .. MaxTime
  BY DEF InitPage, IInv, TypeOK
<1>1. CASE max' = "device" /\ UpdateSensors(Blank, "device")
  BY <1>0, <1>1, UpdateInv, BlankType, BlankInOrder
<1>2. CASE ~(max' = "device" /\ UpdateSensors(Blank, "device"))
  <2>1. /\ MayFail /\ failures' = failures + 1 /\ max' = "default" /\ buffer' = Blank /\ pc' = "idle"
        /\ UNCHANGED <<screen, drawnBy, loadVars>>
    BY <1>2 DEF InitPage, Created
  <2>2. failures' \in 0 .. MaxFailures
    BY <2>1, BoundAssumption DEF IInv, TypeOK, MayFail
  <2>3. LoadType'
    BY <2>1, LoadUnchanged DEF IInv, TypeOK, LoadType
  <2>4. TypeOK'
    <3>1. /\ zeroMax \subseteq DeviceBars /\ screen \in [Item -> 0 .. MaxTime]
          /\ drawnBy \in {"update", "prompt"} /\ needRefresh \in BOOLEAN
      BY DEF IInv, TypeOK
    <3> QED
      BY <1>0, <2>1, <2>2, <2>3, <3>1, BlankType DEF TypeOK, LoadType
  <2>5. BufferInv' /\ OfOneUpdate'
    BY <1>0, <2>1, BlankInOrder DEF IInv, BufferInv, OfOneUpdate
  <2>6. MaximaInv' /\ DividesSafely'
    BY <2>1 DEF MaximaInv, DividesSafely
  <2> QED
    BY <2>4, <2>5, <2>6 DEF IInv
<1> QED
  BY <1>1, <1>2

LEMMA UpdatePageInv == ASSUME IInv, UpdatePage PROVE IInv'
<1>1. /\ UNCHANGED <<time, zeroMax, needRefresh>> /\ pc = "idle" /\ needRefresh
      /\ max' = max /\ UpdateSensors(buffer, max')
  BY DEF UpdatePage
<1>2. max' \in {"default", "device"}
  BY <1>1 DEF IInv, TypeOK, MaximaInv
<1>3. /\ buffer \in [Item -> 0 .. MaxTime] /\ \A a \in Item : buffer[a] <= time
      /\ \A a, b \in Item : QueryOf[a] <= QueryOf[b] => buffer[a] >= buffer[b]
  BY DEF IInv, TypeOK, BufferInv
<1> QED
  BY <1>1, <1>2, <1>3, UpdateInv

\* A window that is cleared or covered is refreshed with what it holds.
LEMMA RedrawInv == ASSUME IInv, TooSmall \/ Prompt PROVE IInv'
<1>1. /\ UNCHANGED <<time, zeroMax, loadVars, max, failures>>
      /\ pc' \in {"idle", "prompt"} /\ (max = "unset" => ~needRefresh' \/ pc = "idle")
      /\ needRefresh' = needRefresh \/ needRefresh' = FALSE
      /\ \/ drawnBy' = "prompt" /\ buffer' = buffer /\ screen' = buffer
         \/ drawnBy' \in {"update", "prompt"} /\ buffer' = Blank /\ screen' = Blank
  BY DEF TooSmall, Prompt
<1>2. /\ TypeOK /\ BufferInv /\ MaximaInv /\ time \in 1 .. MaxTime
      /\ buffer \in [Item -> 0 .. MaxTime]
  BY DEF IInv, TypeOK
<1>3. LoadType'
  BY <1>1, <1>2, LoadUnchanged DEF TypeOK, LoadType
<1>4. TypeOK'
  <2>1. /\ zeroMax \subseteq DeviceBars /\ failures \in 0 .. MaxFailures /\ needRefresh' \in BOOLEAN
        /\ max \in {"unset", "default", "device"}
    BY <1>1, <1>2 DEF TypeOK
  <2>2. /\ buffer' \in [Item -> 0 .. MaxTime] /\ screen' \in [Item -> 0 .. MaxTime]
        /\ drawnBy' \in {"update", "prompt"}
    BY <1>1, <1>2, BlankType
  <2> QED
    BY <1>1, <1>2, <1>3, <2>1, <2>2 DEF TypeOK, LoadType
<1>5. BufferInv'
  BY <1>1, <1>2, BlankInOrder DEF BufferInv
<1>6. OfOneUpdate'
  <2>1. CASE buffer' = Blank /\ screen' = Blank
    BY <2>1, BlankType DEF OfOneUpdate
  <2>2. CASE drawnBy' = "prompt" /\ screen' = buffer
    <3>1. \A a \in Item : QueryOf[a] \in Int
      BY Queries DEF LastQuery
    <3> QED
      BY <1>2, <2>2, <3>1 DEF BufferInv, OfOneUpdate
  <2> QED
    BY <1>1, <2>1, <2>2
<1>7. MaximaInv' /\ DividesSafely'
  BY <1>1, <1>2 DEF MaximaInv, DividesSafely, TypeOK
<1> QED
  BY <1>4, <1>5, <1>6, <1>7 DEF IInv

LEMMA NextInv == IInv /\ [Next]_vars => IInv'
<1> SUFFICES ASSUME IInv, [Next]_vars PROVE IInv'
  OBVIOUS
<1>1. CASE UNCHANGED vars
  <2>1. UNCHANGED <<time, zeroMax, max, buffer, screen, drawnBy, needRefresh, pc, failures>>
        /\ UNCHANGED loadVars
    BY <1>1 DEF vars, drawVars
  <2>2. LoadType'
    BY <2>1, LoadUnchanged DEF IInv, TypeOK, LoadType
  <2>3. TypeOK'
    BY <2>1, <2>2 DEF IInv, TypeOK, LoadType
  <2> QED
    BY <2>1, <2>3 DEF IInv, BufferInv, OfOneUpdate, MaximaInv, DividesSafely
<1> QED
  BY <1>1, TickInv, InitPageInv, UpdatePageInv, RedrawInv DEF Next

-----------------------------------------------------------------------------
(* The load                                                                *)

LEMMA DivProps ==
    ASSUME NEW a \in Nat, NEW n \in Nat \ {0}
    PROVE  a \div n \in Nat /\ (a \div n) * n <= a /\ a < (a \div n) * n + n
<1> QED
  OBVIOUS

LEMMA ModSmall == ASSUME NEW a \in Nat, NEW n \in Nat \ {0}, a < n PROVE a % n = a
<1> QED
  OBVIOUS

\* What the property says of the load of given ticks.
IsShare(value, ticks) ==
    \/ 1000 * ticks.idle < Total(ticks) /\ value = 0
    \/ /\ 1000 * ticks.busy <= value * Total(ticks)
       /\ (value - 1) * Total(ticks) < 1000 * ticks.busy

\* The arithmetic of getCpuLoad, where no word overflows: the idle share is rounded
\* down, so the busy share is rounded up, and one of 1000 becomes 0.
LEMMA LoadIsShare ==
    ASSUME NEW ticks \in Ticks, ticks.idle >= 0, Total(ticks) > 0, 1000 * ticks.idle < Word,
           1000 < Word
    PROVE  IsShare(Load(ticks), ticks)
<1> DEFINE n == Total(ticks)
           a == 1000 * ticks.idle
           q == a \div n
<1>1. /\ ticks.idle \in Nat /\ ticks.busy \in Nat /\ n \in Nat \ {0} /\ a \in Nat
      /\ n = ticks.idle + ticks.busy /\ Word \in Nat \ {0}
  BY TickAssumption DEF Ticks, Total
<1> HIDE DEF n, a
<1>2. IdleShare(ticks) = q
  <2>1. ticks.idle % Word = ticks.idle
    BY <1>1, ModSmall DEF a
  <2>2. (ticks.idle * 1000) % Word = a
    BY <1>1, ModSmall DEF a
  <2> QED
    BY <2>1, <2>2 DEF IdleShare, n
<1>3. q \in Nat /\ q * n <= a /\ a < q * n + n
  BY <1>1, DivProps
<1> HIDE DEF q
<1>4. q <= 1000
  <2>1. a <= 1000 * n
    BY <1>1 DEF a
  <2>2. q * n <= 1000 * n
    BY <1>1, <1>3, <2>1
  <2> QED
    BY <1>1, <1>3, <2>2
<1>5. Load(ticks) = (1000 - q) % 1000
  <2>1. 1000 - q \in Nat /\ 1000 - q < Word
    BY <1>1, <1>3, <1>4
  <2>2. (1000 - q) % Word = 1000 - q
    BY <1>1, <2>1, ModSmall
  <2> QED
    BY <1>2, <2>2 DEF Load
<1>6. CASE q = 0
  <2>1. Load(ticks) = 0
    BY <1>5, <1>6
  <2>2. a < n
    BY <1>1, <1>3, <1>6
  <2> QED
    BY <2>1, <2>2 DEF IsShare, a, n
<1>7. CASE q # 0
  <2>1. Load(ticks) = 1000 - q
    <3>1. 1000 - q \in Nat /\ 1000 - q < 1000
      BY <1>3, <1>4, <1>7
    <3> QED
      BY <1>5, <3>1, ModSmall
  <2>2. 1000 * ticks.busy = 1000 * n - a
    BY <1>1 DEF a
  <2>3. (1000 - q) * n = 1000 * n - q * n /\ (1000 - q - 1) * n = 1000 * n - q * n - n
    BY <1>1, <1>3
  <2>4. 1000 * ticks.busy <= (1000 - q) * n /\ (1000 - q - 1) * n < 1000 * ticks.busy
    BY <1>1, <1>3, <2>2, <2>3
  <2> QED
    BY <2>1, <2>4 DEF IsShare, n
<1> QED
  BY <1>6, <1>7

\* The ticks since the last load stay so few that their product does not overflow.
LoadInv ==
    /\ MaxTime * (1000 * since.idle) < Word * time
    /\ LoadShown

LEMMA LoadShownIsShare ==
    LoadShown <=> (interval.idle >= 0 /\ Total(interval) > 0 => IsShare(load, interval))
<1> QED
  BY DEF LoadShown, IsShare

\* A reading for which the product does not overflow gives a load that is right.
LEMMA FewTicks ==
    ASSUME NEW ticks \in Ticks, NEW t \in 1 .. MaxTime,
           MaxTime * (1000 * ticks.idle) < Word * t
    PROVE  1000 * ticks.idle < Word
<1>1. MaxTime \in Nat \ {0} /\ Word \in Nat \ {0} /\ 1000 * ticks.idle \in Int
  BY BoundAssumption, TickAssumption DEF Ticks
<1> QED
  BY <1>1

LEMMA CpuLoadShown ==
    ASSUME IInv, LoadInv, getCpuLoad \/ UNCHANGED loadVars, UNCHANGED time
    PROVE  LoadInv'
<1>1. CASE UNCHANGED loadVars
  BY <1>1 DEF LoadInv, LoadShown, loadVars, Total
<1>2. CASE getCpuLoad
  <2>1. PICK ticks \in IF first THEN Changes ELSE {since} :
            IF Total(ticks) = 0 THEN since' = ticks /\ UNCHANGED <<load, interval>>
            ELSE since' = NoTicks /\ load' = Load(ticks) /\ interval' = ticks
    BY <1>2 DEF getCpuLoad
  <2>2. /\ time \in 1 .. MaxTime /\ MaxTime \in Nat \ {0} /\ Word \in Nat \ {0}
        /\ ticks \in Ticks /\ Total(ticks) >= 0
    BY <2>1, BoundAssumption, TickAssumption DEF IInv, TypeOK
  <2>3. MaxTime * (1000 * ticks.idle) < Word * time
    <3>1. CASE first
      <4>1. MaxTime * (1000 * ticks.idle) < Word
        BY <2>1, <3>1, WordAssumption
      <4>2. Word <= Word * time
        BY <2>2
      <4>3. MaxTime * (1000 * ticks.idle) \in Int /\ Word * time \in Int
        BY <2>2 DEF Ticks
      <4> QED
        BY <2>2, <4>1, <4>2, <4>3
    <3>2. CASE ~first
      BY <2>1, <3>2 DEF LoadInv
    <3> QED
      BY <3>1, <3>2
  <2>4. CASE Total(ticks) = 0
    BY <2>1, <2>3, <2>4 DEF LoadInv, LoadShown, Total
  <2>5. CASE Total(ticks) # 0
    <3>1. since' = NoTicks /\ load' = Load(ticks) /\ interval' = ticks
      BY <2>1, <2>5
    <3>2. MaxTime * (1000 * NoTicks.idle) < Word * time
      BY <2>2 DEF NoTicks
    <3>3. Total(ticks) > 0
      BY <2>2, <2>5 DEF Ticks, Total
    <3>4. ticks.idle >= 0 => IsShare(Load(ticks), ticks)
      BY <2>2, <2>3, <3>3, FewTicks, LoadIsShare, WordAssumption
    <3>5. LoadShown'
      BY <3>1, <3>4 DEF LoadShown, IsShare, Total
    <3> QED
      BY <3>1, <3>2, <3>5 DEF LoadInv
  <2> QED
    BY <2>4, <2>5
<1> QED
  BY <1>1, <1>2

LEMMA TickLoad == ASSUME IInv, LoadInv, Tick PROVE LoadInv'
<1>1. /\ time' = time + 1 /\ UNCHANGED <<load, interval>>
      /\ \/ UNCHANGED since
         \/ \E c \in Changes : since' = Plus(since, c)
  BY DEF Tick
<1>2. /\ time \in Nat \ {0} /\ MaxTime \in Nat \ {0} /\ Word \in Nat \ {0} /\ since.idle \in Int
  BY BoundAssumption, TickAssumption DEF IInv, TypeOK, Ticks
<1>3. Word * (time + 1) = Word * time + Word /\ Word * time \in Nat
  BY <1>2
<1>4. MaxTime * (1000 * since'.idle) < Word * time'
  <2>1. CASE UNCHANGED since
    <3>1. MaxTime * (1000 * since.idle) \in Int
      BY <1>2
    <3> QED
      BY <1>1, <1>2, <1>3, <2>1, <3>1 DEF LoadInv
  <2>2. CASE \E c \in Changes : since' = Plus(since, c)
    <3>1. PICK c \in Changes : since' = Plus(since, c)
      BY <2>2
    <3>2. c.idle \in Int /\ since'.idle = since.idle + c.idle
      BY <3>1, TickAssumption DEF Ticks, Plus
    <3>3. MaxTime * (1000 * c.idle) < Word
      BY WordAssumption
    <3>4. MaxTime * (1000 * (since.idle + c.idle))
              = MaxTime * (1000 * since.idle) + MaxTime * (1000 * c.idle)
      BY <1>2, <3>2
    <3>5. MaxTime * (1000 * since.idle) \in Int /\ MaxTime * (1000 * c.idle) \in Int
      BY <1>2, <3>2
    <3> HIDE DEF Plus
    <3> QED
      BY <1>1, <1>2, <1>3, <3>2, <3>3, <3>4, <3>5 DEF LoadInv
  <2> QED
    BY <1>1, <2>1, <2>2
<1> QED
  BY <1>1, <1>4 DEF LoadInv, LoadShown, Total

LEMMA NextLoad == IInv /\ LoadInv /\ [Next]_vars => LoadInv'
<1> SUFFICES ASSUME IInv, LoadInv, [Next]_vars PROVE LoadInv'
  OBVIOUS
<1>1. CASE Tick
  BY <1>1, TickLoad
<1>2. CASE InitPage \/ TooSmall \/ UpdatePage \/ Prompt \/ UNCHANGED vars
  <2>1. getCpuLoad \/ UNCHANGED loadVars
    BY <1>2 DEF InitPage, TooSmall, UpdatePage, Prompt, UpdateSensors, vars
  <2>2. UNCHANGED time
    BY <1>2 DEF InitPage, TooSmall, UpdatePage, Prompt, vars
  <2> QED
    BY <2>1, <2>2, CpuLoadShown
<1> QED
  BY <1>1, <1>2 DEF Next

-----------------------------------------------------------------------------

\* The invariant is inductive: it holds throughout every behaviour of the page.
THEOREM Invariance == Spec => []IInv
<1> QED
  BY InitInv, NextInv, PTL DEF Spec

\* The load is between 0 and 999 for any counters, those the kernel takes back
\* included, and every update and failure keeps the types.
THEOREM TypeCorrect == Spec => []TypeOK
<1>1. IInv => TypeOK
  BY DEF IInv
<1> QED
  BY <1>1, Invariance, PTL

\* The terminal shows values of one update, or, under the exit prompt, values that
\* are the older the later their query; for any number of failing queries.
THEOREM ShownTogether == Spec => []OfOneUpdate
<1>1. IInv => OfOneUpdate
  BY DEF IInv
<1> QED
  BY <1>1, Invariance, PTL

\* No bar is ever divided by a maximum that was not set.
THEOREM BarsDivide == Spec => []DividesSafely
<1>1. IInv => DividesSafely
  BY DEF IInv
<1> QED
  BY <1>1, Invariance, PTL

\* The load that is shown is the busy share of all ticks since the load before, for
\* any changes of the counters that keep their product with 1000 inside a word.
THEOREM LoadIsRight == Spec => []LoadShown
<1>1. Init => LoadInv
  <2>1. MaxTime \in Nat /\ Word \in Nat \ {0}
    BY BoundAssumption, TickAssumption
  <2> QED
    BY <2>1 DEF Init, LoadInv, LoadShown, NoTicks, Total
<1>2. LoadInv => LoadShown
  BY DEF LoadInv
<1> QED
  BY <1>1, <1>2, NextLoad, Invariance, PTL DEF Spec

=============================================================================
