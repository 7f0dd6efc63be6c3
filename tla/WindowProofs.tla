---------------------------- MODULE WindowProofs ----------------------------
(***************************************************************************)
(* Proofs about the window manager (src/tui/window.c).                     *)
(*                                                                         *)
(* Scheduler, for all periods and durations: types, and the bound on the   *)
(* age of a window.  The bound is not inductive: the work of the pass so   *)
(* far has to be counted, and a window that is still to come in the pass   *)
(* told from one that was visited.                                         *)
(*                                                                         *)
(* Layout, for terminals of any size and words of any width: the windows   *)
(* fit a usable terminal, and so does what is drawn at computed places in  *)
(* the main window.                                                        *)
(***************************************************************************)
EXTENDS Scheduler, Layout, TLAPS

\* Ages stay within the cap, and grow by no more than the time that passes.
LEMMA LaterBounds ==
    ASSUME NEW a \in 0 .. Cap, NEW d \in Nat
    PROVE  Later(a, d) \in 0 .. Cap /\ Later(a, d) <= a + d
BY CapAssumption DEF Later

LEMMA AgedType ==
    ASSUME TypeOK, NEW d \in Nat
    PROVE  /\ Aged(d) \in [Win -> 0 .. Cap] /\ Later(pageAge, d) \in 0 .. Cap
           /\ \A w \in Win : Aged(d)[w] <= age[w] + d
BY LaterBounds DEF Aged, TypeOK

\* An update leaves every window older by its own duration at most, and the
\* window it updates at age 0.
LEMMA UpdatedType ==
    ASSUME TypeOK, NEW w \in Win, NEW d \in Nat
    PROVE  /\ Updated(w, d) \in [Win -> 0 .. Cap]
           /\ PageAge(w, d) \subseteq 0 .. Cap
           /\ Updated(w, d)[w] = 0
           /\ \A v \in Win \ {w} : Updated(w, d)[v] <= age[v] + d
<1>1. 0 \in 0 .. Cap /\ Cap \in 0 .. Cap
  BY CapAssumption
<1> QED
  BY <1>1, AgedType DEF Updated, PageAge

\* Every variable keeps its type.
LEMMA NextType == TypeOK /\ [Next]_vars => TypeOK'
<1> SUFFICES ASSUME TypeOK, [Next]_vars
             PROVE  TypeOK'
  OBVIOUS
<1> USE DEF Device, Tab, Main, Status, Win
<1>0. 0 \in 0 .. Cap /\ Cap \in 0 .. Cap /\ LongTimeout \in Nat /\ Forever \in Nat
  BY CapAssumption DEF LongTimeout, Forever
<1>1. CASE TimesOut
  <2>1. timeout \in Nat /\ next' \in 0 .. 4 /\ due' \subseteq Win
    BY <1>1, <1>0 DEF TimesOut, DueAt, TypeOK
  <2> QED
    BY <1>1, <2>1, AgedType DEF TimesOut, TypeOK
<1>2. ASSUME NEW w \in Win, NotDue(w)
      PROVE  TypeOK'
  BY <1>2 DEF NotDue, Following, TypeOK
<1>3. ASSUME NEW w \in Win, Updates(w)
      PROVE  TypeOK'
  <2>1. PICK d \in 0 .. MaxWork : age' = Updated(w, d) /\ pageAge' \in PageAge(w, d)
    BY <1>3 DEF Updates
  <2>2. d \in Nat
    BY <2>1, WorkAssumption
  <2>3. age' \in [Win -> 0 .. Cap] /\ pageAge' \in 0 .. Cap
    BY <2>1, <2>2, UpdatedType
  <2>4. loaded' \in BOOLEAN
    BY <1>3 DEF Updates, Loads, TypeOK
  <2>5. excused' \in [Win -> BOOLEAN]
    BY <1>3 DEF Updates, TypeOK
  <2> QED
    BY <1>3, <2>3, <2>4, <2>5 DEF Updates, Following, TypeOK
<1>4. ASSUME NEW w \in Win, Fails(w)
      PROVE  TypeOK'
  <2>1. PICK d \in 0 .. MaxWork :
           /\ age' = Aged(d)
           /\ pageAge' \in {Later(pageAge, d)} \cup (IF w = Device THEN {Cap} ELSE {})
    BY <1>4 DEF Fails
  <2>2. d \in Nat
    BY <2>1, WorkAssumption
  <2>3. age' \in [Win -> 0 .. Cap] /\ pageAge' \in 0 .. Cap
    BY <1>0, <2>1, <2>2, AgedType
  <2>4. excused' \in [Win -> BOOLEAN]
    <3>1. \A v \in Win : (v >= w \/ excused[v]) \in BOOLEAN
      BY Zenon
    <3> QED
      BY <1>4, <3>1, Zenon DEF Fails
  <2> QED
    BY <1>0, <1>4, <2>3, <2>4, 0 \in 0 .. 4 DEF Fails, Loads, TypeOK
<1>5. CASE PlainKey
  <2>1. PICK d \in Nat : age' = Aged(d) /\ pageAge' \in {Later(pageAge, d), Cap}
    BY <1>0, <1>5 DEF PlainKey, Waits, TypeOK
  <2>2. age' \in [Win -> 0 .. Cap] /\ pageAge' \in 0 .. Cap
    BY <1>0, <2>1, AgedType
  <2> QED
    BY <1>5, <2>2 DEF PlainKey, TypeOK
<1>6. CASE ResizeKey
  BY <1>0, <1>6 DEF ResizeKey, TypeOK
<1>7. CASE DialogKeys
  <2>1. PICK d \in 0 .. Cap : age' = Aged(d) /\ pageAge' \in {Later(pageAge, d), Cap}
    BY <1>7 DEF DialogKeys
  <2>2. d \in Nat
    BY <1>0, <2>1
  <2>3. age' \in [Win -> 0 .. Cap] /\ pageAge' \in 0 .. Cap
    BY <1>0, <2>1, <2>2, AgedType
  <2> QED
    BY <1>7, <2>3 DEF DialogKeys, TypeOK
<1>8. CASE UNCHANGED vars
  BY <1>8 DEF vars, TypeOK
<1> QED
  BY <1>1, <1>2, <1>3, <1>4, <1>5, <1>6, <1>7, <1>8 DEF Next, Pass

-----------------------------------------------------------------------------

\* The work of the pass so far; between two passes, of a whole one.
Elapsed == IF next = 0 THEN 4 * MaxWork ELSE (next - 1) * MaxWork

\* the window is due in this pass and still to come
Awaited(w) == next # 0 /\ w >= next /\ w \in due

\* A window visited in this pass was younger than its period when the pass
\* began, or was updated in it; one that is awaited was so in the pass before.
Bounded ==
    \A w \in Win : ~excused[w] =>
        age[w] <= Period[w] - 1 + Elapsed
                  + (IF Awaited(w) THEN 4 * MaxWork + LongTimeout ELSE 0)

IInv == TypeOK /\ Bounded

LEMMA InitInv == Init => IInv
BY CapAssumption DEF Init, IInv, TypeOK, Bounded, Win, LongTimeout, Forever

LEMMA BoundedStep == IInv /\ [Next]_vars => Bounded'
<1> SUFFICES ASSUME TypeOK, Bounded, [Next]_vars, NEW w \in Win, ~excused'[w]
             PROVE  age'[w] <= Period[w] - 1 + Elapsed'
                       + (IF Awaited(w)' THEN 4 * MaxWork + LongTimeout ELSE 0)
  BY DEF IInv, Bounded
<1>0. /\ MaxWork \in Nat /\ Period[w] \in Nat /\ w \in Nat /\ next \in Nat
      /\ age[w] \in Nat /\ age'[w] \in Nat
  BY NextType, WorkAssumption, PeriodAssumption DEF TypeOK, Win
<1>1. CASE TimesOut
  <2>1. ~excused[w] /\ timeout \in {1, 2} /\ Elapsed = 4 * MaxWork /\ Elapsed' = 0
    BY <1>0, <1>1 DEF TimesOut, TypeOK, Elapsed, LongTimeout, Forever
  <2>2. age'[w] <= age[w] + timeout
    BY <1>1, <2>1, AgedType DEF TimesOut
  <2>3. age[w] <= Period[w] - 1 + 4 * MaxWork
    BY <1>0, <1>1, <2>1 DEF Bounded, Awaited, TimesOut
  <2>4. CASE w \in due'
    BY <1>0, <1>1, <2>1, <2>2, <2>3, <2>4 DEF TimesOut, Awaited, LongTimeout, Win
  <2>5. CASE w \notin due'
    BY <1>0, <1>1, <2>1, <2>5 DEF TimesOut, DueAt, Awaited
  <2> QED
    BY <2>4, <2>5
<1>2. ASSUME NEW v \in Win, next = v, next' = Following(v)
      PROVE  Elapsed' = Elapsed + MaxWork
  BY <1>0, <1>2 DEF Following, Elapsed, Status, Win
<1>3. ASSUME NEW v \in Win, NotDue(v)
      PROVE  age'[w] <= Period[w] - 1 + Elapsed'
                  + (IF Awaited(w)' THEN 4 * MaxWork + LongTimeout ELSE 0)
  <2>1. Elapsed' = Elapsed + MaxWork /\ age' = age /\ ~excused[w] /\ Elapsed \in Nat
    BY <1>0, <1>2, <1>3 DEF NotDue, Elapsed, Win
  <2>2. Awaited(w) => Awaited(w)'
    BY <1>3 DEF NotDue, Awaited, Following, Status, Win
  <2> QED
    BY <1>0, <2>1, <2>2 DEF Bounded, LongTimeout
<1>4. ASSUME NEW v \in Win, Updates(v)
      PROVE  age'[w] <= Period[w] - 1 + Elapsed'
                  + (IF Awaited(w)' THEN 4 * MaxWork + LongTimeout ELSE 0)
  <2>1. Elapsed' = Elapsed + MaxWork /\ Elapsed \in Nat
    BY <1>0, <1>2, <1>4 DEF Updates, Elapsed, Win
  <2>2. PICK d \in 0 .. MaxWork : age' = Updated(v, d)
    BY <1>4 DEF Updates
  <2>3. CASE w = v
    <3>1. age'[w] = 0 /\ Period[w] >= 1
      BY <1>0, <2>2, <2>3, UpdatedType, PeriodAssumption
    <3> QED
      BY <1>0, <2>1, <3>1 DEF LongTimeout
  <2>4. CASE w # v
    <3>1. age'[w] <= age[w] + d
      BY <1>0, <2>2, <2>4, UpdatedType
    <3>2. Awaited(w) => Awaited(w)'
      BY <1>4, <2>4 DEF Updates, Awaited, Following, Status, Win
    <3>3. ~excused[w]
      BY <1>4, <2>4 DEF Updates, TypeOK
    <3> QED
      BY <1>0, <2>1, <3>1, <3>2, <3>3 DEF Bounded, LongTimeout
  <2> QED
    BY <2>3, <2>4
<1>5. ASSUME NEW v \in Win, Fails(v)
      PROVE  age'[w] <= Period[w] - 1 + Elapsed'
                  + (IF Awaited(w)' THEN 4 * MaxWork + LongTimeout ELSE 0)
  <2>0. ~(w >= v \/ excused[w])
    BY <1>5, Zenon DEF Fails
  <2>1. ~excused[w] /\ w < v /\ next = v /\ next' = 0
    BY <1>0, <1>5, <2>0 DEF Fails, Win
  <2>2. PICK d \in 0 .. MaxWork : age' = Aged(d)
    BY <1>5 DEF Fails
  <2>3. age'[w] <= age[w] + MaxWork
    BY <1>0, <2>2, AgedType DEF TypeOK
  <2>4. age[w] <= Period[w] - 1 + (v - 1) * MaxWork
    BY <1>0, <2>1 DEF Bounded, Awaited, Elapsed, Win
  <2>5. (v - 1) * MaxWork + MaxWork <= 4 * MaxWork
    BY <1>0 DEF Win
  <2>6. (v - 1) * MaxWork \in Nat
    BY <1>0 DEF Win
  <2> QED
    BY <1>0, <2>1, <2>3, <2>4, <2>5, <2>6 DEF Elapsed, Awaited
<1>6. CASE PlainKey \/ ResizeKey \/ DialogKeys
  BY <1>6 DEF PlainKey, ResizeKey, DialogKeys
<1>7. CASE UNCHANGED vars
  BY <1>7 DEF vars, Bounded, Elapsed, Awaited
<1> QED
  BY <1>1, <1>3, <1>4, <1>5, <1>6, <1>7 DEF Next, Pass

\* IInv holds in every reachable state.
THEOREM Invariance == Spec => []IInv
<1>1. IInv /\ [Next]_vars => IInv'
  BY NextType, BoundedStep DEF IInv
<1> QED
  BY <1>1, InitInv, PTL DEF Spec

\* Whatever keys, timeouts, durations and errors come, the pass of WindowsUpdate
\* stays within the windows and the input has one of its three timeouts.
THEOREM TypeCorrect == Spec => []TypeOK
<1>1. IInv => TypeOK
  BY DEF IInv
<1> QED
  BY <1>1, Invariance, PTL

\* The bound on the age of every window that nothing disturbed.
THEOREM WindowsAreTimely == Spec => []Timely
<1>1. IInv => Timely
  <2> SUFFICES ASSUME IInv, NEW w \in Win, ~excused[w]
               PROVE  age[w] <= Limit(w)
    BY DEF Timely
  <2>1. /\ MaxWork \in Nat /\ Period[w] \in Nat /\ age[w] \in Nat /\ next \in 0 .. 4
    BY WorkAssumption, PeriodAssumption DEF IInv, TypeOK
  <2>2. age[w] <= Period[w] - 1 + Elapsed
                   + (IF Awaited(w) THEN 4 * MaxWork + LongTimeout ELSE 0)
    BY DEF IInv, Bounded
  <2>3. (w - 1) * MaxWork \in Nat
    BY <2>1 DEF Win
  <2>4. Elapsed <= 4 * MaxWork /\ (Awaited(w) => Elapsed <= (w - 1) * MaxWork) /\ Elapsed \in Nat
    BY <2>1 DEF Elapsed, Awaited, Win
  <2> QED
    BY <2>1, <2>2, <2>3, <2>4 DEF Limit, LongTimeout
<1> QED
  BY <1>1, Invariance, PTL

-----------------------------------------------------------------------------
(* The layout.                                                             *)

\* The windows are always those InitWinLayout computes for this terminal.
LaidOut ==
    /\ COLS \in 1 .. MaxSize /\ LINES \in 1 .. MaxSize
    /\ ctx = Context(COLS, LINES) /\ wins = Layouts(ctx)

\* A window is always laid out for the size of the terminal (InitWinLayout).
LEMMA AlwaysLaidOut == LayoutSpec => []LaidOut
<1>1. LayoutInit => LaidOut
  BY DEF LayoutInit, LaidOut
<1>2. LaidOut /\ [Resize]_layoutVars => LaidOut'
  <2> SUFFICES ASSUME LaidOut, [Resize]_layoutVars PROVE LaidOut'
    OBVIOUS
  <2>1. CASE Resize
    BY <2>1 DEF Resize, InitWinLayout, LaidOut
  <2>2. CASE UNCHANGED layoutVars
    BY <2>2 DEF layoutVars, LaidOut
  <2> QED BY <2>1, <2>2
<1> QED BY <1>1, <1>2, PTL DEF LayoutSpec

\* What Share leaves of a terminal's dimension: it is centred with a cell at
\* each end for the border, and is never less than all but the border of a
\* dimension that is small.
LEMMA ShareFits ==
    ASSUME NEW size \in 3 .. MaxSize, NEW least \in {42, 112}
    PROVE  LET s == Share(size, least)
               b == Minus(size, s) \div 2
           IN /\ s \in 1 .. MaxSize /\ b \in 1 .. MaxSize
              /\ b + s + 1 <= size
              /\ s >= least \/ s = size - 2
<1>0. MaxSize \in Nat /\ HALF \in Nat
  BY WordAssumption
<1> DEFINE part == (size * 80) \div 100
<1>1. part \in Nat /\ 100 * part <= 80 * size /\ 80 * size < 100 * part + 100
  BY <1>0, SMT
<1> HIDE DEF part
<1>2. CASE part < least
  <2>1. Share(size, least) = size - 2
    BY <1>0, <1>2 DEF Share, DEFAULT_WINDOW_SIZE, Minus, part
  <2>2. Minus(size, size - 2) = 2
    BY <1>0 DEF Minus
  <2> QED BY <1>0, <2>1, <2>2
<1>3. CASE ~(part < least)
  <2>1. Share(size, least) = part
    BY <1>3 DEF Share, DEFAULT_WINDOW_SIZE, part
  <2>2. part >= 42 /\ size >= part + 2
    BY <1>0, <1>1, <1>3
  <2>3. Minus(size, part) = size - part
    BY <1>0, <1>1, <2>2 DEF Minus
  <2>4. (size - part) \div 2 \in 1 .. MaxSize /\ 2 * ((size - part) \div 2) <= size - part
    BY <1>0, <1>1, <2>2
  <2> QED BY <1>0, <1>1, <1>3, <2>1, <2>2, <2>3, <2>4
<1> QED BY <1>2, <1>3

\* The sizes of a usable terminal's context and windows, without the wrap.
LEMMA UsableSizes ==
    ASSUME LaidOut, Usable
    PROVE  /\ ctx.width \in 21 .. MaxSize /\ ctx.height \in 10 .. MaxSize
           /\ ctx.startx \in 1 .. MaxSize /\ ctx.startx + ctx.width + 1 <= COLS
           /\ ctx.starty \in 1 .. MaxSize /\ ctx.starty + ctx.height + 1 <= LINES
           /\ COLS >= 24 => ctx.width >= 22
           /\ ctx.width >= 112 \/ ctx.width = COLS - 2
           /\ ctx.height >= 42 \/ ctx.height = LINES - 2
           /\ wins = [device |-> [y |-> 0, x |-> 0, h |-> 6, w |-> ctx.width],
                      tab    |-> [y |-> 6, x |-> 0, h |-> ctx.height - 9, w |-> 20],
                      main   |-> [y |-> 6, x |-> 20, h |-> ctx.height - 9,
                                  w |-> ctx.width - 20],
                      status |-> [y |-> ctx.height - 3, x |-> 0, h |-> 3,
                                  w |-> ctx.width]]
<1> DEFINE w == Share(COLS, 112)
           h == Share(LINES, 42)
<1>1. COLS \in 23 .. MaxSize /\ LINES \in 12 .. MaxSize /\ MaxSize \in Nat
  BY WordAssumption DEF LaidOut, Usable
<1>2. ctx = [width |-> w, height |-> h, startx |-> Minus(COLS, w) \div 2,
             starty |-> Minus(LINES, h) \div 2]
  BY DEF LaidOut, Context
<1>3. /\ w \in 1 .. MaxSize /\ Minus(COLS, w) \div 2 \in 1 .. MaxSize
      /\ Minus(COLS, w) \div 2 + w + 1 <= COLS
      /\ w >= 112 \/ w = COLS - 2
  BY <1>1, ShareFits
<1>4. /\ h \in 1 .. MaxSize /\ Minus(LINES, h) \div 2 \in 1 .. MaxSize
      /\ Minus(LINES, h) \div 2 + h + 1 <= LINES
      /\ h >= 42 \/ h = LINES - 2
  BY <1>1, ShareFits
<1> HIDE DEF w, h
<1>5. w \in 21 .. MaxSize /\ h \in 10 .. MaxSize /\ (COLS >= 24 => w >= 22)
  BY <1>1, <1>3, <1>4
<1>6. /\ Minus(w, 20) = w - 20 /\ Minus(h, 3) = h - 3
      /\ Minus(Minus(h, 6), 3) = h - 9
  <2>1. Minus(h, 6) = h - 6 /\ Minus(w, 20) = w - 20 /\ Minus(h, 3) = h - 3
    BY <1>1, <1>5 DEF Minus
  <2>2. Minus(h - 6, 3) = h - 9
    BY <1>1, <1>5 DEF Minus
  <2> QED BY <2>1, <2>2
<1>7. wins = Layouts(ctx) /\ ctx.width = w /\ ctx.height = h
  BY <1>2 DEF LaidOut
<1>8. wins = [device |-> [y |-> 0, x |-> 0, h |-> 6, w |-> w],
              tab    |-> [y |-> 6, x |-> 0, h |-> h - 9, w |-> 20],
              main   |-> [y |-> 6, x |-> 20, h |-> h - 9, w |-> w - 20],
              status |-> [y |-> h - 3, x |-> 0, h |-> 3, w |-> w]]
  BY <1>6, <1>7 DEF Layouts, WINDOW_DEVICE_HEIGHT, WINDOW_TAB_WIDTH, WINDOW_STATUS_HEIGH
<1> QED BY <1>2, <1>3, <1>4, <1>5, <1>7, <1>8

\* The windows of a usable terminal leave no cell of the context uncovered.
LEMMA Covered ==
    ASSUME LaidOut, Usable
    PROVE  Area(wins["device"]) + Area(wins["tab"]) + Area(wins["main"])
             + Area(wins["status"]) = ctx.height * ctx.width
<1>1. MaxSize \in Nat /\ ctx.width \in Nat /\ ctx.height \in Nat
  BY WordAssumption, UsableSizes
<1>2. /\ Area(wins["device"]) = 6 * ctx.width
      /\ Area(wins["tab"]) = (ctx.height - 9) * 20
      /\ Area(wins["main"]) = (ctx.height - 9) * (ctx.width - 20)
      /\ Area(wins["status"]) = 3 * ctx.width
  BY UsableSizes DEF Area
<1>3. \A a, b \in Nat : 6 * b + (a - 9) * 20 + (a - 9) * (b - 20) + 3 * b = a * b
  BY SMT
<1> QED BY <1>1, <1>2, <1>3

\* On a usable terminal of any size InitWinLayout gives the windows sizes that
\* are not empty, lie within the border, do not overlap and leave no gap.
THEOREM UsableTerminalsFit == LayoutSpec => []WindowsFit
<1>1. LaidOut => WindowsFit
  <2> SUFFICES ASSUME LaidOut, Usable
               PROVE  /\ \A n \in Windows : /\ wins[n].h > 0 /\ wins[n].w > 0
                                            /\ Inside(wins[n], ctx.height, ctx.width)
                      /\ \A m, n \in Windows : m # n => Apart(wins[m], wins[n])
                      /\ ctx.startx >= 1 /\ ctx.startx + ctx.width + 1 <= COLS
                      /\ ctx.starty >= 1 /\ ctx.starty + ctx.height + 1 <= LINES
    BY Covered DEF WindowsFit
  <2>0. MaxSize \in Nat
    BY WordAssumption
  <2>1. \A n \in Windows : /\ wins[n].h > 0 /\ wins[n].w > 0
                           /\ Inside(wins[n], ctx.height, ctx.width)
    BY <2>0, UsableSizes DEF Windows, Inside
  <2>2. \A m, n \in Windows : m # n => Apart(wins[m], wins[n])
    BY <2>0, UsableSizes DEF Windows, Apart
  <2> QED BY <2>0, <2>1, <2>2, UsableSizes
<1> QED BY <1>1, AlwaysLaidOut, PTL

\* The sizes of a main window whose wraps do not happen.
LEMMA MainSizes ==
    ASSUME LaidOut, Usable
    PROVE  /\ wins["main"].w = ctx.width - 20 /\ wins["main"].h = ctx.height - 9
           /\ wins["main"].w \in 1 .. MaxSize /\ wins["main"].h \in 1 .. MaxSize
           /\ wins["main"].w >= 92 \/ wins["main"].w = COLS - 22
           /\ wins["main"].h >= 33 \/ wins["main"].h = LINES - 11
           /\ MaxSize \in Nat /\ HALF \in Nat /\ 3 * MaxSize < HALF
           /\ COLS \in Nat /\ LINES \in Nat
<1>1. COLS \in Nat /\ LINES \in Nat
  BY WordAssumption DEF LaidOut
<1> QED BY <1>1, WordAssumption, UsableSizes

\* A difference that is not negative is halved without a wrap.
LEMMA Halved ==
    ASSUME NEW a \in 0 .. MaxSize, NEW b \in Nat, NEW c \in Nat, b + c <= a
    PROVE  /\ ToInt(Minus(Minus(a, b), c) \div 2) = (a - b - c) \div 2
           /\ (a - b - c) \div 2 \in Nat /\ 2 * ((a - b - c) \div 2) <= a - b - c
<1>1. MaxSize \in Nat /\ HALF \in Nat /\ 3 * MaxSize < HALF
  BY WordAssumption
<1>2. Minus(Minus(a, b), c) = a - b - c
  BY <1>1 DEF Minus
<1>3. (a - b - c) \div 2 \in Nat /\ (a - b - c) \div 2 < HALF
      /\ 2 * ((a - b - c) \div 2) <= a - b - c
  BY <1>1
<1> QED BY <1>2, <1>3 DEF ToInt

\* helperHandler opens its text where it fits, and the exit prompt fits.
LEMMA DialogsFit == ASSUME LaidOut PROVE HelpFits /\ PromptFits
<1> DEFINE w == wins["main"].w
           h == wins["main"].h
<1>1. ASSUME Usable, COLS >= 52
      PROVE  HelpOpens(wins["main"])
               <=> Inside(HelpText(wins["main"]), wins["main"].h, wins["main"].w)
  <2>1. w \in 30 .. MaxSize /\ h \in 1 .. MaxSize /\ MaxSize \in Nat
        /\ HALF \in Nat /\ 3 * MaxSize < HALF
    BY <1>1, MainSizes
  <2> HIDE DEF w, h
  <2>2. HelpStartx(w) \in Nat /\ HelpStartx(w) + 28 <= w
    <3>1. w \in 0 .. MaxSize /\ 28 \in Nat /\ 2 \in Nat /\ 28 + 2 <= w
      BY <2>1
    <3>2. /\ ToInt(Minus(Minus(w, 28), 2) \div 2) = (w - 28 - 2) \div 2
          /\ (w - 28 - 2) \div 2 \in Nat /\ 2 * ((w - 28 - 2) \div 2) <= w - 28 - 2
      BY <3>1, Halved
    <3> QED BY <2>1, <3>2 DEF HelpStartx, HelpWidth
  <2>3. CASE h >= 16
    <3>1. HelpStarty(h) = (h - 16) \div 2 /\ HelpStarty(h) \in Nat /\ HelpStarty(h) + 16 <= h
      BY <2>1, <2>3 DEF HelpStarty, HelpLines, ToInt
    <3> QED BY <2>1, <2>2, <2>3, <3>1 DEF HelpOpens, HelpText, Inside, HelpLines, HelpWidth, w, h
  <2>4. CASE h < 16
    <3>1. HelpStarty(h) \in Int /\ HelpStarty(h) < 0
      BY <2>1, <2>4 DEF HelpStarty, HelpLines
    <3> QED BY <2>2, <3>1 DEF HelpOpens, HelpText, Inside, w, h
  <2> QED BY <2>1, <2>3, <2>4
<1>2. ASSUME COLS >= 59, LINES >= 18
      PROVE  Inside(PromptText(wins["main"]), wins["main"].h, wins["main"].w)
  <2>0. Usable
    BY <1>2, WordAssumption DEF Usable, LaidOut
  <2>1. w \in 37 .. MaxSize /\ h \in 7 .. MaxSize /\ MaxSize \in Nat
    BY <1>2, <2>0, MainSizes
  <2> HIDE DEF w, h
  <2>2. ToInt(Minus(Minus(w, 35), 2) \div 2) \in Nat
        /\ 2 * ToInt(Minus(Minus(w, 35), 2) \div 2) <= w - 37
    <3>1. w \in 0 .. MaxSize /\ 35 \in Nat /\ 2 \in Nat /\ 35 + 2 <= w
      BY <2>1
    <3>2. /\ ToInt(Minus(Minus(w, 35), 2) \div 2) = (w - 35 - 2) \div 2
          /\ (w - 35 - 2) \div 2 \in Nat /\ 2 * ((w - 35 - 2) \div 2) <= w - 35 - 2
      BY <3>1, Halved
    <3> QED BY <2>1, <3>2
  <2>3. ToInt(Minus(Minus(h, 5), 2) \div 2) \in Nat
        /\ 2 * ToInt(Minus(Minus(h, 5), 2) \div 2) <= h - 7
    <3>1. h \in 0 .. MaxSize /\ 5 \in Nat /\ 2 \in Nat /\ 5 + 2 <= h
      BY <2>1
    <3>2. /\ ToInt(Minus(Minus(h, 5), 2) \div 2) = (h - 5 - 2) \div 2
          /\ (h - 5 - 2) \div 2 \in Nat /\ 2 * ((h - 5 - 2) \div 2) <= h - 5 - 2
      BY <3>1, Halved
    <3> QED BY <2>1, <3>2
  <2> QED BY <2>1, <2>2, <2>3 DEF PromptText, Inside, w, h
<1> QED BY <1>1, <1>2 DEF HelpFits, PromptFits

\* Wherever tabStateInfoInit draws its page, the two columns of bars with
\* their labels fit next to each other within the frame.
LEMMA BarsFit == ASSUME LaidOut PROVE StatBarsFit
<1> SUFFICES ASSUME LaidOut, Usable, COLS >= 24
             PROVE  /\ StatLabelEnd(wins["main"], StatStartx(wins["main"]))
                         <= StatColumn2(wins["main"])
                    /\ StatLabelEnd(wins["main"], StatColumn2(wins["main"]))
                         <= wins["main"].w - 2
  BY DEF StatBarsFit
<1> DEFINE w == wins["main"].w
           x == w \div 20
           b == (w - 3 * x - 2) \div 2
<1>1. w \in 2 .. MaxSize /\ MaxSize \in Nat /\ HALF \in Nat /\ MaxSize < HALF
  BY WordAssumption, UsableSizes
<1> HIDE DEF w
<1>2. x \in Nat /\ 20 * x <= w /\ w < 20 * x + 20
  BY <1>1
<1> HIDE DEF x
<1>3. w - 3 * x - 2 \in 0 .. MaxSize
  BY <1>1, <1>2
<1>4. b \in 0 .. MaxSize /\ 2 * b <= w - 3 * x - 2
  BY <1>1, <1>2, <1>3
<1>5. StatStartx(wins["main"]) = x
  BY <1>1, <1>2 DEF StatStartx, ToInt, x, w
<1>6. StatBarWidth(wins["main"]) = b
  <2>1. Minus(w, 3 * x) = w - 3 * x
    BY <1>1, <1>2, <1>3 DEF Minus
  <2>2. Minus(w - 3 * x, 2) = w - 3 * x - 2
    BY <1>1, <1>2, <1>3 DEF Minus
  <2>3. ToInt(b) = b
    BY <1>1, <1>4 DEF ToInt
  <2>4. StatBarWidth(wins["main"]) = ToInt(Minus(Minus(w, 3 * x), 2) \div 2)
    BY <1>5 DEF StatBarWidth, w
  <2> QED BY <2>1, <2>2, <2>3, <2>4
<1> HIDE DEF b
<1> QED BY <1>1, <1>2, <1>4, <1>5, <1>6 DEF StatLabelEnd, StatColumn2, BarLabels, w

\* The rows of the clients end above the frame of a window that has room.
LEMMA RowsFit == ASSUME LaidOut PROVE ClientsFit
<1> SUFFICES ASSUME Usable, LINES >= 26
             PROVE  /\ ClientRows(wins["main"]) >= 0
                    /\ ClientsStarty + ClientRows(wins["main"]) <= wins["main"].h - 2
  BY DEF ClientsFit
<1> DEFINE h == wins["main"].h
<1>1. h \in 15 .. MaxSize /\ MaxSize \in Nat
  BY MainSizes
<1>2. ClientRows(wins["main"]) = h - 15
  <2> HIDE DEF h
  <2>1. Minus(h, 2) = h - 2 /\ Minus(h - 2, 13) = h - 15
    BY <1>1 DEF Minus
  <2> QED BY <2>1 DEF ClientRows, ClientsStarty, h
<1> QED BY <1>1, <1>2 DEF ClientsStarty

\* On a usable terminal of any size the dialogs and the Stat page stay inside
\* the main window, wherever helperHandler and tabStateInfoInit draw at all.
THEOREM DrawnContentsFit == LayoutSpec => []ContentsFit
<1>1. LaidOut => ContentsFit
  BY DialogsFit, BarsFit, RowsFit DEF ContentsFit
<1> QED BY <1>1, AlwaysLaidOut, PTL

=============================================================================
