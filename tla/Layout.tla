------------------------------- MODULE Layout -------------------------------
(***************************************************************************)
(* Where the four windows and what is drawn at computed places in the main *)
(* window go, for every size of the terminal: InitWinLayout in             *)
(* src/tui/window.c, the two dialogs of src/tui/mainwindow.c and the bars  *)
(* and client rows of src/tui/stateinfo.c.                                 *)
(*                                                                         *)
(* The layout is kept in uint32_t, COLS and LINES are int: a difference    *)
(* that would be negative wraps, and a wrapped value stored in an int is   *)
(* read back as what its bits say.                                         *)
(***************************************************************************)
EXTENDS Integers

CONSTANTS
    HALF,        \* 2^31, the first value a uint32_t has and an int has not
    MaxSize      \* bound: the largest number of columns and lines

UINT == 2 * HALF

ASSUME WordAssumption == HALF \in Nat /\ MaxSize \in Nat /\ 3 * MaxSize < HALF /\ HALF > 512

VARIABLES COLS, LINES, ctx, wins

layoutVars == <<COLS, LINES, ctx, wins>>

Minus(a, b) == IF a >= b THEN a - b ELSE a - b + UINT    \* uint32_t
ToInt(u)    == IF u < HALF THEN u ELSE u - UINT

WINDOW_DEVICE_HEIGHT == 6
WINDOW_TAB_WIDTH     == 20
WINDOW_STATUS_HEIGH  == 3
DEFAULT_WINDOW_SIZE  == 80
Windows == {"device", "tab", "main", "status"}

-----------------------------------------------------------------------------
(* InitWinLayout                                                           *)

\* four fifths of the terminal, or all but the border if that is too small
Share(size, least) ==
    LET part == (size * DEFAULT_WINDOW_SIZE) \div 100
    IN IF part < least THEN Minus(size, 2) ELSE part

Context(cols, lines) ==
    LET w == Share(cols, 112)
        h == Share(lines, 42)
    IN [width |-> w, height |-> h,
        startx |-> Minus(cols, w) \div 2, starty |-> Minus(lines, h) \div 2]

\* relative to the start of the context, as in struct WindowLayout; a main
\* window as wide as the context is what forgetting the tabs would give
WindowsUnshared(c) ==
    LET middle == Minus(Minus(c.height, WINDOW_DEVICE_HEIGHT), WINDOW_STATUS_HEIGH)
    IN [device |-> [y |-> 0, x |-> 0, h |-> WINDOW_DEVICE_HEIGHT, w |-> c.width],
        tab    |-> [y |-> WINDOW_DEVICE_HEIGHT, x |-> 0, h |-> middle,
                    w |-> WINDOW_TAB_WIDTH],
        main   |-> [y |-> WINDOW_DEVICE_HEIGHT, x |-> WINDOW_TAB_WIDTH, h |-> middle,
                    w |-> c.width],
        status |-> [y |-> Minus(c.height, WINDOW_STATUS_HEIGH), x |-> 0,
                    h |-> WINDOW_STATUS_HEIGH, w |-> c.width]]
Layouts(c) ==
    LET middle == Minus(Minus(c.height, WINDOW_DEVICE_HEIGHT), WINDOW_STATUS_HEIGH)
    IN [device |-> [y |-> 0, x |-> 0, h |-> WINDOW_DEVICE_HEIGHT, w |-> c.width],
        tab    |-> [y |-> WINDOW_DEVICE_HEIGHT, x |-> 0, h |-> middle,
                    w |-> WINDOW_TAB_WIDTH],
        main   |-> [y |-> WINDOW_DEVICE_HEIGHT, x |-> WINDOW_TAB_WIDTH, h |-> middle,
                    w |-> Minus(c.width, WINDOW_TAB_WIDTH)],
        status |-> [y |-> Minus(c.height, WINDOW_STATUS_HEIGH), x |-> 0,
                    h |-> WINDOW_STATUS_HEIGH, w |-> c.width]]

InitWinLayout(cols, lines) ==
    /\ ctx' = Context(cols, lines)
    /\ wins' = Layouts(Context(cols, lines))

LayoutInit ==
    /\ COLS \in 1 .. MaxSize /\ LINES \in 1 .. MaxSize
    /\ ctx = Context(COLS, LINES) /\ wins = Layouts(Context(COLS, LINES))

\* the terminal is dragged to another size and a KEY_RESIZE handled
Resize ==
    /\ COLS' \in {COLS - 1, COLS, COLS + 1} \cap (1 .. MaxSize)
    /\ LINES' \in {LINES - 1, LINES, LINES + 1} \cap (1 .. MaxSize)
    /\ InitWinLayout(COLS', LINES')

LayoutSpec == LayoutInit /\ [][Resize]_layoutVars

-----------------------------------------------------------------------------
(* helperHandler and exitProgram in the main window                        *)

HelpLines == 16                       \* ARRAY_SIZE(helper_str)
HelpWidth == 28                       \* the longest of them

\* the subtraction is done in size_t, and halved before it is cut to an int
HelpStarty(h) ==
    IF h >= HelpLines THEN ToInt((h - HelpLines) \div 2) ELSE -((HelpLines - h + 1) \div 2)

\* the subtraction is done in uint32_t: halved, it is an int again
HelpStartx(w) == ToInt(Minus(Minus(w, HelpWidth), 2) \div 2)

HelpOpens(win) == ~(HelpStartx(win.w) < 0 \/ HelpStarty(win.h) < 0)

HelpText(win) ==
    [y |-> HelpStarty(win.h), x |-> HelpStartx(win.w), h |-> HelpLines, w |-> HelpWidth]

PromptText(win) ==
    [y |-> ToInt(Minus(Minus(win.h, 5), 2) \div 2) + 1,
     x |-> ToInt(Minus(Minus(win.w, 35), 2) \div 2) + 1, h |-> 4, w |-> 33]

-----------------------------------------------------------------------------
(* tabStateInfoInit: two columns of bars, then one row per client          *)

StatStartx(win)   == ToInt(win.w \div 20)

\* the bug of bars that are given the margins between them
StatBarWidthMarginless(win) == ToInt(Minus(win.w, StatStartx(win)) \div 2)
StatBarWidth(win) ==
    ToInt(Minus(Minus(win.w, 3 * StatStartx(win)), 2) \div 2)

BarLabels == 28                       \* the texts around a bar

\* the page is drawn, not refused as "Window Tool Small"
StatDrawn(win) == ~(StatBarWidth(win) < 0 \/ StatBarWidth(win) - BarLabels < 0)

StatColumn2(win) == StatStartx(win) + StatBarWidth(win) + StatStartx(win)
StatLabelEnd(win, column) == column + 8 + (StatBarWidth(win) - BarLabels) + 1 + 18

ClientsStarty == 13
ClientRows(win) == Minus(Minus(win.h, 2), ClientsStarty)

-----------------------------------------------------------------------------
(* Properties                                                              *)

\* the least terminal that leaves every window a cell
Usable == COLS >= 23 /\ LINES >= 12

Inside(r, h, w) == r.y >= 0 /\ r.x >= 0 /\ r.y + r.h <= h /\ r.x + r.w <= w
Apart(r, s) == \/ r.y + r.h <= s.y \/ s.y + s.h <= r.y
               \/ r.x + r.w <= s.x \/ s.x + s.w <= r.x
Area(r) == r.h * r.w

\* On a usable terminal the windows lie within the context without overlap,
\* none is empty, and the border drawn around them is on the terminal.  They
\* leave no cell of the context uncovered, where the screen would keep what was
\* there before.
WindowsFit ==
    Usable =>
        /\ \A n \in Windows : /\ wins[n].h > 0 /\ wins[n].w > 0
                              /\ Inside(wins[n], ctx.height, ctx.width)
        /\ \A m, n \in Windows : m # n => Apart(wins[m], wins[n])
        /\ ctx.startx >= 1 /\ ctx.startx + ctx.width + 1 <= COLS
        /\ ctx.starty >= 1 /\ ctx.starty + ctx.height + 1 <= LINES
        /\ Area(wins["device"]) + Area(wins["tab"]) + Area(wins["main"])
             + Area(wins["status"]) = ctx.height * ctx.width

\* From 52 columns on the help opens exactly when its text fits the window.
HelpFits ==
    Usable /\ COLS >= 52 =>
        (HelpOpens(wins["main"])
            <=> Inside(HelpText(wins["main"]), wins["main"].h, wins["main"].w))

\* The exit prompt, which has no guard, is readable from 59 by 18 on.
PromptFits ==
    COLS >= 59 /\ LINES >= 18 =>
        Inside(PromptText(wins["main"]), wins["main"].h, wins["main"].w)

\* Where the Stat page is drawn both columns of bars and their labels fit, in
\* a main window of at least two columns (of one, its bars' width wraps).
StatBarsFit ==
    Usable /\ COLS >= 24 /\ StatDrawn(wins["main"]) =>
        /\ StatLabelEnd(wins["main"], StatStartx(wins["main"])) <= StatColumn2(wins["main"])
        /\ StatLabelEnd(wins["main"], StatColumn2(wins["main"])) <= wins["main"].w - 2

\* From 26 lines on the rows of the clients end above the frame; below, the
\* page is drawn as well, but the rows begin behind it.
ClientsFit ==
    Usable /\ LINES >= 26 =>
        /\ ClientRows(wins["main"]) >= 0
        /\ ClientsStarty + ClientRows(wins["main"]) <= wins["main"].h - 2

\* What is drawn in the main window stays in it: the help (helperHandler), the
\* exit prompt (exitProgram), the bars and the clients of the Stat page
\* (tabStateInfoInit).
ContentsFit == HelpFits /\ PromptFits /\ StatBarsFit /\ ClientsFit

=============================================================================
