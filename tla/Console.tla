------------------------------- MODULE Console -------------------------------
(***************************************************************************)
(* The text console of HelloOS (kernel/printk/printk.c: clear_screen and   *)
(* print) as it is really used: by the code that runs outside interrupts   *)
(* (kernel_start, then the init thread, then the user function; one at a   *)
(* time) and by do_IRQ, which prints from the interrupt handler.           *)
(*                                                                         *)
(* print keeps its position in the global cursor and takes no lock and     *)
(* does not disable interrupts.  The kernel is compiled without            *)
(* optimisation, so every read and every write of cursor.x and cursor.y    *)
(* is a separate access: one action each.  The handler runs with           *)
(* interrupts off (interrupt gates), so it prints each character in one    *)
(* step and the interrupted code stands still until it is done.            *)
(*                                                                         *)
(* Abstractions.  A character is a newline, a tab or a glyph.  A row of    *)
(* video memory is the set of columns that hold a glyph; row MAX_ROW is    *)
(* the memory just below the visible screen.  Colours are left out.        *)
(***************************************************************************)
EXTENDS Integers, Sequences

CONSTANTS
  MAX_ROW,     \* rows on the screen (25)
  MAX_COLUMN,  \* columns on the screen (80)
  TAB,         \* columns a tab advances (4)
  IrqTexts,    \* what do_IRQ prints, one text per kind of interrupt
  MaxX,        \* bound: no tab is printed when cursor.x has reached it
  MaxY         \* bound: no newline is printed when cursor.y has reached it

ASSUME ScreenAssumption == /\ MAX_ROW \in Nat \ {0}
                           /\ MAX_COLUMN \in Nat /\ MAX_COLUMN >= 2
                           /\ TAB \in Nat
ASSUME BoundsAssumption == MaxX \in Nat /\ MaxY \in Nat

\* Every text of do_IRQ ends with kinfo("\ncode: %x\n", nr).
ASSUME IrqTextAssumption ==
  \A t \in IrqTexts : /\ t \in Seq({"glyph", "nl"})
                      /\ Len(t) >= 2
                      /\ t[Len(t)] = "nl"
                      /\ t[Len(t) - 1] = "glyph"

VARIABLES
  x, y,      \* cursor.x, cursor.y
  screen,    \* video memory
  pc,        \* where the interrupted code is inside print
  rx, ry,    \* the registers cursor.x and cursor.y are loaded into
  row,       \* the row strncpy is copying
  intr,      \* RFLAGS.IF of the interrupted code
  isr, pos   \* the text do_IRQ is printing (<<>> = no handler runs) and how far

cursor == <<x, y>>
vars == <<x, y, screen, pc, rx, ry, row, intr, isr, pos>>

Rows == 0 .. MAX_ROW
Columns == 0 .. MAX_COLUMN - 1
LastColumn == MAX_COLUMN - 1        \* print wraps in front of this column

\* The code outside interrupts moves from one point of print to the next.
Goto(from, to) == isr = <<>> /\ pc = from /\ pc' = to

NoInterrupt == UNCHANGED <<intr, isr, pos>>

Init ==
  /\ x = 0 /\ y = 0
  /\ screen = [r \in Rows |-> Columns]          \* what the firmware left
  /\ pc = "start"
  /\ rx = 0 /\ ry = 0 /\ row = 0
  /\ intr = FALSE                               \* cli in multiboot_entry
  /\ isr = <<>> /\ pos = 1

\* i <= MAX_ROW*MAX_COLUMN: one cell more than the screen has
clear_screen ==
  /\ Goto("start", "idle")
  /\ screen' = [r \in Rows |-> IF r = MAX_ROW THEN screen[r] \ {0} ELSE {}]
  /\ x' = 0 /\ y' = 0
  /\ UNCHANGED <<rx, ry, row>> /\ NoInterrupt

\* init_interrupt ends with sti()
sti ==
  /\ isr = <<>> /\ pc = "idle" /\ ~intr
  /\ intr' = TRUE
  /\ UNCHANGED <<x, y, screen, pc, rx, ry, row, isr, pos>>

-----------------------------------------------------------------------------
(* One character of print, access by access.                               *)

FetchNewline == /\ Goto("idle", "nl_x") /\ y < MaxY
                /\ UNCHANGED <<cursor, screen, rx, ry, row>> /\ NoInterrupt
FetchTab     == /\ Goto("idle", "tab_load") /\ x < MaxX
                /\ UNCHANGED <<cursor, screen, rx, ry, row>> /\ NoInterrupt
FetchGlyph   == /\ Goto("idle", "check_column")
                /\ UNCHANGED <<cursor, screen, rx, ry, row>> /\ NoInterrupt

\* cursor.x = 0; cursor.y++, for a newline and for a wrap
StartOfLine(from, to) ==
  /\ Goto(from, to) /\ x' = 0
  /\ UNCHANGED <<y, screen, rx, ry, row>> /\ NoInterrupt
LoadY(from, to) ==
  /\ Goto(from, to) /\ ry' = y
  /\ UNCHANGED <<cursor, screen, rx, row>> /\ NoInterrupt
StoreY(from, to) ==
  /\ Goto(from, to) /\ y' = ry + 1 /\ ry' = 0
  /\ UNCHANGED <<x, screen, rx, row>> /\ NoInterrupt
LoadX(from, to) ==
  /\ Goto(from, to) /\ rx' = x
  /\ UNCHANGED <<cursor, screen, ry, row>> /\ NoInterrupt
StoreX(from, to, step) ==
  /\ Goto(from, to) /\ x' = rx + step /\ rx' = 0
  /\ UNCHANGED <<y, screen, ry, row>> /\ NoInterrupt

Newline == \/ StartOfLine("nl_x", "nl_load")
           \/ LoadY("nl_load", "nl_store")
           \/ StoreY("nl_store", "idle")

Tab == \/ LoadX("tab_load", "tab_store")
       \/ StoreX("tab_store", "idle", TAB)

\* Faulty variant of MustWrap: the comparison lets one more column through.
MustWrap_Late(column) == column > LastColumn

MustWrap(column) == column >= LastColumn

CheckColumn ==
  /\ Goto("check_column", IF MustWrap(x) THEN "wrap_x" ELSE "check_row")
  /\ UNCHANGED <<cursor, screen, rx, ry, row>> /\ NoInterrupt

Wrap == \/ StartOfLine("wrap_x", "wrap_load")
        \/ LoadY("wrap_load", "wrap_store")
        \/ StoreY("wrap_store", "check_row")

\* Faulty variant of MustScroll: the comparison lets one more row through.
MustScroll_Late(line) == line > MAX_ROW

MustScroll(line) == line >= MAX_ROW

CheckRow ==
  /\ Goto("check_row", IF MustScroll(y) THEN "scroll" ELSE "ptr_y")
  /\ UNCHANGED <<cursor, screen, rx, ry, row>> /\ NoInterrupt

\* strncpy(VGA_BASE, VGA_BASE + MAX_COLUMN*2, (MAX_ROW-1)*MAX_COLUMN*2)
CopyRow ==
  /\ row < MAX_ROW - 1
  /\ Goto("scroll", "scroll")
  /\ screen' = [screen EXCEPT ![row] = screen[row + 1]]
  /\ row' = row + 1
  /\ UNCHANGED <<cursor, rx, ry>> /\ NoInterrupt

\* Faulty variant of CopyDone: the next scroll starts where this one stopped.
CopyDone_NoReset ==
  /\ row >= MAX_ROW - 1
  /\ Goto("scroll", "scroll_x")
  /\ row' = row + 1
  /\ UNCHANGED <<cursor, screen, rx, ry>> /\ NoInterrupt

CopyDone ==
  /\ row >= MAX_ROW - 1
  /\ Goto("scroll", "scroll_x")
  /\ row' = 0
  /\ UNCHANGED <<cursor, screen, rx, ry>> /\ NoInterrupt

ScrollY ==
  /\ Goto("scroll_y", "scroll_clear")
  /\ y' = MAX_ROW - 1
  /\ UNCHANGED <<x, screen, rx, ry, row>> /\ NoInterrupt

\* Faulty variant of Cleared: the memset is missing.
Cleared_Not(scr) == scr

\* memset of the last row
Cleared(scr) == [scr EXCEPT ![MAX_ROW - 1] = {}]

ClearRow ==
  /\ Goto("scroll_clear", "ptr_y")
  /\ screen' = Cleared(screen)
  /\ UNCHANGED <<cursor, rx, ry, row>> /\ NoInterrupt

Scroll == \/ CopyRow \/ CopyDone
          \/ StartOfLine("scroll_x", "scroll_y")
          \/ ScrollY \/ ClearRow

\* *p = ..., at the position that was read from the cursor
PutGlyph ==
  /\ Goto("store", "inc_load")
  /\ screen' = [screen EXCEPT ![ry] = @ \cup {rx}]
  /\ rx' = 0 /\ ry' = 0
  /\ UNCHANGED <<cursor, row>> /\ NoInterrupt

Glyph == \/ CheckColumn \/ Wrap \/ CheckRow \/ Scroll
         \/ LoadY("ptr_y", "ptr_x")
         \/ LoadX("ptr_x", "store")
         \/ PutGlyph
         \/ LoadX("inc_load", "inc_store")
         \/ StoreX("inc_store", "idle", 1)

-----------------------------------------------------------------------------
(* The interrupt handler: the same print, undisturbed.                     *)

Interrupt ==
  /\ intr /\ isr = <<>>
  /\ isr' \in IrqTexts
  /\ pos' = 1
  /\ UNCHANGED <<x, y, screen, pc, rx, ry, row, intr>>

Scrolled(scr) ==
  Cleared([r \in Rows |-> IF r < MAX_ROW - 1 THEN scr[r + 1] ELSE scr[r]])

IsrNewline == x' = 0 /\ y' = y + 1 /\ UNCHANGED screen

IsrGlyph ==
  LET line == IF MustWrap(x) THEN y + 1 ELSE y
      col  == IF MustWrap(x) \/ MustScroll(line) THEN 0 ELSE x
      last == IF MustScroll(line) THEN MAX_ROW - 1 ELSE line
      scr  == IF MustScroll(line) THEN Scrolled(screen) ELSE screen
  IN  /\ screen' = [scr EXCEPT ![last] = @ \cup {col}]
      /\ x' = col + 1
      /\ y' = last

\* the next character; after the last one ret_from_intr resumes the code
IsrChar ==
  /\ isr # <<>>
  /\ IF isr[pos] = "nl" THEN IsrNewline ELSE IsrGlyph
  /\ IF pos < Len(isr) THEN pos' = pos + 1 /\ UNCHANGED isr
                       ELSE pos' = 1 /\ isr' = <<>>
  /\ UNCHANGED <<pc, rx, ry, row, intr>>

Next == \/ clear_screen \/ sti
        \/ FetchNewline \/ FetchTab \/ FetchGlyph
        \/ Newline \/ Tab \/ Glyph
        \/ Interrupt \/ IsrChar

Spec == Init /\ [][Next]_vars

-----------------------------------------------------------------------------
(* Properties.                                                             *)

Points == {"start", "idle", "nl_x", "nl_load", "nl_store", "tab_load",
           "tab_store", "check_column", "wrap_x", "wrap_load", "wrap_store",
           "check_row", "scroll", "scroll_x", "scroll_y", "scroll_clear",
           "ptr_y", "ptr_x", "store", "inc_load", "inc_store"}

\* Types of the cursor, the registers and the handler's progress.
TypeOK ==
  /\ x \in Nat /\ y \in Nat /\ rx \in Nat /\ ry \in Nat
  /\ screen \in [Rows -> SUBSET Nat]
  /\ pc \in Points
  /\ row \in 0 .. MAX_ROW - 1
  /\ intr \in BOOLEAN
  /\ isr \in IrqTexts \cup {<<>>}
  /\ pos \in Nat \ {0}
  /\ isr # <<>> => pos <= Len(isr)

\* However interrupts fall between the checks of print and the store that
\* relies on them, no glyph is stored beyond the row that follows the screen
\* nor in the last column: the store stays inside the VGA text buffer.
StoreInBuffer == pc = "store" => ry <= MAX_ROW /\ rx < LastColumn

\* The handler, which nothing interrupts, leaves the cursor at the start of a
\* line at most one below the screen, whatever point of print it interrupted.
HandlerParksCursor ==
  [][isr # <<>> /\ isr' = <<>> => x' = 0 /\ y' \in 1 .. MAX_ROW]_vars

\* Before interrupts are enabled, between characters the screen is blank to
\* the right of the cursor and below it: newlines, tabs, wraps and scrolls
\* never leave old text (the firmware's included) where print goes next.
BlankAhead ==
  ~intr /\ pc = "idle" =>
    \A r \in 0 .. MAX_ROW - 1 :
      /\ r > y => screen[r] = {}
      /\ r = y => \A c \in screen[r] : c < x
=============================================================================
