---------------------------- MODULE ConsoleProofs ----------------------------
(***************************************************************************)
(* Proofs about Console, for every screen size, tab width and set of       *)
(* handler texts that satisfies the assumptions of Console.                *)
(***************************************************************************)
EXTENDS Console, TLAPS

\* What print has in its registers once it has computed the pointer.
Registers ==
  /\ pc \in {"ptr_x", "store"} => ry <= MAX_ROW
  /\ pc = "store" => rx < LastColumn

\* What the two checks of print established about the cursor, and what is
\* left of it when a handler has run in between: the handler's last newline
\* moves the cursor to column 0, at most one row below the screen.
AfterColumnCheck == {"wrap_load", "wrap_store", "check_row", "scroll",
                     "scroll_x", "scroll_y", "scroll_clear", "ptr_y", "ptr_x"}
Checked ==
  isr = <<>> =>
    /\ pc \in AfterColumnCheck => x < LastColumn
    /\ pc \in {"scroll_clear", "ptr_y"} => y <= MAX_ROW

\* A glyph printed by the handler leaves the cursor on the screen.
AfterGlyph == isr # <<>> /\ pos > 1 /\ isr[pos - 1] = "glyph" => y < MAX_ROW

Safe == TypeOK /\ Registers /\ Checked /\ AfterGlyph

-----------------------------------------------------------------------------
(* The inductive invariant behind BlankAhead: what print knows at each of  *)
(* its points while nothing interrupts it.                                 *)

OnScreen == 0 .. MAX_ROW - 1
BlankBelow == \A r \in OnScreen : r > y => screen[r] = {}
BlankRight == \A r \in OnScreen : r = y => \A c \in screen[r] : c < x
JustStored == \A r \in OnScreen : r = y => \A c \in screen[r] : c <= x

BlankAt ==
  /\ isr = <<>>
  /\ pc \notin {"start", "scroll", "scroll_x", "scroll_y", "scroll_clear"}
       => BlankBelow
  /\ pc \in {"idle", "nl_x", "tab_load", "tab_store", "check_column",
             "check_row", "ptr_y", "ptr_x", "store"} => BlankRight
  /\ pc \in {"inc_load", "inc_store"} => JustStored
  /\ pc \in {"nl_load", "nl_store", "wrap_load", "wrap_store"} => x = 0
  /\ pc \in {"nl_store", "wrap_store", "ptr_x", "store"} => ry = y
  /\ pc \in {"tab_store", "store", "inc_store"} => rx = x
  /\ pc \in {"scroll_y", "scroll_clear"} => x = 0
  /\ pc = "scroll_clear" => y = MAX_ROW - 1

Quiet == ~intr => BlankAt

IInv == Safe /\ Quiet

-----------------------------------------------------------------------------
(* A step of the interrupted code, and a step of the handler.              *)

ThreadStep == \/ clear_screen \/ sti
              \/ FetchNewline \/ FetchTab \/ FetchGlyph
              \/ Newline \/ Tab \/ Glyph

\* print starts safe.
LEMMA InitSafe == Init => Safe
<1> SUFFICES ASSUME Init PROVE Safe
  OBVIOUS
<1>1. screen \in [Rows -> SUBSET Nat]
  BY ScreenAssumption DEF Init, Rows, Columns
<1>2. pc \in Points /\ intr \in BOOLEAN /\ isr \in IrqTexts \cup {<<>>}
  BY Zenon DEF Init, Points
<1>3. row \in 0 .. MAX_ROW - 1
  BY ScreenAssumption DEF Init
<1>4. TypeOK
  BY <1>1, <1>2, <1>3 DEF Init, TypeOK
<1>5. Registers /\ Checked /\ AfterGlyph
  BY DEF Init, Registers, Checked, AfterGlyph, AfterColumnCheck
<1>6. QED
  BY <1>4, <1>5 DEF Safe

\* Every access of print keeps Safe: one case per access.
LEMMA ThreadSafe == ASSUME Safe, ThreadStep PROVE Safe'
<1> USE ScreenAssumption, IrqTextAssumption
<1> USE DEF Safe, TypeOK, Registers, Checked, AfterGlyph, AfterColumnCheck,
            Points, Goto, NoInterrupt, cursor, LastColumn, Rows, Columns
<1>1. CASE clear_screen
  BY <1>1 DEF clear_screen
<1>2. CASE sti
  BY <1>2 DEF sti
<1>3. CASE FetchNewline
  BY <1>3 DEF FetchNewline
<1>4. CASE FetchTab
  BY <1>4 DEF FetchTab
<1>5. CASE FetchGlyph
  BY <1>5 DEF FetchGlyph
<1>6. CASE StartOfLine("nl_x", "nl_load")
  BY <1>6 DEF StartOfLine
<1>7. CASE LoadY("nl_load", "nl_store")
  BY <1>7 DEF LoadY
<1>8. CASE StoreY("nl_store", "idle")
  BY <1>8 DEF StoreY
<1>9. CASE LoadX("tab_load", "tab_store")
  BY <1>9 DEF LoadX
<1>10. CASE StoreX("tab_store", "idle", TAB)
  BY <1>10 DEF StoreX
<1>11. CASE CheckColumn
  BY <1>11 DEF CheckColumn, MustWrap
<1>12. CASE StartOfLine("wrap_x", "wrap_load")
  BY <1>12 DEF StartOfLine
<1>13. CASE LoadY("wrap_load", "wrap_store")
  BY <1>13 DEF LoadY
<1>14. CASE StoreY("wrap_store", "check_row")
  BY <1>14 DEF StoreY
<1>15. CASE CheckRow
  BY <1>15 DEF CheckRow, MustScroll
<1>16. CASE CopyRow
  BY <1>16 DEF CopyRow
<1>17. CASE CopyDone
  BY <1>17 DEF CopyDone
<1>18. CASE StartOfLine("scroll_x", "scroll_y")
  BY <1>18 DEF StartOfLine
<1>19. CASE ScrollY
  BY <1>19 DEF ScrollY
<1>20. CASE ClearRow
  BY <1>20 DEF ClearRow, Cleared
<1>21. CASE LoadY("ptr_y", "ptr_x")
  BY <1>21 DEF LoadY
<1>22. CASE LoadX("ptr_x", "store")
  BY <1>22 DEF LoadX
<1>23. CASE PutGlyph
  BY <1>23 DEF PutGlyph
<1>24. CASE LoadX("inc_load", "inc_store")
  BY <1>24 DEF LoadX
<1>25. CASE StoreX("inc_store", "idle", 1)
  BY <1>25 DEF StoreX
<1>26. QED
  BY <1>1, <1>2, <1>3, <1>4, <1>5, <1>6, <1>7, <1>8, <1>9, <1>10, <1>11,
     <1>12, <1>13, <1>14, <1>15, <1>16, <1>17, <1>18, <1>19, <1>20, <1>21,
     <1>22, <1>23, <1>24, <1>25
  DEF ThreadStep, Newline, Tab, Glyph, Wrap, Scroll

\* The arrival of an interrupt keeps Safe: the handler starts at its first
\* character.
LEMMA InterruptSafe == ASSUME Safe, Interrupt PROVE Safe'
BY IrqTextAssumption
DEF Safe, TypeOK, Registers, Checked, AfterGlyph, Interrupt

\* Where a glyph of the handler leaves the cursor and the screen.
LEMMA IsrGlyphFacts ==
  ASSUME TypeOK, IsrGlyph
  PROVE  /\ x' \in Nat /\ y' \in Nat /\ y' < MAX_ROW
         /\ screen' \in [Rows -> SUBSET Nat]
<1> USE ScreenAssumption
<1> DEFINE line == IF MustWrap(x) THEN y + 1 ELSE y
           col  == IF MustWrap(x) \/ MustScroll(line) THEN 0 ELSE x
           last == IF MustScroll(line) THEN MAX_ROW - 1 ELSE line
           scr  == IF MustScroll(line) THEN Scrolled(screen) ELSE screen
<1>1. line \in Nat /\ col \in Nat /\ last \in 0 .. MAX_ROW - 1
  BY DEF TypeOK, MustScroll
<1>2. Scrolled(screen) \in [Rows -> SUBSET Nat]
  <2> DEFINE up == [r \in Rows |-> IF r < MAX_ROW - 1 THEN screen[r + 1]
                                                    ELSE screen[r]]
  <2>1. \A r \in Rows : (IF r < MAX_ROW - 1 THEN screen[r + 1]
                                           ELSE screen[r]) \in SUBSET Nat
    BY DEF TypeOK, Rows
  <2>2. up \in [Rows -> SUBSET Nat]
    BY <2>1
  <2> HIDE DEF up
  <2>3. [up EXCEPT ![MAX_ROW - 1] = {}] \in [Rows -> SUBSET Nat]
    BY <2>2
  <2>4. QED
    BY <2>3 DEF Scrolled, Cleared, up
<1>3. scr \in [Rows -> SUBSET Nat]
  BY <1>2 DEF TypeOK
<1>4. /\ screen' = [scr EXCEPT ![last] = @ \cup {col}]
      /\ x' = col + 1 /\ y' = last
  BY DEF IsrGlyph
<1> HIDE DEF line, col, last, scr
<1>5. scr[last] \cup {col} \in SUBSET Nat
  BY <1>1, <1>3 DEF Rows
<1>6. screen' \in [Rows -> SUBSET Nat]
  BY <1>3, <1>4, <1>5
<1>7. QED
  BY <1>1, <1>4, <1>6

\* A character of the handler keeps Safe; the last one, a newline after a
\* glyph, parks the cursor where Checked allows it.
LEMMA IsrCharSafe ==
  ASSUME Safe, IsrChar
  PROVE  /\ Safe'
         /\ isr' = <<>> => x' = 0 /\ y' \in 1 .. MAX_ROW
<1> USE ScreenAssumption
<1>1. /\ isr \in IrqTexts /\ pos \in 1 .. Len(isr) /\ Len(isr) \in Nat
      /\ Len(isr) >= 2 /\ isr[Len(isr)] = "nl" /\ isr[Len(isr) - 1] = "glyph"
      /\ isr \in Seq({"glyph", "nl"})
  BY IrqTextAssumption DEF Safe, TypeOK, IsrChar
<1>2. isr[pos] \in {"glyph", "nl"}
  BY <1>1
<1>3. CASE isr[pos] = "nl"
  <2>1. x' = 0 /\ y' = y + 1 /\ screen' = screen
    BY <1>3 DEF IsrChar, IsrNewline
  <2>2. CASE pos < Len(isr)
    <3>1. pos' = pos + 1 /\ isr' = isr
      BY <2>2 DEF IsrChar
    <3>2. QED
      BY <1>1, <1>3, <2>1, <2>2, <3>1
      DEF Safe, TypeOK, Registers, Checked, AfterGlyph, IsrChar
  <2>3. CASE pos = Len(isr)
    <3>1. pos' = 1 /\ isr' = <<>>
      BY <2>3, <1>1 DEF IsrChar
    <3>2. y < MAX_ROW
      BY <1>1, <2>3 DEF Safe, AfterGlyph, IsrChar
    <3>3. x' = 0 /\ y' \in 1 .. MAX_ROW
      BY <2>1, <3>2 DEF Safe, TypeOK
    <3>4. QED
      BY <1>1, <2>1, <3>1, <3>3
      DEF Safe, TypeOK, Registers, Checked, AfterGlyph, IsrChar, LastColumn
  <2>4. QED
    BY <1>1, <2>2, <2>3
<1>4. CASE isr[pos] = "glyph"
  <2>1. /\ x' \in Nat /\ y' \in Nat /\ y' < MAX_ROW
        /\ screen' \in [Rows -> SUBSET Nat]
    BY <1>4, IsrGlyphFacts DEF Safe, IsrChar
  <2>2. pos < Len(isr) /\ pos' = pos + 1 /\ isr' = isr
    BY <1>1, <1>4 DEF IsrChar
  <2>3. QED
    BY <1>1, <2>1, <2>2
    DEF Safe, TypeOK, Registers, Checked, AfterGlyph, IsrChar
<1>5. QED
  BY <1>2, <1>3, <1>4

\* Safe is inductive.
LEMMA NextSafe == Safe /\ [Next]_vars => Safe'
<1> SUFFICES ASSUME Safe, [Next]_vars PROVE Safe'
  OBVIOUS
<1>1. CASE ThreadStep
  BY <1>1, ThreadSafe
<1>2. CASE Interrupt
  BY <1>2, InterruptSafe
<1>3. CASE IsrChar
  BY <1>3, IsrCharSafe
<1>4. CASE UNCHANGED vars
  BY <1>4
  DEF vars, Safe, TypeOK, Registers, Checked, AfterGlyph
<1>5. QED
  BY <1>1, <1>2, <1>3, <1>4 DEF Next, ThreadStep

\* Safe holds in every state of every behaviour.
LEMMA AlwaysSafe == Spec => []Safe
BY InitSafe, NextSafe, PTL DEF Spec

\* The cursor, the registers and the handler's progress keep their types for
\* every screen size and every text of do_IRQ.
THEOREM Typed == Spec => []TypeOK
<1>1. Safe => TypeOK
  BY DEF Safe
<1>2. QED
  BY <1>1, AlwaysSafe, PTL

\* print never stores outside the screen and the row below it, whatever
\* interrupts arrive between its checks and its store.
THEOREM StoresStayInBuffer == Spec => []StoreInBuffer
<1>1. Safe => StoreInBuffer
  BY DEF Safe, Registers, StoreInBuffer
<1>2. QED
  BY <1>1, AlwaysSafe, PTL

\* Every handler that ends leaves the cursor at column 0 of row 1..MAX_ROW.
THEOREM HandlersParkCursor == Spec => HandlerParksCursor
<1>1. Safe /\ [Next]_vars
        => [isr # <<>> /\ isr' = <<>> => x' = 0 /\ y' \in 1 .. MAX_ROW]_vars
  <2> SUFFICES ASSUME Safe, Next, isr # <<>>, isr' = <<>>
               PROVE  x' = 0 /\ y' \in 1 .. MAX_ROW
    BY DEF vars
  <2>1. IsrChar
    BY DEF Next, Newline, Tab, Glyph, Wrap, Scroll, clear_screen, sti,
           FetchNewline, FetchTab, FetchGlyph, StartOfLine, LoadX, LoadY,
           StoreX, StoreY, CheckColumn, CheckRow, CopyRow, CopyDone, ScrollY,
           ClearRow, PutGlyph, Interrupt, Goto
  <2>2. QED
    BY <2>1, IsrCharSafe
<1>2. QED
  BY <1>1, AlwaysSafe, PTL DEF Spec, HandlerParksCursor

-----------------------------------------------------------------------------
(* Nothing old is left ahead of the cursor.                                *)

\* Every access of print keeps Quiet, given Safe.
LEMMA ThreadQuiet == ASSUME Safe, Quiet, ThreadStep PROVE Quiet'
<1> SUFFICES ASSUME ~intr' PROVE BlankAt'
  BY DEF Quiet
<1>0. ~intr /\ BlankAt
  BY DEF Quiet, ThreadStep, Newline, Tab, Glyph, Wrap, Scroll, clear_screen,
         sti, FetchNewline, FetchTab, FetchGlyph, StartOfLine, LoadX, LoadY,
         StoreX, StoreY, CheckColumn, CheckRow, CopyRow, CopyDone, ScrollY,
         ClearRow, PutGlyph, NoInterrupt
<1> USE <1>0, ScreenAssumption
<1> USE DEF Safe, TypeOK, BlankAt, BlankBelow, BlankRight, JustStored,
            OnScreen, Goto, NoInterrupt, cursor, Rows
<1>1. CASE clear_screen
  BY <1>1 DEF clear_screen
<1>2. CASE sti
  BY <1>2 DEF sti
<1>3. CASE FetchNewline
  BY <1>3 DEF FetchNewline
<1>4. CASE FetchTab
  BY <1>4 DEF FetchTab
<1>5. CASE FetchGlyph
  BY <1>5 DEF FetchGlyph
<1>6. CASE StartOfLine("nl_x", "nl_load")
  BY <1>6 DEF StartOfLine
<1>7. CASE LoadY("nl_load", "nl_store")
  BY <1>7 DEF LoadY
<1>8. CASE StoreY("nl_store", "idle")
  BY <1>8 DEF StoreY
<1>9. CASE LoadX("tab_load", "tab_store")
  BY <1>9 DEF LoadX
<1>10. CASE StoreX("tab_store", "idle", TAB)
  BY <1>10 DEF StoreX
<1>11. CASE CheckColumn
  BY <1>11 DEF CheckColumn, MustWrap
<1>12. CASE StartOfLine("wrap_x", "wrap_load")
  BY <1>12 DEF StartOfLine
<1>13. CASE LoadY("wrap_load", "wrap_store")
  BY <1>13 DEF LoadY
<1>14. CASE StoreY("wrap_store", "check_row")
  BY <1>14 DEF StoreY
<1>15. CASE CheckRow
  BY <1>15 DEF CheckRow, MustScroll
<1>16. CASE CopyRow
  BY <1>16 DEF CopyRow
<1>17. CASE CopyDone
  BY <1>17 DEF CopyDone
<1>18. CASE StartOfLine("scroll_x", "scroll_y")
  BY <1>18 DEF StartOfLine
<1>19. CASE ScrollY
  BY <1>19 DEF ScrollY
<1>20. CASE ClearRow
  BY <1>20 DEF ClearRow, Cleared
<1>21. CASE LoadY("ptr_y", "ptr_x")
  BY <1>21 DEF LoadY
<1>22. CASE LoadX("ptr_x", "store")
  BY <1>22 DEF LoadX
<1>23. CASE PutGlyph
  BY <1>23 DEF PutGlyph
<1>24. CASE LoadX("inc_load", "inc_store")
  BY <1>24 DEF LoadX
<1>25. CASE StoreX("inc_store", "idle", 1)
  BY <1>25 DEF StoreX
<1>26. QED
  BY <1>1, <1>2, <1>3, <1>4, <1>5, <1>6, <1>7, <1>8, <1>9, <1>10, <1>11,
     <1>12, <1>13, <1>14, <1>15, <1>16, <1>17, <1>18, <1>19, <1>20, <1>21,
     <1>22, <1>23, <1>24, <1>25
  DEF ThreadStep, Newline, Tab, Glyph, Wrap, Scroll

\* Quiet holds before clear_screen.
LEMMA InitQuiet == Init => Quiet
BY DEF Init, Quiet, BlankAt

\* Quiet is inductive relative to Safe: the handler never runs while
\* interrupts are off.
LEMMA NextQuiet == Safe /\ Quiet /\ [Next]_vars => Quiet'
<1> SUFFICES ASSUME Safe, Quiet, [Next]_vars PROVE Quiet'
  OBVIOUS
<1>1. CASE ThreadStep
  BY <1>1, ThreadQuiet
<1>2. CASE Interrupt
  BY <1>2 DEF Interrupt, Quiet
<1>3. CASE IsrChar
  BY <1>3 DEF IsrChar, Quiet, BlankAt
<1>4. CASE UNCHANGED vars
  BY <1>4 DEF vars, Quiet, BlankAt, BlankBelow, BlankRight, JustStored
<1>5. QED
  BY <1>1, <1>2, <1>3, <1>4 DEF Next, ThreadStep

\* Until interrupts are enabled the screen is blank ahead of the cursor
\* whenever print is between two characters.
THEOREM ScreenBlankAhead == Spec => []BlankAhead
<1>1. Init => IInv
  BY InitSafe, InitQuiet DEF IInv
<1>2. IInv /\ [Next]_vars => IInv'
  BY NextSafe, NextQuiet DEF IInv
<1>3. IInv => BlankAhead
  BY DEF IInv, Quiet, BlankAt, BlankBelow, BlankRight, OnScreen, BlankAhead
<1>4. QED
  BY <1>1, <1>2, <1>3, PTL DEF Spec
=============================================================================
