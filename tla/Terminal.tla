------------------------------ MODULE Terminal ------------------------------
(***************************************************************************)
(* The screen of the terminal emulator: terminal_context in                *)
(* entry/src/main/cpp/terminal.{h,cpp}.  One action per control function   *)
(* that Parse and HandleCSI dispatch, plus the window's ResizeTo and the   *)
(* notice the worker prints when the child program exits.                  *)
(*                                                                         *)
(* A step is one control function: Parse runs with the lock held, and the  *)
(* lock is free between two bytes whenever a read returned the first and   *)
(* not yet the second, so a resize can come between any two functions.     *)
(*                                                                         *)
(* Abstractions.  A cell is what the functions tell apart: blank, a narrow *)
(* glyph, the head or the tail of a wide character; styles are left to a   *)
(* module of their own.  Bytes are left to the parser.  A failed assert    *)
(* or an access outside a vector ends the behaviour: fault names it and    *)
(* nothing is claimed of the program afterwards.  A number in a CSI        *)
(* sequence is an int, with a sign if the program wrote one.               *)
(***************************************************************************)
EXTENDS Integers, Sequences

CONSTANTS
  Functions,     \* control functions the program on the pty, or the UI, uses
  IntMax,        \* INT_MAX
  Params,        \* numbers a CSI sequence may carry, as sscanf("%d") reads them
  Glyphs,        \* narrow characters the program prints
  Sizes,         \* <<rows, columns>> the window may be resized to
  StartRows, StartCols,   \* size given by Start (24 and 80)
  Cols132, Cols80,        \* the widths DECCOLM switches to
  TabSize,       \* tab_size (8)
  MaxHistory,    \* MAX_HISTORY_LINES (5000)
  NoticeLen,     \* length of "[program exited, restarting]"
  NoticeChar,    \* a character of it
  TrustMargins   \* TRUE: the program only sets margins that fit the screen

ASSUME ConstantsAssumption ==
  /\ IntMax \in Nat \ {0}
  /\ Params \subseteq -IntMax - 1 .. IntMax
  /\ Sizes \subseteq (0 .. IntMax) \X (1 .. IntMax)
  /\ StartRows \in 1 .. IntMax /\ StartCols \in 1 .. IntMax
  /\ Cols132 \in 1 .. IntMax /\ Cols80 \in 1 .. IntMax
  /\ TabSize \in Nat \ {0}
  /\ MaxHistory \in Nat
  /\ NoticeLen \in Nat
  /\ TrustMargins \in BOOLEAN

VARIABLES
  num_rows, num_cols,               \* terminal size
  row, col,                         \* cursor; col = num_cols: wrap pending
  scroll_top, scroll_bottom,        \* scroll margins, both included
  origin_mode, enable_wrap, insert_mode,
  tab_stops,                        \* the columns that are tab stops
  save_row, save_col,               \* cursor saved by ESC 7
  buffer,                           \* row -> column -> cell
  history,                          \* lines scrolled off the margins
  notice,                           \* what is left to print of the exit notice, plus 1
  fault                             \* "none", "assert" or "bounds"

size    == <<num_rows, num_cols>>
margins == <<scroll_top, scroll_bottom>>
modes   == <<origin_mode, enable_wrap, insert_mode>>
saved   == <<save_row, save_col>>
cursor  == <<row, col>>
screen  == <<buffer, history>>
vars == <<size, cursor, margins, modes, tab_stops, saved, screen, notice, fault>>

Blank      == " "
WIDE_HEAD  == "wide"
WIDE_TAIL  == "tail"
TestGlyph  == "E"   \* what DECALN fills the screen with
Cell == Glyphs \cup {Blank, WIDE_HEAD, WIDE_TAIL, TestGlyph, NoticeChar}

Rows    == 0 .. num_rows - 1
Columns == 0 .. num_cols - 1
BlankLine == [j \in Columns |-> Blank]
OnScreen == row \in Rows

\* A parameter left out, which is no int: nothing is between the separators.
NoParam == IntMax + 1
Param == Params \cup {NoParam}

\* sscanf of a missing number leaves its target as it was; read_int_or_default
\* of a missing number is the default.
Int_or(p, default) == IF p = NoParam THEN default ELSE p

\* A sum that is assigned to an int keeps its low bits.
Low(n) == ((n + IntMax + 1) % (2 * (IntMax + 1))) - (IntMax + 1)

LesserOf(a, b)  == IF a < b THEN a ELSE b
GreaterOf(a, b) == IF a > b THEN a ELSE b
-----------------------------------------------------------------------------
(* Cursor                                                                  *)

Clamp(x, lo, hi) == IF x < lo THEN lo ELSE IF x > hi THEN hi ELSE x

\* Defect: the column after the last one counts as a column.
ClampCol_PastLast(c) == Clamp(c, 0, num_cols)

ClampCol(c) == Clamp(c, 0, num_cols - 1)

ClampRow(r) == IF origin_mode THEN Clamp(r, scroll_top, scroll_bottom)
                              ELSE Clamp(r, 0, num_rows - 1)

\* Assigning row and col, then ClampCursor.
ClampCursor(r, c) == row' = ClampRow(Low(r)) /\ col' = ClampCol(Low(c))

SetCursor(r, c) == ClampCursor(IF origin_mode THEN r + scroll_top ELSE r, c)

MoveCursor(row_diff, col_diff) ==
  SetCursor(ClampRow(row) + row_diff, ClampCol(col) + col_diff)
-----------------------------------------------------------------------------
(* Lines                                                                   *)

\* Defect: the rows below the bottom margin move along.
ShiftUp_ToLastRow(lo, n) ==
  [i \in Rows |-> IF i < lo THEN buffer[i]
                  ELSE IF i + n < num_rows THEN buffer[i + n] ELSE BlankLine]

\* Rows lo..scroll_bottom move up n rows, blank rows come in at the bottom.
ShiftUp(lo, n) ==
  [i \in Rows |-> IF i < lo \/ i > scroll_bottom THEN buffer[i]
                  ELSE IF i + n <= scroll_bottom THEN buffer[i + n]
                  ELSE BlankLine]

\* Rows lo..scroll_bottom move down n rows, blank rows come in at lo.
ShiftDown(lo, n) ==
  [i \in Rows |-> IF i < lo \/ i > scroll_bottom THEN buffer[i]
                  ELSE IF i - n >= lo THEN buffer[i - n]
                  ELSE BlankLine]

\* The loop of ShiftUp over a negative number of rows copies each row from d
\* rows above it, so that the d rows above lo are repeated down to the margin.
SmearDown(lo, d) ==
  [i \in Rows |-> IF i < lo \/ i > scroll_bottom THEN buffer[i]
                  ELSE buffer[lo - d + ((i - lo) % d)]]

\* The loop of ShiftDown, over a negative number of rows, repeats the d rows
\* below the margin up to lo.
SmearUp(lo, d) ==
  [i \in Rows |-> IF i < lo \/ i > scroll_bottom THEN buffer[i]
                  ELSE buffer[scroll_bottom + d - ((scroll_bottom - i) % d)]]

\* Defect: the history is never trimmed.
Trim_Never(h) == h

\* Only the newest MaxHistory lines are kept.
Trim(h) == IF Len(h) > MaxHistory
           THEN SubSeq(h, Len(h) - MaxHistory + 1, Len(h))
           ELSE h

(* DropFirstRowIfOverflow, for a cursor that has just been moved to row r: *)
(* what becomes of the row, the buffer and the history, and how it fails.  *)
Overflow(r) == r = scroll_bottom + 1

DropFault(r) ==
  IF ~Overflow(r) THEN "none"
  ELSE IF ~(scroll_top < scroll_bottom) THEN "assert"
  ELSE IF scroll_top < 0 \/ scroll_bottom >= num_rows THEN "bounds" ELSE "none"

DropRow(r) == IF Overflow(r) THEN r - 1 ELSE IF r >= num_rows THEN num_rows - 1 ELSE r

DropBuffer(r) == IF Overflow(r) THEN ShiftUp(scroll_top, 1) ELSE buffer

\* Defect: the line at the bottom margin is pushed.
DropHistory_Bottom(r) ==
  IF Overflow(r) THEN Trim(Append(history, buffer[scroll_bottom])) ELSE history

DropHistory(r) ==
  IF Overflow(r) THEN Trim(Append(history, buffer[scroll_top])) ELSE history

\* A step that fails changes nothing that is modelled.
Attempt(failure, Step) ==
  IF failure = "none"
  THEN Step /\ UNCHANGED fault
  ELSE fault' = failure /\ UNCHANGED <<size, cursor, margins, modes, tab_stops, saved, screen, notice>>

\* row++, DropFirstRowIfOverflow, with the column going to c.
NextLine(c) ==
  /\ row' = DropRow(row + 1)
  /\ col' = c
  /\ buffer' = DropBuffer(row + 1)
  /\ history' = DropHistory(row + 1)
-----------------------------------------------------------------------------
(* Printing: InsertUtf8.  b is the buffer as insert mode has left it, cw   *)
(* the character's width: 0, 1 or 2 columns.                               *)

\* A wide character in the last column of its row leaves no place for its tail.
Place(b, r, c, cell, cw) ==
  IF cw = 2 /\ c + 1 < num_cols
  THEN [b EXCEPT ![r] = [@ EXCEPT ![c] = cell, ![c + 1] = WIDE_TAIL]]
  ELSE [b EXCEPT ![r] = [@ EXCEPT ![c] = cell]]

ColumnAfter(c, cw) == LesserOf(c + cw, num_cols)

\* Without autowrap the character goes over the last one, or over the last
\* wide one from its head on.
ClipColumns(b, cw) ==
  {c \in 0 .. num_cols - cw : b[row][c] # WIDE_TAIL}
ClipColumn(b, cw) ==
  CHOOSE c \in ClipColumns(b, cw) : \A d \in ClipColumns(b, cw) : d <= c

InsertFault(b, cw) ==
  IF ~OnScreen \/ col \notin 0 .. num_cols THEN "assert"
  ELSE IF cw = 0 \/ col + cw <= num_cols THEN "none"
  ELSE IF enable_wrap THEN DropFault(row + 1)
  ELSE IF ClipColumns(b, cw) = {} THEN "bounds" ELSE "none"

\* Defect: a wrap does not reset the column.
InsertUtf8_KeepsColumn(b, cell, cw) ==
  IF cw > 0 /\ col + cw > num_cols /\ enable_wrap
  THEN /\ row' = DropRow(row + 1)
       /\ buffer' = Place(DropBuffer(row + 1), DropRow(row + 1), 0, cell, cw)
       /\ history' = DropHistory(row + 1)
       /\ col' = ColumnAfter(col, cw)
  ELSE /\ buffer' = IF cw = 0 \/ col + cw > num_cols THEN b ELSE Place(b, row, col, cell, cw)
       /\ col' = IF cw = 0 \/ col + cw > num_cols THEN col ELSE ColumnAfter(col, cw)
       /\ UNCHANGED <<row, history>>

InsertUtf8(b, cell, cw) ==
  /\ IF cw = 0
     THEN buffer' = b /\ UNCHANGED <<cursor, history>>
     ELSE IF col + cw <= num_cols
     THEN /\ buffer' = Place(b, row, col, cell, cw)
          /\ col' = ColumnAfter(col, cw)
          /\ UNCHANGED <<row, history>>
     ELSE IF enable_wrap
     THEN /\ row' = DropRow(row + 1)
          /\ buffer' = Place(DropBuffer(row + 1), DropRow(row + 1), 0, cell, cw)
          /\ history' = DropHistory(row + 1)
          /\ col' = ColumnAfter(0, cw)
     ELSE /\ buffer' = Place(b, row, ClipColumn(b, cw), cell, cw)
          /\ col' = ColumnAfter(ClipColumn(b, cw), cw)
          /\ UNCHANGED <<row, history>>
-----------------------------------------------------------------------------
(* Initially, and the steps that are not control functions                 *)

\* Defect: the first new column is not a tab stop.
TabStops_SkipFirst(from, to) ==
  {i \in from + 1 .. to - 1 : (i - from) % TabSize = 0}

TabStops(from, to) == {i \in from .. to - 1 : (i - from) % TabSize = 0}

\* Start: ResizeTo(24, 80) of an empty terminal_context.
Init ==
  /\ num_rows = StartRows /\ num_cols = StartCols
  /\ row = 0 /\ col = 0
  /\ scroll_top = 0 /\ scroll_bottom = StartRows - 1
  /\ origin_mode = FALSE /\ enable_wrap = TRUE /\ insert_mode = FALSE
  /\ tab_stops = TabStops(0, StartCols)
  /\ save_row = 0 /\ save_col = 0
  /\ buffer = [i \in 0 .. StartRows - 1 |-> [j \in 0 .. StartCols - 1 |-> Blank]]
  /\ history = <<>>
  /\ notice = 0
  /\ fault = "none"

\* The program is running, the lock is free and function f may be used.
Running(f) == fault = "none" /\ notice = 0 /\ f \in Functions

\* Defect: the margins survive a resize.
ResizeTo_KeepsMargins(h, w) ==
  /\ num_rows' = h /\ num_cols' = w
  /\ buffer' = [i \in 0 .. h - 1 |-> [j \in 0 .. w - 1 |->
                  IF i \in Rows /\ j \in Columns THEN buffer[i][j] ELSE Blank]]
  /\ row' = LesserOf(row, h - 1)
  /\ col' = LesserOf(col, w - 1)
  /\ tab_stops' = (tab_stops \cap 0 .. w - 1) \cup TabStops(num_cols, w)
  /\ UNCHANGED <<margins, modes, saved, history, notice, fault>>

\* terminal_context::ResizeTo.  Rows and columns are dropped or added at the
\* bottom and at the right; the saved cursor is left alone.
ResizeTo(h, w) ==
  /\ num_rows' = h /\ num_cols' = w
  /\ scroll_top' = 0 /\ scroll_bottom' = h - 1
  /\ buffer' = [i \in 0 .. h - 1 |-> [j \in 0 .. w - 1 |->
                  IF i \in Rows /\ j \in Columns THEN buffer[i][j] ELSE Blank]]
  /\ row' = LesserOf(row, h - 1)
  /\ col' = LesserOf(col, w - 1)
  /\ tab_stops' = (tab_stops \cap 0 .. w - 1) \cup TabStops(num_cols, w)
  /\ UNCHANGED <<modes, saved, history, notice, fault>>

\* The window gets another size.
Resize(h, w) == Running("resize") /\ ResizeTo(h, w)

\* The child exits: the worker takes the lock, goes to a new line, ...
ProgramExit ==
  /\ Running("exit")
  /\ Attempt(IF col > 0 THEN DropFault(row + 1) ELSE "none",
       /\ notice' = NoticeLen + 1
       /\ IF col > 0 THEN NextLine(0) ELSE UNCHANGED <<cursor, screen>>
       /\ UNCHANGED <<size, margins, modes, tab_stops, saved>>)

\* ... prints the notice character by character, whatever insert mode says, ...
NoticePrint ==
  /\ fault = "none" /\ notice > 1
  /\ Attempt(InsertFault(buffer, 1),
       /\ InsertUtf8(buffer, NoticeChar, 1)
       /\ notice' = notice - 1
       /\ UNCHANGED <<size, margins, modes, tab_stops, saved>>)

\* ... goes to a new line, forks the next child and releases the lock.  The
\* modes, the margins and the saved cursor stay as the old program left them.
NoticeEnd ==
  /\ fault = "none" /\ notice = 1
  /\ Attempt(DropFault(row + 1),
       /\ NextLine(0)
       /\ notice' = 0
       /\ UNCHANGED <<size, margins, modes, tab_stops, saved>>)
-----------------------------------------------------------------------------
(* Characters and C0 controls                                              *)

\* Insert mode moves the rest of the row one column to the right.
MovedRight ==
  [buffer EXCEPT ![row] =
     [j \in Columns |-> IF j > col THEN @[j - 1] ELSE @[j]]]

\* A byte ' ' .. 0x7f; DEL has width 0 but the row is moved all the same.
PrintAscii(cell, cw) ==
  /\ Running("print")
  /\ LET moves == insert_mode /\ col < num_cols - 1
         b == IF moves THEN MovedRight ELSE buffer
     IN Attempt(IF moves /\ ~OnScreen THEN "bounds" ELSE InsertFault(b, cw),
          InsertUtf8(b, cell, cw)
          /\ UNCHANGED <<size, margins, modes, tab_stops, saved, notice>>)

\* A code point decoded from several bytes: insert mode is ignored.
PrintUtf8(cell, cw) ==
  /\ Running("utf8")
  /\ Attempt(InsertFault(buffer, cw),
       InsertUtf8(buffer, cell, cw)
       /\ UNCHANGED <<size, margins, modes, tab_stops, saved, notice>>)

\* '\n' and ESC D (IND): the column stays.
LineFeed ==
  /\ Running("LF")
  /\ Attempt(DropFault(row + 1),
       NextLine(col)
       /\ UNCHANGED <<size, margins, modes, tab_stops, saved, notice>>)

\* What a step that only moves the cursor leaves alone.
OnlyCursor ==
  UNCHANGED <<size, margins, modes, tab_stops, saved, screen, notice, fault>>

CarriageReturn == Running("CR") /\ col' = 0 /\ UNCHANGED row /\ OnlyCursor

\* Defect: the cursor goes left of the first column.
BackSpace_Unchecked ==
  /\ Running("BS")
  /\ col' = col - 1
  /\ UNCHANGED row
  /\ OnlyCursor

BackSpace ==
  /\ Running("BS")
  /\ col' = IF col > 0 THEN col - 1 ELSE col
  /\ UNCHANGED row
  /\ OnlyCursor

\* To the next tab stop, or to the last column when there is none.
Tab ==
  /\ Running("HT")
  /\ LET stops == {c \in tab_stops : c > col}
     IN ClampCursor(row, IF stops = {} THEN num_cols
                         ELSE CHOOSE c \in stops : \A d \in stops : c <= d)
  /\ OnlyCursor
-----------------------------------------------------------------------------
(* Cursor functions                                                        *)

\* CSI Ps A
CUU(p) ==
  /\ Running("CUU")
  /\ LET line == Int_or(p, 1)
     IN MoveCursor(IF row >= scroll_top THEN -LesserOf(line, Low(row - scroll_top))
                                        ELSE -line, 0)
  /\ OnlyCursor

\* Defect: the bottom margin does not stop the cursor.
CUD_NoMargin(p) == Running("CUD") /\ MoveCursor(Int_or(p, 1), 0) /\ OnlyCursor

\* CSI Ps B
CUD(p) ==
  /\ Running("CUD")
  /\ LET line == Int_or(p, 1)
     IN MoveCursor(IF row <= scroll_bottom THEN LesserOf(line, Low(scroll_bottom - row))
                                           ELSE line, 0)
  /\ OnlyCursor

\* CSI Ps C and CSI Ps D
CUF(p) == Running("CUF") /\ ClampCursor(row, col + GreaterOf(Int_or(p, 1), 1)) /\ OnlyCursor
CUB(p) == Running("CUB") /\ ClampCursor(row, col - GreaterOf(Int_or(p, 1), 1)) /\ OnlyCursor

\* CSI Ps E and CSI Ps F
CNL(p) == Running("CNL") /\ ClampCursor(row + Int_or(p, 1), 0) /\ OnlyCursor
CPL(p) == Running("CPL") /\ ClampCursor(row - Int_or(p, 1), 0) /\ OnlyCursor

\* CSI Ps G
CHA(p) == Running("CHA") /\ ClampCursor(row, Int_or(p, 1) - 1) /\ OnlyCursor

\* CSI Ps d; with no parameter it is not recognised.
VPA(p) == Running("VPA") /\ p # NoParam /\ ClampCursor(p - 1, col) /\ OnlyCursor

\* CSI Ps ; Ps H and CSI Ps ; Ps f.  Rows count from the top of the screen
\* in origin mode too; a missing number counts from where the cursor is.
CUP(p, q) ==
  Running("CUP") /\ OnlyCursor /\ ClampCursor(Int_or(p, row) - 1, Int_or(q, col) - 1)

\* CSI Ps H
CUPRow(p) == Running("CUP") /\ p # NoParam /\ ClampCursor(p - 1, 0) /\ OnlyCursor

\* CSI H: the corner of the screen, wherever the margins are.
Home == Running("CUP") /\ row' = 0 /\ col' = 0 /\ OnlyCursor

\* ESC A, ESC B, ESC C and ESC E
EscMove(dr, dc) == Running("ESC") /\ ClampCursor(row + dr, col + dc) /\ OnlyCursor
EscNextLine == Running("ESC") /\ ClampCursor(row + 1, 0) /\ OnlyCursor

\* ESC 7 and ESC 8
SaveCursor ==
  /\ Running("DECSC")
  /\ save_row' = row /\ save_col' = col
  /\ UNCHANGED <<size, cursor, margins, modes, tab_stops, screen, notice, fault>>

\* Defect: the screen may have shrunk since the cursor was saved.
RestoreCursor_Unclamped ==
  Running("DECSC") /\ row' = save_row /\ col' = save_col /\ OnlyCursor

RestoreCursor == Running("DECSC") /\ ClampCursor(save_row, save_col) /\ OnlyCursor
-----------------------------------------------------------------------------
(* Margins, modes and tab stops                                            *)

MarginsFit(top, bottom) == 0 <= top /\ top < bottom /\ bottom < num_rows

\* Defect: margins of a single row are accepted.
DECSTBM_SingleRow(p, q) ==
  /\ Running("DECSTBM")
  /\ LET new_top    == Low(Int_or(p, 1) - 1)
         new_bottom == Low(Int_or(q, num_rows) - 1)
     IN /\ 0 <= new_top /\ new_top <= new_bottom /\ new_bottom < num_rows
        /\ scroll_top' = new_top /\ scroll_bottom' = new_bottom
        /\ row' = new_top /\ col' = 0
  /\ UNCHANGED <<size, modes, tab_stops, saved, screen, notice, fault>>

\* CSI Ps ; Ps r, CSI Ps r and CSI r: margins that are not in order are
\* ignored, and no others.
DECSTBM(p, q) ==
  /\ Running("DECSTBM")
  /\ LET new_top    == Low(Int_or(p, 1) - 1)
         new_bottom == Low(Int_or(q, num_rows) - 1)
     IN /\ TrustMargins /\ new_bottom > new_top => MarginsFit(new_top, new_bottom)
        /\ IF new_bottom > new_top
           THEN /\ scroll_top' = new_top /\ scroll_bottom' = new_bottom
                /\ row' = new_top /\ col' = 0
           ELSE UNCHANGED <<margins, cursor>>
  /\ UNCHANGED <<size, modes, tab_stops, saved, screen, notice, fault>>

\* CSI ? 6 h and CSI ? 6 l: the cursor stays where it is.
DECOM(on) ==
  /\ Running("DECOM")
  /\ origin_mode' = on
  /\ UNCHANGED <<size, cursor, margins, enable_wrap, insert_mode, tab_stops, saved,
                 screen, notice, fault>>

\* CSI ? 7 h and CSI ? 7 l
DECAWM(on) ==
  /\ Running("DECAWM")
  /\ enable_wrap' = on
  /\ UNCHANGED <<size, cursor, margins, origin_mode, insert_mode, tab_stops, saved,
                 screen, notice, fault>>

\* CSI 4 h and CSI 4 l
IRM(on) ==
  /\ Running("IRM")
  /\ insert_mode' = on
  /\ UNCHANGED <<size, cursor, margins, origin_mode, enable_wrap, tab_stops, saved,
                 screen, notice, fault>>

\* CSI ? 3 h and CSI ? 3 l
DECCOLM(on) == Running("DECCOLM") /\ ResizeTo(num_rows, IF on THEN Cols132 ELSE Cols80)

\* ESC H and CSI 0 g: with a wrap pending the column is one past tab_stops.
SetTabStops(stops) ==
  Attempt(IF col \in Columns THEN "none" ELSE "bounds",
    /\ tab_stops' = stops
    /\ UNCHANGED <<size, cursor, margins, modes, saved, screen, notice>>)

HTS == Running("HTS") /\ SetTabStops(tab_stops \cup {col})
TBC == Running("TBC") /\ SetTabStops(tab_stops \ {col})

\* CSI 3 g
TBCAll ==
  /\ Running("TBC")
  /\ tab_stops' = {}
  /\ UNCHANGED <<size, cursor, margins, modes, saved, screen, notice, fault>>
-----------------------------------------------------------------------------
(* Editing                                                                 *)

\* What editing leaves alone when it does not move the cursor.
OnlyBuffer == UNCHANGED <<size, cursor, margins, modes, tab_stops, saved, history, notice>>

\* An index is compared as a sum with a count.  One that is no int wraps and lets
\* a vector be indexed out of range, unless the compiler keeps it in more bits.
Compared(sum) == IF sum > IntMax THEN {"none", "bounds"} ELSE {"none"}

\* The cursor's row as line says, when the code gets to index it; outcomes says
\* how indexing its columns may end.
EditLine(touched, outcomes, line(_)) ==
  \E failure \in IF touched /\ ~OnScreen THEN {"bounds"} ELSE outcomes :
    Attempt(failure,
      /\ buffer' = IF OnScreen THEN [buffer EXCEPT ![row] = [j \in Columns |-> line(j)]]
                               ELSE buffer
      /\ OnlyBuffer)

\* CSI Ps K
EL(mode) ==
  /\ Running("EL")
  /\ EditLine(mode # 0 \/ col < num_cols, {"none"},
       LAMBDA j : IF \/ mode = 0 /\ j >= col
                     \/ mode = 1 /\ j <= col
                     \/ mode = 2
                  THEN Blank ELSE buffer[row][j])

\* Defect: erasing to the left goes one column too far.
EDFault_OneMore(mode) ==
  IF \/ mode = 0 /\ col < num_cols /\ ~OnScreen
     \/ mode = 1 /\ (~OnScreen \/ col + 1 >= num_cols)
  THEN "bounds" ELSE "none"

\* CSI Ps J.  Erasing to the left of the cursor reaches the cursor's column
\* even when it is num_cols.
EDFault(mode) ==
  IF \/ mode = 0 /\ col < num_cols /\ ~OnScreen
     \/ mode = 1 /\ (~OnScreen \/ col >= num_cols)
  THEN "bounds" ELSE "none"

ED(mode) ==
  /\ Running("ED")
  /\ Attempt(EDFault(mode),
       /\ buffer' = [i \in Rows |-> [j \in Columns |->
            IF \/ mode = 0 /\ (i > row \/ (i = row /\ j >= col))
               \/ mode = 1 /\ (i < row \/ (i = row /\ j <= col))
               \/ mode = 2
            THEN Blank ELSE buffer[i][j]]]
       /\ OnlyBuffer)

\* CSI Ps P.  A negative count repeats the cells left of the cursor.
DCH(p) ==
  /\ Running("DCH")
  /\ LET del == Int_or(p, 1)
     IN EditLine(col < num_cols,
          IF col >= num_cols THEN {"none"}
          ELSE IF col + del < 0 THEN {"bounds"} ELSE Compared(num_cols - 1 + del),
          LAMBDA j : IF j < col THEN buffer[row][j]
                     ELSE IF del < 0 THEN buffer[row][col + del + ((j - col) % (-del))]
                     ELSE IF j + del < num_cols THEN buffer[row][j + del] ELSE Blank)

\* CSI Ps @.  A negative count reads past the end of the line.
ICH(p) ==
  /\ Running("ICH")
  /\ LET count == Int_or(p, 1)
     IN EditLine(col < num_cols,
          IF col < num_cols /\ count < 0 THEN {"bounds"} ELSE {"none"},
          LAMBDA j : IF j < col THEN buffer[row][j]
                     ELSE IF j - col < count THEN Blank ELSE buffer[row][j - count])

\* CSI Ps X
ECH(p) ==
  /\ Running("ECH")
  /\ LET del == Int_or(p, 1)
     IN \E end \in {col + del, Low(col + del)} :
          EditLine(col < num_cols /\ col < end, {"none"},
            LAMBDA j : IF j >= col /\ j < end THEN Blank ELSE buffer[row][j])

\* The lines from lo to the bottom margin become lines.
MoveLines(lo, outcomes, lines, c) ==
  \E failure \in IF lo < 0 \/ scroll_bottom >= num_rows THEN {"bounds"} ELSE outcomes :
    Attempt(failure,
      /\ buffer' = lines
      /\ col' = c
      /\ UNCHANGED <<size, row, margins, modes, tab_stops, saved, history, notice>>)

\* They move up n lines, or, if n is negative, the lines above lo are repeated.
MoveUp(lo, n, c) ==
  MoveLines(lo, IF lo + n < 0 THEN {"bounds"} ELSE Compared(scroll_bottom + n),
            IF n < 0 THEN SmearDown(lo, -n) ELSE ShiftUp(lo, n), c)

\* They move down n lines, or, if n is negative, the lines below the margin are
\* repeated; i - n wraps to a number below lo for all of them, or for none.
MoveDown(lo, n, c) ==
  MoveLines(lo, IF n < 0 /\ lo - n <= IntMax /\ scroll_bottom - n >= num_rows
                THEN {"bounds"} ELSE Compared(lo - n),
            IF n >= 0 THEN ShiftDown(lo, n)
            ELSE IF lo - n > IntMax THEN ShiftDown(lo, num_rows)
            ELSE SmearUp(lo, -n), c)

InMargins == scroll_top <= row /\ row <= scroll_bottom

\* CSI Ps L and CSI Ps M; outside the margins they do nothing.
IL(p) == Running("IL") /\ InMargins /\ MoveDown(row, Int_or(p, 1), 0)
DL(p) == Running("DL") /\ InMargins /\ MoveUp(row, Int_or(p, 1), 0)

\* CSI Ps S: the lines do not go to the history.
SU(p) ==
  /\ Running("SU")
  /\ scroll_top <= scroll_bottom
  /\ MoveUp(scroll_top, Int_or(p, 1), col)

\* ESC M: up one row, and at the top margin the lines move down instead.
ReverseIndex ==
  /\ Running("RI")
  /\ IF row = scroll_top
     THEN Attempt(IF scroll_top \notin Rows \/ scroll_bottom >= num_rows THEN "bounds" ELSE "none",
            buffer' = ShiftDown(scroll_top, 1) /\ OnlyBuffer)
     ELSE ClampCursor(row - 1, col) /\ OnlyCursor

\* ESC # 8
DECALN ==
  /\ Running("DECALN")
  /\ buffer' = [i \in Rows |-> [j \in Columns |-> TestGlyph]]
  /\ OnlyBuffer /\ UNCHANGED fault
-----------------------------------------------------------------------------
Printing ==
  \/ \E g \in Glyphs : PrintAscii(g, 1) \/ PrintUtf8(g, 1)
  \/ PrintAscii(Blank, 0)
  \/ PrintUtf8(Blank, 0)
  \/ PrintUtf8(WIDE_HEAD, 2)

Moving ==
  \/ CarriageReturn \/ BackSpace \/ Tab
  \/ \E p \in Param :
       \/ CUU(p) \/ CUD(p) \/ CUF(p) \/ CUB(p) \/ CNL(p) \/ CPL(p) \/ CHA(p) \/ VPA(p)
       \/ CUPRow(p)
       \/ \E q \in Param : CUP(p, q)
  \/ Home
  \/ EscMove(-1, 0) \/ EscMove(1, 0) \/ EscMove(0, 1) \/ EscNextLine
  \/ SaveCursor \/ RestoreCursor

Setting ==
  \/ \E p, q \in Param : DECSTBM(p, q)
  \/ \E on \in BOOLEAN : DECOM(on) \/ DECAWM(on) \/ IRM(on) \/ DECCOLM(on)
  \/ HTS \/ TBC \/ TBCAll

Editing ==
  \/ LineFeed \/ ReverseIndex \/ DECALN
  \/ \E mode \in 0 .. 2 : EL(mode) \/ ED(mode)
  \/ \E p \in Param : DCH(p) \/ ICH(p) \/ ECH(p) \/ IL(p) \/ DL(p) \/ SU(p)

Outside ==
  \/ \E s \in Sizes : Resize(s[1], s[2])
  \/ ProgramExit \/ NoticePrint \/ NoticeEnd

Next == Printing \/ Moving \/ Setting \/ Editing \/ Outside

Spec == Init /\ [][Next]_vars
-----------------------------------------------------------------------------
(* Properties                                                              *)

LineOf(n) == [0 .. n - 1 -> Cell]

\* The variables have their types: the buffer is num_rows by num_cols, the
\* tab stops are columns, and no more lines are kept than MAX_HISTORY_LINES.
TypeOK ==
  /\ num_rows \in Nat /\ num_cols \in Nat \ {0}
  /\ row \in Int /\ col \in Nat
  /\ scroll_top \in Int /\ scroll_bottom \in Int
  /\ origin_mode \in BOOLEAN /\ enable_wrap \in BOOLEAN /\ insert_mode \in BOOLEAN
  /\ tab_stops \subseteq Columns
  /\ save_row \in Int /\ save_col \in Nat
  /\ buffer \in [Rows -> LineOf(num_cols)]
  /\ Len(history) <= MaxHistory
  /\ notice \in 0 .. NoticeLen + 1
  /\ fault \in {"none", "assert", "bounds"}

\* The scroll margins name two different rows of the screen, the first one
\* above the second, whatever order resizes and CSI r come in.
MarginsOnScreen == MarginsFit(scroll_top, scroll_bottom)

\* InsertUtf8's asserts: the cursor is on a row of the screen, and in one of
\* its columns or just after the last one, after any mix of cursor movement,
\* origin mode, scrolling, resizing, restoring and restarts.
CursorOnScreen == row \in Rows /\ col \in 0 .. num_cols

\* The program and the window under which the invariants below are claimed:
\* margins that fit, and two rows at least.
FittingProgram ==
  TrustMargins /\ StartRows >= 2 /\ \A s \in Sizes : s[1] >= 2

\* No assert of terminal.cpp fails, for programs whose margins fit.
AssertsHold == fault # "assert"

\* A count that is not negative and leaves room in an int for the sums a
\* function makes of it and positions on the screen.
Ordinary(p) ==
  LET n == Int_or(p, 1)
  IN 0 <= n /\ n + 2 * num_rows <= IntMax /\ n + num_cols <= IntMax

\* Editing by ordinary counts, and the steps of Next that edit by no others.
OrdinaryEditing ==
  \/ LineFeed \/ ReverseIndex \/ DECALN
  \/ \E mode \in 0 .. 2 : EL(mode) \/ ED(mode)
  \/ \E p \in Param :
       \/ ECH(p)
       \/ Ordinary(p) /\ (DCH(p) \/ ICH(p) \/ IL(p) \/ DL(p) \/ SU(p))

OrdinaryStep == Printing \/ Moving \/ Setting \/ OrdinaryEditing \/ Outside

\* As long as the counts of cells and lines to move are ordinary, the vectors are
\* indexed out of range with a wrap pending or with autowrap off only: the loops of
\* HandleCSI over cells and lines stay on the screen.
OutOfRangeExplained ==
  [][fault' = "bounds" /\ col # num_cols /\ enable_wrap => ~OrdinaryStep]_vars

\* A wrap is pending only since a character was printed in the last column:
\* no movement, restore or resize puts the cursor after the last column.
WrapPendsAfterPrinting ==
  [][col' = num_cols' => \/ col = num_cols /\ size' = size
                         \/ Printing \/ NoticePrint]_vars

\* CUU and CUD with an ordinary count go the way they say and do not leave the
\* margins (the comments of HandleCSI): no step down is a CUU, none up a CUD.  In
\* origin mode both bring the cursor between the margins, but relative moves count
\* from the top margin once more: CUU goes up only under a margin at the top of
\* the screen, CUD goes down from between the margins.
CursorKeepsMargins ==
  [][\A p \in Param :
       /\ row' > row /\ Ordinary(p) /\ (~origin_mode \/ scroll_top = 0) => ~CUU(p)
       /\ row' < row /\ Ordinary(p) /\ (~origin_mode \/ InMargins) => ~CUD(p)
       /\ ~InMargins' /\ (origin_mode \/ (Ordinary(p) /\ InMargins)) => ~(CUU(p) \/ CUD(p))]_vars

\* Scrolling, inserting and deleting lines leave every line outside the
\* margins as it is, and printing and editing touch the cursor's line only.
OtherLinesKept ==
  [][size' = size /\ ~DECALN /\ (\A mode \in 0 .. 2 : ~ED(mode)) =>
       \A i \in Rows : \/ buffer'[i] = buffer[i]
                       \/ i \in {row, row'}
                       \/ scroll_top <= i /\ i <= scroll_bottom]_vars

\* The history followed by the screen, read as one text.
Log == history \o [i \in 1 .. num_rows |-> buffer[i - 1]]

\* A line feed under full margins loses no line: the text is the same, or
\* has one more blank line at its end and, only when the history is full,
\* has lost its oldest line.
LineFeedLosesNothing ==
  [][LineFeed /\ scroll_top = 0 /\ scroll_bottom = num_rows - 1 /\ fault' = "none" =>
       \/ Log' = Log
       \/ Log' = Append(Log, BlankLine)
       \/ Len(history) = MaxHistory /\ Log' = Tail(Append(Log, BlankLine))]_vars

\* From every column there is a tab stop at most tab_size columns further on.
TabsClose ==
  \A c \in Columns : c + TabSize < num_cols => tab_stops \cap c + 1 .. c + TabSize # {}

\* Only clearing tab stops makes a tab go further than tab_size columns: no
\* sequence of widths does, by the window or by DECCOLM.
TabStopsStayClose == [][TabsClose /\ ~TBC /\ ~TBCAll => TabsClose']_vars

\* What has just been printed stands left of the cursor, whether it fitted,
\* wrapped, scrolled the screen or went over the last character.
PrintedLeftOfCursor ==
  [][\A g \in Glyphs : (PrintAscii(g, 1) \/ PrintUtf8(g, 1)) /\ fault' = "none"
       => buffer'[row'][col' - 1] = g]_vars

=============================================================================
