--------------------------- MODULE TerminalProofs ---------------------------
(***************************************************************************)
(* Theorems about Terminal, for every screen size, number of columns,      *)
(* history length and set of control functions.                            *)
(*                                                                         *)
(* 1. The variables keep their types, whatever the program sends.          *)
(* 2. If the program's margins fit the screen it has at that time, and the *)
(*    screen always has two rows, the cursor stays on the screen, the      *)
(*    margins stay on the screen, no assert fails, and the vectors are     *)
(*    indexed out of range only with a wrap pending, autowrap off or a     *)
(*    count that is negative or next to INT_MAX.                           *)
(* 3. What a step may do to what it is not about, whatever the program     *)
(*    sends: only printing puts the cursor after the last column, a step   *)
(*    leaves alone the lines outside the margins and the cursor's row, tab *)
(*    stops stay at most a tab away, a line feed under full margins loses  *)
(*    no text, what is printed stands left of the cursor.  With margins    *)
(*    that fit, CUU and CUD keep a cursor inside the margins and go the    *)
(*    way they say, but for the origin mode's second count from the top.   *)
(***************************************************************************)
EXTENDS Terminal, TLAPS, SequenceTheorems, WellFoundedInduction

\* The lines of the history are as wide as the screen was.
AnyLine == UNION {LineOf(n) : n \in Nat}

\* The inductive form of TypeOK: TypeOK bounds the length of the history, which
\* the prover can follow through Append and SubSeq once it is a sequence.
TypeInv == TypeOK /\ history \in Seq(AnyLine)
-----------------------------------------------------------------------------
(* The helpers                                                             *)

\* Clamping an integer gives an integer between the bounds, when there is one.
LEMMA ClampBetween ==
  ASSUME NEW x \in Int, NEW lo \in Int, NEW hi \in Int
  PROVE  /\ Clamp(x, lo, hi) \in Int
         /\ lo <= hi => lo <= Clamp(x, lo, hi) /\ Clamp(x, lo, hi) <= hi
         /\ lo <= x /\ x <= hi => Clamp(x, lo, hi) = x
BY DEF Clamp

\* A remainder is below the divisor, and a number below it is its own.
LEMMA Remainder ==
  ASSUME NEW x \in Int, NEW m \in Nat \ {0}
  PROVE  /\ x % m \in Int /\ 0 <= x % m /\ x % m < m
         /\ 0 <= x /\ x < m => x % m = x
BY SMTT(30)

\* The low bits of a number are an int, and those of an int are the int.
LEMMA LowIsInt ==
  ASSUME NEW n \in Int
  PROVE  /\ Low(n) \in Int
         /\ -IntMax - 1 <= n /\ n <= IntMax => Low(n) = n
<1> DEFINE m == 2 * (IntMax + 1)
<1>1. IntMax \in Nat /\ m \in Nat \ {0}
  BY ConstantsAssumption
<1>2. n + IntMax + 1 \in Int
  BY <1>1
<1>3. /\ (n + IntMax + 1) % m \in Int
      /\ 0 <= n + IntMax + 1 /\ n + IntMax + 1 < m => (n + IntMax + 1) % m = n + IntMax + 1
  <2> HIDE DEF m
  <2>1. QED
    BY <1>1, <1>2, Remainder
<1>4. Low(n) = ((n + IntMax + 1) % m) - (IntMax + 1)
  BY DEF Low
<1>5. -IntMax - 1 <= n /\ n <= IntMax => 0 <= n + IntMax + 1 /\ n + IntMax + 1 < m
  BY <1>1
<1> DEFINE rest == (n + IntMax + 1) % m
<1> HIDE DEF m, rest
<1>6. rest \in Int /\ Low(n) = rest - (IntMax + 1)
  BY <1>3, <1>4 DEF rest
<1>7. -IntMax - 1 <= n /\ n <= IntMax => rest = n + IntMax + 1
  BY <1>3, <1>5 DEF rest
<1>8. QED
  BY <1>1, <1>6, <1>7

\* A nonempty set of numbers up to N has a largest element.
LEMMA LargestExists ==
  ASSUME NEW N \in Int, NEW S, S \subseteq 0 .. N, S # {}
  PROVE  \E m \in S : \A d \in S : d <= m
<1>1. \A c \in S : c \in Int /\ c <= N
  OBVIOUS
<1> DEFINE T == {N - c : c \in S}
<1>2. \A c \in S : N - c \in T
  BY Zenon
<1>3. \A y \in T : \E c \in S : y = N - c
  BY Zenon
<1> HIDE DEF T
<1>4. T \subseteq Nat
  BY <1>1, <1>3
<1>5. T # {}
  BY <1>2
<1>6. PICK x \in T : \A y \in T : ~ (<<y, x>> \in OpToRel(<, Nat))
  BY <1>4, <1>5, WFMin, NatLessThanWellFounded, Zenon
<1>7. \A y \in T : ~ (y < x)
  BY <1>4, <1>6, Zenon DEF OpToRel
<1>8. PICK m \in S : x = N - m
  BY <1>3
<1>9. ASSUME NEW d \in S
      PROVE  d <= m
  <2>1. ~ (N - d < N - m)
    BY <1>2, <1>7, <1>8
  <2>2. QED
    BY <1>1, <2>1
<1>10. QED
  BY <1>9, Zenon

\* And a smallest one.
LEMMA SmallestExists ==
  ASSUME NEW N \in Int, NEW S, S \subseteq 0 .. N, S # {}
  PROVE  \E m \in S : \A d \in S : m <= d
<1>1. S \subseteq Nat
  OBVIOUS
<1>2. PICK m \in S : \A y \in S : ~ (<<y, m>> \in OpToRel(<, Nat))
  BY <1>1, WFMin, NatLessThanWellFounded, Zenon
<1>3. \A y \in S : ~ (y < m)
  BY <1>1, <1>2, Zenon DEF OpToRel
<1>4. QED
  BY <1>1, <1>3

\* Moving the rows of the margins up keeps the shape of the buffer.
LEMMA ShiftUpShape ==
  ASSUME TypeOK, scroll_bottom < num_rows, NEW lo \in Nat, NEW n \in Nat
  PROVE  ShiftUp(lo, n) \in [Rows -> LineOf(num_cols)]
<1>1. BlankLine \in LineOf(num_cols)
  BY DEF BlankLine, LineOf, Columns, Cell
<1>2. \A i \in Rows : i >= lo /\ i + n <= scroll_bottom => i + n \in Rows
  BY DEF TypeOK, Rows
<1>3. QED
  BY <1>1, <1>2 DEF ShiftUp, TypeOK, Rows

\* So does moving them down.
LEMMA ShiftDownShape ==
  ASSUME TypeOK, NEW lo \in Nat, NEW n \in Nat
  PROVE  ShiftDown(lo, n) \in [Rows -> LineOf(num_cols)]
<1>1. BlankLine \in LineOf(num_cols)
  BY DEF BlankLine, LineOf, Columns, Cell
<1>2. \A i \in Rows : i - n >= lo => i - n \in Rows
  BY DEF TypeOK, Rows
<1>3. QED
  BY <1>1, <1>2 DEF ShiftDown, TypeOK, Rows

\* Repeating the d rows above lo keeps it, if there are as many.
LEMMA SmearDownShape ==
  ASSUME TypeOK, scroll_bottom < num_rows, NEW lo \in Nat, NEW d \in Nat \ {0}, lo - d >= 0
  PROVE  SmearDown(lo, d) \in [Rows -> LineOf(num_cols)]
<1>1. ASSUME NEW i \in Rows, ~ (i < lo \/ i > scroll_bottom)
      PROVE  lo - d + ((i - lo) % d) \in Rows
  <2> DEFINE rest == (i - lo) % d
  <2>1. rest \in Int /\ 0 <= rest /\ rest < d
    BY Remainder DEF Rows
  <2> HIDE DEF rest
  <2>2. lo - d + rest \in Rows
    BY <1>1, <2>1 DEF TypeOK, Rows
  <2>3. QED
    BY <2>2 DEF rest
<1>2. QED
  BY <1>1 DEF SmearDown, TypeOK

\* So does repeating the d rows below the bottom margin.
LEMMA SmearUpShape ==
  ASSUME TypeOK, NEW lo \in Nat, NEW d \in Nat \ {0}, scroll_bottom + d < num_rows
  PROVE  SmearUp(lo, d) \in [Rows -> LineOf(num_cols)]
<1>1. ASSUME NEW i \in Rows, ~ (i < lo \/ i > scroll_bottom)
      PROVE  scroll_bottom + d - ((scroll_bottom - i) % d) \in Rows
  <2> DEFINE rest == (scroll_bottom - i) % d
  <2>1. scroll_bottom - i \in Int
    BY DEF TypeOK, Rows
  <2>2. rest \in Int /\ 0 <= rest /\ rest < d
    BY <2>1, Remainder
  <2> HIDE DEF rest
  <2>3. scroll_bottom + d - rest \in Rows
    BY <1>1, <2>2 DEF TypeOK, Rows
  <2>4. QED
    BY <2>3 DEF rest
<1>2. QED
  BY <1>1 DEF SmearUp, TypeOK

\* A line is appended to the history and the history is trimmed.
LEMMA TrimmedHistory ==
  ASSUME TypeInv, NEW l \in AnyLine
  PROVE  /\ Trim(Append(history, l)) \in Seq(AnyLine)
         /\ Len(Trim(Append(history, l))) <= MaxHistory
<1> DEFINE h == Append(history, l)
<1>1. h \in Seq(AnyLine) /\ Len(h) \in Nat /\ \A i \in 1 .. Len(h) : h[i] \in AnyLine
  BY AppendProperties, LenProperties, ElementOfSeq DEF TypeInv
<1>2. CASE Len(h) > MaxHistory
  <2>1. \A i \in Len(h) - MaxHistory + 1 .. Len(h) : h[i] \in AnyLine
    BY <1>1, <1>2, ConstantsAssumption
  <2>2. /\ SubSeq(h, Len(h) - MaxHistory + 1, Len(h)) \in Seq(AnyLine)
        /\ Len(SubSeq(h, Len(h) - MaxHistory + 1, Len(h))) <= MaxHistory
    BY <1>1, <1>2, <2>1, SubSeqProperties, ConstantsAssumption
  <2>3. QED
    BY <1>2, <2>2 DEF Trim
<1>3. CASE ~ (Len(h) > MaxHistory)
  BY <1>1, <1>3, ConstantsAssumption DEF Trim
<1>4. QED
  BY <1>2, <1>3

\* What a line feed does to the row, the buffer and the history, when it does
\* not fail.
LEMMA DropShape ==
  ASSUME TypeInv, NEW r \in Int, DropFault(r) = "none"
  PROVE  /\ DropRow(r) \in Int
         /\ DropBuffer(r) \in [Rows -> LineOf(num_cols)]
         /\ DropHistory(r) \in Seq(AnyLine)
         /\ Len(DropHistory(r)) <= MaxHistory
<1>1. DropRow(r) \in Int
  BY DEF DropRow, TypeInv, TypeOK
<1>2. CASE Overflow(r)
  <2>1. scroll_top \in Nat /\ scroll_bottom < num_rows /\ scroll_top \in Rows
    BY <1>2 DEF DropFault, TypeInv, TypeOK, Rows
  <2>2. buffer[scroll_top] \in AnyLine
    BY <2>1 DEF AnyLine, TypeInv, TypeOK
  <2>3. ShiftUp(scroll_top, 1) \in [Rows -> LineOf(num_cols)]
    BY <2>1, ShiftUpShape DEF TypeInv
  <2>4. QED
    BY <1>1, <1>2, <2>2, <2>3, TrimmedHistory DEF DropBuffer, DropHistory
<1>3. CASE ~Overflow(r)
  BY <1>1, <1>3 DEF DropBuffer, DropHistory, TypeInv, TypeOK
<1>4. QED
  BY <1>2, <1>3
-----------------------------------------------------------------------------
(* Type safety                                                             *)

\* A step that keeps the size keeps the types when what it assigns has them.
LEMMA SameSizeTypes ==
  ASSUME TypeInv, UNCHANGED size,
         row' \in Int, col' \in Nat, scroll_top' \in Int, scroll_bottom' \in Int,
         origin_mode' \in BOOLEAN, enable_wrap' \in BOOLEAN, insert_mode' \in BOOLEAN,
         tab_stops' \subseteq Columns, save_row' \in Int, save_col' \in Nat,
         buffer' \in [Rows -> LineOf(num_cols)],
         history' \in Seq(AnyLine), Len(history') <= MaxHistory,
         notice' \in 0 .. NoticeLen + 1, fault' \in {"none", "assert", "bounds"}
  PROVE  TypeInv'
<1>1. num_rows' = num_rows /\ num_cols' = num_cols
  BY DEF size
<1>2. Rows' = Rows /\ Columns' = Columns
  BY <1>1 DEF Rows, Columns
<1>3. AnyLine' = AnyLine
  BY DEF AnyLine, LineOf, Cell
<1>4. LineOf(num_cols)' = LineOf(num_cols)
  BY <1>1 DEF LineOf, Cell
<1>5. QED
  BY <1>1, <1>2, <1>3, <1>4 DEF TypeInv, TypeOK

\* The cursor moves, and nothing else changes.
LEMMA CursorTypes ==
  ASSUME TypeInv, row' \in Int, col' \in Nat, OnlyCursor
  PROVE  TypeInv'
BY SameSizeTypes DEF OnlyCursor, TypeInv, TypeOK, size, margins, modes, saved, screen

\* A cursor that is clamped, and nothing else.
LEMMA ClampedTypes ==
  ASSUME TypeInv, NEW r \in Int, NEW c \in Int, ClampCursor(r, c), OnlyCursor
  PROVE  TypeInv'
<1>1. Low(r) \in Int /\ Low(c) \in Int
  BY LowIsInt
<1>2. ClampRow(Low(r)) \in Int
  BY <1>1 DEF Clamp, ClampRow, TypeInv, TypeOK
<1>3. ClampCol(Low(c)) \in Nat
  BY <1>1 DEF Clamp, ClampCol, TypeInv, TypeOK
<1>4. QED
  BY <1>2, <1>3, CursorTypes DEF ClampCursor

\* A failure changes nothing that has a type, except the fault.
LEMMA FailureTypes ==
  ASSUME TypeInv, NEW f \in {"assert", "bounds"}, fault' = f,
         UNCHANGED <<size, cursor, margins, modes, tab_stops, saved, screen, notice>>
  PROVE  TypeInv'
BY SameSizeTypes DEF TypeInv, TypeOK, size, cursor, margins, modes, saved, screen

LEMMA FaultTypes ==
  ASSUME NEW b, NEW cw, NEW r
  PROVE  /\ DropFault(r) \in {"none", "assert", "bounds"}
         /\ InsertFault(b, cw) \in {"none", "assert", "bounds"}
BY DEF DropFault, InsertFault

\* A character of any width, put into a buffer of the right shape.
LEMMA PlaceShape ==
  ASSUME TypeInv, NEW b \in [Rows -> LineOf(num_cols)], NEW r \in Int, NEW c \in Int,
         NEW cell \in Cell, NEW cw
  PROVE  Place(b, r, c, cell, cw) \in [Rows -> LineOf(num_cols)]
<1>1. WIDE_TAIL \in Cell
  BY DEF Cell
<1>2. \A i \in Rows : \A g \in Cell : \A j \in Int :
        [b[i] EXCEPT ![j] = g] \in LineOf(num_cols)
  BY DEF LineOf
<1>3. \A i \in Rows : [b[i] EXCEPT ![c] = cell, ![c + 1] = WIDE_TAIL] \in LineOf(num_cols)
  BY <1>1 DEF LineOf
<1>4. QED
  BY <1>1, <1>2, <1>3 DEF Place

\* Where InsertUtf8 clips to, there is a column.
LEMMA ClipColumnNat ==
  ASSUME TypeInv, NEW b, NEW cw \in 1 .. 2, ClipColumns(b, cw) # {}
  PROVE  ClipColumn(b, cw) \in Nat
<1>1. ClipColumns(b, cw) \subseteq 0 .. num_cols - cw
  BY DEF ClipColumns
<1>2. num_cols - cw \in Int
  BY DEF TypeInv, TypeOK
<1>3. \E m \in ClipColumns(b, cw) : \A d \in ClipColumns(b, cw) : d <= m
  BY <1>1, <1>2, LargestExists
<1>4. ClipColumn(b, cw) \in ClipColumns(b, cw)
  BY <1>3, Zenon DEF ClipColumn
<1>5. QED
  BY <1>1, <1>2, <1>4

LEMMA InsertTypes ==
  ASSUME TypeInv, NEW b \in [Rows -> LineOf(num_cols)], NEW cell \in Cell, NEW cw \in 0 .. 2,
         InsertFault(b, cw) = "none", InsertUtf8(b, cell, cw)
  PROVE  /\ row' \in Int /\ col' \in Nat
         /\ buffer' \in [Rows -> LineOf(num_cols)]
         /\ history' \in Seq(AnyLine) /\ Len(history') <= MaxHistory
<1> USE DEF TypeInv, TypeOK
<1>1. CASE cw = 0
  BY <1>1 DEF InsertUtf8, cursor
<1>2. CASE cw # 0 /\ col + cw <= num_cols
  BY <1>2, PlaceShape DEF InsertUtf8, ColumnAfter, LesserOf
<1>3. CASE cw # 0 /\ ~ (col + cw <= num_cols) /\ enable_wrap
  <2>1. DropFault(row + 1) = "none"
    BY <1>3 DEF InsertFault
  <2>2. /\ DropRow(row + 1) \in Int
        /\ DropBuffer(row + 1) \in [Rows -> LineOf(num_cols)]
        /\ DropHistory(row + 1) \in Seq(AnyLine)
        /\ Len(DropHistory(row + 1)) <= MaxHistory
    BY <2>1, DropShape
  <2>3. Place(DropBuffer(row + 1), DropRow(row + 1), 0, cell, cw) \in [Rows -> LineOf(num_cols)]
    BY <2>2, PlaceShape
  <2>4. /\ row' = DropRow(row + 1)
        /\ buffer' = Place(DropBuffer(row + 1), DropRow(row + 1), 0, cell, cw)
        /\ history' = DropHistory(row + 1)
        /\ col' = ColumnAfter(0, cw)
    BY <1>3 DEF InsertUtf8
  <2>5. col' \in Nat
    BY <2>4 DEF ColumnAfter, LesserOf
  <2>6. QED
    BY <2>2, <2>3, <2>4, <2>5
<1>4. CASE cw # 0 /\ ~ (col + cw <= num_cols) /\ ~enable_wrap
  <2>1. ClipColumns(b, cw) # {}
    BY <1>4 DEF InsertFault
  <2>2. ClipColumn(b, cw) \in Nat
    BY <1>4, <2>1, ClipColumnNat
  <2>3. Place(b, row, ClipColumn(b, cw), cell, cw) \in [Rows -> LineOf(num_cols)]
    BY <2>2, PlaceShape
  <2>4. /\ UNCHANGED <<row, history>>
        /\ buffer' = Place(b, row, ClipColumn(b, cw), cell, cw)
        /\ col' = ColumnAfter(ClipColumn(b, cw), cw)
    BY <1>4 DEF InsertUtf8
  <2>5. col' \in Nat
    BY <2>2, <2>4 DEF ColumnAfter, LesserOf
  <2>6. QED
    BY <2>3, <2>4, <2>5
<1>5. QED
  BY <1>1, <1>2, <1>3, <1>4

\* Printing a character, by any of the three ways in, keeps the types.
LEMMA PrintingTypes ==
  ASSUME TypeInv, Printing
  PROVE  TypeInv'
<1>1. ASSUME NEW b \in [Rows -> LineOf(num_cols)], NEW cell \in Cell, NEW cw \in 0 .. 2,
             NEW failure \in {"none", "assert", "bounds"},
             failure = "none" => InsertFault(b, cw) = "none",
             Attempt(failure,
               InsertUtf8(b, cell, cw)
               /\ UNCHANGED <<size, margins, modes, tab_stops, saved, notice>>)
      PROVE  TypeInv'
  <2>1. CASE failure = "none"
    BY <1>1, <2>1, InsertTypes, SameSizeTypes
    DEF Attempt, TypeInv, TypeOK, size, margins, modes, saved
  <2>2. CASE failure # "none"
    BY <1>1, <2>2, FailureTypes DEF Attempt
  <2>3. QED
    BY <2>1, <2>2
<1>2. buffer \in [Rows -> LineOf(num_cols)]
  BY DEF TypeInv, TypeOK
<1>3. Blank \in Cell /\ WIDE_HEAD \in Cell /\ Glyphs \subseteq Cell
  BY DEF Cell
<1>4. ASSUME NEW cell \in Cell, NEW cw \in 0 .. 2, PrintUtf8(cell, cw)
      PROVE  TypeInv'
  BY <1>1, <1>2, <1>4, FaultTypes DEF PrintUtf8
<1>5. ASSUME NEW cell \in Cell, NEW cw \in 0 .. 2, PrintAscii(cell, cw)
      PROVE  TypeInv'
  <2> DEFINE moves == insert_mode /\ col < num_cols - 1
             b == IF moves THEN MovedRight ELSE buffer
             failure == IF moves /\ ~OnScreen THEN "bounds" ELSE InsertFault(b, cw)
  <2>1. Attempt(failure,
          InsertUtf8(b, cell, cw)
          /\ UNCHANGED <<size, margins, modes, tab_stops, saved, notice>>)
    BY <1>5 DEF PrintAscii
  <2>2. MovedRight \in [Rows -> LineOf(num_cols)]
    <3>1. ASSUME row \in Rows
          PROVE  [j \in Columns |-> IF j > col THEN buffer[row][j - 1] ELSE buffer[row][j]]
                   \in LineOf(num_cols)
      <4>1. \A j \in Columns : j > col => j - 1 \in Columns
        BY DEF TypeInv, TypeOK, Columns
      <4>2. \A j \in Columns : buffer[row][j] \in Cell
        BY <3>1 DEF TypeInv, TypeOK, LineOf, Columns
      <4>3. QED
        BY <4>1, <4>2 DEF LineOf, Columns
    <3>2. QED
      BY <1>2, <3>1 DEF MovedRight
  <2>3. b \in [Rows -> LineOf(num_cols)]
    BY <1>2, <2>2
  <2>4. failure \in {"none", "assert", "bounds"}
    BY FaultTypes
  <2>5. failure = "none" => InsertFault(b, cw) = "none"
    OBVIOUS
  <2>6. QED
    BY <1>1, <2>1, <2>3, <2>4, <2>5
<1>6. QED
  BY <1>3, <1>4, <1>5 DEF Printing

\* Every parameter a cursor function works with is an integer.
LEMMA ParamInt ==
  ASSUME NEW p \in Param
  PROVE  p \in Int /\ \A d \in Int : Int_or(p, d) \in Int
BY ConstantsAssumption DEF Param, NoParam, Int_or

\* The column a tab goes to is a number.
LEMMA TabTarget ==
  ASSUME TypeInv
  PROVE  LET stops == {c \in tab_stops : c > col}
         IN (IF stops = {} THEN num_cols
             ELSE CHOOSE c \in stops : \A d \in stops : c <= d) \in Int
<1> DEFINE stops == {c \in tab_stops : c > col}
           c == IF stops = {} THEN num_cols
                ELSE CHOOSE k \in stops : \A d \in stops : k <= d
<1>1. num_cols \in Int /\ \A k \in stops : k \in 0 .. num_cols - 1
  BY DEF TypeInv, TypeOK, Columns
<1>2. CASE stops # {}
  <2>1. stops \subseteq 0 .. num_cols - 1 /\ num_cols - 1 \in Int
    BY <1>1
  <2>2. \E k \in stops : \A d \in stops : k <= d
    <3> HIDE DEF stops
    <3>1. QED
      BY <1>2, <2>1, SmallestExists
  <2>3. c \in stops
    BY <1>2, <2>2, Zenon
  <2>4. QED
    BY <2>1, <2>3
<1>3. QED
  BY <1>1, <1>2

LEMMA MovingTypes ==
  ASSUME TypeInv, Moving
  PROVE  TypeInv'
<1>0. /\ row \in Int /\ col \in Int /\ col \in Nat /\ num_cols \in Nat
      /\ scroll_top \in Int /\ scroll_bottom \in Int
      /\ tab_stops \subseteq Columns
  BY DEF TypeInv, TypeOK
<1>1. CASE CarriageReturn \/ BackSpace \/ Home
  BY <1>0, <1>1, CursorTypes DEF CarriageReturn, BackSpace, Home
<1>2. CASE Tab
  <2> DEFINE stops == {c \in tab_stops : c > col}
             c == IF stops = {} THEN num_cols
                  ELSE CHOOSE k \in stops : \A d \in stops : k <= d
  <2>1. c \in Int
    BY TabTarget
  <2>2. ClampCursor(row, c) /\ OnlyCursor
    BY <1>2 DEF Tab
  <2> HIDE DEF c
  <2>3. QED
    BY <1>0, <2>1, <2>2, ClampedTypes
<1>3. ASSUME NEW dr \in Int, NEW dc \in Int, MoveCursor(dr, dc), OnlyCursor
      PROVE  TypeInv'
  <2>1. ClampRow(row) \in Int /\ ClampCol(col) \in Int
    BY DEF TypeInv, TypeOK, Clamp, ClampRow, ClampCol
  <2>2. QED
    BY <1>0, <1>3, <2>1, ClampedTypes DEF MoveCursor, SetCursor
<1>4. ASSUME NEW p \in Param, CUU(p) \/ CUD(p)
      PROVE  TypeInv'
  <2>1. Int_or(p, 1) \in Int
    BY ParamInt
  <2>differences. Low(row - scroll_top) \in Int /\ Low(scroll_bottom - row) \in Int
    BY <1>0, LowIsInt
  <2>2. CASE CUU(p)
    <3>1. PICK d \in Int : MoveCursor(d, 0) /\ OnlyCursor
      <4> DEFINE d == IF row >= scroll_top THEN -LesserOf(Int_or(p, 1), Low(row - scroll_top))
                                           ELSE -Int_or(p, 1)
      <4>1. d \in Int
        BY <2>1, <2>differences DEF LesserOf
      <4>2. MoveCursor(d, 0) /\ OnlyCursor
        BY <2>2 DEF CUU
      <4> HIDE DEF d
      <4>3. QED
        BY <4>1, <4>2
    <3>2. QED
      BY <1>3, <3>1
  <2>3. CASE CUD(p)
    <3>1. PICK d \in Int : MoveCursor(d, 0) /\ OnlyCursor
      <4> DEFINE d == IF row <= scroll_bottom THEN LesserOf(Int_or(p, 1), Low(scroll_bottom - row))
                                              ELSE Int_or(p, 1)
      <4>1. d \in Int
        BY <2>1, <2>differences DEF LesserOf
      <4>2. MoveCursor(d, 0) /\ OnlyCursor
        BY <2>3 DEF CUD
      <4> HIDE DEF d
      <4>3. QED
        BY <4>1, <4>2
    <3>2. QED
      BY <1>3, <3>1
  <2>4. QED
    BY <1>4, <2>2, <2>3
<1>5. ASSUME NEW p \in Param, CUF(p) \/ CUB(p) \/ CNL(p) \/ CPL(p) \/ CHA(p)
      PROVE  TypeInv'
  <2>1. Int_or(p, 1) \in Int
    BY ParamInt
  <2>2. QED
    BY <1>0, <1>5, <2>1, ClampedTypes DEF CUF, CUB, CNL, CPL, CHA, GreaterOf
<1>6. ASSUME NEW p \in Param, VPA(p) \/ CUPRow(p)
      PROVE  TypeInv'
  <2>1. p - 1 \in Int
    BY ParamInt
  <2>2. (ClampCursor(p - 1, col) \/ ClampCursor(p - 1, 0)) /\ OnlyCursor
    BY <1>6 DEF VPA, CUPRow
  <2>3. QED
    BY <1>0, <2>1, <2>2, ClampedTypes
<1>7. ASSUME NEW p \in Param, NEW q \in Param, CUP(p, q)
      PROVE  TypeInv'
  <2>1. Int_or(p, row) - 1 \in Int /\ Int_or(q, col) - 1 \in Int
    BY <1>0, ParamInt
  <2>2. ClampCursor(Int_or(p, row) - 1, Int_or(q, col) - 1) /\ OnlyCursor
    BY <1>7 DEF CUP
  <2>3. QED
    BY <2>1, <2>2, ClampedTypes
<1>8. CASE \/ EscMove(-1, 0) \/ EscMove(1, 0) \/ EscMove(0, 1) \/ EscNextLine
           \/ RestoreCursor
  BY <1>0, <1>8, ClampedTypes DEF EscMove, EscNextLine, RestoreCursor, TypeInv, TypeOK
<1>9. CASE SaveCursor
  BY <1>9, SameSizeTypes DEF TypeInv, TypeOK, SaveCursor, size, cursor, margins, modes, screen
<1>10. QED
  BY <1>1, <1>2, <1>4, <1>5, <1>6, <1>7, <1>8, <1>9 DEF Moving

\* A resize, by the window or by DECCOLM.
LEMMA ResizeToTypes ==
  ASSUME TypeInv, NEW h \in Nat, NEW w \in Nat \ {0}, ResizeTo(h, w)
  PROVE  TypeInv'
<1>1. num_rows' = h /\ num_cols' = w
  BY DEF ResizeTo
<1>2. Rows' = 0 .. h - 1 /\ Columns' = 0 .. w - 1
  BY <1>1 DEF Rows, Columns
<1>3. AnyLine' = AnyLine /\ LineOf(num_cols)' = LineOf(w)
  BY <1>1 DEF AnyLine, LineOf, Cell
<1>4. buffer' \in [Rows' -> LineOf(w)]
  <2>1. Blank \in Cell
    BY DEF Cell
  <2>2. \A i \in Rows : \A j \in Columns : buffer[i][j] \in Cell
    BY DEF TypeInv, TypeOK, LineOf, Columns
  <2>3. QED
    BY <1>2, <2>1, <2>2 DEF ResizeTo, LineOf
<1>5. tab_stops' \subseteq Columns'
  <2>1. TabStops(num_cols, w) \subseteq 0 .. w - 1
    BY DEF TabStops, TypeInv, TypeOK
  <2>2. QED
    BY <1>2, <2>1 DEF ResizeTo
<1>6. /\ row' \in Int /\ col' \in Nat /\ scroll_top' \in Int /\ scroll_bottom' \in Int
  BY DEF ResizeTo, LesserOf, TypeInv, TypeOK
<1>7. UNCHANGED <<modes, saved, history, notice, fault>>
  BY DEF ResizeTo
<1>8. QED
  BY <1>1, <1>3, <1>4, <1>5, <1>6, <1>7 DEF TypeInv, TypeOK, modes, saved

LEMMA SettingTypes ==
  ASSUME TypeInv, Setting
  PROVE  TypeInv'
<1>0. /\ row \in Int /\ col \in Nat /\ num_rows \in Nat /\ num_cols \in Nat
      /\ scroll_top \in Int /\ scroll_bottom \in Int
      /\ tab_stops \subseteq Columns
  BY DEF TypeInv, TypeOK
<1>1. ASSUME NEW p \in Param, NEW q \in Param, DECSTBM(p, q)
      PROVE  TypeInv'
  <2>1. Low(Int_or(p, 1) - 1) \in Int /\ Low(Int_or(q, num_rows) - 1) \in Int
    <3>1. Int_or(p, 1) - 1 \in Int /\ Int_or(q, num_rows) - 1 \in Int
      BY <1>0, ParamInt
    <3>2. QED
      BY <3>1, LowIsInt
  <2>2. row' \in Int /\ col' \in Nat /\ scroll_top' \in Int /\ scroll_bottom' \in Int
    BY <1>0, <1>1, <2>1 DEF DECSTBM, margins, cursor
  <2>3. UNCHANGED <<size, modes, tab_stops, saved, screen, notice, fault>>
    BY <1>1 DEF DECSTBM
  <2>4. QED
    BY <2>2, <2>3, SameSizeTypes DEF TypeInv, TypeOK, size, modes, saved, screen
<1>2. ASSUME NEW on \in BOOLEAN, DECOM(on) \/ DECAWM(on) \/ IRM(on)
      PROVE  TypeInv'
  BY <1>2, SameSizeTypes, SMTT(30)
  DEF TypeInv, TypeOK, DECOM, DECAWM, IRM, size, cursor, margins, saved, screen
<1>3. ASSUME NEW on \in BOOLEAN, DECCOLM(on)
      PROVE  TypeInv'
  BY <1>0, <1>3, ResizeToTypes, ConstantsAssumption DEF DECCOLM
<1>4. ASSUME NEW stops, stops \subseteq tab_stops \cup {col}, SetTabStops(stops)
      PROVE  TypeInv'
  <2>1. CASE col \in Columns
    <3>1. stops \subseteq Columns
      BY <1>0, <1>4, <2>1
    <3>2. /\ tab_stops' = stops
          /\ UNCHANGED <<size, cursor, margins, modes, saved, screen, notice, fault>>
      BY <1>4, <2>1 DEF SetTabStops, Attempt
    <3>3. QED
      BY <3>1, <3>2, SameSizeTypes
      DEF TypeInv, TypeOK, size, cursor, margins, modes, saved, screen
  <2>2. CASE col \notin Columns
    BY <1>4, <2>2, FailureTypes DEF SetTabStops, Attempt
  <2>3. QED
    BY <2>1, <2>2
<1>5. CASE HTS \/ TBC
  BY <1>4, <1>5 DEF HTS, TBC
<1>6. CASE TBCAll
  BY <1>6, SameSizeTypes
  DEF TypeInv, TypeOK, TBCAll, size, cursor, margins, modes, saved, screen
<1>7. QED
  BY <1>1, <1>2, <1>3, <1>5, <1>6 DEF Setting

LEMMA EditingTypes ==
  ASSUME TypeInv, Editing
  PROVE  TypeInv'
<1>0. /\ row \in Int /\ col \in Nat /\ num_rows \in Nat /\ num_cols \in Nat
      /\ scroll_top \in Int /\ scroll_bottom \in Int
      /\ buffer \in [Rows -> LineOf(num_cols)]
      /\ Blank \in Cell /\ TestGlyph \in Cell
  BY DEF TypeInv, TypeOK, Cell
<1>1. \A i \in Rows : \A j \in Columns : buffer[i][j] \in Cell
  BY <1>0 DEF LineOf, Columns
<1>2. ASSUME NEW b \in [Rows -> LineOf(num_cols)], NEW c \in Nat,
             NEW failure \in {"none", "assert", "bounds"},
             Attempt(failure,
               /\ buffer' = b
               /\ col' = c
               /\ UNCHANGED <<size, row, margins, modes, tab_stops, saved, history, notice>>)
      PROVE  TypeInv'
  <2>1. CASE failure = "none"
    BY <1>2, <2>1, SameSizeTypes DEF Attempt, TypeInv, TypeOK, size, margins, modes, saved
  <2>2. CASE failure # "none"
    BY <1>2, <2>2, FailureTypes DEF Attempt
  <2>3. QED
    BY <2>1, <2>2
<1>3. ASSUME NEW b \in [Rows -> LineOf(num_cols)],
             NEW failure \in {"none", "assert", "bounds"},
             Attempt(failure, buffer' = b /\ OnlyBuffer)
      PROVE  TypeInv'
  BY <1>0, <1>2, <1>3 DEF Attempt, OnlyBuffer, cursor
<1>4. ASSUME NEW line \in LineOf(num_cols)
      PROVE  (IF OnScreen THEN [buffer EXCEPT ![row] = line] ELSE buffer)
               \in [Rows -> LineOf(num_cols)]
  BY <1>0, <1>4
<1>5. CASE LineFeed
  <2>1. CASE DropFault(row + 1) = "none"
    BY <1>0, <1>5, <2>1, DropShape, SameSizeTypes
    DEF LineFeed, Attempt, NextLine, TypeInv, TypeOK, size, margins, modes, saved
  <2>2. CASE DropFault(row + 1) # "none"
    BY <1>5, <2>2, FailureTypes, FaultTypes DEF LineFeed, Attempt
  <2>3. QED
    BY <2>1, <2>2
<1>6. CASE ReverseIndex
  <2>1. CASE row = scroll_top
    <3>1. CASE scroll_top \notin Rows \/ scroll_bottom >= num_rows
      BY <1>6, <2>1, <3>1, FailureTypes DEF ReverseIndex, Attempt
    <3>2. CASE scroll_top \in Rows /\ ~ (scroll_bottom >= num_rows)
      <4>1. scroll_top \in Nat
        BY <1>0, <3>2 DEF Rows
      <4>2. ShiftDown(scroll_top, 1) \in [Rows -> LineOf(num_cols)]
        BY <4>1, ShiftDownShape DEF TypeInv
      <4>3. Attempt("none", buffer' = ShiftDown(scroll_top, 1) /\ OnlyBuffer)
        BY <1>6, <2>1, <3>2 DEF ReverseIndex, Attempt
      <4>4. QED
        BY <1>3, <4>2, <4>3
    <3>3. QED
      BY <3>1, <3>2
  <2>2. CASE row # scroll_top
    BY <1>0, <1>6, <2>2, ClampedTypes DEF ReverseIndex
  <2>3. QED
    BY <2>1, <2>2
<1>7. CASE DECALN
  <2>1. [i \in Rows |-> [j \in Columns |-> TestGlyph]] \in [Rows -> LineOf(num_cols)]
    BY <1>0 DEF LineOf, Columns
  <2>2. Attempt("none", buffer' = [i \in Rows |-> [j \in Columns |-> TestGlyph]] /\ OnlyBuffer)
    BY <1>7 DEF DECALN, Attempt
  <2>3. QED
    BY <1>3, <2>1, <2>2
\* A step that edits the cursor's line.
<1>8. ASSUME NEW line, NEW outcomes, outcomes \subseteq {"none", "bounds"}, NEW touched,
             OnScreen /\ "none" \in outcomes => line \in LineOf(num_cols),
             \E failure \in IF touched /\ ~OnScreen THEN {"bounds"} ELSE outcomes :
               Attempt(failure,
                 /\ buffer' = IF OnScreen THEN [buffer EXCEPT ![row] = line] ELSE buffer
                 /\ OnlyBuffer)
      PROVE  TypeInv'
  <2> DEFINE b == IF OnScreen THEN [buffer EXCEPT ![row] = line] ELSE buffer
  <2>1. PICK failure \in IF touched /\ ~OnScreen THEN {"bounds"} ELSE outcomes :
          Attempt(failure, buffer' = b /\ OnlyBuffer)
    BY <1>8
  <2>2. CASE failure = "none"
    <3>1. OnScreen => line \in LineOf(num_cols)
      BY <1>8, <2>1, <2>2
    <3>2. b \in [Rows -> LineOf(num_cols)]
      BY <1>0, <1>4, <3>1
    <3> HIDE DEF b
    <3>3. QED
      BY <1>3, <2>1, <2>2, <3>2
  <2>3. CASE failure # "none"
    <3>1. failure = "bounds"
      BY <1>8, <2>1, <2>3
    <3>2. QED
      BY <2>1, <3>1, FailureTypes DEF Attempt
  <2>4. QED
    BY <2>2, <2>3
<1>9. ASSUME NEW mode \in 0 .. 2, EL(mode)
      PROVE  TypeInv'
  <2> DEFINE line == [j \in Columns |->
                        IF \/ mode = 0 /\ j >= col
                           \/ mode = 1 /\ j <= col
                           \/ mode = 2
                        THEN Blank ELSE buffer[row][j]]
             touched == mode # 0 \/ col < num_cols
  <2>1. \E failure \in IF touched /\ ~OnScreen THEN {"bounds"} ELSE {"none"} :
          Attempt(failure,
            /\ buffer' = IF OnScreen THEN [buffer EXCEPT ![row] = line] ELSE buffer
            /\ OnlyBuffer)
    BY <1>9 DEF EL, EditLine
  <2>2. OnScreen => line \in LineOf(num_cols)
    BY <1>0, <1>1 DEF OnScreen, LineOf, Columns
  <2> HIDE DEF line, touched
  <2>3. QED
    BY <1>8, <2>1, <2>2
<1>10. ASSUME NEW p \in Param, DCH(p)
       PROVE  TypeInv'
  <2> DEFINE del == Int_or(p, 1)
             line == [j \in Columns |->
                        IF j < col THEN buffer[row][j]
                        ELSE IF del < 0 THEN buffer[row][col + del + ((j - col) % (-del))]
                        ELSE IF j + del < num_cols THEN buffer[row][j + del] ELSE Blank]
             touched == col < num_cols
             outcomes == IF col >= num_cols THEN {"none"}
                         ELSE IF col + del < 0 THEN {"bounds"} ELSE Compared(num_cols - 1 + del)
  <2>1. \E failure \in IF touched /\ ~OnScreen THEN {"bounds"} ELSE outcomes :
          Attempt(failure,
            /\ buffer' = IF OnScreen THEN [buffer EXCEPT ![row] = line] ELSE buffer
            /\ OnlyBuffer)
    BY <1>10 DEF DCH, EditLine
  <2>2. OnScreen /\ "none" \in outcomes => line \in LineOf(num_cols)
    <3>1. del \in Int
      BY ParamInt
    <3>2. "none" \in outcomes => col >= num_cols \/ col + del >= 0
      <4> HIDE DEF del
      <4>1. QED
        BY <1>0, <3>1
    <3> HIDE DEF del, outcomes
    <3>3. \A j \in Columns : ~ (del < 0) /\ j + del < num_cols => j + del \in Columns
      BY <1>0, <3>1 DEF Columns
    <3>4. ASSUME NEW j \in Columns, ~ (j < col), del < 0, "none" \in outcomes
          PROVE  col + del + ((j - col) % (-del)) \in Columns
      <4> DEFINE rest == (j - col) % (-del)
      <4>1. j - col \in Int /\ -del \in Nat \ {0}
        BY <1>0, <3>1, <3>4 DEF Columns
      <4>2. rest \in Int /\ 0 <= rest /\ rest < -del
        BY <4>1, Remainder
      <4> HIDE DEF rest
      <4>3. col + del + rest \in Columns
        BY <1>0, <3>1, <3>2, <3>4, <4>2 DEF Columns
      <4>4. QED
        BY <4>3 DEF rest
    <3>5. ASSUME OnScreen, "none" \in outcomes, NEW j \in Columns
          PROVE  line[j] \in Cell
      <4>1. CASE j < col
        BY <1>1, <3>5, <4>1 DEF OnScreen
      <4>2. CASE ~ (j < col) /\ del < 0
        BY <1>1, <3>4, <3>5, <4>2 DEF OnScreen
      <4>3. CASE ~ (j < col) /\ ~ (del < 0)
        BY <1>0, <1>1, <3>3, <3>5, <4>3 DEF OnScreen
      <4>4. QED
        BY <4>1, <4>2, <4>3
    <3>6. QED
      BY <3>5 DEF LineOf, Columns
  <2>3. outcomes \subseteq {"none", "bounds"}
    BY DEF Compared
  <2> HIDE DEF line, touched, outcomes
  <2>4. QED
    BY <1>8, <2>1, <2>2, <2>3
<1>11. ASSUME NEW p \in Param, ICH(p)
       PROVE  TypeInv'
  <2> DEFINE count == Int_or(p, 1)
             line == [j \in Columns |->
                        IF j < col THEN buffer[row][j]
                        ELSE IF j - col < count THEN Blank ELSE buffer[row][j - count]]
             touched == col < num_cols
             outcomes == IF col < num_cols /\ count < 0 THEN {"bounds"} ELSE {"none"}
  <2>1. \E failure \in IF touched /\ ~OnScreen THEN {"bounds"} ELSE outcomes :
          Attempt(failure,
            /\ buffer' = IF OnScreen THEN [buffer EXCEPT ![row] = line] ELSE buffer
            /\ OnlyBuffer)
    BY <1>11 DEF ICH, EditLine
  <2>2. OnScreen /\ "none" \in outcomes => line \in LineOf(num_cols)
    <3>1. count \in Int
      BY ParamInt
    <3>2. "none" \in outcomes => ~ (col < num_cols /\ count < 0)
      OBVIOUS
    <3> HIDE DEF count, outcomes
    <3>3. "none" \in outcomes =>
            \A j \in Columns : ~ (j < col) /\ ~ (j - col < count) => j - count \in Columns
      BY <1>0, <3>1, <3>2 DEF Columns
    <3>4. QED
      BY <1>0, <1>1, <3>3 DEF OnScreen, LineOf, Columns
  <2>3. outcomes \subseteq {"none", "bounds"}
    OBVIOUS
  <2> HIDE DEF line, touched, outcomes
  <2>4. QED
    BY <1>8, <2>1, <2>2, <2>3
<1>12. ASSUME NEW p \in Param, ECH(p)
       PROVE  TypeInv'
  <2>1. PICK end \in {col + Int_or(p, 1), Low(col + Int_or(p, 1))} :
          EditLine(col < num_cols /\ col < end, {"none"},
            LAMBDA j : IF j >= col /\ j < end THEN Blank ELSE buffer[row][j])
    BY <1>12 DEF ECH
  <2> DEFINE line == [j \in Columns |-> IF j >= col /\ j < end THEN Blank ELSE buffer[row][j]]
             touched == col < num_cols /\ col < end
  <2>2. \E failure \in IF touched /\ ~OnScreen THEN {"bounds"} ELSE {"none"} :
          Attempt(failure,
            /\ buffer' = IF OnScreen THEN [buffer EXCEPT ![row] = line] ELSE buffer
            /\ OnlyBuffer)
    BY <2>1 DEF EditLine
  <2>3. OnScreen => line \in LineOf(num_cols)
    BY <1>0, <1>1 DEF OnScreen, LineOf, Columns
  <2> HIDE DEF line, touched
  <2>4. QED
    BY <1>8, <2>2, <2>3
<1>13. ASSUME NEW mode \in 0 .. 2, ED(mode)
       PROVE  TypeInv'
  <2> DEFINE b == [i \in Rows |-> [j \in Columns |->
                     IF \/ mode = 0 /\ (i > row \/ (i = row /\ j >= col))
                        \/ mode = 1 /\ (i < row \/ (i = row /\ j <= col))
                        \/ mode = 2
                     THEN Blank ELSE buffer[i][j]]]
  <2>1. b \in [Rows -> LineOf(num_cols)]
    BY <1>0, <1>1 DEF LineOf, Columns
  <2>2. EDFault(mode) \in {"none", "assert", "bounds"}
    BY DEF EDFault
  <2>3. Attempt(EDFault(mode), buffer' = b /\ OnlyBuffer)
    BY <1>13 DEF ED
  <2> HIDE DEF b
  <2>4. QED
    BY <1>3, <2>1, <2>2, <2>3
<1>14. ASSUME NEW lo \in Int, NEW outcomes, outcomes \subseteq {"none", "bounds"},
              NEW lines, NEW c \in Nat,
              lo >= 0 /\ scroll_bottom < num_rows /\ "none" \in outcomes =>
                lines \in [Rows -> LineOf(num_cols)],
              MoveLines(lo, outcomes, lines, c)
       PROVE  TypeInv'
  <2>1. PICK failure \in IF lo < 0 \/ scroll_bottom >= num_rows THEN {"bounds"} ELSE outcomes :
          Attempt(failure,
            /\ buffer' = lines
            /\ col' = c
            /\ UNCHANGED <<size, row, margins, modes, tab_stops, saved, history, notice>>)
    BY <1>14 DEF MoveLines
  <2>2. CASE failure = "none"
    <3>1. ~ (lo < 0 \/ scroll_bottom >= num_rows) /\ "none" \in outcomes
      BY <2>1, <2>2
    <3>2. lines \in [Rows -> LineOf(num_cols)]
      BY <1>0, <1>14, <3>1
    <3>3. QED
      BY <1>2, <2>1, <2>2, <3>2
  <2>3. CASE failure # "none"
    <3>1. failure = "bounds"
      BY <1>14, <2>1, <2>3
    <3>2. QED
      BY <2>1, <3>1, FailureTypes DEF Attempt
  <2>4. QED
    BY <2>2, <2>3
<1>15. ASSUME NEW lo \in Int, NEW n \in Int, NEW c \in Nat, MoveUp(lo, n, c)
       PROVE  TypeInv'
  <2> DEFINE outcomes == IF lo + n < 0 THEN {"bounds"} ELSE Compared(scroll_bottom + n)
             lines == IF n < 0 THEN SmearDown(lo, -n) ELSE ShiftUp(lo, n)
  <2>1. lo >= 0 /\ scroll_bottom < num_rows /\ "none" \in outcomes =>
          lines \in [Rows -> LineOf(num_cols)]
    <3> SUFFICES ASSUME lo >= 0, scroll_bottom < num_rows, "none" \in outcomes
                 PROVE  lines \in [Rows -> LineOf(num_cols)]
      OBVIOUS
    <3>1. lo \in Nat /\ lo + n >= 0
      OBVIOUS
    <3>2. CASE n < 0
      <4>1. -n \in Nat \ {0} /\ lo - (-n) >= 0
        BY <3>1, <3>2
      <4>2. QED
        BY <3>1, <3>2, <4>1, SmearDownShape DEF TypeInv
    <3>3. CASE ~ (n < 0)
      BY <3>1, <3>3, ShiftUpShape DEF TypeInv
    <3>4. QED
      BY <3>2, <3>3
  <2>2. outcomes \subseteq {"none", "bounds"}
    BY DEF Compared
  <2>3. MoveLines(lo, outcomes, lines, c)
    BY <1>15 DEF MoveUp
  <2> HIDE DEF outcomes, lines
  <2>4. QED
    BY <1>14, <2>1, <2>2, <2>3
<1>16. ASSUME NEW lo \in Int, NEW n \in Int, NEW c \in Nat, MoveDown(lo, n, c)
       PROVE  TypeInv'
  <2> DEFINE outcomes == IF n < 0 /\ lo - n <= IntMax /\ scroll_bottom - n >= num_rows
                         THEN {"bounds"} ELSE Compared(lo - n)
             lines == IF n >= 0 THEN ShiftDown(lo, n)
                      ELSE IF lo - n > IntMax THEN ShiftDown(lo, num_rows)
                      ELSE SmearUp(lo, -n)
  <2>1. lo >= 0 /\ scroll_bottom < num_rows /\ "none" \in outcomes =>
          lines \in [Rows -> LineOf(num_cols)]
    <3> SUFFICES ASSUME lo >= 0, scroll_bottom < num_rows, "none" \in outcomes
                 PROVE  lines \in [Rows -> LineOf(num_cols)]
      OBVIOUS
    <3>1. lo \in Nat /\ IntMax \in Nat
      BY ConstantsAssumption
    <3>2. CASE n >= 0
      BY <3>1, <3>2, ShiftDownShape DEF TypeInv
    <3>3. CASE ~ (n >= 0) /\ lo - n > IntMax
      BY <1>0, <3>1, <3>3, ShiftDownShape DEF TypeInv
    <3>4. CASE ~ (n >= 0) /\ ~ (lo - n > IntMax)
      <4>1. -n \in Nat \ {0} /\ scroll_bottom + (-n) < num_rows
        BY <1>0, <3>1, <3>4
      <4>2. QED
        BY <3>1, <3>4, <4>1, SmearUpShape DEF TypeInv
    <3>5. QED
      BY <3>2, <3>3, <3>4
  <2>2. outcomes \subseteq {"none", "bounds"}
    BY DEF Compared
  <2>3. MoveLines(lo, outcomes, lines, c)
    BY <1>16 DEF MoveDown
  <2> HIDE DEF outcomes, lines
  <2>4. QED
    BY <1>14, <2>1, <2>2, <2>3
<1>17. ASSUME NEW p \in Param, IL(p) \/ DL(p) \/ SU(p)
       PROVE  TypeInv'
  <2>1. Int_or(p, 1) \in Int
    BY ParamInt
  <2>2. QED
    BY <1>0, <1>15, <1>16, <1>17, <2>1 DEF IL, DL, SU
<1>18. QED
  BY <1>5, <1>6, <1>7, <1>9, <1>10, <1>11, <1>12, <1>13, <1>17 DEF Editing

LEMMA OutsideTypes ==
  ASSUME TypeInv, Outside
  PROVE  TypeInv'
<1>0. /\ row \in Int /\ col \in Nat /\ notice \in 0 .. NoticeLen + 1
      /\ buffer \in [Rows -> LineOf(num_cols)]
      /\ NoticeChar \in Cell
  BY DEF TypeInv, TypeOK, Cell
<1>1. ASSUME NEW s \in Sizes, Resize(s[1], s[2])
      PROVE  TypeInv'
  <2>1. s[1] \in Nat /\ s[2] \in Nat \ {0}
    BY ConstantsAssumption
  <2>2. QED
    BY <1>1, <2>1, ResizeToTypes DEF Resize
<1>2. ASSUME NEW n \in 0 .. NoticeLen + 1, DropFault(row + 1) = "none", NextLine(0), notice' = n,
             UNCHANGED <<size, margins, modes, tab_stops, saved, fault>>
      PROVE  TypeInv'
  BY <1>0, <1>2, DropShape, SameSizeTypes
  DEF NextLine, TypeInv, TypeOK, size, margins, modes, saved
<1>3. CASE ProgramExit
  <2> DEFINE failure == IF col > 0 THEN DropFault(row + 1) ELSE "none"
  <2>1. NoticeLen + 1 \in 0 .. NoticeLen + 1
    BY ConstantsAssumption
  <2>2. CASE failure # "none"
    BY <1>3, <2>2, FailureTypes, FaultTypes DEF ProgramExit, Attempt
  <2>3. CASE failure = "none" /\ col > 0
    BY <1>2, <1>3, <2>1, <2>3 DEF ProgramExit, Attempt
  <2>4. CASE failure = "none" /\ ~ (col > 0)
    BY <1>0, <1>3, <2>1, <2>4, SameSizeTypes
    DEF ProgramExit, Attempt, TypeInv, TypeOK, size, cursor, margins, modes, saved, screen
  <2>5. QED
    BY <2>2, <2>3, <2>4
<1>4. CASE NoticePrint
  <2>1. CASE InsertFault(buffer, 1) = "none"
    <3>1. /\ row' \in Int /\ col' \in Nat
          /\ buffer' \in [Rows -> LineOf(num_cols)]
          /\ history' \in Seq(AnyLine) /\ Len(history') <= MaxHistory
      BY <1>0, <1>4, <2>1, InsertTypes DEF NoticePrint, Attempt
    <3>2. notice' \in 0 .. NoticeLen + 1
      BY <1>0, <1>4, <2>1, ConstantsAssumption DEF NoticePrint, Attempt
    <3>3. UNCHANGED <<size, margins, modes, tab_stops, saved, fault>>
      BY <1>4, <2>1 DEF NoticePrint, Attempt
    <3>4. QED
      BY <3>1, <3>2, <3>3, SameSizeTypes
      DEF TypeInv, TypeOK, size, margins, modes, saved
  <2>2. CASE InsertFault(buffer, 1) # "none"
    BY <1>4, <2>2, FailureTypes, FaultTypes DEF NoticePrint, Attempt
  <2>3. QED
    BY <2>1, <2>2
<1>5. CASE NoticeEnd
  <2>1. CASE DropFault(row + 1) = "none"
    BY <1>2, <1>5, <2>1, ConstantsAssumption DEF NoticeEnd, Attempt
  <2>2. CASE DropFault(row + 1) # "none"
    BY <1>5, <2>2, FailureTypes, FaultTypes DEF NoticeEnd, Attempt
  <2>3. QED
    BY <2>1, <2>2
<1>6. QED
  BY <1>1, <1>3, <1>4, <1>5 DEF Outside

LEMMA InitTypes ==
  ASSUME Init
  PROVE  TypeInv
<1>1. num_rows = StartRows /\ num_cols = StartCols
  BY DEF Init
<1>2. Blank \in Cell
  BY DEF Cell
<1>3. buffer \in [Rows -> LineOf(num_cols)]
  BY <1>1, <1>2 DEF Init, Rows, LineOf
<1>4. tab_stops \subseteq Columns
  BY <1>1, ConstantsAssumption DEF Init, TabStops, Columns
<1>5. history \in Seq(AnyLine) /\ Len(history) <= MaxHistory
  BY ConstantsAssumption, EmptySeq DEF Init
<1>6. QED
  BY <1>1, <1>3, <1>4, <1>5, ConstantsAssumption DEF Init, TypeInv, TypeOK

\* TypeInv is inductive.
LEMMA TypeStep ==
  ASSUME TypeInv, [Next]_vars
  PROVE  TypeInv'
<1>1. CASE Next
  BY <1>1, PrintingTypes, MovingTypes, SettingTypes, EditingTypes, OutsideTypes DEF Next
<1>2. CASE UNCHANGED vars
  BY <1>2, SameSizeTypes
  DEF vars, TypeInv, TypeOK, size, cursor, margins, modes, saved, screen
<1>3. QED
  BY <1>1, <1>2

\* The buffer keeps the shape of the screen, the tab stops stay columns and the
\* history stays within MAX_HISTORY_LINES, whatever the program sends and
\* however the window is resized.
THEOREM TypeSafety == Spec => []TypeOK
<1>1. Init => TypeInv
  BY InitTypes
<1>2. TypeInv /\ [Next]_vars => TypeInv'
  BY TypeStep
<1>3. TypeInv => TypeOK
  BY DEF TypeInv
<1>4. QED
  BY <1>1, <1>2, <1>3, PTL DEF Spec
-----------------------------------------------------------------------------
(* Safety of the screen                                                    *)

Safe == MarginsOnScreen /\ CursorOnScreen /\ AssertsHold

\* The inductive invariant: neither the cursor nor the margins can be followed
\* without the other (origin mode clamps the cursor to the margins, a line feed
\* compares the cursor with them), and both need the types.
SafeInv == TypeInv /\ Safe

\* The arithmetic of a safe screen.
LEMMA SafeNumbers ==
  ASSUME SafeInv
  PROVE  /\ num_rows \in Nat /\ num_cols \in Nat \ {0} /\ num_rows >= 2
         /\ row \in Nat /\ row < num_rows /\ col \in Nat /\ col <= num_cols
         /\ scroll_top \in Nat /\ scroll_bottom \in Nat
         /\ scroll_top < scroll_bottom /\ scroll_bottom < num_rows
BY DEF SafeInv, Safe, TypeInv, TypeOK, MarginsOnScreen, MarginsFit, CursorOnScreen, Rows

\* Every control function needs the program to be running.
LEMMA StepsRun ==
  ASSUME Next
  PROVE  fault = "none"
<1>1. CASE Printing
  BY <1>1 DEF Printing, PrintAscii, PrintUtf8, Running
<1>2. CASE Moving
  BY <1>2 DEF Moving, CarriageReturn, BackSpace, Tab, CUU, CUD, CUF, CUB, CNL, CPL, CHA, VPA,
              CUPRow, CUP, Home, EscMove, EscNextLine, SaveCursor, RestoreCursor, Running
<1>3. CASE Setting
  BY <1>3 DEF Setting, DECSTBM, DECOM, DECAWM, IRM, DECCOLM, HTS, TBC, TBCAll, Running
<1>4. CASE Editing
  BY <1>4 DEF Editing, LineFeed, ReverseIndex, DECALN, EL, ED, DCH, ICH, ECH, IL, DL, SU, Running
<1>5. CASE Outside
  BY <1>5 DEF Outside, Resize, ProgramExit, NoticePrint, NoticeEnd, Running
<1>6. QED
  BY <1>1, <1>2, <1>3, <1>4, <1>5 DEF Next

\* A step that keeps the size and the margins, and fails no assert.
LEMMA CursorStepSafe ==
  ASSUME SafeInv, UNCHANGED size, UNCHANGED margins,
         row' \in 0 .. num_rows - 1, col' \in 0 .. num_cols, fault' # "assert"
  PROVE  Safe'
BY SafeNumbers
DEF Safe, MarginsOnScreen, MarginsFit, CursorOnScreen, Rows, AssertsHold, size, margins

\* A step that leaves the cursor where it was.
LEMMA StillSafe ==
  ASSUME SafeInv, UNCHANGED size, UNCHANGED margins, UNCHANGED cursor, fault' # "assert"
  PROVE  Safe'
<1>1. row' \in 0 .. num_rows - 1 /\ col' \in 0 .. num_cols
  BY SafeNumbers DEF cursor
<1>2. QED
  BY <1>1, CursorStepSafe

\* A step that indexes a vector out of range changes nothing else.
LEMMA FailureSafe ==
  ASSUME SafeInv, fault' = "bounds", UNCHANGED <<size, cursor, margins, modes>>
  PROVE  Safe'
BY StillSafe

\* Clamping puts the cursor on the screen, in origin mode too.
LEMMA ClampedSafe ==
  ASSUME SafeInv, fault = "none", NEW r \in Int, NEW c \in Int, ClampCursor(r, c), OnlyCursor
  PROVE  Safe'
<1>low. Low(r) \in Int /\ Low(c) \in Int
  BY LowIsInt
<1>1. ClampRow(Low(r)) \in 0 .. num_rows - 1
  BY <1>low, SafeNumbers DEF ClampRow, Clamp
<1>2. ClampCol(Low(c)) \in 0 .. num_cols
  BY <1>low, SafeNumbers DEF ClampCol, Clamp
<1>3. QED
  BY <1>1, <1>2, CursorStepSafe DEF ClampCursor, OnlyCursor

\* A line feed on a safe screen does not fail and stays on the screen.
LEMMA NextLineSafe ==
  ASSUME SafeInv
  PROVE  /\ DropFault(row + 1) = "none"
         /\ DropRow(row + 1) \in 0 .. num_rows - 1
BY SafeNumbers DEF DropFault, DropRow, Overflow

\* So does printing, unless autowrap is off.
LEMMA InsertSafe ==
  ASSUME SafeInv, NEW b, NEW cell, NEW cw \in 0 .. 2
  PROVE  /\ InsertFault(b, cw) # "none" => InsertFault(b, cw) = "bounds" /\ ~enable_wrap
         /\ InsertFault(b, cw) = "none" /\ InsertUtf8(b, cell, cw) =>
              row' \in 0 .. num_rows - 1 /\ col' \in 0 .. num_cols
<1>1. OnScreen /\ col \in 0 .. num_cols
  BY SafeNumbers DEF OnScreen, Rows
<1>2. InsertFault(b, cw) # "none" => InsertFault(b, cw) = "bounds" /\ ~enable_wrap
  BY <1>1, NextLineSafe DEF InsertFault
<1>3. ASSUME InsertFault(b, cw) = "none", InsertUtf8(b, cell, cw)
      PROVE  row' \in 0 .. num_rows - 1 /\ col' \in 0 .. num_cols
  <2>1. CASE cw = 0
    BY <1>3, <2>1, SafeNumbers DEF InsertUtf8, cursor
  <2>2. CASE cw # 0 /\ col + cw <= num_cols
    BY <1>3, <2>2, SafeNumbers DEF InsertUtf8, ColumnAfter, LesserOf
  <2>3. CASE cw # 0 /\ ~ (col + cw <= num_cols) /\ enable_wrap
    <3>1. row' = DropRow(row + 1) /\ col' = ColumnAfter(0, cw)
      BY <1>3, <2>3 DEF InsertUtf8
    <3>2. QED
      BY <3>1, NextLineSafe, SafeNumbers DEF ColumnAfter, LesserOf
  <2>4. CASE cw # 0 /\ ~ (col + cw <= num_cols) /\ ~enable_wrap
    <3>1. ClipColumn(b, cw) \in Nat
      BY <1>1, <1>3, <2>4, ClipColumnNat DEF InsertFault, SafeInv
    <3>2. row' = row /\ col' = ColumnAfter(ClipColumn(b, cw), cw)
      BY <1>3, <2>4 DEF InsertUtf8
    <3>3. QED
      BY <3>1, <3>2, SafeNumbers DEF ColumnAfter, LesserOf
  <2>5. QED
    BY <2>1, <2>2, <2>3, <2>4
<1>4. QED
  BY <1>2, <1>3

LEMMA PrintingSafe ==
  ASSUME SafeInv, fault = "none", Printing
  PROVE  Safe'
<1>1. ASSUME NEW b, NEW cell, NEW cw \in 0 .. 2, NEW failure, failure = InsertFault(b, cw),
             Attempt(failure,
               InsertUtf8(b, cell, cw)
               /\ UNCHANGED <<size, margins, modes, tab_stops, saved, notice>>)
      PROVE  Safe'
  <2>1. CASE failure = "none"
    BY <1>1, <2>1, InsertSafe, CursorStepSafe DEF Attempt
  <2>2. CASE failure # "none"
    <3>1. failure = "bounds" /\ ~enable_wrap
      BY <1>1, <2>2, InsertSafe
    <3>2. QED
      BY <1>1, <3>1, FailureSafe DEF Attempt
  <2>3. QED
    BY <2>1, <2>2
<1>2. ASSUME NEW cell, NEW cw \in 0 .. 2, PrintUtf8(cell, cw)
      PROVE  Safe'
  BY <1>1, <1>2 DEF PrintUtf8
<1>3. ASSUME NEW cell, NEW cw \in 0 .. 2, PrintAscii(cell, cw)
      PROVE  Safe'
  <2>1. OnScreen
    BY SafeNumbers DEF OnScreen, Rows
  <2> DEFINE b == IF insert_mode /\ col < num_cols - 1 THEN MovedRight ELSE buffer
  <2>2. Attempt(InsertFault(b, cw),
          InsertUtf8(b, cell, cw)
          /\ UNCHANGED <<size, margins, modes, tab_stops, saved, notice>>)
    BY <1>3, <2>1 DEF PrintAscii
  <2> HIDE DEF b
  <2>3. QED
    BY <1>1, <2>2
<1>4. QED
  BY <1>2, <1>3 DEF Printing

LEMMA MovingSafe ==
  ASSUME SafeInv, fault = "none", Moving
  PROVE  Safe'
<1>0. /\ row \in Int /\ col \in Int /\ scroll_top \in Int /\ scroll_bottom \in Int
      /\ save_row \in Int /\ save_col \in Int
  BY DEF SafeInv, TypeInv, TypeOK
<1>1. CASE CarriageReturn \/ BackSpace \/ Home
  BY <1>1, SafeNumbers, CursorStepSafe DEF CarriageReturn, BackSpace, Home, OnlyCursor
<1>2. CASE Tab
  <2> DEFINE stops == {c \in tab_stops : c > col}
             c == IF stops = {} THEN num_cols
                  ELSE CHOOSE k \in stops : \A d \in stops : k <= d
  <2>1. ClampCursor(row, c) /\ OnlyCursor
    BY <1>2 DEF Tab
  <2>2. c \in Int
    BY TabTarget DEF SafeInv
  <2> HIDE DEF c
  <2>3. QED
    BY <1>0, <2>1, <2>2, ClampedSafe
<1>3. ASSUME NEW dr \in Int, NEW dc \in Int, MoveCursor(dr, dc), OnlyCursor
      PROVE  Safe'
  <2>1. ClampRow(row) \in Int /\ ClampCol(col) \in Int
    BY SafeNumbers DEF Clamp, ClampRow, ClampCol
  <2>2. QED
    BY <1>0, <1>3, <2>1, ClampedSafe DEF MoveCursor, SetCursor
<1>4. ASSUME NEW p \in Param, CUU(p) \/ CUD(p)
      PROVE  Safe'
  <2> DEFINE up == IF row >= scroll_top THEN -LesserOf(Int_or(p, 1), Low(row - scroll_top))
                                        ELSE -Int_or(p, 1)
             down == IF row <= scroll_bottom THEN LesserOf(Int_or(p, 1), Low(scroll_bottom - row))
                                             ELSE Int_or(p, 1)
  <2>1. Int_or(p, 1) \in Int
    BY ParamInt
  <2>differences. Low(row - scroll_top) \in Int /\ Low(scroll_bottom - row) \in Int
    BY <1>0, LowIsInt
  <2>2. up \in Int /\ down \in Int
    BY <2>1, <2>differences DEF LesserOf
  <2>3. (MoveCursor(up, 0) \/ MoveCursor(down, 0)) /\ OnlyCursor
    BY <1>4 DEF CUU, CUD
  <2> HIDE DEF up, down
  <2>4. QED
    BY <1>3, <2>2, <2>3
<1>5. ASSUME NEW p \in Param, CUF(p) \/ CUB(p) \/ CNL(p) \/ CPL(p) \/ CHA(p)
      PROVE  Safe'
  <2>1. Int_or(p, 1) \in Int
    BY ParamInt
  <2>2. QED
    BY <1>0, <1>5, <2>1, ClampedSafe DEF CUF, CUB, CNL, CPL, CHA, GreaterOf
<1>6. ASSUME NEW p \in Param, VPA(p) \/ CUPRow(p)
      PROVE  Safe'
  <2>1. p - 1 \in Int
    BY ParamInt
  <2>2. (ClampCursor(p - 1, col) \/ ClampCursor(p - 1, 0)) /\ OnlyCursor
    BY <1>6 DEF VPA, CUPRow
  <2>3. QED
    BY <1>0, <2>1, <2>2, ClampedSafe
<1>7. ASSUME NEW p \in Param, NEW q \in Param, CUP(p, q)
      PROVE  Safe'
  <2>1. Int_or(p, row) - 1 \in Int /\ Int_or(q, col) - 1 \in Int
    BY <1>0, ParamInt
  <2>2. ClampCursor(Int_or(p, row) - 1, Int_or(q, col) - 1) /\ OnlyCursor
    BY <1>7 DEF CUP
  <2>3. QED
    BY <2>1, <2>2, ClampedSafe
<1>8. CASE \/ EscMove(-1, 0) \/ EscMove(1, 0) \/ EscMove(0, 1) \/ EscNextLine
           \/ RestoreCursor
  BY <1>0, <1>8, ClampedSafe DEF EscMove, EscNextLine, RestoreCursor
<1>9. CASE SaveCursor
  BY <1>9, StillSafe DEF SaveCursor
<1>10. QED
  BY <1>1, <1>2, <1>4, <1>5, <1>6, <1>7, <1>8, <1>9 DEF Moving

\* A screen of two rows or more, of any size, is safe after a resize.
LEMMA ResizeToSafe ==
  ASSUME SafeInv, fault = "none", NEW h \in Nat, h >= 2, NEW w \in Nat \ {0}, ResizeTo(h, w)
  PROVE  Safe'
<1>1. /\ num_rows' = h /\ num_cols' = w /\ scroll_top' = 0 /\ scroll_bottom' = h - 1
      /\ row' = LesserOf(row, h - 1) /\ col' = LesserOf(col, w - 1) /\ fault' = "none"
  BY DEF ResizeTo
<1>2. row' \in 0 .. h - 1 /\ col' \in 0 .. w
  BY <1>1, SafeNumbers DEF LesserOf
<1>3. QED
  BY <1>1, <1>2
  DEF Safe, MarginsOnScreen, MarginsFit, CursorOnScreen, Rows, AssertsHold

LEMMA SettingSafe ==
  ASSUME FittingProgram, SafeInv, fault = "none", Setting
  PROVE  Safe'
<1>1. ASSUME NEW p \in Param, NEW q \in Param, DECSTBM(p, q)
      PROVE  Safe'
  <2> DEFINE new_top == Low(Int_or(p, 1) - 1)
             new_bottom == Low(Int_or(q, num_rows) - 1)
  <2>1. new_top \in Int /\ new_bottom \in Int
    <3>1. Int_or(p, 1) - 1 \in Int /\ Int_or(q, num_rows) - 1 \in Int
      BY SafeNumbers, ParamInt
    <3>2. QED
      BY <3>1, LowIsInt
  <2>2. /\ new_bottom > new_top => MarginsFit(new_top, new_bottom)
        /\ IF new_bottom > new_top
           THEN /\ scroll_top' = new_top /\ scroll_bottom' = new_bottom
                /\ row' = new_top /\ col' = 0
           ELSE UNCHANGED <<margins, cursor>>
        /\ UNCHANGED <<size, fault>>
    BY <1>1 DEF DECSTBM, FittingProgram
  <2> HIDE DEF new_top, new_bottom
  <2>3. CASE new_bottom > new_top
    <3>1. /\ scroll_top' = new_top /\ scroll_bottom' = new_bottom
          /\ row' = new_top /\ col' = 0
          /\ UNCHANGED <<size, fault>>
      BY <2>2, <2>3
    <3>2. MarginsFit(new_top, new_bottom)
      BY <2>2, <2>3
    <3>3. QED
      BY <2>1, <3>1, <3>2, SafeNumbers
      DEF Safe, MarginsOnScreen, MarginsFit, CursorOnScreen, Rows, AssertsHold, size
  <2>4. CASE ~ (new_bottom > new_top)
    BY <2>2, <2>4, StillSafe
  <2>5. QED
    BY <2>3, <2>4
<1>2. ASSUME NEW on \in BOOLEAN, DECOM(on) \/ DECAWM(on) \/ IRM(on)
      PROVE  Safe'
  BY <1>2, StillSafe DEF DECOM, DECAWM, IRM
<1>3. ASSUME NEW on \in BOOLEAN, DECCOLM(on)
      PROVE  Safe'
  BY <1>3, SafeNumbers, ResizeToSafe, ConstantsAssumption DEF DECCOLM
<1>4. ASSUME NEW stops, SetTabStops(stops)
      PROVE  Safe'
  <2>1. CASE col \in Columns
    BY <1>4, <2>1, StillSafe DEF SetTabStops, Attempt
  <2>2. CASE col \notin Columns
    BY <1>4, <2>2, FailureSafe DEF SetTabStops, Attempt
  <2>3. QED
    BY <2>1, <2>2
<1>5. CASE HTS \/ TBC
  BY <1>4, <1>5 DEF HTS, TBC
<1>6. CASE TBCAll
  BY <1>6, StillSafe DEF TBCAll
<1>7. QED
  BY <1>1, <1>2, <1>3, <1>5, <1>6 DEF Setting

LEMMA EditingSafe ==
  ASSUME SafeInv, fault = "none", Editing
  PROVE  Safe'
<1>0. OnScreen
  BY SafeNumbers DEF OnScreen, Rows
<1>1. CASE LineFeed
  BY <1>1, NextLineSafe, CursorStepSafe, SafeNumbers DEF LineFeed, Attempt, NextLine
<1>2. CASE ReverseIndex
  <2>1. CASE row = scroll_top
    <3>1. scroll_top \in Rows /\ ~ (scroll_bottom >= num_rows)
      BY SafeNumbers DEF Rows
    <3>2. QED
      BY <1>2, <2>1, <3>1, StillSafe DEF ReverseIndex, Attempt, OnlyBuffer
  <2>2. CASE row # scroll_top
    BY <1>2, <2>2, SafeNumbers, ClampedSafe DEF ReverseIndex
  <2>3. QED
    BY <2>1, <2>2
<1>3. CASE DECALN
  BY <1>3, StillSafe DEF DECALN, OnlyBuffer
\* The cursor's line is edited, or a column of it is indexed out of range.
<1>edit. ASSUME NEW S, S \subseteq {"none", "bounds"}, NEW b,
                \E failure \in S : Attempt(failure, buffer' = b /\ OnlyBuffer)
         PROVE  Safe'
  <2>1. PICK failure \in S : Attempt(failure, buffer' = b /\ OnlyBuffer)
    BY <1>edit
  <2>2. UNCHANGED <<size, margins, cursor>> /\ fault' # "assert"
    BY <1>edit, <2>1 DEF Attempt, OnlyBuffer
  <2>3. QED
    BY <2>2, StillSafe
<1>4. ASSUME NEW mode \in 0 .. 2, EL(mode)
      PROVE  Safe'
  BY <1>0, <1>4, StillSafe DEF EL, EditLine, Attempt, OnlyBuffer
<1>5. ASSUME NEW p \in Param, DCH(p) \/ ICH(p) \/ ECH(p)
      PROVE  Safe'
  <2>1. CASE DCH(p)
    <3> DEFINE touched == col < num_cols
               outcomes == IF col >= num_cols THEN {"none"}
                           ELSE IF col + Int_or(p, 1) < 0 THEN {"bounds"}
                           ELSE Compared(num_cols - 1 + Int_or(p, 1))
    <3>1. \E failure \in IF touched /\ ~OnScreen THEN {"bounds"} ELSE outcomes :
            Attempt(failure, buffer' = buffer' /\ OnlyBuffer)
      BY <2>1 DEF DCH, EditLine, Attempt
    <3>2. outcomes \subseteq {"none", "bounds"}
      BY DEF Compared
    <3> HIDE DEF touched, outcomes
    <3>3. QED
      BY <1>0, <1>edit, <3>1, <3>2
  <2>2. CASE ICH(p)
    BY <1>0, <2>2, StillSafe DEF ICH, EditLine, Attempt, OnlyBuffer
  <2>3. CASE ECH(p)
    BY <1>0, <2>3, StillSafe DEF ECH, EditLine, Attempt, OnlyBuffer
  <2>4. QED
    BY <1>5, <2>1, <2>2, <2>3
<1>6. ASSUME NEW mode \in 0 .. 2, ED(mode)
      PROVE  Safe'
  <2>1. CASE EDFault(mode) = "none"
    BY <1>6, <2>1, StillSafe DEF ED, Attempt, OnlyBuffer
  <2>2. CASE EDFault(mode) # "none"
    <3>1. EDFault(mode) = "bounds"
      BY <2>2 DEF EDFault
    <3>2. QED
      BY <1>6, <3>1, FailureSafe DEF ED, Attempt
  <2>3. QED
    BY <2>1, <2>2
<1>7. ASSUME NEW lo, NEW outcomes, outcomes \subseteq {"none", "bounds"}, NEW lines,
             NEW c \in 0 .. num_cols, MoveLines(lo, outcomes, lines, c)
      PROVE  Safe'
  <2>1. PICK failure \in IF lo < 0 \/ scroll_bottom >= num_rows THEN {"bounds"} ELSE outcomes :
          Attempt(failure,
            /\ buffer' = lines
            /\ col' = c
            /\ UNCHANGED <<size, row, margins, modes, tab_stops, saved, history, notice>>)
    BY <1>7 DEF MoveLines
  <2>2. CASE failure = "none"
    BY <1>7, <2>1, <2>2, SafeNumbers, CursorStepSafe DEF Attempt
  <2>3. CASE failure # "none"
    BY <1>7, <2>1, <2>3, FailureSafe DEF Attempt
  <2>4. QED
    BY <2>2, <2>3
<1>8. ASSUME NEW p \in Param, IL(p) \/ DL(p) \/ SU(p)
      PROVE  Safe'
  <2>1. 0 \in 0 .. num_cols /\ col \in 0 .. num_cols
    BY SafeNumbers
  <2>2. ASSUME NEW lo, NEW n, NEW c \in 0 .. num_cols, MoveUp(lo, n, c) \/ MoveDown(lo, n, c)
        PROVE  Safe'
    <3> DEFINE up == IF lo + n < 0 THEN {"bounds"} ELSE Compared(scroll_bottom + n)
               down == IF n < 0 /\ lo - n <= IntMax /\ scroll_bottom - n >= num_rows
                       THEN {"bounds"} ELSE Compared(lo - n)
               raised == IF n < 0 THEN SmearDown(lo, -n) ELSE ShiftUp(lo, n)
               lowered == IF n >= 0 THEN ShiftDown(lo, n)
                          ELSE IF lo - n > IntMax THEN ShiftDown(lo, num_rows)
                          ELSE SmearUp(lo, -n)
    <3>1. MoveLines(lo, up, raised, c) \/ MoveLines(lo, down, lowered, c)
      BY <2>2 DEF MoveUp, MoveDown
    <3>2. up \subseteq {"none", "bounds"} /\ down \subseteq {"none", "bounds"}
      BY DEF Compared
    <3> HIDE DEF up, down, raised, lowered
    <3>3. QED
      BY <1>7, <3>1, <3>2
  <2>3. QED
    BY <1>8, <2>1, <2>2 DEF IL, DL, SU
<1>9. QED
  BY <1>1, <1>2, <1>3, <1>4, <1>5, <1>6, <1>8 DEF Editing

LEMMA OutsideSafe ==
  ASSUME FittingProgram, SafeInv, fault = "none", Outside
  PROVE  Safe'
<1>1. ASSUME NEW s \in Sizes, Resize(s[1], s[2])
      PROVE  Safe'
  <2>1. s[1] \in Nat /\ s[1] >= 2 /\ s[2] \in Nat \ {0}
    BY ConstantsAssumption DEF FittingProgram
  <2>2. QED
    BY <1>1, <2>1, ResizeToSafe DEF Resize
<1>2. CASE ProgramExit
  <2>1. CASE col > 0
    BY <1>2, <2>1, NextLineSafe, CursorStepSafe, SafeNumbers DEF ProgramExit, Attempt, NextLine
  <2>2. CASE ~ (col > 0)
    BY <1>2, <2>2, StillSafe DEF ProgramExit, Attempt
  <2>3. QED
    BY <2>1, <2>2
<1>3. CASE NoticePrint
  <2>1. CASE InsertFault(buffer, 1) = "none"
    BY <1>3, <2>1, InsertSafe, CursorStepSafe DEF NoticePrint, Attempt
  <2>2. CASE InsertFault(buffer, 1) # "none"
    <3>1. InsertFault(buffer, 1) = "bounds" /\ ~enable_wrap
      BY <2>2, InsertSafe
    <3>2. QED
      BY <1>3, <3>1, FailureSafe DEF NoticePrint, Attempt
  <2>3. QED
    BY <2>1, <2>2
<1>4. CASE NoticeEnd
  BY <1>4, NextLineSafe, CursorStepSafe, SafeNumbers DEF NoticeEnd, Attempt, NextLine
<1>5. QED
  BY <1>1, <1>2, <1>3, <1>4 DEF Outside

LEMMA InitSafe ==
  ASSUME FittingProgram, Init
  PROVE  Safe
BY ConstantsAssumption
DEF Init, FittingProgram, Safe, MarginsOnScreen, MarginsFit, CursorOnScreen, Rows, AssertsHold

\* SafeInv is inductive, for programs whose margins fit.
LEMMA SafeInvariant ==
  ASSUME FittingProgram
  PROVE  Spec => []SafeInv
<1>1. Init => SafeInv
  BY InitTypes, InitSafe DEF SafeInv
<1>2. SafeInv /\ [Next]_vars => SafeInv'
  <2> SUFFICES ASSUME SafeInv, [Next]_vars
               PROVE  SafeInv'
    OBVIOUS
  <2>1. TypeInv'
    BY TypeStep DEF SafeInv
  <2>2. Safe'
    <3>1. CASE Next
      <4>1. fault = "none"
        BY <3>1, StepsRun
      <4>2. QED
        BY <3>1, <4>1, PrintingSafe, MovingSafe, SettingSafe, EditingSafe, OutsideSafe DEF Next
    <3>2. CASE UNCHANGED vars
      BY <3>2 DEF vars, SafeInv, Safe, MarginsOnScreen, MarginsFit, CursorOnScreen, Rows,
                  AssertsHold, size, cursor, margins, modes
    <3>3. QED
      BY <3>1, <3>2
  <2>3. QED
    BY <2>1, <2>2 DEF SafeInv
<1>3. QED
  BY <1>1, <1>2, PTL DEF Spec

\* With margins that fit and screens of two rows or more, for every size, every
\* length of history and every mix of control functions, with numbers of either
\* sign, resizes and restarts: the cursor and the margins stay on the screen, and
\* the asserts of InsertUtf8 and DropFirstRowIfOverflow hold.
THEOREM ScreenSafety ==
  ASSUME FittingProgram
  PROVE  Spec => [](MarginsOnScreen /\ CursorOnScreen /\ AssertsHold)
<1>1. SafeInv => MarginsOnScreen /\ CursorOnScreen /\ AssertsHold
  BY DEF SafeInv, Safe
<1>2. QED
  BY <1>1, SafeInvariant, PTL

\* The margins alone: two rows of the screen, in order, whatever resizes, CSI r
\* and restarts come after one another.
THEOREM MarginsStayOnScreen ==
  ASSUME FittingProgram
  PROVE  Spec => []MarginsOnScreen
BY ScreenSafety, PTL

\* The asserts alone: those of InsertUtf8 about the cursor and the one of
\* DropFirstRowIfOverflow about the margins.
THEOREM AssertsNeverFail ==
  ASSUME FittingProgram
  PROVE  Spec => []AssertsHold
BY ScreenSafety, PTL
-----------------------------------------------------------------------------
(* What indexes a vector out of range                                      *)

\* A character is printed out of range only with autowrap off.
LEMMA PrintingExplained ==
  ASSUME SafeInv, fault = "none", Printing \/ NoticePrint, fault' = "bounds"
  PROVE  ~enable_wrap
<1>1. ASSUME NEW b, NEW cell, NEW cw \in 0 .. 2, InsertFault(b, cw) # "none"
      PROVE  ~enable_wrap
  BY <1>1, InsertSafe
<1>2. ASSUME NEW cell, NEW cw \in 0 .. 2, PrintUtf8(cell, cw)
      PROVE  ~enable_wrap
  <2>1. InsertFault(buffer, cw) # "none"
    BY <1>2 DEF PrintUtf8, Attempt
  <2>2. QED
    BY <1>1, <2>1
<1>3. ASSUME NEW cell, NEW cw \in 0 .. 2, PrintAscii(cell, cw)
      PROVE  ~enable_wrap
  <2> DEFINE b == IF insert_mode /\ col < num_cols - 1 THEN MovedRight ELSE buffer
  <2>1. OnScreen
    BY SafeNumbers DEF OnScreen, Rows
  <2>2. InsertFault(b, cw) # "none"
    BY <1>3, <2>1 DEF PrintAscii, Attempt
  <2> HIDE DEF b
  <2>3. QED
    BY <1>1, <2>2
<1>4. CASE NoticePrint
  <2>1. InsertFault(buffer, 1) # "none"
    BY <1>4 DEF NoticePrint, Attempt
  <2>2. QED
    BY <1>1, <2>1
<1>5. QED
  BY <1>2, <1>3, <1>4 DEF Printing

\* Lines are moved out of range only by a count that is not an ordinary one.
LEMMA MovedLinesExplained ==
  ASSUME SafeInv, fault = "none", NEW p \in Param, IL(p) \/ DL(p) \/ SU(p), fault' = "bounds"
  PROVE  ~Ordinary(p)
<1> SUFFICES ASSUME Ordinary(p)
             PROVE  FALSE
  OBVIOUS
<1> DEFINE n == Int_or(p, 1)
<1>1. n \in Int /\ 0 <= n /\ n + 2 * num_rows <= IntMax
  BY ParamInt DEF Ordinary
<1> HIDE DEF n
<1>2. ASSUME NEW lo \in Nat, NEW lines, NEW c, MoveLines(lo, {"none"}, lines, c)
      PROVE  FALSE
  BY <1>2, SafeNumbers DEF MoveLines, Attempt
<1>3. ASSUME NEW lo \in Nat, lo < num_rows, NEW c, MoveUp(lo, n, c)
      PROVE  FALSE
  <2>1. ~ (lo + n < 0) /\ ~ (scroll_bottom + n > IntMax)
    BY <1>1, <1>3, SafeNumbers, ConstantsAssumption
  <2>2. MoveLines(lo, {"none"}, IF n < 0 THEN SmearDown(lo, -n) ELSE ShiftUp(lo, n), c)
    BY <1>3, <2>1 DEF MoveUp, Compared
  <2>3. QED
    BY <1>2, <1>3, <2>2
<1>4. ASSUME NEW lo \in Nat, lo < num_rows, NEW c, MoveDown(lo, n, c)
      PROVE  FALSE
  <2>1. ~ (n < 0) /\ n >= 0 /\ ~ (lo - n > IntMax)
    BY <1>1, <1>4, SafeNumbers, ConstantsAssumption
  <2>2. MoveLines(lo, {"none"}, ShiftDown(lo, n), c)
    BY <1>4, <2>1 DEF MoveDown, Compared
  <2>3. QED
    BY <1>2, <1>4, <2>2
<1>5. /\ row \in Nat /\ row < num_rows /\ scroll_top \in Nat /\ scroll_top < num_rows
  BY SafeNumbers
<1>6. QED
  BY <1>3, <1>4, <1>5 DEF IL, DL, SU, n

\* Editing with ordinary counts goes out of range with a wrap pending only.
LEMMA EditingExplained ==
  ASSUME SafeInv, fault = "none", OrdinaryEditing, fault' = "bounds"
  PROVE  col = num_cols
<1>0. OnScreen
  BY SafeNumbers DEF OnScreen, Rows
<1>1. ~LineFeed
  BY NextLineSafe DEF LineFeed, Attempt
<1>2. ~ReverseIndex
  <2>1. scroll_top \in Rows /\ ~ (scroll_bottom >= num_rows)
    BY SafeNumbers DEF Rows
  <2>2. QED
    BY <2>1 DEF ReverseIndex, Attempt, OnlyCursor
<1>3. ~DECALN
  BY DEF DECALN
<1>4. ASSUME NEW mode \in 0 .. 2
      PROVE  ~EL(mode)
  BY <1>0 DEF EL, EditLine, Attempt
<1>5. ASSUME NEW mode \in 0 .. 2, ED(mode)
      PROVE  col = num_cols
  <2>1. EDFault(mode) # "none"
    BY <1>5 DEF ED, Attempt
  <2>2. QED
    BY <1>0, <2>1, SafeNumbers DEF EDFault
<1>6. ASSUME NEW p \in Param
      PROVE  ~ECH(p)
  BY <1>0 DEF ECH, EditLine, Attempt
<1>edit. ASSUME NEW touched, NEW b,
                \E failure \in IF touched /\ ~OnScreen THEN {"bounds"} ELSE {"none"} :
                  Attempt(failure, buffer' = b /\ OnlyBuffer)
         PROVE  FALSE
  BY <1>0, <1>edit DEF Attempt
<1>7. ASSUME NEW p \in Param, DCH(p), Ordinary(p)
      PROVE  FALSE
  <2> DEFINE del == Int_or(p, 1)
             touched == col < num_cols
             outcomes == IF col >= num_cols THEN {"none"}
                         ELSE IF col + del < 0 THEN {"bounds"} ELSE Compared(num_cols - 1 + del)
  <2>1. \E failure \in IF touched /\ ~OnScreen THEN {"bounds"} ELSE outcomes :
          Attempt(failure, buffer' = buffer' /\ OnlyBuffer)
    BY <1>7 DEF DCH, EditLine, Attempt
  <2>2. ~ (col + del < 0) /\ ~ (num_cols - 1 + del > IntMax)
    <3>1. del \in Int /\ 0 <= del /\ del + num_cols <= IntMax
      BY <1>7, ParamInt DEF Ordinary
    <3> HIDE DEF del
    <3>2. QED
      BY <3>1, SafeNumbers, ConstantsAssumption
  <2>3. outcomes = {"none"}
    BY <2>2 DEF Compared
  <2> HIDE DEF touched, outcomes
  <2>4. QED
    BY <1>edit, <2>1, <2>3
<1>8. ASSUME NEW p \in Param, ICH(p), Ordinary(p)
      PROVE  FALSE
  BY <1>0, <1>8, ParamInt DEF Ordinary, ICH, EditLine, Attempt
<1>9. ASSUME NEW p \in Param, Ordinary(p)
      PROVE  ~ (DCH(p) \/ ICH(p) \/ IL(p) \/ DL(p) \/ SU(p))
  BY <1>7, <1>8, <1>9, MovedLinesExplained
<1>10. QED
  BY <1>1, <1>2, <1>3, <1>4, <1>5, <1>6, <1>9, Zenon DEF OrdinaryEditing

\* What is left of the steps fails with a wrap pending only.
LEMMA OthersExplained ==
  ASSUME SafeInv, fault = "none", Moving \/ Setting \/ Outside, ~NoticePrint, fault' = "bounds"
  PROVE  col = num_cols
<1>1. ~Moving
  <2> SUFFICES ASSUME Moving
               PROVE  UNCHANGED fault
    OBVIOUS
  <2>1. QED
    BY DEF Moving, CarriageReturn, BackSpace, Tab, CUU, CUD, CUF, CUB, CNL, CPL, CHA, VPA, CUPRow,
           CUP, Home, EscMove, EscNextLine, SaveCursor, RestoreCursor, OnlyCursor
<1>2. ASSUME NEW stops, SetTabStops(stops)
      PROVE  col = num_cols
  <2>1. col \notin Columns
    BY <1>2 DEF SetTabStops, Attempt
  <2>2. QED
    BY <2>1, SafeNumbers DEF Columns
<1>3. CASE Setting
  <2>1. ASSUME NEW p \in Param, NEW q \in Param
        PROVE  ~DECSTBM(p, q)
    BY DEF DECSTBM
  <2>2. ASSUME NEW on \in BOOLEAN
        PROVE  ~ (DECOM(on) \/ DECAWM(on) \/ IRM(on) \/ DECCOLM(on))
    BY DEF DECOM, DECAWM, IRM, DECCOLM, ResizeTo
  <2>3. ~TBCAll
    BY DEF TBCAll
  <2>4. QED
    BY <1>2, <1>3, <2>1, <2>2, <2>3 DEF Setting, HTS, TBC
<1>4. ~ (Outside /\ ~NoticePrint)
  <2>1. ASSUME NEW s \in Sizes
        PROVE  ~Resize(s[1], s[2])
    BY DEF Resize, ResizeTo
  <2>2. ~ProgramExit /\ ~NoticeEnd
    BY NextLineSafe DEF ProgramExit, NoticeEnd, Attempt
  <2>3. QED
    BY <2>1, <2>2 DEF Outside
<1>5. QED
  BY <1>1, <1>3, <1>4

\* Of all the functions, with numbers of either sign and any size, only these
\* index beyond the screen: ED 1, HTS and TBC with a wrap pending, a wide
\* character that finds no place to clip to with autowrap off, and DCH, ICH, IL,
\* DL and SU with a count that is negative or next to INT_MAX, of which the
\* property does not speak.
THEOREM OutOfRangeIsExplained ==
  ASSUME FittingProgram
  PROVE  Spec => OutOfRangeExplained
<1>1. SafeInv /\ [Next]_vars =>
        [fault' = "bounds" /\ col # num_cols /\ enable_wrap => ~OrdinaryStep]_vars
  <2> SUFFICES ASSUME SafeInv, Next, fault' = "bounds", OrdinaryStep
               PROVE  col = num_cols \/ ~enable_wrap
    OBVIOUS
  <2>1. fault = "none"
    BY StepsRun
  <2>2. CASE Printing \/ NoticePrint
    BY <2>1, <2>2, PrintingExplained
  <2>3. CASE OrdinaryEditing
    BY <2>1, <2>3, EditingExplained
  <2>4. CASE (Moving \/ Setting \/ Outside) /\ ~NoticePrint
    BY <2>1, <2>4, OthersExplained
  <2>5. QED
    BY <2>2, <2>3, <2>4 DEF OrdinaryStep
<1>2. QED
  BY <1>1, SafeInvariant, PTL DEF Spec, OutOfRangeExplained
-----------------------------------------------------------------------------
(* Where the cursor's column comes from                                    *)

\* The column is one of the screen's, or the pending one after the last.
ColumnInv == TypeInv /\ col <= num_cols

\* What a step that does not print does to the column: it stays, on a screen of
\* the same size, or it goes to a column of the screen.
Replaces == col' \in Nat /\ col' < num_cols'
Leaves == col' = col /\ UNCHANGED size

LEMMA ColumnNumbers ==
  ASSUME ColumnInv
  PROVE  /\ num_cols \in Nat \ {0} /\ num_rows \in Nat /\ row \in Int
         /\ col \in Nat /\ col <= num_cols
BY DEF ColumnInv, TypeInv, TypeOK

\* Clamping puts the column on the screen.
LEMMA ClampedColumn ==
  ASSUME ColumnInv, NEW r, NEW c \in Int, ClampCursor(r, c), OnlyCursor
  PROVE  Replaces
<1>1. Low(c) \in Int
  BY LowIsInt
<1>2. QED
  BY <1>1, ColumnNumbers DEF ClampCursor, ClampCol, Clamp, OnlyCursor, Replaces, size

LEMMA MovingColumn ==
  ASSUME ColumnInv, Moving
  PROVE  Replaces \/ Leaves
<1>0. /\ row \in Int /\ col \in Nat /\ num_cols \in Nat \ {0} /\ col <= num_cols
      /\ scroll_top \in Int /\ scroll_bottom \in Int /\ save_row \in Int /\ save_col \in Int
  BY DEF ColumnInv, TypeInv, TypeOK
<1>1. CASE CarriageReturn \/ BackSpace \/ Home
  BY <1>0, <1>1 DEF CarriageReturn, BackSpace, Home, OnlyCursor, Replaces, Leaves, size
<1>2. CASE Tab
  <2> DEFINE stops == {c \in tab_stops : c > col}
             c == IF stops = {} THEN num_cols
                  ELSE CHOOSE k \in stops : \A d \in stops : k <= d
  <2>1. c \in Int
    BY TabTarget DEF ColumnInv
  <2>2. ClampCursor(row, c) /\ OnlyCursor
    BY <1>2 DEF Tab
  <2> HIDE DEF c
  <2>3. QED
    BY <2>1, <2>2, ClampedColumn
<1>3. ASSUME NEW d, MoveCursor(d, 0), OnlyCursor
      PROVE  Replaces
  <2>1. ClampCol(col) + 0 \in Int
    BY <1>0 DEF Clamp, ClampCol
  <2>2. QED
    BY <1>3, <2>1, ClampedColumn DEF MoveCursor, SetCursor
<1>4. ASSUME NEW p \in Param, CUU(p) \/ CUD(p)
      PROVE  Replaces
  <2> DEFINE up == IF row >= scroll_top THEN -LesserOf(Int_or(p, 1), Low(row - scroll_top))
                                        ELSE -Int_or(p, 1)
             down == IF row <= scroll_bottom THEN LesserOf(Int_or(p, 1), Low(scroll_bottom - row))
                                             ELSE Int_or(p, 1)
  <2>1. (MoveCursor(up, 0) \/ MoveCursor(down, 0)) /\ OnlyCursor
    BY <1>4 DEF CUU, CUD
  <2> HIDE DEF up, down
  <2>2. QED
    BY <1>3, <2>1
<1>5. ASSUME NEW p \in Param, CUF(p) \/ CUB(p) \/ CNL(p) \/ CPL(p) \/ CHA(p)
      PROVE  Replaces
  <2>1. Int_or(p, 1) \in Int
    BY ParamInt
  <2>2. QED
    BY <1>0, <1>5, <2>1, ClampedColumn DEF CUF, CUB, CNL, CPL, CHA, GreaterOf
<1>6. ASSUME NEW p \in Param, VPA(p) \/ CUPRow(p)
      PROVE  Replaces
  BY <1>0, <1>6, ParamInt, ClampedColumn DEF VPA, CUPRow
<1>7. ASSUME NEW p \in Param, NEW q \in Param, CUP(p, q)
      PROVE  Replaces
  <2>1. Int_or(q, col) - 1 \in Int
    BY <1>0, ParamInt
  <2>2. ClampCursor(Int_or(p, row) - 1, Int_or(q, col) - 1) /\ OnlyCursor
    BY <1>7 DEF CUP
  <2>3. QED
    BY <2>1, <2>2, ClampedColumn
<1>8. CASE \/ EscMove(-1, 0) \/ EscMove(1, 0) \/ EscMove(0, 1) \/ EscNextLine
           \/ RestoreCursor
  BY <1>0, <1>8, ClampedColumn DEF EscMove, EscNextLine, RestoreCursor
<1>9. CASE SaveCursor
  BY <1>9 DEF SaveCursor, Leaves, cursor
<1>10. QED
  BY <1>1, <1>2, <1>4, <1>5, <1>6, <1>7, <1>8, <1>9 DEF Moving

\* A screen that gets another width takes the column along.
LEMMA ResizeToColumn ==
  ASSUME ColumnInv, NEW h \in Nat, NEW w \in Nat \ {0}, ResizeTo(h, w)
  PROVE  Replaces
BY ColumnNumbers DEF ResizeTo, LesserOf, Replaces

LEMMA SettingColumn ==
  ASSUME ColumnInv, Setting
  PROVE  Replaces \/ Leaves
<1>1. ASSUME NEW p \in Param, NEW q \in Param, DECSTBM(p, q)
      PROVE  Replaces \/ Leaves
  BY <1>1, ColumnNumbers DEF DECSTBM, Replaces, Leaves, size, cursor
<1>2. ASSUME NEW on \in BOOLEAN, DECOM(on) \/ DECAWM(on) \/ IRM(on)
      PROVE  Leaves
  BY <1>2 DEF DECOM, DECAWM, IRM, Leaves, cursor
<1>3. ASSUME NEW on \in BOOLEAN, DECCOLM(on)
      PROVE  Replaces
  BY <1>3, ColumnNumbers, ResizeToColumn, ConstantsAssumption DEF DECCOLM
<1>4. CASE HTS \/ TBC \/ TBCAll
  BY <1>4 DEF HTS, TBC, TBCAll, SetTabStops, Attempt, Leaves, cursor
<1>5. QED
  BY <1>1, <1>2, <1>3, <1>4 DEF Setting

LEMMA EditingColumn ==
  ASSUME ColumnInv, Editing
  PROVE  Replaces \/ Leaves
<1>1. ASSUME NEW failure, NEW lines, Attempt(failure, buffer' = lines /\ OnlyBuffer)
      PROVE  Leaves
  BY <1>1 DEF Attempt, OnlyBuffer, Leaves, cursor
<1>2. ASSUME NEW lo, NEW n, NEW c, c = 0 \/ c = col, MoveUp(lo, n, c) \/ MoveDown(lo, n, c)
      PROVE  Replaces \/ Leaves
  <2>1. UNCHANGED size /\ (col' = c \/ col' = col)
    BY <1>2 DEF MoveUp, MoveDown, MoveLines, Attempt, cursor
  <2>2. QED
    BY <1>2, <2>1, ColumnNumbers DEF Replaces, Leaves, size
<1>3. CASE LineFeed
  BY <1>3 DEF LineFeed, NextLine, Attempt, Leaves, cursor
<1>4. CASE ReverseIndex
  <2>1. CASE row = scroll_top
    BY <1>1, <1>4, <2>1, Zenon DEF ReverseIndex
  <2>2. CASE row # scroll_top
    BY <1>4, <2>2, ColumnNumbers, ClampedColumn DEF ReverseIndex
  <2>3. QED
    BY <2>1, <2>2
<1>5. CASE DECALN
  BY <1>5 DEF DECALN, OnlyBuffer, Leaves, cursor
<1>6. ASSUME NEW mode \in 0 .. 2, EL(mode) \/ ED(mode)
      PROVE  Leaves
  BY <1>6 DEF EL, ED, EditLine, Attempt, OnlyBuffer, Leaves, cursor
<1>7. ASSUME NEW p \in Param, DCH(p) \/ ICH(p) \/ ECH(p)
      PROVE  Leaves
  BY <1>7 DEF DCH, ICH, ECH, EditLine, Attempt, OnlyBuffer, Leaves, cursor
<1>8. ASSUME NEW p \in Param, IL(p) \/ DL(p) \/ SU(p)
      PROVE  Replaces \/ Leaves
  BY <1>2, <1>8 DEF IL, DL, SU
<1>9. QED
  BY <1>3, <1>4, <1>5, <1>6, <1>7, <1>8 DEF Editing

LEMMA OutsideColumn ==
  ASSUME ColumnInv, Outside, ~NoticePrint
  PROVE  Replaces \/ Leaves
<1>1. ASSUME NEW s \in Sizes, Resize(s[1], s[2])
      PROVE  Replaces
  BY <1>1, ResizeToColumn, ConstantsAssumption DEF Resize
<1>2. CASE ProgramExit \/ NoticeEnd
  BY <1>2, ColumnNumbers
  DEF ProgramExit, NoticeEnd, Attempt, NextLine, Replaces, Leaves, cursor, size
<1>3. QED
  BY <1>1, <1>2 DEF Outside

\* Printing goes to the column after the last one at most.
LEMMA InsertColumn ==
  ASSUME ColumnInv, NEW b, NEW cell, NEW cw \in 0 .. 2,
         InsertFault(b, cw) = "none", InsertUtf8(b, cell, cw)
  PROVE  col' \in Nat /\ col' <= num_cols
<1>1. CASE cw = 0
  BY <1>1, ColumnNumbers DEF InsertUtf8, cursor
<1>2. CASE cw # 0 /\ col + cw <= num_cols
  BY <1>2, ColumnNumbers DEF InsertUtf8, ColumnAfter, LesserOf
<1>3. CASE cw # 0 /\ ~ (col + cw <= num_cols) /\ enable_wrap
  <2>1. col' = ColumnAfter(0, cw)
    BY <1>3 DEF InsertUtf8
  <2>2. QED
    BY <2>1, ColumnNumbers DEF ColumnAfter, LesserOf
<1>4. CASE cw # 0 /\ ~ (col + cw <= num_cols) /\ ~enable_wrap
  <2>1. ClipColumn(b, cw) \in Nat
    BY <1>4, ClipColumnNat DEF InsertFault, ColumnInv
  <2>2. col' = ColumnAfter(ClipColumn(b, cw), cw)
    BY <1>4 DEF InsertUtf8
  <2>3. QED
    BY <2>1, <2>2, ColumnNumbers DEF ColumnAfter, LesserOf
<1>5. QED
  BY <1>1, <1>2, <1>3, <1>4

LEMMA PrintingColumn ==
  ASSUME ColumnInv, Printing \/ NoticePrint
  PROVE  col' <= num_cols'
<1>1. ASSUME NEW b, NEW cell, NEW cw \in 0 .. 2, NEW failure,
             failure = "none" => InsertFault(b, cw) = "none" /\ InsertUtf8(b, cell, cw),
             failure # "none" => UNCHANGED cursor,
             UNCHANGED size
      PROVE  col' <= num_cols'
  BY <1>1, InsertColumn, ColumnNumbers DEF size, cursor
<1>2. ASSUME NEW cell, NEW cw \in 0 .. 2, PrintUtf8(cell, cw)
      PROVE  col' <= num_cols'
  BY <1>1, <1>2 DEF PrintUtf8, Attempt
<1>3. ASSUME NEW cell, NEW cw \in 0 .. 2, PrintAscii(cell, cw)
      PROVE  col' <= num_cols'
  <2> DEFINE moves == insert_mode /\ col < num_cols - 1
             b == IF moves THEN MovedRight ELSE buffer
             failure == IF moves /\ ~OnScreen THEN "bounds" ELSE InsertFault(b, cw)
  <2>1. Attempt(failure,
          InsertUtf8(b, cell, cw)
          /\ UNCHANGED <<size, margins, modes, tab_stops, saved, notice>>)
    BY <1>3 DEF PrintAscii
  <2>2. failure = "none" => InsertFault(b, cw) = "none"
    OBVIOUS
  <2> HIDE DEF b, failure
  <2>3. QED
    BY <1>1, <2>1, <2>2 DEF Attempt
<1>4. CASE NoticePrint
  BY <1>1, <1>4 DEF NoticePrint, Attempt
<1>5. QED
  BY <1>2, <1>3, <1>4 DEF Printing

\* What any step does to the column.
LEMMA ColumnStep ==
  ASSUME ColumnInv, [Next]_vars
  PROVE  /\ Printing \/ NoticePrint => col' <= num_cols'
         /\ ~Printing /\ ~NoticePrint => Replaces \/ Leaves
<1>1. CASE UNCHANGED vars
  BY <1>1, ColumnNumbers DEF vars, cursor, size, Leaves
<1>2. CASE Next
  BY <1>2, PrintingColumn, MovingColumn, SettingColumn, EditingColumn, OutsideColumn DEF Next
<1>3. QED
  BY <1>1, <1>2

LEMMA ColumnInvariant == Spec => []ColumnInv
<1>1. Init => ColumnInv
  <2>1. Init => col = 0 /\ num_cols = StartCols
    BY DEF Init
  <2>2. QED
    BY <2>1, InitTypes, ConstantsAssumption DEF ColumnInv
<1>2. ColumnInv /\ [Next]_vars => ColumnInv'
  <2> SUFFICES ASSUME ColumnInv, [Next]_vars
               PROVE  ColumnInv'
    OBVIOUS
  <2>1. TypeInv'
    BY TypeStep DEF ColumnInv
  <2>2. Replaces => col' <= num_cols'
    BY <2>1 DEF Replaces, TypeInv, TypeOK
  <2>3. Leaves => col' <= num_cols'
    BY DEF Leaves, size, ColumnInv
  <2>4. QED
    BY <2>1, <2>2, <2>3, ColumnStep DEF ColumnInv
<1>3. QED
  BY <1>1, <1>2, PTL DEF Spec

\* The column after the last one is reached by printing only: from there every
\* other function goes back onto the screen or leaves screen and cursor as they
\* are.  This needs no assumption about margins or sizes.
THEOREM WrapPendsOnlyAfterPrinting == Spec => WrapPendsAfterPrinting
<1>1. ColumnInv /\ [Next]_vars =>
        [col' = num_cols' => \/ col = num_cols /\ size' = size
                             \/ Printing \/ NoticePrint]_vars
  <2> SUFFICES ASSUME ColumnInv, [Next]_vars, col' = num_cols', ~Printing, ~NoticePrint
               PROVE  col = num_cols /\ size' = size
    OBVIOUS
  <2>1. ~Replaces
    <3>1. num_cols' \in Nat
      BY TypeStep DEF ColumnInv, TypeInv, TypeOK
    <3>2. QED
      BY <3>1 DEF Replaces
  <2>2. Leaves
    BY <2>1, ColumnStep
  <2>3. col' = col /\ num_rows' = num_rows /\ num_cols' = num_cols
    BY <2>2 DEF Leaves, size
  <2>4. QED
    BY <2>3 DEF size
<1>2. QED
  BY <1>1, ColumnInvariant, PTL DEF Spec, WrapPendsAfterPrinting
-----------------------------------------------------------------------------
(* CUU and CUD                                                             *)

\* Where a relative move takes a cursor of the screen.
LEMMA MovedRow ==
  ASSUME SafeInv, NEW d \in Int, MoveCursor(d, 0)
  PROVE  /\ origin_mode =>
              row' = Clamp(Low(Clamp(row, scroll_top, scroll_bottom) + d + scroll_top),
                           scroll_top, scroll_bottom)
         /\ ~origin_mode => row' = Clamp(Low(row + d), 0, num_rows - 1)
<1>1. CASE origin_mode
  BY <1>1 DEF MoveCursor, SetCursor, ClampCursor, ClampRow
<1>2. CASE ~origin_mode
  <2>1. ClampRow(row) = row
    BY <1>2, SafeNumbers DEF ClampRow, Clamp
  <2>2. QED
    BY <1>2, <2>1 DEF MoveCursor, SetCursor, ClampCursor, ClampRow
<1>3. QED
  BY <1>1, <1>2

\* In origin mode the cursor ends between the margins, whatever the count.
LEMMA OriginMove ==
  ASSUME SafeInv, origin_mode, NEW d \in Int, MoveCursor(d, 0), OnlyCursor
  PROVE  InMargins'
<1> DEFINE x == Low(Clamp(row, scroll_top, scroll_bottom) + d + scroll_top)
<1>1. Clamp(row, scroll_top, scroll_bottom) + d + scroll_top \in Int
  BY SafeNumbers DEF Clamp
<1>2. x \in Int
  BY <1>1, LowIsInt
<1>3. row' = Clamp(x, scroll_top, scroll_bottom) /\ UNCHANGED margins
  BY MovedRow DEF OnlyCursor
<1> HIDE DEF x
<1>4. QED
  BY <1>2, <1>3, SafeNumbers DEF Clamp, InMargins, margins

\* The numbers a relative move computes with an ordinary count.
LEMMA OrdinaryNumbers ==
  ASSUME SafeInv, NEW p \in Param, Ordinary(p)
  PROVE  /\ Int_or(p, 1) \in Nat /\ Int_or(p, 1) + 2 * num_rows <= IntMax
         /\ \A x \in Int : -IntMax <= x /\ x <= IntMax => Low(x) = x
         /\ Low(row - scroll_top) = row - scroll_top
         /\ Low(scroll_bottom - row) = scroll_bottom - row
<1>1. Int_or(p, 1) \in Nat /\ Int_or(p, 1) + 2 * num_rows <= IntMax
  BY ParamInt DEF Ordinary
<1>2. IntMax \in Nat /\ num_rows \in Nat /\ 2 * num_rows <= IntMax
  BY <1>1, SafeNumbers, ConstantsAssumption
<1>3. \A x \in Int : -IntMax <= x /\ x <= IntMax => Low(x) = x
  BY <1>2, LowIsInt
<1>4. /\ row - scroll_top \in Int /\ -IntMax <= row - scroll_top /\ row - scroll_top <= IntMax
      /\ scroll_bottom - row \in Int /\ -IntMax <= scroll_bottom - row
      /\ scroll_bottom - row <= IntMax
  BY <1>2, SafeNumbers
<1>5. QED
  BY <1>1, <1>3, <1>4

\* CUU takes the cursor up, and not out of the margins.
LEMMA CUUStep ==
  ASSUME SafeInv, NEW p \in Param, CUU(p)
  PROVE  /\ Ordinary(p) /\ (~origin_mode \/ scroll_top = 0) => row' <= row
         /\ origin_mode \/ (Ordinary(p) /\ InMargins) => InMargins'
<1> DEFINE line == Int_or(p, 1)
           d == IF row >= scroll_top THEN -LesserOf(line, Low(row - scroll_top)) ELSE -line
<1>1. line \in Int /\ Low(row - scroll_top) \in Int
  <2>1. row - scroll_top \in Int
    BY SafeNumbers
  <2>2. QED
    BY <2>1, LowIsInt, ParamInt
<1>2. MoveCursor(d, 0) /\ OnlyCursor
  BY DEF CUU
<1>3. d \in Int
  <2> HIDE DEF line
  <2>1. QED
    BY <1>1 DEF LesserOf
<1>4. origin_mode => InMargins'
  <2> HIDE DEF d
  <2>1. QED
    BY <1>2, <1>3, OriginMove
<1>5. ASSUME Ordinary(p)
      PROVE  /\ ~origin_mode \/ scroll_top = 0 => row' <= row
             /\ ~origin_mode /\ InMargins => InMargins'
  <2>1. /\ line \in Nat /\ line + 2 * num_rows <= IntMax
        /\ \A x \in Int : -IntMax <= x /\ x <= IntMax => Low(x) = x
        /\ Low(row - scroll_top) = row - scroll_top
    BY <1>5, OrdinaryNumbers
  <2>2. /\ d <= 0 /\ -IntMax <= d
        /\ row >= scroll_top => row + d >= scroll_top
    <3> HIDE DEF line
    <3>1. line \in Nat /\ line <= IntMax /\ IntMax \in Nat /\ row - scroll_top <= IntMax
      BY <2>1, SafeNumbers, ConstantsAssumption
    <3>2. d = IF row >= scroll_top THEN -LesserOf(line, row - scroll_top) ELSE -line
      BY <2>1
    <3> HIDE DEF d
    <3>3. QED
      BY <3>1, <3>2, SafeNumbers DEF LesserOf
  <2> HIDE DEF line, d
  <2>3. UNCHANGED margins
    BY <1>2 DEF OnlyCursor
  <2>4. CASE ~origin_mode
    <3>1. Low(row + d) = row + d
      <4>1. row + d \in Int /\ -IntMax <= row + d /\ row + d <= IntMax
        BY <1>3, <2>1, <2>2, SafeNumbers, ConstantsAssumption
      <4>2. QED
        BY <2>1, <4>1
    <3>2. row' = Clamp(row + d, 0, num_rows - 1)
      BY <1>2, <1>3, <2>4, <3>1, MovedRow
    <3>3. QED
      BY <1>3, <2>2, <2>3, <3>2, SafeNumbers DEF Clamp, InMargins, margins
  <2>5. CASE origin_mode
    <3> SUFFICES ASSUME scroll_top = 0
                 PROVE  row' <= row
      BY <2>5
    <3> DEFINE y == Clamp(row, scroll_top, scroll_bottom)
    <3>1. y \in Nat /\ y <= row /\ y < num_rows
      BY SafeNumbers DEF Clamp
    <3>2. row' = Clamp(Low(y + d + scroll_top), scroll_top, scroll_bottom)
      BY <1>2, <1>3, <2>5, MovedRow
    <3> HIDE DEF y
    <3>3. Low(y + d + scroll_top) = y + d
      <4>1. y + d + scroll_top = y + d /\ y + d \in Int /\ -IntMax <= y + d /\ y + d <= IntMax
        BY <1>3, <2>1, <2>2, <3>1, SafeNumbers, ConstantsAssumption
      <4>2. QED
        BY <2>1, <4>1
    <3>4. QED
      BY <1>3, <2>2, <3>1, <3>2, <3>3, SafeNumbers DEF Clamp
  <2>6. QED
    BY <2>4, <2>5
<1>6. QED
  BY <1>4, <1>5

\* CUD takes it down, and not out of the margins.
LEMMA CUDStep ==
  ASSUME SafeInv, NEW p \in Param, CUD(p)
  PROVE  /\ Ordinary(p) /\ (~origin_mode \/ InMargins) => row' >= row
         /\ origin_mode \/ (Ordinary(p) /\ InMargins) => InMargins'
<1> DEFINE line == Int_or(p, 1)
           d == IF row <= scroll_bottom THEN LesserOf(line, Low(scroll_bottom - row)) ELSE line
<1>1. line \in Int /\ Low(scroll_bottom - row) \in Int
  <2>1. scroll_bottom - row \in Int
    BY SafeNumbers
  <2>2. QED
    BY <2>1, LowIsInt, ParamInt
<1>2. MoveCursor(d, 0) /\ OnlyCursor
  BY DEF CUD
<1>3. d \in Int
  <2> HIDE DEF line
  <2>1. QED
    BY <1>1 DEF LesserOf
<1>4. origin_mode => InMargins'
  <2> HIDE DEF d
  <2>1. QED
    BY <1>2, <1>3, OriginMove
<1>5. ASSUME Ordinary(p)
      PROVE  /\ ~origin_mode \/ InMargins => row' >= row
             /\ ~origin_mode /\ InMargins => InMargins'
  <2>1. /\ line \in Nat /\ line + 2 * num_rows <= IntMax
        /\ \A x \in Int : -IntMax <= x /\ x <= IntMax => Low(x) = x
        /\ Low(scroll_bottom - row) = scroll_bottom - row
    BY <1>5, OrdinaryNumbers
  <2>2. /\ d >= 0 /\ d + 2 * num_rows <= IntMax
        /\ row <= scroll_bottom => row + d <= scroll_bottom
    <3> HIDE DEF line
    <3>1. line \in Nat /\ line + 2 * num_rows <= IntMax
      BY <2>1
    <3>2. d = IF row <= scroll_bottom THEN LesserOf(line, scroll_bottom - row) ELSE line
      BY <2>1
    <3> HIDE DEF d
    <3>3. d >= 0 /\ d <= line /\ (row <= scroll_bottom => row + d <= scroll_bottom)
      BY <3>1, <3>2, SafeNumbers DEF LesserOf
    <3>4. QED
      BY <1>3, <3>1, <3>3, SafeNumbers, ConstantsAssumption
  <2> HIDE DEF line, d
  <2>3. UNCHANGED margins
    BY <1>2 DEF OnlyCursor
  <2>4. CASE ~origin_mode
    <3>1. Low(row + d) = row + d
      <4>1. row + d \in Int /\ -IntMax <= row + d /\ row + d <= IntMax
        BY <1>3, <2>2, SafeNumbers, ConstantsAssumption
      <4>2. QED
        BY <2>1, <4>1
    <3>2. row' = Clamp(row + d, 0, num_rows - 1)
      BY <1>2, <1>3, <2>4, <3>1, MovedRow
    <3>3. QED
      BY <1>3, <2>2, <2>3, <3>2, SafeNumbers DEF Clamp, InMargins, margins
  <2>5. CASE origin_mode
    <3> SUFFICES ASSUME InMargins
                 PROVE  row' >= row
      BY <2>5
    <3>1. Clamp(row, scroll_top, scroll_bottom) = row
      BY SafeNumbers DEF Clamp, InMargins
    <3>2. row' = Clamp(Low(row + d + scroll_top), scroll_top, scroll_bottom)
      BY <1>2, <1>3, <2>5, <3>1, MovedRow
    <3>3. Low(row + d + scroll_top) = row + d + scroll_top
      <4>1. /\ row + d + scroll_top \in Int
            /\ -IntMax <= row + d + scroll_top /\ row + d + scroll_top <= IntMax
        BY <1>3, <2>2, SafeNumbers, ConstantsAssumption
      <4>2. QED
        BY <2>1, <4>1
    <3>4. QED
      BY <1>3, <2>2, <3>2, <3>3, SafeNumbers DEF Clamp, InMargins
  <2>6. QED
    BY <2>4, <2>5
<1>6. QED
  BY <1>4, <1>5

\* On screens where the margins fit, CUU and CUD with an ordinary count go the
\* way they say and stay within the margins with origin mode off; with origin
\* mode on they end within the margins whatever the count, CUD goes down from
\* there and CUU goes up when the margins begin at the top of the screen.
THEOREM CursorStaysInMargins ==
  ASSUME FittingProgram
  PROVE  Spec => CursorKeepsMargins
<1>1. SafeInv /\ [Next]_vars =>
        [\A p \in Param :
           /\ row' > row /\ Ordinary(p) /\ (~origin_mode \/ scroll_top = 0) => ~CUU(p)
           /\ row' < row /\ Ordinary(p) /\ (~origin_mode \/ InMargins) => ~CUD(p)
           /\ ~InMargins' /\ (origin_mode \/ (Ordinary(p) /\ InMargins)) => ~(CUU(p) \/ CUD(p))]_vars
  <2> SUFFICES ASSUME SafeInv, [Next]_vars, NEW p \in Param
               PROVE  /\ row' > row /\ Ordinary(p) /\ (~origin_mode \/ scroll_top = 0) => ~CUU(p)
                      /\ row' < row /\ Ordinary(p) /\ (~origin_mode \/ InMargins) => ~CUD(p)
                      /\ ~InMargins' /\ (origin_mode \/ (Ordinary(p) /\ InMargins)) =>
                           ~(CUU(p) \/ CUD(p))
    OBVIOUS
  <2>1. row \in Int /\ row' \in Int
    BY TypeStep DEF SafeInv, TypeInv, TypeOK
  <2>2. CUU(p) => /\ Ordinary(p) /\ (~origin_mode \/ scroll_top = 0) => row' <= row
                  /\ origin_mode \/ (Ordinary(p) /\ InMargins) => InMargins'
    BY CUUStep
  <2>3. CUD(p) => /\ Ordinary(p) /\ (~origin_mode \/ InMargins) => row' >= row
                  /\ origin_mode \/ (Ordinary(p) /\ InMargins) => InMargins'
    BY CUDStep
  <2>4. ~(row' <= row /\ row' > row) /\ ~(row' >= row /\ row' < row)
    BY <2>1
  <2>5. QED
    BY <2>2, <2>3, <2>4
<1>2. QED
  BY <1>1, SafeInvariant, PTL DEF Spec, CursorKeepsMargins
-----------------------------------------------------------------------------
(* What is printed                                                         *)

\* The row a line feed goes to is on the screen when it came from there.
LEMMA DropRowOnScreen ==
  ASSUME TypeInv, OnScreen
  PROVE  DropRow(row + 1) \in Rows
BY DEF TypeInv, TypeOK, OnScreen, Rows, DropRow, Overflow

\* A narrow character stands where it was placed.
LEMMA PlacedThere ==
  ASSUME TypeInv, NEW b \in [Rows -> LineOf(num_cols)], NEW r \in Rows, NEW c \in Columns,
         NEW cell
  PROVE  Place(b, r, c, cell, 1)[r][c] = cell
<1>1. DOMAIN b[r] = Columns
  BY DEF LineOf, Columns
<1>2. Place(b, r, c, cell, 1) = [b EXCEPT ![r] = [@ EXCEPT ![c] = cell]]
  BY DEF Place
<1>3. QED
  BY <1>1, <1>2

\* Where clipping puts a narrow character there is a column.
LEMMA ClipColumnThere ==
  ASSUME TypeInv, NEW b, ClipColumns(b, 1) # {}
  PROVE  ClipColumn(b, 1) \in Columns
<1>1. ClipColumns(b, 1) \subseteq 0 .. num_cols - 1 /\ num_cols - 1 \in Int
  BY DEF ClipColumns, TypeInv, TypeOK
<1>2. \E m \in ClipColumns(b, 1) : \A d \in ClipColumns(b, 1) : d <= m
  BY <1>1, LargestExists
<1>3. ClipColumn(b, 1) \in ClipColumns(b, 1)
  BY <1>2, Zenon DEF ClipColumn
<1>4. QED
  BY <1>1, <1>3 DEF Columns

LEMMA InsertedThere ==
  ASSUME TypeInv, NEW b \in [Rows -> LineOf(num_cols)], NEW cell,
         InsertFault(b, 1) = "none", InsertUtf8(b, cell, 1)
  PROVE  buffer'[row'][col' - 1] = cell
<1>0. /\ num_cols \in Nat \ {0} /\ OnScreen /\ row \in Rows /\ col \in 0 .. num_cols
  BY DEF InsertFault, TypeInv, TypeOK, OnScreen
<1>1. CASE col + 1 <= num_cols
  <2>1. row' = row /\ col' = ColumnAfter(col, 1) /\ buffer' = Place(b, row, col, cell, 1)
    BY <1>1 DEF InsertUtf8
  <2>2. col \in Columns /\ col' - 1 = col
    BY <1>0, <1>1, <2>1 DEF Columns, ColumnAfter, LesserOf
  <2>3. QED
    BY <1>0, <2>1, <2>2, PlacedThere
<1>2. CASE ~ (col + 1 <= num_cols) /\ enable_wrap
  <2> DEFINE r == DropRow(row + 1)
  <2>1. /\ row' = r /\ col' = ColumnAfter(0, 1)
        /\ buffer' = Place(DropBuffer(row + 1), r, 0, cell, 1)
    BY <1>2 DEF InsertUtf8
  <2>2. DropFault(row + 1) = "none" /\ row + 1 \in Int
    BY <1>0, <1>2 DEF InsertFault, TypeInv, TypeOK
  <2>3. DropBuffer(row + 1) \in [Rows -> LineOf(num_cols)]
    BY <2>2, DropShape
  <2>4. r \in Rows
    BY <1>0, DropRowOnScreen
  <2>5. 0 \in Columns /\ col' - 1 = 0
    BY <1>0, <2>1 DEF Columns, ColumnAfter, LesserOf
  <2> HIDE DEF r
  <2>6. QED
    BY <2>1, <2>3, <2>4, <2>5, PlacedThere
<1>3. CASE ~ (col + 1 <= num_cols) /\ ~enable_wrap
  <2> DEFINE c == ClipColumn(b, 1)
  <2>1. row' = row /\ col' = ColumnAfter(c, 1) /\ buffer' = Place(b, row, c, cell, 1)
    BY <1>3 DEF InsertUtf8
  <2>2. c \in Columns
    BY <1>0, <1>3, ClipColumnThere DEF InsertFault
  <2> HIDE DEF c
  <2>3. col' - 1 = c
    BY <1>0, <2>1, <2>2 DEF Columns, ColumnAfter, LesserOf
  <2>4. QED
    BY <1>0, <2>1, <2>2, <2>3, PlacedThere
<1>4. QED
  BY <1>1, <1>2, <1>3

\* Insert mode keeps the shape of the buffer.
LEMMA MovedRightShape ==
  ASSUME TypeInv
  PROVE  MovedRight \in [Rows -> LineOf(num_cols)]
<1>1. ASSUME row \in Rows
      PROVE  [j \in Columns |-> IF j > col THEN buffer[row][j - 1] ELSE buffer[row][j]]
               \in LineOf(num_cols)
  <2>1. \A j \in Columns : j > col => j - 1 \in Columns
    BY DEF TypeInv, TypeOK, Columns
  <2>2. \A j \in Columns : buffer[row][j] \in Cell
    BY <1>1 DEF TypeInv, TypeOK, LineOf, Columns
  <2>3. QED
    BY <2>1, <2>2 DEF LineOf, Columns
<1>2. QED
  BY <1>1 DEF MovedRight, TypeInv, TypeOK

\* A character that has been printed is left of the cursor, in every mode, for
\* every size and whatever the margins are.
THEOREM PrintedIsLeftOfCursor == Spec => PrintedLeftOfCursor
<1>1. ASSUME TypeInv, NEW g, PrintUtf8(g, 1), fault' = "none"
      PROVE  buffer'[row'][col' - 1] = g
  <2>1. InsertFault(buffer, 1) = "none" /\ InsertUtf8(buffer, g, 1)
    BY <1>1 DEF PrintUtf8, Attempt
  <2>2. QED
    BY <1>1, <2>1, InsertedThere DEF TypeInv, TypeOK
<1>2. ASSUME TypeInv, NEW g, PrintAscii(g, 1), fault' = "none"
      PROVE  buffer'[row'][col' - 1] = g
  <2> DEFINE moves == insert_mode /\ col < num_cols - 1
             b == IF moves THEN MovedRight ELSE buffer
             failure == IF moves /\ ~OnScreen THEN "bounds" ELSE InsertFault(b, 1)
  <2>1. Attempt(failure,
          InsertUtf8(b, g, 1) /\ UNCHANGED <<size, margins, modes, tab_stops, saved, notice>>)
    BY <1>2 DEF PrintAscii
  <2>2. failure = "none" => InsertFault(b, 1) = "none"
    OBVIOUS
  <2>3. b \in [Rows -> LineOf(num_cols)]
    BY <1>2, MovedRightShape DEF TypeInv, TypeOK
  <2> HIDE DEF b, failure
  <2>4. InsertFault(b, 1) = "none" /\ InsertUtf8(b, g, 1)
    BY <1>2, <2>1, <2>2 DEF Attempt
  <2>5. QED
    BY <1>2, <2>3, <2>4, InsertedThere
<1>3. TypeInv /\ [Next]_vars =>
        [\A g \in Glyphs : (PrintAscii(g, 1) \/ PrintUtf8(g, 1)) /\ fault' = "none"
           => buffer'[row'][col' - 1] = g]_vars
  BY <1>1, <1>2
<1>4. Init => TypeInv
  BY InitTypes
<1>5. TypeInv /\ [Next]_vars => TypeInv'
  BY TypeStep
<1>6. QED
  BY <1>3, <1>4, <1>5, PTL DEF Spec, PrintedLeftOfCursor
-----------------------------------------------------------------------------
(* The lines a step leaves alone                                           *)

\* What a step may do to the lines of the screen.
KeepsOthers ==
  \A i \in Rows : \/ buffer'[i] = buffer[i]
                  \/ i \in {row, row'}
                  \/ scroll_top <= i /\ i <= scroll_bottom

LEMMA UntouchedLines ==
  ASSUME UNCHANGED buffer
  PROVE  KeepsOthers
BY DEF KeepsOthers

\* Placing a character changes the lines of its row only.
LEMMA PlacedElsewhere ==
  ASSUME NEW b, NEW r, NEW c, NEW cell, NEW cw, DOMAIN b = Rows, NEW i \in Rows, i # r
  PROVE  Place(b, r, c, cell, cw)[i] = b[i]
BY DEF Place

\* A line feed moves lines within the margins only.
LEMMA DroppedElsewhere ==
  ASSUME TypeInv, NEW r, NEW i \in Rows, ~ (scroll_top <= i /\ i <= scroll_bottom)
  PROVE  DropBuffer(r)[i] = buffer[i]
<1>1. i < scroll_top \/ i > scroll_bottom
  BY DEF TypeInv, TypeOK, Rows
<1>2. QED
  BY <1>1 DEF DropBuffer, ShiftUp

\* Printing changes the line it began on, the one it ends on, and the margins.
LEMMA InsertKeeps ==
  ASSUME TypeInv, NEW b \in [Rows -> LineOf(num_cols)], NEW cell, NEW cw,
         \A i \in Rows : i # row => b[i] = buffer[i],
         InsertUtf8(b, cell, cw)
  PROVE  KeepsOthers
<1> SUFFICES ASSUME NEW i \in Rows, i # row, i # row', ~ (scroll_top <= i /\ i <= scroll_bottom)
             PROVE  buffer'[i] = buffer[i]
  BY DEF KeepsOthers
<1>1. DOMAIN b = Rows
  OBVIOUS
<1>2. CASE cw = 0
  BY <1>2 DEF InsertUtf8
<1>3. CASE cw # 0 /\ col + cw <= num_cols
  BY <1>1, <1>3, PlacedElsewhere DEF InsertUtf8
<1>4. CASE cw # 0 /\ ~ (col + cw <= num_cols) /\ enable_wrap
  <2>1. /\ row' = DropRow(row + 1)
        /\ buffer' = Place(DropBuffer(row + 1), DropRow(row + 1), 0, cell, cw)
    BY <1>4 DEF InsertUtf8
  <2>2. DOMAIN DropBuffer(row + 1) = Rows
    BY DEF DropBuffer, ShiftUp, TypeInv, TypeOK
  <2>3. DropBuffer(row + 1)[i] = buffer[i]
    BY DroppedElsewhere
  <2>4. QED
    BY <2>1, <2>2, <2>3, PlacedElsewhere
<1>5. CASE cw # 0 /\ ~ (col + cw <= num_cols) /\ ~enable_wrap
  BY <1>1, <1>5, PlacedElsewhere DEF InsertUtf8
<1>6. QED
  BY <1>2, <1>3, <1>4, <1>5

LEMMA PrintingKeeps ==
  ASSUME TypeInv, Printing \/ NoticePrint
  PROVE  KeepsOthers
<1>1. buffer \in [Rows -> LineOf(num_cols)]
  BY DEF TypeInv, TypeOK
<1>2. ASSUME NEW cell, NEW cw, PrintUtf8(cell, cw)
      PROVE  KeepsOthers
  <2>1. \/ UNCHANGED buffer
        \/ InsertUtf8(buffer, cell, cw)
    BY <1>2 DEF PrintUtf8, Attempt, screen
  <2>2. QED
    BY <1>1, <2>1, InsertKeeps, UntouchedLines
<1>3. ASSUME NEW cell, NEW cw, PrintAscii(cell, cw)
      PROVE  KeepsOthers
  <2> DEFINE moves == insert_mode /\ col < num_cols - 1
             b == IF moves THEN MovedRight ELSE buffer
  <2>1. \/ UNCHANGED buffer
        \/ InsertUtf8(b, cell, cw)
    BY <1>3 DEF PrintAscii, Attempt, screen
  <2>2. b \in [Rows -> LineOf(num_cols)]
    BY <1>1, MovedRightShape
  <2>3. \A i \in Rows : i # row => b[i] = buffer[i]
    BY <1>1 DEF MovedRight
  <2> HIDE DEF b
  <2>4. QED
    BY <2>1, <2>2, <2>3, InsertKeeps, UntouchedLines
<1>4. CASE NoticePrint
  <2>1. \/ UNCHANGED buffer
        \/ InsertUtf8(buffer, NoticeChar, 1)
    BY <1>4 DEF NoticePrint, Attempt, screen
  <2>2. QED
    BY <1>1, <2>1, InsertKeeps, UntouchedLines
<1>5. QED
  BY <1>2, <1>3, <1>4 DEF Printing

\* A resize to the size the screen has changes no line.
LEMMA ResizeToKeeps ==
  ASSUME TypeInv, NEW h, NEW w, ResizeTo(h, w), size' = size
  PROVE  KeepsOthers
<1>1. h = num_rows /\ w = num_cols
  BY DEF ResizeTo, size
<1>2. ASSUME NEW i \in Rows
      PROVE  buffer'[i] = buffer[i]
  <2>1. buffer'[i] = [j \in Columns |-> buffer[i][j]]
    BY <1>1 DEF ResizeTo, Rows, Columns
  <2>2. buffer[i] \in [Columns -> Cell]
    BY DEF TypeInv, TypeOK, LineOf, Columns
  <2>3. QED
    BY <2>1, <2>2
<1>3. QED
  BY <1>2 DEF KeepsOthers

LEMMA SettingKeeps ==
  ASSUME TypeInv, Setting, size' = size
  PROVE  KeepsOthers
<1>1. ASSUME NEW p \in Param, NEW q \in Param, DECSTBM(p, q)
      PROVE  KeepsOthers
  BY <1>1, UntouchedLines DEF DECSTBM, screen
<1>2. ASSUME NEW on \in BOOLEAN, DECOM(on) \/ DECAWM(on) \/ IRM(on)
      PROVE  KeepsOthers
  BY <1>2, UntouchedLines DEF DECOM, DECAWM, IRM, screen
<1>3. ASSUME NEW on \in BOOLEAN, DECCOLM(on)
      PROVE  KeepsOthers
  BY <1>3, ResizeToKeeps DEF DECCOLM
<1>4. CASE HTS \/ TBC \/ TBCAll
  BY <1>4, UntouchedLines DEF HTS, TBC, TBCAll, SetTabStops, Attempt, screen
<1>5. QED
  BY <1>1, <1>2, <1>3, <1>4 DEF Setting

LEMMA MovingKeeps ==
  ASSUME Moving
  PROVE  KeepsOthers
<1>1. UNCHANGED screen
  BY DEF Moving, CarriageReturn, BackSpace, Tab, CUU, CUD, CUF, CUB, CNL, CPL, CHA, VPA, CUPRow,
         CUP, Home, EscMove, EscNextLine, SaveCursor, RestoreCursor, OnlyCursor
<1>2. QED
  BY <1>1, UntouchedLines DEF screen

LEMMA EditingKeeps ==
  ASSUME TypeInv, Editing, ~DECALN, \A mode \in 0 .. 2 : ~ED(mode)
  PROVE  KeepsOthers
<1>0. /\ DOMAIN buffer = Rows
      /\ \A i \in Rows : i \in Int
      /\ row \in Int /\ scroll_top \in Int /\ scroll_bottom \in Int
  BY DEF TypeInv, TypeOK, Rows
<1>line. ASSUME NEW S, NEW line,
                \E failure \in S :
                  Attempt(failure,
                    /\ buffer' = IF OnScreen THEN [buffer EXCEPT ![row] = line] ELSE buffer
                    /\ OnlyBuffer)
         PROVE  KeepsOthers
  <2>1. UNCHANGED buffer \/ buffer' = [buffer EXCEPT ![row] = line]
    BY <1>line DEF Attempt, screen
  <2>2. \A i \in Rows : i # row => buffer'[i] = buffer[i]
    BY <1>0, <2>1
  <2>3. QED
    BY <2>2 DEF KeepsOthers
<1>1. ASSUME NEW p, NEW mode, EL(mode) \/ DCH(p) \/ ICH(p) \/ ECH(p)
      PROVE  KeepsOthers
  <2>1. CASE EL(mode)
    BY <1>line, <2>1 DEF EL, EditLine
  <2>2. CASE DCH(p)
    BY <1>line, <2>2 DEF DCH, EditLine
  <2>3. CASE ICH(p)
    BY <1>line, <2>3 DEF ICH, EditLine
  <2>4. CASE ECH(p)
    BY <1>line, <2>4 DEF ECH, EditLine
  <2>5. QED
    BY <1>1, <2>1, <2>2, <2>3, <2>4
<1>2. CASE LineFeed
  <2>1. UNCHANGED buffer \/ buffer' = DropBuffer(row + 1)
    BY <1>2 DEF LineFeed, Attempt, NextLine, screen
  <2>2. QED
    BY <2>1, UntouchedLines, DroppedElsewhere DEF KeepsOthers
<1>3. ASSUME NEW lo \in Int, scroll_top <= lo, NEW n, NEW lines,
             lines \in {ShiftUp(lo, n), ShiftDown(lo, n), SmearDown(lo, n), SmearUp(lo, n)},
             buffer' = lines
      PROVE  KeepsOthers
  <2> SUFFICES ASSUME NEW i \in Rows, ~ (scroll_top <= i /\ i <= scroll_bottom)
               PROVE  buffer'[i] = buffer[i]
    BY DEF KeepsOthers
  <2>1. i < lo \/ i > scroll_bottom
    BY <1>0, <1>3
  <2>2. QED
    BY <1>3, <2>1 DEF ShiftUp, ShiftDown, SmearDown, SmearUp
<1>4. CASE ReverseIndex
  <2>1. UNCHANGED buffer \/ buffer' = ShiftDown(scroll_top, 1)
    BY <1>4 DEF ReverseIndex, Attempt, OnlyCursor, screen
  <2>2. QED
    BY <1>0, <1>3, <2>1, UntouchedLines
<1>5. ASSUME NEW lo \in Int, scroll_top <= lo, NEW n, NEW c, MoveUp(lo, n, c) \/ MoveDown(lo, n, c)
      PROVE  KeepsOthers
  <2>1. ASSUME NEW outcomes, NEW lines, MoveLines(lo, outcomes, lines, c)
        PROVE  UNCHANGED buffer \/ buffer' = lines
    BY <2>1 DEF MoveLines, Attempt, screen
  <2>2. \/ UNCHANGED buffer
        \/ buffer' \in {SmearDown(lo, -n), ShiftUp(lo, n)}
        \/ buffer' \in {ShiftDown(lo, n), ShiftDown(lo, num_rows), SmearUp(lo, -n)}
    BY <1>5, <2>1 DEF MoveUp, MoveDown
  <2>3. QED
    BY <1>3, <1>5, <2>2, UntouchedLines
<1>6. ASSUME NEW p \in Param, IL(p) \/ DL(p) \/ SU(p)
      PROVE  KeepsOthers
  BY <1>0, <1>5, <1>6 DEF IL, DL, SU, InMargins
<1>7. QED
  BY <1>1, <1>2, <1>4, <1>6 DEF Editing

LEMMA OutsideKeeps ==
  ASSUME TypeInv, Outside, size' = size
  PROVE  KeepsOthers
<1>1. ASSUME NEW s \in Sizes, Resize(s[1], s[2])
      PROVE  KeepsOthers
  BY <1>1, ResizeToKeeps DEF Resize
<1>2. CASE ProgramExit \/ NoticeEnd
  <2>1. UNCHANGED buffer \/ buffer' = DropBuffer(row + 1)
    BY <1>2 DEF ProgramExit, NoticeEnd, Attempt, NextLine, screen
  <2>2. QED
    BY <2>1, UntouchedLines, DroppedElsewhere DEF KeepsOthers
<1>3. QED
  BY <1>1, <1>2, PrintingKeeps DEF Outside

\* On a screen that keeps its size, only DECALN and ED change lines that are
\* neither within the margins nor the cursor's: for every margins, every number
\* of lines that is scrolled, inserted or deleted, and every size.
THEOREM OtherLinesAreKept == Spec => OtherLinesKept
<1>1. TypeInv /\ [Next]_vars =>
        [size' = size /\ ~DECALN /\ (\A mode \in 0 .. 2 : ~ED(mode)) =>
           \A i \in Rows : \/ buffer'[i] = buffer[i]
                           \/ i \in {row, row'}
                           \/ scroll_top <= i /\ i <= scroll_bottom]_vars
  <2> SUFFICES ASSUME TypeInv, Next, size' = size, ~DECALN, \A mode \in 0 .. 2 : ~ED(mode)
               PROVE  KeepsOthers
    BY DEF KeepsOthers
  <2>1. QED
    BY PrintingKeeps, MovingKeeps, SettingKeeps, EditingKeeps, OutsideKeeps DEF Next
<1>2. Init => TypeInv
  BY InitTypes
<1>3. TypeInv /\ [Next]_vars => TypeInv'
  BY TypeStep
<1>4. QED
  BY <1>1, <1>2, <1>3, PTL DEF Spec, OtherLinesKept
-----------------------------------------------------------------------------
(* Tab stops                                                               *)

\* Among T numbers in a row that reach beyond lo there is a multiple of T
\* counted from lo.
LEMMA MultipleNearby ==
  ASSUME NEW T \in Nat \ {0}, NEW lo \in Nat, NEW e \in Nat, lo <= e
  PROVE  \E i \in Nat : /\ lo <= i /\ i <= e /\ e < i + T
                        /\ (i - lo) % T = 0
<1> DEFINE q == (e - lo) \div T
           i == lo + q * T
<1>1. q \in Nat /\ q * T <= e - lo /\ e - lo < q * T + T
  BY SMTT(30)
<1>2. (q * T) % T = 0
  <2> HIDE DEF q
  <2>1. q \in Nat
    BY <1>1
  <2>2. QED
    BY <2>1, SMTT(30)
<1>3. q * T \in Nat
  BY <1>1
<1> DEFINE m == q * T
<1>4. m \in Nat /\ m <= e - lo /\ e - lo < m + T /\ m % T = 0
  BY <1>1, <1>2, <1>3
<1> HIDE DEF m
<1>5. lo + m \in Nat /\ lo <= lo + m /\ lo + m <= e /\ e < (lo + m) + T /\ (lo + m) - lo = m
  BY <1>4
<1>6. QED
  BY <1>4, <1>5

\* A new width adds tab stops at tab_size intervals from the old last column on.
LEMMA ResizeToTabs ==
  ASSUME TypeInv, TabsClose, NEW h \in Nat, NEW w \in Nat \ {0}, ResizeTo(h, w)
  PROVE  TabsClose'
<1>0. /\ num_cols \in Nat \ {0} /\ TabSize \in Nat \ {0} /\ w \in Nat
      /\ num_cols' = w
      /\ tab_stops' = (tab_stops \cap 0 .. w - 1) \cup TabStops(num_cols, w)
  BY ConstantsAssumption DEF TypeInv, TypeOK, ResizeTo
<1> SUFFICES ASSUME NEW c \in 0 .. w - 1, c + TabSize < w
             PROVE  \E i \in tab_stops' : i \in c + 1 .. c + TabSize
  BY <1>0 DEF TabsClose, Columns
<1>1. CASE c + TabSize < num_cols
  <2>1. c \in Columns
    BY <1>0, <1>1 DEF Columns
  <2>2. PICK i \in tab_stops : i \in c + 1 .. c + TabSize
    BY <1>1, <2>1 DEF TabsClose
  <2>3. i \in 0 .. w - 1
    BY <1>0, <2>2
  <2>4. QED
    BY <1>0, <2>2, <2>3
<1>2. CASE ~ (c + TabSize < num_cols)
  <2>1. c + TabSize \in Nat /\ num_cols <= c + TabSize
    BY <1>0, <1>2
  <2>2. PICK i \in Nat : /\ num_cols <= i /\ i <= c + TabSize /\ c + TabSize < i + TabSize
                         /\ (i - num_cols) % TabSize = 0
    BY <1>0, <2>1, MultipleNearby
  <2>3. i \in num_cols .. w - 1 /\ i \in c + 1 .. c + TabSize
    BY <1>0, <2>2
  <2>4. i \in TabStops(num_cols, w)
    BY <2>2, <2>3 DEF TabStops
  <2>5. QED
    BY <1>0, <2>3, <2>4
<1>3. QED
  BY <1>1, <1>2

\* A step that keeps the width and takes no tab stop away.
LEMMA SameTabs ==
  ASSUME TabsClose, num_cols' = num_cols, tab_stops \subseteq tab_stops'
  PROVE  TabsClose'
BY DEF TabsClose, Columns

\* Which steps keep the width and the tab stops.
LEMMA TabStep ==
  ASSUME TypeInv, TabsClose, Next, ~TBC, ~TBCAll
  PROVE  TabsClose'
<1>1. CASE Printing
  BY <1>1, SameTabs DEF Printing, PrintAscii, PrintUtf8, Attempt, size
<1>2. CASE Moving
  <2>1. UNCHANGED <<size, tab_stops>>
    BY <1>2 DEF Moving, CarriageReturn, BackSpace, Tab, CUU, CUD, CUF, CUB, CNL, CPL, CHA, VPA,
                CUPRow, CUP, Home, EscMove, EscNextLine, SaveCursor, RestoreCursor, OnlyCursor
  <2>2. QED
    BY <2>1, SameTabs DEF size
<1>3. CASE Setting
  <2>1. ASSUME NEW p \in Param, NEW q \in Param, DECSTBM(p, q)
        PROVE  TabsClose'
    BY <2>1, SameTabs DEF DECSTBM, size
  <2>2. ASSUME NEW on \in BOOLEAN, DECOM(on) \/ DECAWM(on) \/ IRM(on)
        PROVE  TabsClose'
    BY <2>2, SameTabs DEF DECOM, DECAWM, IRM, size
  <2>3. ASSUME NEW on \in BOOLEAN, DECCOLM(on)
        PROVE  TabsClose'
    BY <2>3, ResizeToTabs, ConstantsAssumption DEF DECCOLM, TypeInv, TypeOK
  <2>4. CASE HTS
    BY <2>4, SameTabs DEF HTS, SetTabStops, Attempt, size
  <2>5. QED
    BY <1>3, <2>1, <2>2, <2>3, <2>4 DEF Setting
<1>4. CASE Editing
  <2>1. CASE LineFeed \/ ReverseIndex \/ DECALN
    BY <2>1, SameTabs
    DEF LineFeed, ReverseIndex, DECALN, Attempt, OnlyBuffer, OnlyCursor, size
  <2>2. ASSUME NEW p, NEW mode, EL(mode) \/ ED(mode) \/ DCH(p) \/ ICH(p) \/ ECH(p)
        PROVE  TabsClose'
    BY <2>2, SameTabs DEF EL, ED, DCH, ICH, ECH, EditLine, Attempt, OnlyBuffer, size
  <2>3. ASSUME NEW p, IL(p) \/ DL(p) \/ SU(p)
        PROVE  TabsClose'
    BY <2>3, SameTabs DEF IL, DL, SU, MoveUp, MoveDown, MoveLines, Attempt, size
  <2>4. QED
    BY <1>4, <2>1, <2>2, <2>3 DEF Editing
<1>5. CASE Outside
  <2>1. ASSUME NEW s \in Sizes, Resize(s[1], s[2])
        PROVE  TabsClose'
    BY <2>1, ResizeToTabs, ConstantsAssumption DEF Resize
  <2>2. CASE ProgramExit \/ NoticePrint \/ NoticeEnd
    BY <2>2, SameTabs DEF ProgramExit, NoticePrint, NoticeEnd, Attempt, size
  <2>3. QED
    BY <1>5, <2>1, <2>2 DEF Outside
<1>6. QED
  BY <1>1, <1>2, <1>3, <1>4, <1>5 DEF Next

\* For every tab_size and every sequence of widths a tab goes no further than
\* tab_size columns unless tab stops have been cleared.
THEOREM TabStopsAlwaysClose == Spec => TabStopsStayClose
<1>1. TypeInv /\ [Next]_vars => [TabsClose /\ ~TBC /\ ~TBCAll => TabsClose']_vars
  BY TabStep
<1>2. Init => TypeInv
  BY InitTypes
<1>3. TypeInv /\ [Next]_vars => TypeInv'
  BY TypeStep
<1>4. QED
  BY <1>1, <1>2, <1>3, PTL DEF Spec, TabStopsStayClose
-----------------------------------------------------------------------------
(* The history and the screen as one text                                  *)

Text(h, b, n) == h \o [i \in 1 .. n |-> b[i - 1]]

\* Each of the n rows of a buffer is in L.
RowsAreIn(b, n, L) == \A i \in 0 .. n - 1 : b[i] \in L

\* The n rows of c are those of b, one row up, and the last one is blank.
MovesUp(b, c, n, blank) ==
  \A i \in 0 .. n - 1 : c[i] = IF i + 1 <= n - 1 THEN b[i + 1] ELSE blank

\* Line k of t is line k of h, or a row of b after the lines of h.
Joins(t, h, b, n, L) ==
  /\ t \in Seq(L) /\ Len(t) = Len(h) + n
  /\ \A k \in 1 .. Len(h) + n : t[k] = IF k <= Len(h) THEN h[k] ELSE b[k - Len(h) - 1]

LEMMA AllButFirst ==
  ASSUME NEW n \in Nat \ {0}, NEW m, m = IF 2 <= n THEN n - 2 + 1 ELSE 0
  PROVE  n - 2 + 1 = n - 1 /\ m = n - 1
  OBVIOUS

\* The lines of h followed by the n rows of a buffer.
LEMMA TextLines ==
  ASSUME NEW L, NEW h \in Seq(L), NEW n \in Nat, NEW b, RowsAreIn(b, n, L)
  PROVE  Joins(Text(h, b, n), h, b, n, L)
<1> DEFINE s == [i \in 1 .. n |-> b[i - 1]]
<1>1. Len(h) \in Nat
  BY LenProperties
<1>2. \A i \in 1 .. n : i - 1 \in 0 .. n - 1
  OBVIOUS
<1>3. s \in [1 .. n -> L]
  BY <1>2 DEF RowsAreIn
<1>4. s \in Seq(L) /\ Len(s) = n
  BY <1>3, LenProperties
<1>5. \A i \in 1 .. n : s[i] = b[i - 1]
  OBVIOUS
<1>6. Text(h, b, n) = h \o s
  BY DEF Text
<1> HIDE DEF s
<1>7. /\ Text(h, b, n) \in Seq(L)
      /\ Len(Text(h, b, n)) = Len(h) + n
      /\ \A k \in 1 .. Len(h) + n :
           Text(h, b, n)[k] = IF k <= Len(h) THEN h[k] ELSE s[k - Len(h)]
  <2>1. /\ h \o s \in Seq(L)
        /\ Len(h \o s) = Len(h) + Len(s)
        /\ \A k \in 1 .. Len(h) + Len(s) :
             (h \o s)[k] = IF k <= Len(h) THEN h[k] ELSE s[k - Len(h)]
    BY <1>4, ConcatProperties, Zenon
  <2>2. QED
    BY <1>4, <1>6, <2>1, Zenon
<1>8. \A k \in 1 .. Len(h) + n : k > Len(h) => s[k - Len(h)] = b[k - Len(h) - 1]
  BY <1>1, <1>5
<1>9. QED
  BY <1>1, <1>7, <1>8 DEF Joins

\* Scrolling a whole screen by one row, with the row that leaves it appended to
\* the history, appends a blank line to the text.
LEMMA ScrolledText ==
  ASSUME NEW L, NEW h \in Seq(L), NEW n \in Nat \ {0}, NEW b, NEW c, NEW blank \in L,
         RowsAreIn(b, n, L), MovesUp(b, c, n, blank)
  PROVE  Text(Append(h, b[0]), c, n) = Append(Text(h, b, n), blank)
<1> DEFINE g == Append(h, b[0])
           t == Text(h, b, n)
           u == Text(g, c, n)
           v == Append(t, blank)
<1>1. Len(h) \in Nat /\ 0 \in 0 .. n - 1 /\ b[0] \in L
  BY LenProperties DEF RowsAreIn
<1>2. /\ t \in Seq(L) /\ Len(t) = Len(h) + n
      /\ \A k \in 1 .. Len(h) + n : t[k] = IF k <= Len(h) THEN h[k] ELSE b[k - Len(h) - 1]
  <2>1. Joins(t, h, b, n, L)
    BY TextLines
  <2>2. QED
    BY <2>1 DEF Joins
<1>3. /\ g \in Seq(L) /\ Len(g) = Len(h) + 1
      /\ \A k \in 1 .. Len(h) : g[k] = h[k]
      /\ g[Len(h) + 1] = b[0]
  BY <1>1, AppendProperties
<1>4. RowsAreIn(c, n, L)
  <2>1. \A i \in 0 .. n - 1 : i + 1 <= n - 1 => i + 1 \in 0 .. n - 1
    OBVIOUS
  <2>2. QED
    BY <2>1 DEF RowsAreIn, MovesUp
<1> HIDE DEF g
<1>5. /\ u \in Seq(L) /\ Len(u) = Len(g) + n
      /\ \A k \in 1 .. Len(g) + n : u[k] = IF k <= Len(g) THEN g[k] ELSE c[k - Len(g) - 1]
  <2>1. n \in Nat /\ g \in Seq(L)
    BY <1>3
  <2>2. Joins(u, g, c, n, L)
    BY <1>4, <2>1, TextLines
  <2>3. QED
    BY <2>2 DEF Joins
<1> HIDE DEF t, u
<1>6. /\ v \in Seq(L) /\ Len(v) = Len(t) + 1
      /\ \A k \in 1 .. Len(t) : v[k] = t[k]
      /\ v[Len(t) + 1] = blank
  <2>1. t \in Seq(L) /\ blank \in L
    BY <1>2
  <2>2. QED
    BY <2>1, AppendProperties
<1> HIDE DEF v
<1>lengths. Len(t) = Len(h) + n /\ Len(g) = Len(h) + 1
  BY <1>2, <1>3
<1>7. ASSUME NEW k \in 1 .. Len(h) + 1 + n
      PROVE  u[k] = v[k]
  <2>1. CASE k <= Len(h)
    <3>1. k \in 1 .. Len(h) /\ k \in 1 .. Len(g) + n /\ k <= Len(g) /\ k \in 1 .. Len(t)
      BY <1>1, <1>2, <1>3, <2>1
    <3>2. QED
      BY <1>2, <1>3, <1>5, <1>6, <2>1, <3>1
  <2>2. CASE k = Len(h) + 1
    <3>1. u[k] = b[0]
      BY <1>1, <1>3, <1>5, <2>2
    <3>2. k \in 1 .. Len(t) /\ ~ (k <= Len(h)) /\ k - Len(h) - 1 = 0
      BY <1>1, <1>2, <2>2
    <3>3. QED
      BY <1>2, <1>6, <3>1, <3>2
  <2>3. CASE k > Len(h) + 1
    <3> DEFINE i == k - (Len(h) + 1) - 1
    <3>1. i \in 0 .. n - 1 /\ u[k] = c[i]
      BY <1>1, <1>3, <1>5, <2>3
    <3>2. CASE i + 1 <= n - 1
      <4>1. k \in 1 .. Len(t) /\ ~ (k <= Len(h)) /\ k - Len(h) - 1 = i + 1
        BY <1>1, <1>2, <2>3, <3>2
      <4>2. QED
        BY <1>2, <1>6, <3>1, <3>2, <4>1 DEF MovesUp
    <3>3. CASE ~ (i + 1 <= n - 1)
      <4>1. k = Len(t) + 1
        BY <1>1, <1>lengths, <2>3, <3>3
      <4>2. QED
        BY <1>6, <3>1, <3>3, <4>1 DEF MovesUp
    <3>4. QED
      BY <3>2, <3>3
  <2>4. k <= Len(h) \/ k = Len(h) + 1 \/ k > Len(h) + 1
    BY <1>1
  <2>5. QED
    BY <2>1, <2>2, <2>3, <2>4, Zenon
<1>8. u = v
  <2>1. Len(u) = Len(h) + 1 + n /\ Len(v) = Len(u)
    BY <1>1, <1>2, <1>3, <1>5, <1>6
  <2>2. QED
    BY <1>5, <1>6, <1>7, <2>1, SeqEqual
<1>9. QED
  BY <1>8 DEF g, t, u, v

\* Dropping the first of the lines before the rows drops the first line.
LEMMA TrimmedText ==
  ASSUME NEW L, NEW h \in Seq(L), Len(h) > 0, NEW n \in Nat, NEW b,
         RowsAreIn(b, n, L)
  PROVE  Text(SubSeq(h, 2, Len(h)), b, n) = Tail(Text(h, b, n))
<1> DEFINE g == SubSeq(h, 2, Len(h))
           t == Text(h, b, n)
           u == Text(g, b, n)
<1>1. Len(h) \in Nat \ {0} /\ \A k \in 1 .. Len(h) : h[k] \in L
  BY LenProperties, ElementOfSeq
<1>2. g \in Seq(L) /\ Len(g) = Len(h) - 1 /\ \A k \in 1 .. Len(h) - 1 : g[k] = h[k + 1]
  <2>1. \A k \in 2 .. Len(h) : h[k] \in L
    BY <1>1
  <2>2. /\ g \in Seq(L) /\ Len(g) = IF 2 <= Len(h) THEN Len(h) - 2 + 1 ELSE 0
        /\ \A k \in 1 .. Len(h) - 2 + 1 : g[k] = h[2 + k - 1]
    BY <1>1, <2>1, SubSeqProperties
  <2> HIDE DEF g
  <2>nat. Len(h) \in Nat \ {0}
    BY <1>1
  <2>3. Len(h) - 2 + 1 = Len(h) - 1 /\ Len(g) = Len(h) - 1
    <3>1. Len(g) = IF 2 <= Len(h) THEN Len(h) - 2 + 1 ELSE 0
      BY <2>2
    <3>2. QED
      BY <2>nat, <3>1, AllButFirst, Zenon
  <2>4. ASSUME NEW k \in 1 .. Len(h) - 1
        PROVE  g[k] = h[k + 1]
    <3>1. k \in 1 .. Len(h) - 2 + 1 /\ 2 + k - 1 = k + 1
      BY <1>1
    <3>2. QED
      BY <2>2, <3>1
  <2>5. QED
    BY <2>2, <2>3, <2>4
<1>3. /\ t \in Seq(L) /\ Len(t) = Len(h) + n
      /\ \A k \in 1 .. Len(h) + n : t[k] = IF k <= Len(h) THEN h[k] ELSE b[k - Len(h) - 1]
  <2>1. Joins(t, h, b, n, L)
    BY TextLines
  <2>2. QED
    BY <2>1 DEF Joins
<1>4. /\ u \in Seq(L) /\ Len(u) = Len(g) + n
      /\ \A k \in 1 .. Len(g) + n : u[k] = IF k <= Len(g) THEN g[k] ELSE b[k - Len(g) - 1]
  <2> HIDE DEF g
  <2>1. g \in Seq(L)
    BY <1>2
  <2>2. Joins(u, g, b, n, L)
    BY <2>1, TextLines
  <2>3. QED
    BY <2>2 DEF Joins
<1> HIDE DEF g, t, u
<1>5. t # << >>
  BY <1>1, <1>3, EmptySeq
<1>6. /\ Tail(t) \in Seq(L) /\ Len(Tail(t)) = Len(h) + n - 1
      /\ \A k \in 1 .. Len(h) + n - 1 : Tail(t)[k] = t[k + 1]
  BY <1>1, <1>3, <1>5, HeadTailProperties
<1>7. ASSUME NEW k \in 1 .. Len(h) + n - 1
      PROVE  u[k] = Tail(t)[k]
  <2>1. k + 1 \in 1 .. Len(h) + n /\ k \in 1 .. Len(g) + n
    BY <1>1, <1>2
  <2>2. CASE k <= Len(h) - 1
    BY <1>1, <1>2, <1>3, <1>4, <1>6, <2>1, <2>2
  <2>3. CASE ~ (k <= Len(h) - 1)
    <3>1. k - Len(g) - 1 = (k + 1) - Len(h) - 1
      BY <1>1, <1>2
    <3>2. ~ (k <= Len(g)) /\ ~ (k + 1 <= Len(h))
      BY <1>1, <1>2, <2>3
    <3>3. QED
      BY <1>3, <1>4, <1>6, <2>1, <3>1, <3>2
  <2>4. QED
    BY <2>2, <2>3
<1>8. Len(u) = Len(h) + n - 1
  BY <1>1, <1>2, <1>4
<1>9. u = Tail(t)
  BY <1>4, <1>6, <1>7, <1>8, SeqEqual
<1>10. QED
  BY <1>9 DEF g, t, u

\* Trimming a history that has become one line too long drops its first line.
LEMMA TrimByOne ==
  ASSUME NEW h \in Seq(AnyLine), Len(h) = MaxHistory + 1
  PROVE  Trim(h) = SubSeq(h, 2, Len(h))
<1>1. Len(h) \in Nat /\ MaxHistory \in Nat
  BY LenProperties, ConstantsAssumption
<1>2. Len(h) > MaxHistory /\ Len(h) - MaxHistory + 1 = 2
  BY <1>1
<1>3. QED
  BY <1>2 DEF Trim

\* What a line feed does to the rows and the history when it does not fail.
LEMMA LineFeedEffect ==
  ASSUME TypeInv, LineFeed, scroll_top = 0, scroll_bottom = num_rows - 1, fault' = "none"
  PROVE  /\ num_rows' = num_rows /\ num_cols' = num_cols
         /\ \/ buffer' = buffer /\ history' = history
            \/ /\ num_rows \in Nat \ {0}
               /\ buffer' = ShiftUp(0, 1)
               /\ history' = Trim(Append(history, buffer[0]))
<1>1. DropFault(row + 1) = "none"
  BY DEF LineFeed, Attempt
<1>2. NextLine(col) /\ UNCHANGED size
  BY <1>1 DEF LineFeed, Attempt
<1>3. num_rows' = num_rows /\ num_cols' = num_cols
  BY <1>2 DEF size
<1>4. CASE Overflow(row + 1)
  <2>1. scroll_top < scroll_bottom
    BY <1>1, <1>4 DEF DropFault
  <2>2. num_rows \in Nat \ {0}
    BY <2>1 DEF TypeInv, TypeOK
  <2>3. buffer' = ShiftUp(0, 1) /\ history' = Trim(Append(history, buffer[0]))
    BY <1>2, <1>4 DEF NextLine, DropBuffer, DropHistory
  <2>4. QED
    BY <1>3, <2>2, <2>3
<1>5. CASE ~Overflow(row + 1)
  BY <1>2, <1>3, <1>5 DEF NextLine, DropBuffer, DropHistory
<1>6. QED
  BY <1>4, <1>5

LEMMA LineFeedText ==
  ASSUME TypeInv, LineFeed, scroll_top = 0, scroll_bottom = num_rows - 1, fault' = "none"
  PROVE  \/ Log' = Log
         \/ Log' = Append(Log, BlankLine)
         \/ Len(history) = MaxHistory /\ Log' = Tail(Append(Log, BlankLine))
<1> DEFINE long == Append(history, buffer[0])
<1>1. num_rows' = num_rows /\ num_cols' = num_cols
  BY LineFeedEffect
<1>2. Log = Text(history, buffer, num_rows) /\ Log' = Text(history', buffer', num_rows)
  BY <1>1 DEF Log, Text
<1>3. CASE buffer' = buffer /\ history' = history
  BY <1>2, <1>3
<1>4. CASE /\ num_rows \in Nat \ {0}
           /\ buffer' = ShiftUp(0, 1)
           /\ history' = Trim(long)
  <2>1. history \in Seq(AnyLine) /\ Len(history) \in Nat /\ Len(history) <= MaxHistory
    BY LenProperties DEF TypeInv, TypeOK
  <2>2. RowsAreIn(buffer, num_rows, AnyLine) /\ BlankLine \in AnyLine
    <3>1. \A i \in 0 .. num_rows - 1 : buffer[i] \in LineOf(num_cols)
      BY DEF TypeInv, TypeOK, Rows
    <3>2. num_cols \in Nat /\ BlankLine \in LineOf(num_cols)
      BY DEF TypeInv, TypeOK, BlankLine, LineOf, Columns, Cell
    <3>3. QED
      BY <3>1, <3>2 DEF RowsAreIn, AnyLine
  <2>3. MovesUp(buffer, buffer', num_rows, BlankLine)
    BY <1>4 DEF MovesUp, ShiftUp, Rows
  <2>4. Text(long, buffer', num_rows) = Append(Log, BlankLine)
    <3>1. Text(long, buffer', num_rows) = Append(Text(history, buffer, num_rows), BlankLine)
      BY <1>4, <2>1, <2>2, <2>3, ScrolledText
    <3>2. QED
      BY <1>2, <3>1
  <2>5. long \in Seq(AnyLine) /\ Len(long) = Len(history) + 1
    <3>1. buffer[0] \in AnyLine
      BY <1>4, <2>2 DEF RowsAreIn
    <3>2. QED
      BY <2>1, <3>1, AppendProperties
  <2> HIDE DEF long
  <2>6. CASE Len(history) < MaxHistory
    <3>1. ~ (Len(long) > MaxHistory)
      BY <2>1, <2>5, <2>6, ConstantsAssumption
    <3>2. history' = long
      BY <1>4, <3>1 DEF Trim
    <3>3. QED
      BY <1>2, <2>4, <3>2
  <2>7. CASE Len(history) = MaxHistory
    <3>1. history' = SubSeq(long, 2, Len(long))
      BY <1>4, <2>5, <2>7, TrimByOne
    <3>2. RowsAreIn(buffer', num_rows, AnyLine)
      <4>1. \A i \in 0 .. num_rows - 1 : i + 1 <= num_rows - 1 => i + 1 \in 0 .. num_rows - 1
        OBVIOUS
      <4>2. QED
        BY <2>2, <2>3, <4>1 DEF RowsAreIn, MovesUp
    <3>3. Len(long) > 0 /\ num_rows \in Nat
      BY <1>4, <2>1, <2>5
    <3>4. Text(SubSeq(long, 2, Len(long)), buffer', num_rows)
            = Tail(Text(long, buffer', num_rows))
      BY <2>5, <3>2, <3>3, TrimmedText
    <3>5. QED
      BY <1>2, <2>4, <2>7, <3>1, <3>4
  <2>8. QED
    BY <2>1, <2>6, <2>7, ConstantsAssumption
<1>5. QED
  BY <1>3, <1>4, LineFeedEffect

\* For every size of screen and of history, a line feed under full margins only
\* ever adds a blank line, and loses one only when the history is full.
THEOREM LineFeedKeepsTheText == Spec => LineFeedLosesNothing
<1>1. TypeInv /\ [Next]_vars =>
        [LineFeed /\ scroll_top = 0 /\ scroll_bottom = num_rows - 1 /\ fault' = "none" =>
           \/ Log' = Log
           \/ Log' = Append(Log, BlankLine)
           \/ Len(history) = MaxHistory /\ Log' = Tail(Append(Log, BlankLine))]_vars
  BY LineFeedText
<1>2. Init => TypeInv
  BY InitTypes
<1>3. TypeInv /\ [Next]_vars => TypeInv'
  BY TypeStep
<1>4. QED
  BY <1>1, <1>2, <1>3, PTL DEF Spec, LineFeedLosesNothing
=============================================================================
