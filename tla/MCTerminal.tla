---------------------------- MODULE MCTerminal ----------------------------
(* Terminal on small screens: what each run lets the program use.          *)
EXTENDS Terminal

CursorFunctions == {"CR", "BS", "CUU", "CUD", "CUF", "CUB", "CNL", "CPL", "CHA",
                    "VPA", "CUP", "ESC", "DECSC"}
MarginFunctions == {"DECSTBM", "DECOM", "LF", "resize"}

TabFunctions == {"HT", "HTS", "TBC"}

\* Everything that moves the cursor, the margins, the tab stops or the size, on
\* a blank screen.
GeometryFunctions ==
  CursorFunctions \cup MarginFunctions \cup TabFunctions \cup {"print", "DECCOLM"}
GeometrySizes == {<<2, 2>>, <<3, 4>>}

\* Everything that changes the cells of a row.
TextFunctions == {"print", "utf8", "LF", "CR", "CUP", "DECAWM", "IRM",
                  "DCH", "ICH", "ECH", "EL", "ED", "IL", "DL", "SU"}

\* Everything that moves whole rows.
ScrollFunctions == {"print", "LF", "RI", "IL", "DL", "SU", "VPA", "CR", "DECSTBM",
                    "DECALN", "exit"}

NoSizes == {}

\* The last int, small ones, a negative one and one that wraps when it is
\* negated or lowered.
CursorParams == {-IntMax - 1, -1, 2, IntMax}
TextParams == {-IntMax - 1, -1, 2, IntMax}
ScrollParams == {-IntMax - 1, -1, 0, 1, 2, 3, IntMax}
===========================================================================
