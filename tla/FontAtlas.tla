----------------------------- MODULE FontAtlas -----------------------------
(***************************************************************************)
(* The render threads of entry/src/main/cpp/terminal.cpp and the table of  *)
(* glyphs they share.  A frame that meets a character without a glyph asks *)
(* for it and draws .notdef; the loop then renders all glyphs asked for so *)
(* far into a new texture, row by row, and replaces the table.             *)
(*                                                                         *)
(* Draw holds term.lock, so a frame is one step.  A rebuild holds no lock: *)
(* it is split where other threads can see it, and the assignment of the   *)
(* table (a std::map) is a moment without entries followed by the new      *)
(* entries.  Each surface has a thread, and no thread ever ends.           *)
(***************************************************************************)
EXTENDS Integers, Sequences

CONSTANTS
  fonts,          \* sequence of [type, has]: the class and the code points of a font
  Width, Height,  \* Width[c], Height[c]: size of the bitmap of c in pixels
  Common,         \* the code points loaded at the start, without 0
  Space, WIDE_TAIL,   \* codes of the blank and of the right half of a wide character
  Screens,        \* sets of <<code, class>> pairs, the cells in view at a time
  bound, atlas_width, \* height of a row, side of the largest texture
  MaxSurfaces,    \* surfaces the system ever creates
  MaxPrints       \* times the contents of the screen change

ASSUME AtlasAssumption ==
  /\ Len(fonts) \in Nat \ {0} /\ DOMAIN fonts = 1 .. Len(fonts)
  /\ fonts[1].type = "regular" /\ fonts[Len(fonts)].type = "regular"
  /\ \A k \in DOMAIN fonts : fonts[k].has \subseteq DOMAIN Width
  /\ \A cells \in Screens : cells \subseteq Nat \X {fonts[k].type : k \in DOMAIN fonts}
  /\ Common \subseteq Nat /\ Space \in Common /\ 0 \in DOMAIN Width
  /\ \A c \in DOMAIN Width : Width[c] \in 0 .. atlas_width - 1 /\ Height[c] \in Nat
  /\ atlas_width \in Nat /\ bound \in 1 .. atlas_width /\ MaxSurfaces \in Nat /\ MaxPrints \in Nat

VARIABLES
  surfaces,            \* render threads are 1 .. surfaces
  pc,                  \* where each of them is
  build,               \* what each of them has built of the next table
  characters,          \* the shared table: <<code, class>> -> [row, left, width, height]
  codepoints_to_load,
  need_rebuild_atlas,
  screen,              \* cells that are in view
  prints,
  full,                \* some build found no room for a glyph
  asserted             \* the assert in Draw failed, the process is gone

glyphs == <<characters, codepoints_to_load, need_rebuild_atlas>>
vars == <<surfaces, pc, build, glyphs, screen, prints, full, asserted>>

Threads == 1 .. MaxSurfaces
NoGlyphs == [k \in {} |-> 0]

-----------------------------------------------------------------------------
(* BuildFontAtlas *)

\* Nothing built yet: one row, no font given up, no code point of the first
\* font looked at.
Empty == [table |-> NoGlyphs, rows |-> 1, pointer |-> 0, stopped |-> 0, font |-> 1, last |-> -1]

Fits(b, width) == b.pointer + width < atlas_width
NewRowFits(b) == bound * (b.rows + 1) <= atlas_width

\* newChars[key] = glyph
Insert(table, key, glyph) ==
  [k \in DOMAIN table \cup {key} |-> IF k = key THEN glyph ELSE table[k]]
Glyph(r, x, c) == [row |-> r, left |-> x, width |-> Width[c], height |-> Height[c]]

\* newChars[key] = newChars[other]: what is not there yet is made, of zeros.
Zeros == [row |-> 0, left |-> 0, width |-> 0, height |-> 0]
Alias(table, key, other) ==
  IF other \in DOMAIN table
  THEN Insert(table, key, table[other])
  ELSE Insert(Insert(table, other, Zeros), key, Zeros)

\* Defect: the glyph that opens a row is not counted.
PlaceGlyph_Pointer(b, key, c) ==
  CASE Fits(b, Width[c]) ->
         [b EXCEPT !.pointer = @ + Width[c],
                   !.table = Insert(@, key, Glyph(b.rows - 1, b.pointer, c))]
    [] ~Fits(b, Width[c]) /\ NewRowFits(b) ->
         [b EXCEPT !.pointer = 0, !.rows = @ + 1,
                   !.table = Insert(@, key, Glyph(b.rows, 0, c))]
    [] OTHER -> [b EXCEPT !.pointer = Width[c], !.stopped = b.font]

\* To the right of the last glyph, else at the left of a new row, else
\* nowhere: then the rest of the font is given up, and the next font begins
\* over the glyphs of the last row.
PlaceGlyph(b, key, c) ==
  CASE Fits(b, Width[c]) ->
         [b EXCEPT !.pointer = @ + Width[c],
                   !.table = Insert(@, key, Glyph(b.rows - 1, b.pointer, c))]
    [] ~Fits(b, Width[c]) /\ NewRowFits(b) ->
         [b EXCEPT !.pointer = Width[c], !.rows = @ + 1,
                   !.table = Insert(@, key, Glyph(b.rows, 0, c))]
    [] OTHER -> [b EXCEPT !.pointer = Width[c], !.stopped = b.font]

\* Code points of this font that the loop has still to visit.
Rest(b) == {c \in codepoints_to_load : c > b.last /\ b.stopped # b.font}

\* Defect: what the last font does not have either gets no entry.
LoadGlyph_NoFallback(b, c) ==
  LET key == <<c, fonts[b.font].type>>
  IN IF key \in DOMAIN b.table \/ (c # 0 /\ c \notin fonts[b.font].has)
     THEN b ELSE PlaceGlyph(b, key, c)

\* One code point; what even the last font lacks is drawn as .notdef.
LoadGlyph(b, c) ==
  LET key == <<c, fonts[b.font].type>>
      loaded == key \in DOMAIN b.table
      lacks == c # 0 /\ c \notin fonts[b.font].has
  IN CASE loaded \/ (lacks /\ b.font < Len(fonts)) -> b
       [] ~loaded /\ lacks /\ b.font = Len(fonts) ->
            [b EXCEPT !.table = Alias(@, key, <<0, "regular">>)]
       [] OTHER -> PlaceGlyph(b, key, c)

-----------------------------------------------------------------------------
(* Draw *)

Missing(cell) == {cell, <<cell[1], "regular">>} \cap DOMAIN characters = {}

Init ==
  /\ surfaces = 0
  /\ pc = [t \in Threads |-> "none"]
  /\ build = [t \in Threads |-> Empty]
  /\ characters = NoGlyphs /\ codepoints_to_load = {} /\ need_rebuild_atlas = FALSE
  /\ screen = {} /\ prints = 0
  /\ full = FALSE /\ asserted = FALSE

\* onSurfaceCreated: createSurface starts another render thread.
CreateSurface ==
  /\ surfaces < MaxSurfaces
  /\ surfaces' = surfaces + 1
  /\ pc' = [pc EXCEPT ![surfaces + 1] = "prologue"]
  /\ UNCHANGED <<build, glyphs, screen, prints, full, asserted>>

\* Defect: .notdef is not asked for.
Prologue_NoNotdef(t) ==
  /\ pc[t] = "prologue"
  /\ codepoints_to_load' = codepoints_to_load \cup Common
  /\ pc' = [pc EXCEPT ![t] = "reset"]
  /\ UNCHANGED <<surfaces, build, characters, need_rebuild_atlas, screen, prints, full, asserted>>

\* RenderWorker up to its first build: shaders, and the common characters.
Prologue(t) ==
  /\ pc[t] = "prologue"
  /\ codepoints_to_load' = codepoints_to_load \cup {0} \cup Common
  /\ pc' = [pc EXCEPT ![t] = "reset"]
  /\ UNCHANGED <<surfaces, build, characters, need_rebuild_atlas, screen, prints, full, asserted>>

BuildReset(t) ==
  /\ pc[t] = "reset"
  /\ need_rebuild_atlas' = FALSE
  /\ pc' = [pc EXCEPT ![t] = "load"]
  /\ UNCHANGED <<surfaces, build, characters, codepoints_to_load, screen, prints, full, asserted>>

\* Render the next glyph.  The set may grow meanwhile: the loop sees what
\* comes after its own place.
BuildLoad(t) ==
  /\ pc[t] = "load"
  /\ \E c \in Rest(build[t]) :
       /\ \A d \in Rest(build[t]) : c <= d
       /\ build' = [build EXCEPT ![t] = [LoadGlyph(@, c) EXCEPT !.last = c]]
  /\ UNCHANGED <<surfaces, pc, glyphs, screen, prints, full, asserted>>

BuildNextFont(t) ==
  /\ pc[t] = "load" /\ Rest(build[t]) = {} /\ build[t].font < Len(fonts)
  /\ build' = [build EXCEPT ![t].font = @ + 1, ![t].last = -1]
  /\ UNCHANGED <<surfaces, pc, glyphs, screen, prints, full, asserted>>

\* Upload the texture; the right half of a wide character is a blank.
BuildUpload(t) ==
  /\ pc[t] = "load" /\ Rest(build[t]) = {} /\ build[t].font = Len(fonts)
  /\ build' = [build EXCEPT ![t].table =
                  Alias(@, <<WIDE_TAIL, "regular">>, <<Space, "regular">>)]
  /\ full' = (full \/ build[t].stopped > 0)
  /\ pc' = [pc EXCEPT ![t] = "clear"]
  /\ UNCHANGED <<surfaces, glyphs, screen, prints, asserted>>

\* characters = newChars, first half: the old entries are gone.
BuildClear(t) ==
  /\ pc[t] = "clear"
  /\ characters' = NoGlyphs
  /\ pc' = [pc EXCEPT ![t] = "swap"]
  /\ UNCHANGED <<surfaces, build, codepoints_to_load, need_rebuild_atlas, screen, prints, full, asserted>>

\* Second half: the new ones are there.
BuildSwap(t) ==
  /\ pc[t] = "swap"
  /\ characters' = build[t].table
  /\ build' = [build EXCEPT ![t] = Empty]
  /\ pc' = [pc EXCEPT ![t] = "draw"]
  /\ UNCHANGED <<surfaces, codepoints_to_load, need_rebuild_atlas, screen, prints, full, asserted>>

\* A frame.
Draw(t) ==
  /\ pc[t] = "draw"
  /\ LET missing == {cell \in screen : Missing(cell)}
     IN /\ need_rebuild_atlas' = (need_rebuild_atlas \/ missing # {})
        /\ codepoints_to_load' = codepoints_to_load \cup {cell[1] : cell \in missing}
        /\ asserted' = \E cell \in missing : <<0, cell[2]>> \notin DOMAIN characters
  /\ pc' = [pc EXCEPT ![t] = "loop"]
  /\ UNCHANGED <<surfaces, build, characters, screen, prints, full>>

\* The end of an iteration: build when a frame asked for it.
Loop(t) ==
  /\ pc[t] = "loop"
  /\ pc' = [pc EXCEPT ![t] = IF need_rebuild_atlas THEN "reset" ELSE "draw"]
  /\ UNCHANGED <<surfaces, build, glyphs, screen, prints, full, asserted>>

\* Programs print, the window scrolls: other cells are in view.
Show ==
  /\ prints < MaxPrints
  /\ prints' = prints + 1
  /\ screen' \in Screens
  /\ UNCHANGED <<surfaces, pc, build, glyphs, full, asserted>>

Render(t) ==
  /\ t <= surfaces
  /\ \/ Prologue(t) \/ BuildReset(t) \/ BuildLoad(t) \/ BuildNextFont(t) \/ BuildUpload(t)
     \/ BuildClear(t) \/ BuildSwap(t)
     \/ Draw(t) \/ Loop(t)

\* An assert that fails ends the process.
Next ==
  /\ ~asserted
  /\ \/ CreateSurface \/ Show
     \/ \E t \in Threads : Render(t)

\* A thread that runs goes on; nobody is obliged to print or to create a surface.
Spec == Init /\ [][Next]_vars /\ \A t \in Threads : WF_vars(~asserted /\ Render(t))

-----------------------------------------------------------------------------
(* Properties *)

\* The pixels of its row into which a bitmap is copied, and those the frame
\* takes the glyph from: left to right and top to bottom of BuildFontAtlas.
Across(g) == g.left .. g.left + g.width - 1
Written(g) == (bound * g.row .. bound * g.row + (IF g.height < bound THEN g.height ELSE bound) - 1) \X Across(g)
Shown(g) == (bound * g.row .. bound * g.row + g.height - 1) \X Across(g)
LastRow(g) == \A k \in DOMAIN characters : characters[k].row <= g.row

\* BuildFontAtlas packs the glyphs by hand: every bitmap is copied to a place
\* within the texture, and what is shown of a glyph has nothing of another one
\* in it.  There are two exceptions: a glyph higher than its row shows
\* pixels of the rows below, and when the texture is full the glyphs of the
\* last row may lie on each other.
GlyphsPacked ==
  \A k \in DOMAIN characters :
    LET g == characters[k] IN
    /\ g.left + g.width <= atlas_width /\ bound * (g.row + 1) <= atlas_width
    /\ \A j \in DOMAIN characters :
         LET h == characters[j] IN
         \/ h = g
         \/ Shown(g) \cap Written(h) = {}
         \/ g.height > bound /\ h.row > g.row
         \/ full /\ h.row = g.row /\ LastRow(g)

\* What Draw asserts: there is a .notdef of the class of every cell.  One
\* render thread never fails it unless the texture is full.
NotdefIsThere == asserted => surfaces > 1 \/ full

\* The rebuilds end: once the screen stays as it is, every cell in view has a
\* glyph and nobody asks for a rebuild any more.
AtlasSettles ==
  <>[](asserted \/ full \/ surfaces = 0
         \/ (~need_rebuild_atlas /\ \A cell \in screen : ~Missing(cell)))
=============================================================================
