-------------------------- MODULE FontAtlasProofs --------------------------
(***************************************************************************)
(* The two safety properties of FontAtlas, for any fonts and glyph sizes,  *)
(* any size of the texture and any number of surfaces.                     *)
(***************************************************************************)
EXTENDS FontAtlas, TLAPS

Types == {fonts[k].type : k \in DOMAIN fonts}

\* Of two glyphs in a row one ends before the other begins.
Glyphs == [row : Nat, left : Nat, width : Nat, height : Nat]
Inside(g) == g.left + g.width <= atlas_width /\ bound * (g.row + 1) <= atlas_width
Apart(g, h) == g.row # h.row \/ g.left + g.width <= h.left \/ h.left + h.width <= g.left

\* A table of glyphs of the rows 0 to last that lie in the texture and not on
\* one another, except in the last row when it is crowded.
Clear(g, h, last, crowded) == g = h \/ Apart(g, h) \/ (crowded /\ g.row = last /\ h.row = last)
Packed(table, last, crowded) ==
  /\ \A k \in DOMAIN table : table[k] \in Glyphs /\ Inside(table[k]) /\ table[k].row <= last
  /\ \A j, k \in DOMAIN table : Clear(table[j], table[k], last, crowded)
EndsAt(table, last, x) ==
  \A k \in DOMAIN table : table[k].row = last => table[k].left + table[k].width <= x

\* It has a .notdef of every class.
Complete(table) == \A y \in Types : <<0, y>> \in DOMAIN table
HasSpace(table) == <<Space, "regular">> \in DOMAIN table

\* A build.  While it finds room its last row ends at pointer, and what comes
\* before last has been looked at; afterwards no row is added any more.
IsBuild(b) ==
  /\ DOMAIN b = {"table", "rows", "pointer", "stopped", "font", "last"}
  /\ b.font \in 1 .. Len(fonts) /\ b.last \in Int /\ b.stopped \in Nat
Rows(b) ==
  /\ b.rows \in Nat \ {0} /\ b.pointer \in 0 .. atlas_width /\ bound * b.rows <= atlas_width
  /\ b.stopped > 0 => ~NewRowFits(b)
IsPacked(b) ==
  /\ Rows(b) /\ Packed(b.table, b.rows - 1, b.stopped > 0)
  /\ b.stopped = 0 => EndsAt(b.table, b.rows - 1, b.pointer)
Visited(b) ==
  /\ \A k \in 1 .. b.font - 1 : <<0, fonts[k].type>> \in DOMAIN b.table
  /\ b.last >= 0 => <<0, fonts[b.font].type>> \in DOMAIN b.table
  /\ b.font = Len(fonts) /\ b.last >= Space => HasSpace(b.table)

TypeInv ==
  /\ DOMAIN pc = Threads /\ DOMAIN build = Threads /\ surfaces \in Nat
  /\ \A t \in Threads : t > surfaces => pc[t] = "none"
  /\ codepoints_to_load \subseteq Nat /\ full \in BOOLEAN
  /\ screen = {} \/ screen \in Screens
  /\ \A t \in Threads : IsBuild(build[t])
  /\ \A t \in Threads : pc[t] \notin {"load", "clear", "swap"} => build[t] = Empty
  /\ \A t \in Threads : pc[t] \notin {"none", "prologue"} => {0, Space} \subseteq codepoints_to_load
\* A thread at p with the build b, f when a build was full.
Good(p, b, f) ==
  /\ p = "load" => IsPacked(b) /\ (b.stopped = 0 => Visited(b))
  /\ p \in {"clear", "swap"} =>
       IsPacked(b) /\ (b.stopped > 0 => f) /\ (b.stopped = 0 => Complete(b.table))
BuildInv == \A t \in Threads : Good(pc[t], build[t], full)

\* The shared table, and what one render thread alone makes of it.
TableInv ==
  /\ \E last \in Nat : Packed(characters, last, full)
  /\ ~full /\ surfaces <= 1 =>
       ~asserted /\ \A t \in Threads : pc[t] \in {"draw", "loop"} => Complete(characters)
-----------------------------------------------------------------------------
(* Packing *)

\* A row ends where the next one begins, or above.
LEMMA RowsFollow == ASSUME NEW n \in Nat, NEW r \in Nat, NEW s \in Nat, r < s PROVE n * s >= n * r + n
<1>1. PICK d \in Nat : s = r + 1 + d
  <2>1. s - r - 1 \in Nat /\ s = r + 1 + (s - r - 1)
    OBVIOUS
  <2> QED BY <2>1
<1>2. n * d \in Nat /\ n * r \in Nat
  OBVIOUS
<1>3. n * (r + 1 + d) = n * r + n + n * d
  OBVIOUS
<1> QED BY <1>1, <1>2, <1>3

\* Glyphs that are apart: what is shown of the one has nothing of the other,
\* unless the one is higher than its row and the other is further down.
LEMMA ApartIsDisjoint ==
  ASSUME NEW g \in Glyphs, NEW h \in Glyphs, Apart(g, h)
  PROVE  Shown(g) \cap Written(h) = {} \/ (g.height > bound /\ h.row > g.row)
<1> SUFFICES ASSUME NEW p \in Shown(g), p \in Written(h), ~(g.height > bound /\ h.row > g.row)
             PROVE  FALSE
  OBVIOUS
<1> DEFINE written == IF h.height < bound THEN h.height ELSE bound
<1>1. /\ g.row \in Nat /\ h.row \in Nat /\ g.height \in Nat /\ bound \in Nat
      /\ g.left \in Nat /\ g.width \in Nat /\ h.left \in Nat /\ h.width \in Nat
      /\ written \in Nat /\ written <= bound
  BY AtlasAssumption DEF Glyphs
<1>2. /\ p[1] \in bound * g.row .. bound * g.row + g.height - 1
      /\ p[1] \in bound * h.row .. bound * h.row + written - 1
      /\ p[2] \in g.left .. g.left + g.width - 1 /\ p[2] \in h.left .. h.left + h.width - 1
  BY DEF Shown, Written, Across
<1> HIDE DEF written
<1>3. PICK x \in Nat, y \in Nat : x = bound * g.row /\ y = bound * h.row
  BY <1>1
<1>4. /\ p[1] \in Int /\ p[1] >= x /\ p[1] <= x + g.height - 1
      /\ p[1] >= y /\ p[1] <= y + written - 1
  BY <1>1, <1>2, <1>3
<1>5. CASE g.row < h.row
  <2>1. y >= x + bound
    BY <1>1, <1>3, <1>5, RowsFollow
  <2>2. g.height <= bound
    BY <1>1, <1>5
  <2> QED BY <1>1, <1>4, <2>1, <2>2
<1>6. CASE h.row < g.row
  <2>1. x >= y + bound
    BY <1>1, <1>3, <1>6, RowsFollow
  <2> QED BY <1>1, <1>4, <2>1
<1>7. CASE g.row = h.row
  <2>1. g.left + g.width <= h.left \/ h.left + h.width <= g.left
    BY <1>7 DEF Apart
  <2> QED BY <1>1, <1>2, <2>1
<1> QED BY <1>1, <1>5, <1>6, <1>7

\* Of two glyphs that are clear it does not matter which comes first.
LEMMA ClearIsSymmetric ==
  ASSUME NEW g \in Glyphs, NEW h \in Glyphs, NEW last, NEW crowded, Clear(g, h, last, crowded)
  PROVE  Clear(h, g, last, crowded)
BY DEF Clear, Apart, Glyphs

\* A new glyph that is clear of the others keeps the table packed, and so
\* does one more entry for a glyph that is there.
LEMMA InsertKeepsPacked ==
  ASSUME NEW table, NEW key, NEW g, NEW last, NEW crowded, Packed(table, last, crowded),
         g \in Glyphs, Inside(g), g.row <= last,
         \A k \in DOMAIN table : Clear(table[k], g, last, crowded)
  PROVE  Packed(Insert(table, key, g), last, crowded)
<1> DEFINE new == Insert(table, key, g)
<1>1. \A k \in DOMAIN new : new[k] = g \/ \E j \in DOMAIN table : new[k] = table[j]
  BY DEF Insert
<1>2. \A k \in DOMAIN table : Clear(g, table[k], last, crowded)
  BY ClearIsSymmetric DEF Packed
<1>3. Clear(g, g, last, crowded)
  BY DEF Clear
<1> HIDE DEF new
<1>4. \A k \in DOMAIN new : new[k] \in Glyphs /\ Inside(new[k]) /\ new[k].row <= last
  BY <1>1 DEF Packed
<1>5. \A j, k \in DOMAIN new : Clear(new[j], new[k], last, crowded)
  <2> SUFFICES ASSUME NEW j \in DOMAIN new, NEW k \in DOMAIN new
               PROVE  Clear(new[j], new[k], last, crowded)
    OBVIOUS
  <2>1. CASE new[j] = g
    BY <1>1, <1>2, <1>3, <2>1
  <2>2. CASE new[k] = g
    BY <1>1, <1>3, <2>2
  <2>3. CASE new[j] # g /\ new[k] # g
    BY <1>1, <2>3 DEF Packed
  <2> QED BY <2>1, <2>2, <2>3
<1> QED BY <1>4, <1>5 DEF Packed, new

\* What is packed with last rows that are not crowded is packed if they are,
\* and in a new row.
LEMMA PackedFacts ==
  ASSUME NEW table, NEW last \in Nat, NEW crowded, Packed(table, last, crowded)
  PROVE  /\ Packed(table, last, TRUE)
         /\ ~crowded => Packed(table, last + 1, FALSE)
<1>1. \A k \in DOMAIN table : table[k].row \in Nat /\ table[k].row <= last
  BY DEF Packed, Glyphs
<1>2. \A k \in DOMAIN table : table[k].row <= last + 1
  BY <1>1
<1> QED BY <1>2 DEF Packed, Clear

\* operator[] keeps a table packed: what it makes of zeros takes no pixel.
LEMMA AliasKeepsPacked ==
  ASSUME NEW b, IsBuild(b), IsPacked(b), NEW key, NEW other
  PROVE  IsPacked([b EXCEPT !.table = Alias(@, key, other)])
<1> USE AtlasAssumption
<1> DEFINE last == b.rows - 1
           crowded == (b.stopped > 0)
           n == [b EXCEPT !.table = Alias(@, key, other)]
<1>1. /\ n.table = Alias(b.table, key, other) /\ n.rows = b.rows /\ n.pointer = b.pointer
      /\ n.stopped = b.stopped
  BY DEF IsBuild
<1> HIDE DEF n
<1>2. last \in Nat /\ b.pointer \in Nat /\ Packed(b.table, last, crowded)
  BY DEF IsPacked, Rows
<1>3. /\ Zeros \in Glyphs /\ Inside(Zeros) /\ Zeros.row <= last /\ Zeros.left + Zeros.width = 0
      /\ \A h \in Glyphs : Apart(h, Zeros)
  <2>1. Zeros.row = 0 /\ Zeros.left = 0 /\ Zeros.width = 0 /\ Zeros.height = 0 /\ Zeros \in Glyphs
    BY DEF Zeros, Glyphs
  <2>2. bound * (0 + 1) <= atlas_width
    OBVIOUS
  <2> QED BY <1>2, <2>1, <2>2 DEF Inside, Apart, Glyphs
<1>4. \A k \in DOMAIN n.table : n.table[k] = Zeros \/ \E j \in DOMAIN b.table : n.table[k] = b.table[j]
  BY <1>1 DEF Alias, Insert
<1>5. Packed(n.table, last, crowded)
  <2>1. \A k \in DOMAIN n.table : n.table[k] \in Glyphs /\ Inside(n.table[k]) /\ n.table[k].row <= last
    BY <1>2, <1>3, <1>4 DEF Packed
  <2>2. \A j, k \in DOMAIN n.table : Clear(n.table[j], n.table[k], last, crowded)
    <3> SUFFICES ASSUME NEW j \in DOMAIN n.table, NEW k \in DOMAIN n.table
                 PROVE  Clear(n.table[j], n.table[k], last, crowded)
      OBVIOUS
    <3>1. CASE n.table[k] = Zeros
      BY <1>3, <2>1, <3>1 DEF Clear
    <3>2. CASE n.table[j] = Zeros
      BY <1>3, <2>1, <3>2, ClearIsSymmetric DEF Clear
    <3>3. CASE n.table[j] # Zeros /\ n.table[k] # Zeros
      BY <1>2, <1>4, <3>3 DEF Packed
    <3> QED BY <3>1, <3>2, <3>3
  <2> QED BY <2>1, <2>2 DEF Packed
<1>6. ASSUME b.stopped = 0 PROVE EndsAt(n.table, last, b.pointer)
  <2>1. EndsAt(b.table, last, b.pointer)
    BY <1>6 DEF IsPacked
  <2> HIDE DEF last
  <2> QED BY <1>2, <1>3, <1>4, <2>1 DEF EndsAt
<1> QED BY <1>1, <1>5, <1>6 DEF IsPacked, Rows, NewRowFits, n

\* PlaceGlyph puts the glyph to the right of the others or in a row of its
\* own; when the texture is full it comes to lie in the last row.
LEMMA PlaceGlyphFacts ==
  ASSUME NEW b, IsBuild(b), NEW key, NEW c \in DOMAIN Width
  PROVE  LET n == PlaceGlyph(b, key, c)
         IN /\ IsBuild(n) /\ n.last = b.last /\ n.font = b.font
            /\ n.stopped = 0 => b.stopped = 0
            /\ n.stopped = 0 => DOMAIN n.table = DOMAIN b.table \cup {key}
            /\ IsPacked(b) => IsPacked(n)
<1> DEFINE n == PlaceGlyph(b, key, c)
           w == Width[c]
<1>0. /\ w \in Nat /\ w < atlas_width /\ atlas_width \in Nat /\ w \in 0 .. atlas_width
      /\ Height[c] \in Nat /\ bound \in Nat
  BY AtlasAssumption
<1>1. CASE Fits(b, Width[c])
  <2> DEFINE g == Glyph(b.rows - 1, b.pointer, c)
  <2>1. n = [b EXCEPT !.pointer = @ + w, !.table = Insert(@, key, g)]
    BY <1>1 DEF PlaceGlyph
  <2> HIDE DEF n
  <2>2. /\ DOMAIN n = DOMAIN b /\ n.rows = b.rows /\ n.stopped = b.stopped /\ n.font = b.font
        /\ n.last = b.last /\ n.pointer = b.pointer + w /\ n.table = Insert(b.table, key, g)
    BY <2>1 DEF IsBuild
  <2>3. ASSUME IsPacked(b) PROVE IsPacked(n)
    <3> DEFINE last == b.rows - 1
               crowded == (b.stopped > 0)
    <3>1. /\ last \in Nat /\ b.rows \in Nat /\ b.pointer \in Nat /\ bound * b.rows <= atlas_width
          /\ Packed(b.table, last, crowded) /\ b.pointer + w < atlas_width
      BY <1>1, <2>3 DEF IsPacked, Rows, Fits
    <3>2. /\ g \in Glyphs /\ g.row = last /\ g.left = b.pointer /\ g.width = w
      BY <1>0, <3>1 DEF Glyph, Glyphs
    <3> HIDE DEF g, w
    <3>3. Inside(g)
      <4>1. g.row + 1 = b.rows
        BY <3>1, <3>2
      <4>2. g.left + g.width <= atlas_width
        <5>1. b.pointer + w < atlas_width
          BY <3>1 DEF w
        <5> QED BY <1>0, <3>1, <3>2, <5>1
      <4> QED BY <3>1, <4>1, <4>2 DEF Inside
    <3>4. \A k \in DOMAIN b.table : Clear(b.table[k], g, last, crowded)
      <4> SUFFICES ASSUME NEW k \in DOMAIN b.table PROVE Clear(b.table[k], g, last, crowded)
        OBVIOUS
      <4>1. b.table[k] \in Glyphs
        BY <3>1 DEF Packed
      <4>2. CASE b.table[k].row # last
        BY <3>2, <4>2 DEF Clear, Apart
      <4>3. CASE b.table[k].row = last /\ crowded
        BY <3>2, <4>3 DEF Clear
      <4>4. CASE b.table[k].row = last /\ ~crowded
        <5>1. b.table[k].left + b.table[k].width <= g.left
          BY <2>3, <3>2, <4>4 DEF IsPacked, EndsAt, IsBuild
        <5> QED BY <5>1 DEF Clear, Apart
      <4> QED BY <4>2, <4>3, <4>4
    <3>5. Packed(n.table, last, crowded)
      <4> HIDE DEF last, crowded
      <4> QED BY <2>2, <3>1, <3>2, <3>3, <3>4, InsertKeepsPacked
    <3>6. ASSUME b.stopped = 0 PROVE EndsAt(n.table, last, n.pointer)
      <4>1. EndsAt(b.table, last, b.pointer) /\ \A k \in DOMAIN b.table : b.table[k] \in Glyphs
        BY <2>3, <3>1, <3>6 DEF IsPacked, Packed
      <4>2. \A k \in DOMAIN n.table : n.table[k] = g \/ (k \in DOMAIN b.table /\ n.table[k] = b.table[k])
        BY <2>2 DEF Insert
      <4> SUFFICES ASSUME NEW k \in DOMAIN n.table, n.table[k].row = last
                   PROVE  n.table[k].left + n.table[k].width <= n.pointer
        BY DEF EndsAt
      <4>3. CASE n.table[k] = g
        BY <1>0, <2>2, <3>1, <3>2, <4>3 DEF w
      <4>4. CASE k \in DOMAIN b.table /\ n.table[k] = b.table[k]
        <5>1. b.table[k].left \in Nat /\ b.table[k].width \in Nat
              /\ b.table[k].left + b.table[k].width <= b.pointer
          BY <4>1, <4>4 DEF EndsAt, Glyphs
        <5>2. n.pointer = b.pointer + w
          BY <2>2 DEF w
        <5> QED BY <1>0, <3>1, <4>4, <5>1, <5>2
      <4> QED BY <4>2, <4>3, <4>4
    <3>7. n.pointer \in 0 .. atlas_width
      <4>1. n.pointer = b.pointer + w /\ b.pointer + w < atlas_width
        BY <2>2, <3>1 DEF w
      <4> QED BY <1>0, <3>1, <4>1
    <3>8. Rows(n)
      BY <2>2, <2>3, <3>7 DEF IsPacked, Rows, NewRowFits
    <3> QED BY <2>2, <3>5, <3>6, <3>8 DEF IsPacked
  <2>4. DOMAIN n.table = DOMAIN b.table \cup {key}
    BY <2>2 DEF Insert
  <2>5. IsBuild(n)
    BY <2>2 DEF IsBuild
  <2> QED BY <2>2, <2>3, <2>4, <2>5 DEF n
<1>2. CASE ~Fits(b, Width[c]) /\ NewRowFits(b)
  <2> DEFINE g == Glyph(b.rows, 0, c)
  <2>1. n = [b EXCEPT !.pointer = w, !.rows = @ + 1, !.table = Insert(@, key, g)]
    BY <1>2 DEF PlaceGlyph
  <2> HIDE DEF n
  <2>2. /\ DOMAIN n = DOMAIN b /\ n.rows = b.rows + 1 /\ n.stopped = b.stopped /\ n.font = b.font
        /\ n.last = b.last /\ n.pointer = w /\ n.table = Insert(b.table, key, g)
    BY <2>1 DEF IsBuild
  <2>3. ASSUME IsPacked(b) PROVE IsPacked(n)
    <3> DEFINE last == b.rows - 1
    <3>1. /\ last \in Nat /\ b.rows \in Nat /\ last + 1 = b.rows /\ b.stopped = 0
          /\ bound * (b.rows + 1) <= atlas_width /\ Packed(b.table, last, b.stopped > 0)
      BY <1>2, <2>3 DEF IsPacked, Rows, NewRowFits, IsBuild
    <3>2. /\ g \in Glyphs /\ g.row = b.rows /\ g.left = 0 /\ g.width = w
      BY <1>0, <3>1 DEF Glyph, Glyphs
    <3>3. Inside(g) /\ g.row <= b.rows
      BY <1>0, <3>1, <3>2 DEF Inside
    <3>4. Packed(b.table, b.rows, FALSE)
      <4>1. ~(b.stopped > 0)
        BY <3>1
      <4> HIDE DEF last
      <4>2. last \in Nat /\ Packed(b.table, last, b.stopped > 0)
        BY <3>1
      <4>3. Packed(b.table, last, FALSE)
        BY <4>1, <4>2 DEF Packed, Clear
      <4>4. Packed(b.table, last + 1, FALSE)
        BY <4>2, <4>3, PackedFacts
      <4> QED BY <3>1, <4>4
    <3>5. \A k \in DOMAIN b.table : b.table[k] \in Glyphs /\ b.table[k].row \in Nat /\ b.table[k].row <= last
      BY <3>1 DEF Packed, Glyphs
    <3> HIDE DEF g, w, last
    <3>6. \A k \in DOMAIN b.table : Clear(b.table[k], g, b.rows, FALSE)
      <4> SUFFICES ASSUME NEW k \in DOMAIN b.table PROVE Clear(b.table[k], g, b.rows, FALSE)
        OBVIOUS
      <4>1. b.table[k].row # g.row
        BY <3>1, <3>2, <3>5
      <4> QED BY <4>1 DEF Clear, Apart
    <3>7. Packed(n.table, b.rows, FALSE)
      <4>1. n.table = Insert(b.table, key, g) /\ g \in Glyphs
        BY <2>2, <3>2
      <4> QED BY <3>3, <3>4, <3>6, <4>1, InsertKeepsPacked, Zenon
    <3>8. EndsAt(n.table, b.rows, n.pointer)
      <4>1. \A k \in DOMAIN n.table : n.table[k] = g \/ (k \in DOMAIN b.table /\ n.table[k] = b.table[k])
        BY <2>2 DEF Insert
      <4> SUFFICES ASSUME NEW k \in DOMAIN n.table, n.table[k].row = b.rows
                   PROVE  n.table[k].left + n.table[k].width <= n.pointer
        BY DEF EndsAt
      <4>2. n.table[k] = g
        BY <3>1, <3>5, <4>1
      <4> QED BY <1>0, <2>2, <3>2, <4>2 DEF w
    <3>9. Rows(n)
      <4>1. n.rows = b.rows + 1 /\ n.pointer \in 0 .. atlas_width /\ n.stopped = 0
        BY <1>0, <2>2, <3>1 DEF w
      <4>2. n.rows \in Nat \ {0} /\ bound * n.rows <= atlas_width
        BY <3>1, <4>1
      <4> QED BY <4>1, <4>2 DEF Rows
    <3>10. n.rows - 1 = b.rows /\ (n.stopped > 0) = FALSE
      BY <2>2, <3>1
    <3> QED BY <3>7, <3>8, <3>9, <3>10 DEF IsPacked
  <2>4. DOMAIN n.table = DOMAIN b.table \cup {key}
    BY <2>2 DEF Insert
  <2>5. IsBuild(n)
    BY <2>2 DEF IsBuild
  <2> QED BY <2>2, <2>3, <2>4, <2>5 DEF n
<1>3. CASE ~Fits(b, Width[c]) /\ ~NewRowFits(b)
  <2>1. n = [b EXCEPT !.pointer = w, !.stopped = b.font]
    BY <1>3 DEF PlaceGlyph
  <2>2. /\ DOMAIN n = DOMAIN b /\ n.rows = b.rows /\ n.pointer = w /\ n.stopped = b.font
        /\ n.font = b.font /\ n.last = b.last /\ n.table = b.table /\ b.font > 0
    BY <2>1 DEF IsBuild
  <2> HIDE DEF n
  <2>3. ASSUME IsPacked(b) PROVE IsPacked(n)
    <3>1. Packed(b.table, b.rows - 1, TRUE)
      <4>1. b.rows - 1 \in Nat /\ Packed(b.table, b.rows - 1, b.stopped > 0)
        BY <2>3 DEF IsPacked, Rows
      <4> QED BY <4>1, PackedFacts
    <3>2. (n.stopped > 0) = TRUE /\ n.stopped # 0 /\ n.pointer \in 0 .. atlas_width
      BY <1>0, <2>2 DEF IsBuild
    <3>3. Rows(n)
      BY <1>3, <2>2, <2>3, <3>2 DEF IsPacked, Rows, NewRowFits
    <3> QED BY <2>2, <3>1, <3>2, <3>3 DEF IsPacked
  <2>4. IsBuild(n)
    BY <2>2 DEF IsBuild
  <2> QED BY <2>2, <2>3, <2>4 DEF n, IsBuild
<1> QED BY <1>1, <1>2, <1>3

\* LoadGlyph looks at one more code point: a build that has room for it has
\* a .notdef of every class it has come to, and the blank.
LEMMA LoadGlyphFacts ==
  ASSUME NEW b, IsBuild(b), NEW c \in Nat, c > b.last,
         c # 0 => b.last >= 0, c > Space => b.last >= Space
  PROVE  LET n == [LoadGlyph(b, c) EXCEPT !.last = c]
         IN /\ IsBuild(n)
            /\ IsPacked(b) => IsPacked(n)
            /\ n.stopped = 0 /\ (b.stopped = 0 => Visited(b)) => Visited(n)
<1> DEFINE m == LoadGlyph(b, c)
           n == [m EXCEPT !.last = c]
           key == <<c, fonts[b.font].type>>
           lacks == c # 0 /\ c \notin fonts[b.font].has
<1>1. /\ IsBuild(m) /\ m.font = b.font
      /\ m.stopped = 0 => b.stopped = 0
      /\ m.stopped = 0 => DOMAIN b.table \subseteq DOMAIN m.table
      /\ m.stopped = 0 => key \in DOMAIN m.table \/ (lacks /\ b.font < Len(fonts))
      /\ IsPacked(b) => IsPacked(m)
  <2>1. CASE key \in DOMAIN b.table \/ (lacks /\ b.font < Len(fonts))
    BY <2>1 DEF LoadGlyph
  <2>2. CASE key \notin DOMAIN b.table /\ lacks /\ b.font = Len(fonts)
    <3>1. m = [b EXCEPT !.table = Alias(@, key, <<0, "regular">>)]
      BY <2>2, AtlasAssumption DEF LoadGlyph
    <3> HIDE DEF m
    <3>2. /\ DOMAIN m = DOMAIN b /\ m.stopped = b.stopped /\ m.font = b.font /\ m.last = b.last
          /\ m.table = Alias(b.table, key, <<0, "regular">>)
      BY <3>1 DEF IsBuild
    <3>3. IsBuild(m)
      BY <3>2 DEF IsBuild
    <3>4. DOMAIN b.table \cup {key} \subseteq DOMAIN m.table
      BY <3>2 DEF Alias, Insert
    <3>5. IsPacked(b) => IsPacked(m)
      BY <3>1, AliasKeepsPacked
    <3> QED BY <3>2, <3>3, <3>4, <3>5
  <2>3. CASE key \notin DOMAIN b.table /\ ~lacks
    <3>1. m = PlaceGlyph(b, key, c)
      BY <2>3 DEF LoadGlyph
    <3>2. c \in DOMAIN Width
      BY <2>3, AtlasAssumption DEF IsBuild
    <3> HIDE DEF m
    <3> QED BY <3>1, <3>2, PlaceGlyphFacts
  <2>4. b.font \in 1 .. Len(fonts) /\ Len(fonts) \in Nat
    BY AtlasAssumption DEF IsBuild
  <2> QED BY <2>1, <2>2, <2>3, <2>4
<1> HIDE DEF m
<1>2. /\ DOMAIN n = DOMAIN m /\ n.rows = m.rows /\ n.pointer = m.pointer /\ n.stopped = m.stopped
      /\ n.font = m.font /\ n.last = c /\ n.table = m.table
  BY <1>1 DEF IsBuild
<1> HIDE DEF n
<1>3. IsBuild(n)
  BY <1>1, <1>2 DEF IsBuild
<1>4. IsPacked(b) => IsPacked(n)
  BY <1>1, <1>2 DEF IsPacked, Rows, NewRowFits
<1>5. ASSUME n.stopped = 0, b.stopped = 0 => Visited(b) PROVE Visited(n)
  <2>1. Visited(b)
    BY <1>1, <1>2, <1>5
  <2>2. /\ DOMAIN b.table \subseteq DOMAIN n.table /\ n.font = b.font
        /\ key \in DOMAIN n.table \/ (lacks /\ b.font < Len(fonts))
    BY <1>1, <1>2, <1>5
  <2>3. <<0, fonts[b.font].type>> \in DOMAIN n.table
    BY <2>1, <2>2 DEF Visited
  <2>4. b.font = Len(fonts) /\ c >= Space => HasSpace(n.table)
    <3>1. CASE c = Space
      BY <2>2, <3>1, AtlasAssumption DEF HasSpace
    <3>2. CASE c > Space
      BY <2>1, <2>2, <3>2 DEF HasSpace, Visited
    <3> QED BY <3>1, <3>2, AtlasAssumption
  <2> QED BY <1>2, <2>1, <2>2, <2>3, <2>4 DEF Visited
<1> QED BY <1>3, <1>4, <1>5 DEF n, m
-----------------------------------------------------------------------------
(* Threads *)

\* A build at its start.
LEMMA EmptyFacts == IsBuild(Empty) /\ Empty.stopped = 0 /\ IsPacked(Empty) /\ Visited(Empty)
<1>1. /\ DOMAIN Empty.table = {} /\ Empty.rows = 1 /\ Empty.pointer = 0 /\ Empty.stopped = 0
      /\ Empty.font = 1 /\ Empty.last = -1
      /\ DOMAIN Empty = {"table", "rows", "pointer", "stopped", "font", "last"}
  BY DEF Empty, NoGlyphs
<1> HIDE DEF Empty
<1>2. IsBuild(Empty)
  BY <1>1, AtlasAssumption DEF IsBuild
<1>3. IsPacked(Empty)
  BY <1>1, AtlasAssumption DEF IsPacked, Rows, Packed, EndsAt
<1>4. Visited(Empty)
  <2>1. Space \in Nat
    BY AtlasAssumption
  <2>2. ~(Empty.last >= 0) /\ ~(Empty.last >= Space) /\ 1 .. Empty.font - 1 = {}
    BY <1>1, <2>1
  <2> QED BY <2>2 DEF Visited
<1> QED BY <1>1, <1>2, <1>3, <1>4

\* A build that is over has everything, or gave up a font.
LEMMA FinishedBuild ==
  ASSUME NEW b, IsBuild(b), b.font = Len(fonts), Rest(b) = {}, b.stopped = 0,
         Visited(b), {0, Space} \subseteq codepoints_to_load, codepoints_to_load \subseteq Nat
  PROVE  Complete(b.table) /\ HasSpace(b.table)
<1>1. b.last >= 0 /\ b.last >= Space
  <2>1. b.last \in Int
    BY DEF IsBuild
  <2>2. Space \in Nat
    BY AtlasAssumption
  <2>3. b.stopped # b.font
    BY AtlasAssumption
  <2>4. ~(0 > b.last) /\ ~(Space > b.last)
    BY <2>3 DEF Rest
  <2> QED BY <2>1, <2>2, <2>4
<1>2. HasSpace(b.table)
  BY <1>1 DEF Visited
<1>3. ASSUME NEW k \in DOMAIN fonts PROVE <<0, fonts[k].type>> \in DOMAIN b.table
  <2>1. k = b.font \/ k \in 1 .. b.font - 1
    BY AtlasAssumption
  <2> QED BY <1>1, <2>1 DEF Visited
<1> QED BY <1>2, <1>3 DEF Complete, Types

\* An empty table, and no thread that builds.
LEMMA HoldsAtFirst == Init => TypeInv /\ BuildInv /\ TableInv
<1> SUFFICES ASSUME Init PROVE TypeInv /\ BuildInv /\ TableInv
  OBVIOUS
<1>1. DOMAIN NoGlyphs = {}
  BY DEF NoGlyphs
<1>2. TypeInv /\ BuildInv
  BY EmptyFacts DEF Init, TypeInv, BuildInv, Good, Threads
<1>3. Packed(characters, 0, full)
  BY <1>1 DEF Init, Packed
<1> QED BY <1>2, <1>3 DEF Init, TableInv, Threads

\* Every step keeps the types.
LEMMA TypesAreKept == TypeInv /\ [Next]_vars => TypeInv'
<1> SUFFICES ASSUME TypeInv, [Next]_vars PROVE TypeInv'
  OBVIOUS
<1> USE DEF TypeInv, glyphs
<1>1. CASE UNCHANGED vars
  BY <1>1 DEF vars, Threads
<1>2. CASE CreateSurface
  BY <1>2 DEF CreateSurface, Threads
<1>3. CASE Show
  BY <1>3 DEF Show, Threads
<1>4. ASSUME NEW t \in Threads, Render(t) PROVE TypeInv'
  <2> USE <1>4
  <2>1. t <= surfaces /\ t \in Int
    BY DEF Render, Threads
  <2>2. CASE Prologue(t)
    BY <2>1, <2>2, AtlasAssumption DEF Prologue
  <2>3. CASE BuildReset(t) \/ BuildClear(t) \/ Loop(t)
    BY <2>1, <2>3 DEF BuildReset, BuildClear, Loop
  <2>4. CASE BuildLoad(t)
    <3>1. PICK c \in Rest(build[t]) :
            /\ \A d \in Rest(build[t]) : c <= d
            /\ build' = [build EXCEPT ![t] = [LoadGlyph(build[t], c) EXCEPT !.last = c]]
      BY <2>4 DEF BuildLoad
    <3>2. c \in Nat /\ c > build[t].last /\ {0, Space} \subseteq codepoints_to_load /\ build[t].stopped # build[t].font
      BY <2>4, <3>1 DEF BuildLoad, Rest
    <3>3. (c # 0 => build[t].last >= 0) /\ (c > Space => build[t].last >= Space)
      <4>1. Space \in Nat /\ build[t].last \in Int
        BY AtlasAssumption DEF IsBuild
      <4> QED BY <3>1, <3>2, <4>1 DEF Rest
    <3>4. IsBuild([LoadGlyph(build[t], c) EXCEPT !.last = c])
      BY <3>2, <3>3, LoadGlyphFacts
    <3> QED BY <2>1, <2>4, <3>1, <3>4 DEF BuildLoad
  <2>5. CASE BuildNextFont(t)
    <3> DEFINE b == [build[t] EXCEPT !.font = @ + 1, !.last = -1]
    <3>1. build' = [build EXCEPT ![t] = b] /\ build[t].font < Len(fonts)
      BY <2>5 DEF BuildNextFont, IsBuild
    <3>2. IsBuild(b)
      BY <3>1, AtlasAssumption DEF IsBuild
    <3> QED BY <2>1, <2>5, <3>1, <3>2 DEF BuildNextFont
  <2>6. CASE BuildUpload(t)
    <3> DEFINE b == [build[t] EXCEPT !.table =
                       Alias(@, <<WIDE_TAIL, "regular">>, <<Space, "regular">>)]
    <3>1. build' = [build EXCEPT ![t] = b]
      BY <2>6 DEF BuildUpload, IsBuild
    <3>2. IsBuild(b)
      BY DEF IsBuild
    <3> QED BY <2>1, <2>6, <3>1, <3>2 DEF BuildUpload
  <2>7. CASE BuildSwap(t)
    BY <2>1, <2>7, EmptyFacts DEF BuildSwap
  <2>8. CASE Draw(t)
    <3>1. \A cell \in screen : cell[1] \in Nat
      BY AtlasAssumption
    <3>2. codepoints_to_load' \subseteq Nat /\ codepoints_to_load \subseteq codepoints_to_load'
      BY <2>8, <3>1 DEF Draw
    <3>3. /\ pc' = [pc EXCEPT ![t] = "loop"] /\ pc[t] = "draw"
          /\ UNCHANGED <<surfaces, build, screen>>
      BY <2>8 DEF Draw
    <3>4. full' = full
      BY <2>8 DEF Draw
    <3> QED BY <2>1, <3>2, <3>3, <3>4
  <2> QED BY <2>2, <2>3, <2>4, <2>5, <2>6, <2>7, <2>8 DEF Render
<1> QED BY <1>1, <1>2, <1>3, <1>4 DEF Next

\* Every step keeps what is known of the builds.
LEMMA BuildsAreKept == TypeInv /\ BuildInv /\ [Next]_vars => BuildInv'
<1> SUFFICES ASSUME TypeInv, BuildInv, [Next]_vars PROVE BuildInv'
  OBVIOUS
<1> USE DEF BuildInv, glyphs
<1>1. CASE UNCHANGED vars
  BY <1>1 DEF vars, Threads
<1>2. CASE CreateSurface
  <2>1. surfaces + 1 \in Int /\ DOMAIN pc = Threads /\ UNCHANGED <<build, full>>
        /\ pc' = [pc EXCEPT ![surfaces + 1] = "prologue"]
    BY <1>2 DEF CreateSurface, TypeInv
  <2>2. Good("prologue", build[surfaces + 1], full)
    BY DEF Good
  <2> QED BY <2>1, <2>2 DEF Threads
<1>3. CASE Show
  BY <1>3 DEF Show, Threads
<1>4. ASSUME NEW t \in Threads, Render(t) PROVE BuildInv'
  <2> USE <1>4
  <2>1. DOMAIN pc = Threads /\ DOMAIN build = Threads /\ IsBuild(build[t])
    BY DEF TypeInv
  <2>0. SUFFICES Good(pc'[t], build'[t], full')
    <3>1. \A u \in Threads : u # t => pc'[u] = pc[u] /\ build'[u] = build[u]
      BY <2>1 DEF Render, Prologue, BuildReset, BuildLoad, BuildNextFont, BuildUpload, BuildClear,
                  BuildSwap, Draw, Loop
    <3>2. full => full'
      BY Zenon DEF Render, Prologue, BuildReset, BuildLoad, BuildNextFont, BuildUpload, BuildClear,
                   BuildSwap, Draw, Loop
    <3>3. \A u \in Threads : u # t => Good(pc'[u], build'[u], full')
      BY <3>1, <3>2 DEF Good
    <3> QED BY <3>3 DEF Threads
  <2>2. CASE Prologue(t) \/ BuildSwap(t) \/ Draw(t) \/ Loop(t)
    <3>1. pc'[t] \in {"reset", "draw", "loop"}
      BY <2>1, <2>2 DEF Prologue, BuildSwap, Draw, Loop
    <3> QED BY <3>1 DEF Good
  <2>7. CASE BuildClear(t)
    BY <2>1, <2>7 DEF BuildClear, Good
  <2>3. CASE BuildReset(t)
    <3>1. build[t] = Empty
      BY <2>3 DEF BuildReset, TypeInv
    <3> QED BY <2>1, <2>3, <3>1, EmptyFacts DEF BuildReset, Good
  <2>4. CASE BuildLoad(t)
    <3>1. PICK c \in Rest(build[t]) :
            /\ \A d \in Rest(build[t]) : c <= d
            /\ build' = [build EXCEPT ![t] = [LoadGlyph(build[t], c) EXCEPT !.last = c]]
      BY <2>4 DEF BuildLoad
    <3>2. /\ c \in Nat /\ c > build[t].last /\ {0, Space} \subseteq codepoints_to_load
          /\ build[t].stopped # build[t].font
      BY <2>4, <3>1 DEF BuildLoad, Rest, TypeInv
    <3>3. (c # 0 => build[t].last >= 0) /\ (c > Space => build[t].last >= Space)
      <4>1. Space \in Nat /\ build[t].last \in Int
        BY <2>1, AtlasAssumption DEF IsBuild
      <4> QED BY <3>1, <3>2, <4>1 DEF Rest
    <3> DEFINE n == [LoadGlyph(build[t], c) EXCEPT !.last = c]
    <3>4. IsPacked(n) /\ (n.stopped = 0 => Visited(n))
      BY <2>1, <2>4, <3>2, <3>3, LoadGlyphFacts DEF BuildLoad, Good
    <3>5. build' = [build EXCEPT ![t] = n]
      BY <3>1
    <3> HIDE DEF n
    <3> QED BY <2>1, <2>4, <3>4, <3>5 DEF BuildLoad, Good
  <2>5. CASE BuildNextFont(t)
    <3> DEFINE b == build[t]
               n == [b EXCEPT !.font = @ + 1, !.last = -1]
    <3>1. /\ build' = [build EXCEPT ![t] = n] /\ UNCHANGED <<pc, full>>
          /\ pc[t] = "load" /\ Rest(b) = {} /\ b.font < Len(fonts)
      BY <2>5 DEF BuildNextFont
    <3>2. /\ n.table = b.table /\ n.rows = b.rows /\ n.pointer = b.pointer /\ n.stopped = b.stopped
          /\ n.font = b.font + 1 /\ n.last = -1
      BY <2>1 DEF IsBuild
    <3> HIDE DEF n
    <3>4. IsPacked(n)
      BY <3>1, <3>2 DEF Good, IsPacked, Rows, NewRowFits
    <3>3. ASSUME n.stopped = 0 PROVE Visited(n)
      <4>1. Visited(b)
        BY <3>1, <3>2, <3>3 DEF Good
      <4>3. b.last >= 0
        <5>1. 0 \in codepoints_to_load
          BY <3>1 DEF TypeInv
        <5>2. b.stopped # b.font /\ b.last \in Int
          BY <2>1, <3>2, <3>3 DEF IsBuild
        <5> QED BY <3>1, <5>1, <5>2 DEF Rest
      <4>4. \A k \in 1 .. n.font - 1 : <<0, fonts[k].type>> \in DOMAIN n.table
        <5> SUFFICES ASSUME NEW k \in 1 .. n.font - 1
                     PROVE  <<0, fonts[k].type>> \in DOMAIN n.table
          OBVIOUS
        <5>1. k = b.font \/ k \in 1 .. b.font - 1
          BY <2>1, <3>2 DEF IsBuild
        <5> QED BY <3>2, <4>1, <4>3, <5>1 DEF Visited
      <4>5. ~(n.last >= 0) /\ ~(n.last >= Space)
        BY <3>2, AtlasAssumption
      <4> QED BY <4>4, <4>5 DEF Visited
    <3> HIDE DEF b
    <3> QED BY <2>1, <3>1, <3>3, <3>4 DEF b, Good
  <2>6. CASE BuildUpload(t)
    <3> DEFINE b == build[t]
               n == [b EXCEPT !.table = Alias(@, <<WIDE_TAIL, "regular">>, <<Space, "regular">>)]
    <3>1. /\ build' = [build EXCEPT ![t] = n] /\ pc' = [pc EXCEPT ![t] = "clear"]
          /\ pc[t] = "load" /\ Rest(b) = {} /\ b.font = Len(fonts)
          /\ full' = (full \/ b.stopped > 0)
      BY <2>6 DEF BuildUpload
    <3>2. n.table = Alias(b.table, <<WIDE_TAIL, "regular">>, <<Space, "regular">>) /\ n.stopped = b.stopped
      BY <2>1 DEF IsBuild
    <3>3. IsPacked(n)
      BY <2>1, <3>1, AliasKeepsPacked DEF Good
    <3> HIDE DEF n
    <3>4. ASSUME b.stopped = 0 PROVE Complete(n.table)
      <4>1. Visited(b)
        BY <3>1, <3>4 DEF Good
      <4>2. Complete(b.table)
        BY <2>1, <3>1, <3>4, <4>1, FinishedBuild DEF TypeInv
      <4>3. DOMAIN b.table \subseteq DOMAIN n.table
        BY <3>2 DEF Alias, Insert
      <4> QED BY <4>2, <4>3 DEF Complete
    <3>5. n.stopped > 0 => full'
      BY <3>1, <3>2, Zenon
    <3> QED BY <2>1, <3>1, <3>2, <3>3, <3>4, <3>5 DEF Good
  <2> QED BY <2>2, <2>3, <2>4, <2>5, <2>6, <2>7 DEF Render
<1> QED BY <1>1, <1>2, <1>3, <1>4 DEF Next
-----------------------------------------------------------------------------
(* The table *)

\* Every step keeps the shared table packed, and a thread that is alone never
\* meets a table without a .notdef.
LEMMA TableIsKept == TypeInv /\ BuildInv /\ TableInv /\ [Next]_vars => TableInv'
<1> SUFFICES ASSUME TypeInv, BuildInv, TableInv, [Next]_vars PROVE TableInv'
  OBVIOUS
<1> USE DEF TableInv, glyphs
<1>0. DOMAIN NoGlyphs = {}
  BY DEF NoGlyphs
<1>1. CASE UNCHANGED vars
  BY <1>1 DEF vars, Threads
<1>2. CASE CreateSurface
  <2>1. /\ surfaces' = surfaces + 1 /\ UNCHANGED <<characters, full, asserted>>
        /\ pc' = [pc EXCEPT ![surfaces + 1] = "prologue"] /\ DOMAIN pc = Threads /\ surfaces \in Nat
    BY <1>2 DEF CreateSurface, TypeInv
  <2>2. surfaces' <= 1 => \A u \in Threads : pc'[u] \notin {"draw", "loop"}
    BY <2>1 DEF TypeInv, Threads
  <2> QED BY <2>1, <2>2 DEF Threads
<1>4. CASE Show
  BY <1>4 DEF Show, Threads
<1>3. ASSUME NEW t \in Threads, Render(t) PROVE TableInv'
  <2> USE <1>3
  <2>1. /\ DOMAIN pc = Threads /\ t <= surfaces
        /\ surfaces <= 1 => \A u \in Threads : u # t => pc[u] = "none"
    BY DEF TypeInv, Render, Threads
  <2>2. CASE Prologue(t) \/ BuildReset(t) \/ BuildLoad(t) \/ BuildNextFont(t) \/ Loop(t)
    BY <2>1, <2>2 DEF Prologue, BuildReset, BuildLoad, BuildNextFont, Loop
  <2>3. CASE BuildUpload(t)
    <3>1. PICK last \in Nat : Packed(characters, last, full)
      OBVIOUS
    <3>2. full' = (full \/ build[t].stopped > 0) /\ characters' = characters
      BY <2>3 DEF BuildUpload
    <3>3. Packed(characters, last, TRUE)
      BY <3>1, PackedFacts
    <3>4. Packed(characters', last, full')
      <4>1. CASE full'
        <5>1. full' = TRUE
          BY <3>2, <4>1 DEF TypeInv
        <5> QED BY <3>2, <3>3, <5>1
      <4>2. CASE ~full'
        <5>1. full' = full
          BY <3>2, <4>2 DEF TypeInv
        <5> QED BY <3>1, <3>2, <5>1
      <4> QED BY <4>1, <4>2
    <3> QED BY <2>1, <2>3, <3>2, <3>4 DEF BuildUpload
  <2>4. CASE BuildClear(t)
    <3>1. Packed(NoGlyphs, 0, full)
      BY <1>0 DEF Packed
    <3> QED BY <2>1, <2>4, <3>1 DEF BuildClear
  <2>5. CASE BuildSwap(t)
    <3> DEFINE b == build[t]
               last == b.rows - 1
    <3>1. IsPacked(b) /\ (b.stopped > 0 => full) /\ (b.stopped = 0 => Complete(b.table)) /\ b.stopped \in Nat
      BY <2>5 DEF BuildSwap, BuildInv, Good, TypeInv, IsBuild
    <3>2. last \in Nat /\ Packed(b.table, last, b.stopped > 0)
      BY <3>1 DEF IsPacked, Rows
    <3>3. full \/ Complete(b.table)
      BY <3>1
    <3> HIDE DEF last
    <3>4. Packed(b.table, last, full)
      <4>1. CASE full
        <5>1. full = TRUE
          BY <4>1 DEF TypeInv
        <5> QED BY <3>2, <5>1, PackedFacts
      <4>2. CASE ~full
        <5>1. ~(b.stopped > 0) /\ full = FALSE
          BY <3>1, <4>2 DEF TypeInv
        <5>2. Packed(b.table, last, FALSE)
          BY <3>2, <5>1 DEF Packed, Clear
        <5> QED BY <5>1, <5>2
      <4> QED BY <4>1, <4>2
    <3> QED BY <2>1, <2>5, <3>2, <3>3, <3>4 DEF BuildSwap
  <2>6. CASE Draw(t)
    <3>1. /\ UNCHANGED <<surfaces, characters, full>> /\ pc' = [pc EXCEPT ![t] = "loop"]
          /\ pc[t] = "draw"
      BY <2>6 DEF Draw
    <3>2. ASSUME ~full, surfaces <= 1 PROVE ~asserted' /\ Complete(characters)
      <4>1. Complete(characters)
        BY <3>1, <3>2
      <4>2. \A cell \in screen : cell[2] \in Types
        BY AtlasAssumption DEF TypeInv, Types
      <4> QED BY <2>6, <4>1, <4>2 DEF Draw, Complete
    <3> QED BY <2>1, <3>1, <3>2
  <2> QED BY <2>2, <2>3, <2>4, <2>5, <2>6 DEF Render
<1> QED BY <1>1, <1>2, <1>3, <1>4 DEF Next

\* The glyphs are copied into the texture, and what is shown of one has
\* nothing of another in it, except below a glyph that is higher than a row
\* and in the last row of a texture that is full.
THEOREM NoGlyphOverlaps == Spec => []GlyphsPacked
<1>1. TypeInv /\ BuildInv /\ TableInv /\ [Next]_vars => TypeInv' /\ BuildInv' /\ TableInv'
  BY TypesAreKept, BuildsAreKept, TableIsKept
<1>2. TypeInv /\ TableInv => GlyphsPacked
  <2> SUFFICES ASSUME TypeInv, TableInv PROVE GlyphsPacked
    OBVIOUS
  <2>1. PICK last \in Nat : Packed(characters, last, full)
    BY DEF TableInv
  <2> SUFFICES ASSUME NEW k \in DOMAIN characters
               PROVE  LET g == characters[k] IN
                      /\ g.left + g.width <= atlas_width /\ bound * (g.row + 1) <= atlas_width
                      /\ \A j \in DOMAIN characters :
                           LET h == characters[j] IN
                           \/ h = g
                           \/ Shown(g) \cap Written(h) = {}
                           \/ g.height > bound /\ h.row > g.row
                           \/ full /\ h.row = g.row /\ LastRow(g)
    BY DEF GlyphsPacked
  <2> DEFINE g == characters[k]
  <2>2. Inside(g) /\ g \in Glyphs
    BY <2>1 DEF Packed
  <2>3. ASSUME NEW j \in DOMAIN characters
        PROVE  LET h == characters[j] IN
               \/ h = g
               \/ Shown(g) \cap Written(h) = {}
               \/ g.height > bound /\ h.row > g.row
               \/ full /\ h.row = g.row /\ LastRow(g)
    <3> DEFINE h == characters[j]
    <3>1. h \in Glyphs /\ Clear(g, h, last, full)
      BY <2>1 DEF Packed
    <3>2. CASE Apart(g, h)
      BY <2>2, <3>1, <3>2, ApartIsDisjoint
    <3>3. CASE full /\ g.row = last /\ h.row = last
      BY <2>1, <3>3 DEF Packed, LastRow
    <3> QED BY <3>1, <3>2, <3>3 DEF Clear
  <2> QED BY <2>2, <2>3 DEF Inside
<1> QED BY HoldsAtFirst, <1>1, <1>2, PTL DEF Spec

\* With one surface the assert in Draw holds, as long as there is room.
THEOREM OneThreadHasNotdef == Spec => []NotdefIsThere
<1>1. TypeInv /\ BuildInv /\ TableInv /\ [Next]_vars => TypeInv' /\ BuildInv' /\ TableInv'
  BY TypesAreKept, BuildsAreKept, TableIsKept
<1>2. TypeInv /\ TableInv => NotdefIsThere
  BY DEF TypeInv, TableInv, NotdefIsThere
<1> QED BY HoldsAtFirst, <1>1, <1>2, PTL DEF Spec
=============================================================================
