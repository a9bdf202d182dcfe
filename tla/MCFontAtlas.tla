---------------------------- MODULE MCFontAtlas ----------------------------
(* A small FontAtlas: two fonts with Latin letters, regular and bold, one  *)
(* with an ideograph, and a code point that no font has.                   *)
EXTENDS FontAtlas, TLC

Letter == 97
Ideograph == 200
Unknown == 300

TheFonts == << [type |-> "regular", has |-> {Space, 33, Letter}],
               [type |-> "bold", has |-> {Space, 33, Letter}],
               [type |-> "regular", has |-> {Space, Ideograph}] >>
Widths == (0 :> 2) @@ (32 :> 0) @@ (33 :> 1) @@ (Letter :> 4) @@ (Ideograph :> 3) @@ (Unknown :> 2)
\* A row is two pixels high; one glyph is higher, and one lower.
Heights == (0 :> 2) @@ (32 :> 0) @@ (33 :> 1) @@ (Letter :> 2) @@ (Ideograph :> 3) @@ (Unknown :> 2)
SomeScreens == { {<<Letter, "bold">>, <<999, "bold">>},
                 {<<Ideograph, "bold">>, <<Unknown, "regular">>},
                 {<<Letter, "regular">>, <<Unknown, "bold">>} }
=============================================================================
