---------------------------- MODULE MCBarLayout ----------------------------
(* BarLayout for TLC: two modules on each side of a bar of 15 pixels, two  *)
(* fonts, and a table with as many slots as there are characters to be     *)
(* measured; 1, 6 and 11 share a slot, and no font has 5, so that one of   *)
(* the texts ends in a '?' beyond its width.  Contents of 4 pixels fit,    *)
(* one of 7 on each side makes the sides overlap, two of 7 on the right    *)
(* make its begin negative.  Of the rectangles of three outputs one is     *)
(* within another, two are one above the other, one is left of and below   *)
(* another, and one is lower than the bar.                                 *)
EXTENDS BarLayout

CONSTANTS a, b, c, d

MCLeft == <<a, Sep, b>>
MCRight == <<c, Sep, d>>
MCClickable == {a, b, d}
MCChars == {1, 3, 4, 5, 6, 11}
MCFonts == <<[ch \in {1, 3, 11} |-> IF ch = 1 THEN 1 ELSE 3],
             [ch \in {1, 4, 6} |-> IF ch = 6 THEN 1 ELSE 4]>>
MCSepText == <<1, 6>>
Rect(x, y, w, h) == [x |-> x, y |-> y, width |-> w, height |-> h]
MCScreen == Rect(0, 0, 15, 4)
MCRects == {MCScreen, Rect(15, 0, 8, 3), Rect(0, 4, 8, 3), Rect(0, 0, 8, 2),
            Rect(0, 0, 8, 1)}
MCContents == {<<>>, <<4, 5>>, <<11, 4>>}
=============================================================================
