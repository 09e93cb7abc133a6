---------------------------- MODULE GlyphWidths ----------------------------
(***************************************************************************)
(* The width of a character: the first font that has it (bar.h 543-561),   *)
(* and the table of widths of Bar (bar.h 387-415), an open hash table by   *)
(* character that is only added to.  Fonts are Xft's, as are all patterns  *)
(* main.cpp gives, and no glyph is wider than the char its width is kept   *)
(* in can say.  The table has no test for room: with all slots taken by    *)
(* other characters the probe never ends, and xftCharWidth has no step.    *)
(***************************************************************************)
EXTENDS Integers, Sequences, FiniteSets

CONSTANTS
  Chars,       \* code points
  Fonts,       \* fontList: for each font, the widths of the glyphs it has
  MaxWidths    \* MAX_WIDTHS

ASSUME GlyphAssumption ==
  /\ IsFiniteSet(Chars) /\ Chars \subseteq Nat \ {0}
  /\ MaxWidths \in Nat \ {0}
  /\ Fonts \in Seq({Fonts[f] : f \in 1..Len(Fonts)})
  /\ \A f \in 1..Len(Fonts) :
       DOMAIN Fonts[f] \subseteq Chars /\ Fonts[f] \in [DOMAIN Fonts[f] -> 0..127]

VARIABLES
  xftChar,   \* by slot: the character, 0 in a free one
  xftWidth

table == <<xftChar, xftWidth>>

Slots == 0..(MaxWidths - 1)

(* The memory of a new Bar, too large for the heap, comes zeroed.          *)
TableInit == xftChar = [s \in Slots |-> 0] /\ xftWidth = [s \in Slots |-> 0]

least(S) == CHOOSE n \in S : \A m \in S : n <= m

(* 0: no font has the character *)
selectDrawableFont(ch) ==
  LET having == {f \in 1..Len(Fonts) : ch \in DOMAIN Fonts[f]}
  IN  IF having = {} THEN 0 ELSE least(having)

(* The steps after which a probe for ch stops.                             *)
stops(ch) == {j \in Slots : xftChar[(ch + j) % MaxWidths] \in {0, ch}}

(* Mutant: no probing.                                                     *)
xftCharWidthSlot_NoProbe(ch) == ch % MaxWidths

xftCharWidthSlot(ch) == (ch + least(stops(ch))) % MaxWidths

(* What xftCharWidth and getUtf8CharWidth return: the width kept, or the   *)
(* font's for a character that is new; 0 without a font                    *)
getUtf8CharWidth(ch) ==
  LET font == selectDrawableFont(ch)
      slot == xftCharWidthSlot(ch)
  IN  CASE font = 0          -> 0
        [] OTHER -> CASE xftChar[slot] = 0  -> Fonts[font][ch]
                      [] xftChar[slot] = ch -> xftWidth[slot]
                      [] OTHER              -> 0

(* and what it leaves in the table *)
xftCharWidth(ch) ==
  LET font == selectDrawableFont(ch)
      slot == xftCharWidthSlot(ch)
  IN  IF font = 0 THEN UNCHANGED table
      ELSE /\ stops(ch) # {}
           /\ IF xftChar[slot] = 0
              THEN /\ xftChar' = [xftChar EXCEPT ![slot] = ch]
                   /\ xftWidth' = [xftWidth EXCEPT ![slot] = Fonts[font][ch]]
              ELSE UNCHANGED table

-----------------------------------------------------------------------------

(* The width of a character in the font that draws it.                     *)
own(ch) == LET font == selectDrawableFont(ch)
           IN  IF font = 0 THEN 0 ELSE Fonts[font][ch]
=============================================================================
