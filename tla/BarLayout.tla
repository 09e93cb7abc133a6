----------------------------- MODULE BarLayout -----------------------------
(***************************************************************************)
(* Measuring, layout and click dispatch of one bar (bar.h 114-136,         *)
(* 646-953, 985-1009).  parseModules measures the elements whose content   *)
(* changed, character by character; renderAllElements walks the left       *)
(* modules from x = 0 and the right modules from the right margin          *)
(* backwards by their total width, and gives each element the 16-bit       *)
(* beginX it is drawn at; processXEvents looks clicks up in what the last  *)
(* walk left behind.  Before that Bar::init makes the windows (Monitors).  *)
(*                                                                         *)
(* A side of the bar is a sequence of items: its elements and, between two *)
(* modules, a separator.  A module here has one element.                   *)
(***************************************************************************)
EXTENDS GlyphWidths, Monitors

CONSTANTS
  Left, Right,  \* the items of the two sides
  Sep,          \* the separator
  Clickable,    \* the elements with an event for the button
  Contents,     \* the texts contents can have
  SepText,      \* the text of a separator; it begins with the space
  Question,     \* '?'
  Word          \* 2^16, the range of beginX and width

Elements == ({Left[n] : n \in 1..Len(Left)} \cup {Right[n] : n \in 1..Len(Right)})
              \ {Sep}

ASSUME LayoutAssumption ==
  /\ Left \in Seq(Elements \cup {Sep}) /\ Right \in Seq(Elements \cup {Sep})
  /\ \A s \in {Left, Right} : \A n, m \in 1..Len(s) :
       s[n] = s[m] /\ s[n] # Sep => n = m
  /\ \A n \in 1..Len(Left), m \in 1..Len(Right) : Left[n] = Right[m] => Left[n] = Sep
  /\ Clickable \subseteq Elements
  /\ Contents \subseteq Seq(Chars) /\ <<>> \in Contents
  /\ SepText \in Seq(Chars) /\ Len(SepText) = 2
  /\ \A ch \in {SepText[1], SepText[2], Question} :
       ch \in Chars /\ selectDrawableFont(ch) # 0
  /\ Word \in Nat \ {0}
  /\ \A r \in Rects \cup {Screen} : r.width < Word  \* CARD16 in the X protocol

VARIABLES
  content,
  dirty,     \* the elements with dirtyContent
  width, beginX,
  separator, \* separator.totalWidth
  painted,   \* pixmap: by pixel, the element drawn there last, Sep for a
             \* separator or the background
  k,         \* the next character
  cur,       \* total_width, current_x or total_right_with_separators
  varied     \* what varies, the monitors or the contents: only the first
             \* monitor's width is common to the two

layout == <<width, beginX, separator>>
vars == <<monvars, content, dirty, layout, painted, table, pc, i, k, cur, varied>>

(* The columns a position can name; those of the window are its first ones *)
(* and drawing beyond them is clipped.                                     *)
Pixels == 0..(Word - 1)

blank == [p \in Pixels |-> Sep]

(* Type invariant: a position fits the uint16_t it is stored in            *)
(* (barElement.h 40-41).                                                   *)
TypeOK ==
  /\ valid \in 0..Outputs /\ plugs \in 0..MaxPlugs /\ torn \in BOOLEAN
  /\ crtc \in [1..Outputs -> Rects \cup {Zero}] /\ rects \in [1..Outputs -> Rects \cup {Zero}]
  /\ mons \in Seq([x : Nat, y : Int, width : Nat])
  /\ xftChar \in [Slots -> Chars \cup {0}] /\ xftWidth \in [Slots -> 0..127]
  /\ content \in [Elements -> Contents]
  /\ dirty \subseteq Elements
  /\ width \in [Elements -> 0..(Word - 1)] /\ beginX \in [Elements -> 0..(Word - 1)]
  /\ separator \in Nat
  /\ painted \in [Pixels -> Elements \cup {Sep}]
  /\ pc \in SetUp \cup {"exit", "separator", "idle", "parse", "left", "sum", "right"}
  /\ i \in Nat /\ k \in Nat /\ cur \in Int

(* Modules are constructed with empty contents.                            *)
Init ==
  /\ varied \in {"monitors", "contents"}
  /\ MonitorInit
  /\ varied = "contents" => \A o \in 1..Outputs : crtc[o] = IF o = 1 THEN Screen ELSE Zero
  /\ TableInit
  /\ content = [e \in Elements |-> <<>>] /\ dirty = {}
  /\ width = [e \in Elements |-> 0] /\ beginX = width
  /\ separator = 0
  /\ painted = blank
  /\ k = 1 /\ cur = 0

-----------------------------------------------------------------------------

cur_mon == mons[1]

(* Bar::init makes the windows.                                            *)
init == (MonitorStep \/ (varied = "monitors" /\ Plug))
        /\ UNCHANGED <<content, dirty, layout, painted, table, k, cur, varied>>

(* The process ends: BarLifecycle, ConstructBar.                           *)
Exit == pc = "exit" /\ UNCHANGED vars

(* The constructor measures the separator.                                 *)
initSeparator ==
  /\ pc = "separator"
  /\ separator' = separator + getUtf8CharWidth(SepText[k])
  /\ xftCharWidth(SepText[k])
  /\ IF k < Len(SepText) THEN k' = k + 1 /\ UNCHANGED pc
     ELSE k' = 1 /\ pc' = "idle"
  /\ UNCHANGED <<monvars, content, dirty, width, beginX, painted, i, cur, varied>>

(* update() of a module writes an element's content *)
Update(e) ==
  /\ pc = "idle" /\ varied = "contents"
  /\ \E text \in Contents : content' = [content EXCEPT ![e] = text]
  /\ dirty' = dirty \cup {e}
  /\ UNCHANGED <<monvars, layout, painted, table, pc, i, k, cur, varied>>

begin(phase) == pc' = phase /\ i' = 1 /\ k' = 1

(* feed: parseModules begins with the background *)
parseModules ==
  /\ pc = "idle"
  /\ begin("parse") /\ cur' = 0
  /\ painted' = blank
  /\ UNCHANGED <<monvars, content, dirty, layout, table, varied>>

(* The elements in the order modules and getElements() give them; the      *)
(* separators between them are never dirty and never clickable.            *)
order == Left \o Right

(* parseElementContent of the next element, by character.  One that no     *)
(* font has is replaced by '?', with no width.  The beginX that            *)
(* parseLeftModules and parseRightModules compute is overwritten before it *)
(* is used.                                                                *)
parseElementContent ==
  /\ pc = "parse" /\ i <= Len(order)
  /\ LET e == order[i]
     IN  \/ /\ e \in dirty /\ k <= Len(content[e])
            /\ cur' = cur + getUtf8CharWidth(content[e][k])
            /\ xftCharWidth(content[e][k])
            /\ k' = k + 1
            /\ UNCHANGED <<width, dirty, i>>
         \/ /\ e \in dirty /\ k > Len(content[e])
            /\ width' = [width EXCEPT ![e] = cur % Word]
            /\ dirty' = dirty \ {e}
            /\ i' = i + 1 /\ k' = 1 /\ cur' = 0
            /\ UNCHANGED table
         \/ /\ e \notin dirty
            /\ i' = i + 1
            /\ UNCHANGED <<width, dirty, table, k, cur>>
  /\ UNCHANGED <<monvars, content, beginX, separator, painted, pc, varied>>

renderAllElements ==
  /\ pc = "parse" /\ i > Len(order)
  /\ begin("left") /\ cur' = 0
  /\ UNCHANGED <<monvars, content, dirty, layout, painted, table, varied>>

(* The sum of f[1] to f[n].                                                *)
Sum(f, n) == LET sum[m \in 0..n] == IF m = 0 THEN 0 ELSE sum[m - 1] + f[m]
             IN  sum[n]

(* The width of the first n characters of a text: the widths kept for them *)
(* are those of their fonts (WidthIsOwn).                                  *)
firsts(text, n) == Sum([m \in 1..Len(text) |-> own(text[m])], n)

(* The width drawChar fills for a character: one without a font is drawn   *)
(* as '?', although nothing was counted for it.                            *)
filled(ch) == own(IF selectDrawableFont(ch) = 0 THEN Question ELSE ch)

(* Whether drawing a text from b on fills pixel p: each character is drawn *)
(* behind the widths of those before it.                                   *)
covers(text, b, p) ==
  \E n \in 1..Len(text) : /\ p >= b + firsts(text, n - 1)
                          /\ p < b + firsts(text, n - 1) + filled(text[n])

(* What a pixel shows after the drawing of an item from b on.              *)
draw(x, b) ==
  painted' = [p \in Pixels |->
                IF covers(IF x = Sep THEN SepText ELSE content[x], b, p)
                THEN x ELSE painted[p]]

(* Mutant: current_x moves on before the position is stored.               *)
place_After(x) ==
  /\ cur' = cur + (IF x = Sep THEN separator ELSE width[x])
  /\ beginX' = IF x = Sep THEN beginX ELSE [beginX EXCEPT ![x] = cur' % Word]
  /\ draw(x, IF x = Sep THEN cur ELSE cur' % Word)
  /\ UNCHANGED table

(* One item of a walk: an element is put at current_x and drawn from the   *)
(* beginX stored, a separator from current_x itself.  The drawing of a     *)
(* character that was replaced measures '?'; the others are in the table.  *)
place(x) ==
  /\ beginX' = IF x = Sep THEN beginX ELSE [beginX EXCEPT ![x] = cur % Word]
  /\ cur' = cur + (IF x = Sep THEN separator ELSE width[x])
  /\ draw(x, IF x = Sep THEN cur ELSE cur % Word)
  /\ IF x # Sep /\ \E n \in 1..Len(content[x]) : selectDrawableFont(content[x][n]) = 0
     THEN xftCharWidth(Question)
     ELSE UNCHANGED table

renderLeft ==
  /\ pc = "left"
  /\ IF i <= Len(Left)
     THEN place(Left[i]) /\ i' = i + 1 /\ UNCHANGED <<pc, k>>
     ELSE begin("sum") /\ cur' = 0 /\ UNCHANGED <<beginX, painted, table>>
  /\ UNCHANGED <<monvars, content, dirty, width, separator, varied>>

(* the separator measured again *)
separator_width == getUtf8CharWidth(SepText[1]) + getUtf8CharWidth(SepText[2])

RIGHT_MARGIN == getUtf8CharWidth(SepText[1])

(* Mutant: the separators are left out of the sum.                         *)
counted_NoSeparators(x) == IF x = Sep THEN 0 ELSE width[x]

counted(x) == IF x = Sep THEN separator_width ELSE width[x]

(* total_right_with_separators, and where the right side begins *)
sumRight ==
  /\ pc = "sum"
  /\ IF i <= Len(Right)
     THEN cur' = cur + counted(Right[i]) /\ i' = i + 1 /\ UNCHANGED <<pc, k>>
     ELSE cur' = cur_mon.width - RIGHT_MARGIN - cur /\ begin("right")
  /\ UNCHANGED <<monvars, content, dirty, layout, painted, table, varied>>

renderRight ==
  /\ pc = "right"
  /\ IF i <= Len(Right)
     THEN place(Right[i]) /\ i' = i + 1 /\ UNCHANGED <<pc, k>>
     ELSE begin("idle") /\ cur' = 0 /\ UNCHANGED <<beginX, painted, table>>
  /\ UNCHANGED <<monvars, content, dirty, width, separator, varied>>

(* The area of an element: the test of processXEvents.                     *)
inArea(e, x) == x >= beginX[e] /\ x < beginX[e] + width[e]

(* Mutant: the pixel after an element belongs to it.                       *)
found_Closed(x) ==
  {n \in 1..Len(order) : /\ order[n] \in Clickable
                         /\ x >= beginX[order[n]]
                         /\ x <= beginX[order[n]] + width[order[n]]}

found(x) == {n \in 1..Len(order) : order[n] \in Clickable /\ inArea(order[n], x)}

(* The first clickable element whose area has x takes the click: its       *)
(* handler updates the module and draws the bar.  Every module is in the   *)
(* window of the first monitor; a click in another window finds nothing.   *)
BUTTON_PRESS(x) ==
  /\ pc = "idle"
  /\ IF found(x) = {} THEN UNCHANGED vars
     ELSE LET e == order[least(found(x))]
          IN  /\ \E text \in Contents : content' = [content EXCEPT ![e] = text]
              /\ dirty' = dirty \cup {e}
              /\ begin("parse") /\ cur' = 0
              /\ painted' = blank
              /\ UNCHANGED <<monvars, layout, table, varied>>

Next ==
  \/ init \/ Exit \/ initSeparator
  \/ \E e \in Elements : Update(e)
  \/ parseModules \/ parseElementContent \/ renderAllElements
  \/ renderLeft \/ sumRight \/ renderRight
  \/ pc = "idle" /\ \E x \in 0..(cur_mon.width - 1) : BUTTON_PRESS(x)

Spec == Init /\ [][Next]_vars

-----------------------------------------------------------------------------
(* Properties.                                                             *)

(* The width of a text.                                                    *)
TextWidth == [text \in Contents \cup {SepText} |-> firsts(text, Len(text))]

(* The width of a side.                                                    *)
Total(s) == Sum([n \in 1..Len(s) |-> IF s[n] = Sep THEN TextWidth[SepText]
                                     ELSE width[s[n]]], Len(s))

(* Both sides have room.                                                   *)
Fits == Total(Left) + Total(Right) + own(SepText[1]) <= cur_mon.width

(* An element that has been measured has the width of its characters, each *)
(* in the font that draws it, whatever was measured before: characters     *)
(* that share a slot of the table, in whichever order they came, and those *)
(* that are drawn as '?' do not give a width to another (bar.h 387-415,    *)
(* 646-677).                                                               *)
WidthIsOwn ==
  \A e \in Elements : e \notin dirty => width[e] = TextWidth[content[e]] % Word

(* Between two renderings no pixel is in the area of two elements, and     *)
(* every area is on the monitor, left of the margin, provided both sides   *)
(* have room: contents that modules have changed meanwhile do not move the *)
(* areas the clicks are looked up in.                                      *)
AreasDisjoint ==
  pc = "idle" /\ Fits =>
    \A e, f \in Elements :
      /\ beginX[e] + width[e] <= cur_mon.width - own(SepText[1]) \/ width[e] = 0
      /\ e # f => \/ width[e] = 0 \/ width[f] = 0
                  \/ beginX[e] + width[e] <= beginX[f]
                  \/ beginX[f] + width[f] <= beginX[e]

(* The right side ends exactly at the margin, whether there is room or not *)
(* ("respetando el margen derecho", bar.h 836): the separators drawn, with *)
(* the widths of the start, are as wide as those measured for the sum.     *)
RightEndsAtMargin ==
  pc = "right" /\ i > Len(Right) => cur = cur_mon.width - own(SepText[1])

(* When both sides have room, the element a click at a pixel is given to   *)
(* is the one the window shows there: neither a content that a module has  *)
(* written since, nor the items drawn later, nor a '?' drawn beyond the    *)
(* width counted for it leaves another element's pixel in its area (bar.h  *)
(* 773-953, 989-1004).                                                     *)
ClickHitsDrawn ==
  pc = "idle" /\ Fits =>
    \A x \in 0..(cur_mon.width - 1) :
      found(x) # {} => painted[x] = order[least(found(x))]
=============================================================================
