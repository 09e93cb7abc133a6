------------------------------ MODULE Monitors ------------------------------
(***************************************************************************)
(* The windows of a bar, one for each monitor (bar.h 1097-1328,            *)
(* 1488-1543): every output is asked for its CRTC and that for its         *)
(* rectangle, while outputs are switched on and off; outputs within        *)
(* another are left out, the rest is sorted, and each gets a window at its *)
(* upper or lower edge.  The bar's offset is 0 and its width that of all   *)
(* monitors, as main.cpp leaves them.                                      *)
(*                                                                         *)
(* torn is not in the code: an output was switched off between its two     *)
(* questions.  It has then been counted without a rectangle, and one of    *)
(* those sorted has no value: some rectangle.                              *)
(***************************************************************************)
EXTENDS Integers, Sequences, FiniteSets, Functions

CONSTANTS
  Outputs,      \* their number
  Rects,        \* the rectangles a CRTC can have
  Screen,       \* that of the whole screen
  BarHeight,    \* bh
  TopBar,       \* topbar
  MaxPlugs      \* bound: outputs switched during the start

Zero == [x |-> 0, y |-> 0, width |-> 0, height |-> 0]

ASSUME MonitorAssumption ==
  /\ Outputs \in Nat /\ BarHeight \in Nat /\ TopBar \in BOOLEAN /\ MaxPlugs \in Nat
  /\ \A r \in Rects \cup {Screen} :
       r.x \in Nat /\ r.y \in Nat /\ r.width \in Nat \ {0} /\ r.height \in Nat \ {0}

VARIABLES
  crtc,     \* the rectangles of the outputs; Zero: off
  rects,    \* those answered
  valid,
  mons,     \* the list from monhead: the windows' places
  pc,       \* of Bar::Bar and, in BarLayout, of the drawing
  i,        \* the next of a loop
  plugs, torn

monvars == <<crtc, rects, valid, mons, plugs, torn>>

MonitorInit ==
  /\ crtc \in [1..Outputs -> Rects \cup {Zero}]
  /\ rects = [o \in 1..Outputs |-> Zero]
  /\ valid = 0 /\ mons = <<>>
  /\ pc = "output" /\ i = 1
  /\ plugs = 0 /\ torn = FALSE

-----------------------------------------------------------------------------

(* One output's turn in getRandrMonitors: not connected or without a CRTC, *)
(* or the next question.                                                   *)
output_info ==
  /\ pc = "output" /\ i <= Outputs
  /\ IF crtc[i] = Zero
     THEN i' = i + 1 /\ UNCHANGED pc
     ELSE pc' = "crtc" /\ UNCHANGED i
  /\ UNCHANGED monvars

(* A CRTC that has been switched off answers with no width, or is gone     *)
(* with its output.                                                        *)
crtc_info ==
  /\ pc = "crtc"
  /\ \/ /\ rects' = [rects EXCEPT ![i] = crtc[i]]
        /\ valid' = valid + 1
        /\ i' = i + 1 /\ pc' = "output"
     \/ /\ crtc[i] = Zero
        /\ pc' = "fallback"
        /\ UNCHANGED <<rects, valid, i>>
  /\ torn' = (torn \/ crtc[i] = Zero)
  /\ UNCHANGED <<crtc, mons, plugs>>

contains(r, s) ==
  /\ s.x >= r.x /\ s.x + s.width <= r.x + r.width
  /\ s.y >= r.y /\ s.y + s.height <= r.y + r.height

answered == {o \in 1..Outputs : rects[o].width # 0}

(* Mutant: of two equal outputs each drops the other.                      *)
kept_NotOne == {o \in answered : \A p \in answered \ {o} : ~contains(rects[p], rects[o])}

(* The outputs that stay: of several equal ones, the first.                *)
kept == {o \in answered :
           \A p \in answered \ {o} :
             contains(rects[p], rects[o]) => contains(rects[o], rects[p]) /\ o < p}

(* Mutant: the horizontal position is not looked at.                       *)
rectSortCb_NoX(r1, r2) == IF r1.y + r1.height <= r2.y THEN -1 ELSE 1

(* A monitor left of another or above it comes first; both may hold the    *)
(* other way round, too.                                                   *)
rectSortCb(r1, r2) ==
  CASE r1.x < r2.x \/ r1.y + r1.height <= r2.y -> -1
    [] OTHER -> IF r1.x > r2.x \/ r1.y + r1.height > r2.y THEN 1 ELSE 0

(* What qsort, a merge sort, may make of s: of two neighbours the second   *)
(* did not come out before the first.                                      *)
qsort(s) ==
  {t \in {[n \in 1..Len(s) |-> s[f[n]]] : f \in Bijection(1..Len(s), 1..Len(s))} :
     \A n \in 1..(Len(s) - 1) :
       rectSortCb(t[n], t[n + 1]) <= 0 \/ rectSortCb(t[n + 1], t[n]) > 0}

monitorNew(r) ==
  [x |-> r.x, width |-> r.width,
   y |-> r.y + (IF TopBar THEN 0 ELSE r.height - BarHeight)]

(* The geometry is checked against the lowest edge.                        *)
monitorCreateChain(r) ==
  IF \A n \in 1..Len(r) : BarHeight > r[n].y + r[n].height
  THEN pc' = "exit" /\ UNCHANGED mons
  ELSE pc' = "separator" /\ mons' = [n \in 1..Len(r) |-> monitorNew(r[n])]

(* the outputs kept, in their order *)
array == {s \in Bijection(1..Cardinality(kept), kept) :
            \A n, m \in 1..Cardinality(kept) : n < m => s[n] < s[m]}

(* the end of getRandrMonitors: the outputs kept and what is in the array  *)
(* behind them                                                             *)
getRandrMonitors ==
  /\ pc = "output" /\ i > Outputs
  /\ LET n == valid - Cardinality(answered \ kept)
     IN  \/ n < 1 /\ pc' = "fallback" /\ UNCHANGED mons
         \/ /\ n >= 1
            /\ \E used \in array, behind \in [1..(n - Cardinality(kept)) -> Rects] :
                 \E r \in qsort([o \in DOMAIN used |-> rects[used[o]]] \o behind) :
                   monitorCreateChain(r)
  /\ i' = 1
  /\ UNCHANGED <<crtc, rects, valid, plugs, torn>>

(* No monitor was found: the whole screen is one.                          *)
fallback ==
  /\ pc = "fallback"
  /\ monitorCreateChain(<<Screen>>)
  /\ i' = 1
  /\ UNCHANGED <<crtc, rects, valid, plugs, torn>>

SetUp == {"output", "crtc", "fallback"}

(* The user or the X server switches an output.                            *)
Plug ==
  /\ pc \in SetUp /\ plugs < MaxPlugs
  /\ plugs' = plugs + 1
  /\ \E o \in 1..Outputs, r \in Rects \cup {Zero} : crtc' = [crtc EXCEPT ![o] = r]
  /\ UNCHANGED <<rects, valid, mons, pc, i, torn>>

MonitorStep == output_info \/ crtc_info \/ getRandrMonitors \/ fallback

-----------------------------------------------------------------------------
(* Properties.                                                             *)

ready == pc \notin SetUp \cup {"exit"} /\ ~torn

(* Every output that answered lies within one that has a window, every     *)
(* window is that of an output, and no two are the same or within another, *)
(* also when outputs mirror each other and when they change while they are *)
(* asked; without an output there is one window (bar.h 1299-1328, 1517).   *)
MonitorsPlaced ==
  ready =>
    IF answered = {} THEN mons = <<monitorNew(Screen)>>
    ELSE \E window \in [1..Len(mons) -> answered] :
           /\ \A n \in 1..Len(mons) : mons[n] = monitorNew(rects[window[n]])
           /\ \A o \in answered : \E n \in 1..Len(mons) :
                contains(rects[window[n]], rects[o])
           /\ \A n, m \in 1..Len(mons) :
                contains(rects[window[n]], rects[window[m]]) => n = m

(* The modules, which are drawn in the first window, are on the leftmost   *)
(* monitor unless one is wholly above another (bar.h 1157-1183).           *)
HeadLeftmost ==
  ready /\ (\A o, p \in answered : rects[o].y + rects[o].height > rects[p].y) =>
    \A n \in 1..Len(mons) : mons[1].x <= mons[n].x
=============================================================================
