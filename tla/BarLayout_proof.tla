--------------------------- MODULE BarLayout_proof ---------------------------
(***************************************************************************)
(* Theorems about BarLayout, with GlyphWidths and Monitors, for any fonts, *)
(* any contents, any items on the two sides and any outputs: the measured  *)
(* widths, the places of the elements, the clicks and the windows.         *)
(*                                                                         *)
(* Positions are sums over the items of a side.  What Sum computes is      *)
(* proved from its recursion by induction; an induction is an argument     *)
(* about the least number that is an exception.                            *)
(***************************************************************************)
EXTENDS BarLayout, FiniteSetTheorems, SequenceTheorems, WellFoundedInduction, TLAPS

-----------------------------------------------------------------------------
(* Least numbers and sums.                                                 *)

(* A nonempty set of naturals has a least element.                         *)
LEMMA LeastExists ==
  ASSUME NEW T, T \subseteq Nat, T # {}
  PROVE  \E n \in T : \A m \in T : n <= m
<1>1. PICK n \in T : \A m \in T : ~(<<m, n>> \in OpToRel(<, Nat))
  BY NatLessThanWellFounded, WFMin
<1>2. n \in T /\ \A m \in T : ~(m < n)
  BY <1>1 DEF OpToRel
<1> QED
  BY <1>2

(* least finds it.                                                         *)
LEMMA LeastIsIn ==
  ASSUME NEW T, T \subseteq Nat, T # {}
  PROVE  least(T) \in T /\ \A m \in T : least(T) <= m
BY LeastExists DEF least

(* g lists the sums of f up to n, and they are integers.                   *)
lists(f, n, g) == g[0] = 0 /\ \A m \in 1..n : g[m] = g[m - 1] + f[m]
adds(f, n, g) == g \in [0..n -> Int] /\ lists(f, n, g)

(* There is such a list.                                                   *)
LEMMA SumsExist ==
  ASSUME NEW f, NEW n \in Nat, \A m \in 1..n : f[m] \in Int
  PROVE  \E g : adds(f, n, g)
<1> DEFINE T == {j \in 0..n : ~\E g : adds(f, j, g)}
<1>1. SUFFICES ASSUME T # {} PROVE FALSE
  OBVIOUS
<1>2. PICK j \in T : \A m \in T : j <= m
  <2>1. T \subseteq Nat
    OBVIOUS
  <2> HIDE DEF T
  <2> QED
    BY <1>1, <2>1, LeastExists
<1>3. j # 0
  <2>1. adds(f, 0, [m \in 0..0 |-> 0])
    BY DEF adds, lists
  <2> QED
    BY <1>2, <2>1
<1>4. j - 1 \in 0..n /\ j - 1 \notin T
  BY <1>2, <1>3
<1>5. PICK g : adds(f, j - 1, g)
  BY <1>4
<1> DEFINE h == [m \in 0..j |-> IF m = j THEN g[j - 1] + f[j] ELSE g[m]]
<1>6. adds(f, j, h)
  <2>1. j \in Nat /\ j \in 1..n /\ f[j] \in Int
    BY <1>2, <1>3
  <2>2. /\ g \in [0..(j - 1) -> Int] /\ g[0] = 0
        /\ \A m \in 1..(j - 1) : g[m] = g[m - 1] + f[m]
    BY <1>5 DEF adds, lists
  <2>3. h \in [0..j -> Int] /\ h[0] = 0
    BY <2>1, <2>2
  <2>4. \A m \in 1..j : h[m] = h[m - 1] + f[m]
    BY <2>1, <2>2
  <2> QED
    BY <2>3, <2>4 DEF adds, lists
<1> QED
  BY <1>2, <1>6

(* Two such lists agree as far as both go.                                 *)
LEMMA SumsAgree ==
  ASSUME NEW f, NEW n \in Nat, NEW p \in 0..n, NEW g, NEW h,
         adds(f, p, g), lists(f, n, h)
  PROVE  \A m \in 0..p : h[m] = g[m]
<1> DEFINE T == {m \in 0..p : h[m] # g[m]}
<1>1. SUFFICES ASSUME T # {} PROVE FALSE
  OBVIOUS
<1>2. PICK j \in T : \A m \in T : j <= m
  <2>1. T \subseteq Nat
    OBVIOUS
  <2> HIDE DEF T
  <2> QED
    BY <1>1, <2>1, LeastExists
<1>3. j # 0
  BY <1>2 DEF adds, lists
<1>4. j - 1 \in 0..p /\ j - 1 \notin T
  BY <1>2, <1>3
<1> QED
  BY <1>2, <1>3, <1>4 DEF adds, lists

(* Sum is the last of the list: its recursion has a solution.              *)
LEMMA SumIsLast ==
  ASSUME NEW f, NEW n \in Nat, \A m \in 1..n : f[m] \in Int
  PROVE  \E g : adds(f, n, g) /\ Sum(f, n) = g[n]
<1> DEFINE sum[m \in 0..n] == IF m = 0 THEN 0 ELSE sum[m - 1] + f[m]
<1>1. PICK g : adds(f, n, g)
  BY SumsExist
<1>2. g = [m \in 0..n |-> IF m = 0 THEN 0 ELSE g[m - 1] + f[m]]
  BY <1>1 DEF adds, lists
<1>3. sum = [m \in 0..n |-> IF m = 0 THEN 0 ELSE sum[m - 1] + f[m]]
  BY <1>2
<1>4. Sum(f, n) = sum[n]
  BY DEF Sum
<1> HIDE DEF sum
<1>5. \A m \in 0..n : sum[m] = IF m = 0 THEN 0 ELSE sum[m - 1] + f[m]
  BY <1>3
<1>6. \A m \in 0..n : sum[m] = g[m]
  <2>1. PICK h : h = sum
    OBVIOUS
  <2>2. lists(f, n, h)
    BY <1>5, <2>1 DEF lists
  <2>3. PICK p \in 0..n : p = n
    OBVIOUS
  <2>4. \A m \in 0..p : h[m] = g[m]
    <3>1. adds(f, p, g)
      BY <1>1, <2>3
    <3> QED
      BY <2>2, <3>1, SumsAgree
  <2> QED
    BY <2>1, <2>3, <2>4
<1> QED
  BY <1>1, <1>4, <1>6

(* What Sum computes: the recursion, and an integer.                       *)
LEMMA SumStep ==
  ASSUME NEW f, NEW n \in Nat, \A m \in 1..n : f[m] \in Int
  PROVE  /\ Sum(f, n) \in Int
         /\ Sum(f, 0) = 0
         /\ n > 0 => Sum(f, n) = Sum(f, n - 1) + f[n]
<1>1. PICK g : adds(f, n, g) /\ Sum(f, n) = g[n]
  BY SumIsLast
<1>2. g[0] = 0 /\ \A m \in 1..n : g[m] = g[m - 1] + f[m]
  BY <1>1 DEF adds, lists
<1>3. ASSUME NEW p \in 0..n PROVE Sum(f, p) = g[p]
  <2>1. PICK h : adds(f, p, h) /\ Sum(f, p) = h[p]
    BY SumIsLast
  <2>2. g[p] = h[p]
    BY <1>1, <2>1, SumsAgree DEF adds
  <2> QED
    BY <2>1, <2>2
<1>4. Sum(f, 0) = 0
  BY <1>3, <1>1 DEF adds, lists
<1>5. n > 0 => Sum(f, n) = Sum(f, n - 1) + f[n]
  <2> SUFFICES ASSUME n > 0 PROVE Sum(f, n) = Sum(f, n - 1) + f[n]
    OBVIOUS
  <2>1. n - 1 \in 0..n /\ n \in 0..n
    OBVIOUS
  <2> QED
    BY <1>2, <1>3, <2>1
<1>6. Sum(f, n) \in Int
  BY <1>1 DEF adds, lists
<1> QED
  BY <1>4, <1>5, <1>6

(* Sums of naturals grow, by each of their terms at least.                 *)
LEMMA SumGrows ==
  ASSUME NEW f, NEW n \in Nat, \A m \in 1..n : f[m] \in Nat,
         NEW p \in 0..n
  PROVE  /\ Sum(f, p) \in Nat /\ Sum(f, p) <= Sum(f, n)
         /\ p > 0 => Sum(f, p) = Sum(f, p - 1) + f[p] /\ f[p] <= Sum(f, p)
<1>1. \A q \in 0..n : \A m \in 1..q : f[m] \in Int
  OBVIOUS
<1>2. ASSUME NEW q \in 0..n
      PROVE  /\ Sum(f, q) \in Int
             /\ q > 0 => Sum(f, q) = Sum(f, q - 1) + f[q]
             /\ Sum(f, 0) = 0
  BY <1>1, SumStep
<1>3. ASSUME NEW q \in 0..n PROVE Sum(f, q) \in Nat
  <2> DEFINE T == {m \in 0..n : Sum(f, m) \notin Nat}
  <2>1. SUFFICES ASSUME T # {} PROVE FALSE
    OBVIOUS
  <2>2. PICK j \in T : \A m \in T : j <= m
    <3>1. T \subseteq Nat
      OBVIOUS
    <3> HIDE DEF T
    <3> QED
      BY <2>1, <3>1, LeastExists
  <2>3. j # 0
    BY <1>2, <2>2
  <2>4. j - 1 \in 0..n /\ j - 1 \notin T /\ j \in 1..n
    BY <2>2, <2>3
  <2>5. Sum(f, j) = Sum(f, j - 1) + f[j] /\ f[j] \in Nat /\ Sum(f, j - 1) \in Nat
    BY <1>2, <2>4
  <2> QED
    BY <2>2, <2>5
<1>4. Sum(f, p) <= Sum(f, n)
  <2> DEFINE T == {m \in p..n : ~(Sum(f, p) <= Sum(f, m))}
  <2>1. SUFFICES ASSUME T # {} PROVE FALSE
    OBVIOUS
  <2>2. PICK j \in T : \A m \in T : j <= m
    <3>1. T \subseteq Nat
      OBVIOUS
    <3> HIDE DEF T
    <3> QED
      BY <2>1, <3>1, LeastExists
  <2>3. j # p
    BY <1>3, <2>2
  <2>4. j - 1 \in p..n /\ j - 1 \notin T /\ j \in 1..n
    BY <2>2, <2>3
  <2>5. Sum(f, j) = Sum(f, j - 1) + f[j] /\ f[j] \in Nat /\ Sum(f, p) <= Sum(f, j - 1)
    BY <1>2, <2>4
  <2>6. Sum(f, j) \in Nat /\ Sum(f, j - 1) \in Nat /\ Sum(f, p) \in Nat
    BY <1>3, <2>4
  <2> QED
    BY <2>2, <2>5, <2>6
<1>5. p > 0 => Sum(f, p) = Sum(f, p - 1) + f[p] /\ f[p] <= Sum(f, p)
  <2> SUFFICES ASSUME p > 0 PROVE Sum(f, p) = Sum(f, p - 1) + f[p] /\ f[p] <= Sum(f, p)
    OBVIOUS
  <2>1. p \in 1..n /\ p - 1 \in 0..n
    OBVIOUS
  <2>2. Sum(f, p) = Sum(f, p - 1) + f[p] /\ f[p] \in Nat /\ Sum(f, p - 1) \in Nat
    BY <1>2, <1>3, <2>1
  <2> QED
    BY <2>2
<1> QED
  BY <1>3, <1>4, <1>5

-----------------------------------------------------------------------------
(* The table of widths.                                                    *)

(* What is in the table is the width of its own character.                 *)
TableOK ==
  /\ xftChar \in [Slots -> Nat] /\ xftWidth \in [Slots -> Nat]
  /\ \A s \in Slots : xftChar[s] # 0 =>
       selectDrawableFont(xftChar[s]) # 0 /\ xftWidth[s] = own(xftChar[s])

(* A probe finds the character.                                            *)
seated(ch) == \E j \in Slots : xftChar[(ch + j) % MaxWidths] = ch

(* A font that draws a character has it.                                   *)
LEMMA FontHas ==
  ASSUME NEW ch
  PROVE  /\ selectDrawableFont(ch) # 0 =>
              own(ch) = Fonts[selectDrawableFont(ch)][ch]
         /\ own(ch) \in Nat
<1> DEFINE having == {f \in 1..Len(Fonts) : ch \in DOMAIN Fonts[f]}
<1>1. CASE having = {}
  BY <1>1 DEF own, selectDrawableFont
<1>2. CASE having # {}
  <2>1. having \subseteq Nat
    OBVIOUS
  <2>2. selectDrawableFont(ch) = least(having)
    BY <1>2 DEF selectDrawableFont
  <2>3. least(having) \in having
    <3> HIDE DEF having
    <3> QED
      BY <1>2, <2>1, LeastIsIn
  <2>4. /\ least(having) \in 1..Len(Fonts)
        /\ ch \in DOMAIN Fonts[least(having)]
    BY <2>3
  <2>5. Fonts[least(having)] \in [DOMAIN Fonts[least(having)] -> 0..127]
    BY <2>4, GlyphAssumption
  <2>7. Fonts[least(having)][ch] \in 0..127
    BY <2>4, <2>5
  <2> HIDE DEF having
  <2> QED
    BY <2>2, <2>7 DEF own
<1> QED
  BY <1>1, <1>2

(* Where a probe that stops comes to its end.                              *)
LEMMA ProbeStops ==
  ASSUME TableOK, NEW ch \in Nat, stops(ch) # {}
  PROVE  /\ xftCharWidthSlot(ch) \in Slots
         /\ xftChar[xftCharWidthSlot(ch)] \in {0, ch}
         /\ \E j \in Slots : xftCharWidthSlot(ch) = (ch + j) % MaxWidths
<1> DEFINE j == least(stops(ch))
<1>1. stops(ch) \subseteq Nat
  BY GlyphAssumption DEF stops, Slots
<1>2. j \in stops(ch)
  BY <1>1, LeastIsIn
<1>3. j \in Slots /\ xftChar[(ch + j) % MaxWidths] \in {0, ch}
  BY <1>2 DEF stops
<1>4. xftCharWidthSlot(ch) = (ch + j) % MaxWidths
  BY DEF xftCharWidthSlot
<1> HIDE DEF j
<1>5. (ch + j) % MaxWidths \in Slots
  BY <1>3, GlyphAssumption DEF Slots
<1> QED
  BY <1>3, <1>4, <1>5

(* With such a probe the width returned is that of the character.          *)
LEMMA WidthReturned ==
  ASSUME TableOK, NEW ch \in Nat \ {0}, stops(ch) # {} \/ selectDrawableFont(ch) = 0
  PROVE  getUtf8CharWidth(ch) = own(ch)
<1>1. CASE selectDrawableFont(ch) = 0
  BY <1>1 DEF getUtf8CharWidth, own
<1>2. CASE selectDrawableFont(ch) # 0
  <2> DEFINE slot == xftCharWidthSlot(ch)
             font == selectDrawableFont(ch)
  <2>1. slot \in Slots /\ xftChar[slot] \in {0, ch}
    BY <1>2, ProbeStops
  <2>2. own(ch) = Fonts[font][ch]
    BY <1>2, FontHas
  <2>3. xftChar[slot] = ch => xftWidth[slot] = own(ch)
    BY <2>1 DEF TableOK
  <2>4. getUtf8CharWidth(ch) = CASE xftChar[slot] = 0  -> Fonts[font][ch]
                                 [] xftChar[slot] = ch -> xftWidth[slot]
                                 [] OTHER              -> 0
    BY <1>2 DEF getUtf8CharWidth
  <2> HIDE DEF slot, font
  <2> QED
    BY <2>1, <2>2, <2>3, <2>4
<1> QED
  BY <1>1, <1>2

(* A character in the table is found there.                                *)
LEMMA SeatedWidth ==
  ASSUME TableOK, NEW ch \in Nat \ {0}, seated(ch)
  PROVE  getUtf8CharWidth(ch) = own(ch)
<1>1. stops(ch) # {}
  BY DEF seated, stops
<1> QED
  BY <1>1, WidthReturned

(* A measurement returns the character's own width, whichever characters   *)
(* were measured before, keeps the table right, forgets no character and   *)
(* keeps the one measured.                                                 *)
LEMMA Measured ==
  ASSUME TableOK, NEW ch \in Nat \ {0}, xftCharWidth(ch)
  PROVE  /\ getUtf8CharWidth(ch) = own(ch)
         /\ TableOK'
         /\ \A c \in Nat \ {0} : seated(c) => seated(c)'
         /\ selectDrawableFont(ch) # 0 => seated(ch)'
<1>1. CASE selectDrawableFont(ch) = 0
  <2>1. UNCHANGED table
    BY <1>1 DEF xftCharWidth
  <2> QED
    BY <1>1, <2>1, WidthReturned DEF table, TableOK, seated
<1>2. CASE selectDrawableFont(ch) # 0
  <2> DEFINE slot == xftCharWidthSlot(ch)
             font == selectDrawableFont(ch)
  <2>1. stops(ch) # {}
    BY <1>2 DEF xftCharWidth
  <2>2. /\ slot \in Slots /\ xftChar[slot] \in {0, ch}
        /\ \E j \in Slots : slot = (ch + j) % MaxWidths
    BY <2>1, ProbeStops
  <2>3. Fonts[font][ch] = own(ch) /\ own(ch) \in Nat
    BY <1>2, FontHas
  <2>4. \/ /\ xftChar[slot] = 0
           /\ xftChar' = [xftChar EXCEPT ![slot] = ch]
           /\ xftWidth' = [xftWidth EXCEPT ![slot] = Fonts[font][ch]]
        \/ xftChar[slot] = ch /\ UNCHANGED table
    BY <1>2, <2>2 DEF xftCharWidth
  <2> HIDE DEF slot
  <2>5. /\ xftChar' \in [Slots -> Nat] /\ xftWidth' \in [Slots -> Nat]
        /\ xftChar'[slot] = ch /\ xftWidth'[slot] = own(ch)
        /\ \A s \in Slots : s # slot \/ xftChar[s] # 0 =>
             xftChar'[s] = xftChar[s] /\ (s # slot => xftWidth'[s] = xftWidth[s])
    <3>1. CASE xftChar[slot] = 0
      <4>1. /\ xftChar' = [xftChar EXCEPT ![slot] = ch]
            /\ xftWidth' = [xftWidth EXCEPT ![slot] = own(ch)]
        BY <2>3, <2>4, <3>1
      <4> QED
        BY <2>2, <2>3, <3>1, <4>1 DEF TableOK
    <3>2. CASE xftChar[slot] = ch
      BY <2>2, <2>4, <3>2 DEF TableOK, table
    <3> QED
      BY <2>2, <3>1, <3>2
  <2>6. TableOK'
    BY <1>2, <2>5 DEF TableOK
  <2>7. seated(ch)'
    BY <2>2, <2>5 DEF seated
  <2>8. ASSUME NEW c \in Nat \ {0}, seated(c) PROVE seated(c)'
    <3>1. PICK j \in Slots : xftChar[(c + j) % MaxWidths] = c
      BY <2>8 DEF seated
    <3>2. (c + j) % MaxWidths \in Slots
      BY GlyphAssumption DEF Slots
    <3>3. xftChar'[(c + j) % MaxWidths] = c
      BY <2>5, <3>1, <3>2
    <3> QED
      BY <3>3 DEF seated
  <2>9. getUtf8CharWidth(ch) = own(ch)
    BY <2>1, WidthReturned
  <2> QED
    BY <2>6, <2>7, <2>8, <2>9
<1> QED
  BY <1>1, <1>2

-----------------------------------------------------------------------------
(* The outputs that are kept.                                              *)

(* What an answered rectangle is.                                          *)
LEMMA AnsweredRect ==
  ASSUME rects \in [1..Outputs -> Rects \cup {Zero}], NEW o \in answered
  PROVE  /\ o \in 1..Outputs /\ o \in Nat /\ rects[o] \in Rects
         /\ rects[o].x \in Nat /\ rects[o].y \in Nat
         /\ rects[o].width \in Nat /\ rects[o].height \in Nat
<1>1. o \in 1..Outputs /\ rects[o].width # 0
  BY DEF answered
<1>2. rects[o] # Zero
  BY <1>1 DEF Zero
<1> QED
  BY <1>1, <1>2, MonitorAssumption

isRect(r) == r.x \in Nat /\ r.y \in Nat /\ r.width \in Nat /\ r.height \in Nat

(* Of two rectangles, one within the other, that one is not the larger.    *)
LEMMA ContainsNested ==
  ASSUME NEW r, NEW s, isRect(r), isRect(s), contains(r, s)
  PROVE  s.width <= r.width /\ s.height <= r.height
BY DEF isRect, contains

(* What lies within a rectangle lies within those that have it.            *)
LEMMA ContainsTrans ==
  ASSUME NEW r, NEW s, NEW t, isRect(r), isRect(s), isRect(t),
         contains(r, s), contains(s, t)
  PROVE  contains(r, t)
BY DEF isRect, contains

(* Every output that answered lies within one that is kept: the largest    *)
(* that has it, of several the first.                                      *)
LEMMA KeptCovers ==
  ASSUME rects \in [1..Outputs -> Rects \cup {Zero}], NEW o \in answered
  PROVE  \E p \in kept : contains(rects[p], rects[o])
<1> DEFINE size == [p \in 1..Outputs |-> IF p \in answered
                                         THEN rects[p].width + rects[p].height ELSE 0]
           B == Sum(size, Outputs)
           C == {p \in answered : contains(rects[p], rects[o])}
           D == {B - size[p] : p \in C}
<1>0. Outputs \in Nat
  BY MonitorAssumption
<1>1. \A p \in 1..Outputs : size[p] \in Nat
  BY AnsweredRect
<1>2. B \in Nat /\ \A p \in 1..Outputs : size[p] <= B
  <2> HIDE DEF size
  <2>1. ASSUME NEW p \in 1..Outputs PROVE size[p] <= B
    <3>1. p \in 0..Outputs /\ p > 0
      BY <1>0
    <3>2. Sum(size, p) \in Nat /\ Sum(size, p) <= B /\ size[p] <= Sum(size, p)
      BY <1>0, <1>1, <3>1, SumGrows
    <3>3. B \in Int
      BY <1>0, <1>1, SumStep
    <3> QED
      BY <1>1, <3>2, <3>3
  <2>2. Outputs \in 0..Outputs
    BY <1>0
  <2>3. B \in Nat
    BY <1>0, <1>1, <2>2, SumGrows
  <2> QED
    BY <2>1, <2>3
<1>3. o \in C
  BY AnsweredRect DEF contains
<1> HIDE DEF B
<1>4. C \subseteq 1..Outputs
  BY DEF answered
<1>5. D \subseteq Nat /\ D # {}
  <2> HIDE DEF size, C
  <2> QED
    BY <1>1, <1>2, <1>3, <1>4
<1>6. PICK d \in D : \A e \in D : d <= e
  <2> HIDE DEF D
  <2> QED
    BY <1>5, LeastExists
<1> DEFINE E == {p \in C : B - size[p] = d}
<1>7. E \subseteq Nat /\ E # {}
  <2> HIDE DEF size, C
  <2>1. E \subseteq Nat
    BY <1>0, <1>4
  <2>2. PICK p \in C : d = B - size[p]
    BY <1>6
  <2> QED
    BY <2>1, <2>2
<1>8. PICK q \in E : \A p \in E : q <= p
  <2> HIDE DEF E
  <2> QED
    BY <1>7, LeastExists
<1>9. q \in answered /\ contains(rects[q], rects[o]) /\ q \in C /\ B - size[q] = d
  BY <1>8
<1>10. ASSUME NEW p \in answered \ {q}, contains(rects[p], rects[q])
       PROVE  contains(rects[q], rects[p]) /\ q < p
  <2>1. /\ rects[o].x \in Nat /\ rects[o].y \in Nat
        /\ rects[o].width \in Nat /\ rects[o].height \in Nat
    BY AnsweredRect
  <2>2. /\ rects[p].x \in Nat /\ rects[p].y \in Nat /\ p \in Nat /\ p \in 1..Outputs
        /\ rects[p].width \in Nat /\ rects[p].height \in Nat
    BY AnsweredRect
  <2>3. /\ rects[q].x \in Nat /\ rects[q].y \in Nat /\ q \in Nat /\ q \in 1..Outputs
        /\ rects[q].width \in Nat /\ rects[q].height \in Nat
    BY <1>9, AnsweredRect
  <2>4. isRect(rects[o]) /\ isRect(rects[p]) /\ isRect(rects[q])
    BY <2>1, <2>2, <2>3 DEF isRect
  <2>5. contains(rects[p], rects[q]) /\ contains(rects[q], rects[o]) /\ p \in answered
    BY <1>9, <1>10
  <2>6. p \in C
    <3>1. contains(rects[p], rects[o])
      BY <2>4, <2>5, ContainsTrans
    <3> QED
      BY <2>5, <3>1
  <2>7. /\ size[p] = rects[p].width + rects[p].height
        /\ size[q] = rects[q].width + rects[q].height
    BY <1>9, <2>2, <2>3
  <2>8. d <= B - size[p]
    <3> HIDE DEF size, C
    <3> QED
      BY <1>6, <2>6
  <2>9. size[p] <= size[q]
    <3> HIDE DEF size
    <3> QED
      BY <1>1, <1>2, <1>9, <2>2, <2>3, <2>8
  <2>10. rects[q].width <= rects[p].width /\ rects[q].height <= rects[p].height
    BY <2>4, <2>5, ContainsNested
  <2>11. rects[q].width = rects[p].width /\ rects[q].height = rects[p].height
    <3> HIDE DEF size
    <3> QED
      BY <2>2, <2>3, <2>7, <2>9, <2>10
  <2>12. contains(rects[q], rects[p])
    BY <1>10, <2>2, <2>3, <2>11 DEF contains
  <2>13. p \in E
    <3>1. size[p] = size[q]
      BY <2>7, <2>11
    <3> HIDE DEF size, C
    <3> QED
      BY <1>9, <2>6, <3>1
  <2>14. q <= p /\ p # q
    <3> HIDE DEF E
    <3> QED
      BY <1>8, <2>13
  <2> QED
    BY <2>2, <2>3, <2>12, <2>14
<1>11. q \in kept
  BY <1>9, <1>10 DEF kept
<1> QED
  BY <1>9, <1>11

(* Of two outputs that are kept none lies within the other.                *)
LEMMA KeptApart ==
  ASSUME rects \in [1..Outputs -> Rects \cup {Zero}], NEW o \in kept, NEW p \in kept,
         contains(rects[o], rects[p])
  PROVE  o = p
<1>1. o \in answered /\ p \in answered /\ o \in Nat /\ p \in Nat
  BY AnsweredRect DEF kept
<1>2. SUFFICES ASSUME o # p PROVE FALSE
  OBVIOUS
<1>3. contains(rects[p], rects[o]) /\ p < o
  BY <1>1, <1>2 DEF kept
<1>4. o < p
  BY <1>1, <1>2, <1>3 DEF kept
<1> QED
  BY <1>1, <1>3, <1>4

(* There are finitely many outputs.                                        *)
LEMMA OutputsFinite ==
  /\ IsFiniteSet(answered) /\ IsFiniteSet(kept)
  /\ Cardinality(answered) \in Nat /\ Cardinality(kept) \in Nat
  /\ Cardinality(answered \ kept) = Cardinality(answered) - Cardinality(kept)
<1>1. IsFiniteSet(1..Outputs)
  BY MonitorAssumption, FS_Interval
<1>2. answered \in SUBSET (1..Outputs) /\ kept \in SUBSET (1..Outputs)
      /\ answered \cap kept = kept
  BY DEF answered, kept
<1>3. IsFiniteSet(answered) /\ IsFiniteSet(kept)
  BY <1>1, <1>2, FS_Subset
<1>4. Cardinality(answered) \in Nat /\ Cardinality(kept) \in Nat
  BY <1>3, FS_CardinalityType
<1>5. Cardinality(answered \ kept) = Cardinality(answered) - Cardinality(answered \cap kept)
  BY <1>3, FS_Difference
<1> QED
  BY <1>2, <1>3, <1>4, <1>5

-----------------------------------------------------------------------------
(* The windows.                                                            *)

(* A sequence is what a function on 1..n is.                               *)
LEMMA FunctionIsSeq ==
  ASSUME NEW S, NEW n \in Nat, NEW f \in [1..n -> S]
  PROVE  f \in Seq(S) /\ Len(f) = n
<1>1. f \in Seq(S)
  BY SeqDef
<1>2. DOMAIN f = 1..Len(f) /\ Len(f) \in Nat
  BY <1>1, LenProperties
<1>3. 1..n = 1..Len(f)
  BY <1>2
<1> QED
  BY <1>1, <1>2, <1>3

bijective(w, n, T) ==
  /\ w \in [1..n -> T]
  /\ \A a, b \in 1..n : w[a] = w[b] => a = b
  /\ \A t \in T : \E a \in 1..n : w[a] = t

(* What is sorted: rectangles of CRTCs, as many as there are outputs kept  *)
(* and entries behind; without such an entry, each is that of another      *)
(* output kept, and all these have one.                                    *)
sorted(r, n) ==
  /\ r \in [1..n -> Rects]
  /\ n = Cardinality(kept) =>
       \E w : bijective(w, n, kept) /\ \A a \in 1..n : r[a] = rects[w[a]]
  /\ \A a \in 1..(n - 1) :
       rectSortCb(r[a], r[a + 1]) <= 0 \/ rectSortCb(r[a + 1], r[a]) > 0

(* The array after qsort is of that kind.                                  *)
LEMMA SortedArray ==
  ASSUME rects \in [1..Outputs -> Rects \cup {Zero}],
         NEW n \in Nat, n >= Cardinality(kept), NEW used \in array,
         NEW behind \in [1..(n - Cardinality(kept)) -> Rects],
         NEW r \in qsort([o \in DOMAIN used |-> rects[used[o]]] \o behind)
  PROVE  sorted(r, n)
<1> DEFINE c == Cardinality(kept)
           s1 == [o \in DOMAIN used |-> rects[used[o]]]
           s == s1 \o behind
<1>1. c \in Nat /\ n - c \in Nat
  BY OutputsFinite
<1>2. bijective(used, c, kept)
  BY DEF array, Bijection, Injection, Surjection, IsInjective, bijective
<1>3. \A o \in kept : rects[o] \in Rects
  BY AnsweredRect DEF kept
<1>4. s1 \in [1..c -> Rects]
  BY <1>2, <1>3 DEF bijective
<1>5. s1 \in Seq(Rects) /\ Len(s1) = c
  <2> HIDE DEF s1, c
  <2> QED
    BY <1>1, <1>4, FunctionIsSeq
<1>6. behind \in Seq(Rects) /\ Len(behind) = n - c
  <2>1. PICK m \in Nat : m = n - c
    BY <1>1
  <2> HIDE DEF c
  <2>2. behind \in [1..m -> Rects]
    BY <2>1 DEF c
  <2>3. behind \in Seq(Rects) /\ Len(behind) = m
    BY <2>2, FunctionIsSeq
  <2> QED
    BY <2>1, <2>3
<1>7. /\ s \in Seq(Rects) /\ Len(s) = n
      /\ \A a \in 1..c : s[a] = s1[a]
  <2> HIDE DEF s1, c
  <2>1. /\ s \in Seq(Rects) /\ Len(s) = c + (n - c)
        /\ \A a \in 1..(c + (n - c)) : s[a] = IF a <= c THEN s1[a] ELSE behind[a - c]
    BY <1>5, <1>6, ConcatProperties
  <2> HIDE DEF s
  <2> QED
    BY <1>1, <2>1
<1>8. s \in [1..n -> Rects]
  <2> HIDE DEF s
  <2> QED
    BY <1>7, LenProperties
<1>9. PICK f \in Bijection(1..n, 1..n) : r = [a \in 1..n |-> s[f[a]]]
  <2> HIDE DEF s
  <2>1. r \in qsort(s)
    BY DEF s
  <2> QED
    BY <1>7, <2>1 DEF qsort
<1>10. bijective(f, n, 1..n)
  BY <1>9 DEF Bijection, Injection, Surjection, IsInjective, bijective
<1>11. r \in [1..n -> Rects]
  <2> HIDE DEF s
  <2> QED
    BY <1>8, <1>9, <1>10 DEF bijective
<1>12. \A a \in 1..(n - 1) :
         rectSortCb(r[a], r[a + 1]) <= 0 \/ rectSortCb(r[a + 1], r[a]) > 0
  <2> HIDE DEF s
  <2>1. r \in qsort(s)
    BY DEF s
  <2> QED
    BY <1>7, <2>1 DEF qsort
<1>13. ASSUME n = c
       PROVE  \E w : bijective(w, n, kept) /\ \A a \in 1..n : r[a] = rects[w[a]]
  <2> DEFINE w == [a \in 1..n |-> used[f[a]]]
  <2>1. bijective(w, n, kept)
    <3>1. bijective(used, n, kept)
      BY <1>2, <1>13
    <3>2. w \in [1..n -> kept]
      BY <1>10, <3>1 DEF bijective
    <3>3. \A a, b \in 1..n : w[a] = w[b] => a = b
      BY <1>10, <3>1 DEF bijective
    <3>4. ASSUME NEW o \in kept PROVE \E a \in 1..n : w[a] = o
      <4>1. PICK b \in 1..n : used[b] = o
        BY <3>1 DEF bijective
      <4>2. PICK a \in 1..n : f[a] = b
        BY <1>10 DEF bijective
      <4> QED
        BY <4>1, <4>2
    <3> HIDE DEF w
    <3> QED
      BY <3>2, <3>3, <3>4 DEF bijective
  <2>2. ASSUME NEW a \in 1..n PROVE r[a] = rects[w[a]]
    <3>1. f[a] \in 1..n /\ f[a] \in 1..c
      BY <1>10, <1>13 DEF bijective
    <3>2. r[a] = s[f[a]]
      BY <1>9
    <3>3. s[f[a]] = s1[f[a]]
      BY <1>7, <3>1
    <3>4. s1[f[a]] = rects[used[f[a]]]
      BY <1>2, <3>1 DEF bijective
    <3> QED
      BY <3>2, <3>3, <3>4
  <2> HIDE DEF w
  <2> QED
    BY <2>1, <2>2
<1> QED
  BY <1>11, <1>12, <1>13 DEF sorted

(* Unless a rectangle is wholly above another, the order is by x.          *)
LEMMA OrderedByX ==
  ASSUME NEW r, NEW s, isRect(r), isRect(s),
         r.y + r.height > s.y, s.y + s.height > r.y,
         rectSortCb(r, s) <= 0 \/ rectSortCb(s, r) > 0
  PROVE  r.x <= s.x
BY DEF isRect, rectSortCb

(* So the first of such a row is as far left as any.                       *)
LEMMA FirstLeftmost ==
  ASSUME NEW n \in Nat, NEW r, \A a \in 1..n : isRect(r[a]),
         \A a \in 1..(n - 1) :
           rectSortCb(r[a], r[a + 1]) <= 0 \/ rectSortCb(r[a + 1], r[a]) > 0,
         \A a, b \in 1..n : r[a].y + r[a].height > r[b].y
  PROVE  \A a \in 1..n : r[1].x <= r[a].x
<1> DEFINE T == {a \in 1..n : ~(r[1].x <= r[a].x)}
<1>1. SUFFICES ASSUME T # {} PROVE FALSE
  OBVIOUS
<1>2. PICK j \in T : \A m \in T : j <= m
  <2>1. T \subseteq Nat
    OBVIOUS
  <2> HIDE DEF T
  <2> QED
    BY <1>1, <2>1, LeastExists
<1>3. j # 1
  BY <1>2 DEF isRect
<1>4. j - 1 \in 1..n /\ j \in 1..n /\ j - 1 \notin T /\ 1 \in 1..n
  BY <1>2, <1>3
<1>5. PICK p \in 1..(n - 1) : j = p + 1
  <2>1. j - 1 \in 1..(n - 1) /\ j = (j - 1) + 1
    BY <1>4
  <2> QED
    BY <2>1
<1>6. r[p].x <= r[p + 1].x
  <2>1. p \in 1..n /\ p + 1 \in 1..n
    OBVIOUS
  <2> QED
    BY <2>1, OrderedByX
<1>7. r[1].x <= r[p].x
  BY <1>4, <1>5
<1>8. r[1].x \in Nat /\ r[p].x \in Nat /\ r[p + 1].x \in Nat
  BY <1>4, <1>5 DEF isRect
<1> QED
  BY <1>2, <1>5, <1>6, <1>7, <1>8

(* The types the arguments about the windows need.                         *)
MonTypes ==
  /\ crtc \in [1..Outputs -> Rects \cup {Zero}] /\ rects \in [1..Outputs -> Rects \cup {Zero}]
  /\ valid \in Nat /\ i \in Nat \ {0} /\ torn \in BOOLEAN

(* An output whose turn has not come has no rectangle.  An output counted  *)
(* has one, unless some output was switched off between its questions; the *)
(* rectangles are never more than the count.                               *)
Asked ==
  /\ pc \in {"output", "crtc"} => \A o \in 1..Outputs : o >= i => rects[o] = Zero
  /\ pc = "crtc" => i \in 1..Outputs
  /\ valid >= Cardinality(answered)
  /\ pc \in {"output", "crtc"} /\ ~torn => valid = Cardinality(answered)
  /\ pc = "fallback" /\ ~torn => answered = {}

(* What the windows are when there are some.                               *)
Windows ==
  /\ pc \notin SetUp \cup {"exit"} => cur_mon.width \in 0..(Word - 1)
  /\ MonitorsPlaced /\ HeadLeftmost

MonInv == MonTypes /\ Asked /\ Windows

(* Nothing has been asked yet.                                             *)
LEMMA MonInvInit == MonitorInit => MonInv
<1> SUFFICES ASSUME MonitorInit PROVE MonInv
  OBVIOUS
<1>1. MonTypes
  <2>1. torn \in BOOLEAN
    BY DEF MonitorInit
  <2>2. rects \in [1..Outputs -> Rects \cup {Zero}]
    BY DEF MonitorInit
  <2> QED
    BY <2>1, <2>2 DEF MonitorInit, MonTypes
<1>2. answered = {} /\ Cardinality(answered) = 0
  <2>1. answered = {}
    BY DEF MonitorInit, answered, Zero
  <2> QED
    BY <2>1, FS_EmptySet
<1>3. Asked
  BY <1>2 DEF MonitorInit, Asked
<1>4. Windows
  BY DEF MonitorInit, Windows, MonitorsPlaced, HeadLeftmost, ready, SetUp
<1> QED
  BY <1>1, <1>3, <1>4 DEF MonInv

(* Before there are windows nothing is said of them.                       *)
LEMMA NoWindows ==
  ASSUME (pc \in SetUp \cup {"exit"})'
  PROVE  Windows'
BY DEF Windows, MonitorsPlaced, HeadLeftmost, ready

(* An output without a CRTC is passed over: it has no rectangle.           *)
LEMMA OutputInfo == MonInv /\ output_info => MonInv'
<1> SUFFICES ASSUME MonInv, output_info PROVE MonInv'
  OBVIOUS
<1>1. pc = "output" /\ i <= Outputs /\ UNCHANGED monvars
  BY DEF output_info
<1>2. crtc' = crtc /\ rects' = rects /\ valid' = valid /\ torn' = torn /\ answered' = answered
  BY <1>1 DEF monvars, answered
<1>3. \/ i' = i + 1 /\ pc' = pc
      \/ pc' = "crtc" /\ i' = i
  BY DEF output_info
<1>4. MonTypes'
  BY <1>2, <1>3 DEF MonInv, MonTypes
<1>5. i \in 1..Outputs
  BY <1>1, MonitorAssumption DEF MonInv, MonTypes
<1>6. /\ \A o \in 1..Outputs : o >= i => rects[o] = Zero
      /\ valid >= Cardinality(answered)
      /\ ~torn => valid = Cardinality(answered)
  BY <1>1 DEF MonInv, Asked
<1>7. \A o \in 1..Outputs : o >= i' => rects[o] = Zero
  BY <1>3, <1>5, <1>6
<1>8. pc' \in {"output", "crtc"} /\ (pc' = "crtc" => i' = i)
  BY <1>1, <1>3
<1>9. Asked'
  BY <1>2, <1>5, <1>6, <1>7, <1>8 DEF Asked
<1>10. Windows'
  BY <1>8, NoWindows DEF SetUp
<1> QED
  BY <1>4, <1>9, <1>10 DEF MonInv

(* An answer fills the rectangle of the output and counts it; an output    *)
(* switched off in between makes the count too large.                      *)
LEMMA CrtcInfo == MonInv /\ crtc_info => MonInv'
<1> SUFFICES ASSUME MonInv, crtc_info PROVE MonInv'
  OBVIOUS
<1>1. /\ pc = "crtc" /\ i \in 1..Outputs /\ rects[i] = Zero /\ i \in Nat
      /\ \A o \in 1..Outputs : o >= i => rects[o] = Zero
      /\ valid >= Cardinality(answered) /\ valid \in Nat
      /\ ~torn => valid = Cardinality(answered)
  BY DEF crtc_info, MonInv, Asked, MonTypes
<1>2. /\ crtc' = crtc /\ torn' = (torn \/ crtc[i] = Zero)
      /\ crtc[i] \in Rects \cup {Zero}
  BY <1>1 DEF crtc_info, MonInv, MonTypes
<1>3. pc' \in {"output", "fallback"}
  BY DEF crtc_info
<1>4. Windows'
  BY <1>3, NoWindows DEF SetUp
<1>5. CASE /\ rects' = [rects EXCEPT ![i] = crtc[i]]
           /\ valid' = valid + 1
           /\ i' = i + 1 /\ pc' = "output"
  <2>1. torn' \in BOOLEAN
    BY <1>2 DEF MonInv, MonTypes
  <2>2. MonTypes'
    BY <1>1, <1>2, <1>5, <2>1 DEF MonInv, MonTypes
  <2>3. \A o \in 1..Outputs : o >= i' => rects'[o] = Zero
    BY <1>1, <1>5 DEF MonInv, MonTypes
  <2>4. CASE crtc[i] = Zero
    <3>1. answered' = answered
      BY <1>1, <1>5, <2>4 DEF answered, MonInv, MonTypes, Zero
    <3>2. torn'
      BY <1>2, <2>4
    <3>4. valid' >= Cardinality(answered)
      BY <1>1, <1>5, OutputsFinite
    <3>3. Asked'
      BY <1>5, <2>3, <3>1, <3>2, <3>4 DEF Asked
    <3> QED
      BY <1>4, <2>2, <3>3 DEF MonInv
  <2>5. CASE crtc[i] # Zero
    <3>1. answered' = answered \cup {i} /\ i \notin answered
      <4>1. crtc[i].width # 0 /\ Zero.width = 0
        BY <1>2, <2>5, MonitorAssumption DEF Zero
      <4> QED
        BY <1>1, <1>5, <4>1 DEF answered, MonInv, MonTypes
    <3>2. Cardinality(answered') = Cardinality(answered) + 1 /\ Cardinality(answered) \in Nat
      BY <3>1, OutputsFinite, FS_AddElement
    <3>3. Cardinality(answered)' = Cardinality(answered) + 1
      BY <3>2
    <3>4. torn' = torn
      BY <1>2, <2>5 DEF MonInv, MonTypes
    <3>5. valid' >= Cardinality(answered)' /\ (~torn' => valid' = Cardinality(answered)')
      BY <1>1, <1>5, <3>2, <3>3, <3>4
    <3>6. Asked'
      BY <1>5, <2>3, <3>5 DEF Asked
    <3> QED
      BY <1>4, <2>2, <3>6 DEF MonInv
  <2> QED
    BY <2>4, <2>5
<1>6. CASE /\ crtc[i] = Zero
           /\ pc' = "fallback"
           /\ UNCHANGED <<rects, valid, i>>
  <2>1. torn' /\ answered' = answered
    BY <1>2, <1>6 DEF answered
  <2>2. MonTypes'
    BY <1>2, <1>6, <2>1 DEF MonInv, MonTypes
  <2>3. Asked'
    BY <1>1, <1>6, <2>1 DEF Asked
  <2> QED
    BY <1>4, <2>2, <2>3 DEF MonInv
<1> QED
  BY <1>5, <1>6 DEF crtc_info

(* A switched output changes no answer.                                    *)
LEMMA PlugStep == MonInv /\ Plug => MonInv'
<1> SUFFICES ASSUME MonInv, Plug PROVE MonInv'
  OBVIOUS
<1>1. /\ pc \in SetUp /\ pc' = pc /\ rects' = rects /\ valid' = valid /\ i' = i
      /\ torn' = torn /\ answered' = answered
  BY DEF Plug, answered
<1>2. crtc' \in [1..Outputs -> Rects \cup {Zero}]
  BY DEF Plug, MonInv, MonTypes
<1>3. MonTypes' /\ Asked'
  BY <1>1, <1>2 DEF MonInv, MonTypes, Asked
<1>4. Windows'
  BY <1>1, NoWindows DEF SetUp
<1> QED
  BY <1>3, <1>4 DEF MonInv

(* The windows made from what is sorted.                                   *)
LEMMA WindowsMade ==
  ASSUME MonInv, UNCHANGED <<rects, torn>>, NEW n \in Nat \ {0}, NEW r, sorted(r, n),
         ~torn => n = Cardinality(kept),
         mons' = [a \in 1..n |-> monitorNew(r[a])]
  PROVE  Windows'
<1>1. rects \in [1..Outputs -> Rects \cup {Zero}] /\ answered' = answered
  BY DEF MonInv, MonTypes, answered
<1>2. r \in [1..n -> Rects] /\ \A a \in 1..n : r[a] \in Rects
  BY DEF sorted
<1>3. Len(mons') = n /\ 1 \in 1..n
  <2> DEFINE m == [a \in 1..n |-> monitorNew(r[a])]
             S == {monitorNew(q) : q \in Rects}
  <2>1. m \in [1..n -> S]
    BY <1>2
  <2>2. mons' = m
    OBVIOUS
  <2> HIDE DEF m, S
  <2> QED
    BY <2>1, <2>2, FunctionIsSeq
<1>4. cur_mon'.width \in 0..(Word - 1)
  <2>1. cur_mon' = monitorNew(r[1])
    BY <1>3 DEF cur_mon
  <2>2. r[1].width \in Nat /\ r[1].width < Word /\ Word \in Nat
    BY <1>2, <1>3, MonitorAssumption, LayoutAssumption
  <2>3. cur_mon'.width = r[1].width
    BY <2>1 DEF monitorNew
  <2> QED
    BY <2>2, <2>3
<1>5. ASSUME ~torn
      PROVE  \E w : bijective(w, n, kept) /\ \A a \in 1..n : r[a] = rects[w[a]]
  BY <1>5 DEF sorted
<1>6. kept \subseteq answered
  BY DEF kept
<1>7. MonitorsPlaced'
  <2> SUFFICES ASSUME ready' PROVE MonitorsPlaced'
    BY DEF MonitorsPlaced
  <2>1. ~torn
    BY DEF ready
  <2>2. PICK w : bijective(w, n, kept) /\ \A a \in 1..n : r[a] = rects[w[a]]
    BY <1>5, <2>1
  <2>3. w \in [1..n -> answered]
    BY <1>6, <2>2 DEF bijective
  <2>4. \A a \in 1..n : mons'[a] = monitorNew(rects[w[a]])
    BY <2>2
  <2>5. ASSUME NEW o \in answered PROVE \E a \in 1..n : contains(rects[w[a]], rects[o])
    <3>1. PICK p \in kept : contains(rects[p], rects[o])
      BY <1>1, KeptCovers
    <3>2. PICK a \in 1..n : w[a] = p
      BY <2>2 DEF bijective
    <3> QED
      BY <3>1, <3>2
  <2>6. ASSUME NEW a \in 1..n, NEW b \in 1..n, contains(rects[w[a]], rects[w[b]])
        PROVE  a = b
    <3>1. w[a] \in kept /\ w[b] \in kept
      BY <2>2 DEF bijective
    <3>2. w[a] = w[b]
      BY <1>1, <2>6, <3>1, KeptApart
    <3> QED
      BY <2>2, <3>2 DEF bijective
  <2>7. answered # {}
    BY <1>3, <2>3
  <2> DEFINE placed(v) ==
        /\ \A a \in 1..n : mons'[a] = monitorNew(rects[v[a]])
        /\ \A o \in answered : \E a \in 1..n : contains(rects[v[a]], rects[o])
        /\ \A a, b \in 1..n : contains(rects[v[a]], rects[v[b]]) => a = b
  <2>8. placed(w)
    BY <2>4, <2>5, <2>6
  <2>9. \E v \in [1..n -> answered] : placed(v)
    <3> HIDE DEF placed
    <3> QED
      BY <2>3, <2>8
  <2> QED
    BY <1>1, <1>3, <2>7, <2>9 DEF MonitorsPlaced
<1>8. HeadLeftmost'
  <2> SUFFICES ASSUME ready',
                      \A o, p \in answered : rects[o].y + rects[o].height > rects[p].y
               PROVE  \A a \in 1..n : mons'[1].x <= mons'[a].x
    BY <1>1, <1>3 DEF HeadLeftmost
  <2>1. ~torn
    BY DEF ready
  <2>2. PICK w : bijective(w, n, kept) /\ \A a \in 1..n : r[a] = rects[w[a]]
    BY <1>5, <2>1
  <2>3. \A a \in 1..n : r[a] = rects[w[a]] /\ w[a] \in answered
    BY <1>6, <2>2 DEF bijective
  <2>4. \A a, b \in 1..n : r[a].y + r[a].height > r[b].y
    BY <2>3
  <2>5. \A a \in 1..n : isRect(r[a])
    BY <1>2, MonitorAssumption DEF isRect
  <2>6. \A a \in 1..(n - 1) :
          rectSortCb(r[a], r[a + 1]) <= 0 \/ rectSortCb(r[a + 1], r[a]) > 0
    BY DEF sorted
  <2>7. \A a \in 1..n : r[1].x <= r[a].x
    BY <2>4, <2>5, <2>6, FirstLeftmost
  <2>8. \A a \in 1..n : mons'[a].x = r[a].x
    BY DEF monitorNew
  <2> QED
    BY <1>3, <2>7, <2>8
<1> QED
  BY <1>4, <1>7, <1>8 DEF Windows

(* All outputs have been asked: windows, the fallback or the end.          *)
LEMMA GetRandrMonitors == MonInv /\ getRandrMonitors => MonInv'
<1> SUFFICES ASSUME MonInv, getRandrMonitors PROVE MonInv'
  OBVIOUS
<1> DEFINE c == Cardinality(kept)
           n == valid - Cardinality(answered \ kept)
<1>1. /\ pc = "output" /\ i' = 1 /\ crtc' = crtc /\ rects' = rects /\ valid' = valid
      /\ torn' = torn /\ answered' = answered
  BY DEF getRandrMonitors, answered
<1>2. MonTypes'
  BY <1>1 DEF MonInv, MonTypes
<1>3. /\ valid >= Cardinality(answered) /\ valid \in Nat
      /\ ~torn => valid = Cardinality(answered)
      /\ rects \in [1..Outputs -> Rects \cup {Zero}]
  BY <1>1 DEF MonInv, Asked, MonTypes
<1>4. n \in Int /\ n >= c /\ c \in Nat /\ (~torn => n = c)
  BY <1>3, OutputsFinite
<1>5. n < 1 /\ ~torn => answered = {}
  <2> SUFFICES ASSUME n < 1, ~torn PROVE answered = {}
    OBVIOUS
  <2>1. Cardinality(kept) = 0
    BY <1>4
  <2>2. kept = {}
    BY <2>1, OutputsFinite, FS_EmptySet
  <2> QED
    BY <1>3, <2>2, KeptCovers
<1>6. CASE n < 1 /\ pc' = "fallback"
  <2>1. Asked'
    BY <1>1, <1>3, <1>5, <1>6 DEF Asked
  <2>2. Windows'
    BY <1>6, NoWindows DEF SetUp
  <2> QED
    BY <1>2, <2>1, <2>2 DEF MonInv
<1>7. ASSUME n >= 1,
             NEW used \in array, NEW behind \in [1..(n - c) -> Rects],
             NEW r \in qsort([o \in DOMAIN used |-> rects[used[o]]] \o behind),
             monitorCreateChain(r)
      PROVE  MonInv'
  <2>1. n \in Nat \ {0}
    BY <1>4, <1>7
  <2>2. sorted(r, n)
    <3>1. PICK m \in Nat : m = n /\ m >= Cardinality(kept)
      BY <1>4, <2>1
    <3>2. behind \in [1..(m - Cardinality(kept)) -> Rects]
      BY <3>1
    <3> HIDE DEF n
    <3>3. sorted(r, m)
      BY <1>3, <3>1, <3>2, SortedArray
    <3> QED
      BY <3>1, <3>3
  <2>3. Len(r) = n
    <3> HIDE DEF n
    <3>1. r \in [1..n -> Rects] /\ n \in Nat
      BY <2>1, <2>2 DEF sorted
    <3> QED
      BY <3>1, FunctionIsSeq
  <2>4. pc' \in {"exit", "separator"}
    BY <1>7 DEF monitorCreateChain
  <2>5. Asked'
    BY <1>1, <1>3, <2>4 DEF Asked
  <2>6. Windows'
    <3>1. CASE pc' = "exit"
      BY <3>1, NoWindows DEF SetUp
    <3>2. CASE pc' = "separator"
      <4> HIDE DEF n
      <4>1. mons' = [a \in 1..n |-> monitorNew(r[a])]
        BY <1>7, <2>3, <3>2 DEF monitorCreateChain
      <4> QED
        BY <1>1, <1>4, <2>1, <2>2, <4>1, WindowsMade
    <3> QED
      BY <2>4, <3>1, <3>2
  <2> QED
    BY <1>2, <2>5, <2>6 DEF MonInv
<1> QED
  <2>1. \/ n < 1 /\ pc' = "fallback"
        \/ /\ n >= 1
           /\ \E used \in array, behind \in [1..(n - c) -> Rects] :
                \E r \in qsort([o \in DOMAIN used |-> rects[used[o]]] \o behind) :
                  monitorCreateChain(r)
    BY DEF getRandrMonitors
  <2> HIDE DEF n, c
  <2> QED
    BY <1>6, <1>7, <2>1

(* The screen is the only window; unless torn, no output answered.         *)
LEMMA Fallback == MonInv /\ fallback => MonInv'
<1> SUFFICES ASSUME MonInv, fallback PROVE MonInv'
  OBVIOUS
<1>1. /\ pc = "fallback" /\ i' = 1 /\ crtc' = crtc /\ rects' = rects /\ valid' = valid
      /\ torn' = torn /\ answered' = answered /\ pc' \in {"exit", "separator"}
  BY DEF fallback, answered, monitorCreateChain
<1>2. MonTypes' /\ Asked' /\ (~torn => answered = {})
  BY <1>1 DEF MonInv, MonTypes, Asked
<1>3. Windows'
  <2>1. CASE pc' = "exit"
    BY <2>1, NoWindows DEF SetUp
  <2>2. CASE pc' = "separator"
    <3>1. Len(<<Screen>>) = 1 /\ <<Screen>>[1] = Screen
      OBVIOUS
    <3>2. mons' = [a \in 1..1 |-> monitorNew(<<Screen>>[a])]
      BY <2>2, <3>1 DEF fallback, monitorCreateChain
    <3>3. mons' = <<monitorNew(Screen)>>
      BY <3>1, <3>2
    <3>4. Len(mons') = 1 /\ mons'[1] = monitorNew(Screen)
      BY <3>3
    <3>5. Screen.width \in Nat /\ Screen.width < Word /\ Word \in Nat /\ Screen.x \in Nat
      BY MonitorAssumption, LayoutAssumption
    <3>6. cur_mon'.width = Screen.width /\ mons'[1].x = Screen.x
      BY <3>4 DEF cur_mon, monitorNew
    <3>7. cur_mon'.width \in 0..(Word - 1)
      BY <3>5, <3>6
    <3>8. MonitorsPlaced'
      BY <1>1, <1>2, <3>3 DEF MonitorsPlaced, ready
    <3>9. HeadLeftmost'
      <4>1. \A a \in 1..1 : mons'[1].x <= mons'[a].x
        BY <3>5, <3>6
      <4> QED
        BY <3>4, <4>1 DEF HeadLeftmost
    <3> QED
      BY <3>7, <3>8, <3>9 DEF Windows
  <2> QED
    BY <1>1, <2>1, <2>2
<1> QED
  BY <1>2, <1>3 DEF MonInv

(* While there are windows, the drawing leaves them alone.                 *)
LEMMA MonKept ==
  ASSUME MonInv, UNCHANGED monvars, i' \in Nat \ {0},
         pc \notin SetUp \cup {"exit"}, pc' \notin SetUp \cup {"exit"}
  PROVE  MonInv'
<1>1. /\ crtc' = crtc /\ rects' = rects /\ valid' = valid /\ mons' = mons /\ torn' = torn
      /\ answered' = answered /\ cur_mon' = cur_mon /\ ready' = ready
  BY DEF monvars, answered, cur_mon, ready
<1>2. MonTypes'
  BY <1>1 DEF MonInv, MonTypes
<1>3. Asked'
  BY <1>1 DEF MonInv, Asked, SetUp
<1>4. Windows'
  BY <1>1 DEF MonInv, Windows, MonitorsPlaced, HeadLeftmost
<1> QED
  BY <1>2, <1>3, <1>4 DEF MonInv

-----------------------------------------------------------------------------
(* The measuring and the walks.                                            *)

LTypes ==
  /\ content \in [Elements -> Contents] /\ dirty \subseteq Elements
  /\ width \in [Elements -> 0..(Word - 1)] /\ beginX \in [Elements -> 0..(Word - 1)]
  /\ separator \in Nat /\ k \in Nat \ {0} /\ cur \in Int
  /\ pc \in SetUp \cup {"exit", "separator", "idle", "parse", "left", "sum", "right"}

(* The table is right and, once the separator has been measured, it has    *)
(* the separator's characters.  The element that is being measured has     *)
(* been measured as far as k.                                              *)
Measuring ==
  /\ TableOK
  /\ pc \in SetUp \cup {"exit"} => separator = 0 /\ k = 1
  /\ pc = "separator" => \/ k = 1 /\ separator = 0
                         \/ k = 2 /\ separator = own(SepText[1]) /\ seated(SepText[1])
  /\ pc \notin SetUp \cup {"exit", "separator"} =>
       /\ separator = own(SepText[1]) + own(SepText[2])
       /\ seated(SepText[1]) /\ seated(SepText[2])
  /\ pc = "parse" => \/ k = 1 /\ cur = 0
                     \/ /\ i <= Len(order) /\ order[i] \in dirty
                        /\ k <= Len(content[order[i]]) + 1
                        /\ cur = firsts(content[order[i]], k - 1)
  /\ WidthIsOwn

(* The widths of a side's items, and how far from its begin each is.       *)
widths(s) == [n \in 1..Len(s) |-> IF s[n] = Sep THEN TextWidth[SepText] ELSE width[s[n]]]
at(s, n) == Sum(widths(s), n - 1)

rightBegin == cur_mon.width - own(SepText[1]) - Total(Right)

(* The elements of the first n - 1 items of a side that begins at b are at *)
(* their places.                                                           *)
placed(s, b, n) ==
  \A m \in 1..Len(s) : m < n /\ s[m] # Sep => beginX[s[m]] = (b + at(s, m)) % Word

allPlaced == placed(Left, 0, Len(Left) + 1) /\ placed(Right, rightBegin, Len(Right) + 1)

(* Where a walk is; between two drawings all elements are at their places, *)
(* except that before the first one they have no width.                    *)
Walking ==
  /\ pc \in SetUp \cup {"exit", "separator"} => \A e \in Elements : width[e] = 0
  /\ pc = "left" => /\ i <= Len(Left) + 1 /\ cur = at(Left, i)
                    /\ placed(Left, 0, i)
  /\ pc = "sum" => /\ i <= Len(Right) + 1 /\ cur = at(Right, i)
                   /\ placed(Left, 0, Len(Left) + 1)
  /\ pc = "right" => /\ i <= Len(Right) + 1 /\ cur = rightBegin + at(Right, i)
                     /\ placed(Left, 0, Len(Left) + 1) /\ placed(Right, rightBegin, i)
  /\ pc = "idle" => allPlaced \/ \A e \in Elements : width[e] = 0

LayoutInv == MonInv /\ LTypes /\ Measuring /\ Walking

(* The sides are sequences of elements and separators.                     *)
LEMMA Sides ==
  /\ Left \in Seq(Elements \cup {Sep}) /\ Right \in Seq(Elements \cup {Sep})
  /\ order \in Seq(Elements \cup {Sep})
  /\ Len(Left) \in Nat /\ Len(Right) \in Nat /\ Len(order) \in Nat
  /\ \A n \in 1..Len(Left) : Left[n] # Sep => Left[n] \in Elements
  /\ \A n \in 1..Len(Right) : Right[n] # Sep => Right[n] \in Elements
<1>1. Left \in Seq(Elements \cup {Sep}) /\ Right \in Seq(Elements \cup {Sep})
  BY LayoutAssumption
<1>2. order \in Seq(Elements \cup {Sep})
  BY <1>1, ConcatProperties DEF order
<1> QED
  BY <1>1, <1>2

(* The separator's text.                                                   *)
LEMMA SepChars ==
  /\ SepText[1] \in Nat \ {0} /\ SepText[2] \in Nat \ {0} /\ Question \in Nat \ {0}
  /\ selectDrawableFont(SepText[1]) # 0 /\ selectDrawableFont(SepText[2]) # 0
  /\ Len(SepText) = 2
  /\ own(SepText[1]) \in Nat /\ own(SepText[2]) \in Nat
BY GlyphAssumption, LayoutAssumption, FontHas

(* The width of a text is the sum of its characters' own widths.           *)
LEMMA TextSum ==
  ASSUME NEW text \in Contents \cup {SepText}
  PROVE  /\ Len(text) \in Nat /\ TextWidth[text] = firsts(text, Len(text))
         /\ TextWidth[text] \in Nat
         /\ firsts(text, 0) = 0
         /\ \A n \in 1..Len(text) :
              /\ text[n] \in Nat \ {0}
              /\ firsts(text, n - 1) \in Nat
              /\ firsts(text, n) = firsts(text, n - 1) + own(text[n])
<1> DEFINE f == [m \in 1..Len(text) |-> own(text[m])]
<1>1. text \in Seq(Chars)
  BY LayoutAssumption
<1>2. Len(text) \in Nat /\ \A n \in 1..Len(text) : text[n] \in Nat \ {0}
  <2>1. Chars \subseteq Nat \ {0}
    BY GlyphAssumption
  <2>2. Len(text) \in Nat /\ \A n \in 1..Len(text) : text[n] \in Chars
    BY <1>1
  <2> QED
    BY <2>1, <2>2
<1>3. \A n \in 1..Len(text) : f[n] = own(text[n]) /\ f[n] \in Nat
  BY FontHas
<1>4. TextWidth[text] = firsts(text, Len(text))
  BY DEF TextWidth, firsts
<1>5. \A n \in 0..Len(text) : firsts(text, n) = Sum(f, n)
  BY DEF firsts
<1> HIDE DEF f
<1>6. ASSUME NEW n \in 0..Len(text)
      PROVE  /\ Sum(f, n) \in Nat
             /\ n > 0 => Sum(f, n) = Sum(f, n - 1) + f[n]
  BY <1>2, <1>3, SumGrows
<1>7. Sum(f, 0) = 0
  BY <1>2, <1>3, SumStep
<1>8. ASSUME NEW n \in 1..Len(text)
      PROVE  /\ firsts(text, n - 1) \in Nat
             /\ firsts(text, n) = firsts(text, n - 1) + own(text[n])
  <2>1. n \in 0..Len(text) /\ n - 1 \in 0..Len(text) /\ n > 0
    BY <1>2
  <2> QED
    BY <1>3, <1>5, <1>6, <2>1
<1>9. 0 \in 0..Len(text) /\ Len(text) \in 0..Len(text)
  BY <1>2
<1> QED
  BY <1>2, <1>4, <1>5, <1>6, <1>7, <1>8, <1>9

(* The width of the separator is that of its two characters.               *)
LEMMA SepWidth == TextWidth[SepText] = own(SepText[1]) + own(SepText[2])
<1>1. /\ Len(SepText) = 2 /\ TextWidth[SepText] = firsts(SepText, 2)
      /\ firsts(SepText, 0) = 0
      /\ firsts(SepText, 1) = firsts(SepText, 0) + own(SepText[1])
      /\ firsts(SepText, 2) = firsts(SepText, 1) + own(SepText[2])
  <2>1. 1 \in 1..2 /\ 2 \in 1..2 /\ 1 - 1 = 0 /\ 2 - 1 = 1 /\ Len(SepText) = 2
        /\ SepText \in Contents \cup {SepText}
    BY SepChars
  <2>2. /\ TextWidth[SepText] = firsts(SepText, Len(SepText))
        /\ firsts(SepText, 0) = 0
        /\ \A n \in 1..Len(SepText) :
             firsts(SepText, n) = firsts(SepText, n - 1) + own(SepText[n])
    BY <2>1, TextSum
  <2> QED
    BY <2>1, <2>2
<1> QED
  BY <1>1, SepChars

(* The places of a side's items, one behind the other.                     *)
LEMMA Places ==
  ASSUME LTypes, NEW s \in {Left, Right}
  PROVE  /\ Len(s) \in Nat /\ at(s, 1) = 0 /\ Total(s) = at(s, Len(s) + 1)
         /\ Total(s) \in Nat
         /\ \A n \in 1..(Len(s) + 1) : at(s, n) \in Nat /\ at(s, n) <= Total(s)
         /\ \A n \in 1..Len(s) : /\ at(s, n + 1) = at(s, n) + widths(s)[n]
                                 /\ widths(s)[n] \in Nat
         /\ \A n \in 1..Len(s) : \A m \in 1..Len(s) :
              m < n => at(s, m) + widths(s)[m] <= at(s, n)
<1> DEFINE f == widths(s)
<1>1. Len(s) \in Nat /\ \A n \in 1..Len(s) : s[n] # Sep => s[n] \in Elements
  BY Sides
<1>2. \A n \in 1..Len(s) : f[n] \in Nat
  <2>1. TextWidth[SepText] \in Nat
    BY SepWidth, SepChars
  <2>2. Word \in Nat
    BY LayoutAssumption
  <2> QED
    BY <1>1, <2>1, <2>2 DEF LTypes, widths
<1>3. Total(s) = Sum(f, Len(s))
  BY DEF Total, widths
<1>4. \A n : at(s, n) = Sum(f, n - 1)
  BY DEF at
<1> HIDE DEF f
<1>5. ASSUME NEW n \in Nat, n <= Len(s), NEW p \in 0..n
      PROVE  /\ Sum(f, p) \in Nat /\ Sum(f, p) <= Sum(f, n)
             /\ p > 0 => Sum(f, p) = Sum(f, p - 1) + f[p]
  <2>1. \A m \in 1..n : f[m] \in Nat
    BY <1>1, <1>2, <1>5
  <2> QED
    BY <2>1, <1>5, SumGrows
<1>6. Sum(f, 0) = 0
  BY <1>1, <1>2, SumStep
<1>7. at(s, 1) = 0
  <2>1. 1 - 1 = 0
    OBVIOUS
  <2> QED
    BY <1>4, <1>6, <2>1
<1>8. Total(s) = at(s, Len(s) + 1)
  <2>1. (Len(s) + 1) - 1 = Len(s)
    BY <1>1
  <2> QED
    BY <1>3, <1>4, <2>1
<1>9. ASSUME NEW n \in 1..(Len(s) + 1)
      PROVE  at(s, n) \in Nat /\ at(s, n) <= Total(s)
  <2>1. n - 1 \in 0..Len(s)
    BY <1>1
  <2> QED
    BY <1>1, <1>3, <1>4, <1>5, <2>1
<1>10. ASSUME NEW n \in 1..Len(s) PROVE at(s, n + 1) = at(s, n) + f[n]
  <2>1. (n + 1) - 1 = n /\ n \in Nat /\ n \in 0..n /\ n > 0 /\ n <= Len(s)
    BY <1>1
  <2> QED
    BY <1>4, <1>5, <2>1
<1>11. ASSUME NEW n \in 1..Len(s), NEW m \in 1..Len(s), m < n
       PROVE  at(s, m) + f[m] <= at(s, n)
  <2>1. n - 1 \in Nat /\ n - 1 <= Len(s) /\ m \in 0..(n - 1) /\ (m + 1) - 1 = m
    BY <1>1, <1>11
  <2>2. Sum(f, m) <= Sum(f, n - 1)
    BY <1>5, <2>1
  <2> QED
    BY <1>4, <1>10, <2>1, <2>2
<1>12. Total(s) \in Nat
  <2>1. Len(s) + 1 \in 1..(Len(s) + 1)
    BY <1>1
  <2> QED
    BY <1>8, <1>9, <2>1
<1>13. f = widths(s)
  BY DEF f
<1> QED
  BY <1>1, <1>2, <1>7, <1>8, <1>9, <1>10, <1>11, <1>12, <1>13

(* The invariant holds at first.                                           *)
LEMMA LayoutInit == Init => LayoutInv
<1> SUFFICES ASSUME Init PROVE LayoutInv
  OBVIOUS
<1>1. MonInv
  BY MonInvInit DEF Init
<1>2. pc = "output"
  BY DEF Init, MonitorInit
<1>3. Word \in Nat /\ 0 \in 0..(Word - 1) /\ <<>> \in Contents
  BY LayoutAssumption
<1>4. LTypes
  BY <1>2, <1>3 DEF Init, LTypes, SetUp
<1>5. TableOK
  BY DEF Init, TableInit, TableOK
<1>6. WidthIsOwn
  <2>1. TextWidth[<<>>] = 0
    <3>1. <<>> \in Contents \cup {SepText} /\ Len(<<>>) = 0
      BY <1>3
    <3> QED
      BY <3>1, TextSum
  <2>2. 0 % Word = 0
    BY LayoutAssumption
  <2> QED
    BY <2>1, <2>2 DEF Init, WidthIsOwn
<1>7. Measuring
  BY <1>2, <1>5, <1>6 DEF Init, Measuring, SetUp
<1>8. Walking
  BY <1>2 DEF Init, Walking, SetUp
<1> QED
  BY <1>1, <1>4, <1>7, <1>8 DEF LayoutInv

(* The windows are made before anything is measured.                       *)
LEMMA InitStep == LayoutInv /\ init => LayoutInv'
<1> SUFFICES ASSUME LayoutInv, init PROVE LayoutInv'
  OBVIOUS
<1>1. /\ content' = content /\ dirty' = dirty /\ width' = width /\ beginX' = beginX
      /\ separator' = separator /\ k' = k /\ cur' = cur
      /\ xftChar' = xftChar /\ xftWidth' = xftWidth
  BY DEF init, layout, table
<1>2. pc \in SetUp /\ pc' \in SetUp \cup {"exit", "separator"}
  BY DEF init, MonitorStep, output_info, crtc_info, getRandrMonitors, fallback, Plug,
         monitorCreateChain, SetUp, monvars
<1>3. MonInv'
  BY OutputInfo, CrtcInfo, GetRandrMonitors, Fallback, PlugStep
     DEF LayoutInv, init, MonitorStep
<1>4. LTypes'
  BY <1>1, <1>2 DEF LayoutInv, LTypes
<1>5. separator = 0 /\ k = 1 /\ \A e \in Elements : width[e] = 0
  BY <1>2 DEF LayoutInv, Measuring, Walking
<1>6. TableOK' /\ WidthIsOwn'
  BY <1>1 DEF LayoutInv, Measuring, TableOK, WidthIsOwn
<1>7. Measuring'
  BY <1>1, <1>2, <1>5, <1>6 DEF Measuring, SetUp
<1>8. Walking'
  BY <1>1, <1>2, <1>5 DEF Walking, SetUp
<1> QED
  BY <1>3, <1>4, <1>7, <1>8 DEF LayoutInv

(* The separator is measured, and its characters are in the table from     *)
(* then on.                                                                *)
LEMMA InitSeparator == LayoutInv /\ initSeparator => LayoutInv'
<1> SUFFICES ASSUME LayoutInv, initSeparator PROVE LayoutInv'
  OBVIOUS
<1>1. /\ pc = "separator" /\ UNCHANGED monvars /\ i' = i
      /\ content' = content /\ dirty' = dirty /\ width' = width /\ beginX' = beginX
      /\ cur' = cur
      /\ separator' = separator + getUtf8CharWidth(SepText[k])
      /\ xftCharWidth(SepText[k])
      /\ IF k < Len(SepText) THEN k' = k + 1 /\ pc' = pc ELSE k' = 1 /\ pc' = "idle"
  BY DEF initSeparator
<1>2. /\ TableOK /\ WidthIsOwn /\ \A e \in Elements : width[e] = 0
      /\ \/ k = 1 /\ separator = 0
         \/ k = 2 /\ separator = own(SepText[1]) /\ seated(SepText[1])
  BY <1>1 DEF LayoutInv, Measuring, Walking, SetUp
<1>3. k \in {1, 2} /\ SepText[k] \in Nat \ {0} /\ selectDrawableFont(SepText[k]) # 0
  BY <1>2, SepChars
<1>4. PICK ch \in Nat \ {0} : ch = SepText[k] /\ selectDrawableFont(ch) # 0
  BY <1>3
<1>5. /\ getUtf8CharWidth(SepText[k]) = own(ch) /\ TableOK' /\ own(ch) \in Nat
      /\ \A c \in Nat \ {0} : seated(c) => seated(c)'
      /\ seated(ch)'
  <2>1. xftCharWidth(ch)
    BY <1>1, <1>4
  <2> QED
    BY <1>2, <1>4, <2>1, Measured, FontHas
<1>6. pc' \in {"separator", "idle"} /\ separator' \in Nat /\ k' \in Nat \ {0}
  BY <1>1, <1>2, <1>3, <1>5, SepChars
<1>7. MonInv'
  <2>1. i' \in Nat \ {0}
    BY <1>1 DEF LayoutInv, MonInv, MonTypes
  <2> QED
    BY <1>1, <1>6, <2>1, MonKept DEF LayoutInv, SetUp
<1>8. LTypes'
  BY <1>1, <1>6 DEF LayoutInv, LTypes
<1>9. WidthIsOwn'
  BY <1>1, <1>2 DEF WidthIsOwn
<1>10. \/ pc' = "separator" /\ k' = 2 /\ separator' = own(SepText[1]) /\ seated(SepText[1])'
      \/ /\ pc' = "idle" /\ separator' = own(SepText[1]) + own(SepText[2])
         /\ seated(SepText[1])' /\ seated(SepText[2])'
  <2>1. CASE k = 1 /\ separator = 0
    <3>1. ch = SepText[1] /\ k' = 2 /\ pc' = "separator"
      BY <1>1, <1>4, <2>1, SepChars
    <3>2. separator' = own(ch)
      BY <1>1, <1>5, <2>1
    <3> QED
      BY <1>5, <3>1, <3>2
  <2>2. CASE k = 2 /\ separator = own(SepText[1]) /\ seated(SepText[1])
    <3>1. ch = SepText[2] /\ pc' = "idle"
      BY <1>1, <1>4, <2>2, SepChars
    <3>2. separator' = own(SepText[1]) + own(ch)
      BY <1>1, <1>5, <2>2
    <3>3. seated(SepText[1])'
      BY <1>5, <2>2, SepChars
    <3> QED
      BY <1>5, <3>1, <3>2, <3>3
  <2> QED
    BY <1>2, <2>1, <2>2
<1>11. Measuring'
  BY <1>5, <1>9, <1>10 DEF Measuring, SetUp
<1>12. Walking'
  BY <1>1, <1>2, <1>6 DEF Walking, SetUp
<1> QED
  BY <1>7, <1>8, <1>11, <1>12 DEF LayoutInv

(* What stays when neither the windows nor the separator are touched.      *)
quiet ==
  /\ UNCHANGED <<monvars, separator>>
  /\ pc \notin SetUp \cup {"exit", "separator"}
  /\ pc' \in {"idle", "parse", "left", "sum", "right"}
  /\ i' \in Nat \ {0}

(* The windows, the separator and the characters of its text stay.         *)
LEMMA Quiet ==
  ASSUME LayoutInv, quiet
  PROVE  /\ MonInv' /\ cur_mon' = cur_mon
         /\ separator' = own(SepText[1]) + own(SepText[2])
         /\ seated(SepText[1]) /\ seated(SepText[2]) /\ TableOK
<1>1. MonInv'
  BY MonKept DEF LayoutInv, quiet, SetUp
<1> QED
  BY <1>1 DEF LayoutInv, Measuring, quiet, monvars, cur_mon

(* The table after a quiet step.                                           *)
LEMMA QuietTable ==
  ASSUME LayoutInv, quiet,
         UNCHANGED table \/ \E ch \in Nat \ {0} : xftCharWidth(ch)
  PROVE  TableOK' /\ seated(SepText[1])' /\ seated(SepText[2])'
<1>1. seated(SepText[1]) /\ seated(SepText[2]) /\ TableOK
  BY Quiet
<1>2. CASE UNCHANGED table
  BY <1>1, <1>2 DEF table, TableOK, seated
<1>3. ASSUME NEW ch \in Nat \ {0}, xftCharWidth(ch)
      PROVE  TableOK' /\ seated(SepText[1])' /\ seated(SepText[2])'
  BY <1>1, <1>3, Measured, SepChars
<1> QED
  BY <1>2, <1>3

(* Of the positions nothing is said while contents are measured.           *)
LEMMA UpdateStep == ASSUME LayoutInv, NEW e \in Elements, Update(e) PROVE LayoutInv'
<1>1. /\ pc = "idle" /\ pc' = "idle" /\ UNCHANGED monvars /\ i' = i
      /\ width' = width /\ beginX' = beginX /\ separator' = separator
      /\ UNCHANGED table /\ k' = k /\ cur' = cur
      /\ dirty' = dirty \cup {e}
  BY DEF Update, layout
<1>2. PICK text \in Contents : content' = [content EXCEPT ![e] = text]
  BY DEF Update
<1>3. quiet
  BY <1>1 DEF quiet, LayoutInv, MonInv, MonTypes, SetUp
<1>4. LTypes'
  BY <1>1, <1>2 DEF LayoutInv, LTypes
<1>5. WidthIsOwn'
  BY <1>1, <1>2 DEF LayoutInv, LTypes, Measuring, WidthIsOwn
<1>6. Measuring'
  BY <1>1, <1>3, <1>5, Quiet, QuietTable DEF Measuring, SetUp
<1>7. Walking'
  <2>1. cur_mon' = cur_mon
    BY <1>3, Quiet
  <2>2. allPlaced \/ \A f \in Elements : width[f] = 0
    BY <1>1 DEF LayoutInv, Walking
  <2>3. allPlaced' = allPlaced
    BY <1>1, <2>1 DEF allPlaced, placed, at, widths, rightBegin, Total
  <2> QED
    BY <1>1, <2>2, <2>3 DEF Walking, SetUp
<1> QED
  BY <1>3, <1>4, <1>6, <1>7, Quiet DEF LayoutInv

(* feed begins with the first element.                                     *)
LEMMA ParseModules == LayoutInv /\ parseModules => LayoutInv'
<1> SUFFICES ASSUME LayoutInv, parseModules PROVE LayoutInv'
  OBVIOUS
<1>1. /\ pc = "idle" /\ pc' = "parse" /\ UNCHANGED monvars /\ i' = 1 /\ k' = 1 /\ cur' = 0
      /\ content' = content /\ dirty' = dirty /\ width' = width /\ beginX' = beginX
      /\ separator' = separator /\ UNCHANGED table
  BY DEF parseModules, begin, layout
<1>2. quiet
  BY <1>1 DEF quiet, SetUp
<1>3. LTypes'
  BY <1>1 DEF LayoutInv, LTypes
<1>4. WidthIsOwn'
  BY <1>1 DEF LayoutInv, Measuring, WidthIsOwn
<1>5. Measuring'
  BY <1>1, <1>2, <1>4, Quiet, QuietTable DEF Measuring, SetUp
<1>6. Walking'
  BY <1>1 DEF Walking, SetUp
<1> QED
  BY <1>2, <1>3, <1>5, <1>6, Quiet DEF LayoutInv

(* What a click finds is an element that has an event, in its area.        *)
LEMMA FoundFirst ==
  ASSUME NEW x, found(x) # {}
  PROVE  LET e == order[least(found(x))]
         IN  e \in Elements /\ e \in Clickable /\ inArea(e, x)
<1>1. found(x) \subseteq Nat
  BY DEF found
<1>2. least(found(x)) \in found(x)
  BY <1>1, LeastIsIn
<1>3. Clickable \subseteq Elements
  BY LayoutAssumption
<1> QED
  BY <1>2, <1>3 DEF found

(* A click that finds an element changes its content, and the bar is       *)
(* drawn.                                                                  *)
LEMMA ButtonPress ==
  ASSUME LayoutInv, NEW x, BUTTON_PRESS(x), found(x) # {}
  PROVE  LayoutInv'
<1>1. PICK e \in Elements : e = order[least(found(x))]
  BY FoundFirst
<1>2. /\ pc = "idle" /\ pc' = "parse" /\ UNCHANGED monvars /\ i' = 1 /\ k' = 1 /\ cur' = 0
      /\ dirty' = dirty \cup {e} /\ width' = width /\ beginX' = beginX
      /\ separator' = separator /\ UNCHANGED table
      /\ \E text \in Contents : content' = [content EXCEPT ![e] = text]
  BY <1>1 DEF BUTTON_PRESS, begin, layout
<1>3. PICK text \in Contents : content' = [content EXCEPT ![e] = text]
  BY <1>2
<1>4. quiet
  BY <1>2 DEF quiet, SetUp
<1>5. LTypes'
  BY <1>2, <1>3 DEF LayoutInv, LTypes
<1>6. WidthIsOwn'
  BY <1>2, <1>3 DEF LayoutInv, LTypes, Measuring, WidthIsOwn
<1>7. Measuring'
  BY <1>2, <1>4, <1>6, Quiet, QuietTable DEF Measuring, SetUp
<1>8. Walking'
  BY <1>2 DEF Walking, SetUp
<1> QED
  BY <1>4, <1>5, <1>7, <1>8, Quiet DEF LayoutInv

(* A character more is measured, an element gets its width, or one that    *)
(* has not changed is passed over.                                         *)
LEMMA ParseElementContent == LayoutInv /\ parseElementContent => LayoutInv'
<1> SUFFICES ASSUME LayoutInv, parseElementContent PROVE LayoutInv'
  OBVIOUS
<1> DEFINE e == order[i]
           text == content[e]
<1>1. /\ pc = "parse" /\ pc' = "parse" /\ i <= Len(order) /\ UNCHANGED monvars
      /\ content' = content /\ beginX' = beginX /\ separator' = separator
  BY DEF parseElementContent
<1>2. /\ i \in Nat \ {0} /\ k \in Nat \ {0} /\ cur \in Int /\ Word \in Nat \ {0}
      /\ TableOK /\ WidthIsOwn
  BY LayoutAssumption DEF LayoutInv, MonInv, MonTypes, LTypes, Measuring
<1>3. \/ k = 1 /\ cur = 0
      \/ e \in dirty /\ k <= Len(text) + 1 /\ cur = firsts(text, k - 1)
  BY <1>1 DEF LayoutInv, Measuring
<1>4. Walking'
  BY <1>1 DEF Walking, SetUp
<1>5. ASSUME e \in dirty
      PROVE  /\ e \in Elements /\ text \in Contents /\ Len(text) \in Nat
             /\ k <= Len(text) + 1 /\ cur = firsts(text, k - 1)
  <2>1. e \in Elements /\ text \in Contents
    BY <1>5 DEF LayoutInv, LTypes
  <2> HIDE DEF text
  <2>2. Len(text) \in Nat /\ firsts(text, 0) = 0
    BY <2>1, TextSum
  <2>3. CASE k = 1 /\ cur = 0
    <3>1. k - 1 = 0
      BY <2>3
    <3> QED
      BY <2>1, <2>2, <2>3, <3>1
  <2> QED
    BY <1>3, <2>1, <2>2, <2>3
<1>6. CASE /\ e \in dirty /\ k <= Len(text)
           /\ cur' = cur + getUtf8CharWidth(text[k])
           /\ xftCharWidth(text[k])
           /\ k' = k + 1
           /\ UNCHANGED <<width, dirty, i>>
  <2>1. k \in 1..Len(text)
    BY <1>2, <1>5, <1>6
  <2>2. /\ text[k] \in Nat \ {0} /\ firsts(text, k - 1) \in Nat
        /\ firsts(text, k) = firsts(text, k - 1) + own(text[k])
    <3> HIDE DEF text
    <3> QED
      BY <1>5, <1>6, <2>1, TextSum
  <2>4. getUtf8CharWidth(text[k]) = own(text[k])
    BY <1>2, <1>6, <2>2, Measured
  <2>5. cur' = firsts(text, k) /\ cur' \in Int
    BY <1>5, <1>6, <2>2, <2>4, FontHas
  <2>6. quiet
    BY <1>1, <1>2, <1>6 DEF quiet, SetUp
  <2>7. TableOK' /\ seated(SepText[1])' /\ seated(SepText[2])'
    BY <1>6, <2>2, <2>6, QuietTable
  <2>8. k' - 1 = k /\ k' \in Nat \ {0} /\ k' <= Len(text) + 1
    BY <1>2, <1>5, <1>6
  <2>9. /\ i' <= Len(order) /\ order[i'] \in dirty'
        /\ k' <= Len(content'[order[i']]) + 1
        /\ cur' = firsts(content'[order[i']], k' - 1)
    BY <1>1, <1>6, <2>5, <2>8
  <2>10. LTypes'
    BY <1>1, <1>6, <2>5, <2>8 DEF LayoutInv, LTypes
  <2>11. WidthIsOwn'
    BY <1>1, <1>2, <1>6 DEF WidthIsOwn
  <2>12. separator' = own(SepText[1]) + own(SepText[2])
    BY <2>6, Quiet
  <2>13. Measuring'
    <3> HIDE DEF e, text
    <3> QED
      BY <1>1, <2>7, <2>9, <2>11, <2>12 DEF Measuring, SetUp, order
  <2> QED
    BY <1>4, <2>6, <2>10, <2>13, Quiet DEF LayoutInv
<1>7. CASE /\ e \in dirty /\ k > Len(text)
           /\ width' = [width EXCEPT ![e] = cur % Word]
           /\ dirty' = dirty \ {e}
           /\ i' = i + 1 /\ k' = 1 /\ cur' = 0
           /\ UNCHANGED table
  <2>1. k - 1 = Len(text)
    BY <1>2, <1>5, <1>7
  <2>2. cur = TextWidth[text]
    <3> HIDE DEF text
    <3> QED
      BY <1>5, <1>7, <2>1, TextSum
  <2>3. quiet
    BY <1>1, <1>2, <1>7 DEF quiet, SetUp
  <2>4. cur % Word \in 0..(Word - 1)
    BY <1>2
  <2>5. LTypes'
    BY <1>1, <1>2, <1>7, <2>4 DEF LayoutInv, LTypes
  <2>6. WidthIsOwn'
    <3> SUFFICES ASSUME NEW f \in Elements, f \notin dirty'
                 PROVE  width'[f] = TextWidth[content'[f]] % Word
      BY DEF WidthIsOwn
    <3>1. CASE f = e
      BY <1>1, <1>5, <1>7, <2>2, <3>1 DEF LayoutInv, LTypes
    <3>2. CASE f # e
      BY <1>1, <1>2, <1>7, <3>2 DEF LayoutInv, LTypes, WidthIsOwn
    <3> QED
      BY <3>1, <3>2
  <2>7. Measuring'
    BY <1>1, <1>7, <2>3, <2>6, Quiet, QuietTable DEF Measuring, SetUp
  <2> QED
    BY <1>4, <2>3, <2>5, <2>7, Quiet DEF LayoutInv
<1>8. CASE /\ e \notin dirty
           /\ i' = i + 1
           /\ UNCHANGED <<width, dirty, table, k, cur>>
  <2>1. k' = 1 /\ cur' = 0
    BY <1>3, <1>8
  <2>2. quiet
    BY <1>1, <1>2, <1>8 DEF quiet, SetUp
  <2>3. LTypes'
    BY <1>1, <1>8, <2>1 DEF LayoutInv, LTypes
  <2>4. WidthIsOwn'
    BY <1>1, <1>2, <1>8 DEF WidthIsOwn
  <2>5. Measuring'
    BY <1>1, <1>8, <2>1, <2>2, <2>4, Quiet, QuietTable DEF Measuring, SetUp
  <2> QED
    BY <1>4, <2>2, <2>3, <2>5, Quiet DEF LayoutInv
<1> QED
  BY <1>6, <1>7, <1>8 DEF parseElementContent

(* One item of a walk: it is put behind those before it, the others of its *)
(* side stay where they are, and so does the other side.                   *)
LEMMA PlaceItem ==
  ASSUME LayoutInv, quiet, width' = width,
         NEW s \in {Left, Right}, NEW b \in Int, i \in 1..Len(s),
         cur = b + at(s, i), placed(s, b, i), place(s[i]), i' = i + 1
  PROVE  /\ cur' = b + at(s, i') /\ cur' \in Int
         /\ placed(s, b, i)'
         /\ beginX' \in [Elements -> 0..(Word - 1)]
         /\ UNCHANGED table \/ \E ch \in Nat \ {0} : xftCharWidth(ch)
         /\ s = Right /\ placed(Left, 0, Len(Left) + 1) =>
              placed(Left, 0, Len(Left) + 1)'
<1> DEFINE x == s[i]
<1>0. LTypes /\ Len(s) \in Nat /\ Word \in Nat \ {0} /\ cur \in Int
  BY Places, LayoutAssumption DEF LayoutInv, LTypes
<1>1. x # Sep => x \in Elements
  BY Sides
<1>2. \A t, n : at(t, n)' = at(t, n)
  BY DEF at, widths
<1>3. widths(s)[i] = IF x = Sep THEN separator ELSE width[x]
  <2>1. separator = TextWidth[SepText]
    BY Quiet, SepWidth DEF quiet
  <2> QED
    BY <2>1 DEF widths
<1>4. cur' = cur + widths(s)[i]
  BY <1>3 DEF place
<1>5. /\ at(s, i + 1) = at(s, i) + widths(s)[i] /\ widths(s)[i] \in Nat /\ at(s, i) \in Nat
  <2>1. i \in 1..(Len(s) + 1)
    BY <1>0
  <2> QED
    BY <1>0, <2>1, Places
<1>6. cur' = b + at(s, i') /\ cur' \in Int
  <2>1. cur' = b + at(s, i + 1)
    BY <1>4, <1>5
  <2> QED
    BY <1>4, <1>5, <1>0, <2>1
<1>7. beginX' = IF x = Sep THEN beginX ELSE [beginX EXCEPT ![x] = cur % Word]
  BY DEF place
<1>8. beginX \in [Elements -> 0..(Word - 1)] /\ cur % Word \in 0..(Word - 1)
  BY <1>0 DEF LTypes
<1>9. beginX' \in [Elements -> 0..(Word - 1)]
  BY <1>7, <1>8
<1>10. ASSUME NEW m \in 1..Len(s), m < i + 1, s[m] # Sep
       PROVE  beginX'[s[m]] = (b + at(s, m)) % Word
  <2>1. s[m] \in Elements
    BY <1>10, Sides
  <2>2. CASE m = i
    BY <1>1, <1>7, <1>8, <1>10, <2>2
  <2>3. CASE m # i
    <3>1. m < i
      BY <1>0, <1>10, <2>3
    <3>2. s[m] # x
      BY <1>10, <2>3, LayoutAssumption
    <3>3. beginX'[s[m]] = beginX[s[m]]
      BY <1>7, <1>8, <2>1, <3>2
    <3> QED
      BY <1>10, <3>1, <3>3 DEF placed
  <2> QED
    BY <2>2, <2>3
<1>11. placed(s, b, i)'
  BY <1>2, <1>10 DEF placed
<1>12. UNCHANGED table \/ \E ch \in Nat \ {0} : xftCharWidth(ch)
  BY SepChars DEF place
<1>13. ASSUME s = Right, placed(Left, 0, Len(Left) + 1)
       PROVE  placed(Left, 0, Len(Left) + 1)'
  <2> SUFFICES ASSUME NEW m \in 1..Len(Left), m < Len(Left) + 1, Left[m] # Sep
               PROVE  beginX'[Left[m]] = (0 + at(Left, m)) % Word
    BY <1>2 DEF placed
  <2>1. Left[m] \in Elements
    BY Sides
  <2>2. Left[m] # x
    BY <1>13, LayoutAssumption
  <2>3. beginX'[Left[m]] = beginX[Left[m]]
    BY <1>7, <1>8, <2>1, <2>2
  <2> QED
    BY <1>13, <2>3 DEF placed
<1> QED
  BY <1>6, <1>9, <1>11, <1>12, <1>13

(* A walk leaves the contents and their widths.                            *)
walk ==
  /\ quiet
  /\ content' = content /\ dirty' = dirty /\ width' = width
  /\ k' \in Nat \ {0} /\ cur' \in Int /\ beginX' \in [Elements -> 0..(Word - 1)]
  /\ UNCHANGED table \/ \E ch \in Nat \ {0} : xftCharWidth(ch)
  /\ pc' # "parse"

(* So everything about the measuring stays, and so do the places of the    *)
(* items.                                                                  *)
LEMMA WalkKeeps ==
  ASSUME LayoutInv, walk
  PROVE  /\ MonInv' /\ LTypes' /\ Measuring' /\ rightBegin' = rightBegin
         /\ \A t, n : at(t, n)' = at(t, n)
         /\ rightBegin \in Int
<1>1. quiet /\ content' = content /\ dirty' = dirty /\ width' = width /\ pc' # "parse"
  BY DEF walk
<1>2. MonInv' /\ cur_mon' = cur_mon /\ separator' = own(SepText[1]) + own(SepText[2])
  BY <1>1, Quiet
<1>3. separator' \in Nat
  BY <1>2, SepChars
<1>4. LTypes'
  <2>1. pc' \in {"idle", "parse", "left", "sum", "right"}
    BY <1>1 DEF quiet
  <2> QED
    BY <1>1, <1>3, <2>1 DEF LayoutInv, LTypes, walk
<1>5. WidthIsOwn'
  BY <1>1 DEF LayoutInv, Measuring, WidthIsOwn
<1>6. TableOK' /\ seated(SepText[1])' /\ seated(SepText[2])'
  BY QuietTable DEF walk
<1>7. Measuring'
  BY <1>1, <1>2, <1>5, <1>6 DEF Measuring, quiet, SetUp
<1>8. rightBegin' = rightBegin
  BY <1>1, <1>2 DEF rightBegin, Total
<1>9. \A t, n : at(t, n)' = at(t, n)
  BY <1>1 DEF at, widths
<1>10. rightBegin \in Int
  <2>1. Total(Right) \in Nat
    BY Places DEF LayoutInv
  <2>2. cur_mon.width \in 0..(Word - 1) /\ Word \in Nat
    BY <1>1, LayoutAssumption DEF LayoutInv, MonInv, Windows, quiet
  <2> QED
    BY <2>1, <2>2, SepChars DEF rightBegin
<1> QED
  BY <1>2, <1>4, <1>7, <1>8, <1>9, <1>10

(* The walk of the left side begins at 0.                                  *)
LEMMA RenderAllElements == LayoutInv /\ renderAllElements => LayoutInv'
<1> SUFFICES ASSUME LayoutInv, renderAllElements PROVE LayoutInv'
  OBVIOUS
<1>1. /\ pc = "parse" /\ pc' = "left" /\ i' = 1 /\ k' = 1 /\ cur' = 0
      /\ UNCHANGED monvars /\ content' = content /\ dirty' = dirty /\ width' = width
      /\ beginX' = beginX /\ separator' = separator /\ UNCHANGED table
  BY DEF renderAllElements, begin, layout
<1>2. walk
  BY <1>1 DEF walk, quiet, SetUp, LayoutInv, LTypes
<1>3. at(Left, 1) = 0 /\ Len(Left) \in Nat
  BY Places DEF LayoutInv
<1>4. at(Left, 1)' = 0
  BY <1>2, <1>3, WalkKeeps
<1>5. placed(Left, 0, 1)'
  BY Sides DEF placed
<1>6. Walking'
  BY <1>1, <1>3, <1>4, <1>5 DEF Walking, SetUp
<1> QED
  BY <1>2, <1>6, WalkKeeps DEF LayoutInv

(* The next item of the left side, or the sum of the right one.            *)
LEMMA RenderLeft == LayoutInv /\ renderLeft => LayoutInv'
<1> SUFFICES ASSUME LayoutInv, renderLeft PROVE LayoutInv'
  OBVIOUS
<1>1. /\ pc = "left" /\ UNCHANGED monvars /\ content' = content /\ dirty' = dirty
      /\ width' = width /\ separator' = separator
  BY DEF renderLeft
<1>2. /\ i \in Nat \ {0} /\ k \in Nat \ {0} /\ Len(Left) \in Nat /\ i <= Len(Left) + 1
      /\ cur = at(Left, i) /\ placed(Left, 0, i) /\ cur \in Int
  BY <1>1, Sides DEF LayoutInv, MonInv, MonTypes, LTypes, Walking
<1>3. CASE i <= Len(Left)
  <2>1. place(Left[i]) /\ i' = i + 1 /\ pc' = pc /\ k' = k
    BY <1>3 DEF renderLeft
  <2>2. quiet
    BY <1>1, <1>2, <2>1 DEF quiet, SetUp
  <2>3. i \in 1..Len(Left) /\ cur = 0 + at(Left, i)
    BY <1>2, <1>3
  <2>4. /\ cur' = 0 + at(Left, i') /\ cur' \in Int
        /\ placed(Left, 0, i)'
        /\ beginX' \in [Elements -> 0..(Word - 1)]
        /\ UNCHANGED table \/ \E ch \in Nat \ {0} : xftCharWidth(ch)
    BY <1>1, <1>2, <2>1, <2>2, <2>3, PlaceItem
  <2>5. walk
    BY <1>1, <1>2, <2>1, <2>2, <2>4 DEF walk
  <2>6. i' \in 1..(Len(Left) + 1) /\ at(Left, i') \in Nat
    <3>1. i + 1 \in 1..(Len(Left) + 1)
      BY <2>3, <1>2
    <3>2. at(Left, i + 1) \in Nat
      BY <3>1, Places DEF LayoutInv
    <3> QED
      BY <2>1, <3>1, <3>2
  <2>7. cur' = at(Left, i)'
    <3>1. PICK n : n = i'
      OBVIOUS
    <3>2. at(Left, n)' = at(Left, n)
      BY <2>5, WalkKeeps
    <3> QED
      BY <2>4, <2>6, <3>1, <3>2
  <2>8. Walking'
    BY <1>1, <1>2, <2>1, <2>4, <2>6, <2>7 DEF Walking, SetUp
  <2> QED
    BY <2>5, <2>8, WalkKeeps DEF LayoutInv
<1>4. CASE ~(i <= Len(Left))
  <2>1. /\ pc' = "sum" /\ i' = 1 /\ k' = 1 /\ cur' = 0 /\ beginX' = beginX
        /\ UNCHANGED table
    BY <1>4 DEF renderLeft, begin
  <2>2. walk
    BY <1>1, <2>1 DEF walk, quiet, SetUp, LayoutInv, LTypes
  <2>3. placed(Left, 0, Len(Left) + 1)
    <3>1. i = Len(Left) + 1
      BY <1>2, <1>4
    <3> QED
      BY <1>2, <3>1
  <2>4. placed(Left, 0, Len(Left) + 1)'
    BY <2>1, <2>2, <2>3, WalkKeeps DEF placed
  <2>5. at(Right, 1)' = 0 /\ Len(Right) \in Nat
    BY <2>2, WalkKeeps, Places DEF LayoutInv
  <2>6. Walking'
    BY <2>1, <2>4, <2>5 DEF Walking, SetUp
  <2> QED
    BY <2>2, <2>6, WalkKeeps DEF LayoutInv
<1> QED
  BY <1>3, <1>4

(* The next width of the right side, or where it begins: the characters of *)
(* the separator, measured again, are found in the table.                  *)
LEMMA SumRight == LayoutInv /\ sumRight => LayoutInv'
<1> SUFFICES ASSUME LayoutInv, sumRight PROVE LayoutInv'
  OBVIOUS
<1>1. /\ pc = "sum" /\ UNCHANGED monvars /\ content' = content /\ dirty' = dirty
      /\ width' = width /\ beginX' = beginX /\ separator' = separator /\ UNCHANGED table
  BY DEF sumRight, layout
<1>2. /\ i \in Nat \ {0} /\ k \in Nat \ {0} /\ Len(Right) \in Nat /\ i <= Len(Right) + 1
      /\ cur = at(Right, i) /\ placed(Left, 0, Len(Left) + 1) /\ cur \in Int
      /\ beginX \in [Elements -> 0..(Word - 1)]
  BY <1>1, Sides DEF LayoutInv, MonInv, MonTypes, LTypes, Walking
<1>3. getUtf8CharWidth(SepText[1]) = own(SepText[1]) /\ separator_width = TextWidth[SepText]
  <2>1. TableOK /\ seated(SepText[1]) /\ seated(SepText[2])
    BY <1>1 DEF LayoutInv, Measuring, SetUp
  <2>2. /\ getUtf8CharWidth(SepText[1]) = own(SepText[1])
        /\ getUtf8CharWidth(SepText[2]) = own(SepText[2])
    BY <2>1, SepChars, SeatedWidth
  <2> QED
    BY <2>2, SepWidth DEF separator_width
<1>4. CASE i <= Len(Right)
  <2>1. cur' = cur + counted(Right[i]) /\ i' = i + 1 /\ pc' = pc /\ k' = k
    BY <1>4 DEF sumRight
  <2>2. i \in 1..Len(Right) /\ i + 1 \in 1..(Len(Right) + 1)
    BY <1>2, <1>4
  <2>3. counted(Right[i]) = widths(Right)[i]
    BY <1>3, <2>2 DEF counted, widths
  <2>4. at(Right, i + 1) = at(Right, i) + widths(Right)[i] /\ at(Right, i + 1) \in Nat
    BY <2>2, Places DEF LayoutInv
  <2>5. cur' = at(Right, i + 1) /\ cur' \in Int
    BY <1>2, <2>1, <2>3, <2>4
  <2>6. walk
    BY <1>1, <1>2, <2>1, <2>5 DEF walk, quiet, SetUp
  <2>7. cur' = at(Right, i)'
    <3>1. PICK n : n = i'
      OBVIOUS
    <3>2. at(Right, n)' = at(Right, n)
      BY <2>6, WalkKeeps
    <3> QED
      BY <2>1, <2>5, <3>1, <3>2
  <2>8. placed(Left, 0, Len(Left) + 1)'
    BY <1>1, <1>2, <2>6, WalkKeeps DEF placed
  <2>9. Walking'
    BY <1>1, <2>1, <2>2, <2>7, <2>8 DEF Walking, SetUp
  <2> QED
    BY <2>6, <2>9, WalkKeeps DEF LayoutInv
<1>5. CASE ~(i <= Len(Right))
  <2>1. /\ cur' = cur_mon.width - RIGHT_MARGIN - cur
        /\ pc' = "right" /\ i' = 1 /\ k' = 1
    BY <1>5 DEF sumRight, begin
  <2>2. cur = Total(Right) /\ at(Right, 1) = 0
    <3>1. i = Len(Right) + 1
      BY <1>2, <1>5
    <3> QED
      BY <1>2, <3>1, Places DEF LayoutInv
  <2>3. cur' = rightBegin
    BY <1>3, <2>1, <2>2 DEF RIGHT_MARGIN, rightBegin
  <2>4. cur_mon.width \in Nat
    <3>1. cur_mon.width \in 0..(Word - 1)
      BY <1>1 DEF LayoutInv, MonInv, Windows, SetUp
    <3> QED
      BY <3>1
  <2>5. cur' \in Int
    BY <1>2, <1>3, <2>1, <2>4, SepChars DEF RIGHT_MARGIN
  <2>6. walk
    BY <1>1, <1>2, <2>1, <2>5 DEF walk, quiet, SetUp
  <2>7. rightBegin' = rightBegin /\ at(Right, 1)' = 0
    BY <2>2, <2>6, WalkKeeps
  <2>8. cur' = rightBegin' + at(Right, i)'
    <3>1. at(Right, i)' = 0
      BY <2>1, <2>7
    <3> QED
      BY <2>3, <2>5, <2>7, <3>1
  <2>9. placed(Left, 0, Len(Left) + 1)'
    BY <1>1, <1>2, <2>6, WalkKeeps DEF placed
  <2>10. placed(Right, rightBegin, i)'
    BY <1>2, <2>1 DEF placed
  <2>11. Walking'
    BY <1>2, <2>1, <2>8, <2>9, <2>10 DEF Walking, SetUp
  <2> QED
    BY <2>6, <2>11, WalkKeeps DEF LayoutInv
<1> QED
  BY <1>4, <1>5

(* The next item of the right side, or the end of the drawing.             *)
LEMMA RenderRight == LayoutInv /\ renderRight => LayoutInv'
<1> SUFFICES ASSUME LayoutInv, renderRight PROVE LayoutInv'
  OBVIOUS
<1>1. /\ pc = "right" /\ UNCHANGED monvars /\ content' = content /\ dirty' = dirty
      /\ width' = width /\ separator' = separator
  BY DEF renderRight
<1>2. /\ i \in Nat \ {0} /\ k \in Nat \ {0} /\ Len(Right) \in Nat /\ i <= Len(Right) + 1
      /\ cur = rightBegin + at(Right, i) /\ placed(Left, 0, Len(Left) + 1)
      /\ placed(Right, rightBegin, i) /\ cur \in Int
  BY <1>1, Sides DEF LayoutInv, MonInv, MonTypes, LTypes, Walking
<1>3. CASE i <= Len(Right)
  <2>1. place(Right[i]) /\ i' = i + 1 /\ pc' = pc /\ k' = k
    BY <1>3 DEF renderRight
  <2>2. quiet
    BY <1>1, <1>2, <2>1 DEF quiet, SetUp
  <2>3. i \in 1..Len(Right) /\ i + 1 \in 1..(Len(Right) + 1)
    BY <1>2, <1>3
  <2>4. rightBegin \in Int
    <3>1. Total(Right) \in Nat
      BY Places DEF LayoutInv
    <3>2. cur_mon.width \in 0..(Word - 1)
      BY <1>1 DEF LayoutInv, MonInv, Windows, SetUp
    <3> QED
      BY <3>1, <3>2, SepChars DEF rightBegin
  <2>5. PICK b \in Int : b = rightBegin
    BY <2>4
  <2>6. cur = b + at(Right, i) /\ placed(Right, b, i)
    BY <1>2, <2>5
  <2>7. /\ cur' = b + at(Right, i') /\ cur' \in Int
        /\ placed(Right, b, i)'
        /\ beginX' \in [Elements -> 0..(Word - 1)]
        /\ UNCHANGED table \/ \E ch \in Nat \ {0} : xftCharWidth(ch)
        /\ placed(Left, 0, Len(Left) + 1)'
    BY <1>1, <1>2, <2>1, <2>2, <2>3, <2>6, PlaceItem
  <2>8. walk
    BY <1>1, <1>2, <2>1, <2>2, <2>7 DEF walk
  <2>9. rightBegin' = b
    BY <2>5, <2>8, WalkKeeps
  <2>10. cur' = rightBegin' + at(Right, i)'
    <3>1. PICK n : n = i'
      OBVIOUS
    <3>2. at(Right, n)' = at(Right, n)
      BY <2>8, WalkKeeps
    <3> QED
      BY <2>7, <2>9, <3>1, <3>2
  <2>11. placed(Right, rightBegin, i)'
    BY <2>7, <2>9 DEF placed
  <2>12. Walking'
    BY <1>1, <2>1, <2>3, <2>7, <2>10, <2>11 DEF Walking, SetUp
  <2> QED
    BY <2>8, <2>12, WalkKeeps DEF LayoutInv
<1>4. CASE ~(i <= Len(Right))
  <2>1. /\ pc' = "idle" /\ i' = 1 /\ k' = 1 /\ cur' = 0 /\ beginX' = beginX
        /\ UNCHANGED table
    BY <1>4 DEF renderRight, begin
  <2>2. walk
    BY <1>1, <2>1 DEF walk, quiet, SetUp, LayoutInv, LTypes
  <2>3. placed(Right, rightBegin, Len(Right) + 1)
    <3>1. i = Len(Right) + 1
      BY <1>2, <1>4
    <3> QED
      BY <1>2, <3>1
  <2>4. placed(Left, 0, Len(Left) + 1)'
    BY <1>2, <2>1, <2>2, WalkKeeps DEF placed
  <2>5. placed(Right, rightBegin, Len(Right) + 1)'
    BY <2>1, <2>2, <2>3, WalkKeeps DEF placed
  <2>6. Walking'
    BY <2>1, <2>4, <2>5 DEF Walking, SetUp, allPlaced
  <2> QED
    BY <2>2, <2>6, WalkKeeps DEF LayoutInv
<1> QED
  BY <1>3, <1>4

(* Nothing changes.                                                        *)
LEMMA LayoutStutter == LayoutInv /\ UNCHANGED vars => LayoutInv'
<1> SUFFICES ASSUME LayoutInv, UNCHANGED vars PROVE LayoutInv'
  OBVIOUS
<1>1. /\ crtc' = crtc /\ rects' = rects /\ valid' = valid /\ mons' = mons /\ torn' = torn
      /\ content' = content /\ dirty' = dirty /\ width' = width /\ beginX' = beginX
      /\ separator' = separator /\ xftChar' = xftChar /\ xftWidth' = xftWidth
      /\ pc' = pc /\ i' = i /\ k' = k /\ cur' = cur
  BY DEF vars, monvars, layout, table
<1>2. answered' = answered /\ cur_mon' = cur_mon /\ ready' = ready
  BY <1>1 DEF answered, cur_mon, ready
<1>3. MonInv'
  <2>1. MonTypes' /\ Asked'
    BY <1>1, <1>2 DEF LayoutInv, MonInv, MonTypes, Asked
  <2>2. Windows'
    BY <1>1, <1>2 DEF LayoutInv, MonInv, Windows, MonitorsPlaced, HeadLeftmost
  <2> QED
    BY <2>1, <2>2 DEF MonInv
<1>4. LTypes'
  BY <1>1 DEF LayoutInv, LTypes
<1>5. Measuring'
  BY <1>1 DEF LayoutInv, Measuring, TableOK, seated, WidthIsOwn
<1>6. Walking'
  <2>1. /\ rightBegin' = rightBegin /\ \A t, n : at(t, n)' = at(t, n)
        /\ allPlaced' = allPlaced
        /\ placed(Left, 0, Len(Left) + 1)' = placed(Left, 0, Len(Left) + 1)
        /\ placed(Left, 0, i)' = placed(Left, 0, i)
        /\ placed(Right, rightBegin, i)' = placed(Right, rightBegin, i)
    BY <1>1, <1>2 DEF rightBegin, Total, at, widths, allPlaced, placed
  <2>2. at(Left, i)' = at(Left, i) /\ at(Right, i)' = at(Right, i)
    BY <1>1 DEF at, widths
  <2> QED
    BY <1>1, <2>1, <2>2 DEF LayoutInv, Walking
<1> QED
  BY <1>3, <1>4, <1>5, <1>6 DEF LayoutInv

(* Every step keeps the invariant: one case for each action.               *)
LEMMA LayoutStep == LayoutInv /\ [Next]_vars => LayoutInv'
<1> SUFFICES ASSUME LayoutInv, [Next]_vars PROVE LayoutInv'
  OBVIOUS
<1>1. CASE init
  BY <1>1, InitStep
<1>2. CASE Exit
  BY <1>2, LayoutStutter DEF Exit
<1>3. CASE initSeparator
  BY <1>3, InitSeparator
<1>4. ASSUME NEW e \in Elements, Update(e) PROVE LayoutInv'
  BY <1>4, UpdateStep
<1>5. CASE parseModules
  BY <1>5, ParseModules
<1>6. CASE parseElementContent
  BY <1>6, ParseElementContent
<1>7. CASE renderAllElements
  BY <1>7, RenderAllElements
<1>8. CASE renderLeft
  BY <1>8, RenderLeft
<1>9. CASE sumRight
  BY <1>9, SumRight
<1>10. CASE renderRight
  BY <1>10, RenderRight
<1>11. ASSUME NEW x \in 0..(cur_mon.width - 1), BUTTON_PRESS(x) PROVE LayoutInv'
  <2>1. CASE found(x) = {}
    BY <1>11, <2>1, LayoutStutter DEF BUTTON_PRESS
  <2>2. CASE found(x) # {}
    BY <1>11, <2>2, ButtonPress
  <2> QED
    BY <2>1, <2>2
<1>12. CASE UNCHANGED vars
  BY <1>12, LayoutStutter
<1> QED
  BY <1>1, <1>2, <1>3, <1>4, <1>5, <1>6, <1>7, <1>8, <1>9, <1>10, <1>11, <1>12 DEF Next

-----------------------------------------------------------------------------
(* The theorems.                                                           *)

(* Where an element is when both sides have room: no position wraps.       *)
LEMMA InRoom ==
  ASSUME LayoutInv, pc = "idle", Fits, allPlaced
  PROVE  /\ rightBegin \in Nat /\ Total(Left) \in Nat /\ Total(Left) <= rightBegin
         /\ rightBegin + Total(Right) = cur_mon.width - own(SepText[1])
         /\ \A m \in 1..Len(Left) : Left[m] # Sep =>
              beginX[Left[m]] = at(Left, m) /\ width[Left[m]] = widths(Left)[m]
         /\ \A m \in 1..Len(Right) : Right[m] # Sep =>
              /\ beginX[Right[m]] = rightBegin + at(Right, m)
              /\ width[Right[m]] = widths(Right)[m]
<1>1. /\ Total(Left) \in Nat /\ Total(Right) \in Nat
      /\ Len(Left) \in Nat /\ Len(Right) \in Nat
      /\ \A m \in 1..Len(Left) : at(Left, m) \in Nat /\ at(Left, m) <= Total(Left)
      /\ \A m \in 1..Len(Right) : at(Right, m) \in Nat /\ at(Right, m) <= Total(Right)
  <2>1. LTypes /\ \A s \in {Left, Right} : Len(s) \in Nat
    BY Sides DEF LayoutInv
  <2>2. ASSUME NEW s \in {Left, Right}, NEW m \in 1..Len(s)
        PROVE  at(s, m) \in Nat /\ at(s, m) <= Total(s)
    <3>1. m \in 1..(Len(s) + 1)
      BY <2>1
    <3> QED
      BY <2>1, <3>1, Places
  <2> QED
    BY <2>1, <2>2, Places
<1>2. cur_mon.width \in Nat /\ cur_mon.width < Word /\ Word \in Nat \ {0}
      /\ own(SepText[1]) \in Nat
  <2>1. cur_mon.width \in 0..(Word - 1)
    BY DEF LayoutInv, MonInv, Windows, SetUp
  <2> QED
    BY <2>1, LayoutAssumption, SepChars
<1>3. Total(Left) + Total(Right) + own(SepText[1]) <= cur_mon.width
  BY DEF Fits
<1>4. /\ rightBegin \in Nat /\ Total(Left) <= rightBegin
      /\ rightBegin + Total(Right) = cur_mon.width - own(SepText[1])
      /\ rightBegin + Total(Right) < Word /\ Total(Left) < Word
  BY <1>1, <1>2, <1>3 DEF rightBegin
<1>5. ASSUME NEW m \in 1..Len(Left), Left[m] # Sep
      PROVE  beginX[Left[m]] = at(Left, m) /\ width[Left[m]] = widths(Left)[m]
  <2>1. m < Len(Left) + 1
    BY <1>1
  <2>2. beginX[Left[m]] = (0 + at(Left, m)) % Word
    BY <1>5, <2>1 DEF allPlaced, placed
  <2>3. at(Left, m) \in Nat /\ at(Left, m) < Word
    BY <1>1, <1>2, <1>4
  <2>4. (0 + at(Left, m)) % Word = at(Left, m)
    BY <1>2, <2>3
  <2> QED
    BY <1>5, <2>2, <2>4 DEF widths
<1>6. ASSUME NEW m \in 1..Len(Right), Right[m] # Sep
      PROVE  /\ beginX[Right[m]] = rightBegin + at(Right, m)
             /\ width[Right[m]] = widths(Right)[m]
  <2>1. m < Len(Right) + 1
    BY <1>1
  <2>2. beginX[Right[m]] = (rightBegin + at(Right, m)) % Word
    BY <1>6, <2>1 DEF allPlaced, placed
  <2>3. rightBegin + at(Right, m) \in Nat /\ rightBegin + at(Right, m) < Word
    BY <1>1, <1>2, <1>4
  <2>4. (rightBegin + at(Right, m)) % Word = rightBegin + at(Right, m)
    BY <1>2, <2>3
  <2> QED
    BY <1>6, <2>2, <2>4 DEF widths
<1> QED
  BY <1>1, <1>4, <1>5, <1>6

(* So the areas are on the monitor and apart.                              *)
LEMMA AreasApart == LayoutInv => AreasDisjoint
<1> SUFFICES ASSUME LayoutInv, pc = "idle", Fits,
                    NEW e \in Elements, NEW f \in Elements
             PROVE  /\ beginX[e] + width[e] <= cur_mon.width - own(SepText[1]) \/ width[e] = 0
                    /\ e # f => \/ width[e] = 0 \/ width[f] = 0
                                \/ beginX[e] + width[e] <= beginX[f]
                                \/ beginX[f] + width[f] <= beginX[e]
  BY DEF AreasDisjoint
<1>1. SUFFICES ASSUME allPlaced
               PROVE  /\ beginX[e] + width[e] <= cur_mon.width - own(SepText[1])
                      /\ e # f => \/ beginX[e] + width[e] <= beginX[f]
                                  \/ beginX[f] + width[f] <= beginX[e]
  <2>1. allPlaced \/ \A g \in Elements : width[g] = 0
    BY DEF LayoutInv, Walking
  <2> QED
    BY <2>1
<1> DEFINE L == {Left[m] : m \in 1..Len(Left)} \ {Sep}
           R == {Right[m] : m \in 1..Len(Right)} \ {Sep}
           margin == cur_mon.width - own(SepText[1])
<1>2. LTypes /\ (\A g \in Elements : g \in L \/ g \in R)
  BY DEF LayoutInv, Elements
<1>3. /\ rightBegin \in Nat /\ Total(Left) \in Nat /\ Total(Left) <= rightBegin
      /\ rightBegin + Total(Right) = margin /\ Total(Right) \in Nat
      /\ Len(Left) \in Nat /\ Len(Right) \in Nat
  BY <1>1, <1>2, InRoom, Places
<1>4. ASSUME NEW g \in L
      PROVE  \E m \in 1..Len(Left) :
               /\ g = Left[m] /\ beginX[g] = at(Left, m)
               /\ beginX[g] + width[g] = at(Left, m) + widths(Left)[m]
               /\ beginX[g] + width[g] <= Total(Left)
  <2>1. PICK m \in 1..Len(Left) : g = Left[m] /\ Left[m] # Sep
    OBVIOUS
  <2>2. beginX[g] = at(Left, m) /\ width[g] = widths(Left)[m]
    BY <1>1, <2>1, InRoom
  <2>3. m + 1 \in 1..(Len(Left) + 1)
    BY <1>3
  <2>4. at(Left, m) + widths(Left)[m] <= Total(Left)
    BY <1>2, <2>3, Places
  <2> QED
    BY <2>1, <2>2, <2>4
<1>5. ASSUME NEW g \in R
      PROVE  \E m \in 1..Len(Right) :
               /\ g = Right[m] /\ beginX[g] = rightBegin + at(Right, m)
               /\ beginX[g] + width[g] = rightBegin + (at(Right, m) + widths(Right)[m])
               /\ beginX[g] + width[g] <= margin /\ rightBegin <= beginX[g]
  <2>1. PICK m \in 1..Len(Right) : g = Right[m] /\ Right[m] # Sep
    OBVIOUS
  <2>2. beginX[g] = rightBegin + at(Right, m) /\ width[g] = widths(Right)[m]
    BY <1>1, <2>1, InRoom
  <2>3. m + 1 \in 1..(Len(Right) + 1) /\ m \in 1..(Len(Right) + 1)
    BY <1>3
  <2>4. /\ at(Right, m) + widths(Right)[m] <= Total(Right)
        /\ at(Right, m) \in Nat /\ widths(Right)[m] \in Nat
    BY <1>2, <2>3, Places
  <2>5. /\ beginX[g] + width[g] = rightBegin + (at(Right, m) + widths(Right)[m])
        /\ beginX[g] + width[g] <= margin /\ rightBegin <= beginX[g]
    BY <1>3, <2>2, <2>4
  <2> QED
    BY <2>1, <2>2, <2>5
<1>6. \A g \in Elements : beginX[g] \in Nat /\ width[g] \in Nat
  <2>1. Word \in Nat
    BY LayoutAssumption
  <2> QED
    BY <1>2, <2>1 DEF LTypes
<1>7. cur_mon.width \in Nat /\ own(SepText[1]) \in Nat
  <2>1. cur_mon.width \in 0..(Word - 1)
    BY DEF LayoutInv, MonInv, Windows, SetUp
  <2> QED
    BY <2>1, SepChars
<1>8. margin \in Int /\ Total(Left) <= margin
  BY <1>3, <1>7
<1> HIDE DEF L, R, margin
<1>9. beginX[e] + width[e] <= margin
  <2>1. CASE e \in L
    BY <1>3, <1>4, <1>6, <1>8, <2>1
  <2>2. CASE e \in R
    BY <1>5, <2>2
  <2> QED
    BY <1>2, <2>1, <2>2
<1>10. ASSUME e # f
       PROVE  \/ beginX[e] + width[e] <= beginX[f]
              \/ beginX[f] + width[f] <= beginX[e]
  <2>1. CASE e \in L /\ f \in L
    <3>1. PICK m \in 1..Len(Left) :
               /\ e = Left[m] /\ beginX[e] = at(Left, m)
               /\ beginX[e] + width[e] = at(Left, m) + widths(Left)[m]
      BY <1>4, <2>1
    <3>2. PICK n \in 1..Len(Left) :
               /\ f = Left[n] /\ beginX[f] = at(Left, n)
               /\ beginX[f] + width[f] = at(Left, n) + widths(Left)[n]
      BY <1>4, <2>1
    <3>3. m < n \/ n < m
      BY <1>3, <1>10, <3>1, <3>2
    <3>4. /\ m < n => at(Left, m) + widths(Left)[m] <= at(Left, n)
          /\ n < m => at(Left, n) + widths(Left)[n] <= at(Left, m)
      BY <1>2, Places
    <3> QED
      BY <3>1, <3>2, <3>3, <3>4
  <2>2. CASE e \in R /\ f \in R
    <3>1. PICK m \in 1..Len(Right) :
               /\ e = Right[m] /\ beginX[e] = rightBegin + at(Right, m)
               /\ beginX[e] + width[e] = rightBegin + (at(Right, m) + widths(Right)[m])
      BY <1>5, <2>2
    <3>2. PICK n \in 1..Len(Right) :
               /\ f = Right[n] /\ beginX[f] = rightBegin + at(Right, n)
               /\ beginX[f] + width[f] = rightBegin + (at(Right, n) + widths(Right)[n])
      BY <1>5, <2>2
    <3>3. m < n \/ n < m
      BY <1>3, <1>10, <3>1, <3>2
    <3>4. /\ m < n => at(Right, m) + widths(Right)[m] <= at(Right, n)
          /\ n < m => at(Right, n) + widths(Right)[n] <= at(Right, m)
      BY <1>2, Places
    <3>5. /\ m \in 1..(Len(Right) + 1) /\ n \in 1..(Len(Right) + 1)
      BY <1>3
    <3>6. /\ at(Right, m) \in Nat /\ at(Right, n) \in Nat
          /\ widths(Right)[m] \in Nat /\ widths(Right)[n] \in Nat
      BY <1>2, <3>5, Places
    <3>7. CASE m < n
      <4>1. at(Right, m) + widths(Right)[m] <= at(Right, n)
        BY <3>4, <3>7
      <4>2. rightBegin + (at(Right, m) + widths(Right)[m]) <= rightBegin + at(Right, n)
        BY <1>3, <3>6, <4>1
      <4> QED
        BY <3>1, <3>2, <4>2
    <3>8. CASE n < m
      <4>1. at(Right, n) + widths(Right)[n] <= at(Right, m)
        BY <3>4, <3>8
      <4>2. rightBegin + (at(Right, n) + widths(Right)[n]) <= rightBegin + at(Right, m)
        BY <1>3, <3>6, <4>1
      <4> QED
        BY <3>1, <3>2, <4>2
    <3> QED
      BY <3>3, <3>7, <3>8
  <2>3. CASE e \in L /\ f \in R
    <3>1. beginX[e] + width[e] <= Total(Left) /\ rightBegin <= beginX[f]
      BY <1>4, <1>5, <2>3
    <3> QED
      BY <1>3, <1>6, <3>1
  <2>4. CASE e \in R /\ f \in L
    <3>1. beginX[f] + width[f] <= Total(Left) /\ rightBegin <= beginX[e]
      BY <1>4, <1>5, <2>4
    <3> QED
      BY <1>3, <1>6, <3>1
  <2> QED
    BY <1>2, <2>1, <2>2, <2>3, <2>4
<1> QED
  BY <1>9, <1>10 DEF margin

(* The walk of the right side has gone as far as its total width.          *)
LEMMA EndsAtMargin == LayoutInv => RightEndsAtMargin
<1> SUFFICES ASSUME LayoutInv, pc = "right", i > Len(Right)
             PROVE  cur = cur_mon.width - own(SepText[1])
  BY DEF RightEndsAtMargin
<1>1. /\ i \in Nat /\ Len(Right) \in Nat /\ i <= Len(Right) + 1
      /\ cur = rightBegin + at(Right, i)
  BY Sides DEF LayoutInv, MonInv, MonTypes, Walking
<1>2. i = Len(Right) + 1
  BY <1>1
<1>3. at(Right, i) = Total(Right) /\ Total(Right) \in Nat
  BY <1>2, Places DEF LayoutInv
<1>4. cur_mon.width \in Nat
  <2>1. cur_mon.width \in 0..(Word - 1)
    BY DEF LayoutInv, MonInv, Windows, SetUp
  <2> QED
    BY <2>1
<1> QED
  BY <1>1, <1>3, <1>4, SepChars DEF rightBegin

(* The invariant holds for ever.                                           *)
LEMMA LayoutInvHolds == Spec => []LayoutInv
BY LayoutInit, LayoutStep, PTL DEF Spec

(* Whatever was measured before, and whichever characters share a slot of  *)
(* the table, a measured element has the width of its own characters       *)
(* (bar.h 387-415, 646-677).                                               *)
THEOREM LayoutWidthIsOwn == Spec => []WidthIsOwn
<1>1. LayoutInv => WidthIsOwn
  BY DEF LayoutInv, Measuring
<1> QED
  BY <1>1, LayoutInvHolds, PTL

(* With room for both sides no pixel belongs to two elements and every     *)
(* area is on the monitor, for any number of items on the sides (bar.h     *)
(* 836-953).                                                               *)
THEOREM LayoutAreasDisjoint == Spec => []AreasDisjoint
BY AreasApart, LayoutInvHolds, PTL

(* The right side ends at the margin, with room or without (bar.h          *)
(* 836-953).                                                               *)
THEOREM LayoutRightEndsAtMargin == Spec => []RightEndsAtMargin
BY EndsAtMargin, LayoutInvHolds, PTL

-----------------------------------------------------------------------------
(* What is on the window.                                                  *)

(* The pixels of the elements among the first n - 1 items of a side that   *)
(* begins at b show these elements.                                        *)
onWindow(s, b, n) ==
  \A m \in 1..Len(s) : m < n /\ s[m] # Sep =>
    \A p \in Pixels : p >= b + at(s, m) /\ p < b + at(s, m) + widths(s)[m] =>
      painted[p] = s[m]

(* All elements have been measured when a walk draws them.                 *)
Parsed ==
  /\ pc = "parse" => \A n \in 1..Len(order) : n < i => order[n] \notin dirty
  /\ pc \in {"left", "sum", "right"} => dirty = {}

(* With room for both sides, what a walk has drawn stays on the window.    *)
Painted ==
  Fits => /\ pc = "left" => onWindow(Left, 0, i)
          /\ pc \in {"sum", "right", "idle"} => onWindow(Left, 0, Len(Left) + 1)
          /\ pc = "right" => onWindow(Right, rightBegin, i)
          /\ pc = "idle" => onWindow(Right, rightBegin, Len(Right) + 1)

DrawnInv == LayoutInv /\ Parsed /\ Painted

(* A text covers the pixels from its begin for as wide as it is, and more  *)
(* only on the right.                                                      *)
LEMMA CoversText ==
  ASSUME NEW text \in Contents \cup {SepText}, NEW b \in Nat, NEW p \in Nat
  PROVE  /\ covers(text, b, p) => p >= b
         /\ p >= b /\ p < b + TextWidth[text] => covers(text, b, p)
<1>1. /\ Len(text) \in Nat /\ TextWidth[text] = firsts(text, Len(text))
      /\ firsts(text, 0) = 0
      /\ \A n \in 1..Len(text) :
           /\ firsts(text, n - 1) \in Nat
           /\ firsts(text, n) = firsts(text, n - 1) + own(text[n])
  BY TextSum
<1>2. covers(text, b, p) => p >= b
  BY <1>1 DEF covers
<1>3. ASSUME p >= b, p < b + TextWidth[text] PROVE covers(text, b, p)
  <2> DEFINE T == {m \in 0..Len(text) : p < b + firsts(text, m)}
  <2>1. T \subseteq Nat /\ T # {}
    <3>1. Len(text) \in T
      BY <1>1, <1>3
    <3> QED
      BY <3>1
  <2>2. PICK n \in T : \A m \in T : n <= m
    <3> HIDE DEF T
    <3> QED
      BY <2>1, LeastExists
  <2>3. n \in 0..Len(text) /\ p < b + firsts(text, n)
    BY <2>2
  <2>4. n # 0
    BY <1>1, <1>3, <2>3
  <2>5. n \in 1..Len(text) /\ n - 1 \in 0..Len(text) /\ ~(n <= n - 1)
    BY <2>3, <2>4
  <2>6. ~(p < b + firsts(text, n - 1))
    BY <2>2, <2>5
  <2>7. firsts(text, n - 1) \in Nat /\ firsts(text, n) = firsts(text, n - 1) + own(text[n])
    BY <1>1, <2>5
  <2>8. /\ own(text[n]) \in Nat /\ filled(text[n]) \in Nat
        /\ own(text[n]) <= filled(text[n])
    <3>1. own(text[n]) \in Nat /\ own(Question) \in Nat
      BY FontHas
    <3>2. selectDrawableFont(text[n]) = 0 => own(text[n]) = 0
      BY DEF own
    <3> QED
      BY <3>1, <3>2 DEF filled
  <2>9. p >= b + firsts(text, n - 1) /\ p < b + firsts(text, n - 1) + filled(text[n])
    BY <2>3, <2>6, <2>7, <2>8
  <2> QED
    BY <2>5, <2>9 DEF covers
<1> QED
  BY <1>2, <1>3

(* The drawing of an item covers the element's area, and nothing left of   *)
(* its begin: the items before it and the other side stay.                 *)
LEMMA DrawItem ==
  ASSUME LayoutInv, dirty = {}, width' = width,
         NEW s \in {Left, Right}, NEW b \in Nat, b + Total(s) < Word, i \in 1..Len(s),
         cur = b + at(s, i), place(s[i]), i' = i + 1, onWindow(s, b, i)
  PROVE  /\ onWindow(s, b, i)'
         /\ \A p \in Pixels : p < b => painted'[p] = painted[p]
<1> DEFINE x == s[i]
           text == IF x = Sep THEN SepText ELSE content[x]
<1>1. LTypes /\ Len(s) \in Nat /\ Word \in Nat \ {0} /\ Total(s) \in Nat
  BY Places, LayoutAssumption DEF LayoutInv
<1>2. i \in 1..(Len(s) + 1)
  BY <1>1
<1>3. at(s, i) \in Nat /\ at(s, i) <= Total(s) /\ widths(s)[i] \in Nat
  BY <1>1, <1>2, Places
<1>4. cur \in Nat /\ cur < Word /\ cur >= b
  BY <1>1, <1>3
<1>5. cur % Word = cur
  BY <1>1, <1>4
<1>6. painted' = [p \in Pixels |-> IF covers(text, cur, p) THEN x ELSE painted[p]]
  BY <1>5 DEF place, draw
<1>7. x # Sep => x \in Elements
  BY Sides
<1>8. text \in Contents \cup {SepText}
  BY <1>1, <1>7 DEF LTypes
<1>9. Pixels \subseteq Nat
  BY <1>1 DEF Pixels
<1>10. ASSUME NEW p \in Pixels, p < cur PROVE painted'[p] = painted[p]
  <2>1. p \in Nat /\ ~(p >= cur)
    BY <1>4, <1>9, <1>10
  <2>2. ~covers(text, cur, p)
    <3> HIDE DEF text
    <3> QED
      BY <1>4, <1>8, <2>1, CoversText
  <2> QED
    BY <1>6, <2>2
<1>11. \A t, n : at(t, n)' = at(t, n)
  BY DEF at, widths
<1>12. widths(s)' = widths(s)
  BY DEF widths
<1>13. ASSUME NEW m \in 1..Len(s), m < i + 1, s[m] # Sep, NEW p \in Pixels,
              p >= b + at(s, m), p < b + at(s, m) + widths(s)[m]
       PROVE  painted'[p] = s[m]
  <2>1. CASE m = i
    <3>1. x \in Elements /\ text = content[x] /\ widths(s)[i] = width[x]
      BY <1>7, <1>13, <2>1 DEF widths
    <3>2. width[x] = TextWidth[text] % Word
      BY <3>1 DEF LayoutInv, Measuring, WidthIsOwn
    <3>3. TextWidth[text] \in Nat
      <4> HIDE DEF text
      <4> QED
        BY <1>8, TextSum
    <3>4. width[x] <= TextWidth[text] /\ width[x] \in Nat
      <4>1. PICK w \in Nat : w = TextWidth[text]
        BY <3>3
      <4>2. w % Word <= w /\ w % Word \in Nat
        BY <1>1
      <4> QED
        BY <3>2, <4>1, <4>2
    <3>5. p \in Nat /\ p >= cur /\ p < cur + TextWidth[text]
      <4>1. p >= cur /\ p < cur + width[x] /\ p \in Nat
        BY <1>9, <1>13, <2>1, <3>1
      <4> QED
        BY <1>4, <3>3, <3>4, <4>1
    <3>6. covers(text, cur, p)
      <4> HIDE DEF text
      <4> QED
        BY <1>4, <1>8, <3>5, CoversText
    <3> QED
      BY <1>6, <2>1, <3>6
  <2>2. CASE m # i
    <3>1. m < i /\ m \in 1..(Len(s) + 1)
      BY <1>1, <1>13, <2>2
    <3>2. /\ at(s, m) + widths(s)[m] <= at(s, i)
          /\ at(s, m) \in Nat /\ widths(s)[m] \in Nat
      BY <1>1, <3>1, Places
    <3>3. p < cur
      BY <1>3, <1>9, <1>13, <3>2
    <3>4. painted[p] = s[m]
      BY <1>13, <3>1 DEF onWindow
    <3> QED
      BY <1>10, <3>3, <3>4
  <2> QED
    BY <2>1, <2>2
<1>14. onWindow(s, b, i)'
  BY <1>11, <1>12, <1>13 DEF onWindow
<1>15. ASSUME NEW p \in Pixels, p < b PROVE painted'[p] = painted[p]
  <2>1. p < cur
    BY <1>4, <1>9, <1>15
  <2> QED
    BY <1>10, <2>1
<1> QED
  BY <1>14, <1>15

(* With room for both sides no position of a walk wraps.                   *)
LEMMA Room ==
  ASSUME LayoutInv, Fits, pc \in {"left", "sum", "right", "idle"}
  PROVE  /\ Total(Left) \in Nat /\ Total(Right) \in Nat /\ rightBegin \in Nat
         /\ Total(Left) <= rightBegin /\ 0 + Total(Left) < Word
         /\ rightBegin + Total(Right) < Word
<1>1. Total(Left) \in Nat /\ Total(Right) \in Nat
  BY Places DEF LayoutInv
<1>2. cur_mon.width \in 0..(Word - 1) /\ Word \in Nat \ {0} /\ own(SepText[1]) \in Nat
  BY LayoutAssumption, SepChars DEF LayoutInv, MonInv, Windows, SetUp
<1> QED
  BY <1>1, <1>2 DEF Fits, rightBegin

(* A step that neither draws nor measures leaves the window.               *)
LEMMA SameWindow ==
  ASSUME width' = width, painted' = painted, cur_mon' = cur_mon
  PROVE  /\ Fits' <=> Fits
         /\ rightBegin' = rightBegin
         /\ \A s, b, n : onWindow(s, b, n)' <=> onWindow(s, b, n)
BY DEF Fits, rightBegin, Total, onWindow, at, widths

(* Before the first drawing no element has a pixel.                        *)
LEMMA NothingShown ==
  ASSUME LTypes, \A e \in Elements : width[e] = 0, width' = width
  PROVE  \A s \in {Left, Right} : \A b \in Int : \A n : onWindow(s, b, n)'
<1> SUFFICES ASSUME NEW s \in {Left, Right}, NEW b \in Int, NEW n,
                    NEW m \in 1..Len(s), s[m] # Sep, NEW p \in Pixels,
                    p >= b + at(s, m), p < b + at(s, m) + widths(s)[m]
             PROVE  FALSE
  BY DEF onWindow, at, widths
<1>1. widths(s)[m] = 0
  BY Sides DEF widths
<1>2. at(s, m) \in Nat
  <2>1. Len(s) \in Nat
    BY Places
  <2>2. m \in 1..(Len(s) + 1)
    BY <2>1
  <2> QED
    BY <2>2, Places
<1>3. p \in Nat
  BY LayoutAssumption DEF Pixels
<1> QED
  BY <1>1, <1>2, <1>3

(* The walk begins when every element has been measured.                   *)
LEMMA ParsedStep == LayoutInv /\ Parsed /\ [Next]_vars => Parsed'
<1> SUFFICES ASSUME LayoutInv, Parsed, [Next]_vars PROVE Parsed'
  OBVIOUS
<1>1. CASE init
  BY <1>1 DEF init, MonitorStep, output_info, crtc_info, getRandrMonitors, fallback, Plug,
              monitorCreateChain, SetUp, monvars, Parsed
<1>2. CASE initSeparator
  BY <1>2 DEF initSeparator, Parsed
<1>3. ASSUME NEW e \in Elements, Update(e) PROVE Parsed'
  BY <1>3 DEF Update, Parsed
<1>4. CASE parseModules
  BY <1>4 DEF parseModules, begin, Parsed
<1>5. CASE parseElementContent
  <2>1. pc' = "parse" /\ pc = "parse" /\ i \in Nat /\ i <= Len(order)
    BY <1>5 DEF parseElementContent, LayoutInv, MonInv, MonTypes
  <2>2. \/ i' = i /\ dirty' = dirty
        \/ i' = i + 1 /\ dirty' = dirty \ {order[i]}
    BY <1>5 DEF parseElementContent
  <2> QED
    BY <2>1, <2>2 DEF Parsed
<1>6. CASE renderAllElements
  <2>1. pc = "parse" /\ i > Len(order) /\ pc' = "left" /\ dirty' = dirty
    BY <1>6 DEF renderAllElements, begin
  <2>2. i \in Nat /\ Len(order) \in Nat /\ Len(Left) \in Nat /\ Len(Right) \in Nat
    BY Sides DEF LayoutInv, MonInv, MonTypes
  <2>3. \A n \in 1..Len(order) : order[n] \notin dirty
    BY <2>1, <2>2 DEF Parsed
  <2>4. ASSUME NEW e \in Elements PROVE \E n \in 1..Len(order) : e = order[n]
    <3>1. CASE \E n \in 1..Len(Left) : e = Left[n]
      <4>1. PICK n \in 1..Len(Left) : e = Left[n]
        BY <3>1
      <4>2. n \in 1..Len(order) /\ order[n] = Left[n]
        BY <2>2, Sides DEF order
      <4> QED
        BY <4>1, <4>2
    <3>2. CASE \E n \in 1..Len(Right) : e = Right[n]
      <4>1. PICK n \in 1..Len(Right) : e = Right[n]
        BY <3>2
      <4>2. Len(Left) + n \in 1..Len(order) /\ order[Len(Left) + n] = Right[n]
        BY <2>2, Sides DEF order
      <4> QED
        BY <4>1, <4>2
    <3> QED
      BY <3>1, <3>2 DEF Elements
  <2>5. dirty = {}
    BY <2>3, <2>4 DEF LayoutInv, LTypes
  <2> QED
    BY <2>1, <2>5 DEF Parsed
<1>7. CASE renderLeft
  BY <1>7 DEF renderLeft, begin, Parsed
<1>8. CASE sumRight
  BY <1>8 DEF sumRight, begin, Parsed
<1>9. CASE renderRight
  BY <1>9 DEF renderRight, begin, Parsed
<1>10. CASE UNCHANGED vars
  BY <1>10 DEF vars, Parsed
<1>11. ASSUME NEW x, BUTTON_PRESS(x) PROVE Parsed'
  BY <1>10, <1>11 DEF BUTTON_PRESS, begin, Parsed
<1> QED
  BY <1>1, <1>2, <1>3, <1>4, <1>5, <1>6, <1>7, <1>8, <1>9, <1>10, <1>11 DEF Next, Exit

(* What is drawn stays until the next feed.                                *)
LEMMA PaintedStep == DrawnInv /\ [Next]_vars => Painted'
<1> SUFFICES ASSUME DrawnInv, [Next]_vars PROVE Painted'
  OBVIOUS
<1> USE DEF DrawnInv
<1>0. LayoutInv' /\ Len(Left) \in Nat /\ Len(Right) \in Nat
  BY LayoutStep, Sides
<1>1. CASE init
  <2>1. pc' \in SetUp \cup {"exit", "separator"}
    BY <1>1 DEF init, MonitorStep, output_info, crtc_info, getRandrMonitors, fallback, Plug,
                monitorCreateChain, SetUp, monvars
  <2> QED
    BY <2>1 DEF Painted, SetUp
<1>2. CASE initSeparator
  <2>1. pc = "separator" /\ pc' \in {"separator", "idle"} /\ width' = width
    BY <1>2 DEF initSeparator, begin
  <2>2. pc' = "idle" => rightBegin' \in Int
    <3>1. pc' = "idle" => cur_mon'.width \in 0..(Word - 1) /\ Word \in Nat
      BY <1>0, LayoutAssumption DEF LayoutInv, MonInv, Windows, SetUp
    <3>2. Total(Right)' \in Nat
      <4>1. Total(Right) \in Nat
        BY Places DEF LayoutInv
      <4> QED
        BY <2>1, <4>1 DEF Total
    <3> QED
      BY <3>1, <3>2, SepChars DEF rightBegin
  <2>3. \A e \in Elements : width[e] = 0
    BY <2>1 DEF LayoutInv, Walking
  <2>4. \A s \in {Left, Right} : \A b \in Int : \A n : onWindow(s, b, n)'
    BY <2>1, <2>3, NothingShown DEF LayoutInv
  <2>5. pc' = "idle" => /\ onWindow(Left, 0, Len(Left) + 1)'
                        /\ onWindow(Right, rightBegin, Len(Right) + 1)'
    BY <2>2, <2>4 DEF onWindow
  <2> QED
    BY <2>1, <2>5 DEF Painted
<1>3. ASSUME NEW e \in Elements, Update(e) PROVE Painted'
  <2>1. /\ pc = "idle" /\ pc' = "idle" /\ width' = width /\ painted' = painted
        /\ cur_mon' = cur_mon
    BY <1>3 DEF Update, layout, monvars, cur_mon
  <2>2. (Fits' <=> Fits) /\ rightBegin' = rightBegin
    BY <2>1, SameWindow
  <2>3. Fits => /\ onWindow(Left, 0, Len(Left) + 1)
                /\ onWindow(Right, rightBegin, Len(Right) + 1)
    BY <2>1 DEF Painted
  <2>4. Fits => onWindow(Left, 0, Len(Left) + 1)'
    BY <2>1, <2>3, SameWindow
  <2>5. Fits => onWindow(Right, rightBegin, Len(Right) + 1)'
    BY <2>1, <2>2, <2>3 DEF onWindow, at, widths
  <2> QED
    BY <2>1, <2>2, <2>4, <2>5 DEF Painted
<1>4. CASE parseModules
  BY <1>4 DEF parseModules, begin, Painted
<1>5. CASE parseElementContent
  BY <1>5 DEF parseElementContent, Painted
<1>6. CASE renderAllElements
  <2>1. pc' = "left" /\ i' = 1
    BY <1>6 DEF renderAllElements, begin
  <2> QED
    BY <1>0, <2>1 DEF Painted, onWindow
<1>7. CASE renderLeft
  <2> SUFFICES ASSUME Fits' PROVE Painted'
    BY DEF Painted
  <2>1. pc = "left" /\ width' = width /\ cur_mon' = cur_mon /\ dirty = {}
    BY <1>7 DEF renderLeft, monvars, cur_mon, Parsed
  <2>2. Fits /\ onWindow(Left, 0, i)
    BY <2>1 DEF Painted, Fits, Total
  <2>3. i \in Nat \ {0} /\ i <= Len(Left) + 1 /\ cur = at(Left, i) /\ cur \in Int
    BY <2>1 DEF LayoutInv, MonInv, MonTypes, LTypes, Walking
  <2>4. CASE i <= Len(Left)
    <3>1. place(Left[i]) /\ i' = i + 1 /\ pc' = "left" /\ i \in 1..Len(Left) /\ cur = 0 + at(Left, i)
      BY <1>0, <1>7, <2>1, <2>3, <2>4 DEF renderLeft
    <3>2. onWindow(Left, 0, i)'
      BY <2>1, <2>2, <3>1, Room, DrawItem
    <3> QED
      BY <3>1, <3>2 DEF Painted
  <2>5. CASE ~(i <= Len(Left))
    <3>1. pc' = "sum" /\ painted' = painted /\ i = Len(Left) + 1
      BY <1>0, <1>7, <2>3, <2>5 DEF renderLeft, begin
    <3>2. onWindow(Left, 0, Len(Left) + 1)'
      BY <2>1, <2>2, <3>1, SameWindow
    <3> QED
      BY <3>1, <3>2 DEF Painted
  <2> QED
    BY <2>4, <2>5
<1>8. CASE sumRight
  <2> SUFFICES ASSUME Fits' PROVE Painted'
    BY DEF Painted
  <2>1. /\ pc = "sum" /\ width' = width /\ cur_mon' = cur_mon /\ painted' = painted
        /\ pc' = "sum" \/ (pc' = "right" /\ i' = 1)
    BY <1>8 DEF sumRight, begin, layout, monvars, cur_mon
  <2>2. onWindow(Left, 0, Len(Left) + 1)'
    BY <2>1, SameWindow DEF Painted
  <2>3. pc' = "right" => onWindow(Right, rightBegin, i)'
    BY <1>0, <2>1 DEF onWindow
  <2> QED
    BY <2>1, <2>2, <2>3 DEF Painted
<1>9. CASE renderRight
  <2> SUFFICES ASSUME Fits' PROVE Painted'
    BY DEF Painted
  <2>1. pc = "right" /\ width' = width /\ cur_mon' = cur_mon /\ dirty = {}
    BY <1>9 DEF renderRight, monvars, cur_mon, Parsed
  <2>2. Fits /\ onWindow(Left, 0, Len(Left) + 1) /\ onWindow(Right, rightBegin, i)
    BY <2>1 DEF Painted, Fits, Total
  <2>3. i \in Nat \ {0} /\ i <= Len(Right) + 1 /\ cur = rightBegin + at(Right, i)
    BY <2>1 DEF LayoutInv, MonInv, MonTypes, Walking
  <2>4. PICK b \in Nat : b = rightBegin /\ b + Total(Right) < Word /\ Total(Left) <= b
    BY <2>1, <2>2, Room
  <2>5. rightBegin' = b
    BY <2>1, <2>4 DEF rightBegin, Total
  <2>6. CASE i <= Len(Right)
    <3>1. place(Right[i]) /\ i' = i + 1 /\ pc' = "right" /\ i \in 1..Len(Right) /\ cur = b + at(Right, i)
      BY <1>0, <1>9, <2>1, <2>3, <2>4, <2>6 DEF renderRight
    <3>2. /\ onWindow(Right, b, i)'
          /\ \A p \in Pixels : p < b => painted'[p] = painted[p]
      BY <2>1, <2>2, <2>4, <3>1, DrawItem
    <3>3. onWindow(Left, 0, Len(Left) + 1)'
      <4> SUFFICES ASSUME NEW m \in 1..Len(Left), m < Len(Left) + 1, Left[m] # Sep,
                          NEW p \in Pixels, p >= 0 + at(Left, m),
                          p < 0 + at(Left, m) + widths(Left)[m]
                   PROVE  painted'[p] = Left[m]
        BY <2>1 DEF onWindow, at, widths
      <4>1. painted[p] = Left[m]
        BY <2>2 DEF onWindow
      <4>2. p < b
        <5>1. m + 1 \in 1..(Len(Left) + 1) /\ m \in 1..(Len(Left) + 1)
          BY <1>0
        <5>2. /\ at(Left, m + 1) = at(Left, m) + widths(Left)[m]
              /\ at(Left, m + 1) <= Total(Left)
              /\ at(Left, m) \in Nat /\ widths(Left)[m] \in Nat /\ Total(Left) \in Nat
          BY <5>1, Places DEF LayoutInv
        <5>3. p \in Nat
          BY LayoutAssumption DEF Pixels
        <5> QED
          BY <2>4, <5>2, <5>3
      <4> QED
        BY <3>2, <4>1, <4>2
    <3>4. onWindow(Right, rightBegin, i)'
      BY <2>5, <3>2 DEF onWindow
    <3> QED
      BY <3>1, <3>3, <3>4 DEF Painted
  <2>7. CASE ~(i <= Len(Right))
    <3>1. pc' = "idle" /\ painted' = painted /\ i = Len(Right) + 1
      BY <1>0, <1>9, <2>3, <2>7 DEF renderRight, begin
    <3>2. onWindow(Left, 0, Len(Left) + 1)' /\ onWindow(Right, b, Len(Right) + 1)'
      BY <2>1, <2>2, <2>4, <3>1, SameWindow
    <3>3. onWindow(Right, rightBegin, Len(Right) + 1)'
      BY <2>5, <3>2 DEF onWindow
    <3> QED
      BY <3>1, <3>2, <3>3 DEF Painted
  <2> QED
    BY <2>6, <2>7
<1>10. CASE UNCHANGED vars
  BY <1>10, SameWindow DEF vars, layout, monvars, cur_mon, Painted, onWindow
<1>11. ASSUME NEW x, BUTTON_PRESS(x) PROVE Painted'
  <2>1. pc' = "parse" \/ UNCHANGED vars
    BY <1>11 DEF BUTTON_PRESS, begin
  <2> QED
    BY <1>10, <2>1 DEF Painted
<1> QED
  BY <1>1, <1>2, <1>3, <1>4, <1>5, <1>6, <1>7, <1>8, <1>9, <1>10, <1>11 DEF Next, Exit

(* A pixel in an area shows the area's element.                            *)
LEMMA AreaShown ==
  ASSUME DrawnInv, pc = "idle", Fits, NEW e \in Elements,
         NEW x \in 0..(cur_mon.width - 1), inArea(e, x)
  PROVE  painted[x] = e
<1> USE DEF DrawnInv
<1>1. cur_mon.width \in 0..(Word - 1) /\ Word \in Nat
  BY LayoutAssumption DEF LayoutInv, MonInv, Windows, SetUp
<1>2. x \in Pixels /\ x \in Nat
  BY <1>1 DEF Pixels
<1>3. beginX[e] \in Nat /\ width[e] \in Nat /\ x >= beginX[e] /\ x < beginX[e] + width[e]
  BY <1>1 DEF LayoutInv, LTypes, inArea
<1>4. allPlaced
  BY <1>2, <1>3 DEF LayoutInv, Walking
<1>5. e # Sep /\ Len(Left) \in Nat /\ Len(Right) \in Nat
  BY Sides DEF Elements
<1>6. CASE \E m \in 1..Len(Left) : e = Left[m]
  <2>1. PICK m \in 1..Len(Left) : e = Left[m]
    BY <1>6
  <2>2. beginX[e] = at(Left, m) /\ width[e] = widths(Left)[m]
    BY <1>4, <1>5, <2>1, InRoom
  <2>3. x >= 0 + at(Left, m) /\ x < 0 + at(Left, m) + widths(Left)[m] /\ m < Len(Left) + 1
    BY <1>3, <1>5, <2>2
  <2>4. onWindow(Left, 0, Len(Left) + 1)
    BY DEF Painted
  <2> QED
    BY <1>2, <1>5, <2>1, <2>3, <2>4 DEF onWindow
<1>7. CASE \E m \in 1..Len(Right) : e = Right[m]
  <2>1. PICK m \in 1..Len(Right) : e = Right[m]
    BY <1>7
  <2>2. beginX[e] = rightBegin + at(Right, m) /\ width[e] = widths(Right)[m]
    BY <1>4, <1>5, <2>1, InRoom
  <2>3. x >= rightBegin + at(Right, m) /\ x < rightBegin + at(Right, m) + widths(Right)[m]
        /\ m < Len(Right) + 1
    BY <1>3, <1>5, <2>2
  <2>4. onWindow(Right, rightBegin, Len(Right) + 1)
    BY DEF Painted
  <2> QED
    BY <1>2, <1>5, <2>1, <2>3, <2>4 DEF onWindow
<1> QED
  BY <1>6, <1>7 DEF Elements

(* With room for both sides the element a click is given to is the one the *)
(* window shows at that pixel, for any contents, any items and any fonts:  *)
(* nothing that is drawn later, and no '?' drawn beyond its width, covers  *)
(* a pixel of an area (bar.h 773-953, 989-1004).                           *)
THEOREM LayoutClickHitsDrawn == Spec => []ClickHitsDrawn
<1>1. Init => DrawnInv
  <2>1. Init => pc = "output"
    BY DEF Init, MonitorInit
  <2> QED
    BY <2>1, LayoutInit DEF DrawnInv, Parsed, Painted
<1>2. DrawnInv /\ [Next]_vars => DrawnInv'
  BY LayoutStep, ParsedStep, PaintedStep DEF DrawnInv
<1>3. DrawnInv => ClickHitsDrawn
  <2> SUFFICES ASSUME DrawnInv, pc = "idle", Fits, NEW x \in 0..(cur_mon.width - 1),
                      found(x) # {}
               PROVE  painted[x] = order[least(found(x))]
    BY DEF ClickHitsDrawn
  <2>1. PICK e \in Elements : e = order[least(found(x))] /\ inArea(e, x)
    BY FoundFirst
  <2> QED
    BY <2>1, AreaShown
<1> QED
  BY <1>1, <1>2, <1>3, PTL DEF Spec

(* The windows are those of the outputs kept, of which every output that   *)
(* answered is covered, for any number of outputs (bar.h 1299-1328, 1517). *)
THEOREM LayoutMonitorsPlaced == Spec => []MonitorsPlaced
<1>1. LayoutInv => MonitorsPlaced
  BY DEF LayoutInv, MonInv, Windows
<1> QED
  BY <1>1, LayoutInvHolds, PTL

(* The first window is on a leftmost monitor unless one is above another   *)
(* (bar.h 1157-1183).                                                      *)
THEOREM LayoutHeadLeftmost == Spec => []HeadLeftmost
<1>1. LayoutInv => HeadLeftmost
  BY DEF LayoutInv, MonInv, Windows
<1> QED
  BY <1>1, LayoutInvHolds, PTL
=============================================================================
