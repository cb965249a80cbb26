--------------------------- MODULE MmColorProofs ---------------------------
(***************************************************************************)
(* That the colouring allocator hands out no memory twice, gives every     *)
(* share its own colours, and uses the huge pages up one after another and *)
(* to the end, for all sizes of pages, shares and nodes that satisfy the   *)
(* assumptions of MmColor.                                                 *)
(***************************************************************************)
EXTENDS MmColor, FiniteSetsExt, SequenceTheorems, WellFoundedInduction, TLAPS

-----------------------------------------------------------------------------
\* Multiplying by a size keeps the order.
LEMMA ScaleOrder ==
  ASSUME NEW a \in Int, NEW b \in Int, NEW c \in Nat, a <= b
  PROVE  a * c <= b * c
<1>1. (b - a) * c >= 0
  OBVIOUS
<1> QED BY <1>1

\* A quotient and a remainder are the only ones.
LEMMA DivModIs ==
  ASSUME NEW b \in Nat, b > 0, NEW q \in Int, NEW r \in 0 .. b - 1
  PROVE  (q * b + r) \div b = q /\ (q * b + r) % b = r
<1> DEFINE a == q * b + r
           d == a \div b
           m == a % b
<1>1. a \in Int
  OBVIOUS
<1>2. d \in Int /\ m \in 0 .. b - 1 /\ a = d * b + m
  <2> HIDE DEF a
  <2> QED BY <1>1
<1>3. (q - d) * b = m - r
  <2> HIDE DEF d, m
  <2> QED BY <1>2
<1>4. ~ (q - d >= 1)
  <2> HIDE DEF d, m
  <2> SUFFICES ASSUME q - d >= 1
               PROVE  FALSE
    OBVIOUS
  <2>1. (q - d) * b >= 1 * b
    BY <1>2, ScaleOrder
  <2> QED BY <1>2, <1>3, <2>1
<1>5. ~ (q - d <= -1)
  <2> HIDE DEF d, m
  <2> SUFFICES ASSUME q - d <= -1
               PROVE  FALSE
    OBVIOUS
  <2>1. (q - d) * b <= (-1) * b
    BY <1>2, ScaleOrder
  <2> QED BY <1>2, <1>3, <2>1
<1>6. d = q
  <2> HIDE DEF d
  <2> QED BY <1>2, <1>4, <1>5
<1>7. m = r
  <2> HIDE DEF d, m
  <2> QED BY <1>2, <1>3, <1>6
<1> QED BY <1>6, <1>7

\* There are a quotient and a remainder.
LEMMA DivModExist ==
  ASSUME NEW a \in Int, NEW b \in Nat, b > 0
  PROVE  /\ a \div b \in Int /\ a % b \in 0 .. b - 1
         /\ a = (a \div b) * b + (a % b)
OBVIOUS

-----------------------------------------------------------------------------
\* The cache colour periods and the small pages of a huge page.
Periods == HPAGE_SIZE \div CACHE_OVERLAP
PagesOf == Periods * PAGE_COLORS

\* What the assumptions say of the sizes of pages, periods and huge pages.
LEMMA Sizes ==
  /\ PAGE_SIZE \in Nat /\ PAGE_SIZE > 0
  /\ PAGE_COLORS \in Nat /\ PAGE_COLORS > 0
  /\ NR \in Nat /\ NR > 0
  /\ Periods \in Nat /\ Periods >= 2
  /\ PagesOf \in Nat /\ PagesOf >= 2 * PAGE_COLORS
  /\ CACHE_OVERLAP = PAGE_COLORS * PAGE_SIZE
  /\ CACHE_OVERLAP \in Nat /\ CACHE_OVERLAP > 0
  /\ HPAGE_SIZE = PagesOf * PAGE_SIZE
  /\ HPAGE_SIZE \in Nat /\ HPAGE_SIZE > 0
  /\ PerPage = Periods - 1
<1>1. /\ PAGE_SIZE \in Nat /\ PAGE_SIZE > 0
      /\ PAGE_COLORS \in Nat /\ PAGE_COLORS > 0
      /\ NR \in Nat /\ NR > 0
      /\ CACHE_OVERLAP = PAGE_COLORS * PAGE_SIZE
      /\ HPAGE_SIZE \in Nat /\ HPAGE_SIZE % CACHE_OVERLAP = 0
      /\ HPAGE_SIZE >= 2 * CACHE_OVERLAP
  BY ColorAssumption
<1>2. CACHE_OVERLAP \in Nat /\ CACHE_OVERLAP > 0
  <2>1. PAGE_COLORS * PAGE_SIZE > 0
    BY <1>1
  <2> QED BY <1>1, <2>1
<1>3. Periods \in Int /\ HPAGE_SIZE = Periods * CACHE_OVERLAP
  BY <1>1, <1>2, DivModExist DEF Periods
<1>4. Periods >= 2
  <2>1. SUFFICES ASSUME Periods <= 1
                 PROVE  FALSE
    BY <1>3
  <2>2. Periods * CACHE_OVERLAP <= 1 * CACHE_OVERLAP
    BY <1>2, <1>3, <2>1, ScaleOrder
  <2> QED BY <1>1, <1>2, <1>3, <2>2
<1>5. PagesOf \in Int /\ PagesOf >= 2 * PAGE_COLORS
  BY <1>1, <1>3, <1>4, ScaleOrder DEF PagesOf
<1>6. HPAGE_SIZE = PagesOf * PAGE_SIZE
  BY <1>1, <1>3 DEF PagesOf
<1>7. HPAGE_SIZE > 0
  BY <1>1, <1>2
<1>8. PerPage = Periods - 1
  BY DEF PerPage, Periods
<1> QED BY <1>1, <1>2, <1>3, <1>4, <1>5, <1>6, <1>7, <1>8

\* The shares split the page colours among them.
LEMMA Shares ==
  /\ \A s \in Share : /\ Pages[s] \in Nat /\ Pages[s] >= 1
                      /\ Pages[s] <= PAGE_COLORS
                      /\ PagesBefore(s) \in Nat
                      /\ PagesBefore(s) + Pages[s] <= PAGE_COLORS
                      /\ Size(s) = Pages[s] * PAGE_SIZE
                      /\ Size(s) \in Nat /\ Size(s) >= PAGE_SIZE
                      /\ Size(s) <= CACHE_OVERLAP
  /\ \A s, t \in Share :
       s < t => PagesBefore(s) + Pages[s] <= PagesBefore(t)
<1>1. /\ Pages[0] \in Nat /\ Pages[0] >= 1
      /\ Pages[1] \in Nat /\ Pages[1] >= 1
      /\ Pages[2] \in Nat /\ Pages[2] >= 1
      /\ Pages[0] + Pages[1] + Pages[2] = PAGE_COLORS
  BY ShareAssumption DEF Share
<1>2. \A s \in Share : s = 0 \/ s = 1 \/ s = 2
  BY DEF Share
<1>3. /\ PagesBefore(0) = 0 /\ PagesBefore(1) = Pages[0]
      /\ PagesBefore(2) = Pages[0] + Pages[1]
  BY DEF PagesBefore
<1>4. \A s \in Share : /\ Pages[s] \in Nat /\ Pages[s] >= 1
                       /\ Pages[s] <= PAGE_COLORS
                       /\ PagesBefore(s) \in Nat
                       /\ PagesBefore(s) + Pages[s] <= PAGE_COLORS
  BY <1>1, <1>2, <1>3
<1>5. \A s, t \in Share :
        s < t => PagesBefore(s) + Pages[s] <= PagesBefore(t)
  BY <1>1, <1>2, <1>3
<1>6. ASSUME NEW s \in Share
      PROVE  /\ Size(s) = Pages[s] * PAGE_SIZE
             /\ Size(s) \in Nat /\ Size(s) >= PAGE_SIZE
             /\ Size(s) <= CACHE_OVERLAP
  <2>1. Pages[s] * PAGE_SIZE >= 1 * PAGE_SIZE
    BY <1>4, Sizes, ScaleOrder
  <2>2. Pages[s] * PAGE_SIZE <= PAGE_COLORS * PAGE_SIZE
    BY <1>4, Sizes, ScaleOrder
  <2>3. Pages[s] * PAGE_SIZE \in Int
    BY <1>4, Sizes
  <2> QED BY <2>1, <2>2, <2>3, Sizes DEF Size
<1> QED BY <1>4, <1>5, <1>6

-----------------------------------------------------------------------------
\* The address of the page o of the huge page g.
Pos(g, o) == g * HPAGE_SIZE + o * PAGE_SIZE

\* An area of the share s that begins there ends in g, and its pages have the
\* colours of the share.
Fits(g, o, s) ==
  /\ g \in Nat /\ o \in Nat
  /\ o + Pages[s] <= PagesOf
  /\ g < NR => \E m \in Int : pfnbuf[g] + o = page_color[s] + m * PAGE_COLORS

\* It may be the k-th one: the huge pages before g hold PerPage areas each, and
\* i colour periods of g lie before o.
Reached(g, o, k) ==
  \E i \in Nat : o < (i + 1) * PAGE_COLORS /\ k - 1 >= g * PerPage + i

\* The areas of a share: each is filled from its start on, lies where it may,
\* and ends before the next one begins.
Filled(area, s) ==
  /\ area \in Area
  /\ area.start <= area.alloc
  /\ area.alloc + area.left = area.start + Size(s)

PlacedAt(start, s, k) ==
  \E g, o \in Nat : start = Pos(g, o) /\ Fits(g, o, s) /\ Reached(g, o, k)

Ordered(areas, s) ==
  \A j, k \in DOMAIN areas :
    j < k => areas[j].start + Size(s) <= areas[k].start

AreasFit(areas, s) ==
  /\ areas \in Seq(Area)
  /\ Len(areas) >= 1
  /\ \A k \in DOMAIN areas : Filled(areas[k], s) /\ PlacedAt(areas[k].start, s, k)
  /\ Ordered(areas, s)

\* The pages w pages from the start of g.
LEMMA PosDiv ==
  ASSUME NEW g \in Nat, NEW w \in Nat, w < PagesOf, NEW d \in Nat, d < PAGE_SIZE
  PROVE  /\ (g * HPAGE_SIZE + (w * PAGE_SIZE + d)) \div HPAGE_SIZE = g
         /\ Pos(g, w) \div HPAGE_SIZE = g
<1>1. w * PAGE_SIZE <= (PagesOf - 1) * PAGE_SIZE
  BY Sizes, ScaleOrder
<1>2. (PagesOf - 1) * PAGE_SIZE = HPAGE_SIZE - PAGE_SIZE
  BY Sizes
<1>3. w * PAGE_SIZE \in Nat
  BY Sizes
<1>4. w * PAGE_SIZE + d \in 0 .. HPAGE_SIZE - 1 /\ w * PAGE_SIZE \in 0 .. HPAGE_SIZE - 1
  BY <1>1, <1>2, <1>3, Sizes
<1> QED BY <1>4, Sizes, DivModIs DEF Pos

\* What the place of an area tells.
LEMMA PlaceTells ==
  ASSUME NEW s \in Share, NEW g \in Nat, NEW o \in Nat, o + Pages[s] <= PagesOf
  PROVE  /\ Pos(g, o) \in Nat
         /\ g * HPAGE_SIZE <= Pos(g, o)
         /\ Pos(g, o) + Size(s) <= (g + 1) * HPAGE_SIZE
         /\ Pos(g, o) \div HPAGE_SIZE = g
         /\ (Pos(g, o) + Size(s) - 1) \div HPAGE_SIZE = g
         /\ Pos(g, o) % PAGE_SIZE = 0
         /\ Pos(g, o) \div PAGE_SIZE = g * PagesOf + o
<1>1. /\ Pages[s] \in Nat /\ Pages[s] >= 1 /\ Size(s) = Pages[s] * PAGE_SIZE
      /\ PAGE_SIZE \in Nat /\ PAGE_SIZE > 0 /\ PagesOf \in Nat
      /\ HPAGE_SIZE \in Nat /\ HPAGE_SIZE = PagesOf * PAGE_SIZE
  BY Shares, Sizes
<1>2. Pos(g, o) \in Nat /\ g * HPAGE_SIZE <= Pos(g, o)
  <2>1. g * HPAGE_SIZE \in Nat /\ o * PAGE_SIZE \in Nat
    BY <1>1
  <2> QED BY <2>1 DEF Pos
<1>3. Pos(g, o) + Size(s) <= (g + 1) * HPAGE_SIZE
  <2>1. (o + Pages[s]) * PAGE_SIZE <= PagesOf * PAGE_SIZE
    BY <1>1, ScaleOrder
  <2> QED BY <1>1, <2>1 DEF Pos
<1>4. Pos(g, o) \div HPAGE_SIZE = g
  <2>1. o < PagesOf /\ 0 < PAGE_SIZE
    BY <1>1
  <2> QED BY <2>1, PosDiv
<1>5. (Pos(g, o) + Size(s) - 1) \div HPAGE_SIZE = g
  <2> DEFINE w == o + Pages[s] - 1
             d == PAGE_SIZE - 1
  <2>1. w \in Nat /\ w < PagesOf /\ d \in Nat /\ d < PAGE_SIZE
    BY <1>1
  <2>2. (g * HPAGE_SIZE + (w * PAGE_SIZE + d)) \div HPAGE_SIZE = g
    <3> HIDE DEF w, d
    <3> QED BY <2>1, PosDiv
  <2>3. Pos(g, o) + Size(s) - 1 = g * HPAGE_SIZE + (w * PAGE_SIZE + d)
    BY <1>1 DEF Pos
  <2> QED BY <2>2, <2>3
<1>6. Pos(g, o) = (g * PagesOf + o) * PAGE_SIZE + 0
  BY <1>1 DEF Pos
<1>7. g * PagesOf + o \in Int /\ 0 \in 0 .. PAGE_SIZE - 1
  BY <1>1
<1>8. Pos(g, o) % PAGE_SIZE = 0 /\ Pos(g, o) \div PAGE_SIZE = g * PagesOf + o
  <2> DEFINE x == g * PagesOf + o
  <2>1. x \in Int /\ Pos(g, o) = x * PAGE_SIZE + 0
    BY <1>6, <1>7
  <2> HIDE DEF x
  <2>2. Pos(g, o) % PAGE_SIZE = 0 /\ Pos(g, o) \div PAGE_SIZE = x
    BY <1>1, <1>7, <2>1, DivModIs
  <2> QED BY <2>2 DEF x
<1> QED BY <1>2, <1>3, <1>4, <1>5, <1>8

\* Sums of multiples of a size.
LEMMA SumOf ==
  ASSUME NEW x \in Int, NEW a \in Int, NEW b \in Int, NEW c \in Int, NEW n \in Int
  PROVE  (x + a * n) + b * n + c * n = x + (a + b + c) * n
<1>1. /\ a * n \in Int /\ b * n \in Int /\ c * n \in Int
      /\ (a + b + c) * n = a * n + b * n + c * n
  OBVIOUS
<1> QED BY <1>1

\* Arithmetic for a place that is a number of periods away.
LEMMA OnePeriodLess ==
  ASSUME NEW n \in Int, NEW r \in Int, NEW c \in Int, NEW q \in Int, NEW p \in Int,
         n + r - c = q * n + p
  PROVE  c + p = r + (1 - q) * n
<1>1. (1 - q) * n = n - q * n /\ q * n \in Int
  OBVIOUS
<1> QED BY <1>1

\* lma_init: a new area fits, begins behind the last one, and is the next.
LEMMA NewAreaFits ==
  ASSUME pfnbuf \in [0 .. NR - 1 -> Color], page_color \in [Share -> Color],
         NEW s \in Share, NEW k \in Nat, k = Len(lm[s]), k >= 1,
         PlacedAt(lm[s][k].start, s, k),
         NEW new \in lma_init(s)
  PROVE  /\ new = NewArea(new.start, s)
         /\ PlacedAt(new.start, s, k + 1)
         /\ lm[s][k].start + Size(s) <= new.start
<1> DEFINE start == lm[s][k].start
           PS == Pages[s]
           new_page == (start + CACHE_OVERLAP + Size(s)) \div HPAGE_SIZE
<1>0. /\ PAGE_COLORS \in Nat /\ PagesOf \in Nat /\ PAGE_SIZE \in Nat /\ PAGE_SIZE > 0
      /\ HPAGE_SIZE \in Nat /\ CACHE_OVERLAP = PAGE_COLORS * PAGE_SIZE
  BY Sizes
<1>1. /\ PS \in Nat /\ PS >= 1 /\ PS <= PAGE_COLORS /\ Size(s) = PS * PAGE_SIZE
      /\ Size(s) \in Nat
  BY Shares
<1>2. PICK g \in Nat, o \in Nat :
        start = Pos(g, o) /\ Fits(g, o, s) /\ Reached(g, o, k)
  BY DEF PlacedAt
<1>3. o + PS <= PagesOf /\ start \div HPAGE_SIZE = g /\ start \in Nat
      /\ start + Size(s) <= (g + 1) * HPAGE_SIZE
  BY <1>2, PlaceTells DEF Fits
<1>4. PICK i \in Nat : o < (i + 1) * PAGE_COLORS /\ k - 1 >= g * PerPage + i
  BY <1>2 DEF Reached
<1>5. start + CACHE_OVERLAP + Size(s) = g * HPAGE_SIZE + (o + PAGE_COLORS + PS) * PAGE_SIZE
  <2>1. g * HPAGE_SIZE \in Int /\ o \in Int /\ PAGE_COLORS \in Int /\ PS \in Int
        /\ PAGE_SIZE \in Int
    BY <1>0, <1>1
  <2>2. (g * HPAGE_SIZE + o * PAGE_SIZE) + PAGE_COLORS * PAGE_SIZE + PS * PAGE_SIZE
          = g * HPAGE_SIZE + (o + PAGE_COLORS + PS) * PAGE_SIZE
    <3> HIDE DEF PS
    <3> QED BY <2>1, SumOf
  <2> QED BY <1>0, <1>1, <1>2, <2>2 DEF Pos
<1>6. new \in IF new_page = g THEN {NewArea(start + CACHE_OVERLAP, s)}
              ELSE {NewArea(new_page * HPAGE_SIZE
                              + ((PAGE_COLORS + page_color[s] - c) % PAGE_COLORS)
                                  * PAGE_SIZE, s) :
                      c \in StartPageColor(new_page)}
  BY <1>3 DEF lma_init
<1> HIDE DEF start, PS, new_page
<1>7. \A x : NewArea(x, s).start = x
  BY DEF NewArea
<1>8. CASE o + PAGE_COLORS + PS < PagesOf
  <2>1. new_page = g
    <3>1. o + PAGE_COLORS + PS \in Nat /\ 0 \in Nat /\ 0 < PAGE_SIZE
      BY <1>0, <1>1
    <3>2. Pos(g, o + PAGE_COLORS + PS) \div HPAGE_SIZE = g
      BY <1>8, <3>1, PosDiv
    <3> QED BY <1>5, <3>2 DEF Pos, new_page
  <2>2. new = NewArea(start + CACHE_OVERLAP, s) /\ new.start = start + CACHE_OVERLAP
    BY <1>6, <1>7, <2>1
  <2>3. new.start = Pos(g, o + PAGE_COLORS)
    BY <1>2, <2>2, Sizes DEF Pos
  <2>4. Fits(g, o + PAGE_COLORS, s)
    <3>1. ASSUME g < NR
          PROVE  \E m \in Int : pfnbuf[g] + (o + PAGE_COLORS) =
                                  page_color[s] + m * PAGE_COLORS
      <4> DEFINE color == pfnbuf[g]
                 first == page_color[s]
                 place == o + PAGE_COLORS
      <4>1. PICK m \in Int : color + o = first + m * PAGE_COLORS
        BY <1>2, <3>1 DEF Fits
      <4>2. color \in Int /\ first \in Int
        BY <3>1, Sizes DEF Color
      <4>3. PAGE_COLORS \in Int /\ o \in Int /\ place = o + PAGE_COLORS
        BY <1>0
      <4> DEFINE u == m * PAGE_COLORS
                 v == (m + 1) * PAGE_COLORS
      <4>4. u \in Int /\ v = u + PAGE_COLORS
        BY <4>3
      <4>5. color + o = first + u
        BY <4>1
      <4> HIDE DEF color, first, place, u, v
      <4>6. color + place = first + v
        BY <4>2, <4>3, <4>4, <4>5
      <4> QED BY <4>6 DEF color, first, place, v
    <3>2. o + PAGE_COLORS \in Nat /\ o + PAGE_COLORS + PS <= PagesOf
      BY <1>0, <1>1, <1>8
    <3> QED BY <3>1, <3>2 DEF Fits, PS
  <2>5. Reached(g, o + PAGE_COLORS, k + 1)
    <3>1. o + PAGE_COLORS < ((i + 1) + 1) * PAGE_COLORS
      BY <1>4, Sizes
    <3>2. k + 1 - 1 >= g * PerPage + (i + 1)
      BY <1>4, Sizes
    <3> QED BY <3>1, <3>2 DEF Reached
  <2>6. o + PAGE_COLORS \in Nat
    BY Sizes
  <2>7. start + Size(s) <= new.start
    BY <1>1, <1>3, <2>2, Shares, Sizes
  <2>8. PlacedAt(new.start, s, k + 1)
    BY <2>3, <2>4, <2>5, <2>6 DEF PlacedAt
  <2> QED BY <2>2, <2>7, <2>8 DEF start
<1>9. CASE ~ (o + PAGE_COLORS + PS < PagesOf)
  <2> DEFINE w == o + PAGE_COLORS + PS - PagesOf
  <2>1. w \in Nat /\ w < PagesOf
    BY <1>1, <1>3, <1>9, Sizes
  <2>2. new_page = g + 1
    <3>1. Pos(g + 1, w) \div HPAGE_SIZE = g + 1
      <4>1. g + 1 \in Nat /\ 0 \in Nat /\ 0 < PAGE_SIZE
        BY Sizes
      <4> HIDE DEF w
      <4> QED BY <2>1, <4>1, PosDiv
    <3>2. g * HPAGE_SIZE + (o + PAGE_COLORS + PS) * PAGE_SIZE = Pos(g + 1, w)
      BY <1>1, Sizes DEF Pos
    <3> QED BY <1>5, <3>1, <3>2 DEF new_page
  <2>3. PICK c \in StartPageColor(g + 1) :
          new = NewArea((g + 1) * HPAGE_SIZE
                          + ((PAGE_COLORS + page_color[s] - c) % PAGE_COLORS)
                              * PAGE_SIZE, s)
    BY <1>6, <2>2
  <2> DEFINE x == PAGE_COLORS + page_color[s] - c
             p == x % PAGE_COLORS
             q == x \div PAGE_COLORS
  <2>4. page_color[s] \in Int /\ c \in Int
    <3>1. Color \subseteq Int
      BY Sizes DEF Color
    <3>2. c \in Color
      <4>1. CASE g + 1 < NR
        BY <4>1, Sizes DEF StartPageColor
      <4>2. CASE ~ (g + 1 < NR)
        BY <4>2 DEF StartPageColor
      <4> QED BY <4>1, <4>2
    <3> QED BY <3>1, <3>2
  <2>5. p \in 0 .. PAGE_COLORS - 1 /\ q \in Int /\ x = q * PAGE_COLORS + p
    <3>1. x \in Int
      BY <2>4, Sizes
    <3> HIDE DEF x
    <3> QED BY <3>1, Sizes, DivModExist
  <2>6. new.start = Pos(g + 1, p) /\ new = NewArea(new.start, s)
    <3> HIDE DEF p
    <3> QED BY <2>3, <1>7 DEF p, Pos
  <2>7. p \in Nat /\ p + PS <= PagesOf
    <3>1. PAGE_COLORS \in Nat /\ PagesOf \in Nat /\ PagesOf >= 2 * PAGE_COLORS
      BY Sizes
    <3>2. PS \in Nat /\ PS <= PAGE_COLORS
      BY <1>1
    <3>3. p \in 0 .. PAGE_COLORS - 1
      BY <2>5
    <3> HIDE DEF p, q, x
    <3> QED BY <3>1, <3>2, <3>3
  <2>8. Fits(g + 1, p, s)
    <3>1. ASSUME g + 1 < NR
          PROVE  \E m \in Int : pfnbuf[g + 1] + p = page_color[s] + m * PAGE_COLORS
      <4>1. c = pfnbuf[g + 1]
        BY <3>1 DEF StartPageColor
      <4>2. c + p = page_color[s] + (1 - q) * PAGE_COLORS
        <5>1. PAGE_COLORS + page_color[s] - c = q * PAGE_COLORS + p
          BY <2>5
        <5>2. PAGE_COLORS \in Int
          BY Sizes
        <5> HIDE DEF p, q
        <5> QED BY <2>4, <2>5, <5>1, <5>2, OnePeriodLess
      <4>3. 1 - q \in Int
        <5> HIDE DEF q
        <5> QED BY <2>5
      <4> HIDE DEF p, q
      <4> QED BY <4>1, <4>2, <4>3
    <3> HIDE DEF p
    <3> QED BY <2>7, <3>1 DEF Fits, PS
  <2>9. Reached(g + 1, p, k + 1)
    <3>1. i >= PerPage - 1
      <4>1. o >= (Periods - 2) * PAGE_COLORS
        BY <1>1, <1>9, Sizes DEF PagesOf
      <4>2. SUFFICES ASSUME i + 1 <= Periods - 2
                     PROVE  FALSE
        BY Sizes
      <4>3. (i + 1) * PAGE_COLORS <= (Periods - 2) * PAGE_COLORS
        BY <4>2, Sizes, ScaleOrder
      <4> QED BY <1>4, <4>1, <4>3, Sizes
    <3>2. k + 1 - 1 >= (g + 1) * PerPage + 0
      BY <1>4, <3>1, Sizes
    <3>3. p < (0 + 1) * PAGE_COLORS
      <4> HIDE DEF p
      <4> QED BY <2>5, Sizes
    <3> HIDE DEF p
    <3> QED BY <3>2, <3>3 DEF Reached
  <2>10. start + Size(s) <= new.start
    <3>1. (g + 1) * HPAGE_SIZE <= Pos(g + 1, p)
      <4> HIDE DEF p
      <4> QED BY <2>7, PlaceTells DEF PS
    <3>2. Pos(g + 1, p) \in Nat /\ (g + 1) * HPAGE_SIZE \in Nat
      <4> HIDE DEF p
      <4> QED BY <2>7, PlaceTells, Sizes DEF PS
    <3> HIDE DEF p
    <3> QED BY <1>1, <1>3, <2>6, <3>1, <3>2
  <2>11. PlacedAt(new.start, s, k + 1)
    <3> HIDE DEF p
    <3> QED BY <2>6, <2>7, <2>8, <2>9 DEF PlacedAt
  <2> QED BY <2>6, <2>10, <2>11 DEF start
<1> QED BY <1>8, <1>9

-----------------------------------------------------------------------------
\* Every area is used up as far as MemoryIsUsedUp says, and one that has only
\* been found, the k-th, perhaps not yet.
UsedUpBut(areas, k) ==
  \A j \in DOMAIN areas :
    /\ j > 1 /\ j # k => areas[j].alloc > areas[j].start
    /\ j < Len(areas) => areas[j].left <= MaxNodes * NODE_SIZE

UsedUp(areas) ==
  \A j \in DOMAIN areas :
    /\ j > 1 => areas[j].alloc > areas[j].start
    /\ j < Len(areas) => areas[j].left <= MaxNodes * NODE_SIZE

\* find_lma finds an area with room, where it has to by adding one, and leaves
\* the others.
LEMMA FoundFits ==
  ASSUME pfnbuf \in [0 .. NR - 1 -> Color], page_color \in [Share -> Color],
         NEW s \in Share, AreasFit(lm[s], s),
         NEW node_num \in 1 .. MaxNodes, NEW found \in find_lma(s, node_num)
  PROVE  /\ AreasFit(found.areas, s)
         /\ found.k \in DOMAIN found.areas
         /\ HasRoom(found.areas[found.k], node_num)
         /\ \A j \in DOMAIN lm[s] : j \in DOMAIN found.areas
                                    /\ found.areas[j] = lm[s][j]
         /\ UsedUp(lm[s]) => UsedUpBut(found.areas, found.k)
<1> DEFINE room == {k \in DOMAIN lm[s] : HasRoom(lm[s][k], node_num)}
           first == CHOOSE k \in room : \A j \in room : k <= j
           n == Len(lm[s])
<1>1. lm[s] \in Seq(Area) /\ n >= 1 /\ n \in Nat /\ DOMAIN lm[s] = 1 .. n
  BY DEF AreasFit
<1>2. CASE room # {}
  <2>1. found = [k |-> first, areas |-> lm[s]]
    BY <1>2 DEF find_lma
  <2>2. room \subseteq Nat
    BY <1>1
  <2>3. PICK k \in room : \A j \in room : ~ (<<j, k>> \in OpToRel(<, Nat))
    <3>1. IsWellFoundedOn(OpToRel(<, Nat), Nat)
      BY NatLessThanWellFounded
    <3> HIDE DEF room
    <3> QED BY <1>2, <2>2, <3>1, WFMin
  <2>4. \A j \in room : k <= j
    <3> SUFFICES ASSUME NEW j \in room
                 PROVE  k <= j
      OBVIOUS
    <3>1. j \in Nat /\ k \in Nat
      BY <2>2
    <3>2. ~ (j < k)
      BY <2>3, <3>1 DEF OpToRel
    <3> QED BY <3>1, <3>2
  <2>5. first \in room
    <3> HIDE DEF room
    <3> QED BY <2>4
  <2>6. first \in DOMAIN lm[s] /\ HasRoom(lm[s][first], node_num)
    <3> HIDE DEF first
    <3> QED BY <2>5
  <2> HIDE DEF first, room
  <2>7. found.k = first /\ found.areas = lm[s]
    BY <2>1
  <2>8. UsedUp(lm[s]) => UsedUpBut(lm[s], first)
    BY DEF UsedUp, UsedUpBut
  <2> QED BY <2>6, <2>7, <2>8
<1>3. CASE room = {}
  <2>1. PICK new \in lma_init(s) : found = [k |-> n + 1, areas |-> Append(lm[s], new)]
    BY <1>3 DEF find_lma
  <2>2. \A j \in 1 .. n : lm[s][j].left <= MaxNodes * NODE_SIZE
    <3> SUFFICES ASSUME NEW j \in 1 .. n
                 PROVE  lm[s][j].left <= MaxNodes * NODE_SIZE
      OBVIOUS
    <3>1. ~ (lm[s][j].left > node_num * NODE_SIZE)
      BY <1>1, <1>3 DEF HasRoom
    <3>2. lm[s][j].left \in Nat
      <4>1. lm[s][j] \in Area
        BY <1>1
      <4> QED BY <4>1 DEF Area
    <3>3. NODE_SIZE \in Nat /\ MaxNodes \in Nat /\ node_num \in Nat
      BY NodeAssumption
    <3>4. node_num * NODE_SIZE <= MaxNodes * NODE_SIZE
      BY <3>3, ScaleOrder
    <3>5. node_num * NODE_SIZE \in Int /\ MaxNodes * NODE_SIZE \in Int
      BY <3>3
    <3> QED BY <3>1, <3>2, <3>4, <3>5
  <2> HIDE DEF room
  <2>3. PlacedAt(lm[s][n].start, s, n)
    BY <1>1 DEF AreasFit
  <2>4. /\ new = NewArea(new.start, s)
        /\ PlacedAt(new.start, s, n + 1)
        /\ lm[s][n].start + Size(s) <= new.start
    BY <1>1, <2>3, NewAreaFits
  <2>5. new.start \in Nat
    <3>1. PICK g \in Nat, o \in Nat : new.start = Pos(g, o) /\ Fits(g, o, s)
      BY <2>4 DEF PlacedAt
    <3>2. o + Pages[s] <= PagesOf
      BY <3>1 DEF Fits
    <3> QED BY <3>1, <3>2, PlaceTells
  <2>6. Size(s) \in Nat
    BY Shares
  <2>7. /\ new \in Area /\ new.alloc = new.start /\ new.left = Size(s)
        /\ Filled(new, s)
    <3>1. NewArea(new.start, s) \in Area
      BY <2>5, <2>6 DEF NewArea, Area
    <3>2. /\ NewArea(new.start, s).alloc = new.start
          /\ NewArea(new.start, s).left = Size(s)
      BY DEF NewArea
    <3>3. new \in Area /\ new.alloc = new.start /\ new.left = Size(s)
      BY <2>4, <3>1, <3>2
    <3> QED BY <2>5, <2>6, <3>3 DEF Filled
  <2> DEFINE areas == Append(lm[s], new)
  <2>8. /\ areas \in Seq(Area) /\ Len(areas) = n + 1 /\ areas[n + 1] = new
        /\ DOMAIN areas = 1 .. n + 1
        /\ \A j \in 1 .. n : areas[j] = lm[s][j]
    BY <1>1, <2>7
  <2>9. HasRoom(new, node_num)
    <3>1. MaxNodes * NODE_SIZE < Size(s) /\ NODE_SIZE \in Nat /\ MaxNodes \in Nat
      BY NodeAssumption
    <3>2. node_num * NODE_SIZE <= MaxNodes * NODE_SIZE
      BY <3>1, ScaleOrder
    <3>3. node_num * NODE_SIZE \in Int /\ MaxNodes * NODE_SIZE \in Int
      BY <3>1
    <3> QED BY <2>6, <2>7, <3>1, <3>2, <3>3 DEF HasRoom
  <2> HIDE DEF areas
  <2>10. \A k \in DOMAIN areas : Filled(areas[k], s) /\ PlacedAt(areas[k].start, s, k)
    <3> SUFFICES ASSUME NEW k \in DOMAIN areas
                 PROVE  Filled(areas[k], s) /\ PlacedAt(areas[k].start, s, k)
      OBVIOUS
    <3>1. CASE k = n + 1
      BY <2>4, <2>7, <2>8, <3>1
    <3>2. CASE k # n + 1
      <4>1. k \in 1 .. n
        BY <1>1, <2>8, <3>2
      <4> QED BY <1>1, <2>8, <4>1 DEF AreasFit
    <3> QED BY <3>1, <3>2
  <2>11. Ordered(areas, s)
    <3> SUFFICES ASSUME NEW j \in 1 .. n + 1, NEW k \in 1 .. n + 1, j < k
                 PROVE  areas[j].start + Size(s) <= areas[k].start
      BY <2>8 DEF Ordered
    <3>1. j \in 1 .. n
      BY <1>1
    <3>2. CASE k # n + 1
      <4>1. k \in 1 .. n
        BY <1>1, <3>2
      <4> QED BY <1>1, <2>8, <3>1, <4>1 DEF AreasFit, Ordered
    <3>3. CASE k = n + 1
      <4>1. /\ lm[s][j].start \in Nat /\ lm[s][n].start \in Nat
            /\ j = n \/ lm[s][j].start + Size(s) <= lm[s][n].start
        <5>1. lm[s][j] \in Area /\ lm[s][n] \in Area
          BY <1>1, <3>1
        <5>2. j = n \/ j < n
          BY <1>1, <3>1
        <5>3. j < n => lm[s][j].start + Size(s) <= lm[s][n].start
          BY <1>1, <3>1 DEF AreasFit, Ordered
        <5> QED BY <5>1, <5>2, <5>3 DEF Area
      <4>2. lm[s][j].start + Size(s) <= new.start
        <5>1. CASE j = n
          BY <2>4, <5>1
        <5>2. CASE j # n
          <6> DEFINE x == lm[s][j].start
                     y == lm[s][n].start
                     z == new.start
          <6>1. x \in Nat /\ y \in Nat /\ z \in Nat /\ x + Size(s) <= y
                /\ y + Size(s) <= z
            BY <2>4, <2>5, <4>1, <5>2
          <6> HIDE DEF x, y, z
          <6>2. x + Size(s) <= z
            BY <2>6, <6>1
          <6> QED BY <6>2 DEF x, z
        <5> QED BY <5>1, <5>2
      <4> QED BY <2>8, <3>1, <3>3, <4>2
    <3> QED BY <3>2, <3>3
  <2>12. AreasFit(areas, s)
    BY <1>1, <2>8, <2>10, <2>11 DEF AreasFit
  <2>13. found.k = n + 1 /\ found.areas = areas
    BY <2>1 DEF areas
  <2>14. found.k \in DOMAIN found.areas
    BY <1>1, <2>8, <2>13
  <2>15. \A j \in DOMAIN lm[s] : j \in DOMAIN areas /\ areas[j] = lm[s][j]
    BY <1>1, <2>8
  <2>16. UsedUp(lm[s]) => UsedUpBut(areas, n + 1)
    <3> SUFFICES ASSUME UsedUp(lm[s]), NEW j \in 1 .. n + 1
                 PROVE  /\ j > 1 /\ j # n + 1 => areas[j].alloc > areas[j].start
                        /\ j < n + 1 => areas[j].left <= MaxNodes * NODE_SIZE
      BY <2>8 DEF UsedUpBut
    <3>1. CASE j = n + 1
      BY <1>1, <3>1
    <3>2. CASE j # n + 1
      <4>1. j \in 1 .. n
        BY <1>1, <3>2
      <4>2. areas[j] = lm[s][j] /\ j \in DOMAIN lm[s]
        BY <1>1, <2>8, <4>1
      <4>3. j > 1 => lm[s][j].alloc > lm[s][j].start
        BY <4>2 DEF UsedUp
      <4>4. lm[s][j].left <= MaxNodes * NODE_SIZE
        BY <2>2, <4>1
      <4> QED BY <4>2, <4>3, <4>4
    <3> QED BY <3>1, <3>2
  <2> QED BY <2>8, <2>9, <2>12, <2>13, <2>14, <2>15, <2>16
<1> QED BY <1>2, <1>3

\* A block of m nodes at p and one of n nodes at q.
Apart(p, m, q, n) == Disjoint(p, m * NODE_SIZE, q, n * NODE_SIZE)

\* A block lies in what an area has handed out.
Within(areas, p, n) ==
  \E k \in DOMAIN areas :
    areas[k].start <= p /\ p + n * NODE_SIZE <= areas[k].alloc

\* Taking from an area, field by field.
LEMMA TakeFields ==
  ASSUME NEW st, NEW al, NEW le, NEW size, NEW a,
         a = [start |-> st, alloc |-> al, left |-> le],
         NEW b, b = [a EXCEPT !.alloc = @ + size, !.left = @ - size]
  PROVE  /\ b = [start |-> st, alloc |-> al + size, left |-> le - size]
         /\ b.start = st /\ b.alloc = al + size /\ b.left = le - size
<1>1. b = [start |-> st, alloc |-> al + size, left |-> le - size]
  OBVIOUS
<1> QED BY <1>1

\* The area k becomes b: x nodes of it are handed out.
Took(next, areas, k, b, x) ==
  /\ b = [areas[k] EXCEPT !.alloc = @ + x * NODE_SIZE, !.left = @ - x * NODE_SIZE]
  /\ next = [areas EXCEPT ![k] = b]

\* lma_alloc: the block it takes is apart from those handed out before.
LEMMA TakenIsApart ==
  ASSUME NEW s \in Share, NEW areas, AreasFit(areas, s),
         NEW k \in DOMAIN areas, NEW x \in 1 .. MaxNodes, HasRoom(areas[k], x),
         NEW b, NEW next, Took(next, areas, k, b, x)
  PROVE  /\ AreasFit(next, s)
         /\ areas[k].alloc \in Nat
         /\ Within(next, areas[k].alloc, x)
         /\ \A p, n \in Nat :
              Within(areas, p, n) => /\ Within(next, p, n)
                                     /\ Apart(p, n, areas[k].alloc, x)
                                     /\ Apart(areas[k].alloc, x, p, n)
<1> DEFINE size == x * NODE_SIZE
           a == areas[k]
<1>1. size \in Nat /\ NODE_SIZE \in Nat
  BY NodeAssumption
<1> HIDE DEF size
<1>2. /\ areas \in Seq(Area) /\ Len(areas) \in Nat /\ DOMAIN areas = 1 .. Len(areas)
      /\ \A j \in DOMAIN areas : areas[j] \in Area
      /\ Size(s) \in Nat
  BY Shares DEF AreasFit
<1>3. a \in Area /\ Filled(a, s) /\ a.left > size
  BY <1>2 DEF AreasFit, HasRoom, size
<1>4. /\ a.start \in Nat /\ a.alloc \in Nat /\ a.left \in Nat
      /\ a = [start |-> a.start, alloc |-> a.alloc, left |-> a.left]
  BY <1>3 DEF Area
<1>5. b = [a EXCEPT !.alloc = @ + size, !.left = @ - size]
  BY DEF size, Took
<1>6. /\ DOMAIN next = DOMAIN areas /\ next[k] = b
      /\ \A j \in DOMAIN areas : j # k => next[j] = areas[j]
  BY <1>2 DEF Took
<1>7. /\ b = [start |-> a.start, alloc |-> a.alloc + size, left |-> a.left - size]
      /\ b.start = a.start /\ b.alloc = a.alloc + size /\ b.left = a.left - size
  <2> HIDE DEF a
  <2> QED BY <1>4, <1>5, TakeFields
<1>8. b \in Area /\ Filled(b, s)
  <2>1. a.left - size \in Nat /\ a.alloc + size \in Nat
    BY <1>1, <1>3, <1>4
  <2>2. b \in Area
    BY <1>4, <1>7, <2>1 DEF Area
  <2>4. a.start <= a.alloc /\ a.alloc + a.left = a.start + Size(s)
    BY <1>3 DEF Filled
  <2>5. b.start <= b.alloc /\ b.alloc + b.left = b.start + Size(s)
    <3> HIDE DEF a
    <3> QED BY <1>1, <1>2, <1>4, <1>7, <2>4
  <2> QED BY <2>2, <2>5 DEF Filled
<1>9. b.start = a.start /\ b.alloc = a.alloc + size
  BY <1>7
<1>10. AreasFit(next, s)
  <2>1. next \in Seq(Area) /\ Len(next) = Len(areas)
    BY <1>2, <1>8 DEF Took
  <2>2. \A j \in DOMAIN areas : next[j].start = areas[j].start
    BY <1>6, <1>9
  <2>3. \A j \in DOMAIN areas : Filled(next[j], s)
    BY <1>6, <1>8 DEF AreasFit
  <2> QED BY <1>6, <2>1, <2>2, <2>3 DEF AreasFit, Ordered
<1>11. Within(next, a.alloc, x)
  <2>1. b.start <= a.alloc /\ a.alloc + x * NODE_SIZE <= b.alloc
    BY <1>1, <1>3, <1>4, <1>9 DEF Filled, size
  <2> HIDE DEF a
  <2> QED BY <1>6, <2>1 DEF Within
<1>12. ASSUME NEW p \in Nat, NEW n \in Nat, Within(areas, p, n)
       PROVE  /\ Within(next, p, n)
              /\ Apart(p, n, a.alloc, x) /\ Apart(a.alloc, x, p, n)
  <2>1. PICK j \in DOMAIN areas :
          areas[j].start <= p /\ p + n * NODE_SIZE <= areas[j].alloc
    BY <1>12 DEF Within
  <2> DEFINE c == areas[j]
             t == n * NODE_SIZE
  <2>2. t \in Nat /\ c.start <= p /\ p + t <= c.alloc
    BY <1>1, <2>1
  <2>3. c \in Area /\ Filled(c, s) /\ c.start \in Nat /\ c.alloc \in Nat /\ c.left \in Nat
    BY <1>2 DEF AreasFit, Area
  <2>4. Within(next, p, n)
    <3>1. CASE j = k
      <4>1. b.start <= p /\ p + n * NODE_SIZE <= b.alloc
        BY <1>1, <1>4, <1>9, <2>2, <3>1
      <4> QED BY <1>6, <4>1 DEF Within
    <3>2. CASE j # k
      BY <1>6, <2>1, <3>2 DEF Within
    <3> QED BY <3>1, <3>2
  <2>5. p + t <= a.alloc \/ a.alloc + size <= p
    <3>0. /\ size \in Int /\ Size(s) \in Int /\ t \in Int
          /\ a.start \in Int /\ a.alloc \in Int /\ a.left \in Int
          /\ c.start \in Int /\ c.alloc \in Int /\ c.left \in Int
      BY <1>1, <1>2, <1>4, <2>2, <2>3
    <3>1. CASE j = k
      BY <2>2, <3>1
    <3>2. CASE j < k
      <4>1. c.start + Size(s) <= a.start
        BY <3>2 DEF AreasFit, Ordered
      <4> HIDE DEF a, c, t
      <4>2. c.alloc <= c.start + Size(s)
        BY <2>3, <3>0 DEF Filled
      <4>3. a.start <= a.alloc
        BY <1>3 DEF Filled
      <4>4. p + t <= a.alloc
        BY <2>2, <3>0, <4>1, <4>2, <4>3
      <4> QED BY <4>4
    <3>3. CASE j > k
      <4>1. a.start + Size(s) <= c.start
        <5>1. k < j
          BY <1>2, <3>3
        <5> QED BY <5>1 DEF AreasFit, Ordered
      <4>2. a.alloc + a.left = a.start + Size(s) /\ a.left > size
        BY <1>3 DEF Filled
      <4> HIDE DEF a, c, t
      <4>3. a.alloc + size <= a.start + Size(s)
        BY <3>0, <4>2
      <4> QED BY <2>2, <3>0, <4>1, <4>3
    <3> QED BY <1>2, <3>1, <3>2, <3>3
  <2> QED BY <2>4, <2>5 DEF Apart, Disjoint, size
<1> QED BY <1>4, <1>10, <1>11, <1>12

\* lma_alloc: then the area it takes from is used up no less than the others.
LEMMA TakenIsUsedUp ==
  ASSUME NEW s \in Share, NEW areas, AreasFit(areas, s),
         NEW k \in DOMAIN areas, NEW x \in 1 .. MaxNodes, UsedUpBut(areas, k),
         NEW b, NEW next, Took(next, areas, k, b, x)
  PROVE  UsedUp(next)
<1> DEFINE size == x * NODE_SIZE
           a == areas[k]
<1>1. size \in Nat /\ size >= 1
  <2>1. NODE_SIZE \in Nat /\ NODE_SIZE >= 1 /\ x \in Nat
    BY NodeAssumption
  <2>2. 1 * NODE_SIZE <= x * NODE_SIZE
    BY <2>1, ScaleOrder
  <2>3. x * NODE_SIZE \in Int
    BY <2>1
  <2> QED BY <2>1, <2>2, <2>3
<1> HIDE DEF size
<1>2. /\ areas \in Seq(Area) /\ Len(areas) \in Nat /\ DOMAIN areas = 1 .. Len(areas)
      /\ a \in Area /\ a.start <= a.alloc
  BY DEF AreasFit, Filled
<1>3. /\ a.start \in Nat /\ a.alloc \in Nat /\ a.left \in Nat
      /\ a = [start |-> a.start, alloc |-> a.alloc, left |-> a.left]
  BY <1>2 DEF Area
<1>4. b = [a EXCEPT !.alloc = @ + size, !.left = @ - size]
  BY DEF size, Took
<1>5. b.start = a.start /\ b.alloc = a.alloc + size /\ b.left = a.left - size
  <2> HIDE DEF a
  <2> QED BY <1>3, <1>4, TakeFields
<1>6. /\ DOMAIN next = DOMAIN areas /\ Len(next) = Len(areas) /\ next[k] = b
      /\ \A j \in DOMAIN areas : j # k => next[j] = areas[j]
  BY <1>2 DEF Took
<1>7. b.alloc > b.start
  <2> HIDE DEF a
  <2> QED BY <1>1, <1>2, <1>3, <1>5
<1>8. k < Len(areas) => b.left <= MaxNodes * NODE_SIZE
  <2>1. MaxNodes * NODE_SIZE \in Int
    BY NodeAssumption
  <2>2. k < Len(areas) => a.left <= MaxNodes * NODE_SIZE
    BY DEF UsedUpBut
  <2> HIDE DEF a
  <2> QED BY <1>1, <1>3, <1>5, <2>1, <2>2
<1>9. ASSUME NEW j \in DOMAIN next
      PROVE  /\ j > 1 => next[j].alloc > next[j].start
             /\ j < Len(next) => next[j].left <= MaxNodes * NODE_SIZE
  <2>1. CASE j = k
    BY <1>6, <1>7, <1>8, <2>1
  <2>2. CASE j # k
    BY <1>6, <1>9, <2>2 DEF UsedUpBut
  <2> QED BY <2>1, <2>2
<1> QED BY <1>9 DEF UsedUp

-----------------------------------------------------------------------------
\* The blocks of a share that callers hold, and those in the list of n nodes.
Held(s) == {c \in used : c.share = s}

HeldBlock == [p : Nat, nodes : 1 .. MaxNodes, share : Share]

\* The blocks of a share, freed and held, lie in what its areas have handed out,
\* and no two of them have memory in common.
ShareFits(areas, free, held) ==
  /\ \A n \in Count : \A i \in DOMAIN free[n] : Within(areas, free[n][i], n)
  /\ \A c \in held : Within(areas, c.p, c.nodes)
  /\ \A m, n \in Count : \A i \in DOMAIN free[m], j \in DOMAIN free[n] :
       m # n \/ i # j => Apart(free[m][i], m, free[n][j], n)
  /\ \A c \in held : \A n \in Count : \A i \in DOMAIN free[n] :
       /\ Apart(c.p, c.nodes, free[n][i], n)
       /\ Apart(free[n][i], n, c.p, c.nodes)
  /\ \A c, d \in held : c # d => Apart(c.p, c.nodes, d.p, d.nodes)

\* A smaller block at the same place.
LEMMA Smaller ==
  ASSUME NEW m \in Nat, NEW n \in 0 .. m, NEW p \in Nat, NEW q \in Nat, NEW k \in Nat
  PROVE  /\ Apart(p, m, q, k) => Apart(p, n, q, k)
         /\ Apart(q, k, p, m) => Apart(q, k, p, n)
<1>1. NODE_SIZE \in Nat
  BY NodeAssumption
<1>2. n * NODE_SIZE <= m * NODE_SIZE
  BY <1>1, ScaleOrder
<1>3. n * NODE_SIZE \in Nat /\ m * NODE_SIZE \in Nat /\ k * NODE_SIZE \in Nat
  BY <1>1
<1> QED BY <1>2, <1>3 DEF Apart, Disjoint

\* A smaller block at the same place is within the areas too.
LEMMA SmallerWithin ==
  ASSUME NEW areas \in Seq(Area), NEW m \in Nat, NEW n \in 0 .. m,
         NEW p \in Nat, Within(areas, p, m)
  PROVE  Within(areas, p, n)
<1>1. NODE_SIZE \in Nat
  BY NodeAssumption
<1>2. n * NODE_SIZE <= m * NODE_SIZE
  BY <1>1, ScaleOrder
<1>3. n * NODE_SIZE \in Nat /\ m * NODE_SIZE \in Nat
  BY <1>1
<1>4. PICK k \in DOMAIN areas :
        areas[k].start <= p /\ p + m * NODE_SIZE <= areas[k].alloc
  BY DEF Within
<1>5. areas[k].alloc \in Nat
  <2>1. areas[k] \in Area
    OBVIOUS
  <2> QED BY <2>1 DEF Area
<1> QED BY <1>2, <1>3, <1>4, <1>5 DEF Within

\* Nothing is apart from itself.
LEMMA NotApart ==
  ASSUME NEW p \in Nat, NEW n \in 1 .. MaxNodes
  PROVE  ~ Apart(p, n, p, n)
<1>1. NODE_SIZE \in Nat /\ NODE_SIZE >= 1
  BY NodeAssumption
<1>2. n * NODE_SIZE >= 1 * NODE_SIZE
  BY <1>1, ScaleOrder
<1>3. n * NODE_SIZE \in Nat
  BY <1>1
<1> QED BY <1>1, <1>2, <1>3 DEF Apart, Disjoint

\* The list of the blocks of x nodes becomes v, the others stay.
Becomes(next, free, x, v) ==
  /\ next \in [Count -> Seq(Nat)]
  /\ next[x] = v
  /\ \A n \in Count : n # x => next[n] = free[n]

\* Taking the first of the freed blocks of a size.
LEMMA FreedIsTaken ==
  ASSUME NEW areas, NEW free \in [Count -> Seq(Nat)], NEW held,
         ShareFits(areas, free, held),
         NEW x \in Count, free[x] # <<>>,
         NEW b, b.p = Head(free[x]), b.nodes = x,
         NEW next, Becomes(next, free, x, Tail(free[x]))
  PROVE  /\ b.p \in Nat
         /\ ShareFits(areas, next, held \cup {b})
<1>1. /\ free[x] \in Seq(Nat) /\ 1 \in DOMAIN free[x] /\ b.p = free[x][1]
      /\ free[x][1] \in Nat
  BY DEF Count
<1>3. /\ next[x] = Tail(free[x])
      /\ \A n \in Count : n # x => next[n] = free[n]
  BY DEF Becomes
<1>4. \A n \in Count : \A i \in DOMAIN next[n] :
        \E j \in DOMAIN free[n] :
          /\ next[n][i] = free[n][j]
          /\ j = IF n = x THEN i + 1 ELSE i
          /\ i \in Nat
  <2> SUFFICES ASSUME NEW n \in Count, NEW i \in DOMAIN next[n]
               PROVE  \E j \in DOMAIN free[n] :
                        /\ next[n][i] = free[n][j]
                        /\ j = IF n = x THEN i + 1 ELSE i
                        /\ i \in Nat
    OBVIOUS
  <2>1. CASE n = x
    <3>1. i + 1 \in DOMAIN free[x] /\ Tail(free[x])[i] = free[x][i + 1] /\ i \in Nat
      BY <1>1, <1>3, <2>1
    <3> QED BY <1>3, <2>1, <3>1
  <2>2. CASE n # x
    <3>1. i \in Nat
      BY <1>3, <2>2
    <3> QED BY <1>3, <2>2, <3>1
  <2> QED BY <2>1, <2>2
<1>5. \A n \in Count : \A i \in DOMAIN next[n] :
        /\ Within(areas, next[n][i], n)
        /\ Apart(b.p, b.nodes, next[n][i], n)
        /\ Apart(next[n][i], n, b.p, b.nodes)
        /\ \A c \in held : /\ Apart(c.p, c.nodes, next[n][i], n)
                           /\ Apart(next[n][i], n, c.p, c.nodes)
  <2> SUFFICES ASSUME NEW n \in Count, NEW i \in DOMAIN next[n]
               PROVE  /\ Within(areas, next[n][i], n)
                      /\ Apart(b.p, b.nodes, next[n][i], n)
                      /\ Apart(next[n][i], n, b.p, b.nodes)
                      /\ \A c \in held : /\ Apart(c.p, c.nodes, next[n][i], n)
                                         /\ Apart(next[n][i], n, c.p, c.nodes)
    OBVIOUS
  <2>1. PICK j \in DOMAIN free[n] : /\ next[n][i] = free[n][j]
                                    /\ j = IF n = x THEN i + 1 ELSE i
                                    /\ i \in Nat
    BY <1>4
  <2>2. n # x \/ j # 1
    <3>1. CASE n = x
      <4>1. i # 0
        BY <1>1, <1>3, <3>1
      <4> QED BY <2>1, <3>1, <4>1
    <3> QED BY <3>1
  <2>3. Apart(free[x][1], x, free[n][j], n) /\ Apart(free[n][j], n, free[x][1], x)
    BY <1>1, <2>2 DEF ShareFits
  <2> QED BY <1>1, <2>1, <2>3 DEF ShareFits
<1>6. \A m, n \in Count : \A i \in DOMAIN next[m], j \in DOMAIN next[n] :
        m # n \/ i # j => Apart(next[m][i], m, next[n][j], n)
  <2> SUFFICES ASSUME NEW m \in Count, NEW n \in Count,
                      NEW i \in DOMAIN next[m], NEW j \in DOMAIN next[n],
                      m # n \/ i # j
               PROVE  Apart(next[m][i], m, next[n][j], n)
    OBVIOUS
  <2>1. PICK i1 \in DOMAIN free[m] : /\ next[m][i] = free[m][i1]
                                     /\ i1 = IF m = x THEN i + 1 ELSE i
                                     /\ i \in Nat
    BY <1>4
  <2>2. PICK j1 \in DOMAIN free[n] : /\ next[n][j] = free[n][j1]
                                     /\ j1 = IF n = x THEN j + 1 ELSE j
                                     /\ j \in Nat
    BY <1>4
  <2>3. m # n \/ i1 # j1
    BY <2>1, <2>2
  <2> QED BY <2>1, <2>2, <2>3 DEF ShareFits
<1>7. \A c \in held : Apart(c.p, c.nodes, b.p, b.nodes) /\ Apart(b.p, b.nodes, c.p, c.nodes)
  BY <1>1 DEF ShareFits
<1>8. Within(areas, b.p, b.nodes)
  BY <1>1 DEF ShareFits
<1>9. ShareFits(areas, next, held \cup {b})
  BY <1>5, <1>6, <1>7, <1>8 DEF ShareFits
<1> QED BY <1>1, <1>9

\* A block from an area that is apart from all those handed out.
LEMMA NewIsTaken ==
  ASSUME NEW areas, NEW free \in [Count -> Seq(Nat)],
         NEW held, held \subseteq HeldBlock,
         ShareFits(areas, free, held),
         NEW x \in Count, NEW b, b.p \in Nat, b.nodes = x,
         NEW next, Within(next, b.p, x),
         \A p, n \in Nat :
           Within(areas, p, n) => /\ Within(next, p, n)
                                  /\ Apart(p, n, b.p, x)
                                  /\ Apart(b.p, x, p, n)
  PROVE  ShareFits(next, free, held \cup {b})
<1>1. \A n \in Count : n \in Nat /\ \A i \in DOMAIN free[n] : free[n][i] \in Nat
  BY NodeAssumption DEF Count
<1>2. \A c \in held : c.p \in Nat /\ c.nodes \in Nat
  BY DEF HeldBlock
<1>3. \A n \in Count : \A i \in DOMAIN free[n] :
        /\ Within(next, free[n][i], n)
        /\ Apart(b.p, b.nodes, free[n][i], n)
        /\ Apart(free[n][i], n, b.p, b.nodes)
  BY <1>1 DEF ShareFits
<1>4. \A c \in held : /\ Within(next, c.p, c.nodes)
                      /\ Apart(c.p, c.nodes, b.p, b.nodes)
                      /\ Apart(b.p, b.nodes, c.p, c.nodes)
  BY <1>2 DEF ShareFits
<1> QED BY <1>3, <1>4 DEF ShareFits

\* mc_dealloc_node: the block goes to the front of a list, maybe as a smaller one.
LEMMA HeldIsGivenBack ==
  ASSUME NEW areas \in Seq(Area), NEW free \in [Count -> Seq(Nat)],
         NEW held, held \subseteq HeldBlock,
         ShareFits(areas, free, held),
         NEW b \in held, NEW x \in Count, x <= b.nodes,
         NEW next, Becomes(next, free, x, <<b.p>> \o free[x])
  PROVE  ShareFits(areas, next, held \ {b})
<1>1. /\ b.p \in Nat /\ b.nodes \in Nat /\ x \in 0 .. b.nodes
      /\ b \in HeldBlock
  BY DEF HeldBlock, Count
<1>2. free[x] \in Seq(Nat) /\ <<b.p>> \in Seq(Nat)
  BY <1>1
<1>4. /\ next[x] = <<b.p>> \o free[x]
      /\ \A n \in Count : n # x => next[n] = free[n]
  BY DEF Becomes
<1>5. \A n \in Count : n \in Nat /\ \A i \in DOMAIN free[n] : free[n][i] \in Nat
  BY NodeAssumption DEF Count
<1>6. \A c \in held : c.p \in Nat /\ c.nodes \in Nat
  BY DEF HeldBlock
<1>7. Within(areas, b.p, x)
  <2>1. Within(areas, b.p, b.nodes)
    BY DEF ShareFits
  <2> QED BY <1>1, <2>1, SmallerWithin
<1>8. \A n \in Count : \A j \in DOMAIN free[n] :
        Apart(b.p, x, free[n][j], n) /\ Apart(free[n][j], n, b.p, x)
  <2> SUFFICES ASSUME NEW n \in Count, NEW j \in DOMAIN free[n]
               PROVE  Apart(b.p, x, free[n][j], n) /\ Apart(free[n][j], n, b.p, x)
    OBVIOUS
  <2>1. Apart(b.p, b.nodes, free[n][j], n) /\ Apart(free[n][j], n, b.p, b.nodes)
    BY DEF ShareFits
  <2> QED BY <1>1, <1>5, <2>1, Smaller
<1>9. \A c \in held \ {b} :
        Apart(b.p, x, c.p, c.nodes) /\ Apart(c.p, c.nodes, b.p, x)
  <2> SUFFICES ASSUME NEW c \in held \ {b}
               PROVE  Apart(b.p, x, c.p, c.nodes) /\ Apart(c.p, c.nodes, b.p, x)
    OBVIOUS
  <2>1. Apart(b.p, b.nodes, c.p, c.nodes) /\ Apart(c.p, c.nodes, b.p, b.nodes)
    BY DEF ShareFits
  <2> QED BY <1>1, <1>6, <2>1, Smaller
<1>10. \A n \in Count : \A i \in DOMAIN next[n] :
         \/ n = x /\ i = 1 /\ next[n][i] = b.p
         \/ \E j \in DOMAIN free[n] : /\ next[n][i] = free[n][j]
                                      /\ j = IF n = x THEN i - 1 ELSE i
                                      /\ i \in Nat
  <2> SUFFICES ASSUME NEW n \in Count, NEW i \in DOMAIN next[n],
                      ~ (n = x /\ i = 1 /\ next[n][i] = b.p)
               PROVE  \E j \in DOMAIN free[n] : /\ next[n][i] = free[n][j]
                                                /\ j = IF n = x THEN i - 1 ELSE i
                                                /\ i \in Nat
    OBVIOUS
  <2>1. CASE n = x
    <3>1. i \in Nat /\ i # 1 /\ i \in 1 .. Len(free[x]) + 1
      BY <1>2, <1>4, <2>1
    <3>2. i - 1 \in DOMAIN free[x] /\ (<<b.p>> \o free[x])[i] = free[x][i - 1]
      BY <1>2, <3>1
    <3> QED BY <1>4, <2>1, <3>1, <3>2
  <2>2. CASE n # x
    <3>1. i \in Nat
      BY <1>4, <2>2
    <3> QED BY <1>4, <2>2, <3>1
  <2> QED BY <2>1, <2>2
<1>11. \A n \in Count : \A i \in DOMAIN next[n] :
         /\ Within(areas, next[n][i], n)
         /\ \A c \in held \ {b} : /\ Apart(c.p, c.nodes, next[n][i], n)
                                  /\ Apart(next[n][i], n, c.p, c.nodes)
  <2> SUFFICES ASSUME NEW n \in Count, NEW i \in DOMAIN next[n]
               PROVE  /\ Within(areas, next[n][i], n)
                      /\ \A c \in held \ {b} : /\ Apart(c.p, c.nodes, next[n][i], n)
                                               /\ Apart(next[n][i], n, c.p, c.nodes)
    OBVIOUS
  <2>1. CASE n = x /\ i = 1 /\ next[n][i] = b.p
    BY <1>7, <1>9, <2>1
  <2>2. CASE \E j \in DOMAIN free[n] : next[n][i] = free[n][j]
    BY <2>2 DEF ShareFits
  <2> QED BY <1>10, <2>1, <2>2
<1>12. \A m, n \in Count : \A i \in DOMAIN next[m], j \in DOMAIN next[n] :
         m # n \/ i # j => Apart(next[m][i], m, next[n][j], n)
  <2> SUFFICES ASSUME NEW m \in Count, NEW n \in Count,
                      NEW i \in DOMAIN next[m], NEW j \in DOMAIN next[n],
                      m # n \/ i # j
               PROVE  Apart(next[m][i], m, next[n][j], n)
    OBVIOUS
  <2>1. CASE /\ m = x /\ i = 1 /\ next[m][i] = b.p
             /\ n = x /\ j = 1 /\ next[n][j] = b.p
    BY <2>1
  <2>2. CASE /\ m = x /\ i = 1 /\ next[m][i] = b.p
             /\ \E j1 \in DOMAIN free[n] : next[n][j] = free[n][j1]
    BY <1>8, <2>2
  <2>3. CASE /\ \E i1 \in DOMAIN free[m] : next[m][i] = free[m][i1]
             /\ n = x /\ j = 1 /\ next[n][j] = b.p
    BY <1>8, <2>3
  <2>4. ASSUME NEW i1 \in DOMAIN free[m], NEW j1 \in DOMAIN free[n],
               next[m][i] = free[m][i1], next[n][j] = free[n][j1],
               i1 = IF m = x THEN i - 1 ELSE i, j1 = IF n = x THEN j - 1 ELSE j,
               i \in Nat, j \in Nat
        PROVE  Apart(next[m][i], m, next[n][j], n)
    <3>1. m # n \/ i1 # j1
      BY <2>4
    <3> QED BY <2>4, <3>1 DEF ShareFits
  <2>5. \/ m = x /\ i = 1 /\ next[m][i] = b.p
        \/ \E i1 \in DOMAIN free[m] : /\ next[m][i] = free[m][i1]
                                      /\ i1 = IF m = x THEN i - 1 ELSE i
                                      /\ i \in Nat
    BY <1>10
  <2>6. \/ n = x /\ j = 1 /\ next[n][j] = b.p
        \/ \E j1 \in DOMAIN free[n] : /\ next[n][j] = free[n][j1]
                                      /\ j1 = IF n = x THEN j - 1 ELSE j
                                      /\ j \in Nat
    BY <1>10
  <2> QED BY <2>1, <2>2, <2>3, <2>4, <2>5, <2>6
<1>13. ShareFits(areas, next, held \ {b})
  BY <1>11, <1>12 DEF ShareFits
<1> QED BY <1>13

-----------------------------------------------------------------------------
\* The inductive invariant.  The colours of the shares are those of the shares'
\* pages in the first areas; TypeOK leaves that open.
Types ==
  /\ pfnbuf \in [0 .. NR - 1 -> Color]
  /\ page_color = [s \in Share |-> (pfnbuf[0] + PagesBefore(s)) % PAGE_COLORS]
  /\ lm \in [Share -> Seq(Area)]
  /\ free_head \in [Share -> [Count -> Seq(Nat)]]
  /\ used \subseteq HeldBlock
  /\ status \in {"running", "faulted", "exited"}

Inv ==
  /\ Types
  /\ \A s \in Share : AreasFit(lm[s], s)
  /\ \A s \in Share : ShareFits(lm[s], free_head[s], Held(s))

\* Every share has a first colour.
LEMMA Colors ==
  ASSUME Types
  PROVE  page_color \in [Share -> Color]
<1>1. ASSUME NEW s \in Share
      PROVE  (pfnbuf[0] + PagesBefore(s)) % PAGE_COLORS \in Color
  <2>1. pfnbuf[0] \in Int /\ PagesBefore(s) \in Int
    BY Sizes, Shares DEF Types, Color
  <2> DEFINE a == pfnbuf[0] + PagesBefore(s)
  <2>2. a \in Int
    BY <2>1
  <2> HIDE DEF a
  <2>3. a % PAGE_COLORS \in 0 .. PAGE_COLORS - 1
    BY <2>2, Sizes, DivModExist
  <2> QED BY <2>3 DEF a, Color
<1> QED BY <1>1 DEF Types

\* mc_init.
LEMMA InitInv == Init => Inv
<1> SUFFICES ASSUME Init
             PROVE  Inv
  OBVIOUS
<1>1. ASSUME NEW s \in Share
      PROVE  lm[s] \in Seq(Area) /\ AreasFit(lm[s], s)
  <2> DEFINE o == PagesBefore(s)
             area == NewArea(o * PAGE_SIZE, s)
  <2>1. /\ o \in Nat /\ o + Pages[s] <= PAGE_COLORS /\ Size(s) \in Nat
        /\ Pages[s] >= 1 /\ Pages[s] \in Nat
    BY Shares
  <2>2. lm[s] = <<area>>
    BY DEF Init
  <2>3. area \in Area /\ area.start = o * PAGE_SIZE /\ Filled(area, s)
    <3>1. o * PAGE_SIZE \in Nat
      BY <2>1, Sizes
    <3> HIDE DEF o
    <3>2. /\ area \in Area /\ area.start = o * PAGE_SIZE
          /\ area.alloc = o * PAGE_SIZE /\ area.left = Size(s)
      BY <2>1, <3>1 DEF NewArea, Area
    <3> HIDE DEF area
    <3> QED BY <2>1, <3>1, <3>2 DEF Filled
  <2>4. lm[s] \in Seq(Area) /\ Len(lm[s]) = 1 /\ DOMAIN lm[s] = 1 .. 1 /\ lm[s][1] = area
    <3> HIDE DEF area
    <3> QED BY <2>2, <2>3
  <2>5. area.start = Pos(0, o)
    <3> HIDE DEF o
    <3> QED BY <2>1, <2>3, Sizes DEF Pos
  <2>6. Fits(0, o, s)
    <3>1. o + Pages[s] <= PagesOf
      BY <2>1, Sizes
    <3>2. \E m \in Int : pfnbuf[0] + o = page_color[s] + m * PAGE_COLORS
      <4>1. pfnbuf[0] + o \in Int
        <5>1. pfnbuf[0] \in Int
          BY Sizes DEF Init, Color
        <5> QED BY <2>1, <5>1
      <4> DEFINE a == pfnbuf[0] + o
      <4>2. page_color[s] = a % PAGE_COLORS
        BY DEF Init
      <4> HIDE DEF a, o
      <4>3. a \div PAGE_COLORS \in Int /\ a % PAGE_COLORS \in Int
            /\ a = (a \div PAGE_COLORS) * PAGE_COLORS + (a % PAGE_COLORS)
        BY <4>1, Sizes, DivModExist DEF a
      <4> DEFINE m == a \div PAGE_COLORS
      <4>4. m \in Int /\ a = page_color[s] + m * PAGE_COLORS
        <5> DEFINE r == a % PAGE_COLORS
        <5>1. m \in Int /\ r \in Int /\ a = m * PAGE_COLORS + r
          BY <4>3
        <5> HIDE DEF m, r
        <5>2. a = r + m * PAGE_COLORS
          BY <5>1, Sizes
        <5> QED BY <4>2, <5>1, <5>2 DEF r
      <4> HIDE DEF m
      <4> QED BY <4>4 DEF a
    <3> HIDE DEF o
    <3> QED BY <2>1, <3>1, <3>2 DEF Fits
  <2>7. Reached(0, o, 1)
    <3>1. o < (0 + 1) * PAGE_COLORS /\ 1 - 1 >= 0 * PerPage + 0
      BY <2>1, Sizes
    <3> QED BY <3>1 DEF Reached
  <2>8. PlacedAt(area.start, s, 1)
    <3> HIDE DEF o, area
    <3> QED BY <2>1, <2>5, <2>6, <2>7 DEF PlacedAt
  <2>9. \A k \in DOMAIN lm[s] : k = 1
    BY <2>4
  <2>10. Ordered(lm[s], s)
    BY <2>9 DEF Ordered
  <2> HIDE DEF area
  <2>11. \A k \in DOMAIN lm[s] : Filled(lm[s][k], s) /\ PlacedAt(lm[s][k].start, s, k)
    BY <2>3, <2>4, <2>8, <2>9
  <2> QED BY <2>4, <2>10, <2>11 DEF AreasFit
<1>2. Types
  <2>1. lm \in [Share -> Seq(Area)]
    BY <1>1 DEF Init
  <2>2. free_head \in [Share -> [Count -> Seq(Nat)]]
    BY DEF Init
  <2> QED BY <2>1, <2>2 DEF Init, Types
<1>3. ASSUME NEW s \in Share
      PROVE  ShareFits(lm[s], free_head[s], Held(s))
  <2>1. Held(s) = {}
    BY DEF Init, Held
  <2>2. \A n \in Count : DOMAIN free_head[s][n] = {}
    BY DEF Init
  <2> QED BY <2>1, <2>2 DEF ShareFits
<1> QED BY <1>1, <1>2, <1>3 DEF Inv

\* A step changes one share: what is to be shown of it.
LEMMA OneShareChanges ==
  ASSUME Inv, UNCHANGED <<pfnbuf, page_color>>,
         NEW s \in Share,
         NEW areas, AreasFit(areas, s), lm' = [lm EXCEPT ![s] = areas],
         NEW free \in [Count -> Seq(Nat)], free_head' = [free_head EXCEPT ![s] = free],
         used' \subseteq HeldBlock, status' \in {"running", "faulted", "exited"},
         \A t \in Share : t # s => Held(t)' = Held(t),
         NEW held, held = Held(s)', ShareFits(areas, free, held)
  PROVE  Inv'
<1>1. /\ \A t \in Share : t # s => lm'[t] = lm[t] /\ free_head'[t] = free_head[t]
      /\ lm'[s] = areas /\ free_head'[s] = free
  BY DEF Inv, Types
<1>2. Types'
  <2>1. areas \in Seq(Area)
    BY DEF AreasFit
  <2> QED BY <2>1 DEF Inv, Types
<1>3. \A t \in Share : AreasFit(lm[t], t)'
  <2> SUFFICES ASSUME NEW t \in Share
               PROVE  AreasFit(lm[t], t)'
    OBVIOUS
  <2>1. PICK now : now = lm'[t] /\ AreasFit(now, t)
    <3>1. CASE t = s
      BY <1>1, <3>1
    <3>2. CASE t # s
      BY <1>1, <3>2 DEF Inv
    <3> QED BY <3>1, <3>2
  <2>2. \A k \in DOMAIN now : PlacedAt(now[k].start, t, k)'
    <3> SUFFICES ASSUME NEW k \in DOMAIN now
                 PROVE  PlacedAt(now[k].start, t, k)'
      OBVIOUS
    <3>1. PlacedAt(now[k].start, t, k)
      BY <2>1 DEF AreasFit
    <3> QED BY <3>1 DEF PlacedAt, Fits
  <2> QED BY <2>1, <2>2 DEF AreasFit
<1>4. \A t \in Share : ShareFits(lm[t], free_head[t], Held(t))'
  <2> SUFFICES ASSUME NEW t \in Share
               PROVE  ShareFits(lm[t], free_head[t], Held(t))'
    OBVIOUS
  <2>1. CASE t = s
    <3>1. ShareFits(lm'[s], free_head'[s], Held(s)')
      BY <1>1
    <3> QED BY <2>1, <3>1
  <2>2. CASE t # s
    <3>1. ShareFits(lm[t], free_head[t], Held(t))
      BY DEF Inv
    <3>2. lm'[t] = lm[t] /\ free_head'[t] = free_head[t] /\ Held(t)' = Held(t)
      BY <1>1, <2>2
    <3> QED BY <3>1, <3>2
  <2> QED BY <2>1, <2>2
<1> QED BY <1>2, <1>3, <1>4 DEF Inv

\* What a block is made of.
LEMMA BlockFields ==
  ASSUME NEW p, NEW x, NEW s
  PROVE  /\ Block(p, x, s).p = p /\ Block(p, x, s).nodes = x /\ Block(p, x, s).share = s
         /\ p \in Nat /\ x \in 1 .. MaxNodes /\ s \in Share => Block(p, x, s) \in HeldBlock
BY DEF Block, HeldBlock

\* Handing out a block of the share s.
LEMMA OneMoreHeld ==
  ASSUME NEW s \in Share, NEW b, b.share = s, used' = used \cup {b}
  PROVE  /\ Held(s)' = Held(s) \cup {b}
         /\ \A t \in Share : t # s => Held(t)' = Held(t)
BY DEF Held

\* A block from a free list is one that was apart from all others.
LEMMA AllocFreedInv ==
  ASSUME Inv, NEW x \in 1 .. MaxNodes, NEW s \in Share, AllocFreed(x, s)
  PROVE  Inv'
<1> DEFINE free == [free_head[s] EXCEPT ![x] = Tail(@)]
           b == Block(Head(free_head[s][x]), x, s)
<1>1. /\ lm[s] \in Seq(Area) /\ AreasFit(lm[s], s)
      /\ free_head[s] \in [Count -> Seq(Nat)]
      /\ ShareFits(lm[s], free_head[s], Held(s))
      /\ x \in Count
  BY NodeAssumption DEF Inv, Types, Count
<1>2. /\ free_head[s][x] # <<>> /\ used' = used \cup {b}
      /\ UNCHANGED <<pfnbuf, page_color, lm, status>>
  BY DEF AllocFreed
<1>3. b.p = Head(free_head[s][x]) /\ b.nodes = x /\ b.share = s
  BY BlockFields
<1>4. free_head' = [free_head EXCEPT ![s] = free]
  BY <1>1 DEF AllocFreed, Inv, Types
<1>5. lm' = [lm EXCEPT ![s] = lm[s]]
  BY <1>2 DEF Inv, Types
<1>6. b.p \in Nat => b \in HeldBlock
  BY <1>3, BlockFields
<1>7. Becomes(free, free_head[s], x, Tail(free_head[s][x]))
  BY <1>1, <1>2 DEF Becomes
<1> HIDE DEF free, b
<1>8. /\ b.p \in Nat
      /\ ShareFits(lm[s], free, Held(s) \cup {b})
  BY <1>1, <1>2, <1>3, <1>7, FreedIsTaken
<1>9. used' \subseteq HeldBlock /\ status' \in {"running", "faulted", "exited"}
  BY <1>2, <1>6, <1>8 DEF Inv, Types
<1>10. /\ Held(s)' = Held(s) \cup {b}
       /\ \A t \in Share : t # s => Held(t)' = Held(t)
  BY <1>2, <1>3, OneMoreHeld
<1> QED BY <1>1, <1>2, <1>4, <1>5, <1>7, <1>8, <1>9, <1>10, OneShareChanges DEF Becomes

\* What AllocFromArea finds and takes: there always is an area with room.
LEMMA FoundIsTaken ==
  ASSUME Inv, NEW x \in 1 .. MaxNodes, NEW s \in Share, AllocFromArea(x, s)
  PROVE  \E next, p :
           /\ AreasFit(next, s) /\ p \in Nat
           /\ lm' = [lm EXCEPT ![s] = next]
           /\ HandOut(p, x, s)
           /\ Within(next, p, x)
           /\ \A q, n \in Nat :
                Within(lm[s], q, n) => /\ Within(next, q, n)
                                       /\ Apart(q, n, p, x)
                                       /\ Apart(p, x, q, n)
           /\ UsedUp(lm[s]) => UsedUp(next)
<1>1. PICK found \in find_lma(s, x) :
        LET area == found.areas[found.k]
        IN  IF HasRoom(area, x)
            THEN /\ lm' = [lm EXCEPT ![s] =
                      [found.areas EXCEPT ![found.k] =
                         [area EXCEPT !.alloc = @ + x * NODE_SIZE,
                                      !.left  = @ - x * NODE_SIZE]]]
                 /\ HandOut(area.alloc, x, s)
            ELSE lm' = [lm EXCEPT ![s] = found.areas] /\ UNCHANGED <<used, status>>
  BY DEF AllocFromArea
<1>2. pfnbuf \in [0 .. NR - 1 -> Color] /\ page_color \in [Share -> Color]
      /\ AreasFit(lm[s], s)
  BY Colors DEF Inv, Types
<1>3. /\ AreasFit(found.areas, s)
      /\ found.k \in DOMAIN found.areas
      /\ HasRoom(found.areas[found.k], x)
      /\ \A j \in DOMAIN lm[s] : j \in DOMAIN found.areas
                                 /\ found.areas[j] = lm[s][j]
      /\ UsedUp(lm[s]) => UsedUpBut(found.areas, found.k)
  BY <1>2, FoundFits
<1> DEFINE areas == found.areas
           k == found.k
           b == [areas[k] EXCEPT !.alloc = @ + x * NODE_SIZE,
                                 !.left  = @ - x * NODE_SIZE]
           next == [areas EXCEPT ![k] = b]
           p == areas[k].alloc
<1>4. lm' = [lm EXCEPT ![s] = next] /\ HandOut(p, x, s)
  BY <1>1, <1>3
<1>5. \A q, n : Within(lm[s], q, n) => Within(areas, q, n)
  BY <1>3 DEF Within
<1>6. /\ AreasFit(areas, s) /\ k \in DOMAIN areas /\ HasRoom(areas[k], x)
      /\ UsedUp(lm[s]) => UsedUpBut(areas, k)
  BY <1>3
<1> HIDE DEF areas, k
<1>7. Took(next, areas, k, b, x)
  BY DEF Took
<1> HIDE DEF b, next, p
<1>8. /\ AreasFit(next, s) /\ p \in Nat /\ Within(next, p, x)
      /\ \A q, n \in Nat :
           Within(areas, q, n) => /\ Within(next, q, n)
                                  /\ Apart(q, n, p, x)
                                  /\ Apart(p, x, q, n)
  BY <1>6, <1>7, TakenIsApart DEF p
<1>9. UsedUp(lm[s]) => UsedUp(next)
  BY <1>6, <1>7, TakenIsUsedUp
<1> QED BY <1>4, <1>5, <1>8, <1>9

\* A block cut from an area begins where what was handed out before ends.
LEMMA AllocFromAreaInv ==
  ASSUME Inv, NEW x \in 1 .. MaxNodes, NEW s \in Share, AllocFromArea(x, s)
  PROVE  Inv'
<1>1. PICK next, p :
        /\ AreasFit(next, s) /\ p \in Nat
        /\ lm' = [lm EXCEPT ![s] = next]
        /\ HandOut(p, x, s)
        /\ Within(next, p, x)
        /\ \A q, n \in Nat :
             Within(lm[s], q, n) => /\ Within(next, q, n)
                                    /\ Apart(q, n, p, x)
                                    /\ Apart(p, x, q, n)
  BY FoundIsTaken
<1> DEFINE b == Block(p, x, s)
<1>2. b.p = p /\ b.nodes = x /\ b.share = s /\ b \in HeldBlock
  BY <1>1, BlockFields
<1>3. /\ \/ used' = used \cup {b}
         \/ used' = used
      /\ status' \in {"running", "faulted", "exited"}
  BY <1>1 DEF HandOut, Inv, Types
<1> HIDE DEF b
<1>4. /\ free_head[s] \in [Count -> Seq(Nat)]
      /\ ShareFits(lm[s], free_head[s], Held(s))
      /\ Held(s) \subseteq HeldBlock
      /\ x \in Count
  BY NodeAssumption DEF Inv, Types, Count, Held
<1>5. /\ UNCHANGED <<pfnbuf, page_color>>
      /\ free_head' = [free_head EXCEPT ![s] = free_head[s]]
  BY DEF AllocFromArea, Inv, Types
<1>6. used' \subseteq HeldBlock
  BY <1>2, <1>3 DEF Inv, Types
<1>7. CASE used' = used \cup {b}
  <2>1. ShareFits(next, free_head[s], Held(s) \cup {b})
    BY <1>1, <1>2, <1>4, NewIsTaken
  <2>2. /\ Held(s)' = Held(s) \cup {b}
        /\ \A t \in Share : t # s => Held(t)' = Held(t)
    BY <1>2, <1>7, OneMoreHeld
  <2> QED BY <1>1, <1>3, <1>4, <1>5, <1>6, <2>1, <2>2, OneShareChanges
<1>8. CASE used' = used
  <2>1. \A t \in Share : Held(t)' = Held(t)
    BY <1>8 DEF Held
  <2>2. \A n \in Count : \A i \in DOMAIN free_head[s][n] :
          Within(next, free_head[s][n][i], n)
    <3> SUFFICES ASSUME NEW n \in Count, NEW i \in DOMAIN free_head[s][n]
                 PROVE  Within(next, free_head[s][n][i], n)
      OBVIOUS
    <3>1. n \in Nat /\ free_head[s][n][i] \in Nat
      <4>1. n \in Nat
        <5>1. MaxNodes \in Nat
          BY NodeAssumption
        <5> QED BY <5>1 DEF Count
      <4>2. free_head[s][n] \in Seq(Nat)
        BY <1>4
      <4> QED BY <4>1, <4>2
    <3>2. Within(lm[s], free_head[s][n][i], n)
      BY <1>4 DEF ShareFits
    <3> QED BY <1>1, <3>1, <3>2
  <2>3. \A c \in Held(s) : Within(next, c.p, c.nodes)
    <3> SUFFICES ASSUME NEW c \in Held(s)
                 PROVE  Within(next, c.p, c.nodes)
      OBVIOUS
    <3>1. c.p \in Nat /\ c.nodes \in Nat
      BY <1>4 DEF HeldBlock
    <3>2. Within(lm[s], c.p, c.nodes)
      BY <1>4 DEF ShareFits
    <3> QED BY <1>1, <3>1, <3>2
  <2>4. ShareFits(next, free_head[s], Held(s))
    BY <1>4, <2>2, <2>3 DEF ShareFits
  <2> QED BY <1>1, <1>3, <1>4, <1>5, <1>6, <2>1, <2>4, OneShareChanges
<1> QED BY <1>3, <1>7, <1>8

\* A block given back, at most of its size, lies where it lay.
LEMMA DeallocInv ==
  ASSUME Inv, NEW b \in used, NEW x \in Count, Dealloc(b, x)
  PROVE  Inv'
<1> DEFINE s == b.share
           free == [free_head[s] EXCEPT ![x] = <<b.p>> \o @]
<1>1. b \in HeldBlock /\ s \in Share /\ b \in Held(s)
  BY DEF Inv, Types, HeldBlock, Held
<1>2. /\ lm[s] \in Seq(Area) /\ AreasFit(lm[s], s)
      /\ free_head[s] \in [Count -> Seq(Nat)]
      /\ ShareFits(lm[s], free_head[s], Held(s))
      /\ Held(s) \subseteq HeldBlock
  BY <1>1 DEF Inv, Types, Held
<1>3. /\ x <= b.nodes /\ used' = used \ {b}
      /\ UNCHANGED <<pfnbuf, page_color, lm, status>>
  BY DEF Dealloc
<1>4. free_head' = [free_head EXCEPT ![s] = free]
  BY <1>1, <1>2 DEF Dealloc, Inv, Types
<1>5. lm' = [lm EXCEPT ![s] = lm[s]]
  BY <1>3 DEF Inv, Types
<1>6. Becomes(free, free_head[s], x, <<b.p>> \o free_head[s][x])
  <2>1. b.p \in Nat
    BY <1>1 DEF HeldBlock
  <2>2. free_head[s][x] \in Seq(Nat)
    BY <1>2
  <2>3. <<b.p>> \o free_head[s][x] \in Seq(Nat)
    BY <2>1, <2>2
  <2> QED BY <1>2, <2>3 DEF Becomes
<1>7. /\ Held(s)' = Held(s) \ {b}
      /\ \A t \in Share : t # s => Held(t)' = Held(t)
  BY <1>3 DEF Held
<1> HIDE DEF free, s
<1>8. ShareFits(lm[s], free, Held(s) \ {b})
  BY <1>1, <1>2, <1>3, <1>6, HeldIsGivenBack
<1>9. used' \subseteq HeldBlock /\ status' \in {"running", "faulted", "exited"}
  BY <1>3 DEF Inv, Types
<1> QED BY <1>1, <1>2, <1>3, <1>4, <1>5, <1>6, <1>7, <1>8, <1>9, OneShareChanges DEF Becomes

\* Nothing but how the process ended has changed.
LEMMA SameInv ==
  ASSUME Inv, UNCHANGED <<pfnbuf, page_color, lm, free_head, used>>,
         status' \in {"running", "faulted", "exited"}
  PROVE  Inv'
<1>1. /\ pfnbuf' = pfnbuf /\ page_color' = page_color /\ lm' = lm
      /\ free_head' = free_head /\ used' = used
  OBVIOUS
<1>2. 0 \in Share
  BY DEF Share
<1>3. /\ lm' = [lm EXCEPT ![0] = lm[0]]
      /\ free_head' = [free_head EXCEPT ![0] = free_head[0]]
      /\ free_head[0] \in [Count -> Seq(Nat)]
      /\ used' \subseteq HeldBlock
  BY <1>1, <1>2 DEF Inv, Types
<1>4. \A t \in Share : Held(t)' = Held(t)
  BY <1>1 DEF Held
<1>5. AreasFit(lm[0], 0) /\ ShareFits(lm[0], free_head[0], Held(0))
  BY <1>2 DEF Inv
<1> QED BY <1>1, <1>2, <1>3, <1>4, <1>5, OneShareChanges

\* Every step keeps the invariant.
LEMMA StepInv == Inv /\ [Next]_vars => Inv'
<1> SUFFICES ASSUME Inv, [Next]_vars
             PROVE  Inv'
  OBVIOUS
<1>1. status \in {"running", "faulted", "exited"}
  BY DEF Inv, Types
<1>2. ASSUME NEW x \in 1 .. MaxNodes, NEW level \in Share, Alloc(x, level)
      PROVE  Inv'
  <2>1. ShareOf(level) \in Share
    BY DEF ShareOf, Share
  <2>2. CASE AllocFreed(x, ShareOf(level))
    BY <2>1, <2>2, AllocFreedInv
  <2>3. CASE AllocFromArea(x, ShareOf(level))
    BY <2>1, <2>3, AllocFromAreaInv
  <2>4. CASE AllocFails(x, ShareOf(level))
    BY <1>1, <2>4, SameInv DEF AllocFails, vars
  <2> QED BY <1>2, <2>2, <2>3, <2>4 DEF Alloc
<1>3. ASSUME NEW b \in used, NEW x \in Count, Dealloc(b, x)
      PROVE  Inv'
  BY <1>3, DeallocInv
<1>4. CASE DeallocFails
  BY <1>4, SameInv DEF DeallocFails
<1>5. CASE UNCHANGED vars
  BY <1>1, <1>5, SameInv DEF vars
<1> QED BY <1>2, <1>3, <1>4, <1>5 DEF Next

\* The invariant holds in every reachable state of the allocator.
THEOREM InvHolds == Spec => []Inv
BY InitInv, StepInv, PTL DEF Spec

-----------------------------------------------------------------------------
\* From it follow the types,
LEMMA InvTypeOK == Inv => TypeOK
<1> SUFFICES ASSUME Inv
             PROVE  TypeOK
  OBVIOUS
<1>1. pfnbuf \in [0 .. NR - 1 -> Color] /\ page_color \in [Share -> Color]
  BY Colors DEF Inv, Types
<1>2. ASSUME NEW s \in Share
      PROVE  /\ Len(lm[s]) >= 1
             /\ \A k \in DOMAIN lm[s] :
                  lm[s][k] \in Area
                  /\ lm[s][k].alloc + lm[s][k].left = lm[s][k].start + Size(s)
             /\ \A n \in Count : \A k \in DOMAIN free_head[s][n] :
                  free_head[s][n][k] \in Nat
  BY DEF Inv, AreasFit, Filled, Types
<1>3. \A b \in used : b.p \in Nat /\ b.nodes \in 1 .. MaxNodes /\ b.share \in Share
  BY DEF Inv, Types, HeldBlock
<1>4. status \in {"running", "faulted", "exited"}
  BY DEF Inv, Types
<1> QED BY <1>1, <1>2, <1>3, <1>4 DEF TypeOK

\* Whatever is taken and freed in mm_color.c, every area keeps the size of its
\* share between what it has handed out and what is left.
THEOREM TypeCorrect == Spec => []TypeOK
BY InvHolds, InvTypeOK, PTL

\* that blocks do not overlap,
LEMMA InvDisjoint == Inv => BlocksAreDisjoint
<1> SUFFICES ASSUME Inv, NEW s \in Share
             PROVE  LET blocks == FreedBlocks(s) \cup UsedBlocks(s)
                    IN  /\ \A a, b \in blocks :
                             a # b => Disjoint(a.p, a.nodes * NODE_SIZE,
                                               b.p, b.nodes * NODE_SIZE)
                        /\ \A b \in blocks : \E k \in DOMAIN lm[s] :
                             /\ lm[s][k].start <= b.p
                             /\ b.p + b.nodes * NODE_SIZE <= lm[s][k].alloc
  BY DEF BlocksAreDisjoint
<1>1. ShareFits(lm[s], free_head[s], Held(s))
  BY DEF Inv
<1>2. ASSUME NEW a \in FreedBlocks(s)
      PROVE  \E n \in Count : \E i \in DOMAIN free_head[s][n] :
               /\ a = [p |-> free_head[s][n][i], nodes |-> n, at |-> <<n, i>>]
               /\ a.p = free_head[s][n][i] /\ a.nodes = n
  BY <1>2 DEF FreedBlocks
<1>3. ASSUME NEW a \in UsedBlocks(s)
      PROVE  \E c \in Held(s) :
               /\ a = [p |-> c.p, nodes |-> c.nodes, at |-> <<>>]
               /\ a.p = c.p /\ a.nodes = c.nodes
  BY <1>3 DEF UsedBlocks, Held
<1>4. ASSUME NEW a \in FreedBlocks(s) \cup UsedBlocks(s)
      PROVE  Within(lm[s], a.p, a.nodes)
  <2>1. CASE a \in FreedBlocks(s)
    BY <1>1, <1>2, <2>1 DEF ShareFits
  <2>2. CASE a \in UsedBlocks(s)
    BY <1>1, <1>3, <2>2 DEF ShareFits
  <2> QED BY <2>1, <2>2
<1>5. ASSUME NEW a \in FreedBlocks(s) \cup UsedBlocks(s),
             NEW b \in FreedBlocks(s) \cup UsedBlocks(s), a # b
      PROVE  Apart(a.p, a.nodes, b.p, b.nodes)
  <2>1. CASE a \in FreedBlocks(s) /\ b \in FreedBlocks(s)
    <3>1. PICK m \in Count : \E i \in DOMAIN free_head[s][m] :
            /\ a = [p |-> free_head[s][m][i], nodes |-> m, at |-> <<m, i>>]
            /\ a.p = free_head[s][m][i] /\ a.nodes = m
      BY <1>2, <2>1
    <3>2. PICK i \in DOMAIN free_head[s][m] :
            /\ a = [p |-> free_head[s][m][i], nodes |-> m, at |-> <<m, i>>]
            /\ a.p = free_head[s][m][i] /\ a.nodes = m
      BY <3>1
    <3>3. PICK n \in Count : \E j \in DOMAIN free_head[s][n] :
            /\ b = [p |-> free_head[s][n][j], nodes |-> n, at |-> <<n, j>>]
            /\ b.p = free_head[s][n][j] /\ b.nodes = n
      BY <1>2, <2>1
    <3>4. PICK j \in DOMAIN free_head[s][n] :
            /\ b = [p |-> free_head[s][n][j], nodes |-> n, at |-> <<n, j>>]
            /\ b.p = free_head[s][n][j] /\ b.nodes = n
      BY <3>3
    <3>5. m # n \/ i # j
      BY <1>5, <3>2, <3>4
    <3>6. Apart(free_head[s][m][i], m, free_head[s][n][j], n)
      BY <1>1, <3>5 DEF ShareFits
    <3> QED BY <3>2, <3>4, <3>6
  <2>2. CASE a \in UsedBlocks(s) /\ b \in FreedBlocks(s)
    BY <1>1, <1>2, <1>3, <2>2 DEF ShareFits
  <2>3. CASE a \in FreedBlocks(s) /\ b \in UsedBlocks(s)
    BY <1>1, <1>2, <1>3, <2>3 DEF ShareFits
  <2>4. CASE a \in UsedBlocks(s) /\ b \in UsedBlocks(s)
    <3>1. PICK c \in Held(s) : /\ a = [p |-> c.p, nodes |-> c.nodes, at |-> <<>>]
                               /\ a.p = c.p /\ a.nodes = c.nodes
      BY <1>3, <2>4
    <3>2. PICK d \in Held(s) : /\ b = [p |-> d.p, nodes |-> d.nodes, at |-> <<>>]
                               /\ b.p = d.p /\ b.nodes = d.nodes
      BY <1>3, <2>4
    <3>3. c # d
      BY <1>5, <3>1, <3>2
    <3>4. Apart(c.p, c.nodes, d.p, d.nodes)
      BY <1>1, <3>3 DEF ShareFits
    <3> QED BY <3>1, <3>2, <3>4
  <2> QED BY <2>1, <2>2, <2>3, <2>4
<1> QED BY <1>4, <1>5 DEF Apart, Within

\* mc_alloc_node and mc_dealloc_node never give two callers the same memory,
\* though a caller may free a block with too small a size.
THEOREM NoMemoryTwice == Spec => []BlocksAreDisjoint
BY InvHolds, InvDisjoint, PTL

-----------------------------------------------------------------------------
\* What is known of the place (g, o) of an area of s.
LEMMA PlaceIsColored ==
  ASSUME Types, NEW s \in Share, NEW area \in Area, NEW g \in Nat, NEW o \in Nat,
         area.start = Pos(g, o), Fits(g, o, s)
  PROVE  Colored(area, s) /\ area.start \div HPAGE_SIZE = g
<1>1. /\ area.start \div HPAGE_SIZE = g
      /\ (area.start + Size(s) - 1) \div HPAGE_SIZE = g
      /\ area.start % PAGE_SIZE = 0
      /\ area.start \div PAGE_SIZE = g * PagesOf + o
  BY PlaceTells DEF Fits
<1>2. ASSUME g < NR
      PROVE  (pfnbuf[g] + area.start \div PAGE_SIZE) % PAGE_COLORS = page_color[s]
  <2>1. PICK m \in Int : pfnbuf[g] + o = page_color[s] + m * PAGE_COLORS
    BY <1>2 DEF Fits
  <2>2. pfnbuf[g] \in Int /\ page_color[s] \in 0 .. PAGE_COLORS - 1
    BY <1>2, Colors, Sizes DEF Types, Color
  <2>3. g * PagesOf = (g * Periods) * PAGE_COLORS /\ g * Periods \in Int
    <3>1. PagesOf = Periods * PAGE_COLORS /\ Periods \in Nat /\ PAGE_COLORS \in Nat
      BY Sizes DEF PagesOf
    <3> QED BY <3>1
  <2> DEFINE q == g * Periods
             c == page_color[s]
             x == pfnbuf[g]
  <2>4. x + (g * PagesOf + o) = (m + q) * PAGE_COLORS + c
    <3>1. x + o = c + m * PAGE_COLORS /\ g * PagesOf = q * PAGE_COLORS /\ q \in Int
          /\ x \in Int /\ c \in Int /\ PAGE_COLORS \in Nat
      BY <2>1, <2>2, <2>3, Sizes
    <3> DEFINE y == g * PagesOf
    <3>2. x + o = c + m * PAGE_COLORS /\ y = q * PAGE_COLORS
      BY <3>1
    <3> HIDE DEF q, c, x, y
    <3>3. m * PAGE_COLORS \in Int /\ q * PAGE_COLORS \in Int
          /\ (m + q) * PAGE_COLORS = m * PAGE_COLORS + q * PAGE_COLORS
      BY <3>1
    <3>4. x + (y + o) = (m + q) * PAGE_COLORS + c
      BY <3>1, <3>2, <3>3
    <3> QED BY <3>4 DEF y
  <2>5. m + q \in Int
    BY <2>3
  <2>6. c \in 0 .. PAGE_COLORS - 1
    BY <2>2
  <2> DEFINE mq == m + q
  <2>7. mq \in Int /\ x + (g * PagesOf + o) = mq * PAGE_COLORS + c
    BY <2>4, <2>5
  <2> HIDE DEF q, c, mq
  <2>8. (mq * PAGE_COLORS + c) % PAGE_COLORS = c
    BY <2>6, <2>7, Sizes, DivModIs
  <2> QED BY <1>1, <2>7, <2>8 DEF c
<1> QED BY <1>1, <1>2 DEF Colored

\* The areas of two shares in the same huge page.
LEMMA ApartInPage ==
  ASSUME Types, NEW s \in Share, NEW t \in Share, s < t,
         NEW g \in 0 .. NR - 1, NEW o \in Nat, NEW v \in Nat,
         Fits(g, o, s), Fits(g, v, t)
  PROVE  o + Pages[s] <= v \/ v + Pages[t] <= o
<1> DEFINE a == pfnbuf[0] + PagesBefore(s)
           b == pfnbuf[0] + PagesBefore(t)
           C == PAGE_COLORS
<1>1. /\ pfnbuf[0] \in Int /\ pfnbuf[g] \in Int /\ C \in Nat /\ C > 0
      /\ g < NR /\ PagesBefore(s) \in Nat /\ PagesBefore(t) \in Nat
      /\ Pages[s] \in Nat /\ Pages[t] \in Nat
      /\ PagesBefore(s) + Pages[s] <= PagesBefore(t)
      /\ PagesBefore(t) + Pages[t] <= C
  <2>1. /\ C \in Nat /\ C > 0 /\ NR \in Nat /\ NR > 0 /\ g < NR
    BY Sizes
  <2>2. pfnbuf[0] \in Int /\ pfnbuf[g] \in Int
    BY <2>1 DEF Types, Color
  <2>3. /\ PagesBefore(s) \in Nat /\ PagesBefore(t) \in Nat
        /\ Pages[s] \in Nat /\ Pages[t] \in Nat
        /\ PagesBefore(s) + Pages[s] <= PagesBefore(t)
        /\ PagesBefore(t) + Pages[t] <= C
    BY Shares
  <2> QED BY <2>1, <2>2, <2>3
<1>2. PICK m \in Int : pfnbuf[g] + o = page_color[s] + m * C
  BY <1>1 DEF Fits
<1>3. PICK n \in Int : pfnbuf[g] + v = page_color[t] + n * C
  BY <1>1 DEF Fits
<1>4. page_color[s] = a % C /\ page_color[t] = b % C
  BY DEF Types
<1>5. a \in Int /\ b \in Int
  BY <1>1
<1> DEFINE qa == a \div C
           ra == a % C
           qb == b \div C
           rb == b % C
<1>6. /\ qa \in Int /\ ra \in Int /\ a = qa * C + ra
      /\ qb \in Int /\ rb \in Int /\ b = qb * C + rb
  <2> HIDE DEF a, b, C
  <2> QED BY <1>1, <1>5, DivModExist
<1>7. pfnbuf[g] + o = ra + m * C /\ pfnbuf[g] + v = rb + n * C
  BY <1>2, <1>3, <1>4
<1> DEFINE z == (m - qa) - (n - qb)
<1>8. o - v = PagesBefore(s) - PagesBefore(t) + z * C
  <2>1. /\ m * C \in Int /\ n * C \in Int /\ qa * C \in Int /\ qb * C \in Int
        /\ z * C = (m * C - qa * C) - (n * C - qb * C)
    <3> HIDE DEF a, b, C, qa, qb
    <3> QED BY <1>1, <1>6
  <2>2. PagesBefore(s) - PagesBefore(t) = a - b
    BY <1>1
  <2> HIDE DEF a, b, C, qa, qb, ra, rb, z
  <2>3. o - v = (ra + m * C) - (rb + n * C)
    BY <1>1, <1>7
  <2> QED BY <1>5, <1>6, <2>1, <2>2, <2>3
<1>9. z \in Int
  <2> HIDE DEF qa, qb
  <2> QED BY <1>6
<1> HIDE DEF z, C, a, b, qa, qb, ra, rb
<1>10. CASE z <= 0
  <2>1. z * C <= 0 * C
    BY <1>1, <1>9, <1>10, ScaleOrder
  <2>2. z * C \in Int
    BY <1>1, <1>9
  <2> QED BY <1>1, <1>8, <2>1, <2>2
<1>11. CASE z >= 1
  <2>1. 1 * C <= z * C
    BY <1>1, <1>9, <1>11, ScaleOrder
  <2>2. z * C \in Int
    BY <1>1, <1>9
  <2> QED BY <1>1, <1>8, <2>1, <2>2
<1> QED BY <1>9, <1>10, <1>11

\* Areas at places that do not overlap have no memory in common.
LEMMA PlacesApart ==
  ASSUME NEW s \in Share, NEW t \in Share,
         NEW g \in Nat, NEW o \in Nat, NEW h \in Nat, NEW v \in Nat,
         Fits(g, o, s), Fits(h, v, t),
         g = h => o + Pages[s] <= v \/ v + Pages[t] <= o
  PROVE  Disjoint(Pos(g, o), Size(s), Pos(h, v), Size(t))
<1>1. /\ Pos(g, o) \in Nat /\ g * HPAGE_SIZE <= Pos(g, o)
      /\ Pos(g, o) + Size(s) <= (g + 1) * HPAGE_SIZE
      /\ Pos(h, v) \in Nat /\ h * HPAGE_SIZE <= Pos(h, v)
      /\ Pos(h, v) + Size(t) <= (h + 1) * HPAGE_SIZE
  BY PlaceTells DEF Fits
<1>2. /\ HPAGE_SIZE \in Nat /\ Size(s) \in Nat /\ Size(t) \in Nat /\ PAGE_SIZE \in Nat
      /\ Size(s) = Pages[s] * PAGE_SIZE /\ Size(t) = Pages[t] * PAGE_SIZE
      /\ Pages[s] \in Nat /\ Pages[t] \in Nat
  BY Sizes, Shares
<1>3. /\ g * HPAGE_SIZE \in Int /\ (g + 1) * HPAGE_SIZE \in Int
      /\ h * HPAGE_SIZE \in Int /\ (h + 1) * HPAGE_SIZE \in Int
  BY <1>2
<1>4. CASE g < h
  <2>1. (g + 1) * HPAGE_SIZE <= h * HPAGE_SIZE
    BY <1>2, <1>4, ScaleOrder
  <2> QED BY <1>1, <1>2, <1>3, <2>1 DEF Disjoint
<1>5. CASE h < g
  <2>1. (h + 1) * HPAGE_SIZE <= g * HPAGE_SIZE
    BY <1>2, <1>5, ScaleOrder
  <2> QED BY <1>1, <1>2, <1>3, <2>1 DEF Disjoint
<1>6. CASE g = h
  <2>1. CASE o + Pages[s] <= v
    <3>1. (o + Pages[s]) * PAGE_SIZE <= v * PAGE_SIZE
      BY <1>2, <2>1, ScaleOrder
    <3>2. Pos(g, o) + Size(s) = g * HPAGE_SIZE + (o + Pages[s]) * PAGE_SIZE
      BY <1>2 DEF Pos
    <3>3. (o + Pages[s]) * PAGE_SIZE \in Int /\ v * PAGE_SIZE \in Int
      BY <1>2
    <3> QED BY <1>3, <1>6, <3>1, <3>2, <3>3 DEF Disjoint, Pos
  <2>2. CASE v + Pages[t] <= o
    <3>1. (v + Pages[t]) * PAGE_SIZE <= o * PAGE_SIZE
      BY <1>2, <2>2, ScaleOrder
    <3>2. Pos(h, v) + Size(t) = h * HPAGE_SIZE + (v + Pages[t]) * PAGE_SIZE
      BY <1>2 DEF Pos
    <3>3. (v + Pages[t]) * PAGE_SIZE \in Int /\ o * PAGE_SIZE \in Int
      BY <1>2
    <3> QED BY <1>3, <1>6, <3>1, <3>2, <3>3 DEF Disjoint, Pos
  <2> QED BY <1>6, <2>1, <2>2
<1> QED BY <1>4, <1>5, <1>6

\* and that areas have their colours and do not overlap.
LEMMA InvPlaced == Inv => AreasAreWellPlaced
<1> SUFFICES ASSUME Inv, NEW s \in Share, NEW k \in DOMAIN lm[s]
             PROVE  LET area == lm[s][k]
                    IN  /\ Colored(area, s)
                        /\ area.start \div HPAGE_SIZE <= (k - 1) \div PerPage
                        /\ area.start < MEMORY_SIZE =>
                             \A t \in Share : \A j \in DOMAIN lm[t] :
                               <<s, k>> # <<t, j>> =>
                                 Disjoint(area.start, Size(s), lm[t][j].start, Size(t))
  BY DEF AreasAreWellPlaced
<1>1. /\ Types
      /\ \A t \in Share : lm[t] \in Seq(Area) /\ AreasFit(lm[t], t)
  BY DEF Inv, Types
<1>2. /\ k \in Nat /\ k >= 1 /\ lm[s][k] \in Area
      /\ PlacedAt(lm[s][k].start, s, k)
  BY <1>1 DEF AreasFit
<1>3. PICK g \in Nat, o \in Nat :
        lm[s][k].start = Pos(g, o) /\ Fits(g, o, s) /\ Reached(g, o, k)
  BY <1>2 DEF PlacedAt
<1>4. Colored(lm[s][k], s) /\ lm[s][k].start \div HPAGE_SIZE = g
  BY <1>1, <1>2, <1>3, PlaceIsColored
<1>5. g <= (k - 1) \div PerPage
  <2>1. PICK i \in Nat : k - 1 >= g * PerPage + i
    BY <1>3 DEF Reached
  <2>2. PerPage \in Nat /\ PerPage >= 1
    BY Sizes
  <2> DEFINE q == (k - 1) \div PerPage
             r == (k - 1) % PerPage
  <2>3. q \in Int /\ r \in 0 .. PerPage - 1 /\ k - 1 = q * PerPage + r
    <3> DEFINE a == k - 1
    <3>1. a \in Int
      BY <1>2
    <3> HIDE DEF a
    <3>2. /\ a \div PerPage \in Int /\ a % PerPage \in 0 .. PerPage - 1
          /\ a = (a \div PerPage) * PerPage + (a % PerPage)
      BY <2>2, <3>1, DivModExist
    <3> QED BY <3>2 DEF a
  <2> HIDE DEF q, r
  <2>4. SUFFICES ASSUME q + 1 <= g
                 PROVE  FALSE
    BY <2>3 DEF q
  <2>5. (q + 1) * PerPage <= g * PerPage
    BY <2>2, <2>3, <2>4, ScaleOrder
  <2>6. (q + 1) * PerPage = q * PerPage + PerPage /\ q * PerPage \in Int
        /\ g * PerPage \in Int
    BY <2>2, <2>3
  <2> QED BY <1>2, <2>1, <2>2, <2>3, <2>5, <2>6
<1>6. ASSUME lm[s][k].start < MEMORY_SIZE,
             NEW t \in Share, NEW j \in DOMAIN lm[t], <<s, k>> # <<t, j>>
      PROVE  Disjoint(lm[s][k].start, Size(s), lm[t][j].start, Size(t))
  <2>1. j \in Nat /\ lm[t][j] \in Area /\ PlacedAt(lm[t][j].start, t, j)
    BY <1>1 DEF AreasFit
  <2>2. CASE s = t
    <3>1. k # j
      BY <1>6, <2>2
    <3>2. Ordered(lm[s], s)
      BY <1>1 DEF AreasFit
    <3>3. CASE k < j
      BY <2>2, <3>2, <3>3 DEF Ordered, Disjoint
    <3>4. CASE j < k
      BY <2>2, <3>2, <3>4 DEF Ordered, Disjoint
    <3> QED BY <1>2, <2>1, <3>1, <3>3, <3>4
  <2>3. CASE s # t
    <3>1. PICK h \in Nat, v \in Nat : lm[t][j].start = Pos(h, v) /\ Fits(h, v, t)
      BY <2>1 DEF PlacedAt
    <3>2. g < NR
      <4>1. NR \in Nat /\ HPAGE_SIZE \in Nat
        BY Sizes
      <4>2. SUFFICES ASSUME NR <= g
                     PROVE  FALSE
        BY <4>1
      <4>3. NR * HPAGE_SIZE <= g * HPAGE_SIZE
        BY <4>1, <4>2, ScaleOrder
      <4>4. g * HPAGE_SIZE <= Pos(g, o) /\ Pos(g, o) \in Nat
        BY <1>3, PlaceTells DEF Fits
      <4>5. g * HPAGE_SIZE \in Int /\ NR * HPAGE_SIZE \in Int
        BY <4>1
      <4> QED BY <1>3, <1>6, <4>3, <4>4, <4>5 DEF MEMORY_SIZE
    <3>3. ASSUME g = h
          PROVE  o + Pages[s] <= v \/ v + Pages[t] <= o
      <4>1. g \in 0 .. NR - 1
        BY <3>2, Sizes
      <4>2. s < t \/ t < s
        BY <2>3 DEF Share
      <4>3. CASE s < t
        BY <1>1, <1>3, <3>1, <3>3, <4>1, <4>3, ApartInPage
      <4>4. CASE t < s
        BY <1>1, <1>3, <3>1, <3>3, <4>1, <4>4, ApartInPage
      <4> QED BY <4>2, <4>3, <4>4
    <3> QED BY <1>3, <3>1, <3>3, PlacesApart
  <2> QED BY <2>2, <2>3
<1> QED BY <1>4, <1>5, <1>6

\* lma_init places the areas of the three shares on pages of their own colours,
\* uses the huge pages up in order, and never over one another, although it looks
\* only at the last area of its share.
THEOREM PlacedByColor == Spec => []AreasAreWellPlaced
BY InvHolds, InvPlaced, PTL

-----------------------------------------------------------------------------
\* A block that ends behind the memory lies in an area that is not one of the
\* first NR * PerPage of its share.
LEMMA PastTheEnd ==
  ASSUME NEW s \in Share, NEW areas, AreasFit(areas, s),
         NEW x \in 1 .. MaxNodes, NEW p \in Nat, Within(areas, p, x),
         p + x * NODE_SIZE > MEMORY_SIZE
  PROVE  Len(areas) > NR * PerPage
<1>1. PICK k \in DOMAIN areas :
        areas[k].start <= p /\ p + x * NODE_SIZE <= areas[k].alloc
  BY DEF Within
<1>2. /\ areas \in Seq(Area) /\ Len(areas) \in Nat /\ k \in 1 .. Len(areas)
      /\ areas[k] \in Area /\ Filled(areas[k], s)
      /\ PlacedAt(areas[k].start, s, k)
  BY DEF AreasFit
<1>3. PICK g \in Nat, o \in Nat :
        areas[k].start = Pos(g, o) /\ Fits(g, o, s) /\ Reached(g, o, k)
  BY <1>2 DEF PlacedAt
<1>4. PICK i \in Nat : k - 1 >= g * PerPage + i
  BY <1>3 DEF Reached
<1>5. /\ areas[k].start + Size(s) <= (g + 1) * HPAGE_SIZE
      /\ areas[k].start \in Nat /\ areas[k].alloc \in Nat /\ areas[k].left \in Nat
      /\ areas[k].alloc + areas[k].left = areas[k].start + Size(s)
  BY <1>2, <1>3, PlaceTells DEF Fits, Filled, Area
<1>6. /\ NR \in Nat /\ HPAGE_SIZE \in Nat /\ PerPage \in Nat /\ Size(s) \in Nat
      /\ x * NODE_SIZE \in Int
  BY Sizes, Shares, NodeAssumption
<1>7. NR <= g
  <2> SUFFICES ASSUME g + 1 <= NR
               PROVE  FALSE
    BY <1>6
  <2>1. (g + 1) * HPAGE_SIZE <= NR * HPAGE_SIZE
    BY <1>6, ScaleOrder
  <2>2. (g + 1) * HPAGE_SIZE \in Int /\ NR * HPAGE_SIZE \in Int
    BY <1>6
  <2> QED BY <1>1, <1>5, <1>6, <2>1, <2>2 DEF MEMORY_SIZE
<1>8. NR * PerPage <= g * PerPage
  BY <1>6, <1>7, ScaleOrder
<1>9. NR * PerPage \in Int /\ g * PerPage \in Int
  BY <1>6
<1> QED BY <1>2, <1>4, <1>8, <1>9

\* Every share is used up, and the memory where the process faults.
UsedUpInv ==
  /\ \A s \in Share : UsedUp(lm[s])
  /\ status = "faulted" => \E s \in Share : Len(lm[s]) > NR * PerPage

\* Of the first areas nothing is asked.
LEMMA InitUsedUp == Init => UsedUpInv
<1> SUFFICES ASSUME Init, NEW s \in Share
             PROVE  UsedUp(lm[s]) /\ status # "faulted"
  BY DEF UsedUpInv, Init
<1>1. lm[s] = <<NewArea(PagesBefore(s) * PAGE_SIZE, s)>>
  BY DEF Init
<1> DEFINE area == NewArea(PagesBefore(s) * PAGE_SIZE, s)
<1>2. lm[s] = <<area>>
  BY <1>1
<1> HIDE DEF area
<1>3. Len(lm[s]) = 1 /\ \A j \in DOMAIN lm[s] : j = 1
  BY <1>2
<1>4. UsedUp(lm[s])
  BY <1>3 DEF UsedUp
<1> QED BY <1>4 DEF Init

\* A step adds an area, or takes from one.
LEMMA StepUsedUp == Inv /\ UsedUpInv /\ [Next]_vars => UsedUpInv'
<1> SUFFICES ASSUME Inv, UsedUpInv, [Next]_vars
             PROVE  UsedUpInv'
  OBVIOUS
<1>1. ASSUME lm' = lm, status' = status \/ status' # "faulted"
      PROVE  UsedUpInv'
  BY <1>1 DEF UsedUpInv
<1>2. ASSUME NEW x \in 1 .. MaxNodes, NEW s \in Share, AllocFromArea(x, s),
             status = "running"
      PROVE  UsedUpInv'
  <2>1. PICK next, p :
          /\ AreasFit(next, s) /\ p \in Nat
          /\ lm' = [lm EXCEPT ![s] = next]
          /\ HandOut(p, x, s)
          /\ Within(next, p, x)
          /\ UsedUp(lm[s]) => UsedUp(next)
    BY <1>2, FoundIsTaken
  <2>2. /\ lm'[s] = next /\ UsedUp(next)
        /\ \A t \in Share : t # s => lm'[t] = lm[t]
    BY <2>1 DEF UsedUpInv, Inv, Types
  <2>3. \A t \in Share : UsedUp(lm[t])'
    <3> SUFFICES ASSUME NEW t \in Share
                 PROVE  UsedUp(lm'[t])
      BY DEF UsedUp
    <3>1. t = s => lm'[t] = next
      BY <2>2
    <3>2. t # s => lm'[t] = lm[t] /\ UsedUp(lm[t])
      BY <2>2 DEF UsedUpInv
    <3> QED BY <2>2, <3>1, <3>2
  <2>4. ASSUME status' = "faulted"
        PROVE  Len(lm'[s]) > NR * PerPage
    <3>1. p + x * NODE_SIZE > MEMORY_SIZE
      BY <1>2, <2>1, <2>4 DEF HandOut
    <3>2. Len(next) > NR * PerPage
      BY <2>1, <3>1, PastTheEnd
    <3> QED BY <2>2, <3>2
  <2>5. (NR * PerPage)' = NR * PerPage
    BY DEF PerPage
  <2> QED BY <2>3, <2>4, <2>5 DEF UsedUpInv
<1>3. ASSUME NEW x \in 1 .. MaxNodes, NEW level \in Share, Alloc(x, level),
             status = "running"
      PROVE  UsedUpInv'
  <2>1. ShareOf(level) \in Share
    BY DEF ShareOf, Share
  <2>2. CASE AllocFreed(x, ShareOf(level))
    BY <1>1, <2>2 DEF AllocFreed
  <2>3. CASE AllocFromArea(x, ShareOf(level))
    BY <1>2, <1>3, <2>1, <2>3
  <2>4. CASE AllocFails(x, ShareOf(level))
    BY <1>1, <2>4 DEF AllocFails, vars
  <2> QED BY <1>3, <2>2, <2>3, <2>4 DEF Alloc
<1>4. ASSUME NEW b \in used, NEW x \in Count, Dealloc(b, x)
      PROVE  UsedUpInv'
  BY <1>1, <1>4 DEF Dealloc
<1>5. CASE DeallocFails
  BY <1>1, <1>5 DEF DeallocFails
<1>6. CASE UNCHANGED vars
  BY <1>1, <1>6 DEF vars
<1> QED BY <1>3, <1>4, <1>5, <1>6 DEF Next

\* The invariant is what MemoryIsUsedUp says.
LEMMA UsedUpTells == UsedUpInv => MemoryIsUsedUp
BY DEF UsedUpInv, UsedUp, MemoryIsUsedUp

\* find_lma adds an area only when a request fits in no other, lma_alloc then
\* finds room in it, and an area past the end of the memory is reached only when
\* the share has had all those before.
THEOREM UsedUpFirst == Spec => []MemoryIsUsedUp
BY InvHolds, InitUsedUp, StepUsedUp, UsedUpTells, PTL DEF Spec

=============================================================================
