---------------------------- MODULE WindowsProofs ----------------------------
(***************************************************************************)
(* Proofs about Windows, for any number of applications up to nine, and    *)
(* any points and bounds. First the geometry, on every screen that has     *)
(* room for nine tiles: tiling, dragging, resizing, strips, snap slots and *)
(* full screen all lead to regions that can be reached. Then the state:    *)
(* every region kept anywhere, for a window to go back to, for a drag or a *)
(* resize to start from or for a release to judge by, is such a region, so *)
(* that it does not matter how stale it is when it is used. Then the shape *)
(* of the state, on any screen. Last the tilings: the tiles of windows     *)
(* whose hints fit are apart and, by the sum of their areas, leave no gap, *)
(* and a hint that does not fit makes its window cover another.            *)
(***************************************************************************)
EXTENDS Windows, FiniteSetTheorems, WellFoundedInduction, NaturalsInduction, TLAPS

(* Three rows of three tiles fit beside the dock, a tile is not smaller    *)
(* than a strip is high, nor wider than a strip is long, and there is room *)
(* for strips one above the other.                                         *)
Roomy ==
    /\ 0 < MIN_W /\ 3 * MIN_W <= SW
    /\ 0 < MIN_H /\ 3 * MIN_H + DOCK_STRIP_H <= SH - MENUBAR_H
    /\ STRIP_H <= MIN_H /\ STRIP_H <= DOCK_STRIP_H
    /\ MIN_W <= STRIP_W /\ STRIP_W <= SW /\ 10 * STRIP_H <= SH - MENUBAR_H

Rectangle == [x : Int, y : Int, w : Int, h : Int]
GoodRegion == {r \in Rectangle : Reachable(r)}

-----------------------------------------------------------------------------
(* Geometry                                                                *)

LEMMA Sizes ==
  /\ SW \in Nat /\ SH \in Nat /\ MENUBAR_H \in Nat /\ TITLEBAR_H \in Nat
  /\ MIN_W \in Nat /\ MIN_H \in Nat /\ STRIP_W \in Nat /\ STRIP_H \in Nat
  /\ DOCK_STRIP_H \in Nat
  BY GeometryAssumption, StripAssumption

LEMMA ClampedBetween ==
  ASSUME NEW v \in Int, NEW lo \in Int, NEW hi \in Int, lo <= hi
  PROVE  clamp(v, lo, hi) \in Int /\ lo <= clamp(v, lo, hi) /\ clamp(v, lo, hi) <= hi
  BY DEF clamp

(* A share of a length that is three times the least lies inside it and is *)
(* not less than the least.                                                *)
LEMMA ShareInside ==
  ASSUME NEW m \in 1 .. 3, NEW k \in 0 .. m - 1, NEW length \in Nat, NEW least \in Nat,
         3 * least <= length
  PROVE  LET s == Share(k, m, length) IN
         /\ s.at \in Int /\ s.len \in Int
         /\ 0 <= s.at /\ least <= s.len /\ s.at + s.len <= length
<1> DEFINE size == length \div m
<1>1. CASE m = 1
  <2>1. size = length /\ k = 0
    BY <1>1
  <2> QED BY <1>1, <2>1 DEF Share
<1>2. CASE m = 2
  <2>1. size \in Nat /\ 2 * size <= length /\ length < 2 * size + 2
    BY <1>2
  <2>2. k = 0 \/ k = 1
    BY <1>2
  <2> QED BY <1>2, <2>1, <2>2 DEF Share
<1>3. CASE m = 3
  <2>1. size \in Nat /\ 3 * size <= length /\ length < 3 * size + 3
    BY <1>3
  <2>2. k = 0 \/ k = 1 \/ k = 2
    BY <1>3
  <2> QED BY <1>3, <2>1, <2>2 DEF Share
<1> QED BY <1>1, <1>2, <1>3

(* Up to nine windows take at most three columns.                          *)
LEMMA FewColumns ==
  ASSUME NEW n \in 1 .. 9
  PROVE  ceil_sqrt(n) \in 1 .. 3 /\ n <= ceil_sqrt(n) * ceil_sqrt(n)
<1> DEFINE P(s) == s \in 0 .. n /\ s * s >= n /\ \A t \in 0 .. n : t * t >= n => s <= t
<1>1. CASE n = 1
  <2>1. P(1)
    BY <1>1
  <2> QED BY <1>1, <2>1 DEF ceil_sqrt
<1>2. CASE n \in 2 .. 4
  <2>1. P(2)
    BY <1>2
  <2> QED BY <1>2, <2>1 DEF ceil_sqrt
<1>3. CASE n \in 5 .. 9
  <2>1. P(3)
    BY <1>3
  <2> QED BY <1>3, <2>1 DEF ceil_sqrt
<1> QED BY <1>1, <1>2, <1>3

(* Rows and columns of a grid: the last row holds what is left over.       *)
LEMMA GridInside ==
  ASSUME NEW n \in 1 .. 9, NEW i \in 0 .. n - 1, NEW c \in 1 .. 3, n <= c * c
  PROVE  LET rows == (n + c - 1) \div c
             row  == i \div c
         IN  /\ rows \in 1 .. 3 /\ row \in 0 .. rows - 1
             /\ i % c \in 0 .. c - 1
             /\ n - (rows - 1) * c \in 1 .. 3
             /\ row = rows - 1 => i % c \in 0 .. (n - (rows - 1) * c) - 1
<1>1. CASE c = 1
  BY <1>1
<1>2. CASE c = 2
  BY <1>2
<1>3. CASE c = 3
  BY <1>3
<1> QED BY <1>1, <1>2, <1>3

(* A tile can be reached, whatever the hints.                              *)
LEMMA TileGood ==
  ASSUME Roomy, NEW n \in 1 .. 9, NEW i \in 0 .. n - 1, NEW usable_h \in Nat, NEW wanted,
         3 * MIN_H <= usable_h, usable_h <= SH - MENUBAR_H
  PROVE  tile(i, n, usable_h, wanted) \in GoodRegion
<1> DEFINE cols == ceil_sqrt(n)
           rows == (n + cols - 1) \div cols
           row  == i \div cols
           in_last == n - (rows - 1) * cols
           x == IF row = rows - 1 THEN Share(i % cols, in_last, SW)
                ELSE IF wanted > SW \div cols THEN [at |-> 0, len |-> SW]
                ELSE Share(i % cols, cols, SW)
           y == Share(row, rows, usable_h)
<1>1. /\ rows \in 1 .. 3 /\ row \in 0 .. rows - 1 /\ cols \in 1 .. 3
      /\ i % cols \in 0 .. cols - 1 /\ in_last \in 1 .. 3
      /\ row = rows - 1 => i % cols \in 0 .. in_last - 1
  BY FewColumns, GridInside
<1>2. tile(i, n, usable_h, wanted)
      = Region(x.at, MENUBAR_H + y.at, AtLeast(x.len, MIN_W), AtLeast(y.len, MIN_H))
  BY DEF tile
<1> HIDE DEF cols, rows, row, in_last
<1>3. y.at \in Int /\ y.len \in Int /\ 0 <= y.at /\ MIN_H <= y.len /\ y.at + y.len <= usable_h
  BY <1>1, Sizes, ShareInside
<1>4. x.at \in Int /\ x.len \in Int /\ 0 <= x.at /\ MIN_W <= x.len /\ x.at + x.len <= SW
  <2>0. 3 * MIN_W <= SW
    BY DEF Roomy
  <2>1. CASE row = rows - 1
    <3>1. x = Share(i % cols, in_last, SW)
      BY <2>1
    <3> HIDE DEF x
    <3> QED BY <1>1, <2>0, <2>1, <3>1, Sizes, ShareInside
  <2>2. CASE row # rows - 1 /\ wanted > SW \div cols
    <3>1. x = [at |-> 0, len |-> SW]
      BY <2>2
    <3> HIDE DEF x
    <3> QED BY <2>0, <3>1, Sizes
  <2>3. CASE row # rows - 1 /\ ~(wanted > SW \div cols)
    <3>1. x = Share(i % cols, cols, SW)
      BY <2>3
    <3> HIDE DEF x
    <3> QED BY <1>1, <2>0, <3>1, Sizes, ShareInside
  <2> QED BY <2>1, <2>2, <2>3
<1> HIDE DEF x, y
<1>5. AtLeast(x.len, MIN_W) = x.len /\ AtLeast(y.len, MIN_H) = y.len
  BY <1>3, <1>4, Sizes DEF AtLeast
<1> DEFINE r == Region(x.at, MENUBAR_H + y.at, x.len, y.len)
<1>6. r \in Rectangle
  BY <1>3, <1>4, Sizes DEF Rectangle, Region
<1>7. r.x = x.at /\ r.y = MENUBAR_H + y.at /\ r.w = x.len /\ r.h = y.len
  BY DEF Region
<1> HIDE DEF r
<1>8. Reachable(r)
  BY <1>3, <1>4, <1>7, Sizes DEF Reachable, Roomy
<1> QED BY <1>2, <1>5, <1>6, <1>8 DEF GoodRegion, r

(* A drag keeps the size and clamps the corner, wherever it began.         *)
LEMMA DraggedGood ==
  ASSUME Roomy, NEW r \in GoodRegion, NEW from \in Point, NEW to \in Point
  PROVE  dragged(r, from, to) \in GoodRegion
<1>1. /\ r.x \in Int /\ r.y \in Int /\ r.w \in Int /\ r.h \in Int
      /\ r.w <= SW /\ r.h <= SH - MENUBAR_H /\ MIN_W <= r.w /\ STRIP_H <= r.h
  BY Sizes DEF GoodRegion, Rectangle, Reachable, IsStrip, Roomy
<1>2. from.x \in Int /\ from.y \in Int /\ to.x \in Int /\ to.y \in Int
  BY PointAssumption, Sizes
<1> DEFINE nx == clamp(r.x + to.x - from.x, 0, AtLeast(SW - r.w, 0))
           ny == clamp(r.y + to.y - from.y, MENUBAR_H, AtLeast(SH - r.h, MENUBAR_H))
<1>3. AtLeast(SW - r.w, 0) = SW - r.w /\ AtLeast(SH - r.h, MENUBAR_H) = SH - r.h
  BY <1>1, Sizes DEF AtLeast
<1> DEFINE tx == r.x + to.x - from.x
           ty == r.y + to.y - from.y
           right  == SW - r.w
           bottom == SH - r.h
<1>4. nx = clamp(tx, 0, right) /\ ny = clamp(ty, MENUBAR_H, bottom)
  BY <1>3
<1>5. tx \in Int /\ ty \in Int /\ right \in Int /\ bottom \in Int
      /\ 0 <= right /\ MENUBAR_H <= bottom /\ 0 \in Int /\ MENUBAR_H \in Int
  BY <1>1, <1>2, Sizes
<1> HIDE DEF nx, ny, tx, ty
<1>6. nx \in Int /\ 0 <= nx /\ nx <= right
  <2> HIDE DEF right
  <2> QED BY <1>4, <1>5, ClampedBetween
<1>7. ny \in Int /\ MENUBAR_H <= ny /\ ny <= bottom
  <2> HIDE DEF bottom
  <2> QED BY <1>4, <1>5, ClampedBetween
<1>8. dragged(r, from, to) = [r EXCEPT !.x = nx, !.y = ny]
  BY DEF dragged, nx, ny, tx, ty
<1> DEFINE s == [r EXCEPT !.x = nx, !.y = ny]
<1>9. s \in Rectangle /\ s.x = nx /\ s.y = ny /\ s.w = r.w /\ s.h = r.h
  BY <1>6, <1>7 DEF GoodRegion, Rectangle
<1> HIDE DEF s
<1>10. Reachable(s)
  BY <1>1, <1>6, <1>7, <1>9, Sizes DEF Reachable
<1> QED BY <1>8, <1>9, <1>10 DEF GoodRegion, s

(* One dimension of a resize ends inside, whatever the window was.         *)
LEMMA ResizedInside ==
  ASSUME NEW at \in Int, NEW len \in Int, NEW d \in Int, NEW moved,
         NEW min \in Nat, NEW lo \in Nat, NEW limit \in Nat, lo + min <= limit
  PROVE  LET s == resized1(at, len, moved, d, min, lo, limit) IN
         /\ s.at \in Int /\ s.len \in Int
         /\ lo <= s.at /\ min <= s.len /\ s.at + s.len <= limit
<1> DEFINE len1 == CASE moved = "low" -> len - d [] moved = "high" -> len + d [] OTHER -> len
           at1  == CASE moved = "low" /\ len1 < min -> at + len - min
                     [] moved = "low" -> at + d
                     [] OTHER -> at
           at2  == clamp(at1, lo, AtLeast(limit - min, lo))
           len2 == AtLeast(len1, min)
<1>1. len1 \in Int
  <2>1. CASE moved = "low"
    BY <2>1
  <2>2. CASE moved = "high"
    BY <2>2
  <2>3. CASE moved \notin {"low", "high"}
    <3>1. len1 = len
      BY <2>3, Zenon
    <3> QED BY <3>1
  <2> QED BY <2>1, <2>2, <2>3
<1> HIDE DEF len1
<1>2. at1 \in Int
  <2>1. CASE moved = "low" /\ len1 < min
    BY <1>1, <2>1
  <2>2. CASE moved = "low" /\ ~(len1 < min)
    <3>1. at1 = at + d
      BY <2>2, Zenon
    <3> QED BY <3>1
  <2>3. CASE moved # "low"
    <3>1. at1 = at
      BY <2>3, Zenon
    <3> QED BY <3>1
  <2> QED BY <2>1, <2>2, <2>3
<1>3. resized1(at, len, moved, d, min, lo, limit)
      = [at |-> at2, len |-> IF at2 + len2 > limit THEN limit - at2 ELSE len2]
  BY DEF resized1, len1
<1> HIDE DEF at1
<1>4. AtLeast(limit - min, lo) = limit - min
  BY DEF AtLeast
<1>5. at2 \in Int /\ lo <= at2 /\ at2 <= limit - min
  <2>1. limit - min \in Int /\ lo <= limit - min /\ lo \in Int
    OBVIOUS
  <2> QED BY <1>2, <1>4, <2>1, ClampedBetween
<1>6. len2 \in Int /\ min <= len2
  BY <1>1 DEF AtLeast
<1> HIDE DEF at2, len2
<1> QED BY <1>3, <1>5, <1>6

(* The smallest window fits, so a resize at any edge leaves one that does. *)
LEMMA ResizedGood ==
  ASSUME Roomy, NEW edge, NEW r \in GoodRegion, NEW from \in Point, NEW to \in Point
  PROVE  compute_new_geometry(edge, r, from, to) \in GoodRegion
<1>1. r.x \in Int /\ r.y \in Int /\ r.w \in Int /\ r.h \in Int
  BY DEF GoodRegion, Rectangle
<1>2. to.x - from.x \in Int /\ to.y - from.y \in Int
  BY PointAssumption, Sizes
<1> DEFINE across == CASE edge \in {"Left", "TopLeft", "BottomLeft"} -> "low"
                       [] edge \in {"Right", "TopRight", "BottomRight"} -> "high"
                       [] OTHER -> "none"
           down   == CASE edge \in {"Top", "TopLeft", "TopRight"} -> "low"
                       [] edge \in {"Bottom", "BottomLeft", "BottomRight"} -> "high"
                       [] OTHER -> "none"
           x == resized1(r.x, r.w, across, to.x - from.x, MIN_W, 0, SW)
           y == resized1(r.y, r.h, down, to.y - from.y, MIN_H, MENUBAR_H, SH)
<1>3. compute_new_geometry(edge, r, from, to) = Region(x.at, y.at, x.len, y.len)
  BY DEF compute_new_geometry
<1> HIDE DEF across, down
<1>4. x.at \in Int /\ x.len \in Int /\ 0 <= x.at /\ MIN_W <= x.len /\ x.at + x.len <= SW
  <2>1. 0 + MIN_W <= SW /\ 0 \in Nat
    BY GeometryAssumption, Sizes
  <2> QED BY <1>1, <1>2, <2>1, Sizes, ResizedInside
<1>5. y.at \in Int /\ y.len \in Int /\ MENUBAR_H <= y.at /\ MIN_H <= y.len /\ y.at + y.len <= SH
  <2>1. MENUBAR_H + MIN_H <= SH
    BY GeometryAssumption
  <2> QED BY <1>1, <1>2, <2>1, Sizes, ResizedInside
<1> HIDE DEF x, y
<1> DEFINE s == Region(x.at, y.at, x.len, y.len)
<1>6. s \in Rectangle /\ s.x = x.at /\ s.y = y.at /\ s.w = x.len /\ s.h = y.len
  BY <1>4, <1>5 DEF Rectangle, Region
<1> HIDE DEF s
<1>7. Reachable(s)
  BY <1>4, <1>5, <1>6, Sizes DEF Reachable, Roomy
<1> QED BY <1>3, <1>6, <1>7 DEF GoodRegion, s

(* Nine strips fill at most nine rows.                                     *)
LEMMA RowOfStrip ==
  ASSUME NEW k \in 0 .. 9, NEW s \in Nat, NEW width \in Nat, 0 < width, s <= width
  PROVE  (k * s) \div width \in 0 .. 9 /\ (k * s) % width \in 0 .. width - 1
<1>1. k * s \in Nat /\ k * s <= 9 * width
  <2>1. /\ k = 0 \/ k = 1 \/ k = 2 \/ k = 3 \/ k = 4
           \/ k = 5 \/ k = 6 \/ k = 7 \/ k = 8 \/ k = 9
    OBVIOUS
  <2> QED BY <2>1
<1> DEFINE n == k * s
           q == n \div width
<1> HIDE DEF n
<1>2. n \in Nat /\ n <= 9 * width
  BY <1>1 DEF n
<1>3. q \in Nat /\ n % width \in 0 .. width - 1 /\ n = width * q + (n % width)
  BY <1>2
<1>4. q <= 9
  <2>1. SUFFICES ASSUME q >= 10 PROVE FALSE
    BY <1>3
  <2>2. width * q <= 9 * width
    <3> HIDE DEF q
    <3> QED BY <1>2, <1>3
  <2>3. width * q >= width * 10
    <3> HIDE DEF q
    <3> QED BY <1>3, <2>1
  <2> HIDE DEF q
  <2> QED BY <1>3, <2>2, <2>3
<1> QED BY <1>3, <1>4 DEF n

LEMMA FewOf ==
  ASSUME NEW T \in SUBSET App
  PROVE  IsFiniteSet(T) /\ Cardinality(T) \in 0 .. 9
<1>1. IsFiniteSet(T) /\ Cardinality(T) <= Cardinality(App) /\ Cardinality(App) <= 9
  BY FS_Subset, AppAssumption
<1>2. Cardinality(T) \in Nat /\ Cardinality(App) \in Nat
  BY <1>1, FS_CardinalityType, AppAssumption
<1> QED BY <1>1, <1>2

(* The rows of strips stay below the menu bar.                             *)
LEMMA StripGood == Roomy => Strip \in GoodRegion
<1> SUFFICES ASSUME Roomy PROVE Strip \in GoodRegion
  OBVIOUS
<1> DEFINE k == Cardinality({a \in App : state[a].minimized})
           row == (k * STRIP_W) \div SW
           col == (k * STRIP_W) % SW
<1>1. k \in 0 .. 9
  BY FewOf
<1>2. Strip = Region(col, SH - STRIP_H - row * STRIP_H, STRIP_W, STRIP_H)
  BY DEF Strip
<1>3. row \in 0 .. 9 /\ col \in 0 .. SW - 1
  <2>1. 0 < SW /\ STRIP_W <= SW
    BY Sizes DEF Roomy
  <2> HIDE DEF k
  <2> QED BY <1>1, <2>1, Sizes, RowOfStrip
<1> HIDE DEF k, row, col
<1> DEFINE down == row * STRIP_H
<1>4. down \in Int /\ 0 <= down /\ down <= 9 * STRIP_H
  <2>1. row = 0 \/ row = 1 \/ row = 2 \/ row = 3 \/ row = 4
        \/ row = 5 \/ row = 6 \/ row = 7 \/ row = 8 \/ row = 9
    BY <1>3
  <2> QED BY <2>1, Sizes
<1> HIDE DEF down
<1> DEFINE s == Region(col, SH - STRIP_H - down, STRIP_W, STRIP_H)
<1>5. Strip = s
  BY <1>2 DEF down
<1>6. s \in Rectangle /\ s.x = col /\ s.y = SH - STRIP_H - down /\ s.w = STRIP_W /\ s.h = STRIP_H
  BY <1>3, <1>4, Sizes DEF Rectangle, Region
<1> HIDE DEF s
<1>7. Reachable(s)
  BY <1>3, <1>4, <1>6, Sizes DEF Reachable, IsStrip, Roomy
<1> QED BY <1>5, <1>6, <1>7 DEF GoodRegion

(* A tiling has at most nine tiles, and a place for each.                  *)
LEMMA PlacedGood ==
  ASSUME Roomy, NEW of \in SUBSET App, NEW a \in of
  PROVE  Placed(of, a) \in GoodRegion
<1>1. CASE a \in Pinned
  <2> DEFINE s == Region(0, SH - DOCK_STRIP_H, SW, DOCK_STRIP_H)
  <2>1. s \in Rectangle /\ s.x = 0 /\ s.y = SH - DOCK_STRIP_H /\ s.w = SW /\ s.h = DOCK_STRIP_H
    BY Sizes DEF Rectangle, Region
  <2>2. Placed(of, a) = s
    BY <1>1 DEF Placed
  <2> HIDE DEF s
  <2>3. Reachable(s)
    BY <2>1, Sizes DEF Reachable, Roomy
  <2> QED BY <2>1, <2>2, <2>3 DEF GoodRegion
<1>2. CASE a \notin Pinned
  <2> DEFINE T == Tiled(of)
             front == {b \in T : order[b] < order[a]}
             i == Cardinality(front)
             n == Cardinality(T)
  <2>1. T \in SUBSET App /\ a \in T /\ front \in SUBSET T /\ a \notin front
    <3>1. order[a] \in Nat
      BY AppAssumption
    <3> QED BY <1>2, <3>1 DEF Tiled
  <2>2. n \in 0 .. 9 /\ IsFiniteSet(T)
    BY <2>1, FewOf
  <2>3. i \in Nat /\ i <= n /\ i # n
    <3> HIDE DEF T, front
    <3>1. IsFiniteSet(front) /\ i <= n /\ (n = i => T = front)
      BY <2>1, <2>2, FS_Subset
    <3> QED BY <2>1, <3>1, FS_CardinalityType
  <2>4. Placed(of, a) = tile(i, n, UsableHeight(of), min_w[a])
    BY <1>2 DEF Placed, Index
  <2>5. UsableHeight(of) \in Nat /\ 3 * MIN_H <= UsableHeight(of)
        /\ UsableHeight(of) <= SH - MENUBAR_H
    BY Sizes DEF UsableHeight, Roomy
  <2> HIDE DEF i, n
  <2>6. n \in 1 .. 9 /\ i \in 0 .. n - 1
    BY <2>2, <2>3
  <2> QED BY <2>4, <2>5, <2>6, TileGood
<1> QED BY <1>1, <1>2

LEMMA SlotGood ==
  ASSUME Roomy, NEW p, NEW n \in 0 .. 9, NEW s \in nearest_tiled_slot(p, n)
  PROVE  s \in GoodRegion
<1> DEFINE m == IF n < 9 THEN n ELSE 9
<1>1. m = n
  OBVIOUS
<1>2. PICK i \in 0 .. n - 1 : s = tile(i, n, SH - MENUBAR_H, 0)
  BY <1>1 DEF nearest_tiled_slot
<1>3. SH - MENUBAR_H \in Nat /\ 3 * MIN_H <= SH - MENUBAR_H
  BY Sizes DEF Roomy
<1> QED BY <1>2, <1>3, TileGood

LEMMA FullGood == Roomy => Region(0, MENUBAR_H, SW, SH - MENUBAR_H) \in GoodRegion
<1> DEFINE s == Region(0, MENUBAR_H, SW, SH - MENUBAR_H)
<1>1. s \in Rectangle /\ s.x = 0 /\ s.y = MENUBAR_H /\ s.w = SW /\ s.h = SH - MENUBAR_H
  BY Sizes DEF Rectangle, Region
<1> HIDE DEF s
<1>2. Roomy => Reachable(s)
  BY <1>1, Sizes DEF Reachable, Roomy
<1> QED BY <1>1, <1>2 DEF GoodRegion, s

-----------------------------------------------------------------------------
(* Ranks: depths, and places in the order of names                         *)

(* The ranks of a chain: if of any two elements one comes before the other *)
(* with all that comes before that one, then the numbers of elements       *)
(* before each are those from 0 up, each once.                             *)
LEMMA ChainRanks ==
  ASSUME NEW T, IsFiniteSet(T), NEW before \in [T -> SUBSET T],
         \A a \in T : a \notin before[a],
         \A a, b \in T : a # b => \/ before[a] \subseteq before[b] /\ a \in before[b]
                                  \/ before[b] \subseteq before[a] /\ b \in before[a]
  PROVE  LET rank == [a \in T |-> Cardinality(before[a])] IN
         /\ rank \in [T -> 0 .. Cardinality(T) - 1]
         /\ \A a, b \in T : rank[a] = rank[b] => a = b
<1> DEFINE rank == [a \in T |-> Cardinality(before[a])]
<1>1. ASSUME NEW S \in SUBSET T, NEW R \in SUBSET S, NEW a \in S, a \notin R
      PROVE  Cardinality(R) \in Nat /\ Cardinality(S) \in Nat /\ Cardinality(R) < Cardinality(S)
  <2>1. IsFiniteSet(S)
    BY FS_Subset
  <2>2. IsFiniteSet(R) /\ Cardinality(R) <= Cardinality(S) /\ (Cardinality(S) = Cardinality(R) => S = R)
    BY <2>1, FS_Subset
  <2>3. Cardinality(R) \in Nat /\ Cardinality(S) \in Nat
    BY <2>1, <2>2, FS_CardinalityType
  <2>4. S # R
    BY <1>1
  <2> QED BY <2>2, <2>3, <2>4
<1>2. ASSUME NEW a \in T PROVE rank[a] \in 0 .. Cardinality(T) - 1
  <2>1. before[a] \in SUBSET T /\ a \notin before[a] /\ T \in SUBSET T
    OBVIOUS
  <2>2. /\ Cardinality(before[a]) \in Nat /\ Cardinality(T) \in Nat
        /\ Cardinality(before[a]) < Cardinality(T)
    BY <1>1, <2>1
  <2> QED BY <2>2
<1>3. ASSUME NEW a \in T, NEW b \in T, before[a] \subseteq before[b], a \in before[b]
      PROVE  rank[a] # rank[b]
  <2>1. before[b] \in SUBSET T /\ before[a] \in SUBSET before[b] /\ a \in before[b] /\ a \notin before[a]
    BY <1>3
  <2>2. /\ Cardinality(before[a]) \in Nat /\ Cardinality(before[b]) \in Nat
        /\ Cardinality(before[a]) < Cardinality(before[b])
    BY <1>1, <2>1
  <2> QED BY <2>2
<1>4. ASSUME NEW a \in T, NEW b \in T, rank[a] = rank[b]
      PROVE  a = b
  BY <1>3, <1>4
<1>5. rank \in [T -> 0 .. Cardinality(T) - 1]
  BY <1>2
<1> HIDE DEF rank
<1>6. QED BY <1>4, <1>5 DEF rank

(* A set whose elements are numbered below their number has every number.  *)
LEMMA RanksFill ==
  ASSUME NEW T, IsFiniteSet(T), NEW rank \in [T -> 0 .. Cardinality(T) - 1],
         \A a, b \in T : rank[a] = rank[b] => a = b
  PROVE  {rank[a] : a \in T} = 0 .. Cardinality(T) - 1
<1> DEFINE n == Cardinality(T)
           N == 0 .. n - 1
<1>1. n \in Nat
  BY FS_CardinalityType
<1>2. IsFiniteSet(N) /\ Cardinality(N) = n
  <2> HIDE DEF n
  <2>1. 0 \in Int /\ n - 1 \in Int
    BY <1>1
  <2>2. IsFiniteSet(0 .. n - 1) /\ Cardinality(0 .. n - 1) = IF 0 > n - 1 THEN 0 ELSE n - 1 - 0 + 1
    BY <2>1, FS_Interval
  <2> QED BY <1>1, <2>2
<1> HIDE DEF N
<1>3. rank \in Injection(T, N)
  BY DEF Injection, IsInjective, N
<1>4. rank \in Surjection(T, N)
  BY <1>2, <1>3, FS_Injection
<1> QED BY <1>4 DEF Surjection, N

-----------------------------------------------------------------------------
(* The inductive invariant                                                 *)

Maybe(S) == S \cup {None}
AppState == [running : BOOLEAN, region : Maybe(GoodRegion), minimized : BOOLEAN,
             pre_minimize : Maybe(GoodRegion), fullscreen : BOOLEAN,
             pre_fullscreen : Maybe(GoodRegion)]
At == {"watch", "read", "pin", "tile", "decide", "gone", "idle", "edge", "bar", "strip",
       "restore", "dots", "minimize", "raise", "count", "snap"}
Edges == {detect_resize_edge(p, r) : p \in Point, r \in GoodRegion}
Drag   == [app : App, from : Point, start : GoodRegion]
Resize == [app : App, edge : Edges, from : Point, start : GoodRegion]
Mouse  == [at : Point, pc : At, held : BOOLEAN, app : Maybe(App),
           drag : Maybe(Drag), resize : Maybe(Resize), region : Maybe(GoodRegion)]
Waiter == [pc : At, of : SUBSET App, again : BOOLEAN]

MouseInv ==
    /\ mouse \in Mouse
    /\ mouse.pc \in {"restore", "minimize", "count", "snap"} => mouse.app \in App
    /\ mouse.pc \in {"count", "snap"} => mouse.region \in GoodRegion

IInv == state \in [App -> AppState] /\ waiter \in [App -> Waiter] /\ MouseInv

LEMMA InvImplies == IInv => OnScreen
  BY DEF IInv, OnScreen, HasRegion, AppState, Maybe, GoodRegion

(* What the steps of a waiter change in its record.                        *)
LEMMA TilingKept ==
  ASSUME waiter \in [App -> Waiter], NEW a \in App, NEW pc \in At, NEW of \in SUBSET App
  PROVE  [waiter EXCEPT ![a] = [@ EXCEPT !.pc = pc, !.of = of]] \in [App -> Waiter]
<1> DEFINE old == waiter[a]
           w == [old EXCEPT !.pc = pc, !.of = of]
<1>1. old \in Waiter
  OBVIOUS
<1> HIDE DEF old
<1>2. w \in Waiter
  BY <1>1 DEF Waiter
<1> HIDE DEF w
<1>3. [waiter EXCEPT ![a] = w] \in [App -> Waiter]
  BY <1>2
<1> QED BY <1>3 DEF w, old

LEMMA ReadyKept ==
  ASSUME waiter \in [App -> Waiter], NEW a \in App, NEW pc \in At, NEW again \in BOOLEAN
  PROVE  [waiter EXCEPT ![a] = [@ EXCEPT !.pc = pc, !.again = again]] \in [App -> Waiter]
<1> DEFINE old == waiter[a]
           w == [old EXCEPT !.pc = pc, !.again = again]
<1>1. old \in Waiter
  OBVIOUS
<1> HIDE DEF old
<1>2. w \in Waiter
  BY <1>1 DEF Waiter
<1> HIDE DEF w
<1>3. [waiter EXCEPT ![a] = w] \in [App -> Waiter]
  BY <1>2
<1> QED BY <1>3 DEF w, old

(* A tiling by however old a list of applications places them well.        *)
LEMMA PlaceKeeps ==
  ASSUME Roomy, NEW of \in SUBSET App, NEW these \in SUBSET of,
         state \in [App -> AppState], Place(of, these)
  PROVE  state' \in [App -> AppState]
<1> SUFFICES ASSUME NEW a \in App
             PROVE  (IF a \in these THEN [state[a] EXCEPT !.region = Placed(of, a)] ELSE state[a])
                    \in AppState
  BY DEF Place
<1>1. CASE a \in these
  <2>1. Placed(of, a) \in GoodRegion
    BY <1>1, PlacedGood
  <2> QED BY <1>1, <2>1 DEF AppState, Maybe
<1> QED BY <1>1

LEMMA WaiterSteps ==
  ASSUME Roomy, IInv, NEW a \in App, Stop(a) \/ Tile(a) \/ GiveUp(a) \/ Respawn(a)
  PROVE  IInv'
<1>1. state \in [App -> AppState] /\ waiter \in [App -> Waiter] /\ MouseInv
  BY DEF IInv
<1>2. mouse' = mouse
  BY DEF Stop, Tile, ReadApps, WritePinned, WriteTiles, GiveUp, Respawn
<1>3. MouseInv'
  BY <1>1, <1>2 DEF MouseInv
<1>4. waiter[a].of \in SUBSET App
  BY <1>1 DEF Waiter
<1>5. waiter' \in [App -> Waiter]
  <2>0. /\ waiter \in [App -> Waiter] /\ {} \in SUBSET App
        /\ waiter[a].of \in SUBSET App /\ waiter[a].again \in BOOLEAN
    BY <1>1 DEF Waiter
  <2>1. CASE Stop(a)
    BY <2>1, <2>0, ReadyKept DEF Stop, At
  <2>2. CASE ReadApps(a)
    <3>1. Running \in SUBSET App
      BY DEF Running
    <3>2. PICK pc \in At, of \in SUBSET App :
            waiter' = [waiter EXCEPT ![a] = [@ EXCEPT !.pc = pc, !.of = of]]
      BY <2>2, <3>1 DEF ReadApps, AfterTiling, At
    <3>3. [waiter EXCEPT ![a] = [@ EXCEPT !.pc = pc, !.of = of]] \in [App -> Waiter]
      BY <2>0, TilingKept
    <3> QED BY <3>2, <3>3
  <2>3. CASE WritePinned(a)
    <3>1. PICK pc \in At : waiter' = [waiter EXCEPT ![a].pc = pc]
      BY <2>3 DEF WritePinned, AfterTiling, At
    <3> QED BY <1>1, <3>1 DEF Waiter
  <2>4. CASE WriteTiles(a)
    <3>1. PICK pc \in At : waiter' = [waiter EXCEPT ![a] = [@ EXCEPT !.pc = pc, !.of = {}]]
      BY <2>4 DEF WriteTiles, AfterTiling, At
    <3> QED BY <2>0, <3>1, TilingKept
  <2>5. CASE GiveUp(a)
    BY <1>1, <2>5 DEF GiveUp, Waiter, At
  <2>6. CASE Respawn(a)
    BY <2>0, <2>6, ReadyKept DEF Respawn, At
  <2> QED BY <2>1, <2>2, <2>3, <2>4, <2>5, <2>6 DEF Tile
<1>6. state' \in [App -> AppState]
  <2>1. CASE Stop(a)
    BY <1>1, <2>1 DEF Stop, AppState
  <2>2. CASE ReadApps(a) \/ GiveUp(a)
    BY <1>1, <2>2 DEF ReadApps, GiveUp
  <2>3. CASE WritePinned(a)
    <3>1. Docked(waiter[a].of) \in SUBSET waiter[a].of
      BY DEF Docked
    <3> QED BY <1>1, <1>4, <2>3, <3>1, PlaceKeeps DEF WritePinned
  <2>4. CASE WriteTiles(a)
    <3>1. Tiled(waiter[a].of) \in SUBSET waiter[a].of
      BY DEF Tiled
    <3> QED BY <1>1, <1>4, <2>4, <3>1, PlaceKeeps DEF WriteTiles
  <2>5. CASE Respawn(a)
    <3>1. Fresh \in AppState
      BY DEF Fresh, AppState, Maybe
    <3> QED BY <1>1, <2>5, <3>1 DEF Respawn
  <2> QED BY <2>1, <2>2, <2>3, <2>4, <2>5 DEF Tile
<1> QED BY <1>3, <1>5, <1>6 DEF IInv

LEMMA ToggleKeeps ==
  ASSUME Roomy, IInv, NEW a \in App, ToggleFullscreen(a)
  PROVE  IInv'
<1>1. state \in [App -> AppState] /\ waiter \in [App -> Waiter] /\ MouseInv
  BY DEF IInv
<1>2. MouseInv' /\ waiter' = waiter
  BY <1>1 DEF MouseInv, ToggleFullscreen
<1>3. state' \in [App -> AppState]
  <2>1. CASE state[a].fullscreen
    <3>1. PICK r \in Maybe(GoodRegion) :
            state' = [state EXCEPT ![a] = [@ EXCEPT !.fullscreen = FALSE, !.pre_fullscreen = None,
                                                    !.region = r]]
      <4>1. state[a].pre_fullscreen \in Maybe(GoodRegion) /\ state[a].region \in Maybe(GoodRegion)
        BY <1>1 DEF AppState
      <4>2. CASE state[a].pre_fullscreen # None
        BY <2>1, <4>1, <4>2 DEF ToggleFullscreen
      <4>3. CASE state[a].pre_fullscreen = None
        BY <2>1, <4>1, <4>3 DEF ToggleFullscreen
      <4> QED BY <4>2, <4>3
    <3> QED BY <1>1, <3>1 DEF AppState, Maybe
  <2>2. CASE ~state[a].fullscreen
    <3> DEFINE full == Region(0, MENUBAR_H, SW, SH - MENUBAR_H)
    <3>1. state' = [state EXCEPT ![a] = [@ EXCEPT !.fullscreen = TRUE,
                                                  !.pre_fullscreen = state[a].region,
                                                  !.region = full]]
      BY <2>2 DEF ToggleFullscreen
    <3>2. full \in GoodRegion
      BY FullGood
    <3> HIDE DEF full
    <3> QED BY <1>1, <3>1, <3>2 DEF AppState, Maybe
  <2> QED BY <2>1, <2>2
<1> QED BY <1>1, <1>2, <1>3 DEF IInv

(* Only a window that has a region is hit by the mouse.                    *)
LEMMA TopmostIsShown ==
  ASSUME IInv, NEW Hit, Hit \subseteq {a \in App : HasRegion(a)}, NEW a \in Hit
  PROVE  a \in App /\ state[a].region \in GoodRegion
  BY DEF IInv, AppState, HasRegion, Maybe

LEMMA GotoKeeps ==
  ASSUME MouseInv, NEW pc \in {"idle", "bar", "strip", "dots", "raise"}, Goto(pc)
  PROVE  MouseInv'
  BY DEF MouseInv, Goto, Mouse, At, Maybe

LEMMA PressKeeps ==
  ASSUME IInv, NEW button \in {"left", "middle"}, Press(button)
  PROVE  IInv'
<1>1. MouseInv'
  <2>1. PICK pc \in {"edge", "strip"}, held \in BOOLEAN :
          mouse' = [mouse EXCEPT !.pc = pc, !.held = held]
    BY DEF Press, IInv, MouseInv, Mouse
  <2> QED BY <2>1 DEF IInv, MouseInv, Mouse, At
<1> QED BY <1>1 DEF IInv, Press

LEMMA TryBeginResizeKeeps ==
  ASSUME IInv, TryBeginResize
  PROVE  IInv'
<1> DEFINE hit == Topmost(LAMBDA a : detect_resize_edge(mouse.at, state[a].region) # "none")
<1>1. MouseInv'
  <2>1. CASE Goto("bar")
    BY <2>1, GotoKeeps DEF IInv
  <2>2. CASE ~Goto("bar")
    <3>1. PICK a \in hit : mouse' = [mouse EXCEPT
                  !.pc = "strip",
                  !.resize = [app |-> a, edge |-> detect_resize_edge(mouse.at, state[a].region),
                              from |-> mouse.at, start |-> state[a].region]]
      BY <2>2 DEF TryBeginResize
    <3>2. a \in App /\ state[a].region \in GoodRegion
      <4>1. hit \subseteq {b \in App : HasRegion(b)}
        BY DEF Topmost
      <4> QED BY <3>1, <4>1, TopmostIsShown
    <3> DEFINE resize == [app |-> a, edge |-> detect_resize_edge(mouse.at, state[a].region),
                          from |-> mouse.at, start |-> state[a].region]
    <3>3. resize \in Resize
      BY <3>2 DEF Resize, Edges, IInv, MouseInv, Mouse
    <3>4. mouse' = [mouse EXCEPT !.pc = "strip", !.resize = resize]
      BY <3>1
    <3> HIDE DEF resize
    <3> QED BY <3>3, <3>4 DEF IInv, MouseInv, Mouse, At, Maybe
  <2> QED BY <2>1, <2>2
<1> QED BY <1>1 DEF IInv, TryBeginResize

LEMMA TryBeginDragKeeps ==
  ASSUME IInv, TryBeginDrag
  PROVE  IInv'
<1> DEFINE hit == Topmost(LAMBDA a : /\ Within(mouse.at, TitleBar(state[a].region))
                                     /\ Dot(mouse.at, state[a].region) = "none")
<1>1. MouseInv'
  <2>1. CASE Goto("strip")
    BY <2>1, GotoKeeps DEF IInv
  <2>2. CASE ~Goto("strip")
    <3>1. PICK a \in hit : mouse' = [mouse EXCEPT
                  !.pc = "strip",
                  !.drag = [app |-> a, from |-> mouse.at, start |-> state[a].region]]
      BY <2>2 DEF TryBeginDrag
    <3>2. a \in App /\ state[a].region \in GoodRegion
      <4>1. hit \subseteq {b \in App : HasRegion(b)}
        BY DEF Topmost
      <4> QED BY <3>1, <4>1, TopmostIsShown
    <3> DEFINE drag == [app |-> a, from |-> mouse.at, start |-> state[a].region]
    <3>3. drag \in Drag
      BY <3>2 DEF Drag, IInv, MouseInv, Mouse
    <3>4. mouse' = [mouse EXCEPT !.pc = "strip", !.drag = drag]
      BY <3>1
    <3> HIDE DEF drag
    <3> QED BY <3>3, <3>4 DEF IInv, MouseInv, Mouse, At, Maybe
  <2> QED BY <2>1, <2>2
<1> QED BY <1>1 DEF IInv, TryBeginDrag

LEMMA FindStripKeeps ==
  ASSUME IInv, FindStrip
  PROVE  IInv'
<1>1. MouseInv'
  <2>1. CASE Goto("dots")
    BY <2>1, GotoKeeps DEF IInv
  <2>2. CASE ~Goto("dots")
    <3>1. PICK a \in App : mouse' = [mouse EXCEPT !.pc = "restore", !.app = a]
      BY <2>2 DEF FindStrip, StripsHit
    <3> QED BY <3>1 DEF IInv, MouseInv, Mouse, At, Maybe
  <2> QED BY <2>1, <2>2
<1> QED BY <1>1 DEF IInv, FindStrip

LEMMA FindDotKeeps ==
  ASSUME IInv, FindDot
  PROVE  IInv'
<1>1. MouseInv'
  <2>1. CASE Goto("raise") \/ Goto("idle")
    BY <2>1, GotoKeeps DEF IInv
  <2>2. CASE ~(Goto("raise") \/ Goto("idle"))
    <3>1. PICK a \in App : mouse' = [mouse EXCEPT !.pc = "minimize", !.app = a]
      BY <2>2 DEF FindDot, Topmost
    <3> QED BY <3>1 DEF IInv, MouseInv, Mouse, At, Maybe
  <2> QED BY <2>1, <2>2
<1> QED BY <1>1 DEF IInv, FindDot

LEMMA RestoreKeeps ==
  ASSUME IInv, Restore
  PROVE  IInv'
<1>1. state \in [App -> AppState] /\ mouse.app \in App /\ MouseInv
  BY DEF IInv, MouseInv, Restore
<1>2. state' \in [App -> AppState]
  <2> DEFINE prev == state[mouse.app].pre_minimize
  <2>1. CASE prev = None
    BY <1>1, <2>1 DEF Restore
  <2>2. CASE prev # None
    <3>1. prev \in GoodRegion
      BY <1>1, <2>2 DEF AppState, Maybe
    <3>2. state' = [state EXCEPT ![mouse.app] =
                      [@ EXCEPT !.pre_minimize = None, !.minimized = FALSE, !.region = prev]]
      BY <2>2 DEF Restore
    <3> HIDE DEF prev
    <3> QED BY <1>1, <3>1, <3>2 DEF AppState, Maybe
  <2> QED BY <2>1, <2>2
<1>3. MouseInv'
  BY <1>1, GotoKeeps DEF Restore
<1> QED BY <1>2, <1>3 DEF IInv, Restore

LEMMA MinimizeKeeps ==
  ASSUME Roomy, IInv, Minimize
  PROVE  IInv'
<1>1. state \in [App -> AppState] /\ mouse.app \in App /\ MouseInv
  BY DEF IInv, MouseInv, Minimize
<1>2. state' \in [App -> AppState]
  <2> DEFINE strip == Strip
             r == state[mouse.app].region
  <2>1. strip \in GoodRegion
    BY StripGood
  <2>2. r \in Maybe(GoodRegion)
    BY <1>1 DEF AppState
  <2>3. state' = [state EXCEPT ![mouse.app] =
                    [@ EXCEPT !.pre_minimize = r, !.minimized = TRUE, !.region = strip]]
    BY DEF Minimize
  <2> HIDE DEF strip, r
  <2> QED BY <1>1, <2>1, <2>2, <2>3 DEF AppState, Maybe
<1>3. MouseInv'
  BY <1>1, GotoKeeps DEF Minimize
<1> QED BY <1>2, <1>3 DEF IInv, Minimize

LEMMA RaiseKeeps ==
  ASSUME IInv, Raise
  PROVE  IInv'
  BY GotoKeeps DEF IInv, Raise

LEMMA MoveToKeeps ==
  ASSUME Roomy, IInv, NEW p \in Point, MoveTo(p)
  PROVE  IInv'
<1>1. state \in [App -> AppState] /\ MouseInv /\ mouse \in Mouse
  BY DEF IInv, MouseInv
<1>2. MouseInv'
  BY <1>1 DEF MouseInv, MoveTo, Mouse
<1>3. state' \in [App -> AppState]
  <2>1. CASE mouse.resize # None
    <3> DEFINE d == mouse.resize
               r == compute_new_geometry(d.edge, d.start, d.from, p)
    <3>1. d \in Resize
      BY <1>1, <2>1 DEF Mouse, Maybe
    <3>2. r \in GoodRegion
      BY <3>1, ResizedGood DEF Resize
    <3>3. state' = [state EXCEPT ![d.app].region = r]
      BY <2>1 DEF MoveTo
    <3> HIDE DEF d, r
    <3> QED BY <1>1, <3>1, <3>2, <3>3 DEF Resize, AppState, Maybe
  <2>2. CASE mouse.resize = None /\ mouse.drag # None
    <3> DEFINE d == mouse.drag
               r == dragged(d.start, d.from, p)
    <3>1. d \in Drag
      BY <1>1, <2>2 DEF Mouse, Maybe
    <3>2. r \in GoodRegion
      BY <3>1, DraggedGood DEF Drag
    <3>3. state' = [state EXCEPT ![d.app].region = r]
      BY <2>2 DEF MoveTo
    <3> HIDE DEF d, r
    <3> QED BY <1>1, <3>1, <3>2, <3>3 DEF Drag, AppState, Maybe
  <2>3. CASE mouse.resize = None /\ mouse.drag = None
    BY <1>1, <2>3 DEF MoveTo
  <2> QED BY <2>1, <2>2, <2>3
<1> QED BY <1>2, <1>3 DEF IInv, MoveTo

LEMMA ReleaseKeeps ==
  ASSUME IInv, Release
  PROVE  IInv'
<1>1. state \in [App -> AppState] /\ mouse \in Mouse /\ MouseInv
  BY DEF IInv, MouseInv
<1>2. MouseInv'
  <2>1. CASE mouse.resize # None \/ mouse.drag = None
    BY <1>1, <2>1 DEF Release, MouseInv, Mouse, Maybe
  <2>2. CASE ~(mouse.resize # None \/ mouse.drag = None)
    <3> DEFINE d == mouse.drag
    <3>1. d \in Drag
      BY <1>1, <2>2 DEF Mouse, Maybe
    <3>2. d.app \in App /\ d.start \in GoodRegion
      BY <3>1 DEF Drag
    <3>3. state[d.app].region \in Maybe(GoodRegion)
      BY <1>1, <3>2 DEF AppState
    <3>4. PICK r \in GoodRegion :
            mouse' = [mouse EXCEPT !.held = FALSE, !.drag = None, !.pc = "count",
                                   !.app = d.app, !.region = r]
      <4>1. CASE state[d.app].region # None
        BY <2>2, <3>3, <4>1 DEF Release, Maybe
      <4>2. CASE state[d.app].region = None
        BY <2>2, <3>2, <4>2 DEF Release
      <4> QED BY <4>1, <4>2
    <3> HIDE DEF d
    <3> QED BY <1>1, <3>2, <3>4 DEF MouseInv, Mouse, Maybe, At
  <2> QED BY <2>1, <2>2
<1> QED BY <1>2 DEF IInv, Release

LEMMA CountSlotsKeeps ==
  ASSUME Roomy, IInv, CountSlots
  PROVE  IInv'
<1>1. mouse \in Mouse /\ MouseInv /\ mouse.app \in App
  BY DEF IInv, MouseInv, CountSlots
<1>2. MouseInv'
  <2>1. CASE Goto("idle")
    BY <1>1, <2>1, GotoKeeps
  <2>2. CASE ~Goto("idle")
    <3> DEFINE n == Cardinality(Running)
    <3>1. n \in 0 .. 9
      BY FewOf DEF Running
    <3>2. PICK r \in nearest_tiled_slot(mouse.region, n) :
            mouse' = [mouse EXCEPT !.pc = "snap", !.region = r]
      BY <2>2 DEF CountSlots
    <3>3. r \in GoodRegion
      BY <3>1, <3>2, SlotGood
    <3> QED BY <1>1, <3>2, <3>3 DEF MouseInv, Mouse, Maybe, At
  <2> QED BY <2>1, <2>2
<1> QED BY <1>2 DEF IInv, CountSlots

LEMMA SnapKeeps ==
  ASSUME IInv, Snap
  PROVE  IInv'
<1>1. state \in [App -> AppState] /\ MouseInv /\ mouse.app \in App /\ mouse.region \in GoodRegion
  BY DEF IInv, MouseInv, Snap
<1>2. state' \in [App -> AppState]
  BY <1>1 DEF Snap, AppState, Maybe
<1>3. MouseInv'
  BY <1>1, GotoKeeps DEF Snap
<1> QED BY <1>2, <1>3 DEF IInv, Snap

-----------------------------------------------------------------------------

LEMMA InitInv == Roomy /\ Init => IInv
<1> SUFFICES ASSUME Roomy, Init PROVE IInv
  OBVIOUS
<1>1. state \in [App -> AppState]
  <2> SUFFICES ASSUME NEW a \in App
               PROVE  [Fresh EXCEPT !.region = Placed(App, a)] \in AppState
    BY DEF Init
  <2>1. Placed(App, a) \in GoodRegion
    BY PlacedGood
  <2> QED BY <2>1 DEF Fresh, AppState, Maybe
<1>2. waiter \in [App -> Waiter]
  BY DEF Init, Waiter, At
<1>3. MouseInv
  BY DEF Init, MouseInv, Mouse, At, Maybe
<1> QED BY <1>1, <1>2, <1>3 DEF IInv

LEMMA StepKeeps == Roomy /\ IInv /\ [Next]_vars => IInv'
<1> SUFFICES ASSUME Roomy, IInv, [Next]_vars PROVE IInv'
  OBVIOUS
<1>1. ASSUME NEW a \in App,
             Stop(a) \/ Tile(a) \/ GiveUp(a) \/ Respawn(a) \/ ToggleFullscreen(a)
      PROVE  IInv'
  BY <1>1, WaiterSteps, ToggleKeeps
<1>2. ASSUME NEW button \in {"left", "middle"}, Press(button)
      PROVE  IInv'
  BY <1>2, PressKeeps
<1>3. CASE Click
  BY <1>3, TryBeginResizeKeeps, TryBeginDragKeeps, FindStripKeeps, RestoreKeeps,
     FindDotKeeps, MinimizeKeeps, RaiseKeeps DEF Click
<1>4. ASSUME NEW p \in Point, MoveTo(p)
      PROVE  IInv'
  BY <1>4, MoveToKeeps
<1>5. CASE Release \/ CountSlots \/ Snap
  BY <1>5, ReleaseKeeps, CountSlotsKeeps, SnapKeeps
<1>6. CASE UNCHANGED vars
  BY <1>6 DEF vars, IInv, MouseInv
<1> QED BY <1>1, <1>2, <1>3, <1>4, <1>5, <1>6 DEF Next

LEMMA InvHolds == ASSUME Roomy PROVE Spec => []IInv
  BY InitInv, StepKeeps, PTL DEF Spec

(* OnScreen always holds on a screen with room for nine tiles: every       *)
(* window can be reached, whatever order drags, resizes, tilings,          *)
(* minimizing, restoring and full screen come in, and with whatever a      *)
(* stale drag or resize began from.                                        *)
THEOREM WindowsStayReachable ==
  ASSUME Roomy
  PROVE  Spec => []OnScreen
  BY InvHolds, InvImplies, PTL

-----------------------------------------------------------------------------
(* The shape of the state, on any screen                                   *)

WaiterPc == {"watch", "read", "pin", "tile", "decide", "gone"}
MousePc  == {"idle", "edge", "bar", "strip", "restore", "dots", "minimize",
             "raise", "count", "snap"}

(* A waiter that is about to place tiles has some to place.                *)
WaiterShape ==
    /\ waiter \in [App -> [pc : WaiterPc, of : SUBSET App, again : BOOLEAN]]
    /\ \A a \in App : waiter[a].pc = "tile" => Tiled(waiter[a].of) # {}

(* A press looks for an edge and then for a title bar before it has either.*)
MouseShape ==
    /\ mouse \in [at : {mouse.at}, pc : MousePc, held : BOOLEAN, app : {mouse.app},
                  drag : {mouse.drag}, resize : {mouse.resize}, region : {mouse.region}]
    /\ mouse.drag = None \/ mouse.resize = None
    /\ mouse.drag # None \/ mouse.resize # None => mouse.held
    /\ mouse.pc \in {"edge", "bar"} => mouse.held /\ mouse.drag = None /\ mouse.resize = None

(* No two windows are at the same depth.                                   *)
DepthShape ==
    /\ z_order \in [App -> 0 .. Cardinality(App) - 1]
    /\ \A a, b \in App : z_order[a] = z_order[b] => a = b

Shape == WaiterShape /\ MouseShape /\ DepthShape

LEMMA ShapeImplies == Shape => TypeOK
<1> SUFFICES ASSUME Shape PROVE TypeOK
  OBVIOUS
<1>1. {z_order[a] : a \in App} = 0 .. Cardinality(App) - 1
  BY AppAssumption, RanksFill DEF Shape, DepthShape
<1> QED BY <1>1 DEF Shape, TypeOK, WaiterShape, MouseShape, WaiterPc, MousePc

LEMMA InitShape == Init => Shape
<1> SUFFICES ASSUME Init PROVE Shape
  OBVIOUS
<1>1. WaiterShape
  BY DEF Init, WaiterShape, WaiterPc
<1>2. MouseShape
  BY DEF Init, MouseShape, MousePc
<1>3. DepthShape
  <2> DEFINE behind == [a \in App |-> {b \in App : order[b] > order[a]}]
             rank == [a \in App |-> Cardinality(behind[a])]
  <2>1. behind \in [App -> SUBSET App] /\ \A a \in App : a \notin behind[a]
    BY AppAssumption
  <2>2. ASSUME NEW a \in App, NEW b \in App, a # b
        PROVE  \/ behind[a] \subseteq behind[b] /\ a \in behind[b]
               \/ behind[b] \subseteq behind[a] /\ b \in behind[a]
    <3>1. \A c \in App : order[c] \in Nat
      BY AppAssumption
    <3>2. order[a] # order[b]
      BY <2>2, AppAssumption
    <3> QED BY <3>1, <3>2
  <2>3. z_order = rank
    BY DEF Init
  <2> HIDE DEF behind
  <2>4. /\ rank \in [App -> 0 .. Cardinality(App) - 1]
        /\ \A a, b \in App : rank[a] = rank[b] => a = b
    BY <2>1, <2>2, AppAssumption, ChainRanks
  <2> QED BY <2>3, <2>4 DEF DepthShape
<1> QED BY <1>1, <1>2, <1>3 DEF Shape

LEMMA WaiterShapeStep == Shape /\ [Next]_vars => WaiterShape'
<1> SUFFICES ASSUME Shape, [Next]_vars PROVE WaiterShape'
  OBVIOUS
<1>0. /\ waiter \in [App -> [pc : WaiterPc, of : SUBSET App, again : BOOLEAN]]
      /\ \A a \in App : waiter[a].pc = "tile" => Tiled(waiter[a].of) # {}
  BY DEF Shape, WaiterShape
<1>1. CASE UNCHANGED waiter
  BY <1>0, <1>1 DEF WaiterShape
<1>2. ASSUME NEW a \in App, Stop(a) \/ Tile(a) \/ GiveUp(a) \/ Respawn(a)
      PROVE  WaiterShape'
  <2> DEFINE w == waiter[a]
  <2>1. w \in [pc : WaiterPc, of : SUBSET App, again : BOOLEAN]
    BY <1>0
  <2>2. PICK v \in [pc : WaiterPc, of : SUBSET App, again : BOOLEAN] :
          /\ waiter' = [waiter EXCEPT ![a] = v]
          /\ v.pc = "tile" => Tiled(v.of) # {}
    <3>1. CASE Stop(a)
      <4> DEFINE v == [w EXCEPT !.pc = "read", !.again = FALSE]
      <4>1. waiter' = [waiter EXCEPT ![a] = v]
        BY <3>1 DEF Stop
      <4>2. v \in [pc : WaiterPc, of : SUBSET App, again : BOOLEAN] /\ v.pc # "tile"
        BY <2>1 DEF WaiterPc
      <4> HIDE DEF v
      <4> QED BY <4>1, <4>2
    <3>2. CASE ReadApps(a)
      <4> DEFINE pc == IF Docked(Running) # {} THEN "pin"
                       ELSE IF Running # {} THEN "tile" ELSE AfterTiling(a)
                 v == [w EXCEPT !.pc = pc, !.of = Running]
      <4>1. Running \in SUBSET App
        BY DEF Running
      <4>2. pc \in WaiterPc /\ (pc = "tile" => Docked(Running) = {} /\ Running # {})
        BY DEF AfterTiling, WaiterPc
      <4>3. waiter' = [waiter EXCEPT ![a] = v]
        BY <3>2 DEF ReadApps
      <4> HIDE DEF pc
      <4>4. /\ v \in [pc : WaiterPc, of : SUBSET App, again : BOOLEAN]
            /\ v.pc = pc /\ v.of = Running
        BY <2>1, <4>1, <4>2
      <4> HIDE DEF v
      <4>5. v.pc = "tile" => Tiled(v.of) # {}
        BY <4>2, <4>4 DEF Tiled, Docked
      <4> QED BY <4>3, <4>4, <4>5
    <3>3. CASE WritePinned(a)
      <4> DEFINE pc == IF Tiled(w.of) # {} THEN "tile" ELSE AfterTiling(a)
                 v == [w EXCEPT !.pc = pc]
      <4>1. pc \in WaiterPc /\ (pc = "tile" => Tiled(w.of) # {})
        BY DEF AfterTiling, WaiterPc
      <4>2. waiter' = [waiter EXCEPT ![a] = v]
        BY <1>0, <3>3 DEF WritePinned
      <4> HIDE DEF pc
      <4>3. /\ v \in [pc : WaiterPc, of : SUBSET App, again : BOOLEAN]
            /\ v.pc = pc /\ v.of = w.of
        BY <2>1, <4>1
      <4> HIDE DEF v
      <4> QED BY <4>1, <4>2, <4>3
    <3>4. CASE WriteTiles(a)
      <4> DEFINE v == [w EXCEPT !.pc = AfterTiling(a), !.of = {}]
      <4>1. waiter' = [waiter EXCEPT ![a] = v]
        BY <3>4 DEF WriteTiles
      <4>2. AfterTiling(a) \in WaiterPc /\ AfterTiling(a) # "tile"
        BY DEF AfterTiling, WaiterPc
      <4>3. /\ v \in [pc : WaiterPc, of : SUBSET App, again : BOOLEAN]
            /\ v.pc # "tile"
        BY <2>1, <4>2
      <4> HIDE DEF v
      <4> QED BY <4>1, <4>3
    <3>5. CASE GiveUp(a)
      <4> DEFINE v == [w EXCEPT !.pc = "gone"]
      <4>1. waiter' = [waiter EXCEPT ![a] = v]
        BY <1>0, <3>5 DEF GiveUp
      <4>2. v \in [pc : WaiterPc, of : SUBSET App, again : BOOLEAN] /\ v.pc # "tile"
        BY <2>1 DEF WaiterPc
      <4> HIDE DEF v
      <4> QED BY <4>1, <4>2
    <3>6. CASE Respawn(a)
      <4> DEFINE v == [w EXCEPT !.pc = "read", !.again = TRUE]
      <4>1. waiter' = [waiter EXCEPT ![a] = v]
        BY <3>6 DEF Respawn
      <4>2. v \in [pc : WaiterPc, of : SUBSET App, again : BOOLEAN] /\ v.pc # "tile"
        BY <2>1 DEF WaiterPc
      <4> HIDE DEF v
      <4> QED BY <4>1, <4>2
    <3> QED BY <1>2, <3>1, <3>2, <3>3, <3>4, <3>5, <3>6 DEF Tile
  <2> HIDE DEF w
  <2> QED BY <1>0, <2>2 DEF WaiterShape
<1>3. ASSUME NEW a \in App, ToggleFullscreen(a) PROVE WaiterShape'
  BY <1>1, <1>3 DEF ToggleFullscreen
<1>4. ASSUME NEW button \in {"left", "middle"}, Press(button) PROVE WaiterShape'
  BY <1>1, <1>4 DEF Press
<1>5. CASE Click
  BY <1>1, <1>5 DEF Click, TryBeginResize, TryBeginDrag, FindStrip, Restore, FindDot, Minimize, Raise
<1>6. ASSUME NEW p \in Point, MoveTo(p) PROVE WaiterShape'
  BY <1>1, <1>6 DEF MoveTo
<1>7. CASE Release \/ CountSlots \/ Snap
  BY <1>1, <1>7 DEF Release, CountSlots, Snap
<1>8. CASE UNCHANGED vars
  BY <1>1, <1>8 DEF vars
<1> QED BY <1>2, <1>3, <1>4, <1>5, <1>6, <1>7, <1>8 DEF Next

(* What is left of a click once an edge and a title bar have been tried.   *)
LEMMA ShapeKept ==
  ASSUME MouseShape, NEW pc \in MousePc \ {"edge", "bar"}, NEW app, NEW region,
         mouse' = [mouse EXCEPT !.pc = pc, !.app = app, !.region = region]
  PROVE  MouseShape'
  BY DEF MouseShape

LEMMA GotoShape ==
  ASSUME MouseShape, NEW pc \in MousePc \ {"edge", "bar"}, Goto(pc)
  PROVE  MouseShape'
  BY DEF MouseShape, Goto

LEMMA MouseShapeStep == Shape /\ [Next]_vars => MouseShape'
<1> SUFFICES ASSUME Shape, [Next]_vars PROVE MouseShape'
  OBVIOUS
<1>0. MouseShape
  BY DEF Shape
<1>1. CASE UNCHANGED mouse
  BY <1>0, <1>1 DEF MouseShape
<1>2. ASSUME NEW a \in App,
             Stop(a) \/ Tile(a) \/ GiveUp(a) \/ Respawn(a) \/ ToggleFullscreen(a)
      PROVE  MouseShape'
  BY <1>1, <1>2 DEF Stop, Tile, ReadApps, WritePinned, WriteTiles, GiveUp, Respawn, ToggleFullscreen
<1>3. ASSUME NEW button \in {"left", "middle"}, Press(button)
      PROVE  MouseShape'
  <2>1. CASE button = "left"
    BY <1>0, <1>3, <2>1 DEF MouseShape, Press, MousePc
  <2>2. CASE button = "middle"
    BY <1>0, <1>3, <2>2 DEF MouseShape, Press, MousePc
  <2> QED BY <1>3, <2>1, <2>2
<1>4. CASE TryBeginResize
  <2>0. mouse.held /\ mouse.drag = None /\ mouse.resize = None
    BY <1>0, <1>4 DEF MouseShape, TryBeginResize
  <2>1. CASE Goto("bar")
    BY <1>0, <2>0, <2>1 DEF MouseShape, Goto, MousePc
  <2>2. CASE ~Goto("bar")
    <3>1. PICK resize : mouse' = [mouse EXCEPT !.pc = "strip", !.resize = resize]
      BY <1>4, <2>2 DEF TryBeginResize
    <3> QED BY <1>0, <2>0, <3>1 DEF MouseShape, MousePc
  <2> QED BY <2>1, <2>2
<1>5. CASE TryBeginDrag
  <2>0. mouse.held /\ mouse.drag = None /\ mouse.resize = None
    BY <1>0, <1>5 DEF MouseShape, TryBeginDrag
  <2>1. CASE Goto("strip")
    BY <1>0, <2>1, GotoShape DEF MousePc
  <2>2. CASE ~Goto("strip")
    <3>1. PICK drag : mouse' = [mouse EXCEPT !.pc = "strip", !.drag = drag]
      BY <1>5, <2>2 DEF TryBeginDrag
    <3> QED BY <1>0, <2>0, <3>1 DEF MouseShape, MousePc
  <2> QED BY <2>1, <2>2
<1>6. CASE FindStrip
  <2>1. CASE Goto("dots")
    BY <1>0, <2>1, GotoShape DEF MousePc
  <2>2. CASE ~Goto("dots")
    <3>1. PICK a : mouse' = [mouse EXCEPT !.pc = "restore", !.app = a]
      BY <1>6, <2>2 DEF FindStrip
    <3> QED BY <1>0, <3>1 DEF MouseShape, MousePc
  <2> QED BY <2>1, <2>2
<1>7. CASE FindDot
  <2>1. CASE Goto("raise") \/ Goto("idle")
    BY <1>0, <2>1, GotoShape DEF MousePc
  <2>2. CASE ~(Goto("raise") \/ Goto("idle"))
    <3>1. PICK a : mouse' = [mouse EXCEPT !.pc = "minimize", !.app = a]
      BY <1>7, <2>2 DEF FindDot
    <3> QED BY <1>0, <3>1 DEF MouseShape, MousePc
  <2> QED BY <2>1, <2>2
<1>8. CASE Restore \/ Minimize \/ Raise \/ Snap
  BY <1>0, <1>8, GotoShape DEF MousePc, Restore, Minimize, Raise, Snap
<1>9. ASSUME NEW p \in Point, MoveTo(p)
      PROVE  MouseShape'
  BY <1>0, <1>9 DEF MouseShape, MoveTo
<1>10. CASE Release
  <2>1. CASE mouse.resize # None \/ mouse.drag = None
    BY <1>0, <1>10, <2>1 DEF MouseShape, Release
  <2>2. CASE ~(mouse.resize # None \/ mouse.drag = None)
    <3>1. PICK a, r : mouse' = [mouse EXCEPT !.held = FALSE, !.drag = None, !.pc = "count",
                                             !.app = a, !.region = r]
      BY <1>10, <2>2 DEF Release
    <3> QED BY <1>0, <2>2, <3>1 DEF MouseShape, MousePc
  <2> QED BY <2>1, <2>2
<1>11. CASE CountSlots
  <2>1. CASE Goto("idle")
    BY <1>0, <2>1, GotoShape DEF MousePc
  <2>2. CASE ~Goto("idle")
    <3>1. PICK r : mouse' = [mouse EXCEPT !.pc = "snap", !.region = r]
      BY <1>11, <2>2 DEF CountSlots
    <3> QED BY <1>0, <3>1 DEF MouseShape, MousePc
  <2> QED BY <2>1, <2>2
<1>12. CASE UNCHANGED vars
  BY <1>1, <1>12 DEF vars
<1> QED BY <1>2, <1>3, <1>4, <1>5, <1>6, <1>7, <1>8, <1>9, <1>10, <1>11, <1>12 DEF Next, Click

(* Raising a window moves those before it back by one.                     *)
LEMMA RaiseKeepsDepths == DepthShape /\ Raise => DepthShape'
<1> SUFFICES ASSUME DepthShape, Raise PROVE DepthShape'
  OBVIOUS
<1> DEFINE hit == Topmost(LAMBDA a : Within(mouse.at, state[a].region))
           n == Cardinality(App)
           depth == [a \in App |-> IF a \in hit THEN 0
                     ELSE z_order[a] + Cardinality({b \in hit : z_order[b] > z_order[a]})]
<1>1. n \in Nat /\ z_order \in [App -> 0 .. n - 1] /\ \A a, b \in App : z_order[a] = z_order[b] => a = b
  BY FS_CardinalityType, AppAssumption DEF DepthShape
<1>2. hit \subseteq App /\ \A a, b \in hit : a = b
  <2>1. hit \subseteq App /\ \A a, b \in hit : z_order[a] <= z_order[b]
    BY DEF Topmost
  <2> HIDE DEF hit, n
  <2>2. ASSUME NEW a \in hit, NEW b \in hit PROVE a = b
    <3>1. z_order[a] \in Int /\ z_order[b] \in Int
      BY <1>1, <2>1
    <3>2. z_order[a] = z_order[b]
      BY <2>1, <3>1
    <3> QED BY <1>1, <2>1, <3>2
  <2> QED BY <2>1, <2>2
<1>3. z_order' = depth
  BY DEF Raise
<1> HIDE DEF hit, n
<1>4. CASE hit = {}
  <2>1. \A a \in App : {b \in hit : z_order[b] > z_order[a]} = {}
    BY <1>4
  <2>2. \A a \in App : depth[a] = z_order[a]
    BY <1>1, <1>4, <2>1, FS_EmptySet
  <2>3. depth \in [App -> 0 .. n - 1] /\ \A a, b \in App : depth[a] = depth[b] => a = b
    BY <1>1, <2>2
  <2> HIDE DEF depth
  <2> QED BY <1>3, <2>3 DEF DepthShape, n
<1>5. CASE hit # {}
  <2>1. PICK h \in App : hit = {h}
    BY <1>2, <1>5
  <2>2. ASSUME NEW a \in App, a # h
        PROVE  depth[a] = IF z_order[h] > z_order[a] THEN z_order[a] + 1 ELSE z_order[a]
    <3>1. CASE z_order[h] > z_order[a]
      <4>1. {b \in hit : z_order[b] > z_order[a]} = {h}
        BY <2>1, <3>1
      <4>2. Cardinality({h}) = 1
        BY FS_Singleton
      <4> QED BY <2>1, <2>2, <3>1, <4>1, <4>2
    <3>2. CASE ~(z_order[h] > z_order[a])
      <4>1. {b \in hit : z_order[b] > z_order[a]} = {}
        BY <2>1, <3>2
      <4>2. depth[a] = z_order[a] + 0
        BY <2>1, <2>2, <4>1, FS_EmptySet
      <4>3. z_order[a] \in Int
        BY <1>1
      <4> QED BY <3>2, <4>2, <4>3
    <3> QED BY <3>1, <3>2
  <2>3. depth[h] = 0
    BY <2>1
  <2>4. DOMAIN depth = App /\ depth = [a \in App |-> depth[a]]
    OBVIOUS
  <2> HIDE DEF depth
  <2>5. \A a \in App : depth[a] \in 0 .. n - 1
    BY <1>1, <2>2, <2>3
  <2>6. depth \in [App -> 0 .. n - 1]
    BY <2>4, <2>5
  <2>7. ASSUME NEW a \in App, NEW b \in App, depth[a] = depth[b]
        PROVE  a = b
    BY <1>1, <2>2, <2>3, <2>7
  <2> QED BY <1>3, <2>6, <2>7 DEF DepthShape, n
<1> QED BY <1>4, <1>5

LEMMA DepthShapeStep == Shape /\ [Next]_vars => DepthShape'
<1> SUFFICES ASSUME Shape, [Next]_vars PROVE DepthShape'
  OBVIOUS
<1>1. CASE UNCHANGED z_order
  BY <1>1 DEF Shape, DepthShape
<1>2. CASE Raise
  BY <1>2, RaiseKeepsDepths DEF Shape
<1>3. ASSUME NEW a \in App,
             Stop(a) \/ Tile(a) \/ GiveUp(a) \/ Respawn(a) \/ ToggleFullscreen(a)
      PROVE  DepthShape'
  BY <1>1, <1>3 DEF Stop, Tile, ReadApps, WritePinned, WriteTiles, GiveUp, Respawn, ToggleFullscreen
<1>4. ASSUME NEW button \in {"left", "middle"}, Press(button)
      PROVE  DepthShape'
  BY <1>1, <1>4 DEF Press
<1>5. CASE TryBeginResize \/ TryBeginDrag \/ FindStrip \/ Restore \/ FindDot \/ Minimize
  BY <1>1, <1>5 DEF TryBeginResize, TryBeginDrag, FindStrip, Restore, FindDot, Minimize
<1>6. ASSUME NEW p \in Point, MoveTo(p)
      PROVE  DepthShape'
  BY <1>1, <1>6 DEF MoveTo
<1>7. CASE Release \/ CountSlots \/ Snap
  BY <1>1, <1>7 DEF Release, CountSlots, Snap
<1>8. CASE UNCHANGED vars
  BY <1>1, <1>8 DEF vars
<1> QED BY <1>2, <1>3, <1>4, <1>5, <1>6, <1>7, <1>8 DEF Next, Click

LEMMA ShapeHolds == Spec => []Shape
<1>1. Shape /\ [Next]_vars => Shape'
  BY WaiterShapeStep, MouseShapeStep, DepthShapeStep DEF Shape
<1> QED BY <1>1, InitShape, PTL DEF Spec

(* Whatever the screen, whatever is pressed when: a drag or a resize is on *)
(* only while the button is held and never both, and raising windows keeps *)
(* them in one order, from front to back.                                  *)
THEOREM TypeCorrect == Spec => []TypeOK
  BY ShapeHolds, ShapeImplies, PTL

-----------------------------------------------------------------------------
(* The tiles of a tiling                                                   *)

(* The shares of a length are side by side and together all of it.         *)
LEMMA SharesApart ==
  ASSUME NEW m \in 1 .. 3, NEW k \in 0 .. m - 1, NEW l \in 0 .. m - 1, k < l, NEW length \in Nat
  PROVE  Share(k, m, length).at + Share(k, m, length).len <= Share(l, m, length).at
<1> DEFINE size == length \div m
<1>1. size \in Nat
  OBVIOUS
<1>2. Share(k, m, length) = [at |-> k * size, len |-> size]
  BY DEF Share
<1>3. Share(l, m, length).at = l * size
  BY DEF Share
<1> HIDE DEF size
<1>4. k * size + size <= l * size
  <2>1. k \in {0, 1, 2} /\ l \in {0, 1, 2}
    OBVIOUS
  <2> QED BY <1>1, <2>1
<1> QED BY <1>2, <1>3, <1>4

LEMMA SharesCover ==
  ASSUME NEW m \in 1 .. 3, NEW length \in Nat, NEW v \in 0 .. length - 1
  PROVE  \E k \in 0 .. m - 1 : /\ Share(k, m, length).at <= v
                               /\ v < Share(k, m, length).at + Share(k, m, length).len
<1> DEFINE size == length \div m
<1>1. size \in Nat
  OBVIOUS
<1>2. \A k \in 0 .. m - 1 :
        Share(k, m, length) = [at |-> k * size,
                               len |-> IF k + 1 = m THEN length - k * size ELSE size]
  BY DEF Share
<1> HIDE DEF size
<1>3. CASE m = 1
  <2>1. Share(0, m, length) = [at |-> 0 * size, len |-> length - 0 * size]
    BY <1>2, <1>3
  <2>2. 0 * size = 0 /\ length - 0 * size = length
    BY <1>1
  <2> QED BY <1>3, <2>1, <2>2
<1>4. CASE m = 2
  <2>1. /\ Share(0, m, length) = [at |-> 0 * size, len |-> size]
        /\ Share(1, m, length) = [at |-> 1 * size, len |-> length - 1 * size]
    BY <1>2, <1>4
  <2>2. 0 * size = 0 /\ 1 * size = size
    BY <1>1
  <2> QED BY <1>1, <1>4, <2>1, <2>2
<1>5. CASE m = 3
  <2>1. /\ Share(0, m, length) = [at |-> 0 * size, len |-> size]
        /\ Share(1, m, length) = [at |-> 1 * size, len |-> size]
        /\ Share(2, m, length) = [at |-> 2 * size, len |-> length - 2 * size]
    BY <1>2, <1>5
  <2>2. 0 * size = 0 /\ 1 * size = size
    BY <1>1
  <2>3. v < size \/ (size <= v /\ v < 2 * size) \/ 2 * size <= v
    BY <1>1
  <2> QED BY <1>1, <1>5, <2>1, <2>2, <2>3
<1> QED BY <1>3, <1>4, <1>5

(* How many rows n tiles have, and how many columns each row.              *)
Rows(n) == (n + ceil_sqrt(n) - 1) \div ceil_sqrt(n)
Columns(n, row) == IF row = Rows(n) - 1 THEN n - (Rows(n) - 1) * ceil_sqrt(n) ELSE ceil_sqrt(n)

(* The tiles and the places of the grid correspond.                        *)
LEMMA GridPlaces ==
  ASSUME NEW n \in 1 .. 9
  PROVE  /\ Rows(n) \in 1 .. 3
         /\ \A row \in 0 .. Rows(n) - 1 : Columns(n, row) \in 1 .. 3
         /\ \A i \in 0 .. n - 1 : /\ i \div ceil_sqrt(n) \in 0 .. Rows(n) - 1
                                  /\ i % ceil_sqrt(n) \in 0 .. Columns(n, i \div ceil_sqrt(n)) - 1
         /\ \A i, j \in 0 .. n - 1 : i # j => \/ i \div ceil_sqrt(n) # j \div ceil_sqrt(n)
                                              \/ i % ceil_sqrt(n) # j % ceil_sqrt(n)
         /\ \A row \in 0 .. Rows(n) - 1 : \A col \in 0 .. Columns(n, row) - 1 :
              \E i \in 0 .. n - 1 : i \div ceil_sqrt(n) = row /\ i % ceil_sqrt(n) = col
         /\ \A i \in 0 .. n - 1 : i \div ceil_sqrt(n) = Rows(n) - 1
                                  <=> ~(i \div ceil_sqrt(n) < (n - 1) \div ceil_sqrt(n))
<1> DEFINE c == ceil_sqrt(n)
<1>1. c \in 1 .. 3 /\ n <= c * c
  BY FewColumns
<1> HIDE DEF c
<1> DEFINE rows == (n + c - 1) \div c
           width(row) == IF row = rows - 1 THEN n - (rows - 1) * c ELSE c
<1>2. Rows(n) = rows /\ \A row : Columns(n, row) = width(row)
  BY DEF Rows, Columns, c
<1>3. ASSUME NEW i \in 0 .. n - 1
      PROVE  /\ rows \in 1 .. 3 /\ i \div c \in 0 .. rows - 1 /\ width(i \div c) \in 1 .. 3
             /\ i % c \in 0 .. width(i \div c) - 1
             /\ i \div c = rows - 1 <=> ~(i \div c < (n - 1) \div c)
  <2>1. CASE c = 1
    BY <1>1, <2>1
  <2>2. CASE c = 2
    BY <1>1, <2>2
  <2>3. CASE c = 3
    BY <1>1, <2>3
  <2> QED BY <1>1, <2>1, <2>2, <2>3
<1>4. ASSUME NEW i \in 0 .. n - 1, NEW j \in 0 .. n - 1, i # j
      PROVE  i \div c # j \div c \/ i % c # j % c
  <2>1. CASE c = 1
    BY <1>4, <2>1
  <2>2. CASE c = 2
    BY <1>4, <2>2
  <2>3. CASE c = 3
    BY <1>4, <2>3
  <2> QED BY <1>1, <2>1, <2>2, <2>3
<1>5. ASSUME NEW row \in 0 .. rows - 1, NEW col \in 0 .. width(row) - 1
      PROVE  \E i \in 0 .. n - 1 : i \div c = row /\ i % c = col
  <2> DEFINE i == row * c + col
  <2>1. i \in 0 .. n - 1 /\ i \div c = row /\ i % c = col
    <3>1. CASE c = 1
      BY <1>1, <3>1
    <3>2. CASE c = 2
      BY <1>1, <3>2
    <3>3. CASE c = 3
      BY <1>1, <3>3
    <3> QED BY <1>1, <3>1, <3>2, <3>3
  <2> QED BY <2>1
<1>6. \A row \in 0 .. rows - 1 : width(row) \in 1 .. 3
  <2>1. CASE c = 1
    BY <1>1, <2>1
  <2>2. CASE c = 2
    BY <1>1, <2>2
  <2>3. CASE c = 3
    BY <1>1, <2>3
  <2> QED BY <1>1, <2>1, <2>2, <2>3
<1>7. rows \in 1 .. 3
  BY <1>1, <1>3
<1> HIDE DEF rows, width
<1> QED BY <1>2, <1>3, <1>4, <1>5, <1>6, <1>7 DEF c

(* The hint of a tile above the last row fits its column.                  *)
HintFits(i, n, wanted) ==
    i \div ceil_sqrt(n) < (n - 1) \div ceil_sqrt(n) => wanted <= SW \div ceil_sqrt(n)

(* Where in its row, and which row, tile i of n is.                        *)
Across(i, n)  == Share(i % ceil_sqrt(n), Columns(n, i \div ceil_sqrt(n)), SW)
Down(i, n, h) == Share(i \div ceil_sqrt(n), Rows(n), h)

LEMMA SharesInside ==
  ASSUME Roomy, NEW n \in 1 .. 9, NEW i \in 0 .. n - 1, NEW h \in Nat, 3 * MIN_H <= h
  PROVE  /\ Across(i, n).at \in Int /\ Across(i, n).len \in Int
         /\ 0 <= Across(i, n).at /\ MIN_W <= Across(i, n).len
         /\ Across(i, n).at + Across(i, n).len <= SW
         /\ Down(i, n, h).at \in Int /\ Down(i, n, h).len \in Int
         /\ 0 <= Down(i, n, h).at /\ MIN_H <= Down(i, n, h).len
         /\ Down(i, n, h).at + Down(i, n, h).len <= h
<1> DEFINE row == i \div ceil_sqrt(n)
           col == i % ceil_sqrt(n)
           w   == Columns(n, row)
<1>1. row \in 0 .. Rows(n) - 1 /\ Rows(n) \in 1 .. 3 /\ w \in 1 .. 3 /\ col \in 0 .. w - 1
  BY GridPlaces
<1>2. 3 * MIN_W <= SW
  BY DEF Roomy
<1>3. Across(i, n) = Share(col, w, SW) /\ Down(i, n, h) = Share(row, Rows(n), h)
  BY DEF Across, Down
<1> HIDE DEF row, col, w
<1> QED BY <1>1, <1>2, <1>3, Sizes, ShareInside

(* Where a tile is, if its hint fits.                                      *)
LEMMA TilePlace ==
  ASSUME Roomy, NEW n \in 1 .. 9, NEW i \in 0 .. n - 1, NEW h \in Nat, 3 * MIN_H <= h,
         NEW wanted \in Nat, HintFits(i, n, wanted)
  PROVE  tile(i, n, h, wanted) =
         Region(Across(i, n).at, MENUBAR_H + Down(i, n, h).at, Across(i, n).len, Down(i, n, h).len)
<1> DEFINE cols == ceil_sqrt(n)
           row  == i \div cols
           x == IF row = Rows(n) - 1 THEN Share(i % cols, n - (Rows(n) - 1) * cols, SW)
                ELSE IF wanted > SW \div cols THEN [at |-> 0, len |-> SW]
                ELSE Share(i % cols, cols, SW)
           y == Share(row, Rows(n), h)
<1>1. tile(i, n, h, wanted)
      = Region(x.at, MENUBAR_H + y.at, AtLeast(x.len, MIN_W), AtLeast(y.len, MIN_H))
  BY DEF tile, Rows
<1>2. x = Across(i, n) /\ y = Down(i, n, h)
  <2>1. CASE row = Rows(n) - 1
    BY <2>1 DEF Across, Down, Columns
  <2>2. CASE row # Rows(n) - 1
    <3>1. row < (n - 1) \div cols
      BY <2>2, GridPlaces
    <3>2. wanted <= SW \div cols
      BY <3>1 DEF HintFits
    <3>3. SW \div cols \in Int
      BY Sizes, FewColumns
    <3>4. ~(wanted > SW \div cols)
      BY <3>2, <3>3
    <3> QED BY <2>2, <3>4 DEF Across, Down, Columns
  <2> QED BY <2>1, <2>2
<1> HIDE DEF x, y
<1>3. AtLeast(x.len, MIN_W) = x.len /\ AtLeast(y.len, MIN_H) = y.len
  <2>1. /\ Across(i, n).len \in Int /\ MIN_W <= Across(i, n).len
        /\ Down(i, n, h).len \in Int /\ MIN_H <= Down(i, n, h).len
    BY SharesInside
  <2> QED BY <1>2, <2>1, Sizes DEF AtLeast
<1> QED BY <1>1, <1>2, <1>3

(* Two tiles do not overlap: they are in different rows or columns.        *)
LEMMA TilesApart ==
  ASSUME Roomy, NEW n \in 1 .. 9, NEW i \in 0 .. n - 1, NEW j \in 0 .. n - 1, i # j,
         NEW h \in Nat, 3 * MIN_H <= h, NEW u \in Nat, NEW v \in Nat,
         HintFits(i, n, u), HintFits(j, n, v)
  PROVE  Disjoint(tile(i, n, h, u), tile(j, n, h, v))
<1> DEFINE cols == ceil_sqrt(n)
           row(k) == k \div cols
           r == tile(i, n, h, u)
           s == tile(j, n, h, v)
<1>1. /\ r.x = Across(i, n).at /\ r.w = Across(i, n).len
      /\ r.y = MENUBAR_H + Down(i, n, h).at /\ r.h = Down(i, n, h).len
      /\ s.x = Across(j, n).at /\ s.w = Across(j, n).len
      /\ s.y = MENUBAR_H + Down(j, n, h).at /\ s.h = Down(j, n, h).len
  <2>1. r = Region(Across(i, n).at, MENUBAR_H + Down(i, n, h).at, Across(i, n).len,
                   Down(i, n, h).len)
    BY TilePlace
  <2>2. s = Region(Across(j, n).at, MENUBAR_H + Down(j, n, h).at, Across(j, n).len,
                   Down(j, n, h).len)
    BY TilePlace
  <2> HIDE DEF r, s
  <2> QED BY <2>1, <2>2 DEF Region
<1>2. /\ row(i) \in 0 .. Rows(n) - 1 /\ row(j) \in 0 .. Rows(n) - 1 /\ Rows(n) \in 1 .. 3
      /\ i % cols \in 0 .. Columns(n, row(i)) - 1 /\ Columns(n, row(i)) \in 1 .. 3
      /\ j % cols \in 0 .. Columns(n, row(j)) - 1
      /\ row(i) # row(j) \/ i % cols # j % cols
  BY GridPlaces
<1>3. /\ Down(i, n, h) = Share(row(i), Rows(n), h) /\ Down(j, n, h) = Share(row(j), Rows(n), h)
      /\ Across(i, n) = Share(i % cols, Columns(n, row(i)), SW)
      /\ Across(j, n) = Share(j % cols, Columns(n, row(j)), SW)
  BY DEF Across, Down
<1>4. /\ Down(i, n, h).at \in Int /\ Down(i, n, h).len \in Int
      /\ Down(j, n, h).at \in Int /\ Down(j, n, h).len \in Int
      /\ Across(i, n).at \in Int /\ Across(i, n).len \in Int
      /\ Across(j, n).at \in Int /\ Across(j, n).len \in Int
  BY SharesInside
<1> HIDE DEF r, s
<1>5. ASSUME row(i) # row(j) PROVE Disjoint(r, s)
  <2> DEFINE a == row(i)
             b == row(j)
  <2>1. a \in 0 .. Rows(n) - 1 /\ b \in 0 .. Rows(n) - 1 /\ a # b /\ Rows(n) \in 1 .. 3
        /\ Down(i, n, h) = Share(a, Rows(n), h) /\ Down(j, n, h) = Share(b, Rows(n), h)
    BY <1>2, <1>3, <1>5
  <2> HIDE DEF a, b
  <2>2. a < b \/ b < a
    BY <2>1
  <2>3. \/ Down(i, n, h).at + Down(i, n, h).len <= Down(j, n, h).at
        \/ Down(j, n, h).at + Down(j, n, h).len <= Down(i, n, h).at
    BY <2>1, <2>2, SharesApart
  <2> QED BY <1>1, <1>4, <2>3, Sizes DEF Disjoint
<1>6. ASSUME row(i) = row(j) PROVE Disjoint(r, s)
  <2> DEFINE a == i % cols
             b == j % cols
             w == Columns(n, row(i))
  <2>1. a \in 0 .. w - 1 /\ b \in 0 .. w - 1 /\ a # b /\ w \in 1 .. 3
        /\ Across(i, n) = Share(a, w, SW) /\ Across(j, n) = Share(b, w, SW)
    BY <1>2, <1>3, <1>6
  <2> HIDE DEF a, b, w
  <2>2. a < b \/ b < a
    BY <2>1
  <2>3. \/ Across(i, n).at + Across(i, n).len <= Across(j, n).at
        \/ Across(j, n).at + Across(j, n).len <= Across(i, n).at
    BY <2>1, <2>2, Sizes, SharesApart
  <2> QED BY <1>1, <2>3 DEF Disjoint
<1> QED BY <1>5, <1>6 DEF r, s

(* Every point between the menu bar and the dock is in a tile.             *)
LEMMA TilesCover ==
  ASSUME Roomy, NEW n \in 1 .. 9, NEW h \in Nat, 3 * MIN_H <= h,
         NEW x \in 0 .. SW - 1, NEW y \in 0 .. h - 1
  PROVE  \E i \in 0 .. n - 1 : \A wanted \in Nat :
           LET r == tile(i, n, h, wanted) IN
           HintFits(i, n, wanted) => /\ r.x <= x /\ x < r.x + r.w
                                     /\ r.y <= MENUBAR_H + y /\ MENUBAR_H + y < r.y + r.h
<1>1. PICK row \in 0 .. Rows(n) - 1 :
        /\ Share(row, Rows(n), h).at <= y
        /\ y < Share(row, Rows(n), h).at + Share(row, Rows(n), h).len
  <2>1. Rows(n) \in 1 .. 3
    BY GridPlaces
  <2> QED BY <2>1, SharesCover
<1>2. PICK col \in 0 .. Columns(n, row) - 1 :
        /\ Share(col, Columns(n, row), SW).at <= x
        /\ x < Share(col, Columns(n, row), SW).at + Share(col, Columns(n, row), SW).len
  <2>1. Columns(n, row) \in 1 .. 3
    BY GridPlaces
  <2> QED BY <2>1, Sizes, SharesCover
<1>3. PICK i \in 0 .. n - 1 : i \div ceil_sqrt(n) = row /\ i % ceil_sqrt(n) = col
  BY GridPlaces
<1> SUFFICES ASSUME NEW wanted \in Nat, HintFits(i, n, wanted)
             PROVE  LET r == tile(i, n, h, wanted) IN
                    /\ r.x <= x /\ x < r.x + r.w
                    /\ r.y <= MENUBAR_H + y /\ MENUBAR_H + y < r.y + r.h
  OBVIOUS
<1> DEFINE r == tile(i, n, h, wanted)
<1>4. /\ r.x = Across(i, n).at /\ r.w = Across(i, n).len
      /\ r.y = MENUBAR_H + Down(i, n, h).at /\ r.h = Down(i, n, h).len
  <2>1. r = Region(Across(i, n).at, MENUBAR_H + Down(i, n, h).at, Across(i, n).len,
                   Down(i, n, h).len)
    BY TilePlace
  <2> HIDE DEF r
  <2> QED BY <2>1 DEF Region
<1>5. Across(i, n) = Share(col, Columns(n, row), SW) /\ Down(i, n, h) = Share(row, Rows(n), h)
  BY <1>3 DEF Across, Down
<1>6. Down(i, n, h).at \in Int /\ Down(i, n, h).len \in Int
  BY SharesInside
<1> HIDE DEF r
<1>7. /\ r.x <= x /\ x < r.x + r.w
      /\ r.y <= MENUBAR_H + y /\ MENUBAR_H + y < r.y + r.h
  <2>1. r.x <= x /\ x < r.x + r.w
    BY <1>2, <1>4, <1>5
  <2>2. Down(i, n, h).at <= y /\ y < Down(i, n, h).at + Down(i, n, h).len
    BY <1>1, <1>5
  <2>3. r.y <= MENUBAR_H + y /\ MENUBAR_H + y < r.y + r.h
    BY <1>4, <1>6, <2>2, Sizes
  <2> QED BY <2>1, <2>3
<1> QED BY <1>7 DEF r

-----------------------------------------------------------------------------
(* The pixels of regions, and the sum of their areas                       *)

Sized     == [x : Int, y : Int, w : Nat, h : Nat]
Pixels(r) == (r.x .. r.x + r.w - 1) \X (r.y .. r.y + r.h - 1)
Covered(S) == UNION {Pixels(r) : r \in S}

LEMMA CountPixels ==
  ASSUME NEW r \in Sized
  PROVE  IsFiniteSet(Pixels(r)) /\ Cardinality(Pixels(r)) = Area(r)
<1> DEFINE X == r.x .. r.x + r.w - 1
           Y == r.y .. r.y + r.h - 1
<1>1. r.x \in Int /\ r.y \in Int /\ r.w \in Nat /\ r.h \in Nat
  BY DEF Sized
<1>2. ASSUME NEW a \in Int, NEW n \in Nat
      PROVE  IsFiniteSet(a .. a + n - 1) /\ Cardinality(a .. a + n - 1) = n
  <2>1. a + n - 1 \in Int
    OBVIOUS
  <2>2. /\ IsFiniteSet(a .. a + n - 1)
        /\ Cardinality(a .. a + n - 1) = IF a > a + n - 1 THEN 0 ELSE a + n - 1 - a + 1
    BY <2>1, FS_Interval
  <2> QED BY <2>2
<1>3. IsFiniteSet(X) /\ Cardinality(X) = r.w /\ IsFiniteSet(Y) /\ Cardinality(Y) = r.h
  BY <1>1, <1>2
<1> HIDE DEF X, Y
<1>4. IsFiniteSet(X \X Y) /\ Cardinality(X \X Y) = r.w * r.h
  BY <1>3, FS_Product
<1> QED BY <1>4 DEF Pixels, Area, X, Y

LEMMA PixelsApart ==
  ASSUME NEW r \in Sized, NEW s \in Sized, Disjoint(r, s)
  PROVE  Pixels(r) \cap Pixels(s) = {}
<1> SUFFICES ASSUME NEW p \in Pixels(r), p \in Pixels(s) PROVE FALSE
  OBVIOUS
<1>1. /\ r.x \in Int /\ r.y \in Int /\ r.w \in Nat /\ r.h \in Nat
      /\ s.x \in Int /\ s.y \in Int /\ s.w \in Nat /\ s.h \in Nat
  BY DEF Sized
<1>2. /\ p[1] \in r.x .. r.x + r.w - 1 /\ p[2] \in r.y .. r.y + r.h - 1
      /\ p[1] \in s.x .. s.x + s.w - 1 /\ p[2] \in s.y .. s.y + s.h - 1
  BY DEF Pixels
<1> QED BY <1>1, <1>2 DEF Disjoint

(* The sum of areas of regions that do not overlap is the number of pixels *)
(* they cover.  The sum is a recursive function on sets: the number of     *)
(* pixels satisfies its equation, and a smallest set on which a solution   *)
(* differed from it would not be empty nor have an element to take away.   *)
LEMMA SumIsChosen ==
  ASSUME NEW S
  PROVE  MapThenSumSet(Area, S) =
         (CHOOSE f : f = [s \in SUBSET S |-> IF s = {} THEN 0
                          ELSE Area(CHOOSE x \in s : TRUE) + f[s \ {CHOOSE x \in s : TRUE}]])[S]
  BY DEF MapThenSumSet, MapThenFoldSet

LEMMA SumOfAreas ==
  ASSUME NEW S, IsFiniteSet(S), S \subseteq Sized, \A r, s \in S : r # s => Disjoint(r, s)
  PROVE  MapThenSumSet(Area, S) = Cardinality(Covered(S))
<1> DEFINE one(s) == CHOOSE x \in s : TRUE
           Sums(f) == f = [s \in SUBSET S |-> IF s = {} THEN 0 ELSE Area(one(s)) + f[s \ {one(s)}]]
           count == [s \in SUBSET S |-> Cardinality(Covered(s))]
<1>1. ASSUME NEW s \in SUBSET S
      PROVE  IsFiniteSet(s) /\ IsFiniteSet(Covered(s)) /\ Cardinality(Covered(s)) \in Nat
  <2>1. IsFiniteSet(s)
    BY FS_Subset
  <2>2. IsFiniteSet({Pixels(r) : r \in s})
    <3> DEFINE f == [r \in s |-> Pixels(r)]
    <3>1. f \in Surjection(s, {Pixels(r) : r \in s})
      BY DEF Surjection
    <3> QED BY <2>1, <3>1, FS_Surjection
  <2>3. \A T \in {Pixels(r) : r \in s} : IsFiniteSet(T)
    BY CountPixels
  <2>4. IsFiniteSet(Covered(s))
    BY <2>2, <2>3, FS_UNION DEF Covered
  <2> QED BY <2>1, <2>4, FS_CardinalityType
<1>2. Covered({}) = {}
  BY DEF Covered
<1>3. ASSUME NEW s \in SUBSET S, s # {}
      PROVE  one(s) \in s /\ s \ {one(s)} \in SUBSET S
  BY <1>3
<1>4. ASSUME NEW s \in SUBSET S, NEW x \in s
      PROVE  Cardinality(Covered(s)) = Area(x) + Cardinality(Covered(s \ {x}))
  <2> DEFINE rest == s \ {x}
  <2>1. Covered(s) = Pixels(x) \cup Covered(rest)
    BY DEF Covered
  <2>2. Pixels(x) \cap Covered(rest) = {}
    <3>1. ASSUME NEW r \in rest PROVE Pixels(x) \cap Pixels(r) = {}
      BY PixelsApart
    <3> QED BY <3>1 DEF Covered
  <2>3. rest \in SUBSET S /\ x \in Sized
    OBVIOUS
  <2> HIDE DEF rest
  <2>4. /\ IsFiniteSet(Pixels(x)) /\ Cardinality(Pixels(x)) = Area(x)
        /\ IsFiniteSet(Covered(rest)) /\ Cardinality(Covered(rest)) \in Nat
    BY <1>1, <2>3, CountPixels
  <2>5. Cardinality(Covered(s)) = Area(x) + Cardinality(Covered(rest)) - 0
    BY <2>1, <2>2, <2>4, FS_Union, FS_EmptySet
  <2>6. Area(x) \in Nat
    BY <2>4, FS_CardinalityType
  <2> QED BY <2>4, <2>5, <2>6 DEF rest
<1>5. Sums(count)
  <2> SUFFICES ASSUME NEW s \in SUBSET S
               PROVE  Cardinality(Covered(s)) =
                      IF s = {} THEN 0 ELSE Area(one(s)) + count[s \ {one(s)}]
    BY Zenon
  <2>1. CASE s = {}
    BY <1>2, <2>1, FS_EmptySet
  <2>2. CASE s # {}
    <3> DEFINE x == one(s)
    <3>1. x \in s /\ s \ {x} \in SUBSET S
      BY <1>3, <2>2
    <3> HIDE DEF x
    <3>2. Cardinality(Covered(s)) = Area(x) + count[s \ {x}]
      BY <1>4, <3>1
    <3> QED BY <2>2, <3>2 DEF x
  <2> QED BY <2>1, <2>2
<1>6. ASSUME NEW f, Sums(f) PROVE \A s \in SUBSET S : f[s] = Cardinality(Covered(s))
  <2> DEFINE Wrong == {s \in SUBSET S : f[s] # Cardinality(Covered(s))}
             Numbers == {Cardinality(s) : s \in Wrong}
  <2>1. SUFFICES ASSUME Wrong # {} PROVE FALSE
    OBVIOUS
  <2>2. Numbers \subseteq Nat /\ Numbers # {}
    BY <1>1, <2>1, FS_CardinalityType
  <2>3. PICK s \in Wrong : \A t \in Wrong : ~(Cardinality(t) < Cardinality(s))
    <3> HIDE DEF Numbers
    <3>1. PICK k \in Numbers : \A l \in Numbers : ~(<<l, k>> \in OpToRel(<, Nat))
      BY <2>2, WFMin, NatLessThanWellFounded, Zenon
    <3>2. \A l \in Numbers : ~(l < k)
      BY <2>2, <3>1 DEF OpToRel
    <3> QED BY <3>2 DEF Numbers
  <2>4. f[s] = IF s = {} THEN 0 ELSE Area(one(s)) + f[s \ {one(s)}]
    BY <1>6, Zenon
  <2>5. CASE s = {}
    BY <1>2, <2>4, <2>5, FS_EmptySet
  <2>6. CASE s # {}
    <3> DEFINE x == one(s)
               rest == s \ {x}
    <3>1. x \in s /\ rest \in SUBSET S
      BY <1>3, <2>6
    <3>2. f[s] = Area(x) + f[rest]
      BY <2>4, <2>6
    <3> HIDE DEF x
    <3>3. Cardinality(rest) < Cardinality(s)
      <4>1. IsFiniteSet(s)
        BY <1>1
      <4>2. Cardinality(rest) = Cardinality(s) - 1 /\ Cardinality(s) \in Nat
        BY <3>1, <4>1, FS_RemoveElement, FS_CardinalityType
      <4> QED BY <4>2
    <3>4. f[rest] = Cardinality(Covered(rest))
      BY <2>3, <3>1, <3>3
    <3>5. Cardinality(Covered(s)) = Area(x) + Cardinality(Covered(rest))
      BY <1>4, <3>1
    <3> QED BY <3>2, <3>4, <3>5
  <2> QED BY <2>5, <2>6
<1>7. Sums(CHOOSE f : Sums(f))
  <2> HIDE DEF Sums
  <2> QED BY <1>5, Zenon
<1>8. (CHOOSE f : Sums(f))[S] = Cardinality(Covered(S))
  <2> HIDE DEF Sums
  <2> QED BY <1>6, <1>7
<1> QED BY <1>8, SumIsChosen

-----------------------------------------------------------------------------
(* A tiling of what is running partitions the screen                       *)

(* The tiled windows in the order of their names take the tiles one each.  *)
LEMMA IndexOnto ==
  ASSUME NEW of \in SUBSET App
  PROVE  /\ \A b \in Tiled(of) : Index(of, b) \in 0 .. Cardinality(Tiled(of)) - 1
         /\ \A b, c \in Tiled(of) : Index(of, b) = Index(of, c) => b = c
         /\ \A i \in 0 .. Cardinality(Tiled(of)) - 1 : \E b \in Tiled(of) : Index(of, b) = i
<1> DEFINE T == Tiled(of)
           before == [b \in T |-> {c \in T : order[c] < order[b]}]
           rank == [b \in T |-> Cardinality(before[b])]
<1>1. T \in SUBSET App /\ IsFiniteSet(T)
  <2>1. T \in SUBSET App
    BY DEF Tiled
  <2> HIDE DEF T
  <2> QED BY <2>1, FewOf
<1>2. before \in [T -> SUBSET T] /\ \A b \in T : b \notin before[b]
  <2>1. \A b \in T : order[b] \in Nat
    BY <1>1, AppAssumption
  <2> HIDE DEF T
  <2> QED BY <2>1
<1>3. ASSUME NEW b \in T, NEW c \in T, b # c
      PROVE  \/ before[b] \subseteq before[c] /\ b \in before[c]
             \/ before[c] \subseteq before[b] /\ c \in before[b]
  <2>1. \A d \in T : order[d] \in Nat
    BY <1>1, AppAssumption
  <2>2. order[b] # order[c]
    BY <1>1, <1>3, AppAssumption
  <2> HIDE DEF T
  <2> QED BY <2>1, <2>2
<1>4. \A b \in T : Index(of, b) = rank[b]
  BY DEF Index
<1> HIDE DEF T, before
<1>5. /\ rank \in [T -> 0 .. Cardinality(T) - 1]
      /\ \A b, c \in T : rank[b] = rank[c] => b = c
  BY <1>1, <1>2, <1>3, ChainRanks
<1>6. {rank[b] : b \in T} = 0 .. Cardinality(T) - 1
  <2> HIDE DEF rank
  <2> QED BY <1>1, <1>5, RanksFill
<1> HIDE DEF rank
<1> QED BY <1>4, <1>5, <1>6 DEF T

(* A tiling in which the hints fit: each window has a size and lies        *)
(* between menu bar and dock; no two overlap; and there is no gap.         *)
LEMMA PlacedTiles ==
  ASSUME Roomy, NEW of \in SUBSET App, HintsFit(of)
  PROVE  /\ \A b \in Tiled(of) :
              LET r == Placed(of, b) IN
              /\ r \in Sized /\ 0 < r.w /\ 0 < r.h
              /\ 0 <= r.x /\ r.x + r.w <= SW
              /\ MENUBAR_H <= r.y /\ r.y + r.h <= MENUBAR_H + UsableHeight(of)
         /\ \A b, c \in Tiled(of) : b # c => Disjoint(Placed(of, b), Placed(of, c))
         /\ Tiled(of) # {} =>
              \A x \in 0 .. SW - 1 : \A y \in 0 .. UsableHeight(of) - 1 :
                \E b \in Tiled(of) :
                  LET r == Placed(of, b) IN
                  /\ r.x <= x /\ x < r.x + r.w
                  /\ r.y <= MENUBAR_H + y /\ MENUBAR_H + y < r.y + r.h
<1> DEFINE T == Tiled(of)
           n == Cardinality(T)
           h == UsableHeight(of)
<1>1. h \in Nat /\ 3 * MIN_H <= h /\ MENUBAR_H \in Nat
  BY Sizes DEF UsableHeight, Roomy
<1>2. n \in 0 .. 9 /\ (T # {} => n \in 1 .. 9)
  <2>1. T \in SUBSET App
    BY DEF Tiled
  <2> HIDE DEF T
  <2> QED BY <2>1, FewOf, FS_EmptySet
<1>3. ASSUME NEW b \in T
      PROVE  /\ n \in 1 .. 9 /\ Index(of, b) \in 0 .. n - 1
             /\ min_w[b] \in Nat /\ HintFits(Index(of, b), n, min_w[b])
             /\ Placed(of, b) = tile(Index(of, b), n, h, min_w[b])
  <2>1. b \in App /\ b \notin Pinned /\ T # {}
    BY DEF Tiled
  <2>2. Index(of, b) \in 0 .. n - 1
    BY IndexOnto
  <2>3. HintFits(Index(of, b), n, min_w[b])
    BY DEF HintsFit, HintFits
  <2> QED BY <1>2, <2>1, <2>2, <2>3, AppAssumption DEF Placed
<1>4. \A b, c \in T : Index(of, b) = Index(of, c) => b = c
  BY IndexOnto
<1>5. \A i \in 0 .. n - 1 : \E b \in T : Index(of, b) = i
  BY IndexOnto
<1> HIDE DEF T, n, h
<1>6. ASSUME NEW b \in T
      PROVE  LET r == Placed(of, b) IN
             /\ r \in Sized /\ 0 < r.w /\ 0 < r.h
             /\ 0 <= r.x /\ r.x + r.w <= SW
             /\ MENUBAR_H <= r.y /\ r.y + r.h <= MENUBAR_H + h
  <2> DEFINE i == Index(of, b)
             x == Across(i, n)
             y == Down(i, n, h)
             r == Placed(of, b)
  <2>1. n \in 1 .. 9 /\ i \in 0 .. n - 1
    BY <1>3
  <2>2. r = Region(x.at, MENUBAR_H + y.at, x.len, y.len)
    BY <1>1, <1>3, TilePlace
  <2>3. /\ x.at \in Int /\ x.len \in Int /\ 0 <= x.at /\ MIN_W <= x.len /\ x.at + x.len <= SW
        /\ y.at \in Int /\ y.len \in Int /\ 0 <= y.at /\ MIN_H <= y.len /\ y.at + y.len <= h
    BY <1>1, <2>1, SharesInside
  <2> HIDE DEF x, y, r
  <2>4. /\ x.len \in Nat /\ y.len \in Nat /\ 0 < x.len /\ 0 < y.len
    BY <2>3, Sizes DEF Roomy
  <2>5. MENUBAR_H + y.at \in Int
    BY <2>3, Sizes
  <2>6. r.x = x.at /\ r.y = MENUBAR_H + y.at /\ r.w = x.len /\ r.h = y.len
    BY <2>2 DEF Region
  <2>7. r \in Sized
    BY <2>2, <2>3, <2>4, <2>5 DEF Region, Sized
  <2>8. MENUBAR_H <= r.y /\ r.y + r.h <= MENUBAR_H + h
    BY <1>1, <2>3, <2>6
  <2>9. 0 < r.w /\ 0 < r.h /\ 0 <= r.x /\ r.x + r.w <= SW
    BY <2>3, <2>4, <2>6
  <2> QED BY <2>7, <2>8, <2>9 DEF r
<1>7. ASSUME NEW b \in T, NEW c \in T, b # c
      PROVE  Disjoint(Placed(of, b), Placed(of, c))
  <2>1. Index(of, b) # Index(of, c)
    BY <1>4, <1>7
  <2>2. Disjoint(tile(Index(of, b), n, h, min_w[b]), tile(Index(of, c), n, h, min_w[c]))
    BY <1>1, <1>3, <2>1, TilesApart
  <2> QED BY <1>3, <2>2
<1>8. ASSUME T # {}, NEW x \in 0 .. SW - 1, NEW y \in 0 .. h - 1
      PROVE  \E b \in T : LET r == Placed(of, b) IN
                          /\ r.x <= x /\ x < r.x + r.w
                          /\ r.y <= MENUBAR_H + y /\ MENUBAR_H + y < r.y + r.h
  <2>1. PICK i \in 0 .. n - 1 : \A wanted \in Nat :
           LET r == tile(i, n, h, wanted) IN
           HintFits(i, n, wanted) => /\ r.x <= x /\ x < r.x + r.w
                                     /\ r.y <= MENUBAR_H + y /\ MENUBAR_H + y < r.y + r.h
    BY <1>1, <1>2, <1>8, TilesCover
  <2>2. PICK b \in T : Index(of, b) = i
    BY <1>5
  <2> QED BY <1>3, <2>1, <2>2
<1> QED BY <1>6, <1>7, <1>8 DEF T, h

LEMMA TilingPartitions ==
  ASSUME Roomy, IInv, Shape, NEW a \in App, WriteTiles(a), waiter[a].of = Running,
         HintsFit(Running)
  PROVE  LET after == {state'[b].region : b \in Running \ Pinned} IN
         /\ Cardinality(after) = Cardinality(Running \ Pinned)
         /\ \A r, s \in after : r # s => Disjoint(r, s)
         /\ MapThenSumSet(Area, after) = SW * UsableHeight(waiter[a].of)
<1> DEFINE T == Running \ Pinned
           h == UsableHeight(Running)
           after == {state'[b].region : b \in T}
<1>1. Running \in SUBSET App /\ Tiled(Running) = T /\ T # {}
  <2>1. Running \in SUBSET App /\ Tiled(Running) = T
    BY DEF Running, Tiled
  <2>2. Tiled(waiter[a].of) # {}
    BY DEF Shape, WaiterShape, WriteTiles
  <2> QED BY <2>1, <2>2
<1>2. ASSUME NEW b \in T PROVE state'[b].region = Placed(Running, b)
  <2>1. b \in App /\ b \in Tiled(Running) /\ state[b] \in AppState
    BY <1>1 DEF IInv
  <2>2. state'[b] = [state[b] EXCEPT !.region = Placed(Running, b)]
    BY <2>1 DEF WriteTiles, Place
  <2> QED BY <2>1, <2>2 DEF AppState
<1>3. after = {Placed(Running, b) : b \in T}
  BY <1>2
<1>4. h \in Nat /\ SW \in Nat /\ MENUBAR_H \in Nat
  BY Sizes DEF UsableHeight, Roomy
<1>5. IsFiniteSet(T)
  BY <1>1, FewOf
<1>6. /\ \A b \in T :
           LET r == Placed(Running, b) IN
           /\ r \in Sized /\ 0 < r.w /\ 0 < r.h
           /\ 0 <= r.x /\ r.x + r.w <= SW
           /\ MENUBAR_H <= r.y /\ r.y + r.h <= MENUBAR_H + h
      /\ \A b, c \in T : b # c => Disjoint(Placed(Running, b), Placed(Running, c))
      /\ \A x \in 0 .. SW - 1 : \A y \in 0 .. h - 1 : \E b \in T :
           LET r == Placed(Running, b) IN
           /\ r.x <= x /\ x < r.x + r.w
           /\ r.y <= MENUBAR_H + y /\ MENUBAR_H + y < r.y + r.h
  BY <1>1, PlacedTiles
<1> HIDE DEF T, h, after
<1>7. \A r, s \in after : r # s => Disjoint(r, s)
  BY <1>3, <1>6
<1>8. IsFiniteSet(after) /\ Cardinality(after) = Cardinality(T)
  <2> DEFINE place == [b \in T |-> Placed(Running, b)]
  <2>1. place \in Surjection(T, after)
    BY <1>3 DEF Surjection
  <2>2. ASSUME NEW b \in T, NEW c \in T, b # c PROVE place[b] # place[c]
    <3> DEFINE r == Placed(Running, b)
    <3>1. Disjoint(r, Placed(Running, c)) /\ r \in Sized /\ 0 < r.w /\ 0 < r.h
      BY <1>6, <2>2
    <3>2. r.x \in Int /\ r.y \in Int /\ r.w \in Nat /\ r.h \in Nat
      BY <3>1 DEF Sized
    <3> HIDE DEF r
    <3>3. ~Disjoint(r, r)
      BY <3>1, <3>2 DEF Disjoint
    <3> QED BY <3>1, <3>3 DEF r
  <2>3. place \in Injection(T, after)
    BY <1>3, <2>2 DEF Injection, IsInjective
  <2> HIDE DEF place
  <2> QED BY <1>5, <2>1, <2>3, FS_Surjection
<1>9. MapThenSumSet(Area, after) = SW * h
  <2> DEFINE usable == Region(0, MENUBAR_H, SW, h)
  <2>1. usable \in Sized /\ Area(usable) = SW * h
    BY <1>4 DEF Region, Sized, Area
  <2>2. MapThenSumSet(Area, after) = Cardinality(Covered(after))
    BY <1>3, <1>6, <1>7, <1>8, SumOfAreas
  <2>3. Pixels(usable) = (0 .. 0 + SW - 1) \X (MENUBAR_H .. MENUBAR_H + h - 1)
    BY DEF Pixels, Region
  <2>4. ASSUME NEW r \in after PROVE Pixels(r) \subseteq Pixels(usable)
    <3>1. /\ r \in Sized /\ 0 <= r.x /\ r.x + r.w <= SW
          /\ MENUBAR_H <= r.y /\ r.y + r.h <= MENUBAR_H + h
      BY <1>3, <1>6
    <3>2. r.x \in Int /\ r.y \in Int /\ r.w \in Nat /\ r.h \in Nat
      BY <3>1 DEF Sized
    <3>3. /\ r.x .. r.x + r.w - 1 \subseteq 0 .. 0 + SW - 1
          /\ r.y .. r.y + r.h - 1 \subseteq MENUBAR_H .. MENUBAR_H + h - 1
      BY <1>4, <3>1, <3>2
    <3> HIDE DEF usable
    <3> QED BY <2>3, <3>3 DEF Pixels
  <2>5. ASSUME NEW p \in Pixels(usable) PROVE \E r \in after : p \in Pixels(r)
    <3> DEFINE x == p[1]
               y == p[2] - MENUBAR_H
    <3>1. x \in 0 .. SW - 1 /\ y \in 0 .. h - 1 /\ p = <<x, MENUBAR_H + y>>
      BY <1>4, <2>3
    <3> HIDE DEF x, y
    <3>2. PICK r \in after : /\ r \in Sized /\ r.x <= x /\ x < r.x + r.w
                             /\ r.y <= MENUBAR_H + y /\ MENUBAR_H + y < r.y + r.h
      BY <1>3, <1>6, <3>1
    <3>3. r.x \in Int /\ r.y \in Int /\ r.w \in Nat /\ r.h \in Nat
      BY <3>2 DEF Sized
    <3>4. x \in r.x .. r.x + r.w - 1 /\ MENUBAR_H + y \in r.y .. r.y + r.h - 1
      BY <1>4, <3>1, <3>2, <3>3
    <3> QED BY <3>1, <3>4 DEF Pixels
  <2>6. Covered(after) = Pixels(usable)
    <3> HIDE DEF usable
    <3> QED BY <2>4, <2>5 DEF Covered
  <2> HIDE DEF usable
  <2> QED BY <2>1, <2>2, <2>6, CountPixels
<1> QED BY <1>7, <1>8, <1>9 DEF T, h, after

(* TilesPartition always holds on a screen with room for nine tiles: when  *)
(* a tiling of exactly the running applications has written its regions,   *)
(* no two tiled windows overlap (windows.rs:6) and none of the area        *)
(* between menu bar and dock is left over, provided no hint is wider than  *)
(* its column. The regions that other tilings, drags or resizes left       *)
(* before it do not matter.                                                *)
THEOREM TilingsPartition ==
  ASSUME Roomy
  PROVE  Spec => TilesPartition
<1>1. IInv /\ Shape /\ [Next]_vars =>
        [\A a \in App : WriteTiles(a) /\ waiter[a].of = Running /\ HintsFit(Running) =>
           LET after == {state'[b].region : b \in Running \ Pinned} IN
           /\ Cardinality(after) = Cardinality(Running \ Pinned)
           /\ \A r, s \in after : r # s => Disjoint(r, s)
           /\ MapThenSumSet(Area, after) = SW * UsableHeight(waiter[a].of)]_vars
  BY TilingPartitions
<1> QED BY <1>1, InvHolds, ShapeHolds, PTL DEF Spec, TilesPartition

(* A window whose hint does not fit covers its whole row.                  *)
LEMMA WidePlace ==
  ASSUME Roomy, NEW n \in 1 .. 9, NEW i \in 0 .. n - 1, NEW h \in Nat, 3 * MIN_H <= h,
         NEW wanted \in Nat, ~HintFits(i, n, wanted)
  PROVE  tile(i, n, h, wanted) =
         Region(0, MENUBAR_H + Down(i, n, h).at, SW, Down(i, n, h).len)
<1> DEFINE cols == ceil_sqrt(n)
           row  == i \div cols
           x == IF row = Rows(n) - 1 THEN Share(i % cols, n - (Rows(n) - 1) * cols, SW)
                ELSE IF wanted > SW \div cols THEN [at |-> 0, len |-> SW]
                ELSE Share(i % cols, cols, SW)
           y == Share(row, Rows(n), h)
<1>1. tile(i, n, h, wanted)
      = Region(x.at, MENUBAR_H + y.at, AtLeast(x.len, MIN_W), AtLeast(y.len, MIN_H))
  BY DEF tile, Rows
<1>2. x = [at |-> 0, len |-> SW] /\ y = Down(i, n, h)
  <2>1. row # Rows(n) - 1
    BY GridPlaces DEF HintFits
  <2>2. SW \div cols \in Int
    BY Sizes, FewColumns
  <2>3. wanted > SW \div cols
    BY <2>2 DEF HintFits
  <2> QED BY <2>1, <2>3 DEF Down
<1> HIDE DEF x, y
<1>3. AtLeast(x.len, MIN_W) = SW /\ AtLeast(y.len, MIN_H) = y.len
  <2>1. Down(i, n, h).len \in Int /\ MIN_H <= Down(i, n, h).len
    BY SharesInside
  <2> QED BY <1>2, <2>1, Sizes, GeometryAssumption DEF AtLeast
<1> QED BY <1>1, <1>2, <1>3

(* ... and with it the others in the row, of which there is one.           *)
LEMMA WideOverlaps ==
  ASSUME Roomy, NEW n \in 1 .. 9, NEW i \in 0 .. n - 1, NEW h \in Nat, 3 * MIN_H <= h,
         NEW wanted \in Nat, ~HintFits(i, n, wanted)
  PROVE  \E j \in 0 .. n - 1 : /\ i # j
                               /\ \A v \in Nat : ~Disjoint(tile(i, n, h, wanted), tile(j, n, h, v))
<1> DEFINE cols == ceil_sqrt(n)
           row  == i \div cols
           col  == IF i % cols = 0 THEN 1 ELSE 0
<1>1. row \in 0 .. Rows(n) - 1 /\ row < (n - 1) \div cols
  BY GridPlaces DEF HintFits
<1>2. row # Rows(n) - 1
  BY <1>1, GridPlaces
<1>3. cols \in 2 .. 3
  <2>1. cols \in 1 .. 3 /\ n <= cols * cols
    BY FewColumns
  <2>2. cols # 1
    <3> SUFFICES ASSUME cols = 1 PROVE FALSE
      OBVIOUS
    <3>1. n = 1 /\ i = 0
      BY <2>1
    <3> QED BY <1>1, <3>1, <2>1
  <2> QED BY <2>1, <2>2
<1>4. col \in 0 .. Columns(n, row) - 1
  BY <1>2, <1>3 DEF Columns
<1>5. PICK j \in 0 .. n - 1 : j \div cols = row /\ j % cols = col
  BY <1>1, <1>4, GridPlaces
<1>6. i # j
  BY <1>5
<1>7. ASSUME NEW v \in Nat PROVE ~Disjoint(tile(i, n, h, wanted), tile(j, n, h, v))
  <2> DEFINE r == tile(i, n, h, wanted)
             s == tile(j, n, h, v)
             y == Down(i, n, h)
  <2>1. r = Region(0, MENUBAR_H + y.at, SW, y.len)
    BY WidePlace
  <2>2. y.at \in Int /\ y.len \in Int /\ MIN_H <= y.len
    BY SharesInside
  <2>3. Down(j, n, h) = y
    BY <1>5 DEF Down
  <2>4. PICK at, len : /\ at \in Int /\ len \in Int /\ 0 <= at /\ MIN_W <= len /\ at + len <= SW
                       /\ s = Region(at, MENUBAR_H + y.at, len, y.len)
    <3>1. CASE HintFits(j, n, v)
      <4>1. s = Region(Across(j, n).at, MENUBAR_H + y.at, Across(j, n).len, y.len)
        BY <2>3, <3>1, TilePlace
      <4>2. /\ Across(j, n).at \in Int /\ Across(j, n).len \in Int /\ 0 <= Across(j, n).at
            /\ MIN_W <= Across(j, n).len /\ Across(j, n).at + Across(j, n).len <= SW
        BY SharesInside
      <4> QED BY <4>1, <4>2
    <3>2. CASE ~HintFits(j, n, v)
      <4>1. s = Region(0, MENUBAR_H + y.at, SW, y.len)
        BY <2>3, <3>2, WidePlace
      <4>2. 0 \in Int /\ SW \in Int /\ MIN_W <= SW /\ 0 + SW <= SW
        BY Sizes, GeometryAssumption
      <4> QED BY <4>1, <4>2
    <3> QED BY <3>1, <3>2
  <2> HIDE DEF r, s, y
  <2>5. /\ r.x = 0 /\ r.y = MENUBAR_H + y.at /\ r.w = SW /\ r.h = y.len
        /\ s.x = at /\ s.y = MENUBAR_H + y.at /\ s.w = len /\ s.h = y.len
    BY <2>1, <2>4 DEF Region
  <2>6. ~Disjoint(r, s)
    BY <2>2, <2>4, <2>5, Sizes DEF Disjoint, Roomy
  <2> QED BY <2>6 DEF r, s
<1> QED BY <1>6, <1>7

(* The proviso of TilesPartition is exact. Whatever set of applications a  *)
(* tiling has read, its windows do not overlap if and only if the hints    *)
(* fit: a window above the last row that wants more than its column is     *)
(* given the full row (wants_full_row, windows.rs:70-79) while its         *)
(* neighbours keep theirs, and above the last row there is always a        *)
(* neighbour.                                                              *)
THEOREM HintsDecideOverlap ==
  ASSUME Roomy, NEW of \in SUBSET App
  PROVE  HintsFit(of) <=>
         \A b, c \in Tiled(of) : b # c => Disjoint(Placed(of, b), Placed(of, c))
<1>1. HintsFit(of) => \A b, c \in Tiled(of) : b # c => Disjoint(Placed(of, b), Placed(of, c))
  BY PlacedTiles
<1>2. ASSUME ~HintsFit(of)
      PROVE  \E b, c \in Tiled(of) : b # c /\ ~Disjoint(Placed(of, b), Placed(of, c))
  <2> DEFINE T == Tiled(of)
             n == Cardinality(T)
             h == UsableHeight(of)
  <2>1. PICK b \in T : ~HintFits(Index(of, b), n, min_w[b])
    BY <1>2 DEF HintsFit, HintFits
  <2>2. h \in Nat /\ 3 * MIN_H <= h
    BY Sizes DEF UsableHeight, Roomy
  <2>3. n \in 1 .. 9
    <3>1. T \in SUBSET App /\ T # {}
      BY <2>1 DEF Tiled
    <3> HIDE DEF T
    <3> QED BY <3>1, FewOf, FS_EmptySet
  <2>4. \A c \in T : /\ Index(of, c) \in 0 .. n - 1 /\ min_w[c] \in Nat
                     /\ Placed(of, c) = tile(Index(of, c), n, h, min_w[c])
    <3>1. \A c \in T : c \in App /\ c \notin Pinned
      BY DEF Tiled
    <3> QED BY <3>1, IndexOnto, AppAssumption DEF Placed
  <2>5. \A i \in 0 .. n - 1 : \E c \in T : Index(of, c) = i
    BY IndexOnto
  <2> HIDE DEF T, n, h
  <2>6. PICK j \in 0 .. n - 1 :
          /\ Index(of, b) # j
          /\ \A v \in Nat : ~Disjoint(tile(Index(of, b), n, h, min_w[b]), tile(j, n, h, v))
    BY <2>1, <2>2, <2>3, <2>4, WideOverlaps
  <2>7. PICK c \in T : Index(of, c) = j
    BY <2>5
  <2>8. b # c /\ ~Disjoint(Placed(of, b), Placed(of, c))
    BY <2>4, <2>6, <2>7
  <2> QED BY <2>8 DEF T
<1> QED BY <1>1, <1>2
=============================================================================
