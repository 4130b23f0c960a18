---------------------------- MODULE WindowGeometry ----------------------------
(***************************************************************************)
(* The arithmetic of windows: tiling and the nearest slot (windows.rs),    *)
(* a window dragged by its title bar (win_actions.rs) or resized at an     *)
(* edge (resize.rs).  A region is a record of its corner and its size, a   *)
(* point a record of coordinates, all in pixels.                           *)
(***************************************************************************)
EXTENDS Integers, FiniteSets, FiniteSetsExt

CONSTANTS SW, SH,          \* the screen
          MENUBAR_H, TITLEBAR_H,
          MIN_W, MIN_H,    \* smallest size of a tile and of a resized window
          SNAP,            \* how near a slot has to be
          BORDER           \* width of the resize border

ASSUME GeometryAssumption ==
    /\ {SW, SH, MENUBAR_H, TITLEBAR_H, MIN_W, MIN_H, SNAP, BORDER} \subseteq Nat
    /\ MIN_W <= SW /\ MENUBAR_H + MIN_H <= SH

Edge == {"Top", "Bottom", "Left", "Right",
         "TopLeft", "TopRight", "BottomLeft", "BottomRight"}

clamp(v, lo, hi) == IF v < lo THEN lo ELSE IF v > hi THEN hi ELSE v
AtLeast(v, lo)   == IF v < lo THEN lo ELSE v
Region(x, y, w, h) == [x |-> x, y |-> y, w |-> w, h |-> h]

Within(p, r) == /\ r.x <= p.x /\ p.x < r.x + r.w
                /\ r.y <= p.y /\ p.y < r.y + r.h

-----------------------------------------------------------------------------
(* Tiling                                                                  *)

ceil_sqrt(n) == CHOOSE s \in 0 .. n : s * s >= n /\ \A t \in 0 .. n : t * t >= n => s <= t

(* Column (or row) number k of m on a length: the last takes the rest.     *)
Share(k, m, length) ==
    LET size == length \div m
    IN  [at |-> k * size, len |-> IF k + 1 = m THEN length - k * size ELSE size]

\* Mutant: the tiles of the last row keep the width of the others.
tile_narrow(i, n, usable_h, min_w) ==
    LET cols  == ceil_sqrt(n)
        rows  == (n + cols - 1) \div cols
        row   == i \div cols
        wide  == row # rows - 1 /\ min_w > SW \div cols
        col_x == Share(i % cols, cols, SW)
        x     == IF wide THEN [at |-> 0, len |-> SW] ELSE col_x
        y     == Share(row, rows, usable_h)
    IN  Region(x.at, MENUBAR_H + y.at, AtLeast(x.len, MIN_W), AtLeast(y.len, MIN_H))

(* Slot i (from 0) of compute_tiling_with_hints for n windows: a grid of   *)
(* ceil(sqrt n) columns, whose last row is shared by those left over.  A   *)
(* window above the last row that is wider than a column gets its row.     *)
tile(i, n, usable_h, min_w) ==
    LET cols  == ceil_sqrt(n)
        rows  == (n + cols - 1) \div cols
        row   == i \div cols
        last  == row = rows - 1
        in_last == n - (rows - 1) * cols
        x     == IF last THEN Share(i % cols, in_last, SW)
                 ELSE IF min_w > SW \div cols THEN [at |-> 0, len |-> SW]
                 ELSE Share(i % cols, cols, SW)
        y     == Share(row, rows, usable_h)
    IN  Region(x.at, MENUBAR_H + y.at, AtLeast(x.len, MIN_W), AtLeast(y.len, MIN_H))

Distance(p, r) ==
    LET dx == IF p.x < r.x THEN r.x - p.x ELSE p.x - r.x
        dy == IF p.y < r.y THEN r.y - p.y ELSE p.y - r.y
    IN  AtLeast(dx, dy)

(* The slot a released window snaps to, if one is near: of those at equal *)
(* distance the first.                                                     *)
nearest_tiled_slot(p, n) ==
    LET m       == IF n < 9 THEN n ELSE 9
        slot(i) == tile(i, m, SH - MENUBAR_H, 0)
        first   == {i \in 0 .. m - 1 : \A j \in 0 .. m - 1 :
                        \/ Distance(p, slot(i)) < Distance(p, slot(j))
                        \/ Distance(p, slot(i)) = Distance(p, slot(j)) /\ i <= j}
    IN  {s \in {slot(i) : i \in first} : Distance(p, s) <= SNAP}

-----------------------------------------------------------------------------
(* Dragging and resizing                                                   *)

\* Mutant: the window may leave the screen with all but a pixel.
dragged_loose(r, from, to) ==
    [r EXCEPT !.x = clamp(@ + to.x - from.x, 0, SW - 1),
              !.y = clamp(@ + to.y - from.y, MENUBAR_H, AtLeast(SH - 1, MENUBAR_H))]

(* apply_drag_update: r is the region when the drag began.                 *)
dragged(r, from, to) ==
    [r EXCEPT !.x = clamp(@ + to.x - from.x, 0, AtLeast(SW - r.w, 0)),
              !.y = clamp(@ + to.y - from.y, MENUBAR_H, AtLeast(SH - r.h, MENUBAR_H))]

detect_resize_edge(p, r) ==
    LET near(v, side) == side - BORDER <= v /\ v < side + BORDER
        left == near(p.x, r.x)           right  == near(p.x, r.x + r.w)
        top  == near(p.y, r.y)           bottom == near(p.y, r.y + r.h)
        inside == /\ r.x - BORDER <= p.x /\ p.x < r.x + r.w + BORDER
                  /\ r.y - BORDER <= p.y /\ p.y < r.y + r.h + BORDER
    IN  IF ~inside THEN "none"
        ELSE IF left  THEN IF top THEN "TopLeft"  ELSE IF bottom THEN "BottomLeft"  ELSE "Left"
        ELSE IF right THEN IF top THEN "TopRight" ELSE IF bottom THEN "BottomRight" ELSE "Right"
        ELSE IF top THEN "Top" ELSE IF bottom THEN "Bottom" ELSE "none"

(* One dimension of compute_new_geometry.  The edge moved is the first     *)
(* ("low"), the second ("high") or neither; a window pushed below the      *)
(* minimum keeps its opposite edge.  The origin is clamped before the size.*)
resized1(at, len, moved, d, min, lo, limit) ==
    LET len1 == CASE moved = "low" -> len - d [] moved = "high" -> len + d [] OTHER -> len
        at1  == CASE moved = "low" /\ len1 < min -> at + len - min
                  [] moved = "low" -> at + d
                  [] OTHER -> at
        at2  == clamp(at1, lo, AtLeast(limit - min, lo))
        len2 == AtLeast(len1, min)
    IN  [at |-> at2, len |-> IF at2 + len2 > limit THEN limit - at2 ELSE len2]

compute_new_geometry(edge, r, from, to) ==
    LET across == CASE edge \in {"Left", "TopLeft", "BottomLeft"} -> "low"
                    [] edge \in {"Right", "TopRight", "BottomRight"} -> "high"
                    [] OTHER -> "none"
        down   == CASE edge \in {"Top", "TopLeft", "TopRight"} -> "low"
                    [] edge \in {"Bottom", "BottomLeft", "BottomRight"} -> "high"
                    [] OTHER -> "none"
        x == resized1(r.x, r.w, across, to.x - from.x, MIN_W, 0, SW)
        y == resized1(r.y, r.h, down, to.y - from.y, MIN_H, MENUBAR_H, SH)
    IN  Region(x.at, y.at, x.len, y.len)
===============================================================================
