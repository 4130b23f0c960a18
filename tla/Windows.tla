-------------------------------- MODULE Windows --------------------------------
(***************************************************************************)
(* Where windows are, and who moves them: the waiters, which tile the      *)
(* screen when an application stops or has been restarted; the mouse       *)
(* thread, which drags, resizes, minimizes and restores; and the keyboard, *)
(* which makes a window full screen.  All write win_region under the       *)
(* registry's lock, but hardly any operation of theirs is one hold of it:  *)
(* each step of the mouse thread and each part of a tiling sees what the   *)
(* others have made of the windows by then.                                *)
(*                                                                         *)
(* Windowed mode, with menu bar and dock.  Left out: the menus (points lie *)
(* below the bar), drag and drop, and the resize command and sessions,     *)
(* which take any region.                                                  *)
(***************************************************************************)
EXTENDS WindowGeometry

CONSTANTS App,        \* running display applications
          order,      \* App -> place in the order of names
          Pinned,     \* those of the dock layer
          min_w,      \* App -> width hint of the manifest
          Point,      \* where the pointer can be
          STRIP_W, STRIP_H, DOCK_STRIP_H,
          MaxPress,   \* bound: presses of a button
          MaxToggle,  \* bound: full screen toggles
          MaxExit     \* bound: exits of applications

ASSUME AppAssumption == /\ IsFiniteSet(App) /\ Cardinality(App) <= 9
                        /\ Pinned \subseteq App /\ min_w \in [App -> Nat]
                        /\ order \in [App -> Nat]
                        /\ \A a, b \in App : order[a] = order[b] => a = b
ASSUME PointAssumption == \A p \in Point : p.x \in 0 .. SW - 1 /\ p.y \in MENUBAR_H .. SH - 1
ASSUME StripAssumption == {STRIP_W, STRIP_H, DOCK_STRIP_H} \subseteq Nat
ASSUME BoundAssumption == {MaxPress, MaxToggle, MaxExit} \subseteq Nat

None == [none |-> TRUE]

VARIABLES
    state,    \* App -> the window's part of its AppState
    z_order,  \* App -> number of applications before it, front to back
    waiter,   \* App -> what its waiter does, and the applications it tiles
    mouse,    \* the mouse thread: pointer, button, what it is doing
    presses, toggles, exits
vars == <<state, z_order, waiter, mouse, presses, toggles, exits>>

Fresh == [running |-> TRUE, region |-> None, minimized |-> FALSE, pre_minimize |-> None,
          fullscreen |-> FALSE, pre_fullscreen |-> None]

-----------------------------------------------------------------------------
(* apply_tiling_layout, for the applications read under an earlier hold    *)

Tiled(of)  == of \ Pinned
Docked(of) == of \cap Pinned
UsableHeight(of) == SH - MENUBAR_H - (IF Docked(of) = {} THEN 0 ELSE DOCK_STRIP_H)

Index(of, a) == Cardinality({b \in Tiled(of) : order[b] < order[a]})

Placed(of, a) ==
    IF a \in Pinned THEN Region(0, SH - DOCK_STRIP_H, SW, DOCK_STRIP_H)
    ELSE tile(Index(of, a), Cardinality(Tiled(of)), UsableHeight(of), min_w[a])

Place(of, these) ==
    state' = [a \in App |-> IF a \in these
                            THEN [state[a] EXCEPT !.region = Placed(of, a)] ELSE state[a]]

Init == /\ state = [a \in App |-> [Fresh EXCEPT !.region = Placed(App, a)]]
        /\ z_order = [a \in App |-> Cardinality({b \in App : order[b] > order[a]})]
        /\ waiter = [a \in App |-> [pc |-> "watch", of |-> {}, again |-> FALSE]]
        /\ mouse \in [at : Point, pc : {"idle"}, held : {FALSE}, app : {None},
                      drag : {None}, resize : {None}, region : {None}]
        /\ presses = 0 /\ toggles = 0 /\ exits = 0

-----------------------------------------------------------------------------
(* wait_app                                                                *)

Stop(a) ==
    /\ waiter[a].pc = "watch" /\ exits < MaxExit
    /\ state' = [state EXCEPT ![a].running = FALSE]
    /\ waiter' = [waiter EXCEPT ![a] = [@ EXCEPT !.pc = "read", !.again = FALSE]]
    /\ exits' = exits + 1
    /\ UNCHANGED <<z_order, mouse, presses, toggles>>

AfterTiling(a) == IF waiter[a].again THEN "watch" ELSE "decide"

Running == {a \in App : state[a].running}

ReadApps(a) ==
    /\ waiter[a].pc = "read"
    /\ waiter' = [waiter EXCEPT ![a] = [@ EXCEPT
          !.pc = IF Docked(Running) # {} THEN "pin"
                 ELSE IF Running # {} THEN "tile" ELSE AfterTiling(a),
          !.of = Running]]
    /\ UNCHANGED <<state, z_order, mouse, presses, toggles, exits>>

WritePinned(a) ==
    /\ waiter[a].pc = "pin"
    /\ Place(waiter[a].of, Docked(waiter[a].of))
    /\ waiter' = [waiter EXCEPT ![a].pc = IF Tiled(waiter[a].of) # {} THEN "tile"
                                          ELSE AfterTiling(a)]
    /\ UNCHANGED <<z_order, mouse, presses, toggles, exits>>

WriteTiles(a) ==
    /\ waiter[a].pc = "tile"
    /\ Place(waiter[a].of, Tiled(waiter[a].of))
    /\ waiter' = [waiter EXCEPT ![a] = [@ EXCEPT !.pc = AfterTiling(a), !.of = {}]]
    /\ UNCHANGED <<z_order, mouse, presses, toggles, exits>>

GiveUp(a) ==
    /\ waiter[a].pc = "decide"
    /\ waiter' = [waiter EXCEPT ![a].pc = "gone"]
    /\ UNCHANGED <<state, z_order, mouse, presses, toggles, exits>>

Respawn(a) ==
    /\ waiter[a].pc = "decide"
    /\ state' = [state EXCEPT ![a] = Fresh]
    /\ waiter' = [waiter EXCEPT ![a] = [@ EXCEPT !.pc = "read", !.again = TRUE]]
    /\ UNCHANGED <<z_order, mouse, presses, toggles, exits>>

-----------------------------------------------------------------------------
(* The mouse thread: a press                                               *)

HasRegion(a) == state[a].region # None
TitleBar(r)  == Region(r.x, r.y, r.w, TITLEBAR_H)

(* traffic_light_hit: three dots of 13 pixels in the title bar.            *)
Dot(p, r) ==
    LET hit(off) == Within(p, Region(r.x + off, r.y + (TITLEBAR_H - 13) \div 2, 13, 13))
    IN  IF hit(9) THEN "close" ELSE IF hit(30) THEN "minimize"
        ELSE IF hit(51) THEN "maximize" ELSE "none"

(* The first window from the front for which Test holds, if there is one.  *)
Topmost(Test(_)) ==
    LET hit == {a \in App : HasRegion(a) /\ Test(a)}
    IN  {a \in hit : \A b \in hit : z_order[a] <= z_order[b]}

Goto(pc) == mouse' = [mouse EXCEPT !.pc = pc, !.app = None, !.region = None]

Press(button) ==
    /\ mouse.pc = "idle" /\ presses < MaxPress
    /\ button = "left" => ~mouse.held
    /\ presses' = presses + 1
    /\ mouse' = [mouse EXCEPT !.pc = IF button = "left" THEN "edge" ELSE "strip",
                              !.held = @ \/ button = "left"]
    /\ UNCHANGED <<state, z_order, waiter, toggles, exits>>

TryBeginResize ==
    LET at   == mouse.at
        hit  == Topmost(LAMBDA a : detect_resize_edge(at, state[a].region) # "none")
    IN  /\ mouse.pc = "edge"
        /\ IF hit = {} THEN Goto("bar")
           ELSE \E a \in hit : mouse' = [mouse EXCEPT
                  !.pc = "strip",
                  !.resize = [app |-> a, edge |-> detect_resize_edge(at, state[a].region),
                              from |-> at, start |-> state[a].region]]
        /\ UNCHANGED <<state, z_order, waiter, presses, toggles, exits>>

TryBeginDrag ==
    LET at  == mouse.at
        hit == Topmost(LAMBDA a : /\ Within(at, TitleBar(state[a].region))
                                  /\ Dot(at, state[a].region) = "none")
    IN  /\ mouse.pc = "bar"
        /\ IF hit = {} THEN Goto("strip")
           ELSE \E a \in hit : mouse' = [mouse EXCEPT
                  !.pc = "strip",
                  !.drag = [app |-> a, from |-> at, start |-> state[a].region]]
        /\ UNCHANGED <<state, z_order, waiter, presses, toggles, exits>>

StripsHit == {a \in App : state[a].minimized /\ HasRegion(a) /\ Within(mouse.at, state[a].region)}

(* Any minimized window hit, the registry having no order.                 *)
FindStrip ==
    /\ mouse.pc = "strip"
    /\ IF StripsHit = {} THEN Goto("dots")
       ELSE \E a \in StripsHit : mouse' = [mouse EXCEPT !.pc = "restore", !.app = a]
    /\ UNCHANGED <<state, z_order, waiter, presses, toggles, exits>>

Restore ==
    /\ mouse.pc = "restore"
    /\ LET prev == state[mouse.app].pre_minimize IN
       state' = IF prev = None THEN state
                ELSE [state EXCEPT ![mouse.app] =
                        [@ EXCEPT !.pre_minimize = None, !.minimized = FALSE, !.region = prev]]
    /\ Goto("idle")
    /\ UNCHANGED <<z_order, waiter, presses, toggles, exits>>

(* close kills the process (it may exit at any time here), maximize is a   *)
(* stub; a click elsewhere goes on to raise the window.                    *)
FindDot ==
    LET at  == mouse.at
        hit == Topmost(LAMBDA a : Dot(at, state[a].region) # "none")
    IN  /\ mouse.pc = "dots"
        /\ IF hit = {} THEN Goto("raise")
           ELSE \E a \in hit :
                  IF Dot(at, state[a].region) = "minimize"
                  THEN mouse' = [mouse EXCEPT !.pc = "minimize", !.app = a]
                  ELSE Goto("idle")
        /\ UNCHANGED <<state, z_order, waiter, presses, toggles, exits>>

Strip == LET along == Cardinality({a \in App : state[a].minimized}) * STRIP_W
         IN  Region(along % SW, SH - STRIP_H - (along \div SW) * STRIP_H, STRIP_W, STRIP_H)

Minimize ==
    /\ mouse.pc = "minimize"
    /\ state' = [state EXCEPT ![mouse.app] =
         [@ EXCEPT !.pre_minimize = state[mouse.app].region, !.minimized = TRUE, !.region = Strip]]
    /\ Goto("idle")
    /\ UNCHANGED <<z_order, waiter, presses, toggles, exits>>

Raise ==
    LET hit == Topmost(LAMBDA a : Within(mouse.at, state[a].region))
    IN  /\ mouse.pc = "raise"
        /\ z_order' = [a \in App |->
              IF a \in hit THEN 0
              ELSE z_order[a] + Cardinality({b \in hit : z_order[b] > z_order[a]})]
        /\ Goto("idle")
        /\ UNCHANGED <<state, waiter, presses, toggles, exits>>
-----------------------------------------------------------------------------
(* The mouse thread: motion and release                                    *)

MoveTo(p) ==
    /\ mouse.pc = "idle" /\ p # mouse.at
    /\ mouse' = [mouse EXCEPT !.at = p]
    /\ state' =
         IF mouse.resize # None
         THEN [state EXCEPT ![mouse.resize.app].region =
                 compute_new_geometry(mouse.resize.edge, mouse.resize.start, mouse.resize.from, p)]
         ELSE IF mouse.drag # None
         THEN [state EXCEPT ![mouse.drag.app].region =
                 dragged(mouse.drag.start, mouse.drag.from, p)]
         ELSE state
    /\ UNCHANGED <<z_order, waiter, presses, toggles, exits>>

\* Mutant: the drag outlives the release.
ReleaseKeepsDrag ==
    /\ mouse.pc = "idle" /\ mouse.held
    /\ mouse' = [mouse EXCEPT !.held = FALSE, !.resize = None]
    /\ UNCHANGED <<state, z_order, waiter, presses, toggles, exits>>

(* finish_resize only tells the application; finish_drag_snap takes the    *)
(* drag and reads the region the window has by now.                        *)
Release ==
    /\ mouse.pc = "idle" /\ mouse.held
    /\ mouse' =
         IF mouse.resize # None \/ mouse.drag = None
         THEN [mouse EXCEPT !.held = FALSE, !.resize = None]
         ELSE LET r == state[mouse.drag.app].region IN
              [mouse EXCEPT !.held = FALSE, !.drag = None, !.pc = "count", !.app = mouse.drag.app,
                            !.region = IF r # None THEN r ELSE mouse.drag.start]
    /\ UNCHANGED <<state, z_order, waiter, presses, toggles, exits>>

CountSlots ==
    /\ mouse.pc = "count"
    /\ LET n    == Cardinality(Running)
           slot == nearest_tiled_slot(mouse.region, n)
       IN  IF slot = {} THEN Goto("idle")
           ELSE \E r \in slot : mouse' = [mouse EXCEPT !.pc = "snap", !.region = r]
    /\ UNCHANGED <<state, z_order, waiter, presses, toggles, exits>>

Snap ==
    /\ mouse.pc = "snap"
    /\ state' = [state EXCEPT ![mouse.app].region = mouse.region]
    /\ Goto("idle")
    /\ UNCHANGED <<z_order, waiter, presses, toggles, exits>>

-----------------------------------------------------------------------------
(* The keyboard: Alt+F for the focused application, which may be any       *)

ToggleFullscreen(a) ==
    /\ toggles < MaxToggle /\ toggles' = toggles + 1
    /\ state' = [state EXCEPT ![a] =
         IF @.fullscreen
         THEN [@ EXCEPT !.fullscreen = FALSE, !.pre_fullscreen = None,
                        !.region = IF state[a].pre_fullscreen # None
                                   THEN state[a].pre_fullscreen ELSE state[a].region]
         ELSE [@ EXCEPT !.fullscreen = TRUE, !.pre_fullscreen = state[a].region,
                        !.region = Region(0, MENUBAR_H, SW, SH - MENUBAR_H)]]
    /\ UNCHANGED <<z_order, waiter, mouse, presses, exits>>

Tile(a) == ReadApps(a) \/ WritePinned(a) \/ WriteTiles(a)

Click == \/ TryBeginResize \/ TryBeginDrag \/ FindStrip \/ Restore
         \/ FindDot \/ Minimize \/ Raise

Next == \/ \E a \in App : Stop(a) \/ Tile(a) \/ GiveUp(a) \/ Respawn(a) \/ ToggleFullscreen(a)
        \/ \E button \in {"left", "middle"} : Press(button)
        \/ Click
        \/ \E p \in Point : MoveTo(p)
        \/ Release \/ CountSlots \/ Snap

Spec == Init /\ [][Next]_vars

-----------------------------------------------------------------------------
(* A drag or a resize is on only while the left button is held, and never  *)
(* both; what the mouse thread and the waiters hold fits where they are.   *)
TypeOK ==
    /\ \A a \in App : waiter[a].pc \in {"watch", "read", "pin", "tile", "decide", "gone"}
    /\ mouse.pc \in {"idle", "edge", "bar", "strip", "restore", "dots", "minimize",
                     "raise", "count", "snap"}
    /\ mouse.drag = None \/ mouse.resize = None
    /\ mouse.drag # None \/ mouse.resize # None => mouse.held
    /\ {z_order[a] : a \in App} = 0 .. Cardinality(App) - 1

(* However drags, resizes, tilings, minimizing and full screen follow one  *)
(* another, every window lies on the screen below the menu bar, at least   *)
(* as wide as a tile and as high as a strip, so that it can be reached.    *)
(* Only a strip may hang over the right edge, where a row of them ends     *)
(* unless the screen is a multiple of their width.                         *)
IsStrip(r) == r.x < SW /\ r.w = STRIP_W /\ r.h = STRIP_H
Reachable(r) ==
    /\ 0 <= r.x /\ (r.x + r.w <= SW \/ IsStrip(r))
    /\ MENUBAR_H <= r.y /\ r.y + r.h <= SH
    /\ MIN_W <= r.w /\ STRIP_H <= r.h

OnScreen == \A a \in App : HasRegion(a) => Reachable(state[a].region)

Disjoint(r, s) == \/ r.x + r.w <= s.x \/ s.x + s.w <= r.x
                  \/ r.y + r.h <= s.y \/ s.y + s.h <= r.y

Area(r) == r.w * r.h

(* A hint wider than a column takes the whole row, above the last, and     *)
(* then covers the others in it.                                           *)
HintsFit(of) ==
    LET n    == Cardinality(Tiled(of))
        cols == ceil_sqrt(n)
    IN  \A b \in Tiled(of) :
            Index(of, b) \div cols < (n - 1) \div cols => min_w[b] <= SW \div cols

(* A tiling of the applications that are running leaves windows that do    *)
(* not overlap and that leave no gap (windows.rs:6), unless a hint does    *)
(* not fit: it does not matter where they had been moved.                  *)
TilesPartition ==
    [][\A a \in App : WriteTiles(a) /\ waiter[a].of = Running /\ HintsFit(Running) =>
          LET after == {state'[b].region : b \in Running \ Pinned} IN
          /\ Cardinality(after) = Cardinality(Running \ Pinned)
          /\ \A r, s \in after : r # s => Disjoint(r, s)
          /\ MapThenSumSet(Area, after) = SW * UsableHeight(waiter[a].of)]_vars
===============================================================================
