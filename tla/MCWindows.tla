------------------------------ MODULE MCWindows ------------------------------
(* Three applications and the dock on a screen so small that the second    *)
(* strip hangs over its edge, and points on the first one's dot, its title *)
(* bar, a corner of the tiles, and the strips.  One hint is wider than a   *)
(* column, but is obeyed above the last row only, where no order puts a3.  *)
EXTENDS Windows

CONSTANTS a1, a2, a3, dock

MCOrder == [a \in App |-> CASE a = a1 -> 1 [] a = a2 -> 2 [] a = a3 -> 3 [] a = dock -> 4]
MCHints == [a \in App |-> IF a = a3 THEN SW ELSE 0]
At(x, y) == [x |-> x, y |-> y]
MCPoint == {At(36, 37), At(100, 40), At(198, 278), At(300, 586)}
=============================================================================
