------------------------------ MODULE MCPanels ------------------------------
(* Small instances of Panels.                                               *)
EXTENDS Panels

Point(id, name, rx, tx) == [id |-> id, name |-> name, rx |-> rx, tx |-> tx]

\* Three points of three names, one other point, and nothing.
MCPoints == << <<Point(1, 1, 9, 0), Point(2, 2, 2, 5), Point(3, 3, 0, 4)>>, <<Point(2, 2, 3, 6)>>, << >> >>

\* A rectangle around everything, and one that was drawn upwards.
MCAreas == {[x0 |-> 0, x1 |-> 9, y0 |-> 0, y1 |-> 9], [x0 |-> 2, x1 |-> 1, y0 |-> 6, y1 |-> 3]}
=============================================================================
