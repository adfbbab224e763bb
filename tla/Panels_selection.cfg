SPECIFICATION PanelSpec
CONSTANTS
 Points <- MCPoints
 Areas <- MCAreas
 SLOTS = 2
 RELEASE_MS = 2
 DECADE = 2
 OTHER_SERIES = 100
 LISTED = 2
 Unset = Unset
 MaxMoves = 4
INVARIANT SelectionInvalidated
CHECK_DEADLOCK FALSE
