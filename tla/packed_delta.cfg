SPECIFICATION Spec
VIEW ReadState
CONSTANTS
  Rows = {0, 1}
  Targets = {0, 1, 2}
  MaxArena = 6
INVARIANTS
  ExtentsDisjoint
  RowsWellFormed
PROPERTIES
  ImplementsMap
