SPECIFICATION Spec
CONSTANTS
  Names = {x, y}
  x = x
  y = y
  Unassigned = Unassigned
  MaxId = 3
  MaxSlots = 3
CHECK_DEADLOCK FALSE
INVARIANT PlaceholdersDistinct
