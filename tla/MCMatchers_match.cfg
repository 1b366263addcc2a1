SPECIFICATION Spec
CONSTANTS
  Names = {x, y, z}
  x = x
  y = y
  z = z
  Unassigned = Unassigned
  MaxId = 4
  MaxSlots = 3
CHECK_DEADLOCK FALSE
INVARIANTS TypeOK MatchExact NothingInherited WalkInv
PROPERTIES BindingStable ImplementsUnification MatchReturns
