\* A tactic may name a tensor or an index "nullptr".
SPECIFICATION Spec
CONSTANTS
  Names = {x, nullptr}
  x = x
  nullptr = nullptr
  Unassigned = nullptr
  MaxId = 2
  MaxSlots = 2
CHECK_DEADLOCK FALSE
INVARIANT OneValuePerPlaceholder
