SPECIFICATION Spec
CONSTANTS
  Functions <- SomeFunctions
  BuiltIns <- Unary
INVARIANT NoEmptyReduction
