SPECIFICATION Spec
CONSTANTS
  Functions <- SomeFunctions
  BuiltIns <- Unary
INVARIANTS TypeOK ReductionsExact OutputsOnly AnnotationRespected ReadsStayTyped WarnedExact
PROPERTY RefusedOnlyNarrower
