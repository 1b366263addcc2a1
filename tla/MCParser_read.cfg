SPECIFICATION Spec
CONSTANTS
  Alphabetic = {"a", "A", "b", "e", "E", "f", "i"}
  Digits = {"0", "1"}
  MaxTokens = 3
  MaxChars = 3
  Inputs <- AllInputs
  OutOfRange <- TooFar
INVARIANTS TypeOK AheadExact TokensExact ExpSound ExpComplete ReadsBack CutIsRejected PatternReadsBack
PROPERTIES ImplementsStream ParseEnds
