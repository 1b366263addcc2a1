SPECIFICATION Spec
CONSTANTS
  A = A
  B = B
  C = C
  D = D
  i = i
  j = j
  k = k
  f = f
  g = g
  alpha = alpha
  Unassigned = Unassigned
  Tactics <- AllTactics
  MaxHow = 3
  MaxEarlier = 1
INVARIANTS TypeOK LoweredInOrder TempsPrivate GemmExact GemvExact TransposeExact ReshapeExact GroupsExact
