SPECIFICATION Spec
CONSTANTS
  A = A
  B = B
  C = C
  D = D
  i = i
  j = j
  k = k
  f = f
  g = g
  alpha = alpha
  Unassigned = Unassigned
  Tactics <- WideReshapes
  MaxHow = 1
  MaxEarlier = 0
INVARIANT MapCoversDims
