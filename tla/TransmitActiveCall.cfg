CONSTANTS
  Calls = {c1, c2}
  Features = {f1, f2}
  Mediator = mediator
  MaxQueue = 2
  MaxPending = 2
SYMMETRY Symmetry
SPECIFICATION MCSpec
INVARIANT ActiveCallOnly
