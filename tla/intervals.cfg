SPECIFICATION Spec
CONSTANTS
  MaxInt = 7
  Amounts <- Moderate
INVARIANTS Normal FindsFirstMissing
PROPERTY ImplementsPool
