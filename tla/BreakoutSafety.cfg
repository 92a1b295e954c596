SPECIFICATION Spec
CONSTANTS
  Dims = {{v1}}
  Groups = {g1}
  Names = {n1, n2}
  Threads = {w1, w2}
  Requests = {q1, q2}
  v1 = v1
  g1 = g1
  n1 = n1
  n2 = n2
  w1 = w1
  w2 = w2
  q1 = q1
  q2 = q2
  None = None
  MaxFaults = 1
  MaxChanges = 1
  MaxLookups = 3
SYMMETRY Alike
INVARIANTS
  TypeOK
  AccountsKeptApart
  OnePortfolioPerValue
  SyncHeals
CHECK_DEADLOCK FALSE
