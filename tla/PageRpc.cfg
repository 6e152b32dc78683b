SPECIFICATION Spec
CONSTANTS
  Clients = {a, b}
  Calls = {k1, k2, k3}
  Statements = {"begin", "end", "write", "get"}
  OpenResults = {"adapter", "nothing", "failure"}
  PerClient = 2
  ClientConns = 1
  MaxConns = 3
  MaxExecs = 6
INVARIANTS
  OneFactory
  RefCountExact
  Isolation
  NoDeadLease
  NoUpdateLost
  NoCallForgotten
SYMMETRY Symmetry
