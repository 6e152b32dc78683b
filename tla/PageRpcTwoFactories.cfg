SPECIFICATION Spec
CONSTANTS
  Clients = {a, b, c}
  Calls = {k1, k2, k3}
  Statements = {}
  OpenResults = {"adapter"}
  PerClient = 1
  ClientConns = 1
  MaxConns = 4
  MaxExecs = 0
INVARIANTS
  OneFactory
SYMMETRY Symmetry
