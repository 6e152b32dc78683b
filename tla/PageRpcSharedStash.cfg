SPECIFICATION Spec
CONSTANTS
  Clients = {a, b}
  Calls = {k1, k2}
  Statements = {"write", "get"}
  OpenResults = {"adapter"}
  PerClient = 1
  ClientConns = 1
  MaxConns = 2
  MaxExecs = 2
PROPERTIES
  OwnGetReports
