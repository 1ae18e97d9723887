SPECIFICATION Spec
CONSTANTS
  Sessions = {s1, s2}
  Conns = {c1, c2}
  Principals = {"ann", "bob", "cat"}
  Scopes = {"work", "shared", "new"}
  Nodes = {"n1", "n2", "n3"}
  Items = {"i1", "i2"}
  Ambient = {"shared"}
  NodeScope <- MCNodeScope
  ItemScope <- MCItemScope
  Matching = {"n1", "n2"}
  TopLimit = 2
  Rules <- MCRules
  Asked <- MCAsked
  Level0 <- MCLevel0
  Owner0 <- MCOwner0
  Role0 <- MCRole0
  Stored0 = {"n1", "n2"}
  MaxCalls = 3
  Captured0 = {"i1"}
  NoOne = NoOne
  NoConn = NoConn
  NoScope = NoScope
SYMMETRY Symmetry
PROPERTY ReadersAnswered
