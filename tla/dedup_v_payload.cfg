SPECIFICATION Spec
CONSTANTS
  Sessions = {s1, s2}
  NodeIds = {n1, n2, n3}
  PendIds = {p1}
  Facts = {"a", "c", "d"}
  NodeTypes = {"error", "note"}
  Scopes = {"work", "shared", "team"}
  Ambient = {"shared"}
  Writable = {"work", "shared"}
  FType <- MCFType
  FScope <- MCFScope
  FTokens <- MCFTokens
  FWhen <- MCFWhen
  Sim <- MCSim
  TLow = 80
  THigh = 95
  ErrorType = "error"
  EdgeRules <- MCEdgeRules
  CandidateLimit = 2
  Ops = {"write", "merge"}
  WithLinks = FALSE
  MaxCalls = 4
  NoNode = NoNode
  NoPend = NoPend
  NoSession = NoSession
  NoFact = NoFact
  NoDate = "none"
SYMMETRY Symmetry
PROPERTY PayloadBecomesOneNode
