SPECIFICATION FairSpec
CONSTANTS
  Sessions = {s1, s2}
  NodeIds = {n1, n2, n3}
  PendIds = {p1, p2}
  Facts = {"a", "b", "c", "d"}
  NodeTypes = {"error", "note"}
  Scopes = {"work", "shared", "team"}
  Ambient = {"shared"}
  Writable = {"work", "shared"}
  FType <- MCFType
  FScope <- MCFScope
  FTokens <- MCFTokens
  FWhen <- MCFWhen
  Sim <- MCSim
  TLow = 80
  THigh = 95
  ErrorType = "error"
  EdgeRules <- MCEdgeRules
  CandidateLimit = 2
  Ops = {"write", "distinct", "supersede"}
  WithLinks = FALSE
  MaxCalls = 3
  NoNode = NoNode
  NoPend = NoPend
  NoSession = NoSession
  NoFact = NoFact
  NoDate = "none"
INVARIANT AckedFactsKept
INVARIANT ParkedFactsKept
PROPERTY AddendaGrow
PROPERTY WaitersServed
PROPERTY SerialWrites
