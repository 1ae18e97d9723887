SPECIFICATION Spec
CONSTANTS
  Clients = {c1, c2}
  Nodes = {n0, n1, n2}
  Sentinel = n0
  Texts = {t, u}
  Values = {"v"}
  Blank = Blank
  Keep = Keep
  Stamps = {fp32, micro}
  ConstStamp = ConstStamp
  BatchSize = 2
  Windows = {TRUE}
  MaxCalls = 3
  MaxCommands = 0
  MaxChanges = 0
  NoNode = NoNode
SYMMETRY Symmetry
PROPERTY AddendaKept
