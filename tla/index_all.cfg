SPECIFICATION Spec
CONSTANTS
  Clients = {c1, c2}
  Nodes = {n0, n1, n2, n3}
  Sentinel = n0
  Texts = {t, u}
  Values = {"v"}
  Blank = Blank
  Keep = Keep
  Stamps = {fp32, micro}
  ConstStamp = ConstStamp
  BatchSize = 2
  Windows = {TRUE, FALSE}
  MaxCalls = 3
  MaxCommands = 2
  MaxChanges = 1
  NoNode = NoNode
SYMMETRY Symmetry
INVARIANT TypeOK
INVARIANT QuietIndexMatchesRow
INVARIANT PromotedOnce
PROPERTY MaintenanceComplete
PROPERTY ArchivedFrozen
