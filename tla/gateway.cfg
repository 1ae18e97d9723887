SPECIFICATION FairSpec
CONSTANTS
  Workers = {w1, w2}
  Sources = {"lan"}
  Tokens = {"rw", "ro"}
  Forged = "forged"
  Principals = {"ann", "bob"}
  Admins = {"ann"}
  Holder <- MCHolder
  Role <- MCRole
  Tools = {"search", "write", "admin_member_archive"}
  CoreTools = {"search", "write"}
  WriteTools = {"write", "admin_member_archive"}
  ArchiveTool = "admin_member_archive"
  Names = {"search", "log_error", "admin_member_archive", "nope"}
  Binds <- MCBinds
  Limit <- MCLimit
  Window = 2
  Threshold = 1
  PoolSize = 1
  MaxTime = 2
  MaxRequests = 3
  MaxChanges = 1
  NoTool = "none"
INVARIANT TypeOK
PROPERTY LimitsExact
PROPERTY RunsAuthorized
PROPERTY EveryRequestAnswered
