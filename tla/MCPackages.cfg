CONSTANTS
  p1 = p1
  p2 = p2
  Users = {"ann", "bob"}
  Scopes = {"red", "blue"}
  Scope <- MCScope
  ReadScopes <- MCReadScopes
  Bodies = {"x", "y"}
  Hashes = {"x", "y", "up"}
  Path <- MCPath
  Uids = {"u"}
  Requests = {p1, p2}
  Ops = {"upload", "content", "file", "delete", "feeds"}
  MaxUploads = 2
SPECIFICATION MCSpec
INVARIANTS
  StoreAgrees
  AnswersAreRight
PROPERTIES
  RequestsFinish
\* Nothing may be left to do.
CHECK_DEADLOCK FALSE
