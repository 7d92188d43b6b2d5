CONSTANTS
  red1 = red1
  blue1 = blue1
  u1 = u1
  u2 = u2
  cs = cs
  Conns <- TwoConns
  Uids = {u1, u2}
  Callsigns = {cs}
  Callsign <- MCCallsign
  Dests <- ToSome
  Scopes = {"red", "blue"}
  Home <- MCHome
  Visible <- MCVisible
  QueueCap = 2
  SendCap = 1
  MaxMsgs = 2
SPECIFICATION FairSpec
INVARIANTS
  TypeOK
  ScopeIsolation
  OneOrder
PROPERTIES
  LoopServes
  ImplementsDelivery
\* Every connection may be gone, and nothing is left to do.
CHECK_DEADLOCK FALSE
