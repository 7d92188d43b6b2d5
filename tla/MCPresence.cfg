CONSTANTS
  u1 = u1
  c1 = c1
  c2 = c2
  m1 = m1
  Uids = {u1}
  Conns = {c1, c2}
  Owner <- MCOwner
  Chats = {m1}
  To <- MCTo
  QueueCap = 2
  MaxMsgs = 3
SPECIFICATION MCSpec
INVARIANTS
  TypeOK
  OwedChatWaits
PROPERTIES
  GhostsFade
\* Every connection may be gone, and nothing is left to do.
CHECK_DEADLOCK FALSE
