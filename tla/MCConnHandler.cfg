CONSTANTS
  u1 = u1
  u2 = u2
  b1 = b1
  s1 = s1
  s2 = s2
  Uids <- MCUids
  Blocked <- MCBlocked
  Senders <- OneSender
  Cap = 1
  MaxSends = 2
  MaxReads = 2
SPECIFICATION FairSpec
INVARIANTS
  TypeOK
  OpenWhileActive
  StopOnce
  ContactsCovered
  IdleWatched
PROPERTIES
  ImplementsSendQueue
  HandlersEnd
\* The handler stops for good, and a panic ends the process.
CHECK_DEADLOCK FALSE
