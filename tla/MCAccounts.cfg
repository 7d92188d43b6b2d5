CONSTANTS
  p1 = p1
  p2 = p2
  Logins = {"admin", "ann"}
  Passwords = {"a", "b"}
  Uids = {"u", ""}
  First <- MCFirst
  FirstCerts <- MCFirstCerts
  Requests = {p1, p2}
  Ops = {"login", "connect", "put", "sign", "post", "api", "restart"}
  TTL = 1
  MaxLoad = 1
  TokenAge = 3
  MaxTime = 4
  MaxVer = 3
  MaxCerts = 3
  MaxFaults = 1
SPECIFICATION MCSpec
INVARIANTS
  StaleAtMost
  LetInRightly
  OneCertPerUid
PROPERTIES
  LostOnlyByOverlap
\* The clock ends.
CHECK_DEADLOCK FALSE
