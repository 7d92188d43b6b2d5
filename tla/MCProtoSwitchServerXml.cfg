CONSTANTS
  sLoop = sLoop
  cPos = cPos
  Senders = {sLoop, cPos}
  Owner <- MCOwner
  Cap = 2
  MaxSends = 1
SPECIFICATION Spec
INVARIANTS
  NoXmlAfterTrue
\* The peers may fall silent.
CHECK_DEADLOCK FALSE
