CONSTANTS
  sLoop = sLoop
  cPos = cPos
  Senders = {sLoop, cPos}
  Owner <- MCOwner
  Cap = 2
  MaxSends = 3
SPECIFICATION FairSpec
INVARIANTS
  OrderlyNegotiation
  XmlReadersSeeXml
PROPERTIES
  BothSwitch
\* The peers may fall silent.
CHECK_DEADLOCK FALSE
