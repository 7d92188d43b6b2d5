CONSTANTS
  Logins = {"l"}
  Uids = {"u"}
  Options <- MCOptions
  Named = {"locationCallsign"}
  Known <- MCKnown
  Values = {"A", "B", "C", "DD", "x"}
  Rows <- MCRows
  First <- MCFirst
  Admins = {"a", "b"}
  Devices = {"d"}
  MaxFaults = 1
SPECIFICATION Spec
INVARIANTS
  AnswerIsOfOneMoment
PROPERTIES
  RowsAreMeant
\* Requests end.
CHECK_DEADLOCK FALSE
