CONSTANT MaxLinks = 2
SPECIFICATION Spec
INVARIANTS
  LinkIsKnown
  LateJoins
PROPERTIES
  LinksLive
\* The bound on links ends the loop, and a panic the process.
CHECK_DEADLOCK FALSE
