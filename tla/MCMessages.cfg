CONSTANTS
  Origins <- MCOrigins
  Patterns <- MCPatterns
  Namespaces = {"n"}
  MaxDepth = 4
  MaxHops = 3
SPECIFICATION Spec
INVARIANTS
  ConversionsKeep
  PostingKeeps
  TypesUnderstood
\* A message arrives.
CHECK_DEADLOCK FALSE
