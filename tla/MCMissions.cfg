CONSTANTS
  h1 = h1
  h2 = h2
  Users = {"ann", "bob"}
  Scopes = {"red", "blue"}
  Scope <- MCScope
  ReadScopes <- MCReadScopes
  Clients = {1, 2}
  Trusted = {}
  Names = {"n"}
  Kinds = {"open", "password", "invite only"}
  Hashes = {"h1"}
  Points = {"p1"}
  Stored <- MCStored
  ResourceId <- MCResourceId
  Handlers = {h1, h2}
  Loop = loop
  Kept = {"create", "delete", "subscribe", "unsubscribe", "metadata", "invite", "uninvite", "get", "changes", "put", "remove", "point", "drop"}
  Serializable = TRUE
  SubLimit = 1
  ChangeLimit = 3
  MaxMissions = 2
  MaxLog = 4
  MaxFaults = 1
SPECIFICATION MCSpec
INVARIANTS
  RowsAreSound
  SubscribersFollow
  SquashedShowsContents
  LeftoversBounded
\* Missions, changes and faults are bounded.
CHECK_DEADLOCK FALSE
