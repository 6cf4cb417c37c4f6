SPECIFICATION Spec
CONSTANTS
  None = None
  Ids = {"b", "s", "s-2", "s-3", "s-4"}
  Installed = {"b"}
  Builtin = {"b"}
  Titles = {"S"}
  Slug <- MCSlug
  Nth <- MCNth
  MaxMade = 2
  MaxRequests = 2
CHECK_DEADLOCK FALSE
INVARIANTS ListIsCurrent
PROPERTY NothingOverwritten
