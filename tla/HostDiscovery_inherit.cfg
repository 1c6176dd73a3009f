SPECIFICATION Safety
CONSTANTS
  i = i r = r g = g h1 = h1 h2 = h2
  Hosts = {h1, h2}
  Namespaces = {"app", "infra"}
  Objects = {i, r, g}
  KindOf <- MCKindOf
  NamespaceOf <- MCNamespaceOf
  ParentOf <- MCParentOf
  Contents <- MCContents
  None = None
  Enabled <- AllKinds
  Selecting = TRUE
  MaxChanges = 0
  MaxRelabels = 1
  MaxFaults = 1
  MaxRestarts = 0
CHECK_DEADLOCK FALSE
INVARIANTS InheritedHostsContributed
