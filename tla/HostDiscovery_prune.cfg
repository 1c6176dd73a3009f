SPECIFICATION Safety
CONSTANTS
  i = i r = r g = g h1 = h1 h2 = h2
  Hosts = {h1, h2}
  Namespaces = {"app", "infra"}
  Objects = {i, r, g}
  KindOf <- MCKindOf
  NamespaceOf <- MCNamespaceOf
  ParentOf <- MCParentOf
  Contents <- MCContents
  None = None
  Enabled <- AllKinds
  Selecting = FALSE
  MaxChanges = 2
  MaxRelabels = 0
  MaxFaults = 0
  MaxRestarts = 0
PROPERTIES PruneOnlyUnrequired
