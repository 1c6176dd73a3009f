SPECIFICATION Spec
CONSTANTS
  i = i r = r g = g h1 = h1 h2 = h2
  Hosts = {h1, h2}
  Namespaces = {"app", "infra"}
  Objects = {i, r, g}
  KindOf <- MCKindOf
  NamespaceOf <- MCNamespaceOf
  ParentOf <- MCParentOf
  Contents <- MCContents
  None = None
  Enabled <- AllKinds
  Selecting = TRUE
  MaxChanges = 2
  MaxRelabels = 1
  MaxFaults = 1
  MaxRestarts = 1
INVARIANTS TypeOK NoLostRoute
PROPERTIES SteadyHostKept Converges
