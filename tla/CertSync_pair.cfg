SPECIFICATION Safety
CONSTANTS
  l1 = l1 l2 = l2 l3 = l3 c1 = c1 c2 = c2
  n1 = n1 n2 = n2 s1 = s1 s2 = s2 k1 = k1 k2 = k2
  None = None
  Leaves = {l1, l2}
  Chains = {c1}
  Names = {n1, n2}
  Syncs = {s1, s2}
  Secrets = {k1}
  NotBefore <- MCNotBefore
  NotAfter <- MCNotAfter
  Anonymous <- MCAnonymous
  DerivedName <- MCDerivedName
  SpecsOf <- Sharing
  Contents <- TwoLeaves
  Budgets <- OneOfEach
  AzureMayFail = FALSE
  Wide = {}
INVARIANTS VersionsPaidFor NoLostWakeup
