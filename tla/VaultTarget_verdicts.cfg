SPECIFICATION Spec
CONSTANTS
  Labels = {"kv", "other", "bad"}
  Malformed = {"bad"}
  None = None
  Specs <- MCSpecs
  CloudFlags <- MCCloudFlags
  VaultFlags <- MCVaultFlags
INVARIANTS TypeOK ClientsPermitted SameVaultSameVerdict EntriesUsable StatusesAgree
