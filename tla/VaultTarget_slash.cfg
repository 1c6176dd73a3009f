SPECIFICATION Spec
CONSTANTS
  Labels = {"kv", "other", "bad"}
  Malformed = {"bad"}
  None = None
  Specs <- Spellings
  CloudFlags <- MCCloudFlags
  VaultFlags <- OneName
INVARIANTS NoTrailingSlash
