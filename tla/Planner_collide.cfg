SPECIFICATION Spec
CONSTANTS
  Star = Star
  Words <- MCWords
  Illegal = {"_"}
  Wildcard = "wildcard"
  PublicSuffixes <- MCSuffixes
  DnsRank <- MCDnsRank
  VaultRank <- MCVaultRank
  Hosts <- MCHosts
  Inputs <- CollidingInputs
  MaxListenerHostnames = 2
  MaxChanges = 1
PROPERTIES IssuedKeepSlot
