SPECIFICATION Safety
CONSTANTS
  t1 = t1 t2 = t2
  None = None
  Star = Star
  Words <- MCWords
  Illegal = {}
  Wildcard = "wildcard"
  PublicSuffixes <- MCSuffixes
  DnsRank <- MCDnsRank
  VaultRank <- MCVaultRank
  Hosts <- MCHosts
  Names <- MCNames
  Targets = {t1, t2}
  GatewayKinds = {}
  Specs <- CappedOnly
  Scenarios <- AtTheCap
PROPERTIES ExistingKeepSlot
CHECK_DEADLOCK FALSE
