SPECIFICATION Spec
CONSTANTS
  Star = Star
  Words <- MCWords
  Illegal = {"_"}
  Wildcard = "wildcard"
  PublicSuffixes <- MCSuffixes
  DnsRank <- MCDnsRank
  VaultRank <- MCVaultRank
  Hosts <- MCHosts
  Inputs <- MCInputs
  MaxListenerHostnames = 2
  MaxChanges = 2
INVARIANTS TypeOK EveryHostAccounted NamesInTheirZone CertificatesDistinct CapKeepsExisting ListenersServeNames
PROPERTIES PlanStable
