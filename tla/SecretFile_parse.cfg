SPECIFICATION Spec
CONSTANTS
  Present = {"leaf", "int", "cross", "twin", "root", "stray"}
  Longest = 3
  Certs <- Present
  Keys <- MCKeys
  Subject <- MCSubject
  Issuer <- MCIssuer
  KeyOf <- MCKeyOf
  Verifies <- MCVerifies
  Raw <- MCRaw
  Unsupported = {"kEC"}
  Garbled = Garbled
  Other = Other
  CrtFiles <- MCCrtFiles
  KeyFiles <- MCKeyFiles
  MaxBlocks = 4
  MaxRewrites = 2
CHECK_DEADLOCK FALSE
INVARIANTS TypeOK NothingLost ChainServed
PROPERTIES ReorderMintsNothing
