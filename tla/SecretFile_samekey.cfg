SPECIFICATION Spec
CONSTANTS
  Present = {"leaf", "old", "int"}
  Longest = 3
  Certs <- Present
  Keys <- MCKeys
  Subject <- MCSubject
  Issuer <- MCIssuer
  KeyOf <- MCKeyOf
  Verifies <- MCVerifies
  Raw <- MCRaw
  Unsupported = {"kEC"}
  Garbled = Garbled
  Other = Other
  CrtFiles <- MCCrtFiles
  KeyFiles <- OneKey
  MaxBlocks = 4
  MaxRewrites = 2
CHECK_DEADLOCK FALSE
PROPERTIES LeafFromKey
