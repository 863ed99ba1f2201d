SPECIFICATION Spec
CONSTANTS
  a1 = a1
  a2 = a2
  x1 = x1
  x2 = x2
  Addresses <- MCAddresses
  IdPrefixes <- MCPrefixes
  PrefixMatches <- MCPrefixMatches
  Unknown = Unknown
  Empty = Empty
  TxTypes = {t1}
  Limits = {0, 1, 2}
  Offsets <- MCOffsets
  MaxRows = 2
INVARIANTS AccountExistsMatchesIndex
