SPECIFICATION Spec
CONSTANTS
  Keys <- MCKeys
  Prefixes <- MCPrefixes
  Values <- MCValues
  Requested <- MCRequested
  Null = Null
INVARIANTS TypeOK ListPrefixExact ListDirIsOneLevel WalkFindsEachKeyOnce ErasePrefixClears PartialIsSlice
