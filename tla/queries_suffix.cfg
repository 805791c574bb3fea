SPECIFICATION Spec
CONSTANTS
  Keys <- MCKeys
  Prefixes <- MCPrefixes
  Values <- OneValue
  Requested <- MCRequested
  Null = Null
INVARIANTS SuffixIsExact
