CONSTANTS
  URIs <- MCURIs
  LocalHost <- MCLocalHost
  LocalBinaryPort = 0
  DefaultPort = 8890
  Nodes <- MCNodes
  IntWidth = 4
  LongWidth = 8
SPECIFICATION Spec
INVARIANT EqualityIsFieldEquality
