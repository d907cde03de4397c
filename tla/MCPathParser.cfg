\* Only the empty and all-slash paths read the byte before the string, and
\* none is among MCPaths, so that byte's value does not matter here.
CONSTANTS
  Paths <- MCPaths
  Before = {"x00"}
  Null = Null
SPECIFICATION Spec
INVARIANTS TypeOK InitMatchesReference EndpointsMatchReference
