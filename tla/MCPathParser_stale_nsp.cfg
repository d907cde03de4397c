CONSTANTS
  Paths <- MCEndpointPaths
  Before = {"x00"}
  Null = Null
SPECIFICATION Spec
INVARIANT GettersDescribeCurrentEndpoint
