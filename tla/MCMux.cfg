\* A root, two muxes to mount or to make inline, and five calls in any order.
SPECIFICATION Spec
CONSTANTS
  root = root
  sub = sub
  other = other
  w1 = w1
  w2 = w2
  Muxes <- MCMuxes
  Root = root
  Middlewares <- MCMiddlewares
  Fallbacks = {"custom"}
  Methods = {"GET"}
  Segments <- MCSegments
  Patterns <- MCPatterns
  MountPatterns <- MCMountPatterns
  Paths <- MCPaths
  MaxCalls = 5
SYMMETRY MCSymmetry
INVARIANTS
  TypeOK
  MiddlewaresComplete
  RouteTrail
  MountedRoutesReached
\* A request ends.
CHECK_DEADLOCK FALSE
