\* The comment on the 405 responder against what route_http does.
SPECIFICATION Spec
CONSTANTS
  root = root
  sub = sub
  other = other
  w1 = w1
  w2 = w2
  Muxes <- MCMuxes
  Root = root
  Middlewares <- MCMiddlewares
  Fallbacks = {"custom"}
  Methods = {"GET", "POST"}
  Segments <- MCSegments
  Patterns <- MCPatterns
  MountPatterns <- MCMountPatterns
  Paths <- MCPaths
  MaxCalls = 1

INVARIANT
  MethodNotAllowedAnswers

CHECK_DEADLOCK FALSE
