\* The same instance as MCRouting.cfg: an id of 0.
SPECIFICATION Spec
CONSTANTS
  GET = GET
  POST = POST
  outer = outer
  inner = inner
  innermost = innermost
  none = none
  Characters <- MCChars
  Params <- MCParams
  Regexps <- MCRegexps
  Unclosed <- MCNothing
  KeyOf <- MCKeyOf
  RexOf <- MCRexOf
  BadRexes <- MCNothing
  NewTree <- MCNewTree
  TreeInsert <- MCTreeInsert
  TreeFind <- MCTreeFind
  TreeFindPattern <- MCTreeFindPattern
  Methods <- MCMethods
  Muxes <- MCMuxes
  TopMux = outer
  NoMux = none
  Programs <- MCPrograms
  Paths <- MCPaths
  DigitOf <- MCDigitOf
  LongLongMax = 11
INVARIANT
  ZeroIsRefused
\* A request ends.
CHECK_DEADLOCK FALSE
