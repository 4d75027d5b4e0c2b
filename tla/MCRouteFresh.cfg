\* The comment on mounting on an existing pattern.
SPECIFICATION Spec
CONSTANTS
  GET = GET
  POST = POST
  Methods <- MCMethods
  Alphabet <- MCAlphabet
  Params <- MCParams
  Regexps <- MCRegexps
  Unclosed <- MCUnclosed
  KeyOf <- MCKeyOf
  RexOf <- MCRexOf
  BadRexes <- MCBadRexes
  Accepts <- MCAccepts
  Behind <- MCBehind
  Patterns <- MCTablePatterns
  MountPatterns <- MCTableMounts
  Paths <- MCNothing
  MaxCalls = 2
PROPERTY MountIsOnFreshPath
CHECK_DEADLOCK FALSE
