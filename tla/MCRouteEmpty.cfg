\* The comment on empty parameter values.
SPECIFICATION Spec
CONSTANTS
  GET = GET
  POST = POST
  Methods <- MCMethods
  Alphabet <- MCAlphabet
  Params <- MCParams
  Regexps <- MCRegexps
  Unclosed <- MCUnclosed
  KeyOf <- MCKeyOf
  RexOf <- MCRexOf
  BadRexes <- MCBadRexes
  Accepts <- MCAccepts
  Behind <- MCBehind
  Patterns <- MCEmptyPatterns
  MountPatterns <- MCNothing
  Paths <- MCLookupPaths
  MaxCalls = 2
INVARIANT NoEmptyValues
CHECK_DEADLOCK FALSE
