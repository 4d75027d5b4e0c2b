\* Lookups in every tree that a few registrations build.
SPECIFICATION Spec
CONSTANTS
  GET = GET
  POST = POST
  Methods <- MCMethods
  Alphabet <- MCAlphabet
  Params <- MCParams
  Regexps <- MCRegexps
  Unclosed <- MCUnclosed
  KeyOf <- MCKeyOf
  RexOf <- MCRexOf
  BadRexes <- MCBadRexes
  Accepts <- MCAccepts
  Behind <- MCBehind
  Patterns <- MCLookupPatterns
  MountPatterns <- MCLookupMounts
  Paths <- MCLookupPaths
  MaxCalls = 3
SYMMETRY MCMethodSymmetry
INVARIANTS
  LookupSound
  LookupComplete
  MostSpecific
  HintExact
\* The program registers its routes and then stops.
CHECK_DEADLOCK FALSE
