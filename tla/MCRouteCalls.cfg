\* Registration and mounting: the tree against the table of routes.
SPECIFICATION CallsSpec
CONSTANTS
  GET = GET
  POST = POST
  Methods <- MCMethods
  Alphabet <- MCAlphabet
  Params <- MCParams
  Regexps <- MCRegexps
  Unclosed <- MCUnclosed
  KeyOf <- MCKeyOf
  RexOf <- MCRexOf
  BadRexes <- MCBadRexes
  Accepts <- MCAccepts
  Behind <- MCBehind
  Patterns <- MCTablePatterns
  MountPatterns <- MCTableMounts
  Paths <- MCNothing
  MaxCalls = 3
INVARIANTS
  TypeOK
  TreeOrdered
PROPERTIES
  ImplementsTable
  MountNeverOverwrites
\* The program registers its routes and then stops.
CHECK_DEADLOCK FALSE
