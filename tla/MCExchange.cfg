\* Targets, header lines, bodies and handlers, each varied by itself.
SPECIFICATION Spec
CONSTANTS
  Chars <- MCChars
  TokenChars <- MCTokenChars
  Dash = "-"
  Up <- MCUp
  Low <- MCLow
  DigitOf <- MCDigitOf
  LongMax = 100
  Names <- MCNames
  Values <- MCValues
  Exchanges <- MCExchanges
INVARIANTS
  TypeOK
  RequestFieldsExact
  WireExact
  OneLinePerName
  PathIsWhole
  PartsSpellTarget
  ReplyGoesOut
PROPERTY
  ImplementsFields
\* A response is sent, or not.
CHECK_DEADLOCK FALSE
