\* Every kind of request and a loop that may break, against the abstract service.
SPECIFICATION Spec
CONSTANTS
  Requests = {r1, r2}
  Kinds = {"plain", "product", "payload"}
  MaxThreads = 1
  LoopMayFail = TRUE
  ConnStrings = {"clean", "raw"}
  ConfigClosing <- RepairedClosing
PROPERTIES
  ImplementsService
  EveryRequestAnswered
\* The process exits.
CHECK_DEADLOCK FALSE
