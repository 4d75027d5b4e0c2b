\* Every kind of request, a loop that may break, fewer threads than requests.
SPECIFICATION Spec
CONSTANTS
  Requests = {r1, r2, r3, r4}
  Kinds = {"plain", "product", "payload"}
  MaxThreads = 2
  LoopMayFail = TRUE
  ConnStrings = {"clean", "raw"}
  ConfigClosing <- RepairedClosing
INVARIANTS
  TypeOK
  WorkerOwnsRequest
  AtMostOneReply
  PoolIsExact
  SweepIsExact
  ExitJoinsWorkers
SYMMETRY Symmetry
\* The process exits.
CHECK_DEADLOCK FALSE
