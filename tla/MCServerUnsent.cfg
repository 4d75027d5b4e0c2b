\* The comment at main.cpp:246-247 against the sweep.
SPECIFICATION Spec
CONSTANTS
  Requests = {r1, r2}
  Kinds = {"plain", "product"}
  MaxThreads = 2
  LoopMayFail = FALSE
  ConnStrings = {"clean"}
  ConfigClosing <- RepairedClosing
INVARIANTS
  UnsentIsTriedAgain
CHECK_DEADLOCK FALSE
