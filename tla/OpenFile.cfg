CONSTANTS
  Users = {p1, p2, p3}
  Menu = menu
  Vnodes = {x}
  OPEN_MAX = 2
  FirstFd = 1
  SYSTEM_OPEN_MAX = 2
  OffMod = 2
  CountMod = 8
  MaxRefs = 3
  NULL = NULL
  Calls = {"open", "close", "dup2", "rw", "lseek", "fork", "exit"}
SPECIFICATION Spec
SYMMETRY Symmetry
CONSTRAINT NotRaced
INVARIANTS TypeOK CountIsExact OpenIsUsable NoFault OffsetStable LockReturned
CHECK_DEADLOCK FALSE
