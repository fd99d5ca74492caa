CONSTANTS
  Users = {p1, p2, p3}
  Menu = menu
  Vnodes = {x}
  OPEN_MAX = 3
  FirstFd = 1
  SYSTEM_OPEN_MAX = 2
  OffMod = 1
  CountMod = 16
  MaxRefs = 8
  NULL = NULL
  Calls = {"close", "dup2", "fork"}
SPECIFICATION Spec
INVARIANT OtherHandles
CHECK_DEADLOCK FALSE
