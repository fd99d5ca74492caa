CONSTANTS
  Users = {p1, p2}
  Menu = menu
  Vnodes = {x}
  OPEN_MAX = 2
  FirstFd = 1
  SYSTEM_OPEN_MAX = 2
  OffMod = 1
  CountMod = 8
  MaxRefs = 4
  NULL = NULL
  Calls = {"exit"}
SPECIFICATION Spec
INVARIANT SlotInUse
CHECK_DEADLOCK FALSE
