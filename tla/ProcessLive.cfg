SPECIFICATION FairSpec
CONSTANTS
  Procs = {a1, a2}
  KProc = kproc
  Thrs = {t1, t2}
  Menu = menu
  MAX_PROC = 3
  Events = {"badprog"}
  NULL = NULL
PROPERTIES
  WaitReturns
CHECK_DEADLOCK FALSE
