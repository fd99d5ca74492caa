SPECIFICATION Spec
CONSTANTS
  Procs = {a1, a2}
  KProc = kproc
  Thrs = {t1, t2}
  Menu = menu
  MAX_PROC = 4
  Events = {}
  NULL = NULL
INVARIANTS
  NoThreadsAtDestroy
CHECK_DEADLOCK FALSE
