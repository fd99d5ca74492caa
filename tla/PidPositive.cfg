SPECIFICATION Spec
CONSTANTS
  Procs = {a1, a2, a3, a4}
  KProc = kproc
  Thrs = {t1, t2, t3}
  Menu = menu
  MAX_PROC = 4
  Events = {}
  NULL = NULL
INVARIANTS
  PidPositive
CHECK_DEADLOCK FALSE
