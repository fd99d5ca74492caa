SPECIFICATION Spec
CONSTANTS
  Procs = {a1, a2, a3}
  KProc = kproc
  Thrs = {t1, t2, t3}
  Menu = menu
  MAX_PROC = 4
  Events = {"trap", "nomem", "badprog"}
  NULL = NULL
INVARIANTS TableSound KernelSafe ForkReturnsLiveChild ParentStillRunning
PROPERTY StatusCollected
SYMMETRY Symmetry
CONSTRAINT Orderly
CHECK_DEADLOCK FALSE
