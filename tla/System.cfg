\* Physical pages, processors
CONSTANTS Threads = {t1, t2} nRamFrames = 6 FirstFree = 1 MaxPages = 2
  NCPU = 2 SThreads = {"t1", "t2", "t3"} BootThread <- BootThreadHere NoThread = "none"
\* SFS with mksfs, sfsck and dumpsfs; frack
  NBLOCKS = 8 BLOCKWORDS = 6 SFS_NDIRECT = 1 SfNamesOk = {11, 12} SfNamesLong = {13} SfData = 7
  SfHandles = {h1} SfExtents <- SfExtentsHere SfLengths = {0, 3, 6, 12} MaxSfOps = 4 MaxCrashes = 1
  NDB = 3 DBPERIDB = 2 DATA_MAXSIZE = 3 NumFiles = 3 NumTrees = 1 NumThings = 2 NumOps = 1
  DrawLen = 3 RandPos = {0, 2, 4} RandLen = {1, 3} FrSizes = {"small"}
\* psort, malloc, sbrktest
  numprocs = 2 numkeys = 5 WORKNUM = 2 RANDOM_MAX = 7 PsKeys = {1, 2, 4, 6} CATBUF = 2 PS_OPEN_MAX = 20
  MBLOCKSIZE = 2 UmPage = 8 MaxHeap = 24 UmSlots = {1, 2, 3} UmSizes = {1, 5}
  SMALLSIZE = 2 MEDIUMSIZE = 6 BIGSIZE = 12 HUGESIZE = 48 OVERHEAD = 2
  SbPages = 8 SbNum = 2 SbForkNum = 3 SbStep = 3 SbClamp = 4 SbLoops = 3 MaxSbTests = 2
\* 64-bit arithmetic, printf and strings, the shell, the test programs
  HALF_BITS = 2 LlValues <- LlValuesHere
  LtFormats <- LtFormatsHere LtInts <- LtIntsHere LtLongBits = 8 LtBufs = {0, 1, 4, 12}
  LtTexts <- LtTextsHere LtMemory = 6
  ShPids = {2, 3} MAXBG = 2 NARG_MAX = 3 ShWords <- ShWordsHere ShLines <- ShLinesHere
  ShCodes = {259} ShSignals = {11} MaxShJobs = 3
  BRANCHES = 2 UtJobs = 2 ONCELOOPS = 1 TWICELOOPS = 1 THRICELOOPS = 1
  numthinkers = 1 numgrinders = 0 numponggroups = 1 ponggroupsize = 3 PONGLOOPS = 2
SPECIFICATION SystemSpec
CHECK_DEADLOCK FALSE
INVARIANTS
  FramesSafe SchedSafe  VolumeRepaired FrackRight PsortRight
  UserHeapRight  ArithmeticExact TextRight
