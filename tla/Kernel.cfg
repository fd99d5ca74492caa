\* The physical pages and the heap
CONSTANTS Threads = {t1, t2} nRamFrames = 6 FirstFree = 1 MaxPages = 2
  Types = {1} PerPage <- PerPageHere NUM_PAGEREFPAGES = 1 NPAGEREFS_PER_PAGE = 2
\* Address spaces, execv
  Procs = {"p1", "p2"} CPUs = {c1} VmFrames = {1, 2, 3, 4} Regions <- RegionsHere NUM_TLB = 1
  ExProcs = {p1, p2} Strings <- StringsHere MaxArgs = 2 ARG_MAX = 28 USERSTACK = 64
\* Spinlocks, thread lists
  SpCpus = {11, 12} SpLocks = {1, 2} NoCpu = 0 MaxHeld = 2
  NUMNAMES = 5
\* semfs, VFS, emufs
  SfThreads = {t1, t2, t3} SfNames = {"a"} MaxSems = 3 MaxVnodes = 3
  UsThreads = {t1, t2, t3} UINT_MAX = 3 MaxIO = 2
  VtProcs = {p1, p2} MaxOpens = 1 DevSpecs <- DevSpecsHere
  PathLen = 3 VpVnodes = {"d", "e", "f"} VpFs <- VpFsHere
  EmThreads = {1, 2} NoEm = 0 EmRoot = 10 EmEntries <- EmEntriesHere EMU_RETRIES = 1 EMU_MAXIO = 2
  MaxEmOps <- EmOpsHere EmSizes = {3} EmHas <- EmHasHere
\* Console and screen
  CoWriters = {"w1", "w2"} CoReaders = {"r1"} CoText <- CoTextHere CoKernel <- CoKernelHere
  CoPolled <- CoPolledHere CoBoot <- CoBootHere CoActive <- CoActiveHere CoWant = 2
  CONSOLE_INPUT_BUFFER_SIZE = 3
  KgMax = 4 KgKeys = {97, 32, 8, 3, 18, 21, 23, 10} MaxKeys = 6
  ScrWidth = 2 ScrHeight = 2 ScrChars = {97, 98, 10} MaxChars = 7
\* The kernel's tests, the bus, the library
  SsThreads = 2 LockLoops = 1 CvLoops = 2 NCVS = 2 SleepIters = 1 NWAITCHANS = 2 WakerWakes = 1
  Computes = 1 SemMax = 7
  LbCards <- CardsHere LbThreads = {1, 2} LbSectors = {1} LbIOs = 1 MaxDuds = 1 MaxTicks = 1
  ArValues = {1, 2} MaxArray = 5 MinMax = 2 TESTSIZE = 6 BITS_PER_WORD = 2 MaxBits = 5
  UioLens <- UioLensHere UioSizes = {0, 1, 3, 4} ZEROS = 2 USERSPACETOP = 4 AddrTop = 8
SPECIFICATION KernelSpec
CONSTRAINT Kept
CHECK_DEADLOCK FALSE
INVARIANTS
  HeapSafe SpacesSafe ArgvFaithful SpinSafe LibrarySound SemfsSafe
  VfsSafe EmuSafe ConsoleFaithful TestsSound BusSafe
