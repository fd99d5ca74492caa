------------------------------- MODULE Frames -------------------------------
(***************************************************************************)
(* The physical page allocator: ram_stealmem of kern/arch/mips/vm/ram.c    *)
(* and, with DUMBVM_WITH_FREE, getppages, freeppages and their callers in  *)
(* kern/arch/mips/vm/dumbvm.c.                                             *)
(*                                                                         *)
(* Addresses are frame numbers.  A section under stealmem_lock or          *)
(* freemem_lock is one step; between two sections other threads run.  A    *)
(* thread inside getppages or free_kpages keeps its place in fr_pc and its *)
(* argument or result in fr_np and fr_addr, so that a caller in another    *)
(* module starts a call with PageCall or FreeCall and goes on when fr_pc   *)
(* says "got" or "idle".  isTableActive is read with the section after it: *)
(* the flag changes once, in vm_bootstrap, when there is only one thread.  *)
(***************************************************************************)
EXTENDS Naturals, FiniteSets

CONSTANTS Threads,        \* the callers
          nRamFrames,     \* ram_getsize() / PAGE_SIZE
          FirstFree,      \* the first frame after the kernel image
          MaxPages        \* bound: the longest request

ASSUME FramesAssumption ==
  /\ nRamFrames \in Nat /\ FirstFree \in Nat \ {0} /\ MaxPages \in Nat \ {0}
  /\ FirstFree <= nRamFrames

VARIABLES freeRamFrames,  \* freeRamFrames[i]: the frame was given back
          allocSize,      \* allocSize[i]: pages of the block that starts at i
          firstpaddr,     \* first frame ram_stealmem has not handed out
          allocTableActive,
          fr_pc, fr_np, fr_addr,
          fr_held,        \* history: the blocks <<first, pages>> with a caller
          fr_boot         \* history: frames handed out before vm_bootstrap

fr_call == <<fr_pc, fr_np, fr_addr>>
fr_table == <<freeRamFrames, allocSize, firstpaddr, allocTableActive>>
fr_vars == <<fr_table, fr_call, fr_held, fr_boot>>

Frame == 0..(nRamFrames - 1)
Block(first, np) == first..(first + np - 1)

\* Where a thread is: "find" before getfreeppages, "steal" before
\* ram_stealmem, "size" before the last section of getppages, "got" with the
\* result in fr_addr; "kfree" in free_kpages before it reads allocSize,
\* "give" before the section of freeppages.
FramePcs == {"idle", "find", "steal", "size", "got", "kfree", "give"}

\* start.S and ram_bootstrap: nothing handed out, the tables not built.
ram_bootstrap ==
  /\ freeRamFrames = [i \in Frame |-> FALSE]
  /\ allocSize = [i \in Frame |-> 0]
  /\ firstpaddr = FirstFree
  /\ allocTableActive = FALSE
  /\ fr_pc = [t \in Threads |-> "idle"]
  /\ fr_np = [t \in Threads |-> 0]
  /\ fr_addr = [t \in Threads |-> 0]
  /\ fr_held = {} /\ fr_boot = {}

Quiet == \A t \in Threads : fr_pc[t] = "idle"
-----------------------------------------------------------------------------
\* The two tables come from kmalloc, which takes a page for each; when the
\* second is refused the first is forgotten and the table stays off.
vm_bootstrap ==
  /\ ~allocTableActive /\ Quiet
  /\ firstpaddr + 1 <= nRamFrames
  /\ LET both == firstpaddr + 2 <= nRamFrames
         n == IF both THEN 2 ELSE 1 IN
     /\ firstpaddr' = firstpaddr + n
     /\ fr_boot' = fr_boot \cup Block(firstpaddr, n)
     /\ allocTableActive' = both
  /\ UNCHANGED <<freeRamFrames, allocSize, fr_call, fr_held>>

\* A thread enters getppages(np).
PageCall(t, np) ==
  /\ fr_pc[t] = "idle"
  /\ fr_pc' = [fr_pc EXCEPT ![t] = "find"]
  /\ fr_np' = [fr_np EXCEPT ![t] = np]
  /\ UNCHANGED <<fr_table, fr_addr, fr_held, fr_boot>>

\* Mutant of FreeRuns: the scan stops one frame early.
FreeRunsShort(np) ==
  {f \in Frame : f + np <= nRamFrames /\ freeRamFrames[f] /\ \A i \in Block(f, np - 1) : freeRamFrames[i]}

\* The runs of np free frames that the scan of getfreeppages can stop at.
FreeRuns(np) ==
  {f \in Frame : f + np <= nRamFrames /\ \A i \in Block(f, np) : freeRamFrames[i]}

\* getfreeppages: the first run that is long enough, or 0.
getfreeppages(t) ==
  /\ fr_pc[t] = "find"
  /\ LET np == fr_np[t]
         runs == IF allocTableActive THEN FreeRuns(np) ELSE {} IN
     \/ \E found \in runs :
          /\ \A f \in runs : found <= f
          /\ freeRamFrames' = [i \in Frame |-> freeRamFrames[i] /\ i \notin Block(found, np)]
          /\ allocSize' = [allocSize EXCEPT ![found] = np]
          /\ fr_addr' = [fr_addr EXCEPT ![t] = found]
          /\ fr_pc' = [fr_pc EXCEPT ![t] = "size"]
     \/ /\ runs = {}
        /\ fr_addr' = [fr_addr EXCEPT ![t] = 0]
        /\ fr_pc' = [fr_pc EXCEPT ![t] = "steal"]
        /\ UNCHANGED <<freeRamFrames, allocSize>>
  /\ UNCHANGED <<firstpaddr, allocTableActive, fr_np, fr_held, fr_boot>>

\* The next np frames of physical memory, as long as there are so many.
ram_stealmem(t) ==
  /\ fr_pc[t] = "steal"
  /\ fr_pc' = [fr_pc EXCEPT ![t] = "size"]
  /\ LET np == fr_np[t] IN
     IF firstpaddr + np > nRamFrames
     THEN UNCHANGED <<firstpaddr, fr_addr, fr_boot>>
     ELSE /\ fr_addr' = [fr_addr EXCEPT ![t] = firstpaddr]
          /\ firstpaddr' = firstpaddr + np
          /\ fr_boot' = IF allocTableActive THEN fr_boot
                        ELSE fr_boot \cup Block(firstpaddr, np)
  /\ UNCHANGED <<freeRamFrames, allocSize, allocTableActive, fr_np, fr_held>>

\* Mutant of getppages: the size of a stolen block is not recorded.
GetppagesNoSize(t) ==
  /\ fr_pc[t] = "size"
  /\ fr_pc' = [fr_pc EXCEPT ![t] = "got"]
  /\ fr_held' = IF fr_addr[t] = 0 THEN fr_held
                ELSE fr_held \cup {<<fr_addr[t], fr_np[t]>>}
  /\ UNCHANGED <<fr_table, fr_np, fr_addr, fr_boot>>

\* The last section of getppages, and its return.
getppages(t) ==
  /\ fr_pc[t] = "size"
  /\ fr_pc' = [fr_pc EXCEPT ![t] = "got"]
  /\ LET a == fr_addr[t] IN
     /\ allocSize' = IF a # 0 /\ allocTableActive
                     THEN [allocSize EXCEPT ![a] = fr_np[t]] ELSE allocSize
     /\ fr_held' = IF a = 0 THEN fr_held ELSE fr_held \cup {<<a, fr_np[t]>>}
  /\ UNCHANGED <<freeRamFrames, firstpaddr, allocTableActive, fr_np, fr_addr, fr_boot>>

\* The call is over and its locals are gone.
Leave(t) ==
  /\ fr_pc' = [fr_pc EXCEPT ![t] = "idle"]
  /\ fr_np' = [fr_np EXCEPT ![t] = 0]
  /\ fr_addr' = [fr_addr EXCEPT ![t] = 0]

\* The caller takes the result and goes on.
PageReturn(t) ==
  /\ fr_pc[t] = "got"
  /\ Leave(t)
  /\ UNCHANGED <<fr_table, fr_held, fr_boot>>
-----------------------------------------------------------------------------
\* The caller of free_kpages(first) stops using the block.
FreeCall(t, first) ==
  /\ fr_pc[t] = "idle"
  /\ \E b \in fr_held : b[1] = first /\ fr_held' = fr_held \ {b}
  /\ IF allocTableActive
     THEN /\ fr_addr' = [fr_addr EXCEPT ![t] = first]
          /\ fr_pc' = [fr_pc EXCEPT ![t] = "kfree"]
     ELSE UNCHANGED <<fr_addr, fr_pc>>
  /\ UNCHANGED <<fr_table, fr_np, fr_boot>>

\* free_kpages reads allocSize[first] under no lock.
free_kpages(t) ==
  /\ fr_pc[t] = "kfree"
  /\ fr_np' = [fr_np EXCEPT ![t] = allocSize[fr_addr[t]]]
  /\ fr_pc' = [fr_pc EXCEPT ![t] = "give"]
  /\ UNCHANGED <<fr_table, fr_addr, fr_held, fr_boot>>

\* as_destroy calls freeppages with the size it knows; address 0 is ignored.
GiveCall(t, first, np) ==
  /\ fr_pc[t] = "idle"
  /\ fr_held' = fr_held \ {<<first, np>>}
  /\ IF first # 0 /\ allocTableActive
     THEN /\ fr_addr' = [fr_addr EXCEPT ![t] = first]
          /\ fr_np' = [fr_np EXCEPT ![t] = np]
          /\ fr_pc' = [fr_pc EXCEPT ![t] = "give"]
     ELSE UNCHANGED fr_call
  /\ UNCHANGED <<fr_table, fr_boot>>

\* Mutant of freeppages: the last frame of the block is not marked free.
FreeppagesShort(t) ==
  /\ fr_pc[t] = "give"
  /\ LET first == fr_addr[t] IN
     /\ freeRamFrames' = [i \in Frame |-> freeRamFrames[i] \/ i \in first..(first + fr_np[t] - 2)]
     /\ allocSize' = [allocSize EXCEPT ![first] = 0]
  /\ Leave(t)
  /\ UNCHANGED <<firstpaddr, allocTableActive, fr_held, fr_boot>>

freeppages(t) ==
  /\ fr_pc[t] = "give"
  /\ LET first == fr_addr[t] IN
     /\ freeRamFrames' = [i \in Frame |-> freeRamFrames[i] \/ i \in Block(first, fr_np[t])]
     /\ allocSize' = [allocSize EXCEPT ![first] = 0]
  /\ Leave(t)
  /\ UNCHANGED <<firstpaddr, allocTableActive, fr_held, fr_boot>>

\* A step of a thread inside getppages or free_kpages.
FrameStep(t) ==
  \/ getfreeppages(t) \/ ram_stealmem(t) \/ getppages(t)
  \/ free_kpages(t) \/ freeppages(t)
-----------------------------------------------------------------------------
\* alloc_kpages and free_kpages called by a thread that keeps its blocks; two
\* threads exist only once the table is on.
FramesNext ==
  \/ vm_bootstrap
  \/ \E t \in Threads : FrameStep(t)
  \/ \E t \in Threads, np \in 1..MaxPages : (Quiet \/ allocTableActive) /\ PageCall(t, np)
  \/ \E t \in Threads : PageReturn(t)
  \/ \E t \in Threads, b \in fr_held : FreeCall(t, b[1])
  \/ \E t \in Threads, b \in fr_held : b[1] \notin fr_boot /\ GiveCall(t, b[1], b[2])

FramesSpec == ram_bootstrap /\ [][FramesNext]_fr_vars
-----------------------------------------------------------------------------
\* The tables keep their shape and ram_stealmem stays inside physical memory.
FramesTypeOK ==
  /\ freeRamFrames \in [Frame -> BOOLEAN]
  /\ allocSize \in [Frame -> Nat]
  /\ firstpaddr \in FirstFree..nRamFrames
  /\ allocTableActive \in BOOLEAN
  /\ fr_pc \in [Threads -> FramePcs]
  /\ fr_np \in [Threads -> Nat]
  /\ fr_addr \in [Threads -> Nat]
  /\ fr_held \subseteq (Nat \X Nat)
  /\ fr_boot \subseteq Frame

\* A block on its way out of getppages or back through freeppages.
InTransit(t) ==
  IF fr_pc[t] \in {"size", "give"} /\ fr_addr[t] # 0
  THEN Block(fr_addr[t], fr_np[t])
  ELSE IF fr_pc[t] = "kfree" THEN Block(fr_addr[t], allocSize[fr_addr[t]])
  ELSE {}

FreeFrames == {i \in Frame : freeRamFrames[i]}
HeldFrames == UNION {Block(b[1], b[2]) : b \in fr_held}

\* No frame has two owners: the blocks that getppages handed out, those it is
\* about to hand out and those on their way back are disjoint from each other
\* and from the frames marked free, and all lie below firstpaddr.  The two
\* sources of getppages are under two spinlocks and free_kpages reads
\* allocSize under none.
FramesDisjoint ==
  /\ \A b, c \in fr_held : b # c => Block(b[1], b[2]) \cap Block(c[1], c[2]) = {}
  /\ \A t, u \in Threads : t # u => InTransit(t) \cap InTransit(u) = {}
  /\ \A t \in Threads : InTransit(t) \cap (HeldFrames \cup FreeFrames) = {}
  /\ HeldFrames \cap FreeFrames = {}
  /\ HeldFrames \cup FreeFrames \cup UNION {InTransit(t) : t \in Threads}
       \subseteq FirstFree..(firstpaddr - 1)

\* What free_kpages will read is the size getppages was asked for, so that a
\* block comes back whole; only blocks handed out before vm_bootstrap have no
\* size, and free_kpages drops them.
AllocSizeTrue ==
  \A b \in fr_held : allocSize[b[1]] = IF b[1] \in fr_boot THEN 0 ELSE b[2]

\* Every frame ram_stealmem handed out is free, with a caller, in transit, or
\* one of those handed out before vm_bootstrap: nothing else leaks.
NoFrameLost ==
  FirstFree..(firstpaddr - 1) \subseteq
    FreeFrames \cup HeldFrames \cup fr_boot \cup UNION {InTransit(t) : t \in Threads}

\* getppages and free_kpages as a whole: a frame has one owner, a block comes
\* back with the size it was handed out with, and no frame is lost.
FramesSafe == FramesDisjoint /\ AllocSizeTrue /\ NoFrameLost
=============================================================================
