--------------------------------- MODULE VM ---------------------------------
(***************************************************************************)
(* Address spaces and the TLB: the as_ calls and vm_fault of               *)
(* kern/arch/mips/vm/dumbvm.c, with the calls that build, replace and drop *)
(* an address space: runprogram, sys_execv, load_elf, as_copy for sys_fork *)
(* and as_destroy for the parent that reaps.                               *)
(*                                                                         *)
(* A region is one page.  getppages gives the first frame nobody owns, or  *)
(* 0 when there is none: that it never gives one twice is FramesDisjoint   *)
(* of Frames.  A frame holds Zero or the process that wrote it last.  Every*)
(* process has one thread; a CPU runs at most one, in user mode or in the  *)
(* kernel, and may be switched to another at any step.                     *)
(***************************************************************************)
EXTENDS Naturals, Sequences, FiniteSets

CONSTANTS Procs, CPUs,
          VmFrames,       \* physical frames
          Regions,        \* the regions as_prepare_load fills, in order
          NUM_TLB         \* entries of a TLB

VARIABLES p_addrspace,    \* proc -> address space, or NoAs
          vm_new,         \* the local new_as (execv) or new (as_copy), or NoAs
          vm_pc, vm_child,
          curproc,        \* curproc[c]: the process on CPU c, or NoProc
          tlb,            \* tlb[c]: valid entries <<region, frame>>
          mem, vm_owned,  \* contents; frames getppages has handed out
          vm_kin          \* history: whose writes a process may come to see

as_vars == <<p_addrspace, vm_new, vm_pc, vm_child, vm_kin>>
vm_vars == <<as_vars, curproc, tlb, mem, vm_owned>>

NoProc == "none"
Zero == "zero"
NoAs == <<>>
RegionSet == {Regions[i] : i \in DOMAIN Regions}

\* Frame 0 is nobody's: an address of 0 is a region without memory.
ASSUME VMAssumption ==
  /\ RegionSet # {} /\ VmFrames \subseteq Nat \ {0}
  /\ NoProc \notin Procs /\ Zero \notin Procs

FramesOf(as) == IF as = NoAs THEN {} ELSE {as[r] : r \in RegionSet} \ {0}

\* as_create: no physical memory yet.
as_create == [r \in RegionSet |-> 0]

\* "unborn" no process; "user" user mode; "load"/"eload" in load_elf from
\* runprogram or execv; "undo" execv after load_elf failed; "argv" execv copies
\* the arguments out; "copy" in as_copy, "move" at its memmoves, "uncopy" at
\* its error path; "dead" exited, not reaped yet; "gone" reaped, still on a CPU.
VMInit ==
  /\ p_addrspace = [p \in Procs |-> NoAs] /\ vm_new = [p \in Procs |-> NoAs]
  /\ vm_pc = [p \in Procs |-> "unborn"] /\ vm_child = [p \in Procs |-> NoProc]
  /\ curproc = [c \in CPUs |-> NoProc]
  /\ tlb = [c \in CPUs |-> {}]
  /\ mem = [f \in VmFrames |-> Zero] /\ vm_owned = {}
  /\ vm_kin = [p \in Procs |-> {p}]

Running(p) == {c \in CPUs : curproc[c] = p}
VmGoto(p, l) == vm_pc' = [vm_pc EXCEPT ![p] = l]

\* as_activate on CPU c: every entry is invalidated, unless there is no
\* address space to switch to.
as_activate(c, as) == tlb' = IF as = NoAs THEN tlb ELSE [tlb EXCEPT ![c] = {}]

\* proc_setas: the new address space in, the old one out.
proc_setas(p, as) == p_addrspace' = [p_addrspace EXCEPT ![p] = as]

\* Mutant of as_destroy: the frames of the first region are forgotten.
AsDestroyLeak(as) == vm_owned' = vm_owned \ {as[r] : r \in RegionSet \ {Regions[1]}}

\* freeppages for every region, then kfree; a region without memory is skipped.
as_destroy(as) == vm_owned' = vm_owned \ FramesOf(as)
-----------------------------------------------------------------------------
\* runprogram: a process without address space gets one, active.
runprogram(p, c) ==
  /\ vm_pc[p] = "unborn" /\ curproc[c] = NoProc /\ Running(p) = {}
  /\ \A q \in Procs : vm_child[q] # p
  /\ curproc' = [curproc EXCEPT ![c] = p]
  /\ proc_setas(p, as_create)
  /\ as_activate(c, as_create)
  /\ VmGoto(p, "load")
  /\ vm_kin' = [vm_kin EXCEPT ![p] = {p}]
  /\ UNCHANGED <<vm_new, vm_child, mem, vm_owned>>

\* One getppages per region, in order, until one returns 0: region i gets the i-th
\* frame that is free.
Filled ==
  LET avail == VmFrames \ vm_owned
      Nth(i) == {f \in avail : Cardinality({g \in avail : g <= f}) = i} IN
  [r \in RegionSet |->
     LET i == CHOOSE i \in DOMAIN Regions : Regions[i] = r IN
     IF Nth(i) = {} THEN 0 ELSE CHOOSE f \in Nth(i) : TRUE]

\* Mutant of Zeroed: the last region is forgotten.
ZeroedButLast(as) ==
  [f \in VmFrames |-> IF \E r \in RegionSet \ {Regions[Len(Regions)]} : as[r] = f THEN Zero ELSE mem[f]]

\* as_zero_region for the three regions, once all of them have memory.
Zeroed(as) == [f \in VmFrames |-> IF f \in FramesOf(as) THEN Zero ELSE mem[f]]

\* as_prepare_load: memory for every region, then the zeroing; ENOMEM leaves
\* the regions filled so far.
as_prepare_load(as, done, failed, p) ==
  /\ vm_owned' = vm_owned \cup FramesOf(as)
  /\ IF \A r \in RegionSet : as[r] # 0
     THEN mem' = Zeroed(as) /\ VmGoto(p, done)
     ELSE VmGoto(p, failed) /\ UNCHANGED mem

\* load_elf: as_define_region and as_prepare_load, then load_segment through
\* the user mapping, which are the faults of a process at "argv".
load_elf(p) ==
  /\ vm_pc[p] \in {"load", "eload"} /\ Running(p) # {}
  /\ LET as == Filled IN
     /\ as_prepare_load(as, "argv", IF vm_pc[p] = "load" THEN "dead" ELSE "undo", p)
     /\ proc_setas(p, as)
  /\ UNCHANGED <<vm_new, vm_child, vm_kin, curproc, tlb>>

\* sys_execv up to as_activate: the old address space is kept in vm_new.
ExecStart(p, c) ==
  /\ vm_pc[p] = "user" /\ curproc[c] = p
  /\ vm_new' = [vm_new EXCEPT ![p] = p_addrspace[p]]
  /\ proc_setas(p, as_create)
  /\ as_activate(c, as_create)
  /\ VmGoto(p, "eload")
  /\ UNCHANGED <<vm_child, vm_kin, curproc, mem, vm_owned>>

\* Mutant of ExecUndo: the old address space is put back and not activated.
ExecUndoStale(p, c) ==
  /\ vm_pc[p] = "undo" /\ curproc[c] = p
  /\ proc_setas(p, vm_new[p])
  /\ as_destroy(p_addrspace[p])
  /\ vm_new' = [vm_new EXCEPT ![p] = NoAs]
  /\ VmGoto(p, "user")
  /\ UNCHANGED <<vm_child, vm_kin, curproc, tlb, mem>>

\* execv's error path: the old address space back and active, the new one gone.
\* A fault while the arguments were copied out comes here too.
ExecUndo(p, c) ==
  /\ curproc[c] = p
  /\ vm_pc[p] = "undo" \/ (vm_pc[p] = "argv" /\ vm_new[p] # NoAs)
  /\ proc_setas(p, vm_new[p])
  /\ as_activate(c, vm_new[p])
  /\ as_destroy(p_addrspace[p])
  /\ vm_new' = [vm_new EXCEPT ![p] = NoAs]
  /\ VmGoto(p, "user")
  /\ UNCHANGED <<vm_child, vm_kin, curproc, mem>>

\* The program is loaded and its arguments are out: execv drops the old
\* address space, and both calls warp to user mode.
enter_new_process(p) ==
  /\ vm_pc[p] = "argv" /\ Running(p) # {}
  /\ IF vm_new[p] = NoAs THEN UNCHANGED vm_owned ELSE as_destroy(vm_new[p])
  /\ vm_new' = [vm_new EXCEPT ![p] = NoAs]
  /\ VmGoto(p, "user")
  /\ UNCHANGED <<p_addrspace, vm_child, vm_kin, curproc, tlb, mem>>
-----------------------------------------------------------------------------
\* sys_fork enters as_copy with a fresh address space for the child.
sys_fork(p, q) ==
  /\ vm_pc[p] = "user" /\ Running(p) # {}
  /\ vm_pc[q] = "unborn" /\ \A s \in Procs : vm_child[s] # q
  /\ vm_new' = [vm_new EXCEPT ![p] = as_create]
  /\ vm_child' = [vm_child EXCEPT ![p] = q]
  /\ VmGoto(p, "copy")
  /\ UNCHANGED <<p_addrspace, vm_kin, curproc, tlb, mem, vm_owned>>

\* as_copy: as_prepare_load on the new address space.
as_copy(p) ==
  /\ vm_pc[p] = "copy" /\ Running(p) # {}
  /\ LET as == Filled IN
     /\ as_prepare_load(as, "move", "uncopy", p)
     /\ vm_new' = [vm_new EXCEPT ![p] = as]
  /\ UNCHANGED <<p_addrspace, vm_child, vm_kin, curproc, tlb>>

\* The memmove of every region; the child has its address space and may run.
CopyMemory(p) ==
  /\ vm_pc[p] = "move" /\ Running(p) # {}
  /\ LET new == vm_new[p]
         From(f) == CHOOSE r \in RegionSet : new[r] = f IN
     /\ mem' = [f \in VmFrames |-> IF f \in FramesOf(new) THEN mem[p_addrspace[p][From(f)]] ELSE mem[f]]
     /\ proc_setas(vm_child[p], new)
  /\ vm_pc' = [vm_pc EXCEPT ![p] = "user", ![vm_child[p]] = "user"]
  /\ vm_new' = [vm_new EXCEPT ![p] = NoAs]
  /\ vm_child' = [vm_child EXCEPT ![p] = NoProc]
  /\ vm_kin' = [vm_kin EXCEPT ![vm_child[p]] = {vm_child[p]} \cup vm_kin[p]]
  /\ UNCHANGED <<vm_owned, curproc, tlb>>

\* as_copy after ENOMEM: as_destroy(new).
CopyFailed(p) ==
  /\ vm_pc[p] = "uncopy" /\ Running(p) # {}
  /\ as_destroy(vm_new[p])
  /\ vm_new' = [vm_new EXCEPT ![p] = NoAs]
  /\ vm_child' = [vm_child EXCEPT ![p] = NoProc]
  /\ VmGoto(p, "user")
  /\ UNCHANGED <<p_addrspace, vm_kin, curproc, tlb, mem>>

\* sys__exit: the address space stays with the process until it is reaped.
sys__exit(p) ==
  /\ vm_pc[p] = "user" /\ Running(p) # {}
  /\ VmGoto(p, "dead")
  /\ UNCHANGED <<p_addrspace, vm_new, vm_child, vm_kin, curproc, tlb, mem, vm_owned>>

\* proc_destroy by the parent in waitpid, once the thread has left its CPU or
\* is on its way out of it.
proc_destroy(p) ==
  /\ vm_pc[p] = "dead"
  /\ as_destroy(p_addrspace[p])
  /\ proc_setas(p, NoAs)
  /\ VmGoto(p, IF Running(p) = {} THEN "unborn" ELSE "gone")
  /\ UNCHANGED <<vm_new, vm_child, vm_kin, curproc, tlb, mem>>
-----------------------------------------------------------------------------
\* Mutant of SwitchTo: the address space is activated only when the
\* thread that leaves had one of its own.
SwitchLazy(c, p) ==
  /\ curproc[c] # p
  /\ p # NoProc => Running(p) = {} /\ vm_pc[p] \notin {"unborn", "dead", "gone"}
  /\ curproc' = [curproc EXCEPT ![c] = p]
  /\ IF curproc[c] = NoProc THEN UNCHANGED tlb ELSE as_activate(c, IF p = NoProc THEN NoAs ELSE p_addrspace[p])
  /\ vm_pc' = [q \in Procs |-> IF vm_pc[q] = "gone" /\ q = curproc[c] THEN "unborn" ELSE vm_pc[q]]
  /\ UNCHANGED <<p_addrspace, vm_new, vm_child, vm_kin, mem, vm_owned>>

\* thread_switch to the thread of p, or to a kernel thread without address
\* space, on CPU c: as_activate runs in the thread that comes in.
SwitchTo(c, p) ==
  /\ curproc[c] # p
  /\ p # NoProc => Running(p) = {} /\ vm_pc[p] \notin {"unborn", "dead", "gone"}
  /\ curproc' = [curproc EXCEPT ![c] = p]
  /\ as_activate(c, IF p = NoProc THEN NoAs ELSE p_addrspace[p])
  /\ vm_pc' = [q \in Procs |-> IF vm_pc[q] = "gone" /\ q = curproc[c] THEN "unborn" ELSE vm_pc[q]]
  /\ UNCHANGED <<p_addrspace, vm_new, vm_child, vm_kin, mem, vm_owned>>

\* The process touches user memory: in user mode, or in copyout and
\* load_segment with the new address space complete.
Touching(p) == vm_pc[p] \in {"user", "argv"}

\* vm_fault at an address of region r that misses in the TLB of c: a free
\* entry is filled and the store that faulted goes through; with none left
\* the fault is fatal to the process.
vm_fault(c, r) ==
  LET p == curproc[c] IN
  /\ p # NoProc /\ Touching(p)
  /\ ~\E e \in tlb[c] : e[1] = r
  /\ IF Cardinality(tlb[c]) < NUM_TLB
     THEN /\ tlb' = [tlb EXCEPT ![c] = @ \cup {<<r, p_addrspace[p][r]>>}]
          /\ mem' = [mem EXCEPT ![p_addrspace[p][r]] = p]
          /\ UNCHANGED vm_pc
     ELSE /\ VmGoto(p, IF vm_pc[p] = "user" \/ vm_new[p] = NoAs THEN "dead" ELSE "undo")
          /\ UNCHANGED <<tlb, mem>>
  /\ UNCHANGED <<p_addrspace, vm_new, vm_child, vm_kin, curproc, vm_owned>>

VMNext ==
  \/ \E p \in Procs, c \in CPUs :
       runprogram(p, c) \/ ExecStart(p, c) \/ ExecUndo(p, c)
  \/ \E p \in Procs :
       \/ load_elf(p) \/ enter_new_process(p) \/ as_copy(p) \/ CopyMemory(p) \/ CopyFailed(p)
       \/ sys__exit(p) \/ proc_destroy(p)
  \/ \E p, q \in Procs : p # q /\ sys_fork(p, q)
  \/ \E c \in CPUs, p \in Procs \cup {NoProc} : SwitchTo(c, p)
  \/ \E c \in CPUs, r \in RegionSet : vm_fault(c, r)

VMSpec == VMInit /\ [][VMNext]_vm_vars
-----------------------------------------------------------------------------
\* Whatever a CPU ran before and whatever execv, fork and exit did to address
\* spaces meanwhile, the TLB under a process that touches user memory holds
\* translations of its own address space only.
TlbCoherent ==
  \A c \in CPUs :
    LET p == curproc[c] IN
    p # NoProc /\ Touching(p) => \A e \in tlb[c] : p_addrspace[p][e[1]] = e[2]

Spaces == {p_addrspace[p] : p \in Procs} \cup {vm_new[p] : p \in Procs}

\* Every frame taken from getppages is in exactly one region of one address
\* space: the error paths of execv, fork and runprogram lose none and none is
\* shared, and as_destroy gives all of them back.
SpacesExact ==
  /\ vm_owned = UNION {FramesOf(as) : as \in Spaces}
  /\ \A p, q \in Procs :
       /\ p # q => FramesOf(p_addrspace[p]) \cap FramesOf(p_addrspace[q]) = {}
       /\ FramesOf(p_addrspace[p]) \cap FramesOf(vm_new[q]) = {}

\* as_prepare_load hands out zeroed memory: a process finds in its regions
\* only zeroes, its own writes and those it inherited through fork, never what
\* a frame held under an earlier owner.
NoLeftovers ==
  \A p \in Procs : Touching(p) =>
    \A r \in RegionSet : mem[p_addrspace[p][r]] \in {Zero} \cup vm_kin[p]

\* A process sees its own memory and nothing else: through the TLB of whichever
\* processor it runs on, through frames that had other owners, and through the
\* error paths of execv, fork and runprogram, which also lose no frame.
SpacesSafe == TlbCoherent /\ SpacesExact /\ NoLeftovers
=============================================================================
