------------------------------ MODULE Spinlock ------------------------------
(***************************************************************************)
(* Spinlocks, interrupt levels and traps: kern/thread/spinlock.c,          *)
(* kern/thread/spl.c, mips_trap of kern/arch/mips/locore/trap.c and the    *)
(* interrupt flag of kern/arch/mips/thread/cpu.c.  Each processor has a    *)
(* stack of contexts: user code or the kernel's idle loop at the bottom,   *)
(* a system call above user code, interrupt handlers on top.  Kernel code  *)
(* is any sequence of acquires, releases, splhigh and splx; an interrupt   *)
(* comes between any two steps while the flag allows it.                   *)
(***************************************************************************)
EXTENDS Naturals, Sequences, FiniteSets

CONSTANTS SpCpus, SpLocks, NoCpu,
          MaxHeld        \* bound: locks one context holds at a time

\* The locks are numbered in the kernel's lock order.
ASSUME SpinlockAssumption == SpLocks \subseteq Nat /\ NoCpu \notin SpCpus

VARIABLES splk_lock, splk_holder,     \* the two fields of each spinlock
          irq,                        \* CST_IEc of each processor
          t_curspl, t_iplhigh_count,  \* of the thread on each processor
          c_spinlocks, sp_ctx,
          sp_panic                    \* a panic or a failed KASSERT

sp_vars == <<splk_lock, splk_holder, irq, t_curspl, t_iplhigh_count, c_spinlocks, sp_ctx, sp_panic>>

IPL_NONE == 0
IPL_HIGH == 1

\* A context: what it is, its next step, the lock that step is about, the locks
\* it holds, the level splhigh returned, and whether mips_trap has to adjust.
SpContext(kind, doadjust) ==
  [kind |-> kind, pc |-> "go", lk |-> NoCpu, held |-> {}, spl |-> 2, doadjust |-> doadjust]

SpinlockInit ==
  /\ splk_lock = [l \in SpLocks |-> 0]
  /\ splk_holder = [l \in SpLocks |-> NoCpu]
  /\ irq = [c \in SpCpus |-> TRUE]
  /\ t_curspl = [c \in SpCpus |-> IPL_NONE]
  /\ t_iplhigh_count = [c \in SpCpus |-> 0]
  /\ c_spinlocks = [c \in SpCpus |-> 0]
  /\ sp_ctx = [c \in SpCpus |-> <<SpContext("user", FALSE)>>]
  /\ sp_panic = FALSE

SpTop(c) == sp_ctx[c][Len(sp_ctx[c])]
SpSetTop(c, x) == sp_ctx' = [sp_ctx EXCEPT ![c][Len(sp_ctx[c])] = x]
SpPush(c, x) == sp_ctx' = [sp_ctx EXCEPT ![c] = Append(@, x)]
SpPop(c) == sp_ctx' = [sp_ctx EXCEPT ![c] = SubSeq(@, 1, Len(@) - 1)]
InKernel(c) == SpTop(c).kind # "user" /\ SpTop(c).pc = "go"

\* splraise: interrupts go off with the first raise.
splraise(c) ==
  /\ irq' = IF t_iplhigh_count[c] = 0 THEN [irq EXCEPT ![c] = FALSE] ELSE irq
  /\ t_iplhigh_count' = [t_iplhigh_count EXCEPT ![c] = @ + 1]

\* Mutant of spllower: every lower turns interrupts on.
spllowerAlways(c) ==
  /\ t_iplhigh_count' = [t_iplhigh_count EXCEPT ![c] = @ - 1]
  /\ irq' = [irq EXCEPT ![c] = TRUE]

\* spllower: interrupts go on again with the last lower.
spllower(c) ==
  /\ t_iplhigh_count' = [t_iplhigh_count EXCEPT ![c] = @ - 1]
  /\ irq' = IF t_iplhigh_count[c] = 1 THEN [irq EXCEPT ![c] = TRUE] ELSE irq

\* splx: to another level than the current one.
splx(c, spl) ==
  /\ t_curspl' = [t_curspl EXCEPT ![c] = spl]
  /\ CASE t_curspl[c] < spl -> splraise(c)
       [] t_curspl[c] > spl -> spllower(c)
       [] OTHER -> UNCHANGED <<irq, t_iplhigh_count>>

splhigh(c) ==
  /\ InKernel(c) /\ SpTop(c).spl = 2
  /\ splx(c, IPL_HIGH)
  /\ SpSetTop(c, [SpTop(c) EXCEPT !.spl = t_curspl[c]])
  /\ UNCHANGED <<splk_lock, splk_holder, c_spinlocks, sp_panic>>

\* splx with what the context's splhigh returned.
SplRestore(c) ==
  /\ InKernel(c) /\ SpTop(c).spl # 2
  /\ splx(c, SpTop(c).spl)
  /\ SpSetTop(c, [SpTop(c) EXCEPT !.spl = 2])
  /\ UNCHANGED <<splk_lock, splk_holder, c_spinlocks, sp_panic>>

\* spinlock_acquire: raise the level, panic if this processor holds the lock.
spinlock_acquire(c, l) ==
  /\ InKernel(c) /\ Cardinality(SpTop(c).held) < MaxHeld
  /\ \A m \in SpTop(c).held : m < l           \* the kernel's lock order
  /\ splraise(c)
  /\ sp_panic' = (sp_panic \/ splk_holder[l] = c)
  /\ c_spinlocks' = [c_spinlocks EXCEPT ![c] = @ + 1]
  /\ SpSetTop(c, [SpTop(c) EXCEPT !.pc = "spin", !.lk = l])
  /\ UNCHANGED <<splk_lock, splk_holder, t_curspl>>

\* Mutant of TestAndSet: the word is read, found 0, and set without the
\* atomic operation, so that a processor in the same state is not noticed.
TestAndSetBlind(c) ==
  /\ SpTop(c).pc = "spin"
  /\ splk_lock[SpTop(c).lk] = 0 \/ \E d \in SpCpus \ {c} : SpTop(d).pc = "own" /\ SpTop(d).lk = SpTop(c).lk
  /\ splk_lock' = [splk_lock EXCEPT ![SpTop(c).lk] = 1]
  /\ SpSetTop(c, [SpTop(c) EXCEPT !.pc = "own"])
  /\ UNCHANGED <<splk_holder, irq, t_curspl, t_iplhigh_count, c_spinlocks, sp_panic>>

\* The loop ends when spinlock_data_testandset finds 0 (LL and SC on one word).
TestAndSet(c) ==
  /\ SpTop(c).pc = "spin"
  /\ splk_lock[SpTop(c).lk] = 0
  /\ splk_lock' = [splk_lock EXCEPT ![SpTop(c).lk] = 1]
  /\ SpSetTop(c, [SpTop(c) EXCEPT !.pc = "own"])
  /\ UNCHANGED <<splk_holder, irq, t_curspl, t_iplhigh_count, c_spinlocks, sp_panic>>

\* splk_holder = mycpu, and the caller goes on with the lock.
SetHolder(c) ==
  /\ SpTop(c).pc = "own"
  /\ splk_holder' = [splk_holder EXCEPT ![SpTop(c).lk] = c]
  /\ SpSetTop(c, [SpTop(c) EXCEPT !.pc = "go", !.lk = NoCpu, !.held = @ \cup {SpTop(c).lk}])
  /\ UNCHANGED <<splk_lock, irq, t_curspl, t_iplhigh_count, c_spinlocks, sp_panic>>

\* spinlock_release, first the holder and the count...
spinlock_release(c, l) ==
  /\ InKernel(c) /\ l \in SpTop(c).held
  /\ sp_panic' = (sp_panic \/ splk_holder[l] # c \/ c_spinlocks[c] = 0)
  /\ c_spinlocks' = [c_spinlocks EXCEPT ![c] = @ - 1]
  /\ splk_holder' = [splk_holder EXCEPT ![l] = NoCpu]
  /\ SpSetTop(c, [SpTop(c) EXCEPT !.pc = "drop", !.lk = l])
  /\ UNCHANGED <<splk_lock, irq, t_curspl, t_iplhigh_count>>

\* ... then the word, then the level.
ReleaseWord(c) ==
  /\ SpTop(c).pc = "drop"
  /\ splk_lock' = [splk_lock EXCEPT ![SpTop(c).lk] = 0]
  /\ spllower(c)
  /\ SpSetTop(c, [SpTop(c) EXCEPT !.pc = "go", !.lk = NoCpu, !.held = @ \ {SpTop(c).lk}])
  /\ UNCHANGED <<splk_holder, t_curspl, c_spinlocks, sp_panic>>

\* Mutant of TakeInterrupt: the level is adjusted, the count is not.
TakeInterruptNoCount(c) ==
  LET doadjust == t_curspl[c] = IPL_NONE IN
  /\ irq[c]
  /\ irq' = [irq EXCEPT ![c] = FALSE]
  /\ sp_panic' = (sp_panic \/ (doadjust /\ t_iplhigh_count[c] # 0))
  /\ t_curspl' = [t_curspl EXCEPT ![c] = IPL_HIGH]
  /\ SpPush(c, SpContext("irq", doadjust))
  /\ UNCHANGED <<splk_lock, splk_holder, t_iplhigh_count, c_spinlocks>>

\* mips_trap with EX_IRQ: the processor turns interrupts off, and the recorded
\* level follows when it was low.
TakeInterrupt(c) ==
  LET doadjust == t_curspl[c] = IPL_NONE IN
  /\ irq[c]
  /\ irq' = [irq EXCEPT ![c] = FALSE]
  /\ sp_panic' = (sp_panic \/ (doadjust /\ t_iplhigh_count[c] # 0))
  /\ t_curspl' = [t_curspl EXCEPT ![c] = IPL_HIGH]
  /\ t_iplhigh_count' = [t_iplhigh_count EXCEPT ![c] = IF doadjust THEN @ + 1 ELSE @]
  /\ SpPush(c, SpContext("irq", doadjust))
  /\ UNCHANGED <<splk_lock, splk_holder, c_spinlocks>>

\* mainbus_interrupt returned: the level is put back, and the return from the
\* exception turns interrupts on again.
InterruptReturn(c) ==
  /\ InKernel(c) /\ SpTop(c).kind = "irq" /\ SpTop(c).held = {} /\ SpTop(c).spl = 2
  /\ IF SpTop(c).doadjust
     THEN /\ sp_panic' = (sp_panic \/ t_curspl[c] # IPL_HIGH \/ t_iplhigh_count[c] # 1)
          /\ t_iplhigh_count' = [t_iplhigh_count EXCEPT ![c] = @ - 1]
          /\ t_curspl' = [t_curspl EXCEPT ![c] = IPL_NONE]
     ELSE UNCHANGED <<sp_panic, t_iplhigh_count, t_curspl>>
  /\ irq' = [irq EXCEPT ![c] = TRUE]
  /\ SpPop(c)
  /\ UNCHANGED <<splk_lock, splk_holder, c_spinlocks>>

\* mips_trap with EX_SYS: splhigh and splx bring the flag back to the recorded
\* level, which is low in user mode.
SpSyscall(c) ==
  /\ SpTop(c).kind = "user"
  /\ sp_panic' = (sp_panic \/ t_curspl[c] # IPL_NONE \/ t_iplhigh_count[c] # 0)
  /\ irq' = [irq EXCEPT ![c] = t_curspl[c] = IPL_NONE]
  /\ SpPush(c, SpContext("kern", FALSE))
  /\ UNCHANGED <<splk_lock, splk_holder, t_curspl, t_iplhigh_count, c_spinlocks>>

\* done: cpu_irqoff, and the return to user mode turns interrupts on.
SpSyscallReturn(c) ==
  /\ InKernel(c) /\ SpTop(c).kind = "kern" /\ SpTop(c).held = {} /\ SpTop(c).spl = 2
  /\ irq' = [irq EXCEPT ![c] = TRUE]
  /\ SpPop(c)
  /\ UNCHANGED <<splk_lock, splk_holder, t_curspl, t_iplhigh_count, c_spinlocks, sp_panic>>

\* cpu_idle: wait, and cpu_irqonoff lets the interrupt in at a high level;
\* thread_switch calls it with no spinlock held.
cpu_idle(c) ==
  /\ InKernel(c) /\ SpTop(c).kind = "kern" /\ c_spinlocks[c] = 0 /\ t_curspl[c] = IPL_HIGH
  /\ ~irq[c]
  /\ irq' = [irq EXCEPT ![c] = TRUE]
  /\ SpSetTop(c, [SpTop(c) EXCEPT !.pc = "wait"])
  /\ UNCHANGED <<splk_lock, splk_holder, t_curspl, t_iplhigh_count, c_spinlocks, sp_panic>>

\* The second half of cpu_irqonoff.
cpu_irqoff(c) ==
  /\ SpTop(c).pc = "wait"
  /\ irq' = [irq EXCEPT ![c] = FALSE]
  /\ SpSetTop(c, [SpTop(c) EXCEPT !.pc = "go"])
  /\ UNCHANGED <<splk_lock, splk_holder, t_curspl, t_iplhigh_count, c_spinlocks, sp_panic>>

SpinlockNext ==
  \E c \in SpCpus :
    \/ \E l \in SpLocks : spinlock_acquire(c, l) \/ spinlock_release(c, l)
    \/ TestAndSet(c) \/ SetHolder(c) \/ ReleaseWord(c) \/ splhigh(c) \/ SplRestore(c)
    \/ TakeInterrupt(c) \/ InterruptReturn(c) \/ SpSyscall(c) \/ SpSyscallReturn(c)
    \/ cpu_idle(c) \/ cpu_irqoff(c)

SpinlockSpec == SpinlockInit /\ [][SpinlockNext]_sp_vars
-----------------------------------------------------------------------------
\* The locks the contexts of processor c hold or are about to drop.
HeldBy(c) == UNION {sp_ctx[c][i].held : i \in 1..Len(sp_ctx[c])}

\* A spinlock has one holder: no two processors are between the test-and-set
\* and the release of the same lock, and the word is 1 exactly then.
SpinExclusive ==
  \A l \in SpLocks :
    LET owners == {c \in SpCpus : l \in HeldBy(c) \/ (SpTop(c).pc = "own" /\ SpTop(c).lk = l)} IN
    /\ Cardinality(owners) <= 1
    /\ splk_lock[l] = Cardinality(owners)

\* Interrupts stay off on a processor from before it spins until after it has
\* let go of its last spinlock, however acquires, releases, splhigh and splx
\* nest; t_iplhigh_count counts the locks and the raised levels.
IrqOffWhileHeld ==
  \A c \in SpCpus :
    /\ HeldBy(c) # {} \/ SpTop(c).pc \in {"spin", "own"} => ~irq[c]
    /\ SpTop(c).kind # "user" => (irq[c] => t_iplhigh_count[c] = 0 \/ SpTop(c).pc = "wait")

\* No panic: a processor never spins on a lock it holds itself, in particular
\* not in a handler that interrupted the holder, and the KASSERTs of
\* spinlock_release and mips_trap hold.
NoSpinPanic == ~sp_panic

\* spinlock_acquire and spinlock_release exclude, on one processor against its
\* interrupt handlers and between processors, and never spin on the holder.
SpinSafe == SpinExclusive /\ IrqOffWhileHeld /\ NoSpinPanic
=============================================================================
