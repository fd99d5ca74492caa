------------------------------- MODULE Sched -------------------------------
(***************************************************************************)
(* Threads on several processors: kern/thread/thread.c with hardclock of   *)
(* kern/thread/clock.c.  Each processor has a run queue under a spinlock,  *)
(* a list of zombies and pending interprocessor interrupts.  A processor   *)
(* holds its run queue lock from thread_switch until the next thread       *)
(* releases it, or while it is not idling.  sc_pc is where a processor is: *)
(*   run     in c_curthread, interrupts on                                 *)
(*   pick    in the loop of thread_switch, run queue locked                *)
(*   idle    in cpu_idle;  unidle: an interrupt ended it                   *)
(*   resume  switched to c_curthread, run queue still locked               *)
(*   count, send, putback   in thread_consider_migration                   *)
(*   yield   in hardclock, about to call thread_yield                      *)
(*   ack, unidleack  an interprocessor interrupt is handled, its line still *)
(*           asserted                                                      *)
(*   halted  after cpu_halt                                                *)
(* c_ipi_pending[c] holds the codes posted to c, and "line" while the      *)
(* interrupt line of c is asserted.  IPI_UNIDLE is the line alone: its     *)
(* handler does nothing, the interrupt itself ends cpu_idle.               *)
(* Run queues, the zombie list and the wait channel are sequences; the     *)
(* linked lists behind them are in ThreadList.                             *)
(***************************************************************************)
EXTENDS Naturals, Sequences, FiniteSets, Functions

CONSTANTS NCPU,        \* processors 0..NCPU-1, the order of allcpus
          SThreads,    \* thread structures
          BootThread,  \* the boot thread of each processor
          NoThread

VARIABLES c_curthread, c_isidle, c_runqueue, c_runqueue_lock, c_zombies,
          c_ipi_pending, t_state, t_cpu, wc_threads, sc_pc, sc_mig, sc_stop

sc_cpu == <<c_curthread, c_isidle, c_runqueue, c_runqueue_lock, c_zombies, c_ipi_pending>>
sc_vars == <<sc_cpu, t_state, t_cpu, wc_threads, sc_pc, sc_mig, sc_stop>>

CpuSet == 0..(NCPU - 1)
NoMig == [i |-> 0, my |-> 0, total |-> 0, share |-> 0, send |-> 0, victims |-> <<>>,
          back |-> "run"]

ASSUME SchedAssumption ==
  /\ NCPU \in Nat \ {0}
  /\ BootThread \in [CpuSet -> SThreads]
  /\ IsInjective(BootThread)
  /\ NoThread \notin SThreads

\* thread_bootstrap, cpu_create and thread_start_cpus: every processor runs
\* its boot thread.
SchedInit ==
  /\ c_curthread = BootThread
  /\ c_isidle = [c \in CpuSet |-> FALSE]
  /\ c_runqueue = [c \in CpuSet |-> <<>>]
  /\ c_runqueue_lock = [c \in CpuSet |-> NCPU]       \* NCPU: nobody
  /\ c_zombies = [c \in CpuSet |-> <<>>]
  /\ c_ipi_pending = [c \in CpuSet |-> {}]
  /\ t_state = [t \in SThreads |-> IF t \in Range(BootThread) THEN "S_RUN" ELSE "none"]
  /\ t_cpu = [t \in SThreads |->
                IF t \in Range(BootThread) THEN CHOOSE c \in CpuSet : BootThread[c] = t ELSE 0]
  /\ wc_threads = <<>>
  /\ sc_pc = [c \in CpuSet |-> "run"]
  /\ sc_mig = [c \in CpuSet |-> NoMig]
  /\ sc_stop = "no"

Unlocked(c) == c_runqueue_lock[c] = NCPU
CurThread(c) == c_curthread[c]

\* Mutant of thread_make_runnable: no interrupt for an idle processor.
MakeRunnableSilent(c, t) ==
  LET d == t_cpu[t] IN
  /\ Unlocked(d)
  /\ t_state' = [t_state EXCEPT ![t] = "S_READY"]
  /\ c_runqueue' = [c_runqueue EXCEPT ![d] = Append(@, t)]
  /\ c_ipi_pending' = c_ipi_pending

\* ipi_send: post the code to processor d and assert its line.
ipi_send(d, code) == [c_ipi_pending EXCEPT ![d] = @ \cup ({code, "line"} \ {"IPI_UNIDLE"})]

\* thread_make_runnable without the lock, called on processor c: queue the
\* thread on its own processor and send IPI_UNIDLE when that one is idle.
thread_make_runnable(c, t) ==
  LET d == t_cpu[t] IN
  /\ Unlocked(d)
  /\ t_state' = [t_state EXCEPT ![t] = "S_READY"]
  /\ c_runqueue' = [c_runqueue EXCEPT ![d] = Append(@, t)]
  /\ c_ipi_pending' = IF c_isidle[d] /\ d # c THEN ipi_send(d, "IPI_UNIDLE") ELSE c_ipi_pending

\* thread_fork: thread_create, the stack and proc_addthread succeed, and the
\* new thread starts on the caller's processor.
thread_fork(c, t) ==
  /\ sc_pc[c] = "run" /\ t_state[t] = "none"
  /\ Unlocked(c)
  /\ t_cpu' = [t_cpu EXCEPT ![t] = c]
  /\ t_state' = [t_state EXCEPT ![t] = "S_READY"]
  /\ c_runqueue' = [c_runqueue EXCEPT ![c] = Append(@, t)]
  /\ UNCHANGED <<c_curthread, c_isidle, c_runqueue_lock, c_zombies, c_ipi_pending,
                 wc_threads, sc_pc, sc_mig, sc_stop>>

\* wchan_wakeone; the caller may also be an interrupt handler of an idle
\* processor (a device interrupt that does V), which then leaves cpu_idle.
wchan_wakeone(c) ==
  /\ sc_pc[c] \in {"run", "idle"} /\ wc_threads # <<>>
  /\ thread_make_runnable(c, Head(wc_threads))
  /\ wc_threads' = Tail(wc_threads)
  /\ sc_pc' = [sc_pc EXCEPT ![c] = IF @ = "idle" THEN "unidle" ELSE @]
  /\ UNCHANGED <<c_curthread, c_isidle, c_runqueue_lock, c_zombies, t_cpu, sc_mig, sc_stop>>

\* thread_switch up to the loop: the thread goes to the run queue, the wait
\* channel or the zombies, and the run queue lock is kept.
thread_switch(c, newstate) ==
  LET cur == CurThread(c) IN
  /\ sc_pc[c] = "run" \/ (sc_pc[c] = "yield" /\ newstate = "S_READY")
  /\ Unlocked(c)
  /\ ~(newstate = "S_READY" /\ c_runqueue[c] = <<>>)
  /\ c_runqueue_lock' = [c_runqueue_lock EXCEPT ![c] = c]
  /\ c_runqueue' = IF newstate = "S_READY"
                   THEN [c_runqueue EXCEPT ![c] = Append(@, cur)] ELSE c_runqueue
  /\ wc_threads' = IF newstate = "S_SLEEP" THEN Append(wc_threads, cur) ELSE wc_threads
  /\ c_zombies' = IF newstate = "S_ZOMBIE"
                  THEN [c_zombies EXCEPT ![c] = Append(@, cur)] ELSE c_zombies
  /\ t_state' = [t_state EXCEPT ![cur] = newstate]
  /\ c_isidle' = [c_isidle EXCEPT ![c] = TRUE]
  /\ sc_pc' = [sc_pc EXCEPT ![c] = "pick"]
  /\ UNCHANGED <<c_curthread, c_ipi_pending, t_cpu, sc_mig, sc_stop>>

\* thread_yield, called by a thread or at the end of hardclock; with an empty
\* run queue thread_switch returns at once.
thread_yield(c) ==
  \/ thread_switch(c, "S_READY")
  \/ /\ sc_pc[c] = "yield" /\ Unlocked(c) /\ c_runqueue[c] = <<>>
     /\ sc_pc' = [sc_pc EXCEPT ![c] = "run"]
     /\ UNCHANGED <<sc_cpu, t_state, t_cpu, wc_threads, sc_mig, sc_stop>>
wchan_sleep(c) == thread_switch(c, "S_SLEEP")
thread_exit(c) == thread_switch(c, "S_ZOMBIE")

\* The loop: the head of the run queue becomes c_curthread, or the lock is
\* released and the processor idles on the stack of the thread that left.
PickNext(c) ==
  /\ sc_pc[c] = "pick"
  /\ IF c_runqueue[c] = <<>>
     THEN /\ c_runqueue_lock' = [c_runqueue_lock EXCEPT ![c] = NCPU]
          /\ sc_pc' = [sc_pc EXCEPT ![c] = "idle"]
          /\ UNCHANGED <<c_curthread, c_isidle, c_runqueue>>
     ELSE /\ c_curthread' = [c_curthread EXCEPT ![c] = Head(c_runqueue[c])]
          /\ c_runqueue' = [c_runqueue EXCEPT ![c] = Tail(@)]
          /\ c_isidle' = [c_isidle EXCEPT ![c] = FALSE]
          /\ sc_pc' = [sc_pc EXCEPT ![c] = "resume"]
          /\ UNCHANGED c_runqueue_lock
  /\ UNCHANGED <<c_zombies, c_ipi_pending, t_state, t_cpu, wc_threads, sc_mig, sc_stop>>

\* cpu_idle returned: take the lock again and look.
IdleAgain(c) ==
  /\ sc_pc[c] = "unidle" /\ Unlocked(c)
  /\ c_runqueue_lock' = [c_runqueue_lock EXCEPT ![c] = c]
  /\ sc_pc' = [sc_pc EXCEPT ![c] = "pick"]
  /\ UNCHANGED <<c_curthread, c_isidle, c_runqueue, c_zombies, c_ipi_pending, t_state, t_cpu,
                 wc_threads, sc_mig, sc_stop>>

\* exorcise: thread_destroy for every zombie of this processor.
exorcise(c, field, gone) == [t \in SThreads |-> IF t \in Range(c_zombies[c]) THEN gone ELSE field[t]]

\* The tail of thread_switch, and thread_startup of a new thread: S_RUN,
\* release the lock, exorcise.
thread_startup(c) ==
  /\ sc_pc[c] = "resume"
  /\ t_state' = exorcise(c, [t_state EXCEPT ![CurThread(c)] = "S_RUN"], "none")
  /\ t_cpu' = exorcise(c, t_cpu, 0)
  /\ c_zombies' = [c_zombies EXCEPT ![c] = <<>>]
  /\ c_runqueue_lock' = [c_runqueue_lock EXCEPT ![c] = NCPU]
  /\ sc_pc' = [sc_pc EXCEPT ![c] = "run"]
  /\ UNCHANGED <<c_curthread, c_isidle, c_runqueue, c_ipi_pending, wc_threads, sc_mig, sc_stop>>

\* The end of hardclock is thread_yield; in the idle loop that returns at once
\* and cpu_idle ends.
AfterMigration(from) == IF from = "idle" THEN "unidle" ELSE "yield"

\* hardclock in a running thread or in the idle loop.  c_hardclocks decides
\* which ticks migrate; every phase of the counter is allowed.
hardclock(c) ==
  /\ sc_pc[c] \in {"run", "idle"}
  /\ \/ /\ sc_mig' = [sc_mig EXCEPT ![c].back = sc_pc[c]]
        /\ sc_pc' = [sc_pc EXCEPT ![c] = "count"]
     \/ /\ sc_pc' = [sc_pc EXCEPT ![c] = AfterMigration(@)]
        /\ UNCHANGED sc_mig
  /\ UNCHANGED <<sc_cpu, t_state, t_cpu, wc_threads, sc_stop>>

\* thread_consider_migration, first loop: one processor's count at a time.
CountQueue(c) ==
  LET m == sc_mig[c]
      n == Len(c_runqueue[m.i]) IN
  /\ sc_pc[c] = "count" /\ m.i < NCPU
  /\ Unlocked(m.i)
  /\ sc_mig' = [sc_mig EXCEPT ![c] = [m EXCEPT !.i = @ + 1, !.total = @ + n,
                                               !.my = IF m.i = c THEN n ELSE @]]
  /\ UNCHANGED <<sc_cpu, t_state, t_cpu, wc_threads, sc_pc, sc_stop>>

\* one_share and to_send, and the victims from the tail of the own queue.
TakeVictims(c) ==
  LET m == sc_mig[c]
      share == (m.total + NCPU - 1) \div NCPU
      send == m.my - share
      q == c_runqueue[c] IN
  /\ sc_pc[c] = "count" /\ m.i = NCPU
  /\ IF m.my < share
     THEN /\ sc_pc' = [sc_pc EXCEPT ![c] = AfterMigration(sc_mig[c].back)]
          /\ sc_mig' = [sc_mig EXCEPT ![c] = NoMig]
          /\ UNCHANGED c_runqueue
     ELSE /\ Unlocked(c)
          /\ c_runqueue' = [c_runqueue EXCEPT ![c] = SubSeq(q, 1, Len(q) - send)]
          /\ sc_mig' = [sc_mig EXCEPT ![c] =
                          [NoMig EXCEPT !.share = share, !.send = send, !.back = m.back,
                                        !.victims = SubSeq(q, Len(q) - send + 1, Len(q))]]
          /\ sc_pc' = [sc_pc EXCEPT ![c] = "send"]
  /\ UNCHANGED <<c_curthread, c_isidle, c_runqueue_lock, c_zombies, c_ipi_pending, t_state,
                 t_cpu, wc_threads, sc_stop>>

\* Mutant of SendOne: no test for curthread.
SendOneBlind(c, d) ==
  LET m == sc_mig[c]
      t == Head(m.victims) IN
  /\ t_cpu' = [t_cpu EXCEPT ![t] = d]
  /\ c_runqueue' = [c_runqueue EXCEPT ![d] = Append(@, t)]
  /\ c_ipi_pending' = IF c_isidle[d] THEN ipi_send(d, "IPI_UNIDLE") ELSE c_ipi_pending
  /\ sc_mig' = [sc_mig EXCEPT ![c] = [m EXCEPT !.victims = Tail(@), !.send = @ - 1]]

\* One turn of the inner loop, for processor d: the thread that is still
\* curthread goes to the end of the victims, any other moves to d.
SendOne(c, d) ==
  LET m == sc_mig[c]
      t == Head(m.victims) IN
  IF t = CurThread(c)
  THEN /\ sc_mig' = [sc_mig EXCEPT ![c] = [m EXCEPT !.victims = Append(Tail(@), t),
                                                    !.send = @ - 1]]
       /\ UNCHANGED <<t_cpu, c_runqueue, c_ipi_pending>>
  ELSE /\ t_cpu' = [t_cpu EXCEPT ![t] = d]
       /\ c_runqueue' = [c_runqueue EXCEPT ![d] = Append(@, t)]
       /\ c_ipi_pending' = IF c_isidle[d] THEN ipi_send(d, "IPI_UNIDLE") ELSE c_ipi_pending
       /\ sc_mig' = [sc_mig EXCEPT ![c] = [m EXCEPT !.victims = Tail(@), !.send = @ - 1]]

\* The second loop: victims to the processors below their share.  Each turn
\* of the inner loop needs the lock of d; the loop moves on when d has enough.
SendVictims(c) ==
  LET m == sc_mig[c] IN
  /\ sc_pc[c] = "send"
  /\ IF m.i = NCPU \/ m.send = 0
     THEN /\ sc_pc' = [sc_pc EXCEPT ![c] = "putback"]
          /\ UNCHANGED <<t_cpu, c_runqueue, c_ipi_pending, sc_mig>>
     ELSE /\ sc_pc' = sc_pc
          /\ m.i # c => Unlocked(m.i)
          /\ IF m.i = c \/ Len(c_runqueue[m.i]) >= m.share
             THEN /\ sc_mig' = [sc_mig EXCEPT ![c].i = @ + 1]
                  /\ UNCHANGED <<t_cpu, c_runqueue, c_ipi_pending>>
             ELSE SendOne(c, m.i)
  /\ UNCHANGED <<c_curthread, c_isidle, c_runqueue_lock, c_zombies, t_state, wc_threads, sc_stop>>

\* Mutant of PutBack: the leftovers are dropped.
PutBackNothing(c) ==
  /\ sc_pc[c] = "putback"
  /\ sc_mig' = [sc_mig EXCEPT ![c] = NoMig]
  /\ sc_pc' = [sc_pc EXCEPT ![c] = AfterMigration(sc_mig[c].back)]
  /\ UNCHANGED <<sc_cpu, t_state, t_cpu, wc_threads, sc_stop>>

\* The leftovers return to the own run queue.
PutBack(c) ==
  LET left == sc_mig[c].victims IN
  /\ sc_pc[c] = "putback" /\ (left # <<>> => Unlocked(c))
  /\ c_runqueue' = [c_runqueue EXCEPT ![c] = @ \o left]
  /\ sc_mig' = [sc_mig EXCEPT ![c] = NoMig]
  /\ sc_pc' = [sc_pc EXCEPT ![c] = AfterMigration(sc_mig[c].back)]
  /\ UNCHANGED <<c_curthread, c_isidle, c_runqueue_lock, c_zombies, c_ipi_pending, t_state,
                 t_cpu, wc_threads, sc_stop>>

\* interprocessor_interrupt: IPI_PANIC and IPI_OFFLINE halt the processor,
\* IPI_UNIDLE only ends cpu_idle.
interprocessor_interrupt(c) ==
  /\ sc_pc[c] \in {"run", "idle"} /\ "line" \in c_ipi_pending[c]
  /\ IF c_ipi_pending[c] \cap {"IPI_PANIC", "IPI_OFFLINE"} # {}
     THEN sc_pc' = [sc_pc EXCEPT ![c] = "halted"] /\ UNCHANGED c_ipi_pending
     ELSE /\ sc_pc' = [sc_pc EXCEPT ![c] = IF @ = "idle" THEN "unidleack" ELSE "ack"]
          /\ c_ipi_pending' = [c_ipi_pending EXCEPT ![c] = {"line"}]
  /\ UNCHANGED <<c_curthread, c_isidle, c_runqueue, c_runqueue_lock, c_zombies, t_state, t_cpu,
                 wc_threads, sc_mig, sc_stop>>

\* mainbus_interrupt: only then is the line cleared, with what was sent meanwhile.
lamebus_clear_ipi(c) ==
  /\ sc_pc[c] \in {"ack", "unidleack"}
  /\ sc_pc' = [sc_pc EXCEPT ![c] = IF @ = "ack" THEN "run" ELSE "unidle"]
  /\ c_ipi_pending' = [c_ipi_pending EXCEPT ![c] = @ \ {"line"}]
  /\ UNCHANGED <<c_curthread, c_isidle, c_runqueue, c_runqueue_lock, c_zombies, t_state, t_cpu,
                 wc_threads, sc_mig, sc_stop>>

ipi_broadcast(c, code) ==
  c_ipi_pending' = [d \in CpuSet |-> IF d = c THEN c_ipi_pending[d]
                                     ELSE ipi_send(d, code)[d]]

\* thread_shutdown, from the processor that shuts the system down and halts.
thread_shutdown(c) ==
  /\ sc_pc[c] = "run" /\ sc_stop = "no"
  /\ ipi_broadcast(c, "IPI_OFFLINE")
  /\ sc_pc' = [sc_pc EXCEPT ![c] = "halted"]
  /\ sc_stop' = "down"
  /\ UNCHANGED <<c_curthread, c_isidle, c_runqueue, c_runqueue_lock, c_zombies, t_state, t_cpu,
                 wc_threads, sc_mig>>

\* thread_panic: the same with IPI_PANIC, and the own run queue is dropped
\* without its lock.
thread_panic(c) ==
  /\ sc_pc[c] = "run" /\ sc_stop = "no"
  /\ ipi_broadcast(c, "IPI_PANIC")
  /\ c_runqueue' = [c_runqueue EXCEPT ![c] = <<>>]
  /\ sc_pc' = [sc_pc EXCEPT ![c] = "halted"]
  /\ sc_stop' = "panic"
  /\ UNCHANGED <<c_curthread, c_isidle, c_runqueue_lock, c_zombies, t_state, t_cpu, wc_threads,
                 sc_mig>>

SchedNext ==
  \E c \in CpuSet :
    \/ \E t \in SThreads : thread_fork(c, t)
    \/ wchan_wakeone(c) \/ wchan_sleep(c) \/ thread_yield(c) \/ thread_exit(c)
    \/ PickNext(c) \/ IdleAgain(c) \/ thread_startup(c)
    \/ hardclock(c) \/ CountQueue(c) \/ TakeVictims(c) \/ SendVictims(c) \/ PutBack(c)
    \/ interprocessor_interrupt(c) \/ lamebus_clear_ipi(c) \/ thread_shutdown(c) \/ thread_panic(c)

SchedSpec == SchedInit /\ [][SchedNext]_sc_vars
-----------------------------------------------------------------------------
\* The places a thread can be at: the lists, and the processors that run it.
\* An idle processor still stands on the stack of the thread that left.
OnLists(t) ==
  {<<"runq", c>> : c \in {d \in CpuSet : t \in Range(c_runqueue[d])}} \cup
  {<<"zomb", c>> : c \in {d \in CpuSet : t \in Range(c_zombies[d])}} \cup
  {<<"victim", c>> : c \in {d \in CpuSet : t \in Range(sc_mig[d].victims)}} \cup
  (IF t \in Range(wc_threads) THEN {<<"wchan", 0>>} ELSE {})
Runs(c, t) == CurThread(c) = t /\ ~c_isidle[c]

\* Every live thread is in exactly one place and its state says which: no
\* thread is lost or queued twice by thread_switch, by the wakeups or by
\* thread_consider_migration, whose counts go stale while it works.
ThreadInOnePlace ==
  sc_stop # "panic" => \A t \in SThreads :
    LET lists == OnLists(t)
        cpus == {c \in CpuSet : Runs(c, t)} IN
    /\ Cardinality(lists) + Cardinality(cpus) = (IF t_state[t] = "none" THEN 0 ELSE 1)
    /\ \A l \in lists : t_state[t] = CASE l[1] = "wchan" -> "S_SLEEP"
                                       [] l[1] = "zomb" -> "S_ZOMBIE"
                                       [] OTHER -> "S_READY"
    /\ \A c \in CpuSet : IsInjective(c_runqueue[c])

\* One kernel stack, one processor: a thread whose stack a processor stands on
\* (running, or idling after it left) is not run, queued to run or destroyed
\* by another one.  This is why thread_consider_migration skips curthread.
StackOwned ==
  \A c \in CpuSet :
    LET t == CurThread(c) IN
    /\ t_cpu[t] = c
    /\ t_state[t] # "none"
    /\ \A d \in CpuSet \ {c} : CurThread(d) # t /\ t \notin Range(c_runqueue[d])

\* No missed wakeup: a processor waits in cpu_idle with threads on its run queue
\* only if its interrupt line is asserted, although mainbus_interrupt clears the
\* line after it handled the codes and so may drop one that was just sent.
IdleIsWoken ==
  \A c \in CpuSet :
    sc_pc[c] = "idle" /\ c_runqueue[c] # <<>> => "line" \in c_ipi_pending[c]

\* Switching, waking, migrating and idling on several processors lose no thread,
\* run none on two stacks or one stack twice, and leave none waiting beside an
\* idle processor.
SchedSafe == ThreadInOnePlace /\ StackOwned /\ IdleIsWoken
=============================================================================
