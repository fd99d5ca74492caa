------------------------------ MODULE Process ------------------------------
(***************************************************************************)
(* Processes: the process table and struct proc of kern/proc/proc.c, fork, *)
(* _exit and waitpid of kern/syscall/proc_syscalls.c, the death of a       *)
(* process in kern/arch/mips/locore/trap.c, and the menu of                *)
(* kern/main/menu.c, which starts programs and waits for them.             *)
(*                                                                         *)
(* A struct proc is named by its address, and kmalloc may hand an address  *)
(* out again: pointers in thread stacks and in parent_proc can outlive the *)
(* structure they point to.  A use of memory that is still free is a crash *)
(* (kfree fills it with 0xdeadbeef); memory that was handed out again is   *)
(* used as what it is now.  Each process has one thread.  A step is what   *)
(* runs between two points where another thread can see the difference:    *)
(* the sections under processTable.lk and p_lock are single steps.         *)
(***************************************************************************)
EXTENDS Integers, FiniteSets

CONSTANTS Procs,      \* the addresses kmalloc has for struct proc
          KProc,      \* the address of kproc
          Thrs,       \* the threads that programs can run in
          Menu,       \* the kernel menu thread, in kproc
          MAX_PROC,   \* the slots of the table are 1..MAX_PROC
          Events,     \* what the environment does besides the system calls
          NULL

PID_MIN == 2

\* "trap": a program takes a fatal trap.  "nomem": an allocation made by fork
\* fails.  "badprog": the program named at the menu cannot be run.
AllEvents == {"trap", "nomem", "badprog"}

ASSUME ProcessAssumption ==
  /\ KProc \notin Procs
  /\ Menu \notin Thrs
  /\ NULL \notin Procs \cup {KProc}
  /\ MAX_PROC \in Nat /\ MAX_PROC >= PID_MIN
  /\ Events \subseteq AllEvents

Addrs == Procs \cup {KProc}
Threads == Thrs \cup {Menu}
Slots == 1..MAX_PROC

VARIABLES
  table, last_i, is_full,         \* processTable
  mem,            \* "free", "live", or "dying": out of the table, not yet freed
  p_pid, p_status, p_exited, p_numthreads, p_sem, parent_proc,  \* struct proc
  pc, self, target, s,            \* threads: program counter, curproc, the
                                  \* struct proc * in hand, the status read
  fault,          \* "none", or the assertion or dereference that stopped the kernel
  orderly         \* FALSE once proc_destroy was called on a structure that was
                  \* not the caller's alone, or once the table was found full

tab_vars == <<table, last_i, is_full>>
proc_vars == <<mem, p_pid, p_status, p_exited, p_numthreads, p_sem, parent_proc>>
thr_vars == <<pc, self, target, s>>
vars == <<tab_vars, proc_vars, thr_vars, fault, orderly>>

\* "free": no such thread.  "user": in user mode.  "menu": the menu's prompt.
\* "prog": in cmd_progthread.  f_: in fork or common_prog.  w_: in waitpid.
\* d_: in proc_destroy.  e_: in _exit.  k_: in kill_curthread.  r_: a program
\* thread whose runprogram failed.
Pcs == {"free", "user", "menu", "prog", "f_check", "f_copy", "f_thread", "f_ret",
        "w_pid", "w_lock", "w_sem", "d_table", "d_free",
        "e_rem", "e_link", "e_sem", "k_status", "k_rem", "r_rem"}

Faults == {"none", "numthreads", "pid", "search", "freed", "sleeper"}

\* proc_bootstrap: kproc goes through proc_create and so takes slot 1.
proc_bootstrap ==
  /\ table = [i \in Slots |-> IF i = 1 THEN KProc ELSE NULL]
  /\ last_i = 1
  /\ is_full = FALSE
  /\ mem = [a \in Addrs |-> IF a = KProc THEN "live" ELSE "free"]
  /\ p_pid = [a \in Addrs |-> IF a = KProc THEN 1 ELSE 0]
  /\ p_status = [a \in Addrs |-> "none"]
  /\ p_exited = [a \in Addrs |-> 0]
  /\ p_numthreads = [a \in Addrs |-> IF a = KProc THEN 1 ELSE 0]
  /\ p_sem = [a \in Addrs |-> 0]
  /\ parent_proc = [a \in Addrs |-> NULL]
  /\ pc = [t \in Threads |-> IF t = Menu THEN "menu" ELSE "free"]
  /\ self = [t \in Threads |-> IF t = Menu THEN KProc ELSE NULL]
  /\ target = [t \in Threads |-> NULL]
  /\ s = [t \in Threads |-> "none"]
  /\ fault = "none"
  /\ orderly = TRUE

Init == proc_bootstrap
-----------------------------------------------------------------------------
Goto(t, l) == pc' = [pc EXCEPT ![t] = l]

\* Where a thread resumes when its system call, or menu command, is over.
Back(t) == IF t = Menu THEN "menu" ELSE "user"

\* The call returns; the pointer it worked with is forgotten.
Return(t) ==
  /\ Goto(t, Back(t))
  /\ target' = [target EXCEPT ![t] = NULL]
  /\ s' = [s EXCEPT ![t] = "none"]
  /\ UNCHANGED self

\* thread_exit, once the thread is detached from its process.
ThreadGone(t) ==
  /\ Goto(t, "free")
  /\ self' = [self EXCEPT ![t] = NULL]
  /\ UNCHANGED <<target, s>>

\* A KASSERT fails, or freed memory is used: the kernel stops.
Crash(why) ==
  /\ fault' = why
  /\ UNCHANGED <<tab_vars, proc_vars, thr_vars>>

Live(a) == mem[a] = "live"

\* kfree of a struct proc.  The fields of a free structure have no values that
\* any step uses; they are given the ones they start with.
kfree(a) ==
  /\ mem' = [mem EXCEPT ![a] = "free"]
  /\ p_pid' = [p_pid EXCEPT ![a] = 0]
  /\ p_status' = [p_status EXCEPT ![a] = "none"]
  /\ p_exited' = [p_exited EXCEPT ![a] = 0]
  /\ p_numthreads' = [p_numthreads EXCEPT ![a] = 0]
  /\ p_sem' = [p_sem EXCEPT ![a] = 0]
  /\ parent_proc' = [parent_proc EXCEPT ![a] = NULL]
-----------------------------------------------------------------------------
\* proc_init_waitpid's circular search: slot last_i + k, for k = 1, 2, ...  The
\* loop ends when it is back at last_i, whose slot it never looks at.
Circular(k) == IF last_i + k > MAX_PROC THEN last_i + k - MAX_PROC ELSE last_i + k

FreeOffsets == {k \in 1..(MAX_PROC - 1) : table[Circular(k)] = NULL}

\* Slot i is the first free one that the search meets.
NextSlot(i) ==
  \E k \in FreeOffsets : i = Circular(k) /\ \A j \in FreeOffsets : k <= j

\* proc_create up to the end of proc_init_waitpid, for fork and for the menu.
\* When the search fails, is_full is set under processTable.lk and the new
\* structure has pid 0 and no semaphore.
proc_create(t) ==
  /\ pc[t] \in {"user", "menu"}
  /\ \E a \in Procs :
       /\ mem[a] = "free"
       /\ mem' = [mem EXCEPT ![a] = "live"]
       /\ p_status' = [p_status EXCEPT ![a] = "none"]
       /\ p_exited' = [p_exited EXCEPT ![a] = 0]
       /\ p_numthreads' = [p_numthreads EXCEPT ![a] = 0]
       /\ p_sem' = [p_sem EXCEPT ![a] = 0]
       /\ parent_proc' = [parent_proc EXCEPT ![a] = NULL]
       /\ target' = [target EXCEPT ![t] = a]
       /\ \/ /\ \E i \in Slots :
                  /\ NextSlot(i)
                  /\ table' = [table EXCEPT ![i] = a]
                  /\ last_i' = i
                  /\ p_pid' = [p_pid EXCEPT ![a] = i]
             /\ UNCHANGED <<is_full, orderly>>
          \/ /\ FreeOffsets = {}
             /\ p_pid' = [p_pid EXCEPT ![a] = 0]
             /\ is_full' = TRUE
             /\ orderly' = FALSE
             /\ UNCHANGED <<table, last_i>>
  /\ Goto(t, "f_check")
  /\ UNCHANGED <<self, s, fault>>

\* The second half of proc_create: is_proc_table_full() reads the flag in a
\* section of its own, and decides from it whether the creation failed.
CheckFull(t) ==
  /\ pc[t] = "f_check"
  /\ \/ /\ is_full
        /\ kfree(target[t])
        /\ Return(t)
     \/ /\ ~is_full
        /\ Goto(t, IF t = Menu THEN "f_thread" ELSE "f_copy")
        /\ UNCHANGED <<proc_vars, self, target, s>>
  /\ UNCHANGED <<tab_vars, fault, orderly>>

\* sys_fork: as_copy, proc_file_table_copy and the trapframe.
CopyImage(t) ==
  /\ pc[t] = "f_copy"
  /\ \/ Goto(t, "f_thread")
     \/ "nomem" \in Events /\ Goto(t, "d_table")
  /\ UNCHANGED <<tab_vars, proc_vars, self, target, s, fault, orderly>>

\* Mutant of LinkParent: the child is never linked.
LinkParentNever(t) == parent_proc' = parent_proc

\* newp->parent_proc = curproc (not for the menu's programs), then thread_fork.
LinkParent(t) ==
  parent_proc' = IF t = Menu THEN parent_proc
                 ELSE [parent_proc EXCEPT ![target[t]] = self[t]]

\* Mutant of thread_fork: the new thread is not counted by proc_addthread.
ThreadForkUncounted(t) ==
  /\ pc[t] = "f_thread"
  /\ LinkParent(t)
  /\ \E u \in Thrs :
       /\ pc[u] = "free"
       /\ pc' = [pc EXCEPT ![u] = IF t = Menu THEN "prog" ELSE "user",
                           ![t] = IF t = Menu THEN "w_pid" ELSE "f_ret"]
       /\ self' = [self EXCEPT ![u] = target[t]]
  /\ UNCHANGED <<tab_vars, mem, p_pid, p_status, p_exited, p_numthreads, p_sem,
                 target, s, fault, orderly>>

\* thread_fork: the child's thread starts in newp, counted by proc_addthread.
thread_fork(t) ==
  /\ pc[t] = "f_thread"
  /\ LinkParent(t)
  /\ \E u \in Thrs :
       /\ pc[u] = "free"
       /\ pc' = [pc EXCEPT ![u] = IF t = Menu THEN "prog" ELSE "user",
                           ![t] = IF t = Menu THEN "w_pid" ELSE "f_ret"]
       /\ self' = [self EXCEPT ![u] = target[t]]
  /\ p_numthreads' = [p_numthreads EXCEPT ![target[t]] = @ + 1]
  /\ UNCHANGED <<tab_vars, mem, p_pid, p_status, p_exited, p_sem, target, s, fault, orderly>>

\* thread_fork without memory for the thread: proc_destroy(newp).
ForkNoThread(t) ==
  /\ pc[t] = "f_thread"
  /\ "nomem" \in Events \/ \A u \in Thrs : pc[u] # "free"
  /\ LinkParent(t)
  /\ Goto(t, "d_table")
  /\ UNCHANGED <<tab_vars, mem, p_pid, p_status, p_exited, p_numthreads, p_sem,
                 self, target, s, fault, orderly>>

\* *retval = newp->p_pid, after the child may have run.
ForkReturn(t) ==
  /\ pc[t] = "f_ret"
  /\ Return(t)
  /\ UNCHANGED <<tab_vars, proc_vars, fault, orderly>>

sys_fork(t) ==
  \/ proc_create(t) \/ CheckFull(t) \/ CopyImage(t)
  \/ thread_fork(t) \/ ForkNoThread(t) \/ ForkReturn(t)
-----------------------------------------------------------------------------
\* proc_search_pid, for a pid in PID_MIN..MAX_PROC with a process in its slot.
Found(t, pid) ==
  IF mem[table[pid]] = "free" \/ p_pid[table[pid]] # pid
  THEN Crash("search") /\ UNCHANGED orderly
  ELSE
     /\ target' = [target EXCEPT ![t] = table[pid]]
     /\ Goto(t, "w_lock")
     /\ UNCHANGED <<tab_vars, proc_vars, self, s, fault, orderly>>

\* waitpid called by a program, for any pid; ESRCH and EINVAL change nothing.
SearchPid(t) ==
  /\ pc[t] = "user"
  /\ \E pid \in PID_MIN..MAX_PROC : table[pid] # NULL /\ Found(t, pid)

\* common_prog calls sys_waitpid(proc->p_pid) and, on ESRCH, proc_destroy.
MenuSearchPid(t) ==
  /\ pc[t] = "w_pid"
  /\ LET pid == p_pid[target[t]] IN
     IF pid >= PID_MIN /\ table[pid] # NULL THEN Found(t, pid) ELSE
       /\ Goto(t, "d_table")
       /\ UNCHANGED <<tab_vars, proc_vars, self, target, s, fault, orderly>>

\* Mutant of WaitCheck: an exited process is reaped with the status it was
\* created with, as if s were read before the lock.
WaitCheckStale(t) ==
  /\ pc[t] = "w_lock"
  /\ mem[target[t]] # "free"
  /\ \/ /\ t # Menu /\ parent_proc[target[t]] # self[t]
        /\ Return(t)
     \/ /\ t = Menu \/ parent_proc[target[t]] = self[t]
        /\ Goto(t, IF p_exited[target[t]] = 1 THEN "d_table" ELSE "w_sem")
        /\ UNCHANGED <<self, target, s>>
  /\ UNCHANGED <<tab_vars, proc_vars, fault, orderly>>

\* sys_waitpid under p_lock: ECHILD, the process has exited, WNOHANG, or wait.
WaitCheck(t) ==
  /\ pc[t] = "w_lock"
  /\ IF mem[target[t]] = "free" THEN Crash("freed") /\ UNCHANGED orderly ELSE
     /\ \/ /\ t # Menu /\ parent_proc[target[t]] # self[t]
           /\ Return(t)
        \/ /\ t = Menu \/ parent_proc[target[t]] = self[t]
           /\ p_exited[target[t]] = 1
           /\ s' = [s EXCEPT ![t] = p_status[target[t]]]
           /\ Goto(t, "d_table")
           /\ UNCHANGED <<self, target>>
        \/ /\ t # Menu /\ parent_proc[target[t]] = self[t]
           /\ p_exited[target[t]] # 1
           /\ Return(t)
        \/ /\ t = Menu \/ parent_proc[target[t]] = self[t]
           /\ p_exited[target[t]] # 1
           /\ Goto(t, "w_sem")
           /\ UNCHANGED <<self, target, s>>
     /\ UNCHANGED <<tab_vars, proc_vars, fault, orderly>>

\* P(p_sem) returns, and p_status is read.
proc_wait(t) ==
  /\ pc[t] = "w_sem"
  /\ IF ~Live(target[t]) THEN Crash("freed") /\ UNCHANGED orderly ELSE
     /\ p_sem[target[t]] > 0
     /\ p_sem' = [p_sem EXCEPT ![target[t]] = @ - 1]
     /\ s' = [s EXCEPT ![t] = p_status[target[t]]]
     /\ Goto(t, "d_table")
     /\ UNCHANGED <<tab_vars, mem, p_pid, p_status, p_exited, p_numthreads, parent_proc,
                    self, target, fault, orderly>>
-----------------------------------------------------------------------------
\* Somebody other than t still points to a: a thread running in it or holding a
\* pointer to it, or a child whose parent_proc it is.
Referenced(t, a) ==
  \/ \E u \in Threads \ {t} : self[u] = a \/ target[u] = a
  \/ \E b \in Procs : Live(b) /\ parent_proc[b] = a

\* sem_destroy finds a thread asleep on the semaphore.
Sleeper(t, a) == \E u \in Threads \ {t} : pc[u] = "w_sem" /\ target[u] = a /\ p_sem[a] = 0

\* Mutant of EndWaitpid: the slot of the table is not cleared.
EndWaitpidKeepsSlot(t) ==
  /\ pc[t] = "d_table"
  /\ orderly' = (orderly /\ ~Referenced(t, target[t]))
  /\ Live(target[t]) /\ p_numthreads[target[t]] = 0 /\ p_pid[target[t]] # 0
  /\ is_full' = FALSE
  /\ mem' = [mem EXCEPT ![target[t]] = "dying"]
  /\ Goto(t, "d_free")
  /\ UNCHANGED <<table, last_i, p_pid, p_status, p_exited, p_numthreads, p_sem, parent_proc,
                 self, target, s, fault>>

\* What stops the kernel in proc_destroy(a) before the structure is freed.
DestroyFault(t, a) ==
  IF ~Live(a) THEN "freed"
  ELSE IF p_numthreads[a] # 0 THEN "numthreads"
  ELSE IF p_pid[a] = 0 THEN "pid"
  ELSE IF Sleeper(t, a) THEN "sleeper"
  ELSE "none"

\* proc_destroy down to the end of proc_end_waitpid.
EndWaitpid(t) ==
  /\ pc[t] = "d_table"
  /\ orderly' = (orderly /\ ~Referenced(t, target[t]))
  /\ IF DestroyFault(t, target[t]) # "none" THEN Crash(DestroyFault(t, target[t])) ELSE
     /\ table' = [table EXCEPT ![p_pid[target[t]]] = NULL]
     /\ is_full' = FALSE
     /\ mem' = [mem EXCEPT ![target[t]] = "dying"]
     /\ Goto(t, "d_free")
     /\ UNCHANGED <<last_i, p_pid, p_status, p_exited, p_numthreads, p_sem, parent_proc,
                    self, target, s, fault>>

\* The rest of proc_destroy: the file table is closed and the structure freed.
FreeProc(t) ==
  /\ pc[t] = "d_free"
  /\ kfree(target[t])
  /\ Return(t)
  /\ UNCHANGED <<tab_vars, fault, orderly>>

proc_destroy(t) == EndWaitpid(t) \/ FreeProc(t)

sys_waitpid(t) == SearchPid(t) \/ MenuSearchPid(t) \/ WaitCheck(t) \/ proc_wait(t)
-----------------------------------------------------------------------------
\* sys__exit, the section under p_lock.
sys__exit(t) ==
  /\ pc[t] = "user"
  /\ p_status' = [p_status EXCEPT ![self[t]] = "exit"]
  /\ p_exited' = [p_exited EXCEPT ![self[t]] = 1]
  /\ Goto(t, "e_rem")
  /\ UNCHANGED <<tab_vars, mem, p_pid, p_numthreads, p_sem, parent_proc,
                 self, target, s, fault, orderly>>

\* proc_remthread, called by sys__exit or by thread_exit; sys__exit keeps its p.
proc_remthread(t) ==
  /\ pc[t] \in {"e_rem", "k_rem", "r_rem"}
  /\ IF mem[self[t]] = "free" THEN Crash("freed") /\ UNCHANGED orderly
     ELSE IF p_numthreads[self[t]] = 0 THEN Crash("numthreads") /\ UNCHANGED orderly
     ELSE
       /\ p_numthreads' = [p_numthreads EXCEPT ![self[t]] = @ - 1]
       /\ IF pc[t] = "e_rem" THEN Goto(t, "e_link") /\ UNCHANGED <<self, target, s>>
          ELSE ThreadGone(t)
       /\ UNCHANGED <<tab_vars, mem, p_pid, p_status, p_exited, p_sem, parent_proc,
                      fault, orderly>>

\* Mutant of ChildrenOf: the loop unlinks nothing.
ChildrenOfNone(pid) == {}

\* The structures that the loop of proc_rm_parent_link(pid) unlinks.
ChildrenOf(pid) ==
  {a \in {table[i] : i \in Slots} \ {NULL} :
     /\ parent_proc[a] # NULL
     /\ mem[parent_proc[a]] # "free"
     /\ p_pid[parent_proc[a]] = pid}

\* What stops the kernel in proc_rm_parent_link(p->p_pid): p is freed, its pid is
\* out of range, or a process of the table is freed.
LinkFault(p) ==
  IF mem[p] = "free" THEN "freed"
  ELSE IF p_pid[p] < PID_MIN THEN "pid"
  ELSE IF \E i \in Slots : table[i] # NULL /\ mem[table[i]] = "free" THEN "freed"
  ELSE "none"

\* proc_rm_parent_link(p->p_pid): every process of the table is looked at.
proc_rm_parent_link(t) ==
  /\ pc[t] = "e_link"
  /\ IF LinkFault(self[t]) # "none" THEN Crash(LinkFault(self[t])) /\ UNCHANGED orderly ELSE
     /\ parent_proc' = [a \in Addrs |-> IF a \in ChildrenOf(p_pid[self[t]]) THEN NULL
                                        ELSE parent_proc[a]]
     /\ Goto(t, "e_sem")
     /\ UNCHANGED <<tab_vars, mem, p_pid, p_status, p_exited, p_numthreads, p_sem,
                    self, target, s, fault, orderly>>

\* Mutant of proc_signal_end: the wakeup is forgotten.
SignalEndForgotten(t) ==
  /\ pc[t] = "e_sem"
  /\ ThreadGone(t)
  /\ UNCHANGED <<tab_vars, proc_vars, fault, orderly>>

\* proc_signal_end(p), then thread_exit.
proc_signal_end(t) ==
  /\ pc[t] = "e_sem"
  /\ IF ~Live(self[t]) THEN Crash("freed") /\ UNCHANGED orderly ELSE
     /\ p_sem' = [p_sem EXCEPT ![self[t]] = @ + 1]
     /\ ThreadGone(t)
     /\ UNCHANGED <<tab_vars, mem, p_pid, p_status, p_exited, p_numthreads, parent_proc,
                    fault, orderly>>

ExitSteps(t) == proc_remthread(t) \/ proc_rm_parent_link(t) \/ proc_signal_end(t)

\* kill_curthread: p_exited is set first, p_status next, neither under p_lock;
\* thread_exit follows.
kill_curthread(t) ==
  \/ /\ pc[t] = "user" /\ "trap" \in Events
     /\ p_exited' = [p_exited EXCEPT ![self[t]] = 1]
     /\ Goto(t, "k_status")
     /\ UNCHANGED p_status
     /\ UNCHANGED <<tab_vars, mem, p_pid, p_numthreads, p_sem, parent_proc,
                    self, target, s, fault, orderly>>
  \/ /\ pc[t] = "k_status"
     /\ p_status' = [p_status EXCEPT ![self[t]] = "signal"]
     /\ Goto(t, "k_rem")
     /\ UNCHANGED p_exited
     /\ UNCHANGED <<tab_vars, mem, p_pid, p_numthreads, p_sem, parent_proc,
                    self, target, s, fault, orderly>>

\* cmd_progthread: the program runs, or runprogram fails and proc_signal_end is
\* called from the thread that is still in the process.
cmd_progthread(t) ==
  /\ pc[t] = "prog"
  /\ \/ /\ Goto(t, "user")
        /\ UNCHANGED <<p_sem, fault>>
     \/ /\ "badprog" \in Events
        /\ p_pid[self[t]] # 0
        /\ p_sem' = [p_sem EXCEPT ![self[t]] = @ + 1]
        /\ Goto(t, "r_rem")
        /\ UNCHANGED fault
     \/ /\ "badprog" \in Events
        /\ p_pid[self[t]] = 0     \* p_sem was never created
        /\ fault' = "freed"
        /\ UNCHANGED <<p_sem, pc>>
  /\ UNCHANGED <<tab_vars, mem, p_pid, p_status, p_exited, p_numthreads, parent_proc,
                 self, target, s, orderly>>
-----------------------------------------------------------------------------
\* The steps a thread takes inside the kernel once it is there.
Kernel(t) ==
  \/ CheckFull(t) \/ CopyImage(t) \/ thread_fork(t) \/ ForkNoThread(t) \/ ForkReturn(t)
  \/ MenuSearchPid(t) \/ WaitCheck(t) \/ proc_wait(t) \/ proc_destroy(t)
  \/ ExitSteps(t)
  \/ (pc[t] = "k_status" /\ kill_curthread(t))
  \/ cmd_progthread(t)

Step(t) == sys_fork(t) \/ sys_waitpid(t) \/ proc_destroy(t) \/ sys__exit(t) \/ ExitSteps(t)
           \/ kill_curthread(t) \/ cmd_progthread(t)

Next == fault = "none" /\ \E t \in Threads : Step(t)

\* A thread that is in the kernel and can run is scheduled again.  Nothing obliges
\* a program to make a system call or the menu to start one.
Fairness == \A t \in Threads : WF_vars(fault = "none" /\ Kernel(t))

Spec == Init /\ [][Next]_vars

FairSpec == Spec /\ Fairness
-----------------------------------------------------------------------------
\* Types of the variables; a pid is 0 only for a process created in a full table.
TypeOK ==
  /\ table \in [Slots -> Addrs \cup {NULL}]
  /\ last_i \in Slots
  /\ is_full \in BOOLEAN
  /\ mem \in [Addrs -> {"free", "live", "dying"}]
  /\ p_pid \in [Addrs -> 0..MAX_PROC]
  /\ p_status \in [Addrs -> {"none", "exit", "signal"}]
  /\ p_exited \in [Addrs -> 0..1]
  /\ p_numthreads \in [Addrs -> Nat]
  /\ p_sem \in [Addrs -> Nat]
  /\ parent_proc \in [Addrs -> Addrs \cup {NULL}]
  /\ pc \in [Threads -> Pcs]
  /\ self \in [Threads -> Addrs \cup {NULL}]
  /\ target \in [Threads -> Addrs \cup {NULL}]
  /\ s \in [Threads -> {"none", "exit", "signal"}]
  /\ fault \in Faults
  /\ orderly \in BOOLEAN

\* As long as proc_destroy is only called by the holder of the only reference
\* (what the comment at its head asks for) and the table never fills, the table
\* lists exactly the structures that exist, each in the slot of its pid.
TableSound ==
  orderly =>
    /\ \A i \in Slots : table[i] # NULL => Live(table[i]) /\ p_pid[table[i]] = i
    /\ \A a \in Addrs : Live(a) => p_pid[a] \in Slots /\ table[p_pid[a]] = a

\* Under the same two conditions no KASSERT of proc.c fails and no thread touches
\* a freed struct proc, whatever calls, traps and failures are interleaved.
KernelSafe == orderly => fault = "none"

\* Under the same conditions, the process whose pid fork is about to return is
\* still there, is the caller's child, and can be waited for by that pid, although
\* sys_fork reads p_pid only after the child may have run and exited.
ForkReturnsLiveChild ==
  orderly => \A t \in Threads : pc[t] = "f_ret" =>
    /\ Live(target[t])
    /\ parent_proc[target[t]] = self[t]
    /\ table[p_pid[target[t]]] = target[t]

\* A live process linked to a parent has a parent that is still running, or that
\* was killed: whoever calls _exit passes proc_rm_parent_link, and no child keeps a
\* pointer to it.  kill_curthread leaves the links.
ParentStillRunning ==
  orderly => \A b \in Addrs : Live(b) /\ parent_proc[b] # NULL =>
    \/ \E u \in Threads : self[u] = parent_proc[b] /\ pc[u] \notin {"e_sem", "free"}
    \/ Live(parent_proc[b]) /\ p_status[parent_proc[b]] = "signal"

\* A pid is given up only by proc_destroy, and that of a process that called _exit
\* only when the parent, or the menu, holds the status the process ended with.
StatusCollected ==
  [][orderly' => \A i \in Slots : table[i] # NULL /\ table'[i] # table[i] =>
       /\ table'[i] = NULL
       /\ p_status[table[i]] = "exit" =>
            \E t \in Threads :
              /\ target[t] = table[i] /\ s[t] = "exit"
              /\ t = Menu \/ parent_proc[table[i]] = self[t]]_vars

\* A thread asleep in waitpid for a process that has exited returns from the wait
\* (or the kernel stops first).
WaitReturns ==
  \A t \in Threads :
    (pc[t] = "w_sem" /\ p_exited[target[t]] = 1) ~> (pc[t] # "w_sem" \/ fault # "none")
-----------------------------------------------------------------------------
(* What comments, assertions and manual pages say that the code does not keep. *)

\* proc_destroy's KASSERT(proc->p_numthreads == 0) holds.
NoThreadsAtDestroy == fault # "numthreads"

\* A process that runs has a pid "greater than 0".
PidPositive == \A t \in Threads : pc[t] = "user" => p_pid[self[t]] > 0
=============================================================================
